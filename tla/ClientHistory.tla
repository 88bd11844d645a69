---------------------------- MODULE ClientHistory ----------------------------
(***************************************************************************)
(* What an observer of the library remembers.  None of these variables     *)
(* exists in the code and no guard of a modelled step reads one, with the  *)
(* exception of the bounds MaxConnects and MaxInputs, which keep the state  *)
(* space finite.                                                           *)
(***************************************************************************)
EXTENDS Naturals

CONSTANTS
    MaxConnects,    \* bound: accepted calls of orv_connect()
    MaxInputs       \* bound: key and pointer events queued

ASSUME BoundsAssumption == MaxConnects \in Nat /\ MaxInputs \in Nat

VARIABLES
    connects,       \* orv_connect() calls accepted so far; the number of the current connection
    inputs,         \* key and pointer events queued so far; the identity of the newest
    view,           \* the connection as the events of the library describe it
    owedResults,    \* accepted orv_connect() calls with no ORV_EVENT_CONNECT_RESULT yet
    owedDisconnect, \* orv_disconnect() was called, no ORV_EVENT_DISCONNECTED since
    disconnects,    \* orv_disconnect() was called, and orv_connect() after it
    lastSent,       \* newest key or pointer event written to the socket
    responded       \* the current connection has received a complete FramebufferUpdate

(* What the event callback was told last: nothing, ORV_EVENT_THREAD_STARTED *)
(* or ORV_EVENT_DISCONNECTED, a successful or failed                       *)
(* ORV_EVENT_CONNECT_RESULT, ORV_EVENT_THREAD_ABOUT_TO_STOP.               *)
Views == {"unstarted", "none", "up", "failed", "stopped"}

historyVars == <<connects, inputs, view, owedResults, owedDisconnect, disconnects,
                lastSent, responded>>

HistoryTypeOK ==
    /\ connects \in 0..MaxConnects
    /\ inputs \in 0..MaxInputs
    /\ view \in Views
    /\ owedResults \in 0..MaxConnects
    /\ owedDisconnect \in BOOLEAN
    /\ disconnects \in {"none", "called", "reconnected"}
    /\ lastSent \in 0..MaxInputs
    /\ responded \in BOOLEAN

HistoryInit ==
    /\ connects = 0
    /\ inputs = 0
    /\ view = "unstarted"
    /\ owedResults = 0
    /\ owedDisconnect = FALSE
    /\ disconnects = "none"
    /\ lastSent = 0
    /\ responded = FALSE
=============================================================================
