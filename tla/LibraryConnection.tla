--------------------------- MODULE LibraryConnection ---------------------------
(***************************************************************************)
(* The connection of an orv_context_t in the steps an application can tell *)
(* apart: what its calls find (the state), and what it is told (the        *)
(* events).  VncClient implements it (VncClient!ConnectionAsSeen); the Qt  *)
(* client is checked on top of it (QtClient).                              *)
(***************************************************************************)
EXTENDS Naturals

CONSTANT SelectFails    \* whether the thread's select() may fail

VARIABLES
    state,      \* "NotConnected", "Connecting" or "Connected": what orv_connect() and orv_is_connected() see
    requested,  \* orv_disconnect() was called and not yet looked at
    at,         \* what the thread is about to do, having changed the state: "free" if nothing
    view,       \* the connection according to the events sent so far
    owed        \* accepted orv_connect() calls without a result

connectionVars == <<state, requested, at, view, owed>>

States == {"NotConnected", "Connecting", "Connected"}
Positions == {"free", "succeeded", "aborting", "failed", "leaving", "ending"}

ConnectionTypeOK ==
    /\ state \in States
    /\ requested \in BOOLEAN
    /\ at \in Positions
    /\ view \in {"unstarted", "none", "up", "failed", "stopped"}
    /\ owed \in Nat

ConnectionInit ==
    /\ state = "NotConnected"
    /\ requested = FALSE
    /\ at = "free"
    /\ view = "unstarted"
    /\ owed = 0

Started ==
    /\ view = "unstarted"
    /\ view' = "none"
    /\ UNCHANGED <<state, requested, at, owed>>

(* orv_connect() that is accepted.  It takes back a disconnect that still  *)
(* waits to be looked at.                                                  *)
Connect ==
    /\ state = "NotConnected"
    /\ state' = "Connecting"
    /\ requested' = FALSE
    /\ owed' = owed + 1
    /\ UNCHANGED <<at, view>>

Disconnect ==
    /\ requested' = TRUE
    /\ UNCHANGED <<state, at, view, owed>>

AttemptSucceeds ==
    /\ at = "free"
    /\ view = "none"
    /\ state = "Connecting"
    /\ state' = "Connected"
    /\ at' = "succeeded"
    /\ UNCHANGED <<requested, view, owed>>

(* An attempt is going to fail; if a disconnect was noticed before it      *)
(* began, its state is reset first.                                        *)
Abandons ==
    /\ at = "free"
    /\ view = "none"
    /\ state = "Connecting"
    /\ state' \in {"Connecting", "NotConnected"}
    /\ at' = "aborting"
    /\ UNCHANGED <<requested, view, owed>>

(* The connection is lost, or a disconnect is noticed, without a           *)
(* connection too.                                                         *)
Leaves ==
    /\ at = "free"
    /\ view \in {"none", "up"}
    /\ \/ state = "Connected"
       \/ state = "NotConnected" /\ requested
       \/ SelectFails
    /\ at' = "leaving"
    /\ UNCHANGED <<state, requested, view, owed>>

(* An orv_connect() accepted since then is forgotten: it stays owed.       *)
Closes ==
    /\ at \in {"aborting", "leaving"}
    /\ state' = "NotConnected"
    /\ requested' = FALSE
    /\ at' = IF at = "aborting" THEN "failed" ELSE "ending"
    /\ UNCHANGED <<view, owed>>

(* ORV_EVENT_CONNECT_RESULT *)
TellSucceeded ==
    /\ at = "succeeded"
    /\ view' = "up"
    /\ owed' = owed - 1
    /\ at' = "free"
    /\ UNCHANGED <<state, requested>>

TellFailed ==
    /\ at = "failed"
    /\ view' = "failed"
    /\ owed' = owed - 1
    /\ at' = "ending"
    /\ UNCHANGED <<state, requested>>

(* ORV_EVENT_DISCONNECTED *)
TellDisconnected ==
    /\ at = "ending"
    /\ view' = "none"
    /\ at' = "free"
    /\ UNCHANGED <<state, requested, owed>>

Stops ==
    /\ at = "free"
    /\ view \in {"none", "up"}
    /\ view' = "stopped"
    /\ UNCHANGED <<state, requested, at, owed>>

ThreadMoves ==
    \/ Started \/ AttemptSucceeds \/ Abandons \/ Leaves \/ Closes
    \/ TellSucceeded \/ TellFailed \/ TellDisconnected \/ Stops

ConnectionSpec ==
    ConnectionInit /\ [][ThreadMoves \/ Connect \/ Disconnect]_connectionVars
=============================================================================
