--------------------------- MODULE ConnectionEvents ---------------------------
(***************************************************************************)
(* What an application may rely on, from its calls of orv_connect() and    *)
(* the events it is sent alone: every ORV_EVENT_CONNECT_RESULT answers an  *)
(* accepted orv_connect() and comes while no connection exists, a failed   *)
(* result is followed by ORV_EVENT_DISCONNECTED, a connection ends before  *)
(* the next result, ORV_EVENT_THREAD_STARTED is the first event and        *)
(* ORV_EVENT_THREAD_ABOUT_TO_STOP the last.                                *)
(***************************************************************************)
EXTENDS Naturals

VARIABLES view, owedResults

eventVars == <<view, owedResults>>

EventsInit == view = "unstarted" /\ owedResults = 0

CallConnect == owedResults' = owedResults + 1 /\ UNCHANGED view

ThreadStarted == view = "unstarted" /\ view' = "none" /\ UNCHANGED owedResults

ConnectResult ==
    /\ view = "none"
    /\ owedResults > 0
    /\ view' \in {"up", "failed"}
    /\ owedResults' = owedResults - 1

(* Without a connection too: orv_disconnect() is always answered. *)
Disconnected ==
    /\ view \in {"none", "up", "failed"}
    /\ view' = "none"
    /\ UNCHANGED owedResults

(* The application may destroy the context of a live connection. *)
ThreadAboutToStop ==
    /\ view \in {"none", "up"}
    /\ view' = "stopped"
    /\ UNCHANGED owedResults

EventsNext == CallConnect \/ ThreadStarted \/ ConnectResult \/ Disconnected \/ ThreadAboutToStop

EventsSpec == EventsInit /\ [][EventsNext]_eventVars
=============================================================================
