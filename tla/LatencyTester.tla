----------------------------- MODULE LatencyTester -----------------------------
(***************************************************************************)
(* The latency tester client (orv_latencytesterclient.cpp): a thread that  *)
(* connects to a measuring server beside the VNC server and asks it for    *)
(* updates of the screen, one request at a time.  Its callback only posts  *)
(* to the event loop of the application (`tells` and `answers`).           *)
(***************************************************************************)
EXTENDS Sequences

VARIABLES
    tester,             \* the client and its thread: "none", "connecting", "idle", "asking", "finished"
    mWantSendRequest,   \* an update is asked for
    posted              \* events posted to the application

testerVars == <<tester, mWantSendRequest>>

TesterTypeOK ==
    /\ tester \in {"none", "connecting", "idle", "asking", "finished"}
    /\ mWantSendRequest \in BOOLEAN

TesterInit ==
    /\ tester = "none"
    /\ mWantSendRequest = FALSE

(* The callback's queued call of canAbortConnectionToLatencyTesterUpdated(). *)
tells(connected) == [type |-> "tester", connected |-> connected]

answer == [type |-> "latency"]

(* ORV_LATENCY_TESTER_CONNECT_RESULT of a connection with the right HELO.  *)
TesterConnected ==
    /\ tester = "connecting"
    /\ tester' = "idle"
    /\ posted' = Append(posted, tells(TRUE))
    /\ UNCHANGED mWantSendRequest

(* The connection fails, or the HELO is not one: a result with an error,   *)
(* then ORV_LATENCY_TESTER_DISCONNECTED as the thread ends.                *)
TesterRefused ==
    /\ tester = "connecting"
    /\ tester' = "finished"
    /\ posted' = posted \o <<tells(FALSE), tells(FALSE)>>
    /\ UNCHANGED mWantSendRequest

TesterAsks ==
    /\ tester = "idle"
    /\ mWantSendRequest
    /\ tester' = "asking"
    /\ UNCHANGED <<mWantSendRequest, posted>>

(* The response; a request made since TesterAsks is reset with the one it  *)
(* answers.                                                                *)
TesterAnswered ==
    /\ tester = "asking"
    /\ tester' = "idle"
    /\ mWantSendRequest' = FALSE
    /\ posted' = Append(posted, answer)

(* A write or read fails, or the response is malformed.                    *)
TesterFails ==
    /\ tester = "asking"
    /\ tester' = "finished"
    /\ posted' = Append(posted, tells(FALSE))
    /\ UNCHANGED mWantSendRequest

TesterThread == TesterConnected \/ TesterRefused \/ TesterAsks \/ TesterAnswered \/ TesterFails

(* Faulty: the thread that is told to quit says nothing. *)
farewell_None == <<>>

(* What the destructor makes the thread post before it is joined: a        *)
(* connecting thread has its attempt interrupted.                          *)
farewell ==
    CASE tester \in {"none", "finished"} -> <<>>
      [] tester \in {"idle", "asking"} -> <<tells(FALSE)>>
      [] tester = "connecting" -> <<tells(FALSE), tells(FALSE)>>

(* orv_latency_tester_disconnect(): returns when the thread has ended.     *)
testerDisconnect ==
    /\ tester' = "none"
    /\ mWantSendRequest' = FALSE
    /\ posted' = posted \o farewell

(* orv_latency_tester_connect(), after the disconnect of the previous one. *)
testerConnect ==
    /\ tester' = "connecting"
    /\ mWantSendRequest' = FALSE
    /\ posted' = posted \o farewell

(* orv_latency_tester_request_update(): refused without a valid client.    *)
testerRequestUpdate ==
    /\ mWantSendRequest' = (mWantSendRequest \/ tester \in {"connecting", "idle", "asking"})
    /\ UNCHANGED <<tester, posted>>
=============================================================================
