------------------------------- MODULE VncClient -------------------------------
(***************************************************************************)
(* The VNC client of libopenrv: an application calling the API             *)
(* (OrvVncClient) concurrently with the connection thread                  *)
(* (ConnectionThread), over the data they share (SharedData).              *)
(***************************************************************************)
EXTENDS OrvVncClient, ConnectionThread

vars == <<sharedVars, clientVars, threadVars, historyVars>>

Init == SharedInit /\ ClientInit /\ ThreadInit /\ HistoryInit

(* ~OrvVncClient() joins the thread. *)
Join ==
    /\ client = "joining"
    /\ pc = "stopped"
    /\ client' = "gone"
    /\ UNCHANGED <<mViewOnly, inputCall, sharedVars, threadVars, historyVars>>

Terminated == client = "gone" /\ UNCHANGED vars

Client == ClientStep /\ UNCHANGED threadVars
Thread == ThreadStep /\ UNCHANGED clientVars
Outside == External /\ UNCHANGED clientVars

Next == Client \/ Thread \/ Outside \/ Join \/ Terminated

(* A blocking read or write of the socket comes to an end: the bytes it    *)
(* transfers are finite and it fails when none moves for the timeout.      *)
(* (TlsHandshakeEnds is not among them: it is up to the server.)           *)
IoEnds == (StageDone \/ MessageSent \/ IoFails) /\ UNCHANGED clientVars

(* What was received is finite, so processing it comes to an end. *)
DataEnds == (DataConsumed \/ ReceiveFails \/ ProtocolError) /\ UNCHANGED clientVars

(* The thread keeps running and is not starved of mMutex; the application  *)
(* gives an acquired framebuffer back.  Nothing is assumed of the server.  *)
Fairness ==
    /\ SF_vars(Thread)
    /\ SF_vars(IoEnds)
    /\ WF_vars(DataEnds)
    /\ WF_vars(StartupWait /\ UNCHANGED threadVars)
    /\ SF_vars(StartupNotified /\ UNCHANGED threadVars)
    /\ WF_vars(releaseFramebuffer /\ UNCHANGED threadVars)
    /\ WF_vars(Join)

Spec == Init /\ [][Next]_vars
FairSpec == Spec /\ Fairness

TypeOK == SharedTypeOK /\ ClientTypeOK /\ ThreadTypeOK /\ HistoryTypeOK

-----------------------------------------------------------------------------
(* Safety *)

(* The thread is asked to abort if, and only if, it is asked to quit or to *)
(* disconnect: its checkpoints look at mAbortFlag alone, and an attempt is *)
(* not given up for a request that was taken back.                         *)
AbortExplained == mAbortFlag <=> mWantQuitThread \/ mUserRequestedDisconnect

(* The thread never goes to sleep on a disconnect request: while it waits  *)
(* for the pipe or the socket and the request stands, the pipe is readable *)
(* and the wait ends at once.                                              *)
DisconnectWakes == pc \in {"select", "wait"} /\ mUserRequestedDisconnect => pipe

(* An accepted orv_connect() is never slept on either. *)
ConnectWakes == pc = "select" /\ mState = "StartConnection" => pipe

(* The branches run() and startConnection() mark "should not be reached"   *)
(* and "Internal error" are not: the state at the top of the loop is never *)
(* ConnectionPending, and a connection is started from StartConnection, on *)
(* a closed socket.                                                        *)
NoInternalError ==
    /\ pc = "top" => mState # "ConnectionPending"
    /\ pc = "start" => mState = "StartConnection" /\ stage = "idle"

(* The socket is open in the stages the shared state says it is, and the   *)
(* events agree: the application is told of a connection before any data   *)
(* of it, and a connection is reported before its end.                     *)
StateMatchesStage ==
    /\ mState = "Connected" <=> stage = "connected"
    /\ mState = "ConnectionPending" => stage \notin {"idle", "connected"}
    /\ stage = "connected" /\ pc \notin {"connectSucceeded", "stopped"} => view = "up"
    /\ stage # "connected" /\ pc # "disconnected" => view # "up"

(* The key and pointer events that are neither written nor lost: those the *)
(* thread has taken over, after a request, and those still queued.         *)
TakenInputs ==
    IF toSend # <<>> /\ Head(toSend).type = "request" THEN Tail(toSend) ELSE toSend
Line == TakenInputs \o mClientSendEvents

(* A key or pointer event reaches the server at most once, in the order of *)
(* the calls and without gaps, and only in the connection it was meant     *)
(* for: those in line are the newest ones, in their order, and none of     *)
(* them has been written.                                                  *)
InputsInLine ==
    pc # "disconnect" /\ stage = "connected" =>
        /\ \A i \in DOMAIN Line :
             /\ Line[i].type = "input"
             /\ Line[i].conn = connects
             /\ Line[i].id = inputs - Len(Line) + i
        /\ lastSent <= inputs - Len(Line)

(* Once authenticated, the thread keeps no password. *)
PasswordForgotten == stage \in {"init", "setup", "connected"} => threadPassword = NoPassword

(* mHaveFramebufferUpdateResponse, which lets a request be incremental,    *)
(* speaks of the current connection from the security stage on: it is set  *)
(* only if that connection has received a complete update.                 *)
ResponseFlagHonest ==
    stage \in {"security", "init", "setup", "connected"} /\ mHaveFramebufferUpdateResponse
        => responded

(* The events implement ConnectionEvents. *)
Events == INSTANCE ConnectionEvents
EventsInOrder == Events!EventsSpec

(* The connection in the steps an application can tell apart.              *)
SeenState == IF mState \in {"StartConnection", "ConnectionPending"} THEN "Connecting" ELSE mState

SeenPosition ==
    CASE pc = "connectSucceeded" -> "succeeded"
      [] pc = "abort" -> "aborting"
      [] pc = "connectFailed" -> "failed"
      [] pc = "disconnect" -> "leaving"
      [] pc = "disconnected" -> "ending"
      [] OTHER -> "free"

Connection == INSTANCE LibraryConnection WITH
    state <- SeenState,
    requested <- mUserRequestedDisconnect,
    at <- SeenPosition,
    owed <- owedResults

ConnectionAsSeen == Connection!ConnectionSpec

(* A thread asleep has nothing left to tell an application that has not     *)
(* called orv_connect() after orv_disconnect(): every orv_connect() was     *)
(* answered and so was orv_disconnect().                                   *)
NothingOwedAsleep ==
    pc = "select" /\ ~pipe /\ disconnects # "reconnected" => owedResults = 0 /\ ~owedDisconnect

-----------------------------------------------------------------------------
(* The inductive invariant behind the safety properties. *)

(* Where in its code the thread can be in each stage of a connection. *)
PositionInv ==
    /\ pc \in {"started", "notify", "start", "connectFailed", "disconnected"} => stage = "idle"
    /\ pc \in {"connectSucceeded", "connected", "readable", "data"} => stage = "connected"
    /\ pc = "checkpoint" => stage \in Handshake
    /\ pc \in {"io", "wait", "check"} => stage # "idle"
    /\ pc = "tls" => stage = "security"
    /\ pc = "abort" => stage # "connected"
    /\ pc \in {"top", "sync", "select", "signalled", "disconnect"} => stage \notin Handshake

(* The shared state follows the stage. *)
StateInv ==
    /\ mState = "Connected" <=> stage = "connected"
    /\ mState = "ConnectionPending" <=> stage \in Handshake
    /\ pc = "start" => mState = "StartConnection"

(* Either the pipe still tells of a disconnect request, or the thread is   *)
(* on its way to look at the flags before it can sleep again; likewise for *)
(* an accepted orv_connect().                                              *)
WakeInv ==
    /\ mUserRequestedDisconnect =>
         \/ pipe
         \/ pc \in {"check", "signalled", "readable", "top", "abort", "disconnect",
                     "stopping", "stopped"}
    /\ mState = "StartConnection" /\ pc \in {"sync", "select"} => pipe

(* What the application has been told in each position of the thread. *)
ViewInv ==
    /\ pc = "started" => view = "unstarted"
    /\ pc = "stopped" => view = "stopped"
    /\ pc = "disconnected" => view \in {"none", "up", "failed"}
    /\ pc \notin {"started", "stopped", "disconnected"} =>
         view = IF stage = "connected" /\ pc # "connectSucceeded" THEN "up" ELSE "none"

(* Every result the thread is going to report was asked for: one for the   *)
(* connection the shared state asks for, one for the attempt under way.    *)
Requested == IF mState = "StartConnection" THEN 1 ELSE 0
UnderWay == IF stage \in Handshake \/ pc \in {"connectFailed", "connectSucceeded"} THEN 1 ELSE 0

OwedInv ==
    /\ owedResults >= Requested + UnderWay
    /\ pc = "abort" => owedResults >= 1
    /\ owedResults <= connects
    /\ mState # "NotConnected" => connects >= 1

(* A message is being written only if there is one; a key or pointer event *)
(* on its way into the queue has room there.                               *)
QueueInv ==
    /\ stage = "connected" /\ pc \in {"io", "wait", "check"} => toSend # <<>>
    /\ inputCall => inputs < MaxInputs

SafetyInv ==
    /\ TypeOK
    /\ AbortExplained
    /\ PositionInv
    /\ StateInv
    /\ WakeInv
    /\ ViewInv
    /\ OwedInv
    /\ QueueInv

(* The password is wiped before the security stage is left. *)
PasswordInv ==
    /\ PasswordForgotten
    /\ stage = "security" /\ pc = "checkpoint" => threadPassword = NoPassword

(* Messages are left to be written only while one is being written. *)
LineInv ==
    /\ InputsInLine
    /\ stage # "connected" \/ pc \notin {"io", "wait", "check", "disconnect"} => toSend = <<>>
    /\ lastSent <= inputs

(* What one connection leaves to the next, on top of SafetyInv. *)
TrafficInv == PasswordInv /\ ResponseFlagHonest /\ LineInv

(* An attempt given up by startConnection(), before its socket is opened. *)
Abandoned == IF pc = "abort" /\ stage = "idle" /\ mState = "NotConnected" THEN 1 ELSE 0

(* The account of what an application is owed that has not called           *)
(* orv_connect() after orv_disconnect(), on top of SafetyInv: no            *)
(* connection is asked for while the thread gives up an earlier one, so    *)
(* that no request is dropped along with it.                               *)
Account ==
    /\ owedResults = Requested + UnderWay + Abandoned
    /\ owedDisconnect => mUserRequestedDisconnect \/ pc \in {"connectFailed", "disconnected"}
    /\ owedDisconnect \/ mUserRequestedDisconnect => disconnects = "called"
    /\ mWantQuitThread => client \in {"joining", "gone"}
    /\ pc = "abort" /\ stage = "idle" => mAbortFlag
    /\ pc = "disconnect" => mState = "Connected" \/ (mState = "NotConnected" /\ mAbortFlag)

ContractInv == disconnects # "reconnected" => Account

-----------------------------------------------------------------------------
(* What comments and documentation of the code say and the code does not do. *)

(* orvvncclient.cpp:1637: "checking mAbortFlag is *mandatory*".  A thread  *)
(* that is asked to abort is not left asleep.                              *)
AbortWakes == pc = "select" /\ mAbortFlag => pipe

(* libopenrv.cpp:608: "there is a guarantee that there will be a           *)
(* ORV_EVENT_DISCONNECTED event after this call" of orv_disconnect().      *)
DisconnectAnswered == owedDisconnect ~> ~owedDisconnect

-----------------------------------------------------------------------------
(* Liveness *)

(* orv_init() returns: the notification of the thread that has started is  *)
(* not lost, though the wait has no predicate.                             *)
ConstructorReturns == client = "constructing" ~> client # "constructing"

(* The loop around mbedtls_ssl_handshake() (securitytypehandler.cpp:529)    *)
(* has no timeout and looks for no interruption: a server that falls       *)
(* silent there holds the thread for ever.                                 *)
HeldByServer == [](pc = "tls")

(* Whatever the server does or does not do outside of that loop, and       *)
(* whatever the application calls: a disconnect request is served or taken *)
(* back by a later orv_connect().                                          *)
DisconnectServed ==
    mUserRequestedDisconnect ~> ~mUserRequestedDisconnect \/ pc = "stopped" \/ HeldByServer

(* An attempt to connect comes to an end likewise, in a connection or in   *)
(* none; nobody waits at "connecting" because a server says nothing.       *)
AttemptsEnd ==
    SeenState = "Connecting" ~> SeenState # "Connecting" \/ pc = "stopped" \/ HeldByServer

(* orv_connect() gets its result from a library that is not held, unless   *)
(* the application destroys the context or connects again after            *)
(* orv_disconnect().                                                       *)
ConnectAnswered ==
    owedResults > 0 ~>
        \/ owedResults = 0
        \/ client \in {"joining", "gone"} \/ disconnects = "reconnected"
        \/ HeldByServer

(* orv_destroy() returns, if the context is idle when it is called or comes *)
(* to be while the destructor waits.                                       *)
Idle == view = "none" /\ owedResults = 0 /\ ~owedDisconnect
DestroyReturns == client = "joining" /\ Idle ~> client = "gone"
=============================================================================
