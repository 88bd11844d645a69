--------------------------- MODULE ConnectionThread ---------------------------
(***************************************************************************)
(* The thread that owns the socket: ConnectionThread::run() and what it    *)
(* calls, one step per critical section, per operation on the socket and   *)
(* per event it sends.                                                     *)
(*                                                                         *)
(* The stages of a connection:                                             *)
(*   "idle"      no connection                                             *)
(*   "connect"   Socket::makeSocketAndConnectBlockingTo()                  *)
(*   "version"   negotiateProtocolVersion()                                *)
(*   "security"  Rfb3xHandshake::startVncProtocol()                        *)
(*   "init"      performClientAndServerInit()                              *)
(*   "setup"     sendSetPixelFormat() and sendSetEncodings()               *)
(*   "connected" the main event loop                                       *)
(* Every stage but "idle" reads or writes the socket with the same loop:   *)
(* try (pc = "io"), wait for the socket or the pipe (pc = "wait"), look    *)
(* for a disconnect request (pc = "check"), try again.  Only the handshake *)
(* of mbedTLS, in the security stage, has a loop of its own (pc = "tls").  *)
(***************************************************************************)
EXTENDS SharedData

CONSTANTS
    SelectFails,    \* select() may return an error, as it does with EINTR
    MbedTls         \* the library is built with OPENRV_HAVE_MBEDTLS

ASSUME SelectAssumption == SelectFails \in BOOLEAN

ASSUME BuildAssumption == MbedTls \in BOOLEAN

VARIABLES
    pc, stage,
    threadPassword,                     \* ConnectionThread::mPassword
    mCurrentMessageParser,              \* the message being received, see NoMessage
    mFinishedFramebufferUpdateRequests, \* none (0) or some (1): only compared with 0
    toSend                              \* what handleConnectedState() has taken over to send

threadVars == <<pc, stage, threadPassword, mCurrentMessageParser,
                mFinishedFramebufferUpdateRequests, toSend>>

(* What follows a stage that went well. *)
Following == [connect |-> "version", version |-> "security", security |-> "init",
              init |-> "setup", setup |-> "connected"]

Handshake == {"connect", "version", "security", "init", "setup"}
Stages == Handshake \cup {"idle", "connected"}

(* The message whose parser is current, and the connection it began in. *)
NoMessage == [kind |-> "none", conn |-> 0]
Messages == [kind : {"FramebufferUpdate", "SetColourMapEntries", "ServerCutText"},
             conn : 1..MaxConnects]

ThreadTypeOK ==
    /\ pc \in {"started", "notify", "top", "start", "io", "wait", "check", "tls",
               "checkpoint", "connectSucceeded", "connected", "sync", "select", "signalled", "readable", "data",
               "abort", "connectFailed", "disconnect", "disconnected", "stopping", "stopped"}
    /\ stage \in Stages
    /\ threadPassword \in Passwords \cup {NoPassword}
    /\ mCurrentMessageParser \in Messages \cup {NoMessage}
    /\ mFinishedFramebufferUpdateRequests \in 0..1
    /\ toSend \in Seq(RequestFramebuffer \cup ClientSendEvent)

ThreadInit ==
    /\ pc = "started"
    /\ stage = "idle"
    /\ threadPassword = NoPassword
    /\ mCurrentMessageParser = NoMessage
    /\ mFinishedFramebufferUpdateRequests = 0
    /\ toSend = <<>>

goto(from, to) ==
    /\ pc = from
    /\ pc' = to

-----------------------------------------------------------------------------
(* Start and end of run(). *)

(* sendEvent(): the event callback runs in this thread, without the lock. *)
sendEvent(newView) ==
    /\ view' = newView
    /\ UNCHANGED <<sharedVars, stage, threadPassword, mCurrentMessageParser,
                   mFinishedFramebufferUpdateRequests, toSend,
                   connects, inputs, disconnects, lastSent, responded>>

SendThreadStarted ==
    /\ goto("started", "notify")
    /\ sendEvent("none")
    /\ UNCHANGED <<owedResults, owedDisconnect>>

(* Faulty: notifies without the lock. *)
NotifyStartup_Unlocked ==
    /\ goto("notify", "top")
    /\ mStartupWaitCondition' =
         IF mStartupWaitCondition = "waiting" THEN "notified" ELSE mStartupWaitCondition
    /\ UNCHANGED <<mMutex, flags, mState, mPassword, updateVars, mClientSendEvents, pipe,
                   stage, threadPassword, mCurrentMessageParser,
                   mFinishedFramebufferUpdateRequests, toSend, historyVars>>

(* notify_all() wakes the constructor if it waits already. *)
NotifyStartup ==
    /\ goto("notify", "top")
    /\ MutexFree
    /\ mStartupWaitCondition' =
         IF mStartupWaitCondition = "waiting" THEN "notified" ELSE mStartupWaitCondition
    /\ UNCHANGED <<mMutex, flags, mState, mPassword, updateVars, mClientSendEvents, pipe,
                   stage, threadPassword, mCurrentMessageParser,
                   mFinishedFramebufferUpdateRequests, toSend, historyVars>>

SendThreadAboutToStop ==
    /\ goto("stopping", "stopped")
    /\ sendEvent("stopped")
    /\ UNCHANGED <<owedResults, owedDisconnect>>

-----------------------------------------------------------------------------
(* The loop of run(): one look at the shared state decides what comes next. *)

nextTurn ==
    CASE mWantQuitThread -> "stopping"
      [] ~mWantQuitThread /\ mAbortFlag ->
           IF mState \in {"StartConnection", "ConnectionPending"} THEN "abort" ELSE "disconnect"
      [] ~mWantQuitThread /\ ~mAbortFlag ->
           CASE mState = "NotConnected" -> "sync"
             [] mState = "StartConnection" -> "start"
             [] mState = "Connected" -> "connected"
             [] mState = "ConnectionPending" -> "abort"

LoopTop ==
    /\ goto("top", nextTurn)
    /\ MutexFree
    /\ UNCHANGED <<sharedVars, stage, threadPassword, mCurrentMessageParser,
                   mFinishedFramebufferUpdateRequests, toSend, historyVars>>

(* The statistics are copied under the lock before the select(). *)
SyncStatistics ==
    /\ goto("sync", "select")
    /\ MutexFree
    /\ UNCHANGED <<sharedVars, stage, threadPassword, mCurrentMessageParser,
                   mFinishedFramebufferUpdateRequests, toSend, historyVars>>

(* waitForSignal() without a timeout: the pipe was signalled, and perhaps  *)
(* the socket of a connection too.                                         *)
SelectPipe ==
    /\ pc = "select"
    /\ pipe
    /\ swallowPipeData
    /\ \/ pc' = "signalled"
       \/ stage = "connected" /\ pc' = "readable"
    /\ UNCHANGED <<mMutex, flags, mState, mPassword, updateVars, mClientSendEvents,
                   mStartupWaitCondition, stage, threadPassword, mCurrentMessageParser,
                   mFinishedFramebufferUpdateRequests, toSend, historyVars>>

(* Only the socket was signalled: the server sent data or closed. *)
SelectSocket ==
    /\ stage = "connected"
    /\ ~pipe
    /\ goto("select", "readable")
    /\ UNCHANGED <<sharedVars, stage, threadPassword, mCurrentMessageParser,
                   mFinishedFramebufferUpdateRequests, toSend, historyVars>>

SelectError ==
    /\ SelectFails
    /\ goto("select", "disconnect")
    /\ UNCHANGED <<sharedVars, stage, threadPassword, mCurrentMessageParser,
                   mFinishedFramebufferUpdateRequests, toSend, historyVars>>

(* The end of waitForSignal(): WaitRet::UserInterruption, or the data of   *)
(* the socket is read.                                                     *)
SelectReturns ==
    /\ \/ goto("signalled", "top")
       \/ goto("readable", IF mUserRequestedDisconnect THEN "top" ELSE "data")
    /\ MutexFree
    /\ UNCHANGED <<sharedVars, stage, threadPassword, mCurrentMessageParser,
                   mFinishedFramebufferUpdateRequests, toSend, historyVars>>

-----------------------------------------------------------------------------
(* handleStartConnectionState() *)

(* The critical section of startConnection(), which takes the password     *)
(* over.  (It also refuses to start from another state than                *)
(* "StartConnection", which the loop rules out: see LoopInvariant.)        *)
StartConnection ==
    /\ pc = "start"
    /\ MutexFree
    /\ threadPassword' = mPassword
    /\ mPassword' = NoPassword
    /\ \/ /\ mAbortFlag
          /\ changeStateMutexLocked("NotConnected")
          /\ pc' = "abort"
          /\ UNCHANGED stage
       \/ /\ ~mAbortFlag
          /\ changeStateMutexLocked("ConnectionPending")
          /\ pc' = "io"
          /\ stage' = "connect"
    /\ responded' = FALSE
    /\ UNCHANGED <<mMutex, flags, updateVars, mStartupWaitCondition, pipe, mCurrentMessageParser,
                   mFinishedFramebufferUpdateRequests, toSend,
                   connects, inputs, view, owedResults, owedDisconnect, disconnects, lastSent>>

(* Faulty: the flag of the previous connection survives. *)
publishStage_KeepsResponse == UNCHANGED mHaveFramebufferUpdateResponse

(* Once the protocol version is known, no update was received yet. *)
publishStage ==
    mHaveFramebufferUpdateResponse' = (stage # "version" /\ mHaveFramebufferUpdateResponse)

(* startVncProtocol() and startVncProtocolRfb3x() publish what a stage has *)
(* found out and look whether to go on.                                    *)
Checkpoint ==
    /\ pc = "checkpoint"
    /\ stage # "setup"
    /\ MutexFree
    /\ publishStage
    /\ \/ /\ mAbortFlag
          /\ pc' = "abort"
          /\ UNCHANGED stage
       \/ /\ ~mAbortFlag
          /\ pc' = "io"
          /\ stage' = Following[stage]
    /\ UNCHANGED <<mMutex, flags, mState, mPassword, mWantSendFramebufferUpdateRequest,
                   mRequestFramebuffer, mFramebuffer, mClientSendEvents, mStartupWaitCondition,
                   pipe, threadPassword, mCurrentMessageParser,
                   mFinishedFramebufferUpdateRequests, toSend, historyVars>>

(* The last critical section of startVncProtocolRfb3x(): the connection is *)
(* established unless the framebuffer cannot be allocated.  The abort flag *)
(* is not looked at.                                                       *)
Establish ==
    /\ pc = "checkpoint"
    /\ stage = "setup"
    /\ MutexFree
    /\ mFramebuffer' = connects
    /\ \/ /\ changeStateMutexLocked("Connected")
          /\ pc' = "connectSucceeded"
          /\ stage' = Following[stage]
       \/ /\ pc' = "abort"
          /\ UNCHANGED <<mState, mClientSendEvents, stage>>
    /\ UNCHANGED <<mMutex, flags, mPassword, mWantSendFramebufferUpdateRequest,
                   mRequestFramebuffer, mHaveFramebufferUpdateResponse, mStartupWaitCondition,
                   pipe, threadPassword, mCurrentMessageParser,
                   mFinishedFramebufferUpdateRequests, toSend, historyVars>>

SendConnectSucceeded ==
    /\ goto("connectSucceeded", "top")
    /\ sendEvent("up")
    /\ owedResults' = owedResults - 1
    /\ UNCHANGED owedDisconnect

-----------------------------------------------------------------------------
(* Blocking reads and writes: makeSocketAndConnectBlockingTo(),            *)
(* readDataBlocking() and writeDataBlocking().                             *)

(* Faulty: an established connection fails like an attempt. *)
ioFailed_AlwaysAborts == "abort"

ioFailed == IF stage = "connected" THEN "disconnect" ELSE "abort"

(* Faulty: the password is forgotten only when authentication fails. *)
clearPassword_OnFailure ==
    threadPassword' = IF stage = "security" /\ pc' = "abort" THEN NoPassword ELSE threadPassword

(* startVncProtocolRfb3x() forgets the password when the security stage    *)
(* ends, whatever its outcome.                                             *)
clearPassword ==
    threadPassword' = IF stage = "security" /\ pc' \in {"checkpoint", "abort"}
                      THEN NoPassword ELSE threadPassword

IoFrame == UNCHANGED <<mMutex, flags, mState, mPassword, updateVars, mClientSendEvents,
                       mStartupWaitCondition, stage, mCurrentMessageParser,
                       mFinishedFramebufferUpdateRequests,
                       connects, inputs, view, owedResults, owedDisconnect, disconnects,
                       responded>>

(* A stage of the handshake has succeeded. *)
StageDone ==
    /\ goto("io", "checkpoint")
    /\ stage # "connected"
    /\ clearPassword
    /\ IoFrame
    /\ UNCHANGED <<toSend, pipe, lastSent>>

(* One message of handleConnectedState() is written. *)
MessageSent ==
    /\ goto("io", IF Len(toSend) = 1 THEN "sync" ELSE "io")
    /\ stage = "connected"
    /\ toSend' = Tail(toSend)
    /\ lastSent' = IF Head(toSend).type = "input" THEN Head(toSend).id ELSE lastSent
    /\ IoFrame
    /\ UNCHANGED <<threadPassword, pipe>>

(* The peer closed, an error, a protocol violation, or no byte moved for   *)
(* longer than the socket's timeout.                                       *)
IoFails ==
    /\ goto("io", ioFailed)
    /\ clearPassword
    /\ IoFrame
    /\ UNCHANGED <<toSend, pipe, lastSent>>

IoWouldBlock ==
    /\ goto("io", "wait")
    /\ IoFrame
    /\ UNCHANGED <<toSend, threadPassword, pipe, lastSent>>

(* SecurityTypeHandlerVeNCrypt::authenticate() reaches the handshake of    *)
(* mbedTLS, a loop that neither has a timeout nor looks at the pipe or at  *)
(* a flag.                                                                 *)
TlsHandshakeBegins ==
    /\ MbedTls
    /\ stage = "security"
    /\ goto("io", "tls")
    /\ IoFrame
    /\ UNCHANGED <<toSend, threadPassword, pipe, lastSent>>

(* It ends if the server lets it, and then in a failure: a handshake that  *)
(* went well returns 0, which is taken for an error.                       *)
TlsHandshakeEnds ==
    /\ goto("tls", "abort")
    /\ clearPassword
    /\ IoFrame
    /\ UNCHANGED <<toSend, pipe, lastSent>>

(* waitForSignal() with a timeout.  The pipe, the socket or both ended it. *)
WaitSignalled ==
    /\ goto("wait", "check")
    /\ swallowPipeData
    /\ IoFrame
    /\ UNCHANGED <<toSend, threadPassword, lastSent>>

WaitTimeout ==
    /\ goto("wait", "io")
    /\ ~pipe
    /\ IoFrame
    /\ UNCHANGED <<toSend, threadPassword, pipe, lastSent>>

WaitError ==
    /\ SelectFails
    /\ goto("wait", ioFailed)
    /\ clearPassword
    /\ IoFrame
    /\ UNCHANGED <<toSend, pipe, lastSent>>

(* Faulty: the request is left to the checkpoints. *)
CheckInterruption_Deferred ==
    /\ goto("check", "io")
    /\ MutexFree
    /\ IoFrame
    /\ UNCHANGED <<toSend, threadPassword, pipe, lastSent>>

(* The end of waitForSignal(): only mUserRequestedDisconnect is looked at. *)
CheckInterruption ==
    /\ goto("check", IF mUserRequestedDisconnect THEN ioFailed ELSE "io")
    /\ MutexFree
    /\ clearPassword
    /\ IoFrame
    /\ UNCHANGED <<toSend, pipe, lastSent>>

-----------------------------------------------------------------------------
(* The main event loop of an established connection. *)

(* handleConnectedState() takes over what the application wants sent: the  *)
(* request first, then the key and pointer events.                         *)
TakeOver ==
    /\ pc = "connected"
    /\ MutexFree
    /\ toSend' = (IF mWantSendFramebufferUpdateRequest THEN <<mRequestFramebuffer>> ELSE <<>>)
                    \o mClientSendEvents
    /\ pc' = IF toSend' = <<>> THEN "sync" ELSE "io"
    /\ mWantSendFramebufferUpdateRequest' = FALSE
    /\ mClientSendEvents' = <<>>
    /\ UNCHANGED <<mMutex, flags, mState, mPassword, mRequestFramebuffer, mFramebuffer,
                   mHaveFramebufferUpdateResponse, mStartupWaitCondition, pipe,
                   stage, threadPassword, mCurrentMessageParser,
                   mFinishedFramebufferUpdateRequests, historyVars>>

DataFrame == UNCHANGED <<mMutex, flags, mState, mPassword, mWantSendFramebufferUpdateRequest,
                         mRequestFramebuffer, mFramebuffer, mClientSendEvents,
                         mStartupWaitCondition, pipe, stage, threadPassword, toSend,
                         connects, inputs, view, owedResults, owedDisconnect, disconnects, lastSent>>

(* processMessageData() reads the type of a message and picks its parser.  *)
(* (A bell is a whole message and changes nothing.)                        *)
BeginMessage(kind) ==
    /\ goto("data", "data")
    /\ mCurrentMessageParser = NoMessage
    /\ mCurrentMessageParser' = [kind |-> kind, conn |-> connects]
    /\ DataFrame
    /\ UNCHANGED <<mHaveFramebufferUpdateResponse, mFinishedFramebufferUpdateRequests, responded>>

(* The parser is finished; its events are sent with the connection up. *)
FinishMessage ==
    /\ goto("data", "data")
    /\ mCurrentMessageParser # NoMessage
    /\ MutexFree
    /\ mCurrentMessageParser' = NoMessage
    /\ \/ /\ mCurrentMessageParser.kind = "FramebufferUpdate"
          /\ mHaveFramebufferUpdateResponse' =
               (mHaveFramebufferUpdateResponse \/ mFinishedFramebufferUpdateRequests = 0)
          /\ mFinishedFramebufferUpdateRequests' = 1
          /\ responded' = TRUE
       \/ /\ mCurrentMessageParser.kind # "FramebufferUpdate"
          /\ UNCHANGED <<mHaveFramebufferUpdateResponse, mFinishedFramebufferUpdateRequests,
                         responded>>
    /\ DataFrame

(* handleConnectedSocketData() has used up what was received; a message    *)
(* may be left incomplete.                                                 *)
DataConsumed ==
    /\ goto("data", "top")
    /\ DataFrame
    /\ UNCHANGED <<mHaveFramebufferUpdateResponse, mCurrentMessageParser,
                   mFinishedFramebufferUpdateRequests, responded>>

(* The server closed the connection, or the read failed. *)
ReceiveFails ==
    /\ goto("data", "disconnect")
    /\ DataFrame
    /\ UNCHANGED <<mHaveFramebufferUpdateResponse, mCurrentMessageParser,
                   mFinishedFramebufferUpdateRequests, responded>>

(* An unknown message type, or a parser reports an error. *)
ProtocolError ==
    /\ goto("data", "disconnect")
    /\ mCurrentMessageParser' = NoMessage
    /\ DataFrame
    /\ UNCHANGED <<mHaveFramebufferUpdateResponse, mFinishedFramebufferUpdateRequests, responded>>

-----------------------------------------------------------------------------
(* The ends of a connection and of an attempt.  closeSocket() runs before  *)
(* the critical section, on data of the thread alone; it resets the parser *)
(* of the framebuffer updates but not mCurrentMessageParser.               *)

closeConnection(from, to) ==
    /\ goto(from, to)
    /\ MutexFree
    /\ resetToNotConnected
    /\ stage' = "idle"
    /\ toSend' = <<>>
    /\ UNCHANGED <<mMutex, mPassword, updateVars, mStartupWaitCondition, pipe, threadPassword,
                   mCurrentMessageParser, mFinishedFramebufferUpdateRequests, historyVars>>

(* Faulty: no event; and the event of a failed attempt. *)
disconnectWithError_Silent == closeConnection("disconnect", "top")
disconnectWithError_AsAttempt == closeConnection("disconnect", "connectFailed")

disconnectWithError == closeConnection("disconnect", "disconnected")

(* Faulty: the attempt has no result. *)
abortConnectWithError_NoResult == closeConnection("abort", "disconnected")

abortConnectWithError == closeConnection("abort", "connectFailed")

(* Faulty: no ORV_EVENT_DISCONNECTED follows. *)
SendConnectFailed_Only ==
    /\ goto("connectFailed", "top")
    /\ sendEvent("failed")
    /\ owedResults' = owedResults - 1
    /\ UNCHANGED owedDisconnect

SendConnectFailed ==
    /\ goto("connectFailed", "disconnected")
    /\ sendEvent("failed")
    /\ owedResults' = owedResults - 1
    /\ UNCHANGED owedDisconnect

SendDisconnected ==
    /\ goto("disconnected", "top")
    /\ sendEvent("none")
    /\ owedDisconnect' = FALSE
    /\ UNCHANGED owedResults

Blocking ==
    \/ StageDone \/ MessageSent \/ IoFails \/ IoWouldBlock \/ TlsHandshakeBegins
    \/ WaitSignalled \/ WaitTimeout \/ WaitError \/ CheckInterruption

Receiving ==
    \/ \E kind \in {"FramebufferUpdate", "SetColourMapEntries", "ServerCutText"} : BeginMessage(kind)
    \/ FinishMessage \/ DataConsumed \/ ReceiveFails \/ ProtocolError

(* What the server or the kernel decides on its own. *)
External == SelectSocket \/ SelectError \/ TlsHandshakeEnds

ThreadStep ==
    \/ SendThreadStarted \/ NotifyStartup \/ SendThreadAboutToStop
    \/ LoopTop \/ SyncStatistics \/ SelectPipe \/ SelectReturns
    \/ StartConnection \/ Checkpoint \/ Establish \/ SendConnectSucceeded
    \/ Blocking \/ TakeOver \/ Receiving
    \/ disconnectWithError \/ abortConnectWithError \/ SendConnectFailed \/ SendDisconnected
=============================================================================
