-------------------------------- MODULE SocketIo --------------------------------
(***************************************************************************)
(* Class Socket with its clock: the calls that block until they connected, *)
(* read or wrote everything, the wait they share, and the non-blocking     *)
(* read of the main loop.  Steps take no time; time passes in select().    *)
(***************************************************************************)
EXTENDS TlsLayer

CONSTANTS
    Timeout,        \* socketTimeoutSeconds()
    MaxBytes        \* bound: bytes asked for in one call

ASSUME SocketAssumption == {Timeout, MaxBytes} \subseteq Nat \ {0}

VARIABLES
    fd,                         \* mSocketFd: "closed", "connecting" or "open"
    connected,                  \* what the kernel has to say of connect()
    pc,                         \* "idle", "call", "wait" or "check"
    op,                         \* the call under way and the bytes left to transfer
    outcome,                    \* how the last call ended
    waitType,                   \* what waitForSignal() waits for
    signalledSocket,
    nextSelect,                 \* nextSelectSocketCallAgainType of run()
    sinceActivity,              \* time since a byte was transferred, or the connect began
    waited, deadline,           \* time in select(), and the timeout it was given
    pipe,                       \* the pipe is readable
    mUserRequestedDisconnect

clockVars == <<sinceActivity, waited, deadline>>
callVars == <<op, outcome, waitType, signalledSocket>>
sharedVars == <<pipe, mUserRequestedDisconnect>>
vars == <<wireVars, fd, connected, pc, callVars, nextSelect, clockVars, sharedVars>>

NoOp == [kind |-> "none", left |-> 0]
NoTimeout == 0

connectErrors == {"ConnectionRefused", "HostUnreachable", "ConnectTimeout", "ConnectGeneric"}
ioErrors == {"ClosedByRemote", "ReadWriteFailed", "ReadWriteTimeout", "SslHandshake"}
outcomes == {"ok", "UserInterruption", "NoSuchHost", "SelectFailed"} \cup connectErrors \cup ioErrors

Init ==
    /\ WireInit
    /\ fd = "closed" /\ connected = "pending"
    /\ pc = "idle" /\ op = NoOp /\ outcome = "ok"
    /\ waitType = "NoSocketWait" /\ signalledSocket = FALSE /\ nextSelect = "CallAgainWaitForRead"
    /\ sinceActivity = 0 /\ waited = 0 /\ deadline = NoTimeout
    /\ pipe = FALSE /\ mUserRequestedDisconnect = FALSE

-----------------------------------------------------------------------------
(* The application *)

(* Faulty: does not wake the thread. *)
RequestDisconnect_Silent ==
    /\ mUserRequestedDisconnect' = TRUE
    /\ UNCHANGED <<wireVars, fd, connected, pc, callVars, nextSelect, clockVars, pipe>>

(* orv_disconnect() *)
RequestDisconnect ==
    /\ mUserRequestedDisconnect' = TRUE /\ pipe' = TRUE
    /\ UNCHANGED <<wireVars, fd, connected, pc, callVars, nextSelect, clockVars>>

(* Every other call that wakes the thread.  Bound: no second one within a  *)
(* unit of time, or infinitely many would fit into it.                     *)
Notify ==
    /\ op.kind \in {"none", "receive"} \/ waited > 0
    /\ pipe' = TRUE
    /\ UNCHANGED <<wireVars, fd, connected, pc, callVars, nextSelect, clockVars, mUserRequestedDisconnect>>

-----------------------------------------------------------------------------
(* The wait *)

(* The 50 us that makeTimeout() adds are the last unit of time. *)
makeTimeout(timePassed) == IF timePassed < Timeout THEN Timeout - timePassed + 1 ELSE 0

startWait(type, timeout) ==
    /\ pc' = "wait" /\ waitType' = type
    /\ waited' = 0 /\ deadline' = timeout

SocketSignalled ==
    CASE waitType = "Read" -> Readable
      [] waitType = "Write" -> Writable
      [] waitType = "Connect" -> connected # "pending"
      [] waitType = "NoSocketWait" -> FALSE

TimesOut == op.kind # "receive" /\ waited >= deadline

(* A timeout of 0 still takes a moment. *)
Tick ==
    /\ pc = "wait" /\ op.kind # "receive"
    /\ ~pipe /\ ~SocketSignalled /\ (waited < deadline \/ waited = 0)
    /\ sinceActivity' = (IF op.kind = "ssl" THEN 0 ELSE sinceActivity + 1) /\ waited' = waited + 1
    /\ UNCHANGED <<wireVars, fd, connected, pc, callVars, nextSelect, deadline, sharedVars>>

Signalled ==
    /\ pc = "wait" /\ (pipe \/ SocketSignalled)
    /\ pc' = "check"
    /\ pipe' = FALSE
    /\ signalledSocket' = SocketSignalled
    /\ nextSelect' = IF op.kind = "receive" THEN "CallAgainWaitForRead" ELSE nextSelect
    /\ UNCHANGED <<wireVars, fd, connected, op, outcome, waitType, clockVars, mUserRequestedDisconnect>>

(* The call, or the turn of the loop, ends. *)
end(result) ==
    /\ pc' = "idle" /\ op' = NoOp /\ outcome' = result
    /\ waitType' = "NoSocketWait" /\ signalledSocket' = FALSE
    /\ sinceActivity' = 0 /\ waited' = 0 /\ deadline' = NoTimeout

goOn ==
    /\ pc' = "call" /\ waitType' = "NoSocketWait"
    /\ waited' = 0 /\ deadline' = NoTimeout

(* SSL_connect() gets no second chance. *)
WaitTimesOut ==
    /\ pc = "wait" /\ TimesOut /\ ~pipe /\ ~SocketSignalled
    /\ \/ op.kind = "ssl" /\ end("ConnectTimeout")
       \/ /\ op.kind # "ssl" /\ goOn
          /\ UNCHANGED <<op, outcome, signalledSocket, sinceActivity>>
    /\ UNCHANGED <<wireVars, fd, connected, nextSelect, sharedVars>>

WaitFails ==
    /\ pc = "wait"
    /\ end("SelectFailed")
    /\ nextSelect' = IF op.kind = "receive" THEN "CallAgainWaitForRead" ELSE nextSelect
    /\ UNCHANGED <<wireVars, fd, connected, sharedVars>>

CheckInterruption ==
    /\ pc = "check" /\ mUserRequestedDisconnect
    /\ end("UserInterruption")
    /\ UNCHANGED <<wireVars, fd, connected, nextSelect, sharedVars>>

(* A wake-up by the pipe alone has the blocking calls try again. *)
CheckSignalled ==
    /\ pc = "check" /\ ~mUserRequestedDisconnect
    /\ op.kind = "connect" => ~signalledSocket
    /\ op.kind = "receive" => signalledSocket
    /\ goOn
    /\ UNCHANGED <<wireVars, fd, connected, op, outcome, signalledSocket, nextSelect, sinceActivity, sharedVars>>

SelectAgain ==
    /\ pc = "check" /\ ~mUserRequestedDisconnect
    /\ op.kind = "receive" /\ ~signalledSocket
    /\ end("ok")
    /\ UNCHANGED <<wireVars, fd, connected, nextSelect, sharedVars>>

-----------------------------------------------------------------------------
(* makeSocketAndConnectBlockingTo() *)

begin(kind, n) ==
    /\ pc = "idle" /\ pc' = "call" /\ op' = [kind |-> kind, left |-> n]

resolve ==
    /\ pc = "idle" /\ fd = "closed" /\ outcome = "ok" /\ ~mUserRequestedDisconnect

NoSuchHost ==
    /\ resolve
    /\ outcome' = "NoSuchHost"
    /\ UNCHANGED <<wireVars, fd, connected, pc, op, waitType, signalledSocket, nextSelect,
                   clockVars, sharedVars>>

(* makeSocket(), and connect() that succeeds or fails at once *)
ConnectAtOnce ==
    /\ resolve
    /\ fd' = "open"
    /\ outcome' \in {"ok"} \cup connectErrors
    /\ UNCHANGED <<wireVars, connected, pc, op, waitType, signalledSocket, nextSelect,
                   clockVars, sharedVars>>

ConnectInProgress ==
    /\ resolve
    /\ begin("connect", 0)
    /\ fd' = "connecting" /\ connected' = "pending"
    /\ UNCHANGED <<wireVars, outcome, waitType, signalledSocket, nextSelect, clockVars, sharedVars>>

(* the kernel *)
Connects ==
    /\ fd = "connecting" /\ connected = "pending"
    /\ connected' \in {"ok"} \cup connectErrors
    /\ UNCHANGED <<wireVars, fd, pc, callVars, nextSelect, clockVars, sharedVars>>

(* Faulty: waits as long as a read or a write does. *)
ConnectWait_NoClock ==
    /\ pc = "call" /\ op.kind = "connect" /\ sinceActivity <= Timeout
    /\ startWait("Connect", makeTimeout(0))
    /\ UNCHANGED <<wireVars, fd, connected, op, outcome, signalledSocket, nextSelect, sinceActivity, sharedVars>>

ConnectWait ==
    /\ pc = "call" /\ op.kind = "connect" /\ sinceActivity <= Timeout
    /\ startWait("Connect", makeTimeout(sinceActivity))
    /\ UNCHANGED <<wireVars, fd, connected, op, outcome, signalledSocket, nextSelect, sinceActivity, sharedVars>>

ConnectTimesOut ==
    /\ pc = "call" /\ op.kind = "connect" /\ sinceActivity > Timeout
    /\ end("ConnectTimeout")
    /\ UNCHANGED <<wireVars, fd, connected, nextSelect, sharedVars>>

(* getsockopt(SO_ERROR) *)
ConnectResult ==
    /\ pc = "check" /\ ~mUserRequestedDisconnect
    /\ op.kind = "connect" /\ signalledSocket
    /\ fd' = IF connected = "ok" THEN "open" ELSE fd
    /\ end(connected)
    /\ UNCHANGED <<wireVars, connected, nextSelect, sharedVars>>
-----------------------------------------------------------------------------
(* writeDataBlocking() and readDataBlocking() *)

usable == pc = "idle" /\ fd = "open" /\ outcome = "ok"

writeDataBlocking ==
    /\ usable
    /\ \E n \in 1..MaxBytes : begin("write", n)
    /\ UNCHANGED <<wireVars, fd, connected, outcome, waitType, signalledSocket, nextSelect, clockVars, sharedVars>>

readDataBlocking ==
    /\ usable
    /\ \E n \in 1..MaxBytes : begin("read", n)
    /\ UNCHANGED <<wireVars, fd, connected, outcome, waitType, signalledSocket, nextSelect, clockVars, sharedVars>>

transferError(result) ==
    CASE result \in {"ClosedByRemote", "ResetByRemote"} -> "ClosedByRemote"
      [] result = "GenericError" -> "ReadWriteFailed"

CallAgain == {"CallAgainWaitForRead", "CallAgainWaitForWrite"}

(* Faulty: always waits for what the call does. *)
directionOf_Own(kind, result) == IF kind = "read" THEN "Read" ELSE "Write"

(* Reading may have to wait for the socket to be writable, and vice versa. *)
directionOf(kind, result) ==
    CASE result = "CallAgainWaitForWrite" -> "Write"
      [] result = "CallAgainWaitForRead" -> "Read"
      [] OTHER -> IF kind = "read" THEN "Read" ELSE "Write"

(* Faulty: every wake-up counts as activity. *)
activity_AnyWakeUp(s) == 0

activity(s) == IF s > 0 THEN 0 ELSE sinceActivity

(* Faulty: gives up a call that made progress. *)
expired_Early(s) == sinceActivity > Timeout

expired(s) == s = 0 /\ sinceActivity > Timeout

(* What follows recv() or send().  The time handed to makeTimeout() is the  *)
(* one of the last activity itself: the current time is another variable of *)
(* the same name.                                                          *)
afterTransfer(s, result) ==
    \/ /\ result \notin CallAgain \cup {"NoError"}
       /\ end(transferError(result))
    \/ /\ result \in CallAgain \cup {"NoError"} /\ s = op.left
       /\ end("ok")
    \/ /\ result \in CallAgain \cup {"NoError"} /\ s < op.left /\ expired(s)
       /\ end("ReadWriteTimeout")
    \/ /\ result \in CallAgain \cup {"NoError"} /\ s < op.left /\ ~expired(s)
       /\ op' = [op EXCEPT !.left = @ - s]
       /\ sinceActivity' = activity(s)
       /\ startWait(directionOf(op.kind, result), makeTimeout(0))
       /\ UNCHANGED <<outcome, signalledSocket>>

Transfer ==
    /\ pc = "call"
    /\ \E s \in 0..MaxBytes,
          result \in CallAgain \cup {"NoError", "ClosedByRemote", "ResetByRemote", "GenericError"} :
        /\ \/ op.kind = "write" /\ sendData(op.left, s, result)
           \/ op.kind = "read" /\ receiveData(op.left, s, result)
        /\ afterTransfer(s, result)
    /\ UNCHANGED <<fd, connected, nextSelect, sharedVars>>

-----------------------------------------------------------------------------
(* startOpenSSLHandshake() *)

StartSsl ==
    /\ usable /\ ~tls /\ arrived = 0 /\ peer = "open"
    /\ begin("ssl", 0)
    /\ tls' = TRUE /\ ssl' = "write"
    /\ UNCHANGED <<peer, arrived, space, pending, written, hello, fd, connected, outcome, waitType,
                   signalledSocket, nextSelect, clockVars, sharedVars>>

Handshake ==
    /\ pc = "call" /\ op.kind = "ssl"
    /\ \E result \in CallAgain \cup {"NoError", "SslHandshake"} :
        /\ connectSsl(result)
        /\ \/ /\ result \in CallAgain
              /\ startWait(directionOf("ssl", result), Timeout)
              /\ UNCHANGED <<op, outcome, signalledSocket, sinceActivity>>
           \/ result = "NoError" /\ end("ok")
           \/ result = "SslHandshake" /\ end("SslHandshake")
    /\ UNCHANGED <<fd, connected, nextSelect, sharedVars>>

-----------------------------------------------------------------------------
(* The main loop: select() without a timeout, readAvailableDataNonBlocking() *)

Select ==
    /\ pc = "idle" /\ fd # "connecting" /\ outcome = "ok" /\ ~mUserRequestedDisconnect
    /\ op' = [kind |-> "receive", left |-> MaxBytes]
    /\ startWait(CASE fd = "closed" -> "NoSocketWait"
                   [] fd = "open" /\ nextSelect = "CallAgainWaitForWrite" -> "Write"
                   [] OTHER -> "Read", NoTimeout)
    /\ UNCHANGED <<wireVars, fd, connected, outcome, signalledSocket, nextSelect, sinceActivity, sharedVars>>

readAvailableDataNonBlocking ==
    /\ pc = "call" /\ op.kind = "receive"
    /\ \E s \in 0..MaxBytes,
          result \in CallAgain \cup {"NoError", "ClosedByRemote", "ResetByRemote", "GenericError"} :
        /\ receiveData(op.left, s, result)
        /\ nextSelect' = IF result \in CallAgain THEN result ELSE "CallAgainWaitForRead"
        /\ end(IF result \in CallAgain \cup {"NoError"} THEN "ok" ELSE transferError(result))
    /\ UNCHANGED <<fd, connected, sharedVars>>

(* closeSocket(), on the way of disconnectWithError() or                    *)
(* abortConnectWithError(); the next connection has another server.        *)
Close ==
    /\ pc = "idle" /\ (fd # "closed" \/ outcome # "ok" \/ mUserRequestedDisconnect)
    /\ fd' = "closed" /\ connected' = "pending" /\ outcome' = "ok"
    /\ mUserRequestedDisconnect' = FALSE
    /\ tls' = FALSE /\ peer' = "open" /\ arrived' = 0 /\ space' = MaxSpace
    /\ pending' = 0 /\ ssl' = "ready" /\ written' = 0 /\ hello' = "none"
    /\ UNCHANGED <<pc, op, waitType, signalledSocket, nextSelect, clockVars, pipe>>

-----------------------------------------------------------------------------

Wire ==
    /\ fd = "open"
    /\ ServerSends \/ ServerLeaves \/ BufferDrains \/ ServerRenegotiates \/ ServerAnswers
    /\ UNCHANGED <<fd, connected, pc, callVars, nextSelect, clockVars, sharedVars>>

Thread ==
    \/ Signalled \/ WaitTimesOut \/ CheckInterruption \/ CheckSignalled \/ SelectAgain
    \/ ConnectWait \/ ConnectTimesOut \/ ConnectResult
    \/ Transfer \/ Handshake \/ readAvailableDataNonBlocking

Starts ==
    \/ NoSuchHost \/ ConnectAtOnce \/ ConnectInProgress
    \/ writeDataBlocking \/ readDataBlocking \/ StartSsl \/ Select \/ Close

Application == RequestDisconnect \/ Notify

Next == Wire \/ Connects \/ Application \/ Starts \/ Thread \/ WaitFails \/ Tick

Spec == Init /\ [][Next]_vars

(* The thread runs, and time passes however often it is woken up. *)
FairSpec == Spec /\ WF_vars(Thread) /\ SF_vars(Tick)

-----------------------------------------------------------------------------

(* The variables have their types (the fields of Socket and the locals of   *)
(* its blocking calls).                                                    *)
TypeOK ==
    /\ tls \in BOOLEAN /\ peer \in {"open", "closed", "reset"}
    /\ arrived \in 0..MaxArrived /\ space \in 0..MaxSpace /\ pending \in 0..RecordSize
    /\ written \in 0..MaxBytes
    /\ ssl \in {"ready", "write", "read"} /\ hello \in {"none", "request", "answer"}
    /\ fd \in {"closed", "connecting", "open"} /\ connected \in {"pending", "ok"} \cup connectErrors
    /\ pc \in {"idle", "call", "wait", "check"}
    /\ op \in [kind : {"none", "connect", "write", "read", "ssl", "receive"}, left : 0..MaxBytes]
    /\ outcome \in outcomes
    /\ waitType \in {"Read", "Write", "Connect", "NoSocketWait"}
    /\ signalledSocket \in BOOLEAN /\ nextSelect \in CallAgain
    /\ sinceActivity \in 0..(2 * Timeout + 1)
    /\ waited \in 0..(Timeout + 1) /\ deadline \in 0..(Timeout + 1)
    /\ pipe \in BOOLEAN /\ mUserRequestedDisconnect \in BOOLEAN

(* A silent peer is noticed: connecting ends after the timeout however      *)
(* often the wait is interrupted by wake-ups; a read or a write lasts at    *)
(* most another timeout longer, because each wait begins with a full one.  *)
(* (A write over TLS counts no activity before it is finished.)            *)
IdleBounded ==
    /\ op.kind = "connect" => sinceActivity <= Timeout + 1
    /\ op.kind \in {"read", "write"} => sinceActivity <= 2 * Timeout + 1

(* The next call of the library could get further than the last one. *)
CanProgress ==
    CASE ssl = "write" -> space > 0
      [] ssl = "read" -> hello = "answer"
      [] ssl = "ready" -> IF op.kind = "write" THEN space > 0
                          ELSE arrived > 0 \/ pending > 0 \/ hello = "request"

(* A blocking call never sleeps on progress it could make, whatever the     *)
(* renegotiation needs: the direction it waits for is the one that unblocks *)
(* it, and decrypted bytes do not hide behind a silent socket.             *)
WakesForProgress ==
    pc = "wait" /\ op.kind \in {"read", "write", "ssl"} /\ peer = "open" /\ CanProgress => SocketSignalled

(* The last try could not get further: a read found no byte, over TLS no   *)
(* whole record; a write got rid of no byte, or over TLS not of all that   *)
(* is left of it (opensslcontext.cpp:270), though some may have left.      *)
Stuck ==
    \/ ssl # "ready"
    \/ op.kind = "read" /\ arrived + pending = 0
    \/ op.kind = "write" /\ IF tls THEN space < op.left - written ELSE space = 0

(* An answer that races the timeout wins: a read or a write gives up only  *)
(* if its last try could not get further.                                  *)
TimesOutOnlyWhenStuck == [][outcome' = "ReadWriteTimeout" /\ outcome = "ok" => Stuck]_vars

-----------------------------------------------------------------------------
(* The inductive invariant behind the safety properties *)

Kinds == {"none", "connect", "write", "read", "ssl", "receive"}

CallInv ==
    /\ pc \in {"idle", "call", "wait", "check"}
    /\ op \in [kind : Kinds, left : Int]
    /\ pc = "idle" <=> op.kind = "none"
    /\ op.kind \in {"read", "write", "receive"} => op.left >= 1
    /\ connected \in {"pending", "ok"} \cup connectErrors

(* Only the TLS library keeps bytes back and renegotiates. *)
WireInv ==
    /\ {arrived, space, pending, written} \subseteq Nat
    /\ ssl \in {"ready", "write", "read"}
    /\ ~tls => pending = 0 /\ ssl = "ready"

(* What a wait can add to the time since the last activity. *)
ClockInv ==
    /\ sinceActivity \in Nat /\ waited \in Nat /\ deadline \in Nat
    /\ pc = "idle" => sinceActivity = 0
    /\ op.kind = "connect" =>
         /\ sinceActivity <= Timeout + 1
         /\ pc = "wait" =>
              /\ waited <= sinceActivity /\ sinceActivity - waited <= Timeout
              /\ deadline = makeTimeout(sinceActivity - waited)
    /\ op.kind \in {"read", "write"} =>
         /\ sinceActivity <= 2 * Timeout + 1
         /\ pc = "wait" => sinceActivity - waited <= Timeout /\ deadline = Timeout + 1

(* A call waits for what the renegotiation needs next, or for what it does *)
(* itself, with nothing decrypted left over.                               *)
WaitInv ==
    pc = "wait" /\ peer = "open" /\ op.kind \in {"read", "write", "ssl"} =>
        /\ ssl = "write" => waitType = "Write"
        /\ ssl = "read" => waitType = "Read"
        /\ ssl = "ready" =>
             \/ op.kind = "write" /\ waitType = "Write"
             \/ op.kind = "read" /\ waitType = "Read" /\ pending = 0

SocketInv == CallInv /\ WireInv /\ ClockInv /\ WaitInv

-----------------------------------------------------------------------------
(* Liveness *)

(* Every connect, read and write ends: with the server's answer, with the   *)
(* timeout, or with an error.                                              *)
CallReturns == (op.kind \in {"connect", "read", "write"}) ~> (pc = "idle")

(* A disconnect request ends whatever the thread is doing with the socket, *)
(* the TLS handshake and the main loop included.                           *)
DisconnectEndsCall == (mUserRequestedDisconnect /\ pc # "idle") ~> (pc = "idle")
=============================================================================
