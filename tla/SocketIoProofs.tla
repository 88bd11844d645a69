---------------------------- MODULE SocketIoProofs ----------------------------
(***************************************************************************)
(* The safety properties of SocketIo for every timeout, record size and    *)
(* number of bytes: SocketInv is an inductive invariant.                   *)
(***************************************************************************)
EXTENDS SocketIo, TLAPS

(* The constants are positive numbers. *)
LEMMA Positive ==
    /\ Timeout \in Nat /\ Timeout >= 1
    /\ MaxBytes \in Nat /\ MaxBytes >= 1
    /\ RecordSize \in Nat /\ RecordSize >= 1
    /\ MaxArrived \in Nat /\ MaxArrived >= 1
    /\ MaxSpace \in Nat /\ MaxSpace >= 1
  BY SocketAssumption, TlsAssumption

-----------------------------------------------------------------------------
(* What a call of recv(), send(), SSL_read() or SSL_write() leaves behind. *)

(* A renegotiation begins only with a read that found no data. *)
LEMMA BegunBy ==
    ASSUME WireInv, NEW reads
    PROVE  /\ Begun(reads) \in {"ready", "write", "read"}
           /\ ssl # "ready" => Begun(reads) = ssl
           /\ Begun(reads) # ssl => reads /\ arrived + pending = 0 /\ Begun(reads) = "write"
  BY DEF WireInv, Begun

(* It writes, then reads, then is over. *)
LEMMA RenegotiatedTo ==
    ASSUME WireInv, NEW reads
    PROVE  /\ Renegotiated(reads) \in {"ready", "write", "read"}
           /\ Begun(reads) = "ready" => Renegotiated(reads) = "ready"
           /\ Begun(reads) = "write" => Renegotiated(reads) # "ready"
  <1>1. Begun(reads) \in {"ready", "write", "read"}
    BY BegunBy
  <1>2. CASE Begun(reads) = "write"
    BY <1>2 DEF Renegotiated
  <1>3. CASE Begun(reads) = "read"
    BY <1>3 DEF Renegotiated
  <1>4. CASE Begun(reads) = "ready"
    BY <1>4 DEF Renegotiated
  <1> QED
    BY <1>1, <1>2, <1>3, <1>4

(* A call that ends without an error and falls short of what was asked for *)
(* says what to wait for; it found nothing if it transferred nothing.      *)
FallsShort(n, s, result) == s < n /\ result \in CallAgain \cup {"NoError"}

Waits(kind, result) ==
    peer' = "open" =>
        /\ ssl' = "write" => directionOf(kind, result) = "Write"
        /\ ssl' = "read" => directionOf(kind, result) = "Read"
        /\ ssl' = "ready" =>
             \/ kind = "write" /\ directionOf(kind, result) = "Write"
             \/ kind = "read" /\ directionOf(kind, result) = "Read" /\ pending' = 0

(* What the result of a call makes its caller wait for. *)
LEMMA Directions ==
    ASSUME NEW kind
    PROVE  /\ directionOf(kind, "CallAgainWaitForWrite") = "Write"
           /\ directionOf(kind, "CallAgainWaitForRead") = "Read"
           /\ directionOf("read", "NoError") = "Read"
           /\ directionOf("write", "NoError") = "Write"
  BY DEF directionOf

LEMMA Received ==
    ASSUME WireInv, NEW n \in Nat, n >= 1, NEW s \in Nat, NEW result, receiveData(n, s, result)
    PROVE  /\ WireInv'
           /\ s <= n
           /\ FallsShort(n, s, result) => Waits("read", result)
           /\ FallsShort(n, s, result) /\ s = 0 => arrived + pending = 0 \/ ssl # "ready"
  <1>1. CASE ~tls
    <2>1. recv(n, s, result) /\ pending = 0 /\ ssl = "ready"
      BY <1>1 DEF receiveData, WireInv
    <2> QED
      BY <1>1, <2>1, Directions DEF recv, WireInv, Smaller, FallsShort, Waits, CallAgain
  <1>2. CASE tls
    <2>1. sslRead(n, s, result) /\ UNCHANGED <<tls, peer, written>>
      BY <1>2 DEF receiveData, sslRead
    <2>2. CASE result \in {"ResetByRemote", "GenericError"}
               /\ s = 0 /\ UNCHANGED <<arrived, space, pending, ssl, hello>>
      BY <1>2, <2>1, <2>2 DEF WireInv, FallsShort, CallAgain
    <2>3. CASE /\ peer = "open" /\ Renegotiated(TRUE) # "ready"
               /\ s = 0 /\ result = WantsTo(Renegotiated(TRUE))
               /\ Renegotiate(TRUE, 0)
               /\ UNCHANGED <<arrived, pending>>
      <3>1. /\ space' \in Nat /\ ssl' = Renegotiated(TRUE)
            /\ ssl' \in {"write", "read"}
        BY <2>3 DEF WireInv, Renegotiate, Renegotiated, Begun
      <3>2. ssl # "ready" \/ arrived + pending = 0
        BY <2>3 DEF WireInv, Renegotiate, Renegotiated, Begun
      <3>3. Waits("read", result)
        BY <2>3, <3>1, Directions DEF Waits, WantsTo
      <3>4. s = 0 /\ UNCHANGED <<arrived, pending>>
        BY <2>3 DEF WireInv, Renegotiate, Renegotiated, Begun
      <3>5. WireInv'
        BY <1>2, <2>1, <3>1, <3>4 DEF WireInv
      <3>6. s <= n
        BY <3>4
      <3> QED
        BY <3>2, <3>3, <3>5, <3>6
    <2>4. CASE /\ peer # "reset" /\ Renegotiated(TRUE) = "ready"
               /\ s = Smaller(n, Decrypted)
               /\ result \in IF s > 0 THEN {"NoError"}
                             ELSE IF peer = "open" THEN {"CallAgainWaitForRead"}
                             ELSE {"ClosedByRemote", "ResetByRemote"}
               /\ arrived' = IF pending = 0 /\ arrived > 0 THEN arrived - 1 ELSE arrived
               /\ pending' = Decrypted - s
               /\ Renegotiate(TRUE, 0)
      <3>1. Decrypted \in Nat /\ (Decrypted = 0 => arrived + pending = 0)
        BY Positive DEF Decrypted, WireInv
      <3>2. space' \in Nat /\ ssl' = "ready"
        BY <2>4 DEF WireInv, Renegotiate, Renegotiated, Begun
      <3>3. /\ s <= n /\ pending' \in Nat /\ arrived' \in Nat
            /\ s < n => pending' = 0
            /\ s = 0 => Decrypted = 0
        BY <2>4, <3>1 DEF Smaller, WireInv
      <3>4. FallsShort(n, s, result) => Waits("read", result)
        <4>1. s # 0 => result = "NoError"
          BY <2>4
        <4>2. s = 0 => result \in {"CallAgainWaitForRead", "ClosedByRemote", "ResetByRemote"}
          BY <2>4
        <4> QED
          BY <3>2, <3>3, <4>1, <4>2, Directions DEF FallsShort, Waits, CallAgain
      <3> QED
        BY <1>2, <2>1, <3>1, <3>2, <3>3, <3>4 DEF WireInv
    <2> QED
      BY <2>1, <2>2, <2>3, <2>4 DEF sslRead
  <1> QED
    BY <1>1, <1>2

LEMMA Sent ==
    ASSUME WireInv, NEW n \in Nat, n >= 1, NEW s \in Nat, NEW result, sendData(n, s, result)
    PROVE  /\ WireInv'
           /\ s <= n
           /\ FallsShort(n, s, result) => Waits("write", result)
           /\ FallsShort(n, s, result) /\ s = 0 =>
                ssl # "ready" \/ IF tls THEN space < n - written ELSE space = 0
  <1>1. CASE ~tls
    <2>1. send(n, s, result) /\ pending = 0 /\ ssl = "ready"
      BY <1>1 DEF sendData, WireInv
    <2> QED
      BY <1>1, <2>1, Directions DEF send, WireInv, Smaller, FallsShort, Waits, CallAgain
  <1>2. CASE tls
    <2>1. sslWrite(n, s, result) /\ UNCHANGED <<tls, peer, arrived, pending>>
      BY <1>2 DEF sendData, sslWrite
    <2>2. CASE result \in {"ResetByRemote", "GenericError"} /\ s = 0 /\ UNCHANGED <<space, ssl, written, hello>>
      BY <1>2, <2>1, <2>2 DEF WireInv, FallsShort, CallAgain
    <2>3. CASE /\ peer = "open" /\ Renegotiated(FALSE) # "ready"
               /\ s = 0 /\ result = WantsTo(Renegotiated(FALSE))
               /\ Renegotiate(FALSE, 0)
               /\ UNCHANGED written
      <3>1. /\ space' \in Nat /\ ssl' = Renegotiated(FALSE)
            /\ ssl' \in {"write", "read"}
        BY <2>3 DEF WireInv, Renegotiate, Renegotiated, Begun
      <3>2. ssl # "ready"
        BY <2>3 DEF WireInv, Renegotiate, Renegotiated, Begun
      <3>3. Waits("write", result)
        BY <2>3, <3>1, Directions DEF Waits, WantsTo
      <3>4. s = 0 /\ written' = written
        BY <2>3
      <3>5. WireInv'
        BY <1>2, <2>1, <3>1, <3>4 DEF WireInv
      <3>6. s <= n
        BY <3>4
      <3> QED
        BY <3>2, <3>3, <3>5, <3>6
    <2>4. CASE /\ peer = "open" /\ Renegotiated(FALSE) = "ready" /\ n - written <= space
               /\ s = n /\ result = "NoError"
               /\ written' = 0
               /\ Renegotiate(FALSE, n - written)
      <3>1. space' \in Nat /\ ssl' = "ready"
        BY <2>4 DEF WireInv, Renegotiate, Renegotiated, Begun
      <3>2. ~FallsShort(n, s, result)
        BY <2>4 DEF FallsShort
      <3> QED
        BY <1>2, <2>1, <2>4, <3>1, <3>2 DEF WireInv
    <2>5. CASE /\ peer = "open" /\ Renegotiated(FALSE) = "ready" /\ n - written > space
               /\ s = 0 /\ result = "CallAgainWaitForWrite"
               /\ written' = written + space
               /\ Renegotiate(FALSE, space)
      <3>1. space' \in Nat /\ ssl' = "ready"
        BY <2>5 DEF WireInv, Renegotiate, Renegotiated, Begun
      <3>2. FallsShort(n, s, result) => Waits("write", result)
        BY <2>5, <3>1, Directions DEF Waits
      <3>3. space < n - written
        BY <2>5 DEF WireInv
      <3> QED
        BY <1>2, <2>1, <2>5, <3>1, <3>2, <3>3 DEF WireInv
    <2> QED
      BY <2>1, <2>2, <2>3, <2>4, <2>5 DEF sslWrite
  <1> QED
    BY <1>1, <1>2

(* SSL_connect() that is not done says what to wait for. *)
LEMMA ShookHands ==
    ASSUME WireInv, NEW result, connectSsl(result)
    PROVE  /\ WireInv'
           /\ result \in CallAgain => Waits("ssl", result)
  <1>1. /\ UNCHANGED <<tls, peer, arrived, pending, written>>
        /\ space' \in Nat
        /\ ssl' \in {"ready", "write", "read"}
        /\ ssl = "ready" => ssl' = "ready"
    BY DEF connectSsl, WireInv, Renegotiate, Renegotiated, Begun
  <1>2. result \in CallAgain /\ peer = "open" =>
          \/ ssl' = "write" /\ result = "CallAgainWaitForWrite"
          \/ ssl' = "read" /\ result = "CallAgainWaitForRead"
    BY DEF connectSsl, WireInv, Renegotiate, Renegotiated, Begun, WantsTo, CallAgain
  <1>3. WireInv'
    BY <1>1 DEF WireInv
  <1>4. result \in CallAgain => Waits("ssl", result)
    BY <1>1, <1>2, Directions DEF Waits
  <1> QED
    BY <1>3, <1>4

-----------------------------------------------------------------------------
(* The steps. *)

(* A call that ends leaves nothing behind but its outcome. *)
LEMMA Ended ==
    ASSUME CallInv, connected' = connected, NEW result, end(result)
    PROVE  CallInv' /\ ClockInv' /\ WaitInv'
  <1>1. pc' = "idle" /\ op' = [kind |-> "none", left |-> 0]
    BY DEF end, NoOp
  <1>2. sinceActivity' = 0 /\ waited' = 0 /\ deadline' = 0
    BY DEF end, NoTimeout
  <1> QED
    BY <1>1, <1>2 DEF CallInv, ClockInv, WaitInv, Kinds

(* What goes on around the thread leaves its calls alone. *)
LEMMA Elsewhere ==
    ASSUME CallInv, ClockInv, UNCHANGED <<pc, op, clockVars>>, connected' \in {"pending", "ok"} \cup connectErrors
    PROVE  CallInv' /\ ClockInv'
  BY DEF CallInv, ClockInv, clockVars, makeTimeout

LEMMA WireKeeps == ASSUME SocketInv, Wire PROVE SocketInv'
  <1>1. UNCHANGED <<pc, op, connected, clockVars, waitType>>
    BY DEF Wire, callVars
  <1>2. WireInv' /\ ssl' = ssl /\ pending' = pending /\ (peer' = "open" => peer = "open")
    BY DEF SocketInv, WireInv, Wire, ServerSends, ServerLeaves, BufferDrains, ServerRenegotiates, ServerAnswers
  <1>3. CallInv' /\ ClockInv'
    BY <1>1, Elsewhere DEF SocketInv, CallInv
  <1>4. WaitInv'
    BY <1>1, <1>2 DEF SocketInv, WaitInv
  <1> QED
    BY <1>2, <1>3, <1>4 DEF SocketInv

LEMMA OthersKeep ==
    ASSUME SocketInv, Connects \/ Application \/ UNCHANGED vars
    PROVE  SocketInv'
  <1>1. UNCHANGED <<pc, op, clockVars, waitType, wireVars>>
        /\ connected' \in {"pending", "ok"} \cup connectErrors
    BY DEF Connects, Application, RequestDisconnect, Notify, vars, callVars, SocketInv, CallInv
  <1>2. CallInv' /\ ClockInv'
    BY <1>1, Elsewhere DEF SocketInv
  <1>3. WireInv' /\ WaitInv'
    BY <1>1 DEF SocketInv, WireInv, WaitInv, wireVars
  <1> QED
    BY <1>2, <1>3 DEF SocketInv

(* Time passes only while a timeout has not been reached. *)
LEMMA TickKeeps == ASSUME SocketInv, Tick PROVE SocketInv'
  <1>1. UNCHANGED <<pc, op, connected, deadline, waitType, wireVars>>
    BY DEF Tick, callVars
  <1>2. /\ pc = "wait" /\ waited' = waited + 1
        /\ waited < deadline \/ waited = 0
        /\ op.kind = "ssl" => sinceActivity' = 0
        /\ op.kind # "ssl" => sinceActivity' = sinceActivity + 1
    BY DEF Tick
  <1>3. CallInv' /\ WireInv' /\ WaitInv'
    BY <1>1 DEF SocketInv, CallInv, WireInv, WaitInv, wireVars
  <1>4. ClockInv'
    <2>1. /\ sinceActivity' \in Nat /\ waited' \in Nat /\ deadline' \in Nat
          /\ pc' # "idle"
      BY <1>1, <1>2 DEF SocketInv, ClockInv
    <2>2. ASSUME op.kind = "connect"
          PROVE  /\ sinceActivity' <= Timeout + 1
                 /\ waited' <= sinceActivity' /\ sinceActivity' - waited' <= Timeout
                 /\ deadline' = makeTimeout(sinceActivity' - waited')
      <3>1. /\ waited <= sinceActivity /\ sinceActivity - waited <= Timeout
            /\ deadline = makeTimeout(sinceActivity - waited)
            /\ sinceActivity \in Nat /\ waited \in Nat
        BY <1>2, <2>2 DEF SocketInv, ClockInv
      <3>2. sinceActivity' - waited' = sinceActivity - waited
        BY <1>2, <2>2, <3>1
      <3> QED
        BY <1>1, <1>2, <2>2, <3>1, <3>2, Positive DEF makeTimeout
    <2>3. ASSUME op.kind \in {"read", "write"}
          PROVE  /\ sinceActivity' <= 2 * Timeout + 1
                 /\ sinceActivity' - waited' <= Timeout /\ deadline' = Timeout + 1
      <3>1. /\ sinceActivity - waited <= Timeout /\ deadline = Timeout + 1
            /\ sinceActivity \in Nat /\ waited \in Nat /\ sinceActivity' = sinceActivity + 1
        BY <1>2, <2>3 DEF SocketInv, ClockInv
      <3> QED
        BY <1>1, <1>2, <3>1, Positive
    <2> QED
      BY <1>1, <2>1, <2>2, <2>3 DEF ClockInv
  <1> QED
    BY <1>3, <1>4 DEF SocketInv

LEMMA StartsKeep == ASSUME SocketInv, Starts PROVE SocketInv'
  <1>1. CASE NoSuchHost \/ ConnectAtOnce \/ Close
    <2>1. /\ UNCHANGED <<pc, op, clockVars, waitType>>
          /\ connected' \in {"pending", "ok"} \cup connectErrors
          /\ pc = "idle"
      BY <1>1 DEF NoSuchHost, ConnectAtOnce, Close, resolve, SocketInv, CallInv
    <2>2. WireInv'
      BY <1>1, Positive DEF NoSuchHost, ConnectAtOnce, Close, wireVars, SocketInv, WireInv
    <2>3. CallInv' /\ ClockInv'
      BY <2>1, Elsewhere DEF SocketInv
    <2> QED
      BY <2>1, <2>2, <2>3 DEF SocketInv, WaitInv
  <1>2. CASE ConnectInProgress \/ writeDataBlocking \/ readDataBlocking \/ StartSsl
    <2>1. PICK kind \in {"connect", "write", "read", "ssl"}, n \in Int :
            /\ begin(kind, n)
            /\ kind \in {"write", "read"} => n >= 1
      BY <1>2 DEF ConnectInProgress, writeDataBlocking, readDataBlocking, StartSsl
    <2>2. /\ UNCHANGED clockVars
          /\ connected' \in {"pending", "ok"} \cup connectErrors
      BY <1>2 DEF ConnectInProgress, writeDataBlocking, readDataBlocking, StartSsl, SocketInv, CallInv
    <2>3. WireInv'
      BY <1>2 DEF ConnectInProgress, writeDataBlocking, readDataBlocking, StartSsl, wireVars, SocketInv, WireInv
    <2>4. pc = "idle" /\ pc' = "call" /\ op' = [kind |-> kind, left |-> n]
      BY <2>1 DEF begin
    <2>5. CallInv'
      BY <2>1, <2>2, <2>4 DEF CallInv, Kinds
    <2>6. ClockInv'
      BY <2>2, <2>4, Positive DEF SocketInv, ClockInv, clockVars
    <2> QED
      BY <2>3, <2>4, <2>5, <2>6 DEF SocketInv, WaitInv
  <1>3. CASE Select
    <2>1. /\ pc' = "wait" /\ op' = [kind |-> "receive", left |-> MaxBytes]
          /\ waited' = 0 /\ deadline' = 0 /\ UNCHANGED <<connected, sinceActivity, wireVars>>
      BY <1>3 DEF Select, startWait, NoTimeout
    <2>2. CallInv'
      BY <2>1, Positive DEF SocketInv, CallInv, Kinds
    <2>3. ClockInv'
      BY <2>1 DEF SocketInv, ClockInv
    <2>4. WireInv' /\ WaitInv'
      BY <2>1 DEF SocketInv, WireInv, WaitInv, wireVars
    <2> QED
      BY <2>2, <2>3, <2>4 DEF SocketInv
  <1> QED
    BY <1>1, <1>2, <1>3 DEF Starts

(* The steps of a call that do not touch the wire. *)
LEMMA WaitsKeep ==
    ASSUME SocketInv,
           \/ Signalled \/ WaitTimesOut \/ CheckInterruption \/ CheckSignalled \/ SelectAgain
           \/ ConnectWait \/ ConnectTimesOut \/ ConnectResult \/ WaitFails
    PROVE  SocketInv'
  <1>1. UNCHANGED wireVars /\ connected' = connected
    BY DEF Signalled, WaitTimesOut, CheckInterruption, CheckSignalled, SelectAgain,
           ConnectWait, ConnectTimesOut, ConnectResult, WaitFails
  <1>2. WireInv'
    BY <1>1 DEF SocketInv, WireInv, wireVars
  <1>3. ASSUME NEW result, end(result)
        PROVE  SocketInv'
    BY <1>1, <1>2, <1>3, Ended DEF SocketInv
  <1>4. ASSUME pc \in {"wait", "check"}, goOn, UNCHANGED <<op, sinceActivity>>
        PROVE  SocketInv'
    <2>1. pc' = "call" /\ waited' = 0 /\ deadline' = 0
      BY <1>4 DEF goOn, NoTimeout
    <2>2. CallInv'
      BY <1>1, <1>4, <2>1 DEF SocketInv, CallInv
    <2>3. ClockInv'
      BY <1>4, <2>1 DEF SocketInv, ClockInv
    <2> QED
      BY <1>2, <2>1, <2>2, <2>3 DEF SocketInv, WaitInv
  <1>5. CASE Signalled
    <2>1. pc = "wait" /\ pc' = "check" /\ UNCHANGED <<op, clockVars>>
      BY <1>5 DEF Signalled
    <2>2. CallInv'
      BY <1>1, <2>1 DEF SocketInv, CallInv
    <2>3. ClockInv'
      BY <2>1 DEF SocketInv, ClockInv, clockVars
    <2> QED
      BY <1>2, <2>1, <2>2, <2>3 DEF SocketInv, WaitInv
  <1>6. CASE WaitTimesOut
    BY <1>3, <1>4, <1>6 DEF WaitTimesOut
  <1>7. CASE CheckSignalled
    BY <1>4, <1>7 DEF CheckSignalled
  <1>8. CASE ConnectWait
    <2>1. /\ pc = "call" /\ op.kind = "connect" /\ sinceActivity <= Timeout
          /\ pc' = "wait" /\ waited' = 0 /\ deadline' = makeTimeout(sinceActivity)
          /\ UNCHANGED <<op, sinceActivity>>
      BY <1>8 DEF ConnectWait, startWait
    <2>2. CallInv'
      BY <1>1, <2>1 DEF SocketInv, CallInv
    <2>3. ClockInv'
      BY <2>1, Positive DEF SocketInv, ClockInv, makeTimeout
    <2>4. WaitInv'
      BY <2>1 DEF WaitInv
    <2> QED
      BY <1>2, <2>2, <2>3, <2>4 DEF SocketInv
  <1>9. CASE CheckInterruption \/ SelectAgain \/ ConnectTimesOut \/ ConnectResult \/ WaitFails
    BY <1>3, <1>9 DEF CheckInterruption, SelectAgain, ConnectTimesOut, ConnectResult, WaitFails
  <1> QED
    BY <1>5, <1>6, <1>7, <1>8, <1>9

(* What follows recv() or send(). *)
LEMMA TransferKeeps ==
    ASSUME SocketInv, WireInv', connected' = connected, NEW s \in Nat, NEW result,
           pc = "call", op.kind \in {"read", "write"}, s <= op.left,
           FallsShort(op.left, s, result) => Waits(op.kind, result),
           afterTransfer(s, result)
    PROVE  SocketInv'
  <1>1. ASSUME NEW r, end(r)
        PROVE  SocketInv'
    BY <1>1, Ended DEF SocketInv
  <1>2. ASSUME /\ result \in CallAgain \cup {"NoError"} /\ s < op.left /\ ~expired(s)
               /\ op' = [op EXCEPT !.left = @ - s]
               /\ sinceActivity' = activity(s)
               /\ startWait(directionOf(op.kind, result), makeTimeout(0))
        PROVE  SocketInv'
    <2>1. /\ pc' = "wait" /\ waitType' = directionOf(op.kind, result)
          /\ waited' = 0 /\ deadline' = Timeout + 1
      BY <1>2, Positive DEF startWait, makeTimeout
    <2>2. op' \in [kind : Kinds, left : Int] /\ op'.kind = op.kind /\ op'.left >= 1
      BY <1>2 DEF SocketInv, CallInv
    <2>3. CallInv'
      BY <2>1, <2>2 DEF SocketInv, CallInv
    <2>4. sinceActivity' \in Nat /\ sinceActivity' <= Timeout
      BY <1>2, Positive DEF SocketInv, ClockInv, activity, expired
    <2>5. ClockInv'
      <3>1. op'.kind \in {"read", "write"} /\ pc' # "idle"
        BY <2>1, <2>2
      <3>2. /\ sinceActivity' \in Nat /\ waited' \in Nat /\ deadline' \in Nat
            /\ sinceActivity' <= 2 * Timeout + 1
            /\ sinceActivity' - waited' <= Timeout /\ deadline' = Timeout + 1
        <4>1. ASSUME NEW t \in Nat, t <= Timeout
              PROVE  t <= 2 * Timeout + 1 /\ t - 0 <= Timeout /\ Timeout + 1 \in Nat
          BY <4>1, Positive
        <4> QED
          BY <2>1, <2>4, <4>1
      <3> QED
        BY <3>1, <3>2 DEF ClockInv
    <2>6. Waits(op.kind, result)
      BY <1>2 DEF FallsShort
    <2>7. WaitInv'
      BY <2>1, <2>2, <2>6 DEF WaitInv, Waits
    <2> QED
      BY <2>3, <2>5, <2>7 DEF SocketInv
  <1> QED
    BY <1>1, <1>2 DEF afterTransfer

LEMMA ThreadKeeps == ASSUME SocketInv, Thread PROVE SocketInv'
  <1>1. CASE Transfer
    <2>1. PICK s \in 0..MaxBytes,
               result \in CallAgain \cup {"NoError", "ClosedByRemote", "ResetByRemote", "GenericError"} :
            /\ \/ op.kind = "write" /\ sendData(op.left, s, result)
               \/ op.kind = "read" /\ receiveData(op.left, s, result)
            /\ afterTransfer(s, result)
      BY <1>1 DEF Transfer
    <2>2. pc = "call" /\ connected' = connected /\ op.kind \in {"read", "write"} /\ s \in Nat
      BY <1>1, <2>1, Positive DEF Transfer
    <2>3. op.left \in Nat /\ op.left >= 1
      BY <2>2 DEF SocketInv, CallInv
    <2>4. WireInv' /\ s <= op.left /\ (FallsShort(op.left, s, result) => Waits(op.kind, result))
      <3>1. CASE op.kind = "write" /\ sendData(op.left, s, result)
        BY <2>2, <2>3, <3>1, Sent DEF SocketInv
      <3>2. CASE op.kind = "read" /\ receiveData(op.left, s, result)
        BY <2>2, <2>3, <3>2, Received DEF SocketInv
      <3> QED
        BY <2>1, <3>1, <3>2
    <2> QED
      BY <2>1, <2>2, <2>4, TransferKeeps
  <1>2. CASE Handshake
    <2>1. PICK result \in CallAgain \cup {"NoError", "SslHandshake"} :
            /\ connectSsl(result)
            /\ \/ /\ result \in CallAgain
                  /\ startWait(directionOf("ssl", result), Timeout)
                  /\ UNCHANGED <<op, outcome, signalledSocket, sinceActivity>>
               \/ result = "NoError" /\ end("ok")
               \/ result = "SslHandshake" /\ end("SslHandshake")
      BY <1>2 DEF Handshake
    <2>2. pc = "call" /\ op.kind = "ssl" /\ connected' = connected
      BY <1>2 DEF Handshake
    <2>3. WireInv' /\ (result \in CallAgain => Waits("ssl", result))
      BY <2>1, ShookHands DEF SocketInv
    <2>4. ASSUME NEW r, end(r)
          PROVE  SocketInv'
      BY <2>2, <2>3, <2>4, Ended DEF SocketInv
    <2>5. ASSUME /\ result \in CallAgain
                 /\ startWait(directionOf("ssl", result), Timeout)
                 /\ UNCHANGED <<op, outcome, signalledSocket, sinceActivity>>
          PROVE  SocketInv'
      <3>1. /\ pc' = "wait" /\ waitType' = directionOf("ssl", result)
            /\ waited' = 0 /\ deadline' = Timeout /\ op' = op /\ sinceActivity' = sinceActivity
        BY <2>5 DEF startWait
      <3>2. CallInv'
        BY <2>2, <3>1 DEF SocketInv, CallInv
      <3>3. ClockInv'
        BY <2>2, <3>1, Positive DEF SocketInv, ClockInv
      <3>4. WaitInv'
        BY <2>2, <2>3, <2>5, <3>1 DEF WaitInv, Waits
      <3> QED
        BY <2>3, <3>2, <3>3, <3>4 DEF SocketInv
    <2> QED
      BY <2>1, <2>4, <2>5
  <1>3. CASE readAvailableDataNonBlocking
    <2>1. PICK s \in 0..MaxBytes,
               result \in CallAgain \cup {"NoError", "ClosedByRemote", "ResetByRemote", "GenericError"} :
            /\ receiveData(op.left, s, result)
            /\ end(IF result \in CallAgain \cup {"NoError"} THEN "ok" ELSE transferError(result))
      BY <1>3 DEF readAvailableDataNonBlocking
    <2>2. op.left \in Nat /\ op.left >= 1 /\ s \in Nat /\ connected' = connected
      BY <1>3, Positive DEF readAvailableDataNonBlocking, SocketInv, CallInv
    <2>3. WireInv'
      BY <2>1, <2>2, Received DEF SocketInv
    <2> QED
      BY <2>1, <2>2, <2>3, Ended DEF SocketInv
  <1> QED
    BY <1>1, <1>2, <1>3, WaitsKeep DEF Thread

LEMMA SocketInvariant == Spec => []SocketInv
  <1>1. Init => SocketInv
    BY Positive DEF Init, WireInit, NoOp, NoTimeout, SocketInv, CallInv, WireInv, ClockInv, WaitInv, Kinds
  <1>2. SocketInv /\ [Next]_vars => SocketInv'
    BY WireKeeps, OthersKeep, TickKeeps, StartsKeep, WaitsKeep, ThreadKeeps DEF Next
  <1> QED
    BY <1>1, <1>2, PTL DEF Spec

-----------------------------------------------------------------------------

(* A silent peer is noticed within the timeout, or within twice the timeout *)
(* by a read or a write, for every timeout (Socket's blocking calls).      *)
THEOREM SilencePerceived == Spec => []IdleBounded
  <1>1. SocketInv => IdleBounded
    BY DEF SocketInv, ClockInv, IdleBounded
  <1> QED
    BY <1>1, SocketInvariant, PTL

(* No blocking call sleeps on progress it could make, whatever a TLS        *)
(* renegotiation needs (waitForSignal() with the result of SSL_read()).    *)
THEOREM NeverSleepsOnProgress == Spec => []WakesForProgress
  <1>1. ASSUME SocketInv
        PROVE  WakesForProgress
    <2>1. SUFFICES ASSUME pc = "wait", op.kind \in {"read", "write", "ssl"}, peer = "open", CanProgress
                   PROVE  SocketSignalled
      BY DEF WakesForProgress
    <2>2. CASE ssl = "write"
      BY <1>1, <2>1, <2>2 DEF SocketInv, WaitInv, CanProgress, SocketSignalled, Writable
    <2>3. CASE ssl = "read"
      BY <1>1, <2>1, <2>3 DEF SocketInv, WaitInv, CanProgress, SocketSignalled, Readable
    <2>4. CASE ssl = "ready"
      <3>1. \/ op.kind = "write" /\ waitType = "Write"
            \/ op.kind = "read" /\ waitType = "Read" /\ pending = 0
        BY <1>1, <2>1, <2>4 DEF SocketInv, WaitInv
      <3>2. CASE op.kind = "write" /\ waitType = "Write"
        BY <2>1, <2>4, <3>2 DEF CanProgress, SocketSignalled, Writable
      <3>3. CASE op.kind = "read" /\ waitType = "Read" /\ pending = 0
        <4>1. arrived > 0 \/ pending > 0 \/ hello = "request"
          BY <2>1, <2>4, <3>3 DEF CanProgress
        <4> QED
          BY <3>3, <4>1 DEF SocketSignalled, Readable
      <3> QED
        BY <3>1, <3>2, <3>3
    <2> QED
      BY <1>1, <2>2, <2>3, <2>4 DEF SocketInv, WireInv
  <1> QED
    BY <1>1, SocketInvariant, PTL

(* An answer that races the timeout wins: a read gives up only after a last *)
(* try that found nothing, a write only after one that could not finish,   *)
(* and without TLS could not even begin (socket.cpp:324-330 and 419-425).  *)
THEOREM AnswersWin == Spec => TimesOutOnlyWhenStuck
  <1>1. ASSUME SocketInv, Next, outcome' = "ReadWriteTimeout", outcome = "ok"
        PROVE  Stuck
    <2>1. CASE Transfer
      <3>1. PICK s \in 0..MaxBytes,
                 result \in CallAgain \cup {"NoError", "ClosedByRemote", "ResetByRemote", "GenericError"} :
              /\ \/ op.kind = "write" /\ sendData(op.left, s, result)
                 \/ op.kind = "read" /\ receiveData(op.left, s, result)
              /\ afterTransfer(s, result)
        BY <2>1 DEF Transfer
      <3>2. result \in CallAgain \cup {"NoError"} /\ s < op.left /\ s = 0
        BY <1>1, <3>1 DEF afterTransfer, end, transferError, expired
      <3>3. op.left \in Nat /\ op.left >= 1 /\ FallsShort(op.left, s, result)
        BY <1>1, <3>1, <3>2 DEF SocketInv, CallInv, FallsShort
      <3>4. CASE op.kind = "write" /\ sendData(op.left, s, result)
        BY <1>1, <3>2, <3>3, <3>4, Sent DEF SocketInv, Stuck
      <3>5. CASE op.kind = "read" /\ receiveData(op.left, s, result)
        BY <1>1, <3>2, <3>3, <3>5, Received DEF SocketInv, Stuck
      <3> QED
        BY <3>1, <3>4, <3>5
    <2>2. CASE ~Transfer
      <3>1. outcome' # "ReadWriteTimeout"
        <4>1. CASE Thread
          BY <1>1, <2>2, <4>1
             DEF Thread, Signalled, WaitTimesOut, CheckInterruption, CheckSignalled, SelectAgain, goOn,
                 ConnectWait, ConnectTimesOut, ConnectResult, Handshake, readAvailableDataNonBlocking,
                 end, transferError, CallAgain, SocketInv, CallInv, connectErrors
        <4>2. CASE Starts
          BY <1>1, <4>2
             DEF Starts, NoSuchHost, ConnectAtOnce, ConnectInProgress, writeDataBlocking,
                 readDataBlocking, StartSsl, Select, Close, connectErrors
        <4>3. CASE Wire \/ Connects \/ Application \/ WaitFails \/ Tick
          BY <1>1, <4>3 DEF Wire, Connects, Application, RequestDisconnect, Notify, WaitFails, Tick, callVars, end
        <4> QED
          BY <1>1, <4>1, <4>2, <4>3 DEF Next
      <3> QED
        BY <1>1, <3>1
    <2> QED
      BY <2>1, <2>2
  <1>2. SocketInv /\ [Next]_vars =>
          [outcome' = "ReadWriteTimeout" /\ outcome = "ok"
            => Stuck]_vars
    BY <1>1
  <1> QED
    BY <1>2, SocketInvariant, PTL DEF Spec, TimesOutOnlyWhenStuck
=============================================================================
