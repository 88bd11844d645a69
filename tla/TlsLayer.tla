-------------------------------- MODULE TlsLayer --------------------------------
(***************************************************************************)
(* The two ends of the wire as the thread sees them: what the kernel holds *)
(* for a socket, and the TLS library between the socket and its user       *)
(* (opensslcontext.cpp).                                                   *)
(*                                                                         *)
(* Without TLS the kernel holds bytes, with TLS records of RecordSize      *)
(* bytes each.  A record is decrypted as a whole; the library keeps what   *)
(* its user did not ask for.  During a renegotiation it has to write in    *)
(* order to read, and to read in order to write.                           *)
(***************************************************************************)
EXTENDS Integers

CONSTANTS
    RecordSize,
    MaxArrived,     \* bound: bytes or records on their way
    MaxSpace        \* bound: room for bytes in the socket's send buffer

ASSUME TlsAssumption == {RecordSize, MaxArrived, MaxSpace} \subseteq Nat \ {0}

VARIABLES
    tls,        \* the socket has an encryption context
    peer,       \* "open", "closed" or "reset" by the server
    arrived,    \* received by the kernel
    space,      \* room in the send buffer
    pending,    \* decrypted and not yet read
    ssl,        \* "ready", or what the renegotiation has to do: "write" or "read"
    written,    \* sent of an SSL_write() that is not finished, which its caller is not told
    hello       \* the handshake record received: "none", "request" or "answer"

wireVars == <<tls, peer, arrived, space, pending, ssl, written, hello>>

WireInit ==
    /\ tls = FALSE /\ peer = "open"
    /\ arrived = 0 /\ space = MaxSpace /\ pending = 0
    /\ ssl = "ready" /\ written = 0 /\ hello = "none"

Smaller(m, n) == IF m < n THEN m ELSE n

(* select() *)
Readable == arrived > 0 \/ hello # "none" \/ peer # "open"
Writable == space > 0 \/ peer = "reset"

-----------------------------------------------------------------------------
(* The server and the network *)

ServerSends ==
    /\ peer = "open" /\ ssl = "ready" /\ hello = "none" /\ arrived < MaxArrived
    /\ arrived' = arrived + 1
    /\ UNCHANGED <<tls, peer, space, pending, ssl, written, hello>>

ServerLeaves ==
    /\ \/ peer = "open" /\ peer' \in {"closed", "reset"}
       \/ peer = "closed" /\ peer' = "reset"
    /\ UNCHANGED <<tls, arrived, space, pending, ssl, written, hello>>

BufferDrains ==
    /\ peer = "open" /\ space < MaxSpace
    /\ space' = space + 1
    /\ UNCHANGED <<tls, peer, arrived, pending, ssl, written, hello>>

ServerRenegotiates ==
    /\ tls /\ peer = "open" /\ ssl = "ready" /\ hello = "none"
    /\ hello' = "request"
    /\ UNCHANGED <<tls, peer, arrived, space, pending, ssl, written>>

ServerAnswers ==
    /\ peer = "open" /\ ssl = "read" /\ hello = "none"
    /\ hello' = "answer"
    /\ UNCHANGED <<tls, peer, arrived, space, pending, ssl, written>>

-----------------------------------------------------------------------------
(* A call of recv(), send(), SSL_read() or SSL_write() for up to n bytes    *)
(* returns a number of bytes or what to do.                                *)

(* How far the renegotiation gets in a call: a request comes after the data *)
(* sent before it, and the server sends no more until it has its answer.   *)
Begun(reads) == IF ssl = "ready" /\ reads /\ arrived + pending = 0 /\ hello = "request" THEN "write" ELSE ssl

Renegotiated(reads) ==
    CASE Begun(reads) = "write" -> IF space > 0 THEN "read" ELSE "write"
      [] Begun(reads) = "read" -> IF hello = "answer" THEN "ready" ELSE "read"
      [] Begun(reads) = "ready" -> "ready"

WantsTo(what) == IF what = "write" THEN "CallAgainWaitForWrite" ELSE "CallAgainWaitForRead"

(* What the library has decrypted when it looks for data. *)
Decrypted == IF pending = 0 /\ arrived > 0 THEN RecordSize ELSE pending

Renegotiate(reads, sent) ==
    /\ ssl' = Renegotiated(reads)
    /\ space' = space - sent - (IF Begun(reads) = "write" /\ space > 0 THEN 1 ELSE 0)
    /\ hello' = IF ssl # Begun(reads) \/ (ssl = "read" /\ hello = "answer") THEN "none" ELSE hello

(* Socket::receiveData() without TLS: recv() *)
recv(n, s, result) ==
    /\ UNCHANGED <<tls, peer, space, pending, ssl, written, hello>>
    /\ \/ /\ peer = "reset"
          /\ s = 0 /\ result = "ResetByRemote"
          /\ UNCHANGED arrived
       \/ /\ peer # "reset"
          /\ s = Smaller(n, arrived)
          /\ result = IF s > 0 THEN "NoError"
                      ELSE IF peer = "closed" THEN "ClosedByRemote" ELSE "CallAgainWaitForRead"
          /\ arrived' = arrived - s

(* OpenSSLContext::receiveData(): SSL_read().  A connection that ends without *)
(* a TLS goodbye is taken for a reset.                                      *)
sslRead(n, s, result) ==
    /\ UNCHANGED <<tls, peer, written>>
    /\ \/ /\ peer = "reset" \/ (peer = "closed" /\ Renegotiated(TRUE) # "ready")
          /\ s = 0 /\ result \in {"ResetByRemote", "GenericError"}
          /\ UNCHANGED <<arrived, space, pending, ssl, hello>>
       \/ /\ peer = "open" /\ Renegotiated(TRUE) # "ready"
          /\ s = 0 /\ result = WantsTo(Renegotiated(TRUE))
          /\ Renegotiate(TRUE, 0)
          /\ UNCHANGED <<arrived, pending>>
       \/ /\ peer # "reset" /\ Renegotiated(TRUE) = "ready"
          /\ s = Smaller(n, Decrypted)
          /\ result \in IF s > 0 THEN {"NoError"}
                        ELSE IF peer = "open" THEN {"CallAgainWaitForRead"}
                        ELSE {"ClosedByRemote", "ResetByRemote"}
          /\ arrived' = IF pending = 0 /\ arrived > 0 THEN arrived - 1 ELSE arrived
          /\ pending' = Decrypted - s
          /\ Renegotiate(TRUE, 0)

receiveData(n, s, result) == IF tls THEN sslRead(n, s, result) ELSE recv(n, s, result)

(* Socket::sendData() without TLS: send().  What a closed peer does not take *)
(* is noticed by a later call.                                             *)
send(n, s, result) ==
    /\ UNCHANGED <<tls, arrived, pending, ssl, written, hello>>
    /\ \/ /\ peer # "open"
          /\ s = 0 /\ result \in {"ResetByRemote", "GenericError"}
          /\ UNCHANGED <<peer, space>>
       \/ /\ peer # "reset"
          /\ s = Smaller(n, space)
          /\ result = IF s > 0 THEN "NoError" ELSE "CallAgainWaitForWrite"
          /\ peer' = IF peer = "closed" /\ s > 0 THEN "reset" ELSE peer
          /\ space' = space - s

(* OpenSSLContext::sendData(): SSL_write() without partial writes.  It is   *)
(* called again with the same bytes until all of them have left; before    *)
(* that it tells of none.                                                  *)
sslWrite(n, s, result) ==
    /\ UNCHANGED <<tls, peer, arrived, pending>>
    /\ \/ /\ peer # "open"
          /\ s = 0 /\ result \in {"ResetByRemote", "GenericError"}
          /\ UNCHANGED <<space, ssl, written, hello>>
       \/ /\ peer = "open" /\ Renegotiated(FALSE) # "ready"
          /\ s = 0 /\ result = WantsTo(Renegotiated(FALSE))
          /\ Renegotiate(FALSE, 0)
          /\ UNCHANGED written
       \/ /\ peer = "open" /\ Renegotiated(FALSE) = "ready" /\ n - written <= space
          /\ s = n /\ result = "NoError"
          /\ written' = 0
          /\ Renegotiate(FALSE, n - written)
       \/ /\ peer = "open" /\ Renegotiated(FALSE) = "ready" /\ n - written > space
          /\ s = 0 /\ result = "CallAgainWaitForWrite"
          /\ written' = written + space
          /\ Renegotiate(FALSE, space)

sendData(n, s, result) == IF tls THEN sslWrite(n, s, result) ELSE send(n, s, result)

(* startOpenSSLHandshake(): SSL_connect() *)
connectSsl(result) ==
    /\ UNCHANGED <<tls, peer, arrived, pending, written>>
    /\ \/ /\ peer # "open" /\ result = "SslHandshake"
          /\ UNCHANGED <<space, ssl, hello>>
       \/ /\ peer = "open"
          /\ result = IF Renegotiated(FALSE) = "ready" THEN "NoError" ELSE WantsTo(Renegotiated(FALSE))
          /\ Renegotiate(FALSE, 0)
=============================================================================
