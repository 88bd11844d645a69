---------------------------- MODULE Rfb3xHandshake ----------------------------
(***************************************************************************)
(* The client's side of the handshake, from the version of the protocol to *)
(* the end of the initialisation: ConnectionThread::                       *)
(* negotiateProtocolVersion(), class Rfb3xHandshake with the handlers of   *)
(* the security types, and performClientAndServerInit().                   *)
(*                                                                         *)
(* The client does one blocking call after the other.  While it reads, pc  *)
(* is the kind of item that it reads; the other values of pc are writes,   *)
(* the two TLS handshakes and the last look at the socket.                 *)
(***************************************************************************)
EXTENDS RfbServer, PixelFormats

CONSTANTS
    HaveMbedTls, HaveOpenSSL,   \* OPENRV_HAVE_MBEDTLS, OPENRV_HAVE_OPENSSL
    CustomFormats,              \* the pixel formats an application may ask for
    MaxAttempts                 \* bound: how often the application connects

ASSUME ClientAssumption ==
    /\ HaveMbedTls \in BOOLEAN /\ HaveOpenSSL \in BOOLEAN
    /\ MaxAttempts \in Nat
    /\ ServerFormats \subseteq [1..16 -> UInt8] /\ CustomFormats \subseteq PixelFormat
    /\ \A format \in ServerFormats :
        format \in BadFormats <=> ~isPixelFormatValidForReceive(readPixelFormat(format))

VARIABLES
    pc,
    mSelectedProtocolVersion,   \* the minor number: 3, 7 or 8
    mSelectedVNCSecurityType,
    mSelectedMethod,            \* what authenticates: the type itself, or Tight's or TLS's choice
    expected,                   \* how many entries or bytes the next read asks for
    mDefault,                   \* the server's default pixel format and size
    mCurrentPixelFormat,
    reasonFor,                  \* what the reason that is being read explains
    encrypted,                  \* the socket has an encryption context
    outcome,                    \* how the attempt ended
    attempts

choices == <<mSelectedProtocolVersion, mSelectedVNCSecurityType, mSelectedMethod>>
formats == <<mDefault, mCurrentPixelFormat>>
clientVars == <<pc, choices, formats, expected, reasonFor, encrypted, outcome, attempts>>
vars == <<serverVars, clientVars>>

(* What the library can do, in order of preference. *)
SupportedTypes ==
    (IF HaveMbedTls THEN <<"VeNCrypt">> ELSE <<>>)
    \o (IF HaveOpenSSL THEN <<"AnonymousTLS">> ELSE <<>>)
    \o <<"None", "VNCAuthentication", "Tight">>
SupportedSubTypes == <<"None", "VNCAuthentication">>
SupportedAuths == {"None", "VNCAuthentication"}

(* The first of a list that is in a set, "Invalid" if none is. *)
FirstOf(list, wanted) ==
    IF Range(list) \cap wanted = {} THEN "Invalid"
    ELSE list[CHOOSE i \in DOMAIN list :
                 list[i] \in wanted /\ \A j \in 1..i - 1 : list[j] \notin wanted]

(* The client answers with the highest version both sides know. *)
SelectVersion(v) ==
    CASE v[1] = 3 /\ v[2] < 7 -> 3
      [] v[1] = 3 /\ v[2] = 7 -> 7
      [] OTHER -> 8

Reading == {"version", "oldType", "typeCount", "types", "challenge", "tunnelCount", "tunnels",
            "authCount", "auths", "subTypeCount", "subTypes", "result", "reasonLength",
            "reasonText", "serverInit", "name", "capabilityCount", "capabilities"}
Writing == {"myVersion", "myType", "myTunnel", "myAuth", "mySubType", "response", "clientInit",
            "myPixelFormat", "myEncodings"}
Reasons == {"noTypes", "oldTypeInvalid", "noSubTypes", "failedResult"}

(* ORV_ERR_CONNECT_ERROR_...; "handshake" is any error of the TLS handshake, *)
(* "unread" is ORV_ERR_READ_FAILED, "unusable" the ORV_ERR_GENERIC of        *)
(* checkFramebufferSize(), "interrupted" is ORV_ERR_USER_INTERRUPTION.      *)
Errors == {"protocol", "refused", "rejected", "authentication", "generic", "handshake",
           "unread", "unusable", "interrupted"}

ClientTypeOK ==
    /\ pc \in Reading \cup Writing \cup {"tls", "vencrypt", "quiet", "done"}
    /\ mSelectedProtocolVersion \in {3, 7, 8}
    /\ mSelectedVNCSecurityType \in Range(SupportedTypes) \cup {"Invalid"}
    /\ mSelectedMethod \in SupportedAuths \cup {"Invalid"}
    /\ expected \in Nat
    /\ mDefault \in [format : ServerFormats \cup {NoFormat}, size : Sizes \cup {<<0, 0>>}]
    /\ readPixelFormat(writePixelFormat(mCurrentPixelFormat)) = mCurrentPixelFormat
    /\ reasonFor \in Reasons \cup {"none"}
    /\ encrypted \in BOOLEAN
    /\ outcome \in Errors \cup {"none", "connected"}
    /\ (outcome = "none") = (pc # "done")
    /\ attempts \in 1..MaxAttempts

NothingKnown == [format |-> NoFormat, size |-> <<0, 0>>]

ClientInit ==
    /\ pc = "version"
    /\ mSelectedProtocolVersion = 3
    /\ mSelectedVNCSecurityType = "Invalid"
    /\ mSelectedMethod = "Invalid"
    /\ expected = 0 /\ reasonFor = "none"
    /\ mDefault = NothingKnown /\ mCurrentPixelFormat = DefaultFormat
    /\ encrypted = FALSE
    /\ outcome = "none"
    /\ attempts = 1

Init == ServerInit /\ ClientInit

-----------------------------------------------------------------------------
(* The blocking calls. *)

(* readDataBlocking() has got the item: the rest is up to the caller. *)
Receive(kind) ==
    /\ pc = kind
    /\ inbound # <<>> /\ Head(inbound).kind = kind /\ Head(inbound).tls = encrypted
    /\ inbound' = Tail(inbound)
    /\ UNCHANGED <<wire, outbound, link, hopeless, svVars, encrypted, attempts>>

Received == Head(inbound).val

(* writeDataBlocking() fills the send buffer, whatever the other side does. *)
Send(kind, val) ==
    /\ pc = kind
    /\ outbound' = Append(outbound, [kind |-> kind, val |-> val, tls |-> encrypted])
    /\ UNCHANGED <<wire, inbound, link, hopeless, svVars, encrypted, attempts>>

goto(next) == pc' = next /\ UNCHANGED outcome
Finish(result) == pc' = "done" /\ outcome' = result

(* Faulty: every rejection is reported as a failed authentication. *)
Heard_Authentication(why) == "authentication"

(* What is reported once a reason has been read, and if it cannot be. *)
Heard(why) == IF why = "failedResult" THEN "authentication" ELSE "rejected"
Unheard(why) == IF why = "noTypes" THEN "protocol" ELSE Heard(why)

(* Only while it waits for the version does the client report how the      *)
(* connection was lost: a server that closes it refuses the client.        *)
Unable ==
    CASE pc = "version" -> IF link = "closed" THEN "refused" ELSE "unread"
      [] pc \in {"reasonLength", "reasonText"} -> Unheard(reasonFor)
      [] pc = "tls" -> "handshake"
      [] pc \in {"myPixelFormat", "myEncodings"} -> "generic"
      [] OTHER -> "protocol"

(* The other side is gone, or silent for longer than the timeout. *)
ConnectionLost ==
    /\ pc \in Reading \cup Writing \cup {"tls"}
    /\ \/ link = "down"
       \/ link = "closed" /\ outbound # <<>>
       \/ link = "closed" /\ wire = <<>> /\ inbound = <<>> /\ pc \notin Writing
    /\ Finish(Unable)
    /\ UNCHANGED <<serverVars, choices, formats, expected, reasonFor, encrypted, attempts>>

(* The thread notifier wakes the call up and it gives up, whoever made it. *)
Interrupted ==
    /\ pc \in Reading \cup Writing \cup {"tls"}
    /\ Finish("interrupted")
    /\ UNCHANGED <<serverVars, choices, formats, expected, reasonFor, encrypted, attempts>>

-----------------------------------------------------------------------------
(* The version of the protocol. *)

NegotiateProtocolVersion ==
    /\ Receive("version") /\ UNCHANGED formats
    /\ IF Received[1] < 3 \/ (Received[1] = 3 /\ Received[2] < 3)
       THEN Finish("protocol") /\ UNCHANGED mSelectedProtocolVersion
       ELSE goto("myVersion") /\ mSelectedProtocolVersion' = SelectVersion(Received)
    /\ UNCHANGED <<mSelectedVNCSecurityType, mSelectedMethod, expected, reasonFor>>

StartVncProtocol ==
    /\ Send("myVersion", mSelectedProtocolVersion) /\ UNCHANGED formats
    /\ goto(IF mSelectedProtocolVersion = 3 THEN "oldType" ELSE "typeCount")
    /\ UNCHANGED <<choices, expected, reasonFor>>

-----------------------------------------------------------------------------
(* The security type. *)

(* Faulty: a result never or always follows the type None. *)
AfterMethod_NoResult(method) == IF method = "None" THEN "clientInit" ELSE "result"
AfterMethod_AlwaysResult(method) == "result"

(* RFB 3.3 and 3.7 send no SecurityResult when nothing was authenticated. *)
AfterMethod(method) ==
    IF method = "None" /\ mSelectedProtocolVersion < 8 THEN "clientInit" ELSE "result"

UseMethod(method) ==
    /\ mSelectedMethod' = method
    /\ goto(IF method = "None" THEN AfterMethod(method) ELSE "challenge")

handleSelectedSecurityType(type) ==
    CASE type = "Invalid" -> /\ goto("reasonLength") /\ reasonFor' = "oldTypeInvalid"
                             /\ UNCHANGED mSelectedMethod
      [] type \in SupportedAuths -> UseMethod(type) /\ UNCHANGED reasonFor
      [] type = "Tight" -> goto("tunnelCount") /\ UNCHANGED <<reasonFor, mSelectedMethod>>
      [] type = "AnonymousTLS" -> goto("tls") /\ UNCHANGED <<reasonFor, mSelectedMethod>>
      [] type = "VeNCrypt" -> goto("vencrypt") /\ UNCHANGED <<reasonFor, mSelectedMethod>>

NegotiateRfb33 ==
    /\ Receive("oldType") /\ UNCHANGED formats
    /\ IF Received \in {"Invalid", "None", "VNCAuthentication"}
       THEN mSelectedVNCSecurityType' = Received /\ handleSelectedSecurityType(Received)
       ELSE Finish("protocol") /\ UNCHANGED <<mSelectedVNCSecurityType, mSelectedMethod, reasonFor>>
    /\ UNCHANGED <<mSelectedProtocolVersion, expected>>

ReadTypeCount ==
    /\ Receive("typeCount") /\ UNCHANGED formats
    /\ expected' = Received
    /\ IF Received = 0
       THEN goto("reasonLength") /\ reasonFor' = "noTypes"
       ELSE goto("types") /\ UNCHANGED reasonFor
    /\ UNCHANGED choices

ReadTypes ==
    /\ Receive("types") /\ UNCHANGED formats
    /\ mSelectedVNCSecurityType' = FirstOf(SupportedTypes, Range(Received))
    /\ IF mSelectedVNCSecurityType' = "Invalid" THEN Finish("authentication") ELSE goto("myType")
    /\ UNCHANGED <<mSelectedProtocolVersion, mSelectedMethod, expected, reasonFor>>

SendType ==
    /\ Send("myType", mSelectedVNCSecurityType) /\ UNCHANGED formats
    /\ handleSelectedSecurityType(mSelectedVNCSecurityType)
    /\ UNCHANGED <<mSelectedProtocolVersion, mSelectedVNCSecurityType, expected>>

-----------------------------------------------------------------------------
(* The handlers of the security types. *)

VNCAuthenticationChallenge ==
    /\ Receive("challenge") /\ UNCHANGED formats
    /\ goto("response")
    /\ UNCHANGED <<choices, expected, reasonFor>>

VNCAuthenticationResponse ==
    /\ Send("response", 0) /\ UNCHANGED formats
    /\ goto("result")
    /\ UNCHANGED <<choices, expected, reasonFor>>

TightTunnelCount ==
    /\ Receive("tunnelCount") /\ UNCHANGED formats
    /\ expected' = Received
    /\ IF Received > MaxTunnels THEN Finish("protocol") ELSE goto("tunnels")
    /\ UNCHANGED <<choices, reasonFor>>

TightTunnels ==
    /\ Receive("tunnels") /\ UNCHANGED formats
    /\ IF Contains(Received, "NOTUNNEL") THEN goto("myTunnel") ELSE Finish("protocol")
    /\ UNCHANGED <<choices, expected, reasonFor>>

TightTunnel ==
    /\ Send("myTunnel", "NOTUNNEL") /\ UNCHANGED formats
    /\ goto("authCount")
    /\ UNCHANGED <<choices, expected, reasonFor>>

TightAuthCount ==
    /\ Receive("authCount") /\ UNCHANGED formats
    /\ expected' = Received
    /\ IF Received > MaxAuths THEN Finish("protocol") ELSE goto("auths")
    /\ UNCHANGED <<choices, reasonFor>>

(* The server's order of preference counts here. *)
TightAuths ==
    /\ Receive("auths") /\ UNCHANGED formats
    /\ mSelectedMethod' = FirstOf(Received, SupportedAuths)
    /\ IF mSelectedMethod' = "Invalid" THEN Finish("protocol") ELSE goto("myAuth")
    /\ UNCHANGED <<mSelectedProtocolVersion, mSelectedVNCSecurityType, expected, reasonFor>>

TightAuthenticate ==
    /\ Send("myAuth", mSelectedMethod) /\ UNCHANGED formats
    /\ UseMethod(mSelectedMethod)
    /\ UNCHANGED <<mSelectedProtocolVersion, mSelectedVNCSecurityType, expected, reasonFor>>

(* SSL_connect() and the other side's part of it are one step. *)
StartOpenSSLHandshake ==
    /\ pc = "tls" /\ sv = "tls" /\ link = "up" /\ outbound = <<>>
    /\ SecureServer
    /\ encrypted' = TRUE
    /\ goto("subTypeCount")
    /\ UNCHANGED <<choices, formats, expected, reasonFor, attempts>>

(* No cipher in common, or another error of a TLS library. *)
TlsHandshakeFails ==
    /\ pc \in {"tls", "vencrypt"}
    /\ Finish(IF pc = "tls" THEN "handshake" ELSE "generic")
    /\ UNCHANGED <<serverVars, choices, formats, expected, reasonFor, encrypted, attempts>>

ReadSubTypeCount ==
    /\ Receive("subTypeCount") /\ UNCHANGED formats
    /\ expected' = Received
    /\ IF Received = 0
       THEN goto("reasonLength") /\ reasonFor' = "noSubTypes"
       ELSE goto("subTypes") /\ UNCHANGED reasonFor
    /\ UNCHANGED choices

ReadSubTypes ==
    /\ Receive("subTypes") /\ UNCHANGED formats
    /\ mSelectedMethod' = FirstOf(SupportedSubTypes, Range(Received))
    /\ IF mSelectedMethod' = "Invalid" THEN Finish("authentication") ELSE goto("mySubType")
    /\ UNCHANGED <<mSelectedProtocolVersion, mSelectedVNCSecurityType, expected, reasonFor>>

SendSubType ==
    /\ Send("mySubType", mSelectedMethod) /\ UNCHANGED formats
    /\ UseMethod(mSelectedMethod)
    /\ UNCHANGED <<mSelectedProtocolVersion, mSelectedVNCSecurityType, expected, reasonFor>>

(* The loop around mbedtls_ssl_handshake() treats every result but "want    *)
(* read" and "want write" as a failure, success included, and is left on   *)
(* no other condition: it does not listen to the thread notifier, and has  *)
(* no timeout but that of TCP.                                             *)
VeNCryptHandshake ==
    /\ pc = "vencrypt"
    /\ link # "up" \/ sv = "tls"
    /\ Finish("generic")
    /\ UNCHANGED <<serverVars, choices, formats, expected, reasonFor, encrypted, attempts>>

-----------------------------------------------------------------------------
(* SecurityResult, and the reason for a rejection. *)

ReadSecurityResult ==
    /\ Receive("result") /\ UNCHANGED formats
    /\ CASE mSelectedVNCSecurityType = "Tight" /\ Received = 2 -> Finish("rejected")
         [] Received = 0 -> goto("clientInit")
         [] Received = 1 /\ mSelectedProtocolVersion < 8 -> Finish("authentication")
         [] Received = 1 /\ mSelectedProtocolVersion = 8 -> goto("reasonLength")
         [] OTHER -> Finish("protocol")
    /\ reasonFor' = IF pc' = "reasonLength" THEN "failedResult" ELSE reasonFor
    /\ UNCHANGED <<choices, expected>>

ReadReasonLength ==
    /\ Receive("reasonLength") /\ UNCHANGED formats
    /\ expected' = Received
    /\ IF Received > MaxLength THEN Finish(Unheard(reasonFor)) ELSE goto("reasonText")
    /\ UNCHANGED <<choices, reasonFor>>

ReadReasonText ==
    /\ Receive("reasonText") /\ UNCHANGED formats
    /\ Finish(Heard(reasonFor))
    /\ UNCHANGED <<choices, expected, reasonFor>>

-----------------------------------------------------------------------------
(* Reads of no bytes.  recv() with a length of 0 returns 0 if there is      *)
(* something to read or the other side has closed the connection: the      *)
(* client takes that as the end of the connection.  It fails with EAGAIN    *)
(* if there is nothing: the read then has all the bytes it wants.          *)

(* checkFramebufferSize(): the product is an int, that of the sizes in      *)
(* units of 1024 * 1024 bytes overflows at 2048.  A compiler may have it    *)
(* wrap around, or compute with more bits; a negative one becomes huge.    *)
IntRange == 2048

checkFramebufferSize(size, bytesPerPixel, fits) ==
    LET memory == size[1] * size[2] * bytesPerPixel
        wrapped == memory % (2 * IntRange)
        computed == IF memory < IntRange \/ wrapped >= IntRange THEN {memory} ELSE {memory, wrapped}
    IN  fits \in { 0 \notin {size[1], size[2]} /\ m <= MaxMemory : m \in computed }

(* Only a Tight server lists its encodings. *)
ListsEncodings == mSelectedVNCSecurityType = "Tight"

(* The rest of the initialisation, once the name of the desktop is known. *)
AfterName ==
    LET format == readPixelFormat(mDefault.format) IN
    /\ UNCHANGED mDefault
    /\ IF ~isPixelFormatValidForReceive(format)
       THEN Finish("protocol") /\ UNCHANGED mCurrentPixelFormat
       ELSE /\ mCurrentPixelFormat' = format
            /\ \E fits, fitsInside \in BOOLEAN :
                /\ checkFramebufferSize(mDefault.size, format.mBitsPerPixel \div 8, fits)
                /\ checkFramebufferSize(mDefault.size, 3, fitsInside)
                /\ IF ~fits \/ ~fitsInside THEN Finish("unusable")
                   ELSE goto(IF ListsEncodings THEN "capabilityCount" ELSE "quiet")

(* What follows a list or a text that has no bytes. *)
AfterNothing ==
    CASE pc = "tunnels" -> goto("authCount") /\ UNCHANGED <<mSelectedMethod, formats>>
      [] pc = "auths" -> UseMethod("None") /\ UNCHANGED formats
      [] pc = "reasonText" -> Finish(Heard(reasonFor)) /\ UNCHANGED <<mSelectedMethod, formats>>
      [] pc = "name" -> AfterName /\ UNCHANGED mSelectedMethod

ReadNothing ==
    /\ pc \in {"tunnels", "auths", "reasonText", "name"} /\ expected = 0
    /\ \/ inbound = <<>> /\ (link # "closed" \/ wire # <<>>) /\ AfterNothing
       \/ inbound # <<>> /\ Finish(Unable) /\ UNCHANGED <<mSelectedMethod, formats>>
       \/ /\ link = "closed" /\ wire = <<>> /\ inbound = <<>>
          /\ Finish(Unable) /\ UNCHANGED <<mSelectedMethod, formats>>
    /\ UNCHANGED <<serverVars, mSelectedProtocolVersion, mSelectedVNCSecurityType, expected,
                   reasonFor, encrypted, attempts>>

-----------------------------------------------------------------------------
(* ClientInit and ServerInit. *)

SendClientInit ==
    /\ Send("clientInit", 0) /\ UNCHANGED formats
    /\ goto("serverInit")
    /\ UNCHANGED <<choices, expected, reasonFor>>

ReadServerInit ==
    /\ Receive("serverInit")
    /\ expected' = Received.nameLength
    /\ mDefault' = [format |-> Received.format, size |-> Received.size]
    /\ UNCHANGED mCurrentPixelFormat
    /\ IF Received.nameLength > MaxLength THEN Finish("protocol") ELSE goto("name")
    /\ UNCHANGED <<choices, reasonFor>>

ReadName ==
    /\ Receive("name")
    /\ AfterName
    /\ UNCHANGED <<choices, expected, reasonFor>>

ReadCapabilityCount ==
    /\ Receive("capabilityCount") /\ UNCHANGED formats
    /\ IF Received > MaxEncodings THEN Finish("protocol")
       ELSE goto(IF Received = 0 THEN "quiet" ELSE "capabilities")
    /\ UNCHANGED <<choices, expected, reasonFor>>

ReadCapabilities ==
    /\ Receive("capabilities") /\ UNCHANGED formats
    /\ goto("quiet")
    /\ UNCHANGED <<choices, expected, reasonFor>>

(* The server has to be silent until it hears from the client again.  What *)
(* the TLS library has already taken from the socket is not noticed.       *)
EnsureNoMoreData ==
    /\ pc = "quiet"
    /\ \/ inbound = <<>> /\ goto("myPixelFormat")
       \/ inbound # <<>> /\ Finish("protocol")
       \/ inbound # <<>> /\ encrypted /\ goto("myPixelFormat")
    /\ UNCHANGED <<serverVars, choices, formats, expected, reasonFor, encrypted, attempts>>

(* The end of startVncProtocolRfb3x(). *)

(* Faulty: goes on with the server's default. *)
TrackedFormat_Default(format) == mCurrentPixelFormat

TrackedFormat(format) == format

(* sendSetPixelFormat(), with what the application asked for when it        *)
(* connected; it is known to nobody else before.                           *)
SendSetPixelFormat ==
    \E profile \in Profiles, custom \in CustomFormats :
        LET format == makePixelFormat(profile, readPixelFormat(mDefault.format), custom) IN
        /\ profile # "Custom" => custom = (CHOOSE c \in CustomFormats : TRUE)
        /\ Send("myPixelFormat", writePixelFormat(format))
        /\ mCurrentPixelFormat' = TrackedFormat(format)
        /\ goto("myEncodings")
        /\ UNCHANGED <<choices, mDefault, expected, reasonFor>>

(* The list never changes.  Once it is sent, the framebuffer is allocated   *)
(* and the connection is established.                                      *)
SendSetEncodings ==
    /\ Send("myEncodings", 0) /\ UNCHANGED formats
    /\ Finish("connected")
    /\ UNCHANGED <<choices, expected, reasonFor>>

-----------------------------------------------------------------------------
(* The application connects again; closeSocket() has dropped the encryption *)
(* context and what was known of the other server.                         *)
Reconnect ==
    /\ pc = "done" /\ attempts < MaxAttempts
    /\ attempts' = attempts + 1
    /\ ServerRestarts
    /\ pc' = "version" /\ outcome' = "none"
    /\ encrypted' = FALSE
    /\ mSelectedProtocolVersion' = 3
    /\ mSelectedVNCSecurityType' = "Invalid" /\ mSelectedMethod' = "Invalid"
    /\ mDefault' = NothingKnown /\ UNCHANGED mCurrentPixelFormat
    /\ expected' = 0 /\ reasonFor' = "none"

Terminated ==
    /\ pc = "done" /\ attempts = MaxAttempts
    /\ UNCHANGED vars

Handle ==
    \/ NegotiateProtocolVersion \/ StartVncProtocol \/ NegotiateRfb33
    \/ ReadTypeCount \/ ReadTypes \/ SendType
    \/ VNCAuthenticationChallenge \/ VNCAuthenticationResponse
    \/ TightTunnelCount \/ TightTunnels \/ TightTunnel
    \/ TightAuthCount \/ TightAuths \/ TightAuthenticate
    \/ StartOpenSSLHandshake \/ ReadSubTypeCount \/ ReadSubTypes \/ SendSubType
    \/ VeNCryptHandshake
    \/ ReadSecurityResult \/ ReadReasonLength \/ ReadReasonText \/ ReadNothing
    \/ SendClientInit \/ ReadServerInit \/ ReadName
    \/ ReadCapabilityCount \/ ReadCapabilities \/ EnsureNoMoreData
    \/ SendSetPixelFormat \/ SendSetEncodings

Next ==
    \/ Handle \/ ConnectionLost \/ Interrupted \/ TlsHandshakeFails
    \/ ServerNext /\ UNCHANGED clientVars
    \/ LinkFails /\ UNCHANGED clientVars
    \/ Reconnect \/ Terminated

Spec == Init /\ [][Next]_vars

(* The thread runs, the server answers, and a call that can get no more     *)
(* data gives up: recv() tells that the other side has closed, and for a   *)
(* network that is down readDataBlocking() and writeDataBlocking() have a  *)
(* timeout.  As long as the server is there, no timeout is counted on.     *)
FairSpec ==
    /\ Spec
    /\ WF_vars(Handle) /\ WF_vars(ConnectionLost)
    /\ WF_vars(ServerNext /\ UNCHANGED clientVars)

-----------------------------------------------------------------------------
(* Properties. *)

(* The state is well-formed, and an attempt is over exactly if it has an    *)
(* outcome (startVncProtocol() returns with an error or succeeds).         *)
TypeOK == ClientTypeOK /\ link \in {"up", "closed", "down"}

(* The two sides stay in step: what the client finds in the socket when it *)
(* reads is the item it means to read, encrypted exactly if the client     *)
(* decrypts, whatever version, security type and method they agreed on.    *)
InStep ==
    pc \in Reading /\ inbound # <<>> =>
        \/ Head(inbound).kind = pc /\ Head(inbound).tls = encrypted
        \/ expected = 0 /\ pc \in {"tunnels", "auths", "reasonText", "name"}

(* What the server encodes: a number for each colour, of the format's width. *)
Rendered(colours, format) ==
    LET v == colours[1] * 2^format.mColorShift[1] + colours[2] * 2^format.mColorShift[2]
             + colours[3] * 2^format.mColorShift[3]
        bytes == [i \in 1..format.mBitsPerPixel \div 8 |-> (v \div 256^(i - 1)) % 256]
    IN  IF format.mBigEndian THEN Swapped(bytes) ELSE bytes

(* The format that the server uses once it has heard all that was sent. *)
ToldFormat ==
    LET told == {i \in DOMAIN outbound : outbound[i].kind = "myPixelFormat"} IN
    readPixelFormat(IF told = {} THEN svFormat ELSE outbound[CHOOSE i \in told : TRUE].val)

(* A client with a format decodes every colour that a server with the told   *)
(* one sends as the colour that it is.                                     *)
Decodes(told, format) ==
    /\ isPixelFormatValidForReceive(told) /\ told.mTrueColor
    /\ \A half \in [1..3 -> BOOLEAN] :
        LET colours == [i \in 1..3 |-> IF half[i] THEN told.mColorMax[i] \div 2 ELSE 0] IN
        readPixel(Rendered(colours, told), format)
            = [i \in 1..3 |-> (colours[i] * 255) \div told.mColorMax[i]]

SameColours == Decodes(ToldFormat, mCurrentPixelFormat)

(* A connection that is reported as established is one that the server     *)
(* granted: the two agree on the version, on the security type, on the     *)
(* method, on the encryption and on what a pixel means, the server has     *)
(* accepted the client and nothing of the handshake is left unread.        *)
Agreement ==
    outcome = "connected" =>
        /\ sv \in {"myPixelFormat", "myEncodings", "running"} /\ svVerdict = "accepted"
        /\ mSelectedProtocolVersion = svVersion
        /\ mSelectedVNCSecurityType = svType
        /\ mSelectedMethod = svMethod
        /\ encrypted = svTls
        /\ encrypted = (mSelectedVNCSecurityType = "AnonymousTLS")
        /\ SameColours
        /\ \A i \in 1..Len(inbound \o wire) : (inbound \o wire)[i].kind = "message"

(* An attempt fails for the reason that it reports: authentication only if *)
(* the server refused the client or the two have no type in common, a      *)
(* rejection only if the server rejected, and a protocol error or a        *)
(* refused connection only if the server or the network gave cause.        *)
FailureExplained ==
    /\ outcome = "authentication" =>
        \/ svVerdict = "refused"
        \/ /\ svOffer # <<>>
           /\ FirstOf(IF encrypted THEN SupportedSubTypes ELSE SupportedTypes, Range(svOffer)) = "Invalid"
    /\ outcome = "rejected" =>
        svVerdict = "rejected" \/ (svVerdict = "refused" /\ mSelectedVNCSecurityType = "Tight")
    /\ outcome = "protocol" => link = "down" \/ hopeless \/ svVerdict = "rejected"
    /\ outcome = "refused" => svVerdict = "rejected"
    /\ outcome = "unread" => link = "down"
    /\ outcome = "unusable" => hopeless
    /\ outcome = "generic" => mSelectedVNCSecurityType = "VeNCrypt" \/ link = "down"
    /\ outcome = "handshake" => mSelectedVNCSecurityType = "AnonymousTLS"

(* Client and server never wait for each other: every attempt ends, though *)
(* neither the user nor the network ends it (startVncProtocol() returns).  *)
AttemptEnds == pc # "done" ~> pc = "done"

=============================================================================
