------------------------------ MODULE RfbServer ------------------------------
(***************************************************************************)
(* The other side of the RFB handshake: a server as the protocol has it,   *)
(* known here from what rfb3xhandshake.cpp, securitytypehandler.cpp and    *)
(* performClientAndServerInit() expect it to say.  None of it is part of   *)
(* the repository.                                                         *)
(*                                                                         *)
(* What the server says is a sequence of items, each read by one call of   *)
(* readDataBlocking().  An item is first on its way ("wire") and some time *)
(* later in the receive buffer of the client's socket ("inbound").         *)
(***************************************************************************)
EXTENDS Integers, Sequences, SequencesExt

CONSTANTS
    Announced,      \* the versions it may announce, <<major, minor>>
    OldTypes,       \* the security types it may decide on with RFB 3.3
    TypeLists,      \* the lists of security types it may offer with RFB 3.7 and 3.8
    TunnelLists,    \* Tight: the lists of tunnels it may offer, none of them empty
    AuthLists,      \* Tight: the lists of authentication types it may offer
    SubTypeLists,   \* TLS: the lists of security types offered inside it
    EmptyTight,     \* a Tight server may list nothing and name its desktop ""
    TextLengths,    \* the lengths of a reason or of the name of the desktop
    MaxLength,      \* ORV_MAX_REASON_LENGTH and ORV_MAX_DESKTOP_NAME_LENGTH
    EncodingCounts, \* Tight: how many encodings it may list
    MaxEncodings,   \* ORV_MAX_VNC_ENCODING_TYPES_READ_COUNT
    MaxTunnels,     \* ORV_MAX_TUNNELS_COUNT
    MaxAuths,       \* ORV_MAX_AUTH_TYPES_COUNT
    ServerFormats,  \* the pixel formats it may use, as the bytes that announce them
    BadFormats,     \* those among them that no client understands
    Sizes,          \* the sizes of its framebuffer, in units of 1024 pixels each way
    MaxMemory,      \* ORV_MAX_FRAMEBUFFER_MEMORY, in units of 1024 * 1024 bytes
    Results,        \* the numbers it may answer an authentication with
    SpeaksFirst     \* it may send a message before it got the first one

ASSUME ServerAssumption ==
    /\ Announced \subseteq Int \X Int
    /\ OldTypes \subseteq STRING
    /\ TypeLists \cup TunnelLists \cup AuthLists \cup SubTypeLists \subseteq Seq(STRING)
    /\ <<>> \notin TunnelLists \cup AuthLists
    /\ TextLengths \subseteq Nat /\ MaxLength \in Nat
    /\ Results \subseteq Nat /\ EncodingCounts \subseteq Nat /\ MaxEncodings \in Nat
    /\ MaxTunnels \in Nat /\ MaxAuths \in Nat
    /\ BadFormats \subseteq ServerFormats
    /\ Sizes \subseteq Nat \X Nat /\ MaxMemory \in Nat
    /\ SpeaksFirst \in BOOLEAN /\ EmptyTight \in BOOLEAN

VARIABLES
    wire, inbound,  \* to the client: sent, and received but not read yet
    outbound,       \* to the server
    link,           \* "up", "closed" by the server, or "down"
    sv,             \* what the server waits for from the client
    svVersion, svOffer, svType, svMethod, svTls,
    svVerdict,      \* "none", "accepted", "refused" or "rejected"
    svFormat,       \* the bytes that describe the pixel format it uses
    hopeless        \* history: a Hopeless item has arrived

channels == <<wire, inbound, outbound, link, hopeless>>
svVars == <<sv, svVersion, svOffer, svType, svMethod, svTls, svVerdict, svFormat>>
serverVars == <<channels, svVars>>

NoFormat == <<>>

Item(kind, val) == [kind |-> kind, val |-> val, tls |-> svTls]

(* No client can show a framebuffer without pixels, or one that it has no   *)
(* memory for, at the bytes of the format and at its own three a pixel.    *)
Unusable(size, bitsPerPixel) ==
    \/ size[1] * size[2] = 0
    \/ \E bytes \in {3, bitsPerPixel \div 8} : size[1] * size[2] * bytes > MaxMemory

(* Items that the client has no way to go on with. *)
Hopeless(item) ==
    \/ item.kind = "version" /\ item.val[1] < 3
    \/ item.kind = "version" /\ item.val[1] = 3 /\ item.val[2] < 3
    \/ item.kind = "oldType" /\ item.val \notin {"Invalid", "None", "VNCAuthentication"}
    \/ item.kind = "reasonLength" /\ item.val > MaxLength
    \/ item.kind = "tunnelCount" /\ item.val > MaxTunnels
    \/ item.kind = "authCount" /\ item.val > MaxAuths
    \/ item.kind = "tunnels" /\ ~Contains(item.val, "NOTUNNEL")
    \/ item.kind = "auths" /\ {"None", "VNCAuthentication"} \cap Range(item.val) = {}
    \/ item.kind = "result" /\ item.val > 2
    \/ item.kind = "serverInit" /\
        (item.val.nameLength > MaxLength \/ item.val.format \in BadFormats \/ Unusable(item.val.size, item.val.format[1]))
    \/ item.kind = "capabilityCount" /\ item.val > MaxEncodings
    \/ item.kind = "message"

ServerInit ==
    /\ wire = <<>> /\ inbound = <<>> /\ outbound = <<>>
    /\ link = "up"
    /\ sv = "announce"
    /\ svVersion = 0 /\ svOffer = <<>> /\ svType = "Invalid" /\ svMethod = "Invalid"
    /\ svTls = FALSE
    /\ svVerdict = "none" /\ svFormat = NoFormat
    /\ hopeless = FALSE

(* Another connection: the server starts over. *)
ServerRestarts ==
    /\ wire' = <<>> /\ inbound' = <<>> /\ outbound' = <<>>
    /\ link' = "up"
    /\ sv' = "announce"
    /\ svVersion' = 0 /\ svOffer' = <<>> /\ svType' = "Invalid" /\ svMethod' = "Invalid"
    /\ svTls' = FALSE
    /\ svVerdict' = "none" /\ svFormat' = NoFormat
    /\ hopeless' = FALSE

OrEmpty(lists) == IF EmptyTight THEN lists \cup {<<>>} ELSE lists
NameLengths == IF svType = "Tight" /\ ~EmptyTight THEN TextLengths \ {0} ELSE TextLengths

(* Text that is announced with its length; nothing follows a length of 0. *)
Text(kind, n) == IF n = 0 THEN <<>> ELSE <<Item(kind, n)>>
Reason(n) == <<Item("reasonLength", n)>> \o Text("reasonText", n)

(* The list of a Tight server, its length first; an empty list is not sent. *)
Listed(count, kind, list) ==
    <<Item(count, Len(list))>> \o (IF list = <<>> THEN <<>> ELSE <<Item(kind, list)>>)

Listing(encodings) ==
    <<Item("capabilityCount", encodings)>> \o Text("capabilities", encodings)

(* After the last word it says, the server closes the connection. *)
Reject(items, verdict) ==
    /\ \E n \in TextLengths : wire' = wire \o items \o Reason(n)
    /\ svVerdict' = verdict
    /\ link' = "closed"
    /\ sv' = "over"

Say(items, next) ==
    /\ wire' = wire \o items
    /\ sv' = next

Hears(kind) ==
    /\ link = "up" /\ sv = kind
    /\ outbound # <<>> /\ Head(outbound).kind = kind /\ Head(outbound).tls = svTls
    /\ outbound' = Tail(outbound)
    /\ UNCHANGED <<inbound, hopeless>>

(* The server speaks first, and may turn the client away at once, with or  *)
(* without a word.                                                         *)
HangUp ==
    /\ UNCHANGED svFormat
    /\ link = "up" /\ sv = "announce"
    /\ link' = "closed" /\ sv' = "over" /\ svVerdict' = "rejected"
    /\ UNCHANGED <<wire, inbound, outbound, hopeless, svVersion, svOffer, svType, svMethod, svTls>>

Announce ==
    /\ UNCHANGED svFormat
    /\ link = "up" /\ sv = "announce"
    /\ \E v \in Announced :
        \/ Say(<<Item("version", v)>>, "myVersion") /\ UNCHANGED <<svVerdict, link>>
        \/ /\ v = <<3, 3>>
           /\ Reject(<<Item("version", v), Item("oldType", "Invalid")>>, "rejected")
    /\ UNCHANGED <<inbound, outbound, hopeless, svVersion, svOffer, svType, svMethod, svTls>>

(* The SecurityResult; RFB 3.3 and 3.7 have none for the type None. *)
Judge(method, before) ==
    IF method = "None" /\ svVersion' < 8
    THEN Say(before, "clientInit") /\ svVerdict' = "accepted" /\ UNCHANGED link
    ELSE \E r \in Results :
        CASE r = 0 -> /\ Say(before \o <<Item("result", 0)>>, "clientInit")
                      /\ svVerdict' = "accepted" /\ UNCHANGED link
          [] r = 1 /\ svVersion' >= 8 -> Reject(before \o <<Item("result", 1)>>, "refused")
          [] r = 2 /\ svType' # "Tight" -> FALSE
          [] OTHER -> /\ Say(before \o <<Item("result", r)>>, "over")
                      /\ svVerdict' = "refused" /\ link' = "closed"

(* Start the method that both sides agree on. *)
Authenticate(method, before) ==
    /\ svMethod' = method
    /\ IF method = "None"
       THEN Judge("None", before)
       ELSE Say(before \o <<Item("challenge", 0)>>, "response") /\ UNCHANGED <<svVerdict, link>>

(* A Tight server that offers no authentication has chosen None. *)
TightAuth(before) ==
    \E list \in OrEmpty(AuthLists) :
        /\ svOffer' = list
        /\ IF list = <<>>
           THEN Authenticate("None", before \o Listed("authCount", "auths", list))
           ELSE /\ Say(before \o Listed("authCount", "auths", list), "myAuth")
                /\ UNCHANGED <<svMethod, svVerdict, link>>

TakeVersion ==
    /\ UNCHANGED svFormat
    /\ Hears("myVersion")
    /\ svVersion' = Head(outbound).val
    /\ UNCHANGED svTls
    /\ IF svVersion' = 3
       THEN \E t \in OldTypes :
            /\ svType' = t /\ UNCHANGED svOffer
            /\ CASE t = "Invalid" -> /\ Reject(<<Item("oldType", t)>>, "rejected")
                                     /\ UNCHANGED svMethod
                 [] t \in {"None", "VNCAuthentication"} -> Authenticate(t, <<Item("oldType", t)>>)
                 [] OTHER -> /\ Say(<<Item("oldType", t)>>, "over")
                             /\ UNCHANGED <<svMethod, svVerdict, link>>
       ELSE \E list \in TypeLists :
            /\ svOffer' = list /\ UNCHANGED <<svType, svMethod>>
            /\ IF list = <<>>
               THEN Reject(<<Item("typeCount", 0)>>, "rejected")
               ELSE /\ Say(<<Item("typeCount", Len(list)), Item("types", list)>>, "myType")
                    /\ UNCHANGED <<svVerdict, link>>

TakeType ==
    /\ UNCHANGED svFormat
    /\ Hears("myType")
    /\ svType' = Head(outbound).val
    /\ Contains(svOffer, svType')
    /\ UNCHANGED <<svVersion, svTls>>
    /\ CASE svType' \in {"None", "VNCAuthentication"} ->
            Authenticate(svType', <<>>) /\ UNCHANGED svOffer
         [] svType' = "Tight" -> \E list \in OrEmpty(TunnelLists) :
            IF list = <<>>
            THEN TightAuth(Listed("tunnelCount", "tunnels", list))
            ELSE /\ Say(Listed("tunnelCount", "tunnels", list), "myTunnel")
                 /\ UNCHANGED <<svOffer, svMethod, svVerdict, link>>
         [] OTHER -> Say(<<>>, "tls") /\ UNCHANGED <<svOffer, svMethod, svVerdict, link>>

TakeTunnel ==
    /\ UNCHANGED svFormat
    /\ Hears("myTunnel")
    /\ UNCHANGED <<svVersion, svType, svTls>>
    /\ TightAuth(<<>>)

(* Both for the types of a Tight server and for those inside TLS. *)
TakeMethod ==
    /\ UNCHANGED svFormat
    /\ Hears("myAuth") \/ Hears("mySubType")
    /\ Contains(svOffer, Head(outbound).val)
    /\ UNCHANGED <<svVersion, svOffer, svType, svTls>>
    /\ Authenticate(Head(outbound).val, <<>>)

TakeResponse ==
    /\ UNCHANGED svFormat
    /\ Hears("response")
    /\ UNCHANGED <<svVersion, svOffer, svType, svMethod, svTls>>
    /\ Judge(svMethod, <<>>)

(* The TLS handshake is done: from here on both sides encrypt. *)
SecureServer ==
    /\ UNCHANGED svFormat
    /\ svTls' = TRUE
    /\ \E list \in SubTypeLists :
        LET Encrypted(items) == [i \in 1..Len(items) |-> [items[i] EXCEPT !.tls = TRUE]] IN
        /\ svOffer' = list
        /\ IF list = <<>>
           THEN /\ \E n \in TextLengths :
                    wire' = Encrypted(<<Item("subTypeCount", 0)>> \o Reason(n))
                /\ svVerdict' = "rejected" /\ link' = "closed" /\ sv' = "over"
           ELSE /\ wire' = Encrypted(<<Item("subTypeCount", Len(list)), Item("subTypes", list)>>)
                /\ sv' = "mySubType"
                /\ UNCHANGED <<svVerdict, link>>
    /\ UNCHANGED <<inbound, outbound, hopeless, svVersion, svType, svMethod>>

TakeClientInit ==
    /\ Hears("clientInit")
    /\ \E n \in NameLengths, format \in ServerFormats, size \in Sizes,
          early \in {FALSE, SpeaksFirst}, encodings \in EncodingCounts :
        /\ svFormat' = format
        /\ Say(<<Item("serverInit", [nameLength |-> n, format |-> format, size |-> size])>>
               \o Text("name", n)
               \o (IF svType = "Tight" THEN Listing(encodings) ELSE <<>>)
               \o (IF early THEN <<Item("message", 0)>> ELSE <<>>),
               "myPixelFormat")
    /\ UNCHANGED <<link, svVersion, svOffer, svType, svMethod, svTls, svVerdict>>

(* From here on pixels are sent in the client's format. *)
TakePixelFormat ==
    /\ Hears("myPixelFormat")
    /\ svFormat' = Head(outbound).val
    /\ Say(<<>>, "myEncodings")
    /\ UNCHANGED <<link, svVersion, svOffer, svType, svMethod, svTls, svVerdict>>

TakeEncodings ==
    /\ Hears("myEncodings")
    /\ Say(<<>>, "running")
    /\ UNCHANGED <<link, svVersion, svOffer, svType, svMethod, svTls, svVerdict, svFormat>>

(* What was sent arrives, in order. *)
Arrive ==
    /\ wire # <<>> /\ link # "down"
    /\ inbound' = Append(inbound, Head(wire))
    /\ wire' = Tail(wire)
    /\ hopeless' = (hopeless \/ Hopeless(Head(wire)))
    /\ UNCHANGED <<outbound, link, svVars>>

(* The network fails; what is on its way may be lost. *)
LinkFails ==
    /\ link # "down"
    /\ link' = "down"
    /\ UNCHANGED <<wire, inbound, outbound, hopeless, svVars>>

ServerNext ==
    \/ HangUp \/ Announce \/ TakeVersion \/ TakeType \/ TakeTunnel \/ TakeMethod \/ TakeResponse
    \/ TakeClientInit \/ TakePixelFormat \/ TakeEncodings \/ Arrive
=============================================================================
