-------------------------- MODULE HandshakeInvariant --------------------------
(***************************************************************************)
(* Why the properties of the handshake hold: an inductive invariant.  What  *)
(* the client has yet to read fits together, fits the place where the      *)
(* client is and what the client has sent, and tells what the server has   *)
(* decided.                                                                *)
(***************************************************************************)
EXTENDS Rfb3xHandshake

Alive == pc # "done" \/ outcome = "connected"

(* What is on its way to the client, and what the server waits for then.    *)
Coming == inbound \o wire
Turn == [kind |-> "turn", val |-> sv, tls |-> svTls]
Stream == Append(Coming, Turn)
Known == [version |-> svVersion, type |-> svType, verdict |-> svVerdict, offer |-> svOffer]

IsTurn(b, waitsFor) == b.kind = "turn" /\ b.val = waitsFor
Silence(b) == b.kind = "message" \/ IsTurn(b, "myPixelFormat")
AfterNames(type, b) == IF type = "Tight" THEN b.kind = "capabilityCount" ELSE Silence(b)

(* What may follow an item that a client of this version and type goes on   *)
(* after.                                                                  *)
Then(version, type, a, b) ==
    /\ a.kind = "version" =>
        \/ IsTurn(b, "myVersion")
        \/ a.val = <<3, 3>> /\ b.kind = "oldType" /\ b.val = "Invalid"
    /\ a.kind = "oldType" =>
        /\ a.val = "Invalid" => b.kind = "reasonLength"
        /\ a.val = "None" => IsTurn(b, "clientInit")
        /\ a.val = "VNCAuthentication" => b.kind = "challenge"
    /\ a.kind = "typeCount" => b.kind = IF a.val = 0 THEN "reasonLength" ELSE "types"
    /\ a.kind = "types" => IsTurn(b, "myType")
    /\ a.kind = "challenge" => IsTurn(b, "response")
    /\ a.kind = "tunnelCount" => b.kind = IF a.val = 0 THEN "authCount" ELSE "tunnels"
    /\ a.kind = "tunnels" => IsTurn(b, "myTunnel")
    /\ a.kind = "authCount" =>
        /\ a.val # 0 => b.kind = "auths"
        /\ a.val = 0 => IF version < 8 THEN IsTurn(b, "clientInit") ELSE b.kind = "result"
    /\ a.kind = "auths" => IsTurn(b, "myAuth")
    /\ a.kind = "subTypeCount" => b.kind = IF a.val = 0 THEN "reasonLength" ELSE "subTypes"
    /\ a.kind = "subTypes" => IsTurn(b, "mySubType")
    /\ a.kind = "result" =>
        /\ a.val = 0 => IsTurn(b, "clientInit")
        /\ a.val = 1 /\ version = 8 => b.kind = "reasonLength"
    /\ a.kind = "reasonLength" => IF a.val = 0 THEN IsTurn(b, "over") ELSE b.kind = "reasonText"
    /\ a.kind = "serverInit" => IF a.val.nameLength = 0 THEN AfterNames(type, b) ELSE b.kind = "name"
    /\ a.kind = "name" => AfterNames(type, b)
    /\ a.kind = "capabilityCount" => IF a.val = 0 THEN Silence(b) ELSE b.kind = "capabilities"
    /\ a.kind = "capabilities" => Silence(b)
    /\ a.kind = "message" => b.kind = "turn" /\ b.val \in {"myPixelFormat", "myEncodings", "running"}

Chained(known, stream) ==
    \A i \in 1..Len(stream) - 1 : Then(known.version, known.type, stream[i], stream[i + 1])

(* What the server's words tell of its verdict and its offer. *)
Tells(verdict, offer, type, item) ==
    /\ item.kind = "oldType" /\ item.val = "Invalid" => verdict = "rejected"
    /\ item.kind \in {"typeCount", "subTypeCount"} /\ item.val = 0 => verdict = "rejected"
    /\ item.kind \in {"types", "subTypes"} => item.val = offer /\ offer # <<>>
    /\ item.kind = "result" /\ item.val # 0 => verdict = "refused"
    /\ item.kind = "result" /\ item.val = 2 => type = "Tight"

(* A server that turns the client away says no more and listens no more.   *)
Denying(item) ==
    item.kind \in {"reasonLength", "reasonText"} \/ (item.kind = "oldType" /\ item.val = "Invalid")

Proper(known, turn, item) ==
    /\ item.tls = turn.tls
    /\ Denying(item) => turn.val = "over"
    /\ Tells(known.verdict, known.offer, known.type, item)

(* The server has not read what the client sent last.                      *)
Sent(kind, val) == [kind |-> kind, val |-> val, tls |-> encrypted]

(* The client's choice of a method is on its way, alone or with what the     *)
(* client says next if no result follows.                                  *)
Asked(b, method) ==
    \/ /\ IsTurn(b, "myType") /\ mSelectedVNCSecurityType = method
       /\ outbound = <<Sent("myType", method)>>
    \/ IsTurn(b, "myAuth") /\ outbound = <<Sent("myAuth", method)>>
    \/ IsTurn(b, "mySubType") /\ outbound = <<Sent("mySubType", method)>>

AskedNoneAndWentOn(b) ==
    \/ /\ IsTurn(b, "myType") /\ mSelectedVNCSecurityType = "None"
       /\ outbound = <<Sent("myType", "None"), Sent("clientInit", 0)>>
    \/ IsTurn(b, "myAuth") /\ outbound = <<Sent("myAuth", "None"), Sent("clientInit", 0)>>
    \/ IsTurn(b, "mySubType") /\ outbound = <<Sent("mySubType", "None"), Sent("clientInit", 0)>>

Met(b, kind) == b.kind = kind /\ outbound = <<>>
Due(b, kind) == IsTurn(b, kind) /\ outbound = <<>>

(* What the client may find next, or the server wait for, at each place.    *)
Fits(b) ==
    /\ pc = "version" => Met(b, "version") \/ Due(b, "announce") \/ Due(b, "over")
    /\ pc = "myVersion" =>
        \/ Due(b, "myVersion")
        \/ Met(b, "oldType") /\ b.val = "Invalid" /\ mSelectedProtocolVersion = 3
    /\ pc \in {"oldType", "typeCount"} =>
        /\ pc = "oldType" <=> mSelectedProtocolVersion = 3
        /\ \/ IsTurn(b, "myVersion") /\ outbound = <<Sent("myVersion", mSelectedProtocolVersion)>>
           \/ Met(b, pc)
           \/ pc = "oldType" /\ b.kind = "oldType" /\ b.val = "Invalid"
    /\ pc = "types" => Met(b, "types")
    /\ pc = "myType" => Due(b, "myType")
    /\ pc = "tunnelCount" =>
        Met(b, pc) \/ (IsTurn(b, "myType") /\ outbound = <<Sent("myType", "Tight")>>)
    /\ pc = "tunnels" => Met(b, IF expected = 0 THEN "authCount" ELSE "tunnels")
    /\ pc = "myTunnel" => Due(b, "myTunnel")
    /\ pc = "authCount" =>
        Met(b, pc) \/ (IsTurn(b, "myTunnel") /\ outbound = <<Sent("myTunnel", "NOTUNNEL")>>)
    /\ pc = "auths" =>
        IF expected # 0 THEN Met(b, "auths")
        ELSE IF mSelectedProtocolVersion < 8 THEN Due(b, "clientInit") ELSE Met(b, "result")
    /\ pc = "myAuth" => Due(b, "myAuth")
    /\ pc = "tls" =>
        Due(b, "tls") \/ (IsTurn(b, "myType") /\ outbound = <<Sent("myType", "AnonymousTLS")>>)
    /\ pc = "vencrypt" =>
        Due(b, "tls") \/ (IsTurn(b, "myType") /\ outbound = <<Sent("myType", "VeNCrypt")>>)
    /\ pc \in {"subTypeCount", "subTypes"} => Met(b, pc)
    /\ pc = "mySubType" => Due(b, "mySubType")
    /\ pc = "challenge" => Met(b, pc) \/ Asked(b, "VNCAuthentication")
    /\ pc = "response" => Due(b, "response")
    /\ pc = "result" =>
        \/ Met(b, pc)
        \/ Asked(b, "None") /\ mSelectedProtocolVersion = 8
        \/ IsTurn(b, "response") /\ outbound = <<Sent("response", 0)>>
    /\ pc = "reasonLength" => b.kind = "reasonLength"
    /\ pc = "reasonText" => IF expected = 0 THEN IsTurn(b, "over") ELSE b.kind = "reasonText"
    /\ pc = "clientInit" =>
        Due(b, pc) \/ (Asked(b, "None") /\ mSelectedProtocolVersion < 8)
    /\ pc = "serverInit" =>
        \/ Met(b, pc)
        \/ IsTurn(b, "clientInit") /\ outbound = <<Sent("clientInit", 0)>>
        \/ AskedNoneAndWentOn(b) /\ mSelectedProtocolVersion < 8
    /\ pc = "name" =>
        /\ outbound = <<>>
        /\ IF expected = 0 THEN AfterNames(mSelectedVNCSecurityType, b) ELSE b.kind = "name"
    /\ pc \in {"capabilityCount", "capabilities"} => Met(b, pc)
    /\ pc \in {"quiet", "myPixelFormat"} => Silence(b) /\ outbound = <<>>
    /\ pc \in {"myEncodings", "done"} => b.kind = "message" \/ b.kind = "turn"

(* An item of the server; each kind has its own payload. *)
Numbers == {"typeCount", "challenge", "tunnelCount", "authCount", "subTypeCount", "result",
            "reasonLength", "reasonText", "name", "capabilityCount", "capabilities", "message"}
Lists == {"types", "tunnels", "auths", "subTypes"}
ServerItem ==
    [kind : {"version"}, val : Announced, tls : BOOLEAN]
    \cup [kind : {"oldType"}, val : OldTypes \cup {"Invalid"}, tls : BOOLEAN]
    \cup [kind : Numbers, val : Nat, tls : BOOLEAN]
    \cup [kind : Lists, val : Seq(STRING), tls : BOOLEAN]
    \cup [kind : {"serverInit"}, tls : BOOLEAN,
          val : [nameLength : Nat, format : ServerFormats, size : Sizes]]

StreamInv ==
    /\ inbound \in Seq(ServerItem) /\ wire \in Seq(ServerItem)
    /\ svTls = encrypted
    /\ Chained(Known, Stream)
    /\ \A i \in 1..Len(Stream) : Proper(Known, Turn, Stream[i])
    /\ Fits(Stream[1])

Usable == {"VeNCrypt", "AnonymousTLS", "None", "VNCAuthentication", "Tight"}
Places == Reading \cup Writing \cup {"tls", "vencrypt", "quiet", "done"}
Turns == {"announce", "myVersion", "myType", "tls", "myTunnel", "myAuth", "mySubType", "response",
          "clientInit", "myPixelFormat", "myEncodings", "running", "over"}

(* Places before the type is known to both, and those of Tight's method. *)
Early == {"version", "myVersion", "oldType", "typeCount", "types", "myType",
          "reasonLength", "reasonText"}
Choosing == {"tunnelCount", "tunnels", "authCount", "auths"}
Settled == {"clientInit", "myPixelFormat", "myEncodings", "running"}

(* The server has turned the client away, which is about to learn why. *)
Denied(b) ==
    \/ pc \in {"reasonLength", "reasonText"}
    \/ pc = "oldType" /\ b.kind = "oldType" /\ b.val = "Invalid"

(* What the two have agreed on, as soon as both know it. *)
Agree(b) ==
    /\ sv \in Turns /\ mSelectedProtocolVersion \in {3, 7, 8} /\ encrypted \in BOOLEAN
    /\ \/ pc \in {"version", "myVersion"} \/ Denied(b) \/ IsTurn(b, "myVersion")
       \/ svVersion = mSelectedProtocolVersion
    /\ pc = "myType" => mSelectedVNCSecurityType \in Usable
    /\ pc \in {"tunnelCount", "tunnels", "myTunnel", "authCount", "auths", "myAuth"} =>
        mSelectedVNCSecurityType = "Tight"
    /\ pc \in Early \/ IsTurn(b, "myType") \/ svType = mSelectedVNCSecurityType
    /\ pc = "oldType" /\ b.kind = "oldType" => b.val \in {"Invalid", svType}
    /\ pc \in {"myAuth", "mySubType"} => mSelectedMethod \in SupportedAuths
    /\ pc \in {"challenge", "response"} => mSelectedMethod = "VNCAuthentication"
    /\ Asked(b, "None") \/ AskedNoneAndWentOn(b) => mSelectedMethod = "None"
    /\ sv \in {"response"} \cup Settled /\ ~Denied(b) =>
        svMethod = IF pc = "oldType" THEN svType ELSE IF pc \in Choosing THEN "None" ELSE mSelectedMethod
    /\ sv = "announce" => pc = "version" /\ IsTurn(b, "announce")
    /\ sv = "response" => svMethod = "VNCAuthentication"
    /\ sv \in Settled => svVerdict = "accepted"
    /\ encrypted => mSelectedVNCSecurityType = "AnonymousTLS"
    /\ mSelectedVNCSecurityType = "AnonymousTLS" => encrypted \/ pc \in Early \cup {"tls"}
    /\ pc \in {"version", "myVersion", "oldType", "typeCount", "types", "myType"} => ~encrypted
    /\ pc \in {"subTypeCount", "subTypes"} => encrypted
    /\ pc = "tls" => mSelectedVNCSecurityType = "AnonymousTLS"
    /\ pc = "vencrypt" => mSelectedVNCSecurityType = "VeNCrypt"
    /\ \/ pc \in {"name", "capabilityCount", "capabilities", "quiet", "myPixelFormat"}
       \/ pc = "serverInit" /\ b.kind = "serverInit"
       => sv = "myPixelFormat"

ChoicesInv == Agree(Stream[1])

(* The formats the client may ask for. *)
Chosen == {makePixelFormat(profile, readPixelFormat(format), custom) :
              profile \in Profiles, format \in ServerFormats \ BadFormats, custom \in CustomFormats}

Told == Sent("myPixelFormat", writePixelFormat(mCurrentPixelFormat))
End == Sent("myEncodings", 0)

(* The format is told before the connection is reported. *)
FormatInv ==
    /\ pc = "name" => mDefault.format \in ServerFormats /\ mDefault.size \in Sizes
    /\ pc \in {"capabilityCount", "capabilities", "quiet", "myPixelFormat"} =>
        mDefault.format \in ServerFormats \ BadFormats
    /\ pc = "myEncodings" =>
        \/ sv = "myPixelFormat" /\ outbound = <<Told>>
        \/ /\ sv = "myEncodings" /\ outbound = <<>>
           /\ svFormat = writePixelFormat(mCurrentPixelFormat)
    /\ pc = "done" =>
        \/ sv = "myPixelFormat" /\ outbound = <<Told, End>>
        \/ /\ \/ sv = "myEncodings" /\ outbound = <<End>>
              \/ sv = "running" /\ outbound = <<>>
           /\ svFormat = writePixelFormat(mCurrentPixelFormat)
    /\ pc \in {"myEncodings", "done"} => mCurrentPixelFormat \in Chosen

(* The two sides are in step. *)
HandshakeInv ==
    /\ pc \in Places /\ (pc = "done") = (outcome # "none")
    /\ Alive => StreamInv /\ ChoicesInv /\ FormatInv

(* A connection that is reported is one that the server granted, and the    *)
(* server uses the client's format, once it has read what the client wrote: *)
(* Agreement, but for what a format is good for.                           *)
Granted ==
    outcome = "connected" =>
        /\ sv \in {"myPixelFormat", "myEncodings", "running"} /\ svVerdict = "accepted"
        /\ mSelectedProtocolVersion = svVersion
        /\ mSelectedVNCSecurityType = svType /\ mSelectedMethod = svMethod
        /\ encrypted = svTls
        /\ encrypted = (mSelectedVNCSecurityType = "AnonymousTLS")
        /\ mCurrentPixelFormat \in Chosen
        /\ ToldFormat = mCurrentPixelFormat
        /\ \A i \in 1..Len(Coming) : Coming[i].kind = "message"

(* What a format is good for: a client sees the colours that a server that  *)
(* uses the same format means.                                             *)
FormatsDecode == \A format \in Chosen : Decodes(format, format)

-----------------------------------------------------------------------------
(* Why an attempt fails, if a Tight server always lists something.         *)

(* A server that has turned the client away is done, and only such a server *)
(* closes the connection.                                                  *)
Closing ==
    /\ svVerdict \in {"rejected", "refused"} => sv = "over"
    /\ link = "closed" => svVerdict \in {"rejected", "refused"}

(* The client gave up the authentication: the server still waits for it.   *)
NothingInCommon ==
    outcome = "authentication" /\ svVerdict # "refused" =>
        sv \in {"myType", "mySubType"} /\ outbound = <<>>

(* What the server lists is not empty: the client reads no list of no bytes *)
(* while the next word is there.                                           *)
Filled(b) ==
    /\ b.kind \in {"tunnelCount", "authCount"} => b.val # 0
    /\ b.kind = "serverInit" /\ svType = "Tight" => b.val.nameLength # 0

(* A client that has not given up yet would have a cause. *)
Causes ==
    /\ svVerdict = "refused" => pc \in {"result", "reasonLength", "reasonText"} /\ outbound = <<>>
    /\ pc \in {"reasonLength", "reasonText"} =>
        svVerdict = IF reasonFor = "failedResult" THEN "refused" ELSE "rejected"
    /\ pc \in {"tunnels", "auths"} => expected # 0
    /\ pc = "name" =>
        /\ mSelectedVNCSecurityType = "Tight" => expected # 0
        /\ mDefault.format \in BadFormats => hopeless
        /\ Unusable(mDefault.size, mDefault.format[1]) => hopeless

CausesInv ==
    /\ Closing /\ NothingInCommon
    /\ pc # "done" =>
        /\ Causes /\ Filled(Stream[1])
        /\ \A i \in DOMAIN inbound : Hopeless(inbound[i]) => hopeless

FailureInv == HandshakeInv /\ CausesInv /\ FailureExplained
=============================================================================
