-------------------------- MODULE Rfb3xHandshakeProofs --------------------------
(***************************************************************************)
(* Client and server stay in step and agree on what they end up with,       *)
(* whatever versions, types, lists and formats a server knows: the          *)
(* invariant of HandshakeInvariant, step by step.                          *)
(***************************************************************************)
EXTENDS HandshakeInvariant, SequenceTheorems, FiniteSetTheorems, WellFoundedInduction, TLAPS

-----------------------------------------------------------------------------
(* The stream of what is to come *)

(* The stream is what has been received, what is on its way, and the turn  *)
(* of the server.                                                          *)
LEMMA StreamIs ==
    ASSUME NEW S, NEW received \in Seq(S), NEW sent \in Seq(S), NEW turn,
           NEW stream, stream = Append(received \o sent, turn)
    PROVE  /\ Len(stream) = Len(received) + Len(sent) + 1
           /\ DOMAIN stream = 1..Len(stream) /\ Len(stream) \in Nat \ {0}
           /\ \A i \in 1..Len(stream) :
                 stream[i] = IF i = Len(stream) THEN turn ELSE (received \o sent)[i]
           /\ \A i \in 1..Len(received) : stream[i] = received[i]
           /\ \A i \in 1..Len(sent) : stream[Len(received) + i] = sent[i]
           /\ \A i \in 1..Len(stream) - 1 : stream[i] \in S
           /\ stream[Len(stream)] = turn
  <1>1. PICK coming : coming = received \o sent
    OBVIOUS
  <1>2. /\ coming \in Seq(S) /\ Len(coming) = Len(received) + Len(sent)
        /\ \A i \in 1..Len(received) : coming[i] = received[i]
        /\ \A i \in 1..Len(sent) : coming[Len(received) + i] = sent[i]
    BY <1>1
  <1>3. stream = Append(coming, turn)
    BY <1>1
  <1>4. /\ Len(stream) = Len(coming) + 1 /\ DOMAIN stream = 1..Len(stream)
        /\ \A i \in 1..Len(coming) : stream[i] = coming[i]
        /\ stream[Len(coming) + 1] = turn
    <2>1. coming \in Seq(S)
      BY <1>2
    <2>2. Len(stream) = Len(coming) + 1 /\ DOMAIN stream = 1..Len(stream)
      BY <1>3, <2>1
    <2>3. /\ \A i \in 1..Len(coming) : stream[i] = coming[i]
          /\ stream[Len(coming) + 1] = turn
      BY <1>3, <2>1
    <2> QED  BY <2>2, <2>3
  <1>5. Len(received) \in Nat /\ Len(sent) \in Nat /\ \A i \in 1..Len(coming) : coming[i] \in S
    BY <1>2
  <1>6. PICK m \in Nat : m = Len(coming)
    BY <1>2
  <1>7. /\ Len(stream) = m + 1 /\ m = Len(received) + Len(sent)
        /\ \A i \in 1..m : stream[i] = coming[i] /\ coming[i] \in S
        /\ stream[m + 1] = turn
    BY <1>2, <1>4, <1>5, <1>6
  <1>8. \A i \in 1..Len(stream) : stream[i] = IF i = Len(stream) THEN turn ELSE coming[i]
    BY <1>7
  <1>9. \A i \in 1..Len(received) : stream[i] = received[i]
    BY <1>2, <1>5, <1>7
  <1>10. \A i \in 1..Len(sent) : stream[Len(received) + i] = sent[i]
    <2> SUFFICES ASSUME NEW i \in 1..Len(sent)  PROVE stream[Len(received) + i] = sent[i]
      OBVIOUS
    <2>1. Len(received) + i \in 1..m
      BY <1>5, <1>7
    <2> QED  BY <1>2, <1>7, <2>1
  <1>11. \A i \in 1..Len(stream) - 1 : stream[i] \in S
    BY <1>7
  <1> QED  BY <1>1, <1>4, <1>7, <1>8, <1>9, <1>10, <1>11

(* A read takes the first of it. *)
LEMMA StreamTail ==
    ASSUME NEW S, NEW received \in Seq(S), NEW sent \in Seq(S), NEW turn, received # <<>>,
           NEW tail, tail = Tail(received),
           NEW stream, stream = Append(received \o sent, turn),
           NEW rest, rest = Append(tail \o sent, turn)
    PROVE  /\ tail \in Seq(S)
           /\ Len(stream) = Len(rest) + 1 /\ Len(rest) \in Nat \ {0}
           /\ stream[1] = Head(received)
           /\ \A i \in 1..Len(rest) : rest[i] = stream[i + 1]
  <1>2. /\ tail \in Seq(S) /\ Len(received) = Len(tail) + 1 /\ Len(tail) \in Nat
        /\ \A i \in 1..Len(tail) : tail[i] = received[i + 1]
        /\ Head(received) = received[1]
    OBVIOUS
  <1>3. /\ Len(stream) = Len(received) + Len(sent) + 1
        /\ \A i \in 1..Len(received) : stream[i] = received[i]
        /\ \A i \in 1..Len(sent) : stream[Len(received) + i] = sent[i]
        /\ stream[Len(stream)] = turn
    BY StreamIs
  <1>4. /\ Len(rest) = Len(tail) + Len(sent) + 1
        /\ \A i \in 1..Len(tail) : rest[i] = tail[i]
        /\ \A i \in 1..Len(sent) : rest[Len(tail) + i] = sent[i]
        /\ rest[Len(rest)] = turn
    BY <1>2, StreamIs
  <1>5. Len(sent) \in Nat
    OBVIOUS
  <1>6. ASSUME NEW i \in 1..Len(rest)  PROVE rest[i] = stream[i + 1]
    <2>1. CASE i \in 1..Len(tail)
      BY <1>2, <1>3, <1>4, <2>1
    <2>2. CASE i \in Len(tail) + 1 .. Len(tail) + Len(sent)
      <3>1. PICK k \in 1..Len(sent) : i = Len(tail) + k
        <4>1. i - Len(tail) \in 1..Len(sent) /\ i = Len(tail) + (i - Len(tail))
          BY <1>2, <1>5, <2>2
        <4> QED  BY <4>1
      <3>2. rest[i] = sent[k] /\ stream[Len(received) + k] = sent[k] /\ i + 1 = Len(received) + k
        BY <1>2, <1>3, <1>4, <1>5, <3>1
      <3> QED  BY <3>2
    <2>3. CASE i = Len(rest)
      BY <1>2, <1>3, <1>4, <1>5, <2>3
    <2>4. i \in 1..Len(tail) \/ i \in Len(tail) + 1 .. Len(tail) + Len(sent) \/ i = Len(rest)
      <3>1. PICK m \in Nat, n \in Nat : m = Len(tail) /\ n = Len(sent) /\ Len(rest) = m + n + 1
        BY <1>2, <1>4, <1>5
      <3>2. i \in 1..m \/ i \in m + 1 .. m + n \/ i = m + n + 1
        BY <3>1
      <3> QED  BY <3>1, <3>2
    <2> QED  BY <2>1, <2>2, <2>3, <2>4
  <1>7. Len(stream) = Len(rest) + 1 /\ Len(rest) \in Nat \ {0} /\ stream[1] = Head(received)
    BY <1>2, <1>3, <1>4, <1>5
  <1> QED  BY <1>2, <1>6, <1>7

-----------------------------------------------------------------------------
(* The client reads *)

(* What a read leaves is a stream that fits together as before. *)
LEMMA ReadsOn ==
    ASSUME StreamInv, NEW kind, Receive(kind)
    PROVE  /\ Stream[1] = Head(inbound) /\ Head(inbound) \in ServerItem
           /\ Received = Stream[1].val /\ Stream[1].kind = kind
           /\ inbound' \in Seq(ServerItem) /\ wire' = wire
           /\ Chained(Known', Stream')
           /\ \A i \in 1..Len(Stream') : Proper(Known', Turn', Stream'[i])
           /\ svTls' = encrypted'
           /\ Then(svVersion, svType, Stream[1], Stream'[1])
           /\ Stream'[1] \in ServerItem \/ Stream'[1] = Turn
           /\ UNCHANGED <<wire, outbound, link, hopeless, svVars, encrypted, attempts>>
  <1>1. /\ inbound \in Seq(ServerItem) /\ wire \in Seq(ServerItem) /\ inbound # <<>>
        /\ svTls = encrypted /\ Head(inbound).kind = kind
        /\ inbound' = Tail(inbound)
        /\ UNCHANGED <<wire, outbound, link, hopeless, svVars, encrypted, attempts>>
    BY DEF StreamInv, Receive
  <1>2. Turn' = Turn /\ Known' = Known
    BY <1>1 DEF Turn, Known, svVars
  <1>3. PICK received, sent, turn : received = inbound /\ sent = wire /\ turn = Turn
    OBVIOUS
  <1>4. received \in Seq(ServerItem) /\ sent \in Seq(ServerItem) /\ received # <<>>
    BY <1>1, <1>3
  <1>5. PICK tail, stream, rest : /\ tail = Tail(received)
                                  /\ stream = Append(received \o sent, turn)
                                  /\ rest = Append(tail \o sent, turn)
    OBVIOUS
  <1>6. /\ tail \in Seq(ServerItem)
        /\ Len(stream) = Len(rest) + 1 /\ Len(rest) \in Nat \ {0}
        /\ stream[1] = Head(received)
        /\ \A i \in 1..Len(rest) : rest[i] = stream[i + 1]
    BY <1>4, <1>5, StreamTail
  <1>7. stream = Stream /\ rest = Stream'
    BY <1>1, <1>2, <1>3, <1>5 DEF Stream, Coming
  <1>8. Chained(Known, stream) /\ \A i \in 1..Len(stream) : Proper(Known, Turn, stream[i])
    BY <1>7 DEF StreamInv
  <1>9. Chained(Known, rest) /\ Then(svVersion, svType, stream[1], rest[1])
    <2>1. PICK m \in Nat \ {0} : Len(rest) = m /\ Len(stream) = m + 1
      BY <1>6
    <2>2. \A i \in 1..m : Then(svVersion, svType, stream[i], stream[i + 1])
      BY <1>8, <2>1 DEF Chained, Known
    <2>3. Then(svVersion, svType, stream[1], rest[1])
      BY <1>6, <2>1, <2>2
    <2>4. ASSUME NEW i \in 1..m - 1  PROVE Then(svVersion, svType, rest[i], rest[i + 1])
      <3>1. i \in 1..m /\ i + 1 \in 1..m
        BY <2>1
      <3>2. rest[i] = stream[i + 1] /\ rest[i + 1] = stream[(i + 1) + 1]
        BY <1>6, <2>1, <3>1
      <3> QED  BY <2>2, <3>1, <3>2
    <2> QED  BY <2>1, <2>3, <2>4 DEF Chained, Known
  <1>10. \A i \in 1..Len(rest) : Proper(Known, Turn, rest[i])
    <2>1. PICK m \in Nat \ {0} : Len(rest) = m /\ Len(stream) = m + 1
      BY <1>6
    <2> QED  BY <1>6, <1>8, <2>1
  <1>11. rest[1] \in ServerItem \/ rest[1] = turn
    <2>1. /\ \A i \in 1..Len(rest) - 1 : rest[i] \in ServerItem
          /\ rest[Len(rest)] = turn
      BY <1>4, <1>5, <1>6, StreamIs
    <2> QED  BY <1>6, <2>1
  <1>12. Head(received) \in ServerItem
    BY <1>4
  <1> QED  BY <1>1, <1>2, <1>3, <1>5, <1>6, <1>7, <1>9, <1>10, <1>11, <1>12 DEF Received, svVars

(* What is left to show of a read. *)
LEMMA ReadKeeps ==
    ASSUME HandshakeInv, NEW kind, Receive(kind), outcome = "none",
           pc' \in Places, (pc' = "done") = (outcome' # "none"),
           NEW b, b = Stream'[1],
           Alive' => Fits(b)', Alive' => Agree(b)', Alive' => FormatInv'
    PROVE  HandshakeInv'
  <1>1. StreamInv
    BY DEF HandshakeInv, Alive
  <1>2. /\ inbound' \in Seq(ServerItem) /\ wire' = wire
        /\ Chained(Known', Stream')
        /\ \A i \in 1..Len(Stream') : Proper(Known', Turn', Stream'[i])
        /\ svTls' = encrypted'
    BY <1>1, ReadsOn
  <1>3. Alive' => Fits(Stream[1])' /\ Agree(Stream[1])'
    OBVIOUS
  <1>4. Alive' => StreamInv'
    BY <1>1, <1>2, <1>3 DEF StreamInv
  <1>5. Alive' => ChoicesInv'
    BY <1>3 DEF ChoicesInv
  <1> QED  BY <1>4, <1>5 DEF HandshakeInv

(* What a read finds in a, and that it leaves b as what is next. *)
Finds(kind, a, b) ==
    /\ Agree(a) /\ FormatInv /\ outcome = "none"
    /\ a \in ServerItem /\ a.kind = kind /\ Received = a.val /\ Fits(a) /\ pc = kind
    /\ Then(svVersion, svType, a, b)
    /\ b \in ServerItem \/ b = Turn
    /\ UNCHANGED <<wire, outbound, link, hopeless, svVars, encrypted, attempts>>

(* What a read finds, and what is next after it. *)
LEMMA ReadFinds ==
    ASSUME HandshakeInv, NEW kind, Receive(kind), kind # "done",
           NEW a, a = Stream[1], NEW b, b = Stream'[1]
    PROVE  Finds(kind, a, b)
  <1>1. StreamInv /\ Agree(a) /\ FormatInv /\ outcome = "none" /\ pc = kind
    BY DEF HandshakeInv, Alive, Receive, ChoicesInv
  <1>2. /\ Stream[1] = Head(inbound) /\ Head(inbound) \in ServerItem
        /\ Received = Stream[1].val /\ Stream[1].kind = kind
        /\ Then(svVersion, svType, Stream[1], Stream'[1])
        /\ Stream'[1] \in ServerItem \/ Stream'[1] = Turn
        /\ UNCHANGED <<wire, outbound, link, hopeless, svVars, encrypted, attempts>>
    BY <1>1, ReadsOn
  <1> QED  BY <1>1, <1>2 DEF StreamInv, Finds

(* Where a turn of the server comes next, it is the server's. *)
LEMMA TurnIs ==
    ASSUME NEW b, b \in ServerItem \/ b = Turn
    PROVE  /\ b.kind = "turn" => b.val = sv
           /\ \A waitsFor : IsTurn(b, waitsFor) => sv = waitsFor
  BY DEF ServerItem, Turn, IsTurn, Numbers, Lists

(* What a type, and what a method, leads to. *)
LEMMA Uses ==
    ASSUME NEW method, UseMethod(method)
    PROVE  /\ mSelectedMethod' = method /\ outcome' = outcome
           /\ method = "None" => pc' = IF mSelectedProtocolVersion < 8 THEN "clientInit" ELSE "result"
           /\ method # "None" => pc' = "challenge"
  BY DEF UseMethod, goto, AfterMethod

(* Where the client goes with the type that it has selected. *)
LEMMA Selects ==
    ASSUME NEW type, handleSelectedSecurityType(type), type \in Usable \cup {"Invalid"}
    PROVE  /\ outcome' = outcome
           /\ type = "Invalid" =>
                pc' = "reasonLength" /\ reasonFor' = "oldTypeInvalid" /\ mSelectedMethod' = mSelectedMethod
           /\ type # "Invalid" => reasonFor' = reasonFor
           /\ type = "None" => /\ mSelectedMethod' = "None"
                               /\ pc' = IF mSelectedProtocolVersion < 8 THEN "clientInit" ELSE "result"
           /\ type = "VNCAuthentication" => pc' = "challenge" /\ mSelectedMethod' = "VNCAuthentication"
           /\ type = "Tight" => pc' = "tunnelCount" /\ mSelectedMethod' = mSelectedMethod
           /\ type = "AnonymousTLS" => pc' = "tls" /\ mSelectedMethod' = mSelectedMethod
           /\ type = "VeNCrypt" => pc' = "vencrypt" /\ mSelectedMethod' = mSelectedMethod
  <1>1. CASE type = "Invalid"
    BY <1>1 DEF handleSelectedSecurityType, goto, SupportedAuths
  <1>2. CASE type \in SupportedAuths
    <2>1. UseMethod(type) /\ UNCHANGED reasonFor
      BY <1>2 DEF handleSelectedSecurityType, SupportedAuths
    <2> QED  BY <1>2, <2>1, Uses DEF SupportedAuths
  <1>3. CASE type = "Tight"
    BY <1>3 DEF handleSelectedSecurityType, goto, SupportedAuths
  <1>4. CASE type = "AnonymousTLS"
    BY <1>4 DEF handleSelectedSecurityType, goto, SupportedAuths
  <1>5. CASE type = "VeNCrypt"
    BY <1>5 DEF handleSelectedSecurityType, goto, SupportedAuths
  <1> QED  BY <1>1, <1>2, <1>3, <1>4, <1>5 DEF Usable, SupportedAuths

(* A set of numbers has a least one: else the intervals up to each of them  *)
(* would descend forever.                                                  *)
LEMMA LeastOf ==
    ASSUME NEW S, S \subseteq Nat, S # {}
    PROVE  \E n \in S : \A k \in 0..n - 1 : k \notin S
  <1> DEFINE intervals == {0..n : n \in S}
  <1>1. intervals \subseteq FiniteSubsetsOf(Nat) /\ intervals # {}
    <2>1. \A n \in Nat : 0..n \in FiniteSubsetsOf(Nat)
      BY FS_Interval DEF FiniteSubsetsOf
    <2> QED  BY <2>1
  <1>2. IsWellFoundedOn(StrictSubsetOrdering(Nat), FiniteSubsetsOf(Nat))
    BY FS_StrictSubsetOrderingWellFounded
  <1>3. \E x \in intervals : \A y \in intervals : <<y, x>> \notin StrictSubsetOrdering(Nat)
    <2> HIDE DEF intervals
    <2> QED  BY <1>1, <1>2, WFMin
  <1>4. PICK n \in S : \A k \in S : <<0..k, 0..n>> \notin StrictSubsetOrdering(Nat)
    BY <1>3
  <1>5. ASSUME NEW k \in 0..n - 1, k \in S  PROVE FALSE
    <2>1. n \in 0..n /\ n \notin 0..k /\ 0..k \subseteq 0..n /\ 0..n \subseteq Nat
      OBVIOUS
    <2>2. <<0..k, 0..n>> \in StrictSubsetOrdering(Nat)
      BY <2>1 DEF StrictSubsetOrdering
    <2> QED  BY <1>4, <1>5, <2>2
  <1> QED  BY <1>5

(* FirstOf() is one of the list, and one of those wanted. *)
LEMMA FirstOfIs ==
    ASSUME NEW T, NEW list \in Seq(T), NEW wanted
    PROVE  \/ FirstOf(list, wanted) = "Invalid"
           \/ FirstOf(list, wanted) \in Range(list) /\ FirstOf(list, wanted) \in wanted
  <1> SUFFICES ASSUME Range(list) \cap wanted # {}
               PROVE  FirstOf(list, wanted) \in Range(list) /\ FirstOf(list, wanted) \in wanted
    BY DEF FirstOf
  <1> DEFINE S == {i \in DOMAIN list : list[i] \in wanted}
             First(i) == list[i] \in wanted /\ \A j \in 1..i - 1 : list[j] \notin wanted
  <1>1. S \subseteq Nat /\ S # {}
    BY DEF Range
  <1>2. PICK n \in S : \A k \in 0..n - 1 : k \notin S
    <2> HIDE DEF S
    <2> QED  BY <1>1, LeastOf
  <1>3. \E i \in DOMAIN list : First(i)
    <2>1. n \in DOMAIN list /\ \A j \in 1..n - 1 : j \in DOMAIN list /\ j \in 0..n - 1
      OBVIOUS
    <2> QED  BY <1>2, <2>1
  <1>4. PICK i : i = CHOOSE j \in DOMAIN list : First(j)
    OBVIOUS
  <1>5. i \in DOMAIN list /\ First(i)
    BY <1>3, <1>4
  <1>6. FirstOf(list, wanted) = list[i]
    BY <1>4 DEF FirstOf
  <1> QED  BY <1>5, <1>6 DEF Range

(* What the client supports is what it can use. *)
LEMMA SupportedTypesAre == SupportedTypes \in Seq(Usable) /\ Range(SupportedTypes) \subseteq Usable
  <1>1. SupportedTypes \in Seq(Usable)
    <2>1. CASE HaveMbedTls /\ HaveOpenSSL
      BY <2>1 DEF SupportedTypes, Usable
    <2>2. CASE HaveMbedTls /\ ~HaveOpenSSL
      BY <2>2 DEF SupportedTypes, Usable
    <2>3. CASE ~HaveMbedTls /\ HaveOpenSSL
      BY <2>3 DEF SupportedTypes, Usable
    <2>4. CASE ~HaveMbedTls /\ ~HaveOpenSSL
      BY <2>4 DEF SupportedTypes, Usable
    <2> QED  BY <2>1, <2>2, <2>3, <2>4
  <1> QED  BY <1>1 DEF Range

LEMMA SupportedSubTypesAre ==
    SupportedSubTypes \in Seq(SupportedAuths) /\ Range(SupportedSubTypes) = SupportedAuths
  <1>1. SupportedSubTypes \in Seq(SupportedAuths) /\ DOMAIN SupportedSubTypes = 1..2
    BY DEF SupportedSubTypes, SupportedAuths
  <1>2. SupportedSubTypes[1] = "None" /\ SupportedSubTypes[2] = "VNCAuthentication"
    BY DEF SupportedSubTypes
  <1> QED  BY <1>1, <1>2 DEF Range, SupportedAuths

(* The name of the desktop is known. *)
LEMMA AfterNameIs ==
    ASSUME AfterName, pc = "name", outcome = "none", FormatInv
    PROVE  /\ pc' \in Places /\ (pc' = "done") = (outcome' # "none") /\ mDefault' = mDefault
           /\ Alive' => /\ pc' = IF mSelectedVNCSecurityType = "Tight" THEN "capabilityCount" ELSE "quiet"
                        /\ mDefault.format \in ServerFormats \ BadFormats
  <1>1. CASE ~isPixelFormatValidForReceive(readPixelFormat(mDefault.format))
    BY <1>1 DEF AfterName, Finish, Alive, Places
  <1>2. CASE isPixelFormatValidForReceive(readPixelFormat(mDefault.format))
    <2>1. mDefault.format \in ServerFormats \ BadFormats
      BY <1>2, ClientAssumption DEF FormatInv
    <2>2. /\ mDefault' = mDefault
          /\ Finish("unusable") \/ goto(IF ListsEncodings THEN "capabilityCount" ELSE "quiet")
      BY <1>2 DEF AfterName
    <2> QED  BY <2>1, <2>2 DEF Finish, goto, Alive, Places, Reading, ListsEncodings
  <1> QED  BY <1>1, <1>2

(* One lemma for each read: what the item was and what follows it fit the  *)
(* place where the client goes.                                            *)
LEMMA VersionRead ==
    ASSUME HandshakeInv, NegotiateProtocolVersion
    PROVE  HandshakeInv'
  <1>1. Receive("version")
    BY DEF NegotiateProtocolVersion
  <1>2. PICK a, b : a = Stream[1] /\ b = Stream'[1]
    OBVIOUS
  <1>3. Finds("version", a, b)
    BY <1>1, <1>2, ReadFinds
  <1>4. /\ pc' \in Places /\ (pc' = "done") = (outcome' # "none")
        /\ Alive' => pc' = "myVersion" /\ mSelectedProtocolVersion' = SelectVersion(a.val)
        /\ UNCHANGED <<mSelectedVNCSecurityType, mSelectedMethod, expected, reasonFor, formats>>
    BY <1>3 DEF NegotiateProtocolVersion, Finds, Finish, goto, Places, Reading, Writing, Alive
  <1>5. SelectVersion(a.val) \in {3, 7, 8} /\ (a.val = <<3, 3>> => SelectVersion(a.val) = 3)
    BY DEF SelectVersion
  <1>8. Alive' => Fits(b)'
    BY <1>3, <1>4, <1>5 DEF Finds, Fits, Met, Due, Then, IsTurn, svVars
  <1>9. Alive' => Agree(b)'
    BY <1>3, <1>4, <1>5, TurnIs DEF Finds, Then, Fits, Met, Due, Agree, Denied, Asked,
       AskedNoneAndWentOn, IsTurn, svVars, Early, Settled, Choosing, SupportedAuths
  <1>10. Alive' => FormatInv'
    BY <1>3, <1>4 DEF Finds, FormatInv
  <1> QED  BY <1>1, <1>2, <1>3, <1>4, <1>8, <1>9, <1>10, ReadKeeps DEF Finds

LEMMA OldTypeRead ==
    ASSUME HandshakeInv, NegotiateRfb33
    PROVE  HandshakeInv'
  <1>1. Receive("oldType")
    BY DEF NegotiateRfb33
  <1>2. PICK a, b : a = Stream[1] /\ b = Stream'[1]
    OBVIOUS
  <1>3. Finds("oldType", a, b)
    BY <1>1, <1>2, ReadFinds
  <1>0. mSelectedProtocolVersion = 3
    BY <1>3 DEF Finds, Fits
  <1>4. /\ pc' \in Places /\ (pc' = "done") = (outcome' # "none")
        /\ Alive' => /\ a.val \in {"Invalid", "None", "VNCAuthentication"}
                     /\ mSelectedVNCSecurityType' = a.val
                     /\ a.val = "Invalid" => pc' = "reasonLength" /\ mSelectedMethod' = mSelectedMethod
                     /\ a.val = "None" => pc' = "clientInit" /\ mSelectedMethod' = "None"
                     /\ a.val = "VNCAuthentication" => pc' = "challenge" /\ mSelectedMethod' = "VNCAuthentication"
        /\ UNCHANGED <<mSelectedProtocolVersion, expected, formats>>
    BY <1>3, <1>0, Selects DEF NegotiateRfb33, Finds, Finish, goto, Places, Reading, Writing,
       Alive, Usable
  <1>8. Alive' => Fits(b)'
    BY <1>3, <1>4, <1>0 DEF Finds, Fits, Met, Due, Then, IsTurn, svVars
  <1>9. Alive' => Agree(b)'
    BY <1>3, <1>4, <1>0, TurnIs DEF Finds, Then, Fits, Met, Due, Agree, Denied, Asked,
       AskedNoneAndWentOn, IsTurn, svVars, Early, Settled, Choosing, SupportedAuths
  <1>10. Alive' => FormatInv'
    BY <1>3, <1>4 DEF Finds, FormatInv
  <1> QED  BY <1>1, <1>2, <1>3, <1>4, <1>8, <1>9, <1>10, ReadKeeps DEF Finds

LEMMA TypeCountRead ==
    ASSUME HandshakeInv, ReadTypeCount
    PROVE  HandshakeInv'
  <1>1. Receive("typeCount")
    BY DEF ReadTypeCount
  <1>2. PICK a, b : a = Stream[1] /\ b = Stream'[1]
    OBVIOUS
  <1>3. Finds("typeCount", a, b)
    BY <1>1, <1>2, ReadFinds
  <1>4. /\ pc' \in Places /\ (pc' = "done") = (outcome' # "none")
        /\ pc' = IF a.val = 0 THEN "reasonLength" ELSE "types"
        /\ UNCHANGED <<choices, formats>>
    BY <1>3 DEF ReadTypeCount, Finds, Finish, goto, Places, Reading, Writing, Alive
  <1>8. Alive' => Fits(b)'
    BY <1>3, <1>4 DEF Finds, Fits, Met, Due, Then, IsTurn, svVars
  <1>9. Alive' => Agree(b)'
    BY <1>3, <1>4, TurnIs DEF Finds, Then, Fits, Met, Due, Agree, Denied, Asked,
       AskedNoneAndWentOn, IsTurn, svVars, Early, Settled, Choosing, SupportedAuths, choices
  <1>10. Alive' => FormatInv'
    BY <1>3, <1>4 DEF Finds, FormatInv
  <1> QED  BY <1>1, <1>2, <1>3, <1>4, <1>8, <1>9, <1>10, ReadKeeps DEF Finds

LEMMA TypesRead ==
    ASSUME HandshakeInv, ReadTypes
    PROVE  HandshakeInv'
  <1>1. Receive("types")
    BY DEF ReadTypes
  <1>2. PICK a, b : a = Stream[1] /\ b = Stream'[1]
    OBVIOUS
  <1>3. Finds("types", a, b)
    BY <1>1, <1>2, ReadFinds
  <1>0. FirstOf(SupportedTypes, Range(Received)) \in Usable \cup {"Invalid"}
    BY SupportedTypesAre, FirstOfIs
  <1>4. /\ pc' \in Places /\ (pc' = "done") = (outcome' # "none")
        /\ Alive' => pc' = "myType" /\ mSelectedVNCSecurityType' \in Usable
        /\ UNCHANGED <<mSelectedProtocolVersion, mSelectedMethod, expected, reasonFor, formats>>
    BY <1>3, <1>0 DEF ReadTypes, Finds, Finish, goto, Places, Reading, Writing, Alive
  <1>8. Alive' => Fits(b)'
    BY <1>3, <1>4 DEF Finds, Fits, Met, Due, Then, IsTurn, svVars
  <1>9. Alive' => Agree(b)'
    BY <1>3, <1>4, TurnIs DEF Finds, Then, Fits, Met, Due, Agree, Denied, Asked,
       AskedNoneAndWentOn, IsTurn, svVars, Early, Settled, Choosing, SupportedAuths
  <1>10. Alive' => FormatInv'
    BY <1>3, <1>4 DEF Finds, FormatInv
  <1> QED  BY <1>1, <1>2, <1>3, <1>4, <1>8, <1>9, <1>10, ReadKeeps DEF Finds

LEMMA ChallengeRead ==
    ASSUME HandshakeInv, VNCAuthenticationChallenge
    PROVE  HandshakeInv'
  <1>1. Receive("challenge")
    BY DEF VNCAuthenticationChallenge
  <1>2. PICK a, b : a = Stream[1] /\ b = Stream'[1]
    OBVIOUS
  <1>3. Finds("challenge", a, b)
    BY <1>1, <1>2, ReadFinds
  <1>4. /\ pc' \in Places /\ (pc' = "done") = (outcome' # "none")
        /\ pc' = "response"
        /\ UNCHANGED <<choices, expected, reasonFor, formats>>
    BY <1>3 DEF VNCAuthenticationChallenge, Finds, Finish, goto, Places, Reading, Writing, Alive
  <1>8. Alive' => Fits(b)'
    BY <1>3, <1>4 DEF Finds, Fits, Met, Due, Then, IsTurn, svVars, Asked
  <1>9. Alive' => Agree(b)'
    BY <1>3, <1>4, TurnIs DEF Finds, Then, Fits, Met, Due, Agree, Denied, Asked,
       AskedNoneAndWentOn, IsTurn, svVars, Early, Settled, Choosing, SupportedAuths, choices
  <1>10. Alive' => FormatInv'
    BY <1>3, <1>4 DEF Finds, FormatInv
  <1> QED  BY <1>1, <1>2, <1>3, <1>4, <1>8, <1>9, <1>10, ReadKeeps DEF Finds

LEMMA TunnelCountRead ==
    ASSUME HandshakeInv, TightTunnelCount
    PROVE  HandshakeInv'
  <1>1. Receive("tunnelCount")
    BY DEF TightTunnelCount
  <1>2. PICK a, b : a = Stream[1] /\ b = Stream'[1]
    OBVIOUS
  <1>3. Finds("tunnelCount", a, b)
    BY <1>1, <1>2, ReadFinds
  <1>4. /\ pc' \in Places /\ (pc' = "done") = (outcome' # "none")
        /\ Alive' => pc' = "tunnels"
        /\ expected' = a.val
        /\ UNCHANGED <<choices, reasonFor, formats>>
    BY <1>3 DEF TightTunnelCount, Finds, Finish, goto, Places, Reading, Writing, Alive
  <1>8. Alive' => Fits(b)'
    BY <1>3, <1>4 DEF Finds, Fits, Met, Due, Then, IsTurn, svVars, choices
  <1>9. Alive' => Agree(b)'
    BY <1>3, <1>4, TurnIs DEF Finds, Then, Fits, Met, Due, Agree, Denied, Asked,
       AskedNoneAndWentOn, IsTurn, svVars, Early, Settled, Choosing, SupportedAuths, choices
  <1>10. Alive' => FormatInv'
    BY <1>3, <1>4 DEF Finds, FormatInv
  <1> QED  BY <1>1, <1>2, <1>3, <1>4, <1>8, <1>9, <1>10, ReadKeeps DEF Finds

LEMMA TunnelsRead ==
    ASSUME HandshakeInv, TightTunnels
    PROVE  HandshakeInv'
  <1>1. Receive("tunnels")
    BY DEF TightTunnels
  <1>2. PICK a, b : a = Stream[1] /\ b = Stream'[1]
    OBVIOUS
  <1>3. Finds("tunnels", a, b)
    BY <1>1, <1>2, ReadFinds
  <1>4. /\ pc' \in Places /\ (pc' = "done") = (outcome' # "none")
        /\ Alive' => pc' = "myTunnel"
        /\ UNCHANGED <<choices, reasonFor, formats>>
    BY <1>3 DEF TightTunnels, Finds, Finish, goto, Places, Reading, Writing, Alive
  <1>8. Alive' => Fits(b)'
    BY <1>3, <1>4 DEF Finds, Fits, Met, Due, Then, IsTurn, svVars, choices
  <1>9. Alive' => Agree(b)'
    BY <1>3, <1>4, TurnIs DEF Finds, Then, Fits, Met, Due, Agree, Denied, Asked,
       AskedNoneAndWentOn, IsTurn, svVars, Early, Settled, Choosing, SupportedAuths, choices
  <1>10. Alive' => FormatInv'
    BY <1>3, <1>4 DEF Finds, FormatInv
  <1> QED  BY <1>1, <1>2, <1>3, <1>4, <1>8, <1>9, <1>10, ReadKeeps DEF Finds

LEMMA AuthCountRead ==
    ASSUME HandshakeInv, TightAuthCount
    PROVE  HandshakeInv'
  <1>1. Receive("authCount")
    BY DEF TightAuthCount
  <1>2. PICK a, b : a = Stream[1] /\ b = Stream'[1]
    OBVIOUS
  <1>3. Finds("authCount", a, b)
    BY <1>1, <1>2, ReadFinds
  <1>4. /\ pc' \in Places /\ (pc' = "done") = (outcome' # "none")
        /\ Alive' => pc' = "auths"
        /\ expected' = a.val
        /\ UNCHANGED <<choices, reasonFor, formats>>
    BY <1>3 DEF TightAuthCount, Finds, Finish, goto, Places, Reading, Writing, Alive
  <1>8. Alive' => Fits(b)'
    BY <1>3, <1>4 DEF Finds, Fits, Met, Due, Then, IsTurn, svVars, choices, Agree, Denied, Early
  <1>9. Alive' => Agree(b)'
    BY <1>3, <1>4, TurnIs DEF Finds, Then, Fits, Met, Due, Agree, Denied, Asked,
       AskedNoneAndWentOn, IsTurn, svVars, Early, Settled, Choosing, SupportedAuths, choices
  <1>10. Alive' => FormatInv'
    BY <1>3, <1>4 DEF Finds, FormatInv
  <1> QED  BY <1>1, <1>2, <1>3, <1>4, <1>8, <1>9, <1>10, ReadKeeps DEF Finds

LEMMA AuthsRead ==
    ASSUME HandshakeInv, TightAuths
    PROVE  HandshakeInv'
  <1>1. Receive("auths")
    BY DEF TightAuths
  <1>2. PICK a, b : a = Stream[1] /\ b = Stream'[1]
    OBVIOUS
  <1>3. Finds("auths", a, b)
    BY <1>1, <1>2, ReadFinds
  <1>0. FirstOf(Received, SupportedAuths) \in SupportedAuths \cup {"Invalid"}
    <2>1. a.val \in Seq(STRING)
      BY <1>3 DEF Finds, ServerItem, Numbers, Lists
    <2> QED  BY <1>3, <2>1, FirstOfIs DEF Finds
  <1>4. /\ pc' \in Places /\ (pc' = "done") = (outcome' # "none")
        /\ Alive' => pc' = "myAuth" /\ mSelectedMethod' \in SupportedAuths
        /\ UNCHANGED <<mSelectedProtocolVersion, mSelectedVNCSecurityType, expected, reasonFor, formats>>
    BY <1>3, <1>0 DEF TightAuths, Finds, Finish, goto, Places, Reading, Writing, Alive
  <1>5. outbound = <<>> /\ IsTurn(b, "myAuth")
    BY <1>3 DEF Finds, Fits, Met, Due, Then, IsTurn
  <1>8. Alive' => Fits(b)'
    BY <1>3, <1>4, <1>5 DEF Finds, Fits, Met, Due, Then, IsTurn, svVars
  <1>9. Alive' => Agree(b)'
    BY <1>3, <1>4, <1>5, TurnIs DEF Finds, Then, Fits, Met, Due, Agree, Denied, Asked,
       AskedNoneAndWentOn, IsTurn, svVars, Early, Settled, Choosing, SupportedAuths
  <1>10. Alive' => FormatInv'
    BY <1>3, <1>4 DEF Finds, FormatInv
  <1> QED  BY <1>1, <1>2, <1>3, <1>4, <1>8, <1>9, <1>10, ReadKeeps DEF Finds

LEMMA SubTypeCountRead ==
    ASSUME HandshakeInv, ReadSubTypeCount
    PROVE  HandshakeInv'
  <1>1. Receive("subTypeCount")
    BY DEF ReadSubTypeCount
  <1>2. PICK a, b : a = Stream[1] /\ b = Stream'[1]
    OBVIOUS
  <1>3. Finds("subTypeCount", a, b)
    BY <1>1, <1>2, ReadFinds
  <1>4. /\ pc' \in Places /\ (pc' = "done") = (outcome' # "none")
        /\ pc' = IF a.val = 0 THEN "reasonLength" ELSE "subTypes"
        /\ UNCHANGED <<choices, formats>>
    BY <1>3 DEF ReadSubTypeCount, Finds, Finish, goto, Places, Reading, Writing, Alive
  <1>8. Alive' => Fits(b)'
    BY <1>3, <1>4 DEF Finds, Fits, Met, Due, Then, IsTurn, svVars
  <1>9. Alive' => Agree(b)'
    BY <1>3, <1>4, TurnIs DEF Finds, Then, Fits, Met, Due, Agree, Denied, Asked,
       AskedNoneAndWentOn, IsTurn, svVars, Early, Settled, Choosing, SupportedAuths, choices
  <1>10. Alive' => FormatInv'
    BY <1>3, <1>4 DEF Finds, FormatInv
  <1> QED  BY <1>1, <1>2, <1>3, <1>4, <1>8, <1>9, <1>10, ReadKeeps DEF Finds

LEMMA SubTypesRead ==
    ASSUME HandshakeInv, ReadSubTypes
    PROVE  HandshakeInv'
  <1>1. Receive("subTypes")
    BY DEF ReadSubTypes
  <1>2. PICK a, b : a = Stream[1] /\ b = Stream'[1]
    OBVIOUS
  <1>3. Finds("subTypes", a, b)
    BY <1>1, <1>2, ReadFinds
  <1>0. FirstOf(SupportedSubTypes, Range(Received)) \in SupportedAuths \cup {"Invalid"}
    BY SupportedSubTypesAre, FirstOfIs
  <1>4. /\ pc' \in Places /\ (pc' = "done") = (outcome' # "none")
        /\ Alive' => pc' = "mySubType" /\ mSelectedMethod' \in SupportedAuths
        /\ UNCHANGED <<mSelectedProtocolVersion, mSelectedVNCSecurityType, expected, reasonFor, formats>>
    BY <1>3, <1>0 DEF ReadSubTypes, Finds, Finish, goto, Places, Reading, Writing, Alive
  <1>8. Alive' => Fits(b)'
    BY <1>3, <1>4 DEF Finds, Fits, Met, Due, Then, IsTurn, svVars
  <1>9. Alive' => Agree(b)'
    BY <1>3, <1>4, TurnIs DEF Finds, Then, Fits, Met, Due, Agree, Denied, Asked,
       AskedNoneAndWentOn, IsTurn, svVars, Early, Settled, Choosing, SupportedAuths
  <1>10. Alive' => FormatInv'
    BY <1>3, <1>4 DEF Finds, FormatInv
  <1> QED  BY <1>1, <1>2, <1>3, <1>4, <1>8, <1>9, <1>10, ReadKeeps DEF Finds

LEMMA ResultRead ==
    ASSUME HandshakeInv, ReadSecurityResult
    PROVE  HandshakeInv'
  <1>1. Receive("result")
    BY DEF ReadSecurityResult
  <1>2. PICK a, b : a = Stream[1] /\ b = Stream'[1]
    OBVIOUS
  <1>3. Finds("result", a, b)
    BY <1>1, <1>2, ReadFinds
  <1>4. /\ pc' \in Places /\ (pc' = "done") = (outcome' # "none")
        /\ Alive' => \/ a.val = 0 /\ pc' = "clientInit"
                     \/ a.val = 1 /\ mSelectedProtocolVersion = 8 /\ pc' = "reasonLength"
        /\ UNCHANGED <<choices, expected, formats>>
    BY <1>3 DEF ReadSecurityResult, Finds, Finish, goto, Places, Reading, Writing, Alive
  <1>8. Alive' => Fits(b)'
    BY <1>3, <1>4 DEF Finds, Fits, Met, Due, Then, IsTurn, svVars, Asked, choices, Agree,
       Denied, Early
  <1>9. Alive' => Agree(b)'
    BY <1>3, <1>4, TurnIs DEF Finds, Then, Fits, Met, Due, Agree, Denied, Asked,
       AskedNoneAndWentOn, IsTurn, svVars, Early, Settled, Choosing, SupportedAuths, choices
  <1>10. Alive' => FormatInv'
    BY <1>3, <1>4 DEF Finds, FormatInv
  <1> QED  BY <1>1, <1>2, <1>3, <1>4, <1>8, <1>9, <1>10, ReadKeeps DEF Finds

LEMMA ReasonLengthRead ==
    ASSUME HandshakeInv, ReadReasonLength
    PROVE  HandshakeInv'
  <1>1. Receive("reasonLength")
    BY DEF ReadReasonLength
  <1>2. PICK a, b : a = Stream[1] /\ b = Stream'[1]
    OBVIOUS
  <1>3. Finds("reasonLength", a, b)
    BY <1>1, <1>2, ReadFinds
  <1>4. /\ pc' \in Places /\ (pc' = "done") = (outcome' # "none")
        /\ Alive' => pc' = "reasonText" /\ expected' = a.val
        /\ UNCHANGED <<choices, reasonFor, formats>>
    BY <1>3 DEF ReadReasonLength, Finds, Finish, goto, Places, Reading, Writing, Alive, Unheard,
       Heard
  <1>8. Alive' => Fits(b)'
    BY <1>3, <1>4 DEF Finds, Fits, Met, Due, Then, IsTurn, svVars, choices
  <1>9. Alive' => Agree(b)'
    BY <1>3, <1>4, TurnIs DEF Finds, Then, Fits, Met, Due, Agree, Denied, Asked,
       AskedNoneAndWentOn, IsTurn, svVars, Early, Settled, Choosing, SupportedAuths, choices
  <1>10. Alive' => FormatInv'
    BY <1>3, <1>4 DEF Finds, FormatInv
  <1> QED  BY <1>1, <1>2, <1>3, <1>4, <1>8, <1>9, <1>10, ReadKeeps DEF Finds

LEMMA ReasonTextRead ==
    ASSUME HandshakeInv, ReadReasonText
    PROVE  HandshakeInv'
  <1>1. Receive("reasonText")
    BY DEF ReadReasonText
  <1>2. PICK a, b : a = Stream[1] /\ b = Stream'[1]
    OBVIOUS
  <1>3. Finds("reasonText", a, b)
    BY <1>1, <1>2, ReadFinds
  <1>4. /\ pc' \in Places /\ (pc' = "done") = (outcome' # "none")
        /\ ~Alive'
    BY <1>3 DEF ReadReasonText, Finds, Finish, goto, Places, Reading, Writing, Alive, Unheard,
       Heard
  <1>8. Alive' => Fits(b)'
    BY <1>3, <1>4 DEF Finds, Fits, Met, Due, Then, IsTurn, svVars, choices
  <1>9. Alive' => Agree(b)'
    BY <1>3, <1>4, TurnIs DEF Finds, Then, Fits, Met, Due, Agree, Denied, Asked,
       AskedNoneAndWentOn, IsTurn, svVars, Early, Settled, Choosing, SupportedAuths, choices
  <1>10. Alive' => FormatInv'
    BY <1>3, <1>4 DEF Finds, FormatInv
  <1> QED  BY <1>1, <1>2, <1>3, <1>4, <1>8, <1>9, <1>10, ReadKeeps DEF Finds

LEMMA ServerInitRead ==
    ASSUME HandshakeInv, ReadServerInit
    PROVE  HandshakeInv'
  <1>1. Receive("serverInit")
    BY DEF ReadServerInit
  <1>2. PICK a, b : a = Stream[1] /\ b = Stream'[1]
    OBVIOUS
  <1>3. Finds("serverInit", a, b)
    BY <1>1, <1>2, ReadFinds
  <1>4. /\ pc' \in Places /\ (pc' = "done") = (outcome' # "none")
        /\ Alive' => /\ pc' = "name" /\ expected' = a.val.nameLength
                     /\ mDefault' = [format |-> a.val.format, size |-> a.val.size]
        /\ a.val.format \in ServerFormats /\ a.val.size \in Sizes
        /\ UNCHANGED <<choices, reasonFor>>
    BY <1>3 DEF ReadServerInit, Finds, Finish, goto, Places, Reading, Writing, Alive,
       ServerItem, Numbers, Lists
  <1>8. Alive' => Fits(b)'
    BY <1>3, <1>4 DEF Finds, Fits, Met, Due, Then, IsTurn, svVars, choices, Agree, Denied,
       Early, AfterNames, Silence, Asked, AskedNoneAndWentOn
  <1>9. Alive' => Agree(b)'
    BY <1>3, <1>4, TurnIs DEF Finds, Then, Fits, Met, Due, Agree, Denied, Asked,
       AskedNoneAndWentOn, IsTurn, svVars, Early, Settled, Choosing, SupportedAuths, choices
  <1>10. Alive' => FormatInv'
    BY <1>3, <1>4 DEF Finds, FormatInv
  <1> QED  BY <1>1, <1>2, <1>3, <1>4, <1>8, <1>9, <1>10, ReadKeeps DEF Finds

LEMMA NameRead ==
    ASSUME HandshakeInv, ReadName
    PROVE  HandshakeInv'
  <1>1. Receive("name")
    BY DEF ReadName
  <1>2. PICK a, b : a = Stream[1] /\ b = Stream'[1]
    OBVIOUS
  <1>3. Finds("name", a, b)
    BY <1>1, <1>2, ReadFinds
  <1>4. /\ pc' \in Places /\ (pc' = "done") = (outcome' # "none")
        /\ Alive' => /\ pc' = IF mSelectedVNCSecurityType = "Tight" THEN "capabilityCount" ELSE "quiet"
                     /\ mDefault.format \in ServerFormats \ BadFormats
        /\ mDefault' = mDefault
        /\ UNCHANGED <<choices, expected, reasonFor>>
    BY <1>3, AfterNameIs DEF ReadName, Finds, Finish, goto, Places, Reading, Writing, Alive
  <1>8. Alive' => Fits(b)'
    BY <1>3, <1>4 DEF Finds, Fits, Met, Due, Then, IsTurn, svVars, choices, Agree, Denied,
       Early, AfterNames, Silence
  <1>9. Alive' => Agree(b)'
    BY <1>3, <1>4, TurnIs DEF Finds, Then, Fits, Met, Due, Agree, Denied, Asked,
       AskedNoneAndWentOn, IsTurn, svVars, Early, Settled, Choosing, SupportedAuths, choices
  <1>10. Alive' => FormatInv'
    BY <1>3, <1>4 DEF Finds, FormatInv
  <1> QED  BY <1>1, <1>2, <1>3, <1>4, <1>8, <1>9, <1>10, ReadKeeps DEF Finds

LEMMA CapabilityCountRead ==
    ASSUME HandshakeInv, ReadCapabilityCount
    PROVE  HandshakeInv'
  <1>1. Receive("capabilityCount")
    BY DEF ReadCapabilityCount
  <1>2. PICK a, b : a = Stream[1] /\ b = Stream'[1]
    OBVIOUS
  <1>3. Finds("capabilityCount", a, b)
    BY <1>1, <1>2, ReadFinds
  <1>4. /\ pc' \in Places /\ (pc' = "done") = (outcome' # "none")
        /\ Alive' => pc' = IF a.val = 0 THEN "quiet" ELSE "capabilities"
        /\ UNCHANGED <<choices, expected, reasonFor, formats>>
    BY <1>3 DEF ReadCapabilityCount, Finds, Finish, goto, Places, Reading, Writing, Alive
  <1>8. Alive' => Fits(b)'
    BY <1>3, <1>4 DEF Finds, Fits, Met, Due, Then, IsTurn, svVars, choices, Silence
  <1>9. Alive' => Agree(b)'
    BY <1>3, <1>4, TurnIs DEF Finds, Then, Fits, Met, Due, Agree, Denied, Asked,
       AskedNoneAndWentOn, IsTurn, svVars, Early, Settled, Choosing, SupportedAuths, choices
  <1>10. Alive' => FormatInv'
    BY <1>3, <1>4 DEF Finds, FormatInv, formats
  <1> QED  BY <1>1, <1>2, <1>3, <1>4, <1>8, <1>9, <1>10, ReadKeeps DEF Finds

LEMMA CapabilitiesRead ==
    ASSUME HandshakeInv, ReadCapabilities
    PROVE  HandshakeInv'
  <1>1. Receive("capabilities")
    BY DEF ReadCapabilities
  <1>2. PICK a, b : a = Stream[1] /\ b = Stream'[1]
    OBVIOUS
  <1>3. Finds("capabilities", a, b)
    BY <1>1, <1>2, ReadFinds
  <1>4. /\ pc' \in Places /\ (pc' = "done") = (outcome' # "none")
        /\ pc' = "quiet"
        /\ UNCHANGED <<choices, expected, reasonFor, formats>>
    BY <1>3 DEF ReadCapabilities, Finds, Finish, goto, Places, Reading, Writing, Alive
  <1>8. Alive' => Fits(b)'
    BY <1>3, <1>4 DEF Finds, Fits, Met, Due, Then, IsTurn, svVars, choices, Silence
  <1>9. Alive' => Agree(b)'
    BY <1>3, <1>4, TurnIs DEF Finds, Then, Fits, Met, Due, Agree, Denied, Asked,
       AskedNoneAndWentOn, IsTurn, svVars, Early, Settled, Choosing, SupportedAuths, choices
  <1>10. Alive' => FormatInv'
    BY <1>3, <1>4 DEF Finds, FormatInv, formats
  <1> QED  BY <1>1, <1>2, <1>3, <1>4, <1>8, <1>9, <1>10, ReadKeeps DEF Finds

-----------------------------------------------------------------------------
(* The client writes, or goes on without *)

(* What is next, while the stream is left alone. *)
Next1(b) ==
    /\ Alive /\ Agree(b) /\ FormatInv /\ Fits(b)
    /\ b \in ServerItem \/ b = Turn

(* The head of the stream fits the place where the client is. *)
LEMMA StreamHead ==
    ASSUME HandshakeInv, Alive, NEW b, b = Stream[1]
    PROVE  Next1(b)
  <1>1. StreamInv /\ Agree(b) /\ FormatInv
    BY DEF HandshakeInv, ChoicesInv
  <1>2. PICK received, sent, turn : received = inbound /\ sent = wire /\ turn = Turn
    OBVIOUS
  <1>3. received \in Seq(ServerItem) /\ sent \in Seq(ServerItem)
    BY <1>1, <1>2 DEF StreamInv
  <1>4. PICK stream : stream = Append(received \o sent, turn)
    OBVIOUS
  <1>5. Len(stream) \in Nat \ {0}
    BY <1>3, <1>4, StreamIs
  <1>6. stream[1] \in ServerItem \/ stream[1] = turn
    <2>1. /\ \A i \in 1..Len(stream) - 1 : stream[i] \in ServerItem
          /\ stream[Len(stream)] = turn
      BY <1>3, <1>4, <1>5, StreamIs
    <2> QED  BY <1>5, <2>1
  <1>7. stream = Stream
    BY <1>2, <1>4 DEF Stream, Coming
  <1> QED  BY <1>1, <1>2, <1>6, <1>7 DEF StreamInv, Next1

(* What is left to show of a step that leaves the stream alone. *)
LEMMA StreamKept ==
    ASSUME HandshakeInv, Alive, UNCHANGED <<inbound, wire, svVars, encrypted>>,
           pc' \in Places, (pc' = "done") = (outcome' # "none"),
           NEW b, b = Stream[1],
           Alive' => Fits(b)', Alive' => Agree(b)', Alive' => FormatInv'
    PROVE  HandshakeInv'
  <1>1. StreamInv
    BY DEF HandshakeInv
  <1>2. Stream' = Stream /\ Known' = Known /\ Turn' = Turn /\ svTls' = svTls
    BY DEF Stream, Coming, Turn, Known, svVars
  <1>3. Alive' => Fits(Stream[1])' /\ Agree(Stream[1])'
    BY <1>2
  <1>4. Alive' => StreamInv'
    <2>1. /\ inbound' \in Seq(ServerItem) /\ wire' \in Seq(ServerItem)
          /\ Chained(Known', Stream')
          /\ \A i \in 1..Len(Stream') : Proper(Known', Turn', Stream'[i])
          /\ svTls' = encrypted'
      BY <1>1, <1>2 DEF StreamInv
    <2> QED  BY <1>3, <2>1 DEF StreamInv
  <1>5. Alive' => ChoicesInv'
    BY <1>3 DEF ChoicesInv
  <1> QED  BY <1>4, <1>5 DEF HandshakeInv

(* Short sequences, one element after the other. *)
LEMMA Appended ==
    /\ \A x : Append(<<>>, x) = <<x>>
    /\ \A x, y : Append(<<x>>, y) = <<x, y>>
  <1>1. ASSUME NEW x  PROVE Append(<<>>, x) = <<x>>
    OBVIOUS
  <1>2. ASSUME NEW x, NEW y  PROVE Append(<<x>>, y) = <<x, y>>
    <2>1. PICK s : s = <<x>>
      OBVIOUS
    <2>2. PICK S : S = {x, y}
      OBVIOUS
    <2>. x \in S /\ y \in S
      BY <2>2
    <2>3. s \in Seq(S) /\ Len(s) = 1 /\ s[1] = x
      BY <2>1
    <2>4. PICK t : t = Append(s, y)
      OBVIOUS
    <2>5. t \in Seq(S) /\ Len(t) = Len(s) + 1 /\ t[Len(s) + 1] = y
      BY ZenonT(30), <2>3, <2>4, AppendProperties
    <2>7. \A i \in 1..Len(s) : t[i] = s[i]
      BY <2>3, <2>4, AppendProperties
    <2>6. t = <<x, y>>
      BY <2>3, <2>5, <2>7
    <2> QED  BY <2>1, <2>4, <2>6
  <1> QED  BY <1>1, <1>2

(* One lemma for each write: the server has not read it yet. *)
LEMMA VersionWritten ==
    ASSUME HandshakeInv, StartVncProtocol
    PROVE  HandshakeInv'
  <1>1. Alive /\ pc = "myVersion" /\ outcome = "none"
    BY DEF HandshakeInv, Alive, StartVncProtocol, Send
  <1>2. PICK b : b = Stream[1]
    OBVIOUS
  <1>3. Next1(b)
    BY <1>1, <1>2, StreamHead
  <1>4. /\ pc' \in Places /\ (pc' = "done") = (outcome' # "none")
        /\ UNCHANGED <<inbound, wire, link, hopeless, svVars, encrypted, attempts>>
        /\ outbound' = Append(outbound, Sent("myVersion", mSelectedProtocolVersion))
        /\ pc' = IF mSelectedProtocolVersion = 3 THEN "oldType" ELSE "typeCount"
        /\ UNCHANGED <<choices, expected, reasonFor, formats>>
    BY <1>1, <1>3 DEF StartVncProtocol, Next1, Send, Sent, goto, Finish, Places, Reading,
       Writing, Alive, serverVars, channels
  <1>5. Alive' => Fits(b)'
    BY <1>1, <1>3, <1>4, Appended DEF Next1, Fits, Met, Due, IsTurn, Sent, svVars, choices
  <1>6. Alive' => Agree(b)'
    BY <1>1, <1>3, <1>4, TurnIs, Appended DEF Next1, Fits, Met, Due, Agree, Denied, Asked,
       AskedNoneAndWentOn, IsTurn, Sent, svVars, choices, Early, Settled, Choosing,
       SupportedAuths
  <1>7. Alive' => FormatInv'
    BY <1>1, <1>3, <1>4, Appended DEF Next1, FormatInv, formats
  <1> QED  BY <1>1, <1>2, <1>4, <1>5, <1>6, <1>7, StreamKept

LEMMA TypeWritten ==
    ASSUME HandshakeInv, SendType
    PROVE  HandshakeInv'
  <1>1. Alive /\ pc = "myType" /\ outcome = "none"
    BY DEF HandshakeInv, Alive, SendType, Send
  <1>2. PICK b : b = Stream[1]
    OBVIOUS
  <1>3. Next1(b)
    BY <1>1, <1>2, StreamHead
  <1>0. mSelectedVNCSecurityType \in Usable /\ mSelectedProtocolVersion \in {3, 7, 8}
    BY <1>1, <1>3 DEF Next1, Agree
  <1>4. /\ pc' \in Places /\ (pc' = "done") = (outcome' # "none")
        /\ UNCHANGED <<inbound, wire, link, hopeless, svVars, encrypted, attempts>>
        /\ outbound' = Append(outbound, Sent("myType", mSelectedVNCSecurityType))
        /\ mSelectedVNCSecurityType = "None" => /\ mSelectedMethod' = "None"
             /\ pc' = IF mSelectedProtocolVersion < 8 THEN "clientInit" ELSE "result"
        /\ mSelectedVNCSecurityType = "VNCAuthentication" => pc' = "challenge" /\ mSelectedMethod' = "VNCAuthentication"
        /\ mSelectedVNCSecurityType = "Tight" => pc' = "tunnelCount"
        /\ mSelectedVNCSecurityType = "AnonymousTLS" => pc' = "tls"
        /\ mSelectedVNCSecurityType = "VeNCrypt" => pc' = "vencrypt"
        /\ UNCHANGED <<mSelectedProtocolVersion, mSelectedVNCSecurityType, expected, formats>>
    BY <1>1, <1>3, <1>0, Selects DEF SendType, Next1, Send, Sent, goto, Finish, Places, Reading,
       Writing, Alive, serverVars, channels, Usable
  <1>8. IsTurn(b, "myType") /\ outbound' = <<Sent("myType", mSelectedVNCSecurityType)>>
    BY <1>1, <1>3, <1>4, Appended DEF Next1, Fits, Due, Met
  <1>5. Alive' => Fits(b)'
    BY <1>1, <1>3, <1>4, <1>8, <1>0 DEF Next1, Fits, Met, Due, IsTurn, Sent, svVars, choices,
       Usable, Asked
  <1>6. Alive' => Agree(b)'
    BY <1>1, <1>3, <1>4, TurnIs, <1>8, <1>0 DEF Next1, Fits, Met, Due, Agree, Denied, Asked,
       AskedNoneAndWentOn, IsTurn, Sent, svVars, choices, Early, Settled, Choosing,
       SupportedAuths, Usable
  <1>7. Alive' => FormatInv'
    BY <1>1, <1>3, <1>4, <1>8, <1>0 DEF Next1, FormatInv, formats, Usable
  <1> QED  BY <1>1, <1>2, <1>4, <1>5, <1>6, <1>7, StreamKept

LEMMA ResponseWritten ==
    ASSUME HandshakeInv, VNCAuthenticationResponse
    PROVE  HandshakeInv'
  <1>1. Alive /\ pc = "response" /\ outcome = "none"
    BY DEF HandshakeInv, Alive, VNCAuthenticationResponse, Send
  <1>2. PICK b : b = Stream[1]
    OBVIOUS
  <1>3. Next1(b)
    BY <1>1, <1>2, StreamHead
  <1>4. /\ pc' \in Places /\ (pc' = "done") = (outcome' # "none")
        /\ UNCHANGED <<inbound, wire, link, hopeless, svVars, encrypted, attempts>>
        /\ outbound' = Append(outbound, Sent("response", 0)) /\ pc' = "result"
        /\ UNCHANGED <<choices, expected, reasonFor, formats>>
    BY <1>1, <1>3 DEF VNCAuthenticationResponse, Next1, Send, Sent, goto, Finish, Places,
       Reading, Writing, Alive, serverVars, channels
  <1>5. Alive' => Fits(b)'
    BY <1>1, <1>3, <1>4, Appended DEF Next1, Fits, Met, Due, IsTurn, Sent, svVars, choices
  <1>6. Alive' => Agree(b)'
    BY <1>1, <1>3, <1>4, TurnIs, Appended DEF Next1, Fits, Met, Due, Agree, Denied, Asked,
       AskedNoneAndWentOn, IsTurn, Sent, svVars, choices, Early, Settled, Choosing,
       SupportedAuths
  <1>7. Alive' => FormatInv'
    BY <1>1, <1>3, <1>4, Appended DEF Next1, FormatInv, formats
  <1> QED  BY <1>1, <1>2, <1>4, <1>5, <1>6, <1>7, StreamKept

LEMMA TunnelWritten ==
    ASSUME HandshakeInv, TightTunnel
    PROVE  HandshakeInv'
  <1>1. Alive /\ pc = "myTunnel" /\ outcome = "none"
    BY DEF HandshakeInv, Alive, TightTunnel, Send
  <1>2. PICK b : b = Stream[1]
    OBVIOUS
  <1>3. Next1(b)
    BY <1>1, <1>2, StreamHead
  <1>4. /\ pc' \in Places /\ (pc' = "done") = (outcome' # "none")
        /\ UNCHANGED <<inbound, wire, link, hopeless, svVars, encrypted, attempts>>
        /\ outbound' = Append(outbound, Sent("myTunnel", "NOTUNNEL")) /\ pc' = "authCount"
        /\ UNCHANGED <<choices, expected, reasonFor, formats>>
    BY <1>1, <1>3 DEF TightTunnel, Next1, Send, Sent, goto, Finish, Places, Reading, Writing,
       Alive, serverVars, channels
  <1>5. Alive' => Fits(b)'
    BY <1>1, <1>3, <1>4, Appended DEF Next1, Fits, Met, Due, IsTurn, Sent, svVars, choices
  <1>6. Alive' => Agree(b)'
    BY <1>1, <1>3, <1>4, TurnIs, Appended DEF Next1, Fits, Met, Due, Agree, Denied, Asked,
       AskedNoneAndWentOn, IsTurn, Sent, svVars, choices, Early, Settled, Choosing,
       SupportedAuths
  <1>7. Alive' => FormatInv'
    BY <1>1, <1>3, <1>4, Appended DEF Next1, FormatInv, formats
  <1> QED  BY <1>1, <1>2, <1>4, <1>5, <1>6, <1>7, StreamKept

LEMMA AuthWritten ==
    ASSUME HandshakeInv, TightAuthenticate
    PROVE  HandshakeInv'
  <1>1. Alive /\ pc = "myAuth" /\ outcome = "none"
    BY DEF HandshakeInv, Alive, TightAuthenticate, Send
  <1>2. PICK b : b = Stream[1]
    OBVIOUS
  <1>3. Next1(b)
    BY <1>1, <1>2, StreamHead
  <1>0. mSelectedMethod \in SupportedAuths /\ mSelectedProtocolVersion \in {3, 7, 8}
    BY <1>1, <1>3 DEF Next1, Agree
  <1>4. /\ pc' \in Places /\ (pc' = "done") = (outcome' # "none")
        /\ UNCHANGED <<inbound, wire, link, hopeless, svVars, encrypted, attempts>>
        /\ outbound' = Append(outbound, Sent("myAuth", mSelectedMethod))
        /\ mSelectedMethod = "None" => /\ mSelectedMethod' = "None"
             /\ pc' = IF mSelectedProtocolVersion < 8 THEN "clientInit" ELSE "result"
        /\ mSelectedMethod = "VNCAuthentication" => pc' = "challenge" /\ mSelectedMethod' = "VNCAuthentication"
        /\ UNCHANGED <<mSelectedProtocolVersion, mSelectedVNCSecurityType, expected, formats>>
    BY <1>1, <1>3, <1>0, Uses DEF TightAuthenticate, Next1, Send, Sent, goto, Finish, Places,
       Reading, Writing, Alive, serverVars, channels, SupportedAuths
  <1>8. IsTurn(b, "myAuth") /\ outbound' = <<Sent("myAuth", mSelectedMethod)>>
    BY <1>1, <1>3, <1>4, Appended DEF Next1, Fits, Due, Met
  <1>5. Alive' => Fits(b)'
    BY <1>1, <1>3, <1>4, <1>8, <1>0 DEF Next1, Fits, Met, Due, IsTurn, Sent, svVars, choices,
       SupportedAuths, Asked
  <1>6. Alive' => Agree(b)'
    BY <1>1, <1>3, <1>4, TurnIs, <1>8, <1>0 DEF Next1, Fits, Met, Due, Agree, Denied, Asked,
       AskedNoneAndWentOn, IsTurn, Sent, svVars, choices, Early, Settled, Choosing,
       SupportedAuths
  <1>7. Alive' => FormatInv'
    BY <1>1, <1>3, <1>4, <1>8, <1>0 DEF Next1, FormatInv, formats, SupportedAuths
  <1> QED  BY <1>1, <1>2, <1>4, <1>5, <1>6, <1>7, StreamKept

LEMMA SubTypeWritten ==
    ASSUME HandshakeInv, SendSubType
    PROVE  HandshakeInv'
  <1>1. Alive /\ pc = "mySubType" /\ outcome = "none"
    BY DEF HandshakeInv, Alive, SendSubType, Send
  <1>2. PICK b : b = Stream[1]
    OBVIOUS
  <1>3. Next1(b)
    BY <1>1, <1>2, StreamHead
  <1>0. mSelectedMethod \in SupportedAuths /\ mSelectedProtocolVersion \in {3, 7, 8}
    BY <1>1, <1>3 DEF Next1, Agree
  <1>4. /\ pc' \in Places /\ (pc' = "done") = (outcome' # "none")
        /\ UNCHANGED <<inbound, wire, link, hopeless, svVars, encrypted, attempts>>
        /\ outbound' = Append(outbound, Sent("mySubType", mSelectedMethod))
        /\ mSelectedMethod = "None" => /\ mSelectedMethod' = "None"
             /\ pc' = IF mSelectedProtocolVersion < 8 THEN "clientInit" ELSE "result"
        /\ mSelectedMethod = "VNCAuthentication" => pc' = "challenge" /\ mSelectedMethod' = "VNCAuthentication"
        /\ UNCHANGED <<mSelectedProtocolVersion, mSelectedVNCSecurityType, expected, formats>>
    BY <1>1, <1>3, <1>0, Uses DEF SendSubType, Next1, Send, Sent, goto, Finish, Places, Reading,
       Writing, Alive, serverVars, channels, SupportedAuths
  <1>8. IsTurn(b, "mySubType") /\ outbound' = <<Sent("mySubType", mSelectedMethod)>>
    BY <1>1, <1>3, <1>4, Appended DEF Next1, Fits, Due, Met
  <1>5. Alive' => Fits(b)'
    BY <1>1, <1>3, <1>4, <1>8, <1>0 DEF Next1, Fits, Met, Due, IsTurn, Sent, svVars, choices,
       SupportedAuths, Asked
  <1>6. Alive' => Agree(b)'
    BY <1>1, <1>3, <1>4, TurnIs, <1>8, <1>0 DEF Next1, Fits, Met, Due, Agree, Denied, Asked,
       AskedNoneAndWentOn, IsTurn, Sent, svVars, choices, Early, Settled, Choosing,
       SupportedAuths
  <1>7. Alive' => FormatInv'
    BY <1>1, <1>3, <1>4, <1>8, <1>0 DEF Next1, FormatInv, formats, SupportedAuths
  <1> QED  BY <1>1, <1>2, <1>4, <1>5, <1>6, <1>7, StreamKept

LEMMA ClientInitWritten ==
    ASSUME HandshakeInv, SendClientInit
    PROVE  HandshakeInv'
  <1>1. Alive /\ pc = "clientInit" /\ outcome = "none"
    BY DEF HandshakeInv, Alive, SendClientInit, Send
  <1>2. PICK b : b = Stream[1]
    OBVIOUS
  <1>3. Next1(b)
    BY <1>1, <1>2, StreamHead
  <1>4. /\ pc' \in Places /\ (pc' = "done") = (outcome' # "none")
        /\ UNCHANGED <<inbound, wire, link, hopeless, svVars, encrypted, attempts>>
        /\ outbound' = Append(outbound, Sent("clientInit", 0)) /\ pc' = "serverInit"
        /\ UNCHANGED <<choices, expected, reasonFor, formats>>
    BY <1>1, <1>3 DEF SendClientInit, Next1, Send, Sent, goto, Finish, Places, Reading, Writing,
       Alive, serverVars, channels
  <1>9. outbound = <<>> => outbound' = <<Sent("clientInit", 0)>>
    BY <1>4, Appended
  <1>8. /\ Due(b, "clientInit") => outbound' = <<Sent("clientInit", 0)>>
        /\ outbound = <<Sent("myType", "None")>> => outbound' = <<Sent("myType", "None"), Sent("clientInit", 0)>>
        /\ outbound = <<Sent("myAuth", "None")>> => outbound' = <<Sent("myAuth", "None"), Sent("clientInit", 0)>>
        /\ outbound = <<Sent("mySubType", "None")>> => outbound' = <<Sent("mySubType", "None"), Sent("clientInit", 0)>>
    BY <1>4, <1>9, Appended DEF Due
  <1>5. Alive' => Fits(b)'
    BY <1>1, <1>3, <1>4, <1>8 DEF Next1, Fits, Met, Due, IsTurn, Sent, svVars, choices, Asked,
       AskedNoneAndWentOn
  <1>6. Alive' => Agree(b)'
    BY <1>1, <1>3, <1>4, TurnIs, <1>8 DEF Next1, Fits, Met, Due, Agree, Denied, Asked,
       AskedNoneAndWentOn, IsTurn, Sent, svVars, choices, Early, Settled, Choosing,
       SupportedAuths
  <1>7. Alive' => FormatInv'
    BY <1>1, <1>3, <1>4, <1>8 DEF Next1, FormatInv, formats
  <1> QED  BY <1>1, <1>2, <1>4, <1>5, <1>6, <1>7, StreamKept

LEMMA PixelFormatWritten ==
    ASSUME HandshakeInv, SendSetPixelFormat
    PROVE  HandshakeInv'
  <1>1. Alive /\ pc = "myPixelFormat" /\ outcome = "none"
    BY DEF HandshakeInv, Alive, SendSetPixelFormat, Send
  <1>2. PICK b : b = Stream[1]
    OBVIOUS
  <1>3. Next1(b)
    BY <1>1, <1>2, StreamHead
  <1>4. /\ pc' \in Places /\ (pc' = "done") = (outcome' # "none")
        /\ UNCHANGED <<inbound, wire, link, hopeless, svVars, encrypted, attempts>>
        /\ outbound' = Append(outbound, Told')
        /\ pc' = "myEncodings" /\ mCurrentPixelFormat' \in Chosen
        /\ UNCHANGED <<choices, expected, reasonFor, mDefault>>
    BY <1>1, <1>3 DEF SendSetPixelFormat, Next1, Send, Sent, goto, Finish, Places, Reading,
       Writing, Alive, serverVars, channels, Told, TrackedFormat, Chosen, FormatInv
  <1>5. Alive' => Fits(b)'
    BY <1>1, <1>3, <1>4, Appended DEF Next1, Fits, Met, Due, IsTurn, Sent, svVars, choices,
       Silence
  <1>6. Alive' => Agree(b)'
    BY <1>1, <1>3, <1>4, TurnIs, Appended DEF Next1, Fits, Met, Due, Agree, Denied, Asked,
       AskedNoneAndWentOn, IsTurn, Sent, svVars, choices, Early, Settled, Choosing,
       SupportedAuths
  <1>7. Alive' => FormatInv'
    BY <1>1, <1>3, <1>4, Appended DEF Next1, FormatInv, formats, Fits, Told, Agree, svVars
  <1> QED  BY <1>1, <1>2, <1>4, <1>5, <1>6, <1>7, StreamKept

LEMMA EncodingsWritten ==
    ASSUME HandshakeInv, SendSetEncodings
    PROVE  HandshakeInv'
  <1>1. Alive /\ pc = "myEncodings" /\ outcome = "none"
    BY DEF HandshakeInv, Alive, SendSetEncodings, Send
  <1>2. PICK b : b = Stream[1]
    OBVIOUS
  <1>3. Next1(b)
    BY <1>1, <1>2, StreamHead
  <1>4. /\ pc' \in Places /\ (pc' = "done") = (outcome' # "none")
        /\ UNCHANGED <<inbound, wire, link, hopeless, svVars, encrypted, attempts>>
        /\ outbound' = Append(outbound, End) /\ pc' = "done"
        /\ UNCHANGED <<choices, expected, reasonFor, formats>>
    BY <1>1, <1>3 DEF SendSetEncodings, Next1, Send, Sent, goto, Finish, Places, Reading,
       Writing, Alive, serverVars, channels, End
  <1>8. /\ outbound = <<>> => outbound' = <<End>>
        /\ outbound = <<Told>> => outbound' = <<Told, End>>
    <2>1. PICK told, end : told = Told /\ end = End
      OBVIOUS
    <2>2. Append(<<>>, end) = <<end>> /\ Append(<<told>>, end) = <<told, end>>
      BY Appended
    <2> QED  BY <1>4, <2>1, <2>2
  <1>5. Alive' => Fits(b)'
    BY <1>1, <1>3, <1>4, <1>8 DEF Next1, Fits, Met, Due, IsTurn, Sent, svVars, choices
  <1>6. Alive' => Agree(b)'
    BY <1>1, <1>3, <1>4, TurnIs, <1>8 DEF Next1, Fits, Met, Due, Agree, Denied, Asked,
       AskedNoneAndWentOn, IsTurn, Sent, svVars, choices, Early, Settled, Choosing,
       SupportedAuths, FormatInv
  <1>7. Alive' => FormatInv'
    BY <1>1, <1>3, <1>4, <1>8 DEF Next1, FormatInv, formats, Told, End, svVars, Sent
  <1> QED  BY <1>1, <1>2, <1>4, <1>5, <1>6, <1>7, StreamKept

LEMMA QuietEnsured ==
    ASSUME HandshakeInv, EnsureNoMoreData
    PROVE  HandshakeInv'
  <1>1. Alive /\ pc = "quiet" /\ outcome = "none"
    BY DEF HandshakeInv, Alive, EnsureNoMoreData
  <1>2. PICK b : b = Stream[1]
    OBVIOUS
  <1>3. Next1(b)
    BY <1>1, <1>2, StreamHead
  <1>4. /\ pc' \in Places /\ (pc' = "done") = (outcome' # "none")
        /\ UNCHANGED <<inbound, wire, link, hopeless, svVars, encrypted, attempts>>
        /\ Alive' => pc' = "myPixelFormat" /\ outbound' = outbound
        /\ UNCHANGED <<choices, expected, reasonFor, formats>>
    BY <1>1, <1>3 DEF EnsureNoMoreData, Next1, Send, Sent, goto, Finish, Places, Reading,
       Writing, Alive, serverVars, channels
  <1>5. Alive' => Fits(b)'
    BY <1>1, <1>3, <1>4, Appended DEF Next1, Fits, Met, Due, IsTurn, Sent, svVars, choices
  <1>6. Alive' => Agree(b)'
    BY <1>1, <1>3, <1>4, TurnIs, Appended DEF Next1, Fits, Met, Due, Agree, Denied, Asked,
       AskedNoneAndWentOn, IsTurn, Sent, svVars, choices, Early, Settled, Choosing,
       SupportedAuths
  <1>7. Alive' => FormatInv'
    BY <1>1, <1>3, <1>4, Appended DEF Next1, FormatInv, formats
  <1> QED  BY <1>1, <1>2, <1>4, <1>5, <1>6, <1>7, StreamKept

LEMMA Paired ==
    ASSUME NEW x, NEW y
    PROVE  <<x, y>> = <<x>> \o <<y>>
  <1>1. PICK s, S : s = <<x>> /\ S = {x, y}
    OBVIOUS
  <1>2. s \in Seq(S) /\ y \in S
    BY <1>1
  <1>3. Append(s, y) = s \o <<y>>
    BY <1>2, AppendIsConcat
  <1> QED  BY <1>1, <1>3, Appended

LEMMA TakenFrom ==
    /\ \A x : Head(<<x>>) = x /\ Tail(<<x>>) = <<>>
    /\ \A x, y : Head(<<x, y>>) = x /\ Tail(<<x, y>>) = <<y>>
  OBVIOUS

(* The client gives up. *)
LEMMA GivenUp ==
    ASSUME HandshakeInv, ~Alive', pc' \in Places, (pc' = "done") = (outcome' # "none")
    PROVE  HandshakeInv'
  BY DEF HandshakeInv

(* The reads of no bytes. *)
LEMMA NothingRead ==
    ASSUME HandshakeInv, ReadNothing
    PROVE  HandshakeInv'
  <1>1. /\ Alive /\ pc \in {"tunnels", "auths", "reasonText", "name"} /\ outcome = "none" /\ expected = 0
        /\ UNCHANGED <<serverVars, mSelectedProtocolVersion, mSelectedVNCSecurityType, expected,
                       reasonFor, encrypted, attempts>>
    BY DEF HandshakeInv, Alive, ReadNothing
  <1>2. PICK b : b = Stream[1]
    OBVIOUS
  <1>3. Next1(b)
    BY <1>1, <1>2, StreamHead
  <1>4. CASE Finish(Unable)
    BY <1>4, GivenUp DEF Finish, Unable, Unheard, Heard, Alive, Places
  <1>5. CASE AfterNothing
    <2>1. UNCHANGED <<inbound, wire, outbound, svVars, encrypted>>
      BY <1>1 DEF serverVars, channels
    <2>2. CASE pc = "tunnels"
      <3>1. pc' = "authCount" /\ UNCHANGED <<outcome, mSelectedMethod, formats>>
        BY <1>5, <2>2 DEF AfterNothing, goto
      <3>2. Fits(b)'
        BY <1>1, <1>3, <2>1, <2>2, <3>1 DEF Next1, Fits, Met, svVars
      <3>3. Agree(b)'
        BY <1>1, <1>3, <2>1, <2>2, <3>1 DEF Next1, Agree, Denied, Asked, AskedNoneAndWentOn,
           Fits, Met, IsTurn, Sent, svVars, Early, Settled, Choosing
      <3>4. FormatInv'
        BY <1>3, <2>1, <2>2, <3>1 DEF Next1, FormatInv
      <3> QED  BY <1>1, <1>2, <2>1, <3>1, <3>2, <3>3, <3>4, StreamKept DEF Places, Reading
    <2>3. CASE pc = "auths"
      <3>1. /\ pc' = IF mSelectedProtocolVersion < 8 THEN "clientInit" ELSE "result"
            /\ mSelectedMethod' = "None" /\ UNCHANGED <<outcome, formats>>
        BY <1>5, <2>3, Uses DEF AfterNothing
      <3>2. Fits(b)'
        BY <1>1, <1>3, <2>1, <2>3, <3>1 DEF Next1, Fits, Met, Due, IsTurn, svVars
      <3>3. Agree(b)'
        BY <1>1, <1>3, <2>1, <2>3, <3>1, TurnIs DEF Next1, Agree, Denied, Asked,
           AskedNoneAndWentOn, Fits, Met, Due, IsTurn, Sent, svVars, Early, Settled, Choosing
      <3>4. FormatInv'
        BY <1>3, <2>1, <2>3, <3>1 DEF Next1, FormatInv
      <3> QED  BY <1>1, <1>2, <2>1, <3>1, <3>2, <3>3, <3>4, StreamKept DEF Places, Reading,
                  Writing
    <2>4. CASE pc = "reasonText"
      BY <1>5, <2>4, GivenUp DEF AfterNothing, Finish, Heard, Alive, Places
    <2>5. CASE pc = "name"
      <3>1. /\ pc' \in Places /\ (pc' = "done") = (outcome' # "none") /\ mDefault' = mDefault
            /\ Alive' => /\ pc' = IF mSelectedVNCSecurityType = "Tight" THEN "capabilityCount" ELSE "quiet"
                         /\ mDefault.format \in ServerFormats \ BadFormats
            /\ mSelectedMethod' = mSelectedMethod
        BY <1>1, <1>3, <1>5, <2>5, AfterNameIs DEF AfterNothing, Next1
      <3>2. Alive' => Fits(b)'
        BY <1>1, <1>3, <2>1, <2>5, <3>1 DEF Next1, Fits, Met, Due, IsTurn, svVars, AfterNames,
           Silence
      <3>3. Alive' => Agree(b)'
        BY <1>1, <1>3, <2>1, <2>5, <3>1, TurnIs DEF Next1, Agree, Denied, Asked,
           AskedNoneAndWentOn, Fits, Met, Due, IsTurn, Sent, svVars, Early, Settled, Choosing
      <3>4. Alive' => FormatInv'
        BY <1>3, <2>1, <2>5, <3>1 DEF Next1, FormatInv
      <3> QED  BY <1>1, <1>2, <2>1, <3>1, <3>2, <3>3, <3>4, StreamKept
    <2> QED  BY <1>1, <2>2, <2>3, <2>4, <2>5
  <1> QED  BY <1>4, <1>5 DEF ReadNothing

-----------------------------------------------------------------------------
(* The server speaks *)

(* What the server says fits together and leads to what is next. *)
Spoken(known, turn, items, next, first) ==
    /\ items \in Seq(ServerItem)
    /\ Chained(known, Append(items, next))
    /\ \A i \in 1..Len(items) : Proper(known, turn, items[i])
    /\ first = Append(items, next)[1]

(* What the server says fits together if its parts do. *)
LEMMA SpokenNothing ==
    ASSUME NEW known, NEW turn, NEW next
    PROVE  Spoken(known, turn, <<>>, next, next)
  <1>1. Append(<<>>, next) = <<next>> /\ Len(<<next>>) = 1 /\ <<next>>[1] = next
    BY Appended
  <1>2. <<>> \in Seq(ServerItem) /\ Len(<<>>) = 0
    OBVIOUS
  <1>3. 1..1 - 1 = {} /\ 1..0 = {}
    OBVIOUS
  <1> QED  BY <1>1, <1>2, <1>3 DEF Spoken, Chained

LEMMA SpokenItem ==
    ASSUME NEW known, NEW turn, NEW item \in ServerItem, NEW next,
           Proper(known, turn, item), Then(known.version, known.type, item, next)
    PROVE  Spoken(known, turn, <<item>>, next, item)
  <1>1. PICK said : said = Append(<<item>>, next)
    OBVIOUS
  <1>2. said = <<item, next>>
    BY <1>1, Appended
  <1>3. Len(said) = 2 /\ said[1] = item /\ said[2] = next
    BY <1>2
  <1>4. Chained(known, said)
    BY <1>3 DEF Chained
  <1>5. <<item>> \in Seq(ServerItem) /\ Len(<<item>>) = 1 /\ <<item>>[1] = item
    OBVIOUS
  <1> QED  BY <1>1, <1>3, <1>4, <1>5 DEF Spoken

LEMMA SpokenJoined ==
    ASSUME NEW known, NEW turn, NEW before, NEW after, NEW next, NEW middle, NEW first,
           Spoken(known, turn, before, middle, first), Spoken(known, turn, after, next, middle)
    PROVE  Spoken(known, turn, before \o after, next, first)
  <1>1. before \in Seq(ServerItem) /\ after \in Seq(ServerItem)
    BY DEF Spoken
  <1>2. PICK m \in Nat, n \in Nat : m = Len(before) /\ n = Len(after)
    BY <1>1
  <1>3. PICK items : items = before \o after
    OBVIOUS
  <1>4. PICK all, one, two : /\ all = Append(items, next)
                             /\ one = Append(before, middle)
                             /\ two = Append(after, next)
    OBVIOUS
  <1>5. /\ items \in Seq(ServerItem) /\ Len(items) = m + n
        /\ \A i \in 1..m : items[i] = before[i]
        /\ \A i \in 1..n : items[m + i] = after[i]
    BY <1>1, <1>2, <1>3, ConcatProperties
  <1>6. /\ Len(one) = m + 1 /\ one[m + 1] = middle
        /\ \A i \in 1..m : one[i] = before[i]
    BY <1>1, <1>2, <1>4
  <1>7. /\ Len(two) = n + 1 /\ two[n + 1] = next
        /\ \A i \in 1..n : two[i] = after[i]
    BY <1>1, <1>2, <1>4
  <1>8. /\ Len(all) = m + n + 1 /\ all[m + n + 1] = next
        /\ \A i \in 1..m + n : all[i] = items[i]
    BY <1>4, <1>5
  <1>9. /\ Chained(known, one) /\ Chained(known, two) /\ first = one[1] /\ middle = two[1]
        /\ \A i \in 1..m : Proper(known, turn, before[i])
        /\ \A i \in 1..n : Proper(known, turn, after[i])
    BY <1>2, <1>4 DEF Spoken
  <1>10. \A i \in 1..n + 1 : all[m + i] = two[i]
    <2> SUFFICES ASSUME NEW i \in 1..n + 1  PROVE all[m + i] = two[i]
      OBVIOUS
    <2>1. CASE i \in 1..n
      BY <1>5, <1>7, <1>8, <2>1
    <2>2. CASE i = n + 1
      BY <1>7, <1>8, <2>2
    <2> QED  BY <2>1, <2>2
  <1>11. \A i \in 1..m + 1 : all[i] = one[i]
    <2> SUFFICES ASSUME NEW i \in 1..m + 1  PROVE all[i] = one[i]
      OBVIOUS
    <2>1. CASE i \in 1..m
      BY <1>5, <1>6, <1>8, <2>1
    <2>2. CASE i = m + 1
      <3>1. all[m + 1] = two[1]
        BY <1>10
      <3> QED  BY <1>6, <1>9, <2>2, <3>1
    <2> QED  BY <2>1, <2>2
  <1>12. Chained(known, all)
    <2>1. ASSUME NEW i \in 1..m + n  PROVE Then(known.version, known.type, all[i], all[i + 1])
      <3>1. CASE i \in 1..m
        BY <1>6, <1>9, <1>11, <3>1 DEF Chained
      <3>2. CASE i \in m + 1 .. m + n
        <4>1. PICK k \in 1..n : i = m + k
          <5>1. i - m \in 1..n /\ i = m + (i - m)
            BY <3>2
          <5> QED  BY <5>1
        <4>2. k \in 1..n + 1 /\ k + 1 \in 1..n + 1 /\ i + 1 = m + (k + 1)
          BY <4>1
        <4>3. all[i] = two[k] /\ all[i + 1] = two[k + 1]
          BY <1>10, <4>1, <4>2
        <4>4. Then(known.version, known.type, two[k], two[k + 1])
          BY <1>7, <1>9 DEF Chained
        <4> QED  BY <4>3, <4>4
      <3> QED  BY <3>1, <3>2
    <2> QED  BY <1>8, <2>1 DEF Chained
  <1>13. \A i \in 1..m + n : Proper(known, turn, items[i])
    <2> SUFFICES ASSUME NEW i \in 1..m + n  PROVE Proper(known, turn, items[i])
      OBVIOUS
    <2>1. CASE i \in 1..m
      BY <1>5, <1>9, <2>1
    <2>2. CASE i \in m + 1 .. m + n
      <3>1. PICK k \in 1..n : i = m + k
        <4>1. i - m \in 1..n /\ i = m + (i - m)
          BY <2>2
        <4> QED  BY <4>1
      <3> QED  BY <1>5, <1>9, <3>1
    <2> QED  BY <2>1, <2>2
  <1>14. first = all[1]
    BY <1>9, <1>11
  <1> QED  BY <1>3, <1>4, <1>5, <1>12, <1>13, <1>14 DEF Spoken

(* A turn of the server is next only if nothing is on its way. *)
LEMMA TurnFirst ==
    ASSUME HandshakeInv, Alive, Stream[1].kind = "turn"
    PROVE  inbound = <<>> /\ wire = <<>> /\ Stream[1] = Turn /\ svTls = encrypted
  <1>1. StreamInv
    BY DEF HandshakeInv
  <1>2. PICK received, sent, turn : received = inbound /\ sent = wire /\ turn = Turn
    OBVIOUS
  <1>3. received \in Seq(ServerItem) /\ sent \in Seq(ServerItem)
    BY <1>1, <1>2 DEF StreamInv
  <1>4. PICK stream : stream = Append(received \o sent, turn)
    OBVIOUS
  <1>5. Len(stream) = Len(received) + Len(sent) + 1
    BY <1>3, <1>4, StreamIs
  <1>6. /\ \A i \in 1..Len(stream) - 1 : stream[i] \in ServerItem
        /\ stream[Len(stream)] = turn
    BY <1>3, <1>4, <1>5, StreamIs
  <1>7. stream = Stream
    BY <1>2, <1>4 DEF Stream, Coming
  <1>8. stream[1] \notin ServerItem
    BY <1>7 DEF ServerItem, Numbers, Lists
  <1>9. PICK m \in Nat, n \in Nat : m = Len(received) /\ n = Len(sent)
    BY <1>3
  <1>10. m = 0 /\ n = 0
    BY <1>5, <1>6, <1>8, <1>9
  <1>11. received = <<>> /\ sent = <<>>
    <2>1. Len(received) = 0 /\ Len(sent) = 0
      BY <1>9, <1>10
    <2> QED  BY <1>3, <2>1, EmptySeq
  <1> QED  BY <1>1, <1>2, <1>5, <1>6, <1>7, <1>9, <1>10, <1>11 DEF StreamInv

(* What is left to show of a step of the server: nothing was on its way,   *)
(* and what it says fits together and fits the place where the client is.  *)
LEMMA ServerSpeaks ==
    ASSUME HandshakeInv, Alive, Stream[1].kind = "turn",
           NEW items, NEW first, Spoken(Known', Turn', items, Turn', first),
           wire' = wire \o items, inbound' = inbound, svTls' = encrypted',
           pc' \in Places, (pc' = "done") = (outcome' # "none"),
           Alive' => Fits(first)', Alive' => Agree(first)', Alive' => FormatInv'
    PROVE  HandshakeInv'
  <1>1. inbound = <<>> /\ wire = <<>>
    BY TurnFirst
  <1>2. PICK turn, stream : turn = Turn' /\ stream = Append(items, turn)
    OBVIOUS
  <1>3. items \in Seq(ServerItem) /\ Spoken(Known', turn, items, turn, first)
    BY <1>2 DEF Spoken
  <1>4. <<>> \o items = items
    BY <1>3, ConcatEmptySeq
  <1>5. inbound' = <<>> /\ wire' = items
    BY <1>1, <1>4
  <1>6. Stream' = stream
    BY <1>2, <1>4, <1>5 DEF Stream, Coming
  <1>7. /\ Chained(Known', Stream') /\ Stream'[1] = first
        /\ \A i \in 1..Len(items) : Proper(Known', turn, items[i])
    BY <1>2, <1>3, <1>6 DEF Spoken
  <1>8. \A i \in 1..Len(Stream') : Proper(Known', Turn', Stream'[i])
    <2>1. /\ Len(stream) = Len(items) + 1 /\ stream[Len(items) + 1] = turn
          /\ \A i \in 1..Len(items) : stream[i] = items[i]
      BY <1>2, <1>3
    <2>2. Proper(Known', turn, turn)
      BY <1>2 DEF Proper, Denying, Tells, Turn
    <2>3. PICK m \in Nat : m = Len(items)
      BY <1>3
    <2> QED  BY <1>2, <1>6, <1>7, <2>1, <2>2, <2>3
  <1>9. <<>> \in Seq(ServerItem)
    OBVIOUS
  <1>10. Alive' => StreamInv'
    <2>1. Alive' => Fits(Stream[1])'
      BY <1>7
    <2> QED  BY <1>3, <1>5, <1>7, <1>8, <1>9, <2>1 DEF StreamInv
  <1>11. Alive' => ChoicesInv'
    BY <1>7 DEF ChoicesInv
  <1> QED  BY <1>10, <1>11 DEF HandshakeInv

(* The server's items. *)
LEMMA ItemIs ==
    ASSUME svTls \in BOOLEAN, NEW kind, NEW val
    PROVE  /\ Item(kind, val).kind = kind /\ Item(kind, val).val = val /\ Item(kind, val).tls = svTls
           /\ kind = "version" /\ val \in Announced => Item(kind, val) \in ServerItem
           /\ kind = "oldType" /\ val \in OldTypes \cup {"Invalid"} => Item(kind, val) \in ServerItem
           /\ kind \in Numbers /\ val \in Nat => Item(kind, val) \in ServerItem
           /\ kind \in Lists /\ val \in Seq(STRING) => Item(kind, val) \in ServerItem
           /\ kind = "serverInit" /\ val \in [nameLength : Nat, format : ServerFormats, size : Sizes] =>
                 Item(kind, val) \in ServerItem
  <1>1. PICK item : item = Item(kind, val)
    OBVIOUS
  <1>2. item = [kind |-> kind, val |-> val, tls |-> svTls]
    BY <1>1 DEF Item
  <1>3. kind = "version" /\ val \in Announced => item \in ServerItem
    BY <1>2 DEF ServerItem
  <1>4. kind = "oldType" /\ val \in OldTypes \cup {"Invalid"} => item \in ServerItem
    BY <1>2 DEF ServerItem
  <1>5. kind \in Numbers /\ val \in Nat => item \in ServerItem
    BY <1>2 DEF ServerItem
  <1>6. kind \in Lists /\ val \in Seq(STRING) => item \in ServerItem
    BY <1>2 DEF ServerItem
  <1>7. kind = "serverInit" /\ val \in [nameLength : Nat, format : ServerFormats, size : Sizes] =>
           item \in ServerItem
    BY <1>2 DEF ServerItem
  <1> QED  BY <1>1, <1>2, <1>3, <1>4, <1>5, <1>6, <1>7

(* A text that may have no length. *)
LEMMA TextSpoken ==
    ASSUME svTls \in BOOLEAN, NEW known, NEW turn, turn.tls = svTls,
           NEW kind \in {"reasonText", "name", "capabilities"}, NEW n \in Nat, NEW next,
           kind = "reasonText" => turn.val = "over",
           kind = "name" => AfterNames(known.type, next),
           kind = "capabilities" => Silence(next)
    PROVE  Spoken(known, turn, Text(kind, n), next, IF n = 0 THEN next ELSE Item(kind, n))
  <1>1. CASE n = 0
    <2>1. Text(kind, n) = <<>>
      BY <1>1 DEF Text
    <2> QED  BY <1>1, <2>1, SpokenNothing
  <1>2. CASE n # 0
    <2>1. PICK item : item = Item(kind, n)
      OBVIOUS
    <2>2. item.kind = kind /\ item.val = n /\ item.tls = svTls /\ item \in ServerItem
      BY <2>1, ItemIs DEF Numbers
    <2>3. Proper(known, turn, item)
      BY <2>2 DEF Proper, Denying, Tells
    <2>4. Then(known.version, known.type, item, next)
      BY <2>2 DEF Then
    <2>5. Text(kind, n) = <<item>>
      BY <1>2, <2>1 DEF Text
    <2> QED  BY <1>2, <2>1, <2>2, <2>3, <2>4, <2>5, SpokenItem
  <1> QED  BY <1>1, <1>2

(* A reason is its length and its text, after which the server is done. *)
LEMMA ReasonSpoken ==
    ASSUME svTls \in BOOLEAN, NEW known, NEW turn, turn.tls = svTls, NEW n \in Nat,
           IsTurn(turn, "over")
    PROVE  Spoken(known, turn, Reason(n), turn, Item("reasonLength", n))
  <1>1. PICK item, text, middle : /\ item = Item("reasonLength", n) /\ text = Text("reasonText", n)
                                  /\ middle = IF n = 0 THEN turn ELSE Item("reasonText", n)
    OBVIOUS
  <1>2. Spoken(known, turn, text, turn, middle)
    BY <1>1, TextSpoken DEF IsTurn
  <1>3. item.kind = "reasonLength" /\ item.val = n /\ item.tls = svTls /\ item \in ServerItem
    BY <1>1, ItemIs DEF Numbers
  <1>4. Proper(known, turn, item)
    BY <1>3 DEF Proper, Denying, Tells, IsTurn
  <1>5. Then(known.version, known.type, item, middle)
    <2>1. n # 0 => middle.kind = "reasonText"
      BY <1>1, ItemIs
    <2> QED  BY <1>1, <1>3, <2>1 DEF Then
  <1>6. Spoken(known, turn, <<item>>, middle, item)
    BY <1>3, <1>4, <1>5, SpokenItem
  <1>7. Reason(n) = <<item>> \o text
    BY <1>1 DEF Reason
  <1> QED  BY <1>1, <1>2, <1>6, <1>7, SpokenJoined

(* A list of a Tight server is its length and, if there are any, its       *)
(* entries.                                                                *)
LEMMA ListedSpoken ==
    ASSUME svTls \in BOOLEAN, NEW known, NEW turn, turn.tls = svTls, NEW list \in Seq(STRING), NEW next,
           NEW count, NEW kind,
           \/ count = "tunnelCount" /\ kind = "tunnels"
           \/ count = "authCount" /\ kind = "auths",
           list = <<>> => Then(known.version, known.type, Item(count, 0), next),
           list # <<>> => Then(known.version, known.type, Item(kind, list), next)
    PROVE  Spoken(known, turn, Listed(count, kind, list), next, Item(count, Len(list)))
  <1>1. PICK item, all : item = Item(count, Len(list)) /\ all = Item(kind, list)
    OBVIOUS
  <1>2. PICK n \in Nat : n = Len(list)
    OBVIOUS
  <1>3. item.kind = count /\ item.val = n /\ item.tls = svTls /\ item \in ServerItem
    BY <1>1, <1>2, ItemIs DEF Numbers
  <1>4. all.kind = kind /\ all.val = list /\ all.tls = svTls /\ all \in ServerItem
    BY <1>1, ItemIs DEF Lists
  <1>5. Proper(known, turn, item) /\ Proper(known, turn, all)
    BY <1>3, <1>4 DEF Proper, Denying, Tells
  <1>6. CASE list = <<>>
    <2>1. n = 0
      BY <1>2, <1>6
    <2>2. Spoken(known, turn, <<item>>, next, item)
      BY <1>1, <1>2, <1>3, <1>5, <1>6, <2>1, SpokenItem
    <2>3. Listed(count, kind, list) = <<item>> \o <<>>
      BY <1>1, <1>6 DEF Listed
    <2>4. Spoken(known, turn, <<>>, next, next)
      BY SpokenNothing
    <2> QED  BY <1>1, <2>2, <2>3, <2>4, SpokenJoined
  <1>7. CASE list # <<>>
    <2>1. n # 0
      BY <1>2, <1>7, EmptySeq
    <2>2. Spoken(known, turn, <<all>>, next, all)
      BY <1>1, <1>4, <1>5, <1>7, SpokenItem
    <2>3. Then(known.version, known.type, item, all)
      BY <1>3, <1>4, <2>1 DEF Then
    <2>4. Spoken(known, turn, <<item>>, all, item)
      BY <1>3, <1>5, <2>3, SpokenItem
    <2>5. Listed(count, kind, list) = <<item>> \o <<all>>
      BY <1>1, <1>7 DEF Listed
    <2> QED  BY <1>1, <2>2, <2>4, <2>5, SpokenJoined
  <1> QED  BY <1>6, <1>7

(* The lists of a server are lists of names. *)
LEMMA ListsAre ==
    /\ OrEmpty(AuthLists) \subseteq Seq(STRING) /\ OrEmpty(TunnelLists) \subseteq Seq(STRING)
    /\ TypeLists \subseteq Seq(STRING) /\ SubTypeLists \subseteq Seq(STRING)
  <1>1. <<>> \in Seq(STRING)
    OBVIOUS
  <1>2. /\ AuthLists \subseteq Seq(STRING) /\ TunnelLists \subseteq Seq(STRING)
        /\ TypeLists \subseteq Seq(STRING) /\ SubTypeLists \subseteq Seq(STRING)
    BY ServerAssumption
  <1> QED  BY <1>1, <1>2 DEF OrEmpty

(* How an authentication ends for the server. *)
Judged(method, first) ==
    /\ sv' \in {"clientInit", "over"}
    /\ sv' = "clientInit" => svVerdict' = "accepted"
    /\ \/ first = Turn' /\ sv' = "clientInit" /\ method = "None" /\ svVersion' < 8
       \/ first.kind = "result" /\ ~(method = "None" /\ svVersion' < 8)

(* What the client hears at the end of an authentication. *)
LEMMA JudgeSpeaks ==
    ASSUME svTls \in BOOLEAN, svTls' = svTls, wire = <<>>,
           NEW method, NEW before \in Seq(ServerItem), Judge(method, before)
    PROVE  \E said, first : /\ wire' = before \o said
                            /\ Spoken(Known', Turn', said, Turn', first)
                            /\ Judged(method, first)
  <1>1. PICK known, turn : known = Known' /\ turn = Turn'
    OBVIOUS
  <1>2. /\ turn.kind = "turn" /\ turn.val = sv' /\ turn.tls = svTls
        /\ known.version = svVersion' /\ known.type = svType' /\ known.verdict = svVerdict'
    BY <1>1 DEF Turn, Known
  <1>3. ASSUME NEW x  PROVE wire \o x = <<>> \o x
    OBVIOUS
  <1>4. CASE method = "None" /\ svVersion' < 8
    <2>1. wire' = wire \o before /\ sv' = "clientInit" /\ svVerdict' = "accepted"
      BY <1>4 DEF Judge, Say
    <2>2. wire' = before \o <<>>
      BY <2>1, ConcatEmptySeq
    <2>3. Spoken(known, turn, <<>>, turn, turn)
      BY SpokenNothing
    <2>4. Judged(method, turn)
      BY <1>1, <1>4, <2>1 DEF Judged
    <2> QED  BY <1>1, <2>2, <2>3, <2>4
  <1>5. ASSUME ~(method = "None" /\ svVersion' < 8)
        PROVE  \E said, first : /\ wire' = before \o said
                                /\ Spoken(known, turn, said, turn, first)
                                /\ Judged(method, first)
    <2>1. PICK r \in Results :
            CASE r = 0 -> /\ Say(before \o <<Item("result", 0)>>, "clientInit")
                          /\ svVerdict' = "accepted" /\ UNCHANGED link
              [] r = 1 /\ svVersion' >= 8 -> Reject(before \o <<Item("result", 1)>>, "refused")
              [] r = 2 /\ svType' # "Tight" -> FALSE
              [] OTHER -> /\ Say(before \o <<Item("result", r)>>, "over")
                          /\ svVerdict' = "refused" /\ link' = "closed"
      BY <1>5 DEF Judge
    <2>2. PICK item : item = Item("result", r)
      OBVIOUS
    <2>3. r \in Nat /\ item.kind = "result" /\ item.val = r /\ item.tls = svTls /\ item \in ServerItem
      BY <2>2, ServerAssumption, ItemIs DEF Numbers
    <2>4. before \o <<item>> \in Seq(ServerItem) /\ <<item>> \in Seq(ServerItem)
      BY <2>3
    <2>5. CASE r = 1 /\ svVersion' >= 8
      <3>1. Reject(before \o <<item>>, "refused")
        BY <2>1, <2>2, <2>5
      <3>2. PICK n \in TextLengths : wire' = wire \o (before \o <<item>>) \o Reason(n)
        BY <3>1 DEF Reject
      <3>3. n \in Nat /\ sv' = "over" /\ svVerdict' = "refused"
        BY <3>1, ServerAssumption DEF Reject
      <3>4. PICK reason, length : reason = Reason(n) /\ length = Item("reasonLength", n)
        OBVIOUS
      <3>5. Spoken(known, turn, reason, turn, length)
        BY <1>2, <3>3, <3>4, ReasonSpoken DEF IsTurn
      <3>6. length.kind = "reasonLength"
        BY <3>4, ItemIs
      <3>7. Spoken(known, turn, <<item>>, length, item)
        <4>1. Proper(known, turn, item)
          BY <1>2, <2>3, <2>5, <3>3 DEF Proper, Denying, Tells
        <4>2. Then(known.version, known.type, item, length)
          BY <2>3, <2>5, <3>6 DEF Then
        <4> QED  BY <2>3, <4>1, <4>2, SpokenItem
      <3>8. Spoken(known, turn, <<item>> \o reason, turn, item)
        BY <3>5, <3>7, SpokenJoined
      <3>9. wire' = before \o (<<item>> \o reason)
        <4>1. wire \o (before \o <<item>>) = before \o <<item>>
          BY <2>4, ConcatEmptySeq
        <4>2. reason \in Seq(ServerItem)
          BY <3>5 DEF Spoken
        <4> QED  BY <2>4, <3>2, <3>4, <4>1, <4>2, ConcatAssociative
      <3>10. Judged(method, item)
        BY <1>5, <2>3, <3>3 DEF Judged
      <3> QED  BY <3>8, <3>9, <3>10
    <2>6. CASE ~(r = 1 /\ svVersion' >= 8)
      <3>1. \/ r = 0 /\ Say(before \o <<item>>, "clientInit") /\ svVerdict' = "accepted"
            \/ /\ r # 0 /\ (r = 2 => svType' = "Tight")
               /\ Say(before \o <<item>>, "over") /\ svVerdict' = "refused"
        BY <2>1, <2>2, <2>6
      <3>2. /\ wire' = wire \o (before \o <<item>>) /\ sv' \in {"clientInit", "over"}
            /\ r = 0 => sv' = "clientInit"
            /\ sv' = "clientInit" => svVerdict' = "accepted"
            /\ r # 0 => svVerdict' = "refused"
            /\ r = 2 => svType' = "Tight"
        BY <3>1 DEF Say
      <3>3. wire' = before \o <<item>>
        BY <2>4, <3>2, ConcatEmptySeq
      <3>4. Proper(known, turn, item)
        BY <1>2, <2>3, <3>2 DEF Proper, Denying, Tells
      <3>5. Then(known.version, known.type, item, turn)
        BY <1>2, <2>3, <2>6, <3>2 DEF Then, IsTurn
      <3>6. Spoken(known, turn, <<item>>, turn, item)
        BY <2>3, <3>4, <3>5, SpokenItem
      <3>7. Judged(method, item)
        BY <1>5, <2>3, <3>2 DEF Judged
      <3> QED  BY <3>3, <3>6, <3>7
    <2> QED  BY <2>5, <2>6
  <1> QED  BY <1>1, <1>4, <1>5

(* How an authentication goes on for the server. *)
Answered(method, first) ==
    /\ svMethod' = method
    /\ \/ method = "None" /\ Judged("None", first)
       \/ method # "None" /\ first.kind = "challenge" /\ sv' = "response"

(* What the client hears when a method starts. *)
LEMMA AuthenticateSpeaks ==
    ASSUME svTls \in BOOLEAN, svTls' = svTls, wire = <<>>,
           NEW method, NEW before \in Seq(ServerItem), Authenticate(method, before)
    PROVE  \E said, first : /\ wire' = before \o said
                            /\ Spoken(Known', Turn', said, Turn', first)
                            /\ Answered(method, first)
  <1>1. CASE method = "None"
    <2>1. svMethod' = method /\ Judge("None", before)
      BY <1>1 DEF Authenticate
    <2>2. PICK said, first : /\ wire' = before \o said
                             /\ Spoken(Known', Turn', said, Turn', first)
                             /\ Judged("None", first)
      BY <2>1, JudgeSpeaks
    <2>3. Answered(method, first)
      BY <1>1, <2>1, <2>2 DEF Answered
    <2> QED  BY <2>2, <2>3
  <1>2. CASE method # "None"
    <2>1. PICK known, turn, item : known = Known' /\ turn = Turn' /\ item = Item("challenge", 0)
      OBVIOUS
    <2>2. wire' = wire \o (before \o <<item>>) /\ sv' = "response" /\ svMethod' = method
      BY <1>2, <2>1 DEF Authenticate, Say
    <2>3. item.kind = "challenge" /\ item.val = 0 /\ item.tls = svTls /\ item \in ServerItem
      BY <2>1, ItemIs DEF Numbers
    <2>4. turn.kind = "turn" /\ turn.val = "response" /\ turn.tls = svTls
      BY <2>1, <2>2 DEF Turn
    <2>5. Proper(known, turn, item) /\ Then(known.version, known.type, item, turn)
      BY <2>3, <2>4 DEF Proper, Denying, Tells, Then, IsTurn
    <2>6. Spoken(known, turn, <<item>>, turn, item)
      BY <2>3, <2>5, SpokenItem
    <2>7. wire' = before \o <<item>>
      <3>1. before \o <<item>> \in Seq(ServerItem)
        BY <2>3
      <3> QED  BY <2>2, <3>1, ConcatEmptySeq
    <2>8. Answered(method, item)
      BY <1>2, <2>2, <2>3 DEF Answered
    <2> QED  BY <2>1, <2>6, <2>7, <2>8
  <1> QED  BY <1>1, <1>2

(* How a Tight server goes on, once the tunnel is settled. *)
TightAnswered(first) ==
    /\ first.kind = "authCount"
    /\ sv' \in {"myAuth", "clientInit", "over"}
    /\ sv' = "clientInit" => svMethod' = "None" /\ svVerdict' = "accepted"

(* What the client hears after the tunnel. *)
LEMMA TightAuthSpeaks ==
    ASSUME svTls \in BOOLEAN, svTls' = svTls, wire = <<>>,
           NEW before \in Seq(ServerItem), TightAuth(before)
    PROVE  \E said, first : /\ wire' = before \o said
                            /\ Spoken(Known', Turn', said, Turn', first)
                            /\ TightAnswered(first)
  <1>1. PICK list \in OrEmpty(AuthLists) :
          IF list = <<>>
          THEN Authenticate("None", before \o Listed("authCount", "auths", list))
          ELSE /\ Say(before \o Listed("authCount", "auths", list), "myAuth")
               /\ UNCHANGED <<svMethod, svVerdict, link>>
    BY DEF TightAuth
  <1>2. list \in Seq(STRING)
    BY <1>1, ListsAre
  <1>3. PICK known, turn, items, count : /\ known = Known' /\ turn = Turn'
                                         /\ items = Listed("authCount", "auths", list)
                                         /\ count = Item("authCount", Len(list))
    OBVIOUS
  <1>4. turn.kind = "turn" /\ turn.val = sv' /\ turn.tls = svTls /\ known.version = svVersion'
    BY <1>3 DEF Turn, Known
  <1>5. count.kind = "authCount"
    BY <1>3, ItemIs
  <1>6. CASE list = <<>>
    <2>1. Authenticate("None", before \o items)
      BY <1>1, <1>3, <1>6
    <2>2. items \in Seq(ServerItem)
      <3>1. PICK n \in Nat : n = Len(list)
        BY <1>2
      <3>2. count \in ServerItem
        BY <1>3, <3>1, ItemIs DEF Numbers
      <3>3. items = <<count>> \o <<>>
        BY <1>3, <1>6 DEF Listed
      <3> QED  BY <3>2, <3>3
    <2>3. before \o items \in Seq(ServerItem)
      BY <2>2
    <2>4. PICK said, first : /\ wire' = (before \o items) \o said
                             /\ Spoken(Known', Turn', said, Turn', first)
                             /\ Answered("None", first)
      BY <2>1, <2>3, AuthenticateSpeaks
    <2>5. Then(known.version, known.type, Item("authCount", 0), first)
      <3>1. Item("authCount", 0).kind = "authCount" /\ Item("authCount", 0).val = 0
        BY ItemIs
      <3>2. IF svVersion' < 8 THEN IsTurn(first, "clientInit") ELSE first.kind = "result"
        BY <1>3, <1>4, <2>4 DEF Answered, Judged, IsTurn
      <3> QED  BY <1>4, <3>1, <3>2 DEF Then
    <2>6. Spoken(known, turn, items, first, count)
      BY <1>2, <1>3, <1>4, <1>6, <2>5, ListedSpoken
    <2>7. Spoken(known, turn, items \o said, turn, count)
      BY <1>3, <2>4, <2>6, SpokenJoined
    <2>8. wire' = before \o (items \o said)
      <3>1. said \in Seq(ServerItem)
        BY <2>4 DEF Spoken
      <3> QED  BY <2>2, <2>4, <3>1, ConcatAssociative
    <2>9. TightAnswered(count)
      BY <1>5, <2>4 DEF TightAnswered, Answered, Judged
    <2> QED  BY <1>3, <2>7, <2>8, <2>9
  <1>7. CASE list # <<>>
    <2>1. wire' = wire \o (before \o items) /\ sv' = "myAuth"
      BY <1>1, <1>3, <1>7 DEF Say
    <2>2. Then(known.version, known.type, Item("auths", list), turn)
      <3>1. Item("auths", list).kind = "auths"
        BY ItemIs
      <3> QED  BY <1>4, <2>1, <3>1 DEF Then, IsTurn
    <2>3. Spoken(known, turn, items, turn, count)
      BY <1>2, <1>3, <1>4, <1>7, <2>2, ListedSpoken
    <2>4. wire' = before \o items
      <3>1. before \o items \in Seq(ServerItem)
        BY <2>3 DEF Spoken
      <3> QED  BY <2>1, <3>1, ConcatEmptySeq
    <2>5. TightAnswered(count)
      BY <1>5, <2>1 DEF TightAnswered
    <2> QED  BY <1>3, <2>3, <2>4, <2>5
  <1> QED  BY <1>6, <1>7

-----------------------------------------------------------------------------
(* The server's steps *)

(* What the server takes is what the client has sent at its place. *)
LEMMA HearsAt ==
    ASSUME HandshakeInv, Alive, NEW kind, kind \notin {"myPixelFormat", "myEncodings", "over"}, Hears(kind),
           NEW b, b = Stream[1]
    PROVE  /\ Agree(b) /\ Fits(b) /\ FormatInv /\ b.kind = "turn" /\ IsTurn(b, sv) /\ pc \in Places \ {"myEncodings", "done"}
           /\ inbound = <<>> /\ wire = <<>> /\ svTls = encrypted /\ encrypted \in BOOLEAN
  <1>1. Next1(b)
    BY StreamHead
  <1>2. sv = kind /\ outbound # <<>> /\ Head(outbound).kind = kind
    BY DEF Hears
  <1>3. StreamInv
    BY DEF HandshakeInv
  <1>4. Denying(b) => sv = "over"
    <2>1. PICK stream : stream = Stream
      OBVIOUS
    <2>2. PICK received, sent, turn : received = inbound /\ sent = wire /\ turn = Turn
      OBVIOUS
    <2>3. received \in Seq(ServerItem) /\ sent \in Seq(ServerItem) /\ stream = Append(received \o sent, turn)
      BY <1>3, <2>1, <2>2 DEF StreamInv, Stream, Coming
    <2>4. Len(stream) \in Nat \ {0}
      BY <2>3, StreamIs
    <2>5. Proper(Known, Turn, stream[1])
      BY <1>3, <2>1, <2>4 DEF StreamInv
    <2> QED  BY <2>1, <2>5 DEF Proper, Turn
  <1>5. pc \notin {"myEncodings", "done"}
    BY <1>1, <1>2 DEF Next1, FormatInv, Told, End, Sent
  <1>6. pc \notin {"reasonLength", "reasonText"}
    <2>1. pc = "reasonLength" => Denying(b)
      BY <1>1 DEF Next1, Fits, Denying
    <2>2. pc = "reasonText" => Denying(b) \/ IsTurn(b, "over")
      BY <1>1 DEF Next1, Fits, Denying
    <2> QED  BY <1>1, <1>2, <1>4, <2>1, <2>2, TurnIs DEF Next1
  <1>7. b.kind = "turn"
    <2>1. ~(b.kind = "oldType" /\ b.val = "Invalid")
      BY <1>2, <1>4 DEF Denying
    <2>2. pc \in Places
      BY DEF HandshakeInv
    <2> QED  BY <1>1, <1>2, <1>5, <1>6, <2>1, <2>2 DEF Next1, Fits, Met, Due, IsTurn, Asked,
                AskedNoneAndWentOn, Places, Reading, Writing
  <1>8. inbound = <<>> /\ wire = <<>> /\ b = Turn /\ svTls = encrypted
    BY <1>7, TurnFirst
  <1> QED  BY <1>1, <1>5, <1>7, <1>8 DEF Next1, IsTurn, Turn, Agree, HandshakeInv

(* What is left to show of a step that answers the client. *)
LEMMA HeardKeeps ==
    ASSUME HandshakeInv, Alive, NEW kind, kind \notin {"myPixelFormat", "myEncodings", "over"}, Hears(kind),
           svTls' = svTls, UNCHANGED clientVars, NEW first, Fits(first)', Agree(first)',
           \E said : wire' = wire \o said /\ Spoken(Known', Turn', said, Turn', first)
    PROVE  HandshakeInv'
  <1>1. PICK b : b = Stream[1]
    OBVIOUS
  <1>2. /\ FormatInv /\ b.kind = "turn" /\ pc \in Places \ {"myEncodings", "done"} /\ svTls = encrypted
    BY <1>1, HearsAt
  <1>3. UNCHANGED <<inbound, pc, choices, formats, expected, encrypted, outcome>>
    BY DEF Hears, clientVars
  <1>4. pc' \in Places /\ (pc' = "done") = (outcome' # "none")
    BY <1>3 DEF HandshakeInv
  <1>5. FormatInv'
    BY <1>2, <1>3 DEF FormatInv, formats
  <1>6. PICK said : wire' = wire \o said /\ Spoken(Known', Turn', said, Turn', first)
    OBVIOUS
  <1>7. inbound' = inbound /\ svTls' = encrypted'
    BY <1>2, <1>3
  <1> QED  BY <1>1, <1>2, <1>4, <1>5, <1>6, <1>7, ServerSpeaks

(* What a client hears that is turned away. *)
LEMMA RejectSpeaks ==
    ASSUME svTls \in BOOLEAN, svTls' = svTls, wire = <<>>, NEW items, NEW verdict, Reject(items, verdict),
           NEW first,
           \A length : length.kind = "reasonLength" => Spoken(Known', Turn', items, length, first)
    PROVE  \E said : wire' = wire \o said /\ Spoken(Known', Turn', said, Turn', first)
  <1>1. PICK known, turn : known = Known' /\ turn = Turn'
    OBVIOUS
  <1>2. PICK n \in TextLengths : wire' = wire \o items \o Reason(n)
    BY DEF Reject
  <1>3. n \in Nat /\ sv' = "over"
    BY ServerAssumption DEF Reject
  <1>4. PICK reason, length : reason = Reason(n) /\ length = Item("reasonLength", n)
    OBVIOUS
  <1>5. Spoken(known, turn, reason, turn, length)
    BY <1>1, <1>3, <1>4, ReasonSpoken DEF IsTurn, Turn
  <1>6. Spoken(known, turn, items, length, first)
    BY <1>1, <1>4, ItemIs
  <1>7. Spoken(known, turn, items \o reason, turn, first)
    BY <1>5, <1>6, SpokenJoined
  <1>8. items \in Seq(ServerItem) /\ reason \in Seq(ServerItem)
    BY <1>5, <1>6 DEF Spoken
  <1>9. wire \o items = items /\ wire \o (items \o reason) = items \o reason
    BY <1>8, ConcatEmptySeq
  <1> QED  BY <1>1, <1>2, <1>4, <1>7, <1>9

(* One lemma for each step of the server. *)
LEMMA HangUpKeeps ==
    ASSUME HandshakeInv, Alive, HangUp, UNCHANGED clientVars
    PROVE  HandshakeInv'
  <1>1. PICK b : b = Stream[1]
    OBVIOUS
  <1>2. Next1(b)
    BY <1>1, StreamHead
  <1>3. /\ sv = "announce" /\ sv' = "over" /\ UNCHANGED <<wire, inbound, outbound, svTls, svVersion, svType, svMethod>>
        /\ UNCHANGED <<pc, choices, formats, expected, encrypted, outcome>>
    BY DEF HangUp, clientVars
  <1>4. pc = "version" /\ IsTurn(b, "announce")
    BY <1>2, <1>3 DEF Next1, Agree
  <1>5. inbound = <<>> /\ wire = <<>> /\ svTls = encrypted
    BY <1>1, <1>4, TurnFirst DEF IsTurn
  <1>6. PICK turn : turn = Turn'
    OBVIOUS
  <1>7. Spoken(Known', turn, <<>>, turn, turn)
    BY SpokenNothing
  <1>8. IsTurn(turn, "over") /\ turn.kind = "turn" /\ turn.val = "over"
    BY <1>3, <1>6 DEF Turn, IsTurn
  <1>9. Fits(turn)'
    BY <1>2, <1>3, <1>4, <1>8 DEF Next1, Fits, Met, Due, IsTurn
  <1>10. Agree(turn)'
    BY <1>2, <1>3, <1>4, <1>8 DEF Next1, Agree, Denied, Asked, AskedNoneAndWentOn, IsTurn,
       choices, Early, Settled, Choosing, Turns
  <1>11. FormatInv'
    BY <1>3, <1>4 DEF FormatInv
  <1>12. pc' \in Places /\ (pc' = "done") = (outcome' # "none")
    BY <1>3 DEF HandshakeInv
  <1>13. wire' = wire \o <<>>
    BY <1>3, <1>5
  <1> QED  BY <1>1, <1>3, <1>4, <1>5, <1>6, <1>7, <1>9, <1>10, <1>11, <1>12, <1>13, ServerSpeaks
              DEF IsTurn

LEMMA AnnounceKeeps ==
    ASSUME HandshakeInv, Alive, Announce, UNCHANGED clientVars
    PROVE  HandshakeInv'
  <1>1. PICK b : b = Stream[1]
    OBVIOUS
  <1>2. Next1(b)
    BY <1>1, StreamHead
  <1>3. /\ sv = "announce" /\ UNCHANGED <<inbound, outbound, svTls, svVersion, svType, svMethod>>
        /\ UNCHANGED <<pc, choices, formats, expected, encrypted, outcome>>
    BY DEF Announce, clientVars
  <1>4. pc = "version" /\ IsTurn(b, "announce")
    BY <1>2, <1>3 DEF Next1, Agree
  <1>5. inbound = <<>> /\ wire = <<>> /\ svTls = encrypted /\ svTls \in BOOLEAN
    BY <1>1, <1>2, <1>4, TurnFirst DEF IsTurn, Next1, Agree
  <1>6. PICK known, turn : known = Known' /\ turn = Turn'
    OBVIOUS
  <1>7. PICK v \in Announced :
          \/ Say(<<Item("version", v)>>, "myVersion")
          \/ v = <<3, 3>> /\ Reject(<<Item("version", v), Item("oldType", "Invalid")>>, "rejected")
    BY DEF Announce
  <1>8. PICK item, old : item = Item("version", v) /\ old = Item("oldType", "Invalid")
    OBVIOUS
  <1>9. /\ item.kind = "version" /\ item.val = v /\ item.tls = svTls /\ item \in ServerItem
        /\ old.kind = "oldType" /\ old.val = "Invalid" /\ old.tls = svTls /\ old \in ServerItem
    BY <1>5, <1>8, ItemIs
  <1>10. turn.kind = "turn" /\ turn.val = sv' /\ turn.tls = svTls /\ known.verdict = svVerdict'
    BY <1>3, <1>6 DEF Turn, Known
  <1>11. sv' \in {"myVersion", "over"} /\ \E said : wire' = wire \o said /\ Spoken(known, turn, said, turn, item)
    <2>1. CASE Say(<<item>>, "myVersion")
      <3>1. wire' = wire \o <<item>> /\ sv' = "myVersion"
        BY <2>1 DEF Say
      <3>2. Proper(known, turn, item) /\ Then(known.version, known.type, item, turn)
        BY <1>9, <1>10, <3>1 DEF Proper, Denying, Tells, Then, IsTurn
      <3>3. Spoken(known, turn, <<item>>, turn, item)
        BY <1>9, <3>2, SpokenItem
      <3> QED  BY <3>1, <3>3
    <2>2. CASE v = <<3, 3>> /\ Reject(<<item, old>>, "rejected")
      <3>1. sv' = "over" /\ svVerdict' = "rejected"
        BY <2>2 DEF Reject
      <3>2. Proper(known, turn, item) /\ Proper(known, turn, old)
        BY <1>9, <1>10, <3>1 DEF Proper, Denying, Tells
      <3>3. Then(known.version, known.type, item, old)
        BY <1>9, <2>2 DEF Then
      <3>4. Spoken(known, turn, <<item>>, old, item)
        BY <1>9, <3>2, <3>3, SpokenItem
      <3>5. ASSUME NEW length, length.kind = "reasonLength"
            PROVE  Spoken(known, turn, <<item, old>>, length, item)
        <4>1. Then(known.version, known.type, old, length)
          BY <1>9, <3>5 DEF Then
        <4>2. Spoken(known, turn, <<old>>, length, old)
          BY <1>9, <3>2, <4>1, SpokenItem
        <4>3. <<item, old>> = <<item>> \o <<old>>
          BY Paired
        <4> QED  BY <3>4, <4>2, <4>3, SpokenJoined
      <3>6. \E said : wire' = wire \o said /\ Spoken(Known', Turn', said, Turn', item)
        BY <1>3, <1>5, <1>6, <2>2, <3>5, RejectSpeaks
      <3> QED  BY <1>6, <3>1, <3>6
    <2> QED  BY <1>7, <1>8, <2>1, <2>2
  <1>12. PICK said : wire' = wire \o said /\ Spoken(Known', Turn', said, Turn', item)
    BY <1>6, <1>11
  <1>13. Fits(item)'
    BY <1>2, <1>3, <1>4, <1>9 DEF Next1, Fits, Met, Due, IsTurn
  <1>14. Agree(item)'
    BY <1>2, <1>3, <1>4, <1>9, <1>11 DEF Next1, Agree, Denied, Asked, AskedNoneAndWentOn,
       IsTurn, choices, Early, Settled, Choosing, Turns
  <1>15. FormatInv'
    BY <1>3, <1>4 DEF FormatInv
  <1>16. pc' \in Places /\ (pc' = "done") = (outcome' # "none")
    BY <1>3 DEF HandshakeInv
  <1>17. svTls' = encrypted'
    BY <1>3, <1>5
  <1> QED  BY <1>1, <1>3, <1>4, <1>12, <1>13, <1>14, <1>15, <1>16, <1>17, ServerSpeaks DEF
              IsTurn

LEMMA TakeVersionKeeps ==
    ASSUME HandshakeInv, Alive, TakeVersion, UNCHANGED clientVars
    PROVE  HandshakeInv'
  <1>1. PICK b : b = Stream[1]
    OBVIOUS
  <1>2. Hears("myVersion")
    BY DEF TakeVersion
  <1>3. /\ Agree(b) /\ Fits(b) /\ FormatInv /\ b.kind = "turn" /\ IsTurn(b, sv) /\ pc \in Places \ {"myEncodings", "done"}
        /\ inbound = <<>> /\ wire = <<>> /\ svTls = encrypted /\ encrypted \in BOOLEAN
    BY <1>1, <1>2, HearsAt
  <1>4. /\ sv = "myVersion" /\ outbound # <<>> /\ Head(outbound).kind = "myVersion" /\ outbound' = Tail(outbound)
        /\ svVersion' = Head(outbound).val /\ svTls' = svTls /\ inbound' = inbound
        /\ UNCHANGED <<pc, choices, formats, expected, encrypted, outcome>>
    BY <1>2 DEF Hears, TakeVersion, clientVars
  <1>5. pc \in {"oldType", "typeCount"} /\ outbound = <<Sent("myVersion", mSelectedProtocolVersion)>>
    <2>1. pc \in Places
      BY DEF HandshakeInv
    <2> QED  BY <1>3, <1>4, <2>1 DEF Fits, Met, Due, IsTurn, Asked, AskedNoneAndWentOn, Places,
                Reading, Writing, FormatInv, AfterNames, Silence
  <1>6. /\ outbound' = <<>> /\ svVersion' = mSelectedProtocolVersion
        /\ pc = "oldType" <=> mSelectedProtocolVersion = 3
    BY <1>3, <1>4, <1>5 DEF Sent, Fits
  <1>7. PICK known, turn : known = Known' /\ turn = Turn'
    OBVIOUS
  <1>8. /\ turn.kind = "turn" /\ turn.val = sv' /\ turn.tls = svTls
        /\ known.version = svVersion' /\ known.verdict = svVerdict' /\ known.offer = svOffer'
    BY <1>4, <1>7 DEF Turn, Known
  <1>11. ASSUME NEW first, Fits(first)', Agree(first)',
                \E said : wire' = wire \o said /\ Spoken(known, turn, said, turn, first)
         PROVE  HandshakeInv'
    BY <1>2, <1>4, <1>7, <1>11, HeardKeeps
  <1>12. CASE svVersion' = 3
    <2>1. pc = "oldType" /\ mSelectedProtocolVersion = 3
      BY <1>6, <1>12
    <2>2. PICK t \in OldTypes :
            /\ svType' = t
            /\ CASE t = "Invalid" -> /\ Reject(<<Item("oldType", t)>>, "rejected")
                                     /\ UNCHANGED svMethod
                 [] t \in {"None", "VNCAuthentication"} -> Authenticate(t, <<Item("oldType", t)>>)
                 [] OTHER -> /\ Say(<<Item("oldType", t)>>, "over")
                             /\ UNCHANGED <<svMethod, svVerdict, link>>
      BY <1>12 DEF TakeVersion
    <2>3. PICK item : item = Item("oldType", t)
      OBVIOUS
    <2>4. item.kind = "oldType" /\ item.val = t /\ item.tls = svTls /\ item \in ServerItem
      BY <1>3, <2>3, ItemIs
    <2>5. Fits(item)'
      BY <1>3, <1>4, <1>6, <2>1, <2>4 DEF Fits, Met, choices
    <2>6. CASE t = "Invalid"
      <3>1. Reject(<<item>>, "rejected")
        BY <2>2, <2>3, <2>6
      <3>2. sv' = "over" /\ svVerdict' = "rejected"
        BY <3>1 DEF Reject
      <3>3. ASSUME NEW length, length.kind = "reasonLength"
            PROVE  Spoken(Known', Turn', <<item>>, length, item)
        <4>1. Proper(known, turn, item) /\ Then(known.version, known.type, item, length)
          BY <1>8, <2>4, <2>6, <3>2, <3>3 DEF Proper, Denying, Tells, Then
        <4> QED  BY <1>7, <2>4, <4>1, SpokenItem
      <3>4. \E said : wire' = wire \o said /\ Spoken(Known', Turn', said, Turn', item)
        BY <1>3, <1>4, <3>1, <3>3, RejectSpeaks
      <3>5. Agree(item)'
        BY <1>3, <1>4, <1>6, <2>1, <2>2, <2>4, <3>2 DEF Agree, Denied, Asked,
           AskedNoneAndWentOn, IsTurn, choices, Early, Settled, Choosing, Turns
      <3> QED  BY <1>7, <1>11, <2>4, <2>5, <3>4, <3>5
    <2>7. CASE t \in {"None", "VNCAuthentication"}
      <3>1. Authenticate(t, <<item>>)
        BY <2>2, <2>3, <2>7
      <3>2. <<item>> \in Seq(ServerItem)
        BY <2>4
      <3>3. PICK said, first : /\ wire' = <<item>> \o said
                               /\ Spoken(known, turn, said, turn, first)
                               /\ Answered(t, first)
        BY <1>3, <1>4, <1>7, <3>1, <3>2, AuthenticateSpeaks
      <3>4. Then(known.version, known.type, item, first)
        BY <1>7, <1>8, <1>12, <2>4, <2>7, <3>3 DEF Then, Answered, Judged, IsTurn
      <3>5. Proper(known, turn, item)
        BY <1>8, <2>4, <2>7 DEF Proper, Denying, Tells
      <3>6. Spoken(known, turn, <<item>>, first, item)
        BY <2>4, <3>4, <3>5, SpokenItem
      <3>7. Spoken(known, turn, <<item>> \o said, turn, item)
        BY <3>3, <3>6, SpokenJoined
      <3>8. wire' = wire \o (<<item>> \o said)
        <4>1. <<item>> \o said \in Seq(ServerItem)
          BY <3>7 DEF Spoken
        <4> QED  BY <1>3, <3>3, <4>1, ConcatEmptySeq
      <3>9. Agree(item)'
        BY <1>3, <1>4, <1>6, <2>1, <2>2, <2>4, <2>7, <3>3 DEF Answered, Judged, Agree, Denied,
           Asked, AskedNoneAndWentOn, IsTurn, choices, Early, Settled, Choosing, Turns
      <3> QED  BY <1>11, <2>4, <2>5, <3>7, <3>8, <3>9
    <2>8. CASE t \notin {"Invalid", "None", "VNCAuthentication"}
      <3>1. Say(<<item>>, "over")
        BY <2>2, <2>3, <2>8
      <3>2. wire' = wire \o <<item>> /\ sv' = "over"
        BY <3>1 DEF Say
      <3>3. Proper(known, turn, item) /\ Then(known.version, known.type, item, turn)
        BY <1>8, <2>4, <2>8 DEF Proper, Denying, Tells, Then
      <3>4. Spoken(known, turn, <<item>>, turn, item)
        BY <2>4, <3>3, SpokenItem
      <3>5. Agree(item)'
        BY <1>3, <1>4, <1>6, <2>1, <2>2, <2>4, <2>8, <3>2 DEF Agree, Denied, Asked,
           AskedNoneAndWentOn, IsTurn, choices, Early, Settled, Choosing, Turns
      <3> QED  BY <1>11, <2>4, <2>5, <3>2, <3>4, <3>5
    <2> QED  BY <2>6, <2>7, <2>8
  <1>13. CASE svVersion' # 3
    <2>1. pc = "typeCount"
      BY <1>5, <1>6, <1>13
    <2>2. PICK list \in TypeLists :
            /\ svOffer' = list /\ UNCHANGED <<svType, svMethod>>
            /\ IF list = <<>>
               THEN Reject(<<Item("typeCount", 0)>>, "rejected")
               ELSE Say(<<Item("typeCount", Len(list)), Item("types", list)>>, "myType")
      BY <1>13 DEF TakeVersion
    <2>3. list \in Seq(STRING)
      BY <2>2, ListsAre
    <2>4. PICK n \in Nat : n = Len(list)
      BY <2>3
    <2>5. PICK count, types : count = Item("typeCount", n) /\ types = Item("types", list)
      OBVIOUS
    <2>6. /\ count.kind = "typeCount" /\ count.val = n /\ count.tls = svTls /\ count \in ServerItem
          /\ types.kind = "types" /\ types.val = list /\ types.tls = svTls /\ types \in ServerItem
      BY <1>3, <2>3, <2>5, ItemIs DEF Numbers, Lists
    <2>7. Fits(count)'
      BY <1>3, <1>4, <1>6, <2>1, <2>6 DEF Fits, Met, choices
    <2>8. sv' \in {"over", "myType"} /\ \E said : wire' = wire \o said /\ Spoken(known, turn, said, turn, count)
      <3>1. CASE list = <<>>
        <4>1. n = 0 /\ Reject(<<count>>, "rejected")
          BY <2>2, <2>4, <2>5, <3>1
        <4>2. sv' = "over" /\ svVerdict' = "rejected"
          BY <4>1 DEF Reject
        <4>3. ASSUME NEW length, length.kind = "reasonLength"
              PROVE  Spoken(Known', Turn', <<count>>, length, count)
          <5>1. Proper(known, turn, count) /\ Then(known.version, known.type, count, length)
            BY <1>8, <2>6, <4>1, <4>2, <4>3 DEF Proper, Denying, Tells, Then
          <5> QED  BY <1>7, <2>6, <5>1, SpokenItem
        <4>4. \E said : wire' = wire \o said /\ Spoken(Known', Turn', said, Turn', count)
          BY <1>3, <1>4, <4>1, <4>3, RejectSpeaks
        <4> QED  BY <1>7, <4>2, <4>4
      <3>2. CASE list # <<>>
        <4>1. n # 0
          BY <2>3, <2>4, <3>2, EmptySeq
        <4>2. wire' = wire \o <<count, types>> /\ sv' = "myType"
          BY <2>2, <2>4, <2>5, <3>2 DEF Say
        <4>3. Proper(known, turn, count) /\ Proper(known, turn, types)
          BY <1>8, <2>2, <2>6, <3>2, <4>1 DEF Proper, Denying, Tells
        <4>4. Then(known.version, known.type, count, types) /\ Then(known.version, known.type, types, turn)
          BY <1>8, <2>6, <4>1, <4>2 DEF Then, IsTurn
        <4>5. Spoken(known, turn, <<types>>, turn, types) /\ Spoken(known, turn, <<count>>, types, count)
          BY <2>6, <4>3, <4>4, SpokenItem
        <4>6. Spoken(known, turn, <<count>> \o <<types>>, turn, count)
          BY <4>5, SpokenJoined
        <4> QED  BY <4>2, <4>6, Paired
      <3> QED  BY <3>1, <3>2
    <2>9. Agree(count)'
      BY <1>3, <1>4, <1>6, <2>1, <2>2, <2>6, <2>8 DEF Agree, Denied, Asked, AskedNoneAndWentOn,
         IsTurn, choices, Early, Settled, Choosing, Turns
    <2> QED  BY <1>11, <2>6, <2>7, <2>8, <2>9
  <1> QED  BY <1>12, <1>13

LEMMA TakeTypeKeeps ==
    ASSUME HandshakeInv, Alive, TakeType, UNCHANGED clientVars
    PROVE  HandshakeInv'
  <1>1. PICK b : b = Stream[1]
    OBVIOUS
  <1>2. Hears("myType")
    BY DEF TakeType
  <1>3. /\ Agree(b) /\ Fits(b) /\ FormatInv /\ b.kind = "turn" /\ IsTurn(b, sv) /\ pc \in Places \ {"myEncodings", "done"}
        /\ inbound = <<>> /\ wire = <<>> /\ svTls = encrypted /\ encrypted \in BOOLEAN
    BY <1>1, <1>2, HearsAt
  <1>4. /\ sv = "myType" /\ outbound # <<>> /\ outbound' = Tail(outbound)
        /\ svType' = Head(outbound).val /\ svTls' = svTls /\ svVersion' = svVersion
        /\ UNCHANGED <<pc, choices, formats, expected, encrypted, outcome>>
    BY <1>2 DEF Hears, TakeType, clientVars
  <1>5. /\ svVersion' = mSelectedProtocolVersion /\ mSelectedProtocolVersion \in {3, 7, 8}
        /\ ~Denied(b)
    BY <1>3, <1>4 DEF Agree, Denied, Fits, Met, Due, IsTurn
  <1>6. \/ pc = "tunnelCount" /\ outbound = <<Sent("myType", "Tight")>>
        \/ pc = "tls" /\ outbound = <<Sent("myType", "AnonymousTLS")>>
        \/ pc = "vencrypt" /\ outbound = <<Sent("myType", "VeNCrypt")>>
        \/ /\ pc = "challenge" /\ outbound = <<Sent("myType", "VNCAuthentication")>>
           /\ mSelectedVNCSecurityType = "VNCAuthentication"
        \/ /\ pc = "result" /\ outbound = <<Sent("myType", "None")>>
           /\ mSelectedVNCSecurityType = "None" /\ mSelectedMethod = "None" /\ mSelectedProtocolVersion = 8
        \/ /\ pc = "clientInit" /\ outbound = <<Sent("myType", "None")>>
           /\ mSelectedVNCSecurityType = "None" /\ mSelectedMethod = "None" /\ mSelectedProtocolVersion < 8
        \/ /\ pc = "serverInit" /\ outbound = <<Sent("myType", "None"), Sent("clientInit", 0)>>
           /\ mSelectedVNCSecurityType = "None" /\ mSelectedMethod = "None" /\ mSelectedProtocolVersion < 8
    BY <1>3, <1>4, <1>5 DEF Fits, Met, Due, IsTurn, Asked, AskedNoneAndWentOn, Places, Reading,
       Writing, AfterNames, Silence, Agree, Denied
  <1>7. /\ svType' = mSelectedVNCSecurityType
        /\ outbound' = IF pc = "serverInit" THEN <<Sent("clientInit", 0)>> ELSE <<>>
        /\ pc = "challenge" => mSelectedMethod = "VNCAuthentication"
    <2>1. Head(outbound) \in {Sent("myType", mSelectedVNCSecurityType)}
      BY <1>3, <1>6, TakenFrom DEF Agree
    <2>2. outbound' = IF pc = "serverInit" THEN <<Sent("clientInit", 0)>> ELSE <<>>
      BY <1>4, <1>6, TakenFrom
    <2>3. svType' = mSelectedVNCSecurityType
      BY <1>4, <2>1 DEF Sent
    <2>4. pc = "challenge" => mSelectedMethod = "VNCAuthentication"
      BY <1>3 DEF Agree
    <2> QED  BY <2>2, <2>3, <2>4
  <1>8. PICK known, turn : known = Known' /\ turn = Turn'
    OBVIOUS
  <1>9. /\ turn.kind = "turn" /\ turn.val = sv' /\ turn.tls = svTls
        /\ known.version = svVersion' /\ known.verdict = svVerdict' /\ known.offer = svOffer'
    BY <1>4, <1>8 DEF Turn, Known
  <1>10. ASSUME NEW first, Fits(first)', Agree(first)',
                \E said : wire' = wire \o said /\ Spoken(known, turn, said, turn, first)
         PROVE  HandshakeInv'
    BY <1>2, <1>4, <1>8, <1>10, HeardKeeps
  <1>11. <<>> \in Seq(ServerItem)
    OBVIOUS
  <1>12. CASE svType' \in {"None", "VNCAuthentication"}
    <2>1. Authenticate(svType', <<>>)
      BY <1>12 DEF TakeType
    <2>2. PICK said, first : /\ wire' = <<>> \o said
                             /\ Spoken(known, turn, said, turn, first)
                             /\ Answered(svType', first)
      BY <1>3, <1>4, <1>8, <1>11, <2>1, AuthenticateSpeaks
    <2>3. pc \in {"challenge", "result", "clientInit", "serverInit"} /\ mSelectedMethod = mSelectedVNCSecurityType
      BY <1>3, <1>6, <1>7, <1>12 DEF Agree
    <2>4. Fits(first)'
      <3>1. \/ pc = "challenge" /\ first.kind = "challenge"
            \/ pc = "result" /\ first.kind = "result"
            \/ pc = "clientInit" /\ IsTurn(first, "clientInit")
            \/ pc = "serverInit" /\ IsTurn(first, "clientInit")
        BY <1>5, <1>6, <1>7, <1>8, <1>9, <2>2, <2>3 DEF Answered, Judged, IsTurn
      <3> QED  BY <1>4, <1>7, <3>1 DEF Fits, Met, Due, Sent
    <2>5. Agree(first)'
      BY <1>3, <1>4, <1>5, <1>6, <1>7, <1>8, <1>9, <1>12, <2>2, <2>3 DEF Answered, Judged,
         Agree, Denied, Asked, AskedNoneAndWentOn, IsTurn, choices, Early, Settled, Choosing,
         Turns
    <2> QED  BY <1>3, <1>10, <2>2, <2>4, <2>5
  <1>13. CASE svType' = "Tight"
    <2>1. PICK list \in OrEmpty(TunnelLists) :
            IF list = <<>>
            THEN TightAuth(Listed("tunnelCount", "tunnels", list))
            ELSE /\ Say(Listed("tunnelCount", "tunnels", list), "myTunnel")
                 /\ UNCHANGED <<svOffer, svMethod, svVerdict, link>>
      BY <1>13 DEF TakeType
    <2>2. list \in Seq(STRING)
      BY <2>1, ListsAre
    <2>3. PICK items, count : /\ items = Listed("tunnelCount", "tunnels", list)
                              /\ count = Item("tunnelCount", Len(list))
      OBVIOUS
    <2>4. count.kind = "tunnelCount"
      BY <1>3, <2>3, ItemIs
    <2>5. pc = "tunnelCount" /\ outbound' = <<>>
      BY <1>3, <1>6, <1>7, <1>13 DEF Agree
    <2>6. Fits(count)'
      BY <1>4, <2>4, <2>5 DEF Fits, Met
    <2>7. CASE list = <<>>
      <3>1. items \in Seq(ServerItem)
        <4>1. PICK n \in Nat : n = Len(list)
          BY <2>2
        <4>2. count \in ServerItem
          BY <1>3, <2>3, <4>1, ItemIs DEF Numbers
        <4>3. items = <<count>> \o <<>>
          BY <2>3, <2>7 DEF Listed
        <4> QED  BY <4>2, <4>3
      <3>2. PICK said, first : /\ wire' = items \o said
                               /\ Spoken(known, turn, said, turn, first)
                               /\ TightAnswered(first)
        BY <1>3, <1>4, <1>8, <2>1, <2>3, <2>7, <3>1, TightAuthSpeaks
      <3>3. Then(known.version, known.type, Item("tunnelCount", 0), first)
        BY <1>3, <3>2, ItemIs DEF Then, TightAnswered
      <3>4. Spoken(known, turn, items, first, count)
        BY <1>3, <1>9, <2>2, <2>3, <2>7, <3>3, ListedSpoken
      <3>5. Spoken(known, turn, items \o said, turn, count)
        BY <3>2, <3>4, SpokenJoined
      <3>6. wire' = wire \o (items \o said)
        <4>1. items \o said \in Seq(ServerItem)
          BY <3>5 DEF Spoken
        <4> QED  BY <1>3, <3>2, <4>1, ConcatEmptySeq
      <3>7. Agree(count)'
        BY <1>3, <1>4, <1>5, <1>7, <2>4, <2>5, <3>2 DEF TightAnswered, Agree, Denied, Asked,
           AskedNoneAndWentOn, IsTurn, choices, Early, Settled, Choosing, Turns
      <3> QED  BY <1>10, <2>6, <3>5, <3>6, <3>7
    <2>8. CASE list # <<>>
      <3>1. wire' = wire \o items /\ sv' = "myTunnel" /\ svMethod' = svMethod
        BY <2>1, <2>3, <2>8 DEF Say
      <3>2. Then(known.version, known.type, Item("tunnels", list), turn)
        BY <1>3, <1>9, <3>1, ItemIs DEF Then, IsTurn
      <3>3. Spoken(known, turn, items, turn, count)
        BY <1>3, <1>9, <2>2, <2>3, <2>8, <3>2, ListedSpoken
      <3>4. Agree(count)'
        BY <1>3, <1>4, <1>5, <1>7, <2>4, <2>5, <3>1 DEF Agree, Denied, Asked,
           AskedNoneAndWentOn, IsTurn, choices, Early, Settled, Choosing, Turns
      <3> QED  BY <1>10, <2>6, <3>1, <3>3, <3>4
    <2> QED  BY <2>7, <2>8
  <1>14. CASE svType' \notin {"None", "VNCAuthentication", "Tight"}
    <2>1. wire' = wire \o <<>> /\ sv' = "tls" /\ svMethod' = svMethod
      BY <1>14 DEF TakeType, Say
    <2>2. Spoken(known, turn, <<>>, turn, turn)
      BY SpokenNothing
    <2>3. pc \in {"tls", "vencrypt"} /\ outbound' = <<>>
      BY <1>3, <1>6, <1>7, <1>14 DEF Agree
    <2>4. Fits(turn)'
      BY <1>4, <1>9, <2>1, <2>3 DEF Fits, Due, IsTurn
    <2>5. Agree(turn)'
      BY <1>3, <1>4, <1>5, <1>7, <1>9, <2>1, <2>3 DEF Agree, Denied, Asked, AskedNoneAndWentOn,
         IsTurn, choices, Early, Settled, Choosing, Turns
    <2> QED  BY <1>10, <2>1, <2>2, <2>4, <2>5
  <1> QED  BY <1>12, <1>13, <1>14

LEMMA TakeTunnelKeeps ==
    ASSUME HandshakeInv, Alive, TakeTunnel, UNCHANGED clientVars
    PROVE  HandshakeInv'
  <1>1. PICK b : b = Stream[1]
    OBVIOUS
  <1>2. Hears("myTunnel")
    BY DEF TakeTunnel
  <1>3. /\ Agree(b) /\ Fits(b) /\ FormatInv /\ b.kind = "turn" /\ IsTurn(b, sv) /\ pc \in Places \ {"myEncodings", "done"}
        /\ inbound = <<>> /\ wire = <<>> /\ svTls = encrypted /\ encrypted \in BOOLEAN
    BY <1>1, <1>2, HearsAt
  <1>4. /\ sv = "myTunnel" /\ outbound # <<>> /\ outbound' = Tail(outbound)
        /\ UNCHANGED <<svType, svTls, svVersion>>
        /\ UNCHANGED <<pc, choices, formats, expected, encrypted, outcome>>
    BY <1>2 DEF Hears, TakeTunnel, clientVars
  <1>5. pc = "authCount" /\ outbound = <<Sent("myTunnel", "NOTUNNEL")>>
    BY <1>3, <1>4 DEF Fits, Met, Due, IsTurn, Asked, AskedNoneAndWentOn, Places, Reading,
       Writing, AfterNames, Silence
  <1>6. outbound' = <<>>
    BY <1>4, <1>5, TakenFrom
  <1>7. <<>> \in Seq(ServerItem)
    OBVIOUS
  <1>8. PICK said, first : /\ wire' = <<>> \o said
                           /\ Spoken(Known', Turn', said, Turn', first)
                           /\ TightAnswered(first)
    BY <1>3, <1>4, <1>7, TightAuthSpeaks DEF TakeTunnel
  <1>9. Fits(first)'
    BY <1>4, <1>5, <1>6, <1>8 DEF Fits, Met, TightAnswered
  <1>10. Agree(first)'
    BY <1>3, <1>4, <1>5, <1>6, <1>8 DEF TightAnswered, Agree, Denied, Asked, AskedNoneAndWentOn,
       IsTurn, choices, Early, Settled, Choosing, Turns
  <1> QED  BY <1>2, <1>3, <1>4, <1>8, <1>9, <1>10, HeardKeeps

LEMMA TakeMethodKeeps ==
    ASSUME HandshakeInv, Alive, TakeMethod, UNCHANGED clientVars
    PROVE  HandshakeInv'
  <1>1. PICK b : b = Stream[1]
    OBVIOUS
  <1>2. PICK kind \in {"myAuth", "mySubType"} : Hears(kind)
    BY DEF TakeMethod
  <1>3. /\ Agree(b) /\ Fits(b) /\ FormatInv /\ b.kind = "turn" /\ IsTurn(b, sv) /\ pc \in Places \ {"myEncodings", "done"}
        /\ inbound = <<>> /\ wire = <<>> /\ svTls = encrypted /\ encrypted \in BOOLEAN
    BY <1>1, <1>2, HearsAt
  <1>4. /\ sv = kind /\ outbound # <<>> /\ outbound' = Tail(outbound)
        /\ UNCHANGED <<svType, svTls, svVersion>>
        /\ UNCHANGED <<pc, choices, formats, expected, encrypted, outcome>>
        /\ Authenticate(Head(outbound).val, <<>>)
    BY <1>2 DEF Hears, TakeMethod, clientVars
  <1>5. mSelectedProtocolVersion \in {3, 7, 8} /\ ~Denied(b) /\ svVersion = mSelectedProtocolVersion
    BY <1>2, <1>3, <1>4 DEF Agree, Denied, Fits, Met, Due, IsTurn
  <1>6. \/ pc = "challenge" /\ outbound = <<Sent(kind, "VNCAuthentication")>>
        \/ /\ pc = "result" /\ outbound = <<Sent(kind, "None")>>
           /\ mSelectedMethod = "None" /\ mSelectedProtocolVersion = 8
        \/ /\ pc = "clientInit" /\ outbound = <<Sent(kind, "None")>>
           /\ mSelectedMethod = "None" /\ mSelectedProtocolVersion < 8
        \/ /\ pc = "serverInit" /\ outbound = <<Sent(kind, "None"), Sent("clientInit", 0)>>
           /\ mSelectedMethod = "None" /\ mSelectedProtocolVersion < 8
    BY <1>2, <1>3, <1>4, <1>5 DEF Fits, Met, Due, IsTurn, Asked, AskedNoneAndWentOn, Places,
       Reading, Writing, AfterNames, Silence, Agree, Denied
  <1>7. /\ Head(outbound).val = mSelectedMethod
        /\ outbound' = IF pc = "serverInit" THEN <<Sent("clientInit", 0)>> ELSE <<>>
        /\ pc = "challenge" => mSelectedMethod = "VNCAuthentication"
    <2>1. pc = "challenge" => mSelectedMethod = "VNCAuthentication"
      BY <1>3 DEF Agree
    <2>2. Head(outbound) \in {Sent(kind, mSelectedMethod)}
      BY <1>6, <2>1, TakenFrom
    <2>3. outbound' = IF pc = "serverInit" THEN <<Sent("clientInit", 0)>> ELSE <<>>
      BY <1>4, <1>6, TakenFrom
    <2>4. Head(outbound).val = mSelectedMethod
      BY <2>2 DEF Sent
    <2> QED  BY <2>1, <2>3, <2>4
  <1>8. <<>> \in Seq(ServerItem)
    OBVIOUS
  <1>9. PICK said, first : /\ wire' = <<>> \o said
                           /\ Spoken(Known', Turn', said, Turn', first)
                           /\ Answered(mSelectedMethod, first)
    BY <1>3, <1>4, <1>7, <1>8, AuthenticateSpeaks
  <1>10. Fits(first)'
    <2>1. \/ pc = "challenge" /\ first.kind = "challenge"
          \/ pc = "result" /\ first.kind = "result"
          \/ pc = "clientInit" /\ IsTurn(first, "clientInit")
          \/ pc = "serverInit" /\ IsTurn(first, "clientInit")
      BY <1>4, <1>5, <1>6, <1>7, <1>9 DEF Answered, Judged, IsTurn, Turn
    <2> QED  BY <1>4, <1>7, <2>1 DEF Fits, Met, Due, Sent
  <1>11. first.kind # "turn" \/ first = Turn'
    BY <1>9 DEF Answered, Judged
  <1>12. Agree(first)'
    BY <1>2, <1>3, <1>4, <1>5, <1>6, <1>7, <1>9, <1>11 DEF Turn, Answered, Judged, Agree,
       Denied, Asked, AskedNoneAndWentOn, IsTurn, choices, Early, Settled, Choosing, Turns
  <1> QED  BY <1>2, <1>3, <1>4, <1>9, <1>10, <1>12, HeardKeeps

LEMMA TakeResponseKeeps ==
    ASSUME HandshakeInv, Alive, TakeResponse, UNCHANGED clientVars
    PROVE  HandshakeInv'
  <1>1. PICK b : b = Stream[1]
    OBVIOUS
  <1>2. Hears("response")
    BY DEF TakeResponse
  <1>3. /\ Agree(b) /\ Fits(b) /\ FormatInv /\ b.kind = "turn" /\ IsTurn(b, sv) /\ pc \in Places \ {"myEncodings", "done"}
        /\ inbound = <<>> /\ wire = <<>> /\ svTls = encrypted /\ encrypted \in BOOLEAN
    BY <1>1, <1>2, HearsAt
  <1>4. /\ sv = "response" /\ outbound # <<>> /\ outbound' = Tail(outbound)
        /\ UNCHANGED <<svType, svTls, svVersion, svMethod>>
        /\ UNCHANGED <<pc, choices, formats, expected, encrypted, outcome>>
    BY <1>2 DEF Hears, TakeResponse, clientVars
  <1>5. pc = "result" /\ outbound = <<Sent("response", 0)>>
    BY <1>3, <1>4 DEF Fits, Met, Due, IsTurn, Asked, AskedNoneAndWentOn, Places, Reading,
       Writing, AfterNames, Silence
  <1>6. outbound' = <<>> /\ svMethod = "VNCAuthentication"
    BY <1>3, <1>4, <1>5, TakenFrom DEF Agree
  <1>7. <<>> \in Seq(ServerItem)
    OBVIOUS
  <1>8. PICK said, first : /\ wire' = <<>> \o said
                           /\ Spoken(Known', Turn', said, Turn', first)
                           /\ Judged("VNCAuthentication", first)
    BY <1>3, <1>4, <1>6, <1>7, JudgeSpeaks DEF TakeResponse
  <1>9. Fits(first)'
    BY <1>4, <1>5, <1>6, <1>8 DEF Fits, Met, Judged
  <1>10. Agree(first)'
    BY <1>3, <1>4, <1>5, <1>6, <1>8 DEF Judged, Agree, Denied, Asked, AskedNoneAndWentOn,
       IsTurn, choices, Early, Settled, Choosing, Turns
  <1> QED  BY <1>2, <1>3, <1>4, <1>8, <1>9, <1>10, HeardKeeps

LEMMA TakeClientInitKeeps ==
    ASSUME HandshakeInv, Alive, TakeClientInit, UNCHANGED clientVars
    PROVE  HandshakeInv'
  <1>1. PICK b : b = Stream[1]
    OBVIOUS
  <1>2. Hears("clientInit")
    BY DEF TakeClientInit
  <1>3. /\ Agree(b) /\ Fits(b) /\ FormatInv /\ b.kind = "turn" /\ IsTurn(b, sv) /\ pc \in Places \ {"myEncodings", "done"}
        /\ inbound = <<>> /\ wire = <<>> /\ svTls = encrypted /\ encrypted \in BOOLEAN
    BY <1>1, <1>2, HearsAt
  <1>4. /\ sv = "clientInit" /\ outbound # <<>> /\ outbound' = Tail(outbound) /\ sv' = "myPixelFormat"
        /\ UNCHANGED <<svType, svTls, svVersion, svMethod, svVerdict>>
        /\ UNCHANGED <<pc, choices, formats, expected, encrypted, outcome>>
    BY <1>2 DEF Hears, TakeClientInit, clientVars, Say
  <1>5. pc = "serverInit" /\ outbound = <<Sent("clientInit", 0)>>
    BY <1>3, <1>4 DEF Fits, Met, Due, IsTurn, Asked, AskedNoneAndWentOn, Places, Reading,
       Writing, AfterNames, Silence
  <1>6. outbound' = <<>>
    BY <1>4, <1>5, TakenFrom
  <1>7. PICK n \in NameLengths, format \in ServerFormats, size \in Sizes,
             early \in {FALSE, SpeaksFirst}, encodings \in EncodingCounts :
          wire' = wire \o (<<Item("serverInit", [nameLength |-> n, format |-> format, size |-> size])>>
                  \o Text("name", n)
                  \o (IF svType = "Tight" THEN Listing(encodings) ELSE <<>>)
                  \o (IF early THEN <<Item("message", 0)>> ELSE <<>>))
    BY DEF TakeClientInit, Say
  <1>8. n \in Nat /\ encodings \in Nat
    BY ServerAssumption DEF NameLengths
  <1>9. PICK known, turn, item, count, message :
          /\ known = Known' /\ turn = Turn' /\ count = Item("capabilityCount", encodings)
          /\ item = Item("serverInit", [nameLength |-> n, format |-> format, size |-> size])
          /\ message = Item("message", 0)
    OBVIOUS
  <1>10. /\ turn.kind = "turn" /\ turn.val = "myPixelFormat" /\ turn.tls = svTls
         /\ known.version = svVersion /\ known.type = svType
    BY <1>4, <1>9 DEF Turn, Known
  <1>11. /\ item.kind = "serverInit" /\ item.val.nameLength = n /\ item.tls = svTls /\ item \in ServerItem
         /\ count.kind = "capabilityCount" /\ count.val = encodings /\ count.tls = svTls /\ count \in ServerItem
         /\ message.kind = "message" /\ message.tls = svTls /\ message \in ServerItem
    <2>1. [nameLength |-> n, format |-> format, size |-> size]
             \in [nameLength : Nat, format : ServerFormats, size : Sizes]
      BY <1>8
    <2>2. item.kind = "serverInit" /\ item.val.nameLength = n /\ item.tls = svTls /\ item \in ServerItem
      BY <1>3, <1>9, <2>1, ItemIs
    <2> QED  BY <1>3, <1>8, <1>9, <2>2, ItemIs DEF Numbers
  <1>12. PICK messages, names, lists : /\ messages = IF early THEN <<message>> ELSE <<>>
                                       /\ names = Text("name", n)
                                       /\ lists = IF svType = "Tight" THEN Listing(encodings) ELSE <<>>
    OBVIOUS
  <1>13. PICK last : last = IF early THEN message ELSE turn
    OBVIOUS
  <1>14. Silence(last) /\ Spoken(known, turn, messages, turn, last)
    <2>1. Proper(known, turn, message) /\ Then(known.version, known.type, message, turn)
      BY <1>10, <1>11 DEF Proper, Denying, Tells, Then
    <2>2. Spoken(known, turn, <<message>>, turn, message)
      BY <1>11, <2>1, SpokenItem
    <2>3. Spoken(known, turn, <<>>, turn, turn)
      BY SpokenNothing
    <2>4. Silence(message) /\ Silence(turn)
      BY <1>10, <1>11 DEF Silence, IsTurn
    <2> QED  BY <1>12, <1>13, <2>2, <2>3, <2>4
  <1>15. PICK after : after = IF svType = "Tight" THEN count ELSE last
    OBVIOUS
  <1>16. AfterNames(known.type, after) /\ Spoken(known, turn, lists, last, after)
    <2>1. CASE svType = "Tight"
      <3>1. PICK capabilities, first : /\ capabilities = Text("capabilities", encodings)
                                       /\ first = IF encodings = 0 THEN last ELSE Item("capabilities", encodings)
        OBVIOUS
      <3>2. Spoken(known, turn, capabilities, last, first)
        BY <1>3, <1>8, <1>10, <1>14, <3>1, TextSpoken
      <3>3. Proper(known, turn, count)
        BY <1>10, <1>11 DEF Proper, Denying, Tells
      <3>4. Then(known.version, known.type, count, first)
        <4>1. encodings # 0 => first.kind = "capabilities"
          BY <1>3, <3>1, ItemIs
        <4> QED  BY <1>11, <1>14, <3>1, <4>1 DEF Then
      <3>5. Spoken(known, turn, <<count>>, first, count)
        BY <1>11, <3>3, <3>4, SpokenItem
      <3>6. lists = <<count>> \o capabilities
        BY <1>9, <1>12, <2>1, <3>1 DEF Listing
      <3>7. AfterNames(known.type, after)
        BY <1>10, <1>11, <1>15, <2>1 DEF AfterNames
      <3> QED  BY <1>15, <2>1, <3>2, <3>5, <3>6, <3>7, SpokenJoined
    <2>2. CASE svType # "Tight"
      <3>1. Spoken(known, turn, <<>>, last, last)
        BY SpokenNothing
      <3> QED  BY <1>10, <1>12, <1>14, <1>15, <2>2, <3>1 DEF AfterNames
    <2> QED  BY <2>1, <2>2
  <1>17. PICK name : name = IF n = 0 THEN after ELSE Item("name", n)
    OBVIOUS
  <1>18. Spoken(known, turn, names, after, name)
    BY <1>3, <1>8, <1>10, <1>12, <1>16, <1>17, TextSpoken
  <1>19. Spoken(known, turn, <<item>>, name, item)
    <2>1. Proper(known, turn, item)
      BY <1>10, <1>11 DEF Proper, Denying, Tells
    <2>2. Then(known.version, known.type, item, name)
      <3>1. n # 0 => name.kind = "name"
        BY <1>3, <1>17, ItemIs
      <3> QED  BY <1>11, <1>16, <1>17, <3>1 DEF Then
    <2> QED  BY <1>11, <2>1, <2>2, SpokenItem
  <1>20. PICK said : said = <<item>> \o names \o lists \o messages
    OBVIOUS
  <1>21. wire' = wire \o said
    BY <1>7, <1>9, <1>12, <1>20
  <1>22. Spoken(known, turn, said, turn, item)
    <2>1. Spoken(known, turn, <<item>> \o names, after, item)
      BY <1>18, <1>19, SpokenJoined
    <2>2. Spoken(known, turn, <<item>> \o names \o lists, last, item)
      BY <1>16, <2>1, SpokenJoined
    <2> QED  BY <1>14, <1>20, <2>2, SpokenJoined
  <1>23. Fits(item)'
    BY <1>4, <1>5, <1>6, <1>11 DEF Fits, Met
  <1>24. Agree(item)'
    BY <1>3, <1>4, <1>5, <1>6, <1>11 DEF Agree, Denied, Asked, AskedNoneAndWentOn, IsTurn,
       choices, Early, Settled, Choosing, Turns
  <1> QED  BY <1>2, <1>4, <1>9, <1>21, <1>22, <1>23, <1>24, HeardKeeps

(* A client that has told its format has read all of the handshake. *)
LEMMA LateStream ==
    ASSUME HandshakeInv, Alive, pc \in {"myEncodings", "done"}
    PROVE  /\ Coming \in Seq(ServerItem) /\ Len(Coming) \in {0, 1}
           /\ \A i \in 1..Len(Coming) : Coming[i].kind = "message" /\ Coming[i].tls = svTls
  <1>1. StreamInv
    BY DEF HandshakeInv
  <1>2. PICK received, sent, turn, coming :
          received = inbound /\ sent = wire /\ turn = Turn /\ coming = received \o sent
    OBVIOUS
  <1>3. received \in Seq(ServerItem) /\ sent \in Seq(ServerItem)
    BY <1>1, <1>2 DEF StreamInv
  <1>4. PICK stream : stream = Append(coming, turn)
    OBVIOUS
  <1>5. coming \in Seq(ServerItem) /\ Len(coming) = Len(received) + Len(sent)
    BY <1>2, <1>3, ConcatProperties
  <1>6. PICK m \in Nat : m = Len(coming)
    BY <1>5
  <1>7. /\ Len(stream) = m + 1 /\ stream[m + 1] = turn
        /\ \A i \in 1..m : stream[i] = coming[i] /\ coming[i] \in ServerItem
    BY <1>4, <1>5, <1>6
  <1>8. stream = Stream /\ coming = Coming
    BY <1>2, <1>4 DEF Stream, Coming
  <1>9. \A item \in ServerItem : item.kind # "turn"
    BY DEF ServerItem, Numbers, Lists
  <1>10. /\ stream[1].kind \in {"message", "turn"}
         /\ \A i \in 1..m + 1 : Proper(Known, Turn, stream[i])
         /\ \A i \in 1..m : Then(svVersion, svType, stream[i], stream[i + 1])
    <2>1. Fits(stream[1]) /\ Chained(Known, stream) /\ \A i \in 1..Len(stream) : Proper(Known, Turn, stream[i])
      BY <1>1, <1>8 DEF StreamInv
    <2>2. stream[1].kind \in {"message", "turn"}
      BY <2>1 DEF Fits
    <2>3. \A i \in 1..m : Then(svVersion, svType, stream[i], stream[i + 1])
      BY <1>7, <2>1 DEF Chained, Known
    <2> QED  BY <1>7, <2>1, <2>2, <2>3
  <1>11. CASE m = 0
    BY <1>5, <1>6, <1>8, <1>11
  <1>12. CASE m # 0
    <2>1. stream[1] = coming[1] /\ coming[1] \in ServerItem
      BY <1>7, <1>12
    <2>2. coming[1].kind = "message"
      BY <1>9, <1>10, <2>1
    <2>3. Then(svVersion, svType, coming[1], stream[2])
      BY <1>10, <1>12, <2>1
    <2>4. stream[2].kind = "turn"
      BY <2>2, <2>3 DEF Then
    <2>5. m = 1
      <3>1. m >= 2 => stream[2] \in ServerItem
        BY <1>7
      <3> QED  BY <1>9, <1>12, <2>4, <3>1
    <2>6. coming[1].tls = svTls
      <3>1. Proper(Known, Turn, stream[1])
        BY <1>10, <2>5
      <3> QED  BY <2>1, <3>1 DEF Proper, Turn
    <2> QED  BY <1>5, <1>6, <1>8, <2>2, <2>5, <2>6
  <1> QED  BY <1>11, <1>12

(* What is left to show of a step that hears the end of the handshake. *)
LEMMA LateKeeps ==
    ASSUME HandshakeInv, Alive, pc \in {"myEncodings", "done"}, UNCHANGED clientVars,
           UNCHANGED <<inbound, wire, svVersion, svType, svMethod, svOffer, svVerdict, svTls>>,
           sv \in {"myPixelFormat", "myEncodings"}, sv' \in {"myEncodings", "running"}, FormatInv'
    PROVE  HandshakeInv'
  <1>1. PICK a : a = Stream[1]
    OBVIOUS
  <1>2. Next1(a) /\ StreamInv
    BY <1>1, StreamHead DEF HandshakeInv
  <1>3. UNCHANGED <<pc, choices, formats, expected, encrypted, outcome>>
    BY DEF clientVars
  <1>4. PICK coming, turn, known, stream :
          coming = Coming /\ turn = Turn' /\ known = Known /\ stream = Append(coming, turn)
    OBVIOUS
  <1>5. /\ coming \in Seq(ServerItem) /\ Len(coming) \in {0, 1}
        /\ \A i \in 1..Len(coming) : coming[i].kind = "message" /\ coming[i].tls = svTls
    BY <1>4, LateStream
  <1>6. Known' = known /\ Stream' = stream
    BY <1>4 DEF Known, Stream, Coming
  <1>7. turn.kind = "turn" /\ turn.val = sv' /\ turn.tls = svTls
    BY <1>4 DEF Turn
  <1>8. /\ Len(stream) = Len(coming) + 1 /\ stream[Len(coming) + 1] = turn
        /\ \A i \in 1..Len(coming) : stream[i] = coming[i]
    BY <1>4, <1>5
  <1>9. Chained(known, stream)
    <2>1. \A i \in 1..Len(coming) : Then(known.version, known.type, stream[i], stream[i + 1])
      BY <1>5, <1>7, <1>8 DEF Then
    <2> QED  BY <1>5, <1>8, <2>1 DEF Chained
  <1>10. \A i \in 1..Len(stream) : Proper(known, turn, stream[i])
    <2>1. Proper(known, turn, turn)
      BY <1>7 DEF Proper, Denying, Tells
    <2>2. \A i \in 1..Len(coming) : Proper(known, turn, stream[i])
      BY <1>5, <1>7, <1>8 DEF Proper, Denying, Tells
    <2> QED  BY <1>5, <1>8, <2>1, <2>2
  <1>11. PICK b : b = stream[1]
    OBVIOUS
  <1>12. b.kind = "message" \/ b = turn
    BY <1>5, <1>8, <1>11
  <1>13. Fits(b)'
    BY <1>3, <1>7, <1>12 DEF Fits
  <1>14. Agree(b)'
    <2>1. b.kind \in {"message", "turn"} /\ (b.kind = "turn" => b.val \in {"myEncodings", "running"})
      BY <1>7, <1>12
    <2>2. svVerdict = "accepted" /\ svVersion = mSelectedProtocolVersion /\ svType = mSelectedVNCSecurityType
      BY <1>2, TurnIs DEF Next1, Agree, Denied, Settled, Early
    <2>3. svMethod = mSelectedMethod
      BY <1>2 DEF Next1, Agree, Denied, Settled, Choosing
    <2> QED  BY <1>2, <1>3, <2>1, <2>2, <2>3 DEF Next1, Agree, Denied, Asked,
                AskedNoneAndWentOn, IsTurn, choices, Early, Settled, Choosing, Turns
  <1>15. /\ pc' \in Places /\ (pc' = "done") = (outcome' # "none")
         /\ inbound' \in Seq(ServerItem) /\ wire' \in Seq(ServerItem) /\ svTls' = encrypted'
    BY <1>2, <1>3 DEF StreamInv, HandshakeInv
  <1>16. StreamInv'
    <2>1. Fits(Stream[1])'
      BY <1>6, <1>11, <1>13
    <2> QED  BY <1>4, <1>6, <1>9, <1>10, <1>15, <2>1 DEF StreamInv
  <1>17. ChoicesInv'
    BY <1>6, <1>11, <1>14 DEF ChoicesInv
  <1> QED  BY <1>15, <1>16, <1>17 DEF HandshakeInv

(* Only a client that has told its format is heard by a server that waits   *)
(* for it.                                                                 *)
LEMMA HearsLate ==
    ASSUME HandshakeInv, Alive, NEW kind \in {"myPixelFormat", "myEncodings"}, Hears(kind)
    PROVE  /\ pc \in {"myEncodings", "done"} /\ FormatInv
           /\ kind = "myPixelFormat" => outbound = IF pc = "done" THEN <<Told, End>> ELSE <<Told>>
           /\ kind = "myEncodings" => /\ pc = "done" /\ outbound = <<End>>
                                      /\ svFormat = writePixelFormat(mCurrentPixelFormat)
  <1>1. PICK b : b = Stream[1]
    OBVIOUS
  <1>2. Next1(b)
    BY <1>1, StreamHead
  <1>3. sv = kind /\ outbound # <<>> /\ Head(outbound).kind = kind
    BY DEF Hears
  <1>4. StreamInv
    BY DEF HandshakeInv
  <1>5. Denying(b) => sv = "over"
    <2>1. PICK stream : stream = Stream
      OBVIOUS
    <2>2. PICK received, sent, turn : received = inbound /\ sent = wire /\ turn = Turn
      OBVIOUS
    <2>3. received \in Seq(ServerItem) /\ sent \in Seq(ServerItem) /\ stream = Append(received \o sent, turn)
      BY <1>4, <2>1, <2>2 DEF StreamInv, Stream, Coming
    <2>4. Len(stream) \in Nat \ {0}
      BY <2>3, StreamIs
    <2>5. Proper(Known, Turn, stream[1])
      BY <1>4, <2>1, <2>4 DEF StreamInv
    <2> QED  BY <1>1, <2>1, <2>5 DEF Proper, Turn
  <1>6. pc \notin {"reasonLength", "reasonText"}
    <2>1. pc = "reasonLength" => Denying(b)
      BY <1>2 DEF Next1, Fits, Denying
    <2>2. pc = "reasonText" => Denying(b) \/ IsTurn(b, "over")
      BY <1>2 DEF Next1, Fits, Denying
    <2> QED  BY <1>2, <1>3, <1>5, <2>1, <2>2, TurnIs DEF Next1
  <1>7. pc \in {"myEncodings", "done"}
    <2>1. ~(b.kind = "oldType" /\ b.val = "Invalid")
      BY <1>3, <1>5 DEF Denying
    <2>2. pc \in Places
      BY DEF HandshakeInv
    <2>3. \A waitsFor : IsTurn(b, waitsFor) => waitsFor \in {"myPixelFormat", "myEncodings"}
      BY <1>2, <1>3, TurnIs DEF Next1
    <2> QED  BY <1>2, <1>3, <1>6, <2>1, <2>2, <2>3 DEF Next1, Fits, Met, Due, Asked,
                AskedNoneAndWentOn, Places, Reading, Writing
  <1> QED  BY <1>2, <1>3, <1>7 DEF Next1, FormatInv

LEMMA TakePixelFormatKeeps ==
    ASSUME HandshakeInv, Alive, TakePixelFormat, UNCHANGED clientVars
    PROVE  HandshakeInv'
  <1>1. Hears("myPixelFormat")
    BY DEF TakePixelFormat
  <1>2. /\ pc \in {"myEncodings", "done"} /\ FormatInv
        /\ outbound = IF pc = "done" THEN <<Told, End>> ELSE <<Told>>
    BY <1>1, HearsLate
  <1>3. /\ sv = "myPixelFormat" /\ sv' = "myEncodings" /\ outbound' = Tail(outbound)
        /\ svFormat' = Head(outbound).val /\ wire' = wire \o <<>>
        /\ UNCHANGED <<inbound, svVersion, svType, svMethod, svOffer, svVerdict, svTls>>
        /\ UNCHANGED <<pc, formats, encrypted>>
    BY <1>1 DEF TakePixelFormat, Hears, Say, clientVars
  <1>4. wire' = wire
    <2>1. wire \in Seq(ServerItem)
      BY DEF HandshakeInv, StreamInv
    <2> QED  BY <1>3, <2>1, ConcatEmptySeq
  <1>5. Head(outbound) = Told /\ outbound' = IF pc = "done" THEN <<End>> ELSE <<>>
    <2>1. PICK told, end : told = Told /\ end = End
      OBVIOUS
    <2>2. Head(outbound) = told /\ Tail(outbound) = IF pc = "done" THEN <<end>> ELSE <<>>
      BY <1>2, <2>1, TakenFrom
    <2> QED  BY <1>3, <2>1, <2>2
  <1>6. svFormat' = writePixelFormat(mCurrentPixelFormat) /\ End' = End
    BY <1>3, <1>5 DEF Told, End, Sent
  <1>7. FormatInv'
    BY <1>2, <1>3, <1>5, <1>6 DEF FormatInv, formats
  <1> QED  BY <1>2, <1>3, <1>4, <1>7, LateKeeps

LEMMA TakeEncodingsKeeps ==
    ASSUME HandshakeInv, Alive, TakeEncodings, UNCHANGED clientVars
    PROVE  HandshakeInv'
  <1>1. Hears("myEncodings")
    BY DEF TakeEncodings
  <1>2. /\ pc = "done" /\ FormatInv /\ outbound = <<End>>
        /\ svFormat = writePixelFormat(mCurrentPixelFormat)
    BY <1>1, HearsLate
  <1>3. /\ sv = "myEncodings" /\ sv' = "running" /\ outbound' = Tail(outbound)
        /\ wire' = wire \o <<>>
        /\ UNCHANGED <<inbound, svVersion, svType, svMethod, svOffer, svVerdict, svTls, svFormat>>
        /\ UNCHANGED <<pc, formats, encrypted>>
    BY <1>1 DEF TakeEncodings, Hears, Say, clientVars
  <1>4. wire' = wire
    <2>1. wire \in Seq(ServerItem)
      BY DEF HandshakeInv, StreamInv
    <2> QED  BY <1>3, <2>1, ConcatEmptySeq
  <1>5. outbound' = <<>>
    <2>1. PICK end : end = End
      OBVIOUS
    <2> QED  BY <1>2, <1>3, <2>1, TakenFrom
  <1>6. FormatInv'
    BY <1>2, <1>3, <1>5 DEF FormatInv, formats
  <1> QED  BY <1>2, <1>3, <1>4, <1>6, LateKeeps

(* A word that arrives stays where it is in the stream. *)
LEMMA ArriveKeeps ==
    ASSUME HandshakeInv, Alive, Arrive, UNCHANGED clientVars
    PROVE  HandshakeInv'
  <1>1. StreamInv /\ ChoicesInv /\ FormatInv
    BY DEF HandshakeInv
  <1>2. /\ wire # <<>> /\ inbound' = Append(inbound, Head(wire)) /\ wire' = Tail(wire)
        /\ UNCHANGED <<outbound, svVars>>
        /\ UNCHANGED <<pc, choices, formats, expected, encrypted, outcome>>
    BY DEF Arrive, clientVars
  <1>3. PICK received, sent : received = inbound /\ sent = wire
    OBVIOUS
  <1>4. received \in Seq(ServerItem) /\ sent \in Seq(ServerItem) /\ sent # <<>>
    BY <1>1, <1>2, <1>3 DEF StreamInv
  <1>5. PICK item, rest : item = Head(sent) /\ rest = Tail(sent)
    OBVIOUS
  <1>6. item \in ServerItem /\ rest \in Seq(ServerItem) /\ sent = <<item>> \o rest
    BY <1>4, <1>5
  <1>7. Append(received, item) \in Seq(ServerItem) /\ Append(received, item) = received \o <<item>>
    BY <1>4, <1>6, AppendIsConcat
  <1>8. <<item>> \in Seq(ServerItem)
    BY <1>6
  <1>9. Append(received, item) \o rest = received \o sent
    BY <1>4, <1>6, <1>7, <1>8, ConcatAssociative
  <1>10. inbound' \in Seq(ServerItem) /\ wire' \in Seq(ServerItem) /\ Coming' = Coming
    BY <1>2, <1>3, <1>5, <1>6, <1>7, <1>9 DEF Coming
  <1>11. Stream' = Stream /\ Known' = Known /\ Turn' = Turn /\ svTls' = svTls
    BY <1>2, <1>10 DEF Stream, Turn, Known, svVars
  <1>12. PICK b : b = Stream[1]
    OBVIOUS
  <1>13. Fits(b)'
    <2>1. Fits(b)
      BY <1>1, <1>12 DEF StreamInv
    <2> QED  BY <1>2, <2>1 DEF Fits, Met, Due, Asked, AskedNoneAndWentOn, Sent, choices, svVars
  <1>14. Agree(b)'
    <2>1. Agree(b)
      BY <1>1, <1>12 DEF ChoicesInv
    <2> QED  BY <1>2, <2>1 DEF Agree, Denied, Asked, AskedNoneAndWentOn, Sent, choices, svVars
  <1>15. FormatInv'
    BY <1>1, <1>2 DEF FormatInv, Told, End, Sent, formats, svVars
  <1>16. StreamInv'
    <2>1. svTls' = encrypted' /\ Fits(Stream[1])'
      BY <1>1, <1>2, <1>11, <1>12, <1>13 DEF StreamInv
    <2> QED  BY <1>1, <1>10, <1>11, <2>1 DEF StreamInv
  <1>17. ChoicesInv'
    BY <1>11, <1>12, <1>14 DEF ChoicesInv
  <1> QED  BY <1>2, <1>15, <1>16, <1>17 DEF HandshakeInv

(* Nothing changes but the link. *)
LEMMA StillKeeps ==
    ASSUME HandshakeInv, Alive, UNCHANGED <<inbound, wire, outbound, svVars>>, UNCHANGED clientVars
    PROVE  HandshakeInv'
  <1>1. PICK b : b = Stream[1]
    OBVIOUS
  <1>2. Next1(b)
    BY <1>1, StreamHead
  <1>3. /\ UNCHANGED <<inbound, wire, outbound, svVars>>
        /\ UNCHANGED <<pc, choices, formats, expected, encrypted, outcome>>
    BY DEF clientVars
  <1>4. Fits(b)'
    BY <1>2, <1>3 DEF Next1, Fits, Met, Due, Asked, AskedNoneAndWentOn, Sent, choices, svVars
  <1>5. Agree(b)'
    BY <1>2, <1>3 DEF Next1, Agree, Denied, Asked, AskedNoneAndWentOn, Sent, choices, svVars
  <1>6. FormatInv'
    BY <1>2, <1>3 DEF Next1, FormatInv, Told, End, Sent, formats, svVars
  <1>7. pc' \in Places /\ (pc' = "done") = (outcome' # "none")
    BY <1>3 DEF HandshakeInv
  <1> QED  BY <1>1, <1>3, <1>4, <1>5, <1>6, <1>7, StreamKept

(* Three words, one after the other. *)
LEMMA Tripled ==
    ASSUME NEW x, NEW y, NEW z
    PROVE  <<x>> \o <<y>> \o <<z>> = <<x, y, z>>
  <1>1. PICK S : S = {x, y, z}
    OBVIOUS
  <1>2. x \in S /\ y \in S /\ z \in S
    BY <1>1
  <1>3. PICK one, two, three, pair : one = <<x>> /\ two = <<y>> /\ three = <<z>> /\ pair = <<x, y>>
    OBVIOUS
  <1>4. one \in Seq(S) /\ two \in Seq(S) /\ three \in Seq(S)
    BY <1>2, <1>3
  <1>5. pair \in Seq(S) /\ Len(pair) = 2 /\ pair[1] = x /\ pair[2] = y
    BY <1>2, <1>3
  <1>6. PICK t : t = Append(pair, z)
    OBVIOUS
  <1>7. t \in Seq(S) /\ Len(t) = Len(pair) + 1 /\ t[Len(pair) + 1] = z
    BY ZenonT(30), <1>2, <1>5, <1>6, AppendProperties
  <1>8. \A i \in 1..Len(pair) : t[i] = pair[i]
    BY <1>2, <1>5, <1>6, AppendProperties
  <1>9. t = <<x, y, z>>
    BY <1>5, <1>7, <1>8
  <1>10. t = pair \o three
    BY <1>2, <1>3, <1>5, <1>6, AppendIsConcat
  <1>11. pair = one \o two
    BY <1>3, Paired
  <1> QED  BY <1>3, <1>9, <1>10, <1>11

LEMMA TripledAlso ==
    ASSUME NEW x, NEW y, NEW z
    PROVE  <<x>> \o (<<y>> \o <<z>>) = <<x, y, z>>
  <1>1. PICK S, one, two, three : S = {x, y, z} /\ one = <<x>> /\ two = <<y>> /\ three = <<z>>
    OBVIOUS
  <1>2. x \in S /\ y \in S /\ z \in S
    BY <1>1
  <1>3. one \in Seq(S) /\ two \in Seq(S) /\ three \in Seq(S)
    BY <1>1, <1>2
  <1>4. (one \o two) \o three = one \o (two \o three)
    BY <1>3, ConcatAssociative
  <1>5. (one \o two) \o three = <<x, y, z>>
    BY <1>1, Tripled
  <1> QED  BY <1>1, <1>4, <1>5

(* Inside TLS the server goes on at once. *)
LEMMA SecuredKeeps ==
    ASSUME HandshakeInv, StartOpenSSLHandshake
    PROVE  HandshakeInv'
  <1>1. Alive /\ pc = "tls" /\ sv = "tls" /\ outbound = <<>> /\ outcome = "none"
    BY DEF StartOpenSSLHandshake, HandshakeInv, Alive
  <1>2. PICK b : b = Stream[1]
    OBVIOUS
  <1>3. Next1(b)
    BY <1>1, <1>2, StreamHead
  <1>4. b.kind = "turn"
    BY <1>1, <1>3 DEF Next1, Fits, Due, IsTurn
  <1>5. inbound = <<>> /\ wire = <<>>
    BY <1>1, <1>2, <1>4, TurnFirst
  <1>6. /\ pc' = "subTypeCount" /\ outcome' = "none" /\ svTls' = TRUE /\ encrypted' = TRUE
        /\ UNCHANGED <<choices, formats, expected, svVersion, svType, svMethod, inbound, outbound>>
    BY <1>1 DEF StartOpenSSLHandshake, SecureServer, goto
  <1>7. PICK list \in SubTypeLists :
          LET Encrypted(items) == [i \in 1..Len(items) |-> [items[i] EXCEPT !.tls = TRUE]] IN
          /\ svOffer' = list
          /\ IF list = <<>>
             THEN /\ \E n \in TextLengths :
                      wire' = Encrypted(<<Item("subTypeCount", 0)>> \o Reason(n))
                  /\ svVerdict' = "rejected" /\ link' = "closed" /\ sv' = "over"
             ELSE /\ wire' = Encrypted(<<Item("subTypeCount", Len(list)), Item("subTypes", list)>>)
                  /\ sv' = "mySubType"
                  /\ UNCHANGED <<svVerdict, link>>
    BY DEF StartOpenSSLHandshake, SecureServer
  <1> DEFINE In(kind, val) == [kind |-> kind, val |-> val, tls |-> TRUE]
             Hidden(item) == [item EXCEPT !.tls = TRUE]
             Encrypted(items) == [i \in 1..Len(items) |-> Hidden(items[i])]
  <1>8. \A kind, val : Hidden(Item(kind, val)) = In(kind, val)
    <2> SUFFICES ASSUME NEW kind, NEW val  PROVE Hidden(Item(kind, val)) = In(kind, val)
      OBVIOUS
    <2>1. PICK item, before, after : item = Item(kind, val) /\ before = svTls /\ after = TRUE
      OBVIOUS
    <2>2. item = [kind |-> kind, val |-> val, tls |-> before]
      BY <2>1 DEF Item
    <2>3. [item EXCEPT !.tls = after] = [kind |-> kind, val |-> val, tls |-> after]
      BY <2>2
    <2>4. Hidden(item) = [item EXCEPT !.tls = after] /\ In(kind, val) = [kind |-> kind, val |-> val, tls |-> after]
      BY <2>1
    <2> QED  BY <2>1, <2>3, <2>4
  <1> HIDE DEF Hidden
  <1>9. /\ \A x : Encrypted(<<x>>) = <<Hidden(x)>>
        /\ \A x, y : Encrypted(<<x, y>>) = <<Hidden(x), Hidden(y)>>
        /\ \A x, y, z : Encrypted(<<x, y, z>>) =
              <<Hidden(x), Hidden(y), Hidden(z)>>
    <2>1. ASSUME NEW x  PROVE Encrypted(<<x>>) = <<Hidden(x)>>
      <3>1. PICK items, a : items = <<x>> /\ a = Hidden(x)
        OBVIOUS
      <3>2. Len(items) = 1 /\ items[1] = x
        BY <3>1
      <3>3. Encrypted(items) = [i \in 1..1 |-> a]
        BY <3>1, <3>2
      <3>4. [i \in 1..1 |-> a] = <<a>>
        OBVIOUS
      <3> QED  BY <3>1, <3>3, <3>4
    <2>2. ASSUME NEW x, NEW y  PROVE Encrypted(<<x, y>>) = <<Hidden(x), Hidden(y)>>
      <3>1. PICK items, a, b1 : items = <<x, y>> /\ a = Hidden(x) /\ b1 = Hidden(y)
        OBVIOUS
      <3>2. Len(items) = 2 /\ items[1] = x /\ items[2] = y
        BY <3>1
      <3>3. Encrypted(items) = [i \in 1..2 |-> IF i = 1 THEN a ELSE b1]
        BY <3>1, <3>2
      <3>4. [i \in 1..2 |-> IF i = 1 THEN a ELSE b1] = <<a, b1>>
        OBVIOUS
      <3> QED  BY <3>1, <3>3, <3>4
    <2>3. ASSUME NEW x, NEW y, NEW z
          PROVE  Encrypted(<<x, y, z>>) =
                    <<Hidden(x), Hidden(y), Hidden(z)>>
      <3>1. PICK items, a, b1, c : /\ items = <<x, y, z>> /\ a = Hidden(x)
                                   /\ b1 = Hidden(y) /\ c = Hidden(z)
        OBVIOUS
      <3>2. Len(items) = 3 /\ items[1] = x /\ items[2] = y /\ items[3] = z
        BY <3>1
      <3>3. Encrypted(items) = [i \in 1..3 |-> IF i = 1 THEN a ELSE IF i = 2 THEN b1 ELSE c]
        BY <3>1, <3>2
      <3>4. [i \in 1..3 |-> IF i = 1 THEN a ELSE IF i = 2 THEN b1 ELSE c] = <<a, b1, c>>
        OBVIOUS
      <3> QED  BY <3>1, <3>3, <3>4
    <2> QED  BY <2>1, <2>2, <2>3
  <1>10. \A kind, val :
           /\ In(kind, val).kind = kind /\ In(kind, val).val = val /\ In(kind, val).tls = TRUE
           /\ kind \in Numbers /\ val \in Nat => In(kind, val) \in ServerItem
           /\ kind \in Lists /\ val \in Seq(STRING) => In(kind, val) \in ServerItem
    BY DEF ServerItem
  <1> HIDE DEF In, Encrypted
  <1>11. list \in Seq(STRING)
    BY ServerAssumption
  <1>12. PICK known, turn : known = Known' /\ turn = Turn'
    OBVIOUS
  <1>13. /\ turn.kind = "turn" /\ turn.val = sv' /\ turn.tls = TRUE
         /\ known.verdict = svVerdict' /\ known.offer = list
    BY <1>6, <1>7, <1>12 DEF Turn, Known
  <1>14. PICK count : count = In("subTypeCount", Len(list))
    OBVIOUS
  <1>15. count.kind = "subTypeCount" /\ count.val = Len(list) /\ count.tls = TRUE /\ count \in ServerItem
    BY <1>10, <1>11, <1>14 DEF Numbers
  <1>16. ASSUME list = <<>>
         PROVE  sv' \in {"over", "mySubType"} /\ \E said : wire' = said /\ Spoken(known, turn, said, turn, count)
    <2>1. PICK n \in TextLengths : wire' = Encrypted(<<Item("subTypeCount", 0)>> \o Reason(n))
      BY <1>7, <1>16 DEF Encrypted, Hidden
    <2>2. sv' = "over" /\ svVerdict' = "rejected" /\ n \in Nat /\ Len(list) = 0
      BY <1>7, <1>16, ServerAssumption
    <2>3. PICK length, text : length = In("reasonLength", n) /\ text = In("reasonText", n)
      OBVIOUS
    <2>4. /\ length.kind = "reasonLength" /\ length.val = n /\ length.tls = TRUE /\ length \in ServerItem
          /\ text.kind = "reasonText" /\ text.val = n /\ text.tls = TRUE /\ text \in ServerItem
      BY <1>10, <2>2, <2>3 DEF Numbers
    <2>5. Proper(known, turn, count) /\ Proper(known, turn, length) /\ Proper(known, turn, text)
      BY <1>13, <1>15, <2>2, <2>4 DEF Proper, Denying, Tells
    <2>6. Then(known.version, known.type, count, length)
      BY <1>15, <2>2, <2>4 DEF Then
    <2>7. Then(known.version, known.type, text, turn)
      BY <2>4 DEF Then
    <2>8. Spoken(known, turn, <<count>>, length, count)
      BY <1>15, <2>5, <2>6, SpokenItem
    <2>9. IsTurn(turn, "over")
      BY <1>13, <2>2 DEF IsTurn
    <2>10. ASSUME n = 0  PROVE \E said : wire' = said /\ Spoken(known, turn, said, turn, count)
      <3>1. Then(known.version, known.type, length, turn)
        BY <2>4, <2>9, <2>10 DEF Then
      <3>2. Spoken(known, turn, <<length>>, turn, length)
        BY <2>4, <2>5, <3>1, SpokenItem
      <3>3. Spoken(known, turn, <<count, length>>, turn, count)
        BY <2>8, <3>2, SpokenJoined, Paired
      <3>4. wire' = <<count, length>>
        <4>1. PICK x, y : x = Item("subTypeCount", 0) /\ y = Item("reasonLength", n)
          OBVIOUS
        <4>2. Reason(n) = <<y>> \o <<>>
          BY <2>10, <4>1 DEF Reason, Text
        <4>3. <<x>> \o (<<y>> \o <<>>) = <<x, y>>
          <5>1. PICK s, S : s = <<y>> /\ S = {y}
            OBVIOUS
          <5>2. s \in Seq(S)
            BY <5>1
          <5>3. s \o <<>> = s
            BY <5>2, ConcatEmptySeq
          <5> QED  BY <5>1, <5>3, Paired
        <4>4. Hidden(x) = count /\ Hidden(y) = length
          BY <1>8, <1>14, <2>2, <2>3, <4>1
        <4>5. wire' = Encrypted(<<x, y>>)
          BY <2>1, <4>1, <4>2, <4>3
        <4> QED  BY <1>9, <4>4, <4>5
      <3>5. PICK said : said = <<count, length>>
        OBVIOUS
      <3> QED  BY <3>3, <3>4, <3>5
    <2>11. ASSUME n # 0  PROVE \E said : wire' = said /\ Spoken(known, turn, said, turn, count)
      <3>1. Then(known.version, known.type, length, text)
        BY <2>4, <2>11 DEF Then
      <3>2. Spoken(known, turn, <<length>>, text, length) /\ Spoken(known, turn, <<text>>, turn, text)
        BY <2>4, <2>5, <2>7, <3>1, SpokenItem
      <3>3. Spoken(known, turn, <<count>> \o <<length>>, text, count)
        BY <2>8, <3>2, SpokenJoined
      <3>4. Spoken(known, turn, <<count>> \o <<length>> \o <<text>>, turn, count)
        BY <3>2, <3>3, SpokenJoined
      <3>5. <<count>> \o <<length>> \o <<text>> = <<count, length, text>>
        BY Tripled
      <3>6. wire' = <<count, length, text>>
        <4>1. PICK x, y, z : /\ x = Item("subTypeCount", 0) /\ y = Item("reasonLength", n)
                             /\ z = Item("reasonText", n)
          OBVIOUS
        <4>2. Reason(n) = <<y>> \o <<z>>
          BY <2>11, <4>1 DEF Reason, Text
        <4>3. <<x>> \o (<<y>> \o <<z>>) = <<x, y, z>>
          BY TripledAlso
        <4>4. Hidden(x) = count /\ Hidden(y) = length /\ Hidden(z) = text
          BY <1>8, <1>14, <2>2, <2>3, <4>1
        <4>5. wire' = Encrypted(<<x, y, z>>)
          BY <2>1, <4>1, <4>2, <4>3
        <4> QED  BY <1>9, <4>4, <4>5
      <3>7. PICK said : said = <<count, length, text>>
        OBVIOUS
      <3> QED  BY <3>4, <3>5, <3>6, <3>7
    <2>12. \E said : wire' = said /\ Spoken(known, turn, said, turn, count)
      BY <2>10, <2>11
    <2> QED  BY <2>2, <2>12
  <1>17. ASSUME list # <<>>
         PROVE  sv' \in {"over", "mySubType"} /\ \E said : wire' = said /\ Spoken(known, turn, said, turn, count)
    <2>1. /\ wire' = Encrypted(<<Item("subTypeCount", Len(list)), Item("subTypes", list)>>)
          /\ sv' = "mySubType" /\ svVerdict' = svVerdict
      BY <1>7, <1>17 DEF Encrypted, Hidden
    <2>2. PICK types : types = In("subTypes", list)
      OBVIOUS
    <2>3. types.kind = "subTypes" /\ types.val = list /\ types.tls = TRUE /\ types \in ServerItem
      BY <1>10, <1>11, <2>2 DEF Lists
    <2>4. Len(list) # 0
      BY <1>11, <1>17, EmptySeq
    <2>5. Proper(known, turn, count) /\ Proper(known, turn, types)
      BY <1>13, <1>15, <1>17, <2>3, <2>4 DEF Proper, Denying, Tells
    <2>6. Then(known.version, known.type, count, types) /\ Then(known.version, known.type, types, turn)
      BY <1>13, <1>15, <2>1, <2>3, <2>4 DEF Then, IsTurn
    <2>7. Spoken(known, turn, <<count>>, types, count) /\ Spoken(known, turn, <<types>>, turn, types)
      BY <1>15, <2>3, <2>5, <2>6, SpokenItem
    <2>8. Spoken(known, turn, <<count, types>>, turn, count)
      BY <2>7, SpokenJoined, Paired
    <2>9. wire' = <<count, types>>
      BY <1>8, <1>9, <1>14, <2>1, <2>2
    <2>10. PICK said : said = <<count, types>>
      OBVIOUS
    <2> QED  BY <2>1, <2>8, <2>9, <2>10
  <1>18. /\ sv' \in {"over", "mySubType"}
         /\ \E said : wire' = said /\ Spoken(known, turn, said, turn, count)
    BY <1>16, <1>17
  <1>19. PICK said : wire' = said /\ Spoken(Known', Turn', said, Turn', count)
    BY <1>12, <1>18
  <1>20. wire' = wire \o said
    <2>1. said \in Seq(ServerItem)
      BY <1>19 DEF Spoken
    <2> QED  BY <1>5, <1>19, <2>1, ConcatEmptySeq
  <1>21. Fits(count)'
    BY <1>1, <1>6, <1>15 DEF Fits, Met
  <1>22. Agree(count)'
    BY <1>1, <1>3, <1>4, <1>6, <1>15, <1>18, TurnIs DEF Next1, Agree, Denied, Asked,
       AskedNoneAndWentOn, IsTurn, choices, Early, Settled, Choosing, Turns
  <1>23. FormatInv'
    BY <1>6 DEF FormatInv
  <1>24. pc' \in Places /\ (pc' = "done") = (outcome' # "none")
    BY <1>6 DEF Places, Reading
  <1> QED  BY <1>1, <1>2, <1>4, <1>6, <1>19, <1>20, <1>21, <1>22, <1>23, <1>24, ServerSpeaks

-----------------------------------------------------------------------------
(* The end of an attempt, and the next one *)

(* An attempt that is given up has nothing to keep. *)
LEMMA EndKeeps ==
    ASSUME HandshakeInv, ConnectionLost \/ Interrupted \/ TlsHandshakeFails \/ VeNCryptHandshake
    PROVE  HandshakeInv'
  BY GivenUp DEF ConnectionLost, Interrupted, TlsHandshakeFails, VeNCryptHandshake, Finish,
     Unable,
                 Unheard, Heard, Alive, Places

Fresh ==
    /\ ServerInit
    /\ pc = "version" /\ mSelectedProtocolVersion = 3 /\ mSelectedVNCSecurityType = "Invalid"
    /\ encrypted = FALSE /\ outcome = "none"

(* A new connection: the server is to speak. *)
LEMMA Begins == Fresh => HandshakeInv
  <1> SUFFICES ASSUME Fresh  PROVE HandshakeInv
    OBVIOUS
  <1> USE DEF Fresh
  <1>1. PICK turn : turn = Turn
    OBVIOUS
  <1>2. turn.kind = "turn" /\ turn.val = "announce" /\ turn.tls = FALSE
    BY <1>1 DEF Turn, ServerInit
  <1>3. Stream = <<turn>>
    <2>1. Coming = <<>>
      BY DEF Coming, ServerInit
    <2> QED  BY <1>1, <2>1, Appended DEF Stream
  <1>4. PICK stream : stream = Stream
    OBVIOUS
  <1>5. Len(stream) = 1 /\ stream[1] = turn
    BY <1>3, <1>4
  <1>6. Chained(Known, stream)
    BY <1>5 DEF Chained
  <1>7. \A i \in 1..Len(stream) : Proper(Known, Turn, stream[i])
    <2>1. Proper(Known, turn, turn)
      BY <1>2 DEF Proper, Denying, Tells
    <2> QED  BY <1>1, <1>5, <2>1
  <1>8. Fits(turn)
    BY <1>2 DEF Fits, Due, IsTurn, ServerInit
  <1>9. Agree(turn)
    BY <1>2 DEF Agree, Denied, Asked, AskedNoneAndWentOn, IsTurn, Early, Settled, Choosing,
       Turns, ServerInit
  <1>10. inbound \in Seq(ServerItem) /\ wire \in Seq(ServerItem) /\ svTls = encrypted
    <2>1. <<>> \in Seq(ServerItem)
      OBVIOUS
    <2>2. inbound = <<>> /\ wire = <<>> /\ svTls = encrypted
      BY DEF ServerInit
    <2> QED  BY <2>1, <2>2
  <1>11. StreamInv
    BY <1>4, <1>5, <1>6, <1>7, <1>8, <1>10 DEF StreamInv
  <1>12. ChoicesInv
    BY <1>4, <1>5, <1>9 DEF ChoicesInv
  <1>13. FormatInv
    BY DEF FormatInv
  <1> QED  BY <1>11, <1>12, <1>13 DEF HandshakeInv, Places, Reading

LEMMA BeginsAgain == Fresh' => HandshakeInv'
  BY Begins, PTL

(* Every step of the client keeps the two in step, and so does every step  *)
(* of the server.                                                          *)
LEMMA HandleKeeps ==
    ASSUME HandshakeInv, Handle
    PROVE  HandshakeInv'
  <1>1. CASE NegotiateProtocolVersion
    BY <1>1, VersionRead
  <1>2. CASE NegotiateRfb33
    BY <1>2, OldTypeRead
  <1>3. CASE ReadTypeCount
    BY <1>3, TypeCountRead
  <1>4. CASE ReadTypes
    BY <1>4, TypesRead
  <1>5. CASE VNCAuthenticationChallenge
    BY <1>5, ChallengeRead
  <1>6. CASE TightTunnelCount
    BY <1>6, TunnelCountRead
  <1>7. CASE TightTunnels
    BY <1>7, TunnelsRead
  <1>8. CASE TightAuthCount
    BY <1>8, AuthCountRead
  <1>9. CASE TightAuths
    BY <1>9, AuthsRead
  <1>10. CASE ReadSubTypeCount
    BY <1>10, SubTypeCountRead
  <1>11. CASE ReadSubTypes
    BY <1>11, SubTypesRead
  <1>12. CASE ReadSecurityResult
    BY <1>12, ResultRead
  <1>13. CASE ReadReasonLength
    BY <1>13, ReasonLengthRead
  <1>14. CASE ReadReasonText
    BY <1>14, ReasonTextRead
  <1>15. CASE ReadServerInit
    BY <1>15, ServerInitRead
  <1>16. CASE ReadName
    BY <1>16, NameRead
  <1>17. CASE ReadCapabilityCount
    BY <1>17, CapabilityCountRead
  <1>18. CASE ReadCapabilities
    BY <1>18, CapabilitiesRead
  <1>19. CASE ReadNothing
    BY <1>19, NothingRead
  <1>20. CASE StartVncProtocol
    BY <1>20, VersionWritten
  <1>21. CASE SendType
    BY <1>21, TypeWritten
  <1>22. CASE VNCAuthenticationResponse
    BY <1>22, ResponseWritten
  <1>23. CASE TightTunnel
    BY <1>23, TunnelWritten
  <1>24. CASE TightAuthenticate
    BY <1>24, AuthWritten
  <1>25. CASE SendSubType
    BY <1>25, SubTypeWritten
  <1>26. CASE SendClientInit
    BY <1>26, ClientInitWritten
  <1>27. CASE SendSetPixelFormat
    BY <1>27, PixelFormatWritten
  <1>28. CASE SendSetEncodings
    BY <1>28, EncodingsWritten
  <1>29. CASE EnsureNoMoreData
    BY <1>29, QuietEnsured
  <1>30. CASE StartOpenSSLHandshake
    BY <1>30, SecuredKeeps
  <1>31. CASE VeNCryptHandshake
    BY <1>31, EndKeeps
  <1> QED  BY <1>1, <1>2, <1>3, <1>4, <1>5, <1>6, <1>7, <1>8, <1>9, <1>10, <1>11, <1>12,
              <1>13, <1>14, <1>15, <1>16, <1>17, <1>18, <1>19, <1>20, <1>21,
              <1>22, <1>23, <1>24, <1>25, <1>26, <1>27, <1>28, <1>29, <1>30,
              <1>31 DEF Handle


LEMMA ServerKeeps ==
    ASSUME HandshakeInv, Alive, ServerNext, UNCHANGED clientVars
    PROVE  HandshakeInv'
  <1>1. CASE HangUp
    BY <1>1, HangUpKeeps
  <1>2. CASE Announce
    BY <1>2, AnnounceKeeps
  <1>3. CASE TakeVersion
    BY <1>3, TakeVersionKeeps
  <1>4. CASE TakeType
    BY <1>4, TakeTypeKeeps
  <1>5. CASE TakeTunnel
    BY <1>5, TakeTunnelKeeps
  <1>6. CASE TakeMethod
    BY <1>6, TakeMethodKeeps
  <1>7. CASE TakeResponse
    BY <1>7, TakeResponseKeeps
  <1>8. CASE TakeClientInit
    BY <1>8, TakeClientInitKeeps
  <1>9. CASE TakePixelFormat
    BY <1>9, TakePixelFormatKeeps
  <1>10. CASE TakeEncodings
    BY <1>10, TakeEncodingsKeeps
  <1>11. CASE Arrive
    BY <1>11, ArriveKeeps
  <1> QED  BY <1>1, <1>2, <1>3, <1>4, <1>5, <1>6, <1>7, <1>8, <1>9, <1>10, <1>11 DEF ServerNext


(* HandshakeInv is inductive. *)
LEMMA HandshakeStep ==
    ASSUME HandshakeInv, [Next]_vars
    PROVE  HandshakeInv'
  <1>1. CASE Handle
    BY <1>1, HandleKeeps
  <1>2. CASE ConnectionLost \/ Interrupted \/ TlsHandshakeFails
    BY <1>2, EndKeeps
  <1>3. CASE UNCHANGED clientVars /\ ~Alive
    <2>1. ~Alive' /\ pc' \in Places /\ (pc' = "done") = (outcome' # "none")
      BY <1>3 DEF clientVars, Alive, HandshakeInv
    <2> QED  BY <2>1, GivenUp
  <1>4. CASE ServerNext /\ UNCHANGED clientVars /\ Alive
    BY <1>4, ServerKeeps
  <1>5. CASE LinkFails /\ UNCHANGED clientVars /\ Alive
    BY <1>5, StillKeeps DEF LinkFails
  <1>6. CASE UNCHANGED vars /\ Alive
    BY <1>6, StillKeeps DEF vars, serverVars, channels
  <1>7. CASE Reconnect
    <2>1. ServerInit'
      BY <1>7 DEF Reconnect, ServerRestarts, ServerInit
    <2>2. /\ pc' = "version" /\ mSelectedProtocolVersion' = 3 /\ mSelectedVNCSecurityType' = "Invalid"
          /\ encrypted' = FALSE /\ outcome' = "none"
      BY <1>7 DEF Reconnect
    <2> QED  BY <2>1, <2>2, BeginsAgain DEF Fresh
  <1>8. CASE Terminated
    BY <1>8, <1>3, <1>6 DEF Terminated, vars
  <1>9. UNCHANGED vars => UNCHANGED clientVars
    BY DEF vars
  <1> QED  BY <1>1, <1>2, <1>3, <1>4, <1>5, <1>6, <1>7, <1>8, <1>9 DEF Next

(* Client and server are in step throughout, whatever the server is and    *)
(* whenever the user or the network ends the attempt (class Rfb3xHandshake *)
(* and the handlers of the security types).                                *)
THEOREM HandshakeInvariant == Spec => []HandshakeInv
  <1>1. Init => HandshakeInv
    BY Begins DEF Init, ClientInit, Fresh
  <1>2. HandshakeInv /\ [Next]_vars => HandshakeInv'
    BY HandshakeStep
  <1> QED  BY <1>1, <1>2, PTL DEF Spec

-----------------------------------------------------------------------------
(* What follows *)

(* What the client finds in the socket is the head of the stream. *)
LEMMA HeadIs ==
    ASSUME HandshakeInv, Alive, inbound # <<>>
    PROVE  /\ Stream[1] = Head(inbound) /\ Head(inbound) \in ServerItem
           /\ Head(inbound).tls = encrypted
  <1>1. StreamInv
    BY DEF HandshakeInv
  <1>2. PICK received, sent, turn, stream :
          received = inbound /\ sent = wire /\ turn = Turn /\ stream = Append(received \o sent, turn)
    OBVIOUS
  <1>3. received \in Seq(ServerItem) /\ sent \in Seq(ServerItem) /\ received # <<>>
    BY <1>1, <1>2 DEF StreamInv
  <1>4. Len(stream) \in Nat \ {0} /\ \A i \in 1..Len(received) : stream[i] = received[i]
    BY <1>2, <1>3, StreamIs
  <1>5. 1 \in 1..Len(received) /\ Head(received) = received[1] /\ Head(received) \in ServerItem
    BY <1>3
  <1>6. stream = Stream
    BY <1>2 DEF Stream, Coming
  <1>7. Proper(Known, Turn, stream[1]) /\ svTls = encrypted
    BY <1>1, <1>4, <1>6 DEF StreamInv
  <1> QED  BY <1>2, <1>4, <1>5, <1>6, <1>7 DEF Proper, Turn

(* The client finds what it means to read.  Each case of Fits() names it,  *)
(* if the server has said it already.                                      *)
THEOREM StaysInStep == Spec => []InStep
  <1>1. ASSUME HandshakeInv  PROVE InStep
    <2> SUFFICES ASSUME pc \in Reading, inbound # <<>>
                 PROVE  \/ Head(inbound).kind = pc /\ Head(inbound).tls = encrypted
                        \/ expected = 0 /\ pc \in {"tunnels", "auths", "reasonText", "name"}
      BY DEF InStep
    <2>1. Alive
      BY DEF Alive, Reading
    <2>2. PICK b : b = Head(inbound)
      OBVIOUS
    <2>3. Fits(b) /\ b \in ServerItem /\ b.tls = encrypted
      BY <1>1, <2>1, <2>2, HeadIs DEF HandshakeInv, StreamInv
    <2>4. b.kind # "turn"
      BY <2>3 DEF ServerItem, Numbers, Lists
    <2>5. b.kind = pc \/ (expected = 0 /\ pc \in {"tunnels", "auths", "reasonText", "name"})
      BY <2>3, <2>4 DEF Fits, Met, Due, IsTurn, Asked, AskedNoneAndWentOn, Reading
    <2> QED  BY <2>2, <2>3, <2>5
  <1> QED  BY <1>1, HandshakeInvariant, PTL

-----------------------------------------------------------------------------
(* A format travels whole: the server reads what the client wrote.         *)

(* Two bytes are the number they came from. *)
LEMMA NumberTravels ==
    ASSUME NEW v \in UInt16
    PROVE  v \div 256 \in Int /\ v % 256 \in Int /\ 256 * (v \div 256) + (v % 256) = v
  <1>1. \A n \in Int : 0..n \subseteq Nat
    OBVIOUS
  <1>2. 256 * 256 - 1 \in Int
    OBVIOUS
  <1>3. UInt16 \subseteq Nat
    BY <1>1, <1>2, Zenon DEF UInt16
  <1>4. ASSUME NEW b \in Nat \ {0}, NEW n \in Nat
        PROVE  n \div b \in Int /\ n % b \in Int /\ b * (n \div b) + (n % b) = n
    OBVIOUS
  <1>5. 256 \in Nat \ {0}
    OBVIOUS
  <1>6. v \in Nat
    BY <1>3, Zenon
  <1> QED  BY <1>4, <1>5, <1>6, Zenon

LEMMA Flags ==
    /\ \A v : Flag(v) \in Int
    /\ \A v \in BOOLEAN : (Flag(v) # 0) = v
  <1>1. \A v : Flag(v) \in Int
    BY DEF Flag
  <1>2. ASSUME NEW v \in BOOLEAN
        PROVE  (Flag(v) # 0) = v
    BY DEF Flag
  <1> QED  BY <1>1, <1>2

LEMMA Members ==
    ASSUME NEW p \in PixelFormat
    PROVE  /\ p.mBitsPerPixel \in UInt8 /\ p.mDepth \in UInt8
           /\ p.mBigEndian \in BOOLEAN /\ p.mTrueColor \in BOOLEAN
           /\ p.mColorMax \in [1..3 -> UInt16] /\ p.mColorShift \in [1..3 -> UInt8]
  BY DEF PixelFormat

LEMMA IsFormat ==
    ASSUME NEW p \in PixelFormat
    PROVE  p = Format(p.mBitsPerPixel, p.mDepth, p.mBigEndian, p.mTrueColor, p.mColorMax, p.mColorShift)
  BY DEF PixelFormat, Format

LEMMA Colours ==
    /\ \A f \in [1..3 -> UInt16] : f[1] \in UInt16 /\ f[2] \in UInt16 /\ f[3] \in UInt16
    /\ \A f \in [1..3 -> UInt8] : f \in [1..3 -> Int]
  <1>1. ASSUME NEW f \in [1..3 -> UInt16]
        PROVE  f[1] \in UInt16 /\ f[2] \in UInt16 /\ f[3] \in UInt16
    OBVIOUS
  <1>2. UInt8 \subseteq Int
    BY DEF UInt8
  <1>3. ASSUME NEW f \in [1..3 -> UInt8]
        PROVE  f \in [1..3 -> Int]
    BY <1>2
  <1> QED  BY <1>1, <1>3

LEMMA Behind ==
    ASSUME NEW s \in Seq(Int), NEW t \in Seq(Int)
    PROVE  /\ s \o t \in Seq(Int) /\ Len(s \o t) = Len(s) + Len(t)
           /\ \A i \in 1..Len(s) : (s \o t)[i] = s[i]
           /\ \A i \in 1..Len(t) : (s \o t)[Len(s) + i] = t[i]
  <1>1. Len(s) \in Nat /\ Len(t) \in Nat
    OBVIOUS
  <1>2. \A i \in 1..Len(t) : Len(s) + i - Len(s) = i /\ Len(s) + i > Len(s) /\ Len(s) + i \in 1..(Len(s) + Len(t))
    BY <1>1
  <1> QED  BY <1>1, <1>2, ConcatProperties

LEMMA Two ==
    ASSUME NEW a \in Int, NEW b \in Int
    PROVE  <<a, b>> \in Seq(Int) /\ Len(<<a, b>>) = 2 /\ <<a, b>>[1] = a /\ <<a, b>>[2] = b
  OBVIOUS

LEMMA Triple ==
    ASSUME NEW f \in [1..3 -> Int]
    PROVE  f \in Seq(Int) /\ Len(f) = 3
  <1>1. PICK g : g = <<f[1], f[2], f[3]>>
    OBVIOUS
  <1>2. DOMAIN g = 1..3 /\ \A i \in 1..3 : g[i] = f[i]
    BY <1>1
  <1>3. g \in Seq(Int)
    BY <1>1
  <1>4. g \in [1..3 -> Int]
    BY <1>2, <1>3
  <1>5. g = f
    BY <1>2, <1>4
  <1>6. Len(g) = 3
    BY <1>1
  <1> QED  BY <1>3, <1>5, <1>6, Zenon

LEMMA Shifts ==
    ASSUME NEW b \in Seq(Int), Len(b) = 16, NEW f \in [1..3 -> Int], \A i \in 1..3 : b[10 + i] = f[i]
    PROVE  SubSeq(b, 11, 13) = f
  OBVIOUS

(* The bytes of a format, one by one; three more pad them. *)
Spelled(b, p) ==
    /\ b \in Seq(Int) /\ Len(b) = 16
    /\ b[1] = p.mBitsPerPixel /\ b[2] = p.mDepth
    /\ b[3] = Flag(p.mBigEndian) /\ b[4] = Flag(p.mTrueColor)
    /\ b[5] = p.mColorMax[1] \div 256 /\ b[6] = p.mColorMax[1] % 256
    /\ b[7] = p.mColorMax[2] \div 256 /\ b[8] = p.mColorMax[2] % 256
    /\ b[9] = p.mColorMax[3] \div 256 /\ b[10] = p.mColorMax[3] % 256
    /\ \A i \in 1..3 : b[10 + i] = p.mColorShift[i]

LEMMA BytesOfFormat ==
    ASSUME NEW p \in PixelFormat
    PROVE  \E b : b = writePixelFormat(p) /\ Spelled(b, p)
  <1>1. PICK x : x = <<p.mBitsPerPixel, p.mDepth, Flag(p.mBigEndian), Flag(p.mTrueColor)>>
    OBVIOUS
  <1>2. /\ p.mBitsPerPixel \in Int /\ p.mDepth \in Int
        /\ p.mColorShift \in [1..3 -> Int]
    <2>1. UInt8 \subseteq Int
      BY DEF UInt8
    <2> QED  BY <2>1, Members, Colours, Zenon
  <1>3. Flag(p.mBigEndian) \in Int /\ Flag(p.mTrueColor) \in Int
    BY Flags, Zenon
  <1>4. /\ x \in Seq(Int) /\ Len(x) = 4 /\ x[1] = p.mBitsPerPixel /\ x[2] = p.mDepth
        /\ x[3] = Flag(p.mBigEndian) /\ x[4] = Flag(p.mTrueColor)
    BY <1>1, <1>2, <1>3
  <1>5. /\ p.mColorMax[1] \div 256 \in Int /\ p.mColorMax[1] % 256 \in Int
        /\ p.mColorMax[2] \div 256 \in Int /\ p.mColorMax[2] % 256 \in Int
        /\ p.mColorMax[3] \div 256 \in Int /\ p.mColorMax[3] % 256 \in Int
    BY Members, Colours, NumberTravels
  <1>6. PICK rt, gt, ct, z :
            /\ rt = <<p.mColorMax[1] \div 256, p.mColorMax[1] % 256>>
            /\ gt = <<p.mColorMax[2] \div 256, p.mColorMax[2] % 256>>
            /\ ct = <<p.mColorMax[3] \div 256, p.mColorMax[3] % 256>>
            /\ z = <<0, 0, 0>>
    BY Zenon
  <1>7. PICK r, g, c, d, b : r = x \o rt /\ g = r \o gt /\ c = g \o ct /\ d = c \o p.mColorShift /\ b = d \o z
    BY Zenon
  <1>8. b = writePixelFormat(p)
    BY <1>1, <1>6, <1>7, Zenon DEF writePixelFormat, writeUInt16
  <1>9. rt \in Seq(Int) /\ Len(rt) = 2 /\ rt[1] = p.mColorMax[1] \div 256 /\ rt[2] = p.mColorMax[1] % 256
    <2>1. PICK h \in Int, l \in Int : h = p.mColorMax[1] \div 256 /\ l = p.mColorMax[1] % 256
      BY <1>5, Zenon
    <2>2. rt = <<h, l>>
      BY <1>6, <2>1, Zenon
    <2>3. rt \in Seq(Int) /\ Len(rt) = 2 /\ rt[1] = h /\ rt[2] = l
      BY <2>2
    <2> QED  BY <2>1, <2>3, Zenon
  <1>10. gt \in Seq(Int) /\ Len(gt) = 2 /\ gt[1] = p.mColorMax[2] \div 256 /\ gt[2] = p.mColorMax[2] % 256
    <2>1. PICK h \in Int, l \in Int : h = p.mColorMax[2] \div 256 /\ l = p.mColorMax[2] % 256
      BY <1>5, Zenon
    <2>2. gt = <<h, l>>
      BY <1>6, <2>1, Zenon
    <2>3. gt \in Seq(Int) /\ Len(gt) = 2 /\ gt[1] = h /\ gt[2] = l
      BY <2>2
    <2> QED  BY <2>1, <2>3, Zenon
  <1>11. ct \in Seq(Int) /\ Len(ct) = 2 /\ ct[1] = p.mColorMax[3] \div 256 /\ ct[2] = p.mColorMax[3] % 256
    <2>1. PICK h \in Int, l \in Int : h = p.mColorMax[3] \div 256 /\ l = p.mColorMax[3] % 256
      BY <1>5, Zenon
    <2>2. ct = <<h, l>>
      BY <1>6, <2>1, Zenon
    <2>3. ct \in Seq(Int) /\ Len(ct) = 2 /\ ct[1] = h /\ ct[2] = l
      BY <2>2
    <2> QED  BY <2>1, <2>3, Zenon
  <1>12. p.mColorShift \in Seq(Int) /\ Len(p.mColorShift) = 3
    BY <1>2, Triple, Zenon
  <1>13. z \in Seq(Int) /\ Len(z) = 3
    BY <1>6
  <1>14. /\ r \in Seq(Int) /\ Len(r) = 6 /\ \A i \in 1..4 : r[i] = x[i]
         /\ r[5] = rt[1] /\ r[6] = rt[2]
    <2>1. /\ r \in Seq(Int) /\ Len(r) = Len(x) + Len(rt)
          /\ \A i \in 1..Len(x) : r[i] = x[i]
          /\ \A i \in 1..Len(rt) : r[Len(x) + i] = rt[i]
      <3>1. x \in Seq(Int) /\ rt \in Seq(Int) /\ r = x \o rt
        BY <1>4, <1>7, <1>9, Zenon
      <3> QED  BY <3>1, Behind, Zenon
    <2>2. /\ Len(r) = 4 + 2
          /\ \A i \in 1..4 : r[i] = x[i]
          /\ \A i \in 1..2 : r[4 + i] = rt[i]
      <3>1. Len(x) = 4 /\ Len(rt) = 2
        BY <1>4, <1>9, Zenon
      <3>2. Len(r) = 4 + 2
        BY <2>1, <3>1, Zenon
      <3>3. \A i \in 1..4 : r[i] = x[i]
        BY <2>1, <3>1, Zenon
      <3>4. \A i \in 1..2 : r[4 + i] = rt[i]
        BY <2>1, <3>1, Zenon
      <3> QED  BY <3>2, <3>3, <3>4, Zenon
    <2>3. 1 \in 1..2 /\ 2 \in 1..2 /\ 4 + 1 = 5 /\ 4 + 2 = 6
      OBVIOUS
    <2>4. r[4 + 1] = rt[1] /\ r[4 + 2] = rt[2]
      BY <2>2, <2>3, Zenon
    <2> QED  BY <2>1, <2>2, <2>3, <2>4, Zenon
  <1>15. /\ g \in Seq(Int) /\ Len(g) = 8 /\ \A i \in 1..6 : g[i] = r[i]
         /\ g[7] = gt[1] /\ g[8] = gt[2]
    <2>1. /\ g \in Seq(Int) /\ Len(g) = Len(r) + Len(gt)
          /\ \A i \in 1..Len(r) : g[i] = r[i]
          /\ \A i \in 1..Len(gt) : g[Len(r) + i] = gt[i]
      <3>1. r \in Seq(Int) /\ gt \in Seq(Int) /\ g = r \o gt
        BY <1>14, <1>7, <1>10, Zenon
      <3> QED  BY <3>1, Behind, Zenon
    <2>2. /\ Len(g) = 6 + 2
          /\ \A i \in 1..6 : g[i] = r[i]
          /\ \A i \in 1..2 : g[6 + i] = gt[i]
      <3>1. Len(r) = 6 /\ Len(gt) = 2
        BY <1>14, <1>10, Zenon
      <3>2. Len(g) = 6 + 2
        BY <2>1, <3>1, Zenon
      <3>3. \A i \in 1..6 : g[i] = r[i]
        BY <2>1, <3>1, Zenon
      <3>4. \A i \in 1..2 : g[6 + i] = gt[i]
        BY <2>1, <3>1, Zenon
      <3> QED  BY <3>2, <3>3, <3>4, Zenon
    <2>3. 1 \in 1..2 /\ 2 \in 1..2 /\ 6 + 1 = 7 /\ 6 + 2 = 8
      OBVIOUS
    <2>4. g[6 + 1] = gt[1] /\ g[6 + 2] = gt[2]
      BY <2>2, <2>3, Zenon
    <2> QED  BY <2>1, <2>2, <2>3, <2>4, Zenon
  <1>16. /\ c \in Seq(Int) /\ Len(c) = 10 /\ \A i \in 1..8 : c[i] = g[i]
         /\ c[9] = ct[1] /\ c[10] = ct[2]
    <2>1. /\ c \in Seq(Int) /\ Len(c) = Len(g) + Len(ct)
          /\ \A i \in 1..Len(g) : c[i] = g[i]
          /\ \A i \in 1..Len(ct) : c[Len(g) + i] = ct[i]
      <3>1. g \in Seq(Int) /\ ct \in Seq(Int) /\ c = g \o ct
        BY <1>15, <1>7, <1>11, Zenon
      <3> QED  BY <3>1, Behind, Zenon
    <2>2. /\ Len(c) = 8 + 2
          /\ \A i \in 1..8 : c[i] = g[i]
          /\ \A i \in 1..2 : c[8 + i] = ct[i]
      <3>1. Len(g) = 8 /\ Len(ct) = 2
        BY <1>15, <1>11, Zenon
      <3>2. Len(c) = 8 + 2
        BY <2>1, <3>1, Zenon
      <3>3. \A i \in 1..8 : c[i] = g[i]
        BY <2>1, <3>1, Zenon
      <3>4. \A i \in 1..2 : c[8 + i] = ct[i]
        BY <2>1, <3>1, Zenon
      <3> QED  BY <3>2, <3>3, <3>4, Zenon
    <2>3. 1 \in 1..2 /\ 2 \in 1..2 /\ 8 + 1 = 9 /\ 8 + 2 = 10
      OBVIOUS
    <2>4. c[8 + 1] = ct[1] /\ c[8 + 2] = ct[2]
      BY <2>2, <2>3, Zenon
    <2> QED  BY <2>1, <2>2, <2>3, <2>4, Zenon
  <1>17. /\ d \in Seq(Int) /\ Len(d) = 13 /\ \A i \in 1..10 : d[i] = c[i]
         /\ \A i \in 1..3 : d[10 + i] = p.mColorShift[i]
    <2>1. /\ d \in Seq(Int) /\ Len(d) = Len(c) + Len(p.mColorShift)
          /\ \A i \in 1..Len(c) : d[i] = c[i]
          /\ \A i \in 1..Len(p.mColorShift) : d[Len(c) + i] = p.mColorShift[i]
      <3>1. c \in Seq(Int) /\ p.mColorShift \in Seq(Int) /\ d = c \o p.mColorShift
        BY <1>16, <1>7, <1>12, Zenon
      <3> QED  BY <3>1, Behind, Zenon
    <2>2. 10 + 3 = 13
      OBVIOUS
    <2> QED  BY <2>1, <2>2, <1>16, <1>12, Zenon
  <1>18. b \in Seq(Int) /\ Len(b) = 16 /\ \A i \in 1..13 : b[i] = d[i]
    <2>1. b \in Seq(Int) /\ Len(b) = Len(d) + Len(z) /\ \A i \in 1..Len(d) : b[i] = d[i]
      <3>1. d \in Seq(Int) /\ z \in Seq(Int) /\ b = d \o z
        BY <1>17, <1>7, <1>13, Zenon
      <3> QED  BY <3>1, Behind, Zenon
    <2>2. 13 + 3 = 16
      OBVIOUS
    <2> QED  BY <2>1, <2>2, <1>17, <1>13, Zenon
  <1>19. \A i \in 1..3 : b[10 + i] = p.mColorShift[i]
    <2>1. \A i \in 1..3 : 10 + i \in 1..13
      OBVIOUS
    <2> QED  BY <1>17, <1>18, <2>1, Zenon
  <1>20. \A i \in 1..10 : b[i] = c[i]
    <2>1. \A i \in 1..10 : i \in 1..13
      OBVIOUS
    <2> QED  BY <1>17, <1>18, <2>1, Zenon
  <1>21. \A i \in 1..8 : b[i] = g[i]
    <2>1. \A i \in 1..8 : i \in 1..10
      OBVIOUS
    <2> QED  BY <1>16, <1>20, <2>1, Zenon
  <1>22. \A i \in 1..6 : b[i] = r[i]
    <2>1. \A i \in 1..6 : i \in 1..8
      OBVIOUS
    <2> QED  BY <1>15, <1>21, <2>1, Zenon
  <1>23. \A i \in 1..4 : b[i] = x[i]
    <2>1. \A i \in 1..4 : i \in 1..6
      OBVIOUS
    <2> QED  BY <1>14, <1>22, <2>1, Zenon
  <1>24. /\ 1 \in 1..4 /\ 2 \in 1..4 /\ 3 \in 1..4 /\ 4 \in 1..4 /\ 5 \in 1..6 /\ 6 \in 1..6
         /\ 7 \in 1..8 /\ 8 \in 1..8 /\ 9 \in 1..10 /\ 10 \in 1..10
    OBVIOUS
  <1>25. /\ b[1] = x[1] /\ b[2] = x[2] /\ b[3] = x[3] /\ b[4] = x[4] /\ b[5] = r[5] /\ b[6] = r[6]
         /\ b[7] = g[7] /\ b[8] = g[8] /\ b[9] = c[9] /\ b[10] = c[10]
    BY <1>20, <1>21, <1>22, <1>23, <1>24, Zenon
  <1>26. /\ b[1] = p.mBitsPerPixel /\ b[2] = p.mDepth
         /\ b[3] = Flag(p.mBigEndian) /\ b[4] = Flag(p.mTrueColor)
    BY <1>4, <1>25, Zenon
  <1>27. /\ b[5] = p.mColorMax[1] \div 256 /\ b[6] = p.mColorMax[1] % 256
         /\ b[7] = p.mColorMax[2] \div 256 /\ b[8] = p.mColorMax[2] % 256
         /\ b[9] = p.mColorMax[3] \div 256 /\ b[10] = p.mColorMax[3] % 256
    <2>1. b[5] = p.mColorMax[1] \div 256 /\ b[6] = p.mColorMax[1] % 256
      BY <1>9, <1>14, <1>25, Zenon
    <2>2. b[7] = p.mColorMax[2] \div 256 /\ b[8] = p.mColorMax[2] % 256
      BY <1>10, <1>15, <1>25, Zenon
    <2>3. b[9] = p.mColorMax[3] \div 256 /\ b[10] = p.mColorMax[3] % 256
      BY <1>11, <1>16, <1>25, Zenon
    <2> QED  BY <2>1, <2>2, <2>3, Zenon
  <1>28. Spelled(b, p)
    BY <1>18, <1>19, <1>26, <1>27 DEF Spelled
  <1> QED  BY <1>8, <1>28, Zenon

(* A format that the client has written is read by the server as it is. *)
THEOREM FormatTravels ==
    ASSUME NEW p \in PixelFormat
    PROVE  readPixelFormat(writePixelFormat(p)) = p
  <1>1. PICK b : b = writePixelFormat(p) /\ Spelled(b, p)
    BY BytesOfFormat, Zenon
  <1>2. p.mColorMax \in [1..3 -> UInt16] /\ p.mColorShift \in [1..3 -> Int]
    BY Members, Colours, Zenon
  <1>3. (b[3] # 0) = p.mBigEndian /\ (b[4] # 0) = p.mTrueColor
    <2>1. b[3] = Flag(p.mBigEndian) /\ b[4] = Flag(p.mTrueColor)
      BY <1>1, Zenon DEF Spelled
    <2>2. p.mBigEndian \in BOOLEAN /\ p.mTrueColor \in BOOLEAN
      BY Members, Zenon
    <2>3. (Flag(p.mBigEndian) # 0) = p.mBigEndian /\ (Flag(p.mTrueColor) # 0) = p.mTrueColor
      BY <2>2, Flags, Zenon
    <2> QED  BY <2>1, <2>3, Zenon
  <1>4. [i \in 1..3 |-> readUInt16(SubSeq(b, 3 + 2 * i, 4 + 2 * i))] = p.mColorMax
    <2>1. \A i \in 1..3 : readUInt16(SubSeq(b, 3 + 2 * i, 4 + 2 * i)) = 256 * b[3 + 2 * i] + b[4 + 2 * i]
      <3>1. ASSUME NEW i \in 1..3
            PROVE  /\ SubSeq(b, 3 + 2 * i, 4 + 2 * i)[1] = b[3 + 2 * i]
                   /\ SubSeq(b, 3 + 2 * i, 4 + 2 * i)[2] = b[4 + 2 * i]
        BY <1>1, SubSeqProperties DEF Spelled
      <3> QED  BY <3>1 DEF readUInt16
    <2>2. p.mColorMax[1] \in UInt16 /\ p.mColorMax[2] \in UInt16 /\ p.mColorMax[3] \in UInt16
      BY <1>2, Colours, Zenon
    <2>3. /\ 256 * b[5] + b[6] = p.mColorMax[1] /\ 256 * b[7] + b[8] = p.mColorMax[2]
          /\ 256 * b[9] + b[10] = p.mColorMax[3]
      <3>1. /\ 256 * (p.mColorMax[1] \div 256) + (p.mColorMax[1] % 256) = p.mColorMax[1]
            /\ 256 * (p.mColorMax[2] \div 256) + (p.mColorMax[2] % 256) = p.mColorMax[2]
            /\ 256 * (p.mColorMax[3] \div 256) + (p.mColorMax[3] % 256) = p.mColorMax[3]
        <4>1. \A v \in UInt16 : 256 * (v \div 256) + (v % 256) = v
          BY NumberTravels, Zenon
        <4>2. 256 * (p.mColorMax[1] \div 256) + (p.mColorMax[1] % 256) = p.mColorMax[1]
          BY <2>2, <4>1, Zenon
        <4>3. 256 * (p.mColorMax[2] \div 256) + (p.mColorMax[2] % 256) = p.mColorMax[2]
          BY <2>2, <4>1, Zenon
        <4>4. 256 * (p.mColorMax[3] \div 256) + (p.mColorMax[3] % 256) = p.mColorMax[3]
          BY <2>2, <4>1, Zenon
        <4> QED  BY <4>2, <4>3, <4>4, Zenon
      <3>2. /\ b[5] = p.mColorMax[1] \div 256 /\ b[6] = p.mColorMax[1] % 256
            /\ b[7] = p.mColorMax[2] \div 256 /\ b[8] = p.mColorMax[2] % 256
            /\ b[9] = p.mColorMax[3] \div 256 /\ b[10] = p.mColorMax[3] % 256
        BY <1>1, SMTT(30) DEF Spelled
      <3>3. 256 * b[5] + b[6] = p.mColorMax[1]
        BY <3>1, <3>2, ZenonT(60)
      <3>4. 256 * b[7] + b[8] = p.mColorMax[2]
        BY <3>1, <3>2, ZenonT(60)
      <3>5. 256 * b[9] + b[10] = p.mColorMax[3]
        BY <3>1, <3>2, ZenonT(60)
      <3> QED  BY <3>3, <3>4, <3>5, Zenon
    <2>4. \A i \in 1..3 : 256 * b[3 + 2 * i] + b[4 + 2 * i] = p.mColorMax[i]
      BY <2>3
    <2>5. \A i \in 1..3 : readUInt16(SubSeq(b, 3 + 2 * i, 4 + 2 * i)) = p.mColorMax[i]
      BY <2>1, <2>4
    <2> QED  BY <1>2, <2>5, SMTT(60)
  <1>5. SubSeq(b, 11, 13) = p.mColorShift
    BY <1>1, <1>2, Shifts, SMTT(30) DEF Spelled
  <1>6. readPixelFormat(b) = p
    <2>1. readPixelFormat(b) = Format(b[1], b[2], b[3] # 0, b[4] # 0, p.mColorMax, p.mColorShift)
      BY <1>4, <1>5, Zenon DEF readPixelFormat
    <2>2. b[1] = p.mBitsPerPixel /\ b[2] = p.mDepth
      BY <1>1, Zenon DEF Spelled
    <2>3. p = Format(p.mBitsPerPixel, p.mDepth, p.mBigEndian, p.mTrueColor, p.mColorMax, p.mColorShift)
      BY IsFormat, Zenon
    <2> QED  BY <1>3, <2>1, <2>2, <2>3, Zenon
  <1> QED  BY <1>1, <1>6, Zenon

LEMMA FormatIs ==
    ASSUME NEW a \in UInt8, NEW b \in UInt8, NEW c \in BOOLEAN, NEW d \in BOOLEAN,
           NEW e \in [1..3 -> UInt16], NEW f \in [1..3 -> UInt8]
    PROVE  Format(a, b, c, d, e, f) \in PixelFormat
  BY DEF PixelFormat, Format

LEMMA TripleIn ==
    ASSUME NEW S, NEW a \in S, NEW b \in S, NEW c \in S
    PROVE  <<a, b, c>> \in [1..3 -> S]
  OBVIOUS

(* The formats that makePixelFormat() makes of itself. *)
LEMMA OwnFormats ==
    DefaultFormat \in PixelFormat /\ \A n : FormatOfBits(n) \in PixelFormat
  <1>1. /\ {0, 2, 5, 8, 11, 16, 24, 32} \subseteq UInt8
        /\ {3, 7, 31, 63, 255} \subseteq UInt16
    BY DEF UInt8, UInt16
  <1>2. /\ <<255, 255, 255>> \in [1..3 -> UInt16] /\ <<31, 63, 31>> \in [1..3 -> UInt16]
        /\ <<7, 7, 3>> \in [1..3 -> UInt16]
    BY <1>1, TripleIn
  <1>3. /\ <<16, 8, 0>> \in [1..3 -> UInt8] /\ <<11, 5, 0>> \in [1..3 -> UInt8]
        /\ <<5, 2, 0>> \in [1..3 -> UInt8]
    BY <1>1, TripleIn
  <1>4. /\ Format(32, 24, FALSE, TRUE, <<255, 255, 255>>, <<16, 8, 0>>) \in PixelFormat
        /\ Format(16, 16, FALSE, TRUE, <<31, 63, 31>>, <<11, 5, 0>>) \in PixelFormat
        /\ Format(8, 8, FALSE, TRUE, <<7, 7, 3>>, <<5, 2, 0>>) \in PixelFormat
    <2>1. Format(32, 24, FALSE, TRUE, <<255, 255, 255>>, <<16, 8, 0>>) \in PixelFormat
      BY <1>1, <1>2, <1>3 DEF Format, PixelFormat
    <2>2. Format(16, 16, FALSE, TRUE, <<31, 63, 31>>, <<11, 5, 0>>) \in PixelFormat
      BY <1>1, <1>2, <1>3 DEF Format, PixelFormat
    <2>3. Format(8, 8, FALSE, TRUE, <<7, 7, 3>>, <<5, 2, 0>>) \in PixelFormat
      BY <1>1, <1>2, <1>3 DEF Format, PixelFormat
    <2> QED  BY <2>1, <2>2, <2>3
  <1> QED  BY <1>4, Zenon DEF DefaultFormat, FormatOfBits

(* What readPixelFormat() makes of sixteen bytes. *)
LEMMA ReadIsFormat ==
    ASSUME NEW b \in [1..16 -> UInt8]
    PROVE  readPixelFormat(b) \in PixelFormat
  <1>1. b[1] \in UInt8 /\ b[2] \in UInt8
    OBVIOUS
  <1>2. (b[3] # 0) \in BOOLEAN /\ (b[4] # 0) \in BOOLEAN
    OBVIOUS
  <1>3. ASSUME NEW n \in UInt8, NEW m \in UInt8
        PROVE  256 * n + m \in UInt16
    <2>1. n \in Nat /\ m \in Nat /\ n <= 255 /\ m <= 255
      BY DEF UInt8
    <2>2. PICK k \in Nat : k = 256 * n + m
      BY <2>1
    <2>3. PICK top \in Nat : top = 256 * 256 - 1
      OBVIOUS
    <2>4. k <= top
      BY <2>1, <2>2, <2>3
    <2>5. k \in 0..top
      BY <2>4
    <2> QED  BY <2>2, <2>3, <2>5, Zenon DEF UInt16
  <1>4. ASSUME NEW i \in 1..3
        PROVE  readUInt16(SubSeq(b, 3 + 2 * i, 4 + 2 * i)) \in UInt16
    <2>1. b[3 + 2 * i] \in UInt8 /\ b[4 + 2 * i] \in UInt8
      OBVIOUS
    <2>2. SubSeq(b, 3 + 2 * i, 4 + 2 * i) = [j \in 1..2 |-> b[2 + 2 * i + j]]
      BY SMT
    <2>3. /\ SubSeq(b, 3 + 2 * i, 4 + 2 * i)[1] = b[3 + 2 * i]
          /\ SubSeq(b, 3 + 2 * i, 4 + 2 * i)[2] = b[4 + 2 * i]
      BY <2>2
    <2> QED  BY <1>3, <2>1, <2>3 DEF readUInt16
  <1>5. [i \in 1..3 |-> readUInt16(SubSeq(b, 3 + 2 * i, 4 + 2 * i))] \in [1..3 -> UInt16]
    BY <1>4
  <1>6. SubSeq(b, 11, 13) \in [1..3 -> UInt8]
    <2>1. SubSeq(b, 11, 13) = [i \in 1..3 |-> b[10 + i]]
      OBVIOUS
    <2>2. \A i \in 1..3 : b[10 + i] \in UInt8
      OBVIOUS
    <2> QED  BY <2>1, <2>2
  <1> QED  BY <1>1, <1>2, <1>5, <1>6, FormatIs DEF readPixelFormat

(* Whatever the application asks for and the server can do. *)
LEMMA MadeIsFormat ==
    ASSUME NEW profile \in Profiles, NEW b \in [1..16 -> UInt8], NEW custom \in PixelFormat
    PROVE  makePixelFormat(profile, readPixelFormat(b), custom) \in PixelFormat
  BY OwnFormats, ReadIsFormat, Zenon DEF makePixelFormat, Profiles

LEMMA ChosenAreFormats == Chosen \subseteq PixelFormat
  <1>1. ASSUME NEW profile \in Profiles, NEW b \in ServerFormats \ BadFormats, NEW custom \in CustomFormats
        PROVE  makePixelFormat(profile, readPixelFormat(b), custom) \in PixelFormat
    <2>1. b \in [1..16 -> UInt8] /\ custom \in PixelFormat
      BY ClientAssumption
    <2> QED  BY <2>1, MadeIsFormat, Zenon
  <1> QED  BY <1>1 DEF Chosen

-----------------------------------------------------------------------------
(* What the server uses once it has heard all is what the client told it.   *)
LEMMA ToldIs ==
    ASSUME HandshakeInv, outcome = "connected"
    PROVE  ToldFormat = mCurrentPixelFormat /\ mCurrentPixelFormat \in Chosen
  <1>1. pc = "done" /\ FormatInv
    BY DEF HandshakeInv, Alive
  <1>2. PICK told, end : told = Told /\ end = End
    OBVIOUS
  <1>3. told.kind = "myPixelFormat" /\ told.val = writePixelFormat(mCurrentPixelFormat) /\ end.kind = "myEncodings"
    BY <1>2 DEF Told, End, Sent
  <1>4. \/ outbound = <<told, end>>
        \/ outbound \in {<<end>>, <<>>} /\ svFormat = writePixelFormat(mCurrentPixelFormat)
    BY <1>1, <1>2 DEF FormatInv
  <1>5. PICK places : places = {i \in DOMAIN outbound : outbound[i].kind = "myPixelFormat"}
    OBVIOUS
  <1>6. /\ mCurrentPixelFormat \in Chosen
        /\ readPixelFormat(writePixelFormat(mCurrentPixelFormat)) = mCurrentPixelFormat
    <2>1. mCurrentPixelFormat \in Chosen
      BY <1>1 DEF FormatInv
    <2> QED  BY <2>1, ChosenAreFormats, FormatTravels, Zenon
  <1>7. CASE outbound = <<told, end>>
    <2>1. places = {1} /\ outbound[1] = told
      BY <1>3, <1>5, <1>7
    <2>2. (CHOOSE i \in places : TRUE) = 1
      BY <2>1
    <2> QED  BY <1>1, <1>3, <1>5, <1>6, <2>1, <2>2 DEF ToldFormat, FormatInv
  <1>8. CASE outbound \in {<<end>>, <<>>} /\ svFormat = writePixelFormat(mCurrentPixelFormat)
    <2>1. places = {}
      BY <1>3, <1>5, <1>8
    <2> QED  BY <1>1, <1>5, <1>6, <1>8, <2>1 DEF ToldFormat, FormatInv
  <1> QED  BY <1>4, <1>7, <1>8

(* A connection that is reported is one that the server granted: version,   *)
(* type, method and encryption are the same on both sides, the server has  *)
(* accepted the client and been told the client's format, and nothing of   *)
(* the handshake is left unread (startVncProtocol() and                    *)
(* performClientAndServerInit() have succeeded).                           *)
THEOREM ConnectionsAreGranted == Spec => []Granted
  <1>1. ASSUME HandshakeInv  PROVE Granted
    <2> SUFFICES ASSUME outcome = "connected"  PROVE Granted
      BY DEF Granted
    <2>1. pc = "done" /\ Alive /\ StreamInv /\ FormatInv
      BY <1>1 DEF HandshakeInv, Alive
    <2>2. PICK b : b = Stream[1]
      OBVIOUS
    <2>3. Next1(b)
      BY <1>1, <2>1, <2>2, StreamHead
    <2>4. sv \in {"myPixelFormat", "myEncodings", "running"}
      BY <2>1 DEF FormatInv
    <2>5. /\ svVerdict = "accepted" /\ mSelectedProtocolVersion = svVersion
          /\ mSelectedVNCSecurityType = svType /\ mSelectedMethod = svMethod
      BY <2>1, <2>3, <2>4, TurnIs DEF Next1, Agree, Denied, Early, Settled, Choosing
    <2>6. encrypted = svTls
      BY <2>1 DEF StreamInv
    <2>7. encrypted = (mSelectedVNCSecurityType = "AnonymousTLS")
      BY <2>1, <2>3 DEF Next1, Agree, Early
    <2>8. /\ mCurrentPixelFormat \in Chosen
          /\ ToldFormat = mCurrentPixelFormat
      BY <1>1, ToldIs
    <2>9. \A i \in 1..Len(Coming) : Coming[i].kind = "message"
      BY <1>1, <2>1, LateStream
    <2> QED  BY <2>4, <2>5, <2>6, <2>7, <2>8, <2>9 DEF Granted
  <1> QED  BY <1>1, HandshakeInvariant, PTL

(* And where the formats that the client may choose tell colours apart, the *)
(* two agree on what a pixel means as well.                                *)
THEOREM WhatIsReportedIsAgreed ==
    ASSUME FormatsDecode
    PROVE  Spec => []Agreement
  <1>1. Granted => Agreement
    BY DEF Granted, Agreement, SameColours, FormatsDecode, Coming
  <1> QED  BY <1>1, ConnectionsAreGranted, PTL


-----------------------------------------------------------------------------
(* Every attempt that fails has the cause that is reported, if a Tight     *)
(* server always lists something: reads of no bytes are then no matter.    *)

-----------------------------------------------------------------------------
(* Where the client expects no list there is none *)

(* Only three places of the client find a length of a Tight server. *)
LEMMA FilledElsewhere ==
    HandshakeInv /\ pc \notin {"tunnelCount", "authCount", "serverInit", "done"}
    /\ (pc = "tunnels" => expected # 0)
    => Filled(Stream[1])
  <1> SUFFICES ASSUME HandshakeInv, pc \notin {"tunnelCount", "authCount", "serverInit", "done"},
                      pc = "tunnels" => expected # 0
               PROVE  Filled(Stream[1])
    OBVIOUS
  <1>1. PICK b : b = Stream[1]
    OBVIOUS
  <1>2. Alive /\ pc \in Places
    BY DEF Alive, HandshakeInv
  <1>3. Fits(b)
    BY <1>1, <1>2 DEF HandshakeInv, StreamInv
  <1>4. b.kind \notin {"tunnelCount", "authCount", "serverInit"}
    BY <1>2, <1>3 DEF Fits, Met, Due, IsTurn, Asked, AskedNoneAndWentOn, AfterNames, Silence,
       Places, Reading, Writing
  <1> QED  BY <1>1, <1>4 DEF Filled

LEMMA FilledElsewhereNext ==
    (HandshakeInv /\ pc \notin {"tunnelCount", "authCount", "serverInit", "done"}
     /\ (pc = "tunnels" => expected # 0)
     => Filled(Stream[1]))'
  BY FilledElsewhere, PTL

(* As long as the client has not given up there is nothing to explain. *)
LEMMA NothingFailed ==
    ASSUME pc # "done" \/ outcome = "connected", HandshakeInv
    PROVE  FailureExplained /\ NothingInCommon
  BY DEF FailureExplained, NothingInCommon, HandshakeInv

LEMMA NothingFailedNext ==
    (pc # "done" \/ outcome = "connected") /\ HandshakeInv => FailureExplained /\ NothingInCommon
  BY NothingFailed

LEMMA NothingFailsNext ==
    ((pc # "done" \/ outcome = "connected") /\ HandshakeInv => FailureExplained /\ NothingInCommon)'
  BY NothingFailedNext, PTL

-----------------------------------------------------------------------------
(* The client reads *)

(* What a read finds tells of the server. *)
Explains(kind, a) ==
    /\ Causes /\ Filled(a)
    /\ Tells(svVerdict, svOffer, svType, a)
    /\ Hopeless(a) => hopeless

(* The item that is read tells it. *)
LEMMA ReadExplains ==
    ASSUME FailureInv, NEW kind, Receive(kind), kind # "done", NEW a, a = Stream[1]
    PROVE  Explains(kind, a)
  <1>1. HandshakeInv /\ Alive /\ pc # "done" /\ inbound # <<>>
    BY DEF FailureInv, Alive, Receive
  <1>2. /\ Causes /\ Filled(a)
        /\ \A i \in DOMAIN inbound : Hopeless(inbound[i]) => hopeless
    BY <1>1 DEF FailureInv, CausesInv
  <1>3. a = Head(inbound) /\ inbound \in Seq(ServerItem)
    BY <1>1, HeadIs DEF HandshakeInv, StreamInv
  <1>4. 1 \in DOMAIN inbound /\ Head(inbound) = inbound[1]
    BY <1>1, <1>3
  <1>5. Hopeless(a) => hopeless
    BY <1>2, <1>3, <1>4
  <1>6. Tells(svVerdict, svOffer, svType, a)
    <2>1. PICK received, sent, turn, stream :
            received = inbound /\ sent = wire /\ turn = Turn /\ stream = Append(received \o sent, turn)
      OBVIOUS
    <2>2. received \in Seq(ServerItem) /\ sent \in Seq(ServerItem)
      BY <1>1, <2>1 DEF HandshakeInv, StreamInv
    <2>3. Len(stream) \in Nat \ {0}
      BY <2>1, <2>2, StreamIs
    <2>4. stream = Stream
      BY <2>1 DEF Stream, Coming
    <2>5. Proper(Known, Turn, stream[1])
      BY <1>1, <2>3, <2>4 DEF HandshakeInv, StreamInv
    <2> QED  BY <2>4, <2>5 DEF Proper, Known
  <1> QED  BY <1>2, <1>5, <1>6 DEF Explains

(* A search that finds nothing has nothing to find. *)
LEMMA FirstOfFinds ==
    ASSUME NEW T, NEW list \in Seq(T), NEW wanted, "Invalid" \notin wanted, FirstOf(list, wanted) = "Invalid"
    PROVE  wanted \cap Range(list) = {}
  <1> SUFFICES ASSUME Range(list) \cap wanted # {}  PROVE FALSE
    OBVIOUS
  <1> DEFINE S == {i \in DOMAIN list : list[i] \in wanted}
             First(i) == list[i] \in wanted /\ \A j \in 1..i - 1 : list[j] \notin wanted
  <1>1. S \subseteq Nat /\ S # {}
    BY DEF Range
  <1>2. PICK n \in S : \A k \in 0..n - 1 : k \notin S
    <2> HIDE DEF S
    <2> QED  BY <1>1, LeastOf
  <1>3. \E i \in DOMAIN list : First(i)
    <2>1. n \in DOMAIN list /\ \A j \in 1..n - 1 : j \in DOMAIN list /\ j \in 0..n - 1
      OBVIOUS
    <2> QED  BY <1>2, <2>1
  <1>4. PICK i : i = CHOOSE j \in DOMAIN list : First(j)
    OBVIOUS
  <1>5. list[i] \in wanted
    BY <1>3, <1>4
  <1>6. FirstOf(list, wanted) = list[i]
    BY <1>4 DEF FirstOf
  <1> QED  BY <1>5, <1>6

(* A framebuffer that does not fit is one that no client can show. *)
LEMMA DoesNotFit ==
    ASSUME NEW size \in Nat \X Nat, NEW bytes \in Nat, checkFramebufferSize(size, bytes, FALSE)
    PROVE  size[1] * size[2] = 0 \/ size[1] * size[2] * bytes > MaxMemory
  <1>1. PICK w \in Nat, h \in Nat : w = size[1] /\ h = size[2]
    OBVIOUS
  <1>2. PICK memory : memory = w * h * bytes
    OBVIOUS
  <1>3. memory \in Nat
    BY <1>2
  <1>4. memory % (2 * IntRange) <= memory
    BY <1>3 DEF IntRange
  <1>5. 0 \in {w, h} \/ memory > MaxMemory
    <2> SUFFICES ASSUME 0 \notin {w, h}, ~(memory > MaxMemory)  PROVE FALSE
      OBVIOUS
    <2>1. memory <= MaxMemory /\ memory % (2 * IntRange) <= MaxMemory
      BY <1>3, <1>4, ServerAssumption DEF IntRange
    <2> QED  BY <1>1, <1>2, <2>1 DEF checkFramebufferSize
  <1>6. 0 \in {w, h} => w * h = 0
    BY <1>1
  <1> QED  BY <1>1, <1>2, <1>5, <1>6

(* Once the name is known, an attempt fails only by the format or the      *)
(* size.                                                                   *)
LEMMA AfterNameEnds ==
    ASSUME AfterName, pc = "name", outcome = "none", FormatInv
    PROVE  /\ pc' = "done" => /\ outcome' = "protocol" => mDefault.format \in BadFormats
                              /\ outcome' = "unusable" => Unusable(mDefault.size, mDefault.format[1])
                              /\ outcome' \in {"protocol", "unusable"}
           /\ pc' # "done" => pc' \in {"capabilityCount", "quiet"}
  <1>1. CASE ~isPixelFormatValidForReceive(readPixelFormat(mDefault.format))
    <2>1. mDefault.format \in BadFormats
      BY <1>1, ClientAssumption DEF FormatInv
    <2> QED  BY <1>1, <2>1 DEF AfterName, Finish
  <1>2. CASE isPixelFormatValidForReceive(readPixelFormat(mDefault.format))
    <2>1. PICK size, bits : size = mDefault.size /\ bits = mDefault.format[1]
      OBVIOUS
    <2>2. size \in Nat \X Nat /\ bits \in {8, 16, 32}
      BY <1>2, <2>1, ServerAssumption DEF FormatInv, isPixelFormatValidForReceive,
         readPixelFormat, Format
    <2>3. readPixelFormat(mDefault.format).mBitsPerPixel = bits
      BY <2>1 DEF readPixelFormat, Format
    <2>4. PICK fits \in BOOLEAN, fitsInside \in BOOLEAN :
            /\ checkFramebufferSize(size, bits \div 8, fits)
            /\ checkFramebufferSize(size, 3, fitsInside)
            /\ IF ~fits \/ ~fitsInside THEN Finish("unusable")
               ELSE goto(IF ListsEncodings THEN "capabilityCount" ELSE "quiet")
      BY <1>2, <2>1, <2>3 DEF AfterName
    <2>5. CASE fits /\ fitsInside
      BY <2>4, <2>5 DEF goto
    <2>6. CASE ~fits \/ ~fitsInside
      <3>1. outcome' = "unusable"
        BY <2>4, <2>6 DEF Finish
      <3>2. bits \div 8 \in Nat
        BY <2>2
      <3>3. \E bytes \in {3, bits \div 8} : size[1] * size[2] = 0 \/ size[1] * size[2] * bytes > MaxMemory
        <4>1. ~fits => checkFramebufferSize(size, bits \div 8, FALSE)
          BY <2>4
        <4>2. ~fitsInside => checkFramebufferSize(size, 3, FALSE)
          BY <2>4
        <4> QED  BY <2>2, <2>6, <3>2, <4>1, <4>2, DoesNotFit
      <3>4. Unusable(size, bits)
        BY <3>3 DEF Unusable
      <3> QED  BY <2>1, <2>4, <2>6, <3>1, <3>4 DEF Finish
    <2> QED  BY <2>4, <2>5, <2>6
  <1> QED  BY <1>1, <1>2

(* What is left to show of a read. *)
LEMMA ReadLeaves ==
    ASSUME FailureInv, HandshakeInv', NEW kind, Receive(kind), kind # "done",
           pc' # "done" => Causes',
           pc' # "done" => pc' \notin {"tunnelCount", "authCount", "serverInit"},
           pc' = "done" => FailureExplained',
           pc' = "done" => NothingInCommon'
    PROVE  CausesInv' /\ FailureExplained'
  <1>1. /\ HandshakeInv /\ pc # "done" /\ CausesInv /\ inbound # <<>> /\ inbound' = Tail(inbound)
        /\ UNCHANGED <<wire, outbound, link, hopeless, svVars, encrypted, attempts>>
    BY DEF FailureInv, Receive
  <1>2. Closing'
    BY <1>1 DEF CausesInv, Closing, svVars
  <1>3. FailureExplained' /\ NothingInCommon'
    BY NothingFailsNext
  <1>4. pc' # "done" => Filled(Stream[1])'
    BY FilledElsewhereNext DEF Causes
  <1>5. \A i \in DOMAIN inbound' : Hopeless(inbound'[i]) => hopeless'
    <2>1. inbound \in Seq(ServerItem) /\ \A i \in DOMAIN inbound : Hopeless(inbound[i]) => hopeless
      BY <1>1 DEF CausesInv, HandshakeInv, StreamInv, Alive
    <2>2. PICK rest : rest = Tail(inbound)
      OBVIOUS
    <2>3. \A i \in DOMAIN rest : i + 1 \in DOMAIN inbound /\ rest[i] = inbound[i + 1]
      BY <1>1, <2>1, <2>2
    <2> QED  BY <1>1, <2>1, <2>2, <2>3
  <1> QED  BY <1>2, <1>3, <1>4, <1>5 DEF CausesInv

(* One lemma for each read: a failure is that of the item. *)
LEMMA VersionExplained ==
    ASSUME FailureInv, NegotiateProtocolVersion
    PROVE  CausesInv' /\ FailureExplained'
  <1>1. Receive("version") /\ HandshakeInv
    BY DEF NegotiateProtocolVersion, FailureInv
  <1>2. PICK a, b : a = Stream[1] /\ b = Stream'[1]
    OBVIOUS
  <1>3. Finds("version", a, b) /\ Explains("version", a)
    BY <1>1, <1>2, ReadFinds, ReadExplains
  <1>4. HandshakeInv'
    BY <1>1, VersionRead
  <1>5. /\ svVerdict = "refused" => pc \in {"result", "reasonLength", "reasonText"} /\ outbound = <<>>
        /\ UNCHANGED <<wire, outbound, link, hopeless, svVars, encrypted>>
        /\ pc' = "done" => outcome' = "protocol" /\ hopeless
        /\ pc' # "done" => pc' = "myVersion"
    BY <1>3 DEF NegotiateProtocolVersion, Finds, Explains, Causes, Finish, goto, Hopeless
  <1>6. pc' # "done" => Causes'
    BY <1>3, <1>5 DEF Finds, Explains, Causes, Tells, svVars
  <1>7. pc' = "done" => FailureExplained'
    BY <1>3, <1>5 DEF Finds, Explains, FailureExplained, Tells, svVars, choices
  <1>8. pc' = "done" => NothingInCommon'
    BY <1>3, <1>5 DEF Finds, Explains, NothingInCommon, Tells, svVars, choices
  <1>9. pc' # "done" => pc' \notin {"tunnelCount", "authCount", "serverInit"}
    BY <1>5
  <1> QED  BY <1>1, <1>4, <1>6, <1>7, <1>8, <1>9, ReadLeaves

LEMMA OldTypeExplained ==
    ASSUME FailureInv, NegotiateRfb33
    PROVE  CausesInv' /\ FailureExplained'
  <1>1. Receive("oldType") /\ HandshakeInv
    BY DEF NegotiateRfb33, FailureInv
  <1>2. PICK a, b : a = Stream[1] /\ b = Stream'[1]
    OBVIOUS
  <1>3. Finds("oldType", a, b) /\ Explains("oldType", a)
    BY <1>1, <1>2, ReadFinds, ReadExplains
  <1>4. HandshakeInv'
    BY <1>1, OldTypeRead
  <1>5. /\ svVerdict = "refused" => pc \in {"result", "reasonLength", "reasonText"} /\ outbound = <<>>
        /\ UNCHANGED <<wire, outbound, link, hopeless, svVars, encrypted>>
        /\ pc' = "done" => outcome' = "protocol" /\ hopeless
        /\ pc' # "done" => /\ pc' \in {"reasonLength", "clientInit", "challenge"}
                           /\ pc' = "reasonLength" => a.val = "Invalid" /\ reasonFor' = "oldTypeInvalid"
    BY <1>3, Selects DEF NegotiateRfb33, Finds, Explains, Causes, Finish, goto, Hopeless,
       Usable, Fits
  <1>6. pc' # "done" => Causes'
    BY <1>3, <1>5 DEF Finds, Explains, Causes, Tells, svVars
  <1>7. pc' = "done" => FailureExplained'
    BY <1>3, <1>5 DEF Finds, Explains, FailureExplained, Tells, svVars, choices
  <1>8. pc' = "done" => NothingInCommon'
    BY <1>3, <1>5 DEF Finds, Explains, NothingInCommon, Tells, svVars, choices
  <1>9. pc' # "done" => pc' \notin {"tunnelCount", "authCount", "serverInit"}
    BY <1>5
  <1> QED  BY <1>1, <1>4, <1>6, <1>7, <1>8, <1>9, ReadLeaves

LEMMA TypeCountExplained ==
    ASSUME FailureInv, ReadTypeCount
    PROVE  CausesInv' /\ FailureExplained'
  <1>1. Receive("typeCount") /\ HandshakeInv
    BY DEF ReadTypeCount, FailureInv
  <1>2. PICK a, b : a = Stream[1] /\ b = Stream'[1]
    OBVIOUS
  <1>3. Finds("typeCount", a, b) /\ Explains("typeCount", a)
    BY <1>1, <1>2, ReadFinds, ReadExplains
  <1>4. HandshakeInv'
    BY <1>1, TypeCountRead
  <1>5. /\ svVerdict = "refused" => pc \in {"result", "reasonLength", "reasonText"} /\ outbound = <<>>
        /\ UNCHANGED <<wire, outbound, link, hopeless, svVars, encrypted>>
        /\ pc' \in {"reasonLength", "types"}
        /\ pc' = "reasonLength" => a.val = 0 /\ reasonFor' = "noTypes"
    BY <1>3 DEF ReadTypeCount, Finds, Explains, Causes, Finish, goto
  <1>6. pc' # "done" => Causes'
    BY <1>3, <1>5 DEF Finds, Explains, Causes, Tells, svVars
  <1>7. pc' = "done" => FailureExplained'
    BY <1>3, <1>5 DEF Finds, Explains, FailureExplained, Tells, svVars, choices
  <1>8. pc' = "done" => NothingInCommon'
    BY <1>3, <1>5 DEF Finds, Explains, NothingInCommon, Tells, svVars, choices
  <1>9. pc' # "done" => pc' \notin {"tunnelCount", "authCount", "serverInit"}
    BY <1>5
  <1> QED  BY <1>1, <1>4, <1>6, <1>7, <1>8, <1>9, ReadLeaves

LEMMA TypesExplained ==
    ASSUME FailureInv, ReadTypes
    PROVE  CausesInv' /\ FailureExplained'
  <1>1. Receive("types") /\ HandshakeInv
    BY DEF ReadTypes, FailureInv
  <1>2. PICK a, b : a = Stream[1] /\ b = Stream'[1]
    OBVIOUS
  <1>3. Finds("types", a, b) /\ Explains("types", a)
    BY <1>1, <1>2, ReadFinds, ReadExplains
  <1>4. HandshakeInv'
    BY <1>1, TypesRead
  <1>5. /\ svVerdict = "refused" => pc \in {"result", "reasonLength", "reasonText"} /\ outbound = <<>>
        /\ UNCHANGED <<wire, outbound, link, hopeless, svVars, encrypted>>
        /\ pc' = "done" => /\ outcome' = "authentication" /\ svOffer # <<>> /\ ~encrypted
                           /\ FirstOf(SupportedTypes, Range(svOffer)) = "Invalid"
                           /\ sv = "myType" /\ outbound = <<>>
        /\ pc' # "done" => pc' = "myType"
    BY <1>3, TurnIs DEF ReadTypes, Finds, Explains, Causes, Finish, goto, Tells, Then, Agree,
       Fits, Met
  <1>6. pc' # "done" => Causes'
    BY <1>3, <1>5 DEF Finds, Explains, Causes, Tells, svVars
  <1>7. pc' = "done" => FailureExplained'
    BY <1>3, <1>5 DEF Finds, Explains, FailureExplained, Tells, svVars, choices
  <1>8. pc' = "done" => NothingInCommon'
    BY <1>3, <1>5 DEF Finds, Explains, NothingInCommon, Tells, svVars, choices
  <1>9. pc' # "done" => pc' \notin {"tunnelCount", "authCount", "serverInit"}
    BY <1>5
  <1> QED  BY <1>1, <1>4, <1>6, <1>7, <1>8, <1>9, ReadLeaves

LEMMA ChallengeExplained ==
    ASSUME FailureInv, VNCAuthenticationChallenge
    PROVE  CausesInv' /\ FailureExplained'
  <1>1. Receive("challenge") /\ HandshakeInv
    BY DEF VNCAuthenticationChallenge, FailureInv
  <1>2. PICK a, b : a = Stream[1] /\ b = Stream'[1]
    OBVIOUS
  <1>3. Finds("challenge", a, b) /\ Explains("challenge", a)
    BY <1>1, <1>2, ReadFinds, ReadExplains
  <1>4. HandshakeInv'
    BY <1>1, ChallengeRead
  <1>5. /\ svVerdict = "refused" => pc \in {"result", "reasonLength", "reasonText"} /\ outbound = <<>>
        /\ UNCHANGED <<wire, outbound, link, hopeless, svVars, encrypted>>
        /\ pc' = "response"
    BY <1>3 DEF VNCAuthenticationChallenge, Finds, Explains, Causes, Finish, goto
  <1>6. pc' # "done" => Causes'
    BY <1>3, <1>5 DEF Finds, Explains, Causes, Tells, svVars
  <1>7. pc' = "done" => FailureExplained'
    BY <1>3, <1>5 DEF Finds, Explains, FailureExplained, Tells, svVars, choices
  <1>8. pc' = "done" => NothingInCommon'
    BY <1>3, <1>5 DEF Finds, Explains, NothingInCommon, Tells, svVars, choices
  <1>9. pc' # "done" => pc' \notin {"tunnelCount", "authCount", "serverInit"}
    BY <1>5
  <1> QED  BY <1>1, <1>4, <1>6, <1>7, <1>8, <1>9, ReadLeaves

LEMMA TunnelCountExplained ==
    ASSUME FailureInv, TightTunnelCount
    PROVE  CausesInv' /\ FailureExplained'
  <1>1. Receive("tunnelCount") /\ HandshakeInv
    BY DEF TightTunnelCount, FailureInv
  <1>2. PICK a, b : a = Stream[1] /\ b = Stream'[1]
    OBVIOUS
  <1>3. Finds("tunnelCount", a, b) /\ Explains("tunnelCount", a)
    BY <1>1, <1>2, ReadFinds, ReadExplains
  <1>4. HandshakeInv'
    BY <1>1, TunnelCountRead
  <1>5. /\ svVerdict = "refused" => pc \in {"result", "reasonLength", "reasonText"} /\ outbound = <<>>
        /\ UNCHANGED <<wire, outbound, link, hopeless, svVars, encrypted>>
        /\ pc' = "done" => outcome' = "protocol" /\ hopeless
        /\ pc' # "done" => pc' = "tunnels" /\ expected' # 0
    BY <1>3 DEF TightTunnelCount, Finds, Explains, Causes, Finish, goto, Filled, Hopeless
  <1>6. pc' # "done" => Causes'
    BY <1>3, <1>5 DEF Finds, Explains, Causes, Tells, svVars
  <1>7. pc' = "done" => FailureExplained'
    BY <1>3, <1>5 DEF Finds, Explains, FailureExplained, Tells, svVars, choices
  <1>8. pc' = "done" => NothingInCommon'
    BY <1>3, <1>5 DEF Finds, Explains, NothingInCommon, Tells, svVars, choices
  <1>9. pc' # "done" => pc' \notin {"tunnelCount", "authCount", "serverInit"}
    BY <1>5
  <1> QED  BY <1>1, <1>4, <1>6, <1>7, <1>8, <1>9, ReadLeaves

LEMMA TunnelsExplained ==
    ASSUME FailureInv, TightTunnels
    PROVE  CausesInv' /\ FailureExplained'
  <1>1. Receive("tunnels") /\ HandshakeInv
    BY DEF TightTunnels, FailureInv
  <1>2. PICK a, b : a = Stream[1] /\ b = Stream'[1]
    OBVIOUS
  <1>3. Finds("tunnels", a, b) /\ Explains("tunnels", a)
    BY <1>1, <1>2, ReadFinds, ReadExplains
  <1>4. HandshakeInv'
    BY <1>1, TunnelsRead
  <1>5. /\ svVerdict = "refused" => pc \in {"result", "reasonLength", "reasonText"} /\ outbound = <<>>
        /\ UNCHANGED <<wire, outbound, link, hopeless, svVars, encrypted>>
        /\ pc' = "done" => outcome' = "protocol" /\ hopeless
        /\ pc' # "done" => pc' = "myTunnel"
    BY <1>3 DEF TightTunnels, Finds, Explains, Causes, Finish, goto, Hopeless
  <1>6. pc' # "done" => Causes'
    BY <1>3, <1>5 DEF Finds, Explains, Causes, Tells, svVars
  <1>7. pc' = "done" => FailureExplained'
    BY <1>3, <1>5 DEF Finds, Explains, FailureExplained, Tells, svVars, choices
  <1>8. pc' = "done" => NothingInCommon'
    BY <1>3, <1>5 DEF Finds, Explains, NothingInCommon, Tells, svVars, choices
  <1>9. pc' # "done" => pc' \notin {"tunnelCount", "authCount", "serverInit"}
    BY <1>5
  <1> QED  BY <1>1, <1>4, <1>6, <1>7, <1>8, <1>9, ReadLeaves

LEMMA AuthCountExplained ==
    ASSUME FailureInv, TightAuthCount
    PROVE  CausesInv' /\ FailureExplained'
  <1>1. Receive("authCount") /\ HandshakeInv
    BY DEF TightAuthCount, FailureInv
  <1>2. PICK a, b : a = Stream[1] /\ b = Stream'[1]
    OBVIOUS
  <1>3. Finds("authCount", a, b) /\ Explains("authCount", a)
    BY <1>1, <1>2, ReadFinds, ReadExplains
  <1>4. HandshakeInv'
    BY <1>1, AuthCountRead
  <1>5. /\ svVerdict = "refused" => pc \in {"result", "reasonLength", "reasonText"} /\ outbound = <<>>
        /\ UNCHANGED <<wire, outbound, link, hopeless, svVars, encrypted>>
        /\ pc' = "done" => outcome' = "protocol" /\ hopeless
        /\ pc' # "done" => pc' = "auths" /\ expected' # 0
    BY <1>3 DEF TightAuthCount, Finds, Explains, Causes, Finish, goto, Filled, Hopeless
  <1>6. pc' # "done" => Causes'
    BY <1>3, <1>5 DEF Finds, Explains, Causes, Tells, svVars
  <1>7. pc' = "done" => FailureExplained'
    BY <1>3, <1>5 DEF Finds, Explains, FailureExplained, Tells, svVars, choices
  <1>8. pc' = "done" => NothingInCommon'
    BY <1>3, <1>5 DEF Finds, Explains, NothingInCommon, Tells, svVars, choices
  <1>9. pc' # "done" => pc' \notin {"tunnelCount", "authCount", "serverInit"}
    BY <1>5
  <1> QED  BY <1>1, <1>4, <1>6, <1>7, <1>8, <1>9, ReadLeaves

LEMMA AuthsExplained ==
    ASSUME FailureInv, TightAuths
    PROVE  CausesInv' /\ FailureExplained'
  <1>1. Receive("auths") /\ HandshakeInv
    BY DEF TightAuths, FailureInv
  <1>2. PICK a, b : a = Stream[1] /\ b = Stream'[1]
    OBVIOUS
  <1>3. Finds("auths", a, b) /\ Explains("auths", a)
    BY <1>1, <1>2, ReadFinds, ReadExplains
  <1>4. HandshakeInv'
    BY <1>1, AuthsRead
  <1>0. FirstOf(Received, SupportedAuths) = "Invalid" => SupportedAuths \cap Range(Received) = {}
    <2>1. a.val \in Seq(STRING)
      BY <1>3 DEF Finds, ServerItem, Numbers, Lists
    <2> QED  BY <1>3, <2>1, FirstOfFinds DEF Finds, SupportedAuths
  <1>5. /\ svVerdict = "refused" => pc \in {"result", "reasonLength", "reasonText"} /\ outbound = <<>>
        /\ UNCHANGED <<wire, outbound, link, hopeless, svVars, encrypted>>
        /\ pc' = "done" => outcome' = "protocol" /\ hopeless
        /\ pc' # "done" => pc' = "myAuth"
    BY <1>3, <1>0 DEF TightAuths, Finds, Explains, Causes, Finish, goto, Hopeless,
       SupportedAuths
  <1>6. pc' # "done" => Causes'
    BY <1>3, <1>5 DEF Finds, Explains, Causes, Tells, svVars
  <1>7. pc' = "done" => FailureExplained'
    BY <1>3, <1>5 DEF Finds, Explains, FailureExplained, Tells, svVars, choices
  <1>8. pc' = "done" => NothingInCommon'
    BY <1>3, <1>5 DEF Finds, Explains, NothingInCommon, Tells, svVars, choices
  <1>9. pc' # "done" => pc' \notin {"tunnelCount", "authCount", "serverInit"}
    BY <1>5
  <1> QED  BY <1>1, <1>4, <1>6, <1>7, <1>8, <1>9, ReadLeaves

LEMMA SubTypeCountExplained ==
    ASSUME FailureInv, ReadSubTypeCount
    PROVE  CausesInv' /\ FailureExplained'
  <1>1. Receive("subTypeCount") /\ HandshakeInv
    BY DEF ReadSubTypeCount, FailureInv
  <1>2. PICK a, b : a = Stream[1] /\ b = Stream'[1]
    OBVIOUS
  <1>3. Finds("subTypeCount", a, b) /\ Explains("subTypeCount", a)
    BY <1>1, <1>2, ReadFinds, ReadExplains
  <1>4. HandshakeInv'
    BY <1>1, SubTypeCountRead
  <1>5. /\ svVerdict = "refused" => pc \in {"result", "reasonLength", "reasonText"} /\ outbound = <<>>
        /\ UNCHANGED <<wire, outbound, link, hopeless, svVars, encrypted>>
        /\ pc' \in {"reasonLength", "subTypes"}
        /\ pc' = "reasonLength" => a.val = 0 /\ reasonFor' = "noSubTypes"
    BY <1>3 DEF ReadSubTypeCount, Finds, Explains, Causes, Finish, goto
  <1>6. pc' # "done" => Causes'
    BY <1>3, <1>5 DEF Finds, Explains, Causes, Tells, svVars
  <1>7. pc' = "done" => FailureExplained'
    BY <1>3, <1>5 DEF Finds, Explains, FailureExplained, Tells, svVars, choices
  <1>8. pc' = "done" => NothingInCommon'
    BY <1>3, <1>5 DEF Finds, Explains, NothingInCommon, Tells, svVars, choices
  <1>9. pc' # "done" => pc' \notin {"tunnelCount", "authCount", "serverInit"}
    BY <1>5
  <1> QED  BY <1>1, <1>4, <1>6, <1>7, <1>8, <1>9, ReadLeaves

LEMMA SubTypesExplained ==
    ASSUME FailureInv, ReadSubTypes
    PROVE  CausesInv' /\ FailureExplained'
  <1>1. Receive("subTypes") /\ HandshakeInv
    BY DEF ReadSubTypes, FailureInv
  <1>2. PICK a, b : a = Stream[1] /\ b = Stream'[1]
    OBVIOUS
  <1>3. Finds("subTypes", a, b) /\ Explains("subTypes", a)
    BY <1>1, <1>2, ReadFinds, ReadExplains
  <1>4. HandshakeInv'
    BY <1>1, SubTypesRead
  <1>5. /\ svVerdict = "refused" => pc \in {"result", "reasonLength", "reasonText"} /\ outbound = <<>>
        /\ UNCHANGED <<wire, outbound, link, hopeless, svVars, encrypted>>
        /\ pc' = "done" => /\ outcome' = "authentication" /\ svOffer # <<>> /\ encrypted
                           /\ FirstOf(SupportedSubTypes, Range(svOffer)) = "Invalid"
                           /\ sv = "mySubType" /\ outbound = <<>>
        /\ pc' # "done" => pc' = "mySubType"
    BY <1>3, TurnIs DEF ReadSubTypes, Finds, Explains, Causes, Finish, goto, Tells, Then, Agree,
       Fits, Met
  <1>6. pc' # "done" => Causes'
    BY <1>3, <1>5 DEF Finds, Explains, Causes, Tells, svVars
  <1>7. pc' = "done" => FailureExplained'
    BY <1>3, <1>5 DEF Finds, Explains, FailureExplained, Tells, svVars, choices
  <1>8. pc' = "done" => NothingInCommon'
    BY <1>3, <1>5 DEF Finds, Explains, NothingInCommon, Tells, svVars, choices
  <1>9. pc' # "done" => pc' \notin {"tunnelCount", "authCount", "serverInit"}
    BY <1>5
  <1> QED  BY <1>1, <1>4, <1>6, <1>7, <1>8, <1>9, ReadLeaves

LEMMA ResultExplained ==
    ASSUME FailureInv, ReadSecurityResult
    PROVE  CausesInv' /\ FailureExplained'
  <1>1. Receive("result") /\ HandshakeInv
    BY DEF ReadSecurityResult, FailureInv
  <1>2. PICK a, b : a = Stream[1] /\ b = Stream'[1]
    OBVIOUS
  <1>3. Finds("result", a, b) /\ Explains("result", a)
    BY <1>1, <1>2, ReadFinds, ReadExplains
  <1>4. HandshakeInv'
    BY <1>1, ResultRead
  <1>0. /\ a.val = 2 => mSelectedVNCSecurityType = "Tight"
        /\ a.val \in Nat /\ mSelectedProtocolVersion \in {3, 7, 8}
        /\ a.val = 0 => svVerdict # "refused"
    <2>1. a.val \in Nat /\ a.kind = "result" /\ mSelectedProtocolVersion \in {3, 7, 8}
      BY <1>3 DEF Finds, ServerItem, Numbers, Lists, Agree
    <2>2. a.val = 2 => mSelectedVNCSecurityType = "Tight"
      BY <1>3, <2>1 DEF Finds, Explains, Tells, Agree, IsTurn, Early
    <2>3. a.val = 0 => svVerdict = "accepted"
      BY <1>3, TurnIs DEF Finds, Then, Agree, Settled
    <2> QED  BY <2>1, <2>2, <2>3
  <1>5. /\ svVerdict = "refused" => pc \in {"result", "reasonLength", "reasonText"} /\ outbound = <<>>
        /\ UNCHANGED <<wire, outbound, link, hopeless, svVars, encrypted>>
        /\ pc' = "done" => /\ outcome' \in {"rejected", "authentication", "protocol"}
                           /\ outcome' = "rejected" => mSelectedVNCSecurityType = "Tight" /\ a.val = 2
                           /\ outcome' = "authentication" => a.val = 1
                           /\ outcome' = "protocol" => hopeless
        /\ pc' # "done" => \/ pc' = "clientInit" /\ svVerdict # "refused"
                           \/ pc' = "reasonLength" /\ a.val = 1 /\ reasonFor' = "failedResult"
        /\ UNCHANGED choices
    BY <1>3, <1>0 DEF ReadSecurityResult, Finds, Explains, Causes, Finish, goto, Hopeless,
       choices
  <1>6. pc' # "done" => Causes'
    BY <1>3, <1>5 DEF Finds, Explains, Causes, Tells, svVars, Fits, Met, Asked, IsTurn
  <1>7. pc' = "done" => FailureExplained'
    BY <1>3, <1>5 DEF Finds, Explains, FailureExplained, Tells, svVars, choices
  <1>8. pc' = "done" => NothingInCommon'
    BY <1>3, <1>5 DEF Finds, Explains, NothingInCommon, Tells, svVars, choices
  <1>9. pc' # "done" => pc' \notin {"tunnelCount", "authCount", "serverInit"}
    BY <1>5
  <1> QED  BY <1>1, <1>4, <1>6, <1>7, <1>8, <1>9, ReadLeaves

LEMMA ReasonLengthExplained ==
    ASSUME FailureInv, ReadReasonLength
    PROVE  CausesInv' /\ FailureExplained'
  <1>1. Receive("reasonLength") /\ HandshakeInv
    BY DEF ReadReasonLength, FailureInv
  <1>2. PICK a, b : a = Stream[1] /\ b = Stream'[1]
    OBVIOUS
  <1>3. Finds("reasonLength", a, b) /\ Explains("reasonLength", a)
    BY <1>1, <1>2, ReadFinds, ReadExplains
  <1>4. HandshakeInv'
    BY <1>1, ReasonLengthRead
  <1>5. /\ svVerdict = "refused" => pc \in {"result", "reasonLength", "reasonText"} /\ outbound = <<>>
        /\ UNCHANGED <<wire, outbound, link, hopeless, svVars, encrypted>>
        /\ svVerdict = IF reasonFor = "failedResult" THEN "refused" ELSE "rejected"
        /\ pc' = "done" => outcome' = Unheard(reasonFor)
        /\ pc' # "done" => pc' = "reasonText" /\ reasonFor' = reasonFor
    BY <1>3 DEF ReadReasonLength, Finds, Explains, Causes, Finish, goto
  <1>6. pc' # "done" => Causes'
    BY <1>3, <1>5 DEF Finds, Explains, Causes, Tells, svVars, Fits, Met
  <1>7. pc' = "done" => FailureExplained'
    BY <1>3, <1>5 DEF Finds, Explains, FailureExplained, Tells, svVars, choices, Unheard, Heard
  <1>8. pc' = "done" => NothingInCommon'
    BY <1>3, <1>5 DEF Finds, Explains, NothingInCommon, Tells, svVars, choices, Unheard, Heard
  <1>9. pc' # "done" => pc' \notin {"tunnelCount", "authCount", "serverInit"}
    BY <1>5
  <1> QED  BY <1>1, <1>4, <1>6, <1>7, <1>8, <1>9, ReadLeaves

LEMMA ReasonTextExplained ==
    ASSUME FailureInv, ReadReasonText
    PROVE  CausesInv' /\ FailureExplained'
  <1>1. Receive("reasonText") /\ HandshakeInv
    BY DEF ReadReasonText, FailureInv
  <1>2. PICK a, b : a = Stream[1] /\ b = Stream'[1]
    OBVIOUS
  <1>3. Finds("reasonText", a, b) /\ Explains("reasonText", a)
    BY <1>1, <1>2, ReadFinds, ReadExplains
  <1>4. HandshakeInv'
    BY <1>1, ReasonTextRead
  <1>5. /\ svVerdict = "refused" => pc \in {"result", "reasonLength", "reasonText"} /\ outbound = <<>>
        /\ UNCHANGED <<wire, outbound, link, hopeless, svVars, encrypted>>
        /\ svVerdict = IF reasonFor = "failedResult" THEN "refused" ELSE "rejected"
        /\ pc' = "done" /\ outcome' = Heard(reasonFor)
    BY <1>3 DEF ReadReasonText, Finds, Explains, Causes, Finish, goto
  <1>6. pc' # "done" => Causes'
    BY <1>3, <1>5 DEF Finds, Explains, Causes, Tells, svVars
  <1>7. pc' = "done" => FailureExplained'
    BY <1>3, <1>5 DEF Finds, Explains, FailureExplained, Tells, svVars, choices, Heard
  <1>8. pc' = "done" => NothingInCommon'
    BY <1>3, <1>5 DEF Finds, Explains, NothingInCommon, Tells, svVars, choices, Heard
  <1>9. pc' # "done" => pc' \notin {"tunnelCount", "authCount", "serverInit"}
    BY <1>5
  <1> QED  BY <1>1, <1>4, <1>6, <1>7, <1>8, <1>9, ReadLeaves

LEMMA ServerInitExplained ==
    ASSUME FailureInv, ReadServerInit
    PROVE  CausesInv' /\ FailureExplained'
  <1>1. Receive("serverInit") /\ HandshakeInv
    BY DEF ReadServerInit, FailureInv
  <1>2. PICK a, b : a = Stream[1] /\ b = Stream'[1]
    OBVIOUS
  <1>3. Finds("serverInit", a, b) /\ Explains("serverInit", a)
    BY <1>1, <1>2, ReadFinds, ReadExplains
  <1>4. HandshakeInv'
    BY <1>1, ServerInitRead
  <1>0. mSelectedVNCSecurityType = "Tight" => a.val.nameLength # 0
    <2>1. svType = mSelectedVNCSecurityType
      BY <1>3 DEF Finds, Agree, Early, IsTurn
    <2> QED  BY <1>3, <2>1 DEF Finds, Explains, Filled
  <1>5. /\ svVerdict = "refused" => pc \in {"result", "reasonLength", "reasonText"} /\ outbound = <<>>
        /\ UNCHANGED <<wire, outbound, link, hopeless, svVars, encrypted>>
        /\ pc' = "done" => outcome' = "protocol" /\ hopeless
        /\ pc' # "done" => /\ pc' = "name" /\ expected' = a.val.nameLength
                           /\ mSelectedVNCSecurityType' = "Tight" => expected' # 0
                           /\ mDefault'.format \in BadFormats => hopeless
                           /\ Unusable(mDefault'.size, mDefault'.format[1]) => hopeless
    BY <1>3, <1>0 DEF ReadServerInit, Finds, Explains, Causes, Finish, goto, Hopeless, choices
  <1>6. pc' # "done" => Causes'
    BY <1>3, <1>5 DEF Finds, Explains, Causes, Tells, svVars
  <1>7. pc' = "done" => FailureExplained'
    BY <1>3, <1>5 DEF Finds, Explains, FailureExplained, Tells, svVars, choices
  <1>8. pc' = "done" => NothingInCommon'
    BY <1>3, <1>5 DEF Finds, Explains, NothingInCommon, Tells, svVars, choices
  <1>9. pc' # "done" => pc' \notin {"tunnelCount", "authCount", "serverInit"}
    BY <1>5
  <1> QED  BY <1>1, <1>4, <1>6, <1>7, <1>8, <1>9, ReadLeaves

LEMMA NameExplained ==
    ASSUME FailureInv, ReadName
    PROVE  CausesInv' /\ FailureExplained'
  <1>1. Receive("name") /\ HandshakeInv
    BY DEF ReadName, FailureInv
  <1>2. PICK a, b : a = Stream[1] /\ b = Stream'[1]
    OBVIOUS
  <1>3. Finds("name", a, b) /\ Explains("name", a)
    BY <1>1, <1>2, ReadFinds, ReadExplains
  <1>4. HandshakeInv'
    BY <1>1, NameRead
  <1>0. /\ pc' = "done" => /\ outcome' = "protocol" => mDefault.format \in BadFormats
                           /\ outcome' = "unusable" => Unusable(mDefault.size, mDefault.format[1])
                           /\ outcome' \in {"protocol", "unusable"}
        /\ pc' # "done" => pc' \in {"capabilityCount", "quiet"}
    BY <1>3, AfterNameEnds DEF ReadName, Finds
  <1>5. /\ svVerdict = "refused" => pc \in {"result", "reasonLength", "reasonText"} /\ outbound = <<>>
        /\ UNCHANGED <<wire, outbound, link, hopeless, svVars, encrypted>>
        /\ pc' = "done" => outcome' \in {"protocol", "unusable"} /\ hopeless
        /\ pc' # "done" => pc' \in {"capabilityCount", "quiet"}
    BY <1>3, <1>0 DEF ReadName, Finds, Explains, Causes, Finish, goto
  <1>6. pc' # "done" => Causes'
    BY <1>3, <1>5 DEF Finds, Explains, Causes, Tells, svVars
  <1>7. pc' = "done" => FailureExplained'
    BY <1>3, <1>5 DEF Finds, Explains, FailureExplained, Tells, svVars, choices
  <1>8. pc' = "done" => NothingInCommon'
    BY <1>3, <1>5 DEF Finds, Explains, NothingInCommon, Tells, svVars, choices
  <1>9. pc' # "done" => pc' \notin {"tunnelCount", "authCount", "serverInit"}
    BY <1>5
  <1> QED  BY <1>1, <1>4, <1>6, <1>7, <1>8, <1>9, ReadLeaves

LEMMA CapabilityCountExplained ==
    ASSUME FailureInv, ReadCapabilityCount
    PROVE  CausesInv' /\ FailureExplained'
  <1>1. Receive("capabilityCount") /\ HandshakeInv
    BY DEF ReadCapabilityCount, FailureInv
  <1>2. PICK a, b : a = Stream[1] /\ b = Stream'[1]
    OBVIOUS
  <1>3. Finds("capabilityCount", a, b) /\ Explains("capabilityCount", a)
    BY <1>1, <1>2, ReadFinds, ReadExplains
  <1>4. HandshakeInv'
    BY <1>1, CapabilityCountRead
  <1>5. /\ svVerdict = "refused" => pc \in {"result", "reasonLength", "reasonText"} /\ outbound = <<>>
        /\ UNCHANGED <<wire, outbound, link, hopeless, svVars, encrypted>>
        /\ pc' = "done" => outcome' = "protocol" /\ hopeless
        /\ pc' # "done" => pc' \in {"quiet", "capabilities"}
    BY <1>3 DEF ReadCapabilityCount, Finds, Explains, Causes, Finish, goto, Hopeless
  <1>6. pc' # "done" => Causes'
    BY <1>3, <1>5 DEF Finds, Explains, Causes, Tells, svVars
  <1>7. pc' = "done" => FailureExplained'
    BY <1>3, <1>5 DEF Finds, Explains, FailureExplained, Tells, svVars, choices
  <1>8. pc' = "done" => NothingInCommon'
    BY <1>3, <1>5 DEF Finds, Explains, NothingInCommon, Tells, svVars, choices
  <1>9. pc' # "done" => pc' \notin {"tunnelCount", "authCount", "serverInit"}
    BY <1>5
  <1> QED  BY <1>1, <1>4, <1>6, <1>7, <1>8, <1>9, ReadLeaves

LEMMA CapabilitiesExplained ==
    ASSUME FailureInv, ReadCapabilities
    PROVE  CausesInv' /\ FailureExplained'
  <1>1. Receive("capabilities") /\ HandshakeInv
    BY DEF ReadCapabilities, FailureInv
  <1>2. PICK a, b : a = Stream[1] /\ b = Stream'[1]
    OBVIOUS
  <1>3. Finds("capabilities", a, b) /\ Explains("capabilities", a)
    BY <1>1, <1>2, ReadFinds, ReadExplains
  <1>4. HandshakeInv'
    BY <1>1, CapabilitiesRead
  <1>5. /\ svVerdict = "refused" => pc \in {"result", "reasonLength", "reasonText"} /\ outbound = <<>>
        /\ UNCHANGED <<wire, outbound, link, hopeless, svVars, encrypted>>
        /\ pc' = "quiet"
    BY <1>3 DEF ReadCapabilities, Finds, Explains, Causes, Finish, goto
  <1>6. pc' # "done" => Causes'
    BY <1>3, <1>5 DEF Finds, Explains, Causes, Tells, svVars
  <1>7. pc' = "done" => FailureExplained'
    BY <1>3, <1>5 DEF Finds, Explains, FailureExplained, Tells, svVars, choices
  <1>8. pc' = "done" => NothingInCommon'
    BY <1>3, <1>5 DEF Finds, Explains, NothingInCommon, Tells, svVars, choices
  <1>9. pc' # "done" => pc' \notin {"tunnelCount", "authCount", "serverInit"}
    BY <1>5
  <1> QED  BY <1>1, <1>4, <1>6, <1>7, <1>8, <1>9, ReadLeaves

-----------------------------------------------------------------------------
(* The client writes, reads nothing, or gives up *)

(* What is left to show of a step that leaves the server alone. *)
LEMMA GoesOn ==
    ASSUME FailureInv, HandshakeInv', pc # "done",
           UNCHANGED <<inbound, wire, link, hopeless, svVars>>,
           pc' # "done" => Causes',
           pc' = "done" => FailureExplained',
           pc' = "done" => NothingInCommon'
    PROVE  CausesInv' /\ FailureExplained'
  <1>1. /\ HandshakeInv /\ Closing /\ Filled(Stream[1])
        /\ \A i \in DOMAIN inbound : Hopeless(inbound[i]) => hopeless
    BY DEF FailureInv, CausesInv
  <1>2. Closing'
    BY <1>1 DEF Closing, svVars
  <1>3. FailureExplained' /\ NothingInCommon'
    BY NothingFailsNext
  <1>4. Filled(Stream[1])'
    <2>1. Stream' = Stream
      BY DEF Stream, Coming, Turn, svVars
    <2> QED  BY <1>1, <2>1 DEF Filled, svVars
  <1>5. \A i \in DOMAIN inbound' : Hopeless(inbound'[i]) => hopeless'
    BY <1>1
  <1> QED  BY <1>2, <1>3, <1>4, <1>5 DEF CausesInv

(* One lemma for each write: a server that has turned the client away is   *)
(* not written to.                                                         *)
LEMMA VersionSentExplained ==
    ASSUME FailureInv, StartVncProtocol
    PROVE  CausesInv' /\ FailureExplained'
  <1>1. HandshakeInv /\ Causes /\ pc = "myVersion" /\ outcome = "none"
    BY DEF FailureInv, CausesInv, HandshakeInv, StartVncProtocol, Send
  <1>2. PICK b : b = Stream[1]
    OBVIOUS
  <1>3. Next1(b)
    BY <1>1, <1>2, StreamHead DEF Alive
  <1>4. HandshakeInv'
    BY <1>1, VersionWritten
  <1>5. /\ UNCHANGED <<inbound, wire, link, hopeless, svVars>>
        /\ pc' \in Places \ {"reasonLength", "reasonText", "tunnels", "auths", "name"}
        /\ pc' = "done" => outcome' = "connected"
    BY <1>1, <1>3 DEF StartVncProtocol, Next1, Agree, Send, goto, Finish, Places, Reading,
       Writing
  <1>6. svVerdict # "refused"
    BY <1>1 DEF Causes
  <1>7. Causes'
    BY <1>5, <1>6 DEF Causes, svVars
  <1>8. pc' = "done" => FailureExplained' /\ NothingInCommon'
    BY <1>4, <1>5, NothingFailsNext
  <1> QED  BY <1>1, <1>4, <1>5, <1>7, <1>8, GoesOn

LEMMA TypeSentExplained ==
    ASSUME FailureInv, SendType
    PROVE  CausesInv' /\ FailureExplained'
  <1>1. HandshakeInv /\ Causes /\ pc = "myType" /\ outcome = "none"
    BY DEF FailureInv, CausesInv, HandshakeInv, SendType, Send
  <1>2. PICK b : b = Stream[1]
    OBVIOUS
  <1>3. Next1(b)
    BY <1>1, <1>2, StreamHead DEF Alive
  <1>4. HandshakeInv'
    BY <1>1, TypeWritten
  <1>5. /\ UNCHANGED <<inbound, wire, link, hopeless, svVars>>
        /\ pc' \in Places \ {"reasonLength", "reasonText", "tunnels", "auths", "name"}
        /\ pc' = "done" => outcome' = "connected"
    BY <1>1, <1>3, Selects DEF SendType, Next1, Agree, Send, goto, Finish, Places, Reading,
       Writing, Usable
  <1>6. svVerdict # "refused"
    BY <1>1 DEF Causes
  <1>7. Causes'
    BY <1>5, <1>6 DEF Causes, svVars
  <1>8. pc' = "done" => FailureExplained' /\ NothingInCommon'
    BY <1>4, <1>5, NothingFailsNext
  <1> QED  BY <1>1, <1>4, <1>5, <1>7, <1>8, GoesOn

LEMMA ResponseSentExplained ==
    ASSUME FailureInv, VNCAuthenticationResponse
    PROVE  CausesInv' /\ FailureExplained'
  <1>1. HandshakeInv /\ Causes /\ pc = "response" /\ outcome = "none"
    BY DEF FailureInv, CausesInv, HandshakeInv, VNCAuthenticationResponse, Send
  <1>2. PICK b : b = Stream[1]
    OBVIOUS
  <1>3. Next1(b)
    BY <1>1, <1>2, StreamHead DEF Alive
  <1>4. HandshakeInv'
    BY <1>1, ResponseWritten
  <1>5. /\ UNCHANGED <<inbound, wire, link, hopeless, svVars>>
        /\ pc' \in Places \ {"reasonLength", "reasonText", "tunnels", "auths", "name"}
        /\ pc' = "done" => outcome' = "connected"
    BY <1>1, <1>3 DEF VNCAuthenticationResponse, Next1, Agree, Send, goto, Finish, Places,
       Reading, Writing
  <1>6. svVerdict # "refused"
    BY <1>1 DEF Causes
  <1>7. Causes'
    BY <1>5, <1>6 DEF Causes, svVars
  <1>8. pc' = "done" => FailureExplained' /\ NothingInCommon'
    BY <1>4, <1>5, NothingFailsNext
  <1> QED  BY <1>1, <1>4, <1>5, <1>7, <1>8, GoesOn

LEMMA TunnelSentExplained ==
    ASSUME FailureInv, TightTunnel
    PROVE  CausesInv' /\ FailureExplained'
  <1>1. HandshakeInv /\ Causes /\ pc = "myTunnel" /\ outcome = "none"
    BY DEF FailureInv, CausesInv, HandshakeInv, TightTunnel, Send
  <1>2. PICK b : b = Stream[1]
    OBVIOUS
  <1>3. Next1(b)
    BY <1>1, <1>2, StreamHead DEF Alive
  <1>4. HandshakeInv'
    BY <1>1, TunnelWritten
  <1>5. /\ UNCHANGED <<inbound, wire, link, hopeless, svVars>>
        /\ pc' \in Places \ {"reasonLength", "reasonText", "tunnels", "auths", "name"}
        /\ pc' = "done" => outcome' = "connected"
    BY <1>1, <1>3 DEF TightTunnel, Next1, Agree, Send, goto, Finish, Places, Reading, Writing
  <1>6. svVerdict # "refused"
    BY <1>1 DEF Causes
  <1>7. Causes'
    BY <1>5, <1>6 DEF Causes, svVars
  <1>8. pc' = "done" => FailureExplained' /\ NothingInCommon'
    BY <1>4, <1>5, NothingFailsNext
  <1> QED  BY <1>1, <1>4, <1>5, <1>7, <1>8, GoesOn

LEMMA AuthSentExplained ==
    ASSUME FailureInv, TightAuthenticate
    PROVE  CausesInv' /\ FailureExplained'
  <1>1. HandshakeInv /\ Causes /\ pc = "myAuth" /\ outcome = "none"
    BY DEF FailureInv, CausesInv, HandshakeInv, TightAuthenticate, Send
  <1>2. PICK b : b = Stream[1]
    OBVIOUS
  <1>3. Next1(b)
    BY <1>1, <1>2, StreamHead DEF Alive
  <1>4. HandshakeInv'
    BY <1>1, AuthWritten
  <1>5. /\ UNCHANGED <<inbound, wire, link, hopeless, svVars>>
        /\ pc' \in Places \ {"reasonLength", "reasonText", "tunnels", "auths", "name"}
        /\ pc' = "done" => outcome' = "connected"
    BY <1>1, <1>3, Uses DEF TightAuthenticate, Next1, Agree, Send, goto, Finish, Places,
       Reading, Writing, SupportedAuths
  <1>6. svVerdict # "refused"
    BY <1>1 DEF Causes
  <1>7. Causes'
    BY <1>5, <1>6 DEF Causes, svVars
  <1>8. pc' = "done" => FailureExplained' /\ NothingInCommon'
    BY <1>4, <1>5, NothingFailsNext
  <1> QED  BY <1>1, <1>4, <1>5, <1>7, <1>8, GoesOn

LEMMA SubTypeSentExplained ==
    ASSUME FailureInv, SendSubType
    PROVE  CausesInv' /\ FailureExplained'
  <1>1. HandshakeInv /\ Causes /\ pc = "mySubType" /\ outcome = "none"
    BY DEF FailureInv, CausesInv, HandshakeInv, SendSubType, Send
  <1>2. PICK b : b = Stream[1]
    OBVIOUS
  <1>3. Next1(b)
    BY <1>1, <1>2, StreamHead DEF Alive
  <1>4. HandshakeInv'
    BY <1>1, SubTypeWritten
  <1>5. /\ UNCHANGED <<inbound, wire, link, hopeless, svVars>>
        /\ pc' \in Places \ {"reasonLength", "reasonText", "tunnels", "auths", "name"}
        /\ pc' = "done" => outcome' = "connected"
    BY <1>1, <1>3, Uses DEF SendSubType, Next1, Agree, Send, goto, Finish, Places, Reading,
       Writing, SupportedAuths
  <1>6. svVerdict # "refused"
    BY <1>1 DEF Causes
  <1>7. Causes'
    BY <1>5, <1>6 DEF Causes, svVars
  <1>8. pc' = "done" => FailureExplained' /\ NothingInCommon'
    BY <1>4, <1>5, NothingFailsNext
  <1> QED  BY <1>1, <1>4, <1>5, <1>7, <1>8, GoesOn

LEMMA ClientInitSentExplained ==
    ASSUME FailureInv, SendClientInit
    PROVE  CausesInv' /\ FailureExplained'
  <1>1. HandshakeInv /\ Causes /\ pc = "clientInit" /\ outcome = "none"
    BY DEF FailureInv, CausesInv, HandshakeInv, SendClientInit, Send
  <1>2. PICK b : b = Stream[1]
    OBVIOUS
  <1>3. Next1(b)
    BY <1>1, <1>2, StreamHead DEF Alive
  <1>4. HandshakeInv'
    BY <1>1, ClientInitWritten
  <1>5. /\ UNCHANGED <<inbound, wire, link, hopeless, svVars>>
        /\ pc' \in Places \ {"reasonLength", "reasonText", "tunnels", "auths", "name"}
        /\ pc' = "done" => outcome' = "connected"
    BY <1>1, <1>3 DEF SendClientInit, Next1, Agree, Send, goto, Finish, Places, Reading, Writing
  <1>6. svVerdict # "refused"
    BY <1>1 DEF Causes
  <1>7. Causes'
    BY <1>5, <1>6 DEF Causes, svVars
  <1>8. pc' = "done" => FailureExplained' /\ NothingInCommon'
    BY <1>4, <1>5, NothingFailsNext
  <1> QED  BY <1>1, <1>4, <1>5, <1>7, <1>8, GoesOn

LEMMA PixelFormatSentExplained ==
    ASSUME FailureInv, SendSetPixelFormat
    PROVE  CausesInv' /\ FailureExplained'
  <1>1. HandshakeInv /\ Causes /\ pc = "myPixelFormat" /\ outcome = "none"
    BY DEF FailureInv, CausesInv, HandshakeInv, SendSetPixelFormat, Send
  <1>2. PICK b : b = Stream[1]
    OBVIOUS
  <1>3. Next1(b)
    BY <1>1, <1>2, StreamHead DEF Alive
  <1>4. HandshakeInv'
    BY <1>1, PixelFormatWritten
  <1>5. /\ UNCHANGED <<inbound, wire, link, hopeless, svVars>>
        /\ pc' \in Places \ {"reasonLength", "reasonText", "tunnels", "auths", "name"}
        /\ pc' = "done" => outcome' = "connected"
    BY <1>1, <1>3 DEF SendSetPixelFormat, Next1, Agree, Send, goto, Finish, Places, Reading,
       Writing
  <1>6. svVerdict # "refused"
    BY <1>1 DEF Causes
  <1>7. Causes'
    BY <1>5, <1>6 DEF Causes, svVars
  <1>8. pc' = "done" => FailureExplained' /\ NothingInCommon'
    BY <1>4, <1>5, NothingFailsNext
  <1> QED  BY <1>1, <1>4, <1>5, <1>7, <1>8, GoesOn

LEMMA EncodingsSentExplained ==
    ASSUME FailureInv, SendSetEncodings
    PROVE  CausesInv' /\ FailureExplained'
  <1>1. HandshakeInv /\ Causes /\ pc = "myEncodings" /\ outcome = "none"
    BY DEF FailureInv, CausesInv, HandshakeInv, SendSetEncodings, Send
  <1>2. PICK b : b = Stream[1]
    OBVIOUS
  <1>3. Next1(b)
    BY <1>1, <1>2, StreamHead DEF Alive
  <1>4. HandshakeInv'
    BY <1>1, EncodingsWritten
  <1>5. /\ UNCHANGED <<inbound, wire, link, hopeless, svVars>>
        /\ pc' \in Places \ {"reasonLength", "reasonText", "tunnels", "auths", "name"}
        /\ pc' = "done" => outcome' = "connected"
    BY <1>1, <1>3 DEF SendSetEncodings, Next1, Agree, Send, goto, Finish, Places, Reading,
       Writing
  <1>6. svVerdict # "refused"
    BY <1>1 DEF Causes
  <1>7. Causes'
    BY <1>5, <1>6 DEF Causes, svVars
  <1>8. pc' = "done" => FailureExplained' /\ NothingInCommon'
    BY <1>4, <1>5, NothingFailsNext
  <1> QED  BY <1>1, <1>4, <1>5, <1>7, <1>8, GoesOn

(* What is next in the socket is a word of the server. *)
LEMMA NextIsWord ==
    ASSUME FailureInv, pc # "done", inbound # <<>>, NEW b, b = Stream[1]
    PROVE  b \in ServerItem /\ (Hopeless(b) => hopeless)
  <1>1. HandshakeInv /\ Alive /\ \A i \in DOMAIN inbound : Hopeless(inbound[i]) => hopeless
    BY DEF FailureInv, CausesInv, Alive
  <1>2. b = Head(inbound) /\ b \in ServerItem
    BY <1>1, HeadIs
  <1>3. inbound \in Seq(ServerItem)
    BY <1>1 DEF HandshakeInv, StreamInv
  <1>4. 1 \in DOMAIN inbound /\ Head(inbound) = inbound[1]
    BY <1>3
  <1> QED  BY <1>1, <1>2, <1>4

(* The server has spoken when it should not have. *)
LEMMA QuietExplained ==
    ASSUME FailureInv, EnsureNoMoreData
    PROVE  CausesInv' /\ FailureExplained'
  <1>1. HandshakeInv /\ Causes /\ pc = "quiet" /\ outcome = "none"
    BY DEF FailureInv, CausesInv, HandshakeInv, EnsureNoMoreData
  <1>2. PICK b : b = Stream[1]
    OBVIOUS
  <1>3. Next1(b)
    BY <1>1, <1>2, StreamHead DEF Alive
  <1>4. HandshakeInv'
    BY <1>1, QuietEnsured
  <1>5. /\ UNCHANGED <<inbound, wire, link, hopeless, svVars>>
        /\ pc' \in {"done", "myPixelFormat"}
        /\ pc' = "done" => outcome' = "protocol" /\ inbound # <<>>
    BY DEF EnsureNoMoreData, goto, Finish, serverVars, channels
  <1>6. inbound # <<>> => hopeless
    <2>1. inbound # <<>> => b \in ServerItem /\ (Hopeless(b) => hopeless)
      BY <1>1, <1>2, NextIsWord
    <2>2. b \in ServerItem => b.kind # "turn"
      BY DEF ServerItem, Numbers, Lists
    <2> QED  BY <1>1, <1>3, <2>1, <2>2 DEF Next1, Fits, Silence, IsTurn, Hopeless
  <1>7. pc' # "done" => Causes'
    BY <1>1, <1>5 DEF Causes, svVars
  <1>8. pc' = "done" => FailureExplained' /\ NothingInCommon'
    BY <1>5, <1>6 DEF FailureExplained, NothingInCommon
  <1> QED  BY <1>1, <1>4, <1>5, <1>7, <1>8, GoesOn

(* Of the reads of no bytes only those of a reason and of a name are left. *)
LEMMA NothingReadExplained ==
    ASSUME FailureInv, ReadNothing
    PROVE  CausesInv' /\ FailureExplained'
  <1>1. /\ HandshakeInv /\ Causes /\ Closing /\ outcome = "none"
        /\ pc \in {"reasonText", "name"} /\ expected = 0
        /\ UNCHANGED <<serverVars, mSelectedProtocolVersion, mSelectedVNCSecurityType, expected, reasonFor, encrypted>>
    BY DEF FailureInv, CausesInv, HandshakeInv, ReadNothing, Causes
  <1>2. PICK b : b = Stream[1]
    OBVIOUS
  <1>3. Next1(b)
    BY <1>1, <1>2, StreamHead DEF Alive
  <1>4. HandshakeInv'
    BY <1>1, NothingRead
  <1>5. UNCHANGED <<inbound, wire, link, hopeless, svVars>>
    BY <1>1 DEF serverVars, channels
  <1>6. CASE pc = "reasonText"
    <2>1. svVerdict = IF reasonFor = "failedResult" THEN "refused" ELSE "rejected"
      BY <1>1, <1>6 DEF Causes
    <2>2. pc' = "done" /\ outcome' \in {Heard(reasonFor), Unheard(reasonFor)}
      BY <1>6 DEF ReadNothing, AfterNothing, Finish, Unable
    <2>3. FailureExplained' /\ NothingInCommon'
      BY <1>5, <2>1, <2>2 DEF FailureExplained, NothingInCommon, Heard, Unheard, svVars
    <2> QED  BY <1>4, <1>5, <1>6, <2>2, <2>3, GoesOn
  <1>7. CASE pc = "name"
    <2>1. /\ mSelectedVNCSecurityType # "Tight"
          /\ mDefault.format \in BadFormats => hopeless
          /\ Unusable(mDefault.size, mDefault.format[1]) => hopeless
      BY <1>1, <1>7 DEF Causes
    <2>2. CASE inbound = <<>> /\ AfterNothing
      <3>1. AfterName
        BY <1>7, <2>2 DEF AfterNothing
      <3>2. /\ pc' = "done" => outcome' \in {"protocol", "unusable"} /\ hopeless
            /\ pc' # "done" => pc' \in {"capabilityCount", "quiet"}
        BY <1>1, <1>3, <1>7, <2>1, <3>1, AfterNameEnds DEF Next1
      <3>3. pc' # "done" => Causes'
        BY <1>1, <1>5, <1>7, <3>2 DEF Causes, svVars
      <3>4. pc' = "done" => FailureExplained' /\ NothingInCommon'
        BY <1>5, <3>2 DEF FailureExplained, NothingInCommon
      <3> QED  BY <1>4, <1>5, <1>7, <3>3, <3>4, GoesOn
    <2>3. CASE Finish(Unable) /\ (inbound # <<>> \/ link = "closed")
      <3>1. pc' = "done" /\ outcome' = "protocol"
        BY <1>7, <2>3 DEF Finish, Unable
      <3>2. link # "closed"
        BY <1>1, <1>3, <1>7 DEF Closing, Next1, Agree
      <3>3. hopeless
        <4>1. b \in ServerItem /\ (Hopeless(b) => hopeless)
          BY <1>2, <1>7, <2>3, <3>2, NextIsWord
        <4>2. b.kind # "turn"
          BY <4>1 DEF ServerItem, Numbers, Lists
        <4> QED  BY <1>1, <1>3, <1>7, <2>1, <4>1, <4>2 DEF Next1, Fits, AfterNames, Silence,
                    IsTurn, Hopeless
      <3>4. FailureExplained' /\ NothingInCommon'
        BY <1>5, <3>1, <3>3 DEF FailureExplained, NothingInCommon
      <3> QED  BY <1>4, <1>5, <1>7, <3>1, <3>4, GoesOn
    <2> QED  BY <1>7, <2>2, <2>3 DEF ReadNothing
  <1> QED  BY <1>1, <1>6, <1>7

(* The TLS handshake, after which the server may have nothing to offer. *)
LEMMA SecuredExplained ==
    ASSUME FailureInv, StartOpenSSLHandshake
    PROVE  CausesInv' /\ FailureExplained'
  <1>1. HandshakeInv /\ CausesInv /\ pc = "tls" /\ sv = "tls" /\ link = "up" /\ outcome = "none"
    BY DEF FailureInv, HandshakeInv, StartOpenSSLHandshake
  <1>2. HandshakeInv'
    BY <1>1, SecuredKeeps
  <1>3. /\ pc' = "subTypeCount" /\ inbound' = inbound /\ hopeless' = hopeless
        /\ \/ svVerdict' = "rejected" /\ sv' = "over"
           \/ svVerdict' = svVerdict /\ link' = link
    BY DEF StartOpenSSLHandshake, SecureServer, goto
  <1>4. svVerdict \notin {"rejected", "refused"}
    BY <1>1 DEF CausesInv, Closing
  <1>5. Closing'
    BY <1>1, <1>3, <1>4 DEF Closing
  <1>6. Causes'
    BY <1>3, <1>4 DEF Causes
  <1>7. Filled(Stream[1])'
    BY <1>2, <1>3, FilledElsewhereNext
  <1>8. FailureExplained' /\ NothingInCommon'
    BY <1>2, <1>3, NothingFailsNext
  <1>9. \A i \in DOMAIN inbound' : Hopeless(inbound'[i]) => hopeless'
    BY <1>1, <1>3 DEF CausesInv
  <1> QED  BY <1>5, <1>6, <1>7, <1>8, <1>9 DEF CausesInv

(* A connection that is lost was cut, or closed by a server that turned    *)
(* the client away.                                                        *)
LEMMA LostExplained ==
    ASSUME FailureInv, ConnectionLost
    PROVE  CausesInv' /\ FailureExplained'
  <1>1. HandshakeInv /\ Causes /\ Closing /\ pc # "done" /\ pc \in Reading \cup Writing \cup {"tls"}
    BY DEF FailureInv, CausesInv, ConnectionLost, Reading, Writing
  <1>2. PICK b : b = Stream[1]
    OBVIOUS
  <1>3. Next1(b)
    BY <1>1, <1>2, StreamHead DEF Alive
  <1>4. /\ pc' = "done" /\ outcome' = Unable
        /\ UNCHANGED <<inbound, wire, link, hopeless, svVars, choices, encrypted>>
    BY DEF ConnectionLost, Finish, serverVars, channels
  <1>5. HandshakeInv'
    BY <1>1, EndKeeps
  <1>6. link = "down" \/ (link = "closed" /\ svVerdict \in {"rejected", "refused"} /\ sv = "over")
    BY <1>1 DEF ConnectionLost, Closing
  <1>7. svVerdict # "refused" \/ link = "down" \/ pc \in {"reasonLength", "reasonText"}
    <2> SUFFICES ASSUME svVerdict = "refused", link # "down", pc = "result"  PROVE FALSE
      BY <1>1 DEF Causes
    <2>1. outbound = <<>> /\ inbound = <<>> /\ wire = <<>>
      BY <1>1 DEF Causes, ConnectionLost, Writing
    <2>2. b = Turn
      <3>1. PICK turn : turn = Turn
        OBVIOUS
      <3>2. Stream = <<turn>>
        BY <2>1, <3>1, Appended DEF Stream, Coming
      <3> QED  BY <1>2, <3>1, <3>2
    <2>3. sv = "over"
      BY <1>6
    <2> QED  BY <1>3, <2>1, <2>2, <2>3 DEF Next1, Fits, Met, Asked, IsTurn, Turn
  <1>8. pc \in {"myPixelFormat", "myEncodings"} => link = "down"
    BY <1>3, <1>6 DEF Next1, Agree, FormatInv
  <1>9. pc = "tls" => mSelectedVNCSecurityType = "AnonymousTLS"
    BY <1>3 DEF Next1, Agree
  <1>10. pc \in {"reasonLength", "reasonText"} => svVerdict = IF reasonFor = "failedResult" THEN "refused" ELSE "rejected"
    BY <1>1 DEF Causes
  <1>11. FailureExplained' /\ NothingInCommon'
    BY <1>4, <1>6, <1>7, <1>8, <1>9, <1>10 DEF FailureExplained, NothingInCommon, Unable,
       Unheard, Heard, svVars, choices
  <1> QED  BY <1>1, <1>4, <1>5, <1>11, GoesOn

(* The user and the TLS libraries. *)
LEMMA EndExplained ==
    ASSUME FailureInv, Interrupted \/ TlsHandshakeFails \/ VeNCryptHandshake
    PROVE  CausesInv' /\ FailureExplained'
  <1>1. HandshakeInv /\ pc # "done"
    BY DEF FailureInv, Interrupted, TlsHandshakeFails, VeNCryptHandshake, Reading, Writing
  <1>2. PICK b : b = Stream[1]
    OBVIOUS
  <1>3. Next1(b)
    BY <1>1, <1>2, StreamHead DEF Alive
  <1>4. /\ pc' = "done"
        /\ \/ outcome' = "interrupted"
           \/ outcome' = "handshake" /\ pc = "tls"
           \/ outcome' = "generic" /\ pc = "vencrypt"
        /\ UNCHANGED <<inbound, wire, link, hopeless, svVars, choices>>
    BY DEF Interrupted, TlsHandshakeFails, VeNCryptHandshake, Finish, serverVars, channels
  <1>5. HandshakeInv'
    BY <1>1, EndKeeps
  <1>6. /\ pc = "tls" => mSelectedVNCSecurityType = "AnonymousTLS"
        /\ pc = "vencrypt" => mSelectedVNCSecurityType = "VeNCrypt"
    BY <1>3 DEF Next1, Agree
  <1>7. FailureExplained' /\ NothingInCommon'
    BY <1>4, <1>6 DEF FailureExplained, NothingInCommon, choices
  <1> QED  BY <1>1, <1>4, <1>5, <1>7, GoesOn

-----------------------------------------------------------------------------
(* The server goes on *)

(* A server that goes on has turned nobody away, and a client that gave up *)
(* did so for another reason.                                              *)
LEMMA ServerGoesOn ==
    ASSUME FailureInv, HandshakeInv', UNCHANGED clientVars,
           link = "up", sv # "over", outbound # <<>> \/ sv = "announce",
           inbound' = inbound, hopeless' = hopeless, Closing',
           pc # "done" => pc \notin {"reasonLength", "reasonText"},
           pc # "done" /\ svVerdict' = "refused" => pc = "result" /\ outbound' = <<>>,
           pc \in {"tunnelCount", "authCount", "serverInit"} => Filled(Stream[1])'
    PROVE  CausesInv' /\ FailureExplained'
  <1>1. HandshakeInv /\ CausesInv /\ FailureExplained
    BY DEF FailureInv
  <1>2. UNCHANGED <<pc, choices, formats, expected, reasonFor, encrypted, outcome>>
    BY DEF clientVars
  <1>3. svVerdict \notin {"rejected", "refused"}
    BY <1>1 DEF CausesInv, Closing
  <1>4. FailureExplained' /\ NothingInCommon'
    BY <1>1, <1>2, <1>3 DEF FailureExplained, CausesInv, NothingInCommon, choices
  <1>5. pc # "done" => Causes'
    BY <1>1, <1>2 DEF CausesInv, Causes, choices, formats
  <1>6. pc # "done" => Filled(Stream[1])'
    BY <1>1, <1>2, FilledElsewhereNext DEF CausesInv, Causes
  <1>7. pc # "done" => \A i \in DOMAIN inbound' : Hopeless(inbound'[i]) => hopeless'
    BY <1>1 DEF CausesInv
  <1> QED  BY <1>2, <1>4, <1>5, <1>6, <1>7 DEF CausesInv

(* The server speaks first. *)
LEMMA GreetingExplained ==
    ASSUME FailureInv, HangUp \/ Announce, UNCHANGED clientVars
    PROVE  CausesInv' /\ FailureExplained'
  <1>1. HandshakeInv /\ HandshakeInv' /\ CausesInv
    <2>1. ServerNext
      BY DEF ServerNext
    <2> QED  BY <2>1, HandshakeStep DEF FailureInv, Next
  <1>2. /\ link = "up" /\ sv = "announce" /\ inbound' = inbound /\ hopeless' = hopeless
        /\ \/ svVerdict' = "rejected" /\ sv' = "over"
           \/ svVerdict' = svVerdict /\ link' = link
    BY DEF HangUp, Announce, Say, Reject
  <1>3. pc # "done" => pc = "version"
    <2>1. pc # "done" => Agree(Stream[1])
      BY <1>1 DEF HandshakeInv, ChoicesInv, Alive
    <2> QED  BY <1>2, <2>1 DEF Agree
  <1>4. Closing' /\ svVerdict' # "refused"
    BY <1>1, <1>2 DEF CausesInv, Closing
  <1> QED  BY <1>1, <1>2, <1>3, <1>4, ServerGoesOn

(* A server closes the connection only as it turns the client away. *)
LEMMA JudgeCloses ==
    ASSUME link = "up", NEW method, NEW before, Judge(method, before)
    PROVE  /\ Closing'
           /\ svVerdict' = "refused" => method # "None" \/ ~(svVersion' < 8)
  <1>1. CASE method = "None" /\ svVersion' < 8
    BY <1>1 DEF Judge, Closing
  <1>2. CASE ~(method = "None" /\ svVersion' < 8)
    <2>1. PICK r \in Results :
            CASE r = 0 -> /\ Say(before \o <<Item("result", 0)>>, "clientInit")
                          /\ svVerdict' = "accepted" /\ UNCHANGED link
              [] r = 1 /\ svVersion' >= 8 -> Reject(before \o <<Item("result", 1)>>, "refused")
              [] r = 2 /\ svType' # "Tight" -> FALSE
              [] OTHER -> /\ Say(before \o <<Item("result", r)>>, "over")
                          /\ svVerdict' = "refused" /\ link' = "closed"
      BY <1>2 DEF Judge
    <2>2. CASE r = 0
      <3>1. svVerdict' = "accepted" /\ link' = link
        BY <2>1, <2>2
      <3> QED  BY <3>1 DEF Closing
    <2>3. CASE r = 1 /\ svVersion' >= 8
      <3>1. Reject(before \o <<Item("result", 1)>>, "refused")
        BY <2>1, <2>3
      <3> QED  BY <1>2, <3>1 DEF Reject, Closing
    <2>4. CASE r # 0 /\ ~(r = 1 /\ svVersion' >= 8)
      <3>1. svVerdict' = "refused" /\ sv' = "over"
        BY <2>1, <2>4 DEF Say
      <3> QED  BY <1>2, <3>1 DEF Closing
    <2> QED  BY <2>2, <2>3, <2>4
  <1> QED  BY <1>1, <1>2

(* So it is when a method starts. *)
LEMMA AuthenticateCloses ==
    ASSUME link = "up", svVerdict \notin {"rejected", "refused"}, NEW method, NEW before, Authenticate(method, before)
    PROVE  /\ Closing'
           /\ svVerdict' = "refused" => method = "None" /\ ~(svVersion' < 8)
  <1>1. CASE method = "None"
    BY <1>1, JudgeCloses DEF Authenticate
  <1>2. CASE method # "None"
    BY <1>2 DEF Authenticate, Closing
  <1> QED  BY <1>1, <1>2

(* A Tight server has something to choose from. *)
LEMMA TightAsks ==
    ASSUME ~EmptyTight, NEW before, TightAuth(before)
    PROVE  \E list \in AuthLists : /\ list # <<>> /\ wire' = wire \o (before \o Listed("authCount", "auths", list))
                                   /\ sv' = "myAuth" /\ UNCHANGED <<svVerdict, link>>
  BY ServerAssumption DEF TightAuth, OrEmpty, Say

(* What the server says first is what the client finds next. *)
LEMMA FirstSaid ==
    ASSUME inbound' = <<>>, NEW item, NEW rest \in Seq(ServerItem), item \in ServerItem, wire' = <<item>> \o rest
    PROVE  Stream'[1] = item
  <1>1. PICK sent, turn : sent = <<item>> \o rest /\ turn = Turn'
    OBVIOUS
  <1>2. <<item>> \in Seq(ServerItem)
    OBVIOUS
  <1>3. sent \in Seq(ServerItem) /\ Len(sent) = 1 + Len(rest) /\ sent[1] = item
    BY <1>1, <1>2
  <1>4. Stream' = Append(sent, turn)
    <2>1. <<>> \o sent = sent
      BY <1>3, ConcatEmptySeq
    <2>2. Coming' = sent
      BY <1>1, <2>1 DEF Coming
    <2> QED  BY <1>1, <2>2 DEF Stream
  <1>5. Append(sent, turn)[1] = sent[1]
    <2>1. Len(rest) \in Nat
      OBVIOUS
    <2>2. 1 \in 1..Len(sent)
      BY <1>3, <2>1
    <2> QED  BY <1>3, <2>2
  <1> QED  BY <1>3, <1>4, <1>5

(* A list with entries is preceded by its length, which is not zero. *)
LEMMA FirstListed ==
    ASSUME svTls \in BOOLEAN, NEW list \in Seq(STRING), list # <<>>, NEW count, NEW kind,
           \/ count = "tunnelCount" /\ kind = "tunnels"
           \/ count = "authCount" /\ kind = "auths",
           inbound' = <<>>, wire' \in {<<>> \o Listed(count, kind, list), <<>> \o (<<>> \o Listed(count, kind, list))}
    PROVE  Filled(Stream[1])'
  <1>1. PICK n \in Nat : n = Len(list) /\ n # 0
    OBVIOUS
  <1>2. PICK item, all : item = Item(count, n) /\ all = Item(kind, list)
    OBVIOUS
  <1>3. item.kind = count /\ item.val = n /\ item \in ServerItem /\ all \in ServerItem
    BY <1>1, <1>2, ItemIs DEF Numbers, Lists
  <1>4. <<all>> \in Seq(ServerItem) /\ <<item>> \o <<all>> \in Seq(ServerItem)
    BY <1>3
  <1>5. Listed(count, kind, list) = <<item>> \o <<all>>
    BY <1>1, <1>2 DEF Listed
  <1>6. wire' = <<item>> \o <<all>>
    BY <1>4, <1>5, ConcatEmptySeq
  <1>7. Stream'[1] = item
    BY <1>3, <1>4, <1>6, FirstSaid
  <1> QED  BY <1>1, <1>3, <1>7 DEF Filled

(* A client that went on without a result finds nothing yet. *)
LEMMA StillWaits == HandshakeInv /\ pc = "serverInit" /\ outbound # <<>> => Filled(Stream[1])
  <1> SUFFICES ASSUME HandshakeInv, pc = "serverInit", outbound # <<>>  PROVE Filled(Stream[1])
    OBVIOUS
  <1>1. PICK b : b = Stream[1]
    OBVIOUS
  <1>2. Fits(b)
    BY <1>1 DEF HandshakeInv, StreamInv, Alive
  <1>3. b.kind = "turn"
    BY <1>2 DEF Fits, Met, IsTurn, AskedNoneAndWentOn
  <1> QED  BY <1>1, <1>3 DEF Filled

LEMMA StillWaitsNext == (HandshakeInv /\ pc = "serverInit" /\ outbound # <<>> => Filled(Stream[1]))'
  BY StillWaits, PTL

(* One lemma for each step that answers the client. *)
LEMMA VersionTakenExplained ==
    ASSUME FailureInv, ~EmptyTight, TakeVersion, UNCHANGED clientVars
    PROVE  CausesInv' /\ FailureExplained'
  <1>1. HandshakeInv /\ HandshakeInv' /\ CausesInv
    <2>1. ServerNext
      BY DEF ServerNext
    <2> QED  BY <2>1, HandshakeStep DEF FailureInv, Next
  <1>2. Hears("myVersion")
    BY DEF TakeVersion
  <1>3. /\ link = "up" /\ sv = "myVersion" /\ outbound # <<>> /\ outbound' = Tail(outbound)
        /\ inbound' = inbound /\ hopeless' = hopeless
    BY <1>2 DEF Hears
  <1>4. svVerdict \notin {"rejected", "refused"}
    BY <1>1, <1>3 DEF CausesInv, Closing
  <1>5. PICK b : b = Stream[1]
    OBVIOUS
  <1>6. pc # "done" =>
          /\ Agree(b) /\ Fits(b) /\ b.kind = "turn" /\ IsTurn(b, "myVersion") /\ pc \in Places \ {"myEncodings", "done"}
          /\ inbound = <<>> /\ wire = <<>> /\ svTls \in BOOLEAN
    BY <1>1, <1>2, <1>3, <1>5, HearsAt DEF Alive
  <1>7. pc # "done" => pc \in {"oldType", "typeCount"}
    BY <1>3, <1>6 DEF Fits, Met, Due, IsTurn, Asked, AskedNoneAndWentOn, Places, Reading,
       Writing, AfterNames, Silence
  <1>8. Closing' /\ svVerdict' # "refused"
    <2>1. CASE svVersion' = 3
      <3>1. PICK t \in OldTypes :
              CASE t = "Invalid" -> Reject(<<Item("oldType", t)>>, "rejected")
                [] t \in {"None", "VNCAuthentication"} -> Authenticate(t, <<Item("oldType", t)>>)
                [] OTHER -> UNCHANGED <<svVerdict, link>>
        BY <2>1 DEF TakeVersion
      <3>2. CASE t = "Invalid"
        BY <3>1, <3>2 DEF Reject, Closing
      <3>3. CASE t \in {"None", "VNCAuthentication"}
        <4>1. Authenticate(t, <<Item("oldType", t)>>)
          BY <3>1, <3>3
        <4> QED  BY <1>3, <1>4, <2>1, <4>1, AuthenticateCloses
      <3>4. CASE t \notin {"Invalid", "None", "VNCAuthentication"}
        <4>1. UNCHANGED <<svVerdict, link>>
          BY <3>1, <3>4
        <4> QED  BY <1>3, <1>4, <4>1 DEF Closing
      <3> QED  BY <3>2, <3>3, <3>4
    <2>2. CASE svVersion' # 3
      <3>1. \/ svVerdict' = "rejected" /\ sv' = "over"
            \/ UNCHANGED <<svVerdict, link>>
        BY <2>2 DEF TakeVersion, Reject
      <3> QED  BY <1>3, <1>4, <3>1 DEF Closing
    <2> QED  BY <2>1, <2>2
  <1> QED  BY <1>1, <1>3, <1>7, <1>8, ServerGoesOn

LEMMA TunnelTakenExplained ==
    ASSUME FailureInv, ~EmptyTight, TakeTunnel, UNCHANGED clientVars
    PROVE  CausesInv' /\ FailureExplained'
  <1>1. HandshakeInv /\ HandshakeInv' /\ CausesInv
    <2>1. ServerNext
      BY DEF ServerNext
    <2> QED  BY <2>1, HandshakeStep DEF FailureInv, Next
  <1>2. Hears("myTunnel")
    BY DEF TakeTunnel
  <1>3. /\ link = "up" /\ sv = "myTunnel" /\ outbound # <<>> /\ outbound' = Tail(outbound)
        /\ inbound' = inbound /\ hopeless' = hopeless
    BY <1>2 DEF Hears
  <1>4. svVerdict \notin {"rejected", "refused"}
    BY <1>1, <1>3 DEF CausesInv, Closing
  <1>5. PICK b : b = Stream[1]
    OBVIOUS
  <1>6. pc # "done" =>
          /\ Agree(b) /\ Fits(b) /\ b.kind = "turn" /\ IsTurn(b, "myTunnel") /\ pc \in Places \ {"myEncodings", "done"}
          /\ inbound = <<>> /\ wire = <<>> /\ svTls \in BOOLEAN
    BY <1>1, <1>2, <1>3, <1>5, HearsAt DEF Alive
  <1>7. PICK list \in AuthLists : /\ list # <<>> /\ wire' = wire \o (<<>> \o Listed("authCount", "auths", list))
                                /\ UNCHANGED <<svVerdict, link>>
    BY TightAsks DEF TakeTunnel
  <1>8. pc # "done" => pc = "authCount"
    BY <1>3, <1>6 DEF Fits, Met, Due, IsTurn, Asked, AskedNoneAndWentOn, Places, Reading,
       Writing, AfterNames, Silence
  <1>9. Closing' /\ svVerdict' # "refused"
    BY <1>3, <1>4, <1>7 DEF Closing
  <1>10. pc # "done" => Filled(Stream[1])'
    <2> SUFFICES ASSUME pc # "done"  PROVE Filled(Stream[1])'
      OBVIOUS
    <2>1. list \in Seq(STRING)
      BY ServerAssumption
    <2> QED  BY <1>3, <1>6, <1>7, <2>1, FirstListed
  <1> QED  BY <1>1, <1>3, <1>8, <1>9, <1>10, ServerGoesOn

LEMMA TypeTakenExplained ==
    ASSUME FailureInv, ~EmptyTight, TakeType, UNCHANGED clientVars
    PROVE  CausesInv' /\ FailureExplained'
  <1>1. HandshakeInv /\ HandshakeInv' /\ CausesInv
    <2>1. ServerNext
      BY DEF ServerNext
    <2> QED  BY <2>1, HandshakeStep DEF FailureInv, Next
  <1>2. Hears("myType")
    BY DEF TakeType
  <1>3. /\ link = "up" /\ sv = "myType" /\ outbound # <<>> /\ outbound' = Tail(outbound)
        /\ inbound' = inbound /\ hopeless' = hopeless
    BY <1>2 DEF Hears
  <1>4. svVerdict \notin {"rejected", "refused"}
    BY <1>1, <1>3 DEF CausesInv, Closing
  <1>5. PICK b : b = Stream[1]
    OBVIOUS
  <1>6. pc # "done" =>
          /\ Agree(b) /\ Fits(b) /\ b.kind = "turn" /\ IsTurn(b, "myType") /\ pc \in Places \ {"myEncodings", "done"}
          /\ inbound = <<>> /\ wire = <<>> /\ svTls \in BOOLEAN
    BY <1>1, <1>2, <1>3, <1>5, HearsAt DEF Alive
  <1>7. pc # "done" =>
          /\ mSelectedProtocolVersion \in {3, 7, 8} /\ ~Denied(b) /\ svVersion = mSelectedProtocolVersion
    BY <1>6 DEF Agree, Denied, Fits, Met, Due, IsTurn
  <1>8. pc # "done" =>
        \/ pc = "tunnelCount" /\ outbound = <<Sent("myType", "Tight")>>
        \/ pc = "tls" /\ outbound = <<Sent("myType", "AnonymousTLS")>>
        \/ pc = "vencrypt" /\ outbound = <<Sent("myType", "VeNCrypt")>>
        \/ /\ pc = "challenge" /\ outbound = <<Sent("myType", "VNCAuthentication")>>
           /\ mSelectedVNCSecurityType = "VNCAuthentication"
        \/ /\ pc = "result" /\ outbound = <<Sent("myType", "None")>>
           /\ mSelectedVNCSecurityType = "None" /\ mSelectedMethod = "None" /\ mSelectedProtocolVersion = 8
        \/ /\ pc = "clientInit" /\ outbound = <<Sent("myType", "None")>>
           /\ mSelectedVNCSecurityType = "None" /\ mSelectedMethod = "None" /\ mSelectedProtocolVersion < 8
        \/ /\ pc = "serverInit" /\ outbound = <<Sent("myType", "None"), Sent("clientInit", 0)>>
           /\ mSelectedVNCSecurityType = "None" /\ mSelectedMethod = "None" /\ mSelectedProtocolVersion < 8
    BY <1>3, <1>6, <1>7 DEF Fits, Met, Due, IsTurn, Asked, AskedNoneAndWentOn, Places, Reading,
       Writing, AfterNames, Silence, Agree, Denied
  <1>9. pc # "done" =>
          /\ outbound' = IF pc = "serverInit" THEN <<Sent("clientInit", 0)>> ELSE <<>>
          /\ svType' = "None" => pc = "result" \/ (pc \in {"clientInit", "serverInit"} /\ svVersion < 8)
          /\ pc = "tunnelCount" => svType' = "Tight"
    <2> SUFFICES ASSUME pc # "done"
                 PROVE  /\ outbound' = IF pc = "serverInit" THEN <<Sent("clientInit", 0)>> ELSE <<>>
                        /\ svType' = "None" => pc = "result" \/ (pc \in {"clientInit", "serverInit"} /\ svVersion < 8)
                        /\ pc = "tunnelCount" => svType' = "Tight"
      OBVIOUS
    <2>1. outbound' = IF pc = "serverInit" THEN <<Sent("clientInit", 0)>> ELSE <<>>
      BY <1>3, <1>8, TakenFrom
    <2>2. PICK type : Head(outbound) = Sent("myType", type) /\ (pc = "tunnelCount" => type = "Tight")
                      /\ (type = "None" => pc = "result" \/ (pc \in {"clientInit", "serverInit"} /\ svVersion < 8))
      BY <1>7, <1>8, TakenFrom
    <2>3. svType' = type
      BY <2>2 DEF TakeType, Sent
    <2> QED  BY <2>1, <2>2, <2>3
  <1>10. svVersion' = svVersion
    BY DEF TakeType
  <1>11. \/ Authenticate(svType', <<>>) /\ svType' # "Tight"
         \/ /\ svType' = "Tight" /\ UNCHANGED <<svVerdict, link>>
            /\ \E list \in TunnelLists : list # <<>> /\ wire' = wire \o Listed("tunnelCount", "tunnels", list)
         \/ svType' # "Tight" /\ UNCHANGED <<svVerdict, link>>
    BY ServerAssumption DEF TakeType, OrEmpty, Say
  <1>12. /\ Closing'
         /\ pc # "done" /\ svVerdict' = "refused" => pc = "result" /\ outbound' = <<>>
    <2>1. CASE Authenticate(svType', <<>>)
      BY <1>3, <1>4, <1>9, <1>10, <2>1, AuthenticateCloses
    <2>2. CASE UNCHANGED <<svVerdict, link>>
      BY <1>3, <1>4, <2>2 DEF Closing
    <2> QED  BY <1>11, <2>1, <2>2
  <1>13. UNCHANGED <<pc, outcome>>
    BY DEF clientVars
  <1>14. pc \in {"tunnelCount", "authCount", "serverInit"} => Filled(Stream[1])'
    <2>1. CASE pc = "tunnelCount"
      <3>1. PICK list \in TunnelLists : list # <<>> /\ wire' = wire \o Listed("tunnelCount", "tunnels", list)
        BY <1>9, <1>11, <2>1
      <3>2. list \in Seq(STRING)
        BY ServerAssumption
      <3> QED  BY <1>3, <1>6, <2>1, <3>1, <3>2, FirstListed
    <2>2. CASE pc = "serverInit"
      <3>1. pc' = "serverInit" /\ outbound' # <<>>
        BY <1>9, <1>13, <2>2
      <3> QED  BY <1>1, <3>1, StillWaitsNext
    <2>3. pc # "authCount"
      BY <1>8
    <2> QED  BY <2>1, <2>2, <2>3
  <1>15. pc # "done" => pc \notin {"reasonLength", "reasonText"}
    BY <1>8
  <1> QED  BY <1>1, <1>3, <1>12, <1>14, <1>15, ServerGoesOn

LEMMA MethodTakenExplained ==
    ASSUME FailureInv, ~EmptyTight, TakeMethod, UNCHANGED clientVars
    PROVE  CausesInv' /\ FailureExplained'
  <1>1. HandshakeInv /\ HandshakeInv' /\ CausesInv
    <2>1. ServerNext
      BY DEF ServerNext
    <2> QED  BY <2>1, HandshakeStep DEF FailureInv, Next
  <1>2. PICK kind \in {"myAuth", "mySubType"} : Hears(kind)
    BY DEF TakeMethod
  <1>3. /\ link = "up" /\ sv = kind /\ outbound # <<>> /\ outbound' = Tail(outbound)
        /\ inbound' = inbound /\ hopeless' = hopeless
    BY <1>2 DEF Hears
  <1>4. svVerdict \notin {"rejected", "refused"}
    BY <1>1, <1>3 DEF CausesInv, Closing
  <1>5. PICK b : b = Stream[1]
    OBVIOUS
  <1>6. pc # "done" =>
          /\ Agree(b) /\ Fits(b) /\ b.kind = "turn" /\ IsTurn(b, kind) /\ pc \in Places \ {"myEncodings", "done"}
          /\ inbound = <<>> /\ wire = <<>> /\ svTls \in BOOLEAN
    BY <1>1, <1>2, <1>3, <1>5, HearsAt DEF Alive
  <1>7. pc # "done" =>
          /\ mSelectedProtocolVersion \in {3, 7, 8} /\ ~Denied(b) /\ svVersion = mSelectedProtocolVersion
    BY <1>2, <1>6 DEF Agree, Denied, Fits, Met, Due, IsTurn
  <1>8. pc # "done" =>
        \/ pc = "challenge" /\ outbound = <<Sent(kind, "VNCAuthentication")>>
        \/ /\ pc = "result" /\ outbound = <<Sent(kind, "None")>>
           /\ mSelectedMethod = "None" /\ mSelectedProtocolVersion = 8
        \/ /\ pc = "clientInit" /\ outbound = <<Sent(kind, "None")>>
           /\ mSelectedMethod = "None" /\ mSelectedProtocolVersion < 8
        \/ /\ pc = "serverInit" /\ outbound = <<Sent(kind, "None"), Sent("clientInit", 0)>>
           /\ mSelectedMethod = "None" /\ mSelectedProtocolVersion < 8
    BY <1>2, <1>3, <1>6, <1>7 DEF Fits, Met, Due, IsTurn, Asked, AskedNoneAndWentOn, Places,
       Reading, Writing, AfterNames, Silence, Agree, Denied
  <1>9. pc # "done" =>
          /\ outbound' = IF pc = "serverInit" THEN <<Sent("clientInit", 0)>> ELSE <<>>
          /\ Head(outbound).val = "None" => pc = "result" \/ (pc \in {"clientInit", "serverInit"} /\ svVersion < 8)
    <2> SUFFICES ASSUME pc # "done"
                 PROVE  /\ outbound' = IF pc = "serverInit" THEN <<Sent("clientInit", 0)>> ELSE <<>>
                        /\ Head(outbound).val = "None" => pc = "result" \/ (pc \in {"clientInit", "serverInit"} /\ svVersion < 8)
      OBVIOUS
    <2>1. outbound' = IF pc = "serverInit" THEN <<Sent("clientInit", 0)>> ELSE <<>>
      BY <1>3, <1>8, TakenFrom
    <2>2. PICK method : /\ Head(outbound) = Sent(kind, method)
                        /\ method = "None" => pc = "result" \/ (pc \in {"clientInit", "serverInit"} /\ svVersion < 8)
      BY <1>7, <1>8, TakenFrom
    <2>3. Head(outbound).val = method
      BY <2>2 DEF Sent
    <2> QED  BY <2>1, <2>2, <2>3
  <1>10. svVersion' = svVersion /\ Authenticate(Head(outbound).val, <<>>) /\ UNCHANGED <<pc, outcome>>
    BY DEF TakeMethod, clientVars
  <1>11. /\ Closing'
         /\ pc # "done" /\ svVerdict' = "refused" => pc = "result" /\ outbound' = <<>>
    BY <1>3, <1>4, <1>9, <1>10, AuthenticateCloses
  <1>12. pc \in {"tunnelCount", "authCount", "serverInit"} => Filled(Stream[1])'
    <2>1. CASE pc = "serverInit"
      <3>1. PICK word : word = Sent("clientInit", 0)
        OBVIOUS
      <3>2. pc' = "serverInit" /\ outbound' = <<word>>
        BY <1>9, <1>10, <2>1, <3>1
      <3>3. outbound' # <<>>
        BY <3>2
      <3> QED  BY <1>1, <3>2, <3>3, StillWaitsNext
    <2> QED  BY <1>8, <2>1
  <1>13. pc # "done" => pc \notin {"reasonLength", "reasonText"}
    BY <1>8
  <1>14. sv # "over"
    BY <1>2, <1>3
  <1> QED  BY <1>1, <1>3, <1>11, <1>12, <1>13, <1>14, ServerGoesOn

LEMMA ResponseTakenExplained ==
    ASSUME FailureInv, ~EmptyTight, TakeResponse, UNCHANGED clientVars
    PROVE  CausesInv' /\ FailureExplained'
  <1>1. HandshakeInv /\ HandshakeInv' /\ CausesInv
    <2>1. ServerNext
      BY DEF ServerNext
    <2> QED  BY <2>1, HandshakeStep DEF FailureInv, Next
  <1>2. Hears("response")
    BY DEF TakeResponse
  <1>3. /\ link = "up" /\ sv = "response" /\ outbound # <<>> /\ outbound' = Tail(outbound)
        /\ inbound' = inbound /\ hopeless' = hopeless
    BY <1>2 DEF Hears
  <1>4. svVerdict \notin {"rejected", "refused"}
    BY <1>1, <1>3 DEF CausesInv, Closing
  <1>5. PICK b : b = Stream[1]
    OBVIOUS
  <1>6. pc # "done" =>
          /\ Agree(b) /\ Fits(b) /\ b.kind = "turn" /\ IsTurn(b, "response") /\ pc \in Places \ {"myEncodings", "done"}
          /\ inbound = <<>> /\ wire = <<>> /\ svTls \in BOOLEAN
    BY <1>1, <1>2, <1>3, <1>5, HearsAt DEF Alive
  <1>7. pc # "done" => pc = "result" /\ outbound = <<Sent("response", 0)>>
    BY <1>3, <1>6 DEF Fits, Met, Due, IsTurn, Asked, AskedNoneAndWentOn, Places, Reading,
       Writing, AfterNames, Silence
  <1>8. pc # "done" => outbound' = <<>>
    BY <1>3, <1>7, TakenFrom
  <1>9. Closing'
    BY <1>3, JudgeCloses DEF TakeResponse
  <1> QED  BY <1>1, <1>3, <1>7, <1>8, <1>9, ServerGoesOn

LEMMA ClientInitTakenExplained ==
    ASSUME FailureInv, ~EmptyTight, TakeClientInit, UNCHANGED clientVars
    PROVE  CausesInv' /\ FailureExplained'
  <1>1. HandshakeInv /\ HandshakeInv' /\ CausesInv
    <2>1. ServerNext
      BY DEF ServerNext
    <2> QED  BY <2>1, HandshakeStep DEF FailureInv, Next
  <1>2. Hears("clientInit")
    BY DEF TakeClientInit
  <1>3. /\ link = "up" /\ sv = "clientInit" /\ outbound # <<>> /\ outbound' = Tail(outbound)
        /\ inbound' = inbound /\ hopeless' = hopeless
    BY <1>2 DEF Hears
  <1>4. svVerdict \notin {"rejected", "refused"}
    BY <1>1, <1>3 DEF CausesInv, Closing
  <1>5. PICK b : b = Stream[1]
    OBVIOUS
  <1>6. pc # "done" =>
          /\ Agree(b) /\ Fits(b) /\ b.kind = "turn" /\ IsTurn(b, "clientInit") /\ pc \in Places \ {"myEncodings", "done"}
          /\ inbound = <<>> /\ wire = <<>> /\ svTls \in BOOLEAN
    BY <1>1, <1>2, <1>3, <1>5, HearsAt DEF Alive
  <1>7. pc # "done" => pc = "serverInit"
    BY <1>3, <1>6 DEF Fits, Met, Due, IsTurn, Asked, AskedNoneAndWentOn, Places, Reading,
       Writing, AfterNames, Silence
  <1>8. Closing' /\ svVerdict' # "refused" /\ svType' = svType
    BY <1>3, <1>4 DEF TakeClientInit, Closing
  <1>9. pc # "done" => Filled(Stream[1])'
    <2> SUFFICES ASSUME pc # "done"  PROVE Filled(Stream[1])'
      OBVIOUS
    <2>1. PICK n \in NameLengths, format \in ServerFormats, size \in Sizes,
               early \in {FALSE, SpeaksFirst}, encodings \in EncodingCounts :
            wire' = wire \o (<<Item("serverInit", [nameLength |-> n, format |-> format, size |-> size])>>
                    \o Text("name", n)
                    \o (IF svType = "Tight" THEN Listing(encodings) ELSE <<>>)
                    \o (IF early THEN <<Item("message", 0)>> ELSE <<>>))
      BY DEF TakeClientInit, Say
    <2>2. n \in Nat /\ encodings \in Nat /\ (svType = "Tight" => n # 0)
      BY ServerAssumption DEF NameLengths
    <2>3. PICK item, names, lists, messages :
            /\ item = Item("serverInit", [nameLength |-> n, format |-> format, size |-> size])
            /\ names = Text("name", n)
            /\ lists = IF svType = "Tight" THEN Listing(encodings) ELSE <<>>
            /\ messages = IF early THEN <<Item("message", 0)>> ELSE <<>>
      OBVIOUS
    <2>4. item.kind = "serverInit" /\ item.val.nameLength = n /\ item \in ServerItem
      <3>1. [nameLength |-> n, format |-> format, size |-> size]
               \in [nameLength : Nat, format : ServerFormats, size : Sizes]
        BY <2>2
      <3> QED  BY <1>6, <2>3, <3>1, ItemIs
    <2>5. names \in Seq(ServerItem) /\ lists \in Seq(ServerItem) /\ messages \in Seq(ServerItem)
      <3>1. PICK word, length, text, count : /\ word = Item("message", 0) /\ length = Item("capabilityCount", encodings)
                                            /\ text = Item("capabilities", encodings) /\ count = Item("name", n)
        OBVIOUS
      <3>2. word \in ServerItem /\ length \in ServerItem /\ text \in ServerItem /\ count \in ServerItem
        BY <1>6, <2>2, <3>1, ItemIs DEF Numbers
      <3>3. names \in Seq(ServerItem) /\ messages \in Seq(ServerItem)
        BY <2>3, <3>1, <3>2 DEF Text
      <3>4. PICK all : all = Text("capabilities", encodings)
        OBVIOUS
      <3>5. all \in Seq(ServerItem)
        BY <3>1, <3>2, <3>4 DEF Text
      <3>6. lists \in Seq(ServerItem)
        BY <2>3, <3>1, <3>2, <3>4, <3>5 DEF Listing
      <3> QED  BY <3>3, <3>6
    <2>6. PICK one : one = <<item>>
      OBVIOUS
    <2>7. one \in Seq(ServerItem)
      BY <2>4, <2>6
    <2>8. one \o names \o lists \o messages = one \o (names \o lists \o messages)
      <3>1. PICK two : two = names \o lists
        OBVIOUS
      <3>2. two \in Seq(ServerItem)
        BY <2>5, <3>1
      <3>3. (one \o names) \o lists = one \o two
        BY <2>5, <2>7, <3>1, ConcatAssociative
      <3>4. (one \o two) \o messages = one \o (two \o messages)
        BY SMTT(30), <2>5, <2>7, <3>2, ConcatAssociative
      <3> QED  BY <3>1, <3>3, <3>4
    <2>9. PICK rest : rest = names \o lists \o messages
      OBVIOUS
    <2>10. rest \in Seq(ServerItem)
      BY <2>5, <2>9
    <2>11. wire' = <<>> \o (one \o rest)
      BY <1>6, <2>1, <2>3, <2>6, <2>8, <2>9
    <2>12. wire' = <<item>> \o rest
      BY <2>6, <2>7, <2>10, <2>11, ConcatEmptySeq
    <2>13. Stream'[1] = item
      BY <1>3, <1>6, <2>4, <2>10, <2>12, FirstSaid
    <2> QED  BY <1>8, <2>2, <2>4, <2>13 DEF Filled
  <1> QED  BY <1>1, <1>3, <1>7, <1>8, <1>9, ServerGoesOn

(* The server hears the end of the handshake. *)
LEMMA LateExplained ==
    ASSUME FailureInv, TakePixelFormat \/ TakeEncodings, UNCHANGED clientVars
    PROVE  CausesInv' /\ FailureExplained'
  <1>1. HandshakeInv /\ HandshakeInv' /\ CausesInv
    <2>1. ServerNext
      BY DEF ServerNext
    <2> QED  BY <2>1, HandshakeStep DEF FailureInv, Next
  <1>2. PICK kind \in {"myPixelFormat", "myEncodings"} : Hears(kind)
    BY DEF TakePixelFormat, TakeEncodings
  <1>3. /\ link = "up" /\ sv # "over" /\ outbound # <<>> /\ inbound' = inbound /\ hopeless' = hopeless
        /\ link' = link /\ svVerdict' = svVerdict
    BY <1>2 DEF Hears, TakePixelFormat, TakeEncodings
  <1>4. pc # "done" => pc = "myEncodings"
    BY <1>1, <1>2, HearsLate DEF Alive
  <1>5. pc \notin {"tunnelCount", "authCount", "serverInit"}
    BY <1>4
  <1>6. Closing' /\ svVerdict' # "refused"
    BY <1>1, <1>3 DEF CausesInv, Closing
  <1> QED  BY <1>1, <1>3, <1>4, <1>5, <1>6, ServerGoesOn

-----------------------------------------------------------------------------
(* The network *)

(* A word that arrives may leave no hope. *)
LEMMA ArrivedExplained ==
    ASSUME FailureInv, Arrive, UNCHANGED clientVars
    PROVE  CausesInv' /\ FailureExplained'
  <1>1. HandshakeInv /\ CausesInv /\ FailureExplained
    BY DEF FailureInv
  <1>2. /\ UNCHANGED <<outbound, link, svVars>>
        /\ UNCHANGED <<pc, choices, formats, expected, reasonFor, encrypted, outcome>>
        /\ hopeless' = (hopeless \/ Hopeless(Head(wire)))
        /\ wire # <<>> /\ inbound' = Append(inbound, Head(wire)) /\ wire' = Tail(wire)
    BY DEF Arrive, clientVars
  <1>3. Closing' /\ NothingInCommon'
    BY <1>1, <1>2 DEF CausesInv, Closing, NothingInCommon, svVars
  <1>4. FailureExplained'
    BY <1>1, <1>2 DEF FailureExplained, choices, svVars
  <1>5. ASSUME pc # "done"
        PROVE  Causes' /\ Filled(Stream[1])' /\ \A i \in DOMAIN inbound' : Hopeless(inbound'[i]) => hopeless'
    <2>1. Causes'
      BY <1>1, <1>2, <1>5 DEF CausesInv, Causes, choices, formats, svVars
    <2>2. PICK received, sent, item, rest :
            received = inbound /\ sent = wire /\ item = Head(sent) /\ rest = Tail(sent)
      OBVIOUS
    <2>3. /\ received \in Seq(ServerItem) /\ sent \in Seq(ServerItem) /\ sent # <<>>
          /\ \A i \in DOMAIN received : Hopeless(received[i]) => hopeless
      BY <1>1, <1>2, <1>5, <2>2 DEF HandshakeInv, StreamInv, Alive, CausesInv
    <2>4. /\ item \in ServerItem /\ rest \in Seq(ServerItem) /\ sent = <<item>> \o rest
          /\ <<item>> \in Seq(ServerItem)
      BY <2>2, <2>3
    <2>5. Append(received, item) = received \o <<item>>
      BY <2>3, <2>4, AppendIsConcat
    <2>6. Append(received, item) \o rest = received \o sent
      BY <2>3, <2>4, <2>5, ConcatAssociative
    <2>7. Stream' = Stream
      BY <1>2, <2>2, <2>6 DEF Stream, Coming, Turn, svVars
    <2>8. Filled(Stream[1])'
      BY <1>1, <1>2, <1>5, <2>7 DEF CausesInv, Filled, svVars
    <2>9. \A i \in DOMAIN Append(received, item) :
             Append(received, item)[i] = item \/ (i \in DOMAIN received /\ Append(received, item)[i] = received[i])
      BY <2>3, <2>4
    <2>10. \A i \in DOMAIN inbound' : Hopeless(inbound'[i]) => hopeless'
      BY <1>2, <2>2, <2>3, <2>9
    <2> QED  BY <2>1, <2>8, <2>10
  <1> QED  BY <1>2, <1>3, <1>4, <1>5 DEF CausesInv

(* Nothing changes but the link. *)
LEMMA CutExplained ==
    ASSUME FailureInv, LinkFails \/ UNCHANGED serverVars, UNCHANGED clientVars
    PROVE  CausesInv' /\ FailureExplained'
  <1>1. HandshakeInv /\ CausesInv /\ FailureExplained
    BY DEF FailureInv
  <1>2. /\ UNCHANGED <<inbound, wire, outbound, hopeless, svVars>> /\ link' \in {link, "down"}
        /\ UNCHANGED <<pc, choices, formats, expected, reasonFor, encrypted, outcome>>
    BY DEF LinkFails, serverVars, channels, clientVars
  <1>3. Closing' /\ NothingInCommon'
    BY <1>1, <1>2 DEF CausesInv, Closing, NothingInCommon, svVars
  <1>4. FailureExplained'
    BY <1>1, <1>2 DEF FailureExplained, choices, svVars
  <1>5. pc # "done" => Causes' /\ Filled(Stream[1])'
    <2>1. Stream' = Stream
      BY <1>2 DEF Stream, Coming, Turn, svVars
    <2> QED  BY <1>1, <1>2, <2>1 DEF CausesInv, Causes, Filled, choices, formats, svVars
  <1> QED  BY <1>1, <1>2, <1>3, <1>4, <1>5 DEF CausesInv

(* A new attempt has not failed. *)
LEMMA NothingYet == Fresh => FailureInv
  <1> SUFFICES ASSUME Fresh  PROVE FailureInv
    OBVIOUS
  <1>1. HandshakeInv
    BY Begins
  <1>2. pc = "version" /\ outcome = "none" /\ ServerInit
    BY DEF Fresh
  <1>3. Causes /\ Closing
    BY <1>2 DEF Causes, Closing, ServerInit
  <1>4. Filled(Stream[1])
    BY <1>1, <1>2, FilledElsewhere
  <1>5. FailureExplained /\ NothingInCommon
    BY <1>1, <1>2, NothingFailed
  <1>6. \A i \in DOMAIN inbound : Hopeless(inbound[i]) => hopeless
    BY <1>2 DEF ServerInit
  <1> QED  BY <1>1, <1>3, <1>4, <1>5, <1>6 DEF FailureInv, CausesInv

LEMMA NothingYetAgain == Fresh' => FailureInv'
  BY NothingYet, PTL

(* Every step of the client gives its reasons, and every step of the       *)
(* server leaves them.                                                     *)
LEMMA HandleExplained ==
    ASSUME FailureInv, Handle
    PROVE  CausesInv' /\ FailureExplained'
  <1>1. CASE NegotiateProtocolVersion
    BY <1>1, VersionExplained
  <1>2. CASE NegotiateRfb33
    BY <1>2, OldTypeExplained
  <1>3. CASE ReadTypeCount
    BY <1>3, TypeCountExplained
  <1>4. CASE ReadTypes
    BY <1>4, TypesExplained
  <1>5. CASE VNCAuthenticationChallenge
    BY <1>5, ChallengeExplained
  <1>6. CASE TightTunnelCount
    BY <1>6, TunnelCountExplained
  <1>7. CASE TightTunnels
    BY <1>7, TunnelsExplained
  <1>8. CASE TightAuthCount
    BY <1>8, AuthCountExplained
  <1>9. CASE TightAuths
    BY <1>9, AuthsExplained
  <1>10. CASE ReadSubTypeCount
    BY <1>10, SubTypeCountExplained
  <1>11. CASE ReadSubTypes
    BY <1>11, SubTypesExplained
  <1>12. CASE ReadSecurityResult
    BY <1>12, ResultExplained
  <1>13. CASE ReadReasonLength
    BY <1>13, ReasonLengthExplained
  <1>14. CASE ReadReasonText
    BY <1>14, ReasonTextExplained
  <1>15. CASE ReadServerInit
    BY <1>15, ServerInitExplained
  <1>16. CASE ReadName
    BY <1>16, NameExplained
  <1>17. CASE ReadCapabilityCount
    BY <1>17, CapabilityCountExplained
  <1>18. CASE ReadCapabilities
    BY <1>18, CapabilitiesExplained
  <1>19. CASE ReadNothing
    BY <1>19, NothingReadExplained
  <1>20. CASE StartVncProtocol
    BY <1>20, VersionSentExplained
  <1>21. CASE SendType
    BY <1>21, TypeSentExplained
  <1>22. CASE VNCAuthenticationResponse
    BY <1>22, ResponseSentExplained
  <1>23. CASE TightTunnel
    BY <1>23, TunnelSentExplained
  <1>24. CASE TightAuthenticate
    BY <1>24, AuthSentExplained
  <1>25. CASE SendSubType
    BY <1>25, SubTypeSentExplained
  <1>26. CASE SendClientInit
    BY <1>26, ClientInitSentExplained
  <1>27. CASE SendSetPixelFormat
    BY <1>27, PixelFormatSentExplained
  <1>28. CASE SendSetEncodings
    BY <1>28, EncodingsSentExplained
  <1>29. CASE EnsureNoMoreData
    BY <1>29, QuietExplained
  <1>30. CASE StartOpenSSLHandshake
    BY <1>30, SecuredExplained
  <1>31. CASE VeNCryptHandshake
    BY <1>31, EndExplained
  <1> QED  BY <1>1, <1>2, <1>3, <1>4, <1>5, <1>6, <1>7, <1>8, <1>9, <1>10, <1>11, <1>12,
              <1>13, <1>14, <1>15, <1>16, <1>17, <1>18, <1>19, <1>20, <1>21, <1>22, <1>23,
              <1>24, <1>25, <1>26, <1>27, <1>28, <1>29, <1>30, <1>31 DEF Handle

LEMMA ServerExplained ==
    ASSUME FailureInv, ~EmptyTight, ServerNext, UNCHANGED clientVars
    PROVE  CausesInv' /\ FailureExplained'
  <1>1. CASE HangUp \/ Announce
    BY <1>1, GreetingExplained
  <1>2. CASE TakeVersion
    BY <1>2, VersionTakenExplained
  <1>3. CASE TakeType
    BY <1>3, TypeTakenExplained
  <1>4. CASE TakeTunnel
    BY <1>4, TunnelTakenExplained
  <1>5. CASE TakeMethod
    BY <1>5, MethodTakenExplained
  <1>6. CASE TakeResponse
    BY <1>6, ResponseTakenExplained
  <1>7. CASE TakeClientInit
    BY <1>7, ClientInitTakenExplained
  <1>8. CASE TakePixelFormat \/ TakeEncodings
    BY <1>8, LateExplained
  <1>9. CASE Arrive
    BY <1>9, ArrivedExplained
  <1> QED  BY <1>1, <1>2, <1>3, <1>4, <1>5, <1>6, <1>7, <1>8, <1>9 DEF ServerNext

(* FailureInv is inductive. *)
LEMMA FailureStep ==
    ASSUME FailureInv, ~EmptyTight, [Next]_vars
    PROVE  FailureInv'
  <1>1. HandshakeInv'
    BY HandshakeStep DEF FailureInv
  <1>2. CASE Handle
    BY <1>1, <1>2, HandleExplained DEF FailureInv
  <1>3. CASE ConnectionLost
    BY <1>1, <1>3, LostExplained DEF FailureInv
  <1>4. CASE Interrupted \/ TlsHandshakeFails
    BY <1>1, <1>4, EndExplained DEF FailureInv
  <1>5. CASE ServerNext /\ UNCHANGED clientVars
    BY <1>1, <1>5, ServerExplained DEF FailureInv
  <1>6. CASE (LinkFails \/ UNCHANGED serverVars) /\ UNCHANGED clientVars
    BY <1>1, <1>6, CutExplained DEF FailureInv
  <1>7. CASE Reconnect
    <2>1. ServerInit'
      BY <1>7 DEF Reconnect, ServerRestarts, ServerInit
    <2>2. /\ pc' = "version" /\ mSelectedProtocolVersion' = 3 /\ mSelectedVNCSecurityType' = "Invalid"
          /\ encrypted' = FALSE /\ outcome' = "none"
      BY <1>7 DEF Reconnect
    <2> QED  BY <2>1, <2>2, NothingYetAgain DEF Fresh
  <1>8. UNCHANGED vars => UNCHANGED serverVars /\ UNCHANGED clientVars
    BY DEF vars
  <1> QED  BY <1>2, <1>3, <1>4, <1>5, <1>6, <1>7, <1>8 DEF Next, Terminated

(* An attempt that fails has the cause that it reports (startVncProtocol()   *)
(* and all that it calls), whatever the server says, if a Tight server      *)
(* lists something: only then does the client not wait for no bytes.       *)
THEOREM FailuresHaveACause ==
    ASSUME ~EmptyTight
    PROVE  Spec => []FailureExplained
  <1>1. Init => FailureInv
    BY NothingYet DEF Init, ClientInit, Fresh
  <1>2. FailureInv /\ [Next]_vars => FailureInv'
    BY FailureStep
  <1>3. FailureInv => FailureExplained
    BY DEF FailureInv
  <1> QED  BY <1>1, <1>2, <1>3, PTL DEF Spec

=================================================================================
