---------------------------- MODULE OrvWidgetProofs ----------------------------
(***************************************************************************)
(* What may be pressed at the server once the user of a Qt client holds no *)
(* key, for every keyboard of the modelled keys: what was let go of while  *)
(* the widget did not have the focus, and what has lost its entry in the   *)
(* table, never that of a key with a Qt::Key of its own unless on a Mac.   *)
(***************************************************************************)
EXTENDS OrvWidget, SequenceTheorems, FiniteSetTheorems, TLAPS

-----------------------------------------------------------------------------
(* Key events *)

LEMMA HeldAfterNothing ==
    ASSUME NEW held
    PROVE  HeldAfter(held, <<>>) = held
  BY DEF HeldAfter

LEMMA HeldAfterPress ==
    ASSUME NEW held, NEW keysym
    PROVE  HeldAfter(held, << <<TRUE, keysym>> >>) = held \cup {keysym}
  <1> DEFINE events == << <<TRUE, keysym>> >>
  <1>1. DOMAIN events = {1} /\ events[1][1] = TRUE /\ events[1][2] = keysym
    OBVIOUS
  <1>2. {events[i][2] : i \in {j \in DOMAIN events :
            events[j][1] /\ \A k \in DOMAIN events : k > j => events[k][2] # events[j][2]}}
          = {keysym}
    <2> DEFINE last == {j \in DOMAIN events :
                          events[j][1] /\ \A k \in DOMAIN events : k > j => events[k][2] # events[j][2]}
    <2> HIDE DEF events
    <2>1. 1 \in last
      BY <1>1
    <2>2. \A j \in last : j = 1
      BY <1>1
    <2>3. last = {1}
      BY <2>1, <2>2
    <2> QED  BY <1>1, <2>3
  <1> QED  BY <1>1, <1>2 DEF HeldAfter

(* Events that are all releases leave what none of them is about. *)
LEMMA HeldAfterReleases ==
    ASSUME NEW held, NEW events, \A i \in DOMAIN events : ~events[i][1]
    PROVE  HeldAfter(held, events) =
             {keysym \in held : \A i \in DOMAIN events : events[i][2] # keysym}
  BY DEF HeldAfter

(* A release and then a press. *)
Repeat(old, now) == << <<FALSE, old>>, <<TRUE, now>> >>

LEMMA HeldAfterRepeat ==
    ASSUME NEW held, NEW old, NEW now
    PROVE  HeldAfter(held, Repeat(old, now)) = (held \ {old}) \cup {now}
  <1> DEFINE events == << <<FALSE, old>>, <<TRUE, now>> >>
  <1>1. /\ DOMAIN events = {1, 2} /\ events[1][1] = FALSE /\ events[1][2] = old
        /\ events[2][1] = TRUE /\ events[2][2] = now
    OBVIOUS
  <1>2. {events[i][2] : i \in {j \in DOMAIN events :
            events[j][1] /\ \A k \in DOMAIN events : k > j => events[k][2] # events[j][2]}}
          = {now}
    <2> DEFINE last == {j \in DOMAIN events :
                          events[j][1] /\ \A k \in DOMAIN events : k > j => events[k][2] # events[j][2]}
    <2> HIDE DEF events
    <2>1. 2 \in last
      BY <1>1
    <2>2. \A j \in last : j = 2
      BY <1>1
    <2>3. last = {2}
      BY <2>1, <2>2
    <2> QED  BY <1>1, <2>3
  <1>3. HeldAfter(held, events) = {keysym \in held : \A i \in DOMAIN events : events[i][2] # keysym}
                                    \cup {now}
    BY <1>2 DEF HeldAfter
  <1> HIDE DEF events
  <1>4. {keysym \in held : \A i \in DOMAIN events : events[i][2] # keysym} \cup {now}
          = (held \ {old}) \cup {now}
    BY <1>1
  <1> QED  BY <1>3, <1>4 DEF events, Repeat

(* Every element of a finite set is in its sequence, and nothing else is. *)
LEMMA SetToSeqHasAll ==
    ASSUME NEW S, IsFiniteSet(S)
    PROVE  /\ SetToSeq(S) \in Seq(S)
           /\ \A s \in S : \E i \in DOMAIN SetToSeq(S) : SetToSeq(S)[i] = s
  <1>1. Cardinality(S) \in Nat /\ ExistsBijection(1..Cardinality(S), S)
    BY FS_CardinalityType
  <1>2. \E f : f \in [1..Cardinality(S) -> S] /\ IsInjective(f)
    BY <1>1 DEF ExistsBijection, Bijection, Injection
  <1>3. SetToSeq(S) \in [1..Cardinality(S) -> S] /\ IsInjective(SetToSeq(S))
    <2>1. SetToSeq(S) = CHOOSE f : f \in [1..Cardinality(S) -> S] /\ IsInjective(f)
      BY DEF SetToSeq
    <2> QED  BY <1>2, <2>1
  <1>4. PICK list : list = SetToSeq(S)
    OBVIOUS
  <1>5. list \in Injection(1..Cardinality(S), S)
    BY <1>3, <1>4 DEF Injection
  <1>6. IsFiniteSet(1..Cardinality(S)) /\ Cardinality(1..Cardinality(S)) = Cardinality(S)
    <2>1. Cardinality(1..Cardinality(S)) = IF 1 > Cardinality(S) THEN 0 ELSE Cardinality(S) - 1 + 1
      BY <1>1, FS_Interval
    <2> QED  BY <1>1, <2>1, FS_Interval
  <1>7. list \in Surjection(1..Cardinality(S), S)
    BY <1>5, <1>6, FS_Injection
  <1>8. \A s \in S : \E i \in DOMAIN list : list[i] = s
    BY <1>7 DEF Surjection
  <1> QED  BY <1>1, <1>3, <1>4, <1>8

-----------------------------------------------------------------------------
(* Keysyms and the table *)

(* Abbreviations of this module. *)
Names == {"Shift", "Control", "A", "Eacute", "Es", "1", "Exclam", "Tab", "Backtab", "Home"}

GoodTable(sent) ==
    \A name \in DOMAIN sent : \E key \in keyboard : IsKeysymOf(sent[name], key, name)

LEMMA PlatformFacts ==
    ASSUME TypeOK
    PROVE  /\ keyboard \subseteq QtKeys /\ keyboard \in Keyboards
           /\ QtKeyboard <=> platform \in {"other", "mac"}
           /\ platform = "other" => ~Mac
           /\ QtKeyboard => fingers \subseteq keyboard
           /\ ShiftHeld \in BOOLEAN
  BY OrvWidgetAssumption DEF TypeOK, QtKeyboard, Mac, ShiftHeld

LEMMA NameIsAName ==
    ASSUME NEW key \in QtKeys, NEW shift \in BOOLEAN
    PROVE  keyOf(key, shift) \in Names
  BY DEF QtKeys, keyOf, Names

LEMMA NamesAreFinite == \A S \in SUBSET Names : IsFiniteSet(S)
  <1> DEFINE some == {"Shift", "Control", "A", "Eacute", "Es"}
             more == {"1", "Exclam", "Tab", "Backtab", "Home"}
  <1>1. IsFiniteSet(some)
    <2>1. IsFiniteSet({"Shift"})
      BY FS_Singleton
    <2>2. IsFiniteSet({"Shift"} \cup {"Control"})
      BY <2>1, FS_AddElement
    <2>3. IsFiniteSet(({"Shift"} \cup {"Control"}) \cup {"A"})
      BY <2>2, FS_AddElement
    <2>4. IsFiniteSet((({"Shift"} \cup {"Control"}) \cup {"A"}) \cup {"Eacute"})
      BY <2>3, FS_AddElement
    <2>5. IsFiniteSet(((({"Shift"} \cup {"Control"}) \cup {"A"}) \cup {"Eacute"}) \cup {"Es"})
      BY <2>4, FS_AddElement
    <2>6. ((({"Shift"} \cup {"Control"}) \cup {"A"}) \cup {"Eacute"}) \cup {"Es"} = some
      OBVIOUS
    <2> QED  BY <2>5, <2>6
  <1>2. IsFiniteSet(more)
    <2>1. IsFiniteSet({"1"})
      BY FS_Singleton
    <2>2. IsFiniteSet({"1"} \cup {"Exclam"})
      BY <2>1, FS_AddElement
    <2>3. IsFiniteSet(({"1"} \cup {"Exclam"}) \cup {"Tab"})
      BY <2>2, FS_AddElement
    <2>4. IsFiniteSet((({"1"} \cup {"Exclam"}) \cup {"Tab"}) \cup {"Backtab"})
      BY <2>3, FS_AddElement
    <2>5. IsFiniteSet(((({"1"} \cup {"Exclam"}) \cup {"Tab"}) \cup {"Backtab"}) \cup {"Home"})
      BY <2>4, FS_AddElement
    <2>6. ((({"1"} \cup {"Exclam"}) \cup {"Tab"}) \cup {"Backtab"}) \cup {"Home"} = more
      OBVIOUS
    <2> QED  BY <2>5, <2>6
  <1>3. Names = some \cup more
    BY DEF Names
  <1> HIDE DEF some, more
  <1>4. IsFiniteSet(Names)
    BY <1>1, <1>2, <1>3, FS_Union
  <1> QED  BY <1>4, FS_Subset

LEMMA TableIsFinite ==
    ASSUME NEW sent, TypeOK, GoodTable(sent)
    PROVE  IsFiniteSet(DOMAIN sent)
  <1>1. \A name \in DOMAIN sent : name \in Names
    BY PlatformFacts, NameIsAName DEF GoodTable, IsKeysymOf
  <1> QED  BY <1>1, NamesAreFinite

(* The keysym of a key event is one of the key's, if it is one. *)
LEMMA KeysymIsOfKey ==
    ASSUME NEW key, NEW shift \in BOOLEAN, NEW text \in TextOf(key, shift),
           KeysymNow(key, shift, text) # NoKeysym
    PROVE  IsKeysymOf(KeysymNow(key, shift, text), key, keyOf(key, shift))
  BY DEF IsKeysymOf

(* A keysym tells the Qt::Key it was sent for. *)
LEMMA KeysymTellsName ==
    ASSUME NEW key \in QtKeys, NEW other \in QtKeys, NEW keysym, NEW name, NEW otherName,
           IsKeysymOf(keysym, key, name), IsKeysymOf(keysym, other, otherName)
    PROVE  name = otherName
  <1> DEFINE Told(s, n) ==
               /\ n \in Names
               /\ n = "Shift" => s = 65505
               /\ n = "Control" => s \in {65507, 65511}
               /\ n = "A" => s \in {65, 97}
               /\ n = "Eacute" => s \in {201, 233}
               /\ n = "Es" => s \in {1779, 1747}
               /\ n = "1" => s = 49
               /\ n = "Exclam" => s = 33
               /\ n = "Tab" => s = 65289
               /\ n = "Backtab" => s = 65056
               /\ n = "Home" => s \in {65360, 65429}
  <1>1. ASSUME NEW k \in QtKeys, NEW s, NEW n, IsKeysymOf(s, k, n)  PROVE Told(s, n)
    <2>1. PICK shift \in BOOLEAN :
             n = keyOf(k, shift) /\ \E text \in TextOf(k, shift) : s = KeysymNow(k, shift, text)
      BY <1>1 DEF IsKeysymOf
    <2>2. PICK text \in TextOf(k, shift) : s = KeysymNow(k, shift, text)
      BY <2>1
    <2>3. s # 0
      BY <1>1 DEF IsKeysymOf, NoKeysym
    <2>4. /\ n \in Names
          /\ n \in {"Shift", "Control", "A", "Eacute", "Es"} => k = n
          /\ n \in {"1", "Exclam"} => k = "1" /\ shift = (n = "Exclam")
          /\ n \in {"Tab", "Backtab"} => k = "Tab"
          /\ n = "Home" => k \in {"Home", "KP_Home"}
      BY <2>1 DEF QtKeys, keyOf, Names
    <2>5. /\ n \in {"Shift", "Control", "Tab", "Backtab", "Home"} => text = 0
          /\ n = "A" => text \in {0, 65, 97}
          /\ n = "Eacute" => text \in {0, 201, 233}
          /\ n = "Es" => text \in {0, 1057, 1089}
          /\ n = "1" => text \in {0, 49}
          /\ n = "Exclam" => text \in {0, 33}
      BY <2>2, <2>4 DEF TextOf, textOf, NoText
    <2>6. CASE text = 0
      <3>1. s = KeysymOfKey(n, shift, onKeypad(k), Mac)
        BY <2>1, <2>2, <2>6 DEF KeysymNow, orv_qt_key_to_keysym, NoText
      <3>2. n = "Shift" => s = 65505
        BY <3>1 DEF KeysymOfKey, XK_Shift
      <3>3. n = "Control" => s \in {65507, 65511}
        BY <3>1 DEF KeysymOfKey, XK_Control, XK_Meta
      <3>4. n = "A" => s \in {65, 97}
        BY <3>1 DEF KeysymOfKey
      <3>5. n = "Eacute" => s = 233
        BY <3>1 DEF KeysymOfKey
      <3>6. n = "Es" => s = 0
        BY <3>1 DEF KeysymOfKey, NoKeysym
      <3>7. n = "1" => s = 49
        BY <3>1 DEF KeysymOfKey
      <3>8. n = "Exclam" => s = 33
        BY <3>1 DEF KeysymOfKey
      <3>9. n = "Tab" => s = 65289
        BY <3>1 DEF KeysymOfKey
      <3>10. n = "Backtab" => s = 65056
        BY <3>1 DEF KeysymOfKey
      <3>11. n = "Home" => s \in {65360, 65429}
        BY <3>1 DEF KeysymOfKey
      <3> QED  BY <2>3, <2>4, <3>2, <3>3, <3>4, <3>5, <3>6, <3>7, <3>8, <3>9, <3>10, <3>11
    <2>7. CASE text # 0
      <3>1. s = KeysymOfText(text)
        BY <2>2, <2>7 DEF KeysymNow, orv_qt_key_to_keysym, NoText
      <3>2. /\ text = 1057 => s = 1779
            /\ text = 1089 => s = 1747
            /\ text \in {65, 97, 201, 233, 49, 33} => s = text
        BY <3>1 DEF KeysymOfText
      <3> QED  BY <2>4, <2>5, <2>7, <3>2
    <2> QED  BY <2>6, <2>7
  <1>2. Told(keysym, name) /\ Told(keysym, otherName)
    BY <1>1
  <1> QED  BY <1>2 DEF Names

(* A key of a name of its own has no other's keysym. *)
LEMMA OwnNameIsTold ==
    ASSUME TypeOK, NEW sent, GoodTable(sent), NEW name \in DOMAIN sent,
           NEW own \in keyboard, HasOwnName(own), IsKeysymOf(sent[name], own, keyOf(own, FALSE)),
           NEW key \in keyboard, name \in NamesOf(key)
    PROVE  key = own /\ name = keyOf(key, FALSE) /\ name = keyOf(key, TRUE)
  <1>1. PICK k \in keyboard : IsKeysymOf(sent[name], k, name)
    BY DEF GoodTable
  <1>2. name = keyOf(own, FALSE)
    BY <1>1, KeysymTellsName, PlatformFacts
  <1>3. name \in NamesOf(own)
    BY <1>2 DEF NamesOf
  <1>4. key = own
    BY <1>3 DEF HasOwnName
  <1> QED  BY <1>2, <1>4 DEF HasOwnName

-----------------------------------------------------------------------------
(* The steps *)

(* The keysym that is released, and the table after it. *)
ReleasedKeysym(sent, name, keysymNow) == IF name \in DOMAIN sent THEN sent[name] ELSE keysymNow
KeptTable(sent, name, keysym) == IF keysym = NoKeysym THEN sent ELSE WithKey(sent, name, keysym)

(* The events of releases. *)
Release(keysym) == Event(FALSE, keysym)
Fakes(kept) == SetToSeq({<<FALSE, kept[k]>> : k \in DOMAIN kept})

LEMMA KeptFacts ==
    ASSUME NEW sent, NEW name, NEW keysymNow, NEW keysym, NEW kept, GoodTable(sent),
           \/ keysymNow = NoKeysym
           \/ \E key \in keyboard : IsKeysymOf(keysymNow, key, name),
           keysym = ReleasedKeysym(sent, name, keysymNow), kept = KeptTable(sent, name, keysym)
    PROVE  /\ GoodTable(kept) /\ DOMAIN sent \subseteq DOMAIN kept
           /\ \A n \in DOMAIN sent : kept[n] = sent[n]
           /\ keysym = NoKeysym => kept = sent /\ name \notin DOMAIN sent
           /\ keysym # NoKeysym => name \in DOMAIN kept /\ kept[name] = keysym
  <1>1. keysym = NoKeysym \/ \E key \in keyboard : IsKeysymOf(keysym, key, name)
    BY DEF GoodTable, ReleasedKeysym
  <1>2. name \in DOMAIN sent => keysym = sent[name] /\ keysym # NoKeysym
    BY DEF GoodTable, ReleasedKeysym, IsKeysymOf
  <1>3. CASE keysym = NoKeysym
    BY <1>2, <1>3 DEF KeptTable
  <1>4. CASE keysym # NoKeysym
    <2>1. kept = [n \in {name} \cup DOMAIN sent |-> IF n = name THEN keysym ELSE sent[n]]
      BY <1>4 DEF KeptTable, WithKey
    <2>2. /\ DOMAIN kept = {name} \cup DOMAIN sent /\ kept[name] = keysym
          /\ \A n \in DOMAIN sent : n # name => kept[n] = sent[n]
      BY <2>1
    <2>3. GoodTable(kept)
      BY <1>1, <1>4, <2>2 DEF GoodTable
    <2> QED  BY <1>2, <1>4, <2>2, <2>3
  <1> QED  BY <1>3, <1>4

(* One release: what else is held is as it was. *)
LEMMA OneRelease ==
    ASSUME NEW held, NEW keysym
    PROVE  HeldAfter(held, Release(keysym)) =
             IF keysym = NoKeysym THEN held ELSE held \ {keysym}
  <1>1. CASE keysym = NoKeysym
    <2>1. Release(keysym) = <<>>
      BY <1>1 DEF Event, Release
    <2> QED  BY <1>1, <2>1, HeldAfterNothing
  <1>2. CASE keysym # NoKeysym
    <2>1. Release(keysym) = << <<FALSE, keysym>> >>
      BY <1>2 DEF Event, Release
    <2>2. PICK events : events = << <<FALSE, keysym>> >>
      OBVIOUS
    <2>3. DOMAIN events = {1} /\ ~events[1][1] /\ events[1][2] = keysym
      BY <2>2
    <2>4. HeldAfter(held, events) = {s \in held : \A i \in DOMAIN events : events[i][2] # s}
      BY <2>3, HeldAfterReleases
    <2>5. {s \in held : \A i \in DOMAIN events : events[i][2] # s} = held \ {keysym}
      BY <2>3
    <2> QED  BY <1>2, <2>1, <2>2, <2>4, <2>5
  <1> QED  BY <1>1, <1>2

(* The command key of a Mac releases whatever is in the table. *)
LEMMA AllReleased ==
    ASSUME NEW held, NEW keysym, NEW kept, TypeOK, GoodTable(kept)
    PROVE  \A s \in HeldAfter(held, Release(keysym) \o Fakes(kept)) :
              s \in held /\ \A k \in DOMAIN kept : kept[k] # s
  <1> DEFINE entries == {<<FALSE, kept[k]>> : k \in DOMAIN kept}
  <1>1. PICK fakes : fakes = SetToSeq(entries)
    OBVIOUS
  <1>2. PICK first : first = Event(FALSE, keysym)
    OBVIOUS
  <1>3. IsFiniteSet(entries)
    <2>1. IsFiniteSet(DOMAIN kept)
      BY TableIsFinite
    <2> DEFINE f == [k \in DOMAIN kept |-> <<FALSE, kept[k]>>]
    <2>2. f \in Surjection(DOMAIN kept, entries)
      BY DEF Surjection
    <2> HIDE DEF f, entries
    <2> QED  BY <2>1, <2>2, FS_Surjection
  <1>4. fakes \in Seq(entries) /\ \A e \in entries : \E i \in DOMAIN fakes : fakes[i] = e
    BY <1>1, <1>3, SetToSeqHasAll
  <1>5. \A e \in entries : ~e[1]
    <2> SUFFICES ASSUME NEW e \in entries  PROVE ~e[1]
      OBVIOUS
    <2>1. PICK k \in DOMAIN kept : e = <<FALSE, kept[k]>>
      OBVIOUS
    <2> QED  BY <2>1
  <1> HIDE DEF entries
  <1>6. first \in Seq({<<FALSE, keysym>>})
    <2>1. << <<FALSE, keysym>> >> \in Seq({<<FALSE, keysym>>}) /\ <<>> \in Seq({<<FALSE, keysym>>})
      OBVIOUS
    <2> QED  BY <1>2, <2>1 DEF Event
  <1> DEFINE releases == entries \cup {<<FALSE, keysym>>}
  <1>7. /\ first \in Seq(releases) /\ fakes \in Seq(releases)
        /\ \A e \in releases : ~e[1]
    <2>1. PICK release : release = <<FALSE, keysym>>
      OBVIOUS
    <2>2. ~release[1] /\ releases = entries \cup {release}
      BY <2>1
    <2>3. \A e \in releases : ~e[1]
      BY <1>5, <2>2
    <2>4. first \in Seq({release})
      BY <1>6, <2>1
    <2> HIDE DEF releases
    <2>5. first \in Seq(releases)
      BY <2>2, <2>4
    <2>6. fakes \in Seq(releases)
      BY <1>4, <2>2
    <2> QED  BY <2>3, <2>5, <2>6
  <1> HIDE DEF releases
  <1>8. PICK events : events = first \o fakes
    OBVIOUS
  <1>9. /\ events \in Seq(releases) /\ Len(events) = Len(first) + Len(fakes)
        /\ Len(first) \in Nat /\ Len(fakes) \in Nat
        /\ DOMAIN fakes = 1..Len(fakes) /\ DOMAIN events = 1..Len(events)
    BY <1>7, <1>8
  <1>10. \A i \in 1..Len(fakes) : events[Len(first) + i] = fakes[i]
    BY <1>7, <1>8, <1>9
  <1>11. \A i \in DOMAIN events : ~events[i][1]
    BY <1>7, <1>9
  <1>12. HeldAfter(held, events) = {s \in held : \A i \in DOMAIN events : events[i][2] # s}
    BY <1>11, HeldAfterReleases
  <1>13. \A k \in DOMAIN kept : \E i \in DOMAIN events : events[i][2] = kept[k]
    <2> SUFFICES ASSUME NEW k \in DOMAIN kept  PROVE \E i \in DOMAIN events : events[i][2] = kept[k]
      OBVIOUS
    <2>1. PICK e \in entries : e = <<FALSE, kept[k]>>
      BY DEF entries
    <2>2. PICK i \in DOMAIN fakes : fakes[i] = e
      BY <1>4
    <2>3. Len(first) + i \in DOMAIN events /\ events[Len(first) + i] = e
      BY <1>9, <1>10, <2>2
    <2>4. events[Len(first) + i][2] = kept[k]
      BY <2>1, <2>3
    <2> QED  BY <2>3, <2>4
  <1>14. \A s \in HeldAfter(held, events) : s \in held /\ \A k \in DOMAIN kept : kept[k] # s
    BY <1>12, <1>13
  <1>15. events = Release(keysym) \o Fakes(kept)
    BY <1>1, <1>2, <1>8 DEF entries, Release, Fakes
  <1> QED  BY <1>14, <1>15

LEMMA ReleasedIs ==
    ASSUME NEW sent, NEW name, NEW keysymNow, NEW keysym, NEW kept,
           keysym = ReleasedKeysym(sent, name, keysymNow), kept = KeptTable(sent, name, keysym)
    PROVE  Released(sent, name, keysymNow) =
             IF Mac /\ name = "Control"
             THEN << <<>>, Release(keysym) \o Fakes(kept) >>
             ELSE <<kept, Release(keysym)>>
  BY DEF Released, ReleasedKeysym, KeptTable, Release, Fakes

(* What is pressed and not lost is in the table under one of the names. *)
Covered(pressed, lost, sent, names) ==
    \A t \in pressed \ lost : \E name \in names \cap DOMAIN sent : sent[name] = t

(* The names of the keys that were pressed on the widget. *)
NamesIn(p) == {p[k] : k \in DOMAIN p}

LEMMA PressingIs ==
    Pressing = (IF Mac /\ "Control" \in fingers THEN DOMAIN mSentKeysmsForKeyPress
                ELSE NamesIn(pressedAs) \cap DOMAIN mSentKeysmsForKeyPress)
  BY DEF Pressing, NamesIn

LEMMA InvFacts ==
    ASSUME KeyInv, QtKeyboard
    PROVE  /\ TypeOK /\ GoodTable(mSentKeysmsForKeyPress)
           /\ Covered(down, forgotten \cup unseen, mSentKeysmsForKeyPress, Pressing)
           /\ ~connected => down = {}
  BY DEF KeyInv, TableOK, GoodTable, HeldByTable, Covered, NothingHeldUnseen, Pressing

(* What is left to show of a step. *)
LEMMA TableAfter ==
    ASSUME KeyInv, QtKeyboard, UNCHANGED connectionVars,
           NEW table, mSentKeysmsForKeyPress' = table, GoodTable(table),
           Covered(down', forgotten' \cup unseen', table, Pressing')
    PROVE  TableOK' /\ HeldByTable'
  <1>1. Mac' = Mac /\ QtKeyboard' = QtKeyboard /\ keyboard' = keyboard
    BY DEF connectionVars, Mac, QtKeyboard
  <1>2. TableOK'
    BY <1>1 DEF TableOK, GoodTable, IsKeysymOf, KeysymNow
  <1>3. \A t \in (down' \ forgotten') \ unseen' :
           \E name \in Pressing' \cap DOMAIN table : table[name] = t
    BY DEF Covered
  <1>4. HeldByTable'
    BY <1>3 DEF HeldByTable
  <1> QED  BY <1>2, <1>4

LEMMA NamesKept ==
    ASSUME KeyInv, UNCHANGED connectionVars,
           ASSUME platform = "other", NEW t \in forgotten', t \notin forgotten,
                  NEW own \in keyboard, HasOwnName(own)
           PROVE  ~IsKeysymOf(t, own, keyOf(own, FALSE))
    PROVE  KeepsOwnNames'
  <1>1. Mac' = Mac /\ platform' = platform /\ keyboard' = keyboard
    BY DEF connectionVars, Mac
  <1>2. platform = "other" =>
           \A t \in forgotten', own \in keyboard :
              HasOwnName(own) => ~IsKeysymOf(t, own, keyOf(own, FALSE))
    BY DEF KeyInv, KeepsOwnNames
  <1> QED  BY <1>1, <1>2 DEF KeepsOwnNames, HasOwnName, IsKeysymOf, KeysymNow

(* An entry that is left is of a key of several names. *)
LEMMA EntryLeftHasNoOwnName ==
    ASSUME KeyInv, NEW key, NEW shift \in BOOLEAN, NEW t \in EntryLeft(key, keyOf(key, shift)),
           NEW own \in keyboard, HasOwnName(own)
    PROVE  ~IsKeysymOf(t, own, keyOf(own, FALSE))
  <1> DEFINE sent == mSentKeysmsForKeyPress
  <1>1. PICK k \in {key} \cap DOMAIN pressedAs :
           pressedAs[k] # keyOf(key, shift) /\ t \in EntryOf(pressedAs[k])
    BY DEF EntryLeft
  <1>2. PICK name : name = pressedAs[key]
    OBVIOUS
  <1>3. /\ key \in DOMAIN pressedAs /\ name # keyOf(key, shift)
        /\ name \in DOMAIN sent /\ t = sent[name]
    BY <1>1, <1>2 DEF EntryOf
  <1>4. key \in keyboard /\ name \in NamesOf(key)
    BY <1>2, <1>3 DEF KeyInv, NamesOK
  <1>5. GoodTable(sent) /\ TypeOK
    BY DEF KeyInv, TableOK, GoodTable
  <1>6. ASSUME IsKeysymOf(t, own, keyOf(own, FALSE))  PROVE FALSE
    <2>1. name = keyOf(key, FALSE) /\ name = keyOf(key, TRUE)
      BY <1>3, <1>4, <1>5, <1>6, OwnNameIsTold
    <2> QED  BY <1>3, <2>1
  <1> QED  BY <1>6

(* A key is pressed: the entry it replaces is forgotten if it is held. *)
LEMMA PressStep ==
    ASSUME KeyInv, keyPressEvent
    PROVE  TypeOK' /\ TableOK' /\ NamesOK' /\ HeldByTable' /\ KeepsOwnNames'
  <1>1. PICK sent, held, lost, p :
           /\ sent = mSentKeysmsForKeyPress /\ held = down
           /\ lost = forgotten \cup unseen /\ p = pressedAs
    OBVIOUS
  <1>2. QtKeyboard /\ UNCHANGED <<connectionVars, buttons, mask, typed>>
    BY DEF keyPressEvent
  <1>3. /\ TypeOK /\ GoodTable(sent) /\ Covered(held, lost, sent, Pressing)
        /\ ~connected => held = {}
    BY <1>1, <1>2, InvFacts
  <1>4. PICK key \in keyboard \ fingers :
           /\ fingers' = fingers \cup {key}
           /\ \E text \in TextOf(key, ShiftHeld) :
                LET name == keyOf(key, ShiftHeld)
                    keysym == KeysymNow(key, ShiftHeld, text)
                IN  /\ Handle(Pressed(sent, name, keysym))
                    /\ pressedAs' = WithKey(p, key, name)
                    /\ Forget(IF keysym = NoKeysym THEN {} ELSE EntryOf(name), {keysym} \ {NoKeysym})
    BY <1>1 DEF keyPressEvent
  <1>5. PICK text \in TextOf(key, ShiftHeld) :
           LET name == keyOf(key, ShiftHeld)
               keysym == KeysymNow(key, ShiftHeld, text)
           IN  /\ Handle(Pressed(sent, name, keysym))
               /\ pressedAs' = WithKey(p, key, name)
               /\ Forget(IF keysym = NoKeysym THEN {} ELSE EntryOf(name), {keysym} \ {NoKeysym})
    BY <1>4
  <1>6. PICK name, keysym : name = keyOf(key, ShiftHeld) /\ keysym = KeysymNow(key, ShiftHeld, text)
    OBVIOUS
  <1>7. /\ Handle(Pressed(sent, name, keysym))
        /\ pressedAs' = WithKey(p, key, name)
        /\ Forget(IF keysym = NoKeysym THEN {} ELSE EntryOf(name), {keysym} \ {NoKeysym})
    BY <1>5, <1>6
  <1>8. keysym = NoKeysym \/ IsKeysymOf(keysym, key, name)
    BY <1>3, <1>6, KeysymIsOfKey, PlatformFacts
  <1>9. TypeOK'
    BY <1>2, <1>3, <1>4 DEF TypeOK, connectionVars, QtKeyboard
  <1>10. PICK names : names = pressedAs'
    OBVIOUS
  <1>11. /\ DOMAIN names = {key} \cup DOMAIN p /\ names[key] = name
         /\ \A k \in DOMAIN p \ {key} : names[k] = p[k]
    BY <1>7, <1>10 DEF WithKey
  <1>12. DOMAIN p \subseteq fingers /\ \A k \in DOMAIN p : k \in keyboard /\ p[k] \in NamesOf(k)
    BY <1>1 DEF KeyInv, NamesOK
  <1>13. name \in NamesOf(key)
    BY <1>3, <1>6, PlatformFacts DEF NamesOf
  <1>14. NamesOK'
    <2>1. keyboard' = keyboard
      BY <1>2 DEF connectionVars
    <2>2. \A k \in DOMAIN names : k \in keyboard /\ names[k] \in NamesOf(k)
      BY <1>4, <1>11, <1>12, <1>13
    <2>3. DOMAIN names \subseteq fingers'
      BY <1>4, <1>11, <1>12
    <2> QED  BY <1>10, <2>1, <2>2, <2>3 DEF NamesOK, NamesOf
  <1>15. PICK table : table = KeptTable(sent, name, keysym)
    OBVIOUS
  <1>16. /\ mSentKeysmsForKeyPress' = table
         /\ down' \subseteq held \cup ({keysym} \ {NoKeysym})
    <2>1. CASE keysym = NoKeysym
      <3>1. Pressed(sent, name, keysym) = <<sent, <<>> >>
        BY <2>1 DEF Pressed, Event
      <3>2. mSentKeysmsForKeyPress' = sent /\ down' = held
        BY <1>1, <1>7, <3>1, HeldAfterNothing DEF Handle, orv_send_key_event
      <3> QED  BY <1>15, <2>1, <3>2 DEF KeptTable
    <2>2. CASE keysym # NoKeysym
      <3>1. Pressed(sent, name, keysym) = <<WithKey(sent, name, keysym), << <<TRUE, keysym>> >> >>
        BY <2>2 DEF Pressed, Event
      <3>2. mSentKeysmsForKeyPress' = WithKey(sent, name, keysym)
        BY <1>7, <3>1 DEF Handle
      <3>3. down' = held \/ down' = HeldAfter(held, << <<TRUE, keysym>> >>)
        BY <1>1, <1>7, <3>1 DEF Handle, orv_send_key_event
      <3>4. down' \subseteq held \cup {keysym}
        BY <3>3, HeldAfterPress
      <3> QED  BY <1>15, <2>2, <3>2, <3>4 DEF KeptTable
    <2> QED  BY <2>1, <2>2
  <1>17. /\ GoodTable(table)
         /\ keysym = NoKeysym => table = sent
         /\ keysym # NoKeysym => /\ DOMAIN table = {name} \cup DOMAIN sent /\ table[name] = keysym
                                 /\ \A n \in DOMAIN sent \ {name} : table[n] = sent[n]
    BY <1>3, <1>4, <1>8, <1>15 DEF GoodTable, KeptTable, WithKey
  <1>18. Pressing \subseteq Pressing' /\ (keysym # NoKeysym => name \in Pressing')
    <2>1. Mac' = Mac
      BY <1>2 DEF connectionVars, Mac
    <2>2. Pressing' = (IF Mac /\ "Control" \in fingers' THEN DOMAIN table
                       ELSE NamesIn(names) \cap DOMAIN table)
      BY <1>10, <1>16, <2>1 DEF Pressing, NamesIn
    <2>3. Pressing = (IF Mac /\ "Control" \in fingers THEN DOMAIN sent
                      ELSE NamesIn(p) \cap DOMAIN sent)
      BY <1>1, PressingIs
    <2>4. NamesIn(p) \subseteq NamesIn(names) /\ name \in NamesIn(names)
      BY <1>4, <1>11, <1>12 DEF NamesIn
    <2>5. DOMAIN sent \subseteq DOMAIN table
      BY <1>17
    <2> QED  BY <1>4, <1>17, <2>2, <2>3, <2>4, <2>5
  <1>19. PICK replaced : replaced = IF keysym = NoKeysym THEN {} ELSE EntryOf(name)
    OBVIOUS
  <1>20. /\ forgotten' = ((forgotten \cup (replaced \ unseen)) \cap down') \ ({keysym} \ {NoKeysym})
         /\ unseen' = (unseen \cap down') \ ({keysym} \ {NoKeysym})
    BY <1>7, <1>19 DEF Forget
  <1>21. ASSUME NEW t \in down' \ (forgotten' \cup unseen')
         PROVE  \E n \in Pressing' \cap DOMAIN table : table[n] = t
    <2>1. CASE t \in {keysym} \ {NoKeysym}
      BY <1>17, <1>18, <2>1
    <2>2. CASE t \notin {keysym} \ {NoKeysym}
      <3>1. t \in held \ lost /\ t \notin replaced
        BY <1>1, <1>16, <1>20, <1>21, <2>2
      <3>2. PICK n \in Pressing \cap DOMAIN sent : sent[n] = t
        BY <1>3, <3>1 DEF Covered
      <3>3. keysym # NoKeysym => n # name
        BY <1>1, <1>19, <3>1, <3>2 DEF EntryOf
      <3> QED  BY <1>17, <1>18, <3>2, <3>3
    <2> QED  BY <2>1, <2>2
  <1>22. TableOK' /\ HeldByTable'
    <2>1. Covered(down', forgotten' \cup unseen', table, Pressing')
      BY <1>21 DEF Covered
    <2>2. UNCHANGED connectionVars
      BY <1>2
    <2> QED  BY <1>2, <1>16, <1>17, <2>1, <2>2, TableAfter
  <1>23. ASSUME platform = "other", NEW t \in forgotten', t \notin forgotten,
                NEW own \in keyboard, HasOwnName(own), IsKeysymOf(t, own, keyOf(own, FALSE))
         PROVE  FALSE
    <2>1. /\ name \in DOMAIN sent /\ t = sent[name] /\ t \in held \ lost
      BY <1>1, <1>16, <1>19, <1>20, <1>23 DEF EntryOf
    <2>2. PICK n \in Pressing \cap DOMAIN sent : sent[n] = t
      BY <1>3, <2>1 DEF Covered
    <2>3. PICK k \in DOMAIN p : p[k] = n
      BY <1>1, <1>3, <1>23, <2>2, PlatformFacts DEF Pressing
    <2>4. k = own
      <3>1. n \in NamesOf(k) /\ k \in keyboard
        BY <1>12, <2>3
      <3> QED  BY <1>3, <1>23, <2>2, <3>1, OwnNameIsTold
    <2>5. key = own
      <3>1. IsKeysymOf(sent[name], own, keyOf(own, FALSE)) /\ key \in keyboard
        BY <1>4, <1>23, <2>1
      <3> QED  BY <1>3, <1>13, <1>23, <2>1, <3>1, OwnNameIsTold
    <2> QED  BY <1>4, <1>12, <2>3, <2>4, <2>5
  <1>24. KeepsOwnNames'
    <2>1. UNCHANGED connectionVars
      BY <1>2
    <2> QED  BY <1>23, <2>1, NamesKept
  <1> QED  BY <1>9, <1>14, <1>22, <1>24

(* A finger is lifted: the names of the other keys stay. *)
LEMMA LiftFacts ==
    ASSUME KeyInv, NEW key, LiftFinger(key), keyboard' = keyboard
    PROVE  /\ NamesOK' /\ fingers' = fingers \ {key}
           /\ \A k \in DOMAIN pressedAs \ {key} : k \in DOMAIN pressedAs' /\ pressedAs'[k] = pressedAs[k]
  <1>1. PICK p, names : p = pressedAs /\ names = pressedAs'
    OBVIOUS
  <1>2. names = [k \in DOMAIN p \ {key} |-> p[k]] /\ fingers' = fingers \ {key}
    BY <1>1 DEF LiftFinger
  <1>3. DOMAIN p \subseteq fingers /\ \A k \in DOMAIN p : k \in keyboard /\ p[k] \in NamesOf(k)
    BY <1>1 DEF KeyInv, NamesOK
  <1>4. DOMAIN names \subseteq fingers' /\ \A k \in DOMAIN names : k \in keyboard /\ names[k] \in NamesOf(k)
    BY <1>2, <1>3
  <1>5. NamesOK'
    BY <1>1, <1>4 DEF NamesOK, NamesOf
  <1> QED  BY <1>1, <1>2, <1>5

(* What is held, not lost and not released is in the table for another key. *)
LEMMA HeldForAnother ==
    ASSUME KeyInv, QtKeyboard, ~(Mac /\ "Control" \in fingers), NEW key, NEW name,
           NEW t \in down \ (forgotten \cup unseen), t \notin EntryLeft(key, name), t \notin EntryOf(name)
    PROVE  \E k \in DOMAIN pressedAs \ {key} :
              pressedAs[k] \in DOMAIN mSentKeysmsForKeyPress \ {name} /\ mSentKeysmsForKeyPress[pressedAs[k]] = t
  <1> DEFINE sent == mSentKeysmsForKeyPress
  <1>1. PICK n \in Pressing \cap DOMAIN sent : sent[n] = t
    BY InvFacts DEF Covered
  <1>2. PICK k \in DOMAIN pressedAs : pressedAs[k] = n
    BY <1>1 DEF Pressing
  <1>3. n # name
    BY <1>1 DEF EntryOf
  <1>4. k # key
    BY <1>1, <1>2, <1>3 DEF EntryLeft, EntryOf
  <1> QED  BY <1>1, <1>2, <1>3, <1>4

(* A key is released: what was pressed for it is not held any more. *)
LEMMA ReleaseStep ==
    ASSUME KeyInv, keyReleaseEvent
    PROVE  TypeOK' /\ TableOK' /\ NamesOK' /\ HeldByTable' /\ KeepsOwnNames'
  <1>1. PICK sent, held, lost :
           sent = mSentKeysmsForKeyPress /\ held = down /\ lost = forgotten \cup unseen
    OBVIOUS
  <1>2. QtKeyboard /\ UNCHANGED <<connectionVars, buttons, mask, typed>>
    BY DEF keyReleaseEvent
  <1>3. /\ TypeOK /\ GoodTable(sent) /\ Covered(held, lost, sent, Pressing)
        /\ ~connected => held = {}
    BY <1>1, <1>2, InvFacts
  <1>4. PICK key \in fingers :
           /\ LiftFinger(key)
           /\ IF Mac /\ key # "Control" /\ "Control" \in fingers
              THEN UNCHANGED <<mSentKeysmsForKeyPress, down, forgotten, unseen>>
              ELSE \E text \in TextOf(key, ShiftHeld) :
                     LET name == keyOf(key, ShiftHeld)
                     IN  /\ Handle(Released(sent, name, KeysymNow(key, ShiftHeld, text)))
                         /\ Forget(EntryLeft(key, name), {})
    BY <1>1 DEF keyReleaseEvent
  <1>5. key \in keyboard
    BY <1>2, <1>3, PlatformFacts
  <1>6. Mac' = Mac /\ keyboard' = keyboard /\ UNCHANGED connectionVars
    BY <1>2 DEF connectionVars, Mac
  <1>7. /\ NamesOK' /\ fingers' = fingers \ {key}
        /\ \A k \in DOMAIN pressedAs \ {key} : k \in DOMAIN pressedAs' /\ pressedAs'[k] = pressedAs[k]
    BY <1>4, <1>6, LiftFacts
  <1>8. TypeOK'
    BY <1>2, <1>3, <1>7 DEF TypeOK, connectionVars, QtKeyboard
  <1>9. CASE Mac /\ key # "Control" /\ "Control" \in fingers
    <2>1. mSentKeysmsForKeyPress' = sent /\ down' = held /\ forgotten' = forgotten /\ unseen' = unseen
      BY <1>1, <1>4, <1>9
    <2>2. Pressing' = Pressing
      BY <1>1, <1>6, <1>7, <1>9, <2>1 DEF Pressing
    <2>3. TableOK' /\ HeldByTable'
      BY <1>1, <1>2, <1>3, <1>6, <2>1, <2>2, TableAfter
    <2>4. KeepsOwnNames'
      BY <1>6, <2>1, NamesKept
    <2> QED  BY <1>7, <1>8, <2>3, <2>4
  <1>10. CASE ~(Mac /\ key # "Control" /\ "Control" \in fingers)
    <2>1. PICK text \in TextOf(key, ShiftHeld) :
             LET name == keyOf(key, ShiftHeld)
             IN  /\ Handle(Released(sent, name, KeysymNow(key, ShiftHeld, text)))
                 /\ Forget(EntryLeft(key, name), {})
      BY <1>4, <1>10
    <2>2. PICK name, keysymNow :
             name = keyOf(key, ShiftHeld) /\ keysymNow = KeysymNow(key, ShiftHeld, text)
      OBVIOUS
    <2>3. Handle(Released(sent, name, keysymNow)) /\ Forget(EntryLeft(key, name), {})
      BY <2>1, <2>2
    <2>4. PICK keysym : keysym = ReleasedKeysym(sent, name, keysymNow)
      OBVIOUS
    <2>5. PICK kept : kept = KeptTable(sent, name, keysym)
      OBVIOUS
    <2>6. keysymNow = NoKeysym \/ \E k \in keyboard : IsKeysymOf(keysymNow, k, name)
      BY <1>3, <1>5, <2>2, KeysymIsOfKey, PlatformFacts
    <2>7. /\ GoodTable(kept) /\ DOMAIN sent \subseteq DOMAIN kept
          /\ \A n \in DOMAIN sent : kept[n] = sent[n]
      BY <1>3, <2>4, <2>5, <2>6, KeptFacts
    <2>8. /\ forgotten' = (forgotten \cup (EntryLeft(key, name) \ unseen)) \cap down'
          /\ unseen' = unseen \cap down'
      BY <2>3 DEF Forget
    <2>9. KeepsOwnNames'
      <3>1. ASSUME NEW t \in forgotten', t \notin forgotten, NEW own \in keyboard, HasOwnName(own)
            PROVE  ~IsKeysymOf(t, own, keyOf(own, FALSE))
        <4>1. t \in EntryLeft(key, keyOf(key, ShiftHeld))
          BY <2>2, <2>8, <3>1
        <4> QED  BY <1>3, <3>1, <4>1, EntryLeftHasNoOwnName, PlatformFacts
      <3> QED  BY <1>6, <3>1, NamesKept
    <2>10. (name = "Control") = (key = "Control")
      <3>1. key \in QtKeys
        BY <1>3, <1>5, PlatformFacts
      <3> QED  BY <2>2, <3>1 DEF keyOf, QtKeys
    <2>11. CASE Mac /\ name = "Control"
      <3>1. PICK events : events = Release(keysym) \o Fakes(kept)
        OBVIOUS
      <3>2. Released(sent, name, keysymNow) = << <<>>, events >>
        BY SMTT(30), <2>4, <2>5, <2>11, <3>1, ReleasedIs
      <3>3. /\ mSentKeysmsForKeyPress' = <<>>
            /\ down' = IF connected THEN HeldAfter(held, events) ELSE held
        BY <1>1, <2>3, <3>2 DEF Handle, orv_send_key_event
      <3>4. \A t \in down' : t \in held /\ \A n \in DOMAIN kept : kept[n] # t
        BY <1>3, <2>7, <3>1, <3>3, AllReleased
      <3>5. \A t \in down' : t \in lost
        BY <1>3, <2>7, <3>4 DEF Covered
      <3>6. down' \subseteq forgotten' \cup unseen'
        BY <1>1, <2>8, <3>5
      <3>7. GoodTable(<<>>)
        BY DEF GoodTable
      <3>8. Covered(down', forgotten' \cup unseen', <<>>, Pressing')
        BY <3>6 DEF Covered
      <3>9. TableOK' /\ HeldByTable'
        BY <1>2, <1>6, <3>3, <3>7, <3>8, TableAfter
      <3> QED  BY <1>7, <1>8, <2>9, <3>9
    <2>12. CASE ~(Mac /\ name = "Control")
      <3>1. Released(sent, name, keysymNow) = <<kept, Release(keysym)>>
        BY <2>4, <2>5, <2>12, ReleasedIs
      <3>2. /\ mSentKeysmsForKeyPress' = kept
            /\ down' = IF connected THEN HeldAfter(held, Release(keysym)) ELSE held
        BY <1>1, <2>3, <3>1 DEF Handle, orv_send_key_event
      <3>3. down' \subseteq held /\ (keysym # NoKeysym => keysym \notin down')
        BY <1>3, <3>2, OneRelease
      <3>4. ~(Mac /\ "Control" \in fingers)
        BY <1>10, <2>10, <2>12
      <3>5. ASSUME NEW t \in down' \ (forgotten' \cup unseen')
            PROVE  \E n \in Pressing' \cap DOMAIN kept : kept[n] = t
        <4>1. t \in held \ lost /\ t \notin EntryLeft(key, name)
          BY <1>1, <2>8, <3>3, <3>5
        <4>2. t \notin EntryOf(name)
          <5>1. \A n \in DOMAIN sent : sent[n] # NoKeysym
            BY <1>3 DEF GoodTable, IsKeysymOf
          <5>2. name \in DOMAIN sent => sent[name] = keysym /\ keysym # NoKeysym
            BY <2>4, <5>1 DEF ReleasedKeysym
          <5> QED  BY <1>1, <3>3, <3>5, <5>2 DEF EntryOf
        <4>3. PICK k \in DOMAIN pressedAs \ {key} :
                 pressedAs[k] \in DOMAIN sent \ {name} /\ sent[pressedAs[k]] = t
          BY <1>1, <1>2, <3>4, <4>1, <4>2, HeldForAnother
        <4>4. pressedAs[k] \in Pressing'
          <5>1. Pressing' = NamesIn(pressedAs') \cap DOMAIN kept
            BY <1>6, <1>7, <3>2, <3>4 DEF Pressing, NamesIn
          <5>2. pressedAs[k] \in NamesIn(pressedAs')
            BY <1>7 DEF NamesIn
          <5> QED  BY <2>7, <4>3, <5>1, <5>2
        <4> QED  BY <2>7, <4>3, <4>4
      <3>6. Covered(down', forgotten' \cup unseen', kept, Pressing')
        BY <3>5 DEF Covered
      <3>7. TableOK' /\ HeldByTable'
        BY <1>2, <1>6, <2>7, <3>2, <3>6, TableAfter
      <3> QED  BY <1>7, <1>8, <2>9, <3>7
    <2> QED  BY <2>11, <2>12
  <1> QED  BY <1>9, <1>10

Press(keysym) == Event(TRUE, keysym)

(* The events of a repeat are those of a release and of a press. *)
LEMMA RepeatIs ==
    ASSUME NEW held, NEW keysym, NEW now, keysym = NoKeysym => now = NoKeysym
    PROVE  HeldAfter(held, Release(keysym) \o Press(now)) =
             (held \ ({keysym} \ {NoKeysym})) \cup ({now} \ {NoKeysym})
  <1>1. CASE now = NoKeysym
    <2>1. Press(now) = <<>>
      BY <1>1 DEF Event, Press
    <2>2. PICK releases : releases = Release(keysym)
      OBVIOUS
    <2>3. releases \in Seq({<<FALSE, keysym>>})
      <3>1. << <<FALSE, keysym>> >> \in Seq({<<FALSE, keysym>>}) /\ <<>> \in Seq({<<FALSE, keysym>>})
        OBVIOUS
      <3> QED  BY <2>2, <3>1 DEF Event, Release
    <2>4. releases \o <<>> = releases
      BY <2>3, ConcatEmptySeq
    <2>5. Release(keysym) \o Press(now) = Release(keysym)
      BY <2>1, <2>2, <2>4
    <2>6. HeldAfter(held, Release(keysym)) = IF keysym = NoKeysym THEN held ELSE held \ {keysym}
      BY OneRelease
    <2>7. HeldAfter(held, Release(keysym)) = held \ ({keysym} \ {NoKeysym})
      BY <2>6
    <2> QED  BY <1>1, <2>5, <2>7
  <1>2. CASE now # NoKeysym
    <2>1. PICK release, press : release = <<FALSE, keysym>> /\ press = <<TRUE, now>>
      OBVIOUS
    <2>2. <<release>> \o <<press>> = <<release, press>>
      <3>1. PICK S : S = {release, press}
        OBVIOUS
      <3>2. PICK list, end, both : list = <<release>> /\ end = <<press>> /\ both = <<release, press>>
        OBVIOUS
      <3>3. list \in Seq(S) /\ end \in Seq(S) /\ both \in Seq(S)
        BY <3>1, <3>2
      <3>4. /\ Len(list) = 1 /\ list[1] = release /\ Len(end) = 1 /\ end[1] = press
            /\ Len(both) = 2 /\ both[1] = release /\ both[2] = press
        BY <3>2
      <3>5. /\ list \o end \in Seq(S) /\ Len(list \o end) = 2
            /\ (list \o end)[1] = release /\ (list \o end)[2] = press
        BY SMTT(30), <3>3, <3>4, ConcatProperties
      <3>6. list \o end = both
        BY <3>3, <3>4, <3>5, SeqEqual
      <3> QED  BY <3>2, <3>6
    <2>3. Release(keysym) = <<release>> /\ Press(now) = <<press>>
      BY <1>2, <2>1 DEF Release, Press, Event
    <2>4. Release(keysym) \o Press(now) = Repeat(keysym, now)
      BY <2>1, <2>2, <2>3 DEF Repeat
    <2>5. HeldAfter(held, Repeat(keysym, now)) = (held \ {keysym}) \cup {now}
      BY HeldAfterRepeat
    <2> QED  BY <1>2, <2>4, <2>5
  <1> QED  BY <1>1, <1>2

(* A repeat releases what was pressed and presses what the key is now. *)
LEMMA RepeatStep ==
    ASSUME KeyInv, AutoRepeat
    PROVE  TypeOK' /\ TableOK' /\ NamesOK' /\ HeldByTable' /\ KeepsOwnNames'
  <1>1. PICK sent, held, lost, p :
           /\ sent = mSentKeysmsForKeyPress /\ held = down
           /\ lost = forgotten \cup unseen /\ p = pressedAs
    OBVIOUS
  <1>2. platform = "other" /\ ~Mac /\ QtKeyboard /\ UNCHANGED <<connectionVars, userVars, mask, typed>>
    BY DEF AutoRepeat, Mac, QtKeyboard
  <1>3. TypeOK /\ GoodTable(sent) /\ (~connected => held = {})
    BY <1>1, <1>2, InvFacts
  <1>4. PICK key \in fingers :
           \E text \in TextOf(key, ShiftHeld) :
             LET name == keyOf(key, ShiftHeld)
                 now == KeysymNow(key, ShiftHeld, text)
                 released == Released(sent, name, now)
                 pressed == Pressed(released[1], name, now)
             IN  /\ Handle(<<pressed[1], released[2] \o pressed[2]>>)
                 /\ pressedAs' = WithKey(p, key, name)
                 /\ Forget(EntryLeft(key, name), {now} \ {NoKeysym})
    BY <1>1 DEF AutoRepeat
  <1>5. PICK text \in TextOf(key, ShiftHeld) :
             LET name == keyOf(key, ShiftHeld)
                 now == KeysymNow(key, ShiftHeld, text)
                 released == Released(sent, name, now)
                 pressed == Pressed(released[1], name, now)
             IN  /\ Handle(<<pressed[1], released[2] \o pressed[2]>>)
                 /\ pressedAs' = WithKey(p, key, name)
                 /\ Forget(EntryLeft(key, name), {now} \ {NoKeysym})
    BY <1>4
  <1>6. PICK name, now, keysym, kept :
           /\ name = keyOf(key, ShiftHeld) /\ now = KeysymNow(key, ShiftHeld, text)
           /\ keysym = ReleasedKeysym(sent, name, now) /\ kept = KeptTable(sent, name, keysym)
    OBVIOUS
  <1>7. key \in keyboard /\ (now = NoKeysym \/ IsKeysymOf(now, key, name))
    BY <1>2, <1>3, <1>6, KeysymIsOfKey, PlatformFacts
  <1>8. /\ GoodTable(kept) /\ DOMAIN sent \subseteq DOMAIN kept
        /\ \A n \in DOMAIN sent : kept[n] = sent[n]
    BY <1>3, <1>6, <1>7, KeptFacts
  <1>9. Released(sent, name, now) = <<kept, Release(keysym)>>
    BY <1>2, <1>6, ReleasedIs
  <1>10. /\ Handle(<<Pressed(kept, name, now)[1], Release(keysym) \o Pressed(kept, name, now)[2]>>)
         /\ pressedAs' = WithKey(p, key, name)
         /\ Forget(EntryLeft(key, name), {now} \ {NoKeysym})
    BY <1>5, <1>6, <1>9
  <1>11. PICK table : table = KeptTable(kept, name, now)
    OBVIOUS
  <1>12. /\ mSentKeysmsForKeyPress' = table
         /\ down' = IF connected THEN HeldAfter(held, Release(keysym) \o Press(now)) ELSE held
    BY <1>1, <1>10, <1>11 DEF Handle, orv_send_key_event, Pressed, Press, KeptTable
  <1>13. /\ GoodTable(table) /\ DOMAIN kept \subseteq DOMAIN table
         /\ \A n \in DOMAIN kept \ {name} : table[n] = kept[n]
         /\ now # NoKeysym => name \in DOMAIN table /\ table[name] = now
    BY <1>7, <1>8, <1>11 DEF KeptTable, WithKey, GoodTable
  <1>14. /\ \A n \in DOMAIN sent : sent[n] # NoKeysym
         /\ name \in DOMAIN sent => keysym = sent[name] /\ keysym # NoKeysym
         /\ keysym = NoKeysym => now = NoKeysym
    BY <1>3, <1>6 DEF ReleasedKeysym, GoodTable, IsKeysymOf
  <1>15. down' \subseteq (held \ ({keysym} \ {NoKeysym})) \cup ({now} \ {NoKeysym})
    <2>1. PICK repeated : repeated = HeldAfter(held, Release(keysym) \o Press(now))
      OBVIOUS
    <2>2. repeated = (held \ ({keysym} \ {NoKeysym})) \cup ({now} \ {NoKeysym})
      BY <1>14, <2>1, RepeatIs
    <2>3. down' = IF connected THEN repeated ELSE held
      BY <1>12, <2>1
    <2> QED  BY <1>3, <2>2, <2>3
  <1>16. /\ Mac' = Mac /\ keyboard' = keyboard /\ UNCHANGED connectionVars /\ fingers' = fingers
         /\ buttons' = buttons /\ QtKeyboard' = QtKeyboard
    BY <1>2 DEF connectionVars, userVars, Mac, QtKeyboard
  <1>17. TypeOK'
    BY <1>3, <1>16 DEF TypeOK, connectionVars
  <1>18. PICK names : names = pressedAs'
    OBVIOUS
  <1>19. /\ DOMAIN names = {key} \cup DOMAIN p /\ names[key] = name
         /\ \A k \in DOMAIN p \ {key} : names[k] = p[k]
    BY <1>10, <1>18 DEF WithKey
  <1>20. NamesOK'
    <2>1. DOMAIN p \subseteq fingers /\ \A k \in DOMAIN p : k \in keyboard /\ p[k] \in NamesOf(k)
      BY <1>1 DEF KeyInv, NamesOK
    <2>2. name \in NamesOf(key)
      BY <1>3, <1>6, PlatformFacts DEF NamesOf
    <2>3. /\ DOMAIN names \subseteq fingers
          /\ \A k \in DOMAIN names : k \in keyboard /\ names[k] \in NamesOf(k)
      BY <1>7, <1>19, <2>1, <2>2
    <2> QED  BY <1>16, <1>18, <2>3 DEF NamesOK, NamesOf
  <1>21. /\ forgotten' = ((forgotten \cup (EntryLeft(key, name) \ unseen)) \cap down') \ ({now} \ {NoKeysym})
         /\ unseen' = (unseen \cap down') \ ({now} \ {NoKeysym})
    BY <1>10 DEF Forget
  <1>22. Pressing' = NamesIn(names) \cap DOMAIN table
    BY <1>2, <1>12, <1>16, <1>18 DEF Pressing, NamesIn
  <1>23. ASSUME NEW t \in down' \ (forgotten' \cup unseen')
         PROVE  \E n \in Pressing' \cap DOMAIN table : table[n] = t
    <2>1. CASE t \in {now} \ {NoKeysym}
      BY <1>13, <1>19, <1>22, <2>1 DEF NamesIn
    <2>2. CASE t \notin {now} \ {NoKeysym}
      <3>1. t \in held \ lost /\ t \notin EntryLeft(key, name) /\ t \notin {keysym} \ {NoKeysym}
        BY <1>1, <1>15, <1>21, <1>23, <2>2
      <3>2. t \notin EntryOf(name)
        BY <1>1, <1>14, <3>1 DEF EntryOf
      <3>3. PICK k \in DOMAIN p \ {key} : p[k] \in DOMAIN sent \ {name} /\ sent[p[k]] = t
        BY <1>1, <1>2, <3>1, <3>2, HeldForAnother
      <3>4. p[k] \in DOMAIN table /\ table[p[k]] = t
        BY <1>8, <1>13, <3>3
      <3>5. p[k] \in NamesIn(names)
        BY <1>19, <3>3 DEF NamesIn
      <3> QED  BY <1>22, <3>4, <3>5
    <2> QED  BY <2>1, <2>2
  <1>24. TableOK' /\ HeldByTable'
    <2>1. Covered(down', forgotten' \cup unseen', table, Pressing')
      BY <1>23 DEF Covered
    <2> QED  BY <1>2, <1>12, <1>13, <1>16, <2>1, TableAfter
  <1>25. KeepsOwnNames'
    <2>1. ASSUME NEW t \in forgotten', t \notin forgotten, NEW own \in keyboard, HasOwnName(own)
          PROVE  ~IsKeysymOf(t, own, keyOf(own, FALSE))
      <3>1. t \in EntryLeft(key, keyOf(key, ShiftHeld))
        BY <1>6, <1>21, <2>1
      <3> QED  BY <1>3, <2>1, <3>1, EntryLeftHasNoOwnName, PlatformFacts
    <2> QED  BY <1>16, <2>1, NamesKept
  <1> QED  BY <1>17, <1>20, <1>24, <1>25

LEMMA KeySteps ==
    ASSUME KeyInv, keyPressEvent \/ keyReleaseEvent \/ AutoRepeat
    PROVE  KeyInv'
  <1>1. shown /\ UNCHANGED <<connectionVars, buttons, mask>>
    BY DEF keyPressEvent, keyReleaseEvent, AutoRepeat, userVars, HasFocus
  <1>2. TypeOK' /\ TableOK' /\ NamesOK' /\ HeldByTable' /\ KeepsOwnNames'
    BY PressStep, ReleaseStep, RepeatStep
  <1>3. ~connected => down' = down
    BY DEF keyPressEvent, keyReleaseEvent, AutoRepeat, Handle, orv_send_key_event
  <1>4. NothingHeldUnseen'
    BY <1>1, <1>3 DEF KeyInv, NothingHeldUnseen, connectionVars
  <1> QED  BY <1>1, <1>2, <1>4 DEF KeyInv, connectionVars

-----------------------------------------------------------------------------
(* The other steps *)

(* Nothing that the table is about changes. *)
LEMMA Untouched ==
    ASSUME KeyInv, platform' = platform, keyboard' = keyboard, UNCHANGED tableVars
    PROVE  TableOK' /\ KeepsOwnNames' /\ (fingers' = fingers => NamesOK')
  <1>1. Mac' = Mac
    BY DEF Mac
  <1>2. TableOK'
    BY <1>1 DEF KeyInv, TableOK, IsKeysymOf, KeysymNow, tableVars
  <1>3. KeepsOwnNames'
    BY <1>1 DEF KeyInv, KeepsOwnNames, HasOwnName, IsKeysymOf, KeysymNow, tableVars
  <1>4. fingers' = fingers => NamesOK'
    BY DEF KeyInv, NamesOK, tableVars
  <1> QED  BY <1>2, <1>3, <1>4

LEMMA ConnectionSteps ==
    ASSUME KeyInv, Connect \/ Disconnect \/ ShowDesktop \/ FocusChanges
    PROVE  KeyInv'
  <1>1. /\ platform' = platform /\ keyboard' = keyboard /\ fingers' = fingers /\ buttons' = buttons
        /\ mSentKeysmsForKeyPress' = mSentKeysmsForKeyPress /\ pressedAs' = pressedAs
    BY DEF Connect, Disconnect, ShowDesktop, FocusChanges, userVars, tableVars
  <1>2. Mac' = Mac /\ QtKeyboard' = QtKeyboard /\ Pressing' = Pressing
    BY <1>1 DEF Mac, QtKeyboard, Pressing
  <1>3. TypeOK'
    BY <1>1, <1>2 DEF KeyInv, TypeOK, Connect, Disconnect, ShowDesktop, FocusChanges
  <1>4. NamesOK'
    BY <1>1 DEF KeyInv, NamesOK
  <1>5. CASE Connect \/ ShowDesktop \/ FocusChanges
    <2>1. down' = down /\ mask' = mask /\ UNCHANGED tableVars
      BY <1>5 DEF Connect, ShowDesktop, FocusChanges
    <2>2. TableOK' /\ KeepsOwnNames'
      BY <1>1, <2>1, Untouched
    <2>3. HeldByTable'
      BY <1>1, <1>2, <2>1 DEF KeyInv, HeldByTable, tableVars
    <2>4. ~(connected /\ shown) \/ (connected' = connected /\ shown' = shown)
      BY <1>5 DEF KeyInv, TypeOK, Connect, ShowDesktop, FocusChanges
    <2>5. NothingHeldUnseen'
      BY <2>1, <2>4 DEF KeyInv, NothingHeldUnseen
    <2> QED  BY <1>1, <1>3, <1>4, <2>1, <2>2, <2>3, <2>5 DEF KeyInv
  <1>6. CASE Disconnect
    <2>1. down' = {} /\ mask' = {} /\ forgotten' = {}
      BY <1>6 DEF Disconnect
    <2>2. TableOK'
      BY <1>1, <1>2 DEF KeyInv, TableOK, IsKeysymOf, KeysymNow
    <2> QED  BY <1>3, <1>4, <2>1, <2>2 DEF KeyInv, HeldByTable, NothingHeldUnseen, KeepsOwnNames
  <1> QED  BY <1>5, <1>6

LEMMA PressUnseenStep ==
    ASSUME KeyInv, PressUnseen
    PROVE  KeyInv'
  <1>1. PICK key \in (IF QtKeyboard THEN keyboard ELSE AndroidKeys) \ fingers :
           fingers' = fingers \cup {key}
    BY DEF PressUnseen
  <1>2. UNCHANGED <<connectionVars, buttons, tableVars, down, mask, typed>>
    BY DEF PressUnseen
  <1>3. Mac' = Mac /\ QtKeyboard' = QtKeyboard /\ UNCHANGED <<platform, keyboard>>
    BY <1>2 DEF Mac, QtKeyboard, connectionVars
  <1>4. TypeOK'
    BY <1>1, <1>2, <1>3 DEF KeyInv, TypeOK, connectionVars
  <1>5. TableOK' /\ KeepsOwnNames'
    BY <1>2, <1>3, Untouched
  <1>6. NamesOK'
    BY <1>1, <1>2, <1>3 DEF KeyInv, NamesOK, NamesOf, tableVars
  <1>7. Pressing \subseteq Pressing'
    BY <1>1, <1>2, <1>3 DEF Pressing, tableVars
  <1>8. HeldByTable'
    BY <1>2, <1>3, <1>7 DEF KeyInv, HeldByTable, tableVars
  <1>9. NothingHeldUnseen'
    BY <1>2 DEF KeyInv, NothingHeldUnseen, connectionVars
  <1> QED  BY <1>2, <1>4, <1>5, <1>6, <1>8, <1>9 DEF KeyInv

(* What is let go of elsewhere stays pressed, and is unseen. *)
LEMMA ReleaseUnseenStep ==
    ASSUME KeyInv, ReleaseUnseen
    PROVE  KeyInv'
  <1> DEFINE sent == mSentKeysmsForKeyPress
             names(k) == IF Mac /\ "Control" = k THEN DOMAIN sent
                         ELSE {pressedAs[q] : q \in {k} \cap DOMAIN pressedAs}
  <1>1. PICK key \in fingers :
           LiftFinger(key) /\ unseen' = unseen \cup (down \cap UNION {EntryOf(n) : n \in names(key)})
    BY DEF ReleaseUnseen
  <1>2. UNCHANGED <<connectionVars, buttons, mSentKeysmsForKeyPress, forgotten, down, mask, typed>>
    BY DEF ReleaseUnseen
  <1>3. Mac' = Mac /\ QtKeyboard' = QtKeyboard /\ UNCHANGED <<platform, keyboard>>
    BY <1>2 DEF Mac, QtKeyboard, connectionVars
  <1>4. /\ NamesOK' /\ fingers' = fingers \ {key}
        /\ \A k \in DOMAIN pressedAs \ {key} : k \in DOMAIN pressedAs' /\ pressedAs'[k] = pressedAs[k]
    BY <1>1, <1>3, LiftFacts
  <1>5. TypeOK'
    BY <1>2, <1>3, <1>4 DEF KeyInv, TypeOK, connectionVars
  <1>6. TableOK'
    BY <1>2, <1>3 DEF KeyInv, TableOK, IsKeysymOf, KeysymNow
  <1>7. KeepsOwnNames'
    BY <1>2, NamesKept
  <1>8. ASSUME QtKeyboard, NEW t \in (down \ forgotten) \ unseen'
        PROVE  \E n \in Pressing' : sent[n] = t
    <2>1. PICK n \in Pressing : sent[n] = t
      BY <1>1, <1>8 DEF KeyInv, HeldByTable
    <2>2. n \in DOMAIN sent /\ n \notin names(key)
      <3>1. n \in DOMAIN sent
        BY <2>1 DEF Pressing
      <3>2. t \in EntryOf(n)
        BY <2>1, <3>1 DEF EntryOf
      <3> HIDE DEF names
      <3>3. n \notin names(key)
        BY <1>1, <1>8, <3>2
      <3> QED  BY <3>1, <3>3
    <2>3. CASE Mac /\ "Control" \in fingers
      <3>1. "Control" \in fingers'
        BY <1>4, <2>2, <2>3
      <3> QED  BY <1>2, <1>3, <2>1, <2>2, <2>3, <3>1 DEF Pressing
    <2>4. CASE ~(Mac /\ "Control" \in fingers)
      <3>1. PICK k \in DOMAIN pressedAs : pressedAs[k] = n
        BY <2>1, <2>4 DEF Pressing
      <3>2. k # key
        BY <1>1, <2>2, <2>4, <3>1
      <3>3. n \in NamesIn(pressedAs')
        BY <1>4, <3>1, <3>2 DEF NamesIn
      <3>4. Pressing' = NamesIn(pressedAs') \cap DOMAIN sent
        BY <1>2, <1>3, <1>4, <2>4 DEF Pressing, NamesIn
      <3> QED  BY <2>1, <2>2, <3>3, <3>4
    <2> QED  BY <2>3, <2>4
  <1>9. HeldByTable'
    BY <1>2, <1>3, <1>8 DEF HeldByTable
  <1>10. NothingHeldUnseen'
    BY <1>2 DEF KeyInv, NothingHeldUnseen, connectionVars
  <1> QED  BY <1>2, <1>4, <1>5, <1>6, <1>7, <1>9, <1>10 DEF KeyInv

(* The mask of the mouse is the user's, after a wheel too. *)
LEMMA MouseSteps ==
    ASSUME KeyInv,
           mousePressEvent \/ mouseReleaseEvent \/ mouseMoveEvent \/ wheelEvent \/ ButtonUnseen
    PROVE  KeyInv'
  <1>1. /\ UNCHANGED <<connectionVars, fingers, tableVars, down, typed>>
        /\ buttons' \subseteq Buttons
    BY DEF KeyInv, TypeOK, mousePressEvent, mouseReleaseEvent, mouseMoveEvent, wheelEvent,
           ButtonUnseen, userVars
  <1>2. mask' = (IF connected /\ shown THEN buttons' ELSE mask) /\ (~(connected /\ shown) => mask = {})
    <2>1. Last(<<buttons'>>) = buttons' /\ Last(<<buttons>>) = buttons /\ Last(wheelEvents) = buttons
      BY DEF Last, wheelEvents
    <2>2. ~(connected /\ shown) => mask = {}
      BY DEF KeyInv, NothingHeldUnseen
    <2>3. CASE ButtonUnseen
      BY <2>2, <2>3 DEF ButtonUnseen
    <2>4. CASE ~ButtonUnseen
      BY <2>1, <2>2, <2>4 DEF mousePressEvent, mouseReleaseEvent, mouseMoveEvent, wheelEvent, userVars,
                              orv_send_pointer_event
    <2> QED  BY <2>2, <2>3, <2>4
  <1>3. Mac' = Mac /\ QtKeyboard' = QtKeyboard /\ Pressing' = Pressing /\ UNCHANGED <<platform, keyboard>>
    BY <1>1 DEF Mac, QtKeyboard, connectionVars, Pressing, tableVars
  <1>4. TypeOK'
    BY <1>1, <1>3 DEF KeyInv, TypeOK, connectionVars
  <1>5. TableOK' /\ KeepsOwnNames' /\ NamesOK'
    BY <1>1, <1>3, Untouched
  <1>6. HeldByTable'
    BY <1>1, <1>3 DEF KeyInv, HeldByTable, tableVars
  <1>7. NothingHeldUnseen' /\ mask' \subseteq buttons'
    BY <1>1, <1>2 DEF KeyInv, NothingHeldUnseen, connectionVars
  <1> QED  BY <1>4, <1>5, <1>6, <1>7 DEF KeyInv

(* On Android the table is not used. *)
LEMMA AndroidSteps ==
    ASSUME KeyInv,
           orv_android_on_key_down \/ orv_android_on_key_up \/ orv_android_on_key_multiple
    PROVE  KeyInv'
  <1>1. /\ ~QtKeyboard /\ fingers' \subseteq AndroidKeys
        /\ UNCHANGED <<connectionVars, buttons, tableVars, mask>>
    BY DEF KeyInv, TypeOK, orv_android_on_key_down, orv_android_on_key_up,
           orv_android_on_key_multiple, userVars
  <1>2. ~connected => down' = down
    BY DEF orv_android_on_key_down, orv_android_on_key_up, orv_android_on_key_multiple,
           orv_send_key_event
  <1>3. Mac' = Mac /\ QtKeyboard' = QtKeyboard /\ UNCHANGED <<platform, keyboard>>
    BY <1>1 DEF Mac, QtKeyboard, connectionVars
  <1>4. TypeOK'
    BY <1>1, <1>3 DEF KeyInv, TypeOK, connectionVars
  <1>5. TableOK' /\ KeepsOwnNames'
    BY <1>1, <1>3, Untouched
  <1>6. NamesOK'
    <2>1. \A k \in AndroidKeys : k \notin keyboard
      BY PlatformFacts DEF KeyInv, AndroidKeys, QtKeys
    <2>2. DOMAIN pressedAs = {}
      BY <1>1, <2>1 DEF KeyInv, TypeOK, NamesOK
    <2> QED  BY <1>1, <2>2 DEF NamesOK, tableVars
  <1>7. NothingHeldUnseen'
    <2>1. shown
      BY DEF orv_android_on_key_down, orv_android_on_key_up, orv_android_on_key_multiple, HasFocus
    <2> QED  BY <1>1, <1>2, <2>1 DEF KeyInv, NothingHeldUnseen, connectionVars
  <1>8. HeldByTable'
    BY <1>1, <1>3 DEF HeldByTable
  <1> QED  BY <1>1, <1>4, <1>5, <1>6, <1>7, <1>8 DEF KeyInv

LEMMA KeyInvariant == Spec => []KeyInv
  <1>1. Init => KeyInv
    <2> SUFFICES ASSUME Init  PROVE KeyInv
      OBVIOUS
    <2>1. TypeOK
      BY DEF Init, TypeOK
    <2>2. /\ DOMAIN mSentKeysmsForKeyPress = {} /\ DOMAIN pressedAs = {}
          /\ down = {} /\ mask = {} /\ forgotten = {}
      BY DEF Init
    <2> QED  BY <2>1, <2>2 DEF KeyInv, TableOK, NamesOK, HeldByTable, NothingHeldUnseen, KeepsOwnNames
  <1>2. KeyInv /\ [Next]_vars => KeyInv'
    <2> SUFFICES ASSUME KeyInv, [Next]_vars  PROVE KeyInv'
      OBVIOUS
    <2>1. CASE Next
      BY <2>1, ConnectionSteps, KeySteps, PressUnseenStep, ReleaseUnseenStep, MouseSteps, AndroidSteps
         DEF Next
    <2>2. CASE UNCHANGED vars
      <3>1. /\ UNCHANGED <<connectionVars, userVars, tableVars, down, mask>>
            /\ Mac' = Mac /\ QtKeyboard' = QtKeyboard /\ Pressing' = Pressing
        BY <2>2 DEF vars, connectionVars, userVars, tableVars, Mac, QtKeyboard, Pressing
      <3>2. TableOK' /\ KeepsOwnNames' /\ NamesOK'
        BY <3>1, Untouched DEF connectionVars, userVars
      <3>3. TypeOK' /\ HeldByTable' /\ NothingHeldUnseen' /\ mask' \subseteq buttons'
        BY <3>1 DEF KeyInv, TypeOK, HeldByTable, NothingHeldUnseen, connectionVars, userVars, tableVars
      <3> QED  BY <3>2, <3>3 DEF KeyInv
    <2> QED  BY <2>1, <2>2
  <1> QED  BY <1>1, <1>2, PTL DEF Spec

(* With no key held nothing is pressed at the server of a Qt client, and no *)
(* button that the user does not hold: whatever keys of QtKeys the keyboard *)
(* has, however presses, releases and repeats interleave with each other,  *)
(* with modifiers, with the focus and with the connection.  Excepted are   *)
(* the keysyms that lost their entry, never those of a key with a Qt::Key  *)
(* of its own unless on a Mac, and those of keys let go of while the       *)
(* widget did not have the focus.                                          *)
THEOREM NothingStaysStuck == Spec => []NothingStuck
  <1>1. KeyInv => NothingStuck
    <2> SUFFICES ASSUME KeyInv  PROVE NothingStuck
      OBVIOUS
    <2>1. ASSUME QtKeyboard, fingers = {}  PROVE down \subseteq forgotten \cup unseen
      <3>1. Pressing = {}
        BY <2>1 DEF KeyInv, NamesOK, Pressing
      <3> QED  BY <2>1, <3>1 DEF KeyInv, HeldByTable
    <2> QED  BY <2>1 DEF KeyInv, NothingStuck
  <1> QED  BY <1>1, KeyInvariant, PTL
=============================================================================
