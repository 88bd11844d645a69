--------------------------- MODULE ServerListProofs ---------------------------
(***************************************************************************)
(* The list of servers keeps its ids, survives the end of the program and  *)
(* announces what it removes, for any number of servers and any hosts and  *)
(* passwords.  What needs a first file that keeps the rules says so.       *)
(***************************************************************************)
EXTENDS ServerList, SequenceTheorems, FiniteSetTheorems, TLAPS

-----------------------------------------------------------------------------
(* Induction.  A set of numbers that lacks one lacks a least one: else the  *)
(* intervals 0..n would descend forever.                                   *)
LEMMA SetInduction ==
    ASSUME NEW S, 0 \in S, \A n \in Nat : n \in S => n + 1 \in S
    PROVE  Nat \subseteq S
  <1> SUFFICES ASSUME NEW m \in Nat, m \notin S  PROVE FALSE
    OBVIOUS
  <1> DEFINE intervals == {0..n : n \in Nat \ S}
  <1>1. intervals \subseteq FiniteSubsetsOf(Nat) /\ intervals # {}
    <2>1. \A n \in Nat : 0..n \in FiniteSubsetsOf(Nat)
      BY FS_Interval DEF FiniteSubsetsOf
    <2> QED  BY <2>1
  <1>2. IsWellFoundedOn(StrictSubsetOrdering(Nat), FiniteSubsetsOf(Nat))
    BY FS_StrictSubsetOrderingWellFounded
  <1>3. \E x \in intervals : \A y \in intervals : <<y, x>> \notin StrictSubsetOrdering(Nat)
    <2> HIDE DEF intervals
    <2> QED  BY <1>1, <1>2, WFMin
  <1>4. PICK n \in Nat \ S : \A k \in Nat \ S : <<0..k, 0..n>> \notin StrictSubsetOrdering(Nat)
    BY <1>3
  <1>5. n # 0 /\ n - 1 \in Nat
    OBVIOUS
  <1>6. <<0..(n - 1), 0..n>> \in StrictSubsetOrdering(Nat)
    <2>1. n \in 0..n /\ n \notin 0..(n - 1) /\ 0..(n - 1) \subseteq 0..n /\ 0..n \subseteq Nat
      BY <1>5
    <2> QED  BY <2>1 DEF StrictSubsetOrdering
  <1>7. n - 1 \in S
    BY <1>4, <1>5, <1>6
  <1> QED  BY <1>5, <1>7

-----------------------------------------------------------------------------
(* Loading the list *)

(* The loop of loadServerListFromFile(), entry by entry. *)
LEMMA LoadedLoop ==
    ASSUME NEW file, file.serverCount \in Nat
    PROVE  /\ LoadedOf(file)[0] = <<>>
           /\ \A n \in 1..file.serverCount :
                 LoadedOf(file)[n] = AddLoaded(ReadGroup(file, n - 1), LoadedOf(file)[n - 1])
  <1> DEFINE Entry(list, n) ==
                 IF n = 0 THEN <<>> ELSE AddLoaded(ReadGroup(file, n - 1), list[n - 1])
             S == {n \in Nat : \E list : list = [m \in 0..n |-> Entry(list, m)]}
  <1>1. 0 \in S
    <2> DEFINE list == [m \in 0..0 |-> <<>>]
    <2>1. list = [m \in 0..0 |-> Entry(list, m)]
      OBVIOUS
    <2> QED  BY <2>1
  <1>2. ASSUME NEW n \in Nat, n \in S  PROVE n + 1 \in S
    <2>1. PICK list : list = [m \in 0..n |-> Entry(list, m)]
      BY <1>2
    <2> DEFINE next == [m \in 0..(n + 1) |->
                          IF m \in 0..n THEN list[m] ELSE AddLoaded(ReadGroup(file, n), list[n])]
    <2>2. \A m \in 0..(n + 1) : next[m] = Entry(next, m)
      <3> SUFFICES ASSUME NEW m \in 0..(n + 1)  PROVE next[m] = Entry(next, m)
        OBVIOUS
      <3>1. CASE m = 0
        BY <2>1, <3>1
      <3>2. CASE m \in 1..n
        <4>1. next[m] = list[m] /\ next[m - 1] = list[m - 1]
          BY <3>2
        <4>2. list[m] = AddLoaded(ReadGroup(file, m - 1), list[m - 1])
          BY <2>1, <3>2
        <4> QED  BY <3>2, <4>1, <4>2
      <3>3. CASE m = n + 1
        BY <3>3
      <3> QED  BY <3>1, <3>2, <3>3
    <2>3. next = [m \in 0..(n + 1) |-> Entry(next, m)]
      BY <2>2
    <2> HIDE DEF next
    <2> QED  BY <2>3
  <1>3. file.serverCount \in S
    <2> HIDE DEF S
    <2> QED  BY <1>1, <1>2, SetInduction
  <1>4. \E list : list = [m \in 0..file.serverCount |-> Entry(list, m)]
    BY <1>3
  <1>5. LoadedOf(file) = [m \in 0..file.serverCount |-> Entry(LoadedOf(file), m)]
    <2>1. LoadedOf(file) = CHOOSE list : list = [m \in 0..file.serverCount |-> Entry(list, m)]
      BY DEF LoadedOf
    <2> QED  BY <1>4, <2>1
  <1> QED  BY <1>5

(* What every list of the program is like. *)
GoodList(list) ==
    /\ list \in Seq(Server)
    /\ \A k \in DOMAIN list : list[k].savePassword \/ list[k].password = Empty
    /\ \A k, l \in DOMAIN list : list[k].id = list[l].id => k = l

(* A list with the number the next server will be given. *)
Listed(servers, next) ==
    /\ GoodList(servers)
    /\ next \in Nat \ {0}
    /\ Len(servers) <= MaxServerId /\ Len(servers) < next
    /\ \A k \in DOMAIN servers : servers[k].id < next

(* What holds of the list on any file. *)
Typed(servers, next) ==
    /\ servers \in Seq(Server) /\ Len(servers) <= MaxServerId
    /\ \A k \in DOMAIN servers : servers[k].savePassword \/ servers[k].password = Empty
    /\ next \in Nat \ {0}

(* The file holds the list, its next number and no other passwords. *)
Kept(servers, next, file) ==
    /\ file \in SettingsFile
    /\ WithoutFormat(Loaded(file)) = WithoutFormat(servers)
    /\ LoadedNextId(file) = next
    /\ \A i \in Indices : file.groups[i] # NoGroup /\ file.groups[i].password # NoPassword =>
          \E k \in DOMAIN servers :
             /\ servers[k].id = file.groups[i].id /\ servers[k].savePassword
             /\ servers[k].password = file.groups[i].password

LEMMA NoGroupIsNoGroup == NoGroup \notin Group
  BY DEF NoGroup, Group

(* An entry of the file with a valid id is a server. *)
LEMMA ReadGroupType ==
    ASSUME NEW file \in SettingsFile, NEW i \in Indices
    PROVE  /\ ReadGroup(file, i).id \in Int
           /\ ReadGroup(file, i).id > 0 => ReadGroup(file, i) \in Server
           /\ ReadGroup(file, i).savePassword \/ ReadGroup(file, i).password = Empty
  <1> DEFINE g == file.groups[i]
  <1>1. g \in Group \cup {NoGroup}
    BY DEF SettingsFile
  <1>2. CASE g = NoGroup
    BY <1>2 DEF ReadGroup
  <1>3. CASE g # NoGroup
    <2>1. g \in Group
      BY <1>1, <1>3
    <2>2. ReadGroup(file, i) =
            [id |-> g.id, host |-> g.host, savePassword |-> g.savePassword,
             password |-> IF g.savePassword /\ g.password # NoPassword THEN g.password ELSE Empty,
             connected |-> g.connected, profile |-> g.profile,
             format |-> IF g.profile = "custom" /\ file.formats[i] = "set" THEN "set" ELSE "zero"]
      BY <1>3 DEF ReadGroup
    <2> HIDE DEF g
    <2>3. /\ g.id \in Int /\ g.host \in Hosts \cup {Empty} /\ g.savePassword \in BOOLEAN
          /\ g.password \in Passwords \cup {Empty, NoPassword} /\ g.connected \in BOOLEAN
          /\ g.profile \in {"best", "custom"}
      BY <2>1 DEF Group
    <2> QED  BY <2>2, <2>3 DEF Server
  <1> QED  BY <1>2, <1>3

(* Whatever the file says, what is loaded is a list with every id once. *)
LEMMA LoadedGood ==
    ASSUME NEW file \in SettingsFile
    PROVE  GoodList(Loaded(file)) /\ Len(Loaded(file)) <= file.serverCount
  <1> DEFINE count == file.serverCount
             L == LoadedOf(file)
             S == {n \in Nat : n <= count => GoodList(L[n]) /\ Len(L[n]) <= n}
  <1>1. count \in 0..MaxServerId /\ count \in Nat
    BY ServerListAssumption DEF SettingsFile
  <1>2. L[0] = <<>> /\ \A n \in 1..count : L[n] = AddLoaded(ReadGroup(file, n - 1), L[n - 1])
    BY <1>1, LoadedLoop
  <1>3. 0 \in S
    <2>1. GoodList(<<>>)
      BY DEF GoodList
    <2> QED  BY <1>2, <2>1
  <1>4. ASSUME NEW n \in Nat, n \in S  PROVE n + 1 \in S
    <2> SUFFICES ASSUME n + 1 <= count
                 PROVE  GoodList(L[n + 1]) /\ Len(L[n + 1]) <= n + 1
      OBVIOUS
    <2>1. GoodList(L[n]) /\ Len(L[n]) <= n
      BY <1>1, <1>4
    <2>2. L[n + 1] = AddLoaded(ReadGroup(file, n), L[n])
      BY <1>1, <1>2
    <2>3. n \in Indices
      BY <1>1, ServerListAssumption DEF Indices
    <2> HIDE DEF L, S, count
    <2> DEFINE s == ReadGroup(file, n)
    <2>4. CASE L[n + 1] = L[n]
      <3>1. Len(L[n]) \in Nat
        BY <2>1 DEF GoodList
      <3> QED  BY <2>1, <2>4, <3>1
    <2>5. CASE s.id > 0 /\ (\A k \in DOMAIN L[n] : L[n][k].id # s.id)
                 /\ L[n + 1] = Append(L[n], s)
      <3>1. s \in Server /\ (s.savePassword \/ s.password = Empty)
        BY <2>3, <2>5, ReadGroupType
      <3>2. PICK list : list = L[n]
        OBVIOUS
      <3> HIDE DEF s
      <3>3. list \in Seq(Server) /\ Len(list) \in Nat
        BY <2>1, <3>2 DEF GoodList
      <3>4. /\ Append(list, s) \in Seq(Server) /\ Len(Append(list, s)) = Len(list) + 1
            /\ \A k \in 1..Len(list) : Append(list, s)[k] = list[k]
            /\ Append(list, s)[Len(list) + 1] = s
        BY <3>1, <3>3
      <3>5. DOMAIN Append(list, s) = 1..(Len(list) + 1) /\ DOMAIN list = 1..Len(list)
        BY <3>3, <3>4
      <3>6. \A k \in 1..Len(list) : list[k].id # s.id
        BY <2>5, <3>2, <3>5
      <3>7. /\ \A k \in 1..Len(list) : list[k].savePassword \/ list[k].password = Empty
            /\ \A k, l \in 1..Len(list) : list[k].id = list[l].id => k = l
        BY <2>1, <3>2, <3>5 DEF GoodList
      <3>8. GoodList(Append(list, s))
        <4>1. \A k \in 1..(Len(list) + 1) : k \in 1..Len(list) \/ k = Len(list) + 1
          BY <3>3
        <4> QED  BY <3>1, <3>4, <3>5, <3>6, <3>7, <4>1 DEF GoodList
      <3> QED  BY <2>1, <2>5, <3>2, <3>3, <3>4, <3>8
    <2> QED  BY <2>2, <2>4, <2>5 DEF AddLoaded
  <1>5. count \in S
    <2> HIDE DEF S
    <2> QED  BY <1>1, <1>3, <1>4, SetInduction
  <1> QED  BY <1>1, <1>5 DEF Loaded

LEMMA LoadedTyped ==
    ASSUME NEW file \in SettingsFile
    PROVE  Typed(Loaded(file), LoadedNextId(file))
  <1>1. PICK list, next : list = Loaded(file) /\ next = LoadedNextId(file)
    OBVIOUS
  <1>2. next \in Nat \ {0}
    BY <1>1 DEF SettingsFile, LoadedNextId
  <1>3. GoodList(list) /\ Len(list) <= file.serverCount
    BY <1>1, LoadedGood
  <1>4. file.serverCount \in 0..MaxServerId /\ Len(list) \in Nat
    BY <1>3 DEF SettingsFile, GoodList
  <1>5. Len(list) <= MaxServerId
    BY <1>3, <1>4, ServerListAssumption
  <1> QED  BY <1>1, <1>2, <1>3, <1>5 DEF GoodList, Typed

-----------------------------------------------------------------------------
(* Saving the list *)

(* What is written for a server is one of the file's groups. *)
LEMMA WriteGroupType ==
    ASSUME NEW s \in Server, NEW old
    PROVE  WriteGroup(s, old) \in Group /\ WriteGroup(s, old) # NoGroup
  <1>1. WriteGroup(s, old) \in Group
    BY DEF WriteGroup, Group, Server
  <1> QED  BY <1>1, NoGroupIsNoGroup

(* What saveServerListToFile() leaves in the file, field by field. *)
LEMMA SavedFile ==
    ASSUME NEW servers, NEW next, saveServerListToFile(servers, next), Typed(servers, next),
           settings \in SettingsFile
    PROVE  /\ settings' \in SettingsFile
           /\ settings'.nextServerId = next /\ settings'.serverCount = Len(servers)
           /\ \A i \in Indices :
                 settings'.groups[i] = IF i < Len(servers)
                                       THEN WriteGroup(servers[i + 1], settings.groups[i])
                                       ELSE NoGroup
  <1>1. servers \in Seq(Server) /\ Len(servers) \in 0..MaxServerId /\ next \in Int
    BY ServerListAssumption DEF Typed
  <1>2. \A i \in Indices :
           (IF i < Len(servers) THEN WriteGroup(servers[i + 1], settings.groups[i]) ELSE NoGroup)
              \in Group \cup {NoGroup}
    <2> SUFFICES ASSUME NEW i \in Indices, i < Len(servers)
                 PROVE  WriteGroup(servers[i + 1], settings.groups[i]) \in Group
      OBVIOUS
    <2>1. servers[i + 1] \in Server
      BY <1>1, ServerListAssumption DEF Indices
    <2> QED  BY <2>1, WriteGroupType
  <1>3. \A i \in Indices : WriteFormat(servers, i) \in {"absent", "zero", "set"}
    <2> SUFFICES ASSUME NEW i \in Indices
                 PROVE  WriteFormat(servers, i) \in {"absent", "zero", "set"}
      OBVIOUS
    <2>1. CASE i < Len(servers)
      <3>1. servers[i + 1] \in Server
        BY <1>1, <2>1, ServerListAssumption DEF Indices
      <3> QED  BY <3>1 DEF WriteFormat, Server
    <2>2. CASE ~(i < Len(servers))
      BY <2>2 DEF WriteFormat
    <2> QED  BY <2>1, <2>2
  <1>4. settings' =
          [nextServerId |-> next,
           serverCount |-> Len(servers),
           groups |-> [i \in Indices |->
                          IF i < Len(servers)
                          THEN WriteGroup(servers[i + 1], settings.groups[i]) ELSE NoGroup],
           formats |-> [i \in Indices |-> WriteFormat(servers, i)]]
    BY DEF saveServerListToFile
  <1>5. settings' \in SettingsFile
    BY <1>1, <1>2, <1>3, <1>4 DEF SettingsFile
  <1> QED  BY <1>4, <1>5

(* What is read back for a server that was written differs in its format    *)
(* at most.                                                                *)
LEMMA ReadBack ==
    ASSUME NEW file, NEW i \in Nat, NEW s \in Server, NEW old,
           s.savePassword \/ s.password = Empty, file.groups[i] = WriteGroup(s, old)
    PROVE  /\ ReadGroup(file, i) \in Server
           /\ ReadGroup(file, i).id = s.id
           /\ [ReadGroup(file, i) EXCEPT !.format = "zero"] = [s EXCEPT !.format = "zero"]
  <1> DEFINE g == WriteGroup(s, old)
             r == ReadGroup(file, i)
  <1>1. g # NoGroup
    BY WriteGroupType
  <1>2. /\ g.id = s.id /\ g.host = s.host /\ g.savePassword = s.savePassword
        /\ g.connected = s.connected /\ g.profile = s.profile
        /\ g.password = IF s.savePassword THEN s.password ELSE NoPassword
    BY DEF WriteGroup
  <1>3. s.password # NoPassword
    BY ServerListAssumption DEF Server, NoPassword
  <1>4. r = [id |-> g.id, host |-> g.host, savePassword |-> g.savePassword,
             password |-> IF g.savePassword /\ g.password # NoPassword THEN g.password ELSE Empty,
             connected |-> g.connected, profile |-> g.profile,
             format |-> IF g.profile = "custom" /\ file.formats[i] = "set" THEN "set" ELSE "zero"]
    BY <1>1 DEF ReadGroup
  <1> HIDE DEF g
  <1>5. r.password = s.password
    <2>1. CASE s.savePassword
      BY <1>2, <1>3, <1>4, <2>1
    <2>2. CASE ~s.savePassword
      BY <1>2, <1>4, <2>2
    <2> QED  BY <2>1, <2>2
  <1>6. /\ r.id = s.id /\ r.host = s.host /\ r.savePassword = s.savePassword
        /\ r.connected = s.connected /\ r.profile = s.profile /\ r.format \in {"zero", "set"}
    BY <1>2, <1>4
  <1>7. r = [id |-> s.id, host |-> s.host, savePassword |-> s.savePassword,
             password |-> s.password, connected |-> s.connected, profile |-> s.profile,
             format |-> r.format]
    BY <1>2, <1>4, <1>5
  <1> HIDE DEF r
  <1>8. r \in Server
    BY <1>6, <1>7 DEF Server
  <1>9. [r EXCEPT !.format = "zero"] = [s EXCEPT !.format = "zero"]
    BY <1>5, <1>6, <1>8 DEF Server
  <1> QED  BY <1>6, <1>8, <1>9 DEF r

LEMMA ListedTyped ==
    ASSUME NEW servers, NEW next, Listed(servers, next)
    PROVE  Typed(servers, next)
  BY DEF Listed, GoodList, Typed

(* A file that was just saved has the passwords of the list and no other. *)
LEMMA SavedPasswords ==
    ASSUME NEW servers, NEW next, saveServerListToFile(servers, next), Typed(servers, next),
           settings \in SettingsFile
    PROVE  \A i \in Indices :
              settings'.groups[i] # NoGroup /\ settings'.groups[i].password # NoPassword =>
                 \E k \in DOMAIN servers :
                    /\ servers[k].id = settings'.groups[i].id /\ servers[k].savePassword
                    /\ servers[k].password = settings'.groups[i].password
  <1> SUFFICES ASSUME NEW i \in Indices,
                      settings'.groups[i] # NoGroup, settings'.groups[i].password # NoPassword
               PROVE  \E k \in DOMAIN servers :
                         /\ servers[k].id = settings'.groups[i].id /\ servers[k].savePassword
                         /\ servers[k].password = settings'.groups[i].password
    OBVIOUS
  <1>1. i < Len(servers) /\ settings'.groups[i] = WriteGroup(servers[i + 1], settings.groups[i])
    BY SavedFile
  <1>2. i + 1 \in DOMAIN servers
    BY <1>1, ServerListAssumption DEF Indices, Typed
  <1>3. PICK s : s = servers[i + 1]
    OBVIOUS
  <1>4. /\ s.savePassword /\ settings'.groups[i].password = s.password
        /\ settings'.groups[i].id = s.id
    BY <1>1, <1>3 DEF WriteGroup
  <1> QED  BY <1>2, <1>3, <1>4

(* The next start finds in the file the list that was saved. *)
LEMMA SaveKeeps ==
    ASSUME NEW servers, NEW next, saveServerListToFile(servers, next), Listed(servers, next),
           settings \in SettingsFile
    PROVE  Kept(servers, next, settings')
  <1> DEFINE count == Len(servers)
             L == LoadedOf(settings')
  <1>0. Typed(servers, next)
    BY ListedTyped
  <1>1. /\ settings' \in SettingsFile
        /\ settings'.nextServerId = next /\ settings'.serverCount = Len(servers)
        /\ \A i \in Indices :
              settings'.groups[i] = IF i < Len(servers)
                                    THEN WriteGroup(servers[i + 1], settings.groups[i])
                                    ELSE NoGroup
    BY <1>0, SavedFile
  <1>2. /\ servers \in Seq(Server) /\ count \in Nat /\ count <= MaxServerId
        /\ \A k \in 1..count : servers[k].savePassword \/ servers[k].password = Empty
        /\ \A k, l \in 1..count : servers[k].id = servers[l].id => k = l
        /\ DOMAIN servers = 1..count
    BY DEF Listed, GoodList
  <1>3. \A i \in 0..(count - 1) :
           /\ ReadGroup(settings', i) \in Server
           /\ ReadGroup(settings', i).id = servers[i + 1].id
           /\ [ReadGroup(settings', i) EXCEPT !.format = "zero"]
                 = [servers[i + 1] EXCEPT !.format = "zero"]
    <2> SUFFICES ASSUME NEW i \in 0..(count - 1)
                 PROVE  /\ ReadGroup(settings', i) \in Server
                        /\ ReadGroup(settings', i).id = servers[i + 1].id
                        /\ [ReadGroup(settings', i) EXCEPT !.format = "zero"]
                              = [servers[i + 1] EXCEPT !.format = "zero"]
      OBVIOUS
    <2>1. i \in Indices /\ i \in Nat /\ i + 1 \in 1..count
      BY <1>2, ServerListAssumption DEF Indices
    <2>2. servers[i + 1] \in Server /\ (servers[i + 1].savePassword \/ servers[i + 1].password = Empty)
      BY <1>2, <2>1
    <2>3. settings'.groups[i] = WriteGroup(servers[i + 1], settings.groups[i])
      BY <1>1, <1>2, <2>1
    <2>4. PICK file, s, old : file = settings' /\ s = servers[i + 1] /\ old = settings.groups[i]
      OBVIOUS
    <2>5. /\ ReadGroup(file, i) \in Server
          /\ ReadGroup(file, i).id = s.id
          /\ [ReadGroup(file, i) EXCEPT !.format = "zero"] = [s EXCEPT !.format = "zero"]
      BY <2>1, <2>2, <2>3, <2>4, ReadBack
    <2> QED  BY <2>4, <2>5
  <1>4. L[0] = <<>> /\ \A n \in 1..count : L[n] = AddLoaded(ReadGroup(settings', n - 1), L[n - 1])
    <2>1. PICK file : file = settings'
      OBVIOUS
    <2> QED  BY <1>1, <1>2, <2>1, LoadedLoop
  <1> DEFINE Part(list, n) ==
                 /\ list \in Seq(Server) /\ Len(list) = n
                 /\ \A k \in 1..n : list[k] = ReadGroup(settings', k - 1)
             S == {n \in Nat : n <= count => Part(L[n], n)}
  <1>5. 0 \in S
    <2>1. Part(<<>>, 0)
      OBVIOUS
    <2> QED  BY <1>4, <2>1
  <1>6. ASSUME NEW n \in Nat, n \in S  PROVE n + 1 \in S
    <2> SUFFICES ASSUME n + 1 <= count  PROVE Part(L[n + 1], n + 1)
      OBVIOUS
    <2>1. PICK list : list = L[n]
      OBVIOUS
    <2>2. PICK s : s = ReadGroup(settings', n)
      OBVIOUS
    <2>3. list \in Seq(Server) /\ Len(list) = n /\ DOMAIN list = 1..n
      BY <1>2, <1>6, <2>1
    <2>4. \A k \in 1..n : list[k] = ReadGroup(settings', k - 1)
      BY <1>2, <1>6, <2>1
    <2>5. L[n + 1] = AddLoaded(s, list)
      BY <1>2, <1>4, <2>1, <2>2
    <2>6. s \in Server /\ s.id = servers[n + 1].id
      <3>1. n \in 0..(count - 1)
        BY <1>2
      <3> HIDE DEF count
      <3> QED  BY <1>3, <2>2, <3>1
    <2>7. \A k \in 1..n : list[k].id # s.id
      <3> SUFFICES ASSUME NEW k \in 1..n  PROVE list[k].id # s.id
        OBVIOUS
      <3>1. list[k].id = servers[k].id
        <4>1. k - 1 \in 0..(count - 1) /\ (k - 1) + 1 = k
          BY <1>2
        <4>2. ReadGroup(settings', k - 1).id = servers[(k - 1) + 1].id
          BY <1>3, <4>1
        <4> QED  BY <2>4, <4>1, <4>2
      <3>2. k \in 1..count /\ n + 1 \in 1..count /\ k # n + 1
        BY <1>2
      <3> QED  BY <1>2, <2>6, <3>1, <3>2
    <2>8. L[n + 1] = Append(list, s)
      BY <2>3, <2>5, <2>6, <2>7 DEF AddLoaded, Server
    <2>9. /\ Append(list, s) \in Seq(Server) /\ Len(Append(list, s)) = n + 1
          /\ \A k \in 1..n : Append(list, s)[k] = list[k]
          /\ Append(list, s)[n + 1] = s
      BY <2>3, <2>6
    <2>10. \A k \in 1..(n + 1) : Append(list, s)[k] = ReadGroup(settings', k - 1)
      <3>1. \A k \in 1..(n + 1) : k \in 1..n \/ k = n + 1
        OBVIOUS
      <3> QED  BY <2>2, <2>4, <2>9, <3>1
    <2> QED  BY <2>8, <2>9, <2>10
  <1>7. Part(Loaded(settings'), count)
    <2>1. count \in S
      <3> HIDE DEF S
      <3> QED  BY <1>2, <1>5, <1>6, SetInduction
    <2>2. Loaded(settings') = L[count]
      BY <1>1 DEF Loaded
    <2> QED  BY <1>2, <2>1, <2>2
  <1>8. WithoutFormat(Loaded(settings')) = WithoutFormat(servers)
    <2>1. PICK list : list = Loaded(settings')
      OBVIOUS
    <2>2. DOMAIN list = 1..count /\ DOMAIN servers = 1..count
      BY <1>2, <1>7, <2>1
    <2>3. \A k \in 1..count : [list[k] EXCEPT !.format = "zero"] = [servers[k] EXCEPT !.format = "zero"]
      <3> SUFFICES ASSUME NEW k \in 1..count
                   PROVE  [list[k] EXCEPT !.format = "zero"] = [servers[k] EXCEPT !.format = "zero"]
        OBVIOUS
      <3>1. k - 1 \in 0..(count - 1) /\ (k - 1) + 1 = k
        BY <1>2
      <3>2. list[k] = ReadGroup(settings', k - 1)
        BY <1>7, <2>1
      <3> HIDE DEF count, Part
      <3> QED  BY <1>3, <3>1, <3>2
    <2>4. WithoutFormat(list) = WithoutFormat(servers)
      BY <2>2, <2>3 DEF WithoutFormat
    <2> QED  BY <2>1, <2>4
  <1>9. LoadedNextId(settings') = next
    BY <1>1 DEF LoadedNextId, Listed
  <1>10. \A i \in Indices :
            settings'.groups[i] # NoGroup /\ settings'.groups[i].password # NoPassword =>
               \E k \in DOMAIN servers :
                  /\ servers[k].id = settings'.groups[i].id /\ servers[k].savePassword
                  /\ servers[k].password = settings'.groups[i].password
    BY <1>0, SavedPasswords
  <1> QED  BY <1>1, <1>8, <1>9, <1>10 DEF Kept

-----------------------------------------------------------------------------
(* Changing the list *)

(* Ids that are all different and below the next one leave no room for more *)
(* servers than numbers were given.                                        *)
LEMMA FewerThanNext ==
    ASSUME NEW list, GoodList(list), NEW next \in Nat \ {0},
           \A k \in DOMAIN list : list[k].id < next
    PROVE  Len(list) < next
  <1>1. list \in Seq(Server) /\ Len(list) \in Nat /\ DOMAIN list = 1..Len(list)
    BY DEF GoodList
  <1> DEFINE S == 1..Len(list)
             T == 1..(next - 1)
             f == [k \in S |-> list[k].id]
  <1> SUFFICES ASSUME next <= Len(list)  PROVE FALSE
    BY <1>1
  <1>2. f \in [S -> T]
    <2>1. \A k \in S : list[k] \in Server
      BY <1>1
    <2> QED  BY <1>1, <2>1 DEF Server
  <1>3. /\ IsFiniteSet(S) /\ Cardinality(S) = Len(list)
        /\ IsFiniteSet(T) /\ Cardinality(T) = next - 1
    <2>1. \A n \in Nat : IsFiniteSet(1..n) /\ Cardinality(1..n) = n
      <3> SUFFICES ASSUME NEW n \in Nat  PROVE IsFiniteSet(1..n) /\ Cardinality(1..n) = n
        OBVIOUS
      <3>1. Cardinality(1..n) = IF 1 > n THEN 0 ELSE n - 1 + 1
        BY FS_Interval
      <3>2. IsFiniteSet(1..n)
        BY FS_Interval
      <3> QED  BY <3>1, <3>2
    <2>2. next - 1 \in Nat
      OBVIOUS
    <2>3. IsFiniteSet(S) /\ Cardinality(S) = Len(list)
      BY <1>1, <2>1
    <2>4. IsFiniteSet(T) /\ Cardinality(T) = next - 1
      BY <2>1, <2>2
    <2> QED  BY <2>3, <2>4
  <1>4. PICK k, l \in S : k # l /\ f[k] = f[l]
    <2> HIDE DEF S, T, f
    <2> QED  BY <1>1, <1>2, <1>3, FS_PigeonHole
  <1> QED  BY <1>1, <1>4 DEF GoodList

LEMMA AddListed ==
    ASSUME NEW servers, NEW next, Listed(servers, next), next <= MaxServerId,
           NEW s \in Server, s.id = next, s.savePassword \/ s.password = Empty
    PROVE  Listed(Append(servers, s), next + 1)
  <1>1. /\ servers \in Seq(Server) /\ Len(servers) \in Nat /\ DOMAIN servers = 1..Len(servers)
        /\ next \in Nat \ {0} /\ Len(servers) < next
        /\ \A k \in 1..Len(servers) : servers[k].savePassword \/ servers[k].password = Empty
        /\ \A k, l \in 1..Len(servers) : servers[k].id = servers[l].id => k = l
        /\ \A k \in 1..Len(servers) : servers[k].id < next
    BY DEF Listed, GoodList
  <1>2. PICK list : list = Append(servers, s)
    OBVIOUS
  <1>3. /\ list \in Seq(Server) /\ Len(list) = Len(servers) + 1
        /\ \A k \in 1..Len(servers) : list[k] = servers[k]
        /\ list[Len(servers) + 1] = s
    BY <1>1, <1>2
  <1>4. DOMAIN list = 1..(Len(servers) + 1)
    BY <1>1, <1>3
  <1>5. \A k \in 1..(Len(servers) + 1) : k \in 1..Len(servers) \/ k = Len(servers) + 1
    BY <1>1
  <1>6. \A k \in 1..Len(servers) : servers[k].id \in Nat
    <2>1. \A k \in 1..Len(servers) : servers[k] \in Server
      BY <1>1
    <2> QED  BY <2>1 DEF Server
  <1>7. \A k \in DOMAIN list : list[k].savePassword \/ list[k].password = Empty
    BY <1>1, <1>3, <1>4, <1>5
  <1>8. \A k \in DOMAIN list : list[k].id < next + 1
    BY <1>1, <1>3, <1>4, <1>5, <1>6
  <1>9. \A k, l \in DOMAIN list : list[k].id = list[l].id => k = l
    <2>1. \A k \in 1..Len(servers) : list[k].id # list[Len(servers) + 1].id
      BY <1>1, <1>3, <1>6
    <2> QED  BY <1>1, <1>3, <1>4, <1>5, <2>1
  <1>10. Len(list) <= MaxServerId /\ Len(list) < next + 1
    BY <1>1, <1>3, ServerListAssumption
  <1> QED  BY <1>1, <1>2, <1>3, <1>7, <1>8, <1>9, <1>10 DEF Listed, GoodList

LEMMA ChangeListed ==
    ASSUME NEW servers, NEW next, Listed(servers, next),
           NEW list, list \in Seq(Server), Len(list) = Len(servers),
           \A k \in DOMAIN servers :
              list[k].id = servers[k].id /\ (list[k].savePassword \/ list[k].password = Empty)
    PROVE  Listed(list, next)
  <1>1. servers \in Seq(Server) /\ DOMAIN servers = 1..Len(servers) /\ DOMAIN list = 1..Len(servers)
    BY DEF Listed, GoodList
  <1> QED  BY <1>1 DEF Listed, GoodList

(* The list without an entry. *)
LEMMA RemoveAtProperties ==
    ASSUME NEW R, NEW list \in Seq(R), NEW i \in 1..Len(list)
    PROVE  /\ RemoveAt(list, i) \in Seq(R)
           /\ Len(RemoveAt(list, i)) = Len(list) - 1
           /\ \A k \in 1..(Len(list) - 1) :
                 RemoveAt(list, i)[k] = IF k < i THEN list[k] ELSE list[k + 1]
  <1>1. Len(list) \in Nat
    OBVIOUS
  <1> DEFINE front == SubSeq(list, 1, i - 1)
             back == SubSeq(list, i + 1, Len(list))
  <1>2. /\ front \in Seq(R) /\ Len(front) = i - 1
        /\ \A k \in 1..(i - 1) : front[k] = list[k]
    BY <1>1
  <1>3. /\ back \in Seq(R) /\ Len(back) = Len(list) - i
        /\ \A k \in 1..(Len(list) - i) : back[k] = list[i + k]
    BY <1>1
  <1>4. RemoveAt(list, i) = front \o back
    BY DEF RemoveAt
  <1> HIDE DEF front, back
  <1>5. /\ front \o back \in Seq(R) /\ Len(front \o back) = Len(list) - 1
        /\ \A k \in 1..(Len(list) - 1) :
              (front \o back)[k] = IF k <= Len(front) THEN front[k] ELSE back[k - Len(front)]
    <2>1. Len(front) + Len(back) = Len(list) - 1
      BY <1>1, <1>2, <1>3
    <2>2. /\ front \o back \in Seq(R) /\ Len(front \o back) = Len(front) + Len(back)
          /\ \A k \in 1..(Len(front) + Len(back)) :
                (front \o back)[k] = IF k <= Len(front) THEN front[k] ELSE back[k - Len(front)]
      BY <1>2, <1>3, ConcatProperties
    <2> QED  BY <2>1, <2>2
  <1>6. \A k \in 1..(Len(list) - 1) :
           (front \o back)[k] = IF k < i THEN list[k] ELSE list[k + 1]
    <2> SUFFICES ASSUME NEW k \in 1..(Len(list) - 1)
                 PROVE  (front \o back)[k] = IF k < i THEN list[k] ELSE list[k + 1]
      OBVIOUS
    <2>1. CASE k < i
      BY <1>1, <1>2, <1>5, <2>1
    <2>2. CASE ~(k < i)
      <3>1. k - (i - 1) \in 1..(Len(list) - i) /\ i + (k - (i - 1)) = k + 1
        BY <1>1, <2>2
      <3>2. back[k - (i - 1)] = list[k + 1]
        BY <1>3, <3>1
      <3> QED  BY <1>1, <1>2, <1>5, <2>2, <3>2
    <2> QED  BY <2>1, <2>2
  <1> QED  BY <1>4, <1>5, <1>6

LEMMA RemoveListed ==
    ASSUME NEW servers, NEW next, Listed(servers, next), NEW i \in DOMAIN servers
    PROVE  Listed(RemoveAt(servers, i), next)
  <1>1. /\ servers \in Seq(Server) /\ Len(servers) \in Nat /\ DOMAIN servers = 1..Len(servers)
        /\ i \in 1..Len(servers)
    BY DEF Listed, GoodList
  <1>2. PICK list : list = RemoveAt(servers, i)
    OBVIOUS
  <1>3. /\ list \in Seq(Server) /\ Len(list) = Len(servers) - 1
        /\ \A k \in 1..(Len(servers) - 1) :
              list[k] = IF k < i THEN servers[k] ELSE servers[k + 1]
    BY <1>1, <1>2, RemoveAtProperties
  <1>4. DOMAIN list = 1..(Len(servers) - 1)
    BY <1>1, <1>3
  <1> DEFINE from(k) == IF k < i THEN k ELSE k + 1
  <1>5. \A k \in DOMAIN list : from(k) \in DOMAIN servers /\ list[k] = servers[from(k)]
    BY <1>1, <1>3, <1>4
  <1>6. \A k, l \in DOMAIN list : from(k) = from(l) => k = l
    BY <1>1, <1>4
  <1>7. /\ \A k \in DOMAIN servers : servers[k].savePassword \/ servers[k].password = Empty
        /\ \A k, l \in DOMAIN servers : servers[k].id = servers[l].id => k = l
        /\ \A k \in DOMAIN servers : servers[k].id < next
        /\ next \in Nat \ {0} /\ Len(servers) <= MaxServerId /\ Len(servers) < next
    BY DEF Listed, GoodList
  <1> HIDE DEF from
  <1>8. Len(list) <= MaxServerId /\ Len(list) < next
    BY <1>1, <1>3, <1>7, ServerListAssumption
  <1>9. /\ \A k \in DOMAIN list : list[k].savePassword \/ list[k].password = Empty
        /\ \A k \in DOMAIN list : list[k].id < next
    BY <1>5, <1>7
  <1>10. \A k, l \in DOMAIN list : list[k].id = list[l].id => k = l
    BY <1>5, <1>6, <1>7
  <1> QED  BY <1>2, <1>3, <1>7, <1>8, <1>9, <1>10 DEF Listed, GoodList

-----------------------------------------------------------------------------
(* The invariant *)

FormOK ==
    /\ form \in [id : Int, host : Hosts \cup {Empty}, password : Passwords \cup {Empty},
                 savePassword : BOOLEAN, save : BOOLEAN, connect : BOOLEAN]
    /\ page \in {"ServerList", "NewServer", "ConnectState", "Orv"}
    /\ userData \in Int /\ autoConnect \in BOOLEAN

ListTyped == Typed(mServers, mNextServerId) /\ settings \in SettingsFile
ListKept == Listed(mServers, mNextServerId) /\ Kept(mServers, mNextServerId, settings)

(* What a step does to the list and its file. *)
Keeps ==
    /\ ListTyped' /\ (ListKept => ListKept')
    /\ settings' = settings \/ PasswordsWanted'

LEMMA ListParts == ListInv <=> ListTyped /\ FormOK /\ Resolved
  <1>1. ASSUME ListInv  PROVE ListTyped /\ FormOK /\ Resolved
    BY <1>1 DEF ListInv, TypeOK, RoomInFile, ListTyped, Typed, FormOK, Servers
  <1>2. ASSUME ListTyped, FormOK, Resolved  PROVE ListInv
    BY <1>2 DEF ListInv, TypeOK, RoomInFile, ListTyped, Typed, FormOK, Servers
  <1> QED  BY <1>1, <1>2

LEMMA RulesParts == ListTyped => (RulesInv <=> ListKept)
  <1> SUFFICES ASSUME ListTyped  PROVE RulesInv <=> ListKept
    OBVIOUS
  <1>1. ASSUME RulesInv  PROVE ListKept
    <2>1. GoodList(mServers)
      BY <1>1 DEF GoodList, ListTyped, Typed, RulesInv, IdsOnce
    <2>2. Listed(mServers, mNextServerId)
      BY <1>1, <2>1 DEF Listed, ListTyped, Typed, RulesInv, IdsOnce, Servers
    <2>3. Kept(mServers, mNextServerId, settings)
      BY <1>1 DEF Kept, ListTyped, RulesInv, ListIsSaved, PasswordsWanted, Servers
    <2> QED  BY <2>2, <2>3 DEF ListKept
  <1>2. ASSUME ListKept  PROVE RulesInv
    <2>1. Len(mServers) < mNextServerId /\ IdsOnce
      BY <1>2 DEF ListKept, Listed, GoodList, IdsOnce, Servers
    <2>2. ListIsSaved /\ PasswordsWanted
      BY <1>2 DEF ListIsSaved, PasswordsWanted, ListKept, Kept, Servers
    <2> QED  BY <2>1, <2>2 DEF RulesInv
  <1> QED  BY <1>1, <1>2

(* Saving a list, and a good one keeps it. *)
LEMMA SavedKeeps ==
    ASSUME ListTyped, Typed(mServers', mNextServerId'),
           ListKept => Listed(mServers', mNextServerId'),
           saveServerListToFile(mServers', mNextServerId')
    PROVE  Keeps
  <1>1. PICK servers, next : servers = mServers' /\ next = mNextServerId'
    OBVIOUS
  <1>2. settings \in SettingsFile
    BY DEF ListTyped
  <1>3. ListTyped'
    <2>1. settings' \in SettingsFile
      BY <1>1, <1>2, SavedFile
    <2> QED  BY <2>1 DEF ListTyped
  <1>4. ASSUME ListKept  PROVE ListKept'
    <2>1. Kept(servers, next, settings')
      BY <1>1, <1>2, <1>4, SaveKeeps
    <2> QED  BY <1>1, <1>4, <2>1 DEF ListKept
  <1>5. PasswordsWanted'
    <2>1. \A i \in Indices :
             settings'.groups[i] # NoGroup /\ settings'.groups[i].password # NoPassword =>
                \E k \in DOMAIN servers :
                   /\ servers[k].id = settings'.groups[i].id /\ servers[k].savePassword
                   /\ servers[k].password = settings'.groups[i].password
      BY <1>1, <1>2, SavedPasswords
    <2> QED  BY <1>1, <2>1 DEF PasswordsWanted, Servers
  <1> QED  BY <1>3, <1>4, <1>5 DEF Keeps

LEMMA LeftAlone ==
    ASSUME ListTyped, UNCHANGED modelVars
    PROVE  Keeps /\ \A id \in Int : IsListed(id) => IsListed(id)'
  BY DEF modelVars, Keeps, ListTyped, ListKept, IsListed, Servers

LEMMA EditedServer ==
    ASSUME FormOK, NEW s \in Server
    PROVE  /\ Edited(s) \in Server /\ Edited(s).id = s.id
           /\ Edited(s).savePassword \/ Edited(s).password = Empty
  <1>1. /\ form.host \in Hosts \cup {Empty} /\ form.savePassword \in BOOLEAN
        /\ form.password \in Passwords \cup {Empty}
    BY DEF FormOK
  <1>2. PICK host, save, password :
           host = form.host /\ save = form.savePassword /\ password = form.password
    OBVIOUS
  <1>3. Edited(s) = [s EXCEPT !.host = host, !.savePassword = save,
                              !.password = IF save THEN password ELSE Empty,
                              !.profile = "best", !.format = "zero"]
    BY <1>2 DEF Edited
  <1>4. save \in BOOLEAN /\ password \in Passwords \cup {Empty} /\ host \in Hosts \cup {Empty}
    BY <1>1, <1>2
  <1>5. CASE save
    BY <1>3, <1>4, <1>5 DEF Server
  <1>6. CASE ~save
    BY <1>3, <1>4, <1>6 DEF Server
  <1> QED  BY <1>5, <1>6

LEMMA AddKeeps ==
    ASSUME ListTyped, FormOK, addNewServer
    PROVE  /\ Keeps
           /\ \A id \in Int : IsListed(id) => IsListed(id)'
           /\ \E k \in DOMAIN mServers' : mServers'[k].id = mNextServerId
  <1>1. /\ mServers \in Seq(Server) /\ mNextServerId \in Nat \ {0}
        /\ \A k \in DOMAIN mServers : mServers[k].savePassword \/ mServers[k].password = Empty
    BY DEF ListTyped, Typed
  <1>2. /\ mNextServerId <= MaxServerId /\ mServers' = Append(mServers, NewServer)
        /\ mNextServerId' = mNextServerId + 1 /\ Len(mServers) < MaxServerId
        /\ saveServerListToFile(mServers', mNextServerId')
    BY DEF addNewServer
  <1> DEFINE blank == [id |-> mNextServerId, host |-> Empty, savePassword |-> FALSE,
                       password |-> Empty, connected |-> FALSE, profile |-> "best",
                       format |-> "zero"]
  <1>3. blank \in Server /\ blank.id = mNextServerId
    BY <1>1 DEF Server
  <1>4. NewServer = Edited(blank)
    BY DEF NewServer
  <1> HIDE DEF blank
  <1>5. /\ NewServer \in Server /\ NewServer.id = mNextServerId
        /\ NewServer.savePassword \/ NewServer.password = Empty
    BY <1>3, <1>4, EditedServer
  <1>6. ListKept => Listed(mServers', mNextServerId')
    BY <1>1, <1>2, <1>5, AddListed DEF ListKept
  <1>8. /\ DOMAIN mServers = 1..Len(mServers) /\ DOMAIN mServers' = 1..(Len(mServers) + 1)
        /\ \A k \in 1..Len(mServers) : mServers'[k] = mServers[k]
        /\ mServers'[Len(mServers) + 1] = NewServer /\ Len(mServers) \in Nat
    BY <1>1, <1>2, <1>5
  <1>7. Keeps
    <2>1. PICK list : list = mServers'
      OBVIOUS
    <2>2. list \in Seq(Server) /\ Len(list) = Len(mServers) + 1
      BY <1>1, <1>2, <1>5, <2>1
    <2>3. \A k \in 1..(Len(mServers) + 1) : k \in 1..Len(mServers) \/ k = Len(mServers) + 1
      BY <1>8
    <2>4. \A k \in DOMAIN list : list[k].savePassword \/ list[k].password = Empty
      BY <1>1, <1>5, <1>8, <2>1, <2>3
    <2>5. Len(list) <= MaxServerId /\ mNextServerId' \in Nat \ {0}
      BY <1>1, <1>2, <1>8, <2>2, ServerListAssumption
    <2>6. Typed(mServers', mNextServerId')
      BY <2>1, <2>2, <2>4, <2>5 DEF Typed
    <2> QED  BY <1>2, <1>6, <2>6, SavedKeeps
  <1>9. ASSUME NEW id \in Int, IsListed(id)  PROVE IsListed(id)'
    <2>1. PICK k \in DOMAIN mServers : mServers[k].id = id
      BY <1>9 DEF IsListed, Servers
    <2>2. k \in DOMAIN mServers' /\ mServers'[k].id = id
      BY <1>8, <2>1
    <2> QED  BY <2>2 DEF IsListed, Servers
  <1>10. \E k \in DOMAIN mServers' : mServers'[k].id = mNextServerId
    <2>1. Len(mServers) + 1 \in DOMAIN mServers'
      BY <1>8
    <2> QED  BY <1>5, <1>8, <2>1
  <1> QED  BY <1>7, <1>9, <1>10

(* The entries of the list are changed in place, or none is. *)
LEMMA ChangeKeeps ==
    ASSUME ListTyped, mNextServerId' = mNextServerId,
           \/ UNCHANGED <<mServers, settings>>
           \/ /\ DOMAIN mServers' = DOMAIN mServers
              /\ \A k \in DOMAIN mServers :
                    /\ mServers'[k] \in Server /\ mServers'[k].id = mServers[k].id
                    /\ mServers'[k].savePassword \/ mServers'[k].password = Empty
              /\ mServers' = [k \in DOMAIN mServers |-> mServers'[k]]
              /\ saveServerListToFile(mServers', mNextServerId)
    PROVE  Keeps /\ \A id \in Int : IsListed(id) => IsListed(id)'
  <1>1. CASE UNCHANGED <<mServers, settings>>
    BY <1>1, LeftAlone DEF modelVars
  <1>2. CASE /\ DOMAIN mServers' = DOMAIN mServers
             /\ \A k \in DOMAIN mServers :
                   /\ mServers'[k] \in Server /\ mServers'[k].id = mServers[k].id
                   /\ mServers'[k].savePassword \/ mServers'[k].password = Empty
             /\ mServers' = [k \in DOMAIN mServers |-> mServers'[k]]
             /\ saveServerListToFile(mServers', mNextServerId)
    <2>1. PICK servers, list : servers = mServers /\ list = mServers'
      OBVIOUS
    <2>2. servers \in Seq(Server) /\ DOMAIN servers = 1..Len(servers) /\ Len(servers) \in Nat
      BY <2>1 DEF ListTyped, Typed
    <2>3. /\ list = [k \in 1..Len(servers) |-> list[k]]
          /\ \A k \in 1..Len(servers) : list[k] \in Server
      BY <1>2, <2>1, <2>2
    <2>4. list \in Seq(Server) /\ Len(list) = Len(servers)
      BY <2>2, <2>3
    <2>5. \A k \in DOMAIN servers :
             list[k].id = servers[k].id /\ (list[k].savePassword \/ list[k].password = Empty)
      BY <1>2, <2>1
    <2>6. ListKept => Listed(list, mNextServerId)
      BY <2>1, <2>4, <2>5, ChangeListed DEF ListKept
    <2>9. Typed(list, mNextServerId)
      BY <2>1, <2>2, <2>4, <2>5 DEF ListTyped, Typed
    <2>7. Keeps
      BY <1>2, <2>1, <2>6, <2>9, SavedKeeps
    <2>8. \A id \in Int : IsListed(id) => IsListed(id)'
      BY <1>2 DEF IsListed, Servers
    <2> QED  BY <2>7, <2>8
  <1> QED  BY <1>1, <1>2

LEMMA UpdateKeeps ==
    ASSUME ListTyped, FormOK, NEW id \in Int, updateServer(id)
    PROVE  Keeps /\ \A other \in Int : IsListed(other) => IsListed(other)'
  <1>1. /\ mNextServerId' = mNextServerId
        /\ \/ UNCHANGED <<mServers, settings>>
           \/ /\ mServers' = [k \in DOMAIN mServers |->
                                 IF IsFirst(k, id) THEN Edited(mServers[k]) ELSE mServers[k]]
              /\ saveServerListToFile(mServers', mNextServerId)
    BY DEF updateServer, changeServer
  <1>2. ASSUME NEW k \in DOMAIN mServers
        PROVE  LET s == IF IsFirst(k, id) THEN Edited(mServers[k]) ELSE mServers[k]
               IN  s \in Server /\ s.id = mServers[k].id /\ (s.savePassword \/ s.password = Empty)
    <2>1. mServers[k] \in Server /\ (mServers[k].savePassword \/ mServers[k].password = Empty)
      BY DEF ListTyped, Typed
    <2> QED  BY <2>1, EditedServer
  <1> QED  BY <1>1, <1>2, ChangeKeeps

LEMMA StampKeeps ==
    ASSUME ListTyped, NEW id \in Int, updateLastConnectionForServer(id)
    PROVE  Keeps /\ \A other \in Int : IsListed(other) => IsListed(other)'
  <1>1. /\ mNextServerId' = mNextServerId
        /\ \/ UNCHANGED <<mServers, settings>>
           \/ /\ mServers' = [k \in DOMAIN mServers |->
                                 IF IsFirst(k, id) THEN Stamped(mServers[k]) ELSE mServers[k]]
              /\ saveServerListToFile(mServers', mNextServerId)
    BY DEF updateLastConnectionForServer, changeServer
  <1>2. ASSUME NEW k \in DOMAIN mServers
        PROVE  LET s == IF IsFirst(k, id) THEN Stamped(mServers[k]) ELSE mServers[k]
               IN  s \in Server /\ s.id = mServers[k].id /\ (s.savePassword \/ s.password = Empty)
    <2>1. mServers[k] \in Server /\ (mServers[k].savePassword \/ mServers[k].password = Empty)
      BY DEF ListTyped, Typed
    <2> QED  BY <2>1 DEF Stamped, Server
  <1> QED  BY <1>1, <1>2, ChangeKeeps

LEMMA DeleteKeeps ==
    ASSUME ListTyped, NEW id \in Int, deleteServer(id)
    PROVE  Keeps
  <1>1. CASE UNCHANGED <<mServers, settings>>
    BY <1>1, LeftAlone DEF deleteServer, modelVars
  <1>2. CASE /\ \E k \in DOMAIN mServers : IsFirst(k, id) /\ mServers' = RemoveAt(mServers, k)
             /\ saveServerListToFile(mServers', mNextServerId)
    <2>1. PICK k \in DOMAIN mServers : mServers' = RemoveAt(mServers, k)
      BY <1>2
    <2>2. ListKept => Listed(mServers', mNextServerId)
      BY <2>1, RemoveListed DEF ListKept
    <2>3. mNextServerId' = mNextServerId
      BY DEF deleteServer
    <2>4. PICK list, servers : list = mServers' /\ servers = mServers
      OBVIOUS
    <2>5. /\ servers \in Seq(Server) /\ Len(servers) \in Nat /\ k \in 1..Len(servers)
          /\ Len(servers) <= MaxServerId /\ DOMAIN servers = 1..Len(servers)
          /\ \A j \in DOMAIN servers : servers[j].savePassword \/ servers[j].password = Empty
      BY <2>4 DEF ListTyped, Typed
    <2>6. /\ list \in Seq(Server) /\ Len(list) = Len(servers) - 1
          /\ \A j \in 1..(Len(servers) - 1) :
                list[j] = IF j < k THEN servers[j] ELSE servers[j + 1]
      BY <2>1, <2>4, <2>5, RemoveAtProperties
    <2>7. \A j \in DOMAIN list : list[j].savePassword \/ list[j].password = Empty
      BY <2>5, <2>6
    <2>8. Len(list) <= MaxServerId
      BY <2>5, <2>6, ServerListAssumption
    <2>9. Typed(list, mNextServerId)
      BY <2>6, <2>7, <2>8 DEF ListTyped, Typed
    <2> QED  BY <1>2, <2>2, <2>3, <2>4, <2>9, SavedKeeps
  <1> QED  BY <1>1, <1>2 DEF deleteServer

(* A list that equals a kept one up to formats is kept by the same file. *)
LEMMA SameUpToFormat ==
    ASSUME NEW list \in Seq(Server), NEW servers \in Seq(Server),
           WithoutFormat(list) = WithoutFormat(servers)
    PROVE  /\ DOMAIN list = DOMAIN servers /\ Len(list) = Len(servers)
           /\ \A k \in DOMAIN servers :
                 /\ list[k].id = servers[k].id /\ list[k].savePassword = servers[k].savePassword
                 /\ list[k].password = servers[k].password
  <1>1. DOMAIN list = DOMAIN servers
    BY DEF WithoutFormat
  <1>2. Len(list) = Len(servers)
    BY <1>1
  <1>3. ASSUME NEW k \in DOMAIN servers
        PROVE  /\ list[k].id = servers[k].id /\ list[k].savePassword = servers[k].savePassword
               /\ list[k].password = servers[k].password
    <2>1. WithoutFormat(list)[k] = WithoutFormat(servers)[k]
      OBVIOUS
    <2>2. PICK r, s : r = list[k] /\ s = servers[k]
      OBVIOUS
    <2>3. [r EXCEPT !.format = "zero"] = [s EXCEPT !.format = "zero"]
      BY <1>1, <2>1, <2>2 DEF WithoutFormat
    <2>4. r \in Server /\ s \in Server
      BY <1>1, <2>2
    <2>5. /\ [r EXCEPT !.format = "zero"].id = r.id /\ [s EXCEPT !.format = "zero"].id = s.id
          /\ [r EXCEPT !.format = "zero"].password = r.password
          /\ [s EXCEPT !.format = "zero"].password = s.password
      BY <2>4 DEF Server
    <2>6. /\ [r EXCEPT !.format = "zero"].savePassword = r.savePassword
          /\ [s EXCEPT !.format = "zero"].savePassword = s.savePassword
      BY <2>4 DEF Server
    <2> QED  BY <2>2, <2>3, <2>5, <2>6
  <1> QED  BY <1>1, <1>2, <1>3

LEMMA RestartKeeps ==
    ASSUME ListTyped, Restart
    PROVE  Keeps
  <1>1. /\ mServers' = Loaded(settings) /\ mNextServerId' = LoadedNextId(settings)
        /\ settings' = settings /\ settings \in SettingsFile
    BY DEF Restart, Starts, ListTyped
  <1>2. ListTyped'
    BY <1>1, LoadedTyped DEF ListTyped
  <1>3. ASSUME ListKept  PROVE ListKept'
    <2>2. PICK list, servers : list = Loaded(settings) /\ servers = mServers
      OBVIOUS
    <2>3. Listed(servers, mNextServerId) /\ Kept(servers, mNextServerId, settings)
      BY <1>3, <2>2 DEF ListKept
    <2>4. GoodList(list) /\ list \in Seq(Server) /\ servers \in Seq(Server)
      BY <2>2, <2>3, LoadedGood DEF Kept, Listed, GoodList
    <2>5. /\ WithoutFormat(list) = WithoutFormat(servers)
          /\ LoadedNextId(settings) = mNextServerId
      BY <2>2, <2>3 DEF Kept
    <2>6. /\ DOMAIN list = DOMAIN servers /\ Len(list) = Len(servers)
          /\ \A k \in DOMAIN servers :
                /\ list[k].id = servers[k].id /\ list[k].savePassword = servers[k].savePassword
                /\ list[k].password = servers[k].password
      BY <2>4, <2>5, SameUpToFormat
    <2>7. Listed(list, mNextServerId)
      BY <2>3, <2>4, <2>6 DEF Listed
    <2>8. Kept(list, mNextServerId, settings)
      BY <2>2, <2>3, <2>5, <2>6 DEF Kept
    <2> QED  BY <1>1, <2>2, <2>5, <2>7, <2>8 DEF ListKept
  <1> QED  BY <1>1, <1>2, <1>3 DEF Keeps

(* The files the program may be started on for the first time, and those of *)
(* them that keep the rules.                                               *)
LEMMA StartTyped ==
    ASSUME NEW file \in EditedFiles \cup {EmptyFile}
    PROVE  file \in SettingsFile /\ Typed(Loaded(file), LoadedNextId(file))
  <1>1. file \in SettingsFile
    <2>1. CASE file \in EditedFiles
      BY <2>1, EditedFilesAssumption
    <2>2. CASE file = EmptyFile
      BY <2>2, ServerListAssumption DEF EmptyFile, SettingsFile
    <2> QED  BY <2>1, <2>2
  <1> QED  BY <1>1, LoadedTyped

LEMMA StartKept ==
    ASSUME NEW file \in SettingsFile, KeepsTheRules(file)
    PROVE  Listed(Loaded(file), LoadedNextId(file)) /\ Kept(Loaded(file), LoadedNextId(file), file)
  <1>1. PICK list, next : list = Loaded(file) /\ next = LoadedNextId(file)
    OBVIOUS
  <1>2. GoodList(list) /\ Typed(list, next)
    BY <1>1, LoadedGood, LoadedTyped
  <1>3. next \in Nat \ {0} /\ Len(list) <= MaxServerId
    BY <1>2 DEF Typed
  <1>4. \A k \in DOMAIN list : list[k].id < next
    BY <1>1 DEF KeepsTheRules
  <1>5. Listed(list, next)
    BY <1>2, <1>3, <1>4, FewerThanNext DEF Listed
  <1>6. Kept(list, next, file)
    BY <1>1 DEF Kept, KeepsTheRules
  <1> QED  BY <1>1, <1>5, <1>6

(* The form, the page and the pending number, after any step. *)
LEMMA FormStep ==
    ASSUME ListTyped, FormOK, Step
    PROVE  FormOK'
  <1>1. /\ form \in [id : Int, host : Hosts \cup {Empty}, password : Passwords \cup {Empty},
                     savePassword : BOOLEAN, save : BOOLEAN, connect : BOOLEAN]
        /\ page \in {"ServerList", "NewServer", "ConnectState", "Orv"}
        /\ userData \in Int /\ autoConnect \in BOOLEAN /\ mNextServerId \in Nat
        /\ \A k \in DOMAIN mServers : mServers[k] \in Server
    BY DEF FormOK, ListTyped, Typed
  <1>2. ResetForm \in [id : Int, host : Hosts \cup {Empty}, password : Passwords \cup {Empty},
                       savePassword : BOOLEAN, save : BOOLEAN, connect : BOOLEAN]
    BY DEF ResetForm
  <1>3. ASSUME NEW row \in 0..(2 * MaxServerId), row < rowCount(Len(mServers)), row % 2 = 0
        PROVE  mServers[mapToSource(row) + 1] \in Server
    <2>1. mServers \in Seq(Server) /\ Len(mServers) \in Nat /\ DOMAIN mServers = 1..Len(mServers)
      BY DEF ListTyped, Typed
    <2>2. mapToSource(row) + 1 \in 1..Len(mServers)
      BY <1>3, <2>1, ServerListAssumption DEF mapToSource, rowCount
    <2> QED  BY <1>1, <2>1, <2>2
  <1>4. CASE showAddNewServerWidget
    BY <1>1, <1>2, <1>4 DEF showAddNewServerWidget, shownForm, FormOK
  <1>5. CASE UserEdits
    <2>1. UNCHANGED <<page, userData, autoConnect>>
      BY <1>5 DEF UserEdits
    <2>2. CASE \E host \in Hosts \cup {Empty} : form' = [form EXCEPT !.host = host]
      BY <1>1, <2>1, <2>2 DEF FormOK
    <2>3. CASE \E password \in Passwords \cup {Empty} : form' = [form EXCEPT !.password = password]
      BY <1>1, <2>1, <2>3 DEF FormOK
    <2>4. CASE \E box \in {"savePassword", "save", "connect"} : form' = [form EXCEPT ![box] = ~@]
      <3>1. CASE form' = [form EXCEPT !["savePassword"] = ~@]
        BY <1>1, <2>1, <3>1 DEF FormOK
      <3>2. CASE form' = [form EXCEPT !["save"] = ~@]
        BY <1>1, <2>1, <3>2 DEF FormOK
      <3>3. CASE form' = [form EXCEPT !["connect"] = ~@]
        BY <1>1, <2>1, <3>3 DEF FormOK
      <3> QED  BY <2>4, <3>1, <3>2, <3>3
    <2> QED  BY <1>5, <2>2, <2>3, <2>4 DEF UserEdits
  <1>6. CASE cancelNewServer
    BY <1>1, <1>6 DEF cancelNewServer, FormOK
  <1>7. CASE checkAndConnectOrSave
    <2>1. form' = form \/ form' = [form EXCEPT !.id = mNextServerId]
      BY <1>7 DEF checkAndConnectOrSave
    <2>2. form' \in [id : Int, host : Hosts \cup {Empty}, password : Passwords \cup {Empty},
                     savePassword : BOOLEAN, save : BOOLEAN, connect : BOOLEAN]
      BY <1>1, <2>1
    <2>3. /\ page' \in {"ConnectState", "ServerList"} /\ userData' \in {form'.id, userData}
          /\ autoConnect' = autoConnect
      BY <1>7 DEF checkAndConnectOrSave
    <2> QED  BY <1>1, <2>2, <2>3 DEF FormOK
  <1>8. CASE deleteServerAndCancelNewServer
    BY <1>1, <1>8 DEF deleteServerAndCancelNewServer, FormOK
  <1>9. ASSUME NEW row \in 0..(2 * MaxServerId), editServer(row)
        PROVE  FormOK'
    <2>1. PICK s \in Server : s = mServers[mapToSource(row) + 1]
      BY <1>3, <1>9 DEF editServer
    <2>2. /\ form' = [id |-> s.id, host |-> s.host, password |-> s.password,
                      savePassword |-> s.savePassword, save |-> TRUE, connect |-> FALSE]
          /\ page' = "NewServer" /\ UNCHANGED <<userData, autoConnect>>
      BY <1>9, <2>1 DEF editServer
    <2> QED  BY <1>1, <2>2 DEF FormOK, Server
  <1>10. ASSUME NEW row \in 0..(2 * MaxServerId), connectToHost(row)
         PROVE  FormOK'
    <2>1. PICK s \in Server : s = mServers[mapToSource(row) + 1]
      BY <1>3, <1>10 DEF connectToHost
    <2>2. s.id \in Int
      BY DEF Server
    <2> QED  BY <1>1, <1>10, <2>1, <2>2 DEF FormOK, connectToHost
  <1>11. CASE startConnect
    <2>1. /\ page' = "ConnectState" /\ userData' = -1 /\ autoConnect' = FALSE /\ form' = form
      BY <1>11 DEF startConnect
    <2>2. userData' \in Int
      BY <2>1
    <2>3. autoConnect' \in BOOLEAN
      BY <2>1
    <2> QED  BY <1>1, <2>1, <2>2, <2>3 DEF FormOK
  <1>12. CASE handleConnectEvent
    BY <1>1, <1>12 DEF handleConnectEvent, FormOK
  <1>13. CASE showServerListWidget
    BY <1>1, <1>13 DEF showServerListWidget, FormOK
  <1>14. CASE Restart
    <2>1. PICK host \in Hosts, password \in Passwords \cup {Empty} :
             form' = [ResetForm EXCEPT !.host = host, !.password = password]
      BY <1>14 DEF Restart, Starts
    <2>2. form' \in [id : Int, host : Hosts \cup {Empty}, password : Passwords \cup {Empty},
                     savePassword : BOOLEAN, save : BOOLEAN, connect : BOOLEAN]
      BY <1>2, <2>1
    <2> QED  BY <1>14, <2>2 DEF Restart, Starts, FormOK
  <1> QED  BY <1>4, <1>5, <1>6, <1>7, <1>8, <1>9, <1>10, <1>11, <1>12, <1>13, <1>14 DEF Step

(* The entry the form edits, or a connection belongs to, stays in the list. *)
LEMMA ResolvedStep ==
    ASSUME ListTyped, FormOK, Resolved, Step
    PROVE  Keeps /\ Resolved'
  <1>1. /\ form.id \in Int /\ userData \in Int /\ mNextServerId \in Nat
        /\ page \in {"ServerList", "NewServer", "ConnectState", "Orv"}
    BY DEF FormOK, ListTyped, Typed
  <1>2. ASSUME UNCHANGED modelVars
        PROVE  Keeps /\ \A id \in Int : IsListed(id) => IsListed(id)'
    BY <1>2, LeftAlone
  <1>3. ASSUME NEW row \in 0..(2 * MaxServerId), row < rowCount(Len(mServers)), row % 2 = 0
        PROVE  IsListed(mServers[mapToSource(row) + 1].id)
    <2>1. mServers \in Seq(Server) /\ Len(mServers) \in Nat /\ DOMAIN mServers = 1..Len(mServers)
      BY DEF ListTyped, Typed
    <2>2. mapToSource(row) + 1 \in 1..Len(mServers)
      BY <1>3, <2>1, ServerListAssumption DEF mapToSource, rowCount
    <2> QED  BY <2>1, <2>2 DEF IsListed, Servers
  <1>4. CASE showAddNewServerWidget
    <2>1. UNCHANGED modelVars /\ page' = "NewServer" /\ form'.id = -1
      BY <1>4 DEF showAddNewServerWidget, shownForm, ResetForm
    <2> QED  BY <1>2, <2>1 DEF Resolved
  <1>5. CASE UserEdits
    <2>1. UNCHANGED modelVars /\ page' = page /\ userData' = userData
      BY <1>5 DEF UserEdits
    <2>2. form'.id = form.id
      BY <1>5 DEF UserEdits, FormOK
    <2> QED  BY <1>1, <1>2, <2>1, <2>2 DEF Resolved, IsListed, Servers, modelVars
  <1>6. CASE cancelNewServer
    BY <1>2, <1>6 DEF cancelNewServer, Resolved
  <1>7. CASE checkAndConnectOrSave
    <2>1. \/ page' = "ConnectState" /\ userData' = form'.id
          \/ page' = "ServerList"
      BY <1>7 DEF checkAndConnectOrSave
    <2>2. CASE ~form.save
      <3>1. UNCHANGED <<modelVars, form>> /\ page = "NewServer"
        BY <1>7, <2>2 DEF checkAndConnectOrSave
      <3> QED  BY <1>1, <1>2, <2>1, <3>1 DEF Resolved, modelVars, IsListed, Servers
    <2>3. CASE form.save /\ form.id < 0
      <3>1. addNewServer /\ form' = [form EXCEPT !.id = mNextServerId]
        BY <1>7, <2>3 DEF checkAndConnectOrSave
      <3>2. form'.id = mNextServerId
        BY <3>1 DEF FormOK
      <3>3. Keeps /\ \E k \in DOMAIN mServers' : mServers'[k].id = mNextServerId
        BY <3>1, AddKeeps
      <3> QED  BY <2>1, <3>2, <3>3 DEF Resolved, IsListed, Servers
    <2>4. CASE form.save /\ ~(form.id < 0)
      <3>1. updateServer(form.id) /\ form' = form /\ page = "NewServer"
        BY <1>7, <2>4 DEF checkAndConnectOrSave
      <3>2. PICK id \in Int : id = form.id
        BY <1>1
      <3>3. Keeps /\ \A other \in Int : IsListed(other) => IsListed(other)'
        BY <3>1, <3>2, UpdateKeeps
      <3>4. id > 0 => IsListed(id)'
        BY <3>1, <3>2, <3>3 DEF Resolved
      <3> QED  BY <2>1, <3>1, <3>2, <3>3, <3>4 DEF Resolved, IsListed, Servers
    <2> QED  BY <2>2, <2>3, <2>4
  <1>8. CASE deleteServerAndCancelNewServer
    <2>1. deleteServer(form.id) /\ page' = "ServerList"
      BY <1>8 DEF deleteServerAndCancelNewServer
    <2>2. Keeps
      BY <1>1, <2>1, DeleteKeeps
    <2> QED  BY <2>1, <2>2 DEF Resolved
  <1>9. ASSUME NEW row \in 0..(2 * MaxServerId), editServer(row)
        PROVE  Keeps /\ Resolved'
    <2>1. /\ UNCHANGED modelVars /\ page' = "NewServer"
          /\ form'.id = mServers[mapToSource(row) + 1].id
      BY <1>9 DEF editServer
    <2>2. IsListed(mServers[mapToSource(row) + 1].id)
      BY <1>3, <1>9 DEF editServer
    <2> QED  BY <1>2, <2>1, <2>2 DEF Resolved, modelVars, IsListed, Servers
  <1>10. ASSUME NEW row \in 0..(2 * MaxServerId), connectToHost(row)
         PROVE  Keeps /\ Resolved'
    <2>1. /\ UNCHANGED modelVars /\ page' = "ConnectState"
          /\ userData' = mServers[mapToSource(row) + 1].id
      BY <1>10 DEF connectToHost
    <2>2. IsListed(mServers[mapToSource(row) + 1].id)
      BY <1>3, <1>10 DEF connectToHost
    <2> QED  BY <1>2, <2>1, <2>2 DEF Resolved, modelVars, IsListed, Servers
  <1>11. CASE startConnect
    <2>1. UNCHANGED modelVars /\ page' = "ConnectState" /\ ~(userData' > 0)
      BY <1>11 DEF startConnect
    <2> QED  BY <1>2, <2>1 DEF Resolved
  <1>12. CASE handleConnectEvent
    <2>1. /\ updateLastConnectionForServer(userData) /\ page = "ConnectState"
          /\ page' = "Orv" /\ userData' = userData
      BY <1>12 DEF handleConnectEvent
    <2>2. PICK id \in Int : id = userData
      BY <1>1
    <2>3. Keeps /\ \A other \in Int : IsListed(other) => IsListed(other)'
      BY <2>1, <2>2, StampKeeps
    <2>4. id > 0 => IsListed(id)'
      BY <2>1, <2>2, <2>3 DEF Resolved
    <2> QED  BY <2>1, <2>2, <2>3, <2>4 DEF Resolved, IsListed, Servers
  <1>13. CASE showServerListWidget
    BY <1>2, <1>13 DEF showServerListWidget, Resolved
  <1>14. CASE Restart
    <2>1. page' = "ServerList"
      BY <1>14 DEF Restart, Starts
    <2> QED  BY <1>14, <2>1, RestartKeeps DEF Resolved
  <1> QED  BY <1>4, <1>5, <1>6, <1>7, <1>8, <1>9, <1>10, <1>11, <1>12, <1>13, <1>14 DEF Step

LEMMA AnyStep ==
    ASSUME ListInv, wellKept \in BOOLEAN, wellKept => RulesInv, Next
    PROVE  FileInv' /\ (settings' = settings \/ PasswordsWanted')
  <1>1. ListTyped /\ FormOK /\ Resolved /\ Step /\ wellKept' = wellKept
    BY ListParts DEF Next
  <1>2. Keeps /\ Resolved' /\ FormOK'
    BY <1>1, FormStep, ResolvedStep
  <1>3. ListTyped' /\ (ListKept => ListKept') /\ (settings' = settings \/ PasswordsWanted')
    BY <1>2 DEF Keeps
  <1>4. ListInv' <=> ListTyped' /\ FormOK' /\ Resolved'
    BY ListParts, PTL
  <1>5. ListTyped' => (RulesInv' <=> ListKept')
    BY RulesParts, PTL
  <1>6. RulesInv => ListKept
    BY <1>1, RulesParts
  <1> QED  BY <1>1, <1>2, <1>3, <1>4, <1>5, <1>6 DEF FileInv

LEMMA FileInvariant == Spec => []FileInv
  <1>1. Init => FileInv
    <2> SUFFICES ASSUME Init  PROVE FileInv
      OBVIOUS
    <2>1. settings \in SettingsFile /\ ListTyped
      BY StartTyped DEF Init, ListTyped
    <2>2. form = ResetForm /\ page = "ServerList" /\ userData = 0 /\ autoConnect = FALSE
      BY DEF Init
    <2>3. FormOK
      <3>1. ResetForm \in [id : Int, host : Hosts \cup {Empty}, password : Passwords \cup {Empty},
                           savePassword : BOOLEAN, save : BOOLEAN, connect : BOOLEAN]
        BY DEF ResetForm
      <3>2. autoConnect \in BOOLEAN
        BY <2>2
      <3> QED  BY <2>2, <3>1, <3>2 DEF FormOK
    <2>4. Resolved
      BY <2>2 DEF Resolved
    <2>5. wellKept = KeepsTheRules(settings)
      BY DEF Init
    <2>6. wellKept \in BOOLEAN
      BY <2>5 DEF KeepsTheRules
    <2>7. ASSUME wellKept  PROVE RulesInv
      <3>1. ListKept
        BY <2>1, <2>5, <2>7, StartKept DEF Init, ListKept
      <3> QED  BY <2>1, <3>1, RulesParts
    <2> QED  BY <2>1, <2>3, <2>4, <2>6, <2>7, ListParts DEF FileInv
  <1>2. FileInv /\ [Next]_vars => FileInv'
    <2>1. CASE Next
      BY <2>1, AnyStep DEF FileInv
    <2>2. CASE UNCHANGED vars
      BY <2>2 DEF vars, modelVars, FileInv, ListInv, RulesInv, TypeOK, Servers, RoomInFile, IdsOnce,
                  Resolved, IsListed, ListIsSaved, PasswordsWanted
    <2> QED  BY <2>1, <2>2
  <1> QED  BY <1>1, <1>2, PTL DEF Spec

(* The entry a form edits or a connection belongs to is in the list: no     *)
(* addNewServer(), deleteServer() or load of any file leaves an id that     *)
(* misses its server.  Every id is given once, and stays below the next    *)
(* one, if the file of the first start kept the rules.                     *)
THEOREM IdsAlwaysResolve == Spec => []IdsResolve
  <1>1. FileInv => IdsResolve
    BY DEF FileInv, ListInv, RulesInv, IdsResolve
  <1> QED  BY <1>1, FileInvariant, PTL

(* The next start finds the list as it was, but for custom pixel formats,   *)
(* wherever the program ends, if the file of the first start kept the      *)
(* rules: what saveServerListToFile() wrote is what                        *)
(* loadServerListFromFile() builds.                                        *)
THEOREM ListAlwaysSurvives == Spec => []ListSurvives
  <1>1. FileInv => ListSurvives
    BY DEF FileInv, RulesInv, ListSurvives
  <1> QED  BY <1>1, FileInvariant, PTL

(* saveServerListToFile() leaves no password for a server that is gone or   *)
(* whose user does not want it saved, whatever file the program was        *)
(* started on; and if the first one kept the rules there never is one.     *)
THEOREM PasswordsAreWanted == Spec => PasswordsInFile
  <1>1. FileInv => (wellKept => PasswordsWanted)
    BY DEF FileInv, RulesInv
  <1>2. FileInv /\ [Next]_vars => [settings' # settings => PasswordsWanted']_vars
    <2>1. ASSUME FileInv, Next  PROVE settings' # settings => PasswordsWanted'
      BY <2>1, AnyStep DEF FileInv
    <2> QED  BY <2>1
  <1>3. Spec => [][settings' # settings => PasswordsWanted']_vars
    BY <1>2, FileInvariant, PTL DEF Spec
  <1>4. Spec => [](wellKept => PasswordsWanted)
    BY <1>1, FileInvariant, PTL
  <1> QED  BY <1>3, <1>4 DEF PasswordsInFile

-----------------------------------------------------------------------------
(* The rows of the view *)

(* The row one server further on. *)
LEMMA HalfFacts ==
    \A r \in Nat : /\ (r + 2) % 2 = r % 2 /\ (r + 2) \div 2 = r \div 2 + 1
                   /\ r \div 2 \in Nat /\ 2 * (r \div 2) <= r /\ r <= 2 * (r \div 2) + 1
  OBVIOUS

LEMMA RowsWithoutServer ==
    ASSUME NEW servers \in Seq(Server), NEW k \in 1..Len(servers),
           NEW list \in Seq(Server), list = RemoveAt(servers, k)
    PROVE  LET gone == rowsRemoved(k - 1, Len(servers))
           IN  /\ gone.first..gone.last \subseteq 0..(rowCount(Len(servers)) - 1)
               /\ Rows(list) = Without(Rows(servers), gone)
  <1>1. PICK n \in Nat : n = Len(servers)
    OBVIOUS
  <1>2. PICK gone : gone = rowsRemoved(k - 1, n)
    OBVIOUS
  <1>3. n > 0 /\ rowCount(n) = 2 * n - 1 /\ rowCount(n - 1) \in Nat /\ k \in 1..n
    <2>1. k \in 1..n /\ n > 0
      BY <1>1
    <2> QED  BY <2>1 DEF rowCount
  <1>4. gone.first = (IF n > 1 /\ k = n THEN 2 * k - 3 ELSE 2 * k - 2)
        /\ gone.last = (IF k < n THEN 2 * k - 1 ELSE 2 * k - 2)
    BY <1>2, <1>3 DEF rowsRemoved, mapRowFromSource
  <1>5. gone.first..gone.last \subseteq 0..(rowCount(n) - 1)
    BY <1>3, <1>4
  <1>6. /\ Len(list) = n - 1
        /\ \A j \in 1..(n - 1) : list[j] = IF j < k THEN servers[j] ELSE servers[j + 1]
    BY <1>1, RemoveAtProperties
  <1>7. rowCount(n - 1) = rowCount(n) - (gone.last - gone.first + 1)
    BY <1>3, <1>4 DEF rowCount
  <1> DEFINE Row(l, r) == IF (r - 1) % 2 = 1 THEN Separator
                          ELSE paintServer(l[(r - 1) \div 2 + 1])
             rows == Rows(servers)
  <1>8. rows = [r \in 1..rowCount(n) |-> Row(servers, r)]
    BY <1>1 DEF Rows, mapToSource
  <1>9. Rows(list) = [r \in 1..rowCount(n - 1) |-> Row(list, r)]
    BY <1>6 DEF Rows, mapToSource
  <1>10. Len(rows) = rowCount(n)
    BY <1>3, <1>8
  <1>11. Without(rows, gone) =
           [r \in 1..rowCount(n - 1) |->
              IF r <= gone.first THEN rows[r] ELSE rows[r + (gone.last - gone.first + 1)]]
    BY <1>7, <1>10 DEF Without
  <1>12. ASSUME NEW r \in 1..rowCount(n - 1)
         PROVE  Row(list, r) =
                  IF r <= gone.first THEN rows[r] ELSE rows[r + (gone.last - gone.first + 1)]
    <2>1. n > 1 /\ rowCount(n - 1) = 2 * n - 3 /\ r <= 2 * n - 3 /\ r \in Nat /\ r - 1 \in Nat
      BY <1>3 DEF rowCount
    <2>2. PICK m \in Nat : m = (r - 1) \div 2
      BY <2>1, HalfFacts
    <2>3. 2 * m <= r - 1 /\ r - 1 <= 2 * m + 1
      BY <2>1, <2>2, HalfFacts
    <2>4. m + 1 \in 1..(n - 1)
      BY <1>3, <2>1, <2>3
    <2>5. CASE r <= gone.first
      <3>1. m + 1 < k
        BY <1>3, <1>4, <2>1, <2>3, <2>5
      <3>2. list[m + 1] = servers[m + 1]
        BY <1>6, <2>4, <3>1
      <3>3. rows[r] = Row(servers, r)
        BY <1>3, <1>8, <2>1
      <3> QED  BY <2>2, <2>5, <3>2, <3>3
    <2>6. CASE ~(r <= gone.first)
      <3>1. k < n
        BY <1>3, <1>4, <2>1, <2>6
      <3>2. gone.first = 2 * k - 2 /\ gone.last - gone.first + 1 = 2
        BY <1>3, <1>4, <3>1
      <3>3. ~(m + 1 < k)
        BY <1>3, <2>1, <2>3, <2>6, <3>2
      <3>4. list[m + 1] = servers[m + 2]
        BY <1>6, <2>4, <3>3
      <3>5. r + 2 \in 1..rowCount(n)
        BY <1>3, <2>1
      <3>6. rows[r + 2] = Row(servers, r + 2)
        BY <1>8, <3>5
      <3>7. (r + 2) - 1 = (r - 1) + 2
        BY <2>1
      <3>8. ((r + 2) - 1) % 2 = (r - 1) % 2 /\ ((r + 2) - 1) \div 2 + 1 = m + 2
        <4>1. PICK q \in Nat : q = r - 1
          BY <2>1
        <4>2. (r + 2) - 1 = q + 2 /\ (q + 2) % 2 = q % 2 /\ (q + 2) \div 2 = m + 1
          BY <2>2, <3>7, <4>1, HalfFacts
        <4> QED  BY <4>1, <4>2
      <3>9. Row(servers, r + 2) = Row(list, r)
        BY <2>2, <3>4, <3>8
      <3> QED  BY <2>6, <3>2, <3>6, <3>9
    <2> QED  BY <2>5, <2>6
  <1>13. Rows(list) = Without(rows, gone)
    <2> HIDE DEF Row, rows
    <2> QED  BY <1>9, <1>11, <1>12
  <1> QED  BY <1>1, <1>2, <1>5, <1>13

(* The rows announced as going away when a server is deleted are those that  *)
(* the view no longer finds, whatever the place of the server in the list. *)
THEOREM RemovalsAlwaysAnnounced == Spec => RemovalsAnnounced
  <1> DEFINE Announced ==
                 \A k \in DOMAIN mServers :
                    deleteServerAndCancelNewServer /\ IsFirst(k, form.id) =>
                       LET gone == rowsRemoved(k - 1, Len(mServers))
                       IN  /\ gone.first..gone.last \subseteq 0..(rowCount(Len(mServers)) - 1)
                           /\ Rows(mServers') = Without(Rows(mServers), gone)
  <1>1. ASSUME FileInv  PROVE Announced
    <2> SUFFICES ASSUME NEW k \in DOMAIN mServers,
                        deleteServerAndCancelNewServer, IsFirst(k, form.id)
                 PROVE  LET gone == rowsRemoved(k - 1, Len(mServers))
                        IN  /\ gone.first..gone.last \subseteq 0..(rowCount(Len(mServers)) - 1)
                            /\ Rows(mServers') = Without(Rows(mServers), gone)
      OBVIOUS
    <2>2. mServers \in Seq(Server) /\ k \in 1..Len(mServers) /\ DOMAIN mServers = 1..Len(mServers)
      BY <1>1 DEF FileInv, ListInv, TypeOK
    <2>3. form.id > 0 /\ IsListed(form.id)
      BY DEF deleteServerAndCancelNewServer, IsListed, Servers, IsFirst
    <2>4. PICK j \in DOMAIN mServers :
             IsFirst(j, form.id) /\ mServers' = RemoveAt(mServers, j)
      BY <2>3 DEF deleteServerAndCancelNewServer, deleteServer
    <2>9. j = k
      BY <2>2, <2>4 DEF IsFirst
    <2>5. mServers' = RemoveAt(mServers, k)
      BY <2>4, <2>9
    <2>6. PICK list, servers : list = mServers' /\ servers = mServers
      OBVIOUS
    <2>7. list \in Seq(Server)
      BY <2>2, <2>5, <2>6, RemoveAtProperties
    <2>8. LET gone == rowsRemoved(k - 1, Len(servers))
          IN  /\ gone.first..gone.last \subseteq 0..(rowCount(Len(servers)) - 1)
              /\ Rows(list) = Without(Rows(servers), gone)
      BY <2>2, <2>5, <2>6, <2>7, RowsWithoutServer
    <2> QED  BY <2>6, <2>8
  <1>2. FileInv => [Announced]_vars
    BY <1>1
  <1> HIDE DEF Announced
  <1>3. Spec => [][Announced]_vars
    BY <1>2, FileInvariant, PTL
  <1> QED  BY <1>3 DEF Announced, RemovalsAnnounced
=============================================================================
