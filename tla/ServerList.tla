------------------------------- MODULE ServerList -------------------------------
(***************************************************************************)
(* The list of servers of the Qt client: ServerListModel, which keeps it   *)
(* and saves it to the settings file after every change, the proxy model   *)
(* that puts a separator between two servers for the view, and the form    *)
(* that adds, edits and deletes a server.  The program may end at any      *)
(* point and is started again on what the file holds.                      *)
(***************************************************************************)
EXTENDS Integers, Sequences, SequencesExt

CONSTANTS
    Hosts,          \* host names
    Passwords,      \* passwords
    Empty,          \* the empty text
    EditedFiles,    \* settings files written by hand the program may be started on
    MaxServerId     \* bound: ids given by addNewServer(), and entries of the list

ASSUME ServerListAssumption ==
    /\ MaxServerId \in Nat
    /\ Empty \notin Hosts \cup Passwords
    /\ "none" \notin Passwords \cup {Empty}

VARIABLES
    mServers,
    mNextServerId,
    settings,       \* the file behind QSettings
    form,           \* what NewServerWidget holds
    page,
    userData,       \* ORV_USER_DATA_1: the server the connection belongs to
    autoConnect,    \* a host was named on the command line; its single shot waits
    wellKept        \* history: the file of the first start kept the rules

modelVars == <<mServers, mNextServerId, settings>>
vars == <<modelVars, form, page, userData, autoConnect, wellKept>>

Ids == 1..MaxServerId
Indices == 0..(MaxServerId - 1)
NoGroup == [absent |-> TRUE]
NoPassword == "none"    \* no key "Password" in the group

-----------------------------------------------------------------------------
(* The settings file *)

(* Faulty: the key "Password" is written but never removed. *)
WriteGroup_KeepsPassword(s, old) ==
    [id |-> s.id, host |-> s.host, savePassword |-> s.savePassword,
     password |-> IF s.savePassword THEN s.password
                  ELSE IF old = NoGroup THEN NoPassword ELSE old.password,
     connected |-> s.connected, profile |-> s.profile]

(* The group "Server_i"; `old` is what the file held there before. *)
WriteGroup(s, old) ==
    [id |-> s.id, host |-> s.host, savePassword |-> s.savePassword,
     password |-> IF s.savePassword THEN s.password ELSE NoPassword,
     connected |-> s.connected, profile |-> s.profile]

(* The groups that existed before and have no server any more are removed,  *)
(* and with them every "Server_i_CustomPixelFormat" that existed before:   *)
(* its index does not read as a number.                                    *)
WriteFormat(servers, i) ==
    IF i < Len(servers) /\ servers[i + 1].profile = "custom" /\ settings.formats[i] = "absent"
    THEN servers[i + 1].format ELSE "absent"

saveServerListToFile(servers, next) ==
    settings' =
        [nextServerId |-> next,
         serverCount |-> Len(servers),
         groups |-> [i \in Indices |->
                        IF i < Len(servers)
                        THEN WriteGroup(servers[i + 1], settings.groups[i]) ELSE NoGroup],
         formats |-> [i \in Indices |-> WriteFormat(servers, i)]]

(* The server of group i; a missing group or key reads as 0 or empty.      *)
ReadGroup(file, i) ==
    LET g == file.groups[i]
    IN  IF g = NoGroup
        THEN [id |-> 0, host |-> Empty, savePassword |-> FALSE, password |-> Empty,
              connected |-> FALSE, profile |-> "best", format |-> "zero"]
        ELSE [id |-> g.id, host |-> g.host, savePassword |-> g.savePassword,
              password |-> IF g.savePassword /\ g.password # NoPassword THEN g.password ELSE Empty,
              connected |-> g.connected, profile |-> g.profile,
              format |-> IF g.profile = "custom" /\ file.formats[i] = "set" THEN "set" ELSE "zero"]

(* Servers without a valid id, or with the id of one before, are left out. *)
AddLoaded(s, before) ==
    IF s.id > 0 /\ \A k \in DOMAIN before : before[k].id # s.id THEN Append(before, s) ELSE before

LoadedOf(file) ==
    LET list[n \in 0..file.serverCount] ==
            IF n = 0 THEN <<>> ELSE AddLoaded(ReadGroup(file, n - 1), list[n - 1])
    IN  list

Loaded(file) == LoadedOf(file)[file.serverCount]

LoadedNextId(file) == IF file.nextServerId > 1 THEN file.nextServerId ELSE 1

EmptyFile == [nextServerId |-> 0, serverCount |-> 0,
              groups |-> [i \in Indices |-> NoGroup], formats |-> [i \in Indices |-> "absent"]]

Group == [id : Int, host : Hosts \cup {Empty}, savePassword : BOOLEAN,
          password : Passwords \cup {Empty, NoPassword}, connected : BOOLEAN,
          profile : {"best", "custom"}]
SettingsFile == [nextServerId : Int, serverCount : 0..MaxServerId,
                 groups : [Indices -> Group \cup {NoGroup}],
                 formats : [Indices -> {"absent", "zero", "set"}]]

(* What holds of every file that only the program has written: every id is  *)
(* below the next one to be given, and there are passwords for entries of  *)
(* the list only.  A person may break it: the program neither raises the   *)
(* number nor removes a group when it loads the list.                      *)
KeepsTheRules(file) ==
    /\ \A k \in DOMAIN Loaded(file) : Loaded(file)[k].id < LoadedNextId(file)
    /\ \A i \in Indices : file.groups[i] # NoGroup /\ file.groups[i].password # NoPassword =>
          \E k \in DOMAIN Loaded(file) :
             LET s == Loaded(file)[k]
             IN  /\ s.id = file.groups[i].id /\ s.savePassword
                 /\ s.password = file.groups[i].password

ASSUME EditedFilesAssumption == EditedFiles \subseteq SettingsFile

-----------------------------------------------------------------------------
(* What the view shows *)

Separator == [type |-> "separator"]

(* Rows of the proxy model: two per server but the last. *)
rowCount(n) == IF n <= 1 THEN n ELSE n + (n - 1)

mapRowFromSource(row) == row * 2
mapToSource(row) == row \div 2

(* The name a row is painted with: here the host stands for name and host. *)
paintServer(s) ==
    [type |-> "server", name |-> IF s.host = Empty THEN "unknown" ELSE s.host,
     connected |-> s.connected, id |-> s.id]

Rows(servers) ==
    [r \in 1..rowCount(Len(servers)) |->
        IF (r - 1) % 2 = 1 THEN Separator ELSE paintServer(servers[mapToSource(r - 1) + 1])]

(* Faulty: the separator after the server goes, also after the last. *)
rowsRemoved_After(first, n) ==
    LET row == mapRowFromSource(first)
    IN  [first |-> row, last |-> IF n > 1 THEN row + 1 ELSE row]

(* The proxy rows announced as going away with server row `first`, of n: a  *)
(* separator goes too, the one after it or, for the last, the one before.  *)
rowsRemoved(first, n) ==
    LET row == mapRowFromSource(first)
    IN  [first |-> IF n > 1 /\ first = n - 1 THEN row - 1 ELSE row,
         last |-> IF first < n - 1 THEN row + 1 ELSE row]

-----------------------------------------------------------------------------
(* The model *)

Servers == {mServers[k] : k \in DOMAIN mServers}
IsListed(id) == \E s \in Servers : s.id = id

(* The loops over the list stop at the first entry with the id. *)
IsFirst(k, id) == mServers[k].id = id /\ \A l \in 1..k - 1 : mServers[l].id # id

(* editServer(): what the form says of a server.  The form offers no custom *)
(* pixel format.                                                           *)
Edited(s) ==
    [s EXCEPT !.host = form.host, !.savePassword = form.savePassword,
              !.password = IF form.savePassword THEN form.password ELSE Empty,
              !.profile = "best", !.format = "zero"]

NewServer ==
    Edited([id |-> mNextServerId, host |-> Empty, savePassword |-> FALSE,
            password |-> Empty, connected |-> FALSE, profile |-> "best", format |-> "zero"])

(* Faulty: the number of the next server is saved as it was. *)
addNewServer_OldNumber ==
    /\ mNextServerId <= MaxServerId /\ Len(mServers) < MaxServerId
    /\ mServers' = Append(mServers, NewServer)
    /\ mNextServerId' = mNextServerId + 1
    /\ saveServerListToFile(mServers', mNextServerId)

addNewServer ==
    /\ mNextServerId <= MaxServerId /\ Len(mServers) < MaxServerId
    /\ mServers' = Append(mServers, NewServer)
    /\ mNextServerId' = mNextServerId + 1
    /\ saveServerListToFile(mServers', mNextServerId')

(* The list is left alone when the server is not in it. *)
changeServer(id, Change(_)) ==
    /\ UNCHANGED mNextServerId
    /\ IF id > 0 /\ IsListed(id)
       THEN /\ mServers' = [k \in DOMAIN mServers |->
                               IF IsFirst(k, id) THEN Change(mServers[k]) ELSE mServers[k]]
            /\ saveServerListToFile(mServers', mNextServerId)
       ELSE UNCHANGED <<mServers, settings>>

updateServer(id) == changeServer(id, Edited)

Stamped(s) == [s EXCEPT !.connected = TRUE]
updateLastConnectionForServer(id) == changeServer(id, Stamped)

deleteServer(id) ==
    /\ UNCHANGED mNextServerId
    /\ IF id > 0 /\ IsListed(id)
       THEN /\ \E k \in DOMAIN mServers :
                  IsFirst(k, id) /\ mServers' = RemoveAt(mServers, k)
            /\ saveServerListToFile(mServers', mNextServerId)
       ELSE UNCHANGED <<mServers, settings>>

-----------------------------------------------------------------------------
(* The form *)

ResetForm ==
    [id |-> -1, host |-> Empty, password |-> Empty, savePassword |-> TRUE,
     save |-> TRUE, connect |-> TRUE]

(* Faulty: the form is shown as it was left. *)
shownForm_Kept == form

(* changeCurrentWidgetTo(): the form is reset when it is shown. *)
shownForm == ResetForm

showAddNewServerWidget ==
    /\ page = "ServerList"
    /\ page' = "NewServer" /\ form' = shownForm
    /\ UNCHANGED <<modelVars, userData, autoConnect>>

(* A click on the edit button of a row. *)
editServer(row) ==
    /\ page = "ServerList"
    /\ row < rowCount(Len(mServers)) /\ row % 2 = 0
    /\ page' = "NewServer"
    /\ form' = LET s == mServers[mapToSource(row) + 1]
               IN  [id |-> s.id, host |-> s.host, password |-> s.password,
                    savePassword |-> s.savePassword, save |-> TRUE, connect |-> FALSE]
    /\ UNCHANGED <<modelVars, userData, autoConnect>>

UserEdits ==
    /\ page = "NewServer"
    /\ \/ \E host \in Hosts \cup {Empty} : form' = [form EXCEPT !.host = host]
       \/ \E password \in Passwords \cup {Empty} : form' = [form EXCEPT !.password = password]
       \/ \E box \in {"savePassword", "save", "connect"} : form' = [form EXCEPT ![box] = ~@]
    /\ UNCHANGED <<modelVars, page, userData, autoConnect>>

cancelNewServer ==
    /\ page = "NewServer"
    /\ page' = "ServerList"
    /\ UNCHANGED <<modelVars, form, userData, autoConnect>>

deleteServerAndCancelNewServer ==
    /\ page = "NewServer" /\ form.id > 0
    /\ deleteServer(form.id)
    /\ page' = "ServerList"
    /\ UNCHANGED <<form, userData, autoConnect>>

(* "Connect" or "Save".  A connection of a new server belongs to the entry   *)
(* just made.                                                              *)
checkAndConnectOrSave ==
    /\ page = "NewServer"
    /\ form.host # Empty
    /\ form.connect \/ form.save
    /\ IF ~form.save THEN UNCHANGED <<modelVars, form>>
       ELSE IF form.id < 0 THEN addNewServer /\ form' = [form EXCEPT !.id = mNextServerId]
       ELSE updateServer(form.id) /\ UNCHANGED form
    /\ IF form.connect THEN page' = "ConnectState" /\ userData' = form'.id
       ELSE page' = "ServerList" /\ UNCHANGED userData
    /\ UNCHANGED autoConnect

-----------------------------------------------------------------------------
(* Connecting, as far as the list is concerned, and the end of the program *)

(* A click on a row; a separator is no server. *)
connectToHost(row) ==
    /\ page = "ServerList"
    /\ row < rowCount(Len(mServers)) /\ row % 2 = 0
    /\ page' = "ConnectState"
    /\ userData' = mServers[mapToSource(row) + 1].id
    /\ UNCHANGED <<modelVars, form, autoConnect>>

startConnect ==
    /\ autoConnect /\ autoConnect' = FALSE
    /\ page' = "ConnectState" /\ userData' = -1
    /\ UNCHANGED <<modelVars, form>>

handleConnectEvent ==
    /\ page = "ConnectState"
    /\ updateLastConnectionForServer(userData)
    /\ page' = "Orv"
    /\ UNCHANGED <<form, userData, autoConnect>>

(* The number in ORV_USER_DATA_1 is not read again before it is set again.  *)
showServerListWidget ==
    /\ page \in {"ConnectState", "Orv"}
    /\ page' = "ServerList" /\ userData' = 0
    /\ UNCHANGED <<modelVars, form, autoConnect>>

(* The program starts; the command line may give a host, which it connects  *)
(* to at once, and a password.                                             *)
Starts(file) ==
    /\ mServers' = Loaded(file)
    /\ mNextServerId' = LoadedNextId(file)
    /\ settings' = file
    /\ page' = "ServerList" /\ userData' = 0
    /\ autoConnect' \in BOOLEAN
    /\ \E host \in Hosts, password \in Passwords \cup {Empty} :
          form' = [ResetForm EXCEPT !.host = host, !.password = password]

Restart == Starts(settings)

Init ==
    /\ settings \in EditedFiles \cup {EmptyFile}
    /\ mServers = Loaded(settings) /\ mNextServerId = LoadedNextId(settings)
    /\ form = ResetForm /\ page = "ServerList" /\ userData = 0 /\ autoConnect = FALSE
    /\ wellKept = KeepsTheRules(settings)

Step ==
    \/ showAddNewServerWidget \/ UserEdits \/ cancelNewServer \/ checkAndConnectOrSave
    \/ deleteServerAndCancelNewServer
    \/ \E row \in 0..(2 * MaxServerId) : editServer(row) \/ connectToHost(row)
    \/ startConnect \/ handleConnectEvent \/ showServerListWidget
    \/ Restart

Next == Step /\ UNCHANGED wellKept

Spec == Init /\ [][Next]_vars

-----------------------------------------------------------------------------
(* Properties *)

(* The entry the form edits, or a connection belongs to, is in the list. *)
Resolved ==
    /\ page = "NewServer" /\ form.id > 0 => IsListed(form.id)
    /\ page \in {"ConnectState", "Orv"} /\ userData > 0 => IsListed(userData)

IdsOnce ==
    /\ \A k, l \in DOMAIN mServers : mServers[k].id = mServers[l].id => k = l
    /\ \A s \in Servers : s.id < mNextServerId

(* No save, deletion or time of the last connection misses its server, on   *)
(* any file; and none reaches another server, as every id is given once,   *)
(* if the first file kept the rules.                                       *)
IdsResolve == Resolved /\ (wellKept => IdsOnce)

WithoutFormat(servers) == [k \in DOMAIN servers |-> [servers[k] EXCEPT !.format = "zero"]]

ListIsSaved ==
    /\ WithoutFormat(Loaded(settings)) = WithoutFormat(mServers)
    /\ LoadedNextId(settings) = mNextServerId

(* Whenever the program ends, the next start finds the list as it was, but  *)
(* for custom pixel formats, if the first file kept the rules: with an id   *)
(* that is given twice the second entry is gone at the next start          *)
(* (serverlistmodel.cpp:308).                                              *)
ListSurvives == wellKept => ListIsSaved

PasswordsWanted ==
    \A i \in Indices : settings.groups[i] # NoGroup /\ settings.groups[i].password # NoPassword =>
        \E s \in Servers :
            /\ s.id = settings.groups[i].id /\ s.savePassword
            /\ s.password = settings.groups[i].password

(* A password is in the file only if its server is still in the list and    *)
(* the user wants it saved: after every save, and all the time if the      *)
(* first file kept the rules.  A password of an entry that is dropped when *)
(* the list is loaded stays in the file until the list is saved.           *)
PasswordsInFile ==
    /\ [][settings' # settings => PasswordsWanted']_vars
    /\ [](wellKept => PasswordsWanted)

(* The rows the view is told to forget when a server is deleted are those   *)
(* that go: what it keeps, in its order, is what the proxy shows then.     *)
Without(rows, gone) ==
    [r \in 1..(Len(rows) - (gone.last - gone.first + 1)) |->
        IF r <= gone.first THEN rows[r] ELSE rows[r + (gone.last - gone.first + 1)]]

RemovalsAnnounced ==
    [][\A k \in DOMAIN mServers :
        deleteServerAndCancelNewServer /\ IsFirst(k, form.id) =>
            LET gone == rowsRemoved(k - 1, Len(mServers))
            IN  /\ gone.first..gone.last \subseteq 0..(rowCount(Len(mServers)) - 1)
                /\ Rows(mServers') = Without(Rows(mServers), gone)]_vars

-----------------------------------------------------------------------------
(* The inductive invariant behind them, on any file. *)

Server == [id : Nat \ {0}, host : Hosts \cup {Empty}, savePassword : BOOLEAN,
           password : Passwords \cup {Empty}, connected : BOOLEAN,
           profile : {"best", "custom"}, format : {"zero", "set"}]

TypeOK ==
    /\ mServers \in Seq(Server)
    /\ \A s \in Servers : s.savePassword \/ s.password = Empty
    /\ mNextServerId \in Nat \ {0}
    /\ settings \in SettingsFile
    /\ form \in [id : Int, host : Hosts \cup {Empty}, password : Passwords \cup {Empty},
                 savePassword : BOOLEAN, save : BOOLEAN, connect : BOOLEAN]
    /\ page \in {"ServerList", "NewServer", "ConnectState", "Orv"}
    /\ userData \in Int /\ autoConnect \in BOOLEAN

RoomInFile == Len(mServers) <= MaxServerId

ListInv == TypeOK /\ RoomInFile /\ Resolved

(* And on one that keeps the rules: there are fewer servers than numbers    *)
(* were given.                                                             *)
RulesInv == Len(mServers) < mNextServerId /\ IdsOnce /\ ListIsSaved /\ PasswordsWanted

FileInv == wellKept \in BOOLEAN /\ ListInv /\ (wellKept => RulesInv)
=============================================================================
