------------------------------ MODULE MCServerList ------------------------------
(***************************************************************************)
(* Settings files written by hand for the model checker: a server with a   *)
(* custom pixel format, entries with an invalid and with a double id, and  *)
(* two that break the rules: an id that is still to be given, and a        *)
(* password of an entry that is dropped.                                   *)
(***************************************************************************)
EXTENDS ServerList

Entry(id, profile) ==
    [id |-> id, host |-> CHOOSE h \in Hosts : TRUE, savePassword |-> FALSE,
     password |-> NoPassword, connected |-> FALSE, profile |-> profile]

CustomFile ==
    [EmptyFile EXCEPT !.nextServerId = 2, !.serverCount = 1,
                      !.groups[0] = Entry(1, "custom"), !.formats[0] = "set"]

DoubleFile ==
    [EmptyFile EXCEPT !.nextServerId = 2, !.serverCount = 3, !.groups[0] = Entry(0, "best"),
                      !.groups[1] = Entry(1, "best"), !.groups[2] = Entry(1, "custom")]

HighFile ==
    [EmptyFile EXCEPT !.nextServerId = 3, !.serverCount = 1, !.groups[0] = Entry(3, "best")]

DroppedFile ==
    [EmptyFile EXCEPT !.nextServerId = 3, !.serverCount = 1,
                      !.groups[0] = [Entry(0, "best") EXCEPT !.savePassword = TRUE,
                                        !.password = CHOOSE password \in Passwords : TRUE]]

HandWritten == {CustomFile, DoubleFile, HighFile, DroppedFile}
=============================================================================
