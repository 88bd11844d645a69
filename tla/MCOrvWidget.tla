------------------------------ MODULE MCOrvWidget ------------------------------
(***************************************************************************)
(* Texts of up to three characters of one to four bytes: A, e acute, two   *)
(* Cyrillic letters, the euro sign and an emoji, of which the second       *)
(* Cyrillic letter and the emoji have no keysym in the table of the model. *)
(***************************************************************************)
EXTENDS OrvWidget

Characters == {65, 233, 1089, 1057, 8364, 128512}
ShortTexts == SeqOf(Characters, 3)

(* UTF-8, as its standard defines it. *)
EncodeChar(c) ==
    IF c < 128 THEN <<c>>
    ELSE IF c < 2048 THEN <<192 + (c \div 64), 128 + (c % 64)>>
    ELSE IF c < 65536 THEN <<224 + (c \div 4096), 128 + ((c \div 64) % 64), 128 + (c % 64)>>
    ELSE <<240 + (c \div 262144), 128 + ((c \div 4096) % 64), 128 + ((c \div 64) % 64), 128 + (c % 64)>>

Utf8(text) == FlattenSeq([i \in DOMAIN text |-> EncodeChar(text[i])])
=============================================================================
