---------------------------------- MODULE Keys ----------------------------------
(***************************************************************************)
(* From keys of the application to keysyms of the X11 protocol, which are  *)
(* what a KeyEvent message carries: the table of Qt keys, the table of     *)
(* Android keys and the table of Unicode characters with its reader of     *)
(* UTF-8.  The tables are generated files of thousands of entries: a few   *)
(* entries of each stand for them here.  Characters, bytes and keysyms are *)
(* their numbers.                                                          *)
(***************************************************************************)
EXTENDS Integers, Sequences, SequencesExt, FiniteSetsExt

XK_Shift == 65505
XK_Control == 65507
XK_Meta == 65511

-----------------------------------------------------------------------------
(* Qt *)

(* Keys of the keyboard; the Cyrillic one has no Qt::Key of its own. *)
QtKeys == {"Shift", "Control", "A", "Eacute", "Es", "1", "Tab", "Home", "KP_Home"}

(* The Qt::Key of an event.  It depends on Shift, where the shifted key has *)
(* a Qt::Key of its own, and is the same on the keypad.                    *)
keyOf(key, shift) ==
    CASE key = "Tab" /\ shift -> "Backtab"
      [] key = "1" /\ shift   -> "Exclam"
      [] key = "KP_Home"      -> "Home"
      [] OTHER                -> key

onKeypad(key) == key = "KP_Home"

(* The text of a key event: the character, which depends on Shift, or no    *)
(* text at all (with other modifiers, or on release).                      *)
NoText == 0
textOf(key, shift) ==
    CASE key = "A"      -> IF shift THEN 65 ELSE 97
      [] key = "1"      -> IF shift THEN 33 ELSE 49
      [] key = "Eacute" -> IF shift THEN 201 ELSE 233
      [] key = "Es"     -> IF shift THEN 1057 ELSE 1089
      [] OTHER          -> NoText

NoKeysym == 0

(* The first switch: characters of Latin 1 are their own keysyms. *)
KeysymOfText(text) ==
    CASE text = 1057 -> 1779
      [] text = 1089 -> 1747
      [] OTHER       -> text

(* The second switch. *)
KeysymOfKey(key, shift, keypad, mac) ==
    CASE key = "A"       -> IF shift THEN 65 ELSE 97
      [] key = "Eacute"  -> 233
      [] key = "1"       -> 49
      [] key = "Exclam"  -> 33
      [] key = "Tab"     -> 65289
      [] key = "Backtab" -> 65056
      [] key = "Home"    -> IF keypad THEN 65429 ELSE 65360
      [] key = "Shift"   -> XK_Shift
      [] key = "Control" -> IF mac THEN XK_Meta ELSE XK_Control
      [] OTHER           -> NoKeysym

orv_qt_key_to_keysym(key, shift, keypad, text, mac) ==
    IF text # NoText THEN KeysymOfText(text) ELSE KeysymOfKey(key, shift, keypad, mac)

-----------------------------------------------------------------------------
(* The table of Unicode characters *)

HASH_BUCKET_COUNT == 1024

(* Two characters of one bucket, and a character with two names. *)
xkey_defs ==
    << [mXCode |-> 65, mUCode |-> 65],       \* XK_A
       [mXCode |-> 97, mUCode |-> 97],       \* XK_a
       [mXCode |-> 216, mUCode |-> 216],     \* XK_Oslash
       [mXCode |-> 216, mUCode |-> 216],     \* XK_Ooblique
       [mXCode |-> 233, mUCode |-> 233],     \* XK_eacute
       [mXCode |-> 1747, mUCode |-> 1089],   \* XK_Cyrillic_es
       [mXCode |-> 8364, mUCode |-> 8364] >> \* XK_EuroSign

(* The entries of each bucket, in the order of the table. *)
UnicodeToXKeyTable ==
    [bucket \in 0..(HASH_BUCKET_COUNT - 1) |->
        SelectSeq(xkey_defs, LAMBDA d : d.mUCode % HASH_BUCKET_COUNT = bucket)]

(* Faulty: the first entry of the bucket is taken for the character's. *)
lookupKey_Bucket(key) ==
    LET entries == UnicodeToXKeyTable[key % HASH_BUCKET_COUNT]
    IN  IF entries = <<>> THEN -1 ELSE entries[1].mXCode

lookupKey(key) ==
    LET entries == UnicodeToXKeyTable[key % HASH_BUCKET_COUNT]
        matching == {i \in DOMAIN entries : entries[i].mUCode = key}
    IN  IF matching = {} THEN -1 ELSE entries[Min(matching)].mXCode

unicodeToXKeyCode(unicode) == lookupKey(unicode)

-----------------------------------------------------------------------------
(* Strings of UTF-8 *)

(* The byte at offset ofs; a string ends with a zero. *)
At(str, ofs) == IF ofs < Len(str) THEN str[ofs + 1] ELSE 0

NoChar(ofs) == [char |-> -1, ofs |-> ofs]
readUtf8Char(str, ofs) ==
    LET c0 == At(str, ofs)
        c(i) == At(str, ofs + i) % 64
        Read(char, bytes) == [char |-> char, ofs |-> ofs + bytes]
    IN  CASE c0 = 0           -> NoChar(ofs)
          [] c0 \in 1..127    -> Read(c0, 1)
          [] c0 \in 192..223  -> Read((c0 % 32) * 64 + c(1), 2)
          [] c0 \in 224..239  -> Read((c0 % 16) * 4096 + c(1) * 64 + c(2), 3)
          [] c0 \in 240..247  -> Read((c0 % 8) * 262144 + c(1) * 4096 + c(2) * 64 + c(3), 4)
          [] OTHER            -> NoChar(ofs)

(* The keysyms of the characters that have one; none at all, and -1 as the  *)
(* count, if the buffer is too small.                                      *)
utf8CharsToXKeys(chars, bufSize) ==
    LET keysymOf(char) ==
          LET xkey == unicodeToXKeyCode(char) IN IF xkey = -1 THEN <<>> ELSE <<xkey>>
        from[ofs \in 0..Len(chars)] ==
          LET read == readUtf8Char(chars, ofs)
          IN  IF read.char = -1 THEN <<>> ELSE keysymOf(read.char) \o from[read.ofs]
    IN  IF Len(from[0]) > bufSize THEN [count |-> -1, xkeys |-> SubSeq(from[0], 1, bufSize)]
        ELSE [count |-> Len(from[0]), xkeys |-> from[0]]

-----------------------------------------------------------------------------
(* Android *)

AndroidKeys == {"KEYCODE_A", "KEYCODE_SHIFT_LEFT", "KEYCODE_SYM"}

androidKeyEventToXKeyCode(keycode, shift) ==
    CASE keycode = "KEYCODE_A"          -> IF shift THEN 65 ELSE 97
      [] keycode = "KEYCODE_SHIFT_LEFT" -> XK_Shift
      [] OTHER                          -> -1

(* The keysym of a key that is pressed or released. *)
androidKeysym(keycode, shift, unicodeChar) ==
    LET xkey == unicodeToXKeyCode(unicodeChar)
    IN  IF unicodeChar # 0 /\ xkey # -1 THEN xkey ELSE androidKeyEventToXKeyCode(keycode, shift)
=============================================================================
