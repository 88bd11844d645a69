-------------------------------- MODULE OrvWidget --------------------------------
(***************************************************************************)
(* Keyboard and mouse: the user presses and releases keys and buttons, the *)
(* application (OrvWidget of the Qt client, or an Android application) has *)
(* each event sent as a keysym or a button mask, and the server holds what *)
(* it was told to hold until it is told otherwise.  The connection may end *)
(* and be made again at any time; the user sees and hears of it later.     *)
(***************************************************************************)
EXTENDS Keys, FiniteSets

CONSTANTS
    Keyboards,          \* keyboards, of which one is used: sets of keys
    Buttons,            \* mouse buttons
    Texts,              \* texts an input method enters at once: sequences of characters
    Encode(_),          \* a text in UTF-8
    Buffer              \* size of the buffer for their keysyms (256)

ASSUME OrvWidgetAssumption == Keyboards \subseteq SUBSET QtKeys /\ Buffer \in Nat

VARIABLES
    platform,
    keyboard,
    connected,          \* the library's state is Connected
    shown,              \* the widget is shown
    focused,            \* and has the focus
    fingers,            \* keys the user holds down
    buttons,            \* mouse buttons the user holds down
    mSentKeysmsForKeyPress,
    down,               \* keysyms that are pressed at the server of this connection
    mask,               \* buttons and wheels that are pressed there
    pressedAs,          \* history: the Qt::Key of the last press, of keys held down
    forgotten,          \* history: pressed keysyms the table does not lead to any more
    unseen,             \* history: those of keys that were released elsewhere
    typed               \* history: the text, and the events sent for it

connectionVars == <<platform, keyboard, connected, shown, focused>>
userVars == <<fingers, buttons>>
tableVars == <<mSentKeysmsForKeyPress, pressedAs, forgotten, unseen>>
vars == <<connectionVars, userVars, tableVars, down, mask, typed>>

Mac == platform = "mac"
ShiftHeld == {"Shift", "KEYCODE_SHIFT_LEFT"} \cap fingers # {}

Init ==
    /\ platform \in {"other", "mac", "android"} /\ keyboard \in Keyboards
    /\ connected = FALSE /\ shown = FALSE /\ focused = FALSE
    /\ fingers = {} /\ buttons = {}
    /\ mSentKeysmsForKeyPress = <<>> /\ pressedAs = <<>>
    /\ down = {} /\ mask = {} /\ forgotten = {} /\ unseen = {}
    /\ typed = [text |-> <<>>, events |-> <<>>]

-----------------------------------------------------------------------------
(* The connection *)

(* The application connects from another page. *)
Connect ==
    /\ ~connected /\ ~shown
    /\ connected' = TRUE
    /\ UNCHANGED <<platform, keyboard, shown, focused, userVars, tableVars, down, mask, typed>>

(* Nothing is held at the next server. *)
Disconnect ==
    /\ connected
    /\ connected' = FALSE /\ down' = {} /\ mask' = {} /\ forgotten' = {} /\ unseen' = {}
    /\ UNCHANGED <<platform, keyboard, shown, focused, userVars, mSentKeysmsForKeyPress, pressedAs, typed>>

(* The page of the desktop is shown when the result of the connection is    *)
(* handled, and left when its end is.                                      *)
ShowDesktop ==
    /\ connected # shown
    /\ shown' = connected /\ focused' = connected
    /\ UNCHANGED <<platform, keyboard, connected, userVars, tableVars, down, mask, typed>>

(* To another widget or window, and back: there is no focusOutEvent(). *)
FocusChanges ==
    /\ shown
    /\ focused' = ~focused
    /\ UNCHANGED <<platform, keyboard, connected, shown, userVars, tableVars, down, mask, typed>>

(* What is held after key events, pairs of isDown and a keysym: the last    *)
(* event of a keysym counts.                                               *)
HeldAfter(held, events) ==
    {keysym \in held : \A i \in DOMAIN events : events[i][2] # keysym}
    \cup {events[i][2] : i \in {j \in DOMAIN events :
            events[j][1] /\ \A k \in DOMAIN events : k > j => events[k][2] # events[j][2]}}

(* The events are queued: the library takes them while it is connected.     *)
orv_send_key_event(events) ==
    down' = IF connected THEN HeldAfter(down, events) ELSE down

orv_send_pointer_event(masks) ==
    mask' = IF connected THEN Last(masks) ELSE mask

-----------------------------------------------------------------------------
(* OrvWidget *)

QtKeyboard == platform # "android"

(* Key events go to the widget with the focus. *)
HasFocus == shown /\ focused

WithKey(sent, key, keysym) ==
    [k \in {key} \cup DOMAIN sent |-> IF k = key THEN keysym ELSE sent[k]]
Event(isDown, keysym) == IF keysym = NoKeysym THEN <<>> ELSE << <<isDown, keysym>> >>

(* What the handlers make of the table, and the events they send; key is    *)
(* the Qt::Key.                                                            *)
Pressed(sent, key, keysym) ==
    <<IF keysym = NoKeysym THEN sent ELSE WithKey(sent, key, keysym), Event(TRUE, keysym)>>

(* Faulty: the keysym is that of the keys held now. *)
Released_AsHeldNow(sent, key, keysymNow) == <<sent, Event(FALSE, keysymNow)>>

(* The keysym that was sent for the press, if there was one.  On the Mac    *)
(* the command key releases whatever is in the table.                      *)
Released(sent, key, keysymNow) ==
    LET keysym == IF key \in DOMAIN sent THEN sent[key] ELSE keysymNow
        kept == IF keysym = NoKeysym THEN sent ELSE WithKey(sent, key, keysym)
        fakes == SetToSeq({<<FALSE, kept[k]>> : k \in DOMAIN kept})
    IN  IF Mac /\ key = "Control" THEN << <<>>, Event(FALSE, keysym) \o fakes >>
        ELSE <<kept, Event(FALSE, keysym)>>

Handle(handled) ==
    /\ mSentKeysmsForKeyPress' = handled[1]
    /\ orv_send_key_event(handled[2])

KeysymNow(key, shift, text) == orv_qt_key_to_keysym(keyOf(key, shift), shift, onKeypad(key), text, Mac)
TextOf(key, shift) == {NoText, textOf(key, shift)}

(* History: the table leads to some keysyms no more, and to others again. *)
Forget(keysyms, recorded) ==
    /\ forgotten' = ((forgotten \cup (keysyms \ unseen)) \cap down') \ recorded
    /\ unseen' = (unseen \cap down') \ recorded

EntryOf(name) == {mSentKeysmsForKeyPress[n] : n \in {name} \cap DOMAIN mSentKeysmsForKeyPress}

(* The entry of a key that was pressed as another Qt::Key than this one. *)
EntryLeft(key, name) ==
    UNION {EntryOf(pressedAs[k]) : k \in {k \in {key} \cap DOMAIN pressedAs : pressedAs[k] # name}}

keyPressEvent ==
    /\ QtKeyboard /\ HasFocus
    /\ \E key \in keyboard \ fingers :
          /\ fingers' = fingers \cup {key}
          /\ \E text \in TextOf(key, ShiftHeld) :
                LET name == keyOf(key, ShiftHeld)
                    keysym == KeysymNow(key, ShiftHeld, text)
                IN  /\ Handle(Pressed(mSentKeysmsForKeyPress, name, keysym))
                    /\ pressedAs' = WithKey(pressedAs, key, name)
                    /\ Forget(IF keysym = NoKeysym THEN {} ELSE EntryOf(name), {keysym} \ {NoKeysym})
    /\ UNCHANGED <<connectionVars, buttons, mask, typed>>

LiftFinger(key) ==
    /\ fingers' = fingers \ {key}
    /\ pressedAs' = [k \in DOMAIN pressedAs \ {key} |-> pressedAs[k]]

(* Qt on the Mac does not tell of keys that are released while the command  *)
(* key is held.                                                            *)
keyReleaseEvent ==
    /\ QtKeyboard /\ HasFocus
    /\ \E key \in fingers :
          /\ LiftFinger(key)
          /\ IF Mac /\ key # "Control" /\ "Control" \in fingers
             THEN UNCHANGED <<mSentKeysmsForKeyPress, down, forgotten, unseen>>
             ELSE \E text \in TextOf(key, ShiftHeld) :
                    LET name == keyOf(key, ShiftHeld)
                    IN  /\ Handle(Released(mSentKeysmsForKeyPress, name, KeysymNow(key, ShiftHeld, text)))
                        /\ Forget(EntryLeft(key, name), {})
    /\ UNCHANGED <<connectionVars, buttons, mask, typed>>

(* A key that repeats is released and pressed again by Qt. *)
AutoRepeat ==
    /\ platform = "other" /\ HasFocus
    /\ \E key \in fingers :
          \E text \in TextOf(key, ShiftHeld) :
             LET name == keyOf(key, ShiftHeld)
                 now == KeysymNow(key, ShiftHeld, text)
                 released == Released(mSentKeysmsForKeyPress, name, now)
                 pressed == Pressed(released[1], name, now)
             IN  /\ Handle(<<pressed[1], released[2] \o pressed[2]>>)
                 /\ pressedAs' = WithKey(pressedAs, key, name)
                 /\ Forget(EntryLeft(key, name), {now} \ {NoKeysym})
    /\ UNCHANGED <<connectionVars, userVars, mask, typed>>

(* While another widget or window has the focus. *)
PressUnseen ==
    /\ ~HasFocus
    /\ \E key \in (IF QtKeyboard THEN keyboard ELSE AndroidKeys) \ fingers :
          fingers' = fingers \cup {key}
    /\ UNCHANGED <<connectionVars, buttons, tableVars, down, mask, typed>>

(* The widget never hears of it, nor, on the Mac, of those released before. *)
ReleaseUnseen ==
    /\ ~HasFocus
    /\ \E key \in fingers :
          /\ LiftFinger(key)
          /\ LET names == IF Mac /\ "Control" = key THEN DOMAIN mSentKeysmsForKeyPress
                          ELSE {pressedAs[k] : k \in {key} \cap DOMAIN pressedAs}
             IN  unseen' = unseen \cup (down \cap UNION {EntryOf(name) : name \in names})
    /\ UNCHANGED <<connectionVars, buttons, mSentKeysmsForKeyPress, forgotten, down, mask, typed>>

(* A button that is pressed on the widget is released there. *)
ButtonUnseen ==
    /\ ~shown
    /\ \E b \in buttons : buttons' = buttons \ {b}
    /\ UNCHANGED <<connectionVars, fingers, tableVars, down, mask, typed>>

mousePressEvent ==
    /\ QtKeyboard /\ shown
    /\ \E b \in Buttons \ buttons : buttons' = buttons \cup {b}
    /\ orv_send_pointer_event(<<buttons'>>)
    /\ UNCHANGED <<connectionVars, fingers, tableVars, down, typed>>

mouseReleaseEvent ==
    /\ QtKeyboard /\ shown
    /\ \E b \in buttons : buttons' = buttons \ {b}
    /\ orv_send_pointer_event(<<buttons'>>)
    /\ UNCHANGED <<connectionVars, fingers, tableVars, down, typed>>

mouseMoveEvent ==
    /\ QtKeyboard /\ shown
    /\ orv_send_pointer_event(<<buttons>>)
    /\ UNCHANGED <<connectionVars, userVars, tableVars, down, typed>>

wheelEvents == << buttons \cup {"wheel"}, buttons >>

wheelEvent ==
    /\ QtKeyboard /\ shown
    /\ orv_send_pointer_event(wheelEvents)
    /\ UNCHANGED <<connectionVars, userVars, tableVars, down, typed>>

-----------------------------------------------------------------------------
(* Android *)

UnicodeOf(key, shift) == IF key = "KEYCODE_A" THEN {0, textOf("A", shift)} ELSE {0}
AndroidEvent(isDown, xkey) == IF xkey = -1 THEN <<>> ELSE << <<isDown, xkey>> >>

orv_android_on_key_down ==
    /\ ~QtKeyboard /\ HasFocus
    /\ \E key \in AndroidKeys \ fingers :
          /\ fingers' = fingers \cup {key}
          /\ \E unicodeChar \in UnicodeOf(key, ShiftHeld) :
                orv_send_key_event(AndroidEvent(TRUE, androidKeysym(key, ShiftHeld, unicodeChar)))
    /\ UNCHANGED <<connectionVars, buttons, tableVars, mask, typed>>

orv_android_on_key_up ==
    /\ ~QtKeyboard /\ HasFocus
    /\ \E key \in fingers :
          /\ fingers' = fingers \ {key}
          /\ \E unicodeChar \in UnicodeOf(key, ShiftHeld) :
                orv_send_key_event(AndroidEvent(FALSE, androidKeysym(key, ShiftHeld, unicodeChar)))
    /\ UNCHANGED <<connectionVars, buttons, tableVars, mask, typed>>

PressAndRelease(xkeys) ==
    FlattenSeq([i \in DOMAIN xkeys |-> << <<TRUE, xkeys[i]>>, <<FALSE, xkeys[i]>> >>])

(* Bound: one text, since the function keeps no state. *)
orv_android_on_key_multiple ==
    /\ ~QtKeyboard /\ HasFocus /\ typed.text = <<>>
    /\ \E text \in Texts :
          LET read == utf8CharsToXKeys(Encode(text), Buffer)
              events == IF read.count = -1 THEN <<>> ELSE PressAndRelease(read.xkeys)
          IN  /\ orv_send_key_event(events)
              /\ typed' = [text |-> text, events |-> events]
    /\ UNCHANGED <<connectionVars, userVars, tableVars, mask>>

Next ==
    \/ Connect \/ Disconnect \/ ShowDesktop \/ FocusChanges
    \/ keyPressEvent \/ keyReleaseEvent \/ AutoRepeat
    \/ PressUnseen \/ ReleaseUnseen \/ ButtonUnseen
    \/ mousePressEvent \/ mouseReleaseEvent \/ mouseMoveEvent \/ wheelEvent
    \/ orv_android_on_key_down \/ orv_android_on_key_up \/ orv_android_on_key_multiple

Spec == Init /\ [][Next]_vars

-----------------------------------------------------------------------------
(* Properties *)

(* A keysym that a key may be sent as, when it goes by a name. *)
IsKeysymOf(keysym, key, name) ==
    /\ keysym # NoKeysym
    /\ \E shift \in BOOLEAN :
          /\ name = keyOf(key, shift)
          /\ \E text \in TextOf(key, shift) : keysym = KeysymNow(key, shift, text)

NamesOf(key) == {keyOf(key, shift) : shift \in BOOLEAN}

(* Whatever is held, the key is one Qt::Key, and no other key is. *)
HasOwnName(key) ==
    /\ keyOf(key, TRUE) = keyOf(key, FALSE)
    /\ \A other \in keyboard \ {key} : NamesOf(other) \cap NamesOf(key) = {}

KeepsOwnNames ==
    platform = "other" =>
        \A keysym \in forgotten, key \in keyboard :
            HasOwnName(key) => ~IsKeysymOf(keysym, key, keyOf(key, FALSE))

(* What is pressed at the server is let go with the last key the user lets  *)
(* go of, whatever other keys and modifiers were pressed and released in   *)
(* between, and a button is pressed there only as long as the user holds   *)
(* it: keyPressEvent() and keyReleaseEvent() of OrvWidget.  The table of   *)
(* what was sent is indexed by Qt::Key, so there are exceptions: keysyms   *)
(* the table has lost (forgotten), none of them of a key with a Qt::Key of *)
(* its own, but on the Mac, where the releases that Qt does not tell of    *)
(* may lose any; and keysyms of keys let go of where the widget does not   *)
(* have the focus (unseen), until they are released by another press.      *)
(* (Android applications release what the modifiers at the release make of *)
(* a key: the property does not speak of them.)                            *)
NothingStuck ==
    /\ QtKeyboard /\ connected =>
          /\ fingers = {} => down \subseteq forgotten \cup unseen
          /\ mask \subseteq buttons
    /\ KeepsOwnNames

(* The events of a text are presses and releases of its characters, in      *)
(* order; characters without a keysym are left out, and a text with more   *)
(* keysyms than the buffer holds is left out whole.                        *)
Keysyms(text) ==
    LET named(c) == {i \in DOMAIN xkey_defs : xkey_defs[i].mUCode = c}
    IN  [i \in DOMAIN SelectSeq(text, LAMBDA c : named(c) # {}) |->
            xkey_defs[Min(named(SelectSeq(text, LAMBDA c : named(c) # {})[i]))].mXCode]

TextTyped ==
    typed.events = IF Len(Keysyms(typed.text)) > Buffer THEN <<>>
                   ELSE PressAndRelease(Keysyms(typed.text))

-----------------------------------------------------------------------------
(* The inductive invariant behind NothingStuck. *)

TypeOK ==
    /\ platform \in {"other", "mac", "android"} /\ keyboard \in Keyboards
    /\ connected \in BOOLEAN /\ shown \in BOOLEAN /\ focused \in BOOLEAN
    /\ fingers \subseteq (IF QtKeyboard THEN keyboard ELSE AndroidKeys)
    /\ buttons \subseteq Buttons

(* An entry is a keysym of a key that goes by its name. *)
TableOK ==
    \A name \in DOMAIN mSentKeysmsForKeyPress :
        \E key \in keyboard : IsKeysymOf(mSentKeysmsForKeyPress[name], key, name)

NamesOK ==
    /\ DOMAIN pressedAs \subseteq fingers
    /\ \A key \in DOMAIN pressedAs : key \in keyboard /\ pressedAs[key] \in NamesOf(key)

(* The entries of the table that may be pressed at the server: on the Mac,  *)
(* while the command key is held, also those of keys that were let go.     *)
Pressing ==
    IF Mac /\ "Control" \in fingers THEN DOMAIN mSentKeysmsForKeyPress
    ELSE {pressedAs[key] : key \in DOMAIN pressedAs} \cap DOMAIN mSentKeysmsForKeyPress

HeldByTable ==
    QtKeyboard =>
        \A keysym \in (down \ forgotten) \ unseen :
            \E name \in Pressing : mSentKeysmsForKeyPress[name] = keysym

NothingHeldUnseen == ~(connected /\ shown) => down = {} /\ mask = {}

KeyInv ==
    /\ TypeOK /\ TableOK /\ NamesOK /\ HeldByTable /\ NothingHeldUnseen /\ KeepsOwnNames
    /\ mask \subseteq buttons
=============================================================================
