SPECIFICATION Spec
CONSTANTS
    Keyboards = {{"Shift", "Control", "A"}, {"Shift", "Control", "Tab"}, {"Shift", "A", "Tab"},
                 {"Control", "Home", "KP_Home"}, {"Shift", "1"}, {"A", "Es"}}
    Buttons = {"left"}
    Texts <- ShortTexts
    Encode <- Utf8
    Buffer = 2
INVARIANTS
    NothingStuck
    TextTyped
