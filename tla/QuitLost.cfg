SPECIFICATION Spec
CONSTANTS
    MaxConnects = 1
    MaxInputs = 1
    Passwords = {}
    NoPassword = NoPassword
    Calls <- CallsQuitLost
    ViewOnlyOptions = {FALSE}
    MbedTls = FALSE
    SelectFails = FALSE
INVARIANTS
    AbortWakes
