SPECIFICATION Spec
CONSTANTS
    MaxConnects = 2
    MaxInputs = 2
    Passwords = {}
    NoPassword = NoPassword
    Calls <- CallsTraffic
    ViewOnlyOptions = {FALSE}
    MbedTls = TRUE
    SelectFails = TRUE
INVARIANTS
    SafetyInv
    InputsInLine
    ResponseFlagHonest
