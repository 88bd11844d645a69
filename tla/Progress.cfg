SPECIFICATION FairSpec
CONSTANTS
    MaxConnects = 2
    MaxInputs = 1
    Passwords = {}
    NoPassword = NoPassword
    Calls <- CallsProgress
    ViewOnlyOptions = {FALSE}
    MbedTls = TRUE
    SelectFails = FALSE
INVARIANTS
    NothingOwedAsleep
PROPERTIES
    ConstructorReturns
    DisconnectServed
    AttemptsEnd
    ConnectAnswered
    DestroyReturns
