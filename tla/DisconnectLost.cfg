SPECIFICATION FairSpec
CONSTANTS
    MaxConnects = 1
    MaxInputs = 0
    Passwords = {}
    NoPassword = NoPassword
    Calls <- CallsReconnect
    ViewOnlyOptions = {FALSE}
    MbedTls = FALSE
    SelectFails = FALSE
PROPERTIES
    DisconnectAnswered
