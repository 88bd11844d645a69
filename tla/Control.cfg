SPECIFICATION Spec
CONSTANTS
    MaxConnects = 3
    MaxInputs = 0
    Passwords = {"password"}
    NoPassword = NoPassword
    Calls <- CallsLifecycle
    ViewOnlyOptions = {FALSE, TRUE}
    MbedTls = TRUE
    SelectFails = TRUE
INVARIANTS
    TypeOK
    DisconnectWakes
    ConnectWakes
    NoInternalError
    StateMatchesStage
    PasswordForgotten
PROPERTIES
    EventsInOrder
    ConnectionAsSeen
