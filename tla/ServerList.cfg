SPECIFICATION Spec
CONSTANTS
    Hosts = {"localhost"}
    Passwords = {"secret"}
    Empty = ""
    EditedFiles <- HandWritten
    MaxServerId = 3
INVARIANTS
    IdsResolve
    ListSurvives
PROPERTIES
    PasswordsInFile
    RemovalsAnnounced
