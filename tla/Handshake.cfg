SPECIFICATION FairSpec
CONSTANTS
    Announced <- AllVersions
    OldTypes <- AllOldTypes
    TypeLists <- AllTypeLists
    TunnelLists <- AllTunnelLists
    AuthLists <- AllAuthLists
    SubTypeLists <- AllSubTypeLists
    EmptyTight = FALSE
    TextLengths = {0, 1, 3}
    MaxLength = 2
    EncodingCounts = {0, 2, 3}
    MaxEncodings = 2
    MaxTunnels = 2
    MaxAuths = 2
    ServerFormats <- AllFormats
    BadFormats <- UnknownFormats
    CustomFormats <- AllCustomFormats
    Sizes <- AllSizes
    MaxMemory = 1024
    Results = {0, 1, 2, 3}
    SpeaksFirst = TRUE
    HaveMbedTls = TRUE
    HaveOpenSSL = TRUE
    MaxAttempts = 2
INVARIANTS
    InStep
    Agreement
    FailureExplained
PROPERTIES
    AttemptEnds
