SPECIFICATION FairSpec
CONSTANTS
    SelectFails = FALSE
    MaxAttempts = 2
    MaxPosted = 2
INVARIANTS
    ShownWhileUp
    UpdatesKeepComing
    TesterMenuHonest
PROPERTIES
    AbortLeadsBack
