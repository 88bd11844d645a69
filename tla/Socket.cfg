CONSTANTS
    RecordSize = 3
    MaxArrived = 2
    MaxSpace = 1
    Timeout = 2
    MaxBytes = 2
SPECIFICATION FairSpec
INVARIANTS IdleBounded WakesForProgress
PROPERTIES TimesOutOnlyWhenStuck CallReturns DisconnectEndsCall
