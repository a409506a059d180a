SPECIFICATION FairSpec
CONSTANTS
    MaxErrors = 5
    MaxLines = 5
    Polls = 4
INVARIANTS
    ScanIsExact
    ReturnsTurnResult
PROPERTY AlwaysReturns
