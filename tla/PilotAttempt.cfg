SPECIFICATION Spec
CONSTANTS
    MaxErrors = 3
    Keys = {"a"}
    PilotIds = {"q32"}
    MaxAttempts = 1
    PilotConfigs <- OneModel
    Turns <- AllTurns
    Tests <- AllTests
    Edits <- AllEdits
    MaxPack = 0
    MaxFaults = 2
    Missing = Missing
    Partial = Partial
    Torn = Torn
INVARIANTS
    ApprovalIsEarned
    SummaryIsAnalyzable
    SummaryIsExportable
