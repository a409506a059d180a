SPECIFICATION Spec
CONSTANTS
    MaxErrors = 3
    Keys = {"a", "b"}
    PilotIds = {"q32", "q33"}
    MaxAttempts = 2
    PilotConfigs <- TwoConfigs
    Turns <- OneTurn
    Tests <- OnePass
    Edits <- FewEdits
    MaxPack = 1
    MaxFaults = 1
    Missing = Missing
    Partial = Partial
    Torn = Torn
INVARIANTS
    AbandonedStaysPartial
    
    SuccessCoversRequest
PROPERTIES
    SummaryKeepsIdentity
