SPECIFICATION Spec
CONSTANTS
    Keys = {"a", "b"}
    MaxRepetitions = 2
    Missing = Missing
    Torn = Torn
    Configs <- Everything
    Bank <- MCBank
    Items <- MCItems
    MultiTurn = {"q25"}
    Tasks <- MCTasks
    CANONICAL_TASKS <- MCCanonical
    MaxFaults = 2
    TornWrites = TRUE
INVARIANTS
    ResultsComplete
    ProgressIsExact
    ReportIsCurrent
    ExportValidates
    RetryableIsReplayed
PROPERTIES
    FinishedNeverRewritten
