SPECIFICATION Spec
CONSTANTS
    None = None
    Kinds <- MCKinds
    Body <- MCBody
    Installed <- MCInstalled
    Available <- MCAvailable
    Options <- MCOptions
    Repetitions = 5
    Draws <- MCDraws
    MaxCollected = 2
    MaxRuns = 3
CHECK_DEADLOCK FALSE
INVARIANTS
    TablesAgree
    HoldoutIsSound
PROPERTIES
    FocusedRunsPool
