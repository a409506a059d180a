SPECIFICATION Spec
CONSTANTS
    Tasks <- MCTaskList
    Authored <- MCAuthored
    Messages = 2
    Modes = {"none", "macos_seatbelt"}
    Hosts <- MCHosts
    Repeats = 2
    Backends = {"codex_cli", "opencode_cli", "pi_cli"}
    RawTurns <- MCRawTurns
    MaxRuns = 2
    MaxFaults = 2
    Missing = Missing
    Torn = Torn
INVARIANTS
    EvidenceOfOneRun
    GradeIsWhole
    BoundaryHolds
    RatesAreExact
PROPERTIES
    ImplementsLedger
