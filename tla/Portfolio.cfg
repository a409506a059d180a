SPECIFICATION PortfolioSpec
CONSTANTS
    PILOT_IDS = {p1, p2}
    Configurations = {c1, c2}
    RunDirs = {d1, d2}
    None = None
    MIN_SHARED_SCENARIOS = 1
    MIN_COMPLETE_REPEATS = 2
    MaxVersion = 2
    MaxPerCell = 2
    MaxRefused = 1
SYMMETRY MCSymmetry
INVARIANTS
    PlanAgreesWithPairs
    VerdictIsExplained
PROPERTIES
    PlanIsLowerBound
