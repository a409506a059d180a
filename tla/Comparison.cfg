SPECIFICATION ComparisonSpec
CONSTANTS
    None = None
    Kinds <- MCKinds
    Body <- MCBody
    Queries <- MCQueries
    Thresholds <- MCThresholds
    ExactPairs = 6
    Sampled <- MCSampled
    MaxBundles = 7
CHECK_DEADLOCK FALSE
INVARIANTS
    DirectionIsEarned
    AnswersAreConsistent
