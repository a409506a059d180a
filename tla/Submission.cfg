SPECIFICATION FairSpec
CONSTANTS
    Owner = o
    Contributors = {c}
    Bundles = {x, y}
    MaxFaults = 1
    Missing = Missing
INVARIANTS
    PullIsOneFile
PROPERTIES
    NotReadyIsRetryable
