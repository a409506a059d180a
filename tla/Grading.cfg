SPECIFICATION Spec
CONSTANTS
    Tasks <- MCTasks
    MaxRelease = 1
    MaxKills = 1
    Submissions <- MCSubmissions
    Suite <- MCSuite
    Untouched <- MCUntouched
    Missing = Missing
    Torn = Torn
INVARIANTS
    BaselineIsCurrent
    GenuineIsNotForged
    PassIsEarned
    VerdictsAgree
