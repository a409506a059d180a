SPECIFICATION FairSpec
CONSTANTS
    Keys = {"a", "b"}
    MaxRepetitions = 2
    Missing = Missing
    Torn = Torn
    Configs <- Agents
    Bank <- MCBank
    Items <- MCItems
    MultiTurn = {"q25"}
    Tasks <- MCTasks
    CANONICAL_TASKS <- MCCanonical
    MaxFaults = 2
    TornWrites = FALSE
PROPERTY EventuallyComplete
