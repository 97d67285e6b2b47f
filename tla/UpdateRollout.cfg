SPECIFICATION FairSpec
CONSTANTS
    Agents = {a1, a2}
    SkipVerify = {a1}
    MaxVersion = 2
    MaxJoins = 2
    MaxRestarts = 1
INVARIANTS RolloutReachedAgents
PROPERTIES RolloutEnds
CHECK_DEADLOCK FALSE
