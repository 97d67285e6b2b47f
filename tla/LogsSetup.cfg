SPECIFICATION FairSpec
CONSTANTS
    MaxSetups = 2
    Readers = {"agent"}
    MaxCalls = 2
    MaxFaults = 1
    MaxIds = 1
    MaxLines = 1
    MaxItem = 1
    MaxBatch = 1
    MaxBuf = 1
INVARIANTS SamePassword
PROPERTIES StaleConfigCleared LinesArrive
CHECK_DEADLOCK FALSE
