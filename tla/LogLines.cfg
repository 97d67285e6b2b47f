SPECIFICATION Spec
CONSTANTS
    MaxSetups = 1
    Readers = {"agent"}
    MaxCalls = 1
    MaxFaults = 2
    MaxIds = 2
    MaxLines = 3
    MaxItem = 2
    MaxBatch = 2
    MaxBuf = 2
INVARIANTS CursorPassesStored CopiesNeedDoubt BufferBounded
CONSTRAINT GeneratedPasswords
CHECK_DEADLOCK FALSE
