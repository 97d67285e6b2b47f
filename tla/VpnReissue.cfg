SPECIFICATION Spec
CONSTANTS
    MaxIp = 4
    NodeKeys = {a1, a2, a3}
    ClientKeys = {}
    WgMayFail = TRUE
    Names = {n1, n2}
    NoName = NoName
    MaxJoins = 3
    Labels = {}
    NoLabel = NoLabel
    NoKey = NoKey
    Slots = {}
    Sweeper = Sweeper
    MaxConns = 0
    MaxRestarts = 1
    MaxFaults = 0
    Lower <- MCLower
    LastPart <- MCLastPart
    MasterName = MasterName
    OwnName = MasterName
CHECK_DEADLOCK FALSE
INVARIANT TakenAddressNotReissued
