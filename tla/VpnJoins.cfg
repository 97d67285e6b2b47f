SPECIFICATION Spec
CONSTANTS
    MaxIp = 4
    NodeKeys = {a1, a2, a3}
    ClientKeys = {}
    WgMayFail = TRUE
    Names = {n1, n2}
    NoName = NoName
    MaxJoins = 3
    Labels = {}
    NoLabel = NoLabel
    NoKey = NoKey
    Slots = {}
    Sweeper = Sweeper
    MaxConns = 0
    MaxRestarts = 1
    MaxFaults = 1
    Lower <- MCLower
    LastPart <- MCLastPart
    MasterName = MasterName
    OwnName = MasterName
SYMMETRY Symmetry
INVARIANTS WgRoutesOwners TokenAuthorised AgentTokenStored
PROPERTIES AddressKept LeaseImplemented
CHECK_DEADLOCK FALSE
