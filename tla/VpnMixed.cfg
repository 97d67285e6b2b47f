SPECIFICATION FairSpec
CONSTANTS
    MaxIp = 3
    NodeKeys = {a1}
    ClientKeys = {c1, c2}
    WgMayFail = FALSE
    Names = {n1}
    NoName = NoName
    MaxJoins = 1
    Labels = {l1}
    NoLabel = NoLabel
    NoKey = NoKey
    Slots = {r1, r2}
    Sweeper = Sweeper
    MaxConns = 2
    MaxRestarts = 1
    MaxFaults = 1
    Lower <- MCLower
    LastPart <- MCLastPart
    MasterName = MasterName
    OwnName = MasterName
INVARIANTS AddressesUnique OneConnectionPerLabel DnsFindsConnection
PROPERTIES PinPermanent SilentConnectionRemoved
CONSTRAINT FewOverlaps
CHECK_DEADLOCK FALSE
