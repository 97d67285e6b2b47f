SPECIFICATION FairSpec
CONSTANTS
    Masters = {m1, m2, m3}
    First = m1
    Keys = {k1, k2}
    Allowed = {k1}
    MaxWrites = 2
INVARIANTS SpacedWritesReplicate
PROPERTIES LocalTreesStay PushesEnd
CHECK_DEADLOCK FALSE
