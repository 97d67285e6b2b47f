SPECIFICATION FairSpec
CONSTANTS
    Apps = {p1, p2}
    Images = {i1, i2}
    Secrets = {s1, s2}
    NoVar = NoVar
    Ref = Ref
    MaxUpsets = 3
PROPERTIES FittingKept ForeignSpared EventuallyReconciled
CHECK_DEADLOCK FALSE
