SPECIFICATION Spec
CONSTANTS
    Masters = {m1, m2}
    Rotating = {m1}
    Secrets = {s1, s2}
    FirstSecret = s1
    Default = default
    Named = {c1, c2}
    NoDek = NoDek
    MaxStarts = 3
    MaxPushes = 1
    MaxFaults = 1
INVARIANTS SecretsRecoverable ListedConfigsHaveKeys
PROPERTIES DefaultKeptWhileAnyOpens ReadableAfterStart
CONSTRAINTS PostsApart FaultsApart
SYMMETRY Symmetry
CHECK_DEADLOCK FALSE
