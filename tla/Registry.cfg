SPECIFICATION Spec
CONSTANTS
    Tags = {t1, t2}
    Manifests = {m1, m2}
    None = None
    Uploads = {u1, u2}
    Chunks = {x}
    MaxLen = 1
    MaxGens = 2
    Slots = {s1, s2}
CONSTRAINT OneHalf
SYMMETRY Symmetry
INVARIANTS TagsResolve LastTagTakesManifest AnsweredStored
