SPECIFICATION Spec
CONSTANTS
    Subjects = {admin, u1}
    Admin = admin
    Users = {u1}
    None = None
    MaxTokens = 2
    MaxLegacy = 2
    Slots = {s1, s2}
SYMMETRY Symmetry
INVARIANTS UserHasRights RightsGoWithUser TokenHasGrant MigrationKeepsRights
