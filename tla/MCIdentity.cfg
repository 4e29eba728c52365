SPECIFICATION IdentitySpec
CONSTANTS
    Users = {u1, u2}
    None = None
    Weights = {5000, 5001}
    Penalties = {7, 60}
    U32Max = 6
SYMMETRY UserSymmetry
CONSTRAINT OneDriverReported
CHECK_DEADLOCK FALSE
INVARIANTS
    IdentityTypeOK
    TierIsEarned
    ScoresNeedReporters
PROPERTIES
    ProfilesPersist
