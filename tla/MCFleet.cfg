SPECIFICATION FleetSpec
CONSTANTS
    Users = {u1, u2}
    None = None
    Weights = {}
    Penalties = {}
    U32Max = 1
    MaxFleetId = 2
    IdentityAddress = identity
    ContractAddresses = {identity, other}
SYMMETRY UserSymmetry
CONSTRAINT IdentityUnadministered
CHECK_DEADLOCK FALSE
INVARIANTS
    FleetTypeOK
    ActiveDriversCounted
    FleetIdsAreGapless
PROPERTIES
    PayoutsMoveByConsent
    OwnersGetProfiles
    KeepsCharter
