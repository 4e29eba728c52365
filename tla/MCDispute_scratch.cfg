SPECIFICATION Spec
CONSTANTS
    Users = {u1, u2}
    EscrowAddress = escrow
    Tokens = {token}
    MaxDeliveryId = 1
    None = None
    Amounts <- MCAmounts
    TransferAmounts = {}
    InitFees = {1000}
    NewFees = {}
    Shares = {5000}
    I128Max = 1000000
    InitialBalance = 10
    MaxTime = 0
    TimeLimits = {1}
    U64Max = 2
    MaxEvidence = 1
SYMMETRY UserSymmetry
CHECK_DEADLOCK FALSE
INVARIANTS
    TypeOK
    StatusAgreement
    CaseFreezesEscrow
    CaseOutcomeMatchesEscrow
PROPERTIES
    EndsMoveMoney
    VerdictsMoveMoney
    VerdictsAreFinal
    DisputeBlocksConfirmation
