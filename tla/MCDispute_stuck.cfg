SPECIFICATION DeployedSpec
CONSTANTS
    Users = {u1, u2}
    EscrowAddress = escrow
    Tokens = {token}
    MaxDeliveryId = 1
    None = None
    Amounts = {10}
    TransferAmounts = {}
    InitFees = {1000}
    NewFees = {}
    Shares = {5000}
    I128Max = 1000000
    InitialBalance = 10
    MaxTime = 2
    TimeLimits = {1}
    U64Max = 2
    MaxEvidence = 1
SYMMETRY UserSymmetry
CHECK_DEADLOCK FALSE
INVARIANT
    DisputedDeliveryCanClose
