SPECIFICATION EscrowSpec
CONSTANTS
    Users = {u1, u2, u3}
    EscrowAddress = escrow
    Tokens = {token}
    MaxDeliveryId = 1
    None = None
    Amounts <- MCAmounts
    TransferAmounts = {10}
    InitFees = {1500}
    NewFees = {0, 1001}
    Shares = {3333, 10000, 10001}
    I128Max = 50000
    InitialBalance = 10
    FeeCap = 1500
SYMMETRY UserSymmetry
CHECK_DEADLOCK FALSE
PROPERTY
    KeepsPromise
