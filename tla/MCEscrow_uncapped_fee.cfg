SPECIFICATION EscrowSpec
CONSTANTS
    Users = {u1, u2}
    EscrowAddress = escrow
    Tokens = {token}
    MaxDeliveryId = 2
    None = None
    Amounts <- MCAmounts
    TransferAmounts = {15}
    InitFees = {20000}
    NewFees = {1000, 1001}
    Shares = {3333, 10001}
    I128Max = 1000000
    InitialBalance = 15
SYMMETRY UserSymmetry
CHECK_DEADLOCK FALSE
INVARIANT
    Solvency
