SPECIFICATION Spec
CONSTANTS
    d1 = d1
    d2 = d2
    r1 = r1
    r2 = r2
    host = host
    Kind = "topup"
    Chain <- MCNoChain
    Adjusted = FALSE
    Total = 2
    Deliveries <- MCDeliveries
    Refunds <- MCNone
    RefundAmount <- MCNoAmount
    Settlements <- MCSettlements
    Faults = {"overlap"}
CHECK_DEADLOCK FALSE
INVARIANTS
    DistributedOnce
