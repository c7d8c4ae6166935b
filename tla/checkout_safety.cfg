SPECIFICATION FairSpec
CONSTANTS
    d1 = d1
    d2 = d2
    r1 = r1
    r2 = r2
    host = host
    Kind = "sale"
    Chain <- MCChain
    Adjusted = TRUE
    Total = 2
    Deliveries <- MCDeliveries
    Refunds <- MCRefunds
    RefundAmount <- MCPartAndRest
    Settlements <- MCSettlements
    Faults = {"overlap", "crash", "lost"}
CHECK_DEADLOCK FALSE
INVARIANTS
    TypeOK
    CreditsHaveRows
    ToldAfterDistribution
    RefundsAreBacked
    OverReversedOnlyUnseen
PROPERTIES
    PaidIsDistributed
