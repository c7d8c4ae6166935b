SPECIFICATION Spec
CONSTANTS
    w1 = w1
    w2 = w2
    alice = alice
    NoIntent = NoIntent
    Intents <- MCIntents
    Dids <- MCDids
    Owner <- MCOwner
    Amount <- MCAmount
    InitialBalance <- MCBalance
    Timeout = 2
    MaxCall = 1
    MaxDeliveries = 1
    PageLimit = 2
    MaxTime = 2
    Faults <- AllFaults
SYMMETRY MCSymmetry
INVARIANTS
    TypeOK
    Conservation
    CompletedIsBacked
    ReleasedOnce
    SafeBucketIsSafe
