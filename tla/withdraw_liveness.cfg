SPECIFICATION FairSpec
CONSTANTS
    w1 = w1
    w2 = w2
    alice = alice
    NoIntent = NoIntent
    Intents <- MCOne
    Dids <- MCDids
    Owner <- MCOneOwner
    Amount <- MCOneAmount
    InitialBalance <- MCBalance
    Timeout = 2
    MaxCall = 1
    MaxDeliveries = 2
    PageLimit = 2
    MaxTime = 3
    Faults <- OutsideFaults
INVARIANTS
    NoDoublePayout
PROPERTIES
    StrandedTransferIsReported
