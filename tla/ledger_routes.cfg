SPECIFICATION FairSpec
CONSTANTS
    alice = alice
    bob = bob
    carol = carol
    dave = dave
    NoTxn = NoTxn
    Rows <- MCRows
    Txns <- EverythingTxns
    Program <- EverythingPrograms
    After <- EverythingAfter
    Mint <- EverythingMint
    Effect <- EverythingEffect
    InitialBalance <- MCBalance
    Faults = {"crash"}
CHECK_DEADLOCK FALSE
INVARIANTS
    TypeOK
    NonNegative
    UnitsAreConserved
PROPERTIES
    AtomicSpec
    EveryTransactionEnds
