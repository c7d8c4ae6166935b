SPECIFICATION Spec
CONSTANTS
    alice = alice
    bob = bob
    carol = carol
    dave = dave
    NoTxn = NoTxn
    Rows <- MCRows
    Txns <- SettlementTxns
    Program <- SettlementPrograms
    After <- SettlementAfter
    Mint <- SettlementMint
    Effect <- SettlementEffect
    InitialBalance <- MCBalance
    Faults = {}
CHECK_DEADLOCK FALSE
INVARIANTS
    NonNegative
