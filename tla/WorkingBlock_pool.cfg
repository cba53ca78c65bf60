CONSTANTS
    Senders = {"a", "b"}
    Txs <- MixedTxs
    Ask = 10
    GasLimit = 3
    MaxSync = 3
    MaxBlocks = 2
SPECIFICATION Spec
INVARIANT TypeOK
INVARIANT StateMatchesChain
PROPERTY ImplementsLedger
PROPERTY SyncTerminates
CHECK_DEADLOCK FALSE
