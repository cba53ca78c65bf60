CONSTANTS
    MaxHeight = 2
    Forks = {"a"}
    MaxUncleList = 0
    RootClaims = {"computed"}
    Faults = {"receipts", "bloom", "gas"}
    TxChoices = {TRUE, FALSE}
    BlockReward = 0
    Bogus = Bogus

SPECIFICATION Spec
INVARIANT RollbackOnFailedImport
