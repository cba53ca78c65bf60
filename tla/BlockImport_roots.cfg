CONSTANTS
    MaxHeight = 3
    Forks = {"a"}
    MaxUncleList = 3
    RootClaims = {"computed", "parent", "bogus"}
    Faults = {"tx", "receipts", "bloom", "gas"}
    TxChoices = {TRUE, FALSE}
    BlockReward = 0
    Bogus = Bogus

SPECIFICATION Spec
INVARIANT TypeOK
INVARIANT SyncFindsHeadState
INVARIANT ReplayIsDeterministic
INVARIANT SequentialReplayAgrees
