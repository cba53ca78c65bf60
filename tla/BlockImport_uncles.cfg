CONSTANTS
    MaxHeight = 8
    Forks = {"a", "b"}
    MaxUncleList = 1
    RootClaims = {"computed"}
    Faults = {}
    TxChoices = {TRUE}
    BlockReward = 1
    Bogus = Bogus

SPECIFICATION Spec
VIEW UncleView
INVARIANT NoUncleRewardedTwice
INVARIANT UnclesBranchFromChain
