SPECIFICATION FairSpec
CONSTANTS
    d1 = d1
    d2 = d2
    i1 = i1
    i2 = i2
    Delegations = {d1}
    Previous <- NoPrevious
    StakingTime = 2
    UnbondingTime = 1
    SpendPaths = {"slashing"}
    BlockCuts <- SingleEventBlocks
    MaxBtcHeight = 3
    MaxMessages = 1
    WatcherIds = {i1}
    MaxAttempts = 2
    ExpiredDelegationsLimit = 1
    MaxCrashes = 0
    MaxFaults = 0
\* The chains may stop growing, and the processor then has nothing to do.
CHECK_DEADLOCK FALSE
PROPERTY SlashedUnlocks
