SPECIFICATION Spec
CONSTANTS
    d1 = d1
    d2 = d2
    i1 = i1
    i2 = i2
    Delegations = {d1}
    Previous <- NoPrevious
    StakingTime = 1
    UnbondingTime = 1
    SpendPaths = {"slashing", "timelock"}
    BlockCuts <- PairedBlocks
    MaxBtcHeight = 2
    MaxMessages = 1
    WatcherIds = {i1, i2}
    MaxAttempts = 2
    ExpiredDelegationsLimit = 1
    MaxCrashes = 1
    MaxFaults = 1
\* The chains may stop growing, and the processor then has nothing to do.
CHECK_DEADLOCK FALSE
INVARIANT WithdrawnOnBitcoin
INVARIANT NoEventSkipped
INVARIANT AnnouncedBeforeStored
INVARIANT StakingOutputWatched
SYMMETRY WatcherSymmetry
PROPERTY TerminalStatesFinal
PROPERTY ProcessesSequentially
