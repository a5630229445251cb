SPECIFICATION FairSpec
CONSTANTS
    MaxHeight = 4
    ChannelSize = 1
    FeedSize = 2
    MaxCrashes = 1
    MaxFaults = 2
\* Babylon may stop producing blocks, and everyone then waits for the next one.
CHECK_DEADLOCK FALSE
INVARIANT TypeOK
INVARIANT Announced
INVARIANT Contiguous
INVARIANT DrainedBeforeExit
PROPERTY ImplementsSequential
PROPERTY FailureEndsProcess
PROPERTY AnnouncedIsStored
