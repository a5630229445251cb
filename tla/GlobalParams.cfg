SPECIFICATION FairSpec
CONSTANTS
    BabylonChains = {c1, c2}
    NoChain = NoChain
    MaxTries = 3
    MaxMoves = 2
    MaxVersion = 3
    MaxCheckpoint = 1
    MaxCrashes = 1
    MaxFaults = 3
INVARIANT TypeOK
INVARIANT NoVersionMissing
INVARIANT OneChain
PROPERTY ParamsUpToDate
