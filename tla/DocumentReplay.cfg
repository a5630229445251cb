SPECIFICATION Spec
CONSTANTS
    Providers = {p1}
    Values = {v1, v2}
    DelegationHashes = {d1}
    CovenantKeys = {k1, k2}
    MaxEvents = 4
    MaxCrashes = 1
    MaxFaults = 1
SYMMETRY ValueSymmetry
\* Babylon may stop emitting events, and the indexer then waits for the next one.
CHECK_DEADLOCK FALSE
INVARIANT TypeOK
INVARIANT SyncedWithBabylon
INVARIANT SignaturesComplete
PROPERTY SlashedForEver
