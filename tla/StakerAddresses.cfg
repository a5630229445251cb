SPECIFICATION FairSpec
CONSTANTS
    Delegations = {r1, r2, r3}
    Workers = {w1, w2}
    ChannelSize = 1
    MaxCrashes = 1
    MaxFaults = 1
INVARIANT TypeOK
INVARIANT NoErrorMeansFilled
INVARIANT BadAddressReported
PROPERTY FilledFromBabylon
PROPERTY CommandReturns
