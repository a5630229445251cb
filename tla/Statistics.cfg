SPECIFICATION FairSpec
CONSTANTS
    d1 = d1
    d2 = d2
    p1 = p1
    p2 = p2
    Delegations = {d1, d2}
    Providers = {p1, p2}
    ProvidersOf <- OneAndBoth
    NoStats = NoStats
    MaxCrashes = 1
    MaxFaults = 2
INVARIANT TypeOK
PROPERTY FreshTotals
PROPERTY StatsCatchUp
PROPERTY MetricsCatchUp
