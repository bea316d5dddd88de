SPECIFICATION FairSpec
CONSTANTS
    Grants = {g1}
    Calls = {k1, k2}
    MaxFamilies = 6
    MaxPairs = 6
    MaxFaults = 2
INVARIANTS
    DeadIsRefused
    RefusalEndsFamily
PROPERTIES
    Reconnects
    ImplementsChains
