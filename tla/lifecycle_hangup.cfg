SPECIFICATION FairSpec
CONSTANTS
    IsWindows = FALSE
    GraceTicks = 3
    MaxSignals = 2
INVARIANTS
    NoDataPersists
