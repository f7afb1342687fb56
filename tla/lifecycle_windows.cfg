SPECIFICATION FairSpec
CONSTANTS
    IsWindows = TRUE
    GraceTicks = 3
    MaxSignals = 2
PROPERTIES
    CancelLeadsToEnd
    ImplementsSession
