SPECIFICATION FairSpec
CONSTANTS
    IsWindows = FALSE
    GraceTicks = 3
    MaxSignals = 2
INVARIANTS
    NothingForgotten
    GraceGiven
    CleanExitEarned
PROPERTIES
    CancelLeadsToEnd
    ServerEndLeadsToEnd
    ImplementsSession
