SPECIFICATION FairSpec
CONSTANTS
    side = side
    a1 = a1
    a2 = a2
    Human = Human
    None = None
    Last = 3
    Side <- OneSide
    Ver <- SideVer
    Assets <- TwoAssets
    MaxFailures = 2
    MaxByHand = 3
INVARIANTS
    PublishedProvenance
    GreenMeansReleased
PROPERTIES
    NeverBackward
    ImplementsReleaseLog
    AllGreen
