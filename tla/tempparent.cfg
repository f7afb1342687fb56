SPECIFICATION FairSpec
CONSTANTS
    p1 = p1
    p2 = p2
    d1 = d1
    d2 = d2
    foreign = foreign
    link = link
    file = file
    None = None
    Launchers <- TwoLaunchers
    Own <- TwoDirs
    Foreign <- OneForeign
    Links <- OneLink
    Files <- NoNodes
    Target <- LinkTarget
    Names <- TwoNames
    Attempts = 2
    MaxChanges = 2
    MaxFaults = 1
INVARIANTS
    InUseStays
    PrivateParent
    HandleBalance
    Accounted
PROPERTIES
    Settles
    ImplementsTempDirs
