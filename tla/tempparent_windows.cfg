SPECIFICATION WindowsSpec
CONSTANTS
    p1 = p1
    p2 = p2
    d1 = d1
    d2 = d2
    foreign = foreign
    link = link
    file = file
    None = None
    Launchers <- TwoLaunchers
    Own <- TwoDirs
    Foreign <- NoNodes
    Links <- OneLink
    Files <- OneFile
    Target <- LinkTarget
    Names <- TwoNames
    Attempts = 1
    MaxChanges = 2
    MaxFaults = 1
INVARIANTS
    MadeWhereVerified
    MadeAccounted
PROPERTIES
    OthersStay
