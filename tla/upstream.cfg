SPECIFICATION FairSpec
CONSTANTS
    NoRun = NoRun
    MaxComponent = 1
    Releases <- TwoReleases
    OwnReleases <- OwnRelease
    FirstTree <- Start
    MaxMain = 3
    MaxCI = 2
    MaxTrouble = 1
CHECK_DEADLOCK FALSE
PROPERTIES
    AutoMergeVerified
    HumanKept
    ReleaseRules
    Arrives
