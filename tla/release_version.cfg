SPECIFICATION Spec
CONSTANTS
    MaxComponent = 2
    FirstVersions <- StartVersions
INVARIANTS
    TypeOK
    OneUpstreamPerRelease
    NeverBack
PROPERTIES
    Compatibility
