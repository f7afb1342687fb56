SPECIFICATION Spec
CONSTANTS
    Words <- SomeWords
    Numbers <- SomeNumbers
    TokenKey = "GITHUB_PERSONAL_ACCESS_TOKEN"
    HostKey = "GITHUB_HOST"
    Optional <- Options
    Allowed <- AllowList
    Fold <- Caseless
    Hosts <- BareHosts
    Tokens <- SomeTokens
    Parents <- WindowsParents
    Unset = Unset
CHECK_DEADLOCK FALSE
INVARIANTS
    ChildExact
    UnsafeRefused
