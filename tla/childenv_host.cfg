SPECIFICATION Spec
CONSTANTS
    Words <- SomeWords
    Numbers <- SomeNumbers
    TokenKey = "GITHUB_PERSONAL_ACCESS_TOKEN"
    HostKey = "GITHUB_HOST"
    Optional <- Options
    Allowed <- AllowList
    Fold <- Exact
    Hosts <- PortHosts
    Tokens <- OneToken
    Parents <- UnixParents
    Unset = Unset
CHECK_DEADLOCK FALSE
INVARIANTS
    HostIsURL
