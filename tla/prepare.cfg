SPECIFICATION RerunSpec
CONSTANTS
    r1 = r1
    v1 = v1
    v2 = v2
    d1 = d1
    d2 = d2
    same = same
    bad = bad
    None = None
    NoFile = NoFile
    Runs <- OneRun
    Kinds <- AllKinds
    Versions <- TwoVersions
    AssetCount = 2
    Digests <- FourDigests
    Digest <- Attested
    FoundTables <- BadTables
    Attempts = 2
    MaxFaults = 1
    MaxChanges = 1
INVARIANTS
    CheckSound
    PrepareSound
    ReplacementsReady
PROPERTIES
    OnlyAttested
    Recovers
