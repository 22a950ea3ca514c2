SPECIFICATION RegistrySpec
CONSTANTS
    b1 = b1
    b2 = b2
    deep = deep
    outer = outer
    inner = inner
    v6 = v6
    v7 = v7
    arm64 = arm64
    bare = bare
    invalid = invalid
    None = None
    MaxAttempts = 2
    MaxHops = 2
    Blob = {b1, b2}
    PingAnswers = {"anonymous", "bearer", "basic", "error"}
    HeadAnswers = {"cdn", "samehost", "astray", "unauthorized", "notfound", "unanswered", "ctx"}
    GetAnswers = {"full", "unauthorized", "notfound", "ctx"}
    Doc <- Documents
    Kind <- KindOf
    Entries <- EntriesOf
    Want <- ArmV7
    Tagged = {deep, outer, bare, arm64}
    Tries = 3
    MaxDepth = 2
    Faults = {"transient", "deadline", "broken", "definitive"}
INVARIANTS
    TypeOK
    ManifestTypeOK
    NeverRepeatsRefused
    RefreshExclusive
    ResultFromTag
    TransientRetried
PROPERTIES
    NotFoundNeverLatches
    MissingOnEvidence
    CallsGetNearer
    ManifestReturns
    ResolveReturns
