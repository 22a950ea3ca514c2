SPECIFICATION Spec
CONSTANTS
    o1 = o1
    o2 = o2
    o3 = o3
    d1 = d1
    d2 = d2
    None = None
    Obj = {o1, o2}
    Digest = {d1, d2}
    DigestOf <- Distinct
    Concurrency = 2
    MaxRetries = 2
    MaxPollErrs = 1
    AltURLs = 1
    SourceBlind = FALSE
    Codes = {"3", "12"}
    RpcFaults = {"deadline", "lost"}
    Resolutions = {"direct", "notfound", "deadline"}
    Leftovers = {"waiting", "active"}
    MaxActive = 2
    MaxGid = 4
    MaxFaults = 1
INVARIANTS
    TypeOK
    CommitSound
    ResultSound
PROPERTIES
    KeepsProgress
    ImplementsDownload
    AttemptsForward
