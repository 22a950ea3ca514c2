SPECIFICATION Spec
CONSTANTS
    o1 = o1
    o2 = o2
    o3 = o3
    d1 = d1
    d2 = d2
    None = None
    Obj = {o1}
    Digest = {d1}
    DigestOf <- Single
    Concurrency = 1
    MaxRetries = 2
    MaxPollErrs = 1
    AltURLs = 0
    SourceBlind = FALSE
    Codes = {"14"}
    RpcFaults = {}
    Resolutions = {"direct", "notfound"}
    Leftovers = {}
    MaxActive = 2
    MaxGid = 4
    MaxFaults = 1
INVARIANT AuthReResolves
