SPECIFICATION GoFairSpec
CONSTANTS
    o1 = o1
    o2 = o2
    o3 = o3
    d1 = d1
    d2 = d2
    None = None
    DigestOf <- Distinct
    Concurrency = 1
    MaxRetries = 2
    MaxPollErrs = 1
    AltURLs = 0
    SourceBlind = TRUE
    Codes = {"8"}
    RpcFaults = {"error"}
    Resolutions = {"signed", "error"}
    Leftovers = {}
    MaxActive = 2
    MaxGid = 4
    MaxFaults = 1
    Obj = {o1, o2}
    Digest = {d1, d2}
INVARIANTS
    Code8ReResolves
    NoHopelessResume
PROPERTIES
    KeepsProgress
    Termination
    CancelReturns
