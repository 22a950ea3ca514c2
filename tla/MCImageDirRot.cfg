SPECIFICATION RotFairSpec
CONSTANTS
    m1 = m1
    m2 = m2
    config = config
    layer = layer
    None = None
    Proc = {p1, p2}
    Digest = {layer}
    Manifest = {m1, m2}
    Objects <- OneLayer
    MaxFaults = 1
INVARIANTS
    ReportsPublished
    VerifyHeals
    PublishedPresent
PROPERTY Publishes
