SPECIFICATION Spec
CONSTANTS
    m1 = m1
    m2 = m2
    config = config
    layer = layer
    None = None
    Proc = {p1}
    Digest = {config, layer}
    Manifest = {m1, m2}
    Objects <- MovedTag
    MaxFaults = 1
INVARIANT ManifestMirrored
