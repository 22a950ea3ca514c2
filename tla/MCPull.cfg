SPECIFICATION PullSpec
CONSTANTS
    p1 = p1
    p2 = p2
    w1 = w1
    dir = dir
    NoProc = NoProc
    Proc = {p1, p2}
    Self = p1
    Dir = {dir}
    DirOf <- OneDir
    Port = {1}
    MaxProbes = 2
    MaxKills = 1
    Worker = {w1}
    MaxEvents = 1
INVARIANTS
    DaemonTypeOK
    PanelTypeOK
    LoneWriter
    NoneLeft
    PanelWhole
PROPERTIES
    OwnDaemonOnly
    EventsKept
    PullReturns
    OrphansEnd
