SPECIFICATION SideSpec
CONSTANTS
    kflush = kflush
    owner = owner
    None = None
    Threads = {kflush, owner}
    Ops <- AllOps
    Reqs = {r1, r2}
    NumPages = 2
    MaxPages = 2
    Sizes = {0, 1}
    MaxVersion = 2
    SyncReq = {q1}
    BgReq = {}
    Signalled = {q1}
    Servers = {s1, s2}
    Devices = {d1}
    Closers = {d1}
    Ctl = {ctl}
    IntrReplies = TRUE
    MaxBackground = 1
    CongestionThreshold = 1
    BgLimits = {}
    UINT_MAX = 9
SYMMETRY Symmetry
CHECK_DEADLOCK FALSE
INVARIANTS
    WritectrExact
    NoLostWakeup
    TruncateHolds
    DataReachesServer
    FsyncDurable
    AbortSafe
