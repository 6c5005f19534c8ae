SPECIFICATION Spec
CONSTANTS
    SyncReq = {q1}
    BgReq = {b1, b2}
    Forced = {}
    NoReply = {}
    Signalled = {q1}
    Servers = {s1, s2}
    Devices = {d1, d2}
    Closers = {d1, d2}
    Ctl = {}
    IntrReplies = FALSE
    MaxBackground = 1
    CongestionThreshold = 1
    BgLimits = {2}
    UINT_MAX = 9
    None = None
    DevOf <- OwnDevice
SYMMETRY OwnSymmetry
CHECK_DEADLOCK FALSE
INVARIANTS
    RefsExact
    NoLostInterrupt
    WaitingExact
    BackgroundCounted
