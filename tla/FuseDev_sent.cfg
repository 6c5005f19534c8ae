SPECIFICATION Spec
CONSTANTS
    SyncReq = {q1}
    BgReq = {}
    Forced = {}
    NoReply = {}
    Signalled = {}
    Servers = {s1}
    Devices = {d1}
    Closers = {}
    Ctl = {ctl}
    IntrReplies = FALSE
    MaxBackground = 1
    CongestionThreshold = 1
    BgLimits = {}
    UINT_MAX = 9
    None = None
    DevOf <- OneDevice
CHECK_DEADLOCK FALSE
INVARIANTS
    EndedUnsent
