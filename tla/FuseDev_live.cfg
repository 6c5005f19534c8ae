SPECIFICATION FairSpec
CONSTANTS
    SyncReq = {}
    BgReq = {b1, b2, b3}
    Forced = {}
    NoReply = {}
    Signalled = {}
    Servers = {s1}
    Devices = {d1}
    Closers = {}
    Ctl = {ctl}
    IntrReplies = FALSE
    MaxBackground = 1
    CongestionThreshold = 2
    BgLimits = {}
    UINT_MAX = 9
    None = None
    DevOf <- OneDevice
CHECK_DEADLOCK FALSE
INVARIANTS
    BackgroundLimited
    NoUseAfterFree
PROPERTIES
    RequestEnds
    WaiterWoken
