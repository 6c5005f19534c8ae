SPECIFICATION FilesSpec
CONSTANTS
    Callers = {c1, c2}
    None = None
    MaxSize = 2
    MaxCalls = 3
    Files = {f1}
    Users = {u1, u2}
    MaxFds = 2
    MaxIo = 1
SYMMETRY Symmetry
CHECK_DEADLOCK FALSE
INVARIANTS
    AclCoherent
    SizeCoherent
    AioExact
    HandleExact
    ReservedSafe
    PollWoken
