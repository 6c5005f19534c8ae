SPECIFICATION ExamplesSpec
CONSTANTS
    Readers = {r1}
    Writers = {w1, w2}
    Addr = {x1, x2, x3}
    NULL = NULL
    Modules = {"synchronize_rcu", "call_rcu"}
    MaxFail = 1
    Files = {f1, f2}
    Vmas = {v1, v2, v3}
    Sizes = {1, 2}
    Counts = {0, 1, 2, 3}
SYMMETRY Symmetry
CHECK_DEADLOCK FALSE
INVARIANTS
    MemorySafe
    NoLeak
    DeviceMemory
