SPECIFICATION FairSpec
CONSTANTS
    Readers = {r1}
    Writers = {w1}
    Addr = {x1, x2}
    NULL = NULL
    Modules = {"call_rcu"}
    MaxFail = 0
CHECK_DEADLOCK FALSE
PROPERTIES
    OldFreed
