SPECIFICATION Spec
CONSTANTS
    Readers = {r1}
    Writers = {w1, w2}
    Addr = {x1, x2, x3}
    Vals = {5, 7}
    InitVal = 5
    Garbage = Garbage
    NULL = NULL
    MaxFail = 1
SYMMETRY Symmetry
CHECK_DEADLOCK FALSE
INVARIANTS
    TypeOK
    NoUseAfterFree
    NoLeak
    NoLostUpdate
PROPERTIES
    ImplementsRegister
