SPECIFICATION FairSpec
CONSTANTS
    Readers = {r1, r2}
    Writers = {w1}
    Addr = {x1, x2}
    Vals = {5}
    InitVal = 5
    Garbage = Garbage
    NULL = NULL
    MaxFail = 0
PROPERTIES
    UpdateCompletes
    UnloadCompletes
