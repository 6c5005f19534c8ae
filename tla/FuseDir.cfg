SPECIFICATION Spec
CONSTANTS
    Names = {x1, x2}
    Nodes = {n1, n2}
    Threads = {t1, t2}
    Ops <- AllOps
    None = None
    MaxOps = 3
    MaxFail = 1
SYMMETRY Symmetry
CHECK_DEADLOCK FALSE
INVARIANTS
    LookupBalanced
    AttrNotUndone
    EntryCoherent
