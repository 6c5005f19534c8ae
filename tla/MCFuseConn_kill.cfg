SPECIFICATION ConnSpec
CONSTANTS
    Links = {l1, l2, l3}
    Readers = {r1, r2}
    ForgetBatch = 2
    ReqBatch = 2
    MaxPending = 3
    MaxArrivals = 6
    Head = Head
    Nil = Nil
    Mounts = {m1, m2}
    Files = {f1, f2}
    Users = {p1}
    Channels = {c1, c2}
    Clients = {u1, u2}
    Devts = {d1, d2}
    Names = {n1}
    MaxPairs = 2
SYMMETRY Symmetry
CHECK_DEADLOCK FALSE
INVARIANTS
    KillLive
