SPECIFICATION Spec
CONSTANTS
    Sources = {s1, s2}
    Floating = {f1}
    Timeouts = {1}
    MaxLate = 1
    MaxPools = 2
    Sleeps = TRUE
    Objects = {o1, o2}
    Pools = {p1, p2}
    Threads = {t1, t2}
    Names = {n1}
    Data = {d1, d2}
    MaxRef = 1
    MaxShared = 1
INVARIANTS
    RefsBalanced
    Reclaimed
    WeakNeverDangles
PROPERTIES
    RemovedIsSilent
    DueIsServed
CHECK_DEADLOCK FALSE
