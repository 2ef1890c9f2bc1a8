CONSTANTS
    p1 = p1
    p2 = p2
    p3 = p3
    NoPid = NoPid
    Empty = Empty
    Idle = Idle
    s1 = s1
    f1 = f1
    Pids = {p1, p2, p3}
    Starts = {s1}
    Files = {f1}
    MaxMtime = 1
    MaxWatching = 1
    MaxKills = 1
SYMMETRY Interchangeable
SPECIFICATION Spec
INVARIANTS
    TypeOK
    PidFileTells
    ChangesAccounted
