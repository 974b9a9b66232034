\* Families of three processes, retention included.
SPECIFICATION Spec
CONSTANTS
    Cgroup = {c1}
    Pid = {p1, p2, p3}
    Start = {1}
    None = None
    MaxTasks = 3
    Ttl = 2
    MaxTs = 2
    Loss = {}
    MaxForks = 2
    MaxOpens = 2
SYMMETRY Symmetry
INVARIANTS
    MemorySound
    AdvisoryJustified
CHECK_DEADLOCK FALSE
