\* PIDs that are reused, and more processes than the memory holds.
SPECIFICATION Spec
CONSTANTS
    Cgroup = {c1}
    Pid = {p1, p2, p3}
    Start = {1, 2}
    None = None
    MaxTasks = 2
    Ttl = 2
    MaxTs = 1
    Loss = {}
    MaxForks = 1
    MaxOpens = 1
SYMMETRY Symmetry
INVARIANTS
    MemorySound
    AdvisoryJustified
CHECK_DEADLOCK FALSE
