\* Processes that move between two cgroups, threads, reused PIDs, lossy HEALTH records,
\* and more tasks than the memory holds.
SPECIFICATION Spec
CONSTANTS
    Cgroup = {c1, c2}
    Pid = {p1, p2}
    Start = {1, 2}
    None = None
    MaxTasks = 3
    Ttl = 2
    MaxTs = 0
    Loss = {1}
    MaxForks = 1
    MaxOpens = 0
SYMMETRY Symmetry
INVARIANTS
    MemorySound
PROPERTY
    ExclusionKept
CHECK_DEADLOCK FALSE
