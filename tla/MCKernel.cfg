\* Two CPUs, two keys that compete for one cell, four attempts as in the code;
\* two tasks, three PIDs, two of one process, two calls.
SPECIFICATION KernelSpec
CONSTANTS
    Cpu = {p1, p2}
    Key = {k1, k2}
    NoKey = NoKey
    Cell = {c1}
    Interval = 2
    Burst = 3
    Attempts = 4
    MaxTime = 3
    Task = {t1, t2}
    Pid = {1, 2, 3}
    Leader <- MCLeader
    NoPid = NoPid
    Sysno = {"fork", "execve", "connect", "listen", "exit_group"}
    Exec = {"execve"}
    Forking = "fork"
    Fatal = {"exit_group"}
    TypeOf <- MCTypeOf
    NoType = NoType
    MaxCalls = 2
SYMMETRY KernelSymmetry
INVARIANTS
    WindowBound
    RetryOnlyAfterRival
    ExitsPaired
    RecordsPaired
