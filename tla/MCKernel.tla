------------------------------ MODULE MCKernel ------------------------------
(***************************************************************************)
(* TLC instance of what runs in the kernel: the rate limiter, and the      *)
(* pairing of entries and exits. They share no variable, so each runs      *)
(* while the other stays where it starts.                                  *)
(***************************************************************************)
EXTENDS RateLimiter, Syscalls, TLC

VARIABLE part       \* which of them runs

MCTypeOf == [s \in Sysno |-> CASE s = "connect" -> "CONNECT"
                               [] s = "listen" -> "LISTEN"
                               [] OTHER -> NoType]

\* A process of two threads, and others of one.
MCLeader == [p \in Pid |-> IF p = 2 THEN 1 ELSE p]

KernelInit ==
    /\ part \in {"rate", "syscalls"}
    /\ Init /\ SyscallInit
    /\ IF part = "syscalls" THEN mark = 0 ELSE \A t \in Task : ~Alive(t)

KernelNext ==
    \/ part = "rate" /\ Next /\ UNCHANGED <<part, cvars>>
    \/ part = "syscalls" /\ SyscallNext /\ UNCHANGED <<part, vars>>
    \* The calls end at the bound; the kernel does not.
    \/ part = "syscalls" /\ made = MaxCalls /\ UNCHANGED <<part, vars, cvars>>

KernelSpec == KernelInit /\ [][KernelNext]_<<part, vars, cvars>>

\* CPUs, keys, cells and task structures are interchangeable.
KernelSymmetry ==
    Permutations(Cpu) \cup Permutations(Key) \cup Permutations(Cell) \cup Permutations(Task)
=============================================================================
