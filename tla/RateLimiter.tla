----------------------------- MODULE RateLimiter -----------------------------
(***************************************************************************)
(* rate_limit_allows of agent/server.c: the lock-free token bucket that    *)
(* BPF programs on several CPUs run against one LRU hash map, with the     *)
(* interval and burst that host_events.c computes from its options.        *)
(*                                                                         *)
(* One action is one access to memory shared between CPUs. The map is      *)
(* kernel code, modelled from its use: its entries are preallocated cells, *)
(* and a program that looked a cell up keeps the pointer while the kernel  *)
(* may evict the cell and give it to another key.                          *)
(***************************************************************************)
EXTENDS Integers

CONSTANTS
    Cpu,       \* BPF program executions that can run at the same time
    Key,       \* values of struct network_rate_key
    NoKey,     \* no key: a cell that is not in the map
    Cell,      \* the preallocated entries of network_rate_limits
    Interval,  \* network_rate_interval_ns, 0 when no rate is configured
    Burst,     \* options.network_burst
    Attempts,  \* compare-and-swap attempts (4 in the code)
    MaxTime    \* bound: the clock stops here

ASSUME RateAssumption ==
    /\ Interval \in Nat /\ Burst \in Nat \ {0}
    /\ Attempts \in Nat \ {0} /\ MaxTime \in Nat
    /\ NoKey \notin Key

VARIABLES
    time,           \* bpf_ktime_get_ns
    owner,          \* owner[c]: the key the cell is in the map for, or NoKey
    next_event_ns,  \* next_event_ns[c]: the cell's value
    pc,             \* where each execution is
    key, now,       \* its locals: what it asks for and when it asked
    state,          \* its pointer to a cell
    current,        \* its local copy of the cell's value
    attempt,
    mark,           \* history: the start of an arbitrary window of time
    charged,        \* history: ns of quota admitted through the cell by calls since mark
    rivals          \* history: how often others changed the cell a call works on

mapVars == <<owner, next_event_ns, charged>>
callVars == <<pc, key, now, state, current, attempt>>
vars == <<time, mapVars, callVars, mark, rivals>>

\* configuration.network_rate_burst_ns
burst_ns == Interval * (Burst - 1)

Init ==
    /\ time = 0
    /\ owner = [c \in Cell |-> NoKey]
    /\ next_event_ns = [c \in Cell |-> 0]
    /\ pc = [p \in Cpu |-> "idle"]
    /\ key = [p \in Cpu |-> NoKey]
    /\ now = [p \in Cpu |-> 0]
    /\ state \in [Cpu -> Cell]
    /\ current = [p \in Cpu |-> 0]
    /\ attempt = [p \in Cpu |-> 0]
    /\ mark \in 0 .. MaxTime
    /\ charged = [c \in Cell |-> 0]
    /\ rivals = [p \in Cpu |-> 0]

-----------------------------------------------------------------------------
(* The clock and the kernel's eviction.                                    *)

Tick ==
    /\ time < MaxTime
    /\ time' = time + 1
    /\ UNCHANGED <<mapVars, callVars, mark, rivals>>

\* The kernel takes a cell out of the map; programs may still point to it.
Evict(c) ==
    /\ owner[c] # NoKey
    /\ owner' = [owner EXCEPT ![c] = NoKey]
    /\ UNCHANGED <<time, next_event_ns, charged, callVars, mark, rivals>>

-----------------------------------------------------------------------------
GoTo(p, place) == pc' = [pc EXCEPT ![p] = place]

\* The call ends, and its local variables with it.
Return(p) ==
    /\ GoTo(p, "idle")
    /\ key' = [key EXCEPT ![p] = NoKey]
    /\ now' = [now EXCEPT ![p] = 0]
    /\ current' = [current EXCEPT ![p] = 0]
    /\ attempt' = [attempt EXCEPT ![p] = 0]

\* Every other call about to swap cell c will find it changed.
Disturb(p, c) ==
    rivals' = [q \in Cpu |->
                 CASE q = p -> 0
                   [] q # p /\ pc[q] = "swap" /\ state[q] = c /\ rivals[q] < Attempts -> rivals[q] + 1
                   [] OTHER -> rivals[q]]

\* return 1: an event passes on the account of cell c, in the window if the call read
\* the clock since mark. The account starts at before.
Allow(p, c, before) ==
    /\ Return(p)
    /\ charged' = [charged EXCEPT ![c] = before + IF now[p] >= mark THEN Interval ELSE 0]
    /\ Disturb(p, c)

\* return 0: the event is counted as NETWORK_STAT_RATE_LIMITED and goes no further.
Deny(p) ==
    /\ Return(p)
    /\ rivals' = [rivals EXCEPT ![p] = 0]
    /\ UNCHANGED charged

\* The program reads the clock. Without a configured rate it returns 1 before that,
\* and touches nothing.
Call(p, k) ==
    /\ pc[p] = "idle"
    /\ Interval # 0
    /\ GoTo(p, "lookup")
    /\ key' = [key EXCEPT ![p] = k]
    /\ now' = [now EXCEPT ![p] = time]
    /\ UNCHANGED <<time, mapVars, state, current, attempt, mark, rivals>>

Found(p, c) == owner[c] = key[p]

\* bpf_map_lookup_elem finds the key, the first time or after a failed insertion.
LookupHit(p, c) ==
    /\ pc[p] \in {"lookup", "relookup"}
    /\ Found(p, c)
    /\ state' = [state EXCEPT ![p] = c]
    /\ GoTo(p, "read")
    /\ UNCHANGED <<time, mapVars, key, now, current, attempt, mark, rivals>>

LookupMiss(p) ==
    /\ pc[p] = "lookup"
    /\ \A c \in Cell : ~Found(p, c)
    /\ GoTo(p, "insert")
    /\ UNCHANGED <<time, mapVars, key, now, state, current, attempt, mark, rivals>>

\* The key is gone again, or never went in: deny.
RelookupMiss(p) ==
    /\ pc[p] = "relookup"
    /\ \A c \in Cell : ~Found(p, c)
    /\ Deny(p)
    /\ UNCHANGED <<time, owner, next_event_ns, state, mark>>

\* bpf_map_update_elem with BPF_NOEXIST succeeds: the first event of the key.
Insert(p, c) ==
    /\ pc[p] = "insert"
    /\ \A d \in Cell : ~Found(p, d)
    /\ owner[c] = NoKey
    /\ owner' = [owner EXCEPT ![c] = key[p]]
    /\ next_event_ns' = [next_event_ns EXCEPT ![c] = now[p] + Interval]
    /\ Allow(p, c, 0)
    /\ UNCHANGED <<time, state, mark>>

\* It fails: another CPU inserted the key first, or no cell is free.
InsertFails(p) ==
    /\ pc[p] = "insert"
    /\ (\E c \in Cell : Found(p, c)) \/ (\A c \in Cell : owner[c] # NoKey)
    /\ GoTo(p, "relookup")
    /\ UNCHANGED <<time, mapVars, key, now, state, current, attempt, mark, rivals>>

\* The body of the loop up to the swap, when the bucket has no token left.
OverBudget(p) == next_event_ns[state[p]] > now[p] + burst_ns

ReadDeny(p) ==
    /\ pc[p] = "read"
    /\ OverBudget(p)
    /\ Deny(p)
    /\ UNCHANGED <<time, owner, next_event_ns, state, mark>>

\* Mutant of Read: a retry goes on with the value of the first attempt.
ReadOnce(p) ==
    /\ pc[p] = "read"
    /\ ~OverBudget(p)
    /\ current' = IF attempt[p] = 0
                  THEN [current EXCEPT ![p] = next_event_ns[state[p]]] ELSE current
    /\ GoTo(p, "swap")
    /\ UNCHANGED <<time, mapVars, key, now, state, attempt, mark, rivals>>

Read(p) ==
    /\ pc[p] = "read"
    /\ ~OverBudget(p)
    /\ current' = [current EXCEPT ![p] = next_event_ns[state[p]]]
    /\ GoTo(p, "swap")
    /\ UNCHANGED <<time, mapVars, key, now, state, attempt, mark, rivals>>

\* The earliest time the next event conforms at, one interval after this one.
desired(p) == (IF current[p] > now[p] THEN current[p] ELSE now[p]) + Interval

\* Mutant of SwapOk: a plain store instead of compare-and-swap.
StoreBlindly(p) ==
    /\ pc[p] = "swap"
    /\ next_event_ns' = [next_event_ns EXCEPT ![state[p]] = desired(p)]
    /\ Allow(p, state[p], charged[state[p]])
    /\ UNCHANGED <<time, owner, state, mark>>

\* The compare-and-swap succeeds, perhaps on a cell that changed hands meanwhile.
SwapOk(p) ==
    /\ pc[p] = "swap"
    /\ next_event_ns[state[p]] = current[p]
    /\ next_event_ns' = [next_event_ns EXCEPT ![state[p]] = desired(p)]
    /\ Allow(p, state[p], charged[state[p]])
    /\ UNCHANGED <<time, owner, state, mark>>

\* Another CPU was faster: try again, or deny after the last attempt.
SwapLost(p) ==
    /\ pc[p] = "swap"
    /\ next_event_ns[state[p]] # current[p]
    /\ IF attempt[p] + 1 < Attempts
       THEN /\ attempt' = [attempt EXCEPT ![p] = @ + 1]
            /\ GoTo(p, "read")
            /\ UNCHANGED <<charged, key, now, current, rivals>>
       ELSE Deny(p)
    /\ UNCHANGED <<time, owner, next_event_ns, state, mark>>

-----------------------------------------------------------------------------
Step(p) ==
    \/ \E k \in Key : Call(p, k)
    \/ \E c \in Cell : LookupHit(p, c) \/ Insert(p, c)
    \/ LookupMiss(p) \/ RelookupMiss(p) \/ InsertFails(p)
    \/ ReadDeny(p) \/ Read(p) \/ SwapOk(p) \/ SwapLost(p)

Next ==
    \/ Tick
    \/ \E c \in Cell : Evict(c)
    \/ \E p \in Cpu : Step(p)

Spec == Init /\ [][Next]_vars

-----------------------------------------------------------------------------
TypeOK ==
    /\ time \in 0 .. MaxTime
    /\ owner \in [Cell -> Key \cup {NoKey}]
    /\ next_event_ns \in [Cell -> Nat]
    /\ pc \in [Cpu -> {"idle", "lookup", "insert", "relookup", "read", "swap"}]
    /\ key \in [Cpu -> Key \cup {NoKey}]
    /\ now \in [Cpu -> 0 .. MaxTime]
    /\ state \in [Cpu -> Cell]
    /\ current \in [Cpu -> Nat]
    /\ attempt \in [Cpu -> 0 .. Attempts - 1]
    /\ mark \in 0 .. MaxTime
    /\ charged \in [Cell -> Nat]
    /\ rivals \in [Cpu -> 0 .. Attempts]

\* The rate limit itself, in every window of time that begins at mark: while a cell
\* belongs to one key, the calls of the window are granted no more than the time that
\* has passed plus Burst events, whatever the CPUs' interleaving, however stale their
\* clock, and even when a call swaps a cell that was evicted under it.
WindowBound ==
    \A c \in Cell : charged[c] > 0 => charged[c] <= (time - mark) + Interval * Burst

\* No two admissions share a token: between insertions, a cell's next_event_ns only
\* moves forward and by at least one interval each time.
TokensNotShared ==
    [][\A c \in Cell : owner'[c] = owner[c] =>
         \/ next_event_ns'[c] = next_event_ns[c]
         \/ next_event_ns'[c] >= next_event_ns[c] + Interval]_vars

\* The retry loop is lock-free: each lost attempt was lost to a change another CPU
\* made in between, so a call is denied for contention only after Attempts of those.
RetryOnlyAfterRival ==
    \A p \in Cpu :
        /\ attempt[p] <= rivals[p]
        /\ pc[p] = "swap" /\ next_event_ns[state[p]] # current[p] =>
             attempt[p] < rivals[p]
=============================================================================
