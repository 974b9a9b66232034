---------------------------- MODULE KernelProofs ----------------------------
(***************************************************************************)
(* Proofs about what runs in the kernel. RateLimiter, for any number of    *)
(* CPUs, keys and cells, any interval, burst and number of attempts: the   *)
(* bucket grants no more than its rate and burst in any window, no token   *)
(* is granted twice, and an attempt is lost only to another CPU. Syscalls, *)
(* for any number of tasks, PIDs and calls.                                *)
(***************************************************************************)
EXTENDS RateLimiter, Syscalls, TLAPS

-----------------------------------------------------------------------------
(* The rate limiter.                                                       *)

\* No call is ahead of the clock.
ClockRead == \A p \in Cpu : now[p] <= time

\* A call that is about to swap found the cell within its budget.
BudgetChecked == \A p \in Cpu : pc[p] = "swap" => current[p] <= now[p] + burst_ns

\* A cell never promises further ahead than the burst and the event just admitted.
Horizon == \A c \in Cell : next_event_ns[c] <= time + burst_ns + Interval

\* Everything granted in the window is paid for by the cell's distance from mark.
Paid == \A c \in Cell : charged[c] > 0 => next_event_ns[c] >= mark + charged[c]

\* The inductive invariant.
Inv == TypeOK /\ ClockRead /\ BudgetChecked /\ Horizon /\ Paid /\ RetryOnlyAfterRival

\* The burst tolerance is a time, and one interval more is the whole burst.
LEMMA BurstTolerance ==
    burst_ns \in Nat /\ Interval \in Nat /\ burst_ns + Interval = Interval * Burst
  BY RateAssumption DEF burst_ns

\* An empty map has granted nothing.
LEMMA InitInv == Init => Inv
  <1> SUFFICES ASSUME Init PROVE Inv
    OBVIOUS
  <1>1. TypeOK
    BY RateAssumption DEF Init, TypeOK
  <1>2. ClockRead /\ BudgetChecked /\ Paid /\ RetryOnlyAfterRival
    BY RateAssumption DEF Init, ClockRead, BudgetChecked, Paid, RetryOnlyAfterRival
  <1>3. Horizon
    BY BurstTolerance DEF Init, Horizon
  <1>4. QED
    BY <1>1, <1>2, <1>3 DEF Inv

\* The history of rivals stays within its cap.
LEMMA DisturbTyped ==
    ASSUME TypeOK, NEW p \in Cpu, NEW c \in Cell, Disturb(p, c)
    PROVE  rivals' \in [Cpu -> 0 .. Attempts]
  BY RateAssumption DEF TypeOK, Disturb

\* Admitting an event keeps types.
LEMMA AllowTyped ==
    ASSUME TypeOK, NEW p \in Cpu, NEW c \in Cell, NEW before \in Nat, Allow(p, c, before)
    PROVE  /\ pc' \in [Cpu -> {"idle", "lookup", "insert", "relookup", "read", "swap"}]
           /\ key' \in [Cpu -> Key \cup {NoKey}]
           /\ now' \in [Cpu -> 0 .. MaxTime]
           /\ current' \in [Cpu -> Nat]
           /\ attempt' \in [Cpu -> 0 .. Attempts - 1]
           /\ charged' \in [Cell -> Nat]
           /\ rivals' \in [Cpu -> 0 .. Attempts]
  <1>1. rivals' \in [Cpu -> 0 .. Attempts]
    BY DisturbTyped DEF Allow
  <1>2. charged' \in [Cell -> Nat]
    <2> DEFINE v == before + IF now[p] >= mark THEN Interval ELSE 0
    <2>1. v \in Nat
      BY RateAssumption
    <2>2. charged' = [charged EXCEPT ![c] = v]
      BY DEF Allow
    <2> HIDE DEF v
    <2>3. QED
      BY <2>1, <2>2 DEF TypeOK
  <1>3. Return(p)
    BY DEF Allow
  <1>4. QED
    BY <1>1, <1>2, <1>3, RateAssumption DEF Return, GoTo, TypeOK

\* Denying an event keeps types.
LEMMA DenyTyped ==
    ASSUME TypeOK, NEW p \in Cpu, Deny(p)
    PROVE  /\ pc' \in [Cpu -> {"idle", "lookup", "insert", "relookup", "read", "swap"}]
           /\ key' \in [Cpu -> Key \cup {NoKey}]
           /\ now' \in [Cpu -> 0 .. MaxTime]
           /\ current' \in [Cpu -> Nat]
           /\ attempt' \in [Cpu -> 0 .. Attempts - 1]
           /\ charged' \in [Cell -> Nat]
           /\ rivals' \in [Cpu -> 0 .. Attempts]
  BY RateAssumption DEF Deny, Return, GoTo, TypeOK

\* The value a swap writes is a time.
LEMMA DesiredTyped ==
    ASSUME TypeOK, NEW p \in Cpu
    PROVE  /\ desired(p) \in Nat
           /\ desired(p) >= current[p] + Interval /\ desired(p) >= now[p] + Interval
           /\ desired(p) = current[p] + Interval \/ desired(p) = now[p] + Interval
  BY RateAssumption DEF TypeOK, desired

\* Every step of rate_limit_allows, the clock and the LRU map keeps types.
LEMMA RateTypeStep == Inv /\ [Next]_vars => TypeOK'
  <1> SUFFICES ASSUME Inv, [Next]_vars PROVE TypeOK'
    OBVIOUS
  <1>0. TypeOK
    BY DEF Inv
  <1>1. CASE Tick
    BY <1>0, <1>1, RateAssumption DEF Tick, TypeOK, mapVars, callVars
  <1>2. ASSUME NEW c \in Cell, Evict(c) PROVE TypeOK'
    BY <1>0, <1>2 DEF Evict, TypeOK, callVars
  <1>3. ASSUME NEW p \in Cpu, NEW k \in Key, Call(p, k) PROVE TypeOK'
    BY <1>0, <1>3 DEF Call, GoTo, TypeOK, mapVars
  <1>4. ASSUME NEW p \in Cpu, NEW c \in Cell, LookupHit(p, c) PROVE TypeOK'
    BY <1>0, <1>4 DEF LookupHit, GoTo, TypeOK, mapVars
  <1>5. ASSUME NEW p \in Cpu, LookupMiss(p) \/ InsertFails(p) \/ Read(p) PROVE TypeOK'
    BY <1>0, <1>5 DEF LookupMiss, InsertFails, Read, GoTo, TypeOK, mapVars
  <1>6. ASSUME NEW p \in Cpu, RelookupMiss(p) \/ ReadDeny(p) PROVE TypeOK'
    <2>1. Deny(p) /\ UNCHANGED <<time, owner, next_event_ns, state, mark>>
      BY <1>6 DEF RelookupMiss, ReadDeny
    <2>2. QED
      BY <1>0, <2>1, DenyTyped DEF TypeOK
  <1>7. ASSUME NEW p \in Cpu, NEW c \in Cell, Insert(p, c) PROVE TypeOK'
    <2>1. Allow(p, c, 0) /\ UNCHANGED <<time, state, mark>>
      BY <1>7 DEF Insert
    <2>2. owner' \in [Cell -> Key \cup {NoKey}] /\ next_event_ns' \in [Cell -> Nat]
      BY <1>0, <1>7, RateAssumption DEF Insert, TypeOK
    <2>3. QED
      BY <1>0, <2>1, <2>2, AllowTyped DEF TypeOK
  <1>8. ASSUME NEW p \in Cpu, SwapOk(p) PROVE TypeOK'
    <2>1. /\ Allow(p, state[p], charged[state[p]]) /\ UNCHANGED <<time, owner, state, mark>>
          /\ state[p] \in Cell /\ charged[state[p]] \in Nat
      BY <1>0, <1>8 DEF SwapOk, TypeOK
    <2>2. next_event_ns' \in [Cell -> Nat]
      BY <1>0, <1>8, DesiredTyped DEF SwapOk, TypeOK
    <2>3. QED
      BY <1>0, <2>1, <2>2, AllowTyped DEF TypeOK
  <1>9. ASSUME NEW p \in Cpu, SwapLost(p) PROVE TypeOK'
    <2>1. CASE attempt[p] + 1 < Attempts
      BY <1>0, <1>9, <2>1, RateAssumption DEF SwapLost, GoTo, TypeOK
    <2>2. CASE Deny(p)
      BY <1>0, <1>9, <2>2, DenyTyped DEF SwapLost, TypeOK
    <2>3. QED
      BY <1>9, <2>1, <2>2 DEF SwapLost
  <1>10. CASE UNCHANGED vars
    BY <1>0, <1>10 DEF vars, mapVars, callVars, TypeOK
  <1>11. QED
    BY <1>1, <1>2, <1>3, <1>4, <1>5, <1>6, <1>7, <1>8, <1>9, <1>10 DEF Next, Step

-----------------------------------------------------------------------------
\* What admitting an event does, for the bounds below.
LEMMA AllowEffect ==
    ASSUME TypeOK, NEW p \in Cpu, NEW c \in Cell, NEW before \in Nat, Allow(p, c, before)
    PROVE  /\ \/ charged'[c] = before + Interval /\ now[p] >= mark
              \/ charged'[c] = before /\ now[p] < mark
           /\ \A d \in Cell \ {c} : charged'[d] = charged[d]
           /\ \A q \in Cpu : now'[q] = now[q] \/ now'[q] = 0
           /\ \A q \in Cpu : pc'[q] = "swap" =>
                  q # p /\ pc[q] = "swap" /\ now'[q] = now[q] /\ current'[q] = current[q]
  <1>1. Return(p)
    BY DEF Allow
  <1>2. /\ \A q \in Cpu : now'[q] = now[q] \/ now'[q] = 0
        /\ \A q \in Cpu : pc'[q] = "swap" =>
              q # p /\ pc[q] = "swap" /\ now'[q] = now[q] /\ current'[q] = current[q]
    BY <1>1 DEF Return, GoTo, TypeOK
  <1> DEFINE w == IF now[p] >= mark THEN Interval ELSE 0
             v == before + w
  <1>3. charged' = [charged EXCEPT ![c] = v]
    BY DEF Allow
  <1>4. (w = Interval /\ now[p] >= mark) \/ (w = 0 /\ now[p] < mark)
    BY DEF TypeOK
  <1>5. (v = before + Interval /\ now[p] >= mark) \/ (v = before /\ now[p] < mark)
    <2> HIDE DEF w
    <2> QED BY <1>4
  <1>6. charged'[c] = v /\ \A d \in Cell \ {c} : charged'[d] = charged[d]
    <2> HIDE DEF v
    <2> QED BY <1>3 DEF TypeOK
  <1>7. QED
    <2> HIDE DEF v
    <2> QED BY <1>2, <1>5, <1>6

\* A step that admits or denies nothing for p leaves the accounts alone.
LEMMA QuietStep ==
    ASSUME Inv, UNCHANGED <<next_event_ns, charged, mark>>, time' \in Nat, time' >= time,
           \A q \in Cpu : now'[q] <= time',
           \A q \in Cpu : pc'[q] = "swap" => current'[q] <= now'[q] + burst_ns
    PROVE  ClockRead' /\ BudgetChecked' /\ Horizon' /\ Paid'
  <1>1. ClockRead' /\ BudgetChecked'
    BY BurstTolerance DEF ClockRead, BudgetChecked, burst_ns
  <1>2. Horizon'
    BY BurstTolerance DEF Inv, Horizon, TypeOK, burst_ns
  <1>3. Paid'
    BY DEF Inv, Paid
  <1>4. QED
    BY <1>1, <1>2, <1>3

\* Admitting an event at a value at least one interval on, but within the horizon,
\* keeps the account of the cell paid.
LEMMA AdmitBounds ==
    ASSUME Inv, NEW p \in Cpu, NEW c \in Cell, NEW before \in Nat, NEW v \in Nat,
           Allow(p, c, before), UNCHANGED <<time, mark>>,
           next_event_ns' = [next_event_ns EXCEPT ![c] = v],
           v <= time + burst_ns + Interval,
           v >= now[p] + Interval,
           before > 0 => v >= mark + before + Interval
    PROVE  ClockRead' /\ BudgetChecked' /\ Horizon' /\ Paid'
  <1>1. TypeOK
    BY DEF Inv
  <1>2. /\ \/ charged'[c] = before + Interval /\ now[p] >= mark
           \/ charged'[c] = before /\ now[p] < mark
        /\ \A d \in Cell \ {c} : charged'[d] = charged[d]
    BY <1>1, AllowEffect
  <1>3. /\ \A q \in Cpu : now'[q] = now[q] \/ now'[q] = 0
        /\ \A q \in Cpu : pc'[q] = "swap" =>
               q # p /\ pc[q] = "swap" /\ now'[q] = now[q] /\ current'[q] = current[q]
    BY <1>1, AllowEffect
  <1>4. next_event_ns'[c] = v /\ \A d \in Cell \ {c} : next_event_ns'[d] = next_event_ns[d]
    BY <1>1 DEF TypeOK
  <1>5. ClockRead' /\ BudgetChecked'
    BY <1>1, <1>3 DEF Inv, ClockRead, BudgetChecked, TypeOK, burst_ns
  <1>6. Horizon'
    <2> SUFFICES ASSUME NEW d \in Cell PROVE next_event_ns'[d] <= time' + burst_ns + Interval
      BY DEF Horizon, burst_ns
    <2>1. CASE d = c
      BY <1>4, <2>1
    <2>2. CASE d # c
      BY <1>4, <2>2 DEF Inv, Horizon
    <2>3. QED
      BY <2>1, <2>2
  <1>7. Paid'
    <2> SUFFICES ASSUME NEW d \in Cell, charged'[d] > 0
                 PROVE  next_event_ns'[d] >= mark' + charged'[d]
      BY DEF Paid
    <2>1. CASE d = c
      <3>1. mark \in Nat /\ now[p] \in Nat /\ Interval \in Nat
        BY <1>1, BurstTolerance DEF TypeOK
      <3>2. before \in Nat /\ v \in Nat
        OBVIOUS
      <3>3. v >= mark + charged'[c]
        BY <1>2, <2>1, <3>1, <3>2
      <3>4. QED
        BY <1>4, <2>1, <3>3
    <2>2. CASE d # c
      BY <1>2, <1>4, <2>2 DEF Inv, Paid
    <2>3. QED
      BY <2>1, <2>2
  <1>8. QED
    BY <1>5, <1>6, <1>7

\* Denying an event, and every step inside a call, changes no account.
LEMMA DenyBounds ==
    ASSUME Inv, NEW p \in Cpu, Deny(p), UNCHANGED <<time, next_event_ns, mark>>
    PROVE  ClockRead' /\ BudgetChecked' /\ Horizon' /\ Paid'
  <1>1. /\ \A q \in Cpu : now'[q] = now[q] \/ now'[q] = 0
        /\ \A q \in Cpu : pc'[q] = "swap" =>
               pc[q] = "swap" /\ now'[q] = now[q] /\ current'[q] = current[q]
        /\ charged' = charged /\ time' \in Nat /\ time' >= time
    BY DEF Inv, TypeOK, Deny, Return, GoTo
  <1>2. \A q \in Cpu : now'[q] <= time'
    BY <1>1 DEF Inv, ClockRead, TypeOK
  <1>3. \A q \in Cpu : pc'[q] = "swap" => current'[q] <= now'[q] + burst_ns
    BY <1>1 DEF Inv, BudgetChecked
  <1>4. QED
    BY <1>1, <1>2, <1>3, QuietStep

\* Every step keeps what each bucket has granted within what it has been paid.
LEMMA BoundStep ==
    Inv /\ [Next]_vars => ClockRead' /\ BudgetChecked' /\ Horizon' /\ Paid'
  <1> DEFINE Goal == ClockRead' /\ BudgetChecked' /\ Horizon' /\ Paid'
             Within == \A q \in Cpu : pc'[q] = "swap" => current'[q] <= now'[q] + burst_ns
             OnTime == \A q \in Cpu : now'[q] <= time'
  <1> SUFFICES ASSUME Inv, [Next]_vars PROVE Goal
    OBVIOUS
  <1>0. TypeOK /\ ClockRead /\ BudgetChecked /\ time \in Nat
    BY DEF Inv, TypeOK
  <1>1. CASE Tick
    <2>1. time' \in Nat /\ time' >= time /\ OnTime
      BY <1>0, <1>1 DEF Tick, ClockRead, callVars, TypeOK
    <2>2. Within
      BY <1>0, <1>1 DEF Tick, BudgetChecked, callVars
    <2>3. QED
      BY <1>1, <2>1, <2>2, QuietStep DEF Tick, mapVars
  <1>2. ASSUME NEW c \in Cell, Evict(c) PROVE Goal
    <2>1. OnTime /\ Within
      BY <1>0, <1>2 DEF Evict, ClockRead, BudgetChecked, callVars
    <2>2. QED
      BY <1>0, <1>2, <2>1, QuietStep DEF Evict
  <1>3. ASSUME NEW p \in Cpu, NEW k \in Key, Call(p, k) PROVE Goal
    <2>1. OnTime
      BY <1>0, <1>3 DEF Call, ClockRead, TypeOK
    <2>2. Within
      BY <1>0, <1>3 DEF Call, GoTo, BudgetChecked, TypeOK
    <2>3. QED
      BY <1>0, <1>3, <2>1, <2>2, QuietStep DEF Call, mapVars
  <1>4. ASSUME NEW p \in Cpu, NEW c \in Cell, LookupHit(p, c) PROVE Goal
    <2>1. OnTime /\ Within
      BY <1>0, <1>4 DEF LookupHit, GoTo, ClockRead, BudgetChecked, TypeOK
    <2>2. QED
      BY <1>0, <1>4, <2>1, QuietStep DEF LookupHit, mapVars
  <1>5. ASSUME NEW p \in Cpu, LookupMiss(p) \/ InsertFails(p) PROVE Goal
    <2>1. OnTime /\ Within
      BY <1>0, <1>5 DEF LookupMiss, InsertFails, GoTo, ClockRead, BudgetChecked, TypeOK
    <2>2. QED
      BY <1>0, <1>5, <2>1, QuietStep DEF LookupMiss, InsertFails, mapVars
  <1>6. ASSUME NEW p \in Cpu, Read(p) PROVE Goal
    <2>1. OnTime
      BY <1>0, <1>6 DEF Read, ClockRead
    <2>2. next_event_ns[state[p]] <= now[p] + burst_ns
      BY <1>0, <1>6, BurstTolerance DEF Read, OverBudget, TypeOK
    <2>3. Within
      BY <1>0, <1>6, <2>2 DEF Read, GoTo, BudgetChecked, TypeOK
    <2>4. QED
      BY <1>0, <1>6, <2>1, <2>3, QuietStep DEF Read, mapVars
  <1>7. ASSUME NEW p \in Cpu, RelookupMiss(p) \/ ReadDeny(p) PROVE Goal
    BY <1>7, DenyBounds DEF RelookupMiss, ReadDeny
  <1>8. ASSUME NEW p \in Cpu, NEW c \in Cell, Insert(p, c) PROVE Goal
    <2> DEFINE v == now[p] + Interval
    <2>1. v \in Nat /\ v <= time + burst_ns + Interval /\ v >= now[p] + Interval
      BY <1>0, BurstTolerance DEF TypeOK, ClockRead
    <2>2. /\ Allow(p, c, 0) /\ UNCHANGED <<time, mark>>
          /\ next_event_ns' = [next_event_ns EXCEPT ![c] = v]
      BY <1>8 DEF Insert
    <2> HIDE DEF v
    <2>3. 0 \in Nat /\ (0 > 0 => v >= mark + 0 + Interval)
      OBVIOUS
    <2>4. QED
      BY <2>1, <2>2, <2>3, AdmitBounds
  <1>9. ASSUME NEW p \in Cpu, SwapOk(p) PROVE Goal
    <2> DEFINE c == state[p]
               v == desired(p)
               b == charged[c]
    <2>1. c \in Cell /\ b \in Nat /\ next_event_ns[c] = current[p]
      BY <1>0, <1>9 DEF TypeOK, SwapOk
    <2>2. /\ v \in Nat /\ v >= current[p] + Interval /\ v >= now[p] + Interval
          /\ v = current[p] + Interval \/ v = now[p] + Interval
      BY <1>0, DesiredTyped
    <2>3. current[p] <= now[p] + burst_ns /\ now[p] <= time
      BY <1>0, <1>9 DEF SwapOk, BudgetChecked, ClockRead
    <2>4. /\ Allow(p, c, b) /\ UNCHANGED <<time, mark>>
          /\ next_event_ns' = [next_event_ns EXCEPT ![c] = v]
      BY <1>9 DEF SwapOk
    <2>5. b > 0 => current[p] >= mark + b
      BY <2>1 DEF Inv, Paid
    <2>6. current[p] \in Nat /\ now[p] \in Nat /\ mark \in Nat
      BY <1>0 DEF TypeOK
    <2> HIDE DEF c, v, b
    <2>7. v <= time + burst_ns + Interval
      BY <1>0, <2>2, <2>3, <2>6, BurstTolerance
    <2>8. b > 0 => v >= mark + b + Interval
      BY <2>1, <2>2, <2>5, <2>6, BurstTolerance
    <2>9. QED
      BY <2>1, <2>2, <2>4, <2>7, <2>8, AdmitBounds
  <1>10. ASSUME NEW p \in Cpu, SwapLost(p) PROVE Goal
    <2>1. CASE attempt[p] + 1 < Attempts
      <3>1. OnTime /\ Within
        BY <1>0, <1>10, <2>1 DEF SwapLost, GoTo, ClockRead, BudgetChecked, TypeOK
      <3>2. QED
        BY <1>0, <1>10, <2>1, <3>1, QuietStep DEF SwapLost
    <2>2. CASE Deny(p)
      BY <1>10, <2>2, DenyBounds DEF SwapLost
    <2>3. QED
      BY <1>10, <2>1, <2>2 DEF SwapLost
  <1>11. CASE UNCHANGED vars
    <2>1. OnTime /\ Within
      BY <1>0, <1>11 DEF vars, callVars, ClockRead, BudgetChecked
    <2>2. QED
      BY <1>0, <1>11, <2>1, QuietStep DEF vars, mapVars
  <1>12. QED
    BY <1>1, <1>2, <1>3, <1>4, <1>5, <1>6, <1>7, <1>8, <1>9, <1>10, <1>11 DEF Next, Step

-----------------------------------------------------------------------------
\* A change of a cell is noticed by every call that is about to swap it.
LEMMA DisturbEffect ==
    ASSUME Inv, NEW p \in Cpu, NEW c \in Cell, NEW v, Disturb(p, c), Return(p),
           UNCHANGED state, next_event_ns' = [next_event_ns EXCEPT ![c] = v]
    PROVE  RetryOnlyAfterRival'
  <1>1. TypeOK /\ RetryOnlyAfterRival /\ Attempts \in Nat
    BY RateAssumption DEF Inv
  <1> SUFFICES ASSUME NEW q \in Cpu
               PROVE  /\ attempt'[q] <= rivals'[q]
                      /\ pc'[q] = "swap" /\ next_event_ns'[state'[q]] # current'[q] =>
                           attempt'[q] < rivals'[q]
    BY DEF RetryOnlyAfterRival
  <1>2. CASE q = p
    BY <1>1, <1>2 DEF TypeOK, Return, GoTo, Disturb
  <1>3. CASE q # p
    <2>1. /\ attempt'[q] = attempt[q] /\ pc'[q] = pc[q] /\ current'[q] = current[q]
          /\ state'[q] = state[q] /\ state[q] \in Cell
          /\ rivals[q] \in 0 .. Attempts /\ attempt[q] \in 0 .. Attempts - 1
          /\ attempt[q] <= rivals[q]
      BY <1>1, <1>3 DEF TypeOK, Return, GoTo, RetryOnlyAfterRival
    <2>2. CASE pc[q] = "swap" /\ state[q] = c /\ rivals[q] < Attempts
      <3>1. rivals'[q] = rivals[q] + 1
        BY <1>3, <2>2 DEF Disturb
      <3>2. QED
        BY <1>1, <2>1, <3>1
    <2>3. CASE ~(pc[q] = "swap" /\ state[q] = c /\ rivals[q] < Attempts)
      <3>1. rivals'[q] = rivals[q]
        BY <1>3, <2>3 DEF Disturb
      <3>2. CASE state[q] # c
        <4>1. next_event_ns'[state[q]] = next_event_ns[state[q]]
          BY <1>1, <2>1, <3>2 DEF TypeOK
        <4>2. QED
          BY <1>1, <2>1, <3>1, <4>1 DEF RetryOnlyAfterRival
      <3>3. CASE state[q] = c /\ rivals[q] = Attempts
        BY <1>1, <2>1, <3>1, <3>3
      <3>4. CASE pc[q] # "swap"
        BY <2>1, <3>1, <3>4
      <3>5. QED
        BY <1>1, <2>1, <2>3, <3>2, <3>3, <3>4
    <2>4. QED
      BY <2>2, <2>3
  <1>4. QED
    BY <1>2, <1>3

\* Every step keeps the count of lost attempts below the count of rivals' changes.
LEMMA RetryStep == Inv /\ [Next]_vars => RetryOnlyAfterRival'
  <1> SUFFICES ASSUME Inv, [Next]_vars PROVE RetryOnlyAfterRival'
    OBVIOUS
  <1>0. TypeOK /\ RetryOnlyAfterRival
    BY DEF Inv
  <1> USE DEF RetryOnlyAfterRival
  <1>1. CASE Tick \/ UNCHANGED vars
    BY <1>0, <1>1 DEF Tick, vars, mapVars, callVars
  <1>2. ASSUME NEW c \in Cell, Evict(c) PROVE RetryOnlyAfterRival'
    BY <1>0, <1>2 DEF Evict, callVars
  <1>3. ASSUME NEW p \in Cpu, NEW k \in Key, Call(p, k) PROVE RetryOnlyAfterRival'
    BY <1>0, <1>3 DEF Call, GoTo, mapVars, TypeOK
  <1>4. ASSUME NEW p \in Cpu, NEW c \in Cell, LookupHit(p, c) PROVE RetryOnlyAfterRival'
    BY <1>0, <1>4 DEF LookupHit, GoTo, mapVars, TypeOK
  <1>5. ASSUME NEW p \in Cpu, LookupMiss(p) \/ InsertFails(p) PROVE RetryOnlyAfterRival'
    BY <1>0, <1>5 DEF LookupMiss, InsertFails, GoTo, mapVars, TypeOK
  <1>6. ASSUME NEW p \in Cpu, Read(p) PROVE RetryOnlyAfterRival'
    BY <1>0, <1>6 DEF Read, GoTo, mapVars, TypeOK
  <1>7. ASSUME NEW p \in Cpu, Deny(p), UNCHANGED <<next_event_ns, state>>
        PROVE  RetryOnlyAfterRival'
    BY <1>0, <1>7 DEF Deny, Return, GoTo, TypeOK
  <1>8. ASSUME NEW p \in Cpu, RelookupMiss(p) \/ ReadDeny(p) PROVE RetryOnlyAfterRival'
    BY <1>7, <1>8 DEF RelookupMiss, ReadDeny
  <1>9. ASSUME NEW p \in Cpu, NEW c \in Cell, Insert(p, c) PROVE RetryOnlyAfterRival'
    <2> HIDE DEF RetryOnlyAfterRival
    <2> QED BY <1>9, DisturbEffect DEF Insert, Allow
  <1>10. ASSUME NEW p \in Cpu, SwapOk(p) PROVE RetryOnlyAfterRival'
    <2> HIDE DEF RetryOnlyAfterRival
    <2>1. state[p] \in Cell
      BY <1>0 DEF TypeOK
    <2> QED BY <1>10, <2>1, DisturbEffect DEF SwapOk, Allow
  <1>11. ASSUME NEW p \in Cpu, SwapLost(p) PROVE RetryOnlyAfterRival'
    <2>1. CASE attempt[p] + 1 < Attempts
      <3>1. attempt[p] < rivals[p]
        BY <1>0, <1>11 DEF SwapLost
      <3>2. QED
        BY <1>0, <1>11, <2>1, <3>1 DEF SwapLost, GoTo, TypeOK
    <2>2. CASE Deny(p)
      BY <1>7, <1>11, <2>2 DEF SwapLost
    <2>3. QED
      BY <1>11, <2>1, <2>2 DEF SwapLost
  <1>12. QED
    BY <1>1, <1>2, <1>3, <1>4, <1>5, <1>6, <1>8, <1>9, <1>10, <1>11 DEF Next, Step

-----------------------------------------------------------------------------
\* The inductive invariant holds throughout.
THEOREM RateInvariant == Spec => []Inv
  <1>1. Inv /\ [Next]_vars => Inv'
    BY RateTypeStep, BoundStep, RetryStep DEF Inv
  <1>2. QED
    BY <1>1, InitInv, PTL DEF Spec

\* Every variable of the limiter keeps its type; in particular no call makes more
\* than Attempts attempts.
THEOREM RateTypes == Spec => []TypeOK
  <1>1. Inv => TypeOK
    BY DEF Inv
  <1>2. QED
    BY <1>1, RateInvariant, PTL

\* rate_limit_allows grants no more than rate and burst in any window of time, for
\* any number of CPUs racing for a key.
THEOREM RateRespected == Spec => []WindowBound
  <1>1. Inv => WindowBound
    <2> SUFFICES ASSUME Inv, NEW c \in Cell, charged[c] > 0
                 PROVE  charged[c] <= (time - mark) + Interval * Burst
      BY DEF WindowBound
    <2> DEFINE whole == Interval * Burst
    <2>1. burst_ns \in Nat /\ Interval \in Nat /\ burst_ns + Interval = whole
      BY BurstTolerance
    <2>2. /\ next_event_ns[c] <= time + burst_ns + Interval
          /\ next_event_ns[c] >= mark + charged[c]
      BY DEF Inv, Horizon, Paid
    <2>3. /\ next_event_ns[c] \in Nat /\ time \in Nat /\ mark \in Nat /\ charged[c] \in Nat
      BY DEF Inv, TypeOK
    <2> HIDE DEF whole
    <2>4. charged[c] <= (time - mark) + whole
      BY <2>1, <2>2, <2>3
    <2>5. QED
      BY <2>4 DEF whole
  <1>2. QED
    BY <1>1, RateInvariant, PTL

\* The retry loop is lock-free: an attempt is lost only to another CPU's progress.
THEOREM RetriesJustified == Spec => []RetryOnlyAfterRival
  <1>1. Inv => RetryOnlyAfterRival
    BY DEF Inv
  <1>2. QED
    BY <1>1, RateInvariant, PTL

\* Two CPUs never admit an event on the same token.
THEOREM TokensAreExclusive == Spec => TokensNotShared
  <1> DEFINE A == \A c \in Cell : owner'[c] = owner[c] =>
                    \/ next_event_ns'[c] = next_event_ns[c]
                    \/ next_event_ns'[c] >= next_event_ns[c] + Interval
  <1>1. Inv /\ [Next]_vars => [A]_vars
    <2> SUFFICES ASSUME Inv, Next PROVE A
      OBVIOUS
    <2>0. TypeOK
      BY DEF Inv
    <2>1. ASSUME NEW p \in Cpu, SwapOk(p) PROVE A
      <3>1. desired(p) >= next_event_ns[state[p]] + Interval
        BY <2>0, <2>1, DesiredTyped DEF SwapOk
      <3>2. QED
        BY <2>0, <2>1, <3>1 DEF SwapOk, TypeOK
    <2>2. ASSUME NEW p \in Cpu, NEW d \in Cell, Insert(p, d) PROVE A
      <3>1. pc[p] = "insert" /\ key[p] # NoKey
        BY <2>0, <2>2 DEF Insert, Found
      <3>2. QED
        BY <2>0, <2>2, <3>1 DEF Insert, TypeOK
    <2>3. CASE UNCHANGED next_event_ns
      BY <2>3
    <2>4. ASSUME NEW p \in Cpu, NEW c \in Cell, LookupHit(p, c)
          PROVE  UNCHANGED next_event_ns
      BY <2>4 DEF LookupHit, mapVars
    <2>5. ASSUME NEW p \in Cpu, \/ LookupMiss(p) \/ RelookupMiss(p) \/ InsertFails(p)
                                \/ ReadDeny(p) \/ Read(p) \/ SwapLost(p)
          PROVE  UNCHANGED next_event_ns
      BY <2>5 DEF LookupMiss, RelookupMiss, InsertFails, ReadDeny, Read, SwapLost, mapVars
    <2>6. Tick => UNCHANGED next_event_ns
      BY DEF Tick, mapVars
    <2>7. ASSUME NEW c \in Cell, Evict(c) PROVE UNCHANGED next_event_ns
      BY <2>7 DEF Evict
    <2>8. ASSUME NEW p \in Cpu, NEW k \in Key, Call(p, k) PROVE UNCHANGED next_event_ns
      BY <2>8 DEF Call, mapVars
    <2> HIDE DEF A
    <2>9. QED
      BY <2>1, <2>2, <2>3, <2>4, <2>5, <2>6, <2>7, <2>8 DEF Next, Step
  <1>2. QED
    BY <1>1, RateInvariant, PTL DEF Spec, TokensNotShared

-----------------------------------------------------------------------------
(* The pairing of entries and exits of system calls.                       *)

\* A call belongs to one living task, a PID to one too, and no number is ahead of made.
KernelInv ==
    /\ \A t \in Task : in_call[t] # NoCall => pid[t] # NoPid
    /\ \A t, u \in Task : t # u /\ pid[t] # NoPid => pid[t] # pid[u]
    /\ \A t \in Task : in_call[t] <= made
    /\ \A t, u \in Task : t # u /\ in_call[t] # NoCall => in_call[t] # in_call[u]

\* The host sensor has heard of no call that was not made.
HostPast ==
    /\ \A p \in Pid : inflight_syscalls[p] <= made
    /\ \A c \in recorded \cup unseen : c <= made
    /\ \A e \in exits : e.at <= made /\ e.named <= made

\* A stored number is that of a call in progress under this PID, of one that changed the
\* PID, or of one whose exit went unseen.
StoredOf ==
    \A p \in Pid : inflight_syscalls[p] # NoCall =>
        \/ inflight_syscalls[p] \in unseen \cup renamed
        \/ \E t \in Task : pid[t] = p /\ in_call[t] = inflight_syscalls[p]

\* A call in progress has not been seen to return, and is stored under the task's PID if it
\* was recorded under that one.
InProgress ==
    \A t \in Task : in_call[t] # NoCall =>
        /\ \A e \in exits : e.at # in_call[t]
        /\ in_call[t] \in recorded => inflight_syscalls[pid[t]] = in_call[t] \/ in_call[t] \in renamed

\* A stored number is stored once, and has not been given out.
StoredFresh ==
    /\ \A p, q \in Pid : p # q /\ inflight_syscalls[p] # NoCall =>
                           inflight_syscalls[p] # inflight_syscalls[q]
    /\ \A p \in Pid : \A e \in exits :
          inflight_syscalls[p] # NoCall /\ e.at \notin torn => e.named # inflight_syscalls[p]

\* A pointer that was looked up leads to the entry of the task's PID, unless that was evicted.
LookedUp ==
    \A t \in Task : syscall_id[t] # NotAsked =>
        /\ in_call[t] # NoCall /\ sysno[in_call[t]] \notin Fatal
        /\ in_call[t] \notin torn => syscall_id[t] = inflight_syscalls[pid[t]]

HostInv ==
    /\ HostPast /\ StoredOf /\ InProgress /\ StoredFresh /\ LookedUp
    /\ ExitNamed /\ MissingJustified /\ NamedOnce

\* The network sensor has heard of no call that was not made, and only of network calls.
NetworkPast ==
    /\ \A t \in Task : active_network_calls[t] <= made
    /\ \A c \in begun \cup skipped : c <= made
    /\ \A c \in begun : TypeOfCall(c) # NoType
    /\ \A r \in records : r.at <= made /\ r.of <= made

\* A record in storage is of the call in progress, or of one whose exit was skipped; and
\* only of the former if that was looked at.
PendingOf ==
    \A t \in Task :
        /\ active_network_calls[t] # NoCall =>
             /\ active_network_calls[t] \in begun
             /\ active_network_calls[t] \in skipped \/ active_network_calls[t] = in_call[t]
        /\ in_call[t] \in begun => active_network_calls[t] \in {NoCall, in_call[t]}

\* A record in storage is there once, and has not been submitted.
PendingFresh ==
    /\ \A t, u \in Task : t # u /\ active_network_calls[t] # NoCall =>
                            active_network_calls[t] # active_network_calls[u]
    /\ \A t \in Task : \A r \in records : active_network_calls[t] # NoCall => r.of # active_network_calls[t]

NetworkInv ==
    /\ NetworkPast /\ PendingOf /\ PendingFresh
    /\ RecordOfItsCall /\ RecordedOnce

\* The inductive invariant.
IInv == SyscallTypeOK /\ KernelInv /\ HostInv /\ NetworkInv

-----------------------------------------------------------------------------
LEMMA InitIInv == SyscallInit => IInv
  <1> SUFFICES ASSUME SyscallInit PROVE IInv
    OBVIOUS
  <1> USE SyscallAssumption DEF SyscallInit, CallId, NoCall, NotAsked
  <1>1. SyscallTypeOK
    <2>1. target \in [Task -> BOOLEAN]
      BY DEF Alive
    <2> QED
      BY <2>1 DEF SyscallTypeOK
  <1>2. KernelInv
    BY DEF KernelInv, Alive
  <1>3. HostInv
    BY DEF HostInv, HostPast, StoredOf, InProgress, StoredFresh, LookedUp, ExitNamed, MissingJustified,
           NamedOnce
  <1>4. NetworkInv
    BY DEF NetworkInv, NetworkPast, PendingOf, PendingFresh, RecordOfItsCall, RecordedOnce
  <1> QED
    BY <1>1, <1>2, <1>3, <1>4 DEF IInv

-----------------------------------------------------------------------------
\* Every step keeps the types.
LEMMA TypeStep ==
    ASSUME SyscallTypeOK, LookedUp, [SyscallNext]_cvars
    PROVE  SyscallTypeOK'
  <1> USE SyscallAssumption DEF SyscallTypeOK, CallId, NoCall, NotAsked
  <1>1. ASSUME NEW t \in Task, NEW p \in Pid, TaskStarts(t, p) PROVE SyscallTypeOK'
    BY <1>1 DEF TaskStarts, hostVars, networkVars
  <1>2. ASSUME NEW t \in Task, TaskMoves(t) PROVE SyscallTypeOK'
    BY <1>2 DEF TaskMoves, hostVars, networkVars
  <1>3. ASSUME NEW t \in Task, NEW s \in Sysno, TaskEnters(t, s) PROVE SyscallTypeOK'
    <2>1. made + 1 \in CallId
      BY <1>3 DEF TaskEnters
    <2>2. /\ inflight_syscalls' \in [Pid -> CallId \cup {NoCall}]
          /\ exits' \subseteq [at : CallId, named : CallId \cup {NoCall}]
          /\ recorded' \subseteq CallId /\ unseen' \subseteq CallId
      <3>1. CASE target[t]
        <4>1. /\ inflight_syscalls' = [inflight_syscalls EXCEPT ![pid[t]] = made + 1]
              /\ recorded' = recorded \cup {made + 1}
              /\ exits' = exits /\ unseen' = unseen
          BY <1>3, <3>1 DEF TaskEnters, handle_syscall_enter, inflight_key
        <4> QED
          BY <2>1, <4>1
      <3>2. CASE ~target[t]
        BY <1>3, <3>2 DEF TaskEnters, handle_syscall_enter
      <3> QED
        BY <3>1, <3>2
    <2>3. /\ active_network_calls' \in [Task -> CallId \cup {NoCall}]
          /\ records' \subseteq [at : CallId, of : CallId]
          /\ begun' \subseteq CallId /\ skipped' \subseteq CallId
      <3>1. CASE begin_call(t, made + 1)
        <4>1. CASE target[t]
          <5>1. PICK stored \in {made + 1, NoCall} :
                  active_network_calls' = [active_network_calls EXCEPT ![t] = stored]
            BY <3>1, <4>1 DEF begin_call
          <5>2. begun' = begun \cup {made + 1} /\ records' = records /\ skipped' = skipped
            BY <3>1, <4>1 DEF begin_call
          <5> QED
            BY <2>1, <5>1, <5>2
        <4>2. CASE ~target[t]
          BY <3>1, <4>2 DEF begin_call
        <4> QED
          BY <4>1, <4>2
      <3>2. CASE UNCHANGED networkVars
        BY <3>2 DEF networkVars
      <3> QED
        BY <1>3, <3>1, <3>2 DEF TaskEnters
    <2>4. /\ in_call' = [in_call EXCEPT ![t] = made + 1] /\ made' = made + 1
          /\ sysno' = [sysno EXCEPT ![made + 1] = s]
          /\ pid' = pid /\ target' = target /\ renamed' = renamed
          /\ syscall_id' = syscall_id /\ torn' = torn
      BY <1>3 DEF TaskEnters, handle_syscall_enter
    <2> QED
      BY <2>1, <2>2, <2>3, <2>4
  <1>4. ASSUME NEW t \in Task, TaskReturns(t) PROVE SyscallTypeOK'
    <2> DEFINE c == in_call[t]
    <2>1. c \in CallId
      BY <1>4 DEF TaskReturns
    <2>2. /\ inflight_syscalls' \in [Pid -> CallId \cup {NoCall}]
          /\ exits' \subseteq [at : CallId, named : CallId \cup {NoCall}]
          /\ recorded' \subseteq CallId /\ unseen' \subseteq CallId
      <3>1. CASE syscall_id[t] # NotAsked
        <4>1. ReadThrough(t, c) \subseteq CallId \cup {NoCall}
          BY <3>1 DEF ReadThrough
        <4>2. /\ inflight_syscalls' = [inflight_syscalls EXCEPT ![pid[t]] = NoCall]
              /\ \A e \in exits' : e \in exits \/ e \in [at : {c}, named : ReadThrough(t, c)]
              /\ recorded' = recorded /\ unseen' = unseen
          BY <1>4, <3>1 DEF TaskReturns, handle_syscall_exit, ExitEvents, inflight_key
        <4> QED
          BY <2>1, <4>1, <4>2
      <3>2. CASE syscall_id[t] = NotAsked
        BY <1>4, <2>1, <3>2 DEF TaskReturns, handle_syscall_exit
      <3> QED
        BY <3>1, <3>2
    <2>3. /\ active_network_calls' \in [Task -> CallId \cup {NoCall}]
          /\ records' \subseteq [at : CallId, of : CallId]
          /\ begun' \subseteq CallId /\ skipped' \subseteq CallId
      <3>1. CASE complete_call(t, c)
        BY <2>1, <3>1 DEF complete_call
      <3>2. CASE UNCHANGED networkVars
        BY <3>2 DEF networkVars
      <3>3. CASE skipped' = skipped \cup {c} /\ UNCHANGED <<active_network_calls, records, begun>>
        BY <2>1, <3>3
      <3> QED
        BY <1>4, <3>1, <3>2, <3>3 DEF TaskReturns
    <2>4. syscall_id' \in [Task -> CallId \cup {NoCall, NotAsked}] /\ torn' = torn
      BY <1>4 DEF TaskReturns, handle_syscall_exit
    <2> QED
      BY <1>4, <2>1, <2>2, <2>3, <2>4 DEF TaskReturns
  <1>5. ASSUME NEW t \in Task, TaskEnds(t) PROVE SyscallTypeOK'
    BY <1>5 DEF TaskEnds
  <1>6. ASSUME NEW p \in Pid, EntryEvicted(p) PROVE SyscallTypeOK'
    <2>1. torn' \subseteq CallId
      <3>1. \A u \in Task : syscall_id[u] # NotAsked => in_call[u] \in CallId
        BY DEF LookedUp
      <3> SUFFICES ASSUME NEW x \in torn' PROVE x \in CallId
        OBVIOUS
      <3>2. x \in torn \/ \E u \in Task : x = in_call[u] /\ syscall_id[u] # NotAsked
        BY <1>6 DEF EntryEvicted
      <3> QED
        BY <3>1, <3>2
    <2> QED
      BY <1>6, <2>1 DEF EntryEvicted, kernelVars, networkVars
  <1>8. ASSUME NEW t \in Task, TaskExecs(t) PROVE SyscallTypeOK'
    <2>1. in_call[t] \in CallId /\ pid[t] \in Pid /\ Leader[pid[t]] \in Pid
      BY <1>8 DEF TaskExecs, Alive
    <2> QED
      BY <1>8, <2>1 DEF TaskExecs, hostVars, networkVars
  <1>9. ASSUME NEW t \in Task, TaskLooksUp(t) PROVE SyscallTypeOK'
    <2>1. inflight_syscalls[pid[t]] \in CallId \cup {NoCall}
      BY <1>9 DEF TaskLooksUp, Alive
    <2> QED
      BY <1>9, <2>1 DEF TaskLooksUp, lookup_syscall, inflight_key, kernelVars, networkVars
  <1>7. CASE UNCHANGED cvars
    BY <1>7 DEF cvars, kernelVars, hostVars, networkVars
  <1> QED
    BY <1>1, <1>2, <1>3, <1>4, <1>5, <1>6, <1>7, <1>8, <1>9 DEF SyscallNext

\* Every step keeps calls and PIDs apart.
LEMMA KernelStep ==
    ASSUME SyscallTypeOK, KernelInv, [SyscallNext]_cvars
    PROVE  KernelInv'
  <1> USE SyscallAssumption DEF SyscallTypeOK, KernelInv, CallId, NoCall, Alive
  <1>1. ASSUME NEW t \in Task, NEW p \in Pid, TaskStarts(t, p) PROVE KernelInv'
    BY <1>1 DEF TaskStarts
  <1>2. ASSUME NEW t \in Task, TaskMoves(t) PROVE KernelInv'
    BY <1>2 DEF TaskMoves
  <1>3. ASSUME NEW t \in Task, NEW s \in Sysno, TaskEnters(t, s) PROVE KernelInv'
    BY <1>3 DEF TaskEnters
  <1>4. ASSUME NEW t \in Task, TaskReturns(t) PROVE KernelInv'
    BY <1>4 DEF TaskReturns
  <1>5. ASSUME NEW t \in Task, TaskEnds(t) PROVE KernelInv'
    BY <1>5 DEF TaskEnds
  <1>6. ASSUME NEW p \in Pid, EntryEvicted(p) PROVE KernelInv'
    BY <1>6 DEF EntryEvicted, kernelVars
  <1>8. ASSUME NEW t \in Task, TaskExecs(t) PROVE KernelInv'
    <2> DEFINE q == Leader[pid[t]]
    <2>1. pid[t] \in Pid /\ q \in Pid /\ Leader[q] = q
      BY <1>8 DEF TaskExecs
    <2>2. ASSUME NEW u \in Task, u # t PROVE pid[u] # q
      BY <1>8, <2>1, <2>2 DEF TaskExecs, Process
    <2>3. pid' = [pid EXCEPT ![t] = q] /\ in_call' = in_call /\ made' = made
      BY <1>8 DEF TaskExecs
    <2> HIDE DEF q
    <2>4. \A u, v \in Task : u # v /\ pid'[u] # NoPid => pid'[u] # pid'[v]
      BY <2>1, <2>2, <2>3
    <2>5. \A u \in Task : in_call'[u] # NoCall => pid'[u] # NoPid
      BY <2>1, <2>3
    <2> QED
      BY <2>3, <2>4, <2>5
  <1>9. ASSUME NEW t \in Task, TaskLooksUp(t) PROVE KernelInv'
    BY <1>9 DEF TaskLooksUp, kernelVars
  <1>7. CASE UNCHANGED cvars
    BY <1>7 DEF cvars, kernelVars
  <1> QED
    BY <1>1, <1>2, <1>3, <1>4, <1>5, <1>6, <1>7, <1>8, <1>9 DEF SyscallNext

-----------------------------------------------------------------------------
\* Every step keeps what the host sensor knows in order.
LEMMA HostStep ==
    ASSUME SyscallTypeOK, KernelInv, HostInv, [SyscallNext]_cvars
    PROVE  HostInv'
  <1> USE SyscallAssumption DEF SyscallTypeOK, KernelInv, HostInv, HostPast, StoredOf, InProgress,
          StoredFresh, LookedUp, ExitNamed, MissingJustified, NamedOnce, CallId, NoCall, NotAsked, Alive
  <1>1. ASSUME NEW t \in Task, NEW p \in Pid, TaskStarts(t, p) PROVE HostInv'
    <2>1. /\ UNCHANGED <<hostVars, renamed>> /\ in_call[t] = NoCall /\ made' = made + 1
          /\ pid[t] = NoPid /\ pid' = [pid EXCEPT ![t] = p] /\ in_call' = [in_call EXCEPT ![t] = made + 1]
          /\ sysno' = [sysno EXCEPT ![made + 1] = Forking] /\ made + 1 \in CallId
      BY <1>1 DEF TaskStarts
    <2>2. /\ HostPast'
          /\ StoredFresh' /\ ExitNamed' /\ MissingJustified' /\ NamedOnce'
      <3>1. HostPast'
        <4>1. /\ made' = made + 1 /\ inflight_syscalls' = inflight_syscalls
              /\ recorded' = recorded /\ unseen' = unseen /\ exits' = exits
          BY <2>1 DEF hostVars
        <4>2. \A n \in Int : n <= made => n <= made + 1
          BY <2>1
        <4>3. \A p1 \in Pid : inflight_syscalls[p1] \in Int /\ inflight_syscalls[p1] <= made
          OBVIOUS
        <4>4. \A c \in recorded \cup unseen : c \in Int /\ c <= made
          OBVIOUS
        <4>5. \A e \in exits : e.at \in Int /\ e.named \in Int /\ e.at <= made /\ e.named <= made
          OBVIOUS
        <4> QED
          BY <4>1, <4>2, <4>3, <4>4, <4>5
      <3>2. StoredFresh' /\ ExitNamed' /\ MissingJustified' /\ NamedOnce'
        BY <2>1 DEF hostVars
      <3> QED
        BY <3>1, <3>2
    <2>3. StoredOf'
      <3> SUFFICES ASSUME NEW q \in Pid, inflight_syscalls[q] # NoCall,
                          inflight_syscalls[q] \notin unseen \cup renamed
                   PROVE  \E u \in Task : pid'[u] = q /\ in_call'[u] = inflight_syscalls[q]
        BY <2>1 DEF hostVars
      <3>1. PICK u \in Task : pid[u] = q /\ in_call[u] = inflight_syscalls[q]
        OBVIOUS
      <3>2. u # t
        BY <2>1, <3>1
      <3> QED
        BY <2>1, <3>1, <3>2
    <2>4. InProgress'
      <3> SUFFICES ASSUME NEW u \in Task, in_call'[u] # NoCall
                   PROVE  /\ \A e \in exits : e.at # in_call'[u]
                          /\ in_call'[u] \in recorded =>
                               inflight_syscalls[pid'[u]] = in_call'[u] \/ in_call'[u] \in renamed
        BY <2>1 DEF hostVars
      <3>1. CASE u = t
        <4>1. in_call'[u] = made + 1
          BY <2>1, <3>1
        <4> QED
          BY <2>1, <4>1
      <3>2. CASE u # t
        BY <2>1, <3>2
      <3> QED
        BY <3>1, <3>2
    <2>5. LookedUp'
      BY <2>1 DEF hostVars
    <2> QED
      BY <2>2, <2>3, <2>4, <2>5
  <1>2. ASSUME NEW t \in Task, TaskMoves(t) PROVE HostInv'
    BY <1>2 DEF TaskMoves, hostVars
  <1>3. ASSUME NEW t \in Task, NEW s \in Sysno, TaskEnters(t, s) PROVE HostInv'
    <2>1. /\ pid[t] \in Pid /\ in_call[t] = NoCall /\ made' = made + 1 /\ pid' = pid
          /\ in_call' = [in_call EXCEPT ![t] = made + 1] /\ made + 1 \in CallId
          /\ sysno' = [sysno EXCEPT ![made + 1] = s]
          /\ UNCHANGED <<exits, unseen, torn, renamed, syscall_id>>
      BY <1>3 DEF TaskEnters, handle_syscall_enter
    <2>2. CASE target[t]
      <3>1. /\ inflight_syscalls' = [inflight_syscalls EXCEPT ![pid[t]] = made + 1]
            /\ recorded' = recorded \cup {made + 1}
        BY <1>3, <2>2 DEF TaskEnters, handle_syscall_enter, inflight_key
      <3>2. HostPast'
        <4>1. \A n \in Int : n <= made => n <= made + 1
          BY <2>1
        <4>2. \A p \in Pid : inflight_syscalls'[p] \in Int /\ inflight_syscalls'[p] <= made + 1
          BY <2>1, <3>1
        <4>3. \A c \in recorded' \cup unseen : c \in Int /\ c <= made + 1
          BY <2>1, <3>1
        <4>4. \A e \in exits : e.at \in Int /\ e.named \in Int /\ e.at <= made /\ e.named <= made
          OBVIOUS
        <4> QED
          BY <2>1, <4>1, <4>2, <4>3, <4>4
      <3>3. StoredOf' /\ StoredFresh'
        BY <2>1, <3>1
      <3>4. InProgress'
        <4> SUFFICES ASSUME NEW u \in Task, in_call'[u] # NoCall
                     PROVE  /\ \A e \in exits : e.at # in_call'[u]
                            /\ in_call'[u] \in recorded' =>
                                 inflight_syscalls'[pid[u]] = in_call'[u] \/ in_call'[u] \in renamed
          BY <2>1
        <4>1. CASE u = t
          BY <2>1, <3>1, <4>1
        <4>2. CASE u # t
          <5>1. pid[u] # pid[t] /\ in_call'[u] = in_call[u] /\ in_call[u] <= made /\ pid[u] \in Pid
            BY <2>1, <4>2
          <5>2. inflight_syscalls'[pid[u]] = inflight_syscalls[pid[u]]
            BY <3>1, <5>1
          <5> QED
            BY <2>1, <3>1, <5>1, <5>2
        <4> QED
          BY <4>1, <4>2
      <3>5. ExitNamed' /\ MissingJustified' /\ NamedOnce'
        BY <2>1, <3>1
      <3>6. LookedUp'
        <4> SUFFICES ASSUME NEW u \in Task, syscall_id[u] # NotAsked
                     PROVE  /\ in_call'[u] # NoCall /\ sysno'[in_call'[u]] \notin Fatal
                            /\ in_call'[u] \notin torn => syscall_id[u] = inflight_syscalls'[pid[u]]
          BY <2>1
        <4>1. u # t /\ in_call[u] # NoCall
          BY <2>1
        <4>2. in_call'[u] = in_call[u] /\ in_call[u] <= made /\ pid[u] \in Pid /\ pid[u] # pid[t]
          BY <2>1, <4>1
        <4>3. inflight_syscalls'[pid[u]] = inflight_syscalls[pid[u]]
          BY <3>1, <4>2
        <4>4. sysno'[in_call[u]] = sysno[in_call[u]]
          BY <2>1, <4>1, <4>2
        <4> QED
          BY <4>1, <4>2, <4>3, <4>4
      <3> QED
        BY <3>2, <3>3, <3>4, <3>5, <3>6
    <2>3. CASE ~target[t]
      <3>1. inflight_syscalls' = inflight_syscalls /\ recorded' = recorded
        BY <1>3, <2>3 DEF TaskEnters, handle_syscall_enter
      <3>2. HostPast' /\ StoredOf' /\ StoredFresh' /\ ExitNamed' /\ MissingJustified' /\ NamedOnce'
        <4>1. \A n \in Int : n <= made => n <= made + 1
          BY <2>1
        <4>2. \A p \in Pid : inflight_syscalls[p] \in Int /\ inflight_syscalls[p] <= made
          OBVIOUS
        <4>3. \A c \in recorded \cup unseen : c \in Int /\ c <= made
          OBVIOUS
        <4>4. \A e \in exits : e.at \in Int /\ e.named \in Int /\ e.at <= made /\ e.named <= made
          OBVIOUS
        <4>5. HostPast'
          BY <2>1, <3>1, <4>1, <4>2, <4>3, <4>4
        <4>6. StoredOf'
          BY <2>1, <3>1
        <4>7. StoredFresh' /\ ExitNamed' /\ MissingJustified' /\ NamedOnce'
          BY <2>1, <3>1
        <4> QED
          BY <4>5, <4>6, <4>7
      <3>3. InProgress'
        BY <2>1, <3>1
      <3>4. LookedUp'
        <4> SUFFICES ASSUME NEW u \in Task, syscall_id[u] # NotAsked
                     PROVE  /\ in_call'[u] # NoCall /\ sysno'[in_call'[u]] \notin Fatal
                            /\ in_call'[u] \notin torn => syscall_id[u] = inflight_syscalls[pid[u]]
          BY <2>1, <3>1
        <4>1. u # t /\ in_call[u] # NoCall
          BY <2>1
        <4>2. in_call'[u] = in_call[u] /\ in_call[u] <= made
          BY <2>1, <4>1
        <4>3. sysno'[in_call[u]] = sysno[in_call[u]]
          BY <2>1, <4>1, <4>2
        <4> QED
          BY <4>1, <4>2, <4>3
      <3> QED
        BY <3>2, <3>3, <3>4
    <2> QED
      BY <2>2, <2>3
  <1>4. ASSUME NEW t \in Task, TaskReturns(t) PROVE HostInv'
    <2> DEFINE c == in_call[t]
    <2>1. /\ pid[t] \in Pid /\ c # NoCall /\ made' = made /\ pid' = pid /\ sysno' = sysno
          /\ in_call' = [in_call EXCEPT ![t] = NoCall]
          /\ syscall_id' = [syscall_id EXCEPT ![t] = NotAsked]
          /\ UNCHANGED <<recorded, torn, renamed>>
      BY <1>4 DEF TaskReturns, handle_syscall_exit
    <2>2. CASE syscall_id[t] # NotAsked
      <3>1. /\ inflight_syscalls' = [inflight_syscalls EXCEPT ![pid[t]] = NoCall]
            /\ unseen' = unseen
            /\ \A e \in exits' : e \in exits \/ (e.at = c /\ e.named \in ReadThrough(t, c))
        BY <1>4, <2>2 DEF TaskReturns, handle_syscall_exit, ExitEvents, inflight_key
      <3>2. ASSUME NEW n \in ReadThrough(t, c)
            PROVE  /\ n <= made
                   /\ c \notin torn => n = inflight_syscalls[pid[t]] /\ n \in {NoCall, c} \cup unseen \cup renamed
                   /\ n = NoCall => c \notin recorded \/ c \in renamed
        <4>1. CASE c \in torn
          BY <2>1, <4>1 DEF ReadThrough
        <4>2. CASE c \notin torn
          <5>1. n = inflight_syscalls[pid[t]] /\ n <= made
            BY <2>1, <2>2, <4>2 DEF ReadThrough
          <5>2. n \in {NoCall, c} \cup unseen \cup renamed
            BY <2>1, <5>1
          <5>3. n = NoCall => c \notin recorded \/ c \in renamed
            BY <2>1, <5>1
          <5> QED
            BY <4>2, <5>1, <5>2, <5>3
        <4> QED
          BY <4>1, <4>2
      <3>4. HostPast'
        BY <2>1, <3>1, <3>2
      <3>5. StoredOf'
        BY <2>1, <3>1
      <3>6. InProgress'
        BY <2>1, <3>1
      <3>7. ExitNamed' /\ MissingJustified'
        BY <2>1, <3>1, <3>2
      <3>8. NamedOnce'
        BY <2>1, <3>1, <3>2
      <3>9. StoredFresh'
        BY <2>1, <3>1, <3>2
      <3>10. LookedUp'
        BY <2>1, <3>1
      <3> QED
        BY <3>4, <3>5, <3>6, <3>7, <3>8, <3>9, <3>10
    <2>3. CASE syscall_id[t] = NotAsked
      <3>1. inflight_syscalls' = inflight_syscalls /\ exits' = exits /\ unseen' = unseen \cup {c}
        BY <1>4, <2>3 DEF TaskReturns, handle_syscall_exit
      <3>2. HostPast' /\ StoredOf' /\ InProgress' /\ StoredFresh'
        BY <2>1, <3>1
      <3>3. LookedUp' /\ ExitNamed' /\ MissingJustified' /\ NamedOnce'
        BY <2>1, <3>1
      <3> QED
        BY <3>2, <3>3
    <2> QED
      BY <2>2, <2>3
  <1>5. ASSUME NEW t \in Task, TaskEnds(t) PROVE HostInv'
    <2>1. /\ pid' = [pid EXCEPT ![t] = NoPid] /\ in_call' = [in_call EXCEPT ![t] = NoCall]
          /\ unseen' = IF in_call[t] = NoCall THEN unseen ELSE unseen \cup {in_call[t]}
          /\ UNCHANGED <<made, sysno, renamed, inflight_syscalls, syscall_id, exits, recorded, torn>>
      BY <1>5 DEF TaskEnds
    <2>2. syscall_id[t] = NotAsked
      BY <1>5 DEF TaskEnds
    <2>3. HostPast' /\ StoredFresh' /\ ExitNamed' /\ MissingJustified' /\ NamedOnce'
      BY <2>1
    <2>4. StoredOf' /\ InProgress'
      BY <2>1
    <2>5. LookedUp'
      BY <2>1, <2>2
    <2> QED
      BY <2>3, <2>4, <2>5
  <1>6. ASSUME NEW p \in Pid, EntryEvicted(p) PROVE HostInv'
    <2>1. /\ inflight_syscalls[p] # NoCall /\ recorded' = recorded \ {inflight_syscalls[p]}
          /\ inflight_syscalls' = [inflight_syscalls EXCEPT ![p] = NoCall]
          /\ UNCHANGED <<pid, in_call, made, sysno, renamed, syscall_id, exits, unseen>>
          /\ torn \subseteq torn'
          /\ \A u \in Task : pid[u] = p /\ syscall_id[u] # NotAsked => in_call[u] \in torn'
      BY <1>6 DEF EntryEvicted, kernelVars
    <2>2. HostPast' /\ StoredOf' /\ StoredFresh'
      BY <2>1
    <2>3. InProgress'
      BY <2>1
    <2>4. ExitNamed' /\ MissingJustified' /\ NamedOnce'
      BY <2>1
    <2>5. LookedUp'
      BY <2>1
    <2> QED
      BY <2>2, <2>3, <2>4, <2>5
  <1>8. ASSUME NEW t \in Task, TaskExecs(t) PROVE HostInv'
    <2>1. /\ in_call[t] # NoCall /\ pid[t] \in Pid /\ syscall_id[t] = NotAsked
          /\ \A u \in Task : u # t => pid'[u] = pid[u]
          /\ renamed' = renamed \cup {in_call[t]} /\ UNCHANGED <<in_call, made, sysno, hostVars>>
      BY <1>8 DEF TaskExecs
    <2>2. HostPast' /\ StoredFresh' /\ ExitNamed' /\ MissingJustified' /\ NamedOnce'
      BY <2>1 DEF hostVars
    <2>3. StoredOf'
      <3> SUFFICES ASSUME NEW q \in Pid, inflight_syscalls[q] # NoCall,
                          inflight_syscalls[q] \notin unseen \cup renamed'
                   PROVE  \E u \in Task : pid'[u] = q /\ in_call[u] = inflight_syscalls[q]
        BY <2>1 DEF hostVars
      <3>1. PICK u \in Task : pid[u] = q /\ in_call[u] = inflight_syscalls[q]
        BY <2>1
      <3>2. u # t
        BY <2>1, <3>1
      <3> QED
        BY <2>1, <3>1, <3>2
    <2>4. InProgress' /\ LookedUp'
      BY <2>1 DEF hostVars
    <2> QED
      BY <2>2, <2>3, <2>4
  <1>9. ASSUME NEW t \in Task, TaskLooksUp(t) PROVE HostInv'
    BY <1>9 DEF TaskLooksUp, lookup_syscall, inflight_key, kernelVars
  <1>7. CASE UNCHANGED cvars
    BY <1>7 DEF cvars, kernelVars, hostVars
  <1> QED
    BY <1>1, <1>2, <1>3, <1>4, <1>5, <1>6, <1>7, <1>8, <1>9 DEF SyscallNext

\* Every step keeps what the network sensor knows in order.
LEMMA NetworkStep ==
    ASSUME SyscallTypeOK, KernelInv, NetworkInv, [SyscallNext]_cvars
    PROVE  NetworkInv'
  <1> USE SyscallAssumption DEF SyscallTypeOK, KernelInv, NetworkInv, NetworkPast, PendingOf,
          PendingFresh, RecordOfItsCall, RecordedOnce, CallId, NoCall, Alive
  <1>1. ASSUME NEW t \in Task, NEW p \in Pid, TaskStarts(t, p) PROVE NetworkInv'
    <2>1. /\ in_call[t] = NoCall /\ made' = made + 1 /\ made + 1 \in CallId
          /\ in_call' = [in_call EXCEPT ![t] = made + 1]
          /\ sysno' = [sysno EXCEPT ![made + 1] = Forking]
      BY <1>1 DEF TaskStarts
    <2>2. UNCHANGED networkVars
      BY <1>1 DEF TaskStarts
    <2>3. \A k \in CallId : k <= made => TypeOfCall(k)' = TypeOfCall(k)
      BY <2>1 DEF TypeOfCall
    <2>4. NetworkPast' /\ RecordOfItsCall' /\ RecordedOnce'
      BY <2>1, <2>2, <2>3 DEF networkVars
    <2>5. PendingOf' /\ PendingFresh'
      BY <2>1, <2>2 DEF networkVars
    <2> QED
      BY <2>4, <2>5
  <1>2. ASSUME NEW t \in Task, TaskMoves(t) PROVE NetworkInv'
    BY <1>2 DEF TaskMoves, networkVars, TypeOfCall
  <1>3. ASSUME NEW t \in Task, NEW s \in Sysno, TaskEnters(t, s) PROVE NetworkInv'
    <2>1. /\ in_call[t] = NoCall /\ made' = made + 1 /\ made + 1 \in CallId
          /\ in_call' = [in_call EXCEPT ![t] = made + 1]
          /\ sysno' = [sysno EXCEPT ![made + 1] = s]
      BY <1>3 DEF TaskEnters
    <2>2. \A k \in CallId : k <= made => TypeOfCall(k)' = TypeOfCall(k)
      BY <2>1 DEF TypeOfCall
    <2>3. records' = records /\ skipped' = skipped
      BY <1>3 DEF TaskEnters, begin_call, networkVars
    <2>4. RecordOfItsCall' /\ RecordedOnce'
      <3>1. begun' \in {begun, begun \cup {made + 1}}
        BY <1>3 DEF TaskEnters, begin_call, networkVars
      <3> QED
        BY <2>2, <2>3, <3>1
    <2>5. CASE active_network_calls' = active_network_calls /\ begun' = begun
      <3>1. NetworkPast'
        BY <2>1, <2>2, <2>3, <2>5
      <3>2. PendingOf'
        BY <2>1, <2>3, <2>5
      <3>3. PendingFresh'
        BY <2>3, <2>5
      <3> QED
        BY <2>4, <3>1, <3>2, <3>3
    <2>6. begun' = begun \/ TypeOf[sysno'[made + 1]] # NoType
      <3>1. begun' = begun \/ TypeOf[s] # NoType
        BY <1>3 DEF TaskEnters, networkVars
      <3> QED
        BY <2>1, <3>1
    <2>7. CASE begun' = begun \cup {made + 1} /\
               \E stored \in {made + 1, NoCall} :
                 active_network_calls' = [active_network_calls EXCEPT ![t] = stored]
      <3>1. PICK stored \in {made + 1, NoCall} :
              active_network_calls' = [active_network_calls EXCEPT ![t] = stored]
        BY <2>7
      <3>2. NetworkPast'
        <4>1. \A k \in begun' : TypeOfCall(k)' # NoType
          <5>1. made + 1 \notin begun /\ TypeOf[sysno'[made + 1]] # NoType
            BY <2>6, <2>7
          <5> QED
            BY <2>2, <2>7, <5>1 DEF TypeOfCall
        <4> QED
          BY <2>1, <2>3, <2>7, <3>1, <4>1
      <3>3. PendingOf'
        BY <2>1, <2>3, <2>7, <3>1
      <3>4. PendingFresh'
        BY <2>1, <2>3, <2>7, <3>1
      <3> QED
        BY <2>4, <3>2, <3>3, <3>4
    <2> QED
      BY <1>3, <2>5, <2>7 DEF TaskEnters, begin_call, networkVars
  <1>4. ASSUME NEW t \in Task, TaskReturns(t) PROVE NetworkInv'
    <2> DEFINE c == in_call[t]
    <2>1. CASE complete_call(t, c)
      BY <1>4, <2>1 DEF TaskReturns, complete_call, TypeOfCall
    <2>2. CASE TypeOfCall(c) = NoType /\ UNCHANGED networkVars
      BY <1>4, <2>2 DEF TaskReturns, networkVars, TypeOfCall
    <2>3. CASE skipped' = skipped \cup {c} /\ UNCHANGED <<active_network_calls, records, begun>>
      BY <1>4, <2>3 DEF TaskReturns, TypeOfCall
    <2> QED
      BY <1>4, <2>1, <2>2, <2>3 DEF TaskReturns
  <1>5. ASSUME NEW t \in Task, TaskEnds(t) PROVE NetworkInv'
    BY <1>5 DEF TaskEnds, TypeOfCall
  <1>6. ASSUME NEW p \in Pid, EntryEvicted(p) PROVE NetworkInv'
    BY <1>6 DEF EntryEvicted, kernelVars, networkVars, TypeOfCall
  <1>8. ASSUME NEW t \in Task, TaskExecs(t) PROVE NetworkInv'
    BY <1>8 DEF TaskExecs, networkVars, TypeOfCall
  <1>9. ASSUME NEW t \in Task, TaskLooksUp(t) PROVE NetworkInv'
    BY <1>9 DEF TaskLooksUp, kernelVars, networkVars, TypeOfCall
  <1>7. CASE UNCHANGED cvars
    BY <1>7 DEF cvars, kernelVars, networkVars, TypeOfCall
  <1> QED
    BY <1>1, <1>2, <1>3, <1>4, <1>5, <1>6, <1>7, <1>8, <1>9 DEF SyscallNext

-----------------------------------------------------------------------------
\* In every behaviour.
LEMMA SyscallInvariant == SyscallSpec => []IInv
  <1>1. IInv /\ [SyscallNext]_cvars => IInv'
    BY TypeStep, KernelStep, HostStep, NetworkStep DEF IInv, HostInv
  <1> QED
    BY InitIInv, <1>1, PTL DEF SyscallSpec

\* The sensors keep the types of their maps for any number of tasks, PIDs and calls.
THEOREM SyscallTypes == SyscallSpec => []SyscallTypeOK
  <1>1. IInv => SyscallTypeOK
    BY DEF IInv
  <1> QED
    BY <1>1, SyscallInvariant, PTL

\* What the host sensor says at an exit is true of the returning call: it is named, or there
\* is no entry of it under the task's PID, or the number is that of a call whose own exit was
\* never looked at or was looked at under another PID after an execve; and no call is named
\* at two exits. Only an eviction between look-up and reading takes an exit out of this.
THEOREM ExitsArePaired == SyscallSpec => []ExitsPaired
  <1>1. IInv => ExitsPaired
    BY DEF IInv, HostInv, ExitsPaired
  <1> QED
    BY <1>1, SyscallInvariant, PTL

\* A network record is of the returning call, or of one of the same type whose exit program
\* was skipped when the returning call was not looked at; and no call is reported twice.
THEOREM RecordsArePaired == SyscallSpec => []RecordsPaired
  <1>1. IInv => RecordsPaired
    BY DEF IInv, NetworkInv, RecordsPaired
  <1> QED
    BY <1>1, SyscallInvariant, PTL
=============================================================================
