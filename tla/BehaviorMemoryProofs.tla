----------------------- MODULE BehaviorMemoryProofs -----------------------
(***************************************************************************)
(* Proofs about BehaviorMemory for any number of cgroups, PIDs and         *)
(* generations, any capacity and any retention.                            *)
(***************************************************************************)
EXTENDS BehaviorMemory, FiniteSetTheorems, TLAPS

-----------------------------------------------------------------------------
(* The ordered dictionary.                                                 *)

LEMMA EmptyIsDict ==
    ASSUME NEW K, NEW V
    PROVE  IsDict(EmptyDict, K, V) /\ Keys(EmptyDict) = {} /\ EmptyDict.before = {}
  BY FS_EmptySet DEF IsDict, EmptyDict, Keys, Orders

\* What is left of a dictionary keeps its values and its order.
LEMMA RestrictedIsDict ==
    ASSUME NEW d, NEW K, NEW V, NEW X, IsDict(d, K, V)
    PROVE  LET r == Restricted(d, X)
           IN  /\ IsDict(r, K, V)
               /\ Keys(r) = Keys(d) \cap X
               /\ \A k \in Keys(r) : r.map[k] = d.map[k]
               /\ r.before \subseteq d.before
  <1> DEFINE r == Restricted(d, X)
  <1>1. DOMAIN r = {"map", "before"} /\ r.map = [k \in Keys(d) \cap X |-> d.map[k]]
        /\ r.before = d.before \cap (X \X X)
    BY DEF Restricted
  <1>2. Keys(r) = Keys(d) \cap X /\ \A k \in Keys(r) : r.map[k] = d.map[k]
    BY <1>1 DEF Keys
  <1>3. IsFiniteSet(Keys(r)) /\ Keys(r) \subseteq K /\ r.map \in [Keys(r) -> V]
    BY <1>1, <1>2, FS_Subset DEF IsDict, Keys
  <1>4. Orders(r.before, Keys(r))
    BY <1>1, <1>2 DEF IsDict, Orders
  <1> QED
    BY <1>1, <1>2, <1>3, <1>4 DEF IsDict

LEMMA WithoutIsDict ==
    ASSUME NEW d, NEW K, NEW V, NEW X, IsDict(d, K, V)
    PROVE  LET r == Without(d, X)
           IN  /\ IsDict(r, K, V)
               /\ Keys(r) = Keys(d) \ X
               /\ \A k \in Keys(r) : r.map[k] = d.map[k]
               /\ r.before \subseteq d.before
  <1> DEFINE r == Restricted(d, Keys(d) \ X)
  <1>1. /\ IsDict(r, K, V)
        /\ Keys(r) = Keys(d) \cap (Keys(d) \ X)
        /\ \A k \in Keys(r) : r.map[k] = d.map[k]
        /\ r.before \subseteq d.before
    BY RestrictedIsDict
  <1>2. Without(d, X) = r
    BY DEF Without
  <1> HIDE DEF r
  <1> QED
    BY <1>1, <1>2

LEMMA SetItemIsDict ==
    ASSUME NEW d, NEW K, NEW V, IsDict(d, K, V), NEW k \in K, NEW v \in V
    PROVE  LET r == SetItem(d, k, v)
           IN  /\ IsDict(r, K, V)
               /\ Keys(r) = Keys(d) \cup {k}
               /\ r.map[k] = v
               /\ \A x \in Keys(d) \ {k} : r.map[x] = d.map[x]
               /\ k \in Keys(d) => r.before = d.before
               /\ k \notin Keys(d) => r.before = d.before \cup (Keys(d) \X {k})
  <1> DEFINE r == SetItem(d, k, v)
  <1>1. DOMAIN r = {"map", "before"}
        /\ r.map = [x \in Keys(d) \cup {k} |-> IF x = k THEN v ELSE d.map[x]]
        /\ r.before = IF k \in Keys(d) THEN d.before ELSE d.before \cup (Keys(d) \X {k})
    BY DEF SetItem
  <1>2. Keys(r) = Keys(d) \cup {k}
        /\ \A x \in Keys(r) : r.map[x] = IF x = k THEN v ELSE d.map[x]
    BY <1>1 DEF Keys
  <1>3. IsFiniteSet(Keys(r)) /\ Keys(r) \subseteq K /\ r.map \in [Keys(r) -> V]
    BY <1>1, <1>2, FS_AddElement DEF IsDict, Keys
  <1>4. Orders(r.before, Keys(r))
    BY <1>1, <1>2 DEF IsDict, Orders
  <1> QED
    BY <1>1, <1>2, <1>3, <1>4 DEF IsDict

LEMMA MoveToEndIsDict ==
    ASSUME NEW d, NEW K, NEW V, IsDict(d, K, V), NEW k \in Keys(d)
    PROVE  LET r == MoveToEnd(d, k)
           IN  IsDict(r, K, V) /\ Keys(r) = Keys(d) /\ r.map = d.map
  <1> DEFINE r == MoveToEnd(d, k)
  <1>1. DOMAIN r = {"map", "before"} /\ r.map = d.map
        /\ r.before = {p \in d.before : k \notin {p[1], p[2]}} \cup ((Keys(d) \ {k}) \X {k})
    BY DEF MoveToEnd, IsDict
  <1>2. Orders(r.before, Keys(d))
    BY <1>1 DEF IsDict, Orders
  <1> QED
    BY <1>1, <1>2 DEF IsDict, Keys

\* A dictionary has a first key among any that it has.
LEMMA FirstOfIn ==
    ASSUME NEW d, NEW K, NEW V, IsDict(d, K, V), NEW X, X \subseteq Keys(d), X # {}
    PROVE  FirstOf(d, X) \in X
  <1> DEFINE pred(x) == {y \in Keys(d) : <<y, x>> \in d.before}
             R == {n \in Nat : \E x \in X : n = Cardinality(pred(x))}
  <1>1. \A x : IsFiniteSet(pred(x)) /\ Cardinality(pred(x)) \in Nat
    BY FS_Subset, FS_CardinalityType DEF IsDict
  <1>2. \E n \in R : \A m \in R : ~ (<<m, n>> \in OpToRel(<, Nat))
    <2>1. R \subseteq Nat /\ R # {}
      BY <1>1
    <2> QED
      BY <2>1, NatLessThanWellFounded, WFMin
  <1>3. PICK n \in R : \A m \in R : n <= m
    <2>1. PICK n \in R : \A m \in R : ~ (<<m, n>> \in OpToRel(<, Nat))
      BY <1>2
    <2>2. ASSUME NEW m \in R PROVE n <= m
      <3>1. ~ (<<m, n>> \in {ss \in Nat \X Nat : ss[1] < ss[2]})
        BY <2>1 DEF OpToRel
      <3> QED
        BY <3>1
    <2> QED
      BY <2>2
  <1>4. PICK x \in X : n = Cardinality(pred(x))
    OBVIOUS
  <1>5. ASSUME NEW y \in X \ {x} PROVE <<x, y>> \in d.before
    <2> SUFFICES ASSUME <<x, y>> \notin d.before PROVE FALSE
      OBVIOUS
    <2>1. <<y, x>> \in d.before /\ <<y, y>> \notin d.before /\ x \in Keys(d) /\ y \in Keys(d)
      BY DEF IsDict, Orders
    <2>2. pred(y) \subseteq pred(x) /\ y \in pred(x) /\ y \notin pred(y)
      BY <2>1 DEF IsDict, Orders
    <2>3. /\ Cardinality(pred(y)) <= Cardinality(pred(x))
          /\ Cardinality(pred(x)) = Cardinality(pred(y)) => pred(x) = pred(y)
      BY <1>1, <2>2, FS_Subset
    <2>4. Cardinality(pred(y)) < n
      <3>1. pred(x) # pred(y)
        BY <2>2
      <3>2. Cardinality(pred(x)) \in Nat /\ Cardinality(pred(y)) \in Nat
        BY <1>1
      <3> HIDE DEF pred, R
      <3> QED
        BY <1>4, <2>3, <3>1, <3>2
    <2>5. Cardinality(pred(y)) \in R
      BY <1>1
    <2>6. Cardinality(pred(y)) \in Nat /\ n \in Nat /\ n <= Cardinality(pred(y))
      BY <1>1, <1>3, <2>5
    <2> HIDE DEF pred, R
    <2> QED
      BY <2>4, <2>6
  <1> QED
    BY <1>5 DEF FirstOf

-----------------------------------------------------------------------------
(* Memories.                                                               *)

\* A root that is in memory m, of that generation, without threads and in no other family.
AliveIn(m, r) ==
    /\ SlotOf(r) \in Keys(m.tasks)
    /\ m.tasks.map[SlotOf(r)].start = r.start
    /\ ~m.tasks.map[SlotOf(r)].blocked
    /\ m.tasks.map[SlotOf(r)].root \in {None, r}

\* The roots that tasks and evidence name.
Named(m) ==
    {r \in Key : r \in Keys(m.evidence) \/ \E s \in Keys(m.tasks) : m.tasks.map[s].root = r}

MemTyped(m) ==
    /\ DOMAIN m = {"tasks", "evidence", "raised"} /\ m.raised \in BOOLEAN
    /\ IsDict(m.tasks, Slot, Task) /\ IsDict(m.evidence, Key, Precursor)

\* ExclusionFollows of memory m.
Followed(m) ==
    \A s \in Keys(m.tasks), o \in Blocked(m) :
        s[2] = o[2] /\ m.tasks.map[o].start \in {None, m.tasks.map[s].start} => s \in Blocked(m)

\* Only an excluded task is of an unknown generation.
Dated(m) == \A s \in Keys(m.tasks) : m.tasks.map[s].start = None => m.tasks.map[s].blocked

MemOK(m) ==
    /\ MemTyped(m)
    /\ \A r \in Named(m) : AliveIn(m, r)
    /\ Followed(m)
    /\ Dated(m)
    /\ Cardinality(Keys(m.tasks)) <= MaxTasks

\* At time ts the evidence is in order and within the retention.
Fresh(m, ts) ==
    /\ \A p \in m.evidence.before : m.evidence.map[p[1]].ts <= m.evidence.map[p[2]].ts
    /\ \A k \in Keys(m.evidence) : m.evidence.map[k].ts <= ts /\ ts - m.evidence.map[k].ts < Ttl

\* The evidence of memory n is a part of that of m.
Sheds(n, m) ==
    /\ Keys(n.evidence) \subseteq Keys(m.evidence)
    /\ \A k \in Keys(n.evidence) : n.evidence.map[k] = m.evidence.map[k]
    /\ n.evidence.before \subseteq m.evidence.before

\* So are its tasks.
Fewer(n, m) ==
    /\ Keys(n.tasks) \subseteq Keys(m.tasks)
    /\ \A s \in Keys(n.tasks) : n.tasks.map[s] = m.tasks.map[s]
    /\ Sheds(n, m)

\* What a look-up of slot x leaves of the other tasks: no new ones, their generations and
\* exclusions as they were, and no name of a root that was not there before.
Keeps(n, m, x) ==
    /\ Keys(n.tasks) \subseteq Keys(m.tasks) \cup {x}
    /\ \A s \in Keys(n.tasks) \ {x} :
         /\ n.tasks.map[s].start = m.tasks.map[s].start
         /\ n.tasks.map[s].blocked = m.tasks.map[s].blocked
         /\ n.tasks.map[s].blocked \/ n.tasks.map[s] = m.tasks.map[s]
    /\ Named(n) \subseteq Named(m)
    /\ Sheds(n, m)

\* Thread exclusions outside families stay.
Spares(n, m, x) ==
    \A s \in Blocked(m) \ {x} :
        m.tasks.map[s].root = None => s \in Blocked(n) /\ n.tasks.map[s].root = None

\* Slots and keys stand for each other.
LEMMA KeyFacts ==
    /\ \A s \in Slot : \A g : SlotOf(KeyOf(s, g)) = s /\ KeyOf(s, g).start = g
    /\ \A s \in Slot : \A g : KeyOf(s, g) \in Key <=> g \in Start
    /\ \A r \in Key : SlotOf(r) \in Slot /\ r.start \in Start /\ KeyOf(SlotOf(r), r.start) = r
    /\ None \notin Key /\ None \notin Start
  <1>1. \A s \in Slot : \A g : SlotOf(KeyOf(s, g)) = s /\ KeyOf(s, g).start = g
    BY DEF KeyOf, SlotOf, Slot
  <1>2. \A s \in Slot : \A g : KeyOf(s, g) \in Key <=> g \in Start
    BY DEF KeyOf, Slot, Key
  <1>3. \A r \in Key : SlotOf(r) \in Slot /\ r.start \in Start /\ KeyOf(SlotOf(r), r.start) = r
    BY DEF KeyOf, SlotOf, Slot, Key
  <1> QED
    BY <1>1, <1>2, <1>3, MemoryAssumption

\* The tasks of a memory.
LEMMA TaskFacts ==
    ASSUME NEW m, MemTyped(m), NEW s \in Keys(m.tasks)
    PROVE  /\ s \in Slot
           /\ m.tasks.map[s] \in Task
           /\ m.tasks.map[s].start \in Start \cup {None}
           /\ m.tasks.map[s].blocked \in BOOLEAN
           /\ m.tasks.map[s].root \in Key \cup {None}
           /\ m.tasks.map[s].children \in BOOLEAN
  <1>1. s \in Slot /\ m.tasks.map[s] \in Task
    BY DEF MemTyped, IsDict
  <1> QED
    BY <1>1 DEF Task

\* The evidence of a memory.
LEMMA PrecursorFacts ==
    ASSUME NEW m, MemTyped(m)
    PROVE  /\ \A k \in Keys(m.evidence) :
                /\ k \in Key
                /\ m.evidence.map[k].ts \in 0 .. MaxTs
                /\ m.evidence.map[k].source \in Key
           /\ \A p \in m.evidence.before :
                p[1] \in Keys(m.evidence) /\ p[2] \in Keys(m.evidence)
  <1>1. \A k \in Keys(m.evidence) : k \in Key /\ m.evidence.map[k] \in Precursor
    BY DEF MemTyped, IsDict
  <1>2. \A p \in m.evidence.before : p[1] \in Keys(m.evidence) /\ p[2] \in Keys(m.evidence)
    BY DEF MemTyped, IsDict, Orders
  <1> QED
    BY <1>1, <1>2 DEF Precursor

\* A part of a memory in which the roots have their tasks is as good as the whole.
LEMMA FewerOK ==
    ASSUME NEW m, NEW n, MemOK(m), MemTyped(n), Fewer(n, m),
           \A r \in Named(n) : SlotOf(r) \in Keys(n.tasks)
    PROVE  MemOK(n)
  <1>1. \A r \in Named(n) : AliveIn(n, r)
    <2> SUFFICES ASSUME NEW r \in Named(n) PROVE AliveIn(n, r)
      OBVIOUS
    <2>1. r \in Named(m)
      BY DEF Named, Fewer, Sheds
    <2> QED
      BY <2>1 DEF MemOK, AliveIn, Fewer
  <1>2. Followed(n) /\ Dated(n)
    BY DEF MemOK, Followed, Dated, Fewer, Blocked
  <1>3. Cardinality(Keys(n.tasks)) <= MaxTasks
    <2>1. IsFiniteSet(Keys(m.tasks)) /\ Keys(n.tasks) \subseteq Keys(m.tasks)
      BY DEF MemOK, MemTyped, IsDict, Fewer
    <2>2. Cardinality(Keys(n.tasks)) <= Cardinality(Keys(m.tasks))
      BY <2>1, FS_Subset
    <2>3. Cardinality(Keys(n.tasks)) \in Nat /\ Cardinality(Keys(m.tasks)) \in Nat
      BY <2>1, FS_Subset, FS_CardinalityType
    <2> QED
      BY <2>2, <2>3, MemoryAssumption DEF MemOK
  <1> QED
    BY <1>1, <1>2, <1>3 DEF MemOK

LEMMA ShedsFresh ==
    ASSUME NEW m, NEW n, MemTyped(n), Sheds(n, m), NEW ts, Fresh(m, ts)
    PROVE  Fresh(n, ts)
  <1>1. \A p \in n.evidence.before : p[1] \in Keys(n.evidence) /\ p[2] \in Keys(n.evidence)
    BY PrecursorFacts
  <1> QED
    BY <1>1 DEF Fresh, Sheds

\* Steps that keep follow one another.
LEMMA KeepsTransitive ==
    ASSUME NEW m, NEW n, NEW o, NEW x, Keeps(n, m, x), Keeps(o, n, x)
    PROVE  Keeps(o, m, x)
  <1>1. Sheds(o, m)
    BY DEF Keeps, Sheds
  <1>2. Keys(o.tasks) \subseteq Keys(m.tasks) \cup {x} /\ Named(o) \subseteq Named(m)
    BY DEF Keeps
  <1>3. ASSUME NEW s \in Keys(o.tasks) \ {x}
        PROVE  /\ o.tasks.map[s].start = m.tasks.map[s].start
               /\ o.tasks.map[s].blocked = m.tasks.map[s].blocked
               /\ o.tasks.map[s].blocked \/ o.tasks.map[s] = m.tasks.map[s]
    <2>1. s \in Keys(n.tasks) \ {x}
      BY DEF Keeps
    <2> QED
      BY <2>1 DEF Keeps
  <1> QED
    BY <1>1, <1>2, <1>3 DEF Keeps

LEMMA FewerKeeps ==
    ASSUME NEW m, NEW n, Fewer(n, m), NEW x
    PROVE  Keeps(n, m, x)
  BY DEF Fewer, Keeps, Named, Sheds

LEMMA SparesTransitive ==
    ASSUME NEW m, NEW n, NEW o, NEW x, Spares(n, m, x), Spares(o, n, x)
    PROVE  Spares(o, m, x)
  BY DEF Spares

\* clear leaves the thread exclusions, and nothing else.
Cleared(m) ==
    /\ MemOK(m)
    /\ Keys(m.evidence) = {} /\ m.evidence.before = {}
    /\ \A s \in Keys(m.tasks) : m.tasks.map[s].blocked /\ m.tasks.map[s].root = None

LEMMA ClearFacts ==
    ASSUME NEW m, MemOK(m)
    PROVE  LET n == clear(m)
           IN  /\ Cleared(n)
               /\ n.raised = m.raised
               /\ \A x : Keeps(n, m, x) /\ Spares(n, m, x)
               /\ Keys(n.tasks) = Blocked(m)
               /\ \A s \in Keys(n.tasks) : n.tasks.map[s].start = m.tasks.map[s].start
  <1> DEFINE n == clear(m)
             kept == Restricted(m.tasks, Blocked(m))
  <1>1. /\ IsDict(kept, Slot, Task)
        /\ Keys(kept) = Blocked(m)
        /\ \A s \in Keys(kept) : kept.map[s] = m.tasks.map[s]
    <2>1. IsDict(m.tasks, Slot, Task) /\ Keys(m.tasks) \cap Blocked(m) = Blocked(m)
      BY DEF MemOK, MemTyped, Blocked
    <2>2. /\ IsDict(kept, Slot, Task)
          /\ Keys(kept) = Keys(m.tasks) \cap Blocked(m)
          /\ \A s \in Keys(kept) : kept.map[s] = m.tasks.map[s]
          /\ kept.before \subseteq m.tasks.before
      BY <2>1, RestrictedIsDict
    <2> QED
      BY <2>1, <2>2
  <1>2. /\ DOMAIN n = {"tasks", "evidence", "raised"} /\ n.raised = m.raised
        /\ n.evidence = EmptyDict
        /\ n.tasks = [kept EXCEPT !.map =
               [s \in Keys(kept) |-> [kept.map[s] EXCEPT !.root = None, !.children = FALSE]]]
    <2>1. DOMAIN m = {"tasks", "evidence", "raised"} /\ DOMAIN kept = {"map", "before"}
      BY <1>1 DEF MemOK, MemTyped, IsDict
    <2> HIDE DEF kept
    <2>2. n = [m EXCEPT !.evidence = EmptyDict,
                        !.tasks = [kept EXCEPT !.map =
                            [s \in Keys(kept) |-> [@[s] EXCEPT !.root = None, !.children = FALSE]]]]
      BY DEF clear, kept
    <2> QED
      BY <2>1, <2>2
  <1>3. /\ DOMAIN n.tasks = {"map", "before"} /\ n.tasks.before = kept.before
        /\ n.tasks.map = [s \in Keys(kept) |-> [kept.map[s] EXCEPT !.root = None, !.children = FALSE]]
    <2>1. DOMAIN kept = {"map", "before"}
      BY <1>1 DEF IsDict
    <2> HIDE DEF kept, n
    <2> QED
      BY <1>2, <2>1
  <1>4. Keys(n.tasks) = Keys(kept)
    BY <1>3 DEF Keys
  <1> HIDE DEF kept, n
  <1>5. ASSUME NEW s \in Keys(n.tasks)
        PROVE  /\ n.tasks.map[s] \in Task
               /\ n.tasks.map[s].start = m.tasks.map[s].start
               /\ n.tasks.map[s].blocked
               /\ n.tasks.map[s].root = None
    <2>1. m.tasks.map[s] \in Task /\ m.tasks.map[s].blocked
      BY <1>1, <1>4, TaskFacts DEF Blocked, MemOK
    <2>2. n.tasks.map[s] = [m.tasks.map[s] EXCEPT !.root = None, !.children = FALSE]
      BY <1>1, <1>3, <1>4
    <2> QED
      BY <2>1, <2>2 DEF Task
  <1>6. n.tasks.map \in [Keys(n.tasks) -> Task]
    BY <1>3, <1>4, <1>5
  <1>7. IsDict(n.tasks, Slot, Task)
    BY <1>1, <1>3, <1>4, <1>6 DEF IsDict
  <1>8. MemTyped(n)
    BY <1>2, <1>7, EmptyIsDict DEF MemTyped, MemOK
  <1>9. Keys(n.evidence) = {} /\ n.evidence.before = {}
    BY <1>2, EmptyIsDict
  <1>10. Named(n) = {}
    BY <1>5, <1>9, KeyFacts DEF Named
  <1>11. Followed(n) /\ Dated(n)
    BY <1>5 DEF Followed, Dated, Blocked
  <1>12. Cardinality(Keys(n.tasks)) <= MaxTasks
    <2>1. IsFiniteSet(Keys(m.tasks)) /\ Keys(n.tasks) \subseteq Keys(m.tasks)
      BY <1>1, <1>4 DEF MemOK, MemTyped, IsDict, Blocked
    <2>2. Cardinality(Keys(n.tasks)) <= Cardinality(Keys(m.tasks))
      BY <2>1, FS_Subset
    <2>3. Cardinality(Keys(n.tasks)) \in Nat /\ Cardinality(Keys(m.tasks)) \in Nat
      BY <2>1, FS_Subset, FS_CardinalityType
    <2> QED
      BY <2>2, <2>3, MemoryAssumption DEF MemOK
  <1>13. Cleared(n)
    BY <1>5, <1>8, <1>9, <1>10, <1>11, <1>12 DEF Cleared, MemOK
  <1>14. ASSUME NEW x PROVE Keeps(n, m, x) /\ Spares(n, m, x)
    <2>1. Blocked(m) \subseteq Keys(m.tasks) /\ \A s \in Blocked(m) : m.tasks.map[s].blocked
      BY DEF Blocked
    <2>2. \A s \in Keys(m.tasks) : m.tasks.map[s].blocked \in BOOLEAN
      BY TaskFacts DEF MemOK
    <2>3. \A s \in Keys(n.tasks) : n.tasks.map[s].blocked \in BOOLEAN
      BY <1>5 DEF Task
    <2>4. \A s \in Keys(n.tasks) : n.tasks.map[s].blocked = m.tasks.map[s].blocked
      BY <1>1, <1>4, <1>5, <2>1, <2>2, <2>3
    <2>5. Keeps(n, m, x)
      BY <1>1, <1>4, <1>5, <1>9, <1>10, <2>1, <2>4 DEF Keeps, Sheds
    <2>6. Spares(n, m, x)
      BY <1>1, <1>4, <1>5 DEF Spares, Blocked
    <2> QED
      BY <2>5, <2>6
  <1> QED
    BY <1>1, <1>2, <1>4, <1>5, <1>13, <1>14 DEF n

\* expire stops at the first fresh entry, and because of the order that is enough.
LEMMA ExpireFacts ==
    ASSUME NEW m, MemOK(m), NEW last \in 0 .. MaxTs, Fresh(m, last), NEW ts \in 0 .. MaxTs, last <= ts
    PROVE  LET n == expire(m, ts)
           IN  MemOK(n) /\ Fresh(n, ts) /\ Fewer(n, m) /\ n.tasks = m.tasks /\ n.raised = m.raised
  <1> DEFINE n == expire(m, ts)
             fresh == {k \in Keys(m.evidence) : ts - m.evidence.map[k].ts < Ttl}
             kept == {k \in Keys(m.evidence) : \E f \in fresh : f = k \/ <<f, k>> \in m.evidence.before}
  <1>1. DOMAIN m = {"tasks", "evidence", "raised"} /\ IsDict(m.evidence, Key, Precursor)
    BY DEF MemOK, MemTyped
  <1>2. n = [m EXCEPT !.evidence = Restricted(@, kept)]
    BY DEF expire
  <1>3. /\ DOMAIN n = {"tasks", "evidence", "raised"}
        /\ n.tasks = m.tasks /\ n.raised = m.raised
        /\ n.evidence = Restricted(m.evidence, kept)
    <2> HIDE DEF kept, n
    <2> QED
      BY <1>1, <1>2
  <1>4. /\ IsDict(n.evidence, Key, Precursor)
        /\ Keys(n.evidence) = Keys(m.evidence) \cap kept
        /\ \A k \in Keys(n.evidence) : n.evidence.map[k] = m.evidence.map[k]
        /\ n.evidence.before \subseteq m.evidence.before
    <2> HIDE DEF kept, n
    <2>1. LET r == Restricted(m.evidence, kept)
          IN  /\ IsDict(r, Key, Precursor)
              /\ Keys(r) = Keys(m.evidence) \cap kept
              /\ \A k \in Keys(r) : r.map[k] = m.evidence.map[k]
              /\ r.before \subseteq m.evidence.before
      BY <1>1, RestrictedIsDict
    <2> QED
      BY <1>3, <2>1
  <1>5. MemTyped(n)
    BY <1>3, <1>4 DEF MemOK, MemTyped
  <1>6. Fewer(n, m)
    BY <1>3, <1>4 DEF Fewer, Sheds
  <1>7. \A r \in Named(n) : SlotOf(r) \in Keys(n.tasks)
    <2>1. Named(n) \subseteq Named(m)
      BY <1>6 DEF Named, Fewer, Sheds
    <2> QED
      BY <1>3, <2>1 DEF MemOK, AliveIn
  <1>8. MemOK(n)
    BY <1>5, <1>6, <1>7, FewerOK
  <1>9. ASSUME NEW k \in Keys(n.evidence)
        PROVE  n.evidence.map[k].ts <= ts /\ ts - n.evidence.map[k].ts < Ttl
    <2>1. PICK f \in fresh : f = k \/ <<f, k>> \in m.evidence.before
      BY <1>4
    <2>2. m.evidence.map[f].ts <= m.evidence.map[k].ts
      BY <1>4, <2>1, PrecursorFacts DEF Fresh, MemOK
    <2>3. m.evidence.map[f].ts \in 0 .. MaxTs /\ m.evidence.map[k].ts \in 0 .. MaxTs
      BY <1>4, PrecursorFacts DEF MemOK
    <2>4. m.evidence.map[k].ts <= last /\ ts - m.evidence.map[f].ts < Ttl
      BY <1>4 DEF Fresh
    <2> QED
      BY <1>4, <2>2, <2>3, <2>4, MemoryAssumption
  <1>10. Fresh(n, ts)
    <2>1. \A p \in n.evidence.before : p[1] \in Keys(n.evidence) /\ p[2] \in Keys(n.evidence)
      BY <1>4 DEF IsDict, Orders
    <2> QED
      BY <1>4, <1>9, <2>1 DEF Fresh
  <1> HIDE DEF n
  <1> QED
    BY <1>3, <1>6, <1>8, <1>10 DEF n

\* drop_family leaves a part of the memory, without the root and without any task of it.
LEMMA DropFacts ==
    ASSUME NEW m, MemOK(m), NEW root \in Key
    PROVE  LET n == drop_family(m, root)
               gone == {s \in Keys(m.tasks) : m.tasks.map[s].root = root \/ KeyOf(s, m.tasks.map[s].start) = root}
           IN  /\ MemOK(n) /\ Fewer(n, m)
               /\ Keys(n.tasks) = Keys(m.tasks) \ gone
               /\ n.raised = m.raised
               /\ root \notin Keys(n.evidence)
  <1> DEFINE n == drop_family(m, root)
             gone == {s \in Keys(m.tasks) : m.tasks.map[s].root = root \/ KeyOf(s, m.tasks.map[s].start) = root}
  <1>1. /\ DOMAIN m = {"tasks", "evidence", "raised"}
        /\ IsDict(m.evidence, Key, Precursor) /\ IsDict(m.tasks, Slot, Task)
    BY DEF MemOK, MemTyped
  <1>2. n = [m EXCEPT !.evidence = Without(@, {root}), !.tasks = Without(@, gone)]
    BY DEF drop_family
  <1>3. /\ DOMAIN n = {"tasks", "evidence", "raised"} /\ n.raised = m.raised
        /\ n.tasks = Without(m.tasks, gone)
        /\ n.evidence = Without(m.evidence, {root})
    <2> HIDE DEF gone, n
    <2> QED
      BY <1>1, <1>2
  <1>4. /\ IsDict(n.evidence, Key, Precursor)
        /\ Keys(n.evidence) = Keys(m.evidence) \ {root}
        /\ \A k \in Keys(n.evidence) : n.evidence.map[k] = m.evidence.map[k]
        /\ n.evidence.before \subseteq m.evidence.before
    <2> HIDE DEF n
    <2>1. LET r == Without(m.evidence, {root})
          IN  /\ IsDict(r, Key, Precursor)
              /\ Keys(r) = Keys(m.evidence) \ {root}
              /\ \A k \in Keys(r) : r.map[k] = m.evidence.map[k]
              /\ r.before \subseteq m.evidence.before
      BY <1>1, WithoutIsDict
    <2> QED
      BY <1>3, <2>1
  <1>5. /\ IsDict(n.tasks, Slot, Task)
        /\ Keys(n.tasks) = Keys(m.tasks) \ gone
        /\ \A s \in Keys(n.tasks) : n.tasks.map[s] = m.tasks.map[s]
    <2> HIDE DEF n, gone
    <2>1. LET r == Without(m.tasks, gone)
          IN  /\ IsDict(r, Slot, Task)
              /\ Keys(r) = Keys(m.tasks) \ gone
              /\ \A s \in Keys(r) : r.map[s] = m.tasks.map[s]
              /\ r.before \subseteq m.tasks.before
      BY <1>1, WithoutIsDict
    <2> QED
      BY <1>3, <2>1
  <1>6. MemTyped(n)
    BY <1>3, <1>4, <1>5 DEF MemOK, MemTyped
  <1>7. Fewer(n, m)
    BY <1>4, <1>5 DEF Fewer, Sheds
  <1>8. ASSUME NEW r \in Named(n) PROVE SlotOf(r) \in Keys(n.tasks)
    <2>1. r \in Named(m) /\ r \in Key
      BY <1>7 DEF Named, Fewer, Sheds
    <2>2. AliveIn(m, r) /\ KeyOf(SlotOf(r), r.start) = r
      BY <2>1, KeyFacts DEF MemOK
    <2>3. r # root
      BY <1>4, <1>5 DEF Named
    <2>4. SlotOf(r) \notin gone
      BY <2>2, <2>3, KeyFacts DEF AliveIn
    <2> QED
      BY <1>5, <2>2, <2>4 DEF AliveIn
  <1>9. MemOK(n)
    BY <1>6, <1>7, <1>8, FewerOK
  <1>10. root \notin Keys(n.evidence)
    BY <1>4
  <1> HIDE DEF n
  <1> QED
    BY <1>3, <1>5, <1>7, <1>9, <1>10 DEF n

-----------------------------------------------------------------------------
(* The method task.                                                        *)

\* Which tasks drop_family drops.
Gone(m, root) ==
    {s \in Keys(m.tasks) : m.tasks.map[s].root = root \/ KeyOf(s, m.tasks.map[s].start) = root}

\* A task of a known generation is in a family, and that of a followed one is alive.
LEMMA FamilyFacts ==
    ASSUME NEW m, MemOK(m), NEW s \in Keys(m.tasks), m.tasks.map[s].start # None
    PROVE  LET root == Family(s, m.tasks.map[s])
           IN  /\ root \in Key
               /\ s \in Gone(m, root)
               /\ m.tasks.map[s].blocked \/ AliveIn(m, root)
               /\ \A o \in Blocked(m) \ {s} : m.tasks.map[o].root = None => o \notin Gone(m, root)
  <1> DEFINE t == m.tasks.map[s]
             root == Family(s, t)
  <1>1. s \in Slot /\ t.start \in Start /\ t.root \in Key \cup {None} /\ t.blocked \in BOOLEAN
    BY TaskFacts DEF MemOK
  <1>2. root = IF t.root = None THEN KeyOf(s, t.start) ELSE t.root
    BY DEF Family
  <1>3. root \in Key /\ s \in Gone(m, root)
    BY <1>1, <1>2, KeyFacts DEF Gone
  <1>4. t.root # None => AliveIn(m, root)
    BY <1>1, <1>2 DEF MemOK, Named
  <1>5. t.root = None /\ ~t.blocked => AliveIn(m, root)
    BY <1>1, <1>2, KeyFacts DEF AliveIn
  <1>6. ASSUME NEW o \in Blocked(m) \ {s}, m.tasks.map[o].root = None PROVE o \notin Gone(m, root)
    <2>1. o \in Keys(m.tasks) /\ o \in Slot /\ m.tasks.map[o].blocked
      BY TaskFacts DEF MemOK, Blocked
    <2>2. m.tasks.map[o].root # root
      BY <1>3, <1>6, KeyFacts
    <2>3. ASSUME KeyOf(o, m.tasks.map[o].start) = root PROVE FALSE
      <3>1. SlotOf(root) = o
        BY <2>1, <2>3, KeyFacts
      <3>2. t.root # None
        BY <1>1, <1>2, <3>1, KeyFacts
      <3> QED
        BY <1>4, <2>1, <3>1, <3>2 DEF AliveIn
    <2> QED
      BY <2>2, <2>3 DEF Gone
  <1> QED
    BY <1>3, <1>4, <1>5, <1>6

\* A full memory makes room, or is emptied and raises.
LEMMA MakeRoomFacts ==
    ASSUME NEW m, MemOK(m), ~m.raised
    PROVE  LET n == MakeRoom(m)
           IN  /\ MemOK(n) /\ Fewer(n, m)
               /\ n.raised => Keys(n.tasks) = {}
               /\ ~n.raised => /\ Cardinality(Keys(n.tasks)) < MaxTasks
                               /\ \A x : Spares(n, m, x)
  <1> DEFINE n == MakeRoom(m)
             idle == Keys(m.tasks) \ Blocked(m)
             victim == FirstOf(m.tasks, idle)
             root == Family(victim, m.tasks.map[victim])
  <1>0. IsFiniteSet(Keys(m.tasks)) /\ Cardinality(Keys(m.tasks)) \in Nat /\ IsDict(m.tasks, Slot, Task)
    BY FS_CardinalityType DEF MemOK, MemTyped, IsDict
  <1>1. CASE Cardinality(Keys(m.tasks)) < MaxTasks
    <2>1. n = m
      BY <1>1 DEF MakeRoom
    <2> QED
      BY <1>1, <2>1 DEF Fewer, Sheds, Spares
  <1>2. CASE ~ (Cardinality(Keys(m.tasks)) < MaxTasks) /\ idle = {}
    <2>1. n = [clearBlocks(m) EXCEPT !.raised = TRUE]
      BY <1>2 DEF MakeRoom
    <2>2. DOMAIN m = {"tasks", "evidence", "raised"}
      BY DEF MemOK, MemTyped
    <2>3. /\ DOMAIN n = {"tasks", "evidence", "raised"}
          /\ n.raised = TRUE /\ n.tasks = EmptyDict /\ n.evidence = EmptyDict
      BY <2>1, <2>2 DEF clearBlocks
    <2>4. MemTyped(n) /\ Keys(n.tasks) = {} /\ Keys(n.evidence) = {} /\ n.evidence.before = {}
      BY <2>3, EmptyIsDict DEF MemTyped
    <2>5. Fewer(n, m)
      BY <2>4 DEF Fewer, Sheds
    <2>6. Named(n) = {}
      BY <2>4 DEF Named
    <2>7. MemOK(n)
      BY <2>4, <2>5, <2>6, FewerOK
    <2> QED
      BY <2>3, <2>4, <2>5, <2>7
  <1>3. CASE ~ (Cardinality(Keys(m.tasks)) < MaxTasks) /\ idle # {}
    <2>1. n = drop_family(m, root)
      BY <1>3 DEF MakeRoom
    <2>2. victim \in idle
      BY <1>0, <1>3, FirstOfIn
    <2>3. victim \in Keys(m.tasks) /\ m.tasks.map[victim].start # None
      BY <2>2 DEF MemOK, Dated, Blocked
    <2>4. /\ root \in Key /\ victim \in Gone(m, root)
          /\ \A o \in Blocked(m) \ {victim} : m.tasks.map[o].root = None => o \notin Gone(m, root)
      BY <2>3, FamilyFacts
    <2>5. /\ MemOK(n) /\ Fewer(n, m)
          /\ Keys(n.tasks) = Keys(m.tasks) \ Gone(m, root)
          /\ n.raised = m.raised
          /\ root \notin Keys(n.evidence)
      <3> HIDE DEF root, n
      <3> QED
        BY <2>1, <2>4, DropFacts DEF Gone
    <2>6. Cardinality(Keys(n.tasks)) < MaxTasks
      <3>1. Keys(n.tasks) \subseteq Keys(m.tasks) /\ Keys(n.tasks) # Keys(m.tasks)
        BY <2>3, <2>4, <2>5
      <3>2. /\ Cardinality(Keys(n.tasks)) <= Cardinality(Keys(m.tasks))
            /\ Cardinality(Keys(n.tasks)) # Cardinality(Keys(m.tasks))
        BY <1>0, <3>1, FS_Subset
      <3>3. Cardinality(Keys(n.tasks)) \in Nat
        BY <1>0, <3>1, FS_Subset, FS_CardinalityType
      <3> QED
        BY <1>0, <3>2, <3>3, MemoryAssumption DEF MemOK
    <2>7. victim \notin Blocked(m)
      BY <2>2
    <2>8. \A x : Spares(n, m, x)
      BY <2>4, <2>5, <2>7 DEF Spares, Blocked, Fewer
    <2> QED
      BY <2>5, <2>6, <2>8
  <1> QED
    BY <1>1, <1>2, <1>3

\* Insert adds one task, outside of every family.
LEMMA InsertShape ==
    ASSUME NEW m, MemOK(m), ~m.raised, NEW slot \in Slot, slot \notin Keys(m.tasks),
           NEW start \in Start \cup {None}, Cardinality(Keys(m.tasks)) < MaxTasks
    PROVE  LET n == Insert(m, slot, start)
           IN  /\ MemTyped(n) /\ ~n.raised
               /\ Keys(n.tasks) = Keys(m.tasks) \cup {slot}
               /\ \A s \in Keys(m.tasks) : n.tasks.map[s] = m.tasks.map[s]
               /\ n.tasks.map[slot].start = start
               /\ n.tasks.map[slot].root = None
               /\ n.tasks.map[slot].blocked <=> \E o \in Blocked(m) :
                      o[2] = slot[2] /\ m.tasks.map[o].start \in {None, start}
               /\ n.evidence = m.evidence
               /\ Cardinality(Keys(n.tasks)) <= MaxTasks
  <1> DEFINE n == Insert(m, slot, start)
             excluded == \E o \in Blocked(m) : o[2] = slot[2] /\ m.tasks.map[o].start \in {None, start}
             t == [start |-> start, blocked |-> excluded, root |-> None, children |-> FALSE]
  <1>1. /\ DOMAIN m = {"tasks", "evidence", "raised"}
        /\ IsDict(m.tasks, Slot, Task)
    BY DEF MemOK, MemTyped
  <1>2. n = [m EXCEPT !.tasks = SetItem(@, slot, t)]
    BY DEF Insert
  <1>3. excluded \in BOOLEAN
    OBVIOUS
  <1>4. t \in Task /\ t.start = start /\ t.root = None /\ t.blocked = excluded
    <2> HIDE DEF excluded
    <2> QED
      BY <1>3 DEF Task
  <1>5. /\ DOMAIN n = {"tasks", "evidence", "raised"}
        /\ n.tasks = SetItem(m.tasks, slot, t) /\ n.evidence = m.evidence /\ n.raised = m.raised
    <2> HIDE DEF t, n
    <2> QED
      BY <1>1, <1>2
  <1> HIDE DEF t, n, excluded
  <1>6. LET r == SetItem(m.tasks, slot, t)
        IN  /\ IsDict(r, Slot, Task)
            /\ Keys(r) = Keys(m.tasks) \cup {slot}
            /\ r.map[slot] = t
            /\ \A x \in Keys(m.tasks) \ {slot} : r.map[x] = m.tasks.map[x]
            /\ slot \in Keys(m.tasks) => r.before = m.tasks.before
            /\ slot \notin Keys(m.tasks) => r.before = m.tasks.before \cup (Keys(m.tasks) \X {slot})
    <2>1. IsDict(m.tasks, Slot, Task) /\ t \in Task
      BY <1>1, <1>4
    <2> QED
      BY <2>1, SetItemIsDict
  <1>7. /\ IsDict(n.tasks, Slot, Task)
        /\ Keys(n.tasks) = Keys(m.tasks) \cup {slot}
        /\ \A s \in Keys(m.tasks) : n.tasks.map[s] = m.tasks.map[s]
        /\ n.tasks.map[slot] = t
    BY <1>5, <1>6
  <1>8. MemTyped(n)
    BY <1>5, <1>7 DEF MemOK, MemTyped
  <1>9. Cardinality(Keys(n.tasks)) <= MaxTasks
    <2>1. IsFiniteSet(Keys(m.tasks)) /\ Cardinality(Keys(m.tasks)) \in Nat
      BY <1>1, FS_CardinalityType DEF IsDict
    <2>2. Cardinality(Keys(n.tasks)) = Cardinality(Keys(m.tasks)) + 1
      BY <1>7, <2>1, FS_AddElement
    <2> QED
      BY <2>1, <2>2, MemoryAssumption
  <1>10. n.tasks.map[slot].blocked <=> excluded
    BY <1>4, <1>7
  <1>11. n.tasks.map[slot].start = start /\ n.tasks.map[slot].root = None /\ n.raised = FALSE
    BY <1>4, <1>5, <1>7 DEF MemOK, MemTyped
  <1> QED
    BY <1>5, <1>7, <1>8, <1>9, <1>10, <1>11 DEF n, excluded

LEMMA InsertOK ==
    ASSUME NEW m, MemOK(m), ~m.raised, NEW slot \in Slot, slot \notin Keys(m.tasks),
           NEW start \in Start, Cardinality(Keys(m.tasks)) < MaxTasks
    PROVE  LET n == Insert(m, slot, start)
           IN  MemOK(n) /\ Keeps(n, m, slot) /\ Spares(n, m, slot)
  <1> DEFINE n == Insert(m, slot, start)
             Heir(o) == o[2] = slot[2] /\ m.tasks.map[o].start \in {None, start}
  <1>1. /\ MemTyped(n) /\ ~n.raised
        /\ Keys(n.tasks) = Keys(m.tasks) \cup {slot}
        /\ \A s \in Keys(m.tasks) : n.tasks.map[s] = m.tasks.map[s]
        /\ n.tasks.map[slot].start = start
        /\ n.tasks.map[slot].root = None
        /\ n.tasks.map[slot].blocked <=> \E o \in Blocked(m) : Heir(o)
        /\ n.evidence = m.evidence
        /\ Cardinality(Keys(n.tasks)) <= MaxTasks
    <2>1. start \in Start \cup {None}
      OBVIOUS
    <2> QED
      BY <2>1, InsertShape
  <1> HIDE DEF n
  <1>2. Named(n) = Named(m)
    BY <1>1, KeyFacts DEF Named
  <1>3. \A r \in Named(n) : AliveIn(n, r)
    BY <1>1, <1>2 DEF MemOK, AliveIn
  <1>4. Dated(n)
    BY <1>1, KeyFacts DEF Dated, MemOK
  <1>5. Followed(n)
    <2> SUFFICES ASSUME NEW s \in Keys(n.tasks), NEW o \in Blocked(n), s[2] = o[2],
                        n.tasks.map[o].start \in {None, n.tasks.map[s].start}
                 PROVE  n.tasks.map[s].blocked
      BY DEF Followed, Blocked
    <2>1. CASE s = slot /\ o = slot
      BY <2>1 DEF Blocked
    <2>2. CASE s # slot /\ o # slot
      BY <1>1, <2>2 DEF MemOK, Followed, Blocked
    <2>3. CASE s = slot /\ o # slot
      <3>1. o \in Blocked(m) /\ Heir(o)
        BY <1>1, <2>3 DEF Blocked
      <3> QED
        BY <1>1, <2>3, <3>1
    <2>4. CASE s # slot /\ o = slot
      <3>1. PICK q \in Blocked(m) : Heir(q)
        BY <1>1, <2>4 DEF Blocked
      <3>2. s \in Keys(m.tasks) /\ n.tasks.map[s] = m.tasks.map[s] /\ m.tasks.map[s].start = start
        BY <1>1, <2>4, KeyFacts
      <3>3. s \in Blocked(m)
        BY <2>4, <3>1, <3>2 DEF MemOK, Followed
      <3> QED
        BY <3>2, <3>3 DEF Blocked
    <2> QED
      BY <2>1, <2>2, <2>3, <2>4
  <1>6. MemOK(n)
    BY <1>1, <1>3, <1>4, <1>5 DEF MemOK
  <1>7. Keeps(n, m, slot) /\ Spares(n, m, slot)
    BY <1>1, <1>2 DEF Keeps, Sheds, Spares, Blocked
  <1> QED
    BY <1>6, <1>7 DEF n

\* Another cgroup or another generation of a PID is noticed before its task is used.
LEMMA RecheckFacts ==
    ASSUME NEW m, MemOK(m), NEW slot \in Slot, NEW start \in Start \cup {None}
    PROVE  LET n == Recheck(m, slot, start)
           IN  /\ MemOK(n) /\ Keeps(n, m, slot) /\ Spares(n, m, slot)
               /\ n.raised = m.raised
               /\ slot \in Keys(n.tasks) => n = m /\ m.tasks.map[slot].start \in {None, start}
               /\ slot \in Keys(m.tasks) /\ m.tasks.map[slot].start \in {None, start} => n = m
               /\ Cleared(m) => Cleared(n)
  <1> DEFINE n == Recheck(m, slot, start)
             known == slot \in Keys(m.tasks)
             moved == \E o \in Keys(m.tasks) : o[2] = slot[2] /\ o[1] # slot[1]
             old == m.tasks.map[slot].start
             root == Family(slot, m.tasks.map[slot])
             Good == /\ MemOK(n) /\ Keeps(n, m, slot) /\ Spares(n, m, slot)
                     /\ n.raised = m.raised
                     /\ slot \in Keys(n.tasks) => n = m /\ old \in {None, start}
                     /\ known /\ old \in {None, start} => n = m
                     /\ Cleared(m) => Cleared(n)
  <1> SUFFICES Good
    OBVIOUS
  <1>1. CASE ~known /\ moved
    <2>1. n = clear(m)
      BY <1>1 DEF Recheck
    <2> HIDE DEF n
    <2>2. /\ Cleared(n) /\ n.raised = m.raised
          /\ Keeps(n, m, slot) /\ Spares(n, m, slot)
          /\ Keys(n.tasks) = Blocked(m)
      BY <2>1, ClearFacts
    <2>3. MemOK(n) /\ slot \notin Keys(n.tasks)
      BY <1>1, <2>2 DEF Cleared, Blocked
    <2> QED
      BY <1>1, <2>2, <2>3
  <1>2. CASE known /\ old \notin {None, start}
    <2>1. n = drop_family(m, root)
      BY <1>2 DEF Recheck
    <2>2. /\ root \in Key /\ slot \in Gone(m, root)
          /\ \A o \in Blocked(m) \ {slot} : m.tasks.map[o].root = None => o \notin Gone(m, root)
      BY <1>2, FamilyFacts
    <2>3. /\ MemOK(n) /\ Fewer(n, m)
          /\ Keys(n.tasks) = Keys(m.tasks) \ Gone(m, root)
          /\ n.raised = m.raised
          /\ root \notin Keys(n.evidence)
      <3> HIDE DEF root, n
      <3> QED
        BY <2>1, <2>2, DropFacts DEF Gone
    <2> HIDE DEF n, root
    <2>4. Keeps(n, m, slot)
      BY <2>3, FewerKeeps
    <2>5. Spares(n, m, slot)
      BY <2>2, <2>3 DEF Spares, Blocked, Fewer
    <2>6. Cleared(m) => Cleared(n)
      BY <2>3, PrecursorFacts DEF Cleared, Fewer, Sheds
    <2> QED
      BY <1>2, <2>2, <2>3, <2>4, <2>5, <2>6
  <1>3. CASE ~ (~known /\ moved) /\ ~ (known /\ old \notin {None, start})
    <2>1. n = m
      BY <1>3 DEF Recheck
    <2>2. Keeps(m, m, slot) /\ Spares(m, m, slot)
      BY DEF Keeps, Sheds, Spares
    <2> HIDE DEF n
    <2> QED
      BY <1>3, <2>1, <2>2
  <1> QED
    BY <1>1, <1>2, <1>3

\* The task that is found learns its generation and becomes the most recent one.
Touched(m, slot, start) ==
    [m EXCEPT !.tasks = MoveToEnd(
        IF m.tasks.map[slot].start = None
        THEN SetItem(@, slot, [m.tasks.map[slot] EXCEPT !.start = start]) ELSE @,
        slot)]

\* The memory in which it is found, or in which there was no room for it.
Held(m, slot, start) ==
    LET seen == Recheck(m, slot, start)
    IN  IF slot \in Keys(seen.tasks) THEN seen ELSE Insert(MakeRoom(seen), slot, start)

LEMMA TaskIs ==
    ASSUME NEW m, NEW slot, NEW start
    PROVE  task(m, slot, start) =
               IF Held(m, slot, start).raised THEN Held(m, slot, start)
               ELSE Touched(Held(m, slot, start), slot, start)
  BY DEF task, Held, Touched

LEMMA TouchShape ==
    ASSUME NEW m, MemTyped(m), NEW slot \in Keys(m.tasks), NEW start \in Start \cup {None},
           m.tasks.map[slot].start \in {None, start}
    PROVE  LET n == Touched(m, slot, start)
           IN  /\ MemTyped(n) /\ n.raised = m.raised /\ n.evidence = m.evidence
               /\ Keys(n.tasks) = Keys(m.tasks)
               /\ \A s \in Keys(m.tasks) \ {slot} : n.tasks.map[s] = m.tasks.map[s]
               /\ n.tasks.map[slot].start = start
               /\ n.tasks.map[slot].blocked = m.tasks.map[slot].blocked
               /\ n.tasks.map[slot].root = m.tasks.map[slot].root
               /\ n.tasks.map[slot].children = m.tasks.map[slot].children
  <1> DEFINE n == Touched(m, slot, start)
             t == [m.tasks.map[slot] EXCEPT !.start = start]
             d == IF m.tasks.map[slot].start = None THEN SetItem(m.tasks, slot, t) ELSE m.tasks
  <1>1. /\ DOMAIN m = {"tasks", "evidence", "raised"}
        /\ IsDict(m.tasks, Slot, Task) /\ slot \in Slot /\ m.tasks.map[slot] \in Task
    BY TaskFacts DEF MemTyped
  <1>2. /\ t \in Task /\ t.start = start
        /\ t.blocked = m.tasks.map[slot].blocked /\ t.root = m.tasks.map[slot].root
        /\ t.children = m.tasks.map[slot].children
    BY <1>1 DEF Task
  <1> HIDE DEF t
  <1>3. /\ IsDict(d, Slot, Task) /\ Keys(d) = Keys(m.tasks)
        /\ \A s \in Keys(m.tasks) \ {slot} : d.map[s] = m.tasks.map[s]
        /\ d.map[slot].start = start
        /\ d.map[slot].blocked = m.tasks.map[slot].blocked
        /\ d.map[slot].root = m.tasks.map[slot].root
        /\ d.map[slot].children = m.tasks.map[slot].children
    <2>1. CASE m.tasks.map[slot].start = None
      <3>1. LET r == SetItem(m.tasks, slot, t)
            IN  /\ IsDict(r, Slot, Task)
                /\ Keys(r) = Keys(m.tasks) \cup {slot}
                /\ r.map[slot] = t
                /\ \A x \in Keys(m.tasks) \ {slot} : r.map[x] = m.tasks.map[x]
                /\ slot \in Keys(m.tasks) => r.before = m.tasks.before
                /\ slot \notin Keys(m.tasks) => r.before = m.tasks.before \cup (Keys(m.tasks) \X {slot})
        <4>1. IsDict(m.tasks, Slot, Task) /\ t \in Task /\ slot \in Slot
          BY <1>1, <1>2
        <4> QED
          BY <4>1, SetItemIsDict
      <3>2. d = SetItem(m.tasks, slot, t) /\ Keys(m.tasks) \cup {slot} = Keys(m.tasks)
        BY <2>1
      <3> HIDE DEF d
      <3> QED
        BY <1>2, <3>1, <3>2
    <2>2. CASE m.tasks.map[slot].start # None
      <3>1. d = m.tasks /\ m.tasks.map[slot].start = start
        BY <2>2
      <3> HIDE DEF d
      <3> QED
        BY <1>1, <3>1
    <2> QED
      BY <2>1, <2>2
  <1>4. n = [m EXCEPT !.tasks = MoveToEnd(d, slot)]
    BY DEF Touched, t
  <1> HIDE DEF d
  <1>5. LET r == MoveToEnd(d, slot)
        IN  IsDict(r, Slot, Task) /\ Keys(r) = Keys(d) /\ r.map = d.map
    <2>1. IsDict(d, Slot, Task) /\ slot \in Keys(d)
      BY <1>3
    <2> QED
      BY <2>1, MoveToEndIsDict
  <1> HIDE DEF n
  <1>6. /\ DOMAIN n = {"tasks", "evidence", "raised"}
        /\ n.tasks = MoveToEnd(d, slot) /\ n.evidence = m.evidence /\ n.raised = m.raised
    BY <1>1, <1>4
  <1>7. MemTyped(n)
    BY <1>5, <1>6 DEF MemTyped
  <1> QED
    BY <1>3, <1>5, <1>6, <1>7 DEF n

LEMMA TouchOK ==
    ASSUME NEW m, MemOK(m), NEW slot \in Keys(m.tasks), NEW start \in Start,
           m.tasks.map[slot].start \in {None, start}
    PROVE  LET n == Touched(m, slot, start)
           IN  MemOK(n) /\ Keeps(n, m, slot) /\ Spares(n, m, slot)
  <1> DEFINE n == Touched(m, slot, start)
  <1>1. /\ MemTyped(n) /\ n.raised = m.raised /\ n.evidence = m.evidence
        /\ Keys(n.tasks) = Keys(m.tasks)
        /\ \A s \in Keys(m.tasks) \ {slot} : n.tasks.map[s] = m.tasks.map[s]
        /\ n.tasks.map[slot].start = start
        /\ n.tasks.map[slot].blocked = m.tasks.map[slot].blocked
        /\ n.tasks.map[slot].root = m.tasks.map[slot].root
        /\ n.tasks.map[slot].children = m.tasks.map[slot].children
    <2>1. MemTyped(m) /\ start \in Start \cup {None}
      BY DEF MemOK
    <2> QED
      BY <2>1, TouchShape
  <1> HIDE DEF n
  <1>2. /\ \A s \in Keys(m.tasks) : n.tasks.map[s].root = m.tasks.map[s].root
        /\ \A s \in Keys(m.tasks) : n.tasks.map[s].blocked = m.tasks.map[s].blocked
    BY <1>1
  <1>3. Named(n) = Named(m) /\ Blocked(n) = Blocked(m)
    BY <1>1, <1>2 DEF Named, Blocked
  <1>4. \A r \in Named(n) : AliveIn(n, r)
    <2> SUFFICES ASSUME NEW r \in Named(n) PROVE AliveIn(n, r)
      OBVIOUS
    <2>1. AliveIn(m, r) /\ r.start \in Start
      BY <1>3, KeyFacts DEF MemOK, Named
    <2>2. n.tasks.map[SlotOf(r)].start = m.tasks.map[SlotOf(r)].start
      BY <1>1, <2>1, KeyFacts DEF AliveIn
    <2> QED
      BY <1>1, <1>2, <2>1, <2>2 DEF AliveIn
  <1>5. Dated(n)
    BY <1>1, KeyFacts DEF Dated, MemOK
  <1>6. Followed(n)
    <2> SUFFICES ASSUME NEW s \in Keys(m.tasks), NEW o \in Blocked(m), s[2] = o[2],
                        n.tasks.map[o].start \in {None, n.tasks.map[s].start}
                 PROVE  s \in Blocked(m)
      BY <1>1, <1>3 DEF Followed
    <2>1. CASE s = slot /\ o = slot
      BY <2>1
    <2>2. CASE s # slot /\ o # slot
      BY <1>1, <2>2 DEF MemOK, Followed, Blocked
    <2>3. CASE s = slot /\ o # slot
      <3>1. m.tasks.map[o].start \in {None, start} /\ o \in Keys(m.tasks)
        BY <1>1, <2>3 DEF Blocked
      <3>2. m.tasks.map[slot].start = start => s \in Blocked(m)
        BY <2>3, <3>1 DEF MemOK, Followed
      <3>3. m.tasks.map[slot].start = None => s \in Blocked(m)
        BY <2>3 DEF MemOK, Dated, Blocked
      <3> QED
        BY <3>2, <3>3
    <2>4. CASE s # slot /\ o = slot
      <3>1. m.tasks.map[s].start = start
        BY <1>1, <2>4, KeyFacts
      <3> QED
        BY <2>4, <3>1 DEF MemOK, Followed
    <2> QED
      BY <2>1, <2>2, <2>3, <2>4
  <1>7. MemOK(n)
    BY <1>1, <1>4, <1>5, <1>6 DEF MemOK
  <1>8. Keeps(n, m, slot) /\ Spares(n, m, slot)
    BY <1>1, <1>2, <1>3 DEF Keeps, Sheds, Spares, Blocked
  <1> QED
    BY <1>7, <1>8 DEF n

LEMMA HeldOK ==
    ASSUME NEW m, MemOK(m), ~m.raised, NEW slot \in Slot, NEW start \in Start
    PROVE  LET h == Held(m, slot, start)
           IN  /\ MemOK(h) /\ Keeps(h, m, slot)
               /\ h.raised => Keys(h.tasks) = {}
               /\ ~h.raised => /\ Spares(h, m, slot)
                               /\ slot \in Keys(h.tasks)
                               /\ h.tasks.map[slot].start \in {None, start}
               /\ slot \in Keys(m.tasks) /\ m.tasks.map[slot].start \in {None, start} => h = m
  <1> DEFINE h == Held(m, slot, start)
             seen == Recheck(m, slot, start)
             room == MakeRoom(seen)
             known == slot \in Keys(m.tasks) /\ m.tasks.map[slot].start \in {None, start}
             Good == /\ MemOK(h) /\ Keeps(h, m, slot)
                     /\ h.raised => Keys(h.tasks) = {}
                     /\ ~h.raised => /\ Spares(h, m, slot)
                                     /\ slot \in Keys(h.tasks)
                                     /\ h.tasks.map[slot].start \in {None, start}
                     /\ known => h = m
  <1> SUFFICES Good
    OBVIOUS
  <1>1. /\ MemOK(seen) /\ Keeps(seen, m, slot) /\ Spares(seen, m, slot)
        /\ seen.raised = m.raised
        /\ slot \in Keys(seen.tasks) => seen = m /\ m.tasks.map[slot].start \in {None, start}
        /\ known => seen = m
        /\ Cleared(m) => Cleared(seen)
    <2>1. start \in Start \cup {None}
      OBVIOUS
    <2> QED
      BY <2>1, RecheckFacts
  <1>2. CASE slot \in Keys(seen.tasks)
    <2>1. h = seen
      BY <1>2 DEF Held
    <2> HIDE DEF h, seen
    <2> QED
      BY <1>1, <1>2, <2>1
  <1>3. CASE slot \notin Keys(seen.tasks)
    <2>1. h = Insert(room, slot, start)
      BY <1>3 DEF Held
    <2>2. /\ MemOK(room) /\ Fewer(room, seen)
          /\ room.raised => Keys(room.tasks) = {}
          /\ ~room.raised => /\ Cardinality(Keys(room.tasks)) < MaxTasks
                             /\ \A x : Spares(room, seen, x)
      <3> HIDE DEF seen
      <3> QED
        BY <1>1, MakeRoomFacts
    <2> HIDE DEF h, seen, room
    <2>3. ~known
      BY <1>1, <1>3
    <2>4. Keeps(room, m, slot)
      BY <1>1, <2>2, FewerKeeps, KeepsTransitive
    <2>5. CASE room.raised
      <3>1. h = room
        BY <2>1, <2>5 DEF Insert
      <3> QED
        BY <2>2, <2>3, <2>4, <2>5, <3>1
    <2>6. CASE ~room.raised
      <3>1. slot \notin Keys(room.tasks)
        BY <1>3, <2>2 DEF Fewer
      <3>2. MemOK(h) /\ Keeps(h, room, slot) /\ Spares(h, room, slot)
        BY <2>1, <2>2, <2>6, <3>1, InsertOK
      <3>3. ~h.raised /\ slot \in Keys(h.tasks) /\ h.tasks.map[slot].start = start
        <4>1. start \in Start \cup {None}
          OBVIOUS
        <4>2. /\ MemTyped(h) /\ ~h.raised
              /\ Keys(h.tasks) = Keys(room.tasks) \cup {slot}
              /\ \A s \in Keys(room.tasks) : h.tasks.map[s] = room.tasks.map[s]
              /\ h.tasks.map[slot].start = start
              /\ h.tasks.map[slot].root = None
              /\ h.tasks.map[slot].blocked <=> \E o \in Blocked(room) :
                     o[2] = slot[2] /\ room.tasks.map[o].start \in {None, start}
              /\ h.evidence = room.evidence
              /\ Cardinality(Keys(h.tasks)) <= MaxTasks
          <5> DEFINE g == Insert(room, slot, start)
          <5>1. /\ MemTyped(g) /\ ~g.raised
                /\ Keys(g.tasks) = Keys(room.tasks) \cup {slot}
                /\ \A s \in Keys(room.tasks) : g.tasks.map[s] = room.tasks.map[s]
                /\ g.tasks.map[slot].start = start
                /\ g.tasks.map[slot].root = None
                /\ g.tasks.map[slot].blocked <=> \E o \in Blocked(room) :
                       o[2] = slot[2] /\ room.tasks.map[o].start \in {None, start}
                /\ g.evidence = room.evidence
                /\ Cardinality(Keys(g.tasks)) <= MaxTasks
            BY <2>2, <2>6, <3>1, <4>1, InsertShape
          <5>2. h = g
            BY <2>1
          <5> HIDE DEF g
          <5> QED
            BY <5>1, <5>2
        <4> QED
          BY <4>2
      <3>4. Keeps(h, m, slot)
        BY <2>4, <3>2, KeepsTransitive
      <3>5. Spares(h, m, slot)
        BY <1>1, <2>2, <2>6, <3>2, SparesTransitive
      <3> QED
        BY <2>3, <3>2, <3>3, <3>4, <3>5
    <2> QED
      BY <2>5, <2>6
  <1> QED
    BY <1>2, <1>3

\* The method task keeps the memory sound, and finds the task if it does not raise.
LEMMA TaskOK ==
    ASSUME NEW m, MemOK(m), ~m.raised, NEW slot \in Slot, NEW start \in Start
    PROVE  LET n == task(m, slot, start)
           IN  /\ MemOK(n) /\ Keeps(n, m, slot)
               /\ n.raised => Keys(n.tasks) = {}
               /\ ~n.raised => /\ Spares(n, m, slot)
                               /\ slot \in Keys(n.tasks)
                               /\ n.tasks.map[slot].start = start
                               /\ /\ slot \in Blocked(m)
                                  /\ m.tasks.map[slot].root = None
                                  /\ m.tasks.map[slot].start \in {None, start}
                                  => slot \in Blocked(n) /\ n.tasks.map[slot].root = None
  <1> DEFINE n == task(m, slot, start)
             h == Held(m, slot, start)
             kept == /\ slot \in Blocked(m)
                     /\ m.tasks.map[slot].root = None
                     /\ m.tasks.map[slot].start \in {None, start}
             Good == /\ MemOK(n) /\ Keeps(n, m, slot)
                     /\ n.raised => Keys(n.tasks) = {}
                     /\ ~n.raised => /\ Spares(n, m, slot)
                                     /\ slot \in Keys(n.tasks)
                                     /\ n.tasks.map[slot].start = start
                                     /\ kept => slot \in Blocked(n) /\ n.tasks.map[slot].root = None
  <1> SUFFICES Good
    OBVIOUS
  <1>1. /\ MemOK(h) /\ Keeps(h, m, slot)
        /\ h.raised => Keys(h.tasks) = {}
        /\ ~h.raised => /\ Spares(h, m, slot)
                        /\ slot \in Keys(h.tasks)
                        /\ h.tasks.map[slot].start \in {None, start}
        /\ slot \in Keys(m.tasks) /\ m.tasks.map[slot].start \in {None, start} => h = m
    BY HeldOK
  <1>2. n = IF h.raised THEN h ELSE Touched(h, slot, start)
    BY TaskIs
  <1> HIDE DEF n, h
  <1>3. CASE h.raised
    BY <1>1, <1>2, <1>3
  <1>4. CASE ~h.raised
    <2>1. n = Touched(h, slot, start)
      BY <1>2, <1>4
    <2>2. MemOK(n) /\ Keeps(n, h, slot) /\ Spares(n, h, slot)
      BY <1>1, <1>4, <2>1, TouchOK
    <2>3. /\ n.raised = h.raised
          /\ slot \in Keys(n.tasks) /\ n.tasks.map[slot].start = start
          /\ n.tasks.map[slot].blocked = h.tasks.map[slot].blocked
          /\ n.tasks.map[slot].root = h.tasks.map[slot].root
      <3>1. MemTyped(h) /\ start \in Start \cup {None}
        BY <1>1 DEF MemOK
      <3>2. /\ MemTyped(n) /\ n.raised = h.raised /\ n.evidence = h.evidence
            /\ Keys(n.tasks) = Keys(h.tasks)
            /\ \A s \in Keys(h.tasks) \ {slot} : n.tasks.map[s] = h.tasks.map[s]
            /\ n.tasks.map[slot].start = start
            /\ n.tasks.map[slot].blocked = h.tasks.map[slot].blocked
            /\ n.tasks.map[slot].root = h.tasks.map[slot].root
            /\ n.tasks.map[slot].children = h.tasks.map[slot].children
        BY <1>1, <1>4, <2>1, <3>1, TouchShape
      <3> QED
        BY <1>1, <1>4, <3>2
    <2>4. Keeps(n, m, slot) /\ Spares(n, m, slot)
      BY <1>1, <1>4, <2>2, KeepsTransitive, SparesTransitive
    <2>5. kept => slot \in Blocked(n) /\ n.tasks.map[slot].root = None
      BY <1>1, <2>3 DEF Blocked
    <2> QED
      BY <1>4, <2>2, <2>3, <2>4, <2>5
  <1> QED
    BY <1>3, <1>4

-----------------------------------------------------------------------------
(* The methods block_thread and fork.                                      *)

\* A memory of exclusions only.
LEMMA ClearedOK ==
    ASSUME NEW m, MemTyped(m), Cardinality(Keys(m.tasks)) <= MaxTasks,
           Keys(m.evidence) = {},
           \A s \in Keys(m.tasks) : m.tasks.map[s].blocked /\ m.tasks.map[s].root = None
    PROVE  Cleared(m)
  <1>1. m.evidence.before = {}
    BY PrecursorFacts
  <1>2. Named(m) = {}
    BY KeyFacts DEF Named
  <1>3. Followed(m) /\ Dated(m)
    BY DEF Followed, Dated, Blocked
  <1> QED
    BY <1>1, <1>2, <1>3 DEF Cleared, MemOK

\* A dictionary whose values are replaced.
LEMMA ReplacedIsDict ==
    ASSUME NEW d, NEW K, NEW V, IsDict(d, K, V), NEW f \in [Keys(d) -> V]
    PROVE  LET r == [d EXCEPT !.map = f]
           IN  IsDict(r, K, V) /\ Keys(r) = Keys(d) /\ r.map = f
  <1> DEFINE r == [d EXCEPT !.map = f]
  <1>1. DOMAIN r = {"map", "before"} /\ r.map = f /\ r.before = d.before
    BY DEF IsDict
  <1>2. Keys(r) = Keys(d)
    BY <1>1 DEF Keys
  <1> HIDE DEF r
  <1>3. IsDict(r, K, V)
    BY <1>1, <1>2 DEF IsDict
  <1> QED
    BY <1>1, <1>2, <1>3 DEF r

\* The last step of block_thread.
LEMMA BlockShape ==
    ASSUME NEW m, MemTyped(m), NEW slot \in Keys(m.tasks)
    PROVE  LET n == [m EXCEPT !.tasks.map[slot].blocked = TRUE]
           IN  /\ MemTyped(n) /\ n.raised = m.raised /\ n.evidence = m.evidence
               /\ Keys(n.tasks) = Keys(m.tasks)
               /\ \A s \in Keys(m.tasks) \ {slot} : n.tasks.map[s] = m.tasks.map[s]
               /\ n.tasks.map[slot].blocked
               /\ n.tasks.map[slot].root = m.tasks.map[slot].root
               /\ n.tasks.map[slot].start = m.tasks.map[slot].start
  <1> DEFINE n == [m EXCEPT !.tasks.map[slot].blocked = TRUE]
             t == [m.tasks.map[slot] EXCEPT !.blocked = TRUE]
             f == [m.tasks.map EXCEPT ![slot] = t]
  <1>1. /\ DOMAIN m = {"tasks", "evidence", "raised"}
        /\ IsDict(m.tasks, Slot, Task) /\ slot \in Slot /\ m.tasks.map[slot] \in Task
        /\ m.tasks.map \in [Keys(m.tasks) -> Task]
    BY TaskFacts DEF MemTyped, IsDict
  <1>2. t \in Task /\ t.blocked /\ t.root = m.tasks.map[slot].root /\ t.start = m.tasks.map[slot].start
    BY <1>1 DEF Task
  <1>3. /\ DOMAIN n = {"tasks", "evidence", "raised"}
        /\ n.raised = m.raised /\ n.evidence = m.evidence
        /\ n.tasks = [m.tasks EXCEPT !.map = f]
    BY <1>1
  <1> HIDE DEF t, n
  <1>4. f \in [Keys(m.tasks) -> Task] /\ f[slot] = t /\ \A s \in Keys(m.tasks) \ {slot} : f[s] = m.tasks.map[s]
    BY <1>1, <1>2
  <1> HIDE DEF f
  <1>5. LET r == [m.tasks EXCEPT !.map = f]
        IN  IsDict(r, Slot, Task) /\ Keys(r) = Keys(m.tasks) /\ r.map = f
    BY <1>1, <1>4, ReplacedIsDict
  <1>6. IsDict(n.tasks, Slot, Task) /\ Keys(n.tasks) = Keys(m.tasks) /\ n.tasks.map = f
    BY <1>3, <1>5
  <1>7. MemTyped(n)
    BY <1>3, <1>6 DEF MemTyped
  <1> QED
    BY <1>2, <1>3, <1>4, <1>6, <1>7 DEF n


\* block_thread leaves exclusions only, all that there were and the new one.
LEMMA BlockFacts ==
    ASSUME NEW m, MemOK(m), ~m.raised, NEW slot \in Slot
    PROVE  LET n == block_thread(m, slot)
           IN  /\ Cleared(n)
               /\ ~n.raised => \A s \in Blocked(m) : s \in Blocked(n) /\ n.tasks.map[s].root = None
  <1> DEFINE n == block_thread(m, slot)
             leader == IF slot \in Keys(m.tasks) THEN m.tasks.map[slot].start ELSE None
             c == clear(m)
             seen == Recheck(c, slot, leader)
             room == MakeRoom(seen)
             h == Held(c, slot, leader)
             t == Touched(h, slot, leader)
             k == task(c, slot, leader)
             Good == /\ Cleared(n)
                     /\ ~n.raised => \A s \in Blocked(m) : s \in Blocked(n) /\ n.tasks.map[s].root = None
  <1> SUFFICES Good
    OBVIOUS
  <1>1. leader \in Start \cup {None}
    BY TaskFacts DEF MemOK
  <1>2. /\ Cleared(c) /\ MemOK(c) /\ ~c.raised
        /\ Keys(c.tasks) = Blocked(m)
        /\ \A s \in Keys(c.tasks) : c.tasks.map[s].start = m.tasks.map[s].start
    <2>1. /\ Cleared(c) /\ c.raised = m.raised
          /\ \A x : Keeps(c, m, x) /\ Spares(c, m, x)
          /\ Keys(c.tasks) = Blocked(m)
          /\ \A s \in Keys(c.tasks) : c.tasks.map[s].start = m.tasks.map[s].start
      BY ClearFacts
    <2> QED
      BY <2>1 DEF Cleared
  <1>3. slot \in Keys(c.tasks) => c.tasks.map[slot].start = leader
    BY <1>2 DEF Blocked
  <1>4. h = IF slot \in Keys(seen.tasks) THEN seen ELSE Insert(room, slot, leader)
    BY DEF Held
  <1>5. k = IF h.raised THEN h ELSE t
    BY TaskIs
  <1>6. n = IF k.raised THEN k ELSE [k EXCEPT !.tasks.map[slot].blocked = TRUE]
    BY DEF block_thread
  <1> HIDE DEF leader, c, k, n
  <1>7. /\ MemOK(seen) /\ Keeps(seen, c, slot) /\ Spares(seen, c, slot)
        /\ seen.raised = c.raised
        /\ slot \in Keys(seen.tasks) => seen = c /\ c.tasks.map[slot].start \in {None, leader}
        /\ slot \in Keys(c.tasks) /\ c.tasks.map[slot].start \in {None, leader} => seen = c
        /\ Cleared(c) => Cleared(seen)
    BY <1>1, <1>2, RecheckFacts
  <1> HIDE DEF seen
  <1>8. /\ MemTyped(h) /\ Cardinality(Keys(h.tasks)) <= MaxTasks /\ Keys(h.evidence) = {}
        /\ \A s \in Keys(h.tasks) : h.tasks.map[s].root = None
        /\ \A s \in Keys(h.tasks) \ {slot} : h.tasks.map[s].blocked
        /\ h.raised => Keys(h.tasks) = {}
        /\ ~h.raised => /\ slot \in Keys(h.tasks) /\ h.tasks.map[slot].start \in {None, leader}
                        /\ Blocked(m) \subseteq Keys(h.tasks)
    <2>1. CASE slot \in Keys(seen.tasks)
      <3>1. h = seen /\ seen = c
        BY <1>4, <1>7, <2>1
      <3> HIDE DEF h
      <3> QED
        BY <1>2, <1>7, <2>1, <3>1 DEF Cleared, MemOK
    <2>2. CASE slot \notin Keys(seen.tasks)
      <3>1. h = Insert(room, slot, leader)
        BY <1>4, <2>2
      <3>2. /\ MemOK(room) /\ Fewer(room, seen)
            /\ room.raised => Keys(room.tasks) = {}
            /\ ~room.raised => /\ Cardinality(Keys(room.tasks)) < MaxTasks
                               /\ \A x : Spares(room, seen, x)
        BY <1>2, <1>7, MakeRoomFacts
      <3> HIDE DEF h, room
      <3>3. Cleared(room)
        <4>1. /\ MemTyped(room) /\ Cardinality(Keys(room.tasks)) <= MaxTasks
              /\ Keys(room.evidence) = {}
              /\ \A s \in Keys(room.tasks) : room.tasks.map[s].blocked /\ room.tasks.map[s].root = None
          BY <1>2, <1>7, <3>2 DEF MemOK, Cleared, Fewer, Sheds
        <4> QED
          BY <4>1, ClearedOK
      <3>4. CASE room.raised
        <4>1. h = room
          BY <3>1, <3>4 DEF Insert
        <4> QED
          BY <3>2, <3>3, <3>4, <4>1 DEF Cleared, MemOK
      <3>5. CASE ~room.raised
        <4>1. slot \notin Keys(room.tasks)
          BY <2>2, <3>2 DEF Fewer
        <4>2. /\ MemTyped(h) /\ ~h.raised
              /\ Keys(h.tasks) = Keys(room.tasks) \cup {slot}
              /\ \A s \in Keys(room.tasks) : h.tasks.map[s] = room.tasks.map[s]
              /\ h.tasks.map[slot].start = leader
              /\ h.tasks.map[slot].root = None
              /\ h.tasks.map[slot].blocked <=> \E o \in Blocked(room) :
                     o[2] = slot[2] /\ room.tasks.map[o].start \in {None, leader}
              /\ h.evidence = room.evidence
              /\ Cardinality(Keys(h.tasks)) <= MaxTasks
          <5> DEFINE g == Insert(room, slot, leader)
          <5>1. /\ MemTyped(g) /\ ~g.raised
                /\ Keys(g.tasks) = Keys(room.tasks) \cup {slot}
                /\ \A s \in Keys(room.tasks) : g.tasks.map[s] = room.tasks.map[s]
                /\ g.tasks.map[slot].start = leader
                /\ g.tasks.map[slot].root = None
                /\ g.tasks.map[slot].blocked <=> \E o \in Blocked(room) :
                       o[2] = slot[2] /\ room.tasks.map[o].start \in {None, leader}
                /\ g.evidence = room.evidence
                /\ Cardinality(Keys(g.tasks)) <= MaxTasks
            BY <1>1, <3>2, <3>5, <4>1, InsertShape
          <5>2. h = g
            BY <3>1
          <5> HIDE DEF g
          <5> QED
            BY <5>1, <5>2
        <4>3. Blocked(m) \subseteq Keys(h.tasks)
          <5> SUFFICES ASSUME NEW s \in Blocked(m) PROVE s \in Keys(h.tasks)
            OBVIOUS
          <5>1. CASE s = slot
            BY <4>2, <5>1
          <5>2. CASE s # slot
            <6>1. s \in Blocked(c) \ {slot} /\ c.tasks.map[s].root = None
              BY <1>2, <5>2 DEF Cleared, Blocked
            <6>2. s \in Blocked(seen) \ {slot} /\ seen.tasks.map[s].root = None
              BY <1>7, <6>1 DEF Spares
            <6>3. s \in Blocked(room)
              BY <3>2, <3>5, <6>2 DEF Spares
            <6> QED
              BY <4>2, <6>3 DEF Blocked
          <5> QED
            BY <5>1, <5>2
        <4> QED
          BY <3>3, <4>2, <4>3 DEF Cleared
      <3> QED
        BY <3>4, <3>5
    <2> QED
      BY <2>1, <2>2
  <1> HIDE DEF h
  <1>9. CASE h.raised
    <2>1. n = h
      BY <1>5, <1>6, <1>9
    <2>2. Cleared(h)
      BY <1>8, <1>9, ClearedOK
    <2> QED
      BY <1>9, <2>1, <2>2
  <1>10. CASE ~h.raised
    <2>1. /\ MemTyped(t) /\ t.raised = h.raised /\ t.evidence = h.evidence
          /\ Keys(t.tasks) = Keys(h.tasks)
          /\ \A s \in Keys(h.tasks) \ {slot} : t.tasks.map[s] = h.tasks.map[s]
          /\ t.tasks.map[slot].start = leader
          /\ t.tasks.map[slot].blocked = h.tasks.map[slot].blocked
          /\ t.tasks.map[slot].root = h.tasks.map[slot].root
          /\ t.tasks.map[slot].children = h.tasks.map[slot].children
      BY <1>1, <1>8, <1>10, TouchShape
    <2> HIDE DEF t
    <2>2. n = [t EXCEPT !.tasks.map[slot].blocked = TRUE] /\ slot \in Keys(t.tasks)
      BY <1>5, <1>6, <1>8, <1>10, <2>1
    <2>3. /\ MemTyped(n) /\ n.raised = t.raised /\ n.evidence = t.evidence
          /\ Keys(n.tasks) = Keys(t.tasks)
          /\ \A s \in Keys(t.tasks) \ {slot} : n.tasks.map[s] = t.tasks.map[s]
          /\ n.tasks.map[slot].blocked
          /\ n.tasks.map[slot].root = t.tasks.map[slot].root
          /\ n.tasks.map[slot].start = t.tasks.map[slot].start
      BY <2>1, <2>2, BlockShape
    <2>4. \A s \in Keys(n.tasks) : n.tasks.map[s].blocked /\ n.tasks.map[s].root = None
      BY <1>8, <1>10, <2>1, <2>3
    <2>5. Keys(n.evidence) = {} /\ Cardinality(Keys(n.tasks)) <= MaxTasks
      BY <1>8, <2>1, <2>3
    <2>6. Cleared(n)
      BY <2>3, <2>4, <2>5, ClearedOK
    <2> QED
      BY <1>8, <1>10, <2>1, <2>3, <2>4, <2>6 DEF Blocked
  <1> QED
    BY <1>9, <1>10

\* The last step of fork.
Linked(m, slot, cslot, root) ==
    [m EXCEPT !.tasks.map[slot].root = root,
              !.tasks.map[slot].children = TRUE,
              !.tasks.map[cslot].root = root]

LEMMA LinkShape ==
    ASSUME NEW m, MemTyped(m), NEW slot \in Keys(m.tasks), NEW cslot \in Keys(m.tasks), slot # cslot,
           NEW root \in Key
    PROVE  LET n == Linked(m, slot, cslot, root)
           IN  /\ MemTyped(n) /\ n.raised = m.raised /\ n.evidence = m.evidence
               /\ Keys(n.tasks) = Keys(m.tasks)
               /\ \A s \in Keys(m.tasks) \ {slot, cslot} : n.tasks.map[s] = m.tasks.map[s]
               /\ \A s \in {slot, cslot} : /\ n.tasks.map[s].root = root
                                           /\ n.tasks.map[s].start = m.tasks.map[s].start
                                           /\ n.tasks.map[s].blocked = m.tasks.map[s].blocked
               /\ n.tasks.map[slot].children
               /\ n.tasks.map[cslot].children = m.tasks.map[cslot].children
  <1> DEFINE n == Linked(m, slot, cslot, root)
             t == [m.tasks.map[slot] EXCEPT !.root = root, !.children = TRUE]
             u == [m.tasks.map[cslot] EXCEPT !.root = root]
             f == [s \in Keys(m.tasks) |-> IF s = slot THEN t ELSE IF s = cslot THEN u ELSE m.tasks.map[s]]
  <1>1. /\ DOMAIN m = {"tasks", "evidence", "raised"}
        /\ IsDict(m.tasks, Slot, Task) /\ m.tasks.map[slot] \in Task /\ m.tasks.map[cslot] \in Task
        /\ m.tasks.map \in [Keys(m.tasks) -> Task] /\ DOMAIN m.tasks = {"map", "before"}
    BY TaskFacts DEF MemTyped, IsDict
  <1>2. /\ t \in Task /\ t.root = root
        /\ t.start = m.tasks.map[slot].start /\ t.blocked = m.tasks.map[slot].blocked /\ t.children
    BY <1>1 DEF Task
  <1>3. /\ u \in Task /\ u.root = root
        /\ u.start = m.tasks.map[cslot].start /\ u.blocked = m.tasks.map[cslot].blocked
        /\ u.children = m.tasks.map[cslot].children
    BY <1>1 DEF Task
  <1>4. /\ f \in [Keys(m.tasks) -> Task] /\ f[slot] = t /\ f[cslot] = u
        /\ \A s \in Keys(m.tasks) \ {slot, cslot} : f[s] = m.tasks.map[s]
    <2> HIDE DEF t, u
    <2> QED
      BY <1>1, <1>2, <1>3
  <1>5. [[[m.tasks.map EXCEPT ![slot].root = root] EXCEPT ![slot].children = TRUE] EXCEPT ![cslot].root = root] = f
    <2> DEFINE a == [m.tasks.map EXCEPT ![slot].root = root]
               b == [a EXCEPT ![slot].children = TRUE]
               c == [b EXCEPT ![cslot].root = root]
    <2>1. /\ DOMAIN a = Keys(m.tasks) /\ a[slot] = [m.tasks.map[slot] EXCEPT !.root = root]
          /\ \A s \in Keys(m.tasks) \ {slot} : a[s] = m.tasks.map[s]
      BY <1>1
    <2> HIDE DEF a
    <2>2. /\ DOMAIN b = Keys(m.tasks) /\ b[slot] = [a[slot] EXCEPT !.children = TRUE]
          /\ \A s \in Keys(m.tasks) \ {slot} : b[s] = a[s]
      BY <2>1
    <2>3. [a[slot] EXCEPT !.children = TRUE] = t
      BY <1>1, <2>1 DEF Task
    <2> HIDE DEF b, t
    <2>4. /\ DOMAIN c = Keys(m.tasks) /\ c[cslot] = [b[cslot] EXCEPT !.root = root]
          /\ \A s \in Keys(m.tasks) \ {cslot} : c[s] = b[s]
      BY <2>2
    <2>5. c = [s \in Keys(m.tasks) |-> c[s]]
      BY <2>4
    <2>6. \A s \in Keys(m.tasks) : c[s] = f[s]
      BY <1>4, <2>1, <2>2, <2>3, <2>4
    <2> HIDE DEF c, u
    <2> QED
      BY <2>5, <2>6 DEF a, b, c
  <1>6. /\ DOMAIN n = {"tasks", "evidence", "raised"}
        /\ n.raised = m.raised /\ n.evidence = m.evidence
        /\ n.tasks = [m.tasks EXCEPT !.map = f]
    <2> HIDE DEF f
    <2> QED
      BY <1>1, <1>5 DEF Linked
  <1> HIDE DEF t, u, f, n
  <1>7. LET r == [m.tasks EXCEPT !.map = f]
        IN  IsDict(r, Slot, Task) /\ Keys(r) = Keys(m.tasks) /\ r.map = f
    BY <1>1, <1>4, ReplacedIsDict
  <1>8. IsDict(n.tasks, Slot, Task) /\ Keys(n.tasks) = Keys(m.tasks) /\ n.tasks.map = f
    BY <1>6, <1>7
  <1>9. MemTyped(n)
    BY <1>6, <1>8 DEF MemTyped
  <1> QED
    BY <1>2, <1>3, <1>4, <1>6, <1>8, <1>9 DEF n

\* fork keeps the memory sound: nobody names the child's key as a root, since a root is
\* known by its generation, and the root of the parent outlives the look-up of the child.
LEMMA ForkOK ==
    ASSUME NEW m, MemOK(m), ~m.raised, NEW slot \in Keys(m.tasks), m.tasks.map[slot].start # None,
           NEW child \in Pid, child # slot[2], NEW birth \in Start
    PROVE  LET n == fork(m, slot, child, birth)
               cslot == <<slot[1], child>>
           IN  /\ MemOK(n) /\ Sheds(n, m)
               /\ ~n.raised => /\ Spares(n, m, cslot)
                               /\ /\ cslot \in Blocked(m)
                                  /\ m.tasks.map[cslot].root = None
                                  /\ m.tasks.map[cslot].start \in {None, birth}
                                  => cslot \in Blocked(n)
  <1> DEFINE n == fork(m, slot, child, birth)
             parent == m.tasks.map[slot]
             root == Family(slot, parent)
             cslot == <<slot[1], child>>
             held == task(m, cslot, birth)
             kept == /\ cslot \in Blocked(m)
                     /\ m.tasks.map[cslot].root = None
                     /\ m.tasks.map[cslot].start \in {None, birth}
             born == cslot \in Keys(m.tasks) /\ m.tasks.map[cslot].start \in {None, birth}
             Good == /\ MemOK(n) /\ Sheds(n, m)
                     /\ ~n.raised => Spares(n, m, cslot) /\ (kept => cslot \in Blocked(n))
  <1> SUFFICES Good
    OBVIOUS
  <1>1. cslot \in Slot /\ cslot # slot /\ slot \in Slot
    BY TaskFacts DEF MemOK, Slot
  <1>2. /\ MemOK(held) /\ Keeps(held, m, cslot)
        /\ held.raised => Keys(held.tasks) = {}
        /\ ~held.raised => /\ Spares(held, m, cslot)
                           /\ cslot \in Keys(held.tasks)
                           /\ held.tasks.map[cslot].start = birth
                           /\ kept => cslot \in Blocked(held) /\ held.tasks.map[cslot].root = None
    <2> HIDE DEF cslot
    <2>1. /\ MemOK(held) /\ Keeps(held, m, cslot)
          /\ held.raised => Keys(held.tasks) = {}
          /\ ~held.raised => /\ Spares(held, m, cslot)
                             /\ cslot \in Keys(held.tasks)
                             /\ held.tasks.map[cslot].start = birth
                             /\ /\ cslot \in Blocked(m)
                                /\ m.tasks.map[cslot].root = None
                                /\ m.tasks.map[cslot].start \in {None, birth}
                                => cslot \in Blocked(held) /\ held.tasks.map[cslot].root = None
      BY <1>1, TaskOK
    <2> QED
      BY <2>1
  <1>3. n = IF parent.blocked THEN m
            ELSE IF Unresolved(m, parent) THEN clear(m)
            ELSE IF born THEN clear(m)
            ELSE IF held.raised THEN held
            ELSE IF slot \notin Keys(held.tasks) \/ Unresolved(held, parent) THEN clear(held)
            ELSE Linked(held, slot, cslot, root)
    BY DEF fork, Linked
  <1> HIDE DEF n, held, cslot
  <1>4. CASE parent.blocked
    <2>1. n = m
      BY <1>3, <1>4
    <2> QED
      BY <2>1 DEF Sheds, Spares
  <1>5. CASE ~parent.blocked /\ (Unresolved(m, parent) \/ born)
    <2>1. n = clear(m)
      BY <1>3, <1>5
    <2>2. /\ Cleared(n) /\ n.raised = m.raised
          /\ Keeps(n, m, cslot) /\ Spares(n, m, cslot)
          /\ Keys(n.tasks) = Blocked(m)
      BY <2>1, ClearFacts
    <2>3. kept => cslot \in Blocked(n)
      BY <2>2 DEF Cleared, Blocked
    <2> QED
      BY <2>2, <2>3 DEF Cleared, Keeps
  <1>6. CASE ~parent.blocked /\ ~ Unresolved(m, parent) /\ ~born
    <2>0. ~kept
      BY <1>6 DEF Blocked
    <2>1. CASE held.raised
      <3>1. n = held
        BY <1>3, <1>6, <2>1
      <3> QED
        BY <1>2, <2>1, <3>1 DEF Keeps
    <2>2. CASE ~held.raised /\ (slot \notin Keys(held.tasks) \/ Unresolved(held, parent))
      <3>1. n = clear(held)
        BY <1>3, <1>6, <2>2
      <3>2. Cleared(n) /\ Keeps(n, held, cslot) /\ Spares(n, held, cslot)
        BY <1>2, <3>1, ClearFacts
      <3>3. Keeps(n, m, cslot) /\ Spares(n, m, cslot)
        BY <1>2, <2>2, <3>2, KeepsTransitive, SparesTransitive
      <3> QED
        BY <2>0, <3>2, <3>3 DEF Cleared, Keeps
    <2>3. CASE ~held.raised /\ slot \in Keys(held.tasks) /\ ~ Unresolved(held, parent)
      <3>1. n = Linked(held, slot, cslot, root)
        BY <1>3, <1>6, <2>3
      <3>2. root \in Key /\ AliveIn(m, root)
        BY <1>6, FamilyFacts
      <3>3. root = IF parent.root = None THEN KeyOf(slot, parent.start) ELSE parent.root
        BY DEF Family
      <3> HIDE DEF root
      <3>4. /\ MemTyped(n) /\ n.raised = held.raised /\ n.evidence = held.evidence
            /\ Keys(n.tasks) = Keys(held.tasks)
            /\ \A s \in Keys(held.tasks) \ {slot, cslot} : n.tasks.map[s] = held.tasks.map[s]
            /\ \A s \in {slot, cslot} : /\ n.tasks.map[s].root = root
                                        /\ n.tasks.map[s].start = held.tasks.map[s].start
                                        /\ n.tasks.map[s].blocked = held.tasks.map[s].blocked
            /\ n.tasks.map[slot].children
            /\ n.tasks.map[cslot].children = held.tasks.map[cslot].children
        <4>1. MemTyped(held) /\ slot \in Keys(held.tasks) /\ cslot \in Keys(held.tasks) /\ slot # cslot
          BY <1>1, <1>2, <2>3 DEF MemOK
        <4> QED
          BY <3>1, <3>2, <4>1, LinkShape
      <3>5. /\ \A s \in Keys(held.tasks) : n.tasks.map[s].start = held.tasks.map[s].start
            /\ \A s \in Keys(held.tasks) : n.tasks.map[s].blocked = held.tasks.map[s].blocked
            /\ Blocked(n) = Blocked(held)
        BY <3>4 DEF Blocked
      <3>6. held.tasks.map[slot] = parent
        BY <1>1, <1>2, <1>6, <2>3 DEF Keeps
      \* No root is in the child's slot: one that were would be of the child's generation,
      \* in the memory before the look-up.
      <3>7. ASSUME NEW r \in Named(m), AliveIn(held, r) PROVE SlotOf(r) # cslot
        <4>1. AliveIn(m, r) /\ r.start \in Start
          BY KeyFacts DEF MemOK, Named
        <4>2. SlotOf(r) = cslot => r.start = birth
          BY <1>2, <2>3, <3>7 DEF AliveIn
        <4> QED
          BY <1>6, <4>1, <4>2 DEF AliveIn
      <3>8. AliveIn(held, root) /\ SlotOf(root) # cslot
        <4>1. CASE parent.root = None
          <5>1. SlotOf(root) = slot /\ root.start = parent.start
            BY <1>1, <3>3, <4>1, KeyFacts
          <5> QED
            BY <1>1, <1>6, <2>3, <3>6, <4>1, <5>1 DEF AliveIn
        <4>2. CASE parent.root # None
          <5>1. root = parent.root /\ root \in Named(m)
            BY <3>2, <3>3, <4>2 DEF Named
          <5>2. /\ SlotOf(root) \in Keys(held.tasks)
                /\ held.tasks.map[SlotOf(root)].start = root.start
                /\ ~held.tasks.map[SlotOf(root)].blocked
            BY <2>3, <4>2, <5>1 DEF Unresolved
          <5>3. SlotOf(root) # cslot
            <6>1. SlotOf(root) = cslot => root.start = birth
              BY <1>2, <2>3, <5>2
            <6> QED
              BY <1>6, <3>2, <6>1 DEF AliveIn
          <5>4. held.tasks.map[SlotOf(root)] = m.tasks.map[SlotOf(root)]
            BY <1>2, <5>2, <5>3 DEF Keeps
          <5> QED
            BY <3>2, <5>2, <5>3, <5>4 DEF AliveIn
        <4> QED
          BY <4>1, <4>2
      <3>9. Named(n) \subseteq Named(held) \cup {root}
        BY <3>4 DEF Named
      <3>10. ASSUME NEW r \in Named(n) PROVE AliveIn(n, r)
        <4>1. r \in Key /\ AliveIn(held, r) /\ SlotOf(r) # cslot
          <5>1. CASE r = root
            BY <3>2, <3>8, <5>1
          <5>2. CASE r # root
            <6>1. r \in Named(held) /\ r \in Named(m) /\ r \in Key
              BY <1>2, <3>9, <5>2 DEF Keeps, Named
            <6>2. AliveIn(held, r)
              BY <1>2, <6>1 DEF MemOK
            <6> QED
              BY <3>7, <6>1, <6>2
          <5> QED
            BY <5>1, <5>2
        <4>2. CASE SlotOf(r) # slot
          BY <3>4, <3>5, <4>1, <4>2 DEF AliveIn
        <4>3. CASE SlotOf(r) = slot
          <5>1. parent.start = r.start /\ parent.root \in {None, r}
            BY <3>6, <4>1, <4>3 DEF AliveIn
          <5>2. r = root
            BY <3>3, <4>1, <4>3, <5>1, KeyFacts
          <5> QED
            BY <3>4, <3>5, <4>1, <4>3, <5>2 DEF AliveIn
        <4> QED
          BY <4>2, <4>3
      <3>11. Followed(n) /\ Dated(n)
        <4>1. Followed(held) /\ Dated(held) /\ Keys(n.tasks) = Keys(held.tasks)
          BY <1>2, <3>4 DEF MemOK
        <4>2. Followed(n)
          BY <3>5, <4>1 DEF Followed, Blocked
        <4>3. Dated(n)
          BY <3>5, <4>1 DEF Dated
        <4> QED
          BY <4>2, <4>3
      <3>12. MemOK(n)
        BY <1>2, <3>4, <3>10, <3>11 DEF MemOK
      <3>13. Sheds(n, m)
        BY <1>2, <3>4 DEF Keeps, Sheds
      <3>14. Spares(n, m, cslot)
        <4> SUFFICES ASSUME NEW s \in Blocked(m) \ {cslot}, m.tasks.map[s].root = None
                     PROVE  s \in Blocked(n) /\ n.tasks.map[s].root = None
          BY DEF Spares
        <4>1. s # slot
          BY <1>6 DEF Blocked
        <4>2. s \in Blocked(held) /\ held.tasks.map[s].root = None /\ s \in Keys(held.tasks)
          BY <1>2, <2>3 DEF Spares, Blocked
        <4> QED
          BY <3>4, <3>5, <4>1, <4>2
      <3> QED
        BY <2>0, <3>12, <3>13, <3>14
    <2> QED
      BY <2>1, <2>2, <2>3
  <1> QED
    BY <1>4, <1>5, <1>6

-----------------------------------------------------------------------------
(* What observe does to a memory once the task of a frame is found.        *)

\* A family is dropped by its root or any other member.
LEMMA DropFamilyOK ==
    ASSUME NEW m, MemOK(m), NEW slot \in Keys(m.tasks), m.tasks.map[slot].start # None
    PROVE  LET n == drop_family(m, Family(slot, m.tasks.map[slot]))
           IN  /\ MemOK(n) /\ Sheds(n, m) /\ n.raised = m.raised /\ Spares(n, m, slot)
               /\ slot \notin Keys(n.tasks)
  <1> DEFINE root == Family(slot, m.tasks.map[slot])
             n == drop_family(m, root)
  <1>1. /\ root \in Key
        /\ slot \in Gone(m, root)
        /\ m.tasks.map[slot].blocked \/ AliveIn(m, root)
        /\ \A o \in Blocked(m) \ {slot} : m.tasks.map[o].root = None => o \notin Gone(m, root)
    BY FamilyFacts
  <1> HIDE DEF root
  <1>2. /\ MemOK(n) /\ Fewer(n, m)
        /\ Keys(n.tasks) = Keys(m.tasks) \ Gone(m, root)
        /\ n.raised = m.raised
        /\ root \notin Keys(n.evidence)
    BY <1>1, DropFacts DEF Gone
  <1> HIDE DEF n
  <1>3. Spares(n, m, slot)
    BY <1>1, <1>2 DEF Spares, Blocked, Fewer
  <1>4. /\ MemOK(n) /\ Sheds(n, m) /\ n.raised = m.raised /\ Spares(n, m, slot)
        /\ slot \notin Keys(n.tasks)
    BY <1>1, <1>2, <1>3 DEF Fewer
  <1> QED
    BY <1>4 DEF n, root

\* A leaf has no root in its slot, and can go alone.
LEMMA LeafOK ==
    ASSUME NEW m, MemOK(m), NEW slot \in Keys(m.tasks), NEW start \in Start,
           m.tasks.map[slot].start = start,
           m.tasks.map[slot].root \notin {None, KeyOf(slot, start)}
    PROVE  LET n == [m EXCEPT !.tasks = Without(@, {slot})]
           IN  /\ MemOK(n) /\ Sheds(n, m) /\ n.raised = m.raised /\ Spares(n, m, slot)
               /\ n.evidence = m.evidence
               /\ Keys(n.tasks) = Keys(m.tasks) \ {slot}
               /\ \A s \in Keys(n.tasks) : n.tasks.map[s] = m.tasks.map[s]
  <1> DEFINE n == [m EXCEPT !.tasks = Without(@, {slot})]
  <1>1. DOMAIN m = {"tasks", "evidence", "raised"} /\ IsDict(m.tasks, Slot, Task)
    BY DEF MemOK, MemTyped
  <1>2. LET r == Without(m.tasks, {slot})
        IN  /\ IsDict(r, Slot, Task)
            /\ Keys(r) = Keys(m.tasks) \ {slot}
            /\ \A s \in Keys(r) : r.map[s] = m.tasks.map[s]
            /\ r.before \subseteq m.tasks.before
    BY <1>1, WithoutIsDict
  <1>3. /\ DOMAIN n = {"tasks", "evidence", "raised"}
        /\ n.tasks = Without(m.tasks, {slot}) /\ n.evidence = m.evidence /\ n.raised = m.raised
    BY <1>1
  <1> HIDE DEF n
  <1>4. /\ Keys(n.tasks) = Keys(m.tasks) \ {slot}
        /\ \A s \in Keys(n.tasks) : n.tasks.map[s] = m.tasks.map[s]
        /\ MemTyped(n)
    BY <1>2, <1>3 DEF MemOK, MemTyped
  <1>5. Fewer(n, m)
    BY <1>3, <1>4 DEF Fewer, Sheds
  <1>6. ASSUME NEW r \in Named(n) PROVE SlotOf(r) \in Keys(n.tasks)
    <2>1. r \in Key /\ AliveIn(m, r)
      BY <1>5 DEF MemOK, Named, Fewer, Sheds
    <2>2. SlotOf(r) = slot => r = KeyOf(slot, start)
      BY <2>1, KeyFacts DEF AliveIn
    <2>3. SlotOf(r) # slot
      <3> SUFFICES ASSUME SlotOf(r) = slot PROVE FALSE
        OBVIOUS
      <3>1. r = KeyOf(slot, start) /\ m.tasks.map[slot].root \in {None, r}
        BY <2>1, <2>2 DEF AliveIn
      <3> QED
        BY <3>1
    <2> QED
      BY <1>4, <2>1, <2>3 DEF AliveIn
  <1>7. MemOK(n)
    BY <1>4, <1>5, <1>6, FewerOK
  <1>8. Spares(n, m, slot)
    BY <1>4 DEF Spares, Blocked
  <1> QED
    BY <1>3, <1>4, <1>5, <1>7, <1>8 DEF Fewer, n

\* Evidence that is taken.
LEMMA ForgetOK ==
    ASSUME NEW m, MemOK(m), NEW root
    PROVE  LET n == [m EXCEPT !.evidence = Without(@, {root})]
           IN  MemOK(n) /\ Sheds(n, m) /\ n.raised = m.raised /\ n.tasks = m.tasks
  <1> DEFINE n == [m EXCEPT !.evidence = Without(@, {root})]
  <1>1. DOMAIN m = {"tasks", "evidence", "raised"} /\ IsDict(m.evidence, Key, Precursor)
    BY DEF MemOK, MemTyped
  <1>2. LET r == Without(m.evidence, {root})
        IN  /\ IsDict(r, Key, Precursor)
            /\ Keys(r) = Keys(m.evidence) \ {root}
            /\ \A k \in Keys(r) : r.map[k] = m.evidence.map[k]
            /\ r.before \subseteq m.evidence.before
    BY <1>1, WithoutIsDict
  <1>3. /\ DOMAIN n = {"tasks", "evidence", "raised"}
        /\ n.evidence = Without(m.evidence, {root}) /\ n.tasks = m.tasks /\ n.raised = m.raised
    BY <1>1
  <1> HIDE DEF n
  <1>4. Sheds(n, m) /\ MemTyped(n)
    BY <1>2, <1>3 DEF Sheds, MemOK, MemTyped
  <1>5. Fewer(n, m)
    BY <1>3, <1>4 DEF Fewer
  <1>6. \A r \in Named(n) : SlotOf(r) \in Keys(n.tasks)
    <2>1. Named(n) \subseteq Named(m)
      BY <1>5 DEF Named, Fewer, Sheds
    <2> QED
      BY <1>3, <2>1 DEF MemOK, AliveIn
  <1>7. MemOK(n)
    BY <1>4, <1>5, <1>6, FewerOK
  <1> QED
    BY <1>3, <1>4, <1>7 DEF n

\* Evidence that is found or renewed goes to the end of the order.
LEMMA RememberOK ==
    ASSUME NEW m, MemOK(m), NEW ts \in 0 .. MaxTs, Fresh(m, ts),
           NEW root \in Key, AliveIn(m, root), NEW key \in Key
    PROVE  LET n == Remember(m, root, ts, key)
           IN  /\ MemOK(n) /\ Fresh(n, ts) /\ n.raised = m.raised /\ n.tasks = m.tasks
               /\ Keys(n.evidence) = Keys(m.evidence) \cup {root}
               /\ n.evidence.map[root].source = key
               /\ \A k \in Keys(m.evidence) \ {root} : n.evidence.map[k] = m.evidence.map[k]
  <1> DEFINE n == Remember(m, root, ts, key)
             v == [ts |-> ts, source |-> key]
             w == Without(m.evidence, {root})
             e == SetItem(w, root, v)
  <1>1. DOMAIN m = {"tasks", "evidence", "raised"} /\ IsDict(m.evidence, Key, Precursor)
    BY DEF MemOK, MemTyped
  <1>2. v \in Precursor /\ v.ts = ts /\ v.source = key
    BY DEF Precursor
  <1>3. /\ IsDict(w, Key, Precursor)
        /\ Keys(w) = Keys(m.evidence) \ {root}
        /\ \A k \in Keys(w) : w.map[k] = m.evidence.map[k]
        /\ w.before \subseteq m.evidence.before
    BY <1>1, WithoutIsDict
  <1> HIDE DEF v, w
  <1>4. /\ IsDict(e, Key, Precursor)
        /\ Keys(e) = Keys(w) \cup {root}
        /\ e.map[root] = v
        /\ \A x \in Keys(w) \ {root} : e.map[x] = w.map[x]
        /\ root \in Keys(w) => e.before = w.before
        /\ root \notin Keys(w) => e.before = w.before \cup (Keys(w) \X {root})
    BY <1>2, <1>3, SetItemIsDict
  <1>5. n = [m EXCEPT !.evidence = e]
    BY DEF Remember, v, w
  <1> HIDE DEF e
  <1>6. /\ DOMAIN n = {"tasks", "evidence", "raised"}
        /\ n.evidence = e /\ n.tasks = m.tasks /\ n.raised = m.raised
    BY <1>1, <1>5
  <1> HIDE DEF n
  <1>7. MemTyped(n)
    BY <1>4, <1>6 DEF MemOK, MemTyped
  <1>8. \A r \in Named(n) : AliveIn(n, r)
    <2>1. Named(n) \subseteq Named(m) \cup {root}
      BY <1>3, <1>4, <1>6 DEF Named
    <2> QED
      BY <1>6, <2>1 DEF MemOK, AliveIn
  <1>9. MemOK(n)
    BY <1>6, <1>7, <1>8 DEF MemOK, Followed, Dated, Blocked
  <1>10. /\ \A k \in Keys(w) : k # root /\ k \in Keys(m.evidence) /\ e.map[k] = m.evidence.map[k]
         /\ e.map[root].ts = ts
         /\ e.before = w.before \cup (Keys(w) \X {root})
    BY <1>2, <1>3, <1>4
  <1>11. \A k \in Keys(n.evidence) : n.evidence.map[k].ts <= ts /\ ts - n.evidence.map[k].ts < Ttl
    BY <1>4, <1>6, <1>10, MemoryAssumption DEF Fresh
  <1>12. ASSUME NEW p \in n.evidence.before
         PROVE  n.evidence.map[p[1]].ts <= n.evidence.map[p[2]].ts
    <2>1. CASE p \in w.before
      <3>1. p[1] \in Keys(w) /\ p[2] \in Keys(w)
        BY <1>3, <2>1 DEF IsDict, Orders
      <3>2. m.evidence.map[p[1]].ts <= m.evidence.map[p[2]].ts
        BY <1>3, <2>1 DEF Fresh
      <3> QED
        BY <1>6, <1>10, <3>1, <3>2
    <2>2. CASE p \in Keys(w) \X {root}
      BY <1>4, <1>6, <1>10, <1>11, <2>2
    <2> QED
      BY <1>6, <1>10, <2>1, <2>2
  <1>13. Fresh(n, ts)
    BY <1>11, <1>12 DEF Fresh
  <1>14. /\ Keys(n.evidence) = Keys(m.evidence) \cup {root}
         /\ n.evidence.map[root].source = key
         /\ \A k \in Keys(m.evidence) \ {root} : n.evidence.map[k] = m.evidence.map[k]
    BY <1>2, <1>3, <1>4, <1>6
  <1> QED
    BY <1>6, <1>9, <1>13, <1>14 DEF n

-----------------------------------------------------------------------------
(* The invariant and the steps of the replay.                              *)

\* The inductive invariant: FamilyRooted, ExclusionFollows, EvidenceFresh and the bound in
\* a form that speaks of one memory, and that a raised exception has ended the replay.
MemoryInv ==
    /\ MemOK(mem)
    /\ Fresh(mem, last_ts)
    /\ replay = "reading" => ~mem.raised
    /\ last_ts \in 0 .. MaxTs
    /\ health \in Loss \cup {None}
    /\ replay \in {"reading", "failed", "ended"}
    /\ advisory \in Advisory \cup {None}

\* An exclusion of slot that a frame of generation start does not end.
Standing(m, slot, start) ==
    /\ slot \in Blocked(m)
    /\ m.tasks.map[slot].root = None
    /\ m.tasks.map[slot].start \in {None, start}

\* Every exclusion outside families stays.
Spared(n, m) ==
    \A s \in Blocked(m) : m.tasks.map[s].root = None => s \in Blocked(n) /\ n.tasks.map[s].root = None

\* The memory that a step leaves.
LEMMA LeftInv ==
    ASSUME MemoryInv, NEW n, MemOK(n), Fresh(n, last_ts'), Leave(n),
           last_ts' \in 0 .. MaxTs, health' \in Loss \cup {None}, advisory' \in Advisory \cup {None}
    PROVE  MemoryInv'
  <1>1. mem' = n /\ replay' = IF n.raised THEN "failed" ELSE "reading"
    BY DEF Leave
  <1>2. MemOK(mem') /\ Fresh(mem', last_ts') /\ (replay' = "reading" => ~mem'.raised)
    BY <1>1
  <1>3. replay' \in {"reading", "failed", "ended"}
    BY <1>1
  <1> QED
    BY <1>2, <1>3 DEF MemoryInv

\* A frame in order finds a memory whose evidence has expired up to now.
LEMMA AgedOK ==
    ASSUME MemoryInv, NEW ts \in 0 .. MaxTs, InOrder(ts)
    PROVE  LET a == Aged(ts)
           IN  MemOK(a) /\ Fresh(a, ts) /\ ~a.raised /\ a.tasks = mem.tasks
  <1> DEFINE a == Aged(ts)
  <1>1. last_ts \in 0 .. MaxTs /\ last_ts <= ts /\ MemOK(mem) /\ Fresh(mem, last_ts) /\ ~mem.raised
    BY DEF MemoryInv, InOrder
  <1>2. a = expire(mem, ts)
    BY DEF Aged
  <1> HIDE DEF a
  <1>3. MemOK(a) /\ Fresh(a, ts) /\ Fewer(a, mem) /\ a.tasks = mem.tasks /\ a.raised = mem.raised
    BY <1>1, <1>2, ExpireFacts
  <1> QED
    BY <1>1, <1>3 DEF a

\* In it the task of the frame is found.
LEMMA FoundOK ==
    ASSUME MemoryInv, NEW ts \in 0 .. MaxTs, NEW slot \in Slot, NEW start \in Start,
           FrameOf(ts, slot, start)
    PROVE  LET m == Found(ts, slot, start)
           IN  /\ MemOK(m) /\ Fresh(m, ts)
               /\ ~m.raised => /\ Spares(m, mem, slot)
                               /\ \A s \in Keys(m.tasks) \ {slot} :
                                    m.tasks.map[s].start = mem.tasks.map[s].start
                               /\ slot \in Keys(m.tasks)
                               /\ m.tasks.map[slot].start = start
                               /\ Standing(mem, slot, start) =>
                                    slot \in Blocked(m) /\ m.tasks.map[slot].root = None
  <1> DEFINE m == Found(ts, slot, start)
             a == Aged(ts)
             kept == /\ slot \in Blocked(a)
                     /\ a.tasks.map[slot].root = None
                     /\ a.tasks.map[slot].start \in {None, start}
             Good == /\ MemOK(m) /\ Fresh(m, ts)
                     /\ ~m.raised => /\ Spares(m, mem, slot)
                                     /\ \A s \in Keys(m.tasks) \ {slot} :
                                          m.tasks.map[s].start = mem.tasks.map[s].start
                                     /\ slot \in Keys(m.tasks)
                                     /\ m.tasks.map[slot].start = start
                                     /\ Standing(mem, slot, start) =>
                                          slot \in Blocked(m) /\ m.tasks.map[slot].root = None
  <1> SUFFICES Good
    OBVIOUS
  <1>1. MemOK(a) /\ Fresh(a, ts) /\ ~a.raised /\ a.tasks = mem.tasks
    BY AgedOK DEF FrameOf
  <1>2. m = task(a, slot, start)
    BY DEF Found
  <1> HIDE DEF a, m
  <1>3. /\ MemOK(m) /\ Keeps(m, a, slot)
        /\ m.raised => Keys(m.tasks) = {}
        /\ ~m.raised => /\ Spares(m, a, slot)
                        /\ slot \in Keys(m.tasks)
                        /\ m.tasks.map[slot].start = start
                        /\ kept => slot \in Blocked(m) /\ m.tasks.map[slot].root = None
    BY <1>1, <1>2, TaskOK
  <1>4. Fresh(m, ts)
    BY <1>1, <1>3, ShedsFresh DEF Keeps, MemOK
  <1>5. Spares(m, a, slot) => Spares(m, mem, slot)
    BY <1>1 DEF Spares, Blocked
  <1>6. Standing(mem, slot, start) => kept
    BY <1>1 DEF Standing, Blocked
  <1>7. \A s \in Keys(m.tasks) \ {slot} : m.tasks.map[s].start = mem.tasks.map[s].start
    BY <1>1, <1>3 DEF Keeps
  <1> QED
    BY <1>3, <1>4, <1>5, <1>6, <1>7

\* What clear, block_thread, Forget and Remember do to exclusions.
LEMMA ClearSpares ==
    ASSUME NEW m, MemOK(m), NEW ts
    PROVE  LET n == clear(m)
           IN  MemOK(n) /\ Fresh(n, ts) /\ n.raised = m.raised /\ Spared(n, m)
  <1> DEFINE n == clear(m)
  <1>1. /\ Cleared(n) /\ n.raised = m.raised
        /\ \A x : Keeps(n, m, x) /\ Spares(n, m, x)
        /\ Keys(n.tasks) = Blocked(m)
        /\ \A s \in Keys(n.tasks) : n.tasks.map[s].start = m.tasks.map[s].start
    BY ClearFacts
  <1> HIDE DEF n
  <1>2. MemOK(n) /\ Fresh(n, ts) /\ Spared(n, m)
    BY <1>1 DEF Cleared, Fresh, Spared, Blocked
  <1> QED
    BY <1>1, <1>2 DEF n

LEMMA BlockSpares ==
    ASSUME NEW m, MemOK(m), ~m.raised, NEW slot \in Slot, NEW ts
    PROVE  LET n == block_thread(m, slot)
           IN  MemOK(n) /\ Fresh(n, ts) /\ (~n.raised => Spared(n, m))
  <1> DEFINE n == block_thread(m, slot)
  <1>1. /\ Cleared(n)
        /\ ~n.raised => \A s \in Blocked(m) : s \in Blocked(n) /\ n.tasks.map[s].root = None
    BY BlockFacts
  <1> HIDE DEF n
  <1>2. MemOK(n) /\ Fresh(n, ts) /\ (~n.raised => Spared(n, m))
    BY <1>1 DEF Cleared, Fresh, Spared
  <1> QED
    BY <1>2 DEF n

LEMMA SameTasksSpare ==
    ASSUME NEW m, NEW n, n.tasks = m.tasks
    PROVE  Spared(n, m)
  BY DEF Spared, Blocked

\* ExclusionKept of one step.
KeptStep ==
    \A s \in Blocked(mem) :
        \/ s \in Blocked(mem)'
        \/ replay' = "failed"
        \/ mem.tasks.map[s].root # None
        \/ \E ts \in 0 .. MaxTs, start \in Start : Exit(ts, s, start)
        \/ Reused(s)

\* Frames that are not about one task end no exclusion.
LEMMA SparedKept ==
    ASSUME NEW n, Leave(n), n.raised \/ Spared(n, mem)
    PROVE  KeptStep
  <1>1. mem' = n /\ (n.raised => replay' = "failed")
    BY DEF Leave
  <1>2. Blocked(mem)' = Blocked(n)
    BY <1>1 DEF Blocked
  <1> QED
    BY <1>1, <1>2 DEF KeptStep, Spared

\* Frames of one task end its exclusion at most, and only if they are of another generation.
LEMMA TaskKept ==
    ASSUME MemoryInv, NEW slot \in Slot, NEW start \in Start, NEW n, Leave(n),
           \/ n.raised
           \/ Spares(n, mem, slot) /\ (Standing(mem, slot, start) => slot \in Blocked(n)),
           /\ slot \in Keys(mem.tasks)
           /\ mem.tasks.map[slot].start \notin {None, start}
           => Reused(slot)
    PROVE  KeptStep
  <1>1. mem' = n /\ (n.raised => replay' = "failed")
    BY DEF Leave
  <1>2. Blocked(mem)' = Blocked(n) /\ Blocked(mem) \subseteq Keys(mem.tasks)
    BY <1>1 DEF Blocked
  <1> SUFFICES ASSUME NEW s \in Blocked(mem), ~n.raised, mem.tasks.map[s].root = None
               PROVE  s \in Blocked(n) \/ Reused(s)
    BY <1>1, <1>2 DEF KeptStep
  <1>3. CASE s # slot
    BY <1>3 DEF Spares
  <1>4. CASE s = slot
    BY <1>2, <1>4 DEF Standing
  <1> QED
    BY <1>3, <1>4

LEMMA BackwardsStep ==
    ASSUME MemoryInv, NEW ts \in 0 .. MaxTs, Backwards(ts)
    PROVE  MemoryInv' /\ KeptStep
  <1> DEFINE n == clear(mem)
  <1>1. Leave(n) /\ last_ts' = ts /\ health' = health /\ advisory' = None
    BY DEF Backwards
  <1>2. MemOK(n) /\ Fresh(n, ts) /\ n.raised = mem.raised /\ Spared(n, mem)
    BY ClearSpares DEF MemoryInv
  <1> HIDE DEF n
  <1> QED
    BY <1>1, <1>2, LeftInv, SparedKept DEF MemoryInv

LEMMA HealthStep ==
    ASSUME MemoryInv, NEW ts \in 0 .. MaxTs, NEW loss \in Loss, HealthFrame(ts, loss)
    PROVE  MemoryInv' /\ KeptStep
  <1> DEFINE a == Aged(ts)
             c == clear(a)
             lossy == IF health = None THEN loss # 0 ELSE loss # health
             n == IF lossy THEN c ELSE a
  <1>1. /\ Leave(n) /\ InOrder(ts) /\ last_ts' = ts
        /\ health' \in Loss \cup {None} /\ advisory' \in Advisory \cup {None}
    BY DEF HealthFrame, InOrder
  <1>2. MemOK(a) /\ Fresh(a, ts) /\ ~a.raised /\ a.tasks = mem.tasks
    BY <1>1, AgedOK
  <1> HIDE DEF a, lossy
  <1>3. MemOK(c) /\ Fresh(c, ts) /\ c.raised = a.raised /\ Spared(c, a)
    BY <1>2, ClearSpares
  <1> HIDE DEF c
  <1>4. Spared(c, mem) /\ Spared(a, mem)
    BY <1>2, <1>3 DEF Spared, Blocked
  <1>5. MemOK(n) /\ Fresh(n, ts) /\ Spared(n, mem)
    BY <1>2, <1>3, <1>4
  <1> HIDE DEF n
  <1> QED
    BY <1>1, <1>5, LeftInv, SparedKept

LEMMA UncertainStep ==
    ASSUME MemoryInv, NEW ts \in 0 .. MaxTs, Uncertain(ts)
    PROVE  MemoryInv' /\ KeptStep
  <1> DEFINE a == Aged(ts)
             n == clear(a)
  <1>1. Leave(n) /\ InOrder(ts) /\ last_ts' = ts /\ health' = health /\ advisory' = None
    BY DEF Uncertain, InOrder
  <1>2. MemOK(a) /\ Fresh(a, ts) /\ ~a.raised /\ a.tasks = mem.tasks
    BY <1>1, AgedOK
  <1> HIDE DEF a
  <1>3. MemOK(n) /\ Fresh(n, ts) /\ n.raised = a.raised /\ Spared(n, a)
    BY <1>2, ClearSpares
  <1> HIDE DEF n
  <1>4. Spared(n, mem)
    BY <1>2, <1>3 DEF Spared, Blocked
  <1> QED
    BY <1>1, <1>3, <1>4, LeftInv, SparedKept DEF MemoryInv

LEMMA WorkerStep ==
    ASSUME MemoryInv, NEW ts \in 0 .. MaxTs, NEW slot \in Slot, Worker(ts, slot)
    PROVE  MemoryInv' /\ KeptStep
  <1> DEFINE a == Aged(ts)
             n == block_thread(a, slot)
  <1>1. Leave(n) /\ InOrder(ts) /\ last_ts' = ts /\ health' = health /\ advisory' = None
    BY DEF Worker, InOrder
  <1>2. MemOK(a) /\ Fresh(a, ts) /\ ~a.raised /\ a.tasks = mem.tasks
    BY <1>1, AgedOK
  <1> HIDE DEF a
  <1>3. MemOK(n) /\ Fresh(n, ts) /\ (~n.raised => Spared(n, a))
    BY <1>2, BlockSpares
  <1> HIDE DEF n
  <1>4. ~n.raised => Spared(n, mem)
    BY <1>2, <1>3 DEF Spared, Blocked
  <1> QED
    BY <1>1, <1>3, <1>4, LeftInv, SparedKept DEF MemoryInv

\* What is common to the frames of a task: its memory is found, then a method makes n of it.
LEMMA FrameStep ==
    ASSUME MemoryInv, NEW ts \in 0 .. MaxTs, NEW slot \in Slot, NEW start \in Start,
           FrameOf(ts, slot, start),
           NEW n, Leave(n), MemOK(n), Fresh(n, ts),
           Found(ts, slot, start).raised => n = Found(ts, slot, start),
           ~n.raised => Spared(n, Found(ts, slot, start)),
           health' \in Loss \cup {None}, advisory' \in Advisory \cup {None},
           /\ slot \in Keys(mem.tasks)
           /\ mem.tasks.map[slot].start \notin {None, start}
           => Reused(slot)
    PROVE  MemoryInv' /\ KeptStep
  <1> DEFINE m == Found(ts, slot, start)
  <1>1. /\ MemOK(m) /\ Fresh(m, ts)
        /\ ~m.raised => /\ Spares(m, mem, slot)
                        /\ \A s \in Keys(m.tasks) \ {slot} :
                             m.tasks.map[s].start = mem.tasks.map[s].start
                        /\ slot \in Keys(m.tasks)
                        /\ m.tasks.map[slot].start = start
                        /\ Standing(mem, slot, start) =>
                             slot \in Blocked(m) /\ m.tasks.map[slot].root = None
    BY FoundOK
  <1>2. (m.raised => n = m) /\ (~n.raised => Spared(n, m))
    OBVIOUS
  <1> HIDE DEF m
  <1>3. ~n.raised => /\ Spares(n, mem, slot)
                     /\ Standing(mem, slot, start) => slot \in Blocked(n)
    BY <1>1, <1>2 DEF Spared, Spares
  <1>4. last_ts' = ts
    BY DEF FrameOf, InOrder
  <1>5. MemoryInv'
    BY <1>4, LeftInv
  <1>6. KeptStep
    BY <1>3, TaskKept
  <1> QED
    BY <1>5, <1>6

LEMMA OtherStep ==
    ASSUME MemoryInv, NEW ts \in 0 .. MaxTs, NEW slot \in Slot, NEW start \in Start,
           Other(ts, slot, start)
    PROVE  MemoryInv' /\ KeptStep
  <1> DEFINE m == Found(ts, slot, start)
             t == m.tasks.map[slot]
             c == clear(m)
             n == IF m.raised \/ t.blocked \/ ~Unresolved(m, t) THEN m ELSE c
  <1>1. FrameOf(ts, slot, start) /\ Leave(n) /\ health' = health /\ advisory' = None
    BY DEF Other
  <1>2. MemOK(m) /\ Fresh(m, ts)
    BY <1>1, FoundOK
  <1>3. MemOK(c) /\ Fresh(c, ts) /\ c.raised = m.raised /\ Spared(c, m)
    <2> HIDE DEF m
    <2> QED
      BY <1>2, ClearSpares
  <1>4. MemOK(n) /\ Fresh(n, ts) /\ (m.raised => n = m) /\ (~n.raised => Spared(n, m))
    <2>1. Spared(m, m)
      BY SameTasksSpare
    <2> HIDE DEF m, c
    <2> QED
      BY <1>2, <1>3, <2>1
  <1>5. slot \in Keys(mem.tasks) /\ mem.tasks.map[slot].start \notin {None, start} => Reused(slot)
    BY DEF Reused
  <1> HIDE DEF n
  <1> QED
    BY <1>1, <1>4, <1>5, FrameStep DEF MemoryInv

LEMMA ForkUnresolvedStep ==
    ASSUME MemoryInv, NEW ts \in 0 .. MaxTs, NEW slot \in Slot, NEW start \in Start,
           ForkUnresolved(ts, slot, start)
    PROVE  MemoryInv' /\ KeptStep
  <1> DEFINE m == Found(ts, slot, start)
             c == clear(m)
             n == IF m.raised THEN m ELSE c
  <1>1. FrameOf(ts, slot, start) /\ Leave(n) /\ health' = health /\ advisory' = None
    BY DEF ForkUnresolved
  <1>2. MemOK(m) /\ Fresh(m, ts)
    BY <1>1, FoundOK
  <1>3. MemOK(c) /\ Fresh(c, ts) /\ c.raised = m.raised /\ Spared(c, m)
    <2> HIDE DEF m
    <2> QED
      BY <1>2, ClearSpares
  <1>4. MemOK(n) /\ Fresh(n, ts) /\ (m.raised => n = m) /\ (~n.raised => Spared(n, m))
    <2> HIDE DEF m, c
    <2> QED
      BY <1>2, <1>3
  <1>5. slot \in Keys(mem.tasks) /\ mem.tasks.map[slot].start \notin {None, start} => Reused(slot)
    BY DEF Reused
  <1> HIDE DEF n
  <1> QED
    BY <1>1, <1>4, <1>5, FrameStep DEF MemoryInv

LEMMA ForkThreadStep ==
    ASSUME MemoryInv, NEW ts \in 0 .. MaxTs, NEW slot \in Slot, NEW start \in Start,
           ForkThread(ts, slot, start)
    PROVE  MemoryInv' /\ KeptStep
  <1> DEFINE m == Found(ts, slot, start)
             b == block_thread(m, slot)
             n == IF m.raised THEN m ELSE b
  <1>1. FrameOf(ts, slot, start) /\ Leave(n) /\ health' = health /\ advisory' = None
    BY DEF ForkThread
  <1>2. MemOK(m) /\ Fresh(m, ts)
    BY <1>1, FoundOK
  <1>3. ~m.raised => MemOK(b) /\ Fresh(b, ts) /\ (~b.raised => Spared(b, m))
    <2> HIDE DEF m
    <2> QED
      BY <1>2, BlockSpares
  <1>4. MemOK(n) /\ Fresh(n, ts) /\ (m.raised => n = m) /\ (~n.raised => Spared(n, m))
    <2> HIDE DEF m, b
    <2> QED
      BY <1>2, <1>3
  <1>5. slot \in Keys(mem.tasks) /\ mem.tasks.map[slot].start \notin {None, start} => Reused(slot)
    BY DEF Reused
  <1> HIDE DEF n
  <1> QED
    BY <1>1, <1>4, <1>5, FrameStep DEF MemoryInv

LEMMA FileOpenStep ==
    ASSUME MemoryInv, NEW ts \in 0 .. MaxTs, NEW slot \in Slot, NEW start \in Start,
           FileOpen(ts, slot, start)
    PROVE  MemoryInv' /\ KeptStep
  <1> DEFINE m == Found(ts, slot, start)
             t == m.tasks.map[slot]
             c == clear(m)
             root == Family(slot, t)
             key == KeyOf(slot, start)
             e == Remember(m, root, ts, key)
             n == IF m.raised \/ t.blocked THEN m ELSE IF Unresolved(m, t) THEN c ELSE e
  <1>1. FrameOf(ts, slot, start) /\ Leave(n) /\ health' = health /\ advisory' = None
    BY DEF FileOpen
  <1>2. /\ MemOK(m) /\ Fresh(m, ts)
        /\ ~m.raised => slot \in Keys(m.tasks) /\ t.start = start
    BY <1>1, FoundOK
  <1>3. MemOK(c) /\ Fresh(c, ts) /\ c.raised = m.raised /\ Spared(c, m)
    <2> HIDE DEF m
    <2> QED
      BY <1>2, ClearSpares
  <1>4. ~m.raised /\ ~t.blocked => MemOK(e) /\ Fresh(e, ts) /\ e.raised = m.raised /\ Spared(e, m)
    <2> HIDE DEF m
    <2> SUFFICES ASSUME ~m.raised, ~t.blocked
                 PROVE  MemOK(e) /\ Fresh(e, ts) /\ e.raised = m.raised /\ Spared(e, m)
      OBVIOUS
    <2>1. root \in Key /\ AliveIn(m, root)
      BY <1>2, KeyFacts, FamilyFacts
    <2>2. key \in Key
      BY KeyFacts
    <2> HIDE DEF root, key
    <2>3. /\ MemOK(e) /\ Fresh(e, ts) /\ e.raised = m.raised /\ e.tasks = m.tasks
          /\ Keys(e.evidence) = Keys(m.evidence) \cup {root}
          /\ e.evidence.map[root].source = key
          /\ \A k \in Keys(m.evidence) \ {root} : e.evidence.map[k] = m.evidence.map[k]
      BY <1>2, <2>1, <2>2, RememberOK
    <2> QED
      BY <2>3, SameTasksSpare
  <1>5. MemOK(n) /\ Fresh(n, ts) /\ (m.raised => n = m) /\ (~n.raised => Spared(n, m))
    <2>1. Spared(m, m)
      BY SameTasksSpare
    <2> HIDE DEF m, c, e
    <2> QED
      BY <1>2, <1>3, <1>4, <2>1
  <1>6. slot \in Keys(mem.tasks) /\ mem.tasks.map[slot].start \notin {None, start} => Reused(slot)
    BY DEF Reused
  <1> HIDE DEF n
  <1> QED
    BY <1>1, <1>5, <1>6, FrameStep DEF MemoryInv

LEMMA ConnectStep ==
    ASSUME MemoryInv, NEW ts \in 0 .. MaxTs, NEW slot \in Slot, NEW start \in Start,
           Connect(ts, slot, start)
    PROVE  MemoryInv' /\ KeptStep
  <1> DEFINE m == Found(ts, slot, start)
             t == m.tasks.map[slot]
             c == clear(m)
             root == Family(slot, t)
             key == KeyOf(slot, start)
             precursor == m.evidence.map[root]
             idle == m.raised \/ t.blocked
             early == ~idle /\ root \in Keys(m.evidence) /\ ts <= precursor.ts
             match == ~idle /\ ~Unresolved(m, t) /\ root \in Keys(m.evidence) /\ ts > precursor.ts
             e == [m EXCEPT !.evidence = Without(@, {root})]
             n == IF idle THEN m
                  ELSE IF Unresolved(m, t) \/ early THEN c
                  ELSE IF match THEN e ELSE m
             adv == [root |-> root, source |-> precursor.source, key |-> key,
                     precursor_ns |-> precursor.ts, attempt_ns |-> ts]
  <1>1. /\ FrameOf(ts, slot, start) /\ Leave(n) /\ health' = health
        /\ advisory' = IF match THEN adv ELSE None
    BY DEF Connect
  <1>2. /\ MemOK(m) /\ Fresh(m, ts)
        /\ ~m.raised => slot \in Keys(m.tasks) /\ t.start = start
    BY <1>1, FoundOK
  <1>3. MemOK(c) /\ Fresh(c, ts) /\ c.raised = m.raised /\ Spared(c, m)
    <2> HIDE DEF m
    <2> QED
      BY <1>2, ClearSpares
  <1>4. MemOK(e) /\ Fresh(e, ts) /\ e.raised = m.raised /\ Spared(e, m)
    <2> HIDE DEF m, root
    <2>1. MemOK(e) /\ Sheds(e, m) /\ e.raised = m.raised /\ e.tasks = m.tasks
      BY <1>2, ForgetOK
    <2> HIDE DEF e
    <2> QED
      BY <1>2, <2>1, ShedsFresh, SameTasksSpare DEF MemOK
  <1>5. MemOK(n) /\ Fresh(n, ts) /\ (m.raised => n = m) /\ (~n.raised => Spared(n, m))
    <2>1. Spared(m, m)
      BY SameTasksSpare
    <2> HIDE DEF m, c, e, early, match
    <2> QED
      BY <1>2, <1>3, <1>4, <2>1
  <1>6. slot \in Keys(mem.tasks) /\ mem.tasks.map[slot].start \notin {None, start} => Reused(slot)
    BY DEF Reused
  <1>7. match => adv \in Advisory
    <2> SUFFICES ASSUME match PROVE adv \in Advisory
      OBVIOUS
    <2>1. key \in Key
      BY KeyFacts
    <2>2. root \in Keys(m.evidence)
      OBVIOUS
    <2> HIDE DEF m, root, key, match
    <2>3. root \in Key /\ precursor.ts \in 0 .. MaxTs /\ precursor.source \in Key
      BY <1>2, <2>2, PrecursorFacts DEF MemOK
    <2> HIDE DEF precursor
    <2> QED
      BY <2>1, <2>3 DEF Advisory
  <1> HIDE DEF n, adv, match, m
  <1>8. advisory' \in Advisory \cup {None}
    BY <1>1, <1>7
  <1> QED
    BY <1>1, <1>5, <1>6, <1>8, FrameStep DEF MemoryInv, m

LEMMA ExitStep ==
    ASSUME MemoryInv, NEW ts \in 0 .. MaxTs, NEW slot \in Slot, NEW start \in Start,
           Exit(ts, slot, start)
    PROVE  MemoryInv' /\ KeptStep
  <1> DEFINE m == Found(ts, slot, start)
             t == m.tasks.map[slot]
             key == KeyOf(slot, start)
             l == [m EXCEPT !.tasks = Without(@, {slot})]
             d == drop_family(m, Family(slot, t))
             leaf == t.root \notin {None, key} /\ ~t.children
             n == IF m.raised THEN m ELSE IF leaf THEN l ELSE d
  <1>1. FrameOf(ts, slot, start) /\ Leave(n) /\ health' = health /\ advisory' = None
    BY DEF Exit
  <1>2. /\ MemOK(m) /\ Fresh(m, ts)
        /\ ~m.raised => /\ Spares(m, mem, slot)
                        /\ \A s \in Keys(m.tasks) \ {slot} :
                             m.tasks.map[s].start = mem.tasks.map[s].start
                        /\ slot \in Keys(m.tasks)
                        /\ m.tasks.map[slot].start = start
                        /\ Standing(mem, slot, start) =>
                             slot \in Blocked(m) /\ m.tasks.map[slot].root = None
    BY <1>1, FoundOK
  <1>3. ~m.raised /\ leaf =>
          /\ MemOK(l) /\ Sheds(l, m) /\ l.raised = m.raised /\ Spares(l, m, slot)
          /\ l.evidence = m.evidence
          /\ Keys(l.tasks) = Keys(m.tasks) \ {slot}
          /\ \A s \in Keys(l.tasks) : l.tasks.map[s] = m.tasks.map[s]
    <2> HIDE DEF m
    <2> QED
      BY <1>2, LeafOK
  <1>4. ~m.raised =>
          /\ MemOK(d) /\ Sheds(d, m) /\ d.raised = m.raised /\ Spares(d, m, slot)
          /\ slot \notin Keys(d.tasks)
    <2> HIDE DEF m
    <2>1. None \notin Start
      BY KeyFacts
    <2> QED
      BY <1>2, <2>1, DropFamilyOK
  <1>5. \A s \in {slot} : \E at \in 0 .. MaxTs, g \in Start : Exit(at, s, g)
    OBVIOUS
  <1> HIDE DEF m, l, d, leaf
  <1>6. MemOK(n) /\ Fresh(n, ts)
    BY <1>2, <1>3, <1>4, ShedsFresh DEF MemOK
  <1>7. ~n.raised => Spares(n, mem, slot)
    BY <1>2, <1>3, <1>4, SparesTransitive
  <1> HIDE DEF n
  <1>8. MemoryInv'
    BY <1>1, <1>6, LeftInv DEF FrameOf, InOrder, MemoryInv
  <1>9. mem' = n /\ (n.raised => replay' = "failed") /\ Blocked(mem)' = Blocked(n)
    BY <1>1 DEF Leave, Blocked
  <1>10. KeptStep
    BY <1>5, <1>7, <1>9 DEF KeptStep, Spares
  <1> QED
    BY <1>8, <1>10

\* An exclusion of the creator or of the child ends if another generation of it is met.
LEMMA ForkChildStep ==
    ASSUME MemoryInv, NEW ts \in 0 .. MaxTs, NEW slot \in Slot, NEW start \in Start,
           NEW child \in Pid, NEW birth \in Start,
           ForkChild(ts, slot, start, child, birth)
    PROVE  MemoryInv' /\ KeptStep
  <1> DEFINE m == Found(ts, slot, start)
             cslot == <<slot[1], child>>
             f == fork(m, slot, child, birth)
             n == IF m.raised THEN m ELSE f
  <1>1. /\ FrameOf(ts, slot, start) /\ Leave(n) /\ health' = health /\ advisory' = None
        /\ child # slot[2]
    BY DEF ForkChild
  <1>2. /\ MemOK(m) /\ Fresh(m, ts)
        /\ ~m.raised => /\ Spares(m, mem, slot)
                        /\ \A s \in Keys(m.tasks) \ {slot} :
                             m.tasks.map[s].start = mem.tasks.map[s].start
                        /\ slot \in Keys(m.tasks)
                        /\ m.tasks.map[slot].start = start
                        /\ Standing(mem, slot, start) =>
                             slot \in Blocked(m) /\ m.tasks.map[slot].root = None
    BY <1>1, FoundOK
  <1>3. ~m.raised =>
          /\ MemOK(f) /\ Sheds(f, m)
          /\ ~f.raised => /\ Spares(f, m, cslot)
                          /\ /\ cslot \in Blocked(m)
                             /\ m.tasks.map[cslot].root = None
                             /\ m.tasks.map[cslot].start \in {None, birth}
                             => cslot \in Blocked(f)
    <2> HIDE DEF m
    <2>1. None \notin Start
      BY KeyFacts
    <2> QED
      BY <1>1, <1>2, <2>1, ForkOK
  <1>4. slot \in Keys(mem.tasks) /\ mem.tasks.map[slot].start \notin {None, start} => Reused(slot)
    BY DEF Reused
  <1>5. cslot \in Keys(mem.tasks) /\ mem.tasks.map[cslot].start \notin {None, birth} => Reused(cslot)
    <2>1. cslot[1] = slot[1] /\ cslot[2] = child
      OBVIOUS
    <2> HIDE DEF cslot
    <2>2. cslot[1] = slot[1] /\ ForkChild(ts, slot, start, cslot[2], birth)
      BY <2>1
    <2> QED
      BY <2>2 DEF Reused
  <1>6. cslot # slot
    BY <1>1
  <1> HIDE DEF m, f, cslot
  <1>7. MemOK(n) /\ Fresh(n, ts) /\ (m.raised => n = m) /\ (~m.raised => n = f)
    BY <1>2, <1>3, ShedsFresh DEF MemOK
  <1> HIDE DEF n
  <1>8. MemoryInv'
    BY <1>1, <1>7, LeftInv DEF FrameOf, InOrder, MemoryInv
  <1>9. mem' = n /\ (n.raised => replay' = "failed") /\ Blocked(mem)' = Blocked(n)
    BY <1>1 DEF Leave, Blocked
  <1>10. KeptStep
    <2> SUFFICES ASSUME NEW s \in Blocked(mem), ~n.raised, mem.tasks.map[s].root = None
                 PROVE  s \in Blocked(n) \/ Reused(s)
      BY <1>9 DEF KeptStep
    <2>1. ~m.raised /\ n = f /\ s \in Keys(mem.tasks)
      BY <1>7 DEF Blocked
    <2>2. CASE s = slot
      <3>1. CASE mem.tasks.map[slot].start \in {None, start}
        <4>1. slot \in Blocked(m) /\ m.tasks.map[slot].root = None
          BY <1>2, <2>1, <2>2, <3>1 DEF Standing
        <4> QED
          BY <1>3, <1>6, <2>1, <2>2, <4>1 DEF Spares
      <3> QED
        BY <1>4, <2>1, <2>2, <3>1
    <2>3. CASE s # slot
      <3>1. s \in Blocked(m) /\ m.tasks.map[s].root = None
        BY <1>2, <2>1, <2>3 DEF Spares
      <3>2. CASE s # cslot
        BY <1>3, <2>1, <3>1, <3>2 DEF Spares
      <3>3. CASE s = cslot
        <4>1. m.tasks.map[s].start = mem.tasks.map[s].start
          BY <1>2, <2>1, <2>3, <3>1 DEF Blocked
        <4> QED
          BY <1>3, <1>5, <2>1, <3>1, <3>3, <4>1
      <3> QED
        BY <3>2, <3>3
    <2> QED
      BY <2>2, <2>3
  <1> QED
    BY <1>8, <1>10

\* A replay that fails on a frame clears the memory as well.
LEMMA FailStep ==
    ASSUME MemoryInv, Fail
    PROVE  MemoryInv' /\ KeptStep
  <1> DEFINE n == clear(mem)
  <1>1. /\ mem' = n /\ replay' = "failed" /\ advisory' = None
        /\ last_ts' = last_ts /\ health' = health
    BY DEF Fail
  <1>2. MemOK(n) /\ Fresh(n, last_ts) /\ n.raised = mem.raised /\ Spared(n, mem)
    BY ClearSpares DEF MemoryInv
  <1> HIDE DEF n
  <1>3. MemOK(mem') /\ Fresh(mem', last_ts')
    BY <1>1, <1>2
  <1>4. MemoryInv'
    BY <1>1, <1>3 DEF MemoryInv
  <1>5. KeptStep
    BY <1>1 DEF KeptStep
  <1> QED
    BY <1>4, <1>5

\* Between frames, and when the input ends, the memory stays as it is.
LEMMA SameMemory ==
    ASSUME MemoryInv, mem' = mem, last_ts' = last_ts, health' = health,
           replay' \in {replay, "ended"}, advisory' \in {advisory, None}
    PROVE  MemoryInv' /\ KeptStep
  <1>1. MemOK(mem') /\ Fresh(mem', last_ts') /\ Blocked(mem)' = Blocked(mem)
    BY DEF MemoryInv, Blocked
  <1> QED
    BY <1>1 DEF MemoryInv, KeptStep

-----------------------------------------------------------------------------
(* Families and the forks that tie them together.                          *)

\* Key k is reached from root r along the forks in E.
Reach(E, r, k) ==
    \A T \in SUBSET Key :
        r \in T /\ (\A f \in E : f[1] \in T => f[2] \in T) => k \in T

TaskKey(m, s) == KeyOf(s, m.tasks.map[s].start)

\* The forks in F of those members of a family that are marked as creators.
Edges(m, F, r) ==
    {f \in F : \E s \in Keys(m.tasks) :
        f[1] = TaskKey(m, s) /\ m.tasks.map[s].root = r /\ m.tasks.map[s].children}

\* Every member of a family is reached from its root by forks of present members.
Lineage(m, F) ==
    \A s \in Keys(m.tasks) : LET r == m.tasks.map[s].root
                             IN  r # None => Reach(Edges(m, F, r), r, TaskKey(m, s))

\* Task k is an unblocked member of family r.
Member(m, k, r) ==
    /\ SlotOf(k) \in Keys(m.tasks)
    /\ m.tasks.map[SlotOf(k)].start = k.start
    /\ ~m.tasks.map[SlotOf(k)].blocked
    /\ Family(SlotOf(k), m.tasks.map[SlotOf(k)]) = r

\* The source of evidence is an opening in O, reached in the same way; it is a member
\* still or has left as a leaf, that is, it has ended without having forked.
Sourced(m, F, O, D) ==
    \A r \in Keys(m.evidence) : LET k == m.evidence.map[r].source
        IN  /\ k \in O
            /\ Reach(Edges(m, F, r), r, k)
            /\ Member(m, k, r) \/ (k # r /\ k \in D /\ \A f \in F : f[1] # k)

\* A task that Exit takes for a leaf has not forked.
Childless(m, F) ==
    \A s \in Keys(m.tasks) : LET t == m.tasks.map[s]
        IN  ~t.blocked /\ ~t.children /\ t.root \notin {None, TaskKey(m, s)} =>
                \A f \in F : f[1] # TaskKey(m, s)

\* The memory agrees with what was observed: forks F, openings O, ended tasks D.
Tied(m, F, O, D) == Lineage(m, F) /\ Sourced(m, F, O, D) /\ Childless(m, F)

LEMMA ReachFacts ==
    ASSUME NEW E, E \subseteq Key \X Key, NEW r \in Key
    PROVE  /\ Reach(E, r, r)
           /\ \A k : Reach(E, r, k) => k \in Key
           /\ \A k, c : Reach(E, r, k) /\ <<k, c>> \in E => Reach(E, r, c)
           /\ \A k : Reach(E, r, k) /\ k # r => \E f \in E : f[2] = k
  <1>1. Reach(E, r, r)
    BY DEF Reach
  <1>2. ASSUME NEW k, Reach(E, r, k) PROVE k \in Key
    <2>1. Key \in SUBSET Key /\ \A f \in E : f[2] \in Key
      OBVIOUS
    <2> QED
      BY <1>2, <2>1 DEF Reach
  <1>3. ASSUME NEW k, NEW c, Reach(E, r, k), <<k, c>> \in E PROVE Reach(E, r, c)
    <2> SUFFICES ASSUME NEW T \in SUBSET Key, r \in T, \A f \in E : f[1] \in T => f[2] \in T
                 PROVE  c \in T
      BY DEF Reach
    <2>1. k \in T
      BY <1>3 DEF Reach
    <2> QED
      BY <1>3, <2>1
  <1>4. ASSUME NEW k, Reach(E, r, k), k # r PROVE \E f \in E : f[2] = k
    <2> DEFINE T == {r} \cup {f[2] : f \in E}
    <2>1. T \in SUBSET Key /\ r \in T /\ \A f \in E : f[2] \in T
      OBVIOUS
    <2>2. k \in T
      <3> HIDE DEF T
      <3> QED
        BY <1>4, <2>1 DEF Reach
    <2> QED
      BY <1>4, <2>2
  <1> QED
    BY <1>1, <1>2, <1>3, <1>4

LEMMA ReachMore ==
    ASSUME NEW E, NEW F, E \subseteq F, NEW r, NEW k, Reach(E, r, k)
    PROVE  Reach(F, r, k)
  BY DEF Reach

\* Descendants, for any set of forks.
DescendantsIn(F, r) ==
    LET keys == {r} \cup {f[2] : f \in F}
    IN  {k \in keys : \A T \in SUBSET keys :
            r \in T /\ (\A f \in F : f[1] \in T => f[2] \in T) => k \in T}

\* What is reached along forks is a descendant.
LEMMA ReachDescends ==
    ASSUME NEW F, F \subseteq Key \X Key, NEW r \in Key, NEW k, Reach(F, r, k)
    PROVE  k \in DescendantsIn(F, r)
  <1> DEFINE keys == {r} \cup {f[2] : f \in F}
  <1>1. k = r \/ \E f \in F : f[2] = k
    BY ReachFacts
  <1>2. \A T \in SUBSET keys : T \in SUBSET Key
    OBVIOUS
  <1>3. \A T \in SUBSET keys : r \in T /\ (\A f \in F : f[1] \in T => f[2] \in T) => k \in T
    BY <1>2 DEF Reach
  <1> QED
    BY <1>1, <1>3 DEF DescendantsIn

-----------------------------------------------------------------------------
(* Memories without families, and parts of a memory with whole families.   *)

Bare(m) == Keys(m.evidence) = {} /\ \A s \in Keys(m.tasks) : m.tasks.map[s].root = None

LEMMA BareTied ==
    ASSUME NEW m, Bare(m), NEW F, NEW O, NEW D
    PROVE  Tied(m, F, O, D)
  BY DEF Bare, Tied, Lineage, Sourced, Childless

LEMMA EmptyBare ==
    ASSUME NEW m, MemOK(m), Keys(m.tasks) = {}
    PROVE  Bare(m)
  <1>1. ASSUME NEW r \in Keys(m.evidence) PROVE FALSE
    <2>1. r \in Named(m)
      BY PrecursorFacts DEF MemOK, Named
    <2> QED
      BY <2>1 DEF MemOK, AliveIn
  <1> QED
    BY <1>1 DEF Bare

LEMMA ClearedBare ==
    ASSUME NEW m, Cleared(m)
    PROVE  Bare(m)
  BY DEF Cleared, Bare

LEMMA ClearBare ==
    ASSUME NEW m, MemOK(m)
    PROVE  MemOK(clear(m)) /\ Bare(clear(m))
  <1> DEFINE c == clear(m)
  <1>1. /\ Cleared(c) /\ c.raised = m.raised
        /\ \A x : Keeps(c, m, x) /\ Spares(c, m, x)
        /\ Keys(c.tasks) = Blocked(m)
        /\ \A s \in Keys(c.tasks) : c.tasks.map[s].start = m.tasks.map[s].start
    BY ClearFacts
  <1> HIDE DEF c
  <1>2. MemOK(c) /\ Bare(c)
    BY <1>1, ClearedBare DEF Cleared
  <1> QED
    BY <1>2 DEF c

LEMMA BlockBare ==
    ASSUME NEW m, MemOK(m), ~m.raised, NEW slot \in Slot
    PROVE  Bare(block_thread(m, slot))
  <1> DEFINE n == block_thread(m, slot)
  <1>1. /\ Cleared(n)
        /\ ~n.raised => \A s \in Blocked(m) : s \in Blocked(n) /\ n.tasks.map[s].root = None
    BY BlockFacts
  <1> HIDE DEF n
  <1>2. Bare(n)
    BY <1>1, ClearedBare
  <1> QED
    BY <1>2 DEF n

\* The families of memory n are families of m, with all their members.
Whole(n, m) ==
    /\ \A s \in Keys(n.tasks) :
         n.tasks.map[s].root # None => s \in Keys(m.tasks) /\ n.tasks.map[s] = m.tasks.map[s]
    /\ \A s \in Keys(m.tasks) :
         m.tasks.map[s].root \in Named(n) =>
             s \in Keys(n.tasks) /\ n.tasks.map[s].root = m.tasks.map[s].root
    /\ Sheds(n, m)

\* No task of an unknown generation is in a family.
Unrooted(m) == \A s \in Keys(m.tasks) : m.tasks.map[s].start = None => m.tasks.map[s].root = None

LEMMA WholeSelf ==
    ASSUME NEW m
    PROVE  Whole(m, m)
  BY DEF Whole, Sheds

LEMMA BareWhole ==
    ASSUME NEW m, NEW n, MemTyped(n), Bare(n)
    PROVE  Whole(n, m)
  <1>1. Named(n) = {}
    BY KeyFacts DEF Named, Bare
  <1>2. n.evidence.before = {}
    <2>1. IsDict(n.evidence, Key, Precursor)
      BY DEF MemTyped
    <2>2. n.evidence.before \subseteq Keys(n.evidence) \X Keys(n.evidence)
      BY <2>1 DEF IsDict, Orders
    <2> QED
      BY <2>2 DEF Bare
  <1> QED
    BY <1>1, <1>2 DEF Whole, Bare, Sheds

LEMMA WholeNames ==
    ASSUME NEW m, NEW n, Whole(n, m)
    PROVE  Named(n) \subseteq Named(m) /\ (Unrooted(m) => Unrooted(n))
  <1>1. Named(n) \subseteq Named(m)
    BY KeyFacts DEF Whole, Named, Sheds
  <1>2. Unrooted(m) => Unrooted(n)
    BY DEF Whole, Unrooted
  <1> QED
    BY <1>1, <1>2

LEMMA WholeTransitive ==
    ASSUME NEW m, NEW n, NEW o, Whole(n, m), Whole(o, n)
    PROVE  Whole(o, m)
  <1>1. Named(o) \subseteq Named(n)
    BY WholeNames
  <1>2. Sheds(o, m)
    BY DEF Whole, Sheds
  <1>3. ASSUME NEW s \in Keys(o.tasks), o.tasks.map[s].root # None
        PROVE  s \in Keys(m.tasks) /\ o.tasks.map[s] = m.tasks.map[s]
    <2>1. s \in Keys(n.tasks) /\ o.tasks.map[s] = n.tasks.map[s]
      BY <1>3 DEF Whole
    <2> QED
      BY <1>3, <2>1 DEF Whole
  <1>4. ASSUME NEW s \in Keys(m.tasks), m.tasks.map[s].root \in Named(o)
        PROVE  s \in Keys(o.tasks) /\ o.tasks.map[s].root = m.tasks.map[s].root
    <2>1. s \in Keys(n.tasks) /\ n.tasks.map[s].root = m.tasks.map[s].root
      BY <1>1, <1>4 DEF Whole
    <2> QED
      BY <1>4, <2>1 DEF Whole
  <1> QED
    BY <1>2, <1>3, <1>4 DEF Whole

\* What holds of every family holds of those that are left.
LEMMA WholeTied ==
    ASSUME NEW m, NEW n, MemOK(m), MemOK(n), Whole(n, m),
           NEW F, NEW O, NEW D, Tied(m, F, O, D)
    PROVE  Tied(n, F, O, D)
  <1>1. \A r \in Named(n) : r \in Key /\ r # None
    BY KeyFacts DEF Named
  <1>2. \A s \in Keys(n.tasks) : n.tasks.map[s].root # None =>
            /\ s \in Keys(m.tasks) /\ n.tasks.map[s] = m.tasks.map[s]
            /\ n.tasks.map[s].root \in Named(n)
            /\ TaskKey(n, s) = TaskKey(m, s)
    BY TaskFacts DEF MemOK, Whole, Named, TaskKey
  <1>3. \A s \in Keys(m.tasks) : m.tasks.map[s].root \in Named(n) =>
            s \in Keys(n.tasks) /\ n.tasks.map[s] = m.tasks.map[s] /\ TaskKey(n, s) = TaskKey(m, s)
    BY <1>1, <1>2 DEF Whole
  <1>4. ASSUME NEW r \in Named(n) PROVE Edges(n, F, r) = Edges(m, F, r)
    <2>1. ASSUME NEW f \in F, NEW s \in Keys(n.tasks),
                 f[1] = TaskKey(n, s), n.tasks.map[s].root = r, n.tasks.map[s].children
          PROVE  f \in Edges(m, F, r)
      BY <1>1, <1>2, <2>1 DEF Edges
    <2>2. ASSUME NEW f \in F, NEW s \in Keys(m.tasks),
                 f[1] = TaskKey(m, s), m.tasks.map[s].root = r, m.tasks.map[s].children
          PROVE  f \in Edges(n, F, r)
      BY <1>3, <2>2 DEF Edges
    <2> QED
      BY <2>1, <2>2 DEF Edges
  <1>5. Lineage(n, F)
    BY <1>2, <1>4 DEF Tied, Lineage
  <1>6. Childless(n, F)
    BY <1>2 DEF Tied, Childless
  <1>7. ASSUME NEW r \in Named(n), NEW k \in Key, Member(m, k, r) PROVE Member(n, k, r)
    <2> DEFINE s == SlotOf(k)
               t == m.tasks.map[s]
    <2>1. s \in Keys(m.tasks) /\ t.start = k.start /\ ~t.blocked /\ Family(s, t) = r
      BY <1>7 DEF Member
    <2>2. KeyOf(s, k.start) = k
      BY KeyFacts
    <2> HIDE DEF s
    <2>3. CASE t.root = None
      <3>1. r = k
        BY <2>1, <2>2, <2>3 DEF Family
      <3>2. AliveIn(n, k)
        BY <3>1 DEF MemOK
      <3> QED
        BY <2>2, <3>1, <3>2 DEF AliveIn, Member, Family, s
    <2>4. CASE t.root # None
      <3>1. t.root = r
        BY <2>1, <2>4 DEF Family
      <3>2. s \in Keys(n.tasks) /\ n.tasks.map[s] = t
        BY <1>3, <2>1, <3>1
      <3> QED
        BY <2>1, <3>2 DEF Member, s
    <2> QED
      BY <2>3, <2>4
  <1>8. Sourced(n, F, O, D)
    <2> SUFFICES ASSUME NEW r \in Keys(n.evidence)
                 PROVE  LET k == n.evidence.map[r].source
                        IN  /\ k \in O
                            /\ Reach(Edges(n, F, r), r, k)
                            /\ Member(n, k, r) \/ (k # r /\ k \in D /\ \A f \in F : f[1] # k)
      BY DEF Sourced
    <2>1. r \in Named(n) /\ n.evidence.map[r].source \in Key
      BY PrecursorFacts DEF MemOK, Named
    <2>2. r \in Keys(m.evidence) /\ n.evidence.map[r] = m.evidence.map[r]
      BY DEF Whole, Sheds
    <2> QED
      BY <1>4, <1>7, <2>1, <2>2 DEF Tied, Sourced
  <1> QED
    BY <1>5, <1>6, <1>8 DEF Tied

LEMMA DropWhole ==
    ASSUME NEW m, MemOK(m), NEW slot \in Keys(m.tasks), m.tasks.map[slot].start # None
    PROVE  Whole(drop_family(m, Family(slot, m.tasks.map[slot])), m)
  <1> DEFINE t == m.tasks.map[slot]
             root == Family(slot, t)
             n == drop_family(m, root)
  <1>1. /\ root \in Key
        /\ slot \in Gone(m, root)
        /\ m.tasks.map[slot].blocked \/ AliveIn(m, root)
        /\ \A o \in Blocked(m) \ {slot} : m.tasks.map[o].root = None => o \notin Gone(m, root)
    BY FamilyFacts
  <1>2. slot \in Slot /\ t.start \in Start /\ t.root \in Key \cup {None}
    BY TaskFacts DEF MemOK
  <1>3. root = IF t.root = None THEN KeyOf(slot, t.start) ELSE t.root
    BY DEF Family
  <1>4. t.root # None => AliveIn(m, root)
    BY <1>2, <1>3 DEF MemOK, Named
  <1>5. \/ KeyOf(slot, t.start) = root /\ t.root = None
        \/ AliveIn(m, root) /\ t.root = root
    BY <1>3, <1>4
  <1> HIDE DEF root
  <1>6. /\ MemOK(n) /\ Fewer(n, m)
        /\ Keys(n.tasks) = Keys(m.tasks) \ Gone(m, root)
        /\ n.raised = m.raised
        /\ root \notin Keys(n.evidence)
    BY <1>1, DropFacts DEF Gone
  <1> HIDE DEF n
  <1>7. root \notin Named(n)
    BY <1>6 DEF Named, Gone, Fewer
  <1>8. ASSUME NEW s \in Gone(m, root), m.tasks.map[s].root # root PROVE m.tasks.map[s].root = None
    <2>1. s \in Slot /\ KeyOf(s, m.tasks.map[s].start) = root /\ s \in Keys(m.tasks)
      BY <1>8, TaskFacts DEF Gone, MemOK
    <2>2. SlotOf(root) = s
      BY <2>1, KeyFacts
    <2>3. CASE t.root = None
      BY <1>2, <1>5, <2>2, <2>3, KeyFacts DEF AliveIn
    <2>4. CASE t.root # None
      BY <1>4, <1>8, <2>2, <2>4 DEF AliveIn
    <2> QED
      BY <2>3, <2>4
  <1>9. None \notin Named(n)
    BY KeyFacts DEF Named
  <1>10. ASSUME NEW s \in Keys(m.tasks), m.tasks.map[s].root \in Named(n)
         PROVE  s \in Keys(n.tasks)
    BY <1>6, <1>7, <1>8, <1>9, <1>10
  <1>11. Whole(n, m)
    BY <1>6, <1>10 DEF Whole, Fewer
  <1> QED
    BY <1>11 DEF n, root

LEMMA MakeRoomWhole ==
    ASSUME NEW m, MemOK(m), ~m.raised
    PROVE  Whole(MakeRoom(m), m)
  <1> DEFINE n == MakeRoom(m)
             idle == Keys(m.tasks) \ Blocked(m)
             victim == FirstOf(m.tasks, idle)
  <1>1. /\ MemOK(n) /\ Fewer(n, m)
        /\ n.raised => Keys(n.tasks) = {}
        /\ ~n.raised => /\ Cardinality(Keys(n.tasks)) < MaxTasks
                        /\ \A x : Spares(n, m, x)
    BY MakeRoomFacts
  <1>2. CASE n.raised
    <2> HIDE DEF n
    <2> QED
      BY <1>1, <1>2, EmptyBare, BareWhole DEF MemOK, n
  <1>3. CASE n = m
    BY <1>3, WholeSelf
  <1>4. CASE ~n.raised /\ n # m
    <2>1. ~ (Cardinality(Keys(m.tasks)) < MaxTasks)
      BY <1>4 DEF MakeRoom
    <2>2. idle # {}
      <3> SUFFICES ASSUME idle = {} PROVE FALSE
        OBVIOUS
      <3>1. n = [clearBlocks(m) EXCEPT !.raised = TRUE]
        BY <2>1 DEF MakeRoom
      <3>2. DOMAIN m = {"tasks", "evidence", "raised"}
        BY DEF MemOK, MemTyped
      <3> QED
        BY <1>4, <3>1, <3>2 DEF clearBlocks
    <2>3. n = drop_family(m, Family(victim, m.tasks.map[victim]))
      BY <2>1, <2>2 DEF MakeRoom
    <2>4. victim \in idle
      BY <2>2, FirstOfIn DEF MemOK, MemTyped
    <2>5. victim \in Keys(m.tasks) /\ m.tasks.map[victim].start # None
      BY <2>4 DEF MemOK, Dated, Blocked
    <2> HIDE DEF victim, n
    <2> QED
      BY <2>3, <2>5, DropWhole DEF n
  <1> QED
    BY <1>2, <1>3, <1>4

LEMMA RecheckWhole ==
    ASSUME NEW m, MemOK(m), NEW slot \in Slot, NEW start \in Start
    PROVE  Whole(Recheck(m, slot, start), m)
  <1> DEFINE n == Recheck(m, slot, start)
             known == slot \in Keys(m.tasks)
             old == m.tasks.map[slot].start
             c == clear(m)
             d == drop_family(m, Family(slot, m.tasks.map[slot]))
  <1>1. n \in {c, m} \/ (known /\ old \notin {None, start} /\ n = d)
    BY DEF Recheck
  <1>2. Whole(c, m)
    BY ClearBare, BareWhole DEF MemOK
  <1>3. known /\ old \notin {None, start} => Whole(d, m)
    BY DropWhole
  <1> HIDE DEF n, c, d
  <1>4. Whole(n, m)
    BY <1>1, <1>2, <1>3, WholeSelf
  <1> QED
    BY <1>4 DEF n

LEMMA InsertWhole ==
    ASSUME NEW m, MemOK(m), ~m.raised, NEW slot \in Slot, slot \notin Keys(m.tasks),
           NEW start \in Start, Cardinality(Keys(m.tasks)) < MaxTasks
    PROVE  Whole(Insert(m, slot, start), m)
  <1> DEFINE n == Insert(m, slot, start)
  <1>1. /\ MemTyped(n) /\ ~n.raised
        /\ Keys(n.tasks) = Keys(m.tasks) \cup {slot}
        /\ \A s \in Keys(m.tasks) : n.tasks.map[s] = m.tasks.map[s]
        /\ n.tasks.map[slot].start = start
        /\ n.tasks.map[slot].root = None
        /\ n.tasks.map[slot].blocked <=> \E o \in Blocked(m) :
               o[2] = slot[2] /\ m.tasks.map[o].start \in {None, start}
        /\ n.evidence = m.evidence
        /\ Cardinality(Keys(n.tasks)) <= MaxTasks
    <2>1. start \in Start \cup {None}
      OBVIOUS
    <2> QED
      BY <2>1, InsertShape
  <1> HIDE DEF n
  <1>2. Whole(n, m)
    BY <1>1 DEF Whole, Sheds
  <1> QED
    BY <1>2 DEF n

LEMMA TouchWhole ==
    ASSUME NEW m, MemOK(m), Unrooted(m), NEW slot \in Keys(m.tasks), NEW start \in Start,
           m.tasks.map[slot].start \in {None, start}
    PROVE  Whole(Touched(m, slot, start), m)
  <1> DEFINE n == Touched(m, slot, start)
  <1>1. MemTyped(m) /\ start \in Start \cup {None}
    BY DEF MemOK
  <1>2. /\ MemTyped(n) /\ n.raised = m.raised /\ n.evidence = m.evidence
        /\ Keys(n.tasks) = Keys(m.tasks)
        /\ \A s \in Keys(m.tasks) \ {slot} : n.tasks.map[s] = m.tasks.map[s]
        /\ n.tasks.map[slot].start = start
        /\ n.tasks.map[slot].blocked = m.tasks.map[slot].blocked
        /\ n.tasks.map[slot].root = m.tasks.map[slot].root
        /\ n.tasks.map[slot].children = m.tasks.map[slot].children
    BY <1>1, TouchShape
  <1> HIDE DEF n
  <1>3. n.tasks.map[slot].root # None => n.tasks.map[slot] = m.tasks.map[slot]
    <2> SUFFICES ASSUME n.tasks.map[slot].root # None
                 PROVE  n.tasks.map[slot] = m.tasks.map[slot]
      OBVIOUS
    <2>1. m.tasks.map[slot].start = start
      BY <1>2 DEF Unrooted
    <2>2. m.tasks.map[slot] \in Task /\ n.tasks.map[slot] \in Task
      BY <1>1, <1>2, TaskFacts
    <2> QED
      BY <1>2, <2>1, <2>2 DEF Task
  <1>4. Whole(n, m)
    BY <1>2, <1>3 DEF Whole, Sheds
  <1> QED
    BY <1>4 DEF n

LEMMA HeldWhole ==
    ASSUME NEW m, MemOK(m), ~m.raised, NEW slot \in Slot, NEW start \in Start
    PROVE  Whole(Held(m, slot, start), m)
  <1> DEFINE seen == Recheck(m, slot, start)
             room == MakeRoom(seen)
             new == Insert(room, slot, start)
             h == Held(m, slot, start)
  <1>1. h = IF slot \in Keys(seen.tasks) THEN seen ELSE new
    BY DEF Held
  <1>2. Whole(seen, m)
    BY RecheckWhole
  <1>3. /\ MemOK(seen) /\ Keeps(seen, m, slot) /\ Spares(seen, m, slot)
        /\ seen.raised = m.raised
        /\ slot \in Keys(seen.tasks) => seen = m /\ m.tasks.map[slot].start \in {None, start}
        /\ slot \in Keys(m.tasks) /\ m.tasks.map[slot].start \in {None, start} => seen = m
        /\ Cleared(m) => Cleared(seen)
    <2>1. start \in Start \cup {None}
      OBVIOUS
    <2> QED
      BY <2>1, RecheckFacts
  <1> HIDE DEF seen, h
  <1>4. CASE slot \in Keys(seen.tasks)
    BY <1>1, <1>2, <1>4 DEF h
  <1>5. CASE slot \notin Keys(seen.tasks)
    <2>1. /\ MemOK(room) /\ Fewer(room, seen)
          /\ room.raised => Keys(room.tasks) = {}
          /\ ~room.raised => /\ Cardinality(Keys(room.tasks)) < MaxTasks
                             /\ \A x : Spares(room, seen, x)
      BY <1>3, MakeRoomFacts
    <2>2. Whole(room, seen)
      BY <1>3, MakeRoomWhole
    <2> HIDE DEF room
    <2>3. slot \notin Keys(room.tasks)
      BY <1>5, <2>1 DEF Fewer
    <2>4. room.raised => new = room
      BY DEF Insert
    <2>5. Whole(new, room)
      BY <2>1, <2>3, <2>4, InsertWhole, WholeSelf
    <2> HIDE DEF new
    <2> QED
      BY <1>1, <1>2, <1>5, <2>2, <2>5, WholeTransitive DEF h
  <1> QED
    BY <1>4, <1>5

\* The look-up of a task keeps families whole, and finds a new task outside of them.
LEMMA TaskWhole ==
    ASSUME NEW m, MemOK(m), ~m.raised, Unrooted(m), NEW slot \in Slot, NEW start \in Start
    PROVE  Whole(task(m, slot, start), m)
  <1> DEFINE h == Held(m, slot, start)
             n == task(m, slot, start)
  <1>1. /\ MemOK(h) /\ Keeps(h, m, slot)
        /\ h.raised => Keys(h.tasks) = {}
        /\ ~h.raised => /\ Spares(h, m, slot)
                        /\ slot \in Keys(h.tasks)
                        /\ h.tasks.map[slot].start \in {None, start}
        /\ slot \in Keys(m.tasks) /\ m.tasks.map[slot].start \in {None, start} => h = m
    BY HeldOK
  <1>2. Whole(h, m)
    BY HeldWhole
  <1>3. n = IF h.raised THEN h ELSE Touched(h, slot, start)
    BY TaskIs
  <1> HIDE DEF h
  <1>4. Unrooted(h)
    BY <1>2, WholeNames
  <1>5. ~h.raised => Whole(Touched(h, slot, start), h)
    BY <1>1, <1>4, TouchWhole
  <1> HIDE DEF n
  <1>6. Whole(n, m)
    BY <1>2, <1>3, <1>5, WholeTransitive
  <1> QED
    BY <1>6 DEF n

LEMMA SameTasksWhole ==
    ASSUME NEW m, NEW n, n.tasks = m.tasks, Sheds(n, m)
    PROVE  Whole(n, m)
  BY DEF Whole

LEMMA TiedUnrooted ==
    ASSUME NEW m, MemOK(m), NEW F, F \subseteq Key \X Key, NEW O, NEW D, Tied(m, F, O, D)
    PROVE  Unrooted(m)
  <1> SUFFICES ASSUME NEW s \in Keys(m.tasks), m.tasks.map[s].root # None
               PROVE  m.tasks.map[s].start # None
    BY DEF Unrooted
  <1> DEFINE r == m.tasks.map[s].root
  <1>1. s \in Slot /\ r \in Key
    BY TaskFacts DEF MemOK
  <1>2. Edges(m, F, r) \subseteq Key \X Key /\ Reach(Edges(m, F, r), r, TaskKey(m, s))
    BY DEF Edges, Tied, Lineage
  <1>3. TaskKey(m, s) \in Key
    BY <1>1, <1>2, ReachFacts
  <1> QED
    BY <1>1, <1>3, KeyFacts DEF TaskKey

-----------------------------------------------------------------------------
(* What the steps of the replay do to families.                            *)

\* Tasks that end outside of the memory take nothing with them: the forks that tie its
\* families are of present members, and a source that has left was a leaf.
LEMMA OutliveTied ==
    ASSUME forks \subseteq Key \X Key, NEW m, MemOK(m), NEW D, Tied(m, forks, opens, D),
           NEW gone, \A s \in Keys(m.tasks) : TaskKey(m, s) \notin gone,
           NEW C, D \subseteq C
    PROVE  Tied(m, Observed(gone).forks, Observed(gone).opens, C)
  <1> DEFINE F == Observed(gone).forks
             O == Observed(gone).opens
             leaf(k) == k \in {f[2] : f \in forks} /\ k \notin {f[1] : f \in forks}
  <1>1. F = {f \in forks : f[1] \notin gone} /\ O = {k \in opens : k \in gone => leaf(k)}
    BY DEF Observed
  <1> HIDE DEF F, O
  <1>2. \A r : Edges(m, F, r) = Edges(m, forks, r)
    BY <1>1 DEF Edges
  <1>3. Lineage(m, F) /\ Childless(m, F)
    BY <1>1, <1>2 DEF Tied, Lineage, Childless
  <1>4. Sourced(m, F, O, C)
    <2> SUFFICES ASSUME NEW r \in Keys(m.evidence)
                 PROVE  LET k == m.evidence.map[r].source
                        IN  /\ k \in O
                            /\ Reach(Edges(m, F, r), r, k)
                            /\ Member(m, k, r) \/ (k # r /\ k \in C /\ \A f \in F : f[1] # k)
      BY DEF Sourced
    <2> DEFINE k == m.evidence.map[r].source
    <2>1. r \in Key /\ k \in Key
      BY PrecursorFacts DEF MemOK
    <2>2. /\ k \in opens
          /\ Reach(Edges(m, forks, r), r, k)
          /\ Member(m, k, r) \/ (k # r /\ k \in D /\ \A f \in forks : f[1] # k)
      BY DEF Tied, Sourced
    <2> HIDE DEF k
    <2>3. Member(m, k, r) => k \notin gone
      <3>1. KeyOf(SlotOf(k), k.start) = k
        BY <2>1, KeyFacts
      <3> QED
        BY <3>1 DEF Member, TaskKey
    <2>4. k \in gone => leaf(k)
      <3> SUFFICES ASSUME k \in gone PROVE leaf(k)
        OBVIOUS
      <3>1. k # r /\ \A f \in forks : f[1] # k
        BY <2>2, <2>3
      <3>2. Edges(m, forks, r) \subseteq forks
        BY DEF Edges
      <3>3. \E f \in Edges(m, forks, r) : f[2] = k
        BY <2>1, <2>2, <3>1, <3>2, ReachFacts
      <3> QED
        BY <3>1, <3>2, <3>3
    <2>5. k \in O /\ Reach(Edges(m, F, r), r, k)
      BY <1>1, <1>2, <2>2, <2>4
    <2>6. Member(m, k, r) \/ (k # r /\ k \in C /\ \A f \in F : f[1] # k)
      BY <1>1, <2>2
    <2> QED
      BY <2>5, <2>6 DEF k
  <1> QED
    BY <1>3, <1>4 DEF Tied, F, O

\* A leaf that exits leaves its evidence.
LEMMA LeafTied ==
    ASSUME NEW m, MemOK(m), NEW slot \in Keys(m.tasks), NEW start \in Start,
           m.tasks.map[slot].start = start,
           m.tasks.map[slot].root \notin {None, KeyOf(slot, start)}, ~m.tasks.map[slot].children,
           NEW n, MemOK(n), n.evidence = m.evidence,
           Keys(n.tasks) = Keys(m.tasks) \ {slot},
           \A s \in Keys(n.tasks) : n.tasks.map[s] = m.tasks.map[s],
           NEW F, NEW O, NEW D, Tied(m, F, O, D)
    PROVE  Tied(n, F, O, D \cup {KeyOf(slot, start)})
  <1> DEFINE key == KeyOf(slot, start)
             C == D \cup {key}
  <1>1. TaskKey(m, slot) = key /\ \A s \in Keys(n.tasks) : TaskKey(n, s) = TaskKey(m, s)
    BY DEF TaskKey
  <1>2. \A r : Edges(n, F, r) = Edges(m, F, r)
    BY <1>1 DEF Edges
  <1>3. Lineage(n, F) /\ Childless(n, F)
    BY <1>1, <1>2 DEF Tied, Lineage, Childless
  <1>4. Sourced(n, F, O, C)
    <2> SUFFICES ASSUME NEW r \in Keys(m.evidence)
                 PROVE  LET k == m.evidence.map[r].source
                        IN  /\ k \in O
                            /\ Reach(Edges(n, F, r), r, k)
                            /\ Member(n, k, r) \/ (k # r /\ k \in C /\ \A f \in F : f[1] # k)
      BY DEF Sourced
    <2> DEFINE k == m.evidence.map[r].source
    <2>1. r \in Key /\ k \in Key
      BY PrecursorFacts DEF MemOK
    <2>2. /\ k \in O
          /\ Reach(Edges(m, F, r), r, k)
          /\ Member(m, k, r) \/ (k # r /\ k \in D /\ \A f \in F : f[1] # k)
      BY DEF Tied, Sourced
    <2> HIDE DEF k
    <2>3. CASE Member(m, k, r) /\ SlotOf(k) # slot
      <3>1. Member(n, k, r)
        BY <2>3 DEF Member
      <3> QED
        BY <1>2, <2>2, <3>1 DEF k
    <2>4. CASE Member(m, k, r) /\ SlotOf(k) = slot
      <3>1. k = key /\ ~m.tasks.map[slot].blocked /\ Family(slot, m.tasks.map[slot]) = r
        BY <2>1, <2>4, KeyFacts DEF Member
      <3>2. r = m.tasks.map[slot].root /\ k # r
        BY <3>1 DEF Family
      <3>3. \A f \in F : f[1] # key
        BY <1>1, <3>1 DEF Tied, Childless
      <3> QED
        BY <1>2, <2>2, <3>1, <3>2, <3>3 DEF k
    <2>5. CASE k # r /\ k \in D /\ \A f \in F : f[1] # k
      BY <1>2, <2>2, <2>5 DEF k
    <2> QED
      BY <2>2, <2>3, <2>4, <2>5
  <1> QED
    BY <1>3, <1>4 DEF Tied

\* An opening becomes the evidence of its family.
LEMMA RememberTied ==
    ASSUME NEW m, MemOK(m), NEW slot \in Keys(m.tasks), NEW start \in Start,
           m.tasks.map[slot].start = start, ~m.tasks.map[slot].blocked,
           NEW n, n.tasks = m.tasks,
           NEW root, root = Family(slot, m.tasks.map[slot]),
           Keys(n.evidence) = Keys(m.evidence) \cup {root},
           n.evidence.map[root].source = KeyOf(slot, start),
           \A k \in Keys(m.evidence) \ {root} : n.evidence.map[k] = m.evidence.map[k],
           NEW F, F \subseteq Key \X Key, NEW O, NEW D, Tied(m, F, O, D)
    PROVE  Tied(n, F, O \cup {KeyOf(slot, start)}, D)
  <1> DEFINE key == KeyOf(slot, start)
  <1>1. slot \in Slot /\ TaskKey(m, slot) = key /\ m.tasks.map[slot].root \in Key \cup {None}
    BY TaskFacts DEF MemOK, TaskKey
  <1>2. SlotOf(key) = slot /\ key.start = start /\ key \in Key
    BY <1>1, KeyFacts
  <1>3. \A r : Edges(n, F, r) = Edges(m, F, r)
    BY DEF Edges, TaskKey
  <1>4. Lineage(n, F) /\ Childless(n, F)
    BY <1>3 DEF Tied, Lineage, Childless, TaskKey
  <1>5. Member(n, key, root)
    BY <1>2 DEF Member
  <1>6. Reach(Edges(n, F, root), root, key)
    <2>1. CASE m.tasks.map[slot].root = None
      <3>1. root = key
        BY <2>1 DEF Family
      <3>2. Edges(n, F, root) \subseteq Key \X Key
        BY DEF Edges
      <3> QED
        BY <1>2, <3>1, <3>2, ReachFacts
    <2>2. CASE m.tasks.map[slot].root # None
      <3>1. root = m.tasks.map[slot].root
        BY <2>2 DEF Family
      <3> QED
        BY <1>1, <1>3, <2>2, <3>1 DEF Tied, Lineage
    <2> QED
      BY <2>1, <2>2
  <1>7. \A k, r : Member(m, k, r) => Member(n, k, r)
    BY DEF Member
  <1> HIDE DEF key
  <1>8. Sourced(n, F, O \cup {key}, D)
    <2> SUFFICES ASSUME NEW r \in Keys(n.evidence)
                 PROVE  LET k == n.evidence.map[r].source
                        IN  /\ k \in O \cup {key}
                            /\ Reach(Edges(n, F, r), r, k)
                            /\ Member(n, k, r) \/ (k # r /\ k \in D /\ \A f \in F : f[1] # k)
      BY DEF Sourced
    <2>1. CASE r = root
      BY <1>5, <1>6, <2>1 DEF key
    <2>2. CASE r # root
      <3>1. r \in Keys(m.evidence) /\ n.evidence.map[r] = m.evidence.map[r]
        BY <2>2
      <3> QED
        BY <1>3, <1>7, <3>1 DEF Tied, Sourced
    <2> QED
      BY <2>1, <2>2
  <1> QED
    BY <1>4, <1>8 DEF Tied, key

\* A fork that the memory does not follow, as its creator is excluded.
LEMMA ExcludedForkTied ==
    ASSUME NEW m, MemOK(m), NEW slot \in Keys(m.tasks), m.tasks.map[slot].blocked,
           NEW F, NEW O, NEW D, Tied(m, F, O, D), TaskKey(m, slot) \notin D, NEW born
    PROVE  Tied(m, F \cup {<<TaskKey(m, slot), born>>}, O, D)
  <1> DEFINE key == TaskKey(m, slot)
             G == F \cup {<<key, born>>}
  <1>1. \A r : Edges(m, F, r) \subseteq Edges(m, G, r)
    BY DEF Edges
  <1>2. Lineage(m, G)
    BY <1>1, ReachMore DEF Tied, Lineage
  <1>3. \A s \in Keys(m.tasks) : TaskKey(m, s) = key => s = slot
    BY TaskFacts, KeyFacts DEF TaskKey, MemOK
  <1> HIDE DEF key
  <1>4. Childless(m, G)
    BY <1>3 DEF Tied, Childless
  <1>5. Sourced(m, G, O, D)
    <2> SUFFICES ASSUME NEW r \in Keys(m.evidence)
                 PROVE  LET k == m.evidence.map[r].source
                        IN  /\ k \in O
                            /\ Reach(Edges(m, G, r), r, k)
                            /\ Member(m, k, r) \/ (k # r /\ k \in D /\ \A f \in G : f[1] # k)
      BY DEF Sourced
    <2> DEFINE k == m.evidence.map[r].source
    <2>1. /\ k \in O
          /\ Reach(Edges(m, F, r), r, k)
          /\ Member(m, k, r) \/ (k # r /\ k \in D /\ \A f \in F : f[1] # k)
      BY DEF Tied, Sourced
    <2>2. key \notin D
      BY DEF key
    <2> HIDE DEF k
    <2>3. Reach(Edges(m, G, r), r, k)
      BY <1>1, <2>1, ReachMore
    <2> QED
      BY <2>1, <2>2, <2>3 DEF k
  <1> QED
    BY <1>2, <1>4, <1>5 DEF Tied, key

\* A fork that is followed: creator and child are in one family.
LEMMA LinkTied ==
    ASSUME NEW m, MemOK(m), NEW slot \in Keys(m.tasks), NEW cslot \in Keys(m.tasks), slot # cslot,
           NEW root \in Key, root = Family(slot, m.tasks.map[slot]),
           m.tasks.map[cslot].root = None,
           NEW n, n.evidence = m.evidence, Keys(n.tasks) = Keys(m.tasks),
           \A s \in Keys(m.tasks) \ {slot, cslot} : n.tasks.map[s] = m.tasks.map[s],
           \A s \in {slot, cslot} : /\ n.tasks.map[s].root = root
                                    /\ n.tasks.map[s].start = m.tasks.map[s].start
                                    /\ n.tasks.map[s].blocked = m.tasks.map[s].blocked,
           n.tasks.map[slot].children,
           NEW F, F \subseteq Key \X Key, NEW O, NEW D, Tied(m, F, O, D),
           TaskKey(m, slot) \in Key, TaskKey(m, slot) \notin D,
           TaskKey(m, cslot) \in Key, TaskKey(m, cslot) \notin O,
           \A f \in F : f[1] # TaskKey(m, cslot)
    PROVE  Tied(n, F \cup {<<TaskKey(m, slot), TaskKey(m, cslot)>>}, O, D)
  <1> DEFINE key == TaskKey(m, slot)
             born == TaskKey(m, cslot)
             G == F \cup {<<key, born>>}
             old == m.tasks.map[slot].root
  <1>1. \A s \in Keys(m.tasks) : TaskKey(n, s) = TaskKey(m, s)
    BY DEF TaskKey
  <1>2. \A s, x \in Keys(m.tasks) : TaskKey(m, s) = TaskKey(m, x) => s = x
    BY TaskFacts, KeyFacts DEF TaskKey, MemOK
  <1>3. old \in Key \cup {None} /\ None \notin Key /\ root = IF old = None THEN key ELSE old
    BY TaskFacts, KeyFacts DEF MemOK, Family, TaskKey
  <1>4. key \in Key /\ born \in Key /\ key \notin D /\ born \notin O /\ \A f \in F : f[1] # born
    OBVIOUS
  <1>5. TaskKey(n, slot) = key /\ TaskKey(n, cslot) = born /\ key # born
    BY <1>1, <1>2
  <1>6. /\ \A s \in Keys(m.tasks) \ {slot} : TaskKey(m, s) # key
        /\ \A s \in Keys(m.tasks) \ {cslot} : TaskKey(m, s) # born
    BY <1>2
  <1>7. \A s \in Keys(m.tasks) : m.tasks.map[s].root # None => n.tasks.map[s].root = m.tasks.map[s].root
    BY <1>3
  <1>8. \A s \in Keys(m.tasks) : m.tasks.map[s].root # None /\ m.tasks.map[s].children => n.tasks.map[s].children
    OBVIOUS
  <1>9. \A r \in Key : Edges(m, F, r) \subseteq Edges(n, G, r)
    <2> HIDE DEF key, born
    <2> QED
      BY <1>1, <1>3, <1>7, <1>8 DEF Edges
  <1>10. <<key, born>> \in Edges(n, G, root)
    <2>1. <<key, born>> \in G /\ <<key, born>>[1] = TaskKey(n, slot)
      BY <1>5
    <2> QED
      BY <2>1 DEF Edges
  <1>11. \A r : Edges(n, G, r) \subseteq Key \X Key
    BY <1>4 DEF Edges
  <1> HIDE DEF key, born, G
  <1>12. Reach(Edges(n, G, root), root, key)
    <2>1. CASE old = None
      <3>1. root = key
        BY <1>3, <2>1
      <3>2. Reach(Edges(n, G, root), root, root)
        BY <1>11, ReachFacts
      <3> QED
        BY <3>1, <3>2
    <2>2. CASE old # None
      <3>1. Reach(Edges(m, F, root), root, key)
        BY <1>3, <2>2 DEF Tied, Lineage, key
      <3> QED
        BY <1>9, <3>1, ReachMore
    <2> QED
      BY <2>1, <2>2
  <1>13. Reach(Edges(n, G, root), root, born)
    BY <1>10, <1>11, <1>12, ReachFacts
  <1>14. Lineage(n, G)
    <2> SUFFICES ASSUME NEW s \in Keys(n.tasks), n.tasks.map[s].root # None
                 PROVE  Reach(Edges(n, G, n.tasks.map[s].root), n.tasks.map[s].root, TaskKey(n, s))
      BY DEF Lineage
    <2>1. CASE s = slot
      BY <1>5, <1>12, <2>1
    <2>2. CASE s = cslot
      BY <1>5, <1>13, <2>2
    <2>3. CASE s \notin {slot, cslot}
      <3> DEFINE r == m.tasks.map[s].root
      <3>1. n.tasks.map[s].root = r /\ r # None /\ s \in Keys(m.tasks)
        BY <2>3
      <3>2. r \in Key
        BY <3>1, TaskFacts DEF MemOK
      <3>3. Reach(Edges(m, F, r), r, TaskKey(m, s))
        BY <3>1 DEF Tied, Lineage
      <3> HIDE DEF r
      <3>4. Reach(Edges(n, G, r), r, TaskKey(m, s))
        BY <1>9, <3>2, <3>3, ReachMore
      <3> QED
        BY <1>1, <3>1, <3>4
    <2> QED
      BY <2>1, <2>2, <2>3
  <1>15. Childless(n, G)
    <2> SUFFICES ASSUME NEW s \in Keys(n.tasks), ~n.tasks.map[s].blocked, ~n.tasks.map[s].children,
                        n.tasks.map[s].root \notin {None, TaskKey(n, s)}
                 PROVE  \A f \in G : f[1] # TaskKey(n, s)
      BY DEF Childless
    <2>1. s # slot
      OBVIOUS
    <2>2. CASE s = cslot
      BY <1>4, <1>5, <2>2 DEF G
    <2>3. CASE s # cslot
      <3>1. s \in Keys(m.tasks) /\ n.tasks.map[s] = m.tasks.map[s] /\ TaskKey(n, s) = TaskKey(m, s)
        BY <1>1, <2>1, <2>3
      <3>2. \A f \in F : f[1] # TaskKey(m, s)
        BY <3>1 DEF Tied, Childless
      <3>3. TaskKey(m, s) # key
        BY <1>6, <2>1, <3>1
      <3> QED
        BY <3>1, <3>2, <3>3 DEF G
    <2> QED
      BY <2>2, <2>3
  <1>16. Sourced(n, G, O, D)
    <2> SUFFICES ASSUME NEW r \in Keys(m.evidence)
                 PROVE  LET k == m.evidence.map[r].source
                        IN  /\ k \in O
                            /\ Reach(Edges(n, G, r), r, k)
                            /\ Member(n, k, r) \/ (k # r /\ k \in D /\ \A f \in G : f[1] # k)
      BY DEF Sourced
    <2> DEFINE k == m.evidence.map[r].source
    <2>1. r \in Key /\ k \in Key
      BY PrecursorFacts DEF MemOK
    <2>2. /\ k \in O
          /\ Reach(Edges(m, F, r), r, k)
          /\ Member(m, k, r) \/ (k # r /\ k \in D /\ \A f \in F : f[1] # k)
      BY DEF Tied, Sourced
    <2> HIDE DEF k
    <2>3. Reach(Edges(n, G, r), r, k)
      BY <1>9, <2>1, <2>2, ReachMore
    <2>4. Member(m, k, r) => Member(n, k, r)
      <3> SUFFICES ASSUME Member(m, k, r) PROVE Member(n, k, r)
        OBVIOUS
      <3> DEFINE s == SlotOf(k)
      <3>1. /\ s \in Keys(m.tasks) /\ m.tasks.map[s].start = k.start /\ ~m.tasks.map[s].blocked
            /\ Family(s, m.tasks.map[s]) = r /\ TaskKey(m, s) = k
        BY <2>1, KeyFacts DEF Member, TaskKey
      <3> HIDE DEF s
      <3>2. s # cslot
        BY <1>4, <2>2, <3>1 DEF born
      <3>3. CASE s = slot
        <4>1. r = root /\ Family(s, n.tasks.map[s]) = root
          BY <1>3, <3>1, <3>3 DEF Family
        <4> QED
          BY <3>1, <3>3, <4>1 DEF Member, s
      <3>4. CASE s # slot
        <4>1. n.tasks.map[s] = m.tasks.map[s]
          BY <3>1, <3>2, <3>4
        <4> QED
          BY <3>1, <4>1 DEF Member, s
      <3> QED
        BY <3>3, <3>4
    <2>5. (k # r /\ k \in D /\ \A f \in F : f[1] # k) => \A f \in G : f[1] # k
      BY <1>4 DEF G
    <2> QED
      BY <2>2, <2>3, <2>4, <2>5 DEF k
  <1> QED
    BY <1>14, <1>15, <1>16 DEF Tied, G, key, born

\* What fork leaves of the families, and what it adds to one of them.
LEMMA ForkTied ==
    ASSUME NEW m, MemOK(m), ~m.raised, NEW slot \in Keys(m.tasks), NEW start \in Start,
           m.tasks.map[slot].start = start,
           NEW child \in Pid, child # slot[2], NEW birth \in Start,
           NEW F, F \subseteq Key \X Key, NEW O, NEW D, Tied(m, F, O, D),
           NEW key, key = KeyOf(slot, start), key \notin D,
           NEW born, born = KeyOf(<<slot[1], child>>, birth), born \notin O,
           \A f \in F : f[1] # born
    PROVE  Tied(fork(m, slot, child, birth), F \cup {<<key, born>>}, O, D)
  <1> DEFINE n == fork(m, slot, child, birth)
             parent == m.tasks.map[slot]
             root == Family(slot, parent)
             cslot == <<slot[1], child>>
             held == task(m, cslot, birth)
             known == cslot \in Keys(m.tasks) /\ m.tasks.map[cslot].start \in {None, birth}
             G == F \cup {<<key, born>>}
  <1>1. cslot \in Slot /\ cslot # slot /\ slot \in Slot
    BY TaskFacts DEF MemOK, Slot
  <1>2. key = TaskKey(m, slot) /\ key \in Key /\ born = KeyOf(cslot, birth) /\ born \in Key
    <2>1. key = TaskKey(m, slot) /\ born = KeyOf(cslot, birth)
      BY DEF TaskKey
    <2>2. KeyOf(slot, start) \in Key
      BY <1>1, KeyFacts
    <2> HIDE DEF cslot
    <2>3. KeyOf(cslot, birth) \in Key
      BY <1>1, KeyFacts
    <2> QED
      BY <2>1, <2>2, <2>3
  <1>3. n = IF parent.blocked THEN m
            ELSE IF Unresolved(m, parent) THEN clear(m)
            ELSE IF known THEN clear(m)
            ELSE IF held.raised THEN held
            ELSE IF slot \notin Keys(held.tasks) \/ Unresolved(held, parent) THEN clear(held)
            ELSE Linked(held, slot, cslot, root)
    BY DEF fork, Linked
  <1> HIDE DEF cslot
  <1>4. /\ MemOK(held) /\ Keeps(held, m, cslot)
        /\ held.raised => Keys(held.tasks) = {}
        /\ ~held.raised => /\ Spares(held, m, cslot)
                           /\ cslot \in Keys(held.tasks)
                           /\ held.tasks.map[cslot].start = birth
                           /\ /\ cslot \in Blocked(m)
                              /\ m.tasks.map[cslot].root = None
                              /\ m.tasks.map[cslot].start \in {None, birth}
                              => cslot \in Blocked(held) /\ held.tasks.map[cslot].root = None
    BY <1>1, TaskOK
  <1>5. Unrooted(m)
    BY TiedUnrooted
  <1>6. Whole(held, m)
    BY <1>1, <1>5, TaskWhole
  <1> HIDE DEF n, held, G
  <1>7. ASSUME NEW x, MemOK(x) PROVE Tied(clear(x), G, O, D)
    BY <1>7, ClearBare, BareTied
  <1>8. CASE parent.blocked
    <2>1. n = m
      BY <1>3, <1>8
    <2> QED
      BY <1>2, <1>8, <2>1, ExcludedForkTied DEF n, G
  <1>9. CASE ~parent.blocked /\ (Unresolved(m, parent) \/ known)
    <2>1. n = clear(m)
      BY <1>3, <1>9
    <2> QED
      BY <1>7, <2>1 DEF n, G
  <1>10. CASE ~parent.blocked /\ ~ Unresolved(m, parent) /\ ~known
    <2>1. CASE held.raised
      <3>1. n = held
        BY <1>3, <1>10, <2>1
      <3> QED
        BY <1>4, <2>1, <3>1, EmptyBare, BareTied DEF n, G
    <2>2. CASE ~held.raised /\ (slot \notin Keys(held.tasks) \/ Unresolved(held, parent))
      <3>1. n = clear(held)
        BY <1>3, <1>10, <2>2
      <3> QED
        BY <1>4, <1>7, <3>1 DEF n, G
    <2>3. CASE ~held.raised /\ slot \in Keys(held.tasks) /\ ~ Unresolved(held, parent)
      <3>1. n = Linked(held, slot, cslot, root)
        BY <1>3, <1>10, <2>3
      <3>2. parent.start # None
        BY KeyFacts
      <3>3. root \in Key
        BY <3>2, FamilyFacts
      <3>4. held.tasks.map[slot] = parent
        BY <1>1, <1>4, <1>10, <2>3 DEF Keeps
      <3>5. held.tasks.map[cslot].root = None
        BY <1>4, <1>6, <1>10, <2>3 DEF Whole
      <3>6. Tied(held, F, O, D)
        BY <1>4, <1>6, WholeTied
      <3>7. TaskKey(held, slot) = key /\ TaskKey(held, cslot) = born
        BY <1>2, <1>4, <2>3, <3>4 DEF TaskKey
      <3>8. root = Family(slot, held.tasks.map[slot])
        BY <3>4
      <3> HIDE DEF root
      <3>9. /\ MemTyped(n) /\ n.raised = held.raised /\ n.evidence = held.evidence
            /\ Keys(n.tasks) = Keys(held.tasks)
            /\ \A s \in Keys(held.tasks) \ {slot, cslot} : n.tasks.map[s] = held.tasks.map[s]
            /\ \A s \in {slot, cslot} : /\ n.tasks.map[s].root = root
                                        /\ n.tasks.map[s].start = held.tasks.map[s].start
                                        /\ n.tasks.map[s].blocked = held.tasks.map[s].blocked
            /\ n.tasks.map[slot].children
            /\ n.tasks.map[cslot].children = held.tasks.map[cslot].children
        <4>1. MemTyped(held) /\ slot \in Keys(held.tasks) /\ cslot \in Keys(held.tasks) /\ slot # cslot
          BY <1>1, <1>4, <2>3 DEF MemOK
        <4> QED
          BY <3>1, <3>3, <4>1, LinkShape
      <3>10. Tied(n, F \cup {<<TaskKey(held, slot), TaskKey(held, cslot)>>}, O, D)
        <4>1. /\ MemOK(held) /\ slot \in Keys(held.tasks) /\ cslot \in Keys(held.tasks) /\ slot # cslot
              /\ TaskKey(held, slot) \in Key /\ TaskKey(held, slot) \notin D
              /\ TaskKey(held, cslot) \in Key /\ TaskKey(held, cslot) \notin O
              /\ \A f \in F : f[1] # TaskKey(held, cslot)
          BY <1>1, <1>2, <1>4, <2>3, <3>7
        <4> QED
          BY <3>3, <3>5, <3>6, <3>8, <3>9, <4>1, LinkTied
      <3> QED
        BY <3>7, <3>10 DEF n, G
    <2> QED
      BY <2>1, <2>2, <2>3
  <1> QED
    BY <1>8, <1>9, <1>10

\* More openings observed change nothing for the sources there are.
LEMMA MoreOpensTied ==
    ASSUME NEW m, NEW F, NEW O, NEW P, O \subseteq P, NEW D, Tied(m, F, O, D)
    PROVE  Tied(m, F, P, D)
  BY DEF Tied, Sourced

-----------------------------------------------------------------------------
(* Advisories.                                                             *)

\* The inductive invariant for AdvisoryJustified: the memory agrees with the history.
AdvisoryInv ==
    /\ MemoryInv
    /\ forks \subseteq Key \X Key
    /\ Tied(mem, forks, opens, ended)
    /\ AdvisoryJustified

\* Steps that make no advisory.
LEMMA QuietStep ==
    ASSUME MemoryInv', forks' \subseteq Key \X Key, Tied(mem', forks', opens', ended'),
           advisory' = None
    PROVE  AdvisoryInv'
  BY DEF AdvisoryInv, AdvisoryJustified

\* Steps that end everything that was observed.
LEMMA DisturbedStep ==
    ASSUME MemoryInv', NEW n, Bare(n), mem' = n, Disturbed, advisory' = None
    PROVE  AdvisoryInv'
  <1>1. forks' = {} /\ Tied(n, forks', opens', ended')
    BY BareTied DEF Disturbed
  <1> QED
    BY <1>1, QuietStep

LEMMA AgedTied ==
    ASSUME AdvisoryInv, NEW ts \in 0 .. MaxTs, InOrder(ts)
    PROVE  LET a == Aged(ts)
           IN  MemOK(a) /\ ~a.raised /\ Tied(a, forks, opens, ended)
  <1> DEFINE a == Aged(ts)
  <1>1. last_ts \in 0 .. MaxTs /\ last_ts <= ts /\ MemOK(mem) /\ Fresh(mem, last_ts) /\ ~mem.raised
    BY DEF AdvisoryInv, MemoryInv, InOrder
  <1>2. a = expire(mem, ts)
    BY DEF Aged
  <1> HIDE DEF a
  <1>3. MemOK(a) /\ Fresh(a, ts) /\ Fewer(a, mem) /\ a.tasks = mem.tasks /\ a.raised = mem.raised
    BY <1>1, <1>2, ExpireFacts
  <1>4. Whole(a, mem)
    BY <1>3, SameTasksWhole DEF Fewer
  <1>5. Tied(a, forks, opens, ended)
    BY <1>1, <1>3, <1>4, WholeTied DEF AdvisoryInv
  <1> QED
    BY <1>1, <1>3, <1>5 DEF a

\* Once the task of a frame is found, the memory agrees with what was observed, with the
\* end of the former generations and without it.
LEMMA FoundTied ==
    ASSUME AdvisoryInv, NEW ts \in 0 .. MaxTs, NEW slot \in Slot, NEW start \in Start,
           FrameOf(ts, slot, start)
    PROVE  LET m == Found(ts, slot, start)
               seen == Observed(Former(slot, start))
           IN  /\ m.raised => Bare(m)
               /\ Tied(m, forks, opens, ended)
               /\ seen.forks \subseteq Key \X Key
               /\ \A C : ended \subseteq C => Tied(m, seen.forks, seen.opens, C)
  <1> DEFINE m == Found(ts, slot, start)
             a == Aged(ts)
             kept == /\ slot \in Blocked(a)
                     /\ a.tasks.map[slot].root = None
                     /\ a.tasks.map[slot].start \in {None, start}
             former == Former(slot, start)
  <1>1. MemOK(a) /\ ~a.raised /\ Tied(a, forks, opens, ended) /\ forks \subseteq Key \X Key
    BY AgedTied DEF FrameOf, AdvisoryInv
  <1>2. m = task(a, slot, start)
    BY DEF Found
  <1> HIDE DEF a, m
  <1>3. /\ MemOK(m) /\ Keeps(m, a, slot)
        /\ m.raised => Keys(m.tasks) = {}
        /\ ~m.raised => /\ Spares(m, a, slot)
                        /\ slot \in Keys(m.tasks)
                        /\ m.tasks.map[slot].start = start
                        /\ kept => slot \in Blocked(m) /\ m.tasks.map[slot].root = None
    BY <1>1, <1>2, TaskOK
  <1>4. Unrooted(a)
    BY <1>1, TiedUnrooted
  <1>5. Whole(m, a)
    BY <1>1, <1>2, <1>4, TaskWhole
  <1>6. Tied(m, forks, opens, ended)
    BY <1>1, <1>3, <1>5, WholeTied
  <1>7. \A h \in Start : h < start => KeyOf(slot, h) # KeyOf(slot, start)
    <2>1. start \in Nat /\ \A h \in Start : h \in Nat
      BY MemoryAssumption
    <2> SUFFICES ASSUME NEW h \in Start, h < start, KeyOf(slot, h) = KeyOf(slot, start)
                 PROVE  FALSE
      OBVIOUS
    <2>2. h = start
      BY KeyFacts
    <2> QED
      BY <2>1, <2>2
  <1>8. ASSUME NEW s \in Keys(m.tasks) PROVE TaskKey(m, s) \notin former
    <2>1. s \in Slot
      BY <1>3, TaskFacts DEF MemOK
    <2>2. CASE s = slot
      BY <1>3, <1>7, <2>2 DEF TaskKey, Former
    <2>3. CASE s # slot
      <3> SUFFICES ASSUME NEW h \in Start, TaskKey(m, s) = KeyOf(slot, h) PROVE FALSE
        BY DEF Former
      <3> QED
        BY <2>1, <2>3, KeyFacts DEF TaskKey
    <2> QED
      BY <2>2, <2>3
  <1> HIDE DEF former
  <1>9. \A C : ended \subseteq C => Tied(m, Observed(former).forks, Observed(former).opens, C)
    BY <1>1, <1>3, <1>6, <1>8, OutliveTied
  <1>10. Observed(former).forks \subseteq Key \X Key
    BY <1>1 DEF Observed
  <1>11. m.raised => Bare(m)
    BY <1>3, EmptyBare
  <1> QED
    BY <1>6, <1>9, <1>10, <1>11 DEF m, former

LEMMA WorkerTied ==
    ASSUME AdvisoryInv, MemoryInv', NEW ts \in 0 .. MaxTs, NEW slot \in Slot, Worker(ts, slot)
    PROVE  AdvisoryInv'
  <1> DEFINE a == Aged(ts)
             n == block_thread(a, slot)
  <1>1. InOrder(ts) /\ mem' = n /\ Disturbed /\ advisory' = None
    BY DEF Worker, Leave
  <1>2. MemOK(a) /\ ~a.raised
    BY <1>1, AgedTied
  <1> HIDE DEF a
  <1>3. Bare(n)
    BY <1>2, BlockBare
  <1> QED
    BY <1>1, <1>3, DisturbedStep

LEMMA HealthTied ==
    ASSUME AdvisoryInv, MemoryInv', NEW ts \in 0 .. MaxTs, NEW loss \in Loss, HealthFrame(ts, loss)
    PROVE  AdvisoryInv'
  <1> DEFINE a == Aged(ts)
             c == clear(a)
             lossy == IF health = None THEN loss # 0 ELSE loss # health
             n == IF lossy THEN c ELSE a
  <1>1. /\ InOrder(ts) /\ mem' = n /\ advisory' = None /\ ended' = ended
        /\ IF lossy THEN Disturbed ELSE UNCHANGED history
    BY DEF HealthFrame, Leave
  <1>2. MemOK(a) /\ Tied(a, forks, opens, ended)
    BY <1>1, AgedTied
  <1> HIDE DEF a, lossy
  <1>3. Bare(c)
    BY <1>2, ClearBare
  <1>4. CASE lossy
    BY <1>1, <1>3, <1>4, DisturbedStep
  <1>5. CASE ~lossy
    <2>1. mem' = a /\ forks' = forks /\ opens' = opens
      BY <1>1, <1>5 DEF history
    <2>2. Tied(mem', forks', opens', ended') /\ forks' \subseteq Key \X Key
      BY <1>1, <1>2, <2>1 DEF AdvisoryInv
    <2> QED
      BY <1>1, <2>2, QuietStep
  <1> QED
    BY <1>4, <1>5

LEMMA ForkUnresolvedTied ==
    ASSUME AdvisoryInv, MemoryInv', NEW ts \in 0 .. MaxTs, NEW slot \in Slot, NEW start \in Start,
           ForkUnresolved(ts, slot, start) \/ ForkThread(ts, slot, start)
    PROVE  AdvisoryInv'
  <1> DEFINE m == Found(ts, slot, start)
             c == clear(m)
             b == block_thread(m, slot)
  <1>1. /\ FrameOf(ts, slot, start) /\ Disturbed /\ advisory' = None
        /\ mem' = IF m.raised THEN m ELSE mem'
        /\ ~m.raised => mem' \in {c, b}
    BY DEF ForkUnresolved, ForkThread, Leave
  <1>2. MemOK(m)
    BY <1>1, FoundOK DEF AdvisoryInv
  <1>3. m.raised => Bare(m)
    BY <1>1, FoundTied
  <1> HIDE DEF m
  <1>4. Bare(c) /\ (~m.raised => Bare(b))
    BY <1>2, ClearBare, BlockBare
  <1> HIDE DEF c, b
  <1>5. Bare(mem')
    <2>1. CASE m.raised
      <3>1. mem' = m
        BY <1>1, <2>1
      <3> QED
        BY <1>3, <2>1, <3>1
    <2>2. CASE ~m.raised
      BY <1>1, <1>4, <2>2
    <2> QED
      BY <2>1, <2>2
  <1> QED
    BY <1>1, <1>5, DisturbedStep

LEMMA OtherTied ==
    ASSUME AdvisoryInv, MemoryInv', NEW ts \in 0 .. MaxTs, NEW slot \in Slot, NEW start \in Start,
           Other(ts, slot, start)
    PROVE  AdvisoryInv'
  <1> DEFINE m == Found(ts, slot, start)
             c == clear(m)
             seen == Observed(Former(slot, start))
  <1>1. /\ FrameOf(ts, slot, start) /\ mem' \in {m, c} /\ advisory' = None
        /\ forks' = seen.forks /\ opens' = seen.opens /\ ended \subseteq ended'
    BY DEF Other, Leave, Outlive
  <1>2. MemOK(m)
    BY <1>1, FoundOK DEF AdvisoryInv
  <1>3. /\ m.raised => Bare(m)
        /\ Tied(m, forks, opens, ended)
        /\ seen.forks \subseteq Key \X Key
        /\ \A C : ended \subseteq C => Tied(m, seen.forks, seen.opens, C)
    BY <1>1, FoundTied
  <1> HIDE DEF m, seen
  <1>4. Bare(c)
    BY <1>2, ClearBare
  <1> HIDE DEF c
  <1>5. Tied(m, forks', opens', ended') /\ Tied(c, forks', opens', ended')
    BY <1>1, <1>3, <1>4, BareTied
  <1>6. Tied(mem', forks', opens', ended')
    BY <1>1, <1>5
  <1> QED
    BY <1>1, <1>3, <1>6, QuietStep

LEMMA FileOpenTied ==
    ASSUME AdvisoryInv, MemoryInv', NEW ts \in 0 .. MaxTs, NEW slot \in Slot, NEW start \in Start,
           FileOpen(ts, slot, start)
    PROVE  AdvisoryInv'
  <1> DEFINE m == Found(ts, slot, start)
             t == m.tasks.map[slot]
             c == clear(m)
             root == Family(slot, t)
             key == KeyOf(slot, start)
             e == Remember(m, root, ts, key)
             seen == Observed(Former(slot, start))
  <1>1. /\ FrameOf(ts, slot, start) /\ advisory' = None
        /\ mem' = IF m.raised \/ t.blocked THEN m ELSE IF Unresolved(m, t) THEN c ELSE e
        /\ forks' = seen.forks /\ opens' = seen.opens \cup {key} /\ ended \subseteq ended'
    BY DEF FileOpen, Leave
  <1>2. /\ MemOK(m) /\ Fresh(m, ts)
        /\ ~m.raised => slot \in Keys(m.tasks) /\ t.start = start
    BY <1>1, FoundOK DEF AdvisoryInv
  <1>3. /\ m.raised => Bare(m)
        /\ Tied(m, forks, opens, ended)
        /\ seen.forks \subseteq Key \X Key
        /\ \A C : ended \subseteq C => Tied(m, seen.forks, seen.opens, C)
    BY <1>1, FoundTied
  <1> HIDE DEF m, seen
  <1>4. Tied(m, forks', seen.opens, ended')
    BY <1>1, <1>3
  <1>5. Tied(m, forks', opens', ended')
    BY <1>1, <1>4, MoreOpensTied
  <1>6. Bare(c)
    BY <1>2, ClearBare
  <1>7. ~m.raised /\ ~t.blocked => Tied(e, forks', opens', ended')
    <2> SUFFICES ASSUME ~m.raised, ~t.blocked PROVE Tied(e, forks', opens', ended')
      OBVIOUS
    <2>1. t.start # None /\ key \in Key
      BY <1>2, KeyFacts
    <2>2. root \in Key /\ AliveIn(m, root)
      BY <1>2, <2>1, FamilyFacts
    <2>3. root = Family(slot, m.tasks.map[slot]) /\ key = KeyOf(slot, start)
      OBVIOUS
    <2> HIDE DEF root, key
    <2>4. /\ MemOK(e) /\ Fresh(e, ts) /\ e.raised = m.raised /\ e.tasks = m.tasks
          /\ Keys(e.evidence) = Keys(m.evidence) \cup {root}
          /\ e.evidence.map[root].source = key
          /\ \A k \in Keys(m.evidence) \ {root} : e.evidence.map[k] = m.evidence.map[k]
      BY <1>2, <2>1, <2>2, RememberOK
    <2> HIDE DEF e
    <2>5. Tied(e, forks', seen.opens \cup {key}, ended')
      <3>1. forks' \subseteq Key \X Key
        BY <1>1, <1>3
      <3>2. e.evidence.map[root].source = KeyOf(slot, start)
        BY <2>3, <2>4
      <3>3. Tied(e, forks', seen.opens \cup {KeyOf(slot, start)}, ended')
        BY <1>2, <1>4, <2>3, <2>4, <3>1, <3>2, RememberTied
      <3> QED
        BY <2>3, <3>3
    <2> QED
      BY <1>1, <2>5 DEF key
  <1> HIDE DEF c, e, t
  <1>8. Tied(mem', forks', opens', ended')
    <2>1. CASE m.raised \/ t.blocked
      BY <1>1, <1>5, <2>1
    <2>2. CASE ~ (m.raised \/ t.blocked) /\ Unresolved(m, t)
      BY <1>1, <1>6, <2>2, BareTied
    <2>3. CASE ~ (m.raised \/ t.blocked) /\ ~ Unresolved(m, t)
      BY <1>1, <1>7, <2>3
    <2> QED
      BY <2>1, <2>2, <2>3
  <1>9. forks' \subseteq Key \X Key
    BY <1>1, <1>3
  <1> QED
    BY <1>1, <1>8, <1>9, QuietStep

LEMMA ExitTied ==
    ASSUME AdvisoryInv, MemoryInv', NEW ts \in 0 .. MaxTs, NEW slot \in Slot, NEW start \in Start,
           Exit(ts, slot, start)
    PROVE  AdvisoryInv'
  <1> DEFINE m == Found(ts, slot, start)
             t == m.tasks.map[slot]
             key == KeyOf(slot, start)
             l == [m EXCEPT !.tasks = Without(@, {slot})]
             d == drop_family(m, Family(slot, t))
             leaf == t.root \notin {None, key} /\ ~t.children
             gone == Former(slot, start) \cup {key}
             seen == Observed(gone)
  <1>1. /\ FrameOf(ts, slot, start) /\ advisory' = None
        /\ mem' = IF m.raised THEN m ELSE IF leaf THEN l ELSE d
        /\ forks' = seen.forks /\ opens' = seen.opens
        /\ ended \subseteq ended' /\ key \in ended'
    BY DEF Exit, Leave, Outlive
  <1>2. /\ MemOK(m) /\ Fresh(m, ts)
        /\ ~m.raised => slot \in Keys(m.tasks) /\ m.tasks.map[slot].start = start
    BY <1>1, FoundOK DEF AdvisoryInv
  <1>3. /\ m.raised => Bare(m)
        /\ Tied(m, forks, opens, ended)
        /\ Observed(Former(slot, start)).forks \subseteq Key \X Key
        /\ \A C : ended \subseteq C =>
               Tied(m, Observed(Former(slot, start)).forks, Observed(Former(slot, start)).opens, C)
    BY <1>1, FoundTied
  <1>4. \A k \in gone : SlotOf(k) = slot
    BY KeyFacts DEF Former
  <1>5. forks \subseteq Key \X Key /\ seen.forks \subseteq Key \X Key
    BY DEF AdvisoryInv, Observed
  <1> HIDE DEF m
  <1>6. ASSUME NEW n, MemOK(n), slot \notin Keys(n.tasks), Tied(n, forks, opens, ended \cup {key})
        PROVE  Tied(n, seen.forks, seen.opens, ended')
    <2>1. \A s \in Keys(n.tasks) : SlotOf(TaskKey(n, s)) = s
      BY <1>6, TaskFacts, KeyFacts DEF MemOK, TaskKey
    <2>2. \A s \in Keys(n.tasks) : TaskKey(n, s) \notin gone
      BY <1>4, <1>6, <2>1
    <2>3. ended \cup {key} \subseteq ended'
      BY <1>1
    <2> HIDE DEF gone, key
    <2> QED
      BY <1>5, <1>6, <2>2, <2>3, OutliveTied
  <1>7. ~m.raised /\ leaf => Tied(l, seen.forks, seen.opens, ended')
    <2> SUFFICES ASSUME ~m.raised, leaf PROVE Tied(l, seen.forks, seen.opens, ended')
      OBVIOUS
    <2>1. /\ MemOK(l) /\ Sheds(l, m) /\ l.raised = m.raised /\ Spares(l, m, slot)
          /\ l.evidence = m.evidence
          /\ Keys(l.tasks) = Keys(m.tasks) \ {slot}
          /\ \A s \in Keys(l.tasks) : l.tasks.map[s] = m.tasks.map[s]
      BY <1>2, LeafOK
    <2> HIDE DEF l, seen, gone
    <2>2. Tied(l, forks, opens, ended \cup {key})
      BY <1>2, <1>3, <2>1, LeafTied
    <2> QED
      BY <1>6, <2>1, <2>2
  <1>8. ~m.raised => Tied(d, seen.forks, seen.opens, ended')
    <2> SUFFICES ASSUME ~m.raised PROVE Tied(d, seen.forks, seen.opens, ended')
      OBVIOUS
    <2>1. slot \in Keys(m.tasks) /\ m.tasks.map[slot].start # None
      BY <1>2, KeyFacts
    <2>2. /\ MemOK(d) /\ Sheds(d, m) /\ d.raised = m.raised /\ Spares(d, m, slot)
          /\ slot \notin Keys(d.tasks)
      BY <1>2, <2>1, DropFamilyOK
    <2>3. Whole(d, m)
      BY <1>2, <2>1, DropWhole
    <2> HIDE DEF d, seen, gone
    <2>4. Tied(d, forks, opens, ended)
      BY <1>2, <1>3, <2>2, <2>3, WholeTied
    <2>5. Tied(d, forks, opens, ended \cup {key})
      BY <2>4 DEF Tied, Sourced
    <2> QED
      BY <1>6, <2>2, <2>5
  <1> HIDE DEF l, d, leaf, seen
  <1>9. Tied(mem', forks', opens', ended')
    <2>1. CASE m.raised
      BY <1>1, <1>3, <2>1, BareTied
    <2>2. CASE ~m.raised /\ leaf
      BY <1>1, <1>7, <2>2
    <2>3. CASE ~m.raised /\ ~leaf
      BY <1>1, <1>8, <2>3
    <2> QED
      BY <2>1, <2>2, <2>3
  <1> QED
    BY <1>1, <1>5, <1>9, QuietStep

LEMMA ForkChildTied ==
    ASSUME AdvisoryInv, MemoryInv', NEW ts \in 0 .. MaxTs, NEW slot \in Slot, NEW start \in Start,
           NEW child \in Pid, NEW birth \in Start,
           ForkChild(ts, slot, start, child, birth)
    PROVE  AdvisoryInv'
  <1> DEFINE m == Found(ts, slot, start)
             cslot == <<slot[1], child>>
             key == KeyOf(slot, start)
             born == KeyOf(cslot, birth)
             f == fork(m, slot, child, birth)
             seen == Observed(Former(slot, start))
  <1>1. /\ FrameOf(ts, slot, start) /\ advisory' = None /\ child # slot[2]
        /\ mem' = IF m.raised THEN m ELSE f
        /\ forks' = seen.forks \cup {<<key, born>>} /\ opens' = seen.opens
        /\ ended' = ended \cup Former(slot, start) \cup Former(cslot, birth)
        /\ born \notin opens \cup {e[1] : e \in forks}
    BY DEF ForkChild, Leave
  <1>2. /\ MemOK(m) /\ Fresh(m, ts)
        /\ ~m.raised => slot \in Keys(m.tasks) /\ m.tasks.map[slot].start = start
    BY <1>1, FoundOK DEF AdvisoryInv
  <1>3. /\ m.raised => Bare(m)
        /\ Tied(m, forks, opens, ended)
        /\ seen.forks \subseteq Key \X Key
        /\ \A C : ended \subseteq C => Tied(m, seen.forks, seen.opens, C)
    BY <1>1, FoundTied
  <1>4. cslot \in Slot /\ cslot # slot
    BY <1>1 DEF Slot
  <1>5. seen.forks \subseteq forks /\ seen.opens \subseteq opens
    BY DEF Observed
  <1> HIDE DEF m, seen
  <1>6. Tied(m, seen.forks, seen.opens, ended')
    BY <1>1, <1>3
  <1>7. key \in Key /\ born \in Key
    <2> HIDE DEF cslot
    <2>1. KeyOf(slot, start) \in Key
      BY KeyFacts
    <2>2. KeyOf(cslot, birth) \in Key
      BY <1>4, KeyFacts
    <2> QED
      BY <2>1, <2>2
  <1>8. key \notin ended'
    <2> HIDE DEF cslot
    <2>1. key \notin ended
      BY <1>1 DEF FrameOf
    <2>2. \A h : KeyOf(cslot, h) # key
      BY <1>4, KeyFacts
    <2>3. ASSUME NEW h \in Start, h < start, KeyOf(slot, h) = key PROVE FALSE
      <3>1. h = start
        BY <2>3, KeyFacts
      <3>2. start \in Nat
        BY MemoryAssumption
      <3> QED
        BY <2>3, <3>1, <3>2
    <2> HIDE DEF key
    <2>4. key \notin Former(cslot, birth)
      BY <2>2 DEF Former
    <2>5. key \notin Former(slot, start)
      BY <2>3 DEF Former
    <2> QED
      BY <1>1, <2>1, <2>4, <2>5
  <1>9. born \notin seen.opens /\ \A e \in seen.forks : e[1] # born
    BY <1>1, <1>5
  <1>10. ~m.raised => Tied(f, forks', opens', ended')
    <2> SUFFICES ASSUME ~m.raised PROVE Tied(f, forks', opens', ended')
      OBVIOUS
    <2>1. born = KeyOf(<<slot[1], child>>, birth) /\ key = KeyOf(slot, start)
      OBVIOUS
    <2> HIDE DEF born, key
    <2>2. Tied(f, seen.forks \cup {<<key, born>>}, seen.opens, ended')
      BY <1>1, <1>2, <1>3, <1>6, <1>8, <1>9, <2>1, ForkTied
    <2> QED
      BY <1>1, <2>2 DEF born, key
  <1> HIDE DEF f
  <1>11. Tied(mem', forks', opens', ended')
    <2>1. CASE m.raised
      BY <1>1, <1>3, <2>1, BareTied
    <2>2. CASE ~m.raised
      BY <1>1, <1>10, <2>2
    <2> QED
      BY <2>1, <2>2
  <1>12. forks' \subseteq Key \X Key
    <2> HIDE DEF key, born
    <2> QED
      BY <1>1, <1>3, <1>7 DEF key, born
  <1> QED
    BY <1>1, <1>11, <1>12, QuietStep

\* The only step that makes an advisory.
LEMMA ConnectTied ==
    ASSUME AdvisoryInv, MemoryInv', NEW ts \in 0 .. MaxTs, NEW slot \in Slot, NEW start \in Start,
           Connect(ts, slot, start)
    PROVE  AdvisoryInv'
  <1> DEFINE m == Found(ts, slot, start)
             t == m.tasks.map[slot]
             c == clear(m)
             root == Family(slot, t)
             key == KeyOf(slot, start)
             precursor == m.evidence.map[root]
             idle == m.raised \/ t.blocked
             early == ~idle /\ root \in Keys(m.evidence) /\ ts <= precursor.ts
             match == ~idle /\ ~Unresolved(m, t) /\ root \in Keys(m.evidence) /\ ts > precursor.ts
             e == [m EXCEPT !.evidence = Without(@, {root})]
             adv == [root |-> root, source |-> precursor.source, key |-> key,
                     precursor_ns |-> precursor.ts, attempt_ns |-> ts]
             seen == Observed(Former(slot, start))
  <1>1. /\ FrameOf(ts, slot, start)
        /\ mem' \in {m, c, e}
        /\ advisory' = IF match THEN adv ELSE None
        /\ forks' = seen.forks /\ opens' = seen.opens /\ ended \subseteq ended'
    BY DEF Connect, Leave, Outlive
  <1>2. /\ MemOK(m) /\ Fresh(m, ts)
        /\ ~m.raised => slot \in Keys(m.tasks) /\ t.start = start
    BY <1>1, FoundOK DEF AdvisoryInv
  <1>3. /\ m.raised => Bare(m)
        /\ Tied(m, forks, opens, ended)
        /\ seen.forks \subseteq Key \X Key
        /\ \A C : ended \subseteq C => Tied(m, seen.forks, seen.opens, C)
    BY <1>1, FoundTied
  <1> HIDE DEF m, seen
  <1>4. forks' \subseteq Key \X Key /\ Tied(m, forks', opens', ended')
    BY <1>1, <1>3
  <1>5. Tied(c, forks', opens', ended')
    BY <1>2, ClearBare, BareTied
  <1>6. Tied(e, forks', opens', ended')
    <2> HIDE DEF root
    <2>1. MemOK(e) /\ Sheds(e, m) /\ e.raised = m.raised /\ e.tasks = m.tasks
      BY <1>2, ForgetOK
    <2> HIDE DEF e
    <2> QED
      BY <1>2, <1>4, <2>1, SameTasksWhole, WholeTied
  <1> HIDE DEF c, e
  <1>7. Tied(mem', forks', opens', ended')
    BY <1>1, <1>4, <1>5, <1>6
  <1>8. CASE ~match
    BY <1>1, <1>4, <1>7, <1>8, QuietStep
  <1>9. CASE match
    <2>1. /\ slot \in Keys(m.tasks) /\ slot \in Slot /\ t.start = start /\ root \in Keys(m.evidence)
          /\ ts > precursor.ts /\ t.root \in Key \cup {None}
      BY <1>2, <1>9, TaskFacts DEF MemOK
    <2>2. root \in Key /\ precursor.ts \in 0 .. MaxTs
      BY <1>2, <2>1, PrecursorFacts DEF MemOK
    <2>3. /\ precursor.source \in opens'
          /\ Reach(Edges(m, forks', root), root, precursor.source)
      BY <1>4, <2>1 DEF Tied, Sourced
    <2>4. Edges(m, forks', root) \subseteq forks'
      BY DEF Edges
    <2>5. Reach(forks', root, precursor.source)
      BY <2>3, <2>4, ReachMore
    <2>6. Reach(forks', root, key)
      <3>1. CASE t.root = None
        <4>1. root = key
          BY <2>1, <3>1 DEF Family
        <4>2. Reach(forks', root, root)
          BY <1>4, <2>2, ReachFacts
        <4> QED
          BY <4>1, <4>2
      <3>2. CASE t.root # None
        <4>1. root = t.root /\ TaskKey(m, slot) = key
          BY <2>1, <3>2 DEF Family, TaskKey
        <4>2. Reach(Edges(m, forks', root), root, key)
          BY <1>4, <2>1, <3>2, <4>1 DEF Tied, Lineage
        <4> QED
          BY <2>4, <4>2, ReachMore
      <3> QED
        BY <3>1, <3>2
    <2>7. ts - precursor.ts \in 1 .. Ttl - 1
      <3>1. ts - precursor.ts < Ttl
        BY <1>2, <2>1 DEF Fresh
      <3> HIDE DEF precursor
      <3> QED
        BY <2>1, <2>2, <3>1, MemoryAssumption
    <2> HIDE DEF root, precursor, key, t
    <2>8. precursor.source \in DescendantsIn(forks', root) /\ key \in DescendantsIn(forks', root)
      BY <1>4, <2>2, <2>5, <2>6, ReachDescends
    <2>9. /\ advisory'.root = root /\ advisory'.source = precursor.source /\ advisory'.key = key
          /\ advisory'.precursor_ns = precursor.ts /\ advisory'.attempt_ns = ts
      BY <1>1, <1>9
    <2>10. Descendants(advisory.root)' = DescendantsIn(forks', advisory'.root)
      BY DEF Descendants, DescendantsIn
    <2>11. AdvisoryJustified'
      BY <2>3, <2>7, <2>8, <2>9, <2>10 DEF AdvisoryJustified
    <2> QED
      BY <1>4, <1>7, <2>11 DEF AdvisoryInv
  <1> QED
    BY <1>8, <1>9

-----------------------------------------------------------------------------
(* The theorems.                                                           *)

LEMMA InitMemory ==
    ASSUME Init
    PROVE  MemoryInv
  <1>1. /\ IsDict(EmptyDict, Slot, Task) /\ IsDict(EmptyDict, Key, Precursor)
        /\ Keys(EmptyDict) = {} /\ EmptyDict.before = {}
    BY EmptyIsDict
  <1>2. /\ DOMAIN mem = {"tasks", "evidence", "raised"} /\ mem.raised = FALSE
        /\ mem.tasks = EmptyDict /\ mem.evidence = EmptyDict
    BY DEF Init
  <1>3. MemTyped(mem) /\ Keys(mem.tasks) = {} /\ Keys(mem.evidence) = {} /\ mem.evidence.before = {}
    BY <1>1, <1>2 DEF MemTyped
  <1>4. Cardinality(Keys(mem.tasks)) <= MaxTasks
    BY <1>3, FS_EmptySet, MemoryAssumption
  <1>5. MemOK(mem) /\ Fresh(mem, last_ts)
    BY <1>3, <1>4 DEF MemOK, Named, Followed, Dated, Blocked, Fresh
  <1>6. last_ts = 0 /\ 0 \in 0 .. MaxTs
    BY MemoryAssumption DEF Init
  <1> QED
    BY <1>2, <1>5, <1>6 DEF MemoryInv, Init

LEMMA MemoryStep ==
    ASSUME MemoryInv, [Next]_vars
    PROVE  MemoryInv' /\ KeptStep
  <1>1. CASE UNCHANGED vars
    BY <1>1, SameMemory DEF vars
  <1>2. CASE Next
    <2>1. ASSUME NEW ts \in 0 .. MaxTs, Backwards(ts)
          PROVE  MemoryInv' /\ KeptStep
      BY <2>1, BackwardsStep
    <2>2. ASSUME NEW ts \in 0 .. MaxTs, NEW loss \in Loss, HealthFrame(ts, loss)
          PROVE  MemoryInv' /\ KeptStep
      BY <2>2, HealthStep
    <2>3. ASSUME NEW ts \in 0 .. MaxTs, Uncertain(ts)
          PROVE  MemoryInv' /\ KeptStep
      BY <2>3, UncertainStep
    <2>4. ASSUME NEW ts \in 0 .. MaxTs, NEW slot \in Slot, Worker(ts, slot)
          PROVE  MemoryInv' /\ KeptStep
      BY <2>4, WorkerStep
    <2>5. ASSUME NEW ts \in 0 .. MaxTs, NEW slot \in Slot, NEW start \in Start,
                 Exit(ts, slot, start)
          PROVE  MemoryInv' /\ KeptStep
      BY <2>5, ExitStep
    <2>6. ASSUME NEW ts \in 0 .. MaxTs, NEW slot \in Slot, NEW start \in Start,
                 ForkUnresolved(ts, slot, start)
          PROVE  MemoryInv' /\ KeptStep
      BY <2>6, ForkUnresolvedStep
    <2>7. ASSUME NEW ts \in 0 .. MaxTs, NEW slot \in Slot, NEW start \in Start,
                 ForkThread(ts, slot, start)
          PROVE  MemoryInv' /\ KeptStep
      BY <2>7, ForkThreadStep
    <2>8. ASSUME NEW ts \in 0 .. MaxTs, NEW slot \in Slot, NEW start \in Start,
                 NEW child \in Pid, NEW birth \in Start, ForkChild(ts, slot, start, child, birth)
          PROVE  MemoryInv' /\ KeptStep
      BY <2>8, ForkChildStep
    <2>9. ASSUME NEW ts \in 0 .. MaxTs, NEW slot \in Slot, NEW start \in Start,
                 Other(ts, slot, start)
          PROVE  MemoryInv' /\ KeptStep
      BY <2>9, OtherStep
    <2>10. ASSUME NEW ts \in 0 .. MaxTs, NEW slot \in Slot, NEW start \in Start,
                  FileOpen(ts, slot, start)
           PROVE  MemoryInv' /\ KeptStep
      BY <2>10, FileOpenStep
    <2>11. ASSUME NEW ts \in 0 .. MaxTs, NEW slot \in Slot, NEW start \in Start,
                  Connect(ts, slot, start)
           PROVE  MemoryInv' /\ KeptStep
      BY <2>11, ConnectStep
    <2>12. CASE InvalidFrame \/ InvalidEvent
      BY <2>12, FailStep DEF InvalidFrame, InvalidEvent
    <2>13. CASE EndOfInput
      BY <2>13, SameMemory DEF EndOfInput
    <2> QED
      BY <1>2, <2>1, <2>2, <2>3, <2>4, <2>5, <2>6, <2>7, <2>8, <2>9, <2>10, <2>11, <2>12, <2>13
         DEF Next
  <1> QED
    BY <1>1, <1>2

LEMMA AdvisoryStep ==
    ASSUME AdvisoryInv, [Next]_vars
    PROVE  AdvisoryInv'
  <1>0. MemoryInv' /\ MemOK(mem)
    BY MemoryStep DEF AdvisoryInv, MemoryInv
  <1>1. CASE UNCHANGED vars
    <2>1. /\ mem' = mem /\ forks' = forks /\ opens' = opens /\ ended' = ended
          /\ advisory' = advisory
      BY <1>1 DEF vars
    <2>2. forks' \subseteq Key \X Key /\ Tied(mem', forks', opens', ended')
      BY <2>1 DEF AdvisoryInv
    <2>3. AdvisoryJustified'
      BY <2>1 DEF AdvisoryInv, AdvisoryJustified, Descendants
    <2> QED
      BY <1>0, <2>2, <2>3 DEF AdvisoryInv
  <1>2. CASE Next
    <2>1. ASSUME NEW ts \in 0 .. MaxTs, Backwards(ts)
          PROVE  AdvisoryInv'
      BY <1>0, <2>1, ClearBare, DisturbedStep DEF Backwards, Leave
    <2>2. ASSUME NEW ts \in 0 .. MaxTs, NEW loss \in Loss, HealthFrame(ts, loss)
          PROVE  AdvisoryInv'
      BY <1>0, <2>2, HealthTied
    <2>3. ASSUME NEW ts \in 0 .. MaxTs, Uncertain(ts)
          PROVE  AdvisoryInv'
      <3>1. /\ InOrder(ts) /\ mem' = clear(Aged(ts)) /\ Disturbed /\ advisory' = None
        BY <2>3 DEF Uncertain, Leave
      <3>2. MemOK(Aged(ts))
        BY <3>1, AgedTied
      <3> QED
        BY <1>0, <3>1, <3>2, ClearBare, DisturbedStep
    <2>4. ASSUME NEW ts \in 0 .. MaxTs, NEW slot \in Slot, Worker(ts, slot)
          PROVE  AdvisoryInv'
      BY <1>0, <2>4, WorkerTied
    <2>5. ASSUME NEW ts \in 0 .. MaxTs, NEW slot \in Slot, NEW start \in Start,
                 Exit(ts, slot, start)
          PROVE  AdvisoryInv'
      BY <1>0, <2>5, ExitTied
    <2>6. ASSUME NEW ts \in 0 .. MaxTs, NEW slot \in Slot, NEW start \in Start,
                 ForkUnresolved(ts, slot, start) \/ ForkThread(ts, slot, start)
          PROVE  AdvisoryInv'
      BY <1>0, <2>6, ForkUnresolvedTied
    <2>7. ASSUME NEW ts \in 0 .. MaxTs, NEW slot \in Slot, NEW start \in Start,
                 NEW child \in Pid, NEW birth \in Start, ForkChild(ts, slot, start, child, birth)
          PROVE  AdvisoryInv'
      BY <1>0, <2>7, ForkChildTied
    <2>8. ASSUME NEW ts \in 0 .. MaxTs, NEW slot \in Slot, NEW start \in Start,
                 Other(ts, slot, start)
          PROVE  AdvisoryInv'
      BY <1>0, <2>8, OtherTied
    <2>9. ASSUME NEW ts \in 0 .. MaxTs, NEW slot \in Slot, NEW start \in Start,
                 FileOpen(ts, slot, start)
          PROVE  AdvisoryInv'
      BY <1>0, <2>9, FileOpenTied
    <2>10. ASSUME NEW ts \in 0 .. MaxTs, NEW slot \in Slot, NEW start \in Start,
                  Connect(ts, slot, start)
           PROVE  AdvisoryInv'
      BY <1>0, <2>10, ConnectTied
    <2>11. CASE InvalidFrame \/ InvalidEvent
      BY <1>0, <2>11, ClearBare, DisturbedStep DEF InvalidFrame, InvalidEvent, Fail
    <2>12. CASE EndOfInput
      <3>1. mem' = mem /\ forks' = forks /\ opens' = opens /\ ended' = ended /\ advisory' = None
        BY <2>12 DEF EndOfInput, history
      <3>2. forks' \subseteq Key \X Key /\ Tied(mem', forks', opens', ended')
        BY <3>1 DEF AdvisoryInv
      <3> QED
        BY <1>0, <3>1, <3>2, QuietStep
    <2> QED
      BY <1>2, <2>1, <2>2, <2>3, <2>4, <2>5, <2>6, <2>7, <2>8, <2>9, <2>10, <2>11, <2>12 DEF Next
  <1> QED
    BY <1>1, <1>2

\* The memory between two events, whatever cgroups, PIDs and generations the stream names,
\* whatever its capacity and retention: every method of BehaviorMemory leaves it sound.
THEOREM MemoryInvariant == Spec => []MemoryInv
  <1>1. Init => MemoryInv
    BY InitMemory
  <1>2. MemoryInv /\ [Next]_vars => MemoryInv'
    BY MemoryStep
  <1> QED
    BY <1>1, <1>2, PTL DEF Spec

\* Evidence has roots of tasks in the memory, each its own, so it is bounded as tasks are.
LEMMA EvidenceBounded ==
    ASSUME MemoryInv
    PROVE  Cardinality(Keys(mem.evidence)) <= MaxTasks
  <1> DEFINE E == Keys(mem.evidence)
             T == Keys(mem.tasks)
             slots == [r \in E |-> SlotOf(r)]
  <1>1. IsFiniteSet(E) /\ IsFiniteSet(T) /\ E \subseteq Key /\ Cardinality(T) <= MaxTasks
    BY DEF MemoryInv, MemOK, MemTyped, IsDict
  <1>2. \A r \in E : AliveIn(mem, r)
    BY <1>1 DEF MemoryInv, MemOK, Named
  <1>3. \A r \in E : SlotOf(r) \in T /\ mem.tasks.map[SlotOf(r)].start = r.start
    BY <1>2 DEF AliveIn
  <1>4. \A r \in E : KeyOf(SlotOf(r), mem.tasks.map[SlotOf(r)].start) = r
    BY <1>1, <1>3, KeyFacts
  <1>5. \A r, q \in E : SlotOf(r) = SlotOf(q) => r = q
    BY <1>4
  <1>6. slots \in Injection(E, T)
    BY <1>3, <1>5 DEF Injection, IsInjective
  <1>7. Cardinality(E) <= Cardinality(T)
    BY <1>1, <1>6, FS_Injection
  <1>8. Cardinality(E) \in Nat /\ Cardinality(T) \in Nat
    BY <1>1, FS_CardinalityType
  <1> QED
    BY <1>1, <1>7, <1>8, MemoryAssumption

LEMMA MemoryImplies ==
    ASSUME MemoryInv
    PROVE  MemorySound
  <1>1. TypeOK
    BY EvidenceBounded DEF MemoryInv, MemOK, MemTyped, TypeOK
  <1>2. \A r \in Named(mem) : Alive(r)
    BY DEF MemoryInv, MemOK, AliveIn, Alive
  <1>3. FamilyRooted
    <2>1. \A r \in Keys(mem.evidence) : r \in Key
      BY PrecursorFacts DEF MemoryInv, MemOK
    <2>2. \A s \in Keys(mem.tasks) : mem.tasks.map[s].root \in Key \cup {None}
      BY TaskFacts DEF MemoryInv, MemOK
    <2> QED
      BY <1>2, <2>1, <2>2 DEF FamilyRooted, Named
  <1>4. EvidenceFresh
    BY DEF MemoryInv, Fresh, EvidenceFresh
  <1>5. ExclusionFollows
    BY DEF MemoryInv, MemOK, Followed, ExclusionFollows
  <1> QED
    BY <1>1, <1>3, <1>4, <1>5 DEF MemorySound

\* The object between two events is sound: tasks and evidence within max_tasks, every root
\* that is named alive, evidence in order and within the retention, exclusions in every
\* cgroup of the PID.
THEOREM MemoryIsSound == Spec => []MemorySound
  BY MemoryInvariant, MemoryImplies, PTL

\* No method loses a thread exclusion: not a reset, not an eviction of make_room, not the
\* fork or the exit of another task.
THEOREM ExclusionIsKept == Spec => ExclusionKept
  <1>1. MemoryInv /\ [Next]_vars => [KeptStep]_vars
    BY MemoryStep
  <1>2. Spec => [][KeptStep]_vars
    BY <1>1, MemoryInvariant, PTL DEF Spec
  <1> QED
    BY <1>2 DEF ExclusionKept, KeptStep

\* "These are verified creator edges": the two tasks of an advisory descend from its root
\* by observed forks of creators that have not ended, however observe, make_room, exits
\* and reuse of PIDs come together, and the opening is within the retention.
THEOREM AdvisoriesJustified == Spec => []AdvisoryJustified
  <1>1. Init => AdvisoryInv
    <2> SUFFICES ASSUME Init PROVE AdvisoryInv
      OBVIOUS
    <2>1. MemoryInv
      BY InitMemory
    <2>2. Bare(mem)
      BY EmptyIsDict DEF Init, Bare
    <2> QED
      BY <2>1, <2>2, BareTied DEF Init, AdvisoryInv, AdvisoryJustified
  <1>2. AdvisoryInv /\ [Next]_vars => AdvisoryInv'
    BY AdvisoryStep
  <1>3. AdvisoryInv => AdvisoryJustified
    BY DEF AdvisoryInv
  <1> QED
    BY <1>1, <1>2, <1>3, PTL DEF Spec
=============================================================================
