--------------------------- MODULE BehaviorMemory ---------------------------
(***************************************************************************)
(* The advisory correlation of agent/ai/experiments/event-time-v1/src/     *)
(* behavior_memory.py: a replayed stream of sensor events, in which the    *)
(* opening of a credential file followed by a connect of the same process, *)
(* or of one tied to it by observed forks, makes one advisory.             *)
(*                                                                         *)
(* The memory keeps the tasks it has seen (with the root of the family a   *)
(* task belongs to) and, per root, the last credential opening. Operators  *)
(* with the names of methods map a memory to the memory the method leaves; *)
(* the field raised says that the method raised TASK_CAPACITY_EXHAUSTED.   *)
(* The counters of the summary decide nothing and are left out.            *)
(***************************************************************************)
EXTENDS OrderedDict

CONSTANTS
    Cgroup, Pid,
    Start,      \* birth tokens of tasks: times, which the code compares only for equality
    None,       \* Python's None, and the birth token 0
    MaxTasks,   \* max_tasks
    Ttl,        \* the retention, in units of event time
    MaxTs,      \* bound: event timestamps
    Loss,       \* values of the loss counters of a HEALTH event, 0 for none
    MaxForks,   \* bound: forks observed between two disturbances of the stream
    MaxOpens    \* bound: tasks that open a credential between two disturbances

Slot == Cgroup \X Pid
Key == [cgroup : Cgroup, pid : Pid, start : Start]

ASSUME MemoryAssumption ==
    /\ MaxTasks \in Nat \ {0} /\ Ttl \in Nat \ {0}
    /\ MaxTs \in Nat /\ Loss \subseteq Nat /\ MaxForks \in Nat /\ MaxOpens \in Nat
    /\ Start \subseteq Nat /\ None \notin Start \cup Key

Task == [start : Start \cup {None}, blocked : BOOLEAN,
         root : Key \cup {None}, children : BOOLEAN]
Precursor == [ts : 0 .. MaxTs, source : Key]
Advisory == [root : Key, source : Key, key : Key,
             precursor_ns : 0 .. MaxTs, attempt_ns : 0 .. MaxTs]

VARIABLES
    mem,       \* the memory: tasks, evidence, raised
    last_ts,   \* timestamp of the last frame
    health,    \* loss counters of the last HEALTH frame
    replay,    \* "reading", "failed" or "ended"
    advisory,  \* the advisory of the last frame, or None
    ended,     \* the generations of tasks that have ended
    forks,     \* history: forks observed since the last disturbance, creators alive
    opens      \* history: tasks whose credential opening was observed since then

vars == <<mem, last_ts, health, replay, advisory, ended, forks, opens>>
history == <<forks, opens>>

Init ==
    /\ mem = [tasks |-> EmptyDict, evidence |-> EmptyDict, raised |-> FALSE]
    /\ last_ts = 0
    /\ health = None
    /\ replay = "reading"
    /\ advisory = None
    /\ ended = {} /\ forks = {} /\ opens = {}

-----------------------------------------------------------------------------
(* The methods of the memory.                                              *)

KeyOf(slot, start) == [cgroup |-> slot[1], pid |-> slot[2], start |-> start]
SlotOf(key) == <<key.cgroup, key.pid>>

Blocked(m) == {s \in Keys(m.tasks) : m.tasks.map[s].blocked}

\* All evidence goes, and every task but the known thread exclusions.
clear(m) ==
    LET kept == Restricted(m.tasks, Blocked(m))
    IN  [m EXCEPT !.evidence = EmptyDict,
                  !.tasks = [kept EXCEPT !.map =
                      [s \in Keys(kept) |-> [@[s] EXCEPT !.root = None, !.children = FALSE]]]]

\* The same with keep_blocks = False.
clearBlocks(m) == [m EXCEPT !.evidence = EmptyDict, !.tasks = EmptyDict]

\* Evidence is in the order of its timestamps; the loop stops at the first fresh one.
expire(m, ts) ==
    LET fresh == {k \in Keys(m.evidence) : ts - m.evidence.map[k].ts < Ttl}
        kept == {k \in Keys(m.evidence) : \E f \in fresh : f = k \/ <<f, k>> \in m.evidence.before}
    IN  [m EXCEPT !.evidence = Restricted(@, kept)]

\* The identity of the family a task belongs to: its root, or the task itself.
Family(slot, t) == IF t.root = None THEN KeyOf(slot, t.start) ELSE t.root

drop_family(m, root) ==
    LET member(s) == \/ m.tasks.map[s].root = root
                     \/ KeyOf(s, m.tasks.map[s].start) = root
    IN  [m EXCEPT !.evidence = Without(@, {root}),
                  !.tasks = Without(@, {s \in Keys(m.tasks) : member(s)})]

\* Mutant of MakeRoom: the least recently seen task goes, excluded or not.
MakeRoomOldest(m) ==
    LET victim == FirstOf(m.tasks, Keys(m.tasks))
    IN  IF Cardinality(Keys(m.tasks)) < MaxTasks THEN m
        ELSE drop_family(m, Family(victim, m.tasks.map[victim]))

\* A full memory gives up the family of its least recently seen task, but never a
\* thread exclusion: when there is nothing else, it is emptied and the method raises.
MakeRoom(m) ==
    LET idle == Keys(m.tasks) \ Blocked(m)
        victim == FirstOf(m.tasks, idle)
    IN  IF Cardinality(Keys(m.tasks)) < MaxTasks THEN m
        ELSE IF idle = {} THEN [clearBlocks(m) EXCEPT !.raised = TRUE]
        ELSE drop_family(m, Family(victim, m.tasks.map[victim]))

\* Mutant of Insert: an exclusion is a matter of one cgroup.
InsertIncluded(m, slot, start) ==
    IF m.raised THEN m
    ELSE [m EXCEPT !.tasks = SetItem(@, slot,
              [start |-> start, blocked |-> FALSE, root |-> None, children |-> FALSE])]

\* A task not in the memory is added to it; it inherits the exclusion of its PID.
Insert(m, slot, start) ==
    LET excluded == \E o \in Blocked(m) :
                        o[2] = slot[2] /\ m.tasks.map[o].start \in {None, start}
    IN  IF m.raised THEN m
        ELSE [m EXCEPT !.tasks = SetItem(@, slot,
                  [start |-> start, blocked |-> excluded, root |-> None, children |-> FALSE])]

\* Mutant of Recheck: a PID is taken for the task that had it before.
RecheckNoReuse(m, slot, start) ==
    IF slot \notin Keys(m.tasks) /\ \E o \in Keys(m.tasks) : o[2] = slot[2] THEN clear(m) ELSE m

\* Before the look-up takes effect: a PID seen in another cgroup clears the memory, a
\* birth token that differs is a new generation and drops the family of the old one.
Recheck(m, slot, start) ==
    LET known == slot \in Keys(m.tasks)
        moved == \E o \in Keys(m.tasks) : o[2] = slot[2] /\ o[1] # slot[1]
    IN  IF ~known /\ moved THEN clear(m)
        ELSE IF known /\ m.tasks.map[slot].start \notin {None, start}
        THEN drop_family(m, Family(slot, m.tasks.map[slot]))
        ELSE m

\* The task of a slot, found or added, becomes the most recent one.
task(m, slot, start) ==
    LET seen == Recheck(m, slot, start)
        held == IF slot \in Keys(seen.tasks) THEN seen ELSE Insert(MakeRoom(seen), slot, start)
        known == held.tasks.map[slot]
    IN  IF held.raised THEN held
        ELSE [held EXCEPT !.tasks = MoveToEnd(
                  IF known.start = None THEN SetItem(@, slot, [known EXCEPT !.start = start]) ELSE @,
                  slot)]

\* The root a task names is gone, is another generation or has threads.
Unresolved(m, t) ==
    /\ t.root # None
    /\ \/ SlotOf(t.root) \notin Keys(m.tasks)
       \/ m.tasks.map[SlotOf(t.root)].start # t.root.start
       \/ m.tasks.map[SlotOf(t.root)].blocked

\* A task of several threads cannot be followed: everything is cleared, it is excluded.
block_thread(m, slot) ==
    LET leader == IF slot \in Keys(m.tasks) THEN m.tasks.map[slot].start ELSE None
        held == task(clear(m), slot, leader)
    IN  IF held.raised THEN held
        ELSE [held EXCEPT !.tasks.map[slot].blocked = TRUE]

\* A fork whose child is a process with an exported identity. The parent is in m.
fork(m, slot, child, birth) ==
    LET parent == m.tasks.map[slot]
        root == Family(slot, parent)
        cslot == <<slot[1], child>>
        held == task(m, cslot, birth)
    IN  IF parent.blocked THEN m
        ELSE IF Unresolved(m, parent) THEN clear(m)
        ELSE IF cslot \in Keys(m.tasks) /\ m.tasks.map[cslot].start \in {None, birth} THEN clear(m)
        ELSE IF held.raised THEN held
        ELSE IF slot \notin Keys(held.tasks) \/ Unresolved(held, parent) THEN clear(held)
        ELSE [held EXCEPT !.tasks.map[slot].root = root,
                          !.tasks.map[slot].children = TRUE,
                          !.tasks.map[cslot].root = root]

-----------------------------------------------------------------------------
(* observe: one action per kind of frame and way through the method.       *)

\* A disturbance of the stream ends everything that was observed before it.
Disturbed == forks' = {} /\ opens' = {}

\* What remains observed when the tasks in gone have ended: a child's opening counts on
\* for the creators that are still alive, a creator takes what it ties together with it.
Observed(gone) ==
    LET leaf(k) == k \in {f[2] : f \in forks} /\ k \notin {f[1] : f \in forks}
    IN  [forks |-> {f \in forks : f[1] \notin gone},
         opens |-> {k \in opens : k \in gone => leaf(k)}]

Outlive(gone) == forks' = Observed(gone).forks /\ opens' = Observed(gone).opens

\* The earlier generations of a slot that is seen with this birth token.
Former(slot, start) == {KeyOf(slot, g) : g \in {h \in Start : h < start}}

\* What a method returns: the memory it leaves, or an exception that ends the replay.
Leave(m) ==
    /\ mem' = m
    /\ replay' = IF m.raised THEN "failed" ELSE "reading"

\* A frame that is not older than the last one; evidence expires first.
InOrder(ts) ==
    /\ replay = "reading"
    /\ ts >= last_ts
    /\ last_ts' = ts

\* A frame of a thread group's leader. A task is silent after its end, and the generations
\* of a slot follow one another.
FrameOf(ts, slot, start) ==
    /\ InOrder(ts)
    /\ KeyOf(slot, start) \notin ended

Aged(ts) == expire(mem, ts)

\* A frame of a known, single-threaded generation: the memory once its task is found.
Found(ts, slot, start) == task(Aged(ts), slot, start)

\* A timestamp that steps back clears the memory; the frame itself is not looked at.
Backwards(ts) ==
    /\ replay = "reading"
    /\ ts < last_ts
    /\ last_ts' = ts
    /\ Leave(clear(mem))
    /\ advisory' = None
    /\ Disturbed
    /\ UNCHANGED <<health, ended>>

HealthFrame(ts, loss) ==
    LET lossy == IF health = None THEN loss # 0 ELSE loss # health
    IN  /\ InOrder(ts)
        /\ health' = loss
        /\ Leave(IF lossy THEN clear(Aged(ts)) ELSE Aged(ts))
        /\ advisory' = None
        /\ IF lossy THEN Disturbed ELSE UNCHANGED history
        /\ UNCHANGED ended

\* PROCESS_UNCERTAIN or USERSPACE is set, or a part of the identity is missing.
Uncertain(ts) ==
    /\ InOrder(ts)
    /\ Leave(clear(Aged(ts)))
    /\ advisory' = None
    /\ Disturbed
    /\ UNCHANGED <<health, ended>>

\* A frame of a thread that is not its group's leader.
Worker(ts, slot) ==
    /\ InOrder(ts)
    /\ Leave(block_thread(Aged(ts), slot))
    /\ advisory' = None
    /\ Disturbed
    /\ UNCHANGED <<health, ended>>

\* Mutant of Exit: a creator that has a root is taken for a leaf.
ExitKeepsFamily(ts, slot, start) ==
    LET m == Found(ts, slot, start)
        t == m.tasks.map[slot]
        key == KeyOf(slot, start)
    IN  /\ FrameOf(ts, slot, start)
        /\ Leave(IF m.raised THEN m
                 ELSE IF t.root \notin {None, key}
                 THEN [m EXCEPT !.tasks = Without(@, {slot})]
                 ELSE drop_family(m, Family(slot, t)))
        /\ advisory' = None
        /\ Outlive(Former(slot, start) \cup {key})
        /\ ended' = ended \cup Former(slot, start) \cup {key}
        /\ UNCHANGED health

\* A leaf leaves its evidence to the root; any other exit ends the family.
Exit(ts, slot, start) ==
    LET m == Found(ts, slot, start)
        t == m.tasks.map[slot]
        key == KeyOf(slot, start)
    IN  /\ FrameOf(ts, slot, start)
        /\ Leave(IF m.raised THEN m
                 ELSE IF t.root \notin {None, key} /\ ~t.children
                 THEN [m EXCEPT !.tasks = Without(@, {slot})]
                 ELSE drop_family(m, Family(slot, t)))
        /\ advisory' = None
        /\ Outlive(Former(slot, start) \cup {key})
        /\ ended' = ended \cup Former(slot, start) \cup {key}
        /\ UNCHANGED health

\* A fork of somebody else, without the child's identity, or with an unusable one.
ForkUnresolved(ts, slot, start) ==
    LET m == Found(ts, slot, start)
    IN  /\ FrameOf(ts, slot, start)
        /\ Leave(IF m.raised THEN m ELSE clear(m))
        /\ advisory' = None
        /\ Disturbed
        /\ ended' = ended \cup Former(slot, start)
        /\ UNCHANGED health

\* The child is a thread of its parent.
ForkThread(ts, slot, start) ==
    LET m == Found(ts, slot, start)
    IN  /\ FrameOf(ts, slot, start)
        /\ Leave(IF m.raised THEN m ELSE block_thread(m, slot))
        /\ advisory' = None
        /\ Disturbed
        /\ ended' = ended \cup Former(slot, start)
        /\ UNCHANGED health

\* The child is a process whose identity the sensor exported. A task is born before it
\* opens a file or forks itself.
ForkChild(ts, slot, start, child, birth) ==
    LET m == Found(ts, slot, start)
        born == KeyOf(<<slot[1], child>>, birth)
        seen == Observed(Former(slot, start))
    IN  /\ FrameOf(ts, slot, start)
        /\ child # slot[2]
        /\ Cardinality(forks) < MaxForks
        /\ born \notin ended \cup opens \cup {f[1] : f \in forks}
        /\ Leave(IF m.raised THEN m ELSE fork(m, slot, child, birth))
        /\ advisory' = None
        /\ forks' = seen.forks \cup {<<KeyOf(slot, start), born>>}
        /\ opens' = seen.opens
        /\ ended' = ended \cup Former(slot, start) \cup Former(<<slot[1], child>>, birth)
        /\ UNCHANGED health

\* Any other frame of a task: exec, a system call, an opening or a connect that is not
\* eligible. The task is found and its root resolved, nothing else.
Other(ts, slot, start) ==
    LET m == Found(ts, slot, start)
        t == m.tasks.map[slot]
    IN  /\ FrameOf(ts, slot, start)
        /\ Leave(IF m.raised \/ t.blocked \/ ~Unresolved(m, t) THEN m ELSE clear(m))
        /\ advisory' = None
        /\ Outlive(Former(slot, start))
        /\ ended' = ended \cup Former(slot, start)
        /\ UNCHANGED health

\* Mutant of Remember: evidence that is renewed keeps its old place.
RememberInPlace(m, root, ts, key) ==
    [m EXCEPT !.evidence = SetItem(@, root, [ts |-> ts, source |-> key])]

\* The evidence of a root is replaced and becomes the latest.
Remember(m, root, ts, key) ==
    [m EXCEPT !.evidence = SetItem(Without(@, {root}), root, [ts |-> ts, source |-> key])]

\* The open hook of a credential path, allowed and for reading.
FileOpen(ts, slot, start) ==
    LET m == Found(ts, slot, start)
        t == m.tasks.map[slot]
        key == KeyOf(slot, start)
    IN  /\ Cardinality(opens \cup {key}) <= MaxOpens
        /\ FrameOf(ts, slot, start)
        /\ Leave(IF m.raised \/ t.blocked THEN m
                 ELSE IF Unresolved(m, t) THEN clear(m)
                 ELSE Remember(m, Family(slot, t), ts, key))
        /\ advisory' = None
        /\ forks' = Observed(Former(slot, start)).forks
        /\ opens' = Observed(Former(slot, start)).opens \cup {key}
        /\ ended' = ended \cup Former(slot, start)
        /\ UNCHANGED health

\* An attempt to connect to an address that is neither loopback nor a group's.
Connect(ts, slot, start) ==
    LET m == Found(ts, slot, start)
        t == m.tasks.map[slot]
        root == Family(slot, t)
        key == KeyOf(slot, start)
        precursor == m.evidence.map[root]
        idle == m.raised \/ t.blocked
        early == ~idle /\ root \in Keys(m.evidence) /\ ts <= precursor.ts
        match == ~idle /\ ~Unresolved(m, t) /\ root \in Keys(m.evidence) /\ ts > precursor.ts
    IN  /\ FrameOf(ts, slot, start)
        /\ Leave(IF idle THEN m
                 ELSE IF Unresolved(m, t) \/ early THEN clear(m)
                 ELSE IF match THEN [m EXCEPT !.evidence = Without(@, {root})]
                 ELSE m)
        /\ advisory' = IF match
                       THEN [root |-> root, source |-> precursor.source, key |-> key,
                             precursor_ns |-> precursor.ts, attempt_ns |-> ts]
                       ELSE None
        /\ Outlive(Former(slot, start))
        /\ ended' = ended \cup Former(slot, start)
        /\ UNCHANGED health

Fail ==
    /\ replay = "reading"
    /\ mem' = clear(mem)
    /\ replay' = "failed"
    /\ advisory' = None
    /\ Disturbed
    /\ UNCHANGED <<last_ts, health, ended>>

\* read_frame: a bad header or length, a truncated frame or an I/O error.
InvalidFrame == Fail

\* observe: an event too short for its header or its kind, or of another schema.
InvalidEvent == Fail

EndOfInput ==
    /\ replay = "reading"
    /\ replay' = "ended"
    /\ advisory' = None
    /\ UNCHANGED <<mem, last_ts, health, ended, history>>

Next ==
    \/ \E ts \in 0 .. MaxTs :
        \/ Backwards(ts)
        \/ \E loss \in Loss : HealthFrame(ts, loss)
        \/ Uncertain(ts)
        \/ \E slot \in Slot :
            \/ Worker(ts, slot)
            \/ \E start \in Start :
                \/ Exit(ts, slot, start)
                \/ ForkUnresolved(ts, slot, start)
                \/ ForkThread(ts, slot, start)
                \/ \E child \in Pid, birth \in Start : ForkChild(ts, slot, start, child, birth)
                \/ Other(ts, slot, start)
                \/ FileOpen(ts, slot, start)
                \/ Connect(ts, slot, start)
    \/ InvalidFrame
    \/ InvalidEvent
    \/ EndOfInput

Spec == Init /\ [][Next]_vars

-----------------------------------------------------------------------------
\* Types, and the bounds the regression tests assert after every replay: neither tasks
\* nor evidence outgrow max_tasks.
TypeOK ==
    /\ IsDict(mem.tasks, Slot, Task)
    /\ IsDict(mem.evidence, Key, Precursor)
    /\ Cardinality(Keys(mem.tasks)) <= MaxTasks
    /\ Cardinality(Keys(mem.evidence)) <= MaxTasks
    /\ last_ts \in 0 .. MaxTs
    /\ health \in Loss \cup {None}
    /\ replay \in {"reading", "failed", "ended"}
    /\ advisory \in Advisory \cup {None}

Alive(root) ==
    /\ SlotOf(root) \in Keys(mem.tasks)
    /\ LET t == mem.tasks.map[SlotOf(root)]
       IN  t.start = root.start /\ ~t.blocked /\ t.root \in {None, root}

\* Whatever reuse, eviction, exits and forks come together, tasks and evidence name a
\* root that is in the memory, of that generation, without threads and itself in no
\* other family. The test of the method root for an unresolved generation never fails,
\* and evidence never outlives its root.
FamilyRooted ==
    /\ \A r \in Keys(mem.evidence) : Alive(r)
    /\ \A s \in Keys(mem.tasks) :
         LET t == mem.tasks.map[s]
         IN  t.root # None => Alive(t.root)

\* Retention: evidence is kept in the order of its timestamps, so that expire, which
\* stops at the first fresh entry, leaves none behind that is older than the retention.
EvidenceFresh ==
    LET when(k) == mem.evidence.map[k].ts
    IN  /\ \A p \in mem.evidence.before : when(p[1]) <= when(p[2])
        /\ \A k \in Keys(mem.evidence) : last_ts - when(k) < Ttl

\* The least set that has the root and, with a creator, its children.
Descendants(root) ==
    LET keys == {root} \cup {f[2] : f \in forks}
    IN  {k \in keys : \A T \in SUBSET keys :
            root \in T /\ (\A f \in forks : f[1] \in T => f[2] \in T) => k \in T}

\* "These are verified creator edges": an advisory ties a connect to a credential opening
\* that was observed since the last disturbance of the stream, strictly before it and
\* within the retention, and both tasks descend from the named root by observed forks
\* whose creators have not ended since, by an exit or by the reuse of their PID.
AdvisoryJustified ==
    advisory # None =>
        /\ advisory.source \in opens
        /\ {advisory.source, advisory.key} \subseteq Descendants(advisory.root)
        /\ advisory.attempt_ns - advisory.precursor_ns \in 1 .. Ttl - 1

\* An exclusion follows its task from cgroup to cgroup: while a PID is excluded in one of
\* them, the same generation (or, as long as that is unknown, any) is excluded in all.
ExclusionFollows ==
    \A s \in Keys(mem.tasks), o \in Blocked(mem) :
        s[2] = o[2] /\ mem.tasks.map[o].start \in {None, mem.tasks.map[s].start} =>
            s \in Blocked(mem)

\* Another generation than the known one of slot s is seen in it, or born into it.
Reused(s) ==
    \E ts \in 0 .. MaxTs, start \in Start \ {mem.tasks.map[s].start} :
        /\ mem.tasks.map[s].start # None
        /\ \/ Other(ts, s, start) \/ FileOpen(ts, s, start) \/ Connect(ts, s, start)
           \/ ForkUnresolved(ts, s, start) \/ ForkThread(ts, s, start)
           \/ \E c \in Pid, b \in Start : ForkChild(ts, s, start, c, b)
           \/ \E p \in Slot, g \in Start : s[1] = p[1] /\ ForkChild(ts, p, g, s[2], start)

\* "A loss/reset must not erase already observed thread exclusions", and capacity must
\* not either: an excluded task stays excluded until its own exit, another generation
\* than its known one in its slot, or the exception that ends the replay. A child that
\* is excluded when it is forked is in a family all the same, and goes with it.
ExclusionKept ==
    [][\A s \in Blocked(mem) :
         \/ s \in Blocked(mem)'
         \/ replay' = "failed"
         \/ mem.tasks.map[s].root # None
         \/ \E ts \in 0 .. MaxTs, start \in Start : Exit(ts, s, start)
         \/ Reused(s)]_vars

\* The object between two events: bounded, families with a living root, evidence within the
\* retention and in order, exclusions complete.
MemorySound == TypeOK /\ FamilyRooted /\ EvidenceFresh /\ ExclusionFollows
=============================================================================
