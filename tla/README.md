# TLA+ models of the eBPF security sensor

This directory holds TLA+ models of the program under `agent/`, the TLC
configurations that check them on small instances, and TLAPS proofs of what they
say for instances of every size. `PROJECT.json` maps each definition to the lines
it models, lists the runs, the properties and the hazards they are about.

    tlc -workers 2 -config MCWriterQueue.cfg MCWriterQueue    # a run
    tlapm WriterQueueProofs.tla                               # a proof module

Paths below are relative to the repository; `EV/` stands for
`agent/ai/experiments/event-time-v1/src/`.

## 1. The system and its parts

BPF programs observe processes, files and the network on all CPUs. They put
samples into two kernel ring buffers, *host* and *network*. One user-space process,
the collector (`host-events`), polls the rings on its main thread, passes the samples
through a bounded queue to a writer thread, and writes NDJSON or framed binary
records. Python tools turn a finished binary capture into archives, datasets and
advisories.

    BPF programs --ring buffers--> main thread --event_queue--> writer --stdio--> capture
     (rate limiter,                 (poll loop)                                     |
      pending calls)                                                                v
      behavior_memory   detect2 -> log -> build_event_time_dataset   extract -> aggregate
                            \__ finalize __/         |                  archive
                                                evaluate_*

The tools after the capture are separate processes that meet in files only.

| Part | State | Operations | What is hard | What makes it correct | Models |
|---|---|---|---|---|---|
| Writer queue, `agent/src/user/host_events.c` 663-806 | circular array, head, tail, count, stopping, two drop counters | `enqueue_event`, `event_writer`, `event_queue_start`, `event_queue_finish` | two threads, one condition variable, a full queue, the reserve | FIFO, the reserve, no lost wake-up, the writer ends | `EventQueue`, `WriterQueue` |
| Collector main loop and output, `host_events.c` 289-522, 648-806, 1247-1309, 1718-1795 | ring contents, `stop`, `error`, `output_error`, flush batch, stdio buffer | signal handler, poll, callback, periodic and final HEALTH, `write_event`, `flush_output`, shut-down | signals between any two steps, sink errors in either thread, order of shut-down | no sample twice or vanished, order, complete clean exit, termination, exit status | `Collector` |
| Rate limiter, `agent/server.c` 57-170 | LRU map of `next_event_ns` | `rate_limit_allows` | CPUs race with compare-and-swap, stale clock, evicted cells | rate and burst hold in every window | `RateLimiter` |
| Behaviour memory, `EV/behavior_memory.py` | ordered dictionaries of tasks and evidence | `observe` and the methods it calls, replay | PID reuse, lost and late events, threads, eviction half-way through a fork | advisories only along live, verified creator edges | `OrderedDict`, `BehaviorMemory` |
| Archive tool, `EV/archive_raw_capture.py` | capture, archive, manifest, reservation directory | `archive_raw_capture` | concurrent invocations, failure, kill or crash at any step, a writer that is still active | the capture is never lost, artifacts match | `Archive` |
| Syscall sensors, `agent/server.c` 457-837, `agent/src/bpf/host_events.bpf.c` 307-374 | a record in task storage; LRU map of call numbers | `begin_call`, `complete_call`, `handle_syscall_enter`, `handle_syscall_exit` | entries and exits that are filtered, skipped or evicted, tasks that move, end or reuse a PID | an exit is paired with its own entry, also across an `execve` | `Syscalls` |
| Streaming detector, `EV/detect2.py` | time buckets, their bounds, the rotating log | read, parse, finalise, idle, interrupt, end of file | late events, idle finalisation, a cut at any byte | every event is scored once, a second record of a bucket is excused | `Detector` |
| Dataset building, `EV/build_event_time_dataset.py` | names, identities and opened files | list, stat, open, verify, read, label | the log rotates meanwhile, rename by rename; interval boundaries | files in order, rows complete and labelled by the definition | `Dataset` |
| Session finalisation, `EV/finalize_event_time_session.py` | lock file, five artifacts | `finalize` | concurrent invocations, kill at any step, changing sources | the dataset appears last, whole, and stays | `Session` |
| Process windows, `EV/extract.py`, `EV/aggregate.py` | queues per process, reservoirs, permission cache | window, label, sample, bucket | what belongs to which window, uniform sampling, losses | windows partition the syscalls, rows count each once | `Windows` |
| Offline evaluation, `EV/evaluate_*.py`, `EV/temporal_unlinks.py`, `EV/audit_unlink_buckets.py` | datasets and their hashes | audit, window, select, fit, calibrate, verify | history that crosses a split, edits during the evaluation | no leak, complete windows, tight cutoff, one version | `Evaluation` |
| Behaviour probe, `EV/probe_behavior_lineage.py` | fixture, cgroup, processes | `run`, `cleanup_job` | a signal between any two steps, workers that outlive their leader | nothing is left behind, the fixture outlives its readers | `Probe` |
| TCP state sensors, `agent/server.c` 839-1139 | per-socket storage | SOCKOPS and tracepoint programs | two sources for one socket | | not modelled, section 15 |
| Wire format, `agent/tools/` | none | encode, decode | | | not modelled |
| Collector start-up, `host_events.c` 533-646, 981-1681 | options, links, descriptors | parse, load, attach, open, drop privileges | | | not modelled |
| Training, benches, verification scripts | models, files | numerics, workloads | | | not modelled |

The hazards, each at its line, are in `PROJECT.json`; sections 3 to 12 say which
property answers which.

## 2. Modules

| Module | Content |
|---|---|
| `EventQueue` | abstract specification: a bounded FIFO with a reserve for priority events, which may be closed |
| `WriterQueue` | the circular array with mutex and condition variable; implements `EventQueue` |
| `Collector` | main thread, writer thread, rings and output; composed with `WriterQueue` by `INSTANCE` |
| `RateLimiter` | `rate_limit_allows` on several CPUs |
| `OrderedDict` | Python's `OrderedDict`, as operators; the order is a strict total order of the keys |
| `BehaviorMemory` | the correlation of credential openings with connects |
| `Archive` | invocations of the archive tool over a directory and a disk |
| `Syscalls` | how the host and network sensors pair entries and exits of system calls |
| `Detector` | the streaming detector and its log |
| `Dataset` | the reader of that log; extends `Detector`, so that both run side by side |
| `Session` | invocations of the finaliser over one session |
| `Windows` | a capture cut into windows and aggregated into rows |
| `Evaluation` | auditing, trailing windows, and what each protocol fits and tests |
| `Probe` | the behaviour probe, its workers and signals |
| `Numpy` | the three library functions the windows are computed with: `argsort`, `cumsum`, `searchsorted` |
| `DataLemmas` | facts about data that several proofs need: least elements, induction, existence of recursive functions, enumeration, sums, sorting and searching |
| `MC...` | instances for TLC (symmetry sets, state bounds, small sets) |
| `...Proofs` | theorems about the module of that name; `KernelProofs` is about `RateLimiter` and `Syscalls`, `DetectorProofs` about `Detector` and `Dataset`, `PublicationProofs` about `Archive`, `Session` and `Probe`, `OfflineProofs` about `Windows` and `Evaluation` |

The properties that the runs check are, where they belong together, conjunctions of named
parts; the parts are defined and explained one by one.

Definitions whose comment begins "Mutant of X" (or says "a mutation of X") are deliberately
wrong variants of X, one for each property of a run. Exchanging X for its mutant must make
TLC find that property violated: they document what each property is able to notice.
They are used by no specification.

## 3. The writer queue

`WriterQueue` has one action per critical section of `queue->lock`: `Refuse`, `Drop`
and `Store` are the outcomes of `enqueue_event`; `WriterSleep`, `WriterSpuriousWake`,
`WriterLeave`, `WriterTake` and `WriterGiveUp` are the writer's loop; `WriterWrote`,
`WriterFlushed` and `WriterFailed` say how an output call, made without the lock, came
out; `Stop` is the first half of `event_queue_finish`. Signalling is part of the action
that signals. `priority_reserve` is `capacity / 8`, at least 1, as in
`event_queue_start`.

Run `writer_queue` (`MCWriterQueue.cfg`, 505,360 states) uses the smallest capacity the
option parser accepts, 8, where the reserve is one place and both indices wrap:

- `NoLostWakeup`: the writer never sleeps while there is an event or a request to stop;
- `PriorityDropNeedsPriorityBacklog`: a priority event is dropped only if the reserve
  is full of priority events;
- `RefinesEventQueue`: array, indices and flags implement the abstract queue. The
  mapping reads the array from `tail`, `count` places on;
- `WriterProgress` (`StopEndsWriter` and `BacklogIsServed`): liveness, under weak fairness of the writer's
  steps. The writer is a POSIX thread that blocks only in the condition wait and in
  output calls; the assumption is that an output call returns. A spurious wake-up is
  possible but never assumed.

Bounds: events of one priority and one low type, and the number of drops counted. The
counters are never read by the queue's code.

**Proved** (`WriterQueueProofs`, for every capacity and every set of events):
`QueueTypes`, `ReserveRespected` (no low-priority event ever stands in a reserved place,
`LowBelowReserve`), `WakeupNotLost`, `PriorityDropJustified` and `QueueRefinement`. The inductive invariant `Inv` adds to the properties that `head` is
`count` places after `tail` (`IndexShape`), that exactly the places between them hold
events (`SlotsFilled`) and that the writer holds an event just while it writes
(`HandShape`). Without `IndexShape` neither the wrap of an index nor a step of the
refinement can be shown.

## 4. The collector

`Collector` takes the process from the moment the rings and the writer exist until it
exits. The main thread's places (`main`) are the loop test, `epoll_wait`, libbpf's walk
through the ready rings, the test of the poll's result, the HEALTH timer, and the
sequence finish, join, final HEALTH, final flush, cleanup. The callback is one action per
outcome of `enqueue_event`. `WriterQueueStep` is whatever the writer does inside the
queue; `WriterWrites`, `WriterFails` and `WriterFlushes` join a queue step with its
effect on the output.

External, modelled from their use: the kernel's side of a ring, libbpf's poll (a
callback error stops it, with the refused sample already consumed; otherwise it returns
the number of samples), stdio (a buffer that may be flushed at any write) and the sink.

Abstractions: a record is its type, its ring and its place in the order of production;
a record that validation rejects has type `UNSPEC`; a HEALTH record carries the loss
counters of the moment it was prepared. Of a positive `error` only the sign matters, so
it is 1; any errno of the sink is `EIO`. A sink failure lets a prefix of the buffer through
and loses the rest; a torn record counts as lost.

| Run | Instance | States | Shows |
|---|---|---|---|
| `collector_faults` | 2 rings, 2 samples (one kind invalid), up to 2 sink failures, fair | 224 k | `OneFate`, `AtMostOneRefused`, `FailureNeedsFault`, `Terminates` (after a signal, after a writer's failure) |
| `collector_self_test` | five polls, NDJSON, 1 sink failure, fair | 377 k | `CleanExitComplete`, `StreamOrder`, `SelfTestTerminates` |
| `collector_shutdown_loss` | capacity 8 | violation | finding 1 |
| `collector_exit_status` | capacity 8, self-test | violation | finding 2 |

A queue of 2 (a scaled-down capacity, one place reserved) is what makes drops,
reservation and wrap-around happen within a few samples. Nothing in `Collector` depends
on the capacity other than through `WriterQueue`, whose run and theorems cover the
real ones. The two violations are found at capacity 8, which the program accepts.

Fairness: `WF(MainStep)`, since `epoll_wait` has a timeout (100 or 250 ms) and the main
thread otherwise blocks only in the mutex and in the join; `WF(WriterStep)` as above.
Nothing is assumed of the sensors, the signal or the sink.

**Proved** (`CollectorProofs`, every capacity, every set of rings, all bounds):
`CollectorTypes`; `QueueComposition`, that every step of the collector is a step of
`WriterQueue` or leaves the queue alone, so that the queue's theorems hold inside the
collector (`CollectorKeepsReserve`); `FailureJustified`; `ShutdownLosesAtMostOne`. The
invariant is `TypeOK /\ QP!Inv /\ StatusInv /\ RefusedInv`. `StatusInv` follows an error
from the sink to `error`, through `output_error`, the writer's end and the refusal by a
stopped queue, and says that `-EINTR` is only ever seen between a poll and its test.
`RefusedInv` says that after a refused sample the main thread is past the rings for
good.

`EverySampleOneFate`, `OutputInOrder` and `CleanExit` prove `OneFate`, `StreamOrder` and
`CleanExitComplete`, from two more invariants. `StreamInv` reads the output, the buffer, the
writer's hand and the queue as one sequence, `Stream`. `InOrder(Stream)` and `Fates` are the
properties: the stream is in the order of production ring by ring, and every consumed sample
is in it, discarded by validation, refused or lost by the sink, and in only one of these. They
are not inductive alone:

- `RingInv` says that a ring holds its samples in the order of production, all later than
  those consumed from it: this makes a sample newly stored the last one of its ring, and new;
- `HealthInv` says that no HEALTH event of the stream is ahead of the counters, so that one
  prepared now is behind none;
- `WriterInv` says when the writer has ended, and that the main thread passes the join only
  then, so that the final HEALTH event goes to the end of a stream without queue and hand.

A failing sink cuts the buffer at an arbitrary place. What the steps of the writer and the sink do to
the stream is stated once (`Moves`): what is left is in order, and what is gone is counted as lost.
`ExitInv` follows the shutdown from the final HEALTH event through the flush to the exit. Both
invariants were checked with TLC on two rings, binary and NDJSON, before they were proved.

`OutputErrorReported` (finding 2) is about the error that `output_error` still holds at the
exit. A binary write stores its own result there (`host_events.c:368`), also its success: an error
that a batched flush had stored is forgotten if the main thread did not poll in between. The
samples that were lost with it are `lost` in `OneFate`, but an exit status of 0 does not say that
there were none, and no property claims it.

**Only model-checked**: the three liveness properties.

## 5. The rate limiter

Each action of `RateLimiter` is one access to memory that CPUs share: look-up, insertion
(which fails if another CPU was first), second look-up, load, compare-and-swap. `now` is
read once per call. The LRU map is external: its cells are preallocated, and `Evict` may
take a cell from a key while another CPU still holds the pointer. `Interval` and `Burst` are
as `host_events.c` computes them; an interval of 0 means that no limit is configured.

Run `kernel`, first part (2 CPUs, 2 keys, **1 cell** so that eviction under a pointer happens,
interval 2, burst 3, 4 attempts, time up to 3):

- `WindowBound`: in every window of time, beginning at an arbitrary moment `mark`, calls
  are granted at most the elapsed time plus the burst while a cell belongs to one key;
- `RetryOnlyAfterRival`: an attempt is lost only to another CPU's change, so a call is
  denied for contention only after four of them.

**Proved** (`KernelProofs`, any number of CPUs, keys, cells and attempts, any interval
and burst): `RateTypes`, `RateRespected`, `RetriesJustified` and `TokensAreExclusive` (two admissions
never use the same token, `TokensNotShared`). The
invariant adds that no call's clock is ahead of time (`ClockRead`), that a value about to
be swapped passed the budget test (`BudgetChecked`), that no cell reaches further into the
future than the burst (`Horizon`), and that quota granted since `mark` has been paid for
by the cell's value (`Paid`); `Horizon` and `Paid` together are the bound.

The key has the TGID, the protocol and the port besides cgroup and event type
(`server.c:127-133`), as `agent/README.md:161` and `PROJECT_REPORT.md:888` say; the usage text
(`host_events.c:964`, "Limit each cgroup/event type") does not: two processes of one cgroup
have the whole rate each. The theorems are about one key.

Not covered: after an eviction a key starts with a full burst. The code accepts this
(`BPF_MAP_TYPE_LRU_HASH`), and the bound is therefore per stay of a key in the map.
Time values do not overflow 64 bits for 584 years and are unbounded here.

## 6. The behaviour memory

`mem` is the object: tasks, evidence and whether a method has raised. The operators
`clear`, `expire`, `drop_family`, `task`, `fork`, `block_thread` have the names of the
methods, and map a memory to the memory the method leaves. `Recheck`, `MakeRoom` and `Insert`
are the three parts of `task`. The actions are the ways through `observe`: `Backwards`,
`HealthFrame`, `Uncertain`, `Worker`, `Exit`, four outcomes of a fork, `FileOpen`, `Connect`,
`Other`, and the exceptions `InvalidFrame` and `InvalidEvent` that end a replay.

Eligibility of an opening (path, result, flags) and of a connect (address) is a choice
of the environment. Birth tokens are times; the code compares them only for equality, and
the model orders them only to say which frames a kernel can produce: a task is silent
after it has ended, generations of a slot come one after the other, and a task is born
before it opens a file or forks. On streams that break these rules `AdvisoryJustified` does
not hold, and is not claimed; the other properties do not
depend on them. The variables `ended`, `forks` and `opens` are history.

| Run | Instance | States | Shows |
|---|---|---|---|
| `behavior_families` | 3 PIDs, 1 generation, 2 forks, 2 openings, retention 2 | 48,536 | `MemorySound`, `AdvisoryJustified` |
| `behavior_generations` | 3 PIDs, 2 generations, max_tasks 2, 1 fork, 1 opening | 20,989 | `MemorySound`, `AdvisoryJustified` when PIDs are reused |
| `behavior_capacity` | 2 cgroups, 2 PIDs, 2 generations, max_tasks 3, HEALTH losses | 75,144 | `MemorySound`, `ExclusionKept` with moves and evictions |

`MemorySound` is `TypeOK` (which bounds the memory by `max_tasks`), `FamilyRooted`,
`EvidenceFresh` and `ExclusionFollows`.

- `FamilyRooted`: tasks and evidence name a root that is in the memory, of that
  generation, without threads. The test for an unresolved generation in `root` is
  therefore defensive: it never fires.
- `EvidenceFresh`: the dictionary of evidence is in the order of its timestamps, which
  is what `expire` relies on when it stops at the first fresh entry.
- `AdvisoryJustified`: source and target of an advisory descend from its root by
  observed forks whose creators live, the opening was observed since the last
  disturbance, strictly before the connect and within the retention.
- `ExclusionFollows`: a task excluded in one cgroup is excluded in all of them, although
  the table of tasks is keyed by cgroup.
- `ExclusionKept`: neither a reset nor an eviction forgets a thread exclusion; it ends
  with the task's exit or with a known other generation. A first birth token after an
  unknown one does not end it.

Three PIDs are needed for a family with a root, a creator and a leaf; two generations for
reuse; a `MaxTasks` below the number of slots for eviction in the middle of a fork. A
replay ends, so these runs do not check for deadlock. The
summary's counters decide nothing and are left out.

**Proved** (`BehaviorMemoryProofs`, any number of cgroups, PIDs and generations, any
`max_tasks` and retention, any stream): `MemoryIsSound` (`MemorySound`) and
`ExclusionIsKept` (`ExclusionKept`). The invariant `MemoryInv` speaks of one memory, so that
it can be followed through the methods: `MemOK` (typed and bounded; every root that a task
or evidence names is alive; `Followed`, the exclusions cover every cgroup; `Dated`, only
excluded tasks are of an unknown generation), `Fresh` (the evidence), and that a memory
whose method raised has ended the replay. Each method has a lemma for what it leaves
(`ClearFacts`, `ExpireFacts`, `DropFacts`, `MakeRoomFacts`, `TaskOK`, `BlockFacts`, `ForkOK`,
`RememberOK`), over lemmas about the dictionary. `Dated` is what lets a first birth token be
filled in: without it a task of unknown generation might be followed, and gain a
generation that an exclusion in another cgroup speaks of. In `fork` the look-up of the child may drop
the family that the parent belongs to, clear the memory or evict; the lemma rests on the
test after it (`slot \notin Keys(held.tasks) \/ Unresolved(held, parent)`), and on the key of
a root carrying its generation, so that nobody names the child as root while the look-up
meets its slot. Bounded evidence follows from roots being alive: each is the key of a
task of its own.

`AdvisoriesJustified` (`AdvisoryJustified`) adds `AdvisoryInv`, which ties the memory to what was
observed (`Tied`, checked with TLC first): `Lineage`, every member of a family is reached
from its root by forks of *present members that are marked as creators*; `Sourced`, the source
of evidence is an observed opening, reached likewise, and is a member still or has left as a
leaf, ended without having forked; `Childless`, a task that `Exit` takes for a leaf has not
forked. `AdvisoryJustified` alone says nothing of the memory before the advisory, and
`Lineage` over all forks would not survive a reset or the reuse of a key. The argument: a
method keeps a family whole or drops it with its evidence (`Whole`), so `Tied` survives every
method; and when a task that has left the memory ends, the history forgets only forks that
no family there depends on (`OutliveTied`). The two rules of the stream that are used are that a task is silent after it
has ended and is born before it opens a file or forks. `Descendants` is the least set that
holds the root and, with a creator, its children, which needs no induction along forks.

A limit of the code that the model shares: a fork by an excluded parent returns
before the child is looked up, so the reuse of the child's PID is noticed only at
the child's next event.

Another limit, against the comment "never evict a known thread exclusion"
(`behavior_memory.py:116`): the search for a victim passes over excluded roots only. Let
`(c1, p)` be excluded while its birth is unknown and `(c2, p)` be known; a fork that brings
a new generation of `p` in `c2` then yields an excluded child inside a family, and a full
memory evicts that family with the exclusion in it. `ExclusionKept` is therefore about
exclusions outside families, which is where `block_thread` puts them.

What a move to another cgroup does to a family: `ExclusionFollows` says that an exclusion is not
left behind, but nothing says that the family is gone. A PID that is new in its cgroup clears
the memory; where the new cgroup still has an entry of an earlier generation of the PID, for
example an exclusion, the move is taken for a reuse (`drop_family`), and the family in the old
cgroup stays until the process ends. It is harmless as far as `AdvisoryJustified` goes, since a
root and its members are of one cgroup.

## 7. The archive tool

`dir` is the directory that processes see and `disk` what a crash of the machine is sure to
leave: a name is durable once the directory is synced (or by chance before), contents
once the file is. File contents are abstracted to the version of the capture they hold
or describe; `Garbage` is what remains of a file that was not synced. Every invocation
runs `Stat`, `_refuse_existing`, `Reserve`, `Hash`, `Compress`, `Verify`, `Record`,
`LinkArchive`, `LinkManifest`, `Unstage`, `SyncDirectory`, `LastCheck`, `Unlink`; at each
step it may raise (`Raise`, then `Cleanup`, the `finally` clause), be killed (`Kill`), or the
machine may crash (`Crash`). `Change` is a collector that still writes.

The capture does not change between the last check and the removal: the tool's
documentation asks its user to stop the collector and wait for it, and no check can close
that gap. Everywhere else a change may happen.

In run `offline` (3 invocations, 1 change, 2 crashes or kills):

- `ArtifactsSound`: `CaptureKept`, the last version is there, raw or archived with its manifest, also after
  any crash; and `ManifestMatches`, when archive and manifest both exist they belong together;
- `ReservationSound`: `ReservationExclusive`, one invocation at most stages and publishes, and
  no other removes its reservation; and `ReservationReleased`, it outlives its owner only
  after a kill or a crash.

**Proved** (`PublicationProofs`, any number of invocations, changes and crashes):
`ArchiveTypes`, `ArchiveIsSound`, `OneArchiver`. The invariant: the raw
file is the last version or is gone, and when it is gone, in `dir` or on `disk`, both hold
the archive (`SourceInv`); what an invocation has established at each step (`ProcInv`);
published files are synced, and a manifest is without its archive only after a crash, when
nobody is past the test for existing artifacts (`NamesInv`). The parts of
`ReservationSound` are inductive on their own.

## 8. The syscall sensors

`Syscalls` models the four programs that run on entry and exit of a system call. A call is
known by its number; the host sensor's map holds the call whose `syscall_id` is stored, the
task's storage the call whose record is under construction. `target` says whether the task
matches the filter: both sensors ask on entry, the host sensor asks again on exit and
returns before it deletes, the network sensor does not ask. What `complete_call` may do
with a record (filter, limit, lose, drop, submit) is a choice; each way ends in
`delete_pending`. Tracepoint programs may be skipped by the kernel, raw ones not.

A task is a `task_struct`, to which the storage of the network sensor belongs; the map of the
host sensor has the `pid_tgid` as its key, which is not constant: when a thread that is not the
leader executes a program, the other threads end, and it returns under the leader's number
(`TaskExecs`). `Leader` says which `pid_tgid` are of one process; a new process gets one of
which no thread is left. `handle_syscall_exit` is two actions, `TaskLooksUp` and `TaskReturns`:
between the look-up and the reading through the pointer `EntryEvicted` may give the element to
another key, and then any number may be read (`torn`).

Run `kernel`, second part (2 tasks, 3 PIDs of which two are of one process, 2 calls of five kinds,
after the sensors are attached to running tasks; both parts together 1,623,143 states). Two calls
are enough for each exception to happen: a stale number needs one call that leaves it and one
that finds it. The theorems hold for any number.

`ExitsPaired`, of the host sensor, is the conjunction of

- `ExitNamed`: an exit event names the returning call, or has `MISSING_ENTRY`, or names a
  call whose own exit the sensor did not look at, or looked at under another PID. The
  exceptions are real. A task leaves the filtered cgroup inside a call and is back before a
  later one returns; a task ends in `exit_group`, and the next owner of its PID returns from
  fork; a thread enters `execve`, returns under its leader's number, and the next thread with
  the old one finds the entry. None of these events is flagged;
- `MissingJustified`: `MISSING_ENTRY` only if the entry was not recorded, was evicted, or is
  under the PID that the task had before an `execve`;
- `NamedOnce`: no call is named at two exits.

`ExitNamed` and `NamedOnce` except the exits whose element was evicted under the pointer: what
these name is arbitrary. `RecordsPaired`, of the network sensor, consists of `RecordedOnce` and

- `RecordOfItsCall`: a network record is of the returning call, except when an exit program
  was skipped and the next call of that type was entered outside the filter.

**Proved** (`KernelProofs`, any number of tasks, PIDs, processes and calls): both, and the types.
The invariant says whose numbers the map and the storage can hold: that of the call in
progress, or of one whose exit went unseen, or was renamed (`StoredOf`), or was skipped
(`PendingOf`); each at one place and not given out before (`StoredFresh`, `PendingFresh`); a
recorded call in progress that was not renamed is still stored (`InProgress`); and what a look-up
found is still stored under the task's PID, or the exit is `torn`.

Rate limiter and syscall programs share no state in the model: `kernel` runs one or the
other, and so covers both.

## 9. The detector and its dataset

`Detector` reads frames in chunks (`select`, `read1`, parse), keeps open buckets with their
bounds, and finalises those below the cutoff, those silent on the wall clock, and the rest
at the end. A keyboard interrupt may come at every step, inside `finalize` too; a second one
ends the program. A chunk may end inside a frame, a frame may be invalid. A record of the
rotating log is the set of its events and their bounds.

The log is a `RotatingFileHandler`, modelled from its use at `detect2.py:67` (external). `chain`
has every file ever written, `names` says which of them has which suffix. When a record is due
and the base is full, `StartRotation` begins `doRollover`, which works down the suffixes:
`SkipName`, `RemoveFile` and `RenameFile` are its tests, removals and renames, one per action, and
`OpenBase` makes the new base. The bucket of the record has left the table by then, as in
the code; an interrupt may end a rotation half-way, and the next record then opens a base.
`OldLog` is the log of an earlier run, to which the handler appends. It has HEALTH records only here:
the properties are about the events of this run.

`Dataset` adds the reader of `build_event_time_dataset.py`, path by path: `ListPath` asks whether
a name exists, `StatPath` takes the identity of its file, `OpenPath` opens it, `VerifyPath` compares
both with what the name means then. Any step of the detector, and so any rename, may fall between
two of these; a name that is gone is an exception (`Fail`). It labels by a sweep over the
session's timeline. A file's identity is its place in `chain`: that the inode number of a removed
file is given to a later one before the reader compares is left out.

Run `detector` (buckets of 2 units, grace 1, 3 frames, log files of 1 record, 3 of which exist at
a time, two of them at the start; 1,215,766 states). A reader runs beside the detector for streams
of up to two frames (`Beside`), and after it for longer ones: with two old files that is enough for two
rotations, hence for a file to be renamed twice and removed.

- `RecordsExact`: `ScoredOnce` and `EndScoresAll`, no event is scored twice, and all are at a
  regular end, except those of at most one bucket whose `finalize` an interrupt cut;
  `BoundsExact`, the bounds of a record are those of its own events;
- `SecondRecordExcused`: a bucket has two records only if it was silent or the late ones
  came more than the grace period behind;
- `TailScored` (liveness): on a silent pipe every bucket is closed. Fairness: the program
  runs on when it can and the wall clock advances; `select` has a timeout. Nothing is
  assumed of the stream;
- `ReadsInOrder`: the files are read in the order they were written in, none twice, and two of
  adjacent suffixes follow each other without a gap. That the whole chain is read
  (`WholeChainRead`) is not true: run `dataset_rotation`, finding 3;
- `RowsComplete`: when the detector has ended and every file with the record of a bucket was
  read, none rotated away or missed, a kept row has all events of its bucket;
- `SweepCorrect`: the sweep labels as the docstring's definition does.

Three frames allow a bucket, one that passes it and a late event; files of one record make
every record rotate.

**Proved** (`DetectorProofs`, every bucket length, grace, idle time, log size and number of
frames): `DetectorSafe` (types), `DetectorRecords` (`RecordsExact`), `SecondRecord`
(`SecondRecordExcused`), and `ReaderSafe` (`ReadsInOrder`, with the detector
rotating). The invariant says of an open bucket that its events belong to it, are neither
scored nor lost and span its bounds (`OpenInv`, `BoundsInv`), that every accepted event is
scored, lost or in an open bucket (`FateInv`), that the records partition the scored events (`RecordInv`), and
that a bucket open again after a record of it was silent or has late events only
(`ReopenInv`). `SingleRecord` is what the dataset relies on when it drops duplicates: a bucket with
one record has all its scored events in it.

`ReaderSafe` rests on two invariants. `NamesInv`, of the log at every step of a rotation: a greater
suffix means an older file, the base is the newest, and every file newer than a named one has a
name. `ReaderInv`, of the reader: what a path meant at its `stat` is older than whatever a
smaller suffix means now (`Older`); if the path still means that file, the paths after it
turned out to mean newer files, the one of the next suffix the next file (`Linked`); and what was
verified stays so when the names move on (`Verified`). The comparison of identities is what turns
`Linked` into `Verified`; it cannot notice a path that was never listed.

`SweepRight` (`SweepCorrect`) and `RowsWhole` (`RowsComplete`) are about the reader, for every
log and timeline. The sweep is a recursive function of the number of buckets passed; its
invariant `Swept` says of that prefix what the docstring says of all: which bucket overlaps
which intervals, and with whom. It needs the intervals to be non-empty, ordered and disjoint, which
`TimelinesAssumption` states and `read_timeline` enforces by its refusals. For the rows, the
files read hold the records of the log in their order, a kept bucket has just one record among
them, and by `SingleRecord` that record has all its events.

**Only model-checked**: `TailScored` (liveness).

## 10. Session finalisation

`Session` has one action per step of `finalize`, in its order: lock, artifacts, snapshot,
closed, timeline, audit, collection, comparison, diagnostic, replay, comparison, build,
health, comparison, statistics, audit, manifest, last comparison, link, unlink, unlock.
Each may raise; an invocation may be killed; the sources may be opened, written, closed or
archived meanwhile, and a foreign file may take the dataset's name. A version of the sources
has at most one defect, which the check for it finds.

- `LockSound` (`OneFinaliser`, `LockReleased`): the lock file is a lock, and is left only by a
  kill;
- `PublicationSound` (`PublishedWhole`, `ReturnedPublished`): a dataset published by `finalize` has statistics, audit and manifest
  beside it, of the same invocation and version, and the version has no defect; who
  returns has published;
- `PublishedKept`: nothing later changes any of them.

**Proved** (`PublicationProofs`, any number of invocations, versions and defects): the three, and
the types. The argument: versions only grow, so if the sources are at the last comparison
what they were at the snapshot, they were the same at every reading in between (`Fresh`);
under that condition each step has established its part (`Found`), and what was written is
there in any case (`Own`). Once a dataset is published, whoever still works is at the test
for artifacts and will refuse (`NobodyWorks`).

## 11. Windows and evaluation

`Windows` follows `extract.py` frame by frame: queues of syscalls and details per process,
windows of fixed length, the unit of a timeline, and the four kinds of output with reservoir
sampling; then `aggregate.py` bucket by bucket, with the cached answers of a file system
that changes. Properties: `WindowsExact` (`WindowsPartition`, `DetailsInWindow`,
`UnitContainsStart`, `LossRefused`: a capture that reports a loss gives no dataset, unless
`--ignore-loss` is given), `SampleUniform` (over all draws, every subset is equally
often the sample) and `RowsExact` (`RowsConserve`, `AttackWins`, `PermissionsAgree`). Two observations: `label_of` is given the
start of the *process* (`extract.py:139`) although its docstring says the start of the
window, so `UnitContainsStart` speaks of the process; and `n_uniq` of slim input adds the
distinct counts of windows, so `RowsConserve` claims a bound, not equality.

`Evaluation` takes a corpus of sessions through audit, hashing, two readings, joining,
selection, scoring and verification, while files may be edited. A classifier is any of the
given functions from features to scores. `WindowsComplete` compares the trailing sums, which
the code computes by cumulative sums and binary search, with the count over the capture's
seconds. `NoLeak` has two parts. `NoHistoryLeak` says what purging is for: change the attacks that must not be
known, and no feature of a row used for fitting or calibration changes. `NoSessionLeak` says of
each fit of all five protocols that no session is scored with a model fitted on rows of it, and
that the rows a threshold comes from, like those its model was fitted on, are of other sessions
than those the protocol tests. Nothing is said of the features of test rows, which may
have any history. `CutoffTight` is about `normal_cutoff`, whose `math.floor(target_fpr * n)`
is a product of doubles: where the exact product is whole, the double may be just below it (28
for 0.29 of 100), and `allowed_fp` has both numbers. The rate is never above its target; a lower
cutoff exceeds it, or in that case may just reach it. So "smallest" in the docstring is true but
for one score. (For the default 0.01 and for `TARGET_FPR`, 0.005, the product is exact enough for
every number of rows below a million.) `ResultOfOneVersion` is a
property of `evaluate_temporal_unlinks.py`, the only protocol that compares its hashes again
at the end. The others hash after reading (`evaluate_normal_only.py:79`), so that their result
may name a version that they did not read.

**Proved** (`OfflineProofs`), of `Windows`, for every capture, command line, window length,
timeline and changes of the file system:

- `WindowsRight` (`WindowsExact`). Its parts say where events ended up; the invariant `WInv`
  must say where they are under way. While a process has a queue, the queue holds, in
  order, what no window of it has, the details queued are those after the end of its last
  window, and all its windows are full (`QueueGood`). After its flush too few are left
  (`Queues`). `Closes` shows that a queue cut into a window leaves such a state. The units
  need `TimelineAssumption`: intervals in order (`tl.sort()`, `EV/extract.py:101`) that do not overlap
  (`EV/finalize_event_time_session.py:147-149`). `extract.py` itself accepts an overlap and may
  then give no unit to a process that started in one;
- `RowsRight` (`RowsExact`). `RInv` adds that each line without sampling is the record of one
  labelled window, by a bijection (`Matched`), that a row has the counts of its bucket
  (`RowGood`), and that what a row saw of the file system is still in the cache (`Seen`). The
  sums follow as the buckets partition the lines;
- `SampleRight` (`SampleUniform`), in two halves. `SInv` says that a reservoir has met as many
  windows as are counted, holds only these, none twice, and as many as it can: this makes the
  numbers drawn those of algorithm R. `ReservoirsFair` says of that algorithm, for every
  number of records and every capacity, that each set is left by as many draws as any other.
  The argument counts: if each of the sets for n records is left by c draws, each of those for
  n + 1 is left by c (n - cap + 1). A set without the last record was there before, and
  that many numbers miss the reservoir (`LeavesWithout`); a set with it
  had one of n - cap + 1 other records in its place, and one number hits that place (`LeavesWith`).

Of `Evaluation`, for every corpus that `CorporaAssumption` describes (what the audit refuses is
not assumed but tested in the model) and any number of edits:

- `OneVersion` (`ResultOfOneVersion`), by the argument of section 10: versions only grow, so
  equal versions at both ends are equal in between;
- `WindowsWhole` (`WindowsComplete`). `argsort` gives a permutation, `searchsorted` on the sorted times
  the place before the window, and the difference of two prefix sums is the sum over the
  rows in between (`CumsumSpan`). Seconds without a row have no attempts, as `Accepted` refuses others;
- `ThresholdTight` (`CutoffTight`), by counting the scores above a sorted one, whichever way the
  product was rounded;
- `NothingLeaks` (`NoLeak`): `SessionsApart` is `NoSessionLeak` for all five protocols; for
  `NoHistoryLeak`, a row kept by `history_clean` has no forbidden row in any of its windows, so
  that their sums are the same whatever the forbidden rows count.

## 12. The probe

`Probe` models `run` with its `try`/`finally`, `cleanup_job` and the worker's leader and
child. A signal raises at any step; before the handler is installed it ends the program.
`slipped` marks a signal between the start of a process and the assignment of its handle, or
inside the `finally` clause; `undone` a cleanup that itself failed. The property is `CleanupSound`. These two are
the exact exceptions of its parts `NoOrphans`, `FixtureOutlivesWorkers` and
`CollectorOutlivesWorkers`: the code
has no protection against them. A child started in the first of these gaps
(`probe_behavior_lineage.py:142`) is left running; the property shows that nothing else is.
`JoinEnds` says that the one wait without a timeout is for
a process that has ended or was killed, and `ResultComplete` that `probe.json` is written only
after everything ran and was taken down.

**Proved** (`PublicationProofs`, any modes, jobs and number of signals): `ProbeSafe`, that is
`CleanupSound`. The invariant `ProbeInv` is the types, the parts of the property
(`ProbeStated`), and what each place of `run` and of the `finally` clause has established about the worker,
the job, the fixture, the collector and the result (`ProbeFound`).

Run `offline` checks sections 7, 10, 11 and 12 together: the programs share no variable,
each starts and runs while the others stand still, so that 378,237 states are the sum of
their state spaces and one run answers for all. Bounds: see `MCOffline.cfg`; two finalisers
and one change of the sources; captures of four frames over two processes with windows of
two; sessions of four seconds, of every shape for the first one; two modes and two signals.
The programs end, so deadlock is not checked.

## 13. Findings

1. *A sample refused at shut-down is counted nowhere* (run `collector_shutdown_loss`,
   `host_events.c:771`). Once `stop` is set the callback returns `-EINTR`; libbpf has already
   consumed that sample. `PROJECT_REPORT.md` 904-916 lists the places where events can be
   lost, each with a statistic, without this one. `AtMostOneRefused` shows, and
   `ShutdownLosesAtMostOne` proves, that it is at most one sample per run.
2. *A failed final write can end with status 0* (run `collector_exit_status`,
   `host_events.c:1783`). `error` still holds the positive number of samples of the last poll,
   so `!error && state.output_error` is false and the process reports success.
3. *A rotation while the names are asked for hides a log file* (run `dataset_rotation`,
   `EV/build_event_time_dataset.py:48`). Between two renames of one rotation `.1` does not exist: the
   reader lists `.2` and the base only. When the rotation is over, `stat`, `open` and the
   comparison at lines 57-61 agree on `.2` and on the new base, and the file that is now `.1` is
   not read, against the comment "Open the whole rotation chain before parsing it" (line 51). No
   error is raised. The buckets in that file have no row, and a second record in it
   goes unnoticed.

## 14. What the proofs rest on, and what stays with TLC

The assumptions are the named `ASSUME`s of the modules: capacities, bounds and intervals
are natural numbers (positive where the code rejects 0), and marker values like `NoEvent`
lie outside the sets they are distinguished from. TLC evaluates them in every run.

Proofs are by one inductive invariant per module, with one lemma per group of actions; the
longer invariants (`Session`, `Syscalls`, `Probe`, the collector's stream) were checked with TLC
first.

The prover cannot use an induction theorem whose parameter is an operator, so induction over
data is done with sets: `Upwards` says that a set with 0 that has k + 1 with each k has all
numbers up to n, and `Minimum` gives the least counterexample. A recursive function is a
`CHOOSE` until one is shown to exist; `Recursion` and `FoldsExists` do this for functions on
`0 .. n` and for sums over finite sets, and two that satisfy the same equations agree by
`Upwards`. On these rest the facts about sums (`SumUnion`, `SumImage`, `SumCounts`...), sorting
(`ArgsortFacts`), prefix sums and binary search.

Only model-checked is liveness under fairness: `WriterProgress`, the collector's and the
detector's. It is beyond the prover. The three runs that expect a violation are findings
(section 13), and their properties are false.

## 15. Not modelled

- *TCP state sensors.* SOCKOPS and tracepoint exclude each other by a flag that `main` sets
  after attaching. Whether a change around that moment is reported once, twice or not at all
  depends on the order in which the kernel calls the two, which is not in this repository.
- *The other programs of the host sensor* fill one event from the current task and keep no
  state; *the cgroup programs* of the network sensor copy cookies into socket storage.
- *Collector start-up*: a straight sequence before the threads exist.
- *Wire format, decoder, sample generator and validator*: stateless byte layouts.
- *Training, benches, `verify_*`, `probe_cpu_context`, `sample_cgroup_cpu`*: numerics and
  measurements.

## 16. What could come next

All safety properties that the passing runs check are proved. Open are the pipeline of ring,
queue and writer as an implementation of one lossy FIFO, and the stateless parts of section 15.
