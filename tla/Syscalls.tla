------------------------------ MODULE Syscalls ------------------------------
(***************************************************************************)
(* How the sensors pair the entry of a system call with its exit.          *)
(*                                                                         *)
(* The host sensor (agent/src/bpf/host_events.bpf.c) remembers the number  *)
(* of the call in the LRU map inflight_syscalls, by pid_tgid; at the exit  *)
(* it looks the entry up and then reads what the pointer points to. The    *)
(* network sensor (agent/server.c) keeps a record under construction in    *)
(* the task's storage. Both ask at the entry whether the task matches the  *)
(* filter; only the host sensor asks again at the exit.                    *)
(*                                                                         *)
(* The kernel is modelled from how the sensors use it. Tasks change cgroup *)
(* at any time, exit_group does not return, the first exit of a new task   *)
(* is that of the fork that made it, PIDs are used again, a thread that    *)
(* executes a program takes the PID of its leader, the LRU map gives the   *)
(* place of an entry to another one, and a tracepoint program may be       *)
(* skipped.                                                                *)
(***************************************************************************)
EXTENDS Integers, FiniteSets

CONSTANTS
    Task,       \* task_struct objects; one is used for one task at a time
    Pid,        \* values of bpf_get_current_pid_tgid
    Leader,     \* Leader[p]: that of the leader of the process; its own for a leader
    NoPid,      \* no task
    Sysno,      \* system calls
    Exec,       \* those that execute a program: execve and execveat
    Forking,    \* the one a new task returns from first
    Fatal,      \* those that do not return: exit and exit_group
    TypeOf,     \* TypeOf[s]: the network event type of the call, or NoType
    NoType,
    MaxCalls    \* bound: calls that are made

ASSUME SyscallAssumption ==
    /\ Forking \in Sysno \ Fatal
    /\ TypeOf[Forking] = NoType
    /\ \A s \in Fatal : TypeOf[s] = NoType
    /\ MaxCalls \in Nat
    /\ NoPid \notin Pid
    /\ Leader \in [Pid -> Pid] /\ \A p \in Pid : Leader[Leader[p]] = Leader[p]
    /\ Exec \subseteq Sysno \ Fatal /\ \A s \in Exec : TypeOf[s] = NoType

CallId == 1 .. MaxCalls     \* a call is known by its number, from 1
NoCall == 0
NotAsked == -1

VARIABLES
    pid,        \* pid[t]: the task's pid_tgid, or NoPid
    in_call,    \* in_call[t]: the call the task is in, or NoCall
    target,     \* target[t]: the task matches the configured filter
    made,       \* the number of calls made
    sysno,      \* sysno[c]: which system call it is
    inflight_syscalls,      \* [pid]: the call whose number is stored, or NoCall
    syscall_id,             \* [t]: what the pointer found at the exit led to: a call,
                            \* NoCall for a null pointer, or NotAsked outside of the program
    active_network_calls,   \* [t]: the call whose record is in task storage, or NoCall
    exits,      \* the exit events the host sensor submitted
    records,    \* the records the network sensor submitted
    recorded,   \* history: calls whose number was stored and not evicted
    unseen,     \* history: calls whose exit the host sensor did not look at
    torn,       \* history: calls whose entry was evicted between look-up and reading
    renamed,    \* history: calls in which the task took the PID of its leader
    begun,      \* history: calls the network sensor looked at on entry
    skipped     \* history: network calls whose exit program did not run

kernelVars == <<pid, in_call, target, made, sysno, renamed>>
hostVars == <<inflight_syscalls, syscall_id, exits, recorded, unseen, torn>>
networkVars == <<active_network_calls, records, begun, skipped>>
cvars == <<kernelVars, hostVars, networkVars>>

Alive(t) == pid[t] # NoPid
TypeOfCall(c) == TypeOf[sysno[c]]

\* The sensors are attached while tasks run.
SyscallInit ==
    /\ pid \in [Task -> Pid \cup {NoPid}]
    /\ \A t, u \in Task : t # u /\ Alive(t) => pid[t] # pid[u]
    /\ in_call = [t \in Task |-> NoCall]
    /\ target = [t \in Task |-> Alive(t)]
    /\ made = 0
    /\ sysno = [c \in CallId |-> Forking]
    /\ inflight_syscalls = [p \in Pid |-> NoCall]
    /\ syscall_id = [t \in Task |-> NotAsked]
    /\ active_network_calls = [t \in Task |-> NoCall]
    /\ exits = {} /\ records = {}
    /\ recorded = {} /\ unseen = {} /\ torn = {} /\ renamed = {} /\ begun = {} /\ skipped = {}

-----------------------------------------------------------------------------
(* Host sensor                                                             *)

\* pid_tgid, the key of inflight_syscalls, as it is when the program runs
inflight_key(t) == pid[t]

\* handle_syscall_enter of task t for call c. The event for the entry itself says no
\* more than the call does.
handle_syscall_enter(t, c) ==
    /\ IF target[t]
         THEN /\ inflight_syscalls' = [inflight_syscalls EXCEPT ![inflight_key(t)] = c]
              /\ recorded' = recorded \cup {c}
         ELSE UNCHANGED <<inflight_syscalls, recorded>>
    /\ UNCHANGED <<syscall_id, exits, unseen, torn>>

\* handle_syscall_exit up to the look-up, for a task that matches.
lookup_syscall(t) ==
    /\ target[t]
    /\ syscall_id' = [syscall_id EXCEPT ![t] = inflight_syscalls[inflight_key(t)]]
    /\ UNCHANGED <<inflight_syscalls, exits, recorded, unseen, torn>>

\* The call whose number is read through the pointer. When the map has taken the element
\* back in between, it may hold the number of any call.
ReadThrough(t, c) == IF c \in torn THEN 1 .. made ELSE {syscall_id[t]}

\* The submitted event: at the exit of call c it names the call whose number was read, or
\* none and has the flag MISSING_ENTRY.
ExitEvents(t, c) == [at : {c}, named : ReadThrough(t, c)]

\* Mutant of handle_syscall_exit: the entry stays when the ring buffer is full.
handle_syscall_exitLostKept(t, c) ==
    /\ IF syscall_id[t] # NotAsked
         THEN \/ /\ UNCHANGED <<exits, inflight_syscalls, unseen>>
              \/ /\ \E e \in ExitEvents(t, c) : exits' = exits \cup {e}
                 /\ inflight_syscalls' = [inflight_syscalls EXCEPT ![inflight_key(t)] = NoCall]
                 /\ UNCHANGED unseen
         ELSE /\ ~target[t]
              /\ unseen' = unseen \cup {c}
              /\ UNCHANGED <<exits, inflight_syscalls>>
    /\ syscall_id' = [syscall_id EXCEPT ![t] = NotAsked]
    /\ UNCHANGED <<recorded, torn>>

\* The rest of handle_syscall_exit: a task that does not match is left alone, entry and
\* all. Otherwise the event is submitted, or lost because the ring buffer is full; the
\* entry is deleted either way.
handle_syscall_exit(t, c) ==
    /\ IF syscall_id[t] # NotAsked
         THEN /\ exits' \in {exits} \cup {exits \cup {e} : e \in ExitEvents(t, c)}
              /\ inflight_syscalls' = [inflight_syscalls EXCEPT ![inflight_key(t)] = NoCall]
              /\ UNCHANGED unseen
         ELSE /\ ~target[t]
              /\ unseen' = unseen \cup {c}
              /\ UNCHANGED <<exits, inflight_syscalls>>
    /\ syscall_id' = [syscall_id EXCEPT ![t] = NotAsked]
    /\ UNCHANGED <<recorded, torn>>

-----------------------------------------------------------------------------
(* Network sensor                                                          *)

\* begin_call, then the parsing of the address and store_pending: a task that does not
\* match is left alone, storage and all. Otherwise the record is about call c, unless
\* the storage cannot be made, the address cannot be used or the port is filtered out;
\* then there is no record.
begin_call(t, c) ==
    /\ IF target[t]
         THEN /\ \E stored \in {c, NoCall} :
                   active_network_calls' = [active_network_calls EXCEPT ![t] = stored]
              /\ begun' = begun \cup {c}
         ELSE UNCHANGED <<active_network_calls, begun>>
    /\ UNCHANGED <<records, skipped>>

\* Mutant of complete_call: the type of the stored record is not compared.
complete_callAnyType(t, c) ==
    LET stored == active_network_calls[t]
    IN /\ IF stored # NoCall
            THEN records' \in {records, records \cup {[at |-> c, of |-> stored]}}
            ELSE UNCHANGED records
       /\ active_network_calls' = [active_network_calls EXCEPT ![t] = NoCall]
       /\ UNCHANGED <<begun, skipped>>

\* complete_call: nothing without a stored record; one of another type is deleted. The
\* others are submitted, or filtered out, rate limited, lost or dropped for saying
\* nothing (a failed accept, no socket, not UDP), and deleted in every case.
complete_call(t, c) ==
    LET stored == active_network_calls[t]
    IN /\ IF stored # NoCall /\ TypeOfCall(stored) = TypeOfCall(c)
            THEN records' \in {records, records \cup {[at |-> c, of |-> stored]}}
            ELSE UNCHANGED records
       /\ active_network_calls' = [active_network_calls EXCEPT ![t] = NoCall]
       /\ UNCHANGED <<begun, skipped>>

-----------------------------------------------------------------------------
(* The kernel                                                              *)

Process(p) == {u \in Task : Alive(u) /\ Leader[pid[u]] = Leader[p]}

\* A new task gets a free PID: a thread one in a process that lives, the leader of a new
\* process one that no thread of an old process keeps taken. It starts inside the call
\* that made it.
TaskStarts(t, p) ==
    /\ ~Alive(t) /\ made < MaxCalls
    /\ \A u \in Task : pid[u] # p
    /\ (p = Leader[p]) = (Process(p) = {})
    /\ pid' = [pid EXCEPT ![t] = p]
    /\ in_call' = [in_call EXCEPT ![t] = made + 1]
    /\ \E inside \in BOOLEAN : target' = [target EXCEPT ![t] = inside]
    /\ made' = made + 1
    /\ sysno' = [sysno EXCEPT ![made + 1] = Forking]
    /\ UNCHANGED <<renamed, hostVars, networkVars>>

\* Someone moves the task to another cgroup, or back.
TaskMoves(t) ==
    /\ Alive(t)
    /\ target' = [target EXCEPT ![t] = ~target[t]]
    /\ UNCHANGED <<pid, in_call, made, sysno, renamed, hostVars, networkVars>>

\* The programs on the entry of a call run; the network one may be skipped.
TaskEnters(t, s) ==
    /\ Alive(t) /\ in_call[t] = NoCall /\ made < MaxCalls
    /\ in_call' = [in_call EXCEPT ![t] = made + 1]
    /\ made' = made + 1
    /\ sysno' = [sysno EXCEPT ![made + 1] = s]
    /\ handle_syscall_enter(t, made + 1)
    /\ \/ TypeOf[s] # NoType /\ begin_call(t, made + 1)
       \/ UNCHANGED networkVars
    /\ UNCHANGED <<pid, target, renamed>>

\* A thread executes a program: when the other threads of its process have ended, it takes
\* the PID of the leader, and returns from the call under it.
TaskExecs(t) ==
    /\ Alive(t) /\ in_call[t] # NoCall /\ sysno[in_call[t]] \in Exec
    /\ pid[t] # Leader[pid[t]] /\ Process(pid[t]) = {t}
    /\ syscall_id[t] = NotAsked
    /\ pid' = [pid EXCEPT ![t] = Leader[pid[t]]]
    /\ renamed' = renamed \cup {in_call[t]}
    /\ UNCHANGED <<in_call, target, made, sysno, hostVars, networkVars>>

\* The exit program of the host sensor looks up the entry.
TaskLooksUp(t) ==
    /\ Alive(t) /\ in_call[t] # NoCall /\ sysno[in_call[t]] \notin Fatal
    /\ syscall_id[t] = NotAsked
    /\ lookup_syscall(t)
    /\ UNCHANGED <<kernelVars, networkVars>>

\* The programs on the exit run to their end; the network one may be skipped.
TaskReturns(t) ==
    LET c == in_call[t]
    IN /\ Alive(t) /\ c # NoCall /\ sysno[c] \notin Fatal
       /\ in_call' = [in_call EXCEPT ![t] = NoCall]
       /\ handle_syscall_exit(t, c)
       /\ \/ TypeOfCall(c) # NoType /\ complete_call(t, c)
          \/ TypeOfCall(c) = NoType /\ UNCHANGED networkVars
          \/ /\ TypeOfCall(c) # NoType
             /\ skipped' = skipped \cup {c}
             /\ UNCHANGED <<active_network_calls, records, begun>>
       /\ UNCHANGED <<pid, target, made, sysno, renamed>>

\* The task ends, in a call that does not return or between two calls. Its storage goes
\* with it; the map entry of its PID does not.
TaskEnds(t) ==
    LET c == in_call[t]
    IN /\ Alive(t)
       /\ c # NoCall => sysno[c] \in Fatal
       /\ pid' = [pid EXCEPT ![t] = NoPid]
       /\ in_call' = [in_call EXCEPT ![t] = NoCall]
       /\ target' = [target EXCEPT ![t] = FALSE]
       /\ active_network_calls' = [active_network_calls EXCEPT ![t] = NoCall]
       /\ unseen' = IF c = NoCall THEN unseen ELSE unseen \cup {c}
       /\ UNCHANGED <<made, sysno, renamed, inflight_syscalls, syscall_id, exits, recorded, torn,
                      records, begun, skipped>>

\* The LRU map takes back an element, which a program may be about to read.
EntryEvicted(p) ==
    /\ inflight_syscalls[p] # NoCall
    /\ recorded' = recorded \ {inflight_syscalls[p]}
    /\ inflight_syscalls' = [inflight_syscalls EXCEPT ![p] = NoCall]
    /\ torn' = torn \cup {in_call[t] : t \in {u \in Task : pid[u] = p /\ syscall_id[u] # NotAsked}}
    /\ UNCHANGED <<kernelVars, syscall_id, exits, unseen, networkVars>>

SyscallNext ==
    \/ \E t \in Task, p \in Pid : TaskStarts(t, p)
    \/ \E t \in Task, s \in Sysno : TaskEnters(t, s)
    \/ \E t \in Task : TaskMoves(t) \/ TaskExecs(t) \/ TaskLooksUp(t) \/ TaskReturns(t) \/ TaskEnds(t)
    \/ \E p \in Pid : EntryEvicted(p)

SyscallSpec == SyscallInit /\ [][SyscallNext]_cvars

-----------------------------------------------------------------------------
(* Properties                                                              *)

SyscallTypeOK ==
    /\ pid \in [Task -> Pid \cup {NoPid}]
    /\ in_call \in [Task -> CallId \cup {NoCall}]
    /\ target \in [Task -> BOOLEAN]
    /\ made \in 0 .. MaxCalls
    /\ sysno \in [CallId -> Sysno]
    /\ inflight_syscalls \in [Pid -> CallId \cup {NoCall}]
    /\ syscall_id \in [Task -> CallId \cup {NoCall, NotAsked}]
    /\ active_network_calls \in [Task -> CallId \cup {NoCall}]
    /\ exits \subseteq [at : CallId, named : CallId \cup {NoCall}]
    /\ records \subseteq [at : CallId, of : CallId]
    /\ recorded \subseteq CallId /\ unseen \subseteq CallId
    /\ torn \subseteq CallId /\ renamed \subseteq CallId
    /\ begun \subseteq CallId /\ skipped \subseteq CallId

\* An exit event without MISSING_ENTRY names the call that returns, except when the
\* number of an earlier call was left in the map because its exit was never looked at (the
\* task had left the filter by then, or it ended in the call and its PID is used again: the
\* filter is tested before the entry is deleted), or was looked at under another PID, which
\* its thread got from execve; or when the element was evicted under the pointer.
ExitNamed ==
    \A e \in exits : e.at \in torn \/ e.named \in {NoCall, e.at} \cup unseen \cup renamed

\* An exit event has MISSING_ENTRY only if the entry was not recorded, was evicted, or is
\* under the PID that the task had before execve: no other task takes the entry away
\* (inflight_syscalls is keyed by pid_tgid).
MissingJustified ==
    \A e \in exits : e.named = NoCall => e.at \notin recorded \/ e.at \in renamed

\* No call is named by two exits, unless an element was evicted under the pointer.
NamedOnce ==
    \A e, f \in {x \in exits : x.at \notin torn} : e.named = f.named /\ e.named # NoCall => e.at = f.at

\* A network record is about the call that returns, except when the exit program of an
\* earlier call of the same task was skipped and the call that returns was not looked
\* at on entry; the two are of one type (complete_call does not ask the filter).
RecordOfItsCall ==
    \A r \in records : \/ r.of = r.at
                       \/ /\ r.of \in skipped /\ r.at \notin begun
                          /\ TypeOfCall(r.of) = TypeOfCall(r.at)

\* No network call has two records.
RecordedOnce ==
    \A r, q \in records : r.of = q.of => r.at = q.at

\* What the host sensor says about an exit is true of the call that returns, but for what a
\* skipped look, an execve and an eviction can do: the three properties above together.
ExitsPaired == ExitNamed /\ MissingJustified /\ NamedOnce

\* A network call is recorded at its own return and at no other: the two properties above.
RecordsPaired == RecordOfItsCall /\ RecordedOnce
=============================================================================
