------------------------------- MODULE Probe -------------------------------
(***************************************************************************)
(* probe_behavior_lineage.py: run makes a fixture with a dummy credential  *)
(* and a cgroup, starts a collector and one worker after the other in the  *)
(* cgroup, and takes all of it down again, also when a step fails, a wait  *)
(* times out or a signal arrives. Worker processes come and go meanwhile,  *)
(* and a process of somebody else may be moved into the cgroup.            *)
(*                                                                         *)
(* The worker is its leader, and one child of it that may outlive it. A    *)
(* PID that is used again between two signals is left out.                 *)
(***************************************************************************)
EXTENDS Integers

CONSTANTS
    Modes,      \* len(MATRIX), or one
    MaxSignals  \* bound: signals to the probe

ASSUME ProbeAssumption == Modes \in Nat \ {0} /\ MaxSignals \in Nat

VARIABLES
    at,         \* what run does next
    exc,        \* an exception is on its way out
    within,     \* cleanup_job is called from the "try" or from the "finally"
    owned,      \* its local
    collector,  \* none, running, told (it got SIGINT), ok or failed (how it ended)
    known,      \* collector is not None
    job,        \* job is not None
    leader,     \* none, starting (not yet in the cgroup), inside, exited, reaped
    passed,     \* the leader exited with status 0
    kid,        \* none, inside, gone
    killed,     \* the worker's process group got SIGKILL
    guest,      \* a process of somebody else is in the cgroup
    modes,      \* modes that are still to run
    fixture, cgroup, result,   \* they exist; result is probe.json
    signals,
    slipped,    \* a signal arrived where no handler, or no finally clause, covers it
    undone      \* the last cleanup_job was refused, or missed a child born since its first look

pvars == <<at, exc, within, owned, collector, known, job, leader, passed, kid, killed, guest,
           modes, fixture, cgroup, result, signals, slipped, undone>>

process == <<collector, leader, passed, kid, killed, guest>>
made == <<fixture, cgroup, result>>
record == <<signals, slipped, undone>>

PInit ==
    /\ at = "fixture" /\ exc = FALSE /\ within = "try" /\ owned = FALSE
    /\ collector = "none" /\ known = FALSE /\ job = FALSE
    /\ leader = "none" /\ passed = FALSE /\ kid = "none" /\ killed = FALSE /\ guest = FALSE
    /\ modes = Modes
    /\ fixture = FALSE /\ cgroup = FALSE /\ result = FALSE
    /\ signals = 0 /\ slipped = FALSE /\ undone = FALSE

Running == collector \in {"running", "told"}                \* collector.poll() is None
LeaderLives == leader \in {"starting", "inside"}
InGroup == LeaderLives \/ leader = "exited" \/ kid = "inside"   \* killpg finds the group
Members == leader = "inside" \/ kid = "inside" \/ guest     \* cgroup.procs is not empty

Setup == {"fixture", "cgroup", "handler"}
CleanupJob == {"members", "poll", "term", "kill", "join"}
Try == {"spawn", "assign", "warm", "mode", "assignJob", "wait", "leftover", "finish", "stopping"}
Finally == {"finally", "stop", "stopped", "empty", "remove", "rmdir", "restore"}

Step(here, next) == at = here /\ at' = next
\* The step raises in the try, unless ok.
Check(here, ok, next) ==
    /\ at = here
    /\ at' = IF ok THEN next ELSE "finally"
    /\ exc' = (exc \/ ~ok)

-----------------------------------------------------------------------------
(* run, up to its finally clause                                           *)

MakeFixture ==
    /\ Step("fixture", "cgroup") /\ fixture' = TRUE
    /\ UNCHANGED <<exc, within, owned, process, known, job, modes, cgroup, result, record>>

MakeCgroup ==
    /\ Step("cgroup", "handler") /\ cgroup' = TRUE
    /\ UNCHANGED <<exc, within, owned, process, known, job, modes, fixture, result, record>>

Handler ==
    /\ Step("handler", "spawn")
    /\ UNCHANGED <<exc, within, owned, process, known, job, modes, made, record>>

SpawnCollector ==
    /\ Step("spawn", "assign") /\ collector' = "running"
    /\ UNCHANGED <<exc, within, owned, leader, passed, kid, killed, guest, known, job, modes, made, record>>

AssignCollector ==
    /\ Step("assign", "warm") /\ known' = TRUE
    /\ UNCHANGED <<exc, within, owned, process, job, modes, made, record>>

CollectorStarted ==
    /\ Check("warm", Running, "mode")
    /\ UNCHANGED <<within, owned, process, known, job, modes, made, record>>

SpawnWorker ==
    /\ Step("mode", "assignJob") /\ modes > 0
    /\ leader' = "starting" /\ passed' = FALSE /\ kid' = "none" /\ killed' = FALSE
    /\ UNCHANGED <<exc, within, owned, collector, guest, known, job, modes, made, record>>

AssignJob ==
    /\ Step("assignJob", "wait") /\ job' = TRUE
    /\ UNCHANGED <<exc, within, owned, process, known, modes, made, record>>

\* job.wait(timeout) returns; a status that is not zero raises.
WorkerWaited ==
    /\ leader = "exited" /\ leader' = "reaped"
    /\ Check("wait", passed, "members") /\ within' = "try"
    /\ UNCHANGED <<owned, collector, passed, kid, killed, guest, known, job, modes, made, record>>

WorkerTimeout ==
    /\ LeaderLives
    /\ Check("wait", FALSE, "")
    /\ UNCHANGED <<within, owned, process, known, job, modes, made, record>>

Leftover ==
    /\ Check("leftover", ~Members, "mode")
    /\ IF Members THEN UNCHANGED <<job, modes>> ELSE job' = FALSE /\ modes' = modes - 1
    /\ UNCHANGED <<within, owned, process, known, made, record>>

CollectorLasted ==
    /\ modes = 0
    /\ Check("mode", Running, "stopping")
    /\ collector' = IF Running THEN "told" ELSE collector
    /\ UNCHANGED <<within, owned, leader, passed, kid, killed, guest, known, job, modes, made, record>>

\* collector.wait(timeout): its status, or TimeoutExpired.
CollectorStopped ==
    /\ Check("stopping", collector = "ok", "finally")
    /\ UNCHANGED <<within, owned, process, known, job, modes, made, record>>

-----------------------------------------------------------------------------
(* cleanup_job                                                             *)

\* An exception leaves cleanup_job: in the finally clause the inner one goes on.
Abandon ==
    /\ at' = IF within = "try" THEN "finally" ELSE "stop"
    /\ exc' = TRUE

Refuse ==
    /\ at = "members" /\ guest
    /\ Abandon /\ undone' = TRUE
    /\ UNCHANGED <<within, owned, process, known, job, modes, made, signals, slipped>>

OwnMembers ==
    /\ ~guest
    /\ Step("members", "poll")
    /\ owned' = (leader = "inside" \/ kid = "inside") /\ undone' = FALSE
    /\ UNCHANGED <<exc, within, process, known, job, modes, made, signals, slipped>>

\* job.poll reaps a leader that has exited; one that lives is owned, in the cgroup or not.
Poll ==
    /\ Step("poll", IF owned \/ LeaderLives THEN "term" ELSE "join")
    /\ owned' = (owned \/ LeaderLives)
    /\ leader' = IF leader = "exited" THEN "reaped" ELSE leader
    /\ undone' = (~owned' /\ kid = "inside")
    /\ UNCHANGED <<exc, within, collector, passed, kid, killed, guest, known, job, modes, made, signals, slipped>>

\* SIGTERM, which processes may be slow to follow; no such group: ProcessLookupError.
TermGroup ==
    /\ Step("term", IF InGroup THEN "kill" ELSE "join")
    /\ UNCHANGED <<exc, within, owned, process, known, job, modes, made, record>>

KillGroup ==
    /\ Step("kill", "join") /\ killed' = InGroup
    /\ UNCHANGED <<exc, within, owned, collector, leader, passed, kid, guest, known, job, modes, made, record>>

\* job.wait(), which has no timeout.
Join ==
    /\ leader \in {"exited", "reaped"} /\ leader' = "reaped"
    /\ Step("join", IF within = "try" THEN "leftover" ELSE "stop")
    /\ UNCHANGED <<exc, within, owned, collector, passed, kid, killed, guest, known, job, modes, made, record>>

-----------------------------------------------------------------------------
(* The finally clause                                                      *)

StartFinally ==
    /\ Step("finally", IF job THEN "members" ELSE "stop")
    /\ within' = "finally"
    /\ UNCHANGED <<exc, owned, process, known, job, modes, made, record>>

StopCollector ==
    /\ Step("stop", IF known /\ Running THEN "stopped" ELSE "empty")
    /\ collector' = IF known /\ Running THEN "told" ELSE collector
    /\ UNCHANGED <<exc, within, owned, leader, passed, kid, killed, guest, known, job, modes, made, record>>

\* It ends within the timeout, or is killed and waited for.
AwaitCollector ==
    /\ Step("stopped", "empty")
    /\ collector' = IF Running THEN "failed" ELSE collector
    /\ UNCHANGED <<exc, within, owned, leader, passed, kid, killed, guest, known, job, modes, made, record>>

\* Mutant of CheckEmpty: artifacts are removed anyhow.
CheckEmptyNot ==
    /\ Step("empty", "remove")
    /\ UNCHANGED <<exc, within, owned, process, known, job, modes, made, record>>

CheckEmpty ==
    /\ Step("empty", IF Members THEN "over" ELSE "remove")
    /\ exc' = (exc \/ Members)
    /\ UNCHANGED <<within, owned, process, known, job, modes, made, record>>

RemoveFixture ==
    /\ Step("remove", "rmdir") /\ fixture' = FALSE
    /\ UNCHANGED <<exc, within, owned, process, known, job, modes, cgroup, result, record>>

\* rmdir refuses a cgroup with a member.
RemoveCgroup ==
    /\ Step("rmdir", IF Members THEN "over" ELSE "restore")
    /\ cgroup' = Members /\ exc' = (exc \/ Members)
    /\ UNCHANGED <<within, owned, process, known, job, modes, fixture, result, record>>

RestoreHandler ==
    /\ Step("restore", IF exc THEN "over" ELSE "result")
    /\ UNCHANGED <<exc, within, owned, process, known, job, modes, made, record>>

WriteResult ==
    /\ Step("result", "over") /\ result' = TRUE
    /\ UNCHANGED <<exc, within, owned, process, known, job, modes, fixture, cgroup, record>>

-----------------------------------------------------------------------------
(* Signals to the probe, and exceptions, which the code meets in the same way.   *)

Signalled(next, unprotected) ==
    /\ signals < MaxSignals /\ signals' = signals + 1
    /\ at' = next /\ exc' = TRUE
    /\ slipped' = (slipped \/ unprotected)
    /\ UNCHANGED <<within, owned, process, known, job, modes, made, undone>>

\* Before the handler is there, or after it is gone, the probe just ends.
SignalUncaught == at \in Setup \cup {"result"} /\ Signalled("over", TRUE)

\* sys.exit in the try; between Popen and the assignment nobody knows the process.
SignalTry ==
    /\ at \in Try \/ (at \in CleanupJob /\ within = "try")
    /\ Signalled("finally", at \in {"assign", "assignJob"})

SignalCleanup ==
    /\ at = "finally" \/ (at \in CleanupJob /\ within = "finally")
    /\ Signalled("stop", TRUE)

SignalFinally == at \in Finally \ {"finally"} /\ Signalled("over", TRUE)

-----------------------------------------------------------------------------
(* The processes                                                           *)

\* The shell moves itself into the cgroup, or fails when this is gone.
LeaderEnters ==
    /\ leader = "starting" /\ ~killed
    /\ leader' = IF cgroup THEN "inside" ELSE "exited"
    /\ UNCHANGED <<at, exc, within, owned, collector, passed, kid, killed, guest, known, job, modes, made, record>>

LeaderForks ==
    /\ leader = "inside" /\ ~killed /\ kid = "none" /\ kid' = "inside"
    /\ UNCHANGED <<at, exc, within, owned, collector, leader, passed, killed, guest, known, job, modes, made, record>>

LeaderExits ==
    /\ LeaderLives /\ leader' = "exited"
    /\ passed' \in IF leader = "inside" /\ ~killed THEN BOOLEAN ELSE {FALSE}
    /\ UNCHANGED <<at, exc, within, owned, collector, kid, killed, guest, known, job, modes, made, record>>

KidExits ==
    /\ kid = "inside" /\ kid' = "gone"
    /\ UNCHANGED <<at, exc, within, owned, collector, leader, passed, killed, guest, known, job, modes, made, record>>

\* It fails by itself, or ends after an interrupt of the probe's or somebody else's.
CollectorEnds ==
    /\ Running /\ collector' \in {"ok", "failed"}
    /\ UNCHANGED <<at, exc, within, owned, leader, passed, kid, killed, guest, known, job, modes, made, record>>

Guest ==
    /\ guest \/ cgroup
    /\ guest' = ~guest
    /\ UNCHANGED <<at, exc, within, owned, collector, leader, passed, kid, killed, known, job, modes, made, record>>

run ==
    \/ MakeFixture \/ MakeCgroup \/ Handler \/ SpawnCollector \/ AssignCollector \/ CollectorStarted
    \/ SpawnWorker \/ AssignJob \/ WorkerWaited \/ WorkerTimeout \/ Leftover
    \/ CollectorLasted \/ CollectorStopped
    \/ Refuse \/ OwnMembers \/ Poll \/ TermGroup \/ KillGroup \/ Join
    \/ StartFinally \/ StopCollector \/ AwaitCollector \/ CheckEmpty \/ RemoveFixture
    \/ RemoveCgroup \/ RestoreHandler \/ WriteResult

PNext ==
    \/ run
    \/ SignalUncaught \/ SignalTry \/ SignalCleanup \/ SignalFinally
    \/ LeaderEnters \/ LeaderForks \/ LeaderExits \/ KidExits \/ CollectorEnds \/ Guest

PSpec == PInit /\ [][PNext]_pvars

-----------------------------------------------------------------------------
(* Properties.                                                             *)

ProbeTypeOK ==
    /\ at \in Setup \cup Try \cup CleanupJob \cup Finally \cup {"result", "over"}
    /\ {exc, owned, known, job, passed, killed, guest, fixture, cgroup, result, slipped, undone} \subseteq BOOLEAN
    /\ within \in {"try", "finally"}
    /\ collector \in {"none", "running", "told", "ok", "failed"}
    /\ leader \in {"none", "starting", "inside", "exited", "reaped"}
    /\ kid \in {"none", "inside", "gone"}
    /\ modes \in 0 .. Modes /\ signals \in 0 .. MaxSignals
    /\ job => leader # "none"

\* probe.json says that the whole of the plan was run: the collector ended well and not
\* before the last mode, every worker is gone, and nothing is left of fixture and cgroup.
ResultComplete ==
    result => /\ collector = "ok" /\ modes = 0
              /\ ~LeaderLives /\ kid # "inside"
              /\ ~fixture /\ ~cgroup

\* However the probe fails, it leaves no collector, and no worker that has not been killed,
\* unless a signal slipped in or the cleanup was left undone.
NoOrphans ==
    at = "over" /\ ~slipped =>
        ~Running /\ (undone \/ killed \/ (~LeaderLives /\ kid # "inside"))

\* The credential is not taken from under a worker: the fixture goes after the last process
\* has left the cgroup, unless a signal slipped in or the cleanup was left undone.
FixtureOutlivesWorkers ==
    (leader = "inside" \/ kid = "inside") /\ ~slipped /\ ~undone => fixture

\* The collector sees the workers to their end: it is only told to stop when they are gone
\* or killed, with the same exceptions.
CollectorOutlivesWorkers ==
    collector = "told" /\ ~slipped /\ ~undone => killed \/ (~LeaderLives /\ kid # "inside")

\* The wait without a timeout comes to its end: it is only for a leader that has ended or
\* got SIGKILL.
JoinEnds == at = "join" /\ LeaderLives => killed

\* The cleanup of the probe, wherever it is interrupted: workers end first, then collector
\* and fixture; it comes to its end, and nothing remains that the result denies.
CleanupSound ==
    /\ ProbeTypeOK /\ NoOrphans /\ FixtureOutlivesWorkers /\ CollectorOutlivesWorkers
    /\ JoinEnds /\ ResultComplete
=============================================================================
