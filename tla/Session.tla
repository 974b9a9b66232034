------------------------------ MODULE Session ------------------------------
(***************************************************************************)
(* finalize of finalize_event_time_session.py: a closed capture is checked, *)
(* replayed through the detector and published as a dataset with its       *)
(* statistics, audit and manifest, the dataset last. Several invocations   *)
(* may run for one prefix, each may fail, be interrupted or be killed at   *)
(* any step, and the capture may still change or be archived away.         *)
(*                                                                         *)
(* The sources (raw capture, timeline, collector log) are one version      *)
(* number; what their contents make a check refuse is one defect or None.  *)
(***************************************************************************)
EXTENDS Integers

CONSTANTS
    Inv,        \* invocations of the tool for this prefix
    None,       \* no such file, no holder, no defect
    MaxWrites   \* bound: times the sources change

ASSUME SessionAssumption == MaxWrites \in Nat /\ None \notin Inv \cup Int

SourceVersion == 0 .. MaxWrites

\* What a check of the contents refuses: the timeline (142-149), the frames (audit), the
\* collector's counters (check_collection), the buckets (163-165), HEALTH (check_health).
Defect == {"timeline", "frames", "loss", "buckets", "health"}

Output == {"diagnostic", "replay", "partial", "final", "stats", "audit", "manifest"}
Companion == {"stats", "audit", "manifest"}

\* A file: who made it (None: somebody else), the version of the sources it comes from,
\* and whether it is whole and all of it comes from there.
Made == [by : Inv \cup {None}, v : SourceVersion, whole : BOOLEAN]

ASSUME NoneAssumption == None \notin Made

VARIABLES
    source,   \* the version of the sources, None once the raw file is archived away
    writing,  \* somebody has one of the sources open for writing
    defect,   \* defect[v]: what is wrong with version v, None if nothing
    lock,     \* whose .finalize.lock exists
    files,    \* the output files that exist
    step,     \* step[p]: the step the invocation p takes next
    sources,  \* sources[p]: the first snapshot of p
    audited,  \* audited[p]: the version its audit of the frames is of
    ended     \* ended[p]: how it ended: returned, raised or killed

svars == <<source, writing, defect, lock, files, step, sources, audited, ended>>

SInit ==
    /\ source = 0 /\ writing \in BOOLEAN
    /\ defect \in [SourceVersion -> Defect \cup {None}]
    /\ lock = None
    /\ files = [o \in Output |-> None]
    /\ step = [p \in Inv |-> "lock"]
    /\ sources = [p \in Inv |-> None]
    /\ audited = [p \in Inv |-> None]
    /\ ended = [p \in Inv |-> "no"]

-----------------------------------------------------------------------------
\* The step goes on to next when ok, and to the finally clause otherwise.
Advance(p, here, ok, next) ==
    /\ step[p] = here
    /\ step' = [step EXCEPT ![p] = IF ok THEN next ELSE "unlock"]
    /\ ended' = [ended EXCEPT ![p] = IF ok THEN @ ELSE "raised"]

\* snapshot(sources) = sources
same(p) == source # None /\ source = sources[p]

\* Mutant of Lock: the lock is created inside the try.
LockInTry(p) ==
    /\ Advance(p, "lock", lock = None, "exists")
    /\ lock' = IF lock = None THEN p ELSE lock
    /\ UNCHANGED <<source, writing, defect, files, sources, audited>>

\* create(lock) is exclusive and stands before the try: the loser removes nothing.
Lock(p) ==
    /\ step[p] = "lock"
    /\ step' = [step EXCEPT ![p] = IF lock = None THEN "exists" ELSE "over"]
    /\ ended' = [ended EXCEPT ![p] = IF lock = None THEN @ ELSE "raised"]
    /\ lock' = IF lock = None THEN p ELSE lock
    /\ UNCHANGED <<source, writing, defect, files, sources, audited>>

NoArtifacts(p) ==
    /\ Advance(p, "exists", \A o \in Output : files[o] = None, "snapshot")
    /\ UNCHANGED <<source, writing, defect, lock, files, sources, audited>>

snapshot(p) ==
    /\ Advance(p, "snapshot", source # None, "closed")
    /\ sources' = [sources EXCEPT ![p] = source]
    /\ UNCHANGED <<source, writing, defect, lock, files, audited>>

check_closed(p, here, next) ==
    /\ Advance(p, here, ~writing, next)
    /\ UNCHANGED <<source, writing, defect, lock, files, sources, audited>>

\* read_timeline and the checks of its intervals.
Timeline(p) ==
    /\ Advance(p, "timeline", source # None /\ defect[source] # "timeline", "frames")
    /\ UNCHANGED <<source, writing, defect, lock, files, sources, audited>>

audit(p) ==
    /\ Advance(p, "frames", source # None /\ defect[source] # "frames", "collection")
    /\ audited' = [audited EXCEPT ![p] = source]
    /\ UNCHANGED <<source, writing, defect, lock, files, sources>>

check_collection(p) ==
    /\ Advance(p, "collection", source # None /\ defect[source] # "loss", "same2")
    /\ UNCHANGED <<source, writing, defect, lock, files, sources, audited>>

\* require(snapshot(sources) == sources)
Recheck(p, here, next) ==
    /\ Advance(p, here, same(p), next)
    /\ UNCHANGED <<source, writing, defect, lock, files, sources, audited>>

-----------------------------------------------------------------------------
Put(p, o, v, whole) == files' = [files EXCEPT ![o] = [by |-> p, v |-> v, whole |-> whole]]

create(p, o, here, next, v) ==
    /\ Advance(p, here, files[o] = None, next)
    /\ IF files[o] = None THEN Put(p, o, v, TRUE) ELSE UNCHANGED files
    /\ UNCHANGED <<source, writing, defect, lock, sources, audited>>

\* A file is created and its writing fails: what there is of it stays.
CreateFails(p, o, here) ==
    /\ Advance(p, here, FALSE, "")
    /\ files[o] = None
    /\ Put(p, o, sources[p], FALSE)
    /\ UNCHANGED <<source, writing, defect, lock, sources, audited>>

Diagnostic(p) == create(p, "diagnostic", "diagnostic", "replay", sources[p])

\* The detector replays the raw capture: the diagnostic log is of the version it reads.
Replay(p) ==
    /\ Advance(p, "replay", files["replay"] = None /\ source # None, "same3")
    /\ files' = IF files["replay"] = None /\ source # None
                THEN [files EXCEPT !["replay"] = [by |-> p, v |-> source, whole |-> TRUE],
                                   !["diagnostic"] = [by |-> p, v |-> source, whole |-> TRUE]]
                ELSE files
    /\ UNCHANGED <<source, writing, defect, lock, sources, audited>>

\* build joins the diagnostic log with the timeline it reads now and writes the partial
\* dataset, whatever the checks of its statistics then say.
Build(p) ==
    /\ Advance(p, "build", source # None /\ defect[files["diagnostic"].v] # "buckets", "health")
    /\ IF source # None
       THEN Put(p, "partial", files["diagnostic"].v, files["diagnostic"].v = source)
       ELSE UNCHANGED files
    /\ UNCHANGED <<source, writing, defect, lock, sources, audited>>

check_health(p) ==
    /\ Advance(p, "health", defect[files["diagnostic"].v] # "health", "closed4")
    /\ UNCHANGED <<source, writing, defect, lock, files, sources, audited>>

Stats(p) == create(p, "stats", "stats", "audit", files["partial"].v)
NetworkAudit(p) == create(p, "audit", "audit", "manifest", audited[p])
Manifest(p) == create(p, "manifest", "manifest", "last", sources[p])

FinalCheck(p) ==
    /\ Advance(p, "last", same(p) /\ files["final"] = None, "link")
    /\ UNCHANGED <<source, writing, defect, lock, files, sources, audited>>

\* Mutant of Link: a dataset that appeared since the last check is replaced.
LinkReplaces(p) ==
    /\ Advance(p, "link", TRUE, "unlink")
    /\ files' = [files EXCEPT !["final"] = files["partial"]]
    /\ UNCHANGED <<source, writing, defect, lock, sources, audited>>

\* hardlink_to refuses a name that exists.
Link(p) ==
    /\ Advance(p, "link", files["final"] = None, "unlink")
    /\ files' = IF files["final"] = None THEN [files EXCEPT !["final"] = files["partial"]]
                ELSE files
    /\ UNCHANGED <<source, writing, defect, lock, sources, audited>>

UnlinkPartial(p) ==
    /\ step[p] = "unlink"
    /\ step' = [step EXCEPT ![p] = "unlock"]
    /\ ended' = [ended EXCEPT ![p] = "returned"]
    /\ files' = [files EXCEPT !["partial"] = None]
    /\ UNCHANGED <<source, writing, defect, lock, sources, audited>>

\* The finally clause.
Unlock(p) ==
    /\ step[p] = "unlock"
    /\ step' = [step EXCEPT ![p] = "over"]
    /\ lock' = None
    /\ UNCHANGED <<source, writing, defect, files, sources, audited, ended>>

-----------------------------------------------------------------------------
Trying == {"exists", "snapshot", "closed", "timeline", "frames", "collection", "same2",
           "diagnostic", "replay", "same3", "build", "health", "closed4", "same4", "stats",
           "audit", "manifest", "last", "link", "unlink"}

\* A step raises: an I/O error, a failed detector, an interrupt.
Raises(p) ==
    /\ step[p] \in Trying
    /\ Advance(p, step[p], FALSE, "")
    /\ UNCHANGED <<source, writing, defect, lock, files, sources, audited>>

\* The process is killed, or interrupted between the lock and the try.
Killed(p) ==
    /\ step[p] \in Trying \cup {"unlock"}
    /\ step' = [step EXCEPT ![p] = "over"]
    /\ ended' = [ended EXCEPT ![p] = "killed"]
    /\ UNCHANGED <<source, writing, defect, lock, files, sources, audited>>

\* Mutant of Publish: the manifest is written after the dataset is linked.
PublishManifestLast(p) ==
    \/ Stats(p) \/ create(p, "audit", "audit", "last", audited[p]) \/ FinalCheck(p)
    \/ (Link(p) /\ step'[p] # "unlink")
    \/ /\ Advance(p, "link", files["final"] = None, "manifest") /\ files["final"] = None
       /\ files' = [files EXCEPT !["final"] = files["partial"]]
       /\ UNCHANGED <<source, writing, defect, lock, sources, audited>>
    \/ create(p, "manifest", "manifest", "unlink", sources[p])

Publish(p) == Stats(p) \/ NetworkAudit(p) \/ Manifest(p) \/ FinalCheck(p) \/ Link(p)

finalize(p) ==
    \/ Lock(p) \/ NoArtifacts(p) \/ snapshot(p) \/ check_closed(p, "closed", "timeline")
    \/ Timeline(p) \/ audit(p) \/ check_collection(p) \/ Recheck(p, "same2", "diagnostic")
    \/ Diagnostic(p) \/ Replay(p) \/ Recheck(p, "same3", "build") \/ Build(p)
    \/ check_health(p) \/ check_closed(p, "closed4", "same4") \/ Recheck(p, "same4", "stats")
    \/ Publish(p) \/ UnlinkPartial(p) \/ Unlock(p)
    \/ CreateFails(p, "replay", "replay") \/ CreateFails(p, "partial", "build")
    \/ \E o \in Companion : CreateFails(p, o, o)

\* The collector, or who restarted it, opens the sources, writes and closes them.
Open == source # None /\ ~writing /\ writing' = TRUE
        /\ UNCHANGED <<source, defect, lock, files, step, sources, audited, ended>>

Write ==
    /\ writing /\ source # None /\ source < MaxWrites
    /\ source' = source + 1
    /\ UNCHANGED <<writing, defect, lock, files, step, sources, audited, ended>>

Close == writing /\ writing' = FALSE
         /\ UNCHANGED <<source, defect, lock, files, step, sources, audited, ended>>

\* archive_raw_capture removes the raw file.
ArchivedAway ==
    /\ source # None /\ ~writing
    /\ source' = None
    /\ UNCHANGED <<writing, defect, lock, files, step, sources, audited, ended>>

\* Somebody else puts a dataset of this name there.
Foreign ==
    /\ files["final"] = None
    /\ files' = [files EXCEPT !["final"] = [by |-> None, v |-> 0, whole |-> TRUE]]
    /\ UNCHANGED <<source, writing, defect, lock, step, sources, audited, ended>>

SNext ==
    \/ \E p \in Inv : finalize(p) \/ Raises(p) \/ Killed(p)
    \/ Open \/ Write \/ Close \/ ArchivedAway \/ Foreign

SSpec == SInit /\ [][SNext]_svars

-----------------------------------------------------------------------------
(* Properties.                                                             *)

SessionTypeOK ==
    /\ source \in SourceVersion \cup {None}
    /\ writing \in BOOLEAN
    /\ defect \in [SourceVersion -> Defect \cup {None}]
    /\ lock \in Inv \cup {None}
    /\ files \in [Output -> Made \cup {None}]
    /\ step \in [Inv -> Trying \cup {"lock", "unlock", "over"}]
    /\ sources \in [Inv -> SourceVersion \cup {None}]
    /\ audited \in [Inv -> SourceVersion \cup {None}]
    /\ ended \in [Inv -> {"no", "returned", "raised", "killed"}]

\* "publish its event-time NPZ last": whoever finds the dataset of an invocation finds its
\* statistics, audit and manifest whole, all made by this invocation from one version of
\* the sources, although they change, and in that version no check finds a defect.
PublishedWhole ==
    LET npz == files["final"] IN
    npz # None /\ npz.by # None =>
        /\ npz.whole /\ defect[npz.v] = None
        /\ \A c \in Companion : files[c] = [by |-> npz.by, v |-> npz.v, whole |-> TRUE]

\* A published dataset and what stands beside it are never replaced, removed or completed
\* by a later invocation.
PublishedKept ==
    [][files["final"] # None =>
         /\ files'["final"] = files["final"]
         /\ files["final"].by # None => \A c \in Companion : files'[c] = files[c]]_svars

\* Between the lock and its removal an invocation is alone, and no loser of the race
\* removes the lock of the winner.
OneFinaliser ==
    \A p \in Inv : step[p] \in Trying \cup {"unlock"} => lock = p

\* A lock outlives its invocation only when this was killed: a failed finalisation leaves
\* its artifacts but not its lock.
LockReleased ==
    \A p \in Inv : lock = p => step[p] \in Trying \cup {"unlock"} \/ ended[p] = "killed"

\* An invocation that returned has published its dataset; of all invocations one at most
\* does, since what a failed one leaves refuses every later one.
ReturnedPublished ==
    \A p \in Inv : ended[p] = "returned" => files["final"] # None /\ files["final"].by = p

\* The dataset is published whole, and by every invocation of finalize that returns.
PublicationSound == PublishedWhole /\ ReturnedPublished

\* The lock file is a lock: one owner, released on every way out but a kill.
LockSound == OneFinaliser /\ LockReleased
=============================================================================
