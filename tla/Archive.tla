------------------------------ MODULE Archive ------------------------------
(***************************************************************************)
(* archive_raw_capture of agent/ai/experiments/event-time-v1/src/          *)
(* archive_raw_capture.py: a finished capture is compressed, the result is *)
(* verified, published together with a manifest, and only then is the raw  *)
(* file removed. Several invocations may run for one capture, each may be  *)
(* killed or may fail at any step, and the machine may crash.              *)
(*                                                                         *)
(* dir is the capture's directory as processes see it, disk what a crash   *)
(* is sure to leave of it: names become durable when the directory is      *)
(* synced, contents when the file is. Contents are the version of the raw  *)
(* capture they hold or describe.                                          *)
(***************************************************************************)
EXTENDS Integers, FiniteSets

CONSTANTS
    Proc,        \* invocations of the tool
    Absent,      \* no such file
    MaxChanges,  \* bound: times somebody still writes to the capture
    MaxCrashes   \* bound: crashes of the machine

ASSUME ArchiveAssumption == MaxChanges \in Nat /\ MaxCrashes \in Nat

Version == 0 .. MaxChanges
Garbage == -1
File == [version : Version \cup {Garbage}, synced : BOOLEAN]

Dir == [source : Version \cup {Absent},     \* the .bin file
        archive : File \cup {Absent},       \* destination, .bin.zst
        manifest : File \cup {Absent},      \* .bin.zst.sha256.json
        partial : BOOLEAN]                  \* the reservation, .bin.zst.partial

ASSUME AbsentAssumption == Absent \notin Version \cup File

VARIABLES
    dir, disk,
    version,  \* the version of the capture that must not be lost
    crashes,
    pc,       \* pc[p]: the step the invocation p takes next
    seen,     \* seen[p]: identity of the source when p looked first
    hash,     \* hash[p]: original_sha256
    stage     \* stage[p]: archive_stage and manifest_stage

vars == <<dir, disk, version, crashes, pc, seen, hash, stage>>

Nothing == [archive |-> Absent, manifest |-> Absent]

Init ==
    /\ dir = [source |-> 0, archive |-> Absent, manifest |-> Absent, partial |-> FALSE]
    /\ disk = dir
    /\ version = 0 /\ crashes = 0
    /\ pc = [p \in Proc |-> "stat"]
    /\ seen = [p \in Proc |-> Absent]
    /\ hash = [p \in Proc |-> Absent]
    /\ stage = [p \in Proc |-> Nothing]

-----------------------------------------------------------------------------
At(p, step, next) == pc[p] = step /\ pc' = [pc EXCEPT ![p] = next]

\* unchanged() returns: the path and the open file are still what p saw first.
unchanged(p) == dir.source # Absent /\ dir.source = seen[p]

\* lstat of the source; a missing one raises.
Stat(p) ==
    /\ At(p, "stat", IF dir.source = Absent THEN "over" ELSE "refuse")
    /\ seen' = [seen EXCEPT ![p] = dir.source]
    /\ UNCHANGED <<dir, disk, version, crashes, hash, stage>>

_refuse_existing(p) ==
    /\ At(p, "refuse", IF dir.archive = Absent /\ dir.manifest = Absent /\ ~dir.partial
                       THEN "reserve" ELSE "over")
    /\ UNCHANGED <<dir, disk, version, crashes, seen, hash, stage>>

\* Mutant of Reserve: a failed mkdir runs the clean-up of somebody else's reservation.
ReserveInTry(p) ==
    /\ At(p, "reserve", IF dir.partial THEN "cleanup" ELSE "hash")
    /\ dir' = [dir EXCEPT !.partial = TRUE]
    /\ UNCHANGED <<disk, version, crashes, seen, hash, stage>>

\* partial.mkdir is exclusive and stands before the try: the loser cleans nothing up.
Reserve(p) ==
    /\ At(p, "reserve", IF dir.partial THEN "over" ELSE "hash")
    /\ dir' = [dir EXCEPT !.partial = TRUE]
    /\ UNCHANGED <<disk, version, crashes, seen, hash, stage>>

\* The source is opened, checked, hashed and checked again.
Hash(p) ==
    /\ At(p, "hash", IF unchanged(p) THEN "compress" ELSE "cleanup")
    /\ hash' = [hash EXCEPT ![p] = dir.source]
    /\ UNCHANGED <<dir, disk, version, crashes, seen, stage>>

\* What zstd makes of the file p has open: its contents, or something unusable.
Compressed(p) == {Garbage} \cup (IF dir.source = Absent THEN {seen[p]} ELSE {dir.source})

Compress(p) ==
    /\ At(p, "compress", "verify")
    /\ \E v \in Compressed(p) : stage' = [stage EXCEPT ![p].archive = [version |-> v, synced |-> TRUE]]
    /\ UNCHANGED <<dir, disk, version, crashes, seen, hash>>

\* The archive is decoded again and must hash to what the source did.
Verify(p) ==
    /\ At(p, "verify", IF unchanged(p) /\ stage[p].archive.version = hash[p]
                       THEN "record" ELSE "cleanup")
    /\ UNCHANGED <<dir, disk, version, crashes, seen, hash, stage>>

\* The manifest is written and synced.
Record(p) ==
    /\ At(p, "record", "linkArchive")
    /\ stage' = [stage EXCEPT ![p].manifest = [version |-> hash[p], synced |-> TRUE]]
    /\ UNCHANGED <<dir, disk, version, crashes, seen, hash>>

\* hardlink_to refuses a name that exists.
LinkArchive(p) ==
    /\ At(p, "linkArchive", IF dir.archive = Absent THEN "linkManifest" ELSE "cleanup")
    /\ dir' = IF dir.archive = Absent THEN [dir EXCEPT !.archive = stage[p].archive] ELSE dir
    /\ UNCHANGED <<disk, version, crashes, seen, hash, stage>>

LinkManifest(p) ==
    /\ At(p, "linkManifest", IF dir.manifest = Absent THEN "unstage" ELSE "cleanup")
    /\ dir' = IF dir.manifest = Absent THEN [dir EXCEPT !.manifest = stage[p].manifest] ELSE dir
    /\ UNCHANGED <<disk, version, crashes, seen, hash, stage>>

\* The staged names and the reservation go.
Unstage(p) ==
    /\ At(p, "unstage", "sync")
    /\ dir' = [dir EXCEPT !.partial = FALSE]
    /\ stage' = [stage EXCEPT ![p] = Nothing]
    /\ UNCHANGED <<disk, version, crashes, seen, hash>>

\* Mutant of SyncDirectory: the directory is not synced.
NoSyncDirectory(p) ==
    /\ At(p, "sync", "last")
    /\ UNCHANGED <<dir, disk, version, crashes, seen, hash, stage>>

SyncDirectory(p) ==
    /\ At(p, "sync", "last")
    /\ disk' = dir
    /\ UNCHANGED <<dir, version, crashes, seen, hash, stage>>

LastCheck(p) ==
    /\ At(p, "last", IF unchanged(p) THEN "unlink" ELSE "over")
    /\ UNCHANGED <<dir, disk, version, crashes, seen, hash, stage>>

Unlink(p) ==
    /\ At(p, "unlink", "over")
    /\ dir' = [dir EXCEPT !.source = Absent]
    /\ UNCHANGED <<disk, version, crashes, seen, hash, stage>>

\* The finally clause, while the reservation is still held.
Cleanup(p) ==
    /\ At(p, "cleanup", "over")
    /\ dir' = [dir EXCEPT !.partial = FALSE]
    /\ stage' = [stage EXCEPT ![p] = Nothing]
    /\ UNCHANGED <<disk, version, crashes, seen, hash>>

Holding == {"hash", "compress", "verify", "record", "linkArchive", "linkManifest", "unstage"}

\* A step raises: an I/O error, a failed zstd, no space. The finally clause follows.
Raise(p) ==
    /\ pc[p] \in Holding \cup {"stat", "refuse", "reserve", "sync", "last", "unlink"}
    /\ pc' = [pc EXCEPT ![p] = IF pc[p] \in Holding THEN "cleanup" ELSE "over"]
    /\ UNCHANGED <<dir, disk, version, crashes, seen, hash, stage>>

\* The process is killed: no finally clause runs.
Kill(p) ==
    /\ pc[p] # "over"
    /\ pc' = [pc EXCEPT ![p] = "over"]
    /\ crashes < MaxCrashes
    /\ crashes' = crashes + 1
    /\ UNCHANGED <<dir, disk, version, seen, hash, stage>>

\* A name that was never synced may or may not be there; unsynced contents are lost.
Survives(name) ==
    LET rest(f) == IF f = Absent \/ f.synced THEN f ELSE [version |-> Garbage, synced |-> TRUE]
    IN  {rest(disk[name]), rest(dir[name])}

\* The machine crashes: running invocations are gone, later ones are yet to come.
Crash ==
    /\ crashes < MaxCrashes
    /\ crashes' = crashes + 1
    /\ dir' \in [source : {disk.source, dir.source}, archive : Survives("archive"),
                 manifest : Survives("manifest"), partial : {disk.partial, dir.partial}]
    /\ disk' = dir'
    /\ pc' = [p \in Proc |-> IF pc[p] = "stat" THEN "stat" ELSE "over"]
    /\ UNCHANGED <<version, seen, hash, stage>>

\* The collector was not stopped and still writes. The tool's last check looks for it; a
\* write between that check and the unlink is excluded by "stop and wait for its
\* collector before calling".
Change ==
    /\ version < MaxChanges
    /\ dir.source # Absent
    /\ \A p \in Proc : pc[p] # "unlink"
    /\ version' = version + 1
    /\ dir' = [dir EXCEPT !.source = version']
    /\ disk' = [disk EXCEPT !.source = version']
    /\ UNCHANGED <<crashes, pc, seen, hash, stage>>

Next ==
    \/ \E p \in Proc :
        \/ Stat(p) \/ _refuse_existing(p) \/ Reserve(p) \/ Hash(p) \/ Compress(p)
        \/ Verify(p) \/ Record(p) \/ LinkArchive(p) \/ LinkManifest(p) \/ Unstage(p)
        \/ SyncDirectory(p) \/ LastCheck(p) \/ Unlink(p)
        \/ Cleanup(p) \/ Raise(p) \/ Kill(p)
    \/ Crash
    \/ Change

Spec == Init /\ [][Next]_vars

-----------------------------------------------------------------------------
TypeOK ==
    /\ dir \in Dir /\ disk \in Dir
    /\ version \in Version
    /\ crashes \in 0 .. MaxCrashes
    /\ pc \in [Proc -> Holding \cup {"stat", "refuse", "reserve", "sync", "last", "unlink",
                                     "cleanup", "over"}]
    /\ seen \in [Proc -> Version \cup {Absent}]
    /\ hash \in [Proc -> Version \cup {Absent}]
    /\ stage \in [Proc -> [archive : File \cup {Absent}, manifest : File \cup {Absent}]]

\* "Last mutation; every preceding failure retains raw": whatever fails, is killed or
\* crashes, and whoever else runs, the capture is there in its last version, raw or as a
\* readable archive with its manifest.
CaptureKept ==
    \/ dir.source = version
    \/ /\ dir.archive # Absent /\ dir.archive.version = version
       /\ dir.manifest # Absent /\ dir.manifest.version = version

\* A reader who finds both artifacts finds a manifest of just this archive, although the
\* two names are bound one after the other and not at once.
ManifestMatches ==
    dir.archive # Absent /\ dir.manifest # Absent =>
        /\ dir.archive.version # Garbage
        /\ dir.manifest.version = dir.archive.version

\* "Exclusive per-capture reservation": of all invocations one at most stages and
\* publishes, and its reservation is not removed by another one that fails.
ReservationExclusive ==
    \A p \in Proc : pc[p] \in Holding \cup {"cleanup"} =>
        /\ dir.partial
        /\ \A q \in Proc \ {p} : pc[q] \notin Holding \cup {"cleanup"}

\* A reservation outlives its owner only when nothing could run any more; a later
\* invocation is not refused because an earlier one failed to archive.
ReservationReleased ==
    dir.partial => crashes > 0 \/ \E p \in Proc : pc[p] \in Holding \cup {"cleanup"}

\* What a user of archive_raw_capture finds at any time: the capture, and artifacts that
\* belong together.
ArtifactsSound == CaptureKept /\ ManifestMatches

\* The reservation directory is a lock: one owner, released on every way out of the tool.
ReservationSound == ReservationExclusive /\ ReservationReleased
=============================================================================
