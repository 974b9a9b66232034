------------------------- MODULE PublicationProofs -------------------------
(***************************************************************************)
(* Proofs about the tools that leave a result behind: Archive, for any     *)
(* number of invocations, versions, kills and crashes, Session, for any    *)
(* number of invocations and of changes of the sources, whatever their     *)
(* contents are, and Probe, for any number of modes and of signals.        *)
(***************************************************************************)
EXTENDS Archive, Session, Probe, TLAPS

-----------------------------------------------------------------------------
(* Archive: the capture is never lost, and published artifacts match.      *)

Sound(f, v) == f = [version |-> v, synced |-> TRUE]

Safe(d) == Sound(d.archive, version) /\ Sound(d.manifest, version)

\* The raw file, where it is, holds the last version; where it is gone, both artifacts of
\* that version are bound and durable.
SourceInv ==
    /\ dir.source \in {Absent, version} /\ disk.source \in {Absent, version}
    /\ dir.source = Absent \/ disk.source = Absent => Safe(dir) /\ Safe(disk)

\* What an invocation has established when it reaches a step.
ProcInv(p) ==
    /\ pc[p] \in Holding \cup {"refuse", "reserve", "sync", "last", "unlink"} => seen[p] \in Version
    /\ pc[p] \in {"compress", "verify", "record", "linkArchive", "linkManifest"} => hash[p] = seen[p]
    /\ pc[p] = "verify" => stage[p].archive \in File /\ stage[p].archive.synced
    /\ pc[p] \in {"record", "linkArchive", "linkManifest"} => Sound(stage[p].archive, seen[p])
    /\ pc[p] \in {"linkArchive", "linkManifest"} => Sound(stage[p].manifest, seen[p])
    /\ pc[p] \in {"linkManifest", "unstage", "sync", "last"} => Sound(dir.archive, seen[p])
    /\ pc[p] \in {"unstage", "sync", "last"} => Sound(dir.manifest, seen[p])
    /\ pc[p] = "last" => Sound(disk.archive, seen[p]) /\ Sound(disk.manifest, seen[p])
    /\ pc[p] = "unlink" => Safe(dir) /\ Safe(disk)

\* Names on the disk are names of the directory. A manifest without its archive, which a
\* crash may leave, stops every invocation that is still to come.
NamesInv ==
    /\ disk.archive \in {Absent, dir.archive}
    /\ disk.manifest \in {Absent, dir.manifest}
    /\ dir.archive # Absent => dir.archive.synced /\ dir.archive.version \in Version
    /\ dir.manifest # Absent => dir.manifest.synced
    /\ dir.manifest # Absent /\ dir.archive = Absent =>
         \A p \in Proc : pc[p] \in {"stat", "refuse", "over"}

\* The inductive invariant.
ArchiveInv ==
    /\ TypeOK
    /\ SourceInv
    /\ NamesInv
    /\ \A p \in Proc : ProcInv(p)
    /\ ManifestMatches

-----------------------------------------------------------------------------
\* A fresh directory holds the capture and nothing else.
LEMMA InitInv == Init => ArchiveInv
  <1> SUFFICES ASSUME Init PROVE ArchiveInv
    OBVIOUS
  <1>1. TypeOK
    BY ArchiveAssumption DEF Init, TypeOK, Dir, Version, File, Holding, Nothing
  <1>2. SourceInv /\ NamesInv /\ ManifestMatches
    BY AbsentAssumption, ArchiveAssumption
       DEF Init, SourceInv, NamesInv, ManifestMatches, Version, Safe, Sound
  <1>3. \A p \in Proc : ProcInv(p)
    BY DEF Init, ProcInv, Holding
  <1> QED
    BY <1>1, <1>2, <1>3 DEF ArchiveInv

\* Every step of the tool, the writer and the failures keeps types.
LEMMA ArchiveTypeStep == ArchiveInv /\ [Next]_vars => TypeOK'
  <1> SUFFICES ASSUME ArchiveInv, [Next]_vars PROVE TypeOK'
    OBVIOUS
  <1>t. TypeOK
    BY DEF ArchiveInv
  <1> USE DEF TypeOK, Dir
  <1>1. ASSUME NEW p \in Proc,
               \/ Stat(p) \/ _refuse_existing(p) \/ Reserve(p) \/ Hash(p) \/ Verify(p)
               \/ SyncDirectory(p) \/ LastCheck(p) \/ Unlink(p) \/ Raise(p) \/ Kill(p)
        PROVE  TypeOK'
    <2>1. CASE Stat(p) \/ Hash(p)
      BY <1>t, <2>1 DEF At, Stat, Hash, Holding
    <2>2. CASE _refuse_existing(p) \/ Verify(p) \/ LastCheck(p)
      BY <1>t, <2>2 DEF At, _refuse_existing, Verify, LastCheck, Holding
    <2>3. CASE Reserve(p) \/ SyncDirectory(p) \/ Unlink(p)
      BY <1>t, <2>3 DEF At, Reserve, SyncDirectory, Unlink, Holding
    <2>4. CASE Raise(p) \/ Kill(p)
      <3>1. pc' \in [Proc -> Holding \cup {"stat", "refuse", "reserve", "sync", "last", "unlink",
                                          "cleanup", "over"}]
        BY <1>t, <2>4 DEF Raise, Kill
      <3>2. crashes' \in 0 .. MaxCrashes
        BY <1>t, <2>4, ArchiveAssumption DEF Raise, Kill
      <3> QED
        BY <1>t, <2>4, <3>1, <3>2 DEF Raise, Kill
    <2> QED
      BY <1>1, <2>1, <2>2, <2>3, <2>4
  <1>2. ASSUME NEW p \in Proc, Compress(p)
        PROVE  TypeOK'
    <2>1. PICK v \in Compressed(p) : stage' = [stage EXCEPT ![p].archive = [version |-> v, synced |-> TRUE]]
      BY <1>2 DEF Compress
    <2>2. v \in Version \cup {Garbage} \/ v = Absent
      BY <1>t, <2>1 DEF Compressed
    <2>3. v \in Version \cup {Garbage}
      BY <1>t, <1>2, <2>1, <2>2 DEF Compressed, ArchiveInv, ProcInv, Compress, At, Holding
    <2>4. [version |-> v, synced |-> TRUE] \in File
      BY <2>3 DEF File
    <2>5. stage' \in [Proc -> [archive : File \cup {Absent}, manifest : File \cup {Absent}]]
      BY <1>t, <2>1, <2>4
    <2> QED
      BY <1>t, <1>2, <2>5 DEF Compress, At, Holding
  <1>3. ASSUME NEW p \in Proc, Record(p) \/ Unstage(p) \/ Cleanup(p)
        PROVE  TypeOK'
    <2>1. Record(p) => hash[p] \in Version
      BY <1>t DEF ArchiveInv, ProcInv, Record, At, Holding
    <2>2. Record(p) => [version |-> hash[p], synced |-> TRUE] \in File
      BY <2>1 DEF File
    <2>3. stage' \in [Proc -> [archive : File \cup {Absent}, manifest : File \cup {Absent}]]
      <3>1. CASE Record(p)
        BY <1>t, <2>2, <3>1 DEF Record
      <3>2. CASE Unstage(p) \/ Cleanup(p)
        BY <1>t, <3>2 DEF Unstage, Cleanup, Nothing
      <3> QED
        BY <1>3, <3>1, <3>2
    <2>4. dir' \in Dir
      BY <1>t, <1>3 DEF Record, Unstage, Cleanup
    <2>5. pc' \in [Proc -> Holding \cup {"stat", "refuse", "reserve", "sync", "last", "unlink",
                                        "cleanup", "over"}]
      BY <1>t, <1>3 DEF Record, Unstage, Cleanup, At, Holding
    <2> QED
      BY <1>t, <1>3, <2>3, <2>4, <2>5 DEF Record, Unstage, Cleanup
  <1>4. ASSUME NEW p \in Proc, LinkArchive(p) \/ LinkManifest(p)
        PROVE  TypeOK'
    BY <1>t, <1>4 DEF LinkArchive, LinkManifest, At, Holding
  <1>5. CASE Crash
    <2>1. [version |-> Garbage, synced |-> TRUE] \in File
      BY DEF File
    <2>2. Survives("archive") \subseteq File \cup {Absent}
      BY <1>t, <2>1 DEF Survives
    <2>3. Survives("manifest") \subseteq File \cup {Absent}
      BY <1>t, <2>1 DEF Survives
    <2>4. dir' \in Dir /\ disk' \in Dir
      BY <1>t, <1>5, <2>2, <2>3 DEF Crash
    <2>5. crashes' \in 0 .. MaxCrashes
      BY <1>t, <1>5, ArchiveAssumption DEF Crash
    <2> QED
      BY <1>t, <1>5, <2>4, <2>5 DEF Crash, Holding
  <1>6. CASE Change
    BY <1>t, <1>6, ArchiveAssumption DEF Change, Version
  <1>7. CASE UNCHANGED vars
    BY <1>t, <1>7 DEF vars
  <1> QED
    BY <1>1, <1>2, <1>3, <1>4, <1>5, <1>6, <1>7 DEF Next

\* A step of p that binds no name and removes none.
LEMMA QuietStep ==
    ASSUME ArchiveInv, NEW p \in Proc,
           \/ Stat(p) \/ _refuse_existing(p) \/ Reserve(p) \/ Hash(p) \/ Compress(p)
           \/ Verify(p) \/ Record(p) \/ Unstage(p) \/ LastCheck(p)
           \/ Cleanup(p) \/ Raise(p) \/ Kill(p)
    PROVE  SourceInv' /\ NamesInv' /\ ManifestMatches' /\ \A q \in Proc : ProcInv(q)'
  <1>t. TypeOK /\ SourceInv /\ NamesInv /\ ManifestMatches /\ \A q \in Proc : ProcInv(q)
    BY DEF ArchiveInv
  <1>d. /\ dir'.source = dir.source /\ dir'.archive = dir.archive /\ dir'.manifest = dir.manifest
        /\ UNCHANGED <<disk, version>>
    BY <1>t DEF TypeOK, Dir, Stat, _refuse_existing, Reserve, Hash, Compress, Verify, Record, Unstage,
                LastCheck, Cleanup, Raise, Kill
  <1>1. SourceInv'
    BY <1>t, <1>d DEF SourceInv, Safe, Sound
  <1>2. ManifestMatches'
    BY <1>t, <1>d DEF ManifestMatches
  <1>3. NamesInv'
    <2>1. ASSUME dir.manifest # Absent, dir.archive = Absent, NEW q \in Proc
          PROVE  pc'[q] \in {"stat", "refuse", "over"}
      <3>1. pc[p] \in {"stat", "refuse", "over"} /\ pc[q] \in {"stat", "refuse", "over"}
        BY <1>t, <2>1 DEF NamesInv
      <3> QED
        BY <1>t, <2>1, <3>1 DEF TypeOK, At, Stat, _refuse_existing, Reserve, Hash, Compress, Verify,
           Record, Unstage, LastCheck, Cleanup, Raise, Kill, Holding
    <2> QED
      BY <1>t, <1>d, <2>1 DEF NamesInv
  <1>4. ASSUME NEW q \in Proc PROVE ProcInv(q)'
    <2>1. CASE q # p
      <3>1. pc'[q] = pc[q] /\ seen'[q] = seen[q] /\ hash'[q] = hash[q] /\ stage'[q] = stage[q]
        BY <1>t, <2>1 DEF TypeOK, At, Stat, _refuse_existing, Reserve, Hash, Compress, Verify,
           Record, Unstage, LastCheck, Cleanup, Raise, Kill
      <3> QED
        BY <1>t, <1>d, <3>1 DEF ProcInv, Safe, Sound
    <2>2. CASE q = p
      <3> USE DEF At, Sound
      <3>1. CASE Stat(p) \/ _refuse_existing(p) \/ Reserve(p)
        BY <1>t, <1>d, <2>2, <3>1 DEF TypeOK, Dir, ProcInv, Stat, _refuse_existing, Reserve, Holding
      <3>2. CASE Hash(p)
        BY <1>t, <1>d, <2>2, <3>2 DEF TypeOK, ProcInv, Hash, unchanged, Holding
      <3>3. CASE Compress(p)
        <4>1. PICK v \in Compressed(p) :
                stage' = [stage EXCEPT ![p].archive = [version |-> v, synced |-> TRUE]]
          BY <3>3 DEF Compress
        <4>2. pc[p] = "compress" /\ pc'[p] = "verify" /\ seen' = seen /\ hash' = hash
          BY <1>t, <3>3 DEF Compress, TypeOK
        <4>3. seen[p] \in Version /\ hash[p] = seen[p]
          BY <1>t, <4>2 DEF ProcInv, Holding
        <4>4. v \in Version \cup {Garbage}
          BY <1>t, <4>1, <4>3 DEF Compressed, TypeOK, Dir
        <4>5. [version |-> v, synced |-> TRUE] \in File
          BY <4>4 DEF File
        <4>6. stage'[p].archive = [version |-> v, synced |-> TRUE]
          BY <1>t, <4>1 DEF TypeOK
        <4>7. stage'[p].archive \in File /\ stage'[p].archive.synced
          BY <4>5, <4>6
        <4> QED
          BY <2>2, <4>2, <4>3, <4>7 DEF ProcInv
      <3>4. CASE Verify(p)
        BY <1>t, <1>d, <2>2, <3>4 DEF TypeOK, ProcInv, Verify, File, Holding
      <3>5. CASE Record(p)
        BY <1>t, <1>d, <2>2, <3>5 DEF TypeOK, ProcInv, Record, Holding
      <3>6. CASE Unstage(p) \/ Cleanup(p) \/ Raise(p) \/ Kill(p)
        BY <1>t, <1>d, <2>2, <3>6 DEF TypeOK, ProcInv, Unstage, Cleanup, Raise, Kill, Holding
      <3>7. CASE LastCheck(p)
        BY <1>t, <1>d, <2>2, <3>7, AbsentAssumption
           DEF TypeOK, SourceInv, ProcInv, LastCheck, unchanged, Safe, Holding
      <3> QED
        BY <3>1, <3>2, <3>3, <3>4, <3>5, <3>6, <3>7
    <2> QED
      BY <2>1, <2>2
  <1> QED
    BY <1>1, <1>2, <1>3, <1>4

\* Binding a name: it was free, so nobody relied on it, and it gets verified contents.
LEMMA ArchiveLinkStep ==
    ASSUME ArchiveInv, NEW p \in Proc, LinkArchive(p) \/ LinkManifest(p)
    PROVE  SourceInv' /\ NamesInv' /\ ManifestMatches' /\ \A q \in Proc : ProcInv(q)'
  <1>t. TypeOK /\ SourceInv /\ NamesInv /\ ManifestMatches /\ \A q \in Proc : ProcInv(q)
    BY DEF ArchiveInv
  <1>s. seen[p] \in Version /\ Sound(stage[p].archive, seen[p]) /\ Sound(stage[p].manifest, seen[p])
    BY <1>t DEF ProcInv, LinkArchive, LinkManifest, At, Holding
  <1>a. seen[p] # Garbage /\ stage[p].archive # Absent /\ stage[p].manifest # Absent
    <2>1. seen[p] # Garbage
      BY <1>s, ArchiveAssumption DEF Version, Garbage
    <2>2. [version |-> seen[p], synced |-> TRUE] \in File
      BY <1>s DEF File
    <2> QED
      BY <1>s, <2>1, <2>2, AbsentAssumption DEF Sound
  <1>d. /\ dir'.source = dir.source
        /\ dir.archive # Absent => dir'.archive = dir.archive
        /\ dir.manifest # Absent => dir'.manifest = dir.manifest
        /\ UNCHANGED <<disk, version, seen, hash, stage>>
    BY <1>t DEF TypeOK, Dir, LinkArchive, LinkManifest
  <1>n. \A v : ~Sound(Absent, v) \/ v \notin Version
    <2> SUFFICES ASSUME NEW v \in Version PROVE ~Sound(Absent, v)
      OBVIOUS
    <2>1. [version |-> v, synced |-> TRUE] \in File
      BY DEF File
    <2> QED
      BY <2>1, AbsentAssumption DEF Sound
  <1>1. SourceInv'
    BY <1>t, <1>d, <1>n DEF SourceInv, Safe, Sound, TypeOK
  <1>2. ManifestMatches' /\ NamesInv'
    <2>1. CASE LinkArchive(p)
      <3>1. CASE dir.archive = Absent
        <4>1. dir'.archive = stage[p].archive /\ dir'.manifest = dir.manifest
          BY <1>t, <2>1, <3>1 DEF TypeOK, Dir, LinkArchive
        <4>2. dir.manifest = Absent
          BY <1>t, <2>1, <3>1 DEF NamesInv, LinkArchive, At
        <4> QED
          BY <1>t, <1>d, <1>s, <1>a, <3>1, <4>1, <4>2 DEF NamesInv, ManifestMatches, Sound
      <3>2. CASE dir.archive # Absent
        BY <1>t, <1>d, <2>1, <3>2 DEF NamesInv, ManifestMatches, LinkArchive
      <3> QED
        BY <3>1, <3>2
    <2>2. CASE LinkManifest(p)
      <3>1. Sound(dir.archive, seen[p]) /\ dir.archive # Absent
        BY <1>t, <1>s, <1>n, <2>2 DEF ProcInv, LinkManifest, At
      <3>2. CASE dir.manifest = Absent
        <4>1. dir'.manifest = stage[p].manifest /\ dir'.archive = dir.archive
          BY <1>t, <2>2, <3>2 DEF TypeOK, Dir, LinkManifest
        <4> QED
          BY <1>t, <1>d, <1>s, <1>a, <3>1, <3>2, <4>1 DEF NamesInv, ManifestMatches, Sound
      <3>3. CASE dir.manifest # Absent
        BY <1>t, <1>d, <2>2, <3>3, <3>1 DEF NamesInv, ManifestMatches, LinkManifest
      <3> QED
        BY <3>2, <3>3
    <2> QED
      BY <2>1, <2>2
  <1>3. ASSUME NEW q \in Proc PROVE ProcInv(q)'
    <2>1. CASE q # p
      <3>1. pc'[q] = pc[q]
        BY <1>t, <2>1 DEF TypeOK, At, LinkArchive, LinkManifest
      <3> QED
        BY <1>t, <1>d, <1>n, <3>1 DEF ProcInv, Safe, Sound, Holding, TypeOK
    <2>2. CASE q = p
      <3>1. CASE LinkArchive(p)
        BY <1>t, <1>d, <1>s, <2>2, <3>1 DEF TypeOK, Dir, ProcInv, LinkArchive, At, Sound, Holding
      <3>2. CASE LinkManifest(p)
        BY <1>t, <1>d, <1>s, <2>2, <3>2 DEF TypeOK, Dir, ProcInv, LinkManifest, At, Sound, Holding
      <3> QED
        BY <3>1, <3>2
    <2> QED
      BY <2>1, <2>2
  <1> QED
    BY <1>1, <1>2, <1>3

\* The directory is synced: what p has published is durable.
LEMMA SyncStep ==
    ASSUME ArchiveInv, NEW p \in Proc, SyncDirectory(p)
    PROVE  SourceInv' /\ NamesInv' /\ ManifestMatches' /\ \A q \in Proc : ProcInv(q)'
  <1>t. TypeOK /\ SourceInv /\ NamesInv /\ ManifestMatches /\ \A q \in Proc : ProcInv(q)
    BY DEF ArchiveInv
  <1>d. disk' = dir /\ UNCHANGED <<dir, version, seen, hash, stage>>
    BY DEF SyncDirectory
  <1>1. SourceInv' /\ ManifestMatches'
    BY <1>t, <1>d DEF SourceInv, ManifestMatches, Safe, Sound
  <1>2. NamesInv'
    BY <1>t, <1>d DEF NamesInv, SyncDirectory, At, TypeOK
  <1>3. ASSUME NEW q \in Proc PROVE ProcInv(q)'
    BY <1>t, <1>d DEF ProcInv, SyncDirectory, At, TypeOK, Safe, Sound, Holding
  <1> QED
    BY <1>1, <1>2, <1>3

\* The raw file goes: both artifacts of its version are durable.
LEMMA UnlinkStep ==
    ASSUME ArchiveInv, NEW p \in Proc, Unlink(p)
    PROVE  SourceInv' /\ NamesInv' /\ ManifestMatches' /\ \A q \in Proc : ProcInv(q)'
  <1>t. TypeOK /\ SourceInv /\ NamesInv /\ ManifestMatches /\ \A q \in Proc : ProcInv(q)
    BY DEF ArchiveInv
  <1>d. /\ dir'.source = Absent /\ dir'.archive = dir.archive /\ dir'.manifest = dir.manifest
        /\ UNCHANGED <<disk, version, seen, hash, stage>>
    BY <1>t DEF Unlink, TypeOK, Dir
  <1>s. Safe(dir) /\ Safe(disk)
    BY <1>t DEF ProcInv, Unlink, At
  <1>1. SourceInv' /\ ManifestMatches'
    BY <1>t, <1>d, <1>s DEF SourceInv, ManifestMatches, Safe, Sound
  <1>2. NamesInv'
    BY <1>t, <1>d DEF NamesInv, Unlink, At, TypeOK
  <1>3. ASSUME NEW q \in Proc PROVE ProcInv(q)'
    BY <1>t, <1>d DEF ProcInv, Unlink, At, TypeOK, Safe, Sound, Holding
  <1> QED
    BY <1>1, <1>2, <1>3

\* A crash ends every invocation that has begun; of each name it leaves the state on the
\* disk or the state processes saw.
LEMMA CrashStep ==
    ASSUME ArchiveInv, Crash
    PROVE  SourceInv' /\ NamesInv' /\ ManifestMatches' /\ \A q \in Proc : ProcInv(q)'
  <1>t. TypeOK /\ SourceInv /\ NamesInv /\ ManifestMatches /\ \A q \in Proc : ProcInv(q)
    BY DEF ArchiveInv
  <1>1. /\ dir'.source \in {disk.source, dir.source}
        /\ dir'.archive \in Survives("archive") /\ dir'.manifest \in Survives("manifest")
        /\ disk' = dir' /\ version' = version
    BY DEF Crash
  <1>2. Survives("archive") = {disk.archive, dir.archive}
    BY <1>t DEF NamesInv, Survives
  <1>3. Survives("manifest") = {disk.manifest, dir.manifest}
    BY <1>t DEF NamesInv, Survives
  <1>4. \A q \in Proc : pc'[q] \in {"stat", "over"}
    BY DEF Crash
  <1>5. SourceInv'
    BY <1>t, <1>1, <1>2, <1>3 DEF SourceInv, Safe, Sound
  <1>6. NamesInv'
    BY <1>t, <1>1, <1>2, <1>3, <1>4 DEF NamesInv
  <1>7. ManifestMatches'
    BY <1>t, <1>1, <1>2, <1>3 DEF NamesInv, ManifestMatches
  <1>8. \A q \in Proc : ProcInv(q)'
    BY <1>4 DEF ProcInv, Holding
  <1> QED
    BY <1>5, <1>6, <1>7, <1>8

\* The capture changes while nobody is about to remove it.
LEMMA ChangeStep ==
    ASSUME ArchiveInv, Change
    PROVE  SourceInv' /\ NamesInv' /\ ManifestMatches' /\ \A q \in Proc : ProcInv(q)'
  <1>t. TypeOK /\ SourceInv /\ NamesInv /\ ManifestMatches /\ \A q \in Proc : ProcInv(q)
    BY DEF ArchiveInv
  <1>d. /\ dir'.source = version' /\ dir'.archive = dir.archive /\ dir'.manifest = dir.manifest
        /\ disk'.source = version' /\ disk'.archive = disk.archive /\ disk'.manifest = disk.manifest
        /\ UNCHANGED <<pc, seen, hash, stage>>
    BY <1>t DEF Change, TypeOK, Dir
  <1>v. version' # Absent
    <2>1. version' \in Version
      BY <1>t, ArchiveAssumption DEF Change, TypeOK, Version
    <2> QED
      BY <2>1, AbsentAssumption
  <1>1. SourceInv'
    BY <1>d, <1>v DEF SourceInv
  <1>2. NamesInv' /\ ManifestMatches'
    BY <1>t, <1>d DEF NamesInv, ManifestMatches
  <1>3. ASSUME NEW q \in Proc PROVE ProcInv(q)'
    <2>1. pc[q] # "unlink"
      BY DEF Change
    <2> QED
      BY <1>t, <1>d, <2>1 DEF ProcInv, Sound
  <1> QED
    BY <1>1, <1>2, <1>3

\* Every step keeps the invariant.
LEMMA StepInv == ArchiveInv /\ [Next]_vars => ArchiveInv'
  <1> SUFFICES ASSUME ArchiveInv, [Next]_vars
               PROVE  SourceInv' /\ NamesInv' /\ ManifestMatches' /\ \A q \in Proc : ProcInv(q)'
    BY ArchiveTypeStep DEF ArchiveInv
  <1>1. CASE UNCHANGED vars
    BY <1>1 DEF ArchiveInv, vars, SourceInv, NamesInv, ManifestMatches, ProcInv, Safe, Sound
  <1>2. CASE Next
    BY <1>2, QuietStep, ArchiveLinkStep, SyncStep, UnlinkStep, CrashStep, ChangeStep DEF Next
  <1> QED
    BY <1>1, <1>2

\* The inductive invariant holds throughout.
THEOREM ArchiveInvariant == Spec => []ArchiveInv
  BY InitInv, StepInv, PTL DEF Spec

\* The types of the archive tool's state hold for any number of invocations.
THEOREM ArchiveTypes == Spec => []TypeOK
  <1>1. ArchiveInv => TypeOK
    BY DEF ArchiveInv
  <1> QED
    BY <1>1, ArchiveInvariant, PTL

\* archive_raw_capture never loses a capture: the last version is there raw, or archived
\* with its manifest, whatever fails and whenever the machine stops.
THEOREM CaptureNeverLost == Spec => []CaptureKept
  <1>1. ArchiveInv => CaptureKept
    <2> SUFFICES ASSUME ArchiveInv PROVE CaptureKept
      OBVIOUS
    <2>1. CASE dir.source # Absent
      BY <2>1 DEF ArchiveInv, SourceInv, CaptureKept
    <2>2. CASE dir.source = Absent
      <3>1. Safe(dir) /\ version \in Version
        BY <2>2 DEF ArchiveInv, SourceInv, TypeOK
      <3>2. [version |-> version, synced |-> TRUE] \in File
        BY <3>1 DEF File
      <3>3. dir.archive \in File /\ dir.manifest \in File
        BY <3>1, <3>2 DEF Safe, Sound
      <3>4. dir.archive # Absent /\ dir.manifest # Absent
        BY <3>3, AbsentAssumption
      <3>5. dir.archive.version = version /\ dir.manifest.version = version
        BY <3>1 DEF Safe, Sound
      <3> QED
        BY <3>4, <3>5 DEF CaptureKept
    <2> QED
      BY <2>1, <2>2
  <1> QED
    BY <1>1, ArchiveInvariant, PTL

\* The manifest a reader finds beside an archive describes that archive.
THEOREM ArtifactsMatch == Spec => []ManifestMatches
  <1>1. ArchiveInv => ManifestMatches
    BY DEF ArchiveInv
  <1> QED
    BY <1>1, ArchiveInvariant, PTL

\* Both at once: what a user of the tool relies on.
THEOREM ArchiveIsSound == Spec => []ArtifactsSound
  <1>1. CaptureKept /\ ManifestMatches => ArtifactsSound
    BY DEF ArtifactsSound
  <1> QED
    BY <1>1, CaptureNeverLost, ArtifactsMatch, PTL

-----------------------------------------------------------------------------
(* The reservation is held by one invocation at most.                      *)

\* Reserving is exclusive and only the holder releases.
LEMMA ReservationStep ==
    TypeOK /\ ReservationExclusive /\ [Next]_vars => ReservationExclusive'
  <1> SUFFICES ASSUME TypeOK, ReservationExclusive, [Next]_vars PROVE ReservationExclusive'
    OBVIOUS
  <1>1. ASSUME NEW p \in Proc, Reserve(p)
        PROVE  ReservationExclusive'
    BY <1>1 DEF TypeOK, Dir, ReservationExclusive, Reserve, At, Holding
  <1>2. ASSUME NEW p \in Proc, Unstage(p) \/ Cleanup(p)
        PROVE  ReservationExclusive'
    BY <1>2 DEF TypeOK, Dir, ReservationExclusive, Unstage, Cleanup, At, Holding
  <1>3. ASSUME NEW p \in Proc,
               \/ Stat(p) \/ _refuse_existing(p) \/ SyncDirectory(p) \/ LastCheck(p)
               \/ Unlink(p) \/ Kill(p)
        PROVE  ReservationExclusive'
    BY <1>3 DEF TypeOK, Dir, ReservationExclusive, Stat, _refuse_existing, SyncDirectory, LastCheck,
                Unlink, Kill, At, Holding
  <1>4. ASSUME NEW p \in Proc,
               \/ Hash(p) \/ Compress(p) \/ Verify(p) \/ Record(p) \/ LinkArchive(p)
               \/ LinkManifest(p) \/ Raise(p)
        PROVE  ReservationExclusive'
    BY <1>4 DEF TypeOK, Dir, ReservationExclusive, Hash, Compress, Verify, Record, LinkArchive,
                LinkManifest, Raise, At, Holding
  <1>5. CASE Crash
    BY <1>5 DEF ReservationExclusive, Crash, Holding
  <1>6. CASE Change \/ UNCHANGED vars
    BY <1>6 DEF TypeOK, Dir, ReservationExclusive, Change, vars
  <1> QED
    BY <1>1, <1>2, <1>3, <1>4, <1>5, <1>6 DEF Next

\* Who leaves the guarded steps has released the reservation, or was stopped from outside.
LEMMA ReleaseStep ==
    TypeOK /\ ReservationReleased /\ [Next]_vars => ReservationReleased'
  <1> SUFFICES ASSUME TypeOK, ReservationReleased, [Next]_vars PROVE ReservationReleased'
    OBVIOUS
  <1>1. ASSUME NEW p \in Proc, Reserve(p)
        PROVE  ReservationReleased'
    BY <1>1 DEF TypeOK, Dir, ReservationReleased, Reserve, At, Holding
  <1>2. ASSUME NEW p \in Proc, Unstage(p) \/ Cleanup(p)
        PROVE  ReservationReleased'
    BY <1>2 DEF TypeOK, Dir, ReservationReleased, Unstage, Cleanup
  <1>3. ASSUME NEW p \in Proc,
               \/ Stat(p) \/ _refuse_existing(p) \/ SyncDirectory(p) \/ LastCheck(p) \/ Unlink(p)
        PROVE  ReservationReleased'
    BY <1>3 DEF TypeOK, Dir, ReservationReleased, Stat, _refuse_existing, SyncDirectory, LastCheck,
                Unlink, At, Holding
  <1>4. ASSUME NEW p \in Proc,
               \/ Hash(p) \/ Compress(p) \/ Verify(p) \/ Record(p) \/ LinkArchive(p)
               \/ LinkManifest(p) \/ Raise(p)
        PROVE  ReservationReleased'
    BY <1>4 DEF TypeOK, Dir, ReservationReleased, Hash, Compress, Verify, Record, LinkArchive,
                LinkManifest, Raise, At, Holding
  <1>5. ASSUME Crash \/ \E p \in Proc : Kill(p)
        PROVE  ReservationReleased'
    BY <1>5 DEF TypeOK, ReservationReleased, Crash, Kill
  <1>6. CASE Change \/ UNCHANGED vars
    BY <1>6 DEF TypeOK, Dir, ReservationReleased, Change, vars
  <1> QED
    BY <1>1, <1>2, <1>3, <1>4, <1>5, <1>6 DEF Next

\* partial.mkdir is a lock: one invocation at most works on a capture, whoever fails, and it
\* outlives its owner only after a kill or a crash.
THEOREM OneArchiver == Spec => []ReservationSound
  <1>1. Init => ReservationExclusive /\ ReservationReleased
    BY DEF Init, ReservationExclusive, ReservationReleased, Holding
  <1>2. ReservationExclusive /\ ReservationReleased => ReservationSound
    BY DEF ReservationSound
  <1> QED
    BY <1>1, <1>2, ReservationStep, ReleaseStep, ArchiveTypes, PTL DEF Spec

-----------------------------------------------------------------------------
(* Session: a dataset is published by one, of one version, and stays.      *)

\* The steps after which something is established.
AtLink == {"link", "unlink"}
AfterManifest == AtLink \cup {"last"}
AfterAudit == AfterManifest \cup {"manifest"}
AfterStats == AfterAudit \cup {"audit"}
AfterHealth == AfterStats \cup {"stats", "same4", "closed4"}
AfterBuild == AfterHealth \cup {"health"}
AfterReplay == AfterBuild \cup {"build", "same3"}
AfterDiagnostic == AfterReplay \cup {"replay"}
AfterCollection == AfterDiagnostic \cup {"diagnostic", "same2"}
AfterFrames == AfterCollection \cup {"collection"}
AfterTimeline == AfterFrames \cup {"frames"}
AfterSnapshot == AfterTimeline \cup {"timeline", "closed"}

\* The sources are as p found them, or were when p looked for the last time. Versions only
\* grow, so that whatever p read in between it read of this version.
Fresh(p) == source = sources[p] \/ step[p] \in AtLink

\* What the files of p and its readings are, whether the sources changed or not.
Own(p) ==
    /\ step[p] \in AfterSnapshot => sources[p] \in SourceVersion /\ (source # None => sources[p] <= source)
    /\ step[p] \in AfterFrames => audited[p] \in SourceVersion
    /\ step[p] \in AfterDiagnostic => files["diagnostic"] \in Made
    /\ step[p] \in AfterBuild => files["partial"] \in Made

\* What p has found out and made, unless the sources changed.
Found(p) ==
    LET v == sources[p]
        mine == [by |-> p, v |-> v, whole |-> TRUE]
    IN /\ step[p] \in AfterTimeline => defect[v] # "timeline"
       /\ step[p] \in AfterFrames => defect[v] # "frames" /\ audited[p] = v
       /\ step[p] \in AfterCollection => defect[v] # "loss"
       /\ step[p] \in AfterReplay => files["diagnostic"].v = v
       /\ step[p] \in AfterBuild => defect[v] # "buckets" /\ files["partial"] = mine
       /\ step[p] \in AfterHealth => defect[v] # "health"
       /\ step[p] \in AfterStats => files["stats"] = mine
       /\ step[p] \in AfterAudit => files["audit"] = mine
       /\ step[p] \in AfterManifest => files["manifest"] = mine

\* A killed invocation takes no step any more.
KilledOver == \A p \in Inv : ended[p] = "killed" => step[p] = "over"

\* Once a dataset is published, who still works is about to refuse, or has published it.
NobodyWorks ==
    files["final"] # None /\ files["final"].by # None =>
        \A p \in Inv : step[p] \in Trying =>
            step[p] = "exists" \/ (step[p] = "unlink" /\ files["final"].by = p)

Unlinking ==
    \A p \in Inv : step[p] = "unlink" => files["final"] # None /\ files["final"].by = p

\* The inductive invariant.
IInv ==
    /\ SessionTypeOK
    /\ OneFinaliser /\ LockReleased /\ KilledOver
    /\ \A p \in Inv : Own(p) /\ (Fresh(p) => Found(p))
    /\ PublishedWhole /\ NobodyWorks
    /\ Unlinking /\ ReturnedPublished

-----------------------------------------------------------------------------
\* A step of the try: only p moves on, to another step of it or to the finally clause.
Moves(p) ==
    /\ step[p] \in Trying
    /\ \E x \in Trying \cup {"unlock"} : step' = [step EXCEPT ![p] = x]
    /\ \E e \in {"no", "returned", "raised"} : ended' = [ended EXCEPT ![p] = e]
    /\ lock' = lock /\ source' = source /\ writing' = writing /\ defect' = defect

\* The steps of p that look at something and change no file.
Looks(p) ==
    \/ NoArtifacts(p) \/ snapshot(p) \/ check_closed(p, "closed", "timeline")
    \/ Timeline(p) \/ audit(p) \/ check_collection(p) \/ Recheck(p, "same2", "diagnostic")
    \/ Recheck(p, "same3", "build") \/ check_health(p) \/ check_closed(p, "closed4", "same4")
    \/ Recheck(p, "same4", "stats") \/ FinalCheck(p) \/ Raises(p)

\* The steps of p that make or remove a file.
Makes(p) ==
    \/ Diagnostic(p) \/ Replay(p) \/ Build(p) \/ Stats(p) \/ NetworkAudit(p) \/ Manifest(p)
    \/ Link(p) \/ UnlinkPartial(p)
    \/ CreateFails(p, "replay", "replay") \/ CreateFails(p, "partial", "build")
    \/ \E o \in Companion : CreateFails(p, o, o)

\* A step of the environment.
World == Open \/ Write \/ Close \/ ArchivedAway \/ Foreign

\* The next-state relation by these kinds.
LEMMA Kinds ==
    ASSUME SNext
    PROVE  \/ \E p \in Inv : Lock(p) \/ Looks(p) \/ Makes(p) \/ Unlock(p) \/ Killed(p)
           \/ World
  BY DEF SNext, finalize, Publish, Looks, Makes, World

\* An invocation that has ended nowhere is not killed.
LEMMA LooksMove ==
    ASSUME IInv, NEW p \in Inv, Looks(p)
    PROVE  Moves(p) /\ files' = files
  <1>1. step \in [Inv -> Trying \cup {"lock", "unlock", "over"}] /\ ended \in [Inv -> {"no", "returned", "raised", "killed"}]
    BY DEF IInv, SessionTypeOK
  <1>2. step[p] # "over" => ended[p] # "killed"
    BY DEF IInv, KilledOver
  <1>3. CASE NoArtifacts(p) \/ snapshot(p) \/ check_closed(p, "closed", "timeline") \/ Timeline(p)
    BY <1>1, <1>2, <1>3 DEF Moves, NoArtifacts, snapshot, check_closed, Timeline, Advance, Trying
  <1>4. CASE audit(p) \/ check_collection(p) \/ Recheck(p, "same2", "diagnostic") \/ Recheck(p, "same3", "build")
    BY <1>1, <1>2, <1>4 DEF Moves, audit, check_collection, Recheck, Advance, Trying
  <1>5. CASE check_health(p) \/ check_closed(p, "closed4", "same4") \/ Recheck(p, "same4", "stats")
             \/ FinalCheck(p) \/ Raises(p)
    BY <1>1, <1>2, <1>5 DEF Moves, check_health, check_closed, Recheck, FinalCheck, Raises, Advance, Trying
  <1> QED
    BY <1>3, <1>4, <1>5 DEF Looks

\* The same of the steps that make files.
LEMMA MakesMove ==
    ASSUME IInv, NEW p \in Inv, Makes(p)
    PROVE  Moves(p) /\ sources' = sources /\ audited' = audited
  <1>1. step \in [Inv -> Trying \cup {"lock", "unlock", "over"}] /\ ended \in [Inv -> {"no", "returned", "raised", "killed"}]
    BY DEF IInv, SessionTypeOK
  <1>2. step[p] # "over" => ended[p] # "killed"
    BY DEF IInv, KilledOver
  <1>3. CASE Diagnostic(p) \/ Replay(p) \/ Build(p)
    BY <1>1, <1>2, <1>3 DEF Moves, Diagnostic, Replay, Build, create, Advance, Trying
  <1>4. CASE Stats(p) \/ NetworkAudit(p) \/ Manifest(p)
    BY <1>1, <1>2, <1>4 DEF Moves, Stats, NetworkAudit, Manifest, create, Advance, Trying
  <1>5. CASE Link(p) \/ UnlinkPartial(p)
    BY <1>1, <1>2, <1>5 DEF Moves, Link, UnlinkPartial, Advance, Trying
  <1>6. CASE CreateFails(p, "replay", "replay") \/ CreateFails(p, "partial", "build")
             \/ \E o \in Companion : CreateFails(p, o, o)
    BY <1>1, <1>2, <1>6 DEF Moves, CreateFails, Companion, Advance, Trying
  <1> QED
    BY <1>3, <1>4, <1>5, <1>6 DEF Makes

-----------------------------------------------------------------------------
\* Who works is alone, so that a step of the try concerns no other invocation's facts.
LEMMA Alone ==
    ASSUME IInv, NEW p \in Inv, NEW q \in Inv, q # p, step[p] \in Trying \cup {"unlock"}
    PROVE  step[q] \notin Trying \cup {"unlock"}
  BY DEF IInv, OneFinaliser

LockInv == OneFinaliser /\ LockReleased /\ KilledOver

\* The lock is kept by who works.
LEMMA LockStep ==
    ASSUME IInv, [SNext]_svars
    PROVE  LockInv'
  <1>t. /\ step \in [Inv -> Trying \cup {"lock", "unlock", "over"}]
        /\ ended \in [Inv -> {"no", "returned", "raised", "killed"}]
        /\ LockInv
    BY DEF IInv, SessionTypeOK, LockInv
  <1>1. ASSUME NEW p \in Inv, Moves(p) PROVE LockInv'
    BY <1>t, <1>1 DEF Moves, LockInv, OneFinaliser, LockReleased, KilledOver, Trying
  <1>2. ASSUME NEW p \in Inv, Lock(p) PROVE LockInv'
    BY <1>t, <1>2, SessionAssumption DEF Lock, LockInv, OneFinaliser, LockReleased, KilledOver, Trying
  <1>3. ASSUME NEW p \in Inv, Unlock(p) \/ Killed(p) PROVE LockInv'
    BY <1>t, <1>3, SessionAssumption
       DEF Unlock, Killed, LockInv, OneFinaliser, LockReleased, KilledOver, Trying
  <1>4. CASE World \/ UNCHANGED svars
    BY <1>t, <1>4 DEF World, Open, Write, Close, ArchivedAway, Foreign, svars, LockInv, OneFinaliser,
       LockReleased, KilledOver
  <1> QED
    BY <1>1, <1>2, <1>3, <1>4, Kinds, LooksMove, MakesMove

\* A step of the tool leaves the sources alone and others' facts as they are.
LEMMA OthersKept ==
    ASSUME IInv, NEW p \in Inv, Moves(p), NEW q \in Inv, q # p
    PROVE  Own(q)' /\ (Fresh(q)' => Found(q)')
  <1>1. step[q] \notin Trying
    BY Alone DEF Moves
  <1>2. step'[q] = step[q]
    BY DEF Moves, IInv, SessionTypeOK
  <1>3. step'[q] \notin AfterSnapshot
    BY <1>1, <1>2 DEF Trying, AfterSnapshot, AfterTimeline, AfterFrames, AfterCollection,
       AfterDiagnostic, AfterReplay, AfterBuild, AfterHealth, AfterStats, AfterAudit,
       AfterManifest, AtLink
  <1> QED
    BY <1>3 DEF Own, Found, AfterSnapshot, AfterTimeline, AfterFrames, AfterCollection,
       AfterDiagnostic, AfterReplay, AfterBuild, AfterHealth, AfterStats, AfterAudit,
       AfterManifest

Work(p) == Own(p) /\ (Fresh(p) => Found(p))

\* A look tells p something about the version it is of.
LEMMA LooksWork ==
    ASSUME IInv, NEW p \in Inv, Looks(p)
    PROVE  Work(p)'
  <1>t. /\ step \in [Inv -> Trying \cup {"lock", "unlock", "over"}]
        /\ sources \in [Inv -> SourceVersion \cup {None}]
        /\ audited \in [Inv -> SourceVersion \cup {None}]
        /\ source \in SourceVersion \cup {None}
    BY DEF IInv, SessionTypeOK
  <1>w. Own(p) /\ (Fresh(p) => Found(p))
    BY DEF IInv
  <1>n. None \notin SourceVersion /\ (\A v \in SourceVersion : v <= v)
    BY SessionAssumption DEF SourceVersion
  <1>m. files' = files /\ source' = source /\ defect' = defect
    BY LooksMove DEF Moves
  <1> USE DEF Work, Own, Fresh, Found, Advance, AfterSnapshot, AfterTimeline, AfterFrames, AfterCollection,
       AfterDiagnostic, AfterReplay, AfterBuild, AfterHealth, AfterStats, AfterAudit,
       AfterManifest, AtLink
  <1>1. CASE NoArtifacts(p) \/ Raises(p)
    BY <1>t, <1>1 DEF NoArtifacts, Raises
  <1>2. CASE snapshot(p)
    BY <1>t, <1>n, <1>m, <1>2 DEF snapshot
  <1>3. CASE check_closed(p, "closed", "timeline") \/ check_closed(p, "closed4", "same4")
    BY <1>t, <1>w, <1>m, <1>3 DEF check_closed
  <1>4. CASE Timeline(p)
    BY <1>t, <1>w, <1>m, <1>4 DEF Timeline
  <1>5. CASE audit(p)
    BY <1>t, <1>w, <1>m, <1>5 DEF audit
  <1>6. CASE check_collection(p)
    BY <1>t, <1>w, <1>m, <1>6 DEF check_collection
  <1>7. CASE Recheck(p, "same2", "diagnostic") \/ Recheck(p, "same3", "build") \/ Recheck(p, "same4", "stats")
    BY <1>t, <1>w, <1>m, <1>7 DEF Recheck
  <1>8. CASE check_health(p)
    BY <1>t, <1>w, <1>m, <1>8 DEF check_health
  <1>9. CASE FinalCheck(p)
    BY <1>t, <1>w, <1>m, <1>9 DEF FinalCheck, same
  <1> QED
    BY <1>1, <1>2, <1>3, <1>4, <1>5, <1>6, <1>7, <1>8, <1>9 DEF Looks

\* A file that p makes from a version is a file.
LEMMA MadeRecord ==
    ASSUME NEW p \in Inv, NEW v \in SourceVersion, NEW w \in BOOLEAN
    PROVE  [by |-> p, v |-> v, whole |-> w] \in Made
  BY DEF Made

\* The files of p are of the version that p read.
LEMMA MakesWork ==
    ASSUME IInv, NEW p \in Inv, Makes(p)
    PROVE  Work(p)' /\ files' \in [Output -> Made \cup {None}]
  <1>t. /\ step \in [Inv -> Trying \cup {"lock", "unlock", "over"}]
        /\ sources \in [Inv -> SourceVersion \cup {None}]
        /\ audited \in [Inv -> SourceVersion \cup {None}]
        /\ files \in [Output -> Made \cup {None}]
        /\ source \in SourceVersion \cup {None}
    BY DEF IInv, SessionTypeOK
  <1>w. Own(p) /\ (Fresh(p) => Found(p))
    BY DEF IInv
  <1>m. sources' = sources /\ audited' = audited /\ source' = source /\ defect' = defect
    BY MakesMove DEF Moves
  <1>v. \A f \in Made : f.v \in SourceVersion
    BY DEF Made
  <1>o. {"diagnostic", "replay", "partial", "final", "stats", "audit", "manifest"} = Output
    BY DEF Output
  <1> DEFINE mine(v) == [by |-> p, v |-> v, whole |-> TRUE]
             failed(v) == [by |-> p, v |-> v, whole |-> FALSE]
  <1>r. \A v \in SourceVersion : mine(v) \in Made /\ failed(v) \in Made
    BY MadeRecord
  <1>f. \A v : mine(v).v = v
    OBVIOUS
  <1> HIDE DEF mine, failed
  <1> USE DEF Work, Own, Fresh, Found, Advance, AfterSnapshot, AfterTimeline, AfterFrames, AfterCollection,
       AfterDiagnostic, AfterReplay, AfterBuild, AfterHealth, AfterStats, AfterAudit,
       AfterManifest, AtLink
  <1>1. CASE Diagnostic(p)
    <2>1. step[p] = "diagnostic" /\ mine(sources[p]) \in Made
      BY <1>t, <1>w, <1>r, <1>1 DEF Diagnostic, create
    <2>2. files' = IF files["diagnostic"] = None THEN [files EXCEPT !["diagnostic"] = mine(sources[p])] ELSE files
      BY <1>1 DEF Diagnostic, create, Put, mine
    <2> QED
      BY <1>t, <1>w, <1>m, <1>1, <1>o, <2>1, <2>2 DEF Diagnostic, create
  <1>2. CASE Replay(p)
    <2>1. step[p] = "replay" /\ (source # None => mine(source) \in Made)
      BY <1>t, <1>w, <1>r, <1>2 DEF Replay
    <2>2. files' = IF files["replay"] = None /\ source # None
                   THEN [files EXCEPT !["replay"] = mine(source), !["diagnostic"] = mine(source)] ELSE files
      BY <1>2 DEF Replay, mine
    <2>3. step' = [step EXCEPT ![p] = IF files["replay"] = None /\ source # None THEN "same3" ELSE "unlock"]
      BY <1>2 DEF Replay
    <2>4. files' \in [Output -> Made \cup {None}]
      BY <1>t, <1>o, <2>1, <2>2
    <2>5. CASE files["replay"] = None /\ source # None
      <3>1. files'["diagnostic"] = mine(source)
        BY <1>t, <1>o, <2>2, <2>5
      <3>2. step'[p] = "same3"
        BY <1>t, <2>3, <2>5
      <3>3. Own(p)'
        BY <1>w, <1>m, <2>1, <2>5, <3>1, <3>2
      <3>4. files'["diagnostic"].v = source
        BY <3>1, <1>f
      <3>5. Fresh(p)' => Found(p)'
        BY <1>w, <1>m, <2>1, <3>2, <3>4
      <3> QED
        BY <2>4, <3>3, <3>5
    <2>6. CASE ~(files["replay"] = None /\ source # None)
      <3>1. step'[p] = "unlock"
        BY <1>t, <2>3, <2>6
      <3> QED
        BY <2>4, <3>1
    <2> QED
      BY <2>5, <2>6
  <1>3. CASE Build(p)
    <2> DEFINE d == files["diagnostic"].v
               part == [by |-> p, v |-> d, whole |-> (d = source)]
    <2>1. step[p] = "build" /\ d \in SourceVersion
      BY <1>t, <1>w, <1>v, <1>3 DEF Build
    <2>2. part \in Made
      BY <2>1, MadeRecord
    <2>3. d = source => part = mine(d)
      BY DEF mine
    <2>4. files' = IF source # None THEN [files EXCEPT !["partial"] = part] ELSE files
      BY <1>3 DEF Build, Put
    <2>5. step' = [step EXCEPT ![p] = IF source # None /\ defect[d] # "buckets" THEN "health" ELSE "unlock"]
      BY <1>3 DEF Build
    <2> HIDE DEF part, d
    <2>6. files' \in [Output -> Made \cup {None}]
      BY <1>t, <2>2, <2>4
    <2>7. Own(p)'
      BY <1>t, <1>w, <1>m, <1>o, <2>1, <2>2, <2>4, <2>5
    <2>8. Fresh(p)' => Found(p)'
      BY <1>t, <1>w, <1>m, <1>o, <2>1, <2>2, <2>3, <2>4, <2>5 DEF d, mine
    <2> QED
      BY <2>6, <2>7, <2>8
  <1>4. CASE Stats(p)
    <2>1. step[p] = "stats" /\ mine(files["partial"].v) \in Made
      BY <1>t, <1>w, <1>r, <1>v, <1>4 DEF Stats, create
    <2>2. files' = IF files["stats"] = None THEN [files EXCEPT !["stats"] = mine(files["partial"].v)] ELSE files
      BY <1>4 DEF Stats, create, Put, mine
    <2>3. Fresh(p) => files["partial"].v = sources[p] /\ files["partial"] = mine(sources[p])
      BY <1>w, <2>1 DEF mine
    <2> QED
      BY <1>t, <1>w, <1>m, <1>4, <1>o, <2>1, <2>2, <2>3 DEF Stats, create, mine
  <1>5. CASE NetworkAudit(p)
    <2>1. step[p] = "audit" /\ mine(audited[p]) \in Made
      BY <1>t, <1>w, <1>r, <1>5 DEF NetworkAudit, create
    <2>2. files' = IF files["audit"] = None THEN [files EXCEPT !["audit"] = mine(audited[p])] ELSE files
      BY <1>5 DEF NetworkAudit, create, Put, mine
    <2> QED
      BY <1>t, <1>w, <1>m, <1>5, <1>o, <2>1, <2>2 DEF NetworkAudit, create, mine
  <1>6. CASE Manifest(p)
    <2>1. step[p] = "manifest" /\ mine(sources[p]) \in Made
      BY <1>t, <1>w, <1>r, <1>6 DEF Manifest, create
    <2>2. files' = IF files["manifest"] = None THEN [files EXCEPT !["manifest"] = mine(sources[p])] ELSE files
      BY <1>6 DEF Manifest, create, Put, mine
    <2> QED
      BY <1>t, <1>w, <1>m, <1>6, <1>o, <2>1, <2>2 DEF Manifest, create, mine
  <1>7. CASE Link(p)
    BY <1>t, <1>w, <1>m, <1>7, <1>o DEF Link
  <1>8. CASE UnlinkPartial(p)
    BY <1>t, <1>8, <1>o DEF UnlinkPartial
  <1>9. ASSUME NEW o \in Output, NEW here \in AfterSnapshot, CreateFails(p, o, here)
        PROVE  Work(p)' /\ files' \in [Output -> Made \cup {None}]
    <2>1. failed(sources[p]) \in Made
      BY <1>t, <1>w, <1>r, <1>9 DEF CreateFails
    <2>2. files' = [files EXCEPT ![o] = failed(sources[p])]
      BY <1>9 DEF CreateFails, Put, failed
    <2> QED
      BY <1>t, <1>9, <2>1, <2>2 DEF CreateFails
  <1>10. CASE CreateFails(p, "replay", "replay") \/ CreateFails(p, "partial", "build")
              \/ \E o \in Companion : CreateFails(p, o, o)
    BY <1>9, <1>10, <1>o DEF Companion
  <1> QED
    BY <1>1, <1>2, <1>3, <1>4, <1>5, <1>6, <1>7, <1>8, <1>10 DEF Makes

\* What the sources' changes leave of it: a version that was left does not come back.
LEMMA WorkStep ==
    ASSUME IInv, [SNext]_svars
    PROVE  \A q \in Inv : Work(q)'
  <1>t. /\ step \in [Inv -> Trying \cup {"lock", "unlock", "over"}]
        /\ sources \in [Inv -> SourceVersion \cup {None}]
        /\ source \in SourceVersion \cup {None}
        /\ files \in [Output -> Made \cup {None}]
    BY DEF IInv, SessionTypeOK
  <1>w. \A q \in Inv : Own(q) /\ (Fresh(q) => Found(q))
    BY DEF IInv
  <1>n. None \notin SourceVersion /\ SourceVersion \subseteq Int
    BY SessionAssumption DEF SourceVersion
  <1>1. ASSUME NEW p \in Inv, Looks(p) \/ Makes(p)
        PROVE  \A q \in Inv : Work(q)'
    <2>1. Moves(p) /\ Work(p)'
      BY <1>1, LooksMove, MakesMove, LooksWork, MakesWork
    <2> QED
      BY <2>1, OthersKept DEF Work
  <1> USE DEF Work, Own, Fresh, Found, AfterSnapshot, AfterTimeline, AfterFrames, AfterCollection,
       AfterDiagnostic, AfterReplay, AfterBuild, AfterHealth, AfterStats, AfterAudit,
       AfterManifest, AtLink
  <1>2. ASSUME NEW p \in Inv, Lock(p) \/ Unlock(p) \/ Killed(p), NEW q \in Inv
        PROVE  Work(q)'
    <2>1. step'[q] = step[q] \/ step'[q] \in {"exists", "over"}
      BY <1>t, <1>2 DEF Lock, Unlock, Killed
    <2>2. UNCHANGED <<source, defect, files, sources, audited>>
      BY <1>2 DEF Lock, Unlock, Killed
    <2> QED
      BY <1>w, <2>1, <2>2
  <1>3. CASE Open \/ Close \/ UNCHANGED svars
    BY <1>w, <1>3 DEF Open, Close, svars
  <1>4. CASE Write \/ ArchivedAway
    <2>1. UNCHANGED <<defect, files, step, sources, audited>>
      BY <1>4 DEF Write, ArchivedAway
    <2>2. source # None /\ (source' = None \/ source' = source + 1)
      BY <1>4 DEF Write, ArchivedAway
    <2> SUFFICES ASSUME NEW q \in Inv PROVE Work(q)'
      OBVIOUS
    <2>g. step[q] \in AfterSnapshot => sources[q] \in Int /\ source \in Int /\ sources[q] <= source
      BY <1>t, <1>w, <1>n, <2>2
    <2>h. step[q] \in AfterSnapshot /\ source' # None => sources[q] <= source' /\ source' # sources[q]
      BY <2>2, <2>g
    <2>3. Own(q)'
      BY <1>w, <2>1, <2>h
    <2>4. step[q] \in AfterSnapshot /\ Fresh(q)' => Fresh(q)
      BY <1>w, <1>n, <2>1, <2>h
    <2>5. Fresh(q)' => Found(q)'
      BY <1>w, <2>1, <2>4
    <2> QED
      BY <2>3, <2>5
  <1>5. CASE Foreign
    <2>1. \A o \in Output \ {"final"} : files'[o] = files[o]
      BY <1>t, <1>5 DEF Foreign
    <2>2. {"diagnostic", "partial", "stats", "audit", "manifest"} \subseteq Output \ {"final"}
      BY DEF Output
    <2> QED
      BY <1>w, <1>5, <2>1, <2>2 DEF Foreign
  <1> QED
    BY <1>1, <1>2, <1>3, <1>4, <1>5, Kinds DEF World

\* Every step keeps types.
LEMMA TypeStep ==
    ASSUME IInv, [SNext]_svars
    PROVE  SessionTypeOK'
  <1>t. SessionTypeOK
    BY DEF IInv
  <1>1. ASSUME NEW p \in Inv, Looks(p) PROVE SessionTypeOK'
    <2>1. Moves(p) /\ files' = files
      BY <1>1, LooksMove
    <2>2. sources' \in [Inv -> SourceVersion \cup {None}] /\ audited' \in [Inv -> SourceVersion \cup {None}]
      BY <1>t, <1>1 DEF SessionTypeOK, Looks, NoArtifacts, snapshot, check_closed, Timeline, audit,
         check_collection, Recheck, check_health, FinalCheck, Raises
    <2> QED
      BY <1>t, <2>1, <2>2 DEF SessionTypeOK, Moves
  <1>2. ASSUME NEW p \in Inv, Makes(p) PROVE SessionTypeOK'
    <2>1. Moves(p) /\ sources' = sources /\ audited' = audited /\ files' \in [Output -> Made \cup {None}]
      BY <1>2, MakesMove, MakesWork
    <2> QED
      BY <1>t, <2>1 DEF SessionTypeOK, Moves
  <1>3. ASSUME NEW p \in Inv, Lock(p) \/ Unlock(p) \/ Killed(p) PROVE SessionTypeOK'
    BY <1>t, <1>3 DEF SessionTypeOK, Lock, Unlock, Killed, Trying
  <1>4. CASE Open \/ Close \/ ArchivedAway \/ UNCHANGED svars
    BY <1>t, <1>4 DEF SessionTypeOK, Open, Close, ArchivedAway, svars
  <1>5. CASE Write
    <2>1. source + 1 \in SourceVersion
      BY <1>t, <1>5, SessionAssumption DEF SessionTypeOK, Write, SourceVersion
    <2> QED
      BY <1>t, <1>5, <2>1 DEF SessionTypeOK, Write
  <1>6. CASE Foreign
    <2>1. 0 \in SourceVersion
      BY SessionAssumption DEF SourceVersion
    <2>2. [by |-> None, v |-> 0, whole |-> TRUE] \in Made
      BY <2>1 DEF Made
    <2> QED
      BY <1>t, <1>6, <2>2 DEF SessionTypeOK, Foreign
  <1> QED
    BY <1>1, <1>2, <1>3, <1>4, <1>5, <1>6, Kinds DEF World

-----------------------------------------------------------------------------
\* How an invocation gets to the last step of the try, returns, and gets past the test for
\* artifacts.
Passage(q) ==
    /\ step'[q] = "unlink" => step[q] = "unlink" \/ (Link(q) /\ files["final"] = None)
    /\ ended'[q] = "returned" => ended[q] = "returned" \/ step[q] = "unlink"
    /\ step'[q] \in Trying => step[q] \in Trying \/ step'[q] = "exists"
    /\ files["final"] # None /\ step[q] = "exists" => step'[q] \notin Trying \ {"exists"}
    /\ step[q] = "unlink" => step'[q] \in {"unlink", "unlock", "over"}

\* Every step makes such a passage.
LEMMA PassageStep ==
    ASSUME IInv, [SNext]_svars, NEW q \in Inv
    PROVE  Passage(q)
  <1>t. /\ step \in [Inv -> Trying \cup {"lock", "unlock", "over"}]
        /\ ended \in [Inv -> {"no", "returned", "raised", "killed"}]
    BY DEF IInv, SessionTypeOK
  <1>o. "final" \in Output
    BY DEF Output
  <1> USE DEF Passage, Trying
  <1>1. ASSUME NEW p \in Inv, Lock(p) \/ Unlock(p) \/ Killed(p)
        PROVE  Passage(q)
    BY <1>t, <1>1 DEF Lock, Unlock, Killed
  <1>2. ASSUME NEW p \in Inv, Looks(p)
        PROVE  Passage(q)
    <2>1. CASE NoArtifacts(p)
      BY <1>t, <1>o, <2>1 DEF NoArtifacts, Advance
    <2>2. CASE ~NoArtifacts(p)
      BY <1>t, <1>2, <2>2 DEF Looks, Advance, snapshot, check_closed, Timeline, audit, check_collection,
         Recheck, check_health, FinalCheck, Raises
    <2> QED
      BY <2>1, <2>2
  <1>3. ASSUME NEW p \in Inv, Makes(p)
        PROVE  Passage(q)
    <2>1. CASE Link(p)
      BY <1>t, <2>1 DEF Link, Advance
    <2>2. CASE UnlinkPartial(p)
      BY <1>t, <2>2 DEF UnlinkPartial
    <2>3. CASE Diagnostic(p) \/ Replay(p) \/ Build(p)
      BY <1>t, <2>3 DEF Diagnostic, Replay, Build, create, Advance
    <2>4. CASE Stats(p) \/ NetworkAudit(p) \/ Manifest(p)
      BY <1>t, <2>4 DEF Stats, NetworkAudit, Manifest, create, Advance
    <2>5. CASE CreateFails(p, "replay", "replay") \/ CreateFails(p, "partial", "build")
               \/ \E o \in Companion : CreateFails(p, o, o)
      BY <1>t, <2>5 DEF CreateFails, Companion, Advance
    <2> QED
      BY <1>3, <2>1, <2>2, <2>3, <2>4, <2>5 DEF Makes
  <1>4. CASE World \/ UNCHANGED svars
    BY <1>4 DEF World, Open, Write, Close, ArchivedAway, Foreign, svars
  <1> QED
    BY <1>1, <1>2, <1>3, <1>4, Kinds

\* What PublishedKept says of one step.
KeptStep ==
    files["final"] # None =>
        /\ files'["final"] = files["final"]
        /\ files["final"].by # None => \A c \in Companion : files'[c] = files[c]

\* Nobody touches a dataset, and nobody what stands beside one that an invocation made.
LEMMA FilesStep ==
    ASSUME IInv, [SNext]_svars
    PROVE  KeptStep /\ (files["final"] = None /\ files'["final"] # None =>
                            Foreign \/ \E p \in Inv : Link(p))
  <1>t. step \in [Inv -> Trying \cup {"lock", "unlock", "over"}] /\ files \in [Output -> Made \cup {None}]
    BY DEF IInv, SessionTypeOK
  <1>1. ASSUME NEW p \in Inv, Lock(p) \/ Unlock(p) \/ Killed(p) \/ Looks(p)
        PROVE  files' = files
    BY <1>1, LooksMove DEF Lock, Unlock, Killed
  <1>2. ASSUME NEW p \in Inv, Makes(p)
        PROVE  KeptStep /\ (files["final"] = None /\ files'["final"] # None => Link(p))
    <2>1. files["final"] # None /\ files["final"].by # None => step[p] \in {"exists", "unlink"}
      BY <1>2, MakesMove DEF IInv, NobodyWorks, Moves
    <2>2. Link(p) \/ files'["final"] = files["final"]
      BY <1>t, <1>2 DEF Makes, Diagnostic, Replay, Build, Stats, NetworkAudit, Manifest, UnlinkPartial,
         CreateFails, create, Put, Output, Companion
    <2>3. Link(p) /\ files["final"] # None => files' = files
      BY DEF Link
    <2>4. step[p] = "unlink" => UnlinkPartial(p)
      BY <1>2 DEF Makes, Diagnostic, Replay, Build, Stats, NetworkAudit, Manifest, Link,
         CreateFails, create, Advance, Companion
    <2>5. UnlinkPartial(p) => \A c \in Companion : files'[c] = files[c]
      BY <1>t DEF UnlinkPartial, Companion, Output
    <2>6. step[p] # "exists"
      BY <1>2 DEF Makes, Diagnostic, Replay, Build, Stats, NetworkAudit, Manifest, Link, UnlinkPartial,
         CreateFails, create, Advance, Companion
    <2> QED
      BY <2>1, <2>2, <2>3, <2>4, <2>5, <2>6 DEF KeptStep
  <1>3. CASE Open \/ Write \/ Close \/ ArchivedAway \/ UNCHANGED svars
    BY <1>3 DEF Open, Write, Close, ArchivedAway, svars, KeptStep
  <1>4. CASE Foreign
    BY <1>4 DEF Foreign, KeptStep
  <1> QED
    BY <1>1, <1>2, <1>3, <1>4, Kinds DEF World, KeptStep

\* A dataset is published only when what p found out is of one version without a defect.
LEMMA LinkStep ==
    ASSUME IInv, NEW p \in Inv, Link(p), files["final"] = None
    PROVE  /\ files'["final"] # None /\ files'["final"].by = p
           /\ PublishedWhole'
  <1> DEFINE v == sources[p]
             mine == [by |-> p, v |-> v, whole |-> TRUE]
  <1>t. /\ files \in [Output -> Made \cup {None}] /\ defect \in [SourceVersion -> Defect \cup {None}]
        /\ Output = {"diagnostic", "replay", "partial", "final", "stats", "audit", "manifest"}
        /\ Companion = {"stats", "audit", "manifest"}
    BY DEF IInv, SessionTypeOK, Output, Companion
  <1>1. step[p] = "link"
    BY DEF Link, Advance
  <1>2. Fresh(p) /\ Own(p) /\ Found(p)
    BY <1>1 DEF IInv, Fresh, AtLink
  <1>3. v \in SourceVersion
    BY <1>1, <1>2 DEF Own, AfterSnapshot, AfterTimeline, AfterFrames, AfterCollection,
       AfterDiagnostic, AfterReplay, AfterBuild, AfterHealth, AfterStats, AfterAudit, AfterManifest, AtLink
  <1>4. /\ files["partial"] = mine /\ files["stats"] = mine /\ files["audit"] = mine /\ files["manifest"] = mine
        /\ defect[v] \notin Defect
    BY <1>1, <1>2 DEF Found, Defect, AfterTimeline, AfterFrames, AfterCollection,
       AfterDiagnostic, AfterReplay, AfterBuild, AfterHealth, AfterStats, AfterAudit, AfterManifest, AtLink
  <1>5. mine \in Made
    BY <1>3, MadeRecord
  <1>6. mine # None /\ mine.by = p /\ mine.v = v /\ mine.whole = TRUE
    BY <1>5, NoneAssumption
  <1>7. defect[v] = None
    BY <1>t, <1>3, <1>4
  <1> HIDE DEF mine, v
  <1>8. files' = [files EXCEPT !["final"] = mine] /\ defect' = defect
    BY <1>4 DEF Link
  <1>9. files'["final"] = mine /\ \A c \in Companion : files'[c] = mine
    BY <1>t, <1>4, <1>8
  <1>10. mine = [by |-> mine.by, v |-> mine.v, whole |-> TRUE]
    BY <1>6 DEF mine
  <1> QED
    BY <1>6, <1>7, <1>8, <1>9, <1>10 DEF PublishedWhole

PublishInv == PublishedWhole /\ NobodyWorks /\ Unlinking /\ ReturnedPublished

\* Publication, step by step.
LEMMA PublishStep ==
    ASSUME IInv, [SNext]_svars
    PROVE  PublishInv'
  <1>p. PublishedWhole /\ NobodyWorks /\ Unlinking /\ ReturnedPublished
    BY DEF IInv
  <1>q. \A q \in Inv : Passage(q)
    BY PassageStep
  <1>k. KeptStep
    BY FilesStep
  <1>d. defect' = defect
    <2>1. ASSUME NEW p \in Inv, Moves(p) \/ Lock(p) \/ Unlock(p) \/ Killed(p) PROVE defect' = defect
      BY <2>1 DEF Moves, Lock, Unlock, Killed
    <2>2. World \/ UNCHANGED svars => defect' = defect
      BY DEF World, Open, Write, Close, ArchivedAway, Foreign, svars
    <2> QED
      BY <2>1, <2>2, Kinds, LooksMove, MakesMove
  <1>1. CASE files["final"] # None
    <2>1. PublishedWhole'
      BY <1>p, <1>k, <1>d, <1>1 DEF KeptStep, PublishedWhole
    <2>2. NobodyWorks'
      <3>1. "unlock" \notin Trying /\ "over" \notin Trying
        BY DEF Trying
      <3> QED
        BY <1>p, <1>q, <1>k, <1>1, <3>1 DEF KeptStep, NobodyWorks, Passage
    <2>3. Unlinking' /\ ReturnedPublished'
      BY <1>p, <1>q, <1>k, <1>1 DEF KeptStep, Unlinking, ReturnedPublished, Passage
    <2> QED
      BY <2>1, <2>2, <2>3 DEF PublishInv
  <1>2. ASSUME files["final"] = None, NEW p \in Inv, Link(p)
        PROVE  PublishInv'
    <2>1. files'["final"] # None /\ files'["final"].by = p /\ PublishedWhole'
      BY <1>2, LinkStep
    <2>2. step[p] = "link" /\ step' = [step EXCEPT ![p] = "unlink"]
      BY <1>2 DEF Link, Advance
    <2>3. \A q \in Inv : q # p => step[q] \notin Trying /\ step'[q] = step[q]
      BY <2>2, Alone DEF Trying
    <2>4. step'[p] = "unlink"
      BY <2>2 DEF IInv, SessionTypeOK
    <2>5. NobodyWorks'
      BY <2>1, <2>3, <2>4 DEF NobodyWorks
    <2>6. Unlinking'
      BY <2>1, <2>3 DEF Unlinking, Trying
    <2>7. ReturnedPublished'
      BY <1>p, <1>q, <1>2, <2>2 DEF ReturnedPublished, Unlinking, Passage
    <2> QED
      BY <2>1, <2>5, <2>6, <2>7 DEF PublishInv
  <1>3. ASSUME files["final"] = None, ~\E p \in Inv : Link(p)
        PROVE  PublishInv'
    <2>1. Foreign \/ files'["final"] = None
      BY <1>3, FilesStep
    <2>2. \A q \in Inv : step'[q] # "unlink" /\ ended'[q] # "returned"
      BY <1>p, <1>q, <1>3 DEF Passage, Unlinking, ReturnedPublished
    <2>3. files'["final"] # None => files'["final"].by = None
      <3>1. CASE Foreign
        <4>1. files' = [files EXCEPT !["final"] = [by |-> None, v |-> 0, whole |-> TRUE]]
          BY <3>1 DEF Foreign
        <4>2. files'["final"] = [by |-> None, v |-> 0, whole |-> TRUE]
          BY <4>1 DEF IInv, SessionTypeOK, Output
        <4> QED
          BY <4>2
      <3> QED
        BY <2>1, <3>1
    <2> QED
      BY <2>2, <2>3 DEF PublishInv, PublishedWhole, NobodyWorks, Unlinking, ReturnedPublished
  <1> QED
    BY <1>1, <1>2, <1>3

-----------------------------------------------------------------------------
\* Before the first step nothing is locked, made or found out.
LEMMA InitIInv == SInit => IInv
  <1> SUFFICES ASSUME SInit PROVE IInv
    OBVIOUS
  <1>1. SessionTypeOK
    BY SessionAssumption DEF SInit, SessionTypeOK, SourceVersion
  <1>2. OneFinaliser /\ LockReleased /\ KilledOver
    BY SessionAssumption DEF SInit, OneFinaliser, LockReleased, KilledOver, Trying
  <1>3. \A p \in Inv : Own(p) /\ (Fresh(p) => Found(p))
    BY DEF SInit, Own, Found, AfterSnapshot, AfterTimeline, AfterFrames, AfterCollection,
       AfterDiagnostic, AfterReplay, AfterBuild, AfterHealth, AfterStats, AfterAudit, AfterManifest, AtLink
  <1>4. PublishedWhole /\ NobodyWorks /\ Unlinking /\ ReturnedPublished
    BY DEF SInit, PublishedWhole, NobodyWorks, Unlinking, ReturnedPublished, Output
  <1> QED
    BY <1>1, <1>2, <1>3, <1>4 DEF IInv

\* The invariant is inductive.
LEMMA StepIInv == IInv /\ [SNext]_svars => IInv'
  <1> SUFFICES ASSUME IInv, [SNext]_svars PROVE IInv'
    OBVIOUS
  <1>1. SessionTypeOK' /\ LockInv' /\ PublishInv' /\ \A p \in Inv : Work(p)'
    BY TypeStep, LockStep, PublishStep, WorkStep
  <1> QED
    BY <1>1 DEF IInv, LockInv, PublishInv, Work

\* In every behaviour of the tool.
LEMMA SessionInvariant == SSpec => []IInv
  BY InitIInv, StepIInv, PTL DEF SSpec

\* finalize keeps the types of its state for any number of invocations.
THEOREM SessionTypes == SSpec => []SessionTypeOK
  <1>1. IInv => SessionTypeOK
    BY DEF IInv
  <1> QED
    BY <1>1, SessionInvariant, PTL

\* The lock file works: between taking and removing it an invocation is alone, and it
\* outlives only an invocation that was killed.
THEOREM LockWorks == SSpec => []LockSound
  <1>1. IInv => LockSound
    BY DEF IInv, LockSound
  <1> QED
    BY <1>1, SessionInvariant, PTL

\* A dataset that finalize published has its companions beside it, all of one version of
\* the sources in which no check found a defect; and who returned has published.
THEOREM DatasetWhole == SSpec => []PublicationSound
  <1>1. IInv => PublicationSound
    BY DEF IInv, PublicationSound
  <1> QED
    BY <1>1, SessionInvariant, PTL

\* No later invocation touches a published dataset or its companions.
THEOREM DatasetKept == SSpec => PublishedKept
  <1>1. IInv /\ [SNext]_svars =>
            [files["final"] # None =>
               /\ files'["final"] = files["final"]
               /\ files["final"].by # None => \A c \in Companion : files'[c] = files[c]]_svars
    BY FilesStep DEF KeptStep
  <1> QED
    BY <1>1, SessionInvariant, PTL DEF SSpec, PublishedKept

-----------------------------------------------------------------------------
(* Probe                                                                   *)

\* The last worker, its leader and its child, is gone or has been killed.
Settled == killed \/ (~LeaderLives /\ kid # "inside")

\* So it is, unless the last cleanup_job could not see to it.
Quiet == undone \/ Settled

\* The steps before a worker exists or after one was waited for, and those of the finally
\* clause after cleanup_job.
Before == Setup \cup {"spawn", "assign", "warm", "mode"}
Ending == {"stop", "stopped", "empty", "remove", "rmdir", "restore", "result", "over"}

\* Where the workers are quiet: after cleanup_job, in the try as in the finally clause, and
\* whenever there is no job, unless a worker was started that nobody knows.
WorkerInv ==
    /\ at \in Ending \cup {"leftover"} /\ ~slipped => Quiet
    /\ at = "join" => Quiet
    /\ ~job /\ ~slipped /\ at # "assignJob" => Quiet

\* Where there is a job, a worker and a mode left to run.
JobInv ==
    /\ at \in CleanupJob \cup {"wait", "leftover"} => job
    /\ at \in Before \cup {"assignJob", "stopping"} => ~job
    /\ at \in Before \cup {"stopping"} => leader \in {"none", "reaped"} /\ kid # "inside"
    /\ at = "assignJob" => leader # "none"
    /\ at = "leftover" => leader = "reaped"
    /\ at \in {"assignJob", "wait", "leftover"} \/ (at \in CleanupJob /\ within = "try") => modes > 0
    /\ at = "stopping" => modes = 0

\* Where fixture and cgroup exist. Once the fixture is going no worker is in the cgroup and
\* none can enter it any more.
FixtureInv ==
    /\ at \notin {"fixture", "rmdir", "restore", "result", "over"} => fixture
    /\ at \in {"rmdir", "restore", "result"} => ~fixture
    /\ at \in {"restore", "result"} => ~cgroup
    /\ (~fixture \/ at = "remove") /\ ~slipped /\ ~undone =>
         leader # "inside" /\ kid # "inside" /\ (leader = "starting" => killed)

\* A collector that runs is known, is told to stop only on the way out, and with no job to
\* clean up, and does not run any more once the finally clause is past it.
CollectorInv ==
    /\ Running /\ ~slipped => known \/ at = "assign"
    /\ at \in Ending \ {"stop", "stopped"} /\ ~slipped => ~Running
    /\ collector = "told" => /\ at \in Ending \cup {"stopping", "finally"}
                             /\ at \in {"stopping", "finally"} => ~job

\* Without an exception the finally clause is reached only with all modes run.
ResultInv ==
    /\ ~exc /\ at \in (Ending \ {"over"}) \cup {"finally"} =>
         /\ collector = "ok" /\ modes = 0 /\ ~job
         /\ leader \in {"none", "reaped"} /\ kid # "inside"
    /\ at \in CleanupJob /\ within = "finally" => exc
    /\ at = "result" => ~exc
    /\ result => at = "over" /\ leader \in {"none", "reaped"}

\* The type invariant, flag by flag.
Typed ==
    /\ at \in Setup \cup Try \cup CleanupJob \cup Finally \cup {"result", "over"}
    /\ exc \in BOOLEAN /\ owned \in BOOLEAN /\ known \in BOOLEAN /\ job \in BOOLEAN
    /\ passed \in BOOLEAN /\ killed \in BOOLEAN /\ guest \in BOOLEAN
    /\ fixture \in BOOLEAN /\ cgroup \in BOOLEAN /\ result \in BOOLEAN
    /\ slipped \in BOOLEAN /\ undone \in BOOLEAN
    /\ within \in {"try", "finally"}
    /\ collector \in {"none", "running", "told", "ok", "failed"}
    /\ leader \in {"none", "starting", "inside", "exited", "reaped"}
    /\ kid \in {"none", "inside", "gone"}
    /\ modes \in 0 .. Modes /\ signals \in 0 .. MaxSignals
    /\ job => leader # "none"

\* The inductive invariant of the probe: the parts that the property names, and those that
\* make it inductive.
ProbeStated ==
    /\ NoOrphans /\ FixtureOutlivesWorkers /\ CollectorOutlivesWorkers /\ JoinEnds /\ ResultComplete
ProbeFound == WorkerInv /\ JobInv /\ FixtureInv /\ CollectorInv /\ ResultInv
ProbeInv == Typed /\ ProbeStated /\ ProbeFound

\* Typed is the type invariant.
LEMMA TypedIsTypeOK == ProbeTypeOK <=> Typed
  BY DEF ProbeTypeOK, Typed

-----------------------------------------------------------------------------
\* Every step keeps the types; a mode is finished only where one is left.
LEMMA TypedStep ==
    ASSUME Typed, JobInv, PNext
    PROVE  Typed'
  <1> USE ProbeAssumption DEF Typed, Setup, CleanupJob, Try, Finally, Step, Check, process, made, record
  <1>1. CASE MakeFixture
    BY <1>1 DEF MakeFixture
  <1>2. CASE MakeCgroup
    BY <1>2 DEF MakeCgroup
  <1>3. CASE Handler
    BY <1>3 DEF Handler
  <1>4. CASE SpawnCollector
    BY <1>4 DEF SpawnCollector
  <1>5. CASE AssignCollector
    BY <1>5 DEF AssignCollector
  <1>6. CASE CollectorStarted
    BY <1>6 DEF CollectorStarted, Running
  <1>7. CASE SpawnWorker
    <2>1. /\ leader' = "starting" /\ kid' = "none" /\ at' = "assignJob"
          /\ passed' \in BOOLEAN /\ killed' \in BOOLEAN
      BY <1>7 DEF SpawnWorker
    <2>2. UNCHANGED <<exc, within, owned, collector, guest, known, job, modes, fixture, cgroup,
                      result, signals, slipped, undone>>
      BY <1>7 DEF SpawnWorker
    <2> QED
      BY <2>1, <2>2
  <1>8. CASE AssignJob
    BY <1>8 DEF AssignJob, JobInv
  <1>9. CASE WorkerWaited
    BY <1>9 DEF WorkerWaited
  <1>10. CASE WorkerTimeout
    BY <1>10 DEF WorkerTimeout
  <1>11. CASE Leftover
    <2>1. at' \in {"mode", "finally"} /\ exc' \in BOOLEAN
      BY <1>11 DEF Leftover
    <2>2. job' \in BOOLEAN /\ (job' => job) /\ modes' \in 0 .. Modes
      <3>1. CASE Members
        BY <1>11, <3>1 DEF Leftover
      <3>2. CASE ~Members
        <4>1. job' = FALSE /\ modes' = modes - 1 /\ modes > 0
          BY <1>11, <3>2 DEF Leftover, JobInv
        <4>2. job' \in BOOLEAN /\ ~job'
          BY <4>1
        <4>3. modes' \in 0 .. Modes
          BY <4>1
        <4> QED
          BY <4>2, <4>3
      <3> QED
        BY <3>1, <3>2
    <2>3. UNCHANGED <<within, owned, collector, leader, passed, kid, killed, guest, known, fixture,
                      cgroup, result, signals, slipped, undone>>
      BY <1>11 DEF Leftover
    <2> QED
      BY <2>1, <2>2, <2>3
  <1>12. CASE CollectorLasted
    BY <1>12 DEF CollectorLasted, Running
  <1>13. CASE CollectorStopped
    BY <1>13 DEF CollectorStopped
  <1>14. CASE Refuse
    BY <1>14 DEF Refuse, Abandon
  <1>15. CASE OwnMembers
    <2>1. at' = "poll" /\ owned' \in BOOLEAN /\ undone' \in BOOLEAN
      BY <1>15 DEF OwnMembers
    <2>2. UNCHANGED <<exc, within, collector, leader, passed, kid, killed, guest, known, job, modes,
                      fixture, cgroup, result, signals, slipped>>
      BY <1>15 DEF OwnMembers
    <2> QED
      BY <2>1, <2>2
  <1>16. CASE Poll
    BY <1>16 DEF Poll, LeaderLives
  <1>17. CASE TermGroup
    BY <1>17 DEF TermGroup, InGroup
  <1>18. CASE KillGroup
    BY <1>18 DEF KillGroup, InGroup, LeaderLives
  <1>19. CASE Join
    BY <1>19 DEF Join
  <1>20. CASE StartFinally
    BY <1>20 DEF StartFinally
  <1>21. CASE StopCollector
    BY <1>21 DEF StopCollector, Running
  <1>22. CASE AwaitCollector
    BY <1>22 DEF AwaitCollector, Running
  <1>23. CASE CheckEmpty
    BY <1>23 DEF CheckEmpty, Members
  <1>24. CASE RemoveFixture
    <2>1. at' = "rmdir" /\ fixture' \in BOOLEAN
      BY <1>24 DEF RemoveFixture
    <2>2. UNCHANGED <<exc, within, owned, collector, leader, passed, kid, killed, guest, known, job,
                      modes, cgroup, result, signals, slipped, undone>>
      BY <1>24 DEF RemoveFixture
    <2> QED
      BY <2>1, <2>2
  <1>25. CASE RemoveCgroup
    BY <1>25 DEF RemoveCgroup, Members
  <1>26. CASE RestoreHandler
    BY <1>26 DEF RestoreHandler
  <1>27. CASE WriteResult
    BY <1>27 DEF WriteResult
  <1>28. CASE SignalUncaught
    BY <1>28 DEF SignalUncaught, Signalled
  <1>29. CASE SignalTry
    BY <1>29 DEF SignalTry, Signalled
  <1>30. CASE SignalCleanup
    BY <1>30 DEF SignalCleanup, Signalled
  <1>31. CASE SignalFinally
    BY <1>31 DEF SignalFinally, Signalled
  <1>32. CASE LeaderEnters
    BY <1>32 DEF LeaderEnters
  <1>33. CASE LeaderForks
    BY <1>33 DEF LeaderForks
  <1>34. CASE LeaderExits
    <2>1. leader' = "exited" /\ passed' \in BOOLEAN
      BY <1>34 DEF LeaderExits
    <2>2. UNCHANGED <<at, exc, within, owned, collector, kid, killed, guest, known, job, modes,
                      fixture, cgroup, result, signals, slipped, undone>>
      BY <1>34 DEF LeaderExits
    <2> QED
      BY <2>1, <2>2
  <1>35. CASE KidExits
    BY <1>35 DEF KidExits
  <1>36. CASE CollectorEnds
    BY <1>36 DEF CollectorEnds, Running
  <1>37. CASE Guest
    BY <1>37 DEF Guest
  <1> QED
    BY <1>1, <1>2, <1>3, <1>4, <1>5, <1>6, <1>7, <1>8, <1>9, <1>10, <1>11, <1>12, <1>13, <1>14, <1>15, <1>16,
       <1>17, <1>18, <1>19, <1>20, <1>21, <1>22, <1>23, <1>24, <1>25, <1>26, <1>27, <1>28, <1>29, <1>30, <1>31, <1>32,
       <1>33, <1>34, <1>35, <1>36, <1>37 DEF PNext, run

\* Every step keeps the rest. cleanup_job establishes Quiet, which the worker's own steps
\* keep: a killed worker neither enters the cgroup nor forks.
LEMMA FoundStep ==
    ASSUME Typed, ProbeStated, ProbeFound, PNext
    PROVE  (ProbeStated /\ ProbeFound)'
  <1> USE DEF Typed, ProbeStated, ProbeFound, NoOrphans, FixtureOutlivesWorkers, CollectorOutlivesWorkers,
              JoinEnds, ResultComplete, WorkerInv, JobInv, FixtureInv, CollectorInv, ResultInv,
              Settled, Quiet, Ending, Before, Setup, CleanupJob, Try, Finally, Step, Check,
              Running, LeaderLives, InGroup, Members, process, made, record
  <1>1. CASE MakeFixture
    BY <1>1 DEF MakeFixture
  <1>2. CASE MakeCgroup
    BY <1>2 DEF MakeCgroup
  <1>3. CASE Handler
    BY <1>3 DEF Handler
  <1>4. CASE SpawnCollector
    BY <1>4 DEF SpawnCollector
  <1>5. CASE AssignCollector
    BY <1>5 DEF AssignCollector
  <1>6. CASE CollectorStarted
    BY <1>6 DEF CollectorStarted
  <1>7. CASE SpawnWorker
    BY <1>7 DEF SpawnWorker
  <1>8. CASE AssignJob
    BY <1>8 DEF AssignJob
  <1>9. CASE WorkerWaited
    BY <1>9 DEF WorkerWaited
  <1>10. CASE WorkerTimeout
    BY <1>10 DEF WorkerTimeout
  <1>11. CASE Leftover
    BY <1>11 DEF Leftover
  <1>12. CASE CollectorLasted
    BY <1>12 DEF CollectorLasted
  <1>13. CASE CollectorStopped
    BY <1>13 DEF CollectorStopped
  <1>14. CASE Refuse
    BY <1>14 DEF Refuse, Abandon
  <1>15. CASE OwnMembers
    BY <1>15 DEF OwnMembers
  <1>16. CASE Poll
    BY <1>16 DEF Poll
  <1>17. CASE TermGroup
    BY <1>17 DEF TermGroup
  <1>18. CASE KillGroup
    BY <1>18 DEF KillGroup
  <1>19. CASE Join
    BY <1>19 DEF Join
  <1>20. CASE StartFinally
    BY <1>20 DEF StartFinally
  <1>21. CASE StopCollector
    BY <1>21 DEF StopCollector
  <1>22. CASE AwaitCollector
    BY <1>22 DEF AwaitCollector
  <1>23. CASE CheckEmpty
    BY <1>23 DEF CheckEmpty
  <1>24. CASE RemoveFixture
    BY <1>24 DEF RemoveFixture
  <1>25. CASE RemoveCgroup
    BY <1>25 DEF RemoveCgroup
  <1>26. CASE RestoreHandler
    BY <1>26 DEF RestoreHandler
  <1>27. CASE WriteResult
    BY <1>27 DEF WriteResult
  <1>28. CASE SignalUncaught
    BY <1>28 DEF SignalUncaught, Signalled
  <1>29. CASE SignalTry
    BY <1>29 DEF SignalTry, Signalled
  <1>30. CASE SignalCleanup
    BY <1>30 DEF SignalCleanup, Signalled
  <1>31. CASE SignalFinally
    BY <1>31 DEF SignalFinally, Signalled
  <1>32. CASE LeaderEnters
    BY <1>32 DEF LeaderEnters
  <1>33. CASE LeaderForks
    BY <1>33 DEF LeaderForks
  <1>34. CASE LeaderExits
    BY <1>34 DEF LeaderExits
  <1>35. CASE KidExits
    BY <1>35 DEF KidExits
  <1>36. CASE CollectorEnds
    BY <1>36 DEF CollectorEnds
  <1>37. CASE Guest
    BY <1>37 DEF Guest
  <1> QED
    BY <1>1, <1>2, <1>3, <1>4, <1>5, <1>6, <1>7, <1>8, <1>9, <1>10, <1>11, <1>12, <1>13, <1>14, <1>15, <1>16,
       <1>17, <1>18, <1>19, <1>20, <1>21, <1>22, <1>23, <1>24, <1>25, <1>26, <1>27, <1>28, <1>29, <1>30, <1>31, <1>32,
       <1>33, <1>34, <1>35, <1>36, <1>37 DEF PNext, run

\* However the probe fails or is interrupted, with any number of modes and signals: worker,
\* collector and fixture are taken down in this order, run comes to its end, and probe.json
\* is written only of a whole run (run and cleanup_job of probe_behavior_lineage.py).
THEOREM ProbeSafe == PSpec => []CleanupSound
  <1>1. PInit => ProbeInv
    <2> SUFFICES ASSUME PInit PROVE ProbeInv
      OBVIOUS
    <2>1. Typed
      <3>1. /\ exc \in BOOLEAN /\ owned \in BOOLEAN /\ known \in BOOLEAN /\ job \in BOOLEAN
            /\ passed \in BOOLEAN /\ killed \in BOOLEAN /\ guest \in BOOLEAN
            /\ fixture \in BOOLEAN /\ cgroup \in BOOLEAN /\ result \in BOOLEAN
            /\ slipped \in BOOLEAN /\ undone \in BOOLEAN /\ ~job
        BY DEF PInit
      <3>2. /\ at = "fixture" /\ within = "try" /\ collector = "none" /\ leader = "none"
            /\ kid = "none" /\ modes = Modes /\ signals = 0
        BY DEF PInit
      <3> QED
        BY <3>1, <3>2, ProbeAssumption DEF Typed, Setup
    <2>2. ProbeStated
      BY DEF PInit, ProbeStated, NoOrphans, FixtureOutlivesWorkers, CollectorOutlivesWorkers,
             JoinEnds, ResultComplete, Running, LeaderLives
    <2>3. ProbeFound
      BY DEF PInit, ProbeFound, WorkerInv, JobInv, FixtureInv, CollectorInv, ResultInv, Settled, Quiet,
             Ending, Before, Setup, CleanupJob, Running, LeaderLives
    <2> QED
      BY <2>1, <2>2, <2>3 DEF ProbeInv
  <1>2. ProbeInv /\ [PNext]_pvars => ProbeInv'
    <2> SUFFICES ASSUME ProbeInv, [PNext]_pvars PROVE ProbeInv'
      OBVIOUS
    <2>1. CASE PNext
      BY <2>1, TypedStep, FoundStep DEF ProbeInv, ProbeFound
    <2>2. CASE UNCHANGED pvars
      <3> USE <2>2 DEF ProbeInv, pvars
      <3>1. Typed'
        BY DEF Typed
      <3>2. ProbeStated'
        BY DEF ProbeStated, NoOrphans, FixtureOutlivesWorkers, CollectorOutlivesWorkers,
               JoinEnds, ResultComplete, Running, LeaderLives
      <3>3. ProbeFound'
        BY DEF ProbeFound, WorkerInv, JobInv, FixtureInv, CollectorInv, ResultInv, Settled, Quiet,
               Running, LeaderLives
      <3> QED
        BY <3>1, <3>2, <3>3
    <2> QED
      BY <2>1, <2>2
  <1>3. ProbeInv => CleanupSound
    BY TypedIsTypeOK DEF ProbeInv, ProbeStated, CleanupSound
  <1> QED
    BY <1>1, <1>2, <1>3, PTL DEF PSpec
=============================================================================
