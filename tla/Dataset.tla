------------------------------ MODULE Dataset ------------------------------
(***************************************************************************)
(* build_event_time_dataset.py beside a detector that may still be         *)
(* writing, and rotating: the reader asks for the files of the diagnostic  *)
(* log name by name, gathers their bucket records and labels each from the *)
(* session timeline.                                                       *)
(***************************************************************************)
EXTENDS Detector

CONSTANT
    Timelines  \* session timelines: sets of [start, end, class, unit]

\* read_timeline refuses any other interval.
ASSUME TimelinesAssumption ==
    \A tl \in Timelines :
        IsFiniteSet(tl) /\ \A x \in tl : x.start \in Nat /\ x.end \in Nat /\ x.start < x.end

VARIABLES
    reader,   \* where the reader is
    turn,     \* the suffix it asks for next, then the path whose turn it is
    paths,    \* suffixes of the names that existed when it asked, the oldest file first
    statted,  \* the files the paths meant when it looked at them
    opened    \* the files it opened

readerVars == <<reader, turn, paths, statted, opened>>
allVars == <<vars, readerVars>>

DInit ==
    /\ Init
    /\ reader = "list" /\ turn = Backups - 1
    /\ paths = <<>> /\ statted = <<>> /\ opened = <<>>

-----------------------------------------------------------------------------
(* read_buckets: the rotation chain. Every pass is over the paths in turn, *)
(* and the detector may rename files between any two.                      *)

\* An exception: the open files are closed.
Fail ==
    /\ reader' = "failed" /\ turn' = 0
    /\ paths' = <<>> /\ statted' = <<>> /\ opened' = <<>>

\* The path after this one, or the pass that follows.
Forward(pass) ==
    IF turn < Len(paths) THEN turn' = turn + 1 /\ UNCHANGED reader
                         ELSE turn' = 1 /\ reader' = pass

ListPath ==
    /\ reader = "list"
    /\ LET found == IF names[turn] = NoFile THEN paths ELSE Append(paths, turn)
       IN \/ /\ turn > 0
             /\ paths' = found /\ turn' = turn - 1
             /\ UNCHANGED <<reader, statted, opened>>
          \/ /\ turn = 0 /\ found # <<>>
             /\ paths' = found /\ turn' = 1 /\ reader' = "stat"
             /\ UNCHANGED <<statted, opened>>
          \/ turn = 0 /\ found = <<>> /\ Fail

StatPath ==
    /\ reader = "stat"
    /\ LET file == names[paths[turn]]
       IN \/ file = NoFile /\ Fail
          \/ /\ file # NoFile
             /\ statted' = Append(statted, file)
             /\ Forward("open")
             /\ UNCHANGED <<paths, opened>>

OpenPath ==
    /\ reader = "open"
    /\ LET file == names[paths[turn]]
       IN \/ file = NoFile /\ Fail
          \/ /\ file # NoFile
             /\ opened' = Append(opened, file)
             /\ Forward("verify")
             /\ UNCHANGED <<paths, statted>>

\* Whatever was opened is read: a mutation of SameFile.
SameFileUnchecked(i) == TRUE

SameFile(i) == opened[i] = statted[i] /\ names[paths[i]] = statted[i]

VerifyPath ==
    /\ reader = "verify"
    /\ \/ ~SameFile(turn) /\ Fail
       \/ /\ SameFile(turn)
          /\ Forward("read")
          /\ UNCHANGED <<paths, statted, opened>>

\* The lines of the open files, by file and place; LineAt is the record of one.
Lines == {l \in (1..Len(opened)) \X (1..FileCap) : l[2] <= Len(chain[opened[l[1]]])}
LineAt(l) == chain[opened[l[1]]][l[2]]

\* The records of buckets; of those of one bucket the last is kept.
BucketLines == {l \in Lines : LineAt(l).type = "bucket"}
Reported == {LineAt(l).b : l \in BucketLines}
Positions(b) == {l \in BucketLines : LineAt(l).b = b}
RecordOf(b) ==
    LineAt(CHOOSE l \in Positions(b) :
               \A m \in Positions(b) : m[1] < l[1] \/ (m[1] = l[1] /\ m[2] <= l[2]))

\* A bucket seen again replaces the record: a mutation of Duplicates.
DuplicatesIgnored == {}

Duplicates == {b \in Reported : Cardinality(Positions(b)) > 1}

-----------------------------------------------------------------------------
(* build: one pass over the buckets with the intervals active in them.     *)

\* The order of tuples; it looks at start and end alone.
NotAfter(x, y) == x.start < y.start \/ (x.start = y.start /\ x.end <= y.end)

read_timeline(tl) ==
    CHOOSE s \in [1..Cardinality(tl) -> tl] :
        \A i, j \in 1..Cardinality(tl) : i < j => s[i] # s[j] /\ NotAfter(s[i], s[j])

Ascending(S) ==
    CHOOSE s \in [1..Cardinality(S) -> S] : \A i, j \in 1..Cardinality(S) : i < j => s[i] < s[j]

\* Intervals that end inside the bucket are dropped too: a mutation of StillActive.
StillActiveAtEnd(interval, start) == interval.end >= start + BN

StillActive(interval, start) == interval.end > start

\* The intervals from next on that begin before the end of the bucket.
Entering(intervals, next, end) ==
    {i \in DOMAIN intervals : i >= next /\ \A j \in next..i : intervals[j].start < end}

\* Bucket b: active are the places of intervals in their order, next the first not yet met.
SweepStep(intervals, acc, b) ==
    LET new == Entering(intervals, acc.next, (b + 1) * BN)
    IN [active |-> {i \in acc.active : StillActive(intervals[i], b * BN)} \cup new,
        next |-> acc.next + Cardinality(new)]

Overlapping(intervals, active, r) ==
    {intervals[i] : i \in {j \in active : intervals[j].start < r.last + 1 /\ intervals[j].end > r.first}}

Label(interval) == IF interval.class = "attack" THEN "attack" ELSE "normal"

Verdict(overlapping, r) ==
    IF overlapping = {} THEN "skipped_unlabeled"
    ELSE IF Cardinality(overlapping) # 1 THEN "skipped_mixed"
    ELSE LET x == CHOOSE y \in overlapping : TRUE
         IN IF x.start > r.first \/ x.end < r.last + 1 THEN "skipped_boundary"
            ELSE IF x.class \notin {"normal", "attack", "precursor"} THEN "skipped_unknown"
            ELSE Label(x)

\* What is active in each bucket of the order.
Sweep(intervals, order) ==
    LET acc[k \in 0..Len(order)] ==
            IF k = 0 THEN [active |-> {}, next |-> 1]
            ELSE SweepStep(intervals, acc[k - 1], order[k])
    IN acc

Row(b, intervals, active) ==
    LET r == RecordOf(b)
    IN [b |-> b, record |-> r, verdict |-> Verdict(Overlapping(intervals, active, r), r)]

\* The rows of the dataset and the buckets skipped, in ascending order of their start.
build(tl) ==
    LET intervals == read_timeline(tl)
        order == Ascending(Reported \ Duplicates)
        acc == Sweep(intervals, order)
    IN [k \in 1..Len(order) |-> Row(order[k], intervals, acc[k].active)]

Kept(rows) == {i \in DOMAIN rows : rows[i].verdict \in {"normal", "attack"}}

-----------------------------------------------------------------------------

Reading == (ListPath \/ StatPath \/ OpenPath \/ VerifyPath) /\ UNCHANGED vars

DNext == (Next /\ UNCHANGED readerVars) \/ Reading

DSpec == DInit /\ [][DNext]_allVars

-----------------------------------------------------------------------------
(* Properties.                                                             *)

\* The files read are in the order they were written in and none is read twice, however the
\* live logger renames them between any two steps of the reader; and two files read one
\* after the other are neighbours, unless a name between theirs did not exist when it was
\* asked for.
ReadsInOrder ==
    reader = "read" =>
        \A i \in 1..Len(opened) - 1 :
            /\ opened[i] < opened[i + 1]
            /\ paths[i] = paths[i + 1] + 1 => opened[i + 1] = opened[i] + 1

\* What the comment in read_buckets says: it opens the whole rotation chain, so that no
\* record is missing between two that are read. The code does not keep it.
WholeChainRead ==
    reader = "read" => \A i \in 1..Len(opened) - 1 : opened[i + 1] = opened[i] + 1

\* When the detector has ended and the reader has every file with the record of a bucket,
\* none of them removed or missed, a bucket of the dataset holds all the events that were
\* scored for it: a bucket that a late event opened again is left out altogether.
RowsComplete ==
    (reader = "read" /\ Stopped /\ {r[1] : r \in BucketRecords} \subseteq Range(opened)) =>
        \A tl \in Timelines :
            LET rows == build(tl)
            IN \A i \in Kept(rows) :
                   {e \in scored : BucketOf(e.ts) = rows[i].b} \subseteq rows[i].record.events

\* The single pass labels as the definition of the module's docstring does: a bucket is
\* kept when exactly one interval meets the time from its first to its last event, and
\* that interval covers it.
SweepCorrect ==
    reader = "read" =>
        \A tl \in Timelines :
            LET rows == build(tl)
            IN \A i \in DOMAIN rows :
                   LET r == rows[i].record
                       meets == {x \in tl : x.start <= r.last /\ r.first < x.end}
                       covers == {x \in meets : x.start <= r.first /\ r.last < x.end}
                       clear == /\ Cardinality(meets) = 1 /\ covers = meets
                                /\ \A x \in meets : x.class \in {"normal", "attack", "precursor"}
                   IN /\ i \in Kept(rows) <=> clear
                      /\ clear => \A x \in meets : rows[i].verdict = Label(x)
=============================================================================
