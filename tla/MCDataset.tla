------------------------------ MODULE MCDataset ------------------------------
(***************************************************************************)
(* Detector and Dataset on a small instance.                               *)
(***************************************************************************)
EXTENDS Dataset

\* An event of bucket 0, two of bucket 1, a HEALTH and a broken frame.
MCInput ==
    [type : {"event"}, ts : {0, 2, 3}] \cup {[type |-> "health", ts |-> 3], [type |-> "bad", ts |-> 0]}

\* The base is full, and the name with suffix 1 is taken.
MCOldLog == LET file == <<[type |-> "health", ts |-> 0]>> IN <<file, file>>

Interval(a, z, c) == [start |-> a, end |-> z, class |-> c, unit |-> c]

\* Adjacent intervals, an interval that outlives others and ends inside a bucket, and
\* one that covers part of a bucket.
MCTimelines ==
    {{Interval(0, 2, "normal"), Interval(2, 4, "attack")},
     {Interval(0, 4, "precursor"), Interval(1, 2, "attack"), Interval(2, 3, "attack")},
     {Interval(1, 3, "attack"), Interval(3, 4, "other")}}

(* A reader beside the detector of every short stream; one that begins     *)
(* when the detector has stopped after any stream.                         *)

CONSTANT Beside     \* bound: frames of a stream that is read while the detector runs

NotBegun == reader = "list" /\ turn = Backups - 1

MCNext ==
    \/ Next /\ UNCHANGED readerVars /\ (frames' > Beside => NotBegun \/ Stopped)
    \/ Reading /\ (frames <= Beside \/ Stopped)

MCSpec ==
    /\ DInit /\ [][MCNext]_allVars
    /\ WF_allVars(Run /\ UNCHANGED readerVars) /\ WF_allVars(Tick /\ UNCHANGED readerVars)
=============================================================================
