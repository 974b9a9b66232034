------------------------------ MODULE Detector ------------------------------
(***************************************************************************)
(* The streaming detector detect2.py of event-time-v1: binary frames are   *)
(* read in chunks, events are gathered in time buckets, and a bucket is    *)
(* scored when event time has passed it by the grace period, when it has   *)
(* been silent for that long on the wall clock, or when the stream ends.   *)
(* Every score is also a record of a rotating diagnostic log.              *)
(*                                                                         *)
(* What a bucket collects (processes, paths, ports) is abstracted to the   *)
(* set of its events; the score and the verdict, functions of that set,    *)
(* are left out. The diagnostic log is on. The input is a pipe; a file is  *)
(* one that never lets select time out.                                    *)
(***************************************************************************)
EXTENDS Integers, Sequences, FiniteSets, Functions

CONSTANTS
    BN,         \* width of a bucket in event time
    Grace,      \* --grace-sec in event time
    Idle,       \* --grace-sec in ticks of the wall clock
    FileCap,    \* records a log file holds before it is rotated
    Backups,    \* log files that exist at a time: backupCount + 1, 3 in the code
    OldLog,     \* the log files found at the start, oldest first; <<<<>>>> for a new log
    Input,      \* frames the stream consists of in this instance
    MaxTs,      \* bound: timestamps
    MaxFrames,  \* bound: frames of the stream
    MaxBurst    \* bound: frames that one chunk has a part of

ASSUME DetectorAssumption ==
    /\ BN \in Nat \ {0} /\ Grace \in Nat /\ Idle \in Nat \ {0}
    /\ FileCap \in Nat \ {0} /\ Backups \in Nat \ {0, 1}
    /\ MaxTs \in Nat /\ MaxFrames \in Nat /\ MaxBurst \in Nat

Ts == 0..MaxTs
Bucket == Nat

\* A frame is an event, a HEALTH event, or one the checks of its header refuse.
Frame == [type : {"event", "health", "bad"}, ts : Ts]
Event == [n : Nat, ts : Ts]
BucketRecord == [type : {"bucket"}, b : Bucket, events : SUBSET Event, first : Ts, last : Ts]
HealthRecord == [type : {"health"}, ts : Ts]

ASSUME InputAssumption == Input \subseteq Frame

\* The log is opened for appending. Of an earlier run it holds HEALTH records only.
ASSUME OldLogAssumption ==
    /\ OldLog \in Seq(Seq(HealthRecord)) /\ Len(OldLog) \in 1 .. Backups
    /\ \A i \in 1 .. Len(OldLog) : Len(OldLog[i]) <= FileCap

VARIABLES
    pc,       \* where the program is
    todo,     \* complete frames of the chunk, not parsed yet
    partial,  \* buf ends with an incomplete frame
    frames,   \* frames read so far
    buckets,  \* open buckets: a function from bucket numbers to sets of events
    bounds,   \* bucket_bounds
    last_ts,  \* the greatest timestamp so far
    seen,     \* seen_in_chunk
    silent,   \* ticks since bucket_seen of each open bucket, at most Idle
    wait,     \* ticks that select has been waiting, at most Idle
    due,      \* buckets the current pass has still to finalise
    half,     \* buckets with a process record that an interrupt left without its ppid
    chain,    \* every log file so far, oldest first, those removed included
    names,    \* names[i]: the file that has the name with suffix i, or NoFile; 0 is the base
    dest,     \* the suffix a rotation has to fill next, or NotRotating
    accepted, \* history: events taken into a bucket
    scored,   \* history: events of the finalised buckets
    lost,     \* history: events of a bucket that left the table without a record
    late,     \* history: events more than Grace behind last_ts when they came
    idled     \* history: buckets finalised because they were silent

stream == <<todo, partial, frames>>
log == <<chain, names, dest>>
history == <<accepted, scored, lost, late, idled>>
vars == <<pc, stream, buckets, bounds, last_ts, seen, silent, wait, due, half, log, history>>

Suffix == 0 .. Backups - 1
NoFile == 0
NotRotating == Backups

BucketOf(ts) == ts \div BN
Least(S) == CHOOSE x \in S : \A y \in S : x <= y
Low(a, b) == IF a < b THEN a ELSE b
High(a, b) == IF a > b THEN a ELSE b
Empty == [b \in {} |-> {}]

Init ==
    /\ pc = "select"
    /\ todo = <<>> /\ partial = FALSE /\ frames = 0
    /\ buckets = Empty /\ bounds = Empty /\ last_ts = 0
    /\ seen = {} /\ silent = Empty /\ wait = 0 /\ due = {} /\ half = {}
    /\ chain = OldLog /\ dest = NotRotating
    /\ names = [i \in Suffix |-> IF i < Len(OldLog) THEN Len(OldLog) - i ELSE NoFile]
    /\ accepted = {} /\ scored = {} /\ lost = {} /\ late = {} /\ idled = {}

-----------------------------------------------------------------------------
(* The diagnostic log: a RotatingFileHandler.                              *)

Full == Len(chain[Len(chain)]) >= FileCap

\* A record is written when the base exists and has room; Rotate sees to that first.
Log(record) ==
    /\ dest = NotRotating /\ names[0] # NoFile /\ ~Full
    /\ chain' = [chain EXCEPT ![Len(chain)] = Append(@, record)]

-----------------------------------------------------------------------------
(* Waiting for input and reading it.                                       *)

\* Time passes between two reads; on a pipe select returns after the grace period.
Tick ==
    /\ pc = "select"
    /\ wait < Idle
    /\ wait' = wait + 1
    /\ silent' = [b \in DOMAIN silent |-> Low(silent[b] + 1, Idle)]
    /\ UNCHANGED <<pc, stream, buckets, bounds, last_ts, seen, due, half, log, history>>

\* A timeout looks at event time alone: a mutation of SelectTimeout.
SelectTimeoutByEvents ==
    /\ pc = "select"
    /\ wait = Idle
    /\ due' = {b \in DOMAIN buckets : b < (last_ts - Grace) \div BN}
    /\ pc' = "finalize"
    /\ UNCHANGED <<stream, buckets, bounds, last_ts, seen, silent, wait, half, log, history>>

\* Nothing came for the grace period: the pass over the silent buckets.
SelectTimeout ==
    /\ pc = "select"
    /\ wait = Idle
    /\ due' = {b \in DOMAIN buckets : silent[b] >= Idle}
    /\ idled' = idled \cup due'
    /\ pc' = "finalize"
    /\ UNCHANGED <<stream, buckets, bounds, last_ts, seen, silent, wait, half, log,
                   accepted, scored, lost, late>>

\* A chunk completes the frames fs, the first of which the chunk before may have begun,
\* and may end inside another one.
Read(fs, p) ==
    /\ pc = "select"
    /\ frames + Len(fs) <= MaxFrames
    /\ fs = <<>> => (p /\ ~partial)
    /\ p => Len(fs) < MaxBurst
    /\ todo' = fs /\ partial' = p
    /\ frames' = frames + Len(fs)
    /\ seen' = {} /\ wait' = 0
    /\ pc' = "parse"
    /\ UNCHANGED <<buckets, bounds, last_ts, silent, due, half, log, history>>

\* An empty read. What is left of a frame ends the program without the final pass.
EndOfFile ==
    /\ pc = "select"
    /\ pc' = IF partial THEN "aborted" ELSE "flush"
    /\ UNCHANGED <<stream, buckets, bounds, last_ts, seen, silent, wait, due, half, log, history>>

-----------------------------------------------------------------------------
(* The frames of a chunk.                                                  *)

\* bucket_bounds after an event.
Bounds(ts) ==
    LET b == BucketOf(ts)
    IN IF b \in DOMAIN bounds
       THEN [bounds EXCEPT ![b] = <<Low(@[1], ts), High(@[2], ts)>>]
       ELSE [x \in DOMAIN bounds \cup {b} |-> IF x = b THEN <<ts, ts>> ELSE bounds[x]]

\* An event joins its bucket, which it opens, or opens again, when there is none.
Accept(ts) ==
    LET e == [n |-> Cardinality(accepted) + 1, ts |-> ts]
        b == BucketOf(ts)
    IN /\ last_ts' = High(last_ts, ts)
       /\ bounds' = Bounds(ts)
       /\ seen' = seen \cup {b}
       /\ buckets' = [x \in DOMAIN buckets \cup {b} |->
                          (IF x \in DOMAIN buckets THEN buckets[x] ELSE {})
                          \cup (IF x = b THEN {e} ELSE {})]
       /\ silent' = [x \in DOMAIN silent \cup {b} |-> IF x \in DOMAIN silent THEN silent[x] ELSE 0]
       /\ accepted' = accepted \cup {e}
       /\ late' = IF ts + Grace < last_ts THEN late \cup {e} ELSE late

Parse ==
    /\ pc = "parse" /\ todo # <<>>
    /\ todo' = Tail(todo)
    /\ LET f == Head(todo)
       IN \/ /\ f.type = "bad"
             /\ pc' = "aborted"
             /\ UNCHANGED <<buckets, bounds, last_ts, seen, silent, chain, history>>
          \/ /\ f.type = "health"
             /\ Log([type |-> "health", ts |-> f.ts])
             /\ UNCHANGED <<pc, buckets, bounds, last_ts, seen, silent, history>>
          \/ /\ f.type = "event"
             /\ Accept(f.ts)
             /\ UNCHANGED <<pc, chain, scored, lost, idled>>
    /\ UNCHANGED <<partial, frames, wait, due, half, names, dest>>

-----------------------------------------------------------------------------
(* Buckets are finalised.                                                  *)

\* The bucket the grace period ends in counts as passed: a mutation of cutoff.
cutoffRoundedUp == ((last_ts - Grace) \div BN) + 1

\* The buckets before the returned one are finalised.
cutoff == (last_ts - Grace) \div BN

\* The end of a chunk.
Settle ==
    /\ pc = "parse" /\ todo = <<>>
    /\ silent' = [b \in DOMAIN buckets |-> IF b \in seen THEN 0 ELSE silent[b]]
    /\ LET quiet == {b \in DOMAIN buckets : silent'[b] >= Idle}
       IN /\ due' = quiet \cup {b \in DOMAIN buckets : b < cutoff}
          /\ idled' = idled \cup quiet
    /\ pc' = "finalize"
    /\ UNCHANGED <<stream, buckets, bounds, last_ts, seen, wait, half, log,
                   accepted, scored, lost, late>>

\* The bucket leaves the table, and its bounds with it.
Pop(b) ==
    /\ buckets' = Restrict(buckets, DOMAIN buckets \ {b})
    /\ silent' = Restrict(silent, DOMAIN silent \ {b})
    /\ bounds' = Restrict(bounds, DOMAIN bounds \ {b})

finalize(b) ==
    /\ Pop(b)
    /\ Log([type |-> "bucket", b |-> b, events |-> buckets[b],
            first |-> bounds[b][1], last |-> bounds[b][2]])
    /\ scored' = scored \cup buckets[b]

\* The next bucket of the pass, in ascending order.
FinalizeDue ==
    /\ pc = "finalize" /\ due # {}
    /\ LET b == Least(due)
       IN /\ finalize(b)
          /\ due' = due \ {b}
    /\ UNCHANGED <<pc, stream, last_ts, seen, wait, half, names, dest, accepted, lost, late, idled>>

NextRead ==
    /\ pc = "finalize" /\ due = {}
    /\ pc' = "select" /\ wait' = 0
    /\ UNCHANGED <<stream, buckets, bounds, last_ts, seen, silent, due, half, log, history>>

\* Only what the grace period has passed is flushed: a mutation of Remaining.
RemainingPassed == {b \in DOMAIN buckets : b < cutoff}

\* What the end of the stream finds.
Remaining == DOMAIN buckets

\* The end of the stream: all that is left, in ascending order. A process record that
\* lacks its ppid raises KeyError.
Flush ==
    /\ pc = "flush"
    /\ IF Remaining = {}
       THEN /\ pc' = "done"
            /\ UNCHANGED <<buckets, bounds, silent, chain, scored, lost>>
       ELSE LET b == Least(Remaining)
            IN IF b \in half
               THEN /\ pc' = "crashed"
                    /\ Pop(b)
                    /\ lost' = lost \cup buckets[b]
                    /\ UNCHANGED <<chain, scored>>
               ELSE finalize(b) /\ UNCHANGED <<pc, lost>>
    /\ UNCHANGED <<stream, last_ts, seen, wait, due, half, names, dest, accepted, late, idled>>

-----------------------------------------------------------------------------
(* Before a record is written the log is rotated when the base is full     *)
(* (doRollover), and opened when an interrupt left it without a base. The  *)
(* bucket of the record has left the table by then; nothing but the        *)
(* interrupt below can tell, and there it has.                             *)

\* The program is about to write a record.
Logging ==
    \/ pc = "parse" /\ todo # <<>> /\ Head(todo).type = "health"
    \/ pc = "finalize" /\ due # {}
    \/ pc = "flush" /\ Remaining # {} /\ Least(Remaining) \notin half

StartRotation ==
    /\ Logging /\ dest = NotRotating
    /\ names[0] # NoFile /\ Full
    /\ dest' = Backups - 1
    /\ UNCHANGED <<chain, names>>

\* No file to move to this name.
SkipName ==
    /\ dest \in 1 .. Backups - 1
    /\ names[dest - 1] = NoFile
    /\ dest' = dest - 1
    /\ UNCHANGED <<chain, names>>

RemoveFile ==
    /\ dest \in 1 .. Backups - 1
    /\ names[dest - 1] # NoFile /\ names[dest] # NoFile
    /\ names' = [names EXCEPT ![dest] = NoFile]
    /\ UNCHANGED <<chain, dest>>

RenameFile ==
    /\ dest \in 1 .. Backups - 1
    /\ names[dest - 1] # NoFile /\ names[dest] = NoFile
    /\ names' = [names EXCEPT ![dest] = names[dest - 1], ![dest - 1] = NoFile]
    /\ dest' = dest - 1
    /\ UNCHANGED chain

OpenBase ==
    /\ \/ dest = 0
       \/ Logging /\ dest = NotRotating /\ names[0] = NoFile
    /\ chain' = Append(chain, <<>>)
    /\ names' = [names EXCEPT ![0] = Len(chain) + 1]
    /\ dest' = NotRotating

Rotate ==
    /\ StartRotation \/ SkipName \/ RemoveFile \/ RenameFile \/ OpenBase
    /\ UNCHANGED <<pc, stream, buckets, bounds, last_ts, seen, silent, wait, due, half, history>>

-----------------------------------------------------------------------------
(* KeyboardInterrupt, at any point of the loop or of the final pass.       *)

\* Between two steps; a HEALTH record that waits for a rotation is not written.
Interrupt ==
    /\ pc \in {"select", "parse", "finalize", "flush"}
    /\ pc = "finalize" => dest = NotRotating
    /\ pc' = IF pc = "flush" THEN "crashed" ELSE "flush"
    /\ dest' = NotRotating
    /\ UNCHANGED <<stream, buckets, bounds, last_ts, seen, silent, wait, due, half, chain, names, history>>

\* Inside finalize, after the bucket left the table and before its record is written; the
\* log may be rotated half-way.
InterruptFinalize ==
    /\ pc = "finalize" /\ due # {}
    /\ Pop(Least(due))
    /\ lost' = lost \cup buckets[Least(due)]
    /\ pc' = "flush"
    /\ dest' = NotRotating
    /\ UNCHANGED <<stream, last_ts, seen, wait, due, half, chain, names, accepted, scored, late, idled>>

\* After an event's process record was made and before its fields were set.
InterruptAccept ==
    /\ pc = "parse" /\ todo # <<>>
    /\ Head(todo).type = "event"
    /\ Accept(Head(todo).ts)
    /\ half' = half \cup {BucketOf(Head(todo).ts)}
    /\ pc' = "flush"
    /\ UNCHANGED <<stream, wait, due, log, scored, lost, idled>>

-----------------------------------------------------------------------------

Bursts == UNION {[1..k -> Input] : k \in 0..MaxBurst}

Stopped == pc \in {"done", "aborted", "crashed"}

Terminated == Stopped /\ UNCHANGED vars

Run == SelectTimeout \/ Parse \/ Settle \/ FinalizeDue \/ NextRead \/ Flush \/ Rotate

Next ==
    \/ Tick \/ EndOfFile
    \/ \E fs \in Bursts, p \in BOOLEAN : Read(fs, p)
    \/ Run
    \/ Interrupt \/ InterruptFinalize \/ InterruptAccept
    \/ Terminated

Spec == Init /\ [][Next]_vars

\* The loop keeps running and time passes; input, its end and interrupts may never come.
FairSpec == Spec /\ WF_vars(Run) /\ WF_vars(Tick)

-----------------------------------------------------------------------------
(* Properties.                                                             *)

TypeOK ==
    /\ pc \in {"select", "parse", "finalize", "flush", "done", "aborted", "crashed"}
    /\ partial \in BOOLEAN
    /\ todo \in Seq(Frame) /\ frames \in 0..MaxFrames
    /\ DOMAIN buckets \subseteq Bucket /\ \A b \in DOMAIN buckets : buckets[b] \subseteq Event
    /\ DOMAIN silent = DOMAIN buckets /\ \A b \in DOMAIN silent : silent[b] \in 0..Idle
    /\ DOMAIN bounds = DOMAIN buckets
    /\ last_ts \in Ts /\ wait \in 0..Idle
    /\ seen \subseteq Bucket /\ half \subseteq Bucket /\ idled \subseteq Bucket
    /\ due \subseteq Bucket /\ pc = "finalize" => due \subseteq DOMAIN buckets
    /\ names \in [Suffix -> 0 .. Len(chain)] /\ names[0] \in {NoFile, Len(chain)} /\ dest \in 0 .. NotRotating
    /\ accepted \subseteq Event /\ scored \subseteq Event /\ late \subseteq Event

\* The records of the log, oldest first.
Records == {r \in (1..Len(chain)) \X (1..FileCap) : r[2] <= Len(chain[r[1]])}
BucketRecords == {r \in Records : chain[r[1]][r[2]].type = "bucket"}

\* No event is scored twice, however often its bucket is opened: what an open bucket
\* holds has not been scored, and two buckets share no event.
ScoredOnce ==
    /\ \A b \in DOMAIN buckets : buckets[b] # {} /\ buckets[b] \cap scored = {}
    /\ \A r, s \in BucketRecords : r # s =>
           chain[r[1]][r[2]].events \cap chain[s[1]][s[2]].events = {}

\* When the detector ends by itself every event that entered a bucket has been scored.
\* Only an interrupt inside finalize costs a bucket, and never more than one.
EndScoresAll ==
    pc = "done" =>
        /\ accepted = scored \cup lost
        /\ \A d, e \in lost : BucketOf(d.ts) = BucketOf(e.ts)

\* A bucket has two records only if it was finalised for being silent, or if all that the
\* later record holds came more than the grace period behind the newest event: the
\* option --grace-sec absorbs any smaller disorder.
SecondRecordExcused ==
    \A r, s \in BucketRecords :
        LET x == chain[r[1]][r[2]]
            y == chain[s[1]][s[2]]
        IN (r # s /\ x.b = y.b) =>
               x.b \in idled \/ x.events \subseteq late \/ y.events \subseteq late

\* The bounds of a record are those of its events, also for a bucket opened again.
BoundsExact ==
    \A r \in BucketRecords :
        LET x == chain[r[1]][r[2]]
            times == {e.ts : e \in x.events}
        IN /\ x.first \in times /\ x.last \in times
           /\ \A ts \in times : x.first <= ts /\ ts <= x.last /\ BucketOf(ts) = x.b

\* On a pipe that falls silent no bucket stays open: the tail of the stream is scored
\* without an end of file.
TailScored ==
    \A b \in {BucketOf(f.ts) : f \in Input} :
        [](b \in DOMAIN buckets => <>(b \notin DOMAIN buckets \/ pc \in {"aborted", "crashed"}))

\* The log holds every event in just one record, and that record's bounds are exact: the
\* properties of finalize, of its callers and of a bucket that is opened again.
RecordsExact == TypeOK /\ ScoredOnce /\ EndScoresAll /\ BoundsExact
=============================================================================
