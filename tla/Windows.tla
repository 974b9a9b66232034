------------------------------ MODULE Windows ------------------------------
(***************************************************************************)
(* Process windows and their aggregation: extract.py cuts the syscalls of  *)
(* each process of a capture into windows, labels them by a timeline and   *)
(* writes all of them or a sample; aggregate.py groups the written records *)
(* into time buckets and computes their features, looking up permissions   *)
(* in a file system that goes on changing.                                 *)
(*                                                                         *)
(* A frame is known by its position in the capture: queues hold positions. *)
(* Opens, connects and executions are queued and cleared together, so they *)
(* are one queue of details. One run extracts one session.                 *)
(***************************************************************************)
EXTENDS Integers, Sequences, FiniteSets, SequencesExt

CONSTANTS
    Key,        \* processes: [tgid, start]
    Path,       \* paths of opened files: [pid: below /proc/<pid>, dir: its entry of DIR_FRACS]
    Frames,     \* frames of this instance: [type, key, path]
    Options,    \* command lines: [mode, cap, min_len, tl, bn, ignore], bn being --bucket-sec and ignore --ignore-loss
    Window,     \* --window
    DIR_FRACS,  \* directories with a fraction of their own, and "other"
    NoUnit,       \* outside of every unit
    MaxFrames,  \* bound: frames of the capture
    MaxStats    \* bound: changes of the file system

\* --label and --technique, the unit of every window without a timeline.
Given == <<"normal", "baseline">>

Units(o) == {Given} \cup {o.tl[k].unit : k \in DOMAIN o.tl}

ASSUME WindowsAssumption ==
    /\ Window \in Nat \ {0} /\ MaxFrames \in Nat /\ MaxStats \in Nat
    /\ \A o \in Options : o.min_len \in 1 .. Window /\ o.cap \in Nat \ {0} /\ o.bn \in Nat \ {0}
    /\ "other" \in DIR_FRACS /\ IsFiniteSet(DIR_FRACS)
    /\ \A p \in Path : p.dir \in DIR_FRACS /\ p.pid \in BOOLEAN
    /\ \A f \in Frames : f.key \in Key /\ f.path \in Path
    /\ \A k \in Key : k.start \in Nat
    /\ \A o \in Options : o.mode \in {"slim", "all", "max_per_unit", "max_records"} /\ NoUnit \notin Units(o)
    /\ \A o \in Options : o.ignore \in BOOLEAN

\* A timeline is in order, as tl.sort() makes it, and its units follow each other, which the
\* finaliser requires of every session.
ASSUME TimelineAssumption ==
    \A o \in Options :
        /\ o.tl \in Seq(Range(o.tl))
        /\ \A j \in DOMAIN o.tl : o.tl[j].start \in Nat /\ o.tl[j].end \in Nat /\ o.tl[j].start <= o.tl[j].end
        /\ \A j, k \in DOMAIN o.tl : j < k => o.tl[j].end <= o.tl[k].start

VARIABLES
    opt,      \* the command line
    capture,  \* the frames read so far
    st,       \* sysq, details, samples, seen_u, lines (the records written), written, closed
    order,    \* the keys of sysq in the order they came
    lost,     \* the last HEALTH frame reported a loss
    doing,    \* what extract and then aggregate do next
    status,   \* exit status of extract
    exists,   \* exists[p]: os.stat(p) succeeds
    stats,    \* changes of the file system so far
    cache,    \* PermLookup.c
    rows      \* the rows of aggregate

wvars == <<opt, capture, st, order, lost, doing, status, exists, stats, cache, rows>>

-----------------------------------------------------------------------------
(* extract.py                                                              *)

\* The unit <<class, name>> of the last interval that starts by ts, unless it has ended.
label_of(ts) ==
    LET i == Cardinality({k \in DOMAIN opt.tl : opt.tl[k].start <= ts})
    IN IF i = 0 \/ ts > opt.tl[i].end THEN NoUnit ELSE opt.tl[i].unit

UnitOf(key) == IF opt.tl = <<>> THEN Given ELSE label_of(key.start)

WInit ==
    /\ opt \in Options
    /\ capture = <<>> /\ order = <<>> /\ lost = FALSE
    /\ st = [sysq |-> [k \in Key |-> <<>>], details |-> [k \in Key |-> <<>>],
             samples |-> [u \in Units(opt) |-> <<>>], seen_u |-> [u \in Units(opt) |-> 0],
             lines |-> <<>>, written |-> 0, closed |-> <<>>]
    /\ doing = "read" /\ status = -1
    /\ exists = [p \in Path |-> TRUE] /\ stats = 0
    /\ cache = <<>> /\ rows = <<>>

\* Mutant of randrange: as randint, with both ends.
randrangeInclusive(n) == 0 .. n

randrange(n) == 0 .. n - 1

\* Algorithm R: a record meets a reservoir of cap, with j drawn.
Sampled(res, cap, rec, j) ==
    IF Len(res) < cap THEN Append(res, rec)
    ELSE IF j < cap THEN [res EXCEPT ![j + 1] = rec] ELSE res

\* Where the record goes: the output, the reservoir of its unit, or the only reservoir,
\* which is kept under the unit Given.
Kept(s, rec) ==
    CASE opt.mode \in {"slim", "all"} -> {[s EXCEPT !.lines = Append(@, rec)]}
      [] opt.mode = "max_per_unit" ->
           {[s EXCEPT !.seen_u[rec.unit] = @ + 1,
                      !.samples[rec.unit] = Sampled(@, opt.cap, rec, j)] :
                j \in randrange(s.seen_u[rec.unit] + 1)}
      [] opt.mode = "max_records" ->
           {[s EXCEPT !.samples[Given] = Sampled(@, opt.cap, rec, j)] : j \in randrange(s.written + 1)}

\* Mutant of Emptied: what was opened stays for the next window.
EmptiedSyscalls(s, key) == [s EXCEPT !.sysq[key] = <<>>]

Emptied(s, key) == [s EXCEPT !.sysq[key] = <<>>, !.details[key] = <<>>]

\* flush: the states it may leave. closed has every window, with its unit or NoUnit.
flush(s, key, force) ==
    LET seq == s.sysq[key]
        rec == [key |-> key, unit |-> UnitOf(key), syscalls |-> seq, details |-> s.details[key]]
        closed == [Emptied(s, key) EXCEPT !.closed = Append(@, rec)]
    IN CASE Len(seq) < opt.min_len -> {IF force THEN Emptied(s, key) ELSE s}
         [] Len(seq) >= opt.min_len /\ rec.unit = NoUnit -> {closed}
         [] OTHER -> {[t EXCEPT !.written = @ + 1] : t \in Kept(closed, rec)}

Syscall(key, i) ==
    LET s == [st EXCEPT !.sysq[key] = Append(@, i)]
    IN /\ st' \in (IF Len(s.sysq[key]) >= Window THEN flush(s, key, FALSE) ELSE {s})
       /\ order' = IF key \in Range(order) THEN order ELSE Append(order, key)

\* A frame; an unmapped syscall changes no queue. The counters of HEALTH never go down.
ReadFrame ==
    /\ doing = "read" /\ Len(capture) < MaxFrames
    /\ \E f \in Frames :
         /\ f.type = "healthy" => ~lost
         /\ capture' = Append(capture, f)
         /\ lost' = (f.type = "loss" \/ (f.type # "healthy" /\ lost))
         /\ CASE f.type = "syscall" -> Syscall(f.key, Len(capture'))
              [] f.type \in {"open", "connect"} ->
                   /\ st' = [st EXCEPT !.details[f.key] = Append(@, Len(capture'))]
                   /\ UNCHANGED order
              [] OTHER -> UNCHANGED <<st, order>>
    /\ UNCHANGED <<opt, doing, status, exists, stats, cache, rows>>

\* A frame whose magic or version is wrong ends the program at once.
ReadCorrupt ==
    /\ doing = "read" /\ doing' = "ended" /\ status' = 1
    /\ UNCHANGED <<opt, capture, st, order, lost, exists, stats, cache, rows>>

\* The end of the file, in the middle of a frame or not.
ReadEnd ==
    /\ doing = "read" /\ doing' = "flush"
    /\ UNCHANGED <<opt, capture, st, order, lost, status, exists, stats, cache, rows>>

FlushRest ==
    /\ doing = "flush" /\ order # <<>>
    /\ st' \in flush(st, Head(order), TRUE)
    /\ order' = Tail(order)
    /\ UNCHANGED <<opt, capture, lost, doing, status, exists, stats, cache, rows>>

\* The samples are written by unit, in the order of their names.
Written ==
    IF opt.mode \in {"slim", "all"} THEN st.lines
    ELSE FlattenSeq([k \in 1 .. Cardinality(DOMAIN st.samples) |->
                        st.samples[SetToSeq(DOMAIN st.samples)[k]]])

ExitStatus == IF lost /\ ~opt.ignore THEN 2 ELSE IF st.written = 0 THEN 1 ELSE 0

\* The output is there whatever the status is.
WriteOutput ==
    /\ doing = "flush" /\ order = <<>>
    /\ st' = [st EXCEPT !.lines = Written]
    /\ status' = ExitStatus
    /\ doing' = IF ExitStatus = 0 THEN "aggregate" ELSE "ended"
    /\ UNCHANGED <<opt, capture, order, lost, exists, stats, cache, rows>>

-----------------------------------------------------------------------------
(* aggregate.py                                                            *)

BucketAt(rec) == rec.key.start \div opt.bn
Buckets == {BucketAt(st.lines[i]) : i \in DOMAIN st.lines}
Bucket(b) == {i \in DOMAIN st.lines : BucketAt(st.lines[i]) = b}

\* The syscalls and details of the records at places recs, by record and place in it.
Calls(recs) == UNION {{i} \X DOMAIN st.lines[i].syscalls : i \in recs}
Details(recs) == UNION {{i} \X DOMAIN st.lines[i].details : i \in recs}
FidOf(c) == capture[st.lines[c[1]].syscalls[c[2]]].fid
FrameOfDetail(d) == capture[st.lines[d[1]].details[d[2]]]

\* The files opened.
Files(recs) == {d \in Details(recs) : FrameOfDetail(d).type = "open"}
PathOf(d) == FrameOfDetail(d).path
Paths(recs) == {PathOf(d) : d \in Files(recs)}

\* PermLookup.get, of which the existence is kept: below /proc/<pid> it is a convention.
get(p) ==
    IF p \in DOMAIN cache THEN cache[p] ELSE p.pid \/ exists[p]

\* The cache after the paths were looked up.
Looked(paths) ==
    [p \in DOMAIN cache \cup paths |-> get(p)]

\* Slim records only have their own number of distinct syscalls, which are added.
n_uniq(recs) ==
    IF opt.mode = "slim" THEN Cardinality({<<c[1], FidOf(c)>> : c \in Calls(recs)})
    ELSE Cardinality({FidOf(c) : c \in Calls(recs)})

\* Mutant of dfrac: a file in none of the directories is not counted.
dfracListed(recs) ==
    [dir \in DIR_FRACS |->
        IF dir = "other" THEN 0 ELSE Cardinality({d \in Files(recs) : PathOf(d).dir = dir})]

dfrac(recs) == [dir \in DIR_FRACS |-> Cardinality({d \in Files(recs) : PathOf(d).dir = dir})]

\* The counts that the features are logarithms and fractions of.
bucket_features(recs) ==
    [nw |-> Cardinality(recs),
     tgids |-> Cardinality({st.lines[i].key.tgid : i \in recs}),
     seq_total |-> Cardinality(Calls(recs)),
     n_uniq |-> n_uniq(recs),
     nf |-> Cardinality(Files(recs)),
     missing |-> Cardinality({d \in Files(recs) : ~get(PathOf(d))}),
     dfrac |-> dfrac(recs),
     nets |-> Cardinality(Details(recs) \ Files(recs))]

label(recs) == IF \E i \in recs : st.lines[i].unit[1] = "attack" THEN "attack" ELSE "normal"

\* The first technique of those with the label, if there is one.
technique(recs) ==
    LET techniques == {st.lines[i].unit[2] : i \in {j \in recs : st.lines[j].unit[1] = label(recs)}}
    IN IF techniques = {} THEN "" ELSE CHOOSE u \in techniques : TRUE

\* One bucket after the other in the order of their times.
AggregateRow ==
    /\ doing = "aggregate"
    /\ \E b \in Buckets :
         /\ \A c \in Buckets : (\A k \in DOMAIN rows : rows[k].b # c) => b <= c
         /\ \A k \in DOMAIN rows : rows[k].b # b
         /\ rows' = Append(rows, [b |-> b, label |-> label(Bucket(b)), technique |-> technique(Bucket(b)),
                                  features |-> bucket_features(Bucket(b)),
                                  seen |-> [p \in Paths(Bucket(b)) |-> get(p)]])
         /\ cache' = Looked(Paths(Bucket(b)))
    /\ UNCHANGED <<opt, capture, st, order, lost, doing, status, exists, stats>>

AggregateSave ==
    /\ doing = "aggregate" /\ Len(rows) = Cardinality(Buckets)
    /\ doing' = "ended"
    /\ UNCHANGED <<opt, capture, st, order, lost, status, exists, stats, cache, rows>>

\* A file appears or goes while aggregate runs.
StatChanges ==
    /\ doing = "aggregate" /\ stats < MaxStats
    /\ stats' = stats + 1
    /\ \E p \in Path : exists' = [exists EXCEPT ![p] = ~@]
    /\ UNCHANGED <<opt, capture, st, order, lost, doing, status, cache, rows>>

WNext ==
    \/ ReadFrame \/ ReadCorrupt \/ ReadEnd \/ FlushRest \/ WriteOutput
    \/ AggregateRow \/ AggregateSave \/ StatChanges

WSpec == WInit /\ [][WNext]_wvars

-----------------------------------------------------------------------------
(* Properties.                                                             *)

Of(key, types) == {i \in DOMAIN capture : capture[i].type \in types /\ capture[i].key = key}
ClosedOf(key) == {k \in DOMAIN st.closed : st.closed[k].key = key}
Ascends(s) == \A j, k \in DOMAIN s : j < k => s[j] < s[k]

WindowsTypeOK ==
    /\ \A k \in Key : Range(st.sysq[k]) \cup Range(st.details[k]) \subseteq DOMAIN capture
    /\ \A u \in DOMAIN st.samples : Len(st.samples[u]) <= opt.cap
    /\ doing \in {"read", "flush", "aggregate", "ended"}
    /\ status \in -1 .. 2
    /\ st.written \in 0 .. MaxFrames /\ lost \in BOOLEAN
    /\ exists \in [Path -> BOOLEAN] /\ DOMAIN cache \subseteq Path

\* "the order is kept": the windows of a process, put one after the other, are its syscalls
\* as captured, each window but a last one of full length, and what no window has is the
\* unfinished queue, in the end shorter than the least length.
WindowsPartition ==
    \A key \in Key :
        LET all == Of(key, {"syscall"})
            windows == ClosedOf(key)
            inside == UNION {Range(st.closed[k].syscalls) : k \in windows}
            rest == all \ inside
        IN /\ inside \subseteq all /\ \A i \in inside, r \in rest : i < r
           /\ \A k \in windows : Ascends(st.closed[k].syscalls)
           /\ \A j, k \in windows : j < k =>
                 /\ Len(st.closed[j].syscalls) = Window
                 /\ \A x \in Range(st.closed[j].syscalls), y \in Range(st.closed[k].syscalls) : x < y
           /\ doing = "read" =>
                 /\ Ascends(st.sysq[key]) /\ Range(st.sysq[key]) = rest
                 /\ Len(st.sysq[key]) < Window
           /\ doing = "aggregate" => Cardinality(rest) < opt.min_len

\* Where a window ends: with its last syscall, or with the capture.
EndOf(w) == IF Len(w.syscalls) = Window THEN w.syscalls[Window] ELSE Len(capture)

\* What a process opened, connected to or executed is recorded, in order, in the window in
\* which it did so and in no other, and never with another process.
DetailsInWindow ==
    \A k \in DOMAIN st.closed :
        LET w == st.closed[k]
        IN /\ Ascends(w.details)
           /\ Range(w.details) = {i \in Of(w.key, {"open", "connect"}) :
                                    /\ i <= EndOf(w)
                                    /\ \A j \in ClosedOf(w.key) : j < k => EndOf(st.closed[j]) < i}

\* A window has the unit in whose interval its process started, both ends included, and
\* is left out of the output only when there is none, or by the sampling.
UnitContainsStart ==
    \A k \in DOMAIN st.closed :
        LET w == st.closed[k]
            around == {i \in DOMAIN opt.tl :
                          opt.tl[i].start <= w.key.start /\ w.key.start <= opt.tl[i].end}
        IN opt.tl # <<>> =>
             IF around = {} THEN w.unit = NoUnit ELSE \E i \in around : w.unit = opt.tl[i].unit

\* Reservoirs that records 1 .. n may leave, by the numbers drawn.
Reservoir(n, cap, drawn) ==
    LET res[k \in 0 .. n] == IF k = 0 THEN <<>> ELSE Sampled(res[k - 1], cap, k, drawn[k])
    IN Range(res[n])
Draws(n) == {d \in [1 .. n -> 0 .. n] : \A k \in 1 .. n : d[k] \in randrange(k)}

\* "it must be a uniform sample": of the sets of cap records out of n, each is left by as
\* many of the equally likely draws as any other; and a reservoir is only short when there
\* were no more records.
SampleUniform ==
    doing = "flush" /\ order = <<>> /\ opt.mode \in {"max_per_unit", "max_records"} =>
        /\ \A n \in 1 .. st.written + 2 :
             \A A, B \in kSubset(IF n < opt.cap THEN n ELSE opt.cap, 1 .. n) :
                 Cardinality({d \in Draws(n) : Reservoir(n, opt.cap, d) = A})
                   = Cardinality({d \in Draws(n) : Reservoir(n, opt.cap, d) = B})
        /\ \A u \in DOMAIN st.samples :
             LET made == {k \in DOMAIN st.closed :
                             st.closed[k].unit # NoUnit
                               /\ (opt.mode = "max_records" \/ st.closed[k].unit = u)}
             IN (opt.mode = "max_per_unit" \/ u = Given) =>
                   /\ Cardinality(Range(st.samples[u]))
                        = (IF Cardinality(made) < opt.cap THEN Cardinality(made) ELSE opt.cap)
                   /\ Range(st.samples[u]) \subseteq {st.closed[k] : k \in made}

\* No capture that reports a loss becomes a dataset, unless the command line says so.
LossRefused ==
    status = 0 /\ ~opt.ignore => \A i \in DOMAIN capture : capture[i].type # "loss"

\* Every record is counted in one row: without sampling, rows have the syscalls and opens of
\* all labelled windows, and fractions of counts stay between zero and one.
RowsConserve ==
    doing = "aggregate" /\ Len(rows) = Cardinality(Buckets) =>
        LET labelled == {k \in DOMAIN st.closed : st.closed[k].unit # NoUnit}
        IN /\ SumFunction([k \in DOMAIN rows |-> rows[k].features.nw]) = Len(st.lines)
           /\ opt.mode \in {"slim", "all"} =>
                /\ SumFunction([k \in DOMAIN rows |-> rows[k].features.seq_total])
                     = Cardinality(UNION {{k} \X DOMAIN st.closed[k].syscalls : k \in labelled})
                /\ SumFunction([k \in DOMAIN rows |-> rows[k].features.nf + rows[k].features.nets])
                     = Cardinality(UNION {{k} \X DOMAIN st.closed[k].details : k \in labelled})
           /\ \A k \in DOMAIN rows :
                LET f == rows[k].features
                IN f.n_uniq <= f.seq_total /\ f.missing <= f.nf /\ SumFunction(f.dfrac) = f.nf

\* A bucket with any attack in it is an attack, and its technique is one of its attacks.
AttackWins ==
    \A k \in DOMAIN rows :
        LET units == {st.lines[i].unit : i \in Bucket(rows[k].b)}
        IN /\ (\E u \in units : u[1] = "attack") => rows[k].label = "attack"
           /\ (\E u \in units : u[1] = rows[k].label) =>
                 \E u \in units : u[1] = rows[k].label /\ u[2] = rows[k].technique

\* "the same value whatever the time": all rows of one run agree on whether a path exists,
\* however the file system changes, and paths below /proc/<pid> always do.
PermissionsAgree ==
    \A j, k \in DOMAIN rows :
        /\ \A p \in DOMAIN rows[j].seen \cap DOMAIN rows[k].seen : rows[j].seen[p] = rows[k].seen[p]
        /\ \A p \in DOMAIN rows[j].seen : p.pid => rows[j].seen[p]

\* The windows of extract.py: every syscall and detail of a process in just one of them,
\* with the unit of the process, and without
\* --ignore-loss none from a capture with losses.
WindowsExact ==
    /\ WindowsTypeOK /\ WindowsPartition /\ DetailsInWindow
    /\ UnitContainsStart /\ LossRefused

\* The rows of aggregate.py: every window counted in just one, with the label of its attacks
\* and the same answer for a path everywhere.
RowsExact == RowsConserve /\ AttackWins /\ PermissionsAgree
=============================================================================
