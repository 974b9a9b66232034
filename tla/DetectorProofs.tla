--------------------------- MODULE DetectorProofs ---------------------------
(***************************************************************************)
(* Proofs about Detector and the reader of Dataset for any widths, bounds, *)
(* streams and timelines: what the log says of the events, which log files *)
(* the reader takes, and what the rows say of both.                        *)
(***************************************************************************)
EXTENDS Dataset, DataLemmas

\* Least finds the bucket that the loops over sorted keys begin with.
LEMMA LeastIn ==
    ASSUME NEW S, S \subseteq Nat, S # {}
    PROVE  Least(S) \in S /\ \A y \in S : Least(S) <= y
  BY Minimum DEF Least

\* A later time is in no earlier bucket.
LEMMA DivMonotone ==
    ASSUME NEW x \in Int, NEW y \in Int, x <= y
    PROVE  /\ x \div BN \in Int /\ x \div BN <= y \div BN
  <1>1. BN \in Int /\ BN > 0
    BY DetectorAssumption
  <1>2. x \div BN \in Int /\ y \div BN \in Int
    BY <1>1
  <1>3. BN * (x \div BN) <= x /\ y < BN * (y \div BN + 1)
    BY <1>1
  <1>4. BN * (x \div BN) < BN * (y \div BN + 1)
    BY <1>1, <1>2, <1>3
  <1> DEFINE p == x \div BN
             q == y \div BN + 1
  <1>5. p \in Int /\ q \in Int /\ BN * p < BN * q
    BY <1>2, <1>4
  <1>6. p < q
    <2> HIDE DEF p, q
    <2> SUFFICES ASSUME q <= p PROVE FALSE
      BY <1>5
    <2>1. BN * q <= BN * p
      BY <1>1, <1>5
    <2> QED
      BY <1>1, <1>5, <2>1
  <1> QED
    BY <1>2, <1>6

\* What the diagnostic log holds.
LogRecord == BucketRecord \cup HealthRecord

\* The log files: there is always one, and none holds more than the rotation allows.
ChainInv ==
    /\ chain \in Seq(Seq(LogRecord)) /\ Len(chain) > 0
    /\ \A i \in 1..Len(chain) : Len(chain[i]) <= FileCap

\* The record at a position of the log.
At(r) == chain[r[1]][r[2]]

\* Log adds one record to the newest file, and changes no other.
LEMMA LogStep ==
    ASSUME ChainInv, NEW rec \in LogRecord, Log(rec)
    PROVE  /\ ChainInv'
           /\ Len(chain') = Len(chain)
           /\ \E new : /\ new \notin Records
                       /\ Records' = Records \cup {new}
                       /\ chain'[new[1]][new[2]] = rec
                       /\ \A r \in Records : chain'[r[1]][r[2]] = At(r)
  <1> DEFINE n == Len(chain)
             base == chain[n]
             k == Len(base) + 1
  <1>1. n \in Nat \ {0} /\ base \in Seq(LogRecord) /\ FileCap \in Nat \ {0}
    BY DetectorAssumption DEF ChainInv
  <1>2. Len(base) < FileCap
    BY <1>1 DEF Log, Full
  <1>3. chain' = [chain EXCEPT ![n] = Append(base, rec)]
    BY DEF Log
  <1>4. Append(base, rec) \in Seq(LogRecord) /\ Len(Append(base, rec)) = k /\ k \in 1..FileCap
    BY <1>1, <1>2
  <1>5. /\ Append(base, rec)[k] = rec
        /\ \A j \in 1..Len(base) : Append(base, rec)[j] = base[j]
    BY <1>1
  <1>6. Len(chain') = n /\ chain'[n] = Append(base, rec) /\ \A i \in 1..n : i # n => chain'[i] = chain[i]
    BY <1>1, <1>3 DEF ChainInv
  <1>7. ChainInv'
    <2>1. chain' \in Seq(Seq(LogRecord))
      BY <1>1, <1>3, <1>4 DEF ChainInv
    <2>2. \A i \in 1..n : Len(chain'[i]) <= FileCap
      BY <1>1, <1>4, <1>6 DEF ChainInv
    <2> QED
      BY <1>1, <1>6, <2>1, <2>2 DEF ChainInv
  <1>8. Records' = Records \cup {<<n, k>>}
    <2>1. ASSUME NEW r \in Records' PROVE r \in Records \cup {<<n, k>>}
      BY <1>1, <1>4, <1>6 DEF Records
    <2>2. Records \subseteq Records'
      BY <1>1, <1>4, <1>6 DEF Records
    <2>3. <<n, k>> \in Records'
      BY <1>1, <1>4, <1>6 DEF Records
    <2> QED
      BY <2>1, <2>2, <2>3
  <1>9. <<n, k>> \notin Records
    BY <1>1 DEF Records
  <1>10. \A r \in Records : chain'[r[1]][r[2]] = At(r)
    <2> SUFFICES ASSUME NEW r \in Records PROVE chain'[r[1]][r[2]] = At(r)
      OBVIOUS
    <2>1. r[1] \in 1..n /\ r[2] \in 1..FileCap /\ r[2] <= Len(chain[r[1]])
      BY DEF Records
    <2> QED
      BY <2>1, <1>5, <1>6, <1>1 DEF At
  <1>11. chain'[n][k] = rec
    BY <1>5, <1>6
  <1> QED
    BY <1>6, <1>7, <1>8, <1>9, <1>10, <1>11

\* A new file holds no record, and the records stay where they are.
LEMMA NewFile ==
    ASSUME ChainInv, chain' = Append(chain, <<>>)
    PROVE  /\ ChainInv'
           /\ Len(chain') = Len(chain) + 1
           /\ Records' = Records
           /\ \A i \in 1..Len(chain) : chain'[i] = chain[i]
           /\ \A r \in Records : At(r)' = At(r)
  <1> DEFINE n == Len(chain)
  <1>1. n \in Nat \ {0} /\ FileCap \in Nat
    BY DetectorAssumption DEF ChainInv
  <1>2. Len(chain') = n + 1 /\ chain'[n + 1] = <<>> /\ \A i \in 1..n : chain'[i] = chain[i]
    BY DEF ChainInv
  <1>3. <<>> \in Seq(LogRecord) /\ Len(<<>>) = 0
    OBVIOUS
  <1>4. chain' \in Seq(Seq(LogRecord))
    BY <1>3 DEF ChainInv
  <1>5. \A i \in 1..n + 1 : Len(chain'[i]) <= FileCap
    <2> SUFFICES ASSUME NEW i \in 1..n + 1 PROVE Len(chain'[i]) <= FileCap
      OBVIOUS
    <2>1. CASE i \in 1..n
      BY <1>2, <2>1 DEF ChainInv
    <2>2. CASE i = n + 1
      BY <1>1, <1>2, <1>3, <2>2
    <2> QED
      BY <1>1, <2>1, <2>2
  <1>6. ChainInv'
    BY <1>1, <1>2, <1>4, <1>5 DEF ChainInv
  <1>7. Records' = Records
    <2>1. ASSUME NEW r \in Records' PROVE r \in Records
      <3>1. r \in (1..n + 1) \X (1..FileCap) /\ r[2] <= Len(chain'[r[1]])
        BY <1>2 DEF Records
      <3>2. r[1] # n + 1
        BY <1>1, <1>2, <1>3, <3>1
      <3> QED
        BY <1>1, <1>2, <3>1, <3>2 DEF Records
    <2>2. Records \subseteq Records'
      BY <1>1, <1>2 DEF Records
    <2> QED
      BY <2>1, <2>2
  <1>8. \A r \in Records : At(r)' = At(r)
    BY <1>2 DEF At, Records
  <1> QED
    BY <1>2, <1>6, <1>7, <1>8

-----------------------------------------------------------------------------
\* The open buckets have bounds.
TableInv ==
    /\ DOMAIN buckets \subseteq Nat
    /\ DOMAIN bounds = DOMAIN buckets
    /\ last_ts \in Ts

\* Events are numbered as they are accepted, so that the next one is new.
CountInv ==
    /\ IsFiniteSet(accepted) /\ accepted \subseteq Event
    /\ \A e \in accepted : e.n <= Cardinality(accepted)

\* The events of an open bucket belong to it, and are neither scored nor lost.
OpenInv ==
    \A b \in DOMAIN buckets :
        /\ buckets[b] # {} /\ buckets[b] \subseteq accepted
        /\ buckets[b] \cap scored = {} /\ buckets[b] \cap lost = {}
        /\ \A e \in buckets[b] : BucketOf(e.ts) = b

\* p is the first and the last time of the events E.
Exact(p, E) ==
    /\ p[1] \in Ts /\ p[2] \in Ts
    /\ \E e \in E : e.ts = p[1]
    /\ \E e \in E : e.ts = p[2]
    /\ \A e \in E : p[1] <= e.ts /\ e.ts <= p[2]

\* bucket_bounds is exact while a bucket is open.
BoundsInv == \A b \in DOMAIN buckets : Exact(bounds[b], buckets[b])

\* An accepted event is scored, lost or in an open bucket.
FateInv ==
    /\ scored \subseteq accepted /\ lost \subseteq accepted /\ late \subseteq accepted
    /\ \A e \in accepted : e \in scored \/ e \in lost \/ \E b \in DOMAIN buckets : e \in buckets[b]

\* The records hold the scored events, each one once, with exact bounds.
RecordInv ==
    /\ \A r \in BucketRecords :
         /\ At(r).events \subseteq scored
         /\ Exact(<<At(r).first, At(r).last>>, At(r).events)
         /\ \A e \in At(r).events : BucketOf(e.ts) = At(r).b
    /\ \A r, s \in BucketRecords : r # s => At(r).events \cap At(s).events = {}
    /\ \A e \in scored : \E r \in BucketRecords : e \in At(r).events

\* Event time has passed the bucket by the grace period.
Passed(b) == b < cutoff

\* A bucket that is open again after a record of it was silent, or has late events only.
ReopenInv ==
    /\ \A r \in BucketRecords : At(r).b \in DOMAIN buckets =>
         At(r).b \in idled \/ buckets[At(r).b] \subseteq late
    /\ SecondRecordExcused

\* What the table, the log and the history say of each other.
TableData == TableInv /\ CountInv /\ OpenInv /\ BoundsInv /\ FateInv
DataInv == TableData /\ ChainInv /\ RecordInv /\ ReopenInv

\* Timestamps and their buckets are numbers.
LEMMA TsFacts ==
    /\ \A ts \in Ts : ts \in Int /\ 0 <= ts
    /\ \A ts \in Ts : BucketOf(ts) \in Nat
  <1>1. \A ts \in Ts : ts \in Nat
    BY DetectorAssumption DEF Ts
  <1> QED
    BY <1>1, DetectorAssumption DEF BucketOf

\* Accept makes one new event, and changes no bucket but its own.
LEMMA AcceptFacts ==
    ASSUME TableInv, CountInv, NEW ts \in Ts, Accept(ts)
    PROVE  \E e \in Event :
             /\ e.ts = ts /\ e \notin accepted
             /\ accepted' = accepted \cup {e}
             /\ late' = IF ts + Grace < last_ts THEN late \cup {e} ELSE late
             /\ DOMAIN buckets' = DOMAIN buckets \cup {BucketOf(ts)}
             /\ \A x \in DOMAIN buckets : x # BucketOf(ts) => buckets'[x] = buckets[x]
             /\ buckets'[BucketOf(ts)] =
                  (IF BucketOf(ts) \in DOMAIN buckets THEN buckets[BucketOf(ts)] ELSE {}) \cup {e}
             /\ e.n = Cardinality(accepted) + 1
  <1> DEFINE e == [n |-> Cardinality(accepted) + 1, ts |-> ts]
             b == BucketOf(ts)
  <1>1. Cardinality(accepted) \in Nat
    BY FS_CardinalityType DEF CountInv
  <1>2. e \in Event /\ e.ts = ts /\ e.n = Cardinality(accepted) + 1
    BY <1>1 DEF Event
  <1>3. e \notin accepted
    BY <1>1, <1>2 DEF CountInv, Event
  <1>4. /\ accepted' = accepted \cup {e}
        /\ late' = IF ts + Grace < last_ts THEN late \cup {e} ELSE late
        /\ buckets' = [x \in DOMAIN buckets \cup {b} |->
                          (IF x \in DOMAIN buckets THEN buckets[x] ELSE {})
                          \cup (IF x = b THEN {e} ELSE {})]
    BY DEF Accept
  <1> HIDE DEF e, b
  <1>5. /\ DOMAIN buckets' = DOMAIN buckets \cup {b}
        /\ \A x \in DOMAIN buckets : x # b => buckets'[x] = buckets[x]
        /\ buckets'[b] = (IF b \in DOMAIN buckets THEN buckets[b] ELSE {}) \cup {e}
    BY <1>4
  <1> QED
    BY <1>2, <1>3, <1>4, <1>5 DEF b

\* The same of bucket_bounds.
LEMMA AcceptBounds ==
    ASSUME TableInv, NEW ts \in Ts, Accept(ts)
    PROVE  /\ DOMAIN bounds' = DOMAIN bounds \cup {BucketOf(ts)}
           /\ \A x \in DOMAIN bounds : x # BucketOf(ts) => bounds'[x] = bounds[x]
           /\ bounds'[BucketOf(ts)] =
                IF BucketOf(ts) \in DOMAIN bounds
                THEN <<Low(bounds[BucketOf(ts)][1], ts), High(bounds[BucketOf(ts)][2], ts)>>
                ELSE <<ts, ts>>
  <1> DEFINE b == BucketOf(ts)
  <1>1. bounds' = IF b \in DOMAIN bounds
                  THEN [bounds EXCEPT ![b] = <<Low(bounds[b][1], ts), High(bounds[b][2], ts)>>]
                  ELSE [x \in DOMAIN bounds \cup {b} |-> IF x = b THEN <<ts, ts>> ELSE bounds[x]]
    BY DEF Accept, Bounds
  <1> HIDE DEF b
  <1>2. /\ DOMAIN bounds' = DOMAIN bounds \cup {b}
        /\ \A x \in DOMAIN bounds : x # b => bounds'[x] = bounds[x]
        /\ bounds'[b] = IF b \in DOMAIN bounds THEN <<Low(bounds[b][1], ts), High(bounds[b][2], ts)>>
                        ELSE <<ts, ts>>
    BY <1>1
  <1> QED
    BY <1>2 DEF b

\* Accept keeps what is said of the table.
LEMMA AcceptTable ==
    ASSUME TableData, NEW ts \in Ts, Accept(ts), UNCHANGED <<scored, lost>>
    PROVE  TableData'
  <1> DEFINE b == BucketOf(ts)
  <1>1. PICK e \in Event :
             /\ e.ts = ts /\ e \notin accepted
             /\ accepted' = accepted \cup {e}
             /\ late' = IF ts + Grace < last_ts THEN late \cup {e} ELSE late
             /\ DOMAIN buckets' = DOMAIN buckets \cup {b}
             /\ \A x \in DOMAIN buckets : x # b => buckets'[x] = buckets[x]
             /\ buckets'[b] = (IF b \in DOMAIN buckets THEN buckets[b] ELSE {}) \cup {e}
             /\ e.n = Cardinality(accepted) + 1
    BY AcceptFacts DEF TableData
  <1>2. /\ DOMAIN bounds' = DOMAIN bounds \cup {b}
        /\ \A x \in DOMAIN bounds : x # b => bounds'[x] = bounds[x]
        /\ bounds'[b] = IF b \in DOMAIN bounds THEN <<Low(bounds[b][1], ts), High(bounds[b][2], ts)>>
                        ELSE <<ts, ts>>
    BY AcceptBounds DEF TableData
  <1>3. b \in Nat /\ b = BucketOf(e.ts)
    BY <1>1, TsFacts
  <1>4. last_ts' = High(last_ts, ts)
    BY DEF Accept
  <1> HIDE DEF b
  <1>5. TableInv'
    <2>1. last_ts' \in Ts
      BY <1>4, TsFacts DEF TableData, TableInv, High
    <2>2. DOMAIN bounds' = DOMAIN buckets' /\ DOMAIN buckets' \subseteq Nat
      BY <1>1, <1>2, <1>3 DEF TableData, TableInv
    <2> QED
      BY <2>1, <2>2 DEF TableInv
  <1>6. CountInv'
    <2>1. Cardinality(accepted) \in Nat
      BY FS_CardinalityType DEF TableData, CountInv
    <2>2. IsFiniteSet(accepted') /\ Cardinality(accepted') = Cardinality(accepted) + 1
      BY <1>1, FS_AddElement DEF TableData, CountInv
    <2>3. ASSUME NEW d \in accepted' PROVE d \in Event /\ d.n <= Cardinality(accepted')
      BY <1>1, <2>1, <2>2 DEF TableData, CountInv, Event
    <2> QED
      BY <2>2, <2>3 DEF CountInv
  <1>7. OpenInv'
    BY <1>1, <1>3 DEF TableData, OpenInv, FateInv
  <1>8. BoundsInv'
    <2> SUFFICES ASSUME NEW x \in DOMAIN buckets' PROVE Exact(bounds'[x], buckets'[x])
      BY DEF BoundsInv, Exact
    <2>1. DOMAIN bounds = DOMAIN buckets
      BY DEF TableData, TableInv
    <2>2. CASE x # b
      BY <1>1, <1>2, <2>1, <2>2 DEF TableData, BoundsInv
    <2>3. CASE x = b /\ b \notin DOMAIN buckets
      BY <1>1, <1>2, <2>1, <2>3, TsFacts DEF Exact
    <2>4. CASE x = b /\ b \in DOMAIN buckets
      <3>1. Exact(bounds[b], buckets[b]) /\ \A d \in buckets[b] : d.ts \in Ts
        BY <2>4 DEF TableData, BoundsInv, OpenInv, CountInv, Event
      <3>2. bounds'[b] = <<Low(bounds[b][1], ts), High(bounds[b][2], ts)>> /\ buckets'[b] = buckets[b] \cup {e}
        BY <1>1, <1>2, <2>1, <2>4
      <3> QED
        BY <1>1, <2>4, <3>1, <3>2, TsFacts DEF Exact, Low, High
    <2> QED
      BY <2>2, <2>3, <2>4
  <1>9. FateInv'
    <2>1. scored' \subseteq accepted' /\ lost' \subseteq accepted' /\ late' \subseteq accepted'
      BY <1>1 DEF TableData, FateInv
    <2>2. ASSUME NEW d \in accepted'
          PROVE  d \in scored' \/ d \in lost' \/ \E x \in DOMAIN buckets' : d \in buckets'[x]
      <3>1. CASE d = e
        BY <1>1, <3>1
      <3>2. CASE d \in accepted
        BY <1>1, <3>2 DEF TableData, FateInv
      <3> QED
        BY <1>1, <3>1, <3>2
    <2> QED
      BY <2>1, <2>2 DEF FateInv
  <1> QED
    BY <1>5, <1>6, <1>7, <1>8, <1>9 DEF TableData

-----------------------------------------------------------------------------
\* While the loop runs, a bucket with a record was silent or has been passed.
RecordsPassed == \A r \in BucketRecords : At(r).b \in idled \/ Passed(At(r).b)

\* An event of a bucket that has been passed is late.
LEMMA PassedLate ==
    ASSUME last_ts \in Ts, NEW ts \in Ts, Passed(BucketOf(ts))
    PROVE  ts + Grace < last_ts
  <1>1. ts \in Int /\ last_ts \in Int /\ Grace \in Int
    BY TsFacts, DetectorAssumption
  <1>2. last_ts - Grace <= ts => cutoff <= BucketOf(ts) /\ cutoff \in Int
    BY <1>1, DivMonotone DEF cutoff, BucketOf
  <1>3. BucketOf(ts) \in Nat
    BY TsFacts
  <1> QED
    BY <1>1, <1>2, <1>3 DEF Passed

\* last_ts only grows, so that what has been passed stays so.
LEMMA PassedKept ==
    ASSUME last_ts \in Ts, last_ts' \in Ts, last_ts <= last_ts', NEW b \in Nat, Passed(b)
    PROVE  Passed(b)'
  <1>1. last_ts - Grace \in Int /\ last_ts' - Grace \in Int /\ last_ts - Grace <= last_ts' - Grace
    BY TsFacts, DetectorAssumption
  <1>2. cutoff <= cutoff' /\ cutoff \in Int /\ cutoff' \in Int
    BY <1>1, DivMonotone DEF cutoff
  <1> QED
    BY <1>2 DEF Passed

\* SecondRecordExcused by positions.
LEMMA SecondAt ==
    SecondRecordExcused <=>
        \A r, s \in BucketRecords : r # s /\ At(r).b = At(s).b =>
            At(r).b \in idled \/ At(r).events \subseteq late \/ At(s).events \subseteq late
  BY DEF SecondRecordExcused, At

\* Without a new record nothing that is said of the log changes.
LEMMA SameChain ==
    ASSUME UNCHANGED chain
    PROVE  /\ BucketRecords' = BucketRecords
           /\ \A r : At(r)' = At(r)
           /\ ChainInv <=> ChainInv'
  BY DEF BucketRecords, Records, At, ChainInv

\* Accept keeps the whole: in a bucket opened again the event is late.
LEMMA AcceptData ==
    ASSUME DataInv, RecordsPassed, NEW ts \in Ts, Accept(ts), UNCHANGED <<scored, lost, chain, idled>>
    PROVE  DataInv'
  <1>1. TableData'
    BY AcceptTable DEF DataInv
  <1>2. ChainInv'
    BY SameChain DEF DataInv
  <1>3. RecordInv'
    BY SameChain DEF DataInv, RecordInv, Exact
  <1> DEFINE b == BucketOf(ts)
  <1>4. PICK e \in Event :
             /\ late' = IF ts + Grace < last_ts THEN late \cup {e} ELSE late
             /\ DOMAIN buckets' = DOMAIN buckets \cup {b}
             /\ \A x \in DOMAIN buckets : x # b => buckets'[x] = buckets[x]
             /\ buckets'[b] = (IF b \in DOMAIN buckets THEN buckets[b] ELSE {}) \cup {e}
    BY AcceptFacts DEF DataInv, TableData
  <1>5. Passed(b) => ts + Grace < last_ts
    BY PassedLate DEF DataInv, TableData, TableInv
  <1> HIDE DEF b
  <1>6. ASSUME NEW r \in BucketRecords, At(r).b \in DOMAIN buckets'
        PROVE  At(r).b \in idled \/ buckets'[At(r).b] \subseteq late'
    <2>1. At(r).b \in DOMAIN buckets => At(r).b \in idled \/ buckets[At(r).b] \subseteq late
      BY DEF DataInv, ReopenInv
    <2>2. At(r).b \in idled \/ Passed(At(r).b)
      BY DEF RecordsPassed
    <2>3. CASE At(r).b # b
      BY <1>4, <1>6, <2>1, <2>3
    <2>4. CASE At(r).b = b
      BY <1>4, <1>5, <2>1, <2>2, <2>4
    <2> QED
      BY <2>3, <2>4
  <1>7. SecondRecordExcused'
    <2>1. late \subseteq late'
      BY <1>4
    <2>2. \A r, s \in BucketRecords : r # s /\ At(r).b = At(s).b =>
            At(r).b \in idled \/ At(r).events \subseteq late \/ At(s).events \subseteq late
      BY SecondAt DEF DataInv, ReopenInv
    <2> QED
      BY <2>1, <2>2, SameChain DEF SecondRecordExcused, At
  <1>8. ReopenInv'
    BY <1>6, <1>7, SameChain DEF ReopenInv
  <1> QED
    BY <1>1, <1>2, <1>3, <1>8 DEF DataInv

\* A log record that is not of a bucket.
LEMMA HealthData ==
    ASSUME DataInv, NEW ts \in Ts, Log([type |-> "health", ts |-> ts]),
           UNCHANGED <<buckets, bounds, last_ts, accepted, scored, lost, late, idled>>
    PROVE  DataInv' /\ (RecordsPassed => RecordsPassed')
  <1> DEFINE rec == [type |-> "health", ts |-> ts]
  <1>1. rec \in LogRecord /\ rec.type # "bucket"
    BY DEF LogRecord, HealthRecord
  <1> HIDE DEF rec
  <1>2. /\ ChainInv'
        /\ \E new : /\ new \notin Records
                    /\ Records' = Records \cup {new}
                    /\ chain'[new[1]][new[2]] = rec
                    /\ \A r \in Records : chain'[r[1]][r[2]] = At(r)
    BY <1>1, LogStep DEF DataInv, rec
  <1>3. BucketRecords' = BucketRecords /\ \A r \in BucketRecords : At(r)' = At(r)
    BY <1>1, <1>2 DEF BucketRecords, At
  <1>4. TableData'
    BY DEF DataInv, TableData, TableInv, CountInv, OpenInv, BoundsInv, FateInv
  <1>5. RecordInv'
    BY <1>3 DEF DataInv, RecordInv
  <1>6. ReopenInv'
    <2>1. \A r, s \in BucketRecords : r # s /\ At(r).b = At(s).b =>
            At(r).b \in idled \/ At(r).events \subseteq late \/ At(s).events \subseteq late
      BY SecondAt DEF DataInv, ReopenInv
    <2>2. \A r, s \in BucketRecords' : r # s /\ At(r)'.b = At(s)'.b =>
            At(r)'.b \in idled \/ At(r)'.events \subseteq late \/ At(s)'.events \subseteq late
      BY <1>3, <2>1
    <2>3. SecondRecordExcused'
      BY <2>2 DEF SecondRecordExcused, At
    <2> QED
      BY <1>3, <2>3 DEF DataInv, ReopenInv
  <1>7. RecordsPassed => RecordsPassed'
    BY <1>3 DEF RecordsPassed, Passed, cutoff
  <1> QED
    BY <1>2, <1>4, <1>5, <1>6, <1>7 DEF DataInv

\* Pop takes out one bucket and its bounds.
LEMMA PopFacts ==
    ASSUME TableInv, NEW b \in DOMAIN buckets, Pop(b)
    PROVE  /\ DOMAIN buckets' = DOMAIN buckets \ {b} /\ DOMAIN bounds' = DOMAIN buckets \ {b}
           /\ \A x \in DOMAIN buckets' : buckets'[x] = buckets[x] /\ bounds'[x] = bounds[x]
  BY DEF Pop, Restrict, TableInv

\* A bucket that leaves the table is scored or lost.
LEMMA LeaveData ==
    ASSUME TableData, NEW b \in DOMAIN buckets, Pop(b), UNCHANGED <<accepted, late, last_ts>>,
           \/ scored' = scored \cup buckets[b] /\ lost' = lost
           \/ scored' = scored /\ lost' = lost \cup buckets[b]
    PROVE  TableData'
  <1>1. /\ DOMAIN buckets' = DOMAIN buckets \ {b} /\ DOMAIN bounds' = DOMAIN buckets \ {b}
        /\ \A x \in DOMAIN buckets' : buckets'[x] = buckets[x] /\ bounds'[x] = bounds[x]
    BY PopFacts DEF TableData
  <1>2. TableInv' /\ CountInv'
    BY <1>1 DEF TableData, TableInv, CountInv
  <1>3. BoundsInv'
    BY <1>1 DEF TableData, BoundsInv, Exact
  <1>4. OpenInv'
    <2> SUFFICES ASSUME NEW x \in DOMAIN buckets'
                 PROVE  /\ buckets'[x] # {} /\ buckets'[x] \subseteq accepted'
                        /\ buckets'[x] \cap scored' = {} /\ buckets'[x] \cap lost' = {}
                        /\ \A e \in buckets'[x] : BucketOf(e.ts) = x
      BY DEF OpenInv, BucketOf
    <2>1. x # b /\ x \in DOMAIN buckets /\ buckets'[x] = buckets[x]
      BY <1>1
    <2>2. buckets[x] \cap buckets[b] = {}
      BY <2>1 DEF TableData, OpenInv
    <2> QED
      BY <2>1, <2>2 DEF TableData, OpenInv
  <1>5. FateInv'
    <2>1. scored' \subseteq accepted' /\ lost' \subseteq accepted' /\ late' \subseteq accepted'
      BY DEF TableData, FateInv, OpenInv
    <2>2. ASSUME NEW e \in accepted'
          PROVE  e \in scored' \/ e \in lost' \/ \E x \in DOMAIN buckets' : e \in buckets'[x]
      BY <1>1 DEF TableData, FateInv
    <2> QED
      BY <2>1, <2>2 DEF FateInv
  <1> QED
    BY <1>2, <1>3, <1>4, <1>5 DEF TableData

\* A bucket that leaves the table without a record.
LEMMA LoseData ==
    ASSUME DataInv, NEW b \in DOMAIN buckets, Pop(b), lost' = lost \cup buckets[b],
           UNCHANGED <<accepted, scored, late, last_ts, chain, idled>>
    PROVE  DataInv'
  <1>1. TableData'
    BY LeaveData DEF DataInv
  <1>2. ChainInv' /\ RecordInv'
    BY SameChain DEF DataInv, RecordInv, Exact
  <1>3. SecondRecordExcused'
    BY SecondAt, SameChain DEF DataInv, ReopenInv, SecondRecordExcused, At
  <1>4. /\ DOMAIN buckets' = DOMAIN buckets \ {b}
        /\ \A x \in DOMAIN buckets' : buckets'[x] = buckets[x]
    BY PopFacts DEF DataInv, TableData
  <1>5. ReopenInv'
    BY <1>3, <1>4, SameChain DEF DataInv, ReopenInv
  <1> QED
    BY <1>1, <1>2, <1>5 DEF DataInv

\* finalize keeps the whole: the new record shares no event with an older one.
LEMMA FinalizeData ==
    ASSUME DataInv, NEW b \in DOMAIN buckets, finalize(b),
           UNCHANGED <<accepted, lost, late, last_ts, idled>>
    PROVE  DataInv' /\ (RecordsPassed /\ (b \in idled \/ Passed(b)) => RecordsPassed')
  <1> DEFINE rec == [type |-> "bucket", b |-> b, events |-> buckets[b],
                     first |-> bounds[b][1], last |-> bounds[b][2]]
  <1>1. Pop(b) /\ Log(rec) /\ scored' = scored \cup buckets[b]
    BY DEF finalize
  <1>2. rec \in LogRecord
    <2>1. b \in Nat /\ buckets[b] \subseteq Event /\ bounds[b][1] \in Ts /\ bounds[b][2] \in Ts
      BY DEF DataInv, TableData, TableInv, OpenInv, CountInv, BoundsInv, Exact
    <2> QED
      BY <2>1 DEF LogRecord, BucketRecord, Bucket
  <1>3. /\ rec.type = "bucket" /\ rec.b = b /\ rec.events = buckets[b]
        /\ rec.first = bounds[b][1] /\ rec.last = bounds[b][2]
    OBVIOUS
  <1> HIDE DEF rec
  <1>4. /\ ChainInv'
        /\ \E new : /\ new \notin Records
                    /\ Records' = Records \cup {new}
                    /\ chain'[new[1]][new[2]] = rec
                    /\ \A r \in Records : chain'[r[1]][r[2]] = At(r)
    BY <1>1, <1>2, LogStep DEF DataInv
  <1>5. PICK new : /\ new \notin BucketRecords
                   /\ BucketRecords' = BucketRecords \cup {new}
                   /\ At(new)' = rec
                   /\ \A r \in BucketRecords : At(r)' = At(r)
    BY <1>3, <1>4 DEF BucketRecords, At
  <1>6. TableData'
    BY <1>1, LeaveData DEF DataInv
  <1>7. RecordInv'
    <2>1. Exact(<<rec.first, rec.last>>, rec.events)
      BY <1>3 DEF DataInv, TableData, BoundsInv, Exact
    <2>2. ASSUME NEW r \in BucketRecords'
          PROVE  /\ At(r)'.events \subseteq scored'
                 /\ Exact(<<At(r)'.first, At(r)'.last>>, At(r)'.events)
                 /\ \A e \in At(r)'.events : BucketOf(e.ts) = At(r)'.b
      <3>1. CASE r = new
        BY <1>1, <1>3, <1>5, <2>1, <3>1 DEF DataInv, TableData, OpenInv
      <3>2. CASE r \in BucketRecords
        BY <1>1, <1>5, <3>2 DEF DataInv, RecordInv
      <3> QED
        BY <1>5, <3>1, <3>2
    <2>3. \A r \in BucketRecords : At(r).events \cap rec.events = {}
      BY <1>3 DEF DataInv, RecordInv, TableData, OpenInv
    <2>4. ASSUME NEW r \in BucketRecords', NEW s \in BucketRecords', r # s
          PROVE  At(r)'.events \cap At(s)'.events = {}
      BY <1>5, <2>3, <2>4 DEF DataInv, RecordInv
    <2>5. ASSUME NEW e \in scored' PROVE \E r \in BucketRecords' : e \in At(r)'.events
      BY <1>1, <1>3, <1>5 DEF DataInv, RecordInv
    <2> QED
      BY <2>2, <2>4, <2>5 DEF RecordInv, Exact, BucketOf
  <1>8. \A r \in BucketRecords : At(r).b = b => b \in idled \/ rec.events \subseteq late
    BY <1>3 DEF DataInv, ReopenInv
  <1>9. SecondRecordExcused'
    <2>1. \A r, s \in BucketRecords : r # s /\ At(r).b = At(s).b =>
            At(r).b \in idled \/ At(r).events \subseteq late \/ At(s).events \subseteq late
      BY SecondAt DEF DataInv, ReopenInv
    <2>2. ASSUME NEW r \in BucketRecords', NEW s \in BucketRecords', r # s, At(r)'.b = At(s)'.b
          PROVE  At(r)'.b \in idled \/ At(r)'.events \subseteq late \/ At(s)'.events \subseteq late
      BY <1>3, <1>5, <1>8, <2>1, <2>2
    <2> QED
      BY <2>2 DEF SecondRecordExcused, At
  <1>10. ReopenInv'
    <2>1. /\ DOMAIN buckets' = DOMAIN buckets \ {b}
          /\ \A x \in DOMAIN buckets' : buckets'[x] = buckets[x]
      BY <1>1, PopFacts DEF DataInv, TableData
    <2> QED
      BY <1>3, <1>5, <1>9, <2>1 DEF DataInv, ReopenInv
  <1>11. RecordsPassed /\ (b \in idled \/ Passed(b)) => RecordsPassed'
    BY <1>3, <1>5 DEF RecordsPassed, Passed, cutoff
  <1> QED
    BY <1>4, <1>6, <1>7, <1>10, <1>11 DEF DataInv

\* A step that leaves buckets, log and events alone.
LEMMA SameData ==
    ASSUME DataInv, UNCHANGED <<buckets, bounds, last_ts, chain, accepted, scored, lost, late>>,
           idled \subseteq idled'
    PROVE  DataInv' /\ (RecordsPassed => RecordsPassed')
  <1>1. TableData'
    BY DEF DataInv, TableData, TableInv, CountInv, OpenInv, BoundsInv, FateInv
  <1>2. ChainInv' /\ RecordInv'
    BY SameChain DEF DataInv, RecordInv, Exact
  <1>3. SecondRecordExcused'
    BY SecondAt, SameChain DEF DataInv, ReopenInv, SecondRecordExcused, At
  <1>4. ReopenInv'
    BY <1>3, SameChain DEF DataInv, ReopenInv
  <1>5. RecordsPassed => RecordsPassed'
    BY SameChain DEF RecordsPassed, Passed, cutoff
  <1> QED
    BY <1>1, <1>2, <1>4, <1>5 DEF DataInv

\* A step that leaves buckets and events alone and adds a file to the log.
LEMMA NewFileData ==
    ASSUME DataInv, UNCHANGED <<buckets, bounds, last_ts, accepted, scored, lost, late, idled>>,
           chain' = Append(chain, <<>>)
    PROVE  DataInv' /\ (RecordsPassed => RecordsPassed')
  <1>1. ChainInv' /\ Records' = Records /\ \A r \in Records : At(r)' = At(r)
    BY NewFile DEF DataInv
  <1>2. BucketRecords' = BucketRecords /\ \A r \in BucketRecords : At(r)' = At(r)
    BY <1>1 DEF BucketRecords, At
  <1>3. TableData'
    BY DEF DataInv, TableData, TableInv, CountInv, OpenInv, BoundsInv, FateInv
  <1>4. RecordInv'
    BY <1>2 DEF DataInv, RecordInv
  <1>5. ReopenInv'
    <2>1. \A r, s \in BucketRecords : r # s /\ At(r).b = At(s).b =>
            At(r).b \in idled \/ At(r).events \subseteq late \/ At(s).events \subseteq late
      BY SecondAt DEF DataInv, ReopenInv
    <2>2. \A r, s \in BucketRecords' : r # s /\ At(r)'.b = At(s)'.b =>
            At(r)'.b \in idled \/ At(r)'.events \subseteq late \/ At(s)'.events \subseteq late
      BY <1>2, <2>1
    <2>3. SecondRecordExcused'
      BY <2>2 DEF SecondRecordExcused, At
    <2> QED
      BY <1>2, <2>3 DEF DataInv, ReopenInv
  <1>6. RecordsPassed => RecordsPassed'
    BY <1>2 DEF RecordsPassed, Passed, cutoff
  <1> QED
    BY <1>1, <1>3, <1>4, <1>5, <1>6 DEF DataInv

-----------------------------------------------------------------------------
\* The loop over the input.
Looping == {"select", "parse", "finalize"}

\* The types of what is not of the table.
ControlTyped ==
    /\ pc \in Looping \cup {"flush", "done", "aborted", "crashed"}
    /\ partial \in BOOLEAN
    /\ todo \in Seq(Frame) /\ frames \in 0..MaxFrames
    /\ wait \in 0..Idle
    /\ DOMAIN silent = DOMAIN buckets /\ \A b \in DOMAIN silent : silent[b] \in 0..Idle
    /\ seen \subseteq Nat /\ half \subseteq Nat /\ idled \subseteq Nat /\ due \subseteq Nat

\* Inside the loop no event is lost and every record is excused; the final pass begins
\* with at most one bucket lost and ends with none open.
ControlInv ==
    /\ pc \in Looping => RecordsPassed /\ lost = {}
    /\ pc = "finalize" => due \subseteq DOMAIN buckets /\ \A b \in due : b \in idled \/ Passed(b)
    /\ pc \in {"flush", "done"} => \A d, e \in lost : BucketOf(d.ts) = BucketOf(e.ts)
    /\ pc = "done" => DOMAIN buckets = {}

\* What the steps of the loop keep.
DetectorInv == DataInv /\ ControlTyped /\ ControlInv

\* A chunk is a sequence of frames.
LEMMA BurstFrames ==
    ASSUME NEW fs \in Bursts
    PROVE  fs \in Seq(Frame) /\ Len(fs) \in Nat
  <1>1. PICK k \in 0..MaxBurst : fs \in [1..k -> Input]
    BY DEF Bursts
  <1>2. k \in Nat /\ fs \in [1..k -> Frame]
    BY <1>1, InputAssumption, DetectorAssumption
  <1> QED
    BY <1>2

\* Accept keeps the types, and last_ts does not fall.
LEMMA AcceptControl ==
    ASSUME TableInv, ControlTyped, NEW ts \in Ts, Accept(ts), UNCHANGED <<partial, frames, wait, due, idled>>
    PROVE  /\ DOMAIN silent' = DOMAIN buckets' /\ \A b \in DOMAIN silent' : silent'[b] \in 0..Idle
           /\ seen' \subseteq Nat /\ BucketOf(ts) \in Nat
           /\ last_ts' \in Ts /\ last_ts <= last_ts'
  <1> DEFINE b == BucketOf(ts)
  <1>1. /\ silent' = [x \in DOMAIN silent \cup {b} |-> IF x \in DOMAIN silent THEN silent[x] ELSE 0]
        /\ DOMAIN buckets' = DOMAIN buckets \cup {b}
        /\ last_ts' = High(last_ts, ts) /\ seen' = seen \cup {b}
    BY DEF Accept
  <1>2. b \in Nat
    BY TsFacts
  <1> HIDE DEF b
  <1>3. DOMAIN silent' = DOMAIN buckets' /\ \A x \in DOMAIN silent' : silent'[x] \in 0..Idle
    BY <1>1, DetectorAssumption DEF ControlTyped
  <1>4. last_ts' \in Ts /\ last_ts <= last_ts'
    BY <1>1, TsFacts DEF High, TableInv
  <1> QED
    BY <1>1, <1>2, <1>3, <1>4 DEF ControlTyped, b

\* Records stay passed when time goes on.
LEMMA PassedOn ==
    ASSUME ChainInv, RecordsPassed, last_ts \in Ts, last_ts' \in Ts, last_ts <= last_ts', UNCHANGED <<chain, idled>>
    PROVE  RecordsPassed'
  <1> SUFFICES ASSUME NEW r \in BucketRecords, NEW b, b = At(r).b PROVE b \in idled \/ Passed(b)'
    BY SameChain DEF RecordsPassed, Passed, cutoff
  <1>1. At(r) \in LogRecord /\ At(r).type = "bucket"
    <2>1. r \in Records /\ At(r).type = "bucket"
      BY DEF BucketRecords, At
    <2>2. r[1] \in 1..Len(chain) /\ r[2] \in 1..Len(chain[r[1]])
      BY <2>1, DetectorAssumption DEF Records, ChainInv
    <2> QED
      BY <2>1, <2>2 DEF At, ChainInv
  <1>2. b \in Nat
    BY <1>1 DEF LogRecord, BucketRecord, HealthRecord, Bucket
  <1>3. b \in idled \/ Passed(b)
    BY DEF RecordsPassed
  <1>4. Passed(b) => Passed(b)'
    BY <1>2, PassedKept
  <1> QED
    BY <1>3, <1>4

\* A frame, by its type.
LEMMA ParseStep ==
    ASSUME DetectorInv, Parse
    PROVE  DetectorInv'
  <1> DEFINE f == Head(todo)
  <1>1. f \in Frame /\ todo' \in Seq(Frame) /\ pc = "parse"
    BY DEF DetectorInv, ControlTyped, Parse
  <1>2. f.ts \in Ts
    BY <1>1 DEF Frame
  <1>3. RecordsPassed /\ lost = {}
    BY <1>1 DEF DetectorInv, ControlInv, Looping
  <1>4. UNCHANGED <<partial, frames, wait, due, half>>
    BY DEF Parse
  <1>5. CASE f.type = "bad"
    <2>1. pc' = "aborted" /\ UNCHANGED <<buckets, bounds, last_ts, seen, silent, chain, history>>
      BY <1>5 DEF Parse
    <2>2. DataInv'
      BY <2>1, SameData DEF DetectorInv, history
    <2> QED
      BY <1>1, <1>4, <2>1, <2>2 DEF DetectorInv, ControlTyped, ControlInv, Looping, history
  <1>6. CASE f.type = "health"
    <2>1. /\ Log([type |-> "health", ts |-> f.ts])
          /\ UNCHANGED <<pc, buckets, bounds, last_ts, seen, silent, history>>
      BY <1>6 DEF Parse
    <2>2. DataInv' /\ RecordsPassed'
      BY <1>2, <1>3, <2>1, HealthData DEF DetectorInv, history
    <2> QED
      BY <1>1, <1>3, <1>4, <2>1, <2>2 DEF DetectorInv, ControlTyped, ControlInv, Looping, history
  <1>7. CASE f.type = "event"
    <2>1. Accept(f.ts) /\ UNCHANGED <<pc, chain, scored, lost, idled>>
      BY <1>7 DEF Parse
    <2>2. DataInv'
      BY <1>2, <1>3, <2>1, AcceptData DEF DetectorInv
    <2>3. /\ DOMAIN silent' = DOMAIN buckets' /\ \A b \in DOMAIN silent' : silent'[b] \in 0..Idle
          /\ seen' \subseteq Nat /\ last_ts' \in Ts /\ last_ts <= last_ts'
      BY <1>2, <1>4, <2>1, AcceptControl DEF DetectorInv, DataInv, TableData
    <2>4. RecordsPassed'
      BY <1>3, <2>1, <2>3, PassedOn DEF DetectorInv, DataInv, TableData, TableInv
    <2>5. ControlTyped'
      BY <1>1, <1>4, <2>1, <2>3 DEF DetectorInv, ControlTyped
    <2>6. ControlInv'
      BY <1>1, <1>3, <2>1, <2>4 DEF ControlInv
    <2> QED
      BY <2>2, <2>5, <2>6 DEF DetectorInv
  <1> QED
    BY <1>1, <1>5, <1>6, <1>7 DEF Frame

\* An interrupt in the middle of an event.
LEMMA InterruptAcceptStep ==
    ASSUME DetectorInv, InterruptAccept
    PROVE  DetectorInv'
  <1> DEFINE f == Head(todo)
  <1>1. f \in Frame /\ pc = "parse"
    BY DEF DetectorInv, ControlTyped, InterruptAccept
  <1>2. f.ts \in Ts
    BY <1>1 DEF Frame
  <1>3. RecordsPassed /\ lost = {}
    BY <1>1 DEF DetectorInv, ControlInv, Looping
  <1>4. /\ Accept(f.ts) /\ half' = half \cup {BucketOf(f.ts)} /\ pc' = "flush"
        /\ UNCHANGED <<stream, wait, due, chain, scored, lost, idled>>
    BY DEF InterruptAccept, log
  <1>5. DataInv'
    BY <1>2, <1>3, <1>4, AcceptData DEF DetectorInv
  <1>6. /\ DOMAIN silent' = DOMAIN buckets' /\ \A b \in DOMAIN silent' : silent'[b] \in 0..Idle
        /\ seen' \subseteq Nat /\ BucketOf(f.ts) \in Nat
    BY <1>2, <1>4, AcceptControl DEF DetectorInv, DataInv, TableData, stream
  <1>7. ControlTyped'
    BY <1>4, <1>6 DEF DetectorInv, ControlTyped, stream
  <1>8. ControlInv'
    BY <1>3, <1>4 DEF ControlInv, Looping
  <1> QED
    BY <1>5, <1>7, <1>8 DEF DetectorInv

\* Pop keeps bucket_seen beside the table.
LEMMA PopControl ==
    ASSUME ControlTyped, NEW b \in DOMAIN buckets, Pop(b)
    PROVE  DOMAIN silent' = DOMAIN buckets' /\ \A x \in DOMAIN silent' : silent'[x] \in 0..Idle
  BY DEF Pop, Restrict, ControlTyped

\* The next bucket of a pass.
LEMMA FinalizeDueStep ==
    ASSUME DetectorInv, FinalizeDue
    PROVE  DetectorInv'
  <1> DEFINE b == Least(due)
  <1>1. pc = "finalize" /\ due # {} /\ due \subseteq Nat /\ due \subseteq DOMAIN buckets
    BY DEF FinalizeDue, DetectorInv, ControlInv, ControlTyped
  <1>2. b \in due
    BY <1>1, LeastIn
  <1>3. /\ finalize(b) /\ due' = due \ {b}
        /\ UNCHANGED <<pc, stream, last_ts, seen, wait, half, accepted, lost, late, idled>>
    BY DEF FinalizeDue
  <1> HIDE DEF b
  <1>4. b \in DOMAIN buckets /\ (b \in idled \/ Passed(b)) /\ RecordsPassed /\ lost = {}
    BY <1>1, <1>2 DEF DetectorInv, ControlInv, Looping
  <1>5. DataInv' /\ RecordsPassed'
    BY <1>3, <1>4, FinalizeData DEF DetectorInv
  <1>6. ControlTyped'
    <2>1. DOMAIN silent' = DOMAIN buckets' /\ \A x \in DOMAIN silent' : silent'[x] \in 0..Idle
      BY <1>3, <1>4, PopControl DEF DetectorInv, finalize
    <2> QED
      BY <1>3, <2>1 DEF DetectorInv, ControlTyped, stream
  <1>7. DOMAIN buckets' = DOMAIN buckets \ {b}
    BY <1>3, <1>4, PopFacts DEF DetectorInv, DataInv, TableData, finalize
  <1>8. ControlInv'
    BY <1>1, <1>3, <1>4, <1>5, <1>7 DEF DetectorInv, ControlInv, Looping, Passed, cutoff
  <1> QED
    BY <1>5, <1>6, <1>8 DEF DetectorInv

\* The final pass, which may crash.
LEMMA FlushStep ==
    ASSUME DetectorInv, Flush
    PROVE  DetectorInv'
  <1>1. pc = "flush" /\ UNCHANGED <<stream, last_ts, seen, wait, due, half, accepted, late, idled>>
    BY DEF Flush
  <1>2. CASE Remaining = {}
    <2>1. pc' = "done" /\ UNCHANGED <<buckets, bounds, silent, chain, scored, lost>>
      BY <1>2 DEF Flush
    <2>2. DataInv'
      BY <1>1, <2>1, SameData DEF DetectorInv
    <2>3. ControlTyped' /\ ControlInv'
      BY <1>1, <1>2, <2>1 DEF DetectorInv, ControlTyped, ControlInv, Looping, stream, Remaining
    <2> QED
      BY <2>2, <2>3 DEF DetectorInv
  <1>3. CASE Remaining # {}
    <2> DEFINE b == Least(Remaining)
    <2>1. b \in DOMAIN buckets
      BY <1>3, LeastIn DEF Remaining, DetectorInv, DataInv, TableData, TableInv
    <2>2. IF b \in half
          THEN /\ pc' = "crashed" /\ Pop(b) /\ lost' = lost \cup buckets[b]
               /\ UNCHANGED <<chain, scored>>
          ELSE finalize(b) /\ UNCHANGED <<pc, lost>>
      BY <1>3 DEF Flush
    <2> HIDE DEF b
    <2>3. Pop(b)
      BY <2>2 DEF finalize
    <2>4. DataInv'
      <3>1. CASE b \in half
        BY <1>1, <2>1, <2>2, <3>1, LoseData DEF DetectorInv
      <3>2. CASE b \notin half
        BY <1>1, <2>1, <2>2, <3>2, FinalizeData DEF DetectorInv
      <3> QED
        BY <3>1, <3>2
    <2>5. ControlTyped'
      <3>1. DOMAIN silent' = DOMAIN buckets' /\ \A x \in DOMAIN silent' : silent'[x] \in 0..Idle
        BY <2>1, <2>3, PopControl DEF DetectorInv
      <3>2. pc' \in {"flush", "crashed"}
        BY <1>1, <2>2
      <3> QED
        BY <1>1, <3>1, <3>2 DEF DetectorInv, ControlTyped, stream
    <2>6. ControlInv'
      BY <1>1, <2>2 DEF DetectorInv, ControlInv, Looping
    <2> QED
      BY <2>4, <2>5, <2>6 DEF DetectorInv
  <1> QED
    BY <1>2, <1>3

\* An interrupt inside finalize loses the first bucket.
LEMMA InterruptFinalizeStep ==
    ASSUME DetectorInv, InterruptFinalize
    PROVE  DetectorInv'
  <1> DEFINE b == Least(due)
  <1>1. pc = "finalize" /\ due # {} /\ due \subseteq Nat /\ due \subseteq DOMAIN buckets /\ lost = {}
    BY DEF InterruptFinalize, DetectorInv, ControlInv, ControlTyped, Looping
  <1>2. b \in DOMAIN buckets
    BY <1>1, LeastIn
  <1>3. /\ Pop(b) /\ lost' = lost \cup buckets[b] /\ pc' = "flush"
        /\ UNCHANGED <<stream, last_ts, seen, wait, due, half, chain, accepted, scored, late, idled>>
    BY DEF InterruptFinalize
  <1> HIDE DEF b
  <1>4. DataInv'
    BY <1>2, <1>3, LoseData DEF DetectorInv
  <1>5. ControlTyped'
    <2>1. DOMAIN silent' = DOMAIN buckets' /\ \A x \in DOMAIN silent' : silent'[x] \in 0..Idle
      BY <1>2, <1>3, PopControl DEF DetectorInv
    <2> QED
      BY <1>3, <2>1 DEF DetectorInv, ControlTyped, stream
  <1>6. \A e \in lost' : BucketOf(e.ts) = b
    BY <1>1, <1>2, <1>3 DEF DetectorInv, DataInv, TableData, OpenInv
  <1>7. ControlInv'
    BY <1>3, <1>6 DEF ControlInv, Looping, BucketOf
  <1> QED
    BY <1>4, <1>5, <1>7 DEF DetectorInv

\* Waiting, reading and interrupts between two steps.
LEMMA WaitStep ==
    ASSUME DetectorInv, Tick \/ EndOfFile \/ NextRead \/ Interrupt \/ \E fs \in Bursts, p \in BOOLEAN : Read(fs, p)
    PROVE  DetectorInv'
  <1>1. UNCHANGED <<buckets, bounds, last_ts, chain, accepted, scored, lost, late, idled, half, due>>
    BY DEF Tick, EndOfFile, NextRead, Interrupt, Read, history, stream, log
  <1>2. DataInv' /\ (RecordsPassed => RecordsPassed')
    BY <1>1, SameData DEF DetectorInv
  <1>3. ControlTyped'
    <2>1. CASE Tick
      BY <1>1, <2>1, DetectorAssumption DEF Tick, DetectorInv, ControlTyped, Low, stream
    <2>2. CASE EndOfFile \/ NextRead \/ Interrupt
      BY <1>1, <2>2, DetectorAssumption DEF EndOfFile, NextRead, Interrupt, DetectorInv, ControlTyped, Looping, stream
    <2>3. ASSUME NEW fs \in Bursts, NEW p \in BOOLEAN, Read(fs, p) PROVE ControlTyped'
      <3>1. fs \in Seq(Frame) /\ Len(fs) \in Nat
        BY BurstFrames
      <3>2. frames' \in 0..MaxFrames
        BY <2>3, <3>1, DetectorAssumption DEF Read, DetectorInv, ControlTyped
      <3>3. /\ todo' = fs /\ partial' = p /\ pc' = "parse" /\ seen' = {} /\ wait' = 0
            /\ silent' = silent
        BY <2>3 DEF Read
      <3> QED
        BY <1>1, <3>1, <3>2, <3>3, DetectorAssumption DEF DetectorInv, ControlTyped, Looping
    <2> QED
      BY <2>1, <2>2, <2>3
  <1>4. /\ pc' \in Looping => pc \in Looping /\ pc' # "finalize"
        /\ pc' # "done"
    BY DEF Tick, EndOfFile, NextRead, Interrupt, Read, DetectorInv, ControlTyped, Looping
  <1>5. pc' = "flush" => pc \in Looping
    BY DEF Tick, EndOfFile, NextRead, Interrupt, Read, DetectorInv, ControlTyped, Looping
  <1>6. ControlInv'
    BY <1>1, <1>2, <1>4, <1>5 DEF DetectorInv, ControlInv, Looping
  <1> QED
    BY <1>2, <1>3, <1>6 DEF DetectorInv

\* A pass over the table begins.
LEMMA PassStep ==
    ASSUME DetectorInv, SelectTimeout \/ Settle
    PROVE  DetectorInv'
  <1>1. /\ pc \in Looping /\ pc' = "finalize" /\ idled \subseteq idled'
        /\ UNCHANGED <<buckets, bounds, last_ts, chain, accepted, scored, lost, late, half, stream>>
    BY DEF SelectTimeout, Settle, Looping, log
  <1>2. DataInv' /\ (RecordsPassed => RecordsPassed')
    BY <1>1, SameData DEF DetectorInv
  <1>3. due' \subseteq DOMAIN buckets /\ idled' \subseteq idled \cup DOMAIN buckets
    BY DEF SelectTimeout, Settle
  <1>4. \A b \in due' : b \in idled' \/ Passed(b)
    BY DEF SelectTimeout, Settle, Passed
  <1>5. /\ DOMAIN silent' = DOMAIN buckets /\ \A b \in DOMAIN silent' : silent'[b] \in 0..Idle
        /\ wait' \in 0..Idle /\ seen' \subseteq Nat
    <2>1. CASE SelectTimeout
      BY <2>1 DEF SelectTimeout, DetectorInv, ControlTyped
    <2>2. CASE Settle
      <3>1. silent' = [b \in DOMAIN buckets |-> IF b \in seen THEN 0 ELSE silent[b]]
        BY <2>2 DEF Settle
      <3>2. wait' = wait /\ seen' = seen
        BY <2>2 DEF Settle
      <3> QED
        BY <3>1, <3>2, DetectorAssumption DEF DetectorInv, ControlTyped
    <2> QED
      BY <2>1, <2>2
  <1>6. ControlTyped'
    BY <1>1, <1>3, <1>5 DEF DetectorInv, DataInv, TableData, TableInv, ControlTyped, Looping, stream
  <1>7. ControlInv'
    BY <1>1, <1>2, <1>3, <1>4 DEF DetectorInv, ControlInv, Looping, Passed, cutoff
  <1> QED
    BY <1>2, <1>6, <1>7 DEF DetectorInv

\* A step of a rotation, which at most adds an empty file.
LEMMA RotateStep ==
    ASSUME DetectorInv, Rotate
    PROVE  DetectorInv'
  <1>1. UNCHANGED <<pc, todo, partial, frames, buckets, bounds, last_ts, seen, silent, wait, due, half,
                    accepted, scored, lost, late, idled>>
    BY DEF Rotate, stream, history
  <1>2. chain' = chain \/ chain' = Append(chain, <<>>)
    BY DEF Rotate, StartRotation, SkipName, RemoveFile, RenameFile, OpenBase
  <1>3. DataInv' /\ (RecordsPassed => RecordsPassed')
    BY <1>1, <1>2, SameData, NewFileData DEF DetectorInv
  <1>4. ControlTyped' /\ ControlInv'
    BY <1>1, <1>3 DEF DetectorInv, ControlTyped, ControlInv, Passed, cutoff
  <1> QED
    BY <1>3, <1>4 DEF DetectorInv

\* Nothing changes.
LEMMA StutterStep ==
    ASSUME DetectorInv, UNCHANGED vars
    PROVE  DetectorInv'
  <1>1. /\ UNCHANGED <<buckets, bounds, last_ts, chain, accepted, scored, lost, late, idled>>
        /\ UNCHANGED <<pc, todo, partial, frames, seen, silent, wait, due, half>>
    BY DEF vars, stream, history, log
  <1>2. DataInv' /\ (RecordsPassed => RecordsPassed')
    BY <1>1, SameData DEF DetectorInv
  <1>3. ControlTyped' /\ ControlInv'
    BY <1>1, <1>2 DEF DetectorInv, ControlTyped, ControlInv, Passed, cutoff
  <1> QED
    BY <1>2, <1>3 DEF DetectorInv

\* It holds initially.
LEMMA DetectorStart == Init => DetectorInv
  <1> SUFFICES ASSUME Init PROVE DetectorInv
    OBVIOUS
  <1>1. /\ chain \in Seq(Seq(HealthRecord)) /\ Len(chain) > 0
        /\ \A i \in 1..Len(chain) : Len(chain[i]) <= FileCap
    BY OldLogAssumption DEF Init
  <1>2. ChainInv
    <2>1. \A i \in 1..Len(chain) : chain[i] \in Seq(LogRecord)
      <3> SUFFICES ASSUME NEW i \in 1..Len(chain) PROVE chain[i] \in Seq(LogRecord)
        OBVIOUS
      <3>1. chain[i] \in Seq(HealthRecord)
        BY <1>1
      <3>2. HealthRecord \subseteq LogRecord
        BY DEF LogRecord
      <3> QED
        BY <3>1, <3>2
    <2>2. chain = [i \in 1..Len(chain) |-> chain[i]] /\ Len(chain) \in Nat
      BY <1>1
    <2>3. chain \in Seq(Seq(LogRecord))
      BY <2>1, <2>2
    <2> QED
      BY <1>1, <2>3 DEF ChainInv
  <1>3. BucketRecords = {}
    <2> SUFFICES ASSUME NEW r \in Records PROVE At(r).type = "health"
      BY DEF BucketRecords, At
    <2>1. r[1] \in 1..Len(chain) /\ r[2] \in 1..FileCap /\ r[2] <= Len(chain[r[1]])
      BY DEF Records
    <2>2. chain[r[1]] \in Seq(HealthRecord)
      BY <1>1, <2>1
    <2>3. At(r) \in HealthRecord
      BY <2>1, <2>2 DEF At
    <2> QED
      BY <2>3 DEF HealthRecord
  <1>4. DOMAIN buckets = {} /\ DOMAIN bounds = {} /\ DOMAIN silent = {}
    BY DEF Init, Empty
  <1>5. TableData
    <2>1. last_ts \in Ts
      BY DetectorAssumption DEF Init, Ts
    <2>2. CountInv
      BY FS_EmptySet DEF Init, CountInv
    <2> QED
      BY <1>4, <2>1, <2>2 DEF Init, TableData, TableInv, OpenInv, BoundsInv, FateInv
  <1>6. RecordInv /\ ReopenInv /\ RecordsPassed
    BY <1>3 DEF Init, RecordInv, ReopenInv, SecondRecordExcused, RecordsPassed
  <1>7. ControlTyped
    <2>1. partial \in BOOLEAN
      BY DEF Init
    <2>2. /\ pc = "select" /\ todo = <<>> /\ frames = 0 /\ wait = 0
          /\ seen = {} /\ half = {} /\ idled = {} /\ due = {}
      BY DEF Init
    <2> QED
      BY <1>4, <2>1, <2>2, DetectorAssumption DEF ControlTyped, Looping
  <1>8. ControlInv
    BY <1>6 DEF Init, ControlInv
  <1> QED
    BY <1>2, <1>5, <1>6, <1>7, <1>8 DEF DetectorInv, DataInv

\* Every step of the detector keeps it.
LEMMA DetectorStep == DetectorInv /\ [Next]_vars => DetectorInv'
  <1> SUFFICES ASSUME DetectorInv, [Next]_vars PROVE DetectorInv'
    OBVIOUS
  <1>1. CASE Tick \/ EndOfFile \/ NextRead \/ Interrupt \/ \E fs \in Bursts, p \in BOOLEAN : Read(fs, p)
    BY <1>1, WaitStep
  <1>2. CASE SelectTimeout \/ Settle
    BY <1>2, PassStep
  <1>3. CASE Parse
    BY <1>3, ParseStep
  <1>4. CASE FinalizeDue
    BY <1>4, FinalizeDueStep
  <1>5. CASE Flush
    BY <1>5, FlushStep
  <1>6. CASE InterruptFinalize
    BY <1>6, InterruptFinalizeStep
  <1>7. CASE InterruptAccept
    BY <1>7, InterruptAcceptStep
  <1>8. CASE Rotate
    BY <1>8, RotateStep
  <1>9. CASE Terminated \/ UNCHANGED vars
    BY <1>9, StutterStep DEF Terminated
  <1> QED
    BY <1>1, <1>2, <1>3, <1>4, <1>5, <1>6, <1>7, <1>8, <1>9 DEF Next, Run

-----------------------------------------------------------------------------
(* The names of the log files.                                             *)

\* The names of the files: the base is the newest file, a greater suffix means an older
\* file, and no file between two names is without one. A rotation has emptied the name that
\* it fills next, but for the last one.
NamesInv ==
    /\ names \in [Suffix -> 0..Len(chain)] /\ dest \in 0..NotRotating
    /\ names[0] # NoFile => names[0] = Len(chain)
    /\ \A i, j \in Suffix : i < j /\ names[i] # NoFile /\ names[j] # NoFile => names[j] < names[i]
    /\ \A i \in Suffix : names[i] # NoFile => \A f \in names[i]..Len(chain) : \E j \in Suffix : names[j] = f
    /\ dest < Backups - 1 => names[dest] = NoFile

LEMMA NamesStart == Init => NamesInv
  <1> SUFFICES ASSUME Init PROVE NamesInv
    OBVIOUS
  <1> DEFINE n == Len(OldLog)
  <1>1. n \in 1..Backups /\ Backups \in Nat /\ Backups > 1
    BY OldLogAssumption, DetectorAssumption
  <1>2. /\ Len(chain) = n /\ dest = Backups
        /\ names = [i \in Suffix |-> IF i < n THEN n - i ELSE 0]
    BY DEF Init, NotRotating, NoFile
  <1> HIDE DEF n
  <1>3. names \in [Suffix -> 0..n]
    BY <1>1, <1>2 DEF Suffix
  <1>4. \A i \in Suffix : names[i] = (IF i < n THEN n - i ELSE 0) /\ i \in Nat /\ i < Backups
    BY <1>1, <1>2 DEF Suffix
  <1>5. \A i, j \in Suffix : i < j /\ names[i] # 0 /\ names[j] # 0 => names[j] < names[i]
    BY <1>1, <1>4
  <1>6. ASSUME NEW i \in Suffix, names[i] # 0, NEW f \in names[i]..n
        PROVE  \E j \in Suffix : names[j] = f
    <2>1. n - f \in Suffix /\ n - f < n
      BY <1>1, <1>4, <1>6 DEF Suffix
    <2>2. names[n - f] = f
      BY <1>1, <1>4, <1>6, <2>1
    <2> QED
      BY <2>1, <2>2
  <1>7. 0 \in Suffix /\ names[0] = n
    BY <1>1, <1>4 DEF Suffix
  <1> QED
    BY <1>1, <1>2, <1>3, <1>5, <1>6, <1>7 DEF NamesInv, NoFile, NotRotating

\* The steps of the loop leave the names alone; an interrupt ends a rotation where it is.
LEMMA NamesKept ==
    ASSUME DetectorInv, [Next]_vars, ~Rotate
    PROVE  Len(chain') = Len(chain) /\ names' = names /\ (dest' = dest \/ dest' = NotRotating)
  <1>1. chain \in Seq(Seq(LogRecord)) /\ Len(chain) \in Nat
    BY DEF DetectorInv, DataInv, ChainInv
  <1>2. ASSUME NEW rec, Log(rec) PROVE Len(chain') = Len(chain)
    BY <1>1, <1>2 DEF Log
  <1>3. CASE Tick \/ EndOfFile \/ NextRead \/ Interrupt \/ \E fs \in Bursts, p \in BOOLEAN : Read(fs, p)
    BY <1>3 DEF Tick, EndOfFile, NextRead, Interrupt, Read, log
  <1>4. CASE SelectTimeout \/ Settle
    BY <1>4 DEF SelectTimeout, Settle, log
  <1>5. CASE Parse
    BY <1>2, <1>5 DEF Parse
  <1>6. CASE FinalizeDue
    BY <1>2, <1>6 DEF FinalizeDue, finalize
  <1>7. CASE Flush
    BY <1>2, <1>7 DEF Flush, finalize
  <1>8. CASE InterruptFinalize \/ InterruptAccept
    BY <1>8 DEF InterruptFinalize, InterruptAccept, log
  <1>9. CASE Terminated \/ UNCHANGED vars
    BY <1>9 DEF Terminated, vars, log
  <1> QED
    BY <1>3, <1>4, <1>5, <1>6, <1>7, <1>8, <1>9 DEF Next, Run

\* The numbers the suffixes are.
LEMMA SuffixFacts ==
    /\ Backups \in Nat /\ Backups > 1 /\ 0 \in Suffix /\ Backups - 1 \in Suffix
    /\ \A i : i \in Suffix <=> i \in Nat /\ i < Backups
  BY DetectorAssumption DEF Suffix

\* A file takes the empty name above its own.
LEMMA RenameNames ==
    ASSUME ChainInv, NamesInv, RenameFile
    PROVE  /\ NamesInv'
           /\ dest \in Suffix /\ dest - 1 \in Suffix /\ dest > 0
           /\ names'[dest] = names[dest - 1] /\ names'[dest - 1] = NoFile
           /\ \A i \in Suffix : i # dest /\ i # dest - 1 => names'[i] = names[i]
  <1> DEFINE n == Len(chain)
             d == dest
             up == dest - 1
  <1>1. /\ d \in Suffix /\ up \in Suffix /\ d \in Int /\ up \in Int /\ up < d /\ d = up + 1
        /\ d > 0 /\ n \in Nat
        /\ \A i \in Suffix : i \in Int /\ i >= 0 /\ names[i] \in 0..n
    <2>1. d \in 1..Backups - 1 /\ names \in [Suffix -> 0..n] /\ n \in Nat
      BY DEF RenameFile, NamesInv, ChainInv
    <2> QED
      BY <2>1, SuffixFacts
  <1>2. /\ names[up] # 0 /\ names[d] = 0 /\ dest' = up /\ chain' = chain
        /\ names' = [names EXCEPT ![d] = names[up], ![up] = 0]
    BY DEF RenameFile, NoFile
  <1>3. names \in [Suffix -> 0..n]
    BY DEF NamesInv
  <1> HIDE DEF d, up, n
  <1>4. /\ names'[d] = names[up] /\ names'[up] = 0
        /\ \A i \in Suffix : i # d /\ i # up => names'[i] = names[i]
        /\ names' \in [Suffix -> 0..n]
    <2> DEFINE half_way == [names EXCEPT ![d] = names[up]]
    <2>1. half_way \in [Suffix -> 0..n] /\ names' = [half_way EXCEPT ![up] = 0]
      BY <1>1, <1>2, <1>3
    <2>2. half_way[d] = names[up] /\ \A i \in Suffix : i # d => half_way[i] = names[i]
      BY <1>1, <1>3
    <2> HIDE DEF half_way
    <2> QED
      BY <1>1, <2>1, <2>2
  <1>5. \A i, j \in Suffix : i < j /\ names[i] # 0 /\ names[j] # 0 => names[j] < names[i]
    BY DEF NamesInv, NoFile
  <1>6. \A i \in Suffix : names[i] # 0 => \A f \in names[i]..n : \E j \in Suffix : names[j] = f
    BY DEF NamesInv, NoFile, n
  <1>7. ASSUME NEW i \in Suffix, NEW j \in Suffix, i < j, names'[i] # 0, names'[j] # 0
        PROVE  names'[j] < names'[i]
    <2>1. CASE i = d
      BY <1>1, <1>4, <1>5, <1>7, <2>1
    <2>2. CASE j = d
      BY <1>1, <1>4, <1>5, <1>7, <2>2
    <2>3. CASE i # d /\ j # d
      BY <1>1, <1>4, <1>5, <1>7, <2>3
    <2> QED
      BY <2>1, <2>2, <2>3
  <1>8. ASSUME NEW i \in Suffix, names'[i] # 0, NEW f \in names'[i]..n
        PROVE  \E j \in Suffix : names'[j] = f
    <2>1. PICK k \in Suffix : names[k] # 0 /\ names[k] = names'[i]
      BY <1>1, <1>2, <1>4, <1>8
    <2>2. PICK j \in Suffix : names[j] = f
      BY <1>6, <1>8, <2>1
    <2>3. f # 0
      BY <1>1, <1>8, <2>1
    <2> QED
      BY <1>1, <1>2, <1>4, <2>2, <2>3
  <1>9. names'[0] # 0 => names'[0] = n
    <2>1. names[0] # 0 => names[0] = n
      BY DEF NamesInv, NoFile, n
    <2> QED
      BY <1>1, <1>4, <2>1, SuffixFacts
  <1>10. dest' \in 0..NotRotating /\ names'[dest'] = 0
    BY <1>1, <1>2, <1>4, SuffixFacts DEF NotRotating
  <1>11. Len(chain') = n
    BY <1>2 DEF n
  <1>12. NamesInv'
    BY <1>4, <1>7, <1>8, <1>9, <1>10, <1>11 DEF NamesInv, NoFile, NotRotating, Suffix
  <1> QED
    BY <1>1, <1>4, <1>12 DEF d, up, NoFile

\* The oldest file loses its name.
LEMMA RemoveNames ==
    ASSUME ChainInv, NamesInv, RemoveFile
    PROVE  /\ NamesInv'
           /\ \A i \in Suffix : names'[i] = names[i] \/ names'[i] = NoFile
  <1> DEFINE n == Len(chain)
  <1>1. /\ n \in Nat /\ names \in [Suffix -> 0..n] /\ dest \in 1..Backups - 1
        /\ names[dest] # 0 /\ names' = [names EXCEPT ![dest] = 0] /\ chain' = chain /\ dest' = dest
    BY DEF RemoveFile, NamesInv, NoFile, ChainInv
  <1>2. dest = Backups - 1
    <2>1. dest < Backups - 1 => names[dest] = 0
      BY DEF NamesInv, NoFile
    <2> QED
      BY <1>1, <2>1, SuffixFacts
  <1> DEFINE d == Backups - 1
  <1>3. /\ names'[d] = 0 /\ names' \in [Suffix -> 0..n]
        /\ \A i \in Suffix : i # d => names'[i] = names[i] /\ i < d
        /\ \A i \in Suffix : i \in Int /\ names[i] \in Int
    BY <1>1, <1>2, SuffixFacts
  <1>4. d \in Suffix /\ d > 0 /\ names[d] # 0
    BY <1>1, <1>2, SuffixFacts
  <1> HIDE DEF d, n
  <1>5. \A i, j \in Suffix : i < j /\ names[i] # 0 /\ names[j] # 0 => names[j] < names[i]
    BY DEF NamesInv, NoFile
  <1>6. \A i \in Suffix : names[i] # 0 => \A f \in names[i]..n : \E j \in Suffix : names[j] = f
    BY DEF NamesInv, NoFile, n
  <1>7. \A i, j \in Suffix : i < j /\ names'[i] # 0 /\ names'[j] # 0 => names'[j] < names'[i]
    BY <1>3, <1>5
  <1>8. ASSUME NEW i \in Suffix, names'[i] # 0, NEW f \in names'[i]..n
        PROVE  \E j \in Suffix : names'[j] = f
    <2>1. i # d /\ names'[i] = names[i] /\ names[i] # 0
      BY <1>3, <1>8
    <2>2. PICK j \in Suffix : names[j] = f
      BY <1>6, <1>8, <2>1
    <2>3. names[d] < names[i]
      BY <1>3, <1>4, <1>5, <2>1
    <2>4. j # d
      BY <1>3, <1>4, <1>8, <2>1, <2>2, <2>3
    <2> QED
      BY <1>3, <2>2, <2>4
  <1>9. names'[0] # 0 => names'[0] = n
    <2>1. names[0] # 0 => names[0] = n
      BY DEF NamesInv, NoFile, n
    <2> QED
      BY <1>3, <2>1, SuffixFacts
  <1>10. dest' \in 0..NotRotating /\ ~(dest' < Backups - 1) /\ Len(chain') = n
    BY <1>1, <1>2, SuffixFacts DEF NotRotating, n
  <1>11. NamesInv'
    BY <1>3, <1>7, <1>8, <1>9, <1>10 DEF NamesInv, NoFile, NotRotating, Suffix
  <1> QED
    BY <1>3, <1>11 DEF NoFile

\* The new base.
LEMMA OpenNames ==
    ASSUME ChainInv, NamesInv, OpenBase
    PROVE  /\ NamesInv'
           /\ names[0] = NoFile /\ names'[0] = Len(chain) + 1 /\ Len(chain') = Len(chain) + 1
           /\ \A i \in Suffix : i # 0 => names'[i] = names[i]
  <1> DEFINE n == Len(chain)
  <1>1. /\ n \in Nat /\ names \in [Suffix -> 0..n]
        /\ names' = [names EXCEPT ![0] = n + 1] /\ dest' = NotRotating
    BY DEF OpenBase, NamesInv, ChainInv
  <1>2. names[0] = 0
    <2>1. dest < Backups - 1 => names[dest] = 0
      BY DEF NamesInv, NoFile
    <2> QED
      BY <2>1, SuffixFacts DEF OpenBase, NoFile
  <1>3. Len(chain') = n + 1
    BY DEF OpenBase, ChainInv
  <1>4. /\ names'[0] = n + 1 /\ names' \in [Suffix -> 0..n + 1]
        /\ \A i \in Suffix : i # 0 => names'[i] = names[i] /\ i > 0
        /\ \A i \in Suffix : i \in Int /\ names[i] \in 0..n
    BY <1>1, SuffixFacts
  <1> HIDE DEF n
  <1>5. \A i, j \in Suffix : i < j /\ names[i] # 0 /\ names[j] # 0 => names[j] < names[i]
    BY DEF NamesInv, NoFile
  <1>6. \A i \in Suffix : names[i] # 0 => \A f \in names[i]..n : \E j \in Suffix : names[j] = f
    BY DEF NamesInv, NoFile, n
  <1>7. ASSUME NEW i \in Suffix, NEW j \in Suffix, i < j, names'[i] # 0, names'[j] # 0
        PROVE  names'[j] < names'[i]
    <2>1. j # 0
      BY <1>4, <1>7
    <2>2. CASE i = 0
      BY <1>1, <1>4, <2>1, <2>2
    <2>3. CASE i # 0
      BY <1>4, <1>5, <1>7, <2>1, <2>3
    <2> QED
      BY <2>2, <2>3
  <1>8. ASSUME NEW i \in Suffix, names'[i] # 0, NEW f \in names'[i]..n + 1
        PROVE  \E j \in Suffix : names'[j] = f
    <2>1. CASE f = n + 1
      BY <1>4, <2>1, SuffixFacts
    <2>2. CASE f # n + 1
      <3>1. names'[i] = names[i] /\ names[i] # 0 /\ f \in names[i]..n
        BY <1>1, <1>4, <1>8, <2>2
      <3>2. PICK j \in Suffix : names[j] = f
        BY <1>6, <3>1
      <3>3. j # 0
        BY <1>1, <1>2, <1>4, <3>1, <3>2
      <3> QED
        BY <1>4, <3>2, <3>3
    <2> QED
      BY <2>1, <2>2
  <1>9. dest' \in 0..NotRotating /\ ~(dest' < Backups - 1)
    BY <1>1, SuffixFacts DEF NotRotating
  <1>10. NamesInv'
    BY <1>3, <1>4, <1>7, <1>8, <1>9 DEF NamesInv, NoFile, NotRotating, Suffix
  <1> QED
    BY <1>2, <1>3, <1>4, <1>10 DEF NoFile, n

\* Every step keeps it.
LEMMA NamesStep ==
    ASSUME DetectorInv, NamesInv, [Next]_vars
    PROVE  NamesInv'
  <1>1. ChainInv
    BY DEF DetectorInv, DataInv
  <1>2. CASE ~Rotate
    <2>1. Len(chain') = Len(chain) /\ names' = names /\ (dest' = dest \/ dest' = NotRotating)
      BY <1>2, NamesKept
    <2>2. dest' \in 0..NotRotating /\ (dest' < Backups - 1 => names'[dest'] = NoFile)
      BY <2>1, SuffixFacts DEF NamesInv, NotRotating
    <2> QED
      BY <2>1, <2>2 DEF NamesInv, NotRotating, Suffix, NoFile
  <1>3. CASE StartRotation
    <2>1. chain' = chain /\ names' = names /\ dest' = Backups - 1
      BY <1>3 DEF StartRotation
    <2>2. dest' \in 0..NotRotating /\ ~(dest' < Backups - 1)
      BY <2>1, SuffixFacts DEF NotRotating
    <2> QED
      BY <2>1, <2>2 DEF NamesInv, NotRotating, Suffix, NoFile
  <1>4. CASE SkipName
    <2>1. chain' = chain /\ names' = names /\ dest' = dest - 1 /\ names[dest - 1] = NoFile
      BY <1>4 DEF SkipName
    <2>2. dest' \in 0..NotRotating /\ names'[dest'] = NoFile
      BY <1>4, <2>1, SuffixFacts DEF SkipName, NotRotating
    <2> QED
      BY <2>1, <2>2 DEF NamesInv, NotRotating, Suffix, NoFile
  <1> QED
    BY <1>1, <1>2, <1>3, <1>4, RemoveNames, RenameNames, OpenNames DEF Rotate

\* They imply what the runs check.
LEMMA DetectorImplies == DetectorInv /\ NamesInv => RecordsExact /\ SecondRecordExcused
  <1> SUFFICES ASSUME DetectorInv, NamesInv PROVE RecordsExact /\ SecondRecordExcused
    OBVIOUS
  <1>1. TypeOK
    <2>1. \A b \in DOMAIN buckets : buckets[b] \subseteq Event
      BY DEF DetectorInv, DataInv, TableData, OpenInv, CountInv
    <2>2. accepted \subseteq Event /\ scored \subseteq Event /\ late \subseteq Event
      BY DEF DetectorInv, DataInv, TableData, FateInv, CountInv
    <2>3. /\ names \in [Suffix -> 0..Len(chain)] /\ names[0] \in {NoFile, Len(chain)}
          /\ dest \in 0..NotRotating
      BY DEF NamesInv
    <2> QED
      BY <2>1, <2>2, <2>3 DEF DetectorInv, DataInv, TableData, TableInv, ControlTyped, ControlInv, TypeOK, Bucket, Looping
  <1>2. ScoredOnce
    BY DEF DetectorInv, DataInv, TableData, OpenInv, RecordInv, ScoredOnce, At
  <1>3. EndScoresAll
    BY DEF DetectorInv, DataInv, TableData, FateInv, ControlInv, EndScoresAll
  <1>4. BoundsExact
    <2> SUFFICES ASSUME NEW r \in BucketRecords
                 PROVE  LET x == At(r)
                            times == {e.ts : e \in x.events}
                        IN /\ x.first \in times /\ x.last \in times
                           /\ \A ts \in times : x.first <= ts /\ ts <= x.last /\ BucketOf(ts) = x.b
      BY DEF BoundsExact, At
    <2> QED
      BY DEF DetectorInv, DataInv, RecordInv, Exact
  <1> QED
    BY <1>1, <1>2, <1>3, <1>4 DEF RecordsExact, DetectorInv, DataInv, ReopenInv

\* The reader beside it, which changes nothing of the detector.
LEMMA DatasetStep == DNext \/ UNCHANGED allVars => [Next]_vars
  BY DEF DNext, Reading, allVars

\* The inductive invariant holds of the detector, also beside the reader.
THEOREM DetectorSafe == DSpec => [](DetectorInv /\ NamesInv)
  <1>1. DInit => DetectorInv /\ NamesInv
    BY DetectorStart, NamesStart DEF DInit
  <1>2. DetectorInv /\ NamesInv /\ [DNext]_allVars => (DetectorInv /\ NamesInv)'
    BY DetectorStep, NamesStep, DatasetStep
  <1> QED
    BY <1>1, <1>2, PTL DEF DSpec

\* For every stream, width, grace period and interrupt: no event is scored twice, the end of
\* the stream has scored all but one interrupted bucket, and the bounds of every record are
\* those of its events (finalize and its callers in detect2.py).
THEOREM DetectorRecords == DSpec => []RecordsExact
  BY DetectorSafe, DetectorImplies, PTL

\* --grace-sec absorbs all disorder up to the grace period: a bucket has two records only
\* if it was silent or the later one holds late events only (the cutoff of detect2.py).
THEOREM SecondRecord == DSpec => []SecondRecordExcused
  BY DetectorSafe, DetectorImplies, PTL

\* A bucket with just one record in the log has all its scored events in it: what makes the
\* reader right to leave out only the buckets with several.
SingleRecordComplete ==
    \A r \in BucketRecords :
        (\A s \in BucketRecords : At(s).b = At(r).b => s = r) =>
            {e \in scored : BucketOf(e.ts) = At(r).b} \subseteq At(r).events

\* So it is whenever the reader looks (finalize in detect2.py, duplicates in read_buckets).
THEOREM SingleRecord == DSpec => []SingleRecordComplete
  <1>1. DetectorInv => SingleRecordComplete
    <2> SUFFICES ASSUME DetectorInv, NEW r \in BucketRecords,
                        \A s \in BucketRecords : At(s).b = At(r).b => s = r,
                        NEW e \in scored, BucketOf(e.ts) = At(r).b
                 PROVE  e \in At(r).events
      BY DEF SingleRecordComplete
    <2>1. PICK s \in BucketRecords : e \in At(s).events
      BY DEF DetectorInv, DataInv, RecordInv
    <2>2. At(s).b = BucketOf(e.ts)
      BY <2>1 DEF DetectorInv, DataInv, RecordInv
    <2> QED
      BY <2>1, <2>2
  <1> QED
    BY <1>1, DetectorSafe, PTL

-----------------------------------------------------------------------------
(* The files of the reader.                                                *)

\* Where the reader is in its passes over the paths.
PassInv ==
    /\ reader \in {"list", "stat", "open", "verify", "read", "failed"} /\ turn \in Nat
    /\ reader = "list" => turn \in Suffix /\ statted = <<>> /\ opened = <<>>
                          /\ \A k \in 1..Len(paths) : turn < paths[k]
    /\ reader \in {"stat", "open", "verify"} => turn \in 1..Len(paths)
    /\ reader = "stat" => Len(statted) = turn - 1 /\ opened = <<>>
    /\ reader = "open" => Len(statted) = Len(paths) /\ Len(opened) = turn - 1
    /\ reader \in {"verify", "read"} => Len(statted) = Len(paths) /\ Len(opened) = Len(paths)
    /\ reader = "failed" => paths = <<>> /\ statted = <<>> /\ opened = <<>>

\* The paths are of names in descending order, the files are files of the log.
FilesInv ==
    /\ paths \in Seq(Suffix)
    /\ \A i, j \in 1..Len(paths) : i < j => paths[j] < paths[i]
    /\ statted \in Seq(1..Len(chain)) /\ opened \in Seq(1..Len(chain))

\* A file that was looked at is older than what now has a smaller suffix: it never gets a
\* name back that it lost.
Older == \A k \in 1..Len(statted) : \A q \in Suffix :
             q < paths[k] /\ names[q] # NoFile => statted[k] < names[q]

\* The paths after path k turned out to be of newer files, the next name of the next file.
Followed(k) ==
    \A l \in k + 1..Len(statted) :
        /\ statted[k] < statted[l]
        /\ l = k + 1 /\ paths[k] = paths[l] + 1 => statted[l] = statted[k] + 1

\* So it is for a path that still means the file it meant.
Linked == \A k \in 1..Len(statted) : names[paths[k]] = statted[k] => Followed(k)

\* And for the paths that were verified, whose names may be gone by now.
Verified ==
    \A k \in 1..Len(paths) :
        reader = "read" \/ (reader = "verify" /\ k < turn) => opened[k] = statted[k] /\ Followed(k)

\* The inductive invariant of the reader.
ReaderInv == PassInv /\ FilesInv /\ Older /\ Linked /\ Verified

LEMMA ReaderStart == DInit => ReaderInv
  <1> SUFFICES ASSUME DInit PROVE ReaderInv
    OBVIOUS
  <1>1. /\ reader = "list" /\ turn = Backups - 1
        /\ paths = <<>> /\ statted = <<>> /\ opened = <<>>
    BY DEF DInit
  <1>2. Len(paths) = 0 /\ Len(statted) = 0
    BY <1>1
  <1>3. PassInv
    BY <1>1, <1>2, SuffixFacts DEF PassInv
  <1>4. FilesInv
    BY <1>1, <1>2 DEF FilesInv
  <1>5. Older /\ Linked /\ Verified
    BY <1>2 DEF Older, Linked, Verified
  <1> QED
    BY <1>3, <1>4, <1>5 DEF ReaderInv

\* The log grows, and a name of a file is kept, lost, or handed up by one.
LEMMA NamesMove ==
    ASSUME DetectorInv, NamesInv, [Next]_vars
    PROVE  /\ Len(chain) \in Nat /\ Len(chain') \in Nat /\ Len(chain) <= Len(chain')
           /\ \A q \in Suffix :
                  \/ names'[q] = names[q]
                  \/ names'[q] = NoFile
                  \/ names'[q] = Len(chain) + 1
                  \/ q - 1 \in Suffix /\ names'[q] = names[q - 1]
  <1>1. ChainInv /\ Len(chain) \in Nat
    BY DEF DetectorInv, DataInv, ChainInv
  <1>2. CASE ~Rotate
    BY <1>1, <1>2, NamesKept
  <1>3. CASE StartRotation \/ SkipName
    BY <1>1, <1>3 DEF StartRotation, SkipName
  <1>4. CASE RemoveFile
    <2>1. chain' = chain
      BY <1>4 DEF RemoveFile
    <2> QED
      BY <1>1, <1>4, <2>1, RemoveNames
  <1>5. CASE RenameFile
    <2>1. chain' = chain
      BY <1>5 DEF RenameFile
    <2> QED
      BY <1>1, <1>5, <2>1, RenameNames
  <1>6. CASE OpenBase
    BY <1>1, <1>6, OpenNames
  <1> QED
    BY <1>2, <1>3, <1>4, <1>5, <1>6 DEF Rotate

\* A step of the detector.
LEMMA ReaderBeside ==
    ASSUME DetectorInv, NamesInv, ReaderInv, [Next]_vars, UNCHANGED readerVars
    PROVE  ReaderInv'
  <1>1. UNCHANGED <<reader, turn, paths, statted, opened>>
    BY DEF readerVars
  <1> DEFINE n == Len(chain)
  <1>2. /\ n \in Nat /\ Len(chain') \in Nat /\ n <= Len(chain')
        /\ \A q \in Suffix : \/ names'[q] = names[q]
                             \/ names'[q] = 0
                             \/ names'[q] = n + 1
                             \/ q - 1 \in Suffix /\ names'[q] = names[q - 1]
    BY NamesMove DEF NoFile
  <1>3. \A q \in Suffix : q \in Nat /\ names[q] \in Nat /\ names[q] <= n
    BY <1>2, SuffixFacts DEF NamesInv
  <1>4. /\ Len(statted) \in Nat
        /\ \A k \in 1..Len(statted) : statted[k] \in 1..n
    BY DEF ReaderInv, FilesInv
  <1>5. \A k \in 1..Len(statted) : paths[k] \in Suffix
    <2>1. Len(statted) <= Len(paths) /\ Len(paths) \in Nat
      BY <1>4 DEF ReaderInv, PassInv, FilesInv
    <2> QED
      BY <1>4, <2>1 DEF ReaderInv, FilesInv
  <1>6. \A k \in 1..Len(statted) : \A q \in Suffix : q < paths[k] /\ names[q] # 0 => statted[k] < names[q]
    BY DEF ReaderInv, Older, NoFile
  <1>7. FilesInv'
    <2> DEFINE A == 1..n
               B == 1..Len(chain')
    <2>1. A \subseteq B
      BY <1>2
    <2>2. \A s \in Seq(A) : s \in Seq(B)
      <3> HIDE DEF A, B
      <3> SUFFICES ASSUME NEW s \in Seq(A) PROVE s \in Seq(B)
        OBVIOUS
      <3>1. Len(s) \in Nat /\ s = [i \in 1..Len(s) |-> s[i]]
        OBVIOUS
      <3>2. \A i \in 1..Len(s) : s[i] \in B
        BY <2>1
      <3> QED
        BY <3>1, <3>2
    <2> QED
      BY <1>1, <2>2 DEF ReaderInv, FilesInv, Suffix
  <1> HIDE DEF n
  <1>8. Older'
    <2> SUFFICES ASSUME NEW k \in 1..Len(statted), NEW q \in Suffix, q < paths[k], names'[q] # 0
                 PROVE  statted[k] < names'[q]
      BY <1>1 DEF Older, NoFile, Suffix
    <2>1. CASE names'[q] = names[q]
      BY <1>6, <2>1
    <2>2. CASE names'[q] = n + 1
      BY <1>2, <1>4, <2>2
    <2>3. CASE q - 1 \in Suffix /\ names'[q] = names[q - 1]
      <3>1. q - 1 < paths[k]
        BY <1>3, <1>5
      <3> QED
        BY <1>6, <2>3, <3>1
    <2> QED
      BY <1>2, <2>1, <2>2, <2>3
  <1>9. Linked'
    <2> SUFFICES ASSUME NEW k \in 1..Len(statted), names'[paths[k]] = statted[k]
                 PROVE  Followed(k)
      BY <1>1 DEF Linked, Followed
    <2>1. names[paths[k]] = statted[k]
      <3> DEFINE q == paths[k]
      <3>1. q \in Suffix /\ statted[k] \in 1..n /\ names'[q] = statted[k]
        BY <1>4, <1>5
      <3>2. q - 1 \in Suffix => q - 1 < q
        BY <1>3, <3>1
      <3>3. q - 1 \in Suffix /\ names[q - 1] # 0 => statted[k] < names[q - 1]
        BY <1>6, <3>2
      <3> HIDE DEF q
      <3>4. names'[q] # 0 /\ names'[q] # n + 1
        BY <1>2, <3>1
      <3>5. ~(q - 1 \in Suffix /\ names'[q] = names[q - 1])
        BY <1>2, <1>3, <3>1, <3>3, <3>4
      <3>6. names'[q] = names[q]
        BY <1>2, <3>1, <3>4, <3>5
      <3> QED
        BY <3>1, <3>6 DEF q
    <2> QED
      BY <2>1 DEF ReaderInv, Linked
  <1>10. PassInv' /\ Verified'
    BY <1>1 DEF ReaderInv, PassInv, Verified, Followed, Suffix
  <1> QED
    BY <1>7, <1>8, <1>9, <1>10 DEF ReaderInv

\* An exception.
LEMMA FailStep ==
    ASSUME Fail, UNCHANGED vars
    PROVE  ReaderInv'
  <1>1. /\ reader' = "failed" /\ turn' = 0
        /\ paths' = <<>> /\ statted' = <<>> /\ opened' = <<>>
    BY DEF Fail
  <1>2. Len(paths') = 0 /\ Len(statted') = 0
    BY <1>1
  <1>3. PassInv'
    BY <1>1 DEF PassInv
  <1>4. FilesInv'
    BY <1>1, <1>2 DEF FilesInv
  <1>5. Older' /\ Linked' /\ Verified'
    BY <1>2 DEF Older, Linked, Verified
  <1> QED
    BY <1>3, <1>4, <1>5 DEF ReaderInv

\* The names are asked for in descending order of their suffixes.
LEMMA ListStep ==
    ASSUME ReaderInv, ListPath, UNCHANGED vars
    PROVE  ReaderInv'
  <1> DEFINE found == IF names[turn] = NoFile THEN paths ELSE Append(paths, turn)
  <1>1. /\ reader = "list" /\ turn \in Suffix /\ turn \in Nat /\ statted = <<>> /\ opened = <<>>
        /\ paths \in Seq(Suffix) /\ \A k \in 1..Len(paths) : turn < paths[k]
        /\ \A i, j \in 1..Len(paths) : i < j => paths[j] < paths[i]
    BY DEF ListPath, ReaderInv, PassInv, FilesInv
  <1>2. CASE Fail
    BY <1>2, FailStep
  <1>3. CASE ~Fail
    <2>1. /\ paths' = found /\ statted' = <<>> /\ opened' = <<>>
          /\ \/ turn > 0 /\ turn' = turn - 1 /\ reader' = "list"
             \/ turn = 0 /\ found # <<>> /\ turn' = 1 /\ reader' = "stat"
      BY <1>1, <1>3 DEF ListPath
    <2>2. /\ found \in Seq(Suffix)
          /\ \A k \in 1..Len(found) : turn <= found[k]
          /\ \A i, j \in 1..Len(found) : i < j => found[j] < found[i]
      <3>1. CASE found = paths
        BY <1>1, <3>1, SuffixFacts
      <3>2. CASE found = Append(paths, turn)
        <4>1. /\ Len(found) = Len(paths) + 1 /\ found[Len(paths) + 1] = turn /\ Len(paths) \in Nat
              /\ \A k \in 1..Len(paths) : found[k] = paths[k] /\ paths[k] \in Nat
              /\ found \in Seq(Suffix)
          BY <1>1, <3>2, SuffixFacts
        <4> HIDE DEF found
        <4> QED
          BY <1>1, <4>1
      <3> QED
        BY <3>1, <3>2
    <2>3. Len(found) \in Nat /\ (found # <<>> => Len(found) > 0) /\ \A k \in 1..Len(found) : found[k] \in Nat
      BY <2>2, SuffixFacts
    <2> HIDE DEF found
    <2>4. FilesInv'
      BY <2>1, <2>2 DEF FilesInv, Suffix
    <2>5. PassInv'
      <3>1. CASE turn > 0 /\ turn' = turn - 1 /\ reader' = "list"
        <4>1. turn' \in Suffix /\ turn' \in Nat /\ \A k \in 1..Len(found) : turn' < found[k]
          BY <1>1, <2>2, <2>3, <3>1, SuffixFacts
        <4> QED
          BY <2>1, <3>1, <4>1 DEF PassInv, Suffix
      <3>2. CASE turn = 0 /\ found # <<>> /\ turn' = 1 /\ reader' = "stat"
        <4>1. turn' \in 1..Len(found) /\ Len(statted') = turn' - 1 /\ turn' \in Nat
          BY <2>1, <2>3, <3>2
        <4> QED
          BY <2>1, <3>2, <4>1 DEF PassInv
      <3> QED
        BY <2>1, <3>1, <3>2
    <2>6. Len(statted') = 0 /\ reader' \in {"list", "stat"}
      BY <2>1
    <2>7. Older' /\ Linked' /\ Verified'
      BY <2>6 DEF Older, Linked, Verified
    <2> QED
      BY <2>4, <2>5, <2>7 DEF ReaderInv
  <1> QED
    BY <1>2, <1>3

\* A path looked at means a newer file than the paths that still mean theirs.
LEMMA StatStep ==
    ASSUME ChainInv, NamesInv, ReaderInv, StatPath, UNCHANGED vars
    PROVE  ReaderInv'
  <1> DEFINE n == Len(chain)
             P == Len(paths)
             file == names[paths[turn]]
  <1>1. CASE Fail
    BY <1>1, FailStep
  <1>2. CASE ~Fail
    <2>1. /\ reader = "stat" /\ opened = <<>> /\ turn \in 1..P /\ Len(statted) = turn - 1
          /\ paths \in Seq(Suffix) /\ statted \in Seq(1..n) /\ n \in Nat
      BY DEF StatPath, ReaderInv, PassInv, FilesInv, ChainInv
    <2>2. /\ file # 0 /\ statted' = Append(statted, file) /\ paths' = paths /\ opened' = opened
          /\ IF turn < P THEN turn' = turn + 1 /\ reader' = "stat" ELSE turn' = 1 /\ reader' = "open"
      BY <1>2, <2>1 DEF StatPath, Forward, NoFile
    <2>3. /\ P \in Nat /\ turn \in Nat /\ \A k \in 1..P : paths[k] \in Suffix /\ paths[k] \in Nat
      BY <2>1, SuffixFacts
    <2>4. file \in 1..n
      <3>1. names[paths[turn]] \in 0..n
        BY <2>1, <2>3 DEF NamesInv
      <3> QED
        BY <2>1, <2>2, <3>1
    <2> HIDE DEF file
    <2>5. /\ Len(statted') = turn /\ statted'[turn] = file /\ statted' \in Seq(1..n)
          /\ \A k \in 1..turn - 1 : statted'[k] = statted[k] /\ statted[k] \in 1..n
      BY <2>1, <2>2, <2>3, <2>4
    <2>6. \A i, j \in 1..P : i < j => paths[j] < paths[i]
      BY DEF ReaderInv, FilesInv
    <2>7. \A i, j \in Suffix : i < j /\ names[i] # 0 /\ names[j] # 0 => names[j] < names[i]
      BY DEF NamesInv, NoFile
    <2> DEFINE p == paths[turn]
    <2>8. p \in Suffix /\ p \in Nat /\ names[p] = file /\ \A q \in Suffix : q \in Nat /\ names[q] \in 0..n
      BY <2>1, <2>3, SuffixFacts DEF file, NamesInv
    <2> HIDE DEF n
    <2>9. Older'
      <3> SUFFICES ASSUME NEW k \in 1..turn, NEW q \in Suffix, q < paths[k], names[q] # 0
                   PROVE  statted'[k] < names[q]
        BY <2>2, <2>5 DEF Older, NoFile, Suffix, vars, log
      <3>1. CASE k = turn
        <4>1. q < p /\ names[p] # 0
          BY <2>2, <2>8, <3>1
        <4> QED
          BY <2>5, <2>7, <2>8, <3>1, <4>1
      <3>2. CASE k # turn
        <4>1. k \in 1..Len(statted)
          BY <2>1, <2>3, <3>2
        <4>2. statted[k] < names[q]
          BY <4>1 DEF ReaderInv, Older, NoFile
        <4> QED
          BY <2>1, <2>5, <4>1, <4>2
      <3> QED
        BY <3>1, <3>2
    <2>10. Linked'
      <3> SUFFICES ASSUME NEW k \in 1..turn, names[paths[k]] = statted'[k],
                          NEW l \in k + 1..turn
                   PROVE  /\ statted'[k] < statted'[l]
                          /\ l = k + 1 /\ paths[k] = paths[l] + 1 => statted'[l] = statted'[k] + 1
        BY <2>2, <2>5 DEF Linked, Followed, vars, log
      <3>1. k \in 1..turn - 1 /\ k \in 1..Len(statted) /\ names[paths[k]] = statted[k]
        BY <2>1, <2>3, <2>5
      <3>2. CASE l # turn
        <4>1. l \in k + 1..Len(statted) /\ l \in 1..turn - 1
          BY <2>1, <2>3, <3>1, <3>2
        <4>2. Followed(k)
          BY <3>1 DEF ReaderInv, Linked
        <4>3. /\ statted[k] < statted[l]
              /\ l = k + 1 /\ paths[k] = paths[l] + 1 => statted[l] = statted[k] + 1
          BY <4>1, <4>2 DEF Followed
        <4>4. statted'[k] = statted[k] /\ statted'[l] = statted[l]
          BY <2>5, <3>1, <4>1
        <4> QED
          BY <4>3, <4>4
      <3>3. CASE l = turn
        <4> DEFINE q == paths[k]
                   f == statted[k]
        <4>1. p < q /\ q \in Suffix /\ q \in Nat /\ names[q] = f /\ f \in 1..n /\ f # 0
          <5>1. k \in 1..P /\ turn \in 1..P /\ k < turn
            BY <2>1, <2>3, <3>1
          <5> QED
            BY <2>3, <2>5, <2>6, <3>1, <5>1
        <4>2. statted'[k] = f /\ statted'[l] = file
          BY <2>5, <3>1, <3>3
        <4> HIDE DEF q, f, p
        <4>3. f < file
          BY <2>2, <2>7, <2>8, <4>1
        <4>4. ASSUME q = p + 1 PROVE file = f + 1
          <5>1. f + 1 \in names[q]..n /\ names[q] # 0 /\ n \in Nat
            BY <2>1, <2>4, <4>1, <4>3
          <5>2. PICK j \in Suffix : names[j] = f + 1
            BY <4>1, <5>1 DEF NamesInv, NoFile, n
          <5>3. j \in Nat /\ names[j] # 0 /\ names[q] < names[j] /\ f \in Nat
            BY <2>8, <4>1, <5>2
          <5>4. ~(q < j) /\ q # j
            <6>1. q < j => names[j] < names[q]
              BY <2>7, <4>1, <5>3
            <6> QED
              BY <4>1, <5>2, <5>3, <6>1
          <5>5. ~(j < p)
            <6>1. j < p => file < f + 1
              BY <2>2, <2>7, <2>8, <5>2, <5>3
            <6> QED
              BY <2>4, <4>1, <4>3, <6>1
          <5>6. j = p
            BY <2>8, <4>1, <4>4, <5>3, <5>4, <5>5
          <5> QED
            BY <2>8, <5>2, <5>6
        <4>5. paths[k] = paths[l] + 1 => q = p + 1
          BY <3>3 DEF q, p
        <4> QED
          BY <4>2, <4>3, <4>4, <4>5
      <3> QED
        BY <3>2, <3>3
    <2>11. FilesInv'
      BY <2>2, <2>5 DEF ReaderInv, FilesInv, vars, log, n, Suffix
    <2>12. PassInv' /\ reader' \in {"stat", "open"}
      <3>1. CASE turn < P
        <4>1. turn' \in 1..Len(paths') /\ turn' \in Nat /\ turn' - 1 = turn
          BY <2>2, <2>3, <3>1
        <4> QED
          BY <2>1, <2>2, <2>5, <3>1, <4>1 DEF PassInv
      <3>2. CASE ~(turn < P)
        <4>1. turn' \in 1..Len(paths') /\ turn' \in Nat /\ turn' - 1 = 0 /\ turn = Len(paths')
          BY <2>1, <2>2, <2>3, <3>2
        <4>2. Len(opened') = 0
          BY <2>1, <2>2
        <4> QED
          BY <2>1, <2>2, <2>5, <3>2, <4>1, <4>2 DEF PassInv
      <3> QED
        BY <3>1, <3>2
    <2>13. Verified'
      BY <2>12 DEF Verified
    <2> QED
      BY <2>9, <2>10, <2>11, <2>12, <2>13 DEF ReaderInv
  <1> QED
    BY <1>1, <1>2

\* A path is opened.
LEMMA OpenStep ==
    ASSUME ChainInv, NamesInv, ReaderInv, OpenPath, UNCHANGED vars
    PROVE  ReaderInv'
  <1> DEFINE n == Len(chain)
             P == Len(paths)
             file == names[paths[turn]]
  <1>1. CASE Fail
    BY <1>1, FailStep
  <1>2. CASE ~Fail
    <2>1. /\ reader = "open" /\ turn \in 1..P /\ Len(statted) = P /\ Len(opened) = turn - 1
          /\ paths \in Seq(Suffix) /\ opened \in Seq(1..n) /\ n \in Nat
      BY DEF OpenPath, ReaderInv, PassInv, FilesInv, ChainInv
    <2>2. /\ file # 0 /\ opened' = Append(opened, file) /\ paths' = paths /\ statted' = statted
          /\ IF turn < P THEN turn' = turn + 1 /\ reader' = "open" ELSE turn' = 1 /\ reader' = "verify"
      BY <1>2, <2>1 DEF OpenPath, Forward, NoFile
    <2>3. P \in Nat /\ turn \in Nat /\ paths[turn] \in Suffix
      BY <2>1
    <2>4. file \in 1..n
      <3>1. names[paths[turn]] \in 0..n
        BY <2>3 DEF NamesInv
      <3> QED
        BY <2>1, <2>2, <3>1
    <2> HIDE DEF file
    <2>5. opened' \in Seq(1..n) /\ Len(opened') = turn
      BY <2>1, <2>2, <2>3, <2>4
    <2> HIDE DEF n
    <2>6. FilesInv' /\ Older' /\ Linked'
      BY <2>2, <2>5 DEF ReaderInv, FilesInv, Older, Linked, Followed, vars, log, n, Suffix
    <2>7. PassInv'
      <3>1. CASE turn < P
        <4>1. turn' \in 1..Len(paths') /\ turn' \in Nat /\ turn' - 1 = turn
          BY <2>2, <2>3, <3>1
        <4> QED
          BY <2>1, <2>2, <2>5, <3>1, <4>1 DEF PassInv
      <3>2. CASE ~(turn < P)
        <4>1. turn' \in 1..Len(paths') /\ turn' \in Nat /\ turn = Len(paths')
          BY <2>1, <2>2, <2>3, <3>2
        <4> QED
          BY <2>1, <2>2, <2>5, <3>2, <4>1 DEF PassInv
      <3> QED
        BY <3>1, <3>2
    <2>8. reader' # "read" /\ (reader' = "verify" => turn' = 1)
      BY <2>2
    <2>9. Verified'
      BY <2>8 DEF Verified
    <2> QED
      BY <2>6, <2>7, <2>9 DEF ReaderInv
  <1> QED
    BY <1>1, <1>2

\* A path that means, when it is verified, the file it meant and gave.
LEMMA VerifyStep ==
    ASSUME ReaderInv, VerifyPath, UNCHANGED vars
    PROVE  ReaderInv'
  <1> DEFINE P == Len(paths)
  <1>1. CASE Fail
    BY <1>1, FailStep
  <1>2. CASE ~Fail
    <2>1. /\ reader = "verify" /\ turn \in 1..P /\ Len(statted) = P /\ Len(opened) = P /\ P \in Nat
      BY DEF VerifyPath, ReaderInv, PassInv, FilesInv
    <2>2. /\ SameFile(turn) /\ paths' = paths /\ statted' = statted /\ opened' = opened
          /\ IF turn < P THEN turn' = turn + 1 /\ reader' = "verify" ELSE turn' = 1 /\ reader' = "read"
      BY <1>2, <2>1 DEF VerifyPath, Forward
    <2>3. FilesInv' /\ Older' /\ Linked'
      BY <2>2 DEF ReaderInv, FilesInv, Older, Linked, Followed, vars, log, Suffix
    <2>4. PassInv'
      <3>1. turn' \in Nat /\ (reader' = "verify" => turn' \in 1..P)
        BY <2>1, <2>2
      <3> QED
        BY <2>1, <2>2, <3>1 DEF PassInv
    <2>5. opened[turn] = statted[turn] /\ Followed(turn)
      <3>1. opened[turn] = statted[turn] /\ names[paths[turn]] = statted[turn] /\ turn \in 1..Len(statted)
        BY <2>1, <2>2 DEF SameFile
      <3> QED
        BY <3>1 DEF ReaderInv, Linked
    <2>6. ASSUME NEW k \in 1..P, reader' = "read" \/ (reader' = "verify" /\ k < turn')
          PROVE  opened[k] = statted[k] /\ Followed(k)
      <3>1. CASE k = turn
        BY <2>5, <3>1
      <3>2. CASE k < turn
        BY <2>1, <3>2 DEF ReaderInv, Verified
      <3>3. ~(turn < k)
        BY <2>1, <2>2, <2>6
      <3> QED
        BY <2>1, <3>1, <3>2, <3>3
    <2>7. Verified'
      BY <2>2, <2>6 DEF Verified, Followed
    <2> QED
      BY <2>3, <2>4, <2>7 DEF ReaderInv
  <1> QED
    BY <1>1, <1>2

\* The detector's log and what the reader has of it.
DatasetInv == DetectorInv /\ NamesInv /\ ReaderInv

LEMMA DatasetSafe == DSpec => []DatasetInv
  <1>1. DInit => DatasetInv
    BY DetectorStart, NamesStart, ReaderStart DEF DInit, DatasetInv
  <1>2. DatasetInv /\ [DNext]_allVars => DatasetInv'
    <2> SUFFICES ASSUME DatasetInv, [DNext]_allVars PROVE DatasetInv'
      OBVIOUS
    <2>1. ChainInv /\ DetectorInv /\ NamesInv /\ ReaderInv
      BY DEF DatasetInv, DetectorInv, DataInv
    <2>2. (DetectorInv /\ NamesInv)'
      BY <2>1, DetectorStep, NamesStep, DatasetStep
    <2>3. ReaderInv'
      <3>1. CASE Reading
        <4>1. UNCHANGED vars
          BY <3>1 DEF Reading
        <4> QED
          BY <2>1, <3>1, <4>1, ListStep, StatStep, OpenStep, VerifyStep DEF Reading
      <3>2. CASE ~Reading
        <4>1. [Next]_vars /\ UNCHANGED readerVars
          BY <3>2 DEF DNext, allVars
        <4> QED
          BY <2>1, <4>1, ReaderBeside
      <3> QED
        BY <3>1, <3>2
    <2> QED
      BY <2>2, <2>3 DEF DatasetInv
  <1> QED
    BY <1>1, <1>2, PTL DEF DSpec

\* The files of a reader that has verified its paths.
LEMMA FilesRead ==
    ASSUME ReaderInv, reader = "read"
    PROVE  /\ Len(opened) \in Nat
           /\ \A i, j \in 1..Len(opened) : i < j => opened[i] < opened[j]
           /\ \A i \in 1..Len(opened) - 1 : paths[i] = paths[i + 1] + 1 => opened[i + 1] = opened[i] + 1
  <1> DEFINE P == Len(paths)
  <1>1. P \in Nat /\ Len(opened) = P /\ Len(statted) = P
    BY DEF ReaderInv, PassInv, FilesInv
  <1>2. \A k \in 1..P : opened[k] = statted[k] /\ Followed(k)
    BY DEF ReaderInv, Verified
  <1>3. ASSUME NEW i \in 1..P, NEW j \in i + 1..P
        PROVE  /\ opened[i] < opened[j]
               /\ j = i + 1 /\ paths[i] = paths[j] + 1 => opened[j] = opened[i] + 1
    <2>1. j \in 1..P /\ j \in i + 1..Len(statted)
      BY <1>1
    <2>2. /\ statted[i] < statted[j]
          /\ j = i + 1 /\ paths[i] = paths[j] + 1 => statted[j] = statted[i] + 1
      BY <1>2, <2>1 DEF Followed
    <2> QED
      BY <1>2, <2>1, <2>2
  <1>4. \A i, j \in 1..P : i < j => j \in i + 1..P
    BY <1>1
  <1>5. \A i \in 1..P - 1 : i \in 1..P /\ i + 1 \in i + 1..P
    BY <1>1
  <1> QED
    BY <1>1, <1>3, <1>4, <1>5

\* However the log is rotated between any two steps of the reader, the files it reads are in
\* their order, and those of adjacent suffixes follow each other without a gap (read_buckets
\* of build_event_time_dataset.py, doRollover of the detector's logger).
THEOREM ReaderSafe == DSpec => []ReadsInOrder
  <1>1. DatasetInv => ReadsInOrder
    <2> SUFFICES ASSUME DatasetInv, reader = "read", NEW i \in 1..Len(opened) - 1
                 PROVE  /\ opened[i] < opened[i + 1]
                        /\ paths[i] = paths[i + 1] + 1 => opened[i + 1] = opened[i] + 1
      BY DEF ReadsInOrder
    <2>1. ReaderInv
      BY DEF DatasetInv
    <2>2. i \in 1..Len(opened) /\ i + 1 \in 1..Len(opened) /\ i < i + 1
      BY <2>1, FilesRead
    <2> QED
      BY <2>1, <2>2, FilesRead
  <1> QED
    BY <1>1, DatasetSafe, PTL

-----------------------------------------------------------------------------
(* The pass over the buckets.                                              *)

\* Sorted numbers: each one once, in ascending order.
Sorts(s, S) ==
    /\ s \in [1..Cardinality(S) -> S]
    /\ \A i, j \in 1..Cardinality(S) : i < j => s[i] < s[j]

LEMMA AscendingFacts ==
    ASSUME NEW S, IsFiniteSet(S), S \subseteq Int
    PROVE  Cardinality(S) \in Nat /\ Sorts(Ascending(S), S)
  <1> DEFINE n == Cardinality(S)
             R == {e \in S \X S : e[1] < e[2]}
  <1>1. n \in Nat
    BY FS_CardinalityType
  <1>2. \A x, y \in S : <<x, y>> \in R <=> x < y
    OBVIOUS
  <1>3. /\ \A x, y \in S : x # y => <<x, y>> \in R \/ <<y, x>> \in R
        /\ \A x \in S : <<x, x>> \notin R
        /\ \A x, y, z \in S : <<x, y>> \in R /\ <<y, z>> \in R => <<x, z>> \in R
    <2>1. \A x \in S : x \in Int
      OBVIOUS
    <2> HIDE DEF R
    <2> QED
      BY <1>2, <2>1
  <1> HIDE DEF R
  <1>4. PICK f \in Bijection(1..n, S) : \A i, j \in 1..n : i < j => <<f[i], f[j]>> \in R
    BY <1>3, Enumeration
  <1>5. f \in [1..n -> S]
    BY DEF Bijection, Injection
  <1>6. \A i, j \in 1..n : i < j => f[i] < f[j]
    BY <1>2, <1>4, <1>5
  <1>7. \E s : Sorts(s, S)
    BY <1>5, <1>6 DEF Sorts
  <1>8. Ascending(S) = CHOOSE s : Sorts(s, S)
    <2>1. \A s : Sorts(s, S) <=> s \in [1..n -> S] /\ \A i, j \in 1..n : i < j => s[i] < s[j]
      BY DEF Sorts
    <2> QED
      BY <1>7, <2>1 DEF Ascending, Sorts
  <1> QED
    BY <1>1, <1>7, <1>8

\* Sorted intervals.
InOrder(s, tl) ==
    /\ s \in [1..Cardinality(tl) -> tl]
    /\ \A i, j \in 1..Cardinality(tl) : i < j => s[i] # s[j] /\ NotAfter(s[i], s[j])
    /\ \A x \in tl : \E i \in 1..Cardinality(tl) : s[i] = x
Intervals(tl) == IsFiniteSet(tl) /\ \A x \in tl : x.start \in Nat /\ x.end \in Nat /\ x.start < x.end

LEMMA TimelineFacts ==
    ASSUME NEW tl, Intervals(tl)
    PROVE  Cardinality(tl) \in Nat /\ InOrder(read_timeline(tl), tl)
  <1> DEFINE n == Cardinality(tl)
             S == 1..n
             Fits(s) == /\ s \in [1..n -> tl]
                        /\ \A i, j \in 1..n : i < j => s[i] # s[j] /\ NotAfter(s[i], s[j])
  <1>1. n \in Nat /\ ExistsBijection(1..n, tl)
    BY FS_CardinalityType DEF Intervals
  <1>2. PICK e \in [1..n -> tl] : \A i, j \in 1..n : e[i] = e[j] => i = j
    BY <1>1 DEF ExistsBijection, Bijection, Injection, IsInjective
  <1> DEFINE Before(i, j) == \/ e[i].start < e[j].start
                             \/ e[i].start = e[j].start /\ e[i].end < e[j].end
                             \/ e[i].start = e[j].start /\ e[i].end = e[j].end /\ i < j
             R == {x \in S \X S : Before(x[1], x[2])}
  <1>3. \A i, j \in S : <<i, j>> \in R <=> Before(i, j)
    OBVIOUS
  <1>4. \A i \in S : i \in Int /\ e[i].start \in Int /\ e[i].end \in Int
    BY <1>1, <1>2 DEF Intervals
  <1>5. /\ \A x, y \in S : x # y => <<x, y>> \in R \/ <<y, x>> \in R
        /\ \A x \in S : <<x, x>> \notin R
        /\ \A x, y, z \in S : <<x, y>> \in R /\ <<y, z>> \in R => <<x, z>> \in R
    <2> HIDE DEF R, S
    <2>1. ASSUME NEW x \in S, NEW y \in S, x # y PROVE <<x, y>> \in R \/ <<y, x>> \in R
      BY <1>3, <1>4, <2>1
    <2>2. ASSUME NEW x \in S PROVE <<x, x>> \notin R
      BY <1>3, <1>4
    <2>3. ASSUME NEW x \in S, NEW y \in S, NEW z \in S, Before(x, y), Before(y, z) PROVE Before(x, z)
      BY <1>4, <2>3
    <2> HIDE DEF Before
    <2> QED
      BY <1>3, <2>1, <2>2, <2>3
  <1>6. IsFiniteSet(S) /\ Cardinality(S) = n
    BY <1>1, FS_Interval
  <1> HIDE DEF R, Before
  <1>7. PICK p \in Bijection(1..n, S) : \A i, j \in 1..n : i < j => <<p[i], p[j]>> \in R
    <2> HIDE DEF S
    <2>1. \E p \in Bijection(1..Cardinality(S), S) :
             \A i, j \in 1..Cardinality(S) : i < j => <<p[i], p[j]>> \in R
      BY <1>5, <1>6, Enumeration
    <2> QED
      BY <1>6, <2>1
  <1>8. p \in [1..n -> 1..n] /\ \A i, j \in 1..n : p[i] = p[j] => i = j
    BY <1>7 DEF Bijection, Injection, IsInjective
  <1> DEFINE s == [i \in 1..n |-> e[p[i]]]
  <1>9. Fits(s)
    <2>1. s \in [1..n -> tl] /\ \A i \in 1..n : s[i] = e[p[i]]
      BY <1>2, <1>8
    <2>2. ASSUME NEW i \in 1..n, NEW j \in 1..n, i < j PROVE s[i] # s[j] /\ NotAfter(s[i], s[j])
      <3>1. p[i] \in S /\ p[j] \in S
        BY <1>8
      <3>2. p[i] # p[j]
        <4>1. i # j
          BY <2>2
        <4> QED
          BY <1>8, <4>1, Zenon
      <3>3. Before(p[i], p[j])
        BY <1>3, <1>7, <2>2, <3>1
      <3>4. e[p[i]] # e[p[j]]
        BY <1>2, <3>1, <3>2
      <3>5. NotAfter(e[p[i]], e[p[j]])
        BY <1>4, <3>1, <3>3 DEF NotAfter, Before
      <3> QED
        BY <2>1, <3>4, <3>5
    <2> HIDE DEF s
    <2> QED
      BY <2>1, <2>2
  <1> HIDE DEF s
  <1> DEFINE q == read_timeline(tl)
  <1>10. Fits(q)
    <2>1. q = CHOOSE x \in [1..n -> tl] : \A i, j \in 1..n : i < j => x[i] # x[j] /\ NotAfter(x[i], x[j])
      BY DEF read_timeline
    <2> HIDE DEF q
    <2> QED
      BY <1>9, <2>1
  <1> HIDE DEF q
  <1>11. \A x \in tl : \E i \in S : q[i] = x
    <2> DEFINE T == {q[i] : i \in S}
    <2>1. \A i, j \in S : q[i] = q[j] => i = j
      <3> SUFFICES ASSUME NEW i \in S, NEW j \in S, q[i] = q[j], i # j PROVE FALSE
        OBVIOUS
      <3>1. i < j \/ j < i
        BY <1>4
      <3> QED
        BY <1>10, <3>1
    <2>2. T \subseteq tl
      BY <1>10
    <2> HIDE DEF S
    <2>3. Cardinality(T) = Cardinality(tl)
      BY <1>6, <2>1, ImageFinite
    <2> HIDE DEF T
    <2>4. T = tl
      BY <2>2, <2>3, FS_Subset DEF Intervals
    <2> QED
      BY <2>4 DEF T
  <1> QED
    BY <1>1, <1>10, <1>11 DEF InOrder, q

\* Which intervals have been met: those that begin before the end of the bucket.
LEMMA EnteringFacts ==
    ASSUME NEW n \in Nat, NEW s, DOMAIN s = 1..n, \A i \in 1..n : s[i].start \in Nat,
           \A i, j \in 1..n : i < j => s[i].start <= s[j].start,
           NEW next \in 1..n + 1, NEW end \in Int,
           \A i \in 1..n : i < next => s[i].start < end
    PROVE  LET new == Entering(s, next, end)
           IN /\ new \subseteq next..n /\ Cardinality(new) \in Nat /\ next + Cardinality(new) \in 1..n + 1
              /\ \A i \in 1..n : i < next + Cardinality(new) <=> s[i].start < end
              /\ \A i \in 1..n : i \in new <=> next <= i /\ i < next + Cardinality(new)
  <1> DEFINE new == Entering(s, next, end)
             C == {i \in 1..n + 1 : i >= next /\ (i = n + 1 \/ ~(s[i].start < end))}
  <1>1. PICK m \in C : \A i \in C : m <= i
    <2>1. C \subseteq Nat /\ n + 1 \in C
      OBVIOUS
    <2> HIDE DEF C
    <2> QED
      BY <2>1, Minimum
  <1>2. m \in 1..n + 1 /\ next <= m
    BY <1>1
  <1>3. ASSUME NEW i \in 1..n PROVE i < m <=> s[i].start < end
    <2>1. CASE i < next
      BY <1>2, <2>1
    <2>2. CASE next <= i /\ i < m
      BY <1>1, <1>2, <2>2
    <2>3. CASE m <= i
      <3>1. ~(s[m].start < end) /\ m \in 1..n
        BY <1>1, <1>2, <2>3
      <3>2. s[m].start <= s[i].start
        <4>1. CASE m = i
          BY <3>1, <4>1
        <4>2. CASE m < i
          BY <3>1, <4>2
        <4> QED
          BY <1>2, <2>3, <4>1, <4>2
      <3> QED
        BY <1>2, <2>3, <3>1, <3>2
    <2> QED
      BY <1>2, <2>1, <2>2, <2>3
  <1>4. new = next..m - 1
    <2>1. ASSUME NEW i \in new PROVE i \in next..m - 1
      <3>1. i \in 1..n /\ i >= next /\ \A j \in next..i : s[j].start < end
        BY DEF Entering
      <3>2. s[i].start < end
        BY <3>1
      <3> QED
        BY <1>2, <1>3, <3>1, <3>2
    <2>2. ASSUME NEW i \in next..m - 1 PROVE i \in new
      <3>1. i \in 1..n /\ i >= next
        BY <1>2
      <3>2. ASSUME NEW j \in next..i PROVE s[j].start < end
        <4>1. j \in 1..n /\ j < m
          BY <1>2, <3>1
        <4> QED
          BY <1>3, <4>1
      <3> QED
        BY <3>1, <3>2 DEF Entering
    <2> QED
      BY <2>1, <2>2
  <1>5. Cardinality(new) = m - next
    <2>1. next \in Int /\ m - 1 \in Int
      BY <1>2
    <2>2. Cardinality(next..m - 1) = IF next > m - 1 THEN 0 ELSE (m - 1) - next + 1
      BY <2>1, FS_Interval
    <2>3. Cardinality(next..m - 1) = m - next
      BY <1>2, <2>2
    <2> QED
      BY <1>4, <2>3, Zenon
  <1> HIDE DEF new
  <1>6. next + Cardinality(new) = m /\ Cardinality(new) \in Nat
    BY <1>2, <1>5
  <1>7. \A i \in 1..n : i \in new <=> next <= i /\ i < m
    BY <1>2, <1>4
  <1>8. new \subseteq next..n
    BY <1>2, <1>4
  <1> QED
    BY <1>2, <1>3, <1>6, <1>7, <1>8 DEF new

\* Widths of buckets keep an order.
LEMMA ScaleMonotone ==
    ASSUME NEW x \in Nat, NEW y \in Nat, x <= y
    PROVE  x * BN \in Nat /\ y * BN \in Nat /\ x * BN <= y * BN
  <1>1. BN \in Nat
    BY DetectorAssumption
  <1> QED
    BY <1>1

\* What the pass needs: intervals by their start, and buckets in ascending order.
SweepOver(s, n, order, N) ==
    /\ n \in Nat /\ DOMAIN s = 1..n
    /\ \A i \in 1..n : s[i].start \in Nat /\ s[i].end \in Nat
    /\ \A i, j \in 1..n : i < j => s[i].start <= s[j].start
    /\ N \in Nat /\ order \in [1..N -> Nat]
    /\ \A j, k \in 1..N : j < k => order[j] < order[k]

\* After bucket k: the intervals that begin before its end are met, and those of them that
\* do not end before it are active.
Swept(s, n, order, k, v) ==
    /\ v.next \in 1..n + 1
    /\ v.active \subseteq 1..n
    /\ \A i \in 1..n : i < v.next <=> k > 0 /\ s[i].start < (order[k] + 1) * BN
    /\ \A i \in v.active : i < v.next
    /\ \A i \in 1..n : k > 0 /\ i < v.next /\ s[i].end > order[k] * BN => i \in v.active

\* One bucket of the pass.
LEMMA SweepOne ==
    ASSUME NEW s, NEW n, NEW order, NEW N, SweepOver(s, n, order, N),
           NEW k \in 1..N, NEW v, Swept(s, n, order, k - 1, v)
    PROVE  Swept(s, n, order, k, SweepStep(s, v, order[k]))
  <1> DEFINE b == order[k]
             new == Entering(s, v.next, (b + 1) * BN)
             kept == {i \in v.active : StillActive(s[i], b * BN)}
             next == v.next + Cardinality(new)
  <1>1. /\ n \in Nat /\ DOMAIN s = 1..n /\ v.next \in 1..n + 1 /\ b \in Nat
        /\ \A i \in 1..n : s[i].start \in Nat /\ s[i].end \in Nat
        /\ \A i, j \in 1..n : i < j => s[i].start <= s[j].start
    BY DEF SweepOver, Swept
  <1>2. b * BN \in Nat /\ (b + 1) * BN \in Nat
    <2> DEFINE q == b + 1
    <2>1. b \in Nat /\ q \in Nat /\ BN \in Nat
      BY <1>1, DetectorAssumption
    <2> HIDE DEF b, q
    <2>2. b * BN \in Nat /\ q * BN \in Nat
      BY <2>1
    <2> QED
      BY <2>2 DEF q
  <1>3. k > 1 => /\ order[k - 1] \in Nat /\ order[k - 1] * BN \in Nat /\ (order[k - 1] + 1) * BN \in Nat
                 /\ order[k - 1] * BN <= b * BN /\ (order[k - 1] + 1) * BN <= (b + 1) * BN
    <2> SUFFICES ASSUME k > 1
                 PROVE  /\ order[k - 1] \in Nat /\ order[k - 1] * BN \in Nat /\ (order[k - 1] + 1) * BN \in Nat
                        /\ order[k - 1] * BN <= b * BN /\ (order[k - 1] + 1) * BN <= (b + 1) * BN
      OBVIOUS
    <2>1. k - 1 \in 1..N /\ k - 1 < k
      BY DEF SweepOver
    <2>2. order[k - 1] \in Nat /\ order[k - 1] < b
      BY <2>1 DEF SweepOver
    <2>3. order[k - 1] + 1 \in Nat /\ b + 1 \in Nat /\ order[k - 1] <= b /\ order[k - 1] + 1 <= b + 1
      BY <1>1, <2>2
    <2>4. order[k - 1] * BN \in Nat /\ order[k - 1] * BN <= b * BN
      <3> DEFINE p == order[k - 1]
      <3>1. p \in Nat /\ b \in Nat /\ p <= b
        BY <1>1, <2>2, <2>3
      <3> HIDE DEF p, b
      <3> QED
        BY <3>1, ScaleMonotone DEF p
    <2>5. (order[k - 1] + 1) * BN \in Nat /\ (order[k - 1] + 1) * BN <= (b + 1) * BN
      <3> DEFINE p == order[k - 1] + 1
                 q == b + 1
      <3>1. p \in Nat /\ q \in Nat /\ p <= q
        BY <2>3
      <3> HIDE DEF p, q
      <3>2. p * BN \in Nat /\ p * BN <= q * BN
        BY <3>1, ScaleMonotone
      <3> QED
        BY <3>2 DEF p, q
    <2> QED
      BY <2>2, <2>4, <2>5
  <1>4. \A i \in 1..n : i < v.next => s[i].start < (b + 1) * BN
    <2> SUFFICES ASSUME NEW i \in 1..n, i < v.next PROVE s[i].start < (b + 1) * BN
      OBVIOUS
    <2>1. k - 1 > 0 /\ s[i].start < (order[k - 1] + 1) * BN
      BY DEF Swept
    <2>2. s[i].start \in Int /\ k > 1
      BY <1>1, <2>1 DEF SweepOver
    <2> QED
      BY <1>2, <1>3, <2>1, <2>2
  <1>5. /\ new \subseteq v.next..n /\ Cardinality(new) \in Nat /\ next \in 1..n + 1
        /\ \A i \in 1..n : i < next <=> s[i].start < (b + 1) * BN
        /\ \A i \in 1..n : i \in new <=> v.next <= i /\ i < next
    <2> DEFINE end == (b + 1) * BN
    <2>1. end \in Int /\ \A i \in 1..n : i < v.next => s[i].start < end
      BY <1>2, <1>4
    <2> HIDE DEF end
    <2>2. LET x == Entering(s, v.next, end)
          IN /\ x \subseteq v.next..n /\ Cardinality(x) \in Nat /\ v.next + Cardinality(x) \in 1..n + 1
             /\ \A i \in 1..n : i < v.next + Cardinality(x) <=> s[i].start < end
             /\ \A i \in 1..n : i \in x <=> v.next <= i /\ i < v.next + Cardinality(x)
      BY <1>1, <2>1, EnteringFacts
    <2> QED
      BY <2>2 DEF end
  <1> DEFINE w == SweepStep(s, v, b)
  <1>6. w.active = kept \cup new /\ w.next = next
    BY DEF SweepStep
  <1>7. \A i \in kept : i \in v.active /\ i \in 1..n /\ i < v.next /\ v.next <= next
    BY <1>1, <1>5 DEF Swept
  <1>8. \A i \in new : i \in 1..n /\ i < next
    BY <1>1, <1>5
  <1>9. ASSUME NEW i \in 1..n, i < next, s[i].end > b * BN PROVE i \in kept \cup new
    <2>1. CASE i < v.next
      <3>1. k - 1 > 0 /\ k > 1 /\ s[i].end \in Int
        BY <1>1, <2>1 DEF Swept, SweepOver
      <3>2. s[i].end > order[k - 1] * BN
        BY <1>2, <1>3, <1>9, <3>1
      <3>3. i \in v.active
        BY <2>1, <3>1, <3>2 DEF Swept
      <3> QED
        BY <1>9, <3>3 DEF StillActive
    <2>2. CASE v.next <= i
      BY <1>5, <1>9, <2>2
    <2> QED
      BY <1>1, <2>1, <2>2
  <1>10. k > 0
    OBVIOUS
  <1> HIDE DEF w, kept, new, next
  <1>11. w.active \subseteq 1..n /\ \A i \in w.active : i < w.next
    <2>1. ASSUME NEW i \in kept PROVE i \in 1..n /\ i < next
      <3>1. i < v.next /\ v.next <= next /\ i \in 1..n
        BY <1>7
      <3> QED
        BY <1>1, <1>5, <3>1
    <2> QED
      BY <1>6, <1>8, <2>1
  <1>12. \A i \in 1..n : i < w.next <=> k > 0 /\ s[i].start < (order[k] + 1) * BN
    BY <1>5, <1>6, <1>10
  <1>13. \A i \in 1..n : k > 0 /\ i < w.next /\ s[i].end > order[k] * BN => i \in w.active
    BY <1>6, <1>9
  <1>14. w.next \in 1..n + 1
    BY <1>5, <1>6
  <1> QED
    BY <1>11, <1>12, <1>13, <1>14 DEF Swept, w

\* The whole pass.
LEMMA SweepFacts ==
    ASSUME NEW s, NEW n, NEW order, NEW N, SweepOver(s, n, order, N)
    PROVE  \A k \in 0..N : Swept(s, n, order, k, Sweep(s, order)[k])
  <1> DEFINE V == [active : SUBSET (1..n), next : 1..n + 1]
             base == [active |-> {}, next |-> 1]
             Eq(a) == a = [k \in 0..Len(order) |-> IF k = 0 THEN base ELSE SweepStep(s, a[k - 1], order[k])]
             G == [k \in 1..N |-> [v \in V |->
                     IF Swept(s, n, order, k - 1, v) THEN SweepStep(s, v, order[k]) ELSE base]]
  <1>1. Len(order) = N /\ N \in Nat /\ n \in Nat
    BY DEF SweepOver
  <1>2. base \in V /\ Swept(s, n, order, 0, base)
    <2>1. 1 \in 1..n + 1
      BY <1>1
    <2>2. base.next = 1 /\ base.active = {} /\ base \in V
      BY <2>1
    <2> HIDE DEF base
    <2>3. \A i \in 1..n : ~(i < base.next)
      BY <2>2
    <2> QED
      BY <2>1, <2>2, <2>3 DEF Swept
  <1>3. ASSUME NEW k \in 1..N, NEW v \in V, Swept(s, n, order, k - 1, v)
        PROVE  SweepStep(s, v, order[k]) \in V /\ Swept(s, n, order, k, SweepStep(s, v, order[k]))
    <2> DEFINE w == SweepStep(s, v, order[k])
    <2>1. Swept(s, n, order, k, w)
      BY <1>3, SweepOne
    <2>2. w = [active |-> w.active, next |-> w.next]
      BY DEF SweepStep
    <2> HIDE DEF w
    <2>3. w.active \in SUBSET (1..n) /\ w.next \in 1..n + 1
      BY <2>1 DEF Swept
    <2>4. w \in V
      BY <2>2, <2>3
    <2> QED
      BY <2>1, <2>4 DEF w
  <1> HIDE DEF base
  <1>4. \A v \in V, k \in 1..N : G[k][v] \in V
    BY <1>2, <1>3
  <1>5. PICK g \in [0..N -> V] : g[0] = base /\ \A k \in 1..N : g[k] = G[k][g[k - 1]]
    <2> HIDE DEF G, V
    <2>1. Leads(N, V, base, G)
      BY <1>1, <1>2, <1>4 DEF Leads
    <2>2. PICK g : Follows(g, N, V, base, G)
      BY <2>1, Recursion
    <2> QED
      BY <2>2 DEF Follows
  <1> DEFINE T == {k \in 0..N : Swept(s, n, order, k, g[k])}
  <1>6. 0..N \subseteq T
    <2>1. 0 \in T
      BY <1>1, <1>2, <1>5
    <2>2. ASSUME NEW k \in 0..N - 1, k \in T PROVE k + 1 \in T
      <3>1. k + 1 \in 1..N /\ (k + 1) - 1 = k /\ k + 1 \in 0..N /\ k \in 0..N
        BY <1>1
      <3>2. g[k] \in V /\ Swept(s, n, order, (k + 1) - 1, g[k])
        BY <1>5, <2>2, <3>1
      <3>3. g[k + 1] = SweepStep(s, g[k], order[k + 1])
        <4> HIDE DEF V
        <4>1. g[k + 1] = G[k + 1][g[k]]
          BY <1>5, <3>1
        <4> QED
          BY <3>1, <3>2, <4>1
      <3>4. Swept(s, n, order, k + 1, g[k + 1])
        BY <1>3, <3>1, <3>2, <3>3
      <3> QED
        BY <3>1, <3>4
    <2> HIDE DEF T
    <2> QED
      BY <1>1, <2>1, <2>2, Upwards
  <1>7. Eq(g)
    <2>1. ASSUME NEW k \in 1..N PROVE g[k] = SweepStep(s, g[k - 1], order[k])
      <3>1. k - 1 \in 0..N
        BY <1>1
      <3>2. g[k - 1] \in V /\ Swept(s, n, order, k - 1, g[k - 1])
        BY <1>5, <1>6, <3>1
      <3> HIDE DEF V
      <3>3. g[k] = G[k][g[k - 1]]
        BY <1>5
      <3> QED
        BY <3>2, <3>3
    <2>2. g = [k \in 0..N |-> g[k]]
      BY <1>5
    <2> HIDE DEF V, G
    <2>3. ASSUME NEW k \in 0..N PROVE g[k] = IF k = 0 THEN base ELSE SweepStep(s, g[k - 1], order[k])
      <3>1. k # 0 => k \in 1..N
        BY <1>1
      <3> QED
        BY <1>5, <2>1, <3>1
    <2> QED
      BY <1>1, <2>2, <2>3
  <1> DEFINE a == Sweep(s, order)
  <1>8. Eq(a)
    <2>1. a = CHOOSE x : Eq(x)
      BY DEF Sweep, base
    <2> HIDE DEF Eq, a
    <2> QED
      BY <1>7, <2>1
  <1> HIDE DEF a
  <1> DEFINE U == {k \in 0..N : a[k] = g[k]}
  <1>9. 0..N \subseteq U
    <2>1. a[0] = base /\ \A k \in 1..N : a[k] = SweepStep(s, a[k - 1], order[k])
      BY <1>1, <1>8
    <2>2. g[0] = base /\ \A k \in 1..N : g[k] = SweepStep(s, g[k - 1], order[k])
      BY <1>1, <1>7
    <2>3. 0 \in U
      BY <1>1, <2>1, <2>2
    <2>4. ASSUME NEW k \in 0..N - 1, k \in U PROVE k + 1 \in U
      <3>1. k + 1 \in 1..N /\ (k + 1) - 1 = k /\ k + 1 \in 0..N
        BY <1>1
      <3>2. a[k + 1] = SweepStep(s, a[k], order[k + 1]) /\ g[k + 1] = SweepStep(s, g[k], order[k + 1])
        BY <2>1, <2>2, <3>1
      <3>3. a[k] = g[k]
        BY <2>4
      <3> QED
        BY <3>1, <3>2, <3>3
    <2> HIDE DEF U
    <2> QED
      BY <1>1, <2>3, <2>4, Upwards
  <1> QED
    BY <1>6, <1>9 DEF a

\* The intervals that meet the time from the first to the last event of a record.
Meets(tl, r) == {x \in tl : x.start <= r.last /\ r.first < x.end}
Covers(M, r) == {x \in M : x.start <= r.first /\ r.last < x.end}
Clear(M, r) ==
    /\ Cardinality(M) = 1 /\ Covers(M, r) = M
    /\ \A x \in M : x.class \in {"normal", "attack", "precursor"}

\* A record of bucket b: its events lie in the bucket.
Inside(r, b) ==
    /\ r.first \in Int /\ r.last \in Int /\ b \in Nat
    /\ b * BN \in Nat /\ (b + 1) * BN \in Nat
    /\ b * BN <= r.first /\ r.first <= r.last /\ r.last < (b + 1) * BN

\* What is active in the bucket holds all that meets the record.
LEMMA OverlapRight ==
    ASSUME NEW tl, Intervals(tl), NEW s, InOrder(s, tl), NEW b, NEW r, Inside(r, b),
           NEW active, active \subseteq 1..Cardinality(tl),
           \A i \in 1..Cardinality(tl) :
               s[i].start < (b + 1) * BN /\ s[i].end > b * BN => i \in active
    PROVE  Overlapping(s, active, r) = Meets(tl, r)
  <1> DEFINE n == Cardinality(tl)
             O == Overlapping(s, active, r)
  <1>1. /\ \A i \in 1..n : s[i] \in tl
        /\ \A x \in tl : \E i \in 1..n : s[i] = x
        /\ \A x \in tl : x.start \in Int /\ x.end \in Int
    BY DEF InOrder, Intervals
  <1>2. r.first \in Int /\ r.last \in Int
    BY DEF Inside
  <1>3. ASSUME NEW x \in O PROVE x \in Meets(tl, r)
    <2>1. PICK i \in active : x = s[i] /\ s[i].start < r.last + 1 /\ s[i].end > r.first
      BY DEF Overlapping
    <2>2. s[i] \in tl /\ s[i].start \in Int /\ s[i].end \in Int
      BY <1>1
    <2> QED
      BY <1>2, <2>1, <2>2 DEF Meets
  <1>4. ASSUME NEW x \in Meets(tl, r) PROVE x \in O
    <2>1. x \in tl /\ x.start <= r.last /\ r.first < x.end /\ x.start \in Int /\ x.end \in Int
      BY <1>1 DEF Meets
    <2>2. PICK i \in 1..n : s[i] = x
      BY <1>1, <2>1
    <2>3. x.start < (b + 1) * BN /\ x.end > b * BN
      BY <2>1 DEF Inside
    <2>4. i \in active
      BY <2>2, <2>3
    <2>5. s[i].start < r.last + 1 /\ s[i].end > r.first
      BY <1>2, <2>1, <2>2
    <2> QED
      BY <2>2, <2>4, <2>5 DEF Overlapping
  <1> QED
    BY <1>3, <1>4

\* The verdict on the intervals that meet a record.
LEMMA VerdictRight ==
    ASSUME NEW M, IsFiniteSet(M), NEW r, r.first \in Int, r.last \in Int,
           \A x \in M : x.start \in Int /\ x.end \in Int
    PROVE  /\ Verdict(M, r) \in {"normal", "attack"} <=> Clear(M, r)
           /\ Clear(M, r) => \A x \in M : Verdict(M, r) = Label(x)
  <1>1. CASE M = {}
    <2>1. Cardinality(M) # 1
      BY <1>1, FS_EmptySet
    <2>2. Verdict(M, r) = "skipped_unlabeled"
      BY <1>1 DEF Verdict
    <2> QED
      BY <2>1, <2>2 DEF Clear
  <1>2. CASE M # {} /\ Cardinality(M) # 1
    <2>1. Verdict(M, r) = "skipped_mixed"
      BY <1>2 DEF Verdict
    <2> QED
      BY <1>2, <2>1 DEF Clear
  <1>3. CASE Cardinality(M) = 1
    <2>1. PICK x : M = {x}
      BY <1>3, FS_Singleton
    <2> DEFINE y == CHOOSE z \in M : TRUE
    <2>2. y = x
      BY <2>1
    <2> HIDE DEF y
    <2>3. M # {} /\ x \in M
      BY <2>1
    <2>4. Verdict(M, r) = IF x.start > r.first \/ x.end < r.last + 1 THEN "skipped_boundary"
                          ELSE IF x.class \notin {"normal", "attack", "precursor"} THEN "skipped_unknown"
                          ELSE Label(x)
      BY <1>3, <2>2, <2>3 DEF Verdict, y
    <2>5. Clear(M, r) <=> /\ x.start <= r.first /\ r.last < x.end
                          /\ x.class \in {"normal", "attack", "precursor"}
      BY <1>3, <2>1 DEF Clear, Covers
    <2>6. x.start \in Int /\ x.end \in Int
      BY <2>3
    <2>7. Label(x) \in {"normal", "attack"}
      BY DEF Label
    <2>8. Clear(M, r) <=> ~(x.start > r.first \/ x.end < r.last + 1) /\ x.class \in {"normal", "attack", "precursor"}
      BY <2>5, <2>6
    <2>9. Clear(M, r) => Verdict(M, r) = Label(x)
      BY <2>4, <2>8
    <2>10. Verdict(M, r) \in {"normal", "attack"} => Clear(M, r)
      BY <2>4, <2>8
    <2> QED
      BY <2>1, <2>7, <2>9, <2>10
  <1> QED
    BY <1>1, <1>2, <1>3

-----------------------------------------------------------------------------
(* The records the reader keeps.                                           *)

\* Where a line of an open file is in the log.
PlaceOf(l) == <<opened[l[1]], l[2]>>

LEMMA LineFacts ==
    ASSUME DatasetInv, NEW l \in BucketLines
    PROVE  PlaceOf(l) \in BucketRecords /\ LineAt(l) = At(PlaceOf(l)) /\ l[2] \in Int /\ LineAt(l).b \in Nat
  <1>1. /\ l[1] \in 1..Len(opened) /\ l[2] \in 1..FileCap /\ l[2] <= Len(chain[opened[l[1]]])
        /\ LineAt(l).type = "bucket"
    BY DEF BucketLines, Lines
  <1>2. opened[l[1]] \in 1..Len(chain)
    BY <1>1 DEF DatasetInv, ReaderInv, FilesInv
  <1>3. LineAt(l) = At(PlaceOf(l))
    BY DEF LineAt, At, PlaceOf
  <1>4. PlaceOf(l) \in BucketRecords
    BY <1>1, <1>2 DEF BucketRecords, Records, PlaceOf, LineAt
  <1>5. l[2] \in Int
    BY <1>1
  <1>6. LineAt(l) \in LogRecord
    <2>1. chain[opened[l[1]]] \in Seq(LogRecord)
      BY <1>2 DEF DatasetInv, DetectorInv, DataInv, ChainInv
    <2> QED
      BY <1>1, <2>1 DEF LineAt
  <1>7. LineAt(l).b \in Nat
    BY <1>1, <1>6 DEF LogRecord, BucketRecord, HealthRecord, Bucket
  <1> QED
    BY <1>3, <1>4, <1>5, <1>7

LEMMA LinesFinite ==
    ASSUME DatasetInv
    PROVE  IsFiniteSet(BucketLines)
  <1>1. 1 \in Int /\ Len(opened) \in Int /\ FileCap \in Int
    BY DetectorAssumption DEF DatasetInv, ReaderInv, FilesInv
  <1>2. IsFiniteSet(1..Len(opened)) /\ IsFiniteSet(1..FileCap)
    BY <1>1, FS_Interval
  <1>3. IsFiniteSet((1..Len(opened)) \X (1..FileCap))
    BY <1>2, FS_Product
  <1>4. BucketLines \subseteq (1..Len(opened)) \X (1..FileCap)
    BY DEF BucketLines, Lines
  <1> QED
    BY <1>3, <1>4, FS_Subset

\* The buckets of the dataset.
BucketsRead == Reported \ Duplicates

LEMMA BucketsFacts ==
    ASSUME DatasetInv
    PROVE  IsFiniteSet(BucketsRead) /\ BucketsRead \subseteq Nat
  <1> DEFINE h == [l \in BucketLines |-> LineAt(l).b]
  <1>1. Reported = {h[l] : l \in BucketLines}
    BY DEF Reported
  <1> HIDE DEF h
  <1>2. IsFiniteSet(Reported)
    BY <1>1, LinesFinite, ImageFinite
  <1>3. Reported \subseteq Nat
    BY LineFacts DEF Reported
  <1>4. BucketsRead \subseteq Reported
    BY DEF BucketsRead
  <1> QED
    BY <1>2, <1>3, <1>4, FS_Subset

\* A bucket of the dataset has one record, and that is what its row holds.
LEMMA RowRecord ==
    ASSUME DatasetInv, NEW b \in BucketsRead
    PROVE  \E l \in BucketLines : /\ LineAt(l).b = b /\ RecordOf(b) = LineAt(l)
                                  /\ \A m \in BucketLines : LineAt(m).b = b => m = l
  <1>1. PICK l \in BucketLines : LineAt(l).b = b
    BY DEF BucketsRead, Reported
  <1>2. Positions(b) \subseteq BucketLines /\ l \in Positions(b)
    BY <1>1 DEF Positions
  <1>3. IsFiniteSet(Positions(b)) /\ Cardinality(Positions(b)) \in Nat
    BY <1>2, LinesFinite, FS_Subset, FS_CardinalityType
  <1>4. ~(Cardinality(Positions(b)) > 1)
    BY DEF BucketsRead, Duplicates
  <1>5. Cardinality(Positions(b)) # 0
    BY <1>2, <1>3, FS_EmptySet
  <1>6. Cardinality(Positions(b)) = 1
    BY <1>3, <1>4, <1>5
  <1>7. PICK x : Positions(b) = {x}
    BY <1>3, <1>6, FS_Singleton
  <1>8. Positions(b) = {l}
    BY <1>2, <1>7
  <1>9. \A m \in BucketLines : LineAt(m).b = b => m = l
    BY <1>8 DEF Positions
  <1>10. l[2] \in Int
    BY LineFacts
  <1> DEFINE Latest(y) == \A m \in Positions(b) : m[1] < y[1] \/ (m[1] = y[1] /\ m[2] <= y[2])
  <1>11. Latest(l)
    BY <1>8, <1>10
  <1>12. RecordOf(b) = LineAt(CHOOSE y \in Positions(b) : Latest(y))
    BY DEF RecordOf
  <1> HIDE DEF Latest
  <1>13. (CHOOSE y \in Positions(b) : Latest(y)) = l
    BY <1>8, <1>11
  <1>14. RecordOf(b) = LineAt(l)
    BY <1>12, <1>13, Zenon
  <1> QED
    BY <1>1, <1>9, <1>14

\* Its events lie in the bucket.
LEMMA RowInside ==
    ASSUME DatasetInv, NEW b \in BucketsRead
    PROVE  Inside(RecordOf(b), b)
  <1>1. PICK l \in BucketLines : LineAt(l).b = b /\ RecordOf(b) = LineAt(l)
    BY RowRecord
  <1> DEFINE p == PlaceOf(l)
             r == RecordOf(b)
  <1>2. p \in BucketRecords /\ r = At(p) /\ r.b = b /\ b \in Nat
    BY <1>1, LineFacts
  <1>3. /\ Exact(<<r.first, r.last>>, r.events)
        /\ \A e \in r.events : BucketOf(e.ts) = b
    BY <1>2 DEF DatasetInv, DetectorInv, DataInv, RecordInv
  <1> HIDE DEF p, r
  <1>4. /\ r.first \in Ts /\ r.last \in Ts
        /\ \E e \in r.events : e.ts = r.first
        /\ \E e \in r.events : e.ts = r.last
        /\ \A e \in r.events : r.first <= e.ts /\ e.ts <= r.last
    BY <1>3 DEF Exact
  <1>5. BucketOf(r.first) = b /\ BucketOf(r.last) = b /\ r.first <= r.last
    BY <1>3, <1>4
  <1>6. r.first \in Int /\ r.last \in Int
    BY <1>4, TsFacts
  <1>7. r.first \div BN = b /\ r.last \div BN = b
    BY <1>5 DEF BucketOf
  <1>8. ASSUME NEW t \in Int, t \div BN = b
        PROVE  b * BN \in Nat /\ (b + 1) * BN \in Nat /\ b * BN <= t /\ t < (b + 1) * BN
    <2>1. BN \in Nat /\ BN > 0
      BY DetectorAssumption
    <2>2. BN * (t \div BN) <= t /\ t < BN * (t \div BN + 1)
      BY <2>1
    <2>3. BN * b <= t /\ t < BN * (b + 1)
      BY <1>8, <2>2, Zenon
    <2>4. BN * b = b * BN /\ BN * (b + 1) = (b + 1) * BN /\ b * BN \in Nat
      BY <1>2, <2>1
    <2>5. (b + 1) * BN \in Nat
      <3> DEFINE q == b + 1
      <3>1. q \in Nat
        BY <1>2
      <3> HIDE DEF q
      <3>2. q * BN \in Nat
        BY <2>1, <3>1
      <3> QED
        BY <3>2 DEF q
    <2> QED
      BY <2>3, <2>4, <2>5
  <1>9. Inside(r, b)
    BY <1>2, <1>5, <1>6, <1>7, <1>8 DEF Inside
  <1> QED
    BY <1>9 DEF r

-----------------------------------------------------------------------------
(* The rows.                                                               *)

\* The order of the buckets.
LEMMA OrderOfBuckets ==
    ASSUME DatasetInv
    PROVE  LET N == Cardinality(BucketsRead)
               order == Ascending(BucketsRead)
           IN /\ N \in Nat /\ order \in [1..N -> BucketsRead] /\ order \in [1..N -> Nat]
              /\ Len(order) = N /\ \A j, k \in 1..N : j < k => order[j] < order[k]
  <1> DEFINE N == Cardinality(BucketsRead)
             order == Ascending(BucketsRead)
  <1>1. IsFiniteSet(BucketsRead) /\ BucketsRead \subseteq Nat /\ BucketsRead \subseteq Int
    BY BucketsFacts
  <1>2. N \in Nat /\ Sorts(order, BucketsRead)
    BY <1>1, AscendingFacts
  <1> HIDE DEF order
  <1>3. order \in [1..N -> BucketsRead] /\ \A j, k \in 1..N : j < k => order[j] < order[k]
    BY <1>2 DEF Sorts
  <1> HIDE DEF N
  <1>4. order \in [1..N -> Nat] /\ Len(order) = N
    <2>1. \A j \in 1..N : order[j] \in Nat
      BY <1>1, <1>3
    <2>2. order = [j \in 1..N |-> order[j]]
      BY <1>3
    <2>3. order \in [1..N -> Nat]
      BY <2>1, <2>2
    <2>4. Len(order) = N
      BY <1>2, <2>2
    <2> QED
      BY <2>3, <2>4
  <1> QED
    BY <1>2, <1>3, <1>4 DEF order, N

\* A row of build: its bucket, the only record of it, and the verdict on the intervals that
\* meet that record.
RowRight(tl, row) ==
    /\ row.b \in BucketsRead
    /\ row.record = RecordOf(row.b)
    /\ row.verdict = Verdict(Meets(tl, row.record), row.record)

LEMMA BuildRight ==
    ASSUME DatasetInv, NEW tl, Intervals(tl)
    PROVE  \A i \in DOMAIN build(tl) : RowRight(tl, build(tl)[i])
  <1> DEFINE s == read_timeline(tl)
             n == Cardinality(tl)
             order == Ascending(BucketsRead)
             N == Cardinality(BucketsRead)
             acc == Sweep(s, order)
  <1>1. n \in Nat /\ InOrder(s, tl)
    BY TimelineFacts
  <1>2. /\ N \in Nat /\ order \in [1..N -> BucketsRead] /\ order \in [1..N -> Nat]
        /\ Len(order) = N /\ \A j, k \in 1..N : j < k => order[j] < order[k]
    BY OrderOfBuckets
  <1>3. build(tl) = [k \in 1..Len(order) |-> Row(order[k], s, acc[k].active)]
    BY DEF build, BucketsRead
  <1> HIDE DEF s, order, acc
  <1>4. SweepOver(s, n, order, N)
    <2>1. s \in [1..n -> tl] /\ \A i, j \in 1..n : i < j => s[i] # s[j] /\ NotAfter(s[i], s[j])
      BY <1>1 DEF InOrder
    <2>2. \A i \in 1..n : s[i].start \in Nat /\ s[i].end \in Nat
      BY <2>1 DEF Intervals
    <2>3. \A i, j \in 1..n : i < j => s[i].start <= s[j].start
      BY <2>1, <2>2 DEF NotAfter
    <2>4. DOMAIN s = 1..n
      BY <2>1
    <2> HIDE DEF n, N
    <2> QED
      BY <1>1, <1>2, <2>2, <2>3, <2>4 DEF SweepOver
  <1>5. ASSUME NEW k \in 1..N PROVE RowRight(tl, build(tl)[k])
    <2> DEFINE b == order[k]
               r == RecordOf(b)
               row == Row(b, s, acc[k].active)
    <2>1. build(tl)[k] = row
      BY <1>2, <1>3
    <2>2. b \in BucketsRead
      BY <1>2
    <2>3. Inside(r, b)
      BY <2>2, RowInside
    <2>4. Swept(s, n, order, k, acc[k])
      <3>1. k \in 0..N
        BY <1>2
      <3> HIDE DEF n, N
      <3> QED
        BY <1>4, <3>1, SweepFacts DEF acc
    <2>5. acc[k].active \subseteq 1..n
      BY <2>4 DEF Swept
    <2>6. \A i \in 1..n : s[i].start < (b + 1) * BN /\ s[i].end > b * BN => i \in acc[k].active
      <3>1. k > 0
        BY <1>2
      <3> QED
        BY <2>4, <3>1 DEF Swept
    <2> HIDE DEF b, r
    <2>7. Overlapping(s, acc[k].active, r) = Meets(tl, r)
      BY <1>1, <2>3, <2>5, <2>6, OverlapRight
    <2>8. row.b = b /\ row.record = r /\ row.verdict = Verdict(Overlapping(s, acc[k].active, r), r)
      BY DEF Row, r
    <2>9. row.verdict = Verdict(Meets(tl, r), r)
      BY <2>7, <2>8, Zenon
    <2> HIDE DEF row
    <2>10. RowRight(tl, row)
      BY <2>2, <2>8, <2>9 DEF RowRight, r
    <2> QED
      BY <2>1, <2>10
  <1>6. DOMAIN build(tl) = 1..N
    BY <1>2, <1>3
  <1> QED
    BY <1>5, <1>6

LEMMA RowFacts ==
    ASSUME DatasetInv, NEW tl, Intervals(tl), NEW row, RowRight(tl, row)
    PROVE  LET r == row.record
               M == Meets(tl, r)
           IN /\ IsFiniteSet(M) /\ r.first \in Int /\ r.last \in Int
              /\ \A x \in M : x.start \in Int /\ x.end \in Int
              /\ row.verdict \in {"normal", "attack"} <=> Clear(M, r)
              /\ Clear(M, r) => \A x \in M : row.verdict = Label(x)
  <1> DEFINE r == row.record
             M == Meets(tl, r)
  <1>1. r.first \in Int /\ r.last \in Int
    BY RowInside DEF RowRight, Inside
  <1>2. M \subseteq tl
    BY DEF Meets
  <1>3. IsFiniteSet(M) /\ \A x \in M : x.start \in Int /\ x.end \in Int
    BY <1>2, FS_Subset DEF Intervals
  <1>4. row.verdict = Verdict(M, r)
    BY DEF RowRight
  <1> HIDE DEF M, r
  <1>5. /\ Verdict(M, r) \in {"normal", "attack"} <=> Clear(M, r)
        /\ Clear(M, r) => \A x \in M : Verdict(M, r) = Label(x)
    BY <1>1, <1>3, VerdictRight
  <1> QED
    BY <1>1, <1>3, <1>4, <1>5 DEF M, r

\* The rows kept are those with a clear interval, and carry its label.
LEMMA SweepHolds ==
    ASSUME DatasetInv
    PROVE  SweepCorrect
  <1> SUFFICES ASSUME NEW tl \in Timelines, NEW i \in DOMAIN build(tl)
               PROVE  LET r == build(tl)[i].record
                          meets == {x \in tl : x.start <= r.last /\ r.first < x.end}
                          covers == {x \in meets : x.start <= r.first /\ r.last < x.end}
                          clear == /\ Cardinality(meets) = 1 /\ covers = meets
                                   /\ \A x \in meets : x.class \in {"normal", "attack", "precursor"}
                      IN /\ i \in Kept(build(tl)) <=> clear
                         /\ clear => \A x \in meets : build(tl)[i].verdict = Label(x)
    BY DEF SweepCorrect
  <1> DEFINE row == build(tl)[i]
             r == row.record
             meets == {x \in tl : x.start <= r.last /\ r.first < x.end}
             covers == {x \in meets : x.start <= r.first /\ r.last < x.end}
             clear == /\ Cardinality(meets) = 1 /\ covers = meets
                      /\ \A x \in meets : x.class \in {"normal", "attack", "precursor"}
  <1>1. Intervals(tl)
    BY TimelinesAssumption DEF Intervals
  <1>2. RowRight(tl, row)
    BY <1>1, BuildRight
  <1>3. i \in Kept(build(tl)) <=> row.verdict \in {"normal", "attack"}
    BY DEF Kept
  <1> HIDE DEF row
  <1>4. /\ row.verdict \in {"normal", "attack"} <=> Clear(Meets(tl, r), r)
        /\ Clear(Meets(tl, r), r) => \A x \in Meets(tl, r) : row.verdict = Label(x)
    BY <1>1, <1>2, RowFacts
  <1> HIDE DEF r
  <1>5. meets = Meets(tl, r)
    BY DEF Meets
  <1>6. covers = Covers(Meets(tl, r), r)
    BY <1>5 DEF Covers
  <1> HIDE DEF meets, covers
  <1>7. clear <=> Clear(Meets(tl, r), r)
    BY <1>5, <1>6 DEF Clear
  <1>8. /\ i \in Kept(build(tl)) <=> clear
        /\ clear => \A x \in meets : row.verdict = Label(x)
    BY <1>3, <1>4, <1>5, <1>7
  <1> QED
    BY <1>8 DEF meets, covers, row, r

\* For every log, timeline and width of buckets: the single pass over the sorted intervals
\* labels as the definition does, although intervals overlap, end inside a bucket or outlast
\* many (build of build_event_time_dataset.py, lines 113-163).
THEOREM SweepRight == DSpec => []SweepCorrect
  <1>1. DatasetInv => SweepCorrect
    BY SweepHolds
  <1> QED
    BY <1>1, DatasetSafe, PTL

-----------------------------------------------------------------------------
\* Then a bucket of the dataset has one record in the whole log, and that one is complete.
LEMMA RowsHold ==
    ASSUME DatasetInv, SingleRecordComplete
    PROVE  RowsComplete
  <1> SUFFICES ASSUME reader = "read", {r[1] : r \in BucketRecords} \subseteq Range(opened),
                      NEW tl \in Timelines, NEW i \in Kept(build(tl))
               PROVE  {e \in scored : BucketOf(e.ts) = build(tl)[i].b} \subseteq build(tl)[i].record.events
    BY DEF RowsComplete
  <1> DEFINE row == build(tl)[i]
             b == row.b
  <1>1. Intervals(tl) /\ i \in DOMAIN build(tl)
    BY TimelinesAssumption DEF Intervals, Kept
  <1>2. RowRight(tl, row)
    BY <1>1, BuildRight
  <1> HIDE DEF row
  <1>3. b \in BucketsRead /\ row.record = RecordOf(b)
    BY <1>2 DEF RowRight
  <1> HIDE DEF b
  <1>4. PICK l \in BucketLines : /\ LineAt(l).b = b /\ RecordOf(b) = LineAt(l)
                                 /\ \A m \in BucketLines : LineAt(m).b = b => m = l
    BY <1>3, RowRecord
  <1> DEFINE p == PlaceOf(l)
  <1>5. p \in BucketRecords /\ At(p).b = b /\ row.record = At(p)
    BY <1>3, <1>4, LineFacts
  <1>6. ASSUME NEW q \in BucketRecords, At(q).b = b PROVE q = p
    <2>1. /\ q \in (1..Len(chain)) \X (1..FileCap) /\ q[2] <= Len(chain[q[1]])
          /\ At(q).type = "bucket"
      BY DEF BucketRecords, Records, At
    <2>2. PICK k \in 1..Len(opened) : opened[k] = q[1]
      <3>1. q[1] \in Range(opened) /\ DOMAIN opened = 1..Len(opened)
        BY DEF DatasetInv, ReaderInv, FilesInv
      <3> QED
        BY <3>1 DEF Range
    <2> DEFINE m == <<k, q[2]>>
    <2>3. m[1] = k /\ m[2] = q[2] /\ m \in (1..Len(opened)) \X (1..FileCap)
      BY <2>1
    <2> HIDE DEF m
    <2>4. LineAt(m) = At(q)
      BY <2>2, <2>3 DEF LineAt, At
    <2>5. m \in BucketLines /\ LineAt(m).b = b
      BY <1>6, <2>1, <2>2, <2>3, <2>4 DEF BucketLines, Lines
    <2>6. m = l
      BY <1>4, <2>5
    <2>7. PlaceOf(m) = <<q[1], q[2]>> /\ q = <<q[1], q[2]>>
      BY <2>1, <2>2, <2>3 DEF PlaceOf
    <2> QED
      BY <2>6, <2>7
  <1> HIDE DEF p
  <1>7. {e \in scored : BucketOf(e.ts) = At(p).b} \subseteq At(p).events
    BY <1>5, <1>6 DEF SingleRecordComplete
  <1>8. {e \in scored : BucketOf(e.ts) = b} \subseteq row.record.events
    BY <1>5, <1>7
  <1> QED
    BY <1>8 DEF row, b

\* However often late events open a bucket again: when the detector has ended and the reader
\* has every file with the record of a bucket, a row of the dataset holds all the events its
\* bucket ever scored (read_buckets and duplicates of build_event_time_dataset.py, finalize of
\* detect2.py).
THEOREM RowsWhole == DSpec => []RowsComplete
  <1>1. DatasetInv /\ SingleRecordComplete => RowsComplete
    BY RowsHold
  <1> QED
    BY <1>1, DatasetSafe, SingleRecord, PTL
=============================================================================
