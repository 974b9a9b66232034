--------------------------- MODULE OfflineProofs ---------------------------
(***************************************************************************)
(* Proofs about the offline programs: Windows, for any capture, command    *)
(* line and changes of the file system, and Evaluation, for any corpus     *)
(* and any number of edits of its files.                                   *)
(***************************************************************************)
EXTENDS Windows, Evaluation, DataLemmas

-----------------------------------------------------------------------------
(* Windows                                                                 *)

OfIn(c, key, types) == {i \in DOMAIN c : c[i].type \in types /\ c[i].key = key}
Places(cl, key) == {k \in DOMAIN cl : cl[k].key = key}
Inside(cl, key) == UNION {Range(cl[k].syscalls) : k \in Places(cl, key)}
Rest(c, cl, key) == OfIn(c, key, {"syscall"}) \ Inside(cl, key)
EndIn(c, w) == IF Len(w.syscalls) = Window THEN w.syscalls[Window] ELSE Len(c)

\* What window k of cl has, and what comes after all windows.
During(c, cl, k) ==
    {i \in OfIn(c, cl[k].key, {"open", "connect"}) :
        /\ i <= EndIn(c, cl[k])
        /\ \A j \in Places(cl, cl[k].key) : j < k => EndIn(c, cl[j]) < i}
Afterwards(c, cl, key) ==
    {i \in OfIn(c, key, {"open", "connect"}) : \A j \in Places(cl, key) : EndIn(c, cl[j]) < i}

Record == [key : Key, unit : Units(opt) \cup {NoUnit}, syscalls : Seq(Nat), details : Seq(Nat)]

WindowGood(c, cl, k) ==
    /\ Len(cl[k].syscalls) \in opt.min_len .. Window
    /\ Ascends(cl[k].syscalls) /\ Range(cl[k].syscalls) \subseteq OfIn(c, cl[k].key, {"syscall"})
    /\ Ascends(cl[k].details) /\ Range(cl[k].details) = During(c, cl, k)
    /\ cl[k].unit = UnitOf(cl[k].key)

PairGood(cl, j, k) ==
    j < k /\ cl[j].key = cl[k].key =>
        /\ Len(cl[j].syscalls) = Window
        /\ \A x \in Range(cl[j].syscalls), y \in Range(cl[k].syscalls) : x < y

AllFull(cl, key) == \A k \in Places(cl, key) : Len(cl[k].syscalls) = Window

ClosedGood(c, cl) ==
    /\ \A k \in DOMAIN cl : WindowGood(c, cl, k)
    /\ \A j, k \in DOMAIN cl : PairGood(cl, j, k)
    /\ \A key \in Key : \A i \in Inside(cl, key), r \in Rest(c, cl, key) : i < r

QueueGood(c, cl, key, q, d) ==
    /\ Ascends(q) /\ Range(q) = Rest(c, cl, key)
    /\ Ascends(d) /\ Range(d) = Afterwards(c, cl, key)
    /\ AllFull(cl, key)

-----------------------------------------------------------------------------
(* Sequences of places.                                                    *)

LEMMA AppendFacts ==
    ASSUME NEW S, NEW s \in Seq(S), NEW e \in S
    PROVE  /\ Append(s, e) \in Seq(S) /\ Len(Append(s, e)) = Len(s) + 1 /\ Len(s) \in Nat
           /\ DOMAIN s = 1 .. Len(s) /\ DOMAIN Append(s, e) = 1 .. Len(s) + 1
           /\ Append(s, e)[Len(s) + 1] = e
           /\ \A k \in DOMAIN s : k \in DOMAIN Append(s, e) /\ Append(s, e)[k] = s[k]
           /\ \A k \in DOMAIN Append(s, e) : k \in DOMAIN s \/ k = Len(s) + 1
           /\ Range(Append(s, e)) = Range(s) \cup {e}
  <1>1. /\ Append(s, e) \in Seq(S) /\ Len(Append(s, e)) = Len(s) + 1 /\ Len(s) \in Nat
        /\ DOMAIN s = 1 .. Len(s) /\ DOMAIN Append(s, e) = 1 .. Len(s) + 1
        /\ Append(s, e)[Len(s) + 1] = e
        /\ \A k \in 1 .. Len(s) : Append(s, e)[k] = s[k]
    OBVIOUS
  <1>2. /\ \A k \in DOMAIN s : k \in DOMAIN Append(s, e) /\ Append(s, e)[k] = s[k]
        /\ \A k \in DOMAIN Append(s, e) : k \in DOMAIN s \/ k = Len(s) + 1
    BY <1>1
  <1>3. Range(Append(s, e)) = Range(s) \cup {e}
    <2> DEFINE t == Append(s, e)
    <2>1. Len(s) + 1 \in DOMAIN t /\ t[Len(s) + 1] = e
      BY <1>1
    <2> HIDE DEF t
    <2>2. /\ \A k \in DOMAIN s : k \in DOMAIN t /\ t[k] = s[k]
          /\ \A k \in DOMAIN t : k \in DOMAIN s \/ k = Len(s) + 1
      BY <1>2 DEF t
    <2>3. Range(t) = Range(s) \cup {e}
      BY <2>1, <2>2 DEF Range
    <2> QED
      BY <2>3 DEF t
  <1> QED
    BY <1>1, <1>2, <1>3

LEMMA AscendsAppend ==
    ASSUME NEW s \in Seq(Nat), Ascends(s), NEW n \in Nat, \A i \in Range(s) : i < n
    PROVE  Ascends(Append(s, n))
  <1> DEFINE t == Append(s, n)
  <1>1. /\ DOMAIN t = 1 .. Len(s) + 1 /\ DOMAIN s = 1 .. Len(s) /\ Len(s) \in Nat
        /\ t[Len(s) + 1] = n
        /\ \A k \in DOMAIN s : t[k] = s[k] /\ s[k] \in Range(s)
        /\ \A k \in DOMAIN t : k \in DOMAIN s \/ k = Len(s) + 1
    BY AppendFacts DEF Range
  <1> HIDE DEF t
  <1>2. ASSUME NEW j \in DOMAIN t, NEW k \in DOMAIN t, j < k PROVE t[j] < t[k]
    <2>1. j \in DOMAIN s
      BY <1>1, <1>2
    <2>2. CASE k \in DOMAIN s
      BY <1>1, <1>2, <2>1, <2>2 DEF Ascends
    <2>3. CASE k = Len(s) + 1
      BY <1>1, <2>1, <2>3
    <2> QED
      BY <1>1, <2>2, <2>3
  <1> QED
    BY <1>2 DEF Ascends, t

LEMMA AscendsEmpty == Ascends(<<>>) /\ Range(<<>>) = {} /\ <<>> \in Seq(Nat) /\ Len(<<>>) = 0
  BY DEF Ascends, Range

\* The last of an ascending sequence is its greatest.
LEMMA AscendsLast ==
    ASSUME NEW s \in Seq(Nat), Ascends(s), s # <<>>
    PROVE  s[Len(s)] \in Range(s) /\ \A i \in Range(s) : i <= s[Len(s)]
  <1>1. Len(s) \in DOMAIN s /\ Len(s) \in Nat /\ DOMAIN s = 1 .. Len(s) /\ \A k \in DOMAIN s : s[k] \in Nat
    OBVIOUS
  <1>2. ASSUME NEW k \in DOMAIN s PROVE s[k] <= s[Len(s)]
    <2>1. k < Len(s) \/ k = Len(s)
      BY <1>1
    <2> QED
      BY <1>1, <2>1 DEF Ascends
  <1> QED
    BY <1>1, <1>2 DEF Range

\* An ascending sequence has as many places as members.
LEMMA AscendsCard ==
    ASSUME NEW s \in Seq(Nat), Ascends(s)
    PROVE  IsFiniteSet(Range(s)) /\ Cardinality(Range(s)) = Len(s)
  <1>1. DOMAIN s = 1 .. Len(s) /\ Len(s) \in Nat /\ \A k \in DOMAIN s : s[k] \in Nat
    OBVIOUS
  <1>2. IsFiniteSet(DOMAIN s) /\ Cardinality(DOMAIN s) = Len(s)
    <2> DEFINE n == Len(s)
    <2>0. n \in Nat /\ n \in Int /\ 1 \in Int
      BY <1>1
    <2> HIDE DEF n
    <2>1. IsFiniteSet(1 .. n) /\ Cardinality(1 .. n) = n
      BY <2>0, FS_Interval
    <2> USE DEF n
    <2> QED
      BY <1>1, <2>1, Zenon
  <1>3. ASSUME NEW j \in DOMAIN s, NEW k \in DOMAIN s, s[j] = s[k] PROVE j = k
    <2>1. j < k \/ k < j \/ j = k
      BY <1>1
    <2> QED
      BY <1>1, <1>3, <2>1 DEF Ascends
  <1>4. Range(s) = {s[k] : k \in DOMAIN s}
    BY DEF Range
  <1>5. \A j, k \in DOMAIN s : s[j] = s[k] => j = k
    BY <1>3
  <1> DEFINE S == DOMAIN s
  <1> HIDE DEF S
  <1>6. IsFiniteSet({s[k] : k \in S}) /\ Cardinality({s[k] : k \in S}) = Cardinality(S)
    <2>1. IsFiniteSet(S) /\ \A j, k \in S : s[j] = s[k] => j = k
      BY <1>2, <1>5 DEF S
    <2> QED
      BY <2>1, ImageFinite
  <1> QED
    BY <1>2, <1>4, <1>6 DEF S

-----------------------------------------------------------------------------
(* A frame more, a window more.                                            *)

LEMMA OfGrows ==
    ASSUME NEW c \in Seq(Frames), NEW f \in Frames, NEW types, f.type \in types
    PROVE  OfIn(Append(c, f), f.key, types) = OfIn(c, f.key, types) \cup {Len(c) + 1}
  <1> DEFINE c2 == Append(c, f)
  <1>1. /\ \A i \in DOMAIN c : i \in DOMAIN c2 /\ c2[i] = c[i]
        /\ \A i \in DOMAIN c2 : i \in DOMAIN c \/ i = Len(c) + 1
        /\ Len(c) + 1 \in DOMAIN c2 /\ c2[Len(c) + 1] = f
    BY AppendFacts
  <1> HIDE DEF c2
  <1>2. OfIn(c2, f.key, types) = OfIn(c, f.key, types) \cup {Len(c) + 1}
    BY <1>1 DEF OfIn
  <1> QED
    BY <1>2 DEF c2

LEMMA OfKept ==
    ASSUME NEW c \in Seq(Frames), NEW f \in Frames, NEW key, NEW types, f.key # key \/ f.type \notin types
    PROVE  OfIn(Append(c, f), key, types) = OfIn(c, key, types)
  <1> DEFINE c2 == Append(c, f)
  <1>1. /\ \A i \in DOMAIN c : i \in DOMAIN c2 /\ c2[i] = c[i]
        /\ \A i \in DOMAIN c2 : i \in DOMAIN c \/ i = Len(c) + 1
        /\ Len(c) + 1 \in DOMAIN c2 /\ c2[Len(c) + 1] = f
    BY AppendFacts
  <1> HIDE DEF c2
  <1>2. OfIn(c2, key, types) = OfIn(c, key, types)
    BY <1>1 DEF OfIn
  <1> QED
    BY <1>2 DEF c2

LEMMA OfPlaces ==
    ASSUME NEW c \in Seq(Frames), NEW key, NEW types
    PROVE  \A i \in OfIn(c, key, types) : i \in Nat /\ i <= Len(c) /\ i \in DOMAIN c
  BY DEF OfIn

Fulls(cl) == \A k \in DOMAIN cl : Len(cl[k].syscalls) = Window

\* A full window ends with one of its syscalls.
LEMMA EndFacts ==
    ASSUME NEW c \in Seq(Frames), NEW cl \in Seq(Record), NEW k \in DOMAIN cl, WindowGood(c, cl, k)
    PROVE  /\ EndIn(c, cl[k]) \in Nat /\ EndIn(c, cl[k]) <= Len(c)
           /\ Len(cl[k].syscalls) = Window => EndIn(c, cl[k]) \in Range(cl[k].syscalls)
           /\ \A i \in Range(cl[k].syscalls) : i <= EndIn(c, cl[k])
  <1>1. cl[k].syscalls \in Seq(Nat) /\ Range(cl[k].syscalls) \subseteq OfIn(c, cl[k].key, {"syscall"})
        /\ Ascends(cl[k].syscalls)
    <2>1. cl[k] \in Record
      OBVIOUS
    <2> QED
      BY <2>1 DEF WindowGood, Record
  <1>2. Window \in Nat \ {0} /\ Len(c) \in Nat
    BY WindowsAssumption
  <1>3. \A i \in Range(cl[k].syscalls) : i \in Nat /\ i <= Len(c)
    BY <1>1, OfPlaces
  <1>4. CASE Len(cl[k].syscalls) = Window
    <2>1. cl[k].syscalls # <<>> /\ EndIn(c, cl[k]) = cl[k].syscalls[Len(cl[k].syscalls)]
      BY <1>2, <1>4 DEF EndIn
    <2>2. EndIn(c, cl[k]) \in Range(cl[k].syscalls) /\ \A i \in Range(cl[k].syscalls) : i <= EndIn(c, cl[k])
      BY <1>1, <2>1, AscendsLast
    <2> QED
      BY <1>3, <2>2
  <1>5. CASE Len(cl[k].syscalls) # Window
    BY <1>2, <1>3, <1>5 DEF EndIn
  <1> QED
    BY <1>4, <1>5

\* While all windows are full, what they have does not depend on later frames.
LEMMA ClosedGrows ==
    ASSUME NEW c \in Seq(Frames), NEW f \in Frames, NEW cl \in Seq(Record),
           ClosedGood(c, cl), Fulls(cl)
    PROVE  ClosedGood(Append(c, f), cl)
  <1> DEFINE c2 == Append(c, f)
             n == Len(c)
  <1>1. n \in Nat /\ \A key, types : /\ OfIn(c, key, types) \subseteq OfIn(c2, key, types)
                                     /\ \A i \in OfIn(c2, key, types) : i \in OfIn(c, key, types) \/ i = n + 1
    <2>1. ASSUME NEW key, NEW types
          PROVE  /\ OfIn(c, key, types) \subseteq OfIn(c2, key, types)
                 /\ \A i \in OfIn(c2, key, types) : i \in OfIn(c, key, types) \/ i = n + 1
      <3>1. CASE f.type \in types /\ f.key = key
        <4>1. OfIn(Append(c, f), f.key, types) = OfIn(c, f.key, types) \cup {Len(c) + 1}
          BY <3>1, OfGrows
        <4> QED
          BY <3>1, <4>1
      <3>2. CASE f.key # key \/ f.type \notin types
        BY <3>2, OfKept
      <3> QED
        BY <3>1, <3>2
    <2>2. n \in Nat
      OBVIOUS
    <2> QED
      BY <2>1, <2>2
  <1>2. \A k \in DOMAIN cl : EndIn(c2, cl[k]) = EndIn(c, cl[k])
    BY DEF EndIn, Fulls
  <1>3. \A k \in DOMAIN cl : EndIn(c, cl[k]) \in Nat /\ EndIn(c, cl[k]) <= n
    BY EndFacts DEF ClosedGood
  <1> HIDE DEF c2, n
  <1>4. ASSUME NEW k \in DOMAIN cl PROVE WindowGood(c2, cl, k)
    <2>1. During(c2, cl, k) = During(c, cl, k)
      <3>1. \A j \in Places(cl, cl[k].key) : EndIn(c2, cl[j]) = EndIn(c, cl[j])
        BY <1>2 DEF Places
      <3>2. \A i \in OfIn(c2, cl[k].key, {"open", "connect"}) :
               i <= EndIn(c, cl[k]) => i \in OfIn(c, cl[k].key, {"open", "connect"})
        BY <1>1, <1>3
      <3> QED
        BY <1>1, <1>2, <3>1, <3>2 DEF During
    <2>2. WindowGood(c, cl, k)
      BY DEF ClosedGood
    <2>3. OfIn(c, cl[k].key, {"syscall"}) \subseteq OfIn(c2, cl[k].key, {"syscall"})
      BY <1>1
    <2> QED
      BY <2>1, <2>2, <2>3 DEF WindowGood
  <1>5. ASSUME NEW key \in Key, NEW i \in Inside(cl, key), NEW r \in Rest(c2, cl, key) PROVE i < r
    <2>1. r \in Rest(c, cl, key) \/ r = n + 1
      BY <1>1 DEF Rest
    <2>2. i \in Nat /\ i <= n
      <3>1. PICK k \in Places(cl, key) : i \in Range(cl[k].syscalls)
        BY DEF Inside
      <3>2. k \in DOMAIN cl /\ i \in OfIn(c, cl[k].key, {"syscall"})
        BY <3>1 DEF Places, ClosedGood, WindowGood
      <3> QED
        BY <3>2, OfPlaces DEF n
    <2>3. r \in Rest(c, cl, key) => i < r
      BY DEF ClosedGood
    <2> QED
      BY <1>1, <2>1, <2>2, <2>3
  <1>6. \A j, k \in DOMAIN cl : PairGood(cl, j, k)
    BY DEF ClosedGood
  <1> QED
    BY <1>4, <1>5, <1>6 DEF ClosedGood, c2

\* What is queued by a frame is what no window has yet.
LEMMA QueueGrows ==
    ASSUME NEW c \in Seq(Frames), NEW f \in Frames, NEW cl \in Seq(Record),
           ClosedGood(c, cl), Fulls(cl), NEW key \in Key,
           NEW q \in Seq(Nat), NEW d \in Seq(Nat), QueueGood(c, cl, key, q, d)
    PROVE  /\ f.type = "syscall" /\ f.key = key => QueueGood(Append(c, f), cl, key, Append(q, Len(c) + 1), d)
           /\ f.type \in {"open", "connect"} /\ f.key = key =>
                 QueueGood(Append(c, f), cl, key, q, Append(d, Len(c) + 1))
           /\ f.key # key \/ f.type \notin {"syscall", "open", "connect"} => QueueGood(Append(c, f), cl, key, q, d)
  <1> DEFINE c2 == Append(c, f)
             n == Len(c)
             types == {"open", "connect"}
  <1>1. n \in Nat
    OBVIOUS
  <1>2. \A k \in DOMAIN cl : EndIn(c2, cl[k]) = EndIn(c, cl[k])
    BY DEF EndIn, Fulls
  <1>3. \A k \in DOMAIN cl : EndIn(c, cl[k]) \in Nat /\ EndIn(c, cl[k]) < n + 1
    BY EndFacts DEF ClosedGood
  <1>4. n + 1 \notin Inside(cl, key)
    <2>1. \A k \in Places(cl, key) : \A i \in Range(cl[k].syscalls) : i \in Nat /\ i <= n
      <3>1. \A k \in Places(cl, key) : Range(cl[k].syscalls) \subseteq OfIn(c, cl[k].key, {"syscall"})
        BY DEF Places, ClosedGood, WindowGood
      <3> QED
        BY <3>1, OfPlaces
    <2>2. ASSUME n + 1 \in Inside(cl, key) PROVE FALSE
      <3>1. PICK k \in Places(cl, key) : n + 1 \in Range(cl[k].syscalls)
        BY <2>2 DEF Inside
      <3> QED
        <4>1. n + 1 \in Nat /\ n + 1 <= n
          BY <2>1, <3>1
        <4> QED
          BY <1>1, <4>1
    <2> QED
      BY <2>2
  <1>5. /\ f.type = "syscall" /\ f.key = key =>
              OfIn(c2, key, {"syscall"}) = OfIn(c, key, {"syscall"}) \cup {n + 1}
        /\ ~ (f.type = "syscall" /\ f.key = key) => OfIn(c2, key, {"syscall"}) = OfIn(c, key, {"syscall"})
        /\ f.type \in types /\ f.key = key => OfIn(c2, key, types) = OfIn(c, key, types) \cup {n + 1}
        /\ ~ (f.type \in types /\ f.key = key) => OfIn(c2, key, types) = OfIn(c, key, types)
    <2>1. ASSUME NEW T
          PROVE  /\ f.type \in T /\ f.key = key => OfIn(c2, key, T) = OfIn(c, key, T) \cup {n + 1}
                 /\ ~ (f.type \in T /\ f.key = key) => OfIn(c2, key, T) = OfIn(c, key, T)
      <3>1. CASE f.type \in T /\ f.key = key
        <4>1. OfIn(Append(c, f), f.key, T) = OfIn(c, f.key, T) \cup {Len(c) + 1}
          BY <3>1, OfGrows
        <4> QED
          BY <3>1, <4>1
      <3>2. CASE f.key # key \/ f.type \notin T
        <4>1. OfIn(Append(c, f), key, T) = OfIn(c, key, T)
          BY <3>2, OfKept
        <4> QED
          BY <3>2, <4>1
      <3> QED
        BY <3>1, <3>2
    <2>2. /\ f.type \in {"syscall"} /\ f.key = key =>
                OfIn(c2, key, {"syscall"}) = OfIn(c, key, {"syscall"}) \cup {n + 1}
          /\ ~ (f.type \in {"syscall"} /\ f.key = key) => OfIn(c2, key, {"syscall"}) = OfIn(c, key, {"syscall"})
      BY <2>1
    <2>3. f.type \in {"syscall"} <=> f.type = "syscall"
      OBVIOUS
    <2> HIDE DEF types, c2
    <2> QED
      BY <2>1, <2>2, <2>3
  <1> HIDE DEF c2, n, types
  <1>6. /\ f.type = "syscall" /\ f.key = key => Rest(c2, cl, key) = Rest(c, cl, key) \cup {n + 1}
        /\ ~ (f.type = "syscall" /\ f.key = key) => Rest(c2, cl, key) = Rest(c, cl, key)
    BY <1>4, <1>5 DEF Rest
  <1>7. /\ f.type \in types /\ f.key = key => Afterwards(c2, cl, key) = Afterwards(c, cl, key) \cup {n + 1}
        /\ ~ (f.type \in types /\ f.key = key) => Afterwards(c2, cl, key) = Afterwards(c, cl, key)
    <2>1. \A k \in Places(cl, key) : EndIn(c2, cl[k]) = EndIn(c, cl[k]) /\ EndIn(c, cl[k]) < n + 1
      BY <1>2, <1>3 DEF Places
    <2> QED
      BY <1>5, <2>1 DEF Afterwards, types
  <1>8. /\ \A i \in Range(q) : i < n + 1
        /\ \A i \in Range(d) : i < n + 1
    <2>1. Range(q) \subseteq OfIn(c, key, {"syscall"}) /\ Range(d) \subseteq OfIn(c, key, {"open", "connect"})
      BY DEF QueueGood, Rest, Afterwards
    <2> QED
      BY <2>1, OfPlaces DEF n
  <1>9. n + 1 \in Nat
    BY <1>1
  <1>10. /\ Ascends(Append(q, n + 1)) /\ Range(Append(q, n + 1)) = Range(q) \cup {n + 1}
         /\ Ascends(Append(d, n + 1)) /\ Range(Append(d, n + 1)) = Range(d) \cup {n + 1}
    <2> DEFINE m == n + 1
    <2>1. m \in Nat /\ (\A i \in Range(q) : i < m) /\ (\A i \in Range(d) : i < m)
      BY <1>8, <1>9
    <2> HIDE DEF m
    <2>2. /\ Ascends(Append(q, m)) /\ Range(Append(q, m)) = Range(q) \cup {m}
          /\ Ascends(Append(d, m)) /\ Range(Append(d, m)) = Range(d) \cup {m}
      <3>1. Ascends(q) /\ Ascends(d)
        BY DEF QueueGood
      <3>2. Ascends(Append(q, m)) /\ Ascends(Append(d, m))
        BY <2>1, <3>1, AscendsAppend
      <3>3. Range(Append(q, m)) = Range(q) \cup {m} /\ Range(Append(d, m)) = Range(d) \cup {m}
        BY <2>1, AppendFacts
      <3> QED
        BY <3>2, <3>3
    <2> QED
      BY <2>2 DEF m
  <1>11. CASE f.type = "syscall" /\ f.key = key
    <2>1. f.type \notin types
      BY <1>11 DEF types
    <2>2. QueueGood(c2, cl, key, Append(q, n + 1), d)
      BY <1>6, <1>7, <1>10, <1>11, <2>1 DEF QueueGood
    <2> QED
      BY <1>11, <2>1, <2>2 DEF types, c2, n
  <1>12. CASE f.type \in types /\ f.key = key
    <2>1. f.type # "syscall"
      BY <1>12 DEF types
    <2>2. QueueGood(c2, cl, key, q, Append(d, n + 1))
      BY <1>6, <1>7, <1>10, <1>12, <2>1 DEF QueueGood
    <2> QED
      BY <1>12, <2>1, <2>2 DEF types, c2, n
  <1>13. CASE f.key # key \/ f.type \notin {"syscall", "open", "connect"}
    <2>1. ~ (f.type = "syscall" /\ f.key = key) /\ ~ (f.type \in types /\ f.key = key)
      BY <1>13 DEF types
    <2>2. QueueGood(c2, cl, key, q, d)
      BY <1>6, <1>7, <2>1 DEF QueueGood
    <2> QED
      BY <1>13, <2>2 DEF c2
  <1> QED
    BY <1>11, <1>12, <1>13 DEF types

\* A queue long enough becomes a window, which has all that was queued.
LEMMA Closes ==
    ASSUME NEW c \in Seq(Frames), NEW cl \in Seq(Record), ClosedGood(c, cl), NEW rec \in Record,
           QueueGood(c, cl, rec.key, rec.syscalls, rec.details), rec.unit = UnitOf(rec.key),
           Len(rec.syscalls) \in opt.min_len .. Window,
           Len(rec.syscalls) = Window => rec.syscalls[Window] = Len(c)
    PROVE  /\ ClosedGood(c, Append(cl, rec))
           /\ QueueGood(c, Append(cl, rec), rec.key, <<>>, <<>>) \/ Len(rec.syscalls) # Window
           /\ Rest(c, Append(cl, rec), rec.key) = {}
           /\ \A x \in Key \ {rec.key} : /\ Rest(c, Append(cl, rec), x) = Rest(c, cl, x)
                                         /\ Afterwards(c, Append(cl, rec), x) = Afterwards(c, cl, x)
                                         /\ AllFull(cl, x) => AllFull(Append(cl, rec), x)
  <1> DEFINE key == rec.key
             q == rec.syscalls
             d == rec.details
  <1>0. /\ key \in Key /\ q \in Seq(Nat) /\ d \in Seq(Nat)
        /\ rec.key = key /\ rec.unit = UnitOf(key) /\ rec.syscalls = q /\ rec.details = d
        /\ QueueGood(c, cl, key, q, d) /\ Len(q) \in opt.min_len .. Window
        /\ Len(q) = Window => q[Window] = Len(c)
    BY DEF Record
  <1> USE <1>0
  <1> HIDE DEF key, q, d
  <1> DEFINE cl2 == Append(cl, rec)
             m == Len(cl) + 1
  <1>1. /\ DOMAIN cl2 = 1 .. m /\ DOMAIN cl = 1 .. m - 1 /\ m \in Nat \ {0} /\ cl2[m] = rec
        /\ m \in DOMAIN cl2 /\ m \notin DOMAIN cl
        /\ \A k \in DOMAIN cl : k \in DOMAIN cl2 /\ cl2[k] = cl[k] /\ k < m /\ k \in Nat
        /\ \A k \in DOMAIN cl2 : k \in DOMAIN cl \/ k = m
    <2>1. m \in Nat \ {0} /\ DOMAIN cl = 1 .. Len(cl) /\ Len(cl) \in Nat
      OBVIOUS
    <2> QED
      BY <2>1, AppendFacts
  <1> HIDE DEF cl2, m
  <1>2. /\ Places(cl2, key) = Places(cl, key) \cup {m}
        /\ \A x \in Key \ {key} : Places(cl2, x) = Places(cl, x)
    BY <1>1 DEF Places
  <1>3. /\ Inside(cl2, key) = Inside(cl, key) \cup Range(q)
        /\ \A x \in Key \ {key} : Inside(cl2, x) = Inside(cl, x)
    <2>1. \A x : \A k \in Places(cl, x) : cl2[k].syscalls = cl[k].syscalls
      BY <1>1 DEF Places
    <2>2. \A x \in Key \ {key} : Inside(cl2, x) = Inside(cl, x)
      BY <1>2, <2>1 DEF Inside
    <2>3. ASSUME NEW i \in Inside(cl2, key) PROVE i \in Inside(cl, key) \cup Range(q)
      <3>1. PICK k \in Places(cl2, key) : i \in Range(cl2[k].syscalls)
        BY DEF Inside
      <3> QED
        BY <1>1, <1>2, <2>1, <3>1 DEF Inside
    <2>4. ASSUME NEW i \in Inside(cl, key) PROVE i \in Inside(cl2, key)
      <3>1. PICK k \in Places(cl, key) : i \in Range(cl[k].syscalls)
        BY DEF Inside
      <3> QED
        BY <1>2, <2>1, <3>1 DEF Inside
    <2>5. ASSUME NEW i \in Range(q) PROVE i \in Inside(cl2, key)
      BY <1>1, <1>2 DEF Inside
    <2> QED
      BY <2>2, <2>3, <2>4, <2>5
  <1>4. /\ Rest(c, cl2, key) = {}
        /\ \A x \in Key \ {key} : Rest(c, cl2, x) = Rest(c, cl, x)
    <2>1. Range(q) = Rest(c, cl, key)
      BY DEF QueueGood
    <2> QED
      BY <1>3, <2>1 DEF Rest
  <1>5. EndIn(c, cl2[m]) = Len(c) /\ \A k \in DOMAIN cl : EndIn(c, cl2[k]) = EndIn(c, cl[k])
    BY <1>1 DEF EndIn
  <1>6. ASSUME NEW k \in DOMAIN cl PROVE During(c, cl2, k) = During(c, cl, k)
    <2>1. cl2[k].key \in Key /\ cl2[k] = cl[k]
      <3>1. cl[k] \in Record
        OBVIOUS
      <3> QED
        BY <1>1, <3>1 DEF Record
    <2>2. \A j : j \in Places(cl2, cl[k].key) /\ j < k <=> j \in Places(cl, cl[k].key) /\ j < k
      <3>1. ~ m < k
        BY <1>1
      <3> QED
        BY <1>2, <2>1, <3>1
    <2>3. \A j \in Places(cl, cl[k].key) : EndIn(c, cl2[j]) = EndIn(c, cl[j])
      BY <1>5 DEF Places
    <2> QED
      BY <2>1, <2>2, <2>3 DEF During
  <1>7. ASSUME NEW k \in DOMAIN cl PROVE WindowGood(c, cl2, k)
    <2>1. WindowGood(c, cl, k)
      BY DEF ClosedGood
    <2> QED
      BY <1>1, <1>6, <2>1 DEF WindowGood
  <1>8. WindowGood(c, cl2, m)
    <2>1. \A j \in Places(cl, key) : j < m /\ EndIn(c, cl2[j]) = EndIn(c, cl[j]) /\ j \in DOMAIN cl
      BY <1>1, <1>5 DEF Places
    <2>2. ~ m < m
      BY <1>1
    <2>3. \A i \in OfIn(c, key, {"open", "connect"}) : i <= Len(c)
      BY OfPlaces
    <2>4. During(c, cl2, m) = Afterwards(c, cl, key)
      BY <1>1, <1>2, <1>5, <2>1, <2>2, <2>3 DEF During, Afterwards
    <2>5. Range(q) \subseteq OfIn(c, key, {"syscall"}) /\ Ascends(q) /\ Ascends(d)
          /\ Range(d) = Afterwards(c, cl, key)
      BY DEF QueueGood, Rest
    <2> QED
      BY <1>1, <2>4, <2>5 DEF WindowGood
  <1>9. ASSUME NEW j \in DOMAIN cl2, NEW k \in DOMAIN cl2 PROVE PairGood(cl2, j, k)
    <2>1. CASE j \in DOMAIN cl /\ k \in DOMAIN cl
      <3>1. PairGood(cl, j, k)
        BY <2>1 DEF ClosedGood
      <3> QED
        BY <1>1, <2>1, <3>1 DEF PairGood
    <2>2. CASE j \in DOMAIN cl /\ k = m
      <3>1. SUFFICES ASSUME cl[j].key = key
                     PROVE  /\ Len(cl[j].syscalls) = Window
                            /\ \A x \in Range(cl[j].syscalls), y \in Range(q) : x < y
        BY <1>1, <2>2 DEF PairGood
      <3>2. j \in Places(cl, key)
        BY <2>2, <3>1 DEF Places
      <3>3. Len(cl[j].syscalls) = Window
        BY <3>2 DEF QueueGood, AllFull
      <3>4. Range(cl[j].syscalls) \subseteq Inside(cl, key) /\ Range(q) = Rest(c, cl, key)
        BY <3>2 DEF Inside, QueueGood
      <3> QED
        BY <3>3, <3>4 DEF ClosedGood
    <2>3. CASE j = m
      <3>1. ~ j < k
        BY <1>1, <2>3
      <3> QED
        BY <3>1 DEF PairGood
    <2> QED
      BY <1>1, <2>1, <2>2, <2>3
  <1>10. ClosedGood(c, cl2)
    <2>1. \A x \in Key : \A i \in Inside(cl2, x), r \in Rest(c, cl2, x) : i < r
      BY <1>3, <1>4 DEF ClosedGood
    <2> QED
      BY <1>1, <1>7, <1>8, <1>9, <2>1 DEF ClosedGood
  <1>11. ASSUME NEW x \in Key \ {key}
         PROVE  /\ Afterwards(c, cl2, x) = Afterwards(c, cl, x)
                /\ AllFull(cl, x) => AllFull(cl2, x)
    <2>1. Places(cl2, x) = Places(cl, x)
      BY <1>2
    <2>2. \A j \in Places(cl, x) : EndIn(c, cl2[j]) = EndIn(c, cl[j]) /\ cl2[j] = cl[j]
      BY <1>1, <1>5 DEF Places
    <2> QED
      BY <2>1, <2>2 DEF Afterwards, AllFull
  <1>12. ASSUME Len(q) = Window PROVE QueueGood(c, cl2, key, <<>>, <<>>)
    <2>1. Afterwards(c, cl2, key) = {}
      <3>1. \A i \in OfIn(c, key, {"open", "connect"}) : i \in Nat /\ i <= Len(c)
        BY OfPlaces
      <3>2. Len(c) \in Nat /\ m \in Places(cl2, key)
        BY <1>2
      <3>3. \A i \in OfIn(c, key, {"open", "connect"}) : ~ (EndIn(c, cl2[m]) < i)
        BY <1>5, <3>1, <3>2
      <3> QED
        BY <3>2, <3>3 DEF Afterwards
    <2>2. AllFull(cl2, key)
      <3>1. AllFull(cl, key)
        BY DEF QueueGood
      <3>2. \A j \in Places(cl, key) : cl2[j] = cl[j]
        BY <1>1 DEF Places
      <3> QED
        BY <1>1, <1>2, <1>12, <3>1, <3>2 DEF AllFull
    <2> QED
      BY <1>4, <2>1, <2>2, AscendsEmpty DEF QueueGood
  <1> QED
    BY <1>4, <1>10, <1>11, <1>12 DEF cl2, key, q, d

\* The unit of a window is the one of the interval around the start of its process.
LEMMA UnitFacts ==
    ASSUME opt \in Options, NEW ts \in Nat
    PROVE  /\ label_of(ts) \in Units(opt) \cup {NoUnit}
           /\ LET around == {i \in DOMAIN opt.tl : opt.tl[i].start <= ts /\ ts <= opt.tl[i].end}
              IN IF around = {} THEN label_of(ts) = NoUnit
                 ELSE \E i \in around : label_of(ts) = opt.tl[i].unit
  <1> DEFINE tl == opt.tl
             begun == {k \in DOMAIN tl : tl[k].start <= ts}
             n == Cardinality(begun)
             around == {i \in DOMAIN tl : tl[i].start <= ts /\ ts <= tl[i].end}
  <1>1. /\ tl \in Seq(Range(tl))
        /\ \A j \in DOMAIN tl : tl[j].start \in Nat /\ tl[j].end \in Nat /\ tl[j].start <= tl[j].end
        /\ \A j, k \in DOMAIN tl : j < k => tl[j].end <= tl[k].start
    BY TimelineAssumption
  <1>2. DOMAIN tl = 1 .. Len(tl) /\ Len(tl) \in Nat
    BY <1>1
  <1> HIDE DEF tl
  <1>3. \A j, k \in DOMAIN tl : j <= k /\ k \in begun => j \in begun
    <2> SUFFICES ASSUME NEW j \in DOMAIN tl, NEW k \in DOMAIN tl, j <= k, k \in begun PROVE j \in begun
      OBVIOUS
    <2>1. j = k \/ j < k
      BY <1>2
    <2> QED
      BY <1>1, <2>1
  <1>4. PICK m \in 0 .. Len(tl) : begun = 1 .. m
    <2>1. CASE begun = {}
      <3>1. 1 .. 0 = {}
        OBVIOUS
      <3> QED
        BY <1>2, <2>1, <3>1
    <2>2. CASE begun # {}
      <3>1. begun \subseteq 1 .. Len(tl) /\ begun \subseteq Nat
        BY <1>2
      <3> DEFINE above == {Len(tl) - k : k \in begun}
      <3>2. above \subseteq Nat /\ above # {}
        BY <1>2, <2>2, <3>1
      <3> HIDE DEF above
      <3>3. PICK x \in above : \A y \in above : x <= y
        BY <3>2, Minimum
      <3>4. PICK m \in begun : x = Len(tl) - m
        BY <3>3 DEF above
      <3>5. \A k \in begun : Len(tl) - k \in above
        BY DEF above
      <3> HIDE DEF begun
      <3>6. \A k \in begun : k <= m
        BY <1>2, <3>1, <3>3, <3>4, <3>5
      <3>7. begun = 1 .. m
        <4>1. m \in 1 .. Len(tl)
          BY <3>1, <3>4
        <4>2. ASSUME NEW k \in begun PROVE k \in 1 .. m
          BY <1>2, <3>1, <3>6, <4>1
        <4>3. ASSUME NEW k \in 1 .. m PROVE k \in begun
          <5>1. k \in DOMAIN tl /\ m \in DOMAIN tl /\ k <= m
            BY <1>2, <4>1
          <5> QED
            BY <1>3, <3>4, <5>1
        <4> QED
          BY <4>2, <4>3
      <3> QED
        BY <3>1, <3>4, <3>7
    <2> QED
      BY <2>1, <2>2
  <1>5. n = m
    <2> HIDE DEF begun
    <2>1. m \in Int /\ 1 \in Int /\ m \in Nat
      BY <1>2
    <2>2. Cardinality(1 .. m) = m
      BY <2>1, FS_Interval
    <2> QED
      BY <1>4, <2>2
  <1>6. label_of(ts) = IF n = 0 \/ ts > tl[n].end THEN NoUnit ELSE tl[n].unit
    BY DEF label_of, tl
  <1>7. Units(opt) = {Given} \cup {tl[k].unit : k \in DOMAIN tl}
    BY DEF Units, tl
  <1>8. \A k \in DOMAIN tl : k \in begun <=> k <= m
    <2> HIDE DEF begun
    <2> QED
      BY <1>2, <1>4
  <1> HIDE DEF n
  <1>9. label_of(ts) \in Units(opt) \cup {NoUnit}
    <2>1. CASE m = 0
      BY <1>5, <1>6, <2>1
    <2>2. CASE m # 0
      <3>1. m \in DOMAIN tl
        BY <1>2, <2>2
      <3> QED
        BY <1>5, <1>6, <1>7, <3>1
    <2> QED
      BY <2>1, <2>2
  <1>10. IF around = {} THEN label_of(ts) = NoUnit ELSE \E i \in around : label_of(ts) = tl[i].unit
    <2>1. CASE m = 0
      <3>1. around = {}
        BY <1>2, <1>8, <2>1
      <3> QED
        BY <1>5, <1>6, <2>1, <3>1
    <2>2. CASE m # 0 /\ ts > tl[m].end
      <3>1. m \in DOMAIN tl
        BY <1>2, <2>2
      <3>2. ASSUME NEW i \in around PROVE FALSE
        <4>1. i <= m /\ i \in DOMAIN tl /\ ts <= tl[i].end
          BY <1>8
        <4>2. i = m \/ i < m
          BY <1>2, <4>1
        <4> QED
          BY <1>1, <2>2, <3>1, <4>1, <4>2
      <3> QED
        BY <1>5, <1>6, <2>2, <3>2
    <2>3. CASE m # 0 /\ ~ (ts > tl[m].end)
      <3>1. m \in DOMAIN tl
        BY <1>2, <2>3
      <3>2. m \in around
        BY <1>1, <1>8, <2>3, <3>1
      <3> QED
        BY <1>5, <1>6, <2>3, <3>2
    <2> QED
      BY <2>1, <2>2, <2>3
  <1> QED
    BY <1>9, <1>10 DEF tl

-----------------------------------------------------------------------------
(* What flush may leave.                                                   *)

StateOK(s) ==
    s \in [sysq : [Key -> Seq(Nat)], details : [Key -> Seq(Nat)],
           samples : [Units(opt) -> Seq(Record)], seen_u : [Units(opt) -> Nat],
           lines : Seq(Record), written : Nat, closed : Seq(Record)]

SamplesFit(s) == \A u \in Units(opt) : Len(s.samples[u]) <= opt.cap

Closing(s, key) ==
    [key |-> key, unit |-> UnitOf(key), syscalls |-> s.sysq[key], details |-> s.details[key]]

\* s and t differ in the reservoir of unit u, which met rec as one of n + 1 records.
Met(s, t, u, n, rec) ==
    \E j \in 0 .. n : t.samples = [s.samples EXCEPT ![u] = Sampled(s.samples[u], opt.cap, rec, j)]

Records(s, t, rec) ==
    /\ t.written = s.written + 1
    /\ opt.mode \in {"slim", "all"} =>
          t.lines = Append(s.lines, rec) /\ t.samples = s.samples /\ t.seen_u = s.seen_u
    /\ opt.mode = "max_per_unit" =>
          /\ t.lines = s.lines /\ Met(s, t, rec.unit, s.seen_u[rec.unit], rec)
          /\ t.seen_u = [s.seen_u EXCEPT ![rec.unit] = s.seen_u[rec.unit] + 1]
    /\ opt.mode = "max_records" =>
          t.lines = s.lines /\ Met(s, t, Given, s.written, rec) /\ t.seen_u = s.seen_u

Ignores(s, t) ==
    t.written = s.written /\ t.lines = s.lines /\ t.samples = s.samples /\ t.seen_u = s.seen_u

Cuts(s, t, key) ==
    /\ Len(s.sysq[key]) >= opt.min_len
    /\ t.sysq = [s.sysq EXCEPT ![key] = <<>>] /\ t.details = [s.details EXCEPT ![key] = <<>>]
    /\ t.closed = Append(s.closed, Closing(s, key))
    /\ UnitOf(key) = NoUnit => Ignores(s, t)
    /\ UnitOf(key) # NoUnit => Records(s, t, Closing(s, key))

Drops(s, t, key) ==
    /\ Len(s.sysq[key]) < opt.min_len
    /\ t.sysq = [s.sysq EXCEPT ![key] = <<>>] /\ t.details = [s.details EXCEPT ![key] = <<>>]
    /\ t.closed = s.closed /\ Ignores(s, t)

LEMMA SampledFacts ==
    ASSUME NEW S, NEW res \in Seq(S), NEW limit \in Nat, Len(res) <= limit, NEW rec \in S, NEW j \in Nat
    PROVE  /\ Sampled(res, limit, rec, j) \in Seq(S) /\ Len(Sampled(res, limit, rec, j)) <= limit
           /\ Range(Sampled(res, limit, rec, j)) \subseteq Range(res) \cup {rec}
  <1>1. CASE Len(res) < limit
    <2>1. Sampled(res, limit, rec, j) = Append(res, rec)
      BY <1>1 DEF Sampled
    <2>2. Append(res, rec) \in Seq(S) /\ Len(Append(res, rec)) <= limit
      BY <1>1
    <2>3. Range(Append(res, rec)) = Range(res) \cup {rec}
      BY AppendFacts
    <2> QED
      BY <2>1, <2>2, <2>3
  <1>2. CASE ~ (Len(res) < limit) /\ j < limit
    <2> DEFINE new == [res EXCEPT ![j + 1] = rec]
    <2>1. Sampled(res, limit, rec, j) = new
      BY <1>2 DEF Sampled
    <2>2. DOMAIN new = DOMAIN res /\ DOMAIN res = 1 .. Len(res) /\ Len(res) \in Nat
      OBVIOUS
    <2>3. \A k \in DOMAIN res : new[k] \in S /\ (new[k] = rec \/ new[k] = res[k])
      OBVIOUS
    <2>4. new \in [1 .. Len(res) -> S]
      BY <2>2, <2>3
    <2>5. new \in Seq(S) /\ Len(new) = Len(res)
      BY <2>2, <2>4
    <2>6. Range(new) \subseteq Range(res) \cup {rec}
      <3> HIDE DEF new
      <3> QED
        BY <2>2, <2>3 DEF Range
    <2> QED
      BY <2>1, <2>5, <2>6
  <1>3. CASE ~ (Len(res) < limit) /\ ~ (j < limit)
    BY <1>3 DEF Sampled
  <1> QED
    BY <1>1, <1>2, <1>3

LEMMA UnitOfType ==
    ASSUME opt \in Options, NEW key \in Key
    PROVE  UnitOf(key) \in Units(opt) \cup {NoUnit} /\ Given \in Units(opt) /\ NoUnit \notin Units(opt)
  <1>1. key.start \in Nat
    BY WindowsAssumption
  <1>2. label_of(key.start) \in Units(opt) \cup {NoUnit}
    BY <1>1, UnitFacts
  <1>3. Given \in Units(opt)
    BY DEF Units
  <1> QED
    BY <1>2, <1>3, WindowsAssumption DEF UnitOf

LEMMA MetFacts ==
    ASSUME opt \in Options, NEW s, StateOK(s), SamplesFit(s), NEW u \in Units(opt), NEW rec \in Record,
           NEW j \in Nat
    PROVE  LET samples == [s.samples EXCEPT ![u] = Sampled(s.samples[u], opt.cap, rec, j)]
           IN /\ samples \in [Units(opt) -> Seq(Record)]
              /\ \A v \in Units(opt) : Len(samples[v]) <= opt.cap
              /\ \A v \in Units(opt) : Range(samples[v]) \subseteq Range(s.samples[v]) \cup {rec}
  <1>1. s.samples \in [Units(opt) -> Seq(Record)] /\ opt.cap \in Nat
    BY WindowsAssumption DEF StateOK
  <1> DEFINE res == s.samples[u]
             limit == opt.cap
             new == Sampled(res, limit, rec, j)
  <1>2. res \in Seq(Record) /\ limit \in Nat /\ Len(res) <= limit
    BY <1>1 DEF SamplesFit
  <1> HIDE DEF res, limit
  <1>3. new \in Seq(Record) /\ Len(new) <= limit /\ Range(new) \subseteq Range(res) \cup {rec}
    BY <1>2, SampledFacts
  <1> HIDE DEF new
  <1> DEFINE samples == [s.samples EXCEPT ![u] = new]
  <1>4. /\ samples \in [Units(opt) -> Seq(Record)] /\ samples[u] = new
        /\ \A v \in Units(opt) : v # u => samples[v] = s.samples[v]
    BY <1>1, <1>3
  <1> HIDE DEF samples
  <1>5. ASSUME NEW v \in Units(opt)
        PROVE  Len(samples[v]) <= limit /\ Range(samples[v]) \subseteq Range(s.samples[v]) \cup {rec}
    <2>1. CASE v = u
      BY <1>3, <1>4, <2>1 DEF res
    <2>2. CASE v # u
      BY <1>4, <2>2 DEF SamplesFit, limit
    <2> QED
      BY <2>1, <2>2
  <1> QED
    BY <1>4, <1>5 DEF samples, new, res, limit

LEMMA KeptFacts ==
    ASSUME opt \in Options, NEW s, StateOK(s), SamplesFit(s), NEW rec \in Record, rec.unit \in Units(opt),
           NEW t \in {[x EXCEPT !.written = @ + 1] : x \in Kept(s, rec)}
    PROVE  /\ StateOK(t) /\ SamplesFit(t) /\ Records(s, t, rec)
           /\ t.sysq = s.sysq /\ t.details = s.details /\ t.closed = s.closed
           /\ \A u \in Units(opt) : Range(t.samples[u]) \subseteq Range(s.samples[u]) \cup {rec}
  <1>1. /\ s.sysq \in [Key -> Seq(Nat)] /\ s.details \in [Key -> Seq(Nat)]
        /\ s.samples \in [Units(opt) -> Seq(Record)] /\ s.seen_u \in [Units(opt) -> Nat]
        /\ s.lines \in Seq(Record) /\ s.written \in Nat /\ s.closed \in Seq(Record)
        /\ s = [sysq |-> s.sysq, details |-> s.details, samples |-> s.samples, seen_u |-> s.seen_u,
                lines |-> s.lines, written |-> s.written, closed |-> s.closed]
    BY DEF StateOK
  <1>2. opt.mode \in {"slim", "all", "max_per_unit", "max_records"} /\ Given \in Units(opt)
    BY WindowsAssumption DEF Units
  <1>3. CASE opt.mode \in {"slim", "all"}
    <2>1. opt.mode # "max_per_unit" /\ opt.mode # "max_records"
      BY <1>3
    <2>2. Kept(s, rec) = {[s EXCEPT !.lines = Append(@, rec)]}
      BY <1>3, <2>1 DEF Kept
    <2>3. t = [[s EXCEPT !.lines = Append(@, rec)] EXCEPT !.written = @ + 1]
      BY <2>2
    <2> DEFINE more == Append(s.lines, rec)
    <2>4. more \in Seq(Record)
      BY <1>1
    <2> HIDE DEF more
    <2>5. t = [sysq |-> s.sysq, details |-> s.details, samples |-> s.samples, seen_u |-> s.seen_u,
               lines |-> more, written |-> s.written + 1, closed |-> s.closed]
      BY <1>1, <2>3 DEF more
    <2>6. StateOK(t)
      BY <1>1, <2>4, <2>5 DEF StateOK
    <2>7. SamplesFit(t)
      BY <2>5 DEF SamplesFit
    <2>8. Records(s, t, rec)
      BY <1>3, <2>1, <2>5 DEF Records, more
    <2> QED
      BY <2>5, <2>6, <2>7, <2>8
  <1>4. CASE opt.mode = "max_per_unit"
    <2> DEFINE u == rec.unit
    <2>1. Kept(s, rec) = {[s EXCEPT !.seen_u[u] = @ + 1, !.samples[u] = Sampled(@, opt.cap, rec, j)] :
                             j \in randrange(s.seen_u[u] + 1)}
      BY <1>4 DEF Kept
    <2>2. PICK j \in randrange(s.seen_u[u] + 1) :
             t = [[s EXCEPT !.seen_u[u] = @ + 1, !.samples[u] = Sampled(@, opt.cap, rec, j)]
                     EXCEPT !.written = @ + 1]
      <3>1. PICK x \in Kept(s, rec) : t = [x EXCEPT !.written = @ + 1]
        OBVIOUS
      <3>2. PICK j \in randrange(s.seen_u[u] + 1) :
               x = [s EXCEPT !.seen_u[u] = @ + 1, !.samples[u] = Sampled(@, opt.cap, rec, j)]
        BY <2>1, <3>1
      <3> QED
        BY <3>1, <3>2, Zenon
    <2>3. j \in 0 .. s.seen_u[u] /\ j \in Nat
      <3>1. s.seen_u[u] \in Nat
        BY <1>1
      <3> QED
        BY <3>1 DEF randrange
    <2> DEFINE samples == [s.samples EXCEPT ![u] = Sampled(s.samples[u], opt.cap, rec, j)]
               seen == [s.seen_u EXCEPT ![u] = s.seen_u[u] + 1]
    <2>4. /\ samples \in [Units(opt) -> Seq(Record)]
          /\ \A v \in Units(opt) : Len(samples[v]) <= opt.cap
          /\ \A v \in Units(opt) : Range(samples[v]) \subseteq Range(s.samples[v]) \cup {rec}
      BY <2>3, MetFacts
    <2>5. seen \in [Units(opt) -> Nat]
      BY <1>1
    <2>6. t = [sysq |-> s.sysq, details |-> s.details, samples |-> samples, seen_u |-> seen,
               lines |-> s.lines, written |-> s.written + 1, closed |-> s.closed]
      BY <1>1, <2>2
    <2>7. Met(s, t, u, s.seen_u[u], rec)
      BY <2>3, <2>6 DEF Met
    <2>8. t.seen_u = [s.seen_u EXCEPT ![u] = s.seen_u[u] + 1]
      BY <2>6
    <2> HIDE DEF samples, seen
    <2>9. StateOK(t)
      BY <1>1, <2>4, <2>5, <2>6 DEF StateOK
    <2>10. SamplesFit(t)
      BY <2>4, <2>6 DEF SamplesFit
    <2>11. Records(s, t, rec)
      BY <1>4, <2>6, <2>7, <2>8 DEF Records
    <2> QED
      BY <2>4, <2>6, <2>9, <2>10, <2>11
  <1>5. CASE opt.mode = "max_records"
    <2>1. Kept(s, rec) = {[s EXCEPT !.samples[Given] = Sampled(@, opt.cap, rec, j)] :
                             j \in randrange(s.written + 1)}
      BY <1>5 DEF Kept
    <2>2. PICK j \in randrange(s.written + 1) :
             t = [[s EXCEPT !.samples[Given] = Sampled(@, opt.cap, rec, j)] EXCEPT !.written = @ + 1]
      BY <2>1
    <2>3. j \in 0 .. s.written /\ j \in Nat
      BY <1>1 DEF randrange
    <2> DEFINE samples == [s.samples EXCEPT ![Given] = Sampled(s.samples[Given], opt.cap, rec, j)]
    <2>4. /\ samples \in [Units(opt) -> Seq(Record)]
          /\ \A v \in Units(opt) : Len(samples[v]) <= opt.cap
          /\ \A v \in Units(opt) : Range(samples[v]) \subseteq Range(s.samples[v]) \cup {rec}
      BY <1>2, <2>3, MetFacts
    <2>6. t = [sysq |-> s.sysq, details |-> s.details, samples |-> samples, seen_u |-> s.seen_u,
               lines |-> s.lines, written |-> s.written + 1, closed |-> s.closed]
      BY <1>1, <2>2
    <2>7. Met(s, t, Given, s.written, rec)
      BY <2>3, <2>6 DEF Met
    <2> HIDE DEF samples
    <2>9. StateOK(t)
      BY <1>1, <2>4, <2>6 DEF StateOK
    <2>10. SamplesFit(t)
      BY <2>4, <2>6 DEF SamplesFit
    <2>11. Records(s, t, rec)
      BY <1>5, <2>6, <2>7 DEF Records
    <2> QED
      BY <2>4, <2>6, <2>9, <2>10, <2>11
  <1> QED
    BY <1>2, <1>3, <1>4, <1>5

StateOf(sysq, details, samples, seen_u, lines, written, closed) ==
    [sysq |-> sysq, details |-> details, samples |-> samples, seen_u |-> seen_u,
     lines |-> lines, written |-> written, closed |-> closed]

LEMMA EmptiedFacts ==
    ASSUME NEW s, NEW a, NEW b, NEW c, NEW d, NEW e, NEW f, NEW g, s = StateOf(a, b, c, d, e, f, g), NEW key
    PROVE  Emptied(s, key) = StateOf([a EXCEPT ![key] = <<>>], [b EXCEPT ![key] = <<>>], c, d, e, f, g)
  <1> DEFINE x == [a EXCEPT ![key] = <<>>]
             y == [b EXCEPT ![key] = <<>>]
  <1>1. Emptied(s, key) = [s EXCEPT !.sysq = x, !.details = y]
    BY DEF Emptied, StateOf
  <1> HIDE DEF x, y
  <1>2. [s EXCEPT !.sysq = x, !.details = y] = StateOf(x, y, c, d, e, f, g)
    <2>1. [s EXCEPT !.sysq = x] = StateOf(x, b, c, d, e, f, g)
      BY DEF StateOf
    <2>2. [StateOf(x, b, c, d, e, f, g) EXCEPT !.details = y] = StateOf(x, y, c, d, e, f, g)
      BY DEF StateOf
    <2>3. [s EXCEPT !.sysq = x, !.details = y] = [[s EXCEPT !.sysq = x] EXCEPT !.details = y]
      BY DEF StateOf
    <2> QED
      BY <2>1, <2>2, <2>3
  <1> QED
    BY <1>1, <1>2 DEF x, y

LEMMA FlushFacts ==
    ASSUME opt \in Options, NEW s, StateOK(s), SamplesFit(s), NEW key \in Key, NEW force \in BOOLEAN,
           NEW t \in flush(s, key, force)
    PROVE  /\ StateOK(t) /\ SamplesFit(t)
           /\ Cuts(s, t, key) \/ (force /\ Drops(s, t, key))
                \/ (~force /\ t = s /\ Len(s.sysq[key]) < opt.min_len)
           /\ \A u \in Units(opt) : Range(t.samples[u]) \subseteq Range(s.samples[u]) \cup {Closing(s, key)}
  <1>1. /\ s.sysq \in [Key -> Seq(Nat)] /\ s.details \in [Key -> Seq(Nat)]
        /\ s.samples \in [Units(opt) -> Seq(Record)] /\ s.seen_u \in [Units(opt) -> Nat]
        /\ s.lines \in Seq(Record) /\ s.written \in Nat /\ s.closed \in Seq(Record)
        /\ s = [sysq |-> s.sysq, details |-> s.details, samples |-> s.samples, seen_u |-> s.seen_u,
                lines |-> s.lines, written |-> s.written, closed |-> s.closed]
    BY DEF StateOK
  <1> DEFINE seq == s.sysq[key]
             rec == Closing(s, key)
             e == Emptied(s, key)
             closed == [e EXCEPT !.closed = Append(@, rec)]
             sysq == [s.sysq EXCEPT ![key] = <<>>]
             details == [s.details EXCEPT ![key] = <<>>]
             windows == Append(s.closed, rec)
  <1>2. rec \in Record /\ rec.unit = UnitOf(key)
    BY <1>1, UnitOfType DEF Closing, Record
  <1>3. sysq \in [Key -> Seq(Nat)] /\ details \in [Key -> Seq(Nat)] /\ windows \in Seq(Record)
    BY <1>1, <1>2
  <1>41. Emptied(s, key) = [sysq |-> sysq, details |-> details, samples |-> s.samples, seen_u |-> s.seen_u,
                           lines |-> s.lines, written |-> s.written, closed |-> s.closed]
    BY <1>1, EmptiedFacts DEF StateOf
  <1>4. /\ e = [sysq |-> sysq, details |-> details, samples |-> s.samples, seen_u |-> s.seen_u,
                lines |-> s.lines, written |-> s.written, closed |-> s.closed]
        /\ closed = [sysq |-> sysq, details |-> details, samples |-> s.samples, seen_u |-> s.seen_u,
                     lines |-> s.lines, written |-> s.written, closed |-> windows]
    <2>1. e = [sysq |-> sysq, details |-> details, samples |-> s.samples, seen_u |-> s.seen_u,
               lines |-> s.lines, written |-> s.written, closed |-> s.closed]
      BY <1>41
    <2> HIDE DEF sysq, details, rec, e
    <2>2. e.closed = s.closed
      BY <2>1
    <2>3. [e EXCEPT !.closed = windows] =
             [sysq |-> sysq, details |-> details, samples |-> s.samples, seen_u |-> s.seen_u,
              lines |-> s.lines, written |-> s.written, closed |-> windows]
      <3> HIDE DEF windows
      <3> QED
        BY <2>1
    <2> QED
      BY <2>1, <2>2, <2>3
  <1>5. flush(s, key, force) =
          CASE Len(seq) < opt.min_len -> {IF force THEN e ELSE s}
            [] Len(seq) >= opt.min_len /\ rec.unit = NoUnit -> {closed}
            [] OTHER -> {[x EXCEPT !.written = @ + 1] : x \in Kept(closed, rec)}
    BY DEF flush, Closing
  <1>6. Len(seq) \in Nat /\ opt.min_len \in Nat /\ (Len(seq) < opt.min_len <=> ~ (Len(seq) >= opt.min_len))
    BY <1>1, WindowsAssumption
  <1> HIDE DEF seq, rec, e, closed, sysq, details, windows
  <1>7. StateOK(e) /\ SamplesFit(e) /\ StateOK(closed) /\ SamplesFit(closed)
    BY <1>1, <1>3, <1>4 DEF StateOK, SamplesFit
  <1>8. CASE Len(seq) < opt.min_len
    <2>1. t = IF force THEN e ELSE s
      BY <1>5, <1>6, <1>8
    <2>2. CASE force
      <3>1. Drops(s, t, key)
        BY <1>4, <1>8, <2>1, <2>2 DEF Drops, Ignores, seq, sysq, details
      <3> QED
        BY <1>4, <1>7, <2>1, <2>2, <3>1
    <2>3. CASE ~force
      BY <1>8, <2>1, <2>3 DEF seq
    <2> QED
      BY <2>2, <2>3
  <1>9. CASE Len(seq) >= opt.min_len /\ rec.unit = NoUnit
    <2>1. t = closed
      BY <1>5, <1>6, <1>9
    <2>2. Cuts(s, t, key)
      BY <1>2, <1>4, <1>9, <2>1 DEF Cuts, Ignores, seq, sysq, details, windows, rec
    <2> QED
      BY <1>4, <1>7, <2>1, <2>2
  <1>10. CASE Len(seq) >= opt.min_len /\ rec.unit # NoUnit
    <2>1. t \in {[x EXCEPT !.written = @ + 1] : x \in Kept(closed, rec)}
      BY <1>5, <1>6, <1>10
    <2>2. rec.unit \in Units(opt)
      BY <1>2, <1>10, UnitOfType
    <2>3. /\ StateOK(t) /\ SamplesFit(t) /\ Records(closed, t, rec)
          /\ t.sysq = closed.sysq /\ t.details = closed.details /\ t.closed = closed.closed
          /\ \A u \in Units(opt) : Range(t.samples[u]) \subseteq Range(closed.samples[u]) \cup {rec}
      BY <1>2, <1>7, <2>1, <2>2, KeptFacts
    <2>4. Records(s, t, rec)
      BY <1>4, <2>3 DEF Records, Met
    <2>5. Cuts(s, t, key)
      BY <1>2, <1>4, <1>10, <2>3, <2>4 DEF Cuts, seq, sysq, details, windows, rec
    <2> QED
      BY <1>4, <2>3, <2>5 DEF rec
  <1> QED
    BY <1>6, <1>8, <1>9, <1>10

-----------------------------------------------------------------------------
(* The samples that are written.                                           *)

LEMMA RangeType ==
    ASSUME NEW S, NEW s \in Seq(S), NEW T, Range(s) \subseteq T
    PROVE  s \in Seq(T)
  <1>1. s \in [1 .. Len(s) -> S] /\ Len(s) \in Nat /\ DOMAIN s = 1 .. Len(s)
    OBVIOUS
  <1>2. \A k \in 1 .. Len(s) : s[k] \in T
    BY <1>1 DEF Range
  <1>3. s \in [1 .. Len(s) -> T]
    BY <1>1, <1>2
  <1> QED
    BY <1>1, <1>3

\* Sequences put one after the other.
LEMMA FlattenType ==
    ASSUME NEW S, NEW n \in Nat, NEW seqs \in [1 .. n -> Seq(S)]
    PROVE  FlattenSeq(seqs) \in Seq(S)
  <1>1. seqs \in Seq(Seq(S)) /\ Len(seqs) = n
    OBVIOUS
  <1>2. CASE n = 0
    <2>1. FlattenSeq(seqs) = <<>>
      BY <1>1, <1>2 DEF FlattenSeq
    <2> QED
      BY <2>1
  <1>3. CASE n # 0
    <2> DEFINE V == Seq(S)
               G == [k \in 1 .. n |-> [v \in V |-> IF k = 1 THEN seqs[1] ELSE v \o seqs[k]]]
               def(h) == [i \in 1 .. n |-> IF i = 1 THEN seqs[i] ELSE h[i - 1] \o seqs[i]]
               flatten == CHOOSE h : h = def(h)
    <2>1. FlattenSeq(seqs) = flatten[n]
      BY <1>1, <1>3 DEF FlattenSeq
    <2>2. Leads(n, V, <<>>, G)
      <3>1. \A v \in V, k \in 1 .. n : G[k][v] \in V
        OBVIOUS
      <3> QED
        BY <3>1 DEF Leads
    <2>3. PICK f : Follows(f, n, V, <<>>, G)
      <3> HIDE DEF V, G
      <3> QED
        BY <2>2, Recursion
    <2> DEFINE g == [i \in 1 .. n |-> f[i]]
    <2>4. \A i \in 1 .. n : f[i] \in V /\ f[i - 1] \in V /\ f[i] = G[i][f[i - 1]]
      <3>1. \A i \in 1 .. n : i \in 0 .. n /\ i - 1 \in 0 .. n
        OBVIOUS
      <3> HIDE DEF V, G
      <3> QED
        BY <2>3, <3>1 DEF Follows
    <2>5. \A i \in 1 .. n : g[i] = IF i = 1 THEN seqs[i] ELSE g[i - 1] \o seqs[i]
      <3>1. \A i \in 1 .. n : f[i] = IF i = 1 THEN seqs[1] ELSE f[i - 1] \o seqs[i]
        BY <2>4
      <3>2. \A i \in 1 .. n : i # 1 => i - 1 \in 1 .. n
        OBVIOUS
      <3> QED
        BY <3>1, <3>2
    <2>6. g = def(g)
      BY <2>5
    <2>7. flatten = def(flatten)
      <3> HIDE DEF g, def
      <3> QED
        BY <2>6
    <2>71. \A i \in 1 .. n : flatten[i] = IF i = 1 THEN seqs[i] ELSE flatten[i - 1] \o seqs[i]
      <3> HIDE DEF flatten
      <3>1. \A i \in 1 .. n : def(flatten)[i] = IF i = 1 THEN seqs[i] ELSE flatten[i - 1] \o seqs[i]
        OBVIOUS
      <3> HIDE DEF def
      <3>2. \A i : flatten[i] = def(flatten)[i]
        BY <2>7, Zenon
      <3> QED
        BY <3>1, <3>2, Zenon
    <2>8. \A i \in 1 .. n : flatten[i] \in V
      <3> HIDE DEF flatten
      <3> DEFINE T == {0} \cup {i \in 1 .. n : flatten[i] \in V}
      <3>1. ASSUME NEW k \in 0 .. n - 1, k \in T PROVE k + 1 \in T
        <4>1. k + 1 \in 1 .. n /\ k + 1 # 0
          OBVIOUS
        <4>2. flatten[k + 1] = IF k + 1 = 1 THEN seqs[k + 1] ELSE flatten[k + 1 - 1] \o seqs[k + 1]
          BY <2>71, <4>1
        <4>3. CASE k = 0
          BY <4>1, <4>2, <4>3
        <4>4. CASE k # 0
          <5>1. flatten[k] \in V /\ k + 1 - 1 = k /\ k + 1 # 1
            BY <3>1, <4>4
          <5>2. flatten[k + 1] = flatten[k] \o seqs[k + 1]
            BY <4>2, <5>1
          <5>3. seqs[k + 1] \in V
            BY <4>1
          <5>4. flatten[k] \o seqs[k + 1] \in V
            <6> DEFINE x == flatten[k]
                       y == seqs[k + 1]
            <6>1. x \in Seq(S) /\ y \in Seq(S)
              BY <5>1, <5>3
            <6> HIDE DEF x, y
            <6>2. x \o y \in Seq(S)
              BY <6>1
            <6> QED
              BY <6>2 DEF x, y
          <5>5. flatten[k + 1] \in V
            <6> HIDE DEF V
            <6> QED
              BY <5>2, <5>4, Zenon
          <5> QED
            <6> HIDE DEF V
            <6> QED
              BY <4>1, <5>5
        <4> QED
          BY <4>3, <4>4
      <3>2. 0 \in T
        OBVIOUS
      <3> HIDE DEF T
      <3>3. 0 .. n \subseteq T
        BY <3>1, <3>2, Upwards
      <3> QED
        BY <3>3 DEF T
    <2>9. n \in 1 .. n
      BY <1>3
    <2> QED
      BY <2>1, <2>8, <2>9
  <1> QED
    BY <1>2, <1>3

LEMMA UnitsFinite ==
    ASSUME opt \in Options
    PROVE  IsFiniteSet(Units(opt))
  <1> DEFINE tl == opt.tl
             n == Len(tl)
             unit == [k \in DOMAIN tl |-> tl[k].unit]
  <1>1. DOMAIN tl = 1 .. n /\ n \in Nat
    <2>1. tl \in Seq(Range(tl))
      BY TimelineAssumption
    <2> HIDE DEF tl
    <2> QED
      BY <2>1
  <1> HIDE DEF n
  <1>2. IsFiniteSet(1 .. n)
    BY <1>1, FS_Interval
  <1>3. IsFiniteSet(DOMAIN tl)
    BY <1>1, <1>2, Zenon
  <1>4. IsFiniteSet({unit[k] : k \in DOMAIN tl})
    <2> HIDE DEF tl, unit
    <2> QED
      BY <1>3, ImageFinite
  <1>5. Units(opt) = {unit[k] : k \in DOMAIN tl} \cup {Given}
    BY DEF Units
  <1> HIDE DEF unit, tl
  <1> QED
    BY <1>4, <1>5, FS_AddElement

LEMMA SetToSeqFacts ==
    ASSUME NEW S, IsFiniteSet(S)
    PROVE  SetToSeq(S) \in [1 .. Cardinality(S) -> S]
  <1>1. ExistsBijection(1 .. Cardinality(S), S)
    BY FS_NatBijection, FS_CountingElements
  <1>2. PICK f : f \in Bijection(1 .. Cardinality(S), S)
    BY <1>1 DEF ExistsBijection
  <1>3. f \in [1 .. Cardinality(S) -> S] /\ IsInjective(f)
    BY <1>2 DEF Bijection, Injection, IsInjective
  <1> QED
    BY <1>3 DEF SetToSeq

\* What is written was in the reservoirs, or there already.
LEMMA WrittenFacts ==
    ASSUME opt \in Options, StateOK(st), NEW T, Range(st.lines) \subseteq T,
           \A u \in Units(opt) : Range(st.samples[u]) \subseteq T
    PROVE  Written \in Seq(Record) /\ Range(Written) \subseteq T
  <1>1. st.lines \in Seq(Record) /\ st.samples \in [Units(opt) -> Seq(Record)]
    BY DEF StateOK
  <1>2. CASE opt.mode \in {"slim", "all"}
    BY <1>1, <1>2 DEF Written
  <1>3. CASE opt.mode \notin {"slim", "all"}
    <2> DEFINE n == Cardinality(DOMAIN st.samples)
               names == SetToSeq(DOMAIN st.samples)
               seqs == [k \in 1 .. n |-> st.samples[names[k]]]
    <2>1. Written = FlattenSeq(seqs)
      BY <1>3 DEF Written
    <2>2. DOMAIN st.samples = Units(opt)
      BY <1>1
    <2>3. n \in Nat /\ names \in [1 .. n -> Units(opt)]
      <3>1. IsFiniteSet(DOMAIN st.samples)
        BY <2>2, UnitsFinite
      <3>2. Cardinality(DOMAIN st.samples) \in Nat
        BY <3>1, FS_CardinalityType
      <3>3. names \in [1 .. n -> DOMAIN st.samples]
        BY <3>1, SetToSeqFacts
      <3> QED
        BY <2>2, <3>2, <3>3
    <2> HIDE DEF n, names
    <2>4. \A u \in Units(opt) : st.samples[u] \in Seq(Record \cap T)
      <3>1. ASSUME NEW u \in Units(opt) PROVE st.samples[u] \in Seq(Record \cap T)
        <4>1. st.samples[u] \in Seq(Record) /\ Range(st.samples[u]) \subseteq T
          BY <1>1
        <4>2. Range(st.samples[u]) \subseteq Record
          BY <4>1 DEF Range
        <4> QED
          BY <4>1, <4>2, RangeType
      <3> QED
        BY <3>1
    <2>5. seqs \in [1 .. n -> Seq(Record \cap T)]
      BY <2>3, <2>4
    <2> HIDE DEF seqs
    <2> DEFINE W == FlattenSeq(seqs)
    <2>6. W \in Seq(Record \cap T)
      BY <2>3, <2>5, FlattenType
    <2> HIDE DEF W
    <2>7. W \in Seq(Record) /\ Range(W) \subseteq T
      <3>1. \A k \in DOMAIN W : W[k] \in Record \cap T
        BY <2>6
      <3>2. Range(W) \subseteq T /\ Range(W) \subseteq Record
        BY <3>1 DEF Range
      <3> QED
        BY <2>6, <3>2, RangeType
    <2> QED
      BY <2>1, <2>7 DEF W
  <1> QED
    BY <1>2, <1>3

-----------------------------------------------------------------------------
(* The inductive invariant of extract.py.                                  *)

WTyped ==
    /\ opt \in Options /\ capture \in Seq(Frames) /\ Len(capture) <= MaxFrames
    /\ StateOK(st) /\ SamplesFit(st) /\ st.written <= Len(st.closed)
    /\ order \in Seq(Key) /\ lost \in BOOLEAN
    /\ doing \in {"read", "flush", "aggregate", "ended"} /\ status \in -1 .. 2
    /\ exists \in [Path -> BOOLEAN] /\ DOMAIN cache \subseteq Path

\* Keys whose queue is not flushed yet have in it what no window has; the others have no
\* syscall left, or too few.
Queues ==
    /\ \A key \in Key :
          doing = "read" \/ (doing = "flush" /\ key \in Range(order)) =>
              /\ QueueGood(capture, st.closed, key, st.sysq[key], st.details[key])
              /\ Len(st.sysq[key]) < Window
    /\ \A key \in Key :
          /\ key \notin Range(order) /\ doing \in {"read", "flush"} => st.sysq[key] = <<>>
          /\ key \notin Range(order) /\ doing \in {"flush", "aggregate"} =>
                Cardinality(Rest(capture, st.closed, key)) < opt.min_len
          /\ Range(st.sysq[key]) \cup Range(st.details[key]) \subseteq DOMAIN capture
    /\ \A i, j \in DOMAIN order : order[i] = order[j] => i = j
    /\ doing = "aggregate" => order = <<>>

Losses ==
    /\ ~lost => \A i \in DOMAIN capture : capture[i].type # "loss"
    /\ doing \in {"read", "flush"} => status = -1
    /\ status = 0 => ~lost \/ opt.ignore

\* Records are windows.
Sources ==
    /\ Range(st.lines) \subseteq Range(st.closed)
    /\ \A u \in Units(opt) : Range(st.samples[u]) \subseteq Range(st.closed)

WInv == WTyped /\ ClosedGood(capture, st.closed) /\ Queues /\ Losses /\ Sources

LEMMA WindowsInit ==
    ASSUME WInit
    PROVE  WInv
  <1> USE DEF WInit
  <1>1. opt \in Options /\ Window \in Nat \ {0} /\ MaxFrames \in Nat /\ opt.cap \in Nat /\ opt.min_len \in Nat \ {0}
    BY WindowsAssumption
  <1>2. /\ st.sysq = [k \in Key |-> <<>>] /\ st.details = [k \in Key |-> <<>>] /\ st.closed = <<>>
        /\ st.samples = [u \in Units(opt) |-> <<>>] /\ st.lines = <<>> /\ st.written = 0
    OBVIOUS
  <1>3. StateOK(st)
    BY DEF StateOK
  <1>4. SamplesFit(st)
    BY <1>1, <1>2 DEF SamplesFit
  <1>5. WTyped
    <2>1. capture \in Seq(Frames) /\ Len(capture) <= MaxFrames /\ order \in Seq(Key)
      BY <1>1
    <2>2. st.written <= Len(st.closed)
      <3>1. Len(<<>>) = 0
        OBVIOUS
      <3> QED
        BY <1>2, <3>1
    <2>3. exists \in [Path -> BOOLEAN] /\ DOMAIN cache \subseteq Path
      <3>1. DOMAIN <<>> = {}
        OBVIOUS
      <3> QED
        BY <3>1
    <2>4. doing \in {"read", "flush", "aggregate", "ended"} /\ status \in -1 .. 2
      OBVIOUS
    <2>5. lost \in BOOLEAN
      OBVIOUS
    <2> HIDE DEF WInit
    <2> QED
      BY <1>1, <1>3, <1>4, <2>1, <2>2, <2>3, <2>4, <2>5 DEF WTyped
  <1>6. \A key : Places(<<>>, key) = {} /\ Inside(<<>>, key) = {} /\ \A T : OfIn(<<>>, key, T) = {}
    BY DEF Places, Inside, OfIn
  <1>7. ClosedGood(<<>>, <<>>)
    BY <1>6 DEF ClosedGood
  <1>8. ASSUME NEW key \in Key PROVE QueueGood(<<>>, <<>>, key, <<>>, <<>>)
    BY <1>6, AscendsEmpty DEF QueueGood, Rest, Afterwards, AllFull
  <1>9. Queues
    <2>1. Range(<<>>) = {}
      BY DEF Range
    <2> QED
      BY <1>1, <1>2, <1>8, <2>1 DEF Queues
  <1>10. Losses
    BY DEF Losses
  <1>11. Sources
    <2>1. Range(<<>>) = {}
      BY DEF Range
    <2> QED
      BY <1>2, <2>1 DEF Sources
  <1> QED
    BY <1>2, <1>5, <1>7, <1>9, <1>10, <1>11 DEF WInv

\* What does not depend on the command line but through opt.
LEMMA ClosedKept ==
    ASSUME opt' = opt, NEW c, NEW cl, ClosedGood(c, cl), capture' = c, st'.closed = cl
    PROVE  ClosedGood(capture, st.closed)'
  <1>1. \A key : UnitOf(key)' = UnitOf(key)
    BY DEF UnitOf, label_of
  <1>2. \A k \in DOMAIN cl : WindowGood(capture, st.closed, k)'
    BY <1>1 DEF ClosedGood, WindowGood
  <1> QED
    BY <1>2 DEF ClosedGood

LEMMA StateKept ==
    ASSUME opt' = opt, NEW t, StateOK(t), SamplesFit(t), st' = t
    PROVE  StateOK(st)' /\ SamplesFit(st)'
  BY DEF StateOK, SamplesFit, Record

\* While frames are read, every window is full.
LEMMA ReadFulls ==
    ASSUME WInv, doing = "read"
    PROVE  Fulls(st.closed)
  <1>1. ASSUME NEW k \in DOMAIN st.closed PROVE Len(st.closed[k].syscalls) = Window
    <2>1. st.closed[k] \in Record
      BY DEF WInv, WTyped, StateOK
    <2>2. st.closed[k].key \in Key /\ k \in Places(st.closed, st.closed[k].key)
      BY <2>1 DEF Record, Places
    <2>3. AllFull(st.closed, st.closed[k].key)
      BY <2>2 DEF WInv, Queues, QueueGood
    <2> QED
      BY <2>2, <2>3 DEF AllFull
  <1> QED
    BY <1>1 DEF Fulls

\* The fields of a state.
LEMMA StateFields ==
    ASSUME NEW s, StateOK(s)
    PROVE  /\ s.sysq \in [Key -> Seq(Nat)] /\ s.details \in [Key -> Seq(Nat)]
           /\ s.samples \in [Units(opt) -> Seq(Record)] /\ s.seen_u \in [Units(opt) -> Nat]
           /\ s.lines \in Seq(Record) /\ s.written \in Nat /\ s.closed \in Seq(Record)
           /\ s = [sysq |-> s.sysq, details |-> s.details, samples |-> s.samples, seen_u |-> s.seen_u,
                   lines |-> s.lines, written |-> s.written, closed |-> s.closed]
  BY DEF StateOK

LEMMA QueuedSyscall ==
    ASSUME NEW s, StateOK(s), SamplesFit(s), NEW key \in Key, NEW i \in Nat
    PROVE  LET t == [s EXCEPT !.sysq[key] = Append(@, i)]
           IN /\ StateOK(t) /\ SamplesFit(t) /\ t.sysq = [s.sysq EXCEPT ![key] = Append(s.sysq[key], i)]
              /\ t.details = s.details /\ t.closed = s.closed /\ Ignores(s, t)
  <1> DEFINE q == [s.sysq EXCEPT ![key] = Append(s.sysq[key], i)]
             t == [s EXCEPT !.sysq[key] = Append(@, i)]
  <1>1. q \in [Key -> Seq(Nat)]
    BY StateFields
  <1>2. t = [sysq |-> q, details |-> s.details, samples |-> s.samples, seen_u |-> s.seen_u,
             lines |-> s.lines, written |-> s.written, closed |-> s.closed]
    <2> DEFINE A == s.sysq
               B == s.details
               C == s.samples
               D == s.seen_u
               E == s.lines
               F == s.written
               G == s.closed
    <2>1. s = StateOf(A, B, C, D, E, F, G)
      BY StateFields DEF StateOf
    <2> HIDE DEF A, B, C, D, E, F, G
    <2> DEFINE x == [A EXCEPT ![key] = Append(A[key], i)]
    <2>2. s.sysq = A
      BY <2>1 DEF StateOf
    <2>3. [s EXCEPT !.sysq[key] = Append(@, i)] = [s EXCEPT !.sysq = x]
      BY <2>2
    <2> HIDE DEF x
    <2>4. [s EXCEPT !.sysq = x] = StateOf(x, B, C, D, E, F, G)
      BY <2>1 DEF StateOf
    <2> QED
      BY <2>3, <2>4 DEF StateOf, x, A, B, C, D, E, F, G
  <1> HIDE DEF q, t
  <1>3. StateOK(t)
    BY <1>1, <1>2, StateFields DEF StateOK
  <1> QED
    BY <1>2, <1>3 DEF SamplesFit, Ignores, q, t

LEMMA QueuedDetail ==
    ASSUME NEW s, StateOK(s), SamplesFit(s), NEW key \in Key, NEW i \in Nat
    PROVE  LET t == [s EXCEPT !.details[key] = Append(@, i)]
           IN /\ StateOK(t) /\ SamplesFit(t) /\ t.details = [s.details EXCEPT ![key] = Append(s.details[key], i)]
              /\ t.sysq = s.sysq /\ t.closed = s.closed /\ Ignores(s, t)
  <1> DEFINE d == [s.details EXCEPT ![key] = Append(s.details[key], i)]
             t == [s EXCEPT !.details[key] = Append(@, i)]
  <1>1. d \in [Key -> Seq(Nat)]
    BY StateFields
  <1>2. t = [sysq |-> s.sysq, details |-> d, samples |-> s.samples, seen_u |-> s.seen_u,
             lines |-> s.lines, written |-> s.written, closed |-> s.closed]
    <2> DEFINE A == s.sysq
               B == s.details
               C == s.samples
               D == s.seen_u
               E == s.lines
               F == s.written
               G == s.closed
    <2>1. s = StateOf(A, B, C, D, E, F, G)
      BY StateFields DEF StateOf
    <2> HIDE DEF A, B, C, D, E, F, G
    <2> DEFINE x == [B EXCEPT ![key] = Append(B[key], i)]
    <2>2. s.details = B
      BY <2>1 DEF StateOf
    <2>3. [s EXCEPT !.details[key] = Append(@, i)] = [s EXCEPT !.details = x]
      BY <2>2
    <2> HIDE DEF x
    <2>4. [s EXCEPT !.details = x] = StateOf(A, x, C, D, E, F, G)
      BY <2>1 DEF StateOf
    <2> QED
      BY <2>3, <2>4 DEF StateOf, x, A, B, C, D, E, F, G
  <1> HIDE DEF d, t
  <1>3. StateOK(t)
    BY <1>1, <1>2, StateFields DEF StateOK
  <1> QED
    BY <1>2, <1>3 DEF SamplesFit, Ignores, d, t

-----------------------------------------------------------------------------
(* Reading.                                                                *)

\* A window cut is where the records come from, and one more is written at most.
LEMMA CutSources ==
    ASSUME opt \in Options, NEW s, StateOK(s), NEW t, StateOK(t), NEW key \in Key, Cuts(s, t, key),
           \A u \in Units(opt) : Range(t.samples[u]) \subseteq Range(s.samples[u]) \cup {Closing(s, key)},
           Range(s.lines) \subseteq Range(s.closed),
           \A u \in Units(opt) : Range(s.samples[u]) \subseteq Range(s.closed),
           s.written <= Len(s.closed)
    PROVE  /\ Range(t.lines) \subseteq Range(t.closed)
           /\ \A u \in Units(opt) : Range(t.samples[u]) \subseteq Range(t.closed)
           /\ t.written <= Len(t.closed)
           /\ Closing(s, key) \in Record /\ Len(t.closed) = Len(s.closed) + 1
  <1> DEFINE rec == Closing(s, key)
  <1>1. rec \in Record
    <2>1. s.sysq[key] \in Seq(Nat) /\ s.details[key] \in Seq(Nat)
      BY StateFields
    <2> QED
      BY <2>1, UnitOfType DEF Closing, Record
  <1>2. t.closed = Append(s.closed, rec) /\ s.closed \in Seq(Record) /\ s.lines \in Seq(Record)
    BY StateFields DEF Cuts
  <1> HIDE DEF rec
  <1>3. Range(t.closed) = Range(s.closed) \cup {rec} /\ Len(t.closed) = Len(s.closed) + 1 /\ Len(s.closed) \in Nat
    BY <1>1, <1>2, AppendFacts
  <1>4. t.lines = s.lines \/ t.lines = Append(s.lines, rec)
    <2>1. opt.mode \in {"slim", "all", "max_per_unit", "max_records"}
      BY WindowsAssumption
    <2> QED
      BY <2>1 DEF Cuts, Records, Ignores, rec
  <1>5. Range(t.lines) \subseteq Range(s.lines) \cup {rec}
    <2>1. Range(Append(s.lines, rec)) = Range(s.lines) \cup {rec}
      BY <1>1, <1>2, AppendFacts
    <2> QED
      BY <1>4, <2>1
  <1>6. t.written = s.written \/ t.written = s.written + 1
    BY DEF Cuts, Records, Ignores
  <1>7. t.written <= Len(t.closed)
    <2>1. s.written \in Nat
      BY StateFields
    <2> QED
      BY <1>3, <1>6, <2>1
  <1>8. \A u \in Units(opt) : Range(t.samples[u]) \subseteq Range(t.closed)
    BY <1>3 DEF rec
  <1> QED
    BY <1>1, <1>3, <1>5, <1>7, <1>8 DEF rec

LEMMA ReadAssemble ==
    ASSUME WInv, doing = "read", NEW f \in Frames, Len(capture) < MaxFrames,
           f.type = "healthy" => ~lost,
           UNCHANGED <<opt, doing, status, exists, stats, cache, rows>>,
           capture' = Append(capture, f), lost' = (f.type = "loss" \/ (f.type # "healthy" /\ lost)),
           NEW t, st' = t, StateOK(t), SamplesFit(t), t.written <= Len(t.closed),
           ClosedGood(Append(capture, f), t.closed),
           \A x \in Key : /\ QueueGood(Append(capture, f), t.closed, x, t.sysq[x], t.details[x])
                          /\ Len(t.sysq[x]) < Window,
           Range(t.lines) \subseteq Range(t.closed),
           \A u \in Units(opt) : Range(t.samples[u]) \subseteq Range(t.closed),
           order' \in Seq(Key), \A i, j \in DOMAIN order' : order'[i] = order'[j] => i = j,
           \A x \in Key : x \notin Range(order') => t.sysq[x] = <<>>
    PROVE  WInv'
  <1>1. /\ capture \in Seq(Frames) /\ Len(capture) \in Nat /\ MaxFrames \in Nat
        /\ capture' \in Seq(Frames) /\ Len(capture') = Len(capture) + 1
        /\ \A i \in DOMAIN capture' : i \in DOMAIN capture \/ i = Len(capture) + 1
        /\ \A i \in DOMAIN capture : capture'[i] = capture[i]
        /\ capture'[Len(capture) + 1] = f
    <2>1. capture \in Seq(Frames)
      BY DEF WInv, WTyped
    <2> QED
      BY <2>1, WindowsAssumption, AppendFacts
  <1>2. WTyped'
    <2>1. StateOK(st)' /\ SamplesFit(st)'
      BY StateKept
    <2>2. Len(capture') <= MaxFrames
      BY <1>1
    <2>3. (st.written <= Len(st.closed))'
      OBVIOUS
    <2>4. lost' \in BOOLEAN
      OBVIOUS
    <2> QED
      BY <1>1, <2>1, <2>2, <2>3, <2>4 DEF WInv, WTyped
  <1>3. ClosedGood(capture, st.closed)'
    <2>1. ClosedGood(capture', t.closed)
      OBVIOUS
    <2> QED
      BY <2>1, ClosedKept
  <1>4. Queues'
    <2>1. ASSUME NEW x \in Key
          PROVE  Range(t.sysq[x]) \cup Range(t.details[x]) \subseteq DOMAIN capture'
      BY DEF QueueGood, Rest, Afterwards, OfIn
    <2>2. doing' = "read"
      OBVIOUS
    <2> QED
      BY <2>1, <2>2 DEF Queues
  <1>5. Losses'
    <2>1. \/ lost' = TRUE
          \/ lost' = FALSE /\ lost = FALSE /\ f.type # "loss"
      BY DEF WInv, WTyped
    <2>2. lost = FALSE => \A i \in DOMAIN capture : capture[i].type # "loss"
      BY DEF WInv, Losses
    <2>3. ~lost' => \A i \in DOMAIN capture' : capture'[i].type # "loss"
      BY <1>1, <2>1, <2>2
    <2>4. status' = -1
      BY DEF WInv, Losses
    <2> QED
      BY <2>3, <2>4 DEF Losses
  <1>6. Sources'
    BY DEF Sources
  <1> QED
    BY <1>2, <1>3, <1>4, <1>5, <1>6 DEF WInv

LEMMA ReadFrameStep ==
    ASSUME WInv, ReadFrame
    PROVE  WInv'
  <1>1. /\ doing = "read" /\ Len(capture) < MaxFrames
        /\ UNCHANGED <<opt, doing, status, exists, stats, cache, rows>>
    BY DEF ReadFrame
  <1>2. PICK f \in Frames :
           /\ f.type = "healthy" => ~lost
           /\ capture' = Append(capture, f)
           /\ lost' = (f.type = "loss" \/ (f.type # "healthy" /\ lost))
           /\ CASE f.type = "syscall" -> Syscall(f.key, Len(capture'))
                [] f.type \in {"open", "connect"} ->
                     /\ st' = [st EXCEPT !.details[f.key] = Append(@, Len(capture'))]
                     /\ UNCHANGED order
                [] OTHER -> UNCHANGED <<st, order>>
    BY DEF ReadFrame
  <1> DEFINE c == capture
             n == Len(c) + 1
             c2 == Append(c, f)
             key == f.key
             cl == st.closed
  <1>3. /\ opt \in Options /\ c \in Seq(Frames) /\ StateOK(st) /\ SamplesFit(st) /\ st.written <= Len(cl)
        /\ order \in Seq(Key) /\ ClosedGood(c, cl)
        /\ \A x \in Key : /\ QueueGood(c, cl, x, st.sysq[x], st.details[x]) /\ Len(st.sysq[x]) < Window
                          /\ x \notin Range(order) => st.sysq[x] = <<>>
        /\ \A i, j \in DOMAIN order : order[i] = order[j] => i = j
        /\ Range(st.lines) \subseteq Range(cl)
        /\ \A u \in Units(opt) : Range(st.samples[u]) \subseteq Range(cl)
    BY <1>1 DEF WInv, WTyped, Queues, Sources
  <1>4. key \in Key /\ n \in Nat /\ Len(capture') = n /\ cl \in Seq(Record) /\ Window \in Nat \ {0} /\ n = Len(c2)
    BY <1>2, <1>3, WindowsAssumption, StateFields
  <1>5. Fulls(cl)
    BY <1>1, ReadFulls
  <1>6. ClosedGood(c2, cl)
    BY <1>3, <1>4, <1>5, ClosedGrows
  <1>7. \A x \in Key : st.sysq[x] \in Seq(Nat) /\ st.details[x] \in Seq(Nat)
    BY <1>3, StateFields
  <1>8. ASSUME NEW x \in Key
        PROVE  /\ f.type = "syscall" /\ key = x => QueueGood(c2, cl, x, Append(st.sysq[x], n), st.details[x])
               /\ f.type \in {"open", "connect"} /\ key = x =>
                     QueueGood(c2, cl, x, st.sysq[x], Append(st.details[x], n))
               /\ key # x \/ f.type \notin {"syscall", "open", "connect"} =>
                     QueueGood(c2, cl, x, st.sysq[x], st.details[x])
    BY <1>3, <1>4, <1>5, <1>7, QueueGrows
  <1>9. CASE f.type \notin {"syscall", "open", "connect"}
    <2>1. st' = st /\ order' = order
      BY <1>2, <1>9
    <2> HIDE DEF c, n, c2, key, cl
    <2>2. \A x \in Key : QueueGood(c2, cl, x, st.sysq[x], st.details[x])
      BY <1>8, <1>9
    <2> USE DEF c, c2, cl
    <2> QED
      BY <1>1, <1>2, <1>3, <1>6, <2>1, <2>2, ReadAssemble
  <1>10. CASE f.type \in {"open", "connect"}
    <2> DEFINE t == [st EXCEPT !.details[key] = Append(@, n)]
    <2>1. st' = t /\ order' = order
      BY <1>2, <1>4, <1>10
    <2>2. /\ StateOK(t) /\ SamplesFit(t) /\ t.details = [st.details EXCEPT ![key] = Append(st.details[key], n)]
          /\ t.sysq = st.sysq /\ t.closed = cl /\ Ignores(st, t)
      BY <1>3, <1>4, QueuedDetail
    <2> HIDE DEF t
    <2>3. /\ t.details[key] = Append(st.details[key], n)
          /\ \A x \in Key : x # key => t.details[x] = st.details[x]
      BY <1>3, <1>4, <2>2, StateFields
    <2>4. \A x \in Key : QueueGood(c2, t.closed, x, t.sysq[x], t.details[x]) /\ Len(t.sysq[x]) < Window
      <3> HIDE DEF c, n, c2, key, cl
      <3>1. ASSUME NEW x \in Key PROVE QueueGood(c2, t.closed, x, t.sysq[x], t.details[x])
        <4>1. CASE x = key
          BY <1>8, <1>10, <2>2, <2>3, <4>1
        <4>2. CASE x # key
          BY <1>8, <2>2, <2>3, <4>2
        <4> QED
          BY <4>1, <4>2
      <3> QED
        BY <1>3, <2>2, <3>1
    <2>5. t.lines = st.lines /\ t.samples = st.samples /\ t.written = st.written
      BY <2>2 DEF Ignores
    <2>6. ClosedGood(c2, t.closed) /\ t.written <= Len(t.closed)
      BY <1>3, <1>6, <2>2, <2>5
    <2>7. /\ Range(t.lines) \subseteq Range(t.closed)
          /\ \A u \in Units(opt) : Range(t.samples[u]) \subseteq Range(t.closed)
          /\ \A x \in Key : x \notin Range(order') => t.sysq[x] = <<>>
          /\ order' \in Seq(Key) /\ \A i, j \in DOMAIN order' : order'[i] = order'[j] => i = j
      BY <1>3, <2>1, <2>2, <2>5
    <2> QED
      BY <1>1, <1>2, <2>1, <2>2, <2>4, <2>6, <2>7, ReadAssemble
  <1>11. CASE f.type = "syscall"
    <2> DEFINE s == [st EXCEPT !.sysq[key] = Append(@, n)]
    <2>1. /\ st' \in (IF Len(s.sysq[key]) >= Window THEN flush(s, key, FALSE) ELSE {s})
          /\ order' = IF key \in Range(order) THEN order ELSE Append(order, key)
      <3>1. Syscall(key, n)
        BY <1>2, <1>4, <1>11
      <3> QED
        BY <3>1 DEF Syscall
    <2>2. /\ StateOK(s) /\ SamplesFit(s) /\ s.sysq = [st.sysq EXCEPT ![key] = Append(st.sysq[key], n)]
          /\ s.details = st.details /\ s.closed = cl /\ Ignores(st, s)
      BY <1>3, <1>4, QueuedSyscall
    <2> HIDE DEF s
    <2>3. /\ s.sysq[key] = Append(st.sysq[key], n)
          /\ \A x \in Key : x # key => s.sysq[x] = st.sysq[x]
          /\ \A x \in Key : s.sysq[x] \in Seq(Nat) /\ s.details[x] \in Seq(Nat)
      BY <1>3, <1>4, <2>2, StateFields
    <2>4. \A x \in Key : QueueGood(c2, cl, x, s.sysq[x], s.details[x]) /\ (x # key => Len(s.sysq[x]) < Window)
      <3> HIDE DEF c, n, c2, key, cl
      <3>1. ASSUME NEW x \in Key PROVE QueueGood(c2, cl, x, s.sysq[x], s.details[x])
        <4>1. CASE x = key
          BY <1>8, <1>11, <2>2, <2>3, <4>1
        <4>2. CASE x # key
          BY <1>8, <2>2, <2>3, <4>2
        <4> QED
          BY <4>1, <4>2
      <3> QED
        BY <1>3, <2>3, <3>1
    <2>5. Len(s.sysq[key]) \in Nat /\ Len(s.sysq[key]) <= Window /\ s.sysq[key][Len(s.sysq[key])] = n
      <3> DEFINE q == st.sysq[key]
      <3>1. q \in Seq(Nat) /\ Len(q) < Window
        BY <1>3, <1>4, <1>7
      <3> HIDE DEF q, n
      <3>2. Append(q, n)[Len(q) + 1] = n /\ Len(Append(q, n)) = Len(q) + 1 /\ Len(q) \in Nat
        BY <1>4, <3>1
      <3>3. s.sysq[key] = Append(q, n)
        BY <2>3 DEF q
      <3> QED
        BY <1>4, <3>1, <3>2, <3>3
    <2>6. s.lines = st.lines /\ s.samples = st.samples /\ s.written = st.written
      BY <2>2 DEF Ignores
    <2>7. /\ order' \in Seq(Key) /\ \A i, j \in DOMAIN order' : order'[i] = order'[j] => i = j
          /\ Range(order') = Range(order) \cup {key}
      <3>1. CASE key \in Range(order)
        BY <1>3, <2>1, <3>1
      <3>2. CASE key \notin Range(order)
        <4>1. order' = Append(order, key)
          BY <2>1, <3>2
        <4>2. /\ Append(order, key) \in Seq(Key) /\ Range(Append(order, key)) = Range(order) \cup {key}
              /\ \A k \in DOMAIN order : Append(order, key)[k] = order[k] /\ order[k] \in Range(order)
              /\ \A k \in DOMAIN Append(order, key) : k \in DOMAIN order \/ k = Len(order) + 1
              /\ Append(order, key)[Len(order) + 1] = key
          <5> HIDE DEF key
          <5>1. \A k \in DOMAIN order : order[k] \in Range(order)
            BY DEF Range
          <5> QED
            BY <1>3, <1>4, <5>1, AppendFacts
        <4> HIDE DEF key
        <4> QED
          BY <1>3, <3>2, <4>1, <4>2
      <3> QED
        BY <3>1, <3>2
    <2>8. CASE ~ (Len(s.sysq[key]) >= Window)
      <3>1. st' = s
        BY <2>1, <2>8
      <3>2. \A x \in Key : Len(s.sysq[x]) < Window
        BY <1>4, <2>4, <2>5, <2>8
      <3>3. \A x \in Key : QueueGood(c2, s.closed, x, s.sysq[x], s.details[x]) /\ Len(s.sysq[x]) < Window
        BY <2>2, <2>4, <3>2
      <3>4. ClosedGood(c2, s.closed) /\ s.written <= Len(s.closed)
        BY <1>3, <1>6, <2>2, <2>6
      <3>5. /\ Range(s.lines) \subseteq Range(s.closed)
            /\ \A u \in Units(opt) : Range(s.samples[u]) \subseteq Range(s.closed)
            /\ \A x \in Key : x \notin Range(order') => s.sysq[x] = <<>>
        BY <1>3, <2>2, <2>3, <2>6, <2>7
      <3> QED
        BY <1>1, <1>2, <2>2, <2>7, <3>1, <3>3, <3>4, <3>5, ReadAssemble
    <2>9. CASE Len(s.sysq[key]) >= Window
      <3>1. st' \in flush(s, key, FALSE)
        BY <2>1, <2>9
      <3> DEFINE t == st'
                 rec == Closing(s, key)
      <3>2. /\ StateOK(t) /\ SamplesFit(t)
            /\ Cuts(s, t, key) \/ Len(s.sysq[key]) < opt.min_len
            /\ \A u \in Units(opt) : Range(t.samples[u]) \subseteq Range(s.samples[u]) \cup {rec}
        <4> HIDE DEF key
        <4>1. FALSE \in BOOLEAN
          OBVIOUS
        <4> QED
          BY <1>3, <1>4, <2>2, <3>1, <4>1, FlushFacts
      <3>3. Len(s.sysq[key]) = Window /\ opt.min_len \in 1 .. Window
        BY <1>3, <1>4, <2>5, <2>9, WindowsAssumption
      <3>4. Cuts(s, t, key)
        BY <1>4, <3>2, <3>3
      <3>5. Range(s.lines) \subseteq Range(s.closed) /\ s.written <= Len(s.closed)
            /\ \A u \in Units(opt) : Range(s.samples[u]) \subseteq Range(s.closed)
        BY <1>3, <2>2, <2>6
      <3> HIDE DEF t, rec
      <3>6. /\ Range(t.lines) \subseteq Range(t.closed)
            /\ \A u \in Units(opt) : Range(t.samples[u]) \subseteq Range(t.closed)
            /\ t.written <= Len(t.closed) /\ rec \in Record
        <4> HIDE DEF key
        <4> QED
          BY <1>3, <1>4, <2>2, <3>2, <3>4, <3>5, CutSources DEF rec
      <3>7. /\ t.closed = Append(cl, rec)
            /\ t.sysq = [s.sysq EXCEPT ![key] = <<>>] /\ t.details = [s.details EXCEPT ![key] = <<>>]
        BY <2>2, <3>4 DEF Cuts, rec
      <3>8. /\ t.sysq[key] = <<>> /\ t.details[key] = <<>>
            /\ \A x \in Key : x # key => t.sysq[x] = s.sysq[x] /\ t.details[x] = s.details[x]
        <4>1. s.sysq \in [Key -> Seq(Nat)] /\ s.details \in [Key -> Seq(Nat)]
          BY <2>2, StateFields
        <4> QED
          BY <1>4, <3>7, <4>1
      <3>9. rec.key = key /\ rec.unit = UnitOf(key) /\ rec.syscalls = s.sysq[key] /\ rec.details = s.details[key]
        BY DEF rec, Closing
      <3>10. s.sysq[key][Window] = Len(c2) /\ Len(s.sysq[key]) \in opt.min_len .. Window
        BY <1>4, <2>5, <3>3
      <3> HIDE DEF key, c, c2, cl
      <3>11. c2 \in Seq(Frames)
        BY <1>3, AppendFacts DEF c2
      <3>12. /\ ClosedGood(c2, t.closed)
             /\ QueueGood(c2, t.closed, key, <<>>, <<>>)
             /\ \A x \in Key \ {key} : /\ Rest(c2, t.closed, x) = Rest(c2, cl, x)
                                       /\ Afterwards(c2, t.closed, x) = Afterwards(c2, cl, x)
                                       /\ AllFull(cl, x) => AllFull(t.closed, x)
        <4>1. /\ QueueGood(c2, cl, rec.key, rec.syscalls, rec.details) /\ rec.unit = UnitOf(rec.key)
              /\ Len(rec.syscalls) \in opt.min_len .. Window /\ Len(rec.syscalls) = Window
              /\ rec.syscalls[Window] = Len(c2)
          BY <1>4, <2>4, <3>3, <3>9, <3>10
        <4>2. /\ ClosedGood(c2, Append(cl, rec))
              /\ QueueGood(c2, Append(cl, rec), rec.key, <<>>, <<>>)
              /\ \A x \in Key \ {rec.key} : /\ Rest(c2, Append(cl, rec), x) = Rest(c2, cl, x)
                                            /\ Afterwards(c2, Append(cl, rec), x) = Afterwards(c2, cl, x)
                                            /\ AllFull(cl, x) => AllFull(Append(cl, rec), x)
          BY <1>4, <1>6, <3>6, <3>11, <4>1, Closes
        <4> QED
          BY <3>7, <3>9, <4>2
      <3>13. ASSUME NEW x \in Key
             PROVE  QueueGood(c2, t.closed, x, t.sysq[x], t.details[x]) /\ Len(t.sysq[x]) < Window
        <4>1. CASE x = key
          BY <1>4, <3>8, <3>12, <4>1, AscendsEmpty
        <4>2. CASE x # key
          BY <2>4, <3>8, <3>12, <4>2 DEF QueueGood
        <4> QED
          BY <4>1, <4>2
      <3>14. \A x \in Key : x \notin Range(order') => t.sysq[x] = <<>>
        BY <1>3, <2>3, <2>7, <3>8
      <3>15. st' = t
        BY DEF t
      <3> USE DEF c2, c
      <3> QED
        BY <1>1, <1>2, <2>7, <3>2, <3>6, <3>12, <3>13, <3>14, <3>15, ReadAssemble
    <2> QED
      BY <2>8, <2>9
  <1> QED
    BY <1>9, <1>10, <1>11

-----------------------------------------------------------------------------
(* Flushing the rest, writing and aggregating.                             *)

LEMMA ReadCorruptStep ==
    ASSUME WInv, ReadCorrupt
    PROVE  WInv'
  <1>1. /\ doing' = "ended" /\ status' = 1
        /\ UNCHANGED <<opt, capture, st, order, lost, exists, stats, cache, rows>>
    BY DEF ReadCorrupt
  <1>2. WTyped'
    <2>1. StateOK(st)' /\ SamplesFit(st)'
      BY <1>1, StateKept DEF WInv, WTyped
    <2>2. status' \in -1 .. 2
      BY <1>1
    <2> QED
      BY <1>1, <2>1, <2>2 DEF WInv, WTyped
  <1>3. ClosedGood(capture, st.closed)'
    BY <1>1, ClosedKept DEF WInv
  <1>4. Queues'
    BY <1>1 DEF WInv, Queues
  <1>5. Losses'
    BY <1>1 DEF WInv, Losses
  <1>6. Sources'
    BY <1>1 DEF WInv, Sources
  <1> QED
    BY <1>2, <1>3, <1>4, <1>5, <1>6 DEF WInv

LEMMA ReadEndStep ==
    ASSUME WInv, ReadEnd
    PROVE  WInv'
  <1>1. /\ doing = "read" /\ doing' = "flush"
        /\ UNCHANGED <<opt, capture, st, order, lost, status, exists, stats, cache, rows>>
    BY DEF ReadEnd
  <1>2. WTyped'
    <2>1. StateOK(st)' /\ SamplesFit(st)'
      BY <1>1, StateKept DEF WInv, WTyped
    <2> QED
      BY <1>1, <2>1 DEF WInv, WTyped
  <1>3. ClosedGood(capture, st.closed)'
    BY <1>1, ClosedKept DEF WInv
  <1>4. Queues'
    <2>1. ASSUME NEW key \in Key, key \notin Range(order)
          PROVE  Cardinality(Rest(capture, st.closed, key)) < opt.min_len
      <3>1. st.sysq[key] = <<>> /\ Range(st.sysq[key]) = Rest(capture, st.closed, key)
        BY <1>1, <2>1 DEF WInv, Queues, QueueGood
      <3>2. Rest(capture, st.closed, key) = {}
        BY <3>1, AscendsEmpty
      <3>3. opt.min_len \in Nat \ {0}
        BY WindowsAssumption DEF WInv, WTyped
      <3> QED
        BY <3>2, <3>3, FS_EmptySet
    <2> QED
      BY <1>1, <2>1 DEF WInv, Queues
  <1>5. Losses'
    BY <1>1 DEF WInv, Losses
  <1>6. Sources'
    BY <1>1 DEF WInv, Sources
  <1> QED
    BY <1>2, <1>3, <1>4, <1>5, <1>6 DEF WInv

LEMMA FlushRestStep ==
    ASSUME WInv, FlushRest
    PROVE  WInv'
  <1> DEFINE key == Head(order)
             t == st'
             c == capture
             cl == st.closed
             rec == Closing(st, key)
  <1>1. /\ doing = "flush" /\ order # <<>> /\ t \in flush(st, key, TRUE) /\ order' = Tail(order)
        /\ UNCHANGED <<opt, capture, lost, doing, status, exists, stats, cache, rows>>
    BY DEF FlushRest
  <1>2. /\ opt \in Options /\ c \in Seq(Frames) /\ StateOK(st) /\ SamplesFit(st) /\ st.written <= Len(cl)
        /\ order \in Seq(Key) /\ ClosedGood(c, cl) /\ cl \in Seq(Record)
        /\ \A x \in Key : st.sysq[x] \in Seq(Nat) /\ st.details[x] \in Seq(Nat)
        /\ \A i, j \in DOMAIN order : order[i] = order[j] => i = j
        /\ Range(st.lines) \subseteq Range(cl)
        /\ \A u \in Units(opt) : Range(st.samples[u]) \subseteq Range(cl)
    BY StateFields DEF WInv, WTyped, Queues, Sources
  <1>3. \A x \in Key :
           /\ x \in Range(order) => /\ QueueGood(c, cl, x, st.sysq[x], st.details[x])
                                    /\ Len(st.sysq[x]) < Window
           /\ x \notin Range(order) => st.sysq[x] = <<>> /\ Cardinality(Rest(c, cl, x)) < opt.min_len
           /\ Range(st.sysq[x]) \cup Range(st.details[x]) \subseteq DOMAIN c
    BY <1>1 DEF WInv, Queues
  <1>4. /\ Tail(order) \in Seq(Key) /\ key \in Key /\ Range(order) = Range(Tail(order)) \cup {key}
        /\ key \notin Range(Tail(order))
        /\ \A i, j \in DOMAIN Tail(order) : Tail(order)[i] = Tail(order)[j] => i = j
    <2> DEFINE rest == Tail(order)
    <2>1. /\ rest \in Seq(Key) /\ DOMAIN order = 1 .. Len(order) /\ Len(order) \in Nat \ {0}
          /\ DOMAIN rest = 1 .. Len(order) - 1 /\ \A i \in DOMAIN rest : rest[i] = order[i + 1]
          /\ key = order[1]
      BY <1>1, <1>2
    <2>2. key \in Key
      BY <1>2, <2>1
    <2> HIDE DEF rest, key
    <2>3. \A i \in DOMAIN rest : i + 1 \in DOMAIN order /\ i + 1 # 1
      BY <2>1
    <2>4. \A i \in DOMAIN order : i = 1 \/ (i - 1 \in DOMAIN rest /\ rest[i - 1] = order[i])
      BY <2>1
    <2>5. \A i, j \in DOMAIN rest : rest[i] = rest[j] => i = j
      <3> SUFFICES ASSUME NEW i \in DOMAIN rest, NEW j \in DOMAIN rest, rest[i] = rest[j] PROVE i = j
        OBVIOUS
      <3>1. i + 1 \in DOMAIN order /\ j + 1 \in DOMAIN order /\ order[i + 1] = order[j + 1]
        BY <2>1, <2>3
      <3>2. i + 1 = j + 1
        BY <1>2, <3>1
      <3> QED
        BY <2>1, <3>2
    <2>6. key \notin Range(rest)
      <3> SUFFICES ASSUME NEW i \in DOMAIN rest, rest[i] = key PROVE FALSE
        BY DEF Range
      <3>1. i + 1 \in DOMAIN order /\ i + 1 # 1 /\ 1 \in DOMAIN order /\ order[i + 1] = order[1]
        BY <2>1, <2>3
      <3> QED
        BY <1>2, <3>1
    <2>7. Range(order) = Range(rest) \cup {key}
      <3>1. ASSUME NEW x \in Range(order) PROVE x \in Range(rest) \cup {key}
        <4>1. PICK i \in DOMAIN order : x = order[i]
          BY DEF Range
        <4> QED
          BY <2>1, <2>4, <4>1 DEF Range
      <3>2. ASSUME NEW x \in Range(rest) PROVE x \in Range(order)
        <4>1. PICK i \in DOMAIN rest : x = rest[i]
          BY DEF Range
        <4> QED
          BY <2>1, <2>3, <4>1 DEF Range
      <3>3. key \in Range(order)
        <4>1. 1 \in DOMAIN order
          BY <2>1
        <4> QED
          BY <2>1, <4>1 DEF Range
      <3> QED
        BY <3>1, <3>2, <3>3
    <2> QED
      BY <2>1, <2>2, <2>5, <2>6, <2>7 DEF rest
  <1>5. /\ StateOK(t) /\ SamplesFit(t) /\ (Cuts(st, t, key) \/ Drops(st, t, key))
        /\ \A u \in Units(opt) : Range(t.samples[u]) \subseteq Range(st.samples[u]) \cup {rec}
    <2> HIDE DEF key, t
    <2>1. TRUE \in BOOLEAN
      OBVIOUS
    <2>2. StateOK(st) /\ SamplesFit(st)
      BY <1>2
    <2> QED
      BY <1>1, <1>2, <1>4, <2>1, <2>2, FlushFacts DEF rec
  <1> HIDE DEF key, t, c, cl, rec
  <1>6. /\ t.sysq[key] = <<>> /\ t.details[key] = <<>>
        /\ \A x \in Key : x # key => t.sysq[x] = st.sysq[x] /\ t.details[x] = st.details[x]
    <2>1. st.sysq \in [Key -> Seq(Nat)] /\ st.details \in [Key -> Seq(Nat)]
      BY <1>2, StateFields
    <2>2. t.sysq = [st.sysq EXCEPT ![key] = <<>>] /\ t.details = [st.details EXCEPT ![key] = <<>>]
      BY <1>5 DEF Cuts, Drops
    <2> QED
      BY <1>4, <2>1, <2>2
  <1>7. /\ ClosedGood(c, t.closed) /\ t.written <= Len(t.closed)
        /\ Range(t.lines) \subseteq Range(t.closed)
        /\ \A u \in Units(opt) : Range(t.samples[u]) \subseteq Range(t.closed)
        /\ Cardinality(Rest(c, t.closed, key)) < opt.min_len
        /\ \A x \in Key \ {key} : /\ Rest(c, t.closed, x) = Rest(c, cl, x)
                                  /\ Afterwards(c, t.closed, x) = Afterwards(c, cl, x)
                                  /\ AllFull(cl, x) => AllFull(t.closed, x)
    <2>1. QueueGood(c, cl, key, st.sysq[key], st.details[key]) /\ Len(st.sysq[key]) < Window
      BY <1>3, <1>4
    <2>2. opt.min_len \in 1 .. Window /\ Window \in Nat \ {0}
      BY <1>2, WindowsAssumption
    <2>3. CASE Cuts(st, t, key)
      <3>1. /\ Range(t.lines) \subseteq Range(t.closed)
            /\ \A u \in Units(opt) : Range(t.samples[u]) \subseteq Range(t.closed)
            /\ t.written <= Len(t.closed) /\ rec \in Record
        BY <1>2, <1>4, <1>5, <2>3, CutSources DEF rec, cl
      <3>2. rec.key = key /\ rec.unit = UnitOf(key) /\ rec.syscalls = st.sysq[key] /\ rec.details = st.details[key]
        BY DEF rec, Closing
      <3>3. t.closed = Append(cl, rec) /\ Len(st.sysq[key]) >= opt.min_len
        BY <2>3 DEF Cuts, rec, cl
      <3>4. /\ QueueGood(c, cl, rec.key, rec.syscalls, rec.details) /\ rec.unit = UnitOf(rec.key)
            /\ Len(rec.syscalls) \in opt.min_len .. Window /\ Len(rec.syscalls) # Window
        <4>1. Len(st.sysq[key]) \in Nat
          BY <1>2, <1>4
        <4> QED
          BY <2>1, <2>2, <3>2, <3>3, <4>1
      <3>5. /\ ClosedGood(c, Append(cl, rec)) /\ Rest(c, Append(cl, rec), rec.key) = {}
            /\ \A x \in Key \ {rec.key} : /\ Rest(c, Append(cl, rec), x) = Rest(c, cl, x)
                                          /\ Afterwards(c, Append(cl, rec), x) = Afterwards(c, cl, x)
                                          /\ AllFull(cl, x) => AllFull(Append(cl, rec), x)
        BY <1>2, <3>1, <3>4, Closes
      <3>6. Cardinality(Rest(c, t.closed, key)) < opt.min_len
        <4>1. Rest(c, t.closed, key) = {}
          BY <3>2, <3>3, <3>5
        <4> QED
          BY <2>2, <4>1, FS_EmptySet
      <3> QED
        BY <3>1, <3>2, <3>3, <3>5, <3>6
    <2>4. CASE Drops(st, t, key)
      <3>1. t.closed = cl /\ Ignores(st, t) /\ Len(st.sysq[key]) < opt.min_len
        BY <2>4 DEF Drops, cl
      <3>2. Cardinality(Rest(c, cl, key)) < opt.min_len
        <4> DEFINE q == st.sysq[key]
        <4>1. q \in Seq(Nat) /\ Ascends(q) /\ Range(q) = Rest(c, cl, key)
          BY <1>2, <1>4, <2>1 DEF QueueGood
        <4> HIDE DEF q
        <4>2. Cardinality(Range(q)) = Len(q)
          BY <4>1, AscendsCard
        <4> QED
          BY <3>1, <4>1, <4>2 DEF q
      <3> QED
        BY <1>2, <3>1, <3>2 DEF Ignores
    <2> QED
      BY <1>5, <2>3, <2>4
  <1>8. WTyped'
    <2>1. StateOK(st)' /\ SamplesFit(st)'
      BY <1>1, <1>5, StateKept DEF t
    <2>2. (st.written <= Len(st.closed))'
      BY <1>7 DEF t
    <2> QED
      BY <1>1, <1>4, <2>1, <2>2 DEF WInv, WTyped
  <1>9. ClosedGood(capture, st.closed)'
    BY <1>1, <1>7, ClosedKept DEF t, c
  <1>10. Queues'
    <2>1. ASSUME NEW x \in Key
          PROVE  /\ x \in Range(order') => /\ QueueGood(c, t.closed, x, t.sysq[x], t.details[x])
                                           /\ Len(t.sysq[x]) < Window
                 /\ x \notin Range(order') => t.sysq[x] = <<>> /\ Cardinality(Rest(c, t.closed, x)) < opt.min_len
                 /\ Range(t.sysq[x]) \cup Range(t.details[x]) \subseteq DOMAIN c
      <3>1. CASE x = key
        <4>1. x \notin Range(order')
          BY <1>1, <1>4, <3>1
        <4> QED
          BY <1>6, <1>7, <3>1, <4>1, AscendsEmpty
      <3>2. CASE x # key
        <4>1. x \in Range(order') <=> x \in Range(order)
          BY <1>1, <1>4, <3>2
        <4>2. t.sysq[x] = st.sysq[x] /\ t.details[x] = st.details[x]
              /\ Rest(c, t.closed, x) = Rest(c, cl, x) /\ Afterwards(c, t.closed, x) = Afterwards(c, cl, x)
              /\ (AllFull(cl, x) => AllFull(t.closed, x))
          BY <1>6, <1>7, <3>2
        <4>3. QueueGood(c, cl, x, st.sysq[x], st.details[x]) => QueueGood(c, t.closed, x, t.sysq[x], t.details[x])
          BY <4>2 DEF QueueGood
        <4> QED
          BY <1>3, <4>1, <4>2, <4>3
      <3> QED
        BY <3>1, <3>2
    <2>2. \A i, j \in DOMAIN order' : order'[i] = order'[j] => i = j
      BY <1>1, <1>4
    <2>3. doing' = "flush"
      BY <1>1
    <2> QED
      BY <1>1, <2>1, <2>2, <2>3 DEF Queues, t, c
  <1>11. Losses'
    BY <1>1 DEF WInv, Losses
  <1>12. Sources'
    BY <1>1, <1>7 DEF Sources, t
  <1> QED
    BY <1>8, <1>9, <1>10, <1>11, <1>12 DEF WInv

LEMMA WriteOutputStep ==
    ASSUME WInv, WriteOutput
    PROVE  WInv'
  <1> DEFINE W == Written
             t == [st EXCEPT !.lines = W]
  <1>1. /\ doing = "flush" /\ order = <<>> /\ st' = t /\ status' = ExitStatus
        /\ doing' \in {"aggregate", "ended"}
        /\ UNCHANGED <<opt, capture, order, lost, exists, stats, cache, rows>>
    BY DEF WriteOutput
  <1>2. W \in Seq(Record) /\ Range(W) \subseteq Range(st.closed)
    BY WrittenFacts DEF WInv, WTyped, Sources
  <1>3. StateOK(st) /\ SamplesFit(st) /\ opt \in Options
    BY DEF WInv, WTyped
  <1> HIDE DEF W
  <1>4. /\ StateOK(t) /\ t.lines = W /\ t.sysq = st.sysq /\ t.details = st.details /\ t.samples = st.samples
        /\ t.closed = st.closed /\ t.written = st.written
    <2>1. t = [sysq |-> st.sysq, details |-> st.details, samples |-> st.samples, seen_u |-> st.seen_u,
               lines |-> W, written |-> st.written, closed |-> st.closed]
      BY <1>3, StateFields
    <2> HIDE DEF t
    <2>2. StateOK(t)
      BY <1>2, <1>3, <2>1, StateFields DEF StateOK
    <2> QED
      BY <2>1, <2>2
  <1> HIDE DEF t
  <1>5. SamplesFit(t)
    BY <1>3, <1>4 DEF SamplesFit
  <1>6. WTyped'
    <2>1. StateOK(st)' /\ SamplesFit(st)'
      BY <1>1, <1>4, <1>5, StateKept
    <2>2. status' \in -1 .. 2
      BY <1>1 DEF ExitStatus
    <2>3. (st.written <= Len(st.closed))'
      BY <1>1, <1>4 DEF WInv, WTyped
    <2> QED
      BY <1>1, <2>1, <2>2, <2>3 DEF WInv, WTyped
  <1>7. ClosedGood(capture, st.closed)'
    BY <1>1, <1>4, ClosedKept DEF WInv
  <1>8. Queues'
    <2>1. Range(order) = {}
      BY <1>1, AscendsEmpty
    <2>2. \A x \in Key : /\ Cardinality(Rest(capture, st.closed, x)) < opt.min_len
                         /\ Range(st.sysq[x]) \cup Range(st.details[x]) \subseteq DOMAIN capture
      BY <1>1, <2>1 DEF WInv, Queues
    <2>3. \A i, j \in DOMAIN order' : order'[i] = order'[j] => i = j
      BY <1>1
    <2> QED
      BY <1>1, <1>4, <2>1, <2>2, <2>3 DEF Queues
  <1>9. Losses'
    <2>1. status' = 0 => ~lost \/ opt.ignore
      BY <1>1 DEF ExitStatus
    <2> QED
      BY <1>1, <2>1 DEF WInv, Losses
  <1>10. Sources'
    BY <1>1, <1>2, <1>4 DEF WInv, Sources
  <1> QED
    BY <1>6, <1>7, <1>8, <1>9, <1>10 DEF WInv

\* Every line is a window, of frames of the capture.
LEMMA LinesFacts ==
    ASSUME WInv, NEW i \in DOMAIN st.lines
    PROVE  /\ st.lines[i] \in Record /\ \E k \in DOMAIN st.closed : st.lines[i] = st.closed[k]
           /\ Range(st.lines[i].details) \subseteq DOMAIN capture
           /\ Range(st.lines[i].syscalls) \subseteq DOMAIN capture
  <1>1. PICK k \in DOMAIN st.closed : st.lines[i] = st.closed[k]
    BY DEF WInv, Sources, Range
  <1>2. st.closed[k] \in Record
    BY DEF WInv, WTyped, StateOK
  <1>3. WindowGood(capture, st.closed, k)
    BY DEF WInv, ClosedGood
  <1> QED
    BY <1>1, <1>2, <1>3 DEF WindowGood, During, OfIn

LEMMA PathsFacts ==
    ASSUME WInv, NEW recs, recs \subseteq DOMAIN st.lines
    PROVE  /\ \A d \in Details(recs) : FrameOfDetail(d) \in Frames /\ PathOf(d) \in Path
           /\ Paths(recs) \subseteq Path
  <1>1. ASSUME NEW d \in Details(recs) PROVE FrameOfDetail(d) \in Frames /\ PathOf(d) \in Path
    <2>1. PICK i \in recs : d \in {i} \X DOMAIN st.lines[i].details
      BY DEF Details
    <2>2. d[1] = i /\ d[2] \in DOMAIN st.lines[i].details
      BY <2>1
    <2>3. st.lines[i].details[d[2]] \in DOMAIN capture
      BY <2>2, LinesFacts DEF Range
    <2>4. capture \in Seq(Frames)
      BY DEF WInv, WTyped
    <2>5. FrameOfDetail(d) \in Frames
      BY <2>2, <2>3, <2>4 DEF FrameOfDetail
    <2> QED
      BY <2>5, WindowsAssumption DEF PathOf
  <1> QED
    BY <1>1 DEF Paths, Files

LEMMA AggregateStep ==
    ASSUME WInv, AggregateRow \/ AggregateSave \/ StatChanges \/ UNCHANGED wvars
    PROVE  WInv'
  <1>1. UNCHANGED <<opt, capture, st, order, lost, status>>
    BY DEF AggregateRow, AggregateSave, StatChanges, wvars
  <1>2. doing' = doing \/ doing' = "ended"
    BY DEF AggregateRow, AggregateSave, StatChanges, wvars
  <1>3. exists' \in [Path -> BOOLEAN]
    <2>1. exists \in [Path -> BOOLEAN]
      BY DEF WInv, WTyped
    <2>2. exists' = exists \/ \E p \in Path : exists' = [exists EXCEPT ![p] = ~@]
      BY DEF AggregateRow, AggregateSave, StatChanges, wvars
    <2> QED
      BY <2>1, <2>2
  <1>4. DOMAIN cache' \subseteq Path
    <2>1. DOMAIN cache \subseteq Path
      BY DEF WInv, WTyped
    <2>2. CASE AggregateRow
      <3>1. PICK b \in Buckets : cache' = Looked(Paths(Bucket(b)))
        BY <2>2 DEF AggregateRow
      <3>2. Paths(Bucket(b)) \subseteq Path
        <4>1. Bucket(b) \subseteq DOMAIN st.lines
          BY DEF Bucket
        <4> QED
          BY <4>1, PathsFacts
      <3>3. DOMAIN cache' = DOMAIN cache \cup Paths(Bucket(b))
        BY <3>1 DEF Looked
      <3> QED
        BY <2>1, <3>2, <3>3
    <2>3. CASE cache' = cache
      BY <2>1, <2>3
    <2> QED
      BY <2>2, <2>3 DEF AggregateSave, StatChanges, wvars
  <1>5. WTyped'
    <2>1. StateOK(st)' /\ SamplesFit(st)'
      BY <1>1, StateKept DEF WInv, WTyped
    <2> QED
      BY <1>1, <1>2, <1>3, <1>4, <2>1 DEF WInv, WTyped
  <1>6. ClosedGood(capture, st.closed)'
    BY <1>1, ClosedKept DEF WInv
  <1>7. Queues'
    BY <1>1, <1>2 DEF WInv, Queues
  <1>8. Losses'
    BY <1>1, <1>2 DEF WInv, Losses
  <1>9. Sources'
    BY <1>1 DEF WInv, Sources
  <1> QED
    BY <1>5, <1>6, <1>7, <1>8, <1>9 DEF WInv

LEMMA UpTo ==
    ASSUME NEW n \in Nat
    PROVE  IsFiniteSet(1 .. n) /\ Cardinality(1 .. n) = n
  <1>1. n \in Int /\ 1 \in Int /\ (1 > n => n = 0)
    OBVIOUS
  <1> QED
    BY <1>1, FS_Interval

\* Windows have a first syscall each, and no two have the same.
LEMMA WindowCount ==
    ASSUME WInv
    PROVE  Len(st.closed) <= Len(capture) /\ Len(st.closed) \in Nat
  <1> DEFINE cl == st.closed
             c == capture
             D == 1 .. Len(cl)
             first == [k \in D |-> cl[k].syscalls[1]]
             image == {first[k] : k \in D}
  <1>1. cl \in Seq(Record) /\ c \in Seq(Frames) /\ opt \in Options /\ ClosedGood(c, cl)
    BY DEF WInv, WTyped, StateOK
  <1>2. DOMAIN cl = D /\ Len(cl) \in Nat /\ DOMAIN c = 1 .. Len(c) /\ Len(c) \in Nat
    BY <1>1
  <1>3. opt.min_len \in Nat /\ opt.min_len >= 1 /\ Window \in Nat
    BY <1>1, WindowsAssumption
  <1> HIDE DEF cl, c
  <1>4. ASSUME NEW k \in D
        PROVE  /\ first[k] \in Range(cl[k].syscalls) /\ first[k] \in DOMAIN c /\ c[first[k]].key = cl[k].key
               /\ cl[k].key \in Key
    <2>1. WindowGood(c, cl, k) /\ cl[k] \in Record
      BY <1>1, <1>2 DEF ClosedGood
    <2>2. cl[k].syscalls \in Seq(Nat) /\ Len(cl[k].syscalls) >= 1 /\ cl[k].key \in Key
      BY <1>3, <2>1 DEF WindowGood, Record
    <2>3. 1 \in DOMAIN cl[k].syscalls
      BY <2>2
    <2>4. first[k] \in Range(cl[k].syscalls)
      BY <2>3 DEF Range
    <2> QED
      BY <2>1, <2>2, <2>4 DEF WindowGood, OfIn
  <1>5. ASSUME NEW j \in D, NEW k \in D, j < k PROVE first[j] # first[k]
    <2>1. CASE cl[j].key = cl[k].key
      <3>1. PairGood(cl, j, k)
        BY <1>1, <1>2 DEF ClosedGood
      <3>2. first[j] < first[k]
        BY <1>4, <1>5, <2>1, <3>1 DEF PairGood
      <3>3. first[j] \in Nat
        BY <1>2, <1>4
      <3> QED
        BY <3>2, <3>3
    <2>2. CASE cl[j].key # cl[k].key
      BY <1>4, <2>2
    <2> QED
      BY <2>1, <2>2
  <1>6. \A j, k \in D : first[j] = first[k] => j = k
    <2>1. \A j, k \in D : j < k \/ k < j \/ j = k
      BY <1>2
    <2>2. \A j, k \in D : j < k => first[j] # first[k]
      BY <1>5
    <2> HIDE DEF first, D
    <2> QED
      BY <2>1, <2>2
  <1>7. IsFiniteSet(D) /\ Cardinality(D) = Len(cl)
    BY <1>2, UpTo
  <1>8. image \subseteq 1 .. Len(c)
    BY <1>2, <1>4
  <1> HIDE DEF first, D
  <1>9. Cardinality(image) = Cardinality(D)
    BY <1>6, <1>7, ImageFinite
  <1>10. IsFiniteSet(1 .. Len(c)) /\ Cardinality(1 .. Len(c)) = Len(c)
    BY <1>2, UpTo
  <1>11. Cardinality(image) <= Len(c)
    BY <1>8, <1>10, FS_Subset
  <1> QED
    BY <1>2, <1>7, <1>9, <1>11 DEF cl, c

LEMMA WindowsHold ==
    ASSUME WInv
    PROVE  WindowsExact
  <1> DEFINE c == capture
             cl == st.closed
  <1>0. /\ opt \in Options /\ cl \in Seq(Record) /\ c \in Seq(Frames) /\ Len(c) <= MaxFrames
        /\ StateOK(st) /\ SamplesFit(st) /\ st.written <= Len(cl) /\ lost \in BOOLEAN
        /\ doing \in {"read", "flush", "aggregate", "ended"} /\ status \in -1 .. 2
        /\ exists \in [Path -> BOOLEAN] /\ DOMAIN cache \subseteq Path
    BY DEF WInv, WTyped, StateOK
  <1>1. ClosedGood(c, cl)
    BY DEF WInv
  <1>2. /\ \A key, types : Of(key, types) = OfIn(c, key, types)
        /\ \A key : ClosedOf(key) = Places(cl, key)
        /\ \A w : EndOf(w) = EndIn(c, w)
    BY DEF Of, OfIn, ClosedOf, Places, EndOf, EndIn
  <1>3. WindowsTypeOK
    <2>1. DOMAIN st.samples = Units(opt) /\ st.written \in Nat
      BY <1>0 DEF StateOK
    <2>2. \A k \in Key : Range(st.sysq[k]) \cup Range(st.details[k]) \subseteq DOMAIN capture
      BY DEF WInv, Queues
    <2>3. st.written \in 0 .. MaxFrames
      BY <1>0, <2>1, WindowCount, WindowsAssumption
    <2> QED
      BY <1>0, <2>1, <2>2, <2>3 DEF WindowsTypeOK, SamplesFit
  <1>4. WindowsPartition
    <2> SUFFICES ASSUME NEW key \in Key
                 PROVE  /\ Inside(cl, key) \subseteq OfIn(c, key, {"syscall"})
                        /\ \A i \in Inside(cl, key), r \in Rest(c, cl, key) : i < r
                        /\ \A k \in Places(cl, key) : Ascends(cl[k].syscalls)
                        /\ \A j, k \in Places(cl, key) : PairGood(cl, j, k) /\ cl[j].key = cl[k].key
                        /\ doing = "read" =>
                              /\ Ascends(st.sysq[key]) /\ Range(st.sysq[key]) = Rest(c, cl, key)
                              /\ Len(st.sysq[key]) < Window
                        /\ doing = "aggregate" => Cardinality(Rest(c, cl, key)) < opt.min_len
      BY <1>2 DEF WindowsPartition, Inside, Rest, PairGood
    <2>1. Inside(cl, key) \subseteq OfIn(c, key, {"syscall"})
      <3>1. \A k \in Places(cl, key) : Range(cl[k].syscalls) \subseteq OfIn(c, key, {"syscall"})
        BY <1>1 DEF Places, ClosedGood, WindowGood
      <3> QED
        BY <3>1 DEF Inside
    <2>2. /\ \A k \in Places(cl, key) : Ascends(cl[k].syscalls)
          /\ \A j, k \in Places(cl, key) : PairGood(cl, j, k) /\ cl[j].key = cl[k].key
          /\ \A i \in Inside(cl, key), r \in Rest(c, cl, key) : i < r
      BY <1>1 DEF Places, ClosedGood, WindowGood
    <2>3. doing = "read" => /\ Ascends(st.sysq[key]) /\ Range(st.sysq[key]) = Rest(c, cl, key)
                            /\ Len(st.sysq[key]) < Window
      BY DEF WInv, Queues, QueueGood
    <2>4. doing = "aggregate" => Cardinality(Rest(c, cl, key)) < opt.min_len
      <3>1. doing = "aggregate" => key \notin Range(order)
        BY AscendsEmpty DEF WInv, Queues
      <3> QED
        BY <3>1 DEF WInv, Queues
    <2> QED
      BY <2>1, <2>2, <2>3, <2>4
  <1>5. DetailsInWindow
    <2> SUFFICES ASSUME NEW k \in DOMAIN cl
                 PROVE  Ascends(cl[k].details) /\ Range(cl[k].details) = During(c, cl, k)
      BY <1>2 DEF DetailsInWindow, During
    <2> QED
      BY <1>1 DEF ClosedGood, WindowGood
  <1>6. UnitContainsStart
    <2> SUFFICES ASSUME NEW k \in DOMAIN cl, opt.tl # <<>>
                 PROVE  LET around == {i \in DOMAIN opt.tl :
                                 opt.tl[i].start <= cl[k].key.start /\ cl[k].key.start <= opt.tl[i].end}
                        IN IF around = {} THEN cl[k].unit = NoUnit
                           ELSE \E i \in around : cl[k].unit = opt.tl[i].unit
      BY DEF UnitContainsStart
    <2>1. cl[k].key \in Key /\ cl[k].unit = UnitOf(cl[k].key)
      <3>1. cl[k] \in Record /\ WindowGood(c, cl, k)
        BY <1>0, <1>1 DEF ClosedGood
      <3> QED
        BY <3>1 DEF Record, WindowGood
    <2>2. cl[k].key.start \in Nat
      BY <2>1, WindowsAssumption
    <2>3. cl[k].unit = label_of(cl[k].key.start)
      BY <2>1 DEF UnitOf
    <2> HIDE DEF cl
    <2> QED
      BY <1>0, <2>2, <2>3, UnitFacts
  <1>7. LossRefused
    BY DEF WInv, Losses, LossRefused
  <1> QED
    BY <1>3, <1>4, <1>5, <1>6, <1>7 DEF WindowsExact

LEMMA WindowsNext ==
    ASSUME WInv, [WNext]_wvars
    PROVE  WInv'
  BY ReadFrameStep, ReadCorruptStep, ReadEndStep, FlushRestStep, WriteOutputStep, AggregateStep DEF WNext

\* The windows of extract.py: each syscall of a process is in one window, or in the queue of
\* the process, or among the few left over; what the process opened or connected to is in the
\* window it fell in, however the records are sampled afterwards.
THEOREM WindowsRight == WSpec => []WindowsExact
  <1>1. WInit => WInv
    BY WindowsInit
  <1>2. WInv /\ [WNext]_wvars => WInv'
    BY WindowsNext
  <1>3. WInv => WindowsExact
    BY WindowsHold
  <1> QED
    BY <1>1, <1>2, <1>3, PTL DEF WSpec

-----------------------------------------------------------------------------
(* All records, when none is sampled.                                      *)

Labelled(cl) == {k \in DOMAIN cl : cl[k].unit # NoUnit}

Matched(lines, cl, h) ==
    h \in Bijection(DOMAIN lines, Labelled(cl)) /\ \A i \in DOMAIN lines : lines[i] = cl[h[i]]

AllWritten(s) == opt.mode \in {"slim", "all"} => \E h : Matched(s.lines, s.closed, h)

\* One more line for one more window of a unit.
LEMMA MatchedMore ==
    ASSUME NEW lines \in Seq(Record), NEW cl \in Seq(Record), NEW h, Matched(lines, cl, h),
           NEW rec \in Record, rec.unit # NoUnit
    PROVE  \E g : Matched(Append(lines, rec), Append(cl, rec), g)
  <1> DEFINE more == Append(lines, rec)
             cl2 == Append(cl, rec)
             m == Len(lines) + 1
             n == Len(cl) + 1
             g == [i \in DOMAIN more |-> IF i = m THEN n ELSE h[i]]
  <1>1. /\ DOMAIN lines = 1 .. Len(lines) /\ DOMAIN more = 1 .. m /\ Len(lines) \in Nat
        /\ more[m] = rec /\ \A i \in DOMAIN lines : i \in DOMAIN more /\ more[i] = lines[i]
        /\ \A i \in DOMAIN more : i \in DOMAIN lines \/ i = m
    BY AppendFacts
  <1>2. /\ DOMAIN cl = 1 .. Len(cl) /\ DOMAIN cl2 = 1 .. n /\ Len(cl) \in Nat
        /\ cl2[n] = rec /\ \A i \in DOMAIN cl : i \in DOMAIN cl2 /\ cl2[i] = cl[i]
        /\ \A i \in DOMAIN cl2 : i \in DOMAIN cl \/ i = n
    BY AppendFacts
  <1>3. m \notin DOMAIN lines /\ n \notin DOMAIN cl /\ m \in DOMAIN more /\ n \in DOMAIN cl2
    BY <1>1, <1>2
  <1> HIDE DEF more, cl2, m, n
  <1>4. Labelled(cl2) = Labelled(cl) \cup {n} /\ n \notin Labelled(cl)
    BY <1>2, <1>3 DEF Labelled
  <1>5. /\ h \in [DOMAIN lines -> Labelled(cl)]
        /\ \A i, j \in DOMAIN lines : h[i] = h[j] => i = j
        /\ \A k \in Labelled(cl) : \E i \in DOMAIN lines : h[i] = k
        /\ \A i \in DOMAIN lines : lines[i] = cl[h[i]]
    BY DEF Matched, Bijection, Injection, IsInjective, Surjection
  <1>6. g \in [DOMAIN more -> Labelled(cl2)]
    BY <1>1, <1>4, <1>5
  <1>7. /\ g[m] = n /\ \A i \in DOMAIN lines : g[i] = h[i]
    BY <1>1, <1>3
  <1> HIDE DEF g
  <1>8. \A i, j \in DOMAIN more : g[i] = g[j] => i = j
    BY <1>1, <1>4, <1>5, <1>7
  <1>9. \A k \in Labelled(cl2) : \E i \in DOMAIN more : g[i] = k
    BY <1>1, <1>3, <1>4, <1>5, <1>7
  <1>10. \A i \in DOMAIN more : more[i] = cl2[g[i]]
    <2>1. \A i \in DOMAIN lines : h[i] \in DOMAIN cl
      BY <1>5 DEF Labelled
    <2> QED
      BY <1>1, <1>2, <1>5, <1>7, <2>1
  <1>11. g \in Bijection(DOMAIN more, Labelled(cl2))
    BY <1>6, <1>8, <1>9 DEF Bijection, Injection, IsInjective, Surjection
  <1> QED
    BY <1>10, <1>11 DEF Matched, more, cl2

\* A window without a unit is not written.
LEMMA MatchedSame ==
    ASSUME NEW lines \in Seq(Record), NEW cl \in Seq(Record), NEW h, Matched(lines, cl, h),
           NEW rec \in Record, rec.unit = NoUnit
    PROVE  Matched(lines, Append(cl, rec), h)
  <1> DEFINE cl2 == Append(cl, rec)
             n == Len(cl) + 1
  <1>1. /\ cl2[n] = rec /\ \A i \in DOMAIN cl : i \in DOMAIN cl2 /\ cl2[i] = cl[i]
        /\ \A i \in DOMAIN cl2 : i \in DOMAIN cl \/ i = n
    BY AppendFacts
  <1> HIDE DEF cl2
  <1>2. Labelled(cl2) = Labelled(cl)
    BY <1>1 DEF Labelled
  <1>3. \A i \in DOMAIN lines : h[i] \in DOMAIN cl
    BY DEF Matched, Bijection, Injection, Labelled
  <1>4. Matched(lines, cl2, h)
    BY <1>1, <1>2, <1>3 DEF Matched
  <1> QED
    BY <1>4 DEF cl2

LEMMA FlushWritten ==
    ASSUME opt \in Options, NEW s, StateOK(s), NEW t, NEW key \in Key, AllWritten(s),
           Cuts(s, t, key) \/ Drops(s, t, key) \/ t = s
    PROVE  AllWritten(t)
  <1> SUFFICES ASSUME opt.mode \in {"slim", "all"}
               PROVE  \E h : Matched(t.lines, t.closed, h)
    BY DEF AllWritten
  <1>1. PICK h : Matched(s.lines, s.closed, h)
    BY DEF AllWritten
  <1>2. CASE Drops(s, t, key) \/ t = s
    BY <1>1, <1>2 DEF Drops, Ignores
  <1>3. CASE Cuts(s, t, key)
    <2> DEFINE rec == Closing(s, key)
    <2>1. rec.unit = UnitOf(key)
      BY DEF Closing
    <2>2. rec \in Record
      <3>1. s.sysq[key] \in Seq(Nat) /\ s.details[key] \in Seq(Nat)
        BY StateFields
      <3>2. UnitOf(key) \in Units(opt) \cup {NoUnit}
        BY UnitOfType
      <3> QED
        BY <3>1, <3>2 DEF Closing, Record
    <2>3. s.lines \in Seq(Record) /\ s.closed \in Seq(Record)
      BY StateFields
    <2>4. t.closed = Append(s.closed, rec)
      BY <1>3 DEF Cuts
    <2> HIDE DEF rec
    <2>5. CASE UnitOf(key) = NoUnit
      <3>1. t.lines = s.lines
        BY <1>3, <2>5 DEF Cuts, Ignores
      <3>2. Matched(s.lines, Append(s.closed, rec), h)
        BY <1>1, <2>1, <2>2, <2>3, <2>5, MatchedSame
      <3> QED
        BY <2>4, <3>1, <3>2
    <2>6. CASE UnitOf(key) # NoUnit
      <3>1. t.lines = Append(s.lines, rec)
        BY <1>3, <2>6 DEF Cuts, Records, rec
      <3>2. \E g : Matched(Append(s.lines, rec), Append(s.closed, rec), g)
        BY <1>1, <2>1, <2>2, <2>3, <2>6, MatchedMore
      <3> QED
        BY <2>4, <3>1, <3>2
    <2> QED
      BY <2>5, <2>6
  <1> QED
    BY <1>2, <1>3

-----------------------------------------------------------------------------
(* The rows.                                                               *)

\* What a row says of its records.
RowGood(r) ==
    /\ r.b \in Buckets
    /\ r.label = label(Bucket(r.b)) /\ r.technique = technique(Bucket(r.b))
    /\ r.features.nw = Cardinality(Bucket(r.b))
    /\ r.features.seq_total = Cardinality(Calls(Bucket(r.b)))
    /\ r.features.n_uniq = n_uniq(Bucket(r.b))
    /\ r.features.nf = Cardinality(Files(Bucket(r.b))) /\ r.features.missing <= r.features.nf
    /\ r.features.dfrac = dfrac(Bucket(r.b))
    /\ r.features.nets = Cardinality(Details(Bucket(r.b)) \ Files(Bucket(r.b)))

Seen(r, c) == DOMAIN r.seen \subseteq DOMAIN c /\ \A p \in DOMAIN r.seen : r.seen[p] = c[p]

RowsOf ==
    /\ rows \in Seq(Range(rows))
    /\ doing \in {"read", "flush"} => rows = <<>>
    /\ \A k \in DOMAIN rows : RowGood(rows[k]) /\ Seen(rows[k], cache)
    /\ \A j, k \in DOMAIN rows : rows[j].b = rows[k].b => j = k
    /\ \A p \in DOMAIN cache : p.pid => cache[p]

RInv == WInv /\ AllWritten(st) /\ RowsOf

LEMMA RowKept ==
    ASSUME UNCHANGED <<opt, st, capture>>, NEW r, RowGood(r)
    PROVE  RowGood(r)'
  <1>1. Buckets' = Buckets
    BY DEF Buckets, BucketAt
  <1>2. \A b : Bucket(b)' = Bucket(b)
    BY DEF Bucket, BucketAt
  <1>3. \A recs : label(recs)' = label(recs)
    BY DEF label
  <1>4. \A recs : technique(recs)' = technique(recs)
    BY DEF technique, label
  <1>5. \A recs : Calls(recs)' = Calls(recs) /\ Details(recs)' = Details(recs)
    BY DEF Calls, Details
  <1>6. \A recs : n_uniq(recs)' = n_uniq(recs)
    BY DEF n_uniq, Calls, FidOf
  <1>7. \A recs : Files(recs)' = Files(recs)
    BY DEF Files, Details, FrameOfDetail
  <1>8. \A recs : dfrac(recs)' = dfrac(recs)
    BY DEF dfrac, Files, Details, FrameOfDetail, PathOf
  <1> QED
    BY <1>1, <1>2, <1>3, <1>4, <1>5, <1>6, <1>7, <1>8 DEF RowGood

\* There are finitely many of everything.
LEMMA RecordsFinite ==
    ASSUME WInv, NEW recs, recs \subseteq DOMAIN st.lines
    PROVE  /\ IsFiniteSet(recs) /\ IsFiniteSet(Calls(recs)) /\ IsFiniteSet(Details(recs))
           /\ IsFiniteSet(Files(recs)) /\ Files(recs) \subseteq Details(recs)
  <1>1. st.lines \in Seq(Record)
    BY DEF WInv, WTyped, StateOK
  <1>2. DOMAIN st.lines = 1 .. Len(st.lines) /\ Len(st.lines) \in Nat
    BY <1>1
  <1>3. IsFiniteSet(1 .. Len(st.lines))
    BY <1>2, UpTo
  <1>4. IsFiniteSet(recs)
    BY <1>2, <1>3, FS_Subset
  <1>5. ASSUME NEW i \in recs
        PROVE  IsFiniteSet({i} \X DOMAIN st.lines[i].syscalls) /\ IsFiniteSet({i} \X DOMAIN st.lines[i].details)
    <2>1. st.lines[i] \in Record
      BY LinesFacts
    <2>2. st.lines[i].syscalls \in Seq(Nat) /\ st.lines[i].details \in Seq(Nat)
      BY <2>1 DEF Record
    <2> DEFINE q == st.lines[i].syscalls
               d == st.lines[i].details
    <2>3. q \in Seq(Nat) /\ d \in Seq(Nat)
      BY <2>2
    <2> HIDE DEF q, d
    <2>4. DOMAIN q = 1 .. Len(q) /\ Len(q) \in Nat /\ DOMAIN d = 1 .. Len(d) /\ Len(d) \in Nat
      BY <2>3
    <2>5. IsFiniteSet(1 .. Len(q)) /\ IsFiniteSet(1 .. Len(d))
      BY <2>4, UpTo
    <2>6. IsFiniteSet(DOMAIN q) /\ IsFiniteSet(DOMAIN d) /\ IsFiniteSet({i})
      BY <2>4, <2>5, FS_Singleton, Zenon
    <2>7. IsFiniteSet({i} \X DOMAIN q) /\ IsFiniteSet({i} \X DOMAIN d)
      BY <2>6, FS_Product
    <2> QED
      BY <2>7 DEF q, d
  <1> DEFINE calls == [i \in recs |-> {i} \X DOMAIN st.lines[i].syscalls]
             details == [i \in recs |-> {i} \X DOMAIN st.lines[i].details]
             C == {calls[i] : i \in recs}
             D == {details[i] : i \in recs}
  <1>6. Calls(recs) = UNION C /\ Details(recs) = UNION D
    BY DEF Calls, Details
  <1>7. (\A T \in C : IsFiniteSet(T)) /\ \A T \in D : IsFiniteSet(T)
    BY <1>5
  <1> HIDE DEF calls, details
  <1>8. IsFiniteSet(C) /\ IsFiniteSet(D)
    BY <1>4, ImageFinite
  <1> HIDE DEF C, D
  <1>9. IsFiniteSet(UNION C) /\ IsFiniteSet(UNION D)
    BY <1>7, <1>8, FS_UNION
  <1>10. Files(recs) \subseteq Details(recs)
    BY DEF Files
  <1>11. IsFiniteSet(Details(recs))
    BY <1>6, <1>9
  <1>12. IsFiniteSet(Files(recs))
    BY <1>10, <1>11, FS_Subset
  <1> QED
    BY <1>4, <1>6, <1>9, <1>10, <1>11, <1>12

\* What is looked up stays what it is, and below /proc/<pid> it is there.
LEMMA LookedFacts ==
    ASSUME NEW paths, \A p \in DOMAIN cache : p.pid => cache[p]
    PROVE  /\ DOMAIN Looked(paths) = DOMAIN cache \cup paths
           /\ \A p \in DOMAIN cache : Looked(paths)[p] = cache[p]
           /\ \A p \in paths : Looked(paths)[p] = get(p)
           /\ \A p \in DOMAIN Looked(paths) : p.pid => Looked(paths)[p]
  <1> DEFINE c == Looked(paths)
  <1>1. DOMAIN c = DOMAIN cache \cup paths /\ \A p \in DOMAIN c : c[p] = get(p)
    BY DEF Looked
  <1>2. \A p \in DOMAIN cache : get(p) = cache[p]
    BY DEF get
  <1>3. ASSUME NEW p \in DOMAIN c, p.pid PROVE c[p]
    <2>1. CASE p \in DOMAIN cache
      BY <1>1, <1>2, <1>3, <2>1
    <2>2. CASE p \notin DOMAIN cache
      <3>1. get(p) = (p.pid \/ exists[p])
        BY <2>2 DEF get
      <3>2. get(p) = TRUE
        BY <1>3, <3>1
      <3> HIDE DEF c
      <3> QED
        BY <1>1, <3>2
    <2> QED
      BY <2>1, <2>2
  <1> QED
    BY <1>1, <1>2, <1>3

LEMMA RowsInit ==
    ASSUME WInit
    PROVE  RInv
  <1>1. WInv
    BY WindowsInit
  <1>2. AllWritten(st)
    <2>1. st.lines = <<>> /\ st.closed = <<>>
      BY DEF WInit
    <2>2. Matched(<<>>, <<>>, <<>>)
      <3>1. DOMAIN <<>> = {}
        OBVIOUS
      <3>2. Labelled(<<>>) = {}
        BY <3>1 DEF Labelled
      <3>3. <<>> \in [{} -> {}]
        OBVIOUS
      <3> QED
        BY <3>1, <3>2, <3>3 DEF Matched, Bijection, Injection, IsInjective, Surjection
    <2> QED
      BY <2>1, <2>2 DEF AllWritten
  <1>3. RowsOf
    <2>1. rows = <<>> /\ cache = <<>> /\ DOMAIN <<>> = {}
      BY DEF WInit
    <2>2. <<>> \in Seq(Range(<<>>))
      OBVIOUS
    <2> QED
      BY <2>1, <2>2 DEF RowsOf
  <1> QED
    BY <1>1, <1>2, <1>3 DEF RInv

LEMMA WrittenKept ==
    ASSUME opt' = opt, NEW t, AllWritten(t), st' = t
    PROVE  AllWritten(st)'
  BY DEF AllWritten

\* Until the output is written there are no rows.
LEMMA ExtractStep ==
    ASSUME RInv, ReadFrame \/ ReadCorrupt \/ ReadEnd \/ FlushRest \/ WriteOutput
    PROVE  AllWritten(st)' /\ RowsOf'
  <1>1. /\ opt \in Options /\ StateOK(st) /\ SamplesFit(st) /\ AllWritten(st) /\ capture \in Seq(Frames)
        /\ order \in Seq(Key) /\ cache' = cache /\ rows' = rows /\ opt' = opt
    BY DEF RInv, WInv, WTyped, ReadFrame, ReadCorrupt, ReadEnd, FlushRest, WriteOutput
  <1>2. rows = <<>>
    BY DEF RInv, RowsOf, ReadFrame, ReadCorrupt, ReadEnd, FlushRest, WriteOutput
  <1>3. RowsOf'
    <2>1. DOMAIN rows = {} /\ rows \in Seq(Range(rows)) /\ \A p \in DOMAIN cache : p.pid => cache[p]
      BY <1>2 DEF RInv, RowsOf
    <2> QED
      BY <1>1, <1>2, <2>1 DEF RowsOf
  <1>4. CASE ReadFrame
    <2>1. PICK f \in Frames :
             /\ capture' = Append(capture, f)
             /\ CASE f.type = "syscall" -> Syscall(f.key, Len(capture'))
                  [] f.type \in {"open", "connect"} ->
                       /\ st' = [st EXCEPT !.details[f.key] = Append(@, Len(capture'))]
                       /\ UNCHANGED order
                  [] OTHER -> UNCHANGED <<st, order>>
      BY <1>4 DEF ReadFrame
    <2> DEFINE n == Len(capture')
               key == f.key
    <2>2. n \in Nat /\ key \in Key
      BY <1>1, <2>1, WindowsAssumption
    <2> HIDE DEF n
    <2>3. CASE f.type = "syscall"
      <3> DEFINE s == [st EXCEPT !.sysq[key] = Append(@, n)]
      <3>1. st' \in (IF Len(s.sysq[key]) >= Window THEN flush(s, key, FALSE) ELSE {s})
        BY <2>1, <2>3 DEF Syscall, n
      <3>2. StateOK(s) /\ SamplesFit(s) /\ s.closed = st.closed /\ Ignores(st, s)
        BY <1>1, <2>2, QueuedSyscall
      <3> HIDE DEF s
      <3>3. AllWritten(s)
        BY <1>1, <3>2 DEF Ignores, AllWritten
      <3>4. CASE st' = s
        BY <1>1, <1>3, <3>3, <3>4, WrittenKept
      <3>5. CASE st' \in flush(s, key, FALSE)
        <4>1. PICK t \in flush(s, key, FALSE) : st' = t
          BY <3>5
        <4>2. Cuts(s, t, key) \/ t = s
          BY <1>1, <2>2, <3>2, FlushFacts
        <4>3. AllWritten(t)
          BY <1>1, <2>2, <3>2, <3>3, <4>2, FlushWritten
        <4> QED
          BY <1>1, <1>3, <4>1, <4>3, WrittenKept
      <3> QED
        BY <1>3, <3>1, <3>4, <3>5
    <2>4. CASE f.type \in {"open", "connect"}
      <3> DEFINE t == [st EXCEPT !.details[key] = Append(@, n)]
      <3>1. st' = t
        BY <2>1, <2>4 DEF n
      <3>2. t.closed = st.closed /\ Ignores(st, t)
        BY <1>1, <2>2, QueuedDetail
      <3> HIDE DEF t
      <3>3. AllWritten(t)
        BY <1>1, <3>2 DEF Ignores, AllWritten
      <3> QED
        BY <1>1, <1>3, <3>1, <3>3, WrittenKept
    <2>5. CASE f.type \notin {"syscall", "open", "connect"}
      <3>1. st' = st
        BY <2>1, <2>5
      <3> QED
        BY <1>1, <1>3, <3>1, WrittenKept
    <2> QED
      BY <2>3, <2>4, <2>5
  <1>5. CASE ReadCorrupt \/ ReadEnd
    <2>1. st' = st
      BY <1>5 DEF ReadCorrupt, ReadEnd
    <2> QED
      BY <1>1, <1>3, <2>1, WrittenKept
  <1>6. CASE FlushRest
    <2> DEFINE key == Head(order)
    <2>1. PICK t \in flush(st, key, TRUE) : st' = t
      BY <1>6 DEF FlushRest
    <2>2. key \in Key
      BY <1>1, <1>6 DEF FlushRest
    <2>3. Cuts(st, t, key) \/ Drops(st, t, key)
      BY <1>1, <2>2, FlushFacts
    <2>4. AllWritten(t)
      BY <1>1, <2>2, <2>3, FlushWritten
    <2> QED
      BY <1>1, <1>3, <2>1, <2>4, WrittenKept
  <1>7. CASE WriteOutput
    <2> DEFINE W == Written
               t == [st EXCEPT !.lines = W]
    <2>1. st' = t
      BY <1>7 DEF WriteOutput
    <2>2. opt.mode \in {"slim", "all"} => W = st.lines
      BY DEF Written
    <2> HIDE DEF W
    <2>3. opt.mode \in {"slim", "all"} => t = st
      BY <1>1, <2>2 DEF StateOK
    <2>4. AllWritten(t)
      <3> HIDE DEF t
      <3> QED
        BY <1>1, <2>3 DEF AllWritten
    <2> HIDE DEF t
    <2> QED
      BY <1>1, <1>3, <2>1, <2>4, WrittenKept
  <1> QED
    BY <1>4, <1>5, <1>6, <1>7

LEMMA RowStep ==
    ASSUME RInv, AggregateRow
    PROVE  RowsOf'
  <1>1. /\ doing = "aggregate" /\ UNCHANGED <<opt, capture, st, doing>>
    BY DEF AggregateRow
  <1>2. PICK b \in Buckets :
           /\ \A k \in DOMAIN rows : rows[k].b # b
           /\ rows' = Append(rows, [b |-> b, label |-> label(Bucket(b)), technique |-> technique(Bucket(b)),
                                    features |-> bucket_features(Bucket(b)),
                                    seen |-> [p \in Paths(Bucket(b)) |-> get(p)]])
           /\ cache' = Looked(Paths(Bucket(b)))
    BY DEF AggregateRow
  <1> DEFINE recs == Bucket(b)
             e == [b |-> b, label |-> label(recs), technique |-> technique(recs),
                   features |-> bucket_features(recs), seen |-> [p \in Paths(recs) |-> get(p)]]
  <1>3. /\ DOMAIN cache' = DOMAIN cache \cup Paths(recs)
        /\ \A p \in DOMAIN cache : cache'[p] = cache[p]
        /\ \A p \in Paths(recs) : cache'[p] = get(p)
        /\ \A p \in DOMAIN cache' : p.pid => cache'[p]
    BY <1>2, LookedFacts DEF RInv, RowsOf
  <1>4. Seen(e, cache')
    BY <1>3 DEF Seen
  <1>5. e.features.missing <= e.features.nf
    <2> DEFINE gone == {d \in Files(recs) : ~get(PathOf(d))}
    <2>1. IsFiniteSet(Files(recs)) /\ gone \subseteq Files(recs)
      BY RecordsFinite DEF RInv, Bucket
    <2>2. e.features.missing = Cardinality(gone) /\ e.features.nf = Cardinality(Files(recs))
      BY DEF bucket_features
    <2> HIDE DEF gone, e
    <2> QED
      BY <2>1, <2>2, FS_Subset
  <1>6. RowGood(e)
    <2>1. e.b = b /\ e.label = label(recs) /\ e.technique = technique(recs)
      OBVIOUS
    <2>2. /\ e.features.nw = Cardinality(recs) /\ e.features.seq_total = Cardinality(Calls(recs))
          /\ e.features.n_uniq = n_uniq(recs) /\ e.features.nf = Cardinality(Files(recs))
          /\ e.features.dfrac = dfrac(recs) /\ e.features.nets = Cardinality(Details(recs) \ Files(recs))
      BY DEF bucket_features
    <2> HIDE DEF e
    <2> QED
      BY <1>2, <1>5, <2>1, <2>2 DEF RowGood
  <1>7. e.b = b /\ rows' = Append(rows, e)
    BY <1>2
  <1> HIDE DEF e
  <1> DEFINE S == Range(rows) \cup {e}
             more == Append(rows, e)
             n == Len(rows) + 1
  <1>8. rows \in Seq(S) /\ e \in S
    BY DEF RInv, RowsOf
  <1>9. /\ more \in Seq(S) /\ more[n] = e /\ Range(more) = S
        /\ \A k \in DOMAIN rows : k \in DOMAIN more /\ more[k] = rows[k]
        /\ \A k \in DOMAIN more : k \in DOMAIN rows \/ k = n
    <2> HIDE DEF S
    <2>1. Range(more) = Range(rows) \cup {e}
      BY <1>8, AppendFacts
    <2> QED
      BY <1>8, <2>1, AppendFacts DEF S
  <1> HIDE DEF S, n, more
  <1>10. \A k \in DOMAIN rows : Seen(rows[k], cache')
    BY <1>3 DEF RInv, RowsOf, Seen
  <1>11. \A k \in DOMAIN more : RowGood(more[k]) /\ Seen(more[k], cache')
    BY <1>4, <1>6, <1>9, <1>10 DEF RInv, RowsOf
  <1>12. \A r : RowGood(r) => RowGood(r)'
    BY <1>1, RowKept
  <1>13. \A j, k \in DOMAIN more : more[j].b = more[k].b => j = k
    BY <1>2, <1>7, <1>9 DEF RInv, RowsOf
  <1>14. rows' = more /\ more \in Seq(Range(more))
    BY <1>7, <1>9 DEF more
  <1> QED
    BY <1>1, <1>3, <1>11, <1>12, <1>13, <1>14 DEF RowsOf

LEMMA RowsNext ==
    ASSUME RInv, [WNext]_wvars
    PROVE  RInv'
  <1>1. WInv'
    BY WindowsNext DEF RInv
  <1>2. CASE ReadFrame \/ ReadCorrupt \/ ReadEnd \/ FlushRest \/ WriteOutput
    BY <1>1, <1>2, ExtractStep DEF RInv
  <1>3. CASE AggregateRow
    <2>1. opt' = opt /\ st' = st
      BY <1>3 DEF AggregateRow
    <2>2. AllWritten(st)'
      BY <2>1, WrittenKept DEF RInv
    <2> QED
      BY <1>1, <1>3, <2>2, RowStep DEF RInv
  <1>4. CASE AggregateSave \/ StatChanges \/ UNCHANGED wvars
    <2>1. UNCHANGED <<opt, capture, st, cache, rows>> /\ (doing' = doing \/ doing' = "ended")
      BY <1>4 DEF AggregateSave, StatChanges, wvars
    <2>2. AllWritten(st)'
      BY <2>1, WrittenKept DEF RInv
    <2>3. \A k \in DOMAIN rows : RowGood(rows[k])'
      BY <2>1, RowKept DEF RInv, RowsOf
    <2>4. RowsOf'
      BY <2>1, <2>3 DEF RInv, RowsOf
    <2> QED
      BY <1>1, <2>2, <2>4 DEF RInv
  <1> QED
    BY <1>2, <1>3, <1>4 DEF WNext

\* When there are as many rows as buckets, every record is in the bucket of one row.
LEMMA RowsCover ==
    ASSUME RInv, Len(rows) = Cardinality(Buckets)
    PROVE  /\ IsFiniteSet(DOMAIN rows)
           /\ \A k \in DOMAIN rows : Bucket(rows[k].b) \subseteq DOMAIN st.lines
           /\ \A j, k \in DOMAIN rows : j # k => Bucket(rows[j].b) \cap Bucket(rows[k].b) = {}
           /\ \A i \in DOMAIN st.lines : \E k \in DOMAIN rows : i \in Bucket(rows[k].b)
  <1> DEFINE D == DOMAIN rows
             b == [k \in D |-> rows[k].b]
             at == [i \in DOMAIN st.lines |-> BucketAt(st.lines[i])]
             image == {b[k] : k \in D}
  <1>1. DOMAIN rows = 1 .. Len(rows) /\ Len(rows) \in Nat
    BY DEF RInv, RowsOf
  <1>2. IsFiniteSet(1 .. Len(rows)) /\ Cardinality(1 .. Len(rows)) = Len(rows)
    BY <1>1, UpTo
  <1>3. IsFiniteSet(D) /\ Cardinality(D) = Len(rows)
    BY <1>1, <1>2, Zenon
  <1>4. IsFiniteSet(DOMAIN st.lines)
    BY RecordsFinite DEF RInv
  <1>5. Buckets = {at[i] : i \in DOMAIN st.lines}
    BY DEF Buckets
  <1>6. IsFiniteSet(Buckets)
    <2> HIDE DEF at
    <2> QED
      BY <1>4, <1>5, ImageFinite
  <1>7. \A j, k \in D : b[j] = b[k] => j = k
    BY DEF RInv, RowsOf
  <1>8. image \subseteq Buckets
    BY DEF RInv, RowsOf, RowGood
  <1>9. Cardinality(image) = Cardinality(D)
    <2> HIDE DEF b, D
    <2> QED
      BY <1>3, <1>7, ImageFinite
  <1>10. image = Buckets
    <2> HIDE DEF image, D
    <2> QED
      BY <1>3, <1>6, <1>8, <1>9, FS_Subset
  <1>11. \A k \in D : Bucket(rows[k].b) \subseteq DOMAIN st.lines
    BY DEF Bucket
  <1>12. \A j, k \in D : j # k => Bucket(rows[j].b) \cap Bucket(rows[k].b) = {}
    BY <1>7 DEF Bucket
  <1>13. ASSUME NEW i \in DOMAIN st.lines PROVE \E k \in D : i \in Bucket(rows[k].b)
    <2>1. BucketAt(st.lines[i]) \in image
      BY <1>10 DEF Buckets
    <2>2. PICK k \in D : BucketAt(st.lines[i]) = rows[k].b
      BY <2>1
    <2> QED
      BY <2>2 DEF Bucket
  <1> QED
    BY <1>3, <1>11, <1>12, <1>13

\* The syscalls and details of the rows are those of the labelled windows.
LEMMA RecordsMatch ==
    ASSUME RInv, opt.mode \in {"slim", "all"}
    PROVE  /\ Cardinality(Calls(DOMAIN st.lines))
                = Cardinality(UNION {{k} \X DOMAIN st.closed[k].syscalls : k \in Labelled(st.closed)})
           /\ Cardinality(Details(DOMAIN st.lines))
                = Cardinality(UNION {{k} \X DOMAIN st.closed[k].details : k \in Labelled(st.closed)})
  <1> DEFINE L == DOMAIN st.lines
             C == Calls(L)
             D == Details(L)
  <1>1. PICK h : Matched(st.lines, st.closed, h)
    BY DEF RInv, AllWritten
  <1>2. /\ h \in [L -> Labelled(st.closed)]
        /\ \A i, j \in L : h[i] = h[j] => i = j
        /\ \A k \in Labelled(st.closed) : \E i \in L : h[i] = k
        /\ \A i \in L : st.lines[i] = st.closed[h[i]]
    BY <1>1 DEF Matched, Bijection, Injection, IsInjective, Surjection
  <1>3. IsFiniteSet(C) /\ IsFiniteSet(D)
    BY RecordsFinite DEF RInv
  <1>4. /\ \A c : c \in C <=> \E i \in L : c \in {i} \X DOMAIN st.lines[i].syscalls
        /\ \A d : d \in D <=> \E i \in L : d \in {i} \X DOMAIN st.lines[i].details
    BY DEF Calls, Details
  <1> DEFINE f == [c \in C |-> <<h[c[1]], c[2]>>]
             g == [d \in D |-> <<h[d[1]], d[2]>>]
             CC == UNION {{k} \X DOMAIN st.closed[k].syscalls : k \in Labelled(st.closed)}
             DD == UNION {{k} \X DOMAIN st.closed[k].details : k \in Labelled(st.closed)}
  <1> HIDE DEF L, C, D
  <1>5. ASSUME NEW c \in C
        PROVE  c = <<c[1], c[2]>> /\ c[1] \in L /\ c[2] \in DOMAIN st.lines[c[1]].syscalls
    <2>1. PICK i \in L : c \in {i} \X DOMAIN st.lines[i].syscalls
      BY <1>4
    <2> QED
      BY <2>1
  <1>6. ASSUME NEW d \in D
        PROVE  d = <<d[1], d[2]>> /\ d[1] \in L /\ d[2] \in DOMAIN st.lines[d[1]].details
    <2>1. PICK i \in L : d \in {i} \X DOMAIN st.lines[i].details
      BY <1>4
    <2> QED
      BY <2>1
  <1>7. /\ \A i \in L : \A j \in DOMAIN st.lines[i].syscalls : <<i, j>> \in C
        /\ \A i \in L : \A j \in DOMAIN st.lines[i].details : <<i, j>> \in D
    BY <1>4
  <1>8. \A x, y \in C : f[x] = f[y] => x = y
    BY <1>2, <1>5
  <1>9. \A x, y \in D : g[x] = g[y] => x = y
    BY <1>2, <1>6
  <1>10. {f[c] : c \in C} = CC
    <2>1. ASSUME NEW c \in C PROVE f[c] \in CC
      <3>1. h[c[1]] \in Labelled(st.closed) /\ c[2] \in DOMAIN st.closed[h[c[1]]].syscalls
        BY <1>2, <1>5
      <3> QED
        BY <3>1
    <2>2. ASSUME NEW e \in CC PROVE \E c \in C : e = f[c]
      <3>1. PICK k \in Labelled(st.closed) : e \in {k} \X DOMAIN st.closed[k].syscalls
        OBVIOUS
      <3>2. PICK i \in L : h[i] = k
        BY <1>2
      <3>3. e = <<k, e[2]>> /\ e[2] \in DOMAIN st.lines[i].syscalls
        BY <1>2, <3>1, <3>2
      <3>4. <<i, e[2]>> \in C
        BY <1>7, <3>3
      <3> QED
        BY <3>2, <3>3, <3>4
    <2> QED
      BY <2>1, <2>2
  <1>11. {g[d] : d \in D} = DD
    <2>1. ASSUME NEW d \in D PROVE g[d] \in DD
      <3>1. h[d[1]] \in Labelled(st.closed) /\ d[2] \in DOMAIN st.closed[h[d[1]]].details
        BY <1>2, <1>6
      <3> QED
        BY <3>1
    <2>2. ASSUME NEW e \in DD PROVE \E d \in D : e = g[d]
      <3>1. PICK k \in Labelled(st.closed) : e \in {k} \X DOMAIN st.closed[k].details
        OBVIOUS
      <3>2. PICK i \in L : h[i] = k
        BY <1>2
      <3>3. e = <<k, e[2]>> /\ e[2] \in DOMAIN st.lines[i].details
        BY <1>2, <3>1, <3>2
      <3>4. <<i, e[2]>> \in D
        BY <1>7, <3>3
      <3> QED
        BY <3>2, <3>3, <3>4
    <2> QED
      BY <2>1, <2>2
  <1>12. Cardinality(CC) = Cardinality(C) /\ Cardinality(DD) = Cardinality(D)
    <2> HIDE DEF f, g, CC, DD
    <2>1. Cardinality({f[c] : c \in C}) = Cardinality(C)
      BY <1>3, <1>8, ImageFinite
    <2>2. Cardinality({g[d] : d \in D}) = Cardinality(D)
      BY <1>3, <1>9, ImageFinite
    <2> QED
      BY <1>10, <1>11, <2>1, <2>2
  <1> QED
    BY <1>12 DEF C, D, L

\* The sums over the rows, from the same sums over the records.
LEMMA RowSums ==
    ASSUME RInv, Len(rows) = Cardinality(Buckets)
    PROVE  /\ SumFunction([k \in DOMAIN rows |-> rows[k].features.nw]) = Len(st.lines)
           /\ SumFunction([k \in DOMAIN rows |-> rows[k].features.seq_total])
                = Cardinality(Calls(DOMAIN st.lines))
           /\ SumFunction([k \in DOMAIN rows |-> rows[k].features.nf + rows[k].features.nets])
                = Cardinality(Details(DOMAIN st.lines))
  <1> DEFINE D == DOMAIN rows
             L == DOMAIN st.lines
             P == [k \in D |-> Bucket(rows[k].b)]
             C == [k \in D |-> Calls(Bucket(rows[k].b))]
             E == [k \in D |-> Details(Bucket(rows[k].b))]
             p == [k \in D |-> rows[k].features.nw]
             c == [k \in D |-> rows[k].features.seq_total]
             e == [k \in D |-> rows[k].features.nf + rows[k].features.nets]
  <1>1. /\ IsFiniteSet(D)
        /\ \A k \in D : P[k] \subseteq L
        /\ \A j, k \in D : j # k => P[j] \cap P[k] = {}
        /\ \A i \in L : \E k \in D : i \in P[k]
    BY RowsCover
  <1>2. WInv /\ \A k \in D : RowGood(rows[k])
    BY DEF RInv, RowsOf
  <1>3. ASSUME NEW k \in D
        PROVE  /\ IsFiniteSet(P[k]) /\ IsFiniteSet(C[k]) /\ IsFiniteSet(E[k])
               /\ p[k] = Cardinality(P[k]) /\ c[k] = Cardinality(C[k]) /\ e[k] = Cardinality(E[k])
    <2> DEFINE recs == Bucket(rows[k].b)
    <2>1. /\ IsFiniteSet(recs) /\ IsFiniteSet(Calls(recs)) /\ IsFiniteSet(Details(recs))
          /\ IsFiniteSet(Files(recs)) /\ Files(recs) \subseteq Details(recs)
      BY <1>1, <1>2, RecordsFinite
    <2>2. /\ p[k] = Cardinality(recs) /\ c[k] = Cardinality(Calls(recs))
          /\ e[k] = Cardinality(Files(recs)) + Cardinality(Details(recs) \ Files(recs))
      BY <1>2 DEF RowGood
    <2> HIDE DEF recs
    <2>3. Cardinality(Details(recs)) = Cardinality(Files(recs)) + Cardinality(Details(recs) \ Files(recs))
      <3> DEFINE A == Files(recs)
                 B == Details(recs)
      <3>1. A \cap B = A /\ B \cap A = A
        BY <2>1
      <3> HIDE DEF A, B
      <3>2. Cardinality(B \ A) = Cardinality(B) - Cardinality(B \cap A)
        BY <2>1, FS_Difference DEF A, B
      <3>3. Cardinality(A) \in Nat /\ Cardinality(B) \in Nat
        BY <2>1, FS_CardinalityType DEF A, B
      <3>4. Cardinality(B \cap A) = Cardinality(A)
        BY <3>1
      <3>5. Cardinality(B) = Cardinality(A) + Cardinality(B \ A)
        BY <3>2, <3>3, <3>4
      <3> QED
        BY <3>5 DEF A, B
    <2> HIDE DEF p, c, e
    <2> QED
      BY <2>1, <2>2, <2>3 DEF recs
  <1>4. /\ \A recs, x : x \in Calls(recs) <=> \E i \in recs : x \in {i} \X DOMAIN st.lines[i].syscalls
        /\ \A recs, x : x \in Details(recs) <=> \E i \in recs : x \in {i} \X DOMAIN st.lines[i].details
    BY DEF Calls, Details
  <1>5. \A j, k \in D : j # k => C[j] \cap C[k] = {} /\ E[j] \cap E[k] = {}
    <2> SUFFICES ASSUME NEW j \in D, NEW k \in D, j # k
                 PROVE  C[j] \cap C[k] = {} /\ E[j] \cap E[k] = {}
      OBVIOUS
    <2>1. P[j] \cap P[k] = {}
      BY <1>1
    <2>2. /\ \A x \in C[j] : x[1] \in P[j]
          /\ \A x \in C[k] : x[1] \in P[k]
          /\ \A x \in E[j] : x[1] \in P[j]
          /\ \A x \in E[k] : x[1] \in P[k]
      BY <1>4
    <2> HIDE DEF P, C, E
    <2> QED
      BY <2>1, <2>2
  <1>6. Together(P, D) = L
    <2> HIDE DEF P
    <2> QED
      BY <1>1 DEF Together
  <1>7. Together(C, D) = Calls(L)
    <2>1. \A x : (\E k \in D : x \in C[k]) <=> x \in Calls(L)
      <3>1. \A x : \A k \in D : x \in C[k] <=> \E i \in P[k] : x \in {i} \X DOMAIN st.lines[i].syscalls
        BY <1>4
      <3> HIDE DEF P, C
      <3> QED
        BY <1>1, <1>4, <3>1
    <2> HIDE DEF C
    <2> QED
      BY <2>1 DEF Together
  <1>8. Together(E, D) = Details(L)
    <2>1. \A x : (\E k \in D : x \in E[k]) <=> x \in Details(L)
      <3>1. \A x : \A k \in D : x \in E[k] <=> \E i \in P[k] : x \in {i} \X DOMAIN st.lines[i].details
        BY <1>4
      <3> HIDE DEF P, E
      <3> QED
        BY <1>1, <1>4, <3>1
    <2> HIDE DEF E
    <2> QED
      BY <2>1 DEF Together
  <1>9. Cardinality(L) = Len(st.lines)
    <2>1. L = 1 .. Len(st.lines) /\ Len(st.lines) \in Nat
      BY <1>2 DEF WInv, WTyped, StateOK
    <2>2. Cardinality(1 .. Len(st.lines)) = Len(st.lines)
      BY <2>1, UpTo
    <2> QED
      BY <2>1, <2>2, Zenon
  <1>10. SumFunction(p) = SumFunctionOnSet(p, D) /\ SumFunction(c) = SumFunctionOnSet(c, D)
         /\ SumFunction(e) = SumFunctionOnSet(e, D)
    <2>1. DOMAIN p = D /\ DOMAIN c = D /\ DOMAIN e = D
      OBVIOUS
    <2> HIDE DEF p, c, e
    <2> QED
      BY <2>1 DEF SumFunction
  <1>11. /\ SumFunctionOnSet(p, D) = Cardinality(Together(P, D))
         /\ SumFunctionOnSet(c, D) = Cardinality(Together(C, D))
         /\ SumFunctionOnSet(e, D) = Cardinality(Together(E, D))
    <2> HIDE DEF P, C, E, p, c, e, D
    <2> QED
      BY <1>1, <1>3, <1>5, SumDisjoint
  <1> QED
    <2> HIDE DEF p, c, e, P, C, E
    <2>1. SumFunction(p) = Len(st.lines) /\ SumFunction(c) = Cardinality(Calls(L))
          /\ SumFunction(e) = Cardinality(Details(L))
      BY <1>6, <1>7, <1>8, <1>9, <1>10, <1>11
    <2> QED
      BY <2>1 DEF p, c, e

\* Within a row no count is greater than the one it is a part of.
LEMMA RowFractions ==
    ASSUME RInv, NEW k \in DOMAIN rows
    PROVE  LET f == rows[k].features
           IN f.n_uniq <= f.seq_total /\ f.missing <= f.nf /\ SumFunction(f.dfrac) = f.nf
  <1> DEFINE f == rows[k].features
             recs == Bucket(rows[k].b)
             C == Calls(recs)
             F == Files(recs)
  <1>1. RowGood(rows[k]) /\ WInv /\ recs \subseteq DOMAIN st.lines
    BY DEF RInv, RowsOf, Bucket
  <1>2. IsFiniteSet(C) /\ IsFiniteSet(F)
    BY <1>1, RecordsFinite
  <1>3. /\ f.seq_total = Cardinality(C) /\ f.n_uniq = n_uniq(recs) /\ f.nf = Cardinality(F)
        /\ f.missing <= f.nf /\ f.dfrac = dfrac(recs)
    BY <1>1 DEF RowGood
  <1>4. n_uniq(recs) <= Cardinality(C)
    <2> DEFINE fid == [c \in C |-> FidOf(c)]
               pair == [c \in C |-> <<c[1], FidOf(c)>>]
    <2>1. n_uniq(recs) = IF opt.mode = "slim" THEN Cardinality({pair[c] : c \in C})
                         ELSE Cardinality({fid[c] : c \in C})
      <3>1. {pair[c] : c \in C} = {<<c[1], FidOf(c)>> : c \in C} /\ {fid[c] : c \in C} = {FidOf(c) : c \in C}
        OBVIOUS
      <3> QED
        BY <3>1 DEF n_uniq
    <2> HIDE DEF fid, pair, C
    <2>2. Cardinality({pair[c] : c \in C}) <= Cardinality(C) /\ Cardinality({fid[c] : c \in C}) <= Cardinality(C)
      BY <1>2, ImageFinite
    <2> QED
      BY <2>1, <2>2
  <1>5. SumFunction(dfrac(recs)) = Cardinality(F)
    <2> DEFINE d == dfrac(recs)
               P == [dir \in DIR_FRACS |-> {x \in F : PathOf(x).dir = dir}]
    <2>1. d = [dir \in DIR_FRACS |-> Cardinality({x \in F : PathOf(x).dir = dir})]
      BY DEF dfrac
    <2>2. DOMAIN d = DIR_FRACS /\ \A dir \in DIR_FRACS : d[dir] = Cardinality(P[dir])
      BY <2>1
    <2>3. IsFiniteSet(DIR_FRACS)
      BY WindowsAssumption
    <2>4. \A dir \in DIR_FRACS : IsFiniteSet(P[dir])
      <3> SUFFICES ASSUME NEW dir \in DIR_FRACS PROVE IsFiniteSet(P[dir])
        OBVIOUS
      <3>1. P[dir] \in SUBSET F
        OBVIOUS
      <3> HIDE DEF P, F
      <3> QED
        BY <1>2, <3>1, FS_Subset
    <2>5. \A a, b \in DIR_FRACS : a # b => P[a] \cap P[b] = {}
      OBVIOUS
    <2>6. Together(P, DIR_FRACS) = F
      <3>1. \A x \in F : PathOf(x).dir \in DIR_FRACS
        <4>1. \A x \in F : PathOf(x) \in Path
          BY <1>1, PathsFacts DEF Files
        <4> QED
          BY <4>1, WindowsAssumption
      <3> HIDE DEF F
      <3> QED
        BY <3>1 DEF Together
    <2> HIDE DEF P, d, F
    <2>7. SumFunctionOnSet(d, DIR_FRACS) = Cardinality(Together(P, DIR_FRACS))
      BY <2>2, <2>3, <2>4, <2>5, SumDisjoint
    <2> QED
      BY <2>2, <2>6, <2>7 DEF SumFunction, d
  <1> HIDE DEF C, F
  <1> QED
    BY <1>3, <1>4, <1>5

\* A bucket with an attack in it gets the label and the technique of an attack in it.
LEMMA RowLabel ==
    ASSUME RInv
    PROVE  AttackWins
  <1> SUFFICES ASSUME NEW k \in DOMAIN rows
               PROVE  LET units == {st.lines[i].unit : i \in Bucket(rows[k].b)}
                      IN /\ (\E u \in units : u[1] = "attack") => rows[k].label = "attack"
                         /\ (\E u \in units : u[1] = rows[k].label) =>
                               \E u \in units : u[1] = rows[k].label /\ u[2] = rows[k].technique
    BY DEF AttackWins
  <1> DEFINE recs == Bucket(rows[k].b)
             units == {st.lines[i].unit : i \in recs}
             found == {st.lines[i].unit[2] : i \in {j \in recs : st.lines[j].unit[1] = label(recs)}}
  <1>1. rows[k].label = label(recs) /\ rows[k].technique = technique(recs)
    BY DEF RInv, RowsOf, RowGood
  <1>2. (\E u \in units : u[1] = "attack") => label(recs) = "attack"
    BY DEF label
  <1>3. ASSUME NEW u \in units, u[1] = label(recs)
        PROVE  \E v \in units : v[1] = label(recs) /\ v[2] = technique(recs)
    <2>1. u[2] \in found
      BY <1>3
    <2>2. technique(recs) = IF found = {} THEN "" ELSE CHOOSE x \in found : TRUE
      BY DEF technique
    <2>3. technique(recs) \in found
      <3> HIDE DEF found
      <3> QED
        BY <2>1, <2>2
    <2>4. PICK i \in recs : st.lines[i].unit[1] = label(recs) /\ technique(recs) = st.lines[i].unit[2]
      BY <2>3
    <2> QED
      BY <2>4
  <1> HIDE DEF units
  <1>4. /\ (\E u \in units : u[1] = "attack") => rows[k].label = "attack"
        /\ (\E u \in units : u[1] = rows[k].label) =>
              \E u \in units : u[1] = rows[k].label /\ u[2] = rows[k].technique
    BY <1>1, <1>2, <1>3
  <1> QED
    BY <1>4 DEF units

LEMMA RowsHold ==
    ASSUME RInv
    PROVE  RowsExact
  <1>1. RowsConserve
    <2> SUFFICES ASSUME doing = "aggregate", Len(rows) = Cardinality(Buckets)
                 PROVE  LET labelled == {k \in DOMAIN st.closed : st.closed[k].unit # NoUnit}
                        IN /\ SumFunction([k \in DOMAIN rows |-> rows[k].features.nw]) = Len(st.lines)
                           /\ opt.mode \in {"slim", "all"} =>
                                /\ SumFunction([k \in DOMAIN rows |-> rows[k].features.seq_total])
                                     = Cardinality(UNION {{k} \X DOMAIN st.closed[k].syscalls : k \in labelled})
                                /\ SumFunction([k \in DOMAIN rows |-> rows[k].features.nf + rows[k].features.nets])
                                     = Cardinality(UNION {{k} \X DOMAIN st.closed[k].details : k \in labelled})
                           /\ \A k \in DOMAIN rows :
                                LET f == rows[k].features
                                IN f.n_uniq <= f.seq_total /\ f.missing <= f.nf /\ SumFunction(f.dfrac) = f.nf
      BY DEF RowsConserve
    <2> DEFINE labelled == {k \in DOMAIN st.closed : st.closed[k].unit # NoUnit}
    <2>1. labelled = Labelled(st.closed)
      BY DEF Labelled
    <2> HIDE DEF labelled
    <2>2. opt.mode \in {"slim", "all"} =>
             /\ Cardinality(Calls(DOMAIN st.lines))
                  = Cardinality(UNION {{k} \X DOMAIN st.closed[k].syscalls : k \in labelled})
             /\ Cardinality(Details(DOMAIN st.lines))
                  = Cardinality(UNION {{k} \X DOMAIN st.closed[k].details : k \in labelled})
      BY <2>1, RecordsMatch
    <2>3. /\ SumFunction([k \in DOMAIN rows |-> rows[k].features.nw]) = Len(st.lines)
          /\ SumFunction([k \in DOMAIN rows |-> rows[k].features.seq_total]) = Cardinality(Calls(DOMAIN st.lines))
          /\ SumFunction([k \in DOMAIN rows |-> rows[k].features.nf + rows[k].features.nets])
               = Cardinality(Details(DOMAIN st.lines))
      BY RowSums
    <2>4. \A k \in DOMAIN rows :
             /\ rows[k].features.n_uniq <= rows[k].features.seq_total
             /\ rows[k].features.missing <= rows[k].features.nf
             /\ SumFunction(rows[k].features.dfrac) = rows[k].features.nf
      BY RowFractions
    <2> DEFINE A == SumFunction([k \in DOMAIN rows |-> rows[k].features.nw])
               B == SumFunction([k \in DOMAIN rows |-> rows[k].features.seq_total])
               C == SumFunction([k \in DOMAIN rows |-> rows[k].features.nf + rows[k].features.nets])
               X == Cardinality(UNION {{k} \X DOMAIN st.closed[k].syscalls : k \in labelled})
               Y == Cardinality(UNION {{k} \X DOMAIN st.closed[k].details : k \in labelled})
    <2>5. A = Len(st.lines) /\ (opt.mode \in {"slim", "all"} => B = X /\ C = Y)
      BY <2>2, <2>3
    <2> HIDE DEF A, B, C, X, Y
    <2> QED
      BY <2>4, <2>5 DEF A, B, C, X, Y, labelled
  <1>2. AttackWins
    BY RowLabel
  <1>3. PermissionsAgree
    BY DEF RInv, RowsOf, Seen, PermissionsAgree
  <1> QED
    BY <1>1, <1>2, <1>3 DEF RowsExact

\* The rows of aggregate.py: every record is counted in just one, their syscalls and opens are
\* those of the labelled windows when none is sampled, the attack wins in a bucket, and the
\* permission of a path is the same in all rows, whatever changes in the file system meanwhile.
THEOREM RowsRight == WSpec => []RowsExact
  <1>1. WInit => RInv
    BY RowsInit
  <1>2. RInv /\ [WNext]_wvars => RInv'
    BY RowsNext
  <1>3. RInv => RowsExact
    BY RowsHold
  <1> QED
    BY <1>1, <1>2, <1>3, PTL DEF WSpec

-----------------------------------------------------------------------------
(* The sampling.                                                           *)

Distinct(s) == \A i, j \in DOMAIN s : s[i] = s[j] => i = j

Least(n, cap) == IF n < cap THEN n ELSE cap

LEMMA OfLength ==
    ASSUME NEW S, NEW n \in Nat, NEW f \in [1 .. n -> S]
    PROVE  f \in Seq(S) /\ Len(f) = n /\ DOMAIN f = 1 .. n
  <1>1. f \in Seq(S)
    OBVIOUS
  <1> QED
    BY <1>1

Sampling(t, res, cap, rec, j) ==
    /\ Distinct(t)
    /\ Len(t) = Least(Len(res) + 1, cap)
    /\ Len(res) < cap => Range(t) = Range(res) \cup {rec}
    /\ Len(res) = cap /\ j < cap => j + 1 \in DOMAIN res /\ Range(t) = (Range(res) \ {res[j + 1]}) \cup {rec}
    /\ Len(res) = cap /\ ~ (j < cap) => t = res

\* A record that is met enters a reservoir that is not full, and may replace a record of a full one.
LEMMA SampledRange ==
    ASSUME NEW S, NEW res \in Seq(S), NEW cap \in Nat \ {0}, Len(res) <= cap, Distinct(res),
           NEW rec \in S, rec \notin Range(res), NEW j \in Nat
    PROVE  /\ Sampled(res, cap, rec, j) \in Seq(S)
           /\ Sampling(Sampled(res, cap, rec, j), res, cap, rec, j)
  <1>1. DOMAIN res = 1 .. Len(res) /\ Len(res) \in Nat
    OBVIOUS
  <1> DEFINE t == Sampled(res, cap, rec, j)
             Claim == /\ t \in Seq(S) /\ Distinct(t)
                      /\ Len(t) = Least(Len(res) + 1, cap)
                      /\ Len(res) < cap => Range(t) = Range(res) \cup {rec}
                      /\ Len(res) = cap /\ j < cap =>
                            j + 1 \in DOMAIN res /\ Range(t) = (Range(res) \ {res[j + 1]}) \cup {rec}
                      /\ Len(res) = cap /\ ~ (j < cap) => t = res
  <1>0. (Len(res) < cap => ~ (Len(res) = cap)) /\ (Len(res) < cap \/ Len(res) = cap)
    <2> DEFINE n == Len(res)
    <2>1. n \in Nat /\ cap \in Nat /\ n <= cap
      OBVIOUS
    <2> HIDE DEF n
    <2>2. (n < cap => ~ (n = cap)) /\ (n < cap \/ n = cap)
      BY <2>1
    <2> QED
      BY <2>2 DEF n
  <1>2. ASSUME Len(res) < cap PROVE Claim
    <2> DEFINE new == Append(res, rec)
               m == Len(res) + 1
    <2>1. Sampled(res, cap, rec, j) = new
      BY <1>2 DEF Sampled
    <2>2. /\ new \in Seq(S) /\ Len(new) = m /\ new[m] = rec /\ Range(new) = Range(res) \cup {rec}
          /\ \A k \in DOMAIN res : new[k] = res[k]
          /\ \A k \in DOMAIN new : k \in DOMAIN res \/ k = m
      BY AppendFacts
    <2>3. \A k \in DOMAIN res : res[k] # rec
      BY DEF Range
    <2> HIDE DEF new
    <2>4. Distinct(new)
      BY <2>2, <2>3 DEF Distinct
    <2>5. m = Least(Len(res) + 1, cap)
      BY <1>1, <1>2 DEF Least
    <2>6. t = new
      BY <2>1 DEF new
    <2> HIDE DEF t, m
    <2>7. ~ (Len(res) = cap)
      BY <1>0, <1>2
    <2> QED
      BY <1>2, <2>2, <2>4, <2>5, <2>6, <2>7
  <1>3. ASSUME Len(res) = cap, j < cap PROVE Claim
    <2> DEFINE new == [res EXCEPT ![j + 1] = rec]
               p == j + 1
    <2>1. Sampled(res, cap, rec, j) = new
      BY <1>3 DEF Sampled
    <2>2. /\ DOMAIN new = DOMAIN res /\ p \in DOMAIN res /\ new[p] = rec
          /\ \A k \in DOMAIN res : k # p => new[k] = res[k]
      BY <1>1, <1>3
    <2>3. \A k \in DOMAIN res : res[k] # rec /\ res[k] \in S
      BY DEF Range
    <2>4. new \in Seq(S) /\ Len(new) = Len(res)
      <3>1. new \in [1 .. Len(res) -> S]
        BY <1>1, <2>2, <2>3
      <3> QED
        BY <1>1, <2>2, <3>1
    <2> HIDE DEF new, p
    <2>5. Distinct(new)
      BY <2>2, <2>3 DEF Distinct
    <2>6. Range(new) = (Range(res) \ {res[p]}) \cup {rec}
      <3>1. ASSUME NEW x \in Range(new) PROVE x \in (Range(res) \ {res[p]}) \cup {rec}
        <4>1. PICK k \in DOMAIN res : x = new[k]
          BY <2>2 DEF Range
        <4>2. CASE k = p
          BY <2>2, <4>1, <4>2
        <4>3. CASE k # p
          <5>1. x = res[k] /\ res[k] # res[p]
            BY <2>2, <4>1, <4>3 DEF Distinct
          <5> QED
            BY <5>1 DEF Range
        <4> QED
          BY <4>2, <4>3
      <3>2. ASSUME NEW x \in Range(res), x # res[p] PROVE x \in Range(new)
        <4>1. PICK k \in DOMAIN res : x = res[k]
          BY DEF Range
        <4>2. x = new[k]
          BY <2>2, <3>2, <4>1
        <4> QED
          BY <2>2, <4>2 DEF Range
      <3>3. rec \in Range(new)
        BY <2>2 DEF Range
      <3> QED
        BY <3>1, <3>2, <3>3
    <2>7. Len(new) = Least(Len(res) + 1, cap)
      BY <1>1, <1>3, <2>4 DEF Least
    <2>8. t = new
      BY <2>1 DEF new
    <2>9. ~ (Len(res) < cap)
      BY <1>0, <1>3
    <2> HIDE DEF t
    <2>10. Claim
      <3>1. j + 1 \in DOMAIN res /\ Range(new) = (Range(res) \ {res[j + 1]}) \cup {rec}
        BY <2>2, <2>6 DEF p
      <3> QED
        BY <1>3, <2>4, <2>5, <2>7, <2>8, <2>9, <3>1
    <2> QED
      BY <2>10
  <1>4. ASSUME Len(res) = cap, ~ (j < cap) PROVE Claim
    <2>1. Sampled(res, cap, rec, j) = res
      BY <1>4 DEF Sampled
    <2>2. Len(res) = Least(Len(res) + 1, cap)
      BY <1>1, <1>4 DEF Least
    <2>3. ~ (Len(res) < cap)
      BY <1>0, <1>4
    <2> HIDE DEF t
    <2>4. t = res
      BY <2>1 DEF t
    <2> QED
      BY <1>4, <2>2, <2>3, <2>4
  <1>5. Len(res) < cap \/ (Len(res) = cap /\ j < cap) \/ (Len(res) = cap /\ ~ (j < cap))
    BY <1>0
  <1> HIDE DEF Claim
  <1>6. Claim
    BY <1>2, <1>3, <1>4, <1>5
  <1> QED
    BY <1>6 DEF Claim, Sampling

\* The reservoir after n records, in its order.
Ending(n, cap, drawn) ==
    LET res[k \in 0 .. n] == IF k = 0 THEN <<>> ELSE Sampled(res[k - 1], cap, k, drawn[k])
    IN res[n]

Steps(f, n, cap, drawn) ==
    DOMAIN f = 0 .. n /\ f[0] = <<>> /\ \A k \in 1 .. n : f[k] = Sampled(f[k - 1], cap, k, drawn[k])

LEMMA EndingIsRange ==
    ASSUME NEW n, NEW cap, NEW d
    PROVE  Reservoir(n, cap, d) = Range(Ending(n, cap, d))
  BY DEF Reservoir, Ending

\* There is only one way through the records.
LEMMA StepsAgree ==
    ASSUME NEW n \in Nat, NEW cap, NEW d, NEW e, \A k \in 1 .. n : d[k] = e[k],
           NEW m \in Nat, n <= m, NEW f, Steps(f, m, cap, d), NEW g, Steps(g, n, cap, e)
    PROVE  f[n] = g[n]
  <1> DEFINE T == {k \in 0 .. n : f[k] = g[k]}
  <1>1. 0 \in T
    BY DEF Steps
  <1>2. ASSUME NEW k \in 0 .. n - 1, k \in T PROVE k + 1 \in T
    <2>1. k + 1 \in 1 .. n /\ k + 1 \in 1 .. m /\ k + 1 - 1 = k /\ f[k] = g[k]
      BY <1>2
    <2>2. f[k + 1] = Sampled(f[k + 1 - 1], cap, k + 1, d[k + 1])
      BY <2>1 DEF Steps
    <2>3. g[k + 1] = Sampled(g[k + 1 - 1], cap, k + 1, e[k + 1])
      BY <2>1 DEF Steps
    <2>4. d[k + 1] = e[k + 1]
      BY <2>1
    <2>5. f[k + 1] = g[k + 1]
      BY <2>1, <2>2, <2>3, <2>4
    <2> QED
      BY <2>1, <2>5
  <1> HIDE DEF T
  <1>3. 0 .. n \subseteq T
    BY <1>1, <1>2, Upwards
  <1>4. n \in T
    BY <1>3
  <1> QED
    BY <1>4 DEF T

LEMMA StepsExist ==
    ASSUME NEW n \in Nat, NEW cap \in Nat \ {0}, NEW d \in [1 .. n -> Nat]
    PROVE  \E f : Steps(f, n, cap, d) /\ f[n] = Ending(n, cap, d)
  <1> DEFINE V == Seq(Nat)
             G == [k \in 1 .. n |-> [v \in V |-> Sampled(v, cap, k, d[k])]]
             eq(f) == [k \in 0 .. n |-> IF k = 0 THEN <<>> ELSE Sampled(f[k - 1], cap, k, d[k])]
             res == CHOOSE f : f = eq(f)
  <1>1. ASSUME NEW v \in V, NEW k \in 1 .. n PROVE Sampled(v, cap, k, d[k]) \in V
    <2>1. k \in Nat
      OBVIOUS
    <2>2. Append(v, k) \in V
      BY <2>1
    <2>3. [v EXCEPT ![d[k] + 1] = k] \in V
      <3> DEFINE w == [v EXCEPT ![d[k] + 1] = k]
      <3>1. DOMAIN w = 1 .. Len(v) /\ Len(v) \in Nat /\ \A i \in 1 .. Len(v) : w[i] \in Nat
        BY <2>1
      <3>2. Len(v) \in Nat /\ w \in [1 .. Len(v) -> Nat]
        BY <3>1
      <3> HIDE DEF w
      <3>3. w \in Seq(Nat)
        BY <3>2, OfLength
      <3> QED
        BY <3>3 DEF w
    <2> QED
      BY <2>2, <2>3 DEF Sampled
  <1>2. Leads(n, V, <<>>, G)
    <2>1. \A k \in 1 .. n : \A v \in V : G[k][v] = Sampled(v, cap, k, d[k])
      OBVIOUS
    <2>2. <<>> \in V
      OBVIOUS
    <2> HIDE DEF V, G
    <2> QED
      BY <1>1, <2>1, <2>2 DEF Leads
  <1>3. PICK f : Follows(f, n, V, <<>>, G)
    <2> HIDE DEF V, G
    <2> QED
      BY <1>2, Recursion
  <1>4. f \in [0 .. n -> V] /\ f[0] = <<>> /\ \A k \in 1 .. n : f[k] = G[k][f[k - 1]]
    <2> HIDE DEF V, G
    <2> QED
      BY <1>3 DEF Follows
  <1>5. \A k \in 1 .. n : f[k] = Sampled(f[k - 1], cap, k, d[k])
    <2> SUFFICES ASSUME NEW k \in 1 .. n PROVE f[k] = Sampled(f[k - 1], cap, k, d[k])
      OBVIOUS
    <2>1. k - 1 \in 0 .. n
      OBVIOUS
    <2>2. f[k - 1] \in V
      BY <1>4, <2>1
    <2>3. G[k][f[k - 1]] = Sampled(f[k - 1], cap, k, d[k])
      BY <2>2
    <2> QED
      BY <1>4, <2>3
  <1>6. f = eq(f)
    BY <1>4, <1>5
  <1>7. res = eq(res)
    <2> HIDE DEF eq
    <2> QED
      BY <1>6
  <1>8. Steps(res, n, cap, d)
    <2> HIDE DEF res
    <2>1. DOMAIN res = 0 .. n
      BY <1>7
    <2>2. \A k \in 0 .. n : res[k] = IF k = 0 THEN <<>> ELSE Sampled(res[k - 1], cap, k, d[k])
      <3>1. \A k \in 0 .. n : eq(res)[k] = IF k = 0 THEN <<>> ELSE Sampled(res[k - 1], cap, k, d[k])
        OBVIOUS
      <3> HIDE DEF eq
      <3>2. \A k : res[k] = eq(res)[k]
        BY <1>7, Zenon
      <3> QED
        BY <3>1, <3>2, Zenon
    <2>3. 0 \in 0 .. n /\ \A k \in 1 .. n : k \in 0 .. n /\ k # 0
      OBVIOUS
    <2> HIDE DEF eq
    <2> QED
      BY <2>1, <2>2, <2>3 DEF Steps
  <1>9. res[n] = Ending(n, cap, d)
    BY DEF Ending
  <1> QED
    BY <1>8, <1>9

LEMMA EndingFacts ==
    ASSUME NEW n \in Nat, NEW cap \in Nat \ {0}, NEW d \in Draws(n)
    PROVE  /\ Ending(n, cap, d) \in Seq(Nat) /\ Range(Ending(n, cap, d)) \subseteq 1 .. n
           /\ Distinct(Ending(n, cap, d)) /\ Len(Ending(n, cap, d)) = Least(n, cap)
  <1>1. d \in [1 .. n -> Nat]
    BY DEF Draws
  <1>2. PICK f : Steps(f, n, cap, d) /\ f[n] = Ending(n, cap, d)
    BY <1>1, StepsExist
  <1> DEFINE Fine(k) == /\ f[k] \in Seq(Nat) /\ Range(f[k]) \subseteq 1 .. k
                        /\ Distinct(f[k]) /\ Len(f[k]) = Least(k, cap)
             T == {k \in 0 .. n : Fine(k)}
  <1>3. 0 \in T
    <2>1. f[0] = <<>> /\ Range(<<>>) = {} /\ <<>> \in Seq(Nat) /\ Len(<<>>) = 0 /\ DOMAIN <<>> = {}
      BY <1>2, AscendsEmpty DEF Steps
    <2>2. Least(0, cap) = 0
      BY DEF Least
    <2>3. Distinct(<<>>)
      BY <2>1 DEF Distinct
    <2>4. Fine(0)
      BY <2>1, <2>2, <2>3
    <2> HIDE DEF Fine
    <2> QED
      BY <2>4
  <1>4. ASSUME NEW k \in 0 .. n - 1, k \in T PROVE k + 1 \in T
    <2> DEFINE res == f[k]
               m == k + 1
               j == d[m]
    <2>1. m \in 1 .. n /\ m \in 0 .. n /\ m \in Nat /\ k \in Nat /\ m - 1 = k
      OBVIOUS
    <2>2. f[m] = Sampled(f[m - 1], cap, m, d[m])
      BY <1>2, <2>1 DEF Steps
    <2>3. f[m] = Sampled(res, cap, m, j) /\ j \in Nat
      BY <1>1, <2>1, <2>2
    <2>4. /\ res \in Seq(Nat) /\ Range(res) \subseteq 1 .. k /\ Distinct(res) /\ Len(res) = Least(k, cap)
      BY <1>4
    <2>5. m \notin Range(res) /\ Len(res) <= cap /\ Len(res) \in Nat
      BY <2>1, <2>4 DEF Least
    <2> HIDE DEF res, m, j
    <2> DEFINE s == Sampled(res, cap, m, j)
    <2>6. /\ s \in Seq(Nat) /\ Distinct(s) /\ Len(s) = Least(Len(res) + 1, cap)
          /\ Len(res) < cap => Range(s) = Range(res) \cup {m}
          /\ Len(res) = cap /\ j < cap => Range(s) = (Range(res) \ {res[j + 1]}) \cup {m}
          /\ Len(res) = cap /\ ~ (j < cap) => s = res
      <3> HIDE DEF s
      <3>1. s \in Seq(Nat) /\ Sampling(s, res, cap, m, j)
        BY <2>1, <2>3, <2>4, <2>5, SampledRange DEF s
      <3> QED
        BY <3>1 DEF Sampling
    <2> HIDE DEF s
    <2>7. Range(s) \subseteq Range(res) \cup {m}
      <3>1. Len(res) < cap \/ Len(res) = cap
        BY <2>5
      <3> QED
        BY <2>6, <3>1
    <2>8. Range(s) \subseteq 1 .. m
      BY <2>1, <2>4, <2>7 DEF m
    <2>9. Least(Len(res) + 1, cap) = Least(m, cap)
      BY <2>1, <2>4 DEF Least, m
    <2>10. f[m] = s
      BY <2>3 DEF s
    <2>11. Fine(m)
      BY <2>6, <2>8, <2>9, <2>10
    <2> HIDE DEF Fine
    <2> QED
      BY <2>1, <2>11 DEF m
  <1> HIDE DEF T, Fine
  <1>5. 0 .. n \subseteq T
    BY <1>3, <1>4, Upwards
  <1>6. Fine(n)
    BY <1>5 DEF T
  <1> QED
    BY <1>2, <1>6 DEF Fine

\* A draw more.
Extend(d, j, n) == [k \in 1 .. n + 1 |-> IF k = n + 1 THEN j ELSE d[k]]

LEMMA ExtendFacts ==
    ASSUME NEW n \in Nat, NEW d \in Draws(n), NEW j \in 0 .. n
    PROVE  /\ Extend(d, j, n) \in Draws(n + 1)
           /\ Extend(d, j, n)[n + 1] = j /\ \A k \in 1 .. n : Extend(d, j, n)[k] = d[k]
  <1>1. d \in [1 .. n -> 0 .. n] /\ \A k \in 1 .. n : d[k] \in 0 .. k - 1
    BY DEF Draws, randrange
  <1> DEFINE e == Extend(d, j, n)
  <1>2. DOMAIN e = 1 .. n + 1 /\ e[n + 1] = j /\ \A k \in 1 .. n : e[k] = d[k]
    BY DEF Extend
  <1>3. ASSUME NEW k \in 1 .. n + 1 PROVE e[k] \in 0 .. k - 1 /\ e[k] \in 0 .. n + 1
    <2> HIDE DEF e
    <2>1. CASE k = n + 1
      BY <1>2, <2>1
    <2>2. CASE k # n + 1
      <3>1. k \in 1 .. n
        BY <2>2
      <3> QED
        BY <1>1, <1>2, <3>1
    <2> QED
      BY <2>1, <2>2
  <1>4. e \in [1 .. n + 1 -> 0 .. n + 1]
    <2>1. e = [k \in 1 .. n + 1 |-> e[k]]
      BY DEF Extend
    <2> HIDE DEF e
    <2> QED
      BY <1>3, <2>1
  <1>5. e \in Draws(n + 1)
    <2> HIDE DEF e
    <2> QED
      BY <1>3, <1>4 DEF Draws, randrange
  <1> QED
    BY <1>2, <1>5

LEMMA ExtendApart ==
    ASSUME NEW n \in Nat, NEW d \in Draws(n), NEW j \in 0 .. n, NEW e \in Draws(n), NEW i \in 0 .. n,
           Extend(d, j, n) = Extend(e, i, n)
    PROVE  d = e /\ j = i
  <1> DEFINE x == Extend(d, j, n)
             y == Extend(e, i, n)
  <1>1. x[n + 1] = j /\ (\A k \in 1 .. n : x[k] = d[k]) /\ y[n + 1] = i /\ (\A k \in 1 .. n : y[k] = e[k]) /\ x = y
    BY ExtendFacts
  <1> HIDE DEF x, y
  <1>2. j = i /\ \A k \in 1 .. n : d[k] = e[k]
    BY <1>1
  <1>3. d \in [1 .. n -> 0 .. n] /\ e \in [1 .. n -> 0 .. n]
    BY DEF Draws
  <1> QED
    BY <1>2, <1>3

LEMMA ExtendAll ==
    ASSUME NEW n \in Nat, NEW e \in Draws(n + 1)
    PROVE  \E d \in Draws(n) : \E j \in 0 .. n : e = Extend(d, j, n)
  <1>1. e \in [1 .. n + 1 -> 0 .. n + 1] /\ \A k \in 1 .. n + 1 : e[k] \in 0 .. k - 1
    BY DEF Draws, randrange
  <1> DEFINE d == [k \in 1 .. n |-> e[k]]
             j == e[n + 1]
  <1>2. j \in 0 .. n
    <2>1. n + 1 \in 1 .. n + 1 /\ n + 1 - 1 = n
      OBVIOUS
    <2> QED
      BY <1>1, <2>1
  <1>3. \A k \in 1 .. n : d[k] \in 0 .. k - 1 /\ d[k] \in 0 .. n
    <2> SUFFICES ASSUME NEW k \in 1 .. n PROVE d[k] \in 0 .. k - 1 /\ d[k] \in 0 .. n
      OBVIOUS
    <2>1. d[k] = e[k] /\ k \in 1 .. n + 1
      OBVIOUS
    <2>2. e[k] \in 0 .. k - 1
      BY <1>1, <2>1
    <2> HIDE DEF d
    <2> QED
      BY <2>1, <2>2
  <1>4. d \in Draws(n)
    <2>1. d \in [1 .. n -> 0 .. n]
      BY <1>3
    <2> HIDE DEF d
    <2> QED
      BY <1>3, <2>1 DEF Draws, randrange
  <1>5. \A k \in 1 .. n + 1 : k = n + 1 \/ k \in 1 .. n
    OBVIOUS
  <1>6. e = Extend(d, j, n)
    <2>1. Extend(d, j, n) = [k \in 1 .. n + 1 |-> IF k = n + 1 THEN j ELSE d[k]]
      BY DEF Extend
    <2>2. \A k \in 1 .. n + 1 : (IF k = n + 1 THEN j ELSE d[k]) = e[k]
      BY <1>5
    <2> HIDE DEF d, j
    <2> QED
      BY <1>1, <2>1, <2>2
  <1> QED
    BY <1>2, <1>4, <1>6

LEMMA EndingStep ==
    ASSUME NEW n \in Nat, NEW cap \in Nat \ {0}, NEW d \in Draws(n), NEW j \in 0 .. n
    PROVE  Ending(n + 1, cap, Extend(d, j, n)) = Sampled(Ending(n, cap, d), cap, n + 1, j)
  <1> DEFINE m == n + 1
             e == Extend(d, j, n)
  <1>1. m \in Nat /\ n <= m /\ m \in 1 .. m /\ m - 1 = n
    OBVIOUS
  <1>2. e \in Draws(m) /\ e[m] = j /\ \A k \in 1 .. n : e[k] = d[k]
    BY ExtendFacts
  <1> HIDE DEF e, m
  <1>3. e \in [1 .. m -> Nat] /\ d \in [1 .. n -> Nat]
    BY <1>1, <1>2 DEF Draws
  <1>4. PICK f : Steps(f, m, cap, e) /\ f[m] = Ending(m, cap, e)
    BY <1>1, <1>3, StepsExist
  <1>5. PICK g : Steps(g, n, cap, d) /\ g[n] = Ending(n, cap, d)
    BY <1>3, StepsExist
  <1>6. f[n] = g[n]
    BY <1>1, <1>2, <1>4, <1>5, StepsAgree
  <1>7. f[m] = Sampled(f[m - 1], cap, m, e[m])
    BY <1>1, <1>4 DEF Steps
  <1> QED
    BY <1>1, <1>2, <1>4, <1>5, <1>6, <1>7 DEF e, m

\* The draws that leave A.
Leaves(n, cap, A) == {d \in Draws(n) : Reservoir(n, cap, d) = A}

LEMMA DrawsFinite ==
    ASSUME NEW n \in Nat
    PROVE  IsFiniteSet(Draws(n))
  <1> DEFINE T == {k \in 0 .. n : IsFiniteSet(Draws(k))}
  <1>1. 0 \in T
    <2>1. \A d \in Draws(0) : d = <<>>
      <3>1. \A d \in Draws(0) : d \in [1 .. 0 -> 0 .. 0]
        BY DEF Draws
      <3>2. 1 .. 0 = {}
        OBVIOUS
      <3> QED
        BY <3>1, <3>2
    <2>2. Draws(0) \subseteq {<<>>}
      BY <2>1
    <2>3. IsFiniteSet(Draws(0))
      BY <2>2, FS_Singleton, FS_Subset
    <2> QED
      BY <2>3
  <1>2. ASSUME NEW k \in 0 .. n - 1, k \in T PROVE k + 1 \in T
    <2>1. k \in Nat /\ k + 1 \in 0 .. n /\ IsFiniteSet(Draws(k)) /\ k \in Int /\ 0 \in Int
      BY <1>2
    <2> HIDE DEF T
    <2>2. IsFiniteSet(0 .. k)
      BY <2>1, FS_Interval
    <2> DEFINE P == Draws(k) \X (0 .. k)
               h == [p \in P |-> Extend(p[1], p[2], k)]
    <2>3. IsFiniteSet(P)
      BY <2>1, <2>2, FS_Product
    <2>4. ASSUME NEW e \in Draws(k + 1) PROVE e \in {h[p] : p \in P}
      <3>1. PICK d \in Draws(k), j \in 0 .. k : e = Extend(d, j, k)
        BY <2>1, ExtendAll
      <3>2. <<d, j>> \in P /\ h[<<d, j>>] = e
        BY <3>1
      <3> HIDE DEF h, P
      <3> QED
        BY <3>2
    <2> HIDE DEF h, P
    <2>5. IsFiniteSet({h[p] : p \in P})
      BY <2>3, ImageFinite
    <2>6. IsFiniteSet(Draws(k + 1))
      BY <2>4, <2>5, FS_Subset
    <2> QED
      BY <2>1, <2>6 DEF T
  <1> HIDE DEF T
  <1>3. 0 .. n \subseteq T
    BY <1>1, <1>2, Upwards
  <1> QED
    BY <1>3 DEF T

LEMMA LeavesFinite ==
    ASSUME NEW n \in Nat, NEW cap, NEW A
    PROVE  IsFiniteSet(Leaves(n, cap, A)) /\ Cardinality(Leaves(n, cap, A)) \in Nat
  <1>1. Leaves(n, cap, A) \subseteq Draws(n)
    BY DEF Leaves
  <1> QED
    BY <1>1, DrawsFinite, FS_Subset, FS_CardinalityType

Replaced(r, j, m) == (Range(r) \ {r[j + 1]}) \cup {m}

\* What one more draw does to a full reservoir.
LEMMA FullStep ==
    ASSUME NEW n \in Nat, NEW cap \in 1 .. n, NEW d \in Draws(n), NEW j \in 0 .. n
    PROVE  /\ Distinct(Ending(n, cap, d)) /\ Reservoir(n, cap, d) = Range(Ending(n, cap, d))
           /\ DOMAIN Ending(n, cap, d) = 1 .. cap /\ Range(Ending(n, cap, d)) \subseteq 1 .. n
           /\ j < cap => Reservoir(n + 1, cap, Extend(d, j, n)) = Replaced(Ending(n, cap, d), j, n + 1)
           /\ ~ (j < cap) => Reservoir(n + 1, cap, Extend(d, j, n)) = Range(Ending(n, cap, d))
  <1> DEFINE r == Ending(n, cap, d)
             e == Extend(d, j, n)
             m == n + 1
             s == Sampled(r, cap, m, j)
  <1>1. cap \in Nat \ {0} /\ Least(n, cap) = cap /\ m \in Nat /\ j \in Nat
    BY DEF Least
  <1>2. r \in Seq(Nat) /\ Range(r) \subseteq 1 .. n /\ Distinct(r) /\ Len(r) = cap
    BY <1>1, EndingFacts
  <1>3. Reservoir(n, cap, d) = Range(r) /\ Reservoir(m, cap, e) = Range(Ending(m, cap, e))
    BY EndingIsRange
  <1>4. Ending(m, cap, e) = s
    BY <1>1, EndingStep
  <1>5. m \notin Range(r)
    BY <1>2
  <1>6. DOMAIN r = 1 .. cap
    BY <1>2
  <1> HIDE DEF r, e, m
  <1>7. Sampling(s, r, cap, m, j)
    BY <1>1, <1>2, <1>5, SampledRange
  <1> HIDE DEF s
  <1>8. /\ j < cap => Range(s) = Replaced(r, j, m)
        /\ ~ (j < cap) => Range(s) = Range(r)
    BY <1>2, <1>7 DEF Sampling, Replaced
  <1>9. Reservoir(m, cap, e) = Range(s)
    BY <1>3, <1>4
  <1> QED
    BY <1>2, <1>3, <1>6, <1>8, <1>9 DEF r, e, m

\* Without the last record A was there before, and the last draw was beyond the reservoir.
LEMMA LeavesWithout ==
    ASSUME NEW n \in Nat, NEW cap \in 1 .. n, NEW A, n + 1 \notin A
    PROVE  Cardinality(Leaves(n + 1, cap, A)) = Cardinality(Leaves(n, cap, A)) * (n - cap + 1)
  <1> DEFINE L == Leaves(n, cap, A)
             M == Leaves(n + 1, cap, A)
             P == L \X (cap .. n)
             h == [p \in P |-> Extend(p[1], p[2], n)]
  <1>0. \A j \in cap .. n : j \in 0 .. n /\ ~ (j < cap)
    OBVIOUS
  <1>1. ASSUME NEW d \in L, NEW j \in cap .. n PROVE Extend(d, j, n) \in M
    <2>1. d \in Draws(n) /\ Reservoir(n, cap, d) = A
      BY DEF Leaves
    <2>2. Extend(d, j, n) \in Draws(n + 1)
      BY <1>0, <2>1, ExtendFacts
    <2>3. Reservoir(n + 1, cap, Extend(d, j, n)) = A
      BY <1>0, <2>1, FullStep
    <2> QED
      BY <2>2, <2>3 DEF Leaves
  <1>2. ASSUME NEW e \in M PROVE \E d \in L, j \in cap .. n : e = Extend(d, j, n)
    <2>1. e \in Draws(n + 1) /\ Reservoir(n + 1, cap, e) = A
      BY DEF Leaves
    <2>2. PICK d \in Draws(n), j \in 0 .. n : e = Extend(d, j, n)
      BY <2>1, ExtendAll
    <2>3. ~ (j < cap)
      <3> DEFINE r == Ending(n, cap, d)
                 B == Reservoir(n + 1, cap, Extend(d, j, n))
      <3>0. j < cap => B = Replaced(r, j, n + 1)
        BY FullStep
      <3> HIDE DEF r, B
      <3>1. j < cap => n + 1 \in B
        BY <3>0 DEF Replaced
      <3> USE DEF B
      <3> QED
        BY <2>1, <2>2, <3>1
    <2>4. Reservoir(n, cap, d) = A
      BY <2>1, <2>2, <2>3, FullStep
    <2>5. j \in cap .. n
      BY <2>3
    <2> QED
      BY <2>2, <2>4, <2>5 DEF Leaves
  <1>3. \A d \in L : d \in Draws(n)
    BY DEF Leaves
  <1>4. IsFiniteSet(L) /\ Cardinality(L) \in Nat
    BY LeavesFinite
  <1> HIDE DEF L, M
  <1>5. {h[p] : p \in P} = M
    <2>1. \A p \in P : h[p] \in M
      <3>1. \A p \in P : p[1] \in L /\ p[2] \in cap .. n
        OBVIOUS
      <3> QED
        BY <1>1, <3>1
    <2>2. ASSUME NEW e \in M PROVE \E p \in P : e = h[p]
      <3>1. PICK d \in L, j \in cap .. n : e = Extend(d, j, n)
        BY <1>2
      <3>2. <<d, j>> \in P /\ h[<<d, j>>] = e
        BY <3>1
      <3> QED
        BY <3>2
    <2> HIDE DEF h, P
    <2> QED
      BY <2>1, <2>2
  <1>6. ASSUME NEW p \in P, NEW q \in P, h[p] = h[q] PROVE p = q
    <2>1. p = <<p[1], p[2]>> /\ q = <<q[1], q[2]>> /\ p[1] \in L /\ q[1] \in L /\ p[2] \in cap .. n /\ q[2] \in cap .. n
      OBVIOUS
    <2>2. Extend(p[1], p[2], n) = Extend(q[1], q[2], n)
      BY <1>6
    <2> HIDE DEF P, h
    <2>3. p[1] = q[1] /\ p[2] = q[2]
      BY <1>0, <1>3, <2>1, <2>2, ExtendApart
    <2> QED
      BY <2>1, <2>3
  <1>7. IsFiniteSet(cap .. n) /\ Cardinality(cap .. n) = n - cap + 1
    <2>1. cap \in Int /\ n \in Int /\ ~ (cap > n)
      OBVIOUS
    <2> QED
      BY <2>1, FS_Interval
  <1>8. IsFiniteSet(P) /\ Cardinality(P) = Cardinality(L) * Cardinality(cap .. n)
    BY <1>4, <1>7, FS_Product
  <1> HIDE DEF P, h
  <1>9. Cardinality({h[p] : p \in P}) = Cardinality(P)
    BY <1>6, <1>8, ImageFinite
  <1> QED
    BY <1>5, <1>7, <1>8, <1>9 DEF L, M

Place(r, x) == CHOOSE i \in DOMAIN r : r[i] = x

\* With the last record A was there before but for one, whose place was drawn.
LEMMA LeavesWith ==
    ASSUME NEW n \in Nat, NEW cap \in 1 .. n, NEW c \in Nat, NEW A \in SUBSET (1 .. n + 1), n + 1 \in A,
           Cardinality(A) = cap,
           \A B \in SUBSET (1 .. n) : Cardinality(B) = cap => Cardinality(Leaves(n, cap, B)) = c
    PROVE  Cardinality(Leaves(n + 1, cap, A)) = c * (n - cap + 1)
  <1> DEFINE rest == A \ {n + 1}
             X == (1 .. n) \ rest
             L(x) == Leaves(n, cap, rest \cup {x})
             M == Leaves(n + 1, cap, A)
             P == [x \in X |-> {x} \X L(x)]
             f == [x \in X |-> Cardinality(P[x])]
             Q == Together(P, X)
             h == [q \in Q |-> Extend(q[2], Place(Ending(n, cap, q[2]), q[1]) - 1, n)]
  <1>1. IsFiniteSet(1 .. n + 1) /\ IsFiniteSet(1 .. n) /\ Cardinality(1 .. n) = n
    <2> DEFINE m == n + 1
    <2>1. m \in Nat
      OBVIOUS
    <2> HIDE DEF m
    <2>2. IsFiniteSet(1 .. m) /\ IsFiniteSet(1 .. n) /\ Cardinality(1 .. n) = n
      BY <2>1, UpTo
    <2> QED
      BY <2>2 DEF m
  <1>2. IsFiniteSet(A) /\ cap \in Nat
    <2> DEFINE N == 1 .. n + 1
    <2>1. IsFiniteSet(N) /\ A \in SUBSET N
      BY <1>1
    <2> HIDE DEF N
    <2>2. IsFiniteSet(A)
      BY <2>1, FS_Subset
    <2> QED
      BY <2>2
  <1>3. rest \subseteq 1 .. n /\ n + 1 \notin rest /\ A = rest \cup {n + 1}
    OBVIOUS
  <1>4. IsFiniteSet(rest) /\ Cardinality(rest) = cap - 1
    BY <1>2, FS_RemoveElement
  <1>5. IsFiniteSet(X) /\ Cardinality(X) = n - cap + 1
    <2> DEFINE N == 1 .. n
    <2> HIDE DEF rest
    <2>1. N \cap rest = rest
      BY <1>3
    <2>2. IsFiniteSet(N \ rest) /\ Cardinality(N \ rest) = Cardinality(N) - Cardinality(N \cap rest)
      <3> HIDE DEF N
      <3>1. IsFiniteSet(N)
        BY <1>1 DEF N
      <3> QED
        BY <3>1, FS_Difference
    <2>3. Cardinality(N \cap rest) = cap - 1
      BY <1>4, <2>1
    <2>4. Cardinality(N \ rest) = n - (cap - 1)
      BY <1>1, <2>2, <2>3
    <2> HIDE DEF N
    <2> QED
      BY <1>2, <2>2, <2>4 DEF N
  <1> HIDE DEF rest
  <1>6. ASSUME NEW x \in X PROVE Cardinality(L(x)) = c /\ IsFiniteSet(L(x))
    <2>1. x \in 1 .. n /\ x \notin rest
      OBVIOUS
    <2> DEFINE B == rest \cup {x}
    <2>2. B \in SUBSET (1 .. n)
      BY <1>3, <2>1
    <2>3. Cardinality(B) = cap
      <3>1. Cardinality(rest \cup {x}) = Cardinality(rest) + 1
        BY <1>4, <2>1, FS_AddElement
      <3> HIDE DEF X
      <3> QED
        BY <1>2, <1>4, <3>1
    <2> HIDE DEF B
    <2>4. Cardinality(Leaves(n, cap, B)) = c /\ IsFiniteSet(Leaves(n, cap, B))
      BY <2>2, <2>3, LeavesFinite
    <2> QED
      BY <2>4 DEF B
  <1> HIDE DEF X
  <1>7. ASSUME NEW x \in X PROVE IsFiniteSet(P[x]) /\ Cardinality(P[x]) = c
    <2> DEFINE K == L(x)
    <2>1. IsFiniteSet(K) /\ Cardinality(K) = c /\ P[x] = {x} \X K
      BY <1>6
    <2> HIDE DEF K, P
    <2>2. IsFiniteSet({x}) /\ Cardinality({x}) = 1
      BY FS_Singleton
    <2>3. IsFiniteSet({x} \X K) /\ Cardinality({x} \X K) = 1 * Cardinality(K)
      BY <2>1, <2>2, FS_Product
    <2> QED
      BY <2>1, <2>3
  <1>8. \A x, y \in X : x # y => P[x] \cap P[y] = {}
    OBVIOUS
  <1>9. IsFiniteSet(Q) /\ Cardinality(Q) = c * Cardinality(X)
    <2>1. \A x \in X : f[x] = Cardinality(P[x]) /\ f[x] = c
      BY <1>7
    <2> HIDE DEF f, P
    <2>2. IsFiniteSet(Q) /\ SumFunctionOnSet(f, X) = Cardinality(Q)
      BY <1>5, <1>7, <1>8, <2>1, SumDisjoint
    <2>3. SumFunctionOnSet(f, X) = c * Cardinality(X)
      <3>1. (\A x \in X : f[x] = c) /\ c \in Int
        BY <2>1
      <3> QED
        BY <1>5, <3>1, SumConstant
    <2> QED
      BY <2>2, <2>3
  <1>10. \A q : q \in Q <=> \E x \in X : \E d \in L(x) : q = <<x, d>>
    <2>1. \A x \in X : \A q : q \in P[x] <=> \E d \in L(x) : q = <<x, d>>
      <3> HIDE DEF L
      <3> QED
        OBVIOUS
    <2> HIDE DEF P
    <2>2. \A q : q \in Q <=> \E x \in X : q \in P[x]
      BY DEF Together
    <2> HIDE DEF L, Q
    <2> QED
      BY <2>1, <2>2
  <1>11. ASSUME NEW x \in X, NEW d \in L(x)
         PROVE  LET r == Ending(n, cap, d)
                IN /\ d \in Draws(n) /\ Range(r) = rest \cup {x} /\ DOMAIN r = 1 .. cap /\ Distinct(r)
                   /\ Place(r, x) \in 1 .. cap /\ r[Place(r, x)] = x
                   /\ Place(r, x) - 1 \in 0 .. n /\ Place(r, x) - 1 < cap /\ Place(r, x) - 1 + 1 = Place(r, x)
    <2> DEFINE r == Ending(n, cap, d)
    <2>1. d \in Draws(n) /\ Reservoir(n, cap, d) = rest \cup {x}
      BY DEF Leaves
    <2>2. Range(r) = rest \cup {x} /\ DOMAIN r = 1 .. cap /\ Distinct(r)
      <3>1. 0 \in 0 .. n
        OBVIOUS
      <3> QED
        BY <2>1, <3>1, FullStep
    <2> HIDE DEF r
    <2>3. \E i \in DOMAIN r : r[i] = x
      BY <2>2 DEF Range
    <2>4. Place(r, x) \in DOMAIN r /\ r[Place(r, x)] = x
      BY <2>3 DEF Place
    <2> DEFINE i == Place(r, x)
    <2>5. i \in 1 .. cap /\ r[i] = x
      BY <2>2, <2>4
    <2> HIDE DEF i
    <2>6. i - 1 \in 0 .. n /\ i - 1 < cap /\ i - 1 + 1 = i
      BY <2>5
    <2> QED
      BY <2>1, <2>2, <2>5, <2>6 DEF r, i
  <1>12. ASSUME NEW x \in X, NEW d \in L(x)
         PROVE  Extend(d, Place(Ending(n, cap, d), x) - 1, n) \in M
    <2> DEFINE r == Ending(n, cap, d)
               j == Place(r, x) - 1
               B == Reservoir(n + 1, cap, Extend(d, j, n))
    <2>1. d \in Draws(n) /\ Range(r) = rest \cup {x} /\ j \in 0 .. n /\ j < cap /\ r[j + 1] = x
      BY <1>11
    <2> HIDE DEF j
    <2>2. B = (Range(r) \ {r[j + 1]}) \cup {n + 1}
      <3>1. B = Replaced(r, j, n + 1)
        BY <2>1, FullStep
      <3> QED
        BY <3>1 DEF Replaced
    <2>3. x \notin rest
      BY DEF X
    <2>4. B = A
      <3> HIDE DEF B, r
      <3> QED
        BY <1>3, <2>1, <2>2, <2>3
    <2>5. Extend(d, j, n) \in Draws(n + 1)
      BY <2>1, ExtendFacts
    <2> QED
      BY <2>4, <2>5 DEF Leaves, j
  <1>13. ASSUME NEW e \in M
         PROVE  \E x \in X : \E d \in L(x) : e = Extend(d, Place(Ending(n, cap, d), x) - 1, n)
    <2>1. e \in Draws(n + 1) /\ Reservoir(n + 1, cap, e) = A
      BY DEF Leaves
    <2>2. PICK d \in Draws(n), j \in 0 .. n : e = Extend(d, j, n)
      BY <2>1, ExtendAll
    <2> DEFINE r == Ending(n, cap, d)
    <2>3. /\ Distinct(r) /\ Reservoir(n, cap, d) = Range(r) /\ DOMAIN r = 1 .. cap /\ Range(r) \subseteq 1 .. n
          /\ j < cap => A = Replaced(r, j, n + 1)
          /\ ~ (j < cap) => A = Range(r)
      BY <2>1, <2>2, FullStep
    <2> HIDE DEF r
    <2>4. j < cap
      <3>1. n + 1 \notin Range(r)
        BY <2>3
      <3> QED
        BY <2>3, <3>1
    <2> DEFINE x == r[j + 1]
    <2>41. j + 1 \in DOMAIN r
      BY <2>3, <2>4
    <2>5. x \in Range(r) /\ x \in 1 .. n
      BY <2>3, <2>41 DEF Range
    <2>6. rest = Range(r) \ {x}
      <3>1. n + 1 \notin Range(r)
        BY <2>3
      <3> HIDE DEF x
      <3>2. A = (Range(r) \ {x}) \cup {n + 1}
        BY <2>3, <2>4 DEF x, Replaced
      <3> QED
        BY <1>3, <3>1, <3>2
    <2>7. x \in X /\ Range(r) = rest \cup {x}
      <3> HIDE DEF x
      <3> QED
        BY <2>5, <2>6 DEF X
    <2>8. d \in L(x)
      BY <2>2, <2>3, <2>7 DEF Leaves
    <2>9. Place(r, x) = j + 1
      <3>1. j + 1 \in DOMAIN r
        BY <2>3, <2>4
      <3>2. \A i \in DOMAIN r : r[i] = x => i = j + 1
        BY <2>3, <3>1 DEF Distinct
      <3>3. Place(r, x) \in DOMAIN r /\ r[Place(r, x)] = x
        <4> HIDE DEF x
        <4>1. r[j + 1] = x
          BY DEF x
        <4> QED
          BY <3>1, <4>1 DEF Place
      <3> HIDE DEF x
      <3> QED
        BY <3>2, <3>3
    <2>10. Place(r, x) - 1 = j
      <3> DEFINE i == Place(r, x)
      <3>1. i = j + 1 /\ j \in Int
        BY <2>9
      <3> HIDE DEF i
      <3>2. i - 1 = j
        BY <3>1
      <3> QED
        BY <3>2 DEF i
    <2> HIDE DEF x
    <2>11. e = Extend(d, Place(Ending(n, cap, d), x) - 1, n)
      BY <2>2, <2>10 DEF r
    <2> QED
      BY <2>7, <2>8, <2>11
  <1> HIDE DEF L, M, P
  <1>14. {h[q] : q \in Q} = M
    <2>1. ASSUME NEW q \in Q PROVE h[q] \in M
      <3>0. PICK x \in X : \E d \in L(x) : q = <<x, d>>
        BY <1>10
      <3>1. PICK d \in L(x) : q = <<x, d>>
        BY <3>0
      <3>2. q[1] = x /\ q[2] = d
        BY <3>1
      <3> QED
        BY <1>12, <3>1, <3>2
    <2>2. ASSUME NEW e \in M PROVE \E q \in Q : e = h[q]
      <3>0. PICK x \in X : \E d \in L(x) : e = Extend(d, Place(Ending(n, cap, d), x) - 1, n)
        BY <1>13
      <3>1. PICK d \in L(x) : e = Extend(d, Place(Ending(n, cap, d), x) - 1, n)
        BY <3>0
      <3> DEFINE q == <<x, d>>
      <3>2. q \in Q /\ q[1] = x /\ q[2] = d
        BY <1>10
      <3> HIDE DEF q
      <3> QED
        BY <3>1, <3>2
    <2> HIDE DEF h
    <2> QED
      BY <2>1, <2>2
  <1>15. ASSUME NEW p \in Q, NEW q \in Q, h[p] = h[q] PROVE p = q
    <2>0. /\ \E x \in X : \E d \in L(x) : p = <<x, d>>
          /\ \E y \in X : \E e \in L(y) : q = <<y, e>>
      BY <1>10
    <2>01. PICK x \in X : \E d \in L(x) : p = <<x, d>>
      BY <2>0
    <2>1. PICK d \in L(x) : p = <<x, d>>
      BY <2>01
    <2>02. PICK y \in X : \E e \in L(y) : q = <<y, e>>
      BY <2>0
    <2>2. PICK e \in L(y) : q = <<y, e>>
      BY <2>02
    <2> DEFINE i == Place(Ending(n, cap, d), x)
               k == Place(Ending(n, cap, e), y)
    <2>3. p[1] = x /\ p[2] = d /\ q[1] = y /\ q[2] = e
      BY <2>1, <2>2
    <2>4. Extend(d, i - 1, n) = Extend(e, k - 1, n)
      BY <1>15, <2>3
    <2>5. /\ d \in Draws(n) /\ i - 1 \in 0 .. n /\ i - 1 + 1 = i /\ Ending(n, cap, d)[i] = x
          /\ e \in Draws(n) /\ k - 1 \in 0 .. n /\ k - 1 + 1 = k /\ Ending(n, cap, e)[k] = y
      BY <1>11, <2>1, <2>2
    <2> HIDE DEF i, k
    <2>6. d = e /\ i - 1 = k - 1
      BY <2>4, <2>5, ExtendApart
    <2>7. i = k
      BY <2>5, <2>6
    <2> QED
      BY <2>1, <2>2, <2>5, <2>6, <2>7
  <1> HIDE DEF h, Q
  <1>16. Cardinality({h[q] : q \in Q}) = Cardinality(Q)
    BY <1>9, <1>15, ImageFinite
  <1>17. Cardinality(M) = c * (n - cap + 1)
    BY <1>5, <1>9, <1>14, <1>16
  <1> QED
    BY <1>17 DEF M

\* Every reservoir that k records may leave is left by the same number of draws.
Fair(k, cap) ==
    \A A, B \in kSubset(Least(k, cap), 1 .. k) :
        Cardinality(Leaves(k, cap, A)) = Cardinality(Leaves(k, cap, B))

LEMMA kSubsetFacts ==
    ASSUME NEW k, NEW S, NEW A
    PROVE  A \in kSubset(k, S) <=> A \subseteq S /\ Cardinality(A) = k
  BY DEF kSubset

\* Up to the capacity there is one reservoir.
LEMMA FairShort ==
    ASSUME NEW k \in Nat, NEW cap \in Nat, k <= cap
    PROVE  Fair(k, cap)
  <1>0. Least(k, cap) = k
    BY DEF Least
  <1>1. IsFiniteSet(1 .. k) /\ Cardinality(1 .. k) = k
    BY UpTo
  <1>2. ASSUME NEW A \in kSubset(k, 1 .. k) PROVE A = 1 .. k
    <2>1. A \subseteq 1 .. k /\ Cardinality(A) = k
      BY kSubsetFacts
    <2> QED
      BY <1>1, <2>1, FS_Subset
  <1>3. ASSUME NEW A \in kSubset(k, 1 .. k), NEW B \in kSubset(k, 1 .. k) PROVE A = B
    BY <1>2
  <1> QED
    BY <1>0, <1>3 DEF Fair

\* One record more.
LEMMA FairLong ==
    ASSUME NEW k \in Nat, NEW cap \in 1 .. k, Fair(k, cap)
    PROVE  Fair(k + 1, cap)
  <1>0. Least(k, cap) = cap /\ Least(k + 1, cap) = cap /\ cap \in Nat
    BY DEF Least
  <1> DEFINE first == 1 .. cap
             c == Cardinality(Leaves(k, cap, first))
             N(A) == Cardinality(Leaves(k + 1, cap, A))
  <1>1. first \in kSubset(cap, 1 .. k)
    <2>1. Cardinality(1 .. cap) = cap /\ 1 .. cap \subseteq 1 .. k
      BY <1>0, UpTo
    <2> QED
      BY <2>1, kSubsetFacts
  <1>2. c \in Nat
    BY LeavesFinite
  <1> HIDE DEF first
  <1>3. \A B \in kSubset(cap, 1 .. k) : Cardinality(Leaves(k, cap, B)) = c
    BY <1>0, <1>1 DEF Fair
  <1> HIDE DEF c
  <1>4. ASSUME NEW A \in kSubset(cap, 1 .. k + 1) PROVE N(A) = c * (k - cap + 1)
    <2>1. A \subseteq 1 .. k + 1 /\ Cardinality(A) = cap
      BY kSubsetFacts
    <2>2. CASE k + 1 \in A
      <3>1. \A B \in SUBSET (1 .. k) : Cardinality(B) = cap => Cardinality(Leaves(k, cap, B)) = c
        BY <1>3, kSubsetFacts
      <3>2. A \in SUBSET (1 .. k + 1)
        BY <2>1
      <3>3. Cardinality(Leaves(k + 1, cap, A)) = c * (k - cap + 1)
        BY <1>2, <2>1, <2>2, <3>1, <3>2, LeavesWith
      <3> QED
        BY <3>3
    <2>3. CASE k + 1 \notin A
      <3>1. A \subseteq 1 .. k
        BY <2>1, <2>3
      <3>2. Cardinality(Leaves(k, cap, A)) = c
        BY <1>3, <2>1, <3>1, kSubsetFacts
      <3>3. N(A) = Cardinality(Leaves(k, cap, A)) * (k - cap + 1)
        BY <2>3, LeavesWithout
      <3> QED
        BY <3>2, <3>3
    <2> QED
      BY <2>2, <2>3
  <1> DEFINE all == c * (k - cap + 1)
  <1>5. \A A \in kSubset(cap, 1 .. k + 1) : N(A) = all
    BY <1>4
  <1> HIDE DEF all, N
  <1>6. \A A, B \in kSubset(cap, 1 .. k + 1) : N(A) = N(B)
    BY <1>5
  <1> QED
    BY <1>0, <1>6 DEF Fair, N

\* The reservoir sampling of flush in extract.py is fair for every number of records and every
\* capacity: as many draws leave one reservoir as any other.
THEOREM ReservoirsFair ==
    ASSUME NEW n \in Nat, NEW cap \in Nat \ {0}
    PROVE  Fair(n, cap)
  <1> DEFINE T == {k \in 0 .. n : Fair(k, cap)}
  <1>1. 0 \in T
    BY FairShort
  <1>2. ASSUME NEW k \in 0 .. n - 1, k \in T PROVE k + 1 \in T
    <2>1. k + 1 \in 0 .. n /\ k \in Nat /\ k + 1 \in Nat /\ Fair(k, cap)
      BY <1>2
    <2>2. CASE k + 1 <= cap
      BY <2>1, <2>2, FairShort
    <2>3. CASE ~ (k + 1 <= cap)
      <3>1. cap \in 1 .. k
        BY <2>1, <2>3
      <3> QED
        BY <2>1, <3>1, FairLong
    <2> QED
      BY <2>2, <2>3
  <1> HIDE DEF T
  <1>3. 0 .. n \subseteq T
    BY <1>1, <1>2, Upwards
  <1> QED
    BY <1>3 DEF T

-----------------------------------------------------------------------------
(* What the reservoirs have met.                                           *)

\* The windows that the reservoir of unit u met.
Made(cl, u) == {k \in Labelled(cl) : opt.mode = "max_records" \/ cl[k].unit = u}

Used(u) == opt.mode = "max_per_unit" \/ (opt.mode = "max_records" /\ u = Given)

Count(s, u) == IF opt.mode = "max_records" THEN s.written ELSE s.seen_u[u]

DrawnFrom(s, u) ==
    /\ Count(s, u) = Cardinality(Made(s.closed, u))
    /\ Distinct(s.samples[u])
    /\ Len(s.samples[u]) = Least(Count(s, u), opt.cap)
    /\ Range(s.samples[u]) \subseteq {s.closed[k] : k \in Made(s.closed, u)}

Drawn(s) == \A u \in Units(opt) : Used(u) => DrawnFrom(s, u)

\* No two windows are the same, having their first syscalls for themselves.
LEMMA WindowsDiffer ==
    ASSUME WInv
    PROVE  Distinct(st.closed)
  <1> DEFINE cl == st.closed
             c == capture
             D == DOMAIN cl
  <1>1. cl \in Seq(Record) /\ c \in Seq(Frames) /\ opt \in Options /\ ClosedGood(c, cl)
    BY DEF WInv, WTyped, StateOK
  <1>2. D = 1 .. Len(cl) /\ Len(cl) \in Nat /\ DOMAIN c = 1 .. Len(c) /\ Len(c) \in Nat
    BY <1>1
  <1>3. opt.min_len \in Nat /\ opt.min_len >= 1 /\ Window \in Nat
    BY <1>1, WindowsAssumption
  <1> HIDE DEF cl, c, D
  <1>4. ASSUME NEW k \in D
        PROVE  cl[k].syscalls[1] \in Range(cl[k].syscalls) /\ cl[k].syscalls[1] \in Nat
    <2>1. WindowGood(c, cl, k) /\ cl[k] \in Record
      BY <1>1, <1>2 DEF ClosedGood, D
    <2>2. cl[k].syscalls \in Seq(Nat) /\ Len(cl[k].syscalls) >= 1
      BY <1>3, <2>1 DEF WindowGood, Record
    <2>3. 1 \in DOMAIN cl[k].syscalls
      BY <2>2
    <2> QED
      BY <2>2, <2>3 DEF Range
  <1>5. ASSUME NEW j \in D, NEW k \in D, j < k PROVE cl[j] # cl[k]
    <2> SUFFICES ASSUME cl[j] = cl[k] PROVE FALSE
      OBVIOUS
    <2>1. PairGood(cl, j, k)
      BY <1>1 DEF ClosedGood, D
    <2> DEFINE x == cl[j].syscalls[1]
    <2>2. x \in Range(cl[j].syscalls) /\ x \in Nat
      BY <1>4
    <2>3. x < x
      BY <1>5, <2>1, <2>2 DEF PairGood
    <2> QED
      BY <2>2, <2>3
  <1>6. \A j, k \in D : j < k \/ k < j \/ j = k
    BY <1>2
  <1> QED
    BY <1>5, <1>6 DEF Distinct, cl, D

LEMMA MadeFinite ==
    ASSUME NEW cl \in Seq(Record), NEW u
    PROVE  IsFiniteSet(Made(cl, u)) /\ Cardinality(Made(cl, u)) \in Nat /\ Made(cl, u) \subseteq DOMAIN cl
  <1>1. DOMAIN cl = 1 .. Len(cl) /\ Len(cl) \in Nat
    OBVIOUS
  <1>2. IsFiniteSet(DOMAIN cl)
    BY <1>1, UpTo
  <1>3. Made(cl, u) \subseteq DOMAIN cl
    BY DEF Made, Labelled
  <1> QED
    BY <1>2, <1>3, FS_Subset, FS_CardinalityType

\* One window more.
LEMMA MadeGrows ==
    ASSUME NEW cl \in Seq(Record), NEW rec \in Record, NEW u
    PROVE  LET more == Append(cl, rec)
               met == rec.unit # NoUnit /\ (opt.mode = "max_records" \/ rec.unit = u)
           IN /\ met => Cardinality(Made(more, u)) = Cardinality(Made(cl, u)) + 1
              /\ ~met => Cardinality(Made(more, u)) = Cardinality(Made(cl, u))
              /\ {cl[k] : k \in Made(cl, u)} \subseteq {more[k] : k \in Made(more, u)}
              /\ met => rec \in {more[k] : k \in Made(more, u)}
  <1> DEFINE more == Append(cl, rec)
             met == rec.unit # NoUnit /\ (opt.mode = "max_records" \/ rec.unit = u)
             n == Len(cl) + 1
  <1>1. /\ DOMAIN cl = 1 .. Len(cl) /\ Len(cl) \in Nat /\ n \in DOMAIN more
        /\ more[n] = rec /\ \A i \in DOMAIN cl : i \in DOMAIN more /\ more[i] = cl[i]
        /\ \A i \in DOMAIN more : i \in DOMAIN cl \/ i = n
    BY AppendFacts
  <1>2. n \notin DOMAIN cl
    BY <1>1
  <1> HIDE DEF more, n
  <1>3. n \notin Made(cl, u) /\ Made(cl, u) \subseteq Made(more, u)
    BY <1>1, <1>2 DEF Made, Labelled
  <1>4. met => Made(more, u) = Made(cl, u) \cup {n}
    BY <1>1, <1>3 DEF Made, Labelled
  <1>5. ~met => Made(more, u) = Made(cl, u)
    BY <1>1, <1>3 DEF Made, Labelled
  <1>6. Cardinality(Made(cl, u) \cup {n}) = Cardinality(Made(cl, u)) + 1
    BY <1>3, MadeFinite, FS_AddElement
  <1>7. \A k \in Made(cl, u) : k \in Made(more, u) /\ more[k] = cl[k]
    BY <1>1, <1>3, MadeFinite
  <1>8. met => n \in Made(more, u)
    BY <1>4
  <1> HIDE DEF met
  <1>9. {cl[k] : k \in Made(cl, u)} \subseteq {more[k] : k \in Made(more, u)}
    BY <1>7
  <1>10. met => rec \in {more[k] : k \in Made(more, u)}
    BY <1>1, <1>8
  <1> QED
    BY <1>4, <1>5, <1>6, <1>9, <1>10 DEF more, met

\* A reservoir that meets a window has one window more to be drawn from.
LEMMA DrawnMore ==
    ASSUME opt \in Options, NEW s, StateOK(s), SamplesFit(s), NEW t, StateOK(t), NEW u \in Units(opt), DrawnFrom(s, u),
           NEW rec \in Record, rec.unit # NoUnit, opt.mode = "max_records" \/ rec.unit = u,
           t.closed = Append(s.closed, rec), Distinct(t.closed), Count(t, u) = Count(s, u) + 1,
           Met(s, t, u, Count(s, u), rec)
    PROVE  DrawnFrom(t, u)
  <1> DEFINE cl == s.closed
             more == t.closed
             res == s.samples[u]
             cap == opt.cap
             n == Count(s, u)
             new == t.samples[u]
  <1>1. /\ cl \in Seq(Record) /\ res \in Seq(Record) /\ s.samples \in [Units(opt) -> Seq(Record)]
        /\ cap \in Nat \ {0} /\ Len(res) <= cap
    BY WindowsAssumption DEF StateOK, SamplesFit
  <1>2. /\ n = Cardinality(Made(cl, u)) /\ Distinct(res) /\ Len(res) = Least(n, cap)
        /\ Range(res) \subseteq {cl[k] : k \in Made(cl, u)}
    BY DEF DrawnFrom
  <1>3. n \in Nat
    BY <1>1, <1>2, MadeFinite
  <1>4. /\ Cardinality(Made(more, u)) = n + 1
        /\ {cl[k] : k \in Made(cl, u)} \subseteq {more[k] : k \in Made(more, u)}
        /\ rec \in {more[k] : k \in Made(more, u)}
    <2> DEFINE longer == Append(cl, rec)
    <2>1. /\ Cardinality(Made(longer, u)) = Cardinality(Made(cl, u)) + 1
          /\ {cl[k] : k \in Made(cl, u)} \subseteq {longer[k] : k \in Made(longer, u)}
          /\ rec \in {longer[k] : k \in Made(longer, u)}
      BY <1>1, MadeGrows
    <2>2. more = longer
      OBVIOUS
    <2> HIDE DEF longer, more, cl, n
    <2> QED
      BY <1>2, <2>1, <2>2
  <1>5. rec \notin Range(res)
    <2> DEFINE m == Len(cl) + 1
    <2>1. /\ more[m] = rec /\ m \in DOMAIN more /\ \A i \in DOMAIN cl : i \in DOMAIN more /\ more[i] = cl[i]
          /\ m \notin DOMAIN cl
      BY <1>1, AppendFacts
    <2> HIDE DEF more, cl, m, res
    <2>2. \A k \in DOMAIN cl : cl[k] # rec
      BY <2>1 DEF Distinct, more
    <2>3. Made(cl, u) \subseteq DOMAIN cl
      BY <1>1, MadeFinite
    <2> QED
      BY <1>2, <2>2, <2>3
  <1>6. PICK j \in 0 .. n : t.samples = [s.samples EXCEPT ![u] = Sampled(res, cap, rec, j)]
    BY DEF Met
  <1>7. new = Sampled(res, cap, rec, j) /\ j \in Nat
    BY <1>1, <1>3, <1>6
  <1> HIDE DEF new, n, res, cap, cl, more
  <1>8. new \in Seq(Record) /\ Sampling(new, res, cap, rec, j)
    BY <1>1, <1>2, <1>5, <1>7, SampledRange
  <1>9. Distinct(new) /\ Len(new) = Least(Len(res) + 1, cap)
    BY <1>8 DEF Sampling
  <1>10. Least(Len(res) + 1, cap) = Least(n + 1, cap)
    BY <1>1, <1>2, <1>3 DEF Least
  <1>11. Range(new) \subseteq Range(res) \cup {rec}
    <2>1. Len(res) \in Nat
      BY <1>1
    <2>2. Len(res) < cap \/ Len(res) = cap
      BY <1>1, <2>1
    <2> QED
      BY <1>8, <2>2 DEF Sampling
  <1>12. Range(new) \subseteq {more[k] : k \in Made(more, u)}
    BY <1>2, <1>4, <1>11
  <1>13. Count(t, u) = n + 1
    BY DEF n
  <1>14. /\ Count(t, u) = Cardinality(Made(more, u)) /\ Len(new) = Least(Count(t, u), cap)
    BY <1>4, <1>9, <1>10, <1>13
  <1> QED
    BY <1>9, <1>12, <1>14 DEF DrawnFrom, new, cap, more

\* A reservoir that does not meet it stays as it is.
LEMMA DrawnSame ==
    ASSUME opt \in Options, NEW s, StateOK(s), NEW t, NEW u \in Units(opt), DrawnFrom(s, u),
           NEW rec \in Record, ~ (rec.unit # NoUnit /\ (opt.mode = "max_records" \/ rec.unit = u)),
           t.closed = Append(s.closed, rec), Count(t, u) = Count(s, u), t.samples[u] = s.samples[u]
    PROVE  DrawnFrom(t, u)
  <1> DEFINE cl == s.closed
             more == Append(cl, rec)
  <1>1. cl \in Seq(Record)
    BY DEF StateOK
  <1>2. /\ Cardinality(Made(more, u)) = Cardinality(Made(cl, u))
        /\ {cl[k] : k \in Made(cl, u)} \subseteq {more[k] : k \in Made(more, u)}
    BY <1>1, MadeGrows
  <1>3. t.closed = more
    OBVIOUS
  <1> HIDE DEF more
  <1> QED
    BY <1>2, <1>3 DEF DrawnFrom

LEMMA FlushDrawn ==
    ASSUME opt \in Options, NEW s, StateOK(s), SamplesFit(s), NEW t, StateOK(t), NEW key \in Key, Drawn(s),
           Cuts(s, t, key) \/ Drops(s, t, key) \/ t = s, Distinct(t.closed)
    PROVE  Drawn(t)
  <1> SUFFICES ASSUME NEW u \in Units(opt), Used(u)
               PROVE  DrawnFrom(t, u)
    BY DEF Drawn
  <1>1. DrawnFrom(s, u)
    BY DEF Drawn
  <1>2. CASE Drops(s, t, key) \/ t = s
    BY <1>1, <1>2 DEF Drops, Ignores, DrawnFrom, Count
  <1>3. CASE Cuts(s, t, key)
    <2> DEFINE rec == Closing(s, key)
    <2>1. rec.unit = UnitOf(key)
      BY DEF Closing
    <2>2. UnitOf(key) \in Units(opt) \cup {NoUnit} /\ NoUnit \notin Units(opt) /\ Given \in Units(opt)
      BY UnitOfType
    <2>3. rec \in Record
      <3>1. s.sysq[key] \in Seq(Nat) /\ s.details[key] \in Seq(Nat)
        BY StateFields
      <3> QED
        BY <2>2, <3>1 DEF Closing, Record
    <2>4. t.closed = Append(s.closed, rec)
      BY <1>3 DEF Cuts
    <2> HIDE DEF rec
    <2>5. CASE UnitOf(key) = NoUnit
      <3>1. Ignores(s, t)
        BY <1>3, <2>5 DEF Cuts
      <3>2. Count(t, u) = Count(s, u) /\ t.samples[u] = s.samples[u]
        BY <3>1 DEF Ignores, Count
      <3> QED
        BY <1>1, <2>1, <2>3, <2>4, <2>5, <3>2, DrawnSame
    <2>6. CASE UnitOf(key) # NoUnit
      <3>1. Records(s, t, rec)
        BY <1>3, <2>6 DEF Cuts, rec
      <3>2. /\ s.seen_u \in [Units(opt) -> Nat] /\ s.samples \in [Units(opt) -> Seq(Record)]
        BY DEF StateOK
      <3>3. CASE opt.mode = "max_records"
        <4>1. u = Given
          BY <3>3 DEF Used
        <4>2. Met(s, t, Given, s.written, rec) /\ t.written = s.written + 1
          BY <3>1, <3>3 DEF Records
        <4>3. Count(s, u) = s.written /\ Count(t, u) = t.written
          BY <3>3 DEF Count
        <4>4. Met(s, t, u, Count(s, u), rec) /\ Count(t, u) = Count(s, u) + 1
          BY <4>1, <4>2, <4>3
        <4> QED
          BY <1>1, <2>1, <2>3, <2>4, <2>6, <3>3, <4>4, DrawnMore
      <3>4. CASE opt.mode = "max_per_unit"
        <4> DEFINE v == rec.unit
        <4>1. /\ Met(s, t, v, s.seen_u[v], rec) /\ t.seen_u = [s.seen_u EXCEPT ![v] = s.seen_u[v] + 1]
              /\ v \in Units(opt)
          BY <2>1, <2>2, <2>6, <3>1, <3>4 DEF Records
        <4> HIDE DEF v
        <4>2. Count(s, u) = s.seen_u[u] /\ Count(t, u) = t.seen_u[u]
          BY <3>4 DEF Count
        <4>3. CASE v = u
          <5>1. Met(s, t, u, Count(s, u), rec)
            BY <4>1, <4>2, <4>3
          <5>2. Count(t, u) = Count(s, u) + 1
            BY <3>2, <4>1, <4>2, <4>3
          <5> QED
            BY <1>1, <2>1, <2>3, <2>4, <2>6, <4>3, <5>1, <5>2, DrawnMore DEF v
        <4>4. CASE v # u
          <5>1. t.seen_u[u] = s.seen_u[u]
            BY <3>2, <4>1, <4>4
          <5>2. t.samples[u] = s.samples[u]
            <6>1. PICK j : t.samples = [s.samples EXCEPT ![v] = Sampled(s.samples[v], opt.cap, rec, j)]
              BY <4>1 DEF Met
            <6> QED
              BY <3>2, <4>1, <4>4, <6>1
          <5>3. ~ (rec.unit # NoUnit /\ (opt.mode = "max_records" \/ rec.unit = u))
            BY <3>4, <4>4 DEF v
          <5> QED
            BY <1>1, <2>3, <2>4, <4>2, <5>1, <5>2, <5>3, DrawnSame
        <4> QED
          BY <4>3, <4>4
      <3> QED
        BY <3>3, <3>4 DEF Used
    <2> QED
      BY <2>5, <2>6
  <1> QED
    BY <1>2, <1>3

SInv == WInv /\ Drawn(st)

\* What is drawn depends on nothing else that changes.
LEMMA DrawnKept ==
    ASSUME opt' = opt, NEW t, Drawn(t), st' = t
    PROVE  Drawn(st)'
  <1>1. ASSUME NEW u \in Units(opt), Used(u) PROVE DrawnFrom(st, u)'
    <2>1. DrawnFrom(t, u)
      BY <1>1 DEF Drawn
    <2>2. Made(t.closed, u) = Made(st.closed, u)'
      BY DEF Made, Labelled
    <2>3. Count(t, u) = Count(st, u)'
      BY DEF Count
    <2> QED
      BY <2>1, <2>2, <2>3 DEF DrawnFrom
  <1> QED
    BY <1>1 DEF Drawn, Used

LEMMA DrawnInit ==
    ASSUME WInit
    PROVE  SInv
  <1>1. WInv
    BY WindowsInit
  <1>2. opt \in Options /\ st.closed = <<>> /\ st.written = 0 /\ opt.cap \in Nat \ {0}
    BY WindowsAssumption DEF WInit
  <1>3. ASSUME NEW u \in Units(opt) PROVE st.samples[u] = <<>> /\ st.seen_u[u] = 0
    BY DEF WInit
  <1>4. ASSUME NEW u PROVE Made(<<>>, u) = {}
    <2>1. DOMAIN <<>> = {}
      OBVIOUS
    <2> QED
      BY <2>1 DEF Made, Labelled
  <1>5. DOMAIN <<>> = {} /\ Len(<<>>) = 0 /\ Range(<<>>) = {} /\ Cardinality({}) = 0
    BY FS_EmptySet, AscendsEmpty
  <1>6. ASSUME NEW u \in Units(opt) PROVE DrawnFrom(st, u)
    <2>1. Count(st, u) = 0
      BY <1>2, <1>3 DEF Count
    <2>2. Least(0, opt.cap) = 0
      BY <1>2 DEF Least
    <2> QED
      BY <1>2, <1>3, <1>4, <1>5, <2>1, <2>2 DEF DrawnFrom, Distinct
  <1> QED
    BY <1>1, <1>6 DEF SInv, Drawn

LEMMA WindowsDifferNext == WInv' => Distinct(st.closed)'
  <1>1. WInv => Distinct(st.closed)
    BY WindowsDiffer
  <1> QED
    BY <1>1, PTL

LEMMA DrawnNext ==
    ASSUME SInv, [WNext]_wvars
    PROVE  SInv'
  <1>1. WInv'
    BY WindowsNext DEF SInv
  <1>2. /\ opt \in Options /\ StateOK(st) /\ SamplesFit(st) /\ Drawn(st) /\ capture \in Seq(Frames)
        /\ order \in Seq(Key)
    BY DEF SInv, WInv, WTyped
  <1>3. opt' = opt
    BY DEF WNext, wvars, ReadFrame, ReadCorrupt, ReadEnd, FlushRest, WriteOutput, AggregateRow, AggregateSave,
           StatChanges
  <1>4. Distinct(st'.closed)
    BY <1>1, WindowsDifferNext DEF Distinct
  <1>5. CASE ReadFrame
    <2>1. PICK f \in Frames :
             /\ capture' = Append(capture, f)
             /\ CASE f.type = "syscall" -> Syscall(f.key, Len(capture'))
                  [] f.type \in {"open", "connect"} ->
                       /\ st' = [st EXCEPT !.details[f.key] = Append(@, Len(capture'))]
                       /\ UNCHANGED order
                  [] OTHER -> UNCHANGED <<st, order>>
      BY <1>5 DEF ReadFrame
    <2> DEFINE n == Len(capture')
               key == f.key
    <2>2. n \in Nat /\ key \in Key
      BY <1>2, <2>1, WindowsAssumption
    <2> HIDE DEF n
    <2>3. CASE f.type = "syscall"
      <3> DEFINE s == [st EXCEPT !.sysq[key] = Append(@, n)]
      <3>1. st' \in (IF Len(s.sysq[key]) >= Window THEN flush(s, key, FALSE) ELSE {s})
        BY <2>1, <2>3 DEF Syscall, n
      <3>2. StateOK(s) /\ SamplesFit(s) /\ s.closed = st.closed /\ Ignores(st, s)
        BY <1>2, <2>2, QueuedSyscall
      <3> HIDE DEF s
      <3>3. Drawn(s)
        BY <1>2, <3>2 DEF Ignores, Drawn, DrawnFrom, Count
      <3>4. CASE st' = s
        BY <1>1, <1>3, <3>3, <3>4, DrawnKept DEF SInv
      <3>5. CASE st' \in flush(s, key, FALSE)
        <4>1. PICK t \in flush(s, key, FALSE) : st' = t
          BY <3>5
        <4>2. StateOK(t) /\ (Cuts(s, t, key) \/ t = s)
          BY <1>2, <2>2, <3>2, FlushFacts
        <4>3. Distinct(t.closed)
          BY <1>4, <4>1
        <4>4. Drawn(t)
          BY <1>2, <2>2, <3>2, <3>3, <4>2, <4>3, FlushDrawn
        <4> QED
          BY <1>1, <1>3, <4>1, <4>4, DrawnKept DEF SInv
      <3> QED
        BY <3>1, <3>4, <3>5
    <2>4. CASE f.type \in {"open", "connect"}
      <3> DEFINE t == [st EXCEPT !.details[key] = Append(@, n)]
      <3>1. st' = t
        BY <2>1, <2>4 DEF n
      <3>2. t.closed = st.closed /\ Ignores(st, t)
        BY <1>2, <2>2, QueuedDetail
      <3> HIDE DEF t
      <3>3. Drawn(t)
        BY <1>2, <3>2 DEF Ignores, Drawn, DrawnFrom, Count
      <3> QED
        BY <1>1, <1>3, <3>1, <3>3, DrawnKept DEF SInv
    <2>5. CASE f.type \notin {"syscall", "open", "connect"}
      <3>1. st' = st
        BY <2>1, <2>5
      <3> QED
        BY <1>1, <1>2, <1>3, <3>1, DrawnKept DEF SInv
    <2> QED
      BY <2>3, <2>4, <2>5
  <1>6. CASE FlushRest
    <2> DEFINE key == Head(order)
    <2>1. PICK t \in flush(st, key, TRUE) : st' = t
      BY <1>6 DEF FlushRest
    <2>2. key \in Key
      BY <1>2, <1>6 DEF FlushRest
    <2>3. StateOK(t) /\ (Cuts(st, t, key) \/ Drops(st, t, key))
      BY <1>2, <2>2, FlushFacts
    <2>4. Distinct(t.closed)
      BY <1>4, <2>1
    <2>5. Drawn(t)
      BY <1>2, <2>2, <2>3, <2>4, FlushDrawn
    <2> QED
      BY <1>1, <1>3, <2>1, <2>5, DrawnKept DEF SInv
  <1>7. CASE WriteOutput
    <2> DEFINE W == Written
               t == [st EXCEPT !.lines = W]
    <2>1. st' = t
      BY <1>7 DEF WriteOutput
    <2> HIDE DEF W
    <2>2. t.closed = st.closed /\ t.samples = st.samples /\ t.seen_u = st.seen_u /\ t.written = st.written
      BY <1>2 DEF StateOK
    <2> HIDE DEF t
    <2>3. Drawn(t)
      BY <1>2, <2>2 DEF Drawn, DrawnFrom, Count
    <2> QED
      BY <1>1, <1>3, <2>1, <2>3, DrawnKept DEF SInv
  <1>8. CASE ReadCorrupt \/ ReadEnd \/ AggregateRow \/ AggregateSave \/ StatChanges \/ UNCHANGED wvars
    <2>1. st' = st
      BY <1>8 DEF ReadCorrupt, ReadEnd, AggregateRow, AggregateSave, StatChanges, wvars
    <2> QED
      BY <1>1, <1>2, <1>3, <2>1, DrawnKept DEF SInv
  <1> QED
    BY <1>5, <1>6, <1>7, <1>8 DEF WNext

LEMMA SampleHolds ==
    ASSUME SInv
    PROVE  SampleUniform
  <1> SUFFICES ASSUME opt.mode \in {"max_per_unit", "max_records"}
               PROVE  /\ \A n \in 1 .. st.written + 2 :
                           \A A, B \in kSubset(IF n < opt.cap THEN n ELSE opt.cap, 1 .. n) :
                              Cardinality({d \in Draws(n) : Reservoir(n, opt.cap, d) = A})
                                = Cardinality({d \in Draws(n) : Reservoir(n, opt.cap, d) = B})
                      /\ \A u \in DOMAIN st.samples :
                           (opt.mode = "max_per_unit" \/ u = Given) =>
                             /\ Cardinality(Range(st.samples[u]))
                                  = (IF Cardinality(Made(st.closed, u)) < opt.cap
                                     THEN Cardinality(Made(st.closed, u)) ELSE opt.cap)
                             /\ Range(st.samples[u]) \subseteq {st.closed[k] : k \in Made(st.closed, u)}
    <2>1. ASSUME NEW u
          PROVE  {k \in DOMAIN st.closed :
                     st.closed[k].unit # NoUnit
                       /\ (opt.mode = "max_records" \/ st.closed[k].unit = u)} = Made(st.closed, u)
      BY DEF Made, Labelled
    <2> QED
      BY <2>1 DEF SampleUniform
  <1>1. opt \in Options /\ StateOK(st) /\ SamplesFit(st) /\ Drawn(st) /\ opt.cap \in Nat \ {0}
    BY WindowsAssumption DEF SInv, WInv, WTyped
  <1>2. ASSUME NEW n \in 1 .. st.written + 2
        PROVE  \A A, B \in kSubset(IF n < opt.cap THEN n ELSE opt.cap, 1 .. n) :
                  Cardinality({d \in Draws(n) : Reservoir(n, opt.cap, d) = A})
                    = Cardinality({d \in Draws(n) : Reservoir(n, opt.cap, d) = B})
    <2>1. n \in Nat
      OBVIOUS
    <2>2. Fair(n, opt.cap)
      BY <1>1, <2>1, ReservoirsFair
    <2> QED
      BY <2>2 DEF Fair, Least, Leaves
  <1>3. ASSUME NEW u \in DOMAIN st.samples, opt.mode = "max_per_unit" \/ u = Given
        PROVE  /\ Cardinality(Range(st.samples[u]))
                    = (IF Cardinality(Made(st.closed, u)) < opt.cap THEN Cardinality(Made(st.closed, u)) ELSE opt.cap)
               /\ Range(st.samples[u]) \subseteq {st.closed[k] : k \in Made(st.closed, u)}
    <2>1. u \in Units(opt) /\ st.samples[u] \in Seq(Record)
      BY <1>1 DEF StateOK
    <2>2. DrawnFrom(st, u)
      BY <1>1, <1>3, <2>1 DEF Drawn, Used
    <2> DEFINE res == st.samples[u]
    <2>3. Distinct(res) /\ res \in Seq(Record) /\ DOMAIN res = 1 .. Len(res) /\ Len(res) \in Nat
      BY <2>1, <2>2 DEF DrawnFrom
    <2>4. Cardinality(Range(res)) = Len(res)
      <3> HIDE DEF res
      <3>1. IsFiniteSet(DOMAIN res) /\ Cardinality(DOMAIN res) = Len(res)
        BY <2>3, UpTo
      <3>2. \A i, j \in DOMAIN res : res[i] = res[j] => i = j
        BY <2>3 DEF Distinct
      <3>3. Cardinality({res[i] : i \in DOMAIN res}) = Cardinality(DOMAIN res)
        BY <3>1, <3>2, ImageFinite
      <3> QED
        BY <3>1, <3>3 DEF Range
    <2> QED
      BY <2>2, <2>4 DEF DrawnFrom, Least
  <1> QED
    BY <1>2, <1>3

\* The samples of extract.py: every set of as many records is left by as many of the equally
\* likely draws, whatever the number of records and the capacity, and a reservoir has only
\* windows of its unit, as many as there were or as it can hold.
THEOREM SampleRight == WSpec => []SampleUniform
  <1>1. WInit => SInv
    BY DrawnInit
  <1>2. SInv /\ [WNext]_wvars => SInv'
    BY DrawnNext
  <1>3. SInv => SampleUniform
    BY SampleHolds
  <1> QED
    BY <1>1, <1>2, <1>3, PTL DEF WSpec

-----------------------------------------------------------------------------
(* Evaluation                                                              *)

\* The phases after the inputs were hashed, read and read again.
AfterSecond == {"select", "score", "verify", "returned"}
AfterFirst == AfterSecond \cup {"join"}
AfterHash == AfterFirst \cup {"read"}

\* Versions only grow, so that a version found again at the end was there all along.
VersionInv ==
    /\ edits \in Nat
    /\ taken \in [audit : Int, hash : Int, first : Int, second : Int]
    /\ phase \in AfterHash \cup {"audit", "hash", "failed"}
    /\ phase \in AfterHash => taken.hash <= edits
    /\ phase \in AfterFirst => taken.hash <= taken.first /\ taken.first <= edits
    /\ phase \in AfterSecond =>
          taken.audit = taken.hash /\ taken.first <= taken.second /\ taken.second <= edits
    /\ phase = "returned" => taken.hash = edits

\* A result that evaluate_temporal_unlinks returns is of one version of its inputs, whatever
\* is edited while it runs (evaluate, join_audit and the last comparison of the hashes).
THEOREM OneVersion == ESpec => []ResultOfOneVersion
  <1> USE DEF VersionInv, AfterHash, AfterFirst, AfterSecond
  <1>1. EInit => VersionInv
    BY DEF EInit, NoVersion
  <1>2. VersionInv /\ [ENext]_evars => VersionInv'
    <2> SUFFICES ASSUME VersionInv, [ENext]_evars PROVE VersionInv'
      OBVIOUS
    <2>1. CASE audit_prefix
      BY <2>1 DEF audit_prefix, Go
    <2>2. CASE HashInputs
      BY <2>2 DEF HashInputs, Go
    <2>3. CASE read_data
      BY <2>3 DEF read_data, Go
    <2>4. CASE join_audit
      BY <2>4 DEF join_audit, Go
    <2>5. CASE Select
      BY <2>5 DEF Select, Go
    <2>6. CASE score
      BY <2>6 DEF score, Go
    <2>7. CASE VerifyInputs
      BY <2>7 DEF VerifyInputs, Go
    <2>8. CASE Edit
      BY <2>8 DEF Edit
    <2>9. CASE UNCHANGED evars
      BY <2>9 DEF evars
    <2> QED
      BY <2>1, <2>2, <2>3, <2>4, <2>5, <2>6, <2>7, <2>8, <2>9 DEF ENext
  <1>3. VersionInv => ResultOfOneVersion
    BY DEF ResultOfOneVersion
  <1> QED
    BY <1>1, <1>2, <1>3, PTL DEF ESpec

\* A fit and what is scored with it: of different sessions, and for a threshold normal.
Sound(x) ==
    /\ {r[1] : r \in x.fit} \cap {r[1] : r \in x.scored} = {}
    /\ x.use = "threshold" => \A r \in x.scored : Normal(r)

\* The rows of training, calibration and test are of sessions that do not meet.
LEMMA SplitsApart ==
    /\ \A r \in Rows : r[1] \in Sids
    /\ \A r \in Pool : r[1] < NTrain + 1
    /\ \A r \in Calibration : r[1] = NTrain + 1
    /\ \A r \in TestSession : r[1] = NTrain + 2
    /\ Pool \subseteq Rows /\ Calibration \subseteq Rows /\ TestSession \subseteq Rows
    /\ cal \subseteq Calibration /\ normal_train \subseteq Pool /\ full_test \subseteq TestSession
    /\ \A g : GroupTrain(g) \subseteq Pool /\ GroupTest(g) \subseteq TestSession
    /\ \A r \in cal : Normal(r)
  <1>1. \A r \in Rows : r[1] \in Sids
    BY DEF Rows
  <1>2. \A r \in Rows : r[1] \in Int
    BY <1>1, EvaluationAssumption DEF Sids
  <1>3. \A r \in Pool : r[1] < NTrain + 1
    BY <1>2, EvaluationAssumption DEF Pool
  <1>4. /\ Pool \subseteq Rows /\ Calibration \subseteq Rows /\ TestSession \subseteq Rows
        /\ \A r \in Calibration : r[1] = NTrain + 1
        /\ \A r \in TestSession : r[1] = NTrain + 2
    BY DEF Pool, Calibration, TestSession
  <1>5. /\ cal \subseteq Calibration /\ normal_train \subseteq Pool /\ full_test \subseteq TestSession
        /\ \A r \in cal : Normal(r)
    BY DEF cal, normal_train, full_test
  <1>6. \A g : GroupTrain(g) \subseteq Pool /\ GroupTest(g) \subseteq TestSession
    BY <1>5 DEF GroupTrain, GroupTest
  <1> QED
    BY <1>1, <1>3, <1>4, <1>5, <1>6

\* A fit of a protocol with one split of the sessions: sound, calibrated on rows before the
\* test session, or tested on rows of it.
Split(x) ==
    /\ Sound(x)
    /\ x.use = "threshold" => x.fit \cup x.scored \subseteq Pool \cup Calibration
    /\ x.use = "test" => x.scored \subseteq TestSession

\* Rows of training with rows of calibration or of the test.
LEMMA SplitSound ==
    ASSUME NEW fit, NEW part, NEW use, fit \subseteq Pool,
           \/ part \subseteq Calibration /\ use = "threshold" /\ \A r \in part : Normal(r)
           \/ part \subseteq TestSession /\ use = "test"
    PROVE  Split(Fit(fit, part, use))
  <1>1. ASSUME NEW r \in fit, NEW q \in part PROVE r[1] # q[1]
    BY SplitsApart, EvaluationAssumption
  <1> QED
    BY <1>1 DEF Sound, Split, Fit

\* What NoSessionLeak says of one protocol.
Apart(P) ==
    \A x \in P :
        /\ Sound(x)
        /\ x.use = "threshold" =>
              \A y \in P : y.use = "test" =>
                  \A r \in x.fit \cup x.scored, q \in y.scored : r[1] # q[1]

LEMMA SplitApart ==
    ASSUME NEW P, \A x \in P : Split(x)
    PROVE  Apart(P)
  <1> SUFFICES ASSUME NEW x \in P, NEW y \in P, x.use = "threshold", y.use = "test",
                      NEW r \in x.fit \cup x.scored, NEW q \in y.scored
               PROVE  r[1] # q[1]
    BY DEF Split, Apart
  <1>1. r \in Pool \cup Calibration /\ q \in TestSession
    BY DEF Split
  <1> QED
    BY <1>1, SplitsApart, EvaluationAssumption

\* In every protocol of the evaluation, for any corpus: no session is scored with a model
\* fitted on rows of it, and a threshold comes from normal rows, which like those of its fit
\* are of other sessions than the tested ones (the selections of evaluate_temporal_unlinks,
\* evaluate_unseen_groups, evaluate_normal_only, export_candidate_model and
\* evaluate_event_time).
THEOREM SessionsApart == ESpec => []NoSessionLeak
  <1>1. Apart(TemporalFits)
    <2>1. Split(Fit(normal_train, cal, "threshold")) /\ Split(Fit(normal_train, full_test, "test"))
      BY SplitsApart, SplitSound
    <2>2. ASSUME NEW g \in Group
          PROVE  Split(Fit(GroupTrain(g), cal, "threshold")) /\ Split(Fit(GroupTrain(g), GroupTest(g), "test"))
      BY SplitsApart, SplitSound
    <2>3. \A x \in TemporalFits : Split(x)
      BY <2>1, <2>2 DEF TemporalFits
    <2> QED
      BY <2>3, SplitApart
  <1>2. Apart(UnseenFits)
    <2> DEFINE Retained(g, n) == {r \in Pool : r[1] <= n /\ ~Target(r, g)}
               Both(g, n) == {Fit(Retained(g, n), {r \in Calibration : Normal(r)}, "threshold"),
                              Fit(Retained(g, n), {r \in TestSession : Normal(r) \/ Target(r, g)}, "test")}
    <2>1. ASSUME NEW g \in Group, NEW n \in Regimes PROVE \A x \in Both(g, n) : Split(x)
      <3>1. Retained(g, n) \subseteq Pool
        OBVIOUS
      <3>2. {r \in TestSession : Normal(r) \/ Target(r, g)} \subseteq TestSession
        OBVIOUS
      <3> QED
        BY <3>1, <3>2, SplitSound
    <2>2. UnseenFits = UNION {Both(g, n) : g \in Group, n \in Regimes}
      BY DEF UnseenFits
    <2> HIDE DEF Both
    <2>3. \A x \in UnseenFits : Split(x)
      BY <2>1, <2>2
    <2> QED
      BY <2>3, SplitApart
  <1>3. Apart(NormalFits)
    <2> DEFINE normals(n) == {r \in Pool : r[1] <= n /\ Normal(r)}
    <2>1. ASSUME NEW n \in Regimes
          PROVE  /\ Split(Fit(normals(n), {r \in Calibration : Normal(r)}, "threshold"))
                 /\ Split(Fit(normals(n), TestSession, "test"))
      <3>1. normals(n) \subseteq Pool
        OBVIOUS
      <3> QED
        BY <3>1, SplitSound
    <2>2. \A x \in NormalFits : Split(x)
      BY <2>1 DEF NormalFits
    <2> QED
      BY <2>2, SplitApart
  <1>4. Apart(CandidateFits)
    <2>1. \A x \in CandidateFits : Split(x)
      BY SplitSound DEF CandidateFits
    <2> QED
      BY <2>1, SplitApart
  <1>5. ASSUME NEW out \in Sids PROVE Apart(NestedFits(out))
    <2> DEFINE train == {r \in Rows : r[1] # out}
               Inner(inner) == Fit({r \in train : r[1] # inner},
                                   {r \in train : r[1] = inner /\ Normal(r)}, "threshold")
               Outer == Fit(train, Rows \ train, "test")
    <2>1. Sound(Outer) /\ Outer.use = "test" /\ \A q \in Outer.scored : q[1] = out
      <3>1. /\ \A r \in train, q \in Rows \ train : r[1] # q[1]
            /\ \A q \in Rows \ train : q[1] = out
        OBVIOUS
      <3> HIDE DEF train
      <3> QED
        BY <3>1 DEF Fit, Sound
    <2>2. ASSUME NEW inner \in Sids
          PROVE  /\ Sound(Inner(inner)) /\ Inner(inner).use = "threshold"
                 /\ \A r \in Inner(inner).fit \cup Inner(inner).scored : r[1] # out
      BY DEF Fit, Sound
    <2>3. ASSUME NEW x \in NestedFits(out) PROVE x = Outer \/ \E inner \in Sids : x = Inner(inner)
      BY DEF NestedFits
    <2> HIDE DEF Inner, Outer
    <2>4. ASSUME NEW x \in NestedFits(out)
          PROVE  /\ Sound(x)
                 /\ x.use = "threshold" => \A r \in x.fit \cup x.scored : r[1] # out
                 /\ x.use = "test" => \A q \in x.scored : q[1] = out
      BY <2>1, <2>2, <2>3
    <2> QED
      BY <2>4 DEF Apart
  <1>6. \A P \in Protocols : Apart(P)
    BY <1>1, <1>2, <1>3, <1>4, <1>5 DEF Protocols
  <1>7. NoSessionLeak
    <2> SUFFICES ASSUME NEW P \in Protocols, NEW x \in P
                 PROVE  /\ SessionsOf(x.fit) \cap SessionsOf(x.scored) = {}
                        /\ x.use = "threshold" =>
                              /\ \A r \in x.scored : Normal(r)
                              /\ \A y \in P : y.use = "test" =>
                                    SessionsOf(x.fit \cup x.scored) \cap SessionsOf(y.scored) = {}
      BY DEF NoSessionLeak
    <2>1. Apart(P)
      BY <1>6
    <2> QED
      BY <2>1 DEF Apart, Sound, SessionsOf
  <1> QED
    BY <1>7, PTL
-----------------------------------------------------------------------------
(* Evaluation: what a window sums.                                         *)

Timely(table, n) ==
    /\ n \in Nat /\ DOMAIN table = 1 .. n /\ \A i \in 1 .. n : table[i].b \in Int
    /\ \A i, j \in 1 .. n : table[i].b = table[j].b => i = j

\* The rows in the w seconds up to that of row i.
Near(table, i, w) == {j \in DOMAIN table : table[i].b - w < table[j].b /\ table[j].b <= table[i].b}

Order(table) == argsort(Times(table))
Sorted(table) == [k \in DOMAIN Order(table) |-> table[Order(table)[k]].b]
Begin(table, k, w) == searchsorted(Sorted(table), Sorted(table)[k] - (w - 1))
Arranged(table, g) == [k \in DOMAIN Order(table) |-> g[Order(table)[k]]]

\* The rows by time: a permutation, the times of which ascend.
LEMMA OrderFacts ==
    ASSUME NEW n, NEW table, Timely(table, n)
    PROVE  /\ Order(table) \in [1 .. n -> 1 .. n]
           /\ \A j, k \in 1 .. n : Order(table)[j] = Order(table)[k] => j = k
           /\ \A i \in 1 .. n : \E k \in 1 .. n : Order(table)[k] = i
           /\ Sorted(table) \in [1 .. n -> Int]
           /\ \A k \in 1 .. n : Sorted(table)[k] = table[Order(table)[k]].b
           /\ \A j, k \in 1 .. n : j < k => Sorted(table)[j] < Sorted(table)[k]
  <1> DEFINE t == Times(table)
             p == argsort(t)
  <1>1. t \in [1 .. n -> Int] /\ \A i \in 1 .. n : t[i] = table[i].b
    BY DEF Times, Timely
  <1>2. n \in Nat
    BY DEF Timely
  <1> HIDE DEF t
  <1>3. p \in Bijection(1 .. n, 1 .. n) /\ \A j, k \in 1 .. n : j < k => t[p[j]] <= t[p[k]]
    BY <1>1, <1>2, ArgsortFacts
  <1>4. Order(table) = p
    BY DEF Order, t
  <1> HIDE DEF p
  <1>5. /\ p \in [1 .. n -> 1 .. n] /\ \A j, k \in 1 .. n : p[j] = p[k] => j = k
        /\ \A i \in 1 .. n : \E k \in 1 .. n : p[k] = i
    BY <1>3 DEF Bijection, Injection, Surjection, IsInjective
  <1>6. Sorted(table) = [k \in 1 .. n |-> t[p[k]]]
    BY <1>1, <1>4, <1>5 DEF Sorted
  <1>7. \A k \in 1 .. n : Sorted(table)[k] = t[p[k]] /\ t[p[k]] \in Int /\ t[p[k]] = table[p[k]].b
    BY <1>1, <1>5, <1>6
  <1>8. ASSUME NEW j \in 1 .. n, NEW k \in 1 .. n, j < k PROVE Sorted(table)[j] < Sorted(table)[k]
    <2>1. t[p[j]] <= t[p[k]]
      BY <1>3, <1>8
    <2>2. p[j] \in 1 .. n /\ p[k] \in 1 .. n /\ p[j] # p[k]
      <3>1. j # k
        BY <1>8
      <3>2. p[j] # p[k]
        BY <1>5, <3>1, Zenon
      <3> QED
        BY <1>5, <3>2
    <2>3. t[p[j]] # t[p[k]]
      <3>1. t[p[j]] = table[p[j]].b /\ t[p[k]] = table[p[k]].b
        BY <1>1, <2>2
      <3>2. table[p[j]].b # table[p[k]].b
        BY <2>2 DEF Timely
      <3> QED
        BY <3>1, <3>2
    <2> QED
      BY <1>7, <2>1, <2>3
  <1>9. Sorted(table) \in [1 .. n -> Int]
    BY <1>6, <1>7
  <1> QED
    BY <1>4, <1>5, <1>7, <1>8, <1>9

\* The places from Begin to k are those of the rows in the window of the k-th row.
SpanRight(table, k, w) ==
    /\ Begin(table, k, w) \in 0 .. k
    /\ {Order(table)[j] : j \in Begin(table, k, w) + 1 .. k} = Near(table, Order(table)[k], w)

LEMMA SpanFacts ==
    ASSUME NEW n, NEW table, Timely(table, n), NEW k \in 1 .. n, NEW w \in Nat \ {0}
    PROVE  SpanRight(table, k, w)
  <1> DEFINE p == Order(table)
             t == Sorted(table)
             x == t[k] - (w - 1)
             m == searchsorted(t, x)
  <1>1. n \in Nat /\ DOMAIN table = 1 .. n
    BY DEF Timely
  <1>2. /\ p \in [1 .. n -> 1 .. n] /\ \A i \in 1 .. n : \E j \in 1 .. n : p[j] = i
        /\ t \in [1 .. n -> Int] /\ \A j \in 1 .. n : t[j] = table[p[j]].b
        /\ \A i, j \in 1 .. n : i < j => t[i] < t[j]
    BY OrderFacts
  <1>3. Begin(table, k, w) = m
    BY DEF Begin
  <1> HIDE DEF p, t
  <1>4. x \in Int
    BY <1>2
  <1>5. \A i, j \in 1 .. n : i < j => t[i] <= t[j]
    <2> SUFFICES ASSUME NEW i \in 1 .. n, NEW j \in 1 .. n, i < j PROVE t[i] <= t[j]
      OBVIOUS
    <2>1. t[i] \in Int /\ t[j] \in Int /\ t[i] < t[j]
      BY <1>2
    <2> QED
      BY <2>1
  <1> HIDE DEF x
  <1>6. m \in 0 .. n /\ \A j \in 1 .. n : t[j] < x <=> j <= m
    BY <1>1, <1>2, <1>4, <1>5, SearchsortedFacts
  <1> HIDE DEF m
  <1>7. m \in 0 .. k
    <2>0. t[k] \in Int /\ w \in Nat \ {0}
      BY <1>2
    <2>1. ~(t[k] < x)
      BY <2>0 DEF x
    <2> QED
      BY <1>6, <2>1
  <1>8. ASSUME NEW j \in 1 .. n PROVE j \in m + 1 .. k <=> p[j] \in Near(table, p[k], w)
    <2>1. t[j] \in Int /\ t[k] \in Int /\ t[j] = table[p[j]].b /\ t[k] = table[p[k]].b /\ p[j] \in 1 .. n
      BY <1>2
    <2>2. p[j] \in Near(table, p[k], w) <=> t[k] - w < t[j] /\ t[j] <= t[k]
      BY <1>1, <2>1 DEF Near
    <2>3. t[k] - w < t[j] <=> ~(t[j] < x)
      BY <2>1 DEF x
    <2>4. t[j] <= t[k] <=> j <= k
      <3>1. CASE j < k
        <4>1. t[j] < t[k]
          BY <1>2, <3>1
        <4> QED
          BY <2>1, <3>1, <4>1
      <3>2. CASE j = k
        BY <2>1, <3>2
      <3>3. CASE k < j
        <4>1. t[k] < t[j]
          BY <1>2, <3>3
        <4> QED
          BY <2>1, <3>3, <4>1
      <3> QED
        BY <3>1, <3>2, <3>3
    <2>5. ~(t[j] < x) <=> m < j
      BY <1>6
    <2> QED
      BY <1>6, <2>2, <2>3, <2>4, <2>5
  <1>9. {p[j] : j \in m + 1 .. k} = Near(table, p[k], w)
    <2>1. ASSUME NEW j \in m + 1 .. k PROVE p[j] \in Near(table, p[k], w)
      <3>1. j \in 1 .. n
        BY <1>1, <1>6
      <3> QED
        BY <1>8, <3>1
    <2>2. ASSUME NEW i \in Near(table, p[k], w) PROVE i \in {p[j] : j \in m + 1 .. k}
      <3>1. i \in 1 .. n
        BY <1>1 DEF Near
      <3>2. PICK j \in 1 .. n : p[j] = i
        BY <1>2, <3>1
      <3>3. j \in m + 1 .. k
        BY <1>8, <3>2
      <3> QED
        BY <3>2, <3>3
    <2> QED
      BY <2>1, <2>2
  <1> QED
    BY <1>3, <1>7, <1>9 DEF p, SpanRight

\* The prefix sums of anything about the rows, at the two ends of a window, differ by the
\* sum over the rows in it.
LEMMA SpanSum ==
    ASSUME NEW n, NEW table, Timely(table, n), NEW k \in 1 .. n, NEW w \in Nat \ {0},
           NEW g, \A i \in 1 .. n : g[i] \in Int
    PROVE  cumsum(Arranged(table, g))[k] - cumsum(Arranged(table, g))[Begin(table, k, w)]
               = SumFunctionOnSet(g, Near(table, Order(table)[k], w))
  <1> DEFINE p == Order(table)
             f == Arranged(table, g)
             m == Begin(table, k, w)
             S == m + 1 .. k
  <1>1. n \in Nat
    BY DEF Timely
  <1>2. p \in [1 .. n -> 1 .. n] /\ \A i, j \in 1 .. n : p[i] = p[j] => i = j
    BY OrderFacts
  <1>3. m \in 0 .. k /\ {p[j] : j \in S} = Near(table, p[k], w)
    <2>1. SpanRight(table, k, w)
      BY SpanFacts
    <2> QED
      BY <2>1, Zenon DEF SpanRight
  <1> HIDE DEF p, m
  <1>4. f \in [1 .. n -> Int] /\ \A j \in 1 .. n : f[j] = g[p[j]]
    BY <1>2 DEF Arranged, p
  <1> HIDE DEF f
  <1>5. cumsum(f)[k] - cumsum(f)[m] = SumFunctionOnSet(f, S)
    BY <1>1, <1>3, <1>4, CumsumSpan
  <1>6. SumFunctionOnSet(f, S) = SumFunctionOnSet(g, {p[j] : j \in S})
    <2>a. m + 1 \in Int /\ k \in Int /\ \A j \in S : j \in 1 .. n
      BY <1>1, <1>3
    <2>1. IsFiniteSet(S) /\ \A j \in S : j \in 1 .. n
      BY <2>a, FS_Interval
    <2>2. \A i, j \in S : p[i] = p[j] => i = j
      BY <1>2, <2>1
    <2>3. \A j \in S : f[j] = g[p[j]] /\ f[j] \in Int
      BY <1>4, <2>1
    <2> HIDE DEF S
    <2> QED
      BY <2>1, <2>2, <2>3, SumImage
  <1>7. SumFunctionOnSet(g, {p[j] : j \in S}) = SumFunctionOnSet(g, Near(table, p[k], w))
    BY <1>3, Zenon
  <1>8. cumsum(f)[k] - cumsum(f)[m] = SumFunctionOnSet(g, Near(table, p[k], w))
    BY <1>5, <1>6, <1>7, Zenon
  <1> QED
    BY <1>8 DEF f, m, p

\* The unlinks of the rows in the window of row i, and the number of such rows.
WindowOf(table, counts, i, w) ==
    <<SumFunctionOnSet(counts, Near(table, i, w)), Cardinality({j \in Near(table, i, w) : counts[j] > 0})>>

LEMMA WindowFormula ==
    ASSUME NEW n, NEW table, Timely(table, n), NEW counts \in [1 .. n -> Nat],
           NEW i \in 1 .. n, NEW w \in Spans, w \in Nat \ {0}
    PROVE  temporal_features(table, counts)[i][w] = WindowOf(table, counts, i, w)
  <1> DEFINE p == Order(table)
             busy == [j \in 1 .. n |-> IF counts[j] > 0 THEN 1 ELSE 0]
             place == CHOOSE k \in DOMAIN p : p[k] = i
             m == Begin(table, place, w)
             S == Near(table, i, w)
  <1>1. n \in Nat /\ DOMAIN table = 1 .. n
    BY DEF Timely
  <1>2. p \in [1 .. n -> 1 .. n] /\ \E k \in 1 .. n : p[k] = i
    <2>1. p \in [1 .. n -> 1 .. n] /\ \A x \in 1 .. n : \E k \in 1 .. n : p[k] = x
      BY OrderFacts
    <2> HIDE DEF p
    <2> QED
      BY <2>1
  <1>3. place \in 1 .. n /\ p[place] = i
    <2> HIDE DEF p
    <2> QED
      BY <1>2
  <1>4. [k \in DOMAIN p |-> IF counts[p[k]] > 0 THEN 1 ELSE 0] = Arranged(table, busy)
    BY <1>2 DEF Arranged
  <1>5. temporal_features(table, counts)[i][w] =
            <<cumsum(Arranged(table, counts))[place] - cumsum(Arranged(table, counts))[m],
              cumsum([k \in DOMAIN p |-> IF counts[p[k]] > 0 THEN 1 ELSE 0])[place]
                - cumsum([k \in DOMAIN p |-> IF counts[p[k]] > 0 THEN 1 ELSE 0])[m]>>
    BY <1>1 DEF temporal_features, Arranged, Order, Begin, Sorted
  <1>6. temporal_features(table, counts)[i][w] =
            <<cumsum(Arranged(table, counts))[place] - cumsum(Arranged(table, counts))[m],
              cumsum(Arranged(table, busy))[place] - cumsum(Arranged(table, busy))[m]>>
    BY <1>4, <1>5, Zenon
  <1>7. /\ \A j \in 1 .. n : counts[j] \in Int
        /\ \A j \in 1 .. n : busy[j] \in Int
    OBVIOUS
  <1> HIDE DEF busy, place, p
  <1>8. cumsum(Arranged(table, counts))[place] - cumsum(Arranged(table, counts))[m]
            = SumFunctionOnSet(counts, Near(table, p[place], w))
    <2> DEFINE g == counts
    <2>1. \A j \in 1 .. n : g[j] \in Int
      BY <1>7
    <2> HIDE DEF g
    <2>2. cumsum(Arranged(table, g))[place] - cumsum(Arranged(table, g))[m]
              = SumFunctionOnSet(g, Near(table, p[place], w))
      BY <1>3, <2>1, SpanSum DEF p
    <2> QED
      BY <2>2 DEF g
  <1>9. cumsum(Arranged(table, busy))[place] - cumsum(Arranged(table, busy))[m]
            = SumFunctionOnSet(busy, Near(table, p[place], w))
    BY <1>3, <1>7, SpanSum DEF p
  <1>10. SumFunctionOnSet(busy, S) = Cardinality({j \in S : counts[j] > 0})
    <2>1. S \subseteq 1 .. n /\ IsFiniteSet(1 .. n)
      BY <1>1, FS_Interval DEF Near
    <2>2. IsFiniteSet(S)
      BY <2>1, FS_Subset
    <2> HIDE DEF S
    <2>3. \A j \in S : busy[j] \in {0, 1}
      BY <2>1 DEF busy
    <2>4. SumFunctionOnSet(busy, S) = Cardinality({j \in S : busy[j] = 1})
      BY <2>2, <2>3, SumCounts
    <2>5. {j \in S : busy[j] = 1} = {j \in S : counts[j] > 0}
      <3>1. ASSUME NEW j \in S PROVE busy[j] = 1 <=> counts[j] > 0
        <4>1. j \in 1 .. n
          BY <2>1
        <4> QED
          BY <4>1 DEF busy
      <3> QED
        BY <3>1
    <2> QED
      BY <2>4, <2>5, Zenon
  <1>11. Near(table, p[place], w) = S
    BY <1>3, Zenon
  <1> HIDE DEF m, p, S
  <1>12. cumsum(Arranged(table, counts))[place] - cumsum(Arranged(table, counts))[m]
            = SumFunctionOnSet(counts, S)
    BY <1>8, <1>11, Zenon
  <1>13. cumsum(Arranged(table, busy))[place] - cumsum(Arranged(table, busy))[m]
            = Cardinality({j \in S : counts[j] > 0})
    BY <1>9, <1>10, <1>11, Zenon
  <1>14. temporal_features(table, counts)[i][w] =
            <<SumFunctionOnSet(counts, S), Cardinality({j \in S : counts[j] > 0})>>
    BY <1>6, <1>12, <1>13, Zenon
  <1> QED
    BY <1>14 DEF S, WindowOf

\* A clean row has a window of History seconds without a forbidden row.
LEMMA CleanFacts ==
    ASSUME NEW n, NEW table, Timely(table, n), NEW bad, NEW i \in history_clean(table, bad),
           EvaluationAssumption
    PROVE  i \in 1 .. n /\ Near(table, i, History) \cap bad = {}
  <1> DEFINE p == Order(table)
             flag == [j \in 1 .. n |-> IF j \in bad THEN 1 ELSE 0]
             S == Near(table, i, History)
  <1>1. n \in Nat /\ DOMAIN table = 1 .. n /\ History \in Nat \ {0}
    BY DEF Timely, EvaluationAssumption
  <1>2. p \in [1 .. n -> 1 .. n]
    BY OrderFacts
  <1>3. [k \in DOMAIN p |-> IF p[k] \in bad THEN 1 ELSE 0] = Arranged(table, flag)
    BY <1>2 DEF Arranged
  <1> DEFINE c == cumsum([k \in DOMAIN p |-> IF p[k] \in bad THEN 1 ELSE 0])
  <1>4. PICK k \in DOMAIN p : i = p[k] /\ c[k] - c[Begin(table, k, History)] = 0
    BY DEF history_clean, Begin, Sorted, Order
  <1>5. k \in 1 .. n /\ i \in 1 .. n
    BY <1>2, <1>4
  <1>6. \A j \in 1 .. n : flag[j] \in Int
    OBVIOUS
  <1> HIDE DEF flag
  <1>7. cumsum(Arranged(table, flag))[k] - cumsum(Arranged(table, flag))[Begin(table, k, History)]
            = SumFunctionOnSet(flag, Near(table, p[k], History))
    BY <1>1, <1>5, <1>6, SpanSum
  <1>8. SumFunctionOnSet(flag, S) = 0
    <2>1. c = cumsum(Arranged(table, flag))
      BY <1>3, Zenon
    <2>2. Near(table, p[k], History) = S
      BY <1>4, Zenon
    <2> HIDE DEF c, S
    <2>3. c[k] - c[Begin(table, k, History)] = SumFunctionOnSet(flag, S)
      BY <1>7, <2>1, <2>2, Zenon
    <2> QED
      BY <1>4, <2>3, Zenon
  <1>9. S \subseteq 1 .. n /\ IsFiniteSet(1 .. n)
    BY <1>1, FS_Interval DEF Near
  <1>10. IsFiniteSet(S)
    BY <1>9, FS_Subset
  <1> HIDE DEF S
  <1>11. \A j \in S : flag[j] \in Nat
    BY <1>9 DEF flag
  <1>12. \A j \in S : flag[j] = 0
    BY <1>8, <1>10, <1>11, SumZero
  <1>13. S \cap bad = {}
    <2>1. ASSUME NEW j \in S, j \in bad PROVE FALSE
      <3>1. j \in 1 .. n /\ flag[j] = 0
        BY <1>9, <1>12
      <3> QED
        BY <2>1, <3>1 DEF flag
    <2> QED
      BY <2>1
  <1> QED
    BY <1>5, <1>13 DEF S
-----------------------------------------------------------------------------
(* Evaluation: complete windows.                                           *)

\* A family of as many values as arguments repeats none.
LEMMA NoneTwice ==
    ASSUME NEW S, IsFiniteSet(S), NEW h, Cardinality({h[x] : x \in S}) = Cardinality(S)
    PROVE  \A x, y \in S : h[x] = h[y] => x = y
  <1> DEFINE T == {h[x] : x \in S}
             k == [x \in S |-> h[x]]
  <1>1. k \in Surjection(S, T)
    BY DEF Surjection
  <1>2. Cardinality(S) = Cardinality(T)
    OBVIOUS
  <1> HIDE DEF T, k
  <1>3. k \in Injection(S, T)
    BY <1>1, <1>2, FS_SurjSameCardinalityImpliesInj
  <1> QED
    BY <1>3 DEF Injection, IsInjective, k

\* What the audit and the checks of the times leave to the windows.
LEMMA AcceptedFacts ==
    ASSUME corpus \in Corpora, NEW s \in Sids, Accepted(s)
    PROVE  LET table == corpus[s].rows
               unlinks == corpus[s].unlinks
               n == Len(table)
           IN /\ Timely(table, n) /\ n > 0
              /\ unlinks \in [DOMAIN unlinks -> Nat] /\ IsFiniteSet(DOMAIN unlinks)
              /\ DOMAIN unlinks \subseteq Int
              /\ \A i \in 1 .. n : table[i].b \in DOMAIN unlinks
              /\ unlink_attempts(s) \in [1 .. n -> Nat]
              /\ \A i \in 1 .. n : unlink_attempts(s)[i] = unlinks[table[i].b]
  <1> DEFINE table == corpus[s].rows
             unlinks == corpus[s].unlinks
             n == Len(table)
  <1>1. /\ table \in Seq(Range(table))
        /\ \A i \in DOMAIN table : table[i].b \in DOMAIN unlinks
        /\ DOMAIN unlinks \subseteq Int /\ IsFiniteSet(DOMAIN unlinks)
        /\ unlinks \in [DOMAIN unlinks -> Nat]
    BY CorporaAssumption DEF Sids
  <1>2. table # <<>> /\ Cardinality(Seconds(s)) = n
    BY DEF Accepted, ValidTimes
  <1>3. Seconds(s) = {table[i].b : i \in DOMAIN table}
    BY DEF Seconds
  <1>4. unlink_attempts(s) = [i \in DOMAIN table |-> unlinks[table[i].b]]
    BY DEF unlink_attempts
  <1> HIDE DEF table, unlinks
  <1>5. n \in Nat /\ DOMAIN table = 1 .. n /\ n > 0
    BY <1>1, <1>2
  <1> HIDE DEF n
  <1>6. \A i \in 1 .. n : table[i].b \in DOMAIN unlinks /\ table[i].b \in Int
    BY <1>1, <1>5
  <1>7. \A i, j \in 1 .. n : table[i].b = table[j].b => i = j
    <2> DEFINE h == [i \in 1 .. n |-> table[i].b]
               S == 1 .. n
    <2>1. IsFiniteSet(S) /\ Cardinality(S) = n
      BY <1>5, FS_Interval
    <2>2. {h[i] : i \in S} = Seconds(s)
      BY <1>3, <1>5
    <2> HIDE DEF S, h
    <2>3. Cardinality({h[i] : i \in S}) = Cardinality(S)
      BY <1>2, <2>1, <2>2, Zenon
    <2>4. \A x, y \in S : h[x] = h[y] => x = y
      BY <2>1, <2>3, NoneTwice
    <2> QED
      BY <2>4 DEF S, h
  <1>8. Timely(table, n)
    BY <1>5, <1>6, <1>7 DEF Timely
  <1>9. \A i \in 1 .. n : unlink_attempts(s)[i] = unlinks[table[i].b] /\ unlinks[table[i].b] \in Nat
    BY <1>1, <1>4, <1>5, <1>6
  <1>10. unlink_attempts(s) \in [1 .. n -> Nat]
    BY <1>4, <1>5, <1>9
  <1>11. /\ Timely(table, n) /\ n > 0
         /\ unlinks \in [DOMAIN unlinks -> Nat] /\ IsFiniteSet(DOMAIN unlinks)
         /\ DOMAIN unlinks \subseteq Int
         /\ \A i \in 1 .. n : table[i].b \in DOMAIN unlinks
         /\ unlink_attempts(s) \in [1 .. n -> Nat]
         /\ \A i \in 1 .. n : unlink_attempts(s)[i] = unlinks[table[i].b]
    BY <1>1, <1>5, <1>6, <1>8, <1>9, <1>10
  <1> QED
    BY <1>11 DEF table, unlinks, n

\* The window of a row, by seconds: the seconds without a row have no unlinks.
LEMMA WholeWindow ==
    ASSUME corpus \in Corpora, NEW s \in Sids, Accepted(s),
           NEW i \in DOMAIN corpus[s].rows, NEW w \in Spans
    PROVE  LET unlinks == corpus[s].unlinks
               b == corpus[s].rows[i].b
               span == {x \in DOMAIN unlinks : b - w < x /\ x <= b}
           IN temporal_features(corpus[s].rows, unlink_attempts(s))[i][w] =
                  <<SumFunctionOnSet(unlinks, span), Cardinality({x \in span : unlinks[x] > 0})>>
  <1> DEFINE table == corpus[s].rows
             unlinks == corpus[s].unlinks
             n == Len(table)
             counts == unlink_attempts(s)
             D == DOMAIN unlinks
             b == table[i].b
             span == {x \in D : b - w < x /\ x <= b}
             near == Near(table, i, w)
             h == [j \in 1 .. n |-> table[j].b]
             mine == {h[j] : j \in near}
             rest == span \ mine
  <1>1. /\ Timely(table, n) /\ n > 0
        /\ unlinks \in [D -> Nat] /\ IsFiniteSet(D) /\ D \subseteq Int
        /\ \A j \in 1 .. n : table[j].b \in D
        /\ counts \in [1 .. n -> Nat]
        /\ \A j \in 1 .. n : counts[j] = unlinks[table[j].b]
    BY AcceptedFacts
  <1>2. Seconds(s) = {table[j].b : j \in DOMAIN table} /\ i \in DOMAIN table
    BY DEF Seconds
  <1>3. SumFunctionOnSet(unlinks, D \ Seconds(s)) = 0
    BY DEF Accepted, dropped_outside_npz
  <1> HIDE DEF table, unlinks, counts, n
  <1>4. DOMAIN table = 1 .. n /\ n \in Nat /\ i \in 1 .. n /\ w \in Nat \ {0}
    BY <1>1, <1>2, EvaluationAssumption DEF Timely
  <1>5. temporal_features(table, counts)[i][w] =
            <<SumFunctionOnSet(counts, near), Cardinality({j \in near : counts[j] > 0})>>
    <2>1. Timely(table, n) /\ counts \in [1 .. n -> Nat]
      BY <1>1
    <2>2. i \in 1 .. n /\ w \in Nat \ {0}
      BY <1>4
    <2>3. temporal_features(table, counts)[i][w] = WindowOf(table, counts, i, w)
      BY <2>1, <2>2, WindowFormula
    <2> QED
      BY <2>3 DEF WindowOf
  <1>6. near \subseteq 1 .. n /\ IsFiniteSet(near)
    <2>1. near \subseteq 1 .. n /\ IsFiniteSet(1 .. n)
      BY <1>4, FS_Interval DEF Near
    <2> QED
      BY <2>1, FS_Subset
  <1>7. /\ \A x, y \in near : h[x] = h[y] => x = y
        /\ \A x \in near : counts[x] = unlinks[h[x]] /\ counts[x] \in Nat
    BY <1>1, <1>6 DEF Timely
  <1>8. \A j \in 1 .. n : h[j] = table[j].b /\ h[j] \in D /\ (j \in near <=> h[j] \in span)
    BY <1>1, <1>4 DEF Near
  <1>9. mine \subseteq span /\ span \subseteq D /\ rest \subseteq D \ Seconds(s)
    <2>1. mine \subseteq span
      BY <1>6, <1>8
    <2>2. ASSUME NEW x \in rest, x \in Seconds(s) PROVE FALSE
      <3>1. PICK j \in 1 .. n : x = h[j]
        BY <1>2, <1>4, <1>8, <2>2
      <3>2. j \in near
        BY <1>8, <2>2, <3>1
      <3> QED
        BY <2>2, <3>1, <3>2
    <2> QED
      BY <2>1, <2>2
  <1> HIDE DEF near, h
  <1>10. SumFunctionOnSet(counts, near) = SumFunctionOnSet(unlinks, mine)
    <2>1. \A x \in near : counts[x] = unlinks[h[x]] /\ counts[x] \in Int
      BY <1>7
    <2>2. IsFiniteSet(near)
      BY <1>6
    <2>3. \A x, y \in near : h[x] = h[y] => x = y
      BY <1>7
    <2>4. SumFunctionOnSet(counts, near) = SumFunctionOnSet(unlinks, {h[x] : x \in near})
      BY <2>1, <2>2, <2>3, SumImage
    <2> QED
      BY <2>4
  <1> HIDE DEF span
  <1>11. IsFiniteSet(span) /\ IsFiniteSet(rest) /\ IsFiniteSet(mine) /\ IsFiniteSet(D \ Seconds(s))
    <2>1. IsFiniteSet(span)
      BY <1>1, <1>9, FS_Subset
    <2>2. rest \subseteq span /\ D \ Seconds(s) \subseteq D
      OBVIOUS
    <2> QED
      BY <1>1, <1>9, <2>1, <2>2, FS_Subset
  <1> HIDE DEF mine
  <1>12. SumFunctionOnSet(unlinks, rest) = 0 /\ \A x \in rest : unlinks[x] = 0
    <2> DEFINE U == D \ Seconds(s)
    <2>1. IsFiniteSet(U) /\ \A x \in U : unlinks[x] \in Nat
      BY <1>1, <1>11
    <2>2. SumFunctionOnSet(unlinks, U) = 0 /\ rest \subseteq U
      BY <1>3, <1>9
    <2> HIDE DEF U, rest
    <2> QED
      BY <2>1, <2>2, SumZero
  <1>13. SumFunctionOnSet(unlinks, span) = SumFunctionOnSet(unlinks, mine)
    <2>1. mine \cup rest = span /\ mine \cap rest = {}
      BY <1>9
    <2>2. \A x \in mine \cup rest : unlinks[x] \in Int
      BY <1>1, <1>9
    <2> HIDE DEF rest
    <2>3. SumFunctionOnSet(unlinks, mine \cup rest)
              = SumFunctionOnSet(unlinks, mine) + SumFunctionOnSet(unlinks, rest)
      BY <1>11, <2>1, <2>2, SumUnion
    <2>4. SumFunctionOnSet(unlinks, mine) \in Int
      BY <1>11, <2>2, SumInt
    <2>5. SumFunctionOnSet(unlinks, mine \cup rest) = SumFunctionOnSet(unlinks, mine)
      BY <1>12, <2>3, <2>4
    <2> QED
      BY <2>1, <2>5, Zenon
  <1>14. Cardinality({x \in span : unlinks[x] > 0}) = Cardinality({j \in near : counts[j] > 0})
    <2> DEFINE S == {j \in near : counts[j] > 0}
    <2>1. {x \in span : unlinks[x] > 0} = {h[j] : j \in S}
      <3>1. ASSUME NEW x \in span, unlinks[x] > 0 PROVE x \in {h[j] : j \in S}
        <4>1. x \in mine
          BY <1>12, <3>1
        <4>2. PICK j \in near : x = h[j]
          BY <4>1 DEF mine
        <4> QED
          BY <1>7, <3>1, <4>2
      <3>2. ASSUME NEW j \in S PROVE h[j] \in span /\ unlinks[h[j]] > 0
        BY <1>7, <1>9 DEF mine
      <3> QED
        BY <3>1, <3>2
    <2>2. IsFiniteSet(S) /\ \A x, y \in S : h[x] = h[y] => x = y
      <3>1. S \subseteq near
        OBVIOUS
      <3> QED
        BY <1>6, <1>7, <3>1, FS_Subset
    <2> HIDE DEF S
    <2>3. Cardinality({h[j] : j \in S}) = Cardinality(S)
      BY <2>2, ImageFinite
    <2>4. Cardinality({x \in span : unlinks[x] > 0}) = Cardinality(S)
      BY <2>1, <2>3, Zenon
    <2> QED
      BY <2>4 DEF S
  <1>15. temporal_features(table, counts)[i][w] =
             <<SumFunctionOnSet(unlinks, span), Cardinality({x \in span : unlinks[x] > 0})>>
    BY <1>5, <1>10, <1>13, <1>14, Zenon
  <1> QED
    BY <1>15 DEF table, unlinks, counts, span
-----------------------------------------------------------------------------
(* Evaluation: the invariant of a run.                                     *)

Past == {"hash", "read", "join", "select", "score", "verify", "returned"}

\* The audit let every session through, and the selection of rows is not empty.
RunInv ==
    /\ corpus \in Corpora
    /\ phase \in Past \cup {"audit", "failed"}
    /\ phase \in Past => \A s \in Sids : Accepted(s)
    /\ phase = "score" => cal # {}

LEMMA RunInit == EInit => RunInv
  BY DEF EInit, RunInv, Past

LEMMA RunStep == RunInv /\ [ENext]_evars => RunInv'
  <1> SUFFICES ASSUME RunInv, [ENext]_evars PROVE RunInv'
    OBVIOUS
  <1> USE DEF RunInv, Past
  <1>1. corpus' = corpus
    BY DEF ENext, audit_prefix, HashInputs, read_data, join_audit, Select, score, VerifyInputs, Edit, evars
  <1>2. \A s \in Sids : Accepted(s)' <=> Accepted(s)
    BY <1>1 DEF Accepted, ValidTimes, recorded_file_unlink, dropped_outside_npz, Seconds
  <1>3. cal' = cal
    BY <1>1 DEF cal, Calibration, CleanOfAttacks, Clean, Rows, Normal, Data
  <1>4. CASE audit_prefix
    BY <1>1, <1>2, <1>4 DEF audit_prefix, Go
  <1>5. CASE HashInputs \/ read_data \/ join_audit \/ score \/ VerifyInputs
    BY <1>1, <1>2, <1>5 DEF HashInputs, read_data, join_audit, score, VerifyInputs, Go
  <1>6. CASE Select
    BY <1>1, <1>2, <1>3, <1>6 DEF Select, Go
  <1>7. CASE Edit \/ UNCHANGED evars
    BY <1>1, <1>2, <1>3, <1>7 DEF Edit, evars
  <1> QED
    BY <1>4, <1>5, <1>6, <1>7 DEF ENext

LEMMA RunHolds == ESpec => []RunInv
  BY RunInit, RunStep, PTL DEF ESpec

\* The features of every row of an accepted corpus, however its rows are ordered and
\* whichever seconds it lacks, sum all unlinks of the window (temporal_features and the
\* refusal of attempts outside the rows).
THEOREM WindowsWhole == ESpec => []WindowsComplete
  <1>1. RunInv => WindowsComplete
    <2> SUFFICES ASSUME RunInv, phase = "select", NEW s \in Sids,
                        NEW i \in DOMAIN corpus[s].rows, NEW w \in Spans
                 PROVE  LET unlinks == corpus[s].unlinks
                            b == corpus[s].rows[i].b
                            span == {x \in DOMAIN unlinks : b - w < x /\ x <= b}
                        IN temporal_features(corpus[s].rows, unlink_attempts(s))[i][w] =
                               <<SumFunctionOnSet(unlinks, span),
                                 Cardinality({x \in span : unlinks[x] > 0})>>
      BY DEF WindowsComplete
    <2>1. corpus \in Corpora /\ Accepted(s)
      BY DEF RunInv, Past
    <2> QED
      BY <2>1, WholeWindow
  <1> QED
    BY <1>1, RunHolds, PTL
-----------------------------------------------------------------------------
(* Evaluation: no leak through the history.                                *)

\* The features of a row are those of its windows.
LEMMA FeatureRow ==
    ASSUME NEW table, NEW counts, NEW other, NEW i \in DOMAIN table,
           \A w \in Spans : temporal_features(table, counts)[i][w] = temporal_features(table, other)[i][w]
    PROVE  temporal_features(table, counts)[i] = temporal_features(table, other)[i]
  <1> DEFINE byTime == argsort(Times(table))
             t == [k \in DOMAIN byTime |-> table[byTime[k]].b]
             sums(c) == cumsum([k \in DOMAIN byTime |-> c[byTime[k]]])
             active(c) == cumsum([k \in DOMAIN byTime |-> IF c[byTime[k]] > 0 THEN 1 ELSE 0])
             place(j) == CHOOSE k \in DOMAIN byTime : byTime[k] = j
             begin(k, w) == searchsorted(t, t[k] - (w - 1))
             window(c, k, w) == <<sums(c)[k] - sums(c)[begin(k, w)], active(c)[k] - active(c)[begin(k, w)]>>
  <1>1. /\ temporal_features(table, counts) = [j \in DOMAIN table |-> [w \in Spans |-> window(counts, place(j), w)]]
        /\ temporal_features(table, other) = [j \in DOMAIN table |-> [w \in Spans |-> window(other, place(j), w)]]
    BY Zenon DEF temporal_features
  <1> HIDE DEF window, place
  <1>2. /\ temporal_features(table, counts)[i] = [w \in Spans |-> window(counts, place(i), w)]
        /\ temporal_features(table, other)[i] = [w \in Spans |-> window(other, place(i), w)]
    BY <1>1
  <1> QED
    BY <1>2

\* A row that is clean of F has the same features whatever the rows of F count.
LEMMA Oblivious ==
    ASSUME corpus \in Corpora, NEW s \in Sids, Accepted(s), NEW F, NEW i, <<s, i>> \in Clean(F),
           NEW altered \in [DOMAIN corpus[s].rows -> Nat],
           \A j \in DOMAIN corpus[s].rows : <<s, j>> \notin F => altered[j] = unlink_attempts(s)[j]
    PROVE  temporal_features(corpus[s].rows, unlink_attempts(s))[i]
               = temporal_features(corpus[s].rows, altered)[i]
  <1> DEFINE table == corpus[s].rows
             n == Len(table)
             counts == unlink_attempts(s)
             bad == {j \in DOMAIN table : <<s, j>> \in F}
  <1>1. Timely(table, n) /\ counts \in [1 .. n -> Nat]
    BY AcceptedFacts
  <1>2. i \in history_clean(table, bad)
    <2> DEFINE Bad(q) == {j \in DOMAIN corpus[q].rows : <<q, j>> \in F}
               Good(q) == history_clean(corpus[q].rows, Bad(q))
    <2>1. Clean(F) = UNION {{q} \X Good(q) : q \in Sids}
      BY DEF Clean
    <2> HIDE DEF Good
    <2>2. i \in Good(s)
      BY <2>1
    <2> QED
      BY <2>2 DEF Good
  <1>3. \A j \in DOMAIN table : j \notin bad => altered[j] = counts[j]
    OBVIOUS
  <1>4. altered \in [DOMAIN table -> Nat]
    OBVIOUS
  <1> HIDE DEF table, counts, n, bad
  <1>5. i \in 1 .. n /\ Near(table, i, History) \cap bad = {}
    BY <1>1, <1>2, EvaluationAssumption, CleanFacts
  <1>6. DOMAIN table = 1 .. n /\ n \in Nat /\ altered \in [1 .. n -> Nat]
    BY <1>1, <1>4 DEF Timely
  <1>7. ASSUME NEW w \in Spans
        PROVE  temporal_features(table, counts)[i][w] = temporal_features(table, altered)[i][w]
    <2> DEFINE near == Near(table, i, w)
    <2>1. w \in Nat \ {0} /\ w <= History /\ History \in Nat
      BY EvaluationAssumption
    <2>2. near \subseteq 1 .. n /\ near \cap bad = {}
      <3>1. \A j \in 1 .. n : table[j].b \in Int
        BY <1>1 DEF Timely
      <3>2. near \subseteq Near(table, i, History)
        BY <1>5, <1>6, <2>1, <3>1 DEF Near
      <3>3. near \subseteq 1 .. n
        BY <1>6 DEF Near
      <3> QED
        BY <1>5, <3>2, <3>3
    <2>3. temporal_features(table, counts)[i][w] = WindowOf(table, counts, i, w)
      BY <1>1, <1>5, <2>1, WindowFormula
    <2>4. temporal_features(table, altered)[i][w] = WindowOf(table, altered, i, w)
      <3> DEFINE g == altered
      <3>1. g \in [1 .. n -> Nat]
        BY <1>6
      <3> HIDE DEF g
      <3>2. temporal_features(table, g)[i][w] = WindowOf(table, g, i, w)
        BY <1>1, <1>5, <2>1, <3>1, WindowFormula
      <3> QED
        BY <3>2 DEF g
    <2>5. \A j \in near : counts[j] = altered[j] /\ counts[j] \in Int
      BY <1>1, <1>3, <1>6, <2>2
    <2>6. IsFiniteSet(near)
      <3>1. 1 \in Int /\ n \in Int
        BY <1>6
      <3>2. IsFiniteSet(1 .. n)
        BY <3>1, FS_Interval
      <3> QED
        BY <2>2, <3>2, FS_Subset
    <2>7. {j \in near : counts[j] > 0} = {j \in near : altered[j] > 0}
      BY <2>5
    <2> HIDE DEF near
    <2>8. SumFunctionOnSet(counts, near) = SumFunctionOnSet(altered, near)
      BY <2>5, <2>6, SumSame
    <2>9. <<SumFunctionOnSet(counts, near), Cardinality({j \in near : counts[j] > 0})>>
              = <<SumFunctionOnSet(altered, near), Cardinality({j \in near : altered[j] > 0})>>
      BY <2>7, <2>8, Zenon
    <2> QED
      BY <2>3, <2>4, <2>9, Zenon DEF WindowOf, near
  <1>8. i \in DOMAIN table
    BY <1>5, <1>6
  <1>9. temporal_features(table, counts)[i] = temporal_features(table, altered)[i]
    BY <1>7, <1>8, FeatureRow
  <1> QED
    BY <1>9 DEF table, counts

LEMMA HistoryClean == RunInv => NoHistoryLeak
  <1> SUFFICES ASSUME RunInv, phase = "score" PROVE NoHistoryLeak
    BY DEF NoHistoryLeak
  <1>1. corpus \in Corpora /\ \A s \in Sids : Accepted(s)
    BY DEF RunInv, Past
  <1>2. ASSUME NEW s \in Sids, NEW F, NEW more \in {0, 2},
               NEW altered, NEW i, <<s, i>> \in Clean(F),
               altered = [j \in DOMAIN corpus[s].rows |->
                             IF <<s, j>> \in F THEN more ELSE unlink_attempts(s)[j]]
        PROVE  temporal_features(corpus[s].rows, unlink_attempts(s))[i]
                   = temporal_features(corpus[s].rows, altered)[i]
    <2>1. unlink_attempts(s) \in [DOMAIN corpus[s].rows -> Nat]
      BY <1>1, AcceptedFacts DEF Timely
    <2>2. altered \in [DOMAIN corpus[s].rows -> Nat]
      BY <1>2, <2>1
    <2>3. \A j \in DOMAIN corpus[s].rows : <<s, j>> \notin F => altered[j] = unlink_attempts(s)[j]
      BY <1>2
    <2>4. <<s, i>> \in Clean(F) /\ corpus \in Corpora /\ Accepted(s)
      BY <1>1, <1>2
    <2> QED
      BY <2>2, <2>3, <2>4, Oblivious
  <1>3. \A s \in Sids : \A j \in DOMAIN corpus[s].rows : <<s, j>> \in Rows
    BY DEF Rows
  <1>4. Blind(normal_train \cup cal, LAMBDA r : ~Normal(r))
    <2> DEFINE F == {r \in Rows : ~Normal(r)}
    <2> SUFFICES ASSUME NEW s \in Sids, NEW more \in {0, 2}, NEW i \in DOMAIN corpus[s].rows,
                        <<s, i>> \in normal_train \cup cal
                 PROVE  temporal_features(corpus[s].rows, unlink_attempts(s))[i]
                          = temporal_features(corpus[s].rows,
                                [j \in DOMAIN corpus[s].rows |->
                                    IF ~Normal(<<s, j>>) THEN more ELSE unlink_attempts(s)[j]])[i]
      BY DEF Blind
    <2>1. <<s, i>> \in Clean(F)
      BY DEF normal_train, cal, CleanOfAttacks
    <2>2. [j \in DOMAIN corpus[s].rows |-> IF ~Normal(<<s, j>>) THEN more ELSE unlink_attempts(s)[j]]
            = [j \in DOMAIN corpus[s].rows |-> IF <<s, j>> \in F THEN more ELSE unlink_attempts(s)[j]]
      BY <1>3
    <2> HIDE DEF F
    <2> QED
      BY <1>2, <2>1, <2>2
  <1>5. ASSUME NEW g \in Group PROVE Blind(GroupTrain(g), LAMBDA r : Target(r, g))
    <2> DEFINE F == {r \in Rows : Target(r, g)}
    <2> SUFFICES ASSUME NEW s \in Sids, NEW more \in {0, 2}, NEW i \in DOMAIN corpus[s].rows,
                        <<s, i>> \in GroupTrain(g)
                 PROVE  temporal_features(corpus[s].rows, unlink_attempts(s))[i]
                          = temporal_features(corpus[s].rows,
                                [j \in DOMAIN corpus[s].rows |->
                                    IF Target(<<s, j>>, g) THEN more ELSE unlink_attempts(s)[j]])[i]
      BY DEF Blind
    <2>1. <<s, i>> \in Clean(F)
      BY DEF GroupTrain, CleanOf
    <2>2. [j \in DOMAIN corpus[s].rows |-> IF Target(<<s, j>>, g) THEN more ELSE unlink_attempts(s)[j]]
            = [j \in DOMAIN corpus[s].rows |-> IF <<s, j>> \in F THEN more ELSE unlink_attempts(s)[j]]
      BY <1>3
    <2> HIDE DEF F
    <2> QED
      BY <1>2, <2>1, <2>2
  <1> QED
    BY <1>4, <1>5 DEF NoHistoryLeak
-----------------------------------------------------------------------------
(* Evaluation: the threshold.                                              *)

\* The whole part of a quotient.
LEMMA Quotient ==
    ASSUME NEW a \in Nat, NEW d \in Nat \ {0}
    PROVE  (a \div d) \in Nat /\ (a \div d) * d <= a /\ a < (a \div d) * d + d
  OBVIOUS

LEMMA TimesMonotone ==
    ASSUME NEW x \in Nat, NEW y \in Nat, NEW d \in Nat, x <= y
    PROVE  x * d <= y * d
  OBVIOUS

\* Fewer than all calibration rows may be above the threshold, and one more would reach the
\* target.
LEMMA AllowedFacts ==
    ASSUME NEW n \in Nat \ {0}, NEW allowed \in allowed_fp(n)
    PROVE  /\ allowed \in 0 .. n - 1 /\ FprNum * n \in Nat
           /\ allowed * FprDen <= FprNum * n /\ FprNum * n <= (allowed + 1) * FprDen
  <1> DEFINE a == FprNum * n
             q == a \div FprDen
  <1>1. FprNum \in Nat /\ FprDen \in Nat \ {0} /\ FprNum < FprDen
    BY EvaluationAssumption
  <1>2. a \in Nat /\ a < n * FprDen
    <2>1. FprNum + 1 <= FprDen /\ FprNum + 1 \in Nat
      BY <1>1
    <2>2. (FprNum + 1) * n <= FprDen * n
      BY <1>1, <2>1, TimesMonotone
    <2>3. (FprNum + 1) * n = FprNum * n + n /\ FprDen * n = n * FprDen /\ FprNum * n \in Nat
      BY <1>1
    <2> DEFINE y == n * FprDen
    <2>4. a + n <= y /\ a \in Nat /\ y \in Nat
      BY <1>1, <2>2, <2>3
    <2> HIDE DEF a, y
    <2>5. a < y
      BY <2>4
    <2> QED
      BY <2>4, <2>5 DEF y
  <1>3. q \in Nat /\ q * FprDen <= a /\ a < q * FprDen + FprDen
    <2> HIDE DEF a
    <2> QED
      BY <1>1, <1>2, Quotient
  <1>4. allowed = q \/ (allowed = q - 1 /\ allowed >= 0 /\ q * FprDen = a)
    BY DEF allowed_fp
  <1> HIDE DEF a, q
  <1>5. q < n
    <2> SUFFICES ASSUME n <= q PROVE FALSE
      BY <1>3
    <2>1. n * FprDen <= q * FprDen
      BY <1>1, <1>3, TimesMonotone
    <2>2. n * FprDen \in Nat /\ q * FprDen \in Nat
      BY <1>1, <1>3
    <2> QED
      BY <1>2, <1>3, <2>1, <2>2
  <1>6. CASE allowed = q
    <2>1. (q + 1) * FprDen = q * FprDen + FprDen
      BY <1>1, <1>3
    <2>2. q \in 0 .. n - 1
      BY <1>3, <1>5
    <2>3. q * FprDen <= a /\ a <= (q + 1) * FprDen
      <3> DEFINE y == q * FprDen
      <3>1. y \in Nat /\ a \in Nat /\ FprDen \in Nat /\ y <= a /\ a < y + FprDen
        BY <1>1, <1>2, <1>3
      <3> HIDE DEF y
      <3>2. y <= a /\ a <= y + FprDen
        BY <3>1
      <3> QED
        BY <2>1, <3>2 DEF y
    <2> QED
      BY <1>2, <1>6, <2>2, <2>3, Zenon DEF a
  <1>7. CASE allowed = q - 1 /\ allowed >= 0 /\ q * FprDen = a
    <2>1. allowed + 1 = q /\ allowed \in Nat /\ allowed <= q /\ allowed \in 0 .. n - 1
      BY <1>3, <1>5, <1>7
    <2>2. allowed * FprDen <= q * FprDen
      BY <1>1, <1>3, <2>1, TimesMonotone
    <2>3. (allowed + 1) * FprDen = a
      BY <1>7, <2>1
    <2> QED
      BY <1>2, <1>7, <2>1, <2>2, <2>3 DEF a
  <1> QED
    BY <1>4, <1>6, <1>7

\* The cutoff is above a score with as many scores after it as are allowed.
LEMMA CutoffFacts ==
    ASSUME NEW n \in Nat \ {0}, NEW t \in [1 .. n -> Nat], NEW q \in 0 .. n - 1
    PROVE  LET over(c) == Cardinality({k \in 1 .. n : t[k] >= c})
           IN /\ normal_cutoff(t, q) \in Nat
              /\ \A c \in Int : over(c) \in Nat
              /\ over(normal_cutoff(t, q)) <= q
              /\ \A c \in 0 .. normal_cutoff(t, q) - 1 : q + 1 <= over(c)
  <1> DEFINE Over(c) == {k \in 1 .. n : t[k] >= c}
             p == argsort(t)
             v == t[p[n - q]]
  <1>1. q \in 0 .. n - 1
    OBVIOUS
  <1>2. Len(t) = n /\ t \in [1 .. n -> Int]
    OBVIOUS
  <1>3. p \in Bijection(1 .. n, 1 .. n) /\ \A j, k \in 1 .. n : j < k => t[p[j]] <= t[p[k]]
    BY <1>2, ArgsortFacts
  <1>4. normal_cutoff(t, q) = v + 1
    BY <1>2 DEF normal_cutoff
  <1> HIDE DEF p
  <1>5. /\ p \in [1 .. n -> 1 .. n] /\ \A j, k \in 1 .. n : p[j] = p[k] => j = k
        /\ \A i \in 1 .. n : \E k \in 1 .. n : p[k] = i
    BY <1>3 DEF Bijection, Injection, Surjection, IsInjective
  <1>6. n - q \in 1 .. n /\ p[n - q] \in 1 .. n /\ v \in Nat
    <2>1. n - q \in 1 .. n
      BY <1>1
    <2>2. p[n - q] \in 1 .. n
      BY <1>5, <2>1
    <2> QED
      BY <2>1, <2>2
  <1>7. \A c : IsFiniteSet(Over(c)) /\ Cardinality(Over(c)) \in Nat
    <2>1. 1 \in Int /\ n \in Int
      OBVIOUS
    <2>2. IsFiniteSet(1 .. n) /\ \A c : Over(c) \subseteq 1 .. n
      BY <2>1, FS_Interval
    <2> QED
      BY <2>2, FS_Subset, FS_CardinalityType
  <1>8. \A a \in 1 .. n + 1 : /\ IsFiniteSet({p[j] : j \in a .. n})
                               /\ Cardinality({p[j] : j \in a .. n}) = n - a + 1
    <2> SUFFICES ASSUME NEW a \in 1 .. n + 1
                 PROVE  /\ IsFiniteSet({p[j] : j \in a .. n})
                        /\ Cardinality({p[j] : j \in a .. n}) = n - a + 1
      OBVIOUS
    <2> DEFINE S == a .. n
    <2>1. a \in Int /\ n \in Int /\ \A j \in S : j \in 1 .. n
      OBVIOUS
    <2>2. IsFiniteSet(S) /\ Cardinality(S) = n - a + 1
      <3>1. IsFiniteSet(S) /\ Cardinality(S) = IF a > n THEN 0 ELSE n - a + 1
        BY <2>1, FS_Interval
      <3>2. (IF a > n THEN 0 ELSE n - a + 1) = n - a + 1
        OBVIOUS
      <3> QED
        BY <3>1, <3>2
    <2>3. \A x, y \in S : p[x] = p[y] => x = y
      BY <1>5, <2>1
    <2> HIDE DEF S
    <2>4. IsFiniteSet({p[j] : j \in S}) /\ Cardinality({p[j] : j \in S}) = Cardinality(S)
      BY <2>2, <2>3, ImageFinite
    <2>5. Cardinality({p[j] : j \in S}) = n - a + 1
      BY <2>2, <2>4
    <2> QED
      BY <2>4, <2>5 DEF S
  <1>9. Cardinality(Over(v + 1)) <= q
    <2> DEFINE a == n - q + 1
               T == {p[j] : j \in a .. n}
    <2>1. a \in 1 .. n + 1 /\ n - a + 1 = q
      BY <1>1
    <2>2. Over(v + 1) \subseteq T
      <3> SUFFICES ASSUME NEW k \in 1 .. n, t[k] >= v + 1 PROVE k \in T
        OBVIOUS
      <3>1. PICK j \in 1 .. n : p[j] = k
        BY <1>5
      <3>2. ~(j <= n - q)
        <4>1. CASE j = n - q
          BY <1>6, <3>1, <4>1
        <4>2. CASE j < n - q
          <5>1. t[p[j]] <= v
            BY <1>3, <1>6, <4>2
          <5>2. t[p[j]] \in Nat
            BY <1>5
          <5> QED
            BY <1>6, <3>1, <5>1, <5>2
        <4> QED
          BY <1>6, <4>1, <4>2
      <3> QED
        BY <1>1, <3>1, <3>2
    <2>3. IsFiniteSet(T) /\ Cardinality(T) = q
      <3>1. IsFiniteSet(T) /\ Cardinality(T) = n - a + 1
        BY <1>8, <2>1
      <3> QED
        BY <2>1, <3>1
    <2> HIDE DEF T, Over
    <2>4. Cardinality(Over(v + 1)) <= Cardinality(T)
      BY <2>2, <2>3, FS_Subset
    <2> QED
      BY <2>3, <2>4
  <1>10. ASSUME NEW c \in 0 .. v PROVE q + 1 <= Cardinality(Over(c))
    <2> DEFINE a == n - q
               T == {p[j] : j \in a .. n}
    <2>1. a \in 1 .. n + 1 /\ n - a + 1 = q + 1
      BY <1>1
    <2>2. T \subseteq Over(c)
      <3> SUFFICES ASSUME NEW j \in a .. n PROVE p[j] \in Over(c)
        OBVIOUS
      <3>0. j \in 1 .. n
        BY <1>1, <2>1
      <3>1. j \in 1 .. n /\ p[j] \in 1 .. n /\ t[p[j]] \in Nat
        <4>1. p[j] \in 1 .. n
          BY <1>5, <3>0
        <4> QED
          BY <3>0, <4>1
      <3>2. v <= t[p[j]]
        <4>1. CASE j = n - q
          BY <1>6, <4>1
        <4>2. CASE j # n - q
          BY <1>3, <1>6, <3>1, <4>2
        <4> QED
          BY <4>1, <4>2
      <3> QED
        BY <1>6, <3>1, <3>2
    <2>3. Cardinality(T) = q + 1
      <3>1. Cardinality(T) = n - a + 1
        BY <1>8, <2>1
      <3> QED
        BY <2>1, <3>1
    <2> HIDE DEF T, Over
    <2>4. Cardinality(T) <= Cardinality(Over(c))
      BY <1>7, <2>2, FS_Subset
    <2> QED
      BY <2>3, <2>4
  <1>11. normal_cutoff(t, q) \in Nat /\ \A c \in 0 .. normal_cutoff(t, q) - 1 : c \in 0 .. v
    BY <1>4, <1>6
  <1>12. Cardinality(Over(normal_cutoff(t, q))) <= q
    BY <1>4, <1>9, Zenon
  <1> QED
    BY <1>7, <1>10, <1>11, <1>12
\* SetToSeq lists a finite set.
LEMMA Listing ==
    ASSUME NEW S, IsFiniteSet(S)
    PROVE  SetToSeq(S) \in [1 .. Cardinality(S) -> S] /\ Cardinality(S) \in Nat
  <1>1. Cardinality(S) \in Nat /\ ExistsBijection(1 .. Cardinality(S), S)
    BY FS_CardinalityType
  <1>2. \E f \in [1 .. Cardinality(S) -> S] : IsInjective(f)
    BY <1>1 DEF ExistsBijection, Bijection, Injection, IsInjective
  <1> QED
    BY <1>1, <1>2 DEF SetToSeq

\* The calibration rows are finite, and each has a feature that a model has a score for.
LEMMA CalFacts ==
    ASSUME RunInv, phase \in Past
    PROVE  /\ IsFiniteSet(cal)
           /\ \A r \in cal, f \in Scorers : f[FeatureOf(r)] \in Nat
  <1>1. corpus \in Corpora /\ \A s \in Sids : Accepted(s)
    BY DEF RunInv
  <1>2. NTrain + 1 \in Sids
    BY EvaluationAssumption DEF Sids
  <1> DEFINE s == NTrain + 1
             table == corpus[s].rows
             unlinks == corpus[s].unlinks
             D == DOMAIN unlinks
  <1>3. ASSUME NEW r \in cal PROVE r \in {s} \X DOMAIN table
    <2>1. r \in Rows /\ r[1] = s
      BY DEF cal, Calibration
    <2>2. PICK q \in Sids : r \in {q} \X DOMAIN corpus[q].rows
      BY <2>1 DEF Rows
    <2>3. q = s
      BY <2>1, <2>2
    <2> QED
      BY <2>2, <2>3
  <1>4. DOMAIN table = 1 .. Len(table) /\ Len(table) \in Nat
    BY <1>1, <1>2, AcceptedFacts DEF Timely
  <1>5. unlinks \in [D -> Nat] /\ IsFiniteSet(D)
    BY <1>1, <1>2, AcceptedFacts
  <1>6. IsFiniteSet(cal)
    <2> DEFINE T == {s} \X DOMAIN table
    <2>1. IsFiniteSet({s}) /\ IsFiniteSet(DOMAIN table)
      <3>1. 1 \in Int /\ Len(table) \in Int
        BY <1>4
      <3>2. IsFiniteSet(1 .. Len(table))
        BY <3>1, FS_Interval
      <3>3. IsFiniteSet({s})
        BY FS_Singleton
      <3> QED
        BY <1>4, <3>2, <3>3
    <2>2. IsFiniteSet(T)
      BY <2>1, FS_Product
    <2>3. cal \subseteq T
      BY <1>3
    <2> QED
      BY <2>2, <2>3, FS_Subset
  <1>7. ASSUME NEW i \in DOMAIN table
        PROVE  temporal_features(table, unlink_attempts(s))[i][History][1] \in 0 .. corpus[s].expected
    <2> DEFINE b == table[i].b
               span == {x \in D : b - History < x /\ x <= b}
    <2>1. History \in Spans
      BY EvaluationAssumption
    <2>2. temporal_features(table, unlink_attempts(s))[i][History] =
              <<SumFunctionOnSet(unlinks, span), Cardinality({x \in span : unlinks[x] > 0})>>
      BY <1>1, <1>2, <2>1, WholeWindow
    <2>3. span \in SUBSET D /\ \A x \in D : unlinks[x] \in Nat
      BY <1>5
    <2>4. SumFunctionOnSet(unlinks, D) = corpus[s].expected
      BY <1>1, <1>2 DEF Accepted, recorded_file_unlink, SumFunction
    <2> HIDE DEF span, unlinks, D
    <2>5. SumFunctionOnSet(unlinks, span) \in Nat /\ SumFunctionOnSet(unlinks, span) <= SumFunctionOnSet(unlinks, D)
      BY <1>5, <2>3, SumMonotone
    <2>6. SumFunctionOnSet(unlinks, D) \in Nat
      BY <1>5, <2>3, SumNat
    <2> QED
      BY <2>2, <2>4, <2>5, <2>6
  <1>8. ASSUME NEW r \in cal, NEW f \in Scorers PROVE f[FeatureOf(r)] \in Nat
    <2>1. r[1] = s /\ r[2] \in DOMAIN table
      BY <1>3
    <2>2. FeatureOf(r) \in 0 .. corpus[s].expected
      BY <1>7, <2>1 DEF FeatureOf
    <2>3. \A x \in 0 .. corpus[s].expected : f[x] \in Nat
      BY <1>1, <1>2, CorporaAssumption DEF Sids
    <2> QED
      BY <2>2, <2>3
  <1> QED
    BY <1>6, <1>8

\* c is a cutoff that normal_cutoff may return for the scores s.
CutOff(s, c) == \E allowed \in allowed_fp(Len(s)) : c = normal_cutoff(s, allowed)

\* The scores of the calibration and the cutoff made of them.
ThresholdInv ==
    /\ RunInv
    /\ \E n \in Nat : scores \in [1 .. n -> Nat] /\ (phase = "verify" => n > 0)
    /\ threshold \in Nat
    /\ phase = "verify" => CutOff(scores, threshold)
    /\ edits \in 0 .. MaxEdits
    /\ taken \in [{"audit", "hash", "first", "second"} -> NoVersion .. MaxEdits]

LEMMA ScoreStep ==
    ASSUME ThresholdInv, score
    PROVE  /\ \E n \in Nat : scores' \in [1 .. n -> Nat] /\ n > 0
           /\ threshold' \in Nat /\ CutOff(scores', threshold')
  <1>1. RunInv /\ phase \in Past /\ cal # {}
    BY DEF ThresholdInv, score, Go, RunInv, Past
  <1>2. PICK f \in Scorers : scores' = [k \in DOMAIN SetToSeq(cal) |-> f[FeatureOf(SetToSeq(cal)[k])]]
    BY DEF score
  <1> DEFINE m == Cardinality(cal)
             table == SetToSeq(cal)
  <1>3. IsFiniteSet(cal) /\ \A r \in cal : f[FeatureOf(r)] \in Nat
    BY <1>1, CalFacts
  <1>4. table \in [1 .. m -> cal] /\ m \in Nat
    BY <1>3, Listing
  <1>5. m > 0
    BY <1>1, <1>3, <1>4, FS_EmptySet
  <1> HIDE DEF table, m
  <1>6. scores' = [k \in 1 .. m |-> f[FeatureOf(table[k])]]
    BY <1>2, <1>4 DEF table
  <1>7. \A k \in 1 .. m : f[FeatureOf(table[k])] \in Nat
    BY <1>3, <1>4
  <1>8. scores' \in [1 .. m -> Nat]
    BY <1>6, <1>7
  <1>9. PICK allowed \in allowed_fp(Len(scores')) : threshold' = normal_cutoff(scores', allowed)
    BY DEF score
  <1>10. threshold' \in Nat
    <2> DEFINE t == scores'
    <2>1. t \in [1 .. m -> Nat] /\ m \in Nat \ {0}
      BY <1>4, <1>5, <1>8
    <2> HIDE DEF t
    <2>2. Len(t) = m
      BY <2>1
    <2>3. allowed \in allowed_fp(m)
      BY <1>9, <2>2 DEF t
    <2>4. allowed \in 0 .. m - 1
      BY <2>1, <2>3, AllowedFacts
    <2>5. normal_cutoff(t, allowed) \in Nat
      BY <2>1, <2>4, CutoffFacts
    <2> QED
      BY <1>9, <2>5 DEF t
  <1>11. CutOff(scores', threshold')
    BY <1>9 DEF CutOff
  <1> QED
    BY <1>4, <1>5, <1>8, <1>10, <1>11

LEMMA ThresholdStep == ThresholdInv /\ [ENext]_evars => ThresholdInv'
  <1> SUFFICES ASSUME ThresholdInv, [ENext]_evars PROVE ThresholdInv'
    OBVIOUS
  <1>1. RunInv'
    BY RunStep DEF ThresholdInv
  <1>2. PICK n \in Nat : scores \in [1 .. n -> Nat] /\ (phase = "verify" => n > 0)
    BY DEF ThresholdInv
  <1>3. /\ threshold \in Nat /\ (phase = "verify" => CutOff(scores, threshold))
        /\ edits \in 0 .. MaxEdits /\ MaxEdits \in Nat
        /\ taken \in [{"audit", "hash", "first", "second"} -> NoVersion .. MaxEdits]
    BY EvaluationAssumption DEF ThresholdInv
  <1>4. edits \in NoVersion .. MaxEdits
    BY <1>3 DEF NoVersion
  <1>5. CASE scores' = scores /\ threshold' = threshold /\ edits' \in 0 .. MaxEdits
             /\ (phase' = "verify" => phase = "verify")
             /\ taken' \in [{"audit", "hash", "first", "second"} -> NoVersion .. MaxEdits]
    BY <1>1, <1>2, <1>3, <1>5 DEF ThresholdInv
  <1>6. CASE audit_prefix \/ HashInputs \/ read_data \/ join_audit
    BY <1>3, <1>4, <1>5, <1>6 DEF audit_prefix, HashInputs, read_data, join_audit, Go
  <1>7. CASE Select \/ VerifyInputs
    BY <1>3, <1>5, <1>7 DEF Select, VerifyInputs, Go
  <1>8. CASE Edit
    BY <1>3, <1>5, <1>8 DEF Edit
  <1>9. CASE UNCHANGED evars
    BY <1>3, <1>5, <1>9 DEF evars
  <1>10. CASE score
    <2>1. edits' = edits /\ taken' = taken
      BY <1>10 DEF score
    <2>2. /\ \E m \in Nat : scores' \in [1 .. m -> Nat] /\ m > 0
          /\ threshold' \in Nat /\ CutOff(scores', threshold')
      BY <1>10, ScoreStep
    <2> QED
      BY <1>1, <1>3, <2>1, <2>2 DEF ThresholdInv
  <1> QED
    BY <1>6, <1>7, <1>8, <1>9, <1>10 DEF ENext

LEMMA ThresholdHolds == ESpec => []ThresholdInv
  <1>1. EInit => ThresholdInv
    <2> SUFFICES ASSUME EInit PROVE ThresholdInv
      OBVIOUS
    <2>1. scores \in [1 .. 0 -> Nat] /\ phase # "verify" /\ 0 \in Nat
      BY DEF EInit
    <2> QED
      BY <2>1, RunInit, EvaluationAssumption DEF EInit, ThresholdInv, NoVersion
  <1> QED
    BY <1>1, ThresholdStep, PTL DEF ESpec

\* The cutoff has a false positive rate in the calibration that is no more than TARGET_FPR,
\* and no lower one is below it, for any scores, any rate below one and however the product
\* of both is rounded (normal_cutoff).
THEOREM ThresholdTight == ESpec => []CutoffTight
  <1>1. ThresholdInv => CutoffTight
    <2> SUFFICES ASSUME ThresholdInv, phase = "verify" PROVE CutoffTight
      BY DEF CutoffTight
    <2> DEFINE over(c) == Cardinality({k \in 1 .. Len(scores) : scores[k] >= c})
    <2>1. PICK n \in Nat : scores \in [1 .. n -> Nat] /\ n > 0
      BY DEF ThresholdInv
    <2>2. Len(scores) = n /\ threshold \in Nat
      BY <2>1 DEF ThresholdInv
    <2>a. PICK q \in allowed_fp(n) : threshold = normal_cutoff(scores, q)
      BY <2>2 DEF ThresholdInv, CutOff
    <2>3. /\ \A c \in Int : over(c) \in Nat
          /\ over(threshold) <= q
          /\ \A c \in 0 .. threshold - 1 : q + 1 <= over(c)
      <3>1. q \in 0 .. n - 1
        BY <2>1, AllowedFacts
      <3> DEFINE t == scores
                 above(c) == Cardinality({k \in 1 .. n : t[k] >= c})
      <3>2. t \in [1 .. n -> Nat] /\ n \in Nat \ {0}
        BY <2>1
      <3> HIDE DEF t
      <3>3. /\ \A c \in Int : above(c) \in Nat
            /\ above(normal_cutoff(t, q)) <= q
            /\ \A c \in 0 .. normal_cutoff(t, q) - 1 : q + 1 <= above(c)
        BY <3>1, <3>2, CutoffFacts
      <3>4. threshold = normal_cutoff(t, q)
        BY <2>a DEF t
      <3>5. \A c : over(c) = above(c)
        BY <2>2 DEF t
      <3> HIDE DEF over, above
      <3> QED
        BY <3>3, <3>4, <3>5
    <2>4. /\ q \in Nat /\ FprNum * n \in Nat /\ FprDen \in Nat
          /\ q * FprDen <= FprNum * n /\ FprNum * n <= (q + 1) * FprDen
      BY <2>1, AllowedFacts, EvaluationAssumption
    <2> HIDE DEF over
    <2>5. over(threshold) * FprDen <= FprNum * n
      <3>1. over(threshold) \in Nat
        BY <2>2, <2>3
      <3>2. over(threshold) * FprDen <= q * FprDen
        BY <2>3, <2>4, <3>1, TimesMonotone
      <3> QED
        BY <2>4, <3>1, <3>2
    <2>6. ASSUME NEW c \in 0 .. threshold - 1 PROVE over(c) > 0 /\ over(c) * FprDen >= FprNum * n
      <3>0. c \in Int /\ over(c) \in Nat /\ q + 1 <= over(c)
        <4>1. c \in Int
          BY <2>2
        <4> QED
          BY <2>3, <4>1
      <3>1. over(c) \in Nat /\ q + 1 <= over(c) /\ q + 1 \in Nat /\ over(c) > 0
        BY <2>4, <3>0
      <3>2. (q + 1) * FprDen <= over(c) * FprDen
        BY <2>4, <3>1, TimesMonotone
      <3> DEFINE x == FprNum * n
                 y == (q + 1) * FprDen
                 z == over(c) * FprDen
      <3>3. x \in Nat /\ y \in Nat /\ z \in Nat /\ x <= y /\ y <= z
        BY <2>4, <3>1, <3>2
      <3> HIDE DEF x, y, z
      <3>4. z >= x
        BY <3>3
      <3> QED
        BY <3>1, <3>4 DEF x, z
    <2> QED
      BY <2>2, <2>5, <2>6 DEF CutoffTight, over
  <1> QED
    BY <1>1, ThresholdHolds, PTL

\* Whatever the corpus is: nothing that is fitted or calibrated depends on the counts it must
\* not know, and neither is given rows of a session that its protocol tests (history_clean
\* and the selections of the evaluations).
THEOREM NothingLeaks == ESpec => []NoLeak
  <1>1. ThresholdInv => EvaluationTypeOK
    <2> SUFFICES ASSUME ThresholdInv PROVE EvaluationTypeOK
      OBVIOUS
    <2>1. DOMAIN corpus = Sids
      BY CorporaAssumption DEF ThresholdInv, RunInv, Sids
    <2>2. PICK n \in Nat : scores \in [1 .. n -> Nat]
      BY DEF ThresholdInv
    <2>3. \A k \in DOMAIN scores : scores[k] \in Nat
      BY <2>2
    <2> QED
      BY <2>1, <2>3 DEF EvaluationTypeOK, ThresholdInv, RunInv, Past
  <1>2. ThresholdInv => NoHistoryLeak
    BY HistoryClean DEF ThresholdInv
  <1> QED
    BY <1>1, <1>2, ThresholdHolds, SessionsApart, PTL DEF NoLeak
=============================================================================
