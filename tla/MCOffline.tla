----------------------------- MODULE MCOffline -----------------------------
(***************************************************************************)
(* The programs between a capture and a result, on small instances. They   *)
(* share no variable, so each runs while the others stay where they start. *)
(***************************************************************************)
EXTENDS Archive, Session, Windows, Evaluation, Probe

VARIABLE program    \* which of them runs

(* Evaluation: sessions of four seconds, the first one of any shape.       *)
MCGroup == {"files", "shell"}
MCGROUPS == [files |-> {"wiper"}, shell |-> {"reverse"}]

RowOf(b, k) == [b |-> b, label |-> IF k = "normal" THEN "normal" ELSE "attack", tech |-> k]

Sess(kinds, unlinks, backwards, extra) ==
    LET here == {b \in DOMAIN kinds : kinds[b] # "absent"}
        seconds == SetToSortSeq(here, LAMBDA x, y : IF backwards THEN x > y ELSE x < y)
    IN [rows |-> [i \in DOMAIN seconds |-> RowOf(seconds[i], kinds[seconds[i]])],
        unlinks |-> unlinks, expected |-> SumFunction(unlinks) + extra]

Kinds(a, b, c, d) == (0 :> a) @@ (1 :> b) @@ (2 :> c) @@ (3 :> d)

First == {Sess(k, u, back, 0) : k \in [0 .. 3 -> {"absent", "normal", "wiper"}],
                                 u \in {Kinds(1, 1, 1, 1), Kinds(0, 2, 0, 1)}, back \in BOOLEAN}
         \cup {Sess(k, [b \in 0 .. 3 |-> IF k[b] = "absent" THEN 0 ELSE b + 1], back, 0) :
                 k \in [0 .. 3 -> {"absent", "normal", "reverse"}], back \in BOOLEAN}
Second == {Sess(Kinds("normal", "wiper", "normal", "reverse"), Kinds(0, 1, 1, 0), FALSE, 0)}
Third == {Sess(Kinds("normal", "normal", "absent", "normal"), Kinds(0, 1, 0, 1), FALSE, x) : x \in {0, 1}}
         \cup {Sess(Kinds("normal", "normal", "normal", "normal"), Kinds(0, 1, 2, 0), FALSE, 0)}
Fourth == {Sess(Kinds("normal", "wiper", "normal", "reverse"), Kinds(0, 1, 1, 0), FALSE, 0)}
MCCorpora == {<<a, b, c, d>> : a \in First, b \in Second, c \in Third, d \in Fourth}
MCScorers == {[x \in 0 .. 10 |-> x], [x \in 0 .. 10 |-> 0], [x \in 0 .. 10 |-> IF x = 2 THEN 1 ELSE 3]}

(* Windows: two processes, every kind of output.                           *)

MCKey == {[tgid |-> 1, start |-> 1], [tgid |-> 2, start |-> 3]}
Earlier == CHOOSE k \in MCKey : k.tgid = 1
Later == CHOOSE k \in MCKey : k.tgid = 2
Etc == [pid |-> FALSE, dir |-> "etc"]
Self == [pid |-> TRUE, dir |-> "other"]
MCPath == {Etc, Self}
FrameOf(t, k, p, f) == [type |-> t, key |-> k, path |-> p, fid |-> f]
MCFrames ==
    {FrameOf("syscall", Earlier, Etc, 1), FrameOf("syscall", Later, Etc, 2),
     FrameOf("open", Earlier, Etc, 0), FrameOf("open", Later, Etc, 0), FrameOf("open", Later, Self, 0),
     FrameOf("connect", Earlier, Etc, 0),
     FrameOf("healthy", Earlier, Etc, 0), FrameOf("loss", Earlier, Etc, 0)}

Interval(s, e, c, n) == [start |-> s, end |-> e, unit |-> <<c, n>>]
Both == <<Interval(0, 1, "normal", "w_grep"), Interval(2, 4, "attack", "wiper")>>
Option(m, c, l, tl, bn, i) ==
    [mode |-> m, cap |-> c, min_len |-> l, tl |-> tl, bn |-> bn, ignore |-> i]
MCOptions ==
    {Option("slim", 1, 1, Both, 10, FALSE),
     Option("all", 1, 1, Both, 2, TRUE),
     Option("max_per_unit", 1, 2, <<Interval(1, 2, "attack", "wiper")>>, 10, FALSE),
     Option("max_records", 2, 1, <<>>, 2, TRUE)}

OfflineInit ==
    /\ program \in {"archive", "session", "windows", "evaluation", "probe"}
    /\ IF program = "session" THEN TRUE ELSE writing = FALSE /\ defect = [v \in SourceVersion |-> None]
    /\ IF program = "windows" THEN TRUE ELSE opt = CHOOSE o \in Options : TRUE
    /\ IF program = "evaluation" THEN TRUE ELSE corpus = CHOOSE c \in Corpora : TRUE
    /\ Init /\ SInit /\ WInit /\ EInit /\ PInit

OfflineNext ==
    \/ program = "archive" /\ Next /\ UNCHANGED <<program, svars, wvars, evars, pvars>>
    \/ program = "session" /\ SNext /\ UNCHANGED <<program, vars, wvars, evars, pvars>>
    \/ program = "windows" /\ WNext /\ UNCHANGED <<program, vars, svars, evars, pvars>>
    \/ program = "evaluation" /\ ENext /\ UNCHANGED <<program, vars, svars, wvars, pvars>>
    \/ program = "probe" /\ PNext /\ UNCHANGED <<program, vars, svars, wvars, evars>>

OfflineSpec ==
    OfflineInit /\ [][OfflineNext]_<<program, vars, svars, wvars, evars, pvars>>

\* The invocations of a tool are interchangeable.
Symmetry == Permutations(Proc) \cup Permutations(Inv)
=============================================================================
