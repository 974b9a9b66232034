----------------------------- MODULE Evaluation -----------------------------
(***************************************************************************)
(* The offline evaluation of event-time-v1: unlink attempts are counted    *)
(* per bucket of a dataset (audit_unlink_buckets.py), summed over trailing *)
(* windows (temporal_unlinks.py), and models are fitted, calibrated and    *)
(* tested on rows of different sessions (evaluate_temporal_unlinks.py,     *)
(* evaluate_unseen_groups.py, evaluate_normal_only.py and                  *)
(* evaluate_event_time.py) while the input files may still be edited.      *)
(*                                                                         *)
(* A session has rows in the order of its NPZ and unlink events per second *)
(* of its capture. A model is any function of a feature; logarithms, which *)
(* keep the order, and directory scopes are left out.                      *)
(***************************************************************************)
EXTENDS Numpy, SequencesExt

CONSTANTS
    NTrain,     \* training sessions (four in the code); the next calibrates, the last tests
    History,    \* HISTORY_SECONDS
    Spans,      \* WINDOWS
    Group,      \* GROUPS.keys()
    GROUPS,     \* the techniques of each group
    Regimes,    \* REGIMES.values()
    FprNum, FprDen,  \* TARGET_FPR
    Corpora,    \* corpora of this instance
    Scorers,    \* functions a fitted model may be, from the sum of a window to a score
    MaxEdits    \* bound: edits of the input files

ASSUME EvaluationAssumption ==
    /\ NTrain \in Nat \ {0} /\ History \in Nat \ {0} /\ History \in Spans
    /\ \A w \in Spans : w \in 1 .. History
    /\ FprNum \in Nat /\ FprDen \in Nat \ {0} /\ FprNum < FprDen
    /\ Regimes \subseteq 1 .. NTrain /\ MaxEdits \in Nat

\* Unlinks are counted for the seconds of the capture, those of the rows among them, and a
\* model has a score for as many as a session can have.
ASSUME CorporaAssumption ==
    \A c \in Corpora : DOMAIN c = 1 .. NTrain + 2 /\ \A s \in DOMAIN c :
        /\ c[s].rows \in Seq(Range(c[s].rows))
        /\ \A i \in DOMAIN c[s].rows : c[s].rows[i].b \in DOMAIN c[s].unlinks
        /\ DOMAIN c[s].unlinks \subseteq Int /\ IsFiniteSet(DOMAIN c[s].unlinks)
        /\ c[s].unlinks \in [DOMAIN c[s].unlinks -> Nat]
        /\ c[s].expected \in Nat
        /\ \A f \in Scorers, x \in 0 .. c[s].expected : f[x] \in Nat

VARIABLES
    corpus,     \* corpus[s]: rows, unlinks per second, and the collector's count, expected
    edits,      \* the version of the input files
    phase,      \* what the evaluation does next
    taken,      \* the versions that were audited, hashed, read and read again
    scores,     \* the scores of the calibration rows
    threshold

evars == <<corpus, edits, phase, taken, scores, threshold>>

NoVersion == -1

EInit ==
    /\ corpus \in Corpora
    /\ edits = 0 /\ phase = "audit"
    /\ taken = [audit |-> NoVersion, hash |-> NoVersion, first |-> NoVersion, second |-> NoVersion]
    /\ scores = <<>> /\ threshold = 0

-----------------------------------------------------------------------------
(* audit_unlink_buckets.audit                                              *)

Seconds(s) == {corpus[s].rows[i].b : i \in DOMAIN corpus[s].rows}
recorded_file_unlink(s) == SumFunction(corpus[s].unlinks)
dropped_outside_npz(s) == SumFunctionOnSet(corpus[s].unlinks, DOMAIN corpus[s].unlinks \ Seconds(s))
unlink_attempts(s) == [i \in DOMAIN corpus[s].rows |-> corpus[s].unlinks[corpus[s].rows[i].b]]

\* There are rows, each of a second of its own.
ValidTimes(s) == corpus[s].rows # <<>> /\ Cardinality(Seconds(s)) = Len(corpus[s].rows)

\* Mutant of Accepted: attempts outside the rows are only counted.
AcceptedOutside(s) == ValidTimes(s) /\ recorded_file_unlink(s) = corpus[s].expected

\* The audit and the checks of temporal_features that it must pass.
Accepted(s) ==
    /\ ValidTimes(s)
    /\ recorded_file_unlink(s) = corpus[s].expected
    /\ dropped_outside_npz(s) = 0

-----------------------------------------------------------------------------
(* temporal_unlinks                                                        *)

temporal_features(rows, counts) ==
    LET order == argsort(Times(rows))
        t == [k \in DOMAIN order |-> rows[order[k]].b]
        sums == cumsum([k \in DOMAIN order |-> counts[order[k]]])
        active == cumsum([k \in DOMAIN order |-> IF counts[order[k]] > 0 THEN 1 ELSE 0])
        at(i) == CHOOSE k \in DOMAIN order : order[k] = i
        window(k, w) ==
            LET begin == searchsorted(t, t[k] - (w - 1))
            IN <<sums[k] - sums[begin], active[k] - active[begin]>>
    IN [i \in DOMAIN rows |-> [w \in Spans |-> window(at(i), w)]]

\* Rows with a full history and no forbidden row in it.
history_clean(rows, forbidden) ==
    LET order == argsort(Times(rows))
        t == [k \in DOMAIN order |-> rows[order[k]].b]
        prefix == cumsum([k \in DOMAIN order |-> IF order[k] \in forbidden THEN 1 ELSE 0])
        clean(k) ==
            /\ prefix[k] - prefix[searchsorted(t, t[k] - (History - 1))] = 0
            /\ t[k] >= t[1] + History - 1
    IN {order[k] : k \in {j \in DOMAIN order : clean(j)}}

-----------------------------------------------------------------------------
(* Selections. A row of the corpus is <<session, index>>.                  *)

Sids == 1 .. NTrain + 2
Rows == UNION {{s} \X DOMAIN corpus[s].rows : s \in Sids}
Data(r) == corpus[r[1]].rows[r[2]]
Normal(r) == Data(r).label = "normal"
Target(r, g) == Data(r).label = "attack" /\ Data(r).tech \in GROUPS[g]

\* history_clean of every session: the rows that have none of forbidden in their history.
Clean(forbidden) ==
    UNION {LET rows == corpus[s].rows
               bad == {i \in DOMAIN rows : <<s, i>> \in forbidden}
           IN {s} \X history_clean(rows, bad) : s \in Sids}

Warmed == Clean({})
CleanOfAttacks == Clean({r \in Rows : ~Normal(r)})
CleanOf(g) == Clean({r \in Rows : Target(r, g)})

Pool == {r \in Rows : r[1] <= NTrain}
Calibration == {r \in Rows : r[1] = NTrain + 1}
TestSession == {r \in Rows : r[1] = NTrain + 2}

cal == {r \in Calibration : Normal(r)} \cap CleanOfAttacks
normal_train == {r \in Pool : Normal(r)} \cap CleanOfAttacks
full_test == TestSession \cap Warmed

\* Mutant of GroupTrain: rows with the group in their history are kept.
GroupTrainUnpurged(g) == {r \in Pool : ~Target(r, g)} \cap Warmed

GroupTrain(g) == {r \in Pool : ~Target(r, g)} \cap CleanOf(g)
GroupTest(g) == {r \in full_test : Normal(r) \/ Target(r, g)}

BothClasses(R) == \E r, q \in R : Normal(r) /\ ~Normal(q)

\* A fit, what is scored with it, and for what.
Fit(fit, scored, use) == [fit |-> fit, scored |-> scored, use |-> use]

\* evaluate_temporal_unlinks
TemporalFits ==
    {Fit(normal_train, cal, "threshold"), Fit(normal_train, full_test, "test")}
    \cup UNION {{Fit(GroupTrain(g), cal, "threshold"), Fit(GroupTrain(g), GroupTest(g), "test")} : g \in Group}

\* evaluate_unseen_groups: no history is purged, features are of one bucket.
UnseenFits ==
    UNION {LET retained == {r \in Pool : r[1] <= n /\ ~Target(r, g)}
           IN {Fit(retained, {r \in Calibration : Normal(r)}, "threshold"),
               Fit(retained, {r \in TestSession : Normal(r) \/ Target(r, g)}, "test")}
           : g \in Group, n \in Regimes}

\* evaluate_normal_only
NormalFits ==
    UNION {LET normals == {r \in Pool : r[1] <= n /\ Normal(r)}
           IN {Fit(normals, {r \in Calibration : Normal(r)}, "threshold"),
               Fit(normals, TestSession, "test")} : n \in Regimes}

\* export_candidate_model
CandidateFits ==
    {Fit(Pool, {r \in Calibration : Normal(r)}, "threshold"), Fit(Pool, TestSession, "test")}

\* The nested comparison of evaluate_event_time.evaluate, by session held out.
NestedFits(out) ==
    LET train == {r \in Rows : r[1] # out}
    IN {Fit(train, Rows \ train, "test")}
       \cup {Fit({r \in train : r[1] # inner}, {r \in train : r[1] = inner /\ Normal(r)},
                 "threshold") : inner \in Sids \ {out}}

-----------------------------------------------------------------------------
(* normal_cutoff. Scores are on a grid, so nextafter is the next integer.  *)

\* Mutant of allowed_fp: one more.
allowed_fpOneMore(n) == {(FprNum * n) \div FprDen + 1}

\* math.floor(target_fpr * n) in floating point: where the exact product is whole and not
\* zero, the double may be just below it, and one less is allowed (28 for 0.29 of 100).
\* Elsewhere the error is too small to matter as long as n * FprDen is below 2^52.
allowed_fp(n) ==
    LET floor == (FprNum * n) \div FprDen
    IN {floor} \cup {k \in {floor - 1} : k >= 0 /\ floor * FprDen = FprNum * n}

\* With one of the numbers in allowed_fp.
normal_cutoff(s, allowed) ==
    s[argsort(s)[Len(s) - allowed]] + 1

-----------------------------------------------------------------------------
(* evaluate_temporal_unlinks.evaluate, after run_temporal_unlink_audits.   *)

Go(here, ok, next) ==
    /\ phase = here
    /\ phase' = IF ok THEN next ELSE "failed"

audit_prefix ==
    /\ Go("audit", \A s \in Sids : Accepted(s), "hash")
    /\ taken' = [taken EXCEPT !.audit = edits]
    /\ UNCHANGED <<corpus, edits, scores, threshold>>

HashInputs ==
    /\ Go("hash", TRUE, "read")
    /\ taken' = [taken EXCEPT !.hash = edits]
    /\ UNCHANGED <<corpus, edits, scores, threshold>>

read_data ==
    /\ Go("read", TRUE, "join")
    /\ taken' = [taken EXCEPT !.first = edits]
    /\ UNCHANGED <<corpus, edits, scores, threshold>>

\* The NPZs are read again for their times and joined with the audits, which name the hash
\* of the NPZ they are of. The comparison with the first reading is of labels, techniques,
\* sessions and projected features only, so an edit of anything else passes it.
join_audit ==
    /\ \E same \in BOOLEAN :
         /\ taken.first = edits => same
         /\ Go("join", same /\ taken.audit = taken.hash, "select")
    /\ taken' = [taken EXCEPT !.second = edits]
    /\ UNCHANGED <<corpus, edits, scores, threshold>>

Select ==
    /\ Go("select", /\ cal # {} /\ normal_train # {}
                    /\ \A g \in Group : BothClasses(GroupTrain(g)) /\ BothClasses(GroupTest(g)), "score")
    /\ UNCHANGED <<corpus, edits, taken, scores, threshold>>

FeatureOf(r) == temporal_features(corpus[r[1]].rows, unlink_attempts(r[1]))[r[2]][History][1]

score ==
    /\ Go("score", TRUE, "verify")
    /\ \E f \in Scorers :
         LET rows == SetToSeq(cal) IN scores' = [k \in DOMAIN rows |-> f[FeatureOf(rows[k])]]
    /\ \E allowed \in allowed_fp(Len(scores')) : threshold' = normal_cutoff(scores', allowed)
    /\ UNCHANGED <<corpus, edits, taken>>

\* Mutant of VerifyInputs: the inputs are not looked at again.
NoVerify ==
    /\ Go("verify", TRUE, "returned")
    /\ UNCHANGED <<corpus, edits, taken, scores, threshold>>

VerifyInputs ==
    /\ Go("verify", taken.hash = edits, "returned")
    /\ UNCHANGED <<corpus, edits, taken, scores, threshold>>

Edit ==
    /\ edits < MaxEdits
    /\ phase \notin {"failed", "returned"}
    /\ edits' = edits + 1
    /\ UNCHANGED <<corpus, phase, taken, scores, threshold>>

ENext ==
    \/ audit_prefix \/ HashInputs \/ read_data \/ join_audit \/ Select \/ score \/ VerifyInputs
    \/ Edit

ESpec == EInit /\ [][ENext]_evars

-----------------------------------------------------------------------------
(* Properties.                                                             *)

EvaluationTypeOK ==
    /\ DOMAIN corpus = Sids
    /\ edits \in 0 .. MaxEdits
    /\ phase \in {"audit", "hash", "read", "join", "select", "score", "verify", "returned", "failed"}
    /\ taken \in [{"audit", "hash", "first", "second"} -> NoVersion .. MaxEdits]
    /\ \A k \in DOMAIN scores : scores[k] \in Nat
    /\ threshold \in Nat

\* A result is of one version of the inputs: the version that was audited, whose hashes it
\* names, and that both readings saw, whoever edits the files in between.
ResultOfOneVersion ==
    phase = "returned" =>
        taken.audit = taken.hash /\ taken.first = taken.hash /\ taken.second = taken.hash

\* "all trailing windows include only past/current bins": the feature of a row is the
\* number of unlink attempts of the capture, and of seconds with one, in the w seconds up
\* to the row's own, the seconds that have no row included.
WindowsComplete ==
    phase = "select" =>
        \A s \in Sids :
            LET unlinks == corpus[s].unlinks
                feature == temporal_features(corpus[s].rows, unlink_attempts(s))
            IN \A i \in DOMAIN corpus[s].rows, w \in Spans :
                   LET b == corpus[s].rows[i].b
                       span == {x \in DOMAIN unlinks : b - w < x /\ x <= b}
                   IN feature[i][w] = <<SumFunctionOnSet(unlinks, span),
                                        Cardinality({x \in span : unlinks[x] > 0})>>

\* The features of the rows R do not tell what the unlink counts of the rows in the set
\* Secret are: with these counts raised, or gone, they are the same.
Blind(R, Secret(_)) ==
    \A s \in Sids : \A more \in {0, 2} :
        LET rows == corpus[s].rows
            mine == {i \in DOMAIN rows : <<s, i>> \in R}
            altered == [i \in DOMAIN rows |->
                            IF Secret(<<s, i>>) THEN more ELSE unlink_attempts(s)[i]]
        IN mine # {} =>
             LET was == temporal_features(rows, unlink_attempts(s))
                 now == temporal_features(rows, altered)
             IN \A i \in mine : was[i] = now[i]

\* "purge every retained row whose history contains an excluded-group attack bucket":
\* neither fitting nor calibration is given any trace of the attacks it must not know.
NoHistoryLeak ==
    phase = "score" =>
        /\ Blind(normal_train \cup cal, LAMBDA r : ~Normal(r))
        /\ \A g \in Group : Blind(GroupTrain(g), LAMBDA r : Target(r, g))

\* The fits that make one result.
Protocols ==
    {TemporalFits, UnseenFits, NormalFits, CandidateFits} \cup {NestedFits(out) : out \in Sids}

SessionsOf(R) == {r[1] : r \in R}

\* "calibration and test sessions never enter candidate training": in every protocol, no
\* session is scored with a model that was fitted on rows of it; a threshold comes from
\* normal rows, and neither these nor the rows its model was fitted on are of a session
\* that the protocol tests.
NoSessionLeak ==
    phase = "score" =>
        \A P \in Protocols : \A x \in P :
            /\ SessionsOf(x.fit) \cap SessionsOf(x.scored) = {}
            /\ x.use = "threshold" =>
                  /\ \A r \in x.scored : Normal(r)
                  /\ \A y \in P : y.use = "test" =>
                        SessionsOf(x.fit \cup x.scored) \cap SessionsOf(y.scored) = {}

\* The rate of the cutoff is within the target, and any lower cutoff exceeds it, or just
\* reaches it where target_fpr * n is whole, since the double may be below: "smallest" but
\* for one score.
CutoffTight ==
    phase = "verify" =>
        LET n == Len(scores)
            over(c) == Cardinality({k \in 1 .. n : scores[k] >= c})
        IN /\ over(threshold) * FprDen <= FprNum * n
           /\ \A c \in 0 .. threshold - 1 : over(c) > 0 /\ over(c) * FprDen >= FprNum * n

\* Fitting and calibration are given no row of a session their protocol tests and, through
\* the history in the features, no trace of the attacks they must not know.
NoLeak == EvaluationTypeOK /\ NoHistoryLeak /\ NoSessionLeak
=============================================================================
