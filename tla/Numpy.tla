-------------------------------- MODULE Numpy --------------------------------
(***************************************************************************)
(* The functions of numpy that the offline scripts are written with. An    *)
(* array is a sequence; its rows are those of a dataset, with a second b.  *)
(***************************************************************************)
EXTENDS Integers, Sequences, FiniteSets

\* np.argsort, stable: the k-th index is that of the number that k - 1 others precede.
argsort(t) ==
    LET before(i) == {j \in DOMAIN t : t[j] < t[i] \/ (t[j] = t[i] /\ j < i)}
    IN [k \in DOMAIN t |-> CHOOSE i \in DOMAIN t : Cardinality(before(i)) = k - 1]

Times(rows) == [i \in DOMAIN rows |-> rows[i].b]

cumsum(f) == LET c[k \in 0 .. Len(f)] == IF k = 0 THEN 0 ELSE c[k - 1] + f[k] IN c

searchsorted(t, x) == Cardinality({j \in DOMAIN t : t[j] < x})
=============================================================================
