---------------------------- MODULE OrderedDict ----------------------------
(***************************************************************************)
(* Python's collections.OrderedDict as agent/ai/.../behavior_memory.py     *)
(* uses it: a mapping together with the order of its keys, in which each   *)
(* key stands before those inserted, or moved to the end, after it.        *)
(***************************************************************************)
EXTENDS Integers, FiniteSets

EmptyDict == [map |-> <<>>, before |-> {}]

Keys(d) == DOMAIN d.map

\* d[k] = v : a new key goes to the end, a known one keeps its place.
SetItem(d, k, v) ==
    [map    |-> [x \in Keys(d) \cup {k} |-> IF x = k THEN v ELSE d.map[x]],
     before |-> IF k \in Keys(d) THEN d.before ELSE d.before \cup (Keys(d) \X {k})]

\* The entries whose keys are in K, in the order they had (pop, popitem, a filter).
Restricted(d, K) ==
    [map    |-> [k \in Keys(d) \cap K |-> d.map[k]],
     before |-> d.before \cap (K \X K)]

Without(d, K) == Restricted(d, Keys(d) \ K)

MoveToEnd(d, k) ==
    [d EXCEPT !.before = {p \in @ : k \notin {p[1], p[2]}} \cup ((Keys(d) \ {k}) \X {k})]

\* The first key, in order, of those in K.
FirstOf(d, K) == CHOOSE k \in K : \A x \in K \ {k} : <<k, x>> \in d.before

\* R is a strict total order of S.
Orders(R, S) ==
    /\ R \subseteq S \X S
    /\ \A x, y \in S : x # y <=> <<x, y>> \in R \/ <<y, x>> \in R
    /\ \A x, y, z \in S : <<x, y>> \in R /\ <<y, z>> \in R => <<x, z>> \in R

\* A dictionary of finitely many keys, in K, with values in V.
IsDict(d, K, V) ==
    /\ DOMAIN d = {"map", "before"}
    /\ Keys(d) \subseteq K /\ IsFiniteSet(Keys(d))
    /\ d.map \in [Keys(d) -> V]
    /\ Orders(d.before, Keys(d))
=============================================================================
