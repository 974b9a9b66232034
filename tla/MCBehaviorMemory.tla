-------------------------- MODULE MCBehaviorMemory --------------------------
(***************************************************************************)
(* BehaviorMemory on a small instance. PIDs and cgroups are compared for   *)
(* equality only, so both sets are symmetric.                              *)
(***************************************************************************)
EXTENDS BehaviorMemory, TLC

Symmetry == Permutations(Cgroup) \cup Permutations(Pid)
=============================================================================
