---------------------------- MODULE MCCollector ----------------------------
(***************************************************************************)
(* TLC instances of Collector; the configurations give the bounds.         *)
(***************************************************************************)
EXTENDS Collector
=============================================================================
