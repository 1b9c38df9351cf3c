---------------------------- MODULE MCCollector ----------------------------
(* Collector for TLC: processes are interchangeable, and so are keys. *)
EXTENDS Collector, TLC

Symmetry == Permutations(Process) \cup Permutations(FlowKey)
=============================================================================
