---------------------------- MODULE MCWebPanel ----------------------------
(* WebPanel for TLC: PIDs are interchangeable where no liveness is checked. *)
EXTENDS WebPanel, TLC

PidSymmetry == Permutations(Pid)
=============================================================================
