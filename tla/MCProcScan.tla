---------------------------- MODULE MCProcScan ----------------------------
(* ProcScan for TLC: inodes and cgroups are interchangeable. *)
EXTENDS ProcScan, TLC

NameSymmetry == Permutations(Socket) \cup Permutations(Cgroup)
=============================================================================
