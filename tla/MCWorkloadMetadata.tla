------------------------ MODULE MCWorkloadMetadata ------------------------
(* WorkloadMetadata for TLC.  "a2" is a Docker container that only its     *)
(* file tells of; its cgroup path shows an ID that fits "a1" as well.      *)
(* "a1" is a container of CRI-O with a log; the socket has three paths:    *)
(* two are the same by a symbolic link, the third is a mount of it that    *)
(* the collector takes for another endpoint.                               *)
EXTENDS WorkloadMetadata, TLC

MCFits == [i \in Id |-> IF i = "a" THEN {"a1", "a2"} ELSE {i}]

Docker ==
  [pod |-> "web-0", name |-> "web", fileName |-> "web-1", runtime |-> "docker",
   shown |-> "a", form |-> "private", uid |-> FALSE,
   labels |-> TRUE, files |-> {"docker"}, logs |-> {}]
CRIO ==
  [pod |-> "api-0", name |-> "api", fileName |-> "k8s-api", runtime |-> "cri-o",
   shown |-> "a1", form |-> "kubepods", uid |-> TRUE,
   labels |-> FALSE, files |-> {"oci"}, logs |-> {"container"}]
MCFacts == [c \in Container |-> IF c = "a1" THEN CRIO ELSE Docker]

MCTarget == [p \in Path |-> IF p = 3 THEN "mount" ELSE "socket"]
MCHint == [p \in Path |-> IF p = 3 THEN "cri" ELSE "cri-o"]
MCServes == [p \in Path |-> {"a1"}]
=============================================================================
