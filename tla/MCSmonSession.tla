--------------------------- MODULE MCSmonSession ---------------------------
(* SmonSession for TLC: the first process is a Pod's.  Processes have all  *)
(* PIDs while a JSON answer is made, and one of them during a terminal     *)
(* session, which goes on for ever.                                        *)
EXTENDS SmonSession

MCPodOf == [n \in Start |-> IF n = 1 THEN "web-0" ELSE NoPod]

AllModes == [json : BOOLEAN, given : BOOLEAN]
OneAnswer == {[json |-> TRUE, given |-> FALSE]}

MCInUse == [m \in Modes |-> IF m.json THEN Pid ELSE {CHOOSE p \in Pid : TRUE}]
=============================================================================
