------------------------- MODULE SnapshotRegister -------------------------
(***************************************************************************)
(* What the snapshot file promises its consumers, the shell UI and the web *)
(* panel: one cell that always holds a whole snapshot.  Publishing puts a  *)
(* newer one in its place in one step, and whoever opens it gets all of    *)
(* the snapshot that is current at that moment.                            *)
(***************************************************************************)
EXTENDS Naturals

CONSTANTS Section,       \* the kinds of records a snapshot has
          MaxGeneration  \* bound: snapshots in a behaviour

None == 0  \* no snapshot

VARIABLES published,  \* number of the snapshot in the cell
          loaded      \* for each section, the snapshot it was last read from

regvars == <<published, loaded>>

Init == published = None /\ loaded = [s \in Section |-> None]

Publish ==
  /\ published' \in (published + 1)..MaxGeneration
  /\ UNCHANGED loaded

Load(s) ==
  /\ loaded' = [loaded EXCEPT ![s] = published]
  /\ UNCHANGED published

\* A consumer starts over: it forgets every section, and reads one if it can.
Restart ==
  /\ loaded' = [s \in Section |-> None]
  /\ UNCHANGED published

RestartAndLoad(s) ==
  /\ loaded' = [x \in Section |-> IF x = s THEN published ELSE None]
  /\ UNCHANGED published

Next == \/ Publish
        \/ Restart
        \/ \E s \in Section : Load(s) \/ RestartAndLoad(s)

Spec == Init /\ [][Next]_regvars
=============================================================================
