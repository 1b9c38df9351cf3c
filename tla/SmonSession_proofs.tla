------------------------- MODULE SmonSession_proofs -------------------------
(***************************************************************************)
(* Proofs about SmonSession, for any PIDs, processes, connections, Pods    *)
(* and numbers of bytes.                                                   *)
(*                                                                         *)
(* Whose bytes a row has, and what becomes of the child, depend on         *)
(* different variables: each is an invariant of its own, beside the types. *)
(***************************************************************************)
EXTENDS SmonSession, TLAPS

\* Whoever has a connection is there, and is the only one who has it unless it
\* has shared one; then the connection has carried no more than it has sent.
HeldInv(c) ==
  /\ holders[c] \subseteq alive
  /\ holders[c] = {} => open[c] = 0
  /\ \A p \in holders[c] :
       started[p] \notin shared => holders[c] = {p} /\ open[c] <= total[started[p]]

HostInv ==
  /\ \A p \in Pid : started[p] <= made
  /\ \A p \in alive : started[p] \in Start
  /\ \A c \in Connection : HeldInv(c)

\* A row that names a process has a start time, and bytes that process has sent.
OwnRow(row, p) == row.start # 0 /\ row.start \notin shared => row.bytes <= total[row.start]

RowsInv ==
  \A p \in Pid : OwnRow(file.rows[p], p) /\ OwnRow(table[p], p) /\ OwnRow(shown[p], p)

\* A process that was there when the processes were listed, and still is, was
\* there when the connections were read.
ReadingInv ==
  /\ \A p \in Pid : base[p] <= started[p]
  /\ at = "rows" => \A p \in alive :
       base[p] = started[p] /\ started[p] \notin shared => after[p] <= total[started[p]]

OwnInv == TypeOK /\ HostInv /\ RowsInv /\ ReadingInv

\* NET_COLLECTOR_PID is the child that runs, but between the fork and the
\* assignment, and for good after a signal in between.
ChildInv ==
  /\ running \in {0, 1}
  /\ held = "live" => running = 1
  /\ held = "dead" => running = 0
  /\ held = "none" /\ at # "spawned" /\ ~inGap => running = 0
  /\ at = "spawn" => held = "none"
  /\ at = "spawned" => held = "none"
  /\ inGap => at \in {"cleanup", "reap", "remove", "ended"}
  /\ at = "remove" /\ ~inGap => running = 0
  /\ at = "ended" /\ ~inGap => running = 0 /\ ~basedir

-----------------------------------------------------------------------------
(* The child.                                                              *)

LEMMA ChildInit == Init => ChildInv
  BY DEF Init, ChildInv

LEMMA ChildNext == ChildInv /\ TypeOK /\ [Next]_vars => ChildInv'
<1> SUFFICES ASSUME ChildInv, TypeOK, [Next]_vars PROVE ChildInv'
  OBVIOUS
<1> USE DEF ChildInv, host, child, baseline, answer, script
<1>1. CASE HostStep
  <2>1. UNCHANGED <<running, held, basedir, at, inGap>>
    BY <1>1 DEF HostStep, ProcessStarts, ProcessExits, Connect, Share, Send, Disconnect
  <2> QED BY <2>1
<1>2. CASE CollectorWrites
  BY <1>2 DEF CollectorWrites, OneShot, ChildEnds
<1>3. CASE CollectorEnds
  BY <1>3 DEF CollectorEnds, ChildEnds
<1>4. CASE FileAges
  BY <1>4 DEF FileAges
<1>5. CASE UseGiven \/ StartFails
  BY <1>5 DEF UseGiven, StartFails, Started
<1>6. CASE Spawn
  BY <1>6 DEF Spawn, At
<1>7. CASE KeepPid
  BY <1>7 DEF KeepPid, Started
<1>8. CASE Ensure
  BY <1>8 DEF Ensure, Needed, TypeOK
<1>9. CASE WaitOnce
  BY <1>9 DEF WaitOnce, At, TypeOK
<1>10. CASE TakeBaseline \/ ListProcesses \/ Refresh \/ Load \/ ReadConnections \/ Collect
  BY <1>10 DEF TakeBaseline, ListProcesses, Refresh, Load, ReadConnections, Collect, At
<1>11. CASE Cleanup
  BY <1>11 DEF Cleanup
<1>12. CASE Reap
  BY <1>12 DEF Reap, At, TypeOK
<1>13. CASE Remove
  <2>1. /\ at = "remove" /\ at' = "ended" /\ UNCHANGED <<running, held, inGap>>
        /\ basedir' \in IF running > 0 THEN BOOLEAN ELSE {FALSE}
    BY <1>13 DEF Remove, At
  <2>2. running = 0 => basedir' = FALSE
    BY <2>1
  <2> QED BY <2>1, <2>2
<1>14. CASE Quit
  BY <1>14 DEF Quit, At
<1>15. CASE Interrupt
  BY <1>15 DEF Interrupt, Working
<1>16. CASE UNCHANGED vars
  BY <1>16 DEF vars
<1> QED BY <1>1, <1>2, <1>3, <1>4, <1>5, <1>6, <1>7, <1>8, <1>9, <1>10, <1>11, <1>12,
           <1>13, <1>14, <1>15, <1>16 DEF Next, ScriptStep

-----------------------------------------------------------------------------
(* Types.                                                                  *)

LEMMA RowTypes ==
  /\ NoRow \in Rows /\ NoTable \in [Pid -> Rows] /\ NoBytes \in [Pid -> Bytes]
  /\ NoBytes \in [Pid -> 0..MaxStarts]
  /\ \A n \in Start :
       PodOf[n] \in {NoPod} \cup {PodOf[m] : m \in Start}
<1>1. 0 \in Bytes /\ 0 \in 0..MaxStarts
  BY SessionAssumption DEF Bytes
<1>2. NoRow \in Rows
  BY <1>1 DEF NoRow, Rows
<1> QED BY <1>1, <1>2 DEF NoTable, NoBytes

LEMMA NothingListed ==
  ASSUME TypeOK
  PROVE  \A p \in Pid : NoBytes[p] <= started[p]
  BY SessionAssumption DEF TypeOK, NoBytes

LEMMA InitOwn == Init => OwnInv
<1> SUFFICES ASSUME Init PROVE OwnInv
  OBVIOUS
<1>1. 0 \in Bytes /\ 0 \in 0..MaxStarts
  BY SessionAssumption DEF Bytes
<1>2. /\ file \in [there : BOOLEAN, rows : [Pid -> Rows]] /\ file.rows = NoTable
      /\ table = NoTable /\ shown = NoTable /\ base = NoBytes
  BY RowTypes DEF Init, NoFile
<1>3. /\ holders = [c \in Connection |-> {}] /\ open = [c \in Connection |-> 0] /\ shared = {}
      /\ total \in [Start -> Bytes] /\ made = 0 /\ started = [p \in Pid |-> 0] /\ alive = {}
      /\ at = "spawn" /\ atBase = total
  BY <1>1 DEF Init
<1>4. TypeOK
  <2>1. /\ mode \in Modes
        /\ running = 0 /\ held = "none" /\ basedir = TRUE
        /\ looping = FALSE /\ inGap = FALSE /\ loaded = FALSE /\ source = "none"
        /\ before = NoBytes /\ after = NoBytes
    BY DEF Init
  <2>2. /\ made \in 0..MaxStarts /\ started \in [Pid -> 0..MaxStarts]
        /\ holders \in [Connection -> SUBSET Pid] /\ open \in [Connection -> Bytes]
    BY <1>1, <1>3
  <2>3. /\ base \in [Pid -> 0..MaxStarts] /\ before \in [Pid -> Bytes] /\ after \in [Pid -> Bytes]
        /\ table \in [Pid -> Rows] /\ shown \in [Pid -> Rows]
    BY <1>2, <2>1, RowTypes
  <2> QED BY <1>2, <1>3, <2>1, <2>2, <2>3 DEF TypeOK
<1>5. HostInv /\ ReadingInv
  BY <1>2, <1>3 DEF HostInv, HeldInv, ReadingInv, NoBytes
<1>6. RowsInv
  <2>1. \A p \in Pid : NoTable[p].start = 0
    BY DEF NoTable, NoRow
  <2> QED BY <1>2, <2>1 DEF RowsInv, OwnRow
<1> QED BY <1>4, <1>5, <1>6 DEF OwnInv

-----------------------------------------------------------------------------
(* The host.                                                               *)

\* As bytes are only added to what a process has sent, and one that shared a
\* connection stays one that did, rows stay right.
LEMMA RowsStay ==
  ASSUME OwnInv, TypeOK', UNCHANGED <<file, table, shown, base, after, at>>,
         \A n \in Start : total[n] <= total'[n], shared \subseteq shared',
         \A q \in Pid : base[q] <= started'[q],
         \A q \in alive' : base[q] = started'[q] => q \in alive /\ started[q] = started'[q]
  PROVE  RowsInv' /\ ReadingInv'
<1>1. \A n \in Start : total[n] \in Int /\ total'[n] \in Int
  BY DEF OwnInv, TypeOK, Bytes
<1>2. RowsInv'
  <2> SUFFICES ASSUME NEW q \in Pid, NEW row \in Rows, OwnRow(row, q)
               PROVE  OwnRow(row, q)'
    BY DEF OwnInv, RowsInv, TypeOK
  <2>1. row.start # 0 => row.start \in Start
    BY SessionAssumption DEF Rows, Start
  <2>2. row.bytes \in Int
    BY DEF Rows, Bytes
  <2> QED BY <1>1, <2>1, <2>2 DEF OwnRow
<1>3. ReadingInv'
  <2>1. ASSUME at' = "rows", NEW q \in alive', base'[q] = started'[q], started'[q] \notin shared'
        PROVE  after'[q] <= total'[started'[q]]
    <3>1. q \in alive /\ started[q] = started'[q] /\ base[q] = started[q] /\ started[q] \notin shared
      BY <2>1
    <3>2. started[q] \in Start /\ after[q] \in Int /\ after[q] <= total[started[q]]
      BY <2>1, <3>1 DEF OwnInv, HostInv, TypeOK, ReadingInv, Bytes
    <3> QED BY <1>1, <3>1, <3>2
  <2> QED BY <2>1 DEF ReadingInv
<1> QED BY <1>2, <1>3

LEMMA StartsKeepsOwn ==
  ASSUME OwnInv, NEW p \in Pid, ProcessStarts(p)
  PROVE  OwnInv'
<1> USE DEF child, baseline, answer, script
<1>1. /\ p \notin alive /\ made' = made + 1 /\ made' \in Start /\ made' \in 0..MaxStarts
      /\ started' = [started EXCEPT ![p] = made'] /\ alive' = alive \cup {p}
      /\ UNCHANGED <<holders, open, total, shared, child, baseline, answer, script>>
  BY SessionAssumption DEF ProcessStarts, OwnInv, TypeOK, Start
<1>2. TypeOK'
  BY <1>1 DEF OwnInv, TypeOK
<1>3. \A q \in Pid : started'[q] = IF q = p THEN made' ELSE started[q]
  BY <1>1 DEF OwnInv, TypeOK
<1>4. \A q \in Pid : /\ started[q] \in Int /\ base[q] \in Int /\ made \in Int
                     /\ started[q] <= made /\ base[q] <= started[q]
  BY DEF OwnInv, TypeOK, HostInv, ReadingInv
<1>5. HostInv'
  <2>1. \A q \in Pid : started'[q] <= made'
    BY <1>1, <1>3, <1>4
  <2>2. \A q \in alive' : started'[q] \in Start
    BY <1>1, <1>3 DEF OwnInv, HostInv, TypeOK
  <2>3. ASSUME NEW c \in Connection
        PROVE  HeldInv(c)'
    <3>1. HeldInv(c) /\ holders' = holders /\ open' = open /\ total' = total /\ shared' = shared
      BY <1>1 DEF OwnInv, HostInv
    <3>2. \A q \in holders[c] : q \in alive /\ q \in Pid /\ started'[q] = started[q]
      BY <1>1, <1>3, <3>1 DEF HeldInv, OwnInv, TypeOK
    <3> QED BY <1>1, <3>1, <3>2 DEF HeldInv
  <2> QED BY <2>1, <2>2, <2>3 DEF HostInv
<1>6. \A q \in Pid : base[q] <= started'[q]
  BY <1>1, <1>3, <1>4
<1>7. \A q \in alive' : base[q] = started'[q] => q \in alive /\ started[q] = started'[q]
  <2> SUFFICES ASSUME NEW q \in alive', base[q] = started'[q]
               PROVE  q # p
    BY <1>1, <1>3 DEF OwnInv, TypeOK
  <2> QED BY <1>1, <1>3, <1>4
<1>8. \A n \in Start : total[n] <= total'[n]
  BY <1>1 DEF OwnInv, TypeOK, Bytes
<1>9. RowsInv' /\ ReadingInv'
  BY <1>1, <1>2, <1>6, <1>7, <1>8, RowsStay
<1> QED BY <1>2, <1>5, <1>9 DEF OwnInv

\* Steps in which no process starts and which leave the rows alone.
LEMMA RowsFrame ==
  ASSUME OwnInv, TypeOK', HostInv', alive' \subseteq alive,
         UNCHANGED <<started, child, baseline, answer, script>>,
         \A n \in Start : total[n] <= total'[n], shared \subseteq shared'
  PROVE  OwnInv'
<1> USE DEF child, baseline, answer, script
<1>1. /\ \A q \in Pid : base[q] <= started'[q]
      /\ \A q \in alive' : base[q] = started'[q] => q \in alive /\ started[q] = started'[q]
  BY DEF OwnInv, ReadingInv
<1>2. RowsInv' /\ ReadingInv'
  BY <1>1, RowsStay
<1> QED BY <1>2 DEF OwnInv

\* Whoever is left with a connection had it before.
LEMMA CloseKeepsHost ==
  ASSUME OwnInv, NEW p \in Pid, NEW C \in SUBSET Connection, Close(p, C),
         alive' = alive \/ (alive' = alive \ {p} /\ C = Connection),
         UNCHANGED <<made, started, total, shared, child, baseline, answer, script>>
  PROVE  OwnInv'
<1> USE DEF child, baseline, answer, script
<1>1. /\ holders' = [c \in Connection |-> IF c \in C THEN holders[c] \ {p} ELSE holders[c]]
      /\ open' = [c \in Connection |-> IF holders'[c] = {} THEN 0 ELSE open[c]]
  BY DEF Close
<1>2. 0 \in Bytes /\ alive' \subseteq alive
  BY SessionAssumption DEF Bytes
<1>3. holders' \in [Connection -> SUBSET Pid] /\ open' \in [Connection -> Bytes]
  BY <1>1, <1>2 DEF OwnInv, TypeOK
<1>4. TypeOK'
  BY <1>2, <1>3 DEF OwnInv, TypeOK
<1>5. ASSUME NEW c \in Connection
      PROVE  HeldInv(c)'
  <2>1. HeldInv(c)
    BY DEF OwnInv, HostInv
  <2>2. holders'[c] \subseteq holders[c] /\ holders'[c] \subseteq alive'
    BY <1>1, <2>1 DEF HeldInv
  <2>3. holders'[c] = {} => open'[c] = 0
    BY <1>1
  <2>4. ASSUME NEW q \in holders'[c], started'[q] \notin shared'
        PROVE  holders'[c] = {q} /\ open'[c] <= total'[started'[q]]
    <3>1. holders[c] = {q} /\ open[c] <= total[started[q]]
      BY <2>1, <2>2, <2>4 DEF HeldInv
    <3>2. holders'[c] = {q}
      BY <2>2, <2>4, <3>1
    <3> QED BY <1>1, <3>1, <3>2
  <2> QED BY <2>2, <2>3, <2>4 DEF HeldInv
<1>6. HostInv'
  BY <1>2, <1>5 DEF OwnInv, HostInv
<1>7. \A n \in Start : total[n] <= total'[n]
  BY DEF OwnInv, TypeOK, Bytes
<1> QED BY <1>2, <1>4, <1>6, <1>7, RowsFrame

LEMMA ConnectKeepsOwn ==
  ASSUME OwnInv, NEW p \in Pid, NEW c \in Connection, Connect(p, c)
  PROVE  OwnInv'
<1> USE DEF child, baseline, answer, script
<1>1. /\ p \in alive /\ holders[c] = {} /\ holders' = [holders EXCEPT ![c] = {p}]
      /\ UNCHANGED <<made, started, alive, open, total, shared, child, baseline, answer, script>>
  BY DEF Connect
<1>2. TypeOK'
  BY <1>1 DEF OwnInv, TypeOK
<1>3. ASSUME NEW d \in Connection
      PROVE  HeldInv(d)'
  <2>1. HeldInv(d)
    BY DEF OwnInv, HostInv
  <2>2. CASE d = c
    <3>1. holders'[d] = {p} /\ open'[d] = 0
      BY <1>1, <2>1, <2>2 DEF HeldInv, OwnInv, TypeOK
    <3>2. total'[started'[p]] \in Nat
      BY <1>1 DEF OwnInv, HostInv, TypeOK, Bytes
    <3> QED BY <1>1, <3>1, <3>2 DEF HeldInv
  <2>3. CASE d # c
    <3>1. holders'[d] = holders[d]
      BY <1>1, <2>3 DEF OwnInv, TypeOK
    <3> QED BY <1>1, <2>1, <3>1 DEF HeldInv
  <2> QED BY <2>2, <2>3
<1>4. HostInv'
  BY <1>1, <1>3 DEF OwnInv, HostInv
<1>5. \A n \in Start : total[n] <= total'[n]
  BY <1>1 DEF OwnInv, TypeOK, Bytes
<1> QED BY <1>1, <1>2, <1>4, <1>5, RowsFrame

\* Both have shared a connection from now on; nobody else's is affected.
LEMMA ShareKeepsOwn ==
  ASSUME OwnInv, NEW p \in Pid, NEW q \in Pid, NEW c \in Connection, Share(p, q, c)
  PROVE  OwnInv'
<1> USE DEF child, baseline, answer, script
<1>1. /\ p \in holders[c] /\ q \in alive /\ holders' = [holders EXCEPT ![c] = @ \cup {q}]
      /\ shared' = shared \cup {started[p], started[q]}
      /\ UNCHANGED <<made, started, alive, open, total, child, baseline, answer, script>>
  BY DEF Share
<1>2. p \in alive /\ started[p] \in Start /\ started[q] \in Start
  BY <1>1 DEF OwnInv, HostInv, HeldInv
<1>3. TypeOK'
  BY <1>1, <1>2 DEF OwnInv, TypeOK
<1>4. ASSUME NEW d \in Connection
      PROVE  HeldInv(d)'
  <2>1. HeldInv(d)
    BY DEF OwnInv, HostInv
  <2>2. CASE d = c
    <3>1. holders'[d] = holders[c] \cup {q} /\ p \in holders[d]
      BY <1>1, <2>2 DEF OwnInv, TypeOK
    <3>2. ASSUME NEW r \in holders'[d], started'[r] \notin shared'
          PROVE  FALSE
      <4>1. r # p /\ r # q /\ r \in holders[d] /\ started[r] \notin shared
        BY <1>1, <2>2, <3>1, <3>2
      <4> QED BY <2>1, <3>1, <4>1 DEF HeldInv
    <3> QED BY <1>1, <2>1, <2>2, <3>1, <3>2 DEF HeldInv
  <2>3. CASE d # c
    <3>1. holders'[d] = holders[d]
      BY <1>1, <2>3 DEF OwnInv, TypeOK
    <3> QED BY <1>1, <2>1, <3>1 DEF HeldInv
  <2> QED BY <2>2, <2>3
<1>5. HostInv'
  BY <1>1, <1>4 DEF OwnInv, HostInv
<1>6. \A n \in Start : total[n] <= total'[n]
  BY <1>1 DEF OwnInv, TypeOK, Bytes
<1> QED BY <1>1, <1>3, <1>5, <1>6, RowsFrame

LEMMA SendKeepsOwn ==
  ASSUME OwnInv, NEW p \in Pid, NEW c \in Connection, Send(p, c)
  PROVE  OwnInv'
<1> USE DEF child, baseline, answer, script
<1> DEFINE n == started[p]
<1>1. /\ p \in holders[c] /\ total[n] < MaxBytes /\ open[c] < MaxBytes
      /\ open' = [open EXCEPT ![c] = @ + 1]
      /\ total' = [total EXCEPT ![n] = @ + 1]
      /\ UNCHANGED <<made, started, alive, holders, shared, child, baseline, answer, script>>
  BY DEF Send
<1>2. /\ p \in alive /\ n \in Start /\ open[c] \in Bytes /\ total[n] \in Bytes
  BY <1>1 DEF OwnInv, HostInv, HeldInv, TypeOK
<1>3. open[c] + 1 \in Bytes /\ total[n] + 1 \in Bytes
  BY <1>1, <1>2, SessionAssumption DEF Bytes
<1>4. total' \in [Start -> Bytes] /\ open' \in [Connection -> Bytes]
  BY <1>1, <1>3 DEF OwnInv, TypeOK
<1>5. TypeOK'
  BY <1>1, <1>4 DEF OwnInv, TypeOK
<1>6. \A m \in Start : /\ total[m] \in Int /\ total'[m] \in Int
                       /\ total'[m] = IF m = n THEN total[m] + 1 ELSE total[m]
  BY <1>1, <1>2, <1>4 DEF OwnInv, TypeOK, Bytes
<1>7. \A m \in Start : total[m] <= total'[m]
  BY <1>6
<1>8. ASSUME NEW d \in Connection
      PROVE  HeldInv(d)'
  <2>1. HeldInv(d) /\ open[d] \in Int
    BY DEF OwnInv, HostInv, TypeOK, Bytes
  <2>2. open'[d] = IF d = c THEN open[d] + 1 ELSE open[d]
    BY <1>1 DEF OwnInv, TypeOK
  <2>3. ASSUME NEW q \in holders'[d], started'[q] \notin shared'
        PROVE  holders'[d] = {q} /\ open'[d] <= total'[started'[q]]
    <3>1. /\ holders[d] = {q} /\ open[d] <= total[started[q]] /\ started[q] \in Start
          /\ holders' = holders /\ started' = started
      BY <1>1, <2>1, <2>3 DEF HeldInv, OwnInv, HostInv
    <3>2. CASE d = c
      <4>1. q = p
        BY <1>1, <3>1, <3>2
      <4> QED BY <1>6, <2>1, <2>2, <3>1, <3>2, <4>1
    <3>3. CASE d # c
      BY <1>6, <1>7, <2>1, <2>2, <3>1, <3>3
    <3> QED BY <3>2, <3>3
  <2>4. holders'[d] \subseteq alive' /\ (holders'[d] = {} => open'[d] = 0)
    BY <1>1, <2>1, <2>2 DEF HeldInv
  <2> QED BY <2>3, <2>4 DEF HeldInv
<1>9. HostInv'
  BY <1>1, <1>8 DEF OwnInv, HostInv
<1> QED BY <1>1, <1>5, <1>7, <1>9, RowsFrame

LEMMA HostKeepsOwn == OwnInv /\ HostStep => OwnInv'
<1> SUFFICES ASSUME OwnInv, HostStep PROVE OwnInv'
  OBVIOUS
<1>1. ASSUME NEW p \in Pid, ProcessExits(p)
      PROVE  OwnInv'
  BY <1>1, CloseKeepsHost DEF ProcessExits
<1>2. ASSUME NEW p \in Pid, NEW c \in Connection, Disconnect(p, c)
      PROVE  OwnInv'
  <2>1. /\ Close(p, {c}) /\ {c} \in SUBSET Connection /\ alive' = alive
        /\ UNCHANGED <<made, started, total, shared, child, baseline, answer, script>>
    BY <1>2 DEF Disconnect
  <2>2. alive' = alive \/ (alive' = alive \ {p} /\ {c} = Connection)
    BY <2>1
  <2> QED BY <2>1, <2>2, CloseKeepsHost
<1> QED BY <1>1, <1>2, StartsKeepsOwn, ConnectKeepsOwn, ShareKeepsOwn, SendKeepsOwn DEF HostStep

-----------------------------------------------------------------------------
(* The bytes of a row.                                                     *)

\* What a collector writes names the processes that are there.
LEMMA WritesKeepsOwn ==
  ASSUME OwnInv, CollectorWrites
  PROVE  OwnInv'
<1> USE DEF host, baseline, answer, script
<1>1. PICK sent \in [Pid -> Bytes] :
         /\ \A p \in alive : started[p] \notin shared => sent[p] <= total[started[p]]
         /\ file' = Written(sent)
  BY DEF CollectorWrites
<1>2. /\ UNCHANGED <<host, basedir, baseline, answer, script>>
      /\ running' \in Nat /\ held' \in {"none", "live", "dead"}
  <2>1. CASE OneShot
    BY <2>1 DEF CollectorWrites, OneShot, ChildEnds, OwnInv, TypeOK
  <2>2. CASE ~OneShot
    BY <2>2 DEF CollectorWrites, OwnInv, TypeOK
  <2> QED BY <2>1, <2>2
<1>3. ASSUME NEW p \in Pid
      PROVE  Written(sent).rows[p] \in Rows /\ OwnRow(Written(sent).rows[p], p)
  <2>1. CASE p \notin alive
    <3>1. Written(sent).rows[p] = NoRow /\ NoRow.start = 0
      BY <2>1 DEF Written, NoRow
    <3> QED BY <3>1, RowTypes DEF OwnRow
  <2>2. CASE p \in alive
    <3> DEFINE row == [start |-> Current(p), bytes |-> sent[p], pod |-> PodOf[Current(p)]]
    <3>1. Written(sent).rows[p] = row
      BY <2>2 DEF Written
    <3>2. Current(p) = started[p] /\ started[p] \in Start /\ started[p] \in 0..MaxStarts
      BY <2>2 DEF Current, OwnInv, HostInv, TypeOK
    <3>3. row \in Rows
      BY <3>2, RowTypes DEF Rows
    <3>4. OwnRow(row, p)
      BY <1>1, <2>2, <3>2 DEF OwnRow
    <3> QED BY <3>1, <3>3, <3>4
  <2> QED BY <2>1, <2>2
<1>4. file' \in [there : BOOLEAN, rows : [Pid -> Rows]]
  <2>1. file' = [there |-> TRUE, rows |-> Written(sent).rows] /\ Written(sent).rows \in [Pid -> Rows]
    BY <1>1, <1>3 DEF Written
  <2> QED BY <2>1
<1>5. TypeOK'
  BY <1>2, <1>4 DEF OwnInv, TypeOK
<1>6. RowsInv'
  BY <1>1, <1>2, <1>3 DEF OwnInv, RowsInv, OwnRow
<1>7. HostInv' /\ ReadingInv'
  BY <1>2 DEF OwnInv, HostInv, HeldInv, ReadingInv
<1> QED BY <1>5, <1>6, <1>7 DEF OwnInv

LEMMA ReadKeepsOwn ==
  ASSUME OwnInv, ReadConnections
  PROVE  OwnInv'
<1> USE DEF host, child, baseline
<1>1. /\ at' = "rows"
      /\ UNCHANGED <<host, child, baseline, table, loaded, shown, source, looping, inGap, mode>>
  BY DEF ReadConnections, At
<1>2. after' = NoBytes \/ after' \in Readings
  BY DEF ReadConnections
<1>3. after' \in [Pid -> Bytes]
  BY <1>2, RowTypes DEF Readings
<1>4. TypeOK'
  BY <1>1, <1>3 DEF OwnInv, TypeOK
<1>5. HostInv' /\ RowsInv'
  BY <1>1 DEF OwnInv, HostInv, HeldInv, RowsInv, OwnRow
<1>6. ASSUME NEW p \in alive, started[p] \notin shared
      PROVE  after'[p] <= total[started[p]]
  <2>1. p \in Pid /\ total[started[p]] \in Nat
    BY DEF OwnInv, HostInv, TypeOK, Bytes
  <2>2. \A c \in Lines(p) : p \in holders[c]
    BY DEF Lines, Charged
  <2>3. \A c \in Lines(p) : open[c] <= total[started[p]]
    BY <1>6, <2>2 DEF OwnInv, HostInv, HeldInv, Lines
  <2>4. CASE after' = NoBytes
    BY <2>1, <2>4 DEF NoBytes
  <2>5. CASE after' \in Readings
    BY <2>1, <2>3, <2>5 DEF Readings
  <2> QED BY <1>2, <2>4, <2>5
<1>7. ReadingInv'
  BY <1>1, <1>6 DEF OwnInv, ReadingInv
<1> QED BY <1>4, <1>5, <1>7 DEF OwnInv

\* A row is the process's that is there now and was there at the baseline: what
\* the snapshot has for it is its own, and so is what its connections carried.
LEMMA CollectKeepsOwn ==
  ASSUME OwnInv, Collect
  PROVE  OwnInv'
<1> USE DEF host, child, baseline
<1>1. /\ at = "rows" /\ at' = IF JSON THEN "cleanup" ELSE "baseline"
      /\ shown' = [p \in Pid |-> IF SameProcess(p) THEN Row(p) ELSE NoRow]
      /\ source' \in {"ss", "smon-net"}
      /\ base' = NoBytes /\ before' = NoBytes
      /\ table' = NoTable /\ loaded' = FALSE /\ after' = NoBytes
      /\ UNCHANGED <<host, child, atBase, looping, inGap, mode>>
  BY DEF Collect, Forget
<1>2. ASSUME NEW p \in Pid
      PROVE  shown'[p] \in Rows /\ OwnRow(shown'[p], p)
  <2>1. CASE SameProcess(p)
    <3>1. shown'[p] = Row(p)
      BY <1>1, <2>1
    <3>2. /\ Current(p) = started[p] /\ started[p] \in Start /\ started[p] \in 0..MaxStarts
          /\ total[started[p]] \in Bytes
      BY <2>1 DEF SameProcess, Current, OwnInv, HostInv, TypeOK
    <3>3. /\ table[p] \in Rows /\ table[p].bytes \in Bytes
          /\ after[p] \in Bytes /\ before[p] \in Bytes /\ 0 \in Bytes
      BY SessionAssumption DEF OwnInv, TypeOK, Rows, Bytes
    <3> DEFINE bytes == IF loaded THEN RateOf(p) ELSE Increase(after[p], before[p])
    <3>4. bytes \in Bytes
      BY <3>3, SessionAssumption DEF RateOf, Increase, Bytes
    <3>8. started[p] \notin shared => bytes <= total[started[p]]
      <4> SUFFICES ASSUME started[p] \notin shared PROVE bytes <= total[started[p]]
        OBVIOUS
      <4>1. CASE loaded
        <5>1. bytes = RateOf(p) /\ (table[p].start = started[p] => table[p].bytes <= total[started[p]])
          BY <3>2, <4>1 DEF OwnInv, RowsInv, OwnRow, Start
        <5>2. CASE table[p].start = Current(p)
          BY <3>2, <3>3, <5>1, <5>2 DEF RateOf
        <5>3. CASE table[p].start # Current(p)
          BY <3>2, <3>3, <5>1, <5>3 DEF RateOf, Bytes
        <5> QED BY <5>2, <5>3
      <4>2. CASE ~loaded
        <5>1. after[p] <= total[started[p]]
          BY <1>1, <2>1, <3>2 DEF SameProcess, OwnInv, ReadingInv
        <5>2. bytes = IF after[p] > before[p] THEN after[p] - before[p] ELSE 0
          BY <4>2 DEF Increase
        <5> HIDE DEF bytes
        <5> QED BY <3>2, <3>3, <5>1, <5>2, SessionAssumption DEF Bytes
      <4> QED BY <4>1, <4>2
    <3>5. Row(p) = [start |-> started[p], pod |-> table[p].pod, bytes |-> bytes]
      BY <3>2 DEF Row
    <3> HIDE DEF bytes
    <3>6. Row(p) \in Rows
      BY <3>2, <3>3, <3>4, <3>5 DEF Rows
    <3>7. OwnRow(Row(p), p)
      BY <3>5, <3>8 DEF OwnRow
    <3> QED BY <3>1, <3>6, <3>7
  <2>2. CASE ~SameProcess(p)
    <3>1. shown'[p] = NoRow /\ NoRow.start = 0
      BY <1>1, <2>2 DEF NoRow
    <3> QED BY <3>1, RowTypes DEF OwnRow
  <2> QED BY <2>1, <2>2
<1>3. shown' \in [Pid -> Rows]
  BY <1>1, <1>2
<1>4. TypeOK'
  BY <1>1, <1>3, RowTypes DEF OwnInv, TypeOK
<1>5. RowsInv'
  <2>1. \A p \in Pid : NoTable[p].start = 0
    BY DEF NoTable, NoRow
  <2> QED BY <1>1, <1>2, <2>1 DEF OwnInv, RowsInv, OwnRow
<1>6. HostInv' /\ ReadingInv'
  BY <1>1, NothingListed DEF OwnInv, HostInv, HeldInv, ReadingInv
<1> QED BY <1>4, <1>5, <1>6 DEF OwnInv

LEMMA NextOwn == OwnInv /\ [Next]_vars => OwnInv'
<1> SUFFICES ASSUME OwnInv, [Next]_vars PROVE OwnInv'
  OBVIOUS
<1>1. CASE HostStep
  BY <1>1, HostKeepsOwn
<1>2. CASE CollectorWrites
  BY <1>2, WritesKeepsOwn
<1>3. CASE ReadConnections
  BY <1>3, ReadKeepsOwn
<1>4. CASE Collect
  BY <1>4, CollectKeepsOwn
<1> USE DEF host, child, baseline, answer, script, OwnInv
<1>5. CASE CollectorEnds \/ FileAges
  <2>1. /\ running' \in Nat /\ held' \in {"none", "live", "dead"}
        /\ file' = file \/ file' = NoFile
        /\ UNCHANGED <<host, basedir, baseline, answer, script>>
    BY <1>5 DEF CollectorEnds, ChildEnds, FileAges, TypeOK
  <2>2. /\ NoFile \in [there : BOOLEAN, rows : [Pid -> Rows]]
        /\ \A p \in Pid : NoFile.rows[p].start = 0
    BY RowTypes DEF NoFile, NoTable, NoRow
  <2>3. TypeOK'
    BY <2>1, <2>2 DEF TypeOK
  <2>4. HostInv' /\ RowsInv' /\ ReadingInv'
    BY <2>1, <2>2 DEF HostInv, HeldInv, RowsInv, OwnRow, ReadingInv
  <2> QED BY <2>3, <2>4
<1>6. CASE TakeBaseline
  <2>1. /\ at' = "processes" /\ atBase' = total
        /\ before' = NoBytes \/ before' \in Readings
        /\ shown' = NoTable /\ source' = "none"
        /\ UNCHANGED <<host, child, base, table, loaded, after, looping, inGap, mode>>
    BY <1>6 DEF TakeBaseline, At
  <2>2. before' \in [Pid -> Bytes] /\ \A p \in Pid : NoTable[p].start = 0
    BY <2>1, RowTypes DEF Readings, NoTable, NoRow
  <2>3. TypeOK'
    BY <2>1, <2>2, RowTypes DEF TypeOK
  <2>4. HostInv' /\ RowsInv' /\ ReadingInv'
    BY <2>1, <2>2 DEF HostInv, HeldInv, RowsInv, OwnRow, ReadingInv
  <2> QED BY <2>3, <2>4
<1>7. CASE ListProcesses
  <2>1. /\ at' \in {"once", "wait"} /\ base' = [p \in Pid |-> Current(p)] /\ looping' = TRUE
        /\ UNCHANGED <<host, child, before, atBase, answer, inGap, mode>>
    BY <1>7 DEF ListProcesses
  <2>2. \A p \in Pid : /\ base'[p] \in 0..MaxStarts /\ base'[p] <= started[p]
    BY <2>1, SessionAssumption DEF Current, TypeOK
  <2>3. TypeOK'
    BY <2>1, <2>2 DEF TypeOK
  <2>4. HostInv' /\ RowsInv' /\ ReadingInv'
    BY <2>1, <2>2 DEF HostInv, HeldInv, RowsInv, OwnRow, ReadingInv
  <2> QED BY <2>3, <2>4
<1>8. CASE Load
  <2>1. /\ at' = "connections" /\ loaded' = file.there /\ table' = file.rows
        /\ UNCHANGED <<host, child, baseline, after, shown, source, looping, inGap, mode>>
    BY <1>8 DEF Load, At, FileGood
  <2>2. TypeOK'
    BY <2>1 DEF TypeOK
  <2>3. HostInv' /\ RowsInv' /\ ReadingInv'
    BY <2>1 DEF HostInv, HeldInv, RowsInv, OwnRow, ReadingInv
  <2> QED BY <2>2, <2>3
<1>9. CASE Remove
  <2>1. /\ at' = "ended" /\ basedir' \in BOOLEAN
        /\ file' = file \/ file' = NoFile
        /\ UNCHANGED <<host, running, held, baseline, answer, looping, inGap, mode>>
    BY <1>9 DEF Remove, At
  <2>2. /\ NoFile \in [there : BOOLEAN, rows : [Pid -> Rows]]
        /\ \A p \in Pid : NoFile.rows[p].start = 0
    BY RowTypes DEF NoFile, NoTable, NoRow
  <2>3. TypeOK'
    BY <2>1, <2>2 DEF TypeOK
  <2>4. HostInv' /\ RowsInv' /\ ReadingInv'
    BY <2>1, <2>2 DEF HostInv, HeldInv, RowsInv, OwnRow, ReadingInv
  <2> QED BY <2>3, <2>4
<1>10. CASE \/ UseGiven \/ StartFails \/ Spawn \/ KeepPid \/ Ensure \/ WaitOnce
            \/ Refresh \/ Reap \/ Quit \/ Interrupt
  <2>1. /\ running' \in Nat /\ held' \in {"none", "live", "dead"} /\ inGap' \in BOOLEAN
        /\ at' \in {"spawn", "spawned", "baseline", "load", "ensure", "cleanup", "remove"}
        /\ UNCHANGED <<host, file, basedir, baseline, answer, looping, mode>>
    <3>1. CASE UseGiven \/ StartFails \/ Refresh \/ Reap \/ Quit
      BY <3>1 DEF UseGiven, StartFails, Refresh, Reap, Quit, At, Started, TypeOK
    <3>2. CASE Spawn \/ KeepPid
      BY <3>2 DEF Spawn, KeepPid, At, Started, TypeOK
    <3>3. CASE Ensure
      BY <3>3 DEF Ensure, TypeOK
    <3>4. CASE WaitOnce
      BY <3>4 DEF WaitOnce, At, TypeOK
    <3>5. CASE Interrupt
      <4>1. inGap' \in BOOLEAN
        BY <3>5 DEF Interrupt
      <4>2. /\ at' = "cleanup" /\ UNCHANGED <<host, child, baseline, answer, looping, mode>>
        BY <3>5 DEF Interrupt
      <4> QED BY <4>1, <4>2 DEF TypeOK
    <3> QED BY <1>10, <3>1, <3>2, <3>3, <3>4, <3>5
  <2>2. TypeOK'
    BY <2>1 DEF TypeOK
  <2>3. HostInv' /\ RowsInv' /\ ReadingInv'
    BY <2>1 DEF HostInv, HeldInv, RowsInv, OwnRow, ReadingInv
  <2> QED BY <2>2, <2>3
<1>11. CASE Cleanup
  <2>1. /\ at' \in {"remove", "reap"} /\ base' = NoBytes /\ before' = NoBytes
        /\ table' = NoTable /\ loaded' = FALSE /\ after' = NoBytes
        /\ shown' = NoTable /\ source' = "none" /\ atBase' = [n \in Start |-> 0]
        /\ UNCHANGED <<host, child, looping, inGap, mode>>
    BY <1>11 DEF Cleanup, Forget
  <2>2. 0 \in Bytes /\ \A p \in Pid : NoTable[p].start = 0
    BY SessionAssumption DEF Bytes, NoTable, NoRow
  <2>3. TypeOK'
    BY <2>1, <2>2, RowTypes DEF TypeOK
  <2>4. HostInv' /\ RowsInv' /\ ReadingInv'
    BY <2>1, <2>2, NothingListed DEF HostInv, HeldInv, RowsInv, OwnRow, ReadingInv
  <2> QED BY <2>3, <2>4
<1>12. CASE UNCHANGED vars
  <2>1. TypeOK'
    BY <1>12 DEF vars, TypeOK
  <2>2. HostInv' /\ RowsInv' /\ ReadingInv'
    BY <1>12 DEF vars, HostInv, HeldInv, RowsInv, OwnRow, ReadingInv
  <2> QED BY <2>1, <2>2
<1> QED BY <1>1, <1>2, <1>3, <1>4, <1>5, <1>6, <1>7, <1>8, <1>9, <1>10, <1>11, <1>12
       DEF Next, ScriptStep

-----------------------------------------------------------------------------

\* The invariants hold in every state of a session.
THEOREM SessionInvariant == Spec => [](OwnInv /\ ChildInv)
<1>1. Init => OwnInv /\ ChildInv
  BY InitOwn, ChildInit
<1>2. OwnInv /\ ChildInv /\ [Next]_vars => (OwnInv /\ ChildInv)'
  BY NextOwn, ChildNext DEF OwnInv
<1> QED BY <1>1, <1>2, PTL DEF Spec

\* Every variable of the session has its type.
THEOREM SessionTypeCorrect == Spec => []TypeOK
<1>1. OwnInv => TypeOK
  BY DEF OwnInv
<1> QED BY <1>1, SessionInvariant, PTL

\* However often PIDs are used again, between any two commands of the script,
\* a process that has shared no connection is never shown with bytes that
\* another one has sent, be they from a snapshot or from ss.
THEOREM NobodyElsesBytes == Spec => []BytesAreOwn
<1>1. OwnInv => BytesAreOwn
  BY DEF OwnInv, RowsInv, OwnRow, BytesAreOwn
<1> QED BY <1>1, SessionInvariant, PTL

\* There are never two children, and a session ends with none and without its
\* directory, but for a signal between the fork and the assignment of its PID.
THEOREM OneChild == Spec => []CollectorKept
<1>1. ChildInv => CollectorKept
  BY DEF ChildInv, CollectorKept
<1> QED BY <1>1, SessionInvariant, PTL
=============================================================================
