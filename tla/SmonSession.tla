---------------------------- MODULE SmonSession ----------------------------
(***************************************************************************)
(* A run of smon in a terminal or for one JSON answer (smon.sh): main_tui  *)
(* and the end of the script, the collector it keeps as a child, the       *)
(* baselines of linux_snapshot, and linux_collect with emit_json, which    *)
(* join them to what the collector wrote, or to the TCP counters of ss.    *)
(*                                                                         *)
(* Modelled: processes that end and whose PIDs are used again, their       *)
(* connections, which a child inherits and which are passed on, signals    *)
(* between any two commands and the cleanup trap, collectors that cannot   *)
(* be started, crash or outlive the session, a snapshot that is missing,   *)
(* old, or kept by others (SMON_NET_SNAPSHOT).                             *)
(*                                                                         *)
(* Abstracted: one direction of traffic, in bytes since the baseline, of   *)
(* which the rates are made; sampling of CPU, memory and disks; the text   *)
(* of the snapshot, whose parts SnapshotFile reads one by one.  The PID of *)
(* a collector is not used again while the session holds it.  Of processes *)
(* that never shared a connection a collector tells the truth, which is    *)
(* what ProcScan and Collector are about; of others it may tell anything.  *)
(***************************************************************************)
EXTENDS Integers

CONSTANTS
  Modes,       \* the ways in which smon is started that are considered
  Pid,         \* PIDs
  InUse,       \* bound: the PIDs that processes get in each of the modes
  Connection,  \* connections
  MaxStarts,   \* bound: processes that are started
  MaxBytes,    \* bound: bytes a process sends, and a connection carries
  PodOf        \* PodOf[n]: the Pod of the n-th process, or NoPod

\* The empty string, where a process has no Pod.
NoPod == "none"

Start == 1..MaxStarts
Bytes == 0..MaxBytes

ASSUME SessionAssumption ==
  /\ Modes \subseteq [json : BOOLEAN, given : BOOLEAN]
  /\ MaxStarts \in Nat /\ MaxBytes \in Nat
  /\ PodOf \in [Start -> STRING]

NoRow == [start |-> 0, bytes |-> 0, pod |-> NoPod]
NoTable == [p \in Pid |-> NoRow]
NoBytes == [p \in Pid |-> 0]

VARIABLES
  mode,     \* JSON_MODE, and whether SMON_NET_SNAPSHOT is given
  made,     \* how many processes have been started
  started,  \* the start time of the last process with each PID: which one it was
  alive,    \* the PIDs in use
  holders,  \* the processes that have each connection open
  open,     \* the bytes each open connection has carried
  total,    \* history: bytes each process has sent
  shared,   \* history: the processes that have had a connection with another one
  running,  \* the collectors that run, of those this session has started
  held,     \* what NET_COLLECTOR_PID is: "none", "live" or "dead"
  file,     \* the snapshot: its processes, and whether it is there and not old
  basedir,  \* whether $BASEDIR exists
  at,       \* where the script is
  looping,  \* whether it has been through its first snapshot
  base,     \* proc_base: the start times of the processes
  before,   \* net_bw: the bytes ss gave, by PID
  after,    \* the bytes ss gives now
  table,    \* AF_*: the rows of the snapshot
  loaded,   \* whether NET_ATTR_SOURCE is the snapshot, or ss_tcp_info
  shown,    \* the rows of a table or an answer, until the script goes on
  source,   \* where their bytes are from: "none", "ss" or "smon-net"
  atBase,   \* history: total when the baseline was made
  inGap     \* history: a signal came before the PID of a new child was kept

host      == <<made, started, alive, holders, open, total, shared>>
child     == <<running, held, file, basedir>>
baseline  == <<base, before, atBase>>
answer    == <<table, loaded, after, shown, source>>
script    == <<at, looping, inGap, mode>>
vars      == <<host, child, baseline, answer, script>>

JSON == mode.json
Given == mode.given

Current(p) == IF p \in alive THEN started[p] ELSE 0

-----------------------------------------------------------------------------
(* The host.                                                               *)

ProcessStarts(p) ==
  /\ p \in InUse[mode] \ alive /\ made < MaxStarts
  /\ made' = made + 1
  /\ started' = [started EXCEPT ![p] = made + 1]
  /\ alive' = alive \cup {p}
  /\ UNCHANGED <<holders, open, total, shared, child, baseline, answer, script>>

\* A connection that nobody has open any more is gone.
Close(p, connections) ==
  /\ holders' = [c \in Connection |->
       IF c \in connections THEN holders[c] \ {p} ELSE holders[c]]
  /\ open' = [c \in Connection |-> IF holders'[c] = {} THEN 0 ELSE open[c]]

ProcessExits(p) ==
  /\ p \in alive
  /\ alive' = alive \ {p}
  /\ Close(p, Connection)
  /\ UNCHANGED <<made, started, total, shared, child, baseline, answer, script>>

Connect(p, c) ==
  /\ p \in alive /\ holders[c] = {}
  /\ holders' = [holders EXCEPT ![c] = {p}]
  /\ UNCHANGED <<made, started, alive, open, total, shared, child, baseline, answer, script>>

\* A child has what its parent had; others are sent a descriptor.
Share(p, q, c) ==
  /\ p \in holders[c] /\ q \in alive \ holders[c]
  /\ holders' = [holders EXCEPT ![c] = @ \cup {q}]
  /\ shared' = shared \cup {started[p], started[q]}
  /\ UNCHANGED <<made, started, alive, open, total, child, baseline, answer, script>>

Send(p, c) ==
  /\ p \in holders[c]
  /\ total[started[p]] < MaxBytes /\ open[c] < MaxBytes
  /\ open' = [open EXCEPT ![c] = @ + 1]
  /\ total' = [total EXCEPT ![started[p]] = @ + 1]
  /\ UNCHANGED <<made, started, alive, holders, shared, child, baseline, answer, script>>

Disconnect(p, c) ==
  /\ p \in holders[c]
  /\ Close(p, {c})
  /\ UNCHANGED <<made, started, alive, total, shared, child, baseline, answer, script>>

HostStep ==
  \E p \in Pid :
    \/ ProcessStarts(p) \/ ProcessExits(p)
    \/ \E c \in Connection :
         \/ Connect(p, c) \/ Send(p, c) \/ Disconnect(p, c)
         \/ \E q \in Pid : Share(p, q, c)

-----------------------------------------------------------------------------
(* The collector: the session's child, or, with SMON_NET_SNAPSHOT, the     *)
(* panel's.                                                                *)

\* A row for each process that is there.
Written(sent) ==
  [there |-> TRUE, rows |->
    [p \in Pid |-> IF p \notin alive THEN NoRow
                   ELSE [start |-> Current(p), bytes |-> sent[p], pod |-> PodOf[Current(p)]]]]

NoFile == [there |-> FALSE, rows |-> NoTable]

ChildEnds ==
  /\ running' = running - 1
  /\ held' = IF held = "live" THEN "dead" ELSE held

\* As if the mode were not passed on.
NeverOnce == FALSE

\* Run returns after the first snapshot.
OneShot == JSON /\ ~Given

CollectorWrites ==
  /\ IF Given THEN TRUE ELSE running > 0 /\ basedir
  /\ \E sent \in [Pid -> Bytes] :
       /\ \A p \in alive : started[p] \notin shared => sent[p] <= total[started[p]]
       /\ file' = Written(sent)
  /\ IF OneShot THEN ChildEnds ELSE UNCHANGED <<running, held>>
  /\ UNCHANGED <<host, basedir, baseline, answer, script>>

\* A crash, an error, or the signal the cleanup sends.
CollectorEnds ==
  /\ running > 0
  /\ ChildEnds
  /\ UNCHANGED <<host, file, basedir, baseline, answer, script>>

\* The snapshot has not been renewed for too long.
FileAges ==
  /\ file.there /\ (Given \/ running = 0)
  /\ file' = NoFile
  /\ UNCHANGED <<host, running, held, basedir, baseline, answer, script>>

-----------------------------------------------------------------------------
(* Starting the child, and looking after it.                               *)

At(here, next) == at = here /\ at' = next

Started == IF looping THEN "load" ELSE "baseline"

UseGiven ==
  /\ Given /\ at = "spawn" /\ at' = Started
  /\ UNCHANGED <<host, child, baseline, answer, looping, inGap, mode>>

\* The program or the interface is not found.
StartFails ==
  /\ ~Given /\ at = "spawn" /\ at' = Started
  /\ UNCHANGED <<host, child, baseline, answer, looping, inGap, mode>>

Spawn ==
  /\ ~Given /\ At("spawn", "spawned")
  /\ running' = running + 1
  /\ UNCHANGED <<host, held, file, basedir, baseline, answer, looping, inGap, mode>>

KeepPid ==
  /\ at = "spawned" /\ at' = Started
  /\ held' = IF running > 0 THEN "live" ELSE "dead"
  /\ UNCHANGED <<host, running, file, basedir, baseline, answer, looping, inGap, mode>>

\* As if the old child were not looked for; as if a dead one were good enough.
NeededAlways == TRUE
NeededFirst == held = "none"

Needed == held # "live"

Ensure ==
  /\ at = "ensure"
  /\ IF Given \/ ~Needed THEN at' = "load" /\ UNCHANGED held
     ELSE at' = "spawn" /\ held' = "none"
  /\ UNCHANGED <<host, running, file, basedir, baseline, answer, looping, inGap, mode>>

\* wait_net_collector_once for the child with --once.
WaitOnce ==
  /\ At("once", "load")
  /\ held # "live"
  /\ held' = "none"
  /\ UNCHANGED <<host, running, file, basedir, baseline, answer, looping, inGap, mode>>

-----------------------------------------------------------------------------
(* linux_snapshot, load_net_snapshot and linux_collect.                    *)

\* ss_bw: a connection is charged to the process that its line names first; ss
\* has an order of its own, the same each time.  Of a process that is charged
\* with several connections the last line counts.
Charged(c) == CHOOSE p \in holders[c] : TRUE

Lines(p) == {c \in Connection : holders[c] # {} /\ Charged(c) = p}

Readings ==
  {r \in [Pid -> Bytes] :
     \A p \in Pid : IF Lines(p) = {} THEN r[p] = 0 ELSE \E c \in Lines(p) : r[p] = open[c]}

TakeBaseline ==
  /\ At("baseline", "processes")
  /\ IF Given THEN before' = NoBytes ELSE before' \in Readings
  /\ atBase' = total
  /\ shown' = NoTable /\ source' = "none"
  /\ UNCHANGED <<host, child, base, table, loaded, after, looping, inGap, mode>>

ListProcesses ==
  /\ at = "processes"
  /\ at' = IF JSON THEN "once" ELSE "wait"
  /\ base' = [p \in Pid |-> Current(p)]
  /\ looping' = TRUE
  /\ UNCHANGED <<host, child, before, atBase, answer, inGap, mode>>

\* The wait is over, or a key was pressed.
Refresh ==
  /\ At("wait", "ensure")
  /\ UNCHANGED <<host, child, baseline, answer, looping, inGap, mode>>

FileGood == file.there

Load ==
  /\ At("load", "connections")
  /\ loaded' = FileGood
  /\ table' = file.rows
  /\ UNCHANGED <<host, child, baseline, after, shown, source, looping, inGap, mode>>

ReadConnections ==
  /\ At("connections", "rows")
  /\ IF loaded THEN after' = NoBytes ELSE after' \in Readings
  /\ UNCHANGED <<host, child, baseline, table, loaded, shown, source, looping, inGap, mode>>

\* As if counters only grew.
Difference(new, old) == new - old

Increase(new, old) == IF new > old THEN new - old ELSE 0

\* As if a row were the process's that has its PID.
RateByPid(p) == table[p].bytes

RateOf(p) == IF table[p].start = Current(p) THEN table[p].bytes ELSE 0

\* The Pod is found by PID.
Row(p) ==
  [start |-> Current(p), pod |-> table[p].pod,
   bytes |-> IF loaded THEN RateOf(p) ELSE Increase(after[p], before[p])]

SameProcess(p) == base[p] = Current(p) /\ p \in alive

\* What was read is not kept in the model: it is read anew before it is used.
Forget ==
  /\ base' = NoBytes /\ before' = NoBytes
  /\ table' = NoTable /\ loaded' = FALSE /\ after' = NoBytes

Collect ==
  /\ at = "rows"
  /\ at' = IF JSON THEN "cleanup" ELSE "baseline"
  /\ shown' = [p \in Pid |-> IF SameProcess(p) THEN Row(p) ELSE NoRow]
  /\ source' = IF loaded THEN "smon-net" ELSE "ss"
  /\ Forget
  /\ UNCHANGED <<host, child, atBase, looping, inGap, mode>>

-----------------------------------------------------------------------------
(* The end: q, SIGINT or SIGTERM, then the EXIT trap.                      *)

Working == at \notin {"cleanup", "reap", "remove", "ended"}

Quit ==
  /\ At("wait", "cleanup")
  /\ UNCHANGED <<host, child, baseline, answer, looping, inGap, mode>>

Interrupt ==
  /\ Working
  /\ at' = "cleanup"
  /\ inGap' = (at = "spawned")
  /\ UNCHANGED <<host, child, baseline, answer, looping, mode>>

\* kill; without a child there is nothing to wait for.  Nothing is looked at any
\* more.
Cleanup ==
  /\ at = "cleanup"
  /\ at' = IF held = "none" THEN "remove" ELSE "reap"
  /\ Forget
  /\ shown' = NoTable /\ source' = "none" /\ atBase' = [n \in Start |-> 0]
  /\ UNCHANGED <<host, child, looping, inGap, mode>>

Reap ==
  /\ At("reap", "remove")
  /\ held # "live"
  /\ UNCHANGED <<host, child, baseline, answer, looping, inGap, mode>>

\* A collector that still runs may put a file into the directory meanwhile.
Remove ==
  /\ At("remove", "ended")
  /\ basedir' \in IF running > 0 THEN BOOLEAN ELSE {FALSE}
  /\ file' = IF Given THEN file ELSE NoFile
  /\ UNCHANGED <<host, running, held, baseline, answer, looping, inGap, mode>>

-----------------------------------------------------------------------------
Init ==
  /\ mode \in Modes
  /\ made = 0 /\ started = [p \in Pid |-> 0] /\ alive = {}
  /\ holders = [c \in Connection |-> {}] /\ open = [c \in Connection |-> 0]
  /\ shared = {}
  /\ total = [n \in Start |-> 0]
  /\ running = 0 /\ held = "none" /\ file = NoFile /\ basedir = TRUE
  /\ at = "spawn" /\ looping = FALSE /\ inGap = FALSE
  /\ base = NoBytes /\ before = NoBytes /\ atBase = total
  /\ table = NoTable /\ loaded = FALSE /\ after = NoBytes
  /\ shown = NoTable /\ source = "none"

ScriptStep ==
  \/ UseGiven \/ StartFails \/ Spawn \/ KeepPid
  \/ Ensure \/ WaitOnce
  \/ TakeBaseline \/ ListProcesses \/ Refresh
  \/ Load \/ ReadConnections \/ Collect
  \/ Cleanup \/ Reap \/ Remove

Next ==
  \/ HostStep
  \/ CollectorWrites \/ CollectorEnds \/ FileAges
  \/ ScriptStep
  \/ Quit \/ Interrupt

\* Told to end, or without its directory, a collector does.
MustEnd == (at = "reap" /\ held = "live") \/ (running > 0 /\ ~basedir)

Spec ==
  /\ Init /\ [][Next]_vars
  /\ WF_script(ScriptStep)
  /\ WF_vars(JSON /\ ~Given /\ CollectorWrites)
  /\ WF_vars(MustEnd /\ CollectorEnds)

-----------------------------------------------------------------------------
(* Properties.                                                             *)

Rows == [start : 0..MaxStarts, bytes : Bytes, pod : {NoPod} \cup {PodOf[n] : n \in Start}]

\* The variables have their types; no row has less than no bytes.
TypeOK ==
  /\ mode \in Modes
  /\ made \in 0..MaxStarts /\ started \in [Pid -> 0..MaxStarts] /\ alive \subseteq Pid
  /\ holders \in [Connection -> SUBSET Pid] /\ open \in [Connection -> Bytes]
  /\ shared \subseteq Start
  /\ total \in [Start -> Bytes] /\ atBase \in [Start -> Bytes]
  /\ running \in Nat /\ held \in {"none", "live", "dead"} /\ basedir \in BOOLEAN
  /\ file \in [there : BOOLEAN, rows : [Pid -> Rows]]
  /\ at \in {"spawn", "spawned", "baseline", "processes", "wait", "once", "ensure", "load",
             "connections", "rows", "cleanup", "reap", "remove", "ended"}
  /\ looping \in BOOLEAN /\ inGap \in BOOLEAN /\ loaded \in BOOLEAN
  /\ base \in [Pid -> 0..MaxStarts] /\ before \in [Pid -> Bytes] /\ after \in [Pid -> Bytes]
  /\ table \in [Pid -> Rows] /\ shown \in [Pid -> Rows]
  /\ source \in {"none", "ss", "smon-net"}

\* However often PIDs are used again, a process is never shown with bytes that
\* another one has sent, unless it has had a connection together with others.
BytesAreOwn ==
  \A p \in Pid :
    shown[p].start # 0 /\ shown[p].start \notin shared
      => shown[p].bytes <= total[shown[p].start]

\* However often the child crashes and is started again, there are never two,
\* and a session that ends leaves neither a child nor its directory behind,
\* but for a signal between the fork and the assignment of NET_COLLECTOR_PID.
CollectorKept ==
  /\ running <= 1
  /\ at = "ended" /\ ~inGap => running = 0 /\ ~basedir

\* When a child has died, the terminal tries to start another one, or ends.
ChildReplaced == held = "dead" /\ ~JSON ~> at \in {"spawn", "ended"}

\* A JSON answer is given in the end, whatever becomes of the collector, and a
\* collector that a signal left behind ends when its directory is gone.
SessionEnds ==
  JSON \/ at = "ended" ~> at = "ended" /\ (basedir \/ running = 0)

\* The Pod shown for a process is its own (README.md:217 excludes what would
\* follow from PIDs that are used again).
PodsAreOwn ==
  \A p \in Pid : shown[p].start # 0 => shown[p].pod \in {NoPod, PodOf[shown[p].start]}

\* Without a snapshot, a process is shown with bytes it has sent since the
\* baseline, as the comment at smon.sh:447 has it.
SinceBaseline ==
  source = "ss" => \A p \in Pid : shown[p].start # 0 =>
    shown[p].bytes <= total[shown[p].start] - atBase[shown[p].start]

\* What README.md:212-214 says of a socket that several processes share, that no
\* PID is guessed for it: without a snapshot, no process is shown with bytes
\* that another one has sent.  No run asks for it, as it does not hold
\* (SmonSession_shared.cfg shows how).
SharedNotGuessed ==
  source = "ss" => \A p \in Pid : shown[p].start # 0 =>
    shown[p].bytes <= total[shown[p].start]
=============================================================================
