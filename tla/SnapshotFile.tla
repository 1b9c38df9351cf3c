--------------------------- MODULE SnapshotFile ---------------------------
(***************************************************************************)
(* The file through which smon-net hands its measurements to smon.sh and,  *)
(* through it, to the web panel: WriteSnapshot (snapshot.go) step by step, *)
(* each step able to fail and the process able to die between any two, the *)
(* restart of a collector that ended (start_net_collector and              *)
(* ensure_net_collector of smon.sh), and load_net_snapshot, which opens    *)
(* the file once for its first line and once more for each kind of record. *)
(*                                                                         *)
(* Abstracted: a snapshot is the number of the window it was made from and *)
(* how many of its four groups of records (M, P, C, W) are in the file.    *)
(* The file's mode, the text of the records, and the power failing between *)
(* Sync and the rename are left out.                                       *)
(***************************************************************************)
EXTENDS Integers, FiniteSets

CONSTANTS MaxGeneration,  \* bound: windows in a behaviour
          MaxStarts       \* bound: starts of the collector in a behaviour

ASSUME SnapshotFileAssumption ==
  /\ MaxGeneration \in Nat
  /\ MaxStarts \in Nat \ {0}

\* The records in the order WriteSnapshot prints them.
Section == {"M", "P", "C", "W"}
NGroups == 4

Snapshot(w, n) == [window |-> w, groups |-> n]

None == Snapshot(0, 0)  \* no file

VARIABLES
  once,     \* the session runs one --once collector, and waits for it
  path,     \* the snapshot file: None, or the snapshot it holds
  temp,     \* the temporary file of the call in progress, or None
  buffered, \* groups of records in the bufio.Writer
  writer,   \* what the collector is doing; "down" when it does not run
  window,   \* number of the last window a snapshot was made of
  starts,   \* bound: starts of the collector so far
  litter,   \* temporary files nobody will remove
  kills,    \* history: times the collector died without running its defers
  reader,   \* the section load_net_snapshot reads next, "idle" outside it
  loaded,   \* the snapshot each section of the reader's arrays comes from
  met,      \* history: what the first open of the last load met, {} before
  ended     \* history: the last load ran to its end and was accepted

writing == <<temp, buffered, writer, window, starts, litter, kills>>
reading == <<once, reader, loaded, met, ended>>
vars    == <<path, writing, reading>>

Whole(file) == file # None /\ file.groups = NGroups

-----------------------------------------------------------------------------
(* The collector.                                                          *)

\* start_net_collector, from the start of the session or, once the process
\* has ended, from ensure_net_collector.  A --once collector is started once.
\* There may be no collector to start, or no interface.
StartCollector ==
  /\ writer = "down"
  /\ starts < (IF once THEN 1 ELSE MaxStarts)
  /\ starts' = starts + 1
  /\ writer' \in {"capture", "down"}
  /\ UNCHANGED <<path, temp, buffered, window, litter, kills, reading>>

\* os.CreateTemp at the end of a window: a new empty file under a new name.
CreateTemp ==
  /\ writer = "capture"
  /\ window < MaxGeneration
  /\ window' = window + 1
  /\ temp' = Snapshot(window + 1, 0)
  /\ buffered' = 0
  /\ writer' = "chmod"
  /\ UNCHANGED <<path, starts, litter, kills, reading>>

Chmod ==
  /\ writer = "chmod"
  /\ writer' = "print"
  /\ UNCHANGED <<path, temp, buffered, window, starts, litter, kills, reading>>

\* Fprintf of the next group of records: it stays in the buffer, or the buffer
\* is full and what it holds goes to the file.
PrintRecords ==
  /\ writer = "print"
  /\ temp.groups + buffered < NGroups
  /\ \/ buffered' = buffered + 1 /\ UNCHANGED temp
     \/ /\ temp' = [temp EXCEPT !.groups = @ + buffered + 1]
        /\ buffered' = 0
  /\ UNCHANGED <<path, writer, window, starts, litter, kills, reading>>

PublishWithoutFlush ==
  /\ writer = "print"
  /\ temp.groups + buffered = NGroups
  /\ writer' = "sync"
  /\ UNCHANGED <<path, temp, buffered, window, starts, litter, kills, reading>>

Flush ==
  /\ writer = "print"
  /\ temp.groups + buffered = NGroups
  /\ temp' = [temp EXCEPT !.groups = @ + buffered]
  /\ buffered' = 0
  /\ writer' = "sync"
  /\ UNCHANGED <<path, window, starts, litter, kills, reading>>

SyncAndClose ==
  /\ writer \in {"sync", "close"}
  /\ writer' = IF writer = "sync" THEN "close" ELSE "rename"
  /\ UNCHANGED <<path, temp, buffered, window, starts, litter, kills, reading>>

RenameByCopy ==
  /\ writer = "rename"
  /\ path' = temp
  /\ writer' = IF once THEN "down" ELSE "capture"
  /\ UNCHANGED <<temp, buffered, window, starts, litter, kills, reading>>

\* os.Rename: the new snapshot takes the old one's name in one step.  The
\* deferred os.Remove then finds nothing.  A --once collector exits.
Rename ==
  /\ writer = "rename"
  /\ path' = temp
  /\ temp' = None
  /\ writer' = IF once THEN "down" ELSE "capture"
  /\ UNCHANGED <<buffered, window, starts, litter, kills, reading>>

WriteFailsKeepingTemp ==
  /\ writer \in {"capture", "chmod", "print", "sync", "close", "rename"}
  /\ litter' = litter + IF temp = None THEN 0 ELSE 1
  /\ temp' = None
  /\ buffered' = 0
  /\ writer' = "down"
  /\ UNCHANGED <<path, window, starts, kills, reading>>

\* A step fails (or the capture does): the deferred os.Remove takes the
\* temporary file away, and Run returns the error, which ends the process.
WriteFails ==
  /\ writer \in {"capture", "chmod", "print", "sync", "close", "rename"}
  /\ temp' = None
  /\ buffered' = 0
  /\ writer' = "down"
  /\ UNCHANGED <<path, window, starts, litter, kills, reading>>

\* The process is killed: nothing deferred runs.
Killed ==
  /\ writer # "down"
  /\ litter' = litter + (IF temp = None THEN 0 ELSE 1)
  /\ kills' = kills + 1
  /\ temp' = None
  /\ buffered' = 0
  /\ writer' = "down"
  /\ UNCHANGED <<path, window, starts, reading>>

CollectorStep == \/ StartCollector \/ CreateTemp \/ Chmod \/ PrintRecords
                 \/ Flush \/ SyncAndClose \/ Rename \/ WriteFails \/ Killed

-----------------------------------------------------------------------------
(* load_net_snapshot.                                                      *)

Empty == [s \in Section |-> None]

LoadAnyTime == TRUE

\* wait_net_collector_once comes before the load of a --once session; a
\* continuous one loads whenever its interval is over.
MayLoad == once => (writer = "down" /\ starts = 1)

\* set_net_fallback, then the first line of the file.  The load ends here when
\* there is no file, or when its line is not accepted (another interface,
\* a malformed field, too old): the arrays stay empty.
LoadMeta ==
  /\ reader = "idle"
  /\ MayLoad
  /\ \/ /\ path # None
        /\ loaded' = [Empty EXCEPT !["M"] = path]
        /\ reader' = "P"
     \/ loaded' = Empty /\ reader' = "idle"
  /\ met' = {path}
  /\ ended' = FALSE
  /\ UNCHANGED <<once, path, writing>>

\* tail opens the file again, for the P records, the C records, the W records.
LoadRecords ==
  /\ reader \in {"P", "C", "W"}
  /\ loaded' = [loaded EXCEPT ![reader] = path]
  /\ reader' = CASE reader = "P" -> "C" [] reader = "C" -> "W" [] reader = "W" -> "idle"
  /\ ended' = (reader = "W")
  /\ UNCHANGED <<once, path, writing, met>>

ReaderStep == LoadMeta \/ LoadRecords

-----------------------------------------------------------------------------
Init ==
  /\ once \in BOOLEAN
  /\ path = None /\ temp = None /\ buffered = 0
  /\ writer = "down" /\ window = 0 /\ starts = 0 /\ litter = 0 /\ kills = 0
  /\ reader = "idle" /\ loaded = Empty /\ met = {} /\ ended = FALSE

Next == CollectorStep \/ ReaderStep

Spec == Init /\ [][Next]_vars

-----------------------------------------------------------------------------
Files == [window : 1..MaxGeneration, groups : 0..NGroups]

\* Every variable has its type; between calls there is no temporary file.
TypeOK ==
  /\ once \in BOOLEAN
  /\ path \in Files \cup {None}
  /\ temp \in Files \cup {None}
  /\ buffered \in 0..NGroups
  /\ writer \in {"down", "capture", "chmod", "print", "sync", "close", "rename"}
  /\ window \in 0..MaxGeneration
  /\ starts \in 0..MaxStarts
  /\ litter \in Nat /\ kills \in Nat
  /\ reader \in {"idle", "P", "C", "W"}
  /\ loaded \in [Section -> Files \cup {None}]
  /\ met \subseteq Files \cup {None} /\ ended \in BOOLEAN
  /\ (temp = None) <=> (writer \in {"down", "capture"})

\* What a consumer sees is what it would see of a register: whole snapshots
\* only, each newer than the one before, through failed and killed writes.
Number(file) == IF file = None THEN 0
                ELSE IF Whole(file) THEN file.window ELSE MaxGeneration + 1

Register == INSTANCE SnapshotRegister
              WITH published <- Number(path),
                   loaded    <- [s \in Section |-> Number(loaded[s])]

IsRegister == Register!Spec

\* WriteSnapshot leaves no temporary file behind however it fails: only a kill
\* in the middle of a call does.
LitterOnlyFromKills == litter <= kills

\* In a --once session the collector has ended before the load begins: the
\* session reports what the collector leaves behind, never "no snapshot" when
\* one is still to come, and its totals, processes, containers and workloads
\* all come from that one snapshot.
OneSnapshotAfterWait ==
  once => /\ met \subseteq {path}
          /\ ended => \A s \in Section : loaded[s] = path
=============================================================================
