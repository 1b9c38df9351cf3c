# Verification of smon

This directory holds TLA+ models of smon (`smon.sh`, `web.py` and the Go
collector `smon-net`), the TLC configurations that check them, and theorems
about them checked by TLAPS.  Paths and line numbers below are relative to the
repository; `netmon/` stands for `internal/netmon/`.

## 1. The system

smon shows which process or container uses a host's CPU, memory, disk and
network.  Three programs take part:

```
  kernel ── cgroup_skb programs ──> LRU map ─┐
         ── AF_PACKET ring ──────────────────┤ smon-net (Go): Run
         ── /proc, cgroups, CRI sockets ─────┘        │ WriteSnapshot
                                                      v
                                              snapshot file (TSV)
                                                      │ load_net_snapshot
     terminal <── main_tui ──┐                        v
     stdout  <── JSON ───────┴───────────────── smon.sh (bash)
                                                      ^ runs every second
     browser <── HTTP ── web.py: cache <── sampler ───┘
                          └── supervisor ── runs smon-net
```

| component | source | state it keeps | operations | what is hard | what makes it correct |
|---|---|---|---|---|---|
| eBPF flow counters | `netmon/bpf/netmon.c`, `netmon/ebpf_linux.go` | the LRU hash map flow → bytes; the baselines of the last read | `count_packet` on every CPU, `ReadDeltas` once per interval | the map changes during the walk: races between CPUs, eviction, a restarting iterator, aborts, retries, partial results | bytes returned are bytes counted: never more, and no less while a counter is kept |
| collector loop and aggregation | `netmon/run_linux.go`, `netmon/aggregate.go` | source, window, drop baseline, deadline | read a packet, cut a snapshot, fall back from eBPF | errors of each call, the one-way change of source in the middle of a window, wrapping counters, separate roundings | every packet and drop is reported once; the parts of a snapshot fit into its totals; coverage is what was attributed |
| snapshot file | `netmon/snapshot.go`, `smon.sh` 273-436 | the file, its temporary, the buffered writer, the arrays of the reader | `WriteSnapshot`, (re)start of the collector, `load_net_snapshot` | failure or kill between any two steps; a reader that opens the file four times | the file is an atomic register of whole, ever newer snapshots |
| /proc scan and socket resolution | `netmon/proc.go`, `netmon/cgroup.go` | none between scans | `LoadResolver`, `LoadSystemResolver`, `Resolve` | processes exit and PIDs are reused during the scan; shared sockets; unreadable namespaces | a flow is given to a process only if that process, identified by PID and start time, is its only owner |
| workload metadata | `netmon/runtime_metadata.go`, `netmon/cgroup.go` 339-446 | the cached catalog and when it expires | `Catalog`, `Lookup`, merges of CRI, Docker, OCI, logs | slow or failing endpoints, partial answers, order of merges, parts of IDs | a container gets its own names and keeps them while their source answers |
| packet parsing | `netmon/packet.go`, `netmon/bpf/netmon.c` 38-85 | none | `ParsePacket`, `directionTX`, `flowFromBPFKey` | truncated headers, VLAN stacks, fragments, extension headers; two parsers for one flow | no read past the capture; ports only when they are the packet's own; both parsers name one flow |
| web panel backend | `web.py` 20-31, 202-350 | the response cache, the collector process, the PIDs to hide, the last error | supervisor thread, sampler thread, HTTP handlers, shutdown | two threads and `main` share the process handle; the collector crashes or cannot start | one collector at a time, none left behind, and data that is not renewed is in time not called good |
| terminal and JSON session | `smon.sh` | the baselines, the rows of the snapshot, the collector's PID | `start_net_collector`, `ensure_net_collector`, `linux_snapshot`, `load_net_snapshot`, `linux_collect`, `cleanup` | reused PIDs, shared connections, a collector that dies, a snapshot that is gone, a trap at any point | a rate belongs to the process it is shown for; one collector, and none left behind |
| host sampling and alerts | `smon.sh` 438-960 | readings of /proc | `disk_devices_collect`, `collect_alerts`, `emit_json` | counters that vanish or go backwards | rates are never negative |
| installer | `install.sh` | files under the prefix | download, verify, install | stopping halfway | nothing unverified is installed |
| panel page, stubs, build, tests | `web.py` 33-180, `netmon/run_other.go`, `tests/`, `.github/` | – | – | – | – |

## 2. Modules

| module | what it is |
|---|---|
| `FlowCounters` | `count_packet` and `ReadDeltas` over the LRU map |
| `FlowCounters_proofs` | its theorems |
| `Collector`, `MCCollector` | `Run`'s loop and the arithmetic of snapshots |
| `Collector_proofs` | its theorems, and what a sum over a finite set is |
| `SnapshotRegister` | abstract: an atomic register of snapshots |
| `SnapshotFile` | `WriteSnapshot`, collector starts and `load_net_snapshot`; implements `SnapshotRegister` |
| `SnapshotFile_proofs` | its theorems |
| `WebPanel`, `MCWebPanel` | the panel's supervisor, sampler and main thread |
| `WebPanel_proofs` | its theorems |
| `ProcScan`, `MCProcScan` | the scan of /proc and `Resolve`, among processes that change |
| `ProcScan_proofs` | its theorems |
| `WorkloadMetadata`, `MCWorkloadMetadata` | the catalog of container names, and the workload of a cgroup |
| `WorkloadMetadata_proofs` | its theorems |
| `Packets`, `MCPackets` | one packet through both parsers to its flow |
| `Packets_proofs` | its theorems |
| `SmonSession`, `MCSmonSession` | a run of smon in a terminal or for one JSON answer |
| `SmonSession_proofs` | its theorems |

### FlowCounters

| model | code |
|---|---|
| `flows` | the BPF map `flows` (`netmon.c` 31-36); 0 stands for no entry |
| `cpu` | the local variables of one `count_packet` per CPU |
| `previous` | `EBPFCollector.previous` |
| `reader`, `walk` | `ReadDeltas`' attempt and the iterator, `current` and `result` of `readDeltasOnce` |
| `LookupElem`, `FetchAndAdd`, `UpdateElem` | the three map operations, each atomic |
| `BeginRead`, `NextKey`, `Lookup`, `WalkComplete`, `RetryWalk`, `WalkPartial`, `ReadFails` | the read, one action per system call or way to end |

The kernel's hash map and the iterator of cilium/ebpf are not in the
repository: `Successors`, `SkipMissing` and `Aborted` say how the code in
`ebpf_linux.go` meets them (a key that is gone makes the kernel start again
from its first key; more than `max_entries` keys abort the walk), and the map
marks them external.  A pointer to an entry that was evicted may reach freed
memory or the entry that took it over; both are possible outcomes.

`counted`, `delivered`, `repeated`, `evicted` and `raced` are history: what
was added, what was returned, which keys one result listed twice, which were
dropped and which were overwritten.

### SnapshotFile

A snapshot is the number of its window and how many of its four groups of
records (M, P, C, W) are in a file.  One action per system call of
`WriteSnapshot`; `WriteFails` is any of them returning an error (the deferred
`os.Remove` runs, `Run` returns), `Killed` a signal that runs no defers.
`PrintRecords` may or may not overflow the buffered writer.  The reader is
`load_net_snapshot`: `LoadMeta` is its first open, `LoadRecords` the three
`tail`s.  `once` tells `smon -j` (collector with `--once`, waited for) from
the terminal and the panel (a collector running beside the reader).  The
start itself may fail, and the reader then finds no file.  `met` is history:
the snapshots a load has opened.

### Collector

`ReadPacket`, `ReadTimeout`, `NotYet`, `Stop` are an iteration of the loop up
to the deadline; `CutFromFlows`, `CutLosingEbpf`, `CutFromWindow` are the
three ways through the rest of it, each with the statistics call, the snapshot
and the write.  `Account` and `Observe` take the packet's direction and the
resolver's answer as inputs.  `CgroupSnapshot` and `WindowSnapshot` are the
two snapshot functions with integer division as the code rounds, for one
second; the fields `known`, `listed`, `roundings`, `unreadable` and `mixed` of
a snapshot are history for the properties.

### WebPanel

| model | code |
|---|---|
| `sup`, `handle` | the next statement of `collector_supervisor`, its `process` |
| `net`, `monitored`, `stop`, `cache` | `NET_PROCESS`, `MONITOR_PIDS`, `STOP`, `CACHE` |
| `sam`, `excluded` | the next statement of `sampler`, `collect`; its `SMON_EXCLUDE_PIDS` |
| `children`, `listed`, `degraded` | `PID_PARENT`, `$BASEDIR/proc_base` and the fallback of the `smon -j` it runs |
| `main` | the main thread, inside and outside its `try` |
| `proc`, `signalled` | the process table; `"other"` is a process that is not the panel's |
| `dir`, `file` | the temporary directory and `net.tsv` in it |

Each action is the code between two points at which another thread can meet
it; what runs under `NET_PROCESS_LOCK` is one action.  `Popen` makes the
process, `Register` makes it known, and everything may happen in between.
`ReadExcluded`, `RefreshParents`, `ListProcesses`, `LoadFile`, `Answer` are
the moments at which one sample looks at the system.  A PID found by
`ListProcesses` leaves `listed` when its process ends, because `linux_collect`
compares start times.  `Interrupt` is Ctrl+C with or without the collector in
the same terminal; `Killed` is a signal Python does not turn into an
exception.  `through` is history of the sample in progress, `escaped` of the
end.

### ProcScan

| model | code |
|---|---|
| `procs`, `sockets`, `Event` | the system: processes with start time, namespace, cgroup and descriptors, and what they do |
| `mode` | `"cgroup"`: `LoadSystemResolver`, `"host"`: `LoadResolver` |
| `todo`, `cur`, `links` | the rest of the `ReadDir`, the process looked at, its descriptors still to be read |
| `processes`, `owners` | `data.processes` with `data.cgroups`, `data.owners`, of all namespaces |
| `unread`, `entries` | namespaces still to come in the second loop, and the tables read |
| `StartTime`, `ReadNetNS`, `ReadCgroup`, `ListFds`, `Readlink` | the reads of a process, in the code's order; each finds whoever has the PID then |
| `NoStartTime`, `Unreadable`, `ReadlinkFails`, `NoTables` | the same reads failing, for a process that is gone or closed to the collector |
| `Resolves`, `Assigned` | `Resolver.Resolve`, `SystemResolver.Resolve` for the one flow there is |
| `Verified` | the comparison of start times in the snapshot |

`phase = "done"` is the moment of the snapshot: processes go on between the
last read and it.  Sockets differ in the key under which they fit the flow
(exact, then with wildcards), so `Resolve`'s order of keys is an order of
numbers.  A socket's inode is not used again during a scan.  `held` and
`steady` are history: who had which socket at some time of the scan, and who
could be seen to have it at all times.

### WorkloadMetadata

| model | code |
|---|---|
| `Facts`, `Fits` | what is true of a container and where it is written; which containers a part of an ID fits |
| `Endpoint` | the paths `DefaultRuntimeMetadataConfig` keeps: one for each socket, symbolic links followed |
| `catalog`, `fresh` | `RuntimeMetadataCache.catalog`, and the time left until `expires` |
| `call`, `answer`, `arrived` | each endpoint's goroutine in `loadCRIEndpoint`, and the channel `results` |
| `left` | the context's deadline, which the three calls of an endpoint share |
| `logs`, `published` | `loadContainerLogs`, `loadPodLogs`; the workloads of a snapshot |
| `LoadLogs`, `UseCache`, `BeginRefresh`, `ListContainers`, `DescribeContainers`, `MergeResult`, `LoadDocker`, `LoadOCI`, `Scan` | the steps of one snapshot |

A container's namespace and Pod are one field, because they come from the same
labels, sandboxes and log names.  `Said` is what one source makes of a
container, `MergeWorkload` and `AddItems` are `mergeWorkload` and
`mergeCatalogItem`, `FromPath` to `WorkloadForPath` are `workloadForPath`.
`ListPodSandbox` and `Version` are one action: nothing else of the program can
come between their answers, and the model chooses which of them fail.
`LoadLogs` reads any part of the two log directories, because the errors of
`os.ReadDir` are dropped (`cgroup.go` 340 and 352), at every snapshot.  `Fits`
is the comparison of beginnings in both directions (`runtime_metadata.go` 172,
`cgroup.go` 393); that no container's ID is a beginning of another's, as all
are of one length, is an assumption.

### Packets

| model | code |
|---|---|
| `frame`, `length` | the packet as it was sent, and the bytes of it in the ring |
| `at`, `offset`, `header` | where `ParsePacket` is, `offset`, and the loop's `i` |
| `touched` | history: the end of the bytes it has looked at |
| `Ethernet`, `Tag`, `EtherType`, `ParseIPv4`, `ParseIPv6`, `ParseExtension`, `ParsePorts` | one action for each header |
| `DirectionTX`, `AccountedFlow` | `directionTX` and the first half of `Account` |
| `Counted`, `KeyProtocol`, `KeyPorts`, `KeyFlow` | the headers in `count_packet`, and `flowFromBPFKey` |

Every header has its true size, so that an offset is right or wrong as in the
code.  Ports are the offset they were read at.

### SmonSession

| model | code |
|---|---|
| `mode` | `JSON_MODE`, and whether `SMON_NET_SNAPSHOT` was given; every combination is an initial state |
| `running`, `held` | the collectors this session has started, and `NET_COLLECTOR_PID` |
| `file`, `basedir` | the snapshot as `load_net_snapshot` would find it, and `$BASEDIR` |
| `started`, `alive` | the process with each PID, by its start time |
| `holders`, `open` | who has each connection open, and the bytes ss shows for it |
| `base`, `before`, `after` | `proc_base`, `net_bw` and the second `ss_bw` |
| `table`, `loaded` | `AF_START`, `AF_RX`, `AF_POD`, and whether the source is the snapshot |
| `shown`, `source` | the rows of the table or of the JSON answer, and where their bytes are from |
| `Spawn`, `KeepPid` | the fork and the assignment of `$!`, between which a signal may come |
| `Interrupt`, `Cleanup`, `Reap`, `Remove` | the two traps |

A process is its start time, the number it has among all that were started.
`Connect`, `Share`, `Send` and `Disconnect` are what processes do with
connections; `Share` is what a fork or a passed descriptor makes.  Bytes are
counted, never divided: what is shown must be a part of what the process has
sent.  `ss_bw` charges a connection to the first process of its line
(`Charged`; the order is that of `ss`, any but always the same), and keeps the
last line of a process with several (`Readings`: any of them).  `total`,
`shared`, `atBase` and `inGap` are history: what each process has sent, who has
had a connection with another process, the totals at the baseline, a signal
before the child's PID was kept.  What a command has read or shown is forgotten
once nothing looks at it again (`Forget`), until it is read anew.

What the collector writes is taken from elsewhere: of processes that have
shared no connection it tells no more than they sent, which is what `ProcScan`
and `Collector` show; of those that have, anything, since sharing across
namespaces is not recognised (`NeverGuesses`).  What `SnapshotFile` shows of
the four opens is taken as one read here.

## 3. Runs

| run | instance | what it shows |
|---|---|---|
| `flow` | 2 flows, 2 CPUs, lengths 1 and 2, 2 entries, 1 retry, 4 packets | `TypeOK`, `Accounting`, `NoOvercount`, `ExactWhileKept`, `ReadReturns`, `EventuallyDelivered` |
| `snapshot_file` | 3 windows, 2 starts | `TypeOK`, `LitterOnlyFromKills`, `OneSnapshotAfterWait`, `IsRegister` |
| `collector_rates` | 2 processes, 1 container, 2 flows, 3 packets, 2 snapshots, KB of 2 bytes | `TypeOK`, `BreakdownFits`, `CoverageOfOneSource` |
| `collector_loop` | 2 packets, 3 drops, 3 snapshots, counter wrapping at 2 | `EachPacketOnce`, `DropsReportedOnce`, `SnapshotEveryInterval` |
| `collector_mixed` | 1 process, 1 container | violates `CoverageAlways` |
| `webpanel_safety` | 2 PIDs | `TypeOK`, `OneCollector` |
| `webpanel_liveness` | 1 PID | `CrashRetried`, `NoneLeftBehind`, `StaleAdmitted` |
| `procscan` | 2 PIDs, 2 namespaces, 2 cgroups, 2 sockets, 1 key, 1 event besides exits | `TypeOK`, `NamesHolder`, `SharedSocketUnknown`, `ReusedPortUnknown`, `SoleOwnerFound` |
| `metadata` | 2 containers, 3 paths to 2 endpoints, catalog of 2 ticks, deadline of 1 tick | `TypeOK`, `AnswersMerged`, `NeverInvented`, `NamesKept`, `EventuallyNamed` |
| `packets` | 238 frames, cut off at every byte | `TypeOK`, `ReadsInBounds`, `PortsRight`, `SameFlow` |
| `session` | 2 PIDs (1 in a terminal), 2 processes, 1 connection, 1 byte | `TypeOK`, `BytesAreOwn`, `CollectorKept`, `ChildReplaced`, `SessionEnds` |
| `session_baseline` | 1 process, 1 connection | violates `SinceBaseline` |

Four more configurations are counterexamples on demand, for properties that
the modules state and no run asks for: `Collector_netns.cfg` with
`MCCollector`, `WebPanel_hidden.cfg` with `MCWebPanel`, `ProcScan_guess.cfg`
with `MCProcScan`, `SmonSession_shared.cfg` with `MCSmonSession`; see the
disagreements below.

### Why the bounds are enough

* `flow`: two flows with a map of two entries evict because an insertion may
  drop entries before the map is full; two CPUs are enough for both races,
  which are between one lookup and one other operation.  The packets suffice
  to insert, evict, re-create and add again, and to make a walk start again
  often enough for the first attempt and the last one to be aborted.  The
  second and third attempts of the code repeat the first; the theorems are
  about any number.
* `snapshot_file`: a load touches at most the four snapshots its opens meet;
  three windows and one restart make every pair differ that can.
* `collector_*`: 1 KB is two bytes, so that one packet is rounded away and two
  are not; the flow sizes put a flow below, at and above what the interface
  captured.
* `webpanel_*`: nothing else is bounded; crashes, restarts and samples go on
  for ever.  Two PIDs suffice for a collector and its successor under another
  PID, or beside another process.  `webpanel_liveness` has one, which a
  collector and its successors must share and which another process may take:
  it is the case in which a start is most often impossible.
* `procscan`: a PID is reused by an exit, which is not counted, and a fork by
  the other process; one more event between any two reads moves a process, a
  descriptor or a socket.  Two of each thing make every kind of ambiguity
  (two owners, two sockets, two namespaces of a cgroup).  More events, and
  more than one key, are covered by the theorems.
* `metadata`: the two containers differ in all that the sources can tell of
  them: one is known to two endpoints and an OCI file without labels, and its
  path has the Pod's UID; the other only to its Docker file, under an ID that
  fits both.  The first has a container log, which may be unread at any
  snapshot; a Pod's log directory is one more such source, left to the theorem.
  With an age of two ticks a catalog is used by one later snapshot and is then
  made anew; a call ends before or at its deadline.  Three paths give two endpoints for one daemon, whose results can come in either
  order, and one that is skipped.
* `packets`: each kind of header once and twice, chains of seven (the most that
  is parsed) and eight, every combination of the two fragment fields, both
  directions, headers that contradict the EtherType, and every length up to
  one byte past the ports.
* `session`: with two processes a PID is used twice, which is what the join can
  confuse, or two of them have a connection together or one after the other.
  Collectors, crashes, refreshes, and how often a connection is made, shared and
  closed are not bounded.  In a terminal, which reads again and again, both
  processes have the same PID (`InUse`), so that nothing is shared there; the
  commands are the same as for an answer.  Several connections of a process,
  and a third one beside two that share, are in the theorem.

### Fairness

* `FlowCounters`: weak fairness of `ReadStep`, the collector's goroutine: its
  system calls return.  Packets, errors and evictions are never forced.
* `Collector`: weak fairness of `LoopStep`: a read returns within the poll
  timeout (`OptPollTimeout`, `run_linux.go` 68).  Nothing forces the interval
  to end, the kernel to drop or the process to stop.
* `WebPanel`: weak fairness of the three threads (`SupStep`, `SamStep`,
  `MainStep`: no statement of theirs waits for ever, `collect` because of its
  timeout of 25 s, `communicate` only while the collector runs), of the clock
  (`FileAges`), and of `CollectorMustExit`: a collector that was signalled
  ends its loop (`netmon/run_linux.go` 89-111), and one without a directory
  fails in `CreateTemp` at its next snapshot (`netmon/snapshot.go` 12-17).
  Starts need not succeed and collectors need not crash; only the user ends
  the panel.
* `WorkloadMetadata`: weak fairness of `CollectorStep`, the goroutines of
  `Run`, whose calls end at the context's deadline (`runtime_metadata.go`
  214), taken as progress of the step and the calls; and of `Tick`, the time.
  Endpoints need not answer, and containers need not start or end.
* `SmonSession`: weak fairness of `ScriptStep` (commands return; `wait` is
  enabled only once the child has ended), of `CollectorWrites` for a JSON
  answer with its own collector (one that stays publishes), and of a
  collector's end once it was told, or finds its directory gone
  (`run_linux.go` 89-111, `snapshot.go` 12-17).  Nothing makes the user quit or
  a start succeed.
* `SnapshotFile`, `ProcScan` and `Packets` have safety properties only.

`CHECK_DEADLOCK FALSE` is used where the program stops for good: a closed
collector, a returned `Run`, a scan that was done, a session that has ended.

### Disagreements found

* `collector_mixed`: the window in which eBPF is lost is published without
  unknown traffic (`run_linux.go` 151), which reads as full coverage.
* `session_baseline`: with `SMON_NET_SNAPSHOT` set, `smon.sh` 445 takes no TCP
  baseline, but if the snapshot is missing or old, 493-494 and 521-522 fall
  back to TCP counters and subtract it: a connection's bytes since it was made
  are shown as a rate.  The comment at 447 says that the degraded mode needs
  the baseline.  The panel always sets the variable, so it shows this while
  its collector is gone.

These are shown by the configurations without a run:

* `Collector_netns.cfg` violates `UnreadableIsPartial`: errors of a namespace's
  socket tables never reach the caller (`cgroup.go` 206), although
  `run_linux.go` 141 has a text for them.
* `WebPanel_hidden.cfg` violates `AllProcessesListed`: the PIDs of ended
  collectors stay in `MONITOR_PIDS` (`web.py` 226), which hides a process that
  is given one, while `README.md` 185 speaks of all processes.
* `SmonSession_shared.cfg` violates `SharedNotGuessed`: the fallback charges a
  connection of several processes to the first one that `ss` names (`smon.sh`
  200), and when that one exits between the baseline and the second reading, to
  another one, with all its bytes since it was made; the start time that is
  compared (504) is that process's own.  `README.md` 212-214 lists shared sockets
  among those for which no PID is guessed.
* `ProcScan_guess.cfg` violates `NeverGuesses`: owners are kept per network
  namespace (`cgroup.go` 190), so a socket shared by processes of two
  namespaces has one owner in each, and the flow is assigned although
  `README.md` 212-214 says it is not.

More belong to the models without a configuration of their own.

* A partial walk can list a flow twice, with its bytes each time
  (`ebpf_linux.go` 110-114 and 125-142, after the iterator has started
  again): `NoOvercount` excepts such flows (`repeated`).
* `BPF_ANY` after a miss overwrites another CPU's new counter (`netmon.c` 93):
  `NoOvercount` holds regardless, `ExactWhileKept` excepts such flows
  (`raced`).
* A snapshot is opened four times in one load (`smon.sh` 345, 378, 397, 403),
  so the terminal and the panel may combine two: `OneSnapshotAfterWait` is
  about one-shot sessions only.
* After a crash the last snapshot is shown as good until it is older than
  `max_age` (`smon.sh` 361-367), while `README.md` 187 promises the reason of
  the degradation at once: `StaleAdmitted` says what holds.
* A collector restarted between `collect`'s look at `MONITOR_PIDS` (`web.py`
  262) and the listing in `smon.sh` is in one response.
* The names of a failing endpoint's containers are lost with the next refresh
  and stay lost for the 30 s the catalog is used (`runtime_metadata.go` 107
  and 134): `NamesKept` and `EventuallyNamed` say how far that goes.
* A log directory that cannot be read is taken for one without, or with fewer,
  entries, at every snapshot (`cgroup.go` 340 and 352): a container that has its
  Pod from there alone is published without it, and nothing is reported.
  `NamesKept` excepts it (`LogsUnread`), but not in a refresh that told the Pod.
* `scope` may be `pod` without a Pod's name, from the UID in the cgroup path
  alone (`cgroup.go` 382-384), while `README.md` 348 speaks of resolved Pod
  metadata: `PodScopeResolved` in `WorkloadMetadata` states it.
* A path that shows a part of a container's ID may find another container,
  while the first is in no source (`runtime_metadata.go` 172), or in the logs,
  whatever the sources say (`cgroup.go` 393): `NeverInvented` excepts both
  (`Mistakable`).
* The Pod of a row is looked up by PID, without the start time its bytes are
  checked for (`smon.sh` 515 and 1004): `PodsAreOwn` in `SmonSession` states
  it.
* `ss_bw` gives one line for each connection and the last one of a process
  counts (`smon.sh` 207, 493-494), so that the fallback may subtract one
  connection's bytes from another's; the run about `SinceBaseline` has one
  connection.
* A signal between the fork of the collector and the assignment of
  `NET_COLLECTOR_PID` (`smon.sh` 281-283) leaves it running for a moment:
  `CollectorKept` excepts it (`inGap`), and `SessionEnds` says that it ends.

## 4. Proofs

Every invariant and every action property that a passing run checks is also a
theorem; so is the refinement `IsRegister`.  What is left to TLC is liveness.
The assumptions on constants are ASSUMEs of the modelled modules, which TLC
evaluates in the runs.

| module | its run's properties, as theorems |
|---|---|
| `FlowCounters_proofs` | `TypeCorrect`, `LedgerBalances` (`Accounting`), `NeverOvercounts` (`NoOvercount`), `KeptFlowsExact` (`ExactWhileKept`) |
| `SnapshotFile_proofs` | `SnapshotFileTypes`, `NoLitterFromFailures` (`LitterOnlyFromKills`), `OnceSessionConsistent` (`OneSnapshotAfterWait`), `ImplementsRegister` (`IsRegister`) |
| `Collector_proofs` | `TypeCorrect`, `NothingCountedTwice` (`BreakdownFits`), `CoverageIsHonest` (`CoverageOfOneSource`), `PacketsCountedOnce` (`EachPacketOnce`), `DropsCountedOnce` (`DropsReportedOnce`) |
| `WebPanel_proofs` | `PanelTypes`, `NeverTwoCollectors` (`OneCollector`) |
| `ProcScan_proofs` | `TypeInvariant`, `PublishedHolder` (`NamesHolder`), `SharedUnknown` (`SharedSocketUnknown`), `ReusedUnknown` (`ReusedPortUnknown`), `OwnerFound` (`SoleOwnerFound`) |
| `WorkloadMetadata_proofs` | `MetadataTypeCorrect`, `NothingAnsweredIsLost` (`AnswersMerged`), `NoOtherNames` (`NeverInvented`), `NamesAreKept` (`NamesKept`) |
| `Packets_proofs` | `PacketTypeCorrect`, `ReadsStayInBounds` (`ReadsInBounds`), `PortsAreRight` (`PortsRight`), `FlowsAgree` (`SameFlow`) |
| `SmonSession_proofs` | `SessionTypeCorrect`, `NobodyElsesBytes` (`BytesAreOwn`), `OneChild` (`CollectorKept`) |

`FlowCounters_proofs`, from `FlowCountersAssumption` (at least one flow and
one entry, positive packet lengths):

* `TypeCorrect`: `Spec => []TypeOK`.
* `LedgerBalances`: `Spec => []Accounting`.  `NoOvercount` alone is not
  inductive: whether a read may return its result depends on what the walk
  has seen so far.  `Accounting` says, for each flow, that the bytes already
  returned plus what the next read would find stay below the bytes counted
  (`AccountedNow`), that the same holds once the walk in progress is returned
  as partial (`AccountedAfterWalk`), that a flow the walk has passed unseen
  has a counter made since, so that a complete walk may drop its baseline
  (`UnseenIsFresh`), and that the result has bytes only for flows that were
  seen.  One lemma per way a counter moves and per step of the walk.
* `NeverOvercounts`: `Spec => []NoOvercount`, from the ledger.
* `KeptFlowsExact`: `Spec => []ExactWhileKept`, with a strengthening `Exact`
  in which the same equation holds of the walk's copies.

`SnapshotFile_proofs`, from `SnapshotFileAssumption`:

* `SnapshotFileTypes`: `Spec => []TypeOK`.
* `ImplementsRegister`: `Spec => IsRegister`, by the invariant that the file
  is absent or whole (`WholeOrNone`) and the temporary is newer (`NewerTemp`).
* `NoLitterFromFailures`, `OnceSessionConsistent`.

`WebPanel_proofs`, from `WebPanelAssumption`:

* `PanelTypes`: `Spec => []TypeOK`, which says of the supervisor's variables
  how they hang together with its next statement.
* `NeverTwoCollectors`: `Spec => []OneCollector`.  A second collector could
  only come from `Popen`, at a statement where, by the invariant, no PID
  belongs to a first; that statement is reached only through `Communicate`,
  which waits.  The two facts are inductive together (`PanelInvariant`).

`ProcScan_proofs`, from `ProcScanAssumption`, for any processes, namespaces,
sockets and keys, and any number of events.  All of it rests on `Happens`:
what the scan can tell of an event is that a PID's start time stays, ends or
is later than all before, and that a socket that was made stays as it is.

* `TypeInvariant`: `Spec => []TypeOK`.
* `PublishedHolder`: `Spec => []NamesHolder`.  Descriptors are read after the
  start time and perhaps from another process.  But if the start time is still
  the PID's when the snapshot compares it, it was the PID's all the time
  between, because no start time comes back (`StartsPast`), so the descriptors
  were that process's (`OwnersHeld`).
* `SharedUnknown`: `Spec => []SharedSocketUnknown`.  Whoever can be seen to
  have a socket all along is still to come, is at its turn, or is recorded
  (`SeenInv`).
* `ReusedUnknown`: `Spec => []ReusedPortUnknown`.  A table has all lasting
  sockets of the namespace it shows, even if that is not the namespace it was
  read for (`TablesWhole`).
* `OwnerFound`: `Spec => []SoleOwnerFound`, where a scan during which nothing
  changed and nothing failed must not miss an owner.  `QuietInv` says that
  what has been read then is what is there now (`ReadStill`), that every
  descriptor kept is a holder's (`ReadHeld`), and that the tables read are
  whole (`ReadAll`); `SeenInv` gives that the owner has been recorded.

`Packets_proofs`, from `PacketsAssumption`, for any frames and any capture:

* `ReadsStayInBounds`: `Spec => []ReadsInBounds`.  Bytes are looked at only
  after the length was compared, but an offset may then be past the end, as
  headers say of their own size what they like; the invariant `Bounds` keeps
  the two apart.
* `ParserInvariant`: `Spec => []ParserInv`, in four parts.  `Place` says that
  the offset is where the header begins that the parser takes itself to be at,
  and that no header passed so far belongs to a later fragment; `Progress`,
  that the result has what was passed and no more; `Finds`, that the parser has
  not ended without ports that could be found.  `OnHeader` alone is not
  inductive: it says nothing of tags and IP headers, and nothing of fragments.
  An invariant about the end of the capture is not needed: that a header fits
  follows at each step from where the transport header is (`StartOf`).
* `PacketTypeCorrect`, `PortsAreRight`, `FlowsAgree`: `Spec => []TypeOK`,
  `[]PortsRight`, `[]SameFlow`, from it.  For the last one the direction comes
  from the MACs or, without them, from the addresses; that both agree with the
  hook the packet passed is what `PacketsAssumption` says of an interface's
  MAC and what `SameFlow` asks of its addresses.

`Collector_proofs`, from `CollectorAssumption`: finitely many processes,
containers and flows, with different names, and any sizes, unit and width of
the drop counter.

* `CollectorInvariant`: `Spec => []CollectorInv`.  That a snapshot fits is not
  inductive, as it depends on the window it is cut from: `WindowGiven` says
  that without eBPF what the window gives to owners and reasons adds up to
  what it captured; with eBPF, by `TypeOK`, it gives nothing.  The drops need one
  more number that no variable holds, the total at the last successful
  statistics call (`DropsUpTo`): the baseline is that number modulo the
  counter's width, and what was reported is at most it.
* `NothingCountedTwice`, `CoverageIsHonest`: each rate is rounded by itself,
  so these rest on `SumFunctionOnSet`: sums of disjoint parts, sums of rates
  against the rate of a sum, and the most that rounding can take away, which
  is less than one unit for each amount.
* `TypeCorrect`, `PacketsCountedOnce`, `DropsCountedOnce`.

`SmonSession_proofs`, from `SessionAssumption`, for any PIDs and connections
and any number of processes:

* `SessionInvariant`: `Spec => [](OwnInv /\ ChildInv)`.
* `NobodyElsesBytes`: `Spec => []BytesAreOwn`.  A row is one of three things
  on its way: in the file, in the table, shown; in each its bytes are bounded
  by what the process has sent (`RowsInv`), unless it has shared a connection,
  and whoever starts to share is excepted from then on.  Rows from `ss` are by
  PID alone; what makes them right is that a process that was listed and is
  still there was there when the connections were read (`ReadingInv`), and that
  one that has shared none is the only holder of its own (`HeldInv`), to whom
  alone `ss` can charge them.
* `OneChild`: `Spec => []CollectorKept`.  `ChildInv` says at each command what
  `NET_COLLECTOR_PID` knows of the child that runs, and that only a signal
  between fork and assignment makes it wrong, after which nothing is started.
* `SessionTypeCorrect`.

`WorkloadMetadata_proofs`, from `MetadataAssumption`, for any containers, IDs
that fit several of them, sockets, ages and deadline:

* `MetadataInvariant`: `Spec => []MetadataInv`.  During a refresh there is a
  set of endpoints whose results have been merged, no variable of the program,
  and the catalog has exactly what these and the files read so far have said
  (`MergedFrom`).  The order of merging cannot be seen in the result, because
  each item is known by which fields are known (`IsEntry`), and merging two
  items knows what either did (`NextItem`).
* `NothingAnsweredIsLost`: `Spec => []AnswersMerged`, when all have been merged.
* `NoOtherNames`: `Spec => []NeverInvented`: items of the catalog are facts of
  their own container (`CatalogKnown`), and lookups and logs by a part of an ID
  find another one only where `Mistakable` says so.
* `NamesAreKept`: `Spec => NamesKept`, about steps.  What was published knows no
  more of a container than all its sources do (`PublishedInv`), and after a
  refresh in which none of them failed the catalog knows that again; what only
  the logs know is there if they have been read.  The runtime, and names that
  the catalog has, do not depend on the logs (`RuntimeAtLeast`, `FoundAtLeast`).
* `MetadataTypeCorrect`.

The proof of `NoOtherNames` failed at first, for a good reason: the property
once excepted only containers that are not in the catalog.  But a log directory
is looked at by the path's ID whatever the catalog says (`cgroup.go` 392-397),
so a container that has no log may be named after a similar one that has; TLC
finds it when a container of the instance gets such a log.  The exception now
says so (`Mistakable`).  The proofs also asked for what the models had left
unsaid of their constants: that a runtime's socket serves its own containers
(`MetadataAssumption`), that only IPv6 has extension headers, and what a MAC
says of the direction (`PacketsAssumption`).

Induction.  The installed provers cannot instantiate the library's induction
theorems.  Where a proof needs induction over data, that is for the sums of
`Collector_proofs` and the header offsets of `Packets_proofs`, it takes a
minimal counterexample instead: of finitely many finite sets one is smallest
(`WFMin` with `FS_StrictSubsetOrderingWellFounded`; `MinimalSubset` and
`UpTo`).

Only model-checked: liveness, since fairness and ENABLED are beyond the prover
(`ReadReturns`, `EventuallyDelivered`, `SnapshotEveryInterval`,
`CrashRetried`, `NoneLeftBehind`, `StaleAdmitted`, `EventuallyNamed`,
`ChildReplaced`, `SessionEnds`), and the two properties that the code
violates in a run.

## 5. Plan

1. `FlowCounters`, `SnapshotFile`, `Collector` with runs and first proofs:
   done.
2. `WebPanel`: supervisor, sampler, shutdown: done.
3. `ProcScan`: the scan between forks, exits and reused PIDs: done.
4. `WorkloadMetadata`: ages, failing endpoints, order of merges: done.
5. `Packets`: both parsers, with a first theorem: done.
6. `SmonSession`: the collector as a child, the join, the cleanup: done.
7. Proofs of all invariants and action properties of the runs: done.
8. A composition of `Collector` and `FlowCounters` on bytes; the installer.

## 6. Not modelled

The host sampling and alerts of `smon.sh` (readings of /proc, rates of CPU and
disks, thresholds), which are arithmetic on texts with no step of another actor
in between but the end of a process, which `SmonSession` has; the installer,
whose steps follow one another and whose failures end it; the time between two
readings, by which rates are divided (`smon.sh` 519); in `SmonSession` a second
signal during the cleanup, `SIGKILL`, and the reuse of a collector's own PID.

The HTML and JavaScript of the panel, the text and layout of terminal and
JSON output, the paths for macOS (`smon.sh` falls back to `ps`),
`run_other.go`, the build, the release workflows and the tests.  A power
failure between `Sync` and the rename is left out: it is a matter of the file
system.
