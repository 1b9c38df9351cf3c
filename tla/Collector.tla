----------------------------- MODULE Collector -----------------------------
(***************************************************************************)
(* The loop of smon-net: Run (run_linux.go) reads packets into a window    *)
(* until the interval is over and then cuts a snapshot out of it, with the *)
(* arithmetic of aggregate.go that divides the window's bytes into         *)
(* processes, containers and reasons for not knowing.                      *)
(*                                                                         *)
(* Modelled: the two sources (eBPF counters next to AF_PACKET totals, and  *)
(* AF_PACKET alone), the one-way change from the first to the second, the  *)
(* errors of every call of the loop, the packet drops the kernel reports   *)
(* as one running total, exits of processes between capture and snapshot,  *)
(* and the rounding of every rate.                                         *)
(*                                                                         *)
(* Abstracted: what the resolvers answer for a packet or a flow is any     *)
(* answer they can give; an interval lasts one second, so that a rate is   *)
(* the bytes in whole units of Unit bytes (1024 in the code).              *)
(***************************************************************************)
EXTENDS Integers, FiniteSets, Functions

CONSTANTS Process,      \* processes that own sockets
          Container,    \* cgroups of containers
          NetNS,        \* network namespaces
          FlowKey,      \* keys of flows
          Size,         \* the packet lengths and flow sizes that occur
          Unit,         \* bytes in a KB
          DropModulus,  \* the kernel's drop counter wraps at this value (2^32)
          MaxPackets,   \* bound: packets in a behaviour
          MaxDrops,     \* bound: dropped packets in a behaviour
          MaxCuts       \* bound: snapshots in a behaviour

Dir == {"rx", "tx"}

\* Why traffic was not given to a process: what the resolvers answer, and what
\* the snapshot finds out itself.
Reason == {"unsupported", "unmatched", "ambiguous"}
Category == Reason \cup {"exited"}

\* The empty string, where there is no reason for a fallback.
NoReason == "none"

ASSUME CollectorAssumption ==
  /\ IsFiniteSet(Process) /\ IsFiniteSet(Container) /\ IsFiniteSet(FlowKey)
  /\ Process \cap Container = {} /\ (Process \cup Container) \cap Category = {}
  /\ Size \subseteq Nat \ {0}
  /\ Unit \in Nat \ {0} /\ DropModulus \in Nat \ {0}
  /\ {MaxPackets, MaxDrops, MaxCuts} \subseteq Nat

VARIABLES
  once,          \* cfg.Once
  pc,            \* "read", "check" or "stopped" (Run has returned)
  source,        \* "ebpf" while bpfCollector is not nil, else "af_packet"
  reason,        \* bpfFallbackReason: NoReason or why there is no eBPF
  window,        \* the Window being filled
  due,           \* the interval is over
  previousDrops, \* the drop total at the last successful SocketStats
  published,     \* the snapshot in the output file, with what it was made of
  cuts,          \* bound: snapshots so far
  received,      \* history: packets read
  dropped,       \* history: packets the kernel dropped
  reported       \* history: packets and drops in all snapshots together

vars == <<once, pc, source, reason, window, due, previousDrops, published,
          cuts, received, dropped, reported>>

-----------------------------------------------------------------------------
(* Traffic and rates.                                                      *)

NoTraffic == [d \in Dir |-> 0]

\* addDirection
Add(traffic, d, n) == [traffic EXCEPT ![d] = @ + n]

\* bytesPerSecondKB
Rate(bytes) == bytes \div Unit

\* What a table of traffic has in direction d, as bytes and as rates.
Amounts(table, d) == [x \in DOMAIN table |-> table[x][d]]
Rates(table, d) == [x \in DOMAIN table |-> Rate(table[x][d])]

Larger(a, b) == IF a > b THEN a ELSE b

Windows == [captured  : [Dir -> Nat], packets : Nat,
            unknown   : [Reason -> [Dir -> Nat]],
            processes : [Process -> [Dir -> Nat]]]

NewWindow == [captured |-> NoTraffic, packets |-> 0,
              unknown   |-> [r \in Reason |-> NoTraffic],
              processes |-> [p \in Process |-> NoTraffic]]

ObserveAsUnmatched(w, d, n) ==
  [w EXCEPT !.captured = Add(@, d, n), !.packets = @ + 1,
            !.unknown["unmatched"] = Add(@, d, n)]

\* Window.Observe: totals only, the eBPF counters know the rest.
Observe(w, d, n) == [w EXCEPT !.captured = Add(@, d, n), !.packets = @ + 1]

\* Window.Account: totals, and the owner or the reason the resolver gives.
Account(w, d, n, answer) ==
  LET seen == Observe(w, d, n) IN
  IF answer \in Reason
    THEN [seen EXCEPT !.unknown[answer] = Add(@, d, n)]
    ELSE [seen EXCEPT !.processes[answer] = Add(@, d, n)]

-----------------------------------------------------------------------------
(* Snapshots.  The fields after category are history: the rates and the    *)
(* bytes of the processes and containers listed, how many amounts of the   *)
(* unknown rate were rounded separately, the namespaces whose tables could *)
(* not be read, and whether the window was filled for the other source.    *)

\* Window.Snapshot, for the processes still there with the same start time,
\* and the fields Run fills in for a snapshot of version 2.
WindowSnapshot(w, alive, drops, why) ==
  LET gone == {p \in Process \ alive : w.processes[p] # NoTraffic}
      exited == [d \in Dir |-> SumFunctionOnSet(Rates(w.processes, d), gone)]
  IN [source |-> "af_packet_fallback", status |-> "partial", reason |-> why,
      packets |-> w.packets, drops |-> drops,
      captured |-> [d \in Dir |-> Rate(w.captured[d])],
      unknown  |-> [d \in Dir |-> Rate(SumFunctionOnSet(Amounts(w.unknown, d), Reason)) + exited[d]],
      category |-> [c \in Category |->
                      IF c = "exited" THEN exited
                      ELSE [d \in Dir |-> Rate(w.unknown[c][d])]],
      listed   |-> [d \in Dir |-> SumFunctionOnSet(Rates(w.processes, d), alive)],
      known    |-> [d \in Dir |-> SumFunctionOnSet(Amounts(w.processes, d), alive)],
      roundings |-> 1 + Cardinality(gone), unreadable |-> {}, mixed |-> FALSE]

\* Bytes of the flows in direction d that resolve to a member of S.
BytesTo(flows, S, d) ==
  SumFunctionOnSet([k \in DOMAIN flows |-> flows[k].bytes],
                   {k \in DOMAIN flows : flows[k].to \in S /\ flows[k].dir = d})

TotalOfCapture(captured, bpf) == captured

\* What the snapshot calls captured: packets on the interface, or the flows of
\* the cgroups when they carry more (they see every interface).
TotalOf(captured, bpf) == Larger(captured, bpf)

NoResidual(captured, bpf) == 0

\* What the interface carried beyond the flows of the cgroups.
Residual(captured, bpf) == Larger(captured - bpf, 0)

\* SnapshotCgroupFlows: the flows divided among processes still there,
\* containers and reasons; what the interface saw beyond them is unmatched.
CgroupSnapshot(w, flows, alive, drops) ==
  LET gone == Process \ alive
      known    == [d \in Dir |-> BytesTo(flows, alive \cup Container, d)]
      explicit == [d \in Dir |-> BytesTo(flows, gone \cup Reason, d)]
      residual == [d \in Dir |-> Residual(w.captured[d], known[d] + explicit[d])]
      ratesTo == [x \in alive \cup Container \cup Reason |->
                    [d \in Dir |-> Rate(BytesTo(flows, {x}, d))]]
  IN [source |-> "ebpf_cgroup", status |-> "ok", reason |-> NoReason,
      packets |-> w.packets, drops |-> drops,
      captured |-> [d \in Dir |-> Rate(TotalOf(w.captured[d], known[d] + explicit[d]))],
      unknown  |-> [d \in Dir |-> Rate(explicit[d] + residual[d])],
      category |-> [c \in Category |-> [d \in Dir |->
                      CASE c = "exited"    -> Rate(BytesTo(flows, gone, d))
                        [] c = "unmatched" -> ratesTo[c][d] + Rate(residual[d])
                        [] OTHER           -> ratesTo[c][d]]],
      listed   |-> [d \in Dir |-> SumFunctionOnSet(Amounts(ratesTo, d), alive \cup Container)],
      known    |-> known,
      roundings |-> 1, unreadable |-> {}, mixed |-> FALSE]

Flow == [to : Process \cup Container \cup Reason, dir : Dir, bytes : Size]

\* What one read of the counters returns, a record for each of its keys.
FlowSets == UNION {[keys -> Flow] : keys \in SUBSET FlowKey}

\* LoadSystemResolver returns an error beside a resolver when there are errors
\* and no cgroup at all; every namespace it lists has a cgroup.
ResolverError(namespaces, unreadable) == namespaces = {} /\ unreadable # {}

-----------------------------------------------------------------------------
(* The loop.                                                               *)

\* The calls before the loop: OpenEBPFCollector may fail, with a reason.
Init ==
  /\ once \in BOOLEAN
  /\ pc = "read"
  /\ \/ source = "ebpf" /\ reason = NoReason
     \/ source = "af_packet" /\ reason = "ebpf unavailable"
  /\ window = NewWindow
  /\ due = FALSE
  /\ previousDrops = 0
  /\ published = [source |-> "none"]
  /\ cuts = 0 /\ received = 0 /\ dropped = 0
  /\ reported = [packets |-> 0, drops |-> 0]

\* Time passes: the deadline is reached.
IntervalOver ==
  /\ ~due /\ cuts < MaxCuts
  /\ due' = TRUE
  /\ UNCHANGED <<once, pc, source, reason, window, previousDrops, published,
                 cuts, received, dropped, reported>>

\* The kernel's ring is full.
KernelDrops ==
  /\ dropped < MaxDrops
  /\ dropped' = dropped + 1
  /\ UNCHANGED <<once, pc, source, reason, window, due, previousDrops, published,
                 cuts, received, reported>>

ReadPacket ==
  /\ pc = "read" /\ received < MaxPackets
  /\ received' = received + 1
  /\ \E d \in Dir, n \in Size :
       IF source = "ebpf"
         THEN window' = Observe(window, d, n)
         ELSE \E answer \in Process \cup Reason :
                window' = Account(window, d, n, answer)
  /\ pc' = "check"
  /\ UNCHANGED <<once, source, reason, due, previousDrops, published, cuts,
                 dropped, reported>>

\* The handler of a read without a packet.
TimedOutStuck == pc' = "read"

\* No packet for the poll timeout: the deadline is looked at all the same.
TimedOut == pc' = "check"

ReadTimeout ==
  /\ pc = "read"
  /\ TimedOut
  /\ UNCHANGED <<once, source, reason, window, due, previousDrops, published,
                 cuts, received, dropped, reported>>

\* The context is cancelled, or the capture fails: Run returns.
Stop ==
  /\ pc = "read"
  /\ pc' = "stopped"
  /\ UNCHANGED <<once, source, reason, window, due, previousDrops, published,
                 cuts, received, dropped, reported>>

NotYet ==
  /\ pc = "check" /\ ~due
  /\ pc' = "read"
  /\ UNCHANGED <<once, source, reason, window, due, previousDrops, published,
                 cuts, received, dropped, reported>>

SameWindow == window

\* The window of the next interval.
NextWindow == NewWindow

\* SocketStats: the drops since the last successful call, and the total to
\* compare with next time.  A total below the last one has wrapped.
DropsNow(ok) ==
  LET total == dropped % DropModulus IN
  IF ok /\ total >= previousDrops THEN total - previousDrops ELSE 0

BaselineForgotten(ok) == IF ok THEN dropped % DropModulus ELSE 0

DropBaseline(ok) == IF ok THEN dropped % DropModulus ELSE previousDrops

\* The end of a cut: WriteSnapshot, then the next window or the return of
\* --once; when writing fails Run returns and the output is as it was.
Write(s) ==
  \/ /\ published' = s
     /\ cuts' = cuts + 1
     /\ reported' = [packets |-> reported.packets + s.packets,
                     drops   |-> reported.drops + s.drops]
     /\ window' = NextWindow
     /\ due' = FALSE
     /\ pc' = IF once THEN "stopped" ELSE "read"
  \/ /\ pc' = "stopped"
     /\ UNCHANGED <<published, cuts, reported, window, due>>

Marked(s, complete, resolverError) ==
  IF ~complete THEN [s EXCEPT !.status = "partial", !.reason = "walk aborted"]
  ELSE IF resolverError
    THEN [s EXCEPT !.status = "partial", !.reason = "namespace unreadable"]
  ELSE s

\* With eBPF: ReadDeltas and LoadSystemResolver.  A complete or a partial read
\* with a resolver makes an eBPF snapshot.
CutFromFlows ==
  /\ pc = "check" /\ due /\ source = "ebpf"
  /\ \E stats \in BOOLEAN :
       /\ \E s \in {CgroupSnapshot(window, flows, alive, DropsNow(stats)) :
                   flows \in FlowSets, alive \in SUBSET Process},
             complete \in BOOLEAN, namespaces \in SUBSET NetNS :
            \E unreadable \in SUBSET namespaces :
              Write([Marked(s, complete, ResolverError(namespaces, unreadable))
                       EXCEPT !.unreadable = unreadable])
       /\ previousDrops' = DropBaseline(stats)
  /\ UNCHANGED <<once, source, reason, received, dropped>>

\* Any other error of ReadDeltas, or no resolver: eBPF is closed for good, and
\* this window, which has totals only, becomes an AF_PACKET snapshot.
CutLosingEbpf ==
  /\ pc = "check" /\ due /\ source = "ebpf"
  /\ source' = "af_packet"
  /\ reason' = "ebpf failed"
  /\ \E stats \in BOOLEAN, alive \in SUBSET Process :
       /\ LET s == WindowSnapshot(window, alive, DropsNow(stats), reason')
          IN Write([s EXCEPT !.mixed = TRUE])
       /\ previousDrops' = DropBaseline(stats)
  /\ UNCHANGED <<once, received, dropped>>

CutFromWindow ==
  /\ pc = "check" /\ due /\ source = "af_packet"
  /\ \E stats \in BOOLEAN, alive \in SUBSET Process :
       /\ Write(WindowSnapshot(window, alive, DropsNow(stats), reason))
       /\ previousDrops' = DropBaseline(stats)
  /\ UNCHANGED <<once, source, reason, received, dropped>>

LoopStep == \/ ReadPacket \/ ReadTimeout \/ NotYet
            \/ CutFromFlows \/ CutLosingEbpf \/ CutFromWindow

Next == IntervalOver \/ KernelDrops \/ LoopStep \/ Stop

\* The goroutine keeps running: reads return within the poll timeout.  Nothing
\* makes the interval end, the kernel drop or the process stop.
Spec == Init /\ [][Next]_vars /\ WF_vars(LoopStep)
-----------------------------------------------------------------------------
\* Every variable has its type; a window made for eBPF knows no owners.
TypeOK ==
  /\ once \in BOOLEAN
  /\ pc \in {"read", "check", "stopped"}
  /\ source \in {"ebpf", "af_packet"}
  /\ (source = "ebpf") <=> (reason = NoReason)
  /\ window \in Windows
  /\ source = "ebpf" => /\ window.unknown = NewWindow.unknown
                        /\ window.processes = NewWindow.processes
  /\ due \in BOOLEAN
  /\ previousDrops \in 0..(DropModulus - 1)
  /\ {cuts, received, dropped} \subseteq Nat

\* No rate is counted in two places: the rates of processes,
\* containers and categories fit together into the captured rate, and the
\* categories into the unknown rate, in each direction.
Fits(s) ==
  \A d \in Dir :
    LET categories == SumFunctionOnSet(Amounts(s.category, d), Category) IN
    /\ categories <= s.unknown[d]
    /\ s.unknown[d] <= s.captured[d]
    /\ s.listed[d] + categories <= s.captured[d]

\* Every published snapshot divides what was captured.
BreakdownFits == cuts > 0 => Fits(published)

\* The consumer takes captured minus unknown for attributed: that is, up to the
\* rounding, the bytes given to the processes and containers listed.
Attributed(s, d) == s.captured[d] - s.unknown[d]

HonestCoverage(s) ==
  \A d \in Dir :
    /\ Attributed(s, d) * Unit <= s.known[d] + s.roundings * (Unit - 1)
    /\ s.known[d] <= Attributed(s, d) * Unit + (Unit - 1)

\* Coverage is honest in every snapshot whose window was filled for the source
\* the snapshot is made from.
CoverageOfOneSource ==
  cuts > 0 /\ ~published.mixed => HonestCoverage(published)

\* What the README says of the coverage: it is computed from what was attributed
\* and what is unknown, and what was not measured is never shown as known.
CoverageAlways == cuts > 0 => HonestCoverage(published)

\* Every packet read is in exactly one snapshot or in the window being filled.
EachPacketOnce ==
  pc # "stopped" => reported.packets + window.packets = received

\* Drops are reported once, through failing statistics calls and a wrapped
\* counter: never more than happened, and while the counter has not wrapped
\* exactly those up to the last successful call.
DropsReportedOnce ==
  /\ reported.drops <= dropped
  /\ (dropped < DropModulus /\ pc # "stopped") => reported.drops = previousDrops

\* The end of an interval is followed by a snapshot, packets or not, unless the
\* loop ends.
SnapshotEveryInterval == due ~> (~due \/ pc = "stopped")

\* What the reason in Run says: a snapshot made without the sockets of some
\* namespace is marked partial.
UnreadableIsPartial ==
  cuts > 0 /\ published.unreadable # {} => published.status = "partial"
=============================================================================
