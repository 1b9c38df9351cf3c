--------------------------- MODULE FlowCounters ---------------------------
(***************************************************************************)
(* The per-flow byte counters of smon-net: the cgroup_skb programs of      *)
(* bpf/netmon.c add packet lengths to an LRU hash map, one counter per     *)
(* flow, and EBPFCollector.ReadDeltas (ebpf_linux.go) walks that map every *)
(* interval and turns the counters into "bytes since the last read".       *)
(*                                                                         *)
(* Modelled: the two map operations of count_packet as separate steps of   *)
(* any number of CPUs, the eviction an insertion may cause, the pointer a  *)
(* CPU still holds to an evicted entry, the walk as the sequence of        *)
(* NextKey and Lookup system calls it is, its restart when the key under   *)
(* the cursor is gone, the entry limit that aborts it, the retries, the    *)
(* complete and the partial result, and the error that closes the          *)
(* collector.                                                              *)
(*                                                                         *)
(* Abstracted: a flow key is a number, and the map lists its keys in       *)
(* increasing order (the hash table has at least as many buckets as        *)
(* entries; keys sharing a bucket are not told apart).  A key that         *)
(* flowFromBPFKey refuses does not exist: the programs write families 2    *)
(* and 10 only.  Counters do not wrap (64 bits).                           *)
(***************************************************************************)
EXTENDS Integers, FiniteSets

CONSTANTS NKeys,       \* how many different flows there are
          CPU,         \* the CPUs that run count_packet
          PacketLen,   \* the packet lengths that occur
          MaxEntries,  \* max_entries of the map (65536 in the code)
          MaxAttempts, \* maxAttempts of ReadDeltas (3 in the code)
          MaxPackets   \* bound: packets in a behaviour

ASSUME FlowCountersAssumption ==
  /\ NKeys \in Nat \ {0}
  /\ PacketLen \subseteq Nat \ {0}
  /\ MaxEntries \in Nat \ {0}
  /\ MaxAttempts \in Nat
  /\ MaxPackets \in Nat

Key == 1..NKeys

NoKey == 0   \* the iterator's nil cursor

VARIABLES
  flows,     \* the BPF map: the counter of each key, 0 when the key is absent
  cpu,       \* what each CPU is doing in count_packet
  previous,  \* EBPFCollector.previous, 0 when the key has no baseline
  reader,    \* where ReadDeltas stands: "idle", "walking", or "closed"
  walk,      \* the walk of readDeltasOnce in progress
  packets,   \* bound: packets so far
  \* History: what the properties are stated about; no action reads them.
  counted,   \* bytes added to each key's counter
  delivered, \* bytes ReadDeltas returned for each key
  repeated,  \* keys that one returned result lists twice
  evicted,   \* keys the LRU has dropped at least once
  raced      \* keys whose new counter replaced a counter just created

kernel  == <<flows, cpu, packets, counted, evicted, raced>>
vars    == <<flows, cpu, previous, reader, walk, packets,
             counted, delivered, repeated, evicted, raced>>

Present == {k \in Key : flows[k] # 0}

Zero == [k \in Key |-> 0]

-----------------------------------------------------------------------------
(* count_packet: what the cgroup programs do for one packet.               *)

Idle == [pc |-> "idle"]

\* bpf_map_lookup_elem: the CPU comes back with a pointer to the counter, or
\* with nothing.
LookupElem(c, k, len) ==
  /\ cpu[c].pc = "idle"
  /\ reader # "closed"
  /\ packets < MaxPackets
  /\ packets' = packets + 1
  /\ cpu' = [cpu EXCEPT ![c] =
               [pc    |-> IF k \in Present THEN "add" ELSE "insert",
                key   |-> k, len |-> len, stale |-> FALSE]]
  /\ UNCHANGED <<flows, previous, reader, walk,
                 counted, delivered, repeated, evicted, raced>>

\* __sync_fetch_and_add through the pointer.  When the entry has been dropped
\* or replaced since the lookup, its memory is free or belongs to the entry
\* that was created next: the addition is lost or lands in another counter.
FetchAndAdd(c) ==
  /\ cpu[c].pc = "add"
  /\ \/ \E k \in (IF cpu[c].stale THEN Present ELSE {cpu[c].key}) :
          /\ flows'   = [flows EXCEPT ![k] = @ + cpu[c].len]
          /\ counted' = [counted EXCEPT ![k] = @ + cpu[c].len]
     \/ /\ cpu[c].stale
        /\ UNCHANGED <<flows, counted>>
  /\ cpu' = [cpu EXCEPT ![c] = Idle]
  /\ UNCHANGED <<previous, reader, walk, packets,
                 delivered, repeated, evicted, raced>>

\* bpf_map_update_elem with BPF_ANY: a fresh entry takes the key, whatever
\* another CPU has put there since the lookup.  Its allocation may drop
\* entries of other keys, and must when the map is full.
UpdateElem(c) ==
  /\ cpu[c].pc = "insert"
  /\ LET k == cpu[c].key IN
     \E dropped \in SUBSET (Present \ {k}) :
       /\ Cardinality((Present \cup {k}) \ dropped) <= MaxEntries
       /\ flows'   = [x \in Key |-> IF x = k THEN cpu[c].len
                                    ELSE IF x \in dropped THEN 0 ELSE flows[x]]
       /\ counted' = [counted EXCEPT ![k] = @ + cpu[c].len]
       /\ evicted' = evicted \cup dropped
       /\ raced'   = raced \cup ({k} \cap Present)
       /\ cpu' = [d \in CPU |->
                    IF d = c THEN Idle
                    ELSE IF cpu[d].pc = "add" /\ cpu[d].key \in dropped \cup {k}
                         THEN [cpu[d] EXCEPT !.stale = TRUE]
                         ELSE cpu[d]]
  /\ UNCHANGED <<previous, reader, walk, packets, delivered, repeated>>

CountPacket ==
  \E c \in CPU : \/ \E k \in Key, len \in PacketLen : LookupElem(c, k, len)
                 \/ FetchAndAdd(c)
                 \/ UpdateElem(c)

-----------------------------------------------------------------------------
(* ReadDeltas and readDeltasOnce.                                          *)

\* The iterator and the locals of readDeltasOnce: result is kept as the bytes
\* it holds for each key, twice as the keys that occur in it more than once.
StartWalk(attempt) ==
  [attempt |-> attempt, stage |-> "next", cursor |-> NoKey, count |-> 0,
   current |-> Zero, result |-> Zero, twice |-> {}]

DeltaNoReset(value, baseline) == value - baseline

\* Bytes since the last read: a counter below its baseline is a new one.
Delta(value, baseline) == IF value < baseline THEN value ELSE value - baseline

\* The key after the cursor.  The kernel starts again from its first key when
\* it does not find the one under the cursor.
Successors == IF walk.cursor \in Present
                THEN {k \in Present : k > walk.cursor} ELSE Present

BeginRead ==
  /\ reader = "idle"
  /\ reader' = "walking"
  /\ walk' = StartWalk(0)
  /\ UNCHANGED <<kernel, previous, delivered, repeated>>

NextKey ==
  /\ reader = "walking" /\ walk.stage = "next"
  /\ walk.count <= MaxEntries
  /\ \E k \in Successors :
       /\ \A other \in Successors : k <= other
       /\ walk' = [walk EXCEPT !.stage = "lookup", !.cursor = k,
                               !.count = @ + 1]
  /\ UNCHANGED <<kernel, previous, reader, delivered, repeated>>

\* The body of the loop for a key whose value was read.
Record(k) ==
  LET d == Delta(flows[k], previous[k]) IN
  [walk EXCEPT !.stage = "next",
               !.current[k] = flows[k],
               !.result[k] = @ + d,
               !.twice = IF walk.current[k] # 0 THEN @ \cup {k} ELSE @]

SkipMissingStuck == walk

\* A key dropped since NextKey has no value: the iterator goes on with NextKey.
SkipMissing == [walk EXCEPT !.stage = "next"]

Lookup ==
  /\ reader = "walking" /\ walk.stage = "lookup"
  /\ walk' = IF walk.cursor \in Present THEN Record(walk.cursor) ELSE SkipMissing
  /\ UNCHANGED <<kernel, previous, reader, delivered, repeated>>

ReturnKeepingBaselines(baselines) ==
  /\ reader' = "idle"
  /\ delivered' = [k \in Key |-> delivered[k] + walk.result[k]]
  /\ repeated' = repeated \cup walk.twice
  /\ walk' = StartWalk(0)
  /\ UNCHANGED <<kernel, previous>>

\* ReadDeltas returns the walk's result, and the caller publishes it.
Return(baselines) ==
  /\ reader' = "idle"
  /\ previous' = baselines
  /\ delivered' = [k \in Key |-> delivered[k] + walk.result[k]]
  /\ repeated' = repeated \cup walk.twice
  /\ walk' = StartWalk(0)
  /\ UNCHANGED kernel

MergedNothing == previous

\* The baselines after a partial walk: only the keys it saw move.
Merged == [k \in Key |-> IF walk.current[k] # 0 THEN walk.current[k]
                                                ELSE previous[k]]

WalkComplete ==
  /\ reader = "walking" /\ walk.stage = "next"
  /\ walk.count <= MaxEntries
  /\ Successors = {}
  /\ Return(walk.current)

Aborted == /\ reader = "walking" /\ walk.stage = "next"
           /\ walk.count > MaxEntries

RetryMovingBaselines ==
  /\ Aborted /\ walk.attempt < MaxAttempts
  /\ walk' = StartWalk(walk.attempt + 1)
  /\ previous' = Merged
  /\ UNCHANGED <<kernel, reader, delivered, repeated>>

\* ErrIterationAborted within the first attempts: nothing of the walk is kept.
RetryWalk ==
  /\ Aborted /\ walk.attempt < MaxAttempts
  /\ walk' = StartWalk(walk.attempt + 1)
  /\ UNCHANGED <<kernel, previous, reader, delivered, repeated>>

\* The last attempt was aborted as well: its result is returned as partial.
WalkPartial ==
  /\ Aborted /\ walk.attempt = MaxAttempts
  /\ Return(Merged)

\* Any other error of the two system calls: the caller closes the collector
\* and never reads again.
ReadFails ==
  /\ reader = "walking"
  /\ walk.stage = "lookup" \/ walk.count <= MaxEntries
  /\ reader' = "closed"
  /\ walk' = StartWalk(0)
  /\ UNCHANGED <<kernel, previous, delivered, repeated>>

ReadStep == \/ BeginRead \/ NextKey \/ Lookup
            \/ WalkComplete \/ RetryWalk \/ WalkPartial

-----------------------------------------------------------------------------
Init ==
  /\ flows = Zero
  /\ cpu = [c \in CPU |-> Idle]
  /\ previous = Zero
  /\ reader = "idle"
  /\ walk = StartWalk(0)
  /\ packets = 0
  /\ counted = Zero
  /\ delivered = Zero
  /\ repeated = {}
  /\ evicted = {}
  /\ raced = {}

Next == CountPacket \/ ReadStep \/ ReadFails

\* The collector's goroutine keeps running; packets come as they please, and
\* errors are the kernel's choice.
Spec == Init /\ [][Next]_vars /\ WF_vars(ReadStep)

-----------------------------------------------------------------------------
Busy == [pc : {"add", "insert"}, key : Key, len : PacketLen, stale : BOOLEAN]

Walk == [attempt : 0..MaxAttempts, stage : {"next", "lookup"},
         cursor : Key \cup {NoKey}, count : 0..(MaxEntries + 1),
         current : [Key -> Nat], result : [Key -> Nat], twice : SUBSET Key]

\* Every variable has its type; in particular the iterator never makes more
\* than max_entries + 1 successful NextKey calls, nor ReadDeltas more than
\* maxAttempts + 1 walks.
TypeOK ==
  /\ flows \in [Key -> Nat]
  /\ cpu \in [CPU -> Busy \cup {Idle}]
  /\ previous \in [Key -> Nat]
  /\ reader \in {"idle", "walking", "closed"}
  /\ walk \in Walk
  /\ packets \in Nat
  /\ counted \in [Key -> Nat]
  /\ delivered \in [Key -> Nat]
  /\ repeated \subseteq Key
  /\ evicted \subseteq Key
  /\ raced \subseteq Key

\* The accounting that makes the two invariants below inductive.  Of a flow
\* that no returned result lists twice:
\* what was returned and what a read would find now is at most what was counted;
AccountedNow ==
  \A k \in Key \ repeated :
    delivered[k] + Delta(flows[k], previous[k]) <= counted[k]

\* the same once the walk in progress has been returned as partial;
AccountedAfterWalk ==
  \A k \in Key \ (repeated \cup walk.twice) :
    delivered[k] + walk.result[k] + Delta(flows[k], Merged[k]) <= counted[k]

\* a flow the walk has passed without seeing it has a counter created since,
\* so that a complete walk may forget its baseline;
UnseenIsFresh ==
  \A k \in Key \ repeated :
    /\ walk.current[k] = 0
    /\ k < walk.cursor \/ (k = walk.cursor /\ walk.stage = "next")
    => delivered[k] + flows[k] <= counted[k]

\* and the result has bytes only for flows the walk has seen.
UnseenHasNoResult == \A k \in Key : walk.current[k] = 0 => walk.result[k] = 0

\* Between them: the ledger of counted and returned bytes balances at every
\* step of a walk, for every way the walk may end.
Accounting == /\ AccountedNow
              /\ AccountedAfterWalk
              /\ UnseenIsFresh
              /\ UnseenHasNoResult

\* The bytes ReadDeltas has returned for a flow never exceed the bytes counted
\* for it, through evictions, re-created counters, aborted and partial walks,
\* as long as no returned walk met the flow twice.
NoOvercount == \A k \in Key \ repeated : delivered[k] <= counted[k]

\* A flow whose counter was never dropped nor replaced is accounted exactly:
\* what was returned plus what the next read will find is what was counted.
\* Discarded attempts and partial walks in between lose and repeat nothing.
ExactWhileKept ==
  \A k \in Key \ (repeated \cup evicted \cup raced) :
    delivered[k] + Delta(flows[k], previous[k]) = counted[k]

\* ReadDeltas returns: the retries and the iterator's entry limit bound it,
\* whatever the CPUs do to the map meanwhile.
ReadReturns == (reader = "walking") ~> (reader # "walking")

\* Once packets stop, the bytes of every flow that was kept are returned, or
\* the collector was closed.
EventuallyDelivered ==
  \/ <>(reader = "closed")
  \/ <>[](\A k \in Key \ (repeated \cup evicted \cup raced) :
            delivered[k] = counted[k])
=============================================================================
