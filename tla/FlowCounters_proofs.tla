------------------------ MODULE FlowCounters_proofs ------------------------
(***************************************************************************)
(* What FlowCounters keeps for every number of flows, CPUs, entries and    *)
(* attempts: the types, and that no byte is returned which was not counted *)
(* as long as no returned walk met the flow twice.                         *)
(***************************************************************************)
EXTENDS FlowCounters, TLAPS

\* A counter that grew by at most n since it was compared with its baseline
\* shows at most n more bytes; a fresh counter shows at most itself.
LEMMA DeltaBounds ==
  ASSUME NEW v \in Nat, NEW p \in Nat
  PROVE  /\ Delta(v, p) \in Nat
         /\ Delta(v, p) <= v
         /\ Delta(v, v) = 0
         /\ Delta(v, 0) = v
         /\ Delta(0, p) = 0
         /\ \A n \in Nat : Delta(v + n, p) <= Delta(v, p) + n
  BY DEF Delta

\* The fresh walk of an idle reader is a walk.
LEMMA StartWalkType ==
  ASSUME NEW a \in 0..MaxAttempts
  PROVE  StartWalk(a) \in Walk
  BY FlowCountersAssumption DEF StartWalk, Walk, Zero, NoKey, Key

-----------------------------------------------------------------------------
(* Types.                                                                  *)

\* One step of a CPU keeps the types.
LEMMA CountPacketType == TypeOK /\ CountPacket => TypeOK'
<1> SUFFICES ASSUME TypeOK, CountPacket PROVE TypeOK'
  OBVIOUS
<1> USE FlowCountersAssumption
<1>1. ASSUME NEW c \in CPU, NEW k \in Key, NEW len \in PacketLen,
             LookupElem(c, k, len)
      PROVE  TypeOK'
  <2>1. [pc |-> IF k \in Present THEN "add" ELSE "insert",
         key |-> k, len |-> len, stale |-> FALSE] \in Busy
    BY DEF Busy
  <2>2. cpu' \in [CPU -> Busy \cup {Idle}]
    BY <1>1, <2>1 DEF LookupElem, TypeOK
  <2> QED BY <1>1, <2>2 DEF LookupElem, TypeOK
<1>2. ASSUME NEW c \in CPU, FetchAndAdd(c) PROVE TypeOK'
  <2>1. cpu[c] \in Busy
    BY <1>2 DEF FetchAndAdd, TypeOK, Idle
  <2>2. cpu[c].len \in Nat /\ cpu[c].key \in Key
    BY <2>1 DEF Busy
  <2>3. cpu' \in [CPU -> Busy \cup {Idle}]
    BY <1>2 DEF FetchAndAdd, TypeOK
  <2>4. flows' \in [Key -> Nat] /\ counted' \in [Key -> Nat]
    BY <1>2, <2>2 DEF FetchAndAdd, TypeOK, Present
  <2> QED BY <1>2, <2>3, <2>4 DEF FetchAndAdd, TypeOK
<1>3. ASSUME NEW c \in CPU, UpdateElem(c) PROVE TypeOK'
  <2>1. cpu[c] \in Busy
    BY <1>3 DEF UpdateElem, TypeOK, Idle
  <2>2. cpu[c].len \in Nat /\ cpu[c].key \in Key
    BY <2>1 DEF Busy
  <2>3. cpu' \in [CPU -> Busy \cup {Idle}]
    <3> SUFFICES ASSUME NEW d \in CPU, cpu[d].pc = "add"
                 PROVE  [cpu[d] EXCEPT !.stale = TRUE] \in Busy
      BY <1>3 DEF UpdateElem, TypeOK
    <3>1. cpu[d] \in Busy
      BY DEF TypeOK, Idle
    <3>2. PICK b \in Busy : b = cpu[d]
      BY <3>1
    <3> QED BY <3>2 DEF Busy
  <2>4. flows' \in [Key -> Nat] /\ counted' \in [Key -> Nat]
    BY <1>3, <2>2 DEF UpdateElem, TypeOK
  <2>5. evicted' \subseteq Key /\ raced' \subseteq Key
    <3>1. cpu[c].key \in Key
      BY <2>2
    <3> QED BY <1>3, <3>1 DEF UpdateElem, TypeOK, Present
  <2> QED BY <1>3, <2>3, <2>4, <2>5 DEF UpdateElem, TypeOK
<1> QED BY <1>1, <1>2, <1>3 DEF CountPacket

\* What the walk may become keeps its type.
LEMMA RecordType ==
  ASSUME TypeOK, NEW k \in Key
  PROVE  Record(k) \in Walk
<1>1. Delta(flows[k], previous[k]) \in Nat
  BY DeltaBounds DEF TypeOK
<1>2. PICK w \in Walk : w = walk
  BY DEF TypeOK
<1>3. flows[k] \in Nat
  BY DEF TypeOK
<1> DEFINE c == [w.current EXCEPT ![k] = flows[k]]
           r == [w.result EXCEPT ![k] = @ + Delta(flows[k], previous[k])]
           t == IF w.current[k] # 0 THEN w.twice \cup {k} ELSE w.twice
<1>4. c \in [Key -> Nat] /\ r \in [Key -> Nat] /\ t \in SUBSET Key
  BY <1>1, <1>2, <1>3 DEF Walk
<1>5. Record(k) = [w EXCEPT !.stage = "next", !.current = c, !.result = r,
                            !.twice = t]
  BY <1>2 DEF Record, Walk
<1> HIDE DEF c, r, t
<1>6. Record(k) = [attempt |-> w.attempt, stage |-> "next",
                   cursor |-> w.cursor, count |-> w.count,
                   current |-> c, result |-> r, twice |-> t]
  BY <1>2, <1>5 DEF Walk
<1> QED BY <1>2, <1>4, <1>6 DEF Walk

\* One step of the reader keeps the types.
LEMMA ReadType == TypeOK /\ (ReadStep \/ ReadFails) => TypeOK'
<1> SUFFICES ASSUME TypeOK, ReadStep \/ ReadFails PROVE TypeOK'
  OBVIOUS
<1> USE FlowCountersAssumption
<1>0. StartWalk(0) \in Walk
  BY StartWalkType
<1>1. CASE BeginRead
  BY <1>0, <1>1 DEF BeginRead, TypeOK, kernel
<1>2. CASE NextKey
  <2>1. walk' \in Walk
    <3>1. PICK k \in Key : walk' = [walk EXCEPT !.stage = "lookup", !.cursor = k,
                                               !.count = @ + 1]
      BY <1>2 DEF NextKey, Successors, Present
    <3>2. PICK w \in Walk : w = walk /\ w.count + 1 \in 0..(MaxEntries + 1)
      BY <1>2 DEF NextKey, TypeOK, Walk
    <3> QED BY <3>1, <3>2 DEF Walk
  <2> QED BY <1>2, <2>1 DEF NextKey, TypeOK, kernel
<1>3. CASE Lookup
  <2>1. walk' \in Walk
    <3>1. CASE walk.cursor \in Present
      BY <1>3, <3>1, RecordType DEF Lookup, Present
    <3>2. CASE walk.cursor \notin Present
      BY <1>3, <3>2 DEF Lookup, SkipMissing, TypeOK, Walk
    <3> QED BY <3>1, <3>2
  <2> QED BY <1>3, <2>1 DEF Lookup, TypeOK, kernel
<1>4. ASSUME NEW b \in [Key -> Nat], Return(b) PROVE TypeOK'
  <2>1. delivered' \in [Key -> Nat] /\ repeated' \subseteq Key
    BY <1>4 DEF Return, TypeOK, Walk
  <2> QED BY <1>0, <1>4, <2>1 DEF Return, TypeOK, kernel
<1>5. CASE WalkComplete
  <2>1. walk.current \in [Key -> Nat]
    BY DEF TypeOK, Walk
  <2> QED BY <1>4, <1>5, <2>1 DEF WalkComplete
<1>6. CASE RetryWalk
  <2>1. walk.attempt + 1 \in 0..MaxAttempts
    BY <1>6 DEF RetryWalk, TypeOK, Walk
  <2> QED BY <1>6, <2>1, StartWalkType DEF RetryWalk, TypeOK, kernel
<1>7. CASE WalkPartial
  <2>1. Merged \in [Key -> Nat]
    BY DEF Merged, TypeOK, Walk
  <2> QED BY <1>4, <1>7, <2>1 DEF WalkPartial
<1>8. CASE ReadFails
  BY <1>0, <1>8 DEF ReadFails, TypeOK, kernel
<1> QED BY <1>1, <1>2, <1>3, <1>5, <1>6, <1>7, <1>8 DEF ReadStep

\* Every variable keeps its type, whatever the constants: netmon.c and
\* ReadDeltas never leave the states they are written for.
THEOREM TypeCorrect == Spec => []TypeOK
<1>1. Init => TypeOK
  BY FlowCountersAssumption, StartWalkType DEF Init, TypeOK, Zero
<1>2. TypeOK /\ [Next]_vars => TypeOK'
  <2>1. TypeOK /\ UNCHANGED vars => TypeOK'
    BY DEF TypeOK, vars
  <2> QED BY <2>1, CountPacketType, ReadType DEF Next
<1> QED BY <1>1, <1>2, PTL DEF Spec
-----------------------------------------------------------------------------
(* The ledger.                                                             *)

\* A step of a CPU adds some number of bytes to what is counted for a flow,
\* and the flow's counter either grows by them or starts again at them (a
\* counter that was dropped starts again at 0).
LEMMA CounterMoves ==
  ASSUME TypeOK, CountPacket, NEW k \in Key
  PROVE  \E n \in Nat : /\ counted'[k] = counted[k] + n
                        /\ flows'[k] = flows[k] + n \/ flows'[k] = n
<1> USE FlowCountersAssumption
<1>0. flows[k] \in Nat /\ counted[k] \in Nat
  BY DEF TypeOK
<1>1. ASSUME NEW c \in CPU, NEW j \in Key, NEW len \in PacketLen,
             LookupElem(c, j, len)
      PROVE  counted'[k] = counted[k] + 0 /\ flows'[k] = flows[k] + 0
  BY <1>0, <1>1 DEF LookupElem
<1>2. ASSUME NEW c \in CPU, FetchAndAdd(c)
      PROVE  \/ counted'[k] = counted[k] + cpu[c].len /\ flows'[k] = flows[k] + cpu[c].len
             \/ counted'[k] = counted[k] + 0 /\ flows'[k] = flows[k] + 0
  <2>1. CASE UNCHANGED <<flows, counted>>
    BY <1>0, <2>1
  <2>2. ASSUME NEW j, flows' = [flows EXCEPT ![j] = @ + cpu[c].len],
                      counted' = [counted EXCEPT ![j] = @ + cpu[c].len]
        PROVE  \/ counted'[k] = counted[k] + cpu[c].len /\ flows'[k] = flows[k] + cpu[c].len
               \/ counted'[k] = counted[k] + 0 /\ flows'[k] = flows[k] + 0
    BY <1>0, <2>2 DEF TypeOK
  <2> QED BY <1>2, <2>1, <2>2 DEF FetchAndAdd
<1>3. ASSUME NEW c \in CPU, UpdateElem(c)
      PROVE  \/ counted'[k] = counted[k] + cpu[c].len /\ flows'[k] = cpu[c].len
             \/ counted'[k] = counted[k] + 0 /\ flows'[k] = flows[k] + 0
             \/ counted'[k] = counted[k] + 0 /\ flows'[k] = 0
  BY <1>0, <1>3 DEF UpdateElem, TypeOK
<1>4. ASSUME NEW c \in CPU, cpu[c].pc \in {"add", "insert"}
      PROVE  cpu[c].len \in Nat
  <2>1. cpu[c] \in Busy
    BY <1>4 DEF TypeOK, Idle
  <2> QED BY <2>1 DEF Busy
<1>5. ASSUME NEW c \in CPU, FetchAndAdd(c) \/ UpdateElem(c)
      PROVE  cpu[c].len \in Nat
  BY <1>4, <1>5 DEF FetchAndAdd, UpdateElem
<1> QED BY <1>1, <1>2, <1>3, <1>5 DEF CountPacket

\* What a step of a CPU leaves to the reader.
LEMMA CountPacketLeaves ==
  CountPacket => UNCHANGED <<previous, reader, walk, delivered, repeated>>
  BY DEF CountPacket, LookupElem, FetchAndAdd, UpdateElem

\* A comparison of bytes with what was counted survives a step of a CPU,
\* whatever baseline the counter is compared with.
LEMMA LedgerMoves ==
  ASSUME TypeOK, CountPacket, NEW k \in Key, NEW p \in Nat, NEW x \in Nat,
         x + Delta(flows[k], p) <= counted[k]
  PROVE  x + Delta(flows'[k], p) <= counted'[k]
<1>1. PICK n \in Nat : /\ counted'[k] = counted[k] + n
                       /\ flows'[k] = flows[k] + n \/ flows'[k] = n
  BY CounterMoves
<1>2. flows[k] \in Nat /\ counted[k] \in Nat
  BY DEF TypeOK
<1> QED BY <1>1, <1>2 DEF Delta

\* The CPUs keep the ledger balanced.
LEMMA CountPacketAccounting == TypeOK /\ Accounting /\ CountPacket => Accounting'
<1> SUFFICES ASSUME TypeOK, Accounting, CountPacket PROVE Accounting'
  OBVIOUS
<1>1. UNCHANGED <<previous, reader, walk, delivered, repeated>>
  BY CountPacketLeaves
<1>2. /\ walk.current \in [Key -> Nat] /\ walk.result \in [Key -> Nat]
      /\ delivered \in [Key -> Nat] /\ previous \in [Key -> Nat]
      /\ Merged \in [Key -> Nat]
      /\ flows \in [Key -> Nat] /\ counted \in [Key -> Nat]
  BY DEF TypeOK, Walk, Merged
<1>3. AccountedNow'
  <2> SUFFICES ASSUME NEW k \in Key \ repeated
               PROVE  delivered[k] + Delta(flows'[k], previous[k]) <= counted'[k]
    BY <1>1 DEF AccountedNow, Delta
  <2> QED BY <1>2, LedgerMoves DEF Accounting, AccountedNow
<1>4. AccountedAfterWalk'
  <2> SUFFICES ASSUME NEW k \in Key \ (repeated \cup walk.twice)
               PROVE  delivered[k] + walk.result[k] + Delta(flows'[k], Merged[k])
                        <= counted'[k]
    BY <1>1 DEF AccountedAfterWalk, Delta, Merged
  <2>1. delivered[k] + walk.result[k] \in Nat
    BY <1>2
  <2> QED BY <1>2, <2>1, LedgerMoves DEF Accounting, AccountedAfterWalk
<1>5. UnseenIsFresh'
  <2> SUFFICES ASSUME NEW k \in Key \ repeated, walk.current[k] = 0,
                      k < walk.cursor \/ (k = walk.cursor /\ walk.stage = "next")
               PROVE  delivered[k] + flows'[k] <= counted'[k]
    BY <1>1 DEF UnseenIsFresh
  <2>1. delivered[k] + flows[k] <= counted[k]
    BY DEF Accounting, UnseenIsFresh
  <2>2. PICK n \in Nat : /\ counted'[k] = counted[k] + n
                         /\ flows'[k] = flows[k] + n \/ flows'[k] = n
    BY CounterMoves
  <2>3. delivered[k] \in Nat /\ flows[k] \in Nat /\ counted[k] \in Nat
    BY <1>2
  <2> QED BY <2>1, <2>2, <2>3
<1>6. UnseenHasNoResult'
  BY <1>1 DEF Accounting, UnseenHasNoResult
<1> QED BY <1>3, <1>4, <1>5, <1>6 DEF Accounting

\* A walk that has not begun owes nothing.
LEMMA FreshWalkAccounting ==
  ASSUME TypeOK', AccountedNow', NEW a, walk' = StartWalk(a)
  PROVE  Accounting'
<1>1. /\ walk'.current = Zero /\ walk'.result = Zero /\ walk'.twice = {}
      /\ walk'.cursor = NoKey
  BY DEF StartWalk
<1>2. AccountedAfterWalk'
  <2> SUFFICES ASSUME NEW k \in Key, k \notin repeated'
               PROVE  delivered'[k] + walk'.result[k] + Delta(flows'[k], Merged'[k])
                        <= counted'[k]
    BY DEF AccountedAfterWalk, Delta
  <2>1. walk'.result[k] = 0 /\ Merged'[k] = previous'[k]
    BY <1>1 DEF Merged, Zero
  <2>2. delivered'[k] + Delta(flows'[k], previous'[k]) <= counted'[k]
    BY DEF AccountedNow, Delta
  <2>3. delivered'[k] \in Nat
    BY DEF TypeOK
  <2> QED BY <2>1, <2>2, <2>3
<1>3. UnseenIsFresh'
  BY <1>1, FlowCountersAssumption DEF UnseenIsFresh, NoKey, Key
<1>4. UnseenHasNoResult'
  BY <1>1 DEF UnseenHasNoResult, Zero
<1> QED BY <1>2, <1>3, <1>4 DEF Accounting

\* Choosing the next key keeps the ledger: the keys the cursor jumps over are
\* not in the map, or the cursor has passed them already.
LEMMA NextKeyAccounting == TypeOK /\ Accounting /\ NextKey => Accounting'
<1> SUFFICES ASSUME TypeOK, Accounting, NextKey PROVE Accounting'
  OBVIOUS
<1> USE FlowCountersAssumption
<1>1. PICK next \in Successors :
        /\ \A other \in Successors : next <= other
        /\ walk' = [walk EXCEPT !.stage = "lookup", !.cursor = next, !.count = @ + 1]
  BY DEF NextKey
<1>2. /\ walk'.current = walk.current /\ walk'.result = walk.result
      /\ walk'.twice = walk.twice /\ walk'.cursor = next /\ walk'.stage = "lookup"
  BY <1>1 DEF TypeOK, Walk
<1>3. UNCHANGED <<flows, counted, previous, delivered, repeated>>
  BY DEF NextKey, kernel
<1>4. AccountedNow' /\ AccountedAfterWalk' /\ UnseenHasNoResult'
  BY <1>2, <1>3 DEF Accounting, AccountedNow, AccountedAfterWalk, UnseenHasNoResult,
                    Merged, Delta
<1>5. UnseenIsFresh'
  <2> SUFFICES ASSUME NEW k \in Key \ repeated, walk.current[k] = 0, k < next
               PROVE  delivered[k] + flows[k] <= counted[k]
    BY <1>2, <1>3 DEF UnseenIsFresh
  <2>0. delivered[k] \in Nat /\ counted[k] \in Nat /\ flows[k] \in Nat /\ previous[k] \in Nat
        /\ k \in Nat /\ next \in Nat /\ walk.cursor \in Nat
    <3>1. delivered[k] \in Nat /\ counted[k] \in Nat /\ flows[k] \in Nat /\ previous[k] \in Nat
      BY DEF TypeOK
    <3>2. next \in Key /\ walk.cursor \in Key \cup {NoKey}
      BY DEF Successors, Present, TypeOK, Walk
    <3> QED BY <3>1, <3>2 DEF Key, NoKey
  <2>1. CASE k \notin Present
    <3>1. flows[k] = 0
      BY <2>1 DEF Present
    <3>2. delivered[k] + Delta(flows[k], previous[k]) <= counted[k]
      BY DEF Accounting, AccountedNow
    <3> QED BY <2>0, <3>1, <3>2 DEF Delta
  <2>2. CASE k \in Present
    <3>1. k \notin Successors
      BY <1>1, <2>0
    <3>2. walk.cursor \in Present /\ ~(k > walk.cursor)
      BY <2>2, <3>1 DEF Successors
    <3>3. k < walk.cursor \/ (k = walk.cursor /\ walk.stage = "next")
      BY <2>0, <3>2 DEF NextKey
    <3> QED BY <3>3 DEF Accounting, UnseenIsFresh
  <2> QED BY <2>1, <2>2
<1> QED BY <1>4, <1>5 DEF Accounting

\* Reading a value moves what the ledger owes for its flow from the counter to
\* the result; not finding one leaves a key whose counter, if any, is fresh.
LEMMA LookupAccounting == TypeOK /\ Accounting /\ Lookup => Accounting'
<1> SUFFICES ASSUME TypeOK, Accounting, Lookup PROVE Accounting'
  OBVIOUS
<1> USE FlowCountersAssumption
<1>1. UNCHANGED <<flows, counted, previous, delivered, repeated>>
  BY DEF Lookup, kernel
<1>2. AccountedNow'
  BY <1>1 DEF Accounting, AccountedNow, Delta
<1>3. CASE walk.cursor \notin Present
  <2>1. /\ walk'.current = walk.current /\ walk'.result = walk.result
        /\ walk'.twice = walk.twice /\ walk'.cursor = walk.cursor
    BY <1>3 DEF Lookup, SkipMissing, TypeOK, Walk
  <2>2. AccountedAfterWalk' /\ UnseenHasNoResult'
    BY <1>1, <2>1 DEF Accounting, AccountedAfterWalk, UnseenHasNoResult, Merged, Delta
  <2>3. UnseenIsFresh'
    <3> SUFFICES ASSUME NEW k \in Key \ repeated, walk.current[k] = 0,
                        k < walk.cursor \/ k = walk.cursor
                 PROVE  delivered[k] + flows[k] <= counted[k]
      BY <1>1, <2>1 DEF UnseenIsFresh
    <3>0. delivered[k] \in Nat /\ previous[k] \in Nat
      BY DEF TypeOK
    <3>1. CASE k < walk.cursor
      BY <3>1 DEF Accounting, UnseenIsFresh
    <3>2. CASE k = walk.cursor
      <4>1. flows[k] = 0
        BY <1>3, <3>2 DEF Present
      <4> QED BY <3>0, <4>1, DeltaBounds DEF Accounting, AccountedNow
    <3> QED BY <3>1, <3>2
  <2> QED BY <1>2, <2>2, <2>3 DEF Accounting
<1>4. CASE walk.cursor \in Present
  <2> DEFINE seen == walk.cursor
             d == Delta(flows[seen], previous[seen])
  <2>0. seen \in Key /\ flows[seen] \in Nat /\ flows[seen] # 0 /\ previous[seen] \in Nat
    BY <1>4 DEF Present, TypeOK
  <2>1. /\ walk'.current = [walk.current EXCEPT ![seen] = flows[seen]]
        /\ walk'.result = [walk.result EXCEPT ![seen] = @ + d]
        /\ walk'.twice = IF walk.current[seen] # 0 THEN walk.twice \cup {seen} ELSE walk.twice
        /\ walk'.cursor = seen
    BY <1>4 DEF Lookup, Record, TypeOK, Walk
  <2>2. /\ walk.current \in [Key -> Nat] /\ walk.result \in [Key -> Nat]
        /\ delivered \in [Key -> Nat] /\ walk.twice \subseteq Key
    BY DEF TypeOK, Walk
  <2> HIDE DEF seen
  <2>3. AccountedAfterWalk'
    <3> SUFFICES ASSUME NEW k \in Key, k \notin repeated, k \notin walk'.twice
                 PROVE  delivered[k] + walk'.result[k] + Delta(flows[k], Merged'[k])
                          <= counted[k]
      BY <1>1 DEF AccountedAfterWalk, Delta
    <3>1. CASE k # seen
      <4>1. walk'.result[k] = walk.result[k] /\ Merged'[k] = Merged[k] /\ k \notin walk.twice
        BY <1>1, <2>1, <2>2, <3>1 DEF Merged
      <4> QED BY <4>1 DEF Accounting, AccountedAfterWalk
    <3>2. CASE k = seen
      <4>1. walk.current[k] = 0
        BY <2>1, <3>2
      <4>2. walk.result[k] = 0
        BY <4>1 DEF Accounting, UnseenHasNoResult
      <4>3. walk'.result[k] = d /\ Merged'[k] = flows[k]
        <5>1. d \in Nat
          BY <2>0, DeltaBounds
        <5>2. walk'.result[k] = 0 + d
          BY <2>1, <2>2, <3>2, <4>2
        <5>3. walk'.current[k] = flows[k]
          BY <2>1, <2>2, <3>2
        <5> QED BY <1>1, <2>0, <3>2, <5>1, <5>2, <5>3 DEF Merged
      <4>4. Delta(flows[k], flows[k]) = 0
        BY <2>0, <3>2, DeltaBounds
      <4>5. delivered[k] + d <= counted[k]
        BY <3>2 DEF Accounting, AccountedNow
      <4>6. d \in Nat /\ delivered[k] \in Nat
        BY <2>0, <2>2, DeltaBounds
      <4> QED BY <4>3, <4>4, <4>5, <4>6
    <3> QED BY <3>1, <3>2
  <2>4. UnseenIsFresh'
    <3> SUFFICES ASSUME NEW k \in Key \ repeated, walk'.current[k] = 0,
                        k < seen \/ k = seen
                 PROVE  delivered[k] + flows[k] <= counted[k]
      BY <1>1, <2>1 DEF UnseenIsFresh
    <3>1. k # seen /\ walk.current[k] = 0
      BY <2>0, <2>1, <2>2
    <3> QED BY <3>1 DEF Accounting, UnseenIsFresh, seen
  <2>5. UnseenHasNoResult'
    BY <2>0, <2>1, <2>2 DEF Accounting, UnseenHasNoResult
  <2> QED BY <1>2, <2>3, <2>4, <2>5 DEF Accounting
<1> QED BY <1>3, <1>4

\* Publishing a walk whose baselines show at most what the ledger allows after
\* it leaves the ledger balanced.
LEMMA ReturnAccounting ==
  ASSUME TypeOK, TypeOK', Accounting, NEW b \in [Key -> Nat], Return(b),
         \A k \in Key \ (repeated \cup walk.twice) :
           delivered[k] + walk.result[k] + Delta(flows[k], b[k]) <= counted[k]
  PROVE  Accounting'
<1>1. AccountedNow'
  BY DEF Return, AccountedNow, Delta, kernel
<1> QED BY <1>1, FreshWalkAccounting DEF Return

\* A complete walk may forget the flows it has not seen.
LEMMA CompleteAccounting == TypeOK /\ Accounting /\ WalkComplete => Accounting'
<1> SUFFICES ASSUME TypeOK, Accounting, WalkComplete PROVE Accounting'
  OBVIOUS
<1> USE FlowCountersAssumption
<1>1. TypeOK' /\ walk.current \in [Key -> Nat] /\ Return(walk.current)
  BY ReadType DEF ReadStep, WalkComplete, TypeOK, Walk
<1>2. ASSUME NEW k \in Key \ (repeated \cup walk.twice)
      PROVE  delivered[k] + walk.result[k] + Delta(flows[k], walk.current[k]) <= counted[k]
  <2>0. /\ delivered[k] \in Nat /\ flows[k] \in Nat /\ previous[k] \in Nat
        /\ walk.result[k] \in Nat /\ k \in Nat /\ walk.cursor \in Nat
    <3>1. delivered[k] \in Nat /\ flows[k] \in Nat /\ previous[k] \in Nat
      BY DEF TypeOK
    <3>2. walk.result \in [Key -> Nat] /\ walk.cursor \in Key \cup {NoKey}
      BY DEF TypeOK, Walk
    <3> QED BY <3>1, <3>2 DEF Key, NoKey
  <2>1. CASE walk.current[k] # 0
    BY <2>1 DEF Accounting, AccountedAfterWalk, Merged
  <2>2. CASE walk.current[k] = 0
    <3>1. walk.result[k] = 0 /\ Delta(flows[k], 0) = flows[k]
      BY <2>0, <2>2, DeltaBounds DEF Accounting, UnseenHasNoResult
    <3>2. delivered[k] + flows[k] <= counted[k]
      <4>1. CASE k \notin Present
        <5>1. flows[k] = 0
          BY <4>1 DEF Present
        <5> QED BY <2>0, <5>1, DeltaBounds DEF Accounting, AccountedNow
      <4>2. CASE k \in Present
        <5>1. walk.cursor \in Present /\ ~(k > walk.cursor) /\ walk.stage = "next"
          BY <4>2 DEF WalkComplete, Successors
        <5>2. k < walk.cursor \/ (k = walk.cursor /\ walk.stage = "next")
          BY <2>0, <5>1
        <5> QED BY <2>2, <5>2 DEF Accounting, UnseenIsFresh
      <4> QED BY <4>1, <4>2
    <3> QED BY <2>0, <2>2, <3>1, <3>2
  <2> QED BY <2>1, <2>2
<1> QED BY <1>1, <1>2, ReturnAccounting

\* A partial walk moves the baselines of the flows it has seen.
LEMMA PartialAccounting == TypeOK /\ Accounting /\ WalkPartial => Accounting'
<1> SUFFICES ASSUME TypeOK, Accounting, WalkPartial PROVE Accounting'
  OBVIOUS
<1>1. TypeOK' /\ Merged \in [Key -> Nat] /\ Return(Merged)
  BY ReadType DEF ReadStep, WalkPartial, Merged, TypeOK, Walk
<1> QED BY <1>1, ReturnAccounting DEF Accounting, AccountedAfterWalk

\* The reader keeps the ledger balanced.
LEMMA ReadAccounting ==
  TypeOK /\ Accounting /\ (ReadStep \/ ReadFails) => Accounting'
<1> SUFFICES ASSUME TypeOK, Accounting, ReadStep \/ ReadFails PROVE Accounting'
  OBVIOUS
<1> USE FlowCountersAssumption
<1>0. TypeOK'
  BY ReadType
<1>1. ASSUME UNCHANGED <<kernel, previous, delivered, repeated>>
      PROVE  AccountedNow'
  BY <1>1 DEF Accounting, AccountedNow, Delta, kernel
<1>2. ASSUME UNCHANGED <<kernel, previous, delivered, repeated>>,
             NEW a, walk' = StartWalk(a)
      PROVE  Accounting'
  BY <1>0, <1>1, <1>2, FreshWalkAccounting
<1>3. CASE BeginRead
  BY <1>2, <1>3 DEF BeginRead
<1>4. CASE NextKey
  BY <1>4, NextKeyAccounting
<1>5. CASE Lookup
  BY <1>5, LookupAccounting
<1>6. CASE WalkComplete
  BY <1>6, CompleteAccounting
<1>7. CASE RetryWalk
  BY <1>2, <1>7 DEF RetryWalk
<1>8. CASE WalkPartial
  BY <1>8, PartialAccounting
<1>9. CASE ReadFails
  BY <1>2, <1>9 DEF ReadFails
<1> QED BY <1>3, <1>4, <1>5, <1>6, <1>7, <1>8, <1>9 DEF ReadStep

\* The ledger balances in every reachable state, for every number of flows,
\* CPUs, map entries and attempts.
THEOREM LedgerBalances == Spec => []Accounting
<1>1. Init => Accounting
  <2> SUFFICES ASSUME Init PROVE Accounting
    OBVIOUS
  <2>1. /\ walk.current = Zero /\ walk.result = Zero /\ walk.cursor = NoKey
        /\ Merged = Zero
    BY DEF Init, StartWalk, Merged, Zero
  <2> QED BY <2>1, FlowCountersAssumption
          DEF Init, Accounting, AccountedNow, AccountedAfterWalk, UnseenIsFresh,
              UnseenHasNoResult, Zero, Delta, NoKey, Key
<1>2. TypeOK /\ Accounting /\ [Next]_vars => Accounting'
  <2>1. Accounting /\ UNCHANGED vars => Accounting'
    BY DEF Accounting, AccountedNow, AccountedAfterWalk, UnseenIsFresh,
           UnseenHasNoResult, Merged, Delta, vars
  <2> QED BY <2>1, CountPacketAccounting, ReadAccounting DEF Next
<1> QED BY <1>1, <1>2, TypeCorrect, PTL DEF Spec

\* ReadDeltas never returns more bytes for a flow than the programs counted for
\* it, unless one of its results lists the flow twice.
THEOREM NeverOvercounts == Spec => []NoOvercount
<1>1. TypeOK /\ Accounting => NoOvercount
  <2> SUFFICES ASSUME TypeOK, Accounting, NEW k \in Key \ repeated
               PROVE  delivered[k] <= counted[k]
    BY DEF NoOvercount
  <2>1. /\ delivered[k] \in Nat /\ counted[k] \in Nat
        /\ Delta(flows[k], previous[k]) \in Nat
    BY DeltaBounds DEF TypeOK
  <2> QED BY <2>1 DEF Accounting, AccountedNow
<1> QED BY <1>1, TypeCorrect, LedgerBalances, PTL

-----------------------------------------------------------------------------
(* Exact accounting of the flows the map has kept.                         *)

Kept == Key \ (evicted \cup raced)

\* A kept flow's counter holds all its bytes, its baseline is what was
\* returned, and the walk's result is the distance to the next baseline.
Exact ==
  /\ \A k \in Kept : flows[k] = counted[k]
  /\ \A k \in Kept \ repeated : delivered[k] = previous[k]
  /\ \A k \in Kept \ (repeated \cup walk.twice) :
       delivered[k] + walk.result[k] = Merged[k]

\* The CPUs keep it: what they drop or replace is no longer a kept flow.
LEMMA CountPacketExact == TypeOK /\ Exact /\ CountPacket => Exact'
<1> SUFFICES ASSUME TypeOK, Exact, CountPacket PROVE Exact'
  OBVIOUS
<1>1. UNCHANGED <<previous, reader, walk, delivered, repeated>>
  BY CountPacketLeaves
<1>2. /\ Kept' \subseteq Kept
      /\ \A k \in Kept' : flows'[k] = counted'[k]
  <2>1. ASSUME NEW c \in CPU, NEW k \in Key, NEW len \in PacketLen,
               LookupElem(c, k, len)
        PROVE  Kept' = Kept /\ \A x \in Kept : flows'[x] = counted'[x]
    BY <2>1 DEF LookupElem, Kept, Exact
  <2>2. ASSUME NEW c \in CPU, FetchAndAdd(c)
        PROVE  Kept' = Kept /\ \A x \in Kept : flows'[x] = counted'[x]
    <3>1. CASE UNCHANGED <<flows, counted>>
      BY <2>2, <3>1 DEF FetchAndAdd, Kept, Exact
    <3>2. ASSUME NEW j, flows' = [flows EXCEPT ![j] = @ + cpu[c].len],
                        counted' = [counted EXCEPT ![j] = @ + cpu[c].len]
          PROVE  \A x \in Kept : flows'[x] = counted'[x]
      BY <3>2 DEF Kept, Exact, TypeOK
    <3> QED BY <2>2, <3>1, <3>2 DEF FetchAndAdd, Kept
  <2>3. ASSUME NEW c \in CPU, UpdateElem(c)
        PROVE  Kept' \subseteq Kept /\ \A x \in Kept' : flows'[x] = counted'[x]
    <3>1. Kept' \subseteq Kept
      BY <2>3 DEF UpdateElem, Kept
    <3>2. ASSUME NEW x \in Kept' PROVE flows'[x] = counted'[x]
      <4>1. x \in Kept /\ flows[x] = counted[x] /\ flows[x] \in Nat
        BY <3>1, <3>2 DEF Exact, TypeOK, Kept
      <4>2. cpu[c] \in Busy
        BY <2>3 DEF UpdateElem, TypeOK, Idle
      <4>3. cpu[c].len \in Nat
        BY <4>2, FlowCountersAssumption DEF Busy
      <4>4. CASE x = cpu[c].key
        <5>1. x \notin Present
          BY <2>3, <3>2, <4>4 DEF UpdateElem, Kept
        <5>2. counted[x] = 0
          BY <4>1, <5>1 DEF Present, Kept
        <5> QED BY <2>3, <4>1, <4>3, <4>4, <5>2 DEF UpdateElem, TypeOK, Kept
      <4>5. CASE x # cpu[c].key
        BY <2>3, <3>2, <4>1, <4>5 DEF UpdateElem, TypeOK, Kept
      <4> QED BY <4>4, <4>5
    <3> QED BY <3>1, <3>2
  <2> QED BY <2>1, <2>2, <2>3 DEF CountPacket
<1>3. Merged' = Merged
  BY <1>1 DEF Merged
<1> QED BY <1>1, <1>2, <1>3 DEF Exact

\* The reader keeps it.
LEMMA ReadExact ==
  TypeOK /\ Accounting /\ Exact /\ (ReadStep \/ ReadFails) => Exact'
<1> SUFFICES ASSUME TypeOK, Accounting, Exact, ReadStep \/ ReadFails PROVE Exact'
  OBVIOUS
<1>0. /\ \A k \in Key : /\ flows[k] \in Nat /\ counted[k] \in Nat
                        /\ delivered[k] \in Nat /\ previous[k] \in Nat
      /\ walk.current \in [Key -> Nat] /\ walk.result \in [Key -> Nat]
      /\ walk.twice \subseteq Key
  BY DEF TypeOK, Walk
<1>1. UNCHANGED kernel
  BY DEF ReadStep, BeginRead, NextKey, Lookup, WalkComplete, RetryWalk, WalkPartial,
         ReadFails, Return
<1>2. Kept' = Kept /\ \A k \in Kept : flows'[k] = counted'[k]
  BY <1>1 DEF kernel, Kept, Exact
<1>3. ASSUME NEW a, walk' = StartWalk(a),
             \A k \in Kept \ repeated' : delivered'[k] = previous'[k],
             previous' \in [Key -> Nat], delivered' \in [Key -> Nat]
      PROVE  Exact'
  <2>1. \A k \in Key : walk'.result[k] = 0 /\ Merged'[k] = previous'[k]
    BY <1>3 DEF StartWalk, Merged, Zero
  <2>2. \A k \in Kept : delivered'[k] \in Nat /\ k \in Key
    BY <1>3 DEF Kept
  <2> QED BY <1>2, <1>3, <2>1, <2>2 DEF Exact
<1>4. ASSUME UNCHANGED <<previous, delivered, repeated>>, NEW a, walk' = StartWalk(a)
      PROVE  Exact'
  BY <1>3, <1>4 DEF Exact, TypeOK
<1>5. ASSUME UNCHANGED <<previous, delivered, repeated>>,
             walk'.current = walk.current, walk'.result = walk.result,
             walk'.twice = walk.twice
      PROVE  Exact'
  BY <1>2, <1>5 DEF Exact, Merged
<1>6. CASE NextKey
  <2>1. /\ walk'.current = walk.current /\ walk'.result = walk.result
        /\ walk'.twice = walk.twice
    BY <1>6 DEF NextKey, TypeOK, Walk
  <2> QED BY <1>5, <1>6, <2>1 DEF NextKey
<1>7. CASE Lookup /\ walk.cursor \notin Present
  <2>1. /\ walk'.current = walk.current /\ walk'.result = walk.result
        /\ walk'.twice = walk.twice
    BY <1>7 DEF Lookup, SkipMissing, TypeOK, Walk
  <2> QED BY <1>5, <1>7, <2>1 DEF Lookup
<1>8. CASE Lookup /\ walk.cursor \in Present
  <2> DEFINE seen == walk.cursor
             d == Delta(flows[seen], previous[seen])
  <2>0. seen \in Key /\ flows[seen] # 0
    BY <1>8 DEF Present
  <2>1. /\ walk'.current = [walk.current EXCEPT ![seen] = flows[seen]]
        /\ walk'.result = [walk.result EXCEPT ![seen] = @ + d]
        /\ walk'.twice = IF walk.current[seen] # 0 THEN walk.twice \cup {seen} ELSE walk.twice
    BY <1>8 DEF Lookup, Record, TypeOK, Walk
  <2>2. UNCHANGED <<previous, delivered, repeated>>
    BY <1>8 DEF Lookup
  <2>3. ASSUME NEW k \in Kept, k \notin repeated, k \notin walk'.twice
        PROVE  delivered[k] + walk'.result[k] = Merged'[k]
    <3>0. k \in Key
      BY DEF Kept
    <3>1. CASE k # seen
      <4>1. walk'.result[k] = walk.result[k] /\ Merged'[k] = Merged[k] /\ k \notin walk.twice
        BY <1>0, <2>0, <2>1, <2>2, <2>3, <3>0, <3>1 DEF Merged
      <4> QED BY <2>3, <4>1 DEF Exact
    <3>2. CASE k = seen
      <4>1. walk.current[k] = 0
        BY <2>1, <2>3, <3>2
      <4>2. walk.result[k] = 0
        BY <3>0, <4>1 DEF Accounting, UnseenHasNoResult
      <4>3. walk'.current[k] = flows[k] /\ walk'.result[k] = 0 + d
        BY <1>0, <2>0, <2>1, <3>2, <4>2
      <4>4. Merged'[k] = flows[k]
        BY <2>0, <3>0, <3>2, <4>3 DEF Merged
      <4>5. /\ delivered[k] = previous[k] /\ flows[k] = counted[k]
            /\ delivered[k] + Delta(flows[k], previous[k]) <= counted[k]
        BY <2>3, <3>0 DEF Exact, Accounting, AccountedNow
      <4> QED BY <1>0, <3>0, <3>2, <4>3, <4>4, <4>5 DEF Delta
    <3> QED BY <3>1, <3>2
  <2> QED BY <1>2, <2>2, <2>3 DEF Exact
<1>9. CASE WalkComplete
  <2>1. ASSUME NEW k \in Kept, k \notin repeated, k \notin walk.twice
        PROVE  delivered[k] + walk.result[k] = walk.current[k]
    <3>0. k \in Key
      BY DEF Kept
    <3>1. CASE walk.current[k] # 0
      BY <2>1, <3>0, <3>1 DEF Exact, Merged
    <3>2. CASE walk.current[k] = 0
      <4>1. walk.result[k] = 0
        BY <3>0, <3>2 DEF Accounting, UnseenHasNoResult
      <4>2. Accounting' /\ delivered'[k] = delivered[k] + 0 /\ previous'[k] = 0
            /\ k \notin repeated'
        BY <1>9, <2>1, <3>0, <3>2, <4>1, CompleteAccounting DEF WalkComplete, Return
      <4>3. delivered'[k] + Delta(flows[k], 0) <= counted[k]
        BY <1>1, <3>0, <4>2 DEF Accounting, AccountedNow, Delta, kernel
      <4>4. flows[k] = counted[k]
        BY DEF Exact
      <4> QED BY <1>0, <3>0, <3>2, <4>1, <4>2, <4>3, <4>4 DEF Delta
    <3> QED BY <3>1, <3>2
  <2>2. /\ walk' = StartWalk(0) /\ previous' = walk.current
        /\ delivered' = [k \in Key |-> delivered[k] + walk.result[k]]
        /\ repeated' = repeated \cup walk.twice
    BY <1>9 DEF WalkComplete, Return
  <2>3. delivered' \in [Key -> Nat]
    BY <1>0, <2>2
  <2> QED BY <1>0, <1>3, <2>1, <2>2, <2>3 DEF Kept
<1>10. CASE WalkPartial
  <2>1. /\ walk' = StartWalk(0) /\ previous' = Merged
        /\ delivered' = [k \in Key |-> delivered[k] + walk.result[k]]
        /\ repeated' = repeated \cup walk.twice
    BY <1>10 DEF WalkPartial, Return
  <2>2. delivered' \in [Key -> Nat] /\ Merged \in [Key -> Nat]
    BY <1>0, <2>1 DEF Merged
  <2> QED BY <1>3, <2>1, <2>2 DEF Exact, Kept
<1>11. CASE BeginRead \/ RetryWalk \/ ReadFails
  BY <1>4, <1>11 DEF BeginRead, RetryWalk, ReadFails
<1> QED BY <1>6, <1>7, <1>8, <1>9, <1>10, <1>11 DEF ReadStep

\* A flow that the map never dropped is accounted to the byte: what was
\* returned and what the next read finds make up what was counted.
THEOREM KeptFlowsExact == Spec => []ExactWhileKept
<1>1. Init => Exact
  BY DEF Init, Exact, StartWalk, Zero, Merged, Kept
<1>2. TypeOK /\ Accounting /\ Exact /\ [Next]_vars => Exact'
  <2>1. Exact /\ UNCHANGED vars => Exact'
    BY DEF Exact, Merged, Kept, vars
  <2> QED BY <2>1, CountPacketExact, ReadExact DEF Next
<1>3. TypeOK /\ Accounting /\ Exact => ExactWhileKept
  <2> SUFFICES ASSUME TypeOK, Accounting, Exact,
                      NEW k \in Key \ (repeated \cup evicted \cup raced)
               PROVE  delivered[k] + Delta(flows[k], previous[k]) = counted[k]
    BY DEF ExactWhileKept
  <2>1. /\ delivered[k] \in Nat /\ previous[k] \in Nat /\ flows[k] \in Nat
        /\ counted[k] \in Nat
    BY DEF TypeOK
  <2>2. delivered[k] = previous[k] /\ flows[k] = counted[k]
    BY DEF Exact, Kept
  <2>3. delivered[k] + Delta(flows[k], previous[k]) <= counted[k]
    BY DEF Accounting, AccountedNow
  <2> QED BY <2>1, <2>2, <2>3 DEF Delta
<1> QED BY <1>1, <1>2, <1>3, TypeCorrect, LedgerBalances, PTL DEF Spec
=============================================================================
