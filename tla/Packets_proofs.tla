--------------------------- MODULE Packets_proofs ---------------------------
(***************************************************************************)
(* Proofs about Packets.  The parser checks that a header is there, looks  *)
(* at it, and moves on by what the header says of its own size: the first  *)
(* invariant is that all it has looked at was captured, wherever the       *)
(* headers have sent it since.  The second is that it is at the header it  *)
(* takes itself to be at.                                                  *)
(*                                                                         *)
(* Where a header starts is computed by recursion over those before it;    *)
(* the induction is by the smallest subset that it fails for.              *)
(***************************************************************************)
EXTENDS Packets, FiniteSetTheorems, WellFoundedInduction, TLAPS

Bounds ==
  /\ frame \in Frame /\ length \in Nat
  /\ offset \in Nat /\ header \in Nat /\ touched \in Nat
  /\ ReadsInBounds

\* A header's size is a number that its length field says, whatever it says.
LEMMA SizeIsNat == ASSUME NEW e \in Extension PROVE ExtensionSize(e) \in Nat
<1>1. e.units \in Nat /\ e.kind \in {"options", "fragment", "auth"}
  BY DEF Extension
<1>2. CASE e.kind = "options"
  BY <1>1, <1>2 DEF ExtensionSize
<1>3. CASE e.kind = "fragment"
  BY <1>1, <1>3 DEF ExtensionSize
<1>4. CASE e.kind = "auth"
  BY <1>1, <1>4 DEF ExtensionSize
<1>5. QED
  BY <1>1, <1>2, <1>3, <1>4

\* No frame, cut off at any byte, makes ParsePacket look at a byte that was
\* not captured, however many tags, options and extension headers it has and
\* whatever they say of their sizes.
THEOREM ReadsStayInBounds == Spec => []ReadsInBounds
<1>1. Init => Bounds
  <2> SUFFICES ASSUME Init PROVE Bounds
    OBVIOUS
  <2> DEFINE end == TransportStart(frame) + 5
  <2>1. length \in 0..end
    BY DEF Init
  <2> HIDE DEF end
  <2>2. length \in Nat
    BY <2>1
  <2>3. frame \in Frame
    BY PacketsAssumption DEF Init
  <2>4. offset = 0 /\ header = 0 /\ touched = 0
    BY DEF Init
  <2>5. QED
    BY <2>2, <2>3, <2>4 DEF Bounds, ReadsInBounds
<1>2. Bounds /\ [Next]_vars => Bounds'
  <2> SUFFICES ASSUME Bounds, [Next]_vars PROVE Bounds'
    OBVIOUS
  <2> USE DEF Bounds, ReadsInBounds, packet
  <2>1. CASE Ethernet
    BY <2>1 DEF Ethernet, Room, Touch, Finished, GiveUp, EthernetSize
  <2>2. CASE Tag
    BY <2>2 DEF Tag, Room, Touch, Finished, GiveUp, TagSize
  <2>3. CASE EtherType
    BY <2>3 DEF EtherType
  <2>4. CASE ParseIPv4
    <3>1. frame.ihl \in Nat
      BY DEF Frame
    <3>2. QED
      BY <2>4, <3>1 DEF ParseIPv4, Room, Touch, Finished, GiveUp
  <2>5. CASE ParseIPv6
    BY <2>5 DEF ParseIPv6, Room, Touch, Finished, GiveUp
  <2>6. CASE ParseExtension
    <3> DEFINE e == frame.extensions[header + 1]
    <3>1. ExtensionSize(e) \in Nat
      <4>1. frame.extensions \in Seq(Extension) /\ header + 1 \in 1..Len(frame.extensions)
        BY <2>6 DEF ParseExtension, Frame
      <4>2. e \in Extension
        BY <4>1
      <4>3. QED
        BY <4>2, SizeIsNat
    <3> HIDE DEF e
    <3>2. CASE Advance(ExtensionSize(e)) /\ Room(2) /\ Touch(2) /\ UNCHANGED packet
      BY <3>1, <3>2 DEF Advance, Room, Touch
    <3>3. CASE Advance(8) /\ Room(8) /\ Touch(4) /\ UNCHANGED packet
      BY <3>3 DEF Advance, Room, Touch
    <3>4. CASE Finished /\ Room(8) /\ Touch(4) /\ UNCHANGED packet
      BY <3>4 DEF Finished, Room, Touch
    <3>5. CASE GiveUp /\ UNCHANGED packet
      BY <3>5 DEF GiveUp, Finished
    <3>6. QED
      BY <2>6, <3>2, <3>3, <3>4, <3>5 DEF ParseExtension, RoomForOptions, RoomForFragment, e
  <2>7. CASE PastExtensions
    BY <2>7 DEF PastExtensions
  <2>8. CASE ParsePorts
    BY <2>8 DEF ParsePorts, Room, Touch, Finished, GiveUp
  <2>9. CASE UNCHANGED vars
    BY <2>9 DEF vars, parser
  <2>10. QED
    BY <2>1, <2>2, <2>3, <2>4, <2>5, <2>6, <2>7, <2>8, <2>9 DEF Next, ParseStep, Done
<1>3. Bounds => ReadsInBounds
  BY DEF Bounds
<1>4. QED
  BY <1>1, <1>2, <1>3, PTL DEF Spec

-----------------------------------------------------------------------------
(* Where headers start.                                                    *)

\* A set of numbers that has 1, and with each number the next, has all to n.
LEMMA UpTo ==
  ASSUME NEW n \in Nat, NEW A, n >= 1 => 1 \in A, \A i \in 1..(n - 1) : i \in A => i + 1 \in A
  PROVE  1..n \subseteq A
<1> DEFINE T == {R \in SUBSET (1..n) : \E i \in 1..n : R = 1..i /\ i \notin A}
<1>1. ASSUME NEW R \in T, \A y \in T : ~ (y \subseteq R /\ y # R)
      PROVE  FALSE
  <2>1. PICK i \in 1..n : R = 1..i /\ i \notin A
    OBVIOUS
  <2>2. i # 1 /\ i - 1 \in 1..(n - 1) /\ i - 1 \in 1..n /\ (i - 1) + 1 = i
    BY <2>1
  <2>3. i - 1 \notin A
    BY <2>1, <2>2
  <2>4. 1..(i - 1) \in SUBSET (1..n)
    BY <2>2
  <2>5. 1..(i - 1) \in T
    BY <2>2, <2>3, <2>4
  <2>6. 1..(i - 1) \subseteq R /\ i \in R /\ i \notin 1..(i - 1)
    BY <2>1
  <2> QED BY <1>1, <2>5, <2>6
<1>2. T \subseteq SUBSET (1..n)
  OBVIOUS
<1>3. ASSUME NEW i \in 1..n, i \notin A PROVE 1..i \in T
  <2>1. 1..i \in SUBSET (1..n)
    OBVIOUS
  <2> QED BY <1>3, <2>1
<1> HIDE DEF T
<1>4. IsFiniteSet(1..n)
  BY FS_Interval
<1>5. T = {}
  <2> SUFFICES ASSUME T # {} PROVE FALSE
    OBVIOUS
  <2>1. T \subseteq FiniteSubsetsOf(1..n)
    BY <1>2, <1>4, FS_Subset DEF FiniteSubsetsOf
  <2>2. \E x \in T : \A y \in T : <<y, x>> \notin StrictSubsetOrdering(1..n)
    BY <1>4, <2>1, WFMin, FS_StrictSubsetOrderingWellFounded, Zenon
  <2> QED BY <1>1, <1>2, <2>2 DEF StrictSubsetOrdering
<1> QED BY <1>3, <1>5

\* The equation of ExtensionStarts, up to n.
Starts(g, f, n) ==
  g = [i \in 1..n |-> IF i = 1 THEN IPStart(f) + IPSize(f)
                      ELSE g[i - 1] + ExtensionSize(f.extensions[i - 1])]

LEMMA StartsExist ==
  ASSUME NEW f, NEW n \in Nat \ {0}
  PROVE  \E g : Starts(g, f, n)
<1> DEFINE A == {k \in 1..n : \E g : Starts(g, f, k)}
<1>1. 1 \in A
  <2> DEFINE g == [i \in 1..1 |-> IPStart(f) + IPSize(f)]
  <2>1. Starts(g, f, 1)
    BY DEF Starts
  <2> QED BY <2>1
<1>2. ASSUME NEW k \in 1..(n - 1), k \in A PROVE k + 1 \in A
  <2>1. PICK g : Starts(g, f, k)
    BY <1>2
  <2> DEFINE h == [i \in 1..(k + 1) |-> IF i = k + 1 THEN g[k] + ExtensionSize(f.extensions[k])
                                        ELSE g[i]]
  <2>2. ASSUME NEW i \in 1..(k + 1)
        PROVE  h[i] = IF i = 1 THEN IPStart(f) + IPSize(f)
                      ELSE h[i - 1] + ExtensionSize(f.extensions[i - 1])
    <3>1. CASE i = k + 1
      <4>1. h[i] = g[k] + ExtensionSize(f.extensions[k]) /\ i # 1 /\ i - 1 = k /\ h[k] = g[k]
        BY <3>1
      <4> QED BY <4>1
    <3>2. CASE i # k + 1
      <4>1. i \in 1..k /\ h[i] = g[i]
        BY <3>2
      <4>2. i # 1 => h[i - 1] = g[i - 1]
        BY <4>1
      <4> QED BY <2>1, <4>1, <4>2 DEF Starts
    <3> QED BY <3>1, <3>2
  <2>3. h = [i \in 1..(k + 1) |-> h[i]]
    OBVIOUS
  <2> HIDE DEF h
  <2>4. Starts(h, f, k + 1)
    BY <2>2, <2>3 DEF Starts
  <2>5. k + 1 \in 1..n
    OBVIOUS
  <2> QED BY <2>4, <2>5
<1> HIDE DEF A
<1>3. 1..n \subseteq A
  BY <1>1, <1>2, UpTo
<1> QED BY <1>3 DEF A

LEMMA StartsEquation ==
  ASSUME NEW f, Len(f.extensions) \in Nat
  PROVE  Starts(ExtensionStarts(f), f, Len(f.extensions) + 1)
<1> DEFINE n == Len(f.extensions) + 1
<1>1. ExtensionStarts(f) = CHOOSE g : Starts(g, f, n)
  BY DEF ExtensionStarts, Starts
<1>2. n \in Nat \ {0}
  OBVIOUS
<1> HIDE DEF n
<1>3. \E g : Starts(g, f, n)
  BY <1>2, StartsExist
<1>4. Starts(ExtensionStarts(f), f, n)
  BY <1>1, <1>3, Zenon
<1> QED BY <1>4 DEF n

\* Sizes of the parts that do not repeat.
LEMMA PartsOfFrame ==
  ASSUME NEW f \in Frame
  PROVE  /\ f.tags \in Nat /\ f.ihl \in 0..15
         /\ IPStart(f) \in Nat /\ IPSize(f) \in Nat
         /\ f.extensions \in Seq(Extension) /\ Len(f.extensions) \in Nat
         /\ \A i \in 1..Len(f.extensions) : ExtensionSize(f.extensions[i]) \in Nat
<1>1. /\ f.tags \in Nat /\ f.ihl \in 0..15 /\ f.extensions \in Seq(Extension)
  BY DEF Frame
<1>2. IPStart(f) \in Nat /\ IPSize(f) \in Nat
  <2>1. IPStart(f) = 14 + 4 * f.tags /\ IPSize(f) \in {4 * f.ihl, 40}
    BY DEF IPStart, IPSize, EthernetSize, TagSize
  <2>2. f.ihl \in Nat
    <3>1. f.ihl \in 0..15
      BY <1>1
    <3> QED BY <3>1
  <2>3. 4 * f.ihl \in Nat /\ 14 + 4 * f.tags \in Nat
    BY <1>1, <2>2
  <2> QED BY <2>1, <2>3
<1>3. \A i \in 1..Len(f.extensions) : f.extensions[i] \in Extension
  BY <1>1
<1> QED BY <1>1, <1>2, <1>3, SizeIsNat

\* The first header follows the IP header, each other one the one before it,
\* and none starts behind the transport header.
LEMMA StartOf ==
  ASSUME NEW f \in Frame
  PROVE  LET n == Len(f.extensions)
         IN  /\ ExtensionStart(f, 1) = IPStart(f) + IPSize(f)
             /\ \A i \in 1..n :
                  ExtensionStart(f, i + 1) = ExtensionStart(f, i) + ExtensionSize(f.extensions[i])
             /\ \A i \in 1..(n + 1) : /\ ExtensionStart(f, i) \in Nat
                                     /\ ExtensionStart(f, i) <= TransportStart(f)
<1> DEFINE n == Len(f.extensions)
           start == ExtensionStarts(f)
<1>1. /\ n \in Nat /\ IPStart(f) \in Nat /\ IPSize(f) \in Nat
      /\ \A i \in 1..n : ExtensionSize(f.extensions[i]) \in Nat
  BY PartsOfFrame
<1>2. \A i \in 1..(n + 1) : ExtensionStart(f, i) = start[i]
  BY DEF ExtensionStart
<1>3. Starts(start, f, n + 1)
  BY <1>1, StartsEquation
<1> HIDE DEF n, start
<1>4. start[1] = IPStart(f) + IPSize(f)
  BY <1>1, <1>3 DEF Starts
<1>5. ASSUME NEW i \in 1..n PROVE start[i + 1] = start[i] + ExtensionSize(f.extensions[i])
  <2>1. i + 1 \in 1..(n + 1) /\ i + 1 # 1 /\ (i + 1) - 1 = i
    BY <1>1
  <2> QED BY <1>3, <2>1 DEF Starts
<1>6. \A i \in 1..(n + 1) : start[i] \in Nat
  <2> DEFINE A == {i \in 1..(n + 1) : start[i] \in Nat}
  <2>1. 1 \in A
    BY <1>1, <1>4
  <2>2. ASSUME NEW i \in 1..n, i \in A PROVE i + 1 \in A
    BY <1>1, <1>5, <2>2
  <2>3. 1..((n + 1) - 1) = 1..n /\ n + 1 \in Nat
    BY <1>1
  <2> HIDE DEF A
  <2>4. 1..(n + 1) \subseteq A
    BY <2>1, <2>2, <2>3, UpTo
  <2> QED BY <2>4 DEF A
<1>7. ASSUME NEW j \in 1..(n + 1) PROVE start[j] <= start[n + 1]
  <2> DEFINE A == {i \in 1..(n + 1) : i >= j => start[j] <= start[i]}
  <2>1. 1 \in A
    BY <1>1, <1>6
  <2>2. ASSUME NEW i \in 1..n, i \in A PROVE i + 1 \in A
    <3>1. /\ i + 1 \in 1..(n + 1) /\ i \in 1..(n + 1) /\ start[i + 1] >= start[i]
          /\ start[i] \in Nat /\ start[i + 1] \in Nat /\ start[j] \in Nat
      BY <1>1, <1>5, <1>6
    <3>2. i + 1 >= j => i >= j \/ i + 1 = j
      BY <1>1
    <3> QED BY <2>2, <3>1, <3>2
  <2>3. 1..((n + 1) - 1) = 1..n /\ n + 1 \in Nat
    BY <1>1
  <2> HIDE DEF A
  <2>4. 1..(n + 1) \subseteq A
    BY <2>1, <2>2, <2>3, UpTo
  <2>5. n + 1 \in A /\ n + 1 >= j
    BY <1>1, <2>4
  <2> QED BY <2>5 DEF A
<1>8. TransportStart(f) = start[n + 1] /\ 1 \in 1..(n + 1)
  BY <1>1, <1>2 DEF TransportStart, n
<1>9. \A i \in 1..n : i \in 1..(n + 1) /\ i + 1 \in 1..(n + 1)
  BY <1>1
<1> QED BY <1>2, <1>4, <1>5, <1>6, <1>7, <1>8, <1>9 DEF n
-----------------------------------------------------------------------------
(* Where the parser is.                                                    *)

\* What is parsed of the IP header, and of the ports.
IPParsed == [isIP |-> TRUE, protocol |-> "other", ports |-> NoPorts,
             source |-> Unmap[frame.source], dest |-> Unmap[frame.dest]]
AllParsed == [isIP |-> TRUE, protocol |-> frame.upper, ports |-> TransportStart(frame),
              source |-> Unmap[frame.source], dest |-> Unmap[frame.dest]]

\* No header before this one sends the rest of the packet to another fragment.
NotLaterYet(i) ==
  \A j \in 1..i : frame.extensions[j].kind = "fragment" => ~IsLater(frame.part)

Place ==
  /\ at = "ethernet" => offset = 0
  /\ at = "tags" => \E j \in 0..frame.tags : offset = EthernetSize + TagSize * j
  /\ at = "ipv4" => offset = IPStart(frame) /\ frame.ether = 4
  /\ at = "ipv6" => offset = IPStart(frame) /\ frame.ether = 6
  /\ at = "extensions" =>
       /\ frame.version = 6 /\ header \in 0..Len(frame.extensions) /\ header < 8
       /\ offset = ExtensionStart(frame, header + 1)
       /\ NotLaterYet(header)
  /\ at = "ports" =>
       /\ frame.version \in {4, 6} /\ header < 8
       /\ offset = TransportStart(frame) /\ ~LaterFragment(frame)

\* What has been parsed so far.
Progress ==
  /\ header \in 0..8
  /\ at \in {"ethernet", "tags", "ipv4", "ipv6"} => header = 0 /\ parsed = Unparsed
  /\ at \in {"extensions", "ports"} => parsed = IPParsed
  /\ at = "done" => \/ parsed = Unparsed
                    \/ parsed = IPParsed
                    \/ /\ parsed = AllParsed
                       /\ frame.upper \in Transport /\ ~LaterFragment(frame)

\* The parser does not end before it has found ports that are there.
Findable ==
  /\ WellFormed(frame) /\ frame.upper \in Transport /\ ~LaterFragment(frame)
  /\ Len(frame.extensions) < 8 /\ length >= TransportStart(frame) + 4
Finds == at = "done" /\ Findable => parsed = AllParsed

Typed ==
  /\ localMAC \in {OurMAC, NoMAC} /\ frame \in Frames /\ length \in Nat
  /\ at \in {"ethernet", "tags", "ipv4", "ipv6", "extensions", "ports", "done"}
  /\ offset \in Nat /\ touched \in Nat

ParserInv == Typed /\ Place /\ Progress /\ Finds

\* Frames that occur are frames.
LEMMA FrameFacts ==
  ASSUME frame \in Frames
  PROVE  /\ frame \in Frame
         /\ frame.version # 6 => frame.extensions = <<>>
         /\ frame.ether \in {4, 6, 0} /\ frame.version \in {4, 6, 0}
         /\ frame.source \in Address /\ frame.dest \in Address
         /\ frame.upper \in Transport \cup {"other"}
         /\ frame.part.offset \in Nat
  BY PacketsAssumption DEF Frame

LEMMA ParserInit == Init => ParserInv
<1> SUFFICES ASSUME Init PROVE ParserInv
  OBVIOUS
<1>1. frame \in Frames /\ frame \in Frame
  BY FrameFacts DEF Init
<1>2. TransportStart(frame) \in Nat
  <2>1. Len(frame.extensions) \in Nat
    BY <1>1, PartsOfFrame
  <2>2. Len(frame.extensions) + 1 \in 1..(Len(frame.extensions) + 1)
    BY <2>1
  <2> QED BY <1>1, <2>2, StartOf DEF TransportStart
<1>3. length \in Nat
  BY <1>2 DEF Init
<1> QED BY <1>1, <1>3 DEF Init, ParserInv, Typed, Place, Progress, Finds

\* Types of the next state, and what no step changes.
LEMMA TypedNext == ParserInv /\ [Next]_vars => Typed' /\ UNCHANGED packet
<1> SUFFICES ASSUME ParserInv, [Next]_vars PROVE Typed' /\ UNCHANGED packet
  OBVIOUS
<1>1. frame \in Frame
  BY FrameFacts DEF ParserInv, Typed
<1> USE DEF ParserInv, Typed, packet
<1>2. CASE Ethernet
  BY <1>2 DEF Ethernet, Room, Touch, Finished, GiveUp, EthernetSize
<1>3. CASE Tag
  BY <1>3 DEF Tag, Room, Touch, Finished, GiveUp, TagSize
<1>4. CASE EtherType
  BY <1>4 DEF EtherType
<1>5. CASE ParseIPv4
  <2>1. frame.ihl \in Nat
    BY <1>1 DEF Frame
  <2> QED BY <1>5, <2>1 DEF ParseIPv4, Room, Touch, Finished, GiveUp
<1>6. CASE ParseIPv6
  BY <1>6 DEF ParseIPv6, Room, Touch, Finished, GiveUp
<1>7. CASE ParseExtension
  <2> DEFINE e == frame.extensions[header + 1]
  <2>1. ExtensionSize(e) \in Nat
    <3>1. header \in 0..8 /\ header < Len(frame.extensions) /\ Len(frame.extensions) \in Nat
      BY <1>1, <1>7, PartsOfFrame DEF ParseExtension, Progress
    <3>2. header + 1 \in 1..Len(frame.extensions)
      BY <3>1
    <3> QED BY <1>1, <3>2, PartsOfFrame
  <2> HIDE DEF e
  <2>2. CASE Advance(ExtensionSize(e)) /\ Touch(2) /\ UNCHANGED packet
    BY <2>1, <2>2 DEF Advance, Touch
  <2>3. CASE Advance(8) /\ Touch(4) /\ UNCHANGED packet
    BY <2>3 DEF Advance, Touch
  <2>4. CASE Finished /\ Touch(4) /\ UNCHANGED packet
    BY <2>4 DEF Finished, Touch
  <2>5. CASE GiveUp /\ UNCHANGED packet
    BY <2>5 DEF GiveUp, Finished
  <2> QED BY <1>7, <2>2, <2>3, <2>4, <2>5 DEF ParseExtension, e
<1>8. CASE PastExtensions
  BY <1>8 DEF PastExtensions
<1>9. CASE ParsePorts
  BY <1>9 DEF ParsePorts, Room, Touch, Finished, GiveUp
<1>10. CASE UNCHANGED vars
  BY <1>10 DEF vars, parser
<1> QED BY <1>2, <1>3, <1>4, <1>5, <1>6, <1>7, <1>8, <1>9, <1>10 DEF Next, ParseStep, Done

\* No extension header is shorter than eight bytes.
LEMMA SizeBounds ==
  ASSUME NEW e \in Extension
  PROVE  ExtensionSize(e) >= 8 /\ (e.kind = "fragment" => ExtensionSize(e) = 8)
<1>1. e.units \in Nat /\ e.kind \in {"options", "fragment", "auth"}
  BY DEF Extension
<1>2. CASE e.kind = "options"
  BY <1>1, <1>2 DEF ExtensionSize
<1>3. CASE e.kind = "fragment"
  BY <1>1, <1>3 DEF ExtensionSize
<1>4. CASE e.kind = "auth"
  BY <1>1, <1>4 DEF ExtensionSize
<1> QED BY <1>1, <1>2, <1>3, <1>4

\* The layout of a frame that occurs.
LEMMA Layout ==
  ASSUME frame \in Frames
  PROVE  /\ frame.tags \in Nat /\ frame.ihl \in Nat /\ Len(frame.extensions) \in Nat
         /\ IPStart(frame) = 14 + 4 * frame.tags
         /\ IPSize(frame) = IF frame.version = 4 THEN 4 * frame.ihl ELSE 40
         /\ ExtensionStart(frame, 1) = IPStart(frame) + IPSize(frame)
         /\ TransportStart(frame) \in Nat
         /\ TransportStart(frame) >= IPStart(frame) + IPSize(frame)
         /\ frame.extensions = <<>> => TransportStart(frame) = IPStart(frame) + IPSize(frame)
<1>1. frame \in Frame
  BY FrameFacts
<1>2. frame.tags \in Nat /\ frame.ihl \in Nat /\ Len(frame.extensions) \in Nat
  <2>1. frame.tags \in Nat /\ frame.ihl \in 0..15 /\ Len(frame.extensions) \in Nat
    BY <1>1, PartsOfFrame
  <2> QED BY <2>1
<1>3. /\ IPStart(frame) = 14 + 4 * frame.tags
      /\ IPSize(frame) = IF frame.version = 4 THEN 4 * frame.ihl ELSE 40
  BY DEF IPStart, IPSize, EthernetSize, TagSize
<1>4. ExtensionStart(frame, 1) = IPStart(frame) + IPSize(frame)
  BY <1>1, StartOf
<1>5. 1 \in 1..(Len(frame.extensions) + 1) /\ Len(frame.extensions) + 1 \in 1..(Len(frame.extensions) + 1)
  BY <1>2
<1>6. TransportStart(frame) \in Nat /\ ExtensionStart(frame, 1) <= TransportStart(frame)
  BY <1>1, <1>5, StartOf DEF TransportStart
<1>7. ASSUME frame.extensions = <<>> PROVE TransportStart(frame) = IPStart(frame) + IPSize(frame)
  <2>1. Len(frame.extensions) = 0
    BY <1>7
  <2> QED BY <1>4, <2>1 DEF TransportStart
<1>8. IPStart(frame) \in Nat /\ IPSize(frame) \in Nat
  BY <1>1, PartsOfFrame
<1> QED BY <1>2, <1>3, <1>4, <1>6, <1>7, <1>8

\* What depends on the packet only.
LEMMA PacketFrame ==
  ASSUME UNCHANGED packet
  PROVE  /\ IPParsed' = IPParsed /\ AllParsed' = AllParsed /\ (Findable' <=> Findable)
         /\ LaterFragment(frame)' <=> LaterFragment(frame)
         /\ \A i : NotLaterYet(i)' <=> NotLaterYet(i)
         /\ TransportStart(frame)' = TransportStart(frame)
         /\ frame' = frame /\ length' = length
<1>1. frame' = frame /\ length' = length
  BY DEF packet
<1>2. TransportStart(frame)' = TransportStart(frame) /\ (LaterFragment(frame)' <=> LaterFragment(frame))
  BY <1>1
<1> QED BY <1>1, <1>2 DEF IPParsed, AllParsed, Findable, NotLaterYet, WellFormed

\* The headers before the extension headers.
LEMMA PlaceEarly ==
  ASSUME ParserInv, UNCHANGED packet, Ethernet \/ Tag \/ EtherType \/ ParseIPv4 \/ ParseIPv6
  PROVE  Place' /\ Progress' /\ Finds'
<1>1. /\ frame \in Frames /\ length \in Nat /\ offset \in Nat
  BY DEF ParserInv, Typed
<1>2. /\ frame.tags \in Nat /\ frame.ihl \in Nat
      /\ IPStart(frame) = 14 + 4 * frame.tags
      /\ IPSize(frame) = IF frame.version = 4 THEN 4 * frame.ihl ELSE 40
      /\ ExtensionStart(frame, 1) = IPStart(frame) + IPSize(frame)
      /\ TransportStart(frame) \in Nat
      /\ TransportStart(frame) >= IPStart(frame) + IPSize(frame)
      /\ frame.version # 6 => TransportStart(frame) = IPStart(frame) + IPSize(frame)
      /\ Len(frame.extensions) \in Nat
  BY <1>1, Layout, FrameFacts
<1>3. /\ IPParsed' = IPParsed /\ AllParsed' = AllParsed /\ (Findable' <=> Findable)
      /\ LaterFragment(frame)' <=> LaterFragment(frame)
      /\ \A i : NotLaterYet(i)' <=> NotLaterYet(i)
      /\ TransportStart(frame)' = TransportStart(frame)
      /\ frame' = frame /\ length' = length
  BY PacketFrame
<1>4. /\ Findable => /\ length >= TransportStart(frame) + 4 /\ WellFormed(frame)
                     /\ ~LaterFragment(frame)
      /\ WellFormed(frame) => /\ frame.ether = frame.version /\ frame.version # 0
                              /\ (frame.version = 4 => frame.ihl >= 5)
      /\ frame.ether \in {4, 6, 0} /\ frame.version \in {4, 6, 0}
  BY <1>1, FrameFacts DEF Findable, WellFormed
<1>10. /\ IPStart(frame) \in Nat /\ IPStart(frame) >= 14
       /\ TransportStart(frame) \in Nat /\ TransportStart(frame) >= IPStart(frame)
  <2>1. IPSize(frame) \in Nat /\ IPStart(frame) \in Nat
    BY <1>1, FrameFacts, PartsOfFrame
  <2>2. TransportStart(frame) \in Nat /\ TransportStart(frame) >= IPStart(frame) + IPSize(frame)
    BY <1>2
  <2>3. TransportStart(frame) >= IPStart(frame)
    BY <2>1, <2>2
  <2>4. IPStart(frame) >= 14
    <3>1. frame.tags \in Nat /\ IPStart(frame) = 14 + 4 * frame.tags
      BY <1>2
    <3> QED BY <3>1
  <2> QED BY <2>1, <2>2, <2>3, <2>4
<1>5. CASE Ethernet
  <2>1. at = "ethernet" /\ offset = 0 /\ header = 0 /\ parsed = Unparsed
    BY <1>5 DEF Ethernet, ParserInv, Place, Progress
  <2>2. CASE ~Room(EthernetSize)
    <3>1. length < 14
      BY <1>1, <2>1, <2>2 DEF Room, EthernetSize
    <3>2. ~Findable
      BY <1>1, <1>4, <1>10, <3>1
    <3> QED BY <1>3, <1>5, <2>1, <2>2, <3>2
            DEF Ethernet, GiveUp, Finished, Place, Progress, Finds
  <2>3. CASE Room(EthernetSize)
    <3>1. offset' = EthernetSize + TagSize * 0 /\ 0 \in 0..frame'.tags
      BY <1>2, <1>3, <1>5, <2>3 DEF Ethernet, EthernetSize, TagSize
    <3> QED BY <1>5, <2>1, <2>3, <3>1 DEF Ethernet, Place, Progress, Finds
  <2> QED BY <2>2, <2>3
<1>6. CASE Tag
  <2>1. at = "tags" /\ header = 0 /\ parsed = Unparsed /\ offset < IPStart(frame)
    BY <1>6 DEF Tag, MoreTags, ParserInv, Progress
  <2>2. PICK j \in 0..frame.tags : offset = 14 + 4 * j
    BY <2>1 DEF ParserInv, Place, EthernetSize, TagSize
  <2>3. j + 1 \in 0..frame.tags /\ offset + 4 = 14 + 4 * (j + 1) /\ offset + 4 <= IPStart(frame)
    BY <1>2, <2>1, <2>2
  <2>4. CASE ~Room(TagSize)
    <3>1. length < offset + 4
      BY <1>1, <2>4 DEF Room, TagSize
    <3>2. ~Findable
      BY <1>1, <1>4, <1>10, <2>3, <3>1
    <3> QED BY <1>3, <1>6, <2>1, <2>4, <3>2
            DEF Tag, GiveUp, Finished, Place, Progress, Finds
  <2>5. CASE Room(TagSize)
    <3>1. offset' = EthernetSize + TagSize * (j + 1) /\ j + 1 \in 0..frame'.tags
      BY <1>3, <1>6, <2>3, <2>5 DEF Tag, EthernetSize, TagSize
    <3> QED BY <1>6, <2>1, <2>5, <3>1 DEF Tag, Place, Progress, Finds
  <2> QED BY <2>4, <2>5
<1>7. CASE EtherType
  <2>1. at = "tags" /\ header = 0 /\ parsed = Unparsed /\ offset >= IPStart(frame)
    BY <1>1, <1>2, <1>7 DEF EtherType, MoreTags, ParserInv, Progress
  <2>2. PICK j \in 0..frame.tags : offset = 14 + 4 * j
    BY <2>1 DEF ParserInv, Place, EthernetSize, TagSize
  <2>3. offset = IPStart(frame)
    <3>1. j <= frame.tags /\ j \in Int /\ 14 + 4 * j >= 14 + 4 * frame.tags
      BY <1>2, <2>1, <2>2
    <3>2. j = frame.tags
      BY <1>2, <3>1
    <3> QED BY <1>2, <2>2, <3>2
  <2>4. at' = "done" => ~Findable
    BY <1>4, <1>7 DEF EtherType
  <2> QED BY <1>3, <1>4, <1>7, <2>1, <2>3, <2>4 DEF EtherType, Place, Progress, Finds
<1>8. CASE ParseIPv4
  <2>1. /\ at = "ipv4" /\ header = 0 /\ parsed = Unparsed
        /\ offset = IPStart(frame) /\ frame.ether = 4
    BY <1>8 DEF ParseIPv4, ParserInv, Place, Progress
  <2>2. CASE ~(Room(20) /\ frame.version = 4 /\ frame.ihl >= 5 /\ Room(4 * frame.ihl))
    <3>1. Finished
      BY <1>8, <2>2 DEF ParseIPv4, GiveUp
    <3>2. ~Findable
      <4> SUFFICES ASSUME Findable PROVE FALSE
        OBVIOUS
      <4>1. /\ frame.version = 4 /\ frame.ihl >= 5
            /\ length >= TransportStart(frame) + 4
            /\ TransportStart(frame) >= offset + 4 * frame.ihl
        BY <1>2, <1>4, <2>1
      <4>2. length >= offset + 20 /\ length >= offset + 4 * frame.ihl
        BY <1>1, <1>2, <4>1
      <4> QED BY <2>2, <4>1, <4>2 DEF Room
    <3> QED BY <1>3, <2>1, <3>1, <3>2 DEF Finished, Place, Progress, Finds
  <2>3. CASE /\ frame.version = 4 /\ parsed' = Addressed /\ offset' = offset + 4 * frame.ihl
             /\ at' = IF IsLater(frame.part) THEN "done" ELSE "ports"
             /\ UNCHANGED header
    <3>1. offset' = TransportStart(frame)
      BY <1>2, <2>1, <2>3
    <3>2. LaterFragment(frame) <=> IsLater(frame.part)
      BY <2>3 DEF LaterFragment, Fragmented, IsLater
    <3>3. parsed' = IPParsed
      BY <2>1, <2>3 DEF Addressed, Unparsed, IPParsed
    <3> QED BY <1>3, <1>4, <2>1, <2>3, <3>1, <3>2, <3>3 DEF Place, Progress, Finds
  <2>4. ASSUME Room(20) /\ frame.version = 4 /\ frame.ihl >= 5 /\ Room(4 * frame.ihl)
        PROVE  /\ parsed' = Addressed /\ offset' = offset + 4 * frame.ihl
               /\ at' = IF IsLater(frame.part) THEN "done" ELSE "ports"
               /\ UNCHANGED header
    <3>1. ~(frame.version # 4 \/ frame.ihl < 5 \/ ~Room(4 * frame.ihl))
      BY <1>2, <2>4
    <3> QED BY <1>8, <2>4, <3>1 DEF ParseIPv4
  <2> QED BY <2>2, <2>3, <2>4
<1>9. CASE ParseIPv6
  <2>1. /\ at = "ipv6" /\ header = 0 /\ parsed = Unparsed
        /\ offset = IPStart(frame) /\ frame.ether = 6
    BY <1>9 DEF ParseIPv6, ParserInv, Place, Progress
  <2>2. CASE ~(Room(40) /\ frame.version = 6)
    <3>1. Finished
      BY <1>9, <2>2 DEF ParseIPv6, GiveUp
    <3>2. ~Findable
      BY <1>1, <1>2, <1>4, <2>1, <2>2 DEF Room
    <3> QED BY <1>3, <2>1, <3>1, <3>2 DEF Finished, Place, Progress, Finds
  <2>3. CASE /\ frame.version = 6 /\ parsed' = Addressed /\ offset' = offset + 40
             /\ at' = "extensions" /\ UNCHANGED header
    <3>1. offset' = ExtensionStart(frame', header' + 1)
      BY <1>2, <1>3, <2>1, <2>3
    <3>2. parsed' = IPParsed
      BY <2>1, <2>3 DEF Addressed, Unparsed, IPParsed
    <3>3. NotLaterYet(0)
      BY DEF NotLaterYet
    <3> QED BY <1>2, <1>3, <2>1, <2>3, <3>1, <3>2, <3>3 DEF Place, Progress, Finds
  <2> QED BY <1>9, <2>2, <2>3 DEF ParseIPv6, GiveUp
<1> QED BY <1>5, <1>6, <1>7, <1>8, <1>9

\* The extension headers, and the ports.
LEMMA PlaceLate ==
  ASSUME ParserInv, UNCHANGED packet, ParseExtension \/ PastExtensions \/ ParsePorts
  PROVE  Place' /\ Progress' /\ Finds'
<1>1. /\ frame \in Frames /\ frame \in Frame /\ length \in Nat /\ offset \in Nat
      /\ header \in 0..8
  BY FrameFacts DEF ParserInv, Typed, Progress
<1>2. TransportStart(frame) \in Nat /\ Len(frame.extensions) \in Nat
  BY <1>1, Layout
<1>3. /\ IPParsed' = IPParsed /\ AllParsed' = AllParsed /\ (Findable' <=> Findable)
      /\ LaterFragment(frame)' <=> LaterFragment(frame)
      /\ \A i : NotLaterYet(i)' <=> NotLaterYet(i)
      /\ TransportStart(frame)' = TransportStart(frame)
      /\ frame' = frame /\ length' = length
  BY PacketFrame
<1>4. Findable => /\ length >= TransportStart(frame) + 4 /\ ~LaterFragment(frame)
                  /\ Len(frame.extensions) < 8 /\ frame.upper \in Transport
  BY DEF Findable
<1>5. CASE ParseExtension
  <2> DEFINE e == frame.extensions[header + 1]
             size == ExtensionSize(e)
  <2>1. /\ at = "extensions" /\ header < Len(frame.extensions) /\ parsed = IPParsed
        /\ frame.version = 6 /\ header < 8
        /\ offset = ExtensionStart(frame, header + 1)
        /\ NotLaterYet(header)
    BY <1>5 DEF ParseExtension, ParserInv, Place, Progress
  <2>2. /\ header + 1 \in 1..Len(frame.extensions)
        /\ header + 1 \in 1..(Len(frame.extensions) + 1)
        /\ (header + 1) + 1 \in 1..(Len(frame.extensions) + 1)
        /\ header + 1 \in 0..Len(frame.extensions) /\ header + 1 \in 0..8
    BY <1>1, <1>2, <2>1
  <2>3. e \in Extension
    BY <1>1, <2>2, PartsOfFrame
  <2>4. size \in Nat /\ size >= 8 /\ (e.kind = "fragment" => size = 8)
    BY <2>3, SizeIsNat, SizeBounds
  <2>5. /\ ExtensionStart(frame, (header + 1) + 1) = offset + size
        /\ offset + size <= TransportStart(frame)
    BY <1>1, <2>1, <2>2, StartOf
  <2> HIDE DEF size
  \* Past a header that does not send the rest to another fragment.
  <2>6. CASE Advance(size) /\ (e.kind = "fragment" => ~IsLater(frame.part))
    <3>1. /\ offset' = ExtensionStart(frame', header' + 1)
          /\ header' = header + 1 /\ parsed' = IPParsed
          /\ at' = IF offset + size > length \/ header + 1 = 8 THEN "done" ELSE "extensions"
      BY <1>3, <2>1, <2>5, <2>6 DEF Advance, Limit
    <3>2. NotLaterYet(header + 1)
      <4>1. \A j \in 1..(header + 1) : j \in 1..header \/ j = header + 1
        BY <1>1
      <4> QED BY <2>1, <2>6, <4>1 DEF NotLaterYet
    <3>3. ASSUME offset + size > length \/ header + 1 = 8 PROVE ~Findable
      BY <1>1, <1>2, <1>4, <2>1, <2>4, <2>5, <3>3
    <3>4. CASE offset + size > length \/ header + 1 = 8
      BY <1>3, <2>2, <3>1, <3>3, <3>4 DEF Place, Progress, Finds
    <3>5. CASE ~(offset + size > length \/ header + 1 = 8)
      <4>1. at' = "extensions" /\ header' < 8
        BY <1>1, <2>1, <3>1, <3>5
      <4>2. NotLaterYet(header)'
        BY <1>3, <3>1, <3>2 DEF NotLaterYet
      <4>3. Place'
        BY <1>3, <2>1, <2>2, <3>1, <4>1, <4>2 DEF Place
      <4>4. Progress' /\ Finds'
        BY <1>3, <2>2, <3>1, <4>1 DEF Progress, Finds
      <4> QED BY <4>3, <4>4
    <3> QED BY <3>4, <3>5
  \* A header that is cut off, or a later fragment's.
  <2>7. CASE Finished /\ ~Findable
    BY <1>1, <1>3, <2>1, <2>7 DEF Finished, Place, Progress, Finds
  <2>8. CASE e.kind # "fragment" /\ ~Room(2)
    <3>1. ~Findable
      BY <1>1, <1>2, <1>4, <2>4, <2>5, <2>8 DEF Room
    <3> QED BY <1>5, <2>7, <2>8, <3>1 DEF ParseExtension, RoomForOptions, GiveUp
  <2>9. CASE e.kind # "fragment" /\ Room(2)
    BY <1>5, <2>6, <2>9 DEF ParseExtension, RoomForOptions, size
  <2>10. CASE e.kind = "fragment" /\ ~Room(8)
    <3>1. ~Findable
      BY <1>1, <1>2, <1>4, <2>4, <2>5, <2>10 DEF Room
    <3> QED BY <1>5, <2>7, <2>10, <3>1 DEF ParseExtension, RoomForFragment, GiveUp
  <2>11. CASE e.kind = "fragment" /\ Room(8) /\ IsLater(frame.part)
    <3>1. LaterFragment(frame)
      BY <1>1, <2>2, <2>11 DEF LaterFragment, Fragmented, IsLater
    <3>2. ~Findable
      BY <1>4, <3>1
    <3> QED BY <1>5, <2>7, <2>11, <3>2 DEF ParseExtension, RoomForFragment
  <2>12. CASE e.kind = "fragment" /\ Room(8) /\ ~IsLater(frame.part)
    <3>1. Advance(8)
      BY <1>5, <2>12 DEF ParseExtension, RoomForFragment
    <3> QED BY <2>4, <2>6, <2>12, <3>1
  <2> QED BY <2>8, <2>9, <2>10, <2>11, <2>12
<1>6. CASE PastExtensions
  <2>1. /\ at = "extensions" /\ header = Len(frame.extensions) /\ parsed = IPParsed
        /\ frame.version = 6 /\ header < 8
        /\ offset = ExtensionStart(frame, header + 1)
        /\ NotLaterYet(header)
        /\ at' = "ports" /\ UNCHANGED <<offset, header, parsed>>
    BY <1>6 DEF PastExtensions, ParserInv, Place, Progress
  <2>2. offset = TransportStart(frame)
    BY <2>1 DEF TransportStart
  <2>3. ~LaterFragment(frame)
    <3>1. frame.extensions \in Seq(Extension)
      BY <1>1, PartsOfFrame
    <3> QED BY <2>1, <3>1 DEF LaterFragment, Fragmented, NotLaterYet, IsLater
  <2> QED BY <1>1, <1>3, <2>1, <2>2, <2>3 DEF Place, Progress, Finds
<1>7. CASE ParsePorts
  <2>1. /\ at = "ports" /\ parsed = IPParsed
        /\ offset = TransportStart(frame) /\ ~LaterFragment(frame)
        /\ at' = "done" /\ UNCHANGED header
    BY <1>7 DEF ParsePorts, GiveUp, Finished, ParserInv, Place, Progress
  <2>2. CASE frame.upper \notin Transport \/ ~Room(4)
    <3>1. ~Findable
      BY <1>1, <1>2, <1>4, <2>1, <2>2 DEF Room
    <3>2. parsed' = IPParsed
      BY <1>7, <2>1, <2>2 DEF ParsePorts, GiveUp, Finished
    <3> QED BY <1>1, <1>3, <2>1, <3>1, <3>2 DEF Place, Progress, Finds
  <2>3. CASE frame.upper \in Transport /\ Room(4)
    <3>1. parsed' = [parsed EXCEPT !.protocol = frame.upper, !.ports = offset]
      BY <1>7, <2>3 DEF ParsePorts
    <3>2. parsed' = AllParsed
      BY <2>1, <3>1 DEF IPParsed, AllParsed
    <3> QED BY <1>1, <1>3, <2>1, <2>3, <3>2 DEF Place, Progress, Finds
  <2> QED BY <2>2, <2>3
<1> QED BY <1>5, <1>6, <1>7

LEMMA ParserNext == ParserInv /\ [Next]_vars => ParserInv'
<1> SUFFICES ASSUME ParserInv, [Next]_vars PROVE ParserInv'
  OBVIOUS
<1>1. Typed' /\ UNCHANGED packet
  BY TypedNext
<1>2. CASE Ethernet \/ Tag \/ EtherType \/ ParseIPv4 \/ ParseIPv6
  BY <1>1, <1>2, PlaceEarly DEF ParserInv
<1>3. CASE ParseExtension \/ PastExtensions \/ ParsePorts
  BY <1>1, <1>3, PlaceLate DEF ParserInv
<1>4. CASE UNCHANGED vars
  <2>1. /\ IPParsed' = IPParsed /\ AllParsed' = AllParsed /\ (Findable' <=> Findable)
        /\ LaterFragment(frame)' <=> LaterFragment(frame)
        /\ \A i : NotLaterYet(i)' <=> NotLaterYet(i)
        /\ TransportStart(frame)' = TransportStart(frame)
        /\ frame' = frame /\ length' = length
    BY <1>1, PacketFrame
  <2>2. UNCHANGED <<at, offset, header, touched, parsed>>
    BY <1>4 DEF vars, parser
  <2>3. Place' /\ Progress' /\ Finds'
    BY <2>1, <2>2 DEF ParserInv, Place, Progress, Finds
  <2> QED BY <1>1, <2>3 DEF ParserInv
<1> QED BY <1>2, <1>3, <1>4 DEF Next, ParseStep, Done

\* The parser is always at the header it takes itself to be at, has parsed
\* what it has passed, and has found at its end the ports that are there.
THEOREM ParserInvariant == Spec => []ParserInv
  BY ParserInit, ParserNext, PTL DEF Spec

-----------------------------------------------------------------------------
(* What follows of every packet.                                           *)

\* What the parser holds has its type, at every step.
THEOREM PacketTypeCorrect == Spec => []TypeOK
<1>1. ParserInv => TypeOK
  <2> SUFFICES ASSUME ParserInv PROVE TypeOK
    OBVIOUS
  <2> DEFINE Parsed == [isIP : BOOLEAN, protocol : Transport \cup {"other"},
                        ports : Nat \cup {NoPorts},
                        source : Address \cup {NoAddress}, dest : Address \cup {NoAddress}]
  <2>1. frame \in Frames
    BY DEF ParserInv, Typed
  <2>2. /\ Unmap[frame.source] \in Address /\ Unmap[frame.dest] \in Address
        /\ frame.upper \in Transport \cup {"other"}
    BY <2>1, PacketsAssumption, FrameFacts
  <2>3. TransportStart(frame) \in Nat
    BY <2>1, Layout
  <2>4. Unparsed \in Parsed
    BY DEF Unparsed
  <2>5. IPParsed \in Parsed
    BY <2>2 DEF IPParsed
  <2>6. AllParsed \in Parsed
    BY <2>2, <2>3 DEF AllParsed
  <2>7. parsed \in Parsed
    BY <2>4, <2>5, <2>6 DEF ParserInv, Typed, Progress
  <2> QED BY <2>7 DEF ParserInv, Typed, Place, Progress, TypeOK
<1> QED BY <1>1, ParserInvariant, PTL

\* A packet with ports is parsed to its end, its ports those it has.
LEMMA ParsedPorts ==
  ASSUME ParserInv, parsed.ports # NoPorts
  PROVE  parsed = AllParsed /\ frame.upper \in Transport /\ ~LaterFragment(frame)
<1>1. parsed # Unparsed /\ parsed # IPParsed
  BY DEF Unparsed, IPParsed
<1> QED BY <1>1 DEF ParserInv, Typed, Progress

\* A packet that gets ports at its cgroup has its transport header behind its
\* IP header, and is no later fragment.
LEMMA KeyPortsOwn ==
  ASSUME frame \in Frames, NEW n, Counted(frame, n), KeyPorts(frame, n) # NoPorts
  PROVE  /\ KeyPorts(frame, n) = IPSize(frame) /\ KeyProtocol(frame) = frame.upper
         /\ IPStart(frame) + IPSize(frame) = TransportStart(frame) /\ ~LaterFragment(frame)
<1>1. KeyPorts(frame, n) = IPSize(frame) /\ KeyProtocol(frame) \in Transport
  BY DEF KeyPorts
<1>2. frame.version \in {4, 6}
  BY FrameFacts DEF Counted, WellFormed
<1>3. frame.extensions = <<>> /\ KeyProtocol(frame) = frame.upper
      /\ (frame.version = 4 => ~IsLater(frame.part))
  BY <1>1, <1>2, FrameFacts DEF KeyProtocol, Transport
<1>4. ~LaterFragment(frame)
  BY <1>3 DEF LaterFragment, Fragmented, IsLater
<1> QED BY <1>1, <1>3, <1>4, Layout

\* Ports are read where the packet has them, by both parsers and however its
\* headers lead there, and a packet whose ports were captured gets them.
THEOREM PortsAreRight == Spec => []PortsRight
<1>1. ParserInv => PortsRight
  <2> SUFFICES ASSUME ParserInv PROVE PortsRight
    OBVIOUS
  <2>1. frame \in Frames
    BY DEF ParserInv, Typed
  <2>2. OnHeader
    BY DEF OnHeader, ParserInv, Place
  <2>3. PortsAreOwn
    <3> DEFINE n == length - IPStart(frame)
    <3>1. ASSUME parsed.ports # NoPorts
          PROVE  parsed.ports = TransportStart(frame) /\ ~LaterFragment(frame)
                   /\ parsed.protocol = frame.upper
      BY <3>1, ParsedPorts DEF AllParsed
    <3>2. ASSUME Counted(frame, n), KeyPorts(frame, n) # NoPorts
          PROVE  IPStart(frame) + KeyPorts(frame, n) = TransportStart(frame)
                   /\ ~LaterFragment(frame)
      <4> HIDE DEF n
      <4> QED BY <2>1, <3>2, KeyPortsOwn
    <3> QED BY <3>1, <3>2 DEF PortsAreOwn
  <2>4. PortsFound
    <3> SUFFICES ASSUME at = "done", Findable PROVE parsed.ports # NoPorts
      BY DEF PortsFound, Findable
    <3>1. parsed = AllParsed
      BY DEF ParserInv, Finds
    <3>2. TransportStart(frame) \in Nat
      BY <2>1, Layout
    <3> QED BY <3>1, <3>2 DEF AllParsed, NoPorts
  <2> QED BY <2>2, <2>3, <2>4 DEF PortsRight
<1> QED BY <1>1, ParserInvariant, PTL

\* A packet of this host is one flow, whichever way smon-net counts it: the
\* MACs tell its direction where the interface has one, its addresses elsewhere.
THEOREM FlowsAgree == Spec => []SameFlow
<1>1. ParserInv => SameFlow
  <2> DEFINE n == length - IPStart(frame)
             key == KeyFlow(frame, n)
             end(e) == <<e[1], e[2] + IPStart(frame)>>
  <2> SUFFICES ASSUME ParserInv, at = "done", parsed.ports # NoPorts,
                      Counted(frame, n), KeyPorts(frame, n) # NoPorts,
                      (Unmap[frame.source] \in LocalIPs) = frame.outgoing
               PROVE  AccountedFlow(parsed, frame)
                        = [key EXCEPT !.local = end(@), !.remote = end(@)]
    BY DEF SameFlow
  <2>1. frame \in Frames /\ localMAC \in {OurMAC, NoMAC}
    BY DEF ParserInv, Typed
  <2>2. parsed = AllParsed
    BY ParsedPorts
  <2>3. DirectionTX(parsed, frame) = frame.outgoing
    <3>1. /\ frame \in Frame
          /\ frame.sourceMAC = OurMAC => frame.outgoing
          /\ frame.destMAC = OurMAC /\ frame.sourceMAC # OurMAC => ~frame.outgoing
      BY <2>1, PacketsAssumption
    <3>2. frame.outgoing \in BOOLEAN
      BY <3>1 DEF Frame
    <3>3. parsed.isIP = TRUE /\ parsed.source = Unmap[frame.source]
      BY <2>2 DEF AllParsed
    <3> QED BY <2>1, <3>1, <3>2, <3>3 DEF DirectionTX
  <2> HIDE DEF n
  <2>4. /\ KeyPorts(frame, n) = IPSize(frame) /\ KeyProtocol(frame) = frame.upper
        /\ IPStart(frame) + IPSize(frame) = TransportStart(frame)
    BY <2>1, KeyPortsOwn
  <2>5. /\ IPStart(frame) \in Nat /\ IPSize(frame) \in Nat /\ TransportStart(frame) \in Nat
    BY <2>1, FrameFacts, PartsOfFrame, Layout
  <2> DEFINE from == Unmap[frame.source]
             to   == Unmap[frame.dest]
             size == IPSize(frame)
             ports == TransportStart(frame)
  <2>6. AccountedFlow(parsed, frame)
          = FlowKey(frame.outgoing, frame.upper, <<from, ports>>, <<to, ports + 2>>)
    BY <2>2, <2>3, <2>5 DEF AccountedFlow, AllParsed, From, To, NoPorts
  <2>7. key = FlowKey(frame.outgoing, frame.upper, <<from, size>>, <<to, size + 2>>)
    BY <2>4, <2>5 DEF KeyFlow, From, To, NoPorts
  <2>8. end(<<from, size>>) = <<from, ports>> /\ end(<<to, size + 2>>) = <<to, ports + 2>>
    BY <2>4, <2>5
  <2> DEFINE local == IF frame.outgoing THEN <<from, size>> ELSE <<to, size + 2>>
             remote == IF frame.outgoing THEN <<to, size + 2>> ELSE <<from, size>>
  <2>9. /\ key = [tx |-> frame.outgoing, protocol |-> frame.upper,
                  local |-> local, remote |-> remote]
        /\ AccountedFlow(parsed, frame)
             = [tx |-> frame.outgoing, protocol |-> frame.upper,
                local  |-> IF frame.outgoing THEN <<from, ports>> ELSE <<to, ports + 2>>,
                remote |-> IF frame.outgoing THEN <<to, ports + 2>> ELSE <<from, ports>>]
    <3> HIDE DEF from, to, size, ports, end, key
    <3> QED BY <2>6, <2>7 DEF FlowKey
  <2>10. /\ end(local) = IF frame.outgoing THEN <<from, ports>> ELSE <<to, ports + 2>>
         /\ end(remote) = IF frame.outgoing THEN <<to, ports + 2>> ELSE <<from, ports>>
    <3> HIDE DEF from, to, size, ports, end
    <3> QED BY <2>8
  <2> HIDE DEF from, to, size, ports, end, key, local, remote
  <2>11. [key EXCEPT !.local = end(@), !.remote = end(@)]
           = [tx |-> frame.outgoing, protocol |-> frame.upper,
              local |-> end(local), remote |-> end(remote)]
    <3> DEFINE x == end(key.local)
               y == end(key.remote)
    <3>1. key.local = local /\ key.remote = remote
      BY <2>9
    <3>2. x = end(local) /\ y = end(remote)
      BY <3>1
    <3> HIDE DEF x, y
    <3>3. [key EXCEPT !.local = x, !.remote = y]
            = [tx |-> frame.outgoing, protocol |-> frame.upper, local |-> x, remote |-> y]
      <4> DEFINE moved == [key EXCEPT !.local = x]
      <4>1. moved = [tx |-> frame.outgoing, protocol |-> frame.upper,
                     local |-> x, remote |-> remote]
        BY <2>9
      <4>2. [key EXCEPT !.local = x, !.remote = y] = [moved EXCEPT !.remote = y]
        BY <2>9
      <4> HIDE DEF moved
      <4> QED BY <4>1, <4>2
    <3> QED BY <3>2, <3>3, Zenon DEF x, y
  <2> QED BY <2>9, <2>10, <2>11
<1> QED BY <1>1, ParserInvariant, PTL
=============================================================================
