------------------------------ MODULE Packets ------------------------------
(***************************************************************************)
(* One packet on its way to a flow, through the two parsers of smon-net:   *)
(* ParsePacket (packet.go) with directionTX and Account (aggregate.go) for *)
(* frames of the AF_PACKET ring, and count_packet (netmon.c) with          *)
(* flowFromBPFKey (ebpf_linux.go) for packets of the cgroup hooks.         *)
(*                                                                         *)
(* Modelled: every header with its true size, frames cut off at any byte,  *)
(* the offset each parser has reached and each byte it needs, malformed    *)
(* headers, fragments, the limit on IPv6 extension headers, mapped         *)
(* addresses, and which end is the local one.                              *)
(*                                                                         *)
(* Abstracted: what a header holds beyond its size and its type.  Ports    *)
(* are the position they are read at: the packet has its ports where its   *)
(* transport header starts, any other position is not its ports.           *)
(***************************************************************************)
EXTENDS Integers, Sequences

CONSTANTS
  Address,   \* IP addresses
  Unmap,     \* the address without the ::ffff: prefix, netip.Addr.Unmap
  LocalIPs,  \* the interface's addresses, without prefixes
  OurMAC,    \* the MAC of an interface that has one
  Frames     \* the frames that occur

Transport == {"tcp", "udp"}
NoPorts == -1
NoMAC == "none"      \* of loopback
NoAddress == "none"  \* of a packet that is not IP

\* An extension header: "options" stands for hop-by-hop, routing and
\* destination options, units for its length field.
Extension == [kind : {"options", "fragment", "auth"}, units : Nat]

\* tags: the VLAN tags.  ether, version: what the EtherType and the first
\* four bits say.  ihl: the IPv4 header's length field.  part: the fragment
\* this is, of a packet whose fragments each have an offset and perhaps the
\* flag for more.  outgoing: the interface sends the frame.
Frame == [tags : Nat, ether : {4, 6, 0}, version : {4, 6, 0}, ihl : 0..15,
          part : [offset : Nat, more : BOOLEAN], extensions : Seq(Extension),
          upper : Transport \cup {"other"},
          source : Address, dest : Address, sourceMAC : STRING, destMAC : STRING,
          outgoing : BOOLEAN]

\* Only IPv6 has extension headers.  The MAC of an interface is the source of
\* frames it sends and not of others, and it sends none to itself.
ASSUME PacketsAssumption ==
  /\ Unmap \in [Address -> Address]
  /\ \A a \in Address : Unmap[Unmap[a]] = Unmap[a]
  /\ LocalIPs \subseteq {Unmap[a] : a \in Address}
  /\ OurMAC # NoMAC
  /\ \A f \in Frames :
       /\ f \in Frame
       /\ f.version # 6 => f.extensions = <<>>
       /\ f.sourceMAC = OurMAC => f.outgoing
       /\ f.destMAC = OurMAC /\ f.sourceMAC # OurMAC => ~f.outgoing

VARIABLES
  localMAC,\* of the interface: OurMAC, or NoMAC where it has none
  frame,   \* the packet
  length,  \* of the data there is of it
  at,      \* where ParsePacket is
  offset,  \* how far it has come
  header,  \* the extension headers it has passed
  touched, \* history: the bytes it has looked at, from the beginning
  parsed   \* Packet, the result

parser == <<at, offset, header, touched, parsed>>
packet == <<localMAC, frame, length>>
vars == <<packet, parser>>

-----------------------------------------------------------------------------
(* The layout of a packet.                                                 *)

EthernetSize == 14
TagSize == 4

ExtensionSize(e) ==
  CASE e.kind = "options"  -> (e.units + 1) * 8
    [] e.kind = "fragment" -> 8
    [] e.kind = "auth"     -> (e.units + 2) * 4

IPStart(f) == EthernetSize + TagSize * f.tags
IPSize(f) == IF f.version = 4 THEN 4 * f.ihl ELSE 40
\* Where each extension header starts, and what follows the last one.
ExtensionStarts(f) ==
  LET start[i \in 1..(Len(f.extensions) + 1)] ==
        IF i = 1 THEN IPStart(f) + IPSize(f)
        ELSE start[i - 1] + ExtensionSize(f.extensions[i - 1])
  IN  start
ExtensionStart(f, i) == ExtensionStarts(f)[i]
TransportStart(f) == ExtensionStart(f, Len(f.extensions) + 1)

Fragmented(f) == f.version = 4 \/ \E i \in DOMAIN f.extensions : f.extensions[i].kind = "fragment"
LaterFragment(f) == Fragmented(f) /\ f.part.offset # 0

\* The frame is what it says it is; of other packets nothing is asked.
WellFormed(f) == f.ether = f.version /\ f.version # 0 /\ (f.version = 4 => f.ihl >= 5)

-----------------------------------------------------------------------------
(* ParsePacket.                                                            *)

Unparsed == [isIP |-> FALSE, protocol |-> "other", ports |-> NoPorts,
             source |-> NoAddress, dest |-> NoAddress]

Room(n) == length >= offset + n
RoomForOptions == Room(2)
RoomForFragment == Room(8)

Touch(n) == touched' = IF offset + n > touched THEN offset + n ELSE touched

Finished == at' = "done" /\ UNCHANGED <<offset, header, parsed>>
GiveUp == Finished /\ UNCHANGED touched

Ethernet ==
  /\ at = "ethernet"
  /\ IF ~Room(EthernetSize) THEN GiveUp
     ELSE /\ Touch(EthernetSize)
          /\ offset' = EthernetSize
          /\ at' = "tags"
          /\ UNCHANGED <<header, parsed>>
  /\ UNCHANGED packet

MoreTags == offset < IPStart(frame)

Tag ==
  /\ at = "tags" /\ MoreTags
  /\ IF ~Room(TagSize) THEN GiveUp
     ELSE /\ Touch(TagSize)
          /\ offset' = offset + TagSize
          /\ UNCHANGED <<at, header, parsed>>
  /\ UNCHANGED packet

EtherType ==
  /\ at = "tags" /\ ~MoreTags
  /\ at' = CASE frame.ether = 4 -> "ipv4" [] frame.ether = 6 -> "ipv6" [] OTHER -> "done"
  /\ UNCHANGED <<offset, header, touched, parsed, packet>>

\* A port is added to each address by parsePorts.
Addressed == [parsed EXCEPT !.isIP = TRUE, !.source = Unmap[frame.source],
                            !.dest = Unmap[frame.dest]]

\* As if the flags were a part of the offset.
IsPart(part) == part.offset # 0 \/ part.more

IsLater(part) == part.offset # 0

ParseIPv4 ==
  /\ at = "ipv4"
  /\ \/ /\ ~Room(20)
        /\ GiveUp
     \/ /\ Room(20)
        /\ frame.version # 4 \/ frame.ihl < 5 \/ ~Room(4 * frame.ihl)
        /\ Touch(1) /\ Finished
     \/ /\ Room(20) /\ frame.version = 4 /\ frame.ihl >= 5 /\ Room(4 * frame.ihl)
        /\ Touch(20)
        /\ parsed' = Addressed
        /\ offset' = offset + 4 * frame.ihl
        /\ at' = IF IsLater(frame.part) THEN "done" ELSE "ports"
        /\ UNCHANGED header
  /\ UNCHANGED packet

ParseIPv6 ==
  /\ at = "ipv6"
  /\ \/ /\ ~Room(40)
        /\ GiveUp
     \/ /\ Room(40) /\ frame.version # 6
        /\ Touch(1) /\ Finished
     \/ /\ Room(40) /\ frame.version = 6
        /\ Touch(40)
        /\ parsed' = Addressed
        /\ offset' = offset + 40
        /\ at' = "extensions"
        /\ UNCHANGED header
  /\ UNCHANGED packet

LimitOfNine == 9

Limit == 8

\* The loop's body for each header; the ninth is not looked at.
Advance(n) ==
  /\ offset' = offset + n
  /\ header' = header + 1
  /\ at' = IF offset + n > length \/ header + 1 = Limit THEN "done" ELSE "extensions"
  /\ UNCHANGED parsed

ParseExtension ==
  /\ at = "extensions" /\ header < Len(frame.extensions)
  /\ LET e == frame.extensions[header + 1] IN
       \/ /\ e.kind # "fragment"
          /\ IF ~RoomForOptions THEN GiveUp
             ELSE Touch(2) /\ Advance(ExtensionSize(e))
       \/ /\ e.kind = "fragment"
          /\ IF ~RoomForFragment THEN GiveUp
             ELSE /\ Touch(4)
                  /\ IF IsLater(frame.part) THEN Finished ELSE Advance(8)
  /\ UNCHANGED packet

PastExtensions ==
  /\ at = "extensions" /\ header = Len(frame.extensions)
  /\ at' = "ports"
  /\ UNCHANGED <<offset, header, touched, parsed, packet>>

ParsePorts ==
  /\ at = "ports"
  /\ IF frame.upper \notin Transport \/ ~Room(4) THEN GiveUp
     ELSE /\ Touch(4)
          /\ parsed' = [parsed EXCEPT !.protocol = frame.upper, !.ports = offset]
          /\ at' = "done"
          /\ UNCHANGED <<offset, header>>
  /\ UNCHANGED packet

-----------------------------------------------------------------------------
(* The flow of a frame: directionTX, then Account.                         *)

\* As if an interface without a MAC received only.
DirectionByMAC(p, f) == localMAC # NoMAC /\ f.sourceMAC = localMAC

DirectionTX(p, f) ==
  CASE localMAC # NoMAC /\ f.sourceMAC = localMAC -> TRUE
    [] localMAC # NoMAC /\ f.sourceMAC # localMAC /\ f.destMAC = localMAC -> FALSE
    [] OTHER -> p.isIP /\ p.source \in LocalIPs

FlowKey(tx, protocol, from, to) ==
  [tx |-> tx, protocol |-> protocol,
   local |-> IF tx THEN from ELSE to, remote |-> IF tx THEN to ELSE from]

\* An address with its port: the two ports are beside each other.
From(address, ports) == <<address, ports>>
To(address, ports) == <<address, IF ports = NoPorts THEN NoPorts ELSE ports + 2>>

AccountedFlow(p, f) ==
  FlowKey(DirectionTX(p, f), p.protocol, From(p.source, p.ports), To(p.dest, p.ports))

-----------------------------------------------------------------------------
(* The flow of a packet at the cgroup hooks, where it begins with its IP   *)
(* header and n bytes are left of it: count_packet, then flowFromBPFKey.   *)
(* The kernel has checked the header.                                      *)

Counted(f, n) == WellFormed(f) /\ n >= IF f.version = 4 THEN 20 ELSE 40

\* As if what follows the IP header were always the transport's.
KeyProtocolOfPacket(f) == f.upper

\* The protocol of the IP header: extension headers are not followed.
KeyProtocol(f) ==
  IF f.version = 4 THEN IF IsLater(f.part) THEN "none" ELSE f.upper
  ELSE IF f.extensions = <<>> THEN f.upper ELSE "extension"

KeyPorts(f, n) ==
  IF KeyProtocol(f) \in Transport /\ n >= IPSize(f) + 4 THEN IPSize(f) ELSE NoPorts

KeyFlow(f, n) ==
  FlowKey(f.outgoing, KeyProtocol(f), From(Unmap[f.source], KeyPorts(f, n)),
          To(Unmap[f.dest], KeyPorts(f, n)))

-----------------------------------------------------------------------------
\* The ring may have kept a part of the frame only.
Init ==
  /\ localMAC \in {OurMAC, NoMAC}
  /\ frame \in Frames
  /\ length \in 0..(TransportStart(frame) + 5)
  /\ at = "ethernet"
  /\ offset = 0 /\ header = 0 /\ touched = 0
  /\ parsed = Unparsed

ParseStep ==
  \/ Ethernet \/ Tag \/ EtherType
  \/ ParseIPv4 \/ ParseIPv6
  \/ ParseExtension \/ PastExtensions
  \/ ParsePorts

Done == at = "done" /\ UNCHANGED vars

Next == ParseStep \/ Done

Spec == Init /\ [][Next]_vars

-----------------------------------------------------------------------------
(* Properties.                                                             *)

TypeOK ==
  /\ localMAC \in {OurMAC, NoMAC} /\ frame \in Frames /\ length \in Nat
  /\ at \in {"ethernet", "tags", "ipv4", "ipv6", "extensions", "ports", "done"}
  /\ offset \in Nat /\ touched \in Nat
  /\ header \in 0..8 /\ (at \in {"extensions", "ports"} => header < 8)
  /\ parsed \in [isIP : BOOLEAN, protocol : Transport \cup {"other"}, ports : Nat \cup {NoPorts},
                 source : Address \cup {NoAddress}, dest : Address \cup {NoAddress}]

\* No byte is looked at that was not captured, wherever the frame is cut off:
\* in Go that would end the collector.
ReadsInBounds == touched <= length

\* The offset is that of the next header, whatever came before.
OnHeader == at = "extensions" => offset = ExtensionStart(frame, header + 1)

\* Neither parser takes ports from where the packet does not have them: the
\* middle of a header, an extension header, or the data of a later fragment.
PortsAreOwn ==
  /\ parsed.ports # NoPorts =>
       parsed.ports = TransportStart(frame) /\ ~LaterFragment(frame)
         /\ parsed.protocol = frame.upper
  /\ LET n == length - IPStart(frame) IN
     Counted(frame, n) /\ KeyPorts(frame, n) # NoPorts =>
       IPStart(frame) + KeyPorts(frame, n) = TransportStart(frame) /\ ~LaterFragment(frame)

\* Ports that were captured are found behind any number of tags and up to
\* seven extension headers; a first fragment has them.
PortsFound ==
  at = "done" /\ WellFormed(frame) /\ frame.upper \in Transport /\ ~LaterFragment(frame)
    /\ Len(frame.extensions) < 8 /\ length >= TransportStart(frame) + 4
  => parsed.ports # NoPorts

\* A packet gets its ports exactly if it has them where they can be captured,
\* and both parsers look for them where they are.
PortsRight == OnHeader /\ PortsAreOwn /\ PortsFound

\* A packet with one end on this host is the same flow, in the same direction,
\* whether it is counted at its cgroup or read from the ring.
SameFlow ==
  LET n == length - IPStart(frame) IN
  at = "done" /\ parsed.ports # NoPorts
    /\ Counted(frame, n) /\ KeyPorts(frame, n) # NoPorts
    /\ (Unmap[frame.source] \in LocalIPs) = frame.outgoing
  => LET ring == AccountedFlow(parsed, frame)
         key  == KeyFlow(frame, n)
         end(e) == <<e[1], e[2] + IPStart(frame)>>
     IN  ring = [key EXCEPT !.local = end(@), !.remote = end(@)]
=============================================================================
