----------------------------- MODULE MCPackets -----------------------------
(* Packets for TLC: frames with every kind of header, one or two of a kind *)
(* at a time, in both directions.                                          *)
EXTENDS Packets, TLC

MCUnmap == [a \in Address |-> IF a = "mapped us" THEN "us" ELSE a]

Options(n) == [kind |-> "options", units |-> n]
Auth(n) == [kind |-> "auth", units |-> n]
Fragment == [kind |-> "fragment", units |-> 0]
Many(e, n) == [i \in 1..n |-> e]

Base == [tags |-> 0, ether |-> 4, version |-> 4, ihl |-> 5,
         part |-> [offset |-> 0, more |-> FALSE], extensions |-> <<>>, upper |-> "tcp",
         source |-> "peer", dest |-> "us", sourceMAC |-> "router", destMAC |-> "card",
         outgoing |-> FALSE]

\* Whole packets, first, middle and last fragments.
Parts == [offset : {0, 3}, more : BOOLEAN]

IPv4 == {[Base EXCEPT !.ihl = i, !.part = p, !.upper = u, !.tags = t] :
           i \in {4, 5, 6}, p \in Parts, u \in {"tcp", "other"}, t \in {0, 2}}

Chains == {<<>>, <<Options(0)>>, <<Auth(1)>>, <<Options(1), Auth(2)>>, <<Fragment>>,
           <<Options(0), Fragment, Auth(0)>>, Many(Options(0), 7), Many(Auth(0), 8)}

IPv6 == {[Base EXCEPT !.ether = 6, !.version = 6, !.extensions = c, !.part = p, !.upper = u] :
           c \in Chains, p \in Parts, u \in {"udp", "other"}}

\* A later fragment's headers end with the fragment header.
Regular(f) ==
  \A i \in DOMAIN f.extensions :
    f.extensions[i].kind = "fragment" /\ f.part.offset # 0 => i = Len(f.extensions)

Strange == {[Base EXCEPT !.ether = 0], [Base EXCEPT !.ether = 6], [Base EXCEPT !.version = 6]}

Sent(f) == [f EXCEPT !.source = f.dest, !.dest = f.source, !.sourceMAC = f.destMAC,
                     !.destMAC = f.sourceMAC, !.outgoing = TRUE]

Received == {f \in IPv4 \cup IPv6 \cup Strange : Regular(f)}
            \cup {[f EXCEPT !.dest = "mapped us", !.destMAC = "all"] :
                    f \in {g \in IPv6 : g.extensions = <<>>}}

MCFrames == Received \cup {Sent(f) : f \in Received}
=============================================================================
