-------------------------------- MODULE Frame --------------------------------
(***************************************************************************)
(* A frame as the classifiers see it, and the skb helpers they call on it. *)
(*                                                                         *)
(* Everything behind the Ethernet header is a sequence of 32-bit words, so *)
(* that a load or a store at a byte offset is one at a word, whatever lies *)
(* there.  A word says what it is part of; a checksum says which pseudo    *)
(* header and ports it is the sum of.  The helpers belong to the kernel    *)
(* and are modelled from how natto64-ebpf/src/lib.rs uses them.            *)
(***************************************************************************)
EXTENDS Naturals, Sequences

Protocols == {"tcp", "udp"}
HdrWords == [ip4 |-> 5, ip6 |-> 10]           \* without IPv4 options

\* The words of an IP header h = [ver, proto, src, dst, len].
HdrWordsOf(h) == [i \in 1 .. HdrWords[h.ver] |-> [is |-> "hdr", hdr |-> h, at |-> i]]

Rest == [is |-> "rest"]            \* transport words nothing looks at
Option == [is |-> "option"]        \* a word of IPv4 options
Junk == [is |-> "junk"]            \* room that was made and not yet written
Mangled == [is |-> "mangled"]      \* a word some store has hit by mistake

SumOf(src, dst, sport, dport) ==
    [pseudo |-> <<src, dst>>, ports |-> <<sport, dport>>]
ZeroSum == [pseudo |-> <<>>, ports |-> <<>>]
WrongSum == [pseudo |-> <<>>, ports |-> <<0>>]

PortsWord(sport, dport) == [is |-> "ports", src |-> sport, dst |-> dport]

\* The transport header and payload of a TCP or UDP packet.
Transport(proto, sport, dport, len, sum) ==
    IF proto = "udp"
      THEN <<PortsWord(sport, dport), [is |-> "udp", len |-> len, sum |-> sum]>>
      ELSE <<PortsWord(sport, dport), Rest, Rest, Rest, [is |-> "sum", sum |-> sum]>>

\* Where the checksum is, from the first word of the transport header: the
\* offsets 6 and 16.
SumAt(proto, l4) == IF proto = "udp" THEN l4 + 1 ELSE l4 + 4

Packet(h, options, transport) ==
    [ether |-> h.ver, skb |-> h.ver, words |-> HdrWordsOf(h) \o options \o transport]

\* What is left of words when only n arrive.
Cut(words, n) == SubSeq(words, 1, IF n < Len(words) THEN n ELSE Len(words))

\* What arrives of a packet: its first n words, as some ether type.
Received(f, ether, n) ==
    [ether |-> ether, skb |-> f.skb, words |-> Cut(f.words, n)]

\* The header at the front of a frame.
HeaderOf(f) == f.words[1].hdr

-----------------------------------------------------------------------------
(* The helpers.                                                            *)

HasWord(f, i) == i =< Len(f.words)

\* skb->change_proto to IPv4 takes the first 20 bytes behind the Ethernet
\* header away, to IPv6 it makes room for 20 there.
Shrunk(f) == [f EXCEPT !.skb = "ip4", !.words = SubSeq(@, 6, Len(@))]
Grown(f) == [f EXCEPT !.skb = "ip6", !.words = [i \in 1 .. 5 |-> Junk] \o @]

\* write_ipv4_header, write_ipv6_header: a store at the network offset.
HeaderStored(f, h) ==
    [f EXCEPT !.words = HdrWordsOf(h) \o SubSeq(@, HdrWords[h.ver] + 1, Len(@))]

WordStored(f, i, w) == [f EXCEPT !.words = [@ EXCEPT ![i] = w]]

\* A port stored into the high or the low half of word i.
SourcePortStored(f, i, p) ==
    WordStored(f, i, IF f.words[i].is = "ports" THEN [f.words[i] EXCEPT !.src = p]
                     ELSE Mangled)
DestPortStored(f, i, p) ==
    WordStored(f, i, IF f.words[i].is = "ports" THEN [f.words[i] EXCEPT !.dst = p]
                     ELSE Mangled)

\* l4_csum_replace: a checksum is corrected by a difference.  It is right
\* afterwards when it was the sum of what the difference is taken from.
Corrected(sum, pseudo, newPseudo, ports, newPorts) ==
    IF sum.pseudo = pseudo /\ sum.ports = ports
      THEN [pseudo |-> newPseudo, ports |-> newPorts]
      ELSE WrongSum

SumCorrected(f, i, pseudo, newPseudo, ports, newPorts) ==
    LET w == f.words[i] IN
    WordStored(f, i,
        IF w.is \in {"udp", "sum"}
          THEN [w EXCEPT !.sum = Corrected(@, pseudo, newPseudo, ports, newPorts)]
          ELSE Mangled)
=============================================================================
