---------------------------- MODULE MCClassifiers ----------------------------
(* Classifiers with two clients that hash to one pool address of two, two  *)
(* servers and the packets that reach each check.                          *)
EXTENDS Classifiers

CONSTANTS a, b, s, s2, e1, e2, other

MCPool == <<e1, e2>>
MCHash == [c \in Clients |-> IF c = a THEN 4 ELSE 6]
MCZeroHalves == {<<b, 1>>}

\* Packets of the kinds that are translated, none of them cut; two clients
\* that compete for the UDP tuples of one server are enough.
MCWhole6 ==
    {<<a, Prefix, s, proto, "ok", "ip6", 15>> : proto \in Protocols}
    \cup {<<b, Prefix, s, "udp", "ok", "ip6", 15>>}

MCArriving6 ==
    MCWhole6
    \cup {<<a, Prefix, s, proto, "long", "ip6", 15>> : proto \in Protocols}
    \cup {<<a, Prefix, s, proto, "ok", "ip6", 15>> : proto \in {"extension", "icmp"}}
    \cup {<<a, Prefix, s, proto, "ok", "ip6", n>> :
            proto \in Protocols, n \in {10, 11}}
    \cup {<<a, Prefix, s, "tcp", "ok", "ip6", 9>>,
          <<a, other, s, "tcp", "ok", "ip6", 15>>,
          <<a, Prefix, s, "tcp", "ok", "arp", 15>>}

MCArriving4 ==
    {<<s, e1, port, proto, 0, "ok", "good", "ip4", 15>> :
        port \in ExtPorts, proto \in Protocols}
    \cup {<<s2, e1, 1, proto, 0, "ok", "good", "ip4", 15>> : proto \in Protocols}
    \cup {<<s, e2, 1, "udp", 0, "ok", "good", "ip4", 15>>,
          <<s, other, 1, "tcp", 0, "ok", "good", "ip4", 15>>,
          <<s, e1, 1, "tcp", 0, "malformed", "good", "ip4", 15>>,
          <<s, e1, 1, "tcp", 0, "ok", "good", "ip4", 4>>,
          <<s, e1, 1, "tcp", 0, "ok", "good", "arp", 15>>}
    \cup {<<s, e1, 1, proto, 0, "ok", "good", "ip4", 15>> :
            proto \in {"fragment", "icmp"}}
    \cup {<<s, e1, 1, proto, 0, "ok", "good", "ip4", n>> :
            proto \in Protocols, n \in {5, 6}}
    \cup {<<s, e1, 1, proto, 0, "long", "good", "ip4", 15>> : proto \in Protocols}
    \cup {<<s, e1, 1, proto, 1, "ok", "good", "ip4", 16>> : proto \in Protocols}
    \cup {<<s, e1, 1, "udp", 0, "ok", "zero", "ip4", 15>>}
=============================================================================
