----------------------------- MODULE Classifiers -----------------------------
(***************************************************************************)
(* What the two classifiers do to one packet: try_nat64_forward and        *)
(* try_nat64_reverse (natto64-ebpf/src/lib.rs), stage by stage, with the   *)
(* production counters each stage counts, and of the debug counters the one *)
(* for a failed NAT insert of a UDP packet, which nothing else records.    *)
(*                                                                         *)
(* A run handles its own packet and copies what it reads from the maps, so *)
(* runs are taken one at a time; what runs on several CPUs do to the maps  *)
(* is in SessionTable, which port they get in PortAllocator.  The          *)
(* configuration is fixed: an attached instance has both interfaces.       *)
(***************************************************************************)
EXTENDS Frame, FiniteSets

CONSTANTS
    Clients,
    Servers,
    ExtPorts,      \* port_min .. port_max
    Pool,          \* v4_pool: a sequence of addresses
    Hash,          \* the hash of each client's address
    Prefix,        \* prefix96
    WellKnown,     \* 64:ff9b::/96
    ZeroHalves,    \* <<c, i>>: word i of client c's address has a zero low half
    ClientPort,
    ServerPort,
    Arriving6,     \* what may reach the forward classifier: client, prefix,
                   \* server, protocol, length, ether type, words that are there
    Arriving4,     \* and the reverse one: server, address, port, protocol,
                   \* option words, length, checksum, ether type, words
    Failures       \* whether helpers and map updates may fail

ASSUME ConfigAssumption ==
    /\ Len(Pool) \in 1 .. 16               \* validate() and V4_POOL_MAX
    /\ DOMAIN Pool = 1 .. Len(Pool)
    /\ Hash \in [Clients -> Nat]
    /\ ZeroHalves \subseteq Clients \X (1 .. 4)
    /\ Failures \in BOOLEAN

ASSUME ArrivingAssumption ==
    /\ \A k \in Arriving6 : k[1] \in Clients /\ k[3] \in Servers /\ k[7] \in Nat
    /\ \A k \in Arriving4 :
         /\ k[5] \in Nat /\ k[9] \in Nat
         /\ k[7] = "zero" => k[4] = "udp"    \* TCP has a checksum

VARIABLES
    fwd,       \* FWD_NAT: flow -> [ext, port], on the flows that have a mapping
    nat,       \* NAT: [ext, port, proto] -> flow, on the keys that have an entry
    frame,     \* the packet now
    run,       \* the run that handles it, and its locals
    arrived,   \* history: the packet as it arrived
    counted    \* history: the counters this run has counted

vars == <<fwd, nat, frame, run, arrived, counted>>

\* A flow is a FwdNatKey; NatVal holds the same fields.
Flow(client, cport, server, sport, proto) ==
    [client |-> client, cport |-> cport, server |-> server, sport |-> sport,
     proto |-> proto]
NatKeyOf(ext, port, proto) == [ext |-> ext, port |-> port, proto |-> proto]

Drop(map, k) == [x \in DOMAIN map \ {k} |-> map[x]]
Put(map, k, v) == [x \in DOMAIN map \cup {k} |-> IF x = k THEN v ELSE map[x]]

Nothing == [skb |-> "none", ether |-> "none", words |-> <<>>]
Blank == [dir |-> "none", proto |-> "none", stage |-> "done", hdr |-> 5,
          flow |-> {}, ext |-> {}, port |-> 0, verdict |-> "none"]

Init ==
    /\ fwd = <<>> /\ nat = <<>>
    /\ frame = Nothing /\ arrived = Nothing
    /\ run = Blank
    /\ counted = {}

-----------------------------------------------------------------------------
(* The order of the stages.                                                *)

\* The TCP branch rewrites the protocol before it knows the ports.
ForwardTcpStages ==
    <<"length", "proto", "ether", "ports", "map", "header", "port", "sum",
      "nat", "redirect">>

\* A UDP branch that rewrites the protocol before it has the mapping.
ForwardUdpStagesEarly ==
    <<"ports", "length", "proto", "ether", "map", "header", "port", "sum",
      "nat", "redirect">>

\* The UDP branch does so once it has the mapping.
ForwardUdpStages ==
    <<"ports", "length", "map", "proto", "ether", "header", "port", "sum",
      "nat", "redirect">>

ReverseTcpStages ==
    <<"length", "ports", "lookup", "proto", "ether", "header", "port", "sum",
      "redirect">>

\* The checksum of the packet is looked at when all but it is rewritten.
ReverseUdpStages ==
    <<"ports", "length", "lookup", "proto", "ether", "header", "port", "zero",
      "sum", "redirect">>

StagesOf(dir, proto) ==
    IF dir = "fwd"
      THEN IF proto = "tcp" THEN ForwardTcpStages ELSE ForwardUdpStages
      ELSE IF proto = "tcp" THEN ReverseTcpStages ELSE ReverseUdpStages

\* The stage that follows the present one.
Following ==
    LET stages == StagesOf(run.dir, run.proto)
        i == CHOOSE j \in 1 .. Len(stages) - 1 : stages[j] = run.stage
    IN  stages[i + 1]

At(stage) == run.stage = stage
Forward == run.dir = "fwd"
Tcp == run.proto = "tcp"

Proceed == run' = [run EXCEPT !.stage = Following]
End(verdict) == run' = [run EXCEPT !.stage = "done", !.verdict = verdict]
Count(names) == counted' = counted \cup names

\* The counters have a name per direction and, some, per protocol.
ErrCsum == IF Forward THEN "nat64_v6_to_v4_err_csum" ELSE "nat64_v4_to_v6_err_csum"
ErrHdr == IF Forward THEN "nat64_v6_to_v4_err_write_hdr"
          ELSE "nat64_v4_to_v6_err_write_hdr"
OkOf(dir, proto) ==
    IF dir = "fwd"
      THEN IF proto = "tcp" THEN "nat64_v6_to_v4_ok" ELSE "nat64_v6_to_v4_udp_ok"
      ELSE IF proto = "tcp" THEN "nat64_v4_to_v6_ok" ELSE "nat64_v4_to_v6_udp_ok"
RedirectOk(dir) == IF dir = "fwd" THEN "fwd_redirect_ok" ELSE "rev_redirect_ok"
RedirectErr(dir) == IF dir = "fwd" THEN "fwd_redirect_err" ELSE "rev_redirect_err"

-----------------------------------------------------------------------------
(* Arrival, and the checks before the branch on the protocol.              *)

\* select_v4_from_pool_ebpf and v4_in_pool.
SelectedOf(client) == Pool[(Hash[client] % Len(Pool)) + 1]
InPool(a) == a \in {Pool[i] : i \in DOMAIN Pool}

Whole6(f) == f.ether = "ip6" /\ HasWord(f, 10)       \* parse_ipv6_base
ForPrefix(f) == Whole6(f) /\ HeaderOf(f).dst[1] = Prefix
Translatable6(f) == ForPrefix(f) /\ HeaderOf(f).proto \in Protocols

Counted6(f) ==
    {"pkts_total"}
    \cup {x \in {"pkts_ipv6"} : f.ether = "ip6"}
    \cup (IF ForPrefix(f)
            THEN {"pkts_nat64_dst",
                  CASE HeaderOf(f).proto = "tcp" -> "pkts_nat64_tcp"
                    [] HeaderOf(f).proto = "udp" -> "pkts_nat64_udp"
                    [] HeaderOf(f).proto = "extension" ->
                         "unsupported_ipv6_extension_headers"
                    [] OTHER -> "unsupported_ipv6_non_tcp_udp"}
            ELSE {})

\* A version that is not 4, an ihl out of range or a total length below it
\* are "malformed".
Whole4(f) == f.ether = "ip4" /\ HasWord(f, 5) /\ HeaderOf(f).len # "malformed"
ForPool(f) == Whole4(f) /\ InPool(HeaderOf(f).dst)
Translatable4(f) == ForPool(f) /\ HeaderOf(f).proto \in Protocols

Counted4(f) ==
    {"pkts_total"}
    \cup {x \in {"pkts_ipv4"} : f.ether = "ip4"}
    \cup (IF ForPool(f)
            THEN {CASE HeaderOf(f).proto = "tcp" -> "pkts_ipv4_tcp"
                    [] HeaderOf(f).proto = "udp" -> "pkts_ipv4_udp"
                    [] HeaderOf(f).proto = "fragment" -> "unsupported_ipv4_fragments"
                    [] OTHER -> "unsupported_ipv4_non_tcp_udp"}
            ELSE {})

\* ihl: the words of the IPv4 header with its options.
Ihl(f) == Cardinality({i \in DOMAIN f.words : f.words[i].is \in {"hdr", "option"}})

\* The first n words of a packet, k being one of Arriving6 or Arriving4.
Frame6(k) ==
    LET client == k[1]  dst == <<k[2], k[3]>>  proto == k[4]  len == k[5]
        ether == k[6]   n == k[7] IN
    Received(
        Packet([ver |-> "ip6", proto |-> proto, src |-> client, dst |-> dst,
                len |-> len],
               <<>>,
               Transport(proto, ClientPort, ServerPort, len,
                         SumOf(client, dst, ClientPort, ServerPort))),
        ether, n)

Frame4(k) ==
    LET server == k[1]  ext == k[2]  port == k[3]  proto == k[4]  options == k[5]
        len == k[6]     sum == k[7]  ether == k[8]  n == k[9] IN
    Received(
        Packet([ver |-> "ip4", proto |-> proto, src |-> server, dst |-> ext,
                len |-> len],
               [i \in 1 .. options |-> Option],
               Transport(proto, ServerPort, port, len,
                         IF sum = "zero" THEN ZeroSum
                         ELSE SumOf(server, ext, ServerPort, port))),
        ether, n)

\* The frames that arrive.
Frames6 == [k \in Arriving6 |-> Frame6(k)]
Frames4 == [k \in Arriving4 |-> Frame4(k)]

Arrive(f, names) ==
    /\ At("done")
    /\ frame' = f /\ arrived' = f
    /\ counted' = names
    /\ UNCHANGED <<fwd, nat>>

\* A packet that is not for the translator, or of a kind it does not handle.
Ignore6(k) ==
    LET f == Frames6[k] IN
    /\ ~ Translatable6(f)
    /\ Arrive(f, Counted6(f))
    /\ run' = [Blank EXCEPT !.dir = "fwd", !.verdict = "pipe"]

Ignore4(k) ==
    LET f == Frames4[k] IN
    /\ ~ Translatable4(f)
    /\ Arrive(f, Counted4(f))
    /\ run' = [Blank EXCEPT !.dir = "rev", !.verdict = "pipe"]

Enter6(k) ==
    LET f == Frames6[k]
        h == HeaderOf(f) IN
    /\ Translatable6(f)
    /\ Arrive(f, Counted6(f))
    /\ run' = [dir |-> "fwd", proto |-> h.proto, stage |-> StagesOf("fwd", h.proto)[1],
               hdr |-> 10, flow |-> Flow(h.src, 0, h.dst[2], 0, h.proto),
               ext |-> SelectedOf(h.src), port |-> 0, verdict |-> "none"]

Enter4(k) ==
    LET f == Frames4[k]
        h == HeaderOf(f) IN
    /\ Translatable4(f)
    /\ Arrive(f, Counted4(f))
    /\ run' = [dir |-> "rev", proto |-> h.proto, stage |-> StagesOf("rev", h.proto)[1],
               hdr |-> Ihl(f), flow |-> Flow({}, 0, h.src, 0, h.proto),
               ext |-> h.dst, port |-> 0, verdict |-> "none"]

-----------------------------------------------------------------------------
(* Stages of both directions.                                              *)

\* MAX_L4_LEN and UDP_HDR_LEN: payload_len, or total_len less the header,
\* for TCP; udp_len for UDP.
LengthOf ==
    IF Tcp THEN HeaderOf(frame).len ELSE frame.words[run.hdr + 2].len

LengthOk ==
    /\ At("length")
    /\ LengthOf = "ok"
    /\ Proceed
    /\ UNCHANGED <<fwd, nat, frame, arrived, counted>>

LengthBad ==
    /\ At("length")
    /\ LengthOf # "ok"
    /\ Count(IF Tcp THEN {ErrCsum} ELSE {})
    /\ End("pipe")
    /\ UNCHANGED <<fwd, nat, frame, arrived>>

\* Where the ports are looked for: the forward TCP branch has by then taken
\* the longer header away.
PortsAt == IF Forward /\ Tcp THEN HdrWords.ip4 + 1 ELSE run.hdr + 1

PortsThere == HasWord(frame, IF Tcp THEN PortsAt ELSE PortsAt + 1)

\* tcp_ports, udp_ports_len and udp_ports_len_reverse.
Ports ==
    /\ At("ports")
    /\ PortsThere
    /\ LET w == frame.words[PortsAt] IN
         run' = [run EXCEPT
                   !.stage = Following,
                   !.flow.cport = IF Forward THEN w.src ELSE @,
                   !.flow.sport = IF Forward THEN w.dst ELSE w.src,
                   !.port = IF Forward THEN @ ELSE w.dst]
    /\ UNCHANGED <<fwd, nat, frame, arrived, counted>>

NoPorts ==
    /\ At("ports")
    /\ ~ PortsThere
    /\ Count(IF Forward /\ Tcp THEN {ErrCsum} ELSE {})
    /\ End("pipe")
    /\ UNCHANGED <<fwd, nat, frame, arrived>>

\* change_proto, then the ether type.
ChangeProto ==
    /\ At("proto")
    /\ frame' = IF Forward THEN Shrunk(frame) ELSE Grown(frame)
    /\ Proceed
    /\ UNCHANGED <<fwd, nat, arrived, counted>>

StoreEther ==
    /\ At("ether")
    /\ frame' = [frame EXCEPT !.ether = IF Forward THEN "ip4" ELSE "ip6"]
    /\ Proceed
    /\ UNCHANGED <<fwd, nat, arrived, counted>>

\* nat64_source_v6: the prefix of a reply's source is a constant.
SourceOf(server) == <<WellKnown, server>>

\* Addresses before and after: of the pseudo headers and of the new header.
Before ==
    IF Forward THEN <<run.flow.client, <<Prefix, run.flow.server>>>>
    ELSE <<run.flow.server, run.ext>>
After ==
    IF Forward THEN <<run.ext, run.flow.server>>
    ELSE <<SourceOf(run.flow.server), run.flow.client>>

StoreHeader ==
    /\ At("header")
    /\ frame' = HeaderStored(frame,
                   [ver |-> IF Forward THEN "ip4" ELSE "ip6", proto |-> run.proto,
                    src |-> After[1], dst |-> After[2], len |-> "ok"])
    /\ Proceed
    /\ UNCHANGED <<fwd, nat, arrived, counted>>

\* The transport header is taken to follow a header without options.
TransportAt == (IF Forward THEN HdrWords.ip4 ELSE HdrWords.ip6) + 1

StorePort ==
    /\ At("port")
    /\ frame' = IF Forward THEN SourcePortStored(frame, TransportAt, run.port)
                           ELSE DestPortStored(frame, TransportAt, run.flow.cport)
    /\ Proceed
    /\ UNCHANGED <<fwd, nat, arrived, counted>>

PortsBefore == IF Forward THEN <<run.flow.cport, run.flow.sport>>
               ELSE <<run.flow.sport, run.port>>

\* A correction that leaves the ports out.
PortsAfterUncorrected == PortsBefore

PortsAfter == IF Forward THEN <<run.port, run.flow.sport>>
              ELSE <<run.flow.sport, run.flow.cport>>

\* apply_l4_nat64_checksum_delta_v6_to_v4 and .._v4_to_v6: the pseudo header
\* and the rewritten port.
CorrectSum ==
    /\ At("sum")
    /\ HasWord(frame, SumAt(run.proto, TransportAt))
    /\ frame' = SumCorrected(frame, SumAt(run.proto, TransportAt),
                             Before, After, PortsBefore, PortsAfter)
    /\ Proceed
    /\ UNCHANGED <<fwd, nat, arrived, counted>>

\* What a stage that cannot go on counts.  (Partial corrections of the
\* checksum are not told apart: the frame has been rewritten by then.)
FailureCounted ==
    CASE At("header") -> IF Forward \/ Tcp THEN {ErrHdr} ELSE {}
      [] At("port") -> IF Forward /\ Tcp THEN {ErrCsum} ELSE {}
      [] At("sum") -> IF Tcp THEN {ErrCsum} ELSE {}
      [] OTHER -> {}

\* A helper or the NAT insert of a TCP packet fails, or the packet is too
\* short for its checksum: the packet goes on as it is now.
Abandon ==
    /\ run.stage \in {"proto", "ether", "header", "port", "sum", "nat"}
    /\ \/ Failures /\ (At("nat") => Tcp)
       \/ At("sum") /\ ~ HasWord(frame, SumAt(run.proto, TransportAt))
    /\ Count(FailureCounted)
    /\ End("pipe")
    /\ UNCHANGED <<fwd, nat, frame, arrived>>

\* redirect_to_iface.
Redirect ==
    /\ At("redirect")
    /\ Count({OkOf(run.dir, run.proto), RedirectOk(run.dir)})
    /\ End("redirect")
    /\ UNCHANGED <<fwd, nat, frame, arrived>>

RedirectFails ==
    /\ Failures
    /\ At("redirect")
    /\ Count({OkOf(run.dir, run.proto), RedirectErr(run.dir)})
    /\ End("shot")
    /\ UNCHANGED <<fwd, nat, frame, arrived>>

-----------------------------------------------------------------------------
(* Stages of one direction.                                                *)

\* lookup_or_create_mapping.
MapHit ==
    /\ At("map")
    /\ run.flow \in DOMAIN fwd
    /\ run' = [run EXCEPT !.stage = Following,
                          !.ext = fwd[run.flow].ext, !.port = fwd[run.flow].port]
    /\ Count({"fwd_nat_lookup_hit", "fwd_nat_refresh_ok"})
    /\ UNCHANGED <<fwd, nat, frame, arrived>>

\* port_min < port_max: alloc_port does not serve a range of one port.
RangeServes == \E p, q \in ExtPorts : p # q

MapCreate(p) ==
    /\ At("map")
    /\ run.flow \notin DOMAIN fwd
    /\ RangeServes
    /\ NatKeyOf(run.ext, p, run.proto) \notin DOMAIN nat
    /\ fwd' = Put(fwd, run.flow, [ext |-> run.ext, port |-> p])
    /\ run' = [run EXCEPT !.stage = Following, !.port = p]
    /\ Count({"fwd_nat_lookup_miss", "port_alloc_ok", "fwd_nat_insert_ok"})
    /\ UNCHANGED <<nat, frame, arrived>>

\* An exhausted allocation that is not counted as a failed one.
MapExhaustedUncounted ==
    /\ At("map")
    /\ run.flow \notin DOMAIN fwd
    /\ Count({"fwd_nat_lookup_miss", "port_alloc_exhausted"})
    /\ End("pipe")
    /\ UNCHANGED <<fwd, nat, frame, arrived>>

\* alloc_port finds nothing in its probes, or does not try.
MapExhausted ==
    /\ At("map")
    /\ run.flow \notin DOMAIN fwd
    /\ Count({"fwd_nat_lookup_miss", "port_alloc_err"}
             \cup {x \in {"port_alloc_exhausted"} : RangeServes})
    /\ End("pipe")
    /\ UNCHANGED <<fwd, nat, frame, arrived>>

\* The mapping cannot be inserted, or its timer not armed.
MapRejected ==
    /\ Failures
    /\ At("map")
    /\ run.flow \notin DOMAIN fwd
    /\ RangeServes
    /\ Count({"fwd_nat_lookup_miss", "port_alloc_ok", "fwd_nat_insert_err"})
    /\ End("pipe")
    /\ UNCHANGED <<fwd, nat, frame, arrived>>

\* An insert under the client's port instead of the mapping's.
PublishedKeyUntranslated == NatKeyOf(run.ext, run.flow.cport, run.proto)

PublishedKey == NatKeyOf(run.ext, run.port, run.proto)

Publish ==
    /\ At("nat")
    /\ nat' = Put(nat, PublishedKey, run.flow)
    /\ Proceed
    /\ UNCHANGED <<fwd, frame, arrived, counted>>

\* The UDP branch only counts a failed insert, with the debug counters.
PublishFailsUdp ==
    /\ Failures
    /\ At("nat")
    /\ ~ Tcp
    /\ Count({"nat_insert_udp_err"})
    /\ Proceed
    /\ UNCHANGED <<fwd, nat, frame, arrived>>

\* nat_lookup_key_from_ipv4 and nat_tuple_matches.
LookupKey == NatKeyOf(run.ext, run.port, run.proto)

\* A reverse path that takes packets from any remote.
TupleUnchecked(owner) == TRUE

TupleMatches(owner) ==
    owner.server = run.flow.server /\ owner.sport = run.flow.sport

LookupHit ==
    /\ At("lookup")
    /\ LookupKey \in DOMAIN nat
    /\ TupleMatches(nat[LookupKey])
    /\ run' = [run EXCEPT !.stage = Following, !.flow = nat[LookupKey]]
    /\ Count({"nat_hit_refresh_ok"} \cup {x \in {"nat_lookup_hit"} : Tcp})
    /\ UNCHANGED <<fwd, nat, frame, arrived>>

LookupMismatch ==
    /\ At("lookup")
    /\ LookupKey \in DOMAIN nat
    /\ ~ TupleMatches(nat[LookupKey])
    /\ Count(IF Tcp THEN {"nat_lookup_hit", "nat_lookup_tuple_mismatch",
                          "nat_lookup_miss"}
             ELSE {"nat64_v4_to_v6_udp_tuple_mismatch"})
    /\ End("pipe")
    /\ UNCHANGED <<fwd, nat, frame, arrived>>

LookupMiss ==
    /\ At("lookup")
    /\ LookupKey \notin DOMAIN nat
    /\ Count(IF Tcp THEN {"nat_lookup_miss"} ELSE {"nat64_v4_to_v6_udp_miss"})
    /\ End("pipe")
    /\ UNCHANGED <<fwd, nat, frame, arrived>>

\* Where the checksum of an incoming UDP packet was before change_proto.
IncomingSumAt == run.hdr + 2

\* The 16 bits the code loads there are the low half of a word.
LoadsZero(w) ==
    \/ w.is = "udp" /\ w.sum = ZeroSum
    \/ /\ w.is = "hdr"
       /\ w.hdr.ver = "ip6"
       /\ w.at \in 7 .. 10
       /\ <<w.hdr.dst, w.at - 6>> \in ZeroHalves

NotZero ==
    /\ At("zero")
    /\ ~ LoadsZero(frame.words[IncomingSumAt])
    /\ Proceed
    /\ UNCHANGED <<fwd, nat, frame, arrived, counted>>

ZeroRefused ==
    /\ At("zero")
    /\ LoadsZero(frame.words[IncomingSumAt])
    /\ Count({"unsupported_ipv4_udp_zero_checksum"})
    /\ End("pipe")
    /\ UNCHANGED <<fwd, nat, frame, arrived>>

-----------------------------------------------------------------------------

\* An entry expires, is evicted or is removed by another run.  (Between runs:
\* within one it is as if it had happened before or after.  The last packet is
\* gone by then.)
Forget(k) ==
    /\ At("done")
    /\ \/ k \in DOMAIN fwd /\ fwd' = Drop(fwd, k) /\ UNCHANGED nat
       \/ k \in DOMAIN nat /\ nat' = Drop(nat, k) /\ UNCHANGED fwd
    /\ frame' = Nothing /\ arrived' = Nothing
    /\ run' = Blank
    /\ counted' = {}

Next ==
    \/ \E k \in Arriving6 : Ignore6(k) \/ Enter6(k)
    \/ \E k \in Arriving4 : Ignore4(k) \/ Enter4(k)
    \/ LengthOk \/ LengthBad
    \/ Ports \/ NoPorts
    \/ ChangeProto \/ StoreEther
    \/ MapHit \/ MapExhausted \/ MapRejected
    \/ \E p \in ExtPorts : MapCreate(p)
    \/ StoreHeader \/ StorePort \/ CorrectSum
    \/ LookupHit \/ LookupMismatch \/ LookupMiss
    \/ NotZero \/ ZeroRefused
    \/ Publish \/ PublishFailsUdp
    \/ Abandon
    \/ Redirect \/ RedirectFails
    \/ \E k \in DOMAIN fwd \cup DOMAIN nat : Forget(k)

Spec == Init /\ [][Next]_vars

-----------------------------------------------------------------------------
(* Properties.                                                             *)

TypeOK ==
    /\ \A f \in DOMAIN fwd : InPool(fwd[f].ext) /\ fwd[f].port \in ExtPorts
    /\ \A k \in DOMAIN nat :
         /\ InPool(k.ext) /\ k.port \in ExtPorts /\ k.proto \in Protocols
         /\ nat[k].client \in Clients /\ nat[k].server \in Servers
    /\ run.dir \in {"none", "fwd", "rev"}
    /\ run.verdict \in {"none", "pipe", "redirect", "shot"}
    /\ frame.skb \in {"none", "ip4", "ip6", "arp"}

Ended(dir, verdict) == At("done") /\ run.dir = dir /\ run.verdict = verdict

\* A packet that leaves for the uplink is the translation of the one that
\* arrived, field by field, although its transport header was found at two
\* offsets and each store was at a fixed one: the mapping's source, the
\* embedded destination, its ports and a checksum that is right for them.
ForwardTranslates ==
    Ended("fwd", "redirect") =>
        LET h == HeaderOf(arrived)
            p == arrived.words[11] IN
        frame = Packet([ver |-> "ip4", proto |-> h.proto, src |-> run.ext,
                        dst |-> h.dst[2], len |-> "ok"],
                       <<>>,
                       Transport(h.proto, run.port, p.dst, "ok",
                                 SumOf(run.ext, h.dst[2], run.port, p.dst)))

\* And the state it leaves lets the answer to it in, to the client and port
\* it came from, whichever helpers failed on other packets: TCP and UDP, but
\* for the one UDP packet whose own NAT insert has failed and was counted.
AnswerIsAdmitted ==
    Ended("fwd", "redirect") /\ "nat_insert_udp_err" \notin counted =>
        LET key == NatKeyOf(HeaderOf(frame).src, frame.words[6].src, run.proto) IN
        /\ key \in DOMAIN nat
        /\ nat[key] = Flow(HeaderOf(arrived).src, arrived.words[11].src,
                           HeaderOf(frame).dst, frame.words[6].dst, run.proto)

\* The translation of the packet f, for the owner of its NAT entry, as one
\* from an address under prefix.
Answer(prefix, owner, f) ==
    LET h == HeaderOf(f)
        p == f.words[run.hdr + 1]
        src == <<prefix, h.src>> IN
    Packet([ver |-> "ip6", proto |-> h.proto, src |-> src, dst |-> owner.client,
            len |-> "ok"],
           <<>>,
           Transport(h.proto, p.src, owner.cport, "ok",
                     SumOf(src, owner.client, p.src, owner.cport)))

\* Packets with no IPv4 options, and with a checksum.
Plain(f) == Ihl(f) = 5 /\ (HeaderOf(f).proto = "udp" => f.words[7].sum # ZeroSum)

\* A reply that leaves for the bridge is the translation of the one that
\* arrived, to the client and port of the NAT entry that admits its sender,
\* from the address under the configured prefix that the client sends to.
ReplyTranslates ==
    Ended("rev", "redirect") /\ Plain(arrived) =>
        LET h == HeaderOf(arrived)
            p == arrived.words[6]
            key == NatKeyOf(h.dst, p.dst, h.proto) IN
        /\ key \in DOMAIN nat
        /\ nat[key].server = h.src /\ nat[key].sport = p.src
        /\ frame = Answer(Prefix, nat[key], arrived)

\* A packet that no state was found or made for goes on as it arrived: all
\* of them on the reverse path, all but TCP on the forward path.
StatelessPassIntact ==
    /\ At("done") /\ run.verdict = "pipe"
    /\ run.dir = "fwd" => run.proto # "tcp"
    /\ counted \cap {"nat_hit_refresh_ok", "fwd_nat_refresh_ok",
                     "fwd_nat_insert_ok"} = {}
    => frame = arrived

\* The counters of a run agree: every lookup hits or misses, a miss ends in
\* one of three ways, and what was translated was redirected or not.
CountersAgree ==
    At("done") =>
        LET n(names) == Cardinality(counted \cap names) IN
        /\ n({"fwd_nat_lookup_miss"}) = n({"port_alloc_ok", "port_alloc_err"})
        /\ n({"port_alloc_ok"}) = n({"fwd_nat_insert_ok", "fwd_nat_insert_err"})
        /\ n({"fwd_nat_lookup_hit"}) = n({"fwd_nat_refresh_ok"})
        /\ n({OkOf(d, x) : d \in {"fwd", "rev"}, x \in Protocols})
             = n({RedirectOk(d) : d \in {"fwd", "rev"}}
                 \cup {RedirectErr(d) : d \in {"fwd", "rev"}})
        /\ n({OkOf("fwd", "tcp")}) =< n({"pkts_nat64_tcp"})
        /\ n({OkOf("rev", "udp")}) =< n({"pkts_ipv4_udp"} \cap counted)

\* README: "Packets that cannot be translated are passed through unchanged."
PassedThroughUnchanged ==
    At("done") /\ run.verdict = "pipe" => frame = arrived

\* "Overrides the `/96` IPv6 prefix translated by each dataplane": what is
\* translated back comes from that prefix too.
RepliesComeFromPrefix ==
    Ended("rev", "redirect") => HeaderOf(frame).src[1] = Prefix

\* README: "IPv4 UDP packets with a zero checksum cannot be translated to
\* IPv6."
ZeroChecksumNotTranslated ==
    Ended("rev", "redirect") /\ run.proto = "udp"
        => arrived.words[run.hdr + 2].sum # ZeroSum
=============================================================================
