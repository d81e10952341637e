------------------------- MODULE Classifiers_proofs -------------------------
(***************************************************************************)
(* The properties of Classifiers for any clients, servers, ports, pool,    *)
(* hash and packets, of any length and cut anywhere.                       *)
(*                                                                         *)
(* At each stage the frame is a fixed rewriting of the packet that arrived *)
(* and of the locals of the run; what the stages before have read agrees   *)
(* with that packet.  Only the last stage has to be computed word by word. *)
(***************************************************************************)
EXTENDS Classifiers, SequenceTheorems, FiniteSetTheorems, TLAPS

\* A sequence, of whatever elements.
IsWords(s) ==
    /\ Len(s) \in Nat
    /\ s = [i \in 1 .. Len(s) |-> s[i]]

\* A frame.
IsFrame(f) ==
    /\ f = [ether |-> f.ether, skb |-> f.skb, words |-> f.words]
    /\ IsWords(f.words)

\* The words behind a header of n words: what Transport makes, perhaps cut.
Behind(f, n, proto, sums) ==
    LET w == f.words
        last == IF proto = "udp" THEN n + 2 ELSE n + 5 IN
    /\ Len(w) =< last
    /\ Len(w) > n => w[n + 1] = PortsWord(w[n + 1].src, w[n + 1].dst)
    /\ proto = "udp" /\ Len(w) = last =>
           /\ w[last] = [is |-> "udp", len |-> w[last].len,
                         sum |-> w[last].sum]
           /\ w[last].sum \in sums
    /\ proto = "tcp" /\ Len(w) = last =>
           /\ w[last] = [is |-> "sum", sum |-> w[last].sum]
           /\ w[last].sum \in sums
           /\ \A i \in n + 2 .. n + 4 : w[i] = Rest

\* The packets the forward classifier translates.
Shape6(f) ==
    LET h == HeaderOf(f) IN
    /\ IsFrame(f)
    /\ h.src \in Clients /\ h.dst = <<Prefix, h.dst[2]>>
    /\ h.dst[2] \in Servers /\ h.proto \in Protocols
    /\ Len(f.words) >= 10
    /\ Behind(f, 10, h.proto,
              {SumOf(h.src, h.dst, f.words[11].src, f.words[11].dst)})

\* And the reverse one.
Shape4(f) ==
    LET h == HeaderOf(f) IN
    /\ IsFrame(f)
    /\ InPool(h.dst) /\ h.proto \in Protocols
    /\ Len(f.words) >= 5
    /\ Ihl(f) = 5 =>
           Behind(f, 5, h.proto,
                  {SumOf(h.src, h.dst, f.words[6].src, f.words[6].dst)}
                  \cup IF h.proto = "udp" THEN {ZeroSum} ELSE {})

-----------------------------------------------------------------------------
(* The frame at each stage.                                                *)

Resized == IF Forward THEN Shrunk(arrived) ELSE Grown(arrived)
Retyped == [Resized EXCEPT !.ether = IF Forward THEN "ip4" ELSE "ip6"]
Headed ==
    HeaderStored(Retyped,
        [ver |-> IF Forward THEN "ip4" ELSE "ip6", proto |-> run.proto,
         src |-> After[1], dst |-> After[2], len |-> "ok"])
Ported ==
    IF Forward THEN SourcePortStored(Headed, TransportAt, run.port)
               ELSE DestPortStored(Headed, TransportAt, run.flow.cport)
Corrected4 ==
    SumCorrected(Ported, SumAt(run.proto, TransportAt), Before, After,
                 PortsBefore, PortsAfter)

\* The run handles a packet for the translator.
Active == run.proto \in Protocols
ForwardTcp == Forward /\ Tcp

\* The run has got that far.
Sent == At("done") /\ run.verdict \in {"redirect", "shot"}
Past(stages) == run.stage \in stages \/ Sent
Late == {"header", "port", "zero", "sum", "nat", "redirect"}
PastPorts ==
    Past(Late \cup {"map", "lookup"}
         \cup IF ForwardTcp THEN {} ELSE {"proto", "ether"}
                                         \cup IF Tcp THEN {} ELSE {"length"})
PastLength == Past(Late \cup {"map", "lookup", "proto", "ether"})
PastState == Past(Late \cup IF ForwardTcp THEN {} ELSE {"proto", "ether"})

\* The frame is what the stages so far have made of the packet.
Rewritten ==
    Active =>
        /\ At("length") \/ At("proto") => frame = arrived
        /\ At("ports") \/ At("map") \/ At("lookup") =>
               frame = IF ForwardTcp THEN Retyped ELSE arrived
        /\ At("ether") => frame = Resized
        /\ At("header") => frame = Retyped
        /\ At("port") => frame = Headed
        /\ At("zero") \/ At("sum") => frame = Ported
        /\ Past({"nat", "redirect"}) =>
               /\ frame = Corrected4
               /\ HasWord(Ported, SumAt(run.proto, TransportAt))

\* The locals of a run.
Locals ==
    /\ run = [dir |-> run.dir, proto |-> run.proto, stage |-> run.stage,
              hdr |-> run.hdr, flow |-> run.flow, ext |-> run.ext,
              port |-> run.port, verdict |-> run.verdict]
    /\ run.dir \in {"none", "fwd", "rev"}
    /\ run.verdict \in {"none", "pipe", "redirect", "shot"}
    /\ ~ At("done") => Active /\ run.verdict = "none"
    /\ Active => run.dir \in {"fwd", "rev"}
    /\ Active /\ ~ At("done") =>
           \E i \in 1 .. Len(StagesOf(run.dir, run.proto)) :
               run.stage = StagesOf(run.dir, run.proto)[i]
    /\ Sent => Active

\* What a forward run has read is what is in the packet.
Locals6 ==
    Active /\ Forward =>
        LET h == HeaderOf(arrived)
            p == arrived.words[11] IN
        /\ Shape6(arrived)
        /\ run.proto = h.proto /\ run.hdr = 10 /\ InPool(run.ext)
        /\ run.flow = Flow(h.src, run.flow.cport, h.dst[2], run.flow.sport,
                           h.proto)
        /\ PastPorts => /\ HasWord(arrived, IF Tcp THEN 11 ELSE 12)
                        /\ run.flow.cport = p.src /\ run.flow.sport = p.dst
        /\ PastLength /\ run.proto = "udp" =>
               arrived.words[12].len = "ok"
        /\ PastState => run.port \in ExtPorts
        /\ Past({"redirect"}) /\ "nat_insert_udp_err" \notin counted =>
               PublishedKey \in DOMAIN nat /\ nat[PublishedKey] = run.flow

\* And so for a reverse run, whose flow is that of the entry it has found.
Locals4 ==
    Active /\ run.dir = "rev" =>
        LET h == HeaderOf(arrived)
            p == arrived.words[run.hdr + 1] IN
        /\ Shape4(arrived)
        /\ run.proto = h.proto /\ run.hdr = Ihl(arrived) /\ run.ext = h.dst
        /\ run.flow.server = h.src
        /\ ~ At("done") /\ ~ PastState =>
               run.flow = Flow({}, 0, h.src, run.flow.sport, h.proto)
        /\ PastPorts => /\ HasWord(arrived, run.hdr + IF Tcp THEN 1 ELSE 2)
                        /\ run.flow.sport = p.src /\ run.port = p.dst
        /\ PastLength /\ run.proto = "udp" =>
               arrived.words[run.hdr + 2].len = "ok"
        /\ PastState => LookupKey \in DOMAIN nat /\ run.flow = nat[LookupKey]

\* Entries of the maps are for addresses of the pool and ports of the range.
MapsOK ==
    /\ \A f \in DOMAIN fwd : InPool(fwd[f].ext) /\ fwd[f].port \in ExtPorts
    /\ \A k \in DOMAIN nat :
         /\ InPool(k.ext) /\ k.port \in ExtPorts /\ k.proto \in Protocols
         /\ nat[k].client \in Clients /\ nat[k].server \in Servers
    /\ frame = [ether |-> frame.ether, skb |-> frame.skb, words |-> frame.words]
    /\ frame.skb \in {"none", "ip4", "ip6", "arp"}
    /\ arrived.skb \in {"none", "ip4", "ip6", "arp"}
    /\ ~ Active => frame = arrived

\* A run that has state has counted it.
StateCounted ==
    Active /\ PastState =>
        counted \cap {"nat_hit_refresh_ok", "fwd_nat_refresh_ok",
                      "fwd_nat_insert_ok"} # {}

MapNames == {"fwd_nat_lookup_hit", "fwd_nat_refresh_ok", "fwd_nat_lookup_miss",
             "port_alloc_ok", "port_alloc_err", "fwd_nat_insert_ok",
             "fwd_nat_insert_err"}
OkNames == {"nat64_v6_to_v4_ok", "nat64_v6_to_v4_udp_ok", "nat64_v4_to_v6_ok",
            "nat64_v4_to_v6_udp_ok"}
SentNames == {"fwd_redirect_ok", "fwd_redirect_err", "rev_redirect_ok",
              "rev_redirect_err"}

\* The counters agree, name by name.
Tallied ==
    /\ "fwd_nat_lookup_miss" \in counted <=>
           "port_alloc_ok" \in counted \/ "port_alloc_err" \in counted
    /\ ~ ("port_alloc_ok" \in counted /\ "port_alloc_err" \in counted)
    /\ "port_alloc_ok" \in counted <=>
           "fwd_nat_insert_ok" \in counted \/ "fwd_nat_insert_err" \in counted
    /\ ~ ("fwd_nat_insert_ok" \in counted /\ "fwd_nat_insert_err" \in counted)
    /\ "fwd_nat_lookup_hit" \in counted <=> "fwd_nat_refresh_ok" \in counted
    /\ \/ counted \cap OkNames = {} /\ counted \cap SentNames = {}
       \/ \E x \in OkNames, y \in SentNames :
              counted \cap OkNames = {x} /\ counted \cap SentNames = {y}
    /\ "nat64_v6_to_v4_ok" \in counted => "pkts_nat64_tcp" \in counted
    /\ "nat64_v4_to_v6_udp_ok" \in counted => "pkts_ipv4_udp" \in counted
    /\ counted \cap MapNames # {} => Active /\ Forward /\ (At("done") \/ PastState)
    /\ counted \cap (OkNames \cup SentNames) # {} => At("done")
    /\ Active /\ ForwardTcp => "pkts_nat64_tcp" \in counted
    /\ Active /\ run.dir = "rev" /\ ~ Tcp => "pkts_ipv4_udp" \in counted

ClassifiersInv ==
    /\ Locals /\ Locals6 /\ Locals4 /\ Rewritten /\ MapsOK /\ StateCounted
    /\ Tallied /\ StatelessPassIntact

-----------------------------------------------------------------------------
(* Numbers.                                                                *)

LEMMA AtLeast ==
    ASSUME NEW m \in Nat, NEW n \in Nat, n >= m
    PROVE  n = m \/ n > m
OBVIOUS

LEMMA SameRest ==
    ASSUME NEW a \in Nat, NEW b \in Nat, NEW m \in Nat, NEW n \in Nat,
           NEW k \in Nat, n + k =< b, a =< m + k, b = n + (a - m)
    PROVE  a = m + k /\ b = n + k
OBVIOUS

LEMMA UpTo ==
    ASSUME NEW n \in Nat
    PROVE  Cardinality(1 .. n) = n
<1>1. \A b \in Int : Cardinality(1 .. b) = IF 1 > b THEN 0 ELSE b - 1 + 1
  BY FS_Interval
<1>2. CASE n = 0
  BY <1>1, <1>2
<1>3. CASE n # 0
  BY <1>1, <1>3
<1> QED BY <1>2, <1>3

-----------------------------------------------------------------------------
(* Sequences of words.                                                     *)

\* A function on an initial segment is a sequence.
LEMMA Segment ==
    ASSUME NEW n \in Nat, NEW s, s = [i \in 1 .. n |-> s[i]]
    PROVE  /\ IsWords(s) /\ Len(s) = n /\ DOMAIN s = 1 .. n
           /\ \E S : s \in Seq(S)
<1> DEFINE S == {s[i] : i \in 1 .. n}
<1>1. s \in [1 .. n -> S]
  OBVIOUS
<1>2. s \in Seq(S)
  BY <1>1
<1>3. Len(s) = n
  BY <1>1, <1>2
<1> QED BY <1>2, <1>3 DEF IsWords

\* Sequences one after the other.
LEMMA Joined ==
    ASSUME NEW s, NEW t, IsWords(s), IsWords(t)
    PROVE  /\ IsWords(s \o t) /\ Len(s \o t) = Len(s) + Len(t)
           /\ \A i \in 1 .. Len(s) : (s \o t)[i] = s[i]
           /\ \A i \in 1 .. Len(t) : (s \o t)[Len(s) + i] = t[i]
<1> DEFINE S == {s[i] : i \in 1 .. Len(s)} \cup {t[i] : i \in 1 .. Len(t)}
<1>1. Len(s) \in Nat /\ Len(t) \in Nat
  BY DEF IsWords
<1>2. s \in [1 .. Len(s) -> S] /\ t \in [1 .. Len(t) -> S]
  BY DEF IsWords
<1>3. s \in Seq(S) /\ t \in Seq(S)
  BY <1>1, <1>2
<1> HIDE DEF S
<1>4. /\ s \o t \in Seq(S) /\ Len(s \o t) = Len(s) + Len(t)
      /\ \A i \in 1 .. Len(s) + Len(t) :
             (s \o t)[i] = IF i =< Len(s) THEN s[i] ELSE t[i - Len(s)]
  BY <1>3, ConcatProperties
<1>5. s \o t \in [1 .. Len(s) + Len(t) -> S]
  BY <1>1, <1>4, LenProperties
<1>6. IsWords(s \o t)
  <2> DEFINE u == s \o t
  <2> HIDE DEF u
  <2>1. u \in [1 .. Len(s) + Len(t) -> S] /\ Len(s) + Len(t) \in Nat
    BY <1>1, <1>5 DEF u
  <2>2. u = [i \in 1 .. Len(s) + Len(t) |-> u[i]]
    BY <2>1
  <2>3. IsWords(u)
    BY <2>1, <2>2, Segment
  <2> QED BY <2>3 DEF u
<1>7. ASSUME NEW i \in 1 .. Len(s) PROVE (s \o t)[i] = s[i]
  <2>1. i \in 1 .. Len(s) + Len(t) /\ i =< Len(s)
    BY <1>1
  <2> QED BY <1>4, <2>1
<1>8. ASSUME NEW i \in 1 .. Len(t) PROVE (s \o t)[Len(s) + i] = t[i]
  <2>1. /\ Len(s) + i \in 1 .. Len(s) + Len(t) /\ ~ (Len(s) + i =< Len(s))
        /\ (Len(s) + i) - Len(s) = i
    BY <1>1
  <2> QED BY <1>4, <2>1
<1> QED BY <1>4, <1>6, <1>7, <1>8

\* What is left of a sequence from word m on.
LEMMA Tailed ==
    ASSUME NEW s, IsWords(s), NEW m \in Nat \ {0}, m =< Len(s) + 1
    PROVE  /\ IsWords(SubSeq(s, m, Len(s)))
           /\ Len(SubSeq(s, m, Len(s))) = Len(s) + 1 - m
           /\ \A i \in 1 .. Len(s) + 1 - m :
                  SubSeq(s, m, Len(s))[i] = s[i + m - 1]
<1> DEFINE S == {s[i] : i \in 1 .. Len(s)}
           t == SubSeq(s, m, Len(s))
           n == Len(s) + 1 - m
<1>1. Len(s) \in Nat /\ n \in Nat
  BY DEF IsWords
<1>2. \A i \in m .. Len(s) : s[i] \in S
  BY <1>1
<1>3. /\ t \in Seq(S) /\ Len(t) = IF m =< Len(s) THEN Len(s) - m + 1 ELSE 0
      /\ \A i \in 1 .. Len(s) - m + 1 : t[i] = s[m + i - 1]
  <2> HIDE DEF S
  <2> QED BY <1>1, <1>2, SubSeqProperties
<1> HIDE DEF S, t
<1>4. Len(t) = n
  BY <1>1, <1>3
<1>5. t \in [1 .. Len(t) -> S]
  BY <1>3, LenProperties
<1>6. \A i \in 1 .. n : t[i] = s[i + m - 1]
  BY <1>1, <1>3
<1> QED BY <1>1, <1>4, <1>5, <1>6 DEF IsWords, t

\* The first words of a sequence.
LEMMA CutWords ==
    ASSUME NEW s, IsWords(s), NEW n \in Nat
    PROVE  /\ IsWords(Cut(s, n))
           /\ Len(Cut(s, n)) = IF n < Len(s) THEN n ELSE Len(s)
           /\ \A i \in 1 .. Len(Cut(s, n)) : Cut(s, n)[i] = s[i]
<1> DEFINE S == {s[i] : i \in 1 .. Len(s)}
           m == IF n < Len(s) THEN n ELSE Len(s)
           t == SubSeq(s, 1, m)
<1>1. Len(s) \in Nat /\ m \in 0 .. Len(s)
  BY DEF IsWords
<1>2. s \in [1 .. Len(s) -> S]
  BY DEF IsWords
<1>3. s \in Seq(S)
  BY <1>1, <1>2
<1> HIDE DEF S, m
<1>4. /\ t \in Seq(S) /\ Len(t) = m
      /\ \A i \in 1 .. m : t[i] = s[i]
  <2>1. 1 \in 1 .. Len(s) + 1 /\ m \in 1 - 1 .. Len(s)
    BY <1>1
  <2>2. /\ t \in Seq(S) /\ Len(t) = (m - 1) + 1
        /\ \A i \in 1 .. m - 1 + 1 : t[i] = s[1 + i - 1]
    BY <1>1, <1>3, <2>1, SubSeqProperties
  <2> QED BY <1>1, <2>2
<1> HIDE DEF t
<1>5. t \in [1 .. m -> S]
  BY <1>4, LenProperties
<1>6. IsWords(t)
  BY <1>1, <1>4, <1>5 DEF IsWords
<1> QED BY <1>4, <1>6 DEF Cut, t, m

\* Sequences of the same words are the same.
LEMMA SameWords ==
    ASSUME NEW s, NEW t, IsWords(s), IsWords(t), Len(s) = Len(t),
           \A i \in 1 .. Len(s) : s[i] = t[i]
    PROVE  s = t
<1>1. s = [i \in 1 .. Len(s) |-> s[i]] /\ t = [i \in 1 .. Len(s) |-> t[i]]
  BY DEF IsWords
<1> QED BY <1>1

\* A store changes one word.
LEMMA StoredOne ==
    ASSUME NEW s, IsWords(s), NEW i \in 1 .. Len(s), NEW w
    PROVE  /\ IsWords([s EXCEPT ![i] = w])
           /\ Len([s EXCEPT ![i] = w]) = Len(s)
           /\ \A j \in 1 .. Len(s) :
                  [s EXCEPT ![i] = w][j] = IF j = i THEN w ELSE s[j]
<1> DEFINE t == [s EXCEPT ![i] = w]
<1>1. Len(s) \in Nat /\ s = [j \in 1 .. Len(s) |-> s[j]]
  BY DEF IsWords
<1>2. DOMAIN s = 1 .. Len(s)
  BY <1>1
<1>3. t = [j \in 1 .. Len(s) |-> IF j = i THEN w ELSE s[j]]
  BY <1>2
<1>4. \A j \in 1 .. Len(s) : t[j] = IF j = i THEN w ELSE s[j]
  BY <1>3
<1> HIDE DEF t
<1>5. t = [j \in 1 .. Len(s) |-> t[j]]
  BY <1>3, <1>4
<1>6. IsWords(t) /\ Len(t) = Len(s)
  BY <1>1, <1>5, Segment
<1> QED BY <1>4, <1>6 DEF t

\* The words of a header and of a transport header.
LEMMA HeaderWords ==
    ASSUME NEW h, h.ver \in {"ip4", "ip6"}
    PROVE  /\ HdrWords["ip4"] = 5 /\ HdrWords["ip6"] = 10
           /\ IsWords(HdrWordsOf(h)) /\ Len(HdrWordsOf(h)) = HdrWords[h.ver]
           /\ \A i \in 1 .. HdrWords[h.ver] :
                  HdrWordsOf(h)[i] = [is |-> "hdr", hdr |-> h, at |-> i]
<1>1. HdrWords["ip4"] = 5 /\ HdrWords["ip6"] = 10
  BY DEF HdrWords
<1>2. HdrWords[h.ver] \in Nat
  BY <1>1
<1> DEFINE w == HdrWordsOf(h)
<1>3. \A i \in 1 .. HdrWords[h.ver] :
          w[i] = [is |-> "hdr", hdr |-> h, at |-> i]
  BY DEF HdrWordsOf
<1>4. w = [i \in 1 .. HdrWords[h.ver] |-> w[i]]
  BY DEF HdrWordsOf
<1> HIDE DEF w
<1>5. IsWords(w) /\ Len(w) = HdrWords[h.ver]
  BY <1>2, <1>4, Segment
<1> QED BY <1>1, <1>3, <1>5 DEF w

LEMMA TransportWords ==
    ASSUME NEW proto, NEW sport, NEW dport, NEW len, NEW sum
    PROVE  LET t == Transport(proto, sport, dport, len, sum) IN
           /\ IsWords(t)
           /\ t[1] = PortsWord(sport, dport)
           /\ proto = "udp" =>
                  /\ Len(t) = 2
                  /\ t[2] = [is |-> "udp", len |-> len, sum |-> sum]
           /\ proto # "udp" =>
                  /\ Len(t) = 5
                  /\ t[2] = Rest /\ t[3] = Rest /\ t[4] = Rest
                  /\ t[5] = [is |-> "sum", sum |-> sum]
<1> DEFINE t == Transport(proto, sport, dport, len, sum)
<1>1. CASE proto = "udp"
  <2>1. t = <<PortsWord(sport, dport), [is |-> "udp", len |-> len, sum |-> sum]>>
    BY <1>1 DEF Transport
  <2> HIDE DEF t
  <2>2. t = [i \in 1 .. 2 |-> t[i]]
    BY <2>1
  <2>3. IsWords(t) /\ Len(t) = 2
    BY <2>2, Segment
  <2> QED BY <1>1, <2>1, <2>3 DEF t
<1>2. CASE proto # "udp"
  <2>1. t = <<PortsWord(sport, dport), Rest, Rest, Rest,
              [is |-> "sum", sum |-> sum]>>
    BY <1>2 DEF Transport
  <2> HIDE DEF t
  <2>2. t = [i \in 1 .. 5 |-> t[i]]
    BY <2>1
  <2>3. IsWords(t) /\ Len(t) = 5
    BY <2>2, Segment
  <2> QED BY <1>2, <2>1, <2>3 DEF t
<1> QED BY <1>1, <1>2

\* A packet: the words of its header, of the options, of the transport header.
LEMMA PacketWords ==
    ASSUME NEW h, h.ver \in {"ip4", "ip6"}, NEW o, IsWords(o),
           NEW t, IsWords(t)
    PROVE  LET f == Packet(h, o, t)
               n == HdrWords[h.ver] IN
           /\ IsFrame(f) /\ f.ether = h.ver /\ f.skb = h.ver
           /\ Len(f.words) = n + Len(o) + Len(t)
           /\ n \in {5, 10}
           /\ \A i \in 1 .. n :
                  f.words[i] = [is |-> "hdr", hdr |-> h, at |-> i]
           /\ \A i \in 1 .. Len(o) : f.words[n + i] = o[i]
           /\ \A i \in 1 .. Len(t) : f.words[n + Len(o) + i] = t[i]
<1> DEFINE f == Packet(h, o, t)
           n == HdrWords[h.ver]
           w == HdrWordsOf(h)
           v == (w \o o) \o t
<1>1. /\ IsWords(w) /\ Len(w) = n /\ n \in {5, 10}
      /\ \A i \in 1 .. n : w[i] = [is |-> "hdr", hdr |-> h, at |-> i]
  BY HeaderWords
<1>2. /\ f = [ether |-> h.ver, skb |-> h.ver, words |-> v]
  BY DEF Packet
<1>3. Len(o) \in Nat /\ Len(t) \in Nat
  BY DEF IsWords
<1> HIDE DEF w, n
<1>4. /\ IsWords(w \o o) /\ Len(w \o o) = n + Len(o)
      /\ \A i \in 1 .. n : (w \o o)[i] = w[i]
      /\ \A i \in 1 .. Len(o) : (w \o o)[n + i] = o[i]
  BY <1>1, Joined
<1>5. /\ IsWords(v) /\ Len(v) = n + Len(o) + Len(t)
      /\ \A i \in 1 .. n + Len(o) : v[i] = (w \o o)[i]
      /\ \A i \in 1 .. Len(t) : v[n + Len(o) + i] = t[i]
  BY <1>4, Joined
<1> HIDE DEF v, f
<1>6. \A i \in 1 .. n : v[i] = [is |-> "hdr", hdr |-> h, at |-> i]
  <2>1. \A i \in 1 .. n : i \in 1 .. n + Len(o)
    BY <1>1, <1>3
  <2> QED BY <1>1, <1>4, <1>5, <2>1
<1>7. \A i \in 1 .. Len(o) : v[n + i] = o[i]
  <2>1. \A i \in 1 .. Len(o) : n + i \in 1 .. n + Len(o)
    BY <1>1, <1>3
  <2> QED BY <1>4, <1>5, <2>1
<1>8. IsFrame(f) /\ f.words = v /\ f.ether = h.ver /\ f.skb = h.ver
  BY <1>2, <1>5 DEF IsFrame
<1> QED BY <1>1, <1>5, <1>6, <1>7, <1>8 DEF f, n, w

\* A packet of which n words arrive.
LEMMA ArrivingWords ==
    ASSUME NEW h, h.ver \in {"ip4", "ip6"}, NEW o, IsWords(o),
           NEW t, IsWords(t), NEW ether, NEW n \in Nat
    PROVE  LET g == Packet(h, o, t)
               f == Received(g, ether, n) IN
           /\ IsFrame(f) /\ f.ether = ether /\ f.skb = h.ver
           /\ Len(f.words) =< Len(g.words)
           /\ \A i \in 1 .. Len(f.words) : f.words[i] = g.words[i]
<1> DEFINE g == Packet(h, o, t)
           f == Received(g, ether, n)
<1>1. IsFrame(g) /\ g.skb = h.ver
  BY PacketWords
<1> HIDE DEF g
<1>2. f = [ether |-> ether, skb |-> h.ver, words |-> Cut(g.words, n)]
  BY <1>1 DEF Received
<1>3. /\ IsWords(Cut(g.words, n))
      /\ Len(Cut(g.words, n)) =< Len(g.words)
      /\ \A i \in 1 .. Len(Cut(g.words, n)) :
             Cut(g.words, n)[i] = g.words[i]
  <2>1. IsWords(g.words) /\ Len(g.words) \in Nat
    BY <1>1 DEF IsFrame, IsWords
  <2> QED BY <2>1, CutWords
<1> HIDE DEF f
<1> QED BY <1>2, <1>3 DEF IsFrame, f, g

\* What reaches the stages of the forward classifier.
LEMMA ForwardArrives ==
    ASSUME NEW k \in Arriving6, Translatable6(Frame6(k))
    PROVE  Shape6(Frame6(k)) /\ Frame6(k).skb = "ip6"
<1> DEFINE c == k[1]
           dst == <<k[2], k[3]>>
           sum == SumOf(c, dst, ClientPort, ServerPort)
           h == [ver |-> "ip6", proto |-> k[4], src |-> c, dst |-> dst,
                 len |-> k[5]]
           t == Transport(k[4], ClientPort, ServerPort, k[5], sum)
           g == Packet(h, <<>>, t)
           f == Frame6(k)
<1>1. k[1] \in Clients /\ k[3] \in Servers /\ k[7] \in Nat
  BY ArrivingAssumption
<1>2. f = Received(g, k[6], k[7])
  BY DEF Frame6
<1>3. /\ h.ver = "ip6" /\ h.proto = k[4] /\ h.src = c /\ h.dst = dst
  OBVIOUS
<1>4. IsWords(<<>>) /\ Len(<<>>) = 0
  <2>1. <<>> = [i \in 1 .. 0 |-> <<>>[i]]
    OBVIOUS
  <2> QED BY <2>1, Segment
<1>5. /\ IsWords(t) /\ t[1] = PortsWord(ClientPort, ServerPort)
      /\ k[4] = "udp" =>
             Len(t) = 2 /\ t[2] = [is |-> "udp", len |-> k[5], sum |-> sum]
      /\ k[4] # "udp" =>
             /\ Len(t) = 5 /\ t[2] = Rest /\ t[3] = Rest /\ t[4] = Rest
             /\ t[5] = [is |-> "sum", sum |-> sum]
  BY TransportWords
<1> HIDE DEF t, h, sum
<1>6. /\ Len(g.words) = 10 + Len(t)
      /\ \A i \in 1 .. 10 : g.words[i] = [is |-> "hdr", hdr |-> h, at |-> i]
      /\ \A i \in 1 .. Len(t) : g.words[10 + i] = t[i]
  <2>1. HdrWords[h.ver] = 10
    BY <1>3, HeaderWords
  <2>2. Len(t) \in Nat
    BY <1>5 DEF IsWords
  <2>3. /\ Len(g.words) = 10 + 0 + Len(t)
        /\ \A i \in 1 .. 10 : g.words[i] = [is |-> "hdr", hdr |-> h, at |-> i]
        /\ \A i \in 1 .. Len(t) : g.words[10 + 0 + i] = t[i]
    <3>1. /\ Len(g.words) = HdrWords[h.ver] + Len(<<>>) + Len(t)
          /\ \A i \in 1 .. HdrWords[h.ver] :
                 g.words[i] = [is |-> "hdr", hdr |-> h, at |-> i]
          /\ \A i \in 1 .. Len(t) :
                 g.words[HdrWords[h.ver] + Len(<<>>) + i] = t[i]
      BY <1>3, <1>4, <1>5, PacketWords
    <3> HIDE DEF g
    <3> QED BY <1>4, <2>1, <3>1
  <2> QED BY <2>2, <2>3
<1>7. /\ IsFrame(f) /\ f.skb = "ip6"
      /\ Len(f.words) =< Len(g.words)
      /\ \A i \in 1 .. Len(f.words) : f.words[i] = g.words[i]
  <2>1. LET e == Received(g, k[6], k[7]) IN
        /\ IsFrame(e) /\ e.skb = h.ver
        /\ Len(e.words) =< Len(g.words)
        /\ \A i \in 1 .. Len(e.words) : e.words[i] = g.words[i]
    BY <1>1, <1>3, <1>4, <1>5, ArrivingWords
  <2> HIDE DEF f, g
  <2> QED BY <1>2, <1>3, <2>1
<1> HIDE DEF f, g
<1>8. /\ Len(f.words) >= 10 /\ HeaderOf(f).dst[1] = Prefix
      /\ HeaderOf(f).proto \in Protocols
  BY DEF Translatable6, ForPrefix, Whole6, HasWord, f
<1>9. Len(f.words) \in Nat
  BY <1>7 DEF IsFrame, IsWords
<1>10. HeaderOf(f) = h
  <2>1. 1 \in 1 .. 10 /\ 1 \in 1 .. Len(f.words)
    BY <1>8, <1>9
  <2>2. f.words[1] = [is |-> "hdr", hdr |-> h, at |-> 1]
    BY <1>6, <1>7, <2>1
  <2> QED BY <2>2 DEF HeaderOf
<1>11. /\ k[4] \in Protocols /\ dst[1] = Prefix /\ dst[2] = k[3]
       /\ dst = <<Prefix, dst[2]>>
  BY <1>3, <1>8, <1>10
<1>12. ASSUME NEW i \in 1 .. Len(t), Len(f.words) >= 10 + i
       PROVE  f.words[10 + i] = t[i]
  <2>1. 10 + i \in 1 .. Len(f.words)
    BY <1>9, <1>12
  <2> QED BY <1>6, <1>7, <2>1
<1>13. ASSUME Len(f.words) > 10
       PROVE  f.words[11] = PortsWord(ClientPort, ServerPort)
  <2>1. 1 \in 1 .. Len(t) /\ Len(f.words) >= 10 + 1 /\ 10 + 1 = 11
    BY <1>5, <1>9, <1>13
  <2> QED BY <1>5, <1>12, <2>1
<1>14. Len(f.words) > 10 =>
           /\ f.words[11].src = ClientPort /\ f.words[11].dst = ServerPort
           /\ f.words[11] = PortsWord(f.words[11].src, f.words[11].dst)
  BY <1>13 DEF PortsWord
<1>15. Len(f.words) > 10 =>
           sum = SumOf(h.src, h.dst, f.words[11].src, f.words[11].dst)
  BY <1>3, <1>14 DEF sum
<1>16. Behind(f, 10, k[4],
              {SumOf(h.src, h.dst, f.words[11].src, f.words[11].dst)})
  <2>1. CASE k[4] = "udp"
    <3>1. Len(f.words) =< 10 + 2
      BY <1>5, <1>6, <1>7, <2>1
    <3>2. ASSUME Len(f.words) = 12
          PROVE  f.words[12] = [is |-> "udp", len |-> k[5], sum |-> sum]
      <4>a. Len(t) = 2
        BY <1>5, <2>1
      <4>1. 2 \in 1 .. Len(t) /\ Len(f.words) >= 10 + 2 /\ 10 + 2 = 12
        BY <3>2, <4>a
      <4> QED BY <1>5, <1>12, <2>1, <4>1
    <3>3. ASSUME Len(f.words) = 12
          PROVE  /\ f.words[12] = [is |-> "udp", len |-> f.words[12].len,
                                   sum |-> f.words[12].sum]
                 /\ f.words[12].sum = sum
      BY <3>2, <3>3
    <3> QED BY <1>14, <1>15, <2>1, <3>1, <3>3 DEF Behind
  <2>2. CASE k[4] = "tcp"
    <3>1. Len(f.words) =< 10 + 5
      BY <1>5, <1>6, <1>7, <2>2
    <3>2. ASSUME Len(f.words) = 15
          PROVE  /\ f.words[15] = [is |-> "sum", sum |-> sum]
                 /\ f.words[12] = Rest /\ f.words[13] = Rest
                 /\ f.words[14] = Rest
      <4>1. /\ 2 \in 1 .. Len(t) /\ Len(f.words) >= 10 + 2 /\ 10 + 2 = 12
            /\ 3 \in 1 .. Len(t) /\ Len(f.words) >= 10 + 3 /\ 10 + 3 = 13
            /\ 4 \in 1 .. Len(t) /\ Len(f.words) >= 10 + 4 /\ 10 + 4 = 14
            /\ 5 \in 1 .. Len(t) /\ Len(f.words) >= 10 + 5 /\ 10 + 5 = 15
        <5>1. Len(t) = 5
          BY <1>5, <2>2
        <5> QED BY <3>2, <5>1
      <4> QED BY <1>5, <1>12, <2>2, <4>1
    <3>3. ASSUME Len(f.words) = 15
          PROVE  /\ f.words[15] = [is |-> "sum", sum |-> f.words[15].sum]
                 /\ f.words[15].sum = sum
                 /\ \A i \in 10 + 2 .. 10 + 4 : f.words[i] = Rest
      <4>1. \A i \in 10 + 2 .. 10 + 4 : i = 12 \/ i = 13 \/ i = 14
        OBVIOUS
      <4> QED BY <3>2, <3>3, <4>1
    <3> QED BY <1>14, <1>15, <2>2, <3>1, <3>3 DEF Behind
  <2> QED BY <1>11, <2>1, <2>2 DEF Protocols
<1> QED BY <1>1, <1>3, <1>7, <1>8, <1>10, <1>11, <1>16 DEF Shape6, f

\* A header of five words is followed by no option.
LEMMA NoOption ==
    ASSUME NEW f, IsFrame(f), Len(f.words) > 5, Ihl(f) = 5,
           \A i \in 1 .. 5 : f.words[i].is = "hdr"
    PROVE  f.words[6].is \notin {"hdr", "option"}
<1> DEFINE S == {i \in DOMAIN f.words : f.words[i].is \in {"hdr", "option"}}
<1>1. DOMAIN f.words = 1 .. Len(f.words) /\ Len(f.words) \in Nat
  BY DEF IsFrame, IsWords
<1>2. IsFiniteSet(S)
  <2>1. IsFiniteSet(1 .. Len(f.words))
    BY <1>1, FS_Interval
  <2> QED BY <1>1, <2>1, FS_Subset
<1>3. Cardinality(S) = 5
  BY DEF Ihl
<1>4. SUFFICES ASSUME f.words[6].is \in {"hdr", "option"} PROVE FALSE
  OBVIOUS
<1>5. 1 .. 6 \subseteq S
  <2>1. ASSUME NEW i \in 1 .. 6
        PROVE  i \in 1 .. Len(f.words) /\ f.words[i].is \in {"hdr", "option"}
    <3>1. CASE i = 6
      BY <1>1, <1>4, <3>1
    <3>2. CASE i # 6
      <4>1. i \in 1 .. 5
        BY <3>2
      <4> QED BY <1>1, <4>1
    <3> QED BY <3>1, <3>2
  <2> QED BY <1>1, <2>1
<1> HIDE DEF S
<1>6. Cardinality(1 .. 6) = 6
  BY ONLY UpTo
<1>7. Cardinality(1 .. 6) =< Cardinality(S)
  BY <1>2, <1>5, FS_Subset
<1> QED BY <1>3, <1>6, <1>7

\* What reaches the stages of the reverse classifier.
LEMMA ReverseArrives ==
    ASSUME NEW k \in Arriving4, Translatable4(Frame4(k))
    PROVE  Shape4(Frame4(k)) /\ Frame4(k).skb = "ip4"
<1> DEFINE sum == IF k[7] = "zero" THEN ZeroSum
                  ELSE SumOf(k[1], k[2], ServerPort, k[3])
           h == [ver |-> "ip4", proto |-> k[4], src |-> k[1], dst |-> k[2],
                 len |-> k[6]]
           o == [i \in 1 .. k[5] |-> Option]
           t == Transport(k[4], ServerPort, k[3], k[6], sum)
           g == Packet(h, o, t)
           f == Frame4(k)
<1>1. k[5] \in Nat /\ k[9] \in Nat
  BY ArrivingAssumption
<1>2. f = Received(g, k[8], k[9])
  BY DEF Frame4
<1>3. /\ h.ver = "ip4" /\ h.proto = k[4] /\ h.src = k[1] /\ h.dst = k[2]
  OBVIOUS
<1>4. IsWords(o) /\ Len(o) = k[5] /\ \A i \in 1 .. k[5] : o[i] = Option
  <2>1. o = [i \in 1 .. k[5] |-> o[i]]
    OBVIOUS
  <2>2. IsWords(o) /\ Len(o) = k[5]
    <3> HIDE DEF o
    <3> QED BY <1>1, <2>1, Segment
  <2> QED BY <2>2
<1>5. /\ IsWords(t) /\ t[1] = PortsWord(ServerPort, k[3])
      /\ k[4] = "udp" =>
             Len(t) = 2 /\ t[2] = [is |-> "udp", len |-> k[6], sum |-> sum]
      /\ k[4] # "udp" =>
             /\ Len(t) = 5 /\ t[2] = Rest /\ t[3] = Rest /\ t[4] = Rest
             /\ t[5] = [is |-> "sum", sum |-> sum]
  BY TransportWords
<1> HIDE DEF t, h, sum, o
<1>6. /\ Len(g.words) = 5 + k[5] + Len(t)
      /\ \A i \in 1 .. 5 : g.words[i] = [is |-> "hdr", hdr |-> h, at |-> i]
      /\ \A i \in 1 .. k[5] : g.words[5 + i] = Option
      /\ \A i \in 1 .. Len(t) : g.words[5 + k[5] + i] = t[i]
  <2>1. HdrWords[h.ver] = 5
    BY <1>3, HeaderWords
  <2>2. /\ Len(g.words) = HdrWords[h.ver] + Len(o) + Len(t)
        /\ \A i \in 1 .. HdrWords[h.ver] :
               g.words[i] = [is |-> "hdr", hdr |-> h, at |-> i]
        /\ \A i \in 1 .. Len(o) : g.words[HdrWords[h.ver] + i] = o[i]
        /\ \A i \in 1 .. Len(t) :
               g.words[HdrWords[h.ver] + Len(o) + i] = t[i]
    <3>1. LET f0 == Packet(h, o, t)
              n == HdrWords[h.ver] IN
          /\ IsFrame(f0) /\ f0.ether = h.ver /\ f0.skb = h.ver
          /\ Len(f0.words) = n + Len(o) + Len(t)
          /\ n \in {5, 10}
          /\ \A i \in 1 .. n :
                 f0.words[i] = [is |-> "hdr", hdr |-> h, at |-> i]
          /\ \A i \in 1 .. Len(o) : f0.words[n + i] = o[i]
          /\ \A i \in 1 .. Len(t) : f0.words[n + Len(o) + i] = t[i]
      <4>1. h.ver \in {"ip4", "ip6"} /\ IsWords(o) /\ IsWords(t)
        BY <1>3, <1>4, <1>5
      <4> QED BY ONLY <4>1, PacketWords
    <3> QED BY <3>1
  <2> HIDE DEF g
  <2> QED BY <1>4, <2>1, <2>2
<1>7. /\ IsFrame(f) /\ f.skb = "ip4"
      /\ Len(f.words) =< Len(g.words)
      /\ \A i \in 1 .. Len(f.words) : f.words[i] = g.words[i]
  <2>1. LET e == Received(g, k[8], k[9]) IN
        /\ IsFrame(e) /\ e.skb = h.ver
        /\ Len(e.words) =< Len(g.words)
        /\ \A i \in 1 .. Len(e.words) : e.words[i] = g.words[i]
    BY <1>1, <1>3, <1>4, <1>5, ArrivingWords
  <2> HIDE DEF f, g
  <2> QED BY <1>2, <1>3, <2>1
<1> HIDE DEF f, g
<1>8. /\ Len(f.words) >= 5 /\ InPool(HeaderOf(f).dst)
      /\ HeaderOf(f).proto \in Protocols
  BY DEF Translatable4, ForPool, Whole4, HasWord, f
<1>9. Len(f.words) \in Nat /\ Len(t) \in Nat
  BY <1>5, <1>7 DEF IsFrame, IsWords
<1>10. \A i \in 1 .. 5 : f.words[i] = [is |-> "hdr", hdr |-> h, at |-> i]
  <2>1. \A i \in 1 .. 5 : i \in 1 .. Len(f.words)
    BY <1>8, <1>9
  <2> QED BY <1>6, <1>7, <2>1
<1>11. HeaderOf(f) = h /\ k[4] \in Protocols
  <2>1. f.words[1] = [is |-> "hdr", hdr |-> h, at |-> 1]
    BY <1>10
  <2>2. HeaderOf(f) = h
    BY <2>1 DEF HeaderOf
  <2> QED BY <1>3, <1>8, <2>2
<1>12. ASSUME Ihl(f) = 5
       PROVE  Behind(f, 5, h.proto,
                  {SumOf(h.src, h.dst, f.words[6].src, f.words[6].dst)}
                  \cup IF h.proto = "udp" THEN {ZeroSum} ELSE {})
  <2>1. CASE Len(f.words) = 5
    BY <2>1 DEF Behind
  <2>2. CASE Len(f.words) > 5
    <3>1. k[5] = 0
      <4>1. SUFFICES ASSUME k[5] # 0 PROVE FALSE
        OBVIOUS
      <4>2. 1 \in 1 .. k[5] /\ 5 + 1 = 6 /\ 6 \in 1 .. Len(f.words)
        BY <1>1, <1>9, <2>2, <4>1
      <4>3. f.words[6] = Option
        BY <1>6, <1>7, <4>2
      <4>4. f.words[6].is = "option"
        BY <4>3 DEF Option
      <4>5. \A i \in 1 .. 5 : f.words[i].is = "hdr"
        BY <1>10
      <4> QED BY <1>7, <1>12, <2>2, <4>4, <4>5, NoOption
    <3>2. ASSUME NEW i \in 1 .. Len(t), Len(f.words) >= 5 + i
          PROVE  f.words[5 + i] = t[i]
      <4>1. 5 + i \in 1 .. Len(f.words) /\ 5 + k[5] + i = 5 + i
        BY <1>9, <3>1, <3>2
      <4> QED BY <1>6, <1>7, <4>1
    <3>3. f.words[6] = PortsWord(ServerPort, k[3])
      <4>1. 1 \in 1 .. Len(t) /\ Len(f.words) >= 5 + 1 /\ 5 + 1 = 6
        BY <1>5, <1>9, <2>2
      <4> QED BY <1>5, <3>2, <4>1
    <3>4. /\ f.words[6].src = ServerPort /\ f.words[6].dst = k[3]
          /\ f.words[6] = PortsWord(f.words[6].src, f.words[6].dst)
      BY <3>3 DEF PortsWord
    <3>5. sum \in {SumOf(h.src, h.dst, f.words[6].src, f.words[6].dst)}
                  \cup IF h.proto = "udp" THEN {ZeroSum} ELSE {}
      BY <1>3, <3>4, ArrivingAssumption DEF sum
    <3>6. Len(f.words) =< 5 + Len(t)
      BY <1>6, <1>7, <1>9, <3>1
    <3>7. CASE k[4] = "udp"
      <4>1. Len(t) = 2
        BY <1>5, <3>7
      <4>2. ASSUME Len(f.words) = 7
            PROVE  f.words[7] = [is |-> "udp", len |-> k[6], sum |-> sum]
        <5>1. 2 \in 1 .. Len(t) /\ Len(f.words) >= 5 + 2 /\ 5 + 2 = 7
          BY <4>1, <4>2
        <5> QED BY <1>5, <3>2, <3>7, <5>1
      <4>3. ASSUME Len(f.words) = 7
            PROVE  /\ f.words[7] = [is |-> "udp", len |-> f.words[7].len,
                                    sum |-> f.words[7].sum]
                   /\ f.words[7].sum = sum
        BY <4>2, <4>3
      <4> QED BY <1>3, <3>4, <3>5, <3>6, <3>7, <4>1, <4>3 DEF Behind
    <3>8. CASE k[4] = "tcp"
      <4>1. Len(t) = 5
        BY <1>5, <3>8
      <4>2. ASSUME Len(f.words) = 10
            PROVE  /\ f.words[10] = [is |-> "sum", sum |-> sum]
                   /\ f.words[7] = Rest /\ f.words[8] = Rest
                   /\ f.words[9] = Rest
        <5>1. /\ 2 \in 1 .. Len(t) /\ Len(f.words) >= 5 + 2 /\ 5 + 2 = 7
              /\ 3 \in 1 .. Len(t) /\ Len(f.words) >= 5 + 3 /\ 5 + 3 = 8
              /\ 4 \in 1 .. Len(t) /\ Len(f.words) >= 5 + 4 /\ 5 + 4 = 9
              /\ 5 \in 1 .. Len(t) /\ Len(f.words) >= 5 + 5 /\ 5 + 5 = 10
          BY <4>1, <4>2
        <5> QED BY <1>5, <3>2, <3>8, <5>1
      <4>3. ASSUME Len(f.words) = 10
            PROVE  /\ f.words[10] = [is |-> "sum", sum |-> f.words[10].sum]
                   /\ f.words[10].sum = sum
                   /\ \A i \in 5 + 2 .. 5 + 4 : f.words[i] = Rest
        <5>1. \A i \in 5 + 2 .. 5 + 4 : i = 7 \/ i = 8 \/ i = 9
          OBVIOUS
        <5> QED BY <4>2, <4>3, <5>1
      <4> QED BY <1>3, <3>4, <3>5, <3>6, <3>8, <4>1, <4>3 DEF Behind
    <3> QED BY <1>11, <3>7, <3>8 DEF Protocols
  <2>3. Len(f.words) = 5 \/ Len(f.words) > 5
    <3>1. Len(f.words) >= 5 /\ Len(f.words) \in Nat
      BY <1>8, <1>9
    <3> QED BY ONLY <3>1, AtLeast
  <2> QED BY <2>1, <2>2, <2>3
<1> QED BY <1>7, <1>8, <1>11, <1>12 DEF Shape4, f

-----------------------------------------------------------------------------
(* The helpers on a frame.                                                 *)

\* Two fields of a record stored at once.
LEMMA TwoFields ==
    ASSUME NEW f, f = [ether |-> f.ether, skb |-> f.skb, words |-> f.words],
           NEW k, NEW v
    PROVE  [f EXCEPT !.skb = k, !.words = v] =
               [ether |-> f.ether, skb |-> k, words |-> v]
<1> DEFINE g == [f EXCEPT !.skb = k]
<1>1. [f EXCEPT !.skb = k, !.words = v] = [g EXCEPT !.words = v]
  OBVIOUS
<1>2. g = [ether |-> f.ether, skb |-> k, words |-> f.words]
  OBVIOUS
<1> HIDE DEF g
<1>3. [g EXCEPT !.words = v] = [ether |-> f.ether, skb |-> k, words |-> v]
  BY <1>2
<1> QED BY <1>1, <1>3

\* Each of them keeps a frame a record, and all but change_proto its protocol.
LEMMA HelperFields ==
    ASSUME NEW f, f = [ether |-> f.ether, skb |-> f.skb, words |-> f.words]
    PROVE  /\ Shrunk(f) = [ether |-> f.ether, skb |-> "ip4",
                           words |-> SubSeq(f.words, 6, Len(f.words))]
           /\ Grown(f) = [ether |-> f.ether, skb |-> "ip6",
                          words |-> [i \in 1 .. 5 |-> Junk] \o f.words]
           /\ \A e : [f EXCEPT !.ether = e] =
                  [ether |-> e, skb |-> f.skb, words |-> f.words]
           /\ \A h : HeaderStored(f, h) =
                  [ether |-> f.ether, skb |-> f.skb,
                   words |-> HdrWordsOf(h)
                       \o SubSeq(f.words, HdrWords[h.ver] + 1, Len(f.words))]
<1>1. ASSUME NEW v, v = SubSeq(f.words, 6, Len(f.words))
      PROVE  Shrunk(f) = [ether |-> f.ether, skb |-> "ip4", words |-> v]
  <2>1. Shrunk(f) = [f EXCEPT !.skb = "ip4", !.words = v]
    BY <1>1 DEF Shrunk
  <2> QED BY <2>1, TwoFields
<1>2. ASSUME NEW v, v = [i \in 1 .. 5 |-> Junk] \o f.words
      PROVE  Grown(f) = [ether |-> f.ether, skb |-> "ip6", words |-> v]
  <2>1. Grown(f) = [f EXCEPT !.skb = "ip6", !.words = v]
    BY <1>2 DEF Grown
  <2> QED BY <2>1, TwoFields
<1>3. \A e : [f EXCEPT !.ether = e] =
          [ether |-> e, skb |-> f.skb, words |-> f.words]
  OBVIOUS
<1>4. \A v : [f EXCEPT !.words = v] =
         [ether |-> f.ether, skb |-> f.skb, words |-> v]
  OBVIOUS
<1>5. ASSUME NEW h, NEW v,
             v = HdrWordsOf(h)
                     \o SubSeq(f.words, HdrWords[h.ver] + 1, Len(f.words))
      PROVE  HeaderStored(f, h) =
                 [ether |-> f.ether, skb |-> f.skb, words |-> v]
  <2>1. HeaderStored(f, h) = [f EXCEPT !.words = v]
    BY <1>5 DEF HeaderStored
  <2> QED BY <1>4, <2>1
<1>6. Shrunk(f) = [ether |-> f.ether, skb |-> "ip4",
                   words |-> SubSeq(f.words, 6, Len(f.words))]
  BY <1>1
<1>7. Grown(f) = [ether |-> f.ether, skb |-> "ip6",
                  words |-> [i \in 1 .. 5 |-> Junk] \o f.words]
  BY <1>2
<1>8. \A h : HeaderStored(f, h) =
          [ether |-> f.ether, skb |-> f.skb,
           words |-> HdrWordsOf(h)
               \o SubSeq(f.words, HdrWords[h.ver] + 1, Len(f.words))]
  BY <1>5
<1> QED BY <1>3, <1>6, <1>7, <1>8, Zenon

\* Words that are taken away, and words that are put in front.
LEMMA ShrunkWords ==
    ASSUME NEW f, IsFrame(f), Len(f.words) >= 10
    PROVE  LET g == [Shrunk(f) EXCEPT !.ether = "ip4"] IN
           /\ IsFrame(g) /\ g.ether = "ip4" /\ g.skb = "ip4"
           /\ Len(g.words) = Len(f.words) - 5
           /\ \A i \in 1 .. Len(f.words) - 5 : g.words[i] = f.words[i + 5]
<1> DEFINE g == [Shrunk(f) EXCEPT !.ether = "ip4"]
           v == SubSeq(f.words, 6, Len(f.words))
<1>1. f = [ether |-> f.ether, skb |-> f.skb, words |-> f.words]
      /\ IsWords(f.words) /\ Len(f.words) \in Nat
  BY DEF IsFrame, IsWords
<1>2. g = [ether |-> "ip4", skb |-> "ip4", words |-> v]
  <2>1. Shrunk(f) = [ether |-> f.ether, skb |-> "ip4", words |-> v]
    BY <1>1, HelperFields
  <2> HIDE DEF v
  <2> QED BY <2>1
<1>3. 6 \in Nat \ {0} /\ 6 =< Len(f.words) + 1
  BY <1>1
<1>4. /\ IsWords(v) /\ Len(v) = Len(f.words) + 1 - 6
      /\ \A i \in 1 .. Len(f.words) + 1 - 6 : v[i] = f.words[i + 6 - 1]
  BY <1>1, <1>3, Tailed
<1> HIDE DEF v
<1>5. /\ Len(v) = Len(f.words) - 5
      /\ \A i \in 1 .. Len(f.words) - 5 : v[i] = f.words[i + 5]
  <2>1. \A i \in 1 .. Len(f.words) - 5 :
            i \in 1 .. Len(f.words) + 1 - 6 /\ i + 6 - 1 = i + 5
    BY <1>1
  <2> QED BY <1>1, <1>4, <2>1
<1> HIDE DEF g
<1> QED BY <1>2, <1>4, <1>5 DEF IsFrame, g

LEMMA GrownWords ==
    ASSUME NEW f, IsFrame(f)
    PROVE  LET g == [Grown(f) EXCEPT !.ether = "ip6"] IN
           /\ IsFrame(g) /\ g.ether = "ip6" /\ g.skb = "ip6"
           /\ Len(g.words) = Len(f.words) + 5
           /\ \A i \in 1 .. Len(f.words) : g.words[5 + i] = f.words[i]
<1> DEFINE g == [Grown(f) EXCEPT !.ether = "ip6"]
           room == [i \in 1 .. 5 |-> Junk]
           u == f.words
           v == room \o u
<1>1. f = [ether |-> f.ether, skb |-> f.skb, words |-> f.words]
      /\ IsWords(f.words) /\ Len(f.words) \in Nat
  BY DEF IsFrame, IsWords
<1>2. g = [ether |-> "ip6", skb |-> "ip6", words |-> v]
  <2>1. Grown(f) = [ether |-> f.ether, skb |-> "ip6", words |-> v]
    BY <1>1, HelperFields
  <2> HIDE DEF v
  <2> QED BY <2>1
<1>3. IsWords(room) /\ Len(room) = 5
  <2>1. room = [i \in 1 .. 5 |-> room[i]]
    OBVIOUS
  <2> HIDE DEF room
  <2> QED BY <2>1, Segment
<1> HIDE DEF room
<1>4. /\ IsWords(v) /\ Len(v) = 5 + Len(f.words)
      /\ \A i \in 1 .. Len(f.words) : v[5 + i] = f.words[i]
  <2>1. IsWords(u) /\ IsWords(room)
    BY <1>1, <1>3
  <2>3. u = f.words
    OBVIOUS
  <2> HIDE DEF u
  <2>2. /\ IsWords(v) /\ Len(v) = Len(room) + Len(u)
        /\ \A i \in 1 .. Len(u) : v[Len(room) + i] = u[i]
    BY ONLY <2>1, Joined
  <2> HIDE DEF v
  <2> QED BY <1>3, <2>3, <2>2
<1> HIDE DEF g, v
<1>5. Len(v) = Len(f.words) + 5
  BY <1>1, <1>4
<1> QED BY <1>2, <1>4, <1>5 DEF IsFrame, g

\* A header is stored over as many words as it has.
LEMMA HeaderStoredWords ==
    ASSUME NEW f, IsFrame(f), NEW h, h.ver \in {"ip4", "ip6"},
           Len(f.words) >= HdrWords[h.ver]
    PROVE  LET g == HeaderStored(f, h)
               n == HdrWords[h.ver] IN
           /\ IsFrame(g) /\ g.ether = f.ether /\ g.skb = f.skb
           /\ Len(g.words) = Len(f.words)
           /\ \A i \in 1 .. n :
                  g.words[i] = [is |-> "hdr", hdr |-> h, at |-> i]
           /\ \A i \in 1 .. Len(f.words) - n :
                  g.words[n + i] = f.words[n + i]
<1> DEFINE g == HeaderStored(f, h)
           n == HdrWords[h.ver]
           w == HdrWordsOf(h)
           t == SubSeq(f.words, n + 1, Len(f.words))
           v == w \o t
<1>1. f = [ether |-> f.ether, skb |-> f.skb, words |-> f.words]
      /\ IsWords(f.words) /\ Len(f.words) \in Nat
  BY DEF IsFrame, IsWords
<1>2. g = [ether |-> f.ether, skb |-> f.skb, words |-> v]
  BY <1>1, HelperFields
<1>3. /\ IsWords(w) /\ Len(w) = n /\ n \in {5, 10}
      /\ \A i \in 1 .. n : w[i] = [is |-> "hdr", hdr |-> h, at |-> i]
  BY HeaderWords
<1> HIDE DEF w, n
<1>4. n + 1 \in Nat \ {0} /\ n + 1 =< Len(f.words) + 1
  <2>1. n =< Len(f.words)
    BY DEF n
  <2> QED BY <1>1, <1>3, <2>1
<1>5. /\ IsWords(t) /\ Len(t) = Len(f.words) + 1 - (n + 1)
      /\ \A i \in 1 .. Len(f.words) + 1 - (n + 1) :
             t[i] = f.words[i + (n + 1) - 1]
  BY <1>1, <1>4, Tailed
<1> HIDE DEF t
<1>6. /\ Len(t) = Len(f.words) - n
      /\ \A i \in 1 .. Len(f.words) - n : t[i] = f.words[n + i]
  <2>1. Len(f.words) + 1 - (n + 1) = Len(f.words) - n
    BY <1>1, <1>3
  <2>2. \A i \in 1 .. Len(f.words) - n : i + (n + 1) - 1 = n + i
    BY <1>1, <1>3
  <2> QED BY <1>5, <2>1, <2>2
<1>7. /\ IsWords(v) /\ Len(v) = n + Len(t)
      /\ \A i \in 1 .. n : v[i] = w[i]
      /\ \A i \in 1 .. Len(t) : v[n + i] = t[i]
  BY <1>3, <1>5, Joined
<1> HIDE DEF v, g
<1>8. Len(v) = Len(f.words)
  BY <1>1, <1>3, <1>6, <1>7
<1> QED BY <1>2, <1>3, <1>6, <1>7, <1>8 DEF IsFrame, g, n

\* A word stored.
LEMMA WordStoredWords ==
    ASSUME NEW f, IsFrame(f), NEW n \in 1 .. Len(f.words), NEW x
    PROVE  LET g == WordStored(f, n, x) IN
           /\ IsFrame(g) /\ g.ether = f.ether /\ g.skb = f.skb
           /\ Len(g.words) = Len(f.words)
           /\ \A j \in 1 .. Len(f.words) :
                  g.words[j] = IF j = n THEN x ELSE f.words[j]
<1> DEFINE g == WordStored(f, n, x)
           u == f.words
           v == [u EXCEPT ![n] = x]
<1>1. f = [ether |-> f.ether, skb |-> f.skb, words |-> f.words]
      /\ IsWords(u) /\ n \in 1 .. Len(u)
  BY DEF IsFrame
<1>2. g = [f EXCEPT !.words = v]
  BY DEF WordStored
<1> HIDE DEF u
<1>3. /\ IsWords(v) /\ Len(v) = Len(u)
      /\ \A j \in 1 .. Len(u) : v[j] = IF j = n THEN x ELSE u[j]
  <2>1. IsWords(u) /\ n \in 1 .. Len(u)
    BY <1>1
  <2> QED BY ONLY <2>1, StoredOne
<1> HIDE DEF v, g
<1>4. g = [ether |-> f.ether, skb |-> f.skb, words |-> v]
  BY <1>1, <1>2
<1> QED BY <1>3, <1>4 DEF IsFrame, g, u

\* A checksum that is right is right after it has been corrected.
LEMMA CorrectedSum ==
    ASSUME NEW a, NEW b, NEW s, NEW d, NEW c, NEW e, NEW p, NEW q
    PROVE  Corrected(SumOf(a, b, s, d), <<a, b>>, <<c, e>>, <<s, d>>, <<p, q>>)
           = SumOf(c, e, p, q)
BY DEF Corrected, SumOf

\* A frame g has what f has behind a header of m words, behind a header that
\* is to be h.
Fits(f, m, proto, a, b, g, h) ==
    /\ IsFrame(f) /\ m \in {5, 10} /\ proto \in Protocols /\ Len(f.words) > m
    /\ Behind(f, m, proto,
              {SumOf(a, b, f.words[m + 1].src, f.words[m + 1].dst)})
    /\ proto = "udp" => f.words[m + 2].len = "ok"
    /\ IsFrame(g) /\ h.ver \in {"ip4", "ip6"} /\ g.ether = h.ver /\ g.skb = h.ver
    /\ Len(g.words) = HdrWords[h.ver] + (Len(f.words) - m)
    /\ \A i \in 1 .. Len(f.words) - m :
           g.words[HdrWords[h.ver] + i] = f.words[m + i]
    /\ HasWord(g, SumAt(proto, HdrWords[h.ver] + 1))

\* With another header and other ports, the stores make the packet that was
\* meant.
LEMMA Finished ==
    ASSUME NEW f, NEW m, NEW proto, NEW a, NEW b, NEW g, NEW h,
           Fits(f, m, proto, a, b, g, h), NEW p, NEW q
    PROVE  LET n == HdrWords[h.ver]
               u == WordStored(HeaderStored(g, h), n + 1, PortsWord(p, q)) IN
           SumCorrected(u, SumAt(proto, n + 1), <<a, b>>, <<h.src, h.dst>>,
                        <<f.words[m + 1].src, f.words[m + 1].dst>>, <<p, q>>)
           = Packet(h, <<>>, Transport(proto, p, q, "ok",
                                       SumOf(h.src, h.dst, p, q)))
<1> DEFINE n == HdrWords[h.ver]
           e == HeaderStored(g, h)
           u == WordStored(e, n + 1, PortsWord(p, q))
           s == f.words[m + 1].src
           d == f.words[m + 1].dst
           k == IF proto = "udp" THEN 2 ELSE 5
           sum == SumOf(h.src, h.dst, p, q)
           last == IF proto = "udp" THEN [is |-> "udp", len |-> "ok", sum |-> sum]
                   ELSE [is |-> "sum", sum |-> sum]
           x == WordStored(u, n + k, last)
           t == Transport(proto, p, q, "ok", sum)
           y == Packet(h, <<>>, t)
<1>1. /\ IsFrame(f) /\ m \in {5, 10} /\ proto \in Protocols /\ Len(f.words) > m
      /\ Behind(f, m, proto, {SumOf(a, b, s, d)})
      /\ proto = "udp" => f.words[m + 2].len = "ok"
      /\ IsFrame(g) /\ h.ver \in {"ip4", "ip6"} /\ g.ether = h.ver
      /\ g.skb = h.ver
      /\ Len(g.words) = n + (Len(f.words) - m)
      /\ \A i \in 1 .. Len(f.words) - m : g.words[n + i] = f.words[m + i]
      /\ HasWord(g, SumAt(proto, n + 1))
  BY DEF Fits
<1>2. n \in {5, 10} /\ Len(f.words) \in Nat /\ Len(g.words) \in Nat
  BY <1>1, HeaderWords DEF IsFrame, IsWords
<1>3. SumAt(proto, n + 1) = n + k /\ k \in {2, 5} /\ k >= 2
  BY <1>2 DEF SumAt, Protocols
<1>4. Len(f.words) = m + k /\ Len(g.words) = n + k
  <2>1. n + k =< Len(g.words)
    BY <1>1, <1>3 DEF HasWord
  <2>2. Len(f.words) =< m + k
    BY <1>1 DEF Behind, Protocols
  <2>3. Len(g.words) = n + (Len(f.words) - m)
    BY <1>1
  <2>4. m \in Nat /\ n \in Nat /\ k \in Nat
    BY <1>1, <1>2, <1>3
  <2> HIDE DEF n, k
  <2> QED BY ONLY <1>2, <2>1, <2>2, <2>3, <2>4, SameRest
<1>5. \A i \in 1 .. k : g.words[n + i] = f.words[m + i]
  <2>1. Len(f.words) - m = k
    BY <1>1, <1>3, <1>4
  <2> QED BY <1>1, <2>1
<1>6. /\ IsFrame(e) /\ e.ether = h.ver /\ e.skb = h.ver
      /\ Len(e.words) = n + k
      /\ \A i \in 1 .. n : e.words[i] = [is |-> "hdr", hdr |-> h, at |-> i]
      /\ \A i \in 1 .. k : e.words[n + i] = f.words[m + i]
  <2>1. Len(g.words) >= n
    BY <1>2, <1>3, <1>4
  <2>2. LET v == HeaderStored(g, h)
            l == HdrWords[h.ver] IN
        /\ IsFrame(v) /\ v.ether = g.ether /\ v.skb = g.skb
        /\ Len(v.words) = Len(g.words)
        /\ \A i \in 1 .. l : v.words[i] = [is |-> "hdr", hdr |-> h, at |-> i]
        /\ \A i \in 1 .. Len(g.words) - l : v.words[l + i] = g.words[l + i]
    BY <1>1, <2>1, HeaderStoredWords
  <2>3. Len(g.words) - n = k
    BY <1>2, <1>3, <1>4
  <2> QED BY <1>1, <1>4, <1>5, <2>2, <2>3
<1> HIDE DEF e, n, k
<1>7. /\ IsFrame(u) /\ u.ether = h.ver /\ u.skb = h.ver
      /\ Len(u.words) = n + k
      /\ \A i \in 1 .. n : u.words[i] = [is |-> "hdr", hdr |-> h, at |-> i]
      /\ u.words[n + 1] = PortsWord(p, q)
      /\ \A i \in 2 .. k : u.words[n + i] = f.words[m + i]
  <2>1. n + 1 \in 1 .. Len(e.words)
    BY <1>2, <1>3, <1>6
  <2>2. LET v == WordStored(e, n + 1, PortsWord(p, q)) IN
        /\ IsFrame(v) /\ v.ether = e.ether /\ v.skb = e.skb
        /\ Len(v.words) = Len(e.words)
        /\ \A j \in 1 .. Len(e.words) :
               v.words[j] = IF j = n + 1 THEN PortsWord(p, q) ELSE e.words[j]
    BY <1>6, <2>1, WordStoredWords
  <2> HIDE DEF u
  <2>3. /\ IsFrame(u) /\ u.ether = h.ver /\ u.skb = h.ver
        /\ Len(u.words) = n + k
        /\ \A j \in 1 .. n + k :
               u.words[j] = IF j = n + 1 THEN PortsWord(p, q) ELSE e.words[j]
    BY <1>6, <2>2 DEF u
  <2>4. u.words[n + 1] = PortsWord(p, q)
    BY <1>6, <2>1, <2>3
  <2>5. ASSUME NEW i \in 1 .. n
        PROVE  u.words[i] = [is |-> "hdr", hdr |-> h, at |-> i]
    <3>1. i \in 1 .. n + k /\ i # n + 1
      BY <1>2, <1>3
    <3> QED BY <1>6, <2>3, <3>1
  <2>6. ASSUME NEW i \in 2 .. k
        PROVE  u.words[n + i] = f.words[m + i]
    <3>1. n + i \in 1 .. n + k /\ n + i # n + 1 /\ i \in 1 .. k
      BY <1>2, <1>3
    <3> QED BY <1>6, <2>3, <3>1
  <2> QED BY <2>3, <2>4, <2>5, <2>6
<1> HIDE DEF u
<1> DEFINE old == SumOf(a, b, s, d)
           w == u.words[n + k]
<1>8. Corrected(old, <<a, b>>, <<h.src, h.dst>>, <<s, d>>, <<p, q>>) = sum
  <2> HIDE DEF s, d
  <2> QED BY CorrectedSum
<1>9. SumCorrected(u, n + k, <<a, b>>, <<h.src, h.dst>>, <<s, d>>, <<p, q>>) =
      WordStored(u, n + k,
          IF w.is \in {"udp", "sum"}
            THEN [w EXCEPT !.sum = Corrected(w.sum, <<a, b>>, <<h.src, h.dst>>,
                                             <<s, d>>, <<p, q>>)]
            ELSE Mangled)
  BY DEF SumCorrected
<1>10. /\ SumCorrected(u, n + k, <<a, b>>, <<h.src, h.dst>>, <<s, d>>, <<p, q>>) = x
       /\ proto = "tcp" =>
              \A i \in 2 .. 4 : u.words[n + i] = Rest
  <2>1. u.words[n + k] = f.words[m + k]
    <3>1. k \in 2 .. k
      BY <1>3
    <3> QED BY <1>7, <3>1
  <2>2. CASE proto = "udp"
    <3>1. k = 2
      BY <2>2 DEF k
    <3>2. u.words[n + k] = [is |-> "udp", len |-> "ok", sum |-> SumOf(a, b, s, d)]
      <4>1. /\ f.words[m + 2] = [is |-> "udp", len |-> f.words[m + 2].len,
                                 sum |-> f.words[m + 2].sum]
            /\ f.words[m + 2].sum \in {SumOf(a, b, s, d)}
        BY <1>1, <1>4, <2>2, <3>1 DEF Behind
      <4> QED BY <1>1, <2>1, <2>2, <3>1, <4>1
    <3>3. SumCorrected(u, n + k, <<a, b>>, <<h.src, h.dst>>, <<s, d>>, <<p, q>>)
          = WordStored(u, n + k, [is |-> "udp", len |-> "ok", sum |-> sum])
      <4>1. w = [is |-> "udp", len |-> "ok", sum |-> old]
        BY <3>2
      <4> HIDE DEF sum, old, w
      <4>2. w.is \in {"udp", "sum"} /\ w.sum = old
        BY <4>1
      <4>3. [w EXCEPT !.sum = sum] = [is |-> "udp", len |-> "ok", sum |-> sum]
        BY <4>1
      <4> QED BY <1>8, <1>9, <4>2, <4>3
    <3> QED BY <2>2, <3>3
  <2>3. CASE proto = "tcp"
    <3>1. k = 5
      BY <2>3 DEF k
    <3>2. /\ u.words[n + k] = [is |-> "sum", sum |-> SumOf(a, b, s, d)]
          /\ \A i \in m + 2 .. m + 4 : f.words[i] = Rest
      <4>1. /\ f.words[m + 5] = [is |-> "sum", sum |-> f.words[m + 5].sum]
            /\ f.words[m + 5].sum \in {SumOf(a, b, s, d)}
            /\ \A i \in m + 2 .. m + 4 : f.words[i] = Rest
        BY <1>1, <1>4, <2>3, <3>1 DEF Behind
      <4> QED BY <2>1, <2>3, <3>1, <4>1
    <3>3. SumCorrected(u, n + k, <<a, b>>, <<h.src, h.dst>>, <<s, d>>, <<p, q>>)
          = WordStored(u, n + k, [is |-> "sum", sum |-> sum])
      <4>1. w = [is |-> "sum", sum |-> old]
        BY <3>2
      <4> HIDE DEF sum, old, w
      <4>2. w.is \in {"udp", "sum"} /\ w.sum = old
        BY <4>1
      <4>3. [w EXCEPT !.sum = sum] = [is |-> "sum", sum |-> sum]
        BY <4>1
      <4> QED BY <1>8, <1>9, <4>2, <4>3
    <3>4. ASSUME NEW i \in 2 .. 4
          PROVE  u.words[n + i] = Rest
      <4>1. i \in 2 .. k /\ m + i \in m + 2 .. m + 4
        BY <1>1, <3>1
      <4> QED BY <1>7, <3>2, <4>1
    <3> QED BY <2>3, <3>3, <3>4
  <2> QED BY <1>1, <2>2, <2>3 DEF Protocols
<1>11. /\ IsFrame(x) /\ x.ether = h.ver /\ x.skb = h.ver
       /\ Len(x.words) = n + k
       /\ \A j \in 1 .. n + k :
              x.words[j] = IF j = n + k THEN last ELSE u.words[j]
  <2>1. n + k \in 1 .. Len(u.words)
    BY <1>2, <1>3, <1>7
  <2> HIDE DEF last
  <2>2. LET v == WordStored(u, n + k, last) IN
        /\ IsFrame(v) /\ v.ether = u.ether /\ v.skb = u.skb
        /\ Len(v.words) = Len(u.words)
        /\ \A j \in 1 .. Len(u.words) :
               v.words[j] = IF j = n + k THEN last ELSE u.words[j]
    BY <1>7, <2>1, WordStoredWords
  <2> QED BY <1>7, <2>2
<1>12. /\ IsWords(t) /\ Len(t) = k /\ t[1] = PortsWord(p, q) /\ t[k] = last
       /\ proto = "tcp" => \A i \in 2 .. 4 : t[i] = Rest
  <2>1. /\ IsWords(t) /\ t[1] = PortsWord(p, q)
        /\ proto = "udp" =>
               Len(t) = 2 /\ t[2] = [is |-> "udp", len |-> "ok", sum |-> sum]
        /\ proto # "udp" =>
               /\ Len(t) = 5 /\ t[2] = Rest /\ t[3] = Rest /\ t[4] = Rest
               /\ t[5] = [is |-> "sum", sum |-> sum]
    BY TransportWords
  <2> HIDE DEF t, sum
  <2>2. \A i \in 2 .. 4 : i = 2 \/ i = 3 \/ i = 4
    OBVIOUS
  <2> QED BY <2>1, <2>2 DEF k
<1> HIDE DEF t, last, sum
<1>13. /\ IsFrame(y) /\ y.ether = h.ver /\ y.skb = h.ver
       /\ Len(y.words) = n + k
       /\ \A i \in 1 .. n : y.words[i] = [is |-> "hdr", hdr |-> h, at |-> i]
       /\ \A i \in 1 .. k : y.words[n + i] = t[i]
  <2>1. IsWords(<<>>) /\ Len(<<>>) = 0
    <3>1. <<>> = [i \in 1 .. 0 |-> <<>>[i]]
      OBVIOUS
    <3> QED BY <3>1, Segment
  <2>2. h.ver \in {"ip4", "ip6"} /\ IsWords(<<>>) /\ IsWords(t)
    BY <1>1, <1>12, <2>1
  <2>3. LET v == Packet(h, <<>>, t)
            l == HdrWords[h.ver] IN
        /\ IsFrame(v) /\ v.ether = h.ver /\ v.skb = h.ver
        /\ Len(v.words) = l + Len(<<>>) + Len(t)
        /\ l \in {5, 10}
        /\ \A i \in 1 .. l : v.words[i] = [is |-> "hdr", hdr |-> h, at |-> i]
        /\ \A i \in 1 .. Len(<<>>) : v.words[l + i] = <<>>[i]
        /\ \A i \in 1 .. Len(t) : v.words[l + Len(<<>>) + i] = t[i]
    BY ONLY <2>2, PacketWords
  <2> HIDE DEF y
  <2>4. /\ IsFrame(y) /\ y.ether = h.ver /\ y.skb = h.ver
        /\ Len(y.words) = n + 0 + k
        /\ \A i \in 1 .. n : y.words[i] = [is |-> "hdr", hdr |-> h, at |-> i]
        /\ \A i \in 1 .. k : y.words[n + 0 + i] = t[i]
    BY <1>12, <2>1, <2>3 DEF y, n
  <2>5. n + 0 = n
    BY <1>2
  <2> QED BY <2>4, <2>5
<1> HIDE DEF x, y
<1>14. ASSUME NEW j \in 1 .. n + k PROVE x.words[j] = y.words[j]
  <2>1. CASE j \in 1 .. n
    <3>1. j # n + k
      BY <1>2, <1>3, <2>1
    <3> QED BY <1>7, <1>11, <1>13, <2>1, <3>1
  <2>2. CASE j = n + k
    <3>1. k \in 1 .. k
      BY <1>3
    <3>2. y.words[n + k] = last
      BY ONLY <1>12, <1>13, <3>1
    <3> QED BY ONLY <1>11, <2>2, <3>2
  <2>3. CASE j = n + 1
    <3>1. 1 \in 1 .. k /\ n + 1 # n + k
      BY <1>2, <1>3
    <3>2. y.words[n + 1] = PortsWord(p, q)
      BY ONLY <1>12, <1>13, <3>1
    <3>3. n + 1 \in 1 .. n + k
      BY <1>2, <1>3
    <3>4. x.words[n + 1] = PortsWord(p, q)
      BY ONLY <1>7, <1>11, <3>1, <3>3
    <3> QED BY <2>3, <3>2, <3>4
  <2>4. CASE j \notin 1 .. n /\ j # n + k /\ j # n + 1
    <3>1. k = 5 /\ j - n \in 2 .. 4 /\ j = n + (j - n) /\ j - n \in 1 .. k
      BY <1>2, <1>3, <2>4
    <3>2. proto = "tcp"
      BY <1>1, <3>1 DEF k, Protocols
    <3> DEFINE i == j - n
    <3>3. i \in 2 .. 4 /\ i \in 1 .. k /\ j = n + i
      BY <3>1
    <3> HIDE DEF i
    <3>4. u.words[n + i] = Rest /\ t[i] = Rest /\ y.words[n + i] = t[i]
      <4>1. u.words[n + i] = Rest
        BY ONLY <1>10, <3>2, <3>3
      <4>2. t[i] = Rest
        BY ONLY <1>12, <3>2, <3>3
      <4>3. y.words[n + i] = t[i]
        BY ONLY <1>13, <3>3
      <4> QED BY ONLY <4>1, <4>2, <4>3
    <3> QED BY <1>11, <2>4, <3>3, <3>4
  <2> QED BY <2>1, <2>2, <2>3, <2>4
<1>15. x.words = y.words
  <2>1. /\ IsWords(x.words) /\ IsWords(y.words)
        /\ Len(x.words) = Len(y.words)
        /\ \A j \in 1 .. Len(x.words) : x.words[j] = y.words[j]
    BY <1>11, <1>13, <1>14 DEF IsFrame
  <2> QED BY <2>1, SameWords
<1>16. x = y
  BY <1>11, <1>13, <1>15 DEF IsFrame
<1> QED BY <1>3, <1>10, <1>16 DEF n, e, u, y, t, sum

-----------------------------------------------------------------------------
(* The order of the stages.                                                *)

\* The run is at one stage and the next one follows it.
Step(stage, next) == At(stage) /\ Following = next

LEMMA FollowingIs ==
    ASSUME NEW stages, stages = StagesOf(run.dir, run.proto),
           NEW k \in 1 .. Len(stages) - 1, run.stage = stages[k],
           \A j \in 1 .. Len(stages) - 1 : stages[j] = stages[k] => j = k
    PROVE  Following = stages[k + 1]
<1> DEFINE i == CHOOSE j \in 1 .. Len(stages) - 1 : stages[j] = run.stage
<1>1. i \in 1 .. Len(stages) - 1 /\ stages[i] = run.stage
  OBVIOUS
<1>2. i = k
  BY <1>1
<1>3. Following = stages[i + 1]
  BY DEF Following
<1> QED BY <1>2, <1>3

LEMMA ForwardTcpSteps ==
    ASSUME NEW i \in 1 .. 10, Forward, Tcp, run.stage = ForwardTcpStages[i]
    PROVE  \/ Step("length", "proto") \/ Step("proto", "ether")
           \/ Step("ether", "ports") \/ Step("ports", "map")
           \/ Step("map", "header") \/ Step("header", "port")
           \/ Step("port", "sum") \/ Step("sum", "nat")
           \/ Step("nat", "redirect") \/ At("redirect")
<1> DEFINE s == ForwardTcpStages
<1>1. StagesOf(run.dir, run.proto) = s /\ Len(s) = 10
  BY DEF StagesOf, Forward, Tcp, ForwardTcpStages
<1>2. \A j \in 1 .. 9, k \in 1 .. 9 : s[j] = s[k] => j = k
  BY DEF ForwardTcpStages
<1>3. ASSUME i # 10 PROVE Following = s[i + 1]
  <2>1. i \in 1 .. Len(s) - 1 /\ Len(s) - 1 = 9
    BY <1>1, <1>3
  <2> HIDE DEF s
  <2>2. \A j \in 1 .. Len(s) - 1 : s[j] = s[i] => j = i
    BY <1>2, <2>1
  <2>3. run.stage = s[i] /\ s = StagesOf(run.dir, run.proto)
    BY <1>1 DEF s
  <2> QED BY <2>1, <2>2, <2>3, FollowingIs
<1>4. CASE i = 10
  BY <1>4 DEF ForwardTcpStages, At
<1>5. CASE i # 10
  <2>1. \/ i = 1 \/ i = 2 \/ i = 3 \/ i = 4 \/ i = 5
        \/ i = 6 \/ i = 7 \/ i = 8 \/ i = 9
    BY <1>5
  <2> QED BY <1>3, <1>5, <2>1 DEF ForwardTcpStages, Step, At
<1> QED BY <1>4, <1>5

LEMMA ForwardUdpSteps ==
    ASSUME NEW i \in 1 .. 10, Forward, ~ Tcp, run.stage = ForwardUdpStages[i]
    PROVE  \/ Step("ports", "length") \/ Step("length", "map")
           \/ Step("map", "proto") \/ Step("proto", "ether")
           \/ Step("ether", "header") \/ Step("header", "port")
           \/ Step("port", "sum") \/ Step("sum", "nat")
           \/ Step("nat", "redirect") \/ At("redirect")
<1> DEFINE s == ForwardUdpStages
<1>1. StagesOf(run.dir, run.proto) = s /\ Len(s) = 10
  BY DEF StagesOf, Forward, Tcp, ForwardUdpStages
<1>2. \A j \in 1 .. 9, k \in 1 .. 9 : s[j] = s[k] => j = k
  BY DEF ForwardUdpStages
<1>3. ASSUME i # 10 PROVE Following = s[i + 1]
  <2>1. i \in 1 .. Len(s) - 1 /\ Len(s) - 1 = 9
    BY <1>1, <1>3
  <2> HIDE DEF s
  <2>2. \A j \in 1 .. Len(s) - 1 : s[j] = s[i] => j = i
    BY <1>2, <2>1
  <2>3. run.stage = s[i] /\ s = StagesOf(run.dir, run.proto)
    BY <1>1 DEF s
  <2> QED BY <2>1, <2>2, <2>3, FollowingIs
<1>4. CASE i = 10
  BY <1>4 DEF ForwardUdpStages, At
<1>5. CASE i # 10
  <2>1. \/ i = 1 \/ i = 2 \/ i = 3 \/ i = 4 \/ i = 5
        \/ i = 6 \/ i = 7 \/ i = 8 \/ i = 9
    BY <1>5
  <2> QED BY <1>3, <1>5, <2>1 DEF ForwardUdpStages, Step, At
<1> QED BY <1>4, <1>5

LEMMA ReverseTcpSteps ==
    ASSUME NEW i \in 1 .. 9, ~ Forward, Tcp, run.stage = ReverseTcpStages[i]
    PROVE  \/ Step("length", "ports") \/ Step("ports", "lookup")
           \/ Step("lookup", "proto") \/ Step("proto", "ether")
           \/ Step("ether", "header") \/ Step("header", "port")
           \/ Step("port", "sum") \/ Step("sum", "redirect")
           \/ At("redirect")
<1> DEFINE s == ReverseTcpStages
<1>1. StagesOf(run.dir, run.proto) = s /\ Len(s) = 9
  BY DEF StagesOf, Forward, Tcp, ReverseTcpStages
<1>2. \A j \in 1 .. 8, k \in 1 .. 8 : s[j] = s[k] => j = k
  BY DEF ReverseTcpStages
<1>3. ASSUME i # 9 PROVE Following = s[i + 1]
  <2>1. i \in 1 .. Len(s) - 1 /\ Len(s) - 1 = 8
    BY <1>1, <1>3
  <2> HIDE DEF s
  <2>2. \A j \in 1 .. Len(s) - 1 : s[j] = s[i] => j = i
    BY <1>2, <2>1
  <2>3. run.stage = s[i] /\ s = StagesOf(run.dir, run.proto)
    BY <1>1 DEF s
  <2> QED BY <2>1, <2>2, <2>3, FollowingIs
<1>4. CASE i = 9
  BY <1>4 DEF ReverseTcpStages, At
<1>5. CASE i # 9
  <2>1. \/ i = 1 \/ i = 2 \/ i = 3 \/ i = 4 \/ i = 5
        \/ i = 6 \/ i = 7 \/ i = 8
    BY <1>5
  <2> QED BY <1>3, <1>5, <2>1 DEF ReverseTcpStages, Step, At
<1> QED BY <1>4, <1>5

LEMMA ReverseUdpSteps ==
    ASSUME NEW i \in 1 .. 10, ~ Forward, ~ Tcp, run.stage = ReverseUdpStages[i]
    PROVE  \/ Step("ports", "length") \/ Step("length", "lookup")
           \/ Step("lookup", "proto") \/ Step("proto", "ether")
           \/ Step("ether", "header") \/ Step("header", "port")
           \/ Step("port", "zero") \/ Step("zero", "sum")
           \/ Step("sum", "redirect") \/ At("redirect")
<1> DEFINE s == ReverseUdpStages
<1>1. StagesOf(run.dir, run.proto) = s /\ Len(s) = 10
  BY DEF StagesOf, Forward, Tcp, ReverseUdpStages
<1>2. \A j \in 1 .. 9, k \in 1 .. 9 : s[j] = s[k] => j = k
  BY DEF ReverseUdpStages
<1>3. ASSUME i # 10 PROVE Following = s[i + 1]
  <2>1. i \in 1 .. Len(s) - 1 /\ Len(s) - 1 = 9
    BY <1>1, <1>3
  <2> HIDE DEF s
  <2>2. \A j \in 1 .. Len(s) - 1 : s[j] = s[i] => j = i
    BY <1>2, <2>1
  <2>3. run.stage = s[i] /\ s = StagesOf(run.dir, run.proto)
    BY <1>1 DEF s
  <2> QED BY <2>1, <2>2, <2>3, FollowingIs
<1>4. CASE i = 10
  BY <1>4 DEF ReverseUdpStages, At
<1>5. CASE i # 10
  <2>1. \/ i = 1 \/ i = 2 \/ i = 3 \/ i = 4 \/ i = 5
        \/ i = 6 \/ i = 7 \/ i = 8 \/ i = 9
    BY <1>5
  <2> QED BY <1>3, <1>5, <2>1 DEF ReverseUdpStages, Step, At
<1> QED BY <1>4, <1>5

\* Where a run is, what comes next, and that it is a stage again.
LEMMA Steps ==
    ASSUME Locals, ~ At("done")
    PROVE  /\ Forward /\ Tcp =>
                  \/ Step("length", "proto") \/ Step("proto", "ether")
                  \/ Step("ether", "ports") \/ Step("ports", "map")
                  \/ Step("map", "header") \/ Step("header", "port")
                  \/ Step("port", "sum") \/ Step("sum", "nat")
                  \/ Step("nat", "redirect") \/ At("redirect")
           /\ Forward /\ ~ Tcp =>
                  \/ Step("ports", "length") \/ Step("length", "map")
                  \/ Step("map", "proto") \/ Step("proto", "ether")
                  \/ Step("ether", "header") \/ Step("header", "port")
                  \/ Step("port", "sum") \/ Step("sum", "nat")
                  \/ Step("nat", "redirect") \/ At("redirect")
           /\ ~ Forward /\ Tcp =>
                  \/ Step("length", "ports") \/ Step("ports", "lookup")
                  \/ Step("lookup", "proto") \/ Step("proto", "ether")
                  \/ Step("ether", "header") \/ Step("header", "port")
                  \/ Step("port", "sum") \/ Step("sum", "redirect")
                  \/ At("redirect")
           /\ ~ Forward /\ ~ Tcp =>
                  \/ Step("ports", "length") \/ Step("length", "lookup")
                  \/ Step("lookup", "proto") \/ Step("proto", "ether")
                  \/ Step("ether", "header") \/ Step("header", "port")
                  \/ Step("port", "zero") \/ Step("zero", "sum")
                  \/ Step("sum", "redirect") \/ At("redirect")
           /\ ~ At("redirect") =>
                  \E i \in 1 .. Len(StagesOf(run.dir, run.proto)) :
                      Following = StagesOf(run.dir, run.proto)[i]
<1> DEFINE stages == StagesOf(run.dir, run.proto)
<1>1. PICK i \in 1 .. Len(stages) : run.stage = stages[i]
  BY DEF Locals
<1>2. ASSUME Forward, Tcp
      PROVE  stages = ForwardTcpStages /\ Len(stages) = 10
  BY <1>2 DEF StagesOf, Forward, Tcp, ForwardTcpStages
<1>3. ASSUME Forward, ~ Tcp
      PROVE  stages = ForwardUdpStages /\ Len(stages) = 10
  BY <1>3 DEF StagesOf, Forward, Tcp, ForwardUdpStages
<1>4. ASSUME ~ Forward, Tcp
      PROVE  stages = ReverseTcpStages /\ Len(stages) = 9
  BY <1>4 DEF StagesOf, Forward, Tcp, ReverseTcpStages
<1>5. ASSUME ~ Forward, ~ Tcp
      PROVE  stages = ReverseUdpStages /\ Len(stages) = 10
  BY <1>5 DEF StagesOf, Forward, Tcp, ReverseUdpStages
<1> HIDE DEF stages
<1>6. Forward /\ Tcp =>
             \/ Step("length", "proto") \/ Step("proto", "ether")
             \/ Step("ether", "ports") \/ Step("ports", "map")
             \/ Step("map", "header") \/ Step("header", "port")
             \/ Step("port", "sum") \/ Step("sum", "nat")
             \/ Step("nat", "redirect") \/ At("redirect")
  BY <1>1, <1>2, ForwardTcpSteps
<1>7. Forward /\ ~ Tcp =>
             \/ Step("ports", "length") \/ Step("length", "map")
             \/ Step("map", "proto") \/ Step("proto", "ether")
             \/ Step("ether", "header") \/ Step("header", "port")
             \/ Step("port", "sum") \/ Step("sum", "nat")
             \/ Step("nat", "redirect") \/ At("redirect")
  BY <1>1, <1>3, ForwardUdpSteps
<1>8. ~ Forward /\ Tcp =>
             \/ Step("length", "ports") \/ Step("ports", "lookup")
             \/ Step("lookup", "proto") \/ Step("proto", "ether")
             \/ Step("ether", "header") \/ Step("header", "port")
             \/ Step("port", "sum") \/ Step("sum", "redirect")
             \/ At("redirect")
  BY <1>1, <1>4, ReverseTcpSteps
<1>9. ~ Forward /\ ~ Tcp =>
             \/ Step("ports", "length") \/ Step("length", "lookup")
             \/ Step("lookup", "proto") \/ Step("proto", "ether")
             \/ Step("ether", "header") \/ Step("header", "port")
             \/ Step("port", "zero") \/ Step("zero", "sum")
             \/ Step("sum", "redirect") \/ At("redirect")
  BY <1>1, <1>5, ReverseUdpSteps
<1>10. ASSUME ~ At("redirect")
       PROVE  \E j \in 1 .. Len(stages) : Following = stages[j]
  <2>1. CASE Forward /\ Tcp
    <3>1. stages = ForwardTcpStages /\ Len(stages) = 10
      BY <1>2, <2>1
    <3> QED BY <1>6, <1>10, <2>1, <3>1 DEF Step, ForwardTcpStages
  <2>2. CASE Forward /\ ~ Tcp
    <3>1. stages = ForwardUdpStages /\ Len(stages) = 10
      BY <1>3, <2>2
    <3> QED BY <1>7, <1>10, <2>2, <3>1 DEF Step, ForwardUdpStages
  <2>3. CASE ~ Forward /\ Tcp
    <3>1. stages = ReverseTcpStages /\ Len(stages) = 9
      BY <1>4, <2>3
    <3> QED BY <1>8, <1>10, <2>3, <3>1 DEF Step, ReverseTcpStages
  <2>4. CASE ~ Forward /\ ~ Tcp
    <3>1. stages = ReverseUdpStages /\ Len(stages) = 10
      BY <1>5, <2>4
    <3> QED BY <1>9, <1>10, <2>4, <3>1 DEF Step, ReverseUdpStages
  <2> QED BY <2>1, <2>2, <2>3, <2>4
<1> QED BY <1>6, <1>7, <1>8, <1>9, <1>10 DEF stages

-----------------------------------------------------------------------------
(* How a run moves.                                                        *)

\* The locals but for the stage and the verdict stay.
SameLocals ==
    /\ run'.dir = run.dir /\ run'.proto = run.proto /\ run'.hdr = run.hdr
    /\ run'.flow = run.flow /\ run'.ext = run.ext /\ run'.port = run.port

\* One stage further on, with whatever the stage has found out.
LEMMA Moves ==
    ASSUME Locals, ~ At("done"), ~ At("redirect"),
           run' = [dir |-> run'.dir, proto |-> run'.proto, stage |-> run'.stage,
                   hdr |-> run'.hdr, flow |-> run'.flow, ext |-> run'.ext,
                   port |-> run'.port, verdict |-> run'.verdict],
           run'.dir = run.dir, run'.proto = run.proto,
           run'.verdict = run.verdict, run'.stage = Following
    PROVE  /\ Locals' /\ ~ At("done")' /\ Active' /\ ~ Sent' /\ Active /\ ~ Sent
           /\ Forward' = Forward /\ Tcp' = Tcp
           /\ PastPorts' => PastPorts \/ At("ports")
           /\ PastLength' /\ ~ Tcp => PastLength \/ At("length")
           /\ PastState' => PastState \/ At("map") \/ At("lookup")
           /\ PastState => PastState'
           /\ Past({"redirect"})' => At("nat") \/ (At("sum") /\ ~ Forward)
<1>1. Active /\ run.verdict = "none" /\ run.dir \in {"fwd", "rev"}
  BY DEF Locals
<1>2. Active' /\ Forward' = Forward /\ Tcp' = Tcp
  BY <1>1 DEF Active, Forward, Tcp
<1>3. ~ Sent /\ ~ Sent'
  BY <1>1 DEF Sent
<1>4. /\ \A x : At(x)' <=> Following = x
      /\ \A s : Past(s)' <=> Following \in s
      /\ \A s : Past(s) <=> run.stage \in s
  BY <1>3 DEF At, Past
<1>5. /\ Forward /\ Tcp =>
             \/ Step("length", "proto") \/ Step("proto", "ether")
             \/ Step("ether", "ports") \/ Step("ports", "map")
             \/ Step("map", "header") \/ Step("header", "port")
             \/ Step("port", "sum") \/ Step("sum", "nat")
             \/ Step("nat", "redirect")
      /\ Forward /\ ~ Tcp =>
             \/ Step("ports", "length") \/ Step("length", "map")
             \/ Step("map", "proto") \/ Step("proto", "ether")
             \/ Step("ether", "header") \/ Step("header", "port")
             \/ Step("port", "sum") \/ Step("sum", "nat")
             \/ Step("nat", "redirect")
      /\ ~ Forward /\ Tcp =>
             \/ Step("length", "ports") \/ Step("ports", "lookup")
             \/ Step("lookup", "proto") \/ Step("proto", "ether")
             \/ Step("ether", "header") \/ Step("header", "port")
             \/ Step("port", "sum") \/ Step("sum", "redirect")
      /\ ~ Forward /\ ~ Tcp =>
             \/ Step("ports", "length") \/ Step("length", "lookup")
             \/ Step("lookup", "proto") \/ Step("proto", "ether")
             \/ Step("ether", "header") \/ Step("header", "port")
             \/ Step("port", "zero") \/ Step("zero", "sum")
             \/ Step("sum", "redirect")
      /\ \E i \in 1 .. Len(StagesOf(run.dir, run.proto)) :
             Following = StagesOf(run.dir, run.proto)[i]
  BY Steps
<1>6. ~ At("done")'
  BY <1>4, <1>5 DEF Step, At
<1>7. PastPorts' => PastPorts \/ At("ports")
  BY <1>2, <1>4, <1>5 DEF PastPorts, Step, Late, ForwardTcp, At
<1>8. PastLength' /\ ~ Tcp => PastLength \/ At("length")
  BY <1>2, <1>4, <1>5 DEF PastLength, Step, Late, At
<1>9. PastState' => PastState \/ At("map") \/ At("lookup")
  BY <1>2, <1>4, <1>5 DEF PastState, Step, Late, ForwardTcp, At
<1>10. PastState => PastState'
  BY <1>2, <1>4, <1>5 DEF PastState, Step, Late, ForwardTcp, At
<1>11. Past({"redirect"})' => At("nat") \/ (At("sum") /\ ~ Forward)
  <2>1. Past({"redirect"})' => Following = "redirect"
    BY <1>3 DEF Past
  <2> QED BY <1>5, <2>1 DEF Step, At
<1>12. Locals'
  <2>1. run'.stage = Following /\ run'.dir = run.dir /\ run'.proto = run.proto
    OBVIOUS
  <2>2. \E i \in 1 .. Len(StagesOf(run.dir, run.proto)') :
            run'.stage = StagesOf(run.dir, run.proto)'[i]
    BY <1>5, <2>1 DEF StagesOf
  <2> QED BY <1>1, <1>2, <1>3, <2>2 DEF Locals
<1> QED BY <1>1, <1>2, <1>3, <1>6, <1>7, <1>8, <1>9, <1>10, <1>11, <1>12

LEMMA RunFields ==
    ASSUME Locals, NEW x, NEW v
    PROVE  [run EXCEPT !.stage = x, !.verdict = v] =
               [dir |-> run.dir, proto |-> run.proto, stage |-> x,
                hdr |-> run.hdr, flow |-> run.flow, ext |-> run.ext,
                port |-> run.port, verdict |-> v]
<1> DEFINE r == [run EXCEPT !.stage = x]
<1>1. run = [dir |-> run.dir, proto |-> run.proto, stage |-> run.stage,
             hdr |-> run.hdr, flow |-> run.flow, ext |-> run.ext,
             port |-> run.port, verdict |-> run.verdict]
  BY DEF Locals
<1>2. [run EXCEPT !.stage = x, !.verdict = v] = [r EXCEPT !.verdict = v]
  OBVIOUS
<1>3. r = [dir |-> run.dir, proto |-> run.proto, stage |-> x,
           hdr |-> run.hdr, flow |-> run.flow, ext |-> run.ext,
           port |-> run.port, verdict |-> run.verdict]
  BY <1>1
<1> HIDE DEF r
<1>4. [r EXCEPT !.verdict = v] =
          [dir |-> run.dir, proto |-> run.proto, stage |-> x,
           hdr |-> run.hdr, flow |-> run.flow, ext |-> run.ext,
           port |-> run.port, verdict |-> v]
  BY <1>3
<1> QED BY <1>2, <1>4

LEMMA ProceedFields ==
    ASSUME Locals, Proceed
    PROVE  /\ SameLocals /\ run'.stage = Following /\ run'.verdict = run.verdict
           /\ run' = [dir |-> run'.dir, proto |-> run'.proto,
                      stage |-> run'.stage, hdr |-> run'.hdr,
                      flow |-> run'.flow, ext |-> run'.ext,
                      port |-> run'.port, verdict |-> run'.verdict]
<1>1. run = [dir |-> run.dir, proto |-> run.proto, stage |-> run.stage,
             hdr |-> run.hdr, flow |-> run.flow, ext |-> run.ext,
             port |-> run.port, verdict |-> run.verdict]
  BY DEF Locals
<1>2. run' = [dir |-> run.dir, proto |-> run.proto, stage |-> Following,
              hdr |-> run.hdr, flow |-> run.flow, ext |-> run.ext,
              port |-> run.port, verdict |-> run.verdict]
  BY <1>1 DEF Proceed
<1> QED BY <1>2 DEF SameLocals

LEMMA EndFields ==
    ASSUME Locals, ~ At("done"), NEW v \in {"pipe", "redirect", "shot"}, End(v)
    PROVE  /\ SameLocals /\ run'.stage = "done" /\ run'.verdict = v
           /\ Locals' /\ Active /\ Active' /\ Forward' = Forward /\ Tcp' = Tcp
           /\ At("done")' /\ ~ Sent
<1>1. run' = [dir |-> run.dir, proto |-> run.proto, stage |-> "done",
              hdr |-> run.hdr, flow |-> run.flow, ext |-> run.ext,
              port |-> run.port, verdict |-> v]
  BY RunFields DEF End
<1>2. /\ SameLocals /\ run'.stage = "done" /\ run'.verdict = v
      /\ run' = [dir |-> run'.dir, proto |-> run'.proto,
                 stage |-> run'.stage, hdr |-> run'.hdr,
                 flow |-> run'.flow, ext |-> run'.ext,
                 port |-> run'.port, verdict |-> run'.verdict]
  BY <1>1 DEF SameLocals
<1>3. Active /\ run.dir \in {"fwd", "rev"} /\ ~ Sent
  BY DEF Locals, Sent
<1>4. Active' /\ Forward' = Forward /\ Tcp' = Tcp /\ At("done")'
  BY <1>2, <1>3 DEF Active, Forward, Tcp, At, SameLocals
<1>5. Locals'
  BY <1>2, <1>3, <1>4 DEF Locals, At, Sent, SameLocals
<1> QED BY <1>2, <1>3, <1>4, <1>5

\* What a run has made of its packet depends on its direction and locals.
LEMMA SameFrames ==
    ASSUME arrived' = arrived, run'.dir = run.dir
    PROVE  /\ Resized' = Resized /\ Retyped' = Retyped
           /\ SameLocals => /\ Headed' = Headed /\ Ported' = Ported
                            /\ Corrected4' = Corrected4
                            /\ TransportAt' = TransportAt
<1>1. Forward' = Forward
  BY DEF Forward
<1>2. Resized' = Resized
  BY <1>1 DEF Resized
<1>3. Retyped' = Retyped
  BY <1>1, <1>2 DEF Retyped
<1>4. ASSUME SameLocals
      PROVE  /\ Headed' = Headed /\ Ported' = Ported
             /\ Corrected4' = Corrected4 /\ TransportAt' = TransportAt
  <2>1. /\ Before' = Before /\ After' = After
        /\ PortsBefore' = PortsBefore /\ PortsAfter' = PortsAfter
        /\ TransportAt' = TransportAt
    BY <1>1, <1>4 DEF SameLocals, Before, After, PortsBefore, PortsAfter,
                      TransportAt, SourceOf
  <2>2. Headed' = Headed
    BY <1>1, <1>3, <1>4, <2>1 DEF Headed, SameLocals
  <2>3. Ported' = Ported
    BY <1>1, <1>4, <2>1, <2>2 DEF Ported, SameLocals
  <2>4. Corrected4' = Corrected4
    BY <1>1, <1>4, <2>1, <2>3 DEF Corrected4, SameLocals
  <2> QED BY <2>1, <2>2, <2>3, <2>4
<1> QED BY <1>2, <1>3, <1>4

\* A packet that is let through as it is now leaves nothing to be shown but
\* about what was counted.
LEMMA PipeKeeps ==
    ASSUME Locals, Locals6, Locals4, MapsOK, ~ At("done"), End("pipe"),
           UNCHANGED <<fwd, nat, frame, arrived>>
    PROVE  Locals' /\ Locals6' /\ Locals4' /\ Rewritten' /\ MapsOK' /\ StateCounted'
<1>1. /\ SameLocals /\ run'.stage = "done" /\ run'.verdict = "pipe"
      /\ Locals' /\ Active /\ Active' /\ Forward' = Forward /\ Tcp' = Tcp
      /\ At("done")'
  <2>1. "pipe" \in {"pipe", "redirect", "shot"}
    OBVIOUS
  <2> QED BY <2>1, EndFields
<1>2. ~ Sent'
  BY <1>1 DEF Sent
<1>3. ~ PastPorts' /\ ~ PastLength' /\ ~ PastState' /\ ~ Past({"redirect"})'
  BY <1>1, <1>2 DEF PastPorts, PastLength, PastState, Past, Late
<1>4. Locals6'
  BY <1>1, <1>3 DEF Locals6, SameLocals, Forward
<1>5. Locals4'
  BY <1>1, <1>3 DEF Locals4, SameLocals
<1>6. Rewritten'
  <2>1. \A x \in {"length", "proto", "ports", "map", "lookup", "ether",
                  "header", "port", "zero", "sum"} : ~ At(x)'
    BY <1>1 DEF At
  <2>2. ~ Past({"nat", "redirect"})'
    BY <1>1, <1>2 DEF Past
  <2> QED BY <2>1, <2>2 DEF Rewritten
<1>7. MapsOK'
  BY <1>1 DEF MapsOK
<1>8. StateCounted'
  BY <1>3 DEF StateCounted
<1> QED BY <1>1, <1>4, <1>5, <1>6, <1>7, <1>8

\* What a run knows of its packet is kept by a stage that learns nothing.
LEMMA LocalsKept ==
    ASSUME Locals, Locals6, Locals4, ~ At("done"), ~ At("redirect"),
           ~ At("ports"), ~ At("length"), ~ At("map"), ~ At("lookup"),
           ~ At("nat"), Proceed, UNCHANGED <<nat, arrived>>
    PROVE  Locals' /\ Locals6' /\ Locals4'
<1>1. /\ SameLocals /\ run'.stage = Following /\ run'.verdict = run.verdict
      /\ run' = [dir |-> run'.dir, proto |-> run'.proto,
                 stage |-> run'.stage, hdr |-> run'.hdr,
                 flow |-> run'.flow, ext |-> run'.ext,
                 port |-> run'.port, verdict |-> run'.verdict]
  BY ProceedFields
<1>2. /\ Locals' /\ ~ At("done")' /\ Active' /\ ~ Sent' /\ Active /\ ~ Sent
      /\ Forward' = Forward /\ Tcp' = Tcp
      /\ PastPorts' => PastPorts \/ At("ports")
      /\ PastLength' /\ ~ Tcp => PastLength \/ At("length")
      /\ PastState' => PastState \/ At("map") \/ At("lookup")
      /\ PastState => PastState'
      /\ Past({"redirect"})' => At("nat") \/ (At("sum") /\ ~ Forward)
  BY <1>1, Moves DEF SameLocals
<1>3. Locals6'
  BY <1>1, <1>2 DEF Locals6, SameLocals, Forward, Tcp
<1>4. Locals4'
  BY <1>1, <1>2 DEF Locals4, SameLocals, Tcp, LookupKey
<1> QED BY <1>2, <1>3, <1>4

\* Names that the tally does not speak of.
LEMMA TalliedKept ==
    ASSUME Tallied, Active', ~ At("done"), Forward' = Forward, Tcp' = Tcp,
           run'.dir = run.dir, PastState => PastState' \/ At("done")',
           Active, NEW N, counted' = counted \cup N,
           N \cap (MapNames \cup OkNames \cup SentNames) = {}
    PROVE  Tallied'
<1>1. \A x \in MapNames \cup OkNames \cup SentNames :
          x \in counted' <=> x \in counted
  OBVIOUS
<1>2. counted \cap (OkNames \cup SentNames) = {}
  BY DEF Tallied
<1>3. /\ counted' \cap MapNames = counted \cap MapNames
      /\ counted' \cap OkNames = {} /\ counted' \cap SentNames = {}
  BY <1>1, <1>2
<1>4. counted \cap MapNames # {} => Forward /\ PastState
  BY DEF Tallied
<1>5. /\ "fwd_nat_lookup_miss" \in counted' <=> "fwd_nat_lookup_miss" \in counted
      /\ "port_alloc_ok" \in counted' <=> "port_alloc_ok" \in counted
      /\ "port_alloc_err" \in counted' <=> "port_alloc_err" \in counted
      /\ "fwd_nat_insert_ok" \in counted' <=> "fwd_nat_insert_ok" \in counted
      /\ "fwd_nat_insert_err" \in counted' <=> "fwd_nat_insert_err" \in counted
      /\ "fwd_nat_lookup_hit" \in counted' <=> "fwd_nat_lookup_hit" \in counted
      /\ "fwd_nat_refresh_ok" \in counted' <=> "fwd_nat_refresh_ok" \in counted
  BY <1>1 DEF MapNames
<1>6. "nat64_v6_to_v4_ok" \notin counted' /\ "nat64_v4_to_v6_udp_ok" \notin counted'
  BY <1>3 DEF OkNames
<1>7. /\ "pkts_nat64_tcp" \in counted => "pkts_nat64_tcp" \in counted'
      /\ "pkts_ipv4_udp" \in counted => "pkts_ipv4_udp" \in counted'
  OBVIOUS
<1> QED BY <1>3, <1>4, <1>5, <1>6, <1>7 DEF Tallied, ForwardTcp, At

\* A packet that goes on unseen by any state goes on as it arrived.
LEMMA PipeIntact ==
    ASSUME Locals, Rewritten, StateCounted, ~ At("done"), ~ At("redirect"),
           End("pipe"), frame' = frame, arrived' = arrived,
           counted \subseteq counted'
    PROVE  StatelessPassIntact'
<1> DEFINE S == {"nat_hit_refresh_ok", "fwd_nat_refresh_ok", "fwd_nat_insert_ok"}
<1>1. /\ SameLocals /\ Active
  <2>1. "pipe" \in {"pipe", "redirect", "shot"}
    OBVIOUS
  <2> QED BY <2>1, EndFields
<1>2. SUFFICES ASSUME ~ ForwardTcp, counted' \cap S = {} PROVE frame = arrived
  BY <1>1 DEF StatelessPassIntact, ForwardTcp, Forward, Tcp, SameLocals
<1>3. ~ PastState
  <2>1. counted \cap S = {}
    BY <1>2
  <2> QED BY <1>1, <2>1 DEF StateCounted
<1>4. run.stage \notin Late \cup {"proto", "ether"}
  BY <1>2, <1>3 DEF PastState, Past
<1>5. At("length") \/ At("ports") \/ At("map") \/ At("lookup")
  BY <1>2, <1>4, Steps DEF Step, At, ForwardTcp, Late
<1> QED BY <1>1, <1>2, <1>5 DEF Rewritten

-----------------------------------------------------------------------------
(* The stages that give a packet up.                                       *)

LEMMA PipeStep ==
    ASSUME ClassifiersInv, ~ At("done"), ~ At("redirect"), End("pipe"),
           UNCHANGED <<fwd, nat, frame, arrived>>, NEW N,
           counted' = counted \cup N,
           N \cap (MapNames \cup OkNames \cup SentNames) = {}
    PROVE  ClassifiersInv'
<1>1. /\ SameLocals /\ Active /\ Active' /\ Forward' = Forward /\ Tcp' = Tcp
      /\ At("done")'
  <2>1. "pipe" \in {"pipe", "redirect", "shot"}
    OBVIOUS
  <2> QED BY <2>1, EndFields DEF ClassifiersInv
<1>2. Tallied'
  BY <1>1, TalliedKept DEF ClassifiersInv, SameLocals
<1>3. StatelessPassIntact'
  BY PipeIntact DEF ClassifiersInv
<1> QED BY <1>2, <1>3, PipeKeeps DEF ClassifiersInv

LEMMA GivenUp ==
    ASSUME ClassifiersInv,
           LengthBad \/ NoPorts \/ LookupMismatch \/ LookupMiss \/ ZeroRefused
           \/ Abandon
    PROVE  ClassifiersInv'
<1> DEFINE Tally == MapNames \cup OkNames \cup SentNames
<1>1. CASE LengthBad
  <2> DEFINE N == IF Tcp THEN {ErrCsum} ELSE {}
  <2>1. /\ ~ At("done") /\ ~ At("redirect") /\ End("pipe")
        /\ UNCHANGED <<fwd, nat, frame, arrived>> /\ counted' = counted \cup N
    BY <1>1 DEF LengthBad, At, Count
  <2>2. N \cap Tally = {}
    BY DEF ErrCsum, MapNames, OkNames, SentNames
  <2> QED BY <2>1, <2>2, PipeStep
<1>2. CASE NoPorts
  <2> DEFINE N == IF Forward /\ Tcp THEN {ErrCsum} ELSE {}
  <2>1. /\ ~ At("done") /\ ~ At("redirect") /\ End("pipe")
        /\ UNCHANGED <<fwd, nat, frame, arrived>> /\ counted' = counted \cup N
    BY <1>2 DEF NoPorts, At, Count
  <2>2. N \cap Tally = {}
    BY DEF ErrCsum, MapNames, OkNames, SentNames
  <2> QED BY <2>1, <2>2, PipeStep
<1>3. CASE LookupMismatch
  <2> DEFINE N == IF Tcp THEN {"nat_lookup_hit", "nat_lookup_tuple_mismatch",
                               "nat_lookup_miss"}
                  ELSE {"nat64_v4_to_v6_udp_tuple_mismatch"}
  <2>1. /\ ~ At("done") /\ ~ At("redirect") /\ End("pipe")
        /\ UNCHANGED <<fwd, nat, frame, arrived>> /\ counted' = counted \cup N
    BY <1>3 DEF LookupMismatch, At, Count
  <2>2. N \cap Tally = {}
    BY DEF MapNames, OkNames, SentNames
  <2> QED BY <2>1, <2>2, PipeStep
<1>4. CASE LookupMiss
  <2> DEFINE N == IF Tcp THEN {"nat_lookup_miss"} ELSE {"nat64_v4_to_v6_udp_miss"}
  <2>1. /\ ~ At("done") /\ ~ At("redirect") /\ End("pipe")
        /\ UNCHANGED <<fwd, nat, frame, arrived>> /\ counted' = counted \cup N
    BY <1>4 DEF LookupMiss, At, Count
  <2>2. N \cap Tally = {}
    BY DEF MapNames, OkNames, SentNames
  <2> QED BY <2>1, <2>2, PipeStep
<1>5. CASE ZeroRefused
  <2> DEFINE N == {"unsupported_ipv4_udp_zero_checksum"}
  <2>1. /\ ~ At("done") /\ ~ At("redirect") /\ End("pipe")
        /\ UNCHANGED <<fwd, nat, frame, arrived>> /\ counted' = counted \cup N
    BY <1>5 DEF ZeroRefused, At, Count
  <2>2. N \cap Tally = {}
    BY DEF MapNames, OkNames, SentNames
  <2> QED BY <2>1, <2>2, PipeStep
<1>6. CASE Abandon
  <2>1. /\ ~ At("done") /\ ~ At("redirect") /\ End("pipe")
        /\ UNCHANGED <<fwd, nat, frame, arrived>>
        /\ counted' = counted \cup FailureCounted
    BY <1>6 DEF Abandon, At, Count
  <2>2. FailureCounted \cap Tally = {}
    <3>1. FailureCounted \in {{}, {ErrHdr}, {ErrCsum}}
      BY DEF FailureCounted, At
    <3>2. ErrHdr \notin Tally /\ ErrCsum \notin Tally
      BY DEF ErrHdr, ErrCsum, MapNames, OkNames, SentNames
    <3> QED BY <3>1, <3>2
  <2> QED BY <2>1, <2>2, PipeStep
<1> QED BY <1>1, <1>2, <1>3, <1>4, <1>5, <1>6

-----------------------------------------------------------------------------
(* The stages that go on to the next.                                      *)

\* A stage that goes on counts nothing the other counters have to agree with.
LEMMA CountsGrow ==
    ASSUME ClassifiersInv, ~ At("done"), ~ At("redirect"), ~ At("map"),
           ~ At("lookup"), run'.dir = run.dir, run'.proto = run.proto,
           run'.verdict = run.verdict, run'.stage = Following,
           run' = [dir |-> run'.dir, proto |-> run'.proto, stage |-> run'.stage,
                   hdr |-> run'.hdr, flow |-> run'.flow, ext |-> run'.ext,
                   port |-> run'.port, verdict |-> run'.verdict],
           NEW N, counted' = counted \cup N,
           N \cap (MapNames \cup OkNames \cup SentNames) = {}
    PROVE  Tallied' /\ StateCounted' /\ StatelessPassIntact'
<1>1. /\ ~ At("done")' /\ Active' /\ Active
      /\ Forward' = Forward /\ Tcp' = Tcp
      /\ PastState' => PastState \/ At("map") \/ At("lookup")
      /\ PastState => PastState'
  BY Moves DEF ClassifiersInv
<1>2. StatelessPassIntact'
  BY <1>1 DEF StatelessPassIntact
<1>3. StateCounted'
  <2> DEFINE S == {"nat_hit_refresh_ok", "fwd_nat_refresh_ok",
                   "fwd_nat_insert_ok"}
  <2>1. PastState => counted \cap S # {}
    BY <1>1 DEF StateCounted, ClassifiersInv
  <2>2. PastState => counted' \cap S # {}
    BY <2>1
  <2> QED BY <1>1, <2>2 DEF StateCounted
<1>4. Tallied'
  BY <1>1, TalliedKept DEF ClassifiersInv
<1> QED BY <1>2, <1>3, <1>4

\* What a stage does not count is as it was.
LEMMA CountsKept ==
    ASSUME ClassifiersInv, ~ At("done"), ~ At("redirect"), ~ At("map"),
           ~ At("lookup"), run'.dir = run.dir, run'.proto = run.proto,
           run'.verdict = run.verdict, run'.stage = Following,
           run' = [dir |-> run'.dir, proto |-> run'.proto, stage |-> run'.stage,
                   hdr |-> run'.hdr, flow |-> run'.flow, ext |-> run'.ext,
                   port |-> run'.port, verdict |-> run'.verdict],
           counted' = counted
    PROVE  Tallied' /\ StateCounted' /\ StatelessPassIntact'
<1>1. counted' = counted \cup {}
  OBVIOUS
<1>2. {} \cap (MapNames \cup OkNames \cup SentNames) = {}
  OBVIOUS
<1> QED BY <1>1, <1>2, CountsGrow

\* The stages that come next when the packet has not been touched.
LEMMA LengthOkStep ==
    ASSUME ClassifiersInv, LengthOk
    PROVE  ClassifiersInv'
<1>1. /\ ~ At("done") /\ ~ At("redirect") /\ ~ At("map") /\ ~ At("lookup")
      /\ ~ At("ports") /\ At("length") /\ LengthOf = "ok" /\ Proceed
      /\ UNCHANGED <<fwd, nat, frame, arrived, counted>>
  BY DEF LengthOk, At
<1>2. /\ SameLocals /\ run'.stage = Following /\ run'.verdict = run.verdict
      /\ run' = [dir |-> run'.dir, proto |-> run'.proto,
                 stage |-> run'.stage, hdr |-> run'.hdr,
                 flow |-> run'.flow, ext |-> run'.ext,
                 port |-> run'.port, verdict |-> run'.verdict]
  BY <1>1, ProceedFields DEF ClassifiersInv
<1>3. /\ Locals' /\ ~ At("done")' /\ Active' /\ ~ Sent' /\ Active /\ ~ Sent
      /\ Forward' = Forward /\ Tcp' = Tcp
      /\ PastPorts' => PastPorts \/ At("ports")
      /\ PastState' => PastState \/ At("map") \/ At("lookup")
      /\ PastState => PastState'
      /\ Past({"redirect"})' => At("nat") \/ (At("sum") /\ ~ Forward)
  BY <1>1, <1>2, Moves DEF ClassifiersInv, SameLocals
<1>4. Tallied' /\ StateCounted' /\ StatelessPassIntact'
  BY <1>1, <1>2, CountsKept DEF SameLocals
<1>5. frame = arrived
  BY <1>1, <1>3 DEF ClassifiersInv, Rewritten
<1>6. ~ Past({"redirect"})'
  BY <1>1, <1>3 DEF At
<1>7. ~ Tcp => arrived.words[run.hdr + 2].len = "ok"
  BY <1>1, <1>5 DEF LengthOf
<1>8. Locals6'
  <2>1. Active /\ Forward /\ run.proto = "udp" => arrived.words[12].len = "ok"
    <3>1. Active /\ Forward => run.hdr = 10
      BY DEF ClassifiersInv, Locals6
    <3>2. 10 + 2 = 12
      OBVIOUS
    <3> QED BY <1>7, <3>1, <3>2 DEF Tcp
  <2> QED BY <1>1, <1>2, <1>3, <1>6, <2>1
          DEF ClassifiersInv, Locals6, SameLocals, Forward, Tcp
<1>9. Locals4'
  <2>1. run.proto = "udp" => arrived.words[run.hdr + 2].len = "ok"
    BY <1>7 DEF Tcp
  <2> QED BY <1>1, <1>2, <1>3, <2>1
          DEF ClassifiersInv, Locals4, SameLocals, Tcp, LookupKey
<1>10. MapsOK'
  BY <1>1, <1>2, <1>3 DEF ClassifiersInv, MapsOK
<1>11. Rewritten'
  <2>1. /\ Following \in {"proto", "map", "ports", "lookup"}
        /\ Forward /\ Tcp => Following = "proto"
    BY <1>1, <1>3, Steps DEF ClassifiersInv, Step, At
  <2> QED BY <1>1, <1>2, <1>3, <1>5, <2>1
          DEF Rewritten, At, Past, ForwardTcp
<1> QED BY <1>3, <1>4, <1>8, <1>9, <1>10, <1>11 DEF ClassifiersInv

\* A stage that only rewrites the packet.
LEMMA RewriteKeeps ==
    ASSUME ClassifiersInv, Proceed, UNCHANGED <<fwd, nat, arrived, counted>>,
           run.stage \in {"proto", "ether", "header", "port", "zero", "sum"}
    PROVE  /\ Locals' /\ Locals6' /\ Locals4'
           /\ Tallied' /\ StateCounted' /\ StatelessPassIntact'
           /\ Active /\ Active' /\ ~ Sent' /\ run'.stage = Following
           /\ Forward' = Forward /\ Tcp' = Tcp
           /\ Resized' = Resized /\ Retyped' = Retyped /\ Headed' = Headed
           /\ Ported' = Ported /\ Corrected4' = Corrected4
           /\ TransportAt' = TransportAt /\ run'.proto = run.proto
<1>1. /\ ~ At("done") /\ ~ At("redirect") /\ ~ At("map") /\ ~ At("lookup")
      /\ ~ At("ports") /\ ~ At("length") /\ ~ At("nat")
  BY DEF At
<1>2. /\ SameLocals /\ run'.stage = Following /\ run'.verdict = run.verdict
      /\ run' = [dir |-> run'.dir, proto |-> run'.proto,
                 stage |-> run'.stage, hdr |-> run'.hdr,
                 flow |-> run'.flow, ext |-> run'.ext,
                 port |-> run'.port, verdict |-> run'.verdict]
  BY ProceedFields DEF ClassifiersInv
<1>3. /\ Active' /\ ~ Sent' /\ Active /\ Forward' = Forward /\ Tcp' = Tcp
  BY <1>1, <1>2, Moves DEF ClassifiersInv, SameLocals
<1>4. Locals' /\ Locals6' /\ Locals4'
  BY <1>1, LocalsKept DEF ClassifiersInv
<1>5. Tallied' /\ StateCounted' /\ StatelessPassIntact'
  BY <1>1, <1>2, CountsKept DEF SameLocals
<1>6. /\ Resized' = Resized /\ Retyped' = Retyped /\ Headed' = Headed
      /\ Ported' = Ported /\ Corrected4' = Corrected4
      /\ TransportAt' = TransportAt /\ run'.proto = run.proto
  BY <1>2, SameFrames DEF SameLocals
<1> QED BY <1>2, <1>3, <1>4, <1>5, <1>6

LEMMA RewrittenMaps ==
    ASSUME MapsOK, Active', UNCHANGED <<fwd, nat, arrived>>,
           frame' = [ether |-> frame'.ether, skb |-> frame'.skb,
                     words |-> frame'.words],
           frame'.skb \in {"none", "ip4", "ip6", "arp"}
    PROVE  MapsOK'
BY DEF MapsOK

LEMMA WordStoredFields ==
    ASSUME NEW f, f = [ether |-> f.ether, skb |-> f.skb, words |-> f.words],
           NEW i, NEW w
    PROVE  /\ WordStored(f, i, w).skb = f.skb
           /\ WordStored(f, i, w) =
                  [ether |-> WordStored(f, i, w).ether,
                   skb |-> WordStored(f, i, w).skb,
                   words |-> WordStored(f, i, w).words]
<1> DEFINE v == [f.words EXCEPT ![i] = w]
<1>1. WordStored(f, i, w) = [f EXCEPT !.words = v]
  BY DEF WordStored
<1> HIDE DEF v
<1>2. [f EXCEPT !.words = v] =
          [ether |-> f.ether, skb |-> f.skb, words |-> v]
  OBVIOUS
<1> QED BY <1>1, <1>2

LEMMA ChangeProtoStep ==
    ASSUME ClassifiersInv, ChangeProto
    PROVE  ClassifiersInv'
<1>1. /\ At("proto") /\ Proceed /\ UNCHANGED <<fwd, nat, arrived, counted>>
      /\ run.stage \in {"proto", "ether", "header", "port", "zero", "sum"}
      /\ frame' = IF Forward THEN Shrunk(frame) ELSE Grown(frame)
  BY DEF ChangeProto, At
<1>2. /\ Locals' /\ Locals6' /\ Locals4'
      /\ Tallied' /\ StateCounted' /\ StatelessPassIntact'
      /\ Active /\ Active' /\ ~ Sent' /\ run'.stage = Following
      /\ Resized' = Resized
  BY <1>1, RewriteKeeps
<1>3. Following = "ether"
  BY <1>1, Steps DEF ClassifiersInv, Step, At
<1>4. frame = arrived
  BY <1>1, <1>2 DEF ClassifiersInv, Rewritten
<1>5. frame' = Resized
  BY <1>1, <1>4 DEF Resized
<1>6. Rewritten'
  BY <1>2, <1>3, <1>5 DEF Rewritten, At, Past
<1>7. MapsOK'
  <2>1. /\ Shrunk(frame) = [ether |-> frame.ether, skb |-> "ip4",
                            words |-> SubSeq(frame.words, 6, Len(frame.words))]
        /\ Grown(frame) = [ether |-> frame.ether, skb |-> "ip6",
                           words |-> [i \in 1 .. 5 |-> Junk] \o frame.words]
    BY HelperFields DEF ClassifiersInv, MapsOK
  <2>2. /\ frame' = [ether |-> frame'.ether, skb |-> frame'.skb,
                     words |-> frame'.words]
        /\ frame'.skb \in {"none", "ip4", "ip6", "arp"}
    <3>1. CASE Forward
      <4> DEFINE v == SubSeq(frame.words, 6, Len(frame.words))
      <4>1. frame' = [ether |-> frame.ether, skb |-> "ip4", words |-> v]
        BY <1>1, <2>1, <3>1
      <4> HIDE DEF v
      <4> QED BY <4>1
    <3>2. CASE ~ Forward
      <4> DEFINE v == [i \in 1 .. 5 |-> Junk] \o frame.words
      <4>1. frame' = [ether |-> frame.ether, skb |-> "ip6", words |-> v]
        BY <1>1, <2>1, <3>2
      <4> HIDE DEF v
      <4> QED BY <4>1
    <3> QED BY <3>1, <3>2
  <2> QED BY <1>1, <1>2, <2>2, RewrittenMaps DEF ClassifiersInv
<1> QED BY <1>2, <1>6, <1>7 DEF ClassifiersInv

LEMMA StoreEtherStep ==
    ASSUME ClassifiersInv, StoreEther
    PROVE  ClassifiersInv'
<1>1. /\ At("ether") /\ Proceed /\ UNCHANGED <<fwd, nat, arrived, counted>>
      /\ run.stage \in {"proto", "ether", "header", "port", "zero", "sum"}
      /\ frame' = [frame EXCEPT !.ether = IF Forward THEN "ip4" ELSE "ip6"]
  BY DEF StoreEther, At
<1>2. /\ Locals' /\ Locals6' /\ Locals4'
      /\ Tallied' /\ StateCounted' /\ StatelessPassIntact'
      /\ Active /\ Active' /\ ~ Sent' /\ run'.stage = Following
      /\ Forward' = Forward /\ Tcp' = Tcp /\ Retyped' = Retyped
  BY <1>1, RewriteKeeps
<1>3. /\ Forward /\ Tcp => Following = "ports"
      /\ ~ (Forward /\ Tcp) => Following = "header"
  BY <1>1, Steps DEF ClassifiersInv, Step, At
<1>4. frame = Resized
  BY <1>1, <1>2 DEF ClassifiersInv, Rewritten
<1>5. frame' = Retyped
  BY <1>1, <1>4 DEF Retyped
<1>6. Rewritten'
  BY <1>2, <1>3, <1>5 DEF Rewritten, At, Past, ForwardTcp
<1>7. MapsOK'
  <2>1. /\ frame = [ether |-> frame.ether, skb |-> frame.skb,
                    words |-> frame.words]
        /\ frame.skb \in {"none", "ip4", "ip6", "arp"}
    BY DEF ClassifiersInv, MapsOK
  <2>2. /\ frame' = [ether |-> frame'.ether, skb |-> frame'.skb,
                     words |-> frame'.words]
        /\ frame'.skb \in {"none", "ip4", "ip6", "arp"}
    BY <1>1, <2>1
  <2> QED BY <1>1, <1>2, <2>2, RewrittenMaps DEF ClassifiersInv
<1> QED BY <1>2, <1>6, <1>7 DEF ClassifiersInv

LEMMA StoreHeaderStep ==
    ASSUME ClassifiersInv, StoreHeader
    PROVE  ClassifiersInv'
<1> DEFINE h == [ver |-> IF Forward THEN "ip4" ELSE "ip6", proto |-> run.proto,
                 src |-> After[1], dst |-> After[2], len |-> "ok"]
<1>1. /\ At("header") /\ Proceed /\ UNCHANGED <<fwd, nat, arrived, counted>>
      /\ run.stage \in {"proto", "ether", "header", "port", "zero", "sum"}
      /\ frame' = HeaderStored(frame, h)
  BY DEF StoreHeader, At
<1>2. /\ Locals' /\ Locals6' /\ Locals4'
      /\ Tallied' /\ StateCounted' /\ StatelessPassIntact'
      /\ Active /\ Active' /\ ~ Sent' /\ run'.stage = Following
      /\ Headed' = Headed
  BY <1>1, RewriteKeeps
<1>3. Following = "port"
  BY <1>1, Steps DEF ClassifiersInv, Step, At
<1>4. frame = Retyped
  BY <1>1, <1>2 DEF ClassifiersInv, Rewritten
<1>5. frame' = Headed
  BY <1>1, <1>4 DEF Headed
<1>6. Rewritten'
  BY <1>2, <1>3, <1>5 DEF Rewritten, At, Past
<1> HIDE DEF h
<1>7. MapsOK'
  <2> DEFINE v == HdrWordsOf(h)
                  \o SubSeq(frame.words, HdrWords[h.ver] + 1, Len(frame.words))
  <2>1. /\ frame = [ether |-> frame.ether, skb |-> frame.skb,
                    words |-> frame.words]
        /\ frame.skb \in {"none", "ip4", "ip6", "arp"}
    BY DEF ClassifiersInv, MapsOK
  <2>2. frame' = [ether |-> frame.ether, skb |-> frame.skb, words |-> v]
    BY <1>1, <2>1, HelperFields
  <2> HIDE DEF v
  <2>3. /\ frame' = [ether |-> frame'.ether, skb |-> frame'.skb,
                     words |-> frame'.words]
        /\ frame'.skb \in {"none", "ip4", "ip6", "arp"}
    BY <2>1, <2>2
  <2> QED BY <1>1, <1>2, <2>3, RewrittenMaps DEF ClassifiersInv
<1> QED BY <1>2, <1>6, <1>7 DEF ClassifiersInv

LEMMA StorePortStep ==
    ASSUME ClassifiersInv, StorePort
    PROVE  ClassifiersInv'
<1>1. /\ At("port") /\ Proceed /\ UNCHANGED <<fwd, nat, arrived, counted>>
      /\ run.stage \in {"proto", "ether", "header", "port", "zero", "sum"}
      /\ frame' = IF Forward THEN SourcePortStored(frame, TransportAt, run.port)
                  ELSE DestPortStored(frame, TransportAt, run.flow.cport)
  BY DEF StorePort, At
<1>2. /\ Locals' /\ Locals6' /\ Locals4'
      /\ Tallied' /\ StateCounted' /\ StatelessPassIntact'
      /\ Active /\ Active' /\ ~ Sent' /\ run'.stage = Following
      /\ Ported' = Ported
  BY <1>1, RewriteKeeps
<1>3. Following \in {"sum", "zero"}
  BY <1>1, Steps DEF ClassifiersInv, Step, At
<1>4. frame = Headed
  BY <1>1, <1>2 DEF ClassifiersInv, Rewritten
<1>5. frame' = Ported
  BY <1>1, <1>4 DEF Ported
<1>6. Rewritten'
  BY <1>2, <1>3, <1>5 DEF Rewritten, At, Past
<1>7. MapsOK'
  <2>1. /\ frame = [ether |-> frame.ether, skb |-> frame.skb,
                    words |-> frame.words]
        /\ frame.skb \in {"none", "ip4", "ip6", "arp"}
    BY DEF ClassifiersInv, MapsOK
  <2>2. \E w : frame' = WordStored(frame, TransportAt, w)
    BY <1>1 DEF SourcePortStored, DestPortStored
  <2>3. /\ frame' = [ether |-> frame'.ether, skb |-> frame'.skb,
                     words |-> frame'.words]
        /\ frame'.skb \in {"none", "ip4", "ip6", "arp"}
    BY <2>1, <2>2, WordStoredFields
  <2> QED BY <1>1, <1>2, <2>3, RewrittenMaps DEF ClassifiersInv
<1> QED BY <1>2, <1>6, <1>7 DEF ClassifiersInv

LEMMA CorrectSumStep ==
    ASSUME ClassifiersInv, CorrectSum
    PROVE  ClassifiersInv'
<1> DEFINE i == SumAt(run.proto, TransportAt)
<1>1. /\ At("sum") /\ Proceed /\ UNCHANGED <<fwd, nat, arrived, counted>>
      /\ run.stage \in {"proto", "ether", "header", "port", "zero", "sum"}
      /\ HasWord(frame, i)
      /\ frame' = SumCorrected(frame, i, Before, After, PortsBefore, PortsAfter)
  BY DEF CorrectSum, At
<1>2. /\ Locals' /\ Locals6' /\ Locals4'
      /\ Tallied' /\ StateCounted' /\ StatelessPassIntact'
      /\ Active /\ Active' /\ ~ Sent' /\ run'.stage = Following
      /\ Ported' = Ported /\ Corrected4' = Corrected4
      /\ TransportAt' = TransportAt /\ run'.proto = run.proto
  BY <1>1, RewriteKeeps
<1>3. Following \in {"nat", "redirect"}
  BY <1>1, Steps DEF ClassifiersInv, Step, At
<1>4. frame = Ported
  BY <1>1, <1>2 DEF ClassifiersInv, Rewritten
<1>5. frame' = Corrected4 /\ HasWord(Ported, i)
  BY <1>1, <1>4 DEF Corrected4
<1>6. Rewritten'
  <2>1. frame' = Corrected4' /\ HasWord(Ported', i')
    BY <1>2, <1>5
  <2> QED BY <1>2, <1>3, <2>1 DEF Rewritten, At
<1>7. MapsOK'
  <2>1. /\ frame = [ether |-> frame.ether, skb |-> frame.skb,
                    words |-> frame.words]
        /\ frame.skb \in {"none", "ip4", "ip6", "arp"}
    BY DEF ClassifiersInv, MapsOK
  <2>2. \E w : frame' = WordStored(frame, i, w)
    BY <1>1 DEF SumCorrected
  <2> HIDE DEF i
  <2>3. /\ frame' = [ether |-> frame'.ether, skb |-> frame'.skb,
                     words |-> frame'.words]
        /\ frame'.skb \in {"none", "ip4", "ip6", "arp"}
    BY <2>1, <2>2, WordStoredFields
  <2> QED BY <1>1, <1>2, <2>3, RewrittenMaps DEF ClassifiersInv
<1> QED BY <1>2, <1>6, <1>7 DEF ClassifiersInv

LEMMA NotZeroStep ==
    ASSUME ClassifiersInv, NotZero
    PROVE  ClassifiersInv'
<1>1. /\ At("zero") /\ Proceed /\ UNCHANGED <<fwd, nat, arrived, counted>>
      /\ run.stage \in {"proto", "ether", "header", "port", "zero", "sum"}
      /\ frame' = frame
  BY DEF NotZero, At
<1>2. /\ Locals' /\ Locals6' /\ Locals4'
      /\ Tallied' /\ StateCounted' /\ StatelessPassIntact'
      /\ Active /\ Active' /\ ~ Sent' /\ run'.stage = Following
      /\ Ported' = Ported
  BY <1>1, RewriteKeeps
<1>3. Following = "sum"
  BY <1>1, Steps DEF ClassifiersInv, Step, At
<1>4. frame' = Ported
  BY <1>1, <1>2 DEF ClassifiersInv, Rewritten
<1>5. Rewritten'
  BY <1>2, <1>3, <1>4 DEF Rewritten, At, Past
<1>6. MapsOK'
  BY <1>1, <1>2 DEF ClassifiersInv, MapsOK
<1> QED BY <1>2, <1>5, <1>6 DEF ClassifiersInv

-----------------------------------------------------------------------------
(* The stages that learn something.                                        *)

LEMMA IhlNat ==
    ASSUME NEW f, IsFrame(f)
    PROVE  Ihl(f) \in Nat
<1> DEFINE S == {i \in DOMAIN f.words : f.words[i].is \in {"hdr", "option"}}
<1>1. DOMAIN f.words = 1 .. Len(f.words) /\ Len(f.words) \in Nat
  BY DEF IsFrame, IsWords
<1>2. IsFiniteSet(S)
  <2>1. IsFiniteSet(1 .. Len(f.words))
    BY <1>1, FS_Interval
  <2> QED BY <1>1, <2>1, FS_Subset
<1>3. Cardinality(S) \in Nat
  <2> HIDE DEF S
  <2> QED BY <1>2, FS_CardinalityType
<1> QED BY <1>3 DEF Ihl

\* The ports are those of the packet that arrived, wherever they are by now.
LEMMA PortsOfArrived ==
    ASSUME ClassifiersInv, At("ports"), PortsThere
    PROVE  LET at == IF Forward THEN 11 ELSE run.hdr + 1 IN
           /\ Active
           /\ HasWord(arrived, IF Tcp THEN at ELSE at + 1)
           /\ frame.words[PortsAt] = arrived.words[at]
<1>1. Active /\ run.dir \in {"fwd", "rev"}
  BY DEF ClassifiersInv, Locals, At
<1>2. frame = IF ForwardTcp THEN Retyped ELSE arrived
  BY <1>1 DEF ClassifiersInv, Rewritten
<1>3. CASE Forward /\ Tcp
  <2>1. IsFrame(arrived) /\ Len(arrived.words) >= 10 /\ Len(arrived.words) \in Nat
    BY <1>1, <1>3 DEF ClassifiersInv, Locals6, Shape6, IsFrame, IsWords
  <2>2. frame = [Shrunk(arrived) EXCEPT !.ether = "ip4"]
    BY <1>2, <1>3 DEF ForwardTcp, Retyped, Resized
  <2>3. /\ Len(frame.words) = Len(arrived.words) - 5
        /\ \A i \in 1 .. Len(arrived.words) - 5 :
               frame.words[i] = arrived.words[i + 5]
    <3>1. LET g == [Shrunk(arrived) EXCEPT !.ether = "ip4"] IN
          /\ IsFrame(g) /\ g.ether = "ip4" /\ g.skb = "ip4"
          /\ Len(g.words) = Len(arrived.words) - 5
          /\ \A i \in 1 .. Len(arrived.words) - 5 :
                 g.words[i] = arrived.words[i + 5]
      BY <2>1, ShrunkWords
    <3> QED BY <2>2, <3>1
  <2>4. PortsAt = 6
    BY <1>3 DEF PortsAt, HdrWords
  <2>5. 6 =< Len(frame.words)
    BY <1>3, <2>4 DEF PortsThere, HasWord
  <2>6. 11 =< Len(arrived.words) /\ 6 \in 1 .. Len(arrived.words) - 5 /\ 6 + 5 = 11
    BY <2>1, <2>3, <2>5
  <2>7. frame.words[6] = arrived.words[11]
    BY <2>3, <2>6
  <2> QED BY <1>1, <1>3, <2>4, <2>6, <2>7 DEF HasWord
<1>4. CASE Forward /\ ~ Tcp
  <2>1. run.hdr = 10 /\ frame = arrived
    BY <1>1, <1>2, <1>4 DEF ClassifiersInv, Locals6, ForwardTcp
  <2>2. PortsAt = 11
    BY <1>4, <2>1 DEF PortsAt
  <2> QED BY <1>1, <1>4, <2>1, <2>2 DEF PortsThere
<1>5. CASE ~ Forward
  <2>1. frame = arrived
    BY <1>2, <1>5 DEF ForwardTcp
  <2>2. PortsAt = run.hdr + 1
    BY <1>5 DEF PortsAt
  <2> QED BY <1>1, <1>5, <2>1, <2>2 DEF PortsThere
<1> QED BY <1>3, <1>4, <1>5

LEMMA PortsStep ==
    ASSUME ClassifiersInv, Ports
    PROVE  ClassifiersInv'
<1> DEFINE w == frame.words[PortsAt]
           cport == IF Forward THEN w.src ELSE run.flow.cport
           sport == IF Forward THEN w.dst ELSE w.src
           port == IF Forward THEN run.port ELSE w.dst
<1>1. /\ At("ports") /\ PortsThere
      /\ UNCHANGED <<fwd, nat, frame, arrived, counted>>
      /\ ~ At("done") /\ ~ At("redirect") /\ ~ At("map") /\ ~ At("lookup")
      /\ ~ At("length") /\ ~ At("nat") /\ ~ At("sum")
  BY DEF Ports, At
<1>2. run' = [run EXCEPT !.stage = Following, !.flow.cport = cport,
                         !.flow.sport = sport, !.port = port]
  BY DEF Ports
<1>3. Active /\ run.dir \in {"fwd", "rev"} /\ ~ Sent /\ ~ PastState
  BY <1>1 DEF ClassifiersInv, Locals, Sent, At, PastState, Past, Late
<1> HIDE DEF cport, sport, port, w
<1>4. /\ Forward => run.flow = Flow(HeaderOf(arrived).src, run.flow.cport,
                                    HeaderOf(arrived).dst[2], run.flow.sport,
                                    HeaderOf(arrived).proto)
      /\ ~ Forward => run.flow = Flow({}, 0, HeaderOf(arrived).src,
                                      run.flow.sport, HeaderOf(arrived).proto)
  BY <1>1, <1>3 DEF ClassifiersInv, Locals6, Locals4, Forward
<1>5. run.flow = Flow(run.flow.client, run.flow.cport, run.flow.server,
                      run.flow.sport, run.flow.proto)
  BY <1>4 DEF Flow
<1> DEFINE flow == Flow(run.flow.client, cport, run.flow.server, sport,
                        run.flow.proto)
<1>6. run' = [dir |-> run.dir, proto |-> run.proto, stage |-> Following,
              hdr |-> run.hdr, flow |-> flow, ext |-> run.ext,
              port |-> port, verdict |-> run.verdict]
  <2> DEFINE r1 == [run EXCEPT !.stage = Following]
             r2 == [r1 EXCEPT !.flow.cport = cport]
             r3 == [r2 EXCEPT !.flow.sport = sport]
             c == run.flow.client
             a == run.flow.cport
             s == run.flow.server
             b == run.flow.sport
             q == run.flow.proto
  <2>1. run' = [r3 EXCEPT !.port = port]
    BY <1>2
  <2>2. r1 = [dir |-> run.dir, proto |-> run.proto, stage |-> Following,
              hdr |-> run.hdr,
              flow |-> [client |-> c, cport |-> a, server |-> s, sport |-> b,
                        proto |-> q],
              ext |-> run.ext, port |-> run.port, verdict |-> run.verdict]
    <3>1. /\ run = [dir |-> run.dir, proto |-> run.proto, stage |-> run.stage,
                    hdr |-> run.hdr, flow |-> run.flow, ext |-> run.ext,
                    port |-> run.port, verdict |-> run.verdict]
          /\ run.flow = [client |-> c, cport |-> a, server |-> s, sport |-> b,
                         proto |-> q]
      BY <1>5 DEF ClassifiersInv, Locals, Flow
    <3> HIDE DEF c, a, s, b, q
    <3> QED BY ONLY <3>1
  <2> HIDE DEF r1, c, a, s, b, q
  <2>3. r2 = [dir |-> run.dir, proto |-> run.proto, stage |-> Following,
              hdr |-> run.hdr,
              flow |-> [client |-> c, cport |-> cport, server |-> s,
                        sport |-> b, proto |-> q],
              ext |-> run.ext, port |-> run.port, verdict |-> run.verdict]
    BY ONLY <2>2
  <2> HIDE DEF r2
  <2>4. r3 = [dir |-> run.dir, proto |-> run.proto, stage |-> Following,
              hdr |-> run.hdr,
              flow |-> [client |-> c, cport |-> cport, server |-> s,
                        sport |-> sport, proto |-> q],
              ext |-> run.ext, port |-> run.port, verdict |-> run.verdict]
    BY ONLY <2>3
  <2> HIDE DEF r3
  <2>5. [r3 EXCEPT !.port = port] =
            [dir |-> run.dir, proto |-> run.proto, stage |-> Following,
             hdr |-> run.hdr,
             flow |-> [client |-> c, cport |-> cport, server |-> s,
                       sport |-> sport, proto |-> q],
             ext |-> run.ext, port |-> port, verdict |-> run.verdict]
    BY ONLY <2>4
  <2> QED BY <2>1, <2>5 DEF Flow, flow, c, s, q
<1> HIDE DEF flow
<1>7. /\ run'.dir = run.dir /\ run'.proto = run.proto /\ run'.hdr = run.hdr
      /\ run'.ext = run.ext /\ run'.verdict = run.verdict
      /\ run'.stage = Following /\ run'.port = port
      /\ run'.flow = flow
      /\ run' = [dir |-> run'.dir, proto |-> run'.proto,
                 stage |-> run'.stage, hdr |-> run'.hdr,
                 flow |-> run'.flow, ext |-> run'.ext,
                 port |-> run'.port, verdict |-> run'.verdict]
  BY <1>6
<1>8. /\ run'.flow.client = run.flow.client /\ run'.flow.server = run.flow.server
      /\ run'.flow.cport = cport /\ run'.flow.sport = sport
      /\ run'.flow.proto = run.flow.proto
      /\ run'.flow = Flow(run.flow.client, cport, run.flow.server, sport,
                          run.flow.proto)
  BY <1>7 DEF Flow, flow
<1>9. /\ Locals' /\ ~ At("done")' /\ Active' /\ ~ Sent'
      /\ Forward' = Forward /\ Tcp' = Tcp
      /\ PastLength' /\ ~ Tcp => PastLength \/ At("length")
      /\ PastState' => PastState \/ At("map") \/ At("lookup")
      /\ Past({"redirect"})' => At("nat") \/ (At("sum") /\ ~ Forward)
  BY <1>1, <1>7, Moves DEF ClassifiersInv
<1>10. ~ PastState' /\ ~ Past({"redirect"})'
  BY <1>1, <1>3, <1>9
<1>11. Tallied' /\ StateCounted' /\ StatelessPassIntact'
  BY <1>1, <1>7, CountsKept
<1>12. LET at == IF Forward THEN 11 ELSE run.hdr + 1 IN
       /\ HasWord(arrived, IF Tcp THEN at ELSE at + 1)
       /\ w = arrived.words[at]
  BY <1>1, PortsOfArrived DEF w
<1>13. Locals6'
  <2>1. SUFFICES ASSUME Forward PROVE Locals6'
    BY <1>9 DEF Locals6
  <2>2. /\ HasWord(arrived, IF Tcp THEN 11 ELSE 12)
        /\ w = arrived.words[11]
    <3>1. 11 + 1 = 12
      OBVIOUS
    <3> QED BY <1>12, <2>1, <3>1
  <2>3. cport = w.src /\ sport = w.dst
    BY <2>1 DEF cport, sport
  <2>4. port = run.port
    BY <2>1 DEF port
  <2>5. run'.flow = Flow(HeaderOf(arrived).src, run'.flow.cport,
                         HeaderOf(arrived).dst[2], run'.flow.sport,
                         HeaderOf(arrived).proto)
    BY <1>4, <1>8, <2>1 DEF Flow
  <2> QED BY <1>1, <1>3, <1>7, <1>8, <1>9, <1>10, <2>1, <2>2, <2>3, <2>5
          DEF ClassifiersInv, Locals6, Forward, Tcp
<1>14. Locals4'
  <2>1. SUFFICES ASSUME run.dir = "rev" PROVE Locals4'
    BY <1>7 DEF Locals4
  <2>2. ~ Forward
    BY <2>1 DEF Forward
  <2>3. /\ HasWord(arrived, run.hdr + IF Tcp THEN 1 ELSE 2)
        /\ w = arrived.words[run.hdr + 1]
    <3>1. run.hdr \in Nat
      <4>1. run.hdr = Ihl(arrived) /\ IsFrame(arrived)
        BY <1>3, <2>1 DEF ClassifiersInv, Locals4, Shape4
      <4> QED BY <4>1, IhlNat
    <3>2. (run.hdr + 1) + 1 = run.hdr + 2
      BY <3>1
    <3> QED BY <1>12, <2>2, <3>2
  <2>4. cport = run.flow.cport /\ sport = w.src /\ port = w.dst
    BY <2>2 DEF cport, sport, port
  <2>5. run'.flow = Flow({}, 0, HeaderOf(arrived).src, run'.flow.sport,
                         HeaderOf(arrived).proto)
    BY <1>4, <1>8, <2>2, <2>4 DEF Flow
  <2> QED BY <1>1, <1>3, <1>7, <1>8, <1>9, <1>10, <2>1, <2>3, <2>4, <2>5
          DEF ClassifiersInv, Locals4, Tcp
<1>15. MapsOK'
  BY <1>1, <1>9, <1>3 DEF ClassifiersInv, MapsOK
<1>16. Rewritten'
  <2>1. /\ Following \in {"map", "length", "lookup"}
        /\ Forward /\ Tcp => Following = "map"
    BY <1>1, Steps DEF ClassifiersInv, Step, At
  <2>2. Retyped' = Retyped
    BY <1>1, <1>7, SameFrames
  <2>3. frame = IF ForwardTcp THEN Retyped ELSE arrived
    BY <1>1, <1>3 DEF ClassifiersInv, Rewritten
  <2> QED BY <1>1, <1>7, <1>9, <2>1, <2>2, <2>3
          DEF Rewritten, At, Past, ForwardTcp
<1> QED BY <1>9, <1>11, <1>13, <1>14, <1>15, <1>16 DEF ClassifiersInv

\* A run with a mapping knows all it needs.
LEMMA MapLearns ==
    ASSUME ClassifiersInv, At("map"),
           run'.dir = run.dir, run'.proto = run.proto, run'.hdr = run.hdr,
           run'.flow = run.flow, run'.verdict = run.verdict,
           run'.stage = Following,
           run' = [dir |-> run'.dir, proto |-> run'.proto, stage |-> run'.stage,
                   hdr |-> run'.hdr, flow |-> run'.flow, ext |-> run'.ext,
                   port |-> run'.port, verdict |-> run'.verdict],
           InPool(run'.ext), run'.port \in ExtPorts,
           UNCHANGED <<nat, frame, arrived>>
    PROVE  /\ Locals' /\ Locals6' /\ Locals4' /\ Rewritten'
           /\ Active /\ Active' /\ Forward' /\ Tcp' = Tcp /\ PastState'
           /\ ~ At("done")'
<1>1. /\ ~ At("done") /\ ~ At("redirect") /\ ~ At("lookup") /\ ~ At("nat")
      /\ ~ At("ports") /\ ~ At("length") /\ ~ At("sum")
  BY DEF At
<1>2. /\ Locals' /\ ~ At("done")' /\ Active' /\ ~ Sent' /\ Active /\ ~ Sent
      /\ Forward' = Forward /\ Tcp' = Tcp
      /\ PastPorts' => PastPorts
      /\ PastLength' /\ ~ Tcp => PastLength
      /\ ~ Past({"redirect"})'
  BY <1>1, Moves DEF ClassifiersInv
<1>3. /\ Forward
      /\ Following = IF Tcp THEN "header" ELSE "proto"
  BY <1>1, Steps DEF ClassifiersInv, Step, At
<1>4. PastState'
  BY <1>2, <1>3 DEF PastState, Past, Late, ForwardTcp
<1>5. Locals6'
  BY <1>1, <1>2, <1>3 DEF ClassifiersInv, Locals6, Forward, Tcp
<1>6. Locals4'
  BY <1>2, <1>3 DEF Locals4, Forward
<1>7. Rewritten'
  <2>1. Retyped' = Retyped
    BY SameFrames
  <2>2. frame = IF ForwardTcp THEN Retyped ELSE arrived
    BY <1>2 DEF ClassifiersInv, Rewritten
  <2> QED BY <1>2, <1>3, <2>1, <2>2 DEF Rewritten, At, Past, ForwardTcp
<1> QED BY <1>2, <1>3, <1>4, <1>5, <1>6, <1>7

\* What a lookup or a creation counts agrees, however it ends.
LEMMA MapTallied ==
    ASSUME ClassifiersInv, At("map"), Active', Forward', Tcp' = Tcp,
           run'.dir = run.dir, At("done")' \/ PastState',
           NEW N \in {{"fwd_nat_lookup_hit", "fwd_nat_refresh_ok"},
                      {"fwd_nat_lookup_miss", "port_alloc_ok",
                       "fwd_nat_insert_ok"},
                      {"fwd_nat_lookup_miss", "port_alloc_err",
                       "port_alloc_exhausted"},
                      {"fwd_nat_lookup_miss", "port_alloc_err"},
                      {"fwd_nat_lookup_miss", "port_alloc_ok",
                       "fwd_nat_insert_err"}},
           counted' = counted \cup N
    PROVE  Tallied'
<1>1. Active /\ Forward /\ ~ PastState /\ ~ At("done")
  <2>1. Active /\ ~ Sent /\ ~ At("done")
    BY DEF ClassifiersInv, Locals, At, Sent
  <2> QED BY <2>1 DEF PastState, Past, Late, At, Forward
<1>2. counted \cap MapNames = {} /\ counted \cap (OkNames \cup SentNames) = {}
  BY <1>1 DEF ClassifiersInv, Tallied
<1>3. N \cap OkNames = {} /\ N \cap SentNames = {}
  BY DEF OkNames, SentNames
<1>4. counted' \cap OkNames = {} /\ counted' \cap SentNames = {}
  BY <1>2, <1>3
<1>5. \A x \in MapNames : x \in counted' <=> x \in N
  BY <1>2
<1>6. /\ "fwd_nat_lookup_miss" \in N <=>
             "port_alloc_ok" \in N \/ "port_alloc_err" \in N
      /\ ~ ("port_alloc_ok" \in N /\ "port_alloc_err" \in N)
      /\ "port_alloc_ok" \in N <=>
             "fwd_nat_insert_ok" \in N \/ "fwd_nat_insert_err" \in N
      /\ ~ ("fwd_nat_insert_ok" \in N /\ "fwd_nat_insert_err" \in N)
      /\ "fwd_nat_lookup_hit" \in N <=> "fwd_nat_refresh_ok" \in N
  OBVIOUS
<1>7. /\ "fwd_nat_lookup_miss" \in counted' <=>
             "port_alloc_ok" \in counted' \/ "port_alloc_err" \in counted'
      /\ ~ ("port_alloc_ok" \in counted' /\ "port_alloc_err" \in counted')
      /\ "port_alloc_ok" \in counted' <=>
             "fwd_nat_insert_ok" \in counted' \/ "fwd_nat_insert_err" \in counted'
      /\ ~ ("fwd_nat_insert_ok" \in counted' /\ "fwd_nat_insert_err" \in counted')
      /\ "fwd_nat_lookup_hit" \in counted' <=> "fwd_nat_refresh_ok" \in counted'
  BY <1>5, <1>6 DEF MapNames
<1>8. "nat64_v6_to_v4_ok" \notin counted' /\ "nat64_v4_to_v6_udp_ok" \notin counted'
  BY <1>4 DEF OkNames
<1>9. Active /\ ForwardTcp => "pkts_nat64_tcp" \in counted'
  BY DEF ClassifiersInv, Tallied
<1>10. /\ Active' /\ ForwardTcp' => "pkts_nat64_tcp" \in counted'
       /\ ~ (run'.dir = "rev")
  BY <1>1, <1>9 DEF ForwardTcp, Forward
<1> QED BY <1>4, <1>7, <1>8, <1>10 DEF Tallied

LEMMA MapHitStep ==
    ASSUME ClassifiersInv, MapHit
    PROVE  ClassifiersInv'
<1> DEFINE e == fwd[run.flow].ext
           p == fwd[run.flow].port
           N == {"fwd_nat_lookup_hit", "fwd_nat_refresh_ok"}
<1>1. /\ At("map") /\ run.flow \in DOMAIN fwd
      /\ UNCHANGED <<fwd, nat, frame, arrived>>
      /\ counted' = counted \cup N
  BY DEF MapHit, Count
<1>2. run' = [run EXCEPT !.stage = Following, !.ext = e, !.port = p]
  BY DEF MapHit
<1>3. InPool(e) /\ p \in ExtPorts
  BY <1>1 DEF ClassifiersInv, MapsOK
<1> HIDE DEF e, p
<1>4. run' = [dir |-> run.dir, proto |-> run.proto, stage |-> Following,
              hdr |-> run.hdr, flow |-> run.flow, ext |-> e, port |-> p,
              verdict |-> run.verdict]
  <2> DEFINE r1 == [run EXCEPT !.stage = Following]
             r2 == [r1 EXCEPT !.ext = e]
  <2>1. run' = [r2 EXCEPT !.port = p]
    BY <1>2
  <2>2. r1 = [dir |-> run.dir, proto |-> run.proto, stage |-> Following,
              hdr |-> run.hdr, flow |-> run.flow, ext |-> run.ext,
              port |-> run.port, verdict |-> run.verdict]
    BY DEF ClassifiersInv, Locals
  <2> HIDE DEF r1
  <2>3. r2 = [dir |-> run.dir, proto |-> run.proto, stage |-> Following,
              hdr |-> run.hdr, flow |-> run.flow, ext |-> e,
              port |-> run.port, verdict |-> run.verdict]
    BY ONLY <2>2
  <2> HIDE DEF r2
  <2> QED BY ONLY <2>1, <2>3
<1>5. /\ run'.dir = run.dir /\ run'.proto = run.proto /\ run'.hdr = run.hdr
      /\ run'.flow = run.flow /\ run'.verdict = run.verdict
      /\ run'.stage = Following /\ run'.ext = e /\ run'.port = p
      /\ run' = [dir |-> run'.dir, proto |-> run'.proto, stage |-> run'.stage,
                 hdr |-> run'.hdr, flow |-> run'.flow, ext |-> run'.ext,
                 port |-> run'.port, verdict |-> run'.verdict]
  BY <1>4
<1>6. /\ Locals' /\ Locals6' /\ Locals4' /\ Rewritten'
      /\ Active /\ Active' /\ Forward' /\ Tcp' = Tcp /\ PastState'
      /\ ~ At("done")'
  BY <1>1, <1>3, <1>5, MapLearns
<1>7. Tallied'
  BY <1>1, <1>5, <1>6, MapTallied
<1>8. MapsOK'
  BY <1>1, <1>6 DEF ClassifiersInv, MapsOK
<1>9. StateCounted' /\ StatelessPassIntact'
  BY <1>1, <1>6 DEF StateCounted, StatelessPassIntact
<1> QED BY <1>6, <1>7, <1>8, <1>9 DEF ClassifiersInv

LEMMA MapCreateStep ==
    ASSUME ClassifiersInv, NEW p \in ExtPorts, MapCreate(p)
    PROVE  ClassifiersInv'
<1> DEFINE N == {"fwd_nat_lookup_miss", "port_alloc_ok", "fwd_nat_insert_ok"}
           v == [ext |-> run.ext, port |-> p]
<1>1. /\ At("map") /\ UNCHANGED <<nat, frame, arrived>>
      /\ fwd' = Put(fwd, run.flow, v)
      /\ counted' = counted \cup N
  BY DEF MapCreate, Count
<1>2. run' = [run EXCEPT !.stage = Following, !.port = p]
  BY DEF MapCreate
<1>3. InPool(run.ext)
  <2>1. Active /\ Forward
    BY <1>1, Steps DEF ClassifiersInv, Locals, Step, At
  <2> QED BY <2>1 DEF ClassifiersInv, Locals6
<1>4. run' = [dir |-> run.dir, proto |-> run.proto, stage |-> Following,
              hdr |-> run.hdr, flow |-> run.flow, ext |-> run.ext,
              port |-> p, verdict |-> run.verdict]
  <2> DEFINE r1 == [run EXCEPT !.stage = Following]
  <2>1. run' = [r1 EXCEPT !.port = p]
    BY <1>2
  <2>2. r1 = [dir |-> run.dir, proto |-> run.proto, stage |-> Following,
              hdr |-> run.hdr, flow |-> run.flow, ext |-> run.ext,
              port |-> run.port, verdict |-> run.verdict]
    BY DEF ClassifiersInv, Locals
  <2> HIDE DEF r1
  <2> QED BY ONLY <2>1, <2>2
<1>5. /\ run'.dir = run.dir /\ run'.proto = run.proto /\ run'.hdr = run.hdr
      /\ run'.flow = run.flow /\ run'.verdict = run.verdict
      /\ run'.stage = Following /\ run'.ext = run.ext /\ run'.port = p
      /\ run' = [dir |-> run'.dir, proto |-> run'.proto, stage |-> run'.stage,
                 hdr |-> run'.hdr, flow |-> run'.flow, ext |-> run'.ext,
                 port |-> run'.port, verdict |-> run'.verdict]
  BY <1>4
<1>6. /\ Locals' /\ Locals6' /\ Locals4' /\ Rewritten'
      /\ Active /\ Active' /\ Forward' /\ Tcp' = Tcp /\ PastState'
      /\ ~ At("done")'
  BY <1>1, <1>3, <1>5, MapLearns
<1>7. Tallied'
  BY <1>1, <1>5, <1>6, MapTallied
<1>8. MapsOK'
  <2>1. \A f \in DOMAIN fwd' : InPool(fwd'[f].ext) /\ fwd'[f].port \in ExtPorts
    <3>1. \A f \in DOMAIN fwd' : fwd'[f] = v \/ (f \in DOMAIN fwd /\ fwd'[f] = fwd[f])
      BY <1>1 DEF Put
    <3>2. v.ext = run.ext /\ v.port = p
      OBVIOUS
    <3> HIDE DEF v
    <3> QED BY <1>3, <3>1, <3>2 DEF ClassifiersInv, MapsOK
  <2> QED BY <1>1, <1>6, <2>1 DEF ClassifiersInv, MapsOK
<1>9. StateCounted' /\ StatelessPassIntact'
  BY <1>1, <1>6 DEF StateCounted, StatelessPassIntact
<1> QED BY <1>6, <1>7, <1>8, <1>9 DEF ClassifiersInv

LEMMA MapFails ==
    ASSUME ClassifiersInv, MapExhausted \/ MapRejected
    PROVE  ClassifiersInv'
<1>1. PICK N \in {{"fwd_nat_lookup_miss", "port_alloc_err",
                   "port_alloc_exhausted"},
                  {"fwd_nat_lookup_miss", "port_alloc_err"},
                  {"fwd_nat_lookup_miss", "port_alloc_ok",
                   "fwd_nat_insert_err"}} :
          counted' = counted \cup N
  BY DEF MapExhausted, MapRejected, Count
<1>2. /\ At("map") /\ ~ At("done") /\ ~ At("redirect") /\ End("pipe")
      /\ UNCHANGED <<fwd, nat, frame, arrived>>
  BY DEF MapExhausted, MapRejected, At
<1>3. Forward
  BY <1>2, Steps DEF ClassifiersInv, Step, At
<1>4. /\ SameLocals /\ Active' /\ Forward' /\ Tcp' = Tcp /\ At("done")'
  <2>1. "pipe" \in {"pipe", "redirect", "shot"}
    OBVIOUS
  <2> QED BY <1>2, <1>3, <2>1, EndFields DEF ClassifiersInv
<1>5. Tallied'
  BY <1>1, <1>2, <1>4, MapTallied DEF SameLocals
<1>6. StatelessPassIntact'
  BY <1>1, <1>2, PipeIntact DEF ClassifiersInv
<1> QED BY <1>2, <1>5, <1>6, PipeKeeps DEF ClassifiersInv

LEMMA LookupHitStep ==
    ASSUME ClassifiersInv, LookupHit
    PROVE  ClassifiersInv'
<1> DEFINE owner == nat[LookupKey]
           N == {"nat_hit_refresh_ok"} \cup {x \in {"nat_lookup_hit"} : Tcp}
<1>1. /\ At("lookup") /\ LookupKey \in DOMAIN nat /\ TupleMatches(owner)
      /\ UNCHANGED <<fwd, nat, frame, arrived>>
      /\ counted' = counted \cup N
      /\ ~ At("done") /\ ~ At("redirect") /\ ~ At("map") /\ ~ At("nat")
      /\ ~ At("ports") /\ ~ At("length")
  BY DEF LookupHit, Count, At
<1>2. run' = [run EXCEPT !.stage = Following, !.flow = owner]
  BY DEF LookupHit
<1>3. /\ ~ Forward /\ Active /\ run.dir = "rev"
      /\ Following = "proto"
  BY <1>1, Steps DEF ClassifiersInv, Locals, Step, At, Forward
<1>4. owner.server = run.flow.server /\ owner.sport = run.flow.sport
  BY <1>1 DEF TupleMatches
<1> HIDE DEF owner
<1>5. run' = [dir |-> run.dir, proto |-> run.proto, stage |-> Following,
              hdr |-> run.hdr, flow |-> owner, ext |-> run.ext,
              port |-> run.port, verdict |-> run.verdict]
  <2> DEFINE r1 == [run EXCEPT !.stage = Following]
  <2>1. run' = [r1 EXCEPT !.flow = owner]
    BY <1>2
  <2>2. r1 = [dir |-> run.dir, proto |-> run.proto, stage |-> Following,
              hdr |-> run.hdr, flow |-> run.flow, ext |-> run.ext,
              port |-> run.port, verdict |-> run.verdict]
    BY DEF ClassifiersInv, Locals
  <2> HIDE DEF r1
  <2> QED BY ONLY <2>1, <2>2
<1>6. /\ run'.dir = run.dir /\ run'.proto = run.proto /\ run'.hdr = run.hdr
      /\ run'.flow = owner /\ run'.verdict = run.verdict
      /\ run'.stage = Following /\ run'.ext = run.ext /\ run'.port = run.port
      /\ run' = [dir |-> run'.dir, proto |-> run'.proto, stage |-> run'.stage,
                 hdr |-> run'.hdr, flow |-> run'.flow, ext |-> run'.ext,
                 port |-> run'.port, verdict |-> run'.verdict]
  BY <1>5
<1>7. /\ Locals' /\ ~ At("done")' /\ Active' /\ ~ Sent'
      /\ Forward' = Forward /\ Tcp' = Tcp
      /\ PastPorts' => PastPorts
      /\ PastLength' /\ ~ Tcp => PastLength
      /\ PastState => PastState'
  BY <1>1, <1>6, Moves DEF ClassifiersInv
<1>8. PastState'
  BY <1>3, <1>6, <1>7 DEF PastState, Past, ForwardTcp
<1>9. Locals6'
  BY <1>3, <1>6 DEF Locals6, Forward
<1>10. Locals4'
  <2>1. /\ LookupKey' = LookupKey
        /\ LookupKey' \in DOMAIN nat'
        /\ run'.flow = nat'[LookupKey']
    BY <1>1, <1>6 DEF LookupKey, owner
  <2> QED BY <1>1, <1>3, <1>4, <1>6, <1>7, <1>8, <2>1
          DEF ClassifiersInv, Locals4, Tcp
<1>11. Rewritten'
  <2>1. frame = arrived
    BY <1>1, <1>3 DEF ClassifiersInv, Rewritten, ForwardTcp
  <2> QED BY <1>1, <1>3, <1>6, <1>7, <2>1 DEF Rewritten, At, Past
<1>12. MapsOK'
  BY <1>1, <1>7 DEF ClassifiersInv, MapsOK
<1>13. Tallied'
  <2>1. N \cap (MapNames \cup OkNames \cup SentNames) = {}
    BY DEF MapNames, OkNames, SentNames
  <2> QED BY <1>1, <1>3, <1>6, <1>7, <2>1, TalliedKept DEF ClassifiersInv
<1>14. StateCounted' /\ StatelessPassIntact'
  BY <1>1, <1>7 DEF StateCounted, StatelessPassIntact
<1> QED BY <1>7, <1>9, <1>10, <1>11, <1>12, <1>13, <1>14 DEF ClassifiersInv

-----------------------------------------------------------------------------
(* The stages that publish the reverse entry and send the packet.          *)

LEMMA PublishStep ==
    ASSUME ClassifiersInv, Publish \/ PublishFailsUdp
    PROVE  ClassifiersInv'
<1>0. PICK N \in {{}, {"nat_insert_udp_err"}} :
          /\ counted' = counted \cup N
          /\ N = {} => nat' = Put(nat, PublishedKey, run.flow)
          /\ N # {} => nat' = nat
  <2>1. CASE Publish
    <3>1. counted' = counted \cup {} /\ nat' = Put(nat, PublishedKey, run.flow)
      BY <2>1 DEF Publish
    <3> QED BY <3>1
  <2>2. CASE PublishFailsUdp
    BY <2>2 DEF PublishFailsUdp, Count
  <2> QED BY <2>1, <2>2
<1>1. /\ At("nat") /\ Proceed /\ UNCHANGED <<fwd, frame, arrived>>
      /\ ~ At("done") /\ ~ At("redirect") /\ ~ At("map") /\ ~ At("lookup")
      /\ ~ At("ports") /\ ~ At("length")
  BY DEF Publish, PublishFailsUdp, At
<1>2. /\ SameLocals /\ run'.stage = Following /\ run'.verdict = run.verdict
      /\ run' = [dir |-> run'.dir, proto |-> run'.proto,
                 stage |-> run'.stage, hdr |-> run'.hdr,
                 flow |-> run'.flow, ext |-> run'.ext,
                 port |-> run'.port, verdict |-> run'.verdict]
  BY <1>1, ProceedFields DEF ClassifiersInv
<1>3. /\ Locals' /\ ~ At("done")' /\ Active' /\ ~ Sent' /\ Active /\ ~ Sent
      /\ Forward' = Forward /\ Tcp' = Tcp
      /\ PastPorts' => PastPorts
      /\ PastLength' /\ ~ Tcp => PastLength
      /\ PastState' => PastState
  BY <1>1, <1>2, Moves DEF ClassifiersInv, SameLocals
<1>4. Forward /\ Following = "redirect"
  BY <1>1, Steps DEF ClassifiersInv, Step, At
<1>5. PastState
  BY <1>1 DEF PastState, Past, Late, At
<1>6. Tallied' /\ StateCounted' /\ StatelessPassIntact'
  <2>1. N \cap (MapNames \cup OkNames \cup SentNames) = {}
    BY DEF MapNames, OkNames, SentNames
  <2> QED BY <1>0, <1>1, <1>2, <2>1, CountsGrow DEF SameLocals
<1>7. PublishedKey' = PublishedKey /\ run'.flow = run.flow
  BY <1>2 DEF PublishedKey, SameLocals
<1>8. "nat_insert_udp_err" \notin counted' =>
          PublishedKey \in DOMAIN nat' /\ nat'[PublishedKey] = run.flow
  <2>1. "nat_insert_udp_err" \notin counted' => N = {}
    BY <1>0
  <2> QED BY <1>0, <2>1 DEF Put
<1>9. Locals6'
  BY <1>1, <1>2, <1>3, <1>5, <1>7, <1>8
     DEF ClassifiersInv, Locals6, SameLocals, Forward, Tcp
<1>10. Locals4'
  BY <1>3, <1>4 DEF Locals4, Forward
<1>11. Rewritten'
  <2>1. /\ Corrected4' = Corrected4 /\ Ported' = Ported
        /\ TransportAt' = TransportAt /\ run'.proto = run.proto
    BY <1>1, <1>2, SameFrames DEF SameLocals
  <2>2. /\ frame = Corrected4
        /\ HasWord(Ported, SumAt(run.proto, TransportAt))
    BY <1>1, <1>3 DEF ClassifiersInv, Rewritten, Past, At
  <2> QED BY <1>1, <1>2, <1>4, <2>1, <2>2 DEF Rewritten, At, Past
<1>12. MapsOK'
  <2>1. /\ InPool(PublishedKey.ext) /\ PublishedKey.port \in ExtPorts
        /\ PublishedKey.proto \in Protocols
    BY <1>3, <1>4, <1>5
       DEF ClassifiersInv, Locals6, PublishedKey, NatKeyOf, Active
  <2>2. run.flow.client \in Clients /\ run.flow.server \in Servers
    BY <1>3, <1>4 DEF ClassifiersInv, Locals6, Shape6, Flow
  <2>3. \A k \in DOMAIN nat' :
            \/ k = PublishedKey /\ nat'[k] = run.flow
            \/ k \in DOMAIN nat /\ nat'[k] = nat[k]
    BY <1>0 DEF Put
  <2>4. \A k \in DOMAIN nat' :
            /\ InPool(k.ext) /\ k.port \in ExtPorts /\ k.proto \in Protocols
            /\ nat'[k].client \in Clients /\ nat'[k].server \in Servers
    BY <2>1, <2>2, <2>3 DEF ClassifiersInv, MapsOK
  <2> QED BY <1>1, <1>3, <2>4 DEF ClassifiersInv, MapsOK
<1> QED BY <1>3, <1>6, <1>9, <1>10, <1>11, <1>12 DEF ClassifiersInv

LEMMA RedirectStep ==
    ASSUME ClassifiersInv, Redirect \/ RedirectFails
    PROVE  ClassifiersInv'
<1> DEFINE ok == OkOf(run.dir, run.proto)
<1>1. /\ At("redirect") /\ ~ At("done")
      /\ UNCHANGED <<fwd, nat, frame, arrived>>
  BY DEF Redirect, RedirectFails, At
<1>2. PICK v \in {"redirect", "shot"}, y \in SentNames :
          End(v) /\ counted' = counted \cup {ok, y}
  <2>1. RedirectOk(run.dir) \in SentNames /\ RedirectErr(run.dir) \in SentNames
    BY DEF RedirectOk, RedirectErr, SentNames
  <2> QED BY <2>1 DEF Redirect, RedirectFails, Count
<1>3. /\ SameLocals /\ run'.stage = "done" /\ run'.verdict = v
      /\ Locals' /\ Active /\ Active' /\ Forward' = Forward /\ Tcp' = Tcp
      /\ At("done")' /\ ~ Sent
  <2>1. v \in {"pipe", "redirect", "shot"}
    OBVIOUS
  <2> QED BY <1>1, <1>2, <2>1, EndFields DEF ClassifiersInv
<1>4. Sent' /\ run'.verdict # "pipe"
  BY <1>3 DEF Sent
<1>5. PastPorts /\ PastLength /\ PastState /\ Past({"redirect"})
  BY <1>1 DEF PastPorts, PastLength, PastState, Past, Late, At
<1>6. Locals6'
  <2>1. counted \subseteq counted'
    BY <1>2
  <2> QED BY <1>1, <1>3, <1>5, <2>1
     DEF ClassifiersInv, Locals6, SameLocals, Forward, Tcp, PublishedKey
<1>7. Locals4'
  BY <1>1, <1>3, <1>5
     DEF ClassifiersInv, Locals4, SameLocals, Tcp, LookupKey
<1>8. Rewritten'
  <2>1. /\ Corrected4' = Corrected4 /\ Ported' = Ported
        /\ TransportAt' = TransportAt /\ run'.proto = run.proto
    BY <1>1, <1>3, SameFrames DEF SameLocals
  <2>2. /\ frame = Corrected4
        /\ HasWord(Ported, SumAt(run.proto, TransportAt))
    BY <1>1, <1>3 DEF ClassifiersInv, Rewritten, Past, At
  <2> QED BY <1>1, <1>3, <2>1, <2>2 DEF Rewritten, At
<1>9. MapsOK'
  BY <1>1, <1>3 DEF ClassifiersInv, MapsOK
<1>10. StateCounted' /\ StatelessPassIntact'
  BY <1>2, <1>3, <1>4, <1>5 DEF ClassifiersInv, StateCounted, StatelessPassIntact
<1>11. Tallied'
  <2>1. ok \in OkNames /\ ok \notin MapNames \cup SentNames
    BY DEF OkOf, OkNames, MapNames, SentNames
  <2>2. y \notin MapNames \cup OkNames
    BY DEF OkNames, MapNames, SentNames
  <2> DEFINE c == counted
             d == counted'
  <2>3. c \cap OkNames = {} /\ c \cap SentNames = {}
    BY <1>1 DEF ClassifiersInv, Tallied
  <2>4. ok = "nat64_v6_to_v4_ok" => ForwardTcp
    BY DEF OkOf, ForwardTcp, Forward, Tcp
  <2>5. ok = "nat64_v4_to_v6_udp_ok" => run.dir = "rev" /\ ~ Tcp
    BY <1>3 DEF OkOf, Tcp, ClassifiersInv, Locals
  <2>6. /\ ForwardTcp => "pkts_nat64_tcp" \in c
        /\ run.dir = "rev" /\ ~ Tcp => "pkts_ipv4_udp" \in c
    BY <1>3 DEF ClassifiersInv, Tallied
  <2>7. c \cap MapNames # {} => Forward
    BY DEF ClassifiersInv, Tallied
  <2> HIDE DEF ok
  <2>8. \A x \in MapNames : x \in d <=> x \in c
    BY <1>2, <2>1, <2>2
  <2>9. d \cap MapNames # {} => Forward
    BY <2>7, <2>8
  <2>10. d \cap OkNames = {ok} /\ d \cap SentNames = {y}
    BY <1>2, <2>1, <2>2, <2>3
  <2>11. \E x \in OkNames, z \in SentNames :
             d \cap OkNames = {x} /\ d \cap SentNames = {z}
    BY <2>1, <2>10
  <2>12. /\ "nat64_v6_to_v4_ok" \in d => "pkts_nat64_tcp" \in d
         /\ "nat64_v4_to_v6_udp_ok" \in d => "pkts_ipv4_udp" \in d
    BY <1>2, <2>4, <2>5, <2>6, <2>10 DEF OkNames
  <2>13. /\ Active' /\ ForwardTcp' => "pkts_nat64_tcp" \in d
         /\ Active' /\ run'.dir = "rev" /\ ~ Tcp' => "pkts_ipv4_udp" \in d
    BY <1>2, <1>3, <2>6 DEF ForwardTcp, SameLocals
  <2>14. /\ "fwd_nat_lookup_miss" \in d <=>
                "port_alloc_ok" \in d \/ "port_alloc_err" \in d
         /\ ~ ("port_alloc_ok" \in d /\ "port_alloc_err" \in d)
         /\ "port_alloc_ok" \in d <=>
                "fwd_nat_insert_ok" \in d \/ "fwd_nat_insert_err" \in d
         /\ ~ ("fwd_nat_insert_ok" \in d /\ "fwd_nat_insert_err" \in d)
         /\ "fwd_nat_lookup_hit" \in d <=> "fwd_nat_refresh_ok" \in d
    <3>1. /\ "fwd_nat_lookup_miss" \in c <=>
                 "port_alloc_ok" \in c \/ "port_alloc_err" \in c
          /\ ~ ("port_alloc_ok" \in c /\ "port_alloc_err" \in c)
          /\ "port_alloc_ok" \in c <=>
                 "fwd_nat_insert_ok" \in c \/ "fwd_nat_insert_err" \in c
          /\ ~ ("fwd_nat_insert_ok" \in c /\ "fwd_nat_insert_err" \in c)
          /\ "fwd_nat_lookup_hit" \in c <=> "fwd_nat_refresh_ok" \in c
      BY DEF ClassifiersInv, Tallied
    <3> QED BY <2>8, <3>1 DEF MapNames
  <2> QED BY <1>3, <2>9, <2>11, <2>12, <2>13, <2>14 DEF Tallied
<1> QED BY <1>3, <1>6, <1>7, <1>8, <1>9, <1>10, <1>11 DEF ClassifiersInv

-----------------------------------------------------------------------------
(* Arrival.                                                                *)

LEMMA ArrivalCounts ==
    ASSUME NEW f
    PROVE  /\ Counted6(f) \cap (MapNames \cup OkNames \cup SentNames) = {}
           /\ Counted4(f) \cap (MapNames \cup OkNames \cup SentNames) = {}
           /\ Translatable6(f) /\ HeaderOf(f).proto = "tcp" =>
                  "pkts_nat64_tcp" \in Counted6(f)
           /\ Translatable4(f) /\ HeaderOf(f).proto = "udp" =>
                  "pkts_ipv4_udp" \in Counted4(f)
<1>1. Counted6(f) \subseteq
          {"pkts_total", "pkts_ipv6", "pkts_nat64_dst", "pkts_nat64_tcp",
           "pkts_nat64_udp", "unsupported_ipv6_extension_headers",
           "unsupported_ipv6_non_tcp_udp"}
  BY DEF Counted6
<1>2. Counted4(f) \subseteq
          {"pkts_total", "pkts_ipv4", "pkts_ipv4_tcp", "pkts_ipv4_udp",
           "unsupported_ipv4_fragments", "unsupported_ipv4_non_tcp_udp"}
  BY DEF Counted4
<1>3. Translatable6(f) /\ HeaderOf(f).proto = "tcp" =>
          "pkts_nat64_tcp" \in Counted6(f)
  BY DEF Counted6, Translatable6
<1>4. Translatable4(f) /\ HeaderOf(f).proto = "udp" =>
          "pkts_ipv4_udp" \in Counted4(f)
  BY DEF Counted4, Translatable4
<1>5. Counted6(f) \cap (MapNames \cup OkNames \cup SentNames) = {}
  BY <1>1 DEF MapNames, OkNames, SentNames
<1>6. Counted4(f) \cap (MapNames \cup OkNames \cup SentNames) = {}
  BY <1>2 DEF MapNames, OkNames, SentNames
<1> QED BY <1>3, <1>4, <1>5, <1>6

LEMMA ArrivalFields ==
    /\ \A k \in Arriving6 :
           /\ Frame6(k) = [ether |-> Frame6(k).ether, skb |-> Frame6(k).skb,
                           words |-> Frame6(k).words]
           /\ Frame6(k).skb = "ip6"
    /\ \A k \in Arriving4 :
           /\ Frame4(k) = [ether |-> Frame4(k).ether, skb |-> Frame4(k).skb,
                           words |-> Frame4(k).words]
           /\ Frame4(k).skb = "ip4"
<1>1. ASSUME NEW g, NEW e, NEW n
      PROVE  /\ Received(g, e, n) = [ether |-> Received(g, e, n).ether,
                                     skb |-> Received(g, e, n).skb,
                                     words |-> Received(g, e, n).words]
             /\ Received(g, e, n).skb = g.skb
  <2> DEFINE c == Cut(g.words, n)
  <2>1. Received(g, e, n) = [ether |-> e, skb |-> g.skb, words |-> c]
    BY DEF Received
  <2> HIDE DEF c
  <2> QED BY <2>1
<1>2. ASSUME NEW h, NEW o, NEW t PROVE Packet(h, o, t).skb = h.ver
  BY DEF Packet
<1>3. ASSUME NEW k \in Arriving6
      PROVE  /\ Frame6(k) = [ether |-> Frame6(k).ether, skb |-> Frame6(k).skb,
                             words |-> Frame6(k).words]
             /\ Frame6(k).skb = "ip6"
  <2> DEFINE h == [ver |-> "ip6", proto |-> k[4], src |-> k[1],
                   dst |-> <<k[2], k[3]>>, len |-> k[5]]
             t == Transport(k[4], ClientPort, ServerPort, k[5],
                            SumOf(k[1], <<k[2], k[3]>>, ClientPort, ServerPort))
             g == Packet(h, <<>>, t)
  <2>1. Frame6(k) = Received(g, k[6], k[7])
    BY DEF Frame6
  <2>2. g.skb = h.ver /\ h.ver = "ip6"
    BY <1>2
  <2> HIDE DEF g
  <2> QED BY <1>1, <2>1, <2>2
<1>4. ASSUME NEW k \in Arriving4
      PROVE  /\ Frame4(k) = [ether |-> Frame4(k).ether, skb |-> Frame4(k).skb,
                             words |-> Frame4(k).words]
             /\ Frame4(k).skb = "ip4"
  <2> DEFINE h == [ver |-> "ip4", proto |-> k[4], src |-> k[1], dst |-> k[2],
                   len |-> k[6]]
             o == [i \in 1 .. k[5] |-> Option]
             t == Transport(k[4], ServerPort, k[3], k[6],
                            IF k[7] = "zero" THEN ZeroSum
                            ELSE SumOf(k[1], k[2], ServerPort, k[3]))
             g == Packet(h, o, t)
  <2>1. Frame4(k) = Received(g, k[8], k[9])
    BY DEF Frame4
  <2>2. g.skb = h.ver /\ h.ver = "ip4"
    BY <1>2
  <2> HIDE DEF g
  <2> QED BY <1>1, <2>1, <2>2
<1> QED BY <1>3, <1>4

LEMMA FreshTally ==
    ASSUME counted' \cap (MapNames \cup OkNames \cup SentNames) = {},
           Active' /\ ForwardTcp' => "pkts_nat64_tcp" \in counted',
           Active' /\ run'.dir = "rev" /\ ~ Tcp' => "pkts_ipv4_udp" \in counted'
    PROVE  Tallied'
<1>1. /\ counted' \cap MapNames = {} /\ counted' \cap OkNames = {}
      /\ counted' \cap SentNames = {}
  OBVIOUS
<1>2. \A x \in MapNames \cup OkNames : x \notin counted'
  BY <1>1
<1>3. /\ "fwd_nat_lookup_miss" \notin counted' /\ "port_alloc_ok" \notin counted'
      /\ "port_alloc_err" \notin counted' /\ "fwd_nat_insert_ok" \notin counted'
      /\ "fwd_nat_insert_err" \notin counted'
      /\ "fwd_nat_lookup_hit" \notin counted'
      /\ "fwd_nat_refresh_ok" \notin counted'
      /\ "nat64_v6_to_v4_ok" \notin counted'
      /\ "nat64_v4_to_v6_udp_ok" \notin counted'
  BY <1>2 DEF MapNames, OkNames
<1>4. counted' \cap (OkNames \cup SentNames) = {}
  BY <1>1
<1> QED BY <1>1, <1>3, <1>4 DEF Tallied

LEMMA IgnoreStep ==
    ASSUME ClassifiersInv,
           (\E k \in Arriving6 : Ignore6(k)) \/ (\E k \in Arriving4 : Ignore4(k))
    PROVE  ClassifiersInv'
<1>1. PICK f, N, d :
          /\ d \in {"fwd", "rev"}
          /\ f = [ether |-> f.ether, skb |-> f.skb, words |-> f.words]
          /\ f.skb \in {"ip4", "ip6"}
          /\ N \cap (MapNames \cup OkNames \cup SentNames) = {}
          /\ Arrive(f, N)
          /\ run' = [Blank EXCEPT !.dir = d, !.verdict = "pipe"]
  <2>1. CASE \E k \in Arriving6 : Ignore6(k)
    <3>1. PICK k \in Arriving6 : Ignore6(k)
      BY <2>1
    <3> DEFINE f == Frame6(k)
    <3>2. /\ Arrive(f, Counted6(f))
          /\ run' = [Blank EXCEPT !.dir = "fwd", !.verdict = "pipe"]
      BY <3>1 DEF Ignore6, Frames6
    <3>3. /\ f = [ether |-> f.ether, skb |-> f.skb, words |-> f.words]
          /\ f.skb \in {"ip4", "ip6"}
      BY ArrivalFields
    <3>4. Counted6(f) \cap (MapNames \cup OkNames \cup SentNames) = {}
      BY ArrivalCounts
    <3> HIDE DEF f
    <3> QED BY <3>2, <3>3, <3>4
  <2>2. CASE \E k \in Arriving4 : Ignore4(k)
    <3>1. PICK k \in Arriving4 : Ignore4(k)
      BY <2>2
    <3> DEFINE f == Frame4(k)
    <3>2. /\ Arrive(f, Counted4(f))
          /\ run' = [Blank EXCEPT !.dir = "rev", !.verdict = "pipe"]
      BY <3>1 DEF Ignore4, Frames4
    <3>3. /\ f = [ether |-> f.ether, skb |-> f.skb, words |-> f.words]
          /\ f.skb \in {"ip4", "ip6"}
      BY ArrivalFields
    <3>4. Counted4(f) \cap (MapNames \cup OkNames \cup SentNames) = {}
      BY ArrivalCounts
    <3> HIDE DEF f
    <3> QED BY <3>2, <3>3, <3>4
  <2> QED BY <2>1, <2>2
<1>2. /\ frame' = f /\ arrived' = f /\ counted' = N
      /\ UNCHANGED <<fwd, nat>>
  BY <1>1 DEF Arrive
<1>3. run' = [dir |-> d, proto |-> "none", stage |-> "done", hdr |-> 5,
              flow |-> {}, ext |-> {}, port |-> 0, verdict |-> "pipe"]
  <2> DEFINE b == [Blank EXCEPT !.dir = d]
  <2>1. run' = [b EXCEPT !.verdict = "pipe"]
    BY <1>1
  <2>2. b = [dir |-> d, proto |-> "none", stage |-> "done", hdr |-> 5,
             flow |-> {}, ext |-> {}, port |-> 0, verdict |-> "none"]
    BY DEF Blank
  <2> HIDE DEF b
  <2> QED BY ONLY <2>1, <2>2
<1>4. /\ run'.dir = d /\ run'.proto = "none" /\ run'.stage = "done"
      /\ run'.verdict = "pipe"
      /\ run' = [dir |-> run'.dir, proto |-> run'.proto, stage |-> run'.stage,
                 hdr |-> run'.hdr, flow |-> run'.flow, ext |-> run'.ext,
                 port |-> run'.port, verdict |-> run'.verdict]
  BY <1>3
<1>5. ~ Active' /\ At("done")' /\ ~ Sent'
  BY <1>4 DEF Active, At, Sent, Protocols
<1>6. Locals' /\ Locals6' /\ Locals4' /\ Rewritten' /\ StateCounted'
  <2>1. Locals'
    BY <1>1, <1>4, <1>5 DEF Locals
  <2>2. Locals6' /\ Locals4'
    BY <1>5, Zenon DEF Locals6, Locals4
  <2>3. Rewritten' /\ StateCounted'
    BY <1>5, Zenon DEF Rewritten, StateCounted
  <2> QED BY <2>1, <2>2, <2>3
<1>7. MapsOK' /\ StatelessPassIntact'
  BY <1>1, <1>2 DEF ClassifiersInv, MapsOK, StatelessPassIntact
<1>8. Tallied'
  BY <1>1, <1>2, <1>5, FreshTally
<1> QED BY <1>6, <1>7, <1>8 DEF ClassifiersInv

\* A run that starts has neither ports nor state.
LEMMA Starts ==
    ASSUME run' = [dir |-> run'.dir, proto |-> run'.proto, stage |-> run'.stage,
                   hdr |-> run'.hdr, flow |-> run'.flow, ext |-> run'.ext,
                   port |-> run'.port, verdict |-> run'.verdict],
           run'.dir \in {"fwd", "rev"}, run'.proto \in Protocols,
           run'.stage = StagesOf(run'.dir, run'.proto)[1],
           run'.verdict = "none", frame' = arrived'
    PROVE  /\ Locals' /\ Rewritten' /\ StateCounted' /\ StatelessPassIntact'
           /\ Active' /\ ~ At("done")'
           /\ ~ PastPorts' /\ ~ PastLength' /\ ~ PastState'
           /\ ~ Past({"redirect"})'
<1>1. /\ run'.stage = IF Tcp' THEN "length"
                      ELSE "ports"
      /\ 1 \in 1 .. Len(StagesOf(run'.dir, run'.proto))
  BY DEF StagesOf, ForwardTcpStages, ForwardUdpStages, ReverseTcpStages,
         ReverseUdpStages, Tcp, Protocols
<1>2. /\ ~ Sent' /\ ~ At("done")' /\ Active'
  BY <1>1 DEF Sent, At, Active
<1>3. ~ PastPorts' /\ ~ PastLength' /\ ~ PastState' /\ ~ Past({"redirect"})'
  BY <1>1, <1>2 DEF PastPorts, PastLength, PastState, Past, Late
<1>4. Locals'
  <2>1. \E i \in 1 .. Len(StagesOf(run.dir, run.proto)') :
            run'.stage = StagesOf(run.dir, run.proto)'[i]
    BY <1>1 DEF StagesOf
  <2> QED BY <1>2, <2>1 DEF Locals
<1>5. Rewritten'
  BY <1>1, <1>2 DEF Rewritten, At, Past, ForwardTcp
<1>6. StateCounted' /\ StatelessPassIntact'
  BY <1>2, <1>3 DEF StateCounted, StatelessPassIntact
<1> QED BY <1>2, <1>3, <1>4, <1>5, <1>6

LEMMA EnterSixStep ==
    ASSUME ClassifiersInv, NEW k \in Arriving6, Enter6(k)
    PROVE  ClassifiersInv'
<1> DEFINE f == Frame6(k)
           h == HeaderOf(f)
           stage == StagesOf("fwd", h.proto)[1]
           flow == Flow(h.src, 0, h.dst[2], 0, h.proto)
           ext == SelectedOf(h.src)
           N == Counted6(f)
<1>1. /\ Translatable6(f) /\ Arrive(f, N)
      /\ run' = [dir |-> "fwd", proto |-> h.proto, stage |-> stage,
                 hdr |-> 10, flow |-> flow, ext |-> ext, port |-> 0,
                 verdict |-> "none"]
  BY DEF Enter6, Frames6
<1>2. Shape6(f) /\ f.skb = "ip6"
  BY <1>1, ForwardArrives
<1>3. N \cap (MapNames \cup OkNames \cup SentNames) = {}
      /\ (h.proto = "tcp" => "pkts_nat64_tcp" \in N)
  BY <1>1, ArrivalCounts
<1>4. f = [ether |-> f.ether, skb |-> f.skb, words |-> f.words]
  BY ArrivalFields
<1>5. InPool(ext)
  <2>1. h.src \in Clients
    BY <1>2 DEF Shape6
  <2>2. Hash[h.src] \in Nat /\ Len(Pool) \in 1 .. 16 /\ DOMAIN Pool = 1 .. Len(Pool)
    BY <2>1, ConfigAssumption
  <2> DEFINE i == (Hash[h.src] % Len(Pool)) + 1
  <2>3. i \in 1 .. Len(Pool)
    <3>1. ASSUME NEW a \in Nat, NEW n \in 1 .. 16 PROVE (a % n) + 1 \in 1 .. n
      <4>1. a % n \in 0 .. n - 1
        OBVIOUS
      <4> QED BY <4>1
    <3> QED BY ONLY <2>2, <3>1
  <2>4. i \in DOMAIN Pool
    BY <2>2, <2>3
  <2>5. ext = Pool[i]
    BY DEF SelectedOf
  <2> HIDE DEF i, ext
  <2> QED BY <2>4, <2>5 DEF InPool
<1> HIDE DEF f, N, ext, stage, flow
<1>6. /\ run'.dir = "fwd" /\ run'.proto = h.proto /\ run'.stage = stage
      /\ run'.hdr = 10 /\ run'.flow = flow /\ run'.ext = ext
      /\ run'.verdict = "none"
      /\ run' = [dir |-> run'.dir, proto |-> run'.proto, stage |-> run'.stage,
                 hdr |-> run'.hdr, flow |-> run'.flow, ext |-> run'.ext,
                 port |-> run'.port, verdict |-> run'.verdict]
  BY <1>1
<1>7. /\ frame' = f /\ arrived' = f /\ counted' = N
      /\ UNCHANGED <<fwd, nat>>
  BY <1>1 DEF Arrive
<1>8. h.proto \in Protocols /\ run'.stage = StagesOf(run'.dir, run'.proto)[1]
  BY <1>2, <1>6 DEF Shape6, stage
<1>9. /\ Locals' /\ Rewritten' /\ StateCounted' /\ StatelessPassIntact'
      /\ Active' /\ ~ At("done")'
      /\ ~ PastPorts' /\ ~ PastLength' /\ ~ PastState'
      /\ ~ Past({"redirect"})'
  BY <1>6, <1>7, <1>8, Starts
<1>10. Locals6'
  <2>1. run'.flow = Flow(h.src, run'.flow.cport, h.dst[2], run'.flow.sport,
                         h.proto)
    BY <1>6 DEF Flow, flow
  <2> QED BY <1>2, <1>5, <1>6, <1>7, <1>9, <2>1 DEF Locals6
<1>11. Locals4'
  BY <1>6 DEF Locals4
<1>12. MapsOK'
  BY <1>2, <1>4, <1>7 DEF ClassifiersInv, MapsOK
<1>13. Tallied'
  BY <1>3, <1>6, <1>7, FreshTally DEF ForwardTcp, Tcp
<1> QED BY <1>9, <1>10, <1>11, <1>12, <1>13 DEF ClassifiersInv

LEMMA EnterFourStep ==
    ASSUME ClassifiersInv, NEW k \in Arriving4, Enter4(k)
    PROVE  ClassifiersInv'
<1> DEFINE f == Frame4(k)
           h == HeaderOf(f)
           stage == StagesOf("rev", h.proto)[1]
           flow == Flow({}, 0, h.src, 0, h.proto)
           hdr == Ihl(f)
           N == Counted4(f)
<1>1. /\ Translatable4(f) /\ Arrive(f, N)
      /\ run' = [dir |-> "rev", proto |-> h.proto, stage |-> stage,
                 hdr |-> hdr, flow |-> flow, ext |-> h.dst, port |-> 0,
                 verdict |-> "none"]
  BY DEF Enter4, Frames4
<1>2. Shape4(f) /\ f.skb = "ip4"
  BY <1>1, ReverseArrives
<1>3. N \cap (MapNames \cup OkNames \cup SentNames) = {}
      /\ (h.proto = "udp" => "pkts_ipv4_udp" \in N)
  BY <1>1, ArrivalCounts
<1>4. f = [ether |-> f.ether, skb |-> f.skb, words |-> f.words]
  BY ArrivalFields
<1> HIDE DEF f, N, hdr, stage, flow
<1>5. /\ run'.dir = "rev" /\ run'.proto = h.proto /\ run'.stage = stage
      /\ run'.hdr = hdr /\ run'.flow = flow /\ run'.ext = h.dst
      /\ run'.verdict = "none"
      /\ run' = [dir |-> run'.dir, proto |-> run'.proto, stage |-> run'.stage,
                 hdr |-> run'.hdr, flow |-> run'.flow, ext |-> run'.ext,
                 port |-> run'.port, verdict |-> run'.verdict]
  BY <1>1
<1>6. /\ frame' = f /\ arrived' = f /\ counted' = N
      /\ UNCHANGED <<fwd, nat>>
  BY <1>1 DEF Arrive
<1>7. h.proto \in Protocols /\ run'.stage = StagesOf(run'.dir, run'.proto)[1]
  BY <1>2, <1>5 DEF Shape4, stage
<1>8. /\ Locals' /\ Rewritten' /\ StateCounted' /\ StatelessPassIntact'
      /\ Active' /\ ~ At("done")'
      /\ ~ PastPorts' /\ ~ PastLength' /\ ~ PastState'
  BY <1>5, <1>6, <1>7, Starts
<1>9. Locals6'
  BY <1>5 DEF Locals6, Forward
<1>10. Locals4'
  <2>1. /\ run'.flow.server = h.src
        /\ run'.flow = Flow({}, 0, h.src, run'.flow.sport, h.proto)
    BY <1>5 DEF Flow, flow
  <2>2. run'.hdr = Ihl(arrived)'
    BY <1>5, <1>6 DEF hdr, Ihl
  <2> QED BY <1>2, <1>5, <1>6, <1>8, <2>1, <2>2 DEF Locals4
<1>11. MapsOK'
  BY <1>2, <1>4, <1>6 DEF ClassifiersInv, MapsOK
<1>12. Tallied'
  <2>1. ~ Tcp' => "pkts_ipv4_udp" \in counted'
    BY <1>3, <1>5, <1>6, <1>7 DEF Tcp, Protocols
  <2> QED BY <1>3, <1>5, <1>6, <2>1, FreshTally DEF ForwardTcp, Forward
<1> QED BY <1>8, <1>9, <1>10, <1>11, <1>12 DEF ClassifiersInv

\* Without a packet there is nothing to be said of one.
LEMMA Resting ==
    ASSUME frame' = Nothing, arrived' = Nothing, run' = Blank, counted' = {},
           \A f \in DOMAIN fwd' : InPool(fwd'[f].ext) /\ fwd'[f].port \in ExtPorts,
           \A k \in DOMAIN nat' :
               /\ InPool(k.ext) /\ k.port \in ExtPorts /\ k.proto \in Protocols
               /\ nat'[k].client \in Clients /\ nat'[k].server \in Servers
    PROVE  ClassifiersInv'
<1>1. /\ run'.dir = "none" /\ run'.proto = "none" /\ run'.stage = "done"
      /\ run'.verdict = "none"
      /\ run' = [dir |-> run'.dir, proto |-> run'.proto, stage |-> run'.stage,
                 hdr |-> run'.hdr, flow |-> run'.flow, ext |-> run'.ext,
                 port |-> run'.port, verdict |-> run'.verdict]
  BY DEF Blank
<1>2. ~ Active' /\ At("done")' /\ ~ Sent'
  BY <1>1 DEF Active, At, Sent, Protocols
<1>3. Locals'
  BY <1>1, <1>2 DEF Locals
<1>4. Locals6' /\ Locals4'
  BY <1>2, Zenon DEF Locals6, Locals4
<1>5. Rewritten' /\ StateCounted'
  BY <1>2, Zenon DEF Rewritten, StateCounted
<1>6. MapsOK' /\ StatelessPassIntact'
  BY DEF MapsOK, StatelessPassIntact, Nothing
<1>7. Tallied'
  BY <1>2, FreshTally
<1> QED BY <1>3, <1>4, <1>5, <1>6, <1>7 DEF ClassifiersInv

LEMMA ForgetStep ==
    ASSUME ClassifiersInv, NEW k \in DOMAIN fwd \cup DOMAIN nat, Forget(k)
    PROVE  ClassifiersInv'
<1>1. /\ frame' = Nothing /\ arrived' = Nothing /\ run' = Blank /\ counted' = {}
      /\ \/ fwd' = Drop(fwd, k) /\ nat' = nat
         \/ nat' = Drop(nat, k) /\ fwd' = fwd
  BY DEF Forget
<1>2. /\ \A f \in DOMAIN fwd' : f \in DOMAIN fwd /\ fwd'[f] = fwd[f]
      /\ \A x \in DOMAIN nat' : x \in DOMAIN nat /\ nat'[x] = nat[x]
  BY <1>1 DEF Drop
<1>3. /\ \A f \in DOMAIN fwd' : InPool(fwd'[f].ext) /\ fwd'[f].port \in ExtPorts
      /\ \A x \in DOMAIN nat' :
             /\ InPool(x.ext) /\ x.port \in ExtPorts /\ x.proto \in Protocols
             /\ nat'[x].client \in Clients /\ nat'[x].server \in Servers
  BY <1>2 DEF ClassifiersInv, MapsOK
<1> QED BY <1>1, <1>3, Resting

-----------------------------------------------------------------------------
(* The invariant.                                                          *)

LEMMA ClassifiersInit == Init => ClassifiersInv
<1> SUFFICES ASSUME Init PROVE ClassifiersInv
  OBVIOUS
<1>1. /\ run.dir = "none" /\ run.proto = "none" /\ run.stage = "done"
      /\ run.verdict = "none"
      /\ run = [dir |-> run.dir, proto |-> run.proto, stage |-> run.stage,
                hdr |-> run.hdr, flow |-> run.flow, ext |-> run.ext,
                port |-> run.port, verdict |-> run.verdict]
  BY DEF Init, Blank
<1>2. ~ Active /\ At("done") /\ ~ Sent
  BY <1>1 DEF Active, At, Sent, Protocols
<1>3. Locals
  BY <1>1, <1>2 DEF Locals
<1>4. Locals6 /\ Locals4
  BY <1>2, Zenon DEF Locals6, Locals4
<1>5. Rewritten /\ StateCounted
  BY <1>2, Zenon DEF Rewritten, StateCounted
<1>6. MapsOK /\ StatelessPassIntact
  <2>1. DOMAIN fwd = {} /\ DOMAIN nat = {}
    BY DEF Init
  <2> QED BY <2>1 DEF Init, MapsOK, StatelessPassIntact, Nothing
<1>7. Tallied
  BY <1>2 DEF Init, Tallied
<1> QED BY <1>3, <1>4, <1>5, <1>6, <1>7 DEF ClassifiersInv

LEMMA ClassifiersStep == ClassifiersInv /\ [Next]_vars => ClassifiersInv'
<1> SUFFICES ASSUME ClassifiersInv, [Next]_vars PROVE ClassifiersInv'
  OBVIOUS
<1>1. CASE UNCHANGED vars
  <2>1. /\ Locals' = Locals /\ Locals6' = Locals6 /\ Locals4' = Locals4
        /\ Rewritten' = Rewritten /\ MapsOK' = MapsOK
        /\ StateCounted' = StateCounted /\ Tallied' = Tallied
        /\ StatelessPassIntact' = StatelessPassIntact
    BY <1>1
       DEF vars, Locals, Locals6, Locals4, Rewritten, MapsOK, StateCounted,
           Tallied, StatelessPassIntact, At, Active, Forward, Tcp, ForwardTcp,
           Sent, Past, PastPorts, PastLength, PastState, Late, Resized, Retyped,
           Headed, Ported, Corrected4, Before, After, PortsBefore, PortsAfter,
           TransportAt, SourceOf, PublishedKey, LookupKey
  <2> QED BY <2>1 DEF ClassifiersInv
<1>2. CASE Next
  <2>1. ASSUME NEW k \in Arriving6, Ignore6(k) \/ Enter6(k)
        PROVE  ClassifiersInv'
    BY <2>1, IgnoreStep, EnterSixStep
  <2>2. ASSUME NEW k \in Arriving4, Ignore4(k) \/ Enter4(k)
        PROVE  ClassifiersInv'
    BY <2>2, IgnoreStep, EnterFourStep
  <2>3. CASE \/ LengthBad \/ NoPorts \/ LookupMismatch \/ LookupMiss
             \/ ZeroRefused \/ Abandon
    BY <2>3, GivenUp
  <2>4. CASE LengthOk
    BY <2>4, LengthOkStep
  <2>5. CASE Ports
    BY <2>5, PortsStep
  <2>6. CASE ChangeProto
    BY <2>6, ChangeProtoStep
  <2>7. CASE StoreEther
    BY <2>7, StoreEtherStep
  <2>8. CASE MapHit
    BY <2>8, MapHitStep
  <2>9. CASE MapExhausted \/ MapRejected
    BY <2>9, MapFails
  <2>10. ASSUME NEW p \in ExtPorts, MapCreate(p)
         PROVE  ClassifiersInv'
    BY <2>10, MapCreateStep
  <2>11. CASE StoreHeader
    BY <2>11, StoreHeaderStep
  <2>12. CASE StorePort
    BY <2>12, StorePortStep
  <2>13. CASE CorrectSum
    BY <2>13, CorrectSumStep
  <2>14. CASE LookupHit
    BY <2>14, LookupHitStep
  <2>15. CASE NotZero
    BY <2>15, NotZeroStep
  <2>16. CASE Publish \/ PublishFailsUdp
    BY <2>16, PublishStep
  <2>17. CASE Redirect \/ RedirectFails
    BY <2>17, RedirectStep
  <2>18. ASSUME NEW k \in DOMAIN fwd \cup DOMAIN nat, Forget(k)
         PROVE  ClassifiersInv'
    BY <2>18, ForgetStep
  <2> QED BY <1>2, <2>1, <2>2, <2>3, <2>4, <2>5, <2>6, <2>7, <2>8, <2>9, <2>10,
             <2>11, <2>12, <2>13, <2>14, <2>15, <2>16, <2>17, <2>18 DEF Next
<1> QED BY <1>1, <1>2

THEOREM Invariant == Spec => []ClassifiersInv
<1>1. Init => ClassifiersInv
  BY ClassifiersInit
<1>2. ClassifiersInv /\ [Next]_vars => ClassifiersInv'
  BY ClassifiersStep
<1> QED BY <1>1, <1>2, PTL DEF Spec

-----------------------------------------------------------------------------
(* What leaves.                                                            *)

LEMMA PortStored ==
    ASSUME NEW f, NEW i, NEW s, NEW d, f.words[i] = PortsWord(s, d), NEW p
    PROVE  /\ SourcePortStored(f, i, p) = WordStored(f, i, PortsWord(p, d))
           /\ DestPortStored(f, i, p) = WordStored(f, i, PortsWord(s, p))
<1> DEFINE w == f.words[i]
<1>1. w = [is |-> "ports", src |-> s, dst |-> d]
  BY DEF PortsWord
<1> HIDE DEF w
<1>2. /\ w.is = "ports"
      /\ [w EXCEPT !.src = p] = PortsWord(p, d)
      /\ [w EXCEPT !.dst = p] = PortsWord(s, p)
  BY <1>1 DEF PortsWord
<1> QED BY <1>2 DEF SourcePortStored, DestPortStored, w

\* The frame of a forward run that has come to its end.
LEMMA ForwardResult ==
    ASSUME ClassifiersInv, Forward, Sent
    PROVE  LET h == HeaderOf(arrived)
               p == arrived.words[11] IN
           frame = Packet([ver |-> "ip4", proto |-> h.proto, src |-> run.ext,
                           dst |-> h.dst[2], len |-> "ok"],
                          <<>>,
                          Transport(h.proto, run.port, p.dst, "ok",
                                    SumOf(run.ext, h.dst[2], run.port, p.dst)))
<1> DEFINE h == HeaderOf(arrived)
           p == arrived.words[11]
           b == h.dst
           x == [ver |-> "ip4", proto |-> run.proto, src |-> run.ext,
                 dst |-> run.flow.server, len |-> "ok"]
           g == Retyped
           e == HeaderStored(g, x)
           z == PortsWord(run.port, p.dst)
           u == WordStored(e, 6, z)
<1>1. Active /\ PastPorts /\ PastLength /\ Past({"nat", "redirect"})
  BY DEF ClassifiersInv, Locals, PastPorts, PastLength, Past
<1>2. /\ Shape6(arrived) /\ run.proto = h.proto /\ run.proto \in Protocols
      /\ run.flow.client = h.src /\ run.flow.server = h.dst[2]
      /\ run.flow.cport = p.src /\ run.flow.sport = p.dst
      /\ HasWord(arrived, IF Tcp THEN 11 ELSE 12)
      /\ run.proto = "udp" => arrived.words[12].len = "ok"
  BY <1>1 DEF ClassifiersInv, Locals6, Flow, Shape6
<1>3. /\ IsFrame(arrived) /\ Len(arrived.words) \in Nat
      /\ Len(arrived.words) >= 10 /\ Len(arrived.words) > 10
      /\ b = <<Prefix, run.flow.server>>
      /\ Behind(arrived, 10, run.proto,
                {SumOf(h.src, b, p.src, p.dst)})
  BY <1>2 DEF Shape6, IsFrame, IsWords, HasWord
<1>4. p = PortsWord(p.src, p.dst)
  <2>1. 10 + 1 = 11
    OBVIOUS
  <2> QED BY <1>3, <2>1 DEF Behind
<1>5. /\ TransportAt = 6 /\ HdrWords.ip4 = 5 /\ x.ver = "ip4" /\ HdrWords[x.ver] = 5
      /\ x.src = run.ext /\ x.dst = run.flow.server
  BY DEF TransportAt, HdrWords
<1>6. /\ IsFrame(g) /\ g.ether = "ip4" /\ g.skb = "ip4"
      /\ Len(g.words) = Len(arrived.words) - 5
      /\ \A i \in 1 .. Len(arrived.words) - 5 :
             g.words[i] = arrived.words[i + 5]
  <2>1. g = [Shrunk(arrived) EXCEPT !.ether = "ip4"]
    BY DEF Retyped, Resized
  <2>2. LET k == [Shrunk(arrived) EXCEPT !.ether = "ip4"] IN
        /\ IsFrame(k) /\ k.ether = "ip4" /\ k.skb = "ip4"
        /\ Len(k.words) = Len(arrived.words) - 5
        /\ \A i \in 1 .. Len(arrived.words) - 5 :
               k.words[i] = arrived.words[i + 5]
    BY <1>3, ShrunkWords
  <2> QED BY <2>1, <2>2
<1> HIDE DEF g, x
<1>7. Headed = e
  BY DEF Headed, After, g, x
<1>8. /\ IsFrame(e) /\ Len(e.words) = Len(g.words)
      /\ e.words[6] = p
  <2>1. /\ IsFrame(g) /\ x.ver \in {"ip4", "ip6"}
        /\ Len(g.words) >= HdrWords[x.ver]
    BY <1>3, <1>5, <1>6
  <2>2. LET k == HeaderStored(g, x)
            n == HdrWords[x.ver] IN
        /\ IsFrame(k) /\ k.ether = g.ether /\ k.skb = g.skb
        /\ Len(k.words) = Len(g.words)
        /\ \A i \in 1 .. n :
               k.words[i] = [is |-> "hdr", hdr |-> x, at |-> i]
        /\ \A i \in 1 .. Len(g.words) - n :
               k.words[n + i] = g.words[n + i]
    BY ONLY <2>1, HeaderStoredWords
  <2> HIDE DEF e
  <2>3. /\ IsFrame(e) /\ Len(e.words) = Len(g.words)
        /\ \A i \in 1 .. Len(g.words) - 5 : e.words[5 + i] = g.words[5 + i]
    BY <1>5, <2>2 DEF e
  <2>4. 1 \in 1 .. Len(g.words) - 5 /\ 5 + 1 = 6
        /\ 6 \in 1 .. Len(arrived.words) - 5 /\ 6 + 5 = 11
    BY <1>3, <1>6
  <2>5. e.words[5 + 1] = g.words[5 + 1]
    BY ONLY <2>3, <2>4
  <2>6. g.words[6] = arrived.words[6 + 5]
    BY ONLY <1>6, <2>4
  <2> QED BY <2>3, <2>4, <2>5, <2>6
<1> HIDE DEF e
<1>9. Ported = u
  <2>1. Ported = SourcePortStored(e, 6, run.port)
    BY <1>5, <1>7 DEF Ported
  <2>2. e.words[6] = PortsWord(p.src, p.dst)
    BY <1>4, <1>8
  <2> QED BY <2>1, <2>2, PortStored
<1>10. frame = SumCorrected(u, SumAt(run.proto, 6),
                            <<h.src, b>>, <<x.src, x.dst>>,
                            <<p.src, p.dst>>, <<run.port, p.dst>>)
  <2>1. frame = Corrected4
    BY <1>1 DEF ClassifiersInv, Rewritten
  <2>2. /\ Before = <<h.src, b>> /\ After = <<x.src, x.dst>>
        /\ PortsBefore = <<p.src, p.dst>> /\ PortsAfter = <<run.port, p.dst>>
    BY <1>2, <1>3, <1>5 DEF Before, After, PortsBefore, PortsAfter
  <2> QED BY <1>5, <1>9, <2>1, <2>2 DEF Corrected4
<1>11. HasWord(g, SumAt(run.proto, 6))
  <2>1. HasWord(Ported, SumAt(run.proto, 6))
    BY <1>1, <1>5 DEF ClassifiersInv, Rewritten
  <2>2. IsFrame(e) /\ 6 \in 1 .. Len(e.words)
    BY <1>3, <1>6, <1>8
  <2>3. LET k == WordStored(e, 6, z) IN
        /\ IsFrame(k) /\ k.ether = e.ether /\ k.skb = e.skb
        /\ Len(k.words) = Len(e.words)
        /\ \A j \in 1 .. Len(e.words) :
               k.words[j] = IF j = 6 THEN z ELSE e.words[j]
    BY ONLY <2>2, WordStoredWords
  <2> QED BY <1>8, <1>9, <2>1, <2>3 DEF HasWord
<1>12. SumCorrected(u, SumAt(run.proto, 6), <<h.src, b>>, <<x.src, x.dst>>,
                    <<p.src, p.dst>>, <<run.port, p.dst>>)
       = Packet(x, <<>>, Transport(run.proto, run.port, p.dst, "ok",
                                   SumOf(x.src, x.dst, run.port, p.dst)))
  <2> DEFINE f == arrived
             m == 10
             proto == run.proto
             a == h.src
             port == run.port
             d == p.dst
  <2>1. Fits(f, m, proto, a, b, g, x)
    <3>1. 10 + 1 = 11 /\ 10 + 2 = 12 /\ 5 + 1 = 6
      OBVIOUS
    <3>2. Len(g.words) = 5 + (Len(f.words) - 10)
      BY <1>3, <1>6
    <3>3. ASSUME NEW i \in 1 .. Len(f.words) - 10
          PROVE  g.words[5 + i] = f.words[10 + i]
      <4>1. 5 + i \in 1 .. Len(f.words) - 5 /\ (5 + i) + 5 = 10 + i
        BY <1>3
      <4> QED BY <1>6, <4>1
    <3> QED BY <1>2, <1>3, <1>5, <1>6, <1>11, <3>1, <3>2, <3>3 DEF Fits
  <2> HIDE DEF f, m, proto, a, b, port, d
  <2>2. LET n == HdrWords[x.ver]
            k == WordStored(HeaderStored(g, x), n + 1, PortsWord(port, d)) IN
        SumCorrected(k, SumAt(proto, n + 1), <<a, b>>, <<x.src, x.dst>>,
                     <<f.words[m + 1].src, f.words[m + 1].dst>>, <<port, d>>)
        = Packet(x, <<>>, Transport(proto, port, d, "ok",
                                    SumOf(x.src, x.dst, port, d)))
    BY ONLY <2>1, Finished
  <2>3. 10 + 1 = 11 /\ 5 + 1 = 6
    OBVIOUS
  <2> QED BY <1>5, <2>2, <2>3 DEF f, m, proto, a, b, port, d, e
<1> QED BY <1>2, <1>5, <1>10, <1>12 DEF x

\* And of a reverse run, for a packet without options and with a checksum.
LEMMA ReverseResult ==
    ASSUME ClassifiersInv, run.dir = "rev", Sent, Plain(arrived)
    PROVE  LET h == HeaderOf(arrived)
               p == arrived.words[6]
               key == NatKeyOf(h.dst, p.dst, h.proto) IN
           /\ key \in DOMAIN nat
           /\ nat[key].server = h.src /\ nat[key].sport = p.src
           /\ frame = Answer(WellKnown, nat[key], arrived)
<1> DEFINE h == HeaderOf(arrived)
           p == arrived.words[6]
           key == NatKeyOf(h.dst, p.dst, h.proto)
           client == run.flow.client
           cport == run.flow.cport
           src == <<WellKnown, h.src>>
           x == [ver |-> "ip6", proto |-> run.proto, src |-> src,
                 dst |-> client, len |-> "ok"]
           g == Retyped
           e == HeaderStored(g, x)
           z == PortsWord(p.src, cport)
           u == WordStored(e, 11, z)
<1>1. /\ Active /\ ~ Forward /\ PastPorts /\ PastLength /\ PastState
      /\ Past({"nat", "redirect"})
  BY DEF ClassifiersInv, Locals, PastPorts, PastLength, PastState, Past, Forward
<1>2. run.hdr = 5 /\ run.hdr + 1 = 6 /\ run.hdr + 2 = 7
  <2>1. run.hdr = 5
    BY <1>1 DEF ClassifiersInv, Locals4, Plain
  <2> QED BY <2>1
<1>3. /\ Shape4(arrived) /\ run.proto = h.proto /\ run.proto \in Protocols
      /\ run.ext = h.dst /\ run.flow.server = h.src
      /\ run.flow.sport = p.src /\ run.port = p.dst
      /\ LookupKey \in DOMAIN nat /\ run.flow = nat[LookupKey]
      /\ run.proto = "udp" => arrived.words[7].len = "ok"
  BY <1>1, <1>2 DEF ClassifiersInv, Locals4, Shape4
<1>4. HasWord(arrived, IF Tcp THEN 6 ELSE 7)
  <2>1. HasWord(arrived, run.hdr + IF Tcp THEN 1 ELSE 2)
    BY <1>1 DEF ClassifiersInv, Locals4
  <2> QED BY <1>2, <2>1
<1>5. key = LookupKey
  BY <1>3 DEF LookupKey
<1>6. /\ IsFrame(arrived) /\ Len(arrived.words) \in Nat
      /\ Len(arrived.words) > 5
      /\ Behind(arrived, 5, run.proto, {SumOf(h.src, h.dst, p.src, p.dst)})
  <2>1. /\ IsFrame(arrived) /\ Len(arrived.words) \in Nat
        /\ Len(arrived.words) > 5
    BY <1>3, <1>4 DEF Shape4, IsFrame, IsWords, HasWord
  <2> DEFINE old == SumOf(h.src, h.dst, p.src, p.dst)
  <2>2. Ihl(arrived) = 5 /\ (run.proto = "udp" => arrived.words[7].sum # ZeroSum)
    BY <1>3 DEF Plain
  <2>3. Behind(arrived, 5, run.proto,
               {old} \cup IF run.proto = "udp" THEN {ZeroSum} ELSE {})
    BY <1>3, <2>2 DEF Shape4
  <2>4. 5 + 2 = 7
    OBVIOUS
  <2> HIDE DEF old
  <2>5. Behind(arrived, 5, run.proto, {old})
    BY <2>2, <2>3, <2>4 DEF Behind
  <2> QED BY <2>1, <2>5 DEF old
<1>7. p = PortsWord(p.src, p.dst)
  <2>1. 5 + 1 = 6
    OBVIOUS
  <2> QED BY <1>6, <2>1 DEF Behind
<1>8. /\ TransportAt = 11 /\ x.ver = "ip6" /\ HdrWords[x.ver] = 10
      /\ x.src = src /\ x.dst = client
  BY <1>1 DEF TransportAt, HdrWords
<1>9. /\ IsFrame(g) /\ g.ether = "ip6" /\ g.skb = "ip6"
      /\ Len(g.words) = Len(arrived.words) + 5
      /\ \A i \in 1 .. Len(arrived.words) : g.words[5 + i] = arrived.words[i]
  <2>1. g = [Grown(arrived) EXCEPT !.ether = "ip6"]
    BY <1>1 DEF Retyped, Resized
  <2>2. LET k == [Grown(arrived) EXCEPT !.ether = "ip6"] IN
        /\ IsFrame(k) /\ k.ether = "ip6" /\ k.skb = "ip6"
        /\ Len(k.words) = Len(arrived.words) + 5
        /\ \A i \in 1 .. Len(arrived.words) : k.words[5 + i] = arrived.words[i]
    BY <1>6, GrownWords
  <2> QED BY <2>1, <2>2
<1> HIDE DEF g, x
<1>10. Headed = e
  <2>1. x = [ver |-> IF Forward THEN "ip4" ELSE "ip6", proto |-> run.proto,
             src |-> After[1], dst |-> After[2], len |-> "ok"]
    BY <1>1, <1>3 DEF x, After, SourceOf
  <2> QED BY <2>1 DEF Headed, g
<1>11. /\ IsFrame(e) /\ Len(e.words) = Len(g.words)
       /\ e.words[11] = p
  <2>1. /\ IsFrame(g) /\ x.ver \in {"ip4", "ip6"}
        /\ Len(g.words) >= HdrWords[x.ver]
    BY <1>6, <1>8, <1>9
  <2>2. LET k == HeaderStored(g, x)
            n == HdrWords[x.ver] IN
        /\ IsFrame(k) /\ k.ether = g.ether /\ k.skb = g.skb
        /\ Len(k.words) = Len(g.words)
        /\ \A i \in 1 .. n :
               k.words[i] = [is |-> "hdr", hdr |-> x, at |-> i]
        /\ \A i \in 1 .. Len(g.words) - n :
               k.words[n + i] = g.words[n + i]
    BY ONLY <2>1, HeaderStoredWords
  <2> HIDE DEF e
  <2>3. /\ IsFrame(e) /\ Len(e.words) = Len(g.words)
        /\ \A i \in 1 .. Len(g.words) - 10 : e.words[10 + i] = g.words[10 + i]
    BY <1>8, <2>2 DEF e
  <2>4. 1 \in 1 .. Len(g.words) - 10 /\ 10 + 1 = 11
        /\ 6 \in 1 .. Len(arrived.words) /\ 5 + 6 = 11
    BY <1>6, <1>9
  <2>5. e.words[10 + 1] = g.words[10 + 1]
    BY ONLY <2>3, <2>4
  <2>6. g.words[5 + 6] = arrived.words[6]
    BY ONLY <1>9, <2>4
  <2> QED BY <2>3, <2>4, <2>5, <2>6
<1> HIDE DEF e
<1>12. Ported = u
  <2>1. Ported = DestPortStored(e, 11, cport)
    BY <1>1, <1>8, <1>10 DEF Ported
  <2>2. e.words[11] = PortsWord(p.src, p.dst)
    BY <1>7, <1>11
  <2> QED BY <2>1, <2>2, PortStored
<1>13. frame = SumCorrected(u, SumAt(run.proto, 11),
                            <<h.src, h.dst>>, <<x.src, x.dst>>,
                            <<p.src, p.dst>>, <<p.src, cport>>)
  <2>1. frame = Corrected4
    BY <1>1 DEF ClassifiersInv, Rewritten
  <2>2. /\ Before = <<h.src, h.dst>> /\ After = <<x.src, x.dst>>
        /\ PortsBefore = <<p.src, p.dst>> /\ PortsAfter = <<p.src, cport>>
    BY <1>1, <1>3, <1>8 DEF Before, After, PortsBefore, PortsAfter, SourceOf
  <2> QED BY <1>8, <1>12, <2>1, <2>2 DEF Corrected4
<1>14. HasWord(g, SumAt(run.proto, 11))
  <2>1. HasWord(Ported, SumAt(run.proto, 11))
    BY <1>1, <1>8 DEF ClassifiersInv, Rewritten
  <2>2. IsFrame(e) /\ 11 \in 1 .. Len(e.words)
    BY <1>6, <1>9, <1>11
  <2>3. LET k == WordStored(e, 11, z) IN
        /\ IsFrame(k) /\ k.ether = e.ether /\ k.skb = e.skb
        /\ Len(k.words) = Len(e.words)
        /\ \A j \in 1 .. Len(e.words) :
               k.words[j] = IF j = 11 THEN z ELSE e.words[j]
    BY ONLY <2>2, WordStoredWords
  <2> QED BY <1>11, <1>12, <2>1, <2>3 DEF HasWord
<1>15. SumCorrected(u, SumAt(run.proto, 11), <<h.src, h.dst>>, <<x.src, x.dst>>,
                    <<p.src, p.dst>>, <<p.src, cport>>)
       = Packet(x, <<>>, Transport(run.proto, p.src, cport, "ok",
                                   SumOf(x.src, x.dst, p.src, cport)))
  <2> DEFINE f == arrived
             m == 5
             proto == run.proto
             a == h.src
             b == h.dst
             s == p.src
  <2>1. Fits(f, m, proto, a, b, g, x)
    <3>1. 5 + 1 = 6 /\ 5 + 2 = 7 /\ 10 + 1 = 11
      OBVIOUS
    <3>2. Len(g.words) = 10 + (Len(f.words) - 5)
      BY <1>6, <1>9
    <3>3. ASSUME NEW i \in 1 .. Len(f.words) - 5
          PROVE  g.words[10 + i] = f.words[5 + i]
      <4>1. 5 + i \in 1 .. Len(f.words) /\ 5 + (5 + i) = 10 + i
        BY <1>6
      <4> QED BY <1>9, <4>1
    <3> QED BY <1>3, <1>6, <1>8, <1>9, <1>14, <3>1, <3>2, <3>3 DEF Fits
  <2> HIDE DEF f, m, proto, a, b, s, cport
  <2>2. LET n == HdrWords[x.ver]
            k == WordStored(HeaderStored(g, x), n + 1, PortsWord(s, cport)) IN
        SumCorrected(k, SumAt(proto, n + 1), <<a, b>>, <<x.src, x.dst>>,
                     <<f.words[m + 1].src, f.words[m + 1].dst>>, <<s, cport>>)
        = Packet(x, <<>>, Transport(proto, s, cport, "ok",
                                    SumOf(x.src, x.dst, s, cport)))
    BY ONLY <2>1, Finished
  <2>3. 5 + 1 = 6 /\ 10 + 1 = 11
    OBVIOUS
  <2> QED BY <1>8, <2>2, <2>3 DEF f, m, proto, a, b, s, e
<1>16. frame = Answer(WellKnown, nat[key], arrived)
  <2>1. Answer(WellKnown, nat[key], arrived) =
            Packet([ver |-> "ip6", proto |-> h.proto, src |-> src,
                    dst |-> client, len |-> "ok"], <<>>,
                   Transport(h.proto, p.src, cport, "ok",
                             SumOf(src, client, p.src, cport)))
    BY <1>2, <1>3, <1>5 DEF Answer
  <2>2. frame = Packet(x, <<>>, Transport(run.proto, p.src, cport, "ok",
                                          SumOf(src, client, p.src, cport)))
    BY <1>8, <1>13, <1>15
  <2> QED BY <1>3, <2>1, <2>2 DEF x
<1> QED BY <1>3, <1>5, <1>16

\* The header and the ports of a packet.
LEMMA PacketParts ==
    ASSUME NEW h, h.ver = "ip4", NEW proto, NEW s, NEW d, NEW l, NEW sum
    PROVE  LET g == Packet(h, <<>>, Transport(proto, s, d, l, sum)) IN
           HeaderOf(g) = h /\ g.words[6].src = s /\ g.words[6].dst = d
<1> DEFINE t == Transport(proto, s, d, l, sum)
           o == <<>>
           g == Packet(h, o, t)
<1>1. /\ IsWords(t) /\ Len(t) \in {2, 5} /\ t[1] = PortsWord(s, d)
  <2>1. /\ IsWords(t) /\ t[1] = PortsWord(s, d)
        /\ proto = "udp" =>
               Len(t) = 2 /\ t[2] = [is |-> "udp", len |-> l, sum |-> sum]
        /\ proto # "udp" =>
               /\ Len(t) = 5 /\ t[2] = Rest /\ t[3] = Rest /\ t[4] = Rest
               /\ t[5] = [is |-> "sum", sum |-> sum]
    BY TransportWords
  <2> QED BY <2>1
<1>2. IsWords(o) /\ Len(o) = 0
  <2>1. o = [i \in 1 .. 0 |-> o[i]]
    OBVIOUS
  <2> QED BY <2>1, Segment
<1>3. h.ver \in {"ip4", "ip6"} /\ IsWords(o) /\ IsWords(t)
  BY <1>1, <1>2
<1> HIDE DEF t, o
<1>4. LET v == Packet(h, o, t)
          n == HdrWords[h.ver] IN
      /\ IsFrame(v) /\ v.ether = h.ver /\ v.skb = h.ver
      /\ Len(v.words) = n + Len(o) + Len(t)
      /\ n \in {5, 10}
      /\ \A i \in 1 .. n : v.words[i] = [is |-> "hdr", hdr |-> h, at |-> i]
      /\ \A i \in 1 .. Len(o) : v.words[n + i] = o[i]
      /\ \A i \in 1 .. Len(t) : v.words[n + Len(o) + i] = t[i]
  BY ONLY <1>3, PacketWords
<1> HIDE DEF g
<1>5. /\ \A i \in 1 .. 5 : g.words[i] = [is |-> "hdr", hdr |-> h, at |-> i]
      /\ \A i \in 1 .. Len(t) : g.words[5 + 0 + i] = t[i]
  <2>1. HdrWords[h.ver] = 5
    BY DEF HdrWords
  <2>2. LET v == Packet(h, o, t) IN
        /\ \A i \in 1 .. 5 : v.words[i] = [is |-> "hdr", hdr |-> h, at |-> i]
        /\ \A i \in 1 .. Len(t) : v.words[5 + 0 + i] = t[i]
    BY ONLY <1>2, <1>4, <2>1
  <2> QED BY ONLY <2>2 DEF g
<1>6. 1 \in 1 .. 5 /\ 1 \in 1 .. Len(t) /\ 5 + 0 + 1 = 6
  BY <1>1
<1>7. g.words[1] = [is |-> "hdr", hdr |-> h, at |-> 1]
  BY <1>5, <1>6
<1>8. g.words[6] = PortsWord(s, d)
  BY <1>1, <1>5, <1>6
<1> QED BY <1>7, <1>8 DEF HeaderOf, PortsWord, g, o, t

LEMMA OneCounted ==
    ASSUME NEW S, S = {} \/ \E x : S = {x}
    PROVE  Cardinality(S) = IF S = {} THEN 0 ELSE 1
<1>1. CASE S = {}
  BY <1>1, FS_EmptySet
<1>2. CASE \E x : S = {x}
  <2>1. PICK x : S = {x}
    BY <1>2
  <2>2. Cardinality({x}) = 1
    BY FS_Singleton
  <2> QED BY <2>1, <2>2
<1> QED BY <1>1, <1>2

LEMMA Agree ==
    ASSUME Tallied
    PROVE  CountersAgree
<1> DEFINE n(names) == Cardinality(counted \cap names)
           c == counted
<1>1. ASSUME NEW x PROVE n({x}) = IF x \in counted THEN 1 ELSE 0
  <2> DEFINE S == counted \cap {x}
  <2>1. S = {} \/ S = {x}
    OBVIOUS
  <2>2. S = {} <=> x \notin counted
    OBVIOUS
  <2>3. Cardinality(S) = IF S = {} THEN 0 ELSE 1
    <3> HIDE DEF S
    <3> QED BY <2>1, OneCounted
  <2> QED BY <2>2, <2>3
<1>2. ASSUME NEW x, NEW y, ~ (x \in counted /\ y \in counted)
      PROVE  n({x, y}) = IF x \in counted \/ y \in counted THEN 1 ELSE 0
  <2> DEFINE S == counted \cap {x, y}
  <2>1. S = {} \/ S = {x} \/ S = {y}
    BY <1>2
  <2>2. S = {} <=> ~ (x \in counted \/ y \in counted)
    OBVIOUS
  <2>3. Cardinality(S) = IF S = {} THEN 0 ELSE 1
    <3> HIDE DEF S
    <3> QED BY <2>1, OneCounted
  <2> QED BY <2>2, <2>3
<1>3. {OkOf(d, x) : d \in {"fwd", "rev"}, x \in Protocols} = OkNames
  BY DEF OkOf, OkNames, Protocols
<1>4. {RedirectOk(d) : d \in {"fwd", "rev"}}
          \cup {RedirectErr(d) : d \in {"fwd", "rev"}} = SentNames
  BY DEF RedirectOk, RedirectErr, SentNames
<1>5. n(OkNames) = n(SentNames)
  <2>1. \/ counted \cap OkNames = {} /\ counted \cap SentNames = {}
        \/ \E x, y : counted \cap OkNames = {x} /\ counted \cap SentNames = {y}
    BY DEF Tallied
  <2> DEFINE S == counted \cap OkNames
             T == counted \cap SentNames
  <2>2. /\ S = {} \/ \E x : S = {x}
        /\ T = {} \/ \E x : T = {x}
        /\ S = {} <=> T = {}
    BY <2>1
  <2> HIDE DEF S, T
  <2>3. /\ Cardinality(S) = IF S = {} THEN 0 ELSE 1
        /\ Cardinality(T) = IF T = {} THEN 0 ELSE 1
    BY <2>2, OneCounted
  <2> QED BY <2>2, <2>3 DEF S, T
<1>6. /\ OkOf("fwd", "tcp") = "nat64_v6_to_v4_ok"
      /\ OkOf("rev", "udp") = "nat64_v4_to_v6_udp_ok"
  BY DEF OkOf
<1>7. n({"pkts_ipv4_udp"} \cap counted) = n({"pkts_ipv4_udp"})
  <2>1. counted \cap ({"pkts_ipv4_udp"} \cap counted) = counted \cap {"pkts_ipv4_udp"}
    OBVIOUS
  <2> QED BY <2>1
<1>8. /\ n({"nat64_v6_to_v4_ok"}) =< n({"pkts_nat64_tcp"})
      /\ n({"nat64_v4_to_v6_udp_ok"}) =< n({"pkts_ipv4_udp"})
  <2>1. /\ "nat64_v6_to_v4_ok" \in counted => "pkts_nat64_tcp" \in counted
        /\ "nat64_v4_to_v6_udp_ok" \in counted => "pkts_ipv4_udp" \in counted
    BY DEF Tallied
  <2> HIDE DEF n
  <2> QED BY <1>1, <2>1
<1>9. /\ n({"fwd_nat_lookup_miss"}) = n({"port_alloc_ok", "port_alloc_err"})
      /\ n({"port_alloc_ok"}) = n({"fwd_nat_insert_ok", "fwd_nat_insert_err"})
      /\ n({"fwd_nat_lookup_hit"}) = n({"fwd_nat_refresh_ok"})
  <2>1. /\ "fwd_nat_lookup_miss" \in counted <=>
               "port_alloc_ok" \in counted \/ "port_alloc_err" \in counted
        /\ ~ ("port_alloc_ok" \in counted /\ "port_alloc_err" \in counted)
        /\ "port_alloc_ok" \in counted <=>
               "fwd_nat_insert_ok" \in counted \/ "fwd_nat_insert_err" \in counted
        /\ ~ ("fwd_nat_insert_ok" \in counted /\ "fwd_nat_insert_err" \in counted)
        /\ "fwd_nat_lookup_hit" \in counted <=> "fwd_nat_refresh_ok" \in counted
    BY DEF Tallied
  <2> HIDE DEF n
  <2> QED BY <1>1, <1>2, <2>1
<1>10. n({OkOf(d, x) : d \in {"fwd", "rev"}, x \in Protocols})
         = n({RedirectOk(d) : d \in {"fwd", "rev"}}
             \cup {RedirectErr(d) : d \in {"fwd", "rev"}})
  BY <1>3, <1>4, <1>5
<1>11. /\ n({OkOf("fwd", "tcp")}) =< n({"pkts_nat64_tcp"})
       /\ n({OkOf("rev", "udp")}) =< n({"pkts_ipv4_udp"} \cap counted)
  BY <1>6, <1>7, <1>8
<1> QED BY ONLY <1>9, <1>10, <1>11, SMT DEF CountersAgree

-----------------------------------------------------------------------------
(* The theorems.                                                           *)

\* Every mapping and every reverse entry is for an address of the pool and a
\* port of the range, the entries belong to clients and servers, and a run
\* and its packet are what they can be.
THEOREM TypeCorrect == Spec => []TypeOK
<1>1. ClassifiersInv => TypeOK
  BY DEF ClassifiersInv, MapsOK, Locals, TypeOK
<1> QED BY <1>1, Invariant, PTL

\* A packet that try_nat64_forward redirects is, word by word, the translation
\* of the one that arrived, whatever its protocol, its mapping and the order in
\* which its branch has rewritten it.
THEOREM ForwardCorrect == Spec => []ForwardTranslates
<1>1. ClassifiersInv => ForwardTranslates
  <2> SUFFICES ASSUME ClassifiersInv, Ended("fwd", "redirect")
               PROVE  ForwardTranslates
    BY DEF ForwardTranslates
  <2>1. Forward /\ Sent
    BY DEF Ended, Forward, Sent
  <2> QED BY <2>1, ForwardResult DEF ForwardTranslates
<1> QED BY <1>1, Invariant, PTL

\* When it has been redirected, NAT holds the entry that lets the answer in,
\* for the client and port it came from.
THEOREM AnswersAdmitted == Spec => []AnswerIsAdmitted
<1>1. ClassifiersInv => AnswerIsAdmitted
  <2> SUFFICES ASSUME ClassifiersInv, Ended("fwd", "redirect"),
                      "nat_insert_udp_err" \notin counted
               PROVE  AnswerIsAdmitted
    BY DEF AnswerIsAdmitted
  <2> DEFINE h == HeaderOf(arrived)
             p == arrived.words[11]
             x == [ver |-> "ip4", proto |-> h.proto, src |-> run.ext,
                   dst |-> h.dst[2], len |-> "ok"]
             s == run.port
             d == p.dst
             sum == SumOf(run.ext, h.dst[2], s, d)
             proto == h.proto
             g == Packet(x, <<>>, Transport(proto, s, d, "ok", sum))
  <2>1. Forward /\ Sent /\ Active /\ PastPorts /\ Past({"redirect"})
    BY DEF Ended, Forward, Sent, Active, PastPorts, Past, ClassifiersInv, Locals
  <2>2. frame = g
    BY <2>1, ForwardResult
  <2>3. HeaderOf(frame) = x /\ frame.words[6].src = s /\ frame.words[6].dst = d
    <3>1. x.ver = "ip4"
      OBVIOUS
    <3> HIDE DEF x, s, d, sum, proto
    <3>2. LET v == Packet(x, <<>>, Transport(proto, s, d, "ok", sum)) IN
          HeaderOf(v) = x /\ v.words[6].src = s /\ v.words[6].dst = d
      BY ONLY <3>1, PacketParts
    <3> QED BY <2>2, <3>2
  <2>4. x.src = run.ext /\ x.dst = h.dst[2]
    OBVIOUS
  <2>5. PublishedKey \in DOMAIN nat /\ nat[PublishedKey] = run.flow
    BY <2>1 DEF ClassifiersInv, Locals6, Tcp
  <2>6. run.flow = Flow(h.src, p.src, h.dst[2], p.dst, run.proto)
    <3>1. /\ run.flow = Flow(h.src, run.flow.cport, h.dst[2], run.flow.sport,
                             h.proto)
          /\ run.proto = h.proto
          /\ run.flow.cport = p.src /\ run.flow.sport = p.dst
      BY <2>1 DEF ClassifiersInv, Locals6
    <3> QED BY <3>1
  <2> HIDE DEF x
  <2> QED BY <2>3, <2>4, <2>5, <2>6 DEF AnswerIsAdmitted, PublishedKey
<1> QED BY <1>1, Invariant, PTL

\* A reply without options and with a checksum is, field by field, translated
\* to the client of the NAT entry that admits its sender, from the address
\* that nat64_source_v6 gives it: under 64:ff9b::/96.
ReplyFromConstant ==
    Ended("rev", "redirect") /\ Plain(arrived) =>
        LET h == HeaderOf(arrived)
            p == arrived.words[6]
            key == NatKeyOf(h.dst, p.dst, h.proto) IN
        /\ key \in DOMAIN nat
        /\ nat[key].server = h.src /\ nat[key].sport = p.src
        /\ frame = Answer(WellKnown, nat[key], arrived)

\* The invariant gives it.
LEMMA ReplyAsCoded == ClassifiersInv => ReplyFromConstant
<1> SUFFICES ASSUME ClassifiersInv, Ended("rev", "redirect"), Plain(arrived)
             PROVE  ReplyFromConstant
  BY DEF ReplyFromConstant
<1>1. run.dir = "rev" /\ Sent
  BY DEF Ended, Sent
<1> QED BY <1>1, ReverseResult DEF ReplyFromConstant

\* Whatever the configured prefix, try_nat64_reverse translates so: in every
\* field but the prefix of its source a reply is right under any of them.
THEOREM RepliesUnderAnyPrefix == Spec => []ReplyFromConstant
<1> QED BY ReplyAsCoded, Invariant, PTL

\* Under the default prefix it is the translation that its client waits for,
\* from the address it has sent to.
THEOREM RepliesCorrect == Prefix = WellKnown => (Spec => []ReplyTranslates)
<1> SUFFICES ASSUME Prefix = WellKnown PROVE Spec => []ReplyTranslates
  OBVIOUS
<1>1. ClassifiersInv => ReplyTranslates
  BY ReplyAsCoded DEF ReplyFromConstant, ReplyTranslates
<1> QED BY <1>1, Invariant, PTL

\* Both classifiers let a packet they have no state for pass as it arrived,
\* except the forward TCP branch, which has rewritten it by then.
THEOREM PassIntact == Spec => []StatelessPassIntact
<1>1. ClassifiersInv => StatelessPassIntact
  BY DEF ClassifiersInv
<1> QED BY <1>1, Invariant, PTL

\* What a run has counted adds up, whichever way it ends.
THEOREM CountsCorrect == Spec => []CountersAgree
<1>1. ClassifiersInv => CountersAgree
  BY Agree DEF ClassifiersInv
<1> QED BY <1>1, Invariant, PTL

=============================================================================
