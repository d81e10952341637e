------------------------------ MODULE Checksum ------------------------------
(***************************************************************************)
(* The Internet checksum of one packet: how natto64-xlat fills it          *)
(* (natto64-xlat/src/checksum.rs), and how the classifiers correct it      *)
(* without reading the payload (the two delta functions of                 *)
(* natto64-ebpf/src/lib.rs, on the kernel's bpf_csum_diff and              *)
(* bpf_l4_csum_replace).                                                   *)
(*                                                                         *)
(* A word has Base values (2^16 in the code) and an accumulator Base^2     *)
(* (2^32), so that sums count modulo W = Base - 1 and W and 0 are the two  *)
(* zeros.  Words are in network order: a sum of bytes swapped is the sum   *)
(* swapped.  The packet is not here, only the exact sums, modulo W, of its *)
(* pseudo header and of what follows; which addresses, ports and offsets   *)
(* the corrections are given is the subject of Classifiers.                *)
(***************************************************************************)
EXTENDS Integers

CONSTANTS
    Base,        \* values of a word
    BodyWords,   \* words a segment or header has at most
    TcpNumber,   \* IPPROTO_TCP
    UdpNumber    \* IPPROTO_UDP

W == Base - 1
Words == 0 .. W
U32 == 0 .. Base * Base - 1

\* The accumulator holds the folded addresses, length and protocol and the
\* body without losing a carry.  In the code: 4 + 32768 words of 2^16 - 1.
ASSUME BaseAssumption == Base \in Nat /\ Base >= 8
ASSUME BodyAssumption == BodyWords \in Nat /\ BodyWords + 4 =< Base + 1
ASSUME ProtocolAssumption == {TcpNumber, UdpNumber} \subseteq Words \ {0}

VARIABLES
    pc,        \* the next thing to be done for the packet
    kind,      \* "tcp" or "udp" segment, or a bare IPv4 "header"
    family,    \* 4 or 6, the IP version the packet has now
    n,         \* words added since the accumulator was last folded
    sum,       \* the accumulator, 0 once it has been used
    field,     \* the checksum field
    partial,   \* CHECKSUM_PARTIAL: the sending device has yet to fill it
    pseudo,    \* exact sum of the pseudo header modulo W
    body,      \* exact sum of segment or header, checksum field aside
    intact     \* the packet verified when it arrived at the translator

vars == <<pc, kind, family, n, sum, field, partial, pseudo, body, intact>>

Residues == 0 .. W - 1
Segments == {"tcp", "udp"}

TypeOK ==
    /\ pc \in {"source", "destination", "length", "body", "fold",
               "made", "arrived", "ports", "zero", "out"}
    /\ kind \in Segments \cup {"header"}
    /\ family \in {4, 6}
    /\ n \in 0 .. Base + 1
    /\ sum \in U32
    /\ field \in Words
    /\ partial \in BOOLEAN
    /\ pseudo \in Residues
    /\ body \in Residues
    /\ intact \in BOOLEAN

Init ==
    /\ \/ kind \in Segments /\ pc = "source" /\ family \in {4, 6}
       \/ kind = "header" /\ pc = "body" /\ family = 4
    /\ n = 0
    /\ sum = 0
    /\ field = 0
    /\ partial = FALSE
    /\ pseudo = 0
    /\ body = 0
    /\ intact = TRUE

-----------------------------------------------------------------------------
(* natto64-xlat: the full sum.                                             *)

\* An accumulator as wide as a word.
Wrapping16(s, w) == (s + w) % Base

\* sum.wrapping_add(word)
WrappingAdd(s, w) == (s + w) % (Base * Base)

\* (sum & 0xffff) + (sum >> 16)
Folded(s) == (s % Base) + (s \div Base)

\* The straight-line fold without its second and third line.
FoldedOnce(s) == Folded(s)

\* fold_u32_fixed: three folds for any accumulator.
FixedFold(s) == Folded(Folded(Folded(s)))

AddressWords == IF family = 4 THEN 2 ELSE 8

\* checksum16_with_seed over an address: one more word.
AddAddress(w) ==
    /\ pc \in {"source", "destination"}
    /\ n < AddressWords
    /\ sum' = WrappingAdd(sum, w)
    /\ n' = n + 1
    /\ pseudo' = (pseudo + w) % W
    /\ UNCHANGED <<pc, kind, family, field, partial, body, intact>>

\* fold_sum: one round of its loop.
Fold ==
    /\ \/ pc \in {"source", "destination"} /\ n = AddressWords
       \/ pc = "fold"
    /\ sum >= Base
    /\ sum' = Folded(sum)
    /\ UNCHANGED <<pc, kind, family, n, field, partial, pseudo, body, intact>>

\* The folded sum of an address is the seed of what follows.
EndAddress ==
    /\ pc \in {"source", "destination"}
    /\ n = AddressWords
    /\ sum < Base
    /\ pc' = IF pc = "source" THEN "destination" ELSE "length"
    /\ n' = 0
    /\ UNCHANGED <<kind, family, sum, field, partial, pseudo, body, intact>>

Protocol == IF kind = "tcp" THEN TcpNumber ELSE UdpNumber

\* The length, in two halves for IPv6, and the protocol number.
AddLength(high, low) ==
    /\ pc = "length"
    /\ family = 4 => high = 0
    /\ sum' = WrappingAdd(WrappingAdd(WrappingAdd(sum, high), low), Protocol)
    /\ pseudo' = (pseudo + high + low + Protocol) % W
    /\ pc' = "body"
    /\ UNCHANGED <<kind, family, n, field, partial, body, intact>>

\* One more word of the segment or of the header; the checksum field counts
\* as zero, an odd last byte is the upper one of its word, and a header
\* begins with its version.
AddWord(w) ==
    /\ pc = "body"
    /\ n < BodyWords
    /\ kind = "header" /\ n = 0 => w # 0
    /\ sum' = WrappingAdd(sum, w)
    /\ n' = n + 1
    /\ body' = (body + w) % W
    /\ UNCHANGED <<pc, kind, family, field, partial, pseudo, intact>>

EndBody ==
    /\ pc = "body"
    /\ kind = "header" => n > 0
    /\ pc' = "fold"
    /\ n' = 0
    /\ UNCHANGED <<kind, family, sum, field, partial, pseudo, body, intact>>

\* A fill that leaves the zero of a segment as it is.
FilledAnyZero(s) == W - s

\* The complement; a segment never carries zero, a header may.
Filled(s) == IF W - s = 0 /\ kind # "header" THEN W ELSE W - s

\* tcp_checksum_ipv4 and its siblings, or ipv4_header_checksum_20b.
Fill ==
    /\ pc = "fold"
    /\ sum < Base
    /\ field' = Filled(sum)
    /\ sum' = 0
    /\ pc' = "made"
    /\ UNCHANGED <<kind, family, n, partial, pseudo, body, intact>>

\* write_ipv4_header of the dataplane: no loop.
FillStraight ==
    /\ pc = "fold"
    /\ kind = "header"
    /\ field' = W - FixedFold(sum)
    /\ sum' = 0
    /\ pc' = "made"
    /\ UNCHANGED <<kind, family, n, partial, pseudo, body, intact>>

-----------------------------------------------------------------------------
(* The packet on its way to the translator.                                *)

\* The local stack leaves the sum to the device: the field holds the folded
\* sum of the pseudo header, which is not zero.
Offload(w, b) ==
    /\ pc = "body"
    /\ n = 0
    /\ kind \in Segments
    /\ w # 0 /\ w % W = pseudo
    /\ field' = w
    /\ partial' = TRUE
    /\ body' = b
    /\ sum' = 0
    /\ pc' = "made"
    /\ UNCHANGED <<kind, family, n, pseudo, intact>>

\* It arrives as it was made or, off a network, with another sum.  UDP
\* without a checksum is meant to be refused.
Arrive(w) ==
    /\ pc = "made"
    /\ kind \in Segments
    /\ w # field => ~ partial /\ (kind = "udp" => w # 0)
    /\ field' = w
    /\ intact' = (w % W = field % W)
    /\ pc' = "arrived"
    /\ UNCHANGED <<kind, family, n, sum, partial, pseudo, body>>

-----------------------------------------------------------------------------
(* The kernel's arithmetic.                                                *)

\* csum_add: end-around carry.
CsumAdd(a, b) ==
    IF a + b < Base * Base THEN a + b ELSE a + b - Base * Base + 1

\* ~ of an accumulator.
Not32(a) == Base * Base - 1 - a

CsumSub(a, b) == CsumAdd(a, Not32(b))

CsumFold(a) == W - Folded(Folded(a))

\* bpf_l4_csum_replace without a size: a difference of pseudo headers, for
\* packets that carry a full sum and for those that carry the pseudo header's.
ReplaceByDiff(c, diff) ==
    IF partial THEN W - CsumFold(CsumAdd(diff, c))
    ELSE CsumFold(CsumAdd(diff, Not32(c)))

\* With a size: a word that is not, or is, part of the pseudo header.
Replace(c, from, to, isPseudo) ==
    IF ~ partial THEN CsumFold(CsumAdd(CsumSub(Not32(c), from), to))
    ELSE IF isPseudo THEN W - CsumFold(CsumAdd(CsumSub(c, from), to))
    ELSE c

\* BPF_F_MARK_MANGLED_0: zero is left alone, and is not made.
ReplaceMangled(c, from, to, isPseudo) ==
    IF c = 0 THEN 0
    ELSE LET r == Replace(c, from, to, isPseudo) IN IF r = 0 THEN W ELSE r

-----------------------------------------------------------------------------
(* The dataplane: apply_l4_nat64_checksum_delta_v6_to_v4 and _v4_to_v6.    *)

\* The addresses change: d is what bpf_csum_diff gives of the old and the new
\* pseudo header, some accumulator congruent to the new sum less the old one.
CorrectPseudo(d) ==
    /\ pc = "arrived"
    /\ field' = ReplaceByDiff(field, d)
    /\ pseudo' = (pseudo + d) % W
    /\ family' = IF family = 6 THEN 4 ELSE 6
    /\ pc' = "ports"
    /\ UNCHANGED <<kind, n, sum, partial, body, intact>>

\* The port corrected as if it were part of the pseudo header.
PortReplacedPseudo(c, old, new) == Replace(c, old, new, TRUE)

\* Flags 2: not of the pseudo header.
PortReplaced(c, old, new) == Replace(c, old, new, FALSE)

\* One port changes.
CorrectPort(old, new) ==
    /\ pc = "ports"
    /\ field' = PortReplaced(field, old, new)
    /\ body' = (body + new + (W - old)) % W
    /\ pc' = IF kind = "udp" THEN "zero" ELSE "out"
    /\ UNCHANGED <<kind, family, n, sum, partial, pseudo, intact>>

\* The correction that is there for the zero of UDP: of 0 to 0xffff on the
\* way to IPv4, of 0 to 0 on the way to IPv6.
ZeroReplaced(c) ==
    IF family = 4 THEN ReplaceMangled(c, 0, W, FALSE)
    ELSE ReplaceMangled(c, 0, 0, TRUE)

CorrectZero ==
    /\ pc = "zero"
    /\ field' = ZeroReplaced(field)
    /\ pc' = "out"
    /\ UNCHANGED <<kind, family, n, sum, partial, pseudo, body, intact>>

\* The device fills what the stack left to it: it sums the segment with the
\* field in it, and sends 0xffff for zero.
Complete ==
    /\ pc = "out"
    /\ partial
    /\ field' = W - ((body + field) % W)
    /\ partial' = FALSE
    /\ UNCHANGED <<pc, kind, family, n, sum, pseudo, body, intact>>

-----------------------------------------------------------------------------

Next ==
    \/ \E w \in Words : AddAddress(w) \/ AddWord(w) \/ Arrive(w)
    \/ Fold
    \/ EndAddress
    \/ \E high, low \in Words : AddLength(high, low)
    \/ EndBody
    \/ Fill
    \/ FillStraight
    \/ \E w \in Words, b \in Residues : Offload(w, b)
    \/ \E d \in U32 : CorrectPseudo(d)
    \/ \E old, new \in Words : CorrectPort(old, new)
    \/ CorrectZero
    \/ Complete

Spec == Init /\ [][Next]_vars

-----------------------------------------------------------------------------
(* Properties.                                                             *)

\* No carry is lost and none counted twice: between any two additions and
\* folds of checksum16_with_seed and the four segment functions the
\* accumulator is the exact sum of all words so far, modulo 0xffff.
SumExact ==
    pc \in {"source", "destination", "length", "body", "fold"} =>
        sum % W = (pseudo + body) % W

\* fold_u32_fixed, which the verifier wants straight, gives what the loop of
\* fold_sum gives: a round of the loop never changes its result, and it
\* returns folded sums as they are.
FoldsAgree ==
    [][Fold => /\ FixedFold(sum) = FixedFold(sum')
               /\ sum' < Base => FixedFold(sum') = sum']_vars

Total == (pseudo + body + field) % W

\* A checksum that natto64-xlat or write_ipv4_header filled in verifies to
\* 0xffff, and in a TCP or UDP segment it is never zero.
FilledVerifies ==
    pc = "made" /\ ~ partial => Total = 0 /\ (kind # "header" => field # 0)

\* Incremental correction neither breaks a checksum nor heals one, for
\* packets that carry a full sum and for offloaded ones once the device has
\* filled theirs.
VerdictPreserved ==
    pc = "out" /\ ~ partial => (Total = 0 <=> intact)
=============================================================================
