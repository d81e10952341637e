--------------------------- MODULE PortAllocator ---------------------------
(***************************************************************************)
(* The external-port allocator of one CPU: alloc_port, its cursor and its  *)
(* cooldown ring (natto64-ebpf/src/lib.rs).                                *)
(*                                                                         *)
(* PORT_CURSOR and PORT_COOLDOWN are per-CPU arrays, so the state here is  *)
(* that of one CPU.  The NAT map is shared: the classifiers and timers of  *)
(* every CPU insert and remove entries between two probes, which are the   *)
(* environment actions Publish and Withdraw.  SessionTable models those    *)
(* writers and takes from this module only what alloc_port promises them.  *)
(*                                                                         *)
(* The port range is part of CONFIG.  It changes under a running dataplane *)
(* when an attach fails behind its first link and is repeated with another *)
(* configuration (see Lifecycle); cursor, ring and NAT survive that.       *)
(***************************************************************************)
EXTENDS Naturals, FiniteSets

CONSTANTS
    Externals,      \* the (ext_v4, proto) pairs a port is allocated for
    Ranges,         \* the ranges <<port_min, port_max>> CONFIG is given
    CooldownSize,   \* COOLDOWN_SIZE, the slots of the ring (64 in the code)
    Probes,         \* candidates one call tries (16 in the code)
    CursorMod,      \* the cursor is a u32: it wraps here (2^32 in the code)
    IdxMod          \* the ring index is a u32 too

\* validate() rejects port_min = 0 and port_min > port_max; the ring size
\* divides the width of its index, as 64 divides 2^32.  The cursor has a bit.
ASSUME PortsAssumption ==
    /\ Ranges \subseteq (Nat \ {0}) \X Nat
    /\ \A r \in Ranges : r[1] =< r[2]
ASSUME RingAssumption == /\ CooldownSize \in Nat \ {0}
                         /\ IdxMod \in Nat \ {0}
                         /\ IdxMod % CooldownSize = 0
ASSUME CursorAssumption == CursorMod \in Nat \ {0, 1}
ASSUME ProbesAssumption == Probes \in Nat \ {0}

VARIABLES
    range,    \* the range in CONFIG
    cursor,   \* PORT_CURSOR[0]
    ring,     \* PORT_COOLDOWN[0]: where the next port goes, and the ports
    nat,      \* the keys of NAT that hold an entry
    call,     \* the running call of alloc_port, or how the last one ended
    age       \* history: allocations since a port was handed out, 0 once it
              \* is not among the last CooldownSize

vars == <<range, cursor, ring, nat, call, age>>

PortsOf(r) == r[1] .. r[2]
Ports == UNION {PortsOf(r) : r \in Ranges}
Slots == 0 .. CooldownSize - 1
Span(r) == r[2] - r[1] + 1
NoPort == 0                        \* what an unused slot of the ring holds

TypeOK ==
    /\ range \in Ranges
    /\ cursor \in 0 .. CursorMod - 1
    /\ ring \in [idx : 0 .. IdxMod - 1, ports : [Slots -> Ports \cup {NoPort}]]
    /\ nat \subseteq Externals \X Ports
    /\ call \in [pc : {"idle", "probing", "taken", "exhausted", "rejected"},
                 ext : Externals,
                 range : Ranges,
                 left : 0 .. Probes,
                 tried : SUBSET Ports,
                 wrapped : BOOLEAN,
                 port : Ports \cup {NoPort}]
    /\ age \in [Ports -> 0 .. CooldownSize]

Init ==
    /\ range \in Ranges
    /\ cursor = 0
    /\ ring = [idx |-> 0, ports |-> [s \in Slots |-> NoPort]]
    /\ nat = {}
    /\ \E e \in Externals :
         call = [pc |-> "idle", ext |-> e, range |-> range, left |-> 0,
                 tried |-> {}, wrapped |-> FALSE, port |-> NoPort]
    /\ age = [p \in Ports |-> 0]

-----------------------------------------------------------------------------
(* The ring.                                                               *)

\* A ring that compares all its slots but the last one.
CoolingButLast(r, p) == \E s \in Slots \ {CooldownSize - 1} : r.ports[s] = p

\* cooldown_contains: the 64 comparisons.
Cooling(r, p) == \E s \in Slots : r.ports[s] = p

\* A push that overwrites the newest port instead of the oldest.
PushedInPlace(r, p) ==
    [idx |-> r.idx, ports |-> [r.ports EXCEPT ![r.idx % CooldownSize] = p]]

\* cooldown_push: overwrite the slot of idx, then idx.wrapping_add(1).
Pushed(r, p) ==
    [idx |-> (r.idx + 1) % IdxMod,
     ports |-> [r.ports EXCEPT ![r.idx % CooldownSize] = p]]

\* A range one port too long.
CandidateBeyond(r, c) == r[1] + (c % (Span(r) + 1))

Candidate(r, c) == r[1] + (c % Span(r))

\* A cursor that a probe does not advance.
StuckCursor(c) == c

\* cursor.wrapping_add(1)
Advanced(c) == (c + 1) % CursorMod

\* A call that starts again from the beginning of the range.
RewoundCursor == 0

\* Where a call starts from: the value the last call stored.
StartCursor == cursor

-----------------------------------------------------------------------------
(* One call.                                                               *)

\* A call of alloc_port, made for a flow without a mapping, under the range
\* its run found in CONFIG.  A range without a second port returns None
\* before anything else.
Start(e) ==
    /\ call.pc # "probing"
    /\ IF range[1] >= range[2]
         THEN /\ call' = [call EXCEPT !.pc = "rejected", !.ext = e,
                                      !.range = range, !.port = NoPort]
              /\ UNCHANGED cursor
         ELSE /\ call' = [pc |-> "probing", ext |-> e, range |-> range,
                          left |-> Probes, tried |-> {}, wrapped |-> FALSE,
                          port |-> NoPort]
              /\ cursor' = StartCursor
    /\ UNCHANGED <<range, ring, nat, age>>

\* The candidate an iteration looks at: the cursor advances first.
Probed == Candidate(call.range, Advanced(cursor))

\* The call after one more iteration.
SpentCall ==
    [call EXCEPT !.left = @ - 1,
                 !.tried = @ \cup {Probed},
                 !.wrapped = @ \/ Advanced(cursor) < cursor]

\* The candidate is in the ring, or its NAT key is taken: go on.
Skip ==
    /\ call.pc = "probing"
    /\ call.left > 0
    /\ Cooling(ring, Probed) \/ <<call.ext, Probed>> \in nat
    /\ cursor' = Advanced(cursor)
    /\ call' = SpentCall
    /\ UNCHANGED <<range, ring, nat, age>>

\* The first candidate that is neither is pushed and returned.
Take ==
    /\ call.pc = "probing"
    /\ call.left > 0
    /\ ~ Cooling(ring, Probed)
    /\ <<call.ext, Probed>> \notin nat
    /\ cursor' = Advanced(cursor)
    /\ ring' = Pushed(ring, Probed)
    /\ call' = [SpentCall EXCEPT !.pc = "taken", !.port = Probed]
    /\ age' = [q \in Ports |->
                 IF q = Probed THEN 1
                 ELSE IF age[q] \in 1 .. CooldownSize - 1 THEN age[q] + 1
                 ELSE 0]
    /\ UNCHANGED <<range, nat>>

\* Every probe was spent: count port_alloc_exhausted and return None.
Exhaust ==
    /\ call.pc = "probing"
    /\ call.left = 0
    /\ call' = [call EXCEPT !.pc = "exhausted"]
    /\ UNCHANGED <<range, cursor, ring, nat, age>>

\* A classifier of some CPU inserts a NAT entry.
Publish(e, p) ==
    /\ <<e, p>> \notin nat
    /\ nat' = nat \cup {<<e, p>>}
    /\ UNCHANGED <<range, cursor, ring, call, age>>

\* A timer removes an entry, or the LRU map evicts one.
Withdraw(e, p) ==
    /\ <<e, p>> \in nat
    /\ nat' = nat \ {<<e, p>>}
    /\ UNCHANGED <<range, cursor, ring, call, age>>

\* attach writes another configuration under a linked forward classifier.  A
\* running call goes on with the one it has.
Reconfigure(r) ==
    /\ r # range
    /\ range' = r
    /\ UNCHANGED <<cursor, ring, nat, call, age>>

Next ==
    \/ \E e \in Externals : Start(e)
    \/ Skip
    \/ Take
    \/ Exhaust
    \/ \E r \in Ranges : Reconfigure(r)
    \/ \E e \in Externals, p \in Ports : Publish(e, p) \/ Withdraw(e, p)

Spec == Init /\ [][Next]_vars

\* A classifier that started runs to its end: the verifier admits no
\* unbounded loop, and softirq work is not preempted by its own kind.
FairSpec == Spec /\ WF_vars(Skip \/ Take \/ Exhaust)

-----------------------------------------------------------------------------
(* Properties.                                                             *)

\* This step ends a call with port p.
Returns(p) == call.pc = "probing" /\ call'.pc = "taken" /\ call'.port = p

\* A port is handed out again only after CooldownSize other ports were
\* (the purpose of the ring, cooldown_contains and cooldown_push).
NoQuickReuse == [][\A p \in Ports : Returns(p) => age[p] = 0]_vars

\* The ring holds exactly the last CooldownSize ports handed out: no port
\* cools for longer, whatever the wrap of the ring index.
RingIsRecent == \A p \in Ports : Cooling(ring, p) <=> age[p] # 0

\* A call that gives up has tried as many different ports as it has probes,
\* or the whole of its range when that is smaller, unless the u32 cursor wrapped
\* during the call.
ProbesAreDistinct ==
    call.pc = "exhausted" /\ ~ call.wrapped =>
        Cardinality(call.tried) = 
            IF Probes < Span(call.range) THEN Probes ELSE Span(call.range)

Available(e, p) == <<e, p>> \notin nat /\ ~ Cooling(ring, p)

\* The cursor survives a failed call: when from some time on all calls are
\* for one external address and under one range, none of the range's ports
\* stays available for ever while calls keep being made.  (A failed call
\* resumes where it stopped, so every port is reached, however few probes a
\* call has, and whatever range the cursor comes from.)
NoPortStarves ==
    \A r \in Ranges, e \in Externals : \A p \in PortsOf(r) :
        (<>[](call.range = r /\ call.ext = e) /\ []<>(call.pc = "probing"))
            => []<>~ Available(e, p)

\* A range with one port more than the ring has slots is enough: when from
\* some time on all calls are for an address that holds none of its ports,
\* and calls keep being made, ports keep being handed out.  With no more ports
\* than slots the calls end for ever once all of them cool (the ring is
\* written only by calls that succeed); validate accepts such ranges.
RoomyRangeServes ==
    \A r \in Ranges, e \in Externals :
        Span(r) > CooldownSize =>
            ((/\ <>[](/\ call.range = r /\ call.ext = e
                     /\ nat \cap ({e} \X PortsOf(r)) = {})
              /\ []<>(call.pc = "probing"))
                => []<>(call.pc = "taken"))
=============================================================================
