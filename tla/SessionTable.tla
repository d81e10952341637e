---------------------------- MODULE SessionTable ----------------------------
(***************************************************************************)
(* The translation state of a dataplane and everything that writes it:     *)
(* the forward classifier (lookup_or_create_mapping and the NAT insert     *)
(* after it), the reverse classifier's refresh, session_timer_callback and *)
(* the LRU eviction of the two maps (natto64-ebpf/src/lib.rs).             *)
(*                                                                         *)
(* A classifier or callback runs on a CPU from its start to its end; runs  *)
(* on different CPUs interleave between any two visits to the shared maps, *)
(* which take no lock.  A visit is what a run does to one element through  *)
(* the pointer it has: the reads and writes of a visit are one step.  A    *)
(* visit to an element removed meanwhile is lost on it, as if it had come  *)
(* before the removal; that the memory of such an element is another's by  *)
(* then is modelled for the callback, which is away from its element for   *)
(* long, and not for a classifier between a lookup and the stamp after it. *)
(* Header rewriting is in Classifiers; alloc_port's cursor and ring are in *)
(* PortAllocator, and here it returns some port whose NAT key was free at  *)
(* its last probe, or gives up.                                            *)
(*                                                                         *)
(* FWD_NAT elements are told apart by their generation.  Generations are   *)
(* taken to be fresh: a repeat of the 32-bit random number while the other *)
(* holder is alive is not modelled.                                        *)
(***************************************************************************)
EXTENDS Naturals

CONSTANTS
    Cpus,
    Flows,          \* FwdNatKey: client, client port, remote, protocol
    Externals,      \* (ext_v4, proto) pairs of the pool
    Remotes,        \* (remote_v4, remote_port)
    Ports,
    ExternalOf,     \* the pool address select_v4_from_pool_ebpf hashes a flow to
    RemoteOf,       \* the remote of a flow's key
    Timeout,        \* session_timeout_secs in ticks, 0 disables expiration
    Confirm,        \* EXPIRY_CONFIRMATION_NS in ticks
    RunTicks,       \* the most ticks the clock advances during one run
    FireTicks,      \* the most ticks a timer fires after its deadline
    Evictions,      \* whether the LRU maps are full
    Failures,       \* whether map updates, timer and skb helpers may fail
    MaxTime,        \* bound: the clock stops here
    PacketsUntil,   \* bound: no packet arrives after this time
    MaxGen          \* bound: sessions created

ASSUME ParametersAssumption ==
    /\ ExternalOf \in [Flows -> Externals]
    /\ RemoteOf \in [Flows -> Remotes]
    /\ Ports # {}
    /\ Timeout \in Nat
    /\ Confirm \in Nat \ {0}
    /\ RunTicks \in Nat
    /\ FireTicks \in Nat
    /\ Evictions \in BOOLEAN
    /\ Failures \in BOOLEAN
    /\ MaxTime \in Nat \ {0}
    /\ PacketsUntil \in Nat
    /\ MaxGen \in Nat

VARIABLES
    now,       \* CLOCK_MONOTONIC; starts at 1, so that 0 means "never"
    fwd,       \* FWD_NAT: flow -> TimedFwdNatVal
    nat,       \* NAT: external tuple -> NatVal
    cpu,       \* what each CPU is running and the locals of that run
    gens       \* generations drawn so far

vars == <<now, fwd, nat, cpu, gens>>

Time == 0 .. MaxTime
Gens == 1 .. MaxGen
Tuples == Externals \X Ports
None == [gen |-> 0]                     \* no map entry

\* timer is the bpf_timer of the element: not initialised, started, or fired
\* and not started again; due is when a started one fires.
Cells == [gen : Gens, port : Ports, seen : Time, observed : Time,
          timer : {"unarmed", "started", "fired"},
          due : 0 .. MaxTime + Timeout + Confirm]
Reverses == [gen : Gens, flow : Flows, seen : Time]

\* seen: the stamp the callback read last of its element; latest: the later
\* of that and the reverse entry's; owns: whether the reverse entry it
\* copied has its generation.
Pcs == {"lookup", "alloc", "insert", "arm", "disarm", "publish",
        "look", "lookback", "judge", "recheck", "recheckback", "reprieve",
        "dropnat", "dropfwd"}
Runs == [pc : Pcs,
         flow : Flows, port : Ports, gen : 0 .. MaxGen, now : Time,
         seen : Time, latest : Time, owns : BOOLEAN]
Idle == [pc |-> "idle"]
Unmapped == {"lookup", "alloc"}         \* runs that have no mapping yet

TypeOK ==
    /\ now \in Time
    /\ fwd \in [Flows -> Cells \cup {None}]
    /\ nat \in [Tuples -> Reverses \cup {None}]
    /\ cpu \in [Cpus -> Runs \cup {Idle}]
    /\ \A c \in Cpus :
         cpu[c] # Idle /\ cpu[c].pc \notin Unmapped => cpu[c].gen \in Gens
    /\ gens \in 0 .. MaxGen

Init ==
    /\ now = 1
    /\ fwd = [f \in Flows |-> None]
    /\ nat = [t \in Tuples |-> None]
    /\ cpu = [c \in Cpus |-> Idle]
    /\ gens = 0

Busy(c) == cpu[c] # Idle
At(c, pc) == cpu[c].pc = pc
Held(c) == <<ExternalOf[cpu[c].flow], cpu[c].port>>  \* nat_key of this run
TupleOf(f) == <<ExternalOf[f], fwd[f].port>>

Minus(a, b) == IF a > b THEN a - b ELSE 0            \* saturating_sub
Later(a, b) == IF a > b THEN a ELSE b

Goto(c, pc) == cpu' = [cpu EXCEPT ![c].pc = pc]
Finish(c) == cpu' = [cpu EXCEPT ![c] = Idle]

-----------------------------------------------------------------------------
(* The forward classifier.                                                 *)

\* A packet of flow f reaches the classifier, which reads the clock before
\* it looks the mapping up.  The port is a placeholder until then.
Begin(c, f) ==
    /\ ~ Busy(c)
    /\ now =< PacketsUntil
    /\ cpu' = [cpu EXCEPT ![c] =
                 [pc |-> "lookup", flow |-> f, port |-> CHOOSE p \in Ports : TRUE,
                  gen |-> 0, now |-> now, seen |-> 0, latest |-> 0,
                  owns |-> FALSE]]
    /\ UNCHANGED <<now, fwd, nat, gens>>

\* A hit that takes the port and leaves the generation behind.
HitPortOnly(c) ==
    /\ At(c, "lookup")
    /\ LET f == cpu[c].flow IN
         /\ fwd[f] # None
         /\ fwd' = [fwd EXCEPT ![f].seen = cpu[c].now, ![f].observed = 0]
         /\ cpu' = [cpu EXCEPT ![c].pc = "publish", ![c].port = fwd[f].port]
    /\ UNCHANGED <<now, nat, gens>>

\* A hit stamps the element through its pointer and takes its mapping.
Hit(c) ==
    /\ At(c, "lookup")
    /\ LET f == cpu[c].flow IN
         /\ fwd[f] # None
         /\ fwd' = [fwd EXCEPT ![f].seen = cpu[c].now, ![f].observed = 0]
         /\ cpu' = [cpu EXCEPT ![c].pc = "publish", ![c].port = fwd[f].port,
                               ![c].gen = fwd[f].gen]
    /\ UNCHANGED <<now, nat, gens>>

\* A lookup that takes a mapping idle for the timeout for an absent one.
MissWhenIdle(c) ==
    /\ At(c, "lookup")
    /\ LET cell == fwd[cpu[c].flow] IN
         cell # None => Minus(cpu[c].now, cell.seen) >= Timeout
    /\ Goto(c, "alloc")
    /\ UNCHANGED <<now, fwd, nat, gens>>

Miss(c) ==
    /\ At(c, "lookup")
    /\ fwd[cpu[c].flow] = None
    /\ Goto(c, "alloc")
    /\ UNCHANGED <<now, fwd, nat, gens>>

\* An allocator that does not probe NAT.
AllocatableUnchecked(t) == TRUE

\* alloc_port probes NAT only.
Allocatable(t) == nat[t] = None

\* alloc_port returns p; then the generation is drawn.
Alloc(c, p) ==
    /\ At(c, "alloc")
    /\ Allocatable(<<ExternalOf[cpu[c].flow], p>>)
    /\ gens < MaxGen
    /\ gens' = gens + 1
    /\ cpu' = [cpu EXCEPT ![c].pc = "insert", ![c].port = p, ![c].gen = gens']
    /\ UNCHANGED <<now, fwd, nat>>

\* alloc_port spends its probes on cooling or taken ports.
AllocFails(c) ==
    /\ At(c, "alloc")
    /\ Finish(c)
    /\ UNCHANGED <<now, fwd, nat, gens>>

\* An insert that does not arm a timer.
AfterInsertUntimed == "publish"

AfterInsert == IF Timeout # 0 THEN "arm" ELSE "publish"

\* FWD_NAT.insert(key, value, 0): a fresh element, in place of the one that
\* another CPU may have inserted since the lookup, whose timer goes with it.
Insert(c) ==
    /\ At(c, "insert")
    /\ fwd' = [fwd EXCEPT ![cpu[c].flow] =
                 [gen |-> cpu[c].gen, port |-> cpu[c].port, seen |-> cpu[c].now,
                  observed |-> 0, timer |-> "unarmed", due |-> 0]]
    /\ Goto(c, AfterInsert)
    /\ UNCHANGED <<now, nat, gens>>

InsertFails(c) ==
    /\ Failures
    /\ At(c, "insert")
    /\ Finish(c)
    /\ UNCHANGED <<now, fwd, nat, gens>>

\* arm_session_timer looks the element up again: bpf_timer_init succeeds on
\* an element whose timer nobody initialised.
Armable(f) == fwd[f] # None /\ fwd[f].timer = "unarmed"

Arm(c) ==
    /\ At(c, "arm")
    /\ Armable(cpu[c].flow)
    /\ fwd' = [fwd EXCEPT ![cpu[c].flow].timer = "started",
                          ![cpu[c].flow].due = now + Timeout]
    /\ Goto(c, "publish")
    /\ UNCHANGED <<now, nat, gens>>

\* The element is gone, or its timer is another CPU's (EBUSY), or a timer
\* helper failed.
ArmFails(c) ==
    /\ At(c, "arm")
    /\ Failures \/ ~ Armable(cpu[c].flow)
    /\ Goto(c, "disarm")
    /\ UNCHANGED <<now, fwd, nat, gens>>

\* A rollback that forgets to remove the mapping.
NotRemoved(f) == fwd

\* FWD_NAT.remove(key): whatever element the key has now, timer and all.
Removed(f) == [fwd EXCEPT ![f] = None]

Disarm(c) ==
    /\ At(c, "disarm")
    /\ fwd' = Removed(cpu[c].flow)
    /\ Finish(c)
    /\ UNCHANGED <<now, nat, gens>>

\* NAT.insert(key, value, 0): in place of any entry the tuple has.
Publish(c) ==
    /\ At(c, "publish")
    /\ nat' = [nat EXCEPT ![Held(c)] =
                 [gen |-> cpu[c].gen, flow |-> cpu[c].flow, seen |-> cpu[c].now]]
    /\ Finish(c)
    /\ UNCHANGED <<now, fwd, gens>>

\* A rewrite helper fails before the insert, or the insert itself: the
\* forward mapping stays.
PublishFails(c) ==
    /\ Failures
    /\ At(c, "publish")
    /\ Finish(c)
    /\ UNCHANGED <<now, fwd, nat, gens>>

-----------------------------------------------------------------------------
(* The reverse classifier: a reply from remote r to tuple t.  Only a match *)
(* of the whole tuple changes state.  The copy of the entry and the stamp   *)
(* through its pointer are one step: a stamp on an entry removed in between *)
(* is lost, as if the reply had come before the removal.                    *)

Reply(c, t, r) ==
    /\ ~ Busy(c)
    /\ now =< PacketsUntil
    /\ nat[t] # None
    /\ RemoteOf[nat[t].flow] = r                \* nat_tuple_matches
    /\ nat' = [nat EXCEPT ![t].seen = now]
    /\ UNCHANGED <<now, fwd, cpu, gens>>

-----------------------------------------------------------------------------
(* session_timer_callback.                                                 *)

\* The timer of f's element fires on an idle CPU; the callback copies the
\* key, the generation and the reverse key, and reads the clock.
Fire(c, f) ==
    /\ ~ Busy(c)
    /\ fwd[f] # None
    /\ fwd[f].timer = "started"
    /\ fwd[f].due =< now
    /\ fwd' = [fwd EXCEPT ![f].timer = "fired"]
    /\ cpu' = [cpu EXCEPT ![c] =
                 [pc |-> "look", flow |-> f, port |-> fwd[f].port,
                  gen |-> fwd[f].gen, now |-> now, seen |-> 0,
                  latest |-> 0, owns |-> FALSE]]
    /\ UNCHANGED <<now, nat, gens>>

\* The element is still the one the callback was called for.
Attached(c) == fwd[cpu[c].flow].gen = cpu[c].gen

\* What reading last_seen_ns and observed_last_seen_ns through the value
\* pointer returns.  The memory of a removed element keeps what it had, or
\* already belongs to another one.
SeenThrough(c) == IF Attached(c) THEN {fwd[cpu[c].flow].seen} ELSE 0 .. now
ObservedBy(c) == IF Attached(c) THEN {fwd[cpu[c].flow].observed} ELSE 0 .. now

\* The reads of last_seen_ns, for the first verdict and for the second.
See(c) ==
    /\ cpu[c].pc \in {"look", "recheck"}
    /\ \E s \in SeenThrough(c) :
         cpu' = [cpu EXCEPT ![c].seen = s,
                            ![c].pc = IF At(c, "look") THEN "lookback"
                                                       ELSE "recheckback"]
    /\ UNCHANGED <<now, fwd, nat, gens>>

\* A callback that never looks at the reverse entry.
NoReverseSeen(c) == 0

\* The reverse entry counts when it has the callback's generation.
ReverseSeen(c) ==
    IF nat[Held(c)].gen = cpu[c].gen THEN nat[Held(c)].seen ELSE 0

\* The first NAT.get.
SeeReverse(c) ==
    /\ At(c, "lookback")
    /\ cpu' = [cpu EXCEPT ![c].pc = "judge",
                          ![c].latest = Later(cpu[c].seen, ReverseSeen(c))]
    /\ UNCHANGED <<now, fwd, nat, gens>>

\* Time since the last stamp the callback has read, by its clock.
Elapsed(c) == Minus(cpu[c].now, cpu[c].latest)

\* Write observed_last_seen_ns and start the timer again; both are lost on
\* an element that is no longer in the map.  (The floor of one nanosecond
\* on the delay is below a tick.)
Rearm(c, observed, delay) ==
    /\ fwd' = IF Attached(c)
                THEN [fwd EXCEPT ![cpu[c].flow].observed = observed,
                                 ![cpu[c].flow].timer = "started",
                                 ![cpu[c].flow].due = now + delay]
                ELSE fwd
    /\ Finish(c)
    /\ UNCHANGED <<now, nat, gens>>

\* Not idle for long enough: come back when it would be.
StillUsed(c) ==
    /\ At(c, "judge")
    /\ Elapsed(c) < Timeout
    /\ Rearm(c, 0, Timeout - Elapsed(c))

\* The second look must find the stamp the first one recorded.
Unconfirmed(o, latest) == o # latest

\* Idle for the first time: record the stamp and look again.
FirstLook(c) ==
    /\ At(c, "judge")
    /\ Elapsed(c) >= Timeout
    /\ \E o \in ObservedBy(c) : Unconfirmed(o, cpu[c].latest)
    /\ Rearm(c, cpu[c].latest, Confirm)

\* Idle, and nothing happened since the stamp was recorded.
SecondLook(c) ==
    /\ At(c, "judge")
    /\ Elapsed(c) >= Timeout
    /\ \E o \in ObservedBy(c) : ~ Unconfirmed(o, cpu[c].latest)
    /\ Goto(c, "recheck")
    /\ UNCHANGED <<now, fwd, nat, gens>>

\* The second NAT.get, a copy: the stamps are those of the first verdict,
\* and still old enough.
Confirmed(c, final) ==
    /\ final = cpu[c].latest
    /\ Minus(cpu[c].now, final) >= Timeout

Condemn(c) ==
    /\ At(c, "recheckback")
    /\ Confirmed(c, Later(cpu[c].seen, ReverseSeen(c)))
    /\ cpu' = [cpu EXCEPT ![c].pc = "dropnat",
                          ![c].owns = (nat[Held(c)].gen = cpu[c].gen)]
    /\ UNCHANGED <<now, fwd, nat, gens>>

\* It finds a packet after all, ...
Doubt(c) ==
    /\ At(c, "recheckback")
    /\ LET final == Later(cpu[c].seen, ReverseSeen(c)) IN
         /\ ~ Confirmed(c, final)
         /\ cpu' = [cpu EXCEPT ![c].pc = "reprieve", ![c].latest = final]
    /\ UNCHANGED <<now, fwd, nat, gens>>

\* ... and starts the timer again for what is left of the timeout.
Reprieve(c) ==
    /\ At(c, "reprieve")
    /\ Rearm(c, 0, Minus(Timeout, Elapsed(c)))

\* NAT.remove(&reverse_key), if the entry copied above had this generation.
DropNat(c) ==
    /\ At(c, "dropnat")
    /\ nat' = IF cpu[c].owns THEN [nat EXCEPT ![Held(c)] = None] ELSE nat
    /\ Goto(c, "dropfwd")
    /\ UNCHANGED <<now, fwd, gens>>

\* FWD_NAT.remove(&key_copy).
DropFwd(c) ==
    /\ At(c, "dropfwd")
    /\ fwd' = Removed(cpu[c].flow)
    /\ Finish(c)
    /\ UNCHANGED <<now, nat, gens>>

-----------------------------------------------------------------------------
(* The environment.                                                        *)

\* An insert elsewhere evicts the element, and cancels its timer.
EvictFwd(f) ==
    /\ Evictions
    /\ fwd[f] # None
    /\ fwd' = Removed(f)
    /\ UNCHANGED <<now, nat, cpu, gens>>

EvictNat(t) ==
    /\ Evictions
    /\ nat[t] # None
    /\ nat' = [nat EXCEPT ![t] = None]
    /\ UNCHANGED <<now, fwd, cpu, gens>>

\* Time passes.  Runs and timers are prompt to within their bounds.
Tick ==
    /\ now < MaxTime
    /\ \A c \in Cpus : Busy(c) => now < cpu[c].now + RunTicks
    /\ \A f \in Flows :
         fwd[f] # None /\ fwd[f].timer = "started"
           => now < fwd[f].due + FireTicks
    /\ now' = now + 1
    /\ UNCHANGED <<fwd, nat, cpu, gens>>

-----------------------------------------------------------------------------

\* A step of the run in progress on c.
Forward(c) ==
    \/ Hit(c) \/ Miss(c)
    \/ \E p \in Ports : Alloc(c, p)
    \/ AllocFails(c)
    \/ Insert(c) \/ InsertFails(c)
    \/ Arm(c) \/ ArmFails(c) \/ Disarm(c)
    \/ Publish(c) \/ PublishFails(c)

Callback(c) ==
    \/ See(c) \/ SeeReverse(c)
    \/ StillUsed(c) \/ FirstLook(c) \/ SecondLook(c)
    \/ Condemn(c) \/ Doubt(c) \/ Reprieve(c)
    \/ DropNat(c) \/ DropFwd(c)

Next ==
    \/ \E c \in Cpus :
         \/ Forward(c)
         \/ Callback(c)
         \/ \E f \in Flows : Begin(c, f) \/ Fire(c, f)
         \/ \E t \in Tuples, r \in Remotes : Reply(c, t, r)
    \/ \E f \in Flows : EvictFwd(f)
    \/ \E t \in Tuples : EvictNat(t)
    \/ Tick

Spec == Init /\ [][Next]_vars

\* Runs end, due timers fire and time passes: the kernel runs a classifier
\* and a timer callback to completion and its clock does not stop.
FairSpec ==
    /\ Spec
    /\ \A c \in Cpus : WF_vars(Forward(c) \/ Callback(c))
    /\ \A f \in Flows : WF_vars(\E c \in Cpus : Fire(c, f))
    /\ WF_vars(Tick)

-----------------------------------------------------------------------------
(* Properties.                                                             *)

Creating == {"arm", "disarm"}
Expiring == {"dropnat", "dropfwd"}
Looking == {"look", "lookback", "judge"}
Rechecking == {"recheck", "recheckback"}
CallbackPcs == Looking \cup Rechecking \cup {"reprieve"} \cup Expiring

Covered(f) ==
    CASE fwd[f].timer = "started" -> TRUE
      [] fwd[f].timer = "unarmed" ->
           \E c \in Cpus : cpu[c].pc \in Creating /\ cpu[c].flow = f
      [] fwd[f].timer = "fired" ->
           \E c \in Cpus : /\ cpu[c].pc \in CallbackPcs
                           /\ cpu[c].flow = f
                           /\ Attached(c)

\* With a timeout configured, no mapping of FWD_NAT is ever left without
\* something that will look at it again: its timer runs, its callback does,
\* or a classifier is still between inserting it and arming or removing it.
\* (lookup_or_create_mapping, arm_session_timer, every return of the
\* callback; two CPUs creating the same mapping included.)
TimersCoverSessions ==
    Timeout # 0 => \A f \in Flows : fwd[f] # None => Covered(f)

\* The last packet of a session, as far as its two entries tell.
LastUse(f) ==
    Later(fwd[f].seen,
          IF nat[TupleOf(f)].gen = fwd[f].gen THEN nat[TupleOf(f)].seen ELSE 0)

\* A callback that removes the session it was called for finds it idle for
\* the timeout and the confirmation interval on top, in both directions;
\* the one exception is a packet handled since the callback's last reads,
\* the race that its comment says is narrowed and not closed.
ExpiresOnlyIdle ==
    \A c \in Cpus :
        cpu[c].pc \in Expiring /\ Attached(c) =>
            LET idle == now - LastUse(cpu[c].flow) IN
                idle >= Timeout + Confirm \/ idle =< 2 * RunTicks

\* A callback does not remove another session that took over its flow key:
\* FWD_NAT.remove is by key alone.  (True while no element is evicted and a
\* run takes less than the timeout.)
RemovesOwnSession ==
    \A c \in Cpus :
        At(c, "dropfwd") /\ fwd[cpu[c].flow] # None => Attached(c)

\* Sessions end: once packets stop, every forward mapping is removed.  (The
\* premise leaves out infinitely many packets before that time.)
SessionsExpire ==
    <>(now > PacketsUntil) => <>[](\A f \in Flows : fwd[f] = None)

\* builder.rs: "the idle timeout enforced by per-session kernel BPF timers".
\* Once packets stop, no reverse entry goes on admitting replies either.
ReverseEntriesExpire ==
    <>(now > PacketsUntil) => <>[](\A t \in Tuples : nat[t] = None)
=============================================================================
