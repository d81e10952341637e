----------------------------- MODULE Lifecycle -----------------------------
(***************************************************************************)
(* One Nat64 handle and the instance it owns in the kernel: load, build,   *)
(* configure, attach and drop (natto64/src/lib.rs, builder.rs), with the   *)
(* packets and timers that run as soon as a classifier is linked, and      *)
(* interfaces that are deleted and created again under the same name.      *)
(*                                                                         *)
(* attach is a sequence of calls, each of which may fail and end it        *)
(* there.  Nothing it did is undone: only dropping the handle does that.   *)
(* The forward classifier is linked to the bridge and the reverse one to   *)
(* the uplink, so a program also names an interface argument.              *)
(***************************************************************************)
EXTENDS Naturals, Sequences, FiniteSets, Functions

CONSTANTS
    Interfaces,    \* names under /sys/class/net
    Pairs,         \* arguments of attach: an interface name per program
    Policies,      \* <<v4_pool, port_min, port_max, session_timeout>>, valid or not
    DefaultSource, \* DEFAULT_V4_SRC
    Addresses,     \* IPv4 addresses
    Flows,         \* forward flows
    Hash,          \* hash of a flow's client address
    PoolMax,       \* V4_POOL_MAX
    NanosPerSec,   \* subsecond parts of a Duration
    SecsMax,       \* u32::MAX
    MaxIndex       \* bound: interfaces created

Programs == {"fwd", "rev"}            \* nat64_forward, nat64_reverse
Unset == 0                            \* no address in a pool slot, no interface

\* session_timeout: none, or the seconds and nanoseconds of a Duration.
Durations == {<<>>} \cup (Nat \X (0 .. NanosPerSec - 1))

ASSUME LifecycleAssumption ==
    /\ Pairs \subseteq [Programs -> Interfaces]
    /\ Unset \notin Addresses
    /\ \A q \in Policies :
         q \in Seq(Addresses) \X Nat \X Nat \X Durations
    /\ DefaultSource \in Addresses
    /\ Hash \in [Flows -> Nat]
    /\ PoolMax \in Nat \ {0}
    /\ NanosPerSec \in Nat \ {0}
    /\ SecsMax \in Nat \ {0}
    /\ IsFiniteSet(Interfaces)
    /\ MaxIndex \in Nat /\ Cardinality(Interfaces) =< MaxIndex

VARIABLES
    handle,      \* the caller's Nat64: config and attached
    call,        \* the attach or drop that is running, and the last one's names
    config,      \* the CONFIG map of the instance
    programs,    \* per program: loaded, and the interface index it is linked to
    sessions,    \* FWD_NAT: per flow the external address and its timer
    run,         \* the configuration a forward run has read, if one is running
    net,         \* interface indices by name
    created,     \* interfaces created so far
    moved        \* interface arguments replaced since attach read their index

vars == <<handle, call, config, programs, sessions, run, net, created, moved>>

None == [none |-> TRUE]               \* no handle, policy, configuration...

-----------------------------------------------------------------------------
(* Nat64Config and what attach makes of it.                                *)

PolicyOf(q) == [pool |-> q[1], min |-> q[2], max |-> q[3], timeout |-> q[4]]

Valid(policy) ==
    /\ Len(policy.pool) \in 1 .. PoolMax
    /\ policy.min # 0 /\ policy.min =< policy.max
    /\ policy.timeout # <<0, 0>>

\* The part of a second cut off.
WholeSecondsDown(timeout) ==
    IF timeout = <<>> THEN 0
    ELSE IF timeout[1] < SecsMax THEN timeout[1] ELSE SecsMax
WholeSeconds(timeout) ==
    IF timeout = <<>> THEN 0
    ELSE LET up == timeout[1] + (IF timeout[2] # 0 THEN 1 ELSE 0)
         IN  IF up < SecsMax THEN up ELSE SecsMax       \* min(u32::MAX)

DataplaneConfig(policy, index) ==
    [pool |-> [i \in 1 .. PoolMax |->
                 IF i \in DOMAIN policy.pool THEN policy.pool[i] ELSE Unset],
     len |-> Len(policy.pool),
     bridge |-> index["fwd"], uplink |-> index["rev"],
     min |-> policy.min, max |-> policy.max,
     secs |-> WholeSeconds(policy.timeout)]

\* What a classifier goes by while CONFIG is empty.
DefaultConfig ==
    [pool |-> [i \in 1 .. PoolMax |-> IF i = 1 THEN DefaultSource ELSE Unset],
     len |-> 1, bridge |-> Unset, uplink |-> Unset,
     min |-> 20000, max |-> 60000, secs |-> 0]
Effective == IF config = None THEN DefaultConfig ELSE config

PoolOf(cfg) == {cfg.pool[i] : i \in 1 .. cfg.len}          \* v4_in_pool

\* The hash reduced to the size of the array instead of the pool.
SelectedAnySlot(cfg, f) == cfg.pool[(Hash[f] % PoolMax) + 1]
SelectedOf(cfg, f) == cfg.pool[(Hash[f] % cfg.len) + 1]    \* select_v4_from_pool_ebpf

-----------------------------------------------------------------------------
(* State.                                                                  *)

Indices == 0 .. MaxIndex
Fresh == [config |-> None, attached |-> FALSE]
NoIndex == [p \in Programs |-> Unset]
NoCall == [phase |-> "none", at |-> 1, names |-> [p \in Programs |-> None],
           index |-> NoIndex, builder |-> FALSE]
Dropping == [NoCall EXCEPT !.phase = "drop"]

\* The configuration written when the programs are linked.
StepsConfigLast ==
    <<<<"index", "fwd">>, <<"index", "rev">>,
      <<"clsact", "fwd">>, <<"clsact", "rev">>,
      <<"load", "fwd">>, <<"link", "fwd">>,
      <<"load", "rev">>, <<"link", "rev">>, <<"config">>, <<"ok">>>>
\* The calls of attach, in order.
Steps == <<<<"index", "fwd">>, <<"index", "rev">>, <<"config">>,
           <<"clsact", "fwd">>, <<"clsact", "rev">>,
           <<"load", "fwd">>, <<"link", "fwd">>,
           <<"load", "rev">>, <<"link", "rev">>, <<"ok">>>>

Configs ==
    [pool : [1 .. PoolMax -> Addresses \cup {Unset}], len : 1 .. PoolMax,
     bridge : Indices, uplink : Indices, min : Nat, max : Nat, secs : 0 .. SecsMax]
CallRecords ==
    [phase : {"none", "attach", "drop"}, at : 1 .. Len(Steps),
     names : [Programs -> Interfaces \cup {None}],
     index : [Programs -> Indices], builder : BOOLEAN]

TypeOK ==
    /\ handle \in [config : {PolicyOf(q) : q \in Policies} \cup {None},
                   attached : BOOLEAN] \cup {None}
    /\ call \in CallRecords
    /\ config \in Configs \cup {None}
    /\ programs \in [Programs -> [loaded : BOOLEAN, at : Indices]]
    /\ sessions \in [Flows -> [ext : Addresses, timed : BOOLEAN] \cup {None}]
    /\ run \in Configs \cup {None}
    /\ net \in [Interfaces -> Indices]
    /\ created \in Indices
    /\ moved \in SUBSET Programs

Init ==
    /\ handle = None
    /\ call = NoCall
    /\ config = None
    /\ programs = [p \in Programs |-> [loaded |-> FALSE, at |-> Unset]]
    /\ sessions = [f \in Flows |-> None]
    /\ run = None
    /\ net \in Injection(Interfaces, 1 .. Cardinality(Interfaces))
    /\ created = Cardinality(Interfaces)
    /\ moved = {}

dataplane == <<config, programs, sessions, run>>
interfaces == <<net, created>>

-----------------------------------------------------------------------------
(* The handle.  A call that returns an error without having changed        *)
(* anything is not an action.                                              *)

Ready == handle # None /\ call.phase = "none"
Calling(names, builder) ==
    [phase |-> "attach", at |-> 1, names |-> names, index |-> NoIndex,
     builder |-> builder]

Load ==
    /\ handle = None
    /\ handle' = Fresh
    /\ UNCHANGED <<call, dataplane, interfaces, moved>>

\* An attached instance taken for no error.
ConfigureAnytime(q) ==
    /\ Ready
    /\ Valid(PolicyOf(q))
    /\ handle' = [handle EXCEPT !.config = PolicyOf(q)]
    /\ UNCHANGED <<call, dataplane, interfaces, moved>>

Configure(q) ==
    /\ Ready /\ ~handle.attached
    /\ Valid(PolicyOf(q))
    /\ handle' = [handle EXCEPT !.config = PolicyOf(q)]
    /\ UNCHANGED <<call, dataplane, interfaces, moved>>

Attach(names) ==
    /\ Ready /\ ~handle.attached /\ handle.config # None
    /\ call' = Calling(names, FALSE)
    /\ UNCHANGED <<handle, dataplane, interfaces, moved>>

\* Nat64Builder::attach; build alone is Load and Configure, and a builder whose
\* policy is refused drops what it loaded.
BuilderAttach(q, names) ==
    /\ handle = None
    /\ Valid(PolicyOf(q))
    /\ handle' = [Fresh EXCEPT !.config = PolicyOf(q)]
    /\ call' = Calling(names, TRUE)
    /\ UNCHANGED <<dataplane, interfaces, moved>>

-----------------------------------------------------------------------------
(* The calls attach makes.                                                 *)

At(step) == call.phase = "attach" /\ Steps[call.at] = step
There(p) == net[call.names[p]] # Unset
Proceed == call' = [call EXCEPT !.at = @ + 1]

ReadIndex(p) ==
    /\ At(<<"index", p>>) /\ There(p)
    /\ call' = [call EXCEPT !.at = @ + 1, !.index[p] = net[call.names[p]]]
    /\ moved' = moved \ {p}
    /\ UNCHANGED <<handle, dataplane, interfaces>>

WriteConfig ==
    /\ At(<<"config">>)
    /\ config' = DataplaneConfig(handle.config, call.index)
    /\ Proceed
    /\ UNCHANGED <<handle, programs, sessions, run, interfaces, moved>>

EnsureClsact(p) ==
    /\ At(<<"clsact", p>>) /\ There(p)
    /\ Proceed
    /\ UNCHANGED <<handle, dataplane, interfaces, moved>>

\* AlreadyLoaded taken for no error, as ensure_clsact takes AlreadyAttached.
LoadableAgain(p) == TRUE

\* aya refuses to load a program a second time (AlreadyLoaded).
Loadable(p) == ~programs[p].loaded

LoadProgram(p) ==
    /\ At(<<"load", p>>) /\ Loadable(p)
    /\ programs' = [programs EXCEPT ![p].loaded = TRUE]
    /\ Proceed
    /\ UNCHANGED <<handle, config, sessions, run, interfaces, moved>>

LinkProgram(p) ==
    /\ At(<<"link", p>>) /\ There(p)
    /\ programs' = [programs EXCEPT ![p].at = net[call.names[p]]]
    /\ Proceed
    /\ UNCHANGED <<handle, config, sessions, run, interfaces, moved>>

Succeed ==
    /\ At(<<"ok">>)
    /\ handle' = [handle EXCEPT !.attached = TRUE]
    /\ call' = [NoCall EXCEPT !.names = call.names]
    /\ UNCHANGED <<dataplane, interfaces, moved>>

\* Any of the calls returns an error.  The builder lets go of its Nat64; a
\* caller of Nat64::attach keeps it as it is.
Fail ==
    /\ call.phase = "attach" /\ ~At(<<"ok">>)
    /\ call' = IF call.builder THEN Dropping ELSE NoCall
    /\ moved' = {}
    /\ UNCHANGED <<handle, dataplane, interfaces>>

-----------------------------------------------------------------------------
(* Dropping the handle.                                                    *)

Drop ==
    /\ Ready
    /\ call' = Dropping
    /\ moved' = {}
    /\ UNCHANGED <<handle, dataplane, interfaces>>

Unload(p) ==
    /\ call.phase = "drop" /\ programs[p].loaded
    /\ programs' = [programs EXCEPT ![p] = [loaded |-> FALSE, at |-> Unset]]
    /\ UNCHANGED <<handle, call, config, sessions, run, interfaces, moved>>

\* The maps, and with them the sessions and their timers, go when the last run
\* that may use them has ended.
Free ==
    /\ call.phase = "drop" /\ run = None
    /\ \A p \in Programs : ~programs[p].loaded
    /\ handle' = None
    /\ call' = NoCall
    /\ config' = None
    /\ sessions' = [f \in Flows |-> None]
    /\ UNCHANGED <<programs, run, interfaces, moved>>

-----------------------------------------------------------------------------
(* The instance at work.                                                   *)

\* try_nat64_forward reads CONFIG once for all of the packet.
Receive ==
    /\ run = None /\ programs["fwd"].at # Unset
    /\ run' = Effective
    /\ UNCHANGED <<handle, call, config, programs, sessions, interfaces, moved>>

\* The packet's flow has no mapping and gets one, with a timer if the
\* configuration of this run has a timeout.
Map(f) ==
    /\ run # None /\ sessions[f] = None
    /\ sessions' = [sessions EXCEPT ![f] = [ext |-> SelectedOf(run, f),
                                            timed |-> run.secs # 0]]
    /\ run' = None
    /\ UNCHANGED <<handle, call, config, programs, interfaces, moved>>

\* The packet is not translated, or has a mapping.
Pass ==
    /\ run # None
    /\ run' = None
    /\ UNCHANGED <<handle, call, config, programs, sessions, interfaces, moved>>

\* A callback under a configuration without a timeout returns and does not start
\* its timer again; else the session is found idle (or looked at again later).
Fire(f) ==
    /\ sessions[f] # None /\ sessions[f].timed
    /\ sessions' = [sessions EXCEPT ![f] =
                      IF Effective.secs = 0 THEN [@ EXCEPT !.timed = FALSE]
                      ELSE None]
    /\ UNCHANGED <<handle, call, config, programs, run, interfaces, moved>>

-----------------------------------------------------------------------------
(* Interfaces.  A classifier goes with the interface it is linked to.      *)

Delete(i) ==
    /\ net[i] # Unset
    /\ net' = [net EXCEPT ![i] = Unset]
    /\ programs' = [p \in Programs |->
                      IF programs[p].at = net[i]
                        THEN [programs[p] EXCEPT !.at = Unset] ELSE programs[p]]
    /\ moved' = moved \cup {p \in Programs : call.names[p] = i}
    /\ UNCHANGED <<handle, call, config, sessions, run, created>>

Create(i) ==
    /\ net[i] = Unset /\ created < MaxIndex
    /\ created' = created + 1
    /\ net' = [net EXCEPT ![i] = created + 1]
    /\ UNCHANGED <<handle, call, dataplane, moved>>

-----------------------------------------------------------------------------

Next ==
    \/ Load
    \/ \E q \in Policies : Configure(q)
    \/ \E names \in Pairs : Attach(names)
    \/ \E q \in Policies, names \in Pairs : BuilderAttach(q, names)
    \/ \E p \in Programs : \/ ReadIndex(p)
                           \/ EnsureClsact(p)
                           \/ LoadProgram(p)
                           \/ LinkProgram(p)
                           \/ Unload(p)
    \/ WriteConfig
    \/ Succeed
    \/ Fail
    \/ Drop
    \/ Free
    \/ Receive
    \/ \E f \in Flows : Map(f) \/ Fire(f)
    \/ Pass
    \/ \E i \in Interfaces : Delete(i) \/ Create(i)

Spec == Init /\ [][Next]_vars

-----------------------------------------------------------------------------
(* Properties.                                                             *)

Attached == handle # None /\ handle.attached /\ call.phase # "drop"

\* No packet is translated by the built-in configuration, whose source address
\* is a documentation address, nor by one validate refuses: whichever call of
\* attach fails, and however often it is repeated, CONFIG is written before the
\* first classifier is linked.  The allocator and the pool selection divide by
\* what this guarantees to be positive.
RunsUnderAcceptedPolicy ==
    run # None =>
      \E q \in Policies :
        /\ q[1] # <<>> /\ Len(q[1]) =< PoolMax
        /\ 1 =< q[2] /\ q[2] =< q[3]
        /\ q[4] # <<0, 0>>
        /\ \E index \in [Programs -> Indices \ {Unset}] :
             run = DataplaneConfig(PolicyOf(q), index)

\* An attached instance translates both ways by the policy its handle shows, and
\* each classifier redirects to the interface the other one is linked to, unless
\* an interface was replaced since attach read its index.
AttachedTranslatesBothWays ==
    Attached /\ moved = {} =>
      /\ config = DataplaneConfig(handle.config,
                                  [p \in Programs |-> net[call.names[p]]])
      /\ programs["fwd"].at = config.bridge
      /\ programs["rev"].at = config.uplink
      /\ Unset \notin {config.bridge, config.uplink}

\* What a failed attach began does not reach into a later, successful one: every
\* session of an attached instance has an external address the reverse
\* classifier admits, and a timer exactly if the policy has a timeout.  It holds
\* although CONFIG is overwritten under a linked forward classifier, because an
\* instance whose forward program was loaded once never becomes attached.
SessionsFollowPolicy ==
    Attached => \A f \in Flows : sessions[f] # None =>
      /\ sessions[f].ext \in PoolOf(config)
      /\ sessions[f].timed <=> config.secs # 0

\* A timeout the caller asked for is not lost on the way to the u32 of whole
\* seconds where zero means none, and is not shortened below what fits there.
TimeoutKept ==
    Attached =>
      LET asked == handle.config.timeout IN
      /\ config.secs = 0 <=> asked = <<>>
      /\ asked # <<>> =>
           \/ config.secs = SecsMax
           \/ config.secs * NanosPerSec >= asked[1] * NanosPerSec + asked[2]

=============================================================================
