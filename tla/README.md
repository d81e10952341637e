# A verification development for natto64

natto64 is a stateful NAT64 translator. Two eBPF traffic-control classifiers
translate TCP and UDP between IPv6 clients behind a *bridge* and IPv4 servers
beyond an *uplink*; the state they share is in BPF maps, and kernel timers that
live in the map elements expire it. A small userspace library loads, configures
and attaches the object and reads counters.

This directory holds TLA+ models of that code, TLC configurations that check
them on small instances, and theorems that TLAPS proves for every instance. The
reference is always the source: `PROJECT.json` names, for every definition that
models code, the lines it stands for.

## The system

| Component | Source | State | Operations |
|---|---|---|---|
| Session table | `natto64-ebpf/src/lib.rs` 148–346, 579–602, 759–782, 933–957, 1078–1101 | `FWD_NAT` (flow to external tuple, generation, last packet, last observation, timer), `NAT` (external tuple to flow, generation, last packet) | `lookup_or_create_mapping`, `arm_session_timer`, the two `NAT` inserts, the reverse refresh, `session_timer_callback`; LRU eviction by the kernel |
| Port allocator | 1765–1980 | per CPU: a `u32` cursor, a ring of the last 64 ports; the range in `CONFIG` | `alloc_port`, `cooldown_contains`, `cooldown_push`; reconfiguration by `attach` |
| Forward classifier | 375–791, `ipv6.rs` | the packet; counters | parse, prefix test, pool selection, length test, `change_proto`, ether type, ports, mapping, header, port, checksum, `NAT` insert, redirect |
| Reverse classifier | 802–1206 | the packet; counters | parse, pool test, length test, ports, lookup and tuple test, refresh, `change_proto`, ether type, header, port, zero-checksum test, checksum, redirect |
| Header rewriting | 1264–1544, 2184–2202 | – | `write_ipv4_header`, `write_ipv6_header`, the two checksum deltas, `redirect_to_iface` |
| Lifecycle | `natto64/src/lib.rs`, `builder.rs` | configuration, attached or not; `CONFIG` | `load`, `configure`, `attach`, drop |
| Metrics | 2142–2172 of the classifiers, `natto64/src/metrics.rs`, `read_metrics`, `examples/opentelemetry-metrics` | per CPU 41 `u64` counters; the snapshot in a watch channel; what each instrument reported | counting, `read_metrics`, `aggregate_prod_counters`, poll, export, Ctrl-C |
| Translation library | `natto64-xlat` | – | checksums of IPv4 headers and of TCP and UDP segments, header builders |
| Diagnostics | 1982–2140 | debug counters and samples | `record_fwd_*`, `classify_fwd_dst` |

How they interact. The forward classifier and the reverse classifier run on any
CPU, one packet each, to completion; a timer callback runs on a CPU that is not
running either. Runs on different CPUs interleave at every access to a shared
map and take no lock. The forward classifier calls the allocator, which
reads `NAT` and writes only its own CPU's cursor and ring. The callback reads
and removes elements of both maps. Userspace writes `CONFIG` before it attaches
and reads the per-CPU counters while they move.

What is hard about it:

* *Interleaving.* Two CPUs can miss the same flow and both insert it. A port is
  probed in `NAT` long before it is published there. A callback decides on
  copies and removes by key. A packet may refresh a session between the
  callback's reads and its removals.
* *Partial failure.* Every helper may fail after state was made or bytes were
  rewritten; the packet then goes on as it is.
* *Timers.* A timer that is not running is never looked at again, so every
  return of the callback and every failure between insert and arm matters.
* *Bounds.* The `u32` cursor and ring index wrap; a call has 16 probes; the maps
  evict.
* *Checksums.* A payload is never read: its checksum is corrected by differences,
  in an arithmetic with two zeros that UDP gives different meanings, and in two
  forms, full and offloaded. The straight-line code the verifier wants must add
  up to what loops would.
* *Snapshots.* Counters are copied while they move, word by word, and each
  instrument of an export looks at the last snapshot for itself.
* *Offsets.* The transport header is where it arrived until `change_proto`, and
  somewhere else after it; loads and stores are at fixed offsets.

`PROJECT.json` lists each of these as a hazard at its line, with the property
that would see it go wrong.

## What makes each component correct

* **Session table.** No mapping is left without something that will look at it
  again. Sessions end when packets stop, and not while they are used. A
  callback removes the session it was called for and no later one. While one
  CPU creates sessions and nothing is evicted, a flow owns its external tuple
  alone and the two maps mirror each other.
* **Port allocator.** The ring holds the last ports handed out and no other; no
  port is handed out again before enough others were; a failed call tried as
  many different ports as it could; no free port is passed over for ever; a free
  range larger than the ring keeps serving. All of it under a range that may be
  replaced while cursor and ring stay.
* **Classifiers.** What is redirected is the translation of what arrived, field
  by field, and its answer is admitted and translated back to its client. What
  no state was made for goes on unchanged. Counters that describe one run agree.
* **Lifecycle.** No packet is translated under a configuration that was not
  accepted, whichever call of `attach` fails and however often it is repeated;
  an instance that says it is attached has both classifiers linked where its
  configuration says, and no session of another policy.
* **Checksums.** Sums lose no carry, in whatever portions they are made and
  folded. What is filled in verifies. A translated packet verifies exactly if it
  did when it arrived: translation neither breaks a checksum nor makes a
  corrupted packet pass.
* **Metrics.** No counter is ever seen to fall; a snapshot lies between the true
  totals at the beginning and at the end of its reading; no snapshot and no
  export shows translations without the lookups that led to them, as long as
  words become visible in the order in which they are counted; what was counted
  before the program was told to stop is exported.

## The modules

`PortAllocator` models `alloc_port` probe by probe on one CPU. `Start` is the
entry of the call, with its early return for a range without a second port;
`Skip` an iteration that meets a cooling port or a taken key; `Take` the one
that returns a port (with the push); `Exhaust` the fall through the loop.
`Publish` and `Withdraw` are the writers of `NAT` on other CPUs. `Reconfigure`
replaces the range as a repeated `attach` does under a linked forward classifier;
the running call keeps the range it read. `age` is a history variable.

`SessionTable` models the two maps and everything that writes them. `cpu[c]` is
the program counter and the locals of the run on `c`. The forward classifier is
`Begin`, `Hit` or `Miss`, `Alloc`, `Insert`, `Arm`, `Publish` with the failures
`AllocFails`, `InsertFails`, `ArmFails`, `Disarm`, `PublishFails`. `Reply` is
the reverse classifier. The callback is `Fire` (entry, and its copies), `See` and
`SeeReverse` (the reads of the element and of its reverse entry), `StillUsed` /
`FirstLook` / `SecondLook` (the first verdict), `See` again, `Condemn` or `Doubt`
(the second `NAT.get` and the last verdict), `Reprieve` (the timer started again
after a doubt), `DropNat`, `DropFwd` (the removals).

A step is one *visit* of a run to one element: the reads and writes it does
there before it goes on to another element are taken together, as in `Hit` (two
stores and three loads through one pointer) and in the three verdicts (the
observed stamp is compared and written, and the timer of the same element
started). Nothing else of the run is in the step, and packets and evictions come
between any two. A visit of a classifier to an element that was removed after
the lookup is lost on it, as if it had come before the removal; that its memory
has been given to another element by then is not modelled for a classifier,
which is at its element for a few instructions, and it is for the callback:
after its element has been removed, what it reads through the value pointer is
the old value or that of another element, and what it writes is lost:
`SeenThrough`, `ObservedBy`, `Rearm`. `EvictFwd`, `EvictNat` and `Tick` are the
kernel. What `alloc_port` returns is some port whose key was free at its last
probe; its choice among them is `PortAllocator`'s subject.

`Bindings` says what the table promises, without time, timers or maps: a flow is
bound to an external tuple that is its own, and replies to the tuple reach it.
`SerialSessions` maps `SessionTable` to it.

`Frame` is a packet as a sequence of 32-bit words behind the Ethernet header,
with the kernel helpers that change it. A load or store at a byte offset is one
at a word, *whatever lies there*; a checksum says which pseudo header and ports
it is the sum of, so a correction is right exactly when it starts from the right
sum. `Classifiers` takes a packet through the stages of `try_nat64_forward` or
`try_nat64_reverse` in the order of each branch (`ForwardTcpStages` and its
three siblings), with one action per stage and per way out of it. `counted`
collects the production counters of a run, and the one debug counter that tells
of a failed `NAT` insert of a UDP packet, which has no other trace. An entry can
go away between two packets (`Forget`). Both forms of concurrency were separated
on purpose: a run works on its own packet and on copies of what it read, so what
other CPUs do to the maps meanwhile is `SessionTable`'s subject.

`Checksum` is the life of one checksum. `AddAddress`, `Fold`, `EndAddress`,
`AddLength`, `AddWord`, `EndBody` and `Fill` are the four segment functions and
`ipv4_header_checksum_20b` of `natto64-xlat`, addition by addition and fold by
fold; `FillStraight` is `write_ipv4_header` with its three folds. `Offload` is a
sending stack that leaves the sum to the device, `Arrive` the network, which may
corrupt. `CorrectPseudo`, `CorrectPort` and `CorrectZero` are the calls of the
two delta functions, on the kernel's `bpf_csum_diff` and `bpf_l4_csum_replace`
(`ReplaceByDiff`, `Replace`, `ReplaceMangled`), and `Complete` the device.
Payloads are not kept: `pseudo` and `body` are their exact sums modulo
`2^16 - 1`, which is all a checksum can tell. Words have `Base` values, so that
TLC can take 16 for 65536.

`Metrics` has the counters of each CPU, what the run on it has yet to count
(`Begin`, `Count`, `Leave`), the copy of the values in the order the kernel
makes it (`Copy`, one word at a time; `Earlier` is what they were before the
program began), the sum (`Aggregate`, in `Publish`), and the program of
`examples/opentelemetry-metrics`: `Poll`, `ReadFails`, `Interrupt`, the exports
of the periodic reader (`BeginExport`, `Observe` once per instrument,
`EndExport`) and the last one, of shutdown. `Layout` is the order of the struct
and `Descriptors` that of the instruments, for six counters that depend on each
other. The model takes the words to become visible to the copy in the order in
which a CPU counts them. Neither the classifiers nor the kernel's copy have
barriers that enforce it: `SnapshotCovers` and `ExportCovers` hold on a machine
that keeps stores in order (x86), and on another only as far as the stores of
one run, which are far apart, arrive in order.

`Lifecycle` is a `Nat64` handle and its kernel instance. `attach` is the
sequence `Steps`; each step is an action (`ReadIndex`, `WriteConfig`,
`EnsureClsact`, `LoadProgram`, `LinkProgram`, `Succeed`), and `Fail` is the `?`
behind any of them: nothing is undone, and only the builder drops its handle.
From the first `LinkProgram` on packets run (`Receive`, `Map`, `Pass`) and
timers fire (`Fire`); a forward run keeps the configuration it read. Sessions
are reduced to their external address and whether a timer watches them.
`Delete` and `Create` replace an interface under its name. That aya refuses to
load a program twice is taken from the library and decides the matter of
retries: an instance whose `attach` failed after the forward program was loaded
never becomes attached, although its forward classifier may be translating and
`configure` and `attach` still replace its configuration. It has to be dropped,
as the builder does.

`MC*` modules give the constants values. `*_proofs` modules hold theorems.
Operators that no specification uses (`CandidateBeyond`, `HitPortOnly`, ...)
are faulty versions of the operator below them: each property is known to fail
when the faulty version takes its place.

## The runs

| Run | Instance | Shows |
|---|---|---|
| `alloc` | ranges 1–3 and 3–3, ring of 2, 2 probes, cursor mod 5, index mod 4, 2 external addresses, reconfiguration | `TypeOK`, `RingIsRecent`, `ProbesAreDistinct`, `NoQuickReuse`, `NoPortStarves`, `RoomyRangeServes` |
| `races` | 2 CPUs, 1 flow, 2 ports, timeout 3, packets and replies to 6, evictions and failures, clock to 8, 2 sessions | `TypeOK`, `TimersCoverSessions`, `ExpiresOnlyIdle` |
| `expiry` | 2 CPUs, 1 flow, 1 port, timeout 2, packets and replies to 5, failures, clock to 11, 3 sessions | `RemovesOwnSession`, `SessionsExpire` |
| `serial` | 1 CPU, 2 flows, 2 ports, timeout 2, clock to 7, 3 sessions | `MapsMirror`, `ImplementsBindings` |
| `classifiers` | 2 clients, 2 servers, 2 pool addresses, 2 ports, the default prefix, every helper may fail | `TypeOK`, `ForwardTranslates`, `AnswerIsAdmitted`, `ReplyTranslates`, `StatelessPassIntact`, `CountersAgree`, and that no run gets stuck |
| `lifecycle` | 2 interfaces and one replacement, 3 valid policies and one per check of `validate`, 1 flow, `SecsMax` 3 | `TypeOK`, `RunsUnderAcceptedPolicy`, `AttachedTranslatesBothWays`, `SessionsFollowPolicy`, `TimeoutKept`, and that no call gets stuck |
| `checksum` | words of 4 bits, up to 13 in a body | `TypeOK`, `SumExact`, `FoldsAgree`, `FilledVerifies`, `VerdictPreserved` |
| `metrics` | 2 CPUs, 6 counters that saturate at 3, earlier counts from 0 to 3, 2 more runs | `TypeOK`, `SnapshotCovers`, `ExportCovers`, `NothingLost`, `ReportsGrow`, `SnapshotBetween` |

Why these bounds are enough. In `alloc` the larger range does not divide the
cursor's modulus, calls have fewer probes than it has ports and the ring has one
slot fewer: the three relations between the numbers of the code (2^32 and the
span, 16 and the span, 64 and the span) that matter. The other range has a
single port, which `validate` accepts and `alloc_port` rejects, and lies inside
the first, so that a change of range meets ports that cool. In the session runs
two CPUs are the fewest that race. In `races` packets and replies arrive until
time 6 and the first callback may start at 4, so that a packet on the other CPU
comes between any two of its steps, in its first look and in the second:
`Doubt`, `Reprieve` and the exception of `ExpiresOnlyIdle`, a packet after the
last reads of a callback that goes on to remove its session, all happen. One
flow is enough there: what races is two runs at one key, and its two ports give
a session another tuple than the one before it. `serial` has two flows of one
address and remote, which compete for ports. The clock of each run goes on long
enough for a session to be created, idle for its timeout, confirmed, expired and
created again. `MaxGen` bounds the sessions created and `PacketsUntil` the time
of the last packet; a behaviour that reaches them stops creating sessions, and
the system comes to rest (which is why these three runs do not check deadlock).
`races` takes CPUs as symmetric: nothing in the model tells them apart, and its
properties are invariants. In `classifiers` there is a packet for each outcome
of the checks: wrong ether type, cut at each header, malformed (the tests of
version, `ihl` and total length at lines 846–869, which end alike and are one
kind of packet), wrong prefix or destination, extension header, other protocol,
fragment, too long, IPv4 options, zero checksum. Two ports are the fewest that
`alloc_port` serves (`RangeServes` is its early return for fewer), and a call
may find neither. The prefix is the default one, under which replies are right;
`reply_prefix` is the run under another. There is a client whose address has a
zero half-word at the place where the checksum is looked for.

In `lifecycle` the number of attaches and of policies passed is not bounded; one
flow is enough since flows share nothing there; the policies have disjoint and
overlapping pools of both sizes, no timeout, one that is rounded up and one that
does not fit. `attach` is called with two different interfaces in either order;
the model leaves the pairs to the constant `Pairs`. Interfaces are symmetric.

In `checksum` four bits are enough for every case of the arithmetic: both zeros,
a fold that carries again, sums on either side of each limit. 13 words on top of
an address, a length and a protocol fill the accumulator to its last value
(`BodyAssumption`; in the code, the 32768 words of the longest segment use half
of it). TLC takes every word at every place and every difference of headers.
What does not depend on the width is proved for all of them. In `metrics`
counters saturate at three, and `Earlier` leaves one of them at its maximum,
some below, some at zero: a single counter saturates, a sum over the CPUs does
while its counters do not, and others stay below, where a count too many or too
few shows. Two more runs are the fewest that put an effect on one CPU and a
cause on another; polls and exports are not bounded. The run ends when the
program does (no deadlock check). `checksum` ends with the packet.

Four runs check a sentence of a document that the code does not keep, and TLC
shows how; the `findings` of `PROJECT.json` quote them.

| Run | The sentence | What happens |
|---|---|---|
| `reverse_expiry` | timers enforce the idle timeout | of two CPUs that create one session, the loser's `NAT` entry has no timer |
| `passed_unchanged` | untranslatable packets are passed through unchanged | TCP without a port to be had leaves 20 bytes shorter |
| `zero_checksum` | zero-checksum UDP is not translated | it is, with a wrong checksum |
| `reply_prefix` | the prefix that is translated can be configured | replies come from `64:ff9b::/96` under any prefix |

What the models show besides, without a run of its own:

* A call that fails has tried 16 ports, however many are free, and
  `port_alloc_exhausted` is counted.
* A UDP reply can leave for IPv6 with a zero checksum, which the comment at line
  1157 calls mandatory there and a receiver discards: the corrections of the
  pseudo header and of the port run without `BPF_F_MARK_MANGLED_0` and can leave
  zero, and the last correction, from 0 to 0, has the flag but leaves a zero field
  alone (`ZeroReplaced`). It takes one value of the sum in 65535.
  `VerdictPreserved` counts a zero field as its sum.
* A port can be handed to two flows by two CPUs: it is probed in `NAT` when it is
  allocated and published there later (`Alloc`, `Publish`). No document promises
  exclusion between CPUs, and no property here claims it.
* A UDP packet whose own `NAT` insert failed is redirected all the same
  (`PublishFailsUdp`), and its answer is dropped.
* A TCP reply with IPv4 options is rewritten as if it had none and counted as
  translated (`TransportAt`); `ReplyTranslates` is about packets without.
* A range with no more ports than the ring has slots stops serving for good once
  all its ports cool; `RoomyRangeServes` is about larger ones.
* A UDP checksum that is corrected to zero on the way to IPv4 stays zero too:
  there it reads as "no checksum".

### Fairness

`alloc`: weak fairness of the running call (`Skip`, `Take`, `Exhaust`), which
the verifier's bound on loops and run-to-completion of softirq work justify.
`NoPortStarves` and `RoomyRangeServes` assume nothing of who calls: their
premises say that calls are made, from some time on for one address and under
one range. `expiry` and `reverse_expiry`: weak fairness of each CPU's run, of
each due timer, and of the clock. A classifier and a callback run to completion,
and a BPF timer is an `hrtimer`, which fires. No packet is ever assumed to
arrive and no failure assumed to stop.

`RunTicks` bounds how far the clock advances during one run and `FireTicks` how
late a timer fires. `RemovesOwnSession` needs the first to be below the timeout,
and `ExpiresOnlyIdle` speaks of it: it excludes packets at most two run
durations old, the race that the comment at line 240 of
`natto64-ebpf/src/lib.rs` says is narrowed and not closed.

## What is proved

TLAPS proves the following for every value of the constants that satisfies the
named assumptions of the modules.

`PortAllocator_proofs` (any set of ranges and changes between them, ring size,
number of probes and counter widths, with the ring size dividing the index
modulus as 64 divides 2^32):

* `TypeCorrect`: `Spec => []TypeOK`.
* `RingCorrect`: `Spec => []RingIsRecent`. The ring is not described by ages
  alone: a step overwrites the slot the index points to, so the invariant needs
  to say where each port of each age is. `IInv` adds two facts to the types: the
  port in a written slot has the age the slot's distance from the index gives,
  and a port of age *a* is in the slot *a* places before the index. It is
  inductive, and `IInvMeans` takes `RingIsRecent` from it.
* `QuickReuseExcluded`: `Spec => NoQuickReuse`, from `RingCorrect`: a port that
  is returned is not cooling, so its age is 0.
* `ProbesCorrect`: `Spec => []ProbesAreDistinct`. The invariant is
  `ProbedSoFar`: while the cursor has not wrapped, what a call has tried are the
  candidates of as many consecutive cursor values as it spent probes. How many
  ports these are is the arithmetic of remainders (`ModApart`, `ModAll`,
  `CandidatesCounted`). The proof showed that the property needs a cursor with at
  least two values (`CursorAssumption`; the code's has 2^32): one that only ever
  wraps to 0 does not count as wrapped and tries one port.

`SessionTable_proofs` (any CPUs, flows, ports and addresses, any timeout, with
and without evictions and failures):

* `TypeCorrect`: `Spec => []TypeOK`. It includes that a run past its mapping
  holds a generation that was drawn, which the generation comparisons of the
  callback rest on.
* `TimersCorrect`: `Spec => []TimersCoverSessions`. Given the types the
  property is inductive itself. Two notions carry the proof: what a run
  *creates* and what it *watches*. `StaysCovered` says that a step of one CPU
  that leaves an element's timer alone, and does not end what its run did for
  the element, keeps the element covered; each action is then a few lines: an
  insert is covered by its own run, an armed or re-armed timer by itself, a
  fired one by its callback, and a callback whose element was replaced watched
  nothing.

`SessionExpiry_proofs` (the same generality: any timeout, any bound on a run,
any delay of a timer):

* `ExpiryCorrect`: `Spec => []ExpiresOnlyIdle`, with evictions and failures. The
  callback reads its element and the reverse entry one after the other, and both
  may move in between, so the invariant has to say what each read is worth later.
  `Watched` does: one callback works on an element, and each stamp of the session
  is one it has judged or one set by a run at most `RunTicks` older than itself.
  `Timed` and `Stamped` say what an element says of its timer (the stamp that an
  earlier look observed is `Timeout + Confirm` old when the timer is due again),
  `FreshGens` that a generation at its insert is in neither map and on no other
  CPU, so a match of generations means the same session, and `Prompt` that a run
  carries a time no older than its bound. `ExpiryInv` is their conjunction with
  the types.
* `RemovalCorrect`: `~ Evictions /\ ShortRuns => (Spec => []RemovesOwnSession)`,
  where `ShortRuns` is `RunTicks < Timeout`, or no timeout. Both hypotheses are
  needed (with `RunTicks = Timeout` TLC finds a counterexample). An evicted
  element leaves its callback running while the key gets a new one; and a run
  that missed and then slept for a whole timeout would replace an element whose
  callback has started. A run takes microseconds, a timeout is at least a
  second, and whether maps evict is a matter of load, which the hazard at line
  268 records. `NotDue` carries the proof: an element that a run in the making
  can meet under its key was inserted since that run began, so it is not due.

`SerialSessions_proofs` (any flows, addresses, ports and times, under
`SerialAssumption`: one CPU, no evictions, no failing helpers):

* `MirrorCorrect`: `Spec => []MapsMirror`, and `BindingsCorrect`: `Spec =>
  ImplementsBindings`. Between runs the mirror is simple; inside a run it is not,
  since insert and publication, and the two removals, are apart. `SerialInv` says
  that a reverse entry always has its forward mapping, that a forward mapping
  without its reverse entry is in the hands of the run, and (`Alone`) what
  that run knows at each of its accesses. Then every step is shown to be
  `Bind`, `Release` or nothing (`Refines`): publication binds, the removal of the
  reverse entry releases.
* `OwnersReached`: the property of `Bindings`, through the refinement mapping.

`Classifiers_proofs` (any clients, servers, ports, pool and hash, packets of any
length and cut anywhere, helpers failing anywhere):

* `TypeCorrect`, `ForwardCorrect`, `AnswersAdmitted`, `PassIntact`,
  `CountsCorrect`, and `RepliesCorrect`: `Prefix = WellKnown => (Spec =>
  []ReplyTranslates)`. The hypothesis is needed: under another prefix
  `reply_prefix` shows a reply from the wrong address. `RepliesUnderAnyPrefix` is
  what is left of it then: a reply is right in everything but the prefix of its
  source. `AnswersAdmitted` is about TCP and UDP with anything failing; a UDP
  packet whose own insert has failed is the only one it leaves out, and that
  packet is known by its counter (`CountsGrow`: what was counted stays). A property
  speaks of the last state of a run; the invariant says what holds at each stage.
  `Rewritten` gives the frame as a rewriting of the packet that arrived, fixed by
  the stage: untouched, shrunk or grown, retyped, with its header, with its port.
  `Locals6` and `Locals4` say that what the run has read agrees with that packet,
  the words read through offsets that were right when they were read; `MapsOK`,
  `StateCounted` and `Tallied` follow maps and counters. `ClassifiersInv` is their
  conjunction, and was checked by TLC before it was proved. Only the last stage
  has to be computed word by word: `Finished` shows that shrinking or growing,
  storing the header and the port and correcting the checksum give exactly the
  packet the property builds, for any number of words, payload words untouched.
  `ArrivingAssumption` says what arrives: packets between the known clients
  and servers, and TCP segments with a checksum (that UDP may go without is what
  `Plain` is about).

`Lifecycle_proofs` (any policies, pools, interfaces, flows, hash and width of
the timeout field, under `LifecycleAssumption`), for any number of attaches,
failures and changes of policy:

* `TypeCorrect`: `Spec => []TypeOK`. That a session has an address, and not an
  empty slot of the pool array, rests on `Acceptable`: what `attach` writes
  comes from a policy `validate` accepts.
* `RunsCorrect`: `Spec => []RunsUnderAcceptedPolicy`.
* `SessionsCorrect`: `Spec => []SessionsFollowPolicy`.
* `TimeoutCorrect`: `Spec => []TimeoutKept`; `SecondsKept` is its arithmetic.

  None of these is inductive. `IInv` says with `Calls` what the steps of a
  running `attach` have achieved, with `Accepted` that the configuration in the
  map, and the one a run holds, come from accepted policies, with `Linked` that
  a linked forward classifier has a configuration to read, and with `Untouched`
  that an instance whose forward program is not loaded has no run and no
  session. The last carries `SessionsCorrect`: since a program is not loaded
  twice, the `attach` that succeeds is the one that loaded it, so all sessions
  were made under the configuration it wrote (`Own`).

* `AttachedCorrect`: `Spec => []AttachedTranslatesBothWays`. `Current` follows, for
  each program whose interface was not replaced, the index from its reading
  through `CONFIG` to the link; `OwnIndices`, that no index is given out
  twice, keeps an old index from meeting a new interface.

`Checksum_proofs` (any width of at least three bits, any protocol numbers, any
segment the accumulator has room for):

* `TypeCorrect`, `SumsExact`, `FoldsCorrect`, `FilledCorrect`, `VerdictCorrect`:
  all five properties of `checksum`. The arithmetic is counting modulo
  `W = Base - 1`: `Null(x)` says that `x` is a multiple of `W`, and a lemma for
  each operation (a fold, an end-around carry, a complement, each form of
  `bpf_l4_csum_replace`) says that what it returns differs from the exact value
  by a null. Sums modulo `W` are not enough, since the accumulator wraps at
  `Base^2`, which is 1 modulo `W`: `Bounded` gives its largest value by the
  number of words added since the last fold, and that no addition wraps. `Made`
  and `Moved` follow the checksum after that: a full one is the complement of the
  exact sum, an offloaded one is the sum of the pseudo header, and each
  correction keeps the difference the packet arrived with. `IInv`, their
  conjunction with the types, is inductive.

`Metrics_proofs` (any number of CPUs and runs, any width of the counters):

* `TypeCorrect`, `SnapshotsCovered`, `ExportsCovered`, `FinalCorrect`,
  `SnapshotsExact`, `ReportsCorrect`: all six properties of `metrics`. A read
  copies a row of counters while it grows, and an export copies a snapshot while
  the next ones arrive; both are followed by the *mixture* of what has been copied
  and what has not (`Seen`, `Shown`). The mixture shows causes for effects at every
  moment, as long as effects are copied first (`Reads`, `Explained`), and
  grows from one snapshot to the next (`Follows`); `Caused` is the same of the
  counters themselves, with what the run on a CPU still owes. `MetricsInv`, their
  conjunction with the types, is inductive.
  What a saturating sum over any number of CPUs keeps (order, bounds, the cover of
  an effect by its causes) needs induction on the CPUs. The induction theorems of
  the library cannot be cited, since they take an operator, so each is proved from
  the well-foundedness of the naturals as a statement about the least
  counterexample (`LeastNumber`); `Summed` is a recursive function for that reason.

Of the 35 properties the passing runs check, 32 are theorems. The other three
are the liveness properties, `NoPortStarves`, `RoomyRangeServes` and
`SessionsExpire`: fairness needs `ENABLED`, which is out of the prover's reach,
and TLC checks them on the small instances above. No module uses `RECURSIVE`.

What the theorems rest on besides the named assumptions: the models. A theorem
holds for every value of the constants, not for what *What is not modelled*
lists; `SerialSessions` in particular says nothing of two CPUs, where the
exclusion it proves does not hold (`reverse_expiry`).

## What is not modelled

* A repeat of the 32-bit random generation while its other holder is alive.
* The memory of an element removed and given to another one between the lookup of
  a classifier and its stamp, and the tearing of a visit into single loads and
  stores.
* Stores of one CPU that reach the copy of the counters out of order.
* `bpf_timer_start` failing inside the callback of an element that is still
  there (the kernel fails it only for a timer without a callback), and nested
  runs on one CPU.
* `redirect_to_iface` with interface index 0: a configured instance has both.
* Packets under the default configuration a classifier falls back to when
  `CONFIG` is empty: `attach` writes `CONFIG` before it links a classifier, and
  `RunsUnderAcceptedPolicy` shows that no run meets it.
* Debug counters (but one) and samples; wording of errors; the simple example.
* Two updates of `CONFIG` during one run of a classifier: it keeps a pointer to
  the element it found, and the kernel reuses a replaced element only at a later
  update.
* Of checksums: the order of bytes (a sum of bytes swapped is the sum swapped),
  and the sum over the whole packet that a device may have left beside it
  (`CHECKSUM_COMPLETE`), which the kernel maintains. The kernel's helpers are
  modelled as `net/core/filter.c` and `net/core/utils.c` have them.
* The layout of headers in `headers.rs` and `wire.rs`: they copy arguments and
  constants into arrays.
* Of metrics: the 35 counters that are counted, copied and observed like the six;
  the export made while the program falls after a failed last read. The model
  takes from the libraries that per-CPU values are copied CPU by CPU in ascending
  words, that instruments are called back in the order they were built, and that
  a CPU runs one classifier at a time.

## The plan

1. `PortAllocator`, `SessionTable`, `Bindings` and `SerialSessions`, `Frame` and
   `Classifiers`, with the runs above and the theorems above. *Done.*
2. `Lifecycle`, with the run and the theorems above. *Done.*
3. `Checksum`, with its run and theorems. *Done.*
4. `Metrics`, with its run. *Done.*
5. The allocator under several ranges, one of them no larger than the ring.
   *Done.*
6. Proofs: the refinement of `Bindings` by `SerialSessions`, `ExpiresOnlyIdle`,
   `RemovesOwnSession`, `AttachedTranslatesBothWays`, `ProbesAreDistinct`, and all
   of `Classifiers` and `Metrics`. *Done.*
7. Left: safety lemmas towards the liveness properties, such as that the port
   an allocator passes over is a candidate of one of the next calls, or that the
   element of a started timer is removed or due again after its callback; and
   what of `SerialSessions` survives failing helpers.

## Running it

    tlc -workers 2 -config MCSessionRaces.cfg MCSessionTable
    tlapm SessionTable_proofs.tla
