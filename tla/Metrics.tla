------------------------------ MODULE Metrics ------------------------------
(***************************************************************************)
(* The production counters on their way out: each run of a classifier      *)
(* counts on its own CPU, read_metrics copies and sums the CPUs while they *)
(* go on counting, and an application publishes the snapshots to an        *)
(* exporter (natto64/src/metrics.rs, natto64/src/lib.rs,                   *)
(* examples/opentelemetry-metrics).                                        *)
(*                                                                         *)
(* Of the 41 counters these are the ones a translated packet moves; the    *)
(* others are counted, copied, summed and observed alike.                  *)
(*                                                                         *)
(* Assumed of the machine: a word that a CPU counts later is not seen by   *)
(* the copy before one that it counted earlier.  Neither the classifiers   *)
(* nor the kernel's copy have barriers that order them, so on a weakly     *)
(* ordered CPU SnapshotCovers and ExportCovers hold only as far as the     *)
(* stores of a run, far apart in time, arrive in order; the other          *)
(* properties are about one word each and do not need it.                  *)
(***************************************************************************)
EXTENDS Integers, Sequences

CONSTANTS
    Cpus,       \* number of possible CPUs
    MaxCount,   \* u64::MAX
    Earlier,    \* what each CPU has counted before the application begins
    MaxRuns     \* bound: runs of the classifiers after that

ASSUME MetricsAssumption ==
    Cpus \in Nat \ {0} /\ MaxCount \in Nat \ {0} /\ MaxRuns \in Nat

\* The fields sorted by name.
ByName == <<"fwd_nat_insert_ok", "fwd_nat_lookup_hit", "nat64_v4_to_v6_ok",
            "nat64_v6_to_v4_ok", "nat_lookup_hit", "port_alloc_ok">>

\* The fields of ProdCounters in the order of the struct.
Layout == <<"nat64_v6_to_v4_ok", "nat64_v4_to_v6_ok", "nat_lookup_hit",
            "fwd_nat_lookup_hit", "fwd_nat_insert_ok", "port_alloc_ok">>

Counters == {Layout[k] : k \in DOMAIN Layout}
Zeros == [c \in Counters |-> 0]

\* What a run counts, in this order, when nothing goes wrong: a forward
\* packet with a new mapping, one with a known mapping, a TCP reply.
Paths ==
    {<<"port_alloc_ok", "fwd_nat_insert_ok", "nat64_v6_to_v4_ok">>,
     <<"fwd_nat_lookup_hit", "nat64_v6_to_v4_ok">>,
     <<"nat_lookup_hit", "nat64_v4_to_v6_ok">>}

\* Each translation and each mapping with the counters one of which the same
\* run has counted before.
Covered(values) ==
    /\ values["nat64_v4_to_v6_ok"] =< values["nat_lookup_hit"]
    /\ values["nat64_v6_to_v4_ok"] =<
           values["fwd_nat_lookup_hit"] + values["fwd_nat_insert_ok"]
    /\ values["fwd_nat_insert_ok"] =< values["port_alloc_ok"]

\* The dataplane is attached before its metrics are first read, and packets
\* have passed since.
ASSUME EarlierAssumption ==
    /\ Earlier \in [1 .. Cpus -> [Counters -> 0 .. MaxCount]]
    /\ \A k \in 1 .. Cpus : Covered(Earlier[k])

VARIABLES
    counters,   \* PROD_COUNTERS: per CPU the value of each counter
    run,        \* per CPU, what its run has yet to count
    runs,       \* runs begun
    pc,         \* the application
    pos,        \* fields copied by the read in progress
    buffer,     \* per CPU, the copies it has made
    published,  \* the snapshot in the watch channel
    exporting,  \* the next descriptor of the export in progress, or 0
    reported,   \* what each instrument last observed
    started     \* history: the totals when the read in progress began, or
                \* the final one

vars == <<counters, run, runs, pc, pos, buffer, published, exporting,
          reported, started>>

CpuIds == 1 .. Cpus
Tails(paths) == {Tail(p) : p \in paths}
Rests == {<<>>} \cup Paths \cup Tails(Paths) \cup Tails(Tails(Paths))
Fields == Cpus * Len(Layout)

TypeOK ==
    /\ counters \in [CpuIds -> [Counters -> 0 .. MaxCount]]
    /\ run \in [CpuIds -> Rests]
    /\ runs \in 0 .. MaxRuns
    /\ pc \in {"first", "idle", "poll", "final", "stopping", "last",
               "done", "failed"}
    /\ pos \in 0 .. Fields
    /\ buffer \in [CpuIds -> [Counters -> 0 .. MaxCount]]
    /\ published \in [Counters -> 0 .. MaxCount]
    /\ exporting \in 0 .. Len(Layout) + 1
    /\ reported \in [Counters -> 0 .. MaxCount]
    /\ started \in [Counters -> 0 .. MaxCount]

-----------------------------------------------------------------------------
(* Counting and summing.                                                   *)

\* u64 addition as it would wrap.
WrapAdd(a, b) == (a + b) % (MaxCount + 1)

\* An addition without a width.
WideAdd(a, b) == a + b

\* u64::saturating_add
SaturatingAdd(a, b) == IF a + b > MaxCount THEN MaxCount ELSE a + b

\* A counter's saturating sum over the first k CPUs, for each k.
Summed(values, c) ==
    LET sum[k \in 0 .. Cpus] ==
            IF k = 0 THEN 0 ELSE SaturatingAdd(sum[k - 1], values[k][c])
    IN  sum

\* A sum in which the last CPU counts twice.
AggregateTwice(values) ==
    [c \in Counters |->
        SaturatingAdd(Summed(values, c)[Cpus], values[Cpus][c])]

\* aggregate_prod_counters: every counter summed over the CPUs.
Aggregate(values) == [c \in Counters |-> Summed(values, c)[Cpus]]

\* The true sum over the first k CPUs, for each k.
Exact(values, c) ==
    LET sum[k \in 0 .. Cpus] ==
            IF k = 0 THEN 0 ELSE sum[k - 1] + values[k][c]
    IN  sum

\* What there is to report: each counter's true total, as far as it fits.
Totals ==
    [c \in Counters |->
        IF Exact(counters, c)[Cpus] > MaxCount THEN MaxCount
        ELSE Exact(counters, c)[Cpus]]

-----------------------------------------------------------------------------
(* The classifiers.                                                        *)

\* A packet arrives at a CPU that runs no classifier.
Begin(cpu, path) ==
    /\ run[cpu] = <<>>
    /\ runs < MaxRuns
    /\ run' = [run EXCEPT ![cpu] = path]
    /\ runs' = runs + 1
    /\ UNCHANGED <<counters, pc, pos, buffer, published, exporting, reported,
                   started>>

\* with_counters and the counters of redirect_to_iface.
Count(cpu) ==
    /\ run[cpu] # <<>>
    /\ counters' = [counters EXCEPT ![cpu][Head(run[cpu])] =
                                        SaturatingAdd(@, 1)]
    /\ run' = [run EXCEPT ![cpu] = Tail(@)]
    /\ UNCHANGED <<runs, pc, pos, buffer, published, exporting, reported,
                   started>>

\* An early return: what follows is not counted.
Leave(cpu) ==
    /\ run[cpu] # <<>>
    /\ run' = [run EXCEPT ![cpu] = <<>>]
    /\ UNCHANGED <<counters, runs, pc, pos, buffer, published, exporting,
                   reported, started>>

-----------------------------------------------------------------------------
(* read_metrics.                                                           *)

Reading == pc \in {"first", "poll", "final"}

\* The kernel copies the value of one CPU after the other, word by word.
Copy ==
    /\ Reading
    /\ pos < Fields
    /\ LET cpu == (pos \div Len(Layout)) + 1
           c == Layout[(pos % Len(Layout)) + 1]
       IN  buffer' = [buffer EXCEPT ![cpu][c] = counters[cpu][c]]
    /\ pos' = pos + 1
    /\ UNCHANGED <<counters, run, runs, pc, published, exporting, reported,
                   started>>

\* The first snapshot makes the channel, the others replace the one in it.
Publish ==
    /\ Reading
    /\ pos = Fields
    /\ published' = Aggregate(buffer)
    /\ pc' = IF pc = "final" THEN "stopping" ELSE "idle"
    /\ pos' = 0
    /\ buffer' = [k \in CpuIds |-> Zeros]
    /\ started' = IF pc = "final" THEN started ELSE Zeros
    /\ UNCHANGED <<counters, run, runs, exporting, reported>>

\* A poll that fails leaves the old snapshot; the other reads end the program.
ReadFails ==
    /\ Reading
    /\ pos = 0
    /\ pc' = IF pc = "poll" THEN "idle" ELSE "failed"
    /\ started' = Zeros
    /\ UNCHANGED <<counters, run, runs, pos, buffer, published, exporting,
                   reported>>

-----------------------------------------------------------------------------
(* The application.                                                        *)

\* poll.tick()
Poll ==
    /\ pc = "idle"
    /\ pc' = "poll"
    /\ started' = Totals
    /\ UNCHANGED <<counters, run, runs, pos, buffer, published, exporting,
                   reported>>

\* Ctrl-C that leaves the last poll's snapshot to be exported.
InterruptAtOnce ==
    /\ pc = "idle"
    /\ pc' = "stopping"
    /\ started' = Totals
    /\ UNCHANGED <<counters, run, runs, pos, buffer, published, exporting,
                   reported>>

\* Ctrl-C: the loop ends and the counters are read once more.
Interrupt ==
    /\ pc = "idle"
    /\ pc' = "final"
    /\ started' = Totals
    /\ UNCHANGED <<counters, run, runs, pos, buffer, published, exporting,
                   reported>>

\* DESCRIPTORS, in the order the instruments are built and called back.
Descriptors ==
    <<"nat64_v6_to_v4_ok", "nat64_v4_to_v6_ok", "nat_lookup_hit",
      "fwd_nat_lookup_hit", "fwd_nat_insert_ok", "port_alloc_ok">>

\* The periodic reader exports, or shutdown has it export a last time.
BeginExport ==
    /\ exporting = 0
    /\ pc \in {"idle", "poll", "final", "stopping"}
    /\ exporting' = 1
    /\ pc' = IF pc = "stopping" THEN "last" ELSE pc
    /\ UNCHANGED <<counters, run, runs, pos, buffer, published, reported,
                   started>>

\* One instrument's callback, with its own borrow of the channel.
Observe ==
    /\ exporting \in DOMAIN Descriptors
    /\ reported' = [reported EXCEPT ![Descriptors[exporting]] =
                                        published[Descriptors[exporting]]]
    /\ exporting' = exporting + 1
    /\ UNCHANGED <<counters, run, runs, pc, pos, buffer, published, started>>

EndExport ==
    /\ exporting > Len(Descriptors)
    /\ exporting' = 0
    /\ pc' = IF pc = "last" THEN "done" ELSE pc
    /\ UNCHANGED <<counters, run, runs, pos, buffer, published, reported,
                   started>>

-----------------------------------------------------------------------------

Init ==
    /\ counters = Earlier
    /\ run = [k \in CpuIds |-> <<>>]
    /\ runs = 0
    /\ pc = "first"
    /\ pos = 0
    /\ buffer = [k \in CpuIds |-> Zeros]
    /\ published = Zeros
    /\ exporting = 0
    /\ reported = Zeros
    /\ started = Totals

Next ==
    \/ \E cpu \in CpuIds, path \in Paths : Begin(cpu, path)
    \/ \E cpu \in CpuIds : Count(cpu) \/ Leave(cpu)
    \/ Copy
    \/ Publish
    \/ ReadFails
    \/ Poll
    \/ Interrupt
    \/ BeginExport
    \/ Observe
    \/ EndExport

Spec == Init /\ [][Next]_vars

-----------------------------------------------------------------------------
(* Properties.                                                             *)

\* "The snapshot is cumulative": no instrument ever observes less than it did
\* before, whichever snapshots an export finds and whatever saturates.
ReportsGrow ==
    [][\A c \in Counters : reported'[c] >= reported[c]]_vars

\* A snapshot taken while the CPUs count lies, counter by counter, between
\* the totals when the read began and when it ended: nothing counted before
\* the read is missing and nothing is counted twice.
SnapshotBetween ==
    [][Publish => \A c \in Counters :
           /\ started[c] =< published'[c]
           /\ published'[c] =< Totals[c]]_vars

\* A snapshot never shows more translations than session hits, or more
\* mappings than ports, although no lock covers a read: what a run counts
\* first is copied last.
SnapshotCovers == Covered(published)

\* Nor does an export, even when it mixes two snapshots.
ExportCovers == exporting = 0 => Covered(reported)

\* When the program has shut down, everything counted before Ctrl-C has been
\* exported.
NothingLost ==
    pc = "done" => \A c \in Counters : reported[c] >= started[c]
=============================================================================
