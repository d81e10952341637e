------------------------ MODULE SessionExpiry_proofs ------------------------
(***************************************************************************)
(* When a session ends: a callback removes the session it was called for   *)
(* only when that is idle, and never another one in its place.  For every  *)
(* set of CPUs, flows, addresses and ports and every value of the times.   *)
(***************************************************************************)
EXTENDS SessionTable_proofs

USE DEF Time, Gens

-----------------------------------------------------------------------------
(* What the steps of a run do, one fact per access.                        *)

Others(c) == \A d \in Cpus \ {c} : cpu'[d] = cpu[d]

\* The run goes on at pc with the locals it has.
Moves(c, pc) ==
    /\ cpu'[c].pc = pc
    /\ cpu'[c].flow = cpu[c].flow /\ cpu'[c].port = cpu[c].port
    /\ cpu'[c].gen = cpu[c].gen /\ cpu'[c].now = cpu[c].now
    /\ cpu'[c].seen = cpu[c].seen /\ cpu'[c].latest = cpu[c].latest
    /\ cpu'[c].owns = cpu[c].owns

\* A step that only moves on.
LEMMA GotoMoves ==
    ASSUME TypeOK, NEW c \in Cpus, cpu[c] \in Runs, NEW pc, Goto(c, pc)
    PROVE  Others(c) /\ Moves(c, pc)
  BY DEF TypeOK, Goto, Others, Moves, Runs

\* A step that ends the run.
LEMMA FinishEnds ==
    ASSUME TypeOK, NEW c \in Cpus, Finish(c)
    PROVE  Others(c) /\ cpu'[c] = Idle /\ cpu'[c].pc = "idle"
  BY DEF TypeOK, Finish, Others, Idle

\* A run in progress is one of the two kinds.
LEMMA RunLocals ==
    ASSUME TypeOK, NEW c \in Cpus, cpu[c].pc # "idle"
    PROVE  /\ cpu[c] \in Runs /\ cpu[c].flow \in Flows /\ cpu[c].port \in Ports
           /\ cpu[c].now \in Nat /\ cpu[c].latest \in Nat /\ cpu[c].seen \in Nat
           /\ Held(c) \in Tuples
           /\ cpu[c].pc \notin Unmapped => cpu[c].gen \in Gens
  BY RunTyped, ParametersAssumption DEF Runs

\* The step of a hit.
LEMMA HitEffect ==
    ASSUME TypeOK, NEW c \in Cpus, Hit(c)
    PROVE  /\ cpu[c].pc = "lookup" /\ cpu[c].flow \in Flows
           /\ fwd[cpu[c].flow] \in Cells /\ fwd'[cpu[c].flow] \in Cells
           /\ fwd'[cpu[c].flow].seen = cpu[c].now /\ fwd'[cpu[c].flow].observed = 0
           /\ fwd'[cpu[c].flow].gen = fwd[cpu[c].flow].gen
           /\ fwd'[cpu[c].flow].port = fwd[cpu[c].flow].port
           /\ fwd'[cpu[c].flow].timer = fwd[cpu[c].flow].timer
           /\ fwd'[cpu[c].flow].due = fwd[cpu[c].flow].due
           /\ \A g \in Flows \ {cpu[c].flow} : fwd'[g] = fwd[g]
           /\ Others(c) /\ cpu'[c].pc = "publish"
           /\ cpu'[c].flow = cpu[c].flow /\ cpu'[c].now = cpu[c].now
           /\ cpu'[c].gen = fwd[cpu[c].flow].gen
           /\ cpu'[c].port = fwd[cpu[c].flow].port
           /\ nat' = nat /\ now' = now /\ gens' = gens
<1>1. cpu[c].pc = "lookup"
  BY DEF Hit, At
<1>2. /\ cpu[c] \in Runs /\ cpu[c].flow \in Flows /\ cpu[c].now \in Time
      /\ fwd[cpu[c].flow] \in Cells
  BY <1>1, RunTyped, CellTyped DEF Hit, Runs
<1> DEFINE f == cpu[c].flow
           x == [fwd[f] EXCEPT !.seen = cpu[c].now, !.observed = 0]
<1>3. x \in Cells
  BY <1>2, CellStamped
<1>4. fwd' = [fwd EXCEPT ![f] = x] /\ nat' = nat /\ now' = now /\ gens' = gens
  BY DEF Hit
<1>5. /\ x.seen = cpu[c].now /\ x.observed = 0 /\ x.gen = fwd[f].gen
      /\ x.port = fwd[f].port /\ x.timer = fwd[f].timer /\ x.due = fwd[f].due
  BY <1>2 DEF Cells
<1>6. /\ Others(c) /\ cpu'[c].pc = "publish"
      /\ cpu'[c].flow = cpu[c].flow /\ cpu'[c].now = cpu[c].now
      /\ cpu'[c].gen = fwd[f].gen /\ cpu'[c].port = fwd[f].port
  BY <1>2 DEF Hit, TypeOK, Runs, Others
<1> HIDE DEF x
<1>7. fwd'[f] = x /\ \A g \in Flows \ {f} : fwd'[g] = fwd[g]
  BY <1>2, <1>4 DEF TypeOK
<1> QED
  BY <1>1, <1>2, <1>3, <1>4, <1>5, <1>6, <1>7

\* The port is allocated and a generation drawn.
LEMMA AllocEffect ==
    ASSUME TypeOK, NEW c \in Cpus, NEW p \in Ports, Alloc(c, p)
    PROVE  /\ cpu[c].pc = "alloc" /\ cpu[c].flow \in Flows
           /\ Others(c) /\ cpu'[c].pc = "insert"
           /\ cpu'[c].flow = cpu[c].flow /\ cpu'[c].now = cpu[c].now
           /\ cpu'[c].gen = gens + 1 /\ cpu'[c].port = p
           /\ gens' = gens + 1 /\ fwd' = fwd /\ nat' = nat /\ now' = now
<1>1. cpu[c].pc = "alloc" /\ cpu[c] \in Runs
  BY RunTyped DEF Alloc, At
<1> QED
  BY <1>1 DEF Alloc, TypeOK, Runs, Others

\* The forward entry is inserted in place of whatever was there.
LEMMA InsertEffect ==
    ASSUME TypeOK, NEW c \in Cpus, Insert(c)
    PROVE  /\ cpu[c].pc = "insert" /\ cpu[c].flow \in Flows /\ cpu[c].gen \in Gens
           /\ fwd'[cpu[c].flow] =
                [gen |-> cpu[c].gen, port |-> cpu[c].port, seen |-> cpu[c].now,
                 observed |-> 0, timer |-> "unarmed", due |-> 0]
           /\ fwd'[cpu[c].flow].gen = cpu[c].gen
           /\ fwd'[cpu[c].flow].seen = cpu[c].now
           /\ fwd'[cpu[c].flow].observed = 0
           /\ fwd'[cpu[c].flow].timer = "unarmed"
           /\ \A g \in Flows \ {cpu[c].flow} : fwd'[g] = fwd[g]
           /\ Others(c) /\ Moves(c, AfterInsert)
           /\ nat' = nat /\ now' = now /\ gens' = gens
<1>1. cpu[c].pc = "insert" /\ cpu[c] \in Runs /\ cpu[c].flow \in Flows
      /\ cpu[c].gen \in Gens
  BY RunLocals DEF Insert, At, Unmapped
<1>2. Others(c) /\ Moves(c, AfterInsert)
  BY <1>1, GotoMoves DEF Insert
<1> QED
  BY <1>1, <1>2 DEF Insert, TypeOK

\* The timer of the element the flow has is started.
LEMMA ArmEffect ==
    ASSUME TypeOK, NEW c \in Cpus, Arm(c)
    PROVE  /\ cpu[c].pc = "arm" /\ cpu[c].flow \in Flows
           /\ fwd[cpu[c].flow] \in Cells /\ fwd[cpu[c].flow].timer = "unarmed"
           /\ fwd'[cpu[c].flow].timer = "started"
           /\ fwd'[cpu[c].flow].due = now + Timeout
           /\ fwd'[cpu[c].flow].gen = fwd[cpu[c].flow].gen
           /\ fwd'[cpu[c].flow].port = fwd[cpu[c].flow].port
           /\ fwd'[cpu[c].flow].seen = fwd[cpu[c].flow].seen
           /\ fwd'[cpu[c].flow].observed = fwd[cpu[c].flow].observed
           /\ \A g \in Flows \ {cpu[c].flow} : fwd'[g] = fwd[g]
           /\ Others(c) /\ Moves(c, "publish")
           /\ nat' = nat /\ now' = now /\ gens' = gens
<1>1. cpu[c].pc = "arm" /\ cpu[c] \in Runs /\ cpu[c].flow \in Flows
  BY RunLocals DEF Arm, At
<1>2. fwd[cpu[c].flow] \in Cells /\ fwd[cpu[c].flow].timer = "unarmed"
  BY <1>1, CellTyped DEF Arm, Armable
<1>3. Others(c) /\ Moves(c, "publish")
  BY <1>1, GotoMoves DEF Arm
<1> QED
  BY <1>1, <1>2, <1>3 DEF Arm, TypeOK, Cells

\* The mapping is removed, whichever it is, and the run ends.
LEMMA DropEffect ==
    ASSUME TypeOK, NEW c \in Cpus, Disarm(c) \/ DropFwd(c)
    PROVE  /\ cpu[c].pc = (IF Disarm(c) THEN "disarm" ELSE "dropfwd")
           /\ cpu[c].flow \in Flows
           /\ fwd'[cpu[c].flow] = None
           /\ \A g \in Flows \ {cpu[c].flow} : fwd'[g] = fwd[g]
           /\ Others(c) /\ cpu'[c] = Idle /\ cpu'[c].pc = "idle"
           /\ nat' = nat /\ now' = now /\ gens' = gens
<1>1. /\ cpu[c].pc = (IF Disarm(c) THEN "disarm" ELSE "dropfwd")
      /\ cpu[c].flow \in Flows
  BY RunLocals DEF Disarm, DropFwd, At
<1>2. Others(c) /\ cpu'[c] = Idle /\ cpu'[c].pc = "idle"
  BY FinishEnds DEF Disarm, DropFwd
<1> QED
  BY <1>1, <1>2 DEF Disarm, DropFwd, Removed, TypeOK

\* The reverse entry is inserted, and the run ends.
LEMMA PublishEffect ==
    ASSUME TypeOK, NEW c \in Cpus, Publish(c)
    PROVE  /\ cpu[c].pc = "publish" /\ cpu[c].flow \in Flows /\ cpu[c].gen \in Gens
           /\ Held(c) \in Tuples
           /\ nat'[Held(c)] =
                [gen |-> cpu[c].gen, flow |-> cpu[c].flow, seen |-> cpu[c].now]
           /\ nat'[Held(c)].gen = cpu[c].gen
           /\ nat'[Held(c)].seen = cpu[c].now
           /\ \A t \in Tuples \ {Held(c)} : nat'[t] = nat[t]
           /\ Others(c) /\ cpu'[c] = Idle /\ cpu'[c].pc = "idle"
           /\ fwd' = fwd /\ now' = now /\ gens' = gens
<1>1. /\ cpu[c].pc = "publish" /\ cpu[c].flow \in Flows /\ cpu[c].gen \in Gens
      /\ Held(c) \in Tuples
  BY RunLocals DEF Publish, At, Unmapped
<1>2. Others(c) /\ cpu'[c] = Idle /\ cpu'[c].pc = "idle"
  BY FinishEnds DEF Publish
<1> QED
  BY <1>1, <1>2 DEF Publish, TypeOK

\* A reply stamps the reverse entry of its tuple.
LEMMA ReplyEffect ==
    ASSUME TypeOK, NEW c \in Cpus, NEW t \in Tuples, NEW r \in Remotes, Reply(c, t, r)
    PROVE  /\ nat[t] \in Reverses /\ nat'[t] \in Reverses
           /\ nat'[t].gen = nat[t].gen /\ nat'[t].flow = nat[t].flow
           /\ nat'[t].seen = now
           /\ \A u \in Tuples \ {t} : nat'[u] = nat[u]
           /\ cpu' = cpu /\ fwd' = fwd /\ now' = now /\ gens' = gens
<1>1. nat[t] \in Reverses
  BY DEF Reply, TypeOK
<1> QED
  BY <1>1 DEF Reply, TypeOK, Reverses

\* A timer fires and its callback takes what it needs of the element.
LEMMA FireEffect ==
    ASSUME TypeOK, NEW c \in Cpus, NEW f \in Flows, Fire(c, f)
    PROVE  /\ cpu[c].pc = "idle" /\ cpu[c] = Idle
           /\ fwd[f] \in Cells /\ fwd[f].timer = "started" /\ fwd[f].due =< now
           /\ fwd'[f] \in Cells /\ fwd'[f].timer = "fired"
           /\ fwd'[f].gen = fwd[f].gen /\ fwd'[f].port = fwd[f].port
           /\ fwd'[f].seen = fwd[f].seen /\ fwd'[f].observed = fwd[f].observed
           /\ \A g \in Flows \ {f} : fwd'[g] = fwd[g]
           /\ Others(c) /\ cpu'[c].pc = "look" /\ cpu'[c].flow = f
           /\ cpu'[c].gen = fwd[f].gen /\ cpu'[c].port = fwd[f].port
           /\ cpu'[c].now = now
           /\ nat' = nat /\ now' = now /\ gens' = gens
<1>1. fwd[f] \in Cells
  BY CellTyped DEF Fire
<1> QED
  BY <1>1 DEF Fire, Busy, Idle, TypeOK, Cells, Others

\* A callback starts its timer again, or loses that with its element.
LEMMA RearmEffect ==
    ASSUME TypeOK, NEW c \in Cpus, cpu[c].pc \in {"judge", "reprieve"},
           NEW o, NEW d, Rearm(c, o, d)
    PROVE  /\ Others(c) /\ cpu'[c] = Idle /\ cpu'[c].pc = "idle"
           /\ Attached(c) =>
                /\ cpu[c].flow \in Flows /\ fwd[cpu[c].flow] \in Cells
                /\ fwd'[cpu[c].flow].timer = "started"
                /\ fwd'[cpu[c].flow].due = now + d
                /\ fwd'[cpu[c].flow].observed = o
                /\ fwd'[cpu[c].flow].gen = fwd[cpu[c].flow].gen
                /\ fwd'[cpu[c].flow].port = fwd[cpu[c].flow].port
                /\ fwd'[cpu[c].flow].seen = fwd[cpu[c].flow].seen
                /\ \A g \in Flows \ {cpu[c].flow} : fwd'[g] = fwd[g]
           /\ ~ Attached(c) => fwd' = fwd
           /\ nat' = nat /\ now' = now /\ gens' = gens
<1>1. Others(c) /\ cpu'[c] = Idle /\ cpu'[c].pc = "idle"
  BY FinishEnds DEF Rearm
<1>2. CASE Attached(c)
  <2>1. cpu[c].flow \in Flows /\ fwd[cpu[c].flow] \in Cells
    BY <1>2, AttachedTyped DEF Unmapped
  <2> QED
    BY <1>1, <1>2, <2>1 DEF Rearm, TypeOK, Cells
<1>3. CASE ~ Attached(c)
  BY <1>1, <1>3 DEF Rearm
<1> QED
  BY <1>2, <1>3

\* A callback reads or judges, and writes nothing.
LEMMA LookEffect ==
    ASSUME TypeOK, NEW c \in Cpus, Looks(c)
    PROVE  /\ cpu[c].pc \in Looking \cup Rechecking /\ cpu'[c].pc \in CallbackPcs
           /\ cpu[c].pc \in CallbackPcs
           /\ Others(c)
           /\ cpu'[c].flow = cpu[c].flow /\ cpu'[c].port = cpu[c].port
           /\ cpu'[c].gen = cpu[c].gen /\ cpu'[c].now = cpu[c].now
           /\ fwd' = fwd /\ nat' = nat /\ now' = now /\ gens' = gens
  BY LooksEffect DEF Others, CallbackPcs

\* What each of them does to the locals of its verdict.
LEMMA SeeEffect ==
    ASSUME TypeOK, NEW c \in Cpus, See(c)
    PROVE  /\ cpu[c].pc \in {"look", "recheck"}
           /\ cpu'[c].pc = (IF At(c, "look") THEN "lookback" ELSE "recheckback")
           /\ cpu'[c].seen \in SeenThrough(c) /\ cpu'[c].latest = cpu[c].latest
<1>1. cpu[c].pc \in {"look", "recheck"} /\ cpu[c] \in Runs
  BY RunTyped DEF See
<1> QED
  BY <1>1 DEF See, TypeOK, Runs

\* The first look at the reverse entry, and the second when it finds a packet.
LEMMA SeeReverseEffect ==
    ASSUME TypeOK, NEW c \in Cpus, SeeReverse(c) \/ Doubt(c)
    PROVE  /\ cpu[c].pc = (IF SeeReverse(c) THEN "lookback" ELSE "recheckback")
           /\ cpu'[c].pc = (IF SeeReverse(c) THEN "judge" ELSE "reprieve")
           /\ cpu'[c].latest = Later(cpu[c].seen, ReverseSeen(c))
<1>1. cpu[c].pc \in {"lookback", "recheckback"} /\ cpu[c] \in Runs
  BY RunTyped DEF SeeReverse, Doubt, At
<1> QED
  BY <1>1 DEF SeeReverse, Doubt, At, TypeOK, Runs

\* A second look that finds the stamp of the first.
LEMMA SecondLookEffect ==
    ASSUME TypeOK, NEW c \in Cpus, SecondLook(c)
    PROVE  /\ cpu[c].pc = "judge" /\ Moves(c, "recheck")
           /\ Elapsed(c) >= Timeout
           /\ \E o \in ObservedBy(c) : ~ Unconfirmed(o, cpu[c].latest)
<1>1. cpu[c].pc = "judge" /\ cpu[c] \in Runs
  BY RunTyped DEF SecondLook, At
<1> QED
  BY <1>1, GotoMoves DEF SecondLook

\* The verdict to remove.
LEMMA CondemnEffect ==
    ASSUME TypeOK, NEW c \in Cpus, Condemn(c)
    PROVE  /\ cpu[c].pc = "recheckback"
           /\ Others(c) /\ cpu'[c].pc = "dropnat"
           /\ cpu'[c].flow = cpu[c].flow /\ cpu'[c].port = cpu[c].port
           /\ cpu'[c].gen = cpu[c].gen /\ cpu'[c].now = cpu[c].now
           /\ cpu'[c].latest = cpu[c].latest
           /\ cpu'[c].owns = (nat[Held(c)].gen = cpu[c].gen)
           /\ fwd' = fwd /\ nat' = nat /\ now' = now /\ gens' = gens
<1>1. cpu[c].pc = "recheckback" /\ cpu[c] \in Runs
  BY RunTyped DEF Condemn, At
<1> DEFINE b == nat[Held(c)].gen = cpu[c].gen
<1>2. cpu' = [cpu EXCEPT ![c] = [cpu[c] EXCEPT !.pc = "dropnat", !.owns = b]]
  BY DEF Condemn
<1> HIDE DEF b
<1>3. /\ Others(c) /\ cpu'[c].pc = "dropnat"
      /\ cpu'[c].flow = cpu[c].flow /\ cpu'[c].port = cpu[c].port
      /\ cpu'[c].gen = cpu[c].gen /\ cpu'[c].now = cpu[c].now
      /\ cpu'[c].latest = cpu[c].latest /\ cpu'[c].owns = b
  BY <1>1, <1>2 DEF TypeOK, Runs, Others
<1> QED
  BY <1>1, <1>3 DEF Condemn, b

\* The reverse entry is removed if it was the callback's.
LEMMA DropNatEffect ==
    ASSUME TypeOK, NEW c \in Cpus, DropNat(c)
    PROVE  /\ cpu[c].pc = "dropnat" /\ Held(c) \in Tuples
           /\ Others(c) /\ Moves(c, "dropfwd")
           /\ nat'[Held(c)] = (IF cpu[c].owns THEN None ELSE nat[Held(c)])
           /\ \A t \in Tuples \ {Held(c)} : nat'[t] = nat[t]
           /\ fwd' = fwd /\ now' = now /\ gens' = gens
<1>1. cpu[c].pc = "dropnat" /\ cpu[c] \in Runs /\ Held(c) \in Tuples
  BY RunLocals DEF DropNat, At
<1>2. Others(c) /\ Moves(c, "dropfwd")
  BY <1>1, GotoMoves DEF DropNat
<1> QED
  BY <1>1, <1>2 DEF DropNat, TypeOK

\* A miss changes nothing but the run.
LEMMA MissEffect ==
    ASSUME TypeOK, NEW c \in Cpus, Miss(c)
    PROVE  /\ cpu[c].pc = "lookup" /\ cpu[c].flow \in Flows
           /\ fwd[cpu[c].flow] = None
           /\ Others(c) /\ Moves(c, "alloc")
           /\ fwd' = fwd /\ nat' = nat /\ now' = now /\ gens' = gens
<1>1. cpu[c].pc = "lookup" /\ cpu[c] \in Runs /\ cpu[c].flow \in Flows
  BY RunLocals DEF Miss, At
<1> QED
  BY <1>1, GotoMoves DEF Miss

\* Nor does an arm that fails.
LEMMA ArmFailsEffect ==
    ASSUME TypeOK, NEW c \in Cpus, ArmFails(c)
    PROVE  /\ cpu[c].pc = "arm"
           /\ Others(c) /\ Moves(c, "disarm")
           /\ fwd' = fwd /\ nat' = nat /\ now' = now /\ gens' = gens
<1>1. cpu[c].pc = "arm" /\ cpu[c] \in Runs
  BY RunLocals DEF ArmFails, At
<1> QED
  BY <1>1, GotoMoves DEF ArmFails

\* A failure that ends the run.
LEMMA FailsEffect ==
    ASSUME TypeOK, NEW c \in Cpus, AllocFails(c) \/ InsertFails(c) \/ PublishFails(c)
    PROVE  /\ cpu[c].pc \in {"alloc", "insert", "publish"}
           /\ Others(c) /\ cpu'[c] = Idle /\ cpu'[c].pc = "idle"
           /\ fwd' = fwd /\ nat' = nat /\ now' = now /\ gens' = gens
  BY FinishEnds DEF AllocFails, InsertFails, PublishFails, At

\* A packet arrives.
LEMMA BeginEffect ==
    ASSUME TypeOK, NEW c \in Cpus, NEW f \in Flows, Begin(c, f)
    PROVE  /\ cpu[c].pc = "idle" /\ cpu[c] = Idle
           /\ Others(c) /\ cpu'[c].pc = "lookup" /\ cpu'[c].flow = f
           /\ cpu'[c].now = now
           /\ fwd' = fwd /\ nat' = nat /\ now' = now /\ gens' = gens
  BY DEF Begin, Busy, Idle, TypeOK, Others

\* The three ways a callback starts its timer again.
Rearms(c) == StillUsed(c) \/ FirstLook(c) \/ Reprieve(c)

\* They are the same step but for what they record and the delay.
LEMMA RearmsAs ==
    ASSUME NEW c \in Cpus, Rearms(c)
    PROVE  cpu[c].pc \in {"judge", "reprieve"} /\ \E o, d : Rearm(c, o, d)
  BY DEF Rearms, StillUsed, FirstLook, Reprieve, At

-----------------------------------------------------------------------------
(* The clock.                                                              *)

\* A run has the time of its start, no more than its bound ago.
Prompt ==
    /\ 1 =< now
    /\ \A c \in Cpus : cpu[c].pc # "idle" =>
         /\ 1 =< cpu[c].now /\ cpu[c].now =< now
         /\ now =< cpu[c].now + RunTicks

\* Steps that take no time keep the times of the runs.
LEMMA PromptFrame ==
    ASSUME Prompt, now' = now,
           \A c \in Cpus : cpu'[c].pc # "idle" =>
             cpu[c].pc # "idle" /\ cpu'[c].now = cpu[c].now
    PROVE  Prompt'
  BY DEF Prompt

\* The same for a run that begins.
LEMMA PromptStart ==
    ASSUME TypeOK, Prompt, now' = now, NEW c \in Cpus, Others(c), cpu'[c].now = now
    PROVE  Prompt'
<1>1. now \in Nat /\ RunTicks \in Nat
  BY ParametersAssumption DEF TypeOK
<1> QED
  BY <1>1 DEF Prompt, Others

\* The clock waits for runs at their bound.
LEMMA PromptTick == ASSUME TypeOK, Prompt, Tick PROVE Prompt'
<1>1. now \in Nat /\ RunTicks \in Nat /\ cpu' = cpu /\ now' = now + 1
  BY ParametersAssumption DEF TypeOK, Tick
<1>2. ASSUME NEW c \in Cpus, cpu[c].pc # "idle"
      PROVE  cpu[c].now \in Nat /\ now < cpu[c].now + RunTicks
  BY <1>2, RunLocals DEF Tick, Busy, Idle
<1> QED
  BY <1>1, <1>2 DEF Prompt

\* What a step of CPU c that does not begin a run does to the clock.
Timeless(c) ==
    /\ now' = now
    /\ Others(c)
    /\ cpu'[c].pc # "idle" => cpu[c].pc # "idle" /\ cpu'[c].now = cpu[c].now

\* Every step of a classifier or callback is one.
LEMMA RunTimeless ==
    ASSUME TypeOK, NEW c \in Cpus, Forward(c) \/ Callback(c)
    PROVE  Timeless(c)
<1>1. CASE Hit(c)
  BY <1>1, HitEffect DEF Timeless
<1>2. CASE Miss(c)
  BY <1>2, MissEffect DEF Timeless, Moves
<1>3. CASE \E p \in Ports : Alloc(c, p)
  BY <1>3, AllocEffect DEF Timeless
<1>4. CASE AllocFails(c) \/ InsertFails(c) \/ PublishFails(c)
  BY <1>4, FailsEffect DEF Timeless
<1>5. CASE Insert(c)
  BY <1>5, InsertEffect DEF Timeless, Moves
<1>6. CASE Arm(c)
  BY <1>6, ArmEffect DEF Timeless, Moves
<1>7. CASE ArmFails(c)
  BY <1>7, ArmFailsEffect DEF Timeless, Moves
<1>8. CASE Disarm(c) \/ DropFwd(c)
  BY <1>8, DropEffect DEF Timeless
<1>9. CASE Publish(c)
  BY <1>9, PublishEffect DEF Timeless
<1>10. CASE Rearms(c)
  BY <1>10, RearmsAs, RearmEffect DEF Timeless
<1>11. CASE Looks(c)
  BY <1>11, LookEffect DEF Timeless, CallbackPcs, Looking, Rechecking, Expiring
<1>12. CASE DropNat(c)
  BY <1>12, DropNatEffect DEF Timeless, Moves
<1> QED
  BY <1>1, <1>2, <1>3, <1>4, <1>5, <1>6, <1>7, <1>8, <1>9, <1>10, <1>11,
     <1>12 DEF Forward, Callback, Looks, Rearms

\* The promptness of runs is inductive.
LEMMA PromptStep == TypeOK /\ Prompt /\ [Next]_vars => Prompt'
<1> SUFFICES ASSUME TypeOK, Prompt, [Next]_vars PROVE Prompt'
  OBVIOUS
<1>1. ASSUME NEW c \in Cpus, Forward(c) \/ Callback(c) PROVE Prompt'
  BY <1>1, RunTimeless, PromptFrame DEF Timeless, Others
<1>2. ASSUME NEW c \in Cpus, NEW f \in Flows, Begin(c, f) PROVE Prompt'
  BY <1>2, BeginEffect, PromptStart
<1>3. ASSUME NEW c \in Cpus, NEW f \in Flows, Fire(c, f) PROVE Prompt'
  BY <1>3, FireEffect, PromptStart
<1>4. CASE \/ \E c \in Cpus, t \in Tuples, r \in Remotes : Reply(c, t, r)
           \/ \E f \in Flows : EvictFwd(f)
           \/ \E t \in Tuples : EvictNat(t)
           \/ UNCHANGED vars
  BY <1>4, PromptFrame DEF Reply, EvictFwd, EvictNat, vars
<1> QED
  BY <1>1, <1>2, <1>3, <1>4, PromptTick DEF Next

-----------------------------------------------------------------------------
(* Generations.                                                            *)

\* The run has the generation of a mapping.
Mapped(c) == cpu[c].pc \notin Unmapped \cup {"idle"}

\* Everything that has a generation has a drawn one, and the one of a run
\* at its insert is its own.
FreshGens ==
    /\ \A f \in Flows : fwd[f].gen =< gens
    /\ \A t \in Tuples : nat[t].gen =< gens
    /\ \A c \in Cpus : Mapped(c) => cpu[c].gen =< gens
    /\ \A c \in Cpus : At(c, "insert") =>
         /\ \A f \in Flows : fwd[f].gen # cpu[c].gen
         /\ \A t \in Tuples : nat[t].gen # cpu[c].gen
         /\ \A d \in Cpus \ {c} : Mapped(d) => cpu[d].gen # cpu[c].gen

\* Generations in the maps and of mapped runs.
LEMMA GenTyped ==
    ASSUME TypeOK
    PROVE  /\ \A f \in Flows : fwd[f].gen \in 0 .. MaxGen
           /\ \A t \in Tuples : nat[t].gen \in 0 .. MaxGen
           /\ \A c \in Cpus : Mapped(c) => cpu[c].gen \in Gens
           /\ \A c \in Cpus : At(c, "insert") => Mapped(c)
<1>1. \A f \in Flows : fwd[f].gen \in 0 .. MaxGen
  BY ParametersAssumption DEF TypeOK, Cells, None
<1>2. \A t \in Tuples : nat[t].gen \in 0 .. MaxGen
  BY ParametersAssumption DEF TypeOK, Reverses, None
<1>3. \A c \in Cpus : Mapped(c) => cpu[c].gen \in Gens
  BY RunTyped DEF Mapped
<1>4. \A c \in Cpus : At(c, "insert") => Mapped(c)
  BY DEF Mapped, At, Unmapped
<1> QED
  BY <1>1, <1>2, <1>3, <1>4

\* What a generation in a map may become in a step of c: its own, none, or
\* that of c's mapping.
Regens(c, old, new) == new = old \/ new = 0 \/ (Mapped(c) /\ new = cpu[c].gen)

\* A step of c that draws no generation hands on those there are.
HandsOn(c) ==
    /\ gens' = gens
    /\ Others(c)
    /\ \A f \in Flows : Regens(c, fwd[f].gen, fwd'[f].gen)
    /\ \A t \in Tuples : Regens(c, nat[t].gen, nat'[t].gen)
    /\ cpu'[c].pc # "insert"
    /\ Mapped(c)' => \/ Mapped(c) /\ cpu'[c].gen = cpu[c].gen
                     \/ \E f \in Flows : cpu'[c].gen = fwd[f].gen

\* Such a step leaves a run at its insert the only holder of its own.
LEMMA HandsOnFresh ==
    ASSUME TypeOK, FreshGens, NEW c \in Cpus, HandsOn(c)
    PROVE  FreshGens'
<1>0. gens \in 0 .. MaxGen
  BY DEF TypeOK
<1>1. \A f \in Flows : fwd'[f].gen =< gens'
  BY <1>0 DEF HandsOn, Regens, FreshGens
<1>2. \A t \in Tuples : nat'[t].gen =< gens'
  BY <1>0 DEF HandsOn, Regens, FreshGens
<1>3. ASSUME NEW d \in Cpus, Mapped(d)' PROVE cpu'[d].gen =< gens'
  <2>1. CASE d = c
    BY <1>3, <2>1 DEF HandsOn, FreshGens
  <2>2. CASE d # c
    BY <1>3, <2>2 DEF HandsOn, Others, Mapped, FreshGens
  <2> QED
    BY <2>1, <2>2
<1>4. ASSUME NEW d \in Cpus, At(d, "insert")'
      PROVE  /\ \A f \in Flows : fwd'[f].gen # cpu'[d].gen
             /\ \A t \in Tuples : nat'[t].gen # cpu'[d].gen
             /\ \A e \in Cpus \ {d} : Mapped(e)' => cpu'[e].gen # cpu'[d].gen
  <2>1. d # c
    BY <1>4 DEF HandsOn, At
  <2>2. cpu'[d] = cpu[d] /\ At(d, "insert") /\ cpu[d].gen \in Gens
    BY <1>4, <2>1, GenTyped DEF HandsOn, Others, At
  <2>3. Mapped(c) => cpu[c].gen # cpu[d].gen
    BY <2>1, <2>2 DEF FreshGens
  <2>4. \A f \in Flows : fwd'[f].gen # cpu[d].gen
    BY <2>2, <2>3 DEF HandsOn, Regens, FreshGens
  <2>5. \A t \in Tuples : nat'[t].gen # cpu[d].gen
    BY <2>2, <2>3 DEF HandsOn, Regens, FreshGens
  <2>6. ASSUME NEW e \in Cpus \ {d}, Mapped(e)' PROVE cpu'[e].gen # cpu[d].gen
    <3>1. CASE e = c
      BY <2>2, <2>3, <2>6, <3>1 DEF HandsOn, FreshGens
    <3>2. CASE e # c
      BY <2>2, <2>6, <3>2 DEF HandsOn, Others, Mapped, FreshGens
    <3> QED
      BY <3>1, <3>2
  <2> QED
    BY <2>2, <2>4, <2>5, <2>6
<1> QED
  BY <1>1, <1>2, <1>3, <1>4 DEF FreshGens

\* A drawn generation is past all there are.
LEMMA AllocFresh ==
    ASSUME TypeOK, FreshGens, NEW c \in Cpus, NEW p \in Ports, Alloc(c, p)
    PROVE  FreshGens'
<1>1. /\ gens \in Nat /\ gens' = gens + 1 /\ cpu'[c].gen = gens + 1
      /\ fwd' = fwd /\ nat' = nat /\ Others(c) /\ cpu'[c].pc = "insert"
  BY AllocEffect, ParametersAssumption DEF TypeOK
<1>2. /\ \A f \in Flows : fwd[f].gen \in Nat
      /\ \A t \in Tuples : nat[t].gen \in Nat
      /\ \A d \in Cpus : Mapped(d) => cpu[d].gen \in Nat
  BY GenTyped, ParametersAssumption
<1>3. \A d \in Cpus \ {c} : /\ Mapped(d)' => Mapped(d) /\ cpu'[d].gen = cpu[d].gen
                            /\ At(d, "insert")' => At(d, "insert")
  BY <1>1 DEF Others, Mapped, At
<1>4. \A d \in Cpus : Mapped(d)' => cpu'[d].gen =< gens'
  BY <1>1, <1>2, <1>3 DEF FreshGens
<1>5. ASSUME NEW d \in Cpus, At(d, "insert")'
      PROVE  /\ \A f \in Flows : fwd[f].gen # cpu'[d].gen
             /\ \A t \in Tuples : nat[t].gen # cpu'[d].gen
             /\ \A e \in Cpus \ {d} : Mapped(e)' => cpu'[e].gen # cpu'[d].gen
  <2>1. CASE d = c
    BY <1>1, <1>2, <1>3, <2>1 DEF FreshGens
  <2>2. CASE d # c
    <3>1. At(d, "insert") /\ cpu'[d].gen = cpu[d].gen /\ cpu[d].gen =< gens
          /\ cpu[d].gen \in Nat
      BY <1>1, <1>2, <1>3, <1>5, <2>2, GenTyped DEF FreshGens, Others
    <3> QED
      BY <1>1, <1>3, <3>1 DEF FreshGens
  <2> QED
    BY <2>1, <2>2
<1>6. /\ \A f \in Flows : fwd[f].gen =< gens'
      /\ \A t \in Tuples : nat[t].gen =< gens'
  BY <1>1, <1>2 DEF FreshGens
<1> QED
  BY <1>1, <1>4, <1>5, <1>6 DEF FreshGens

\* The steps of a classifier on FWD_NAT.
LEMMA ForwardHandsOn ==
    ASSUME TypeOK, NEW c \in Cpus, Hit(c) \/ Insert(c) \/ Arm(c)
    PROVE  HandsOn(c)
<1>1. CASE Hit(c)
  <2>1. \A f \in Flows : fwd'[f].gen = fwd[f].gen
    BY <1>1, HitEffect
  <2> QED
    BY <1>1, <2>1, HitEffect DEF HandsOn, Regens
<1>2. CASE Insert(c)
  <2>1. Mapped(c) /\ Others(c) /\ Moves(c, AfterInsert) /\ AfterInsert # "insert"
    BY <1>2, InsertEffect DEF Mapped, Unmapped, AfterInsert
  <2>2. ASSUME NEW f \in Flows PROVE Regens(c, fwd[f].gen, fwd'[f].gen)
    <3>1. CASE f = cpu[c].flow
      <4>1. fwd'[f].gen = cpu[c].gen
        BY <1>2, <3>1, InsertEffect
      <4> QED
        BY <2>1, <4>1 DEF Regens
    <3>2. CASE f # cpu[c].flow
      BY <1>2, <3>2, InsertEffect DEF Regens
    <3> QED
      BY <3>1, <3>2
  <2> QED
    BY <1>2, <2>1, <2>2, InsertEffect DEF HandsOn, Regens, Moves
<1>3. CASE Arm(c)
  <2>1. \A f \in Flows : fwd'[f].gen = fwd[f].gen
    BY <1>3, ArmEffect
  <2>2. Mapped(c)
    BY <1>3, ArmEffect DEF Mapped, Unmapped
  <2> QED
    BY <1>3, <2>1, <2>2, ArmEffect DEF HandsOn, Regens, Moves
<1> QED
  BY <1>1, <1>2, <1>3

\* The steps of a classifier or callback that end its run.
LEMMA EndingHandsOn ==
    ASSUME TypeOK, NEW c \in Cpus,
           \/ Disarm(c) \/ DropFwd(c) \/ Publish(c) \/ Rearms(c)
           \/ AllocFails(c) \/ InsertFails(c) \/ PublishFails(c)
    PROVE  HandsOn(c)
<1>1. CASE Disarm(c) \/ DropFwd(c)
  <2>1. \A f \in Flows : fwd'[f].gen = fwd[f].gen \/ fwd'[f].gen = 0
    BY <1>1, DropEffect DEF None
  <2> QED
    BY <1>1, <2>1, DropEffect DEF HandsOn, Regens, Mapped
<1>2. CASE Publish(c)
  <2>1. Mapped(c)
    BY <1>2, PublishEffect DEF Mapped, Unmapped
  <2>2. ASSUME NEW t \in Tuples PROVE Regens(c, nat[t].gen, nat'[t].gen)
    <3>1. CASE t = Held(c)
      <4>1. nat'[t].gen = cpu[c].gen
        BY <1>2, <3>1, PublishEffect
      <4> QED
        BY <2>1, <4>1 DEF Regens
    <3>2. CASE t # Held(c)
      BY <1>2, <3>2, PublishEffect DEF Regens
    <3> QED
      BY <3>1, <3>2
  <2> QED
    BY <1>2, <2>2, PublishEffect DEF HandsOn, Regens, Mapped
<1>3. CASE Rearms(c)
  <2>1. \A f \in Flows : fwd'[f].gen = fwd[f].gen
    BY <1>3, RearmsAs, RearmEffect
  <2> QED
    BY <1>3, <2>1, RearmsAs, RearmEffect DEF HandsOn, Regens, Mapped
<1>4. CASE AllocFails(c) \/ InsertFails(c) \/ PublishFails(c)
  BY <1>4, FailsEffect DEF HandsOn, Regens, Mapped
<1> QED
  BY <1>1, <1>2, <1>3, <1>4

\* The steps that go on, and those that begin a run.
LEMMA QuietHandsOn ==
    ASSUME TypeOK, NEW c \in Cpus,
           \/ Miss(c) \/ ArmFails(c) \/ Looks(c) \/ DropNat(c)
           \/ \E f \in Flows : Begin(c, f) \/ Fire(c, f)
    PROVE  HandsOn(c)
<1>1. CASE Miss(c)
  BY <1>1, MissEffect DEF HandsOn, Regens, Moves, Mapped, Unmapped
<1>2. CASE ArmFails(c)
  BY <1>2, ArmFailsEffect DEF HandsOn, Regens, Moves, Mapped, Unmapped
<1>3. CASE Looks(c)
  BY <1>3, LookEffect DEF HandsOn, Regens, Mapped, Unmapped, CallbackPcs, Looking,
     Rechecking, Expiring
<1>5. CASE DropNat(c)
  <2>1. \A t \in Tuples : nat'[t].gen = nat[t].gen \/ nat'[t].gen = 0
    BY <1>5, DropNatEffect DEF None
  <2> QED
    BY <1>5, <2>1, DropNatEffect DEF HandsOn, Regens, Moves, Mapped, Unmapped
<1>6. ASSUME NEW f \in Flows, Begin(c, f) PROVE HandsOn(c)
  BY <1>6, BeginEffect DEF HandsOn, Regens, Mapped, Unmapped
<1>7. ASSUME NEW f \in Flows, Fire(c, f) PROVE HandsOn(c)
  <2>1. \A g \in Flows : fwd'[g].gen = fwd[g].gen
    BY <1>7, FireEffect
  <2> QED
    BY <1>7, <2>1, FireEffect DEF HandsOn, Regens
<1> QED
  BY <1>1, <1>2, <1>3, <1>5, <1>6, <1>7

\* Steps of no run add no generation.
LEMMA EnvironmentFresh ==
    ASSUME TypeOK, FreshGens, gens' = gens, cpu' = cpu,
           \A f \in Flows : fwd'[f].gen # fwd[f].gen => fwd'[f].gen = 0,
           \A t \in Tuples : nat'[t].gen # nat[t].gen => nat'[t].gen = 0
    PROVE  FreshGens'
<1>1. gens \in Nat
  BY ParametersAssumption DEF TypeOK
<1>2. \A c \in Cpus : At(c, "insert") => cpu[c].gen # 0
  BY GenTyped
<1> QED
  BY <1>1, <1>2 DEF FreshGens, Mapped, At

\* The freshness of generations is inductive.
LEMMA FreshStep == TypeOK /\ FreshGens /\ [Next]_vars => FreshGens'
<1> SUFFICES ASSUME TypeOK, FreshGens, [Next]_vars PROVE FreshGens'
  OBVIOUS
<1>1. ASSUME NEW c \in Cpus, NEW p \in Ports, Alloc(c, p) PROVE FreshGens'
  BY <1>1, AllocFresh
<1>2. ASSUME NEW c \in Cpus, HandsOn(c) PROVE FreshGens'
  BY <1>2, HandsOnFresh
<1>3. ASSUME NEW c \in Cpus, Forward(c) PROVE FreshGens'
  BY <1>1, <1>2, <1>3, ForwardHandsOn, EndingHandsOn, QuietHandsOn DEF Forward
<1>4. ASSUME NEW c \in Cpus, Callback(c) PROVE FreshGens'
  BY <1>2, <1>4, EndingHandsOn, QuietHandsOn DEF Callback, Looks, Rearms
<1>5. ASSUME NEW c \in Cpus, NEW f \in Flows, Begin(c, f) \/ Fire(c, f)
      PROVE  FreshGens'
  BY <1>2, <1>5, QuietHandsOn
<1>6. ASSUME NEW c \in Cpus, NEW t \in Tuples, NEW r \in Remotes, Reply(c, t, r)
      PROVE  FreshGens'
  BY <1>6, ReplyEffect, EnvironmentFresh
<1>7. ASSUME NEW f \in Flows, EvictFwd(f) PROVE FreshGens'
  BY <1>7, EnvironmentFresh DEF EvictFwd, Removed, None, TypeOK
<1>8. ASSUME NEW t \in Tuples, EvictNat(t) PROVE FreshGens'
  BY <1>8, EnvironmentFresh DEF EvictNat, None, TypeOK
<1>9. CASE Tick \/ UNCHANGED vars
  BY <1>9, EnvironmentFresh DEF Tick, vars
<1> QED
  BY <1>3, <1>4, <1>5, <1>6, <1>7, <1>8, <1>9 DEF Next

-----------------------------------------------------------------------------
(* What an element says of its timer.                                      *)

\* Timers and callbacks exist only with a timeout.
Timed == \A c \in Cpus : cpu[c].pc \in CallbackPcs \cup {"arm"} => Timeout # 0

\* An element has been stamped; the stamp its callback has observed is old
\* enough by the time it is due again.
Fine(x) ==
    /\ 1 =< x.seen
    /\ x.timer = "unarmed" => x.observed = 0
    /\ x.timer = "started" =>
         /\ Timeout # 0
         /\ x.observed # 0 => x.observed + Timeout + Confirm =< x.due
Stamped == \A f \in Flows : fwd[f] # None => Fine(fwd[f])

\* The elements stay fine when the one of f is, or goes.
LEMMA FineFrame ==
    ASSUME Stamped, NEW f \in Flows, fwd'[f] # None => Fine(fwd'[f]),
           \A g \in Flows \ {f} : fwd'[g] = fwd[g]
    PROVE  Stamped'
<1>1. ASSUME NEW g \in Flows, fwd'[g] # None PROVE Fine(fwd'[g])
  BY <1>1 DEF Stamped
<1> QED
  BY <1>1 DEF Stamped, Fine

\* The classifier's steps on an element.
LEMMA ForwardFine ==
    ASSUME TypeOK, Prompt, Timed, Stamped, NEW c \in Cpus,
           Hit(c) \/ Insert(c) \/ Arm(c)
    PROVE  Stamped'
<1> DEFINE f == cpu[c].flow
<1>0. f \in Flows /\ 1 =< cpu[c].now /\ \A g \in Flows \ {f} : fwd'[g] = fwd[g]
  BY HitEffect, InsertEffect, ArmEffect DEF Prompt
<1>1. CASE Hit(c)
  <2>1. fwd[f] # None
    BY <1>1 DEF Hit
  <2>2. Fine(fwd[f])
    BY <1>0, <2>1 DEF Stamped
  <2>3. Fine(fwd'[f])
    BY <1>0, <1>1, <2>2, HitEffect DEF Fine
  <2> QED
    BY <1>0, <2>3, FineFrame
<1>2. CASE Insert(c)
  <2>1. /\ fwd'[f].seen = cpu[c].now /\ fwd'[f].observed = 0
        /\ fwd'[f].timer = "unarmed"
    BY <1>2, InsertEffect
  <2>2. Fine(fwd'[f])
    BY <1>0, <2>1 DEF Fine
  <2> QED
    BY <1>0, <2>2, FineFrame
<1>3. CASE Arm(c)
  <2>1. Timeout # 0
    BY <1>3, ArmEffect DEF Timed
  <2>2. fwd[f] # None
    BY <1>3 DEF Arm, Armable
  <2>3. Fine(fwd[f])
    BY <1>0, <2>2 DEF Stamped
  <2>4. fwd[f].observed = 0
    BY <1>3, <2>3, ArmEffect DEF Fine
  <2>5. Fine(fwd'[f])
    BY <1>3, <2>1, <2>3, <2>4, ArmEffect DEF Fine
  <2> QED
    BY <1>0, <2>5, FineFrame
<1> QED
  BY <1>1, <1>2, <1>3

\* What a callback records when it starts its timer again is old enough at
\* the time it sets.
LEMMA RearmsDue ==
    ASSUME TypeOK, Prompt, Timed, NEW c \in Cpus, Rearms(c)
    PROVE  /\ cpu[c].pc \in {"judge", "reprieve"} /\ Timeout # 0
           /\ \E o, d : /\ Rearm(c, o, d)
                        /\ o # 0 => o + Timeout + Confirm =< now + d
<1>1. cpu[c].pc \in {"judge", "reprieve"}
  BY RearmsAs
<1>2. Timeout # 0 /\ Timeout \in Nat /\ Confirm \in Nat
  BY <1>1, ParametersAssumption DEF Timed, CallbackPcs, Looking
<1>3. CASE StillUsed(c) \/ Reprieve(c)
  <2>1. \E d : Rearm(c, 0, d)
    BY <1>3 DEF StillUsed, Reprieve
  <2> QED
    BY <1>1, <1>2, <2>1
<1>4. CASE FirstLook(c)
  <2> DEFINE latest == cpu[c].latest
  <2>2. latest \in Nat /\ cpu[c].now \in Nat /\ now \in Nat
    BY <1>1, ReadsTyped DEF Unmapped, TypeOK
  <2>3. Minus(cpu[c].now, latest) >= Timeout /\ Rearm(c, latest, Confirm)
    BY <1>4 DEF FirstLook, Elapsed
  <2> HIDE DEF latest
  <2>4. latest + Timeout =< cpu[c].now
    BY <1>2, <2>2, <2>3 DEF Minus
  <2>5. cpu[c].now =< now
    BY <1>1 DEF Prompt
  <2>6. latest + Timeout + Confirm =< now + Confirm
    BY <1>2, <2>2, <2>4, <2>5
  <2> QED
    BY <1>1, <1>2, <2>3, <2>6
<1> QED
  BY <1>3, <1>4 DEF Rearms

\* A timer that is started again leaves a fine element.
LEMMA RearmsFine ==
    ASSUME TypeOK, Prompt, Timed, Stamped, NEW c \in Cpus, Rearms(c)
    PROVE  Stamped'
<1>1. PICK o, d : Rearm(c, o, d) /\ (o # 0 => o + Timeout + Confirm =< now + d)
  BY RearmsDue
<1>2. cpu[c].pc \in {"judge", "reprieve"} /\ Timeout # 0
  BY RearmsDue
<1>3. CASE ~ Attached(c)
  BY <1>1, <1>2, <1>3, RearmEffect DEF Stamped
<1>4. CASE Attached(c)
  <2> DEFINE f == cpu[c].flow
  <2>1. /\ f \in Flows /\ fwd[f] # None /\ fwd'[f].timer = "started"
        /\ fwd'[f].due = now + d /\ fwd'[f].observed = o
        /\ fwd'[f].seen = fwd[f].seen /\ \A g \in Flows \ {f} : fwd'[g] = fwd[g]
    <3>1. /\ f \in Flows /\ fwd'[f].timer = "started"
          /\ fwd'[f].due = now + d /\ fwd'[f].observed = o
          /\ fwd'[f].seen = fwd[f].seen /\ \A g \in Flows \ {f} : fwd'[g] = fwd[g]
      BY <1>1, <1>2, <1>4, RearmEffect
    <3>2. cpu[c].gen # 0 /\ fwd[f].gen = cpu[c].gen
      BY <1>2, <1>4, RunLocals DEF Unmapped, Attached
    <3> QED
      BY <3>1, <3>2 DEF None
  <2>2. Fine(fwd[f])
    BY <2>1 DEF Stamped
  <2>3. Fine(fwd'[f])
    BY <1>1, <1>2, <2>1, <2>2 DEF Fine
  <2> QED
    BY <2>1, <2>3, FineFrame
<1> QED
  BY <1>3, <1>4

\* The state of the elements' timers is inductive.
LEMMA StampedStep ==
    TypeOK /\ Prompt /\ Timed /\ Stamped /\ [Next]_vars => Stamped'
<1> SUFFICES ASSUME TypeOK, Prompt, Timed, Stamped, [Next]_vars PROVE Stamped'
  OBVIOUS
<1>1. ASSUME fwd' = fwd PROVE Stamped'
  BY <1>1 DEF Stamped
<1>2. ASSUME NEW c \in Cpus, Disarm(c) \/ DropFwd(c) PROVE Stamped'
  BY <1>2, DropEffect, FineFrame
<1>3. ASSUME NEW c \in Cpus, Forward(c) PROVE Stamped'
  BY <1>1, <1>2, <1>3, ForwardFine DEF Forward, Miss, Alloc, AllocFails,
     InsertFails, ArmFails, Publish, PublishFails
<1>4. ASSUME NEW c \in Cpus, Callback(c) PROVE Stamped'
  BY <1>1, <1>2, <1>4, RearmsFine, LookEffect DEF Callback, Looks, Rearms, DropNat
<1>5. ASSUME NEW c \in Cpus, NEW f \in Flows, Fire(c, f) PROVE Stamped'
  <2>1. Fine(fwd[f])
    BY <1>5 DEF Fire, Stamped
  <2>2. Fine(fwd'[f])
    BY <1>5, <2>1, FireEffect DEF Fine
  <2> QED
    BY <1>5, <2>2, FireEffect, FineFrame
<1>6. ASSUME NEW f \in Flows, EvictFwd(f) PROVE Stamped'
  BY <1>6, FineFrame DEF EvictFwd, Removed, TypeOK
<1>7. CASE \/ \E c \in Cpus, f \in Flows : Begin(c, f)
           \/ \E c \in Cpus, t \in Tuples, r \in Remotes : Reply(c, t, r)
           \/ \E t \in Tuples : EvictNat(t)
           \/ Tick \/ UNCHANGED vars
  BY <1>1, <1>7 DEF Begin, Reply, EvictNat, Tick, vars
<1> QED
  BY <1>3, <1>4, <1>5, <1>6, <1>7 DEF Next

\* That only timers need callbacks is inductive with it.
LEMMA TimedStep == TypeOK /\ Timed /\ Stamped /\ [Next]_vars => Timed'
<1> SUFFICES ASSUME TypeOK, Timed, Stamped, [Next]_vars, Timeout = 0 PROVE Timed'
  BY DEF Timed
<1> DEFINE Due(d) == cpu[d].pc \in CallbackPcs \cup {"arm"}
<1>0. \A d \in Cpus : ~ Due(d)
  BY DEF Timed
<1>1. SUFFICES ASSUME NEW d \in Cpus, Due(d)' PROVE FALSE
  BY DEF Timed
<1>2. ASSUME NEW c \in Cpus, Others(c), cpu'[c].pc \in {"idle", "alloc", "insert", "publish", "disarm", "lookup"}
      PROVE  FALSE
  BY <1>0, <1>1, <1>2 DEF Others, CallbackPcs, Looking, Rechecking, Expiring
<1>3. ASSUME NEW c \in Cpus, Forward(c) PROVE FALSE
  <2>1. CASE Hit(c) \/ Miss(c) \/ \E p \in Ports : Alloc(c, p)
    BY <1>2, <2>1, HitEffect, MissEffect, AllocEffect DEF Moves
  <2>2. CASE Insert(c)
    BY <1>2, <2>2, InsertEffect DEF Moves, AfterInsert
  <2>3. CASE AllocFails(c) \/ InsertFails(c) \/ PublishFails(c)
    BY <1>2, <2>3, FailsEffect
  <2>4. CASE Arm(c) \/ ArmFails(c)
    BY <1>2, <2>4, ArmEffect, ArmFailsEffect DEF Moves
  <2>5. CASE Disarm(c) \/ Publish(c)
    BY <1>2, <2>5, DropEffect, PublishEffect
  <2> QED
    BY <1>3, <2>1, <2>2, <2>3, <2>4, <2>5 DEF Forward
<1>4. ASSUME NEW c \in Cpus, Callback(c) PROVE FALSE
  BY <1>0, <1>4, LookEffect, RearmsAs DEF Callback, Looks, Rearms, DropNat, DropFwd,
     At, CallbackPcs, Looking, Expiring
<1>5. ASSUME NEW c \in Cpus, NEW f \in Flows, Begin(c, f) PROVE FALSE
  BY <1>2, <1>5, BeginEffect
<1>6. ASSUME NEW c \in Cpus, NEW f \in Flows, Fire(c, f) PROVE FALSE
  BY <1>6 DEF Fire, Stamped, Fine
<1>7. CASE cpu' = cpu
  BY <1>0, <1>1, <1>7
<1>8. CASE \/ \E c \in Cpus, t \in Tuples, r \in Remotes : Reply(c, t, r)
           \/ \E f \in Flows : EvictFwd(f)
           \/ \E t \in Tuples : EvictNat(t)
           \/ Tick \/ UNCHANGED vars
  BY <1>7, <1>8 DEF Reply, EvictFwd, EvictNat, Tick, vars
<1> QED
  BY <1>3, <1>4, <1>5, <1>6, <1>8 DEF Next

-----------------------------------------------------------------------------
(* What a callback knows of the element it was called for.                 *)

\* A stamp no later than t, or one set since about when the callback began.
Since(c, s, t) == s =< t \/ cpu[c].now =< s + RunTicks
Judged(c, s) == Since(c, s, cpu[c].latest)

\* The callback on c has the element of f: its timer is spent, and what the
\* callback has found of its stamps still holds, but for packets since.
Sees(c, f) ==
    /\ fwd[f].timer = "fired" /\ fwd[f].port = cpu[c].port
    /\ cpu[c].pc \in Looking /\ fwd[f].observed # 0 =>
         fwd[f].observed + Timeout + Confirm =< cpu[c].now
    /\ At(c, "lookback") => 1 =< cpu[c].seen
    /\ At(c, "judge") => 1 =< cpu[c].latest
    /\ cpu[c].pc \in Rechecking \cup Expiring =>
         cpu[c].latest + Timeout + Confirm =< cpu[c].now
    /\ At(c, "recheckback") => Since(c, fwd[f].seen, cpu[c].seen)
    /\ cpu[c].pc \in Expiring =>
         /\ Judged(c, fwd[f].seen)
         /\ nat[Held(c)].gen = cpu[c].gen => Judged(c, nat[Held(c)].seen)

\* One callback for an element.
Watched ==
    \A c \in Cpus, f \in Flows : Watches(c, f) =>
      /\ Sees(c, f)
      /\ \A d \in Cpus : Watches(d, f) => c = d

\* What the steps of others leave of what the callback on d sees of f.
Unmoved(d, f) ==
    /\ cpu'[d] = cpu[d]
    /\ fwd'[f].timer = fwd[f].timer /\ fwd'[f].port = fwd[f].port
    /\ fwd'[f].observed # fwd[f].observed => fwd'[f].observed = 0
    /\ fwd'[f].seen # fwd[f].seen => cpu[d].now =< fwd'[f].seen + RunTicks
    /\ nat'[Held(d)] # nat[Held(d)] /\ nat'[Held(d)].gen = cpu[d].gen =>
         cpu[d].now =< nat'[Held(d)].seen + RunTicks

\* That is enough for it to be true still.
LEMMA UnmovedSees ==
    ASSUME NEW d \in Cpus, NEW f \in Flows, Sees(d, f), Unmoved(d, f)
    PROVE  Sees(d, f)'
<1>1. Held(d)' = Held(d)
  BY DEF Held, Unmoved
<1>2. /\ fwd'[f].timer = "fired" /\ fwd'[f].port = cpu'[d].port
      /\ cpu'[d].pc \in Looking /\ fwd'[f].observed # 0 =>
           fwd'[f].observed + Timeout + Confirm =< cpu'[d].now
      /\ At(d, "lookback")' => 1 =< cpu'[d].seen
      /\ At(d, "judge")' => 1 =< cpu'[d].latest
      /\ cpu'[d].pc \in Rechecking \cup Expiring =>
           cpu'[d].latest + Timeout + Confirm =< cpu'[d].now
  BY DEF Unmoved, Sees, At
<1>2a. At(d, "recheckback")' => Since(d, fwd[f].seen, cpu[d].seen)'
  BY DEF Unmoved, Sees, At, Since
<1>3. ASSUME cpu'[d].pc \in Expiring
      PROVE  /\ Judged(d, fwd[f].seen)'
             /\ nat'[Held(d)].gen = cpu'[d].gen => Judged(d, nat[Held(d)].seen)'
  <2>1. Judged(d, fwd[f].seen) /\ (nat[Held(d)].gen = cpu[d].gen => Judged(d, nat[Held(d)].seen))
    BY <1>3 DEF Unmoved, Sees
  <2>2. Judged(d, fwd[f].seen)'
    BY <2>1 DEF Unmoved, Judged, Since
  <2>3. ASSUME nat'[Held(d)].gen = cpu'[d].gen PROVE Judged(d, nat[Held(d)].seen)'
    <3>1. CASE nat'[Held(d)] = nat[Held(d)]
      BY <1>1, <2>1, <2>3, <3>1 DEF Unmoved, Judged, Since
    <3>2. CASE nat'[Held(d)] # nat[Held(d)]
      BY <1>1, <2>3, <3>2 DEF Unmoved, Judged, Since
    <3> QED
      BY <3>1, <3>2
  <2> QED
    BY <2>2, <2>3
<1> QED
  BY <1>1, <1>2, <1>2a, <1>3 DEF Sees

\* A step of c keeps the invariant if others see what they did, and c is
\* right about an element it had, or that nobody had.
LEMMA WatchedFrame ==
    ASSUME Watched, NEW c \in Cpus,
           \A d \in Cpus \ {c}, f \in Flows :
             Watches(d, f)' => Watches(d, f) /\ Unmoved(d, f),
           \A f \in Flows : Watches(c, f)' =>
             Sees(c, f)' /\ \A d \in Cpus \ {c} : ~ Watches(d, f)
    PROVE  Watched'
<1>1. ASSUME NEW d \in Cpus, NEW f \in Flows, Watches(d, f)' PROVE Sees(d, f)'
  BY <1>1, UnmovedSees DEF Watched
<1>2. ASSUME NEW d \in Cpus, NEW e \in Cpus, NEW f \in Flows,
             Watches(d, f)', Watches(e, f)'
      PROVE  d = e
  BY <1>2 DEF Watched
<1> QED
  BY <1>1, <1>2 DEF Watched

\* Two runs at once are not far apart.
LEMMA RunsOverlap ==
    ASSUME TypeOK, Prompt, NEW c \in Cpus, NEW d \in Cpus,
           cpu[c].pc # "idle", cpu[d].pc # "idle"
    PROVE  cpu[d].now =< cpu[c].now + RunTicks
<1>1. /\ cpu[c].now \in Nat /\ cpu[d].now \in Nat /\ now \in Nat /\ RunTicks \in Nat
      /\ cpu[d].now =< now /\ now =< cpu[c].now + RunTicks
  BY RunLocals, ParametersAssumption DEF Prompt, TypeOK
<1> QED
  BY <1>1

\* A callback of another CPU whose element and entry are not touched.
LEMMA ApartUnmoved ==
    ASSUME NEW c \in Cpus, NEW d \in Cpus \ {c}, NEW f \in Flows, Others(c),
           fwd'[f] = fwd[f], nat'[Held(d)] = nat[Held(d)], Watches(d, f)'
    PROVE  Watches(d, f) /\ Unmoved(d, f)
  BY DEF Others, Watches, Unmoved

\* The same for a step that leaves both maps alone.
LEMMA MapsUnmoved ==
    ASSUME NEW c \in Cpus, Others(c), fwd' = fwd, nat' = nat
    PROVE  \A d \in Cpus \ {c}, f \in Flows :
             Watches(d, f)' => Watches(d, f) /\ Unmoved(d, f)
  BY ApartUnmoved

\* A run that is no callback sees nothing.
LEMMA NoWatch ==
    ASSUME NEW c \in Cpus, cpu[c].pc \notin CallbackPcs
    PROVE  \A f \in Flows : ~ Watches(c, f)
  BY DEF Watches

\* A hit stamps the element under a callback that is judging it.
LEMMA HitUnmoved ==
    ASSUME TypeOK, Prompt, NEW c \in Cpus, Hit(c), NEW d \in Cpus \ {c},
           NEW f \in Flows, Watches(d, f)'
    PROVE  Watches(d, f) /\ Unmoved(d, f)
<1>1. Others(c) /\ nat' = nat
  BY HitEffect
<1>2. CASE f # cpu[c].flow
  BY <1>1, <1>2, HitEffect, ApartUnmoved
<1>3. CASE f = cpu[c].flow
  <2>1. /\ fwd'[f].gen = fwd[f].gen /\ fwd'[f].timer = fwd[f].timer
        /\ fwd'[f].port = fwd[f].port /\ fwd'[f].observed = 0
        /\ fwd'[f].seen = cpu[c].now /\ cpu[c].pc = "lookup"
    BY <1>3, HitEffect
  <2>2. cpu'[d] = cpu[d] /\ Watches(d, f)
    BY <1>1, <2>1 DEF Others, Watches
  <2>3. cpu[d].now =< cpu[c].now + RunTicks
    BY <2>1, <2>2, RunsOverlap DEF Watches, CallbackPcs, Looking, Rechecking, Expiring
  <2> QED
    BY <1>1, <2>1, <2>2, <2>3 DEF Unmoved
<1> QED
  BY <1>2, <1>3

\* No callback has the element that is inserted.
LEMMA InsertUnmoved ==
    ASSUME TypeOK, FreshGens, NEW c \in Cpus, Insert(c), NEW d \in Cpus \ {c},
           NEW f \in Flows, Watches(d, f)'
    PROVE  Watches(d, f) /\ Unmoved(d, f)
<1>1. Others(c) /\ nat' = nat /\ At(c, "insert")
  BY InsertEffect DEF At
<1>2. CASE f # cpu[c].flow
  BY <1>1, <1>2, InsertEffect, ApartUnmoved
<1>3. CASE f = cpu[c].flow
  <2>1. fwd'[f].gen = cpu[c].gen
    BY <1>3, InsertEffect
  <2>2. cpu'[d] = cpu[d] /\ Mapped(d) /\ cpu[d].gen = cpu[c].gen
    BY <1>1, <2>1
       DEF Others, Watches, CallbackPcs, Looking, Rechecking, Expiring, Mapped, Unmapped
  <2> QED
    BY <1>1, <2>2 DEF FreshGens
<1> QED
  BY <1>2, <1>3

\* The timer that is started, or that fires, is not that of an element with
\* a callback at work.
LEMMA TimerUnmoved ==
    ASSUME TypeOK, Watched, NEW c \in Cpus, NEW g \in Flows,
           (Arm(c) /\ g = cpu[c].flow) \/ Fire(c, g),
           NEW d \in Cpus \ {c}, NEW f \in Flows, Watches(d, f)'
    PROVE  Watches(d, f) /\ Unmoved(d, f) /\ f # g
<1>1. /\ Others(c) /\ nat' = nat /\ fwd[g].timer # "fired" /\ fwd'[g].gen = fwd[g].gen
      /\ \A h \in Flows \ {g} : fwd'[h] = fwd[h]
  BY ArmEffect, FireEffect
<1>2. f # g
  <2>1. SUFFICES ASSUME f = g PROVE FALSE
    OBVIOUS
  <2>2. Watches(d, f)
    BY <1>1, <2>1 DEF Others, Watches
  <2> QED
    BY <1>1, <2>1, <2>2 DEF Watched, Sees
<1> QED
  BY <1>1, <1>2, ApartUnmoved

\* The callback that starts its timer again is the only one.
LEMMA RearmUnmoved ==
    ASSUME TypeOK, Watched, NEW c \in Cpus, Rearms(c), NEW d \in Cpus \ {c},
           NEW f \in Flows, Watches(d, f)'
    PROVE  Watches(d, f) /\ Unmoved(d, f)
<1>1. PICK o, e : Rearm(c, o, e)
  BY RearmsAs
<1>2. cpu[c].pc \in {"judge", "reprieve"}
  BY RearmsAs
<1>3. Others(c) /\ nat' = nat
  BY <1>1, <1>2, RearmEffect
<1>4. CASE ~ Attached(c)
  BY <1>1, <1>2, <1>3, <1>4, RearmEffect, MapsUnmoved
<1>5. CASE Attached(c) /\ f # cpu[c].flow
  BY <1>1, <1>2, <1>3, <1>5, RearmEffect, ApartUnmoved
<1>6. CASE Attached(c) /\ f = cpu[c].flow
  <2>1. Watches(c, f)
    BY <1>2, <1>6 DEF Attached, Watches, CallbackPcs, Looking
  <2>2. fwd'[f].gen = fwd[f].gen
    BY <1>1, <1>2, <1>6, RearmEffect
  <2>3. Watches(d, f)
    BY <1>3, <2>2 DEF Others, Watches
  <2> QED
    BY <2>1, <2>3 DEF Watched
<1> QED
  BY <1>4, <1>5, <1>6

\* A removed element has no callback; the others keep theirs.
LEMMA DropUnmoved ==
    ASSUME TypeOK, NEW c \in Cpus, Disarm(c) \/ DropFwd(c), NEW d \in Cpus \ {c},
           NEW f \in Flows, Watches(d, f)'
    PROVE  Watches(d, f) /\ Unmoved(d, f)
<1>1. Others(c) /\ nat' = nat
  BY DropEffect
<1>2. cpu'[d] = cpu[d] /\ cpu[d].gen # 0
  BY <1>1, RunLocals
     DEF Others, Watches, CallbackPcs, Looking, Rechecking, Expiring, Unmapped
<1>3. f # cpu[c].flow
  BY <1>2, DropEffect DEF Watches, None
<1> QED
  BY <1>1, <1>3, DropEffect, ApartUnmoved

\* A reverse entry that is replaced gets a time, or a generation, that the
\* callback which looked at it need not mind.
LEMMA EntryUnmoved ==
    ASSUME TypeOK, Prompt, NEW c \in Cpus, Publish(c) \/ DropNat(c),
           NEW d \in Cpus \ {c}, NEW f \in Flows, Watches(d, f)'
    PROVE  Watches(d, f) /\ Unmoved(d, f)
<1>1. Others(c) /\ fwd' = fwd /\ cpu[c].pc # "idle"
  BY PublishEffect, DropNatEffect
<1>2. cpu'[d] = cpu[d] /\ Watches(d, f)
  BY <1>1 DEF Others, Watches
<1>3. Held(d) \in Tuples /\ cpu[d].gen # 0 /\ cpu[d].pc # "idle"
  BY <1>2, RunLocals DEF Watches, CallbackPcs, Looking, Rechecking, Expiring, Unmapped
<1>4. CASE nat'[Held(d)] = nat[Held(d)]
  BY <1>1, <1>4, ApartUnmoved
<1>5. CASE nat'[Held(d)] # nat[Held(d)] /\ Publish(c)
  <2>1. nat'[Held(d)].seen = cpu[c].now
    BY <1>3, <1>5, PublishEffect
  <2>2. cpu[d].now =< cpu[c].now + RunTicks
    BY <1>1, <1>3, RunsOverlap
  <2> QED
    BY <1>1, <1>2, <2>1, <2>2 DEF Unmoved
<1>6. CASE nat'[Held(d)] # nat[Held(d)] /\ DropNat(c)
  <2>1. nat'[Held(d)].gen = 0
    BY <1>3, <1>6, DropNatEffect DEF None
  <2> QED
    BY <1>1, <1>2, <1>3, <2>1 DEF Unmoved
<1> QED
  BY <1>4, <1>5, <1>6

\* A timer that is due finds the observed stamp old enough.
LEMMA FireSees ==
    ASSUME TypeOK, Stamped, NEW c \in Cpus, NEW g \in Flows, Fire(c, g),
           NEW f \in Flows, Watches(c, f)'
    PROVE  Sees(c, f)' /\ f = g
<1>1. /\ cpu'[c].pc = "look" /\ cpu'[c].flow = g /\ cpu'[c].now = now
      /\ cpu'[c].port = fwd[g].port /\ fwd'[g].port = fwd[g].port
      /\ fwd'[g].timer = "fired" /\ fwd'[g].observed = fwd[g].observed
      /\ fwd[g].due =< now /\ fwd[g].timer = "started" /\ fwd[g] \in Cells
  BY FireEffect
<1>2. f = g
  BY <1>1 DEF Watches
<1>3. /\ fwd[g].observed \in Nat /\ fwd[g].due \in Nat /\ now \in Nat
      /\ Timeout \in Nat /\ Confirm \in Nat
  BY <1>1, ParametersAssumption DEF Cells, TypeOK
<1>4. fwd[g].observed # 0 => fwd[g].observed + Timeout + Confirm =< fwd[g].due
  BY <1>1, CellTyped DEF Stamped, Fine, Fire
<1>5. fwd'[g].observed # 0 => fwd'[g].observed + Timeout + Confirm =< cpu'[c].now
  BY <1>1, <1>3, <1>4
<1> QED
  BY <1>1, <1>2, <1>5 DEF Sees, At, Looking, Rechecking, Expiring

\* A callback that reads and judges gets its verdict right about the
\* element it is called for.
LEMMA LookSees ==
    ASSUME TypeOK, Stamped, Watched, NEW c \in Cpus, Looks(c),
           NEW f \in Flows, Watches(c, f)'
    PROVE  Sees(c, f)' /\ Watches(c, f)
<1> USE DEF Looking, Rechecking, Expiring
<1>1. /\ cpu[c].pc \in Looking \cup Rechecking /\ cpu[c].pc \in CallbackPcs
      /\ cpu'[c].port = cpu[c].port
      /\ cpu'[c].flow = cpu[c].flow /\ cpu'[c].gen = cpu[c].gen
      /\ cpu'[c].now = cpu[c].now /\ fwd' = fwd /\ nat' = nat
  BY LookEffect
<1>2. Watches(c, f) /\ f = cpu[c].flow /\ Attached(c)
  BY <1>1 DEF Watches, Attached
<1>3. Sees(c, f)
  BY <1>2 DEF Watched
<1>4. fwd[f].timer = "fired" /\ fwd[f].port = cpu[c].port
  BY <1>3 DEF Sees
<1>5. /\ fwd[f].seen \in Nat /\ 1 =< fwd[f].seen /\ fwd[f].observed \in Nat
      /\ cpu[c].seen \in Nat /\ cpu[c].latest \in Nat /\ cpu[c].now \in Nat
      /\ ReverseSeen(c) \in Nat
  <2>1. fwd[f] \in Cells
    BY <1>1, <1>2, AttachedTyped DEF Unmapped
  <2> QED
    BY <1>1, <2>1, ReadsTyped DEF Stamped, Fine, Cells, None, Unmapped
<1>6. CASE See(c)
  <2>1. cpu'[c].seen = fwd[f].seen /\ cpu'[c].latest = cpu[c].latest
    BY <1>2, <1>6, SeeEffect DEF SeenThrough
  <2>2. CASE At(c, "look")
    BY <1>1, <1>2, <1>3, <1>4, <1>5, <1>6, <2>1, <2>2, SeeEffect DEF Sees, At
  <2>3. CASE ~ At(c, "look")
    BY <1>1, <1>2, <1>3, <1>4, <1>5, <1>6, <2>1, <2>3, SeeEffect DEF Sees, At, Since
  <2> QED
    BY <1>2, <2>2, <2>3
<1>7. CASE SeeReverse(c)
  <2>1. cpu[c].pc = "lookback" /\ cpu'[c].pc = "judge" /\ 1 =< cpu'[c].latest
    BY <1>3, <1>5, <1>7, SeeReverseEffect DEF Sees, At, Later
  <2> QED
    BY <1>1, <1>2, <1>3, <1>4, <2>1 DEF Sees, At
<1>8. CASE SecondLook(c)
  <2>1. /\ cpu[c].pc = "judge" /\ cpu'[c].pc = "recheck"
        /\ cpu'[c].latest = cpu[c].latest /\ fwd[f].observed = cpu[c].latest
    BY <1>2, <1>8, SecondLookEffect DEF Moves, ObservedBy, Unconfirmed
  <2>2. cpu'[c].latest + Timeout + Confirm =< cpu'[c].now
    BY <1>1, <1>3, <1>5, <2>1 DEF Sees, At
  <2> QED
    BY <1>1, <1>2, <1>4, <2>1, <2>2 DEF Sees, At
<1>9. CASE Doubt(c)
  <2>1. cpu'[c].pc = "reprieve"
    BY <1>9, SeeReverseEffect DEF Doubt, SeeReverse, At
  <2> QED
    BY <1>1, <1>2, <1>4, <2>1 DEF Sees, At
<1>10. CASE Condemn(c)
  <2>1. /\ cpu[c].pc = "recheckback" /\ cpu'[c].pc = "dropnat"
        /\ cpu'[c].latest = cpu[c].latest
        /\ Later(cpu[c].seen, ReverseSeen(c)) = cpu[c].latest
    BY <1>10, CondemnEffect DEF Condemn, Confirmed
  <2>2. cpu[c].seen =< cpu[c].latest /\ ReverseSeen(c) =< cpu[c].latest
    BY <1>5, <2>1 DEF Later
  <2>3. Judged(c, fwd[f].seen)
    BY <1>3, <1>5, <2>1, <2>2 DEF Sees, At, Since, Judged
  <2>4. nat[Held(c)].gen = cpu[c].gen => Judged(c, nat[Held(c)].seen)
    BY <2>2 DEF ReverseSeen, Judged, Since
  <2>5. Held(c)' = Held(c)
    BY <1>1 DEF Held
  <2>6. cpu[c].latest + Timeout + Confirm =< cpu[c].now
    BY <1>3, <2>1 DEF Sees
  <2> QED
    BY <1>1, <1>2, <1>4, <2>1, <2>3, <2>4, <2>5, <2>6 DEF Sees, At, Judged, Since
<1> QED
  BY <1>6, <1>7, <1>8, <1>9, <1>10 DEF Looks

\* The removal of the reverse entry leaves the verdict as it was.
LEMMA DropNatSees ==
    ASSUME TypeOK, Watched, NEW c \in Cpus, DropNat(c),
           NEW f \in Flows, Watches(c, f)'
    PROVE  Sees(c, f)' /\ Watches(c, f)
<1>1. /\ cpu[c].pc = "dropnat" /\ Others(c) /\ Moves(c, "dropfwd") /\ fwd' = fwd
  BY DropNatEffect
<1>2. Watches(c, f) /\ Sees(c, f)
  BY <1>1 DEF Watches, CallbackPcs, Looking, Rechecking, Expiring, Moves, Watched
<1>3. Held(c)' = Held(c)
  BY <1>1 DEF Held, Moves
<1>3a. cpu[c].gen # 0 /\ Held(c) \in Tuples
  BY <1>1, RunLocals DEF Unmapped
<1>4. nat'[Held(c)].gen = cpu[c].gen => nat'[Held(c)] = nat[Held(c)]
  BY <1>3a, DropNatEffect DEF None
<1>5. /\ fwd'[f].timer = "fired" /\ fwd'[f].port = cpu'[c].port
      /\ cpu'[c].latest + Timeout + Confirm =< cpu'[c].now
  BY <1>1, <1>2 DEF Sees, Moves, Expiring
<1>6. Judged(c, fwd[f].seen)'
  BY <1>1, <1>2 DEF Sees, Moves, Expiring, Judged, Since
<1>7. nat'[Held(c)].gen = cpu[c].gen => Judged(c, nat[Held(c)].seen)'
  BY <1>1, <1>2, <1>3, <1>4 DEF Sees, Moves, Expiring, Judged, Since
<1>8. cpu'[c].pc = "dropfwd" /\ cpu'[c].gen = cpu[c].gen
  BY <1>1 DEF Moves
<1> QED
  BY <1>2, <1>3, <1>5, <1>6, <1>7, <1>8 DEF Sees, At, Looking, Rechecking

\* What callbacks see stays true in every step of a run, ...
LEMMA RunWatched ==
    ASSUME TypeOK, Prompt, FreshGens, Stamped, Watched, NEW c \in Cpus,
           \/ Forward(c) \/ Callback(c)
           \/ \E f \in Flows : Begin(c, f) \/ Fire(c, f)
    PROVE  Watched'
<1> DEFINE Apart == \A d \in Cpus \ {c}, f \in Flows :
                      Watches(d, f)' => Watches(d, f) /\ Unmoved(d, f)
           Blind == \A f \in Flows : ~ Watches(c, f)'
<1>1. ASSUME Apart, Blind PROVE Watched'
  BY <1>1, WatchedFrame
<1>2. ASSUME cpu'[c].pc \notin CallbackPcs PROVE Blind
  BY <1>2 DEF Watches
<1>3. ASSUME Apart, \A f \in Flows : Watches(c, f)' => Sees(c, f)' /\ Watches(c, f)
      PROVE  Watched'
  BY <1>3, WatchedFrame DEF Watched
<1>4. CASE Hit(c)
  <2>1. Apart /\ Blind
    BY <1>2, <1>4, HitUnmoved, HitEffect DEF CallbackPcs, Looking, Rechecking, Expiring
  <2> QED
    BY <1>1, <2>1
<1>5. CASE Insert(c)
  <2>1. Blind
    BY <1>2, <1>5, InsertEffect
       DEF CallbackPcs, Looking, Rechecking, Expiring, Moves, AfterInsert
  <2>2. Apart
    BY <1>5, InsertUnmoved
  <2> QED
    BY <1>1, <2>1, <2>2
<1>6. CASE Arm(c)
  <2>1. Blind
    BY <1>2, <1>6, ArmEffect DEF CallbackPcs, Looking, Rechecking, Expiring, Moves
  <2>2. Apart
    BY <1>6, ArmEffect, TimerUnmoved
  <2> QED
    BY <1>1, <2>1, <2>2
<1>7. CASE Disarm(c) \/ DropFwd(c)
  <2>1. Apart /\ Blind
    BY <1>2, <1>7, DropEffect, DropUnmoved DEF CallbackPcs, Looking, Rechecking, Expiring
  <2> QED
    BY <1>1, <2>1
<1>8. CASE Publish(c)
  <2>1. Apart /\ Blind
    BY <1>2, <1>8, PublishEffect, EntryUnmoved
       DEF CallbackPcs, Looking, Rechecking, Expiring
  <2> QED
    BY <1>1, <2>1
<1>9. CASE Rearms(c)
  <2>1. Blind
    BY <1>2, <1>9, RearmsAs, RearmEffect DEF CallbackPcs, Looking, Rechecking, Expiring
  <2>2. Apart
    BY <1>9, RearmUnmoved
  <2> QED
    BY <1>1, <2>1, <2>2
<1>10. CASE \/ Miss(c) \/ AllocFails(c) \/ InsertFails(c) \/ PublishFails(c)
            \/ ArmFails(c) \/ (\E p \in Ports : Alloc(c, p))
            \/ \E f \in Flows : Begin(c, f)
  <2>1. Others(c) /\ fwd' = fwd /\ nat' = nat /\ cpu'[c].pc \notin CallbackPcs
    BY <1>10, MissEffect, FailsEffect, ArmFailsEffect, AllocEffect, BeginEffect
       DEF CallbackPcs, Looking, Rechecking, Expiring, Moves
  <2> QED
    BY <1>1, <1>2, <2>1, MapsUnmoved
<1>11. CASE Looks(c)
  <2>1. Others(c) /\ fwd' = fwd /\ nat' = nat
    BY <1>11, LookEffect
  <2>2. Apart
    BY <2>1, MapsUnmoved
  <2> QED
    BY <1>3, <1>11, <2>2, LookSees
<1>12. CASE DropNat(c)
  BY <1>3, <1>12, EntryUnmoved, DropNatSees
<1>13. ASSUME NEW g \in Flows, Fire(c, g) PROVE Watched'
  <2>1. \A d \in Cpus \ {c}, f \in Flows :
          Watches(d, f)' => Watches(d, f) /\ Unmoved(d, f)
    BY <1>13, TimerUnmoved
  <2>2. \A d \in Cpus : ~ Watches(d, g)
    BY <1>13 DEF Watched, Sees, Fire
  <2>3. \A f \in Flows : Watches(c, f)' => Sees(c, f)' /\ f = g
    BY <1>13, FireSees
  <2> QED
    BY <2>1, <2>2, <2>3, WatchedFrame
<1> QED
  BY <1>4, <1>5, <1>6, <1>7, <1>8, <1>9, <1>10, <1>11, <1>12, <1>13
     DEF Forward, Callback, Looks, Rearms

\* ... and in the steps of none: a reply stamps an entry under a callback.
LEMMA EnvironmentWatched ==
    ASSUME TypeOK, Prompt, Watched,
           \/ \E c \in Cpus, t \in Tuples, r \in Remotes : Reply(c, t, r)
           \/ \E f \in Flows : EvictFwd(f)
           \/ \E t \in Tuples : EvictNat(t)
           \/ Tick \/ UNCHANGED vars
    PROVE  Watched'
<1>1. cpu' = cpu
  BY DEF Reply, EvictFwd, EvictNat, Tick, vars
<1>2. ASSUME NEW d \in Cpus, NEW f \in Flows, Watches(d, f)'
      PROVE  Watches(d, f) /\ Unmoved(d, f)
  <2>1. /\ cpu[d].pc # "idle" /\ cpu[d].gen # 0 /\ Held(d) \in Tuples
    BY <1>1, <1>2, RunLocals
       DEF Watches, CallbackPcs, Looking, Rechecking, Expiring, Unmapped
  <2>2. CASE fwd' = fwd /\ nat' = nat
    BY <1>1, <1>2, <2>2 DEF Watches, Unmoved
  <2>3. ASSUME NEW c \in Cpus, NEW t \in Tuples, NEW r \in Remotes, Reply(c, t, r)
        PROVE  Watches(d, f) /\ Unmoved(d, f)
    <3>1. fwd' = fwd /\ nat'[t].seen = now
      BY <2>3, ReplyEffect
    <3>2. cpu[d].now =< now + RunTicks
      BY <2>1, RunLocals, ParametersAssumption DEF Prompt, TypeOK
    <3>3. nat'[Held(d)] # nat[Held(d)] => Held(d) = t
      BY <2>1, <2>3, ReplyEffect
    <3> QED
      BY <1>1, <1>2, <3>1, <3>2, <3>3 DEF Watches, Unmoved
  <2>4. ASSUME NEW g \in Flows, EvictFwd(g) PROVE Watches(d, f) /\ Unmoved(d, f)
    <3>1. f # g
      BY <1>1, <1>2, <2>1, <2>4 DEF EvictFwd, Removed, Watches, None, TypeOK
    <3>2. fwd'[f] = fwd[f] /\ nat' = nat
      BY <2>4, <3>1 DEF EvictFwd, Removed, TypeOK
    <3> QED
      BY <1>1, <1>2, <3>2 DEF Watches, Unmoved
  <2>5. ASSUME NEW t \in Tuples, EvictNat(t) PROVE Watches(d, f) /\ Unmoved(d, f)
    <3>1. fwd' = fwd
      BY <2>5 DEF EvictNat
    <3>2. nat'[Held(d)] # nat[Held(d)] => nat'[Held(d)].gen = 0
      BY <2>1, <2>5 DEF EvictNat, None, TypeOK
    <3> QED
      BY <1>1, <1>2, <2>1, <3>1, <3>2 DEF Watches, Unmoved
  <2>6. CASE Tick \/ UNCHANGED vars
    BY <2>2, <2>6 DEF Tick, vars
  <2> QED
    BY <2>3, <2>4, <2>5, <2>6
<1>3. ASSUME NEW d \in Cpus, NEW f \in Flows, Watches(d, f)' PROVE Sees(d, f)'
  BY <1>2, <1>3, UnmovedSees DEF Watched
<1> QED
  BY <1>2, <1>3 DEF Watched

\* All of it together.
ExpiryInv == TypeOK /\ Prompt /\ FreshGens /\ Stamped /\ Timed /\ Watched

\* It holds at the start, where nothing is.
LEMMA ExpiryInit == Init => ExpiryInv
<1> SUFFICES ASSUME Init PROVE ExpiryInv
  OBVIOUS
<1>1. /\ \A f \in Flows : fwd[f] = None
      /\ \A t \in Tuples : nat[t] = None
      /\ \A c \in Cpus : cpu[c].pc = "idle"
      /\ now = 1 /\ gens = 0
  BY DEF Init, Idle
<1> QED
  BY <1>1, InitType DEF ExpiryInv, Prompt, FreshGens, Stamped, Timed, Watched,
     Watches, Mapped, At, CallbackPcs, Looking, Rechecking, Expiring, None

\* It is inductive.
LEMMA ExpiryStep == ExpiryInv /\ [Next]_vars => ExpiryInv'
<1> SUFFICES ASSUME ExpiryInv, [Next]_vars PROVE ExpiryInv'
  OBVIOUS
<1>1. Watched'
  BY RunWatched, EnvironmentWatched DEF ExpiryInv, Next
<1> QED
  BY <1>1, TypeStep, PromptStep, FreshStep, StampedStep, TimedStep DEF ExpiryInv

\* It says of a removal what the property asks.
LEMMA ExpiryIdle == ExpiryInv => ExpiresOnlyIdle
<1> SUFFICES ASSUME ExpiryInv, NEW c \in Cpus, cpu[c].pc \in Expiring, Attached(c)
             PROVE  LET idle == now - LastUse(cpu[c].flow) IN
                      idle >= Timeout + Confirm \/ idle =< 2 * RunTicks
  BY DEF ExpiresOnlyIdle
<1> DEFINE f == cpu[c].flow
           Fits(s) == LET idle == now - s IN
                        idle >= Timeout + Confirm \/ idle =< 2 * RunTicks
<1>1. f \in Flows /\ cpu[c].now \in Nat /\ cpu[c].latest \in Nat
  BY RunLocals DEF ExpiryInv, Expiring
<1>2. Watches(c, f) /\ Sees(c, f)
  BY <1>1 DEF Watches, Attached, CallbackPcs, ExpiryInv, Watched
<1>3. TupleOf(f) = Held(c) /\ fwd[f].gen = cpu[c].gen
  BY <1>2 DEF TupleOf, Held, Sees, Watches
<1>4. /\ cpu[c].latest + Timeout + Confirm =< cpu[c].now
      /\ cpu[c].now =< now /\ now =< cpu[c].now + RunTicks
  BY <1>2 DEF Sees, ExpiryInv, Prompt, Expiring
<1>5. now \in Nat /\ Timeout \in Nat /\ Confirm \in Nat /\ RunTicks \in Nat
  BY ParametersAssumption DEF ExpiryInv, TypeOK
<1>6. ASSUME NEW s \in Nat, Judged(c, s) PROVE Fits(s)
  BY <1>1, <1>4, <1>5, <1>6 DEF Judged, Since
<1>7. fwd[f].seen \in Nat /\ Fits(fwd[f].seen)
  <2>1. fwd[f] \in Cells
    BY AttachedTyped DEF ExpiryInv, Expiring, Unmapped
  <2>2. fwd[f].seen \in Nat
    BY <2>1 DEF Cells
  <2> QED
    BY <1>2, <1>6, <2>2 DEF Sees
<1>8. ReverseSeen(c) \in Nat
  BY ReadsTyped DEF ExpiryInv, Expiring, Unmapped
<1>9. nat[Held(c)].gen = cpu[c].gen => Fits(ReverseSeen(c))
  BY <1>2, <1>6, <1>8 DEF Sees, ReverseSeen
<1>10. LastUse(f) = Later(fwd[f].seen, ReverseSeen(c))
  BY <1>3 DEF LastUse, ReverseSeen
<1>11. \/ LastUse(f) = fwd[f].seen
       \/ nat[Held(c)].gen = cpu[c].gen /\ LastUse(f) = ReverseSeen(c)
  BY <1>7, <1>8, <1>10 DEF Later, ReverseSeen
<1>12. Fits(LastUse(f))
  BY <1>7, <1>9, <1>11
<1> QED
  BY <1>12

(* A callback of session_timer_callback that gets to its removals, for a    *)
(* mapping that is still its own, removes one idle for the timeout and the  *)
(* confirmation interval, or one whose last packet came within two runs of  *)
(* now: whatever other CPUs do between its reads, whichever entries are     *)
(* evicted, and however late the timer fires.                               *)
THEOREM ExpiryCorrect == Spec => []ExpiresOnlyIdle
BY ExpiryInit, ExpiryStep, ExpiryIdle, PTL DEF Spec

-----------------------------------------------------------------------------
(* Whose session a callback removes.  While no element is evicted and a    *)
(* run takes less than the timeout, or there is none to take.              *)

ShortRuns == Timeout = 0 \/ RunTicks < Timeout

\* Between a lookup that missed and the end of the arming or its rollback.
Making == {"alloc", "insert", "arm", "disarm"}

\* A run that missed cannot meet an element old enough to have fired: it is
\* one that another run inserted since.
Young(c, x) ==
    /\ x.timer # "fired"
    /\ x.timer = "started" => cpu[c].now + Timeout =< x.due
NotDue ==
    \A c \in Cpus : cpu[c].pc \in Making /\ fwd[cpu[c].flow] # None =>
      Young(c, fwd[cpu[c].flow])

\* So callbacks keep the element they were called for.
Keeps == \A c \in Cpus : cpu[c].pc \in CallbackPcs => Attached(c)

\* What a step of CPU c leaves of a flow that another run is making.
Harmless(c) ==
    \A d \in Cpus \ {c} :
      cpu[d].pc \in Making /\ fwd'[cpu[d].flow] # None =>
        Young(d, fwd'[cpu[d].flow])

\* Steps that leave the timers and deadlines of the elements alone.
LEMMA TimersHarmless ==
    ASSUME TypeOK, NotDue, NEW c \in Cpus,
           \A g \in Flows : fwd'[g] # None =>
             fwd[g] # None /\ fwd'[g].timer = fwd[g].timer /\ fwd'[g].due = fwd[g].due
    PROVE  Harmless(c)
<1> SUFFICES ASSUME NEW d \in Cpus \ {c}, cpu[d].pc \in Making,
                    fwd'[cpu[d].flow] # None
             PROVE  Young(d, fwd'[cpu[d].flow])
  BY DEF Harmless
<1>1. cpu[d].flow \in Flows
  BY RunLocals DEF Making
<1> QED
  BY <1>1 DEF NotDue, Young

\* The steps that insert an element, start its timer or take it.
LEMMA CellHarmless ==
    ASSUME ExpiryInv, NotDue, ShortRuns, NEW c \in Cpus,
           \/ Insert(c) \/ Arm(c) \/ Rearms(c)
           \/ \E g \in Flows : Fire(c, g)
    PROVE  Harmless(c)
<1> SUFFICES ASSUME NEW d \in Cpus \ {c}, cpu[d].pc \in Making,
                    fwd'[cpu[d].flow] # None
             PROVE  Young(d, fwd'[cpu[d].flow])
  BY DEF Harmless
<1> DEFINE f == cpu[d].flow
<1>1. /\ f \in Flows /\ cpu[d].now \in Nat /\ now \in Nat /\ Timeout \in Nat
      /\ RunTicks \in Nat /\ cpu[d].now =< now /\ now =< cpu[d].now + RunTicks
  BY RunLocals, ParametersAssumption DEF Making, ExpiryInv, Prompt, TypeOK
<1>2. ASSUME fwd'[f] = fwd[f] PROVE Young(d, fwd'[f])
  BY <1>2 DEF NotDue
<1>3. CASE Insert(c)
  <2>1. CASE f = cpu[c].flow
    <3>1. fwd'[f].timer = "unarmed"
      BY <1>3, <2>1, InsertEffect DEF ExpiryInv
    <3> QED
      BY <3>1 DEF Young
  <2> QED
    BY <1>1, <1>2, <1>3, <2>1, InsertEffect DEF ExpiryInv
<1>4. CASE Arm(c)
  <2>1. CASE f = cpu[c].flow
    <3>1. fwd'[f].timer = "started" /\ fwd'[f].due = now + Timeout
      BY <1>4, <2>1, ArmEffect DEF ExpiryInv
    <3> QED
      BY <1>1, <3>1 DEF Young
  <2> QED
    BY <1>1, <1>2, <1>4, <2>1, ArmEffect DEF ExpiryInv
<1>5. CASE Rearms(c)
  <2>1. PICK o, e : Rearm(c, o, e)
    BY <1>5, RearmsAs
  <2>2. cpu[c].pc \in {"judge", "reprieve"}
    BY <1>5, RearmsAs
  <2>3. CASE ~ Attached(c)
    BY <1>2, <2>1, <2>2, <2>3, RearmEffect DEF ExpiryInv
  <2>4. CASE Attached(c) /\ f # cpu[c].flow
    BY <1>1, <1>2, <2>1, <2>2, <2>4, RearmEffect DEF ExpiryInv
  <2>5. CASE Attached(c) /\ f = cpu[c].flow
    <3>1. Watches(c, f)
      BY <2>2, <2>5 DEF Watches, Attached, CallbackPcs, Looking
    <3>2. fwd[f].timer = "fired"
      BY <1>1, <3>1 DEF ExpiryInv, Watched, Sees
    <3>3. fwd[f] \in Cells
      BY <2>2, <2>5, AttachedTyped DEF ExpiryInv, Unmapped
    <3> QED
      BY <3>2, <3>3 DEF NotDue, Young, Cells, None
  <2> QED
    BY <2>3, <2>4, <2>5
<1>6. ASSUME NEW g \in Flows, Fire(c, g) PROVE Young(d, fwd'[f])
  <2>1. CASE f # g
    BY <1>1, <1>2, <1>6, <2>1, FireEffect DEF ExpiryInv
  <2>2. CASE f = g
    <3>0. /\ fwd[f].timer = "started" /\ fwd[f].due =< now /\ fwd[f] # None
          /\ fwd[f] \in Cells
      BY <1>6, <2>2, FireEffect DEF ExpiryInv, Fire
    <3>1. fwd[f].due \in Nat
      BY <3>0, ParametersAssumption DEF Cells
    <3>2. Timeout # 0 /\ cpu[d].now + Timeout =< fwd[f].due
      BY <1>1, <3>0 DEF ExpiryInv, Stamped, Fine, NotDue, Young
    <3>3. FALSE
      BY <1>1, <3>0, <3>1, <3>2 DEF ShortRuns
    <3> QED
      BY <3>3
  <2> QED
    BY <2>1, <2>2
<1> QED
  BY <1>3, <1>4, <1>5, <1>6

\* An element that is removed is no longer anyone's to wait for.
LEMMA DropHarmless ==
    ASSUME TypeOK, NotDue, NEW c \in Cpus, Disarm(c) \/ DropFwd(c)
    PROVE  Harmless(c)
<1>1. \A g \in Flows : fwd'[g] # None => fwd'[g] = fwd[g]
  BY DropEffect
<1> QED
  BY <1>1, TimersHarmless

\* What the run that makes a mapping does itself.
LEMMA MakerYoung ==
    ASSUME TypeOK, NotDue, NEW c \in Cpus, Forward(c),
           cpu'[c].pc \in Making, fwd'[cpu'[c].flow] # None
    PROVE  Young(c, fwd[cpu[c].flow])'
<1>1. CASE Miss(c)
  BY <1>1, MissEffect DEF Moves
<1>2. CASE (\E p \in Ports : Alloc(c, p)) \/ ArmFails(c)
  <2>1. /\ cpu[c].pc \in Making /\ fwd' = fwd
        /\ cpu'[c].flow = cpu[c].flow /\ cpu'[c].now = cpu[c].now
    BY <1>2, AllocEffect, ArmFailsEffect DEF Moves, Making
  <2> QED
    BY <2>1 DEF NotDue, Young
<1>3. CASE Insert(c)
  <2>1. fwd'[cpu'[c].flow].timer = "unarmed"
    BY <1>3, InsertEffect DEF Moves
  <2> QED
    BY <2>1 DEF Young
<1>4. CASE \/ Hit(c) \/ Arm(c) \/ Disarm(c) \/ Publish(c)
           \/ AllocFails(c) \/ InsertFails(c) \/ PublishFails(c)
  <2>1. cpu'[c].pc \in {"publish", "idle"}
    BY <1>4, HitEffect, ArmEffect, DropEffect, PublishEffect, FailsEffect DEF Moves
  <2> QED
    BY <2>1 DEF Making
<1> QED
  BY <1>1, <1>2, <1>3, <1>4 DEF Forward

\* That no run meets an old element in place of none is inductive.
LEMMA NotDueStep ==
    ASSUME ExpiryInv, NotDue, ShortRuns, [Next]_vars
    PROVE  NotDue'
<1>0. TypeOK
  BY DEF ExpiryInv
<1>1. ASSUME NEW c \in Cpus, Others(c), Harmless(c),
             cpu'[c].pc \in Making /\ fwd'[cpu'[c].flow] # None
               => Young(c, fwd[cpu[c].flow])'
      PROVE  NotDue'
  BY <1>1 DEF NotDue, Others, Harmless, Young
<1>2. ASSUME NEW c \in Cpus, fwd' = fwd PROVE Harmless(c)
  BY <1>0, <1>2, TimersHarmless
<1>3. ASSUME NEW c \in Cpus, Forward(c) PROVE NotDue'
  <2>1. Others(c)
    BY <1>0, <1>3, RunTimeless DEF Timeless
  <2>2. CASE Hit(c)
    <3>1. \A g \in Flows : fwd'[g] # None =>
            fwd[g] # None /\ fwd'[g].timer = fwd[g].timer /\ fwd'[g].due = fwd[g].due
      BY <1>0, <2>2, HitEffect DEF Hit
    <3>2. Harmless(c)
      BY <1>0, <3>1, TimersHarmless
    <3> QED
      BY <1>0, <1>1, <1>3, <2>1, <3>2, MakerYoung
  <2>3. CASE ~ Hit(c)
    <3>1. Harmless(c)
      BY <1>0, <1>2, <1>3, <2>3, CellHarmless, DropHarmless DEF Forward, Miss, Alloc,
         AllocFails, InsertFails, ArmFails, Publish, PublishFails
    <3> QED
      BY <1>0, <1>1, <1>3, <2>1, <3>1, MakerYoung
  <2> QED
    BY <2>2, <2>3
<1>4. ASSUME NEW c \in Cpus, Callback(c) PROVE NotDue'
  <2>1. Others(c)
    BY <1>0, <1>4, RunTimeless DEF Timeless
  <2>2. Harmless(c)
    BY <1>0, <1>2, <1>4, CellHarmless, DropHarmless, LookEffect
       DEF Callback, Looks, Rearms, DropNat
  <2>3. cpu'[c].pc \notin Making
    BY <1>0, <1>4, RearmsAs, RearmEffect, LookEffect, DropNatEffect, DropEffect
       DEF Callback, Looks, Rearms, Moves, Making, CallbackPcs, Looking, Rechecking, Expiring
  <2> QED
    BY <1>1, <2>1, <2>2, <2>3
<1>5. ASSUME NEW c \in Cpus, NEW f \in Flows, Begin(c, f) PROVE NotDue'
  BY <1>0, <1>1, <1>2, <1>5, BeginEffect DEF Making
<1>6. ASSUME NEW c \in Cpus, NEW f \in Flows, Fire(c, f) PROVE NotDue'
  BY <1>0, <1>1, <1>6, FireEffect, CellHarmless DEF Making
<1>7. CASE cpu' = cpu /\ fwd' = fwd
  BY <1>7 DEF NotDue, Young
<1>8. ASSUME NEW f \in Flows, EvictFwd(f) PROVE NotDue'
  <2>1. cpu' = cpu /\ \A g \in Flows : fwd'[g] # None => fwd'[g] = fwd[g]
    BY <1>0, <1>8 DEF EvictFwd, Removed, TypeOK
  <2>2. \A c \in Cpus : cpu[c].pc \in Making => cpu[c].flow \in Flows
    BY <1>0, RunLocals DEF Making
  <2> QED
    BY <2>1, <2>2 DEF NotDue, Young
<1>9. CASE \/ \E c \in Cpus, t \in Tuples, r \in Remotes : Reply(c, t, r)
           \/ \E t \in Tuples : EvictNat(t)
           \/ Tick \/ UNCHANGED vars
  BY <1>7, <1>9 DEF Reply, EvictNat, Tick, vars
<1> QED
  BY <1>3, <1>4, <1>5, <1>6, <1>8, <1>9 DEF Next

\* A step of c leaves the elements of other callbacks in the map.
LEMMA ElementsStay ==
    ASSUME ExpiryInv, NotDue, Keeps, NEW c \in Cpus,
           \/ Forward(c) \/ Callback(c)
           \/ \E f \in Flows : Begin(c, f) \/ Fire(c, f),
           NEW d \in Cpus \ {c}, cpu[d].pc \in CallbackPcs
    PROVE  fwd'[cpu[d].flow].gen = fwd[cpu[d].flow].gen
<1> DEFINE f == cpu[d].flow
<1>0. TypeOK
  BY DEF ExpiryInv
<1>1. f \in Flows /\ fwd[f] \in Cells /\ Watches(d, f)
  BY <1>0, AttachedTyped
     DEF Keeps, CallbackPcs, Looking, Rechecking, Expiring, Unmapped, Watches, Attached
<1>2. fwd[f].timer = "fired" /\ fwd[f] # None
  BY <1>1 DEF ExpiryInv, Watched, Sees, Cells, None
<1>3. CASE Insert(c) \/ Disarm(c)
  <2>1. cpu[c].pc \in Making /\ cpu[c].flow # f
    <3>1. cpu[c].pc \in Making
      BY <1>3 DEF Insert, Disarm, At, Making
    <3> QED
      BY <1>2, <3>1 DEF NotDue, Young
  <2> QED
    BY <1>0, <1>1, <1>3, <2>1, InsertEffect, DropEffect
<1>4. CASE DropFwd(c)
  <2>1. cpu[c].flow \in Flows /\ cpu[c].pc \in CallbackPcs
    BY <1>0, <1>4, DropEffect DEF DropFwd, At, CallbackPcs, Looking, Rechecking, Expiring
  <2>2. Watches(c, cpu[c].flow)
    BY <2>1 DEF Keeps, Watches, Attached
  <2>3. cpu[c].flow # f
    BY <1>1, <2>1, <2>2 DEF ExpiryInv, Watched
  <2> QED
    BY <1>0, <1>1, <1>4, <2>3, DropEffect
<1>5. CASE Rearms(c)
  BY <1>0, <1>1, <1>5, RearmsAs, RearmEffect
<1>6. CASE Hit(c)
  BY <1>0, <1>1, <1>6, HitEffect
<1>7. CASE Arm(c)
  BY <1>0, <1>1, <1>7, ArmEffect
<1>8. ASSUME NEW g \in Flows, Fire(c, g) PROVE fwd'[f].gen = fwd[f].gen
  BY <1>0, <1>1, <1>8, FireEffect
<1>9. CASE fwd' = fwd
  BY <1>9
<1> QED
  BY <1>0, <1>3, <1>4, <1>5, <1>6, <1>7, <1>8, <1>9, LookEffect DEF Forward, Callback,
     Looks, Rearms, Miss, Alloc, AllocFails, InsertFails, ArmFails, Publish,
     PublishFails, DropNat, Begin

\* A callback in progress after a step of c is attached to its element.
LEMMA OwnStays ==
    ASSUME ExpiryInv, Keeps, NEW c \in Cpus,
           \/ Forward(c) \/ Callback(c)
           \/ \E f \in Flows : Begin(c, f) \/ Fire(c, f),
           cpu'[c].pc \in CallbackPcs
    PROVE  Attached(c)'
<1>0. TypeOK
  BY DEF ExpiryInv
<1>1. CASE Looks(c) \/ DropNat(c)
  <2>1. cpu[c].pc \in CallbackPcs
    BY <1>0, <1>1, LookEffect DEF DropNat, At, CallbackPcs, Looking, Rechecking, Expiring
  <2>2. cpu'[c].flow = cpu[c].flow /\ cpu'[c].gen = cpu[c].gen /\ fwd' = fwd
    BY <1>0, <1>1, LookEffect, DropNatEffect DEF Moves
  <2> QED
    BY <2>1, <2>2 DEF Keeps, Attached
<1>2. ASSUME NEW f \in Flows, Fire(c, f) PROVE Attached(c)'
  BY <1>0, <1>2, FireEffect DEF Attached
<1>3. CASE Rearms(c) \/ DropFwd(c)
  BY <1>0, <1>3, RearmsAs, RearmEffect, DropEffect
     DEF CallbackPcs, Looking, Rechecking, Expiring
<1>4. CASE Forward(c)
  <2>1. CASE Hit(c) \/ Miss(c) \/ (\E p \in Ports : Alloc(c, p)) \/ Insert(c)
    BY <1>0, <2>1, HitEffect, MissEffect, AllocEffect, InsertEffect
       DEF Moves, AfterInsert, CallbackPcs, Looking, Rechecking, Expiring
  <2>2. CASE Arm(c) \/ ArmFails(c) \/ Disarm(c) \/ Publish(c)
    BY <1>0, <2>2, ArmEffect, ArmFailsEffect, DropEffect, PublishEffect
       DEF Moves, CallbackPcs, Looking, Rechecking, Expiring
  <2>3. CASE AllocFails(c) \/ InsertFails(c) \/ PublishFails(c)
    BY <1>0, <2>3, FailsEffect DEF CallbackPcs, Looking, Rechecking, Expiring
  <2> QED
    BY <1>4, <2>1, <2>2, <2>3 DEF Forward
<1>5. ASSUME NEW f \in Flows, Begin(c, f) PROVE FALSE
  BY <1>0, <1>5, BeginEffect DEF CallbackPcs, Looking, Rechecking, Expiring
<1> QED
  BY <1>1, <1>2, <1>3, <1>4, <1>5 DEF Callback, Looks, Rearms

\* Without evictions, callbacks keep their elements.
LEMMA KeepsStep ==
    ASSUME ExpiryInv, NotDue, Keeps, ~ Evictions, [Next]_vars
    PROVE  Keeps'
<1>0. TypeOK
  BY DEF ExpiryInv
<1>1. ASSUME NEW c \in Cpus,
             \/ Forward(c) \/ Callback(c)
             \/ \E f \in Flows : Begin(c, f) \/ Fire(c, f)
      PROVE  Keeps'
  <2>1. Others(c)
    BY <1>0, <1>1, RunTimeless, BeginEffect, FireEffect DEF Timeless
  <2>2. ASSUME NEW d \in Cpus \ {c}, cpu'[d].pc \in CallbackPcs PROVE Attached(d)'
    <3>1. cpu'[d] = cpu[d]
      BY <2>1 DEF Others
    <3>2. fwd'[cpu[d].flow].gen = fwd[cpu[d].flow].gen
      BY <1>1, <2>2, <3>1, ElementsStay
    <3>3. Attached(d)
      BY <2>2, <3>1 DEF Keeps
    <3> QED
      BY <3>1, <3>2, <3>3 DEF Attached
  <2> QED
    BY <1>1, <2>2, OwnStays DEF Keeps
<1>2. CASE cpu' = cpu /\ fwd' = fwd
  BY <1>2 DEF Keeps, Attached
<1> QED
  BY <1>1, <1>2 DEF Next, Reply, EvictFwd, EvictNat, Tick, vars

(* A callback of session_timer_callback that gets to FWD_NAT.remove, which  *)
(* goes by the key alone, finds its own mapping there or none: as long as   *)
(* no element is evicted, and no classifier run takes as long as the        *)
(* timeout.  Runs take microseconds, the timeout is in whole seconds.       *)
THEOREM RemovalCorrect ==
    ~ Evictions /\ ShortRuns => (Spec => []RemovesOwnSession)
<1> SUFFICES ASSUME ~ Evictions, ShortRuns PROVE Spec => []RemovesOwnSession
  OBVIOUS
<1> DEFINE Inv == ExpiryInv /\ NotDue /\ Keeps
<1>1. Init => Inv
  <2> SUFFICES ASSUME Init PROVE Inv
    OBVIOUS
  <2>1. \A c \in Cpus : cpu[c].pc = "idle"
    BY DEF Init, Idle
  <2> QED
    BY <2>1, ExpiryInit
       DEF NotDue, Keeps, Making, CallbackPcs, Looking, Rechecking, Expiring
<1>2. Inv /\ [Next]_vars => Inv'
  BY ExpiryStep, NotDueStep, KeepsStep
<1>3. Inv => RemovesOwnSession
  BY DEF Keeps, RemovesOwnSession, At, CallbackPcs, Looking, Rechecking, Expiring
<1> QED
  BY <1>1, <1>2, <1>3, PTL DEF Spec

=============================================================================
