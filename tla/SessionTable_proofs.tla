------------------------ MODULE SessionTable_proofs ------------------------
(***************************************************************************)
(* SessionTable for every set of CPUs, flows, addresses and ports, every   *)
(* timeout and every pattern of failures and evictions.                    *)
(***************************************************************************)
EXTENDS SessionTable, TLAPS

USE DEF Time, Gens, Pcs

(* The arithmetic of the callback stays within the bounds. *)
LEMMA MinusType ==
    ASSUME NEW a \in Nat, NEW b \in Nat
    PROVE  Minus(a, b) \in 0 .. a
BY DEF Minus

\* The later of two times is a time.
LEMMA LaterType ==
    ASSUME NEW a \in Time, NEW b \in Time
    PROVE  Later(a, b) \in Time
BY DEF Later

(* A run in progress has the record of a run, and holds a tuple. *)
LEMMA RunTyped ==
    ASSUME TypeOK, NEW c \in Cpus, cpu[c].pc # "idle"
    PROVE  /\ cpu[c] \in Runs
           /\ Held(c) \in Tuples
           /\ cpu[c].pc \notin Unmapped => cpu[c].gen \in Gens
<1>1. cpu[c] \in Runs
  BY DEF TypeOK, Idle
<1>2. cpu[c].flow \in Flows /\ cpu[c].port \in Ports
  BY <1>1 DEF Runs
<1>3. Held(c) \in Tuples
  BY <1>2, ParametersAssumption DEF Held, Tuples
<1> QED
  BY <1>1, <1>3 DEF TypeOK, Idle

(* A step that changes the run of one CPU. *)
LEMMA CpuType ==
    ASSUME TypeOK, NEW c \in Cpus, NEW r \in Runs \cup {Idle},
           r # Idle /\ r.pc \notin Unmapped => r.gen \in Gens,
           cpu' = [cpu EXCEPT ![c] = r]
    PROVE  /\ cpu' \in [Cpus -> Runs \cup {Idle}]
           /\ \A d \in Cpus :
                cpu'[d] # Idle /\ cpu'[d].pc \notin Unmapped => cpu'[d].gen \in Gens
BY DEF TypeOK

(* A step that changes the element of one flow. *)
LEMMA FwdType ==
    ASSUME TypeOK, NEW f \in Flows, NEW x \in Cells \cup {None},
           fwd' = [fwd EXCEPT ![f] = x]
    PROVE  fwd' \in [Flows -> Cells \cup {None}]
BY DEF TypeOK

(* An element that is there. *)
LEMMA CellTyped ==
    ASSUME TypeOK, NEW f \in Flows, fwd[f] # None
    PROVE  fwd[f] \in Cells
BY DEF TypeOK

\* Both maps are empty and no CPU runs anything.
LEMMA InitType == Init => TypeOK
<1> SUFFICES ASSUME Init PROVE TypeOK
  OBVIOUS
<1>1. now \in Time /\ gens \in 0 .. MaxGen
  BY ParametersAssumption DEF Init
<1>2. /\ fwd \in [Flows -> Cells \cup {None}]
      /\ nat \in [Tuples -> Reverses \cup {None}]
  BY DEF Init
<1>3. /\ cpu \in [Cpus -> Runs \cup {Idle}]
      /\ \A c \in Cpus : cpu[c] = Idle
  BY DEF Init
<1> QED
  BY <1>1, <1>2, <1>3 DEF TypeOK

(* A run whose program counter moves, and nothing else. *)
LEMMA GotoType ==
    ASSUME TypeOK, NEW c \in Cpus, cpu[c].pc # "idle", NEW pc,
           pc \in Pcs,
           pc \notin Unmapped => cpu[c].pc \notin Unmapped,
           Goto(c, pc)
    PROVE  /\ cpu' \in [Cpus -> Runs \cup {Idle}]
           /\ \A d \in Cpus :
                cpu'[d] # Idle /\ cpu'[d].pc \notin Unmapped => cpu'[d].gen \in Gens
<1> DEFINE r == [cpu[c] EXCEPT !.pc = pc]
<1>1. cpu[c] \in Runs /\ (cpu[c].pc \notin Unmapped => cpu[c].gen \in Gens)
  BY RunTyped
<1>2. r \in Runs /\ r.pc = pc /\ r.gen = cpu[c].gen
  BY <1>1 DEF Runs
<1>3. cpu' = [cpu EXCEPT ![c] = r]
  BY DEF Goto
<1> HIDE DEF r
<1> QED
  BY <1>1, <1>2, <1>3, CpuType

\* A run that ends leaves its CPU idle.
LEMMA FinishType ==
    ASSUME TypeOK, NEW c \in Cpus, Finish(c)
    PROVE  /\ cpu' \in [Cpus -> Runs \cup {Idle}]
           /\ \A d \in Cpus :
                cpu'[d] # Idle /\ cpu'[d].pc \notin Unmapped => cpu'[d].gen \in Gens
BY CpuType DEF Finish

(* Updates of an element and of a run that the actions make. *)
LEMMA CellStamped ==
    ASSUME NEW x \in Cells, NEW t \in Time
    PROVE  [x EXCEPT !.seen = t, !.observed = 0] \in Cells
<1>1. 0 \in Time
  BY ParametersAssumption
<1> QED
  BY <1>1 DEF Cells

\* A run takes the port and generation of its mapping.
LEMMA RunMapped ==
    ASSUME NEW r \in Runs, NEW pc \in {"insert", "publish"}, NEW p \in Ports,
           NEW g \in Gens
    PROVE  LET s == [r EXCEPT !.pc = pc, !.port = p, !.gen = g] IN
           s \in Runs /\ s.gen \in Gens
<1> DEFINE s == [r EXCEPT !.pc = pc, !.port = p, !.gen = g]
<1>1. g \in 0 .. MaxGen
  BY ParametersAssumption
<1>2. s \in Runs
  BY <1>1 DEF Runs
<1>3. s.gen = g
  BY DEF Runs
<1> QED
  BY <1>2, <1>3

(* The forward classifier keeps the types. *)
LEMMA BeginType ==
    ASSUME TypeOK, NEW c \in Cpus, NEW f \in Flows, Begin(c, f)
    PROVE  TypeOK'
<1> DEFINE r == [pc |-> "lookup", flow |-> f, port |-> CHOOSE p \in Ports : TRUE,
                 gen |-> 0, now |-> now, seen |-> 0, latest |-> 0, owns |-> FALSE]
<1>1. (CHOOSE p \in Ports : TRUE) \in Ports
  BY ParametersAssumption
<1>2. r \in Runs /\ r.pc \in Unmapped
  BY <1>1, ParametersAssumption DEF Runs, Unmapped, TypeOK
<1>3. cpu' = [cpu EXCEPT ![c] = r]
  BY DEF Begin
<1> HIDE DEF r
<1>4. /\ cpu' \in [Cpus -> Runs \cup {Idle}]
      /\ \A d \in Cpus :
           cpu'[d] # Idle /\ cpu'[d].pc \notin Unmapped => cpu'[d].gen \in Gens
  BY <1>2, <1>3, CpuType
<1> QED
  BY <1>4 DEF Begin, TypeOK

\* A hit stamps an element and takes its mapping.
LEMMA HitType == ASSUME TypeOK, NEW c \in Cpus, Hit(c) PROVE TypeOK'
<1> DEFINE f == cpu[c].flow
           x == [fwd[f] EXCEPT !.seen = cpu[c].now, !.observed = 0]
           r == [cpu[c] EXCEPT !.pc = "publish", !.port = fwd[f].port,
                               !.gen = fwd[f].gen]
<1>1. cpu[c] \in Runs
  BY RunTyped DEF Hit, At
<1>2. f \in Flows /\ cpu[c].now \in Time
  BY <1>1 DEF Runs
<1>3. fwd[f] \in Cells
  BY <1>2, CellTyped DEF Hit
<1>4. x \in Cells
  BY <1>2, <1>3, CellStamped
<1>4a. fwd[f].port \in Ports /\ fwd[f].gen \in Gens
  BY <1>3 DEF Cells
<1>5. r \in Runs /\ r.gen \in Gens
  BY <1>1, <1>4a, RunMapped
<1>6. fwd' = [fwd EXCEPT ![f] = x] /\ cpu' = [cpu EXCEPT ![c] = r]
  BY DEF Hit
<1>7. nat' = nat /\ now' = now /\ gens' = gens
  BY DEF Hit
<1> HIDE DEF x, r, f
<1>8. fwd' \in [Flows -> Cells \cup {None}]
  BY <1>2, <1>4, <1>6, FwdType
<1>9. /\ cpu' \in [Cpus -> Runs \cup {Idle}]
      /\ \A d \in Cpus :
           cpu'[d] # Idle /\ cpu'[d].pc \notin Unmapped => cpu'[d].gen \in Gens
  BY <1>5, <1>6, CpuType
<1> QED
  BY <1>7, <1>8, <1>9 DEF TypeOK

\* A new generation is drawn within the bound.
LEMMA AllocType ==
    ASSUME TypeOK, NEW c \in Cpus, NEW p \in Ports, Alloc(c, p)
    PROVE  TypeOK'
<1> DEFINE r == [cpu[c] EXCEPT !.pc = "insert", !.port = p, !.gen = gens']
<1>1. cpu[c] \in Runs
  BY RunTyped DEF Alloc, At
<1>2. gens' \in Gens /\ gens' \in 0 .. MaxGen
  BY ParametersAssumption DEF Alloc, TypeOK
<1>3. r \in Runs /\ r.gen \in Gens
  BY <1>1, <1>2, RunMapped
<1>4. cpu' = [cpu EXCEPT ![c] = r]
  BY DEF Alloc
<1> HIDE DEF r
<1>5. /\ cpu' \in [Cpus -> Runs \cup {Idle}]
      /\ \A d \in Cpus :
           cpu'[d] # Idle /\ cpu'[d].pc \notin Unmapped => cpu'[d].gen \in Gens
  BY <1>3, <1>4, CpuType
<1> QED
  BY <1>2, <1>5 DEF Alloc, TypeOK

\* An insert makes an element out of the run's locals.
LEMMA InsertType == ASSUME TypeOK, NEW c \in Cpus, Insert(c) PROVE TypeOK'
<1> DEFINE x == [gen |-> cpu[c].gen, port |-> cpu[c].port, seen |-> cpu[c].now,
                 observed |-> 0, timer |-> "unarmed", due |-> 0]
<1>1. cpu[c] \in Runs /\ cpu[c].gen \in Gens
  BY RunTyped DEF Insert, At, Unmapped
<1>2. x \in Cells
  BY <1>1, ParametersAssumption DEF Cells, Runs
<1>3. cpu[c].flow \in Flows
  BY <1>1 DEF Runs
<1>4. fwd' = [fwd EXCEPT ![cpu[c].flow] = x]
  BY DEF Insert
<1> HIDE DEF x
<1>5. fwd' \in [Flows -> Cells \cup {None}]
  BY <1>2, <1>3, <1>4, FwdType
<1>6. /\ cpu' \in [Cpus -> Runs \cup {Idle}]
      /\ \A d \in Cpus :
           cpu'[d] # Idle /\ cpu'[d].pc \notin Unmapped => cpu'[d].gen \in Gens
  BY GotoType DEF Insert, At, AfterInsert, Unmapped
<1> QED
  BY <1>5, <1>6 DEF Insert, TypeOK

\* An armed timer is due within the bound of the clock and the timeout.
LEMMA ArmType == ASSUME TypeOK, NEW c \in Cpus, Arm(c) PROVE TypeOK'
<1> DEFINE f == cpu[c].flow
           x == [fwd[f] EXCEPT !.timer = "started", !.due = now + Timeout]
<1>1. cpu[c] \in Runs
  BY RunTyped DEF Arm, At
<1>2. f \in Flows
  BY <1>1 DEF Runs
<1>3. fwd[f] \in Cells
  BY <1>2, CellTyped DEF Arm, Armable
<1>4. now + Timeout \in 0 .. MaxTime + Timeout + Confirm
  BY ParametersAssumption DEF TypeOK
<1>5. x \in Cells
  BY <1>3, <1>4 DEF Cells
<1>6. fwd' = [fwd EXCEPT ![f] = x]
  BY DEF Arm
<1> HIDE DEF x, f
<1>7. fwd' \in [Flows -> Cells \cup {None}]
  BY <1>2, <1>5, <1>6, FwdType
<1>8. /\ cpu' \in [Cpus -> Runs \cup {Idle}]
      /\ \A d \in Cpus :
           cpu'[d] # Idle /\ cpu'[d].pc \notin Unmapped => cpu'[d].gen \in Gens
  BY GotoType DEF Arm, At, Unmapped
<1> QED
  BY <1>7, <1>8 DEF Arm, TypeOK

(* A mapping is removed. *)
LEMMA RemovedType ==
    ASSUME TypeOK, NEW f \in Flows, fwd' = Removed(f)
    PROVE  fwd' \in [Flows -> Cells \cup {None}]
BY FwdType DEF Removed

-----------------------------------------------------------------------------
(* The callback.                                                           *)

(* The element a callback is attached to is one. *)
LEMMA AttachedTyped ==
    ASSUME TypeOK, NEW c \in Cpus, cpu[c].pc # "idle", cpu[c].pc \notin Unmapped,
           Attached(c)
    PROVE  cpu[c].flow \in Flows /\ fwd[cpu[c].flow] \in Cells
<1>1. cpu[c] \in Runs /\ cpu[c].gen \in Gens
  BY RunTyped
<1>2. cpu[c].flow \in Flows
  BY <1>1 DEF Runs
<1>3. fwd[cpu[c].flow] # None
  BY <1>1 DEF Attached, None
<1> QED
  BY <1>2, <1>3, CellTyped

(* What the callback reads are times. *)
LEMMA ReadsTyped ==
    ASSUME TypeOK, NEW c \in Cpus, cpu[c].pc # "idle", cpu[c].pc \notin Unmapped
    PROVE  /\ \A s \in SeenThrough(c) : s \in Time
           /\ \A o \in ObservedBy(c) : o \in Time
           /\ ReverseSeen(c) \in Time
           /\ Later(cpu[c].seen, ReverseSeen(c)) \in Time
           /\ cpu[c].now \in Time /\ cpu[c].seen \in Time /\ cpu[c].latest \in Time
<1>1. cpu[c] \in Runs /\ cpu[c].gen \in Gens /\ Held(c) \in Tuples
  BY RunTyped
<1>2. cpu[c].seen \in Time /\ cpu[c].now \in Time /\ cpu[c].latest \in Time
  BY <1>1 DEF Runs
<1>2a. 0 .. now \subseteq Time
  BY ParametersAssumption DEF TypeOK
<1>3. \A s \in SeenThrough(c) : s \in Time
  <2>1. CASE Attached(c)
    BY <2>1, AttachedTyped DEF SeenThrough, Cells
  <2>2. CASE ~ Attached(c)
    BY <1>2a, <2>2 DEF SeenThrough
  <2> QED
    BY <2>1, <2>2
<1>4. \A o \in ObservedBy(c) : o \in Time
  <2>1. CASE Attached(c)
    BY <2>1, AttachedTyped DEF ObservedBy, Cells
  <2>2. CASE ~ Attached(c)
    BY <1>2a, <2>2 DEF ObservedBy
  <2> QED
    BY <2>1, <2>2
<1>5. ReverseSeen(c) \in Time
  <2>1. CASE nat[Held(c)].gen = cpu[c].gen
    <3>1. nat[Held(c)] \in Reverses
      BY <1>1, <2>1 DEF TypeOK, None
    <3> QED
      BY <2>1, <3>1 DEF ReverseSeen, Reverses
  <2>2. CASE nat[Held(c)].gen # cpu[c].gen
    BY <2>2, ParametersAssumption DEF ReverseSeen
  <2> QED
    BY <2>1, <2>2
<1> QED
  BY <1>2, <1>3, <1>4, <1>5, LaterType

\* A timer started again is due within the bound too.
LEMMA RearmType ==
    ASSUME TypeOK, NEW c \in Cpus, cpu[c].pc # "idle", cpu[c].pc \notin Unmapped,
           NEW o \in Time, NEW d \in 0 .. Timeout + Confirm, Rearm(c, o, d)
    PROVE  TypeOK'
<1>1. now + d \in 0 .. MaxTime + Timeout + Confirm
  BY ParametersAssumption DEF TypeOK
<1>2. /\ cpu' \in [Cpus -> Runs \cup {Idle}]
      /\ \A e \in Cpus :
           cpu'[e] # Idle /\ cpu'[e].pc \notin Unmapped => cpu'[e].gen \in Gens
  BY FinishType DEF Rearm
<1>3. fwd' \in [Flows -> Cells \cup {None}]
  <2>1. CASE Attached(c)
    <3> DEFINE f == cpu[c].flow
               due == now + d
               x == [fwd[f] EXCEPT !.observed = o, !.timer = "started", !.due = due]
    <3>1. f \in Flows /\ fwd[f] \in Cells
      BY <2>1, AttachedTyped
    <3>2. fwd' = [fwd EXCEPT ![f] = x]
      BY <2>1 DEF Rearm
    <3>3. \A y \in Cells, t \in 0 .. MaxTime + Timeout + Confirm :
            [y EXCEPT !.observed = o, !.timer = "started", !.due = t] \in Cells
      BY DEF Cells
    <3>4. x \in Cells
      BY <1>1, <3>1, <3>3
    <3> HIDE DEF x, f
    <3> QED
      BY <3>1, <3>2, <3>4, FwdType
  <2>2. CASE ~ Attached(c)
    BY <2>2 DEF Rearm, TypeOK
  <2> QED
    BY <2>1, <2>2
<1> QED
  BY <1>2, <1>3 DEF Rearm, TypeOK

(* The three ways a callback starts its timer again. *)
LEMMA RearmsType ==
    ASSUME TypeOK, NEW c \in Cpus,
           StillUsed(c) \/ FirstLook(c) \/ Reprieve(c)
    PROVE  TypeOK'
<1>1. cpu[c].pc # "idle" /\ cpu[c].pc \notin Unmapped
  BY DEF StillUsed, FirstLook, Reprieve, At, Unmapped
<1>2. Elapsed(c) \in Nat /\ cpu[c].latest \in Time /\ 0 \in Time
  <2>1. cpu[c].now \in Nat /\ cpu[c].latest \in Nat /\ cpu[c].latest \in Time
    BY <1>1, ReadsTyped
  <2>2. Elapsed(c) \in 0 .. cpu[c].now
    BY <2>1, MinusType DEF Elapsed
  <2> QED
    BY <2>1, <2>2, ParametersAssumption
<1>3. CASE StillUsed(c)
  <2>1. Elapsed(c) < Timeout /\ Rearm(c, 0, Timeout - Elapsed(c))
    BY <1>3 DEF StillUsed
  <2>2. Timeout - Elapsed(c) \in 0 .. Timeout + Confirm
    BY <1>2, <2>1, ParametersAssumption
  <2> QED
    BY <1>1, <1>2, <2>1, <2>2, RearmType
<1>4. CASE FirstLook(c)
  <2>1. Rearm(c, cpu[c].latest, Confirm) /\ Confirm \in 0 .. Timeout + Confirm
    BY <1>4, ParametersAssumption DEF FirstLook
  <2> QED
    BY <1>1, <1>2, <2>1, RearmType
<1>5. CASE Reprieve(c)
  <2> DEFINE d == Minus(Timeout, Elapsed(c))
  <2>1. Rearm(c, 0, d)
    BY <1>5 DEF Reprieve
  <2>2. d \in 0 .. Timeout
    BY <1>2, MinusType, ParametersAssumption
  <2> HIDE DEF d
  <2>3. d \in 0 .. Timeout + Confirm
    BY <2>2, ParametersAssumption
  <2> QED
    BY <1>1, <1>2, <2>1, <2>3, RearmType
<1> QED
  BY <1>3, <1>4, <1>5

(* The steps in which a callback reads and judges, and writes nothing. *)
Looks(c) == See(c) \/ SeeReverse(c) \/ SecondLook(c) \/ Condemn(c) \/ Doubt(c)

\* What they make of the run: the locals of its verdict change.
Goes(c, r) ==
    /\ r \in Runs /\ r.pc \in CallbackPcs
    /\ r.flow = cpu[c].flow /\ r.port = cpu[c].port
    /\ r.gen = cpu[c].gen /\ r.now = cpu[c].now
    /\ cpu' = [cpu EXCEPT ![c] = r]

\* Each of them is such a step.
LEMMA LooksAs ==
    ASSUME TypeOK, NEW c \in Cpus, Looks(c)
    PROVE  /\ cpu[c].pc \in Looking \cup Rechecking
           /\ cpu[c].gen \in Gens
           /\ \E r : Goes(c, r)
           /\ fwd' = fwd /\ nat' = nat /\ now' = now /\ gens' = gens
<1> USE DEF CallbackPcs, Looking, Rechecking, Expiring
<1>1. /\ cpu[c].pc \in Looking \cup Rechecking
      /\ fwd' = fwd /\ nat' = nat /\ now' = now /\ gens' = gens
  BY DEF Looks, See, SeeReverse, SecondLook, Condemn, Doubt, At
<1>2. cpu[c] \in Runs /\ cpu[c].gen \in Gens
  BY <1>1, RunTyped DEF Unmapped
<1>3. /\ \A s \in SeenThrough(c) : s \in Time
      /\ Later(cpu[c].seen, ReverseSeen(c)) \in Time
  BY <1>1, ReadsTyped DEF Unmapped
<1>5. CASE See(c)
  <2>1. PICK s \in SeenThrough(c) :
          cpu' = [cpu EXCEPT ![c].seen = s,
                             ![c].pc = IF At(c, "look") THEN "lookback"
                                                        ELSE "recheckback"]
    BY <1>5 DEF See
  <2> DEFINE pc == IF At(c, "look") THEN "lookback" ELSE "recheckback"
             r == [cpu[c] EXCEPT !.seen = s, !.pc = pc]
  <2>2. cpu' = [cpu EXCEPT ![c] = r]
    BY <2>1
  <2>3. s \in Time /\ pc \in {"lookback", "recheckback"}
    BY <1>3
  <2> HIDE DEF pc
  <2>4. /\ r \in Runs /\ r.pc \in CallbackPcs
        /\ r.flow = cpu[c].flow /\ r.port = cpu[c].port
        /\ r.gen = cpu[c].gen /\ r.now = cpu[c].now
    BY <1>2, <2>3 DEF Runs
  <2> HIDE DEF r
  <2>5. Goes(c, r)
    BY <2>2, <2>4 DEF Goes
  <2> QED
    BY <1>1, <1>2, <2>5
<1>6. CASE SeeReverse(c) \/ Doubt(c)
  <2> DEFINE t == Later(cpu[c].seen, ReverseSeen(c))
  <2>1. PICK pc \in {"judge", "reprieve"} :
          cpu' = [cpu EXCEPT ![c].pc = pc, ![c].latest = t]
    BY <1>6 DEF SeeReverse, Doubt
  <2> DEFINE r == [cpu[c] EXCEPT !.pc = pc, !.latest = t]
  <2>2. cpu' = [cpu EXCEPT ![c] = r]
    BY <2>1
  <2>3. t \in Time
    BY <1>3
  <2> HIDE DEF t
  <2>4. /\ r \in Runs /\ r.pc \in CallbackPcs
        /\ r.flow = cpu[c].flow /\ r.port = cpu[c].port
        /\ r.gen = cpu[c].gen /\ r.now = cpu[c].now
    BY <1>2, <2>1, <2>3 DEF Runs
  <2> HIDE DEF r
  <2>5. Goes(c, r)
    BY <2>2, <2>4 DEF Goes
  <2> QED
    BY <1>1, <1>2, <2>5
<1>7. CASE SecondLook(c)
  <2> DEFINE r == [cpu[c] EXCEPT !.pc = "recheck"]
  <2>1. cpu' = [cpu EXCEPT ![c] = r]
    BY <1>7 DEF SecondLook, Goto
  <2>2. /\ r \in Runs /\ r.pc \in CallbackPcs
        /\ r.flow = cpu[c].flow /\ r.port = cpu[c].port
        /\ r.gen = cpu[c].gen /\ r.now = cpu[c].now
    BY <1>2 DEF Runs
  <2> HIDE DEF r
  <2>5. Goes(c, r)
    BY <2>1, <2>2 DEF Goes
  <2> QED
    BY <1>1, <1>2, <2>5
<1>8. CASE Condemn(c)
  <2> DEFINE b == nat[Held(c)].gen = cpu[c].gen
             r == [cpu[c] EXCEPT !.pc = "dropnat", !.owns = b]
  <2>1. cpu' = [cpu EXCEPT ![c] = r]
    BY <1>8 DEF Condemn
  <2>2. b \in BOOLEAN
    OBVIOUS
  <2> HIDE DEF b
  <2>3. /\ r \in Runs /\ r.pc \in CallbackPcs
        /\ r.flow = cpu[c].flow /\ r.port = cpu[c].port
        /\ r.gen = cpu[c].gen /\ r.now = cpu[c].now
    BY <1>2, <2>2 DEF Runs
  <2> HIDE DEF r
  <2>5. Goes(c, r)
    BY <2>1, <2>3 DEF Goes
  <2> QED
    BY <1>1, <1>2, <2>5
<1> QED
  BY <1>1, <1>2, <1>5, <1>6, <1>7, <1>8 DEF Looks

\* What they leave of the run.
LEMMA LooksEffect ==
    ASSUME TypeOK, NEW c \in Cpus, Looks(c)
    PROVE  /\ cpu[c].pc \in Looking \cup Rechecking /\ cpu'[c].pc \in CallbackPcs
           /\ \A d \in Cpus \ {c} : cpu'[d] = cpu[d]
           /\ cpu'[c].flow = cpu[c].flow /\ cpu'[c].port = cpu[c].port
           /\ cpu'[c].gen = cpu[c].gen /\ cpu'[c].now = cpu[c].now
           /\ fwd' = fwd /\ nat' = nat /\ now' = now /\ gens' = gens
<1>1. PICK r : Goes(c, r)
  BY LooksAs
<1>2. /\ \A d \in Cpus \ {c} : cpu'[d] = cpu[d]
      /\ cpu'[c] = r
  BY <1>1 DEF Goes, TypeOK
<1> QED
  BY <1>1, <1>2, LooksAs DEF Goes

\* The locals stay of their types.
LEMMA LooksType ==
    ASSUME TypeOK, NEW c \in Cpus, Looks(c)
    PROVE  TypeOK'
<1>1. PICK r : Goes(c, r)
  BY LooksAs
<1>2. r \in Runs /\ r.gen \in Gens /\ cpu' = [cpu EXCEPT ![c] = r]
  BY <1>1, LooksAs DEF Goes
<1> QED
  BY <1>2, CpuType, LooksAs DEF TypeOK

\* The reverse entry is removed, or left alone.
LEMMA DropNatType ==
    ASSUME TypeOK, NEW c \in Cpus, DropNat(c)
    PROVE  TypeOK'
<1>1. /\ cpu' \in [Cpus -> Runs \cup {Idle}]
      /\ \A d \in Cpus :
           cpu'[d] # Idle /\ cpu'[d].pc \notin Unmapped => cpu'[d].gen \in Gens
  BY GotoType DEF DropNat, At, Unmapped
<1>2. nat' \in [Tuples -> Reverses \cup {None}]
  BY DEF DropNat, TypeOK
<1> QED
  BY <1>1, <1>2 DEF DropNat, TypeOK

(* The steps that remove the mapping and end the run. *)
LEMMA DropsType ==
    ASSUME TypeOK, NEW c \in Cpus, Disarm(c) \/ DropFwd(c)
    PROVE  TypeOK'
<1>1. cpu[c] \in Runs
  BY RunTyped DEF Disarm, DropFwd, At
<1>2. cpu[c].flow \in Flows
  BY <1>1 DEF Runs
<1>3. fwd' \in [Flows -> Cells \cup {None}]
  BY <1>2, RemovedType DEF Disarm, DropFwd
<1>4. /\ cpu' \in [Cpus -> Runs \cup {Idle}]
      /\ \A d \in Cpus :
           cpu'[d] # Idle /\ cpu'[d].pc \notin Unmapped => cpu'[d].gen \in Gens
  BY FinishType DEF Disarm, DropFwd
<1> QED
  BY <1>3, <1>4 DEF Disarm, DropFwd, TypeOK

\* A callback copies typed fields of the element it is called for.
LEMMA FireType ==
    ASSUME TypeOK, NEW c \in Cpus, NEW f \in Flows, Fire(c, f)
    PROVE  TypeOK'
<1> DEFINE x == [fwd[f] EXCEPT !.timer = "fired"]
           r == [pc |-> "look", flow |-> f, port |-> fwd[f].port,
                 gen |-> fwd[f].gen, now |-> now, seen |-> 0,
                 latest |-> 0, owns |-> FALSE]
<1>1. fwd[f] \in Cells
  BY CellTyped DEF Fire
<1>2. x \in Cells
  BY <1>1 DEF Cells
<1>3. r \in Runs /\ r.gen \in Gens
  BY <1>1, ParametersAssumption DEF Cells, Runs, TypeOK
<1>4. fwd' = [fwd EXCEPT ![f] = x] /\ cpu' = [cpu EXCEPT ![c] = r]
  BY DEF Fire
<1> HIDE DEF x, r
<1>5. fwd' \in [Flows -> Cells \cup {None}]
  BY <1>2, <1>4, FwdType
<1>6. /\ cpu' \in [Cpus -> Runs \cup {Idle}]
      /\ \A d \in Cpus :
           cpu'[d] # Idle /\ cpu'[d].pc \notin Unmapped => cpu'[d].gen \in Gens
  BY <1>3, <1>4, CpuType
<1> QED
  BY <1>5, <1>6 DEF Fire, TypeOK

(* NAT.insert and the reverse classifier's stamp. *)
LEMMA PublishType ==
    ASSUME TypeOK, NEW c \in Cpus, Publish(c)
    PROVE  TypeOK'
<1> DEFINE x == [gen |-> cpu[c].gen, flow |-> cpu[c].flow, seen |-> cpu[c].now]
<1>1. cpu[c] \in Runs /\ cpu[c].gen \in Gens
  BY RunTyped DEF Publish, At, Unmapped
<1>2. x \in Reverses
  BY <1>1 DEF Reverses, Runs
<1>3. nat' = [nat EXCEPT ![Held(c)] = x]
  BY DEF Publish
<1> HIDE DEF x
<1>4. nat' \in [Tuples -> Reverses \cup {None}]
  BY <1>2, <1>3 DEF TypeOK
<1>5. /\ cpu' \in [Cpus -> Runs \cup {Idle}]
      /\ \A d \in Cpus :
           cpu'[d] # Idle /\ cpu'[d].pc \notin Unmapped => cpu'[d].gen \in Gens
  BY FinishType DEF Publish
<1> QED
  BY <1>4, <1>5 DEF Publish, TypeOK

\* A reply stamps a reverse entry.
LEMMA ReplyType ==
    ASSUME TypeOK, NEW c \in Cpus, NEW t \in Tuples, NEW r \in Remotes, Reply(c, t, r)
    PROVE  TypeOK'
<1> DEFINE x == [nat[t] EXCEPT !.seen = now]
<1>1. nat[t] \in Reverses
  BY DEF Reply, TypeOK
<1>2. x \in Reverses
  BY <1>1 DEF Reverses, TypeOK
<1>3. nat' = [nat EXCEPT ![t] = x]
  BY DEF Reply
<1> HIDE DEF x
<1> QED
  BY <1>2, <1>3 DEF Reply, TypeOK

(* Runs that only move on, or end. *)
LEMMA MovesType ==
    ASSUME TypeOK, NEW c \in Cpus,
           \/ Miss(c) \/ ArmFails(c)
           \/ AllocFails(c) \/ InsertFails(c) \/ PublishFails(c)
    PROVE  TypeOK'
<1>1. CASE Miss(c)
  <2>1. /\ cpu' \in [Cpus -> Runs \cup {Idle}]
        /\ \A d \in Cpus :
             cpu'[d] # Idle /\ cpu'[d].pc \notin Unmapped => cpu'[d].gen \in Gens
    BY <1>1, GotoType DEF Miss, At, Unmapped
  <2> QED
    BY <1>1, <2>1 DEF Miss, TypeOK
<1>2. CASE ArmFails(c)
  <2>1. /\ cpu' \in [Cpus -> Runs \cup {Idle}]
        /\ \A d \in Cpus :
             cpu'[d] # Idle /\ cpu'[d].pc \notin Unmapped => cpu'[d].gen \in Gens
    BY <1>2, GotoType DEF ArmFails, At, Unmapped
  <2> QED
    BY <1>2, <2>1 DEF ArmFails, TypeOK
<1>3. CASE AllocFails(c) \/ InsertFails(c) \/ PublishFails(c)
  <2>1. /\ cpu' \in [Cpus -> Runs \cup {Idle}]
        /\ \A d \in Cpus :
             cpu'[d] # Idle /\ cpu'[d].pc \notin Unmapped => cpu'[d].gen \in Gens
    BY <1>3, FinishType DEF AllocFails, InsertFails, PublishFails
  <2> QED
    BY <1>3, <2>1 DEF AllocFails, InsertFails, PublishFails, TypeOK
<1> QED
  BY <1>1, <1>2, <1>3

(* The environment's steps. *)
LEMMA EnvironmentType ==
    ASSUME TypeOK,
           \/ \E f \in Flows : EvictFwd(f)
           \/ \E t \in Tuples : EvictNat(t)
           \/ Tick
    PROVE  TypeOK'
<1>1. CASE \E f \in Flows : EvictFwd(f)
  BY <1>1, RemovedType DEF EvictFwd, TypeOK
<1>2. CASE \E t \in Tuples : EvictNat(t)
  BY <1>2 DEF EvictNat, TypeOK
<1>3. CASE Tick
  <2>1. now' \in Time
    BY <1>3, ParametersAssumption DEF Tick, TypeOK
  <2> QED
    BY <1>3, <2>1 DEF Tick, TypeOK
<1> QED
  BY <1>1, <1>2, <1>3

\* The type invariant is inductive.
LEMMA TypeStep == TypeOK /\ [Next]_vars => TypeOK'
<1> SUFFICES ASSUME TypeOK, [Next]_vars PROVE TypeOK'
  OBVIOUS
<1>1. ASSUME NEW c \in Cpus, Forward(c) PROVE TypeOK'
  BY <1>1, HitType, AllocType, InsertType, ArmType, DropsType, PublishType,
     MovesType DEF Forward
<1>2. ASSUME NEW c \in Cpus, Callback(c) PROVE TypeOK'
  BY <1>2, RearmsType, LooksType, DropNatType, DropsType DEF Callback, Looks
<1>3. ASSUME NEW c \in Cpus, NEW f \in Flows, Begin(c, f) \/ Fire(c, f)
      PROVE  TypeOK'
  BY <1>3, BeginType, FireType
<1>4. ASSUME NEW c \in Cpus, NEW t \in Tuples, NEW r \in Remotes, Reply(c, t, r)
      PROVE  TypeOK'
  BY <1>4, ReplyType
<1>5. CASE UNCHANGED vars
  BY <1>5 DEF vars, TypeOK
<1> QED
  BY <1>1, <1>2, <1>3, <1>4, <1>5, EnvironmentType DEF Next

(* Every value in the maps and every local of a run stays of its type,     *)
(* and a run that has a mapping has a drawn generation: what the generation *)
(* comparisons of session_timer_callback rest on.                          *)
THEOREM TypeCorrect == Spec => []TypeOK
BY InitType, TypeStep, PTL DEF Spec

-----------------------------------------------------------------------------
(* Timers cover the mappings.                                              *)

(* What one run does for the coverage of flow f: it is creating the        *)
(* mapping, or it is the callback of the element that is there.            *)
Creates(c, f) == cpu[c].pc \in Creating /\ cpu[c].flow = f
Watches(c, f) ==
    cpu[c].pc \in CallbackPcs /\ cpu[c].flow = f /\ fwd[f].gen = cpu[c].gen

\* Covered by the three states of the timer; now and after a step.
LEMMA CoveredBy ==
    ASSUME NEW f, fwd[f].timer \in {"unarmed", "started", "fired"}
    PROVE  Covered(f) <=> \/ fwd[f].timer = "started"
                          \/ /\ fwd[f].timer = "unarmed"
                             /\ \E c \in Cpus : Creates(c, f)
                          \/ /\ fwd[f].timer = "fired"
                             /\ \E c \in Cpus : Watches(c, f)
BY DEF Covered, Creates, Watches, Attached

\* Covered after a step.
LEMMA CoveredByNext ==
    ASSUME NEW f, fwd'[f].timer \in {"unarmed", "started", "fired"}
    PROVE  Covered(f)' <=> \/ fwd'[f].timer = "started"
                           \/ /\ fwd'[f].timer = "unarmed"
                              /\ \E c \in Cpus : Creates(c, f)'
                           \/ /\ fwd'[f].timer = "fired"
                              /\ \E c \in Cpus : Watches(c, f)'
BY DEF Covered, Creates, Watches, Attached

(* A step of CPU c that leaves the element's timer alone and does not end  *)
(* what the run did for the element.                                       *)
LEMMA StaysCovered ==
    ASSUME TypeOK, NEW f \in Flows, fwd[f] # None, Covered(f), NEW c \in Cpus,
           fwd'[f].timer = fwd[f].timer, fwd'[f].gen = fwd[f].gen,
           \A d \in Cpus \ {c} : cpu'[d] = cpu[d],
           Creates(c, f) => Creates(c, f)',
           Watches(c, f) => Watches(c, f)'
    PROVE  Covered(f)'
<1>1. fwd[f].timer \in {"unarmed", "started", "fired"}
  BY CellTyped DEF Cells
<1>2. \A d \in Cpus : /\ Creates(d, f) => Creates(d, f)'
                      /\ Watches(d, f) => Watches(d, f)'
  BY DEF Creates, Watches
<1> QED
  BY <1>1, <1>2, CoveredBy, CoveredByNext

(* The same when no run changes. *)
LEMMA UntouchedCovered ==
    ASSUME TypeOK, NEW f \in Flows, fwd[f] # None, Covered(f),
           fwd'[f] = fwd[f], cpu' = cpu
    PROVE  Covered(f)'
<1>1. fwd[f].timer \in {"unarmed", "started", "fired"}
  BY CellTyped DEF Cells
<1>2. \A d \in Cpus : /\ Creates(d, f) => Creates(d, f)'
                      /\ Watches(d, f) => Watches(d, f)'
  BY DEF Creates, Watches
<1> QED
  BY <1>1, <1>2, CoveredBy, CoveredByNext

(* All elements covered: the invariant without its premise. *)
AllCovered == \A f \in Flows : fwd[f] # None => Covered(f)

(* Steps that leave FWD_NAT alone: a run that covers nothing moves on or   *)
(* begins, a creating run goes to its rollback, a callback to its next     *)
(* look or removal.                                                        *)
LEMMA QuietSteps ==
    ASSUME TypeOK, AllCovered, NEW c \in Cpus,
           \/ Miss(c) \/ AllocFails(c) \/ InsertFails(c) \/ ArmFails(c)
           \/ Publish(c) \/ PublishFails(c)
           \/ \E p \in Ports : Alloc(c, p)
           \/ \E f \in Flows : Begin(c, f)
           \/ Looks(c) \/ DropNat(c)
    PROVE  AllCovered'
<1> SUFFICES ASSUME NEW f \in Flows, fwd'[f] # None PROVE Covered(f)'
  BY DEF AllCovered
<1>1. fwd' = fwd
  BY LooksEffect DEF Miss, AllocFails, InsertFails, ArmFails, Publish, PublishFails,
         Alloc, Begin, DropNat
<1>2. fwd[f] # None /\ Covered(f)
  BY <1>1 DEF AllCovered
<1>3. cpu \in [Cpus -> Runs \cup {Idle}]
  BY DEF TypeOK
<1>4. \A d \in Cpus \ {c} : cpu'[d] = cpu[d]
  BY <1>3, LooksEffect DEF Miss, AllocFails, InsertFails, ArmFails, Publish,
         PublishFails, Alloc, Begin, DropNat, Goto, Finish
<1>5. CASE \/ Miss(c) \/ AllocFails(c) \/ InsertFails(c)
           \/ Publish(c) \/ PublishFails(c)
           \/ \E p \in Ports : Alloc(c, p)
           \/ \E g \in Flows : Begin(c, g)
  <2>1. cpu[c].pc \in {"idle", "lookup", "alloc", "insert", "publish"}
    <3>1. CASE \E g \in Flows : Begin(c, g)
      BY <3>1 DEF Begin, Busy, Idle
    <3> QED
      BY <1>5, <3>1 DEF Miss, AllocFails, InsertFails, Publish, PublishFails,
           Alloc, At
  <2>2. ~ Creates(c, f) /\ ~ Watches(c, f)
    BY <2>1 DEF Creates, Watches, Creating, CallbackPcs, Looking, Rechecking, Expiring
  <2> QED
    BY <1>1, <1>2, <1>4, <2>2, StaysCovered
<1>6. CASE ArmFails(c)
  <2>1. cpu[c].pc = "arm" /\ cpu'[c] = [cpu[c] EXCEPT !.pc = "disarm"]
    BY <1>3, <1>6 DEF ArmFails, At, Goto
  <2>2. cpu[c] \in Runs
    BY <2>1, RunTyped
  <2>3. cpu'[c].pc = "disarm" /\ cpu'[c].flow = cpu[c].flow
    BY <2>1, <2>2 DEF Runs
  <2>4. /\ Creates(c, f) => Creates(c, f)'
        /\ ~ Watches(c, f)
    BY <2>1, <2>3 DEF Creates, Creating, Watches, CallbackPcs, Looking, Rechecking, Expiring
  <2> QED
    BY <1>1, <1>2, <1>4, <2>4, StaysCovered
<1>7. CASE Looks(c) \/ DropNat(c)
  <2>1. cpu[c].pc \in CallbackPcs
    BY <1>7, LooksEffect DEF DropNat, At, CallbackPcs, Looking, Rechecking, Expiring
  <2>2. cpu[c] \in Runs
    BY <2>1, RunTyped DEF CallbackPcs, Looking, Rechecking, Expiring
  <2>3. /\ cpu'[c].pc \in CallbackPcs
        /\ cpu'[c].flow = cpu[c].flow
        /\ cpu'[c].gen = cpu[c].gen
    BY <1>3, <1>7, <2>2, LooksEffect
       DEF DropNat, Goto, Runs, CallbackPcs, Looking, Rechecking, Expiring
  <2>4. ~ Creates(c, f)
    BY <2>1 DEF Creates, Creating, CallbackPcs, Looking, Rechecking, Expiring
  <2>5. Watches(c, f) => Watches(c, f)'
    BY <1>1, <2>1, <2>3 DEF Watches
  <2> QED
    BY <1>1, <1>2, <1>4, <2>4, <2>5, StaysCovered
<1> QED
  BY <1>5, <1>6, <1>7

(* The forward classifier's steps on FWD_NAT. *)
LEMMA HitCovered ==
    ASSUME TypeOK, AllCovered, NEW c \in Cpus, Hit(c)
    PROVE  AllCovered'
<1> SUFFICES ASSUME NEW f \in Flows, fwd'[f] # None PROVE Covered(f)'
  BY DEF AllCovered
<1>1. cpu[c].pc = "lookup" /\ cpu[c] \in Runs
  BY RunTyped DEF Hit, At
<1>2. cpu[c].flow \in Flows /\ fwd[cpu[c].flow] \in Cells
  BY <1>1, CellTyped DEF Hit, Runs
<1>3. fwd[f] # None
  BY <1>2 DEF Hit, TypeOK
<1>4. fwd'[f].timer = fwd[f].timer /\ fwd'[f].gen = fwd[f].gen
  BY <1>2, <1>3, CellTyped DEF Hit, TypeOK, Cells
<1>5. \A d \in Cpus \ {c} : cpu'[d] = cpu[d]
  BY DEF Hit, TypeOK
<1>6. ~ Creates(c, f) /\ ~ Watches(c, f)
  BY <1>1 DEF Creates, Watches, Creating, CallbackPcs, Looking, Rechecking, Expiring
<1> QED
  BY <1>3, <1>4, <1>5, <1>6, StaysCovered DEF AllCovered

\* The new element waits for this run to start its timer.
LEMMA InsertCovered ==
    ASSUME TypeOK, AllCovered, Timeout # 0, NEW c \in Cpus, Insert(c)
    PROVE  AllCovered'
<1> SUFFICES ASSUME NEW f \in Flows, fwd'[f] # None PROVE Covered(f)'
  BY DEF AllCovered
<1>1. cpu[c].pc = "insert" /\ cpu[c] \in Runs
  BY RunTyped DEF Insert, At
<1>2. cpu' = [cpu EXCEPT ![c].pc = "arm"]
  BY DEF Insert, Goto, AfterInsert
<1>3. \A d \in Cpus \ {c} : cpu'[d] = cpu[d]
  BY <1>2 DEF TypeOK
<1>4. CASE f = cpu[c].flow
  <2>1. fwd'[f].timer = "unarmed"
    BY <1>4 DEF Insert, TypeOK
  <2>2. cpu'[c] = [cpu[c] EXCEPT !.pc = "arm"]
    BY <1>2 DEF TypeOK
  <2>3. Creates(c, f)'
    BY <1>1, <1>4, <2>2 DEF Creates, Creating, Runs
  <2> QED
    BY <2>1, <2>3, CoveredByNext
<1>5. CASE f # cpu[c].flow
  <2>1. fwd'[f] = fwd[f]
    BY <1>5 DEF Insert, TypeOK
  <2>2. ~ Creates(c, f) /\ ~ Watches(c, f)
    BY <1>1 DEF Creates, Watches, Creating, CallbackPcs, Looking, Rechecking, Expiring
  <2> QED
    BY <1>3, <2>1, <2>2, StaysCovered DEF AllCovered
<1> QED
  BY <1>4, <1>5

\* The element the run created has a started timer.
LEMMA ArmCovered ==
    ASSUME TypeOK, AllCovered, NEW c \in Cpus, Arm(c)
    PROVE  AllCovered'
<1> SUFFICES ASSUME NEW f \in Flows, fwd'[f] # None PROVE Covered(f)'
  BY DEF AllCovered
<1>1. cpu[c].pc = "arm" /\ cpu[c] \in Runs
  BY RunTyped DEF Arm, At
<1>2. cpu[c].flow \in Flows /\ fwd[cpu[c].flow] \in Cells
  BY <1>1, CellTyped DEF Arm, Armable, Runs
<1>3. CASE f = cpu[c].flow
  <2>1. fwd'[f].timer = "started"
    BY <1>2, <1>3 DEF Arm, TypeOK, Cells
  <2> QED
    BY <2>1, CoveredByNext
<1>4. CASE f # cpu[c].flow
  <2>1. fwd'[f] = fwd[f]
    BY <1>4 DEF Arm, TypeOK
  <2>2. ~ Creates(c, f) /\ ~ Watches(c, f)
    BY <1>4 DEF Creates, Watches
  <2>3. \A d \in Cpus \ {c} : cpu'[d] = cpu[d]
    BY DEF Arm, Goto, TypeOK
  <2> QED
    BY <2>1, <2>2, <2>3, StaysCovered DEF AllCovered
<1> QED
  BY <1>3, <1>4

\* A rolled back or expired element is gone; the run was for its key alone.
LEMMA DropsCovered ==
    ASSUME TypeOK, AllCovered, NEW c \in Cpus, Disarm(c) \/ DropFwd(c)
    PROVE  AllCovered'
<1> SUFFICES ASSUME NEW f \in Flows, fwd'[f] # None PROVE Covered(f)'
  BY DEF AllCovered
<1>1. cpu[c] \in Runs
  BY RunTyped DEF Disarm, DropFwd, At
<1>2. fwd' = [fwd EXCEPT ![cpu[c].flow] = None] /\ cpu[c].flow \in Flows
  BY <1>1 DEF Disarm, DropFwd, Removed, Runs
<1>3. f # cpu[c].flow /\ fwd'[f] = fwd[f]
  BY <1>2 DEF TypeOK
<1>4. ~ Creates(c, f) /\ ~ Watches(c, f)
  BY <1>3 DEF Creates, Watches
<1>5. \A d \in Cpus \ {c} : cpu'[d] = cpu[d]
  BY DEF Disarm, DropFwd, Finish, TypeOK
<1> QED
  BY <1>3, <1>4, <1>5, StaysCovered DEF AllCovered

\* The timer that fired has a callback that is attached to its element.
LEMMA FireCovered ==
    ASSUME TypeOK, AllCovered, NEW c \in Cpus, NEW g \in Flows, Fire(c, g)
    PROVE  AllCovered'
<1> SUFFICES ASSUME NEW f \in Flows, fwd'[f] # None PROVE Covered(f)'
  BY DEF AllCovered
<1>1. fwd[g] \in Cells
  BY CellTyped DEF Fire
<1>2. fwd' = [fwd EXCEPT ![g].timer = "fired"]
  BY DEF Fire
<1>3. CASE f = g
  <2>1. fwd'[f].timer = "fired" /\ fwd'[f].gen = fwd[f].gen
    BY <1>1, <1>2, <1>3 DEF TypeOK, Cells
  <2>2. cpu'[c].pc = "look" /\ cpu'[c].flow = f /\ cpu'[c].gen = fwd[f].gen
    BY <1>3 DEF Fire, TypeOK
  <2>3. Watches(c, f)'
    BY <2>1, <2>2 DEF Watches, CallbackPcs, Looking
  <2> QED
    BY <2>1, <2>3, CoveredByNext
<1>4. CASE f # g
  <2>1. fwd'[f] = fwd[f]
    BY <1>2, <1>4 DEF TypeOK
  <2>2. cpu[c].pc = "idle"
    BY DEF Fire, Busy, Idle
  <2>3. ~ Creates(c, f) /\ ~ Watches(c, f)
    BY <2>2 DEF Creates, Watches, Creating, CallbackPcs, Looking, Rechecking, Expiring
  <2>4. \A d \in Cpus \ {c} : cpu'[d] = cpu[d]
    BY DEF Fire, TypeOK
  <2> QED
    BY <2>1, <2>3, <2>4, StaysCovered DEF AllCovered
<1> QED
  BY <1>3, <1>4

\* A callback that starts its timer again either does so on its own element
\* or, when that one is gone, watched nothing.
LEMMA RearmCovered ==
    ASSUME TypeOK, AllCovered, NEW c \in Cpus, cpu[c].pc \in {"judge", "reprieve"},
           NEW o, NEW d, Rearm(c, o, d)
    PROVE  AllCovered'
<1> SUFFICES ASSUME NEW f \in Flows, fwd'[f] # None PROVE Covered(f)'
  BY DEF AllCovered
<1>1. cpu[c].pc # "idle" /\ cpu[c].pc \notin Unmapped
  BY DEF Unmapped
<1>2. \A e \in Cpus \ {c} : cpu'[e] = cpu[e]
  BY DEF Rearm, Finish, TypeOK
<1>3. CASE Attached(c) /\ f = cpu[c].flow
  <2>1. fwd[f] \in Cells
    BY <1>1, <1>3, AttachedTyped
  <2>2. fwd'[f].timer = "started"
    BY <1>3, <2>1 DEF Rearm, TypeOK, Cells
  <2> QED
    BY <2>2, CoveredByNext
<1>4. CASE ~ (Attached(c) /\ f = cpu[c].flow)
  <2>1. fwd'[f] = fwd[f]
    BY <1>4 DEF Rearm, TypeOK
  <2>2. ~ Creates(c, f) /\ ~ Watches(c, f)
    BY <1>4 DEF Creates, Creating, Watches, Attached
  <2> QED
    BY <1>2, <2>1, <2>2, StaysCovered DEF AllCovered
<1> QED
  BY <1>3, <1>4

\* Steps that run no classifier or callback of the flow.
LEMMA EnvironmentCovered ==
    ASSUME TypeOK, AllCovered,
           \/ \E f \in Flows : EvictFwd(f)
           \/ \E t \in Tuples : EvictNat(t)
           \/ \E c \in Cpus, t \in Tuples, r \in Remotes : Reply(c, t, r)
           \/ Tick
           \/ UNCHANGED vars
    PROVE  AllCovered'
<1> SUFFICES ASSUME NEW f \in Flows, fwd'[f] # None PROVE Covered(f)'
  BY DEF AllCovered
<1>1. cpu' = cpu
  BY DEF EvictFwd, EvictNat, Reply, Tick, vars
<1>2. fwd'[f] = fwd[f]
  BY DEF EvictFwd, EvictNat, Reply, Tick, vars, Removed, TypeOK
<1> QED
  BY <1>1, <1>2, UntouchedCovered DEF AllCovered

\* With the types, the coverage of all elements is inductive.
LEMMA CoveredStep ==
    TypeOK /\ TimersCoverSessions /\ [Next]_vars => TimersCoverSessions'
<1> SUFFICES ASSUME TypeOK, AllCovered, [Next]_vars, Timeout # 0
             PROVE  AllCovered'
  BY DEF TimersCoverSessions, AllCovered
<1>1. ASSUME NEW c \in Cpus, Forward(c) PROVE AllCovered'
  BY <1>1, HitCovered, InsertCovered, ArmCovered, DropsCovered, QuietSteps
     DEF Forward
<1>2. ASSUME NEW c \in Cpus, Callback(c) PROVE AllCovered'
  <2>1. CASE StillUsed(c) \/ FirstLook(c) \/ Reprieve(c)
    <3>1. cpu[c].pc \in {"judge", "reprieve"}
      BY <2>1 DEF StillUsed, FirstLook, Reprieve, At
    <3>2. \E o, d : Rearm(c, o, d)
      BY <2>1 DEF StillUsed, FirstLook, Reprieve
    <3> QED
      BY <3>1, <3>2, RearmCovered
  <2> QED
    BY <1>2, <2>1, QuietSteps, DropsCovered DEF Callback, Looks
<1>3. ASSUME NEW c \in Cpus, NEW f \in Flows, Begin(c, f) \/ Fire(c, f)
      PROVE  AllCovered'
  BY <1>3, QuietSteps, FireCovered
<1> QED
  BY <1>1, <1>2, <1>3, EnvironmentCovered DEF Next

(* With a timeout configured, every mapping in FWD_NAT has a started timer, *)
(* its callback at work, or the classifier that inserted a mapping for the  *)
(* flow still between insert and arm: for any number of CPUs creating the   *)
(* same mapping, failing arms, evictions and callbacks that outlive their   *)
(* element.                                                                 *)
THEOREM TimersCorrect == Spec => []TimersCoverSessions
<1>1. Init => TimersCoverSessions
  BY DEF Init, TimersCoverSessions
<1> QED
  BY <1>1, InitType, TypeStep, CoveredStep, PTL DEF Spec
=============================================================================
