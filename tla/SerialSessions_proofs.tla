------------------------ MODULE SerialSessions_proofs ------------------------
(***************************************************************************)
(* One CPU, no evictions and no failing helpers: the two maps mirror each  *)
(* other between runs, and the session table implements Bindings.  For     *)
(* every set of flows, addresses and ports and every value of the times.   *)
(***************************************************************************)
EXTENDS SerialSessions, SessionExpiry_proofs

USE DEF Time, Gens

-----------------------------------------------------------------------------
(* The invariant.  A reverse entry always has its forward mapping; only    *)
(* the run in progress may leave a forward mapping without its reverse     *)
(* entry, from the insert to the publication and from one removal to the   *)
(* other.                                                                  *)

Mirrored(t) ==
    nat[t] # None =>
      LET f == nat[t].flow IN
      fwd[f] # None /\ TupleOf(f) = t /\ fwd[f].gen = nat[t].gen
Published(f) == nat[TupleOf(f)] # None /\ nat[TupleOf(f)].flow = f

\* The run on c has the mapping of f in hand.
Opens(c, f) == cpu[c].pc \in {"arm", "publish", "dropfwd"} /\ cpu[c].flow = f
Has(c) ==
    /\ fwd[cpu[c].flow].gen = cpu[c].gen
    /\ fwd[cpu[c].flow].port = cpu[c].port

\* What the run on c knows.
Alone(c) ==
    /\ cpu[c].pc # "disarm"
    /\ cpu[c].pc \in {"alloc", "insert"} => fwd[cpu[c].flow] = None
    /\ cpu[c].pc \in {"arm", "publish"} \cup CallbackPcs => Has(c)
    /\ cpu[c].pc = "arm" => fwd[cpu[c].flow].timer = "unarmed"
    /\ cpu[c].pc \in {"insert", "dropfwd"} => nat[Held(c)] = None
    /\ cpu[c].pc \in {"arm", "publish"} /\ nat[Held(c)] # None =>
         nat[Held(c)].flow = cpu[c].flow
    /\ cpu[c].pc = "dropnat" => cpu[c].owns

SerialInv ==
    /\ \A t \in Tuples : Mirrored(t)
    /\ \A f \in Flows : fwd[f] # None /\ ~ Published(f) => \E c \in Cpus : Opens(c, f)
    /\ \A c \in Cpus : Alone(c)

\* A step that leaves the mappings and entries what they were, but for times.
Same ==
    /\ \A f \in Flows : /\ fwd'[f].gen = fwd[f].gen /\ fwd'[f].port = fwd[f].port
                        /\ fwd'[f] = None <=> fwd[f] = None
    /\ \A t \in Tuples : /\ nat'[t].gen = nat[t].gen /\ nat'[t].flow = nat[t].flow
                         /\ nat'[t] = None <=> nat[t] = None

\* The tuples and flows that the maps name.
LEMMA NamesTyped ==
    ASSUME TypeOK
    PROVE  /\ \A f \in Flows : fwd[f] # None =>
                TupleOf(f) \in Tuples /\ fwd[f] \in Cells /\ fwd[f].gen # 0
           /\ \A t \in Tuples : nat[t] # None =>
                nat[t].flow \in Flows /\ nat[t] \in Reverses /\ nat[t].gen # 0
           /\ None.gen = 0
<1>1. ASSUME NEW f \in Flows, fwd[f] # None
      PROVE  TupleOf(f) \in Tuples /\ fwd[f] \in Cells /\ fwd[f].gen # 0
  <2>1. fwd[f] \in Cells
    BY <1>1, CellTyped
  <2>2. fwd[f].port \in Ports /\ fwd[f].gen # 0
    BY <2>1 DEF Cells
  <2> QED
    BY <2>1, <2>2, ParametersAssumption DEF TupleOf, Tuples
<1>2. ASSUME NEW t \in Tuples, nat[t] # None
      PROVE  nat[t].flow \in Flows /\ nat[t] \in Reverses /\ nat[t].gen # 0
  BY <1>2 DEF TypeOK, Reverses
<1> QED
  BY <1>1, <1>2 DEF None

\* Such a step changes nothing that the refinement sees.
LEMMA SameBars == ASSUME TypeOK, Same PROVE boundBar' = boundBar /\ reachesBar' = reachesBar
<1>1. ASSUME NEW f \in Flows
      PROVE  Bound(f)' = Bound(f) /\ (Bound(f) => TupleOf(f)' = TupleOf(f))
  <2>1. TupleOf(f)' = TupleOf(f)
    BY DEF TupleOf, Same
  <2>2. fwd[f] # None => nat'[TupleOf(f)].gen = nat[TupleOf(f)].gen
    BY NamesTyped DEF Same
  <2> QED
    BY <2>1, <2>2 DEF Bound, Same
<1>2. boundBar' = boundBar
  BY <1>1 DEF boundBar
<1>3. reachesBar' = reachesBar
  BY DEF reachesBar, Same
<1> QED
  BY <1>2, <1>3

\* It keeps the mirror, and a mapping stays published.
LEMMA SameMirror ==
    ASSUME TypeOK, SerialInv, Same
    PROVE  /\ \A t \in Tuples : Mirrored(t)'
           /\ \A f \in Flows : fwd[f] # None => Published(f)' = Published(f)
<1>1. ASSUME NEW t \in Tuples PROVE Mirrored(t)'
  <2>1. nat[t] # None => nat[t].flow \in Flows /\ nat'[t].flow = nat[t].flow
    BY NamesTyped DEF Same
  <2> QED
    BY <2>1 DEF Same, SerialInv, Mirrored, TupleOf
<1>2. ASSUME NEW f \in Flows, fwd[f] # None PROVE Published(f)' = Published(f)
  <2>1. TupleOf(f)' = TupleOf(f) /\ TupleOf(f) \in Tuples
    BY <1>2, NamesTyped DEF TupleOf, Same
  <2> QED
    BY <2>1 DEF Published, Same
<1> QED
  BY <1>1, <1>2

\* A step like that of the one CPU keeps the invariant if the run knows what
\* it must and keeps the mapping it has in hand.
LEMMA SameSerial ==
    ASSUME TypeOK, SerialInv, NEW c \in Cpus, Cpus = {c}, Same, Alone(c)',
           \A f \in Flows : Opens(c, f) => Opens(c, f)'
    PROVE  SerialInv'
<1>1. \A t \in Tuples : Mirrored(t)'
  BY SameMirror
<1>2. ASSUME NEW f \in Flows, fwd'[f] # None, ~ Published(f)'
      PROVE  \E d \in Cpus : Opens(d, f)'
  <2>1. fwd[f] # None /\ ~ Published(f)
    BY <1>2, SameMirror DEF Same
  <2> QED
    BY <2>1 DEF SerialInv
<1> QED
  BY <1>1, <1>2 DEF SerialInv

\* An element is there.
LEMMA SameCell ==
    ASSUME NEW x, x \in Cells PROVE x # None
  BY DEF Cells, None

\* One flow's element changes as to times and timer.
LEMMA SameFwd ==
    ASSUME TypeOK, NEW f \in Flows, fwd[f] \in Cells, fwd'[f] \in Cells,
           fwd'[f].gen = fwd[f].gen, fwd'[f].port = fwd[f].port,
           \A g \in Flows \ {f} : fwd'[g] = fwd[g], nat' = nat
    PROVE  Same
<1>1. fwd[f] # None /\ fwd'[f] # None
  BY SameCell
<1> QED
  BY <1>1 DEF Same

\* The steps of a run that change no more.
LEMMA RunSame ==
    ASSUME TypeOK, TypeOK', NEW c \in Cpus,
           \/ Hit(c) \/ Miss(c) \/ AllocFails(c) \/ Arm(c)
           \/ Looks(c) \/ Rearms(c)
           \/ \E p \in Ports : Alloc(c, p)
           \/ \E f \in Flows : Begin(c, f) \/ Fire(c, f)
           \/ \E t \in Tuples, r \in Remotes : Reply(c, t, r)
    PROVE  Same
<1>0. \A f \in Flows : fwd'[f].gen # 0 => fwd'[f] \in Cells
  BY DEF TypeOK, None
<1>1. CASE Hit(c)
  BY <1>1, HitEffect, SameFwd
<1>2. CASE Arm(c)
  <2>1. fwd[cpu[c].flow].gen # 0
    BY <1>2, ArmEffect DEF Cells
  <2> QED
    BY <1>0, <1>2, <2>1, ArmEffect, SameFwd
<1>3. CASE Rearms(c)
  <2>1. PICK o, d : Rearm(c, o, d)
    BY <1>3, RearmsAs
  <2>2. cpu[c].pc \in {"judge", "reprieve"}
    BY <1>3, RearmsAs
  <2>3. CASE Attached(c)
    <3>1. /\ cpu[c].flow \in Flows /\ fwd[cpu[c].flow] \in Cells
          /\ fwd'[cpu[c].flow].gen = fwd[cpu[c].flow].gen
          /\ fwd'[cpu[c].flow].port = fwd[cpu[c].flow].port
          /\ \A g \in Flows \ {cpu[c].flow} : fwd'[g] = fwd[g]
          /\ nat' = nat
      BY <2>1, <2>2, <2>3, RearmEffect
    <3>2. fwd[cpu[c].flow].gen # 0
      BY <3>1 DEF Cells
    <3> QED
      BY <1>0, <3>1, <3>2, SameFwd
  <2>4. CASE ~ Attached(c)
    BY <2>1, <2>2, <2>4, RearmEffect DEF Same
  <2> QED
    BY <2>3, <2>4
<1>4. ASSUME NEW f \in Flows, Fire(c, f) PROVE Same
  BY <1>4, FireEffect, SameFwd
<1>5. ASSUME NEW t \in Tuples, NEW r \in Remotes, Reply(c, t, r) PROVE Same
  <2>1. nat[t] # None /\ nat'[t] # None
    BY <1>5, ReplyEffect DEF Reverses, None
  <2> QED
    BY <1>5, <2>1, ReplyEffect DEF Same
<1>6. CASE \/ Miss(c) \/ AllocFails(c)
           \/ \E p \in Ports : Alloc(c, p)
           \/ \E f \in Flows : Begin(c, f)
  BY <1>6 DEF Same, Miss, AllocFails, Alloc, Begin
<1>7. CASE Looks(c)
  BY <1>7, LookEffect DEF Same
<1> QED
  BY <1>1, <1>2, <1>3, <1>4, <1>5, <1>6, <1>7


\* A hit finds a mapping that is published.
LEMMA HitAlone ==
    ASSUME TypeOK, SerialInv, NEW c \in Cpus, Cpus = {c}, Hit(c)
    PROVE  Alone(c)'
<1> DEFINE f == cpu[c].flow
<1>1. /\ f \in Flows /\ cpu'[c].flow = f /\ cpu'[c].pc = "publish"
      /\ cpu[c].pc = "lookup" /\ nat' = nat
      /\ cpu'[c].gen = fwd[f].gen /\ cpu'[c].port = fwd[f].port
      /\ fwd'[f].gen = fwd[f].gen /\ fwd'[f].port = fwd[f].port
  BY HitEffect
<1>2. fwd[f] # None /\ ~ \E d \in Cpus : Opens(d, f)
  BY <1>1 DEF Hit, Opens
<1>3. Published(f)
  BY <1>1, <1>2 DEF SerialInv
<1>4. Held(c)' = TupleOf(f)
  BY <1>1 DEF Held, TupleOf
<1>5. nat'[Held(c)'].flow = f
  BY <1>1, <1>3, <1>4 DEF Published
<1>6. Has(c)'
  BY <1>1 DEF Has
<1> QED
  BY <1>1, <1>5, <1>6 DEF Alone, CallbackPcs, Looking, Rechecking, Expiring

\* A port is taken whose tuple has no entry, and a new element is armed.
LEMMA CreateAlone ==
    ASSUME TypeOK, SerialInv, NEW c \in Cpus,
           Miss(c) \/ Arm(c) \/ \E p \in Ports : Alloc(c, p)
    PROVE  Alone(c)'
<1>0. Alone(c)
  BY DEF SerialInv
<1>1. CASE Miss(c)
  <2>1. cpu'[c].pc = "alloc" /\ cpu'[c].flow = cpu[c].flow /\ fwd' = fwd
        /\ fwd[cpu[c].flow] = None
    BY <1>1, MissEffect DEF Moves
  <2> QED
    BY <2>1 DEF Alone, CallbackPcs, Looking, Rechecking, Expiring
<1>2. ASSUME NEW p \in Ports, Alloc(c, p) PROVE Alone(c)'
  <2>1. /\ cpu'[c].pc = "insert" /\ cpu'[c].flow = cpu[c].flow /\ fwd' = fwd
        /\ nat' = nat /\ cpu[c].pc = "alloc" /\ cpu'[c].port = p
    BY <1>2, AllocEffect
  <2>2. fwd[cpu[c].flow] = None
    BY <1>0, <2>1 DEF Alone
  <2>3. nat'[Held(c)'] = None
    BY <1>2, <2>1 DEF Alloc, Allocatable, Held
  <2> QED
    BY <2>1, <2>2, <2>3 DEF Alone, CallbackPcs, Looking, Rechecking, Expiring
<1>3. CASE Arm(c)
  <2>1. /\ cpu[c].pc = "arm" /\ Moves(c, "publish") /\ nat' = nat
        /\ fwd'[cpu[c].flow].gen = fwd[cpu[c].flow].gen
        /\ fwd'[cpu[c].flow].port = fwd[cpu[c].flow].port
    BY <1>3, ArmEffect
  <2>2. cpu'[c].pc = "publish" /\ Held(c)' = Held(c) /\ cpu'[c].flow = cpu[c].flow
        /\ cpu'[c].gen = cpu[c].gen /\ cpu'[c].port = cpu[c].port
    BY <2>1 DEF Moves, Held
  <2>3. Has(c)'
    BY <1>0, <2>1, <2>2 DEF Alone, Has
  <2>4. nat'[Held(c)'] # None => nat'[Held(c)'].flow = cpu'[c].flow
    BY <1>0, <2>1, <2>2 DEF Alone
  <2> QED
    BY <2>2, <2>3, <2>4 DEF Alone, CallbackPcs, Looking, Rechecking, Expiring
<1> QED
  BY <1>1, <1>2, <1>3

\* A callback that goes on has the mapping it was called for, and its entry.
LEMMA CallbackAlone ==
    ASSUME TypeOK, SerialInv, NEW c \in Cpus, Cpus = {c},
           Looks(c) \/ \E f \in Flows : Fire(c, f)
    PROVE  Alone(c)'
<1>0. Alone(c)
  BY DEF SerialInv
<1>1. CASE Looks(c) /\ ~ Condemn(c)
  <2>1. /\ cpu[c].pc \in CallbackPcs /\ fwd' = fwd
        /\ cpu'[c].flow = cpu[c].flow /\ cpu'[c].port = cpu[c].port
        /\ cpu'[c].gen = cpu[c].gen
    BY <1>1, LookEffect
  <2>2. cpu'[c].pc \in {"lookback", "recheckback", "judge", "reprieve", "recheck"}
    BY <1>1, SeeEffect, SeeReverseEffect, SecondLookEffect DEF Looks, Moves
  <2>3. Has(c)'
    BY <1>0, <2>1 DEF Alone, Has
  <2> QED
    BY <2>2, <2>3 DEF Alone
<1>2. CASE Condemn(c)
  <2> DEFINE f == cpu[c].flow
  <2>1. /\ cpu[c].pc = "recheckback" /\ cpu'[c].pc = "dropnat" /\ fwd' = fwd
        /\ cpu'[c].flow = cpu[c].flow /\ cpu'[c].port = cpu[c].port
        /\ cpu'[c].gen = cpu[c].gen
        /\ cpu'[c].owns = (nat[Held(c)].gen = cpu[c].gen)
    BY <1>2, CondemnEffect
  <2>2. Has(c) /\ Has(c)'
    BY <1>0, <2>1 DEF Alone, Has, CallbackPcs, Rechecking
  <2>3. f \in Flows /\ cpu[c].gen # 0
    BY <2>1, RunLocals DEF Unmapped
  <2>4. fwd[f] # None /\ ~ \E d \in Cpus : Opens(d, f)
    BY <2>1, <2>2, <2>3 DEF Has, Opens, None
  <2>5. Published(f) /\ TupleOf(f) = Held(c) /\ TupleOf(f) \in Tuples
    BY <2>2, <2>3, <2>4, NamesTyped DEF SerialInv, Has, TupleOf, Held
  <2>6. nat[Held(c)].gen = cpu[c].gen
    BY <2>2, <2>5 DEF SerialInv, Mirrored, Published, Has
  <2> QED
    BY <2>1, <2>2, <2>6 DEF Alone
<1>3. ASSUME NEW f \in Flows, Fire(c, f) PROVE Alone(c)'
  <2>1. /\ cpu'[c].pc = "look" /\ cpu'[c].flow = f /\ cpu'[c].gen = fwd[f].gen
        /\ cpu'[c].port = fwd[f].port /\ fwd'[f].gen = fwd[f].gen
        /\ fwd'[f].port = fwd[f].port
    BY <1>3, FireEffect
  <2>2. Has(c)'
    BY <2>1 DEF Has
  <2> QED
    BY <2>1, <2>2 DEF Alone
<1> QED
  BY <1>1, <1>2, <1>3

\* A run that ends, or begins with a lookup, knows nothing.
LEMMA IdleAlone ==
    ASSUME NEW c \in Cpus, cpu'[c].pc \in {"idle", "lookup"}
    PROVE  Alone(c)'
  BY DEF Alone, CallbackPcs, Looking, Rechecking, Expiring

\* All the steps of the one CPU that leave the mappings as they are.
LEMMA RunSerial ==
    ASSUME TypeOK, TypeOK', SerialInv, NEW c \in Cpus, Cpus = {c},
           \/ Hit(c) \/ Miss(c) \/ AllocFails(c) \/ Arm(c)
           \/ Looks(c) \/ Rearms(c)
           \/ \E p \in Ports : Alloc(c, p)
           \/ \E f \in Flows : Begin(c, f) \/ Fire(c, f)
    PROVE  SerialInv' /\ Same
<1>1. Same
  BY RunSame
<1>2. Alone(c)'
  BY HitAlone, CreateAlone, CallbackAlone, IdleAlone, FailsEffect, BeginEffect,
     RearmsAs, RearmEffect
<1>3. \A f \in Flows : Opens(c, f) => Opens(c, f)'
  <2>1. CASE Arm(c)
    BY <2>1, ArmEffect DEF Opens, Moves
  <2>2. CASE ~ Arm(c)
    <3>1. cpu[c].pc \notin {"arm", "publish", "dropfwd"}
      BY <2>2, HitEffect, MissEffect, LookEffect, RearmsAs,
         AllocEffect, BeginEffect, FireEffect DEF AllocFails, At, Looking, Rechecking
    <3> QED
      BY <3>1 DEF Opens
  <2> QED
    BY <2>1, <2>2
<1> QED
  BY <1>1, <1>2, <1>3, SameSerial

-----------------------------------------------------------------------------
(* The steps that make and end a mapping.                                  *)

\* What the run has in hand: its mapping's tuple is the one it holds.
LEMMA HasTyped ==
    ASSUME TypeOK, NEW c \in Cpus, Has(c),
           cpu[c].pc \in {"arm", "publish"} \cup CallbackPcs
    PROVE  /\ cpu[c].flow \in Flows /\ fwd[cpu[c].flow] # None
           /\ TupleOf(cpu[c].flow) = Held(c) /\ Held(c) \in Tuples
<1>1. cpu[c].flow \in Flows /\ Held(c) \in Tuples /\ cpu[c].gen # 0
  BY RunLocals DEF CallbackPcs, Looking, Rechecking, Expiring, Unmapped
<1> QED
  BY <1>1 DEF Has, TupleOf, Held, None

\* The inserted mapping is not bound yet.
LEMMA InsertSerial ==
    ASSUME TypeOK, SerialInv, NEW c \in Cpus, Cpus = {c}, Insert(c)
    PROVE  SerialInv' /\ boundBar' = boundBar /\ reachesBar' = reachesBar
<1>0. PICK f \in Flows : f = cpu[c].flow
  BY RunLocals DEF Insert, At
<1>1. /\ cpu[c].pc = "insert" /\ f \in Flows /\ cpu[c].gen \in Gens
      /\ \A g \in Flows \ {f} : fwd'[g] = fwd[g]
      /\ nat' = nat /\ Moves(c, AfterInsert)
  BY <1>0, InsertEffect
<1>2. fwd'[f].gen = cpu[c].gen /\ fwd'[f].timer = "unarmed"
  BY <1>0, InsertEffect
<1>3. fwd'[f].port = cpu[c].port
  BY <1>0, <1>1 DEF Insert, TypeOK
<1>4. fwd[f] = None /\ nat[Held(c)] = None
  BY <1>0, <1>1 DEF SerialInv, Alone
<1>5. /\ Held(c)' = Held(c) /\ cpu'[c].flow = f /\ cpu'[c].gen = cpu[c].gen
      /\ cpu'[c].port = cpu[c].port /\ cpu'[c].pc \in {"arm", "publish"}
  BY <1>0, <1>1 DEF Moves, Held, AfterInsert
<1>6. TupleOf(f)' = Held(c)
  BY <1>0, <1>3 DEF TupleOf, Held
<1>7. ASSUME NEW t \in Tuples PROVE Mirrored(t)'
  <2>1. nat[t] # None => nat[t].flow \in Flows \ {f}
    BY <1>4, NamesTyped DEF SerialInv, Mirrored
  <2> QED
    BY <1>1, <2>1 DEF SerialInv, Mirrored, TupleOf
<1>8. ASSUME NEW g \in Flows, fwd'[g] # None, ~ Published(g)'
      PROVE  \E d \in Cpus : Opens(d, g)'
  <2>1. CASE g = f
    BY <1>5, <2>1 DEF Opens
  <2>2. CASE g # f
    <3>1. fwd[g] # None /\ ~ Published(g)
      BY <1>1, <1>8, <2>2 DEF Published, TupleOf
    <3>2. ~ Opens(c, g)
      BY <1>0, <2>2 DEF Opens
    <3> QED
      BY <3>1, <3>2 DEF SerialInv
  <2> QED
    BY <2>1, <2>2
<1>9. Alone(c)'
  <2>1. Has(c)'
    BY <1>0, <1>2, <1>3, <1>5 DEF Has
  <2> QED
    BY <1>1, <1>2, <1>4, <1>5, <2>1 DEF Alone, CallbackPcs, Looking, Rechecking, Expiring
<1>10. SerialInv'
  BY <1>7, <1>8, <1>9 DEF SerialInv
<1>11. ASSUME NEW g \in Flows
       PROVE  (Bound(g)' <=> Bound(g)) /\ (Bound(g) => TupleOf(g)' = TupleOf(g))
  <2>1. CASE g = f
    <3>1. ~ Bound(g)
      BY <1>4, <2>1 DEF Bound
    <3>2. ~ Bound(g)'
      BY <1>1, <1>2, <1>4, <1>6, <2>1, NamesTyped DEF Bound
    <3> QED
      BY <3>1, <3>2
  <2>2. CASE g # f
    BY <1>1, <2>2 DEF Bound, TupleOf
  <2> QED
    BY <2>1, <2>2
<1>12. boundBar' = boundBar
  BY <1>11 DEF boundBar
<1>13. reachesBar' = reachesBar
  BY <1>1 DEF reachesBar
<1> QED
  BY <1>10, <1>12, <1>13

\* The NAT insert of a run that has the mapping.
LEMMA PublishSerial ==
    ASSUME TypeOK, SerialInv, NEW c \in Cpus, Cpus = {c}, Publish(c)
    PROVE  /\ SerialInv'
           /\ cpu[c].flow \in Flows /\ Held(c) \in Tuples
           /\ TupleOf(cpu[c].flow) = Held(c) /\ fwd[cpu[c].flow] # None
           /\ nat[Held(c)] # None => nat[Held(c)].flow = cpu[c].flow
           /\ \A g \in Flows \ {cpu[c].flow} : fwd[g] # None => TupleOf(g) # Held(c)
<1>0. PICK f \in Flows : f = cpu[c].flow
  BY RunLocals DEF Publish, At
<1>1. /\ cpu[c].pc = "publish" /\ fwd' = fwd /\ cpu'[c].pc = "idle"
      /\ \A t \in Tuples \ {Held(c)} : nat'[t] = nat[t]
      /\ nat'[Held(c)].gen = cpu[c].gen /\ cpu[c].gen # 0
  BY <1>0, PublishEffect
<1>2. Alone(c) /\ Has(c)
  BY <1>1 DEF SerialInv, Alone
<1>3. f \in Flows /\ fwd[f] # None /\ TupleOf(f) = Held(c) /\ Held(c) \in Tuples
  BY <1>0, <1>1, <1>2, HasTyped
<1>4. nat'[Held(c)].flow = f /\ nat'[Held(c)] # None
  <2>1. nat'[Held(c)].flow = f
    BY <1>0, <1>3 DEF Publish, TypeOK
  <2> QED
    BY <1>1, <2>1 DEF None
<1>5. nat[Held(c)] # None => nat[Held(c)].flow = f
  BY <1>0, <1>1, <1>2 DEF Alone
<1>6. ASSUME NEW g \in Flows \ {f}, fwd[g] # None
      PROVE  TupleOf(g) # Held(c) /\ Published(g) /\ TupleOf(g) \in Tuples
  <2>1. ~ \E d \in Cpus : Opens(d, g)
    BY <1>0 DEF Opens
  <2>2. Published(g) /\ TupleOf(g) \in Tuples
    BY <1>6, <2>1, NamesTyped DEF SerialInv
  <2> QED
    BY <1>5, <2>2 DEF Published
<1>7. ASSUME NEW t \in Tuples PROVE Mirrored(t)'
  <2>1. CASE t = Held(c)
    <3>1. TupleOf(f)' = t /\ fwd'[f].gen = nat'[t].gen /\ nat'[t].flow = f
          /\ fwd'[f] # None
      BY <1>0, <1>1, <1>2, <1>3, <1>4, <2>1 DEF TupleOf, Has
    <3> QED
      BY <3>1 DEF Mirrored, TupleOf
  <2>2. CASE t # Held(c)
    BY <1>1, <2>2 DEF SerialInv, Mirrored, TupleOf
  <2> QED
    BY <2>1, <2>2
<1>8. ASSUME NEW g \in Flows, fwd'[g] # None PROVE Published(g)'
  <2>0. TupleOf(g)' = TupleOf(g)
    BY <1>1 DEF TupleOf
  <2>1. CASE g = f
    BY <1>3, <1>4, <2>0, <2>1 DEF Published
  <2>2. CASE g # f
    <3>1. nat'[TupleOf(g)] = nat[TupleOf(g)] /\ Published(g)
      BY <1>1, <1>6, <1>8, <2>2
    <3> QED
      BY <2>0, <3>1 DEF Published
  <2> QED
    BY <2>1, <2>2
<1>9. Alone(c)'
  BY <1>1, IdleAlone
<1> QED
  BY <1>0, <1>3, <1>5, <1>6, <1>7, <1>8, <1>9 DEF SerialInv

\* The removal of the reverse entry of the callback's mapping.
LEMMA DropNatSerial ==
    ASSUME TypeOK, SerialInv, NEW c \in Cpus, Cpus = {c}, DropNat(c)
    PROVE  /\ SerialInv'
           /\ cpu[c].flow \in Flows /\ Held(c) \in Tuples
           /\ Bound(cpu[c].flow) /\ TupleOf(cpu[c].flow) = Held(c)
           /\ nat'[Held(c)] = None
           /\ \A g \in Flows \ {cpu[c].flow} : fwd[g] # None => TupleOf(g) # Held(c)
<1>0. PICK f \in Flows : f = cpu[c].flow
  BY RunLocals DEF DropNat, At
<1>1. /\ cpu[c].pc = "dropnat" /\ fwd' = fwd /\ Moves(c, "dropfwd")
      /\ \A t \in Tuples \ {Held(c)} : nat'[t] = nat[t]
  BY DropNatEffect
<1>2. Has(c) /\ cpu[c].owns
  BY <1>1 DEF SerialInv, Alone, CallbackPcs, Looking, Rechecking, Expiring
<1>3. fwd[f] # None /\ TupleOf(f) = Held(c) /\ Held(c) \in Tuples
  BY <1>0, <1>1, <1>2, HasTyped DEF CallbackPcs, Looking, Rechecking, Expiring
<1>4. nat'[Held(c)] = None
  BY <1>2, DropNatEffect
<1>5. /\ cpu'[c].pc = "dropfwd" /\ Held(c)' = Held(c) /\ cpu'[c].flow = f
      /\ cpu'[c].gen = cpu[c].gen /\ cpu'[c].port = cpu[c].port
  BY <1>0, <1>1 DEF Moves, Held
<1>6. \A g \in Flows : ~ \E d \in Cpus : Opens(d, g)
  BY <1>1 DEF Opens
<1>7. Published(f) /\ Bound(f)
  <2>1. Published(f)
    BY <1>3, <1>6 DEF SerialInv
  <2> QED
    BY <1>3, <2>1 DEF SerialInv, Published, Mirrored, Bound
<1>8. ASSUME NEW g \in Flows \ {f}, fwd[g] # None
      PROVE  TupleOf(g) # Held(c) /\ Published(g) /\ TupleOf(g) \in Tuples
  <2>1. Published(g) /\ TupleOf(g) \in Tuples
    BY <1>6, <1>8, NamesTyped DEF SerialInv
  <2> QED
    BY <1>3, <1>7, <2>1 DEF Published
<1>9. ASSUME NEW t \in Tuples PROVE Mirrored(t)'
  BY <1>1, <1>4 DEF SerialInv, Mirrored, TupleOf
<1>10. ASSUME NEW g \in Flows, fwd'[g] # None, ~ Published(g)'
       PROVE  \E d \in Cpus : Opens(d, g)'
  <2>1. CASE g = f
    BY <1>5, <2>1 DEF Opens
  <2>2. CASE g # f
    <3>1. TupleOf(g)' = TupleOf(g)
      BY <1>1 DEF TupleOf
    <3>2. nat'[TupleOf(g)] = nat[TupleOf(g)] /\ Published(g)
      BY <1>1, <1>8, <1>10, <2>2
    <3> QED
      BY <1>10, <3>1, <3>2 DEF Published
  <2> QED
    BY <2>1, <2>2
<1>11. Alone(c)'
  <2>1. Has(c)'
    BY <1>0, <1>1, <1>2, <1>5 DEF Has
  <2> QED
    BY <1>4, <1>5, <2>1 DEF Alone
<1> QED
  BY <1>0, <1>3, <1>4, <1>7, <1>8, <1>9, <1>10, <1>11 DEF SerialInv

\* The removal of the mapping, whose reverse entry is gone.
LEMMA DropFwdSerial ==
    ASSUME TypeOK, SerialInv, NEW c \in Cpus, Cpus = {c}, DropFwd(c)
    PROVE  SerialInv' /\ boundBar' = boundBar /\ reachesBar' = reachesBar
<1>0. PICK f \in Flows : f = cpu[c].flow
  BY RunLocals DEF DropFwd, At
<1>1. /\ cpu[c].pc = "dropfwd" /\ fwd'[f] = None /\ nat' = nat
      /\ \A g \in Flows \ {f} : fwd'[g] = fwd[g]
      /\ cpu'[c].pc = "idle"
  <2>1. cpu[c].pc = "dropfwd"
    BY DEF DropFwd, At
  <2> QED
    BY <1>0, <2>1, DropEffect
<1>2. Has(c) /\ nat[Held(c)] = None
  BY <1>1 DEF SerialInv, Alone, CallbackPcs, Looking, Rechecking, Expiring
<1>3. fwd[f] # None /\ TupleOf(f) = Held(c) /\ Held(c) \in Tuples
  BY <1>0, <1>1, <1>2, HasTyped DEF CallbackPcs, Looking, Rechecking, Expiring
<1>4. ASSUME NEW t \in Tuples PROVE Mirrored(t)'
  <2>1. nat[t] # None => nat[t].flow \in Flows \ {f}
    BY <1>2, <1>3, NamesTyped DEF SerialInv, Mirrored
  <2> QED
    BY <1>1, <2>1 DEF SerialInv, Mirrored, TupleOf
<1>5. ASSUME NEW g \in Flows, fwd'[g] # None PROVE Published(g)'
  <2>1. g # f /\ fwd[g] # None /\ TupleOf(g)' = TupleOf(g)
    BY <1>1, <1>5 DEF TupleOf
  <2>2. ~ \E d \in Cpus : Opens(d, g)
    BY <1>0, <2>1 DEF Opens
  <2> QED
    BY <1>1, <2>1, <2>2 DEF SerialInv, Published
<1>6. Alone(c)'
  BY <1>1, IdleAlone
<1>7. SerialInv'
  BY <1>4, <1>5, <1>6 DEF SerialInv
<1>8. ASSUME NEW g \in Flows
      PROVE  (Bound(g)' <=> Bound(g)) /\ (Bound(g) => TupleOf(g)' = TupleOf(g))
  <2>1. CASE g = f
    <3>1. fwd[f].gen # 0
      BY <1>3, NamesTyped
    <3>2. ~ Bound(g) /\ ~ Bound(g)'
      BY <1>1, <1>2, <1>3, <2>1, <3>1, NamesTyped DEF Bound
    <3> QED
      BY <3>2
  <2>2. CASE g # f
    BY <1>1, <2>2 DEF Bound, TupleOf
  <2> QED
    BY <2>1, <2>2
<1>9. boundBar' = boundBar
  BY <1>8 DEF boundBar
<1>10. reachesBar' = reachesBar
  BY <1>1 DEF reachesBar
<1> QED
  BY <1>7, <1>9, <1>10

-----------------------------------------------------------------------------
(* The refinement.                                                         *)

\* The publication of a new mapping binds its flow; that of one that was hit
\* changes nothing but a time.
LEMMA PublishBinds ==
    ASSUME TypeOK, SerialInv, NEW c \in Cpus, Cpus = {c}, Publish(c)
    PROVE  \/ boundBar' = boundBar /\ reachesBar' = reachesBar
           \/ \E f \in Flows, t \in Tuples : B!Bind(f, t)
<1>0. PICK f \in Flows, t \in Tuples : f = cpu[c].flow /\ t = Held(c)
  BY PublishSerial
<1>1. /\ fwd' = fwd /\ \A u \in Tuples \ {t} : nat'[u] = nat[u]
      /\ nat'[t].gen = cpu[c].gen /\ cpu[c].gen # 0
      /\ cpu[c].pc = "publish"
  BY <1>0, PublishEffect
<1>2. /\ TupleOf(f) = t /\ fwd[f] # None
      /\ nat[t] # None => nat[t].flow = f
      /\ \A g \in Flows \ {f} : fwd[g] # None => TupleOf(g) # t
  BY <1>0, PublishSerial
<1>3. fwd[f].gen = cpu[c].gen
  BY <1>0, <1>1 DEF SerialInv, Alone, Has
<1>4. nat'[t].flow = f /\ nat'[t] # None
  <2>1. nat'[t].flow = f
    BY <1>0 DEF Publish, TypeOK
  <2> QED
    BY <1>1, <2>1 DEF None
<1>5. \A g \in Flows : TupleOf(g)' = TupleOf(g)
  BY <1>1 DEF TupleOf
<1>6. \A g \in Flows \ {f} : Bound(g)' <=> Bound(g)
  BY <1>1, <1>2, <1>5, NamesTyped DEF Bound
<1>7. Bound(f)'
  BY <1>1, <1>2, <1>3, <1>5 DEF Bound
<1>8. boundBar' = [boundBar EXCEPT ![f] = t]
  BY <1>2, <1>5, <1>6, <1>7 DEF boundBar
<1>9. reachesBar' = [reachesBar EXCEPT ![t] = f]
  BY <1>1, <1>4 DEF reachesBar
<1>10. CASE nat[t] = None
  <2>1. boundBar[f] = NoTuple
    BY <1>1, <1>2, <1>3, <1>10, NamesTyped DEF boundBar, Bound
  <2>2. reachesBar[t] = Nobody
    BY <1>10 DEF reachesBar
  <2>3. CanUseBar(f, t)
    BY <1>2 DEF CanUseBar, TupleOf
  <2>4. B!Bind(f, t)
    BY <1>8, <1>9, <2>1, <2>2, <2>3 DEF B!Bind
  <2> QED
    BY <2>4
<1>11. CASE nat[t] # None
  <2>1. Bound(f)
    BY <1>2, <1>11 DEF Bound, SerialInv, Mirrored
  <2>2. boundBar[f] = t /\ reachesBar[t] = f
    BY <1>2, <1>11, <2>1 DEF boundBar, reachesBar
  <2> QED
    BY <1>8, <1>9, <2>2 DEF boundBar, reachesBar
<1> QED
  BY <1>10, <1>11

\* The removal of the reverse entry releases the flow.
LEMMA DropNatReleases ==
    ASSUME TypeOK, SerialInv, NEW c \in Cpus, Cpus = {c}, DropNat(c)
    PROVE  \E f \in Flows : B!Release(f)
<1>0. PICK f \in Flows, t \in Tuples : f = cpu[c].flow /\ t = Held(c)
  BY DropNatSerial
<1>1. /\ fwd' = fwd /\ \A u \in Tuples \ {t} : nat'[u] = nat[u]
  BY <1>0, DropNatEffect
<1>2. /\ TupleOf(f) = t /\ Bound(f) /\ nat'[t] = None
      /\ \A g \in Flows \ {f} : fwd[g] # None => TupleOf(g) # t
  BY <1>0, DropNatSerial
<1>3. \A g \in Flows : TupleOf(g)' = TupleOf(g)
  BY <1>1 DEF TupleOf
<1>4. \A g \in Flows \ {f} : Bound(g)' <=> Bound(g)
  BY <1>1, <1>2, <1>3, NamesTyped DEF Bound
<1>5. ~ Bound(f)'
  BY <1>1, <1>2, <1>3, NamesTyped DEF Bound
<1>6. boundBar' = [boundBar EXCEPT ![f] = NoTuple]
  BY <1>3, <1>4, <1>5 DEF boundBar
<1>7. reachesBar' = [reachesBar EXCEPT ![t] = Nobody]
  BY <1>1, <1>2 DEF reachesBar
<1>8. boundBar[f] = t /\ t # NoTuple
  BY <1>2, SerialAssumption DEF boundBar
<1>9. B!Release(f)
  BY <1>6, <1>7, <1>8 DEF B!Release
<1> QED
  BY <1>9

\* What one step of the system is to Bindings.
Refines ==
    \/ boundBar' = boundBar /\ reachesBar' = reachesBar
    \/ B!Next

\* Helpers that never fail leave the rollbacks without work.
LEMMA NoFailures ==
    ASSUME TypeOK, SerialInv, NEW c \in Cpus
    PROVE  /\ ~ InsertFails(c) /\ ~ PublishFails(c) /\ ~ Disarm(c) /\ ~ ArmFails(c)
           /\ \A f \in Flows : ~ EvictFwd(f)
           /\ \A t \in Tuples : ~ EvictNat(t)
<1>1. ~ Disarm(c)
  BY DEF SerialInv, Alone, Disarm, At
<1>2. ~ ArmFails(c)
  <2>1. SUFFICES ASSUME ArmFails(c) PROVE FALSE
    OBVIOUS
  <2>2. cpu[c].pc = "arm"
    BY <2>1 DEF ArmFails, At
  <2>3. Has(c) /\ fwd[cpu[c].flow].timer = "unarmed"
    BY <2>2 DEF SerialInv, Alone
  <2>4. fwd[cpu[c].flow] # None
    BY <2>2, <2>3, HasTyped
  <2> QED
    BY <2>1, <2>3, <2>4, SerialAssumption DEF ArmFails, Armable
<1> QED
  BY <1>1, <1>2, SerialAssumption DEF InsertFails, PublishFails, EvictFwd, EvictNat

\* The invariant is inductive, and every step refines one of Bindings.
LEMMA SerialStep ==
    ASSUME TypeOK, SerialInv, [Next]_vars
    PROVE  SerialInv' /\ Refines
<1>0. TypeOK'
  BY TypeStep
<1>1. PICK c \in Cpus : Cpus = {c}
  BY SerialAssumption
<1>2. CASE \/ Hit(c) \/ Miss(c) \/ AllocFails(c) \/ Arm(c)
           \/ Looks(c) \/ Rearms(c)
           \/ \E p \in Ports : Alloc(c, p)
           \/ \E f \in Flows : Begin(c, f) \/ Fire(c, f)
  <2>1. SerialInv' /\ Same
    BY <1>0, <1>1, <1>2, RunSerial
  <2> QED
    BY <2>1, SameBars DEF Refines
<1>3. ASSUME NEW t \in Tuples, NEW r \in Remotes, Reply(c, t, r)
      PROVE  SerialInv' /\ Refines
  <2>1. Same
    BY <1>0, <1>3, RunSame
  <2>2. /\ cpu[c].pc = "idle" /\ cpu' = cpu
    BY <1>3 DEF Reply, Busy, Idle
  <2>3. Alone(c)' /\ \A f \in Flows : ~ Opens(c, f)
    BY <2>2, IdleAlone DEF Opens
  <2> QED
    BY <1>1, <2>1, <2>3, SameSerial, SameBars DEF Refines
<1>4. CASE Tick \/ UNCHANGED vars
  <2>1. fwd' = fwd /\ nat' = nat /\ cpu' = cpu
    BY <1>4 DEF Tick, vars
  <2>2. Same
    BY <2>1 DEF Same
  <2>3. Alone(c)'
    BY <2>1 DEF SerialInv, Alone, Has, Held
  <2>4. \A f \in Flows : Opens(c, f) => Opens(c, f)'
    BY <2>1 DEF Opens
  <2> QED
    BY <1>1, <2>2, <2>3, <2>4, SameSerial, SameBars DEF Refines
<1>5. CASE Insert(c) \/ DropFwd(c)
  BY <1>1, <1>5, InsertSerial, DropFwdSerial DEF Refines
<1>6. CASE Publish(c)
  BY <1>1, <1>6, PublishSerial, PublishBinds DEF Refines, B!Next
<1>7. CASE DropNat(c)
  BY <1>1, <1>7, DropNatSerial, DropNatReleases DEF Refines, B!Next
<1>8. \A d \in Cpus : d = c
  BY <1>1
<1> QED
  BY <1>2, <1>3, <1>4, <1>5, <1>6, <1>7, <1>8, NoFailures
     DEF Next, Forward, Callback, Rearms, Looks

\* The start of the one is the start of the other.
LEMMA SerialInit == Init => SerialInv /\ B!Init
<1> SUFFICES ASSUME Init PROVE SerialInv /\ B!Init
  OBVIOUS
<1>1. /\ \A f \in Flows : fwd[f] = None
      /\ \A t \in Tuples : nat[t] = None
      /\ \A c \in Cpus : cpu[c].pc = "idle"
  BY DEF Init, Idle
<1>2. SerialInv
  BY <1>1 DEF SerialInv, Mirrored, Alone, CallbackPcs, Looking, Rechecking, Expiring
<1>3. boundBar = [f \in Flows |-> NoTuple]
  BY <1>1 DEF boundBar, Bound
<1>4. reachesBar = [t \in Tuples |-> Nobody]
  BY <1>1 DEF reachesBar
<1> QED
  BY <1>2, <1>3, <1>4 DEF B!Init

(* Between classifier runs and callbacks, a forward mapping has the reverse *)
(* entry of its generation and flow, and every reverse entry its forward    *)
(* mapping: for every number of flows, addresses and ports, any timeout and *)
(* any duration of a run.                                                   *)
THEOREM MirrorCorrect == Spec => []MapsMirror
<1>1. SerialInv /\ TypeOK => MapsMirror
  <2> SUFFICES ASSUME SerialInv, TypeOK, \A c \in Cpus : ~ Busy(c)
               PROVE  /\ \A f \in Flows : fwd[f] # None => Bound(f) /\ nat[TupleOf(f)].flow = f
                      /\ \A t \in Tuples : nat[t] # None =>
                           LET f == nat[t].flow IN
                             fwd[f] # None /\ TupleOf(f) = t /\ Bound(f)
    BY DEF MapsMirror
  <2>1. \A f \in Flows : ~ \E c \in Cpus : Opens(c, f)
    BY DEF Opens, Busy, Idle
  <2>2. \A f \in Flows : fwd[f] # None => Bound(f) /\ nat[TupleOf(f)].flow = f
    BY <2>1, NamesTyped DEF SerialInv, Published, Mirrored, Bound
  <2>3. ASSUME NEW t \in Tuples, nat[t] # None
        PROVE  LET f == nat[t].flow IN fwd[f] # None /\ TupleOf(f) = t /\ Bound(f)
    BY <2>3 DEF SerialInv, Mirrored, Bound
  <2> QED
    BY <2>2, <2>3
<1> QED
  BY <1>1, InitType, TypeStep, SerialInit, SerialStep, PTL DEF Spec

(* The session table implements Bindings: the steps of                      *)
(* lookup_or_create_mapping, of the NAT insert after it, of the reverse     *)
(* classifier and of session_timer_callback map to a flow that takes a      *)
(* tuple nobody has, to one that gives its own back, or to nothing.         *)
THEOREM BindingsCorrect == Spec => ImplementsBindings
<1>1. [Next]_vars /\ TypeOK /\ SerialInv => [B!Next]_<<boundBar, reachesBar>>
  BY SerialStep DEF Refines
<1> QED
  BY <1>1, InitType, TypeStep, SerialInit, SerialStep, PTL
     DEF Spec, ImplementsBindings, B!Spec

(* Replies to the tuple that a flow's packets leave from reach that flow,   *)
(* while both entries of its session are in place.                          *)
THEOREM OwnersReached == Spec => []B!RepliesReachOwner
<1>1. SerialInv /\ TypeOK => B!RepliesReachOwner
  <2> SUFFICES ASSUME SerialInv, TypeOK, NEW f \in Flows, boundBar[f] # NoTuple
               PROVE  reachesBar[boundBar[f]] = f
    BY DEF B!RepliesReachOwner
  <2>1. Bound(f) /\ boundBar[f] = TupleOf(f)
    BY DEF boundBar
  <2>2. fwd[f] # None /\ TupleOf(f) \in Tuples /\ nat[TupleOf(f)] # None
    BY <2>1, NamesTyped DEF Bound
  <2>3. nat[TupleOf(f)].flow = f
    <3>1. CASE Published(f)
      BY <3>1 DEF Published
    <3>2. CASE ~ Published(f)
      <4>1. PICK c \in Cpus : Opens(c, f)
        BY <2>2, <3>2 DEF SerialInv
      <4>2. /\ cpu[c].flow = f /\ cpu[c].pc \in {"arm", "publish", "dropfwd"}
            /\ Has(c)
        BY <4>1 DEF Opens, SerialInv, Alone, CallbackPcs, Looking, Rechecking, Expiring
      <4>3. TupleOf(f) = Held(c)
        BY <4>2, HasTyped DEF CallbackPcs, Looking, Rechecking, Expiring
      <4> QED
        BY <2>2, <4>2, <4>3 DEF SerialInv, Alone
    <3> QED
      BY <3>1, <3>2
  <2> QED
    BY <2>1, <2>2, <2>3 DEF reachesBar
<1> QED
  BY <1>1, InitType, TypeStep, SerialInit, SerialStep, PTL DEF Spec

=============================================================================
