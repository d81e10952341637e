-------------------------- MODULE Lifecycle_proofs --------------------------
(***************************************************************************)
(* What an attached instance promises, for every set of policies, address  *)
(* pools, interfaces and flows and every width of the timeout field.       *)
(***************************************************************************)
EXTENDS Lifecycle, FiniteSetTheorems, TLAPS

\* cfg is what attach makes of a policy validate accepts and of two interfaces.
Acceptable(cfg) ==
    \E q \in Policies, index \in [Programs -> Indices \ {Unset}] :
      Valid(PolicyOf(q)) /\ cfg = DataplaneConfig(PolicyOf(q), index)

\* What the steps of attach before the present one have achieved.
Calls ==
    /\ call.phase # "none" => handle # None
    /\ call.phase = "attach" =>
         /\ ~handle.attached /\ handle.config # None
         /\ call.names \in [Programs -> Interfaces]
         /\ call.at >= 2 => call.index["fwd"] # Unset
         /\ call.at >= 3 => call.index["rev"] # Unset
         /\ call.at >= 4 => config = DataplaneConfig(handle.config, call.index)
         /\ call.at >= 7 => programs["fwd"].loaded
         /\ call.at >= 9 => programs["rev"].loaded

Accepted ==
    /\ handle # None /\ handle.config # None => Valid(handle.config)
    /\ config # None => Acceptable(config)
    /\ run # None => Acceptable(run)

Linked ==
    /\ \A p \in Programs : ~programs[p].loaded => programs[p].at = Unset
    /\ programs["fwd"].at # Unset => config # None

\* Until its forward program is loaded, an instance has no sessions.
Untouched ==
    ~programs["fwd"].loaded /\ call.phase # "drop" =>
      run = None /\ \A f \in Flows : sessions[f] = None
NoHandle == handle = None => ~programs["fwd"].loaded

\* From the loading of the forward program on, an attach that succeeds has all
\* sessions and runs to itself.
Succeeding == call.phase = "attach" /\ call.at >= 7
OwnConfig ==
    /\ handle.config # None /\ config # None
    /\ config.secs = WholeSeconds(handle.config.timeout)
    /\ run # None => run = config
OwnSessions ==
    \A f \in Flows : sessions[f] # None =>
      /\ sessions[f].ext \in PoolOf(config)
      /\ sessions[f].timed <=> config.secs # 0
Own == Attached \/ Succeeding => OwnConfig /\ OwnSessions

IInv == TypeOK /\ Calls /\ Accepted /\ Linked /\ Untouched /\ NoHandle /\ Own

-----------------------------------------------------------------------------

\* A configuration attach wrote is well formed, and whatever a flow's hash, the
\* address selected for it is one of its pool.
LEMMA AcceptableConfig ==
    ASSUME NEW cfg, Acceptable(cfg)
    PROVE  /\ cfg \in Configs
           /\ cfg # None
           /\ \A f \in Flows : SelectedOf(cfg, f) \in Addresses \cap PoolOf(cfg)
<1> PICK q \in Policies, index \in [Programs -> Indices \ {Unset}] :
      Valid(PolicyOf(q)) /\ cfg = DataplaneConfig(PolicyOf(q), index)
  BY DEF Acceptable
<1> DEFINE policy == PolicyOf(q)
<1>1. /\ policy.pool \in Seq(Addresses) /\ Len(policy.pool) \in 1 .. PoolMax
      /\ policy.min \in Nat /\ policy.max \in Nat /\ policy.timeout \in Durations
  BY LifecycleAssumption DEF PolicyOf, Valid
<1>2. WholeSeconds(policy.timeout) \in 0 .. SecsMax
  BY <1>1, LifecycleAssumption DEF WholeSeconds, Durations
<1>3. index["fwd"] \in Indices /\ index["rev"] \in Indices
  BY DEF Programs
<1>4. cfg.len = Len(policy.pool) /\ \A i \in 1 .. PoolMax :
        cfg.pool[i] = IF i \in DOMAIN policy.pool THEN policy.pool[i] ELSE Unset
  BY DEF DataplaneConfig
<1>5. cfg \in Configs
  <2>1. cfg.pool \in [1 .. PoolMax -> Addresses \cup {Unset}]
    BY <1>1 DEF DataplaneConfig
  <2> HIDE DEF policy
  <2> QED
    BY <1>1, <1>2, <1>3, <2>1 DEF DataplaneConfig, Configs, policy
<1>6. cfg # None
  BY DEF DataplaneConfig, None
<1>7. ASSUME NEW f \in Flows PROVE SelectedOf(cfg, f) \in Addresses \cap PoolOf(cfg)
  <2> DEFINE i == (Hash[f] % cfg.len) + 1
  <2>1. cfg.len \in Nat \ {0} /\ cfg.len =< PoolMax /\ PoolMax \in Nat
    BY <1>1, <1>4, LifecycleAssumption
  <2>2. Hash[f] \in Nat
    BY LifecycleAssumption
  <2>3. i \in 1 .. cfg.len
    BY <2>1, <2>2
  <2> HIDE DEF i
  <2>4. i \in DOMAIN policy.pool /\ i \in 1 .. PoolMax
    BY <1>1, <1>4, <2>1, <2>3
  <2>5. cfg.pool[i] \in Addresses
    BY <1>1, <1>4, <2>4
  <2> QED
    BY <2>3, <2>5 DEF SelectedOf, PoolOf, i
<1> QED
  BY <1>5, <1>6, <1>7

-----------------------------------------------------------------------------

\* The calls of attach stand where Steps says.
LEMMA StepNumbers ==
    /\ Len(Steps) = 10
    /\ \A a \in 1 .. 10, p \in Programs :
         /\ Steps[a] = <<"index", p>> => a = IF p = "fwd" THEN 1 ELSE 2
         /\ Steps[a] = <<"config">> => a = 3
         /\ Steps[a] = <<"clsact", p>> => a = IF p = "fwd" THEN 4 ELSE 5
         /\ Steps[a] = <<"load", p>> => a = IF p = "fwd" THEN 6 ELSE 8
         /\ Steps[a] = <<"link", p>> => a = IF p = "fwd" THEN 7 ELSE 9
         /\ Steps[a] = <<"ok">> => a = 10
  BY DEF Steps, Programs

\* The types of what a step of the handle changes.
LEMMA CallTypes ==
    /\ NoCall \in CallRecords /\ Dropping \in CallRecords
    /\ NoCall.phase = "none" /\ Dropping.phase = "drop"
<1>1. NoIndex \in [Programs -> Indices]
  BY LifecycleAssumption DEF NoIndex, Indices, Unset
<1>2. NoCall \in CallRecords
  BY <1>1, StepNumbers DEF NoCall, CallRecords
<1>3. Dropping \in CallRecords
  BY <1>2, StepNumbers DEF Dropping, CallRecords
<1> QED
  BY <1>2, <1>3 DEF NoCall, Dropping

\* The next step of attach.
LEMMA ProceedType ==
    ASSUME call \in CallRecords, call.at \in 1 .. 9, Proceed
    PROVE  call' \in CallRecords
  BY StepNumbers DEF CallRecords, Proceed

\* What attach writes to CONFIG is acceptable.
LEMMA WriteConfigAcceptable ==
    ASSUME IInv, WriteConfig
    PROVE  Acceptable(config')
<1>1. call.at = 3 /\ call.phase = "attach"
  BY StepNumbers DEF WriteConfig, At, Programs, IInv, TypeOK, CallRecords
<1>2. PICK q \in Policies : handle.config = PolicyOf(q)
  BY <1>1 DEF IInv, TypeOK, Calls
<1>3. Valid(PolicyOf(q))
  BY <1>1, <1>2 DEF IInv, Calls, Accepted
<1>4. call.index \in [Programs -> Indices \ {Unset}]
  <2>1. call.index["fwd"] # Unset /\ call.index["rev"] # Unset
    BY <1>1 DEF IInv, Calls
  <2>2. call.index \in [Programs -> Indices]
    BY DEF IInv, TypeOK, CallRecords
  <2> QED
    BY <2>1, <2>2 DEF Programs
<1>5. config' = DataplaneConfig(PolicyOf(q), call.index)
  BY <1>2 DEF WriteConfig
<1> QED
  BY <1>3, <1>4, <1>5 DEF Acceptable

\* Every step keeps the types.
LEMMA TypeStep ==
    ASSUME IInv, Next
    PROVE  TypeOK'
<1> USE DEF IInv, TypeOK
<1>1. Len(Steps) = 10 /\ Unset \in Indices
  BY StepNumbers, LifecycleAssumption DEF Indices, Unset
<1>2. CASE Load
  BY <1>2 DEF Load, Fresh, dataplane, interfaces
<1>3. ASSUME NEW q \in Policies, Configure(q) PROVE TypeOK'
  BY <1>3 DEF Configure, Ready, dataplane, interfaces
<1>4. ASSUME NEW names \in Pairs, Attach(names) PROVE TypeOK'
  BY <1>1, <1>4, LifecycleAssumption
     DEF Attach, Calling, CallRecords, NoIndex, dataplane, interfaces
<1>5. ASSUME NEW q \in Policies, NEW names \in Pairs, BuilderAttach(q, names)
      PROVE  TypeOK'
  <2>1. handle' \in [config : {PolicyOf(r) : r \in Policies} \cup {None},
                     attached : BOOLEAN]
    BY <1>5 DEF BuilderAttach, Fresh
  <2> QED
    BY <1>1, <1>5, <2>1, LifecycleAssumption
       DEF BuilderAttach, Calling, CallRecords, NoIndex, dataplane, interfaces
<1>6. ASSUME NEW p \in Programs, ReadIndex(p) PROVE TypeOK'
  <2>1. call.names \in [Programs -> Interfaces] /\ call.at \in 1 .. 2
    BY <1>1, <1>6, StepNumbers DEF ReadIndex, At, Calls, CallRecords
  <2>2. net[call.names[p]] \in Indices
    BY <2>1
  <2>3. call' \in CallRecords
    <3> DEFINE index == [call.index EXCEPT ![p] = net[call.names[p]]]
    <3>1. index \in [Programs -> Indices]
      BY <2>2 DEF CallRecords
    <3>2. call' = [call EXCEPT !.at = call.at + 1, !.index = index]
      BY <1>6 DEF ReadIndex
    <3>3. call.at + 1 \in 1 .. Len(Steps)
      BY <1>1, <2>1
    <3> HIDE DEF index
    <3> QED
      BY <3>1, <3>2, <3>3 DEF CallRecords
  <2> QED
    BY <1>6, <2>3 DEF ReadIndex, dataplane, interfaces
<1>7. ASSUME NEW p \in Programs, EnsureClsact(p) PROVE TypeOK'
  <2>1. call.at \in 4 .. 5
    BY <1>1, <1>7, StepNumbers DEF EnsureClsact, At, CallRecords
  <2>2. call' \in CallRecords
    BY <1>7, <2>1, ProceedType DEF EnsureClsact
  <2> QED
    BY <1>7, <2>2 DEF EnsureClsact, dataplane, interfaces
<1>8. ASSUME NEW p \in Programs, LoadProgram(p) PROVE TypeOK'
  <2>1. call.at \in {6, 8}
    BY <1>1, <1>8, StepNumbers DEF LoadProgram, At, CallRecords
  <2>2. call' \in CallRecords
    BY <1>8, <2>1, ProceedType DEF LoadProgram
  <2> QED
    BY <1>8, <2>2 DEF LoadProgram, interfaces
<1>9. ASSUME NEW p \in Programs, LinkProgram(p) PROVE TypeOK'
  <2>1. call.names \in [Programs -> Interfaces] /\ call.at \in {7, 9}
    BY <1>1, <1>9, StepNumbers DEF LinkProgram, At, Calls, CallRecords
  <2>2. net[call.names[p]] \in Indices
    BY <2>1
  <2>3. call' \in CallRecords
    BY <1>9, <2>1, ProceedType DEF LinkProgram
  <2> QED
    BY <1>9, <2>2, <2>3 DEF LinkProgram, interfaces
<1>10. ASSUME NEW p \in Programs, Unload(p) PROVE TypeOK'
  BY <1>1, <1>10 DEF Unload, interfaces
<1>11. CASE WriteConfig
  <2>1. call.at = 3
    BY <1>1, <1>11, StepNumbers DEF WriteConfig, At, Programs, CallRecords
  <2>2. Acceptable(config')
    BY <1>1, <1>11, WriteConfigAcceptable
  <2>3. config' \in Configs
    BY <2>2, AcceptableConfig
  <2>4. call' \in CallRecords
    BY <1>11, <2>1, ProceedType DEF WriteConfig
  <2> QED
    BY <1>11, <2>3, <2>4 DEF WriteConfig, interfaces
<1>12. CASE Succeed
  <2>1. handle # None
    BY <1>12 DEF Succeed, At, Calls
  <2>2. call' \in CallRecords
    BY <1>12, CallTypes DEF Succeed, CallRecords
  <2> QED
    BY <1>12, <2>1, <2>2 DEF Succeed, dataplane, interfaces
<1>13. CASE Fail
  BY <1>1, <1>13, CallTypes DEF Fail, dataplane, interfaces
<1>14. CASE Drop
  BY <1>1, <1>14, CallTypes DEF Drop, dataplane, interfaces
<1>15. CASE Free
  BY <1>1, <1>15, CallTypes DEF Free, interfaces
<1>16. CASE Receive
  <2>1. run' = config /\ config # None
    BY <1>16 DEF Receive, Effective, Linked
  <2> QED
    BY <1>16, <2>1 DEF Receive, interfaces
<1>17. ASSUME NEW f \in Flows, Map(f) PROVE TypeOK'
  <2>1. SelectedOf(run, f) \in Addresses
    BY <1>17, AcceptableConfig DEF Map, Accepted
  <2> QED
    BY <1>17, <2>1 DEF Map, interfaces
<1>18. ASSUME NEW f \in Flows, Fire(f) PROVE TypeOK'
  BY <1>18 DEF Fire, interfaces
<1>19. CASE Pass
  BY <1>19 DEF Pass, interfaces
<1>20. ASSUME NEW i \in Interfaces, Delete(i) PROVE TypeOK'
  <2>1. programs' \in [Programs -> [loaded : BOOLEAN, at : Indices]]
    BY <1>1, <1>20 DEF Delete
  <2>2. moved' \in SUBSET Programs
    BY <1>20 DEF Delete
  <2> QED
    BY <1>1, <1>20, <2>1, <2>2 DEF Delete
<1>21. ASSUME NEW i \in Interfaces, Create(i) PROVE TypeOK'
  <2>1. created + 1 \in Indices
    BY <1>21, LifecycleAssumption DEF Create, Indices
  <2> QED
    BY <1>21, <2>1 DEF Create, dataplane
<1> QED
  BY <1>2, <1>3, <1>4, <1>5, <1>6, <1>7, <1>8, <1>9, <1>10, <1>11, <1>12, <1>13,
     <1>14, <1>15, <1>16, <1>17, <1>18, <1>19, <1>20, <1>21 DEF Next

-----------------------------------------------------------------------------

\* Where a step of attach is taken.
LEMMA Positions ==
    ASSUME IInv, NEW p \in Programs
    PROVE  /\ ReadIndex(p) => call.phase = "attach" /\ call.at = (IF p = "fwd" THEN 1 ELSE 2)
           /\ WriteConfig => call.phase = "attach" /\ call.at = 3
           /\ EnsureClsact(p) => call.phase = "attach" /\ call.at \in 4 .. 5
           /\ LoadProgram(p) => call.phase = "attach" /\ call.at = (IF p = "fwd" THEN 6 ELSE 8)
           /\ LinkProgram(p) => call.phase = "attach" /\ call.at = (IF p = "fwd" THEN 7 ELSE 9)
           /\ Succeed => call.phase = "attach" /\ call.at = 10
<1>1. call.at \in 1 .. 10
  BY StepNumbers DEF IInv, TypeOK, CallRecords
<1> QED
  BY <1>1, StepNumbers
     DEF ReadIndex, WriteConfig, EnsureClsact, LoadProgram, LinkProgram, Succeed, At

\* The step attach goes on to.
LEMMA ProceedTo ==
    ASSUME IInv, Proceed
    PROVE  /\ call'.at = call.at + 1 /\ call'.phase = call.phase
           /\ call'.names = call.names /\ call'.index = call.index
  BY DEF IInv, TypeOK, CallRecords, Proceed

\* Every step keeps what attach has achieved so far.
LEMMA CallsStep ==
    ASSUME IInv, Next
    PROVE  Calls'
<1> USE DEF IInv, Calls
<1>1. CASE Load
  BY <1>1 DEF Load, Fresh, None, dataplane
<1>2. ASSUME NEW q \in Policies, Configure(q) PROVE Calls'
  BY <1>2 DEF Configure, Ready
<1>3. ASSUME NEW names \in Pairs, Attach(names) PROVE Calls'
  BY <1>3, LifecycleAssumption DEF Attach, Ready, Calling
<1>4. ASSUME NEW q \in Policies, NEW names \in Pairs, BuilderAttach(q, names)
      PROVE  Calls'
  <2>1. handle' = [config |-> PolicyOf(q), attached |-> FALSE]
    BY <1>4 DEF BuilderAttach, Fresh
  <2>2. handle' # None /\ handle'.config # None /\ ~handle'.attached
    BY <2>1 DEF None, PolicyOf
  <2> QED
    BY <1>4, <2>2, LifecycleAssumption DEF BuilderAttach, Calling
<1>5. ASSUME NEW p \in Programs, ReadIndex(p) PROVE Calls'
  <2>1. /\ call.phase = "attach" /\ call.at = (IF p = "fwd" THEN 1 ELSE 2)
        /\ net[call.names[p]] # Unset
    BY <1>5, Positions DEF ReadIndex, There
  <2>2. /\ call'.at = call.at + 1 /\ call'.phase = call.phase
        /\ call'.names = call.names
        /\ call'.index = [call.index EXCEPT ![p] = net[call.names[p]]]
        /\ call.index \in [Programs -> Indices]
    BY <1>5 DEF ReadIndex, TypeOK, CallRecords
  <2> QED
    BY <1>5, <2>1, <2>2 DEF ReadIndex, Programs, dataplane
<1>6. ASSUME NEW p \in Programs, EnsureClsact(p) PROVE Calls'
  BY <1>6, Positions, ProceedTo DEF EnsureClsact, dataplane
<1>7. ASSUME NEW p \in Programs, LoadProgram(p) PROVE Calls'
  <2>1. \A r \in Programs : programs'[r].loaded <=> r = p \/ programs[r].loaded
    BY <1>7 DEF LoadProgram, TypeOK
  <2>2. call.phase = "attach" /\ call.at = (IF p = "fwd" THEN 6 ELSE 8)
    BY <1>7, Positions
  <2>3. /\ call'.at = call.at + 1 /\ call'.phase = call.phase
        /\ call'.names = call.names /\ call'.index = call.index
    BY <1>7, ProceedTo DEF LoadProgram
  <2> QED
    BY <1>7, <2>1, <2>2, <2>3 DEF LoadProgram, Programs
<1>8. ASSUME NEW p \in Programs, LinkProgram(p) PROVE Calls'
  <2>1. \A r \in Programs : programs'[r].loaded <=> programs[r].loaded
    BY <1>8 DEF LinkProgram, TypeOK
  <2>2. call.phase = "attach" /\ call.at = (IF p = "fwd" THEN 7 ELSE 9)
    BY <1>8, Positions
  <2>3. /\ call'.at = call.at + 1 /\ call'.phase = call.phase
        /\ call'.names = call.names /\ call'.index = call.index
    BY <1>8, ProceedTo DEF LinkProgram
  <2> QED
    BY <1>8, <2>1, <2>2, <2>3 DEF LinkProgram, Programs
<1>9. ASSUME NEW p \in Programs, Unload(p) PROVE Calls'
  BY <1>9 DEF Unload
<1>10. CASE WriteConfig
  <2>1. "fwd" \in Programs
    BY DEF Programs
  <2> QED
    BY <1>10, <2>1, Positions, ProceedTo DEF WriteConfig
<1>11. CASE Succeed
  BY <1>11, CallTypes DEF Succeed, CallRecords
<1>12. CASE Fail
  BY <1>12, CallTypes DEF Fail
<1>13. CASE Drop
  BY <1>13, CallTypes DEF Drop, Ready
<1>14. CASE Free
  BY <1>14, CallTypes DEF Free
<1>15. CASE Receive \/ Pass \/ \E f \in Flows : Map(f) \/ Fire(f)
  BY <1>15 DEF Receive, Pass, Map, Fire
<1>16. ASSUME NEW i \in Interfaces, Delete(i) PROVE Calls'
  BY <1>16 DEF Delete, TypeOK, Programs
<1>17. ASSUME NEW i \in Interfaces, Create(i) PROVE Calls'
  BY <1>17 DEF Create, dataplane
<1> QED
  BY <1>1, <1>2, <1>3, <1>4, <1>5, <1>6, <1>7, <1>8, <1>9, <1>10, <1>11, <1>12,
     <1>13, <1>14, <1>15, <1>16, <1>17 DEF Next

\* Every step keeps policies and configurations accepted.
LEMMA AcceptedStep ==
    ASSUME IInv, Next
    PROVE  Accepted'
<1> USE DEF IInv, Accepted
<1>1. CASE Load
  BY <1>1 DEF Load, Fresh, dataplane
<1>2. ASSUME NEW q \in Policies, Configure(q) PROVE Accepted'
  BY <1>2 DEF Configure, Ready, TypeOK, dataplane
<1>3. ASSUME NEW q \in Policies, NEW names \in Pairs, BuilderAttach(q, names)
      PROVE  Accepted'
  BY <1>3 DEF BuilderAttach, Fresh, dataplane
<1>4. CASE WriteConfig
  BY <1>4, WriteConfigAcceptable DEF WriteConfig
<1>5. CASE Succeed
  BY <1>5 DEF Succeed, TypeOK, At, Calls, dataplane
<1>6. CASE Receive
  BY <1>6 DEF Receive, Effective, Linked
<1>7. CASE Free
  BY <1>7 DEF Free
<1>8. CASE UNCHANGED <<handle, config>> /\ run' \in {run, None}
  BY <1>8
<1> QED
  BY <1>1, <1>2, <1>3, <1>4, <1>5, <1>6, <1>7, <1>8
     DEF Next, Attach, ReadIndex, EnsureClsact, LoadProgram, LinkProgram, Unload,
         Fail, Drop, Map, Fire, Pass, Delete, Create, dataplane

\* Every step keeps links to loaded programs, and behind the configuration.
LEMMA LinkedStep ==
    ASSUME IInv, Next
    PROVE  Linked'
<1> USE DEF IInv, Linked
<1>1. ASSUME NEW p \in Programs, LoadProgram(p) PROVE Linked'
  BY <1>1 DEF LoadProgram, TypeOK, Programs
<1>2. ASSUME NEW p \in Programs, LinkProgram(p) PROVE Linked'
  <2>1. /\ call.phase = "attach" /\ call.at = (IF p = "fwd" THEN 7 ELSE 9)
        /\ handle # None
    BY <1>2, Positions DEF Calls
  <2>2. config # None
    <3>1. config = DataplaneConfig(handle.config, call.index)
      BY <2>1 DEF Calls
    <3> QED
      BY <3>1 DEF DataplaneConfig, None
  <2>3. programs[p].loaded
    BY <2>1 DEF Calls, Programs
  <2> QED
    BY <1>2, <2>2, <2>3 DEF LinkProgram, TypeOK, Programs
<1>3. ASSUME NEW p \in Programs, Unload(p) PROVE Linked'
  BY <1>3 DEF Unload, TypeOK, Programs
<1>4. CASE WriteConfig
  <2>1. config' # None
    BY <1>4, WriteConfigAcceptable, AcceptableConfig
  <2> QED
    BY <1>4, <2>1 DEF WriteConfig
<1>5. CASE Free
  BY <1>5 DEF Free, Programs
<1>6. ASSUME NEW i \in Interfaces, Delete(i) PROVE Linked'
  BY <1>6 DEF Delete, TypeOK, Programs
<1>7. CASE UNCHANGED <<config, programs>>
  BY <1>7
<1> QED
  BY <1>1, <1>2, <1>3, <1>4, <1>5, <1>6, <1>7
     DEF Next, Load, Configure, Attach, BuilderAttach, ReadIndex, EnsureClsact,
         Succeed, Fail, Drop, Receive, Map, Fire, Pass, Create, dataplane

\* Every step keeps an instance whose forward program is not loaded untouched.
LEMMA UntouchedStep ==
    ASSUME IInv, Next
    PROVE  Untouched' /\ NoHandle'
<1> USE DEF IInv, Untouched, NoHandle
<1>1. "fwd" \in Programs
  BY DEF Programs
<1>2. CASE Load
  BY <1>2 DEF Load, Fresh, None, dataplane
<1>3. ASSUME NEW q \in Policies, Configure(q) PROVE Untouched' /\ NoHandle'
  <2>1. handle' # None
    BY <1>3 DEF Configure, Ready, TypeOK, None
  <2> QED
    BY <1>3, <2>1 DEF Configure, dataplane
<1>4. ASSUME NEW names \in Pairs, Attach(names) PROVE Untouched' /\ NoHandle'
  BY <1>4 DEF Attach, Ready, dataplane
<1>5. ASSUME NEW q \in Policies, NEW names \in Pairs, BuilderAttach(q, names)
      PROVE  Untouched' /\ NoHandle'
  BY <1>5 DEF BuilderAttach, Calls, dataplane
<1>6. ASSUME NEW p \in Programs, LoadProgram(p) PROVE Untouched' /\ NoHandle'
  <2>1. programs'["fwd"].loaded = programs["fwd"].loaded \/ programs'["fwd"].loaded
    BY <1>1, <1>6 DEF LoadProgram, TypeOK
  <2>2. call.phase = "attach" /\ handle # None
    BY <1>6, Positions DEF Calls
  <2> QED
    BY <1>1, <1>6, <2>1, <2>2 DEF LoadProgram, TypeOK
<1>7. ASSUME NEW p \in Programs, LinkProgram(p) PROVE Untouched' /\ NoHandle'
  <2>1. programs'["fwd"].loaded = programs["fwd"].loaded
    BY <1>1, <1>7 DEF LinkProgram, TypeOK
  <2>2. call.phase = "attach"
    BY <1>7, Positions
  <2> QED
    BY <1>7, <2>1, <2>2 DEF LinkProgram
<1>8. ASSUME NEW p \in Programs, Unload(p) PROVE Untouched' /\ NoHandle'
  BY <1>8 DEF Unload, Calls
<1>9. CASE Succeed
  <2>1. handle # None /\ handle' # None /\ programs["fwd"].loaded
    BY <1>1, <1>9, Positions DEF Succeed, Calls, TypeOK, None
  <2> QED
    BY <1>9, <2>1 DEF Succeed, dataplane
<1>10. CASE Fail
  BY <1>10 DEF Fail, dataplane
<1>11. CASE Drop
  BY <1>11, CallTypes DEF Drop, Ready, dataplane
<1>12. CASE Free
  BY <1>1, <1>12 DEF Free
<1>13. CASE Receive
  BY <1>1, <1>13 DEF Receive, Linked
<1>14. CASE Pass \/ \E f \in Flows : Map(f) \/ Fire(f)
  BY <1>14 DEF Pass, Map, Fire, TypeOK
<1>15. ASSUME NEW i \in Interfaces, Delete(i) PROVE Untouched' /\ NoHandle'
  BY <1>1, <1>15 DEF Delete, TypeOK
<1>16. CASE WriteConfig \/ \E p \in Programs : ReadIndex(p) \/ EnsureClsact(p)
  <2>1. call.phase = "attach"
    BY <1>16, <1>1, Positions
  <2> QED
    BY <1>16, <2>1 DEF WriteConfig, ReadIndex, EnsureClsact, dataplane
<1>17. ASSUME NEW i \in Interfaces, Create(i) PROVE Untouched' /\ NoHandle'
  BY <1>17 DEF Create, dataplane
<1> QED
  BY <1>2, <1>3, <1>4, <1>5, <1>6, <1>7, <1>8, <1>9, <1>10, <1>11, <1>12, <1>13,
     <1>14, <1>15, <1>16, <1>17 DEF Next

\* Every step keeps a succeeding or attached instance to its own configuration.
LEMMA OwnStep ==
    ASSUME IInv, Next
    PROVE  Own'
<1> USE DEF IInv
<1>1. "fwd" \in Programs
  BY DEF Programs
<1>2. CASE Load
  BY <1>2 DEF Load, Fresh, Own, Attached, Succeeding, Calls
<1>3. ASSUME NEW q \in Policies, Configure(q) PROVE Own'
  <2>1. ~Attached' /\ ~Succeeding'
    BY <1>3 DEF Configure, Ready, TypeOK, Attached, Succeeding
  <2> QED
    BY <2>1 DEF Own
<1>4. ASSUME NEW names \in Pairs, Attach(names) PROVE Own'
  BY <1>4 DEF Attach, Ready, Calling, Own, Attached, Succeeding
<1>5. ASSUME NEW q \in Policies, NEW names \in Pairs, BuilderAttach(q, names)
      PROVE  Own'
  BY <1>5 DEF BuilderAttach, Fresh, Calling, Own, Attached, Succeeding
<1>6. ASSUME NEW p \in Programs, ReadIndex(p) PROVE Own'
  <2>1. ~Attached /\ call.at \in 1 .. 2
    BY <1>6, Positions DEF Attached, Calls
  <2>2. call'.at = call.at + 1
    BY <1>6 DEF ReadIndex, TypeOK, CallRecords
  <2>3. ~Attached' /\ ~Succeeding'
    BY <1>6, <2>1, <2>2 DEF ReadIndex, Attached, Succeeding, Calls, At
  <2> QED
    BY <2>3 DEF Own
<1>7. CASE WriteConfig \/ \E p \in Programs : EnsureClsact(p)
  <2>1. call.phase = "attach" /\ call.at \in 3 .. 5
    BY <1>1, <1>7, Positions
  <2>2. call'.at = call.at + 1 /\ handle' = handle
    BY <1>7, ProceedTo DEF WriteConfig, EnsureClsact
  <2>3. ~Attached' /\ ~Succeeding'
    BY <2>1, <2>2 DEF Attached, Succeeding, Calls
  <2> QED
    BY <2>3 DEF Own
<1>8. ASSUME NEW p \in Programs, LoadProgram(p) PROVE Own'
  <2>1. call.phase = "attach" /\ call.at = (IF p = "fwd" THEN 6 ELSE 8)
    BY <1>8, Positions
  <2>2. OwnConfig
    <3>1. config = DataplaneConfig(handle.config, call.index)
      BY <2>1 DEF Calls
    <3>2. config # None /\ config.secs = WholeSeconds(handle.config.timeout)
      BY <3>1 DEF DataplaneConfig, None
    <3>3. run # None => run = config
      BY <1>8, <2>1 DEF LoadProgram, Loadable, Untouched, Own, OwnConfig, Succeeding
    <3> QED
      BY <2>1, <3>2, <3>3 DEF OwnConfig, Calls
  <2>3. OwnSessions
    BY <1>8, <2>1
       DEF LoadProgram, Loadable, Untouched, Own, OwnSessions, Succeeding
  <2>4. UNCHANGED <<handle, config, run, sessions>>
    BY <1>8 DEF LoadProgram
  <2> QED
    BY <2>2, <2>3, <2>4 DEF Own, OwnConfig, OwnSessions
<1>9. ASSUME NEW p \in Programs, LinkProgram(p) PROVE Own'
  <2>1. Succeeding
    BY <1>9, Positions DEF Succeeding
  <2>2. UNCHANGED <<handle, config, run, sessions>>
    BY <1>9 DEF LinkProgram
  <2> QED
    BY <2>1, <2>2 DEF Own, OwnConfig, OwnSessions
<1>10. CASE Succeed
  <2>1. Succeeding /\ handle'.config = handle.config
    BY <1>1, <1>10, Positions DEF Succeed, Succeeding, TypeOK, Calls
  <2>2. UNCHANGED <<config, run, sessions>>
    BY <1>10 DEF Succeed, dataplane
  <2> QED
    BY <2>1, <2>2 DEF Own, OwnConfig, OwnSessions
<1>11. CASE Fail
  BY <1>11, CallTypes DEF Fail, Own, Attached, Succeeding, Calls
<1>12. CASE Drop
  BY <1>12, CallTypes DEF Drop, Own, Attached, Succeeding
<1>13. CASE Free
  BY <1>13, CallTypes DEF Free, Own, Attached, Succeeding
<1>14. CASE Receive
  BY <1>14 DEF Receive, Effective, Own, OwnConfig, OwnSessions, Attached, Succeeding
<1>15. ASSUME NEW f \in Flows, Map(f) PROVE Own'
  <2>1. SelectedOf(run, f) \in PoolOf(run)
    BY <1>15, AcceptableConfig DEF Map, Accepted
  <2>2. UNCHANGED <<handle, call, config>> /\ run # None /\ run' = None
    BY <1>15 DEF Map
  <2>3. \A g \in Flows : sessions'[g] =
          IF g = f THEN [ext |-> SelectedOf(run, f), timed |-> run.secs # 0]
          ELSE sessions[g]
    BY <1>15 DEF Map, TypeOK
  <2>4. ASSUME Attached \/ Succeeding PROVE OwnConfig' /\ OwnSessions'
    <3>1. OwnConfig /\ OwnSessions /\ run = config
      BY <2>2, <2>4 DEF Own, OwnConfig
    <3>2. OwnConfig'
      BY <2>2, <3>1 DEF OwnConfig
    <3>3. ASSUME NEW g \in Flows, sessions'[g] # None
          PROVE  /\ sessions'[g].ext \in PoolOf(config)
                 /\ sessions'[g].timed <=> config.secs # 0
      <4>1. CASE g = f
        <5>1. sessions'[g].ext = SelectedOf(run, f)
          BY <2>3, <4>1
        <5>2. CASE run.secs = 0
          <6>1. sessions'[g] = [ext |-> SelectedOf(run, f), timed |-> FALSE]
            BY <2>3, <4>1, <5>2
          <6> QED
            BY <2>1, <3>1, <5>1, <5>2, <6>1
        <5>3. CASE run.secs # 0
          <6>1. sessions'[g] = [ext |-> SelectedOf(run, f), timed |-> TRUE]
            BY <2>3, <4>1, <5>3
          <6> QED
            BY <2>1, <3>1, <5>1, <5>3, <6>1
        <5> QED
          BY <5>2, <5>3
      <4>2. CASE g # f
        BY <2>3, <3>1, <3>3, <4>2 DEF OwnSessions
      <4> QED
        BY <4>1, <4>2
    <3> QED
      BY <2>2, <3>2, <3>3 DEF OwnSessions
  <2> QED
    BY <2>2, <2>4 DEF Own, Attached, Succeeding
<1>16. ASSUME NEW f \in Flows, Fire(f) PROVE Own'
  <2>1. UNCHANGED <<handle, call, config, run>>
    BY <1>16 DEF Fire
  <2>2. \A g \in Flows \ {f} : sessions'[g] = sessions[g]
    BY <1>16 DEF Fire, TypeOK
  <2>3. Attached \/ Succeeding => sessions'[f] = None
    BY <1>16 DEF Fire, TypeOK, Own, OwnConfig, OwnSessions, Effective
  <2> QED
    BY <2>1, <2>2, <2>3 DEF Own, OwnConfig, OwnSessions, Attached, Succeeding
<1>17. CASE Pass
  BY <1>17 DEF Pass, Own, OwnConfig, OwnSessions, Attached, Succeeding
<1>18. CASE UNCHANGED <<handle, call, config, run, sessions>>
  BY <1>18 DEF Own, OwnConfig, OwnSessions, Attached, Succeeding
<1> QED
  BY <1>2, <1>3, <1>4, <1>5, <1>6, <1>7, <1>8, <1>9, <1>10, <1>11, <1>12, <1>13,
     <1>14, <1>15, <1>16, <1>17, <1>18
     DEF Next, Unload, Delete, Create, dataplane

-----------------------------------------------------------------------------

\* The invariant holds before the first call.
LEMMA InitOwn == Init => IInv
<1> SUFFICES ASSUME Init PROVE IInv
  OBVIOUS
<1>1. net \in [Interfaces -> Indices] /\ created \in Indices
  <2>1. Cardinality(Interfaces) \in Nat
    BY LifecycleAssumption, FS_CardinalityType
  <2> QED
    BY <2>1, LifecycleAssumption DEF Init, Indices, Injection, IsInjective
<1>2. Unset \in Indices
  BY LifecycleAssumption DEF Indices, Unset
<1>3. TypeOK
  BY <1>1, <1>2, CallTypes DEF Init, TypeOK
<1> QED
  BY <1>3, CallTypes
     DEF Init, Programs, IInv, Calls, Accepted, Linked, Untouched, NoHandle, Own, Attached,
         Succeeding

\* The invariant that carries the properties of the handle.
LEMMA IInvHolds == Spec => []IInv
<1>1. IInv /\ [Next]_vars => IInv'
  <2>1. CASE Next
    BY <2>1, TypeStep, CallsStep, AcceptedStep, LinkedStep, UntouchedStep, OwnStep
       DEF IInv
  <2>2. CASE UNCHANGED vars
    BY <2>2
       DEF vars, IInv, TypeOK, Calls, Accepted, Linked, Untouched, NoHandle, Own,
           OwnConfig, OwnSessions, Attached, Succeeding
  <2> QED
    BY <2>1, <2>2
<1> QED
  BY InitOwn, <1>1, PTL DEF Spec

\* Every reachable state is well typed: in particular every session has an
\* address of some accepted pool, whatever the pools' sizes and the hash.
THEOREM TypeCorrect == Spec => []TypeOK
  BY IInvHolds, PTL DEF IInv

\* No packet runs under the built-in configuration or one that is not accepted.
THEOREM RunsCorrect == Spec => []RunsUnderAcceptedPolicy
<1>1. IInv => RunsUnderAcceptedPolicy
  <2> SUFFICES ASSUME IInv, run # None PROVE RunsUnderAcceptedPolicy
    BY DEF RunsUnderAcceptedPolicy
  <2>1. PICK q \in Policies, index \in [Programs -> Indices \ {Unset}] :
          Valid(PolicyOf(q)) /\ run = DataplaneConfig(PolicyOf(q), index)
    BY DEF IInv, Accepted, Acceptable
  <2>2. /\ q[1] # <<>> /\ Len(q[1]) =< PoolMax
        /\ 1 =< q[2] /\ q[2] =< q[3]
        /\ q[4] # <<0, 0>>
    BY <2>1, LifecycleAssumption DEF Valid, PolicyOf
  <2> QED
    BY <2>1, <2>2 DEF RunsUnderAcceptedPolicy
<1> QED
  BY IInvHolds, <1>1, PTL

\* The sessions of an attached instance are of its own policy, for any number of
\* failed attaches and changes of policy before.
THEOREM SessionsCorrect == Spec => []SessionsFollowPolicy
<1>1. IInv => SessionsFollowPolicy
  BY DEF IInv, Own, OwnSessions, SessionsFollowPolicy
<1> QED
  BY IInvHolds, <1>1, PTL

\* The conversion to whole seconds keeps the timeout, for any width of the field.
LEMMA SecondsKept ==
    ASSUME NEW asked \in Durations, asked # <<0, 0>>
    PROVE  /\ WholeSeconds(asked) = 0 <=> asked = <<>>
           /\ asked # <<>> =>
                \/ WholeSeconds(asked) = SecsMax
                \/ WholeSeconds(asked) * NanosPerSec >= asked[1] * NanosPerSec + asked[2]
<1> USE LifecycleAssumption
<1>1. CASE asked = <<>>
  BY <1>1 DEF WholeSeconds
<1>2. CASE asked # <<>>
  <2>1. /\ asked[1] \in Nat /\ asked[2] \in 0 .. NanosPerSec - 1
        /\ asked[1] # 0 \/ asked[2] # 0
    BY <1>2 DEF Durations
  <2> DEFINE up == asked[1] + (IF asked[2] # 0 THEN 1 ELSE 0)
  <2>2. up \in Nat \ {0} /\ up * NanosPerSec >= asked[1] * NanosPerSec + asked[2]
    <3>1. \A s, n, t \in Nat : t < n => (s + 1) * n >= s * n + t
      OBVIOUS
    <3> QED
      BY <2>1, <3>1
  <2>3. WholeSeconds(asked) = IF up < SecsMax THEN up ELSE SecsMax
    BY <1>2 DEF WholeSeconds
  <2> HIDE DEF up
  <2> QED
    BY <1>2, <2>2, <2>3
<1> QED
  BY <1>1, <1>2

\* A timeout that was asked for is kept.
THEOREM TimeoutCorrect == Spec => []TimeoutKept
<1>1. IInv => TimeoutKept
  <2> SUFFICES ASSUME IInv, Attached PROVE TimeoutKept
    BY DEF TimeoutKept
  <2>1. /\ config.secs = WholeSeconds(handle.config.timeout)
        /\ handle # None /\ handle.config # None
    BY DEF IInv, Own, OwnConfig, Attached
  <2>2. PICK q \in Policies : handle.config = PolicyOf(q)
    BY <2>1 DEF IInv, TypeOK
  <2>3. handle.config.timeout \in Durations /\ handle.config.timeout # <<0, 0>>
    BY <2>1, <2>2, LifecycleAssumption DEF IInv, Accepted, Valid, PolicyOf
  <2> QED
    BY <2>1, <2>3, SecondsKept DEF TimeoutKept
<1> QED
  BY IInvHolds, <1>1, PTL

-----------------------------------------------------------------------------
(* What an attached instance is linked to.                                 *)

\* The interface indices of a configuration, by program.
IndexOf(cfg) == [p \in Programs |-> IF p = "fwd" THEN cfg.bridge ELSE cfg.uplink]

\* Every existing interface has an index of its own, never given out before.
OwnIndices ==
    \A i, j \in Interfaces :
      /\ net[i] =< created
      /\ net[i] = net[j] => i = j \/ net[i] = Unset

\* What attach knows of the interface of a program that was not replaced.
Reads(p) ==
    call.phase = "attach" /\ call.at > (IF p = "fwd" THEN 1 ELSE 2) =>
      net[call.names[p]] # Unset /\ call.index[p] = net[call.names[p]]
Links(p) ==
    call.phase = "attach" /\ call.at > (IF p = "fwd" THEN 7 ELSE 9) =>
      programs[p].at = net[call.names[p]]
Stays(p) ==
    Attached => /\ net[call.names[p]] # Unset
                /\ IndexOf(config)[p] = net[call.names[p]]
                /\ programs[p].at = net[call.names[p]]
Current == \A p \in Programs \ moved : Reads(p) /\ Links(p) /\ Stays(p)

\* The configuration of an attached instance is its handle's.
Settled ==
    Attached => /\ call.phase = "none" /\ call.names \in [Programs -> Interfaces]
                /\ config = DataplaneConfig(handle.config, IndexOf(config))
LInv == OwnIndices /\ Current /\ Settled

\* Before and after the calls of attach, an instance is attached or not at all.
LEMMA NotAttached ==
    ASSUME IInv, call.phase = "attach"
    PROVE  ~Attached /\ handle # None /\ handle.config # None
           /\ call.names \in [Programs -> Interfaces]
  BY DEF IInv, Calls, Attached

\* The indices of the configuration attach writes are those it read.
LEMMA IndexOfConfig ==
    ASSUME NEW policy, NEW index \in [Programs -> Indices]
    PROVE  IndexOf(DataplaneConfig(policy, index)) = index
<1>1. \A p \in Programs :
        IndexOf(DataplaneConfig(policy, index))[p] = index[p]
  BY DEF IndexOf, DataplaneConfig, Programs
<1> QED
  BY <1>1 DEF IndexOf

\* Indices stay different.
LEMMA OwnIndicesStep ==
    ASSUME IInv, OwnIndices, Next
    PROVE  OwnIndices'
<1> USE DEF OwnIndices
<1>0. net \in [Interfaces -> Nat] /\ created \in Nat
  BY LifecycleAssumption DEF IInv, TypeOK, Indices
<1>1. ASSUME NEW i \in Interfaces, Delete(i) PROVE OwnIndices'
  BY <1>0, <1>1 DEF Delete, Unset
<1>2. ASSUME NEW i \in Interfaces, Create(i) PROVE OwnIndices'
  BY <1>0, <1>2 DEF Create, Unset
<1>3. CASE UNCHANGED interfaces
  BY <1>3 DEF interfaces
<1>4. UNCHANGED interfaces \/ \E i \in Interfaces : Delete(i) \/ Create(i)
  BY DEF Next, Load, Configure, Attach, BuilderAttach, ReadIndex, WriteConfig,
         EnsureClsact, LoadProgram, LinkProgram, Succeed, Fail, Drop, Unload, Free,
         Receive, Map, Fire, Pass, interfaces
<1> QED
  BY <1>1, <1>2, <1>3, <1>4

\* A step that leaves the interfaces alone, and of the rest at most the position
\* of attach, the loading of a program and what runs, with no step passed at
\* which an index is read or a program linked.
LEMMA SameLinks ==
    ASSUME IInv, LInv, UNCHANGED <<net, created, moved, handle>>,
           call'.phase = call.phase, call'.names = call.names,
           call'.index = call.index,
           Attached => config' = config,
           call.phase = "attach" /\ call'.at # call.at =>
             call'.at = call.at + 1 /\ call.at \notin {1, 2, 7, 9},
           \A p \in Programs : programs'[p].at = programs[p].at
    PROVE  LInv'
<1>1. call.at \in Nat
  BY StepNumbers DEF IInv, TypeOK, CallRecords
<1>2. Attached' <=> Attached
  BY DEF Attached
<1>3. ASSUME NEW p \in Programs, p \notin moved'
      PROVE  Reads(p)' /\ Links(p)' /\ Stays(p)'
  <2>1. Reads(p) /\ Links(p) /\ Stays(p)
    BY <1>3 DEF LInv, Current
  <2>2. Reads(p)'
    BY <1>1, <2>1 DEF Reads, Programs
  <2>3. Links(p)'
    BY <1>1, <2>1 DEF Links, Programs
  <2>4. Stays(p)'
    BY <1>2, <2>1 DEF Stays, IndexOf
  <2> QED
    BY <2>2, <2>3, <2>4
<1>4. Settled'
  BY <1>2 DEF LInv, Settled
<1> QED
  BY <1>3, <1>4 DEF LInv, OwnIndices, Current

\* A step after which no attach runs and no instance is attached.
LEMMA NoLinks ==
    ASSUME LInv, UNCHANGED interfaces, call'.phase # "attach" \/ call'.at = 1, ~Attached'
    PROVE  LInv'
  BY DEF LInv, OwnIndices, Current, Reads, Links, Stays, Settled, interfaces, Programs

\* A program linked to an index follows the interface as long as it is not
\* deleted; a new interface takes the index of none.
LEMMA DeleteLinks ==
    ASSUME IInv, LInv, NEW i \in Interfaces, Delete(i)
    PROVE  LInv'
<1>0. /\ net \in [Interfaces -> Nat] /\ created \in Nat
      /\ programs \in [Programs -> [loaded : BOOLEAN, at : Indices]]
  BY LifecycleAssumption DEF IInv, TypeOK, Indices
<1>1. OwnIndices'
  BY OwnIndicesStep DEF LInv, Next
<1>2. Attached' <=> Attached
  BY DEF Delete, Attached
<1>3. ASSUME NEW p \in Programs, p \notin moved'
      PROVE  Reads(p)' /\ Links(p)' /\ Stays(p)'
  <2>1. Reads(p) /\ Links(p) /\ Stays(p) /\ call.names[p] # i
    BY <1>3 DEF LInv, Current, Delete
  <2>2. ASSUME call.phase = "attach" \/ Attached, net[call.names[p]] # Unset
        PROVE  /\ net'[call.names[p]] = net[call.names[p]]
               /\ programs[p].at = net[call.names[p]] =>
                    programs'[p].at = programs[p].at
    <3>1. call.names[p] \in Interfaces
      BY <2>2 DEF IInv, Calls, LInv, Settled
    <3>2. net[call.names[p]] # net[i]
      BY <2>1, <2>2, <3>1 DEF LInv, OwnIndices
    <3> QED
      BY <1>0, <2>1, <3>1, <3>2 DEF Delete
  <2>3. Reads(p)'
    BY <2>1, <2>2 DEF Reads, Delete
  <2>4. Links(p)'
    <3>1. call.phase = "attach" /\ call.at > (IF p = "fwd" THEN 7 ELSE 9) =>
            net[call.names[p]] # Unset
      BY <2>1, StepNumbers DEF Reads, IInv, TypeOK, CallRecords
    <3> QED
      BY <2>1, <2>2, <3>1 DEF Links, Delete
  <2>5. Stays(p)'
    BY <1>2, <2>1, <2>2 DEF Stays, IndexOf, Delete
  <2> QED
    BY <2>3, <2>4, <2>5
<1>4. Settled'
  BY <1>2 DEF LInv, Settled, Delete
<1> QED
  BY <1>1, <1>3, <1>4 DEF LInv, Current

\* A new interface is not one a program was linked to.
LEMMA CreateLinks ==
    ASSUME IInv, LInv, NEW i \in Interfaces, Create(i)
    PROVE  LInv'
<1>1. OwnIndices'
  BY OwnIndicesStep DEF LInv, Next
<1>2. UNCHANGED <<handle, call, config, programs, moved>> /\ (Attached' <=> Attached)
  BY DEF Create, Attached, dataplane
<1>3. ASSUME NEW p \in Programs, p \notin moved
      PROVE  Reads(p)' /\ Links(p)' /\ Stays(p)'
  <2>1. Reads(p) /\ Links(p) /\ Stays(p)
    BY <1>3 DEF LInv, Current
  <2>2. net[call.names[p]] # Unset /\ (call.phase = "attach" \/ Attached)
          => net'[call.names[p]] = net[call.names[p]]
    <3> SUFFICES ASSUME net[call.names[p]] # Unset, call.phase = "attach" \/ Attached
                 PROVE  net'[call.names[p]] = net[call.names[p]]
      OBVIOUS
    <3>1. call.names[p] \in Interfaces \ {i}
      BY DEF IInv, Calls, LInv, Settled, Create
    <3> QED
      BY <3>1 DEF Create, IInv, TypeOK
  <2>3. Reads(p)'
    BY <1>2, <2>1, <2>2 DEF Reads
  <2>4. Links(p)'
    <3>1. call.phase = "attach" /\ call.at > (IF p = "fwd" THEN 7 ELSE 9) =>
            net[call.names[p]] # Unset
      BY <2>1, StepNumbers DEF Reads, IInv, TypeOK, CallRecords
    <3> QED
      BY <1>2, <2>1, <2>2, <3>1 DEF Links
  <2>5. Stays(p)'
    BY <1>2, <2>1, <2>2 DEF Stays, IndexOf
  <2> QED
    BY <2>3, <2>4, <2>5
<1>4. Settled'
  BY <1>2 DEF LInv, Settled
<1> QED
  BY <1>1, <1>2, <1>3, <1>4 DEF LInv, Current

\* Every step of the handle and of the instance keeps the links.
LEMMA LinksStep ==
    ASSUME IInv, LInv, Next
    PROVE  LInv'
<1>0. "fwd" \in Programs /\ "rev" \in Programs /\ call.at \in 1 .. 10
  BY StepNumbers DEF Programs, IInv, TypeOK, CallRecords
<1>1. CASE Load
  BY <1>1, NoLinks DEF Load, Fresh, Attached, IInv, Calls, interfaces
<1>2. ASSUME NEW q \in Policies, Configure(q) PROVE LInv'
  <2>1. ~Attached'
    BY <1>2 DEF Configure, Ready, Attached, IInv, TypeOK
  <2> QED
    BY <1>2, <2>1, NoLinks DEF Configure, Ready, interfaces
<1>3. ASSUME NEW names \in Pairs, Attach(names) PROVE LInv'
  BY <1>3, NoLinks DEF Attach, Ready, Calling, Attached, interfaces
<1>4. ASSUME NEW q \in Policies, NEW names \in Pairs, BuilderAttach(q, names)
      PROVE  LInv'
  BY <1>4, NoLinks DEF BuilderAttach, Fresh, Calling, Attached, interfaces
<1>5. ASSUME NEW p \in Programs, ReadIndex(p) PROVE LInv'
  <2>1. /\ call.phase = "attach" /\ call.at = (IF p = "fwd" THEN 1 ELSE 2)
        /\ ~Attached /\ net[call.names[p]] # Unset
    <3>1. call.phase = "attach" /\ call.at = (IF p = "fwd" THEN 1 ELSE 2)
      BY <1>5, Positions
    <3> QED
      BY <1>5, <3>1, NotAttached DEF ReadIndex, There
  <2>2. /\ call'.at = call.at + 1 /\ call'.phase = call.phase
        /\ call'.names = call.names
        /\ call'.index = [call.index EXCEPT ![p] = net[call.names[p]]]
        /\ call.index \in [Programs -> Indices]
    BY <1>5 DEF ReadIndex, IInv, TypeOK, CallRecords
  <2>3. UNCHANGED <<handle, net, created, programs>> /\ moved' = moved \ {p} /\ ~Attached'
    BY <1>5, <2>1, <2>2 DEF ReadIndex, Attached, dataplane, interfaces
  <2>4. \A r \in Programs \ moved' : Reads(r)' /\ Links(r)'
    <3> SUFFICES ASSUME NEW r \in Programs, r \notin moved'
                 PROVE  Reads(r)' /\ Links(r)'
      OBVIOUS
    <3>1. CASE r = p
      BY <2>1, <2>2, <2>3, <3>1 DEF Reads, Links
    <3>2. CASE r # p
      <4>1. Reads(r)
        BY <2>3, <3>2 DEF LInv, Current
      <4> QED
        BY <2>1, <2>2, <2>3, <3>2, <4>1 DEF Reads, Links, Programs
    <3> QED
      BY <3>1, <3>2
  <2> QED
    BY <2>3, <2>4 DEF LInv, OwnIndices, Current, Stays, Settled
<1>6. CASE WriteConfig \/ \E p \in Programs : EnsureClsact(p)
  <2>1. call.phase = "attach" /\ call.at \in 3 .. 5 /\ ~Attached
    BY <1>0, <1>6, Positions, NotAttached
  <2>2. Proceed /\ UNCHANGED <<net, created, moved, handle, programs>>
    BY <1>6 DEF WriteConfig, EnsureClsact, dataplane, interfaces
  <2> QED
    BY <2>1, <2>2, ProceedTo, SameLinks
<1>7. ASSUME NEW p \in Programs, LoadProgram(p) PROVE LInv'
  <2>1. call.phase = "attach" /\ call.at \in {6, 8} /\ ~Attached
    BY <1>7, Positions, NotAttached
  <2>2. Proceed /\ UNCHANGED <<net, created, moved, handle>>
    BY <1>7 DEF LoadProgram, interfaces
  <2>3. \A r \in Programs : programs'[r].at = programs[r].at
    BY <1>7 DEF LoadProgram, IInv, TypeOK
  <2> QED
    BY <2>1, <2>2, <2>3, ProceedTo, SameLinks
<1>8. ASSUME NEW p \in Programs, LinkProgram(p) PROVE LInv'
  <2>1. call.phase = "attach" /\ call.at = (IF p = "fwd" THEN 7 ELSE 9) /\ ~Attached
    BY <1>8, Positions, NotAttached
  <2>2. /\ call'.at = call.at + 1 /\ call'.phase = call.phase
        /\ call'.names = call.names /\ call'.index = call.index
    BY <1>8, ProceedTo DEF LinkProgram
  <2>3. UNCHANGED <<handle, net, created, moved>> /\ ~Attached'
    BY <1>8, <2>1, <2>2 DEF LinkProgram, Attached, interfaces
  <2>4. \A r \in Programs : programs'[r].at =
          IF r = p THEN net[call.names[p]] ELSE programs[r].at
    BY <1>8 DEF LinkProgram, IInv, TypeOK
  <2>5. \A r \in Programs \ moved' : Reads(r)' /\ Links(r)'
    <3> SUFFICES ASSUME NEW r \in Programs, r \notin moved'
                 PROVE  Reads(r)' /\ Links(r)'
      OBVIOUS
    <3>1. Reads(r) /\ Links(r)
      BY <2>3 DEF LInv, Current
    <3>2. Reads(r)'
      BY <2>1, <2>2, <2>3, <3>1 DEF Reads, Programs
    <3>3. Links(r)'
      BY <2>1, <2>2, <2>3, <2>4, <3>1 DEF Links, Programs
    <3> QED
      BY <3>2, <3>3
  <2> QED
    BY <2>3, <2>5 DEF LInv, OwnIndices, Current, Stays, Settled
<1>9. CASE Succeed
  <2>1. /\ call.phase = "attach" /\ call.at = 10 /\ handle # None
        /\ call.names \in [Programs -> Interfaces]
        /\ config = DataplaneConfig(handle.config, call.index)
        /\ call.index \in [Programs -> Indices]
    BY <1>0, <1>9, Positions DEF IInv, Calls, TypeOK, CallRecords
  <2>2. /\ handle'.config = handle.config
        /\ call'.phase = "none" /\ call'.names = call.names
        /\ UNCHANGED <<config, programs, net, created, moved>>
    BY <1>9, <2>1, CallTypes
       DEF Succeed, IInv, TypeOK, CallRecords, dataplane, interfaces
  <2>3. IndexOf(config) = call.index
    BY <2>1, IndexOfConfig
  <2>4. Settled'
    BY <2>1, <2>2, <2>3 DEF Settled, IndexOf
  <2>5. ASSUME NEW p \in Programs, p \notin moved'
        PROVE  Reads(p)' /\ Links(p)' /\ Stays(p)'
    <3>1. Reads(p) /\ Links(p)
      BY <2>2, <2>5 DEF LInv, Current
    <3>2. /\ net[call.names[p]] # Unset /\ call.index[p] = net[call.names[p]]
          /\ programs[p].at = net[call.names[p]]
      BY <2>1, <3>1 DEF Reads, Links
    <3> QED
      BY <2>2, <2>3, <3>2 DEF Reads, Links, Stays, IndexOf
  <2> QED
    BY <2>2, <2>4, <2>5 DEF LInv, OwnIndices, Current
<1>10. CASE Fail
  BY <1>10, CallTypes, NotAttached, NoLinks DEF Fail, Attached, interfaces
<1>11. CASE Drop
  BY <1>11, CallTypes, NoLinks DEF Drop, Attached, interfaces
<1>12. ASSUME NEW p \in Programs, Unload(p) PROVE LInv'
  BY <1>12, NoLinks DEF Unload, Attached, interfaces
<1>13. CASE Free
  BY <1>13, CallTypes, NoLinks DEF Free, Attached, interfaces
<1>14. CASE Receive \/ Pass \/ \E f \in Flows : Map(f) \/ Fire(f)
  <2>1. UNCHANGED <<net, created, moved, handle>> /\ config' = config
    BY <1>14 DEF Receive, Pass, Map, Fire, interfaces
  <2>2. /\ call'.phase = call.phase /\ call'.names = call.names
        /\ call'.index = call.index /\ call'.at = call.at
        /\ \A p \in Programs : programs'[p].at = programs[p].at
    BY <1>14 DEF Receive, Pass, Map, Fire
  <2> QED
    BY <2>1, <2>2, SameLinks
<1> QED
  BY <1>1, <1>2, <1>3, <1>4, <1>5, <1>6, <1>7, <1>8, <1>9, <1>10, <1>11, <1>12,
     <1>13, <1>14, DeleteLinks, CreateLinks DEF Next

\* The interfaces that exist at first have different indices.
LEMMA InitLinks == Init => LInv
<1> SUFFICES ASSUME Init PROVE LInv
  OBVIOUS
<1>1. OwnIndices
  <2>1. Cardinality(Interfaces) \in Nat
    BY LifecycleAssumption, FS_CardinalityType
  <2> QED
    BY <2>1 DEF Init, OwnIndices, Injection, IsInjective
<1>2. ~Attached /\ call.phase = "none"
  BY CallTypes DEF Init, Attached
<1> QED
  BY <1>1, <1>2 DEF LInv, Current, Reads, Links, Stays, Settled

\* An attached instance translates both ways by its handle's policy, whichever
\* calls of attach failed before and however often interfaces were replaced:
\* only an interface replaced since attach read its index can break it.
THEOREM AttachedCorrect == Spec => []AttachedTranslatesBothWays
<1>1. IInv /\ LInv /\ [Next]_vars => LInv'
  <2>1. CASE Next
    BY <2>1, LinksStep
  <2>2. CASE UNCHANGED vars
    BY <2>2
       DEF vars, LInv, OwnIndices, Current, Reads, Links, Stays, Settled, IndexOf, Attached
  <2> QED
    BY <2>1, <2>2
<1>2. IInv /\ LInv => AttachedTranslatesBothWays
  <2> SUFFICES ASSUME IInv, LInv, Attached, moved = {}
               PROVE  AttachedTranslatesBothWays
    BY DEF AttachedTranslatesBothWays
  <2>1. \A p \in Programs : Stays(p)
    BY DEF LInv, Current
  <2>2. IndexOf(config) = [p \in Programs |-> net[call.names[p]]]
    BY <2>1 DEF Stays, IndexOf
  <2>3. /\ IndexOf(config)["fwd"] = config.bridge /\ IndexOf(config)["rev"] = config.uplink
        /\ "fwd" \in Programs /\ "rev" \in Programs
    BY DEF IndexOf, Programs
  <2> QED
    BY <2>1, <2>2, <2>3 DEF Stays, LInv, Settled, AttachedTranslatesBothWays
<1> QED
  BY IInvHolds, InitLinks, <1>1, <1>2, PTL DEF Spec

=============================================================================
