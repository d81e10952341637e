----------------------- MODULE PortAllocator_proofs -----------------------
(***************************************************************************)
(* The cooldown ring does what it is for, for every range, ring size,      *)
(* cursor width and interleaving with the other CPUs.                      *)
(***************************************************************************)
EXTENDS PortAllocator, FiniteSetTheorems, TLAPS

C == CooldownSize
Slot == ring.idx % C

\* How many allocations ago slot s was written, and the slot written a
\* allocations ago.
Ago(s) == IF s < Slot THEN Slot - s ELSE Slot - s + C
Back(a) == IF a =< Slot THEN Slot - a ELSE Slot - a + C

RingAges ==
    \A s \in Slots : ring.ports[s] # NoPort => age[ring.ports[s]] = Ago(s)
AgesInRing ==
    \A p \in Ports : age[p] # 0 => ring.ports[Back(age[p])] = p

IInv == TypeOK /\ RingAges /\ AgesInRing

-----------------------------------------------------------------------------

\* The remainder of a number written as a quotient and a remainder.
LEMMA ModUnique ==
    ASSUME NEW n \in Nat \ {0}, NEW q \in Nat, NEW r \in 0 .. n - 1
    PROVE  (n * q + r) % n = r
  BY Z3

\* One more advances the remainder by one, or takes it back to zero.
LEMMA NextMod ==
    ASSUME NEW n \in Nat \ {0}, NEW i \in Nat
    PROVE  /\ i % n \in 0 .. n - 1
           /\ (i + 1) % n = IF (i % n) + 1 = n THEN 0 ELSE (i % n) + 1
<1> DEFINE q == i \div n
           r == i % n
<1>1. i = n * q + r /\ r \in 0 .. n - 1 /\ q \in Nat
  BY Z3
<1> HIDE DEF q, r
<1>2. CASE r + 1 = n
  <2>1. i + 1 = n * (q + 1) + 0
    BY <1>1, <1>2
  <2>2. (n * (q + 1) + 0) % n = 0
    <3>1. q + 1 \in Nat /\ 0 \in 0 .. n - 1
      BY <1>1
    <3> QED
      BY <3>1, ModUnique
  <2> QED
    BY <1>1, <1>2, <2>1, <2>2 DEF r
<1>3. CASE r + 1 # n
  <2>1. i + 1 = n * q + (r + 1) /\ r + 1 \in 0 .. n - 1
    BY <1>1, <1>3
  <2>2. (n * q + (r + 1)) % n = r + 1
    BY <1>1, <2>1, ModUnique
  <2> QED
    BY <1>1, <1>3, <2>1, <2>2 DEF r
<1> QED
  BY <1>2, <1>3

\* An index counted modulo M goes round n slots in order, its own wrap included.
IndexFollows(M, n) ==
    \A i \in 0 .. M - 1 :
        ((i + 1) % M) % n = IF (i % n) + 1 = n THEN 0 ELSE (i % n) + 1

\* Wrapping the ring index keeps the slots in order.
LEMMA NextSlot ==
    \A M \in Nat \ {0}, n \in Nat \ {0} : M % n = 0 => IndexFollows(M, n)
<1> SUFFICES ASSUME NEW M \in Nat \ {0}, NEW n \in Nat \ {0}, M % n = 0,
                    NEW i \in 0 .. M - 1
             PROVE  ((i + 1) % M) % n = IF (i % n) + 1 = n THEN 0 ELSE (i % n) + 1
  BY DEF IndexFollows
<1>1. (i + 1) % n = IF (i % n) + 1 = n THEN 0 ELSE (i % n) + 1
  <2>1. i \in Nat
    OBVIOUS
  <2> QED
    BY <2>1, NextMod
<1>2. CASE i + 1 = M
  <2>1. (i + 1) % M = 0
    BY <1>2, Z3
  <2>2. (i + 1) % n = 0 /\ 0 % n = 0
    BY <1>2, Z3
  <2> QED
    BY <1>1, <2>1, <2>2
<1>3. CASE i + 1 # M
  <2>1. (i + 1) % M = i + 1
    BY <1>3, Z3
  <2> QED
    BY <1>1, <2>1
<1> QED
  BY <1>2, <1>3

-----------------------------------------------------------------------------

\* The candidate of any cursor value lies in the range of the call.
LEMMA CandidateInRange ==
    ASSUME NEW r \in Ranges, NEW c \in Nat
    PROVE  Candidate(r, c) \in Ports
<1>1. r[1] \in Nat \ {0} /\ r[2] \in Nat /\ r[1] =< r[2]
  BY PortsAssumption
<1>2. Span(r) \in Nat \ {0}
  BY <1>1 DEF Span
<1>3. c % Span(r) \in 0 .. Span(r) - 1
  BY <1>2, NextMod
<1>4. Candidate(r, c) \in PortsOf(r)
  BY <1>1, <1>2, <1>3 DEF Candidate, PortsOf, Span
<1> QED
  BY <1>4 DEF Ports

\* Port 0, which marks an unused slot, is in no range.
LEMMA PortsPositive == Ports \subseteq Nat \ {0}
  BY PortsAssumption DEF Ports, PortsOf

\* The cursor stays a u32.
LEMMA AdvancedType ==
    ASSUME cursor \in 0 .. CursorMod - 1
    PROVE  Advanced(cursor) \in 0 .. CursorMod - 1
<1>1. cursor + 1 \in Nat /\ CursorMod \in Nat \ {0}
  BY CursorAssumption
<1> QED
  BY <1>1, NextMod DEF Advanced

\* A push keeps the ring a ring.
LEMMA PushedType ==
    ASSUME TypeOK, NEW p \in Ports
    PROVE  /\ Pushed(ring, p) \in [idx : 0 .. IdxMod - 1,
                                   ports : [Slots -> Ports \cup {NoPort}]]
           /\ Slot \in Slots
<1>1. ring.idx \in Nat /\ ring.idx + 1 \in Nat /\ IdxMod \in Nat \ {0}
  BY RingAssumption DEF TypeOK
<1>2. (ring.idx + 1) % IdxMod \in 0 .. IdxMod - 1
  BY <1>1, NextMod
<1>3. Slot \in Slots
  BY <1>1, RingAssumption, NextMod DEF Slot, Slots, C
<1> QED
  BY <1>2, <1>3 DEF TypeOK, Pushed

\* TypeOK: cursor, ring, keys and candidates stay in their ranges.
THEOREM TypeCorrect == Spec => []TypeOK
<1>1. Init => TypeOK
  <2> SUFFICES ASSUME Init PROVE TypeOK
    OBVIOUS
  <2>1. cursor \in 0 .. CursorMod - 1
    BY CursorAssumption DEF Init
  <2>2. ring \in [idx : 0 .. IdxMod - 1, ports : [Slots -> Ports \cup {NoPort}]]
    BY RingAssumption DEF Init
  <2>3. age \in [Ports -> 0 .. CooldownSize]
    BY RingAssumption DEF Init
  <2>4. call \in [pc : {"idle", "probing", "taken", "exhausted", "rejected"},
                  ext : Externals, range : Ranges, left : 0 .. Probes, tried : SUBSET Ports,
                  wrapped : BOOLEAN, port : Ports \cup {NoPort}]
    BY ProbesAssumption DEF Init
  <2> QED
    BY <2>1, <2>2, <2>3, <2>4 DEF Init, TypeOK
<1>2. TypeOK /\ [Next]_vars => TypeOK'
  <2> SUFFICES ASSUME TypeOK, [Next]_vars PROVE TypeOK'
    OBVIOUS
  <2> DEFINE Calls == [pc : {"idle", "probing", "taken", "exhausted", "rejected"},
                       ext : Externals, range : Ranges, left : 0 .. Probes, tried : SUBSET Ports,
                       wrapped : BOOLEAN, port : Ports \cup {NoPort}]
  <2>1. call \in Calls
    BY DEF TypeOK
  <2>2. Advanced(cursor) \in 0 .. CursorMod - 1
    BY AdvancedType DEF TypeOK
  <2>3. Probed \in Ports
    <3>1. Advanced(cursor) \in Nat
      BY <2>2, CursorAssumption
    <3> QED
      BY <2>1, <3>1, CandidateInRange DEF Probed
  <2>4. call.left > 0 => SpentCall \in Calls
    <3> SUFFICES ASSUME call.left > 0 PROVE SpentCall \in Calls
      OBVIOUS
    <3> DEFINE w == call.wrapped \/ Advanced(cursor) < cursor
               t == call.tried \cup {Probed}
    <3>1. call.left - 1 \in 0 .. Probes
      BY <2>1, ProbesAssumption
    <3>2. w \in BOOLEAN
      BY Zenon
    <3>3. t \in SUBSET Ports
      BY <2>1, <2>3
    <3>4. SpentCall = [call EXCEPT !.left = call.left - 1, !.tried = t, !.wrapped = w]
      BY Zenon DEF SpentCall
    <3> HIDE DEF w, t
    <3> QED
      BY <2>1, <3>1, <3>2, <3>3, <3>4
  <2>5. ASSUME NEW e \in Externals, Start(e) PROVE TypeOK'
    <3>1. call' \in Calls
      <4>1. CASE range[1] >= range[2]
        BY <2>1, <2>5, <4>1 DEF Start, TypeOK
      <4>2. CASE ~ (range[1] >= range[2])
        <5>1. Probes \in 0 .. Probes /\ FALSE \in BOOLEAN
          BY ProbesAssumption
        <5>2. call' = [pc |-> "probing", ext |-> e, range |-> range,
                       left |-> Probes, tried |-> {}, wrapped |-> FALSE,
                       port |-> NoPort]
          BY <2>5, <4>2, Zenon DEF Start
        <5>3. {} \in SUBSET Ports
          OBVIOUS
        <5>4. range \in Ranges
          BY DEF TypeOK
        <5> QED
          BY <5>1, <5>2, <5>3, <5>4
      <4> QED
        BY <4>1, <4>2
    <3>2. cursor' \in 0 .. CursorMod - 1
      BY <2>5 DEF Start, StartCursor, TypeOK
    <3> QED
      BY <2>5, <3>1, <3>2 DEF Start, TypeOK
  <2>6. CASE Skip
    BY <2>2, <2>4, <2>6 DEF Skip, TypeOK
  <2>7. CASE Take
    <3>1. call' \in Calls
      BY <2>3, <2>4, <2>7 DEF Take
    <3>2. age' \in [Ports -> 0 .. CooldownSize]
      BY <2>7, RingAssumption DEF Take, TypeOK
    <3>3. ring' \in [idx : 0 .. IdxMod - 1, ports : [Slots -> Ports \cup {NoPort}]]
      BY <2>3, <2>7, PushedType DEF Take
    <3> QED
      BY <2>2, <2>7, <3>1, <3>2, <3>3 DEF Take, TypeOK
  <2>8. CASE Exhaust
    BY <2>8 DEF Exhaust, TypeOK
  <2>9. ASSUME NEW e \in Externals, NEW p \in Ports,
               Publish(e, p) \/ Withdraw(e, p)
        PROVE  TypeOK'
    BY <2>9 DEF Publish, Withdraw, TypeOK
  <2>10. ASSUME NEW r \in Ranges, Reconfigure(r) PROVE TypeOK'
    BY <2>10 DEF Reconfigure, TypeOK
  <2>11. CASE UNCHANGED vars
    BY <2>11 DEF vars, TypeOK
  <2> QED
    BY <2>5, <2>6, <2>7, <2>8, <2>9, <2>10, <2>11 DEF Next
<1> QED
  BY <1>1, <1>2, PTL DEF Spec

-----------------------------------------------------------------------------

\* Handing out a port that is not in the ring keeps ages and slots in step.
LEMMA TakeKeepsAges ==
    ASSUME IInv, TypeOK', Take
    PROVE  (RingAges /\ AgesInRing)'
<1> DEFINE p == Probed
<1>1. C \in Nat \ {0} /\ Slots = 0 .. C - 1 /\ Slot \in Slots /\ p \in Ports
  <2>1. p \in Ports
    <3>1. Advanced(cursor) \in Nat
      BY AdvancedType, CursorAssumption DEF IInv, TypeOK
    <3> QED
      BY <3>1, CandidateInRange DEF Probed, IInv, TypeOK
  <2> QED
    BY <2>1, PushedType, RingAssumption DEF IInv, C, Slots
<1>2. Slot' = IF Slot + 1 = C THEN 0 ELSE Slot + 1
  <2>1. ring'.idx = (ring.idx + 1) % IdxMod
    BY DEF Take, Pushed
  <2>2. ring.idx \in 0 .. IdxMod - 1
    BY DEF IInv, TypeOK
  <2>3. /\ IdxMod \in Nat \ {0} /\ CooldownSize \in Nat \ {0}
        /\ IdxMod % CooldownSize = 0
    BY RingAssumption
  <2>4. IndexFollows(IdxMod, CooldownSize)
    BY <2>3, NextSlot
  <2> QED
    BY <2>1, <2>2, <2>4 DEF IndexFollows, Slot, C
<1>3. \A s \in Slots : ring'.ports[s] = IF s = Slot THEN p ELSE ring.ports[s]
  BY <1>1 DEF Take, Pushed, IInv, TypeOK, Slot, C
<1>4. \A q \in Ports :
        age'[q] = IF q = p THEN 1
                  ELSE IF age[q] \in 1 .. C - 1 THEN age[q] + 1 ELSE 0
  BY DEF Take, C
<1>5. \A s \in Slots : ring.ports[s] # p
  BY DEF Take, Cooling
<1>6. p # NoPort /\ \A q \in Ports : age[q] \in 0 .. C
  BY <1>1, PortsPositive DEF IInv, TypeOK, C, NoPort
<1>7. RingAges'
  <2> SUFFICES ASSUME NEW s \in Slots, ring'.ports[s] # NoPort
               PROVE  age'[ring'.ports[s]] = IF s < Slot' THEN Slot' - s
                                             ELSE Slot' - s + C
    BY DEF RingAges, Ago
  <2>1. CASE s = Slot
    BY <1>1, <1>2, <1>3, <1>4, <2>1
  <2>2. CASE s # Slot
    <3> DEFINE q == ring.ports[s]
    <3>1. ring'.ports[s] = q /\ q \in Ports /\ q # p
      BY <1>3, <1>5, <2>2 DEF IInv, TypeOK
    <3>2. age[q] = IF s < Slot THEN Slot - s ELSE Slot - s + C
      BY <3>1 DEF IInv, RingAges, Ago
    <3>3. age[q] \in 1 .. C - 1
      BY <1>1, <2>2, <3>2
    <3>4. age'[q] = age[q] + 1
      BY <1>4, <3>1, <3>3
    <3> QED
      BY <1>1, <1>2, <2>2, <3>1, <3>2, <3>4
  <2> QED
    BY <2>1, <2>2
<1>8. AgesInRing'
  <2> SUFFICES ASSUME NEW q \in Ports, age'[q] # 0
               PROVE  ring'.ports[IF age'[q] =< Slot' THEN Slot' - age'[q]
                                  ELSE Slot' - age'[q] + C] = q
    BY DEF AgesInRing, Back
  <2>1. CASE q = p
    BY <1>1, <1>2, <1>3, <1>4, <2>1
  <2>2. CASE q # p
    <3> DEFINE s == IF age[q] =< Slot THEN Slot - age[q] ELSE Slot - age[q] + C
    <3>1. age[q] \in 1 .. C - 1 /\ age'[q] = age[q] + 1
      BY <1>4, <2>2
    <3>2. s \in Slots \ {Slot}
      BY <1>1, <3>1
    <3>3. ring.ports[s] = q
      BY <3>1 DEF IInv, AgesInRing, Back
    <3>4. s = IF age'[q] =< Slot' THEN Slot' - age'[q] ELSE Slot' - age'[q] + C
      BY <1>1, <1>2, <3>1
    <3> HIDE DEF s
    <3>5. ring'.ports[s] = q
      BY <1>3, <3>2, <3>3
    <3> QED
      BY <3>4, <3>5
  <2> QED
    BY <2>1, <2>2
<1> QED
  BY <1>7, <1>8

\* The strengthening that carries RingIsRecent.
LEMMA IInvHolds == Spec => []IInv
<1>1. Init /\ TypeOK => IInv
  BY DEF Init, IInv, RingAges, AgesInRing
<1>2. IInv /\ TypeOK' /\ [Next]_vars => IInv'
  <2> SUFFICES ASSUME IInv, TypeOK', [Next]_vars PROVE (RingAges /\ AgesInRing)'
    BY DEF IInv
  <2>1. CASE Take
    BY <2>1, TakeKeepsAges
  <2>2. CASE UNCHANGED <<ring, age>>
    BY <2>2 DEF IInv, RingAges, AgesInRing, Ago, Back, Slot
  <2> QED
    BY <2>1, <2>2 DEF Next, vars, Start, Skip, Exhaust, Publish, Withdraw,
           Reconfigure
<1> QED
  BY <1>1, <1>2, TypeCorrect, PTL DEF Spec

\* IInv says that the ring holds exactly the last CooldownSize ports.
LEMMA IInvMeans == IInv => RingIsRecent
<1> SUFFICES ASSUME IInv, NEW p \in Ports
             PROVE  Cooling(ring, p) <=> age[p] # 0
  BY DEF RingIsRecent
<1>1. C \in Nat \ {0} /\ Slots = 0 .. C - 1 /\ Slot \in Slots
  BY PushedType, RingAssumption DEF IInv, C, Slots
<1>2. ASSUME Cooling(ring, p) PROVE age[p] # 0
  <2>1. PICK s \in Slots : ring.ports[s] = p
    BY <1>2 DEF Cooling
  <2>2. p # NoPort
    BY PortsPositive DEF NoPort
  <2>3. age[p] = Ago(s)
    BY <2>1, <2>2 DEF IInv, RingAges
  <2> QED
    BY <1>1, <2>3 DEF Ago
<1>3. ASSUME age[p] # 0 PROVE Cooling(ring, p)
  <2>1. age[p] \in 1 .. C
    BY <1>3 DEF IInv, TypeOK, C
  <2>2. Back(age[p]) \in Slots
    BY <1>1, <2>1 DEF Back
  <2> QED
    BY <1>3, <2>2 DEF IInv, AgesInRing, Cooling
<1> QED
  BY <1>2, <1>3

\* RingIsRecent: the ring is exactly the last CooldownSize ports handed out,
\* whatever the width of its index and the changes of range (cooldown_push).
THEOREM RingCorrect == Spec => []RingIsRecent
  BY IInvHolds, IInvMeans, PTL

\* NoQuickReuse: alloc_port never returns one of the last CooldownSize ports
\* it returned on this CPU.
THEOREM QuickReuseExcluded == Spec => NoQuickReuse
<1>1. IInv /\ [Next]_vars => [\A p \in Ports : Returns(p) => age[p] = 0]_vars
  <2> SUFFICES ASSUME IInv, Next, NEW p \in Ports, Returns(p)
               PROVE  age[p] = 0
    OBVIOUS
  <2>1. Take
    BY DEF Next, Start, Skip, Exhaust, Publish, Withdraw, Reconfigure, Returns,
           SpentCall, IInv, TypeOK
  <2>2. p = Probed
    BY <2>1 DEF Take, Returns, IInv, TypeOK, SpentCall
  <2>3. ~ Cooling(ring, p)
    BY <2>1, <2>2 DEF Take
  <2> QED
    BY <2>3, IInvMeans DEF RingIsRecent
<1> QED
  BY <1>1, IInvHolds, PTL DEF Spec, NoQuickReuse

-----------------------------------------------------------------------------
(* How many ports a call that gives up has tried.                          *)

\* Numbers less than n apart have different remainders.
LEMMA ModApart ==
    ASSUME NEW n \in Nat \ {0}, NEW x \in Nat, NEW y \in Nat,
           x < y, y < x + n
    PROVE  x % n # y % n
<1> DEFINE q == x \div n
           r == x % n
           s == y \div n
           t == y % n
<1>1. x = n * q + r /\ r \in 0 .. n - 1 /\ q \in Nat
  BY Z3
<1>2. y = n * s + t /\ t \in 0 .. n - 1 /\ s \in Nat
  BY Z3
<1> HIDE DEF q, r, s, t
<1>3. ASSUME r = t PROVE FALSE
  <2>1. n * (s - q) = y - x
    BY <1>1, <1>2, <1>3
  <2>2. s - q >= 1
    BY <1>1, <1>2, <2>1
  <2>3. n * (s - q) >= n
    BY <1>1, <1>2, <2>2
  <2> QED
    BY <2>1, <2>3
<1> QED
  BY <1>3 DEF r, t

\* Every remainder is that of one of n consecutive numbers.
LEMMA ModAll ==
    ASSUME NEW n \in Nat \ {0}, NEW c \in Nat, n =< c, NEW r \in 0 .. n - 1
    PROVE  \E x \in c - n + 1 .. c : x % n = r
<1> DEFINE q == c \div n
           t == c % n
<1>1. c = n * q + t /\ t \in 0 .. n - 1 /\ q \in Nat
  BY Z3
<1> HIDE DEF q, t
<1>2. CASE r =< t
  <2>1. (n * q + r) % n = r
    BY <1>1, ModUnique
  <2>2. n * q + r \in c - n + 1 .. c
    BY <1>1, <1>2
  <2> QED
    BY <2>1, <2>2
<1>3. CASE r > t
  <2>1. q # 0
    BY <1>1
  <2>2. q - 1 \in Nat
    BY <1>1, <2>1
  <2>3. (n * (q - 1) + r) % n = r
    BY <2>2, ModUnique
  <2>4. n * (q - 1) = n * q - n
    BY <1>1
  <2>5. n * (q - 1) + r \in c - n + 1 .. c
    BY <1>1, <1>3, <2>2, <2>4
  <2> QED
    BY <2>3, <2>5
<1> QED
  BY <1>1, <1>2, <1>3

\* The candidates of n consecutive cursor values are n different ports, or the
\* whole range.
LEMMA CandidatesCounted ==
    ASSUME NEW r \in Ranges, NEW n \in Nat, NEW c \in Nat, n =< c
    PROVE  Cardinality({Candidate(r, x) : x \in c - n + 1 .. c}) =
             IF n < Span(r) THEN n ELSE Span(r)
<1> DEFINE k == Span(r)
           I == c - n + 1 .. c
           T == {Candidate(r, x) : x \in I}
<1>1. k \in Nat \ {0} /\ r[1] \in Nat /\ r[2] = r[1] + k - 1 /\ r[2] \in Nat
  BY PortsAssumption DEF Span
<1>2. \A x \in Nat : x % k \in 0 .. k - 1 /\ Candidate(r, x) = r[1] + (x % k)
  BY <1>1, NextMod DEF Candidate
<1>3. I \subseteq Nat /\ IsFiniteSet(I) /\ Cardinality(I) = n
  <2>1. c - n + 1 \in Int /\ c \in Int
    OBVIOUS
  <2> QED
    BY <2>1, FS_Interval
<1> HIDE DEF k
<1>4. CASE n < k
  <2> DEFINE f == [x \in I |-> Candidate(r, x)]
  <2>1. ASSUME NEW x \in I, NEW y \in I, x < y
        PROVE  Candidate(r, x) # Candidate(r, y)
    <3>1. x \in Nat /\ y \in Nat /\ y < x + k
      BY <1>1, <1>4, <2>1
    <3>2. x % k # y % k
      BY <1>1, <2>1, <3>1, ModApart
    <3>3. x % k \in Nat /\ y % k \in Nat
      BY <1>2, <3>1
    <3>4. Candidate(r, x) = r[1] + (x % k) /\ Candidate(r, y) = r[1] + (y % k)
      BY <1>2, <3>1
    <3> QED
      BY <1>1, <3>2, <3>3, <3>4
  <2>2. \A x, y \in I : x # y => Candidate(r, x) # Candidate(r, y)
    <3>1. \A x, y \in I : x # y => x < y \/ y < x
      OBVIOUS
    <3> QED
      BY <2>1, <3>1, Zenon
  <2>3. f \in Bijection(I, T)
    BY <2>2 DEF Bijection, Injection, IsInjective, Surjection
  <2>4. ExistsBijection(I, T)
    BY <2>3 DEF ExistsBijection
  <2> QED
    BY <1>3, <1>4, <2>4, FS_Bijection DEF k
<1>5. CASE ~(n < k)
  <2>1. ASSUME NEW x \in I PROVE Candidate(r, x) \in r[1] .. r[2]
    <3>1. x % k \in 0 .. k - 1 /\ Candidate(r, x) = r[1] + (x % k)
      BY <1>2, <1>3
    <3> QED
      BY <1>1, <3>1
  <2>2. ASSUME NEW p \in r[1] .. r[2] PROVE p \in T
    <3>1. p - r[1] \in 0 .. k - 1
      BY <1>1
    <3>2. PICK x \in c - k + 1 .. c : x % k = p - r[1]
      <4>1. k =< c
        BY <1>1, <1>5
      <4> QED
        BY <1>1, <3>1, <4>1, ModAll
    <3>3. x \in I
      BY <1>1, <1>5
    <3>4. Candidate(r, x) = r[1] + (x % k)
      BY <1>2, <1>3, <3>3
    <3>5. Candidate(r, x) = p
      BY <1>1, <3>2, <3>4
    <3> QED
      BY <3>3, <3>5
  <2>3. T = r[1] .. r[2]
    BY <2>1, <2>2
  <2>4. Cardinality(r[1] .. r[2]) = k
    <3>1. r[1] \in Int /\ r[2] \in Int
      BY <1>1
    <3>2. Cardinality(r[1] .. r[2]) = IF r[1] > r[2] THEN 0 ELSE r[2] - r[1] + 1
      BY <3>1, FS_Interval
    <3> QED
      BY <1>1, <3>2
  <2> QED
    BY <1>5, <2>3, <2>4 DEF k
<1> QED
  BY <1>4, <1>5

\* A call that the wrap of the cursor did not disturb has tried the candidates
\* of as many consecutive cursor values as it spent probes.
ProbedSoFar ==
    call.pc \in {"probing", "exhausted"} /\ ~ call.wrapped =>
      LET n == Probes - call.left IN
      /\ n =< cursor \/ n = 0
      /\ call.tried = {Candidate(call.range, c) : c \in cursor - n + 1 .. cursor}
      /\ call.pc = "exhausted" => call.left = 0

\* One more probe adds the candidate of the next cursor value.
LEMMA ProbeAdds ==
    ASSUME TypeOK, ProbedSoFar, call.pc = "probing", call.left > 0,
           cursor' = Advanced(cursor), call' = SpentCall
    PROVE  ProbedSoFar'
<1> SUFFICES ASSUME ~ SpentCall.wrapped PROVE ProbedSoFar'
  BY DEF ProbedSoFar
<1> DEFINE n == Probes - call.left
           N == {Candidate(call.range, c) : c \in cursor - n + 1 .. cursor}
<1>1. /\ cursor \in Nat /\ cursor < CursorMod /\ CursorMod \in Nat \ {0, 1}
      /\ call.left \in 1 .. Probes /\ n \in Nat
  BY CursorAssumption, ProbesAssumption DEF TypeOK
<1>2. /\ SpentCall.pc = "probing" /\ SpentCall.left = call.left - 1
      /\ SpentCall.range = call.range
      /\ SpentCall.tried = call.tried \cup {Probed}
  BY DEF TypeOK, SpentCall
<1>3. ~ call.wrapped /\ ~(Advanced(cursor) < cursor)
  <2>1. SpentCall.wrapped = (call.wrapped \/ Advanced(cursor) < cursor)
    BY DEF TypeOK, SpentCall
  <2> QED
    BY <2>1, Zenon
<1>4. Advanced(cursor) = cursor + 1
  <2>1. cursor + 1 # CursorMod
    <3> SUFFICES ASSUME cursor + 1 = CursorMod PROVE FALSE
      OBVIOUS
    <3>1. Advanced(cursor) = 0
      BY <1>1, Z3 DEF Advanced
    <3> QED
      BY <1>1, <1>3, <3>1
  <2> QED
    BY <1>1, <2>1, Z3 DEF Advanced
<1>5. (n =< cursor \/ n = 0) /\ call.tried = N
  BY <1>1, <1>3 DEF ProbedSoFar
<1>6. call'.tried = {Candidate(call.range, c) : c \in cursor' - (n + 1) + 1 .. cursor'}
  <2>1. cursor - n + 1 .. cursor + 1 = (cursor - n + 1 .. cursor) \cup {cursor + 1}
    BY <1>1
  <2>2. cursor' - (n + 1) + 1 = cursor - n + 1 /\ cursor' = cursor + 1
    BY <1>1, <1>4
  <2>3. Probed = Candidate(call.range, cursor + 1)
    BY <1>4 DEF Probed
  <2> QED
    BY <1>1, <1>5, <1>2, <2>1, <2>2, <2>3
<1>7. Probes - call'.left = n + 1 /\ n + 1 =< cursor'
  BY <1>1, <1>4, <1>5, <1>2, ProbesAssumption
<1> QED
  BY <1>1, <1>6, <1>7, <1>2, <1>3 DEF ProbedSoFar

\* A call that gives up has tried as many different ports as it has probes, or
\* all of its range: for every range, number of probes and cursor value that
\* the last call, under whatever range, left behind.
THEOREM ProbesCorrect == Spec => []ProbesAreDistinct
<1>1. Init => ProbedSoFar
  BY DEF Init, ProbedSoFar
<1>2. TypeOK /\ ProbedSoFar /\ [Next]_vars => ProbedSoFar'
  <2> SUFFICES ASSUME TypeOK, ProbedSoFar, [Next]_vars PROVE ProbedSoFar'
    OBVIOUS
  <2>1. ASSUME NEW e \in Externals, Start(e) PROVE ProbedSoFar'
    <3>1. CASE range[1] >= range[2]
      BY <2>1, <3>1 DEF Start, ProbedSoFar, TypeOK
    <3>2. CASE ~ (range[1] >= range[2])
      <4>1. /\ call'.pc = "probing" /\ call'.left = Probes /\ call'.tried = {}
            /\ cursor' = cursor /\ cursor \in Nat
        BY <2>1, <3>2, CursorAssumption DEF Start, StartCursor, TypeOK
      <4>2. cursor' - (Probes - call'.left) + 1 .. cursor' = {}
        BY <4>1, ProbesAssumption
      <4> QED
        BY <4>1, <4>2, ProbesAssumption DEF ProbedSoFar
    <3> QED
      BY <3>1, <3>2
  <2>2. CASE Skip
    BY <2>2, ProbeAdds DEF Skip
  <2>3. CASE Take
    BY <2>3 DEF Take, ProbedSoFar, SpentCall, TypeOK
  <2>4. CASE Exhaust
    BY <2>4 DEF Exhaust, ProbedSoFar, TypeOK
  <2>5. CASE UNCHANGED <<call, cursor>>
    BY <2>5 DEF ProbedSoFar
  <2> QED
    BY <2>1, <2>2, <2>3, <2>4, <2>5
       DEF Next, vars, Publish, Withdraw, Reconfigure
<1>3. TypeOK /\ ProbedSoFar => ProbesAreDistinct
  <2> SUFFICES ASSUME TypeOK, ProbedSoFar, call.pc = "exhausted", ~ call.wrapped
               PROVE  Cardinality(call.tried) =
                        IF Probes < Span(call.range) THEN Probes ELSE Span(call.range)
    BY DEF ProbesAreDistinct
  <2>1. /\ call.left = 0 /\ Probes =< cursor /\ cursor \in Nat /\ call.range \in Ranges
        /\ call.tried = {Candidate(call.range, c) : c \in cursor - Probes + 1 .. cursor}
    BY ProbesAssumption, CursorAssumption DEF ProbedSoFar, TypeOK
  <2> QED
    BY <2>1, ProbesAssumption, CandidatesCounted
<1> QED
  BY <1>1, <1>2, <1>3, TypeCorrect, PTL DEF Spec
=============================================================================
