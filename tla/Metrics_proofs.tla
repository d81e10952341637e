--------------------------- MODULE Metrics_proofs ---------------------------
(***************************************************************************)
(* The properties of Metrics for any number of CPUs, any width of the      *)
(* counters and any number of runs.                                        *)
(*                                                                         *)
(* A read and an export both copy a row of counters one after the other    *)
(* while the original grows.  What is followed is the mixture of what was  *)
(* copied and what was not: it is covered and grows as long as effects are *)
(* copied before their causes.  What a sum over the CPUs keeps of the      *)
(* values of each is shown by induction on the CPUs.                       *)
(***************************************************************************)
EXTENDS Metrics, NaturalsInduction, WellFoundedInduction, TLAPS

\* Where a counter stands in the layout.
Place ==
    [nat64_v6_to_v4_ok |-> 1, nat64_v4_to_v6_ok |-> 2, nat_lookup_hit |-> 3,
     fwd_nat_lookup_hit |-> 4, fwd_nat_insert_ok |-> 5, port_alloc_ok |-> 6]

\* A row of which the first n counters have been copied to x.
Mix(x, y, n) == [c \in Counters |-> IF Place[c] =< n THEN x[c] ELSE y[c]]

\* What the read in progress would find if nothing more was counted.
Seen == [k \in CpuIds |-> Mix(buffer[k], counters[k], pos - (k - 1) * 6)]

\* What the export in progress will have reported.
Shown == Mix(reported, published, exporting - 1)

\* Every counter of row v is at most that of row w.
Below(v, w) == \A c \in Counters : v[c] =< w[c]

\* What the run of a CPU counts next has its cause counted already.
Owed(rest, v) ==
    /\ rest = <<"nat64_v4_to_v6_ok">> =>
           \/ v["nat64_v4_to_v6_ok"] < v["nat_lookup_hit"]
           \/ v["nat_lookup_hit"] = MaxCount
    /\ rest = <<"nat64_v6_to_v4_ok">> =>
           \/ v["nat64_v6_to_v4_ok"] <
                  v["fwd_nat_lookup_hit"] + v["fwd_nat_insert_ok"]
           \/ v["fwd_nat_lookup_hit"] + v["fwd_nat_insert_ok"] >= MaxCount
    /\ rest = <<"fwd_nat_insert_ok", "nat64_v6_to_v4_ok">> =>
           \/ v["fwd_nat_insert_ok"] < v["port_alloc_ok"]
           \/ v["port_alloc_ok"] = MaxCount

\* Each CPU has counted causes before effects.
Caused ==
    \A k \in CpuIds : Covered(counters[k]) /\ Owed(run[k], counters[k])

\* The read in progress finds causes for the effects it has found.
Reads ==
    /\ \A k \in CpuIds : Covered(Seen[k])
    /\ \A k \in CpuIds : Below(buffer[k], counters[k])
    /\ ~ Reading => pos = 0

\* Snapshots follow each other: what was published, what there was to report
\* when the read began, what it will publish.
Follows ==
    /\ Below(published, Totals)
    /\ Reading => Below(published, started) /\ Below(started, Aggregate(Seen))
    /\ Below(reported, published)

\* Snapshots and exports show causes for the effects they show.
Explained ==
    /\ Covered(published)
    /\ exporting = 0 => Covered(reported)
    /\ exporting # 0 => Covered(Shown)

\* The final snapshot is on its way out.
Final ==
    /\ pc \in {"stopping", "last", "done"} => Below(started, published)
    /\ pc = "last" => exporting # 0 /\ Below(started, Shown)
    /\ pc = "done" => Below(started, reported)

MetricsInv ==
    TypeOK /\ Caused /\ Reads /\ Follows /\ Explained /\ Final

-----------------------------------------------------------------------------
(* Induction up to a bound, and the sums over the CPUs.                    *)

\* A set of numbers that is not empty has a least element.
LEMMA LeastNumber ==
    ASSUME NEW T \in SUBSET Nat, T # {}
    PROVE  \E x \in T : \A y \in T : x =< y
<1> DEFINE R == {p \in Nat \X Nat : p[1] < p[2]}
<1>1. IsWellFoundedOn(R, Nat)
  BY NatLessThanWellFounded DEF OpToRel
<1>2. ASSUME NEW x \in Nat, NEW y \in Nat, y < x PROVE <<y, x>> \in R
  BY <1>2
<1> HIDE DEF R
<1>3. PICK x \in T : \A y \in T : <<y, x>> \notin R
  BY <1>1, WFMin
<1>4. ASSUME NEW y \in T PROVE x =< y
  <2>1. ~ (y < x)
    BY <1>2, <1>3
  <2> QED BY <2>1
<1> QED BY <1>4

\* A set that holds 0 and, with each number below n, the next one holds all
\* numbers up to n.
LEMMA UpTo ==
    ASSUME NEW n \in Nat, NEW T, 0 \in T,
           \A k \in 1 .. n : k - 1 \in T => k \in T
    PROVE  \A k \in 0 .. n : k \in T
<1> DEFINE Missed == {k \in 0 .. n : k \notin T}
<1>1. SUFFICES ASSUME Missed # {} PROVE FALSE
  OBVIOUS
<1>2. Missed \in SUBSET Nat
  OBVIOUS
<1>3. PICK x \in Missed : \A y \in Missed : x =< y
  <2> HIDE DEF Missed
  <2> QED BY <1>1, <1>2, LeastNumber
<1>4. x \in 1 .. n /\ x \notin T
  BY <1>3
<1>5. x - 1 \in 0 .. n /\ ~ (x =< x - 1)
  BY <1>4
<1>6. x - 1 \in T
  BY <1>3, <1>5
<1> QED BY <1>4, <1>6

\* A sequence of partial results exists for every way to add a value.
LEMMA PartialsExist ==
    ASSUME NEW n \in Nat, NEW add \in [Nat \X Nat -> Nat],
           NEW a \in [1 .. n -> Nat]
    PROVE  \E s \in [0 .. n -> Nat] :
               /\ s[0] = 0
               /\ \A k \in 1 .. n : s[k] = add[<<s[k - 1], a[k]>>]
<1> DEFINE Good(s, m) == /\ s \in [0 .. n -> Nat]
                         /\ s[0] = 0
                         /\ \A k \in 1 .. m : s[k] = add[<<s[k - 1], a[k]>>]
           T == {m \in 0 .. n : \E s \in [0 .. n -> Nat] : Good(s, m)}
<1>1. 0 \in T
  <2> DEFINE zero == [k \in 0 .. n |-> 0]
  <2>1. zero \in [0 .. n -> Nat] /\ Good(zero, 0)
    OBVIOUS
  <2> HIDE DEF zero, Good
  <2>2. \E s \in [0 .. n -> Nat] : Good(s, 0)
    BY ONLY <2>1
  <2>3. 0 \in 0 .. n
    OBVIOUS
  <2> QED BY <2>2, <2>3
<1>2. ASSUME NEW m \in 1 .. n, m - 1 \in T PROVE m \in T
  <2>1. PICK s \in [0 .. n -> Nat] : Good(s, m - 1)
    BY <1>2
  <2>2. s[m - 1] \in Nat /\ a[m] \in Nat
    OBVIOUS
  <2>3. add[<<s[m - 1], a[m]>>] \in Nat
    BY <2>2
  <2> DEFINE t == [s EXCEPT ![m] = add[<<s[m - 1], a[m]>>]]
  <2>4. t \in [0 .. n -> Nat] /\ t[0] = 0
    BY <2>1, <2>3
  <2>5. ASSUME NEW k \in 1 .. m PROVE t[k] = add[<<t[k - 1], a[k]>>]
    <3>1. CASE k = m
      <4>1. m \in 0 .. n /\ m - 1 # m /\ m - 1 \in 0 .. n
        OBVIOUS
      <4>2. t[m - 1] = s[m - 1] /\ t[m] = add[<<s[m - 1], a[m]>>]
        BY <4>1
      <4> HIDE DEF t
      <4> QED BY <3>1, <4>2
    <3>2. CASE k # m
      <4>1. k \in 1 .. m - 1 /\ k - 1 # m /\ k \in 0 .. n /\ k - 1 \in 0 .. n
        BY <3>2
      <4>2. s[k] = add[<<s[k - 1], a[k]>>]
        BY <2>1, <4>1
      <4>3. t[k] = s[k] /\ t[k - 1] = s[k - 1]
        BY <4>1, <3>2
      <4> QED BY <4>2, <4>3
    <3> QED BY <3>1, <3>2
  <2>6. Good(t, m)
    BY <2>4, <2>5
  <2>7. m \in 0 .. n
    OBVIOUS
  <2> HIDE DEF Good, t
  <2> QED BY <2>4, <2>6, <2>7
<1>3. n \in T
  <2>1. n \in 0 .. n
    OBVIOUS
  <2> HIDE DEF T
  <2>2. \A k \in 1 .. n : k - 1 \in T => k \in T
    BY <1>2
  <2>3. \A k \in 0 .. n : k \in T
    BY <1>1, <2>2, UpTo
  <2> QED BY <2>1, <2>3
<1> QED BY <1>3

\* Values that a snapshot may show, and those that the CPUs may hold.
Row == [Counters -> 0 .. MaxCount]
Rows == [CpuIds -> Row]

\* A saturating sum is a number that the width has room for.
LEMMA SaturatingFacts ==
    ASSUME NEW a \in Nat, NEW b \in Nat
    PROVE  /\ SaturatingAdd(a, b) \in 0 .. MaxCount
           /\ a + b =< MaxCount => SaturatingAdd(a, b) = a + b
           /\ a + b > MaxCount => SaturatingAdd(a, b) = MaxCount
BY MetricsAssumption DEF SaturatingAdd

\* The sums of aggregate_prod_counters, CPU by CPU.
LEMMA SummedFacts ==
    ASSUME NEW v \in Rows, NEW c \in Counters
    PROVE  /\ Summed(v, c) \in [0 .. Cpus -> Nat]
           /\ Summed(v, c)[0] = 0
           /\ \A k \in CpuIds :
                  /\ k - 1 \in 0 .. Cpus /\ k \in 0 .. Cpus
                  /\ v[k][c] \in 0 .. MaxCount
                  /\ Summed(v, c)[k] =
                         SaturatingAdd(Summed(v, c)[k - 1], v[k][c])
<1> DEFINE add == [p \in Nat \X Nat |-> SaturatingAdd(p[1], p[2])]
           a == [k \in 1 .. Cpus |-> v[k][c]]
           Sum(s) == s = [k \in 0 .. Cpus |->
                             IF k = 0 THEN 0
                             ELSE SaturatingAdd(s[k - 1], v[k][c])]
<1>1. Cpus \in Nat /\ MaxCount \in Nat
  BY MetricsAssumption
<1>2. \A k \in CpuIds : k - 1 \in 0 .. Cpus /\ k \in 0 .. Cpus /\ k # 0
                        /\ v[k][c] \in 0 .. MaxCount
  BY <1>1 DEF CpuIds, Rows, Row
<1>a. \A x, y \in Nat : SaturatingAdd(x, y) \in Nat
  BY <1>1, SaturatingFacts
<1>3. add \in [Nat \X Nat -> Nat]
  BY <1>a
<1>b. \A x, y \in Nat : add[<<x, y>>] = SaturatingAdd(x, y)
  OBVIOUS
<1>4. a \in [1 .. Cpus -> Nat]
  BY <1>2 DEF CpuIds
<1>5. PICK s \in [0 .. Cpus -> Nat] :
          /\ s[0] = 0
          /\ \A k \in 1 .. Cpus : s[k] = add[<<s[k - 1], a[k]>>]
  <2> HIDE DEF add, a
  <2> QED BY <1>1, <1>3, <1>4, PartialsExist
<1>6. ASSUME NEW k \in 1 .. Cpus
      PROVE  s[k] = SaturatingAdd(s[k - 1], v[k][c])
  <2>1. s[k - 1] \in Nat /\ a[k] = v[k][c] /\ a[k] \in Nat
    BY <1>2, <1>4 DEF CpuIds
  <2> HIDE DEF add, a
  <2>2. s[k] = add[<<s[k - 1], a[k]>>]
    BY <1>5
  <2> QED BY <1>b, <2>1, <2>2
<1>7. Sum(s)
  BY <1>1, <1>5, <1>6
<1>8. Sum(Summed(v, c))
  <2>1. Summed(v, c) = CHOOSE t : Sum(t)
    BY DEF Summed
  <2> HIDE DEF Sum
  <2> QED BY <1>7, <2>1
<1> DEFINE S == Summed(v, c)
<1> HIDE DEF S
<1>9. Sum(S)
  BY <1>8 DEF S
<1>10. DOMAIN S = 0 .. Cpus /\ S[0] = 0
  BY <1>1, <1>9
<1>11. \A k \in CpuIds : S[k] = SaturatingAdd(S[k - 1], v[k][c])
  BY <1>2, <1>9
<1>12. \A k \in 0 .. Cpus : S[k] \in Nat
  <2> DEFINE T == {k \in 0 .. Cpus : S[k] \in Nat}
  <2>1. 0 \in T
    BY <1>1, <1>10
  <2>2. ASSUME NEW k \in 1 .. Cpus, k - 1 \in T PROVE k \in T
    <3>1. k \in CpuIds /\ k \in 0 .. Cpus /\ S[k - 1] \in Nat
      BY <1>2, <2>2 DEF CpuIds
    <3>2. v[k][c] \in Nat
      BY <1>1, <1>2, <3>1
    <3>3. SaturatingAdd(S[k - 1], v[k][c]) \in Nat
      BY <1>a, <3>1, <3>2
    <3> QED BY <1>11, <3>1, <3>3
  <2>3. \A k \in 0 .. Cpus : k \in T
    <3> HIDE DEF T
    <3> QED BY <1>1, <2>1, <2>2, UpTo
  <2> QED BY <2>3
<1>13. S \in [0 .. Cpus -> Nat]
  BY <1>9, <1>10, <1>12
<1> QED BY <1>2, <1>10, <1>11, <1>13 DEF S

\* The same for the true sums.
LEMMA ExactFacts ==
    ASSUME NEW v \in Rows, NEW c \in Counters
    PROVE  /\ Exact(v, c) \in [0 .. Cpus -> Nat]
           /\ Exact(v, c)[0] = 0
           /\ \A k \in CpuIds :
                  /\ k - 1 \in 0 .. Cpus /\ k \in 0 .. Cpus
                  /\ v[k][c] \in 0 .. MaxCount
                  /\ Exact(v, c)[k] =
                         Exact(v, c)[k - 1] + v[k][c]
<1> DEFINE add == [p \in Nat \X Nat |-> p[1] + p[2]]
           a == [k \in 1 .. Cpus |-> v[k][c]]
           Sum(s) == s = [k \in 0 .. Cpus |->
                             IF k = 0 THEN 0
                             ELSE s[k - 1] + v[k][c]]
<1>1. Cpus \in Nat /\ MaxCount \in Nat
  BY MetricsAssumption
<1>2. \A k \in CpuIds : k - 1 \in 0 .. Cpus /\ k \in 0 .. Cpus /\ k # 0
                        /\ v[k][c] \in 0 .. MaxCount
  BY <1>1 DEF CpuIds, Rows, Row
<1>a. \A x, y \in Nat : x + y \in Nat
  OBVIOUS
<1>3. add \in [Nat \X Nat -> Nat]
  BY <1>a
<1>b. \A x, y \in Nat : add[<<x, y>>] = x + y
  OBVIOUS
<1>4. a \in [1 .. Cpus -> Nat]
  BY <1>2 DEF CpuIds
<1>5. PICK s \in [0 .. Cpus -> Nat] :
          /\ s[0] = 0
          /\ \A k \in 1 .. Cpus : s[k] = add[<<s[k - 1], a[k]>>]
  <2> HIDE DEF add, a
  <2> QED BY <1>1, <1>3, <1>4, PartialsExist
<1>6. ASSUME NEW k \in 1 .. Cpus
      PROVE  s[k] = s[k - 1] + v[k][c]
  <2>1. s[k - 1] \in Nat /\ a[k] = v[k][c] /\ a[k] \in Nat
    BY <1>2, <1>4 DEF CpuIds
  <2> HIDE DEF add, a
  <2>2. s[k] = add[<<s[k - 1], a[k]>>]
    BY <1>5
  <2> QED BY <1>b, <2>1, <2>2
<1>7. Sum(s)
  BY <1>1, <1>5, <1>6
<1>8. Sum(Exact(v, c))
  <2>1. Exact(v, c) = CHOOSE t : Sum(t)
    BY DEF Exact
  <2> HIDE DEF Sum
  <2> QED BY <1>7, <2>1
<1> DEFINE S == Exact(v, c)
<1> HIDE DEF S
<1>9. Sum(S)
  BY <1>8 DEF S
<1>10. DOMAIN S = 0 .. Cpus /\ S[0] = 0
  BY <1>1, <1>9
<1>11. \A k \in CpuIds : S[k] = S[k - 1] + v[k][c]
  BY <1>2, <1>9
<1>12. \A k \in 0 .. Cpus : S[k] \in Nat
  <2> DEFINE T == {k \in 0 .. Cpus : S[k] \in Nat}
  <2>1. 0 \in T
    BY <1>1, <1>10
  <2>2. ASSUME NEW k \in 1 .. Cpus, k - 1 \in T PROVE k \in T
    <3>1. k \in CpuIds /\ k \in 0 .. Cpus /\ S[k - 1] \in Nat
      BY <1>2, <2>2 DEF CpuIds
    <3>2. v[k][c] \in Nat
      BY <1>1, <1>2, <3>1
    <3>3. S[k - 1] + v[k][c] \in Nat
      BY <1>a, <3>1, <3>2
    <3> QED BY <1>11, <3>1, <3>3
  <2>3. \A k \in 0 .. Cpus : k \in T
    <3> HIDE DEF T
    <3> QED BY <1>1, <2>1, <2>2, UpTo
  <2> QED BY <2>3
<1>13. S \in [0 .. Cpus -> Nat]
  BY <1>9, <1>10, <1>12
<1> QED BY <1>2, <1>10, <1>11, <1>13 DEF S

\* What grows on each CPU grows in the sum.
LEMMA SumGrows ==
    ASSUME NEW v \in Rows, NEW w \in Rows, NEW c \in Counters,
           \A k \in CpuIds : v[k][c] =< w[k][c]
    PROVE  Summed(v, c)[Cpus] =< Summed(w, c)[Cpus]
<1> DEFINE S == Summed(v, c)
           R == Summed(w, c)
           T == {k \in 0 .. Cpus : S[k] =< R[k]}
<1>1. Cpus \in Nat /\ MaxCount \in Nat
  BY MetricsAssumption
<1>2. /\ S \in [0 .. Cpus -> Nat] /\ S[0] = 0
      /\ R \in [0 .. Cpus -> Nat] /\ R[0] = 0
  BY SummedFacts
<1>3. \A k \in CpuIds :
          /\ k - 1 \in 0 .. Cpus /\ k \in 0 .. Cpus
          /\ v[k][c] \in 0 .. MaxCount /\ w[k][c] \in 0 .. MaxCount
          /\ S[k] = SaturatingAdd(S[k - 1], v[k][c])
          /\ R[k] = SaturatingAdd(R[k - 1], w[k][c])
  BY SummedFacts
<1> HIDE DEF S, R
<1>4. 0 \in T
  BY <1>1, <1>2
<1>5. ASSUME NEW k \in 1 .. Cpus, k - 1 \in T PROVE k \in T
  <2>1. k \in CpuIds /\ k \in 0 .. Cpus /\ S[k - 1] =< R[k - 1]
    BY <1>3, <1>5 DEF CpuIds
  <2>2. S[k - 1] \in Nat /\ R[k - 1] \in Nat
    BY <1>2, <1>3, <2>1
  <2>3. /\ v[k][c] \in 0 .. MaxCount /\ w[k][c] \in 0 .. MaxCount
        /\ S[k] = SaturatingAdd(S[k - 1], v[k][c])
        /\ R[k] = SaturatingAdd(R[k - 1], w[k][c])
        /\ v[k][c] =< w[k][c]
    BY <1>3, <2>1
  <2>4. S[k] =< R[k]
    BY <1>1, <2>1, <2>2, <2>3 DEF SaturatingAdd
  <2> QED BY <2>1, <2>4
<1>6. \A k \in 0 .. Cpus : k \in T
  <2> HIDE DEF T
  <2> QED BY <1>1, <1>4, <1>5, UpTo
<1> QED BY <1>1, <1>6 DEF S, R

\* If on each CPU one of two causes covers an effect, so it is in the sum.
LEMMA SumCovers ==
    ASSUME NEW v \in Rows,
           NEW e \in Counters, NEW a \in Counters, NEW b \in Counters,
           \A k \in CpuIds : v[k][e] =< v[k][a] + v[k][b]
    PROVE  Summed(v, e)[Cpus] =< Summed(v, a)[Cpus] + Summed(v, b)[Cpus]
<1> DEFINE S == Summed(v, e)
           A == Summed(v, a)
           B == Summed(v, b)
           T == {k \in 0 .. Cpus : S[k] =< A[k] + B[k]}
<1>1. Cpus \in Nat /\ MaxCount \in Nat
  BY MetricsAssumption
<1>2. /\ S \in [0 .. Cpus -> Nat] /\ S[0] = 0
      /\ A \in [0 .. Cpus -> Nat] /\ A[0] = 0
      /\ B \in [0 .. Cpus -> Nat] /\ B[0] = 0
  BY SummedFacts
<1>3. \A k \in CpuIds :
          /\ k - 1 \in 0 .. Cpus /\ k \in 0 .. Cpus
          /\ v[k][e] \in 0 .. MaxCount
          /\ v[k][a] \in 0 .. MaxCount /\ v[k][b] \in 0 .. MaxCount
          /\ S[k] = SaturatingAdd(S[k - 1], v[k][e])
          /\ A[k] = SaturatingAdd(A[k - 1], v[k][a])
          /\ B[k] = SaturatingAdd(B[k - 1], v[k][b])
  BY SummedFacts
<1> HIDE DEF S, A, B
<1>4. 0 \in T
  BY <1>1, <1>2
<1>5. ASSUME NEW k \in 1 .. Cpus, k - 1 \in T PROVE k \in T
  <2>1. k \in CpuIds /\ k \in 0 .. Cpus /\ S[k - 1] =< A[k - 1] + B[k - 1]
    BY <1>3, <1>5 DEF CpuIds
  <2>2. S[k - 1] \in Nat /\ A[k - 1] \in Nat /\ B[k - 1] \in Nat
    BY <1>2, <1>3, <2>1
  <2>3. /\ v[k][e] \in 0 .. MaxCount
        /\ v[k][a] \in 0 .. MaxCount /\ v[k][b] \in 0 .. MaxCount
        /\ S[k] = SaturatingAdd(S[k - 1], v[k][e])
        /\ A[k] = SaturatingAdd(A[k - 1], v[k][a])
        /\ B[k] = SaturatingAdd(B[k - 1], v[k][b])
        /\ v[k][e] =< v[k][a] + v[k][b]
    BY <1>3, <2>1
  <2>4. S[k] =< A[k] + B[k]
    BY <1>1, <2>1, <2>2, <2>3 DEF SaturatingAdd
  <2> QED BY <2>1, <2>4
<1>6. \A k \in 0 .. Cpus : k \in T
  <2> HIDE DEF T
  <2> QED BY <1>1, <1>4, <1>5, UpTo
<1> QED BY <1>1, <1>6 DEF S, A, B

\* The same with a single cause.
LEMMA SumCoversOne ==
    ASSUME NEW v \in Rows, NEW e \in Counters, NEW a \in Counters,
           \A k \in CpuIds : v[k][e] =< v[k][a]
    PROVE  Summed(v, e)[Cpus] =< Summed(v, a)[Cpus]
<1> DEFINE S == Summed(v, e)
           A == Summed(v, a)
           T == {k \in 0 .. Cpus : S[k] =< A[k]}
<1>1. Cpus \in Nat /\ MaxCount \in Nat
  BY MetricsAssumption
<1>2. /\ S \in [0 .. Cpus -> Nat] /\ S[0] = 0
      /\ A \in [0 .. Cpus -> Nat] /\ A[0] = 0
  BY SummedFacts
<1>3. \A k \in CpuIds :
          /\ k - 1 \in 0 .. Cpus /\ k \in 0 .. Cpus
          /\ v[k][e] \in 0 .. MaxCount /\ v[k][a] \in 0 .. MaxCount
          /\ S[k] = SaturatingAdd(S[k - 1], v[k][e])
          /\ A[k] = SaturatingAdd(A[k - 1], v[k][a])
  BY SummedFacts
<1> HIDE DEF S, A
<1>4. 0 \in T
  BY <1>1, <1>2
<1>5. ASSUME NEW k \in 1 .. Cpus, k - 1 \in T PROVE k \in T
  <2>1. k \in CpuIds /\ k \in 0 .. Cpus /\ S[k - 1] =< A[k - 1]
    BY <1>3, <1>5 DEF CpuIds
  <2>2. S[k - 1] \in Nat /\ A[k - 1] \in Nat
    BY <1>2, <1>3, <2>1
  <2>3. /\ v[k][e] \in 0 .. MaxCount /\ v[k][a] \in 0 .. MaxCount
        /\ S[k] = SaturatingAdd(S[k - 1], v[k][e])
        /\ A[k] = SaturatingAdd(A[k - 1], v[k][a])
        /\ v[k][e] =< v[k][a]
    BY <1>3, <2>1
  <2>4. S[k] =< A[k]
    BY <1>1, <2>1, <2>2, <2>3 DEF SaturatingAdd
  <2> QED BY <2>1, <2>4
<1>6. \A k \in 0 .. Cpus : k \in T
  <2> HIDE DEF T
  <2> QED BY <1>1, <1>4, <1>5, UpTo
<1> QED BY <1>1, <1>6 DEF S, A

\* The saturating sum is the true sum as far as it fits.
LEMMA SumIsClipped ==
    ASSUME NEW v \in Rows, NEW c \in Counters
    PROVE  Summed(v, c)[Cpus] =
               IF Exact(v, c)[Cpus] > MaxCount THEN MaxCount
               ELSE Exact(v, c)[Cpus]
<1> DEFINE S == Summed(v, c)
           E == Exact(v, c)
           T == {k \in 0 .. Cpus :
                    S[k] = IF E[k] > MaxCount THEN MaxCount ELSE E[k]}
<1>1. Cpus \in Nat /\ MaxCount \in Nat
  BY MetricsAssumption
<1>2. /\ S \in [0 .. Cpus -> Nat] /\ S[0] = 0
      /\ E \in [0 .. Cpus -> Nat] /\ E[0] = 0
  BY SummedFacts, ExactFacts
<1>3. \A k \in CpuIds :
          /\ k - 1 \in 0 .. Cpus /\ k \in 0 .. Cpus
          /\ v[k][c] \in 0 .. MaxCount
          /\ S[k] = SaturatingAdd(S[k - 1], v[k][c])
          /\ E[k] = E[k - 1] + v[k][c]
  BY SummedFacts, ExactFacts
<1> HIDE DEF S, E
<1>4. 0 \in T
  BY <1>1, <1>2
<1>5. ASSUME NEW k \in 1 .. Cpus, k - 1 \in T PROVE k \in T
  <2>1. /\ k \in CpuIds /\ k \in 0 .. Cpus
        /\ S[k - 1] = IF E[k - 1] > MaxCount THEN MaxCount ELSE E[k - 1]
    BY <1>3, <1>5 DEF CpuIds
  <2>2. S[k - 1] \in Nat /\ E[k - 1] \in Nat
    BY <1>2, <1>3, <2>1
  <2>3. /\ v[k][c] \in 0 .. MaxCount
        /\ S[k] = SaturatingAdd(S[k - 1], v[k][c])
        /\ E[k] = E[k - 1] + v[k][c]
    BY <1>3, <2>1
  <2>4. S[k] = IF E[k] > MaxCount THEN MaxCount ELSE E[k]
    BY <1>1, <2>1, <2>2, <2>3 DEF SaturatingAdd
  <2> QED BY <2>1, <2>4
<1>6. \A k \in 0 .. Cpus : k \in T
  <2> HIDE DEF T
  <2> QED BY <1>1, <1>4, <1>5, UpTo
<1> QED BY <1>1, <1>6 DEF S, E

-----------------------------------------------------------------------------
(* Rows of counters.                                                       *)

\* The six counters and their places.
LEMMA LayoutFacts ==
    /\ Counters = {"nat64_v6_to_v4_ok", "nat64_v4_to_v6_ok",
                   "nat_lookup_hit", "fwd_nat_lookup_hit",
                   "fwd_nat_insert_ok", "port_alloc_ok"}
    /\ Len(Layout) = 6
    /\ Descriptors = Layout
    /\ DOMAIN Descriptors = 1 .. 6
    /\ \A i \in 1 .. 6 : Layout[i] \in Counters /\ Place[Layout[i]] = i
    /\ \A c \in Counters : Place[c] \in 1 .. 6 /\ Layout[Place[c]] = c
<1>1. Len(Layout) = 6 /\ DOMAIN Layout = 1 .. 6
  BY DEF Layout
<1>2. Descriptors = Layout
  BY DEF Layout, Descriptors
<1>3. Counters = {Layout[i] : i \in 1 .. 6}
  BY <1>1 DEF Counters
<1>4. \A i \in 1 .. 6 : Place[Layout[i]] = i
  BY DEF Place, Layout
<1>5. Counters = {"nat64_v6_to_v4_ok", "nat64_v4_to_v6_ok",
                  "nat_lookup_hit", "fwd_nat_lookup_hit",
                  "fwd_nat_insert_ok", "port_alloc_ok"}
  <2>1. 1 .. 6 = {1, 2, 3, 4, 5, 6}
    OBVIOUS
  <2>2. Counters = {Layout[1], Layout[2], Layout[3], Layout[4], Layout[5],
                    Layout[6]}
    BY <1>3, <2>1
  <2> QED BY <2>2 DEF Layout
<1> QED BY <1>1, <1>2, <1>3, <1>4, <1>5

\* The sum of each counter fits its width.
LEMMA AggregateType ==
    ASSUME NEW v \in Rows
    PROVE  /\ Aggregate(v) \in Row
           /\ \A c \in Counters : Aggregate(v)[c] = Summed(v, c)[Cpus]
<1>1. ASSUME NEW c \in Counters PROVE Summed(v, c)[Cpus] \in 0 .. MaxCount
  <2>1. Cpus \in CpuIds
    BY MetricsAssumption DEF CpuIds
  <2>2. /\ Summed(v, c)[Cpus - 1] \in Nat /\ v[Cpus][c] \in Nat
        /\ Summed(v, c)[Cpus] =
               SaturatingAdd(Summed(v, c)[Cpus - 1], v[Cpus][c])
    BY <2>1, SummedFacts, MetricsAssumption
  <2> QED BY <2>2, SaturatingFacts
<1> QED BY <1>1 DEF Aggregate, Row

\* aggregate_prod_counters keeps the order of its arguments.
LEMMA AggregateGrows ==
    ASSUME NEW v \in Rows, NEW w \in Rows,
           \A k \in CpuIds : Below(v[k], w[k])
    PROVE  Below(Aggregate(v), Aggregate(w))
<1>1. ASSUME NEW c \in Counters
      PROVE  Summed(v, c)[Cpus] =< Summed(w, c)[Cpus]
  BY SumGrows DEF Below
<1> QED BY <1>1, AggregateType DEF Below

\* aggregate_prod_counters shows causes for effects if every CPU does.
LEMMA AggregateCovers ==
    ASSUME NEW v \in Rows, \A k \in CpuIds : Covered(v[k])
    PROVE  Covered(Aggregate(v))
<1> DEFINE S(c) == Summed(v, c)[Cpus]
<1>1. S("nat64_v4_to_v6_ok") =< S("nat_lookup_hit")
  BY SumCoversOne, LayoutFacts DEF Covered
<1>2. S("nat64_v6_to_v4_ok") =<
          S("fwd_nat_lookup_hit") + S("fwd_nat_insert_ok")
  BY SumCovers, LayoutFacts DEF Covered
<1>3. S("fwd_nat_insert_ok") =< S("port_alloc_ok")
  BY SumCoversOne, LayoutFacts DEF Covered
<1> QED BY <1>1, <1>2, <1>3, AggregateType, LayoutFacts DEF Covered

\* What there is to report is what a read that took no time would sum.
LEMMA TotalsAreSums ==
    ASSUME counters \in Rows
    PROVE  Totals = Aggregate(counters)
BY SumIsClipped DEF Totals, Aggregate

\* What a copy in progress keeps when the original grows.
LEMMA MixGrows ==
    ASSUME NEW x \in Row, NEW y \in Row, NEW z \in Row, NEW n \in Int,
           Below(y, z)
    PROVE  /\ Mix(x, y, n) \in Row
           /\ Below(Mix(x, y, n), Mix(x, z, n))
           /\ Covered(Mix(x, y, n)) /\ Covered(z) => Covered(Mix(x, z, n))
<1>1. MaxCount \in Nat
  BY MetricsAssumption
<1>2. Mix(x, y, n) \in Row /\ Mix(x, z, n) \in Row
  BY DEF Mix, Row
<1>3. Below(Mix(x, y, n), Mix(x, z, n))
  <2>1. ASSUME NEW c \in Counters PROVE Mix(x, y, n)[c] =< Mix(x, z, n)[c]
    <3>1. x[c] \in 0 .. MaxCount /\ y[c] =< z[c]
      BY DEF Row, Below
    <3> QED BY <1>1, <3>1 DEF Mix
  <2> QED BY <2>1 DEF Below
<1>4. ASSUME Covered(Mix(x, y, n)), Covered(z) PROVE Covered(Mix(x, z, n))
  <2>1. \A c \in Counters : /\ y[c] =< z[c] /\ x[c] \in Int
                            /\ y[c] \in Int /\ z[c] \in Int
    BY <1>1 DEF Below, Row
  <2>2. \A c \in Counters :
            /\ Mix(x, y, n)[c] = IF Place[c] =< n THEN x[c] ELSE y[c]
            /\ Mix(x, z, n)[c] = IF Place[c] =< n THEN x[c] ELSE z[c]
    BY DEF Mix
  <2>3. /\ Place["nat64_v6_to_v4_ok"] = 1 /\ Place["nat64_v4_to_v6_ok"] = 2
        /\ Place["nat_lookup_hit"] = 3 /\ Place["fwd_nat_lookup_hit"] = 4
        /\ Place["fwd_nat_insert_ok"] = 5 /\ Place["port_alloc_ok"] = 6
    BY DEF Place
  <2> QED BY <1>4, <2>1, <2>2, <2>3, LayoutFacts DEF Covered
<1> QED BY <1>2, <1>3, <1>4

\* A copy that has not begun is the original, one that is complete the copy.
LEMMA MixEnds ==
    ASSUME NEW x \in Row, NEW y \in Row, NEW n \in Int
    PROVE  /\ n =< 0 => Mix(x, y, n) = y
           /\ n >= 6 => Mix(x, y, n) = x
<1>1. \A c \in Counters : Place[c] \in 1 .. 6
  BY LayoutFacts
<1>2. /\ x = [c \in Counters |-> x[c]]
      /\ y = [c \in Counters |-> y[c]]
  BY DEF Row
<1>3. CASE n =< 0
  BY <1>1, <1>2, <1>3 DEF Mix
<1>4. CASE n >= 6
  BY <1>1, <1>2, <1>4 DEF Mix
<1> QED BY <1>3, <1>4

\* Copying the next counter changes nothing of the mixture.
LEMMA MixStep ==
    ASSUME NEW x \in Row, NEW y \in Row, NEW n \in 0 .. 5
    PROVE  LET c == Layout[n + 1]
           IN  Mix([x EXCEPT ![c] = y[c]], y, n + 1) = Mix(x, y, n)
<1> DEFINE c == Layout[n + 1]
           t == [x EXCEPT ![c] = y[c]]
<1>1. c \in Counters /\ Place[c] = n + 1
  BY LayoutFacts
<1>2. ASSUME NEW d \in Counters
      PROVE  (IF Place[d] =< n + 1 THEN t[d] ELSE y[d]) =
                 (IF Place[d] =< n THEN x[d] ELSE y[d])
  <2>1. CASE d = c
    BY <1>1, <2>1 DEF Row
  <2>2. CASE d # c
    <3>1. Place[d] # n + 1 /\ Place[d] \in 1 .. 6
      BY <1>1, <2>2, LayoutFacts
    <3>2. t[d] = x[d]
      BY <2>2 DEF Row
    <3> QED BY <3>1, <3>2
  <2> QED BY <2>1, <2>2
<1> HIDE DEF t, c
<1> QED BY <1>2 DEF Mix, t, c

\* What a run has yet to count.
LEMMA RestFacts ==
    /\ Rests = {<<>>,
                <<"port_alloc_ok", "fwd_nat_insert_ok", "nat64_v6_to_v4_ok">>,
                <<"fwd_nat_insert_ok", "nat64_v6_to_v4_ok">>,
                <<"nat64_v6_to_v4_ok">>,
                <<"fwd_nat_lookup_hit", "nat64_v6_to_v4_ok">>,
                <<"nat_lookup_hit", "nat64_v4_to_v6_ok">>,
                <<"nat64_v4_to_v6_ok">>}
    /\ Paths \subseteq Rests
<1> DEFINE p == <<"port_alloc_ok", "fwd_nat_insert_ok", "nat64_v6_to_v4_ok">>
           q == <<"fwd_nat_lookup_hit", "nat64_v6_to_v4_ok">>
           r == <<"nat_lookup_hit", "nat64_v4_to_v6_ok">>
<1>1. Paths = {p, q, r}
  BY DEF Paths
<1>2. /\ Tail(p) = <<"fwd_nat_insert_ok", "nat64_v6_to_v4_ok">>
      /\ Tail(q) = <<"nat64_v6_to_v4_ok">>
      /\ Tail(r) = <<"nat64_v4_to_v6_ok">>
  OBVIOUS
<1>3. /\ Tail(Tail(p)) = <<"nat64_v6_to_v4_ok">>
      /\ Tail(Tail(q)) = <<>>
      /\ Tail(Tail(r)) = <<>>
  BY <1>2
<1> HIDE DEF p, q, r
<1>4. Rests = {<<>>, p, q, r, Tail(p), Tail(q), Tail(r),
               Tail(Tail(p)), Tail(Tail(q)), Tail(Tail(r))}
  BY <1>1 DEF Rests, Tails
<1> QED BY <1>1, <1>2, <1>3, <1>4 DEF p, q, r

\* The first counter a run has yet to count, and the others.
LEMMA RestSteps ==
    ASSUME NEW r \in Rests
    PROVE  r = <<>> \/ (Head(r) \in Counters /\ Tail(r) \in Rests)
<1>1. CASE r = <<"port_alloc_ok", "fwd_nat_insert_ok", "nat64_v6_to_v4_ok">>
  <2>1. /\ Head(r) = "port_alloc_ok"
        /\ Tail(r) = <<"fwd_nat_insert_ok", "nat64_v6_to_v4_ok">>
    BY <1>1
  <2> QED BY <2>1, RestFacts, LayoutFacts
<1>2. CASE r = <<"fwd_nat_insert_ok", "nat64_v6_to_v4_ok">>
  <2>1. Head(r) = "fwd_nat_insert_ok" /\ Tail(r) = <<"nat64_v6_to_v4_ok">>
    BY <1>2
  <2> QED BY <2>1, RestFacts, LayoutFacts
<1>3. CASE r = <<"nat64_v6_to_v4_ok">>
  <2>1. Head(r) = "nat64_v6_to_v4_ok" /\ Tail(r) = <<>>
    BY <1>3
  <2> QED BY <2>1, RestFacts, LayoutFacts
<1>4. CASE r = <<"fwd_nat_lookup_hit", "nat64_v6_to_v4_ok">>
  <2>1. Head(r) = "fwd_nat_lookup_hit" /\ Tail(r) = <<"nat64_v6_to_v4_ok">>
    BY <1>4
  <2> QED BY <2>1, RestFacts, LayoutFacts
<1>5. CASE r = <<"nat_lookup_hit", "nat64_v4_to_v6_ok">>
  <2>1. Head(r) = "nat_lookup_hit" /\ Tail(r) = <<"nat64_v4_to_v6_ok">>
    BY <1>5
  <2> QED BY <2>1, RestFacts, LayoutFacts
<1>6. CASE r = <<"nat64_v4_to_v6_ok">>
  <2>1. Head(r) = "nat64_v4_to_v6_ok" /\ Tail(r) = <<>>
    BY <1>6
  <2> QED BY <2>1, RestFacts, LayoutFacts
<1> QED BY <1>1, <1>2, <1>3, <1>4, <1>5, <1>6, RestFacts

\* Order of rows.
LEMMA BelowTransitive ==
    ASSUME NEW u \in Row, NEW v \in Row, NEW w \in Row,
           Below(u, v), Below(v, w)
    PROVE  Below(u, w)
<1>1. \A c \in Counters : u[c] \in Nat /\ v[c] \in Nat /\ w[c] \in Nat
  BY MetricsAssumption DEF Row
<1> QED BY <1>1 DEF Below

LEMMA BelowReflexive ==
    ASSUME NEW v \in Row
    PROVE  Below(v, v) /\ Below(Zeros, v) /\ Zeros \in Row /\ Covered(Zeros)
<1>1. MaxCount \in Nat /\ \A c \in Counters : v[c] \in Nat
  BY MetricsAssumption DEF Row
<1> QED BY <1>1, LayoutFacts DEF Below, Row, Zeros, Covered

-----------------------------------------------------------------------------
(* Types.                                                                  *)

\* The types of the variables, in the words of this module.
LEMMA TypeFacts ==
    ASSUME TypeOK
    PROVE  /\ counters \in Rows /\ buffer \in Rows /\ Seen \in Rows
           /\ \A k \in CpuIds :
                  /\ counters[k] \in Row /\ buffer[k] \in Row
                  /\ pos - (k - 1) * 6 \in Int
                  /\ Seen[k] = Mix(buffer[k], counters[k], pos - (k - 1) * 6)
           /\ published \in Row /\ reported \in Row /\ started \in Row
           /\ Shown \in Row /\ exporting \in 0 .. 7 /\ exporting - 1 \in Int
           /\ pos \in Nat /\ Fields = Cpus * 6 /\ Cpus \in Nat
           /\ Totals = Aggregate(counters) /\ Totals \in Row
<1>1. /\ counters \in Rows /\ buffer \in Rows /\ published \in Row
      /\ reported \in Row /\ started \in Row
  BY DEF TypeOK, Rows, Row
<1>2. \A k \in CpuIds : counters[k] \in Row /\ buffer[k] \in Row /\ k \in Int
  BY <1>1 DEF Rows, CpuIds
<1>3. Cpus \in Nat /\ Fields = Cpus * 6 /\ pos \in 0 .. Fields
  BY LayoutFacts, MetricsAssumption DEF TypeOK, Fields
<1>4. pos \in Nat /\ exporting \in 0 .. 7
  BY <1>3, LayoutFacts DEF TypeOK
<1>5. \A k \in CpuIds : pos - (k - 1) * 6 \in Int
  BY <1>2, <1>4
<1>6. \A x, y \in Row, n \in Int : Mix(x, y, n) \in Row
  <2>1. \A y \in Row : Below(y, y)
    BY BelowReflexive
  <2> QED BY <2>1, MixGrows
<1>7. exporting - 1 \in Int /\ Shown \in Row
  BY <1>1, <1>4, <1>6 DEF Shown
<1>8. Seen \in Rows
  BY <1>2, <1>5, <1>6 DEF Seen, Rows
<1>9. Totals = Aggregate(counters) /\ Totals \in Row
  BY <1>1, TotalsAreSums, AggregateType
<1> QED BY <1>1, <1>2, <1>3, <1>4, <1>5, <1>7, <1>8, <1>9 DEF Seen

\* Counter, counter by counter, what a CPU counts.
LEMMA CountEffect ==
    ASSUME TypeOK, NEW cpu \in CpuIds, Count(cpu)
    PROVE  /\ run[cpu] \in Rests /\ run[cpu] # <<>>
           /\ Head(run[cpu]) \in Counters /\ Tail(run[cpu]) \in Rests
           /\ counters' \in Rows
           /\ run' = [run EXCEPT ![cpu] = Tail(run[cpu])]
           /\ \A k \in CpuIds \ {cpu} : counters'[k] = counters[k]
           /\ \A c \in Counters : counters'[cpu][c] =
                  IF c = Head(run[cpu]) THEN SaturatingAdd(counters[cpu][c], 1)
                  ELSE counters[cpu][c]
<1>1. counters \in Rows /\ counters[cpu] \in Row
  BY TypeFacts
<1>2. run[cpu] \in Rests /\ run[cpu] # <<>>
  BY DEF TypeOK, Count
<1>3. Head(run[cpu]) \in Counters /\ Tail(run[cpu]) \in Rests
  BY <1>2, RestSteps
<1> DEFINE h == Head(run[cpu])
           new == SaturatingAdd(counters[cpu][h], 1)
<1>4. counters' = [counters EXCEPT ![cpu] = [counters[cpu] EXCEPT ![h] = new]]
      /\ run' = [run EXCEPT ![cpu] = Tail(run[cpu])]
  BY DEF Count
<1>5. new \in 0 .. MaxCount
  <2>1. counters[cpu][h] \in Nat
    BY <1>1, <1>3, MetricsAssumption DEF Row
  <2> QED BY <2>1, SaturatingFacts
<1> HIDE DEF new, h
<1>6. counters' \in Rows
  <2>1. [counters[cpu] EXCEPT ![h] = new] \in Row
    BY <1>1, <1>5 DEF Row
  <2> QED BY <1>1, <1>4, <2>1 DEF Rows
<1>7. counters'[cpu] = [counters[cpu] EXCEPT ![h] = new]
  BY <1>1, <1>4 DEF Rows
<1>8. \A c \in Counters :
          counters'[cpu][c] = IF c = h THEN new ELSE counters[cpu][c]
  BY <1>1, <1>7 DEF Row
<1>9. \A k \in CpuIds \ {cpu} : counters'[k] = counters[k]
  BY <1>1, <1>4 DEF Rows
<1> QED BY <1>2, <1>3, <1>4, <1>6, <1>8, <1>9 DEF new, h

\* Where the next value is copied from and to.
LEMMA CopyEffect ==
    ASSUME TypeOK, Copy
    PROVE  \E cpu \in CpuIds, n \in 0 .. 5 :
               /\ pos = (cpu - 1) * 6 + n /\ pos' = pos + 1
               /\ pos' \in 0 .. Fields
               /\ buffer' = [buffer EXCEPT ![cpu] =
                      [buffer[cpu] EXCEPT ![Layout[n + 1]] =
                                              counters[cpu][Layout[n + 1]]]]
               /\ Layout[n + 1] \in Counters
               /\ buffer' \in Rows
               /\ UNCHANGED <<counters, run, runs, pc, published, exporting,
                              reported, started>>
<1> DEFINE cpu == (pos \div 6) + 1
           n == pos % 6
           c == Layout[n + 1]
<1>1. pos \in Nat /\ pos < Cpus * 6 /\ Cpus \in Nat /\ pos' = pos + 1
  BY TypeFacts DEF Copy
<1>2. cpu \in CpuIds /\ n \in 0 .. 5 /\ pos = (cpu - 1) * 6 + n
  BY <1>1 DEF CpuIds
<1>3. buffer' = [buffer EXCEPT ![cpu] =
                     [buffer[cpu] EXCEPT ![c] = counters[cpu][c]]]
  BY LayoutFacts DEF Copy
<1> HIDE DEF cpu, n
<1>4. c \in Counters
  BY <1>2, LayoutFacts
<1>5. buffer \in Rows /\ buffer[cpu] \in Row /\ counters[cpu] \in Row
  BY <1>2, TypeFacts
<1> HIDE DEF c
<1>6. [buffer[cpu] EXCEPT ![c] = counters[cpu][c]] \in Row
  BY <1>4, <1>5 DEF Row
<1>7. buffer' \in Rows
  BY <1>3, <1>5, <1>6 DEF Rows
<1>8. pos' \in 0 .. Fields
  BY <1>1, TypeFacts
<1>9. UNCHANGED <<counters, run, runs, pc, published, exporting, reported,
                  started>>
  BY DEF Copy
<1> QED BY <1>1, <1>2, <1>3, <1>4, <1>7, <1>8, <1>9 DEF c

LEMMA TypeInit == Init => TypeOK
<1> SUFFICES ASSUME Init PROVE TypeOK
  OBVIOUS
<1>1. Zeros \in [Counters -> 0 .. MaxCount]
  BY MetricsAssumption DEF Zeros
<1>2. 0 \in 0 .. Fields /\ 0 \in 0 .. MaxRuns /\ 0 \in 0 .. Len(Layout) + 1
  BY LayoutFacts, MetricsAssumption DEF Fields
<1>3. run \in [CpuIds -> Rests]
  BY RestFacts DEF Init
<1>4. counters \in Rows
  BY EarlierAssumption DEF Init, Rows, Row, CpuIds
<1>5. started \in Row
  BY <1>4, TotalsAreSums, AggregateType DEF Init
<1> QED BY <1>1, <1>2, <1>3, <1>4, <1>5 DEF Init, TypeOK, Rows, Row

LEMMA TypeStep == TypeOK /\ [Next]_vars => TypeOK'
<1> SUFFICES ASSUME TypeOK, [Next]_vars PROVE TypeOK'
  OBVIOUS
<1>1. Zeros \in [Counters -> 0 .. MaxCount]
  BY MetricsAssumption DEF Zeros
<1>2. ASSUME NEW cpu \in CpuIds, NEW path \in Paths, Begin(cpu, path)
      PROVE  TypeOK'
  <2>1. path \in Rests
    BY RestFacts
  <2>2. runs' \in 0 .. MaxRuns
    BY <1>2, MetricsAssumption DEF Begin, TypeOK
  <2> QED BY <1>2, <2>1, <2>2 DEF Begin, TypeOK
<1>3. ASSUME NEW cpu \in CpuIds, Count(cpu) PROVE TypeOK'
  <2>1. counters' \in [CpuIds -> [Counters -> 0 .. MaxCount]]
    BY <1>3, CountEffect DEF Rows, Row
  <2>2. run' \in [CpuIds -> Rests]
    BY <1>3, CountEffect DEF TypeOK
  <2> QED BY <1>3, <2>1, <2>2 DEF Count, TypeOK
<1>4. ASSUME NEW cpu \in CpuIds, Leave(cpu) PROVE TypeOK'
  BY <1>4, RestFacts DEF Leave, TypeOK
<1>5. ASSUME Copy PROVE TypeOK'
  <2>1. buffer' \in [CpuIds -> [Counters -> 0 .. MaxCount]]
    BY <1>5, CopyEffect DEF Rows, Row
  <2>2. pos' \in 0 .. Fields
    BY <1>5, CopyEffect
  <2> QED BY <1>5, <2>1, <2>2 DEF Copy, TypeOK
<1>6. ASSUME Publish PROVE TypeOK'
  <2>1. published' \in [Counters -> 0 .. MaxCount]
    BY <1>6, TypeFacts, AggregateType DEF Publish, Row
  <2>2. pos' \in 0 .. Fields
    BY <1>6, TypeFacts DEF Publish
  <2>3. pc' \in {"stopping", "idle"}
        /\ started' \in [Counters -> 0 .. MaxCount]
    BY <1>1, <1>6 DEF Publish, TypeOK
  <2> QED BY <1>1, <1>6, <2>1, <2>2, <2>3 DEF Publish, TypeOK
<1>7. ASSUME ReadFails PROVE TypeOK'
  <2>1. pc' \in {"failed", "idle"}
    BY <1>7 DEF ReadFails
  <2> QED BY <1>1, <1>7, <2>1 DEF ReadFails, TypeOK
<1>8. ASSUME Poll \/ Interrupt PROVE TypeOK'
  <2>1. Totals \in [Counters -> 0 .. MaxCount]
    BY TypeFacts DEF Row
  <2> QED BY <1>8, <2>1 DEF Poll, Interrupt, TypeOK
<1>9. ASSUME BeginExport PROVE TypeOK'
  <2>1. exporting' \in 0 .. Len(Layout) + 1
    BY <1>9, LayoutFacts DEF BeginExport
  <2>2. pc' \in {"idle", "poll", "final", "last"}
    BY <1>9 DEF BeginExport
  <2> QED BY <1>9, <2>1, <2>2 DEF BeginExport, TypeOK
<1>10. ASSUME Observe PROVE TypeOK'
  <2>1. exporting \in 1 .. 6 /\ exporting' \in 0 .. Len(Layout) + 1
    BY <1>10, LayoutFacts DEF Observe
  <2>2. reported' \in [Counters -> 0 .. MaxCount]
    BY <1>10, <2>1, LayoutFacts DEF Observe, TypeOK
  <2> QED BY <1>10, <2>1, <2>2 DEF Observe, TypeOK
<1>11. ASSUME EndExport PROVE TypeOK'
  <2>1. exporting' \in 0 .. Len(Layout) + 1
    BY <1>11, LayoutFacts DEF EndExport
  <2>2. pc' = "done" \/ pc' = pc
    BY <1>11 DEF EndExport
  <2> QED BY <1>11, <2>1, <2>2 DEF EndExport, TypeOK
<1>12. CASE UNCHANGED vars
  BY <1>12 DEF vars, TypeOK
<1> QED BY <1>2, <1>3, <1>4, <1>5, <1>6, <1>7, <1>8, <1>9, <1>10, <1>11,
          <1>12 DEF Next

\* Counters, copies and what is reported fit their widths, for any number of
\* CPUs and runs.
THEOREM TypeCorrect == Spec => []TypeOK
BY TypeInit, TypeStep, PTL DEF Spec

-----------------------------------------------------------------------------
(* Causes are counted first.                                               *)

LEMMA CausedInit == Init => Caused
<1> SUFFICES ASSUME Init PROVE Caused
  OBVIOUS
<1>1. ASSUME NEW k \in CpuIds
      PROVE  Covered(counters[k]) /\ Owed(run[k], counters[k])
  <2>1. counters[k] = Earlier[k] /\ run[k] = <<>>
    BY DEF Init
  <2>2. Covered(Earlier[k])
    BY EarlierAssumption DEF CpuIds
  <2> QED BY <2>1, <2>2 DEF Owed
<1> QED BY <1>1 DEF Caused

\* A run that counts an effect has counted a cause before.
LEMMA CountCaused ==
    ASSUME TypeOK, Caused, NEW cpu \in CpuIds, Count(cpu)
    PROVE  /\ Caused'
           /\ \A k \in CpuIds : Below(counters[k], counters'[k])
<1> DEFINE v == counters[cpu]
           w == counters'[cpu]
           r == run[cpu]
<1>1. MaxCount \in Nat
  BY MetricsAssumption
<1>2. /\ r \in Rests /\ r # <<>> /\ run' \in [CpuIds -> Rests]
      /\ run'[cpu] = Tail(r) /\ \A k \in CpuIds \ {cpu} : run'[k] = run[k]
  BY CountEffect DEF TypeOK
<1>3. \A k \in CpuIds \ {cpu} : counters'[k] = counters[k]
  BY CountEffect
<1>4. \A c \in Counters :
          w[c] = IF c = Head(r) THEN SaturatingAdd(v[c], 1) ELSE v[c]
  BY CountEffect
<1>5. Covered(v) /\ Owed(r, v)
  BY DEF Caused
<1>6. v \in Row /\ counters \in Rows
  BY TypeFacts
<1>7. \A c \in Counters : v[c] \in 0 .. MaxCount
  BY <1>6 DEF Row
<1> HIDE DEF v, w, r
<1>8. \A c \in Counters :
          w[c] = IF c = Head(r)
                 THEN IF v[c] + 1 > MaxCount THEN MaxCount ELSE v[c] + 1
                 ELSE v[c]
  BY <1>4 DEF SaturatingAdd
<1>9. Below(v, w)
  BY <1>1, <1>7, <1>8 DEF Below
<1> DEFINE One(n) == IF n + 1 > MaxCount THEN MaxCount ELSE n + 1
           S4 == "nat64_v6_to_v4_ok"
           H4 == "fwd_nat_lookup_hit"
           I4 == "fwd_nat_insert_ok"
<1>a. /\ v[S4] \in 0 .. MaxCount /\ v[H4] \in 0 .. MaxCount
      /\ v[I4] \in 0 .. MaxCount /\ v["port_alloc_ok"] \in 0 .. MaxCount
      /\ w[S4] = IF Head(r) = S4 THEN One(v[S4]) ELSE v[S4]
      /\ w[H4] = IF Head(r) = H4 THEN One(v[H4]) ELSE v[H4]
      /\ w[I4] = IF Head(r) = I4 THEN One(v[I4]) ELSE v[I4]
      /\ w["port_alloc_ok"] = IF Head(r) = "port_alloc_ok"
                              THEN One(v["port_alloc_ok"])
                              ELSE v["port_alloc_ok"]
  BY <1>7, <1>8, LayoutFacts
<1>b. Head(r) \notin {"nat_lookup_hit", "nat64_v4_to_v6_ok"} =>
          /\ w["nat_lookup_hit"] = v["nat_lookup_hit"]
          /\ w["nat64_v4_to_v6_ok"] = v["nat64_v4_to_v6_ok"]
  BY <1>8, LayoutFacts
<1>10. Covered(w) /\ Owed(Tail(r), w)
  <2>1. CASE r = <<"port_alloc_ok", "fwd_nat_insert_ok",
                   "nat64_v6_to_v4_ok">>
    <3>1. /\ Head(r) = "port_alloc_ok"
          /\ Tail(r) = <<"fwd_nat_insert_ok", "nat64_v6_to_v4_ok">>
      BY <2>1
    <3>2. Covered(w) /\ (w["fwd_nat_insert_ok"] < w["port_alloc_ok"]
                         \/ w["port_alloc_ok"] = MaxCount)
      BY <1>1, <1>5, <1>7, <1>8, <3>1, LayoutFacts DEF Covered
    <3> QED BY <3>1, <3>2 DEF Owed
  <2>2. CASE r = <<"fwd_nat_insert_ok", "nat64_v6_to_v4_ok">>
    <3>1. /\ Head(r) = "fwd_nat_insert_ok"
          /\ Tail(r) = <<"nat64_v6_to_v4_ok">>
      BY <2>2
    <3>2. v["fwd_nat_insert_ok"] < v["port_alloc_ok"]
          \/ v["port_alloc_ok"] = MaxCount
      BY <1>5, <2>2 DEF Owed
    <3>3. /\ Covered(w)
          /\ \/ w["nat64_v6_to_v4_ok"] <
                    w["fwd_nat_lookup_hit"] + w["fwd_nat_insert_ok"]
             \/ w["fwd_nat_lookup_hit"] + w["fwd_nat_insert_ok"] >= MaxCount
      BY <1>1, <1>5, <1>a, <1>b, <3>1, <3>2 DEF Covered
    <3> QED BY <3>1, <3>3 DEF Owed
  <2>3. CASE r = <<"nat64_v6_to_v4_ok">>
    <3>1. Head(r) = "nat64_v6_to_v4_ok" /\ Tail(r) = <<>>
      BY <2>3
    <3>2. \/ v["nat64_v6_to_v4_ok"] <
                 v["fwd_nat_lookup_hit"] + v["fwd_nat_insert_ok"]
          \/ v["fwd_nat_lookup_hit"] + v["fwd_nat_insert_ok"] >= MaxCount
      BY <1>5, <2>3 DEF Owed
    <3>3. Covered(w)
      BY <1>1, <1>5, <1>a, <1>b, <3>1, <3>2 DEF Covered
    <3> QED BY <3>1, <3>3 DEF Owed
  <2>4. CASE r = <<"fwd_nat_lookup_hit", "nat64_v6_to_v4_ok">>
    <3>1. /\ Head(r) = "fwd_nat_lookup_hit"
          /\ Tail(r) = <<"nat64_v6_to_v4_ok">>
      BY <2>4
    <3>2. /\ Covered(w)
          /\ \/ w["nat64_v6_to_v4_ok"] <
                    w["fwd_nat_lookup_hit"] + w["fwd_nat_insert_ok"]
             \/ w["fwd_nat_lookup_hit"] + w["fwd_nat_insert_ok"] >= MaxCount
      BY <1>1, <1>5, <1>a, <1>b, <3>1 DEF Covered
    <3> QED BY <3>1, <3>2 DEF Owed
  <2>5. CASE r = <<"nat_lookup_hit", "nat64_v4_to_v6_ok">>
    <3>1. Head(r) = "nat_lookup_hit" /\ Tail(r) = <<"nat64_v4_to_v6_ok">>
      BY <2>5
    <3>2. Covered(w) /\ (w["nat64_v4_to_v6_ok"] < w["nat_lookup_hit"]
                         \/ w["nat_lookup_hit"] = MaxCount)
      BY <1>1, <1>5, <1>7, <1>8, <3>1, LayoutFacts DEF Covered
    <3> QED BY <3>1, <3>2 DEF Owed
  <2>6. CASE r = <<"nat64_v4_to_v6_ok">>
    <3>1. Head(r) = "nat64_v4_to_v6_ok" /\ Tail(r) = <<>>
      BY <2>6
    <3>2. v["nat64_v4_to_v6_ok"] < v["nat_lookup_hit"]
          \/ v["nat_lookup_hit"] = MaxCount
      BY <1>5, <2>6 DEF Owed
    <3>3. Covered(w)
      BY <1>1, <1>5, <1>7, <1>8, <3>1, <3>2, LayoutFacts DEF Covered
    <3> QED BY <3>1, <3>3 DEF Owed
  <2> QED BY <1>2, <2>1, <2>2, <2>3, <2>4, <2>5, <2>6, RestFacts
<1>11. ASSUME NEW k \in CpuIds
       PROVE  /\ Covered(counters'[k]) /\ Owed(run'[k], counters'[k])
              /\ Below(counters[k], counters'[k])
  <2>1. CASE k = cpu
    BY <1>2, <1>9, <1>10, <2>1 DEF v, w, r
  <2>2. CASE k # cpu
    <3>1. counters'[k] = counters[k] /\ run'[k] = run[k]
      BY <1>2, <1>3, <2>2
    <3>2. Below(counters[k], counters[k])
      BY TypeFacts, BelowReflexive
    <3> QED BY <3>1, <3>2 DEF Caused
  <2> QED BY <2>1, <2>2
<1> QED BY <1>11 DEF Caused

LEMMA CausedStep == TypeOK /\ Caused /\ [Next]_vars => Caused'
<1> SUFFICES ASSUME TypeOK, Caused, [Next]_vars PROVE Caused'
  OBVIOUS
<1>1. ASSUME NEW cpu \in CpuIds, NEW path \in Paths, Begin(cpu, path)
      PROVE  Caused'
  <2>1. ASSUME NEW k \in CpuIds
        PROVE  Covered(counters'[k]) /\ Owed(run'[k], counters'[k])
    <3>1. counters'[k] = counters[k]
          /\ (run'[k] = run[k] \/ run'[k] = path)
      BY <1>1 DEF Begin, TypeOK
    <3>2. Owed(path, counters[k])
      BY DEF Paths, Owed
    <3> QED BY <3>1, <3>2 DEF Caused
  <2> QED BY <2>1 DEF Caused
<1>2. ASSUME NEW cpu \in CpuIds, Leave(cpu) PROVE Caused'
  <2>1. ASSUME NEW k \in CpuIds
        PROVE  Covered(counters'[k]) /\ Owed(run'[k], counters'[k])
    <3>1. counters'[k] = counters[k]
          /\ (run'[k] = run[k] \/ run'[k] = <<>>)
      BY <1>2 DEF Leave, TypeOK
    <3>2. Owed(<<>>, counters[k])
      BY DEF Owed
    <3> QED BY <3>1, <3>2 DEF Caused
  <2> QED BY <2>1 DEF Caused
<1>3. CASE Copy \/ Publish \/ ReadFails \/ Poll \/ Interrupt \/ BeginExport
           \/ Observe \/ EndExport \/ UNCHANGED vars
  <2>1. UNCHANGED <<counters, run>>
    BY <1>3 DEF Copy, Publish, ReadFails, Poll, Interrupt, BeginExport,
                Observe, EndExport, vars
  <2> QED BY <2>1 DEF Caused
<1> QED BY <1>1, <1>2, <1>3, CountCaused DEF Next

-----------------------------------------------------------------------------
(* Reads, snapshots and exports.                                           *)

LEMMA MetricsInit == Init => MetricsInv
<1> SUFFICES ASSUME Init PROVE MetricsInv
  OBVIOUS
<1>1. TypeOK /\ Caused
  BY TypeInit, CausedInit
<1>2. Zeros \in Row /\ Covered(Zeros) /\ Below(Zeros, Zeros)
  BY <1>1, TypeFacts, BelowReflexive
<1>3. /\ buffer = [k \in CpuIds |-> Zeros] /\ pos = 0
      /\ started = Totals /\ published = Zeros /\ reported = Zeros
      /\ pc = "first" /\ exporting = 0
  BY DEF Init
<1>4. ASSUME NEW k \in CpuIds
      PROVE  Seen[k] = counters[k] /\ Below(buffer[k], counters[k])
  <2>1. buffer[k] = Zeros /\ counters[k] \in Row
    BY <1>1, <1>3, TypeFacts
  <2>2. pos - (k - 1) * 6 \in Int /\ pos - (k - 1) * 6 =< 0
    BY <1>3 DEF CpuIds
  <2> QED BY <1>1, <2>1, <2>2, TypeFacts, MixEnds, BelowReflexive
<1>5. Seen = counters
  BY <1>1, <1>4, TypeFacts DEF Rows
<1>6. Reads
  BY <1>1, <1>3, <1>4, <1>5 DEF Reads, Reading, Caused
<1>7. Follows
  <2>1. /\ Totals = Aggregate(Seen) /\ Totals \in Row
    BY <1>1, <1>5, TypeFacts
  <2>2. Below(Zeros, Totals) /\ Below(Totals, Totals)
    BY <2>1, BelowReflexive
  <2> QED BY <1>2, <1>3, <2>1, <2>2 DEF Follows
<1> QED BY <1>1, <1>2, <1>3, <1>6, <1>7 DEF MetricsInv, Explained, Final

\* A counter that grows during a read or an export disturbs neither.
LEMMA CountKeeps ==
    ASSUME MetricsInv, TypeOK', NEW cpu \in CpuIds, Count(cpu)
    PROVE  MetricsInv'
<1>1. /\ Caused' /\ counters' \in Rows
      /\ \A k \in CpuIds : Below(counters[k], counters'[k])
  BY CountCaused, CountEffect DEF MetricsInv
<1>2. UNCHANGED <<pc, pos, buffer, published, exporting, reported, started>>
  BY DEF Count
<1>3. /\ counters \in Rows /\ Seen \in Rows /\ published \in Row
      /\ started \in Row /\ Totals = Aggregate(counters) /\ Totals \in Row
  BY TypeFacts DEF MetricsInv
<1>4. Totals' = Aggregate(counters') /\ Aggregate(counters') \in Row
  <2>1. Totals' = [c \in Counters |->
                      IF Exact(counters', c)[Cpus] > MaxCount THEN MaxCount
                      ELSE Exact(counters', c)[Cpus]]
    BY DEF Totals
  <2> QED BY <1>1, <2>1, SumIsClipped, AggregateType DEF Aggregate
<1>5. ASSUME NEW k \in CpuIds
      PROVE  /\ Seen'[k] \in Row /\ Covered(Seen'[k])
             /\ Below(Seen[k], Seen'[k])
             /\ Below(buffer[k], counters'[k])
  <2>1. /\ counters[k] \in Row /\ buffer[k] \in Row /\ counters'[k] \in Row
        /\ pos - (k - 1) * 6 \in Int
        /\ Seen[k] = Mix(buffer[k], counters[k], pos - (k - 1) * 6)
    BY <1>1, TypeFacts DEF MetricsInv, Rows
  <2>2. Seen'[k] = Mix(buffer[k], counters'[k], pos - (k - 1) * 6)
    BY <1>2 DEF Seen
  <2>3. Covered(Seen[k]) /\ Covered(counters'[k])
        /\ Below(counters[k], counters'[k]) /\ Below(buffer[k], counters[k])
    BY <1>1 DEF MetricsInv, Reads, Caused
  <2>4. Covered(Seen'[k]) /\ Below(Seen[k], Seen'[k])
    BY <2>1, <2>2, <2>3, MixGrows
  <2>5. Seen'[k] \in Row
    <3>1. Below(counters'[k], counters'[k])
      BY <2>1, BelowReflexive
    <3> QED BY <2>1, <2>2, <3>1, MixGrows
  <2>6. Below(buffer[k], counters'[k])
    BY <2>1, <2>3, BelowTransitive
  <2> QED BY <2>4, <2>5, <2>6
<1>6. Seen' \in Rows
  <2>1. Seen' = [k \in CpuIds |-> Seen'[k]]
    BY DEF Seen
  <2> QED BY <1>5, <2>1 DEF Rows
<1>7. Reads'
  BY <1>2, <1>5 DEF MetricsInv, Reads, Reading
<1>8. Below(Totals, Totals') /\ Below(Aggregate(Seen), Aggregate(Seen'))
  BY <1>1, <1>3, <1>4, <1>5, <1>6, AggregateGrows
<1>9. Follows'
  <2>1. Below(published, Totals')
    BY <1>3, <1>4, <1>8, BelowTransitive DEF MetricsInv, Follows
  <2>2. ASSUME Reading
        PROVE  Below(published, started) /\ Below(started, Aggregate(Seen'))
    <3>1. Below(published, started) /\ Below(started, Aggregate(Seen))
      BY <2>2 DEF MetricsInv, Follows
    <3> QED BY <1>3, <1>6, <1>8, <3>1, AggregateType, BelowTransitive
  <2> QED BY <1>2, <2>1, <2>2 DEF MetricsInv, Follows, Reading
<1>10. Explained' /\ Final'
  BY <1>2 DEF MetricsInv, Explained, Final, Shown
<1> QED BY <1>1, <1>7, <1>9, <1>10 DEF MetricsInv

\* What a read has copied and what it has yet to copy stay the same when it
\* copies one value more.
LEMMA CopyKeeps ==
    ASSUME MetricsInv, TypeOK', Copy
    PROVE  MetricsInv'
<1>1. PICK cpu \in CpuIds, n \in 0 .. 5 :
          /\ pos = (cpu - 1) * 6 + n /\ pos' = pos + 1
          /\ buffer' = [buffer EXCEPT ![cpu] =
                 [buffer[cpu] EXCEPT ![Layout[n + 1]] =
                                         counters[cpu][Layout[n + 1]]]]
          /\ Layout[n + 1] \in Counters /\ buffer' \in Rows
          /\ UNCHANGED <<counters, run, runs, pc, published, exporting,
                         reported, started>>
  BY CopyEffect DEF MetricsInv
<1> DEFINE c == Layout[n + 1]
<1>2. /\ buffer \in Rows /\ counters \in Rows /\ pos \in Nat
      /\ buffer[cpu] \in Row /\ counters[cpu] \in Row
  BY TypeFacts DEF MetricsInv
<1>3. /\ buffer'[cpu] = [buffer[cpu] EXCEPT ![c] = counters[cpu][c]]
      /\ \A k \in CpuIds \ {cpu} : buffer'[k] = buffer[k]
  BY <1>1, <1>2 DEF Rows
<1>4. ASSUME NEW k \in CpuIds
      PROVE  Seen'[k] = Seen[k] /\ Below(buffer'[k], counters[k])
  <2>1. /\ Seen[k] = Mix(buffer[k], counters[k], pos - (k - 1) * 6)
        /\ Seen'[k] = Mix(buffer'[k], counters[k], (pos + 1) - (k - 1) * 6)
    <3>1. Seen'[k] = Mix(buffer'[k], counters'[k], pos' - (k - 1) * 6)
      BY DEF Seen
    <3>2. pos' = pos + 1 /\ counters' = counters
      BY <1>1
    <3>3. Seen'[k] = Mix(buffer'[k], counters[k], (pos + 1) - (k - 1) * 6)
      BY <3>1, <3>2
    <3>4. Seen[k] = Mix(buffer[k], counters[k], pos - (k - 1) * 6)
      BY DEF Seen
    <3> QED BY <3>3, <3>4
  <2>2. /\ buffer[k] \in Row /\ counters[k] \in Row /\ buffer'[k] \in Row
        /\ k \in Int /\ cpu \in Int
        /\ Below(buffer[k], counters[k])
    BY <1>1, TypeFacts DEF MetricsInv, Reads, Rows, CpuIds
  <2>3. CASE k = cpu
    <3>1. pos - (k - 1) * 6 = n /\ (pos + 1) - (k - 1) * 6 = n + 1
      BY <1>1, <2>2, <2>3
    <3>2. Seen'[k] = Seen[k]
      <4>1. Mix([buffer[cpu] EXCEPT ![c] = counters[cpu][c]],
                counters[cpu], n + 1) = Mix(buffer[cpu], counters[cpu], n)
        BY <1>2, MixStep
      <4> HIDE DEF c
      <4> QED BY <1>3, <2>1, <2>3, <3>1, <4>1
    <3>3. ASSUME NEW d \in Counters PROVE buffer'[k][d] =< counters[k][d]
      <4>1. counters[k][d] \in Nat
        BY <2>2, MetricsAssumption DEF Row
      <4>2. buffer'[k][d] = counters[k][d] \/ buffer'[k][d] = buffer[k][d]
        BY <1>3, <2>2, <2>3 DEF Row
      <4> QED BY <2>2, <4>1, <4>2 DEF Below
    <3> QED BY <3>2, <3>3 DEF Below
  <2>4. CASE k # cpu
    <3>1. buffer'[k] = buffer[k]
      BY <1>3, <2>4
    <3>2. \/ pos - (k - 1) * 6 =< 0 /\ (pos + 1) - (k - 1) * 6 =< 0
          \/ pos - (k - 1) * 6 >= 6 /\ (pos + 1) - (k - 1) * 6 >= 6
      <4>1. CASE k >= cpu + 1
        BY <1>1, <2>2, <4>1
      <4>2. CASE k =< cpu - 1
        BY <1>1, <2>2, <4>2
      <4> QED BY <2>2, <2>4, <4>1, <4>2
    <3>3. pos - (k - 1) * 6 \in Int /\ (pos + 1) - (k - 1) * 6 \in Int
      BY <1>2, <2>2
    <3>4. Seen'[k] = Seen[k]
      BY <2>1, <2>2, <3>1, <3>2, <3>3, MixEnds
    <3> QED BY <2>2, <3>1, <3>4
  <2> QED BY <2>3, <2>4
<1>5. Seen' = Seen
  <2>1. /\ Seen = [k \in CpuIds |-> Seen[k]]
        /\ Seen' = [k \in CpuIds |-> Seen'[k]]
    BY DEF Seen
  <2> QED BY <1>4, <2>1
<1>6. Caused' /\ Totals' = Totals
  BY <1>1 DEF MetricsInv, Caused, Totals
<1>7. Reads'
  BY <1>1, <1>4 DEF MetricsInv, Reads, Reading, Copy
<1>8. Follows'
  BY <1>1, <1>5, <1>6 DEF MetricsInv, Follows, Reading
<1>9. Explained' /\ Final'
  BY <1>1 DEF MetricsInv, Explained, Final, Shown
<1> QED BY <1>6, <1>7, <1>8, <1>9 DEF MetricsInv

\* A snapshot lies between what there was to report when its read began and
\* what there is now, and not below the one before.
LEMMA PublishEffect ==
    ASSUME MetricsInv, Publish
    PROVE  /\ published' \in Row /\ Covered(published')
           /\ Below(started, published') /\ Below(published', Totals)
           /\ Below(published, published')
<1>1. /\ buffer \in Rows /\ counters \in Rows /\ started \in Row
      /\ published \in Row /\ Totals = Aggregate(counters)
      /\ Fields = Cpus * 6 /\ Cpus \in Nat /\ Seen \in Rows
  BY TypeFacts DEF MetricsInv
<1>2. Reading /\ pos = Cpus * 6 /\ published' = Aggregate(buffer)
  BY <1>1 DEF Publish
<1>3. Seen = buffer
  <2>1. ASSUME NEW k \in CpuIds PROVE Seen[k] = buffer[k]
    <3>1. pos - (k - 1) * 6 \in Int /\ pos - (k - 1) * 6 >= 6
      BY <1>1, <1>2 DEF CpuIds
    <3> QED BY <3>1, TypeFacts, MixEnds DEF MetricsInv
  <2> QED BY <1>1, <2>1 DEF Rows
<1>4. published' \in Row
  BY <1>1, <1>2, AggregateType
<1>5. Covered(published')
  BY <1>1, <1>2, <1>3, AggregateCovers DEF MetricsInv, Reads
<1>6. Below(started, published') /\ Below(published, started)
  BY <1>2, <1>3 DEF MetricsInv, Follows
<1>7. Below(published', Totals)
  BY <1>1, <1>2, AggregateGrows DEF MetricsInv, Reads
<1>8. Below(published, published')
  BY <1>1, <1>4, <1>6, BelowTransitive
<1> QED BY <1>4, <1>5, <1>6, <1>7, <1>8

LEMMA PublishKeeps ==
    ASSUME MetricsInv, TypeOK', Publish
    PROVE  MetricsInv'
<1>1. /\ published' \in Row /\ Covered(published')
      /\ Below(started, published') /\ Below(published', Totals)
      /\ Below(published, published')
  BY PublishEffect
<1>2. /\ UNCHANGED <<counters, run, runs, exporting, reported>>
      /\ pos' = 0 /\ buffer' = [k \in CpuIds |-> Zeros]
      /\ \/ pc' = "stopping" /\ started' = started
         \/ pc' = "idle"
  BY DEF Publish
<1>3. Caused' /\ Totals' = Totals
  BY <1>2 DEF MetricsInv, Caused, Totals
<1>4. Reads'
  <2>1. ASSUME NEW k \in CpuIds
        PROVE  Covered(Seen'[k]) /\ Below(buffer'[k], counters[k])
    <3>1. counters[k] \in Row /\ k \in Int /\ k >= 1
      BY TypeFacts DEF MetricsInv, CpuIds
    <3>2. Seen'[k] = Mix(buffer'[k], counters'[k], pos' - (k - 1) * 6)
      BY DEF Seen
    <3>3. buffer'[k] = Zeros /\ counters'[k] = counters[k] /\ pos' = 0
      BY <1>2
    <3>4. Zeros \in Row /\ Below(Zeros, counters[k])
      BY <3>1, BelowReflexive
    <3>5. 0 - (k - 1) * 6 \in Int /\ 0 - (k - 1) * 6 =< 0
      BY <3>1
    <3>6. Seen'[k] = counters[k]
      BY <3>1, <3>2, <3>3, <3>4, <3>5, MixEnds
    <3> QED BY <3>3, <3>4, <3>6 DEF MetricsInv, Caused
  <2> QED BY <1>2, <2>1 DEF Reads
<1>5. Follows'
  <2>1. Below(reported, published')
    BY <1>1, TypeFacts, BelowTransitive DEF MetricsInv, Follows
  <2>2. ~ Reading'
    BY <1>2 DEF Reading
  <2> QED BY <1>1, <1>2, <1>3, <2>1, <2>2 DEF Follows
<1>6. Explained'
  <2>1. exporting # 0 => Covered(Shown')
    <3>1. Shown' = Mix(reported, published', exporting - 1)
      BY <1>2 DEF Shown
    <3> QED BY <1>1, <3>1, TypeFacts, MixGrows
            DEF MetricsInv, Explained, Shown
  <2> QED BY <1>1, <1>2, <2>1 DEF MetricsInv, Explained
<1>7. Final'
  BY <1>1, <1>2 DEF Final
<1> QED BY <1>3, <1>4, <1>5, <1>6, <1>7 DEF MetricsInv

\* A read that begins has everything still to find.
LEMMA BeginReadKeeps ==
    ASSUME MetricsInv, TypeOK', Poll \/ Interrupt
    PROVE  MetricsInv'
<1>1. /\ UNCHANGED <<counters, run, runs, pos, buffer, published, exporting,
                     reported>>
      /\ pc = "idle" /\ pc' \in {"poll", "final"} /\ started' = Totals
  BY DEF Poll, Interrupt
<1>2. /\ pos = 0 /\ counters \in Rows /\ Totals = Aggregate(counters)
      /\ Seen \in Rows /\ Totals \in Row
  BY <1>1, TypeFacts DEF MetricsInv, Reads, Reading
<1>3. Seen = counters
  <2>1. ASSUME NEW k \in CpuIds PROVE Seen[k] = counters[k]
    <3>1. pos - (k - 1) * 6 \in Int /\ pos - (k - 1) * 6 =< 0
      BY <1>2 DEF CpuIds
    <3> QED BY <3>1, TypeFacts, MixEnds DEF MetricsInv
  <2> QED BY <1>2, <2>1 DEF Rows
<1>4. Caused' /\ Totals' = Totals /\ Seen' = Seen /\ Shown' = Shown
  BY <1>1 DEF MetricsInv, Caused, Totals, Seen, Shown
<1>5. Reads'
  BY <1>1, <1>2, <1>4 DEF MetricsInv, Reads
<1>6. Follows'
  <2>1. Below(Totals, Totals) /\ Below(published, Totals)
    BY <1>2, BelowReflexive DEF MetricsInv, Follows
  <2> QED BY <1>1, <1>2, <1>3, <1>4, <2>1 DEF MetricsInv, Follows
<1>7. Explained' /\ Final'
  BY <1>1, <1>4 DEF MetricsInv, Explained, Final
<1> QED BY <1>4, <1>5, <1>6, <1>7 DEF MetricsInv

\* A read that fails at once leaves the snapshot there was.
LEMMA FailKeeps ==
    ASSUME MetricsInv, TypeOK', ReadFails
    PROVE  MetricsInv'
<1>1. /\ UNCHANGED <<counters, run, runs, pos, buffer, published, exporting,
                     reported>>
      /\ pos = 0 /\ pc' \in {"idle", "failed"}
  BY DEF ReadFails
<1>2. Caused' /\ Totals' = Totals /\ Seen' = Seen /\ Shown' = Shown
  BY <1>1 DEF MetricsInv, Caused, Totals, Seen, Shown
<1>3. Reads' /\ Follows'
  BY <1>1, <1>2 DEF MetricsInv, Reads, Follows, Reading
<1>4. Explained' /\ Final'
  BY <1>1, <1>2 DEF MetricsInv, Explained, Final
<1> QED BY <1>2, <1>3, <1>4 DEF MetricsInv

\* An export that begins has everything still to show.
LEMMA BeginExportKeeps ==
    ASSUME MetricsInv, TypeOK', BeginExport
    PROVE  MetricsInv'
<1>1. /\ UNCHANGED <<counters, run, runs, pos, buffer, published, reported,
                     started>>
      /\ exporting = 0 /\ exporting' = 1
      /\ \/ pc = "stopping" /\ pc' = "last"
         \/ pc \in {"idle", "poll", "final"} /\ pc' = pc
  BY DEF BeginExport
<1>2. Caused' /\ Totals' = Totals /\ Seen' = Seen
  BY <1>1 DEF MetricsInv, Caused, Totals, Seen
<1>3. Reads' /\ Follows'
  BY <1>1, <1>2 DEF MetricsInv, Reads, Follows, Reading
<1>4. Shown' = published
  <2>1. Shown' = Mix(reported, published, 0)
    BY <1>1 DEF Shown
  <2> QED BY <2>1, TypeFacts, MixEnds DEF MetricsInv
<1>5. Explained' /\ Final'
  BY <1>1, <1>4 DEF MetricsInv, Explained, Final
<1> QED BY <1>2, <1>3, <1>5 DEF MetricsInv

\* A callback shows what the export would have shown anyway, and never less
\* than what its instrument observed before.
LEMMA ObserveEffect ==
    ASSUME MetricsInv, Observe
    PROVE  /\ exporting \in 1 .. 6 /\ exporting' = exporting + 1
           /\ reported' \in Row /\ Shown' = Shown
           /\ Below(reported, reported') /\ Below(reported', published)
           /\ UNCHANGED <<counters, run, runs, pc, pos, buffer, published,
                          started>>
<1> DEFINE c == Layout[exporting]
<1>1. /\ exporting \in 1 .. 6 /\ exporting' = exporting + 1
      /\ reported' = [reported EXCEPT ![c] = published[c]]
      /\ UNCHANGED <<counters, run, runs, pc, pos, buffer, published, started>>
  BY LayoutFacts DEF Observe
<1>2. c \in Counters
  BY <1>1, LayoutFacts
<1>3. reported \in Row /\ published \in Row /\ Below(reported, published)
  BY TypeFacts DEF MetricsInv, Follows
<1>4. Shown' = Shown
  <2>1. exporting - 1 \in 0 .. 5 /\ (exporting - 1) + 1 = exporting
        /\ exporting' - 1 = exporting
    BY <1>1
  <2>2. Shown' = Mix(reported', published', exporting' - 1)
    BY DEF Shown
  <2>3. Mix([reported EXCEPT ![c] = published[c]], published, exporting) =
            Mix(reported, published, exporting - 1)
    BY <1>3, <2>1, MixStep
  <2> HIDE DEF c
  <2>4. Shown' = Mix([reported EXCEPT ![c] = published[c]], published,
                     exporting)
    BY <1>1, <2>1, <2>2
  <2> QED BY <2>3, <2>4 DEF Shown
<1> HIDE DEF c
<1>5. ASSUME NEW d \in Counters
      PROVE  /\ reported[d] =< reported'[d] /\ reported'[d] =< published[d]
             /\ reported'[d] \in 0 .. MaxCount
  <2>1. /\ reported[d] \in 0 .. MaxCount /\ published[d] \in 0 .. MaxCount
        /\ MaxCount \in Nat
    BY <1>3, MetricsAssumption DEF Row
  <2>2. reported[d] =< published[d]
    BY <1>3 DEF Below
  <2>3. reported'[d] = reported[d] \/ reported'[d] = published[d]
    BY <1>1, <1>3 DEF Row
  <2> QED BY <2>1, <2>2, <2>3
<1>6. reported' \in Row
  BY <1>1, <1>3, <1>5 DEF Row
<1> QED BY <1>1, <1>4, <1>5, <1>6 DEF Below

LEMMA ObserveKeeps ==
    ASSUME MetricsInv, TypeOK', Observe
    PROVE  MetricsInv'
<1>1. /\ exporting \in 1 .. 6 /\ exporting' = exporting + 1
      /\ reported' \in Row /\ Shown' = Shown
      /\ Below(reported, reported') /\ Below(reported', published)
      /\ UNCHANGED <<counters, run, runs, pc, pos, buffer, published, started>>
  BY ObserveEffect
<1>2. exporting # 0 /\ exporting' # 0
  BY <1>1
<1>3. Caused' /\ Totals' = Totals /\ Seen' = Seen
  BY <1>1 DEF MetricsInv, Caused, Totals, Seen
<1>4. Reads' /\ Follows'
  BY <1>1, <1>3 DEF MetricsInv, Reads, Follows, Reading
<1>5. Explained'
  BY <1>1, <1>2 DEF MetricsInv, Explained
<1>6. Final'
  <2>1. pc = "done" => Below(started, reported')
    BY <1>1, TypeFacts, BelowTransitive DEF MetricsInv, Final
  <2> QED BY <1>1, <1>2, <2>1 DEF MetricsInv, Final
<1> QED BY <1>3, <1>4, <1>5, <1>6 DEF MetricsInv

\* A complete export has shown what it was to show.
LEMMA EndExportKeeps ==
    ASSUME MetricsInv, TypeOK', EndExport
    PROVE  MetricsInv'
<1>1. /\ UNCHANGED <<counters, run, runs, pos, buffer, published, reported,
                     started>>
      /\ exporting > 6 /\ exporting' = 0
      /\ \/ pc = "last" /\ pc' = "done"
         \/ pc # "last" /\ pc' = pc
  BY LayoutFacts DEF EndExport
<1>2. Caused' /\ Totals' = Totals /\ Seen' = Seen
  BY <1>1 DEF MetricsInv, Caused, Totals, Seen
<1>3. ~ (pc = "last" /\ Reading)
  BY DEF Reading
<1>4. Reads' /\ Follows'
  BY <1>1, <1>2 DEF MetricsInv, Reads, Follows, Reading
<1>5. Shown = reported
  <2>1. exporting \in 0 .. 7
    BY TypeFacts DEF MetricsInv
  <2>2. exporting - 1 \in Int /\ exporting - 1 >= 6 /\ exporting # 0
    BY <1>1, <2>1
  <2> QED BY <2>2, TypeFacts, MixEnds DEF MetricsInv, Shown
<1>6. exporting # 0
  BY <1>1
<1>7. Explained'
  BY <1>1, <1>5, <1>6 DEF MetricsInv, Explained
<1>8. Final'
  BY <1>1, <1>5 DEF MetricsInv, Final
<1> QED BY <1>2, <1>4, <1>7, <1>8 DEF MetricsInv

LEMMA MetricsStep == MetricsInv /\ [Next]_vars => MetricsInv'
<1> SUFFICES ASSUME MetricsInv, [Next]_vars PROVE MetricsInv'
  OBVIOUS
<1>1. TypeOK' /\ Caused'
  BY TypeStep, CausedStep DEF MetricsInv
<1>2. ASSUME NEW cpu \in CpuIds, Count(cpu) PROVE MetricsInv'
  BY <1>1, <1>2, CountKeeps
<1>3. CASE \/ \E cpu \in CpuIds, path \in Paths : Begin(cpu, path)
           \/ \E cpu \in CpuIds : Leave(cpu)
           \/ UNCHANGED vars
  <2>1. UNCHANGED <<counters, pc, pos, buffer, published, exporting, reported,
                    started>>
    BY <1>3 DEF Begin, Leave, vars
  <2>2. Totals' = Totals /\ Seen' = Seen /\ Shown' = Shown
    BY <2>1 DEF Totals, Seen, Shown
  <2>3. Reads' /\ Follows'
    BY <2>1, <2>2 DEF MetricsInv, Reads, Follows, Reading
  <2>4. Explained' /\ Final'
    BY <2>1, <2>2 DEF MetricsInv, Explained, Final
  <2> QED BY <1>1, <2>3, <2>4 DEF MetricsInv
<1>4. CASE Copy \/ Publish \/ ReadFails \/ Poll \/ Interrupt
  BY <1>1, <1>4, CopyKeeps, PublishKeeps, FailKeeps, BeginReadKeeps
<1>5. CASE BeginExport \/ Observe \/ EndExport
  BY <1>1, <1>5, BeginExportKeeps, ObserveKeeps, EndExportKeeps
<1> QED BY <1>2, <1>3, <1>4, <1>5 DEF Next

-----------------------------------------------------------------------------

\* No snapshot shows more translations than session hits and new mappings, or
\* more mappings than ports, however counting and copying interleave and
\* whatever saturates.
THEOREM SnapshotsCovered == Spec => []SnapshotCovers
<1>1. MetricsInv => SnapshotCovers
  BY DEF MetricsInv, Explained, SnapshotCovers
<1> QED BY <1>1, MetricsInit, MetricsStep, PTL DEF Spec

\* Nor does an export, whichever snapshots its callbacks find.
THEOREM ExportsCovered == Spec => []ExportCovers
<1>1. MetricsInv => ExportCovers
  BY DEF MetricsInv, Explained, ExportCovers
<1> QED BY <1>1, MetricsInit, MetricsStep, PTL DEF Spec

\* What was counted before Ctrl-C has been exported when the program is done.
THEOREM FinalCorrect == Spec => []NothingLost
<1>1. MetricsInv => NothingLost
  <2>1. ASSUME MetricsInv, pc = "done", NEW c \in Counters
        PROVE  reported[c] >= started[c]
    <3>1. started[c] =< reported[c]
      BY <2>1 DEF MetricsInv, Final, Below
    <3>2. started[c] \in Nat /\ reported[c] \in Nat
      BY <2>1, TypeFacts, MetricsAssumption DEF MetricsInv, Row
    <3> QED BY <3>1, <3>2
  <2> QED BY <2>1 DEF NothingLost
<1> QED BY <1>1, MetricsInit, MetricsStep, PTL DEF Spec

\* Every snapshot lies between the totals at both ends of its read.
THEOREM SnapshotsExact == Spec => SnapshotBetween
<1>1. MetricsInv /\ [Next]_vars
      => [Publish => \A c \in Counters :
             /\ started[c] =< published'[c]
             /\ published'[c] =< Totals[c]]_vars
  BY PublishEffect DEF Below
<1> QED BY <1>1, MetricsInit, MetricsStep, PTL DEF Spec, SnapshotBetween

\* No instrument ever observes less than it did before.
THEOREM ReportsCorrect == Spec => ReportsGrow
<1>1. MetricsInv /\ [Next]_vars
      => [\A c \in Counters : reported'[c] >= reported[c]]_vars
  <2> SUFFICES ASSUME MetricsInv, Next, NEW c \in Counters
               PROVE  reported'[c] >= reported[c]
    OBVIOUS
  <2>1. reported[c] \in Nat
    BY TypeFacts, MetricsAssumption DEF MetricsInv, Row
  <2>2. CASE Observe
    <3>1. reported[c] =< reported'[c] /\ reported'[c] \in Nat
      BY <2>2, ObserveEffect, MetricsAssumption DEF Below, Row
    <3> QED BY <2>1, <3>1
  <2>3. CASE ~ Observe
    <3>1. reported' = reported
      BY <2>3 DEF Next, Begin, Count, Leave, Copy, Publish, ReadFails, Poll,
                  Interrupt, BeginExport, EndExport
    <3> QED BY <2>1, <3>1
  <2> QED BY <2>2, <2>3
<1> QED BY <1>1, MetricsInit, MetricsStep, PTL DEF Spec, ReportsGrow

=============================================================================
