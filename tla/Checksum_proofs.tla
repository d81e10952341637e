-------------------------- MODULE Checksum_proofs --------------------------
(***************************************************************************)
(* The checksum arithmetic is right for words of every width: the full sum *)
(* loses no carry, what is filled in verifies, and corrections neither     *)
(* break a checksum nor heal one.                                          *)
(***************************************************************************)
EXTENDS Checksum, TLAPS

\* x counts as zero.  Two sums agree when their difference does.
Null(x) == \E k \in Int : x = k * W

-----------------------------------------------------------------------------
(* Counting modulo W.                                                      *)

LEMMA BaseFacts ==
    /\ Base \in Nat /\ W \in Nat \ {0} /\ W = Base - 1 /\ W >= 7
    /\ Base * Base - 1 = (Base + 1) * W
    /\ Base * Base - 1 >= 9 * W /\ Base * Base \in Nat
<1>1. Base \in Nat /\ Base >= 8 /\ W = Base - 1
  BY BaseAssumption DEF W
<1>2. Base * Base - 1 = (Base + 1) * (Base - 1) /\ Base * Base \in Nat
  BY <1>1, Z3
<1>3. (Base + 1) * (Base - 1) >= 9 * (Base - 1)
  BY <1>1, Z3
<1> QED
  BY <1>1, <1>2, <1>3

\* Sums and differences of nulls.
LEMMA NullSum ==
    \A x, y \in Int : Null(x) /\ Null(y) => Null(x + y) /\ Null(x - y)
<1> SUFFICES ASSUME NEW x \in Int, NEW y \in Int, Null(x), Null(y)
             PROVE  Null(x + y) /\ Null(x - y)
  OBVIOUS
<1>1. PICK j \in Int : x = j * W
  BY DEF Null
<1>2. PICK k \in Int : y = k * W
  BY DEF Null
<1>3. x + y = (j + k) * W /\ x - y = (j - k) * W
  BY <1>1, <1>2, BaseFacts, Z3
<1>4. j + k \in Int /\ j - k \in Int
  BY <1>1, <1>2
<1> QED
  BY <1>3, <1>4 DEF Null

\* The combination the corrections need.
LEMMA NullSum5 ==
    \A a, b, c, d, e \in Int :
        Null(a) /\ Null(b) /\ Null(c) /\ Null(d) /\ Null(e)
            => Null(((a + b) + c) - (d + e))
<1> SUFFICES ASSUME NEW a \in Int, NEW b \in Int, NEW c \in Int,
                    NEW d \in Int, NEW e \in Int,
                    Null(a), Null(b), Null(c), Null(d), Null(e)
             PROVE  Null(((a + b) + c) - (d + e))
  OBVIOUS
<1>1. a + b \in Int /\ (a + b) + c \in Int /\ d + e \in Int
  OBVIOUS
<1>2. Null(a + b) /\ Null(d + e)
  BY NullSum
<1>3. Null((a + b) + c)
  BY <1>1, <1>2, NullSum
<1> QED
  BY <1>1, <1>2, <1>3, NullSum

\* Zero, 0xffff and 0xffffffff are null.
LEMMA Nulls == Null(0) /\ Null(W) /\ Null(Base * Base - 1)
<1>1. 0 = 0 * W /\ W = 1 * W
  BY BaseFacts
<1>2. Base + 1 \in Int /\ 0 \in Int /\ 1 \in Int
  BY BaseFacts
<1> QED
  BY <1>1, <1>2, BaseFacts DEF Null

\* Quotient and remainder of any divisor.
LEMMA Division ==
    ASSUME NEW d \in Nat \ {0}, NEW x \in Int
    PROVE  /\ x % d \in 0 .. d - 1
           /\ x \div d \in Int
           /\ x = d * (x \div d) + (x % d)
  BY Z3

LEMMA RemainderType == \A x \in Int : x % W \in 0 .. W - 1
  BY BaseFacts, Division

\* A number is its remainder and a null.
LEMMA RemainderNull == \A x \in Int : Null(x - (x % W))
<1> SUFFICES ASSUME NEW x \in Int PROVE Null(x - (x % W))
  OBVIOUS
<1> DEFINE q == x \div W
           r == x % W
<1>1. r \in 0 .. W - 1 /\ q \in Int /\ x = W * q + r
  BY BaseFacts, Division
<1>2. x - r = q * W
  <2> HIDE DEF q, r
  <2>1. W * q \in Int /\ W * q = q * W
    BY <1>1, BaseFacts, Z3
  <2> QED
    BY <1>1, <2>1, BaseFacts
<1> QED
  BY <1>1, <1>2 DEF Null

\* A null below W is zero.
LEMMA SmallNull ==
    \A z \in Int : Null(z) /\ z < W /\ 0 - W < z => z = 0
<1> SUFFICES ASSUME NEW z \in Int, Null(z), z < W, 0 - W < z PROVE z = 0
  OBVIOUS
<1>1. PICK k \in Int : z = k * W
  BY DEF Null
<1>2. k > 0 => k * W >= W
  BY <1>1, BaseFacts, Z3
<1>3. k < 0 => k * W =< 0 - W
  BY <1>1, BaseFacts, Z3
<1>4. k = 0 => k * W = 0
  BY <1>1, BaseFacts
<1> QED
  BY <1>1, <1>2, <1>3, <1>4, BaseFacts

\* Equal remainders.
LEMMA SameRemainder ==
    \A x, y \in Int : x % W = y % W <=> Null(x - y)
<1> SUFFICES ASSUME NEW x \in Int, NEW y \in Int
             PROVE  x % W = y % W <=> Null(x - y)
  OBVIOUS
<1> DEFINE a == x % W
           b == y % W
<1>1. a \in 0 .. W - 1 /\ b \in 0 .. W - 1
  BY RemainderType
<1>2. Null(x - a) /\ Null(y - b)
  BY RemainderNull
<1>3. a \in Int /\ b \in Int /\ W \in Nat
  BY <1>1, BaseFacts
<1> HIDE DEF a, b
<1>4. x - a \in Int /\ y - b \in Int /\ x - y \in Int /\ a - b \in Int
  BY <1>3
<1>5. ASSUME a = b PROVE Null(x - y)
  <2>1. (x - a) - (y - b) = x - y
    BY <1>3, <1>5
  <2> QED
    BY <1>2, <1>4, <2>1, NullSum
<1>6. ASSUME Null(x - y) PROVE a = b
  <2>1. Null((x - y) - (x - a))
    BY <1>2, <1>4, <1>6, NullSum
  <2>2. (x - y) - (x - a) \in Int
    BY <1>4
  <2>3. Null(((x - y) - (x - a)) + (y - b))
    BY <1>2, <1>4, <2>1, <2>2, NullSum
  <2>4. ((x - y) - (x - a)) + (y - b) = a - b
    BY <1>3
  <2>5. a - b < W /\ 0 - W < a - b
    BY <1>1, BaseFacts
  <2>6. Null(a - b)
    BY <2>3, <2>4
  <2>7. a - b = 0
    BY <1>4, <2>5, <2>6, SmallNull
  <2> QED
    BY <1>3, <2>7
<1>7. a = b <=> Null(x - y)
  BY <1>5, <1>6
<1> QED
  BY <1>7 DEF a, b

\* Only nulls leave no remainder.
LEMMA ZeroRemainder == \A x \in Int : x % W = 0 <=> Null(x)
<1> SUFFICES ASSUME NEW x \in Int PROVE x % W = 0 <=> Null(x)
  OBVIOUS
<1>1. 0 % W = 0
  BY BaseFacts, Z3
<1>2. x % W = 0 % W <=> Null(x - 0)
  BY SameRemainder
<1>3. x - 0 = x
  OBVIOUS
<1> QED
  BY <1>1, <1>2, <1>3

-----------------------------------------------------------------------------
(* Folding.                                                                *)

\* One fold changes a sum by a null.
LEMMA FoldedNull ==
    \A s \in Nat : Folded(s) \in Nat /\ Null(s - Folded(s))
<1> SUFFICES ASSUME NEW s \in Nat
             PROVE  Folded(s) \in Nat /\ Null(s - Folded(s))
  OBVIOUS
<1> DEFINE q == s \div Base
           r == s % Base
<1>1. Base \in Nat \ {0} /\ s \in Int
  BY BaseAssumption
<1>2. r \in 0 .. Base - 1 /\ q \in Int /\ s = Base * q + r
  BY <1>1, Division
<1>3. q >= 0
  BY <1>1, Z3
<1>4. Folded(s) = r + q
  BY DEF Folded
<1> HIDE DEF q, r
<1>5. s - (r + q) = q * W
  <2>1. Base * q \in Int /\ q * W \in Int /\ Base * q - q = q * (Base - 1)
    BY <1>1, <1>2, BaseFacts, Z3
  <2> QED
    BY <1>2, <2>1, BaseFacts
<1>6. Null(s - (r + q))
  BY <1>2, <1>5 DEF Null
<1> QED
  BY <1>2, <1>3, <1>4, <1>6, BaseFacts

\* A word is folded already.
LEMMA FoldedWord == \A s \in Words : Folded(s) = s
<1> SUFFICES ASSUME NEW s \in Words PROVE Folded(s) = s
  OBVIOUS
<1>1. s \in Nat /\ s < Base /\ Base \in Nat \ {0}
  BY BaseFacts DEF Words
<1>2. s % Base = s /\ s \div Base = 0
  BY <1>1, Z3
<1> QED
  BY <1>1, <1>2 DEF Folded

\* The first fold of an accumulator leaves at most one carry, the second none.
LEMMA FoldedBound ==
    \A s \in U32 : /\ Folded(s) \in 0 .. 2 * W
                   /\ Folded(s) =< s
<1> SUFFICES ASSUME NEW s \in U32
             PROVE  Folded(s) \in 0 .. 2 * W /\ Folded(s) =< s
  OBVIOUS
<1> DEFINE q == s \div Base
           r == s % Base
<1>1. Base \in Nat \ {0} /\ s \in Int /\ s >= 0 /\ s < Base * Base
  BY BaseFacts, BaseAssumption DEF U32
<1>2. r \in 0 .. Base - 1 /\ q \in Int /\ s = Base * q + r
  BY <1>1, Division
<1>3. Folded(s) = r + q
  BY DEF Folded
<1>4. q >= 0
  BY <1>1, Z3
<1> HIDE DEF q, r
<1>5. q < Base
  <2> SUFFICES ASSUME q >= Base PROVE FALSE
    BY <1>1, <1>2
  <2>1. Base * q >= Base * Base
    BY <1>1, <1>2, Z3
  <2>2. Base * q \in Int /\ Base * Base \in Int
    BY <1>1, <1>2, Z3
  <2> QED
    BY <1>1, <1>2, <2>1, <2>2
<1>6. Base * q >= q /\ Base * q \in Int
  BY <1>1, <1>2, <1>4, Z3
<1> QED
  BY <1>1, <1>2, <1>3, <1>4, <1>5, <1>6, BaseFacts

LEMMA FoldedTwice ==
    \A s \in U32 : Folded(Folded(s)) \in Words
<1> SUFFICES ASSUME NEW s \in U32 PROVE Folded(Folded(s)) \in Words
  OBVIOUS
<1> DEFINE t == Folded(s)
<1>1. t \in 0 .. 2 * W
  BY FoldedBound
<1> HIDE DEF t
<1>2. CASE t < Base
  <2>1. t \in Words
    BY <1>1, <1>2, BaseFacts DEF Words
  <2> QED
    BY <2>1, FoldedWord DEF t
<1>3. CASE t >= Base
  <2>1. t \in Nat /\ Base \in Nat \ {0} /\ t - Base \in 0 .. Base - 1
    BY <1>1, <1>3, BaseFacts
  <2>2. t % Base = t - Base /\ t \div Base = 1
    BY <2>1, Z3
  <2>3. Folded(t) = (t - Base) + 1
    BY <2>2 DEF Folded
  <2>4. Folded(t) \in Words
    BY <1>1, <1>3, <2>1, <2>3, BaseFacts DEF Words
  <2> QED
    BY <2>4 DEF t
<1> QED
  BY <1>1, <1>2, <1>3, BaseFacts

\* Three folds are a word, the same as two, that differs by a null.
LEMMA FixedFoldRight ==
    \A s \in U32 : /\ FixedFold(s) \in Words
                   /\ FixedFold(s) = Folded(Folded(s))
                   /\ Null(s - FixedFold(s))
<1> SUFFICES ASSUME NEW s \in U32
             PROVE  /\ FixedFold(s) \in Words
                    /\ FixedFold(s) = Folded(Folded(s))
                    /\ Null(s - FixedFold(s))
  OBVIOUS
<1> DEFINE a == Folded(s)
           b == Folded(a)
<1>1. b \in Words
  BY FoldedTwice
<1>2. FixedFold(s) = b
  BY <1>1, FoldedWord DEF FixedFold
<1>3. s \in Nat /\ a \in Nat /\ b \in Nat
  BY FoldedNull, BaseFacts DEF U32
<1>4. Null(s - a) /\ Null(a - b)
  BY <1>3, FoldedNull
<1> HIDE DEF a, b
<1>5. s - a \in Int /\ a - b \in Int /\ (s - a) + (a - b) = s - b
  BY <1>3
<1>6. Null(s - b)
  BY <1>4, <1>5, NullSum
<1> QED
  BY <1>1, <1>2, <1>6 DEF a, b

-----------------------------------------------------------------------------
(* The kernel's operators.                                                 *)

LEMMA CsumAddRight ==
    \A a, b \in U32 : CsumAdd(a, b) \in U32 /\ Null((a + b) - CsumAdd(a, b))
<1> SUFFICES ASSUME NEW a \in U32, NEW b \in U32
             PROVE  CsumAdd(a, b) \in U32 /\ Null((a + b) - CsumAdd(a, b))
  OBVIOUS
<1> DEFINE m == Base * Base
<1>1. m \in Nat /\ m >= 1 /\ a \in 0 .. m - 1 /\ b \in 0 .. m - 1
  BY BaseFacts DEF U32
<1>2. CsumAdd(a, b) = IF a + b < m THEN a + b ELSE a + b - m + 1
  BY DEF CsumAdd
<1>3. Null(0) /\ Null(m - 1)
  BY Nulls
<1> HIDE DEF m
<1>4. CsumAdd(a, b) \in 0 .. m - 1
  BY <1>1, <1>2
<1>5. (a + b) - CsumAdd(a, b) = 0 \/ (a + b) - CsumAdd(a, b) = m - 1
  BY <1>1, <1>2
<1> QED
  BY <1>3, <1>4, <1>5 DEF U32, m

LEMMA Not32Right ==
    \A a \in U32 : Not32(a) \in U32 /\ Null(a + Not32(a))
<1> SUFFICES ASSUME NEW a \in U32
             PROVE  Not32(a) \in U32 /\ Null(a + Not32(a))
  OBVIOUS
<1> DEFINE m == Base * Base
<1>1. m \in Nat /\ m >= 1 /\ a \in 0 .. m - 1
  BY BaseFacts DEF U32
<1>2. Not32(a) = m - 1 - a
  BY DEF Not32
<1>3. Null(m - 1)
  BY Nulls
<1> HIDE DEF m
<1>4. Not32(a) \in 0 .. m - 1 /\ a + Not32(a) = m - 1
  BY <1>1, <1>2
<1> QED
  BY <1>3, <1>4 DEF U32, m

LEMMA CsumFoldRight ==
    \A a \in U32 : CsumFold(a) \in Words /\ Null(a + CsumFold(a))
<1> SUFFICES ASSUME NEW a \in U32
             PROVE  CsumFold(a) \in Words /\ Null(a + CsumFold(a))
  OBVIOUS
<1> DEFINE f == FixedFold(a)
<1>1. f \in Words /\ CsumFold(a) = W - f /\ Null(a - f)
  BY FixedFoldRight DEF CsumFold
<1>2. a \in Int /\ W \in Nat /\ f \in 0 .. W
  BY <1>1, BaseFacts DEF U32, Words
<1> HIDE DEF f
<1>3. (a - f) + W = a + CsumFold(a) /\ a - f \in Int /\ W \in Int
  BY <1>1, <1>2
<1>4. Null(a + CsumFold(a))
  BY <1>1, <1>3, Nulls, NullSum
<1> QED
  BY <1>1, <1>2, <1>4 DEF Words

-----------------------------------------------------------------------------
(* The helpers.                                                            *)

LEMMA WordsInU32 == Words \subseteq U32 /\ Words \subseteq Int /\ U32 \subseteq Int
  BY BaseFacts DEF Words, U32

\* A full sum loses the difference, a pseudo header's sum gains it.
LEMMA ByDiffRight ==
    ASSUME NEW c \in Words, NEW d \in U32, partial \in BOOLEAN
    PROVE  /\ ReplaceByDiff(c, d) \in Words
           /\ ~ partial => Null((ReplaceByDiff(c, d) + d) - c)
           /\ partial => Null((ReplaceByDiff(c, d) - d) - c)
<1> DEFINE N == Not32(c)
           X == CsumAdd(d, N)
           F == CsumFold(X)
           Y == CsumAdd(d, c)
           G == CsumFold(Y)
<1>1. c \in U32 /\ W \in Int /\ Null(W) /\ Null(0)
  BY WordsInU32, Nulls, BaseFacts
<1>2. N \in U32 /\ Null(c + N)
  BY <1>1, Not32Right
<1>3. X \in U32 /\ Null((d + N) - X)
  BY <1>2, CsumAddRight
<1>4. F \in Words /\ Null(X + F)
  BY <1>3, CsumFoldRight
<1>5. Y \in U32 /\ Null((d + c) - Y)
  BY <1>1, CsumAddRight
<1>6. G \in Words /\ Null(Y + G)
  BY <1>5, CsumFoldRight
<1>7. ReplaceByDiff(c, d) = IF partial THEN W - G ELSE F
  BY DEF ReplaceByDiff
<1> HIDE DEF N, X, F, Y, G
<1>8. /\ c \in Int /\ d \in Int /\ N \in Int /\ X \in Int /\ F \in Int
      /\ Y \in Int /\ G \in Int
  BY <1>2, <1>3, <1>4, <1>5, <1>6, WordsInU32
<1>9. Null((F + d) - c)
  <2>1. (((X + F) + ((d + N) - X)) + 0) - ((c + N) + 0) = (F + d) - c
    BY <1>8
  <2>2. X + F \in Int /\ (d + N) - X \in Int /\ c + N \in Int /\ 0 \in Int
    BY <1>8
  <2>3. Null((((X + F) + ((d + N) - X)) + 0) - ((c + N) + 0))
    BY <1>1, <1>2, <1>3, <1>4, <2>2, NullSum5
  <2> QED
    BY <2>1, <2>3
<1>10. Null(((W - G) - d) - c)
  <2>1. ((W + 0) + 0) - ((Y + G) + ((d + c) - Y)) = ((W - G) - d) - c
    BY <1>1, <1>8
  <2>2. Y + G \in Int /\ (d + c) - Y \in Int /\ 0 \in Int
    BY <1>8
  <2>3. Null(((W + 0) + 0) - ((Y + G) + ((d + c) - Y)))
    BY <1>1, <1>5, <1>6, <2>2, NullSum5
  <2> QED
    BY <2>1, <2>3
<1>11. W - G \in Words
  BY <1>6, BaseFacts DEF Words
<1> QED
  BY <1>4, <1>7, <1>9, <1>10, <1>11

\* A word replaced: the checksum of a full sum falls by what the sum grows,
\* that of an offloaded packet grows with it if the word is the pseudo header's.
LEMMA ReplaceRight ==
    ASSUME NEW c \in Words, NEW o \in Words, NEW w \in Words,
           NEW p \in BOOLEAN, partial \in BOOLEAN
    PROVE  /\ Replace(c, o, w, p) \in Words
           /\ ~ partial => Null((Replace(c, o, w, p) + w) - (c + o))
           /\ partial /\ p => Null((Replace(c, o, w, p) + o) - (c + w))
           /\ partial /\ ~ p => Replace(c, o, w, p) = c
<1> DEFINE N == Not32(c)
           M == Not32(o)
           S == CsumAdd(N, M)
           X == CsumAdd(S, w)
           F == CsumFold(X)
           T == CsumAdd(c, M)
           Y == CsumAdd(T, w)
           G == CsumFold(Y)
<1>1. /\ c \in U32 /\ o \in U32 /\ w \in U32 /\ W \in Int /\ Null(W) /\ Null(0)
  BY WordsInU32, Nulls, BaseFacts
<1>2. N \in U32 /\ Null(c + N) /\ M \in U32 /\ Null(o + M)
  BY <1>1, Not32Right
<1>3. S \in U32 /\ Null((N + M) - S)
  BY <1>2, CsumAddRight
<1>4. X \in U32 /\ Null((S + w) - X)
  BY <1>1, <1>3, CsumAddRight
<1>5. F \in Words /\ Null(X + F)
  BY <1>4, CsumFoldRight
<1>6. T \in U32 /\ Null((c + M) - T)
  BY <1>1, <1>2, CsumAddRight
<1>7. Y \in U32 /\ Null((T + w) - Y)
  BY <1>1, <1>6, CsumAddRight
<1>8. G \in Words /\ Null(Y + G)
  BY <1>7, CsumFoldRight
<1>9. Replace(c, o, w, p) = IF ~ partial THEN F ELSE IF p THEN W - G ELSE c
  BY DEF Replace, CsumSub
<1> HIDE DEF N, M, S, X, F, T, Y, G
<1>10. /\ c \in Int /\ o \in Int /\ w \in Int /\ N \in Int /\ M \in Int
       /\ S \in Int /\ X \in Int /\ F \in Int /\ T \in Int /\ Y \in Int /\ G \in Int
  BY <1>2, <1>3, <1>4, <1>5, <1>6, <1>7, <1>8, WordsInU32
<1>11. Null((F + w) - (c + o))
  <2>1. /\ X + F \in Int /\ (S + w) - X \in Int /\ (N + M) - S \in Int
        /\ c + N \in Int /\ o + M \in Int
    BY <1>10
  <2>2. (((X + F) + ((S + w) - X)) + ((N + M) - S)) - ((c + N) + (o + M))
           = (F + w) - (c + o)
    BY <1>10
  <2>3. Null((((X + F) + ((S + w) - X)) + ((N + M) - S)) - ((c + N) + (o + M)))
    BY <1>2, <1>3, <1>4, <1>5, <2>1, NullSum5
  <2> QED
    BY <2>2, <2>3
<1>12. Null(((W - G) + o) - (c + w))
  <2>1. /\ Y + G \in Int /\ (T + w) - Y \in Int /\ (c + M) - T \in Int
        /\ o + M \in Int /\ 0 \in Int
    BY <1>10
  <2>2. Null((((Y + G) + ((T + w) - Y)) + ((c + M) - T)) - ((o + M) + 0))
    BY <1>1, <1>2, <1>6, <1>7, <1>8, <2>1, NullSum5
  <2>3. (((Y + G) + ((T + w) - Y)) + ((c + M) - T)) - ((o + M) + 0)
           = ((G + w) + c) - o
    BY <1>10
  <2>4. ((G + w) + c) - o \in Int
    BY <1>10
  <2>5. Null(W - (((G + w) + c) - o))
    BY <1>1, <2>2, <2>3, <2>4, NullSum
  <2>6. W - (((G + w) + c) - o) = ((W - G) + o) - (c + w)
    BY <1>1, <1>10
  <2> QED
    BY <2>5, <2>6
<1>13. W - G \in Words
  BY <1>8, BaseFacts DEF Words
<1> QED
  BY <1>5, <1>9, <1>11, <1>12, <1>13

\* The correction for the zero of UDP keeps every sum.
LEMMA ZeroRight ==
    ASSUME NEW c \in Words, partial \in BOOLEAN
    PROVE  ZeroReplaced(c) \in Words /\ Null(ZeroReplaced(c) - c)
<1>1. 0 \in Words /\ W \in Words /\ W \in Int /\ c \in Int
  BY BaseFacts DEF Words
<1>2. Null(0) /\ Null(W)
  BY Nulls
<1> DEFINE Z(r) == IF c = 0 THEN 0 ELSE IF r = 0 THEN W ELSE r
<1>3. ASSUME NEW r \in Words, Null(r - c) PROVE Z(r) \in Words /\ Null(Z(r) - c)
  <2>1. r \in Int
    BY <1>3, WordsInU32
  <2>2. CASE c = 0
    BY <1>1, <1>2, <2>2
  <2>3. CASE c # 0 /\ r # 0
    BY <1>3, <2>3
  <2>4. CASE c # 0 /\ r = 0
    <3>1. (r - c) + W = W - c /\ r - c \in Int
      BY <1>1, <2>4
    <3>2. Null(W - c)
      BY <1>1, <1>2, <1>3, <3>1, NullSum
    <3> QED
      BY <1>1, <2>4, <3>2
  <2> QED
    BY <2>2, <2>3, <2>4
<1>4. CASE family = 4
  <2> DEFINE r == Replace(c, 0, W, FALSE)
  <2>1. /\ r \in Words
        /\ ~ partial => Null((r + W) - (c + 0))
        /\ partial => r = c
    BY <1>1, ReplaceRight
  <2>2. ZeroReplaced(c) = Z(r)
    BY <1>4 DEF ZeroReplaced, ReplaceMangled
  <2> HIDE DEF r
  <2>3. r \in Int
    BY <2>1, WordsInU32
  <2>4. Null(r - c)
    <3>1. CASE partial
      <4>1. r - c = 0
        BY <1>1, <2>1, <3>1
      <4> QED
        BY <1>2, <4>1
    <3>2. CASE ~ partial
      <4>1. ((r + W) - (c + 0)) - W = r - c /\ (r + W) - (c + 0) \in Int
        BY <1>1, <2>3
      <4> QED
        BY <1>1, <1>2, <2>1, <3>2, <4>1, NullSum
    <3> QED
      BY <3>1, <3>2
  <2> QED
    BY <1>3, <2>1, <2>2, <2>4
<1>5. CASE family # 4
  <2> DEFINE r == Replace(c, 0, 0, TRUE)
  <2>1. r \in Words /\ Null((r + 0) - (c + 0))
    BY <1>1, ReplaceRight
  <2>2. ZeroReplaced(c) = Z(r)
    BY <1>5 DEF ZeroReplaced, ReplaceMangled
  <2> HIDE DEF r
  <2>3. (r + 0) - (c + 0) = r - c
    BY <1>1, <2>1, WordsInU32
  <2> QED
    BY <1>3, <2>1, <2>2, <2>3
<1> QED
  BY <1>4, <1>5

-----------------------------------------------------------------------------
(* The accumulator.                                                        *)

Adding == pc \in {"source", "destination", "length", "body", "fold"}

\* What the accumulator is at most, by the words added since it was folded.
Bounded ==
    /\ pc = "source" => n =< AddressWords /\ sum =< n * W
    /\ pc = "destination" => n =< AddressWords /\ sum =< (n + 1) * W
    /\ pc = "length" => n = 0 /\ sum =< W
    /\ pc = "body" => n =< BodyWords /\ sum =< (n + 4) * W

LEMMA Multiples ==
    \A k \in Nat : /\ k * W \in Nat
                   /\ (k + 1) * W = k * W + W
                   /\ k =< Base + 1 => k * W < Base * Base
<1> SUFFICES ASSUME NEW k \in Nat
             PROVE  /\ k * W \in Nat
                    /\ (k + 1) * W = k * W + W
                    /\ k =< Base + 1 => k * W < Base * Base
  OBVIOUS
<1>1. k * W \in Nat /\ (k + 1) * W = k * W + W
  BY BaseFacts, Z3
<1>2. k =< Base + 1 => k * W =< (Base + 1) * W
  BY BaseFacts, Z3
<1> QED
  BY <1>1, <1>2, BaseFacts

\* An addition below the width of the accumulator is exact.
LEMMA NoWrap ==
    \A s, w \in Nat :
        s + w < Base * Base => WrappingAdd(s, w) = s + w
<1> SUFFICES ASSUME NEW s \in Nat, NEW w \in Nat, s + w < Base * Base
             PROVE  WrappingAdd(s, w) = s + w
  OBVIOUS
<1> DEFINE m == Base * Base
           x == s + w
<1>1. m \in Nat \ {0} /\ x \in Nat /\ x < m
  BY BaseFacts
<1>2. WrappingAdd(s, w) = x % m
  BY DEF WrappingAdd
<1> HIDE DEF m, x
<1>3. x % m = x
  BY <1>1, Z3
<1> QED
  BY <1>2, <1>3 DEF x

\* Adding the same to an accumulator and to the exact sum.
Alike(s, e, f, w) ==
    s % W = (e + f) % W => (s + w) % W = (((e + w) % W) + f) % W

LEMMA AddedAlike == \A s, e, f, w \in Int : Alike(s, e, f, w)
<1> SUFFICES ASSUME NEW s \in Int, NEW e \in Int, NEW f \in Int, NEW w \in Int,
                    s % W = (e + f) % W
             PROVE  (s + w) % W = (((e + w) % W) + f) % W
  BY DEF Alike
<1> DEFINE r == (e + w) % W
<1>1. e + w \in Int /\ e + f \in Int /\ s + w \in Int
  OBVIOUS
<1>2. r \in Int /\ Null((e + w) - r)
  BY <1>1, RemainderType, RemainderNull, BaseFacts
<1>3. Null(s - (e + f))
  BY <1>1, SameRemainder
<1> HIDE DEF r
<1>4. (s - (e + f)) + ((e + w) - r) = (s + w) - (r + f) /\ r + f \in Int
      /\ s - (e + f) \in Int /\ (e + w) - r \in Int
  BY <1>2
<1>5. Null((s + w) - (r + f))
  BY <1>2, <1>3, <1>4, NullSum
<1>6. (s + w) % W = (r + f) % W
  BY <1>1, <1>4, <1>5, SameRemainder
<1> QED
  BY <1>6 DEF r

\* The fold of an accumulator keeps the exact sum.
LEMMA FoldedAlike ==
    \A s \in Nat : Folded(s) % W = s % W
<1> SUFFICES ASSUME NEW s \in Nat PROVE Folded(s) % W = s % W
  OBVIOUS
<1>1. Folded(s) \in Int /\ s \in Int /\ Null(s - Folded(s))
  BY FoldedNull
<1> QED
  BY <1>1, SameRemainder

-----------------------------------------------------------------------------
(* The inductive invariant.                                                *)

\* What has been made: a checksum that verifies, or the pseudo header's sum.
Made ==
    pc = "made" =>
        /\ kind = "header" => ~ partial
        /\ ~ partial => Total = 0 /\ (kind # "header" => field # 0)
        /\ partial => field % W = pseudo

\* What is being corrected: offloaded packets carry the pseudo header's sum
\* throughout, the others verify as they did on arrival.
Moved ==
    pc \in {"arrived", "ports", "zero", "out"} =>
        /\ partial => intact /\ field % W = pseudo
        /\ ~ partial => (Total = 0 <=> intact)

IInv ==
    /\ TypeOK
    /\ Adding => ~ partial
    /\ Bounded
    /\ SumExact
    /\ Made
    /\ Moved

\* The type invariant as numbers.
LEMMA Numbers ==
    ASSUME TypeOK
    PROVE  /\ n \in Nat /\ sum \in Nat /\ sum \in U32 /\ sum < Base * Base
           /\ field \in Words /\ field \in Nat /\ field =< W
           /\ pseudo \in Int /\ body \in Int
           /\ (pseudo + body) \in Int /\ (pseudo + body + field) \in Int
<1>1. W \in Nat /\ Base * Base \in Nat
  BY BaseFacts
<1>2. /\ n \in 0 .. Base + 1 /\ sum \in 0 .. Base * Base - 1
      /\ field \in 0 .. W /\ pseudo \in 0 .. W - 1 /\ body \in 0 .. W - 1
  BY DEF TypeOK, U32, Words, Residues
<1> DEFINE m == Base * Base
<1>3. m \in Nat /\ sum \in 0 .. m - 1
  BY <1>1, <1>2
<1> HIDE DEF m
<1>4. sum \in Nat /\ sum < m
  BY <1>3
<1>5. n \in Nat
  BY <1>2, BaseFacts
<1>6. sum \in U32 /\ field \in Words
  BY DEF TypeOK
<1> QED
  BY <1>1, <1>2, <1>4, <1>5, <1>6 DEF m

\* Every remainder is a Residue, every sum an accumulator.
LEMMA Ranges ==
    /\ \A x \in Int : x % W \in Residues
    /\ \A s, w \in Nat : WrappingAdd(s, w) \in U32
    /\ \A s \in U32 : Folded(s) \in U32
    /\ 0 \in U32 /\ 0 \in Words /\ W \in Words
    /\ U32 \subseteq Nat /\ Words \subseteq Nat
<1>1. \A x \in Int : x % W \in Residues
  BY RemainderType DEF Residues
<1>2. ASSUME NEW s \in Nat, NEW w \in Nat PROVE WrappingAdd(s, w) \in U32
  <2>1. Base * Base \in Nat \ {0} /\ s + w \in Int
    BY BaseFacts
  <2>2. (s + w) % (Base * Base) \in 0 .. Base * Base - 1
    BY <2>1, Division
  <2> QED
    BY <2>2 DEF WrappingAdd, U32
<1>3. ASSUME NEW s \in U32 PROVE Folded(s) \in U32
  <2>1. s \in Nat /\ Folded(s) \in Nat /\ Folded(s) =< s
    BY FoldedBound, FoldedNull, BaseFacts DEF U32
  <2> QED
    BY <2>1, BaseFacts DEF U32
<1>4. 0 \in U32 /\ 0 \in Words /\ W \in Words
  BY BaseFacts DEF U32, Words
<1>5. U32 \subseteq Nat /\ Words \subseteq Nat
  BY BaseFacts DEF U32, Words
<1> QED
  BY <1>1, <1>2, <1>3, <1>4, <1>5

\* Every step keeps the types.
LEMMA TypeStep == TypeOK /\ [Next]_vars => TypeOK'
<1> SUFFICES ASSUME TypeOK, [Next]_vars PROVE TypeOK'
  OBVIOUS
<1> USE DEF TypeOK
<1>0. /\ n \in Nat /\ sum \in Nat /\ sum \in U32 /\ field \in Words
      /\ pseudo \in Int /\ body \in Int /\ partial \in BOOLEAN
      /\ W \in Nat /\ Base \in Nat /\ Base >= 8
      /\ Words \subseteq Nat
  BY Numbers, BaseFacts DEF Words
<1>1. ASSUME NEW w \in Words, AddAddress(w) PROVE TypeOK'
  <2>1. AddressWords =< 8 /\ AddressWords \in Nat
    BY DEF AddressWords
  <2>2. n' \in 0 .. Base + 1
    BY <1>0, <1>1, <2>1 DEF AddAddress
  <2>3. sum' \in U32
    BY <1>0, <1>1, Ranges DEF AddAddress
  <2>4. pseudo' \in Residues
    BY <1>0, <1>1, Ranges DEF AddAddress
  <2> QED
    BY <1>1, <2>2, <2>3, <2>4 DEF AddAddress
<1>2. ASSUME NEW w \in Words, AddWord(w) PROVE TypeOK'
  <2>1. n' \in 0 .. Base + 1
    BY <1>0, <1>2, BodyAssumption DEF AddWord
  <2>2. sum' \in U32
    BY <1>0, <1>2, Ranges DEF AddWord
  <2>3. body' \in Residues
    BY <1>0, <1>2, Ranges DEF AddWord
  <2> QED
    BY <1>2, <2>1, <2>2, <2>3 DEF AddWord
<1>3. ASSUME NEW w \in Words, Arrive(w) PROVE TypeOK'
  BY <1>3 DEF Arrive
<1>4. CASE Fold
  BY <1>0, <1>4, Ranges DEF Fold
<1>5. CASE EndAddress
  BY <1>0, <1>5 DEF EndAddress
<1>6. ASSUME NEW high \in Words, NEW low \in Words, AddLength(high, low)
      PROVE  TypeOK'
  <2>1. Protocol \in Words
    BY ProtocolAssumption DEF Protocol
  <2>2. WrappingAdd(sum, high) \in Nat
    <3>1. high \in Nat
      BY <1>0
    <3>2. WrappingAdd(sum, high) \in U32
      BY <1>0, <3>1, Ranges
    <3> QED
      BY <3>2, Ranges
  <2>3. WrappingAdd(WrappingAdd(sum, high), low) \in Nat
    <3>1. low \in Nat
      BY <1>0
    <3>2. WrappingAdd(WrappingAdd(sum, high), low) \in U32
      BY <2>2, <3>1, Ranges
    <3> QED
      BY <3>2, Ranges
  <2>4. sum' \in U32
    BY <1>0, <1>6, <2>1, <2>3, Ranges DEF AddLength
  <2>5. pseudo' \in Residues
    BY <1>0, <1>6, <2>1, Ranges DEF AddLength
  <2> QED
    BY <1>6, <2>4, <2>5 DEF AddLength
<1>7. CASE EndBody
  BY <1>0, <1>7 DEF EndBody
<1>8. CASE Fill
  <2>1. Filled(sum) \in Words
    BY <1>0, <1>8, BaseFacts DEF Fill, Filled, Words
  <2> QED
    BY <1>8, <2>1, Ranges DEF Fill
<1>9. CASE FillStraight
  <2>1. FixedFold(sum) \in Words
    BY <1>0, FixedFoldRight
  <2>2. W - FixedFold(sum) \in Words
    BY <1>0, <2>1 DEF Words
  <2> QED
    BY <1>9, <2>2, Ranges DEF FillStraight
<1>10. ASSUME NEW w \in Words, NEW b \in Residues, Offload(w, b) PROVE TypeOK'
  BY <1>10, Ranges DEF Offload
<1>11. ASSUME NEW d \in U32, CorrectPseudo(d) PROVE TypeOK'
  <2>1. ReplaceByDiff(field, d) \in Words
    BY <1>0, ByDiffRight
  <2>2. (pseudo + d) % W \in Residues
    <3>1. pseudo + d \in Int
      BY <1>0, WordsInU32
    <3> QED
      BY <3>1, Ranges
  <2> QED
    BY <1>11, <2>1, <2>2 DEF CorrectPseudo
<1>12. ASSUME NEW old \in Words, NEW new \in Words, CorrectPort(old, new)
       PROVE  TypeOK'
  <2>1. PortReplaced(field, old, new) \in Words
    BY <1>0, ReplaceRight DEF PortReplaced
  <2>2. (body + new + (W - old)) % W \in Residues
    <3>1. body + new + (W - old) \in Int
      BY <1>0
    <3> QED
      BY <3>1, Ranges
  <2> QED
    BY <1>12, <2>1, <2>2 DEF CorrectPort
<1>13. CASE CorrectZero
  <2>1. ZeroReplaced(field) \in Words
    BY <1>0, ZeroRight
  <2> QED
    BY <1>13, <2>1 DEF CorrectZero
<1>14. CASE Complete
  <2>1. (body + field) % W \in 0 .. W - 1
    BY <1>0, RemainderType
  <2>2. W - ((body + field) % W) \in Words
    BY <1>0, <2>1 DEF Words
  <2> QED
    BY <1>14, <2>2 DEF Complete
<1>15. CASE UNCHANGED vars
  BY <1>15 DEF vars
<1> QED
  BY <1>1, <1>2, <1>3, <1>4, <1>5, <1>6, <1>7, <1>8, <1>9, <1>10, <1>11,
     <1>12, <1>13, <1>14, <1>15 DEF Next

\* What an addition needs: the accumulator's new value is the old one and the
\* words, while no more than Base + 1 words are in it.
LEMMA Addition ==
    ASSUME NEW s \in Nat, NEW k \in Nat, s =< k * W, k + 1 =< Base + 1,
           NEW w \in Words
    PROVE  WrappingAdd(s, w) = s + w /\ s + w \in Nat /\ s + w =< (k + 1) * W
<1>1. w \in Nat /\ w =< W
  BY BaseFacts DEF Words
<1>2. k * W \in Nat /\ (k + 1) * W = k * W + W
  BY Multiples
<1>3. (k + 1) * W < Base * Base
  BY Multiples
<1> DEFINE p == k * W
           q == (k + 1) * W
<1>4. p \in Nat /\ q = p + W /\ s =< p
  BY <1>2
<1> HIDE DEF p, q
<1>5. s + w =< q /\ s + w \in Nat
  BY <1>1, <1>4, BaseFacts
<1>6. q \in Nat /\ q < Base * Base
  BY <1>2, <1>3, <1>4, BaseFacts DEF q
<1>7. s + w < Base * Base
  BY <1>5, <1>6, BaseFacts
<1>8. WrappingAdd(s, w) = s + w
  BY <1>1, <1>7, NoWrap
<1> QED
  BY <1>5, <1>8 DEF q

\* The accumulator of an address and of what follows.
LEMMA AddAddressStep ==
    ASSUME IInv, NEW w \in Words, AddAddress(w)
    PROVE  Bounded' /\ SumExact'
<1>1. TypeOK /\ Bounded /\ SumExact
  BY DEF IInv
<1>2. n \in Nat /\ sum \in Nat /\ pseudo \in Int /\ body \in Int /\ w \in Int
  BY <1>1, Numbers, WordsInU32
<1>3. pc \in {"source", "destination"} /\ n < AddressWords /\ n' = n + 1
      /\ pc' = pc /\ AddressWords' = AddressWords /\ AddressWords \in Nat
      /\ AddressWords =< 8
  BY DEF AddAddress, AddressWords
<1>4. Base \in Nat /\ Base >= 8
  BY BaseFacts
<1>5. sum' = sum + w
  <2>1. CASE pc = "source"
    <3>1. sum =< n * W /\ n + 1 =< Base + 1
      BY <1>1, <1>2, <1>3, <1>4, <2>1 DEF Bounded
    <3> QED
      BY <1>2, <3>1, Addition DEF AddAddress
  <2>2. CASE pc = "destination"
    <3>1. sum =< (n + 1) * W /\ (n + 1) + 1 =< Base + 1 /\ n + 1 \in Nat
      BY <1>1, <1>2, <1>3, <1>4, <2>2 DEF Bounded
    <3> QED
      BY <1>2, <3>1, Addition DEF AddAddress
  <2> QED
    BY <1>3, <2>1, <2>2
<1>6. Bounded'
  <2>1. CASE pc = "source"
    <3>1. sum =< n * W /\ n + 1 =< Base + 1
      BY <1>1, <1>2, <1>3, <1>4, <2>1 DEF Bounded
    <3>2. sum' =< (n + 1) * W
      BY <1>2, <1>5, <3>1, Addition
    <3>3. n' =< AddressWords'
      BY <1>2, <1>3
    <3> QED
      BY <1>3, <2>1, <3>2, <3>3 DEF Bounded
  <2>2. CASE pc = "destination"
    <3>1. sum =< (n + 1) * W /\ (n + 1) + 1 =< Base + 1 /\ n + 1 \in Nat
      BY <1>1, <1>2, <1>3, <1>4, <2>2 DEF Bounded
    <3>2. sum' =< ((n + 1) + 1) * W
      BY <1>2, <1>5, <3>1, Addition
    <3>3. n' =< AddressWords'
      BY <1>2, <1>3
    <3> QED
      BY <1>3, <2>2, <3>2, <3>3 DEF Bounded
  <2> QED
    BY <1>3, <2>1, <2>2
<1>7. (sum + w) % W = (((pseudo + w) % W) + body) % W
  <2>1. sum % W = (pseudo + body) % W
    BY <1>1, <1>3 DEF SumExact
  <2>2. sum \in Int
    BY <1>2
  <2>3. Alike(sum, pseudo, body, w)
    BY <1>2, <2>2, AddedAlike
  <2> QED
    BY <2>1, <2>3 DEF Alike
<1>8. SumExact'
  BY <1>5, <1>7 DEF SumExact, AddAddress
<1> QED
  BY <1>6, <1>8

LEMMA AddWordStep ==
    ASSUME IInv, NEW w \in Words, AddWord(w)
    PROVE  Bounded' /\ SumExact'
<1>1. TypeOK /\ Bounded /\ SumExact
  BY DEF IInv
<1>2. n \in Nat /\ sum \in Nat /\ pseudo \in Int /\ body \in Int /\ w \in Int
  BY <1>1, Numbers, WordsInU32
<1>3. pc = "body" /\ n < BodyWords /\ n' = n + 1 /\ pc' = "body"
  BY DEF AddWord
<1>4. Base \in Nat /\ BodyWords \in Nat /\ BodyWords + 4 =< Base + 1
  BY BaseFacts, BodyAssumption
<1>5. sum =< (n + 4) * W /\ (n + 4) + 1 =< Base + 1 /\ n + 4 \in Nat
  BY <1>1, <1>2, <1>3, <1>4 DEF Bounded
<1>6. sum' = sum + w /\ sum' =< ((n + 4) + 1) * W
  BY <1>2, <1>5, Addition DEF AddWord
<1>7. (n + 4) + 1 = n' + 4 /\ n' =< BodyWords
  BY <1>2, <1>3, <1>4
<1>8. Bounded'
  BY <1>3, <1>6, <1>7 DEF Bounded
<1>9. (sum + w) % W = (((body + w) % W) + pseudo) % W
  <2>1. sum % W = (body + pseudo) % W
    BY <1>1, <1>2, <1>3 DEF SumExact
  <2>2. sum \in Int
    BY <1>2
  <2>3. Alike(sum, body, pseudo, w)
    BY <1>2, <2>2, AddedAlike
  <2> QED
    BY <2>1, <2>3 DEF Alike
<1>10. (((body + w) % W) + pseudo) = pseudo + ((body + w) % W)
  <2>1. (body + w) % W \in Int
    BY <1>2, RemainderType, BaseFacts
  <2> QED
    BY <1>2, <2>1
<1>11. SumExact'
  BY <1>6, <1>9, <1>10 DEF SumExact, AddWord
<1> QED
  BY <1>8, <1>11

LEMMA AddLengthStep ==
    ASSUME IInv, NEW high \in Words, NEW low \in Words, AddLength(high, low)
    PROVE  Bounded' /\ SumExact'
<1>1. TypeOK /\ Bounded /\ SumExact
  BY DEF IInv
<1>2. /\ n \in Nat /\ sum \in Nat /\ pseudo \in Int /\ body \in Int
      /\ high \in Int /\ low \in Int
  BY <1>1, Numbers, WordsInU32
<1>3. Protocol \in Words /\ Protocol \in Int
  BY ProtocolAssumption, WordsInU32 DEF Protocol
<1>4. n = 0 /\ sum =< W /\ pc = "length" /\ pc' = "body" /\ n' = n
  BY <1>1 DEF Bounded, AddLength
<1>5. Base \in Nat /\ Base >= 8 /\ W \in Nat
  BY BaseFacts
<1>6. 1 * W = W
  BY <1>5
<1>7. WrappingAdd(sum, high) = sum + high /\ sum + high \in Nat
      /\ sum + high =< 2 * W
  BY <1>2, <1>4, <1>5, <1>6, Addition
<1>8. /\ WrappingAdd(sum + high, low) = (sum + high) + low
      /\ (sum + high) + low \in Nat
      /\ (sum + high) + low =< 3 * W
  BY <1>5, <1>7, Addition
<1>9. /\ WrappingAdd((sum + high) + low, Protocol) = ((sum + high) + low) + Protocol
      /\ ((sum + high) + low) + Protocol =< 4 * W
  BY <1>3, <1>5, <1>8, Addition
<1>10. sum' = ((sum + high) + low) + Protocol
  BY <1>7, <1>8, <1>9 DEF AddLength
<1>11. n' + 4 = 4 /\ n' =< BodyWords
  BY <1>4, BodyAssumption
<1>12. Bounded'
  BY <1>4, <1>9, <1>10, <1>11 DEF Bounded
<1> DEFINE w == high + low + Protocol
<1>13. sum' = sum + w /\ pseudo + high + low + Protocol = pseudo + w /\ w \in Int
  BY <1>2, <1>3, <1>10
<1> HIDE DEF w
<1>14. pseudo' = (pseudo + w) % W
  BY <1>13 DEF AddLength
<1>15. (sum + w) % W = (((pseudo + w) % W) + body) % W
  <2>1. sum % W = (pseudo + body) % W
    BY <1>1, <1>4 DEF SumExact
  <2>2. sum \in Int
    BY <1>2
  <2>3. Alike(sum, pseudo, body, w)
    BY <1>2, <1>13, <2>2, AddedAlike
  <2> QED
    BY <2>1, <2>3 DEF Alike
<1>16. SumExact'
  BY <1>13, <1>14, <1>15 DEF SumExact, AddLength
<1> QED
  BY <1>12, <1>16

LEMMA FoldStep ==
    ASSUME IInv, Fold
    PROVE  Bounded' /\ SumExact'
<1>1. TypeOK /\ Bounded /\ SumExact
  BY DEF IInv
<1>2. n \in Nat /\ sum \in Nat /\ sum \in U32
  BY <1>1, Numbers
<1>3. pc \in {"source", "destination", "fold"} /\ pc' = pc /\ n' = n
      /\ AddressWords' = AddressWords
  BY DEF Fold, AddressWords
<1>4. sum' = Folded(sum) /\ sum' \in Nat /\ sum' =< sum
  BY <1>2, FoldedNull, FoldedBound DEF Fold
<1>5. Bounded'
  <2>1. n * W \in Int /\ (n + 1) * W \in Int
    BY <1>2, BaseFacts, Z3
  <2>2. CASE pc = "source"
    <3>1. n =< AddressWords /\ sum =< n * W
      BY <1>1, <2>2 DEF Bounded
    <3>2. sum' =< n * W
      BY <1>2, <1>4, <2>1, <3>1
    <3> QED
      BY <1>3, <2>2, <3>1, <3>2 DEF Bounded
  <2>3. CASE pc = "destination"
    <3>1. n =< AddressWords /\ sum =< (n + 1) * W
      BY <1>1, <2>3 DEF Bounded
    <3>2. sum' =< (n + 1) * W
      BY <1>2, <1>4, <2>1, <3>1
    <3> QED
      BY <1>3, <2>3, <3>1, <3>2 DEF Bounded
  <2>4. CASE pc = "fold"
    BY <1>3, <2>4 DEF Bounded
  <2> QED
    BY <1>3, <2>2, <2>3, <2>4
<1>6. SumExact'
  <2>1. sum' % W = sum % W
    BY <1>2, <1>4, FoldedAlike
  <2> QED
    BY <1>1, <1>3, <2>1 DEF SumExact, Fold
<1> QED
  BY <1>5, <1>6

LEMMA EndStep ==
    ASSUME IInv, EndAddress \/ EndBody
    PROVE  Bounded' /\ SumExact'
<1>1. TypeOK /\ Bounded /\ SumExact
  BY DEF IInv
<1>2. n \in Nat /\ sum \in Nat
  BY <1>1, Numbers
<1>3. CASE EndAddress
  <2>1. sum' = sum /\ sum =< W /\ n' = 0 /\ AddressWords' \in Nat
    BY <1>2, <1>3, BaseFacts DEF EndAddress, AddressWords
  <2>2. (n' + 1) * W = W
    BY <2>1, BaseFacts
  <2>3. Bounded'
    BY <1>3, <2>1, <2>2 DEF Bounded, EndAddress
  <2>4. SumExact'
    BY <1>1, <1>3 DEF SumExact, EndAddress
  <2> QED
    BY <2>3, <2>4
<1>4. CASE EndBody
  BY <1>1, <1>4 DEF Bounded, SumExact, EndBody
<1> QED
  BY <1>3, <1>4

\* A field that is the complement of the sum makes the whole verify.
LEMMA Complement ==
    ASSUME NEW s \in Int, NEW e \in Int, NEW f \in Int,
           s % W = e % W, Null(f + s)
    PROVE  (e + f) % W = 0
<1>1. Null(s - e)
  BY SameRemainder
<1>2. f + s \in Int /\ s - e \in Int /\ (f + s) - (s - e) = e + f /\ e + f \in Int
  OBVIOUS
<1>3. Null(e + f)
  BY <1>1, <1>2, NullSum
<1> QED
  BY <1>2, <1>3, ZeroRemainder

LEMMA FillStep ==
    ASSUME IInv, Fill \/ FillStraight
    PROVE  Made'
<1>1. TypeOK /\ SumExact /\ pc = "fold" /\ ~ partial
  BY DEF IInv, Adding, Fill, FillStraight
<1>2. /\ sum \in Int /\ sum \in U32 /\ pseudo \in Int /\ body \in Int
      /\ pseudo + body \in Int /\ W \in Nat /\ W >= 7 /\ sum \in Nat
  BY <1>1, Numbers, BaseFacts, WordsInU32
<1>3. sum % W = (pseudo + body) % W
  BY <1>1 DEF SumExact
<1>4. /\ field' \in Int /\ Null(field' + sum)
      /\ kind # "header" => field' # 0
  <2>1. CASE Fill
    <3>1. field' = Filled(sum) /\ sum =< W
      BY <1>2, <2>1, BaseFacts DEF Fill
    <3>2. CASE field' = W - sum /\ (kind # "header" => field' # 0)
      <4>1. field' + sum = W /\ field' \in Int
        BY <1>2, <3>2
      <4> QED
        BY <3>2, <4>1, Nulls
    <3>3. CASE field' = W /\ sum = W
      <4>1. Null(W + W)
        BY <1>2, Nulls, NullSum
      <4> QED
        BY <1>2, <3>3, <4>1
    <3>4. \/ field' = W - sum /\ (kind # "header" => field' # 0)
          \/ field' = W /\ sum = W
      BY <1>2, <3>1 DEF Filled
    <3> QED
      BY <3>2, <3>3, <3>4
  <2>2. CASE FillStraight
    <3> DEFINE f == FixedFold(sum)
    <3>1. f \in Words /\ Null(sum - f) /\ field' = W - f /\ kind = "header"
      BY <1>2, <2>2, FixedFoldRight DEF FillStraight
    <3>2. f \in Int
      BY <3>1, WordsInU32
    <3> HIDE DEF f
    <3>3. field' + sum = W + (sum - f) /\ field' \in Int /\ sum - f \in Int
      BY <1>2, <3>1, <3>2
    <3>4. Null(field' + sum)
      BY <1>2, <3>1, <3>3, Nulls, NullSum
    <3> QED
      BY <3>1, <3>3, <3>4
  <2> QED
    BY <2>1, <2>2
<1>5. ((pseudo + body) + field') % W = 0
  BY <1>2, <1>3, <1>4, Complement
<1>6. /\ pseudo' = pseudo /\ body' = body /\ kind' = kind /\ partial' = partial
  BY DEF Fill, FillStraight
<1>7. Total' = 0
  BY <1>5, <1>6 DEF Total
<1> QED
  BY <1>1, <1>4, <1>6, <1>7 DEF Made

\* Equal sums, equal verdicts.
LEMMA SameTotal ==
    ASSUME TypeOK, TypeOK',
           Null((pseudo' + body' + field') - (pseudo + body + field))
    PROVE  Total' = Total
<1>1. pseudo + body + field \in Int
  BY Numbers
<1>2. pseudo' + body' + field' \in Int
  <2>1. /\ pseudo' \in 0 .. W - 1 /\ body' \in 0 .. W - 1 /\ field' \in 0 .. W
    BY DEF TypeOK, Residues, Words
  <2> QED
    BY <2>1, BaseFacts
<1> DEFINE x == pseudo' + body' + field'
           y == pseudo + body + field
<1>3. x \in Int /\ y \in Int /\ Null(x - y)
  BY <1>1, <1>2
<1>4. Total' = x % W /\ Total = y % W
  BY DEF Total
<1> HIDE DEF x, y
<1>5. x % W = y % W
  BY <1>3, SameRemainder
<1> QED
  BY <1>4, <1>5

\* The field keeps the pseudo header's sum.
LEMMA SamePseudo ==
    ASSUME NEW f \in Int, NEW g \in Int, NEW p \in Int, NEW q \in Int,
           f % W = p, Null((g - q) - (f - p)), q \in Residues
    PROVE  g % W = q
<1>1. Null(f - (f % W))
  BY RemainderNull
<1>2. g - q \in Int /\ f - p \in Int /\ (g - q) - (f - p) \in Int
  OBVIOUS
<1>3. ((g - q) - (f - p)) + (f - p) = g - q
  OBVIOUS
<1>4. Null(g - q)
  BY <1>1, <1>2, <1>3, NullSum
<1>5. g % W = q % W
  BY <1>4, SameRemainder
<1>6. q % W = q
  BY BaseFacts, Z3 DEF Residues
<1> QED
  BY <1>5, <1>6

LEMMA OffloadStep ==
    ASSUME IInv, NEW w \in Words, NEW b \in Residues, Offload(w, b)
    PROVE  Made'
<1>1. /\ kind' = kind /\ kind # "header" /\ partial' = TRUE
      /\ field' = w /\ pseudo' = pseudo /\ w % W = pseudo
  BY DEF Offload, Segments
<1> QED
  BY <1>1 DEF Made

LEMMA ArriveStep ==
    ASSUME IInv, NEW w \in Words, Arrive(w)
    PROVE  Moved'
<1>1. TypeOK /\ Made /\ pc = "made"
  BY DEF IInv, Arrive
<1>2. /\ field \in Int /\ w \in Int /\ pseudo + body \in Int
      /\ field % W \in Int /\ partial \in BOOLEAN
  BY <1>1, Numbers, WordsInU32, RemainderType, BaseFacts DEF TypeOK
<1>3. /\ kind \in Segments /\ kind # "header" /\ field' = w /\ partial' = partial
      /\ pseudo' = pseudo /\ body' = body
      /\ intact' = (w % W = field % W)
      /\ w # field => ~ partial
  BY DEF Arrive, Segments
<1>4. CASE partial
  BY <1>1, <1>3, <1>4 DEF Made, Moved
<1>5. CASE ~ partial
  <2> DEFINE e == pseudo + body
  <2>1. (e + field) % W = 0
    BY <1>1, <1>3, <1>5 DEF Made, Total
  <2>2. e \in Int
    BY <1>2
  <2>3. Total' = (e + w) % W
    BY <1>3 DEF Total
  <2> HIDE DEF e
  <2>4. e + field \in Int /\ e + w \in Int /\ (e + w) - (e + field) = w - field
    BY <1>2, <2>2
  <2>5. (e + w) % W = (e + field) % W <=> w % W = field % W
    BY <1>2, <2>4, SameRemainder
  <2>6. Total' = 0 <=> w % W = field % W
    BY <2>1, <2>3, <2>5
  <2> QED
    BY <1>3, <1>5, <2>6 DEF Moved
<1> QED
  BY <1>4, <1>5

LEMMA CorrectPseudoStep ==
    ASSUME IInv, NEW d \in U32, CorrectPseudo(d)
    PROVE  Moved'
<1>1. TypeOK /\ TypeOK' /\ Moved /\ pc = "arrived"
  <2>1. [Next]_vars
    BY DEF Next
  <2> QED
    BY <2>1, TypeStep DEF IInv, CorrectPseudo
<1>2. /\ field \in Words /\ field \in Int /\ pseudo \in Int /\ body \in Int
      /\ d \in Int /\ partial \in BOOLEAN
  BY <1>1, Numbers, WordsInU32 DEF TypeOK
<1>3. /\ field' = ReplaceByDiff(field, d) /\ pseudo' = (pseudo + d) % W
      /\ body' = body /\ partial' = partial /\ intact' = intact
  BY DEF CorrectPseudo
<1>4. /\ field' \in Words /\ field' \in Int
      /\ ~ partial => Null((field' + d) - field)
      /\ partial => Null((field' - d) - field)
  BY <1>2, <1>3, ByDiffRight, WordsInU32
<1>5. pseudo' \in Residues /\ pseudo' \in Int /\ Null((pseudo + d) - pseudo')
  <2>1. pseudo + d \in Int
    BY <1>2
  <2>2. (pseudo + d) % W \in 0 .. W - 1 /\ Null((pseudo + d) - ((pseudo + d) % W))
    BY <2>1, RemainderType, RemainderNull
  <2> QED
    BY <1>3, <2>2, BaseFacts DEF Residues
<1>6. CASE partial
  <2>1. ((field' - d) - field) + ((pseudo + d) - pseudo')
           = (field' - pseudo') - (field - pseudo)
    BY <1>2, <1>4, <1>5
  <2>2. (field' - d) - field \in Int /\ (pseudo + d) - pseudo' \in Int
    BY <1>2, <1>4, <1>5
  <2>3. Null((field' - pseudo') - (field - pseudo))
    BY <1>4, <1>5, <1>6, <2>1, <2>2, NullSum
  <2>4. field % W = pseudo /\ intact
    BY <1>1, <1>6 DEF Moved
  <2>5. field' % W = pseudo'
    BY <1>2, <1>4, <1>5, <2>3, <2>4, SamePseudo
  <2> QED
    BY <1>3, <1>6, <2>4, <2>5 DEF Moved
<1>7. CASE ~ partial
  <2>1. ((field' + d) - field) - ((pseudo + d) - pseudo')
           = (pseudo' + body' + field') - (pseudo + body + field)
    BY <1>2, <1>3, <1>4, <1>5
  <2>2. (field' + d) - field \in Int /\ (pseudo + d) - pseudo' \in Int
    BY <1>2, <1>4, <1>5
  <2>3. Null((pseudo' + body' + field') - (pseudo + body + field))
    BY <1>4, <1>5, <1>7, <2>1, <2>2, NullSum
  <2>4. Total' = Total
    BY <1>1, <2>3, SameTotal
  <2> QED
    BY <1>1, <1>3, <1>7, <2>4 DEF Moved
<1> QED
  BY <1>6, <1>7

LEMMA CorrectPortStep ==
    ASSUME IInv, NEW old \in Words, NEW new \in Words, CorrectPort(old, new)
    PROVE  Moved'
<1>1. TypeOK /\ TypeOK' /\ Moved /\ pc = "ports"
  <2>1. [Next]_vars
    BY DEF Next
  <2> QED
    BY <2>1, TypeStep DEF IInv, CorrectPort
<1>2. /\ field \in Words /\ field \in Int /\ pseudo \in Int /\ body \in Int
      /\ old \in Int /\ new \in Int /\ W \in Int /\ partial \in BOOLEAN
  BY <1>1, Numbers, WordsInU32, BaseFacts DEF TypeOK
<1>3. /\ field' = Replace(field, old, new, FALSE)
      /\ body' = (body + new + (W - old)) % W
      /\ pseudo' = pseudo /\ partial' = partial /\ intact' = intact
  BY DEF CorrectPort, PortReplaced
<1>4. /\ field' \in Words /\ field' \in Int
      /\ ~ partial => Null((field' + new) - (field + old))
      /\ partial => field' = field
  BY <1>2, <1>3, ReplaceRight, WordsInU32
<1>5. CASE partial
  BY <1>1, <1>3, <1>4, <1>5 DEF Moved
<1>6. CASE ~ partial
  <2> DEFINE x == body + new + (W - old)
  <2>1. x \in Int
    BY <1>2
  <2>2. Null(x - body') /\ body' \in Int
    BY <1>3, <2>1, RemainderType, RemainderNull, BaseFacts
  <2>3. ((((field' + new) - (field + old)) + W) + 0) - ((x - body') + 0)
           = (pseudo' + body' + field') - (pseudo + body + field)
    <3>1. body' \in Int /\ field' \in Int /\ pseudo' = pseudo
      BY <1>3, <1>4, <2>2
    <3> QED
      BY <1>2, <3>1
  <2>4. /\ (field' + new) - (field + old) \in Int /\ x - body' \in Int
        /\ 0 \in Int /\ Null(0) /\ Null(W) /\ Null((field' + new) - (field + old))
    BY <1>2, <1>4, <1>6, <2>1, <2>2, Nulls
  <2>5. Null(((((field' + new) - (field + old)) + W) + 0) - ((x - body') + 0))
    <3> DEFINE u == (field' + new) - (field + old)
               v == x - body'
    <3>1. u \in Int /\ v \in Int /\ Null(u) /\ Null(v)
      BY <2>2, <2>4
    <3> HIDE DEF u, v
    <3>2. Null(((u + W) + 0) - (v + 0))
      BY <1>2, <2>4, <3>1, NullSum5
    <3> QED
      BY <3>2 DEF u, v
  <2>6. Null((pseudo' + body' + field') - (pseudo + body + field))
    BY <2>3, <2>5
  <2>7. Total' = Total
    BY <1>1, <2>6, SameTotal
  <2> QED
    BY <1>1, <1>3, <1>6, <2>7 DEF Moved
<1> QED
  BY <1>5, <1>6

LEMMA CorrectZeroStep ==
    ASSUME IInv, CorrectZero
    PROVE  Moved'
<1>1. TypeOK /\ TypeOK' /\ Moved /\ pc = "zero"
  <2>1. [Next]_vars
    BY DEF Next
  <2> QED
    BY <2>1, TypeStep DEF IInv, CorrectZero
<1>2. /\ field \in Words /\ field \in Int /\ pseudo \in Int /\ body \in Int
      /\ partial \in BOOLEAN /\ pseudo \in Residues
  BY <1>1, Numbers, WordsInU32 DEF TypeOK
<1>3. /\ field' = ZeroReplaced(field) /\ body' = body
      /\ pseudo' = pseudo /\ partial' = partial /\ intact' = intact
  BY DEF CorrectZero
<1>4. field' \in Words /\ field' \in Int /\ Null(field' - field)
  BY <1>2, <1>3, ZeroRight, WordsInU32
<1>5. CASE partial
  <2>1. (field' - pseudo) - (field - pseudo) = field' - field
    BY <1>2, <1>4
  <2>2. field % W = pseudo /\ intact
    BY <1>1, <1>5 DEF Moved
  <2>3. field' % W = pseudo
    BY <1>2, <1>4, <2>1, <2>2, SamePseudo
  <2> QED
    BY <1>3, <1>5, <2>2, <2>3 DEF Moved
<1>6. CASE ~ partial
  <2>1. (pseudo' + body' + field') - (pseudo + body + field) = field' - field
    BY <1>2, <1>3, <1>4
  <2>2. Total' = Total
    BY <1>1, <1>4, <2>1, SameTotal
  <2> QED
    BY <1>1, <1>3, <1>6, <2>2 DEF Moved
<1> QED
  BY <1>5, <1>6

LEMMA CompleteStep ==
    ASSUME IInv, Complete
    PROVE  Moved'
<1>1. TypeOK /\ Moved /\ pc = "out" /\ partial
  BY DEF IInv, Complete
<1>2. /\ field \in Int /\ pseudo \in Int /\ body \in Int /\ W \in Int
      /\ body + field \in Int
  BY <1>1, Numbers, WordsInU32, BaseFacts
<1> DEFINE r == (body + field) % W
<1>3. /\ field' = W - r /\ body' = body /\ pseudo' = pseudo
      /\ partial' = FALSE /\ intact' = intact
  BY DEF Complete
<1>4. r \in Int /\ Null((body + field) - r)
  BY <1>2, RemainderType, RemainderNull, BaseFacts
<1>5. field % W = pseudo /\ intact
  BY <1>1 DEF Moved
<1>6. Null(field - pseudo)
  BY <1>2, <1>5, RemainderNull
<1> HIDE DEF r
<1>7. ((((body + field) - r) + W) + 0) - ((field - pseudo) + 0)
         = pseudo + body + (W - r)
  BY <1>2, <1>4
<1>8. (body + field) - r \in Int /\ field - pseudo \in Int /\ 0 \in Int
  BY <1>2, <1>4
<1>9. Null(((((body + field) - r) + W) + 0) - ((field - pseudo) + 0))
  BY <1>2, <1>4, <1>6, <1>8, Nulls, NullSum5
<1>10. pseudo + body + (W - r) \in Int /\ Null(pseudo + body + (W - r))
  BY <1>2, <1>4, <1>7, <1>9
<1>11. Total' = 0
  BY <1>3, <1>10, ZeroRemainder DEF Total
<1> QED
  BY <1>3, <1>5, <1>11 DEF Moved

LEMMA Initially == Init => IInv
<1> SUFFICES ASSUME Init PROVE IInv
  OBVIOUS
<1>1. /\ n = 0 /\ sum = 0 /\ field = 0 /\ partial = FALSE /\ pseudo = 0
      /\ body = 0 /\ intact = TRUE /\ pc \in {"source", "body"}
      /\ kind \in Segments \cup {"header"} /\ family \in {4, 6}
  BY DEF Init
<1>2. W \in Nat /\ W >= 7 /\ 0 * W = 0 /\ 4 * W >= 0 /\ AddressWords >= 0
  BY BaseFacts DEF AddressWords
<1>3. TypeOK
  <2>1. 0 \in Residues /\ 0 \in 0 .. Base + 1 /\ 0 \in U32 /\ 0 \in Words
    BY <1>2, Ranges, BaseFacts DEF Residues
  <2> QED
    BY <1>1, <2>1 DEF TypeOK
<1>4. Bounded
  BY <1>1, <1>2, BodyAssumption DEF Bounded
<1>5. SumExact
  BY <1>1 DEF SumExact
<1> QED
  BY <1>1, <1>3, <1>4, <1>5 DEF IInv, Adding, Made, Moved

LEMMA Inductive == IInv /\ [Next]_vars => IInv'
<1> SUFFICES ASSUME IInv, [Next]_vars PROVE IInv'
  OBVIOUS
<1>1. TypeOK'
  BY TypeStep DEF IInv
<1>2. Adding => ~ partial
  BY DEF IInv
\* While the sum is made, nothing has been made or is corrected yet.
<1>3. ASSUME Adding, Adding', partial' = partial, Bounded', SumExact'
      PROVE  IInv'
  BY <1>1, <1>2, <1>3 DEF IInv, Adding, Made, Moved
\* Once it is used, nothing is added any more.
<1>4. ASSUME pc' = "made", Made' PROVE IInv'
  BY <1>1, <1>4 DEF IInv, Adding, Bounded, SumExact, Moved
<1>5. ASSUME pc' \in {"arrived", "ports", "zero", "out"}, Moved' PROVE IInv'
  BY <1>1, <1>5 DEF IInv, Adding, Bounded, SumExact, Made
<1>6. ASSUME NEW w \in Words, AddAddress(w) PROVE IInv'
  <2>1. Adding /\ Adding' /\ partial' = partial
    BY <1>6 DEF AddAddress, Adding
  <2> QED
    BY <1>3, <1>6, <2>1, AddAddressStep
<1>7. ASSUME NEW w \in Words, AddWord(w) PROVE IInv'
  <2>1. Adding /\ Adding' /\ partial' = partial
    BY <1>7 DEF AddWord, Adding
  <2> QED
    BY <1>3, <1>7, <2>1, AddWordStep
<1>8. ASSUME NEW w \in Words, Arrive(w) PROVE IInv'
  <2>1. pc' = "arrived"
    BY <1>8 DEF Arrive
  <2> QED
    BY <1>5, <1>8, <2>1, ArriveStep
<1>9. CASE Fold
  <2>1. Adding /\ Adding' /\ partial' = partial
    BY <1>9 DEF Fold, Adding
  <2> QED
    BY <1>3, <1>9, <2>1, FoldStep
<1>10. CASE EndAddress \/ EndBody
  <2>1. Adding /\ Adding' /\ partial' = partial
    BY <1>10 DEF EndAddress, EndBody, Adding
  <2> QED
    BY <1>3, <1>10, <2>1, EndStep
<1>11. ASSUME NEW high \in Words, NEW low \in Words, AddLength(high, low)
       PROVE  IInv'
  <2>1. Adding /\ Adding' /\ partial' = partial
    BY <1>11 DEF AddLength, Adding
  <2> QED
    BY <1>3, <1>11, <2>1, AddLengthStep
<1>12. CASE Fill \/ FillStraight
  <2>1. pc' = "made"
    BY <1>12 DEF Fill, FillStraight
  <2> QED
    BY <1>4, <1>12, <2>1, FillStep
<1>13. ASSUME NEW w \in Words, NEW b \in Residues, Offload(w, b) PROVE IInv'
  <2>1. pc' = "made"
    BY <1>13 DEF Offload
  <2> QED
    BY <1>4, <1>13, <2>1, OffloadStep
<1>14. ASSUME NEW d \in U32, CorrectPseudo(d) PROVE IInv'
  <2>1. pc' = "ports"
    BY <1>14 DEF CorrectPseudo
  <2> QED
    BY <1>5, <1>14, <2>1, CorrectPseudoStep
<1>15. ASSUME NEW old \in Words, NEW new \in Words, CorrectPort(old, new)
       PROVE  IInv'
  <2>1. pc' \in {"zero", "out"}
    BY <1>15 DEF CorrectPort
  <2> QED
    BY <1>5, <1>15, <2>1, CorrectPortStep
<1>16. CASE CorrectZero
  <2>1. pc' = "out"
    BY <1>16 DEF CorrectZero
  <2> QED
    BY <1>5, <1>16, <2>1, CorrectZeroStep
<1>17. CASE Complete
  <2>1. pc' = "out"
    BY <1>17 DEF Complete
  <2> QED
    BY <1>5, <1>17, <2>1, CompleteStep
<1>18. CASE UNCHANGED vars
  BY <1>18 DEF vars, IInv, TypeOK, Adding, Bounded, SumExact, Made, Moved,
               Total, AddressWords
<1> QED
  BY <1>6, <1>7, <1>8, <1>9, <1>10, <1>11, <1>12, <1>13, <1>14, <1>15,
     <1>16, <1>17, <1>18 DEF Next

LEMMA Invariant == Spec => []IInv
  BY Initially, Inductive, PTL DEF Spec

-----------------------------------------------------------------------------
(* The theorems.                                                           *)

\* Accumulator, checksum field and exact sums keep their widths in every
\* state of filling (natto64-xlat) and of correction (the dataplane).
THEOREM TypeCorrect == Spec => []TypeOK
<1>1. IInv => TypeOK
  BY DEF IInv
<1> QED
  BY <1>1, Invariant, PTL

\* No packet that respects the bound on its words, whatever they are, makes
\* checksum16_with_seed or a segment function lose a carry.
THEOREM SumsExact == Spec => []SumExact
<1>1. IInv => SumExact
  BY DEF IInv
<1> QED
  BY <1>1, Invariant, PTL

\* What tcp_checksum_ipv4 and its siblings, ipv4_header_checksum_20b and
\* write_ipv4_header fill in verifies, and is not zero in a segment.
THEOREM FilledCorrect == Spec => []FilledVerifies
<1>1. IInv => FilledVerifies
  BY DEF IInv, Made, FilledVerifies
<1> QED
  BY <1>1, Invariant, PTL

\* After apply_l4_nat64_checksum_delta_v6_to_v4 or _v4_to_v6 a packet
\* verifies if and only if it did before, for every difference of addresses
\* and every pair of ports, offloaded or not.
THEOREM VerdictCorrect == Spec => []VerdictPreserved
<1>1. IInv => VerdictPreserved
  BY DEF IInv, Moved, VerdictPreserved
<1> QED
  BY <1>1, Invariant, PTL

\* fold_u32_fixed returns what the loop of fold_sum would, for every value of
\* the accumulator.
THEOREM FoldsCorrect == Spec => FoldsAgree
<1>1. ASSUME TypeOK, Fold
      PROVE  /\ FixedFold(sum) = FixedFold(sum')
             /\ sum' < Base => FixedFold(sum') = sum'
  <2>1. sum \in U32 /\ sum' = Folded(sum)
    BY <1>1 DEF TypeOK, Fold
  <2>2. FixedFold(sum) \in Words
    BY <2>1, FixedFoldRight
  <2>3. FixedFold(sum') = Folded(FixedFold(sum))
    BY <2>1 DEF FixedFold
  <2>4. FixedFold(sum') = FixedFold(sum)
    BY <2>2, <2>3, FoldedWord
  <2>5. ASSUME sum' < Base PROVE FixedFold(sum') = sum'
    <3>1. sum' \in Nat
      BY <2>1, FoldedNull, Ranges
    <3>2. sum' \in Words
      BY <2>5, <3>1, BaseFacts DEF Words
    <3> QED
      BY <3>2, FoldedWord DEF FixedFold
  <2> QED
    BY <2>4, <2>5
<1>2. TypeOK => [Fold => /\ FixedFold(sum) = FixedFold(sum')
                         /\ sum' < Base => FixedFold(sum') = sum']_vars
  BY <1>1
<1> QED
  BY <1>2, TypeCorrect, PTL DEF FoldsAgree
=============================================================================
