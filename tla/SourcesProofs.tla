--------------------------- MODULE SourcesProofs ----------------------------
(***************************************************************************)
(* Proofs about Sources, for integers of any width and any bounds: the     *)
(* ranges of a first call share no row, and an operation that succeeds has *)
(* copied every row, but for the causes named.                             *)
(***************************************************************************)
EXTENDS Sources, DataLemmas

-----------------------------------------------------------------------------
(* int64 arithmetic.                                                       *)

\* The integers of the code's width.
LEMMA KeysAre ==
  /\ Half \in Nat \ {0} /\ Keys \subseteq Int /\ Nil \notin Int
  /\ \A x \in Int : x \in Keys <=> -Half <= x /\ x < Half
BY PartitioningAssumption DEF Keys, Least, Greatest

\* A wrapped integer is one of them, and differs by a multiple of their number.
LEMMA WrapIs ==
  ASSUME NEW x \in Int
  PROVE  Wrap(x) \in Keys /\ \E q \in Int : Wrap(x) = x + q * (2 * Half)
<1> DEFINE M == 2 * Half
<1>1. M \in Nat \ {0} /\ x + Half \in Int
  BY KeysAre
<1>2. Wrap(x) = ((x + Half) % M) - Half
  BY KeysAre DEF Wrap, Least
<1> HIDE DEF M
<1>3. (x + Half) % M \in 0..(M - 1) /\ x + Half = M * ((x + Half) \div M) + ((x + Half) % M) /\ (x + Half) \div M \in Int
  BY <1>1
<1> DEFINE q == -((x + Half) \div M)
<1>4. q \in Int /\ Wrap(x) = x + q * M
  BY <1>1, <1>2, <1>3, KeysAre
<1>5. Wrap(x) \in Keys
  <2>1. M = 2 * Half
    BY DEF M
  <2> HIDE DEF q
  <2> QED BY <1>1, <1>2, <1>3, <2>1, KeysAre
<1> QED BY <1>4, <1>5 DEF M

\* Two of them that differ by a multiple of their number are one.
LEMMA NoMultiple ==
  ASSUME NEW x \in Keys, NEW y \in Keys, NEW q \in Int, x = y + q * (2 * Half)
  PROVE  x = y
<1> DEFINE M == 2 * Half
<1>1. M \in Nat \ {0} /\ x \in Int /\ y \in Int /\ x - y < M /\ y - x < M /\ x = y + q * M
  BY KeysAre
<1> HIDE DEF M
<1>2. q >= 1 => q * M >= M
  BY <1>1
<1>3. q <= -1 => q * M <= -M
  BY <1>1
<1>4. q = 0
  <2> DEFINE p == q * M
  <2>1. p \in Int /\ (q >= 1 => p >= M) /\ (q <= -1 => p <= -M) /\ x = y + p
    BY <1>1, <1>2, <1>3
  <2> HIDE DEF p
  <2> QED BY <1>1, <2>1
<1> QED BY <1>1, <1>4

\* What is one of them already, once their number is added or taken away.
LEMMA WrapOf ==
  ASSUME NEW x \in Int, NEW q \in Int, x + q * (2 * Half) \in Keys
  PROVE  Wrap(x) = x + q * (2 * Half)
<1>1. PICK p \in Int : Wrap(x) = x + p * (2 * Half)
  BY WrapIs
<1>2. Wrap(x) = (x + q * (2 * Half)) + (p - q) * (2 * Half)
  BY <1>1, KeysAre
<1> QED BY <1>2, WrapIs, NoMultiple

\* Sums may be wrapped at every step or at the end.
LEMMA WrapSum ==
  ASSUME NEW x \in Int, NEW y \in Int
  PROVE  Wrap(Wrap(x) + y) = Wrap(x + y)
<1>1. PICK p \in Int : Wrap(x) = x + p * (2 * Half)
  BY WrapIs
<1>2. Wrap(x) + y \in Int /\ x + y \in Int
  BY WrapIs, KeysAre
<1>3. PICK q \in Int : Wrap(Wrap(x) + y) = Wrap(x) + y + q * (2 * Half)
  BY <1>2, WrapIs
<1>4. Wrap(Wrap(x) + y) = (x + y) + (p + q) * (2 * Half)
  BY <1>1, <1>2, <1>3, KeysAre
<1> QED BY <1>2, <1>4, WrapIs, WrapOf

\* Numbers that are in range, or miss it by their number.
LEMMA WrapCases ==
  ASSUME NEW x \in Int
  PROVE  /\ x \in Keys => Wrap(x) = x
         /\ x + 2 * Half \in Keys => Wrap(x) = x + 2 * Half
         /\ x - 2 * Half \in Keys => Wrap(x) = x - 2 * Half
<1>1. x + 0 * (2 * Half) = x /\ x + 1 * (2 * Half) = x + 2 * Half /\ x + (-1) * (2 * Half) = x - 2 * Half
  BY KeysAre
<1> QED BY <1>1, WrapOf

\* The least and the greatest of some keys.
LEMMA MinMaxAre ==
  ASSUME NEW S, S \subseteq Keys, S # {}
  PROVE  /\ Min(S) \in S /\ \A x \in S : Min(S) <= x
         /\ Max(S) \in S /\ \A x \in S : x <= Max(S)
<1>0. \A x \in S : x \in Int /\ x + Half \in Nat /\ Half - x \in Nat
  BY KeysAre
<1>1. \E m \in S : \A x \in S : m <= x
  <2> DEFINE T == {x + Half : x \in S}
  <2>1. T \subseteq Nat /\ T # {}
    BY <1>0
  <2>2. PICK t \in T : \A u \in T : ~(<<u, t>> \in LessThan)
    BY <2>1, LessThanWellFounded, WFMin
  <2>3. PICK m \in S : t = m + Half
    BY <2>2
  <2>4. ASSUME NEW x \in S PROVE m <= x
    <3>1. x + Half \in T /\ x + Half \in Nat /\ t \in Nat
      BY <1>0, <2>1
    <3>2. ~(x + Half < t)
      BY <2>2, <3>1, SmallerIsBelow
    <3> QED BY <1>0, <2>3, <3>2, KeysAre
  <2> QED BY <2>4
<1>2. \E m \in S : \A x \in S : m >= x
  <2> DEFINE T == {Half - x : x \in S}
  <2>1. T \subseteq Nat /\ T # {}
    BY <1>0
  <2>2. PICK t \in T : \A u \in T : ~(<<u, t>> \in LessThan)
    BY <2>1, LessThanWellFounded, WFMin
  <2>3. PICK m \in S : t = Half - m
    BY <2>2
  <2>4. ASSUME NEW x \in S PROVE m >= x
    <3>1. Half - x \in T /\ Half - x \in Nat /\ t \in Nat
      BY <1>0, <2>1
    <3>2. ~(Half - x < t)
      BY <2>2, <3>1, SmallerIsBelow
    <3> QED BY <1>0, <2>3, <3>2, KeysAre
  <2> QED BY <2>4
<1>3. Min(S) \in S /\ \A x \in S : Min(S) <= x
  BY <1>1 DEF Min
<1>4. Max(S) \in S /\ \A x \in S : Max(S) >= x
  BY <1>2 DEF Max
<1> QED BY <1>0, <1>3, <1>4

\* Products with one factor in common.
LEMMA Products ==
  ASSUME NEW m \in Int, NEW n \in Int, m <= n, NEW step \in Int
  PROVE  /\ m * step \in Int /\ n * step \in Int
         /\ step >= 0 => m * step <= n * step
         /\ step <= 0 => m * step >= n * step
<1> DEFINE d == n - m
<1>1. d \in Nat /\ n = m + d
  OBVIOUS
<1>2. n * step = m * step + d * step
  BY <1>1
<1>3. (step >= 0 => d * step >= 0) /\ (step <= 0 => d * step <= 0)
  BY <1>1
<1> QED BY <1>1, <1>2, <1>3

\* A product with the number before.
LEMMA ProductBefore ==
  ASSUME NEW m \in Int, NEW step \in Int
  PROVE  (m - 1) * step + step = m * step /\ (m - 1) * step \in Int /\ m * step \in Int
OBVIOUS

\* Go's quotient: never so great that as many steps pass the dividend.
LEMMA QuotientIs ==
  ASSUME NEW x \in Int, NEW k \in Nat \ {0}
  PROVE  /\ Quotient(x, k) \in Int
         /\ x >= 0 => Quotient(x, k) >= 0 /\ k * Quotient(x, k) <= x
         /\ x < 0 => Quotient(x, k) <= 0 /\ k * Quotient(x, k) >= x
         /\ Quotient(x, k) = 0 => -k < x /\ x < k
<1>1. ASSUME NEW y \in Nat PROVE y \div k \in Nat /\ k * (y \div k) <= y /\ (y \div k = 0 => y < k)
  <2>1. y = k * (y \div k) + (y % k) /\ y % k \in 0..(k - 1) /\ y \div k \in Int
    OBVIOUS
  <2>2. y \div k >= 0
    <3> SUFFICES ASSUME y \div k <= -1 PROVE FALSE
      BY <2>1
    <3>1. k * (y \div k) <= -k
      BY <2>1
    <3> QED BY <2>1, <3>1
  <2>3. y \div k = 0 => y < k
    BY <2>1
  <2> QED BY <2>1, <2>2, <2>3
<1>2. CASE x >= 0
  BY <1>1, <1>2 DEF Quotient
<1>3. CASE x < 0
  <2>1. -x \in Nat /\ Quotient(x, k) = -((-x) \div k)
    BY <1>3 DEF Quotient
  <2>2. k * (-((-x) \div k)) = -(k * ((-x) \div k))
    BY <1>1, <2>1
  <2>3. (-x) \div k \in Nat /\ k * ((-x) \div k) <= -x /\ ((-x) \div k = 0 => -x < k)
    BY <1>1, <2>1
  <2> QED BY <1>3, <2>1, <2>2, <2>3
<1> QED BY <1>2, <1>3

-----------------------------------------------------------------------------
(* PostgreSQL's ranges.                                                    *)

\* k ranges of one width that follow each other from a; the last ends elsewhere.
RangesFrom(a, step, k, last) ==
  [i \in 1..k |-> Bounds(Wrap(a + (i - 1) * step), IF i = k THEN last ELSE Wrap(a + i * step))]

\* The width: so great that the starts stay below the greatest id and wrap nowhere; or
\* negative, if the distance of the ids overflowed, and then so small that a start that
\* wraps around is beyond the greatest id.
Forward(a, b, step, k) == step >= 1 /\ a + (k - 1) * step <= Greatest
Backward(a, b, step, k) == step <= -1 /\ a + (k - 1) * step > b - 2 * Half

\* Unless the ranges overshoot the width is one of these.
LEMMA PostgresStepIs ==
  ASSUME NEW a \in Keys, NEW b \in Keys, a < b, NEW k \in Nat \ {0}
  PROVE  /\ PostgresStep(a, b, k) \in Int
         /\ ~(b - a < k /\ a + k - 1 > Greatest) =>
              Forward(a, b, PostgresStep(a, b, k), k) \/ Backward(a, b, PostgresStep(a, b, k), k)
<1> DEFINE d == Wrap(b - a)
           q == Quotient(d, k)
           step == PostgresStep(a, b, k)
<1>0. /\ a \in Int /\ b \in Int /\ Half \in Nat \ {0} /\ -Half <= a /\ b < Half /\ Greatest = Half - 1
      /\ b - a \in Int /\ b - a > 0 /\ b - a < 2 * Half
  BY KeysAre DEF Greatest
<1>1. d \in Int /\ (b - a < Half => d = b - a) /\ (b - a >= Half => d = b - a - 2 * Half)
  <2>1. d \in Keys
    BY <1>0, WrapIs
  <2>2. b - a < Half => b - a \in Keys
    BY <1>0, KeysAre
  <2>3. b - a >= Half => (b - a) - 2 * Half \in Keys
    BY <1>0, KeysAre
  <2> QED BY <1>0, <2>1, <2>2, <2>3, WrapCases, KeysAre
<1> HIDE DEF d
<1>2. /\ q \in Int
      /\ d >= 0 => q >= 0 /\ k * q <= d
      /\ d < 0 => q <= 0 /\ k * q >= d
      /\ q = 0 => -k < d /\ d < k
  BY <1>1, QuotientIs
<1>3. step = IF q = 0 THEN 1 ELSE q
  BY DEF PostgresStep, d
<1> HIDE DEF q, step
<1>4. (k - 1) * q = k * q - q /\ k * q \in Int /\ (k - 1) * q \in Int
  BY <1>2
<1>5. CASE q = 0
  <2>1. step = 1 /\ (k - 1) * step = k - 1
    BY <1>3, <1>5
  <2>2. b - a < k \/ a + k - 1 <= Greatest
    BY <1>0
  <2>3. ASSUME ~(b - a < k /\ a + k - 1 > Greatest) PROVE a + k - 1 <= Greatest
    BY <1>0, <2>2, <2>3
  <2>4. ASSUME ~(b - a < k /\ a + k - 1 > Greatest) PROVE Forward(a, b, step, k)
    BY <2>1, <2>3, <2>4, <1>0 DEF Forward
  <2> QED BY <2>1, <2>4 DEF step
<1>6. CASE q >= 1
  <2>1. step = q /\ d = b - a
    BY <1>0, <1>1, <1>2, <1>3, <1>6
  <2>2. a + (k - 1) * step <= Greatest
    <3> DEFINE p == k * q
               u == (k - 1) * q
    <3>1. p \in Int /\ u = p - q /\ p <= d
      BY <1>0, <1>2, <1>4, <2>1
    <3> HIDE DEF p, u
    <3>2. a + u <= Greatest
      BY <1>0, <1>2, <1>6, <2>1, <3>1
    <3> QED BY <2>1, <3>2 DEF u
  <2>3. Forward(a, b, step, k)
    BY <1>6, <2>1, <2>2 DEF Forward
  <2> QED BY <1>2, <2>1, <2>3 DEF step
<1>7. CASE q <= -1
  <2>1. step = q /\ d < 0 /\ d = b - a - 2 * Half
    BY <1>0, <1>1, <1>2, <1>3, <1>7
  <2>2. a + (k - 1) * step > b - 2 * Half
    <3> DEFINE p == k * q
               u == (k - 1) * q
    <3>1. p \in Int /\ u = p - q /\ p >= d
      BY <1>0, <1>2, <1>4, <2>1
    <3> HIDE DEF p, u
    <3>2. a + u > b - 2 * Half
      BY <1>0, <1>2, <1>7, <2>1, <3>1
    <3> QED BY <2>1, <3>2 DEF u
  <2>3. Backward(a, b, step, k)
    BY <1>7, <2>1, <2>2 DEF Backward
  <2> QED BY <1>2, <2>1, <2>3 DEF step
<1> QED BY <1>2, <1>5, <1>6, <1>7

\* The ranges are of that form, and never more than asked for.
LEMMA PostgresRangesAre ==
  ASSUME NEW R, R \subseteq Keys, R # {}, NEW n \in Nat
  PROVE  \E k \in 1..AtLeastOne(n) : \E step \in Int :
           /\ PostgresRanges(R, n) = RangesFrom(Min(R), step, k, Wrap(Max(R) + 1))
           /\ PostgresOvershoots(R, k) \/ Forward(Min(R), Max(R), step, k) \/ Backward(Min(R), Max(R), step, k)
<1> DEFINE a == Min(R)
           b == Max(R)
           k == AtLeastOne(n)
<1>0. a \in Keys /\ b \in Keys /\ a <= b /\ a \in Int /\ b \in Int /\ k \in Nat \ {0}
  <2>1. a \in R /\ b \in R /\ a <= b
    BY MinMaxAre
  <2>2. k \in Nat \ {0}
    BY DEF AtLeastOne
  <2> HIDE DEF a, b, k
  <2> QED BY <2>1, <2>2, KeysAre
<1>1. CASE b <= a
  <2>1. PostgresRanges(R, n) = <<Bounds(a, Wrap(b + 1))>>
    BY <1>1 DEF PostgresRanges
  <2>2. Wrap(a + (1 - 1) * 1) = a /\ 1 \in 1..k
    <3>1. a + (1 - 1) * 1 = a
      BY <1>0
    <3> QED BY <1>0, <3>1, WrapCases
  <2>3. <<Bounds(a, Wrap(b + 1))>> = RangesFrom(a, 1, 1, Wrap(b + 1))
    <3> DEFINE e == Bounds(a, Wrap(b + 1))
    <3>1. RangesFrom(a, 1, 1, Wrap(b + 1)) = [i \in 1..1 |-> e]
      <4>1. \A i \in 1..1 : i = 1
        OBVIOUS
      <4> QED BY <2>2, <4>1 DEF RangesFrom
    <3> HIDE DEF e
    <3>2. <<e>> = [i \in 1..1 |-> e]
      OBVIOUS
    <3> QED BY <3>1, <3>2 DEF e
  <2>4. Forward(a, b, 1, 1)
    BY <1>0, KeysAre DEF Forward, Greatest
  <2> QED BY <2>1, <2>2, <2>3, <2>4
<1>2. CASE a < b
  <2> DEFINE step == PostgresStep(a, b, k)
             StartOf(i) == Wrap(a + (i - 1) * step)
  <2>1. PostgresRanges(R, n) =
          [i \in 1..k |-> Bounds(StartOf(i), IF i = k THEN Wrap(b + 1) ELSE Wrap(StartOf(i) + step))]
    <3>1. ~(b <= a)
      BY <1>0, <1>2
    <3> QED BY <3>1 DEF PostgresRanges
  <2>2. step \in Int /\ (PostgresOvershoots(R, k) \/ Forward(a, b, step, k) \/ Backward(a, b, step, k))
    BY <1>0, <1>2, PostgresStepIs DEF PostgresOvershoots
  <2> HIDE DEF step, k
  <2>3. ASSUME NEW i \in 1..k PROVE Wrap(StartOf(i) + step) = Wrap(a + i * step)
    <3>1. (i - 1) * step + step = i * step /\ (i - 1) * step \in Int /\ i * step \in Int
      BY <1>0, <2>2, ProductBefore
    <3>2. a + (i - 1) * step \in Int /\ (a + (i - 1) * step) + step = a + i * step
      BY <1>0, <2>2, <3>1
    <3> QED BY <2>2, <3>2, WrapSum
  <2>4. PostgresRanges(R, n) = RangesFrom(a, step, k, Wrap(b + 1))
    BY <2>1, <2>3 DEF RangesFrom
  <2>5. k \in 1..AtLeastOne(n)
    BY <1>0 DEF k
  <2> QED BY <2>2, <2>4, <2>5
<1> QED BY <1>0, <1>1, <1>2

\* Two of them share no id, unless they overshoot.
LEMMA PostgresApart ==
  ASSUME NEW a \in Keys, NEW b \in Keys, NEW k \in Nat \ {0}, NEW step \in Int, NEW last,
         Forward(a, b, step, k) \/ Backward(a, b, step, k),
         NEW i \in 1..k, NEW j \in 1..k, i < j,
         NEW x \in Int, a <= x, x <= b
  PROVE  ~(InRange(x, RangesFrom(a, step, k, last)[i]) /\ InRange(x, RangesFrom(a, step, k, last)[j]))
<1> DEFINE e == a + i * step
           t == a + (j - 1) * step
           z == a + (k - 1) * step
           u == a + (i - 1) * step
<1>0. /\ a \in Int /\ b \in Int /\ Half \in Nat \ {0} /\ -Half <= a /\ b < Half /\ Greatest = Half - 1
      /\ -Half <= b /\ a < Half /\ Nil \notin Int
  BY KeysAre DEF Greatest
<1>1. /\ e \in Int /\ t \in Int /\ z \in Int /\ u \in Int /\ e = u + step
      /\ step >= 0 => u >= a /\ e >= a /\ t >= e /\ z >= t
      /\ step <= 0 => u <= a /\ t <= e /\ z <= t
  <2>1. 0 * step = 0 /\ 0 \in Int /\ i \in Int /\ j - 1 \in Int /\ k - 1 \in Int /\ i - 1 \in Int
    OBVIOUS
  <2>2. (i - 1) * step + step = i * step
    BY <2>1, ProductBefore
  <2>3. /\ i * step \in Int /\ (j - 1) * step \in Int /\ (k - 1) * step \in Int /\ (i - 1) * step \in Int
        /\ step >= 0 => (i - 1) * step >= 0 /\ i * step >= 0 /\ (j - 1) * step >= i * step /\ (k - 1) * step >= (j - 1) * step
        /\ step <= 0 => (i - 1) * step <= 0 /\ (j - 1) * step <= i * step /\ (k - 1) * step <= (j - 1) * step
    <3>1. 0 <= i - 1 /\ 0 <= i /\ i <= j - 1 /\ j - 1 <= k - 1
      OBVIOUS
    <3> QED BY <2>1, <3>1, Products
  <2> QED BY <1>0, <2>1, <2>2, <2>3
<1>2. i # k /\ InRange(x, RangesFrom(a, step, k, last)[i]) => Wrap(u) <= x /\ x < Wrap(e)
  <2>1. Wrap(u) \in Int /\ Wrap(e) \in Int /\ RangesFrom(a, step, k, last)[i] = Bounds(Wrap(u), IF i = k THEN last ELSE Wrap(e))
    BY <1>1, WrapIs, KeysAre DEF RangesFrom
  <2> QED BY <1>0, <2>1 DEF InRange, Bounds
<1>3. InRange(x, RangesFrom(a, step, k, last)[j]) => Wrap(t) <= x
  <2>1. Wrap(t) \in Int /\ RangesFrom(a, step, k, last)[j] = Bounds(Wrap(t), IF j = k THEN last ELSE Wrap(a + j * step))
    BY <1>1, WrapIs, KeysAre DEF RangesFrom
  <2> QED BY <1>0, <2>1 DEF InRange, Bounds
<1> HIDE DEF e, t, z, u
<1> SUFFICES ASSUME Wrap(u) <= x, x < Wrap(e), Wrap(t) <= x PROVE FALSE
  BY <1>2, <1>3
<1>4. CASE Forward(a, b, step, k)
  <2>1. z <= Greatest /\ step >= 1
    BY <1>4 DEF Forward, z
  <2>2. e \in Keys /\ t \in Keys
    BY <1>0, <1>1, <2>1, KeysAre
  <2> QED BY <1>1, <2>2, WrapCases
<1>5. CASE Backward(a, b, step, k)
  <2>1. z > b - 2 * Half /\ step <= -1
    BY <1>5 DEF Backward, z
  <2>2. \A y \in Int : y > b - 2 * Half /\ y <= a => Wrap(y) = y \/ (y < -Half /\ Wrap(y) = y + 2 * Half)
    <3> SUFFICES ASSUME NEW y \in Int, y > b - 2 * Half, y <= a
                 PROVE  Wrap(y) = y \/ (y < -Half /\ Wrap(y) = y + 2 * Half)
      OBVIOUS
    <3>1. y \in Keys \/ (y < -Half /\ y + 2 * Half \in Keys)
      BY <1>0, KeysAre
    <3> QED BY <3>1, WrapCases
  <2>3. e < a /\ t <= e /\ t > b - 2 * Half /\ e > b - 2 * Half
    BY <1>0, <1>1, <2>1
  <2>4. e < -Half
    BY <1>0, <1>1, <2>2, <2>3
  <2>5. Wrap(t) = t + 2 * Half
    <3>1. t < -Half /\ t + 2 * Half \in Keys
      BY <1>0, <1>1, <2>3, <2>4, KeysAre
    <3> QED BY <1>1, <3>1, WrapCases
  <2> QED BY <1>0, <1>1, <2>3, <2>5
<1> QED BY <1>4, <1>5

-----------------------------------------------------------------------------
(* What a source's Partitions returns.                                     *)

PartsOK == [start : Keys \cup {Nil}, end : Keys \cup {Nil}]

\* The key x comes before the end e.
Before(x, e) == e = Nil \/ x < e

\* The greatest token, which no range of Cassandra's has.
Excepted(x) == src.engine = "cassandra" /\ x = Greatest

\* k ranges that follow each other, from before all of R and to an end.
Linked(r, k, R, end) ==
  /\ r[1].start = Nil \/ \A x \in R : r[1].start <= x
  /\ \A i \in 2..k : r[i].start # Nil /\ r[i].start = r[i - 1].end
  /\ r[k].end = end

\* No row of R is in two of them.
Apart(r, k, R) ==
  \A i, j \in 1..k : i < j => \A x \in R : ~(InRange(x, r[i]) /\ InRange(x, r[j]))

\* The fields of a range.
LEMMA BoundsAre ==
  ASSUME NEW x, NEW y
  PROVE  /\ Bounds(x, y).start = x /\ Bounds(x, y).end = y
         /\ x \in Keys \cup {Nil} /\ y \in Keys \cup {Nil} => Bounds(x, y) \in PartsOK
BY DEF Bounds, PartsOK

\* Ranges that start at at[1] to at[k].
RangesAlong(at, k, last) == [i \in 1..k |-> Bounds(at[i], IF i = k THEN last ELSE at[i + 1])]

Starts(at, k, last, R) ==
  /\ k \in Nat \ {0} /\ last \in Keys \cup {Nil} /\ R \subseteq Keys
  /\ at[1] \in Keys \cup {Nil}
  /\ at[1] = Nil \/ \A x \in R : at[1] <= x
  /\ \A i \in 2..k : at[i] \in Keys

\* Such ranges are linked from end to end, and apart if their starts ascend.
LEMMA RangesAlongAre ==
  ASSUME NEW k, NEW at, NEW last, NEW R, Starts(at, k, last, R)
  PROVE  /\ RangesAlong(at, k, last) \in [1..k -> PartsOK]
         /\ Linked(RangesAlong(at, k, last), k, R, last)
         /\ \A i \in 1..k : RangesAlong(at, k, last)[i].start = at[i]
         /\ \A i \in 1..(k - 1) : RangesAlong(at, k, last)[i].end = at[i + 1]
<1> DEFINE to == [i \in 1..k |-> IF i = k THEN last ELSE at[i + 1]]
           r == RangesAlong(at, k, last)
<1>0. /\ k \in Nat \ {0} /\ last \in Keys \cup {Nil} /\ R \subseteq Keys
      /\ at[1] \in Keys \cup {Nil}
      /\ at[1] = Nil \/ \A x \in R : at[1] <= x
      /\ \A i \in 2..k : at[i] \in Keys
  BY DEF Starts
<1>1. \A i \in 1..k : at[i] \in Keys \cup {Nil} /\ (i = 1 \/ i \in 2..k)
  BY <1>0
<1>2. ASSUME NEW i \in 1..k PROVE to[i] \in Keys \cup {Nil} /\ (i # k => to[i] = at[i + 1])
  <2>1. i # k => i + 1 \in 2..k
    BY <1>0
  <2> QED BY <1>0, <2>1
<1>3. to[k] = last
  BY <1>0
<1>4. r = [i \in 1..k |-> Bounds(at[i], to[i])]
  BY DEF RangesAlong
<1> HIDE DEF to, r
<1>5. ASSUME NEW i \in 1..k PROVE r[i] \in PartsOK /\ r[i].start = at[i] /\ r[i].end = to[i]
  <2>1. r[i] = Bounds(at[i], to[i])
    BY <1>4
  <2> QED BY <1>1, <1>2, <2>1, BoundsAre
<1>6. r \in [1..k -> PartsOK]
  BY <1>4, <1>5
<1>7. Linked(r, k, R, last)
  <2>1. ASSUME NEW i \in 2..k PROVE r[i].start # Nil /\ r[i].start = r[i - 1].end
    <3>1. i \in 1..k /\ i - 1 \in 1..k /\ i - 1 # k /\ (i - 1) + 1 = i
      BY <1>0
    <3>2. to[i - 1] = at[i] /\ at[i] # Nil
      BY <1>0, <1>2, <3>1, KeysAre
    <3> QED BY <1>5, <3>1, <3>2
  <2>2. 1 \in 1..k /\ k \in 1..k
    BY <1>0
  <2>3. r[1].start = at[1] /\ r[k].end = last
    BY <1>3, <1>5, <2>2
  <2> QED BY <1>0, <2>1, <2>3 DEF Linked
<1>8. \A i \in 1..(k - 1) : r[i].end = at[i + 1]
  <2>1. \A i \in 1..(k - 1) : i \in 1..k /\ i # k
    BY <1>0
  <2> QED BY <1>2, <1>5, <2>1
<1> QED BY <1>5, <1>6, <1>7, <1>8 DEF r

\* They share nothing if the starts ascend.
LEMMA AscendingApart ==
  ASSUME NEW k, NEW at, NEW last, NEW R, Starts(at, k, last, R), \A i, j \in 2..k : i <= j => at[i] <= at[j]
  PROVE  Apart(RangesAlong(at, k, last), k, R)
<1> DEFINE r == RangesAlong(at, k, last)
<1> HIDE DEF r
<1>1. (\A i \in 1..k : r[i].start = at[i]) /\ \A i \in 1..(k - 1) : r[i].end = at[i + 1]
  <2>1. /\ Linked(RangesAlong(at, k, last), k, R, last)
        /\ \A i \in 1..k : RangesAlong(at, k, last)[i].start = at[i]
        /\ \A i \in 1..(k - 1) : RangesAlong(at, k, last)[i].end = at[i + 1]
    BY RangesAlongAre
  <2> QED BY <2>1 DEF r
<1>0. k \in Nat \ {0} /\ R \subseteq Keys /\ \A i \in 2..k : at[i] \in Keys
  BY DEF Starts
<1> SUFFICES ASSUME NEW i \in 1..k, NEW j \in 1..k, i < j, NEW x \in R, InRange(x, r[i]), InRange(x, r[j])
             PROVE  FALSE
  BY DEF Apart, r
<1>2. i \in 1..(k - 1) /\ i + 1 \in 2..k /\ j \in 2..k /\ i + 1 <= j
  BY <1>0
<1>3. at[i + 1] \in Keys /\ at[j] \in Keys /\ at[i + 1] <= at[j] /\ r[i].end = at[i + 1] /\ r[j].start = at[j]
  BY <1>0, <1>1, <1>2
<1>4. x < at[i + 1] /\ at[j] <= x
  BY <1>0, <1>3, KeysAre DEF InRange
<1> DEFINE u == at[i + 1]
           v == at[j]
<1>5. u \in Int /\ v \in Int /\ x \in Int /\ u <= v /\ x < u /\ v <= x
  BY <1>0, <1>3, <1>4, KeysAre
<1> HIDE DEF u, v
<1> QED BY <1>5

\* PostgreSQL: none if there is no row.
LEMMA PostgresSplits ==
  ASSUME NEW R, R \subseteq Keys, R # {}, NEW n \in Nat
  PROVE  \E k \in 1..AtLeastOne(n) :
           /\ PostgresRanges(R, n) \in [1..k -> PartsOK]
           /\ Linked(PostgresRanges(R, n), k, R, Wrap(Max(R) + 1))
           /\ PostgresOvershoots(R, k) \/ Apart(PostgresRanges(R, n), k, R)
<1> DEFINE a == Min(R)
           b == Max(R)
           last == Wrap(Max(R) + 1)
<1>0. /\ a \in Keys /\ b \in Keys /\ last \in Keys
      /\ \A x \in R : x \in Int /\ a <= x /\ x <= b
  <2>1. a \in R /\ b \in R /\ \A x \in R : a <= x /\ x <= b
    BY MinMaxAre
  <2>2. last \in Keys
    <3>1. b \in Int
      BY <2>1, KeysAre
    <3> QED BY <3>1, WrapIs
  <2> HIDE DEF a, b, last
  <2> QED BY <2>1, <2>2, KeysAre
<1>1. PICK k \in 1..AtLeastOne(n), step \in Int :
        /\ PostgresRanges(R, n) = RangesFrom(a, step, k, last)
        /\ PostgresOvershoots(R, k) \/ Forward(a, b, step, k) \/ Backward(a, b, step, k)
  BY PostgresRangesAre
<1> HIDE DEF a, b, last
<1> DEFINE at == [i \in Int |-> Wrap(a + (i - 1) * step)]
<1>2. k \in Nat \ {0}
  BY DEF AtLeastOne
<1>3. RangesFrom(a, step, k, last) = RangesAlong(at, k, last)
  <2>1. \A i \in 1..k : i \in Int /\ i + 1 \in Int /\ (i + 1) - 1 = i
    BY <1>2
  <2> QED BY <2>1 DEF RangesFrom, RangesAlong
<1>4. at[1] = a
  <2>1. at[1] = Wrap(a + (1 - 1) * step) /\ a + (1 - 1) * step = a
    BY <1>0, KeysAre
  <2> QED BY <1>0, <2>1, KeysAre, WrapCases
<1>5. ASSUME NEW i \in 2..k PROVE at[i] \in Keys
  <2>1. i \in Int /\ a + (i - 1) * step \in Int
    BY <1>0, KeysAre, ProductBefore
  <2> QED BY <2>1, WrapIs
<1> HIDE DEF at
<1>6. RangesAlong(at, k, last) \in [1..k -> PartsOK] /\ Linked(RangesAlong(at, k, last), k, R, last)
  <2>1. at[1] \in Keys \cup {Nil} /\ (\A x \in R : at[1] <= x) /\ last \in Keys \cup {Nil}
    BY <1>0, <1>4
  <2>2. Starts(at, k, last, R)
    BY <1>2, <1>5, <2>1 DEF Starts
  <2> QED BY <2>2, RangesAlongAre
<1>7. PostgresOvershoots(R, k) \/ Apart(RangesFrom(a, step, k, last), k, R)
  <2> SUFFICES ASSUME Forward(a, b, step, k) \/ Backward(a, b, step, k)
               PROVE  Apart(RangesFrom(a, step, k, last), k, R)
    BY <1>1
  <2> QED BY <1>0, <1>2, PostgresApart DEF Apart
<1> QED BY <1>1, <1>3, <1>6, <1>7 DEF last

\* Cassandra: whatever rows there are.
LEMMA CassandraSplits ==
  ASSUME NEW n \in Nat, NEW R, R \subseteq Keys
  PROVE  \E k \in 1..AtLeastOne(n) :
           /\ CassandraRanges(n) \in [1..k -> PartsOK]
           /\ Linked(CassandraRanges(n), k, R, Greatest)
           /\ Apart(CassandraRanges(n), k, R)
<1> DEFINE k == AtLeastOne(n)
           d == Greatest - Least
           step == d \div k
           at == [i \in Int |-> Least + (i - 1) * step]
<1>0. /\ Half \in Nat \ {0} /\ Greatest = Half - 1 /\ Least = -Half /\ d \in Nat
      /\ Greatest \in Keys /\ Least \in Keys /\ Least \in Int
      /\ k \in Nat \ {0} /\ k \in 1..AtLeastOne(n)
  BY KeysAre DEF AtLeastOne, Greatest, Least
<1>1. CassandraRanges(n) = RangesAlong(at, k, Greatest)
  <2>1. \A i \in 1..k : i \in Int /\ i + 1 \in Int
    BY <1>0
  <2> HIDE DEF k
  <2> QED BY <2>1 DEF CassandraRanges, RangesAlong, k
<1> HIDE DEF k, d
<1>2. step \in Nat /\ k * step <= d
  <2>1. d = k * (d \div k) + (d % k) /\ d % k \in 0..(k - 1) /\ d \div k \in Int
    BY <1>0
  <2>2. d \div k >= 0
    <3> SUFFICES ASSUME d \div k <= -1 PROVE FALSE
      BY <2>1
    <3>1. k * (d \div k) <= -k
      BY <1>0, <2>1
    <3> QED BY <1>0, <2>1, <3>1
  <2> HIDE DEF step
  <2>3. k * step = k * (d \div k) /\ step = d \div k
    BY DEF step
  <2> QED BY <1>0, <2>1, <2>2, <2>3
<1> HIDE DEF step
<1>3. ASSUME NEW i \in 1..k, NEW j \in 1..k, i <= j PROVE at[i] \in Keys /\ at[i] <= at[j]
  <2>1. /\ i \in Int /\ j \in Int /\ 0 <= i - 1 /\ i - 1 <= j - 1 /\ i - 1 <= k
        /\ i - 1 \in Int /\ j - 1 \in Int /\ k \in Int /\ 0 \in Int
    BY <1>0, <1>3
  <2>2. 0 * step = 0
    BY <1>2
  <2>3. /\ (i - 1) * step \in Int /\ (j - 1) * step \in Int /\ k * step \in Int
        /\ 0 <= (i - 1) * step /\ (i - 1) * step <= (j - 1) * step /\ (i - 1) * step <= k * step
    <3>1. step \in Int /\ step >= 0
      BY <1>2
    <3>2. /\ 0 * step <= (i - 1) * step /\ (i - 1) * step \in Int
      BY <2>1, <3>1, Products
    <3>3. (i - 1) * step <= (j - 1) * step /\ (j - 1) * step \in Int
      BY <2>1, <3>1, Products
    <3>4. (i - 1) * step <= k * step /\ k * step \in Int
      BY <2>1, <3>1, Products
    <3> QED BY <2>2, <3>2, <3>3, <3>4
  <2>4. at[i] = Least + (i - 1) * step /\ at[j] = Least + (j - 1) * step
    BY <2>1
  <2> HIDE DEF at
  <2>5. -Half <= at[i] /\ at[i] < Half /\ at[i] \in Int /\ at[i] <= at[j]
    <3> DEFINE u == (i - 1) * step
               v == (j - 1) * step
               w == k * step
    <3>1. u \in Int /\ v \in Int /\ w \in Int /\ 0 <= u /\ u <= v /\ u <= w /\ w <= d /\ d = Greatest - Least
      BY <1>2, <2>3 DEF d
    <3>2. at[i] = Least + u /\ at[j] = Least + v
      BY <2>4
    <3> HIDE DEF u, v, w
    <3> QED BY <1>0, <3>1, <3>2
  <2> QED BY <2>5, KeysAre
<1>4. at[1] = Least
  <2>1. at[1] = Least + (1 - 1) * step /\ (1 - 1) * step = 0
    BY <1>2
  <2> QED BY <1>0, <2>1
<1> HIDE DEF at
<1>5. Starts(at, k, Greatest, R) /\ \A i, j \in 2..k : i <= j => at[i] <= at[j]
  <2>1. \A i \in 2..k : i \in 1..k /\ i <= i
    BY <1>0
  <2>2. \A x \in R : Least <= x
    BY <1>0, KeysAre
  <2> QED BY <1>0, <1>3, <1>4, <2>1, <2>2 DEF Starts
<1>6. /\ RangesAlong(at, k, Greatest) \in [1..k -> PartsOK]
      /\ Linked(RangesAlong(at, k, Greatest), k, R, Greatest)
  BY <1>5, RangesAlongAre
<1>7. Apart(RangesAlong(at, k, Greatest), k, R)
  BY <1>5, AscendingApart
<1> QED BY <1>0, <1>1, <1>6, <1>7

\* Mongo: between keys that ascend, wherever they come from.
LEMMA BetweenSplits ==
  ASSUME NEW R, R \subseteq Keys, NEW b \in Seq(R), \A i, j \in DOMAIN b : i < j => b[i] <= b[j]
  PROVE  /\ Len(b) + 1 \in Nat \ {0}
         /\ Between(b) \in [1..(Len(b) + 1) -> PartsOK]
         /\ Linked(Between(b), Len(b) + 1, R, Nil)
         /\ Apart(Between(b), Len(b) + 1, R)
<1> DEFINE k == Len(b) + 1
           at == [i \in Nat |-> IF i = 1 THEN Nil ELSE b[i - 1]]
<1>1. k \in Nat \ {0} /\ Len(b) \in Nat /\ DOMAIN b = 1..Len(b) /\ \A i \in 1..Len(b) : b[i] \in Keys
  BY LenProperties, ElementOfSeq
<1>2. Between(b) = RangesAlong(at, k, Nil)
  <2>1. \A i \in 1..k : i \in Nat /\ i + 1 \in Nat /\ i + 1 # 1 /\ (i + 1) - 1 = i
    BY <1>1
  <2> QED BY <2>1 DEF Between, RangesAlong
<1>3. at[1] = Nil
  OBVIOUS
<1>4. \A i \in 2..k : at[i] = b[i - 1] /\ i - 1 \in 1..Len(b)
  BY <1>1
<1> HIDE DEF at, k
<1>5. Starts(at, k, Nil, R)
  BY <1>1, <1>3, <1>4 DEF Starts
<1>6. ASSUME NEW i \in 2..k, NEW j \in 2..k, i <= j PROVE at[i] <= at[j]
  <2>1. CASE i = j
    <3>1. at[i] \in Int
      BY <1>1, <1>4, KeysAre
    <3> QED BY <2>1, <3>1
  <2>2. CASE i # j
    <3>1. i - 1 < j - 1 /\ i - 1 \in DOMAIN b /\ j - 1 \in DOMAIN b
      BY <1>1, <1>4, <1>6, <2>2
    <3> QED BY <1>4, <3>1
  <2> QED BY <2>1, <2>2
<1>7. RangesAlong(at, k, Nil) \in [1..k -> PartsOK] /\ Linked(RangesAlong(at, k, Nil), k, R, Nil)
  BY <1>5, RangesAlongAre
<1>8. Apart(RangesAlong(at, k, Nil), k, R)
  BY <1>5, <1>6, AscendingApart
<1> QED BY <1>1, <1>2, <1>7, <1>8 DEF k

\* Enough IDs for the rows and for the readers.
LEMMA IDsAre ==
  /\ \A k \in Nat : k <= MaxRows + 1 => 1..k \subseteq IDs
  /\ \A n \in 0..MaxReaders : \A k \in 1..AtLeastOne(n) : 1..k \subseteq IDs
<1>1. MaxRows \in Nat /\ MaxReaders \in Nat
  BY SourcesAssumption
<1>2. \A k \in Nat : k <= MaxRows + 1 \/ k <= MaxReaders + 1 => 1..k \subseteq IDs
  BY <1>1 DEF IDs
<1>3. ASSUME NEW n \in 0..MaxReaders, NEW k \in 1..AtLeastOne(n) PROVE k \in Nat /\ k <= MaxReaders + 1
  BY <1>1 DEF AtLeastOne
<1> QED BY <1>2, <1>3

\* Keys in ascending order.
LEMMA AscendingIs ==
  ASSUME NEW R, R \subseteq Keys, IsFiniteSet(R), Cardinality(R) <= MaxRows, NEW S, S \subseteq R, NEW s \in Ascending(S)
  PROVE  /\ s \in Seq(S) /\ Len(s) \in Nat /\ Len(s) <= MaxRows /\ DOMAIN s = 1..Len(s) /\ Range(s) = S
         /\ \A i, j \in DOMAIN s : i < j => s[i] < s[j]
<1>1. IsFiniteSet(S) /\ Cardinality(S) <= Cardinality(R) /\ Cardinality(S) \in Nat /\ Cardinality(R) \in Nat
  BY FS_Subset, FS_CardinalityType
<1>2. MaxRows \in Nat
  BY SourcesAssumption
<1>3. s \in [1..Cardinality(S) -> S] /\ Range(s) = S /\ \A i, j \in DOMAIN s : i < j => s[i] < s[j]
  BY DEF Ascending
<1>4. s \in Seq(S) /\ Len(s) = Cardinality(S)
  <2>1. s = [i \in 1..Cardinality(S) |-> s[i]] /\ \A i \in 1..Cardinality(S) : s[i] \in S
    BY <1>3
  <2>2. s \in Seq(S)
    BY <1>1, <2>1, IsASeq
  <2>3. DOMAIN s = 1..Cardinality(S) /\ DOMAIN s = 1..Len(s) /\ Len(s) \in Nat
    BY <1>3, <2>2, LenProperties
  <2> QED BY <1>1, <2>2, <2>3
<1> QED BY <1>1, <1>2, <1>3, <1>4, LenProperties

\* The ways that Mongo has.
LEMMA MongoSplits ==
  ASSUME NEW R, R \subseteq Keys, IsFiniteSet(R), Cardinality(R) <= MaxRows,
         NEW n \in 0..MaxReaders, NEW r \in MongoRanges(R, n)
  PROVE  \E k \in Nat \ {0} :
           1..k \subseteq IDs /\ r \in [1..k -> PartsOK] /\ Linked(r, k, R, Nil) /\ Apart(r, k, R)
<1> DEFINE Good(b) == b \in Seq(R) /\ (\A i, j \in DOMAIN b : i < j => b[i] <= b[j]) /\ 1..(Len(b) + 1) \subseteq IDs
<1>0. MaxRows \in Nat /\ MaxReaders \in Nat /\ n \in Nat
  BY SourcesAssumption
<1>1. \E b : Good(b) /\ r = Between(b)
  <2>1. CASE r = Whole
    <3>1. <<>> \in Seq(R) /\ Len(<<>>) = 0
      BY EmptySeq
    <3>2. Whole = Between(<<>>)
      <4> DEFINE e == Bounds(Nil, Nil)
      <4>1. Between(<<>>) = [i \in 1..1 |-> e]
        <5>1. \A i \in 1..1 : i = 1
          OBVIOUS
        <5> QED BY <3>1, <5>1 DEF Between
      <4> HIDE DEF e
      <4>2. <<e>> = [i \in 1..1 |-> e]
        OBVIOUS
      <4> QED BY <4>1, <4>2 DEF e, Whole
    <3>3. 1..(0 + 1) \subseteq IDs
      BY <1>0, IDsAre
    <3>4. \A i, j \in DOMAIN <<>> : i < j => <<>>[i] <= <<>>[j]
      OBVIOUS
    <3> QED BY <2>1, <3>1, <3>2, <3>3, <3>4
  <2>2. CASE \E b \in SplitKeys(R) : r = Between(b)
    <3>0. PICK S \in SUBSET R : \E b \in Ascending(S) : r = Between(b)
      BY <2>2 DEF SplitKeys
    <3>1. PICK b \in Ascending(S) : r = Between(b)
      BY <3>0
    <3>2. b \in Seq(S) /\ Len(b) \in Nat /\ Len(b) <= MaxRows /\ \A i, j \in DOMAIN b : i < j => b[i] < b[j]
      BY <3>1, AscendingIs
    <3>3. b \in Seq(R) /\ DOMAIN b = 1..Len(b) /\ \A i \in 1..Len(b) : b[i] \in Int
      BY <3>2, SeqMonotonic, LenProperties, ElementOfSeq, KeysAre
    <3>4. 1..(Len(b) + 1) \subseteq IDs
      BY <1>0, <3>2, IDsAre
    <3> QED BY <3>1, <3>2, <3>3, <3>4
  <2>3. CASE n > 1 /\ \E b \in Samples(R, n) : r = Between(b)
    <3>1. PICK b \in SeqOf(R, n - 1) : r = Between(b) /\ \A i, j \in DOMAIN b : i < j => b[i] <= b[j]
      BY <2>3 DEF Samples
    <3>2. PICK m \in 0..(n - 1) : b \in [1..m -> R]
      BY <3>1 DEF SeqOf
    <3>3. m \in Nat /\ b \in Seq(R) /\ Len(b) = m
      <4>1. b = [i \in 1..m |-> b[i]] /\ (\A i \in 1..m : b[i] \in R) /\ m \in Nat
        BY <1>0, <3>2
      <4>2. b \in Seq(R)
        BY <4>1, IsASeq
      <4>3. DOMAIN b = 1..m /\ DOMAIN b = 1..Len(b) /\ Len(b) \in Nat
        BY <3>2, <4>2, LenProperties
      <4> QED BY <4>1, <4>2, <4>3
    <3>4. m + 1 \in 1..AtLeastOne(n)
      BY <1>0, <2>3, <3>2 DEF AtLeastOne
    <3>5. 1..(Len(b) + 1) \subseteq IDs
      BY <3>3, <3>4, IDsAre
    <3> QED BY <3>1, <3>3, <3>5
  <2> QED BY <1>0, <2>1, <2>2, <2>3 DEF MongoRanges
<1> QED BY <1>1, BetweenSplits

\* Iceberg: one for each file.
LEMMA FilesAre ==
  ASSUME rows \subseteq Keys, IsFiniteSet(rows), Cardinality(rows) <= MaxRows, NEW r \in Files
  PROVE  \E k \in Nat :
           /\ 1..k \subseteq IDs /\ r \in [1..k -> PartsOK]
           /\ \A i \in 1..k : r[i].start \in rows
           /\ \A i, j \in 1..k : i # j => r[i].start # r[j].start
           /\ src.listed /\ k = 0 => rows = {}
<1> DEFINE listed == IF src.listed THEN rows ELSE {}
<1>1. PICK s \in Ascending(listed) : r = [i \in DOMAIN s |-> Bounds(s[i], Nil)]
  BY DEF Files
<1>2. /\ s \in Seq(listed) /\ Len(s) \in Nat /\ Len(s) <= MaxRows /\ DOMAIN s = 1..Len(s) /\ Range(s) = listed
      /\ \A i, j \in DOMAIN s : i < j => s[i] < s[j]
  BY <1>1, AscendingIs
<1> DEFINE k == Len(s)
<1>3. 1..k \subseteq IDs
  BY <1>2, IDsAre, SourcesAssumption
<1>4. ASSUME NEW i \in 1..k PROVE s[i] \in rows /\ r[i] = Bounds(s[i], Nil)
  BY <1>1, <1>2, ElementOfSeq
<1>5. r \in [1..k -> PartsOK]
  <2>1. \A i \in 1..k : Bounds(s[i], Nil) \in PartsOK
    BY <1>4, BoundsAre
  <2> QED BY <1>1, <1>2, <2>1
<1>6. \A i \in 1..k : r[i].start = s[i]
  BY <1>4, BoundsAre
<1>7. ASSUME NEW i \in 1..k, NEW j \in 1..k, i # j PROVE s[i] # s[j]
  <2>1. s[i] \in Int /\ s[j] \in Int
    BY <1>4, KeysAre
  <2>2. i < j \/ j < i
    BY <1>2, <1>7
  <2> QED BY <1>2, <2>1, <2>2
<1>8. k = 0 => listed = {}
  <2> SUFFICES ASSUME k = 0 PROVE listed = {}
    OBVIOUS
  <2>1. DOMAIN s = {}
    BY <1>2
  <2> QED BY <1>2, <2>1 DEF Range
<1> QED BY <1>2, <1>3, <1>4, <1>5, <1>6, <1>7, <1>8

\* What any source's ranges r are, k of them.
Splits(r, k) ==
  /\ k \in Nat /\ 1..k \subseteq IDs /\ r \in [1..k -> PartsOK]
  /\ k = 0 => rows = {} \/ ~src.listed
  /\ src.engine = "iceberg" =>
       /\ \A i \in 1..k : r[i].start \in rows
       /\ \A i, j \in 1..k : i # j => r[i].start # r[j].start
  /\ src.engine # "iceberg" /\ k # 0 =>
       /\ Linked(r, k, rows, r[k].end)
       /\ \A x \in rows : \/ Before(x, r[k].end) \/ Excepted(x)
                          \/ src.engine = "postgres" /\ PostgresOverflows(rows)
  /\ src.engine # "iceberg" =>
       Apart(r, k, rows) \/ (src.engine = "postgres" /\ PostgresOvershoots(rows, k))

\* The ranges any source gives split the table.
LEMMA RangesAre ==
  ASSUME src \in Adapters, rows \subseteq Keys, IsFiniteSet(rows), Cardinality(rows) <= MaxRows,
         NEW n \in 0..MaxReaders, NEW r \in Ranges(n)
  PROVE  \E k : Splits(r, k)
<1>0. n \in Nat /\ src.engine \in {"postgres", "cassandra", "mongo", "iceberg"}
  BY SourcesAssumption DEF Adapters
<1>1. CASE src.engine = "postgres"
  <2>1. r = PostgresRanges(rows, n)
    BY <1>1 DEF Ranges
  <2>2. CASE rows = {}
    <3>1. r = <<>>
      BY <2>1, <2>2 DEF PostgresRanges
    <3>2. r \in [1..0 -> PartsOK] /\ 1..0 = {}
      BY <3>1
    <3> QED BY <1>1, <2>2, <3>2 DEF Splits, Apart
  <2>3. CASE rows # {}
    <3>1. PICK k \in 1..AtLeastOne(n) :
            /\ r \in [1..k -> PartsOK]
            /\ Linked(r, k, rows, Wrap(Max(rows) + 1))
            /\ PostgresOvershoots(rows, k) \/ Apart(r, k, rows)
      BY <1>0, <2>1, <2>3, PostgresSplits
    <3>2. k \in Nat \ {0} /\ 1..k \subseteq IDs
      BY <1>0, IDsAre DEF AtLeastOne
    <3>3. r[k].end = Wrap(Max(rows) + 1)
      BY <3>1 DEF Linked
    <3>4. ASSUME NEW x \in rows, ~PostgresOverflows(rows) PROVE Before(x, r[k].end)
      <4>1. Max(rows) \in rows /\ x <= Max(rows)
        BY <2>3, MinMaxAre
      <4>2. Max(rows) # Greatest
        BY <2>3, <3>4 DEF PostgresOverflows
      <4>3. Max(rows) \in Int /\ Max(rows) + 1 \in Keys /\ x \in Int
        <5> DEFINE m == Max(rows)
        <5>1. m \in Keys /\ m # Half - 1 /\ x \in Keys
          BY <4>1, <4>2 DEF Greatest
        <5> HIDE DEF m
        <5>2. m \in Int /\ m + 1 \in Keys /\ x \in Int
          BY <5>1, KeysAre
        <5> QED BY <5>2 DEF m
      <4>4. Wrap(Max(rows) + 1) = Max(rows) + 1
        BY <4>3, WrapCases
      <4> QED BY <3>3, <4>1, <4>3, <4>4 DEF Before
    <3> QED BY <1>1, <3>1, <3>2, <3>3, <3>4 DEF Splits
  <2> QED BY <2>2, <2>3
<1>2. CASE src.engine = "cassandra"
  <2>1. r = CassandraRanges(n)
    BY <1>2 DEF Ranges
  <2>2. PICK k \in 1..AtLeastOne(n) :
          r \in [1..k -> PartsOK] /\ Linked(r, k, rows, Greatest) /\ Apart(r, k, rows)
    BY <1>0, <2>1, CassandraSplits
  <2>3. k \in Nat \ {0} /\ 1..k \subseteq IDs
    BY <1>0, IDsAre DEF AtLeastOne
  <2>4. r[k].end = Greatest
    BY <2>2 DEF Linked
  <2>5. ASSUME NEW x \in rows PROVE Before(x, r[k].end) \/ Excepted(x)
    <3>1. x \in Int /\ x < Half /\ Greatest = Half - 1 /\ Half \in Int
      BY KeysAre DEF Greatest
    <3> QED BY <1>2, <2>4, <3>1 DEF Before, Excepted
  <2> QED BY <1>2, <2>2, <2>3, <2>4, <2>5 DEF Splits
<1>3. CASE src.engine = "mongo"
  <2>1. r \in MongoRanges(rows, n)
    BY <1>3 DEF Ranges
  <2>2. PICK k \in Nat \ {0} :
          1..k \subseteq IDs /\ r \in [1..k -> PartsOK] /\ Linked(r, k, rows, Nil) /\ Apart(r, k, rows)
    BY <2>1, MongoSplits
  <2>3. r[k].end = Nil
    BY <2>2 DEF Linked
  <2>4. \A x \in rows : Before(x, r[k].end)
    BY <2>3 DEF Before
  <2> QED BY <1>3, <2>2, <2>3, <2>4 DEF Splits
<1>4. CASE src.engine = "iceberg"
  <2>1. r \in Files
    BY <1>4 DEF Ranges
  <2>2. PICK k \in Nat :
           /\ 1..k \subseteq IDs /\ r \in [1..k -> PartsOK]
           /\ \A i \in 1..k : r[i].start \in rows
           /\ \A i, j \in 1..k : i # j => r[i].start # r[j].start
           /\ src.listed /\ k = 0 => rows = {}
    BY <2>1, FilesAre
  <2>3. k = 0 => rows = {} \/ ~src.listed
    BY <2>2
  <2> QED BY <1>4, <2>2, <2>3 DEF Splits
<1> QED BY <1>0, <1>1, <1>2, <1>3, <1>4

-----------------------------------------------------------------------------
(* The shape of the state.                                                 *)

CallOK ==
  /\ parts \in Seq(PartsOK) /\ query \in Seq(SUBSET rows) /\ Len(query) = Len(parts)
  /\ 1..Len(parts) \subseteq IDs

Shape ==
  /\ src \in Adapters
  /\ rows \subseteq Keys /\ IsFiniteSet(rows) /\ Cardinality(rows) <= MaxRows
  /\ first \subseteq rows /\ copied \subseteq Keys
  /\ phase \in {"idle", "running", "failed", "done"}
  /\ calls \in 0..MaxCalls /\ count \in Nat /\ broken \in BOOLEAN
  /\ CallOK
  /\ phase # "running" => parts = <<>> /\ query = <<>>
  /\ ckpt \in [IDs -> Keys \cup {Nil}]
  /\ ends \in [IDs -> SUBSET (Keys \cup {Nil})]
  /\ calls = 0 \/ src.engine = "iceberg" => \A i \in IDs : ckpt[i] = Nil
  /\ calls = 0 => phase = "idle"

\* No call is under way.
LEMMA AtRest == ASSUME NEW R PROVE <<>> \in Seq(PartsOK) /\ <<>> \in Seq(SUBSET R) /\ Len(<<>>) = 0 /\ 1..0 = {}
BY EmptySeq

\* Where the call's positions are.
LEMMA CallIs ==
  ASSUME CallOK
  PROVE  /\ Len(parts) \in Nat /\ DOMAIN parts = 1..Len(parts) /\ DOMAIN query = DOMAIN parts /\ DOMAIN parts \subseteq IDs
         /\ \A i \in DOMAIN parts : parts[i] \in PartsOK /\ query[i] \subseteq rows
         /\ parts = <<>> <=> Len(parts) = 0
<1>1. /\ Len(parts) \in Nat /\ DOMAIN parts = 1..Len(parts) /\ DOMAIN query = 1..Len(query)
      /\ \A i \in 1..Len(parts) : parts[i] \in PartsOK
      /\ \A i \in 1..Len(query) : query[i] \in SUBSET rows
  BY LenProperties, ElementOfSeq DEF CallOK
<1>2. parts = <<>> <=> Len(parts) = 0
  BY EmptySeq DEF CallOK
<1> QED BY <1>1, <1>2 DEF CallOK

\* A range whose start is moved.
LEMMA MovedIs ==
  ASSUME NEW p \in PartsOK, NEW c \in Keys \cup {Nil}
  PROVE  /\ [p EXCEPT !.start = c] \in PartsOK
         /\ [p EXCEPT !.start = c].start = c /\ [p EXCEPT !.start = c].end = p.end
BY DEF PartsOK

\* What is found by a call that begins: the k ranges r that the source made.
Begun(r, k) ==
  /\ Splits(r, k)
  /\ parts' \in Seq(PartsOK) /\ Len(parts') = k
  /\ query' \in Seq(SUBSET rows) /\ Len(query') = k
  /\ \A i \in 1..k :
       /\ parts'[i] \in PartsOK /\ parts'[i].end = r[i].end
       /\ ckpt[i] = Nil => parts'[i] = r[i]
       /\ ckpt[i] # Nil => parts'[i].start = ckpt[i]
       /\ query'[i] = Selects(i, parts'[i])
  /\ causes' = causes \cup Causes(r)
  /\ ends' = [i \in IDs |-> IF i \in 1..k THEN ends[i] \cup {r[i].end} ELSE ends[i]]
  /\ phase' = IF k = 0 THEN "done" ELSE "running"
  /\ DOMAIN r = 1..k

\* A call that begins finds such ranges.
LEMMA BeginIs == ASSUME Shape, Begin PROVE \E r : \E k : Begun(r, k)
<1>0. PICK n \in 0..MaxReaders : \E r \in Ranges(n) :
        /\ parts' = Resumed(r)
        /\ query' = [i \in DOMAIN r |-> Selects(i, parts'[i])]
        /\ causes' = causes \cup Causes(r)
        /\ ends' = [i \in IDs |-> IF i \in DOMAIN r THEN ends[i] \cup {r[i].end} ELSE ends[i]]
        /\ phase' = IF r = <<>> THEN "done" ELSE "running"
  BY DEF Begin
<1>1. PICK r \in Ranges(n) :
        /\ parts' = Resumed(r)
        /\ query' = [i \in DOMAIN r |-> Selects(i, parts'[i])]
        /\ causes' = causes \cup Causes(r)
        /\ ends' = [i \in IDs |-> IF i \in DOMAIN r THEN ends[i] \cup {r[i].end} ELSE ends[i]]
        /\ phase' = IF r = <<>> THEN "done" ELSE "running"
  BY <1>0
<1>2. PICK k : Splits(r, k)
  BY RangesAre DEF Shape
<1>3. /\ k \in Nat /\ 1..k \subseteq IDs /\ r \in [1..k -> PartsOK] /\ DOMAIN r = 1..k
      /\ src.engine = "iceberg" => \A i \in 1..k : r[i].start \in rows
  BY <1>2 DEF Splits
<1>4. r = <<>> <=> k = 0
  <2>1. r = [i \in 1..k |-> r[i]] /\ \A i \in 1..k : r[i] \in PartsOK
    BY <1>3
  <2>2. r \in Seq(PartsOK)
    BY <1>3, <2>1, IsASeq
  <2>3. Len(r) = k
    <3>1. DOMAIN r = 1..Len(r) /\ Len(r) \in Nat
      BY <2>2, LenProperties
    <3> QED BY <1>3, <3>1
  <2> QED BY <2>2, <2>3, EmptySeq
<1>5. ASSUME NEW i \in 1..k
      PROVE  /\ parts'[i] \in PartsOK /\ parts'[i].end = r[i].end
             /\ ckpt[i] = Nil => parts'[i] = r[i]
             /\ ckpt[i] # Nil => parts'[i].start = ckpt[i]
  <2>1. parts'[i] = IF ckpt[i] = Nil THEN r[i] ELSE [r[i] EXCEPT !.start = ckpt[i]]
    BY <1>1, <1>3 DEF Resumed
  <2>2. ckpt[i] \in Keys \cup {Nil} /\ r[i] \in PartsOK
    BY <1>3 DEF Shape
  <2> QED BY <2>1, <2>2, MovedIs
<1>6. ASSUME NEW i \in 1..k PROVE query'[i] = Selects(i, parts'[i]) /\ query'[i] \in SUBSET rows
  <2>1. query'[i] = Selects(i, parts'[i])
    BY <1>1, <1>3
  <2>2. Holds(parts'[i], rows) \subseteq rows
    BY DEF Holds
  <2>3. src.engine = "iceberg" => parts'[i].start \in rows
    BY <1>3, <1>5 DEF Shape
  <2>4. src.engine \in {"postgres", "cassandra", "mongo", "iceberg"}
    BY DEF Shape, Adapters
  <2>5. Selects(i, parts'[i]) \subseteq rows
    BY <2>2, <2>3, <2>4 DEF Selects, PostgresSelects, CassandraSelects, MongoSelects, IcebergSelects
  <2> QED BY <2>1, <2>5
<1>7. parts' \in Seq(PartsOK) /\ Len(parts') = k
  <2>1. DOMAIN parts' = 1..k /\ parts' = [i \in 1..k |-> parts'[i]]
    BY <1>1, <1>3 DEF Resumed
  <2>2. parts' \in Seq(PartsOK)
    BY <1>3, <1>5, <2>1, IsASeq
  <2>3. DOMAIN parts' = 1..Len(parts') /\ Len(parts') \in Nat
    BY <2>2, LenProperties
  <2> QED BY <1>3, <2>1, <2>2, <2>3
<1>8. query' \in Seq(SUBSET rows) /\ Len(query') = k
  <2>1. DOMAIN query' = 1..k /\ query' = [i \in 1..k |-> query'[i]]
    BY <1>1, <1>3
  <2>2. query' \in Seq(SUBSET rows)
    BY <1>3, <1>6, <2>1, IsASeq
  <2>3. DOMAIN query' = 1..Len(query') /\ Len(query') \in Nat
    BY <2>2, LenProperties
  <2> QED BY <1>3, <2>1, <2>2, <2>3
<1>9. /\ causes' = causes \cup Causes(r)
      /\ ends' = [i \in IDs |-> IF i \in 1..k THEN ends[i] \cup {r[i].end} ELSE ends[i]]
      /\ phase' = IF k = 0 THEN "done" ELSE "running"
  BY <1>1, <1>3, <1>4
<1>10. Begun(r, k)
  BY <1>2, <1>3, <1>5, <1>6, <1>7, <1>8, <1>9 DEF Begun
<1> QED BY <1>10

\* What a row that is read does to the call.
LEMMA ReadsIs ==
  ASSUME Shape, NEW i \in DOMAIN parts, Reads(i)
  PROVE  \E r \in query[i] :
           /\ r \in rows /\ r \in Keys
           /\ query' = [query EXCEPT ![i] = @ \ {r}]
           /\ copied' = copied \cup {r}
           /\ ckpt' = ckpt \/ (src.engine # "iceberg" /\ ckpt' = [ckpt EXCEPT ![i] = r])
           /\ causes' = causes \cup {c \in {"order"} : r # Min(query[i])}
           /\ Min(query[i]) \in query[i] /\ \A x \in query[i] : Min(query[i]) <= x
<1>1. query[i] \subseteq rows /\ rows \subseteq Keys /\ query[i] # {}
  BY CallIs DEF Shape, Reads
<1>2. Min(query[i]) \in query[i] /\ \A x \in query[i] : Min(query[i]) <= x
  BY <1>1, MinMaxAre
<1>3. PICK r \in Yields(i) :
       /\ query' = [query EXCEPT ![i] = @ \ {r}]
       /\ copied' = copied \cup {r}
       /\ Saves(i, r)
       /\ causes' = causes \cup {c \in {"order"} : r # Min(query[i])}
  BY DEF Reads
<1>4. r \in query[i]
  BY <1>2 DEF Yields
<1> QED BY <1>1, <1>2, <1>3, <1>4 DEF Saves

\* There are finitely many keys.
LEMMA KeysFinite == ASSUME NEW R, R \subseteq Keys PROVE IsFiniteSet(R)
<1>1. Least \in Int /\ Greatest \in Int
  BY KeysAre DEF Least, Greatest
<1>2. IsFiniteSet(Keys)
  BY <1>1, FS_Interval DEF Keys
<1> QED BY <1>2, FS_Subset

\* The state before the first call.
LEMMA ShapeInit == Init => Shape
<1> SUFFICES ASSUME Init PROVE Shape
  OBVIOUS
<1>1. rows \subseteq Keys /\ Cardinality(rows) <= MaxRows
  BY DEF Init
<1>2. CallOK
  BY AtRest DEF Init, CallOK
<1>3. IsFiniteSet(rows) /\ MaxCalls \in Nat
  BY <1>1, KeysFinite, SourcesAssumption
<1>4. /\ src \in Adapters /\ first \subseteq rows /\ copied \subseteq Keys /\ phase = "idle"
      /\ calls \in 0..MaxCalls /\ count \in Nat /\ broken \in BOOLEAN /\ parts = <<>> /\ query = <<>>
  <2>1. /\ src \in Adapters /\ first = {} /\ copied = {} /\ phase = "idle" /\ parts = <<>> /\ query = <<>>
        /\ calls = 0 /\ count = 0 /\ broken = FALSE
    BY DEF Init
  <2>2. calls \in 0..MaxCalls /\ count \in Nat
    BY <1>3, <2>1
  <2> QED BY <2>1, <2>2
<1>5. ckpt = [i \in IDs |-> Nil] /\ ends = [i \in IDs |-> {}]
  BY DEF Init
<1>6. ckpt \in [IDs -> Keys \cup {Nil}] /\ ends \in [IDs -> SUBSET (Keys \cup {Nil})] /\ \A i \in IDs : ckpt[i] = Nil
  BY <1>5
<1> QED BY <1>1, <1>2, <1>3, <1>4, <1>6 DEF Shape

\* Every step keeps the shape.
LEMMA ShapeStep == Shape /\ [Next]_vars => Shape'
<1> SUFFICES ASSUME Shape, [Next]_vars PROVE Shape'
  OBVIOUS
<1>0. /\ src \in Adapters
      /\ rows \subseteq Keys /\ IsFiniteSet(rows) /\ Cardinality(rows) <= MaxRows
      /\ first \subseteq rows /\ copied \subseteq Keys
      /\ phase \in {"idle", "running", "failed", "done"}
      /\ calls \in 0..MaxCalls /\ count \in Nat /\ broken \in BOOLEAN
      /\ CallOK
      /\ phase # "running" => parts = <<>> /\ query = <<>>
      /\ ckpt \in [IDs -> Keys \cup {Nil}]
      /\ ends \in [IDs -> SUBSET (Keys \cup {Nil})]
      /\ calls = 0 \/ src.engine = "iceberg" => \A i \in IDs : ckpt[i] = Nil
      /\ calls = 0 => phase = "idle"
      /\ MaxCalls \in Nat
  BY SourcesAssumption DEF Shape
<1>1. CASE Begin
  <2>1. PICK r, k : Begun(r, k)
    BY <1>1, BeginIs
  <2>2. /\ UNCHANGED <<src, rows, broken, count, ckpt, copied>>
        /\ calls < MaxCalls /\ calls' = calls + 1
        /\ first' \in {rows, first}
    BY <1>1 DEF Begin
  <2>3. /\ k \in Nat /\ 1..k \subseteq IDs
        /\ parts' \in Seq(PartsOK) /\ Len(parts') = k
        /\ query' \in Seq(SUBSET rows) /\ Len(query') = k
        /\ phase' = IF k = 0 THEN "done" ELSE "running"
        /\ \A i \in 1..k : r[i].end \in Keys \cup {Nil}
        /\ ends' = [i \in IDs |-> IF i \in 1..k THEN ends[i] \cup {r[i].end} ELSE ends[i]]
    BY <2>1 DEF Begun, Splits, PartsOK
  <2>4. CallOK'
    BY <2>2, <2>3 DEF CallOK
  <2>5. ends' \in [IDs -> SUBSET (Keys \cup {Nil})]
    BY <1>0, <2>3
  <2>6. phase' # "running" => parts' = <<>> /\ query' = <<>>
    BY <2>3, EmptySeq
  <2>7. /\ calls' \in 0..MaxCalls /\ calls' # 0 /\ first' \subseteq rows' /\ phase' \in {"running", "done"}
        /\ src.engine = "iceberg" => \A i \in IDs : ckpt'[i] = Nil
    BY <1>0, <2>2, <2>3
  <2> QED BY <1>0, <2>2, <2>4, <2>5, <2>6, <2>7 DEF Shape
<1>2. ASSUME NEW i \in DOMAIN parts, Reads(i) PROVE Shape'
  <2>1. PICK r \in query[i] :
           /\ r \in rows /\ r \in Keys
           /\ query' = [query EXCEPT ![i] = @ \ {r}]
           /\ copied' = copied \cup {r}
           /\ ckpt' = ckpt \/ (src.engine # "iceberg" /\ ckpt' = [ckpt EXCEPT ![i] = r])
    BY <1>2, ReadsIs
  <2>2. UNCHANGED <<src, rows, first, phase, calls, parts, broken, ends>> /\ count' \in {count, count + 1}
    BY <1>2 DEF Reads
  <2>3. /\ Len(parts) \in Nat /\ DOMAIN parts = 1..Len(parts) /\ DOMAIN query = DOMAIN parts
        /\ i \in IDs /\ query[i] \subseteq rows /\ parts # <<>>
    <3>1. i \in 1..Len(parts) /\ Len(parts) # 0
      BY <1>0, CallIs
    <3> QED BY <1>0, <3>1, CallIs
  <2>4. phase = "running" /\ calls # 0
    BY <1>0, <2>3
  <2>5. query' \in Seq(SUBSET rows) /\ Len(query') = Len(query)
    <3>1. query \in Seq(SUBSET rows) /\ i \in 1..Len(query) /\ query[i] \ {r} \in SUBSET rows
      BY <1>0, <2>3 DEF CallOK
    <3> QED BY <2>1, <3>1, ExceptSeq
  <2>6. CallOK'
    BY <1>0, <2>2, <2>5 DEF CallOK
  <2>7. ckpt' \in [IDs -> Keys \cup {Nil}] /\ (src.engine = "iceberg" => ckpt' = ckpt)
    BY <1>0, <2>1, <2>3
  <2>8. copied' \subseteq Keys /\ count' \in Nat
    BY <1>0, <2>1, <2>2
  <2> QED BY <1>0, <2>2, <2>4, <2>6, <2>7, <2>8 DEF Shape
<1>3. CASE Fails
  <2>1. UNCHANGED <<src, rows, first, phase, calls, parts, query, count, ckpt, ends, copied>> /\ broken' = TRUE
    BY <1>3 DEF Fails
  <2>2. CallOK'
    BY <1>0, <2>1 DEF CallOK
  <2> QED BY <1>0, <2>1, <2>2 DEF Shape
<1>4. CASE CallEnds \/ Crash
  <2>1. /\ UNCHANGED <<src, rows, first, calls, ckpt, ends, copied>>
        /\ parts' = <<>> /\ query' = <<>> /\ broken' = FALSE /\ count' = 0
        /\ phase = "running" /\ phase' \in {"done", "failed"}
    BY <1>4 DEF CallEnds, Crash, Forgets
  <2>2. CallOK'
    BY <2>1, AtRest DEF CallOK
  <2> QED BY <1>0, <2>1, <2>2 DEF Shape
<1>5. CASE TableChanges
  <2>1. /\ UNCHANGED <<src, calls, parts, query, broken, count, ckpt, ends, copied>>
        /\ phase = "failed" /\ phase' = "idle"
    BY <1>5 DEF TableChanges, callVars
  <2>2. PICK k \in Keys : IF k \in rows THEN rows' = rows \ {k} /\ first' = first \ {k}
                          ELSE Cardinality(rows) < MaxRows /\ rows' = rows \cup {k} /\ first' = first
    BY <1>5 DEF TableChanges
  <2>3. rows' \subseteq Keys /\ first' \subseteq rows'
    BY <1>0, <2>2
  <2>4. IsFiniteSet(rows')
    BY <2>3, KeysFinite
  <2>5. Cardinality(rows') <= MaxRows
    <3>0. Cardinality(rows) \in Nat /\ MaxRows \in Nat
      BY <1>0, FS_CardinalityType, SourcesAssumption
    <3>1. CASE k \in rows
      <4>1. Cardinality(rows \ {k}) = Cardinality(rows) - 1
        BY <1>0, <3>1, FS_RemoveElement
      <4>2. rows' = rows \ {k} /\ Cardinality(rows) <= MaxRows
        BY <1>0, <2>2, <3>1
      <4>3. Cardinality(rows') = Cardinality(rows) - 1
        BY <4>1, <4>2, Zenon
      <4> QED BY <3>0, <4>2, <4>3
    <3>2. CASE k \notin rows
      <4>1. Cardinality(rows \cup {k}) = Cardinality(rows) + 1
        BY <1>0, <3>2, FS_AddElement
      <4>2. rows' = rows \cup {k} /\ Cardinality(rows) < MaxRows
        BY <2>2, <3>2
      <4>3. Cardinality(rows') = Cardinality(rows) + 1
        BY <4>1, <4>2, Zenon
      <4> QED BY <3>0, <4>2, <4>3
    <3> QED BY <3>1, <3>2
  <2>6. CallOK'
    BY <1>0, <2>1, AtRest DEF CallOK
  <2> QED BY <1>0, <2>1, <2>3, <2>4, <2>5, <2>6 DEF Shape
<1>6. CASE UNCHANGED vars
  <2>1. UNCHANGED <<src, rows, first, phase, calls, parts, query, broken, count, ckpt, ends, copied>>
    BY <1>6 DEF vars, callVars
  <2>2. CallOK'
    BY <1>0, <2>1 DEF CallOK
  <2> QED BY <1>0, <2>1, <2>2 DEF Shape
<1> QED BY <1>1, <1>2, <1>3, <1>4, <1>5, <1>6 DEF Next, Goes

\* It says that the variables have their types.
LEMMA ShapeTypes == Shape => TypeOK
<1> SUFFICES ASSUME Shape PROVE TypeOK
  OBVIOUS
<1>1. \A i \in DOMAIN parts : parts[i] \in PartsOK /\ query[i] \subseteq rows
  BY CallIs DEF Shape
<1>2. \A i \in DOMAIN parts : {parts[i].start, parts[i].end} \subseteq Keys \cup {Nil}
  BY <1>1 DEF PartsOK
<1>3. DOMAIN parts \subseteq IDs
  BY CallIs DEF Shape
<1> QED BY <1>1, <1>2, <1>3 DEF Shape, TypeOK

-----------------------------------------------------------------------------
(* Nothing is read twice.                                                  *)

\* The ranges of a first call make queries that share no row.
LEMMA BeginReadsOnce == ASSUME Shape, Begin, calls = 0 PROVE FirstCallReadsOnce'
<1>0. PICK r, k : Begun(r, k)
  BY BeginIs
<1>1. /\ k \in Nat /\ 1..k \subseteq IDs /\ Len(parts') = k /\ DOMAIN parts' = 1..k
      /\ rows' = rows /\ src' = src
      /\ \A i \in 1..k : query'[i] = Selects(i, r[i]) /\ ckpt[i] = Nil
  <2>1. \A i \in IDs : ckpt[i] = Nil
    BY DEF Shape
  <2>2. k \in Nat /\ 1..k \subseteq IDs /\ Len(parts') = k /\ parts' \in Seq(PartsOK)
        /\ \A i \in 1..k : (ckpt[i] = Nil => parts'[i] = r[i]) /\ query'[i] = Selects(i, parts'[i])
    BY <1>0 DEF Begun, Splits
  <2>3. DOMAIN parts' = 1..k
    BY <2>2, LenProperties
  <2>4. rows' = rows /\ src' = src
    BY DEF Begin
  <2> QED BY <2>1, <2>2, <2>3, <2>4
<1> SUFFICES ASSUME ~(src.engine = "postgres" /\ PostgresOvershoots(rows, k)),
                    NEW i \in 1..k, NEW j \in 1..k, i # j
             PROVE  query'[i] \cap query'[j] = {}
  BY <1>1, Zenon DEF FirstCallReadsOnce
<1>2. src.engine \in {"postgres", "cassandra", "mongo", "iceberg"}
  BY DEF Shape, Adapters
<1>3. CASE src.engine = "iceberg"
  <2>1. r[i].start # r[j].start
    BY <1>0, <1>3 DEF Begun, Splits
  <2> QED BY <1>1, <1>3, <2>1 DEF Selects, IcebergSelects
<1>4. CASE src.engine # "iceberg"
  <2>1. Apart(r, k, rows)
    BY <1>0, <1>4 DEF Begun, Splits
  <2>2. query'[i] = Holds(r[i], rows) /\ query'[j] = Holds(r[j], rows)
    BY <1>1, <1>2, <1>4 DEF Selects, PostgresSelects, CassandraSelects, MongoSelects
  <2>3. i < j \/ j < i
    BY <1>1
  <2> QED BY <2>1, <2>2, <2>3 DEF Apart, Holds
<1> QED BY <1>3, <1>4

\* And reading makes them smaller.
LEMMA ReadsOnceStep == Shape /\ FirstCallReadsOnce /\ [Next]_vars => FirstCallReadsOnce'
<1> SUFFICES ASSUME Shape, FirstCallReadsOnce, [Next]_vars, calls' = 1 PROVE FirstCallReadsOnce'
  BY DEF FirstCallReadsOnce
<1>0. calls \in Nat
  BY DEF Shape
<1>1. CASE Begin
  <2>1. calls = 0
    BY <1>0, <1>1 DEF Begin
  <2> QED BY <1>1, <2>1, BeginReadsOnce
<1>2. ASSUME NEW i \in DOMAIN parts, Reads(i) PROVE FirstCallReadsOnce'
  <2>1. PICK r \in query[i] : query' = [query EXCEPT ![i] = @ \ {r}]
    BY <1>2, ReadsIs
  <2>2. UNCHANGED <<src, rows, calls, parts>>
    BY <1>2 DEF Reads
  <2>3. \A j \in DOMAIN parts : query'[j] \subseteq query[j]
    BY <2>1, CallIs DEF Shape
  <2> QED BY <2>2, <2>3 DEF FirstCallReadsOnce
<1>3. CASE Fails \/ UNCHANGED vars
  <2>1. UNCHANGED <<src, rows, calls, parts, query>>
    BY <1>3 DEF Fails, vars, callVars
  <2> QED BY <2>1 DEF FirstCallReadsOnce
<1>4. CASE CallEnds \/ Crash \/ TableChanges
  <2>1. parts' = <<>>
    BY <1>4 DEF CallEnds, Crash, Forgets, TableChanges, Shape, callVars
  <2> QED BY <2>1 DEF FirstCallReadsOnce
<1> QED BY <1>1, <1>2, <1>3, <1>4 DEF Next, Goes

-----------------------------------------------------------------------------
(* Nothing is lost without a cause.                                        *)

\* x is in the target, or has come before an end of a partition with a smaller ID.
Explained(x, i) == x \in copied \/ \E j \in IDs : j < i /\ \E e \in ends[j] : Before(x, e)

\* What is below a checkpoint is explained.
Saved == \A i \in IDs : ckpt[i] # Nil => \A x \in first : x < ckpt[i] => Explained(x, i)

\* So is what is below the start of a partition being read; what is in its range is to be
\* read or copied; it ends no earlier than it ever did; and every row is before some end.
Reading ==
  phase = "running" /\ src.engine # "iceberg" =>
    /\ \A i \in 1..Len(parts) :
         /\ \A x \in first : parts[i].start # Nil /\ x < parts[i].start => Explained(x, i)
         /\ \A x \in first : InRange(x, parts[i]) => x \in query[i] \cup copied
         /\ \A x \in query[i] : InRange(x, parts[i])
         /\ \A e \in ends[i] : EndsNoEarlier(parts[i].end, e)
    /\ \A x \in first : Excepted(x) \/ \E i \in 1..Len(parts) : Before(x, parts[i].end)

Ended == phase = "done" => \A x \in first : x \in copied \/ Excepted(x)

LossInv == causes = {} => Saved /\ Reading /\ Ended

\* What is explained stays so, if nothing is forgotten.
LEMMA StaysExplained ==
  ASSUME copied \subseteq copied', \A j \in IDs : ends[j] \subseteq ends'[j], NEW x, NEW i, Explained(x, i)
  PROVE  Explained(x, i)'
BY DEF Explained, Before

\* A call that begins without a cause.
LEMMA BeginCauses ==
  ASSUME NEW r, DOMAIN r \subseteq IDs, causes' = causes \cup Causes(r), causes' = {}
  PROVE  /\ causes = {}
         /\ ~(src.engine = "postgres" /\ PostgresOverflows(rows))
         /\ \A i \in DOMAIN r : \A e \in ends[i] : EndsNoEarlier(r[i].end, e)
         /\ src.textOffsets => \A i \in DOMAIN r : ckpt[i] = Nil
         /\ src.listed
<1>1. causes = {} /\ Causes(r) = {}
  OBVIOUS
<1>2. ~(src.engine = "postgres" /\ PostgresOverflows(rows))
  <2>1. ~("overflow" \in Causes(r))
    BY <1>1
  <2> QED BY <2>1, Zenon DEF Causes
<1>3. \A i \in DOMAIN r : \A e \in ends[i] : EndsNoEarlier(r[i].end, e)
  <2>1. ~("moved" \in Causes(r))
    BY <1>1
  <2> QED BY <2>1, Zenon DEF Causes
<1>4. src.textOffsets => \A i \in DOMAIN r : ckpt[i] = Nil
  <2>1. ~("text" \in Causes(r))
    BY <1>1
  <2> QED BY <2>1, Zenon DEF Causes
<1>5. src.listed
  <2>1. ~("unlisted" \in Causes(r))
    BY <1>1
  <2> QED BY <2>1, Zenon DEF Causes
<1> QED BY <1>1, <1>2, <1>3, <1>4, <1>5

\* The beginning of a call.
LEMMA BeginLoses == ASSUME Shape, LossInv, Begin, causes' = {} PROVE Saved' /\ Reading' /\ Ended'
<1>0. PICK r, k : Begun(r, k)
  BY BeginIs
<1>1. /\ k \in Nat /\ 1..k \subseteq IDs /\ DOMAIN r = 1..k
      /\ Len(parts') = k /\ phase' = IF k = 0 THEN "done" ELSE "running"
      /\ causes' = causes \cup Causes(r)
      /\ ends' = [i \in IDs |-> IF i \in 1..k THEN ends[i] \cup {r[i].end} ELSE ends[i]]
      /\ \A i \in 1..k :
           /\ parts'[i] \in PartsOK /\ parts'[i].end = r[i].end
           /\ ckpt[i] = Nil => parts'[i] = r[i]
           /\ ckpt[i] # Nil => parts'[i].start = ckpt[i]
           /\ query'[i] = Selects(i, parts'[i])
  BY <1>0 DEF Begun, Splits
<1>2. /\ causes = {}
      /\ ~(src.engine = "postgres" /\ PostgresOverflows(rows))
      /\ \A i \in 1..k : \A e \in ends[i] : EndsNoEarlier(r[i].end, e)
      /\ src.textOffsets => \A i \in 1..k : ckpt[i] = Nil
      /\ src.listed
  BY <1>1, BeginCauses
<1>3. /\ UNCHANGED <<src, rows, ckpt, copied>>
      /\ first' = (IF calls = 0 THEN rows ELSE first)
      /\ first' \subseteq rows /\ rows \subseteq Keys /\ Saved
      /\ calls = 0 => \A i \in IDs : ckpt[i] = Nil
  BY <1>2 DEF Begin, Shape, LossInv
<1>4. (\A j \in IDs : ends[j] \subseteq ends'[j]) /\ \A i \in 1..k : ends'[i] = ends[i] \cup {r[i].end}
  BY <1>1
<1>5. ASSUME NEW i \in IDs, ckpt[i] # Nil, NEW x \in first', x < ckpt[i] PROVE Explained(x, i)'
  <2>1. first' = first
    BY <1>3, <1>5
  <2>2. Explained(x, i)
    BY <1>3, <1>5, <2>1 DEF Saved
  <2> QED BY <1>3, <1>4, <2>2, StaysExplained
<1>6. Saved'
  BY <1>3, <1>5 DEF Saved
<1>7. Ended'
  <2> SUFFICES ASSUME phase' = "done" PROVE \A x \in first' : FALSE
    BY DEF Ended
  <2>1. k = 0
    BY <1>1
  <2>2. rows = {}
    BY <1>0, <1>2, <2>1 DEF Begun, Splits
  <2> QED BY <1>3, <2>2
<1>8. ASSUME src.engine # "iceberg", k # 0 PROVE Reading'
  <2>0. /\ Linked(r, k, rows, r[k].end)
        /\ \A x \in rows : Before(x, r[k].end) \/ Excepted(x)
        /\ r \in [1..k -> PartsOK]
    BY <1>0, <1>2, <1>8 DEF Begun, Splits
  <2>1. ASSUME NEW i \in 1..k, NEW x \in first', parts'[i].start # Nil, x < parts'[i].start
        PROVE  Explained(x, i)'
    <3>1. CASE ckpt[i] # Nil
      BY <1>1, <1>5, <2>1, <3>1
    <3>2. CASE ckpt[i] = Nil /\ i = 1
      <4>1. r[1].start # Nil /\ x < r[1].start /\ r[1].start <= x
        BY <1>1, <1>3, <2>0, <2>1, <3>2 DEF Linked
      <4>2. r[1].start \in Int /\ x \in Int
        BY <1>3, <2>0, <2>1, <4>1, <3>2, KeysAre DEF PartsOK
      <4> QED BY <4>1, <4>2
    <3>3. CASE ckpt[i] = Nil /\ i # 1
      <4>1. i \in 2..k /\ i - 1 \in 1..k /\ i - 1 \in IDs /\ i - 1 < i
        BY <1>1, <3>3
      <4>2. x < r[i - 1].end
        BY <1>1, <2>0, <2>1, <3>3, <4>1 DEF Linked
      <4>3. r[i - 1].end \in ends'[i - 1]
        BY <1>4, <4>1
      <4> QED BY <4>1, <4>2, <4>3 DEF Explained, Before
    <3> QED BY <3>1, <3>2, <3>3
  <2>2. ASSUME NEW i \in 1..k PROVE query'[i] = Holds(parts'[i], rows)
    <3>1. src.engine \in {"postgres", "cassandra", "mongo"}
      BY <1>8 DEF Shape, Adapters
    <3>2. ~(src.textOffsets /\ ckpt[i] # Nil)
      BY <1>2
    <3> QED BY <1>1, <3>1, <3>2 DEF Selects, PostgresSelects, CassandraSelects, MongoSelects
  <2>3. ASSUME NEW i \in 1..k, NEW e \in ends'[i] PROVE EndsNoEarlier(parts'[i].end, e)
    <3>1. CASE e \in ends[i]
      BY <1>1, <1>2, <3>1
    <3>2. CASE e = r[i].end
      <4>1. e = parts'[i].end /\ (e = Nil \/ e \in Int)
        BY <1>1, <3>2, KeysAre DEF PartsOK
      <4> QED BY <4>1 DEF EndsNoEarlier
    <3> QED BY <1>4, <2>3, <3>1, <3>2
  <2>4. ASSUME NEW x \in first' PROVE Excepted(x)' \/ \E i \in 1..k : Before(x, parts'[i].end)
    <3>1. k \in 1..k /\ parts'[k].end = r[k].end /\ (Before(x, r[k].end) \/ Excepted(x))
      BY <1>1, <1>3, <1>8, <2>0
    <3>2. Excepted(x) => Excepted(x)'
      BY <1>3 DEF Excepted
    <3> QED BY <3>1, <3>2
  <2>5. ASSUME NEW i \in 1..k
        PROVE  /\ \A x \in first' : InRange(x, parts'[i]) => x \in query'[i] \cup copied'
               /\ \A x \in query'[i] : InRange(x, parts'[i])
    BY <1>3, <2>2 DEF Holds
  <2> QED BY <1>1, <2>1, <2>3, <2>4, <2>5 DEF Reading, InRange, EndsNoEarlier, Before
<1>9. Reading'
  <2>1. phase' = "running" => k # 0
    BY <1>1
  <2> QED BY <1>3, <1>8, <2>1 DEF Reading
<1> QED BY <1>6, <1>7, <1>9

\* A row read in its order.
LEMMA ReadsLoses ==
  ASSUME Shape, LossInv, NEW i \in DOMAIN parts, Reads(i), causes' = {}
  PROVE  Saved' /\ Reading' /\ Ended'
<1>0. PICK r \in query[i] :
       /\ r \in rows /\ r \in Keys
       /\ query' = [query EXCEPT ![i] = @ \ {r}]
       /\ copied' = copied \cup {r}
       /\ ckpt' = ckpt \/ (src.engine # "iceberg" /\ ckpt' = [ckpt EXCEPT ![i] = r])
       /\ causes' = causes \cup {c \in {"order"} : r # Min(query[i])}
       /\ Min(query[i]) \in query[i] /\ \A x \in query[i] : Min(query[i]) <= x
  BY ReadsIs
<1>1. causes = {} /\ r = Min(query[i])
  <2>1. causes = {} /\ {c \in {"order"} : r # Min(query[i])} = {}
    BY <1>0
  <2>2. r = Min(query[i])
    BY <2>1, Zenon
  <2> QED BY <2>1, <2>2
<1>2. /\ UNCHANGED <<src, rows, first, phase, calls, parts, broken, ends>>
      /\ Saved /\ Reading /\ first \subseteq rows /\ rows \subseteq Keys
      /\ ckpt \in [IDs -> Keys \cup {Nil}]
  BY <1>1 DEF Reads, LossInv, Shape
<1>3. /\ Len(parts) \in Nat /\ DOMAIN parts = 1..Len(parts) /\ DOMAIN query = DOMAIN parts /\ i \in IDs
      /\ Len(parts) # 0 /\ parts # <<>> /\ query[i] \subseteq rows /\ parts[i] \in PartsOK
  <2>1. CallOK
    BY DEF Shape
  <2>2. Len(parts) # 0
    BY <2>1, CallIs
  <2> QED BY <2>1, <2>2, CallIs
<1>4. phase = "running"
  BY <1>3 DEF Shape
<1>5. (\A j \in IDs : ends[j] \subseteq ends'[j]) /\ copied \subseteq copied'
  BY <1>0, <1>2
<1>6. ASSUME src.engine # "iceberg", NEW x \in first, x < r PROVE Explained(x, i)'
  <2>1. /\ parts[i].start # Nil /\ x < parts[i].start => Explained(x, i)
        /\ InRange(x, parts[i]) => x \in query[i] \cup copied
        /\ InRange(r, parts[i])
    BY <1>2, <1>3, <1>4, <1>6 DEF Reading
  <2>2. x \in Int /\ r \in Int /\ (parts[i].start = Nil \/ parts[i].start \in Int) /\ (parts[i].end = Nil \/ parts[i].end \in Int)
    BY <1>0, <1>2, <1>3, KeysAre DEF PartsOK
  <2>3. CASE parts[i].start # Nil /\ x < parts[i].start
    BY <1>5, <2>1, <2>3, StaysExplained
  <2>4. CASE ~(parts[i].start # Nil /\ x < parts[i].start)
    <3>1. InRange(x, parts[i])
      BY <1>6, <2>1, <2>2, <2>4 DEF InRange
    <3>2. x \notin query[i]
      BY <1>0, <1>1, <1>6, <2>2
    <3>3. x \in copied'
      BY <1>5, <2>1, <3>1, <3>2
    <3> QED BY <3>3 DEF Explained
  <2> QED BY <2>3, <2>4
<1>7. Saved'
  <2> SUFFICES ASSUME NEW j \in IDs, ckpt'[j] # Nil, NEW x \in first, x < ckpt'[j] PROVE Explained(x, j)'
    BY <1>2 DEF Saved
  <2>1. CASE ckpt'[j] = ckpt[j]
    <3>1. Explained(x, j)
      BY <1>2, <2>1 DEF Saved
    <3> QED BY <1>5, <3>1, StaysExplained
  <2>2. CASE ckpt'[j] # ckpt[j]
    <3>1. j = i /\ ckpt'[i] = r /\ src.engine # "iceberg"
      BY <1>0, <1>2, <1>3, <2>2
    <3> QED BY <1>6, <3>1
  <2> QED BY <2>1, <2>2
<1>8. Reading'
  <2> SUFFICES ASSUME src.engine # "iceberg"
               PROVE  /\ \A j \in 1..Len(parts) :
                           /\ \A x \in first : parts[j].start # Nil /\ x < parts[j].start => Explained(x, j)'
                           /\ \A x \in first : InRange(x, parts[j]) => x \in query'[j] \cup copied'
                           /\ \A x \in query'[j] : InRange(x, parts[j])
                           /\ \A e \in ends[j] : EndsNoEarlier(parts[j].end, e)
                      /\ \A x \in first : Excepted(x) \/ \E j \in 1..Len(parts) : Before(x, parts[j].end)
    BY <1>2 DEF Reading, Excepted, InRange, EndsNoEarlier, Before
  <2>1. /\ \A j \in 1..Len(parts) :
             /\ \A x \in first : parts[j].start # Nil /\ x < parts[j].start => Explained(x, j)
             /\ \A x \in first : InRange(x, parts[j]) => x \in query[j] \cup copied
             /\ \A x \in query[j] : InRange(x, parts[j])
             /\ \A e \in ends[j] : EndsNoEarlier(parts[j].end, e)
        /\ \A x \in first : Excepted(x) \/ \E j \in 1..Len(parts) : Before(x, parts[j].end)
    BY <1>2, <1>4 DEF Reading
  <2>2. \A j \in 1..Len(parts) : query'[j] \subseteq query[j] /\ query[j] \cup copied \subseteq query'[j] \cup copied'
    BY <1>0, <1>3
  <2>3. \A j \in 1..Len(parts), x \in first : Explained(x, j) => Explained(x, j)'
    BY <1>5, StaysExplained
  <2> QED BY <2>1, <2>2, <2>3
<1>9. Ended'
  BY <1>2, <1>4 DEF Ended
<1> QED BY <1>7, <1>8, <1>9

\* When all is read every row has been copied: the first partition that ends after it has
\* it in its range.
LEMMA AllIsCopied ==
  ASSUME Shape, LossInv, causes = {}, phase = "running", src.engine # "iceberg",
         \A i \in DOMAIN parts : query[i] = {}, NEW x \in first
  PROVE  x \in copied \/ Excepted(x)
<1>0. /\ \A i \in 1..Len(parts) :
           /\ parts[i].start # Nil /\ x < parts[i].start => Explained(x, i)
           /\ InRange(x, parts[i]) => x \in query[i] \cup copied
           /\ \A e \in ends[i] : EndsNoEarlier(parts[i].end, e)
      /\ Excepted(x) \/ \E i \in 1..Len(parts) : Before(x, parts[i].end)
      /\ x \in Int
  BY KeysAre DEF LossInv, Reading, Shape
<1>1. /\ Len(parts) \in Nat /\ DOMAIN parts = 1..Len(parts)
      /\ \A i \in 1..Len(parts) : parts[i] \in PartsOK /\ query[i] = {}
  BY CallIs DEF Shape
<1> SUFFICES ASSUME ~Excepted(x) PROVE x \in copied
  OBVIOUS
<1> DEFINE T == {i \in 1..Len(parts) : Before(x, parts[i].end)}
<1>2. T # {} /\ T \subseteq Nat
  BY <1>0
<1>3. PICK i \in T : \A j \in T : ~(<<j, i>> \in LessThan)
  BY <1>2, LessThanWellFounded, WFMin
<1>4. i \in 1..Len(parts) /\ Before(x, parts[i].end) /\ \A j \in 1..Len(parts) : j < i => ~Before(x, parts[j].end)
  <2>1. \A j \in T : ~(j < i)
    BY <1>2, <1>3, SmallerIsBelow
  <2> QED BY <1>3, <2>1
<1> HIDE DEF T
<1>5. (parts[i].start = Nil \/ parts[i].start \in Int) /\ (parts[i].end = Nil \/ parts[i].end \in Int)
  BY <1>1, <1>4, KeysAre DEF PartsOK
<1>6. CASE parts[i].start # Nil /\ x < parts[i].start
  <2>1. Explained(x, i)
    BY <1>0, <1>4, <1>6
  <2>2. ASSUME NEW j \in IDs, j < i, NEW e \in ends[j], Before(x, e) PROVE FALSE
    <3>1. j \in 1..Len(parts)
      BY <1>1, <1>4, <2>2 DEF IDs
    <3>2. EndsNoEarlier(parts[j].end, e) /\ ~Before(x, parts[j].end)
      BY <1>0, <1>4, <2>2, <3>1
    <3>3. (e = Nil \/ e \in Int) /\ (parts[j].end = Nil \/ parts[j].end \in Int)
      BY <1>1, <2>2, <3>1, KeysAre DEF PartsOK, Shape
    <3> QED BY <1>0, <2>2, <3>2, <3>3 DEF EndsNoEarlier, Before
  <2> QED BY <2>1, <2>2 DEF Explained
<1>7. CASE ~(parts[i].start # Nil /\ x < parts[i].start)
  <2>1. InRange(x, parts[i])
    BY <1>0, <1>4, <1>5, <1>7 DEF InRange, Before
  <2> QED BY <1>0, <1>1, <1>4, <2>1
<1> QED BY <1>6, <1>7

\* Every step keeps it.
LEMMA LossStep == Shape /\ LossInv /\ [Next]_vars => LossInv'
<1> SUFFICES ASSUME Shape, LossInv, [Next]_vars, causes' = {} PROVE Saved' /\ Reading' /\ Ended'
  BY DEF LossInv
<1>1. CASE Begin
  BY <1>1, BeginLoses
<1>2. ASSUME NEW i \in DOMAIN parts, Reads(i) PROVE Saved' /\ Reading' /\ Ended'
  BY <1>2, ReadsLoses
<1>3. CASE Fails \/ UNCHANGED vars
  <2>1. UNCHANGED <<src, first, phase, parts, query, ckpt, ends, copied, causes>>
    BY <1>3 DEF Fails, vars, callVars
  <2>2. Saved /\ Reading /\ Ended
    BY <2>1 DEF LossInv
  <2>3. Saved'
    BY <2>1, <2>2 DEF Saved, Explained, Before
  <2>4. Reading'
    BY <2>1, <2>2 DEF Reading, Explained, Before, Excepted, InRange, EndsNoEarlier
  <2>5. Ended'
    BY <2>1, <2>2 DEF Ended, Excepted
  <2> QED BY <2>3, <2>4, <2>5
<1>4. CASE CallEnds
  <2>1. /\ UNCHANGED <<src, first, ckpt, ends, copied, causes>> /\ phase' \in {"done", "failed"}
        /\ phase = "running" /\ Closes
        /\ phase' = "done" => \A i \in DOMAIN parts : query[i] = {}
    BY <1>4 DEF CallEnds, Forgets
  <2>2. causes = {} /\ Saved
    BY <2>1 DEF LossInv
  <2>3. Saved'
    BY <2>1, <2>2 DEF Saved, Explained, Before
  <2>4. Ended'
    <3> SUFFICES ASSUME phase' = "done", NEW x \in first PROVE x \in copied \/ Excepted(x)
      BY <2>1 DEF Ended, Excepted
    <3>1. src.engine # "iceberg"
      BY <2>1 DEF Closes
    <3> QED BY <2>1, <2>2, <3>1, AllIsCopied
  <2> QED BY <2>1, <2>3, <2>4 DEF Reading
<1>5. CASE Crash
  <2>1. UNCHANGED <<src, first, ckpt, ends, copied, causes>> /\ phase' = "failed"
    BY <1>5 DEF Crash, Forgets
  <2>2. Saved
    BY <2>1 DEF LossInv
  <2>3. Saved'
    BY <2>1, <2>2 DEF Saved, Explained, Before
  <2> QED BY <2>1, <2>3 DEF Reading, Ended
<1>6. CASE TableChanges
  <2>1. UNCHANGED <<src, ckpt, ends, copied, causes>> /\ phase' = "idle" /\ first' \subseteq first
    BY <1>6 DEF TableChanges, callVars
  <2>2. Saved
    BY <2>1 DEF LossInv
  <2>3. Saved'
    BY <2>1, <2>2 DEF Saved, Explained, Before
  <2> QED BY <2>1, <2>3 DEF Reading, Ended
<1> QED BY <1>1, <1>2, <1>3, <1>4, <1>5, <1>6 DEF Next, Goes

-----------------------------------------------------------------------------
SourcesInv == Shape /\ FirstCallReadsOnce /\ LossInv

\* The invariant holds, for integers of any width, tables, readers and calls of any number.
THEOREM SourcesInvariance == Spec => []SourcesInv
<1>1. Init => SourcesInv
  <2> SUFFICES ASSUME Init PROVE FirstCallReadsOnce /\ LossInv
    BY ShapeInit DEF SourcesInv
  <2>1. calls = 0 /\ phase = "idle" /\ ckpt = [i \in IDs |-> Nil]
    BY DEF Init
  <2> QED BY <2>1 DEF FirstCallReadsOnce, LossInv, Saved, Reading, Ended
<1>2. SourcesInv /\ [Next]_vars => SourcesInv'
  BY ShapeStep, ReadsOnceStep, LossStep DEF SourcesInv
<1> QED BY <1>1, <1>2, PTL DEF Spec

\* Every bound of a range is an int64 or nil, however the ranges were computed, and a
\* query yields rows of the table.
THEOREM SourcesTypeCorrect == Spec => []TypeOK
<1>1. SourcesInv => TypeOK
  BY ShapeTypes DEF SourcesInv
<1> QED BY <1>1, SourcesInvariance, PTL

\* The ranges of a first call share no row, whatever the ids and the number of readers,
\* and even if the distance between the ids overflows; but for the ranges that overshoot.
THEOREM RangesDoNotOverlap == Spec => []FirstCallReadsOnce
<1>1. SourcesInv => FirstCallReadsOnce
  BY DEF SourcesInv
<1> QED BY <1>1, SourcesInvariance, PTL

\* An operation that succeeds, after any number of calls for ranges that came out
\* differently every time, has copied all that its first call found, unless a cause is on record.
THEOREM LossHasItsCause == Spec => []LossHasCause
<1>1. SourcesInv => LossHasCause
  BY DEF SourcesInv, LossInv, Ended, Excepted, LossHasCause
<1> QED BY <1>1, SourcesInvariance, PTL
=============================================================================
