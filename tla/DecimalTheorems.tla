--------------------------- MODULE DecimalTheorems --------------------------
(***************************************************************************)
(* What the decimal operators return, for every SCALE, and what products and  *)
(* remainders of naturals have to do with each other.                         *)
(***************************************************************************)
EXTENDS DecimalSqrt, FiniteSetTheorems, TLAPS

LEMMA DivModFact ==
  ASSUME NEW n \in Int, NEW d \in Nat \ {0}
  PROVE  n \div d \in Int /\ n % d \in 0 .. d - 1 /\ n = d * (n \div d) + (n % d)
BY SMT

LEMMA DivIsNat ==
  ASSUME NEW n \in Nat, NEW d \in Nat \ {0}
  PROVE  n \div d \in Nat
BY SMT

LEMMA AtMostQuotient ==
  ASSUME NEW x \in Int, NEW a \in Nat, NEW b \in Nat \ {0}, x * b <= a
  PROVE  a \div b \in Nat /\ x <= a \div b
<1>1. a \div b \in Nat /\ a % b \in 0 .. b - 1 /\ a = b * (a \div b) + (a % b)
  <2>1. a \in Int
    OBVIOUS
  <2>2. a % b \in 0 .. b - 1 /\ a = b * (a \div b) + (a % b)
    BY <2>1, DivModFact, Zenon
  <2>3. a \div b \in Nat
    BY DivIsNat
  <2>4. QED
    BY <2>2, <2>3
<1>2. SUFFICES ASSUME x >= a \div b + 1 PROVE FALSE
  BY <1>1
<1>3. x * b = b * (a \div b) + b * (x - a \div b) /\ b * (x - a \div b) >= b
  BY <1>1, <1>2
<1>4. QED
  BY <1>1, <1>3

\* A common factor cancels.
LEMMA Cancels ==
  ASSUME NEW f \in Nat \ {0}, NEW a \in Int, NEW b \in Int, f * a <= f * b
  PROVE  a <= b
<1>1. SUFFICES ASSUME a >= b + 1 PROVE FALSE
  OBVIOUS
<1>2. f * a >= f * (b + 1) /\ f * (b + 1) = f * b + f
  BY <1>1
<1>3. f * a \in Int /\ f * b \in Int
  OBVIOUS
<1>4. QED
  BY <1>2, <1>3

LEMMA TimesMonotone ==
  ASSUME NEW a \in Nat, NEW b \in Nat, NEW c \in Nat, NEW d \in Nat, a <= b, c <= d
  PROVE  a * c \in Nat /\ b * d \in Nat /\ a * c <= b * d
<1>1. a * c <= b * c /\ b * c <= b * d
  OBVIOUS
<1>2. QED
  BY <1>1

LEMMA SquareOrder ==
  ASSUME NEW a \in Nat, NEW b \in Nat, a * a <= b * b
  PROVE  a <= b
<1>1. SUFFICES ASSUME a >= b + 1 PROVE FALSE
  OBVIOUS
<1>2. a * a = b * b + b * (a - b) + (a - b) * a /\ b * (a - b) >= 0 /\ (a - b) * a >= 1
  <2>1. a - b \in Nat \ {0} /\ a \in Nat \ {0}
    BY <1>1
  <2>2. QED
    BY <2>1
<1>3. QED
  BY <1>2

\* RoundHalfEven returns a nearest integer: it is off by at most one half.
LEMMA RoundingError ==
  ASSUME NEW n \in Int, NEW d \in Nat \ {0}
  PROVE  /\ RoundHalfEven(n, d) \in Int
         /\ 2 * (d * RoundHalfEven(n, d) - n) <= d
         /\ 2 * (n - d * RoundHalfEven(n, d)) <= d
<1> DEFINE q == n \div d
           r == n % d
<1>1. q \in Int /\ r \in 0 .. d - 1 /\ n = d * q + r
  BY DivModFact
<1>2. d * (q + 1) = d * q + d
  BY <1>1
<1>3. QED
  BY <1>1, <1>2 DEF RoundHalfEven

LEMMA RoundingIsNat ==
  ASSUME NEW n \in Nat, NEW d \in Nat \ {0}
  PROVE  RoundHalfEven(n, d) \in Nat
BY DivIsNat DEF RoundHalfEven

\* A product of decimals that are not negative is not negative.
LEMMA MulIsNat ==
  ASSUME NEW a \in Nat, NEW b \in Nat
  PROVE  DecMul(a, b) \in Nat
<1>1. a * b \in Nat
  OBVIOUS
<1>2. QED
  BY <1>1, RoundingIsNat, ScaleAssumption DEF DecMul

LEMMA FloorFact ==
  ASSUME NEW a \in Int
  PROVE  /\ DecFloor(a) \in Int
         /\ SCALE * DecFloor(a) <= a
         /\ a < SCALE * DecFloor(a) + SCALE
<1>1. a \div SCALE \in Int /\ a % SCALE \in 0 .. SCALE - 1
        /\ a = SCALE * (a \div SCALE) + (a % SCALE)
  BY ScaleAssumption, DivModFact
<1>2. QED
  BY <1>1, ScaleAssumption DEF DecFloor

\* A tie goes to the even neighbour.
LEMMA TieIsEven ==
  ASSUME NEW n \in Int, NEW d \in Nat \ {0}, NEW k \in Int, 2 * n = d * (2 * k + 1)
  PROVE  RoundHalfEven(n, d) % 2 = 0
<1> DEFINE q == n \div d
           r == n % d
<1>1. q \in Int /\ r \in 0 .. d - 1 /\ n = d * q + r
  BY DivModFact
<1> HIDE DEF q, r
<1>2. 2 * r = d + 2 * (d * (k - q))
  BY <1>1
<1>3. k = q
  <2>1. CASE k >= q + 1
    <3>1. d * (k - q) >= d
      BY <1>1, <2>1
    <3>2. QED
      BY <1>1, <1>2, <3>1
  <2>2. CASE k <= q - 1
    <3>1. d * (k - q) <= -d
      BY <1>1, <2>2
    <3>2. QED
      BY <1>1, <1>2, <3>1
  <2>3. QED
    BY <1>1, <2>1, <2>2
<1>4. 2 * r = d
  BY <1>1, <1>2, <1>3
<1>5. QED
  BY <1>1, <1>4 DEF RoundHalfEven, q, r

\* Rounding keeps the order of quotients.
LEMMA RoundingMonotone ==
  ASSUME NEW n1 \in Int, NEW d1 \in Nat \ {0}, NEW n2 \in Int, NEW d2 \in Nat \ {0},
         n1 * d2 <= n2 * d1
  PROVE  RoundHalfEven(n1, d1) <= RoundHalfEven(n2, d2)
<1> DEFINE R1 == RoundHalfEven(n1, d1)
           R2 == RoundHalfEven(n2, d2)
<1>1. /\ R1 \in Int /\ R2 \in Int
      /\ 2 * n1 >= d1 * (2 * R1 - 1)
      /\ 2 * n2 <= d2 * (2 * R2 + 1)
  <2>1. /\ R1 \in Int /\ R2 \in Int
        /\ 2 * (d1 * R1 - n1) <= d1 /\ 2 * (n2 - d2 * R2) <= d2
    BY RoundingError
  <2> HIDE DEF R1, R2
  <2>2. d1 * (2 * R1 - 1) = 2 * (d1 * R1) - d1 /\ d2 * (2 * R2 + 1) = 2 * (d2 * R2) + d2
    BY <2>1
  <2>3. QED
    BY <2>1, <2>2
<1>2. SUFFICES ASSUME R1 >= R2 + 1 PROVE FALSE
  BY <1>1
<1>3. R1 = R2 + 1 /\ 2 * n1 = d1 * (2 * R1 - 1) /\ 2 * n2 = d2 * (2 * R2 + 1)
  <2> DEFINE s == 2 * n1 - d1 * (2 * R1 - 1)
             t == d2 * (2 * R2 + 1) - 2 * n2
             gap == 2 * (R1 - R2 - 1)
  <2>1. s \in Nat /\ t \in Nat /\ gap \in Nat
    <3> HIDE DEF R1, R2
    <3>1. QED
      BY <1>1, <1>2
  <2>2. s * d2 + t * d1 + gap * (d1 * d2) = 2 * (n1 * d2 - n2 * d1)
    <3> HIDE DEF R1, R2
    <3>1. QED
      BY <1>1, SMTT(30)
  <2>3. s * d2 \in Nat /\ t * d1 \in Nat /\ gap * (d1 * d2) \in Nat
    <3> HIDE DEF s, t, gap
    <3>1. QED
      BY <2>1
  <2>4. s * d2 = 0 /\ t * d1 = 0 /\ gap * (d1 * d2) = 0
    <3>1. n1 * d2 - n2 * d1 <= 0
      OBVIOUS
    <3> HIDE DEF s, t, gap
    <3>2. QED
      BY <2>2, <2>3, <3>1
  <2>5. s = 0 /\ t = 0 /\ gap = 0
    <3> HIDE DEF s, t, gap
    <3>1. QED
      BY <2>1, <2>4
  <2>6. QED
    <3> HIDE DEF R1, R2
    <3>1. QED
      BY <1>1, <2>5
<1>4. R1 % 2 = 0 /\ R2 % 2 = 0
  <2>1. 2 * R1 - 1 = 2 * R2 + 1
    BY <1>1, <1>3
  <2>2. QED
    BY <1>1, <1>3, <2>1, TieIsEven
<1> HIDE DEF R1, R2
<1>5. QED
  BY <1>1, <1>3, <1>4

\* A multiple of the divisor needs no rounding.
LEMMA RoundingExact ==
  ASSUME NEW k \in Int, NEW d \in Nat \ {0}
  PROVE  RoundHalfEven(k * d, d) = k
<1>1. k * d = d * k /\ k * d \in Int
  OBVIOUS
<1>2. (k * d) \div d = k /\ (k * d) % d = 0
  <2> DEFINE q == (k * d) \div d
             r == (k * d) % d
  <2>1. q \in Int /\ r \in 0 .. d - 1 /\ k * d = d * q + r
    BY <1>1, DivModFact
  <2> HIDE DEF q, r
  <2>2. r = d * (k - q)
    BY <2>1
  <2>3. k - q = 0
    <3>1. CASE k - q >= 1
      BY <2>1, <2>2, <3>1
    <3>2. CASE k - q <= -1
      BY <2>1, <2>2, <3>2
    <3>3. QED
      BY <2>1, <3>1, <3>2
  <2>4. QED
    BY <2>1, <2>2, <2>3 DEF q, r
<1>3. QED
  BY <1>2 DEF RoundHalfEven

LEMMA FloorMonotone ==
  ASSUME NEW a \in Int, NEW b \in Int, a <= b
  PROVE  DecFloor(a) <= DecFloor(b)
<1> DEFINE f == DecFloor(a)
           g == DecFloor(b)
<1>1. f \in Int /\ g \in Int /\ SCALE * f <= a /\ b < SCALE * g + SCALE
  BY FloorFact
<1> HIDE DEF f, g
<1>2. SUFFICES ASSUME f >= g + 1 PROVE FALSE
  BY <1>1 DEF f, g
<1>3. SCALE * f = SCALE * g + SCALE * (f - g) /\ SCALE * (f - g) >= SCALE
  BY <1>1, <1>2, ScaleAssumption
<1>4. QED
  BY <1>1, <1>3, ScaleAssumption

\* A set of naturals has a least element.  (The initial segments it spans do, by inclusion.)
LEMMA LeastNatural ==
  ASSUME NEW S \in SUBSET Nat, S # {}
  PROVE  \E x \in S : \A y \in S : x <= y
<1> DEFINE Segments == {0 .. x : x \in S}
<1>1. Segments \subseteq FiniteSubsetsOf(Nat)
  <2>1. \A x \in S : IsFiniteSet(0 .. x) /\ 0 .. x \in SUBSET Nat
    BY FS_Interval
  <2>2. QED
    BY <2>1 DEF FiniteSubsetsOf
<1>2. \E s \in Segments : \A t \in Segments : ~(<<t, s>> \in StrictSubsetOrdering(Nat))
  <2>1. IsWellFoundedOn(StrictSubsetOrdering(Nat), FiniteSubsetsOf(Nat))
    BY FS_StrictSubsetOrderingWellFounded
  <2>2. Segments # {}
    OBVIOUS
  <2> HIDE DEF Segments
  <2>3. QED
    BY <1>1, <2>1, <2>2, WFMin
<1>3. PICK x \in S : \A y \in S : ~(<<0 .. y, 0 .. x>> \in StrictSubsetOrdering(Nat))
  BY <1>2
<1>4. ASSUME NEW y \in S, y < x PROVE FALSE
  <2>1. 0 .. y \subseteq 0 .. x /\ x \in 0 .. x /\ x \notin 0 .. y
    BY <1>4
  <2>2. 0 .. y \in SUBSET Nat /\ 0 .. x \in SUBSET Nat
    OBVIOUS
  <2>3. <<0 .. y, 0 .. x>> \in StrictSubsetOrdering(Nat)
    BY <2>1, <2>2 DEF StrictSubsetOrdering
  <2>4. QED
    BY <1>3, <2>3
<1>5. QED
  BY <1>4

\* Induction over the naturals, about a set instead of a predicate.
LEMMA SetInduction ==
  ASSUME NEW S, 0 \in S, \A n \in Nat : n \in S => n + 1 \in S
  PROVE  Nat \subseteq S
<1> SUFFICES ASSUME Nat \ S # {} PROVE FALSE
  OBVIOUS
<1>1. PICK x \in Nat \ S : \A y \in Nat \ S : x <= y
  BY LeastNatural
<1>2. x # 0 /\ x - 1 \in Nat /\ x - 1 \notin Nat \ S
  BY <1>1
<1>3. (x - 1) + 1 \in S /\ (x - 1) + 1 = x
  BY <1>2
<1>4. QED
  BY <1>1, <1>3

\* The least positive number that two numbers combine to divides both.
LEMMA CommonDivisor ==
  ASSUME NEW i \in Nat, NEW j \in Nat \ {0}
  PROVE  \E g \in Nat \ {0}, a, b \in Int, i1, j1 \in Nat :
           g = a * i + b * j /\ i = g * i1 /\ j = g * j1
<1> DEFINE Combined == {x \in Nat : x # 0 /\ \E a, b \in Int : x = a * i + b * j}
<1>1. j \in Combined
  <2>1. j = 0 * i + 1 * j /\ 0 \in Int /\ 1 \in Int
    OBVIOUS
  <2>2. QED
    BY <2>1
<1>2. PICK g \in Combined : \A x \in Combined : g <= x
  <2>1. Combined \in SUBSET Nat /\ Combined # {}
    BY <1>1
  <2> HIDE DEF Combined
  <2>2. QED
    BY <2>1, LeastNatural
<1>3. g \in Nat \ {0}
  OBVIOUS
<1>4. PICK a \in Int, b \in Int : g = a * i + b * j
  OBVIOUS
<1>5. ASSUME NEW n \in Nat, NEW c \in Int, NEW d \in Int, n = c * i + d * j
      PROVE  \E q \in Nat : n = g * q
  <2> DEFINE q == n \div g
             r == n % g
  <2>1. q \in Nat
    BY <1>3, DivIsNat
  <2>2. r \in 0 .. g - 1 /\ n = g * q + r
    BY <1>3, DivModFact, n \in Int, Zenon
  <2> HIDE DEF q, r
  <2>3. r = (c - a * q) * i + (d - b * q) * j /\ c - a * q \in Int /\ d - b * q \in Int
    <3> HIDE DEF Combined
    <3>1. g * q = (a * q) * i + (b * q) * j
      BY <1>4, <2>1
    <3>2. /\ (c - a * q) * i = c * i - (a * q) * i
          /\ (d - b * q) * j = d * j - (b * q) * j
      BY <2>1
    <3>3. QED
      BY <1>3, <1>5, <2>1, <2>2, <3>1, <3>2
  <2>4. r = 0
    <3>1. SUFFICES ASSUME r # 0 PROVE FALSE
      OBVIOUS
    <3>2. r \in Combined
      <4>1. r \in Nat
        BY <1>3, <2>2
      <4>2. \E x, y \in Int : r = x * i + y * j
        BY <2>3, Zenon
      <4>3. QED
        BY <3>1, <4>1, <4>2
    <3> HIDE DEF Combined
    <3>3. g <= r
      BY <1>2, <3>2
    <3>4. QED
      BY <1>3, <2>2, <3>3
  <2>5. QED
    BY <1>3, <2>1, <2>2, <2>4
<1> HIDE DEF Combined
<1>6. PICK i1 \in Nat : i = g * i1
  <2>1. i = 1 * i + 0 * j
    OBVIOUS
  <2>2. QED
    BY <1>5, <2>1
<1>7. PICK j1 \in Nat : j = g * j1
  <2>1. j = 0 * i + 1 * j
    OBVIOUS
  <2>2. QED
    BY <1>5, <2>1
<1>8. QED
  BY <1>3, <1>4, <1>6, <1>7

\* Two multiples of a price whose remainders are small.  If the larger multiple had the
\* smaller remainder, a combination of the two would be a multiple of SCALE below SCALE.
LEMMA RemaindersOrdered ==
  ASSUME NEW p \in Nat, NEW s \in Nat, NEW t \in Nat \ {0}, t <= s,
         NEW k \in Int, NEW d \in Int, NEW i \in Nat, NEW j \in Nat,
         s * p = SCALE * k + i, t * p = SCALE * d + j, s * j < SCALE
  PROVE  i >= j
<1>1. SUFFICES ASSUME i < j PROVE FALSE
  OBVIOUS
<1>2. PICK g \in Nat \ {0}, a \in Int, b \in Int, i1 \in Nat, j1 \in Nat :
        g = a * i + b * j /\ i = g * i1 /\ j = g * j1
  <2>1. j \in Nat \ {0}
    BY <1>1
  <2>2. QED
    BY <2>1, CommonDivisor, Zenon
<1> DEFINE X  == j * s - i * t
           X1 == j1 * s - i1 * t
           y  == j1 * k - i1 * d
           z  == (a * s + b * t) * y - (a * k + b * d) * X1
<1>3. X1 \in Int /\ y \in Int /\ X = g * X1 /\ X \in Int
  <2>1. j * s = g * (j1 * s) /\ i * t = g * (i1 * t)
    BY <1>2
  <2>2. j1 * s \in Int /\ i1 * t \in Int /\ j1 * k \in Int /\ i1 * d \in Int
    BY <1>2
  <2>3. g * (j1 * s - i1 * t) = g * (j1 * s) - g * (i1 * t)
    BY <1>2, <2>2
  <2>4. j * s \in Int /\ i * t \in Int
    OBVIOUS
  <2>5. QED
    BY <2>1, <2>2, <2>3, <2>4
<1>4. p * X1 = SCALE * y
  <2>1. p * (g * X1) = g * (SCALE * y)
    <3>1. p * X = j * (s * p) - i * (t * p)
      OBVIOUS
    <3>2. j * (s * p) - i * (t * p) = SCALE * (j * k - i * d)
      <4>1. /\ j * (SCALE * k + i) = SCALE * (j * k) + i * j
            /\ i * (SCALE * d + j) = SCALE * (i * d) + i * j
            /\ SCALE * (j * k - i * d) = SCALE * (j * k) - SCALE * (i * d)
        BY ScaleAssumption
      <4>2. i * j \in Int /\ SCALE * (j * k) \in Int /\ SCALE * (i * d) \in Int
        BY ScaleAssumption
      <4>3. QED
        BY <4>1, <4>2
    <3>3. j * k - i * d = g * y
      <4>1. j * k = g * (j1 * k) /\ i * d = g * (i1 * d)
        BY <1>2
      <4>2. j1 * k \in Int /\ i1 * d \in Int
        BY <1>2
      <4>3. g * (j1 * k - i1 * d) = g * (j1 * k) - g * (i1 * d)
        BY <1>2, <4>2
      <4>4. QED
        BY <4>1, <4>3
    <3> HIDE DEF X, X1, y
    <3>4. SCALE * (g * y) = g * (SCALE * y)
      BY <1>2, <1>3, ScaleAssumption
    <3>5. QED
      BY <1>3, <3>1, <3>2, <3>3, <3>4
  <2> DEFINE u == p * X1
             v == SCALE * y
  <2>2. u \in Int /\ v \in Int
    <3> HIDE DEF X1, y
    <3>1. QED
      BY <1>3, ScaleAssumption
  <2>3. g * u = g * v
    <3> HIDE DEF X1, y
    <3>1. p * (g * X1) = g * (p * X1)
      BY <1>2, <1>3
    <3>2. QED
      BY <2>1, <3>1
  <2> HIDE DEF u, v
  <2>4. g * u \in Int /\ g * v \in Int
    BY <1>2, <2>2
  <2>5. u <= v
    BY <1>2, <2>2, <2>3, <2>4, Cancels
  <2>6. v <= u
    BY <1>2, <2>2, <2>3, <2>4, Cancels
  <2>7. QED
    BY <2>2, <2>5, <2>6 DEF u, v
<1> HIDE DEF X, X1, y
<1>5. X = SCALE * z /\ z \in Int
  <2>1. z \in Int
    BY <1>2, <1>3
  <2>2. g = (a * s + b * t) * p - SCALE * (a * k + b * d)
    <3>1. i = s * p - SCALE * k /\ j = t * p - SCALE * d
      BY ScaleAssumption
    <3>2. /\ a * (s * p - SCALE * k) = (a * s) * p - SCALE * (a * k)
          /\ b * (t * p - SCALE * d) = (b * t) * p - SCALE * (b * d)
      BY <1>2, ScaleAssumption
    <3>3. /\ (a * s + b * t) * p = (a * s) * p + (b * t) * p
          /\ SCALE * (a * k + b * d) = SCALE * (a * k) + SCALE * (b * d)
      BY <1>2, ScaleAssumption
    <3>4. /\ (a * s) * p \in Int /\ (b * t) * p \in Int
          /\ SCALE * (a * k) \in Int /\ SCALE * (b * d) \in Int
      BY <1>2, ScaleAssumption
    <3>5. a * i = a * (s * p - SCALE * k) /\ b * j = b * (t * p - SCALE * d)
      BY <3>1
    <3>6. QED
      BY <1>2, <3>2, <3>3, <3>4, <3>5
  <2> DEFINE e == a * s + b * t
             f == a * k + b * d
  <2>3. e \in Int /\ f \in Int
    BY <1>2
  <2>4. g = e * p - SCALE * f /\ z = e * y - f * X1
    BY <2>2
  <2> HIDE DEF e, f, z
  <2>5. g * X1 = e * (p * X1) - SCALE * (f * X1)
    BY <1>2, <1>3, <2>3, <2>4, ScaleAssumption
  <2>6. e * (SCALE * y) = SCALE * (e * y) /\ SCALE * z = SCALE * (e * y) - SCALE * (f * X1)
    BY <1>3, <2>3, <2>4, ScaleAssumption
  <2>7. QED
    BY <1>3, <1>4, <2>1, <2>5, <2>6
<1>6. 1 <= X /\ X < SCALE
  <2>1. X = (j - i) * s + i * (s - t)
    BY DEF X
  <2>2. (j - i) * s >= 1 /\ i * (s - t) >= 0 /\ (j - i) * s \in Int /\ i * (s - t) \in Int
    <3> DEFINE x == j - i
               w == s - t
    <3>1. x \in Nat \ {0} /\ w \in Nat /\ s \in Nat \ {0}
      BY <1>1
    <3> HIDE DEF x, w
    <3>2. x * s \in Nat \ {0} /\ i * w \in Nat
      BY <3>1
    <3>3. QED
      BY <3>2 DEF x, w
  <2>3. X <= s * j
    <3>1. j * s = s * j /\ i * t >= 0 /\ j * s \in Int /\ i * t \in Int
      OBVIOUS
    <3>2. QED
      BY <3>1 DEF X
  <2>4. s * j \in Int
    OBVIOUS
  <2>5. QED
    BY <1>3, <2>1, <2>2, <2>3, <2>4, ScaleAssumption
<1> HIDE DEF z
<1>7. CASE z >= 1
  <2>1. SCALE * z = SCALE + SCALE * (z - 1) /\ SCALE * (z - 1) \in Nat
    BY <1>5, <1>7, ScaleAssumption
  <2>2. QED
    BY <1>5, <1>6, <2>1, ScaleAssumption
<1>8. CASE z <= 0
  <2>1. SCALE * (-z) \in Nat /\ SCALE * z = -(SCALE * (-z))
    BY <1>5, <1>8, ScaleAssumption
  <2>2. QED
    BY <1>5, <1>6, <2>1, ScaleAssumption
<1>9. QED
  BY <1>5, <1>7, <1>8

----------------------------------------------------------------------------
(* Roots *)

\* What a step of Newton's iteration leaves alone is a root up to three quarters of a unit.
LEMMA RootFact ==
  ASSUME NEW d \in Nat, NEW r \in DecSqrt(d)
  PROVE  /\ r \in Nat
         /\ d = 0 => r = 0
         /\ 2 * (r * r - d * SCALE) <= 3 * r /\ 2 * (d * SCALE - r * r) <= 3 * r
<1>1. CASE d = 0
  BY <1>1, ScaleAssumption DEF DecSqrt
<1>2. CASE d > 0
  <2> DEFINE quotient == RoundHalfEven(d * SCALE, r)
  <2>1. r \in Nat \ {0} /\ NewtonStep(d, r) = r
    BY <1>2 DEF DecSqrt
  <2>2. RoundHalfEven(r + quotient, 2) = r
    BY <2>1, Zenon DEF NewtonStep, DecDiv, RoundHalfEven, RoundHalfEven
  <2>3. d * SCALE \in Nat
    BY ScaleAssumption
  <2>4. /\ quotient \in Int
        /\ 2 * (r * quotient - d * SCALE) <= r /\ 2 * (d * SCALE - r * quotient) <= r
    BY <2>1, <2>3, RoundingError
  <2> HIDE DEF quotient
  <2>5. 2 * (2 * r - (r + quotient)) <= 2 /\ 2 * ((r + quotient) - 2 * r) <= 2
    <3>1. r + quotient \in Int /\ 2 \in Nat \ {0}
      BY <2>1, <2>4
    <3>2. /\ 2 * (2 * RoundHalfEven(r + quotient, 2) - (r + quotient)) <= 2
          /\ 2 * ((r + quotient) - 2 * RoundHalfEven(r + quotient, 2)) <= 2
      BY <3>1, RoundingError, Zenon
    <3>3. QED
      BY <2>2, <3>2
  <2>6. r - quotient <= 1 /\ quotient - r <= 1
    BY <2>1, <2>4, <2>5
  <2>7. r * (r - quotient) <= r /\ r * (quotient - r) <= r
    BY <2>1, <2>4, <2>6
  <2>8. /\ r * (r - quotient) = r * r - r * quotient
        /\ r * (quotient - r) = r * quotient - r * r
    BY <2>1, <2>4
  <2>9. r * r \in Int /\ r * quotient \in Int
    BY <2>1, <2>4
  <2>10. QED
    BY <1>2, <2>1, <2>3, <2>4, <2>7, <2>8, <2>9
<1>3. QED
  BY <1>1, <1>2

\* The root of a product of two prices; the product is rounded too.
LEMMA RootOfProduct ==
  ASSUME NEW s \in Nat, NEW k \in Nat, NEW r \in DecSqrt(DecMul(s, k))
  PROVE  /\ r \in Nat
         /\ s = 0 \/ k = 0 => r = 0
         /\ 2 * (r * r - s * k) <= SCALE + 3 * r /\ 2 * (s * k - r * r) <= SCALE + 3 * r
<1> DEFINE d == DecMul(s, k)
<1>1. s * k \in Nat
  OBVIOUS
<1>2. d \in Nat /\ 2 * (SCALE * d - s * k) <= SCALE /\ 2 * (s * k - SCALE * d) <= SCALE
  BY <1>1, RoundingError, RoundingIsNat, ScaleAssumption DEF DecMul
<1>3. s = 0 \/ k = 0 => d = 0
  <2>1. RoundHalfEven(0 * SCALE, SCALE) = 0
    BY RoundingExact, ScaleAssumption
  <2>2. 0 * SCALE = 0 /\ (s = 0 \/ k = 0 => s * k = 0)
    BY ScaleAssumption
  <2>3. QED
    BY <2>1, <2>2 DEF DecMul
<1>4. r \in DecSqrt(d)
  OBVIOUS
<1> HIDE DEF d
<1>5. /\ r \in Nat
      /\ d = 0 => r = 0
      /\ 2 * (r * r - d * SCALE) <= 3 * r /\ 2 * (d * SCALE - r * r) <= 3 * r
  BY <1>2, <1>4, RootFact
<1>6. d * SCALE = SCALE * d /\ SCALE * d \in Int /\ r * r \in Int
  BY <1>2, <1>5, ScaleAssumption
<1>7. QED
  BY <1>1, <1>2, <1>3, <1>5, <1>6, ScaleAssumption

\* By how much the rounding of a root can make it exceed the mean of two prices.
LEMMA RootExcess ==
  ASSUME NEW u \in Nat \ {0}, NEW c \in Nat, NEW r \in DecSqrt(DecMul(u, c))
  PROVE  r \in Nat /\ (2 * r - u - c) * u <= 2 * SCALE + 3 * u
<1> DEFINE t == 2 * r - u - c
           w == 2 * r + u + c
<1>1. r \in Nat /\ 2 * (r * r - u * c) <= SCALE + 3 * r
  BY RootOfProduct
<1>2. t \in Int /\ w \in Nat /\ w >= u /\ w >= 2 * r
  BY <1>1
<1>3. t * w <= 2 * SCALE + 6 * r
  <2>1. t * w = 4 * (r * r) - (u + c) * (u + c)
    BY <1>1
  <2>2. (u + c) * (u + c) = 4 * (u * c) + (u - c) * (u - c)
    OBVIOUS
  <2>3. (u - c) * (u - c) >= 0 /\ (u - c) * (u - c) \in Int
    <3>1. CASE u >= c
      BY <3>1
    <3>2. CASE u < c
      <4>1. (u - c) * (u - c) = (c - u) * (c - u)
        OBVIOUS
      <4>2. QED
        BY <3>2, <4>1
    <3>3. QED
      BY <3>1, <3>2
  <2>4. r * r \in Int /\ u * c \in Int
    BY <1>1
  <2> HIDE DEF t, w
  <2>5. QED
    BY <1>1, <2>1, <2>2, <2>3, <2>4, ScaleAssumption
<1> HIDE DEF t, w
<1>4. (t - 3) * u <= 2 * SCALE
  <2>1. CASE t >= 3
    <3>1. (t - 3) * u <= (t - 3) * w
      <4>1. t - 3 \in Nat /\ w - u \in Nat
        BY <1>2, <2>1
      <4>2. (t - 3) * w = (t - 3) * u + (t - 3) * (w - u) /\ (t - 3) * (w - u) \in Nat
        BY <1>2, <4>1
      <4>3. (t - 3) * u \in Int
        BY <4>1
      <4>4. QED
        BY <4>2, <4>3
    <3>2. (t - 3) * w = t * w - 3 * w /\ t * w \in Int /\ (t - 3) * u \in Int
      BY <1>2
    <3>3. QED
      BY <1>1, <1>2, <1>3, <3>1, <3>2, ScaleAssumption
  <2>2. CASE t < 3
    <3>1. (3 - t) * u \in Nat /\ (t - 3) * u = -((3 - t) * u)
      BY <1>2, <2>2
    <3>2. QED
      BY <3>1, ScaleAssumption
  <2>3. QED
    BY <1>2, <2>1, <2>2
<1>5. (t - 3) * u = t * u - 3 * u /\ t * u \in Int
  BY <1>2
<1>6. t * u <= 2 * SCALE + 3 * u
  BY <1>4, <1>5, ScaleAssumption
<1>7. QED
  BY <1>1, <1>6 DEF t

----------------------------------------------------------------------------
(* Newton's iteration *)

\* Powers of two, counted as subsets: the provers know nothing of ^, the library does.
LEMMA PowersOfTwo ==
  ASSUME NEW n \in Nat
  PROVE  2 ^ n \in Nat \ {0} /\ 2 ^ (n + 1) = 2 * 2 ^ n
<1> DEFINE S == 1 .. n
           T == 1 .. n + 1
           With == {s \union {n + 1} : s \in SUBSET S}
<1>1. IsFiniteSet(S) /\ Cardinality(S) = n /\ IsFiniteSet(T) /\ Cardinality(T) = n + 1
  BY FS_Interval
<1>2. /\ IsFiniteSet(SUBSET S) /\ Cardinality(SUBSET S) = 2 ^ n
      /\ IsFiniteSet(SUBSET T) /\ Cardinality(SUBSET T) = 2 ^ (n + 1)
  BY <1>1, FS_SUBSET, Zenon
<1>3. n + 1 \notin S /\ T = S \union {n + 1}
  OBVIOUS
<1> HIDE DEF S, T
<1>4. IsFiniteSet(With) /\ Cardinality(With) = Cardinality(SUBSET S)
  <2> DEFINE f == [s \in SUBSET S |-> s \union {n + 1}]
  <2>1. f \in [SUBSET S -> With]
    OBVIOUS
  <2>2. \A s, t \in SUBSET S : f[s] = f[t] => s = t
    BY <1>3
  <2>3. \A w \in With : \E s \in SUBSET S : f[s] = w
    OBVIOUS
  <2>4. ExistsBijection(SUBSET S, With)
    <3> HIDE DEF f, With
    <3>1. f \in Bijection(SUBSET S, With)
      <4>1. f \in Injection(SUBSET S, With)
        BY <2>1, <2>2 DEF Injection, IsInjective
      <4>2. f \in Surjection(SUBSET S, With)
        BY <2>1, <2>3 DEF Surjection
      <4>3. QED
        BY <4>1, <4>2 DEF Bijection
    <3>2. QED
      BY <3>1 DEF ExistsBijection
  <2> HIDE DEF f, With
  <2>5. QED
    BY <1>2, <2>4, FS_Bijection
<1>5. SUBSET T = (SUBSET S) \union With /\ (SUBSET S) \intersect With = {}
  <2>1. ASSUME NEW t \in SUBSET T, n + 1 \in t PROVE t \in With
    <3>1. t \ {n + 1} \in SUBSET S /\ t = (t \ {n + 1}) \union {n + 1}
      BY <1>3, <2>1
    <3>2. QED
      BY <3>1
  <2>2. ASSUME NEW t \in SUBSET T, n + 1 \notin t PROVE t \in SUBSET S
    BY <1>3, <2>2
  <2>3. With \subseteq SUBSET T /\ SUBSET S \subseteq SUBSET T
    BY <1>3
  <2>4. ASSUME NEW t \in SUBSET S, t \in With PROVE FALSE
    <3>1. PICK s \in SUBSET S : t = s \union {n + 1}
      BY <2>4
    <3>2. n + 1 \in t
      BY <3>1
    <3>3. QED
      BY <1>3, <2>4, <3>2
  <2> HIDE DEF With
  <2>5. SUBSET T \subseteq (SUBSET S) \union With
    BY <2>1, <2>2, Zenon
  <2>6. (SUBSET S) \intersect With = {}
    BY <2>4, Zenon
  <2>7. SUBSET T = (SUBSET S) \union With
    BY <2>3, <2>5, Zenon
  <2>8. QED
    BY <2>6, <2>7
<1> HIDE DEF With
<1>6. Cardinality(SUBSET S) \in Nat /\ SUBSET S # {}
  BY <1>2, FS_CardinalityType
<1>7. Cardinality(SUBSET S) # 0
  BY <1>2, <1>6, FS_EmptySet
<1>8. Cardinality(SUBSET T) = Cardinality(SUBSET S) + Cardinality(With)
  <2>1. Cardinality((SUBSET S) \union With)
          = Cardinality(SUBSET S) + Cardinality(With) - Cardinality({})
    BY <1>2, <1>4, <1>5, FS_Union
  <2>2. Cardinality({}) = 0
    BY FS_EmptySet
  <2>3. Cardinality(SUBSET T) = Cardinality(SUBSET S) + Cardinality(With) - 0
    BY <1>5, <2>1, <2>2, Zenon
  <2>4. QED
    BY <1>4, <1>6, <2>3
<1>9. QED
  BY <1>2, <1>4, <1>6, <1>7, <1>8

\* The empty product of twos.
LEMMA PowerOfZero == 2 ^ 0 = 1
<1>1. IsFiniteSet({}) /\ Cardinality({}) = 0
  BY FS_EmptySet
<1>2. Cardinality(SUBSET {}) = 2 ^ 0
  BY <1>1, FS_SUBSET
<1>3. SUBSET {} = {{}}
  OBVIOUS
<1>4. Cardinality({{}}) = 1
  BY FS_Singleton
<1>5. QED
  BY <1>2, <1>3, <1>4

\* The guesses of the iteration, one after the other: the recursive function exists.
LEMMA NewtonGuesses ==
  ASSUME NEW d
  PROVE  \E guess : /\ guess[0] = NewtonStart(d)
                    /\ \A n \in 0 .. NewtonSteps - 1 : guess[n + 1] = NewtonStep(d, guess[n])
                    /\ Newton(d) = guess[NewtonSteps]
<1> DEFINE Next(g, n) == IF n = 0 THEN NewtonStart(d) ELSE NewtonStep(d, g[n - 1])
           lengths == {m \in Nat : \E g : g = [n \in 0 .. m |-> Next(g, n)]}
<1>1. 0 \in lengths
  <2> DEFINE g == [n \in 0 .. 0 |-> NewtonStart(d)]
  <2>1. g = [n \in 0 .. 0 |-> Next(g, n)]
    OBVIOUS
  <2>2. QED
    BY <2>1
<1>2. ASSUME NEW m \in Nat, m \in lengths PROVE m + 1 \in lengths
  <2>1. PICK g : g = [n \in 0 .. m |-> Next(g, n)]
    BY <1>2
  <2> DEFINE h == [n \in 0 .. m + 1 |-> IF n = m + 1 THEN NewtonStep(d, g[m]) ELSE g[n]]
  <2>2. \A n \in 0 .. m + 1 : h[n] = Next(h, n)
    <3>1. \A n \in 0 .. m : h[n] = g[n] /\ g[n] = Next(g, n)
      BY <2>1
    <3>2. h[m + 1] = NewtonStep(d, h[m])
      OBVIOUS
    <3>3. \A n \in 0 .. m : n = 0 \/ n - 1 \in 0 .. m
      OBVIOUS
    <3>4. m + 1 # 0 /\ (m + 1) - 1 = m
      OBVIOUS
    <3>5. \A n \in 0 .. m + 1 : n = m + 1 \/ n \in 0 .. m
      OBVIOUS
    <3> HIDE DEF h
    <3>6. QED
      BY <3>1, <3>2, <3>3, <3>4, <3>5
  <2>3. h = [n \in 0 .. m + 1 |-> Next(h, n)]
    <3>1. h = [n \in 0 .. m + 1 |-> h[n]]
      OBVIOUS
    <3> HIDE DEF h, Next
    <3>2. [n \in 0 .. m + 1 |-> h[n]] = [n \in 0 .. m + 1 |-> Next(h, n)]
      BY <2>2, Zenon
    <3>3. QED
      BY <3>1, <3>2, Zenon
  <2> HIDE DEF h
  <2>4. QED
    BY <2>3
<1>3. \E g : g = [n \in 0 .. NewtonSteps |-> Next(g, n)]
  <2> HIDE DEF lengths
  <2>1. NewtonSteps \in lengths
    BY <1>1, <1>2, NewtonStepsAssumption, SetInduction
  <2>2. QED
    BY <2>1 DEF lengths
<1> DEFINE guess == CHOOSE g : g = [n \in 0 .. NewtonSteps |-> Next(g, n)]
<1>4. guess = [n \in 0 .. NewtonSteps |-> Next(guess, n)]
  <2> HIDE DEF Next
  <2> QED
    BY <1>3, Zenon
<1>5. Newton(d) = guess[NewtonSteps]
  BY Zenon DEF Newton
<1> HIDE DEF guess
<1>6. \A n \in 0 .. NewtonSteps : guess[n] = Next(guess, n)
  BY <1>4
<1>7. /\ guess[0] = NewtonStart(d)
      /\ \A n \in 0 .. NewtonSteps - 1 : guess[n + 1] = NewtonStep(d, guess[n])
  <2>1. 0 \in 0 .. NewtonSteps
    BY NewtonStepsAssumption
  <2>2. ASSUME NEW n \in 0 .. NewtonSteps - 1
        PROVE  n + 1 \in 0 .. NewtonSteps /\ n + 1 # 0 /\ (n + 1) - 1 = n
    BY NewtonStepsAssumption
  <2>3. QED
    BY <1>6, <2>1, <2>2
<1>8. QED
  BY <1>5, <1>7

\* A square is a natural number, of a negative one too.
LEMMA SquareNotNegative ==
  ASSUME NEW a \in Int
  PROVE  a * a \in Nat
<1>1. CASE a >= 0
  BY <1>1
<1>2. CASE a < 0
  <2>1. a * a = (-a) * (-a) /\ -a \in Nat
    BY <1>2
  <2>2. QED
    BY <2>1
<1>3. QED
  BY <1>1, <1>2

\* Every number has an integer root.
LEMMA IntegerRoot ==
  ASSUME NEW n \in Nat
  PROVE  \E r \in Nat : r * r <= n /\ n <= r * r + 2 * r
<1> DEFINE rooted == {m \in Nat : \E r \in Nat : r * r <= m /\ m <= r * r + 2 * r}
<1>1. 0 \in rooted
  OBVIOUS
<1>2. ASSUME NEW m \in Nat, m \in rooted PROVE m + 1 \in rooted
  <2>1. PICK r \in Nat : r * r <= m /\ m <= r * r + 2 * r
    BY <1>2
  <2>2. (r + 1) * (r + 1) = r * r + 2 * r + 1
    OBVIOUS
  <2>3. CASE m + 1 <= r * r + 2 * r
    BY <2>1, <2>3
  <2>4. CASE m = r * r + 2 * r
    <3>1. /\ r + 1 \in Nat /\ (r + 1) * (r + 1) <= m + 1
          /\ m + 1 <= (r + 1) * (r + 1) + 2 * (r + 1)
      BY <2>2, <2>4
    <3>2. QED
      BY <3>1
  <2>5. QED
    BY <2>1, <2>3, <2>4
<1>3. Nat \subseteq rooted
  <2> HIDE DEF rooted
  <2> QED
    BY <1>1, <1>2, SetInduction
<1>4. QED
  BY <1>3

\* A step of the iteration is the mean of the guess and its quotient, each rounded.
LEMMA StepIsMean ==
  ASSUME NEW d \in Nat \ {0}, NEW g \in Nat \ {0}
  PROVE  \E q \in Nat :
           /\ q = RoundHalfEven(d * SCALE, g)
           /\ 2 * (g * q - d * SCALE) <= g /\ 2 * (d * SCALE - g * q) <= g
           /\ NewtonStep(d, g) = RoundHalfEven(g + q, 2)
           /\ NewtonStep(d, g) \in Nat
           /\ 2 * NewtonStep(d, g) - (g + q) \in -1 .. 1
<1> DEFINE q == RoundHalfEven(d * SCALE, g)
<1>1. d * SCALE \in Nat
  BY ScaleAssumption
<1>2. q \in Nat /\ 2 * (g * q - d * SCALE) <= g /\ 2 * (d * SCALE - g * q) <= g
  <2> DEFINE N == d * SCALE
  <2>1. N \in Nat /\ N \in Int
    BY <1>1
  <2> HIDE DEF N
  <2>2. /\ RoundHalfEven(N, g) \in Nat
        /\ 2 * (g * RoundHalfEven(N, g) - N) <= g /\ 2 * (N - g * RoundHalfEven(N, g)) <= g
    BY <2>1, RoundingError, RoundingIsNat, Zenon
  <2>3. QED
    BY <2>2 DEF N
<1>3. NewtonStep(d, g) = RoundHalfEven(g + q, 2)
  BY DEF NewtonStep, DecDiv
<1> HIDE DEF q
<1>4. g + q \in Nat /\ g + q \in Int /\ 2 \in Nat \ {0}
  BY <1>2
<1> DEFINE f == RoundHalfEven(g + q, 2)
<1>5. f \in Nat /\ 2 * (2 * f - (g + q)) <= 2 /\ 2 * ((g + q) - 2 * f) <= 2
  BY <1>4, RoundingError, RoundingIsNat, Zenon
<1> HIDE DEF f
<1>6. 2 * f - (g + q) \in -1 .. 1
  BY <1>2, <1>5
<1>7. NewtonStep(d, g) = f
  BY <1>3 DEF f
<1>8. QED
  <2>1. q = RoundHalfEven(d * SCALE, g)
    BY DEF q
  <2>2. NewtonStep(d, g) \in Nat /\ 2 * NewtonStep(d, g) - (g + q) \in -1 .. 1
    BY <1>5, <1>6, <1>7
  <2>3. QED
    BY <1>2, <1>3, <2>1, <2>2, Zenon

\* From any guess a step leads to the root or above it.
LEMMA StepFromBelow ==
  ASSUME NEW d \in Nat \ {0}, NEW g \in Nat \ {0}, NEW r \in Nat, r * r <= d * SCALE
  PROVE  NewtonStep(d, g) \in Nat /\ r <= NewtonStep(d, g)
<1> DEFINE N == d * SCALE
           f == NewtonStep(d, g)
<1>1. N \in Nat
  BY ScaleAssumption
<1>2. PICK q \in Nat : /\ 2 * (g * q - N) <= g /\ 2 * (N - g * q) <= g
                       /\ f \in Nat /\ 2 * f - (g + q) \in -1 .. 1
  BY StepIsMean
<1> HIDE DEF N, f
<1>3. SUFFICES ASSUME f <= r - 1 PROVE FALSE
  BY <1>2 DEF f
<1>4. g + q <= 2 * r - 1
  BY <1>2, <1>3
<1>5. g * (g + q) <= g * (2 * r - 1)
  BY <1>4
<1>6. g * (g + q) = g * g + g * q /\ g * (2 * r - 1) = 2 * (g * r) - g
  OBVIOUS
<1>7. (g - r) * (g - r) = g * g - 2 * (g * r) + r * r /\ (g - r) * (g - r) >= 0
  <2>1. (g - r) * (g - r) >= 0
    BY SquareNotNegative
  <2>2. QED
    BY <2>1
<1>8. /\ g * g \in Int /\ g * q \in Int /\ g * r \in Int /\ r * r \in Int
      /\ r * r <= N
  BY DEF N
<1>9. QED
  BY <1>1, <1>2, <1>5, <1>6, <1>7, <1>8

\* A step from e above the root leads to about half of it above the root.
LEMMA StepFromAbove ==
  ASSUME NEW d \in Nat \ {0}, NEW r \in Nat \ {0}, d * SCALE <= r * r + 2 * r, NEW e \in Nat
  PROVE  /\ NewtonStep(d, r + e) \in Nat
         /\ 4 * ((r + e) * (NewtonStep(d, r + e) - r)) <= 2 * (e * e) + 7 * r + 3 * e
<1> DEFINE N == d * SCALE
           g == r + e
           f == NewtonStep(d, g)
<1>1. N \in Nat /\ g \in Nat \ {0}
  BY ScaleAssumption
<1>2. PICK q \in Nat : /\ 2 * (g * q - N) <= g /\ 2 * (N - g * q) <= g
                       /\ f \in Nat /\ 2 * f - (g + q) \in -1 .. 1
  BY <1>1, StepIsMean
<1> HIDE DEF f
<1>3. 2 * f <= g + q + 1
  BY <1>1, <1>2
<1>4. g * (2 * f) <= g * (g + q + 1)
  BY <1>1, <1>2, <1>3
<1>5. g * (2 * f) = 2 * (g * f) /\ g * (g + q + 1) = g * g + g * q + g
  BY <1>1, <1>2
<1>6. g * g = r * r + 2 * (r * e) + e * e /\ g * (f - r) = g * f - r * r - r * e
  BY <1>2
<1> HIDE DEF N
<1>7. /\ N <= r * r + 2 * r
      /\ g * f \in Int /\ g * q \in Int /\ r * r \in Int /\ r * e \in Int /\ e * e \in Int
      /\ g * (f - r) \in Int
  BY <1>1, <1>2 DEF N
<1>8. 4 * (g * (f - r)) <= 2 * (e * e) + 4 * r + 3 * g
  <2> HIDE DEF g
  <2>1. 4 * (g * f) <= 2 * (g * g) + 2 * (g * q) + 2 * g
    BY <1>1, <1>4, <1>5, <1>7
  <2>2. 2 * (g * q) <= 2 * N + g
    BY <1>1, <1>2, <1>7
  <2>3. QED
    BY <1>1, <1>6, <1>7, <2>1, <2>2
<1>9. QED
  BY <1>2, <1>8 DEF f

\* Closer than four, a step or two lead to the root or its neighbour.
LEMMA StepNearRoot ==
  ASSUME NEW d \in Nat \ {0}, NEW r \in Nat \ {0},
         r * r <= d * SCALE, d * SCALE <= r * r + 2 * r
  PROVE  /\ \A e \in 0 .. 2 : NewtonStep(d, r + e) \in r .. r + 1
         /\ NewtonStep(d, r + 3) \in r .. r + 2
<1>1. ASSUME NEW e \in 0 .. 3, NEW a \in 1 .. 2, 2 * (e * e) + 7 * r + 3 * e < 4 * (r + e) * (a + 1)
      PROVE  NewtonStep(d, r + e) \in r .. r + a
  <2> DEFINE f == NewtonStep(d, r + e)
  <2>1. e \in Nat /\ r + e \in Nat \ {0}
    OBVIOUS
  <2>2. /\ f \in Nat /\ r <= f
        /\ 4 * ((r + e) * (f - r)) <= 2 * (e * e) + 7 * r + 3 * e
    BY <2>1, StepFromBelow, StepFromAbove
  <2> HIDE DEF f
  <2>3. SUFFICES ASSUME f - r >= a + 1 PROVE FALSE
    BY <2>2 DEF f
  <2>4. (r + e) * (a + 1) <= (r + e) * (f - r)
    BY <2>1, <2>2, <2>3
  <2>5. 4 * (r + e) * (a + 1) = 4 * ((r + e) * (a + 1)) /\ (r + e) * (a + 1) \in Int
        /\ (r + e) * (f - r) \in Int /\ e * e \in Int
    BY <2>2
  <2>6. QED
    BY <1>1, <2>2, <2>4, <2>5
<1>2. ASSUME NEW e \in 0 .. 2 PROVE NewtonStep(d, r + e) \in r .. r + 1
  <2>1. 2 * (e * e) + 7 * r + 3 * e < 4 * (r + e) * 2
    <3>1. CASE e = 0
      BY <3>1
    <3>2. CASE e = 1
      BY <3>2
    <3>3. CASE e = 2
      BY <3>3
    <3>4. QED
      BY <3>1, <3>2, <3>3
  <2>2. QED
    BY <1>1, <2>1
<1>3. NewtonStep(d, r + 3) \in r .. r + 2
  <2>1. 2 * (3 * 3) + 7 * r + 3 * 3 < 4 * (r + 3) * (2 + 1)
    OBVIOUS
  <2>2. QED
    BY <1>1, <2>1
<1>4. QED
  BY <1>2, <1>3

\* The root and its neighbour lead to each other only if the number is the root times the
\* root and a half, with an even root.
LEMMA NeighboursSwap ==
  ASSUME NEW d \in Nat \ {0}, NEW r \in Nat \ {0},
         NewtonStep(d, r) = r + 1, NewtonStep(d, r + 1) = r
  PROVE  r % 2 = 0 /\ 2 * (d * SCALE) = r * (2 * r + 3)
<1> DEFINE N == d * SCALE
<1>1. PICK q \in Nat : /\ q = RoundHalfEven(N, r)
                       /\ 2 * (r * q - N) <= r
                       /\ RoundHalfEven(r + q, 2) = r + 1
                       /\ 2 * (r + 1) - (r + q) \in -1 .. 1
  BY StepIsMean
<1>2. PICK p \in Nat : /\ p = RoundHalfEven(N, r + 1)
                       /\ 2 * (N - (r + 1) * p) <= r + 1
                       /\ RoundHalfEven((r + 1) + p, 2) = r
                       /\ 2 * r - ((r + 1) + p) \in -1 .. 1
  <2> DEFINE g == r + 1
  <2>1. g \in Nat \ {0} /\ NewtonStep(d, g) = r
    OBVIOUS
  <2> HIDE DEF g
  <2>2. \E p \in Nat : /\ p = RoundHalfEven(N, g)
                       /\ 2 * (N - g * p) <= g
                       /\ RoundHalfEven(g + p, 2) = r
                       /\ 2 * r - (g + p) \in -1 .. 1
    BY <2>1, StepIsMean
  <2>3. QED
    BY <2>2 DEF g
<1>3. N \in Nat
  BY ScaleAssumption
<1> HIDE DEF N
<1>4. q >= r + 1 /\ p <= r
  BY <1>1, <1>2
<1>5. r * (r + 1) <= r * q /\ (r + 1) * p <= (r + 1) * r
  BY <1>4
<1>6. q = r + 1 => r % 2 = 1
  <2>1. SUFFICES ASSUME q = r + 1 PROVE r % 2 = 1
    OBVIOUS
  <2>2. RoundHalfEven(r + (r + 1), 2) % 2 = 0
    BY TieIsEven
  <2>3. QED
    BY <1>1, <2>1, <2>2
<1>7. p = r => r % 2 = 0
  <2>1. SUFFICES ASSUME p = r PROVE r % 2 = 0
    OBVIOUS
  <2>2. RoundHalfEven((r + 1) + r, 2) % 2 = 0
    BY TieIsEven
  <2>3. QED
    BY <1>2, <2>1, <2>2
<1>8. r % 2 = 0
  <2>1. SUFFICES ASSUME r % 2 = 1 PROVE FALSE
    OBVIOUS
  <2>2. p <= r - 1
    BY <1>2, <1>4, <1>7, <2>1
  <2>3. (r + 1) * p <= (r + 1) * (r - 1)
    BY <2>2
  <2>4. (r + 1) * (r - 1) = r * r - 1 /\ r * (r + 1) = r * r + r
    OBVIOUS
  <2>5. r * r \in Int /\ r * q \in Int /\ (r + 1) * p \in Int
    OBVIOUS
  <2>6. QED
    BY <1>1, <1>2, <1>3, <1>5, <2>3, <2>4, <2>5
<1>9. q >= r + 2
  BY <1>4, <1>6, <1>8
<1>10. 2 * N >= 2 * (r * r) + 3 * r
  <2>1. r * (r + 2) <= r * q /\ r * (r + 2) = r * r + 2 * r
    BY <1>9
  <2>2. r * r \in Int /\ r * q \in Int
    OBVIOUS
  <2>3. QED
    BY <1>1, <1>3, <2>1, <2>2
<1>11. 2 * N <= 2 * (r * r) + 3 * r + 1
  <2>1. (r + 1) * r = r * r + r /\ r * r \in Int /\ (r + 1) * p \in Int
    OBVIOUS
  <2>2. QED
    BY <1>2, <1>3, <1>5, <2>1
<1>12. r * (2 * r + 3) = 2 * (r * r) + 3 * r
  OBVIOUS
<1>13. PICK h \in Nat : r = 2 * h
  <2>1. r \div 2 \in Nat /\ r = 2 * (r \div 2) + (r % 2)
    BY SMT
  <2>2. QED
    BY <1>8, <2>1
<1>14. 2 * (r * r) + 3 * r = 2 * (r * r + 3 * h) /\ r * r + 3 * h \in Int
  <2>1. 3 * r = 2 * (3 * h) /\ r * r \in Int /\ 3 * h \in Int
    BY <1>13
  <2>2. QED
    BY <2>1
<1>15. N = r * r + 3 * h
  BY <1>3, <1>10, <1>11, <1>14
<1>16. QED
  BY <1>8, <1>12, <1>14, <1>15 DEF N

\* The distance from the root halves, but for a constant.
LEMMA StepHalves ==
  ASSUME NEW d \in Nat \ {0}, NEW r \in Nat \ {0}, d * SCALE <= r * r + 2 * r,
         r * r <= d * SCALE, NEW g \in Nat, r <= g
  PROVE  /\ NewtonStep(d, g) \in Nat /\ r <= NewtonStep(d, g)
         /\ 4 * (NewtonStep(d, g) - r) <= 2 * (g - r) + 7
<1> DEFINE f == NewtonStep(d, g)
           e == g - r
<1>1. e \in Nat /\ g = r + e /\ g \in Nat \ {0}
  OBVIOUS
<1>2. f \in Nat /\ r <= f
  BY <1>1, StepFromBelow
<1>3. 4 * (g * (f - r)) <= 2 * (e * e) + 7 * r + 3 * e
  <2> HIDE DEF e
  <2>1. 4 * ((r + e) * (NewtonStep(d, r + e) - r)) <= 2 * (e * e) + 7 * r + 3 * e
    BY <1>1, StepFromAbove
  <2>2. QED
    BY <1>1, <2>1
<1> HIDE DEF e, f
<1>4. g * (2 * e + 7) = 2 * (r * e) + 2 * (e * e) + 7 * r + 7 * e
  BY <1>1
<1>5. g * (4 * (f - r)) = 4 * (g * (f - r)) /\ g * (f - r) \in Int
  BY <1>2
<1>6. r * e \in Nat /\ e * e \in Nat
  BY <1>1
<1>7. g * (4 * (f - r)) <= g * (2 * e + 7)
  BY <1>1, <1>3, <1>4, <1>5, <1>6
<1>8. 4 * (f - r) <= 2 * e + 7
  BY <1>1, <1>2, <1>7, Cancels
<1>9. QED
  BY <1>2, <1>8 DEF e, f

\* The first guess is about half the number, so that the next is not far above the root.
LEMMA FirstStep ==
  ASSUME NEW d \in Nat \ {0}
  PROVE  /\ NewtonStart(d) \in Nat \ {0}
         /\ NewtonStep(d, NewtonStart(d)) \in Nat
         /\ 4 * NewtonStep(d, NewtonStart(d)) <= d + 6 * SCALE + 3
<1> DEFINE g == NewtonStart(d)
           f == NewtonStep(d, g)
           half == RoundHalfEven(d, 2)
<1>1. half \in Nat /\ 2 * (2 * half - d) <= 2 /\ 2 * (d - 2 * half) <= 2
  <2>1. d \in Nat /\ d \in Int /\ 2 \in Nat \ {0}
    OBVIOUS
  <2>2. QED
    BY <2>1, RoundingError, RoundingIsNat, Zenon
<1>2. g = IF half = 0 THEN d ELSE half
  BY DEF NewtonStart
<1> HIDE DEF g, half
<1>3. g \in Nat \ {0} /\ 2 * g <= d + 1 /\ d <= 3 * g
  BY <1>1, <1>2
<1>4. PICK q \in Nat : /\ 2 * (g * q - d * SCALE) <= g
                       /\ f \in Nat /\ 2 * f - (g + q) \in -1 .. 1
  BY <1>3, StepIsMean
<1> HIDE DEF f
<1>5. d * SCALE <= 3 * (g * SCALE)
  <2>1. d * SCALE <= (3 * g) * SCALE /\ (3 * g) * SCALE = 3 * (g * SCALE)
    BY <1>3, ScaleAssumption
  <2>2. QED
    BY <2>1
<1>6. 2 * q <= 6 * SCALE + 1
  <2>1. g * (2 * q) = 2 * (g * q) /\ g * (6 * SCALE + 1) = 6 * (g * SCALE) + g
    BY <1>3, ScaleAssumption
  <2>2. g * q \in Int /\ g * SCALE \in Int /\ d * SCALE \in Int
    BY <1>3, ScaleAssumption
  <2>3. g * (2 * q) <= g * (6 * SCALE + 1)
    BY <1>3, <1>4, <1>5, <2>1, <2>2
  <2>4. 2 * q \in Int /\ 6 * SCALE + 1 \in Int
    BY ScaleAssumption
  <2>5. QED
    BY <1>3, <2>3, <2>4, Cancels
<1>7. QED
  BY <1>3, <1>4, <1>6, ScaleAssumption DEF f, g

\* Whether the steps are enough for a number: one for each binary digit, and a few more.
InReach(d) == \E n \in Nat : n + 3 <= NewtonSteps /\ d + 6 * SCALE <= 2 ^ n

\* With a step for each binary digit and a few more, the iteration settles on a root, unless
\* it goes back and forth between two neighbours.  (The crate takes almost 1000 steps; its
\* largest decimal has 190 binary digits, counted in units of its smallest.)
THEOREM RootSettles ==
  ASSUME NEW d \in Nat, InReach(d), ~Oscillates(d)
  PROVE  DecSqrt(d) # {}
<1> SUFFICES ASSUME NEW n \in Nat, n + 3 <= NewtonSteps, d + 6 * SCALE <= 2 ^ n
             PROVE  DecSqrt(d) # {}
  BY DEF InReach
<1>1. SUFFICES ASSUME d # 0 PROVE DecSqrt(d) # {}
  <2>1. d = 0 => DecSqrt(d) = {0}
    BY DEF DecSqrt
  <2>2. QED
    BY <2>1
<1> DEFINE N == d * SCALE
<1>2. N \in Nat \ {0} /\ d \in Nat \ {0}
  BY <1>1, ScaleAssumption
<1>3. PICK r \in Nat : r * r <= N /\ N <= r * r + 2 * r
  BY <1>2, IntegerRoot
<1>4. r # 0
  BY <1>2, <1>3
<1>5. PICK guess : /\ guess[0] = NewtonStart(d)
                   /\ \A k \in 0 .. NewtonSteps - 1 : guess[k + 1] = NewtonStep(d, guess[k])
                   /\ Newton(d) = guess[NewtonSteps]
  BY NewtonGuesses
<1> DEFINE e == guess[1] - r
<1>6. guess[1] \in Nat /\ r <= guess[1] /\ 4 * e < 2 ^ n
  <2>1. 0 \in 0 .. NewtonSteps - 1 /\ 0 + 1 = 1
    BY NewtonStepsAssumption
  <2>2. guess[1] = NewtonStep(d, NewtonStart(d))
    BY <1>5, <2>1
  <2>3. r <= guess[1]
    BY <1>2, <1>3, <2>2, FirstStep, StepFromBelow
  <2>4. guess[1] \in Nat /\ 4 * guess[1] <= d + 6 * SCALE + 3
    BY <1>2, <2>2, FirstStep
  <2>5. 2 ^ n \in Nat
    BY PowersOfTwo
  <2>6. QED
    BY <1>4, <2>3, <2>4, <2>5, ScaleAssumption
<1> HIDE DEF N
<1> DEFINE Halved(k) == /\ guess[k + 1] \in Nat /\ r <= guess[k + 1]
                        /\ (2 * (guess[k + 1] - r) - 7) * 2 ^ k <= 2 * e
           halved == {k \in Nat : k + 1 <= NewtonSteps => Halved(k)}
<1>7. n >= 1
  <2>1. n = 0 => 2 ^ n = 1
    BY PowerOfZero
  <2>2. QED
    BY <2>1, ScaleAssumption
<1>8. Nat \subseteq halved
  <2>1. 0 \in halved
    <3>1. 2 ^ 0 = 1
      BY PowerOfZero
    <3>2. QED
      BY <1>6, <3>1
  <2>2. ASSUME NEW k \in Nat, k \in halved PROVE k + 1 \in halved
    <3>1. SUFFICES ASSUME (k + 1) + 1 <= NewtonSteps PROVE Halved(k + 1)
      OBVIOUS
    <3> DEFINE g == guess[k + 1]
               f == guess[(k + 1) + 1]
    <3>2. g \in Nat /\ r <= g /\ (2 * (g - r) - 7) * 2 ^ k <= 2 * e
      BY <2>2, <3>1, NewtonStepsAssumption
    <3>3. f = NewtonStep(d, g)
      <4>1. k + 1 \in 0 .. NewtonSteps - 1
        BY <3>1, NewtonStepsAssumption
      <4>2. QED
        BY <1>5, <4>1
    <3> HIDE DEF f, g
    <3>4. f \in Nat /\ r <= f /\ 4 * (f - r) <= 2 * (g - r) + 7
      BY <1>2, <1>3, <1>4, <3>2, <3>3, StepHalves DEF N
    <3>5. 2 ^ k \in Nat /\ 2 ^ (k + 1) = 2 * 2 ^ k
      BY PowersOfTwo
    <3>6. (2 * (f - r) - 7) * 2 ^ (k + 1) <= 2 * e
      <4> DEFINE p == 2 ^ k
                 a == 2 * (2 * (f - r) - 7)
                 b == 2 * (g - r) - 7
      <4>1. p \in Nat /\ a \in Int /\ b \in Int /\ a <= b
        BY <3>2, <3>4, <3>5
      <4>2. (2 * (f - r) - 7) * (2 * p) = a * p
        BY <3>4, <3>5
      <4> HIDE DEF a, b, p
      <4>3. a * p <= b * p /\ a * p \in Int /\ b * p \in Int
        BY <4>1
      <4>4. b * p <= 2 * e /\ 2 * e \in Int
        BY <1>6, <3>2 DEF b, p
      <4> HIDE DEF e
      <4>5. a * p <= 2 * e
        BY <4>3, <4>4
      <4>6. QED
        BY <3>5, <4>2, <4>5 DEF p
    <3>7. QED
      BY <3>4, <3>6 DEF f
  <2> HIDE DEF halved
  <2>3. QED
    BY <2>1, <2>2, SetInduction
<1>9. guess[n] \in r .. r + 3
  <2>1. n - 1 \in Nat /\ (n - 1) + 1 = n /\ n <= NewtonSteps
    BY <1>7, NewtonStepsAssumption
  <2>2. Halved(n - 1)
    BY <1>8, <2>1
  <2> DEFINE p == 2 ^ (n - 1)
             x == 2 * (guess[n] - r) - 7
  <2>3. guess[n] \in Nat /\ r <= guess[n] /\ x * p <= 2 * e
    BY <2>1, <2>2
  <2>4. p \in Nat \ {0} /\ 2 ^ n = 2 * p
    BY <2>1, PowersOfTwo
  <2>5. x \in Int
    BY <2>3
  <2>6. SUFFICES ASSUME x >= 1 PROVE FALSE
    BY <2>3
  <2>7. 2 * e < p
    BY <1>6, <2>4
  <2> HIDE DEF x, p, e
  <2>8. x * p >= p /\ x * p \in Int
    BY <2>4, <2>5, <2>6
  <2>9. e \in Int
    BY <1>6 DEF e
  <2>10. QED
    BY <2>3, <2>4, <2>7, <2>8, <2>9
<1>10. \A k \in Nat : k + 1 <= NewtonSteps => guess[k + 1] = NewtonStep(d, guess[k])
  BY <1>5, NewtonStepsAssumption
<1>11. /\ guess[n + 1] = NewtonStep(d, guess[n]) /\ guess[n + 2] = NewtonStep(d, guess[n + 1])
       /\ guess[n + 3] = NewtonStep(d, guess[n + 2])
  <2>1. (n + 1) + 1 = n + 2 /\ (n + 2) + 1 = n + 3 /\ n + 1 \in Nat /\ n + 2 \in Nat
        /\ n + 1 <= NewtonSteps /\ n + 2 <= NewtonSteps
    BY NewtonStepsAssumption
  <2>2. QED
    BY <1>10, <2>1
<1>12. /\ \A x \in r .. r + 2 : NewtonStep(d, x) \in r .. r + 1
       /\ \A x \in r .. r + 3 : NewtonStep(d, x) \in r .. r + 2
  <2>1. /\ \A a \in 0 .. 2 : NewtonStep(d, r + a) \in r .. r + 1
        /\ NewtonStep(d, r + 3) \in r .. r + 2
    BY <1>2, <1>3, <1>4, StepNearRoot DEF N
  <2>2. \A x \in r .. r + 2 : x - r \in 0 .. 2 /\ r + (x - r) = x
    OBVIOUS
  <2>3. \A x \in r .. r + 2 : NewtonStep(d, x) \in r .. r + 1
    BY <2>1, <2>2
  <2>4. \A x \in r .. r + 3 : x \in r .. r + 2 \/ x = r + 3
    OBVIOUS
  <2>5. QED
    BY <2>1, <2>3, <2>4
<1>13. guess[n + 2] \in r .. r + 1 /\ guess[n + 3] \in r .. r + 1
  BY <1>9, <1>11, <1>12
<1>14. ~(NewtonStep(d, r) = r + 1 /\ NewtonStep(d, r + 1) = r)
  <2>1. SUFFICES ASSUME NewtonStep(d, r) = r + 1, NewtonStep(d, r + 1) = r PROVE FALSE
    OBVIOUS
  <2>2. r % 2 = 0 /\ 2 * (d * SCALE) = r * (2 * r + 3)
    BY <1>2, <1>4, <2>1, NeighboursSwap
  <2>3. r <= d + SCALE
    <3>1. r * r <= (d + SCALE) * (d + SCALE)
      <4>1. (d + SCALE) * (d + SCALE) = d * d + 2 * (d * SCALE) + SCALE * SCALE
        BY ScaleAssumption
      <4>2. d * d \in Nat /\ SCALE * SCALE \in Nat /\ d * SCALE \in Nat /\ r * r \in Nat
        BY ScaleAssumption
      <4>3. r * r <= d * SCALE
        BY <1>3 DEF N
      <4>4. QED
        BY <4>1, <4>2, <4>3
    <3>2. QED
      BY <3>1, SquareOrder, ScaleAssumption
  <2>4. r \in 1 .. d + One
    BY <1>4, <2>3, ScaleAssumption DEF One
  <2>5. QED
    BY <1>1, <2>2, <2>4 DEF Oscillates
<1>15. NewtonStep(d, guess[n + 3]) = guess[n + 3]
  <2>1. \A x \in r .. r + 1 : x = r \/ x = r + 1
    OBVIOUS
  <2>2. NewtonStep(d, guess[n + 3]) \in r .. r + 1
    <3>1. r .. r + 1 \subseteq r .. r + 2
      OBVIOUS
    <3>2. QED
      BY <1>12, <1>13, <3>1
  <2>3. QED
    BY <1>11, <1>13, <1>14, <2>1, <2>2
<1> DEFINE settled == {k \in Nat : n + 3 + k <= NewtonSteps => guess[n + 3 + k] = guess[n + 3]}
<1>16. Nat \subseteq settled
  <2>1. 0 \in settled
    OBVIOUS
  <2>2. ASSUME NEW k \in Nat, k \in settled PROVE k + 1 \in settled
    <3>1. SUFFICES ASSUME n + 3 + (k + 1) <= NewtonSteps
                   PROVE  guess[n + 3 + (k + 1)] = guess[n + 3]
      OBVIOUS
    <3>2. /\ n + 3 + (k + 1) = (n + 3 + k) + 1 /\ n + 3 + k \in Nat
          /\ n + 3 + k <= NewtonSteps
      BY <3>1, NewtonStepsAssumption
    <3>3. guess[(n + 3 + k) + 1] = NewtonStep(d, guess[n + 3 + k])
      BY <1>10, <3>1, <3>2
    <3>4. QED
      BY <1>15, <2>2, <3>2, <3>3
  <2> HIDE DEF settled
  <2>3. QED
    BY <2>1, <2>2, SetInduction
<1>17. Newton(d) = guess[n + 3]
  <2>1. NewtonSteps - (n + 3) \in Nat /\ n + 3 + (NewtonSteps - (n + 3)) = NewtonSteps
    BY NewtonStepsAssumption
  <2>2. NewtonSteps - (n + 3) \in settled
    BY <1>16, <2>1
  <2>3. guess[NewtonSteps] = guess[n + 3]
    BY <2>1, <2>2, NewtonStepsAssumption
  <2>4. QED
    BY <1>5, <2>3
<1>18. Newton(d) \in Nat \ {0} /\ NewtonStep(d, Newton(d)) = Newton(d)
  BY <1>4, <1>13, <1>15, <1>17
<1>19. DecSqrt(d) = {x \in {Newton(d)} : x \in Nat \ {0} /\ NewtonStep(d, x) = x}
  BY <1>2 DEF DecSqrt
<1>20. Newton(d) \in DecSqrt(d)
  BY <1>18, <1>19
<1>21. QED
  BY <1>20

----------------------------------------------------------------------------
(* Halves *)

LEMMA ScaleIsTwice ==
  ASSUME SCALE % 2 = 0
  PROVE  \E h \in Nat : SCALE = 2 * h
<1> DEFINE h == SCALE \div 2
<1>1. SCALE \in Nat /\ 2 \in Nat \ {0}
  BY ScaleAssumption
<1>2. h \in Nat /\ SCALE = 2 * h + (SCALE % 2)
  BY <1>1, DivModFact, DivIsNat
<1> HIDE DEF h
<1>3. SCALE = 2 * h
  BY <1>1, <1>2
<1>4. QED
  BY <1>2, <1>3

\* Half a quotient, each rounded, and the divisor: half of the dividend but for the rounding
\* of a quotient and a product.
LEMMA HalfQuotient ==
  ASSUME NEW l \in Nat \ {0}, NEW u \in Nat \ {0}, NEW h \in Nat, SCALE = 2 * h
  PROVE  /\ DecMul(DecDiv(l, u), RoundHalfEven(One, 2)) \in Nat
         /\ 2 * (2 * (DecMul(DecDiv(l, u), RoundHalfEven(One, 2)) * u) - l * SCALE) <= 3 * u
         /\ 2 * (l * SCALE - 2 * (DecMul(DecDiv(l, u), RoundHalfEven(One, 2)) * u)) <= 3 * u
<1> DEFINE D == RoundHalfEven(l * SCALE, u)
           B == RoundHalfEven(D * h, SCALE)
<1>1. l * SCALE \in Nat
  BY ScaleAssumption
<1>2. D \in Nat /\ 2 * (u * D - l * SCALE) <= u /\ 2 * (l * SCALE - u * D) <= u
  <2> DEFINE n == l * SCALE
  <2>1. n \in Nat /\ n \in Int
    BY <1>1
  <2> HIDE DEF n
  <2>2. /\ RoundHalfEven(n, u) \in Nat
        /\ 2 * (u * RoundHalfEven(n, u) - n) <= u /\ 2 * (n - u * RoundHalfEven(n, u)) <= u
    BY <2>1, RoundingError, RoundingIsNat
  <2>3. QED
    BY <2>2 DEF n
<1>3. RoundHalfEven(h * 2, 2) = h
  BY RoundingExact
<1>4. DecMul(DecDiv(l, u), RoundHalfEven(One, 2)) = B
  BY <1>3 DEF DecMul, DecDiv, One
<1> HIDE DEF D
<1>5. D * h \in Nat
  BY <1>2
<1>6. B \in Nat /\ 2 * (SCALE * B - D * h) <= SCALE /\ 2 * (D * h - SCALE * B) <= SCALE
  <2> DEFINE n == D * h
  <2>1. n \in Nat /\ n \in Int
    BY <1>5
  <2> HIDE DEF n
  <2>2. /\ RoundHalfEven(n, SCALE) \in Nat
        /\ 2 * (SCALE * RoundHalfEven(n, SCALE) - n) <= SCALE
        /\ 2 * (n - SCALE * RoundHalfEven(n, SCALE)) <= SCALE
    BY <2>1, RoundingError, RoundingIsNat, ScaleAssumption
  <2>3. QED
    BY <2>2 DEF n
<1> HIDE DEF B
<1>7. 2 * B - D <= 1 /\ D - 2 * B <= 1
  <2>1. SCALE * B - D * h = h * (2 * B - D) /\ D * h - SCALE * B = h * (D - 2 * B)
    BY <1>2, <1>6
  <2>2. h >= 1
    BY ScaleAssumption
  <2>3. h * (2 * B - D) <= h /\ h * (D - 2 * B) <= h
    <3>1. h * (2 * B - D) \in Int /\ h * (D - 2 * B) \in Int
      BY <1>2, <1>6
    <3>2. QED
      BY <1>6, <2>1, <3>1
  <2>4. ASSUME NEW x \in Int, h * x <= h PROVE x <= 1
    <3>1. SUFFICES ASSUME x >= 2 PROVE FALSE
      BY <2>4
    <3>2. h * x = h + h * (x - 1) /\ h * (x - 1) >= 1
      BY <2>2, <3>1
    <3>3. QED
      BY <2>4, <3>2
  <2>5. 2 * B - D \in Int /\ D - 2 * B \in Int
    BY <1>2, <1>6
  <2>6. QED
    BY <2>3, <2>4, <2>5
<1>8. u * (2 * B - D) <= u /\ u * (D - 2 * B) <= u
  BY <1>2, <1>6, <1>7
<1>9. /\ u * (2 * B - D) = 2 * (B * u) - u * D /\ u * (D - 2 * B) = u * D - 2 * (B * u)
      /\ B * u \in Int /\ u * D \in Int
  BY <1>2, <1>6
<1>10. QED
  BY <1>1, <1>2, <1>4, <1>6, <1>8, <1>9

=============================================================================
