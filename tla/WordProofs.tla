----------------------------- MODULE WordProofs -----------------------------
(***************************************************************************)
(* Proofs about the words of module Words, whatever their width.           *)
(***************************************************************************)
EXTENDS Words, FiniteSetTheorems, TLAPS

\* A remainder is below the divisor.
LEMMA RemainderRange ==
  ASSUME NEW h \in Nat \ {0}, NEW n \in Int
  PROVE  n % h \in 0 .. h - 1
  OBVIOUS

\* Quotient and remainder are the only pair there is.
LEMMA QuotientAndRemainder ==
  ASSUME NEW h \in Nat \ {0}, NEW q \in Int, NEW r \in 0 .. h - 1
  PROVE  (q * h + r) \div h = q /\ (q * h + r) % h = r
<1> DEFINE n == q * h + r
           d == n \div h
           m == n % h
<1>1. n \in Int /\ d \in Int /\ n = h * d + m /\ m \in 0 .. h - 1
  OBVIOUS
<1>2. h * (d - q) = r - m
  BY <1>1
<1>3. r - m \in 1 - h .. h - 1
  BY <1>1
<1> HIDE DEF d, n, m
<1>4. d - q = 0
  <2>1. CASE d - q >= 1
    <3>1. h * (d - q) >= h
      BY <1>1, <2>1
    <3> QED
      BY <1>1, <1>2, <1>3, <3>1
  <2>2. CASE d - q <= -1
    <3>1. h * (d - q) <= -h
      BY <1>1, <2>2
    <3> QED
      BY <1>1, <1>2, <1>3, <3>1
  <2> QED
    BY <1>1, <2>1, <2>2
<1> QED
  BY <1>1, <1>2, <1>4 DEF d, n, m

\* A remainder of what is less than the divisor away from its range.
LEMMA NearRemainder ==
  ASSUME NEW h \in Nat \ {0}, NEW n \in Int, -h <= n, n < 2 * h
  PROVE  n % h = IF n < 0 THEN n + h ELSE IF n < h THEN n ELSE n - h
<1>1. CASE n < 0
  <2>1. n = (-1) * h + (n + h) /\ n + h \in 0 .. h - 1 /\ -1 \in Int
    BY <1>1
  <2> QED
    BY <1>1, <2>1, QuotientAndRemainder
<1>2. CASE 0 <= n /\ n < h
  BY <1>2
<1>3. CASE n >= h
  <2>1. n = 1 * h + (n - h) /\ n - h \in 0 .. h - 1 /\ 1 \in Int
    BY <1>3
  <2> QED
    BY <1>3, <2>1, QuotientAndRemainder
<1> QED
  BY <1>1, <1>2, <1>3

\* A number may be taken modulo the width before it is added.
LEMMA RemainderOfSum ==
  ASSUME NEW h \in Nat \ {0}, NEW a \in Int, NEW b \in Int
  PROVE  ((a % h) + b) % h = (a + b) % h
<1> DEFINE r == a % h
           q == a \div h
           s == (r + b) % h
           t == (r + b) \div h
<1>1. q \in Int /\ a = q * h + r /\ r \in Int
  OBVIOUS
<1>2. t \in Int /\ s \in 0 .. h - 1 /\ r + b = t * h + s
  BY <1>1
<1> HIDE DEF r, q, s, t
<1>3. a + b = (q + t) * h + s /\ q + t \in Int
  BY <1>1, <1>2
<1>4. (a + b) % h = s
  BY <1>2, <1>3, QuotientAndRemainder
<1> QED
  BY <1>4 DEF r, s

\* The halves of a word are half words, and are what W36 puts together.
LEMMA Halves ==
  ASSUME NEW w \in Word
  PROVE  /\ lhu(w) \in HalfWord /\ rhu(w) \in HalfWord
         /\ w = lhu(w) * HalfSize + rhu(w)
         /\ w = W36(lhu(w), rhu(w))
<1>1. HalfSize \in Nat \ {0} /\ w \in Int /\ w >= 0 /\ w < HalfSize * HalfSize
  BY WordAssumption DEF Word
<1>2. rhu(w) \in HalfWord /\ w = HalfSize * lhu(w) + rhu(w) /\ lhu(w) \in Int
  BY <1>1 DEF rhu, lhu, HalfWord
<1>3. lhu(w) \in HalfWord
  <2>1. CASE lhu(w) < 0
    <3>1. HalfSize * lhu(w) <= -HalfSize
      BY <1>1, <1>2, <2>1
    <3> QED
      BY <1>1, <1>2, <3>1 DEF HalfWord
  <2>2. CASE lhu(w) >= HalfSize
    <3>1. HalfSize * lhu(w) >= HalfSize * HalfSize
      BY <1>1, <1>2, <2>2
    <3> QED
      BY <1>1, <1>2, <3>1 DEF HalfWord
  <2> QED
    BY <1>1, <1>2, <2>1, <2>2 DEF HalfWord
<1>4. lhu(w) % HalfSize = lhu(w) /\ rhu(w) % HalfSize = rhu(w)
  BY <1>1, <1>2, <1>3, NearRemainder DEF HalfWord
<1> QED
  BY <1>1, <1>2, <1>3, <1>4 DEF W36

\* W36 makes a word, of which it is the halves.
LEMMA HalvesOfW36 ==
  ASSUME NEW l \in Int, NEW r \in Int
  PROVE  /\ W36(l, r) \in Word
         /\ lhu(W36(l, r)) = l % HalfSize
         /\ rhu(W36(l, r)) = r % HalfSize
<1> DEFINE a == l % HalfSize
           b == r % HalfSize
<1>1. HalfSize \in Nat \ {0} /\ a \in 0 .. HalfSize - 1 /\ b \in 0 .. HalfSize - 1
  BY WordAssumption, RemainderRange
<1>2. W36(l, r) = a * HalfSize + b
  BY DEF W36
<1> HIDE DEF a, b
<1>3. lhu(W36(l, r)) = a /\ rhu(W36(l, r)) = b
  BY <1>1, <1>2, QuotientAndRemainder DEF lhu, rhu
<1>4. a * HalfSize + b \in 0 .. HalfSize * HalfSize - 1
  <2>1. a * HalfSize >= 0 /\ a * HalfSize <= (HalfSize - 1) * HalfSize
    BY <1>1
  <2>2. (HalfSize - 1) * HalfSize = HalfSize * HalfSize - HalfSize
    BY <1>1
  <2> QED
    BY <1>1, <2>1, <2>2
<1> QED
  BY <1>2, <1>3, <1>4, WordAssumption DEF Word, a, b

\* The width of a half word is even, so that a word is negative when its left half is.
LEMMA SignOfHalf ==
  /\ \A w \in Word : sign(w) <=> 2 * lhu(w) >= HalfSize
  /\ HalfSize >= 2
<1>1. /\ HalfSize \in Nat \ {0} /\ SignBit \in Nat \ {0}
      /\ HalfSize * HalfSize = 2 * SignBit
  BY WordAssumption
<1>2. PICK k \in Nat : HalfSize = 2 * k
  <2> DEFINE k == HalfSize \div 2
  <2>1. k \in Nat /\ (HalfSize = 2 * k \/ HalfSize = 2 * k + 1)
    BY <1>1
  <2> HIDE DEF k
  <2>2. CASE HalfSize = 2 * k + 1
    <3>1. HalfSize * HalfSize = 2 * (2 * (k * k) + 2 * k) + 1
      BY <2>1, <2>2
    <3> QED
      BY <1>1, <2>1, <3>1
  <2> QED
    BY <2>1, <2>2
<1>3. SignBit = k * HalfSize /\ k >= 1
  BY <1>1, <1>2
<1>4. ASSUME NEW w \in Word PROVE sign(w) <=> 2 * lhu(w) >= HalfSize
  <2>1. /\ w = lhu(w) * HalfSize + rhu(w) /\ lhu(w) \in Nat /\ rhu(w) \in 0 .. HalfSize - 1
        /\ w \in Nat
    BY <1>1, Halves, WordAssumption DEF HalfWord, Word
  <2>2. CASE lhu(w) >= k
    <3>1. lhu(w) * HalfSize >= k * HalfSize
      BY <1>1, <1>2, <2>1, <2>2
    <3> QED
      BY <1>1, <1>2, <1>3, <2>1, <2>2, <3>1 DEF sign
  <2>3. CASE lhu(w) < k
    <3>1. (lhu(w) + 1) * HalfSize <= k * HalfSize
      BY <1>1, <1>2, <2>1, <2>3
    <3>2. (lhu(w) + 1) * HalfSize = lhu(w) * HalfSize + HalfSize
      BY <1>1, <2>1
    <3> QED
      BY <1>1, <1>2, <1>3, <2>1, <2>3, <3>1, <3>2 DEF sign
  <2> QED
    BY <1>2, <2>1, <2>2, <2>3
<1> QED
  BY <1>2, <1>3, <1>4

----------------------------------------------------------------------------
\* Induction. A set that holds 0 and the successor of each of its members below n holds
\* n: otherwise the successor would put it, one to one, into what is left of it without 0.
LEMMA Inductive ==
  ASSUME NEW n \in Nat, NEW S, 0 \in S, \A k \in 0 .. n - 1 : k \in S => k + 1 \in S
  PROVE  n \in S
<1> SUFFICES ASSUME n \notin S PROVE FALSE
  OBVIOUS
<1> DEFINE T == S \intersect 0 .. n
           f == [k \in T |-> k + 1]
<1>1. T \subseteq 0 .. n - 1 /\ 0 \in T /\ \A k \in T : k + 1 \in T \ {0}
  OBVIOUS
<1>2. IsFiniteSet(T)
  <2>1. IsFiniteSet(0 .. n)
    BY FS_Interval
  <2> QED
    BY <2>1, FS_Subset
<1>3. IsFiniteSet(T \ {0}) /\ Cardinality(T \ {0}) = Cardinality(T) - 1 /\ Cardinality(T) \in Nat
  BY <1>1, <1>2, FS_RemoveElement, FS_CardinalityType
<1>4. f \in [T -> T \ {0}] /\ \A j, k \in T : f[j] = f[k] => j = k
  BY <1>1
<1> HIDE DEF T, f
<1>5. \E j, k \in T : j # k /\ f[j] = f[k]
  BY <1>2, <1>3, <1>4, FS_PigeonHole
<1> QED
  BY <1>4, <1>5

\* A number and the word it is cut down to have one right half.
LEMMA HalfOfTrunc ==
  ASSUME NEW n \in Int
  PROVE  rhu(Trunc(n)) = n % HalfSize
<1> DEFINE q == n \div (2 * SignBit)
           w == n % (2 * SignBit)
           h == w \div HalfSize
           r == w % HalfSize
<1>1. HalfSize \in Nat \ {0} /\ 2 * SignBit \in Nat \ {0} /\ HalfSize * HalfSize = 2 * SignBit
  BY WordAssumption
<1>2. n = (2 * SignBit) * q + w /\ q \in Int /\ w \in Int
  BY <1>1
<1> HIDE DEF q, w
<1>3. w = HalfSize * h + r /\ h \in Int /\ r \in 0 .. HalfSize - 1
  BY <1>1, <1>2
<1> HIDE DEF h, r
<1>4. n = (HalfSize * q + h) * HalfSize + r /\ HalfSize * q + h \in Int
  <2>1. (HalfSize * HalfSize) * q = (HalfSize * q) * HalfSize
    BY <1>1, <1>2
  <2> QED
    BY <1>1, <1>2, <1>3, <2>1
<1>5. n % HalfSize = r
  BY <1>1, <1>3, <1>4, QuotientAndRemainder
<1> QED
  BY <1>5 DEF rhu, Trunc, w, r

----------------------------------------------------------------------------
\* Powers of two, counted as the sets of a finite set's members.
LEMMA PowerDoubles ==
  ASSUME NEW n \in Nat
  PROVE  2^(n + 1) = 2 * 2^n
<1> DEFINE S == 1 .. n
           U == SUBSET S
           V == {X \union {n + 1} : X \in U}
           f == [X \in U |-> X \union {n + 1}]
<1>1. IsFiniteSet(S) /\ Cardinality(S) = n
  <2>1. IsFiniteSet(S) /\ Cardinality(S) = IF 1 > n THEN 0 ELSE n - 1 + 1
    BY FS_Interval
  <2> QED
    BY <2>1
<1>2. IsFiniteSet(U) /\ Cardinality(U) = 2^n
  BY <1>1, FS_SUBSET
<1>3. IsFiniteSet(SUBSET (1 .. n + 1)) /\ Cardinality(SUBSET (1 .. n + 1)) = 2^(n + 1)
  <2>1. IsFiniteSet(1 .. n + 1) /\ Cardinality(1 .. n + 1) = n + 1
    <3>1. 1 \in Int /\ n + 1 \in Int
      OBVIOUS
    <3>2. /\ IsFiniteSet(1 .. n + 1)
          /\ Cardinality(1 .. n + 1) = IF 1 > n + 1 THEN 0 ELSE n + 1 - 1 + 1
      BY <3>1, FS_Interval
    <3> QED
      BY <3>2
  <2> QED
    BY <2>1, FS_SUBSET
<1>4. SUBSET (1 .. n + 1) = U \union V
  <2>1. ASSUME NEW X \in SUBSET (1 .. n + 1) PROVE X \in U \union V
    <3>1. CASE n + 1 \in X
      <4>1. X \ {n + 1} \in U /\ X = (X \ {n + 1}) \union {n + 1}
        BY <2>1, <3>1
      <4> QED
        BY <4>1
    <3>2. CASE n + 1 \notin X
      BY <2>1, <3>2
    <3> QED
      BY <3>1, <3>2
  <2>2. S \subseteq 1 .. n + 1 /\ n + 1 \in 1 .. n + 1
    OBVIOUS
  <2> QED
    BY <2>1, <2>2
<1>5. U \intersect V = {}
  <2>1. n + 1 \notin S
    OBVIOUS
  <2> QED
    BY <2>1
<1>6. ExistsBijection(U, V)
  <2>1. \A X \in U : n + 1 \notin X
    OBVIOUS
  <2>2. \A X, Y \in U : f[X] = f[Y] => X = Y
    BY <2>1
  <2>3. f \in [U -> V] /\ \A y \in V : \E X \in U : f[X] = y
    OBVIOUS
  <2>4. f \in Bijection(U, V)
    BY <2>2, <2>3 DEF Bijection, Injection, Surjection, IsInjective
  <2> QED
    BY <2>4 DEF ExistsBijection
<1>7. IsFiniteSet(V) /\ Cardinality(V) = 2^n
  BY <1>2, <1>6, FS_Bijection
<1> HIDE DEF U, V
<1>8. Cardinality(U \union V) = Cardinality(U) + Cardinality(V) - Cardinality(U \intersect V)
  BY <1>2, <1>7, FS_Union
<1>9. 2^(n + 1) = 2^n + 2^n - 0
  BY <1>2, <1>3, <1>4, <1>5, <1>7, <1>8, FS_EmptySet
<1>10. 2^n \in Int
  OBVIOUS
<1> QED
  BY <1>9, <1>10

LEMMA PowerIsPositive ==
  ASSUME NEW n \in Nat
  PROVE  2^n \in Nat \ {0}
<1> DEFINE S == {k \in Nat : 2^k \in Nat \ {0}}
<1>1. 0 \in S
  OBVIOUS
<1>2. ASSUME NEW k \in 0 .. n - 1, k \in S PROVE k + 1 \in S
  BY <1>2, PowerDoubles
<1> HIDE DEF S
<1>3. n \in S
  BY <1>1, <1>2, Inductive
<1> QED
  BY <1>3 DEF S

\* Exponents add.
LEMMA PowerOfSum ==
  ASSUME NEW m \in Nat, NEW n \in Nat
  PROVE  2^(m + n) = 2^m * 2^n
<1> DEFINE S == {k \in Nat : 2^(m + k) = 2^m * 2^k}
<1>1. 0 \in S
  <2>1. m + 0 = m /\ 2^0 = 1 /\ 2^m * 1 = 2^m
    BY PowerIsPositive
  <2> QED
    BY <2>1
<1>2. ASSUME NEW k \in 0 .. n - 1, k \in S PROVE k + 1 \in S
  <2> DEFINE a == 2^m
             b == 2^k
             c == 2^(m + k)
  <2>1. a \in Nat /\ b \in Nat /\ c \in Nat /\ c = a * b
    BY <1>2, PowerIsPositive
  <2>2. 2^(k + 1) = 2 * b /\ 2^((m + k) + 1) = 2 * c /\ m + (k + 1) = (m + k) + 1
    BY <1>2, PowerDoubles
  <2> HIDE DEF a, b, c
  <2>3. 2 * c = a * (2 * b)
    BY <2>1
  <2>4. 2^(m + (k + 1)) = 2^m * 2^(k + 1)
    BY <2>2, <2>3 DEF a
  <2> QED
    BY <2>4
<1> HIDE DEF S
<1>3. n \in S
  BY <1>1, <1>2, Inductive
<1> QED
  BY <1>3 DEF S

\* A greater exponent's power is a multiple.
LEMMA PowerOfDifference ==
  ASSUME NEW m \in Nat, NEW n \in Nat, m <= n
  PROVE  2^n = 2^m * 2^(n - m) /\ 2^m <= 2^n
<1> DEFINE a == 2^m
           b == 2^(n - m)
<1>1. n - m \in Nat /\ m + (n - m) = n
  OBVIOUS
<1>2. 2^n = a * b /\ a \in Nat \ {0} /\ b \in Nat \ {0}
  BY <1>1, PowerOfSum, PowerIsPositive
<1> HIDE DEF a, b
<1>3. a <= a * b
  BY <1>2
<1> QED
  BY <1>2, <1>3 DEF a, b

\* A number that is a multiple and a rest, divided; and one divided twice.
LEMMA DivisionOfSum ==
  ASSUME NEW d \in Nat \ {0}, NEW q \in Int, NEW r \in Int
  PROVE  (q * d + r) \div d = q + (r \div d) /\ (q * d + r) % d = r % d
<1> DEFINE a == r \div d
           b == r % d
<1>1. a \in Int /\ b \in 0 .. d - 1 /\ r = d * a + b
  OBVIOUS
<1> HIDE DEF a, b
<1>2. q * d + r = (q + a) * d + b /\ q + a \in Int
  BY <1>1
<1>3. ((q + a) * d + b) \div d = q + a /\ ((q + a) * d + b) % d = b
  BY <1>1, <1>2, QuotientAndRemainder
<1> QED
  BY <1>2, <1>3 DEF a, b

LEMMA DivisionTwice ==
  ASSUME NEW c \in Nat \ {0}, NEW d \in Nat \ {0}, NEW n \in Int
  PROVE  (n \div c) \div d = n \div (c * d)
<1> DEFINE a == n \div c
           r == n % c
           b == a \div d
           s == a % d
<1>1. a \in Int /\ r \in 0 .. c - 1 /\ n = c * a + r
  OBVIOUS
<1> HIDE DEF a, r
<1>2. b \in Int /\ s \in 0 .. d - 1 /\ a = d * b + s
  BY <1>1
<1> HIDE DEF b, s
<1> DEFINE e == c * d
           t == c * s + r
<1>3. e \in Nat \ {0} /\ t \in Int /\ n = b * e + t
  <2>1. c * (d * b + s) = b * (c * d) + c * s
    BY <1>2
  <2> QED
    BY <1>1, <1>2, <2>1
<1>4. t \in 0 .. e - 1
  <2> DEFINE u == c * s
             v == c * (d - 1)
  <2>1. u \in Int /\ u >= 0 /\ u <= v
    BY <1>2
  <2>2. v = e - c
    OBVIOUS
  <2> HIDE DEF u, v, e
  <2>3. u + r \in 0 .. e - 1
    BY <1>1, <1>3, <2>1, <2>2
  <2> QED
    BY <2>3 DEF u
<1> HIDE DEF e, t
<1>5. n \div e = b
  BY <1>2, <1>3, <1>4, QuotientAndRemainder
<1> QED
  BY <1>5 DEF a, b, e

----------------------------------------------------------------------------
\* Bit n of a number.
bit(w, n) == (w \div 2^n) % 2

\* A number put together from a part of k bits and what is above it has the bits of both.
LEMMA BitsOfSum ==
  ASSUME NEW k \in Nat, NEW x \in Int, NEW r \in 0 .. 2^k - 1
  PROVE  /\ \A n \in 0 .. k - 1 : bit(x * 2^k + r, n) = bit(r, n)
         /\ \A n \in Nat : (x * 2^k + r) \div 2^(k + n) = x \div 2^n
         /\ \A n \in Nat : bit(x * 2^k + r, k + n) = bit(x, n)
<1> DEFINE h == 2^k
           w == x * h + r
<1>1. h \in Nat \ {0} /\ r \in Int /\ x * h \in Int /\ w \in Int
  <2>1. h \in Nat \ {0}
    BY PowerIsPositive
  <2> HIDE DEF h
  <2> QED
    BY <2>1
<1>2. ASSUME NEW n \in 0 .. k - 1 PROVE bit(w, n) = bit(r, n)
  <2> DEFINE d == 2^n
             e == 2^(k - n - 1)
             a == r \div d
  <2>1. d \in Nat \ {0} /\ e \in Nat \ {0} /\ 2^(k - n) = 2 * e /\ h = d * 2^(k - n)
    <3>1. n \in Nat /\ k - n - 1 \in Nat /\ n <= k /\ k - n = (k - n - 1) + 1
      OBVIOUS
    <3>2. 2^((k - n - 1) + 1) = 2 * e
      BY <3>1, PowerDoubles
    <3>3. d \in Nat \ {0} /\ e \in Nat \ {0} /\ h = d * 2^(k - n)
      BY <3>1, PowerIsPositive, PowerOfDifference
    <3> QED
      BY <3>1, <3>2, <3>3
  <2> HIDE DEF d, e, h
  <2>2. x * h = ((x * e) * 2) * d /\ (x * e) * 2 \in Int /\ x * e \in Int
    BY <2>1
  <2>3. w \div d = (x * e) * 2 + a /\ a \in Int
    BY <1>1, <2>1, <2>2, DivisionOfSum
  <2> HIDE DEF a
  <2>4. ((x * e) * 2 + a) % 2 = a % 2
    BY <2>2, <2>3, DivisionOfSum
  <2> QED
    BY <2>3, <2>4 DEF bit, a, d
<1>3. ASSUME NEW n \in Nat PROVE w \div 2^(k + n) = x \div 2^n
  <2> DEFINE d == 2^n
  <2>1. d \in Nat \ {0} /\ 2^(k + n) = h * d
    BY PowerIsPositive, PowerOfSum
  <2>2. w \div h = x
    BY <1>1, QuotientAndRemainder
  <2> HIDE DEF d, h
  <2>3. (w \div h) \div d = w \div (h * d)
    BY <1>1, <2>1, DivisionTwice
  <2> QED
    BY <2>1, <2>2, <2>3 DEF d
<1>4. ASSUME NEW n \in Nat PROVE bit(w, k + n) = bit(x, n)
  BY <1>3 DEF bit
<1> HIDE DEF w
<1> QED
  BY <1>2, <1>3, <1>4 DEF w, h

\* Bits without a number above them.
LEMMA BitsAbove ==
  ASSUME NEW k \in Nat, NEW r \in 0 .. 2^k - 1, NEW n \in Nat, n >= k
  PROVE  bit(r, n) = 0
<1>1. n - k \in Nat /\ k + (n - k) = n
  OBVIOUS
<1>2. 2^k \in Nat /\ 0 * 2^k = 0 /\ r \in Int
  BY PowerIsPositive
<1>3. bit(0 * 2^k + r, k + (n - k)) = bit(0, n - k)
  BY <1>1, BitsOfSum
<1>4. 0 * 2^k + r = r
  BY <1>2
<1>5. bit(0, n - k) = 0
  <2> DEFINE d == 2^(n - k)
  <2>1. d \in Nat \ {0}
    BY <1>1, PowerIsPositive
  <2> HIDE DEF d
  <2>2. 0 \div d = 0
    BY <2>1
  <2>3. (0 \div d) % 2 = 0
    BY <2>2
  <2> QED
    BY <2>3 DEF bit, d
<1> QED
  BY <1>1, <1>3, <1>4, <1>5

\* There is a number with any bits one chooses.
LEMMA NumberWithBits ==
  ASSUME NEW k \in Nat, NEW b \in SUBSET (0 .. k - 1)
  PROVE  \E w \in 0 .. 2^k - 1 : \A n \in 0 .. k - 1 : n \in b <=> bit(w, n) = 1
<1> DEFINE S == {j \in Nat : \A c \in SUBSET (0 .. j - 1) :
                   \E w \in 0 .. 2^j - 1 : \A n \in 0 .. j - 1 : n \in c <=> bit(w, n) = 1}
<1>1. 0 \in S
  <2>1. 0 .. 0 - 1 = {} /\ 2^0 = 1 /\ 0 \in 0 .. 1 - 1
    OBVIOUS
  <2> QED
    BY <2>1
<1>2. ASSUME NEW j \in 0 .. k - 1, j \in S PROVE j + 1 \in S
  <2> SUFFICES ASSUME NEW c \in SUBSET (0 .. (j + 1) - 1)
               PROVE  \E w \in 0 .. 2^(j + 1) - 1 :
                        \A n \in 0 .. (j + 1) - 1 : n \in c <=> bit(w, n) = 1
    OBVIOUS
  <2> DEFINE h == 2^j
             x == IF j \in c THEN 1 ELSE 0
  <2>1. PICK v \in 0 .. h - 1 : \A n \in 0 .. j - 1 : n \in c \ {j} <=> bit(v, n) = 1
    <3>1. c \ {j} \in SUBSET (0 .. j - 1)
      OBVIOUS
    <3> QED
      BY <1>2, <3>1
  <2> DEFINE w == x * h + v
  <2>2. h \in Nat \ {0} /\ 2^(j + 1) = 2 * h /\ x \in {0, 1}
    BY PowerIsPositive, PowerDoubles
  <2>3. w \in 0 .. 2^(j + 1) - 1
    <3> HIDE DEF h, x
    <3>1. x * h = 0 \/ x * h = h
      BY <2>2
    <3> QED
      BY <2>1, <2>2, <3>1
  <2>4. /\ \A n \in 0 .. j - 1 : bit(w, n) = bit(v, n)
        /\ bit(w, j + 0) = bit(x, 0)
    <3> HIDE DEF x
    <3>1. j \in Nat /\ v \in 0 .. 2^j - 1 /\ x \in Int /\ 0 \in Nat
      BY <2>1, <2>2
    <3> QED
      BY <3>1, BitsOfSum
  <2>5. bit(x, 0) = x /\ j + 0 = j
    <3>1. bit(x, 0) = (x \div 1) % 2
      BY DEF bit
    <3> QED
      BY <2>2, <3>1
  <2> HIDE DEF w, h
  <2>6. ASSUME NEW n \in 0 .. (j + 1) - 1 PROVE n \in c <=> bit(w, n) = 1
    <3>1. CASE n = j
      BY <2>4, <2>5, <3>1
    <3>2. CASE n # j
      <4>1. n \in 0 .. j - 1 /\ (n \in c <=> n \in c \ {j})
        BY <3>2
      <4> QED
        BY <2>1, <2>4, <4>1
    <3> QED
      BY <3>1, <3>2
  <2> QED
    BY <2>3, <2>6
<1> HIDE DEF S
<1>3. k \in S
  BY <1>1, <1>2, Inductive
<1> QED
  BY <1>3 DEF S

\* A number of k bits, split below its n highest ones.
LEMMA SplitNumber ==
  ASSUME NEW k \in Nat, NEW n \in 0 .. k, NEW w \in 0 .. 2^k - 1
  PROVE  \E hi \in 0 .. 2^n - 1, lo \in 0 .. 2^(k - n) - 1 :
            /\ w = hi * 2^(k - n) + lo
            /\ w \div 2^(k - n) = hi
            /\ (w * 2^n) % 2^k = lo * 2^n
<1> DEFINE a == 2^n
           b == 2^(k - n)
           hi == w \div b
           lo == w % b
<1>1. a \in Nat \ {0} /\ b \in Nat \ {0} /\ 2^k = a * b
  <2>1. n \in Nat /\ k - n \in Nat /\ n <= k
    OBVIOUS
  <2> QED
    BY <2>1, PowerIsPositive, PowerOfDifference
<1>2. w \in 0 .. a * b - 1
  BY <1>1
<1> HIDE DEF a, b
<1>3. hi \in Int /\ lo \in 0 .. b - 1 /\ w = hi * b + lo
  BY <1>1, <1>2
<1> HIDE DEF hi, lo
<1>4. hi \in 0 .. a - 1
  <2>1. CASE hi < 0
    <3>1. hi * b <= (-1) * b
      BY <1>1, <1>3, <2>1
    <3>2. hi * b \in Int
      BY <1>1, <1>3
    <3> QED
      BY <1>1, <1>2, <1>3, <3>1, <3>2
  <2>2. CASE hi >= a
    <3>1. hi * b >= a * b
      BY <1>1, <1>3, <2>2
    <3>2. hi * b \in Int /\ a * b \in Int
      BY <1>1, <1>3
    <3> QED
      BY <1>1, <1>2, <1>3, <3>1, <3>2
  <2> QED
    BY <1>1, <1>3, <2>1, <2>2
<1>5. (w * a) % (a * b) = lo * a
  <2> DEFINE c == a * b
             r == lo * a
  <2>1. c \in Nat \ {0} /\ r \in Int
    BY <1>1, <1>3
  <2>2. w * a = hi * c + r
    BY <1>1, <1>3
  <2>3. r >= 0 /\ r <= (b - 1) * a /\ (b - 1) * a = c - a
    BY <1>1, <1>3
  <2> HIDE DEF c, r
  <2>4. r \in 0 .. c - 1
    BY <1>1, <2>1, <2>3
  <2>5. (hi * c + r) % c = r
    BY <1>4, <2>1, <2>4, QuotientAndRemainder
  <2> QED
    BY <2>2, <2>5 DEF c, r
<1>6. w \div b = hi
  BY DEF hi
<1> QED
  BY <1>1, <1>3, <1>4, <1>5, <1>6 DEF a, b

\* A number moved up loses its highest bits, one moved down its lowest, and one
\* rotated has all of them.
LEMMA BitsMovedUp ==
  ASSUME NEW k \in Nat, NEW n \in 0 .. k, NEW w \in 0 .. 2^k - 1
  PROVE  LET u == (w * 2^n) % 2^k
         IN  /\ u \in 0 .. 2^k - 1
             /\ \A m \in 0 .. k - 1 : bit(u, m) = IF m < n THEN 0 ELSE bit(w, m - n)
<1>1. n \in Nat /\ k - n \in Nat /\ 2^k \in Nat \ {0} /\ 2^n \in Nat \ {0}
  BY PowerIsPositive
<1>2. PICK hi \in 0 .. 2^n - 1, lo \in 0 .. 2^(k - n) - 1 :
           w = hi * 2^(k - n) + lo /\ (w * 2^n) % 2^k = lo * 2^n
  BY SplitNumber
<1> DEFINE u == (w * 2^n) % 2^k
<1>3. u \in 0 .. 2^k - 1
  <2> DEFINE c == 2^k
             d == w * 2^n
  <2>1. c \in Nat \ {0} /\ d \in Int
    BY <1>1
  <2> HIDE DEF c, d
  <2>2. d % c \in 0 .. c - 1
    BY <2>1, RemainderRange
  <2> QED
    BY <2>2 DEF c, d
<1>4. u = lo * 2^n + 0 /\ lo \in Int /\ hi \in Int /\ 0 \in 0 .. 2^n - 1
  <2> DEFINE a == 2^n
             b == 2^(k - n)
  <2>1. a \in Nat \ {0} /\ lo \in 0 .. b - 1 /\ hi \in 0 .. a - 1 /\ b \in Int /\ u = lo * a
    BY <1>1, <1>2, PowerIsPositive
  <2> HIDE DEF a, b, u
  <2>2. u = lo * a + 0 /\ lo \in Int /\ hi \in Int /\ 0 \in 0 .. a - 1
    BY <2>1
  <2> QED
    BY <2>2 DEF a
<1> HIDE DEF u
<1>5. ASSUME NEW m \in 0 .. k - 1, m < n PROVE bit(u, m) = 0
  <2>1. n \in Nat /\ lo \in Int /\ 0 \in 0 .. 2^n - 1 /\ m \in 0 .. n - 1
    BY <1>4, <1>5
  <2>2. bit(lo * 2^n + 0, m) = bit(0, m)
    BY <2>1, BitsOfSum, Zenon
  <2>3. m \in Nat /\ 0 \in Nat /\ 0 \in 0 .. 2^0 - 1 /\ m >= 0
    OBVIOUS
  <2>4. bit(0, m) = 0
    BY <2>3, BitsAbove
  <2> QED
    BY <1>4, <2>2, <2>4
<1>6. ASSUME NEW m \in 0 .. k - 1, m >= n PROVE bit(u, m) = bit(w, m - n)
  <2>1. m - n \in Nat /\ n + (m - n) = m /\ m - n \in 0 .. (k - n) - 1
    BY <1>6
  <2> DEFINE j == m - n
             l == k - n
  <2>2. j \in Nat /\ j \in 0 .. l - 1 /\ l \in Nat /\ n \in Nat /\ lo \in 0 .. 2^l - 1
    BY <1>1, <2>1
  <2> HIDE DEF j, l
  <2>3. bit(lo * 2^n + 0, n + j) = bit(lo, j)
    <3>1. n \in Nat /\ lo \in Int /\ 0 \in 0 .. 2^n - 1 /\ j \in Nat
      BY <1>4, <2>2
    <3> QED
      BY <3>1, BitsOfSum, Zenon
  <2>4. bit(hi * 2^l + lo, j) = bit(lo, j)
    <3>1. l \in Nat /\ hi \in Int /\ lo \in 0 .. 2^l - 1 /\ j \in 0 .. l - 1
      BY <1>4, <2>2
    <3> QED
      BY <3>1, BitsOfSum, Zenon
  <2> QED
    BY <1>2, <1>4, <2>1, <2>3, <2>4 DEF j, l
<1> QED
  BY <1>3, <1>5, <1>6 DEF u

LEMMA BitsMovedDown ==
  ASSUME NEW k \in Nat, NEW n \in 0 .. k, NEW w \in 0 .. 2^k - 1
  PROVE  LET v == w \div 2^n
         IN  /\ v \in 0 .. 2^k - 1
             /\ \A m \in 0 .. k - 1 : bit(v, m) = IF m + n < k THEN bit(w, m + n) ELSE 0
<1>1. n \in Nat /\ 2^n \in Nat \ {0} /\ 2^k \in Nat \ {0}
  BY PowerIsPositive
<1> DEFINE v == w \div 2^n
<1>2. v \in 0 .. 2^k - 1
  <2> DEFINE c == 2^n
             h == 2^k
             q == w \div c
  <2>1. c \in Nat \ {0} /\ h \in Nat \ {0} /\ w \in 0 .. h - 1
    BY <1>1
  <2> HIDE DEF c, h
  <2>2. q \in Int /\ w % c \in 0 .. c - 1 /\ w = c * q + (w % c)
    BY <2>1
  <2> HIDE DEF q
  <2>3. CASE q < 0
    <3>1. c * q <= c * (-1)
      BY <2>1, <2>2, <2>3
    <3>2. c * q \in Int
      BY <2>1, <2>2
    <3> QED
      BY <2>1, <2>2, <3>1, <3>2
  <2>4. CASE q >= 0
    <3>1. q <= c * q /\ c * q \in Int
      BY <2>1, <2>2, <2>4
    <3>2. q <= w
      BY <2>1, <2>2, <3>1
    <3> QED
      BY <2>1, <2>2, <2>4, <3>2 DEF q, c, h
  <2> QED
    BY <2>2, <2>3, <2>4
<1>3. ASSUME NEW m \in 0 .. k - 1 PROVE bit(v, m) = bit(w, m + n)
  <2> DEFINE c == 2^n
             d == 2^m
  <2>1. m \in Nat /\ n \in Nat /\ n + m = m + n
    OBVIOUS
  <2>4. c \in Nat \ {0} /\ d \in Nat \ {0} /\ 2^(n + m) = c * d
    BY <2>1, PowerIsPositive, PowerOfSum
  <2>2. w \in Int
    BY <1>1
  <2> HIDE DEF c, d
  <2>3. (w \div c) \div d = w \div (c * d)
    BY <2>2, <2>4, DivisionTwice
  <2> QED
    BY <2>1, <2>3, <2>4 DEF bit, c, d
<1>4. ASSUME NEW m \in 0 .. k - 1, m + n >= k PROVE bit(w, m + n) = 0
  BY <1>4, BitsAbove
<1> QED
  BY <1>2, <1>3, <1>4

LEMMA BitsRotated ==
  ASSUME NEW k \in Nat, NEW n \in 0 .. k, NEW w \in 0 .. 2^k - 1
  PROVE  LET r == ((w * 2^n) % 2^k) + (w \div 2^(k - n))
         IN  /\ r \in 0 .. 2^k - 1
             /\ \A m \in 0 .. k - 1 : bit(r, m) = IF m < n THEN bit(w, m + (k - n)) ELSE bit(w, m - n)
<1> DEFINE a == 2^n
           b == 2^(k - n)
<1>1. n \in Nat /\ k - n \in Nat /\ a \in Nat \ {0} /\ b \in Nat \ {0} /\ 2^k = a * b
  <2>1. n \in Nat /\ k - n \in Nat /\ n <= k
    OBVIOUS
  <2> QED
    BY <2>1, PowerIsPositive, PowerOfDifference
<1>2. PICK hi \in 0 .. a - 1, lo \in 0 .. b - 1 :
           w = hi * b + lo /\ w \div b = hi /\ (w * a) % 2^k = lo * a
  BY SplitNumber, Zenon
<1> DEFINE r == ((w * 2^n) % 2^k) + (w \div 2^(k - n))
<1>3. r = lo * a + hi
  BY <1>2
<1>4. hi \in Int /\ lo \in Int
  <2> HIDE DEF a, b
  <2> QED
    BY <1>1, <1>2
<1>5. r \in 0 .. 2^k - 1
  <2> HIDE DEF a, b, r
  <2>1. lo * a >= 0 /\ lo * a <= (b - 1) * a /\ (b - 1) * a = a * b - a /\ lo * a \in Int
    BY <1>1, <1>2
  <2>2. a * b \in Int
    BY <1>1
  <2> QED
    BY <1>1, <1>2, <1>3, <2>1, <2>2
<1>6. /\ hi \in 0 .. 2^n - 1 /\ lo \in 0 .. 2^(k - n) - 1
      /\ w = hi * 2^(k - n) + lo /\ r = lo * 2^n + hi
  BY <1>2, <1>3
<1> HIDE DEF a, b, r
<1>7. ASSUME NEW m \in 0 .. k - 1, m < n PROVE bit(r, m) = bit(w, m + (k - n))
  <2> DEFINE l == k - n
  <2>1. m \in Nat /\ m \in 0 .. n - 1 /\ l \in Nat /\ n \in Nat /\ l + m = m + (k - n)
    BY <1>7
  <2> HIDE DEF l
  <2>2. n \in Nat /\ lo \in Int /\ hi \in 0 .. 2^n - 1 /\ m \in 0 .. n - 1
    BY <1>4, <1>6, <2>1
  <2>5. bit(lo * 2^n + hi, m) = bit(hi, m)
    BY <2>2, BitsOfSum, Zenon
  <2>3. hi \in Int /\ lo \in 0 .. 2^l - 1
    BY <1>4, <1>6 DEF l
  <2>4. bit(hi * 2^l + lo, l + m) = bit(hi, m)
    BY <2>1, <2>3, BitsOfSum, Zenon
  <2> QED
    BY <1>6, <2>1, <2>4, <2>5 DEF l
<1>8. ASSUME NEW m \in 0 .. k - 1, m >= n PROVE bit(r, m) = bit(w, m - n)
  <2> DEFINE j == m - n
             l == k - n
  <2>1. j \in Nat /\ j \in 0 .. l - 1 /\ l \in Nat /\ n \in Nat /\ n + j = m
    BY <1>8
  <2>2. hi \in Int /\ lo \in 0 .. 2^l - 1
    BY <1>4, <1>6
  <2> HIDE DEF j, l
  <2>3. bit(lo * 2^n + hi, n + j) = bit(lo, j)
    <3>1. n \in Nat /\ lo \in Int /\ hi \in 0 .. 2^n - 1 /\ j \in Nat
      BY <1>4, <1>6, <2>1
    <3> QED
      BY <3>1, BitsOfSum, Zenon
  <2>4. bit(hi * 2^l + lo, j) = bit(lo, j)
    BY <2>1, <2>2, BitsOfSum, Zenon
  <2> QED
    BY <1>6, <2>1, <2>3, <2>4 DEF j, l
<1> QED
  BY <1>5, <1>7, <1>8 DEF r

\* A number whose square is a power of two is one itself.
LEMMA RootOfPower ==
  ASSUME NEW n \in Nat, NEW m \in Nat, m * m = 2^n
  PROVE  \E h \in Nat : m = 2^h
<1> DEFINE Root(k) == \A j \in Nat : j * j = 2^k => \E h \in Nat : j = 2^h
           S == {k \in Nat : Root(k) /\ Root(k + 1)}
<1>1. Root(0) /\ Root(1)
  <2>1. 2^0 = 1 /\ 2^1 = 2
    OBVIOUS
  <2>2. ASSUME NEW j \in Nat PROVE (j * j = 1 => j = 1) /\ j * j # 2
    <3>1. j = 0 \/ j = 1 \/ j >= 2
      OBVIOUS
    <3>2. j >= 2 => j * j >= 4
      OBVIOUS
    <3> QED
      BY <3>1, <3>2
  <2> QED
    BY <2>1, <2>2
<1>2. ASSUME NEW k \in 0 .. n - 1, k \in S PROVE k + 1 \in S
  <2>1. ASSUME NEW j \in Nat, j * j = 2^(k + 2) PROVE \E h \in Nat : j = 2^h
    <3> DEFINE a == 2^k
               i == j \div 2
    <3>1. a \in Nat /\ 2^(k + 1) = 2 * a /\ 2^((k + 1) + 1) = 2 * 2^(k + 1) /\ (k + 1) + 1 = k + 2
      BY PowerIsPositive, PowerDoubles
    <3>2. i \in Nat /\ (j = 2 * i \/ j = 2 * i + 1)
      OBVIOUS
    <3> HIDE DEF a, i
    <3>3. j * j = 4 * a
      BY <2>1, <3>1
    <3>4. j = 2 * i
      <4>1. CASE j = 2 * i + 1
        <5>1. j * j = 4 * (i * i + i) + 1
          BY <3>2, <4>1
        <5>2. i * i + i \in Int
          BY <3>2
        <5> QED
          BY <3>1, <3>3, <5>1, <5>2
      <4> QED
        BY <3>2, <4>1
    <3>5. i * i = a
      <4>1. j * j = 4 * (i * i) /\ i * i \in Int
        BY <3>2, <3>4
      <4> QED
        BY <3>1, <3>3, <4>1
    <3>6. PICK h \in Nat : i = 2^h
      BY <1>2, <3>2, <3>5 DEF a
    <3>7. j = 2^(h + 1) /\ h + 1 \in Nat
      BY <3>4, <3>6, PowerDoubles
    <3> QED
      BY <3>7
  <2>2. (k + 1) + 1 = k + 2 /\ k + 1 \in Nat
    OBVIOUS
  <2> QED
    BY <1>2, <2>1, <2>2
<1>3. 0 \in S
  BY <1>1
<1> HIDE DEF S
<1>4. n \in S
  BY <1>2, <1>3, Inductive
<1> QED
  BY <1>4 DEF S
=============================================================================
