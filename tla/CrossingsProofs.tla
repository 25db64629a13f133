-------------------------- MODULE CrossingsProofs ---------------------------
(***************************************************************************)
(* The ways across clock domains, for every width, depth and number of     *)
(* credits: the asynchronous queue is a queue, and credits are neither     *)
(* overdrawn nor lost.                                                     *)
(***************************************************************************)
EXTENDS MCCrossings, FiniteSetTheorems, WellFoundedInduction, TLAPS

(* Every set of numbers has a least one. *)
LEMMA Least ==
  ASSUME NEW T, T \subseteq Nat, T # {}
  PROVE  \E x \in T : \A y \in T : x <= y
<1> DEFINE R == {ss \in Nat \X Nat : ss[1] < ss[2]}
<1>1. IsWellFoundedOn(R, Nat)
  BY NatLessThanWellFounded, Zenon DEF OpToRel
<1>2. PICK x \in T : \A y \in T : ~(<<y, x>> \in R)
  <2> HIDE DEF R
  <2> QED
    BY <1>1, WFMin
<1>3. ASSUME NEW y \in T
      PROVE  x <= y
  <2>1. x \in Nat /\ y \in Nat
    OBVIOUS
  <2>2. ~(y < x)
    BY <2>1, <1>2
  <2>3. QED
    BY <2>1, <2>2
<1>4. QED
  BY <1>3

-----------------------------------------------------------------------------
(* Division and remainder by a number that need not be a literal.          *)
LEMMA Division ==
  ASSUME NEW n \in Int, NEW d \in Nat \ {0}
  PROVE  /\ n \div d \in Int /\ n % d \in 0 .. d - 1
         /\ n = d * (n \div d) + (n % d)
OBVIOUS

(* Quotient and remainder are the only pair of their kind.                 *)
LEMMA DivisionUnique ==
  ASSUME NEW n \in Int, NEW d \in Nat \ {0}, NEW k \in Int, NEW r \in 0 .. d - 1,
         n = d * k + r
  PROVE  n \div d = k /\ n % d = r
OBVIOUS

(* What is below the modulus is its own remainder.                         *)
LEMMA ModSmall ==
  ASSUME NEW d \in Nat \ {0}, NEW r \in 0 .. d - 1
  PROVE  r % d = r /\ r \div d = 0
OBVIOUS

(* Multiples of the modulus do not matter. *)
LEMMA ModPlus ==
  ASSUME NEW n \in Int, NEW d \in Nat \ {0}, NEW k \in Int
  PROVE  (n + d * k) % d = n % d /\ (n + d * k) \div d = n \div d + k
<1> DEFINE j == n \div d
           r == n % d
<1>1. j \in Int /\ r \in 0 .. d - 1 /\ n = d * j + r
  BY Division
<1> HIDE DEF j, r
<1>2. j + k \in Int /\ n + d * k \in Int /\ n + d * k = d * (j + k) + r
  BY <1>1
<1>3. QED
  BY <1>1, <1>2, DivisionUnique DEF j, r

(* A number between one and two moduli.                                    *)
LEMMA ModOnce ==
  ASSUME NEW n \in Int, NEW d \in Nat \ {0}
  PROVE  (n + d) % d = n % d /\ (n + d) \div d = n \div d + 1
<1> DEFINE j == n \div d
           r == n % d
<1>1. j \in Int /\ r \in 0 .. d - 1 /\ n = d * j + r
  BY Division
<1> HIDE DEF j, r
<1>2. j + 1 \in Int /\ n + d \in Int /\ n + d = d * (j + 1) + r
  BY <1>1
<1>3. QED
  BY <1>1, <1>2, DivisionUnique DEF j, r

(* A remainder may be taken before adding. *)
LEMMA ModAdd ==
  ASSUME NEW n \in Int, NEW m \in Int, NEW d \in Nat \ {0}
  PROVE  ((n % d) + m) % d = (n + m) % d /\ (m + (n % d)) % d = (m + n) % d
<1> DEFINE j == n \div d
           r == n % d
<1>1. j \in Int /\ r \in 0 .. d - 1 /\ n = d * j + r
  BY Division
<1> HIDE DEF j, r
<1>2. r + m \in Int /\ (r + m) + d * j = n + m
  BY <1>1
<1>3. (r + m) % d = (n + m) % d
  <2>1. ((r + m) + d * j) % d = (r + m) % d
    BY <1>1, <1>2, ModPlus
  <2>2. QED
    BY <1>2, <2>1
<1>4. r + m = m + r /\ n + m = m + n
  BY <1>1
<1>5. QED
  BY <1>3, <1>4 DEF r

(* Taking two halves, one after the other. *)
LEMMA DivHalf ==
  ASSUME NEW n \in Nat, NEW d \in Nat \ {0}
  PROVE  /\ n \div (2 * d) = (n \div 2) \div d
         /\ n \div 2 \in Nat /\ n \div d \in Nat
<1> DEFINE e == 2 * d
           k == n \div e
           r == n % e
<1>1. e \in Nat \ {0}
  OBVIOUS
<1> HIDE DEF e
<1>2. k \in Int /\ r \in 0 .. e - 1 /\ n = e * k + r
  BY <1>1, Division
<1> HIDE DEF k, r
<1>3. r \div 2 \in 0 .. d - 1
  BY <1>2 DEF e
<1>4. n = 2 * (d * k) + r /\ d * k \in Int
  BY <1>2 DEF e
<1>5. n \div 2 = d * k + r \div 2
  BY <1>2, <1>4
<1>6. n \div 2 \in Int
  OBVIOUS
<1>7. (n \div 2) \div d = k
  BY <1>2, <1>3, <1>5, <1>6, DivisionUnique
<1>8. n \div 2 \in Nat
  OBVIOUS
<1>9. n \div d \in Nat
  OBVIOUS
<1>10. QED
  BY <1>7, <1>8, <1>9 DEF k, e

-----------------------------------------------------------------------------
(* Powers of two, which count the sets of bits. *)
LEMMA PowNat ==
  ASSUME NEW n \in Nat
  PROVE  2^n \in Nat \ {0}
<1>1. IsFiniteSet(1 .. n) /\ Cardinality(1 .. n) = n
  BY FS_Interval
<1>2. IsFiniteSet(SUBSET (1 .. n)) /\ Cardinality(SUBSET (1 .. n)) = 2^n
  BY <1>1, FS_SUBSET
<1>3. Cardinality(SUBSET (1 .. n)) \in Nat
  BY <1>2, FS_CardinalityType
<1>4. {} \in SUBSET (1 .. n)
  OBVIOUS
<1>5. Cardinality(SUBSET (1 .. n)) # 0
  BY <1>2, <1>4, FS_EmptySet
<1>6. QED
  BY <1>2, <1>3, <1>5

(* Two to the power of zero.                                               *)
LEMMA PowZero == 2^0 = 1
<1>1. IsFiniteSet({}) /\ Cardinality({}) = 0
  BY FS_EmptySet
<1>2. IsFiniteSet(SUBSET {}) /\ Cardinality(SUBSET {}) = 2^0
  BY <1>1, FS_SUBSET
<1>3. SUBSET {} = {{}}
  OBVIOUS
<1>4. Cardinality({{}}) = 1
  BY FS_Singleton
<1>5. QED
  BY <1>2, <1>3, <1>4

(* One more thing doubles them.                                            *)
LEMMA PowStep ==
  ASSUME NEW n \in Nat
  PROVE  2^(n + 1) = 2 * 2^n
<1> DEFINE Low == SUBSET (1 .. n)
           High == {x \cup {n + 1} : x \in Low}
           f == [x \in Low |-> x \cup {n + 1}]
<1>1. IsFiniteSet(1 .. n) /\ Cardinality(1 .. n) = n
  BY FS_Interval
<1>2. IsFiniteSet(Low) /\ Cardinality(Low) = 2^n
  BY <1>1, FS_SUBSET
<1>3. IsFiniteSet(1 .. n + 1) /\ Cardinality(1 .. n + 1) = n + 1
  BY FS_Interval
<1>4. Cardinality(SUBSET (1 .. n + 1)) = 2^(n + 1)
  BY <1>3, FS_SUBSET
<1>5. SUBSET (1 .. n + 1) = Low \cup High
  <2>1. ASSUME NEW x \in SUBSET (1 .. n + 1), n + 1 \in x
        PROVE  x \in High
    <3>1. x \ {n + 1} \in Low
      OBVIOUS
    <3>2. x = (x \ {n + 1}) \cup {n + 1}
      BY <2>1
    <3>3. QED
      BY <3>1, <3>2
  <2>2. ASSUME NEW x \in SUBSET (1 .. n + 1), n + 1 \notin x
        PROVE  x \in Low
    BY <2>2
  <2>3. ASSUME NEW x \in Low \cup High
        PROVE  x \in SUBSET (1 .. n + 1)
    OBVIOUS
  <2>4. QED
    BY <2>1, <2>2, <2>3
<1>6. Low \cap High = {}
  OBVIOUS
<1>7. ExistsBijection(Low, High)
  <2>1. f \in [Low -> High]
    OBVIOUS
  <2>2. ASSUME NEW x \in Low, NEW y \in Low, f[x] = f[y]
        PROVE  x = y
    <3>1. n + 1 \notin x /\ n + 1 \notin y
      OBVIOUS
    <3>2. x = (x \cup {n + 1}) \ {n + 1} /\ y = (y \cup {n + 1}) \ {n + 1}
      BY <3>1
    <3>3. QED
      BY <2>2, <3>2
  <2>3. \A y \in High : \E x \in Low : f[x] = y
    OBVIOUS
  <2> HIDE DEF f, Low, High
  <2>4. QED
    BY <2>1, <2>2, <2>3 DEF ExistsBijection, Bijection, Injection, Surjection,
                            IsInjective
<1> HIDE DEF Low, High
<1>8. IsFiniteSet(High) /\ Cardinality(High) = 2^n
  BY <1>2, <1>7, FS_Bijection
<1>9. Cardinality(Low \cup High) = 2^n + 2^n - Cardinality(Low \cap High)
  BY <1>2, <1>8, FS_Union
<1>10. Cardinality(Low \cap High) = 0
  BY <1>6, FS_EmptySet
<1>11. 2^n \in Nat
  BY PowNat
<1>12. 2^n + 2^n - 0 = 2 * 2^n
  BY <1>11
<1>13. QED
  BY <1>4, <1>5, <1>9, <1>10, <1>12

(* Exponents add.                                                          *)
LEMMA PowAdd ==
  ASSUME NEW m \in Nat, NEW n \in Nat
  PROVE  2^(m + n) = 2^m * 2^n
<1> DEFINE Bad == {k \in Nat : 2^(m + k) # 2^m * 2^k}
<1>1. SUFFICES ASSUME Bad # {} PROVE FALSE
  OBVIOUS
<1>2. PICK k \in Bad : \A j \in Bad : k <= j
  <2> HIDE DEF Bad
  <2>1. Bad \subseteq Nat
    BY DEF Bad
  <2>2. QED
    BY <1>1, <2>1, Least
<1>3. CASE k = 0
  <2>1. m + 0 = m /\ 2^m \in Nat
    BY PowNat
  <2>2. 2^m * 1 = 2^m
    BY <2>1
  <2>3. QED
    BY <1>3, <2>1, <2>2, PowZero
<1>4. CASE k # 0
  <2> DEFINE j == k - 1
  <2>1. j \in Nat /\ k = j + 1 /\ m + k = (m + j) + 1 /\ m + j \in Nat /\ ~(k <= j)
    BY <1>4
  <2> HIDE DEF j
  <2>2. 2^(m + j) = 2^m * 2^j
    BY <2>1, <1>2
  <2>3. 2^(m + k) = 2 * 2^(m + j)
    BY <2>1, PowStep
  <2>4. 2^k = 2 * 2^j
    BY <2>1, PowStep
  <2>5. 2^m \in Nat /\ 2^j \in Nat
    BY <2>1, PowNat
  <2> DEFINE x == 2^m
             y == 2^j
  <2>6. x \in Nat /\ y \in Nat
    BY <2>5
  <2> HIDE DEF x, y
  <2>7. 2 * (x * y) = x * (2 * y)
    BY <2>6
  <2>8. QED
    BY <2>2, <2>3, <2>4, <2>7 DEF x, y
<1>5. QED
  BY <1>3, <1>4
-----------------------------------------------------------------------------
(* The code that pointers cross in; every crossing has the same.           *)
Bit(n, i) == credit!bapg!Bit(n, i)
Gray(n, width) == credit!bapg!Gray(n, width)
Xor(x, y) == credit!bapg!Xor(x, y)
Sampled(old, new) == credit!bapg!Sampled(old, new)

(* A Gray code is a set of wires.                                          *)
LEMMA GrayWires ==
  ASSUME NEW n \in Nat, NEW w \in Nat
  PROVE  /\ Gray(n, w) \subseteq 0 .. w - 1
         /\ \A i \in 0 .. w - 1 : i \in Gray(n, w) <=> Bit(n, i) # Bit(n, i + 1)
BY DEF Gray, Bit, credit!bapg!Gray

(* The digits of a number are its parity and those of its half.            *)
LEMMA BitHalf ==
  ASSUME NEW n \in Nat, NEW i \in Nat
  PROVE  /\ Bit(n, i) \in {0, 1}
         /\ n \div 2 \in Nat
         /\ Bit(n, 0) = n % 2
         /\ Bit(n, i + 1) = Bit(n \div 2, i)
<1> DEFINE d == 2^i
<1>1. d \in Nat \ {0} /\ 2^(i + 1) = 2 * d
  BY PowNat, PowStep
<1> HIDE DEF d
<1>2. n \div (2 * d) = (n \div 2) \div d /\ n \div 2 \in Nat /\ n \div d \in Nat
  BY <1>1, DivHalf
<1>3. Bit(n, i) = (n \div d) % 2
  BY DEF d, Bit, credit!bapg!Bit
<1>4. Bit(n, i + 1) = (n \div (2 * d)) % 2
  BY <1>1 DEF Bit, credit!bapg!Bit
<1>5. Bit(n \div 2, i) = ((n \div 2) \div d) % 2
  BY DEF d, Bit, credit!bapg!Bit
<1>6. Bit(n, 0) = (n \div 1) % 2
  BY PowZero DEF Bit, credit!bapg!Bit
<1>7. Bit(n, i) \in {0, 1}
  BY <1>2, <1>3
<1>8. n \div 1 = n
  OBVIOUS
<1>9. QED
  BY <1>2, <1>4, <1>5, <1>6, <1>7, <1>8

(* Counting up turns the ones below some place to zeros, the zero in that  *)
(* place to a one, and leaves the digits above.                            *)
CarryTo(n, t) ==
  /\ \A i \in Nat : i < t => Bit(n, i) = 1 /\ Bit(n + 1, i) = 0
  /\ Bit(n, t) = 0 /\ Bit(n + 1, t) = 1
  /\ \A i \in Nat : i > t => Bit(n, i) = Bit(n + 1, i)

(* Counting on from an even number changes its last digit only.            *)
LEMMA CarryEven ==
  ASSUME NEW n \in Nat, n % 2 = 0
  PROVE  CarryTo(n, 0)
<1>1. (n + 1) \div 2 = n \div 2 /\ (n + 1) % 2 = 1 /\ n + 1 \in Nat
  OBVIOUS
<1>2. Bit(n, 0) = 0 /\ Bit(n + 1, 0) = 1
  BY <1>1, BitHalf
<1>3. ASSUME NEW i \in Nat, i > 0
      PROVE  Bit(n, i) = Bit(n + 1, i)
  <2> DEFINE j == i - 1
  <2>1. j \in Nat /\ i = j + 1
    BY <1>3
  <2> HIDE DEF j
  <2>2. Bit(n, j + 1) = Bit(n \div 2, j) /\ Bit(n + 1, j + 1) = Bit((n + 1) \div 2, j)
    BY <2>1, <1>1, BitHalf
  <2>3. QED
    BY <2>1, <2>2, <1>1
<1>4. QED
  BY <1>2, <1>3 DEF CarryTo

(* From an odd one, the carry goes one digit further than in its half.     *)
LEMMA CarryOdd ==
  ASSUME NEW n \in Nat, n % 2 = 1, NEW t \in Nat, CarryTo(n \div 2, t)
  PROVE  CarryTo(n, t + 1)
<1> DEFINE h == n \div 2
<1>1. /\ h \in Nat /\ h + 1 \in Nat /\ n + 1 \in Nat
      /\ (n + 1) \div 2 = h + 1 /\ (n + 1) % 2 = 0
  OBVIOUS
<1>2. CarryTo(h, t)
  OBVIOUS
<1>3. Bit(n, 0) = 1 /\ Bit(n + 1, 0) = 0
  BY <1>1, BitHalf
<1>4. \A j \in Nat : Bit(n, j + 1) = Bit(h, j) /\ Bit(n + 1, j + 1) = Bit(h + 1, j)
  <2>1. SUFFICES ASSUME NEW j \in Nat
                 PROVE  Bit(n, j + 1) = Bit(h, j) /\ Bit(n + 1, j + 1) = Bit(h + 1, j)
    OBVIOUS
  <2>2. Bit(n, j + 1) = Bit(h, j)
    BY BitHalf
  <2>3. Bit(n + 1, j + 1) = Bit((n + 1) \div 2, j)
    BY <1>1, BitHalf
  <2>4. QED
    BY <2>2, <2>3, <1>1
<1> HIDE DEF h
<1>5. ASSUME NEW i \in Nat, i < t + 1
      PROVE  Bit(n, i) = 1 /\ Bit(n + 1, i) = 0
  <2>1. CASE i = 0
    BY <2>1, <1>3
  <2>2. CASE i # 0
    <3>1. i - 1 \in Nat /\ i - 1 < t /\ (i - 1) + 1 = i
      BY <1>5, <2>2
    <3>2. QED
      BY <3>1, <1>2, <1>4 DEF CarryTo
  <2>3. QED
    BY <2>1, <2>2
<1>6. Bit(n, t + 1) = 0 /\ Bit(n + 1, t + 1) = 1
  BY <1>2, <1>4 DEF CarryTo
<1>7. ASSUME NEW i \in Nat, i > t + 1
      PROVE  Bit(n, i) = Bit(n + 1, i)
  <2>1. i - 1 \in Nat /\ i - 1 > t /\ (i - 1) + 1 = i
    BY <1>7
  <2>2. QED
    BY <2>1, <1>2, <1>4 DEF CarryTo
<1>8. QED
  BY <1>5, <1>6, <1>7 DEF CarryTo

(* A number has a place to which the carry goes when it counts.            *)
LEMMA Carry ==
  ASSUME NEW n \in Nat
  PROVE  \E t \in Nat : CarryTo(n, t)
<1> DEFINE Bad == {k \in Nat : ~ \E t \in Nat : CarryTo(k, t)}
<1>1. SUFFICES ASSUME Bad # {} PROVE FALSE
  OBVIOUS
<1>2. PICK k \in Bad : \A j \in Bad : k <= j
  <2>1. Bad \subseteq Nat
    OBVIOUS
  <2> HIDE DEF Bad
  <2>2. QED
    BY <1>1, <2>1, Least
<1>3. k \in Nat /\ k \div 2 \in Nat /\ k % 2 \in {0, 1} /\ (k % 2 = 1 => k \div 2 < k)
  OBVIOUS
<1>4. CASE k % 2 = 0
  BY <1>3, <1>4, CarryEven
<1>5. CASE k % 2 = 1
  <2>1. k \div 2 \notin Bad
    BY <1>2, <1>3, <1>5
  <2>2. PICK t \in Nat : CarryTo(k \div 2, t)
    BY <1>3, <2>1
  <2>3. CarryTo(k, t + 1)
    BY <1>3, <1>5, <2>2, CarryOdd
  <2>4. t + 1 \in Nat
    OBVIOUS
  <2>5. QED
    BY <2>3, <2>4
<1>6. QED
  BY <1>3, <1>4, <1>5

(* A number below 2^w has no digit at w or above.                          *)
LEMMA BitsAbove ==
  ASSUME NEW w \in Nat, NEW n \in 0 .. 2^w - 1, NEW i \in Nat, i >= w
  PROVE  Bit(n, i) = 0
<1> DEFINE j == i - w
           x == 2^w
           y == 2^j
<1>1. j \in Nat /\ i = w + j
  OBVIOUS
<1> HIDE DEF j
<1>2. x \in Nat \ {0} /\ y \in Nat \ {0} /\ 2^i = x * y
  BY <1>1, PowNat, PowAdd
<1>3. n \in 0 .. x - 1
  OBVIOUS
<1> HIDE DEF x, y
<1>4. x * y >= x
  BY <1>2
<1>5. x * y \in Nat \ {0} /\ n \in 0 .. x * y - 1
  BY <1>2, <1>3, <1>4
<1>6. n \div (x * y) = 0
  BY <1>5, ModSmall
<1>7. Bit(n, i) = 0 % 2
  BY <1>2, <1>6 DEF Bit, credit!bapg!Bit
<1>8. QED
  BY <1>7

(* Successive pointers, the last and the first included, differ in one     *)
(* wire.                                                                   *)
LEMMA OneWire ==
  ASSUME NEW w \in Nat \ {0}, NEW n \in 0 .. 2^w - 1
  PROVE  \E t \in Nat : \A i \in 0 .. w - 1 :
           i # t => (i \in Gray(n, w) <=> i \in Gray((n + 1) % 2^w, w))
<1> DEFINE P == 2^w
<1>1. P \in Nat \ {0}
  BY PowNat
<1>2. n \in Nat /\ n + 1 \in Nat /\ n < P
  BY <1>1
<1>3. PICK t \in Nat : CarryTo(n, t)
  BY <1>2, Carry
<1>4. \A i \in Nat : i # t => (Bit(n, i) # Bit(n, i + 1) <=> Bit(n + 1, i) # Bit(n + 1, i + 1))
  <2>1. SUFFICES ASSUME NEW i \in Nat, i # t
                 PROVE  Bit(n, i) # Bit(n, i + 1) <=> Bit(n + 1, i) # Bit(n + 1, i + 1)
    OBVIOUS
  <2>2. CASE i > t
    <3>1. i + 1 \in Nat /\ i + 1 > t
      BY <2>2
    <3>2. QED
      BY <3>1, <2>2, <1>3 DEF CarryTo
  <2>3. CASE i + 1 < t
    <3>1. i + 1 \in Nat /\ i < t
      BY <2>3
    <3>2. QED
      BY <3>1, <2>3, <1>3 DEF CarryTo
  <2>4. CASE i + 1 = t
    <3>1. i < t
      BY <2>4
    <3>2. QED
      BY <3>1, <2>4, <1>3 DEF CarryTo
  <2>5. QED
    BY <2>1, <2>2, <2>3, <2>4
<1> HIDE DEF P
<1>5. CASE n + 1 < P
  <2>1. (n + 1) % P = n + 1
    BY <1>1, <1>2, <1>5, ModSmall
  <2>2. \A i \in 0 .. w - 1 : i # t => (i \in Gray(n, w) <=> i \in Gray(n + 1, w))
    BY <1>2, <1>4, GrayWires
  <2>3. QED
    BY <2>1, <2>2 DEF P
<1>6. CASE n + 1 = P
  <2>1. (n + 1) % P = 0
    BY <1>1, <1>6, ModPlus
  <2>2. Bit(n, w) = 0
    BY <1>1, <1>2, BitsAbove DEF P
  <2>3. Bit(P, w) = 1
    <3>1. P \div P = 1
      BY <1>1
    <3>2. Bit(P, w) = (P \div P) % 2
      BY DEF P, Bit, credit!bapg!Bit
    <3>3. QED
      BY <3>1, <3>2
  <2>4. t = w
    BY <2>2, <2>3, <1>3, <1>6 DEF CarryTo
  <2>5. \A i \in 0 .. w - 1 : Bit(n, i) = 1
    BY <1>3, <2>4 DEF CarryTo
  <2>6. \A i \in 0 .. w - 1 : i # w - 1 => i \notin Gray(n, w)
    <3>1. SUFFICES ASSUME NEW i \in 0 .. w - 1, i # w - 1 PROVE i \notin Gray(n, w)
      OBVIOUS
    <3>2. i + 1 \in 0 .. w - 1
      BY <3>1
    <3>3. QED
      BY <3>2, <2>5, <1>2, GrayWires
  <2>7. \A i \in Nat : Bit(0, i) = 0
    <3>1. SUFFICES ASSUME NEW i \in Nat PROVE Bit(0, i) = 0
      OBVIOUS
    <3>2. 0 \in 0 .. 2^0 - 1 /\ 0 \in Nat /\ i >= 0
      BY PowZero
    <3>3. QED
      BY <3>2, BitsAbove
  <2>8. \A i \in 0 .. w - 1 : i \notin Gray(0, w)
    BY <2>7, GrayWires
  <2>9. w - 1 \in Nat
    OBVIOUS
  <2>10. QED
    BY <2>1, <2>6, <2>8, <2>9 DEF P
<1>7. QED
  BY <1>1, <1>2, <1>5, <1>6

(* So what a flop catches of the wires between two pointers is one of the  *)
(* two.                                                                    *)
LEMMA CaughtOld ==
  ASSUME NEW w \in Nat \ {0}, NEW n \in 0 .. 2^w - 1,
         NEW x \in Sampled(Gray(n, w), Gray((n + 1) % 2^w, w))
  PROVE  x = Gray(n, w) \/ x = Gray((n + 1) % 2^w, w)
<1> DEFINE A == Gray(n, w)
           B == Gray((n + 1) % 2^w, w)
<1>1. PICK t \in Nat : \A i \in 0 .. w - 1 : i # t => (i \in A <=> i \in B)
  BY OneWire
<1>2. 2^w \in Nat \ {0} /\ n \in Nat /\ n + 1 \in Nat
  BY PowNat
<1>3. (n + 1) % 2^w \in Nat
  BY <1>2, Division
<1>4. A \subseteq 0 .. w - 1 /\ B \subseteq 0 .. w - 1
  BY <1>2, <1>3, GrayWires
<1>5. x \subseteq A \cup B /\ A \cap B \subseteq x
  BY DEF Sampled, credit!bapg!Sampled
<1> SUFFICES x = A \/ x = B
  OBVIOUS
<1> HIDE DEF A, B
<1>6. \A i : i # t => (i \in x <=> i \in A) /\ (i \in x <=> i \in B)
  BY <1>1, <1>4, <1>5
<1>7. CASE t \in x <=> t \in A
  <2>1. \A i : i \in x <=> i \in A
    BY <1>6, <1>7
  <2>2. QED
    BY <2>1
<1>8. CASE t \in x <=> t \in B
  <2>1. \A i : i \in x <=> i \in B
    BY <1>6, <1>8
  <2>2. QED
    BY <2>1
<1>9. QED
  BY <1>5, <1>7, <1>8

(* Adding a power of two leaves the digits below it.                       *)
LEMMA BitsBelow ==
  ASSUME NEW l \in Nat, NEW n \in Nat, NEW i \in Nat, i < l
  PROVE  Bit(n + 2^l, i) = Bit(n, i)
<1> DEFINE j == l - i - 1
           x == 2^i
           y == 2^j
           z == 2 * y
<1>1. j \in Nat /\ l = (i + j) + 1 /\ i + j \in Nat
  OBVIOUS
<1> HIDE DEF j
<1>2. x \in Nat \ {0} /\ y \in Nat \ {0} /\ 2^l = 2 * (x * y)
  BY <1>1, PowNat, PowAdd, PowStep
<1>3. Bit(n + 2^l, i) = ((n + 2^l) \div x) % 2 /\ Bit(n, i) = (n \div x) % 2
  BY DEF Bit, credit!bapg!Bit
<1> HIDE DEF x, y
<1>4. 2 * (x * y) = x * z /\ z \in Int
  BY <1>2
<1> HIDE DEF z
<1>5. (n + x * z) \div x = n \div x + z
  <2>1. n \in Int /\ x \in Nat \ {0} /\ z \in Int
    BY <1>2, <1>4
  <2>2. QED
    BY ONLY <2>1, ModPlus
<1>6. n \div x \in Int
  BY <1>2, Division
<1>7. (n \div x + z) % 2 = (n \div x) % 2
  BY <1>2, <1>6, ModPlus DEF z
<1>8. QED
  BY <1>2, <1>3, <1>4, <1>5, <1>7

(* Half way round the circle of pointers the top two wires are inverted    *)
(* and the others are as they were: what full looks for.                   *)
LEMMA HalfWay ==
  ASSUME NEW l \in Nat \ {0}, NEW n \in 0 .. 2^l - 1
  PROVE  Gray(n + 2^l, l + 1) = Xor(Gray(n, l + 1), {l, l - 1})
<1> DEFINE S == 2^l
           A == Gray(n, l + 1)
           B == Gray(n + S, l + 1)
<1>1. S \in Nat \ {0} /\ 2^(l + 1) = 2 * S /\ n \in 0 .. S - 1
  BY PowNat, PowStep
<1>2. n \in Nat /\ n + S \in Nat /\ l + 1 \in Nat
  BY <1>1
<1>3. \A i \in 0 .. l - 1 : Bit(n + S, i) = Bit(n, i)
  BY <1>2, BitsBelow
<1>4. Bit(n, l) = 0
  BY BitsAbove
<1>5. Bit(n + S, l) = 1
  <2>1. (n + S) \div S = n \div S + 1
    <3> HIDE DEF S
    <3>1. n \in Int /\ S \in Nat \ {0}
      BY <1>1, <1>2
    <3>2. QED
      BY ONLY <3>1, ModOnce
  <2>2. n \div S = 0
    <3> HIDE DEF S
    <3> QED
      BY <1>1, ModSmall
  <2>3. Bit(n + S, l) = ((n + S) \div S) % 2
    BY DEF Bit, credit!bapg!Bit
  <2>4. QED
    BY <2>1, <2>2, <2>3
<1>6. Bit(n, l + 1) = 0 /\ Bit(n + S, l + 1) = 0
  <2>1. n \in 0 .. 2 * S - 1 /\ n + S \in 0 .. 2 * S - 1 /\ l + 1 >= l + 1
    BY <1>1
  <2>2. n \in 0 .. 2^(l + 1) - 1 /\ n + S \in 0 .. 2^(l + 1) - 1
    BY <2>1, <1>1
  <2>3. QED
    BY <2>1, <2>2, <1>2, BitsAbove
<1>7. A \subseteq 0 .. l /\ B \subseteq 0 .. l
  <2>1. (l + 1) - 1 = l
    OBVIOUS
  <2>2. QED
    BY <2>1, <1>2, GrayWires
<1>8. \A i \in 0 .. l : /\ i \in A <=> Bit(n, i) # Bit(n, i + 1)
                        /\ i \in B <=> Bit(n + S, i) # Bit(n + S, i + 1)
  <2>1. (l + 1) - 1 = l
    OBVIOUS
  <2>2. QED
    BY <2>1, <1>2, GrayWires
<1>9. Bit(n, l - 1) \in {0, 1}
  BY <1>2, BitHalf
<1> HIDE DEF S, A, B
<1>10. l \notin A /\ l \in B
  BY <1>4, <1>5, <1>6, <1>8
<1>11. l - 1 \in A <=> l - 1 \notin B
  <2>1. l - 1 \in 0 .. l /\ l - 1 \in 0 .. l - 1 /\ (l - 1) + 1 = l
    OBVIOUS
  <2>2. (l - 1 \in A <=> Bit(n, l - 1) # 0) /\ (l - 1 \in B <=> Bit(n, l - 1) # 1)
    BY <2>1, <1>3, <1>4, <1>5, <1>8
  <2>3. QED
    BY <2>2, <1>9
<1>12. \A i \in 0 .. l - 2 : i \in A <=> i \in B
  <2>1. SUFFICES ASSUME NEW i \in 0 .. l - 2 PROVE i \in A <=> i \in B
    OBVIOUS
  <2>2. i \in 0 .. l /\ i \in 0 .. l - 1 /\ i + 1 \in 0 .. l - 1
    OBVIOUS
  <2>3. QED
    BY <2>2, <1>3, <1>8
<1>13. B = Xor(A, {l, l - 1})
  <2>1. \A i \in 0 .. l :
          i \in B <=> (i \in A /\ i \notin {l, l - 1}) \/ (i \notin A /\ i \in {l, l - 1})
    <3>1. SUFFICES ASSUME NEW i \in 0 .. l
                   PROVE  i \in B <=> (i \in A /\ i \notin {l, l - 1})
                             \/ (i \notin A /\ i \in {l, l - 1})
      OBVIOUS
    <3>2. i = l \/ i = l - 1 \/ i \in 0 .. l - 2
      OBVIOUS
    <3>3. QED
      BY <3>2, <1>10, <1>11, <1>12
  <2>2. {l, l - 1} \subseteq 0 .. l
    OBVIOUS
  <2>3. Xor(A, {l, l - 1}) = (A \ {l, l - 1}) \cup ({l, l - 1} \ A)
    BY DEF Xor, credit!bapg!Xor
  <2> DEFINE T == {l, l - 1}
  <2> HIDE DEF T
  <2>4. QED
    BY <2>1, <2>2, <2>3, <1>7 DEF T
<1>14. QED
  BY <1>13 DEF A, B, S

(* The pointers of a full ring differ in the top two wires.                *)
LEMMA Opposite ==
  ASSUME NEW l \in Nat \ {0}, NEW n \in 0 .. 2^(l + 1) - 1
  PROVE  Gray((n + 2^l) % 2^(l + 1), l + 1) = Xor(Gray(n, l + 1), {l, l - 1})
<1> DEFINE S == 2^l
           P == 2^(l + 1)
<1>1. S \in Nat \ {0} /\ P = 2 * S /\ n \in 0 .. P - 1
  BY PowNat, PowStep
<1> HIDE DEF S, P
<1>2. CASE n < S
  <2>1. n \in 0 .. S - 1 /\ n + S \in 0 .. P - 1 /\ P \in Nat \ {0}
    BY <1>1, <1>2
  <2>2. (n + S) % P = n + S
    BY <2>1, ModSmall
  <2>3. Gray(n + S, l + 1) = Xor(Gray(n, l + 1), {l, l - 1})
    BY <2>1, HalfWay DEF S
  <2>4. QED
    BY <2>2, <2>3 DEF S, P
<1>3. CASE n >= S
  <2> DEFINE k == n - S
  <2>1. k \in 0 .. S - 1 /\ k \in 0 .. P - 1 /\ P \in Nat \ {0} /\ n + S = k + P /\ n = k + S
    BY <1>1, <1>3
  <2> HIDE DEF k
  <2>2. (n + S) % P = k
    <3>1. k \in Int /\ P \in Nat \ {0} /\ k % P = k
      BY <2>1, ModSmall
    <3>2. (k + P) % P = k % P
      BY ONLY <3>1, ModOnce
    <3>3. QED
      BY <2>1, <3>1, <3>2
  <2>3. Gray(n, l + 1) = Xor(Gray(k, l + 1), {l, l - 1})
    BY <2>1, HalfWay DEF S
  <2>4. \A x, y : Xor(Xor(x, y), y) = x
    BY DEF Xor, credit!bapg!Xor
  <2>5. QED
    BY <2>2, <2>3, <2>4 DEF S, P
<1>4. QED
  BY <1>1, <1>2, <1>3

(* A number is known by its digits.                                        *)
LEMMA DigitsTell ==
  ASSUME NEW m \in Nat, NEW n \in Nat, \A i \in Nat : Bit(m, i) = Bit(n, i)
  PROVE  m = n
<1> DEFINE Same(a, b) == \A i \in Nat : Bit(a, i) = Bit(b, i)
           Bad == {k \in Nat : \E a, b \in Nat : a + b = k /\ Same(a, b) /\ a # b}
<1>1. SUFFICES ASSUME m # n PROVE FALSE
  OBVIOUS
<1>2. m + n \in Bad
  BY <1>1
<1>3. PICK k \in Bad : \A j \in Bad : k <= j
  <2>1. Bad \subseteq Nat /\ Bad # {}
    BY <1>2
  <2> HIDE DEF Bad
  <2>2. QED
    BY <2>1, Least
<1>4. PICK a \in Nat, b \in Nat : a + b = k /\ Same(a, b) /\ a # b
  OBVIOUS
<1>5. a % 2 = b % 2
  BY <1>4, BitHalf
<1>6. a \div 2 \in Nat /\ b \div 2 \in Nat /\ a \div 2 # b \div 2 /\ a \div 2 + b \div 2 < k
  BY <1>4, <1>5
<1>7. Same(a \div 2, b \div 2)
  <2>1. SUFFICES ASSUME NEW i \in Nat PROVE Bit(a \div 2, i) = Bit(b \div 2, i)
    OBVIOUS
  <2>2. Bit(a, i + 1) = Bit(a \div 2, i) /\ Bit(b, i + 1) = Bit(b \div 2, i)
    BY BitHalf
  <2>3. QED
    BY <2>2, <1>4
<1> HIDE DEF Same
<1>8. a \div 2 + b \div 2 \in Bad
  BY <1>6, <1>7
<1>9. k \in Nat
  OBVIOUS
<1> HIDE DEF Bad
<1>10. k <= a \div 2 + b \div 2
  BY <1>3, <1>8
<1>11. QED
  BY <1>6, <1>9, <1>10

(* Numbers with the same code are the same.                                *)
LEMMA GrayTells ==
  ASSUME NEW w \in Nat, NEW m \in 0 .. 2^w - 1, NEW n \in 0 .. 2^w - 1,
         Gray(m, w) = Gray(n, w)
  PROVE  m = n
<1>1. m \in Nat /\ n \in Nat
  BY PowNat
<1>2. \A i \in Nat : i >= w => Bit(m, i) = 0 /\ Bit(n, i) = 0
  BY BitsAbove
<1> DEFINE Bad == {k \in 0 .. w : Bit(m, w - k) # Bit(n, w - k)}
<1>3. ASSUME Bad # {} PROVE FALSE
  <2>1. PICK k \in Bad : \A j \in Bad : k <= j
    <3>1. Bad \subseteq Nat
      OBVIOUS
    <3> HIDE DEF Bad
    <3>2. QED
      BY <1>3, <3>1, Least
  <2>2. k # 0
    BY <1>2
  <2> DEFINE i == w - k
  <2>3. i \in 0 .. w - 1 /\ i \in Nat /\ i + 1 \in Nat /\ k \in 0 .. w
        /\ k - 1 \in 0 .. w /\ w - (k - 1) = i + 1 /\ ~(k <= k - 1)
    BY <2>2
  <2>4. Bit(m, i + 1) = Bit(n, i + 1)
    <3>1. k - 1 \notin Bad
      BY <2>1, <2>3
    <3>2. QED
      BY <3>1, <2>3
  <2>5. Bit(m, i) # Bit(n, i)
    OBVIOUS
  <2> HIDE DEF i
  <2>6. Bit(m, i) # Bit(m, i + 1) <=> Bit(n, i) # Bit(n, i + 1)
    BY <1>1, <2>3, GrayWires
  <2>7. /\ Bit(m, i) \in {0, 1} /\ Bit(n, i) \in {0, 1} /\ Bit(m, i + 1) \in {0, 1}
    BY <1>1, <2>3, BitHalf
  <2>8. QED
    BY <2>4, <2>5, <2>6, <2>7
<1>4. \A i \in Nat : Bit(m, i) = Bit(n, i)
  <2>1. SUFFICES ASSUME NEW i \in Nat, i < w PROVE Bit(m, i) = Bit(n, i)
    BY <1>2
  <2>2. w - i \in 0 .. w /\ w - (w - i) = i
    BY <2>1
  <2>3. w - i \notin Bad
    BY <1>3
  <2>4. QED
    BY <2>2, <2>3
<1>5. QED
  BY <1>1, <1>4, DigitsTell

-----------------------------------------------------------------------------
(* A pointer of an AsyncPtrGray, its successor and its launch flop.        *)
Pointer(ptr, p1, launch, w) ==
  /\ ptr \in 0 .. 2^w - 1
  /\ p1 = (ptr + 1) % 2^w
  /\ launch = Gray(ptr, w)

(* The two flops of the other clock hold pointers a and b increments old,  *)
(* the second no newer than the first; and pointers at most lag old.       *)
Trail(ptr, sync1, sync2, a, b, w) ==
  /\ a \in Nat /\ b \in Nat /\ a <= b
  /\ sync1 = Gray((ptr - a) % 2^w, w)
  /\ sync2 = Gray((ptr - b) % 2^w, w)

Behind(ptr, sync1, sync2, lag, w) ==
  \E a, b \in 0 .. lag : Trail(ptr, sync1, sync2, a, b, w)

(* One more if a cycle counts.                                             *)
Inc(yes) == IF yes THEN 1 ELSE 0

(* The code after reset is that of zero.                                   *)
LEMMA GrayZero ==
  ASSUME NEW w \in Nat
  PROVE  Gray(0, w) = {}
<1>1. \A i \in Nat : Bit(0, i) = 0
  <2>1. SUFFICES ASSUME NEW i \in Nat PROVE Bit(0, i) = 0
    OBVIOUS
  <2>2. 0 \in 0 .. 2^0 - 1 /\ 0 \in Nat /\ i >= 0
    BY PowZero
  <2>3. QED
    BY <2>2, BitsAbove
<1>2. \A i \in 0 .. w - 1 : i \notin Gray(0, w)
  BY <1>1, GrayWires
<1>3. Gray(0, w) \subseteq 0 .. w - 1
  BY GrayWires
<1>4. QED
  BY <1>2, <1>3

(* An edge keeps a pointer and its code in step, through reset too.        *)
LEMMA PointerEdge ==
  ASSUME NEW w \in Nat \ {0}, NEW ptr, NEW p1, NEW launch, Pointer(ptr, p1, launch, w),
         NEW reset \in BOOLEAN, NEW inc \in BOOLEAN, NEW ptr2, NEW p12, NEW launch2,
         IF reset
           THEN ptr2 = 0 /\ p12 = 1 /\ launch2 = {}
           ELSE /\ ptr2 = IF inc THEN p1 ELSE ptr
                /\ p12 = IF inc THEN (p1 + 1) % 2^w ELSE p1
                /\ launch2 = IF inc THEN Gray(p1, w) ELSE launch
  PROVE  /\ Pointer(ptr2, p12, launch2, w)
         /\ ptr2 = IF reset THEN 0 ELSE (ptr + Inc(inc)) % 2^w
<1> DEFINE P == 2^w
<1>1. P \in Nat \ {0}
  BY PowNat
<1>2. P >= 2
  <2>1. w - 1 \in Nat /\ (w - 1) + 1 = w
    OBVIOUS
  <2>2. 2^w = 2 * 2^(w - 1) /\ 2^(w - 1) \in Nat \ {0}
    BY <2>1, PowStep, PowNat
  <2>3. QED
    BY <2>2
<1>3. ptr \in 0 .. P - 1 /\ p1 = (ptr + 1) % P /\ launch = Gray(ptr, w)
  BY DEF Pointer
<1> HIDE DEF P
<1>4. p1 \in 0 .. P - 1 /\ (ptr + 0) % P = ptr
  <2>1. ptr + 1 \in Int /\ P \in Nat \ {0}
    BY <1>1, <1>3
  <2>2. (ptr + 1) % P \in 0 .. P - 1
    BY ONLY <2>1
  <2>3. ptr + 0 = ptr /\ ptr % P = ptr
    BY <1>1, <1>3, ModSmall
  <2>4. QED
    BY <1>3, <2>2, <2>3
<1>5. CASE reset
  <2>1. 1 % P = 1
    BY <1>2, <1>1, ModSmall
  <2>2. Pointer(0, 1, {}, w)
    BY <1>1, <2>1, GrayZero DEF Pointer, P
  <2>3. QED
    BY <1>5, <2>2
<1>6. CASE ~reset /\ inc
  BY <1>3, <1>4, <1>6 DEF Pointer, P, Inc
<1>7. CASE ~reset /\ ~inc
  BY <1>3, <1>4, <1>7 DEF Pointer, P, Inc
<1>8. QED
  BY <1>5, <1>6, <1>7

(* The same for an edge without reset.                                     *)
LEMMA PointerTick ==
  ASSUME NEW w \in Nat \ {0}, NEW ptr, NEW p1, NEW launch, Pointer(ptr, p1, launch, w),
         NEW inc \in BOOLEAN, NEW ptr2, NEW p12, NEW launch2,
         ptr2 = IF inc THEN p1 ELSE ptr,
         p12 = IF inc THEN (p1 + 1) % 2^w ELSE p1,
         launch2 = IF inc THEN Gray(p1, w) ELSE launch
  PROVE  Pointer(ptr2, p12, launch2, w) /\ ptr2 = (ptr + Inc(inc)) % 2^w
<1>1. PICK reset \in BOOLEAN : ~reset
  OBVIOUS
<1>2. IF reset
        THEN ptr2 = 0 /\ p12 = 1 /\ launch2 = {}
        ELSE /\ ptr2 = IF inc THEN p1 ELSE ptr
             /\ p12 = IF inc THEN (p1 + 1) % 2^w ELSE p1
             /\ launch2 = IF inc THEN Gray(p1, w) ELSE launch
  BY <1>1
<1>3. /\ Pointer(ptr2, p12, launch2, w)
      /\ ptr2 = IF reset THEN 0 ELSE (ptr + Inc(inc)) % 2^w
  BY <1>2, PointerEdge
<1>4. QED
  BY <1>1, <1>3

(* Synchronisers that are up to date.                                      *)
LEMMA TrailStart ==
  ASSUME NEW w \in Nat, NEW ptr \in 0 .. 2^w - 1
  PROVE  Trail(ptr, Gray(ptr, w), Gray(ptr, w), 0, 0, w)
<1>1. 2^w \in Nat \ {0}
  BY PowNat
<1>2. ptr - 0 = ptr /\ ptr % 2^w = ptr
  BY <1>1, ModSmall
<1>3. Gray(ptr, w) = Gray((ptr - 0) % 2^w, w)
  BY <1>2
<1>4. QED
  BY <1>3 DEF Trail

(* A pointer that counts leaves both flops one more behind.                *)
LEMMA TrailCount ==
  ASSUME NEW w \in Nat, NEW ptr \in Int, NEW sync1, NEW sync2, NEW a, NEW b,
         Trail(ptr, sync1, sync2, a, b, w)
  PROVE  Trail((ptr + 1) % 2^w, sync1, sync2, a + 1, b + 1, w)
<1> DEFINE P == 2^w
<1>1. P \in Nat \ {0}
  BY PowNat
<1>2. /\ a \in Nat /\ b \in Nat /\ a <= b
      /\ sync1 = Gray((ptr - a) % P, w)
      /\ sync2 = Gray((ptr - b) % P, w)
  BY DEF Trail
<1> HIDE DEF P
<1>3. ASSUME NEW c \in Int PROVE (((ptr + 1) % P) - (c + 1)) % P = (ptr - c) % P
  <2> DEFINE m == -(c + 1)
             n == ptr + 1
  <2>1. m \in Int /\ n \in Int /\ n + m = ptr - c
    OBVIOUS
  <2>2. (n % P) - (c + 1) = (n % P) + m
    BY <1>1, Division
  <2> HIDE DEF m, n
  <2>3. ((n % P) + m) % P = (n + m) % P
    BY <2>1, <1>1, ModAdd
  <2>4. QED
    BY <2>1, <2>2, <2>3 DEF n
<1>4. a + 1 \in Nat /\ b + 1 \in Nat /\ a + 1 <= b + 1
  BY <1>2
<1>5. sync1 = Gray((((ptr + 1) % P) - (a + 1)) % P, w)
  BY <1>2, <1>3
<1>6. sync2 = Gray((((ptr + 1) % P) - (b + 1)) % P, w)
  BY <1>2, <1>3
<1>7. QED
  BY <1>4, <1>5, <1>6 DEF Trail, P

(* A flop that catches the pointer holds its value before or after.        *)
LEMMA TrailCapture ==
  ASSUME NEW w \in Nat, NEW ptr \in 0 .. 2^w - 1, NEW sync1, NEW sync2, NEW a, NEW b,
         Trail(ptr, sync1, sync2, a, b, w)
  PROVE  Trail(ptr, Gray(ptr, w), sync1, 0, a, w)
<1>1. Gray(ptr, w) = Gray((ptr - 0) % 2^w, w)
  BY TrailStart DEF Trail
<1>2. a \in Nat /\ 0 <= a /\ sync1 = Gray((ptr - a) % 2^w, w)
  BY DEF Trail
<1>3. QED
  BY <1>1, <1>2 DEF Trail

(* An edge of either clock or of both at once: the pointer may count, and  *)
(* the flops may take what they catch.                                     *)
LEMMA TrailEdge ==
  ASSUME NEW w \in Nat \ {0}, NEW ptr \in 0 .. 2^w - 1, NEW sync1, NEW sync2,
         NEW a, NEW b, Trail(ptr, sync1, sync2, a, b, w),
         NEW inc \in BOOLEAN, NEW ptr2, NEW s1, NEW s2,
         ptr2 = (ptr + Inc(inc)) % 2^w
  PROVE  /\ s1 = sync1 /\ s2 = sync2 =>
              Trail(ptr2, s1, s2, a + Inc(inc), b + Inc(inc), w)
         /\ s1 \in Sampled(Gray(ptr, w), Gray(ptr2, w)) /\ s2 = sync1 =>
              \E c \in 0 .. Inc(inc) : Trail(ptr2, s1, s2, c, a + Inc(inc), w)
<1> DEFINE P == 2^w
<1>1. P \in Nat \ {0} /\ ptr \in 0 .. P - 1 /\ a \in Nat /\ b \in Nat
  BY PowNat DEF Trail
<1> HIDE DEF P
<1>2. (ptr + 0) % P = ptr
  <2>1. ptr + 0 = ptr
    BY <1>1
  <2>2. QED
    BY <2>1, <1>1, ModSmall
<1>3. CASE inc
  <2>1. ptr2 = (ptr + 1) % P /\ Inc(inc) = 1
    BY <1>3 DEF Inc, P
  <2>2. ptr2 \in 0 .. P - 1
    <3>1. ptr + 1 \in Int /\ P \in Nat \ {0}
      BY <1>1
    <3>2. (ptr + 1) % P \in 0 .. P - 1
      BY ONLY <3>1
    <3>3. QED
      BY <2>1, <3>2
  <2>3. Trail(ptr2, sync1, sync2, a + 1, b + 1, w)
    BY <1>1, <2>1, TrailCount DEF P
  <2>4. ASSUME s1 = Gray(ptr, w), s2 = sync1
        PROVE  Trail(ptr2, s1, s2, 1, a + 1, w)
    <3>1. Trail(ptr, s1, s2, 0, a, w)
      BY <2>4, TrailCapture
    <3>2. 0 + 1 = 1
      OBVIOUS
    <3>3. Trail(ptr2, s1, s2, 0 + 1, a + 1, w)
      BY <3>1, <1>1, <2>1, TrailCount DEF P
    <3>4. QED
      BY <3>2, <3>3
  <2>5. ASSUME s1 = Gray(ptr2, w), s2 = sync1
        PROVE  Trail(ptr2, s1, s2, 0, a + 1, w)
    BY <2>2, <2>3, <2>5, TrailCapture DEF P
  <2>6. 0 \in 0 .. 1 /\ 1 \in 0 .. 1
    OBVIOUS
  <2>7. s1 \in Sampled(Gray(ptr, w), Gray(ptr2, w)) => s1 = Gray(ptr, w) \/ s1 = Gray(ptr2, w)
    BY <2>1, CaughtOld DEF P
  <2>8. s1 \in Sampled(Gray(ptr, w), Gray(ptr2, w)) /\ s2 = sync1 =>
          \E c \in 0 .. 1 : Trail(ptr2, s1, s2, c, a + 1, w)
    BY <2>4, <2>5, <2>6, <2>7
  <2>9. QED
    BY <2>1, <2>3, <2>8
<1>4. CASE ~inc
  <2>1. ptr2 = ptr /\ Inc(inc) = 0 /\ a + 0 = a /\ b + 0 = b /\ 0 \in 0 .. 0
    BY <1>1, <1>2, <1>4 DEF Inc, P
  <2>2. \A x : x \in Sampled(Gray(ptr, w), Gray(ptr, w)) => x = Gray(ptr, w)
    BY DEF Sampled, credit!bapg!Sampled
  <2>3. s1 = Gray(ptr, w) /\ s2 = sync1 => Trail(ptr2, s1, s2, 0, a, w)
    BY <2>1, TrailCapture
  <2>4. QED
    BY <2>1, <2>2, <2>3
<1>5. QED
  BY <1>3, <1>4

(* Synchronisers that are up to date are at most any number behind.        *)
LEMMA BehindStart ==
  ASSUME NEW w \in Nat, NEW ptr \in 0 .. 2^w - 1, NEW lag \in Nat
  PROVE  Behind(ptr, Gray(ptr, w), Gray(ptr, w), lag, w)
<1>1. 0 \in 0 .. lag
  OBVIOUS
<1>2. QED
  BY <1>1, TrailStart DEF Behind

(* What is at most lag behind is at most more behind.                      *)
LEMMA BehindGrow ==
  ASSUME NEW w \in Nat, NEW ptr, NEW sync1, NEW sync2, NEW lag \in Nat, NEW more \in Nat,
         lag <= more, Behind(ptr, sync1, sync2, lag, w)
  PROVE  Behind(ptr, sync1, sync2, more, w)
BY DEF Behind

(* What the second flop does not hold, the pointer has left behind.        *)
LEMMA BehindFresh ==
  ASSUME NEW w \in Nat, NEW ptr, NEW sync1, NEW sync2, NEW lag \in Nat,
         Behind(ptr, sync1, sync2, lag, w), sync2 # Gray((ptr - lag) % 2^w, w)
  PROVE  lag - 1 \in Nat /\ Behind(ptr, sync1, sync2, lag - 1, w)
<1>1. PICK a \in 0 .. lag, b \in 0 .. lag : Trail(ptr, sync1, sync2, a, b, w)
  BY DEF Behind
<1>2. a <= b /\ b # lag
  BY <1>1 DEF Trail
<1>3. lag - 1 \in Nat /\ a \in 0 .. lag - 1 /\ b \in 0 .. lag - 1
  BY <1>2
<1>4. QED
  BY <1>1, <1>3 DEF Behind

(* An edge of the pointer leaves its flops at most one more behind.        *)
LEMMA BehindEdge ==
  ASSUME NEW w \in Nat \ {0}, NEW ptr \in 0 .. 2^w - 1, NEW sync1, NEW sync2, NEW lag \in Nat,
         Behind(ptr, sync1, sync2, lag, w), NEW inc \in BOOLEAN, NEW ptr2, NEW s1, NEW s2,
         ptr2 = (ptr + Inc(inc)) % 2^w,
         \/ s1 = sync1 /\ s2 = sync2
         \/ s1 \in Sampled(Gray(ptr, w), Gray(ptr2, w)) /\ s2 = sync1
  PROVE  Behind(ptr2, s1, s2, lag + Inc(inc), w)
<1>1. PICK a \in 0 .. lag, b \in 0 .. lag : Trail(ptr, sync1, sync2, a, b, w)
  BY DEF Behind
<1> DEFINE i == Inc(inc)
<1>2. i \in Nat
  BY DEF Inc
<1>3. /\ s1 = sync1 /\ s2 = sync2 => Trail(ptr2, s1, s2, a + i, b + i, w)
      /\ s1 \in Sampled(Gray(ptr, w), Gray(ptr2, w)) /\ s2 = sync1 =>
           \E c \in 0 .. i : Trail(ptr2, s1, s2, c, a + i, w)
  BY <1>1, TrailEdge
<1> HIDE DEF i
<1>4. a + i \in 0 .. lag + i /\ b + i \in 0 .. lag + i /\ 0 .. i \subseteq 0 .. lag + i
  BY <1>2
<1>5. QED
  BY <1>3, <1>4 DEF Behind, i

-----------------------------------------------------------------------------
(* The asynchronous queue.                                                 *)

Depth == fifo!size_lp
Lap == 2 * Depth          \* the pointers' modulus
PtrWidth == lg_size_p + 1

FifoTypeOK ==
  /\ mem \in [0 .. Depth - 1 -> FifoData \cup {Junk}]
  /\ w_reset_i \in BOOLEAN /\ r_reset_i \in BOOLEAN
  /\ w_flush \in 0 .. fifo!Flushed /\ r_flush \in 0 .. fifo!Flushed
  /\ q \in Seq(FifoData)
  /\ Pointer(w_ptr_r, w_ptr_p1_r, w_launch, PtrWidth)
  /\ Pointer(r_ptr_r, r_ptr_p1_r, r_launch, PtrWidth)

(* The pointers stay Len(q) apart, the slots between them hold q, and each *)
(* side lags behind the other by no more than is safe.  A side still in    *)
(* reset has not moved.                                                    *)
LiveInv ==
  /\ Len(q) <= Depth
  /\ w_ptr_r = (r_ptr_r + Len(q)) % Lap
  /\ Behind(w_ptr_r, w_sync1, w_sync2, Len(q), PtrWidth)
  /\ Behind(r_ptr_r, r_sync1, r_sync2, Depth - Len(q), PtrWidth)
  /\ \A i \in 1 .. Len(q) : mem[(r_ptr_r + i - 1) % Depth] = q[i]
  /\ w_reset_i => w_ptr_r = 0
  /\ r_reset_i => r_ptr_r = 0

(* How far the reset procedure has cleared a pointer and its synchroniser. *)
Cleared(flush, ptr, sync1, sync2) ==
  /\ flush >= 1 => ptr = 0
  /\ flush >= 2 => sync1 = {}
  /\ flush >= 3 => sync2 = {}

ResetInv ==
  /\ q = <<>>
  /\ w_flush >= 1 \/ r_flush >= 1 => fifo!resetting
  /\ Cleared(w_flush, r_ptr_r, r_sync1, r_sync2)
  /\ Cleared(r_flush, w_ptr_r, w_sync1, w_sync2)

FifoInv ==
  /\ FifoTypeOK
  /\ IF fifo!live THEN LiveInv ELSE ResetInv

-----------------------------------------------------------------------------
(* The credit counter.                                                     *)

(* The count of credits spent when held of them are left of ptr tokens.     *)
Balance(spent, ptr, held, N, C) == spent = (ptr * C - held) % (N * C)

(* A counter that has spent all but held of the credits the far end has    *)
(* room for; what it sees of the tokens is no older than credits in hand.  *)
Account(ptr, spent, held, w) ==
  /\ held \in Nat
  /\ Balance(spent, ptr, held, 2^w, CreditsPerToken)

CreditTypeOK ==
  /\ Pointer(c_ptr_r, c_ptr_p1_r, w_counter_gray_r, w_counter_width_lp)
  /\ r_counter_r \in credit!RCounters
  /\ c_reset_i \in BOOLEAN
  /\ c_flush \in 0 .. credit!Flushed
  /\ owed \in Nat

CreditLive ==
  /\ owed <= credit!Capacity
  /\ Account(c_ptr_r, r_counter_r, credit!Capacity - owed, w_counter_width_lp)
  /\ Behind(c_ptr_r, c_sync1, w_counter_gray_r_rsync,
            (credit!Capacity - owed) \div CreditsPerToken, w_counter_width_lp)

CreditInv ==
  /\ CreditTypeOK
  /\ ~c_reset_i => credit!live
  /\ c_reset_i /\ c_flush >= 2 => r_counter_r = credit!r_counter_reset
  /\ c_flush \in 1 .. credit!ResetEdges => c_ptr_r = 0 /\ owed = prepaid_tokens * CreditsPerToken
  /\ c_flush \in 2 .. credit!ResetEdges => c_sync1 = {}
  /\ c_flush \in 3 .. credit!ResetEdges => w_counter_gray_r_rsync = {}
  /\ credit!live => CreditLive

-----------------------------------------------------------------------------
(* The link.                                                               *)

OnTheWay == {i \in 1 .. ChannelDelay : chan[i] # None}

PosHeld == CreditsHeld(pos_spent, pos_ptr)
NegHeld == CreditsHeld(neg_spent, neg_ptr)
Returning == (core_credits_sent_r % CreditsPerToken) + token_edges * CreditsPerToken
Size == 2^lg_fifo_depth_p

LinkTypeOK ==
  /\ io_token_alternator_r \in 0 .. 2 * CreditsPerToken - 1
  /\ core_credits_sent_r \in 0 .. 2 * CreditsPerToken - 1
  /\ token_clk_i \in {0, 1}
  /\ token_edges \in Nat
  /\ pos_spent \in pos_credit_ctr!RCounters /\ neg_spent \in neg_credit_ctr!RCounters
  /\ Pointer(pos_ptr, pos_ptr_p1, pos_launch, TokenBits)
  /\ Pointer(neg_ptr, neg_ptr_p1, neg_launch, TokenBits)
  /\ Pointer(baf_w_ptr_r, baf_w_ptr_p1_r, baf_w_launch, lg_fifo_depth_p + 1)
  /\ Pointer(baf_r_ptr_r, baf_r_ptr_p1_r, baf_r_launch, lg_fifo_depth_p + 1)
  /\ chan \in [1 .. ChannelDelay -> Data \cup {None}]
  /\ sent \in Seq(Data)

BufferInv ==
  \E occ \in 0 .. Len(sent) :
    /\ Len(sent) = occ + Cardinality(OnTheWay)
    /\ baf_w_ptr_r = (baf_r_ptr_r + occ) % (2 * Size)
    /\ Behind(baf_w_ptr_r, baf_w_sync1, baf_w_sync2, occ, lg_fifo_depth_p + 1)

(* The sender is never told of credits for words whose leaving the         *)
(* receiver's buffer its write side has not been told of.                  *)
StaleInv ==
  \E pa, pb, na, nb, a, b \in 0 .. Size :
    /\ Trail(pos_ptr, pos_sync1, pos_sync2, pa, pb, TokenBits)
    /\ Trail(neg_ptr, neg_sync1, neg_sync2, na, nb, TokenBits)
    /\ Trail(baf_r_ptr_r, baf_r_sync1, baf_r_sync2, a, b, lg_fifo_depth_p + 1)
    /\ pb * CreditsPerToken <= PosHeld
    /\ nb * CreditsPerToken <= NegHeld
    /\ a <= Returning + (pa + na) * CreditsPerToken
    /\ b <= Returning + (pb + nb) * CreditsPerToken

LinkInv ==
  /\ LinkTypeOK
  /\ CreditsConserved
  /\ BufferInv
  /\ StaleInv

-----------------------------------------------------------------------------
(* Every crossing codes its pointers alike.                                *)
LEMMA FifoCode ==
  /\ \A n, w : fifo!bapg_wr!Gray(n, w) = Gray(n, w) /\ fifo!bapg_rd!Gray(n, w) = Gray(n, w)
  /\ \A x, y : fifo!bapg_wr!Sampled(x, y) = Sampled(x, y)
  /\ \A x, y : fifo!bapg_rd!Sampled(x, y) = Sampled(x, y)
  /\ \A x, y : fifo!bapg_wr!Xor(x, y) = Xor(x, y)
<1>1. \A n, w : fifo!bapg_wr!Gray(n, w) = Gray(n, w)
  BY DEF fifo!bapg_wr!Gray, fifo!bapg_wr!Bit, Gray, credit!bapg!Gray, credit!bapg!Bit
<1>2. \A n, w : fifo!bapg_rd!Gray(n, w) = Gray(n, w)
  BY DEF fifo!bapg_rd!Gray, fifo!bapg_rd!Bit, Gray, credit!bapg!Gray, credit!bapg!Bit
<1>3. \A x, y : fifo!bapg_wr!Sampled(x, y) = Sampled(x, y)
  BY DEF fifo!bapg_wr!Sampled, Sampled, credit!bapg!Sampled
<1>4. \A x, y : fifo!bapg_rd!Sampled(x, y) = Sampled(x, y)
  BY DEF fifo!bapg_rd!Sampled, Sampled, credit!bapg!Sampled
<1>5. \A x, y : fifo!bapg_wr!Xor(x, y) = Xor(x, y)
  BY DEF fifo!bapg_wr!Xor, Xor, credit!bapg!Xor
<1>6. QED
  BY <1>1, <1>2, <1>3, <1>4, <1>5

(* The sizes of the queue.                                                 *)
LEMMA Sizes ==
  /\ lg_size_p \in Nat \ {0} /\ PtrWidth \in Nat \ {0}
  /\ Depth \in Nat \ {0} /\ Depth = 2^lg_size_p
  /\ Lap \in Nat \ {0} /\ Lap = 2 * Depth /\ 2^PtrWidth = Lap
<1>1. lg_size_p \in Nat \ {0}
  BY FifoAssumption DEF FifoAssumption, fifo!FifoAssumption
<1>2. 2^lg_size_p \in Nat \ {0} /\ 2^(lg_size_p + 1) = 2 * 2^lg_size_p
  BY <1>1, PowNat, PowStep
<1>3. QED
  BY <1>1, <1>2 DEF PtrWidth, Depth, Lap, fifo!size_lp

AfterPut(put, d) == IF put THEN Append(q, d) ELSE q

(* What a cycle of either clock or of both does to a queue in use: a word  *)
(* put in, a word taken, and what the synchronisers catch.                 *)
Moves(put, take, enq, d) ==
  /\ w_ptr_r' = (w_ptr_r + Inc(put)) % Lap
  /\ r_ptr_r' = (r_ptr_r + Inc(take)) % Lap
  /\ \/ w_sync1' = w_sync1 /\ w_sync2' = w_sync2
     \/ w_sync1' \in Sampled(Gray(w_ptr_r, PtrWidth), Gray(w_ptr_r', PtrWidth))
           /\ w_sync2' = w_sync1
  /\ \/ r_sync1' = r_sync1 /\ r_sync2' = r_sync2
     \/ r_sync1' \in Sampled(Gray(r_ptr_r, PtrWidth), Gray(r_ptr_r', PtrWidth))
           /\ r_sync2' = r_sync1
  /\ put => enq
  /\ enq => Gray(w_ptr_r, PtrWidth) # Xor(r_sync2, {lg_size_p, lg_size_p - 1})
  /\ take => Gray(r_ptr_r, PtrWidth) # w_sync2
  /\ mem' = IF enq THEN [mem EXCEPT ![w_ptr_r % Depth] = d] ELSE mem
  /\ q' = IF take /\ AfterPut(put, d) # <<>> THEN Tail(AfterPut(put, d))
                                             ELSE AfterPut(put, d)

(* An edge of the writer's clock and one of the reader's, or none.         *)
LEMMA WriterEdge ==
  ASSUME FifoTypeOK, NEW enq \in BOOLEAN, NEW d, fifo!WSide(enq, d)
  PROVE  /\ Pointer(w_ptr_r', w_ptr_p1_r', w_launch', PtrWidth)
         /\ w_ptr_r' = IF w_reset_i THEN 0 ELSE (w_ptr_r + Inc(enq)) % Lap
         /\ enq => Gray(w_ptr_r, PtrWidth) # Xor(r_sync2, {lg_size_p, lg_size_p - 1})
         /\ mem' = IF enq THEN [mem EXCEPT ![w_ptr_r % Depth] = d] ELSE mem
<1>1. Pointer(w_ptr_r, w_ptr_p1_r, w_launch, PtrWidth) /\ w_reset_i \in BOOLEAN
  BY DEF FifoTypeOK
<1>2. IF w_reset_i
        THEN w_ptr_r' = 0 /\ w_ptr_p1_r' = 1 /\ w_launch' = {}
        ELSE /\ w_ptr_r' = IF enq THEN w_ptr_p1_r ELSE w_ptr_r
             /\ w_ptr_p1_r' = IF enq THEN (w_ptr_p1_r + 1) % 2^PtrWidth ELSE w_ptr_p1_r
             /\ w_launch' = IF enq THEN Gray(w_ptr_p1_r, PtrWidth) ELSE w_launch
  BY FifoCode DEF fifo!WSide, fifo!bapg_wr!WEdge, PtrWidth
<1>3. Pointer(w_ptr_r', w_ptr_p1_r', w_launch', PtrWidth)
  BY <1>1, <1>2, Sizes, PointerEdge
<1>4. w_ptr_r' = IF w_reset_i THEN 0 ELSE (w_ptr_r + Inc(enq)) % 2^PtrWidth
  BY <1>1, <1>2, Sizes, PointerEdge
<1>5. enq => w_launch # Xor(r_sync2, {lg_size_p, lg_size_p - 1})
  BY FifoCode DEF fifo!WSide, fifo!w_full_o, fifo!TopTwo
<1>6. mem' = IF enq THEN [mem EXCEPT ![w_ptr_r % Depth] = d] ELSE mem
  BY DEF fifo!WSide, Depth
<1>7. QED
  BY <1>1, <1>3, <1>4, <1>5, <1>6, Sizes DEF Pointer

(* The same of the read side.                                              *)
LEMMA ReaderEdge ==
  ASSUME FifoTypeOK, NEW deq \in BOOLEAN, fifo!RSide(deq)
  PROVE  /\ Pointer(r_ptr_r', r_ptr_p1_r', r_launch', PtrWidth)
         /\ r_ptr_r' = IF r_reset_i THEN 0 ELSE (r_ptr_r + Inc(deq)) % Lap
         /\ deq => Gray(r_ptr_r, PtrWidth) # w_sync2
<1>1. Pointer(r_ptr_r, r_ptr_p1_r, r_launch, PtrWidth) /\ r_reset_i \in BOOLEAN
  BY DEF FifoTypeOK
<1>2. IF r_reset_i
        THEN r_ptr_r' = 0 /\ r_ptr_p1_r' = 1 /\ r_launch' = {}
        ELSE /\ r_ptr_r' = IF deq THEN r_ptr_p1_r ELSE r_ptr_r
             /\ r_ptr_p1_r' = IF deq THEN (r_ptr_p1_r + 1) % 2^PtrWidth ELSE r_ptr_p1_r
             /\ r_launch' = IF deq THEN Gray(r_ptr_p1_r, PtrWidth) ELSE r_launch
  BY FifoCode DEF fifo!RSide, fifo!bapg_rd!WEdge, PtrWidth
<1>3. Pointer(r_ptr_r', r_ptr_p1_r', r_launch', PtrWidth)
  BY <1>1, <1>2, Sizes, PointerEdge
<1>4. r_ptr_r' = IF r_reset_i THEN 0 ELSE (r_ptr_r + Inc(deq)) % 2^PtrWidth
  BY <1>1, <1>2, Sizes, PointerEdge
<1>5. deq => r_launch # w_sync2
  BY DEF fifo!RSide, fifo!r_valid_o
<1>6. QED
  BY <1>1, <1>3, <1>4, <1>5, Sizes DEF Pointer

(* A pointer's slot, counted from another.                                 *)
LEMMA SlotShift ==
  ASSUME NEW x \in Int, NEW y \in Int
  PROVE  ((x % Lap) + y) % Depth = (x + y) % Depth /\ (x % Lap) % Depth = x % Depth
<1> DEFINE k == x \div Lap
           r == x % Lap
<1>1. Lap \in Nat \ {0} /\ Depth \in Nat \ {0} /\ Lap = 2 * Depth
  BY Sizes
<1>2. k \in Int /\ r \in 0 .. Lap - 1 /\ x = Lap * k + r
  BY <1>1, Division
<1> HIDE DEF k, r
<1> DEFINE j == 2 * k
<1>3. r \in Int /\ j \in Int /\ r + y \in Int /\ (r + y) + Depth * j = x + y /\ r + Depth * j = x
  BY <1>1, <1>2
<1> HIDE DEF j
<1>4. ((r + y) + Depth * j) % Depth = (r + y) % Depth
  BY <1>1, <1>3, ModPlus
<1>5. (r + Depth * j) % Depth = r % Depth
  BY <1>1, <1>3, ModPlus
<1>6. QED
  BY <1>3, <1>4, <1>5 DEF r

(* Places less than the modulus apart are different.                       *)
LEMMA ModApart ==
  ASSUME NEW x \in Int, NEW d \in Nat \ {0}, NEW a \in Int, NEW b \in Int,
         a < b, b < a + d
  PROVE  (x + a) % d # (x + b) % d
<1> DEFINE y == x + a
           z == x + b
<1>1. y \in Int /\ z \in Int /\ y < z /\ z < y + d
  OBVIOUS
<1> HIDE DEF y, z
<1>2. SUFFICES ASSUME y % d = z % d PROVE FALSE
  BY DEF y, z
<1> DEFINE j == y \div d
           k == z \div d
           r == y % d
<1>3. j \in Int /\ r \in Int /\ y = d * j + r
  BY <1>1, Division
<1>4. k \in Int /\ z = d * k + r
  BY <1>1, <1>2, Division
<1> HIDE DEF j, k, r
<1>5. d * (k - j) = z - y
  BY <1>3, <1>4
<1>6. k - j <= 0 \/ k - j >= 1
  BY <1>3, <1>4
<1>7. k - j <= 0 => d * (k - j) <= 0
  BY <1>3, <1>4
<1>8. k - j >= 1 => d * (k - j) >= d
  BY <1>3, <1>4
<1>9. d * (k - j) <= 0 \/ d * (k - j) >= d
  BY <1>6, <1>7, <1>8
<1>10. QED
  BY <1>1, <1>5, <1>9

(* What the flags say is true, although what they see of the other side    *)
(* is old.                                                                 *)
LEMMA FlagsTrue ==
  ASSUME FifoTypeOK, LiveInv
  PROVE  /\ Gray(r_ptr_r, PtrWidth) # w_sync2 =>
              /\ Len(q) - 1 \in Nat
              /\ Behind(w_ptr_r, w_sync1, w_sync2, Len(q) - 1, PtrWidth)
         /\ Gray(w_ptr_r, PtrWidth) # Xor(r_sync2, {lg_size_p, lg_size_p - 1}) =>
              /\ Depth - Len(q) - 1 \in Nat
              /\ Behind(r_ptr_r, r_sync1, r_sync2, Depth - Len(q) - 1, PtrWidth)
<1> DEFINE n == Len(q)
           w == w_ptr_r
           r == r_ptr_r
<1>1. /\ n \in Nat /\ n <= Depth /\ Depth - n \in Nat
      /\ r \in 0 .. Lap - 1 /\ w = (r + n) % Lap
      /\ Lap \in Nat \ {0} /\ PtrWidth \in Nat /\ 2^PtrWidth = Lap
      /\ Lap = 2 * Depth /\ Depth \in Nat \ {0}
  BY Sizes DEF FifoTypeOK, LiveInv, Pointer
<1>2. Behind(w, w_sync1, w_sync2, n, PtrWidth) /\ Behind(r, r_sync1, r_sync2, Depth - n, PtrWidth)
  BY DEF LiveInv
<1>3. r % Lap = r
  BY <1>1, ModSmall
<1> HIDE DEF n, w, r
<1>4. ASSUME Gray(r, PtrWidth) # w_sync2
      PROVE  n - 1 \in Nat /\ Behind(w, w_sync1, w_sync2, n - 1, PtrWidth)
  <2> DEFINE m == -n
             x == r + n
  <2>1. m \in Int /\ x \in Int /\ x + m = r
    BY <1>1
  <2>2. w - n = w + m
    <3>1. w \in Int
      <4>1. x % Lap \in Int
        BY <2>1, <1>1, Division
      <4>2. QED
        BY <4>1, <1>1
    <3>2. QED
      BY <3>1, <1>1
  <2>3. (w - n) % Lap = r
    <3>1. ((x % Lap) + m) % Lap = (x + m) % Lap
      <4> HIDE DEF x, m
      <4> QED
        BY <2>1, <1>1, ModAdd
    <3> HIDE DEF m
    <3>2. QED
      BY <3>1, <2>1, <2>2, <1>1, <1>3
  <2>4. w_sync2 # Gray((w - n) % 2^PtrWidth, PtrWidth)
    BY <1>1, <1>4, <2>3
  <2>5. QED
    BY <1>1, <1>2, <2>4, BehindFresh
<1>5. ASSUME Gray(w, PtrWidth) # Xor(r_sync2, {lg_size_p, lg_size_p - 1})
      PROVE  /\ Depth - n - 1 \in Nat
             /\ Behind(r, r_sync1, r_sync2, Depth - n - 1, PtrWidth)
  <2> DEFINE e == Depth - n
             x == r - e
             y == x % Lap
  <2>1. x \in Int /\ x + Depth = r + n /\ e \in Nat
    BY <1>1
  <2> HIDE DEF x, e
  <2>2. y \in 0 .. Lap - 1
    BY <2>1, <1>1, Division
  <2>3. (y + Depth) % Lap = w
    <3>1. ((x % Lap) + Depth) % Lap = (x + Depth) % Lap
      BY <2>1, <1>1, ModAdd
    <3>2. QED
      BY <3>1, <2>1, <1>1
  <2> HIDE DEF y
  <2>4. Gray(w, PtrWidth) = Xor(Gray(y, PtrWidth), {lg_size_p, lg_size_p - 1})
    <3>1. /\ lg_size_p \in Nat \ {0} /\ PtrWidth = lg_size_p + 1 /\ Depth = 2^lg_size_p
          /\ 2^(lg_size_p + 1) = Lap
      BY Sizes DEF PtrWidth
    <3>2. Gray((y + 2^lg_size_p) % 2^(lg_size_p + 1), lg_size_p + 1)
            = Xor(Gray(y, lg_size_p + 1), {lg_size_p, lg_size_p - 1})
      BY <3>1, <2>2, Opposite
    <3>3. QED
      BY <3>1, <3>2, <2>3
  <2>5. r_sync2 # Gray((r - e) % 2^PtrWidth, PtrWidth)
    BY <1>1, <1>5, <2>4 DEF x, y
  <2>6. e - 1 \in Nat /\ Behind(r, r_sync1, r_sync2, e - 1, PtrWidth)
    BY <1>1, <1>2, <2>1, <2>5, BehindFresh DEF e
  <2>7. QED
    BY <2>6 DEF e
<1>6. QED
  BY <1>4, <1>5 DEF n, w, r

(* The words between the pointers after a put, and then after a take.      *)
LEMMA WordsPut ==
  ASSUME FifoTypeOK, LiveInv, NEW put \in BOOLEAN, NEW enq \in BOOLEAN, put => enq,
         NEW d, enq => d \in FifoData /\ Len(q) < Depth,
         mem' = IF enq THEN [mem EXCEPT ![w_ptr_r % Depth] = d] ELSE mem
  PROVE  /\ mem' \in [0 .. Depth - 1 -> FifoData \cup {Junk}]
         /\ AfterPut(put, d) \in Seq(FifoData)
         /\ Len(AfterPut(put, d)) = Len(q) + Inc(put)
         /\ \A i \in 1 .. Len(AfterPut(put, d)) :
              mem'[(r_ptr_r + i - 1) % Depth] = AfterPut(put, d)[i]
<1> DEFINE n == Len(q)
           s == AfterPut(put, d)
           r == r_ptr_r
           slot(i) == (r + i - 1) % Depth
<1>1. /\ n \in Nat /\ q \in Seq(FifoData) /\ r \in Int /\ Depth \in Nat \ {0}
      /\ \A i \in 1 .. n : mem[slot(i)] = q[i]
      /\ mem \in [0 .. Depth - 1 -> FifoData \cup {Junk}]
      /\ w_ptr_r = (r + n) % Lap
  <2>1. n \in Nat /\ q \in Seq(FifoData) /\ Depth \in Nat \ {0}
    BY Sizes DEF FifoTypeOK
  <2>2. r \in Int
    BY Sizes DEF FifoTypeOK, Pointer
  <2>3. mem \in [0 .. Depth - 1 -> FifoData \cup {Junk}]
    BY DEF FifoTypeOK
  <2>4. w_ptr_r = (r + n) % Lap /\ \A i \in 1 .. n : mem[slot(i)] = q[i]
    BY DEF LiveInv
  <2>5. QED
    BY <2>1, <2>2, <2>3, <2>4
<1>2. w_ptr_r % Depth = slot(n + 1)
  <2>1. r + n \in Int /\ r + (n + 1) - 1 = r + n
    BY <1>1
  <2>2. ((r + n) % Lap) % Depth = (r + n) % Depth
    BY <2>1, SlotShift
  <2>3. QED
    BY <2>1, <2>2, <1>1
<1>3. \A i \in Int : slot(i) \in 0 .. Depth - 1
  <2>1. SUFFICES ASSUME NEW i \in Int PROVE slot(i) \in 0 .. Depth - 1
    OBVIOUS
  <2>2. r + i - 1 \in Int
    BY <1>1
  <2>3. QED
    BY ONLY <2>2, <1>1
<1>4. ASSUME NEW i \in 1 .. n, enq
      PROVE  slot(i) # slot(n + 1)
  <2> DEFINE a == i - 1
  <2>1. a \in Int /\ a < n /\ n < a + Depth /\ r + i - 1 = r + a /\ r + (n + 1) - 1 = r + n
    BY <1>1, <1>4
  <2> HIDE DEF a, n, r
  <2>2. (r + a) % Depth # (r + n) % Depth
    <3>1. /\ r \in Int /\ n \in Int /\ a \in Int /\ Depth \in Nat \ {0}
          /\ a < n /\ n < a + Depth
      BY <1>1, <2>1
    <3>2. QED
      BY ONLY <3>1, ModApart
  <2>3. QED
    BY <2>1, <2>2
<1>5. s \in Seq(FifoData) /\ Len(s) = n + Inc(put)
  BY <1>1 DEF Inc, AfterPut
<1>0. s = IF put THEN Append(q, d) ELSE q
  BY DEF AfterPut
<1> HIDE DEF slot, s
<1>6. mem' = IF enq THEN [mem EXCEPT ![slot(n + 1)] = d] ELSE mem
  BY <1>2
<1>7. mem' \in [0 .. Depth - 1 -> FifoData \cup {Junk}]
  BY <1>1, <1>6
<1>8. ASSUME NEW i \in 1 .. n
      PROVE  mem'[slot(i)] = q[i]
  <2>1. slot(i) \in 0 .. Depth - 1 /\ (enq => slot(i) # slot(n + 1))
    BY <1>3, <1>4
  <2>2. QED
    BY <2>1, <1>1, <1>6
<1>9. ASSUME put
      PROVE  mem'[slot(n + 1)] = d
  <2>1. slot(n + 1) \in 0 .. Depth - 1
    <3>1. n + 1 \in Int
      BY <1>1
    <3>2. QED
      BY <3>1, <1>3
  <2>2. QED
    BY <2>1, <1>1, <1>6, <1>9
<1>10. \A i \in 1 .. Len(s) : mem'[slot(i)] = s[i]
  <2>1. SUFFICES ASSUME NEW i \in 1 .. Len(s) PROVE mem'[slot(i)] = s[i]
    OBVIOUS
  <2>2. CASE i \in 1 .. n
    <3>1. s[i] = q[i]
      BY <1>0, <1>1, <2>2
    <3>2. QED
      BY <3>1, <2>2, <1>8
  <2>3. CASE i \notin 1 .. n
    <3>1. put /\ i = n + 1
      BY <2>1, <2>3, <1>1, <1>5 DEF Inc
    <3>2. s[i] = d
      BY <3>1, <1>0, <1>1
    <3>3. QED
      BY <3>1, <3>2, <1>9
  <2>4. QED
    BY <2>2, <2>3
<1>11. QED
  BY <1>5, <1>7, <1>10 DEF slot, s

(* A cycle of a queue in use is a step of a queue and leaves the pointers  *)
(* as they should be.                                                      *)
LEMMA LiveMoves ==
  ASSUME FifoTypeOK, LiveInv, NEW put \in BOOLEAN, NEW take \in BOOLEAN,
         NEW enq \in BOOLEAN, NEW d, enq => d \in FifoData, Moves(put, take, enq, d)
  PROVE  /\ mem' \in [0 .. Depth - 1 -> FifoData \cup {Junk}]
         /\ q' \in Seq(FifoData) /\ Len(q') <= Depth
         /\ w_ptr_r' = (r_ptr_r' + Len(q')) % Lap
         /\ Behind(w_ptr_r', w_sync1', w_sync2', Len(q'), PtrWidth)
         /\ Behind(r_ptr_r', r_sync1', r_sync2', Depth - Len(q'), PtrWidth)
         /\ \A i \in 1 .. Len(q') : mem'[(r_ptr_r' + i - 1) % Depth] = q'[i]
         /\ \/ q' = q
            \/ q' = Append(q, d) /\ Len(q) < Depth /\ d \in FifoData
            \/ q # <<>> /\ q' = Tail(q)
            \/ q # <<>> /\ q' = Append(Tail(q), d) /\ d \in FifoData
<1> DEFINE n == Len(q)
           p == Inc(put)
           t == Inc(take)
           s == AfterPut(put, d)
<1>1. /\ n \in Nat /\ n <= Depth /\ q \in Seq(FifoData)
      /\ w_ptr_r \in 0 .. Lap - 1 /\ r_ptr_r \in 0 .. Lap - 1
      /\ w_ptr_r = (r_ptr_r + n) % Lap
      /\ Lap \in Nat \ {0} /\ Depth \in Nat \ {0}
      /\ PtrWidth \in Nat \ {0} /\ 2^PtrWidth = Lap
  BY Sizes DEF FifoTypeOK, LiveInv, Pointer
<1>2. p \in {0, 1} /\ t \in {0, 1} /\ (put <=> p = 1) /\ (take <=> t = 1)
  BY DEF Inc
<1>3. n - t \in Nat /\ Behind(w_ptr_r, w_sync1, w_sync2, n - t, PtrWidth)
  <2>1. CASE take
    <3>1. Gray(r_ptr_r, PtrWidth) # w_sync2
      BY <2>1 DEF Moves
    <3>2. QED
      BY <2>1, <3>1, <1>2, FlagsTrue
  <2>2. CASE ~take
    <3>1. n - t = n
      BY <1>1, <1>2, <2>2
    <3>2. QED
      BY <3>1, <1>1 DEF LiveInv
  <2>3. QED
    BY <2>1, <2>2
<1>4. enq => n < Depth
  <2>1. ASSUME enq PROVE n < Depth
    <3>1. Depth - n - 1 \in Nat
      BY <2>1, FlagsTrue DEF Moves
    <3>2. QED
      BY <3>1, <1>1
  <2>2. QED
    BY <2>1
<1>5. /\ Depth - n - p \in Nat
      /\ Behind(r_ptr_r, r_sync1, r_sync2, Depth - n - p, PtrWidth)
  <2>1. CASE put
    <3>1. Gray(w_ptr_r, PtrWidth) # Xor(r_sync2, {lg_size_p, lg_size_p - 1})
      BY <2>1 DEF Moves
    <3>2. QED
      BY <2>1, <3>1, <1>2, FlagsTrue
  <2>2. CASE ~put
    <3>1. Depth - n - p = Depth - n /\ Depth - n \in Nat
      BY <1>1, <1>2, <2>2
    <3>2. QED
      BY <3>1 DEF LiveInv
  <2>3. QED
    BY <2>1, <2>2
<1>6. /\ mem' \in [0 .. Depth - 1 -> FifoData \cup {Junk}]
      /\ s \in Seq(FifoData) /\ Len(s) = n + p
      /\ \A i \in 1 .. Len(s) : mem'[(r_ptr_r + i - 1) % Depth] = s[i]
  <2>1. put => enq
    BY DEF Moves
  <2>2. mem' = IF enq THEN [mem EXCEPT ![w_ptr_r % Depth] = d] ELSE mem
    BY DEF Moves
  <2>3. QED
    BY <2>1, <2>2, <1>4, WordsPut
<1>7. take => n >= 1 /\ s # <<>>
  <2>1. ASSUME take PROVE n >= 1
    <3>1. n - 1 \in Nat
      BY <2>1, FlagsTrue DEF Moves
    <3>2. QED
      BY <3>1, <1>1
  <2>2. n >= 1 => Len(s) # 0
    BY <1>1, <1>2, <1>6
  <2>3. QED
    BY <2>1, <2>2
<1>8. q' = IF take THEN Tail(s) ELSE s
  BY <1>7 DEF Moves
<1>9. q' \in Seq(FifoData) /\ Len(q') = n + p - t
  BY <1>1, <1>2, <1>6, <1>7, <1>8
<1>10. \/ q' = q
       \/ q' = Append(q, d) /\ Len(q) < Depth /\ d \in FifoData
       \/ q # <<>> /\ q' = Tail(q)
       \/ q # <<>> /\ q' = Append(Tail(q), d) /\ d \in FifoData
  <2>1. take => q # <<>>
    BY <1>1, <1>7
  <2>2. put => n < Depth /\ d \in FifoData
    BY <1>4 DEF Moves
  <2>3. CASE put /\ take
    <3>1. Tail(Append(q, d)) = Append(Tail(q), d)
      BY <1>1, <2>1, <2>3
    <3>2. QED
      BY <3>1, <2>1, <2>2, <2>3, <1>8 DEF AfterPut
  <2>4. CASE put /\ ~take
    <3>1. q' = Append(q, d)
      BY <2>4, <1>8 DEF AfterPut
    <3>2. QED
      BY <3>1, <2>2, <2>4
  <2>5. CASE ~put /\ take
    <3>1. q' = Tail(q)
      BY <2>5, <1>8 DEF AfterPut
    <3>2. QED
      BY <3>1, <2>1, <2>5
  <2>6. CASE ~put /\ ~take
    <3>1. q' = q
      BY <2>6, <1>8 DEF AfterPut
    <3>2. QED
      BY <3>1
  <2>7. QED
    BY <2>3, <2>4, <2>5, <2>6
<1> HIDE DEF n, p, t, s
<1>11. w_ptr_r' = (w_ptr_r + p) % Lap /\ r_ptr_r' = (r_ptr_r + t) % Lap
  BY DEF Moves, p, t
<1>12. w_ptr_r' = (r_ptr_r' + (n + p - t)) % Lap
  <2> DEFINE x == r_ptr_r + n
             y == r_ptr_r + t
             z == n + p - t
  <2>1. x \in Int /\ y \in Int /\ z \in Int /\ p \in Int /\ x + p = y + z
    BY <1>1, <1>2
  <2> HIDE DEF x, y, z
  <2>2. ((x % Lap) + p) % Lap = (x + p) % Lap
    BY <2>1, <1>1, ModAdd
  <2>3. ((y % Lap) + z) % Lap = (y + z) % Lap
    BY <2>1, <1>1, ModAdd
  <2>4. QED
    BY <2>1, <2>2, <2>3, <1>1, <1>11 DEF x, y, z
<1>13. Behind(w_ptr_r', w_sync1', w_sync2', (n - t) + p, PtrWidth)
  <2>1. w_ptr_r' = (w_ptr_r + Inc(put)) % 2^PtrWidth
    BY <1>1, <1>11 DEF p
  <2>2. \/ w_sync1' = w_sync1 /\ w_sync2' = w_sync2
        \/ /\ w_sync1' \in Sampled(Gray(w_ptr_r, PtrWidth), Gray(w_ptr_r', PtrWidth))
           /\ w_sync2' = w_sync1
    BY DEF Moves
  <2>3. QED
    BY <1>1, <1>3, <2>1, <2>2, BehindEdge DEF p
<1>14. Behind(r_ptr_r', r_sync1', r_sync2', (Depth - n - p) + t, PtrWidth)
  <2>1. r_ptr_r' = (r_ptr_r + Inc(take)) % 2^PtrWidth
    BY <1>1, <1>11 DEF t
  <2>2. \/ r_sync1' = r_sync1 /\ r_sync2' = r_sync2
        \/ /\ r_sync1' \in Sampled(Gray(r_ptr_r, PtrWidth), Gray(r_ptr_r', PtrWidth))
           /\ r_sync2' = r_sync1
    BY DEF Moves
  <2>3. QED
    BY <1>1, <1>5, <2>1, <2>2, BehindEdge DEF t
<1>15. /\ (n - t) + p = Len(q') /\ n + p - t = Len(q')
       /\ (Depth - n - p) + t = Depth - Len(q') /\ Len(q') <= Depth
  BY <1>1, <1>2, <1>5, <1>9
<1>16. \A i \in 1 .. Len(q') : mem'[(r_ptr_r' + i - 1) % Depth] = q'[i]
  <2>1. SUFFICES ASSUME NEW i \in 1 .. Len(q')
                 PROVE  mem'[(r_ptr_r' + i - 1) % Depth] = q'[i]
    OBVIOUS
  <2> DEFINE y == r_ptr_r + t
             m == i - 1
             j == i + t
  <2>2. /\ y \in Int /\ m \in Int /\ j \in 1 .. Len(s) /\ y + m = r_ptr_r + j - 1
    BY <1>1, <1>2, <1>6, <1>9
  <2>3. q'[i] = s[j]
    BY <1>2, <1>6, <1>7, <1>8, <1>9
  <2>4. r_ptr_r' + i - 1 = (y % Lap) + m
    <3>1. y \in Int /\ Lap \in Nat \ {0}
      BY <2>2, <1>1
    <3>2. r_ptr_r' \in Int
      <4>1. y % Lap \in Int
        <5> HIDE DEF y
        <5> QED
          BY ONLY <3>1
      <4>2. QED
        BY <4>1, <1>11
    <3>3. r_ptr_r' = y % Lap
      BY <1>11
    <3>4. QED
      BY <3>2, <3>3
  <2> HIDE DEF y, m, j
  <2>5. ((y % Lap) + m) % Depth = (y + m) % Depth
    BY <2>2, SlotShift
  <2>6. QED
    BY <2>2, <2>3, <2>4, <2>5, <1>6
<1>17. QED
  BY <1>6, <1>9, <1>10, <1>12, <1>13, <1>14, <1>15, <1>16

(* Either clock's cycle, or both, whatever the resets: an edge of a side   *)
(* or none, and what the synchronisers catch.                              *)
Cycle(w, r, enq, deq, d) ==
  /\ enq => w /\ d \in FifoData
  /\ deq => r
  /\ IF w THEN fifo!WSide(enq, d) ELSE UNCHANGED fifo!wregs
  /\ IF r THEN fifo!RSide(deq) ELSE UNCHANGED fifo!rregs
  /\ IF r THEN fifo!bapg_wr!REdge ELSE w_sync1' = w_sync1 /\ w_sync2' = w_sync2
  /\ IF w THEN fifo!bapg_rd!REdge ELSE r_sync1' = r_sync1 /\ r_sync2' = r_sync2
  /\ w_reset_i' = w_reset_i /\ r_reset_i' = r_reset_i
  /\ q' = fifo!Received(deq, fifo!Sent(enq, d))
  /\ r_flush' = fifo!CountFlush(r_flush, w, r)
  /\ w_flush' = fifo!CountFlush(w_flush, r, w)

(* Every step of the queue is such a cycle.                                *)
LEMMA CycleOf ==
  ASSUME fifo!WClk \/ fifo!RClk \/ fifo!BothClks
  PROVE  \E w, r, enq, deq \in BOOLEAN : \E d : Cycle(w, r, enq, deq, d)
<1>1. CASE fifo!WClk
  <2>1. PICK enq \in BOOLEAN, d \in FifoData :
          /\ fifo!WSide(enq, d)
          /\ UNCHANGED <<fifo!rregs, fifo!resets>>
          /\ fifo!bapg_rd!REdge
          /\ fifo!bapg_wr!RHold
          /\ q' = fifo!Sent(enq, d)
          /\ r_flush' = fifo!CountFlush(r_flush, TRUE, FALSE)
          /\ w_flush' = fifo!CountFlush(w_flush, FALSE, TRUE)
    BY <1>1 DEF fifo!WClk
  <2>2. fifo!Received(FALSE, fifo!Sent(enq, d)) = fifo!Sent(enq, d)
    BY DEF fifo!Received
  <2>3. Cycle(TRUE, FALSE, enq, FALSE, d)
    BY <2>1, <2>2 DEF Cycle, fifo!resets, fifo!bapg_wr!RHold
  <2>4. QED
    BY <2>3
<1>2. CASE fifo!RClk
  <2>1. PICK deq \in BOOLEAN :
          /\ fifo!RSide(deq)
          /\ UNCHANGED <<fifo!wregs, fifo!resets>>
          /\ fifo!bapg_wr!REdge
          /\ fifo!bapg_rd!RHold
          /\ q' = fifo!Received(deq, q)
          /\ r_flush' = fifo!CountFlush(r_flush, FALSE, TRUE)
          /\ w_flush' = fifo!CountFlush(w_flush, TRUE, FALSE)
    BY <1>2 DEF fifo!RClk
  <2>2. fifo!Sent(FALSE, Junk) = q
    BY DEF fifo!Sent
  <2>3. Cycle(FALSE, TRUE, FALSE, deq, Junk)
    BY <2>1, <2>2 DEF Cycle, fifo!resets, fifo!bapg_rd!RHold
  <2>4. QED
    BY <2>3
<1>3. CASE fifo!BothClks
  <2>1. PICK enq \in BOOLEAN, deq \in BOOLEAN, d \in FifoData :
          /\ fifo!WSide(enq, d)
          /\ fifo!RSide(deq)
          /\ fifo!bapg_rd!REdge
          /\ fifo!bapg_wr!REdge
          /\ q' = fifo!Received(deq, fifo!Sent(enq, d))
          /\ r_flush' = fifo!CountFlush(r_flush, TRUE, TRUE)
          /\ w_flush' = fifo!CountFlush(w_flush, TRUE, TRUE)
          /\ UNCHANGED fifo!resets
    BY <1>3 DEF fifo!BothClks
  <2>2. Cycle(TRUE, TRUE, enq, deq, d)
    BY <2>1 DEF Cycle, fifo!resets
  <2>3. QED
    BY <2>2
<1>4. QED
  BY <1>1, <1>2, <1>3

(* What a cycle does to the pointers and the synchronisers, whatever state *)
(* the queue is in.                                                        *)
LEMMA CyclePointers ==
  ASSUME FifoTypeOK, NEW w \in BOOLEAN, NEW r \in BOOLEAN,
         NEW enq \in BOOLEAN, NEW deq \in BOOLEAN, NEW d, Cycle(w, r, enq, deq, d)
  PROVE  /\ Pointer(w_ptr_r', w_ptr_p1_r', w_launch', PtrWidth)
         /\ Pointer(r_ptr_r', r_ptr_p1_r', r_launch', PtrWidth)
         /\ w_ptr_r' = IF w /\ w_reset_i THEN 0 ELSE (w_ptr_r + Inc(enq)) % Lap
         /\ r_ptr_r' = IF r /\ r_reset_i THEN 0 ELSE (r_ptr_r + Inc(deq)) % Lap
         /\ enq => Gray(w_ptr_r, PtrWidth) # Xor(r_sync2, {lg_size_p, lg_size_p - 1})
         /\ deq => Gray(r_ptr_r, PtrWidth) # w_sync2
         /\ mem' = IF enq THEN [mem EXCEPT ![w_ptr_r % Depth] = d] ELSE mem
         /\ IF r
              THEN /\ w_sync1' \in Sampled(Gray(w_ptr_r, PtrWidth), Gray(w_ptr_r', PtrWidth))
                   /\ w_sync2' = w_sync1
              ELSE w_sync1' = w_sync1 /\ w_sync2' = w_sync2
         /\ IF w
              THEN /\ r_sync1' \in Sampled(Gray(r_ptr_r, PtrWidth), Gray(r_ptr_r', PtrWidth))
                   /\ r_sync2' = r_sync1
              ELSE r_sync1' = r_sync1 /\ r_sync2' = r_sync2
<1>1. /\ Pointer(w_ptr_r, w_ptr_p1_r, w_launch, PtrWidth)
      /\ Pointer(r_ptr_r, r_ptr_p1_r, r_launch, PtrWidth)
      /\ w_reset_i \in BOOLEAN /\ r_reset_i \in BOOLEAN
  BY DEF FifoTypeOK
<1>2. /\ w_ptr_r \in 0 .. Lap - 1 /\ r_ptr_r \in 0 .. Lap - 1
      /\ (w_ptr_r + 0) % Lap = w_ptr_r /\ (r_ptr_r + 0) % Lap = r_ptr_r
  <2>1. w_ptr_r \in 0 .. Lap - 1 /\ r_ptr_r \in 0 .. Lap - 1 /\ Lap \in Nat \ {0}
    BY <1>1, Sizes DEF Pointer
  <2>2. w_ptr_r + 0 = w_ptr_r /\ r_ptr_r + 0 = r_ptr_r
    BY <2>1
  <2>3. QED
    BY <2>1, <2>2, ModSmall
<1>3. /\ Pointer(w_ptr_r', w_ptr_p1_r', w_launch', PtrWidth)
      /\ w_ptr_r' = IF w /\ w_reset_i THEN 0 ELSE (w_ptr_r + Inc(enq)) % Lap
      /\ enq => Gray(w_ptr_r, PtrWidth) # Xor(r_sync2, {lg_size_p, lg_size_p - 1})
      /\ mem' = IF enq THEN [mem EXCEPT ![w_ptr_r % Depth] = d] ELSE mem
  <2>1. CASE w
    <3>1. fifo!WSide(enq, d)
      BY <2>1 DEF Cycle
    <3>2. QED
      BY <3>1, <2>1, WriterEdge
  <2>2. CASE ~w
    <3>1. /\ ~enq /\ w_ptr_r' = w_ptr_r /\ w_ptr_p1_r' = w_ptr_p1_r
          /\ w_launch' = w_launch /\ mem' = mem
      BY <2>2 DEF Cycle, fifo!wregs
    <3>2. QED
      BY <3>1, <2>2, <1>1, <1>2 DEF Inc
  <2>3. QED
    BY <2>1, <2>2
<1>4. /\ Pointer(r_ptr_r', r_ptr_p1_r', r_launch', PtrWidth)
      /\ r_ptr_r' = IF r /\ r_reset_i THEN 0 ELSE (r_ptr_r + Inc(deq)) % Lap
      /\ deq => Gray(r_ptr_r, PtrWidth) # w_sync2
  <2>1. CASE r
    <3>1. fifo!RSide(deq)
      BY <2>1 DEF Cycle
    <3>2. QED
      BY <3>1, <2>1, ReaderEdge
  <2>2. CASE ~r
    <3>1. /\ ~deq /\ r_ptr_r' = r_ptr_r /\ r_ptr_p1_r' = r_ptr_p1_r
          /\ r_launch' = r_launch
      BY <2>2 DEF Cycle, fifo!rregs
    <3>2. QED
      BY <3>1, <2>2, <1>1, <1>2 DEF Inc
  <2>3. QED
    BY <2>1, <2>2
<1>5. /\ w_launch = Gray(w_ptr_r, PtrWidth) /\ w_launch' = Gray(w_ptr_r', PtrWidth)
      /\ r_launch = Gray(r_ptr_r, PtrWidth) /\ r_launch' = Gray(r_ptr_r', PtrWidth)
  BY <1>1, <1>3, <1>4 DEF Pointer
<1>6. r => fifo!bapg_wr!REdge
  BY DEF Cycle
<1>7. w => fifo!bapg_rd!REdge
  BY DEF Cycle
<1>8. r => /\ w_sync1' \in Sampled(w_launch, w_launch')
           /\ w_sync2' = w_sync1
  BY <1>6, FifoCode DEF fifo!bapg_wr!REdge
<1>9. w => /\ r_sync1' \in Sampled(r_launch, r_launch')
           /\ r_sync2' = r_sync1
  BY <1>7, FifoCode DEF fifo!bapg_rd!REdge
<1>10. /\ ~r => w_sync1' = w_sync1 /\ w_sync2' = w_sync2
       /\ ~w => r_sync1' = r_sync1 /\ r_sync2' = r_sync2
  BY DEF Cycle
<1>11. QED
  BY <1>3, <1>4, <1>5, <1>8, <1>9, <1>10

(* In use: the resets that are still up hold their side at its start.      *)
LEMMA LiveCycle ==
  ASSUME FifoInv, fifo!live, NEW w \in BOOLEAN, NEW r \in BOOLEAN,
         NEW enq \in BOOLEAN, NEW deq \in BOOLEAN, NEW d, Cycle(w, r, enq, deq, d)
  PROVE  /\ FifoInv' /\ fifo!live'
         /\ \/ q' = q
            \/ q' = Append(q, d) /\ Len(q) < Depth /\ d \in FifoData
            \/ q # <<>> /\ q' = Tail(q)
            \/ q # <<>> /\ q' = Append(Tail(q), d) /\ d \in FifoData
<1> DEFINE put == enq /\ ~w_reset_i
           take == deq /\ ~r_reset_i
<1>1. FifoTypeOK /\ LiveInv /\ w_reset_i \in BOOLEAN /\ r_reset_i \in BOOLEAN
  BY DEF FifoInv, FifoTypeOK
<1>2. w_flush = 4 /\ r_flush = 4
  BY DEF fifo!live, fifo!Flushed, fifo!ResetEdges
<1>3. w_flush' = 4 /\ r_flush' = 4
  BY <1>2 DEF Cycle, fifo!CountFlush, fifo!Flushed, fifo!ResetEdges
<1>4. w_reset_i' = w_reset_i /\ r_reset_i' = r_reset_i
  BY DEF Cycle
<1>5. /\ w_ptr_r \in 0 .. Lap - 1 /\ r_ptr_r \in 0 .. Lap - 1 /\ Lap \in Nat \ {0}
      /\ (w_ptr_r + 0) % Lap = w_ptr_r /\ (r_ptr_r + 0) % Lap = r_ptr_r
  <2>1. w_ptr_r \in 0 .. Lap - 1 /\ r_ptr_r \in 0 .. Lap - 1 /\ Lap \in Nat \ {0}
    BY <1>1, Sizes DEF Pointer, FifoTypeOK
  <2>2. w_ptr_r + 0 = w_ptr_r /\ r_ptr_r + 0 = r_ptr_r
    BY <2>1
  <2>3. QED
    BY <2>1, <2>2, ModSmall
<1>6. /\ w_reset_i => w_ptr_r = 0
      /\ r_reset_i => r_ptr_r = 0
  BY <1>1 DEF LiveInv
<1>7. /\ put \in BOOLEAN /\ take \in BOOLEAN
      /\ put => enq /\ w
      /\ take => deq /\ r
  BY DEF Cycle
<1>8. w_ptr_r' = (w_ptr_r + Inc(put)) % Lap /\ (w_reset_i => w_ptr_r' = 0)
  <2>1. w_ptr_r' = IF w /\ w_reset_i THEN 0 ELSE (w_ptr_r + Inc(enq)) % Lap
    BY <1>1, CyclePointers
  <2>2. CASE w_reset_i
    <3>1. Inc(put) = 0 /\ w_ptr_r = 0
      BY <2>2, <1>6 DEF Inc
    <3>2. w_ptr_r' = 0
      <4>1. ~w => Inc(enq) = 0
        BY DEF Cycle, Inc
      <4>2. QED
        BY <4>1, <3>1, <2>1, <2>2, <1>5
    <3>3. QED
      BY <3>1, <3>2, <1>5
  <2>3. CASE ~w_reset_i
    BY <2>1, <2>3
  <2>4. QED
    BY <1>1, <2>2, <2>3
<1>9. r_ptr_r' = (r_ptr_r + Inc(take)) % Lap /\ (r_reset_i => r_ptr_r' = 0)
  <2>1. r_ptr_r' = IF r /\ r_reset_i THEN 0 ELSE (r_ptr_r + Inc(deq)) % Lap
    BY <1>1, CyclePointers
  <2>2. CASE r_reset_i
    <3>1. Inc(take) = 0 /\ r_ptr_r = 0
      BY <2>2, <1>6 DEF Inc
    <3>2. r_ptr_r' = 0
      <4>1. ~r => Inc(deq) = 0
        BY DEF Cycle, Inc
      <4>2. QED
        BY <4>1, <3>1, <2>1, <2>2, <1>5
    <3>3. QED
      BY <3>1, <3>2, <1>5
  <2>3. CASE ~r_reset_i
    BY <2>1, <2>3
  <2>4. QED
    BY <1>1, <2>2, <2>3
<1>10. q' = IF take /\ AfterPut(put, d) # <<>> THEN Tail(AfterPut(put, d))
                                               ELSE AfterPut(put, d)
  <2>1. fifo!Sent(enq, d) = AfterPut(put, d)
    BY DEF fifo!Sent, AfterPut
  <2>2. q' = fifo!Received(deq, fifo!Sent(enq, d))
    BY DEF Cycle
  <2>3. QED
    BY <2>1, <2>2 DEF fifo!Received
<1> HIDE DEF put, take
<1>11. Moves(put, take, enq, d)
  <2>1. ASSUME enq
        PROVE  Gray(w_ptr_r, PtrWidth) # Xor(r_sync2, {lg_size_p, lg_size_p - 1})
    <3>1. w /\ fifo!WSide(enq, d)
      BY <2>1 DEF Cycle
    <3>2. QED
      BY <3>1, <2>1, <1>1, WriterEdge
  <2>4. ASSUME deq
        PROVE  Gray(r_ptr_r, PtrWidth) # w_sync2
    <3>1. r /\ fifo!RSide(deq)
      BY <2>4 DEF Cycle
    <3>2. QED
      BY <3>1, <2>4, <1>1, ReaderEdge
  <2>5. mem' = IF enq THEN [mem EXCEPT ![w_ptr_r % Depth] = d] ELSE mem
    BY <1>1, CyclePointers
  <2>2. \/ w_sync1' = w_sync1 /\ w_sync2' = w_sync2
        \/ w_sync1' \in Sampled(Gray(w_ptr_r, PtrWidth), Gray(w_ptr_r', PtrWidth))
              /\ w_sync2' = w_sync1
    BY <1>1, CyclePointers
  <2>3. \/ r_sync1' = r_sync1 /\ r_sync2' = r_sync2
        \/ r_sync1' \in Sampled(Gray(r_ptr_r, PtrWidth), Gray(r_ptr_r', PtrWidth))
              /\ r_sync2' = r_sync1
    BY <1>1, CyclePointers
  <2>6. QED
    BY <2>1, <2>2, <2>3, <2>4, <2>5, <1>7, <1>8, <1>9, <1>10 DEF Moves
<1>12. enq => d \in FifoData
  BY DEF Cycle
<1>13. /\ mem' \in [0 .. Depth - 1 -> FifoData \cup {Junk}]
       /\ q' \in Seq(FifoData) /\ Len(q') <= Depth
       /\ w_ptr_r' = (r_ptr_r' + Len(q')) % Lap
       /\ Behind(w_ptr_r', w_sync1', w_sync2', Len(q'), PtrWidth)
       /\ Behind(r_ptr_r', r_sync1', r_sync2', Depth - Len(q'), PtrWidth)
       /\ \A i \in 1 .. Len(q') : mem'[(r_ptr_r' + i - 1) % Depth] = q'[i]
       /\ \/ q' = q
          \/ q' = Append(q, d) /\ Len(q) < Depth /\ d \in FifoData
          \/ q # <<>> /\ q' = Tail(q)
          \/ q # <<>> /\ q' = Append(Tail(q), d) /\ d \in FifoData
  BY <1>1, <1>7, <1>11, <1>12, LiveMoves
<1>14. LiveInv'
  BY <1>4, <1>8, <1>9, <1>13 DEF LiveInv
<1>15. FifoTypeOK'
  <2>1. /\ Pointer(w_ptr_r', w_ptr_p1_r', w_launch', PtrWidth)
        /\ Pointer(r_ptr_r', r_ptr_p1_r', r_launch', PtrWidth)
    BY <1>1, CyclePointers
  <2>2. w_flush' \in 0 .. fifo!Flushed /\ r_flush' \in 0 .. fifo!Flushed
    BY <1>3 DEF fifo!Flushed, fifo!ResetEdges
  <2>3. QED
    BY <2>1, <2>2, <1>1, <1>4, <1>13 DEF FifoTypeOK
<1>16. fifo!live'
  BY <1>3 DEF fifo!live, fifo!Flushed, fifo!ResetEdges
<1>17. QED
  BY <1>13, <1>14, <1>15, <1>16 DEF FifoInv

-----------------------------------------------------------------------------
(* The reset procedure, an edge at a time: one of the sending clock clears *)
(* the pointer, and those of the receiving one carry the zero across.      *)
FlushCount(n, sends, receives) ==
  IF n = 0 THEN IF sends THEN 1 ELSE 0
  ELSE IF receives /\ n < 4 THEN n + 1 ELSE n

Latched(receives, old, new, sync1, sync2, s1, s2) ==
  IF receives THEN s1 \in Sampled(old, new) /\ s2 = sync1
              ELSE s1 = sync1 /\ s2 = sync2

(* A pointer held in reset empties the synchronisers it feeds.             *)
LEMMA ClearEdge ==
  ASSUME NEW w \in Nat, NEW flush \in 0 .. 4, NEW ptr, NEW sync1, NEW sync2,
         Cleared(flush, ptr, sync1, sync2),
         NEW sends \in BOOLEAN, NEW receives \in BOOLEAN,
         NEW flush2, NEW ptr2, NEW s1, NEW s2,
         flush2 = FlushCount(flush, sends, receives),
         sends => ptr2 = 0, flush >= 1 => ptr2 = 0,
         Latched(receives, Gray(ptr, w), Gray(ptr2, w), sync1, sync2, s1, s2)
  PROVE  flush2 \in 0 .. 4 /\ Cleared(flush2, ptr2, s1, s2)
<1>1. /\ flush2 \in 0 .. 4
      /\ flush2 >= 1 => sends \/ flush >= 1
      /\ flush2 >= 2 => flush >= 2 \/ (flush >= 1 /\ receives)
      /\ flush2 >= 3 => flush >= 3 \/ (flush >= 2 /\ receives)
  BY DEF FlushCount
<1>2. flush2 >= 1 => ptr2 = 0
  BY <1>1
<1>3. \A x : x \in Sampled({}, {}) => x = {}
  BY DEF Sampled, credit!bapg!Sampled
<1>4. flush >= 1 /\ receives => s1 = {}
  <2>1. SUFFICES ASSUME flush >= 1, receives PROVE s1 = {}
    OBVIOUS
  <2>2. ptr = 0 /\ ptr2 = 0
    BY <2>1 DEF Cleared
  <2>3. s1 \in Sampled({}, {})
    BY <2>1, <2>2, GrayZero DEF Latched
  <2>4. QED
    BY <2>3, <1>3
<1>5. flush >= 2 => flush >= 1 /\ sync1 = {}
  BY DEF Cleared
<1>6. flush >= 3 => flush >= 2 /\ sync2 = {}
  BY DEF Cleared
<1>7. flush2 >= 2 => s1 = {}
  BY <1>1, <1>4, <1>5 DEF Latched
<1>8. flush2 >= 3 => s2 = {}
  BY <1>1, <1>5, <1>6 DEF Latched
<1>9. QED
  BY <1>1, <1>2, <1>7, <1>8 DEF Cleared

(* A queue that is through the procedure is in order and empty.            *)
LEMMA ThroughReset == FifoTypeOK /\ ResetInv /\ fifo!live => LiveInv
<1> SUFFICES ASSUME FifoTypeOK, ResetInv, fifo!live PROVE LiveInv
  OBVIOUS
<1>1. w_flush = 4 /\ r_flush = 4
  BY DEF fifo!live, fifo!Flushed, fifo!ResetEdges
<1>2. /\ q = <<>> /\ r_ptr_r = 0 /\ r_sync1 = {} /\ r_sync2 = {}
      /\ w_ptr_r = 0 /\ w_sync1 = {} /\ w_sync2 = {}
  BY <1>1 DEF ResetInv, Cleared
<1>3. Len(q) = 0 /\ Depth - Len(q) = Depth /\ Depth \in Nat /\ Lap \in Nat \ {0}
  BY <1>2, Sizes
<1>4. 0 = (0 + 0) % Lap
  <2>1. 0 + 0 = 0 /\ 0 \in 0 .. Lap - 1
    BY <1>3
  <2>2. QED
    BY <2>1, <1>3, ModSmall
<1>5. Behind(0, {}, {}, 0, PtrWidth) /\ Behind(0, {}, {}, Depth, PtrWidth)
  <2>1. PtrWidth \in Nat /\ 0 \in 0 .. 2^PtrWidth - 1 /\ 0 \in Nat
    BY Sizes
  <2>2. QED
    BY <2>1, <1>3, GrayZero, BehindStart
<1>6. \A i \in 1 .. Len(q) : mem[(r_ptr_r + i - 1) % Depth] = q[i]
  BY <1>3
<1>7. QED
  BY <1>2, <1>3, <1>4, <1>5, <1>6 DEF LiveInv

(* Not in use: the words of the client count for nothing.                  *)
LEMMA ResetCycle ==
  ASSUME FifoInv, ~fifo!live, NEW w \in BOOLEAN, NEW r \in BOOLEAN,
         NEW enq \in BOOLEAN, NEW deq \in BOOLEAN, NEW d, Cycle(w, r, enq, deq, d)
  PROVE  FifoInv' /\ q = <<>> /\ q' = <<>>
<1>1. FifoTypeOK /\ ResetInv
  BY DEF FifoInv
<1>2. w_flush \in 0 .. 4 /\ r_flush \in 0 .. 4
  BY <1>1 DEF FifoTypeOK, fifo!Flushed, fifo!ResetEdges
<1>3. q = <<>> /\ q' = <<>>
  BY <1>1 DEF ResetInv, Cycle, fifo!Sent, fifo!Received
<1>4. w_reset_i' = w_reset_i /\ r_reset_i' = r_reset_i
  BY DEF Cycle
<1>5. /\ Pointer(w_ptr_r', w_ptr_p1_r', w_launch', PtrWidth)
      /\ Pointer(r_ptr_r', r_ptr_p1_r', r_launch', PtrWidth)
  BY <1>1, CyclePointers
<1>6. mem' \in [0 .. Depth - 1 -> FifoData \cup {Junk}]
  <2>1. mem' = IF enq THEN [mem EXCEPT ![w_ptr_r % Depth] = d] ELSE mem
    BY <1>1, CyclePointers
  <2>2. enq => d \in FifoData
    BY DEF Cycle
  <2>3. mem \in [0 .. Depth - 1 -> FifoData \cup {Junk}]
    BY <1>1 DEF FifoTypeOK
  <2>4. QED
    BY <2>1, <2>2, <2>3
<1>7. CASE ~fifo!resetting
  <2>1. w_flush = 0 /\ r_flush = 0
    BY <1>1, <1>2, <1>7 DEF ResetInv
  <2>2. w_flush' = 0 /\ r_flush' = 0
    BY <2>1, <1>7 DEF Cycle, fifo!CountFlush
  <2>3. FifoTypeOK'
    BY <1>1, <1>3, <1>4, <1>5, <1>6, <2>2 DEF FifoTypeOK, fifo!Flushed, fifo!ResetEdges
  <2>4. ~fifo!live'
    BY <2>2 DEF fifo!live, fifo!Flushed, fifo!ResetEdges
  <2>5. ResetInv'
    BY <1>3, <2>2 DEF ResetInv, Cleared
  <2>6. QED
    BY <1>3, <2>3, <2>4, <2>5 DEF FifoInv
<1>8. CASE fifo!resetting
  <2>1. w_reset_i /\ r_reset_i
    BY <1>8 DEF fifo!resetting
  <2>2. fifo!resetting'
    BY <2>1, <1>4 DEF fifo!resetting
  <2>3. w_flush' = FlushCount(w_flush, r, w)
    BY <1>8 DEF FlushCount, Cycle, fifo!CountFlush, fifo!Flushed, fifo!ResetEdges
  <2>4. r_flush' = FlushCount(r_flush, w, r)
    BY <1>8 DEF FlushCount, Cycle, fifo!CountFlush, fifo!Flushed, fifo!ResetEdges
  <2>5. (w => w_ptr_r' = 0) /\ (r_flush >= 1 => w_ptr_r' = 0)
    <3>1. w => w_ptr_r' = 0
      <4>1. w_ptr_r' = IF w /\ w_reset_i THEN 0 ELSE (w_ptr_r + Inc(enq)) % Lap
        BY <1>1, CyclePointers
      <4>2. QED
        BY <4>1, <2>1
    <3>2. ~w => w_ptr_r' = w_ptr_r
      BY DEF Cycle, fifo!wregs
    <3>3. r_flush >= 1 => w_ptr_r = 0
      BY <1>1 DEF ResetInv, Cleared
    <3>4. QED
      BY <3>1, <3>2, <3>3
  <2>6. (r => r_ptr_r' = 0) /\ (w_flush >= 1 => r_ptr_r' = 0)
    <3>1. r => r_ptr_r' = 0
      <4>1. r_ptr_r' = IF r /\ r_reset_i THEN 0 ELSE (r_ptr_r + Inc(deq)) % Lap
        BY <1>1, CyclePointers
      <4>2. QED
        BY <4>1, <2>1
    <3>2. ~r => r_ptr_r' = r_ptr_r
      BY DEF Cycle, fifo!rregs
    <3>3. w_flush >= 1 => r_ptr_r = 0
      BY <1>1 DEF ResetInv, Cleared
    <3>4. QED
      BY <3>1, <3>2, <3>3
  <2>7. /\ Cleared(w_flush, r_ptr_r, r_sync1, r_sync2)
        /\ Cleared(r_flush, w_ptr_r, w_sync1, w_sync2)
        /\ PtrWidth \in Nat
    BY <1>1, Sizes DEF ResetInv
  <2>8. Latched(w, Gray(r_ptr_r, PtrWidth), Gray(r_ptr_r', PtrWidth),
                r_sync1, r_sync2, r_sync1', r_sync2')
    BY <1>1, CyclePointers DEF Latched
  <2>9. Latched(r, Gray(w_ptr_r, PtrWidth), Gray(w_ptr_r', PtrWidth),
                w_sync1, w_sync2, w_sync1', w_sync2')
    BY <1>1, CyclePointers DEF Latched
  <2>10. w_flush' \in 0 .. 4 /\ Cleared(w_flush', r_ptr_r', r_sync1', r_sync2')
    BY <1>2, <2>3, <2>6, <2>7, <2>8, ClearEdge
  <2>11. r_flush' \in 0 .. 4 /\ Cleared(r_flush', w_ptr_r', w_sync1', w_sync2')
    BY <1>2, <2>4, <2>5, <2>7, <2>9, ClearEdge
  <2>12. FifoTypeOK'
    BY <1>1, <1>3, <1>4, <1>5, <1>6, <2>10, <2>11
    DEF FifoTypeOK, fifo!Flushed, fifo!ResetEdges
  <2>13. ResetInv'
    BY <1>3, <2>2, <2>10, <2>11 DEF ResetInv
  <2>14. fifo!live' => LiveInv'
    BY <2>12, <2>13, ThroughReset, PTL
  <2>15. QED
    BY <1>3, <2>12, <2>13, <2>14 DEF FifoInv
<1>9. QED
  BY <1>7, <1>8

(* What a step does to the words in flight: a queue's step, or a reset.    *)
QueueStep ==
  \/ q' = q
  \/ \E d \in FifoData : Len(q) < Depth /\ q' = Append(q, d)
  \/ q # <<>> /\ q' = Tail(q)
  \/ \E d \in FifoData : q # <<>> /\ q' = Append(Tail(q), d)
  \/ q' = <<>>

(* The invariant holds after power on.                                     *)
LEMMA FifoStart == fifo!Init => FifoInv
<1> SUFFICES ASSUME fifo!Init PROVE FifoInv
  OBVIOUS
<1>1. PtrWidth \in Nat \ {0} /\ Lap \in Nat \ {0} /\ 2^PtrWidth = Lap /\ 1 < Lap
      /\ Depth \in Nat \ {0}
  BY Sizes
<1>2. Pointer(0, 1, {}, PtrWidth)
  <2>1. 0 + 1 = 1 /\ 1 \in 0 .. Lap - 1 /\ 0 \in 0 .. Lap - 1
    BY <1>1
  <2>2. 1 % Lap = 1
    BY <2>1, <1>1, ModSmall
  <2>3. Gray(0, PtrWidth) = {}
    BY <1>1, GrayZero
  <2>4. QED
    BY <1>1, <2>1, <2>2, <2>3 DEF Pointer
<1>3. mem \in [0 .. Depth - 1 -> FifoData \cup {Junk}]
  BY DEF fifo!Init, fifo!Addrs, Depth
<1>4. q \in Seq(FifoData)
  BY DEF fifo!Init
<1>5. FifoTypeOK
  BY <1>2, <1>3, <1>4 DEF FifoTypeOK, fifo!Init, fifo!Flushed, fifo!ResetEdges
<1>6. ResetInv
  BY DEF fifo!Init, ResetInv, fifo!resetting, Cleared
<1>7. ~fifo!live
  BY DEF fifo!Init, fifo!live, fifo!Flushed, fifo!ResetEdges
<1>8. QED
  BY <1>5, <1>6, <1>7 DEF FifoInv

(* Every step keeps the invariant, and is one of the abstract queue.       *)
LEMMA FifoStep ==
  FifoInv /\ [fifo!Next]_(fifo!vars) => FifoInv' /\ QueueStep
<1> SUFFICES ASSUME FifoInv, [fifo!Next]_(fifo!vars)
             PROVE  FifoInv' /\ QueueStep
  OBVIOUS
<1>1. CASE fifo!WClk \/ fifo!RClk \/ fifo!BothClks
  <2>0. PICK w, r, enq, deq \in BOOLEAN : \E d : Cycle(w, r, enq, deq, d)
    BY <1>1, CycleOf
  <2>1. PICK d : Cycle(w, r, enq, deq, d)
    BY <2>0
  <2>2. CASE fifo!live
    <3>1. /\ FifoInv'
          /\ \/ q' = q
             \/ q' = Append(q, d) /\ Len(q) < Depth /\ d \in FifoData
             \/ q # <<>> /\ q' = Tail(q)
             \/ q # <<>> /\ q' = Append(Tail(q), d) /\ d \in FifoData
      BY <2>1, <2>2, LiveCycle
    <3>2. QED
      BY <3>1 DEF QueueStep
  <2>3. CASE ~fifo!live
    <3>1. FifoInv' /\ q' = q
      BY <2>1, <2>3, ResetCycle
    <3>2. QED
      BY <3>1 DEF QueueStep
  <2>4. QED
    BY <2>2, <2>3
<1>2. CASE fifo!AssertReset
  <2>1. /\ UNCHANGED <<fifo!wregs, fifo!rregs, r_sync1, r_sync2, w_sync1, w_sync2>>
        /\ w_flush' = 0 /\ r_flush' = 0 /\ q' = <<>>
    BY <1>2 DEF fifo!AssertReset
  <2>2. w_reset_i' \in BOOLEAN /\ r_reset_i' \in BOOLEAN
    BY <1>2 DEF fifo!AssertReset, FifoInv, FifoTypeOK
  <2>3. FifoTypeOK'
    BY <2>1, <2>2
    DEF FifoInv, FifoTypeOK, fifo!wregs, fifo!rregs, fifo!Flushed, fifo!ResetEdges
  <2>4. ResetInv' /\ ~fifo!live'
    BY <2>1 DEF ResetInv, Cleared, fifo!live, fifo!Flushed, fifo!ResetEdges
  <2>5. QED
    BY <2>1, <2>3, <2>4 DEF FifoInv, QueueStep
<1>3. CASE fifo!DeassertReset
  <2>1. /\ UNCHANGED <<fifo!wregs, fifo!rregs, r_sync1, r_sync2, w_sync1, w_sync2>>
        /\ w_flush' = w_flush /\ r_flush' = r_flush /\ q' = q
        /\ fifo!live
    BY <1>3 DEF fifo!DeassertReset
  <2>2. /\ w_reset_i' \in BOOLEAN /\ (w_reset_i' => w_reset_i)
        /\ r_reset_i' \in BOOLEAN /\ (r_reset_i' => r_reset_i)
    <3>1. w_reset_i \in BOOLEAN /\ r_reset_i \in BOOLEAN
      BY DEF FifoInv, FifoTypeOK
    <3>2. CASE w_reset_i /\ w_reset_i' = FALSE /\ r_reset_i' = r_reset_i
      BY <3>1, <3>2
    <3>3. CASE r_reset_i /\ r_reset_i' = FALSE /\ w_reset_i' = w_reset_i
      BY <3>1, <3>3
    <3>4. QED
      BY <1>3, <3>2, <3>3 DEF fifo!DeassertReset
  <2>3. FifoTypeOK /\ LiveInv
    BY <2>1 DEF FifoInv
  <2>4. FifoTypeOK'
    BY <2>1, <2>2, <2>3 DEF FifoTypeOK, fifo!wregs, fifo!rregs
  <2>5. LiveInv'
    BY <2>1, <2>2, <2>3 DEF LiveInv, fifo!wregs, fifo!rregs
  <2>6. fifo!live'
    BY <2>1 DEF fifo!live
  <2>7. QED
    BY <2>1, <2>4, <2>5, <2>6 DEF FifoInv, QueueStep
<1>4. CASE UNCHANGED fifo!vars
  <2>1. /\ w_ptr_r' = w_ptr_r /\ w_ptr_p1_r' = w_ptr_p1_r /\ w_launch' = w_launch
        /\ mem' = mem /\ r_sync1' = r_sync1 /\ r_sync2' = r_sync2
        /\ r_ptr_r' = r_ptr_r /\ r_ptr_p1_r' = r_ptr_p1_r /\ r_launch' = r_launch
        /\ w_sync1' = w_sync1 /\ w_sync2' = w_sync2
        /\ w_reset_i' = w_reset_i /\ r_reset_i' = r_reset_i
        /\ w_flush' = w_flush /\ r_flush' = r_flush /\ q' = q
    BY <1>4 DEF fifo!vars, fifo!wregs, fifo!rregs, fifo!resets
  <2>2. (fifo!live' <=> fifo!live) /\ (fifo!resetting' <=> fifo!resetting)
    BY <2>1 DEF fifo!live, fifo!resetting
  <2>3. FifoTypeOK => FifoTypeOK'
    BY <2>1 DEF FifoTypeOK
  <2>4. LiveInv => LiveInv'
    BY <2>1 DEF LiveInv
  <2>5. ResetInv => ResetInv'
    BY <2>1, <2>2 DEF ResetInv
  <2>6. QED
    BY <2>1, <2>2, <2>3, <2>4, <2>5 DEF FifoInv, QueueStep
<1>5. QED
  BY <1>1, <1>2, <1>3, <1>4 DEF fifo!Next

(* What lies between the pointers is what is in flight.                    *)
HoldsWords == fifo!contents = q

(* The words between the pointers are those in flight.                     *)
LEMMA FifoContents == FifoInv => HoldsWords
<1> SUFFICES ASSUME FifoInv PROVE fifo!contents = q
  BY DEF HoldsWords
<1>1. CASE ~fifo!live
  BY <1>1 DEF FifoInv, ResetInv, fifo!contents
<1>2. CASE fifo!live
  <2> DEFINE n == Len(q)
             r == r_ptr_r
             x == r + n
             m == -r
  <2>1. /\ n \in Nat /\ n <= Depth /\ r \in 0 .. Lap - 1 /\ w_ptr_r = x % Lap
        /\ Lap \in Nat \ {0} /\ Lap = 2 * Depth /\ Depth \in Nat \ {0}
        /\ q \in Seq(FifoData)
    BY <1>2, Sizes DEF FifoInv, FifoTypeOK, LiveInv, Pointer
  <2>2. x \in Int /\ m \in Int /\ x + m = n /\ n \in 0 .. Lap - 1
    BY <2>1
  <2>3. w_ptr_r - r_ptr_r = (x % Lap) + m
    <3>1. x % Lap \in Int
      <4> HIDE DEF x
      <4>1. x \in Int /\ Lap \in Nat \ {0}
        BY <2>1, <2>2
      <4>2. QED
        BY ONLY <4>1
    <3>2. QED
      BY <3>1, <2>1
  <2>4. fifo!Occupancy = (w_ptr_r - r_ptr_r) % Lap
    BY DEF fifo!Occupancy, Lap, Depth
  <2>5. fifo!Occupancy = n
    <3> HIDE DEF x, m, n
    <3>1. ((x % Lap) + m) % Lap = (x + m) % Lap
      BY <2>1, <2>2, ModAdd
    <3>2. n % Lap = n
      BY <2>1, <2>2, ModSmall
    <3>3. QED
      BY <2>2, <2>3, <2>4, <3>1, <3>2
  <2>6. fifo!contents = [i \in 1 .. n |-> mem[(r_ptr_r + i - 1) % Depth]]
    BY <1>2, <2>5 DEF fifo!contents, Depth
  <2>7. \A i \in 1 .. n : mem[(r_ptr_r + i - 1) % Depth] = q[i]
    BY <1>2 DEF FifoInv, LiveInv
  <2>8. fifo!contents = [i \in 1 .. n |-> q[i]]
    BY <2>6, <2>7
  <2>9. QED
    BY <2>1, <2>8
<1>3. QED
  BY <1>1, <1>2

(* Whatever unit is under test, the queue takes its own steps or none.     *)
LEMMA FifoAlone ==
  /\ CrossingsInit => fifo!Init
  /\ [CrossingsNext]_all => [fifo!Next]_(fifo!vars)
<1>1. CrossingsInit => fifo!Init
  BY DEF CrossingsInit
<1>2. ASSUME UNCHANGED fifo_vars PROVE UNCHANGED fifo!vars
  BY <1>2 DEF fifo_vars, fifo!vars, fifo!wregs, fifo!rregs, fifo!resets
<1>3. ASSUME [CrossingsNext]_all PROVE [fifo!Next]_(fifo!vars)
  <2>1. CASE UNCHANGED all
    BY <1>2, <2>1 DEF all
  <2>2. CASE CrossingsNext
    BY <1>2, <2>2, Zenon DEF CrossingsNext, OnlyCredit, OnlyLink
  <2>3. QED
    BY <1>3, <2>1, <2>2
<1>4. QED
  BY <1>1, <1>3

(* The pointers, what each side knows of the other's and the words in      *)
(* memory stay in step with the words in flight, for every depth.          *)
THEOREM AsyncFifoInvariant == CrossingsSpec => []FifoInv
BY FifoStart, FifoStep, FifoAlone, PTL DEF CrossingsSpec

(* After a step, too, the words between the pointers are those in flight. *)
LEMMA FifoContentsNext == FifoInv' => HoldsWords'
BY FifoContents, PTL

(* A step of the words in flight is one of the abstract queue.             *)
LEMMA FifoRefines ==
  FifoInv /\ FifoInv' /\ QueueStep => [fifo!Fifo!Next]_(fifo!contents)
<1> SUFFICES ASSUME FifoInv, FifoInv', QueueStep
             PROVE  [fifo!Fifo!Next]_(fifo!contents)
  OBVIOUS
<1>1. fifo!contents = q /\ fifo!contents' = q'
  BY FifoContents, FifoContentsNext DEF HoldsWords
<1>2. CASE q' = q
  BY <1>1, <1>2
<1>3. ASSUME NEW d \in FifoData, Len(q) < Depth, q' = Append(q, d)
      PROVE  fifo!Fifo!Next
  BY <1>1, <1>3 DEF fifo!Fifo!Next, fifo!Fifo!Enq, Depth
<1>4. CASE q # <<>> /\ q' = Tail(q)
  BY <1>1, <1>4 DEF fifo!Fifo!Next, fifo!Fifo!Deq
<1>5. ASSUME NEW d \in FifoData, q # <<>>, q' = Append(Tail(q), d)
      PROVE  fifo!Fifo!Next
  BY <1>1, <1>5 DEF fifo!Fifo!Next, fifo!Fifo!EnqDeq
<1>6. CASE q' = <<>>
  BY <1>1, <1>6 DEF fifo!Fifo!Next, fifo!Fifo!Reset
<1>7. QED
  BY <1>2, <1>3, <1>4, <1>5, <1>6 DEF QueueStep

(* bsg_async_fifo is a queue: no word is lost, repeated, overwritten or    *)
(* read before it is there, whatever the synchronisers catch, for every    *)
(* depth.                                                                  *)
THEOREM AsyncFifoIsAQueue == CrossingsSpec => AsyncImplementsFifo
<1>1. CrossingsInit => fifo!Fifo!Init
  <2>1. ASSUME CrossingsInit PROVE fifo!contents = <<>>
    <3>1. fifo!Init
      BY <2>1, FifoAlone
    <3>2. fifo!contents = q
      BY <3>1, FifoStart, FifoContents DEF HoldsWords
    <3>3. q = <<>>
      BY <3>1 DEF fifo!Init
    <3>4. QED
      BY <3>2, <3>3
  <2>2. QED
    BY <2>1 DEF fifo!Fifo!Init
<1>2. QED
  BY <1>1, FifoStep, FifoAlone, FifoRefines, AsyncFifoInvariant, PTL
  DEF CrossingsSpec, AsyncImplementsFifo, fifo!ImplementsFifo, fifo!Fifo!Spec

-----------------------------------------------------------------------------
(* A count of N tokens of C credits each.                                  *)
LEMMA LowDigits ==
  ASSUME NEW N \in Nat \ {0}, NEW C \in Nat \ {0}, NEW x \in Int
  PROVE  N * C \in Nat \ {0} /\ (x % (N * C)) % C = x % C
<1> DEFINE M == N * C
           k == x \div M
           r == x % M
           j == N * k
<1>1. M \in Nat \ {0}
  BY SMTT(30)
<1> HIDE DEF M
<1>2. k \in Int /\ r \in 0 .. M - 1 /\ x = M * k + r
  BY <1>1, Division
<1> HIDE DEF k, r
<1>3. M * k = C * j
  BY <1>2, SMTT(30) DEF M
<1>4. j \in Int /\ r \in Int /\ x = r + C * j
  BY <1>1, <1>2, <1>3
<1> HIDE DEF j
<1>5. (r + C * j) % C = r % C
  BY <1>4, ModPlus
<1>6. QED
  BY <1>1, <1>4, <1>5 DEF M, r

(* The digits above a token, of a count that wraps.                        *)
LEMMA HighDigits ==
  ASSUME NEW N \in Nat \ {0}, NEW C \in Nat \ {0}, NEW y \in Int
  PROVE  ((C * y) % (N * C)) \div C = y % N
<1> DEFINE M == N * C
           k == y \div N
           r == y % N
           x == C * y
           z == C * r
<1>1. k \in Int /\ r \in 0 .. N - 1 /\ y = N * k + r
  BY Division
<1> HIDE DEF k, r
<1>2. M \in Nat \ {0} /\ x \in Int /\ z \in Nat
  BY <1>1, LowDigits
<1>3. x = M * k + z
  BY <1>1, SMTT(30)
<1>4. z < M
  <2>1. r + 1 <= N
    BY <1>1
  <2>2. C * (r + 1) <= C * N
    BY <2>1, <1>1, SMTT(30)
  <2>3. C * (r + 1) = z + C /\ C * N = M
    BY <1>1, SMTT(30)
  <2>4. QED
    BY <1>2, <2>2, <2>3
<1> HIDE DEF M, x
<1>5. x % M = z
  <2>1. z \in 0 .. M - 1
    BY <1>2, <1>4
  <2> HIDE DEF z
  <2>2. QED
    BY <2>1, <1>1, <1>2, <1>3, DivisionUnique
<1>6. z \div C = r
  <2>1. z = C * r + 0 /\ 0 \in 0 .. C - 1 /\ r \in Int /\ z \in Int
    BY <1>1, <1>2
  <2> HIDE DEF z
  <2>2. QED
    BY <2>1, DivisionUnique
<1>7. QED
  BY <1>5, <1>6 DEF M, x, r

TokenOver(spent, tokens, C) == spent % C = 0 /\ spent \div C = tokens

(* With nothing left of b tokens the counter is at the end of a token, the *)
(* one b before the last that came.                                        *)
LEMMA SpentOut ==
  ASSUME NEW N \in Nat \ {0}, NEW C \in Nat \ {0}, NEW ptr \in Int, NEW b \in Int,
         NEW held, held = b * C, NEW spent, Balance(spent, ptr, held, N, C),
         NEW tokens, tokens = (ptr - b) % N
  PROVE  TokenOver(spent, tokens, C)
<1> DEFINE y == ptr - b
           x == C * y
           M == N * C
<1>1. y \in Int /\ x \in Int /\ x = ptr * C - b * C /\ 0 \in 0 .. C - 1 /\ M \in Nat \ {0}
  <2>1. M \in Nat \ {0}
    BY LowDigits
  <2>2. x = ptr * C - b * C
    BY SMTT(30)
  <2>3. QED
    BY <2>1, <2>2
<1>2. spent = x % M
  BY <1>1 DEF Balance
<1>3. (x % M) % C = x % C
  <2> HIDE DEF x
  <2>1. QED
    BY <1>1, LowDigits
<1>4. x % C = 0
  <2> HIDE DEF y
  <2>1. x = C * y + 0
    BY <1>1
  <2> HIDE DEF x
  <2>2. C \in Nat \ {0}
    OBVIOUS
  <2>3. QED
    BY ONLY <1>1, <2>1, <2>2, DivisionUnique
<1>5. (x % M) \div C = y % N
  <2> HIDE DEF y
  <2>1. QED
    BY <1>1, HighDigits
<1> HIDE DEF x, M
<1>6. QED
  BY <1>2, <1>3, <1>4, <1>5 DEF TokenOver

(* How many whole tokens there are in so many credits.                     *)
LEMMA AtMost ==
  ASSUME NEW C \in Nat \ {0}, NEW b \in Nat, NEW held \in Nat
  PROVE  (b <= held \div C <=> b * C <= held) /\ held \div C \in Nat
<1> DEFINE h == held \div C
           l == held % C
<1>0. held \in Int /\ C \in Nat \ {0} /\ 0 \in Nat
  OBVIOUS
<1>1. h \in Int /\ l \in 0 .. C - 1 /\ held = C * h + l
  BY ONLY <1>0, Division DEF h, l
<1> HIDE DEF h, l
<1>2. ASSUME NEW c \in Nat PROVE c <= h <=> c * C <= held
  <2>1. CASE c <= h
    <3>1. c * C <= C * h
      BY <2>1, <1>1, SMTT(30)
    <3>2. QED
      BY <3>1, <2>1, <1>1
  <2>2. CASE ~(c <= h)
    <3>1. h + 1 <= c
      BY <2>2, <1>1
    <3>2. C * (h + 1) <= c * C /\ C * (h + 1) = C * h + C
      BY <3>1, <1>1, SMTT(30)
    <3>3. C * h \in Int /\ c * C \in Int
      BY <1>1
    <3>4. QED
      BY <3>2, <3>3, <2>2, <1>1
  <2>3. QED
    BY <2>1, <2>2
<1>3. 0 <= h
  <2>1. 0 * C <= held
    OBVIOUS
  <2>2. QED
    BY <2>1, <1>0, <1>2
<1>4. QED
  BY <1>1, <1>2, <1>3 DEF h

(* Spending one credit and being given a token's worth.                    *)
LEMMA NewAccount ==
  ASSUME NEW N \in Nat \ {0}, NEW C \in Nat \ {0}, NEW ptr \in Int, NEW held \in Int,
         NEW spent, Balance(spent, ptr, held, N, C), NEW i \in Int, NEW s \in Int,
         NEW spent2, spent2 = (spent + s) % (N * C), NEW ptr2, ptr2 = (ptr + i) % N,
         NEW held2, held2 = held - s + i * C
  PROVE  Balance(spent2, ptr2, held2, N, C)
<1> DEFINE M == N * C
           x == ptr * C - held
           p == ptr + i
           k == p \div N
           r == p % N
           y == r * C - (held - s + i * C)
<1>1. M \in Nat \ {0}
  BY LowDigits
<1>2. k \in Int /\ r \in Int /\ p = N * k + r
  <2>1. p \in Int /\ N \in Nat \ {0}
    OBVIOUS
  <2> HIDE DEF p
  <2>2. QED
    BY ONLY <2>1, Division
<1> HIDE DEF k, r
<1>3. x \in Int /\ y \in Int /\ s \in Int /\ x + s \in Int
  BY <1>2, SMTT(30)
<1>4. p * C = (N * k) * C + r * C /\ p * C = ptr * C + i * C
  BY <1>2, SMTT(30)
<1>5. (N * k) * C = M * k
  BY <1>2, SMTT(30)
<1>6. x + s = y + M * k
  <2>1. \A a, b, c, d, e \in Int : a + c = d + b /\ TRUE => (a - e) + s = (b - (e - s + c)) + d
    BY SMTT(30)
  <2>2. ptr * C \in Int /\ r * C \in Int /\ i * C \in Int /\ M * k \in Int
    BY <1>1, <1>2
  <2>3. ptr * C + i * C = M * k + r * C
    BY <1>4, <1>5
  <2>4. QED
    BY <2>1, <2>2, <2>3
<1> HIDE DEF M, x, y, p
<1>7. ((x % M) + s) % M = (x + s) % M
  BY <1>1, <1>3, ModAdd
<1>8. (y + M * k) % M = y % M
  BY <1>1, <1>2, <1>3, ModPlus
<1>9. (spent + s) % M = y % M
  BY <1>6, <1>7, <1>8 DEF x, M, Balance
<1>10. QED
  BY <1>9 DEF M, y, r, p, Balance

-----------------------------------------------------------------------------
(* The credit counter: sizes, and what a cycle of either clock or of both  *)
(* does to it.                                                             *)
LEMMA TokenSizes ==
  /\ w_counter_width_lp \in Nat \ {0} /\ 2^w_counter_width_lp \in Nat \ {0}
  /\ CreditsPerToken \in Nat \ {0} /\ credit!CreditsPerToken = CreditsPerToken
  /\ credit!Modulus = 2^w_counter_width_lp * CreditsPerToken
  /\ credit!Modulus \in Nat \ {0}
  /\ start_tokens \in Nat /\ prepaid_tokens \in Nat
  /\ credit!Capacity = (start_tokens + prepaid_tokens) * CreditsPerToken
  /\ credit!Capacity \in Nat
<1>1. /\ w_counter_width_lp \in Nat \ {0} /\ lg_credit_to_token_decimation_p \in Nat
      /\ start_tokens \in Nat /\ prepaid_tokens \in Nat
  BY WidthAssumption DEF WidthAssumption, credit!WidthAssumption
<1>2. 2^w_counter_width_lp \in Nat \ {0} /\ CreditsPerToken \in Nat \ {0}
  BY <1>1, PowNat DEF CreditsPerToken
<1>3. credit!CreditsPerToken = CreditsPerToken
  BY DEF credit!CreditsPerToken, CreditsPerToken
<1>4. credit!Modulus = 2^w_counter_width_lp * CreditsPerToken
  BY <1>3 DEF credit!Modulus
<1>5. credit!Modulus \in Nat \ {0}
  BY <1>2, <1>4, LowDigits
<1>6. credit!Capacity = (start_tokens + prepaid_tokens) * CreditsPerToken
  BY <1>3 DEF credit!Capacity
<1>7. (start_tokens + prepaid_tokens) * CreditsPerToken \in Nat
  BY <1>1, <1>2, SMTT(30)
<1>8. QED
  BY <1>1, <1>2, <1>3, <1>4, <1>5, <1>6, <1>7

CreditCycle(r, inc, dec) ==
  /\ Pointer(c_ptr_r', c_ptr_p1_r', w_counter_gray_r', w_counter_width_lp)
  /\ c_ptr_r' = (c_ptr_r + Inc(inc)) % 2^w_counter_width_lp
  /\ Latched(r, Gray(c_ptr_r, w_counter_width_lp), Gray(c_ptr_r', w_counter_width_lp),
             c_sync1, w_counter_gray_r_rsync, c_sync1', w_counter_gray_r_rsync')
  /\ r_counter_r' = IF r /\ c_reset_i THEN credit!r_counter_reset
                    ELSE (r_counter_r + Inc(dec)) % credit!Modulus
  /\ dec => credit!r_credits_avail_o /\ ~c_reset_i
  /\ inc => credit!live /\ owed >= CreditsPerToken
  /\ c_flush' = IF r /\ c_flush \in 1 .. 4 THEN c_flush + 1 ELSE c_flush
  /\ owed' = owed + Inc(dec) - Inc(inc) * CreditsPerToken
  /\ c_reset_i' = c_reset_i

(* The counter's crossing codes its pointer like the others.               *)
LEMMA CreditCode ==
  /\ \A n, w : credit!bapg!Gray(n, w) = Gray(n, w)
  /\ \A x, y : credit!bapg!Sampled(x, y) = Sampled(x, y)
BY DEF Gray, Sampled

(* The side of the tokens: its pointer counts those that come back.        *)
LEMMA TokenSide ==
  ASSUME CreditTypeOK, NEW inc \in BOOLEAN, credit!WSide(inc)
  PROVE  /\ Pointer(c_ptr_r', c_ptr_p1_r', w_counter_gray_r', w_counter_width_lp)
         /\ c_ptr_r' = (c_ptr_r + Inc(inc)) % 2^w_counter_width_lp
         /\ inc => credit!live /\ owed >= CreditsPerToken
<1>1. /\ Pointer(c_ptr_r, c_ptr_p1_r, w_counter_gray_r, w_counter_width_lp)
      /\ w_counter_width_lp \in Nat \ {0}
  BY TokenSizes DEF CreditTypeOK
<1>2. /\ c_ptr_r' = IF inc THEN c_ptr_p1_r ELSE c_ptr_r
      /\ c_ptr_p1_r' = IF inc THEN (c_ptr_p1_r + 1) % 2^w_counter_width_lp
                              ELSE c_ptr_p1_r
      /\ w_counter_gray_r' = IF inc THEN Gray(c_ptr_p1_r, w_counter_width_lp)
                                    ELSE w_counter_gray_r
  BY CreditCode DEF credit!WSide, credit!bapg!WEdge
<1>3. /\ Pointer(c_ptr_r', c_ptr_p1_r', w_counter_gray_r', w_counter_width_lp)
      /\ c_ptr_r' = (c_ptr_r + Inc(inc)) % 2^w_counter_width_lp
  BY <1>1, <1>2, PointerTick
<1>4. inc => credit!live /\ owed >= CreditsPerToken
  BY TokenSizes DEF credit!WSide
<1>5. QED
  BY <1>3, <1>4

(* Every step of the counter is such a cycle.                              *)
LEMMA CreditCycleOf ==
  ASSUME CreditTypeOK, credit!WClk \/ credit!RClk \/ credit!BothClks
  PROVE  \E r, inc, dec \in BOOLEAN : CreditCycle(r, inc, dec)
<1>1. /\ Pointer(c_ptr_r, c_ptr_p1_r, w_counter_gray_r, w_counter_width_lp)
      /\ r_counter_r \in 0 .. credit!Modulus - 1 /\ credit!Modulus \in Nat \ {0}
      /\ 2^w_counter_width_lp \in Nat \ {0} /\ CreditsPerToken \in Nat \ {0}
      /\ owed \in Nat /\ credit!CreditsPerToken = CreditsPerToken
      /\ w_counter_gray_r = Gray(c_ptr_r, w_counter_width_lp)
  BY TokenSizes DEF CreditTypeOK, credit!RCounters, Pointer
<1>2. (r_counter_r + 0) % credit!Modulus = r_counter_r
  <2>1. r_counter_r + 0 = r_counter_r
    BY <1>1
  <2>2. QED
    BY <2>1, <1>1, ModSmall
<1>3. (c_ptr_r + 0) % 2^w_counter_width_lp = c_ptr_r
  <2>1. c_ptr_r + 0 = c_ptr_r /\ c_ptr_r \in 0 .. 2^w_counter_width_lp - 1
    BY <1>1 DEF Pointer
  <2>2. QED
    BY <2>1, <1>1, ModSmall
<1>4. \A inc, dec \in BOOLEAN :
        credit!Owed(inc, dec) = owed + Inc(dec) - Inc(inc) * CreditsPerToken
  BY <1>1 DEF credit!Owed, Inc
<1>5. ASSUME NEW dec \in BOOLEAN, credit!RSide(dec)
      PROVE  /\ dec => credit!r_credits_avail_o /\ ~c_reset_i
             /\ r_counter_r' = IF c_reset_i THEN credit!r_counter_reset
                               ELSE (r_counter_r + Inc(dec)) % credit!Modulus
             /\ c_flush' = IF c_flush \in 1 .. 4 THEN c_flush + 1 ELSE c_flush
  BY <1>5 DEF credit!RSide, credit!Count, Inc, credit!ResetEdges
<1>6. ASSUME credit!bapg!REdge,
             Pointer(c_ptr_r', c_ptr_p1_r', w_counter_gray_r', w_counter_width_lp)
      PROVE  Latched(TRUE, Gray(c_ptr_r, w_counter_width_lp),
                     Gray(c_ptr_r', w_counter_width_lp),
                     c_sync1, w_counter_gray_r_rsync, c_sync1', w_counter_gray_r_rsync')
  BY <1>1, <1>6, CreditCode DEF credit!bapg!REdge, Latched, Pointer
<1>7. CASE credit!WClk
  <2>1. PICK inc \in BOOLEAN :
          /\ credit!WSide(inc) /\ credit!bapg!RHold /\ owed' = credit!Owed(inc, FALSE)
          /\ UNCHANGED <<r_counter_r, c_reset_i, c_flush>>
    BY <1>7 DEF credit!WClk
  <2>2. CreditCycle(FALSE, inc, FALSE)
    BY <2>1, <1>2, <1>4, TokenSide DEF CreditCycle, Latched, credit!bapg!RHold, Inc
  <2>3. QED
    BY <2>2
<1>8. CASE credit!RClk
  <2>1. PICK dec \in BOOLEAN :
          /\ credit!RSide(dec) /\ credit!bapg!WHold /\ credit!bapg!REdge
          /\ owed' = credit!Owed(FALSE, dec) /\ UNCHANGED c_reset_i
    BY <1>8 DEF credit!RClk
  <2>2. c_ptr_r' = c_ptr_r /\ c_ptr_p1_r' = c_ptr_p1_r /\ w_counter_gray_r' = w_counter_gray_r
    BY <2>1 DEF credit!bapg!WHold
  <2>3. Pointer(c_ptr_r', c_ptr_p1_r', w_counter_gray_r', w_counter_width_lp)
    BY <2>2, <1>1
  <2>4. c_ptr_r' = (c_ptr_r + Inc(FALSE)) % 2^w_counter_width_lp
    BY <2>2, <1>3 DEF Inc
  <2>5. Latched(TRUE, Gray(c_ptr_r, w_counter_width_lp), Gray(c_ptr_r', w_counter_width_lp),
                c_sync1, w_counter_gray_r_rsync, c_sync1', w_counter_gray_r_rsync')
    BY <2>1, <2>3, <1>6
  <2>6. CreditCycle(TRUE, FALSE, dec)
    BY <2>1, <2>3, <2>4, <2>5, <1>4, <1>5 DEF CreditCycle
  <2>7. QED
    BY <2>6
<1>9. CASE credit!BothClks
  <2>1. PICK inc \in BOOLEAN, dec \in BOOLEAN :
          /\ credit!WSide(inc) /\ credit!RSide(dec) /\ credit!bapg!REdge
          /\ owed' = credit!Owed(inc, dec) /\ UNCHANGED c_reset_i
    BY <1>9 DEF credit!BothClks
  <2>2. CreditCycle(TRUE, inc, dec)
    BY <2>1, <1>4, <1>5, <1>6, TokenSide DEF CreditCycle
  <2>3. QED
    BY <2>2
<1>10. QED
  BY <1>7, <1>8, <1>9

(* An available credit is one in hand, and the token it belongs to has     *)
(* been seen.                                                              *)
LEMMA CreditAvailable ==
  ASSUME CreditTypeOK, CreditLive, credit!r_credits_avail_o
  PROVE  /\ credit!Capacity - owed - 1 \in Nat
         /\ Behind(c_ptr_r, c_sync1, w_counter_gray_r_rsync,
                   (credit!Capacity - owed - 1) \div CreditsPerToken, w_counter_width_lp)
<1> DEFINE N == 2^w_counter_width_lp
           C == CreditsPerToken
           held == credit!Capacity - owed
           h == held \div C
<1>1. /\ N \in Nat \ {0} /\ C \in Nat \ {0} /\ held \in Nat
      /\ c_ptr_r \in Int /\ w_counter_width_lp \in Nat
      /\ Balance(r_counter_r, c_ptr_r, held, N, C)
      /\ Behind(c_ptr_r, c_sync1, w_counter_gray_r_rsync, h, w_counter_width_lp)
  BY TokenSizes DEF CreditTypeOK, CreditLive, Account, Pointer
<1>2. \/ r_counter_r % C # 0
      \/ Gray(r_counter_r \div C, w_counter_width_lp) # w_counter_gray_r_rsync
  BY CreditCode, TokenSizes
  DEF credit!r_credits_avail_o, credit!r_counter_r_lo_bits_nonzero, credit!r_counter_r_hi_bits
<1> HIDE DEF C, held
<1>3. PICK a \in 0 .. h, b \in 0 .. h :
        Trail(c_ptr_r, c_sync1, w_counter_gray_r_rsync, a, b, w_counter_width_lp)
  BY <1>1 DEF Behind
<1>4. /\ a \in Nat /\ b \in Nat /\ a <= b /\ h \in Nat /\ b <= h
      /\ w_counter_gray_r_rsync = Gray((c_ptr_r - b) % N, w_counter_width_lp)
  <2>1. h \in Nat
    BY <1>1, AtMost, 0 \in Nat
  <2>2. a <= b /\ w_counter_gray_r_rsync = Gray((c_ptr_r - b) % N, w_counter_width_lp)
    BY <1>3 DEF Trail
  <2> HIDE DEF h
  <2>3. QED
    BY <2>1, <2>2, <1>3
<1>5. b * C <= held
  BY <1>1, <1>4, AtMost
<1>6. b * C # held
  <2>1. SUFFICES ASSUME b * C = held PROVE FALSE
    OBVIOUS
  <2> HIDE DEF N
  <2>2. /\ N \in Nat \ {0} /\ C \in Nat \ {0} /\ c_ptr_r \in Int /\ b \in Int
        /\ held = b * C /\ Balance(r_counter_r, c_ptr_r, held, N, C)
    BY <1>1, <1>4, <2>1
  <2>3. TokenOver(r_counter_r, (c_ptr_r - b) % N, C)
    BY ONLY <2>2, SpentOut
  <2>4. QED
    BY <2>3, <1>2, <1>4 DEF TokenOver
<1>7. held - 1 \in Nat /\ b * C <= held - 1
  <2>1. b * C \in Nat
    BY <1>1, <1>4
  <2>2. QED
    BY <2>1, <1>1, <1>5, <1>6
<1>8. b <= (held - 1) \div C /\ (held - 1) \div C \in Nat
  <2> DEFINE g == held - 1
  <2>1. g \in Nat /\ b * C <= g
    BY <1>7
  <2> HIDE DEF g
  <2>2. b <= g \div C /\ g \div C \in Nat
    BY <2>1, <1>1, <1>4, AtMost
  <2>3. QED
    BY <2>2 DEF g
<1>9. Behind(c_ptr_r, c_sync1, w_counter_gray_r_rsync, (held - 1) \div C, w_counter_width_lp)
  <2> DEFINE g == (held - 1) \div C
  <2> HIDE DEF g
  <2>1. a \in 0 .. g /\ b \in 0 .. g
    BY <1>4, <1>8 DEF g
  <2>2. QED
    BY <2>1, <1>3 DEF Behind, g
<1>10. QED
  BY <1>7, <1>9 DEF held, C

(* In use: the account is kept, whatever is spent and given back.          *)
LEMMA CreditLiveCycle ==
  ASSUME CreditInv, credit!live, NEW r \in BOOLEAN, NEW inc \in BOOLEAN,
         NEW dec \in BOOLEAN, CreditCycle(r, inc, dec)
  PROVE  CreditInv'
<1> DEFINE N == 2^w_counter_width_lp
           C == CreditsPerToken
           K == credit!Capacity
           held == K - owed
           s == Inc(dec)
           i == Inc(inc)
           rest == held - s
<1>1. CreditTypeOK /\ CreditLive
  BY DEF CreditInv
<1>2. /\ N \in Nat \ {0} /\ C \in Nat \ {0} /\ K \in Nat /\ owed \in Nat /\ held \in Nat
      /\ c_ptr_r \in 0 .. N - 1 /\ w_counter_width_lp \in Nat \ {0}
      /\ Balance(r_counter_r, c_ptr_r, held, N, C)
      /\ r_counter_r \in 0 .. N * C - 1 /\ N * C \in Nat \ {0} /\ credit!Modulus = N * C
  BY <1>1, TokenSizes DEF CreditTypeOK, CreditLive, Account, Pointer, credit!RCounters
<1>3. s \in {0, 1} /\ i \in {0, 1} /\ (dec <=> s = 1) /\ (inc <=> i = 1)
  BY DEF Inc
<1>4. c_flush = 5 /\ c_flush' = 5 /\ c_reset_i' = c_reset_i /\ c_reset_i \in BOOLEAN
  BY <1>1 DEF CreditCycle, CreditTypeOK, credit!live, credit!Flushed, credit!ResetEdges
<1>5. /\ rest \in Nat
      /\ Behind(c_ptr_r, c_sync1, w_counter_gray_r_rsync, rest \div C, w_counter_width_lp)
  <2>1. CASE dec
    <3>1. rest = K - owed - 1
      BY <2>1, <1>2, <1>3
    <3>2. credit!r_credits_avail_o
      BY <2>1 DEF CreditCycle
    <3>3. QED
      BY <3>1, <3>2, <1>1, CreditAvailable
  <2>2. CASE ~dec
    <3>1. rest = held
      BY <2>2, <1>2, <1>3
    <3>2. QED
      BY <3>1, <1>1, <1>2 DEF CreditLive
  <2>3. QED
    BY <2>1, <2>2
<1>6. r_counter_r' = (r_counter_r + s) % (N * C)
       /\ (c_reset_i => r_counter_r' = credit!r_counter_reset)
  <2>1. r_counter_r' = IF r /\ c_reset_i THEN credit!r_counter_reset
                       ELSE (r_counter_r + s) % (N * C)
    BY <1>2 DEF CreditCycle
  <2>2. CASE c_reset_i
    <3>1. s = 0
      BY <2>2, <1>3 DEF CreditCycle
    <3>2. r_counter_r = credit!r_counter_reset
      BY <2>2, <1>4 DEF CreditInv
    <3>3. (r_counter_r + s) % (N * C) = r_counter_r
      <4> HIDE DEF s
      <4>1. r_counter_r + s = r_counter_r
        BY <3>1, <1>2
      <4>2. QED
        BY <4>1, <1>2, ModSmall
    <3>4. QED
      BY <2>1, <3>2, <3>3
  <2>3. CASE ~c_reset_i
    BY <2>1, <2>3
  <2>4. QED
    BY <1>4, <2>2, <2>3
<1>7. c_ptr_r' = (c_ptr_r + i) % N /\ (inc => owed >= C) /\ owed' = owed + s - i * C
  BY DEF CreditCycle
<1>8. /\ owed' \in Nat /\ K - owed' = rest + i * C
      /\ rest + i * C \in Nat
  <2>1. CASE inc
    <3>1. i * C = C /\ owed >= C
      <4>1. i = 1 /\ owed >= C
        BY <2>1, <1>3, <1>7
      <4> HIDE DEF i, C
      <4>2. QED
        BY <4>1, <1>2
    <3> HIDE DEF i, s, K, C
    <3>2. QED
      BY <3>1, <1>2, <1>3, <1>5, <1>7
  <2>2. CASE ~inc
    <3>1. i * C = 0
      <4>1. i = 0
        BY <2>2, <1>3
      <4> HIDE DEF i, C
      <4>2. QED
        BY <4>1, <1>2
    <3> HIDE DEF i, s, K, C
    <3>2. QED
      BY <3>1, <1>2, <1>3, <1>5, <1>7
  <2>3. QED
    BY <2>1, <2>2
<1> HIDE DEF N, C, K, s, i, rest
<1>9. Balance(r_counter_r', c_ptr_r', rest + i * C, N, C)
  <2>1. /\ N \in Nat \ {0} /\ C \in Nat \ {0} /\ c_ptr_r \in Int /\ held \in Int
        /\ Balance(r_counter_r, c_ptr_r, held, N, C) /\ i \in Int /\ s \in Int
        /\ r_counter_r' = (r_counter_r + s) % (N * C)
        /\ c_ptr_r' = (c_ptr_r + i) % N
        /\ rest + i * C = held - s + i * C
    BY <1>2, <1>3, <1>6, <1>7 DEF rest
  <2> HIDE DEF held
  <2>2. QED
    BY ONLY <2>1, NewAccount
<1>10. (rest + i * C) \div C = rest \div C + i
  <2>1. CASE i = 0
    <3>1. rest + i * C = rest /\ rest \div C \in Int
      <4>1. rest \div C \in Int
        BY <1>2, <1>5, Division
      <4>2. QED
        BY <4>1, <2>1, <1>2, <1>5
    <3>2. QED
      BY <3>1, <2>1
  <2>2. CASE i = 1
    <3>1. i * C = C
      BY <2>2, <1>2
    <3>2. (rest + C) \div C = rest \div C + 1
      <4>1. rest \in Int /\ C \in Nat \ {0}
        BY <1>2, <1>5
      <4>2. QED
        BY ONLY <4>1, ModOnce
    <3>3. QED
      BY <3>1, <3>2, <2>2
  <2>3. QED
    BY <1>3, <2>1, <2>2
<1>11. Behind(c_ptr_r', c_sync1', w_counter_gray_r_rsync', rest \div C + i, w_counter_width_lp)
  <2>1. rest \div C \in Nat
    BY <1>2, <1>5, AtMost, 0 \in Nat
  <2>2. c_ptr_r' = (c_ptr_r + Inc(inc)) % 2^w_counter_width_lp
    BY DEF CreditCycle
  <2>3. \/ c_sync1' = c_sync1 /\ w_counter_gray_r_rsync' = w_counter_gray_r_rsync
        \/ /\ c_sync1' \in Sampled(Gray(c_ptr_r, w_counter_width_lp),
                                   Gray(c_ptr_r', w_counter_width_lp))
           /\ w_counter_gray_r_rsync' = c_sync1
    BY DEF CreditCycle, Latched
  <2>4. QED
    BY <1>2, <1>5, <2>1, <2>2, <2>3, BehindEdge DEF N, i
<1>12. CreditLive'
  <2>1. K' = K /\ C' = C /\ N' = N /\ w_counter_width_lp' = w_counter_width_lp
    BY DEF K, C, N, credit!Capacity, CreditsPerToken
  <2>2. owed' <= K
    BY <1>2, <1>8
  <2>3. Account(c_ptr_r', r_counter_r', K - owed', w_counter_width_lp)
    BY <1>8, <1>9 DEF Account, N, C
  <2>4. Behind(c_ptr_r', c_sync1', w_counter_gray_r_rsync',
               (K - owed') \div C, w_counter_width_lp)
    BY <1>8, <1>10, <1>11
  <2>5. QED
    BY <2>2, <2>3, <2>4 DEF CreditLive, K, C
<1>13. CreditTypeOK'
  <2>1. Pointer(c_ptr_r', c_ptr_p1_r', w_counter_gray_r', w_counter_width_lp)
    BY DEF CreditCycle
  <2>2. r_counter_r' \in 0 .. N * C - 1
    <3>1. r_counter_r + s \in Int
      BY <1>2, <1>3
    <3>2. (r_counter_r + s) % (N * C) \in 0 .. N * C - 1
      BY <3>1, <1>2, Division
    <3>3. QED
      BY <3>2, <1>6
  <2>3. QED
    BY <2>1, <2>2, <1>2, <1>4, <1>8
    DEF CreditTypeOK, credit!RCounters, credit!Flushed, credit!ResetEdges
<1>14. QED
  BY <1>4, <1>6, <1>12, <1>13 DEF CreditInv, credit!live, credit!Flushed, credit!ResetEdges

(* In reset: the spender holds its start value, and the edges of its clock *)
(* carry the cleared count across.                                         *)
LEMMA CreditResetCycle ==
  ASSUME CreditInv, ~credit!live, NEW r \in BOOLEAN, NEW inc \in BOOLEAN,
         NEW dec \in BOOLEAN, CreditCycle(r, inc, dec)
  PROVE  CreditInv'
<1> DEFINE N == 2^w_counter_width_lp
           M == credit!Modulus
           C == CreditsPerToken
<1>1. /\ N \in Nat \ {0} /\ C \in Nat \ {0} /\ M \in Nat \ {0} /\ M = N * C
      /\ w_counter_width_lp \in Nat \ {0}
      /\ start_tokens \in Nat /\ prepaid_tokens \in Nat
      /\ credit!Capacity = (start_tokens + prepaid_tokens) * C
      /\ credit!CreditsPerToken = C
  BY TokenSizes
<1>2. /\ c_flush \in 0 .. 4 /\ c_reset_i /\ c_reset_i' = c_reset_i /\ c_reset_i = TRUE
      /\ owed \in Nat
      /\ r_counter_r \in 0 .. M - 1 /\ c_ptr_r \in 0 .. N - 1
  BY DEF CreditInv, CreditTypeOK, CreditCycle, credit!live, credit!Flushed,
         credit!ResetEdges, credit!RCounters, Pointer
<1>3. ~inc /\ ~dec
  BY <1>2 DEF CreditCycle
<1>4. Inc(inc) = 0 /\ Inc(dec) = 0
  BY <1>3 DEF Inc
<1> HIDE DEF C, M
<1>5. owed' = owed
  <2>1. owed' = owed + Inc(dec) - Inc(inc) * C
    BY DEF CreditCycle, C
  <2>2. QED
    BY <2>1, <1>1, <1>2, <1>4
<1>6. c_ptr_r' = c_ptr_r
  <2>1. c_ptr_r' = (c_ptr_r + Inc(inc)) % N
    BY DEF CreditCycle
  <2> HIDE DEF N
  <2>2. c_ptr_r + Inc(inc) = c_ptr_r
    BY <1>1, <1>2, <1>4
  <2>3. QED
    BY <2>1, <2>2, <1>1, <1>2, ModSmall
<1>7. /\ r => r_counter_r' = credit!r_counter_reset
      /\ ~r => r_counter_r' = r_counter_r
  <2>1. r_counter_r' = IF r /\ c_reset_i THEN credit!r_counter_reset
                       ELSE (r_counter_r + Inc(dec)) % M
    BY DEF CreditCycle, M
  <2>2. r_counter_r + Inc(dec) = r_counter_r
    BY <1>1, <1>2, <1>4
  <2>3. r_counter_r % M = r_counter_r
    BY <1>1, <1>2, ModSmall
  <2>4. QED
    BY <2>1, <2>2, <2>3, <1>2
<1>8. credit!r_counter_reset \in 0 .. M - 1 /\ credit!r_counter_reset = (-start_tokens * C) % M
  <2>1. credit!r_counter_reset = (-start_tokens * C) % M
    BY <1>1 DEF credit!r_counter_reset, M
  <2>2. -start_tokens * C \in Int
    BY <1>1
  <2>3. (-start_tokens * C) % M \in 0 .. M - 1
    BY ONLY <2>2, <1>1, Division
  <2>4. QED
    BY <2>1, <2>3
<1>9. c_flush' = IF r /\ c_flush \in 1 .. 4 THEN c_flush + 1 ELSE c_flush
  BY DEF CreditCycle
<1>10. CreditTypeOK'
  <2>1. Pointer(c_ptr_r', c_ptr_p1_r', w_counter_gray_r', w_counter_width_lp)
    BY DEF CreditCycle
  <2>2. r_counter_r' \in 0 .. M - 1
    BY <1>2, <1>7, <1>8
  <2>3. c_flush' \in 0 .. 5
    BY <1>2, <1>9
  <2>4. QED
    BY <2>1, <2>2, <2>3, <1>2, <1>5
    DEF CreditTypeOK, credit!RCounters, credit!Flushed, credit!ResetEdges, M
<1>11. c_flush \in 1 .. 4 => c_ptr_r = 0 /\ owed = prepaid_tokens * C
  BY DEF CreditInv, credit!ResetEdges, C
<1>12. c_flush \in 1 .. 4 /\ r => c_sync1' = {} /\ w_counter_gray_r_rsync' = c_sync1
  <2>1. SUFFICES ASSUME c_flush \in 1 .. 4, r
                 PROVE  c_sync1' = {} /\ w_counter_gray_r_rsync' = c_sync1
    OBVIOUS
  <2>2. Latched(r, Gray(c_ptr_r, w_counter_width_lp), Gray(c_ptr_r', w_counter_width_lp),
                c_sync1, w_counter_gray_r_rsync, c_sync1', w_counter_gray_r_rsync')
    BY DEF CreditCycle
  <2>3. Gray(c_ptr_r, w_counter_width_lp) = {} /\ Gray(c_ptr_r', w_counter_width_lp) = {}
    BY <1>1, <1>6, <1>11, <2>1, GrayZero
  <2>4. c_sync1' \in Sampled({}, {}) /\ w_counter_gray_r_rsync' = c_sync1
    BY <2>1, <2>2, <2>3 DEF Latched
  <2>5. QED
    BY <2>4 DEF Sampled, credit!bapg!Sampled
<1>13. ~r => c_sync1' = c_sync1 /\ w_counter_gray_r_rsync' = w_counter_gray_r_rsync
  BY DEF CreditCycle, Latched
<1>14. c_flush \in 2 .. 4 => c_sync1 = {}
  BY DEF CreditInv, credit!ResetEdges
<1>15. c_flush \in 3 .. 4 => w_counter_gray_r_rsync = {}
  BY DEF CreditInv, credit!ResetEdges
<1>16. c_flush >= 2 => r_counter_r = credit!r_counter_reset
  BY <1>2 DEF CreditInv
<1>17. /\ c_flush' >= 2 => r_counter_r' = credit!r_counter_reset
       /\ c_flush' >= 1 => c_ptr_r' = 0 /\ owed' = prepaid_tokens * C
       /\ c_flush' >= 2 => c_sync1' = {}
       /\ c_flush' >= 3 => w_counter_gray_r_rsync' = {}
  <2>1. CASE r
    BY <2>1, <1>2, <1>5, <1>6, <1>7, <1>9, <1>11, <1>12, <1>14
  <2>2. CASE ~r
    BY <2>2, <1>2, <1>5, <1>6, <1>7, <1>9, <1>11, <1>13, <1>14, <1>15, <1>16
  <2>3. QED
    BY <2>1, <2>2
<1>18. c_flush' = 5 => CreditLive'
  <2>1. SUFFICES ASSUME c_flush' = 5 PROVE CreditLive'
    OBVIOUS
  <2> DEFINE held == start_tokens * C
  <2>2. /\ r_counter_r' = (-start_tokens * C) % M
        /\ c_ptr_r' = 0 /\ owed' = prepaid_tokens * C
        /\ c_sync1' = {} /\ w_counter_gray_r_rsync' = {}
    BY <2>1, <1>8, <1>17
  <2>3. /\ held \in Nat /\ prepaid_tokens * C \in Nat
        /\ credit!Capacity = held + prepaid_tokens * C
        /\ 0 * C - held = -start_tokens * C
    BY <1>1, SMTT(30)
  <2>4. credit!Capacity - owed' = held /\ owed' <= credit!Capacity
    <3> DEFINE p == prepaid_tokens * C
    <3>1. owed' = p /\ p \in Nat /\ credit!Capacity = held + p /\ held \in Nat
      BY <2>2, <2>3
    <3> HIDE DEF p, held
    <3>2. QED
      BY <3>1
  <2>5. Balance(r_counter_r', c_ptr_r', held, N, C)
    BY <2>2, <2>3, <1>1 DEF Balance
  <2> HIDE DEF held
  <2>6. Account(c_ptr_r', r_counter_r', credit!Capacity - owed', w_counter_width_lp)
    BY <2>3, <2>4, <2>5 DEF Account, C
  <2>7. held \div C \in Nat
    BY <2>3, <1>1, AtMost, 0 \in Nat
  <2>8. Behind(0, {}, {}, held \div C, w_counter_width_lp)
    <3>1. 0 \in 0 .. 2^w_counter_width_lp - 1 /\ w_counter_width_lp \in Nat
      BY <1>1
    <3>2. QED
      BY <3>1, <2>7, GrayZero, BehindStart
  <2>9. QED
    BY <2>2, <2>4, <2>6, <2>8 DEF CreditLive, C
<1>19. QED
  BY <1>2, <1>10, <1>17, <1>18
  DEF CreditInv, credit!live, credit!Flushed, credit!ResetEdges, C

(* The invariant holds after power on.                                     *)
LEMMA CreditStart == credit!Init => CreditInv
<1> SUFFICES ASSUME credit!Init PROVE CreditInv
  OBVIOUS
<1>1. Pointer(c_ptr_r, c_ptr_p1_r, w_counter_gray_r, w_counter_width_lp)
  <2>1. 0 + 1 = 1 /\ 0 \in 0 .. 2^w_counter_width_lp - 1
    BY TokenSizes
  <2>2. Gray(0, w_counter_width_lp) = {}
    BY TokenSizes, GrayZero
  <2>3. QED
    BY <2>1, <2>2 DEF credit!Init, Pointer
<1>2. owed \in Nat /\ owed = prepaid_tokens * CreditsPerToken
  BY TokenSizes DEF credit!Init
<1>3. CreditTypeOK
  BY <1>1, <1>2 DEF CreditTypeOK, credit!Init, credit!Flushed, credit!ResetEdges
<1>4. c_flush = 1 /\ c_reset_i = TRUE /\ c_ptr_r = 0
  BY DEF credit!Init
<1>5. QED
  BY <1>2, <1>3, <1>4 DEF CreditInv, credit!live, credit!Flushed, credit!ResetEdges

(* Every step keeps the invariant.                                         *)
LEMMA CreditStep ==
  CreditInv /\ [credit!Next]_(credit!vars) => CreditInv'
<1> SUFFICES ASSUME CreditInv, [credit!Next]_(credit!vars)
             PROVE  CreditInv'
  OBVIOUS
<1>1. CASE credit!WClk \/ credit!RClk \/ credit!BothClks
  <2>1. CreditTypeOK
    BY DEF CreditInv
  <2>2. PICK r, inc, dec \in BOOLEAN : CreditCycle(r, inc, dec)
    BY <1>1, <2>1, CreditCycleOf
  <2>3. QED
    BY <2>2, CreditLiveCycle, CreditResetCycle
<1>2. CASE credit!AssertReset
  BY <1>2
  DEF credit!AssertReset, credit!wregs, credit!sync, CreditInv, CreditTypeOK,
      credit!live, credit!Flushed, credit!ResetEdges
<1>3. CASE credit!PulseWReset
  <2>1. /\ c_ptr_r' = 0 /\ c_ptr_p1_r' = 1 /\ w_counter_gray_r' = {}
        /\ c_flush' = 1 /\ owed' = prepaid_tokens * CreditsPerToken
        /\ r_counter_r' = r_counter_r /\ c_reset_i' = c_reset_i /\ c_reset_i
    BY <1>3, TokenSizes DEF credit!PulseWReset, credit!bapg!WEdge, credit!sync
  <2>2. Pointer(c_ptr_r', c_ptr_p1_r', w_counter_gray_r', w_counter_width_lp)
    <3>1. /\ Pointer(c_ptr_r, c_ptr_p1_r, w_counter_gray_r, w_counter_width_lp)
          /\ w_counter_width_lp \in Nat \ {0}
      BY TokenSizes DEF CreditInv, CreditTypeOK
    <3>2. PICK reset \in BOOLEAN, inc \in BOOLEAN : reset
      OBVIOUS
    <3>3. IF reset
            THEN c_ptr_r' = 0 /\ c_ptr_p1_r' = 1 /\ w_counter_gray_r' = {}
            ELSE /\ c_ptr_r' = IF inc THEN c_ptr_p1_r ELSE c_ptr_r
                 /\ c_ptr_p1_r' = IF inc THEN (c_ptr_p1_r + 1) % 2^w_counter_width_lp
                                         ELSE c_ptr_p1_r
                 /\ w_counter_gray_r' = IF inc THEN Gray(c_ptr_p1_r, w_counter_width_lp)
                                               ELSE w_counter_gray_r
      BY <2>1, <3>2
    <3>4. QED
      BY <3>1, <3>3, PointerEdge
  <2>3. owed' \in Nat
    BY <2>1, TokenSizes
  <2>4. CreditTypeOK'
    BY <2>1, <2>2, <2>3 DEF CreditInv, CreditTypeOK, credit!Flushed, credit!ResetEdges
  <2>5. QED
    BY <2>1, <2>4 DEF CreditInv, credit!live, credit!Flushed, credit!ResetEdges
<1>4. CASE credit!DeassertReset
  <2>1. /\ c_ptr_r' = c_ptr_r /\ c_ptr_p1_r' = c_ptr_p1_r
        /\ w_counter_gray_r' = w_counter_gray_r
        /\ c_sync1' = c_sync1 /\ w_counter_gray_r_rsync' = w_counter_gray_r_rsync
        /\ r_counter_r' = r_counter_r /\ c_reset_i' = FALSE /\ c_flush' = c_flush
        /\ owed' = owed /\ credit!live
    BY <1>4 DEF credit!DeassertReset, credit!wregs, credit!sync
  <2>2. CreditTypeOK' /\ (CreditLive => CreditLive') /\ (credit!live' <=> credit!live)
    BY <2>1 DEF CreditInv, CreditTypeOK, CreditLive, credit!live
  <2>3. c_flush' = 5
    BY <2>1 DEF credit!live, credit!Flushed, credit!ResetEdges
  <2>4. QED
    BY <2>1, <2>2, <2>3 DEF CreditInv, credit!ResetEdges
<1>5. CASE UNCHANGED credit!vars
  <2>1. /\ c_ptr_r' = c_ptr_r /\ c_ptr_p1_r' = c_ptr_p1_r
        /\ w_counter_gray_r' = w_counter_gray_r
        /\ c_sync1' = c_sync1 /\ w_counter_gray_r_rsync' = w_counter_gray_r_rsync
        /\ r_counter_r' = r_counter_r /\ c_reset_i' = c_reset_i /\ c_flush' = c_flush
        /\ owed' = owed
    BY <1>5 DEF credit!vars, credit!wregs, credit!sync
  <2>2. (CreditTypeOK => CreditTypeOK') /\ (CreditLive => CreditLive')
      /\ (credit!live' <=> credit!live)
    BY <2>1 DEF CreditTypeOK, CreditLive, credit!live
  <2>3. QED
    BY <2>1, <2>2 DEF CreditInv
<1>6. QED
  BY <1>1, <1>2, <1>3, <1>4, <1>5 DEF credit!Next

(* The counter moves by steps of its own only.                             *)
LEMMA CreditAlone ==
  /\ CrossingsInit => credit!Init
  /\ [CrossingsNext]_all => [credit!Next]_(credit!vars)
<1>1. CrossingsInit => credit!Init
  BY DEF CrossingsInit
<1>2. ASSUME UNCHANGED credit_vars PROVE UNCHANGED credit!vars
  BY <1>2 DEF credit_vars, credit!vars, credit!wregs, credit!sync
<1>3. ASSUME [CrossingsNext]_all PROVE [credit!Next]_(credit!vars)
  <2>1. CASE UNCHANGED all
    BY <1>2, <2>1 DEF all
  <2>2. CASE CrossingsNext
    BY <1>2, <2>2, Zenon DEF CrossingsNext, OnlyFifo, OnlyLink
  <2>3. QED
    BY <1>3, <2>1, <2>2
<1>4. QED
  BY <1>1, <1>3

(* What was spent, what came back and what the spender knows of it stay in *)
(* balance, for every width, decimation and number of tokens.              *)
THEOREM CreditInvariant == CrossingsSpec => []CreditInv
BY CreditStart, CreditStep, CreditAlone, PTL DEF CrossingsSpec

(* An available credit of bsg_async_credit_counter is one the far end has  *)
(* room for, however old or half changed the token count that the spender  *)
(* sees, for every width, decimation and number of tokens.                 *)
THEOREM CreditsAreReal == CrossingsSpec => []NeverOverdrawn
<1>1. CreditInv => NeverOverdrawn
  <2> SUFFICES ASSUME CreditInv, credit!live, credit!r_credits_avail_o
               PROVE  owed < credit!Capacity
    BY DEF NeverOverdrawn, credit!NeverOverdrawn
  <2>1. CreditTypeOK /\ CreditLive
    BY DEF CreditInv
  <2>2. credit!Capacity - owed - 1 \in Nat
    BY <2>1, CreditAvailable
  <2>3. owed \in Nat /\ credit!Capacity \in Nat
    BY <2>1, TokenSizes DEF CreditTypeOK
  <2>4. QED
    BY <2>2, <2>3
<1>2. QED
  BY <1>1, CreditInvariant, PTL

-----------------------------------------------------------------------------
(* One of the link's two counters: what it has spent, the tokens that came *)
(* for it, and how much of that has reached it.                            *)
Side(spent, ptr, held, sync1, sync2, a, b, w) ==
  /\ held \in Nat
  /\ Balance(spent, ptr, held, 2^w, CreditsPerToken)
  /\ Trail(ptr, sync1, sync2, a, b, w)
  /\ b * CreditsPerToken <= held

SideAvail(spent, sync2, w) ==
  \/ spent % CreditsPerToken # 0
  \/ Gray(spent \div CreditsPerToken, w) # sync2

(* What is left changes places with what is taken away.                    *)
Swapped(x, s, h, M) == s = (x - h) % M

(* A remainder and what was taken away change places.                      *)
LEMMA ModSwap ==
  ASSUME NEW M \in Nat \ {0}, NEW x \in Int, NEW s \in 0 .. M - 1, NEW h, Swapped(x, h, s, M)
  PROVE  Swapped(x, s, h, M)
<1> DEFINE y == x - s
           k == y \div M
<1>1. y \in Int /\ h = y % M
  BY DEF Swapped
<1> HIDE DEF y
<1>2. k \in Int /\ y % M \in 0 .. M - 1 /\ y = M * k + (y % M)
  BY <1>1, Division
<1> HIDE DEF k
<1>3. h \in Int /\ x - h \in Int /\ x - h = M * k + s
  <2>1. h \in Int /\ M * k \in Int
    BY <1>1, <1>2
  <2>2. x - s = M * k + h
    BY <1>1, <1>2 DEF y
  <2>3. QED
    BY <2>1, <2>2
<1>4. (x - h) % M = s
  <2> DEFINE z == x - h
  <2>1. z \in Int /\ z = M * k + s
    BY <1>3
  <2> HIDE DEF z
  <2>2. z % M = s
    BY <2>1, <1>2, DivisionUnique
  <2>3. QED
    BY <2>2 DEF z
<1>5. QED
  BY <1>4 DEF Swapped

(* A token is worth at least one credit.                                   *)
LEMMA TokenNat == CreditsPerToken \in Nat \ {0}
BY TokenSizes

(* An available credit is in hand, and belongs to a token that was seen.   *)
LEMMA SideSpends ==
  ASSUME NEW w \in Nat, NEW spent, NEW ptr \in Int, NEW held, NEW sync1, NEW sync2, NEW a, NEW b,
         Side(spent, ptr, held, sync1, sync2, a, b, w), SideAvail(spent, sync2, w)
  PROVE  b * CreditsPerToken <= held - 1 /\ held - 1 \in Nat
<1> DEFINE N == 2^w
           C == CreditsPerToken
<1>1. N \in Nat \ {0} /\ C \in Nat \ {0}
  BY PowNat, TokenNat
<1>2. /\ held \in Nat /\ Balance(spent, ptr, held, N, C) /\ b * C <= held
      /\ b \in Nat /\ sync2 = Gray((ptr - b) % N, w)
  BY DEF Side, Trail
<1> HIDE DEF N, C
<1>3. b * C # held
  <2>1. SUFFICES ASSUME b * C = held PROVE FALSE
    OBVIOUS
  <2>2. b \in Int /\ ptr \in Int /\ held = b * C
    BY <1>2, <2>1
  <2>3. TokenOver(spent, (ptr - b) % N, C)
    BY ONLY <1>1, <1>2, <2>2, SpentOut
  <2>4. QED
    BY <2>3, <1>2 DEF TokenOver, SideAvail, C
<1>4. b * C \in Nat
  BY <1>1, <1>2
<1>5. QED
  BY <1>2, <1>3, <1>4 DEF C

(* A pointer w that is n ahead of r on a ring of R.                        *)
Ahead(w, r, n, R) == w = (r + n) % R

(* How old the two flops are after i counts, clocked or not.               *)
Aged(io, a, b, i, a2, b2) ==
  IF io THEN a2 <= i /\ b2 = a + i
        ELSE a2 = a + i /\ b2 = b + i

(* The flops of a crossing age with its two clocks.                        *)
LEMMA TrailMoves ==
  ASSUME NEW w \in Nat \ {0}, NEW ptr \in 0 .. 2^w - 1, NEW sync1, NEW sync2,
         NEW a, NEW b, Trail(ptr, sync1, sync2, a, b, w),
         NEW io \in BOOLEAN, NEW inc \in BOOLEAN,
         NEW ptr2, Ahead(ptr2, ptr, Inc(inc), 2^w),
         NEW s1, NEW s2, Latched(io, Gray(ptr, w), Gray(ptr2, w), sync1, sync2, s1, s2)
  PROVE  \E a2, b2 \in Nat :
           Trail(ptr2, s1, s2, a2, b2, w) /\ Aged(io, a, b, Inc(inc), a2, b2)
<1> DEFINE i == Inc(inc)
<1>1. a \in Nat /\ b \in Nat /\ i \in {0, 1} /\ ptr2 = (ptr + Inc(inc)) % 2^w
  BY DEF Trail, Inc, Ahead
<1>2. /\ s1 = sync1 /\ s2 = sync2 => Trail(ptr2, s1, s2, a + i, b + i, w)
      /\ s1 \in Sampled(Gray(ptr, w), Gray(ptr2, w)) /\ s2 = sync1 =>
           \E c \in 0 .. i : Trail(ptr2, s1, s2, c, a + i, w)
  BY <1>1, TrailEdge
<1> HIDE DEF i
<1>3. CASE io
  <2>1. PICK c \in 0 .. i : Trail(ptr2, s1, s2, c, a + i, w)
    BY <1>2, <1>3 DEF Latched
  <2>2. c \in Nat /\ a + i \in Nat /\ c <= i
    BY <1>1
  <2>3. QED
    BY <2>1, <2>2, <1>3 DEF Aged, i
<1>4. CASE ~io
  <2>1. Trail(ptr2, s1, s2, a + i, b + i, w)
    BY <1>2, <1>4 DEF Latched
  <2>2. a + i \in Nat /\ b + i \in Nat
    BY <1>1
  <2>3. QED
    BY <2>1, <2>2, <1>4 DEF Aged, i
<1>5. QED
  BY <1>3, <1>4

(* A cycle of either clock, or of both: a credit may be spent and a token  *)
(* may come.                                                               *)
Settled(held, held2, tick, dec) ==
  held2 = held - Inc(dec) + Inc(tick) * CreditsPerToken

(* One side of the sender through an edge of any clocks.                   *)
LEMMA SideEdge ==
  ASSUME NEW w \in Nat \ {0}, NEW spent, NEW ptr \in 0 .. 2^w - 1, NEW held,
         NEW sync1, NEW sync2, NEW a, NEW b,
         Side(spent, ptr, held, sync1, sync2, a, b, w),
         NEW io \in BOOLEAN, NEW tick \in BOOLEAN, NEW dec \in BOOLEAN,
         dec => io /\ SideAvail(spent, sync2, w),
         NEW spent2, Ahead(spent2, spent, Inc(dec), 2^w * CreditsPerToken),
         NEW ptr2, Ahead(ptr2, ptr, Inc(tick), 2^w),
         NEW held2, Settled(held, held2, tick, dec),
         NEW s1, NEW s2,
         Latched(io, Gray(ptr, w), Gray(ptr2, w), sync1, sync2, s1, s2)
  PROVE  \E a2, b2 \in Nat :
           /\ Side(spent2, ptr2, held2, s1, s2, a2, b2, w)
           /\ Aged(io, a, b, Inc(tick), a2, b2)
<1> DEFINE N == 2^w
           C == CreditsPerToken
           i == Inc(tick)
           s == Inc(dec)
<1>1. N \in Nat \ {0} /\ C \in Nat \ {0} /\ ptr \in Int
  BY PowNat, TokenNat
<1>2. /\ held \in Nat /\ Balance(spent, ptr, held, N, C) /\ b * C <= held
      /\ a \in Nat /\ b \in Nat /\ a <= b
      /\ Trail(ptr, sync1, sync2, a, b, w)
  BY DEF Side, Trail
<1>3. i \in {0, 1} /\ s \in {0, 1} /\ i \in Int /\ s \in Int /\ (dec <=> s = 1)
  BY DEF Inc
<1>4. b * C <= held - s /\ held - s \in Nat
  <2>1. CASE dec
    <3>1. ptr \in Int /\ w \in Nat
      BY <1>1
    <3>2. b * C <= held - 1 /\ held - 1 \in Nat
      BY <2>1, <3>1, SideSpends
    <3>3. QED
      BY <3>2, <2>1, <1>3
  <2>2. CASE ~dec
    <3>1. held - s = held
      BY <2>2, <1>2, <1>3
    <3>2. QED
      BY <3>1, <1>2
  <2>3. QED
    BY <2>1, <2>2
<1>5. ptr2 = (ptr + i) % N /\ spent2 = (spent + s) % (N * C) /\ held2 = held - s + i * C
  BY DEF Ahead, Settled
<1>6. PICK a2 \in Nat, b2 \in Nat :
        Trail(ptr2, s1, s2, a2, b2, w) /\ Aged(io, a, b, i, a2, b2)
  BY <1>2, TrailMoves
<1> HIDE DEF N, C, i, s
<1>7. Balance(spent2, ptr2, held2, N, C)
  <2>1. /\ N \in Nat \ {0} /\ C \in Nat \ {0} /\ ptr \in Int /\ held \in Int
        /\ Balance(spent, ptr, held, N, C) /\ i \in Int /\ s \in Int
        /\ spent2 = (spent + s) % (N * C) /\ ptr2 = (ptr + i) % N
        /\ held2 = held - s + i * C
    BY <1>1, <1>2, <1>3, <1>5
  <2>2. QED
    BY ONLY <2>1, NewAccount
<1>8. held2 \in Nat /\ (b + i) * C <= held2 /\ (a + i) * C <= held2
  <2>1. (b + i) * C = b * C + i * C /\ (a + i) * C = a * C + i * C
    BY <1>1, <1>2, <1>3, SMTT(30)
  <2>2. a * C <= b * C
    BY <1>1, <1>2, SMTT(30)
  <2>3. i * C \in Nat /\ a * C \in Nat /\ b * C \in Nat
    BY <1>1, <1>2, <1>3
  <2>4. QED
    BY <2>1, <2>2, <2>3, <1>2, <1>3, <1>4, <1>5
<1>9. b2 * C <= held2
  <2>1. b2 = a + i \/ b2 = b + i
    BY <1>6 DEF Aged
  <2>2. QED
    BY <2>1, <1>8
<1>10. Side(spent2, ptr2, held2, s1, s2, a2, b2, w)
  BY <1>6, <1>7, <1>8, <1>9 DEF Side, N, C
<1>11. QED
  BY <1>6, <1>10 DEF i
-----------------------------------------------------------------------------
(* The link's sizes, and its crossings, which code their pointers alike.   *)
RingWidth == lg_fifo_depth_p + 1

(* The sizes of the link.                                                  *)
LEMMA LinkSizes ==
  /\ lg_fifo_depth_p \in Nat \ {0} /\ TokenBits \in Nat \ {0} /\ RingWidth \in Nat \ {0}
  /\ ChannelDelay \in Nat \ {0}
  /\ CreditsPerToken \in Nat \ {0} /\ Size \in Nat \ {0} /\ 2^RingWidth = 2 * Size
  /\ 2^TokenBits \in Nat \ {0} /\ 2^TokenBits * CreditsPerToken = 4 * Size
  /\ max_tokens_p \in Nat /\ 2 * (max_tokens_p * CreditsPerToken) = Size
  /\ pos_credit_ctr!Modulus = 4 * Size /\ neg_credit_ctr!Modulus = 4 * Size
  /\ pos_credit_ctr!CreditsPerToken = CreditsPerToken
  /\ neg_credit_ctr!CreditsPerToken = CreditsPerToken
<1> DEFINE l == lg_fifo_depth_p
           g == lg_credit_to_token_decimation_p
           h == l - 1 - g
<1>1. g \in Nat /\ l \in Nat \ {0} /\ h \in Nat /\ ChannelDelay \in Nat \ {0}
  BY LinkAssumption DEF LinkAssumption
<1>2. /\ TokenBits \in Nat \ {0} /\ RingWidth \in Nat \ {0} /\ TokenBits + g = (l + 1) + 1
      /\ h + g = l - 1 /\ l - 1 \in Nat /\ (l - 1) + 1 = l
  BY <1>1 DEF TokenBits, RingWidth
<1>3. /\ 2^g \in Nat \ {0} /\ 2^l \in Nat \ {0} /\ 2^TokenBits \in Nat \ {0}
      /\ 2^h \in Nat \ {0}
  BY <1>1, <1>2, PowNat
<1>4. 2^(l + 1) = 2 * 2^l /\ 2^((l + 1) + 1) = 2 * 2^(l + 1) /\ 2^l = 2 * 2^(l - 1)
  <2>1. l + 1 \in Nat /\ l \in Nat
    BY <1>1
  <2>2. 2^((l - 1) + 1) = 2 * 2^(l - 1)
    BY <1>2, PowStep
  <2>3. QED
    BY <2>1, <2>2, <1>2, PowStep
<1>5. 2^TokenBits * 2^g = 2^((l + 1) + 1) /\ 2^h * 2^g = 2^(l - 1)
  <2>1. 2^(TokenBits + g) = 2^TokenBits * 2^g /\ 2^(h + g) = 2^h * 2^g
    BY <1>1, <1>2, PowAdd
  <2>2. QED
    BY <2>1, <1>2
<1>6. 2^TokenBits * 2^g = 4 * 2^l /\ 2 * (2^h * 2^g) = 2^l
  BY <1>3, <1>4, <1>5
<1>7. CreditsPerToken = 2^g /\ Size = 2^l /\ max_tokens_p = 2^h /\ RingWidth = l + 1
  BY DEF CreditsPerToken, Size, max_tokens_p, RingWidth
<1>8. /\ pos_credit_ctr!CreditsPerToken = CreditsPerToken
      /\ neg_credit_ctr!CreditsPerToken = CreditsPerToken
  BY DEF pos_credit_ctr!CreditsPerToken, neg_credit_ctr!CreditsPerToken, CreditsPerToken
<1>9. /\ pos_credit_ctr!Modulus = 2^TokenBits * CreditsPerToken
      /\ neg_credit_ctr!Modulus = 2^TokenBits * CreditsPerToken
  BY <1>8 DEF pos_credit_ctr!Modulus, neg_credit_ctr!Modulus
<1> HIDE DEF l, g, h
<1>10. 2^RingWidth = 2 * Size
  BY <1>4, <1>7
<1>11. max_tokens_p \in Nat /\ 2 * (max_tokens_p * CreditsPerToken) = Size
  BY <1>3, <1>6, <1>7
<1>12. 2^TokenBits * CreditsPerToken = 4 * Size
  BY <1>6, <1>7
<1>13. QED
  BY <1>1, <1>2, <1>3, <1>7, <1>8, <1>9, <1>10, <1>11, <1>12 DEF l

(* The link's crossings code their pointers alike.                         *)
LEMMA LinkCode ==
  /\ \A n, w : pos_credit_ctr!bapg!Gray(n, w) = Gray(n, w)
  /\ \A n, w : neg_credit_ctr!bapg!Gray(n, w) = Gray(n, w)
  /\ \A n, w : baf!bapg_wr!Gray(n, w) = Gray(n, w)
  /\ \A n, w : baf!bapg_rd!Gray(n, w) = Gray(n, w)
  /\ \A x, y : pos_credit_ctr!bapg!Sampled(x, y) = Sampled(x, y)
  /\ \A x, y : neg_credit_ctr!bapg!Sampled(x, y) = Sampled(x, y)
  /\ \A x, y : baf!bapg_wr!Sampled(x, y) = Sampled(x, y)
  /\ \A x, y : baf!bapg_rd!Sampled(x, y) = Sampled(x, y)
  /\ \A x, y : baf!bapg_wr!Xor(x, y) = Xor(x, y)
<1>1. \A n, w : pos_credit_ctr!bapg!Gray(n, w) = Gray(n, w)
  BY DEF pos_credit_ctr!bapg!Gray, pos_credit_ctr!bapg!Bit, Gray, credit!bapg!Gray,
         credit!bapg!Bit
<1>2. \A n, w : neg_credit_ctr!bapg!Gray(n, w) = Gray(n, w)
  BY DEF neg_credit_ctr!bapg!Gray, neg_credit_ctr!bapg!Bit, Gray, credit!bapg!Gray,
         credit!bapg!Bit
<1>3. \A n, w : baf!bapg_wr!Gray(n, w) = Gray(n, w)
  BY DEF baf!bapg_wr!Gray, baf!bapg_wr!Bit, Gray, credit!bapg!Gray, credit!bapg!Bit
<1>4. \A n, w : baf!bapg_rd!Gray(n, w) = Gray(n, w)
  BY DEF baf!bapg_rd!Gray, baf!bapg_rd!Bit, Gray, credit!bapg!Gray, credit!bapg!Bit
<1>5. /\ \A x, y : pos_credit_ctr!bapg!Sampled(x, y) = Sampled(x, y)
      /\ \A x, y : neg_credit_ctr!bapg!Sampled(x, y) = Sampled(x, y)
  BY DEF pos_credit_ctr!bapg!Sampled, neg_credit_ctr!bapg!Sampled, Sampled,
         credit!bapg!Sampled
<1>6. /\ \A x, y : baf!bapg_wr!Sampled(x, y) = Sampled(x, y)
      /\ \A x, y : baf!bapg_rd!Sampled(x, y) = Sampled(x, y)
  BY DEF baf!bapg_wr!Sampled, baf!bapg_rd!Sampled, Sampled, credit!bapg!Sampled
<1>7. \A x, y : baf!bapg_wr!Xor(x, y) = Xor(x, y)
  BY DEF baf!bapg_wr!Xor, Xor, credit!bapg!Xor
<1>8. QED
  BY <1>1, <1>2, <1>3, <1>4, <1>5, <1>6, <1>7

(* A pointer that counts, or not, and what its launch flop then holds.     *)
Ticks(inc, ptr, p1, launch, ptr2, p12, launch2, w) ==
  /\ ptr2 = IF inc THEN p1 ELSE ptr
  /\ p12 = IF inc THEN (p1 + 1) % 2^w ELSE p1
  /\ launch2 = IF inc THEN Gray(p1, w) ELSE launch

(* A tick keeps a pointer and its code in step.                            *)
LEMMA PointerTicks ==
  ASSUME NEW w \in Nat \ {0}, NEW ptr, NEW p1, NEW launch, Pointer(ptr, p1, launch, w),
         NEW inc \in BOOLEAN, NEW ptr2, NEW p12, NEW launch2,
         Ticks(inc, ptr, p1, launch, ptr2, p12, launch2, w)
  PROVE  /\ Pointer(ptr2, p12, launch2, w)
         /\ Ahead(ptr2, ptr, Inc(inc), 2^w)
         /\ launch = Gray(ptr, w) /\ launch2 = Gray(ptr2, w)
<1>1. /\ ptr2 = IF inc THEN p1 ELSE ptr
      /\ p12 = IF inc THEN (p1 + 1) % 2^w ELSE p1
      /\ launch2 = IF inc THEN Gray(p1, w) ELSE launch
  BY DEF Ticks
<1>2. Pointer(ptr2, p12, launch2, w) /\ ptr2 = (ptr + Inc(inc)) % 2^w
  BY <1>1, PointerTick
<1>3. launch = Gray(ptr, w) /\ launch2 = Gray(ptr2, w)
  BY <1>2 DEF Pointer
<1>4. QED
  BY <1>2, <1>3 DEF Ahead

-----------------------------------------------------------------------------
(* What an edge does in the domain of each clock, the token line's first.  *)
TokenCycle(pos, neg) ==
  /\ ~(pos /\ neg)
  /\ pos \/ neg => token_edges > 0
  /\ token_clk_i' \in {0, 1}
  /\ Ticks(pos, pos_ptr, pos_ptr_p1, pos_launch, pos_ptr', pos_ptr_p1', pos_launch', TokenBits)
  /\ Ticks(neg, neg_ptr, neg_ptr_p1, neg_launch, neg_ptr', neg_ptr_p1', neg_launch', TokenBits)

(* An edge of the token line, or none, is a token of one side or none.     *)
LEMMA TokenDomain ==
  ASSUME LinkTypeOK, NEW token \in BOOLEAN,
         IF token THEN TokenEdge ELSE UNCHANGED <<token_clk_i, posw, negw>>
  PROVE  \E pos, neg \in BOOLEAN : (token <=> pos \/ neg) /\ TokenCycle(pos, neg)
<1>0. token_clk_i \in {0, 1}
  BY DEF LinkTypeOK
<1>1. /\ UNCHANGED posw =>
           Ticks(FALSE, pos_ptr, pos_ptr_p1, pos_launch,
                 pos_ptr', pos_ptr_p1', pos_launch', TokenBits)
      /\ UNCHANGED negw =>
           Ticks(FALSE, neg_ptr, neg_ptr_p1, neg_launch,
                 neg_ptr', neg_ptr_p1', neg_launch', TokenBits)
  BY DEF posw, negw, Ticks
<1>2. /\ pos_credit_ctr!bapg!WEdge(FALSE, TRUE) =>
           Ticks(TRUE, pos_ptr, pos_ptr_p1, pos_launch,
                 pos_ptr', pos_ptr_p1', pos_launch', TokenBits)
      /\ neg_credit_ctr!bapg!WEdge(FALSE, TRUE) =>
           Ticks(TRUE, neg_ptr, neg_ptr_p1, neg_launch,
                 neg_ptr', neg_ptr_p1', neg_launch', TokenBits)
  BY LinkCode DEF pos_credit_ctr!bapg!WEdge, neg_credit_ctr!bapg!WEdge, Ticks
<1>3. CASE ~token
  <2>1. TokenCycle(FALSE, FALSE)
    BY <1>0, <1>1, <1>3 DEF TokenCycle
  <2>2. QED
    BY <2>1, <1>3
<1>4. CASE token /\ token_clk_i = 0
  <2>1. token_edges > 0 /\ token_clk_i' \in {0, 1}
    BY <1>4 DEF TokenEdge
  <2>2. /\ Ticks(TRUE, pos_ptr, pos_ptr_p1, pos_launch,
                 pos_ptr', pos_ptr_p1', pos_launch', TokenBits)
        /\ Ticks(FALSE, neg_ptr, neg_ptr_p1, neg_launch,
                 neg_ptr', neg_ptr_p1', neg_launch', TokenBits)
    BY <1>1, <1>2, <1>4 DEF TokenEdge
  <2>3. TokenCycle(TRUE, FALSE)
    BY <2>1, <2>2 DEF TokenCycle
  <2>4. QED
    BY <2>3, <1>4
<1>5. CASE token /\ token_clk_i = 1
  <2>1. token_edges > 0 /\ token_clk_i' \in {0, 1}
    BY <1>5 DEF TokenEdge
  <2>2. /\ Ticks(FALSE, pos_ptr, pos_ptr_p1, pos_launch,
                 pos_ptr', pos_ptr_p1', pos_launch', TokenBits)
        /\ Ticks(TRUE, neg_ptr, neg_ptr_p1, neg_launch,
                 neg_ptr', neg_ptr_p1', neg_launch', TokenBits)
    <3>1. token_clk_i # 0 /\ TokenEdge
      BY <1>5
    <3>2. QED
      BY <3>1, <1>1, <1>2 DEF TokenEdge
  <2>3. TokenCycle(FALSE, TRUE)
    BY <2>1, <2>2 DEF TokenCycle
  <2>4. QED
    BY <2>3, <1>5
<1>6. QED
  BY <1>0, <1>3, <1>4, <1>5

(* The receiver's core clock.                                              *)
CoreCycle(deque) ==
  /\ Ticks(deque, baf_r_ptr_r, baf_r_ptr_p1_r, baf_r_launch,
           baf_r_ptr_r', baf_r_ptr_p1_r', baf_r_launch', RingWidth)
  /\ deque => baf_r_launch # baf_w_sync2
  /\ core_credits_sent_r' = (core_credits_sent_r + Inc(deque)) % (2 * CreditsPerToken)

(* An edge of the receiver's core clock, or none, takes a word or none.    *)
LEMMA CoreDomain ==
  ASSUME LinkTypeOK, NEW core \in BOOLEAN, NEW deque \in BOOLEAN, deque => core,
         IF core THEN DownstreamCore(deque) ELSE UNCHANGED <<bafr, core_credits_sent_r>>
  PROVE  CoreCycle(deque)
<1>1. CASE core
  <2>1. DownstreamCore(deque)
    BY <1>1
  <2>2. Ticks(deque, baf_r_ptr_r, baf_r_ptr_p1_r, baf_r_launch,
              baf_r_ptr_r', baf_r_ptr_p1_r', baf_r_launch', RingWidth)
    BY <2>1, LinkCode DEF DownstreamCore, baf!bapg_rd!WEdge, Ticks, RingWidth
  <2>3. deque => baf_r_launch # baf_w_sync2
    BY <2>1 DEF DownstreamCore, core_async_fifo_valid_lo, baf!r_valid_o
  <2>4. core_credits_sent_r' = (core_credits_sent_r + Inc(deque)) % (2 * CreditsPerToken)
    BY <2>1 DEF DownstreamCore, Inc
  <2>5. QED
    BY <2>2, <2>3, <2>4 DEF CoreCycle
<1>2. CASE ~core
  <2>1. ~deque /\ UNCHANGED <<bafr, core_credits_sent_r>>
    BY <1>2
  <2>2. Ticks(deque, baf_r_ptr_r, baf_r_ptr_p1_r, baf_r_launch,
              baf_r_ptr_r', baf_r_ptr_p1_r', baf_r_launch', RingWidth)
    BY <2>1 DEF bafr, Ticks
  <2>3. core_credits_sent_r' = (core_credits_sent_r + Inc(deque)) % (2 * CreditsPerToken)
    <3> DEFINE c == core_credits_sent_r
               M == 2 * CreditsPerToken
    <3>1. M \in Nat \ {0} /\ c \in 0 .. M - 1
      BY LinkSizes DEF LinkTypeOK
    <3> HIDE DEF M
    <3>2. c + 0 = c /\ c % M = c
      BY <3>1, ModSmall
    <3>3. QED
      BY <2>1, <3>2 DEF Inc, M
  <2>4. QED
    BY <2>1, <2>2, <2>3 DEF CoreCycle
<1>3. QED
  BY <1>1, <1>2
(* The forwarded clock of the sender, on both of its ends.  A credit may   *)
(* be spent on a word x, and the oldest word on the wires is enqueued.     *)
IoCycle(io, pos, neg, enq, x) ==
  /\ pos_spent' = (pos_spent + Inc(pos)) % (4 * Size)
  /\ neg_spent' = (neg_spent + Inc(neg)) % (4 * Size)
  /\ pos => io /\ SideAvail(pos_spent, pos_sync2, TokenBits)
  /\ neg => io /\ SideAvail(neg_spent, neg_sync2, TokenBits)
  /\ ~(pos /\ neg)
  /\ io_token_alternator_r' \in 0 .. 2 * CreditsPerToken - 1
  /\ Latched(io, pos_launch, pos_launch', pos_sync1, pos_sync2, pos_sync1', pos_sync2')
  /\ Latched(io, neg_launch, neg_launch', neg_sync1, neg_sync2, neg_sync1', neg_sync2')
  /\ Latched(io, baf_r_launch, baf_r_launch',
             baf_r_sync1, baf_r_sync2, baf_r_sync1', baf_r_sync2')
  /\ Ticks(enq, baf_w_ptr_r, baf_w_ptr_p1_r, baf_w_launch,
           baf_w_ptr_r', baf_w_ptr_p1_r', baf_w_launch', RingWidth)
  /\ enq <=> io /\ io_valid_i
  /\ chan' = IF io THEN <<x>> \o SubSeq(chan, 1, ChannelDelay - 1) ELSE chan
  /\ x \in Data \cup {None}
  /\ pos \/ neg <=> io /\ x # None

(* What is not spent stays.                                                *)
LEMMA SpentStays ==
  ASSUME LinkTypeOK
  PROVE  /\ (pos_spent + 0) % (4 * Size) = pos_spent
         /\ (neg_spent + 0) % (4 * Size) = neg_spent
<1> DEFINE M == 4 * Size
<1>1. M \in Nat \ {0} /\ pos_spent \in 0 .. M - 1 /\ neg_spent \in 0 .. M - 1
  BY LinkSizes DEF LinkTypeOK, pos_credit_ctr!RCounters, neg_credit_ctr!RCounters
<1> HIDE DEF M
<1>2. pos_spent % M = pos_spent /\ neg_spent % M = neg_spent
  BY <1>1, ModSmall
<1>3. pos_spent + 0 = pos_spent /\ neg_spent + 0 = neg_spent
  BY <1>1
<1>4. QED
  BY <1>2, <1>3 DEF M

(* An edge of io_clk, or none, sends a word on one side or none.           *)
LEMMA IoDomain ==
  ASSUME LinkTypeOK, NEW io \in BOOLEAN, NEW d \in Data \cup {None}, NEW io_ready_i \in BOOLEAN,
         IF io
           THEN /\ Upstream(d, io_ready_i)
                /\ DownstreamIo
                /\ baf!bapg_rd!REdge
           ELSE UNCHANGED <<io_token_alternator_r, posr, negr, chan, bafw,
                  baf_r_sync1, baf_r_sync2>>
  PROVE  \E pos, neg, enq \in BOOLEAN : \E x :
           /\ IoCycle(io, pos, neg, enq, x)
           /\ pos \/ neg <=> io /\ io_async_fifo_yumi(d, io_ready_i)
           /\ pos \/ neg => x = d
<1>1. CASE ~io
  <2>1. UNCHANGED <<io_token_alternator_r, posr, negr, chan, bafw, baf_r_sync1, baf_r_sync2>>
    BY <1>1
  <2>2. /\ pos_spent' = pos_spent /\ neg_spent' = neg_spent /\ chan' = chan
        /\ pos_sync1' = pos_sync1 /\ pos_sync2' = pos_sync2
        /\ neg_sync1' = neg_sync1 /\ neg_sync2' = neg_sync2
        /\ baf_r_sync1' = baf_r_sync1 /\ baf_r_sync2' = baf_r_sync2
        /\ baf_w_ptr_r' = baf_w_ptr_r /\ baf_w_ptr_p1_r' = baf_w_ptr_p1_r
        /\ baf_w_launch' = baf_w_launch
        /\ io_token_alternator_r' = io_token_alternator_r
    BY <2>1 DEF posr, negr, bafw
  <2>3. PICK no \in BOOLEAN : ~no
    OBVIOUS
  <2>4. Inc(no) = 0 /\ io_token_alternator_r' \in 0 .. 2 * CreditsPerToken - 1
    BY <2>2, <2>3 DEF Inc, LinkTypeOK
  <2>5. Ticks(no, baf_w_ptr_r, baf_w_ptr_p1_r, baf_w_launch,
              baf_w_ptr_r', baf_w_ptr_p1_r', baf_w_launch', RingWidth)
    BY <2>2, <2>3 DEF Ticks
  <2>6. /\ Latched(io, pos_launch, pos_launch', pos_sync1, pos_sync2, pos_sync1', pos_sync2')
        /\ Latched(io, neg_launch, neg_launch', neg_sync1, neg_sync2, neg_sync1', neg_sync2')
        /\ Latched(io, baf_r_launch, baf_r_launch',
                   baf_r_sync1, baf_r_sync2, baf_r_sync1', baf_r_sync2')
    BY <2>2, <1>1 DEF Latched
  <2>7. IoCycle(io, no, no, no, None)
    BY <2>2, <2>3, <2>4, <2>5, <2>6, <1>1, SpentStays DEF IoCycle
  <2>8. QED
    BY <2>7, <2>3, <1>1
<1>2. CASE io
  <2> DEFINE yumi == io_async_fifo_yumi(d, io_ready_i)
             x == IF yumi THEN d ELSE None
  <2>1. Upstream(d, io_ready_i) /\ DownstreamIo /\ baf!bapg_rd!REdge
    BY <1>2
  <2>2. PICK pos \in BOOLEAN, neg \in BOOLEAN, enq \in BOOLEAN :
          /\ pos <=> yumi /\ ~io_on_negedge_token
          /\ neg <=> yumi /\ io_on_negedge_token
          /\ enq <=> io_valid_i
    <3>1. PICK pos \in BOOLEAN : pos <=> yumi /\ ~io_on_negedge_token
      OBVIOUS
    <3>2. PICK neg \in BOOLEAN : neg <=> yumi /\ io_on_negedge_token
      OBVIOUS
    <3>3. PICK enq \in BOOLEAN : enq <=> io_valid_i
      OBVIOUS
    <3>4. QED
      BY <3>1, <3>2, <3>3
  <2>3. (yumi => io_credit_avail /\ d # None) /\ (pos \/ neg <=> yumi) /\ ~(pos /\ neg)
    BY <2>2 DEF io_async_fifo_yumi
  <2>4. /\ pos_spent' = (pos_spent + Inc(pos)) % (4 * Size)
        /\ neg_spent' = (neg_spent + Inc(neg)) % (4 * Size)
    BY <2>1, <2>2, LinkSizes
    DEF Upstream, pos_credit_ctr!Count, neg_credit_ctr!Count, Inc
  <2>5. /\ pos => SideAvail(pos_spent, pos_sync2, TokenBits)
        /\ neg => SideAvail(neg_spent, neg_sync2, TokenBits)
    <3>1. pos => pos_credit_ctr!r_credits_avail_o
      BY <2>2, <2>3 DEF io_credit_avail
    <3>2. neg => neg_credit_ctr!r_credits_avail_o
      BY <2>2, <2>3 DEF io_credit_avail
    <3>3. QED
      BY <3>1, <3>2, LinkCode, LinkSizes
      DEF SideAvail, pos_credit_ctr!r_credits_avail_o, neg_credit_ctr!r_credits_avail_o,
          pos_credit_ctr!r_counter_r_lo_bits_nonzero, pos_credit_ctr!r_counter_r_hi_bits,
          neg_credit_ctr!r_counter_r_lo_bits_nonzero, neg_credit_ctr!r_counter_r_hi_bits
  <2>6. io_token_alternator_r' \in 0 .. 2 * CreditsPerToken - 1
    <3> DEFINE M == 2 * CreditsPerToken
               n == io_token_alternator_r + IF yumi THEN 1 ELSE 0
    <3>1. M \in Nat \ {0} /\ n \in Int
      BY LinkSizes DEF LinkTypeOK
    <3>2. io_token_alternator_r' = n % M
      BY <2>1 DEF Upstream
    <3> HIDE DEF M, n
    <3>3. n % M \in 0 .. M - 1
      BY <3>1, Division
    <3>4. QED
      BY <3>2, <3>3 DEF M
  <2>7. /\ Latched(io, pos_launch, pos_launch', pos_sync1, pos_sync2, pos_sync1', pos_sync2')
        /\ Latched(io, neg_launch, neg_launch', neg_sync1, neg_sync2, neg_sync1', neg_sync2')
        /\ Latched(io, baf_r_launch, baf_r_launch',
                   baf_r_sync1, baf_r_sync2, baf_r_sync1', baf_r_sync2')
    BY <1>2, <2>1, LinkCode
    DEF Latched, Upstream, pos_credit_ctr!bapg!REdge, neg_credit_ctr!bapg!REdge,
        baf!bapg_rd!REdge
  <2>8. Ticks(enq, baf_w_ptr_r, baf_w_ptr_p1_r, baf_w_launch,
              baf_w_ptr_r', baf_w_ptr_p1_r', baf_w_launch', RingWidth)
    BY <2>1, <2>2, LinkCode DEF DownstreamIo, baf!bapg_wr!WEdge, Ticks, RingWidth
  <2>9. chan' = <<x>> \o SubSeq(chan, 1, ChannelDelay - 1)
    BY <2>1 DEF Upstream
  <2>10. x \in Data \cup {None} /\ (pos \/ neg <=> x # None) /\ (pos \/ neg => x = d)
    BY <2>3
  <2> HIDE DEF x, yumi
  <2>11. IoCycle(io, pos, neg, enq, x)
    BY <1>2, <2>2, <2>3, <2>4, <2>5, <2>6, <2>7, <2>8, <2>9, <2>10 DEF IoCycle
  <2>12. QED
    BY <1>2, <2>3, <2>10, <2>11 DEF yumi
<1>3. QED
  BY <1>1, <1>2

(* All of them together: which clocks tick, what counts, what is spent and *)
(* what is taken.                                                          *)
Cycles == [io : BOOLEAN, deque : BOOLEAN, postoken : BOOLEAN, negtoken : BOOLEAN,
           pos : BOOLEAN, neg : BOOLEAN, enq : BOOLEAN, x : Data \cup {None}]

LinkCycle(cyc) ==
  /\ TokenCycle(cyc.postoken, cyc.negtoken)
  /\ CoreCycle(cyc.deque)
  /\ IoCycle(cyc.io, cyc.pos, cyc.neg, cyc.enq, cyc.x)
  /\ \E core \in BOOLEAN : Latched(core, baf_w_launch, baf_w_launch',
                                   baf_w_sync1, baf_w_sync2, baf_w_sync1', baf_w_sync2')
  /\ token_edges' = token_edges - Inc(cyc.postoken \/ cyc.negtoken)
                      + Inc(TokenLine(core_credits_sent_r') # TokenLine(core_credits_sent_r))
  /\ LET s == IF cyc.pos \/ cyc.neg THEN Append(sent, cyc.x) ELSE sent
     IN  sent' = IF cyc.deque /\ s # <<>> THEN Tail(s) ELSE s

(* Every step of the link is such a cycle.                                 *)
LEMMA LinkCycleOf ==
  ASSUME LinkTypeOK, Next
  PROVE  \E cyc \in Cycles : LinkCycle(cyc)
<1>1. PICK io \in BOOLEAN, core \in BOOLEAN, token \in BOOLEAN, io_ready_i \in BOOLEAN,
           deque \in BOOLEAN, d \in Data \cup {None} :
        Edge(io, core, token, d, io_ready_i, deque)
  BY DEF Next
<1>2. deque => core
  BY <1>1 DEF Edge
<1>3. IF token THEN TokenEdge ELSE UNCHANGED <<token_clk_i, posw, negw>>
  BY <1>1 DEF Edge
<1>4. IF core THEN DownstreamCore(deque) ELSE UNCHANGED <<bafr, core_credits_sent_r>>
  BY <1>1 DEF Edge
<1>5. IF io
        THEN /\ Upstream(d, io_ready_i)
             /\ DownstreamIo
             /\ baf!bapg_rd!REdge
        ELSE UNCHANGED <<io_token_alternator_r, posr, negr, chan, bafw, baf_r_sync1, baf_r_sync2>>
  BY <1>1 DEF Edge
<1>6. PICK postoken \in BOOLEAN, negtoken \in BOOLEAN :
        (token <=> postoken \/ negtoken) /\ TokenCycle(postoken, negtoken)
  BY <1>3, TokenDomain
<1>7. CoreCycle(deque)
  BY <1>2, <1>4, CoreDomain
<1>8. \E pos, neg, enq \in BOOLEAN : \E x :
        /\ IoCycle(io, pos, neg, enq, x)
        /\ pos \/ neg <=> io /\ io_async_fifo_yumi(d, io_ready_i)
        /\ pos \/ neg => x = d
  BY <1>5, IoDomain
<1>9. Latched(core, baf_w_launch, baf_w_launch',
              baf_w_sync1, baf_w_sync2, baf_w_sync1', baf_w_sync2')
  BY <1>1, LinkCode DEF Edge, Latched, baf!bapg_wr!REdge
<1>10. token_edges' = token_edges - Inc(token)
                        + Inc(TokenLine(core_credits_sent_r') # TokenLine(core_credits_sent_r))
  BY <1>1 DEF Edge, Inc
<1>11. LET s == IF io /\ io_async_fifo_yumi(d, io_ready_i) THEN Append(sent, d) ELSE sent
       IN  sent' = IF deque /\ s # <<>> THEN Tail(s) ELSE s
  BY <1>1, <1>2 DEF Edge
<1>12. Inc(token) = Inc(postoken \/ negtoken)
  BY <1>6 DEF Inc
<1>13. PICK pos \in BOOLEAN, neg \in BOOLEAN, enq \in BOOLEAN : \E x :
         /\ IoCycle(io, pos, neg, enq, x)
         /\ pos \/ neg <=> io /\ io_async_fifo_yumi(d, io_ready_i)
         /\ pos \/ neg => x = d
  BY <1>8
<1>14. PICK x :
         /\ IoCycle(io, pos, neg, enq, x)
         /\ pos \/ neg <=> io /\ io_async_fifo_yumi(d, io_ready_i)
         /\ pos \/ neg => x = d
  BY <1>13
<1>15. LET s == IF pos \/ neg THEN Append(sent, x) ELSE sent
       IN  sent' = IF deque /\ s # <<>> THEN Tail(s) ELSE s
  BY <1>11, <1>14
<1> DEFINE cyc == [io |-> io, deque |-> deque, postoken |-> postoken, negtoken |-> negtoken,
                  pos |-> pos, neg |-> neg, enq |-> enq, x |-> x]
<1>16. cyc \in Cycles
  BY <1>14 DEF IoCycle, Cycles
<1>17. /\ cyc.io = io /\ cyc.deque = deque /\ cyc.postoken = postoken
       /\ cyc.negtoken = negtoken /\ cyc.pos = pos /\ cyc.neg = neg /\ cyc.enq = enq
       /\ cyc.x = x
  OBVIOUS
<1> HIDE DEF cyc
<1>18. LinkCycle(cyc)
  BY <1>6, <1>7, <1>9, <1>10, <1>12, <1>14, <1>15, <1>17 DEF LinkCycle
<1>19. QED
  BY <1>16, <1>18
-----------------------------------------------------------------------------
(* A word taken counts towards the next toggle of the token line, or makes *)
(* it.                                                                     *)
LEMMA Toggle ==
  ASSUME NEW C \in Nat \ {0}, NEW c \in 0 .. 2 * C - 1, NEW e \in {0, 1},
         NEW c2, c2 = (c + e) % (2 * C)
  PROVE  /\ c2 \in 0 .. 2 * C - 1
         /\ (c2 % C) + Inc(c2 \div C # c \div C) * C = (c % C) + e
<1> DEFINE k == c \div C
           l == c % C
           M == 2 * C
<1>1. k \in Int /\ l \in 0 .. C - 1 /\ c = C * k + l
  BY Division
<1> HIDE DEF k, l
<1>2. M \in Nat \ {0} /\ c + e \in Int
  OBVIOUS
<1>3. c2 \in 0 .. M - 1
  <2> DEFINE y == c + e
  <2>1. y \in Int /\ M \in Nat \ {0} /\ c2 = y % M
    BY <1>2
  <2> HIDE DEF y, M
  <2>2. QED
    BY <2>1, Division
<1>4. k = 0 \/ k = 1
  <2>1. k <= -1 => C * k <= -C
    BY <1>1, SMTT(30)
  <2>2. k >= 2 => C * k >= 2 * C
    BY <1>1, SMTT(30)
  <2>3. C * k \in Int
    BY <1>1
  <2>4. QED
    BY <2>1, <2>2, <2>3, <1>1
<1>5. C * 0 = 0 /\ C * 1 = C /\ 0 * C = 0 /\ 1 * C = C
  OBVIOUS
<1>6. CASE e = 0
  <2>1. c + e = c /\ c \in 0 .. M - 1
    BY <1>6
  <2>2. c2 = c
    <3> HIDE DEF M
    <3>1. QED
      BY <2>1, <1>2, ModSmall DEF M
  <2>3. QED
    BY <2>2, <1>1, <1>3, <1>5, <1>6 DEF Inc, l
<1>7. CASE e = 1 /\ l + 1 < C
  <2>1. c + e = C * k + (l + 1) /\ c + e \in 0 .. M - 1 /\ l + 1 \in 0 .. C - 1
    BY <1>1, <1>4, <1>5, <1>7
  <2>2. c2 = c + e
    <3> DEFINE y == c + e
    <3>1. y \in 0 .. M - 1 /\ c2 = y % M
      BY <2>1
    <3> HIDE DEF y, M
    <3>2. c2 = y
      BY <3>1, <1>2, ModSmall
    <3>3. QED
      BY <3>2 DEF y
  <2>3. c2 \div C = k /\ c2 % C = l + 1
    BY <2>1, <2>2, <1>1, DivisionUnique
  <2>4. QED
    BY <2>3, <1>1, <1>3, <1>5, <1>7 DEF Inc, k, l
<1>8. CASE e = 1 /\ l + 1 = C /\ k = 0
  <2>1. c + e = C /\ C \in 0 .. M - 1
    BY <1>1, <1>5, <1>8
  <2>2. c2 = C
    <3> HIDE DEF M
    <3>1. QED
      BY <2>1, <1>2, ModSmall DEF M
  <2>3. c2 \div C = 1 /\ c2 % C = 0
    <3>1. c2 = C * 1 + 0 /\ 0 \in 0 .. C - 1 /\ 1 \in Int /\ c2 \in Int
      BY <2>2
    <3>2. QED
      BY <3>1, DivisionUnique
  <2>4. QED
    BY <2>3, <1>1, <1>3, <1>5, <1>8 DEF Inc, k, l
<1>9. CASE e = 1 /\ l + 1 = C /\ k = 1
  <2>1. c + e = M
    BY <1>1, <1>5, <1>9
  <2>2. c2 = 0
    <3>1. M = M * 1 + 0 /\ 0 \in 0 .. M - 1 /\ 1 \in Int /\ M \in Int
      BY <1>2
    <3> HIDE DEF M
    <3>2. M % M = 0
      BY <3>1, <1>2, DivisionUnique
    <3>3. QED
      BY <2>1, <3>2 DEF M
  <2>3. c2 \div C = 0 /\ c2 % C = 0
    BY <2>2, ModSmall
  <2>4. QED
    BY <2>3, <1>1, <1>3, <1>5, <1>9 DEF Inc, k, l
<1>10. l + 1 < C \/ l + 1 = C
  BY <1>1
<1>11. QED
  BY <1>4, <1>6, <1>7, <1>8, <1>9, <1>10

(* The line toggles as the count of words taken passes a token, and loses  *)
(* the tokens that the sender counts.                                      *)
EdgesMove(tokens) ==
  token_edges' = token_edges - tokens
    + Inc(TokenLine(core_credits_sent_r') # TokenLine(core_credits_sent_r))

(* ret credits are on their way back; e more start, and a number of tokens *)
(* of them arrive.                                                         *)
Returns(ret, ret2, e, tokens, C) ==
  ret2 = ret + e - tokens * C /\ tokens * C <= ret

(* Credits come back in whole tokens, and none is lost on the way.         *)
LEMMA TokensBack ==
  ASSUME LinkTypeOK, NEW deque \in BOOLEAN, CoreCycle(deque),
         NEW tokens \in {0, 1}, tokens <= token_edges, EdgesMove(tokens)
  PROVE  /\ core_credits_sent_r' \in 0 .. 2 * CreditsPerToken - 1
         /\ token_edges' \in Nat
         /\ Returning \in Nat
         /\ Returns(Returning, Returning', Inc(deque), tokens, CreditsPerToken)
<1> DEFINE C == CreditsPerToken
           c == core_credits_sent_r
           c2 == core_credits_sent_r'
           e == Inc(deque)
           t == Inc(c2 \div C # c \div C)
           l == c % C
           l2 == c2 % C
           n == token_edges
           n2 == token_edges'
<1>1. /\ C \in Nat \ {0} /\ c \in 0 .. 2 * C - 1 /\ e \in {0, 1} /\ c2 = (c + e) % (2 * C)
      /\ t \in {0, 1} /\ n \in Nat /\ n2 = n - tokens + t
  BY LinkSizes DEF LinkTypeOK, CoreCycle, Inc, TokenLine, EdgesMove
<1>2. Returning = l + n * C /\ Returning' = l2 + n2 * C
  BY DEF Returning, CreditsPerToken
<1> HIDE DEF C, c, c2, e, n, n2
<1>3. c2 \in 0 .. 2 * C - 1 /\ l2 + t * C = l + e
  BY <1>1, Toggle
<1>4. l \in Nat /\ l2 \in Nat
  <2>1. c \in Int /\ c2 \in Int /\ C \in Nat \ {0}
    BY <1>1, <1>3
  <2>2. c % C \in 0 .. C - 1 /\ c2 % C \in 0 .. C - 1
    BY ONLY <2>1, Division
  <2>3. QED
    BY <2>2, <1>1
<1> HIDE DEF t, l, l2
<1>5. n2 * C = n * C - tokens * C + t * C
  BY <1>1, SMTT(30)
<1>6. /\ n * C \in Nat /\ tokens * C \in Nat /\ t * C \in Nat
      /\ tokens * C <= n * C
  <2>1. n * C \in Nat /\ tokens * C \in Nat /\ t * C \in Nat
    BY <1>1
  <2>2. tokens <= n
    BY DEF n
  <2>3. tokens * C <= n * C
    BY <2>2, <1>1, SMTT(30)
  <2>4. QED
    BY <2>1, <2>3
<1>7. l2 + n2 * C = l + n * C + e - tokens * C
  BY <1>1, <1>3, <1>4, <1>5, <1>6
<1>8. n2 \in Nat
  <2>1. tokens <= n
    BY DEF n
  <2>2. QED
    BY <2>1, <1>1
<1>9. l + n * C \in Nat /\ tokens * C <= l + n * C
  BY <1>4, <1>6
<1>10. QED
  BY <1>2, <1>3, <1>7, <1>8, <1>9 DEF C, c2, e, n2, Returns

-----------------------------------------------------------------------------
(* The wires between the chips shift.                                      *)
Shifted(ch, ch2, x, D) == ch2 = <<x>> \o SubSeq(ch, 1, D - 1)
Delayed(ch, ch2, D) == \A i \in 1 .. D - 1 : ch2[i + 1] = ch[i]
Occupied(ch, D, none) == {i \in 1 .. D : ch[i] # none}

Recount(ch, ch2, D, none) ==
  LET n == Cardinality(Occupied(ch, D, none))
      n2 == Cardinality(Occupied(ch2, D, none))
  IN  /\ n \in Nat /\ n2 \in Nat
      /\ n2 = n + Inc(ch2[1] # none) - Inc(ch[D] # none)

(* The wires hold words after a shift as before.                           *)
LEMMA ChanShift ==
  ASSUME NEW D \in Nat \ {0}, NEW W, NEW ch \in [1 .. D -> W], NEW x \in W,
         NEW ch2, Shifted(ch, ch2, x, D)
  PROVE  ch2 \in [1 .. D -> W] /\ ch2[1] = x /\ Delayed(ch, ch2, D)
<1> DEFINE s == SubSeq(ch, 1, D - 1)
<1>1. ch \in Seq(W) /\ Len(ch) = D
  OBVIOUS
<1>2. s \in Seq(W) /\ Len(s) = D - 1 /\ \A i \in 1 .. D - 1 : s[i] = ch[i]
  BY <1>1
<1> HIDE DEF s
<1>3. <<x>> \in Seq(W) /\ Len(<<x>>) = 1
  OBVIOUS
<1>4. <<x>> \o s \in Seq(W) /\ Len(<<x>> \o s) = D
  BY <1>2, <1>3
<1>5. (<<x>> \o s)[1] = x /\ \A i \in 1 .. D - 1 : (<<x>> \o s)[i + 1] = s[i]
  BY <1>2, <1>3
<1>6. ch2 = <<x>> \o s
  BY DEF s, Shifted
<1>7. ch2 \in Seq(W) /\ Len(ch2) = D
  BY <1>4, <1>6
<1>8. ch2 \in [1 .. D -> W]
  <2>1. DOMAIN ch2 = 1 .. D /\ \A i \in 1 .. D : ch2[i] \in W
    BY <1>7
  <2>2. ch2 = [i \in 1 .. D |-> ch2[i]]
    BY <2>1, <1>7
  <2>3. QED
    BY <2>1, <2>2
<1>9. QED
  BY <1>2, <1>5, <1>6, <1>8 DEF Delayed

(* A shift loses the word at the end and gains the new one.                *)
LEMMA WiresShift ==
  ASSUME NEW D \in Nat \ {0}, NEW W, NEW ch \in [1 .. D -> W], NEW ch2 \in [1 .. D -> W],
         NEW none, Delayed(ch, ch2, D)
  PROVE  Recount(ch, ch2, D, none)
<1> USE DEF Occupied, Delayed
<1> DEFINE A == Occupied(ch, D, none)
           B == Occupied(ch2, D, none)
           S == A \ {D}
           T == B \ {1}
           f == [i \in S |-> i + 1]
<1>1. IsFiniteSet(1 .. D)
  BY FS_Interval
<1>2. IsFiniteSet(A) /\ IsFiniteSet(B)
  <2>1. A \in SUBSET (1 .. D) /\ B \in SUBSET (1 .. D)
    OBVIOUS
  <2>2. QED
    BY <1>1, <2>1, FS_Subset
<1>3. Cardinality(A) \in Nat /\ Cardinality(B) \in Nat
  BY <1>2, FS_CardinalityType
<1>4. IsFiniteSet(S) /\ IsFiniteSet(T)
  BY <1>2, FS_RemoveElement
<1>5. /\ Cardinality(S) = Cardinality(A) - Inc(ch[D] # none)
      /\ Cardinality(T) = Cardinality(B) - Inc(ch2[1] # none)
  <2>1. (D \in A <=> ch[D] # none) /\ (1 \in B <=> ch2[1] # none)
    OBVIOUS
  <2>2. Cardinality(S) = IF D \in A THEN Cardinality(A) - 1 ELSE Cardinality(A)
    BY <1>2, FS_RemoveElement
  <2>3. Cardinality(T) = IF 1 \in B THEN Cardinality(B) - 1 ELSE Cardinality(B)
    BY <1>2, FS_RemoveElement
  <2> HIDE DEF S, T
  <2>4. QED
    BY <2>1, <2>2, <2>3, <1>3 DEF Inc
<1>6. ExistsBijection(S, T)
  <2>1. ASSUME NEW i \in S PROVE i \in 1 .. D - 1 /\ i + 1 \in T
    <3>1. i \in 1 .. D - 1 /\ ch[i] # none
      OBVIOUS
    <3>2. ch2[i + 1] # none /\ i + 1 \in 1 .. D /\ i + 1 # 1
      BY <3>1
    <3>3. QED
      BY <3>1, <3>2
  <2>2. ASSUME NEW j \in T PROVE \E i \in S : i + 1 = j
    <3>1. j - 1 \in 1 .. D - 1 /\ (j - 1) + 1 = j /\ ch2[j] # none
      OBVIOUS
    <3>2. ch2[(j - 1) + 1] = ch[j - 1]
      BY <3>1
    <3>3. ch[j - 1] # none /\ j - 1 # D /\ j - 1 \in 1 .. D
      BY <3>1, <3>2
    <3>4. j - 1 \in S
      BY <3>3
    <3>5. QED
      BY <3>1, <3>4
  <2>3. S \subseteq Int
    OBVIOUS
  <2> HIDE DEF S, T
  <2>4. f \in [S -> T] /\ \A i \in S : f[i] = i + 1
    BY <2>1
  <2>5. \A i, j \in S : f[i] = f[j] => i = j
    BY <2>3, <2>4
  <2>6. \A j \in T : \E i \in S : f[i] = j
    BY <2>2, <2>4
  <2> HIDE DEF f
  <2>7. QED
    BY <2>4, <2>5, <2>6 DEF ExistsBijection, Bijection, Injection, Surjection, IsInjective
<1> HIDE DEF S, T
<1>7. Cardinality(S) = Cardinality(T)
  BY <1>4, <1>6, FS_Bijection
<1>8. Inc(ch2[1] # none) \in {0, 1} /\ Inc(ch[D] # none) \in {0, 1}
  BY DEF Inc
<1>9. Cardinality(B) = Cardinality(A) + Inc(ch2[1] # none) - Inc(ch[D] # none)
  BY <1>3, <1>5, <1>7, <1>8
<1>10. QED
  BY <1>3, <1>9 DEF Recount
-----------------------------------------------------------------------------
(* The receiver's buffer: a word taken was there, and what arrives keeps   *)
(* the pointers as far apart as there are words in it.                     *)
LEMMA Distance ==
  ASSUME NEW R \in Nat \ {0}, NEW r \in Int, NEW occ \in Int, NEW e \in Int, NEW n \in Int,
         NEW w, Ahead(w, r, occ, R), NEW w2, Ahead(w2, w, n, R), NEW r2, Ahead(r2, r, e, R),
         NEW occ2 \in Int, occ2 = occ - e + n
  PROVE  Ahead(w2, r2, occ2, R)
<1> USE DEF Ahead
<1> DEFINE x == r + occ
           y == r + e
<1>1. x \in Int /\ y \in Int /\ occ2 \in Int /\ x + n = y + occ2
  OBVIOUS
<1> HIDE DEF x, y
<1>2. ((x % R) + n) % R = (x + n) % R
  BY <1>1, ModAdd
<1>3. ((y % R) + occ2) % R = (y + occ2) % R
  BY <1>1, ModAdd
<1>4. QED
  BY <1>1, <1>2, <1>3 DEF x, y

(* A pointer that is occ ahead of another has it for its past.             *)
LEMMA Backwards ==
  ASSUME NEW R \in Nat \ {0}, NEW r \in 0 .. R - 1, NEW occ \in Int,
         NEW w, w = (r + occ) % R
  PROVE  (w - occ) % R = r
<1> DEFINE x == r + occ
           m == -occ
<1>1. x \in Int /\ m \in Int /\ x + m = r
  OBVIOUS
<1> HIDE DEF x
<1>2. x % R \in Int /\ w = x % R
  BY <1>1, Division DEF x
<1>3. w - occ = (x % R) + m
  BY <1>2
<1> HIDE DEF m
<1>4. ((x % R) + m) % R = (x + m) % R
  BY <1>1, ModAdd
<1>5. r % R = r
  BY ModSmall
<1>6. QED
  BY <1>1, <1>3, <1>4, <1>5

(* A read side that sees the buffer hold a word is right.                  *)
LEMMA WordTaken ==
  ASSUME LinkTypeOK, NEW occ \in Nat,
         baf_w_ptr_r = (baf_r_ptr_r + occ) % (2 * Size),
         Behind(baf_w_ptr_r, baf_w_sync1, baf_w_sync2, occ, RingWidth),
         baf_r_launch # baf_w_sync2
  PROVE  /\ occ - 1 \in Nat
         /\ Behind(baf_w_ptr_r, baf_w_sync1, baf_w_sync2, occ - 1, RingWidth)
<1> DEFINE R == 2 * Size
           r == baf_r_ptr_r
           w == baf_w_ptr_r
<1>1. /\ R \in Nat \ {0} /\ 2^RingWidth = R /\ RingWidth \in Nat
      /\ r \in 0 .. R - 1 /\ baf_r_launch = Gray(r, RingWidth) /\ w = (r + occ) % R
  <2>1. Pointer(r, baf_r_ptr_p1_r, baf_r_launch, RingWidth)
    BY DEF LinkTypeOK, RingWidth
  <2>2. QED
    BY <2>1, LinkSizes DEF Pointer
<1> HIDE DEF R, r, w
<1>2. (w - occ) % R = r
  <2>1. R \in Nat \ {0} /\ r \in 0 .. R - 1 /\ occ \in Int /\ w = (r + occ) % R
    BY <1>1
  <2>2. QED
    BY ONLY <2>1, Backwards
<1>3. baf_w_sync2 # Gray((w - occ) % 2^RingWidth, RingWidth)
  BY <1>1, <1>2
<1>4. Behind(w, baf_w_sync1, baf_w_sync2, occ, RingWidth)
  BY DEF w
<1>5. occ - 1 \in Nat /\ Behind(w, baf_w_sync1, baf_w_sync2, occ - 1, RingWidth)
  BY <1>1, <1>3, <1>4, BehindFresh
<1>6. QED
  BY <1>5 DEF w

(* The words on the wires through an edge of any clocks.                   *)
LEMMA WiresMove ==
  ASSUME LinkTypeOK, NEW io \in BOOLEAN, NEW pos \in BOOLEAN, NEW neg \in BOOLEAN,
         NEW enq \in BOOLEAN, NEW x, IoCycle(io, pos, neg, enq, x)
  PROVE  /\ chan' \in [1 .. ChannelDelay -> Data \cup {None}]
         /\ Cardinality(OnTheWay) \in Nat /\ Cardinality(OnTheWay') \in Nat
         /\ Cardinality(OnTheWay') = Cardinality(OnTheWay) + Inc(pos \/ neg) - Inc(enq)
         /\ pos \/ neg => x \in Data
<1> DEFINE D == ChannelDelay
           W == Data \cup {None}
<1>1. D \in Nat \ {0} /\ chan \in [1 .. D -> W]
  BY LinkSizes DEF LinkTypeOK
<1>2. /\ x \in W /\ (pos \/ neg <=> io /\ x # None)
      /\ chan' = IF io THEN <<x>> \o SubSeq(chan, 1, D - 1) ELSE chan
      /\ enq <=> io /\ chan[D] # None
  BY DEF IoCycle, io_valid_i
<1>3. OnTheWay = Occupied(chan, D, None) /\ OnTheWay' = Occupied(chan', D, None)
  BY DEF OnTheWay, Occupied
<1>4. Occupied(chan, D, None) \in SUBSET (1 .. D)
  BY DEF Occupied
<1>5. pos \/ neg => x \in Data
  BY <1>2
<1> HIDE DEF D, W
<1>6. CASE io
  <2>1. /\ chan' \in [1 .. D -> W] /\ chan'[1] = x
        /\ Delayed(chan, chan', D)
    <3>1. /\ D \in Nat \ {0} /\ chan \in [1 .. D -> W] /\ x \in W
          /\ Shifted(chan, chan', x, D)
      BY <1>1, <1>2, <1>6 DEF Shifted
    <3>2. QED
      BY ONLY <3>1, ChanShift
  <2>2. /\ Cardinality(OnTheWay) \in Nat /\ Cardinality(OnTheWay') \in Nat
        /\ Cardinality(OnTheWay')
             = Cardinality(OnTheWay) + Inc(chan'[1] # None) - Inc(chan[D] # None)
    <3>1. /\ D \in Nat \ {0} /\ chan \in [1 .. D -> W] /\ chan' \in [1 .. D -> W]
          /\ Delayed(chan, chan', D)
      BY <1>1, <2>1
    <3>2. Recount(chan, chan', D, None)
      BY ONLY <3>1, WiresShift
    <3>3. QED
      BY <3>2, <1>3 DEF Recount
  <2>3. Inc(chan'[1] # None) = Inc(pos \/ neg) /\ Inc(chan[D] # None) = Inc(enq)
    BY <1>2, <1>6, <2>1 DEF Inc
  <2>4. QED
    BY <1>5, <2>1, <2>2, <2>3 DEF D, W
<1>7. CASE ~io
  <2>1. chan' = chan /\ OnTheWay' = OnTheWay /\ Inc(pos \/ neg) = 0 /\ Inc(enq) = 0
    BY <1>2, <1>3, <1>7 DEF Inc
  <2>2. Cardinality(OnTheWay) \in Nat
    <3>1. IsFiniteSet(1 .. D) /\ OnTheWay \in SUBSET (1 .. D)
      BY <1>1, <1>3, <1>4, FS_Interval
    <3>2. IsFiniteSet(OnTheWay)
      BY <3>1, FS_Subset
    <3>3. QED
      BY <3>2, FS_CardinalityType
  <2>3. Cardinality(OnTheWay') = Cardinality(OnTheWay) + 0 - 0
    BY <2>1, <2>2
  <2>4. chan' \in [1 .. D -> W]
    BY <1>1, <2>1
  <2>5. QED
    BY <1>5, <2>1, <2>2, <2>3, <2>4 DEF D, W
<1>8. QED
  BY <1>6, <1>7

(* The words on the wires and in the buffer are those sent and not taken.  *)
LEMMA BufferStep ==
  ASSUME LinkTypeOK, BufferInv, NEW cyc \in Cycles, LinkCycle(cyc)
  PROVE  /\ BufferInv'
         /\ sent' \in Seq(Data)
         /\ Len(sent') = Len(sent) + Inc(cyc.pos \/ cyc.neg) - Inc(cyc.deque)
<1>0. cyc.deque \in BOOLEAN /\ cyc.io \in BOOLEAN /\ cyc.enq \in BOOLEAN
      /\ cyc.pos \in BOOLEAN /\ cyc.neg \in BOOLEAN
  BY DEF Cycles
<1> DEFINE R == 2 * Size
           r == baf_r_ptr_r
           w == baf_w_ptr_r
           e == Inc(cyc.deque)
           n == Inc(cyc.enq)
           y == Inc(cyc.pos \/ cyc.neg)
           c == Cardinality(OnTheWay)
           c2 == Cardinality(OnTheWay')
<1>1. CoreCycle(cyc.deque) /\ IoCycle(cyc.io, cyc.pos, cyc.neg, cyc.enq, cyc.x)
  BY DEF LinkCycle
<1>2. /\ R \in Nat \ {0} /\ 2^RingWidth = R /\ RingWidth \in Nat \ {0}
      /\ e \in {0, 1} /\ n \in {0, 1} /\ y \in {0, 1} /\ sent \in Seq(Data)
  BY LinkSizes DEF LinkTypeOK, Inc
<1>3. /\ Pointer(r, baf_r_ptr_p1_r, baf_r_launch, RingWidth)
      /\ Pointer(w, baf_w_ptr_p1_r, baf_w_launch, RingWidth)
  BY DEF LinkTypeOK, RingWidth
<1>4. /\ r' = (r + e) % R
      /\ w' = (w + n) % R
      /\ baf_w_launch = Gray(w, RingWidth) /\ baf_w_launch' = Gray(w', RingWidth)
  <2>1. Ticks(cyc.deque, r, baf_r_ptr_p1_r, baf_r_launch,
              r', baf_r_ptr_p1_r', baf_r_launch', RingWidth)
    BY <1>1 DEF CoreCycle
  <2>2. Ticks(cyc.enq, w, baf_w_ptr_p1_r, baf_w_launch,
              w', baf_w_ptr_p1_r', baf_w_launch', RingWidth)
    BY <1>1 DEF IoCycle
  <2>3. r' = (r + e) % 2^RingWidth
    BY <1>2, <1>3, <2>1, <1>0, PointerTicks DEF Ahead
  <2>4. /\ w' = (w + n) % 2^RingWidth
        /\ baf_w_launch = Gray(w, RingWidth) /\ baf_w_launch' = Gray(w', RingWidth)
    BY <1>2, <1>3, <2>2, <1>0, PointerTicks DEF Ahead
  <2>5. QED
    BY <2>3, <2>4, <1>2
<1>5. PICK occ \in 0 .. Len(sent) :
        /\ Len(sent) = occ + c
        /\ w = (r + occ) % R
        /\ Behind(w, baf_w_sync1, baf_w_sync2, occ, RingWidth)
  BY DEF BufferInv, RingWidth
<1>6. /\ chan' \in [1 .. ChannelDelay -> Data \cup {None}]
      /\ c \in Nat /\ c2 \in Nat /\ c2 = c + y - n
      /\ cyc.pos \/ cyc.neg => cyc.x \in Data
  BY <1>0, <1>1, WiresMove
<1>7. r \in 0 .. R - 1 /\ w \in 0 .. R - 1
  BY <1>2, <1>3 DEF Pointer
<1> DEFINE rest == occ - e
           occ2 == rest + n
<1>8. rest \in Nat /\ Behind(w, baf_w_sync1, baf_w_sync2, rest, RingWidth)
  <2>1. CASE cyc.deque
    <3>1. baf_r_launch # baf_w_sync2
      BY <2>1, <1>1 DEF CoreCycle
    <3>2. occ \in Nat
      BY <1>2
    <3>3. occ - 1 \in Nat /\ Behind(w, baf_w_sync1, baf_w_sync2, occ - 1, RingWidth)
      BY <3>1, <3>2, <1>5, WordTaken
    <3>4. e = 1
      BY <2>1 DEF Inc
    <3>5. QED
      BY <3>3, <3>4
  <2>2. CASE ~cyc.deque
    <3>1. e = 0 /\ rest = occ
      BY <2>2 DEF Inc
    <3>2. QED
      BY <3>1, <1>5
  <2>3. QED
    BY <2>1, <2>2
<1>9. Behind(w', baf_w_sync1', baf_w_sync2', occ2, RingWidth)
  <2>1. PICK core \in BOOLEAN : Latched(core, baf_w_launch, baf_w_launch',
                                        baf_w_sync1, baf_w_sync2, baf_w_sync1', baf_w_sync2')
    BY DEF LinkCycle
  <2>2. \/ baf_w_sync1' = baf_w_sync1 /\ baf_w_sync2' = baf_w_sync2
        \/ /\ baf_w_sync1' \in Sampled(Gray(w, RingWidth), Gray(w', RingWidth))
           /\ baf_w_sync2' = baf_w_sync1
    BY <2>1, <1>4 DEF Latched
  <2>3. w \in 0 .. 2^RingWidth - 1 /\ w' = (w + Inc(cyc.enq)) % 2^RingWidth
    BY <1>2, <1>4, <1>7
  <2> HIDE DEF w, rest
  <2>4. Behind(w', baf_w_sync1', baf_w_sync2', rest + Inc(cyc.enq), RingWidth)
    BY <1>2, <1>8, <2>2, <2>3, <1>0, BehindEdge
  <2>5. QED
    BY <2>4
<1>10. /\ sent' \in Seq(Data) /\ Len(sent') = Len(sent) + y - e
  <2> DEFINE s == IF cyc.pos \/ cyc.neg THEN Append(sent, cyc.x) ELSE sent
  <2>1. sent' = IF cyc.deque /\ s # <<>> THEN Tail(s) ELSE s
    BY DEF LinkCycle
  <2>2. s \in Seq(Data) /\ Len(s) = Len(sent) + y
    BY <1>2, <1>6 DEF Inc
  <2>3. cyc.deque => s # <<>>
    <3>1. SUFFICES ASSUME cyc.deque PROVE Len(s) # 0
      OBVIOUS
    <3>2. occ >= 1
      BY <1>8, <3>1 DEF Inc
    <3>3. QED
      BY <3>2, <2>2, <1>2
  <2>4. CASE cyc.deque
    <3>1. sent' = Tail(s) /\ s # <<>> /\ e = 1
      BY <2>1, <2>3, <2>4 DEF Inc
    <3> HIDE DEF s
    <3>2. Tail(s) \in Seq(Data) /\ Len(Tail(s)) = Len(s) - 1
      BY <2>2, <3>1
    <3>3. Len(sent) \in Nat
      BY <1>2
    <3>4. QED
      BY <2>2, <3>1, <3>2, <3>3, <1>2
  <2>5. CASE ~cyc.deque
    <3>1. sent' = s /\ e = 0
      BY <2>1, <2>5 DEF Inc
    <3> HIDE DEF s
    <3>2. Len(sent) \in Nat
      BY <1>2
    <3>3. QED
      BY <2>2, <3>1, <3>2, <1>2
  <2>6. QED
    BY <2>4, <2>5
<1>11. BufferInv'
  <2>1. w' = (r' + occ2) % R
    <3>1. R \in Nat \ {0} /\ occ \in Int /\ e \in Int /\ n \in Int /\ r \in Int
      BY <1>2, <1>7
    <3>2. occ2 = occ - e + n /\ occ2 \in Int
      BY <3>1
    <3>3. Ahead(w, r, occ, R) /\ Ahead(w', w, n, R) /\ Ahead(r', r, e, R)
      BY <1>4, <1>5 DEF Ahead
    <3> HIDE DEF R, r, w, e, n, occ2
    <3>4. Ahead(w', r', occ2, R)
      BY ONLY <3>1, <3>2, <3>3, Distance
    <3>5. QED
      BY <3>4 DEF Ahead
  <2>2. Len(sent') = occ2 + c2
    <3>1. /\ Len(sent) \in Nat /\ occ \in Nat /\ c \in Nat
          /\ y \in Nat /\ e \in Nat /\ n \in Nat
      BY <1>2, <1>6
    <3>2. occ2 = occ - e + n
      BY <3>1
    <3>3. /\ Len(sent) = occ + c
          /\ Len(sent') = Len(sent) + y - e /\ c2 = c + y - n
      BY <1>5, <1>6, <1>10
    <3> HIDE DEF c, c2, y, e, n, occ2
    <3>4. QED
      BY ONLY <3>1, <3>2, <3>3
  <2>3. occ2 \in 0 .. Len(sent')
    BY <2>2, <1>2, <1>6, <1>8
  <2>4. R' = R /\ c2 = Cardinality(OnTheWay')
    BY DEF Size
  <2> HIDE DEF occ2, c2
  <2>5. \E o \in 0 .. Len(sent') :
          /\ Len(sent') = o + Cardinality(OnTheWay')
          /\ baf_w_ptr_r' = (baf_r_ptr_r' + o) % R
          /\ Behind(baf_w_ptr_r', baf_w_sync1', baf_w_sync2', o, RingWidth)
    BY <1>9, <2>1, <2>2, <2>3, <2>4
  <2>6. QED
    BY <2>5 DEF BufferInv, RingWidth, Size, Behind, Trail
<1>12. QED
  BY <1>10, <1>11
-----------------------------------------------------------------------------
(* The credits a counter holds are what it has not spent of its tokens.    *)
LEMMA HeldKnown ==
  ASSUME NEW spent \in 0 .. 4 * Size - 1, NEW ptr \in Int
  PROVE  /\ CreditsHeld(spent, ptr) \in 0 .. 4 * Size - 1
         /\ Balance(spent, ptr, CreditsHeld(spent, ptr), 2^TokenBits, CreditsPerToken)
<1> DEFINE M == 4 * Size
           x == ptr * CreditsPerToken
           y == x - spent
           h == CreditsHeld(spent, ptr)
<1>1. /\ M \in Nat \ {0} /\ x \in Int /\ y \in Int
      /\ 2^TokenBits * CreditsPerToken = M
  <2>1. CreditsPerToken \in Nat \ {0} /\ M \in Nat \ {0} /\ 2^TokenBits * CreditsPerToken = M
    BY LinkSizes
  <2>2. x \in Int
    BY <2>1
  <2>3. QED
    BY <2>1, <2>2
<1>2. h = y % M
  BY LinkSizes DEF CreditsHeld
<1>3. h \in 0 .. M - 1
  <2> HIDE DEF y, M, h
  <2>1. QED
    BY <1>1, <1>2, Division
<1>4. Swapped(x, h, spent, M)
  BY <1>2 DEF Swapped
<1>5. Swapped(x, spent, h, M)
  <2> HIDE DEF x, h
  <2>1. M \in Nat \ {0} /\ x \in Int /\ spent \in 0 .. M - 1 /\ Swapped(x, h, spent, M)
    BY <1>1, <1>4
  <2> HIDE DEF M
  <2>2. QED
    BY ONLY <2>1, ModSwap
<1>6. Balance(spent, ptr, h, 2^TokenBits, CreditsPerToken)
  BY <1>1, <1>5 DEF Swapped, Balance
<1>7. QED
  BY <1>3, <1>6

(* And nothing else is in balance with what was spent.                     *)
LEMMA HeldTells ==
  ASSUME NEW spent \in 0 .. 4 * Size - 1, NEW ptr \in Int, NEW held \in 0 .. 4 * Size - 1,
         Balance(spent, ptr, held, 2^TokenBits, CreditsPerToken)
  PROVE  CreditsHeld(spent, ptr) = held
<1> DEFINE M == 4 * Size
           x == ptr * CreditsPerToken
<1>1. /\ M \in Nat \ {0} /\ x \in Int
      /\ 2^TokenBits * CreditsPerToken = M
  <2>1. CreditsPerToken \in Nat \ {0} /\ M \in Nat \ {0} /\ 2^TokenBits * CreditsPerToken = M
    BY LinkSizes
  <2>2. x \in Int
    BY <2>1
  <2>3. QED
    BY <2>1, <2>2
<1>2. Swapped(x, spent, held, M)
  BY <1>1 DEF Swapped, Balance
<1>3. Swapped(x, held, spent, M)
  <2> HIDE DEF x
  <2>1. M \in Nat \ {0} /\ x \in Int /\ held \in 0 .. M - 1 /\ Swapped(x, spent, held, M)
    BY <1>1, <1>2
  <2> HIDE DEF M
  <2>2. QED
    BY ONLY <2>1, ModSwap
<1>4. QED
  BY <1>3, LinkSizes DEF Swapped, CreditsHeld

(* The figures of the account are numbers, and they add up.                *)
LEMMA Figures ==
  ASSUME LinkTypeOK
  PROVE  /\ PosHeld \in Nat /\ NegHeld \in Nat /\ Returning \in Nat /\ Len(sent) \in Nat
         /\ Balance(pos_spent, pos_ptr, PosHeld, 2^TokenBits, CreditsPerToken)
         /\ Balance(neg_spent, neg_ptr, NegHeld, 2^TokenBits, CreditsPerToken)
         /\ CreditsConserved <=> PosHeld + NegHeld + Len(sent) + Returning = Size
<1> DEFINE C == CreditsPerToken
<1>1. /\ pos_spent \in 0 .. 4 * Size - 1 /\ neg_spent \in 0 .. 4 * Size - 1
      /\ pos_ptr \in Int /\ neg_ptr \in Int
  BY LinkSizes
  DEF LinkTypeOK, Pointer, pos_credit_ctr!RCounters, neg_credit_ctr!RCounters
<1>2. /\ PosHeld \in 0 .. 4 * Size - 1 /\ NegHeld \in 0 .. 4 * Size - 1
      /\ Balance(pos_spent, pos_ptr, PosHeld, 2^TokenBits, CreditsPerToken)
      /\ Balance(neg_spent, neg_ptr, NegHeld, 2^TokenBits, CreditsPerToken)
  BY <1>1, HeldKnown DEF PosHeld, NegHeld
<1>3. /\ core_credits_sent_r % C \in Nat
      /\ token_edges * C \in Nat /\ Len(sent) \in Nat
  <2>1. C \in Nat \ {0} /\ core_credits_sent_r \in Int /\ token_edges \in Nat
    BY LinkSizes DEF LinkTypeOK
  <2> HIDE DEF C
  <2>2. core_credits_sent_r % C \in Nat
    BY <2>1, Division
  <2>3. token_edges * C \in Nat
    BY <2>1
  <2>4. QED
    BY <2>2, <2>3 DEF LinkTypeOK
<1>4. PosHeld \in Nat /\ NegHeld \in Nat
  BY <1>2, LinkSizes
<1> DEFINE l == core_credits_sent_r % C
           n == token_edges * C
<1>5. Returning = l + n
  BY DEF Returning
<1>6. CreditsConserved <=> PosHeld + NegHeld + Len(sent) + l + n = Size
  BY DEF CreditsConserved, PosHeld, NegHeld, Size
<1>7. l \in Nat /\ n \in Nat
  BY <1>3
<1> HIDE DEF l, n
<1>8. Returning \in Nat
  BY <1>5, <1>7
<1>9. CreditsConserved <=> PosHeld + NegHeld + Len(sent) + Returning = Size
  BY <1>3, <1>4, <1>5, <1>6, <1>7
<1>10. QED
  BY <1>2, <1>3, <1>4, <1>8, <1>9

Conservation == CreditsConserved <=> PosHeld + NegHeld + Len(sent) + Returning = Size

(* Conservation in terms of the figures.                                   *)
LEMMA Conserves == LinkTypeOK => Conservation
BY Figures DEF Conservation

(* An age of at most what is on its way back and in tokens not seen.       *)
Lags(a, ret, p, n, C) == a <= ret + (p + n) * C
-----------------------------------------------------------------------------
(* Every cycle keeps the credits of the loop in balance and the sender     *)
(* behind the receiver.                                                    *)
LEMMA PointersStep ==
  ASSUME LinkTypeOK, NEW cyc \in Cycles, LinkCycle(cyc)
  PROVE  /\ Pointer(pos_ptr', pos_ptr_p1', pos_launch', TokenBits)
         /\ Pointer(neg_ptr', neg_ptr_p1', neg_launch', TokenBits)
         /\ Pointer(baf_w_ptr_r', baf_w_ptr_p1_r', baf_w_launch', RingWidth)
         /\ Pointer(baf_r_ptr_r', baf_r_ptr_p1_r', baf_r_launch', RingWidth)
         /\ Ahead(pos_ptr', pos_ptr, Inc(cyc.postoken), 2^TokenBits)
         /\ Ahead(neg_ptr', neg_ptr, Inc(cyc.negtoken), 2^TokenBits)
         /\ Ahead(baf_r_ptr_r', baf_r_ptr_r, Inc(cyc.deque), 2^RingWidth)
         /\ Latched(cyc.io, Gray(pos_ptr, TokenBits), Gray(pos_ptr', TokenBits),
                    pos_sync1, pos_sync2, pos_sync1', pos_sync2')
         /\ Latched(cyc.io, Gray(neg_ptr, TokenBits), Gray(neg_ptr', TokenBits),
                    neg_sync1, neg_sync2, neg_sync1', neg_sync2')
         /\ Latched(cyc.io, Gray(baf_r_ptr_r, RingWidth), Gray(baf_r_ptr_r', RingWidth),
                    baf_r_sync1, baf_r_sync2, baf_r_sync1', baf_r_sync2')
<1>0. cyc.deque \in BOOLEAN /\ cyc.enq \in BOOLEAN
      /\ cyc.postoken \in BOOLEAN /\ cyc.negtoken \in BOOLEAN
  BY DEF Cycles
<1>1. /\ TokenCycle(cyc.postoken, cyc.negtoken) /\ CoreCycle(cyc.deque)
      /\ IoCycle(cyc.io, cyc.pos, cyc.neg, cyc.enq, cyc.x)
  BY DEF LinkCycle
<1>2. TokenBits \in Nat \ {0} /\ RingWidth \in Nat \ {0}
  BY LinkSizes
<1>3. /\ Pointer(pos_ptr, pos_ptr_p1, pos_launch, TokenBits)
      /\ Pointer(neg_ptr, neg_ptr_p1, neg_launch, TokenBits)
      /\ Pointer(baf_w_ptr_r, baf_w_ptr_p1_r, baf_w_launch, RingWidth)
      /\ Pointer(baf_r_ptr_r, baf_r_ptr_p1_r, baf_r_launch, RingWidth)
  BY DEF LinkTypeOK, RingWidth
<1>4. /\ Ticks(cyc.postoken, pos_ptr, pos_ptr_p1, pos_launch,
               pos_ptr', pos_ptr_p1', pos_launch', TokenBits)
      /\ Ticks(cyc.negtoken, neg_ptr, neg_ptr_p1, neg_launch,
               neg_ptr', neg_ptr_p1', neg_launch', TokenBits)
      /\ Ticks(cyc.deque, baf_r_ptr_r, baf_r_ptr_p1_r, baf_r_launch,
               baf_r_ptr_r', baf_r_ptr_p1_r', baf_r_launch', RingWidth)
      /\ Ticks(cyc.enq, baf_w_ptr_r, baf_w_ptr_p1_r, baf_w_launch,
               baf_w_ptr_r', baf_w_ptr_p1_r', baf_w_launch', RingWidth)
  BY <1>1 DEF TokenCycle, CoreCycle, IoCycle
<1>5. /\ Pointer(pos_ptr', pos_ptr_p1', pos_launch', TokenBits)
      /\ Ahead(pos_ptr', pos_ptr, Inc(cyc.postoken), 2^TokenBits)
      /\ pos_launch = Gray(pos_ptr, TokenBits) /\ pos_launch' = Gray(pos_ptr', TokenBits)
  <2>1. /\ Pointer(pos_ptr, pos_ptr_p1, pos_launch, TokenBits)
        /\ Ticks(cyc.postoken, pos_ptr, pos_ptr_p1, pos_launch,
                 pos_ptr', pos_ptr_p1', pos_launch', TokenBits)
        /\ cyc.postoken \in BOOLEAN /\ TokenBits \in Nat \ {0}
    BY <1>0, <1>2, <1>3, <1>4
  <2>2. QED
    BY ONLY <2>1, PointerTicks
<1>6. /\ Pointer(neg_ptr', neg_ptr_p1', neg_launch', TokenBits)
      /\ Ahead(neg_ptr', neg_ptr, Inc(cyc.negtoken), 2^TokenBits)
      /\ neg_launch = Gray(neg_ptr, TokenBits) /\ neg_launch' = Gray(neg_ptr', TokenBits)
  <2>1. /\ Pointer(neg_ptr, neg_ptr_p1, neg_launch, TokenBits)
        /\ Ticks(cyc.negtoken, neg_ptr, neg_ptr_p1, neg_launch,
                 neg_ptr', neg_ptr_p1', neg_launch', TokenBits)
        /\ cyc.negtoken \in BOOLEAN /\ TokenBits \in Nat \ {0}
    BY <1>0, <1>2, <1>3, <1>4
  <2>2. QED
    BY ONLY <2>1, PointerTicks
<1>7. /\ Pointer(baf_r_ptr_r', baf_r_ptr_p1_r', baf_r_launch', RingWidth)
      /\ Ahead(baf_r_ptr_r', baf_r_ptr_r, Inc(cyc.deque), 2^RingWidth)
      /\ baf_r_launch = Gray(baf_r_ptr_r, RingWidth)
      /\ baf_r_launch' = Gray(baf_r_ptr_r', RingWidth)
  <2>1. /\ Pointer(baf_r_ptr_r, baf_r_ptr_p1_r, baf_r_launch, RingWidth)
        /\ Ticks(cyc.deque, baf_r_ptr_r, baf_r_ptr_p1_r, baf_r_launch,
                 baf_r_ptr_r', baf_r_ptr_p1_r', baf_r_launch', RingWidth)
        /\ cyc.deque \in BOOLEAN /\ RingWidth \in Nat \ {0}
    BY <1>0, <1>2, <1>3, <1>4
  <2>2. QED
    BY ONLY <2>1, PointerTicks
<1>8. Pointer(baf_w_ptr_r', baf_w_ptr_p1_r', baf_w_launch', RingWidth)
  <2>1. /\ Pointer(baf_w_ptr_r, baf_w_ptr_p1_r, baf_w_launch, RingWidth)
        /\ Ticks(cyc.enq, baf_w_ptr_r, baf_w_ptr_p1_r, baf_w_launch,
                 baf_w_ptr_r', baf_w_ptr_p1_r', baf_w_launch', RingWidth)
        /\ cyc.enq \in BOOLEAN /\ RingWidth \in Nat \ {0}
    BY <1>0, <1>2, <1>3, <1>4
  <2>2. QED
    BY ONLY <2>1, PointerTicks
<1>9. /\ Latched(cyc.io, pos_launch, pos_launch', pos_sync1, pos_sync2, pos_sync1', pos_sync2')
      /\ Latched(cyc.io, neg_launch, neg_launch', neg_sync1, neg_sync2, neg_sync1', neg_sync2')
      /\ Latched(cyc.io, baf_r_launch, baf_r_launch',
                 baf_r_sync1, baf_r_sync2, baf_r_sync1', baf_r_sync2')
  BY <1>1 DEF IoCycle
<1>10. QED
  BY <1>5, <1>6, <1>7, <1>8, <1>9

(* Every cycle keeps the account in balance and the knowledge behind it.   *)
LEMMA AccountStep ==
  ASSUME LinkInv, NEW cyc \in Cycles, LinkCycle(cyc)
  PROVE  LinkInv'
<1> DEFINE C == CreditsPerToken
           N == 2^TokenBits
           hp == PosHeld
           hn == NegHeld
           ip == Inc(cyc.postoken)
           in == Inc(cyc.negtoken)
           t == Inc(cyc.postoken \/ cyc.negtoken)
           e == Inc(cyc.deque)
           hp2 == hp - Inc(cyc.pos) + ip * C
           hn2 == hn - Inc(cyc.neg) + in * C
           ret == Returning
           ret2 == Returning'
           n == Len(sent)
           n2 == Len(sent')
<1>0. cyc.deque \in BOOLEAN /\ cyc.io \in BOOLEAN /\ cyc.enq \in BOOLEAN
      /\ cyc.pos \in BOOLEAN /\ cyc.neg \in BOOLEAN
      /\ cyc.postoken \in BOOLEAN /\ cyc.negtoken \in BOOLEAN
  BY DEF Cycles
<1>1. LinkTypeOK /\ CreditsConserved /\ BufferInv /\ StaleInv
  BY DEF LinkInv
<1>2. /\ TokenCycle(cyc.postoken, cyc.negtoken) /\ CoreCycle(cyc.deque)
      /\ IoCycle(cyc.io, cyc.pos, cyc.neg, cyc.enq, cyc.x)
  BY DEF LinkCycle
<1>3. /\ TokenBits \in Nat \ {0} /\ RingWidth \in Nat \ {0} /\ C \in Nat \ {0}
      /\ N \in Nat \ {0} /\ N * C = 4 * Size /\ Size \in Nat \ {0}
      /\ 2^RingWidth \in Nat \ {0}
  BY LinkSizes
<1>4. /\ Pointer(pos_ptr', pos_ptr_p1', pos_launch', TokenBits)
      /\ Pointer(neg_ptr', neg_ptr_p1', neg_launch', TokenBits)
      /\ Pointer(baf_w_ptr_r', baf_w_ptr_p1_r', baf_w_launch', RingWidth)
      /\ Pointer(baf_r_ptr_r', baf_r_ptr_p1_r', baf_r_launch', RingWidth)
      /\ Ahead(pos_ptr', pos_ptr, ip, N)
      /\ Ahead(neg_ptr', neg_ptr, in, N)
      /\ Ahead(baf_r_ptr_r', baf_r_ptr_r, e, 2^RingWidth)
      /\ Latched(cyc.io, Gray(pos_ptr, TokenBits), Gray(pos_ptr', TokenBits),
                 pos_sync1, pos_sync2, pos_sync1', pos_sync2')
      /\ Latched(cyc.io, Gray(neg_ptr, TokenBits), Gray(neg_ptr', TokenBits),
                 neg_sync1, neg_sync2, neg_sync1', neg_sync2')
      /\ Latched(cyc.io, Gray(baf_r_ptr_r, RingWidth), Gray(baf_r_ptr_r', RingWidth),
                 baf_r_sync1, baf_r_sync2, baf_r_sync1', baf_r_sync2')
  BY <1>1, PointersStep
<1>5. /\ pos_ptr \in 0 .. N - 1 /\ neg_ptr \in 0 .. N - 1
      /\ baf_r_ptr_r \in 0 .. 2^RingWidth - 1
      /\ pos_ptr' \in 0 .. N - 1 /\ neg_ptr' \in 0 .. N - 1
  BY <1>1, <1>4 DEF LinkTypeOK, Pointer, RingWidth
<1>6. /\ hp \in Nat /\ hn \in Nat /\ ret \in Nat /\ n \in Nat
      /\ Balance(pos_spent, pos_ptr, hp, N, C)
      /\ Balance(neg_spent, neg_ptr, hn, N, C)
      /\ hp + hn + n + ret = Size
  BY <1>1, Figures
<1>7. PICK pa \in 0 .. Size, pb \in 0 .. Size, na \in 0 .. Size, nb \in 0 .. Size,
           a \in 0 .. Size, b \in 0 .. Size :
        /\ Trail(pos_ptr, pos_sync1, pos_sync2, pa, pb, TokenBits)
        /\ Trail(neg_ptr, neg_sync1, neg_sync2, na, nb, TokenBits)
        /\ Trail(baf_r_ptr_r, baf_r_sync1, baf_r_sync2, a, b, RingWidth)
        /\ pb * C <= hp /\ nb * C <= hn
        /\ a <= ret + (pa + na) * C /\ b <= ret + (pb + nb) * C
  BY <1>1 DEF StaleInv, RingWidth
<1>8. /\ Side(pos_spent, pos_ptr, hp, pos_sync1, pos_sync2, pa, pb, TokenBits)
      /\ Side(neg_spent, neg_ptr, hn, neg_sync1, neg_sync2, na, nb, TokenBits)
  BY <1>6, <1>7 DEF Side
<1>9. /\ Ahead(pos_spent', pos_spent, Inc(cyc.pos), N * C)
      /\ Ahead(neg_spent', neg_spent, Inc(cyc.neg), N * C)
      /\ cyc.pos => cyc.io /\ SideAvail(pos_spent, pos_sync2, TokenBits)
      /\ cyc.neg => cyc.io /\ SideAvail(neg_spent, neg_sync2, TokenBits)
      /\ Settled(hp, hp2, cyc.postoken, cyc.pos) /\ Settled(hn, hn2, cyc.negtoken, cyc.neg)
  BY <1>2, <1>3 DEF IoCycle, Ahead, Settled
<1> HIDE DEF hp, hn, hp2, hn2
<1>10. PICK pa2 \in Nat, pb2 \in Nat :
         /\ Side(pos_spent', pos_ptr', hp2, pos_sync1', pos_sync2', pa2, pb2, TokenBits)
         /\ Aged(cyc.io, pa, pb, ip, pa2, pb2)
  BY <1>3, <1>4, <1>5, <1>8, <1>9, <1>0, SideEdge
<1>11. PICK na2 \in Nat, nb2 \in Nat :
         /\ Side(neg_spent', neg_ptr', hn2, neg_sync1', neg_sync2', na2, nb2, TokenBits)
         /\ Aged(cyc.io, na, nb, in, na2, nb2)
  BY <1>3, <1>4, <1>5, <1>8, <1>9, <1>0, SideEdge
<1>12. PICK a2 \in Nat, b2 \in Nat :
         /\ Trail(baf_r_ptr_r', baf_r_sync1', baf_r_sync2', a2, b2, RingWidth)
         /\ Aged(cyc.io, a, b, e, a2, b2)
  BY <1>3, <1>4, <1>5, <1>7, <1>0, TrailMoves
<1>13. /\ ip \in {0, 1} /\ in \in {0, 1} /\ t = ip + in /\ t \in {0, 1} /\ t <= token_edges
       /\ Inc(cyc.pos) \in {0, 1} /\ Inc(cyc.neg) \in {0, 1}
       /\ Inc(cyc.pos \/ cyc.neg) = Inc(cyc.pos) + Inc(cyc.neg)
       /\ e \in {0, 1}
  <2>1. ~(cyc.postoken /\ cyc.negtoken) /\ ~(cyc.pos /\ cyc.neg)
    BY <1>2 DEF TokenCycle, IoCycle
  <2>2. cyc.postoken \/ cyc.negtoken => token_edges > 0
    BY <1>2 DEF TokenCycle
  <2>3. token_edges \in Nat
    BY <1>1 DEF LinkTypeOK
  <2>4. ip \in {0, 1} /\ in \in {0, 1} /\ t = ip + in /\ t \in {0, 1} /\ e \in {0, 1}
    BY <1>0, <2>1 DEF Inc
  <2>5. t <= token_edges
    BY <2>2, <2>3 DEF Inc
  <2>6. /\ Inc(cyc.pos) \in {0, 1} /\ Inc(cyc.neg) \in {0, 1}
        /\ Inc(cyc.pos \/ cyc.neg) = Inc(cyc.pos) + Inc(cyc.neg)
    BY <1>0, <2>1 DEF Inc
  <2>7. QED
    BY <2>4, <2>5, <2>6
<1>14. /\ core_credits_sent_r' \in 0 .. 2 * C - 1 /\ token_edges' \in Nat
       /\ Returns(ret, ret2, e, t, C)
  <2>1. EdgesMove(t)
    BY DEF LinkCycle, EdgesMove
  <2>2. /\ LinkTypeOK /\ cyc.deque \in BOOLEAN /\ CoreCycle(cyc.deque)
        /\ t \in {0, 1} /\ t <= token_edges
    BY <1>0, <1>1, <1>2, <1>13
  <2> HIDE DEF t
  <2>3. QED
    BY ONLY <2>1, <2>2, TokensBack DEF e, ret, ret2, C
<1>15. BufferInv' /\ sent' \in Seq(Data) /\ n2 = n + Inc(cyc.pos \/ cyc.neg) - e
  BY <1>1, BufferStep
<1>16. chan' \in [1 .. ChannelDelay -> Data \cup {None}]
  BY <1>1, <1>2, <1>0, WiresMove
<1>17. /\ hp2 \in Nat /\ hn2 \in Nat /\ ret2 \in Nat /\ n2 \in Nat
       /\ hp2 + hn2 + n2 + ret2 = Size
  <2>1. hp2 \in Nat /\ hn2 \in Nat
    BY <1>10, <1>11 DEF Side
  <2>2. n2 \in Nat
    BY <1>15
  <2>3. ip * C \in Nat /\ in * C \in Nat /\ t * C = ip * C + in * C
    <3>1. ip \in {0, 1} /\ in \in {0, 1} /\ C \in Nat \ {0} /\ t = ip + in
      BY <1>3, <1>13
    <3> HIDE DEF ip, in, C, t
    <3>2. ip * C \in Nat /\ in * C \in Nat
      BY ONLY <3>1, SMTT(30)
    <3>3. (ip + in) * C = ip * C + in * C
      BY ONLY <3>1, SMTT(30)
    <3>4. QED
      BY <3>1, <3>2, <3>3
  <2>4. hp2 = hp - Inc(cyc.pos) + ip * C /\ hn2 = hn - Inc(cyc.neg) + in * C
    BY DEF hp2, hn2
  <2> DEFINE u == ip * C
             v == in * C
             tc == t * C
             yp == Inc(cyc.pos)
             yn == Inc(cyc.neg)
  <2>5. /\ u \in Nat /\ v \in Nat /\ tc = u + v /\ yp \in {0, 1} /\ yn \in {0, 1}
        /\ hp2 = hp - yp + u /\ hn2 = hn - yn + v
        /\ n2 = n + (yp + yn) - e /\ ret2 = ret + e - tc /\ tc <= ret
        /\ e \in {0, 1}
    BY <2>3, <2>4, <1>13, <1>14, <1>15 DEF Returns
  <2> HIDE DEF u, v, tc, yp, yn, n, n2, ret, ret2, e, t, ip, in
  <2>6. ret2 \in Nat
    BY <2>5, <1>6
  <2>7. hp2 + hn2 + n2 + ret2 = Size
    BY <2>5, <1>6
  <2>8. QED
    BY <2>1, <2>2, <2>6, <2>7
<1>18. /\ pos_spent' \in 0 .. 4 * Size - 1 /\ neg_spent' \in 0 .. 4 * Size - 1
  <2>1. ASSUME NEW s \in Int, NEW s2, NEW i \in Int, Ahead(s2, s, i, N * C)
        PROVE  s2 \in 0 .. 4 * Size - 1
    <3> DEFINE M == 4 * Size
               y == s + i
    <3>1. M \in Nat \ {0} /\ y \in Int /\ s2 = y % M
      BY <2>1, <1>3 DEF Ahead
    <3> HIDE DEF M, y
    <3>2. s2 \in 0 .. M - 1
      BY <3>1, Division
    <3>3. QED
      BY <3>2 DEF M
  <2>2. pos_spent \in Int /\ neg_spent \in Int
    BY <1>1, LinkSizes DEF LinkTypeOK, pos_credit_ctr!RCounters, neg_credit_ctr!RCounters
  <2>3. Inc(cyc.pos) \in Int /\ Inc(cyc.neg) \in Int
    BY <1>13
  <2>4. QED
    BY <2>1, <2>2, <2>3, <1>9
<1>19. LinkTypeOK'
  <2>1. io_token_alternator_r' \in 0 .. 2 * C - 1 /\ token_clk_i' \in {0, 1}
    BY <1>2 DEF IoCycle, TokenCycle
  <2>2. pos_spent' \in pos_credit_ctr!RCounters /\ neg_spent' \in neg_credit_ctr!RCounters
    BY <1>18, LinkSizes DEF pos_credit_ctr!RCounters, neg_credit_ctr!RCounters
  <2>3. QED
    BY <2>1, <2>2, <1>4, <1>14, <1>15, <1>16
    DEF LinkTypeOK, RingWidth, pos_credit_ctr!RCounters, neg_credit_ctr!RCounters,
        pos_credit_ctr!Modulus, neg_credit_ctr!Modulus
<1>20. PosHeld' = hp2 /\ NegHeld' = hn2
  <2>1. hp2 \in 0 .. 4 * Size - 1 /\ hn2 \in 0 .. 4 * Size - 1
    <3> HIDE DEF n2, ret2
    <3>1. QED
      BY <1>17, <1>3
  <2>2. /\ Balance(pos_spent', pos_ptr', hp2, N, C) /\ Balance(neg_spent', neg_ptr', hn2, N, C)
        /\ pos_ptr' \in Int /\ neg_ptr' \in Int
    BY <1>5, <1>10, <1>11 DEF Side
  <2>3. CreditsHeld(pos_spent', pos_ptr') = hp2
    BY <2>1, <2>2, <1>18, HeldTells
  <2>4. CreditsHeld(neg_spent', neg_ptr') = hn2
    BY <2>1, <2>2, <1>18, HeldTells
  <2>5. PosHeld' = CreditsHeld(pos_spent', pos_ptr')
      /\ NegHeld' = CreditsHeld(neg_spent', neg_ptr')
    BY DEF PosHeld, NegHeld, CreditsHeld
  <2>6. QED
    BY <2>3, <2>4, <2>5
<1>21. CreditsConserved'
  <2>1. LinkTypeOK' => Conservation'
    BY Conserves, PTL
  <2>2. CreditsConserved' <=> PosHeld' + NegHeld' + Len(sent') + Returning' = Size
    BY <2>1, <1>19 DEF Conservation, Size
  <2>3. QED
    BY <2>2, <1>17, <1>20
<1>22. StaleInv'
  <2>1. Lags(a2, ret2, pa2, na2, C) /\ Lags(b2, ret2, pb2, nb2, C)
    <3>1. /\ C \in Nat \ {0} /\ ip \in Nat /\ in \in Nat /\ e \in Nat
          /\ ret \in Nat /\ ret2 \in Nat /\ t \in Nat /\ t = ip + in
      <4>1. ip \in Nat /\ in \in Nat /\ e \in Nat /\ t \in Nat /\ t = ip + in
        BY ONLY <1>13
      <4>2. ret \in Nat /\ ret2 \in Nat
        BY ONLY <1>6, <1>17
      <4>3. QED
        BY ONLY <4>1, <4>2, <1>3
    <3>2. Returns(ret, ret2, e, t, C)
      BY <1>14
    <3>3. Lags(a, ret, pa, na, C) /\ Lags(b, ret, pb, nb, C)
      BY <1>7 DEF Lags
    <3>4. /\ Aged(cyc.io, pa, pb, ip, pa2, pb2) /\ Aged(cyc.io, na, nb, in, na2, nb2)
          /\ Aged(cyc.io, a, b, e, a2, b2) /\ cyc.io \in BOOLEAN
      BY <1>0, <1>10, <1>11, <1>12
    <3>5. /\ pa \in Nat /\ pb \in Nat /\ na \in Nat /\ nb \in Nat /\ a \in Nat /\ b \in Nat
          /\ pa2 \in Nat /\ pb2 \in Nat /\ na2 \in Nat /\ nb2 \in Nat
          /\ a2 \in Nat /\ b2 \in Nat
      BY <1>3
    <3> HIDE DEF C, ip, in, e, ret, ret2, t
    <3> USE DEF Returns, Lags, Aged
    <3> DEFINE u == (pa + na) * C
               v == (pb + nb) * C
               u2 == (pa2 + na2) * C
               v2 == (pb2 + nb2) * C
               w == t * C
    <3>6. u \in Nat /\ v \in Nat /\ u2 \in Nat /\ v2 \in Nat /\ w \in Nat
      BY ONLY <3>1, <3>5, SMTT(30)
    <3>7. ret2 = ret + e - w /\ w <= ret /\ a <= ret + u /\ b <= ret + v
      BY <3>2, <3>3
    <3>8. CASE cyc.io
      <4>1. a2 <= e /\ b2 = a + e /\ pb2 = pa + ip /\ nb2 = na + in
        BY ONLY <3>4, <3>5, <3>8 DEF Aged
      <4>2. v2 = u + w
        BY ONLY <3>1, <3>5, <4>1, SMTT(30)
      <4> HIDE DEF u, v, u2, v2, w
      <4>3. a2 <= ret2 + u2 /\ b2 <= ret2 + v2
        BY ONLY <3>1, <3>5, <3>6, <3>7, <4>1, <4>2
      <4>4. QED
        BY <4>3 DEF u2, v2
    <3>9. CASE ~cyc.io
      <4>1. /\ a2 = a + e /\ b2 = b + e /\ pa2 = pa + ip /\ na2 = na + in
            /\ pb2 = pb + ip /\ nb2 = nb + in
        BY ONLY <3>4, <3>5, <3>9 DEF Aged
      <4>2. u2 = u + w /\ v2 = v + w
        BY ONLY <3>1, <3>5, <4>1, SMTT(30)
      <4> HIDE DEF u, v, u2, v2, w
      <4>3. a2 <= ret2 + u2 /\ b2 <= ret2 + v2
        BY ONLY <3>1, <3>5, <3>6, <3>7, <4>1, <4>2
      <4>4. QED
        BY <4>3 DEF u2, v2
    <3>10. QED
      BY <3>8, <3>9
  <2>2. /\ Trail(pos_ptr', pos_sync1', pos_sync2', pa2, pb2, TokenBits) /\ pb2 * C <= hp2
        /\ Trail(neg_ptr', neg_sync1', neg_sync2', na2, nb2, TokenBits) /\ nb2 * C <= hn2
        /\ pa2 <= pb2 /\ na2 <= nb2
    BY <1>10, <1>11 DEF Side, Trail
  <2>3. pa2 \in 0 .. Size /\ pb2 \in 0 .. Size /\ na2 \in 0 .. Size /\ nb2 \in 0 .. Size
    <3>1. pb2 <= pb2 * C /\ nb2 <= nb2 * C /\ pb2 * C \in Nat /\ nb2 * C \in Nat
      BY <1>3, SMTT(30)
    <3> HIDE DEF n2, ret2
    <3>2. pb2 <= Size /\ nb2 <= Size
      BY <3>1, <2>2, <1>17, <1>3
    <3>3. QED
      BY <3>2, <2>2, <1>3
  <2>4. a2 \in 0 .. Size /\ b2 \in 0 .. Size
    <3>1. /\ (pb2 + nb2) * C = pb2 * C + nb2 * C /\ pb2 * C \in Nat /\ nb2 * C \in Nat
      BY <1>3, SMTT(30)
    <3>2. a2 <= b2
      BY <1>12 DEF Trail
    <3> HIDE DEF n2, ret2
    <3>3. b2 <= Size
      BY <3>1, <2>1, <2>2, <1>17, <1>3 DEF Lags
    <3>4. QED
      BY <3>2, <3>3, <1>3
  <2>5. QED
    BY <2>1, <2>2, <2>3, <2>4, <1>12, <1>20 DEF StaleInv, RingWidth, Lags
<1>23. QED
  BY <1>15, <1>19, <1>21, <1>22 DEF LinkInv
-----------------------------------------------------------------------------
(* Every step keeps the invariant.                                         *)
LEMMA LinkStep == LinkInv /\ [Next]_vars => LinkInv'
<1> SUFFICES ASSUME LinkInv, [Next]_vars PROVE LinkInv'
  OBVIOUS
<1>1. CASE Next
  <2>1. LinkTypeOK
    BY DEF LinkInv
  <2>2. PICK cyc \in Cycles : LinkCycle(cyc)
    BY <1>1, <2>1, LinkCycleOf
  <2>3. QED
    BY <2>2, AccountStep
<1>2. CASE UNCHANGED vars
  <2>1. /\ io_token_alternator_r' = io_token_alternator_r /\ token_clk_i' = token_clk_i
        /\ core_credits_sent_r' = core_credits_sent_r /\ token_edges' = token_edges
        /\ pos_spent' = pos_spent /\ pos_sync1' = pos_sync1 /\ pos_sync2' = pos_sync2
        /\ neg_spent' = neg_spent /\ neg_sync1' = neg_sync1 /\ neg_sync2' = neg_sync2
        /\ pos_ptr' = pos_ptr /\ pos_ptr_p1' = pos_ptr_p1 /\ pos_launch' = pos_launch
        /\ neg_ptr' = neg_ptr /\ neg_ptr_p1' = neg_ptr_p1 /\ neg_launch' = neg_launch
        /\ chan' = chan /\ sent' = sent
        /\ baf_w_ptr_r' = baf_w_ptr_r /\ baf_w_ptr_p1_r' = baf_w_ptr_p1_r
        /\ baf_w_launch' = baf_w_launch
        /\ baf_r_ptr_r' = baf_r_ptr_r /\ baf_r_ptr_p1_r' = baf_r_ptr_p1_r
        /\ baf_r_launch' = baf_r_launch
        /\ baf_r_sync1' = baf_r_sync1 /\ baf_r_sync2' = baf_r_sync2
        /\ baf_w_sync1' = baf_w_sync1 /\ baf_w_sync2' = baf_w_sync2
    BY <1>2 DEF vars, posr, negr, posw, negw, bafw, bafr, sync
  <2>2. LinkTypeOK'
    BY <2>1 DEF LinkInv, LinkTypeOK, pos_credit_ctr!RCounters, neg_credit_ctr!RCounters,
       pos_credit_ctr!Modulus, neg_credit_ctr!Modulus
  <2>3. PosHeld' = PosHeld /\ NegHeld' = NegHeld /\ Returning' = Returning /\ OnTheWay' = OnTheWay
    BY <2>1 DEF PosHeld, NegHeld, Returning, OnTheWay, CreditsHeld
  <2>4. CreditsConserved'
    BY <2>1 DEF LinkInv, CreditsConserved, CreditsHeld
  <2>5. BufferInv'
    BY <2>1, <2>3 DEF LinkInv, BufferInv, Behind, Trail, Size
  <2>6. StaleInv'
    BY <2>1, <2>3 DEF LinkInv, StaleInv, Trail, Size
  <2>7. QED
    BY <2>2, <2>4, <2>5, <2>6 DEF LinkInv
<1>3. QED
  BY <1>1, <1>2

(* The invariant holds after reset.                                        *)
LEMMA LinkStart == Init => LinkInv
<1> SUFFICES ASSUME Init PROVE LinkInv
  OBVIOUS
<1> DEFINE C == CreditsPerToken
           N == 2^TokenBits
           h == max_tokens_p * C
           y == -max_tokens_p * C
           M == 4 * Size
<1>1. /\ TokenBits \in Nat \ {0} /\ RingWidth \in Nat \ {0} /\ C \in Nat \ {0}
      /\ N \in Nat \ {0} /\ N * C = M /\ Size \in Nat \ {0}
      /\ 2^RingWidth = 2 * Size /\ 2 * h = Size /\ max_tokens_p \in Nat
  BY LinkSizes
<1>2. /\ io_token_alternator_r = 0 /\ core_credits_sent_r = 0 /\ token_clk_i = 0
      /\ token_edges = 0 /\ sent = <<>> /\ chan = [i \in 1 .. ChannelDelay |-> None]
      /\ pos_spent = y % M /\ neg_spent = y % M
  <2>1. /\ pos_credit_ctr!r_counter_reset = y % M /\ neg_credit_ctr!r_counter_reset = y % M
    BY LinkSizes DEF pos_credit_ctr!r_counter_reset, neg_credit_ctr!r_counter_reset
  <2>2. QED
    BY <2>1 DEF Init
<1>3. /\ pos_ptr = 0 /\ pos_ptr_p1 = 1 /\ pos_launch = {} /\ pos_sync1 = {} /\ pos_sync2 = {}
      /\ neg_ptr = 0 /\ neg_ptr_p1 = 1 /\ neg_launch = {} /\ neg_sync1 = {} /\ neg_sync2 = {}
      /\ baf_w_ptr_r = 0 /\ baf_w_ptr_p1_r = 1 /\ baf_w_launch = {}
      /\ baf_w_sync1 = {} /\ baf_w_sync2 = {}
      /\ baf_r_ptr_r = 0 /\ baf_r_ptr_p1_r = 1 /\ baf_r_launch = {}
      /\ baf_r_sync1 = {} /\ baf_r_sync2 = {}
  BY DEF Init
<1>4. h \in Nat /\ y = 0 - h /\ y \in Int /\ h \in 0 .. M - 1 /\ M \in Nat \ {0}
  <2>1. h \in Nat /\ y = 0 - h
    BY <1>1, SMTT(30)
  <2> HIDE DEF h, y
  <2>2. QED
    BY <2>1, <1>1
<1>5. ASSUME NEW w \in Nat \ {0}
      PROVE  Pointer(0, 1, {}, w) /\ Trail(0, {}, {}, 0, 0, w)
  <2>1. 2^w \in Nat \ {0} /\ Gray(0, w) = {}
    BY PowNat, GrayZero
  <2>2. 2^w >= 2
    <3>1. w - 1 \in Nat /\ (w - 1) + 1 = w
      OBVIOUS
    <3>2. 2^w = 2 * 2^(w - 1) /\ 2^(w - 1) \in Nat \ {0}
      BY <3>1, PowStep, PowNat
    <3>3. QED
      BY <3>2
  <2>3. (0 + 1) % 2^w = 1 /\ 0 \in 0 .. 2^w - 1
    <3>1. 1 \in 0 .. 2^w - 1 /\ 0 + 1 = 1
      BY <2>1, <2>2
    <3>2. QED
      BY <3>1, <2>1, ModSmall
  <2>4. Pointer(0, 1, {}, w)
    BY <2>1, <2>3 DEF Pointer
  <2>5. Trail(0, Gray(0, w), Gray(0, w), 0, 0, w)
    BY <2>3, TrailStart
  <2>6. QED
    BY <2>1, <2>4, <2>5
<1> HIDE DEF h, y
<1>6. y % M \in 0 .. M - 1
  <2> HIDE DEF M
  <2>1. QED
    BY <1>4, Division
<1>7. LinkTypeOK
  <2>1. 0 \in 0 .. 2 * C - 1
    BY <1>1
  <2>2. pos_spent \in pos_credit_ctr!RCounters /\ neg_spent \in neg_credit_ctr!RCounters
    BY <1>2, <1>6, LinkSizes DEF pos_credit_ctr!RCounters, neg_credit_ctr!RCounters
  <2>3. /\ Pointer(pos_ptr, pos_ptr_p1, pos_launch, TokenBits)
        /\ Pointer(neg_ptr, neg_ptr_p1, neg_launch, TokenBits)
        /\ Pointer(baf_w_ptr_r, baf_w_ptr_p1_r, baf_w_launch, RingWidth)
        /\ Pointer(baf_r_ptr_r, baf_r_ptr_p1_r, baf_r_launch, RingWidth)
    BY <1>1, <1>3, <1>5
  <2>4. chan \in [1 .. ChannelDelay -> Data \cup {None}] /\ sent \in Seq(Data)
    BY <1>2
  <2>5. QED
    BY <2>1, <2>2, <2>3, <2>4, <1>2 DEF LinkTypeOK, RingWidth
<1>8. ASSUME NEW spent, spent = y % M PROVE CreditsHeld(spent, 0) = h
  <2>1. PICK ptr \in Int : ptr = 0
    OBVIOUS
  <2>2. ptr * C - h = y
    BY <1>1, <1>4, <2>1
  <2>3. Balance(spent, ptr, h, 2^TokenBits, CreditsPerToken)
    BY <1>1, <1>8, <2>2 DEF Balance
  <2>4. spent \in 0 .. 4 * Size - 1 /\ h \in 0 .. 4 * Size - 1 /\ ptr \in Int
    BY <1>4, <1>6, <1>8
  <2>5. CreditsHeld(spent, ptr) = h
    BY ONLY <2>3, <2>4, HeldTells
  <2>6. QED
    BY <2>1, <2>5
<1>9. PosHeld = h /\ NegHeld = h /\ Returning = 0 /\ Len(sent) = 0
  <2>1. PosHeld = h /\ NegHeld = h
    BY <1>2, <1>3, <1>8 DEF PosHeld, NegHeld
  <2>2. 0 % C = 0 /\ 0 * C = 0
    BY <1>1
  <2>3. QED
    BY <2>1, <2>2, <1>2 DEF Returning
<1>10. CreditsConserved
  <2>1. Conservation
    BY <1>7, Conserves
  <2>2. PosHeld + NegHeld + Len(sent) + Returning = Size
    BY <1>1, <1>4, <1>9
  <2>3. QED
    BY <2>1, <2>2 DEF Conservation
<1>11. BufferInv
  <2>1. OnTheWay = {}
    BY <1>2 DEF OnTheWay
  <2>2. Cardinality(OnTheWay) = 0
    BY <2>1, FS_EmptySet
  <2>3. (0 + 0) % (2 * Size) = 0
    <3>1. 2 * Size \in Nat \ {0} /\ 0 \in 0 .. 2 * Size - 1 /\ 0 + 0 = 0
      BY <1>1
    <3>2. QED
      BY ONLY <3>1, ModSmall
  <2>4. Behind(0, {}, {}, 0, RingWidth)
    <3>1. Trail(0, {}, {}, 0, 0, RingWidth)
      BY <1>1, <1>5
    <3>2. QED
      BY <3>1 DEF Behind
  <2>5. QED
    BY <2>2, <2>3, <2>4, <1>3, <1>9 DEF BufferInv, RingWidth
<1>12. StaleInv
  <2>1. /\ Trail(pos_ptr, pos_sync1, pos_sync2, 0, 0, TokenBits)
        /\ Trail(neg_ptr, neg_sync1, neg_sync2, 0, 0, TokenBits)
        /\ Trail(baf_r_ptr_r, baf_r_sync1, baf_r_sync2, 0, 0, RingWidth)
    BY <1>1, <1>3, <1>5
  <2>2. 0 \in 0 .. Size /\ 0 * C <= h /\ 0 <= 0 + (0 + 0) * C
    BY <1>1, <1>4
  <2>3. QED
    BY <2>1, <2>2, <1>9 DEF StaleInv, RingWidth
<1>13. QED
  BY <1>7, <1>10, <1>11, <1>12 DEF LinkInv

(* The link moves by steps of its own only.                                *)
LEMMA LinkAlone ==
  /\ CrossingsInit => Init
  /\ [CrossingsNext]_all => [Next]_vars
<1>1. CrossingsInit => Init
  BY DEF CrossingsInit
<1>2. ASSUME [CrossingsNext]_all PROVE [Next]_vars
  <2>1. CASE UNCHANGED all
    BY <2>1 DEF all
  <2>2. CASE CrossingsNext
    BY <2>2, Zenon DEF CrossingsNext, OnlyCredit, OnlyFifo
  <2>3. QED
    BY <1>2, <2>1, <2>2
<1>3. QED
  BY <1>1, <1>2

(* What the sender has, knows and may yet hear of stays in step with the   *)
(* receiver's buffer and with what its write side has heard of, for every  *)
(* depth, decimation and length of the wires.                              *)
THEOREM LinkInvariant == CrossingsSpec => []LinkInv
BY LinkStart, LinkStep, LinkAlone, PTL DEF CrossingsSpec

(* The sender's credits, the words not yet taken, those counted towards    *)
(* the next toggle and those on the token line make up the buffer, for     *)
(* every depth, decimation and length of the wires.                        *)
THEOREM CreditsAreConserved == CrossingsSpec => []CreditsConserved
<1>1. LinkInv => CreditsConserved
  BY DEF LinkInv
<1>2. QED
  BY <1>1, LinkInvariant, PTL

(* A word that arrives finds room that the write side knows of.            *)
LEMMA RoomForArrivals == LinkInv => NeverEnqueOnFull
<1> SUFFICES ASSUME LinkInv, io_valid_i, io_async_fifo_full PROVE FALSE
  BY DEF NeverEnqueOnFull
<1> DEFINE C == CreditsPerToken
           R == 2 * Size
           r == baf_r_ptr_r
           w == baf_w_ptr_r
           l == lg_fifo_depth_p
           n == Len(sent)
           k == Cardinality(OnTheWay)
<1>1. /\ R \in Nat \ {0} /\ R = 2 * Size /\ 2^RingWidth = R
      /\ RingWidth = l + 1 /\ l \in Nat \ {0}
      /\ 2^(l + 1) = R /\ 2^l = Size /\ Size \in Nat \ {0} /\ C \in Nat \ {0}
  BY LinkSizes DEF RingWidth, Size
<1>2. LinkTypeOK /\ CreditsConserved /\ BufferInv /\ StaleInv
  BY DEF LinkInv
<1>3. /\ PosHeld \in Nat /\ NegHeld \in Nat /\ Returning \in Nat /\ n \in Nat
      /\ PosHeld + NegHeld + n + Returning = Size
  BY <1>2, Figures
<1>4. /\ r \in 0 .. R - 1 /\ w \in 0 .. R - 1 /\ baf_w_launch = Gray(w, l + 1)
  BY <1>1, <1>2 DEF LinkTypeOK, Pointer
<1>5. PICK occ \in 0 .. n : n = occ + k /\ w = (r + occ) % R
  BY <1>2 DEF BufferInv
<1>6. k \in Nat /\ k # 0
  <2>1. ChannelDelay \in OnTheWay
    BY LinkSizes DEF io_valid_i, OnTheWay
  <2>2. IsFiniteSet(1 .. ChannelDelay) /\ OnTheWay \in SUBSET (1 .. ChannelDelay)
    BY LinkSizes, FS_Interval DEF OnTheWay
  <2>3. IsFiniteSet(OnTheWay)
    BY <2>2, FS_Subset
  <2>4. k \in Nat
    BY <2>3, FS_CardinalityType
  <2>5. k # 0
    BY <2>1, <2>3, FS_EmptySet
  <2>6. QED
    BY <2>4, <2>5
<1>7. PICK pa \in 0 .. Size, pb \in 0 .. Size, na \in 0 .. Size, nb \in 0 .. Size,
           a \in 0 .. Size, b \in 0 .. Size :
        /\ Trail(r, baf_r_sync1, baf_r_sync2, a, b, l + 1)
        /\ pb * C <= PosHeld /\ nb * C <= NegHeld
        /\ b <= Returning + (pb + nb) * C
  BY <1>2 DEF StaleInv
<1>8. baf_r_sync2 = Gray((r - b) % R, l + 1)
  BY <1>1, <1>7 DEF Trail
<1> HIDE DEF C, R, r, w, l, n, k
<1>9. b <= Size - n
  <2>1. /\ (pb + nb) * C = pb * C + nb * C /\ pb * C \in Nat /\ nb * C \in Nat
    BY <1>1, SMTT(30)
  <2> DEFINE u == pb * C
             v == nb * C
             x == (pb + nb) * C
  <2>2. x = u + v /\ u \in Nat /\ v \in Nat /\ u <= PosHeld /\ v <= NegHeld /\ b <= Returning + x
    BY <2>1, <1>7
  <2> HIDE DEF u, v, x
  <2>3. QED
    BY <2>2, <1>3, <1>1
<1> DEFINE m == -b
           x == r + m
           y == x % R
<1>10. x \in Int /\ (r - b) % R = y /\ x + b = r
  BY <1>4
<1>11. y \in 0 .. R - 1
  <2> HIDE DEF x
  <2>1. QED
    BY <1>10, <1>1, Division
<1>12. (y + Size) % R = (x + Size) % R
  <2>1. x \in Int /\ R \in Nat \ {0} /\ Size \in Int
    BY <1>10, <1>1
  <2> HIDE DEF x
  <2>2. QED
    BY ONLY <2>1, ModAdd
<1> HIDE DEF y
<1>13. Gray(w, l + 1) = Xor(Gray(y, l + 1), {l, l - 1})
  BY <1>4, <1>10, <1>8, LinkCode DEF io_async_fifo_full, baf!w_full_o, baf!TopTwo, l
<1>14. Gray((y + Size) % R, l + 1) = Xor(Gray(y, l + 1), {l, l - 1})
  <2>1. l \in Nat \ {0} /\ y \in 0 .. 2^(l + 1) - 1
    BY <1>1, <1>11
  <2>2. Gray((y + 2^l) % 2^(l + 1), l + 1) = Xor(Gray(y, l + 1), {l, l - 1})
    BY ONLY <2>1, Opposite
  <2>3. QED
    BY <2>2, <1>1
<1>15. w = (y + Size) % R
  <2> DEFINE z == (y + Size) % R
  <2>1. z \in 0 .. R - 1
    <3> DEFINE s == y + Size
    <3>1. s \in Int /\ z = s % R
      BY <1>1, <1>11
    <3> HIDE DEF s, z
    <3>2. QED
      BY <3>1, <1>1, Division
  <2>2. Gray(w, l + 1) = Gray(z, l + 1)
    BY <1>13, <1>14
  <2> HIDE DEF z
  <2>3. l + 1 \in Nat /\ w \in 0 .. 2^(l + 1) - 1 /\ z \in 0 .. 2^(l + 1) - 1
    BY <2>1, <1>1, <1>4
  <2>4. w = z
    BY ONLY <2>2, <2>3, GrayTells
  <2>5. QED
    BY <2>4 DEF z
<1> DEFINE g == b + occ
<1>16. r + occ = x + g /\ g \in Int /\ g < Size /\ Size < g + R
  BY <1>1, <1>3, <1>4, <1>5, <1>6, <1>9
<1>17. (x + g) % R # (x + Size) % R
  <2> HIDE DEF x, g
  <2>1. x \in Int /\ R \in Nat \ {0} /\ g \in Int /\ Size \in Int /\ g < Size /\ Size < g + R
    BY <1>1, <1>10, <1>16
  <2>2. QED
    BY ONLY <2>1, ModApart
<1>18. QED
  BY <1>5, <1>12, <1>15, <1>16, <1>17

(* A word from the sender always finds room, and the write side of the     *)
(* buffer, from whatever read pointer it has, knows it: the assertion      *)
(* "attempt to enque on full async fifo" never fires.                      *)
THEOREM NeverEnquesOnFull == CrossingsSpec => []NeverEnqueOnFull
BY LinkInvariant, RoomForArrivals, PTL
=============================================================================
