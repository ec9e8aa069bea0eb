---------------------------- MODULE NumberProofs ----------------------------
(***************************************************************************)
(* Facts about numbers that the other proofs need: induction, functions    *)
(* defined by iteration, powers of two and the bits of a byte.             *)
(*                                                                         *)
(* The induction theorems of the library take the induction hypothesis as  *)
(* an operator, which the provers cannot instantiate.  Here induction is   *)
(* stated over sets of numbers and derived from the well-foundedness of <. *)
(***************************************************************************)
EXTENDS Powers, Integers, WellFoundedInduction, TLAPS

(***************************************************************************)
(* A non-empty set of natural numbers has a least element.                 *)
(***************************************************************************)
LEMMA LeastNumber ==
    ASSUME NEW S \in SUBSET Nat, S # {}
    PROVE  \E n \in S : \A m \in S : n <= m
<1> DEFINE R == OpToRel(<, Nat)
<1>1. IsWellFoundedOn(R, Nat)
  BY NatLessThanWellFounded, Zenon
<1>2. \E x \in S : \A y \in S : <<y, x>> \notin R
  <2> HIDE DEF R
  <2> QED BY <1>1, WFMin
<1>3. PICK x \in S : \A y \in S : ~(y < x)
  BY <1>2 DEF OpToRel
<1> QED BY <1>3

(***************************************************************************)
(* Induction: a set of natural numbers that has 0 and, with a number, its  *)
(* successor is the set of all of them.                                    *)
(***************************************************************************)
LEMMA SetInduction ==
    ASSUME NEW S \in SUBSET Nat, 0 \in S, \A n \in S : n + 1 \in S
    PROVE  S = Nat
<1> SUFFICES ASSUME Nat \ S # {} PROVE FALSE
  OBVIOUS
<1>1. PICK x \in Nat \ S : \A m \in Nat \ S : x <= m
  BY LeastNumber
<1>2. x - 1 \in Nat /\ x - 1 < x /\ (x - 1) + 1 = x
  OBVIOUS
<1> QED BY <1>1, <1>2

(***************************************************************************)
(* The first n elements that one meets when one starts at c and follows f. *)
(***************************************************************************)
Walks(D, f, c, n) ==
    {p \in [0 .. n -> D] : p[0] = c /\ \A i \in 1 .. n : p[i] = f[p[i - 1]]}

(***************************************************************************)
(* One can follow a function from a set to itself as far as one likes.     *)
(***************************************************************************)
LEMMA WalkExists ==
    ASSUME NEW D, NEW f \in [D -> D], NEW c \in D
    PROVE  \A n \in Nat : Walks(D, f, c, n) # {}
<1> DEFINE S == {n \in Nat : Walks(D, f, c, n) # {}}
<1>1. 0 \in S
  <2>1. [i \in 0 .. 0 |-> c] \in Walks(D, f, c, 0)
    BY DEF Walks
  <2> QED BY <2>1
<1>2. ASSUME NEW n \in S PROVE n + 1 \in S
  <2>1. PICK p \in [0 .. n -> D] : p[0] = c /\ \A i \in 1 .. n : p[i] = f[p[i - 1]]
    BY DEF Walks
  <2> DEFINE q == [i \in 0 .. (n + 1) |-> IF i = n + 1 THEN f[p[n]] ELSE p[i]]
  <2>2. q \in [0 .. (n + 1) -> D] /\ q[0] = c /\ n \in Nat
    BY <2>1
  <2>3. ASSUME NEW i \in 1 .. (n + 1) PROVE q[i] = f[q[i - 1]]
    <3>1. CASE i = n + 1
      BY <3>1
    <3>2. CASE i # n + 1
      BY <3>2, <2>1
    <3> QED BY <3>1, <3>2
  <2>4. q \in Walks(D, f, c, n + 1)
    BY <2>2, <2>3 DEF Walks
  <2> QED BY <2>4
<1>3. S = Nat
  <2> HIDE DEF S
  <2> QED BY <1>1, <1>2, SetInduction DEF S
<1> QED BY <1>3

(***************************************************************************)
(* A longer walk begins like a shorter one.                                *)
(***************************************************************************)
LEMMA WalkUnique ==
    ASSUME NEW D, NEW f \in [D -> D], NEW c \in D, NEW n \in Nat,
           NEW p \in Walks(D, f, c, n), NEW q \in Walks(D, f, c, n + 1)
    PROVE  p[n] = q[n]
<1> DEFINE S == {i \in Nat : i <= n => p[i] = q[i]}
<1>1. 0 \in S
  BY DEF Walks
<1>2. ASSUME NEW i \in S PROVE i + 1 \in S
  <2>1. CASE i + 1 > n
    BY <2>1
  <2>2. CASE i + 1 <= n
    <3>1. i + 1 \in 1 .. n /\ i + 1 \in 1 .. (n + 1) /\ (i + 1) - 1 = i
      BY <2>2
    <3>2. p[i + 1] = f[p[i]] /\ q[i + 1] = f[q[i]] /\ p[i] = q[i]
      BY <2>2, <3>1 DEF Walks
    <3> QED BY <3>2
  <2> QED BY <2>1, <2>2
<1>3. S = Nat
  <2> HIDE DEF S
  <2> QED BY <1>1, <1>2, SetInduction DEF S
<1> QED BY <1>3

(***************************************************************************)
(* A recursive definition that iterates f from c defines a function.       *)
(***************************************************************************)
LEMMA IterationExists ==
    ASSUME NEW D, NEW f \in [D -> D], NEW c \in D
    PROVE  \E G : G = [k \in Nat |-> IF k = 0 THEN c ELSE f[G[k - 1]]]
<1> DEFINE W(n) == Walks(D, f, c, n)
           F == [n \in Nat |-> (CHOOSE p : p \in W(n))[n]]
<1>2. \A n \in Nat : (CHOOSE p : p \in W(n)) \in W(n)
  BY WalkExists
<1>3. F[0] = c
  BY <1>2 DEF Walks
<1>4. ASSUME NEW n \in Nat PROVE F[n + 1] = f[F[n]]
  <2> DEFINE p == CHOOSE p : p \in W(n)
             q == CHOOSE q : q \in W(n + 1)
  <2>1. p \in W(n) /\ q \in W(n + 1)
    BY <1>2
  <2>2. F[n] = p[n] /\ F[n + 1] = q[n + 1]
    OBVIOUS
  <2> HIDE DEF p, q, F
  <2>3. p[n] = q[n]
    BY <2>1, WalkUnique
  <2>4. q[n + 1] = f[q[n]]
    BY <2>1 DEF Walks
  <2> QED BY <2>2, <2>3, <2>4
<1>5. F = [k \in Nat |-> IF k = 0 THEN c ELSE f[F[k - 1]]]
  <2>1. F = [k \in Nat |-> F[k]]
    OBVIOUS
  <2>2. ASSUME NEW k \in Nat PROVE F[k] = IF k = 0 THEN c ELSE f[F[k - 1]]
    <3> HIDE DEF F
    <3>1. CASE k = 0
      BY <3>1, <1>3
    <3>2. CASE k # 0
      <4>1. k - 1 \in Nat /\ (k - 1) + 1 = k
        BY <3>2
      <4> QED BY <4>1, <3>2, <1>4
    <3> QED BY <3>1, <3>2
  <2> HIDE DEF F
  <2> QED BY <2>1, <2>2
<1> HIDE DEF F
<1> QED BY <1>5

(***************************************************************************)
(* What it computes, element by element.                                   *)
(***************************************************************************)
LEMMA IterationSteps ==
    ASSUME NEW D, NEW f \in [D -> D], NEW c \in D, NEW G,
           G = [k \in Nat |-> IF k = 0 THEN c ELSE f[G[k - 1]]]
    PROVE  /\ G[0] = c
           /\ \A k \in Nat : G[k + 1] = f[G[k]]
           /\ \A k \in Nat : G[k] \in D
<1>1. G[0] = c
  OBVIOUS
<1>2. ASSUME NEW k \in Nat PROVE G[k + 1] = f[G[k]]
  <2>1. k + 1 \in Nat /\ k + 1 # 0 /\ (k + 1) - 1 = k
    OBVIOUS
  <2> QED BY <2>1
<1>3. \A k \in Nat : G[k] \in D
  <2> DEFINE S == {k \in Nat : G[k] \in D}
  <2>1. 0 \in S /\ \A k \in S : k + 1 \in S
    BY <1>1, <1>2
  <2>2. S = Nat
    <3> HIDE DEF S
    <3> QED BY <2>1, SetInduction DEF S
  <2> QED BY <2>2
<1> QED BY <1>1, <1>2, <1>3

-----------------------------------------------------------------------------
(***************************************************************************)
(* The recursive definition of the powers of two is one.                   *)
(***************************************************************************)
LEMMA Pow2Steps ==
    /\ Pow2[0] = 1
    /\ \A k \in Nat : Pow2[k] \in Nat \ {0} /\ Pow2[k + 1] = 2 * Pow2[k]
<1> DEFINE D == Nat \ {0}
           double == [n \in D |-> 2 * n]
<1>1. double \in [D -> D] /\ 1 \in D
  OBVIOUS
<1>2. \E G : G = [k \in Nat |-> IF k = 0 THEN 1 ELSE double[G[k - 1]]]
  <2> HIDE DEF D, double
  <2> QED BY <1>1, IterationExists
<1>3. PICK G : G = [k \in Nat |-> IF k = 0 THEN 1 ELSE double[G[k - 1]]]
  BY <1>2
<1>4. /\ G[0] = 1
      /\ \A k \in Nat : G[k + 1] = double[G[k]]
      /\ \A k \in Nat : G[k] \in D
  <2> HIDE DEF D, double
  <2> QED BY <1>1, <1>3, IterationSteps
<1>5. G = [k \in Nat |-> IF k = 0 THEN 1 ELSE 2 * G[k - 1]]
  <2>1. ASSUME NEW k \in Nat
        PROVE  (IF k = 0 THEN 1 ELSE double[G[k - 1]]) = (IF k = 0 THEN 1 ELSE 2 * G[k - 1])
    <3>1. CASE k = 0
      BY <3>1
    <3>2. CASE k # 0
      <4>1. k - 1 \in Nat
        BY <3>2
      <4>2. G[k - 1] \in D
        BY <4>1, <1>4
      <4> QED BY <4>2, <3>2
    <3> QED BY <3>1, <3>2
  <2> HIDE DEF D, double
  <2> QED BY <2>1, <1>3
<1>6. Pow2 = [k \in Nat |-> IF k = 0 THEN 1 ELSE 2 * Pow2[k - 1]]
  <2>1. \E H : H = [k \in Nat |-> IF k = 0 THEN 1 ELSE 2 * H[k - 1]]
    BY <1>5
  <2> QED BY <2>1 DEF Pow2
<1>7. \A k \in Nat : Pow2[k + 1] = 2 * Pow2[k]
  <2> TAKE k \in Nat
  <2>1. k + 1 \in Nat /\ k + 1 # 0 /\ (k + 1) - 1 = k
    OBVIOUS
  <2> QED BY <1>6, <2>1
<1>8. Pow2[0] = 1
  BY <1>6
<1>9. \A k \in Nat : Pow2[k] \in D
  <2> DEFINE S == {k \in Nat : Pow2[k] \in D}
  <2>1. 0 \in S /\ \A k \in S : k + 1 \in S
    BY <1>7, <1>8
  <2>2. S = Nat
    <3> HIDE DEF S
    <3> QED BY <2>1, SetInduction DEF S
  <2> QED BY <2>2
<1> QED BY <1>7, <1>8, <1>9

(***************************************************************************)
(* The power of a sum.                                                     *)
(***************************************************************************)
LEMMA Pow2Sum == \A i, j \in Nat : Pow2[i + j] = Pow2[i] * Pow2[j]
<1> TAKE i \in Nat
<1> DEFINE S == {j \in Nat : Pow2[i + j] = Pow2[i] * Pow2[j]}
<1>1. 0 \in S
  BY Pow2Steps
<1>2. ASSUME NEW j \in S PROVE j + 1 \in S
  <2>1. j \in Nat /\ i + j \in Nat /\ i + (j + 1) = (i + j) + 1
    OBVIOUS
  <2>2. Pow2[i + (j + 1)] = 2 * Pow2[i + j] /\ Pow2[j + 1] = 2 * Pow2[j]
    BY <2>1, Pow2Steps
  <2>3. Pow2[i] \in Nat /\ Pow2[j] \in Nat
    BY <2>1, Pow2Steps
  <2>4. Pow2[i + j] = Pow2[i] * Pow2[j]
    OBVIOUS
  <2>5. ASSUME NEW x \in Nat, NEW y \in Nat PROVE 2 * (x * y) = x * (2 * y)
    OBVIOUS
  <2>6. Pow2[i + (j + 1)] = Pow2[i] * Pow2[j + 1]
    BY <2>2, <2>3, <2>4, <2>5
  <2> QED BY <2>6
<1>3. S = Nat
  <2> HIDE DEF S
  <2> QED BY <1>1, <1>2, SetInduction DEF S
<1> QED BY <1>3

(***************************************************************************)
(* Division with a remainder.                                              *)
(***************************************************************************)
LEMMA Quotient ==
    ASSUME NEW a \in Nat, NEW d \in Nat \ {0}
    PROVE  \E q \in Nat, r \in Nat : r < d /\ a = q * d + r /\ a \div d = q
<1>1. a = d * (a \div d) + (a % d) /\ a % d \in 0 .. (d - 1) /\ a \div d \in Nat
  OBVIOUS
<1> DEFINE q == a \div d
           r == a % d
<1>2. q \in Nat /\ r \in Nat /\ r < d /\ a = d * q + r
  BY <1>1
<1> HIDE DEF q, r
<1>3. a = q * d + r
  BY <1>2
<1> QED BY <1>2, <1>3 DEF q

(***************************************************************************)
(* Quotient and remainder are unique.                                      *)
(***************************************************************************)
LEMMA QuotientIs ==
    ASSUME NEW d \in Nat \ {0}, NEW q \in Nat, NEW r \in Nat, r < d, NEW a \in Nat, a = q * d + r
    PROVE  a \div d = q
OBVIOUS

(***************************************************************************)
(* The bit of a number at which the power of two m is.                     *)
(***************************************************************************)
BitAt(a, m) == (a \div m) % 2 = 1

(***************************************************************************)
(* A bit is the parity of the quotient.                                    *)
(***************************************************************************)
LEMMA BitParts ==
    ASSUME NEW a \in Nat, NEW m \in Nat \ {0}
    PROVE  /\ BitAt(a, m) => \E q, r \in Nat : r < m /\ a = (2 * q + 1) * m + r
           /\ ~BitAt(a, m) => \E q, r \in Nat : r < m /\ a = (2 * q) * m + r
<1>1. PICK c \in Nat, r \in Nat : r < m /\ a = c * m + r /\ a \div m = c
  BY Quotient
<1>2. (c % 2 = 1 => \E q \in Nat : c = 2 * q + 1) /\ (c % 2 # 1 => \E q \in Nat : c = 2 * q)
  OBVIOUS
<1> QED BY <1>1, <1>2 DEF BitAt

LEMMA BitFromParts ==
    ASSUME NEW a \in Nat, NEW m \in Nat \ {0}, NEW q \in Nat, NEW r \in Nat, r < m
    PROVE  /\ a = (2 * q + 1) * m + r => BitAt(a, m)
           /\ a = (2 * q) * m + r => ~BitAt(a, m)
<1>1. 2 * q \in Nat /\ 2 * q + 1 \in Nat /\ (2 * q) % 2 = 0 /\ (2 * q + 1) % 2 = 1
  OBVIOUS
<1>2. a = (2 * q + 1) * m + r => a \div m = 2 * q + 1
  BY <1>1, QuotientIs
<1>3. a = (2 * q) * m + r => a \div m = 2 * q
  BY <1>1, QuotientIs
<1> QED BY <1>1, <1>2, <1>3 DEF BitAt

(***************************************************************************)
(* A larger power is a multiple of a smaller one's double.                 *)
(***************************************************************************)
LEMMA Pow2Multiple ==
    ASSUME NEW k \in Nat, NEW e \in Nat, k < e
    PROVE  \E c \in Nat \ {0} : Pow2[e] = c * (2 * Pow2[k])
<1> DEFINE c == Pow2[e - (k + 1)]
<1>1. e - (k + 1) \in Nat /\ k + 1 \in Nat /\ (k + 1) + (e - (k + 1)) = e
  OBVIOUS
<1>2. c \in Nat \ {0} /\ Pow2[k] \in Nat /\ Pow2[k + 1] = 2 * Pow2[k]
  BY <1>1, Pow2Steps
<1>3. Pow2[(k + 1) + (e - (k + 1))] = Pow2[k + 1] * c
  BY <1>1, Pow2Sum
<1>4. Pow2[e] = Pow2[k + 1] * c
  BY <1>1, <1>3
<1> HIDE DEF c
<1>5. Pow2[e] = c * (2 * Pow2[k])
  BY <1>2, <1>4
<1> QED BY <1>2, <1>5

(***************************************************************************)
(* Two numbers in the same multiple of n have the same quotient by every   *)
(* multiple of n.                                                          *)
(***************************************************************************)
LEMMA SameQuotient ==
    ASSUME NEW n \in Nat \ {0}, NEW c \in Nat \ {0}, NEW q \in Nat, NEW r \in Nat, r < n
    PROVE  (q * n + r) \div (c * n) = q \div c
<1>1. PICK s \in Nat, t \in Nat : t < c /\ q = s * c + t /\ q \div c = s
  BY Quotient
<1>2. q * n + r = s * (c * n) + (t * n + r)
  BY <1>1
<1>3. t * n + n <= c * n
  <2>1. t + 1 <= c
    BY <1>1
  <2> QED BY <1>1, <2>1
<1> DEFINE d == c * n
           u == t * n + r
           a == q * n + r
<1>4. d \in Nat \ {0} /\ u \in Nat /\ u < d /\ a \in Nat /\ a = s * d + u
  BY <1>1, <1>2, <1>3
<1> HIDE DEF a, d, u
<1>5. a \div d = s
  BY <1>4, QuotientIs
<1> QED BY <1>5, <1>1 DEF a, d

(***************************************************************************)
(* Adding a power of two at a bit that is 0 sets that bit, leaves the      *)
(* others alone, and stays within the byte.                                *)
(***************************************************************************)
LEMMA AddBit ==
    ASSUME NEW w \in Nat, NEW k \in 0 .. (w - 1), NEW a \in Nat, a < Pow2[w], ~BitAt(a, Pow2[k])
    PROVE  /\ a + Pow2[k] < Pow2[w]
           /\ \A j \in 0 .. (w - 1) : BitAt(a + Pow2[k], Pow2[j]) <=> j = k \/ BitAt(a, Pow2[j])
<1> DEFINE m == Pow2[k]
           b == a + m
<1>1. k \in Nat /\ m \in Nat \ {0} /\ b \in Nat /\ b = a + m
  BY Pow2Steps
<1> HIDE DEF m, b
<1>2. PICK q \in Nat, r \in Nat : r < m /\ a = (2 * q) * m + r
  BY <1>1, BitParts DEF m
<1>3. b = (2 * q + 1) * m + r
  BY <1>1, <1>2
<1>4. BitAt(b, m)
  BY <1>1, <1>2, <1>3, BitFromParts
\* Above bit k, a and b are in the same multiple of 2 * m.
<1>5. ASSUME NEW e \in Nat, e > k
      PROVE  b \div Pow2[e] = a \div Pow2[e]
  <2>1. PICK c \in Nat \ {0} : Pow2[e] = c * (2 * m)
    BY <1>1, <1>5, Pow2Multiple DEF m
  <2> DEFINE n == 2 * m
             u == r + m
  <2>2. /\ a = q * n + r /\ r < n
        /\ b = q * n + u /\ u \in Nat /\ u < n
        /\ n \in Nat \ {0} /\ Pow2[e] = c * n
    BY <1>1, <1>2, <1>3, <2>1
  <2> HIDE DEF n, u
  <2>3. n \in Nat \ {0} /\ u \in Nat /\ u < n /\ r < n
    BY <2>2
  <2>4. (q * n + r) \div (c * n) = q \div c
    BY <2>3, SameQuotient
  <2>5. (q * n + u) \div (c * n) = q \div c
    BY <2>3, SameQuotient
  <2> QED BY <2>2, <2>4, <2>5
<1>6. b < Pow2[w]
  <2>1. w > k /\ Pow2[w] \in Nat \ {0}
    BY Pow2Steps
  <2>2. a \div Pow2[w] = 0
    BY <2>1
  <2>3. b \div Pow2[w] = 0
    BY <2>1, <2>2, <1>5
  <2>4. PICK c \in Nat, d \in Nat : d < Pow2[w] /\ b = c * Pow2[w] + d /\ b \div Pow2[w] = c
    BY <1>1, <2>1, Quotient
  <2>5. c = 0 /\ 0 * Pow2[w] = 0
    BY <2>1, <2>3, <2>4
  <2> QED BY <2>4, <2>5
\* Below bit k, a multiple of twice the power is added.
<1>7. ASSUME NEW j \in Nat, j < k
      PROVE  BitAt(b, Pow2[j]) <=> BitAt(a, Pow2[j])
  <2> DEFINE n == Pow2[j]
  <2>1. n \in Nat \ {0}
    BY Pow2Steps
  <2>2. PICK c \in Nat \ {0} : m = c * (2 * n)
    BY <1>1, <1>7, Pow2Multiple DEF m
  <2> HIDE DEF n
  <2>3. PICK x \in Nat, d \in Nat : d < n /\ a = x * n + d /\ a \div n = x
    BY <2>1, Quotient
  <2>4. b = (x + 2 * c) * n + d /\ x + 2 * c \in Nat
    BY <1>1, <2>1, <2>2, <2>3
  <2>5. b \div n = x + 2 * c
    BY <1>1, <2>1, <2>3, <2>4, QuotientIs
  <2>6. (x + 2 * c) % 2 = x % 2
    BY <2>2, <2>3
  <2> QED BY <2>3, <2>5, <2>6 DEF BitAt, n
<1>8. ASSUME NEW j \in 0 .. (w - 1) PROVE BitAt(b, Pow2[j]) <=> j = k \/ BitAt(a, Pow2[j])
  <2>1. CASE j = k
    BY <2>1, <1>4 DEF m
  <2>2. CASE j < k
    BY <2>2, <1>7
  <2>3. CASE j > k
    BY <2>3, <1>5 DEF BitAt
  <2> QED BY <1>1, <2>1, <2>2, <2>3
<1> QED BY <1>6, <1>8 DEF b, m

(***************************************************************************)
(* Subtracting a power of two at a bit that is 1 clears that bit and       *)
(* leaves the others alone.                                                *)
(***************************************************************************)
LEMMA SubtractBit ==
    ASSUME NEW w \in Nat, NEW k \in 0 .. (w - 1), NEW b \in Nat, b < Pow2[w], BitAt(b, Pow2[k])
    PROVE  /\ (b - Pow2[k]) % Pow2[w] \in Nat /\ (b - Pow2[k]) % Pow2[w] < Pow2[w]
           /\ \A j \in 0 .. (w - 1) :
                 BitAt((b - Pow2[k]) % Pow2[w], Pow2[j]) <=> j # k /\ BitAt(b, Pow2[j])
<1> DEFINE m == Pow2[k]
           a == b - m
<1>1. k \in Nat /\ m \in Nat \ {0} /\ Pow2[w] \in Nat \ {0}
  BY Pow2Steps
<1> HIDE DEF m
<1>2. PICK q \in Nat, r \in Nat : r < m /\ b = (2 * q + 1) * m + r
  BY <1>1, BitParts DEF m
<1>3. a = (2 * q) * m + r
  BY <1>1, <1>2
<1>4. a \in Nat /\ a < Pow2[w] /\ a + m = b
  <2>1. (2 * q) * m \in Nat
    BY <1>1, <1>2
  <2> QED BY <1>1, <1>2, <1>3, <2>1
<1>5. a % Pow2[w] = a
  BY <1>1, <1>4
<1> HIDE DEF a
<1>6. ~BitAt(a, m)
  BY <1>1, <1>2, <1>3, <1>4, BitFromParts
<1>7. \A j \in 0 .. (w - 1) : BitAt(b, Pow2[j]) <=> j = k \/ BitAt(a, Pow2[j])
  BY <1>4, <1>6, AddBit DEF m
<1>8. \A j \in 0 .. (w - 1) : BitAt(a, Pow2[j]) <=> j # k /\ BitAt(b, Pow2[j])
  BY <1>6, <1>7 DEF m
<1> QED BY <1>4, <1>5, <1>8 DEF a, m
=============================================================================
