----------------------------- MODULE ArithFacts -----------------------------
(* Facts about numbers that the proofs of several components rest on.      *)
EXTENDS Integers, FiniteSetTheorems, TLAPS

-----------------------------------------------------------------------------
(* Arithmetic of % with a divisor that is not a number.                    *)

\* What % and \div mean.
LEMMA ModDef ==
  ASSUME NEW P \in Nat \ {0}, NEW a \in Int
  PROVE  a % P \in 0..P-1 /\ a \div P \in Int /\ a = P * (a \div P) + (a % P)
OBVIOUS

\* The only multiple of P between -P and P is 0.
LEMMA MulBig ==
  ASSUME NEW P \in Nat \ {0}, NEW d \in Int, P * d < P, 0 - P < P * d
  PROVE  d = 0
<1>1. CASE d >= 1
  <2>1. P * d >= P BY <1>1
  <2> QED BY <2>1
<1>2. CASE d <= -1
  <2>1. P * d <= 0 - P BY <1>2
  <2> QED BY <2>1
<1> QED BY <1>1, <1>2

\* Multiplication distributes over subtraction.
LEMMA Distr ==
  ASSUME NEW P \in Int, NEW x \in Int, NEW y \in Int
  PROVE  P * x - P * y = P * (x - y)
OBVIOUS

\* A remainder is determined by any quotient that fits.
LEMMA ModUnique ==
  ASSUME NEW P \in Nat \ {0}, NEW a \in Int, NEW q \in Int, NEW r \in 0..P-1,
         a = P * q + r
  PROVE  a % P = r
<1> DEFINE k == a \div P
           m == a % P
<1>1. m \in 0..P-1 /\ k \in Int /\ a = P * k + m BY ModDef
<1> HIDE DEF k, m
<1>2. P * k - P * q = r - m BY <1>1
<1>3. P * (k - q) = r - m BY <1>1, <1>2, Distr
<1>4. k - q = 0 BY <1>1, <1>3, MulBig
<1>5. r = m BY <1>1, <1>3, <1>4
<1> QED BY <1>5 DEF m

\* Adding a multiple of P does not change the remainder.
LEMMA ModAdd ==
  ASSUME NEW P \in Nat \ {0}, NEW W \in Int, W % P = 0, NEW m \in Int
  PROVE  (W + m) % P = m % P
<1> DEFINE q == W \div P
           k == m \div P
           r == m % P
<1>1. q \in Int /\ W = P * q BY ModDef
<1>2. r \in 0..P-1 /\ k \in Int /\ m = P * k + r BY ModDef
<1> HIDE DEF q, k, r
<1>3. P * q + P * k = P * (q + k) BY <1>1, <1>2
<1>4. W + m = P * (q + k) + r BY <1>1, <1>2, <1>3
<1>5. (W + m) % P = r BY <1>1, <1>2, <1>4, ModUnique
<1> QED BY <1>5 DEF r

\* Fewer than P apart, two numbers have different remainders.
LEMMA ModDistinct ==
  ASSUME NEW P \in Nat \ {0}, NEW a \in Int, NEW b \in Int, a < b, b < a + P
  PROVE  a % P # b % P
<1> SUFFICES ASSUME a % P = b % P PROVE FALSE OBVIOUS
<1> DEFINE q == a \div P
           k == b \div P
           r == a % P
<1>1. q \in Int /\ a = P * q + r /\ r \in Int BY ModDef
<1>2. k \in Int /\ b = P * k + r BY ModDef
<1> HIDE DEF q, k, r
<1>3. b - a = P * k - P * q BY <1>1, <1>2
<1>4. b - a = P * (k - q) BY <1>1, <1>2, <1>3, Distr
<1>5. k - q = 0 BY <1>1, <1>2, <1>4, MulBig
<1> QED BY <1>1, <1>2, <1>4, <1>5

\* The distance between two counters that wrap at W.
LEMMA ModDiff ==
  ASSUME NEW W \in Nat \ {0}, NEW a \in 0..W-1, NEW b \in 0..W-1
  PROVE  (b - a) % W = IF a <= b THEN b - a ELSE b - a + W
<1>1. CASE a <= b
  <2>1. b - a = W * 0 + (b - a) OBVIOUS
  <2> QED BY <1>1, <2>1, ModUnique
<1>2. CASE a > b
  <2>1. b - a = W * (-1) + (b - a + W) OBVIOUS
  <2>2. b - a + W \in 0..W-1 BY <1>2
  <2> QED BY <1>2, <2>1, <2>2, ModUnique
<1> QED BY <1>1, <1>2

\* The remainder of a successor.
LEMMA ModSucc ==
  ASSUME NEW P \in Nat \ {0}, NEW j \in Nat
  PROVE  (j + 1) % P = IF j % P = P - 1 THEN 0 ELSE (j % P) + 1
<1> DEFINE q == j \div P
           m == j % P
<1>1. m \in 0..P-1 /\ q \in Int /\ j = P * q + m BY ModDef
<1> HIDE DEF q, m
<1>2. CASE m = P - 1
  <2>1. P * (q + 1) = P * q + P BY <1>1
  <2>2. j + 1 = P * (q + 1) + 0 BY <1>1, <1>2, <2>1
  <2>3. (j + 1) % P = 0 BY <1>1, <2>2, ModUnique
  <2> QED BY <1>2, <2>3 DEF m
<1>3. CASE m # P - 1
  <2>1. j + 1 = P * q + (m + 1) /\ m + 1 \in 0..P-1 BY <1>1, <1>3
  <2>2. (j + 1) % P = m + 1 BY <1>1, <2>1, ModUnique
  <2> QED BY <1>3, <2>2 DEF m
<1> QED BY <1>2, <1>3

\* Numbers with the same remainder keep it in step.
LEMMA ModCong ==
  ASSUME NEW P \in Nat \ {0}, NEW a \in Int, NEW c \in Int, a % P = c % P, NEW j \in Int
  PROVE  (a + j) % P = (c + j) % P
<1> DEFINE q == a \div P
           k == c \div P
           r == a % P
<1>1. q \in Int /\ a = P * q + r /\ r \in 0..P - 1
  BY ModDef
<1>2. k \in Int /\ c = P * k + r
  BY ModDef
<1> HIDE DEF q, k, r
<1>3. a + j = P * q + (r + j) /\ c + j = P * k + (r + j)
  BY <1>1, <1>2
<1>4. ASSUME NEW m \in Int PROVE P * m \in Int /\ (P * m) % P = 0
  <2>1. P * m = P * m + 0 /\ 0 \in 0..P - 1 /\ P * m \in Int
    OBVIOUS
  <2> QED BY <2>1, ModUnique
<1>5. r + j \in Int
  BY <1>1
<1>6. (P * q + (r + j)) % P = (r + j) % P
  BY <1>1, <1>4, <1>5, ModAdd, ZenonT(40)
<1>7. (P * k + (r + j)) % P = (r + j) % P
  BY <1>2, <1>4, <1>5, ModAdd
<1> QED BY <1>3, <1>6, <1>7

\* A number below P is its own remainder.
LEMMA ModSmall ==
  ASSUME NEW P \in Nat \ {0}, NEW a \in 0..P - 1
  PROVE  a % P = a
<1>1. a = P * 0 + a
  OBVIOUS
<1> QED BY <1>1, ModUnique

\* A counter that wraps at a multiple of P keeps its remainder.
LEMMA ModWrap ==
  ASSUME NEW P \in Nat \ {0}, NEW W \in Nat \ {0}, W % P = 0, NEW a \in Int
  PROVE  a % W \in 0..W - 1 /\ (a % W) % P = a % P
<1> DEFINE q == a \div W
           r == a % W
<1>1. q \in Int /\ a = W * q + r /\ r \in 0..W - 1
  BY ModDef
<1>2. W * q \in Int /\ (W * q) % P = 0
  <2> DEFINE k == W \div P
  <2>1. k \in Int /\ W = P * k
    BY ModDef
  <2> HIDE DEF k, q
  <2>2. (P * k) * q = P * (k * q) /\ k * q \in Int
    BY <1>1, <2>1
  <2>3. W * q = P * (k * q) + 0 /\ 0 \in 0..P - 1
    BY <1>1, <2>1, <2>2
  <2>4. W * q \in Int
    BY <1>1
  <2> QED BY <2>2, <2>3, <2>4, ModUnique
<1> HIDE DEF q, r
<1>3. r \in Int
  BY <1>1
<1>4. (W * q + r) % P = r % P
  BY <1>2, <1>3, ModAdd
<1> QED BY <1>1, <1>4 DEF r

-----------------------------------------------------------------------------
(* Induction, with a set where the library's theorems have an operator.    *)

\* A set of naturals that has 0 and the successor of every member is all of
\* Nat: otherwise n |-> n + 1 would map the members up to the first gap, a
\* finite set, one-to-one into itself without 0.
LEMMA SetInduction ==
  ASSUME NEW S, 0 \in S, \A n \in Nat : n \in S => n + 1 \in S
  PROVE  Nat \subseteq S
<1>1. SUFFICES ASSUME NEW m \in Nat, m \notin S PROVE FALSE
  OBVIOUS
<1> DEFINE A == S \cap (0..m)
           B == A \ {0}
           f == [n \in A |-> n + 1]
<1>2. IsFiniteSet(0..m)
  BY FS_Interval
<1>3. IsFiniteSet(A)
  BY <1>2, FS_Subset
<1>4. IsFiniteSet(B) /\ Cardinality(B) = Cardinality(A) - 1
  <2>1. 0 \in A
    OBVIOUS
  <2> QED BY <1>3, <2>1, FS_RemoveElement
<1>5. f \in Injection(A, B)
  <2>1. \A n \in A : n + 1 \in B
    BY <1>1
  <2>2. f \in [A -> B]
    BY <2>1
  <2>3. \A a, b \in A : f[a] = f[b] => a = b
    OBVIOUS
  <2> QED BY <2>2, <2>3 DEF Injection, IsInjective
<1>6. Cardinality(A) <= Cardinality(B)
  <2> HIDE DEF A, B, f
  <2> QED BY <1>4, <1>5, FS_Injection
<1>7. Cardinality(A) \in Nat
  BY <1>3, FS_CardinalityType
<1> QED BY <1>4, <1>6, <1>7

\* A nonempty set of naturals has a least member.
LEMMA LeastMember ==
  ASSUME NEW S, S \subseteq Nat, S # {}
  PROVE  \E m \in S : \A j \in S : m <= j
<1>1. SUFFICES ASSUME \A m \in S : \E j \in S : j < m PROVE FALSE
  OBVIOUS
<1> DEFINE T == {n \in Nat : \A j \in S : n <= j}
<1>2. 0 \in T
  OBVIOUS
<1>3. \A n \in Nat : n \in T => n + 1 \in T
  <2>1. TAKE n \in Nat
  <2>2. HAVE n \in T
  <2>3. n \notin S
    BY <1>1, <2>2
  <2>4. \A j \in S : n + 1 <= j
    BY <2>2, <2>3
  <2> QED BY <2>4
<1>4. Nat \subseteq T
  <2> HIDE DEF T
  <2> QED BY <1>2, <1>3, SetInduction
<1>5. PICK j \in S : TRUE
  OBVIOUS
<1>6. j + 1 \in T
  BY <1>4
<1> QED BY <1>5, <1>6

-----------------------------------------------------------------------------
(* Counting.  One(c) is what an element counts for when c says it is there.  *)
One(c) == IF c THEN 1 ELSE 0

\* A finite subset has a number of members.
LEMMA CountType ==
  ASSUME NEW T, IsFiniteSet(T), NEW A, A \subseteq T
  PROVE  IsFiniteSet(A) /\ Cardinality(A) \in Nat
BY FS_Subset, FS_CardinalityType

\* Two subsets that agree everywhere but at x differ in number by x.
LEMMA OneMoves ==
  ASSUME NEW T, IsFiniteSet(T), NEW A, A \subseteq T, NEW C, C \subseteq T,
         NEW x, \A y \in T : y # x => (y \in A <=> y \in C)
  PROVE  /\ Cardinality(A) \in Nat /\ Cardinality(C) \in Nat
         /\ Cardinality(C) = Cardinality(A) + One(x \in C) - One(x \in A)
<1>1. /\ IsFiniteSet(A) /\ Cardinality(A) \in Nat
      /\ IsFiniteSet(C) /\ Cardinality(C) \in Nat
  BY CountType
<1>2. A \ {x} = C \ {x}
  OBVIOUS
<1>3. /\ Cardinality(A \ {x}) = IF x \in A THEN Cardinality(A) - 1 ELSE Cardinality(A)
      /\ Cardinality(C \ {x}) = IF x \in C THEN Cardinality(C) - 1 ELSE Cardinality(C)
  BY <1>1, FS_RemoveElement
<1> QED BY <1>1, <1>2, <1>3 DEF One

\* The same for two that agree everywhere but at x and at y.
LEMMA TwoMove ==
  ASSUME NEW T, IsFiniteSet(T), NEW A, A \subseteq T, NEW C, C \subseteq T,
         NEW x, NEW y, x # y, A \ {x, y} = C \ {x, y}
  PROVE  /\ Cardinality(A) \in Nat /\ Cardinality(C) \in Nat
         /\ Cardinality(C) = Cardinality(A) + One(x \in C) - One(x \in A)
                                            + One(y \in C) - One(y \in A)
<1> DEFINE M == (A \ {x}) \cup (C \cap {x})
<1>1. M \subseteq T /\ (x \in M <=> x \in C) /\ (y \in M <=> y \in A)
      /\ \A z \in T : z # x => (z \in A <=> z \in M)
  OBVIOUS
<1>2. \A z \in T : z # y => (z \in M <=> z \in C)
  OBVIOUS
<1> HIDE DEF M
<1>3. /\ Cardinality(A) \in Nat /\ Cardinality(M) \in Nat
      /\ Cardinality(M) = Cardinality(A) + One(x \in M) - One(x \in A)
  BY <1>1, OneMoves
<1>4. /\ Cardinality(C) \in Nat
      /\ Cardinality(C) = Cardinality(M) + One(y \in C) - One(y \in M)
  BY <1>1, <1>2, OneMoves
<1> QED BY <1>1, <1>3, <1>4 DEF One

\* A member is counted, and so are two.
LEMMA CountOne ==
  ASSUME NEW A, IsFiniteSet(A), NEW x \in A
  PROVE  Cardinality(A) \in Nat /\ Cardinality(A) >= 1
         /\ (Cardinality(A) = 1 => \A y \in A : y = x)
<1>1. Cardinality(A) \in Nat /\ Cardinality(A) # 0
  BY FS_CardinalityType, FS_EmptySet
<1>2. Cardinality(A) = 1 => \E z : A = {z}
  BY FS_Singleton
<1> QED BY <1>1, <1>2
=============================================================================
