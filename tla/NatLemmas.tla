------------------------------ MODULE NatLemmas ------------------------------
(***************************************************************************)
(* Facts about the natural numbers that the proofs of several modules      *)
(* need: minima and maxima, which stand in for induction, powers of two,   *)
(* and integer division.                                                   *)
(***************************************************************************)
EXTENDS Integers, FiniteSets, FiniteSetTheorems, WellFoundedInduction, TLAPS

(* Every non-empty set of natural numbers has a least element. *)
LEMMA Least ==
  ASSUME NEW T \in SUBSET Nat, T # {}
  PROVE  \E x \in T : \A y \in T : x <= y
<1> DEFINE R == {pair \in Nat \X Nat : pair[1] < pair[2]}
<1>1. IsWellFoundedOn(R, Nat)
  BY NatLessThanWellFounded, Zenon DEF OpToRel
<1>2. \A x, y \in Nat : <<y, x>> \in R <=> y < x
  OBVIOUS
<1> HIDE DEF R
<1>3. PICK x \in T : \A y \in T : ~(<<y, x>> \in R)
  BY <1>1, WFMin
<1>4. ASSUME NEW y \in T PROVE x <= y
  <2>1. x \in Nat /\ y \in Nat /\ ~(<<y, x>> \in R)
    BY <1>3
  <2>2. ~(y < x)
    BY <1>2, <2>1
  <2> QED
    BY <2>1, <2>2
<1> QED
  BY <1>4

(* A bounded one has a greatest element. *)
LEMMA Greatest ==
  ASSUME NEW T \in SUBSET Nat, T # {}, NEW bound \in Nat, \A y \in T : y <= bound
  PROVE  \E x \in T : \A y \in T : y <= x
<1> DEFINE Bounds == {k \in Nat : \A y \in T : y <= k}
<1>1. PICK m \in Bounds : \A k \in Bounds : m <= k
  <2>1. Bounds \in SUBSET Nat /\ bound \in Bounds
    OBVIOUS
  <2> HIDE DEF Bounds
  <2> QED
    BY <2>1, Least
<1>2. m \in Nat /\ \A y \in T : y <= m
  BY <1>1
<1>3. CASE m \in T
  BY <1>2, <1>3
<1>4. CASE m \notin T
  <2>1. \A y \in T : y <= m - 1 /\ y \in Nat
    BY <1>2, <1>4
  <2>2. m - 1 \in Nat
    <3>1. PICK y \in T : TRUE
      OBVIOUS
    <3>2. y \in Nat /\ y <= m - 1 /\ m \in Nat
      BY <1>2, <2>1
    <3> QED
      BY <3>2
  <2>3. m - 1 \in Bounds
    BY <2>1, <2>2
  <2> QED
    BY <1>1, <1>2, <2>3
<1> QED
  BY <1>3, <1>4

(* A power of two is a positive number: the size of a finite powerset. *)
LEMMA Power ==
  ASSUME NEW k \in Nat
  PROVE  2^k \in Nat \ {0}
<1>1. IsFiniteSet(1 .. k) /\ Cardinality(1 .. k) = k
  BY FS_Interval
<1>2. IsFiniteSet(SUBSET (1 .. k)) /\ Cardinality(SUBSET (1 .. k)) = 2^k
  BY <1>1, FS_SUBSET
<1>3. Cardinality(SUBSET (1 .. k)) \in Nat /\ Cardinality(SUBSET (1 .. k)) # 0
  BY <1>2, FS_CardinalityType, FS_EmptySet
<1> QED
  BY <1>2, <1>3

(* The first power, from the subsets of the empty set. *)
LEMMA PowerZero == 2^0 = 1
<1>1. Cardinality(SUBSET {}) = 2^Cardinality({})
  BY FS_EmptySet, FS_SUBSET
<1>2. SUBSET {} = {{}}
  OBVIOUS
<1>3. Cardinality({{}}) = 1
  BY FS_Singleton
<1> QED
  BY <1>1, <1>2, <1>3, FS_EmptySet

(* The integer quotient, between its bounds. *)
LEMMA Quotient ==
  ASSUME NEW a \in Nat, NEW n \in Nat \ {0}
  PROVE  a \div n \in Nat /\ n * (a \div n) <= a /\ a < n * (a \div n) + n
  OBVIOUS

(* A finite set of numbers has a greatest: the smallest set that had none    *)
(* would have none either without one of its elements.                     *)
LEMMA FiniteGreatest ==
  ASSUME NEW S \in SUBSET Nat, IsFiniteSet(S), S # {}
  PROVE  \E x \in S : \A y \in S : y <= x
<1> DEFINE Endless == {A \in SUBSET S : A # {} /\ \A x \in A : \E y \in A : x < y}
           Sizes == {Cardinality(A) : A \in Endless}
<1>1. \A A \in SUBSET S : IsFiniteSet(A) /\ Cardinality(A) \in Nat
  BY FS_Subset, FS_CardinalityType
<1>2. Endless = {}
  <2> SUFFICES ASSUME Endless # {} PROVE FALSE
    OBVIOUS
  <2>1. Sizes \in SUBSET Nat /\ Sizes # {}
    BY <1>1
  <2>2. PICK n \in Sizes : \A k \in Sizes : n <= k
    BY <2>1, Least
  <2>3. PICK A \in Endless : Cardinality(A) = n
    OBVIOUS
  <2>4. PICK x \in A : TRUE
    OBVIOUS
  <2>5. A \ {x} \in SUBSET S /\ Cardinality(A \ {x}) = Cardinality(A) - 1
    BY <1>1, FS_RemoveElement
  <2>6. A \ {x} \notin Endless
    <3>1. A \ {x} \in Endless => n <= Cardinality(A \ {x})
      BY <2>2
    <3>2. Cardinality(A) \in Nat /\ Cardinality(A) = n
      BY <1>1, <2>3
    <3> QED
      BY <2>5, <3>1, <3>2
  <2>7. PICK y \in A : x < y
    BY <2>4
  <2>8. A \subseteq Nat /\ A \ {x} # {}
    BY <2>7
  <2>9. PICK z \in A \ {x} : \A w \in A \ {x} : ~(z < w)
    BY <2>5, <2>6, <2>8
  <2>10. \A w \in A : ~(z < w)
    BY <2>7, <2>8, <2>9
  <2> QED
    BY <2>3, <2>9, <2>10
<1> HIDE DEF Endless
<1>3. S \notin Endless
  BY <1>2
<1>4. PICK x \in S : \A y \in S : ~(x < y)
  BY <1>3 DEF Endless
<1> QED
  BY <1>4


(* Powers of two add their exponents: a subset of 1 .. a + b is one of the   *)
(* first a numbers and one of the last b.                                  *)
LEMMA PowerSum ==
  ASSUME NEW a \in Nat, NEW b \in Nat
  PROVE  2^(a + b) = 2^a * 2^b
<1> DEFINE A == 1 .. a
           B == (a + 1) .. (a + b)
           f == [x \in (SUBSET A) \X (SUBSET B) |-> x[1] \cup x[2]]
<1>1. IsFiniteSet(A) /\ Cardinality(A) = a
  BY FS_Interval
<1>2. IsFiniteSet(B) /\ Cardinality(B) = b
  <2>1. IsFiniteSet(B) /\ Cardinality(B) = IF a + 1 > a + b THEN 0 ELSE (a + b) - (a + 1) + 1
    BY FS_Interval
  <2> QED
    BY <2>1
<1>3. IsFiniteSet(1 .. (a + b)) /\ Cardinality(1 .. (a + b)) = a + b
  <2>1. a + b \in Nat
    OBVIOUS
  <2> QED
    BY <2>1, FS_Interval
<1>4. A \cup B = 1 .. (a + b) /\ A \cap B = {}
  OBVIOUS
<1> HIDE DEF A, B
<1>5. /\ IsFiniteSet(SUBSET A) /\ Cardinality(SUBSET A) = 2^a
      /\ IsFiniteSet(SUBSET B) /\ Cardinality(SUBSET B) = 2^b
      /\ IsFiniteSet(SUBSET (A \cup B)) /\ Cardinality(SUBSET (A \cup B)) = 2^(a + b)
  <2>1. IsFiniteSet(SUBSET A) /\ Cardinality(SUBSET A) = 2^a
    BY <1>1, FS_SUBSET
  <2>2. IsFiniteSet(SUBSET B) /\ Cardinality(SUBSET B) = 2^b
    BY <1>2, FS_SUBSET
  <2>3. IsFiniteSet(A \cup B) /\ Cardinality(A \cup B) = a + b
    BY <1>3, <1>4
  <2>4. IsFiniteSet(SUBSET (A \cup B)) /\ Cardinality(SUBSET (A \cup B)) = 2^(a + b)
    BY <2>3, FS_SUBSET
  <2> QED
    BY <2>1, <2>2, <2>4
<1>6. /\ IsFiniteSet((SUBSET A) \X (SUBSET B))
      /\ Cardinality((SUBSET A) \X (SUBSET B)) = 2^a * 2^b
  <2> DEFINE P == SUBSET A
             Q == SUBSET B
  <2>1. IsFiniteSet(P) /\ IsFiniteSet(Q) /\ Cardinality(P) = 2^a /\ Cardinality(Q) = 2^b
    BY <1>5
  <2> HIDE DEF P, Q
  <2>2. IsFiniteSet(P \X Q) /\ Cardinality(P \X Q) = Cardinality(P) * Cardinality(Q)
    BY <2>1, FS_Product
  <2>3. IsFiniteSet(P \X Q) /\ Cardinality(P \X Q) = 2^a * 2^b
    BY <2>1, <2>2
  <2> QED
    BY <2>3 DEF P, Q
<1>7. f \in Bijection((SUBSET A) \X (SUBSET B), SUBSET (A \cup B))
  <2>1. f \in [(SUBSET A) \X (SUBSET B) -> SUBSET (A \cup B)]
    <3>1. ASSUME NEW x \in (SUBSET A) \X (SUBSET B) PROVE x[1] \cup x[2] \in SUBSET (A \cup B)
      OBVIOUS
    <3> QED
      BY <3>1, Zenon
  <2>2. ASSUME NEW x \in (SUBSET A) \X (SUBSET B), NEW y \in (SUBSET A) \X (SUBSET B), f[x] = f[y]
        PROVE  x = y
    <3>1. x[1] = f[x] \cap A /\ x[2] = f[x] \cap B /\ y[1] = f[y] \cap A /\ y[2] = f[y] \cap B
      BY <1>4
    <3> QED
      BY <2>2, <3>1
  <2>3. ASSUME NEW Z \in SUBSET (A \cup B)
        PROVE  \E x \in (SUBSET A) \X (SUBSET B) : f[x] = Z
    <3>1. <<Z \cap A, Z \cap B>> \in (SUBSET A) \X (SUBSET B)
      OBVIOUS
    <3>2. f[<<Z \cap A, Z \cap B>>] = Z
      BY <3>1
    <3> QED
      BY <3>1, <3>2
  <2> HIDE DEF f
  <2>4. f \in Injection((SUBSET A) \X (SUBSET B), SUBSET (A \cup B))
    BY <2>1, <2>2 DEF Injection, IsInjective
  <2>5. f \in Surjection((SUBSET A) \X (SUBSET B), SUBSET (A \cup B))
    BY <2>1, <2>3 DEF Surjection
  <2> QED
    BY <2>4, <2>5 DEF Bijection
<1>8. ExistsBijection((SUBSET A) \X (SUBSET B), SUBSET (A \cup B))
  BY <1>7 DEF ExistsBijection
<1>9. Cardinality(SUBSET (A \cup B)) = Cardinality((SUBSET A) \X (SUBSET B))
  BY <1>6, <1>8, FS_Bijection, Zenon
<1> QED
  BY <1>5, <1>6, <1>9, Zenon

(* The second power, from the subsets of a singleton. *)
LEMMA PowerOne == 2^1 = 2
<1>1. Cardinality(SUBSET {1}) = 2^Cardinality({1})
  BY FS_Singleton, FS_SUBSET
<1>2. SUBSET {1} = {{}, {1}}
  OBVIOUS
<1>3. Cardinality({{}} \cup {{1}}) = 2
  <2>1. IsFiniteSet({{}}) /\ Cardinality({{}}) = 1
    BY FS_Singleton
  <2>2. {1} \notin {{}}
    OBVIOUS
  <2>3. Cardinality({{}} \cup {{1}}) = Cardinality({{}}) + 1
    BY <2>1, <2>2, FS_AddElement
  <2> QED
    BY <2>1, <2>3
<1>4. {{}} \cup {{1}} = {{}, {1}}
  OBVIOUS
<1> QED
  BY <1>1, <1>2, <1>3, <1>4, FS_Singleton

(* The powers above the first one exceed one. *)
LEMMA PowerAboveOne ==
  ASSUME NEW n \in Nat, n > 0
  PROVE  2^n > 1
<1>1. n - 1 \in Nat /\ n = 1 + (n - 1)
  OBVIOUS
<1>2. 2^(1 + (n - 1)) = 2^1 * 2^(n - 1)
  BY <1>1, PowerSum
<1>3. 2^(n - 1) \in Nat \ {0}
  BY <1>1, Power
<1> QED
  BY <1>1, <1>2, <1>3, PowerOne

(* A factor of a power of two that leaves a power of two is one itself.      *)
LEMMA PowerFactor ==
  ASSUME NEW a \in Nat, NEW j \in Nat, NEW k \in Nat \ {0}, k * 2^j = 2^a
  PROVE  j <= a /\ k = 2^(a - j)
<1> DEFINE P == 2^j
           R == 2^a
<1>1. P \in Nat \ {0} /\ R \in Nat \ {0} /\ k * P = R
  BY Power
<1> HIDE DEF P, R
<1>2. j <= a
  <2> SUFFICES ASSUME j > a PROVE FALSE
    OBVIOUS
  <2> DEFINE Q == 2^(j - a)
  <2>1. j - a \in Nat /\ j - a > 0 /\ j = a + (j - a)
    OBVIOUS
  <2>2. P = R * Q
    BY <2>1, PowerSum DEF P, R
  <2>3. Q > 1 /\ Q \in Nat
    BY <2>1, PowerAboveOne, Power
  <2> HIDE DEF Q
  <2>4. P >= 2 * R
    BY <1>1, <2>2, <2>3
  <2>5. k * P >= P
    BY <1>1
  <2> QED
    BY <1>1, <2>4, <2>5
<1>3. R = P * 2^(a - j)
  <2>1. a - j \in Nat /\ a = j + (a - j)
    BY <1>2
  <2> QED
    BY <2>1, PowerSum DEF P, R
<1> DEFINE S == 2^(a - j)
<1>4. S \in Nat \ {0}
  BY <1>2, Power
<1> HIDE DEF S
<1>5. k * P = S * P
  BY <1>1, <1>3, <1>4 DEF S
<1>6. k = S
  <2>1. CASE k > S
    <3>1. k >= S + 1
      BY <1>4, <2>1
    <3>2. k * P >= (S + 1) * P
      BY <1>1, <1>4, <3>1
    <3>3. (S + 1) * P = S * P + P
      BY <1>1, <1>4
    <3> QED
      BY <1>1, <1>4, <1>5, <3>2, <3>3
  <2>2. CASE k < S
    <3>1. S >= k + 1
      BY <1>4, <2>2
    <3>2. S * P >= (k + 1) * P
      BY <1>1, <1>4, <3>1
    <3>3. (k + 1) * P = k * P + P
      BY <1>1
    <3> QED
      BY <1>1, <1>4, <1>5, <3>2, <3>3
  <2> QED
    BY <1>4, <2>1, <2>2
<1> QED
  BY <1>2, <1>6 DEF S

(* A power of two divided by a smaller one is a power of two, without remainder. *)
LEMMA PowerQuotient ==
  ASSUME NEW a \in Nat, NEW g \in Nat, 2^a \div 2^g # 0
  PROVE  g <= a /\ 2^a \div 2^g = 2^(a - g) /\ 2^a = 2^g * 2^(a - g)
<1> DEFINE R == 2^a
           P == 2^g
<1>1. R \in Nat \ {0} /\ P \in Nat \ {0} /\ R \div P # 0
  BY Power
<1> HIDE DEF R, P
<1>2. g <= a
  <2> SUFFICES ASSUME g > a PROVE FALSE
    OBVIOUS
  <2> DEFINE Q == 2^(g - a)
  <2>1. g - a \in Nat /\ g - a > 0 /\ g = a + (g - a)
    OBVIOUS
  <2>2. P = R * Q
    BY <2>1, PowerSum DEF P, R
  <2>3. Q > 1 /\ Q \in Nat
    BY <2>1, PowerAboveOne, Power
  <2> HIDE DEF Q
  <2>4. P > R
    BY <1>1, <2>2, <2>3
  <2>5. R \div P \in Nat /\ P * (R \div P) <= R
    BY <1>1, Quotient
  <2>6. R \div P = 0
    BY <1>1, <2>4, <2>5
  <2> QED
    BY <1>1, <2>6
<1> DEFINE S == 2^(a - g)
<1>3. S \in Nat \ {0}
  BY <1>2, Power
<1>4. R = P * S
  <2>1. a - g \in Nat /\ a = g + (a - g)
    BY <1>2
  <2> QED
    BY <2>1, PowerSum DEF P, R
<1> HIDE DEF S
<1>5. R \div P = S
  BY <1>1, <1>3, <1>4
<1> QED
  BY <1>2, <1>4, <1>5 DEF R, P, S

(* Induction, over a set in place of a predicate. *)
LEMMA Counting ==
  ASSUME NEW S, 0 \in S, \A k \in Nat : k \in S => k + 1 \in S
  PROVE  \A k \in Nat : k \in S
<1> SUFFICES ASSUME {k \in Nat : k \notin S} # {} PROVE FALSE
  OBVIOUS
<1> DEFINE Missing == {k \in Nat : k \notin S}
<1>1. Missing \in SUBSET Nat /\ Missing # {}
  OBVIOUS
<1>2. PICK m \in Missing : \A k \in Missing : m <= k
  BY <1>1, Least
<1>3. m # 0 /\ m \in Nat /\ m - 1 \in Nat
  BY <1>2
<1>4. m - 1 \in S
  BY <1>2, <1>3
<1>5. m \in S
  <2>1. (m - 1) + 1 = m
    BY <1>3
  <2> QED
    BY <1>3, <1>4, <2>1
<1> QED
  BY <1>2, <1>5

(* A quotient is what its bounds say. *)
LEMMA QuotientIs ==
  ASSUME NEW a \in Nat, NEW n \in Nat \ {0}, NEW q \in Nat, n * q <= a, a < n * q + n
  PROVE  a \div n = q
<1> DEFINE r == a \div n
<1>1. r \in Nat /\ n * r <= a /\ a < n * r + n
  BY Quotient
<1> HIDE DEF r
<1>2. ~(r < q)
  <2> SUFFICES ASSUME r + 1 <= q PROVE FALSE
    BY <1>1
  <2>1. n * (r + 1) <= n * q
    BY <1>1
  <2>2. n * (r + 1) = n * r + n
    BY <1>1
  <2> QED
    BY <1>1, <2>1, <2>2
<1>3. ~(q < r)
  <2> SUFFICES ASSUME q + 1 <= r PROVE FALSE
    BY <1>1
  <2>1. n * (q + 1) <= n * r
    BY <1>1
  <2>2. n * (q + 1) = n * q + n
    OBVIOUS
  <2> QED
    BY <1>1, <2>1, <2>2
<1>4. r = q
  BY <1>1, <1>2, <1>3
<1> QED
  BY <1>4 DEF r

(* Dividing twice divides by the product. *)
LEMMA QuotientTwice ==
  ASSUME NEW a \in Nat, NEW m \in Nat \ {0}, NEW n \in Nat \ {0}
  PROVE  (a \div m) \div n = a \div (m * n)
<1> DEFINE q == a \div m
           r == q \div n
<1>1. q \in Nat /\ m * q <= a /\ a < m * q + m
  BY Quotient
<1>2. r \in Nat /\ n * r <= q /\ q < n * r + n
  BY <1>1, Quotient
<1> HIDE DEF q, r
<1>3. m * (n * r) <= m * q /\ m * q + m <= m * (n * r + n)
  <2> DEFINE low == n * r
             high == n * r + n
  <2>1. low \in Nat /\ high \in Nat /\ low <= q /\ q + 1 <= high
    BY <1>1, <1>2
  <2> HIDE DEF low, high
  <2>2. m * low <= m * q /\ m * (q + 1) <= m * high /\ m * (q + 1) = m * q + m
    BY <1>1, <2>1
  <2> QED
    BY <2>2 DEF low, high
<1>4. m * n \in Nat \ {0} /\ m * (n * r) = (m * n) * r /\ m * (n * r + n) = (m * n) * r + m * n
  BY <1>2
<1>5. (m * n) * r <= a /\ a < (m * n) * r + m * n
  <2> DEFINE p == (m * n) * r
             k == m * n
             x == m * q
  <2>1. p \in Nat /\ k \in Nat /\ x \in Nat /\ p <= x /\ x + m <= p + k /\ x <= a /\ a < x + m
    BY <1>1, <1>2, <1>3, <1>4
  <2> HIDE DEF p, k, x
  <2>2. p <= a /\ a < p + k
    BY <2>1
  <2> QED
    BY <2>2 DEF p, k
<1>6. a \div (m * n) = r
  BY <1>2, <1>4, <1>5, QuotientIs
<1> QED
  BY <1>6 DEF q, r
=============================================================================
