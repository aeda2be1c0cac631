---------------------------- MODULE Numbers_proofs ----------------------------
(***************************************************************************)
(* Facts about numbers the proofs share: induction over ranges, quotients  *)
(* and remainders, powers of two, the sum of a function over a finite set, *)
(* and the bitwise conjunction of two numbers as the sum over their        *)
(* digits.                                                                 *)
(***************************************************************************)
EXTENDS Integers, Sequences, FiniteSets, FiniteSetsExt, FiniteSetTheorems,
        WellFoundedInduction, TLAPS

\* Every set of naturals has a least element.
LEMMA Least ==
    ASSUME NEW K, K \subseteq Nat, K # {}
    PROVE  \E m \in K : \A k \in K : ~(k < m)
<1>1. PICK m \in K : \A k \in K : ~ (<<k, m>> \in OpToRel(<, Nat))
    BY NatLessThanWellFounded, WFMin, Zenon
<1> QED BY <1>1, Zenon DEF OpToRel

\* Induction over a range of naturals, for a set.
LEMMA Inductive ==
    ASSUME NEW n \in Nat, NEW K, 0 \in K, \A k \in 0 .. n - 1 : k \in K => k + 1 \in K
    PROVE  0 .. n \subseteq K
<1> DEFINE missing == (0 .. n) \ K
<1> SUFFICES ASSUME missing # {} PROVE FALSE
    OBVIOUS
<1>1. missing \subseteq Nat  OBVIOUS
<1> HIDE DEF missing
<1>2. PICK m \in missing : \A k \in missing : ~(k < m)  BY <1>1, Least
<1>3. m \in 1 .. n /\ m \notin K  BY <1>2 DEF missing
<1>4. m - 1 \in 0 .. n - 1 /\ m - 1 \notin missing /\ m - 1 + 1 = m  BY <1>2, <1>3
<1> QED BY <1>3, <1>4 DEF missing

-----------------------------------------------------------------------------
(* Quotients and powers of two *)

\* The quotient is the multiple that leaves a remainder.
LEMMA Quotient ==
    ASSUME NEW q \in Nat, q > 0, NEW a \in Int, NEW k \in Int, NEW r \in 0 .. q - 1, a = q * k + r
    PROVE  a \div q = k
<1> DEFINE e == a \div q
           m == a % q
           d == k - e
<1>1. e \in Int /\ m \in Int /\ 0 <= m /\ m < q /\ a = q * e + m  OBVIOUS
<1> HIDE DEF e, m
<1>2. d \in Int /\ q * d = m - r /\ r \in Int /\ 0 <= r /\ r < q  BY <1>1
<1>3. k = d + e  BY <1>1
<1> HIDE DEF d
<1>4. CASE d >= 1
  <2>1. q * d >= q  BY <1>2, <1>4
  <2> QED BY <1>1, <1>2, <2>1
<1>5. CASE d <= -1
  <2>1. q * d <= 0 - q  BY <1>2, <1>5
  <2> QED BY <1>1, <1>2, <2>1
<1>6. CASE d = 0
  <2>1. k = e  BY <1>1, <1>3, <1>6
  <2> QED BY <2>1 DEF e
<1> QED BY <1>2, <1>4, <1>5, <1>6

\* Powers of two, counted as subsets: 2^(n + 1) is twice 2^n.
LEMMA PowerNext ==
    ASSUME NEW n \in Nat
    PROVE  2^n \in Nat /\ 2^(n + 1) = 2^n + 2^n
<1> DEFINE A == 1 .. n
           B == 1 .. n + 1
           with == {S \cup {n + 1} : S \in SUBSET A}
<1>1. IsFiniteSet(A) /\ Cardinality(A) = n
  <2>1. 1 \in Int /\ n \in Int  OBVIOUS
  <2> QED BY <2>1, FS_Interval
<1>2. IsFiniteSet(B) /\ Cardinality(B) = n + 1
  <2>1. 1 \in Int /\ n + 1 \in Int  OBVIOUS
  <2> QED BY <2>1, FS_Interval
<1>3. IsFiniteSet(SUBSET A) /\ Cardinality(SUBSET A) = 2^n  BY <1>1, FS_SUBSET, Zenon
<1>4. Cardinality(SUBSET B) = 2^(n + 1)  BY <1>2, FS_SUBSET, Zenon
<1>5. IsFiniteSet(with) /\ Cardinality(with) = Cardinality(SUBSET A)
  <2> DEFINE f == [S \in SUBSET A |-> S \cup {n + 1}]
  <2>1. n + 1 \notin A  OBVIOUS
  <2> HIDE DEF A
  <2>2. f \in Bijection(SUBSET A, with)
    <3>1. f \in [SUBSET A -> with]  OBVIOUS
    <3>2. \A S, T \in SUBSET A : f[S] = f[T] => S = T  BY <2>1
    <3>3. \A U \in with : \E S \in SUBSET A : f[S] = U  OBVIOUS
    <3>4. DOMAIN f = SUBSET A  OBVIOUS
    <3> HIDE DEF f, with
    <3> QED BY <3>1, <3>2, <3>3, <3>4 DEF Bijection, Injection, Surjection, IsInjective
  <2>3. ExistsBijection(SUBSET A, with)  BY <2>2 DEF ExistsBijection
  <2> HIDE DEF f, with
  <2> QED BY <1>3, <2>3, FS_Bijection
<1>6. SUBSET B = (SUBSET A) \cup with /\ (SUBSET A) \cap with = {}
  <2>1. B = A \cup {n + 1} /\ n + 1 \notin A  OBVIOUS
  <2> HIDE DEF A, B
  <2>2. ASSUME NEW S \in SUBSET B PROVE S \in (SUBSET A) \cup with
    <3>1. CASE n + 1 \in S
      <4>1. S \ {n + 1} \in SUBSET A /\ S = (S \ {n + 1}) \cup {n + 1}  BY <2>1, <3>1
      <4> QED BY <4>1
    <3>2. CASE n + 1 \notin S  BY <2>1, <3>2
    <3> QED BY <3>1, <3>2
  <2>3. (SUBSET A) \cup with \subseteq SUBSET B  BY <2>1
  <2>4. (SUBSET A) \cap with = {}  BY <2>1
  <2> QED BY <2>2, <2>3, <2>4
<1> HIDE DEF with, A, B
<1>7. Cardinality(SUBSET B) = Cardinality(SUBSET A) + Cardinality(with) - Cardinality((SUBSET A) \cap with)
    BY <1>3, <1>5, <1>6, FS_Union
<1>8. Cardinality(SUBSET A) \in Nat /\ Cardinality({}) = 0  BY <1>3, FS_CardinalityType, FS_EmptySet
<1>9. 2^n \in Nat  BY <1>3, <1>8
<1>10. Cardinality(SUBSET B) = Cardinality(SUBSET A) + Cardinality(SUBSET A)
    BY <1>5, <1>6, <1>7, <1>8
<1>11. 2^(n + 1) = 2^n + 2^n  BY <1>3, <1>4, <1>10, Zenon
<1> QED BY <1>9, <1>11

IsSum(F, S, h) ==
    /\ F \in [SUBSET S -> Int]
    /\ F[{}] = 0
    /\ \A T \in SUBSET S : \A x \in T : F[T] = h[x] + F[T \ {x}]

\* Every finite set has a sum of any function on it.
LEMMA SumExists ==
    ASSUME NEW S, IsFiniteSet(S), NEW h \in [S -> Int]
    PROVE  \E F : IsSum(F, S, h)
<1> DEFINE n == Cardinality(S)
           K == {k \in 0 .. n : \A T \in SUBSET S : Cardinality(T) = k => \E F : IsSum(F, T, h)}
<1>1. n \in Nat /\ \A T \in SUBSET S : IsFiniteSet(T) /\ Cardinality(T) \in 0 .. n
  <2>1. n \in Nat  BY FS_CardinalityType
  <2>2. ASSUME NEW T \in SUBSET S PROVE IsFiniteSet(T) /\ Cardinality(T) <= n  BY FS_Subset
  <2> QED BY <2>1, <2>2, FS_CardinalityType
<1> HIDE DEF n
<1>2. 0 \in K
  <2>1. ASSUME NEW T \in SUBSET S, Cardinality(T) = 0 PROVE \E F : IsSum(F, T, h)
    <3>1. T = {}  BY <1>1, <2>1, FS_EmptySet
    <3>2. IsSum([U \in SUBSET T |-> 0], T, h)  BY <3>1 DEF IsSum
    <3> QED BY <3>2
  <2> QED BY <1>1, <2>1
<1>3. ASSUME NEW k \in 0 .. n - 1, k \in K PROVE k + 1 \in K
  <2>1. ASSUME NEW T \in SUBSET S, Cardinality(T) = k + 1 PROVE \E F : IsSum(F, T, h)
    <3>1. PICK y \in T : TRUE
      <4>1. T # {}  BY <1>1, <2>1, FS_EmptySet
      <4> QED BY <4>1
    <3> DEFINE R == T \ {y}
    <3>2. R \in SUBSET S /\ Cardinality(R) = k
      <4>1. Cardinality(R) = Cardinality(T) - 1  BY <1>1, <3>1, FS_RemoveElement
      <4> QED BY <1>1, <2>1, <4>1
    <3>3. PICK G : IsSum(G, R, h)  BY <1>3, <3>2
    <3> DEFINE F == [U \in SUBSET T |-> IF y \in U THEN h[y] + G[U \ {y}] ELSE G[U]]
    <3>4. h[y] \in Int /\ G \in [SUBSET R -> Int]  BY <3>1, <3>3 DEF IsSum
    <3>5. F \in [SUBSET T -> Int]
      <4>1. ASSUME NEW U \in SUBSET T PROVE U \ {y} \in SUBSET R /\ (y \notin U => U \in SUBSET R)
          OBVIOUS
      <4> HIDE DEF R
      <4> QED BY <3>4, <4>1
    <3>6. F[{}] = 0  BY <3>3 DEF IsSum
    <3>7. ASSUME NEW U \in SUBSET T, NEW x \in U PROVE F[U] = h[x] + F[U \ {x}]
      <4>1. F[U] = (IF y \in U THEN h[y] + G[U \ {y}] ELSE G[U]) /\ U \ {x} \in SUBSET T
            /\ F[U \ {x}] = (IF y \in U \ {x} THEN h[y] + G[(U \ {x}) \ {y}] ELSE G[U \ {x}])
          OBVIOUS
      <4>2. CASE x = y  BY <4>1, <4>2
      <4>3. CASE x # y /\ y \in U
        <5>1. U \ {y} \in SUBSET R /\ x \in U \ {y} /\ (U \ {x}) \ {y} = (U \ {y}) \ {x}  BY <4>3
        <5>2. G[U \ {y}] = h[x] + G[(U \ {y}) \ {x}]  BY <3>3, <5>1 DEF IsSum
        <5>3. h[x] \in Int /\ G[(U \ {y}) \ {x}] \in Int
          <6>1. (U \ {y}) \ {x} \in SUBSET R /\ x \in S  BY <5>1
          <6> QED BY <3>4, <6>1
        <5>4. F[U] = h[y] + G[U \ {y}] /\ F[U \ {x}] = h[y] + G[(U \ {y}) \ {x}]
            BY <4>1, <4>3, <5>1
        <5> HIDE DEF F, R
        <5> QED BY <3>4, <5>2, <5>3, <5>4
      <4>4. CASE x # y /\ y \notin U
        <5>1. U \in SUBSET R /\ y \notin U \ {x}  BY <4>4
        <5>2. G[U] = h[x] + G[U \ {x}]  BY <3>3, <5>1 DEF IsSum
        <5> QED BY <4>1, <4>4, <5>1, <5>2
      <4> QED BY <4>2, <4>3, <4>4
    <3>8. IsSum(F, T, h)
      <4> HIDE DEF F
      <4> QED BY <3>5, <3>6, <3>7 DEF IsSum
    <3> QED BY <3>8
  <2> QED BY <1>1, <2>1
<1>4. n \in K
  <2> HIDE DEF K
  <2>1. 0 .. n \subseteq K  BY <1>1, <1>2, <1>3, Inductive
  <2> QED BY <1>1, <2>1
<1> QED BY <1>4 DEF n

\* A sum that takes the elements of a set in some order.
Sums(it, S, h) ==
    it = [s \in SUBSET S |-> IF s = {} THEN 0
            ELSE h[CHOOSE x \in s : TRUE] + it[s \ {CHOOSE x \in s : TRUE}]]

\* It is the sum, whatever the order.
LEMMA SumAnyOrder ==
    ASSUME NEW S, IsFiniteSet(S), NEW h \in [S -> Int], NEW F, IsSum(F, S, h),
           NEW it, Sums(it, S, h)
    PROVE  it[S] = F[S]
<1> DEFINE n == Cardinality(S)
           K == {k \in 0 .. n : \A T \in SUBSET S : Cardinality(T) = k => it[T] = F[T]}
<1>1. n \in Nat /\ \A T \in SUBSET S : IsFiniteSet(T) /\ Cardinality(T) \in 0 .. n
  <2>1. n \in Nat  BY FS_CardinalityType
  <2>2. ASSUME NEW T \in SUBSET S PROVE IsFiniteSet(T) /\ Cardinality(T) <= n  BY FS_Subset
  <2> QED BY <2>1, <2>2, FS_CardinalityType
<1>2. \A T \in SUBSET S : it[T] = IF T = {} THEN 0
                                  ELSE h[CHOOSE x \in T : TRUE] + it[T \ {CHOOSE x \in T : TRUE}]
    BY Zenon DEF Sums
<1> HIDE DEF n
<1>3. 0 \in K
  <2>1. ASSUME NEW T \in SUBSET S, Cardinality(T) = 0 PROVE it[T] = F[T]
    <3>1. T = {}  BY <1>1, <2>1, FS_EmptySet
    <3>2. it[T] = 0  BY <1>2, <3>1
    <3> QED BY <3>1, <3>2 DEF IsSum
  <2>2. 0 \in 0 .. n  BY <1>1
  <2> QED BY <2>1, <2>2, Zenon
<1>4. ASSUME NEW k \in 0 .. n - 1, k \in K PROVE k + 1 \in K
  <2>1. ASSUME NEW T \in SUBSET S, Cardinality(T) = k + 1 PROVE it[T] = F[T]
    <3> DEFINE y == CHOOSE x \in T : TRUE
    <3>1. T # {}  BY <1>1, <2>1, FS_EmptySet
    <3>2. y \in T  BY <3>1
    <3>3. it[T] = h[y] + it[T \ {y}]  BY <1>2, <3>1
    <3> HIDE DEF y
    <3>4. T \ {y} \in SUBSET S /\ Cardinality(T \ {y}) = k
      <4>1. Cardinality(T \ {y}) = Cardinality(T) - 1  BY <1>1, <3>2, FS_RemoveElement
      <4> QED BY <1>1, <2>1, <4>1
    <3>5. it[T \ {y}] = F[T \ {y}]  BY <1>4, <3>4
    <3>6. F[T] = h[y] + F[T \ {y}]  BY <3>2 DEF IsSum
    <3> QED BY <3>3, <3>5, <3>6, Zenon
  <2>2. k + 1 \in 0 .. n  BY <1>1
  <2> QED BY <2>1, <2>2, Zenon
<1>5. n \in K
  <2> HIDE DEF K
  <2>1. 0 .. n \subseteq K  BY <1>1, <1>3, <1>4, Inductive
  <2> QED BY <1>1, <2>1
<1> QED BY <1>5 DEF n

\* The sum TLC computes, by taking elements in some order, is this one.
LEMMA SumIsSums ==
    ASSUME NEW S, NEW h, NEW F, IsSum(F, S, h)
    PROVE  Sums(F, S, h)
<1>1. ASSUME NEW s \in SUBSET S
      PROVE  F[s] = IF s = {} THEN 0
                    ELSE h[CHOOSE x \in s : TRUE] + F[s \ {CHOOSE x \in s : TRUE}]
  <2> DEFINE y == CHOOSE x \in s : TRUE
  <2>1. CASE s = {}  BY <2>1 DEF IsSum
  <2>2. CASE s # {}
    <3>1. y \in s  BY <2>2
    <3> HIDE DEF y
    <3>2. F[s] = h[y] + F[s \ {y}]  BY <3>1 DEF IsSum
    <3> QED BY <2>2, <3>2, Zenon DEF y
  <2> QED BY <2>1, <2>2
<1>2. F = [s \in SUBSET S |-> F[s]]  BY DEF IsSum
<1> QED BY <1>1, <1>2, Zenon DEF Sums

\* There is one such sum.
LEMMA SumUnique ==
    ASSUME NEW S, IsFiniteSet(S), NEW h \in [S -> Int],
           NEW F, IsSum(F, S, h), NEW G, IsSum(G, S, h)
    PROVE  F[S] = G[S]
<1>1. Sums(F, S, h)  BY SumIsSums
<1> QED BY <1>1, SumAnyOrder, Zenon

SumOver(F, D) == [T \in SUBSET D |-> F[T]]

\* A sum over a set, restricted to a subset, is the sum over the subset.
LEMMA SumRestricts ==
    ASSUME NEW S, NEW h, NEW F, IsSum(F, S, h),
           NEW D \in SUBSET S, NEW g, \A c \in D : g[c] = h[c]
    PROVE  IsSum(SumOver(F, D), D, g)
<1> DEFINE R == SumOver(F, D)
<1>1. R \in [SUBSET D -> Int] /\ R[{}] = 0  BY DEF IsSum, SumOver
<1>2. ASSUME NEW T \in SUBSET D, NEW y \in T PROVE R[T] = g[y] + R[T \ {y}]
  <2>1. T \in SUBSET S /\ T \ {y} \in SUBSET D /\ y \in D  OBVIOUS
  <2>2. F[T] = h[y] + F[T \ {y}]  BY <2>1 DEF IsSum
  <2> QED BY <2>1, <2>2 DEF SumOver
<1> HIDE DEF R
<1>3. IsSum(R, D, g)  BY <1>1, <1>2 DEF IsSum
<1> QED BY <1>3 DEF R

-----------------------------------------------------------------------------
(* Remainders *)

\* Powers of two are positive.
LEMMA PowerPositive == \A n \in Nat : 2^n \in Nat /\ 2^n > 0
<1> DEFINE K == {n \in Nat : 2^n > 0}
<1>1. 0 \in K  OBVIOUS
<1>2. ASSUME NEW n \in Nat PROVE 2^n \in Nat  BY PowerNext
<1>3. ASSUME NEW m \in Nat, NEW n \in 0 .. m - 1, n \in K PROVE n + 1 \in K
  <2>1. n \in Nat /\ 2^(n + 1) = 2^n + 2^n /\ 2^n \in Nat  BY PowerNext
  <2> QED BY <1>3, <2>1
<1>4. \A m \in Nat : 0 .. m \subseteq K
  <2> HIDE DEF K
  <2> QED BY <1>1, <1>3, Inductive
<1>5. \A n \in Nat : n \in K  BY <1>4
<1> QED BY <1>2, <1>5

\* What a quotient and a remainder are.
LEMMA Parts ==
    \A a \in Int : \A q \in Nat \ {0} :
        a \div q \in Int /\ a % q \in 0 .. q - 1 /\ a = q * (a \div q) + (a % q)
<1> QED  OBVIOUS

\* The remainder is what a multiple leaves.
LEMMA Remainder ==
    ASSUME NEW q \in Nat, q > 0, NEW a \in Int, NEW k \in Int, NEW r \in 0 .. q - 1, a = q * k + r
    PROVE  a % q = r
<1>1. a \div q = k  BY Quotient
<1>2. a = q * (a \div q) + (a % q) /\ a % q \in Int  OBVIOUS
<1> QED BY <1>1, <1>2

\* A number below the modulus is its own remainder.
LEMMA RemainderSmall == \A q \in Nat : \A a \in 0 .. q - 1 : a % q = a /\ a \div q = 0
<1> SUFFICES ASSUME NEW q \in Nat, NEW a \in 0 .. q - 1 PROVE a % q = a /\ a \div q = 0
    OBVIOUS
<1>1. q > 0 /\ a \in Int /\ a = q * 0 + a  OBVIOUS
<1> QED BY <1>1, Remainder, Quotient

\* A multiple more leaves the same remainder.
LEMMA RemainderShift ==
    ASSUME NEW q \in Nat \ {0}, NEW a \in Int, NEW k \in Int, NEW b \in Int, b = a + q * k
    PROVE  b % q = a % q
<1>1. PICK e \in Int, r \in 0 .. q - 1 : r = a % q /\ a = q * e + r  BY Parts
<1>2. b = q * (e + k) + r /\ e + k \in Int /\ q > 0  BY <1>1
<1>3. b % q = r  BY <1>2, Remainder
<1> QED BY <1>1, <1>3

\* A remainder by a multiple keeps the remainder.
LEMMA RemainderTwice == \A p, q \in Nat \ {0} : \A a \in Int : (a % (p * q)) % p = a % p
<1> SUFFICES ASSUME NEW p \in Nat \ {0}, NEW q \in Nat \ {0}, NEW a \in Int
             PROVE  (a % (p * q)) % p = a % p
    OBVIOUS
<1>1. PICK m \in Nat \ {0} : m = p * q  OBVIOUS
<1>2. PICK e \in Int, r \in 0 .. m - 1 : r = a % m /\ a = m * e + r  BY Parts
<1>3. PICK k \in Int : k = q * e  OBVIOUS
<1>4. a = r + p * k
  <2>1. m * e = p * (q * e)  BY <1>1
  <2> QED BY <1>2, <1>3, <2>1
<1>5. PICK c \in Int : c = r  OBVIOUS
<1>6. a = c + p * k  BY <1>4, <1>5
<1>7. a % p = c % p  BY <1>6, RemainderShift
<1> QED BY <1>1, <1>2, <1>5, <1>7

\* Scaling by c.
LEMMA RemainderScale ==
    \A m, c \in Nat \ {0} : \A a \in Int : (a * c) % (m * c) = (a % m) * c
<1> SUFFICES ASSUME NEW m \in Nat \ {0}, NEW c \in Nat \ {0}, NEW a \in Int
             PROVE  (a * c) % (m * c) = (a % m) * c
    OBVIOUS
<1>1. PICK e \in Int, r \in 0 .. m - 1 : r = a % m /\ a = m * e + r  BY Parts
<1>2. m * c \in Nat /\ m * c > 0 /\ r * c \in Nat /\ a * c \in Int  BY <1>1
<1>3. a * c = (m * c) * e + r * c
  <2>1. a * c = (m * e + r) * c  BY <1>1
  <2>2. (m * e + r) * c = (m * c) * e + r * c  BY <1>1
  <2> QED BY <2>1, <2>2
<1>4. r * c \in 0 .. m * c - 1
  <2>1. r * c <= (m - 1) * c  BY <1>1
  <2>2. (m - 1) * c = m * c - c /\ c >= 1  OBVIOUS
  <2> QED BY <1>2, <2>1, <2>2
<1>5. (a * c) % (m * c) = r * c  BY <1>1, <1>2, <1>3, <1>4, Remainder
<1> QED BY <1>1, <1>5

\* Dividing a multiple gives back what was multiplied.
LEMMA QuotientScale ==
    \A c \in Nat \ {0} : \A a \in Int : (a * c) \div c = a
<1> SUFFICES ASSUME NEW c \in Nat \ {0}, NEW a \in Int
             PROVE  (a * c) \div c = a
    OBVIOUS
<1>1. a * c = c * a + 0 /\ a * c \in Int /\ c > 0 /\ 0 \in 0 .. c - 1  OBVIOUS
<1> QED BY <1>1, Quotient

\* A sum of residues below the modulus is the residue of the sum.
LEMMA RemainderSum ==
    \A q \in Nat \ {0} : \A a, b \in Int : ((a % q) + b) % q = (a + b) % q
<1> SUFFICES ASSUME NEW q \in Nat \ {0}, NEW a \in Int, NEW b \in Int
             PROVE  ((a % q) + b) % q = (a + b) % q
    OBVIOUS
<1>1. PICK e \in Int, r \in 0 .. q - 1 : r = a % q /\ a = q * e + r  BY Parts
<1>2. PICK c \in Int : c = r + b  OBVIOUS
<1>3. PICK d \in Int : d = a + b  OBVIOUS
<1>4. d = c + q * e  BY <1>1, <1>2, <1>3
<1>5. d % q = c % q  BY <1>4, RemainderShift
<1> QED BY <1>1, <1>2, <1>3, <1>5

\* A quotient of a quotient.
LEMMA QuotientTwice == \A p, q \in Nat \ {0} : \A a \in Int : (a \div p) \div q = a \div (p * q)
<1> SUFFICES ASSUME NEW p \in Nat \ {0}, NEW q \in Nat \ {0}, NEW a \in Int
             PROVE  (a \div p) \div q = a \div (p * q)
    OBVIOUS
<1>1. PICK m \in Nat \ {0} : m = p * q  OBVIOUS
<1>2. PICK e \in Int, r \in 0 .. p - 1 : e = a \div p /\ a = p * e + r  BY Parts
<1>3. PICK k \in Int, s \in 0 .. q - 1 : k = e \div q /\ e = q * k + s  BY Parts
<1>4. PICK u \in Int : u = p * s + r  OBVIOUS
<1>5. u \in 0 .. m - 1
  <2>1. 0 <= p * s /\ p * s <= p * (q - 1)  BY <1>3
  <2>2. p * (q - 1) = m - p  BY <1>1
  <2> QED BY <1>2, <1>4, <2>1, <2>2
<1>6. a = m * k + u
  <2>1. p * e = p * (q * k) + p * s  BY <1>3
  <2>2. p * (q * k) = m * k  BY <1>1
  <2> QED BY <1>2, <1>4, <2>1, <2>2
<1>7. a \div m = k  BY <1>5, <1>6, Quotient
<1> QED BY <1>1, <1>2, <1>3, <1>7

\* Powers of two multiply by adding their exponents.
LEMMA PowerSum == \A m, n \in Nat : 2^(m + n) = 2^m * 2^n
<1> SUFFICES ASSUME NEW m \in Nat, NEW n \in Nat PROVE 2^(m + n) = 2^m * 2^n
    OBVIOUS
<1> DEFINE K == {k \in Nat : 2^(m + k) = 2^m * 2^k}
<1>1. 0 \in K
  <2>1. m + 0 = m /\ 2^0 = 1 /\ 2^m \in Nat  BY PowerPositive
  <2> QED BY <2>1
<1>2. ASSUME NEW k \in 0 .. n - 1, k \in K PROVE k + 1 \in K
  <2>1. PICK e \in Nat : e = m + k  OBVIOUS
  <2>2. PICK u, v, z \in Nat : u = 2^e /\ v = 2^m /\ z = 2^k  BY <2>1, PowerPositive
  <2>3. 2^(e + 1) = u + u /\ 2^(k + 1) = z + z /\ e + 1 = m + (k + 1) /\ u = v * z
      BY <1>2, <2>1, <2>2, PowerNext
  <2>4. v * (z + z) = u + u  BY <2>2, <2>3
  <2> QED BY <2>2, <2>3, <2>4
<1> HIDE DEF K
<1>3. 0 .. n \subseteq K  BY <1>1, <1>2, Inductive
<1> QED BY <1>3 DEF K

\* A power of two divides a higher one.
LEMMA PowerSplit == \A m, n \in Nat : m <= n => 2^n = 2^(n - m) * 2^m /\ 2^n = 2^m * 2^(n - m)
<1> SUFFICES ASSUME NEW m \in Nat, NEW n \in Nat, m <= n
             PROVE  2^n = 2^(n - m) * 2^m /\ 2^n = 2^m * 2^(n - m)
    OBVIOUS
<1>1. PICK d \in Nat : d = n - m /\ d + m = n  OBVIOUS
<1>2. 2^(d + m) = 2^d * 2^m /\ 2^d \in Nat /\ 2^m \in Nat  BY PowerSum, PowerPositive
<1>3. 2^d * 2^m = 2^m * 2^d  BY <1>2
<1> QED BY <1>1, <1>2, <1>3

\* Powers of two grow with their exponents.
LEMMA PowerMonotone == \A m, n \in Nat : m <= n => 2^m <= 2^n
<1> SUFFICES ASSUME NEW m \in Nat, NEW n \in Nat, m <= n PROVE 2^m <= 2^n
    OBVIOUS
<1>1. PICK u, v, z \in Nat : u = 2^m /\ v = 2^n /\ z = 2^(n - m) /\ z > 0 /\ v = z * u
    BY PowerSplit, PowerPositive
<1>2. v >= u  BY <1>1
<1> QED BY <1>1, <1>2

\* The next power of two is twice the last one.
LEMMA PowerDoubles == \A m, n \in Nat : m < n => 2^m + 2^m <= 2^n
<1> SUFFICES ASSUME NEW m \in Nat, NEW n \in Nat, m < n PROVE 2^m + 2^m <= 2^n
    OBVIOUS
<1>1. m + 1 \in Nat /\ m + 1 <= n  OBVIOUS
<1>2. 2^(m + 1) <= 2^n  BY <1>1, PowerMonotone
<1> QED BY <1>2, PowerNext

-----------------------------------------------------------------------------
(* The digits of a number in base two, and the conjunction of two numbers *)

Digit(x, i) == (x \div 2^i) % 2
BothDigits(x, y, n) == [i \in 0 .. n - 1 |-> 2^i * Digit(x, i) * Digit(y, i)]
Conjunction(x, y, n) == MapThenSumSet(LAMBDA i : 2^i * Digit(x, i) * Digit(y, i), 0 .. n - 1)

\* A digit is a zero or a one.
LEMMA DigitIs == \A x \in Int : \A i \in Nat : Digit(x, i) \in {0, 1}
<1> SUFFICES ASSUME NEW x \in Int, NEW i \in Nat PROVE Digit(x, i) \in {0, 1}
    OBVIOUS
<1>1. PICK p \in Nat \ {0} : p = 2^i  BY PowerPositive
<1>2. PICK e \in Int : e = x \div p  BY Parts
<1>3. e % 2 \in {0, 1}  OBVIOUS
<1> QED BY <1>1, <1>2, <1>3 DEF Digit

\* Its digits make a number: the next one is worth 2^i.
LEMMA DigitNext == \A x \in Int : \A i \in Nat : x % 2^(i + 1) = (x % 2^i) + 2^i * Digit(x, i)
<1> SUFFICES ASSUME NEW x \in Int, NEW i \in Nat
             PROVE  x % 2^(i + 1) = (x % 2^i) + 2^i * Digit(x, i)
    OBVIOUS
<1>1. PICK p \in Nat \ {0} : p = 2^i  BY PowerPositive
<1>2. 2^(i + 1) = p + p  BY <1>1, PowerNext
<1>3. PICK e \in Int, r \in 0 .. p - 1 : e = x \div p /\ r = x % p /\ x = p * e + r  BY Parts
<1>4. PICK k \in Int, d \in {0, 1} : d = e % 2 /\ e = 2 * k + d  BY <1>3
<1>5. PICK m \in Nat : m = p + p /\ m > 0  OBVIOUS
<1>6. PICK u \in Int : u = r + p * d  BY <1>3, <1>4
<1>7. u \in 0 .. m - 1
  <2>1. CASE d = 0
    <3>1. u = r  BY <1>6, <2>1
    <3> QED BY <1>5, <3>1
  <2>2. CASE d = 1
    <3>1. u = r + p  BY <1>6, <2>2
    <3> QED BY <1>5, <3>1
  <2> QED BY <1>4, <2>1, <2>2
<1>8. x = m * k + u
  <2>1. p * e = p * (2 * k) + p * d  BY <1>4
  <2>2. p * (2 * k) = m * k  BY <1>5
  <2> QED BY <1>3, <1>6, <2>1, <2>2
<1>9. x % m = u  BY <1>5, <1>7, <1>8, Remainder
<1>10. Digit(x, i) = d  BY <1>1, <1>3, <1>4 DEF Digit
<1> QED BY <1>1, <1>2, <1>3, <1>5, <1>6, <1>9, <1>10

\* Term i of a conjunction is 2^i where both digits are one.
LEMMA Terms ==
    \A x, y \in Int : \A i \in Nat :
        /\ 2^i * Digit(x, i) * Digit(y, i) \in Int
        /\ 2^i * Digit(x, i) * Digit(y, i)
              = IF Digit(x, i) = 1 /\ Digit(y, i) = 1 THEN 2^i ELSE 0
<1> SUFFICES ASSUME NEW x \in Int, NEW y \in Int, NEW i \in Nat
             PROVE  /\ 2^i * Digit(x, i) * Digit(y, i) \in Int
                    /\ 2^i * Digit(x, i) * Digit(y, i)
                          = IF Digit(x, i) = 1 /\ Digit(y, i) = 1 THEN 2^i ELSE 0
    OBVIOUS
<1>1. PICK p \in Nat : p = 2^i  BY PowerPositive
<1>2. PICK u \in {0, 1}, v \in {0, 1} : u = Digit(x, i) /\ v = Digit(y, i)  BY DigitIs
<1>3. p * u * v = IF u = 1 /\ v = 1 THEN p ELSE 0  BY <1>1
<1> QED BY <1>1, <1>2, <1>3

\* The sum of the first terms, up to each.
PartialSums(s, x, y, n) ==
    /\ s \in [0 .. n -> Int]
    /\ s[0] = 0
    /\ \A i \in 0 .. n - 1 :
           s[i + 1] = s[i] + (IF Digit(x, i) = 1 /\ Digit(y, i) = 1 THEN 2^i ELSE 0)

\* The conjunction of n digits is the sum over their places.
LEMMA ConjunctionIsSum ==
    ASSUME NEW x \in Int, NEW y \in Int, NEW n \in Nat
    PROVE  \E F : IsSum(F, 0 .. n - 1, BothDigits(x, y, n)) /\ Conjunction(x, y, n) = F[0 .. n - 1]
<1> DEFINE S == 0 .. n - 1
           h == BothDigits(x, y, n)
           it == CHOOSE it : Sums(it, S, h)
<1>1. IsFiniteSet(S) /\ h \in [S -> Int]
  <2>1. n - 1 \in Int /\ 0 \in Int  OBVIOUS
  <2>2. IsFiniteSet(S)  BY <2>1, FS_Interval
  <2>3. \A i \in S : i \in Nat  OBVIOUS
  <2>4. \A i \in S : 2^i * Digit(x, i) * Digit(y, i) \in Int  BY <2>3, Terms
  <2> QED BY <2>2, <2>4 DEF BothDigits
<1>2. PICK F : IsSum(F, S, h)  BY <1>1, SumExists
<1>3. Conjunction(x, y, n) = it[S]
  <2> DEFINE J(g) == g = [s \in SUBSET S |-> IF s = {} THEN 0
                            ELSE 2^(CHOOSE i \in s : TRUE) * Digit(x, CHOOSE i \in s : TRUE)
                                      * Digit(y, CHOOSE i \in s : TRUE)
                                    + g[s \ {CHOOSE i \in s : TRUE}]]
  <2>1. Conjunction(x, y, n) = (CHOOSE g : J(g))[S]
      BY Zenon DEF Conjunction, MapThenSumSet, MapThenFoldSet
  <2>2. ASSUME NEW s \in SUBSET S, s # {}
        PROVE  2^(CHOOSE i \in s : TRUE) * Digit(x, CHOOSE i \in s : TRUE) * Digit(y, CHOOSE i \in s : TRUE)
                 = h[CHOOSE i \in s : TRUE]
    <3>1. (CHOOSE i \in s : TRUE) \in S  BY <2>2
    <3>2. \A i \in S : h[i] = 2^i * Digit(x, i) * Digit(y, i)  BY DEF BothDigits
    <3> HIDE DEF h, S, J
    <3> QED BY <3>1, <3>2, Zenon
  <2> HIDE DEF h, S
  <2>3. ASSUME NEW g PROVE J(g) <=> Sums(g, S, h)
    <3>1. [s \in SUBSET S |-> IF s = {} THEN 0
                            ELSE 2^(CHOOSE i \in s : TRUE) * Digit(x, CHOOSE i \in s : TRUE)
                                      * Digit(y, CHOOSE i \in s : TRUE)
                                    + g[s \ {CHOOSE i \in s : TRUE}]]
          = [s \in SUBSET S |-> IF s = {} THEN 0
                            ELSE h[CHOOSE i \in s : TRUE] + g[s \ {CHOOSE i \in s : TRUE}]]
        BY <2>2
    <3> QED BY <3>1, Zenon DEF Sums
  <2>4. (CHOOSE g : J(g)) = it
    <3> HIDE DEF J
    <3> QED BY <2>3, Zenon
  <2> QED BY <2>1, <2>4, Zenon DEF S
<1>4. Sums(F, S, h)  BY <1>2, SumIsSums
<1>5. Sums(it, S, h)  BY <1>4, Zenon
<1> HIDE DEF h, S, it
<1>6. it[S] = F[S]  BY <1>1, <1>2, <1>5, SumAnyOrder, Zenon
<1> QED BY <1>2, <1>3, <1>6 DEF S, h

\* Its partial sums, place by place, end at the conjunction.
LEMMA ConjunctionSums ==
    ASSUME NEW x \in Int, NEW y \in Int, NEW n \in Nat
    PROVE  \E s : PartialSums(s, x, y, n) /\ s[n] = Conjunction(x, y, n)
<1> DEFINE S == 0 .. n - 1
           h == BothDigits(x, y, n)
<1>1. PICK F : IsSum(F, S, h) /\ Conjunction(x, y, n) = F[S]  BY ConjunctionIsSum
<1> DEFINE s == [k \in 0 .. n |-> F[0 .. k - 1]]
<1>2. s \in [0 .. n -> Int]
  <2>1. ASSUME NEW k \in 0 .. n PROVE F[0 .. k - 1] \in Int
    <3>1. 0 .. k - 1 \in SUBSET S  OBVIOUS
    <3> HIDE DEF S, h
    <3> QED BY <1>1, <3>1 DEF IsSum
  <2> QED BY <2>1
<1>3. s[0] = 0
  <2>1. 0 .. 0 - 1 = {} /\ 0 \in 0 .. n  OBVIOUS
  <2> QED BY <1>1, <2>1 DEF IsSum
<1>4. ASSUME NEW i \in 0 .. n - 1
      PROVE  s[i + 1] = s[i] + (IF Digit(x, i) = 1 /\ Digit(y, i) = 1 THEN 2^i ELSE 0)
  <2> DEFINE T == 0 .. (i + 1) - 1
  <2>1. T \in SUBSET S /\ i \in T /\ T \ {i} = 0 .. i - 1 /\ i \in 0 .. n /\ i + 1 \in 0 .. n /\ i \in Nat
      OBVIOUS
  <2>2. h[i] = 2^i * Digit(x, i) * Digit(y, i)  BY DEF BothDigits
  <2>3. h[i] = IF Digit(x, i) = 1 /\ Digit(y, i) = 1 THEN 2^i ELSE 0  BY <2>1, <2>2, Terms
  <2>4. s[i + 1] = F[T] /\ s[i] = F[0 .. i - 1] /\ s[i] \in Int  BY <1>2, <2>1
  <2>5. h[i] \in Int  BY <2>1, <2>2, Terms
  <2> HIDE DEF T, S, h, s
  <2>6. F[T] = h[i] + F[0 .. i - 1]  BY <1>1, <2>1 DEF IsSum
  <2>7. s[i + 1] = s[i] + h[i]  BY <2>4, <2>5, <2>6
  <2> QED BY <2>3, <2>7
<1>5. s[n] = F[S]  OBVIOUS
<1> HIDE DEF s
<1>6. PartialSums(s, x, y, n)  BY <1>2, <1>3, <1>4 DEF PartialSums
<1> QED BY <1>1, <1>5, <1>6

\* No digits make nothing.
LEMMA Zeroth == 2^0 = 1 /\ \A x \in Int : x % 2^0 = 0
<1>1. 2^0 = 1  OBVIOUS
<1>2. \A x \in Int : x % 1 = 0  OBVIOUS
<1> QED BY <1>1, <1>2

\* Partial sums grow up to one operand, taken modulo 2^i.
LEMMA SumsBelow ==
    ASSUME NEW x \in Int, NEW y \in Int, NEW n \in Nat, NEW s, PartialSums(s, x, y, n)
    PROVE  \A i \in 0 .. n : s[i] \in 0 .. x % 2^i /\ s[i] \in 0 .. y % 2^i
<1> DEFINE K == {i \in 0 .. n : s[i] \in 0 .. x % 2^i /\ s[i] \in 0 .. y % 2^i}
<1>1. 0 \in K  BY Zeroth DEF PartialSums
<1>2. ASSUME NEW i \in 0 .. n - 1, i \in K PROVE i + 1 \in K
  <2>1. i \in Nat /\ i + 1 \in 0 .. n /\ i \in 0 .. n  OBVIOUS
  <2>2. PICK p \in Nat \ {0} : p = 2^i  BY <2>1, PowerPositive
  <2>3. PICK u, v \in {0, 1} : u = Digit(x, i) /\ v = Digit(y, i)  BY <2>1, DigitIs
  <2>4. PICK a \in Int, b \in Int : a = x % 2^i /\ b = y % 2^i  BY <2>2
  <2>5. x % 2^(i + 1) = a + p * u /\ y % 2^(i + 1) = b + p * v  BY <2>1, <2>2, <2>3, <2>4, DigitNext
  <2>6. s[i + 1] = s[i] + (IF u = 1 /\ v = 1 THEN p ELSE 0)  BY <2>2, <2>3 DEF PartialSums
  <2>7. s[i] \in 0 .. a /\ s[i] \in 0 .. b  BY <1>2, <2>4
  <2>8. PICK g, h \in Nat : /\ g = p * u /\ g = (IF u = 1 THEN p ELSE 0)
                           /\ h = p * v /\ h = (IF v = 1 THEN p ELSE 0)
      BY <2>2, <2>3
  <2>10. s[i + 1] \in 0 .. a + g /\ s[i + 1] \in 0 .. b + h  BY <2>2, <2>4, <2>6, <2>7, <2>8
  <2>9. s[i + 1] \in 0 .. a + p * u /\ s[i + 1] \in 0 .. b + p * v  BY <2>8, <2>10
  <2> QED BY <2>1, <2>5, <2>9
<1> HIDE DEF K
<1>3. 0 .. n \subseteq K  BY <1>1, <1>2, Inductive
<1> QED BY <1>3 DEF K

\* A conjunction is at most each operand.
LEMMA ConjunctionBelow ==
    ASSUME NEW n \in Nat, NEW x \in 0 .. 2^n - 1, NEW y \in 0 .. 2^n - 1
    PROVE  Conjunction(x, y, n) \in Nat /\ Conjunction(x, y, n) <= x /\ Conjunction(x, y, n) <= y
<1>1. PICK p \in Nat : p = 2^n  BY PowerPositive
<1>2. x \in Int /\ y \in Int /\ x % p = x /\ y % p = y  BY <1>1, RemainderSmall
<1>3. PICK s : PartialSums(s, x, y, n) /\ s[n] = Conjunction(x, y, n)  BY <1>2, ConjunctionSums
<1>4. s[n] \in 0 .. x % 2^n /\ s[n] \in 0 .. y % 2^n  BY <1>2, <1>3, SumsBelow
<1> QED BY <1>1, <1>2, <1>3, <1>4

\* Where no place has two ones the conjunction is nothing.
LEMMA ConjunctionNone ==
    ASSUME NEW n \in Nat, NEW x \in Int, NEW y \in Int,
           \A i \in 0 .. n - 1 : Digit(x, i) = 0 \/ Digit(y, i) = 0
    PROVE  Conjunction(x, y, n) = 0
<1>1. PICK s : PartialSums(s, x, y, n) /\ s[n] = Conjunction(x, y, n)  BY ConjunctionSums
<1> DEFINE K == {i \in 0 .. n : s[i] = 0}
<1>2. 0 \in K  BY <1>1 DEF PartialSums
<1>3. ASSUME NEW i \in 0 .. n - 1, i \in K PROVE i + 1 \in K
  <2>1. i \in Nat /\ i + 1 \in 0 .. n  OBVIOUS
  <2>2. ~(Digit(x, i) = 1 /\ Digit(y, i) = 1)  BY <2>1, DigitIs
  <2>3. s[i + 1] = s[i] + (IF Digit(x, i) = 1 /\ Digit(y, i) = 1 THEN 2^i ELSE 0)
      BY <1>1 DEF PartialSums
  <2>4. s[i + 1] = s[i] + 0  BY <2>2, <2>3, Zenon
  <2>5. s[i] = 0  BY <1>3
  <2> QED BY <2>1, <2>4, <2>5
<1> HIDE DEF K
<1>4. 0 .. n \subseteq K  BY <1>2, <1>3, Inductive
<1> QED BY <1>1, <1>4 DEF K

\* The digits of 2^k - 1 are ones below k.
LEMMA OnesDigits ==
    ASSUME NEW k \in Nat, NEW i \in Nat
    PROVE  Digit(2^k - 1, i) = IF i < k THEN 1 ELSE 0
<1>1. PICK p \in Nat \ {0} : p = 2^i  BY PowerPositive
<1>2. PICK q \in Nat \ {0} : q = 2^k  BY PowerPositive
<1>3. CASE i < k
  <2>1. PICK d \in Nat : k = i + d + 1 /\ k - i = d + 1 /\ i <= k  BY <1>3
  <2>2. PICK z \in Nat \ {0} : z = 2^d  BY PowerPositive
  <2>3. 2^(k - i) = z + z  BY <2>1, <2>2, PowerNext
  <2>4. q = 2^i * 2^(k - i)  BY <1>2, <2>1, PowerSplit
  <2>5. q = p * (z + z)  BY <1>1, <2>3, <2>4
  <2>6. q - 1 = p * (z + z - 1) + (p - 1)  BY <2>5
  <2>7. PICK e \in Int : e = z + z - 1  OBVIOUS
  <2>8. (q - 1) \div p = e
    <3>1. q - 1 \in Int /\ p - 1 \in 0 .. p - 1 /\ p > 0  OBVIOUS
    <3> QED BY <2>6, <2>7, <3>1, Quotient
  <2>9. e % 2 = 1  BY <2>7
  <2> QED BY <1>1, <1>2, <1>3, <2>8, <2>9 DEF Digit
<1>4. CASE ~(i < k)
  <2>1. q <= p  BY <1>1, <1>2, <1>4, PowerMonotone
  <2>2. (q - 1) \div p = 0  BY <2>1, RemainderSmall
  <2> QED BY <1>1, <1>2, <1>4, <2>2 DEF Digit
<1> QED BY <1>3, <1>4

\* A mask of k ones keeps a number modulo 2^k.
LEMMA ConjunctionMask ==
    ASSUME NEW n \in Nat, NEW k \in 0 .. n, NEW x \in Int
    PROVE  Conjunction(x, 2^k - 1, n) = x % 2^k
<1>1. k \in Nat /\ 2^k - 1 \in Int /\ n - k \in Nat  BY PowerPositive
<1>2. PICK s : PartialSums(s, x, 2^k - 1, n) /\ s[n] = Conjunction(x, 2^k - 1, n)
    BY <1>1, ConjunctionSums
<1>3. \A i \in 0 .. n - 1 : s[i + 1] = s[i] + (IF Digit(x, i) = 1 /\ i < k THEN 2^i ELSE 0)
  <2> SUFFICES ASSUME NEW i \in 0 .. n - 1
               PROVE  s[i + 1] = s[i] + (IF Digit(x, i) = 1 /\ i < k THEN 2^i ELSE 0)
      OBVIOUS
  <2>1. i \in Nat  OBVIOUS
  <2>2. Digit(2^k - 1, i) = 1 <=> i < k  BY <1>1, <2>1, OnesDigits
  <2>3. s[i + 1] = s[i] + (IF Digit(x, i) = 1 /\ Digit(2^k - 1, i) = 1 THEN 2^i ELSE 0)
      BY <1>2 DEF PartialSums
  <2> QED BY <2>2, <2>3, Zenon
<1> DEFINE K == {i \in 0 .. k : s[i] = x % 2^i}
           L == {j \in 0 .. n - k : s[k + j] = x % 2^k}
<1>4. 0 \in K  BY <1>1, <1>2, Zeroth DEF PartialSums
<1>5. ASSUME NEW i \in 0 .. k - 1, i \in K PROVE i + 1 \in K
  <2>1. i \in Nat /\ i + 1 \in 0 .. k /\ i \in 0 .. n - 1 /\ i < k  OBVIOUS
  <2>2. PICK p \in Nat \ {0} : p = 2^i  BY <2>1, PowerPositive
  <2>3. PICK u \in {0, 1} : u = Digit(x, i)  BY <2>1, DigitIs
  <2>4. x % 2^(i + 1) = (x % 2^i) + p * u  BY <2>1, <2>2, <2>3, DigitNext
  <2>5. s[i + 1] = s[i] + (IF u = 1 THEN p ELSE 0)  BY <1>3, <2>1, <2>2, <2>3
  <2>6. s[i] = x % 2^i  BY <1>5
  <2>7. p * u = IF u = 1 THEN p ELSE 0  BY <2>2, <2>3
  <2>8. s[i + 1] = x % 2^(i + 1)  BY <2>4, <2>5, <2>6, <2>7
  <2> QED BY <2>1, <2>8
<1>6. 0 .. k \subseteq K
  <2> HIDE DEF K
  <2> QED BY <1>1, <1>4, <1>5, Inductive
<1>7. 0 \in L
  <2>1. k \in K /\ k + 0 = k  BY <1>1, <1>6
  <2> QED BY <1>1, <2>1
<1>8. ASSUME NEW j \in 0 .. n - k - 1, j \in L PROVE j + 1 \in L
  <2>1. PICK i \in 0 .. n - 1 : i = k + j /\ ~(i < k) /\ i + 1 = k + (j + 1)  OBVIOUS
  <2>2. s[i + 1] = s[i] + 0 /\ s[i] = x % 2^k  BY <1>3, <1>8, <2>1
  <2>3. x % 2^k \in Int  BY <1>1, PowerPositive, Parts
  <2>4. s[i + 1] = x % 2^k  BY <2>2, <2>3
  <2> QED BY <2>1, <2>4
<1> HIDE DEF K, L
<1>9. 0 .. n - k \subseteq L  BY <1>1, <1>7, <1>8, Inductive
<1>10. n - k \in L /\ k + (n - k) = n  BY <1>1, <1>9
<1> QED BY <1>2, <1>10 DEF L

\* Numbers whose ones do not meet: a multiple of 2^h, and a number below it.
LEMMA ConjunctionApart ==
    ASSUME NEW n \in Nat, NEW h \in Nat, NEW c \in Nat, NEW a \in 0 .. 2^h - 1
    PROVE  Conjunction(c * 2^h, a, n) = 0 /\ Conjunction(a, c * 2^h, n) = 0
<1>1. PICK m \in Nat \ {0} : m = 2^h  BY PowerPositive
<1>2. a \in Int /\ c * 2^h \in Int  BY <1>1
<1>3. ASSUME NEW i \in 0 .. n - 1 PROVE Digit(c * 2^h, i) = 0 \/ Digit(a, i) = 0
  <2>1. i \in Nat  OBVIOUS
  <2>2. PICK p \in Nat \ {0} : p = 2^i  BY <2>1, PowerPositive
  <2>3. CASE i < h
    <3>1. PICK d \in Nat : h - i = d + 1 /\ i <= h  BY <2>1, <2>3
    <3>2. PICK z \in Nat \ {0} : z = 2^d  BY PowerPositive
    <3>3. 2^(h - i) = z + z  BY <3>1, <3>2, PowerNext
    <3>4. 2^h = 2^(h - i) * 2^i  BY <2>1, <3>1, PowerSplit
    <3>5. m = (z + z) * p  BY <1>1, <2>2, <3>3, <3>4
    <3>6. PICK b \in Nat : b = c * z  BY <3>2
    <3>7. c * m = (b + b) * p
      <4>1. c * ((z + z) * p) = (c * z + c * z) * p  BY <3>2
      <4> QED BY <3>5, <3>6, <4>1
    <3>8. PICK e \in Nat : e = b + b  OBVIOUS
    <3>9. (e * p) \div p = e  BY QuotientScale
    <3>10. e % 2 = 0  BY <3>8
    <3>11. Digit(c * 2^h, i) = 0  BY <1>1, <2>2, <3>7, <3>8, <3>9, <3>10 DEF Digit
    <3> QED BY <3>11
  <2>4. CASE ~(i < h)
    <3>1. m <= p  BY <1>1, <2>1, <2>2, <2>4, PowerMonotone
    <3>2. a \div p = 0  BY <1>1, <3>1, RemainderSmall
    <3> QED BY <2>2, <3>2 DEF Digit
  <2> QED BY <2>3, <2>4
<1>4. Conjunction(c * 2^h, a, n) = 0  BY <1>2, <1>3, ConjunctionNone
<1>5. Conjunction(a, c * 2^h, n) = 0  BY <1>2, <1>3, ConjunctionNone
<1> QED BY <1>4, <1>5

\* The exclusive sum of the first i digits.
CarryFree(s, x, y, i) == (x % 2^i) + (y % 2^i) - 2 * s[i]

\* Each place adds 2^i where the two digits differ.
LEMMA CarryFreeNext ==
    ASSUME NEW x \in Int, NEW y \in Int, NEW n \in Nat, NEW s, PartialSums(s, x, y, n),
           NEW i \in 0 .. n - 1
    PROVE  /\ CarryFree(s, x, y, i) \in Int
           /\ CarryFree(s, x, y, i + 1) = CarryFree(s, x, y, i)
                + (IF Digit(x, i) = Digit(y, i) THEN 0 ELSE 2^i)
<1>1. i \in Nat /\ i \in 0 .. n /\ i + 1 \in 0 .. n  OBVIOUS
<1>2. PICK p \in Nat \ {0} : p = 2^i  BY <1>1, PowerPositive
<1>3. PICK u, v \in {0, 1} : u = Digit(x, i) /\ v = Digit(y, i)  BY <1>1, DigitIs
<1>4. PICK a \in Int, b \in Int : a = x % 2^i /\ b = y % 2^i  BY <1>2
<1>5. PICK g, h \in Int : g = p * u /\ g = (IF u = 1 THEN p ELSE 0)
                       /\ h = p * v /\ h = (IF v = 1 THEN p ELSE 0)
    BY <1>2, <1>3
<1>6. x % 2^(i + 1) = a + g /\ y % 2^(i + 1) = b + h  BY <1>1, <1>2, <1>3, <1>4, <1>5, DigitNext
<1>7. s[i + 1] = s[i] + (IF u = 1 /\ v = 1 THEN p ELSE 0) /\ s[i] \in Int
    BY <1>1, <1>2, <1>3 DEF PartialSums
<1>8. PICK t \in Int : t = s[i]  BY <1>7
<1>9. CarryFree(s, x, y, i) = a + b - 2 * t  BY <1>4, <1>8 DEF CarryFree
<1>10. CarryFree(s, x, y, i + 1) = (a + g) + (b + h) - 2 * (t + (IF u = 1 /\ v = 1 THEN p ELSE 0))
    BY <1>6, <1>7, <1>8 DEF CarryFree
<1>11. (a + g) + (b + h) - 2 * (t + (IF u = 1 /\ v = 1 THEN p ELSE 0))
         = (a + b - 2 * t) + (IF u = v THEN 0 ELSE p)
  <2>1. CASE u = 0  BY <1>3, <1>5, <2>1
  <2>2. CASE u = 1  BY <1>3, <1>5, <2>2
  <2> QED BY <1>3, <2>1, <2>2
<1> QED BY <1>2, <1>3, <1>9, <1>10, <1>11

\* A sum without its carries needs no more places.
LEMMA CarryFreeBelow ==
    ASSUME NEW x \in Int, NEW y \in Int, NEW n \in Nat, NEW s, PartialSums(s, x, y, n)
    PROVE  \A i \in 0 .. n : CarryFree(s, x, y, i) \in 0 .. 2^i - 1
<1> DEFINE K == {i \in 0 .. n : CarryFree(s, x, y, i) \in 0 .. 2^i - 1}
<1>1. 0 \in K
  <2>1. CarryFree(s, x, y, 0) = 0  BY Zeroth DEF CarryFree, PartialSums
  <2> QED BY <2>1, Zeroth
<1>2. ASSUME NEW i \in 0 .. n - 1, i \in K PROVE i + 1 \in K
  <2>1. i \in Nat /\ i + 1 \in 0 .. n  OBVIOUS
  <2>2. PICK p \in Nat \ {0} : p = 2^i /\ 2^(i + 1) = p + p  BY <2>1, PowerPositive, PowerNext
  <2>3. PICK e \in 0 .. p - 1 : e = CarryFree(s, x, y, i)  BY <1>2, <2>2
  <2>4. CarryFree(s, x, y, i + 1) = e + (IF Digit(x, i) = Digit(y, i) THEN 0 ELSE p)
      BY <2>2, <2>3, CarryFreeNext
  <2> QED BY <2>1, <2>2, <2>3, <2>4
<1> HIDE DEF K
<1>3. 0 .. n \subseteq K  BY <1>1, <1>2, Inductive
<1> QED BY <1>3 DEF K

\* The top digit of a number of n + 1 places.
LEMMA TopDigit ==
    ASSUME NEW n \in Nat, NEW x \in 0 .. 2^(n + 1) - 1
    PROVE  Digit(x, n) = IF x >= 2^n THEN 1 ELSE 0
<1>1. PICK p \in Nat \ {0} : p = 2^n /\ 2^(n + 1) = p + p  BY PowerPositive, PowerNext
<1>2. x \in Int /\ x < p + p /\ x >= 0  BY <1>1
<1>3. CASE x >= p
  <2>1. x = p * 1 + (x - p) /\ x - p \in 0 .. p - 1 /\ p > 0  BY <1>2, <1>3
  <2>2. x \div p = 1  BY <1>2, <2>1, Quotient
  <2> QED BY <1>1, <1>3, <2>2 DEF Digit
<1>4. CASE ~(x >= p)
  <2>1. x \div p = 0  BY <1>2, <1>4, RemainderSmall
  <2> QED BY <1>1, <1>4, <2>1 DEF Digit
<1> QED BY <1>3, <1>4

\* Beyond the digits of a number there are none.
LEMMA NoDigit ==
    ASSUME NEW n \in Nat, NEW x \in 0 .. 2^n - 1, NEW i \in Nat, i >= n
    PROVE  Digit(x, i) = 0
<1>1. PICK p, q \in Nat \ {0} : p = 2^i /\ q = 2^n  BY PowerPositive
<1>2. q <= p  BY <1>1, PowerMonotone
<1>3. x \div p = 0  BY <1>1, <1>2, RemainderSmall
<1> QED BY <1>1, <1>3 DEF Digit

\* The sum without its carries: a number of as many places, its top digit the
\* difference of the top digits.
LEMMA CarryFreeSum ==
    ASSUME NEW m \in Nat, NEW n \in Nat, m < n,
           NEW x \in 0 .. 2^(m + 1) - 1, NEW y \in 0 .. 2^(m + 1) - 1,
           NEW z, z = x + y - 2 * Conjunction(x, y, n)
    PROVE  z \in 0 .. 2^(m + 1) - 1 /\ (z >= 2^m <=> ~(x >= 2^m <=> y >= 2^m))
<1>1. PICK p \in Nat \ {0} : p = 2^m /\ 2^(m + 1) = p + p  BY PowerPositive, PowerNext
<1>2. x \in Int /\ y \in Int /\ m + 1 \in Nat /\ m \in 0 .. n - 1 /\ m + 1 \in 0 .. n  BY <1>1
<1>3. PICK s : PartialSums(s, x, y, n) /\ s[n] = Conjunction(x, y, n)  BY <1>2, ConjunctionSums
<1> DEFINE K == {j \in 0 .. n - (m + 1) : s[(m + 1) + j] = s[m + 1]}
<1>4. 0 \in K  BY <1>2
<1>5. ASSUME NEW j \in 0 .. n - (m + 1) - 1, j \in K PROVE j + 1 \in K
  <2>1. PICK i \in 0 .. n - 1 : i = (m + 1) + j /\ i + 1 = (m + 1) + (j + 1) /\ i >= m + 1 /\ i \in Nat
      BY <1>2
  <2>2. Digit(x, i) = 0  BY <1>2, <2>1, NoDigit
  <2>3. s[i + 1] = s[i] + (IF Digit(x, i) = 1 /\ Digit(y, i) = 1 THEN 2^i ELSE 0)
      BY <1>3 DEF PartialSums
  <2>4. s[i + 1] = s[i] + 0  BY <2>2, <2>3
  <2>5. s[i] = s[m + 1] /\ s[m + 1] \in Int  BY <1>2, <1>3, <1>5, <2>1 DEF PartialSums
  <2> QED BY <2>1, <2>4, <2>5
<1>6. s[n] = s[m + 1]
  <2> HIDE DEF K
  <2>1. n - (m + 1) \in Nat  BY <1>2
  <2>2. 0 .. n - (m + 1) \subseteq K  BY <1>4, <1>5, <2>1, Inductive
  <2>3. n - (m + 1) \in K /\ (m + 1) + (n - (m + 1)) = n  BY <1>2, <2>1, <2>2
  <2> QED BY <2>3 DEF K
<1>7. x % 2^(m + 1) = x /\ y % 2^(m + 1) = y  BY <1>1, RemainderSmall
<1>8. z = CarryFree(s, x, y, m + 1)  BY <1>3, <1>6, <1>7, Zenon DEF CarryFree
<1>9. z \in 0 .. 2^(m + 1) - 1  BY <1>2, <1>3, <1>8, CarryFreeBelow
<1>10. PICK e \in 0 .. p - 1 : e = CarryFree(s, x, y, m)  BY <1>1, <1>2, <1>3, CarryFreeBelow
<1>11. z = e + (IF Digit(x, m) = Digit(y, m) THEN 0 ELSE p)
    BY <1>1, <1>2, <1>3, <1>8, <1>10, CarryFreeNext
<1>12. Digit(x, m) = (IF x >= p THEN 1 ELSE 0) /\ Digit(y, m) = (IF y >= p THEN 1 ELSE 0)
    BY <1>1, TopDigit
<1> QED BY <1>1, <1>2, <1>9, <1>10, <1>11, <1>12

\* How often two divides a run of ones shifted left by k.
LEMMA MaskZeros ==
    ASSUME NEW B \in Nat, NEW k \in Nat, k < B
    PROVE  {j \in 1 .. B : ((2^(B - k) - 1) * 2^k) % 2^j = 0} = 1 .. k
<1>1. PICK q, m \in Nat \ {0} : q = 2^k /\ m = 2^(B - k)  BY PowerPositive
<1>2. ASSUME NEW j \in 1 .. k PROVE ((m - 1) * q) % 2^j = 0
  <2>1. j \in Nat /\ j <= k /\ k - j \in Nat  OBVIOUS
  <2>2. PICK p, c \in Nat \ {0} : p = 2^j /\ c = 2^(k - j) /\ q = c * p
      BY <1>1, <2>1, PowerPositive, PowerSplit
  <2>3. (m - 1) * (c * p) = p * ((m - 1) * c) + 0  OBVIOUS
  <2>4. PICK a \in Int, e \in Int : a = (m - 1) * q /\ e = (m - 1) * c  OBVIOUS
  <2>5. a = p * e + 0 /\ 0 \in 0 .. p - 1 /\ p > 0  BY <2>2, <2>3, <2>4
  <2>6. a % p = 0  BY <2>5, Remainder
  <2> QED BY <2>2, <2>4, <2>6
<1>3. ASSUME NEW j \in k + 1 .. B PROVE ((m - 1) * q) % 2^j # 0
  <2>1. PICK d \in Nat : j - k = d + 1 /\ k <= j /\ j <= B /\ k \in Nat /\ j \in Nat  BY <1>3
  <2>2. PICK z \in Nat \ {0} : z = 2^d  BY PowerPositive
  <2>3. PICK c \in Nat \ {0} : c = 2^(j - k) /\ c = z + z  BY <2>1, <2>2, PowerNext
  <2>4. 2^j = c * q
    <3>1. 2^j = 2^(j - k) * 2^k  BY <2>1, PowerSplit
    <3> QED BY <1>1, <2>3, <3>1
  <2>5. m = 2^(j - k) * 2^((B - k) - (j - k))
    <3>1. B - k \in Nat /\ j - k \in Nat /\ j - k <= B - k  BY <2>1
    <3> QED BY <1>1, <3>1, PowerSplit
  <2>6. PICK r \in Nat : r = 2^((B - k) - (j - k))
    <3>1. (B - k) - (j - k) \in Nat  BY <2>1
    <3> QED BY <3>1, PowerPositive
  <2>7. m = c * r  BY <2>3, <2>5, <2>6
  <2>8. m - 1 = c * (r - 1) + (c - 1)  BY <2>7
  <2>9. (m - 1) % c = c - 1
    <3>1. m - 1 \in Int /\ r - 1 \in Int /\ c - 1 \in 0 .. c - 1 /\ c > 0  BY <2>6
    <3> QED BY <2>8, <3>1, Remainder
  <2>10. ((m - 1) * q) % (c * q) = ((m - 1) % c) * q
    <3>1. m - 1 \in Int  OBVIOUS
    <3> QED BY <3>1, RemainderScale
  <2>11. c - 1 \in Nat \ {0}  BY <2>3
  <2>12. (c - 1) * q # 0  BY <2>11
  <2> QED BY <2>4, <2>9, <2>10, <2>12
<1>4. \A j \in 1 .. B : ((m - 1) * q) % 2^j = 0 <=> j \in 1 .. k  BY <1>2, <1>3
<1>5. 1 .. k \subseteq 1 .. B  OBVIOUS
<1> QED BY <1>1, <1>4, <1>5

-----------------------------------------------------------------------------
(* Digits in place: joins, blocks, groups and splices *)

\* A number above 2^h and one below it keep their digits side by side.
LEMMA DigitJoin ==
    ASSUME NEW h \in Nat, NEW c \in Nat, NEW a \in 0 .. 2^h - 1, NEW i \in Nat
    PROVE  Digit(c * 2^h + a, i) = Digit(c * 2^h, i) + Digit(a, i)
<1>1. PICK m, p \in Nat \ {0} : m = 2^h /\ p = 2^i  BY PowerPositive
<1>2. PICK x \in Nat : x = c * m  BY <1>1
<1>3. PICK k \in Int, r \in 0 .. p - 1 : k = a \div p /\ r = a % p /\ a = p * k + r  BY <1>1, Parts
<1>4. k % 2 \in {0, 1} /\ a \in 0 .. m - 1 /\ a \in Int  BY <1>1
<1>5. CASE i < h
  <2>1. PICK d \in Nat : h - i = d + 1 /\ i <= h  BY <1>5
  <2>2. PICK z \in Nat \ {0} : z = 2^d  BY PowerPositive
  <2>3. 2^(h - i) = z + z /\ 2^h = 2^(h - i) * 2^i  BY <2>1, <2>2, PowerNext, PowerSplit
  <2>4. m = (z + z) * p  BY <1>1, <2>3
  <2>5. PICK b, e \in Nat : b = c * z /\ e = b + b  BY <2>2
  <2>6. x = e * p
    <3>1. c * ((z + z) * p) = (c * z + c * z) * p  BY <2>2
    <3> QED BY <1>2, <2>4, <2>5, <3>1
  <2>7. x \div p = e  BY <2>6, QuotientScale
  <2>8. (x + a) \div p = e + k
    <3>1. PICK u, v \in Int : u = x + a /\ v = e + k
      <4>1. x + a \in Int /\ e + k \in Int  BY <1>4
      <4> QED BY <4>1
    <3>2. u = p * v + r  BY <1>3, <1>4, <2>6, <3>1
    <3>3. u \div p = v  BY <1>3, <3>1, <3>2, Quotient
    <3> QED BY <3>1, <3>3
  <2>9. e % 2 = 0 /\ (e + k) % 2 = k % 2  BY <2>5
  <2>10. (x \div p) % 2 = 0 /\ ((x + a) \div p) % 2 = k % 2  BY <2>7, <2>8, <2>9
  <2>11. ((x + a) \div p) % 2 = ((x \div p) % 2) + ((a \div p) % 2)  BY <1>3, <1>4, <2>10
  <2> QED BY <1>1, <1>2, <2>11 DEF Digit
<1>6. CASE ~(i < h)
  <2>1. PICK q \in Nat \ {0} : q = 2^(i - h) /\ p = m * q
    <3>1. i - h \in Nat /\ h <= i  BY <1>6
    <3> QED BY <1>1, <3>1, PowerSplit, PowerPositive
  <2>2. m <= p  BY <1>1, <1>6, PowerMonotone
  <2>3. a \div p = 0  BY <1>1, <2>2, RemainderSmall
  <2>4. (x + a) \div m = c /\ x \div m = c
    <3>1. PICK u \in Int : u = x + a  BY <1>4
    <3>2. u = m * c + a /\ x = m * c + 0 /\ 0 \in 0 .. m - 1  BY <1>2, <3>1
    <3>3. u \div m = c /\ x \div m = c  BY <1>4, <3>2, Quotient
    <3> QED BY <3>1, <3>3
  <2>5. (x + a) \div p = x \div p
    <3>1. ((x + a) \div m) \div q = (x + a) \div (m * q) /\ (x \div m) \div q = x \div (m * q)
      <4>1. x + a \in Int /\ x \in Int  BY <1>4
      <4> QED BY <4>1, QuotientTwice
    <3> QED BY <2>1, <2>4, <3>1
  <2>6. PICK t \in Int : t = x \div p  BY Parts
  <2>7. t % 2 \in {0, 1} /\ 0 % 2 = 0  OBVIOUS
  <2>8. ((x + a) \div p) % 2 = ((x \div p) % 2) + ((a \div p) % 2)  BY <2>3, <2>5, <2>6, <2>7
  <2> QED BY <1>1, <1>2, <2>8 DEF Digit
<1> QED BY <1>5, <1>6

\* A conjunction is a number,
LEMMA ConjunctionType ==
    ASSUME NEW n \in Nat, NEW x \in Int, NEW y \in Int
    PROVE  Conjunction(x, y, n) \in Int
<1>1. PICK s : PartialSums(s, x, y, n) /\ s[n] = Conjunction(x, y, n)  BY ConjunctionSums
<1> QED BY <1>1 DEF PartialSums

\* whichever way round.
LEMMA ConjunctionCommutes ==
    ASSUME NEW n \in Nat, NEW x \in Int, NEW y \in Int
    PROVE  Conjunction(x, y, n) = Conjunction(y, x, n)
<1>1. PICK s : PartialSums(s, x, y, n) /\ s[n] = Conjunction(x, y, n)  BY ConjunctionSums
<1>2. PICK t : PartialSums(t, y, x, n) /\ t[n] = Conjunction(y, x, n)  BY ConjunctionSums
<1> DEFINE K == {i \in 0 .. n : s[i] = t[i]}
<1>3. 0 \in K  BY <1>1, <1>2 DEF PartialSums
<1>4. ASSUME NEW i \in 0 .. n - 1, i \in K PROVE i + 1 \in K
  <2>1. i + 1 \in 0 .. n  OBVIOUS
  <2> DEFINE v == IF Digit(x, i) = 1 /\ Digit(y, i) = 1 THEN 2^i ELSE 0
             w == IF Digit(y, i) = 1 /\ Digit(x, i) = 1 THEN 2^i ELSE 0
  <2>2. v = w  BY Zenon
  <2>3. s[i + 1] = s[i] + v /\ t[i + 1] = t[i] + w  BY <1>1, <1>2, Zenon DEF PartialSums
  <2> HIDE DEF v, w
  <2>4. s[i + 1] = t[i + 1]  BY <1>4, <2>2, <2>3
  <2> QED BY <2>1, <2>4
<1> HIDE DEF K
<1>5. 0 .. n \subseteq K  BY <1>3, <1>4, Inductive
<1> QED BY <1>1, <1>2, <1>5 DEF K

\* A conjunction adds up over operands whose ones do not meet.
LEMMA ConjunctionAdds ==
    ASSUME NEW n \in Nat, NEW x \in Int, NEW y \in Int, NEW z \in Int, NEW v \in Int,
           \A i \in 0 .. n - 1 : Digit(v, i) = Digit(y, i) + Digit(z, i)
    PROVE  Conjunction(x, v, n) = Conjunction(x, y, n) + Conjunction(x, z, n)
<1>1. PICK s : PartialSums(s, x, y, n) /\ s[n] = Conjunction(x, y, n)  BY ConjunctionSums
<1>2. PICK t : PartialSums(t, x, z, n) /\ t[n] = Conjunction(x, z, n)  BY ConjunctionSums
<1>3. PICK u : PartialSums(u, x, v, n) /\ u[n] = Conjunction(x, v, n)  BY ConjunctionSums
<1> DEFINE K == {i \in 0 .. n : u[i] = s[i] + t[i]}
<1>4. 0 \in K  BY <1>1, <1>2, <1>3 DEF PartialSums
<1>5. ASSUME NEW i \in 0 .. n - 1, i \in K PROVE i + 1 \in K
  <2>1. i \in Nat /\ i + 1 \in 0 .. n /\ i \in 0 .. n  OBVIOUS
  <2>2. PICK p \in Nat : p = 2^i  BY <2>1, PowerPositive
  <2>3. PICK a, b, c, d \in {0, 1} : a = Digit(x, i) /\ b = Digit(y, i) /\ c = Digit(z, i) /\ d = Digit(v, i)
      BY <2>1, DigitIs
  <2>4. d = b + c  BY <2>3
  <2>5. /\ s[i + 1] = s[i] + (IF a = 1 /\ b = 1 THEN p ELSE 0) /\ s[i] \in Int
        /\ t[i + 1] = t[i] + (IF a = 1 /\ c = 1 THEN p ELSE 0) /\ t[i] \in Int
        /\ u[i + 1] = u[i] + (IF a = 1 /\ d = 1 THEN p ELSE 0) /\ u[i] \in Int
      BY <1>1, <1>2, <1>3, <2>1, <2>2, <2>3 DEF PartialSums
  <2>6. u[i] = s[i] + t[i]  BY <1>5
  <2>7. u[i + 1] = s[i + 1] + t[i + 1]  BY <2>4, <2>5, <2>6
  <2> QED BY <2>1, <2>7
<1> HIDE DEF K
<1>6. 0 .. n \subseteq K  BY <1>4, <1>5, Inductive
<1> QED BY <1>1, <1>2, <1>3, <1>6 DEF K

\* The complement has the other digits,
LEMMA DigitComplement ==
    ASSUME NEW n \in Nat, NEW y \in 0 .. 2^n - 1, NEW i \in 0 .. n - 1
    PROVE  Digit(2^n - 1, i) = Digit(y, i) + Digit((2^n - 1) - y, i)
<1>1. i \in Nat /\ i < n /\ i <= n  OBVIOUS
<1>2. PICK d \in Nat : n - i = d + 1  BY <1>1
<1>3. PICK p, z, q \in Nat \ {0} : p = 2^i /\ z = 2^d /\ q = 2^n  BY <1>1, PowerPositive
<1>4. q = (z + z) * p
  <2>1. 2^(d + 1) = z + z /\ 2^n = 2^(n - i) * 2^i  BY <1>1, <1>2, <1>3, PowerNext, PowerSplit
  <2> QED BY <1>2, <1>3, <2>1
<1>5. PICK k \in Int, r \in 0 .. p - 1 : k = y \div p /\ y = p * k + r  BY <1>3, Parts
<1>6. PICK w, e \in Int : w = (q - 1) - y /\ e = (z + z) - 1 - k  BY <1>5
<1>7. w = p * e + (p - 1 - r) /\ p - 1 - r \in 0 .. p - 1
  <2>1. p * e = p * (z + z) - p - p * k /\ p * (z + z) = (z + z) * p  BY <1>6
  <2> QED BY <1>4, <1>5, <1>6, <2>1
<1>8. w \div p = e  BY <1>7, Quotient
<1>9. (e % 2) + (k % 2) = 1  BY <1>6
<1>10. Digit(2^n - 1, i) = 1  BY <1>1, OnesDigits
<1>11. Digit(y, i) = k % 2 /\ Digit(w, i) = e % 2  BY <1>3, <1>5, <1>8 DEF Digit
<1>12. e % 2 \in Int /\ k % 2 \in Int  OBVIOUS
<1> QED BY <1>3, <1>6, <1>9, <1>10, <1>11, <1>12

\* so conjunction with it leaves what conjunction takes.
LEMMA ConjunctionComplement ==
    ASSUME NEW n \in Nat, NEW x \in 0 .. 2^n - 1, NEW y \in 0 .. 2^n - 1
    PROVE  Conjunction(x, (2^n - 1) - y, n) = x - Conjunction(x, y, n)
<1>1. PICK q \in Nat \ {0} : q = 2^n  BY PowerPositive
<1>2. PICK w \in Int : w = (q - 1) - y  BY <1>1
<1>3. x \in Int /\ y \in Int /\ q - 1 \in Int /\ n \in 0 .. n  BY <1>1
<1>4. \A i \in 0 .. n - 1 : Digit(q - 1, i) = Digit(y, i) + Digit(w, i)
    BY <1>1, <1>2, DigitComplement
<1>5. Conjunction(x, q - 1, n) = Conjunction(x, y, n) + Conjunction(x, w, n)
  <2> HIDE <1>1, <1>2
  <2> QED BY <1>3, <1>4, ConjunctionAdds
<1>6. Conjunction(x, q - 1, n) = x
  <2>1. Conjunction(x, 2^n - 1, n) = x % 2^n  BY <1>3, ConjunctionMask
  <2>2. x % q = x  BY <1>1, RemainderSmall
  <2> QED BY <1>1, <2>1, <2>2
<1>7. Conjunction(x, y, n) \in Int /\ Conjunction(x, w, n) \in Int  BY <1>2, <1>3, ConjunctionType
<1> QED BY <1>1, <1>2, <1>3, <1>5, <1>6, <1>7

\* A number at a place: what a number's quotient by 2^s is modulo 2^k.
LEMMA RemainderNext ==
    ASSUME NEW p \in Nat \ {0}, NEW q \in Nat \ {0}, NEW x \in Int
    PROVE  x % (p * q) = (x % p) + p * ((x \div p) % q)
<1>1. PICK e \in Int, r \in 0 .. p - 1 : e = x \div p /\ r = x % p /\ x = p * e + r  BY Parts
<1>2. PICK k \in Int, d \in 0 .. q - 1 : d = e % q /\ e = q * k + d  BY Parts
<1>3. PICK m \in Nat \ {0} : m = p * q  OBVIOUS
<1>4. PICK u \in Int : u = r + p * d  BY <1>1, <1>2
<1>5. u \in 0 .. m - 1
  <2>1. 0 <= p * d /\ p * d <= p * (q - 1)  BY <1>2
  <2>2. p * (q - 1) = m - p  BY <1>3
  <2> QED BY <1>1, <1>4, <2>1, <2>2
<1>6. x = m * k + u
  <2>1. p * e = p * (q * k) + p * d  BY <1>2
  <2>2. p * (q * k) = m * k  BY <1>3
  <2> QED BY <1>1, <1>4, <2>1, <2>2
<1>7. x % m = u  BY <1>5, <1>6, Remainder
<1> QED BY <1>1, <1>2, <1>3, <1>4, <1>7

\* A mask of k ones at place s keeps those digits.
TakesBlock(n, k, s, x) == Conjunction(x, (2^k - 1) * 2^s, n) = ((x \div 2^s) % 2^k) * 2^s

\* The conjunction with such a mask.
LEMMA ConjunctionBlock ==
    ASSUME NEW n \in Nat, NEW k \in Nat, NEW s \in Nat, k + s <= n, NEW x \in Int
    PROVE  TakesBlock(n, k, s, x)
<1>1. PICK p, q \in Nat \ {0} : p = 2^s /\ q = 2^k  BY PowerPositive
<1>2. 2^(k + s) = q * p /\ k + s \in Nat  BY <1>1, PowerSum
<1>3. PICK y, z, v \in Int : y = (q - 1) * p /\ z = p - 1 /\ v = q * p - 1  OBVIOUS
<1>4. v = y + z
  <2>1. (q - 1) * p = q * p - p  OBVIOUS
  <2> QED BY <1>3, <2>1
<1>5. \A i \in 0 .. n - 1 : Digit(v, i) = Digit(y, i) + Digit(z, i)
  <2> SUFFICES ASSUME NEW i \in 0 .. n - 1 PROVE Digit(v, i) = Digit(y, i) + Digit(z, i)
      OBVIOUS
  <2>1. PICK c \in Nat : c = q - 1  OBVIOUS
  <2>2. i \in Nat /\ z \in 0 .. 2^s - 1  BY <1>1, <1>3
  <2>3. Digit(c * 2^s + z, i) = Digit(c * 2^s, i) + Digit(z, i)  BY <2>2, DigitJoin
  <2> QED BY <1>1, <1>3, <1>4, <2>1, <2>3
<1>6. Conjunction(x, v, n) = Conjunction(x, y, n) + Conjunction(x, z, n)  BY <1>5, ConjunctionAdds
<1>7. Conjunction(x, v, n) = x % (q * p) /\ Conjunction(x, z, n) = x % p
  <2>1. k + s \in 0 .. n /\ s \in 0 .. n  BY <1>2
  <2>2. Conjunction(x, 2^(k + s) - 1, n) = x % 2^(k + s) /\ Conjunction(x, 2^s - 1, n) = x % 2^s
      BY <2>1, ConjunctionMask
  <2> QED BY <1>1, <1>2, <1>3, <2>2
<1>8. x % (p * q) = (x % p) + p * ((x \div p) % q)  BY RemainderNext
<1>9. Conjunction(x, y, n) \in Int  BY ConjunctionType
<1>10. PICK a, b, c \in Int : a = x % p /\ b = (x \div p) % q /\ c = x % (p * q)
  <2>1. p * q \in Nat \ {0} /\ x \div p \in Int  BY Parts
  <2>2. x % p \in Int /\ (x \div p) % q \in Int /\ x % (p * q) \in Int  BY <2>1, Parts
  <2> QED BY <2>2
<1>11. p * q = q * p /\ p * b = b * p  BY <1>10
<1>12. Conjunction(x, y, n) = b * p  BY <1>6, <1>7, <1>8, <1>9, <1>10, <1>11
<1>13. Conjunction(x, (2^k - 1) * 2^s, n) = ((x \div 2^s) % 2^k) * 2^s  BY <1>1, <1>3, <1>10, <1>12
<1> QED BY <1>13, Zenon DEF TakesBlock

\* What is put at place s meets neither the digits below nor those above it.
LEMMA ConjunctionGap ==
    ASSUME NEW n \in Nat, NEW k \in Nat, NEW s \in Nat,
           NEW a \in 0 .. 2^s - 1, NEW c \in Nat, NEW v \in 0 .. 2^k - 1
    PROVE  Conjunction(v * 2^s, c * 2^(k + s) + a, n) = 0
<1>1. PICK p, q, m \in Nat \ {0} : p = 2^s /\ q = 2^k /\ m = 2^(k + s) /\ m = q * p
  <2>1. k + s \in Nat  OBVIOUS
  <2>2. PICK p, q, m \in Nat \ {0} : p = 2^s /\ q = 2^k /\ m = 2^(k + s)  BY <2>1, PowerPositive
  <2>3. m = q * p  BY <2>2, PowerSum
  <2> QED BY <2>2, <2>3
<1>2. PICK w, x, y \in Nat : w = v * p /\ x = c * m /\ y = c * m + a  BY <1>1
<1>3. a \in 0 .. m - 1 /\ w \in 0 .. m - 1 /\ v \in Nat
  <2>1. 1 <= q /\ p <= q * p /\ v * p <= (q - 1) * p /\ (q - 1) * p = q * p - p  BY <1>1
  <2> QED BY <1>1, <1>2, <2>1
<1>4. \A i \in 0 .. n - 1 : Digit(y, i) = Digit(x, i) + Digit(a, i)
  <2> SUFFICES ASSUME NEW i \in 0 .. n - 1 PROVE Digit(y, i) = Digit(x, i) + Digit(a, i)
      OBVIOUS
  <2>1. k + s \in Nat /\ a \in 0 .. 2^(k + s) - 1 /\ i \in Nat  BY <1>1, <1>3
  <2>2. Digit(c * 2^(k + s) + a, i) = Digit(c * 2^(k + s), i) + Digit(a, i)  BY <2>1, DigitJoin
  <2> QED BY <1>1, <1>2, <2>2
<1>5. a \in Int  BY <1>1
<1>6. Conjunction(w, y, n) = Conjunction(w, x, n) + Conjunction(w, a, n)
    BY <1>2, <1>4, <1>5, ConjunctionAdds
<1>7. Conjunction(w, a, n) = 0  BY <1>1, <1>2, <1>3, ConjunctionApart
<1>8. Conjunction(w, x, n) = 0
  <2>1. k + s \in Nat /\ w \in 0 .. 2^(k + s) - 1  BY <1>1, <1>3
  <2>2. Conjunction(w, c * 2^(k + s), n) = 0  BY <2>1, ConjunctionApart
  <2> QED BY <1>1, <1>2, <2>2
<1> QED BY <1>1, <1>2, <1>6, <1>7, <1>8

\* The ring identities the products below use.
LEMMA Ring ==
    /\ \A a, b, c \in Int : a * (b * c) = b * (a * c) /\ (a * b) * c = (a * c) * b
    /\ \A a, b, c \in Int : (a + b) * c = a * c + b * c
    /\ \A a, b \in Int : a * b \in Int /\ a * b = b * a
<1> QED  OBVIOUS

\* A number is below its power of two.
LEMMA BelowPower == \A n \in Nat : n < 2^n
<1> SUFFICES ASSUME NEW n \in Nat PROVE n < 2^n
    OBVIOUS
<1> DEFINE K == {k \in Nat : k < 2^k}
<1>1. 0 \in K  BY Zeroth
<1>2. \A k \in 0 .. n - 1 : k \in K => k + 1 \in K
  <2> SUFFICES ASSUME NEW k \in 0 .. n - 1, k \in K PROVE k + 1 \in K
      OBVIOUS
  <2>1. k \in Nat  OBVIOUS
  <2>2. PICK p \in Nat \ {0} : p = 2^k /\ 2^(k + 1) = p + p  BY <2>1, PowerPositive, PowerNext
  <2> QED BY <2>1, <2>2
<1> HIDE DEF K
<1>3. 0 .. n \subseteq K  BY <1>1, <1>2, Inductive
<1> QED BY <1>3 DEF K

\* 2^2 and 2^3, by which the layout counts.
LEMMA SmallPowers == 2^1 = 2 /\ 2^2 = 4 /\ 2^3 = 8
<1>1. 2^(0 + 1) = 2^0 + 2^0 /\ 2^(1 + 1) = 2^1 + 2^1 /\ 2^(2 + 1) = 2^2 + 2^2 /\ 2^0 = 1
    BY PowerNext, Zeroth
<1>2. 0 + 1 = 1 /\ 1 + 1 = 2 /\ 2 + 1 = 3  OBVIOUS
<1>3. 2^1 = 1 + 1  BY <1>1, <1>2
<1>4. 2^1 = 2  BY <1>3
<1>5. 2^2 = 4  BY <1>1, <1>2, <1>4
<1>6. 2^3 = 8  BY <1>1, <1>2, <1>5
<1> QED BY <1>4, <1>5, <1>6

\* A word of n bits splits at its sign bit.
LEMMA Halves == \A n \in Nat \ {0} : 2^(n - 1) \in Nat \ {0} /\ 2^n = 2^(n - 1) + 2^(n - 1)
<1> SUFFICES ASSUME NEW n \in Nat \ {0} PROVE 2^(n - 1) \in Nat \ {0} /\ 2^n = 2^(n - 1) + 2^(n - 1)
    OBVIOUS
<1>1. PICK m \in Nat : m = n - 1 /\ m + 1 = n  OBVIOUS
<1> QED BY <1>1, PowerNext, PowerPositive

\* A quotient is at most what is divided.
LEMMA QuotientBelow == \A a \in Nat : \A p \in Nat \ {0} : a \div p \in 0 .. a
<1> SUFFICES ASSUME NEW a \in Nat, NEW p \in Nat \ {0} PROVE a \div p \in 0 .. a
    OBVIOUS
<1>1. a \in Int /\ p \in Int /\ p >= 1  OBVIOUS
<1>2. PICK f \in Int, r \in 0 .. p - 1 : f = a \div p /\ r = a % p /\ a = p * f + r  BY <1>1, Parts
<1>3. PICK g \in Int : g = p * f  BY <1>1, <1>2, Ring
<1>4. f >= 0
  <2>1. SUFFICES ASSUME f <= -1 PROVE FALSE  BY <1>2
  <2>2. p * f <= p * (-1)  BY <1>1, <1>2, <2>1
  <2>3. p * (-1) = -p  BY <1>1
  <2> QED BY <1>1, <1>2, <1>3, <2>2, <2>3
<1>5. f <= g
  <2>1. 1 * f <= p * f  BY <1>1, <1>2, <1>4
  <2>2. 1 * f = f  BY <1>2
  <2> QED BY <1>2, <1>3, <2>1, <2>2
<1> QED BY <1>2, <1>3, <1>4, <1>5

-----------------------------------------------------------------------------
(* Groups of b digits: the bytes of a number *)

Group(x, b, j) == (x \div 2^(b * j)) % 2^b

\* A group is below 2^b.
LEMMA GroupIs ==
    \A x \in Int : \A b, j \in Nat :
        Group(x, b, j) \in Nat /\ Group(x, b, j) \in 0 .. 2^b - 1 /\ b * j \in Nat /\ 2^(b * j) \in Nat \ {0}
<1> SUFFICES ASSUME NEW x \in Int, NEW b \in Nat, NEW j \in Nat
             PROVE  Group(x, b, j) \in Nat /\ Group(x, b, j) \in 0 .. 2^b - 1 /\ b * j \in Nat /\ 2^(b * j) \in Nat \ {0}
    OBVIOUS
<1>1. PICK e \in Nat : e = b * j  OBVIOUS
<1>2. PICK p, q \in Nat \ {0} : p = 2^e /\ q = 2^b  BY PowerPositive
<1>3. x \div p \in Int  BY Parts
<1>4. (x \div p) % q \in 0 .. q - 1  BY <1>3, Parts
<1> QED BY <1>1, <1>2, <1>4 DEF Group

\* x is c above m groups of b digits, a.
Joins(x, b, m, c, a) ==
    a < 2^(b * m) /\ x = c * 2^(b * m) + a

\* Its groups are those of a, then those of c.
Beside(x, b, m, c, a) ==
    \A j \in Nat : Group(x, b, j) = IF j < m THEN Group(a, b, j) ELSE Group(c, b, j - m)

\* Two numbers side by side, group by group.
LEMMA JoinsGroups == \A x, b, m, c, a \in Nat : Joins(x, b, m, c, a) => Beside(x, b, m, c, a)
<1> SUFFICES ASSUME NEW x \in Nat, NEW b \in Nat, NEW m \in Nat, NEW c \in Nat, NEW a \in Nat,
                    Joins(x, b, m, c, a), NEW j \in Nat
             PROVE  Group(x, b, j) = IF j < m THEN Group(a, b, j) ELSE Group(c, b, j - m)
    BY DEF Beside
<1>1. PICK e, f \in Nat : e = b * m /\ f = b * j  OBVIOUS
<1>2. PICK p, q, z \in Nat \ {0} : p = 2^e /\ q = 2^f /\ z = 2^b  BY <1>1, PowerPositive
<1>3. x = c * p + a  BY <1>1, <1>2 DEF Joins
<1>4. a \in 0 .. p - 1 /\ a \in Int  BY <1>1, <1>2 DEF Joins
<1>5. CASE j < m
  <2>1. PICK d \in Nat : m = j + d + 1  BY <1>5
  <2>2. PICK g \in Nat : g = b * d  OBVIOUS
  <2>3. PICK y \in Nat \ {0} : y = 2^g  BY PowerPositive
  <2>4. e = (f + g) + b
    <3>1. b * (j + d + 1) = b * j + b * d + b  OBVIOUS
    <3> QED BY <1>1, <2>1, <2>2, <3>1
  <2>5. p = (q * y) * z
    <3>1. 2^((f + g) + b) = 2^(f + g) * 2^b /\ 2^(f + g) = 2^f * 2^g
      <4>1. f + g \in Nat  OBVIOUS
      <4> QED BY <4>1, PowerSum
    <3> QED BY <1>2, <2>3, <2>4, <3>1
  <2>6. PICK k \in Int, r \in 0 .. q - 1 : k = a \div q /\ a = q * k + r
    <3>1. a \div q \in Int /\ a % q \in 0 .. q - 1 /\ a = q * (a \div q) + (a % q)
        BY <1>4, Parts, Zenon
    <3> QED BY <3>1
  <2>7. PICK u, w \in Int : u = c * y /\ w = k + z * u  OBVIOUS
  <2>8. x = q * w + r
    <3>1. c * ((q * y) * z) = q * (z * (c * y))  OBVIOUS
    <3>2. q * (k + z * u) = q * k + q * (z * u)  BY <2>6, <2>7
    <3>3. c * p = q * (z * u) /\ q * w = q * k + q * (z * u)  BY <2>5, <2>7, <3>1, <3>2
    <3>4. PICK t, o \in Int : t = q * (z * u) /\ o = q * k  BY <2>6, <2>7
    <3>5. a = o + r /\ q * w = o + t /\ c * p = t  BY <2>6, <3>3, <3>4
    <3> QED BY <1>3, <2>6, <3>4, <3>5
  <2>9. x \div q = w  BY <2>8, Quotient
  <2>10. w % z = k % z  BY <2>7, RemainderShift
  <2>11. (x \div q) % z = (a \div q) % z  BY <2>6, <2>9, <2>10
  <2> QED BY <1>1, <1>2, <1>3, <1>5, <2>11 DEF Group
<1>6. CASE ~(j < m)
  <2>1. PICK d \in Nat : j = m + d /\ d = j - m  BY <1>6
  <2>2. PICK g \in Nat : g = b * d  OBVIOUS
  <2>3. PICK y \in Nat \ {0} : y = 2^g  BY PowerPositive
  <2>4. f = e + g
    <3>1. b * (m + d) = b * m + b * d  OBVIOUS
    <3> QED BY <1>1, <2>1, <2>2, <3>1
  <2>5. q = p * y
    <3>1. 2^(e + g) = 2^e * 2^g  BY PowerSum, Zenon
    <3> QED BY <1>2, <2>3, <2>4, <3>1, Zenon
  <2>6. x \div p = c
    <3>1. x = p * c + a  BY <1>3
    <3> QED BY <1>4, <3>1, Quotient
  <2>7. x \div q = c \div y
    <3>1. (x \div p) \div y = x \div (p * y)
      <4>1. x \in Int  OBVIOUS
      <4> QED BY <4>1, QuotientTwice, Zenon
    <3> QED BY <2>5, <2>6, <3>1
  <2>8. Group(x, b, j) = (x \div q) % z /\ Group(c, b, d) = (c \div y) % z
      BY <1>1, <1>2, <2>2, <2>3, Zenon DEF Group
  <2>9. Group(x, b, j) = Group(c, b, j - m)  BY <2>1, <2>7, <2>8
  <2> QED BY <1>1, <1>2, <1>3, <1>6, <2>9
<1> QED BY <1>5, <1>6

\* The next group is worth 2^(b i).
LEMMA GroupNext ==
    ASSUME NEW x \in Int, NEW b \in Nat, NEW i \in Nat
    PROVE  x % 2^(b * (i + 1)) = (x % 2^(b * i)) + Group(x, b, i) * 2^(b * i)
<1>1. PICK e \in Nat : e = b * i /\ b * (i + 1) = e + b  OBVIOUS
<1>2. PICK p, q \in Nat \ {0} : p = 2^e /\ q = 2^b /\ 2^(e + b) = p * q
  <2>1. PICK p, q \in Nat \ {0} : p = 2^e /\ q = 2^b  BY PowerPositive
  <2>2. 2^(e + b) = p * q  BY <2>1, PowerSum
  <2> QED BY <2>1, <2>2
<1>3. x % (p * q) = (x % p) + p * ((x \div p) % q)  BY RemainderNext
<1>4. PICK g \in Int : g = (x \div p) % q
  <2>1. x \div p \in Int  BY Parts
  <2> QED BY <2>1, Parts
<1>5. p * g = g * p  OBVIOUS
<1>6. Group(x, b, i) = g /\ 2^(b * i) = p /\ 2^(b * (i + 1)) = p * q  BY <1>1, <1>2, <1>4 DEF Group
<1> QED BY <1>3, <1>4, <1>5, <1>6

\* Counting from the quotient by 2^(b m) on.
Skips(y, x, b, m) == \A j \in Nat : Group(y, b, j) = Group(x, b, m + j)

\* The groups of a shifted number.
LEMMA GroupSkip ==
    ASSUME NEW x \in Nat, NEW b \in Nat, NEW m \in Nat
    PROVE  Skips(x \div 2^(b * m), x, b, m)
<1> SUFFICES ASSUME NEW j \in Nat PROVE Group(x \div 2^(b * m), b, j) = Group(x, b, m + j)
    BY DEF Skips
<1>1. PICK e, f \in Nat : e = b * m /\ f = b * j  OBVIOUS
<1>2. b * (m + j) = e + f  BY <1>1
<1>3. PICK p, q \in Nat \ {0} : p = 2^e /\ q = 2^f  BY PowerPositive
<1>4. 2^(e + f) = p * q  BY <1>3, PowerSum
<1>5. (x \div p) \div q = x \div (p * q)
  <2>1. x \in Int  OBVIOUS
  <2> QED BY <2>1, QuotientTwice, Zenon
<1> QED BY <1>1, <1>2, <1>3, <1>4, <1>5, Zenon DEF Group

\* What the n values of f from r on spell, the lowest first.
Spelled(f, r, b, n) == MapThenSumSet(LAMBDA i : f[r + i] * 2^(b * i), 0 .. n - 1)

\* The groups of a number spell it.
Spells(f, r, b, n, x) == Spelled(f, r, b, n) = x % 2^(b * n)

\* Groups that agree with a number's spell its low part.
LEMMA SpelledIs ==
    ASSUME NEW x \in Int, NEW b \in Nat, NEW n \in Nat, NEW r \in Nat, NEW f,
           \A i \in 0 .. n - 1 : f[r + i] = Group(x, b, i)
    PROVE  Spells(f, r, b, n, x)
<1> DEFINE S == 0 .. n - 1
           h == [i \in S |-> f[r + i] * 2^(b * i)]
           it == CHOOSE it : Sums(it, S, h)
<1>1. IsFiniteSet(S) /\ h \in [S -> Int]
  <2>1. n - 1 \in Int /\ 0 \in Int  OBVIOUS
  <2>2. IsFiniteSet(S)  BY <2>1, FS_Interval
  <2>3. ASSUME NEW i \in S PROVE f[r + i] * 2^(b * i) \in Int
    <3>1. i \in Nat  OBVIOUS
    <3>2. PICK g, p \in Int : g = Group(x, b, i) /\ p = 2^(b * i)  BY <3>1, GroupIs
    <3> QED BY <3>2
  <2> QED BY <2>2, <2>3
<1>2. PICK F : IsSum(F, S, h)  BY <1>1, SumExists
<1>3. Spelled(f, r, b, n) = it[S]
  <2> DEFINE J(g) == g = [s \in SUBSET S |-> IF s = {} THEN 0
                            ELSE f[r + (CHOOSE i \in s : TRUE)] * 2^(b * (CHOOSE i \in s : TRUE))
                                    + g[s \ {CHOOSE i \in s : TRUE}]]
  <2>1. Spelled(f, r, b, n) = (CHOOSE g : J(g))[S]
      BY Zenon DEF Spelled, MapThenSumSet, MapThenFoldSet
  <2>2. ASSUME NEW s \in SUBSET S, s # {}
        PROVE  f[r + (CHOOSE i \in s : TRUE)] * 2^(b * (CHOOSE i \in s : TRUE)) = h[CHOOSE i \in s : TRUE]
    <3>1. (CHOOSE i \in s : TRUE) \in S  BY <2>2
    <3>2. \A i \in S : h[i] = f[r + i] * 2^(b * i)  OBVIOUS
    <3> HIDE DEF h, S, J
    <3> QED BY <3>1, <3>2, Zenon
  <2> HIDE DEF h, S
  <2>3. ASSUME NEW g PROVE J(g) <=> Sums(g, S, h)
    <3>1. [s \in SUBSET S |-> IF s = {} THEN 0
                            ELSE f[r + (CHOOSE i \in s : TRUE)] * 2^(b * (CHOOSE i \in s : TRUE))
                                    + g[s \ {CHOOSE i \in s : TRUE}]]
          = [s \in SUBSET S |-> IF s = {} THEN 0
                            ELSE h[CHOOSE i \in s : TRUE] + g[s \ {CHOOSE i \in s : TRUE}]]
        BY <2>2
    <3> QED BY <3>1, Zenon DEF Sums
  <2>4. (CHOOSE g : J(g)) = it
    <3> HIDE DEF J
    <3> QED BY <2>3, Zenon
  <2> QED BY <2>1, <2>4, Zenon DEF S
<1>4. it[S] = F[S]
  <2>1. Sums(F, S, h)  BY <1>2, SumIsSums
  <2>2. Sums(it, S, h)  BY <2>1, Zenon
  <2> HIDE DEF h, S, it
  <2> QED BY <1>1, <1>2, <2>2, SumAnyOrder, Zenon
<1> DEFINE K == {k \in 0 .. n : F[0 .. k - 1] = x % 2^(b * k)}
<1>5. 0 \in K
  <2>1. 0 .. 0 - 1 = {} /\ b * 0 = 0  OBVIOUS
  <2>2. F[{}] = 0  BY <1>2, Zenon DEF IsSum
  <2>3. F[0 .. 0 - 1] = 0 /\ x % 2^(b * 0) = 0  BY <2>1, <2>2, Zeroth, Zenon
  <2> HIDE DEF S, h, it
  <2> QED BY <2>3
<1>6. ASSUME NEW i \in 0 .. n - 1, i \in K PROVE i + 1 \in K
  <2> DEFINE T == 0 .. (i + 1) - 1
  <2>1. T \in SUBSET S /\ i \in T /\ T \ {i} = 0 .. i - 1 /\ i \in S /\ i + 1 \in 0 .. n /\ i \in Nat
      OBVIOUS
  <2>2. h[i] = Group(x, b, i) * 2^(b * i)  BY <2>1
  <2>3. F[0 .. i - 1] = x % 2^(b * i)  BY <1>6
  <2> HIDE DEF T, S, h, it
  <2>4. F[T] = h[i] + F[0 .. i - 1]
    <3>1. F[T] = h[i] + F[T \ {i}]  BY <1>2, <2>1, Zenon DEF IsSum
    <3> QED BY <2>1, <3>1, Zenon
  <2>5. PICK u, v \in Int : u = Group(x, b, i) * 2^(b * i) /\ v = x % 2^(b * i)
    <3> HIDE DEF K
    <3>1. Group(x, b, i) \in Int /\ 2^(b * i) \in Nat \ {0}
      <4>1. Group(x, b, i) \in Nat /\ 2^(b * i) \in Nat \ {0}  BY <2>1, GroupIs, Zenon
      <4> HIDE DEF Group
      <4> QED BY <4>1
    <3>2. PICK g \in Int, p \in Nat \ {0} : g = Group(x, b, i) /\ p = 2^(b * i)  BY <3>1
    <3>3. g * p \in Int /\ x % p \in Int  BY <3>2, Parts
    <3> QED BY <3>2, <3>3
  <2>6. x % 2^(b * (i + 1)) = v + u  BY <2>1, <2>5, GroupNext
  <2>7. F[T] = u + v  BY <2>2, <2>3, <2>4, <2>5
  <2>8. F[0 .. (i + 1) - 1] = x % 2^(b * (i + 1))  BY <2>6, <2>7 DEF T
  <2> QED BY <2>1, <2>8
<1>7. 0 .. n \subseteq K
  <2> HIDE DEF K
  <2> QED BY <1>5, <1>6, Inductive
<1>8. n \in K  BY <1>7
<1> QED BY <1>3, <1>4, <1>8 DEF Spells

\* Every number is one.
LEMMA JoinsSplit ==
    ASSUME NEW x \in Nat, NEW b \in Nat, NEW m \in Nat
    PROVE  /\ Joins(x, b, m, x \div 2^(b * m), x % 2^(b * m))
           /\ x \div 2^(b * m) \in Nat /\ x % 2^(b * m) \in Nat
<1>1. b * m \in Nat  OBVIOUS
<1>2. PICK p \in Nat \ {0} : p = 2^(b * m)  BY <1>1, PowerPositive
<1>3. PICK c \in Int, a \in 0 .. p - 1 : c = x \div p /\ a = x % p /\ x = p * c + a
  <2>1. x \in Int  OBVIOUS
  <2>2. x \div p \in Int /\ x % p \in 0 .. p - 1 /\ x = p * (x \div p) + (x % p)
      BY <2>1, Parts, Zenon
  <2> QED BY <2>2
<1>4. c \in Nat  BY <1>3, QuotientBelow
<1>5. x = c * p + a  BY <1>3
<1> QED BY <1>2, <1>3, <1>4, <1>5 DEF Joins

\* The first k groups are those of the remainder.
LEMMA GroupCut ==
    ASSUME NEW x \in Nat, NEW b \in Nat, NEW k \in Nat, NEW j \in Nat, j < k
    PROVE  Group(x % 2^(b * k), b, j) = Group(x, b, j)
<1> DEFINE c == x \div 2^(b * k)
           a == x % 2^(b * k)
<1>1. Joins(x, b, k, c, a) /\ c \in Nat /\ a \in Nat  BY JoinsSplit
<1> HIDE DEF a, c
<1>2. Beside(x, b, k, c, a)  BY <1>1, JoinsGroups, Zenon
<1> QED BY <1>2 DEF a, Beside

\* x with its groups i, ..., i + k - 1 replaced by those of v.
Splice(x, b, i, k, v) == x - ((x \div 2^(b * i)) % 2^(b * k)) * 2^(b * i) + v * 2^(b * i)

Spliced(x, b, i, k, v, p, q, u, g, a) ==
    /\ p = 2^(b * i) /\ q = 2^(b * k) /\ v \in 0 .. q - 1 /\ g \in 0 .. q - 1 /\ a \in 0 .. p - 1
    /\ x = (u * q + g) * p + a /\ Splice(x, b, i, k, v) = (u * q + v) * p + a
    /\ x - ((x \div p) % q) * p = u * (q * p) + a
    /\ Splice(x, b, i, k, v) = (u * (q * p) + a) + v * p

\* The parts of a splice.
LEMMA SpliceParts ==
    ASSUME NEW x \in Nat, NEW b \in Nat, NEW i \in Nat, NEW k \in Nat, NEW v \in 0 .. 2^(b * k) - 1
    PROVE  \E p, q \in Nat \ {0} : \E u, g, a \in Nat : Spliced(x, b, i, k, v, p, q, u, g, a)
<1>1. b * i \in Nat /\ b * k \in Nat  OBVIOUS
<1>2. PICK p, q \in Nat \ {0} : p = 2^(b * i) /\ q = 2^(b * k)  BY <1>1, PowerPositive
<1>3. PICK c, a \in Nat : c = x \div p /\ x = c * p + a /\ a < p
  <2>1. Joins(x, b, i, x \div p, x % p) /\ x \div p \in Nat /\ x % p \in Nat  BY <1>2, JoinsSplit
  <2> QED BY <1>2, <2>1 DEF Joins
<1>4. PICK u, g \in Nat : g = c % q /\ c = u * q + g /\ g < q
  <2>1. Joins(c, b, k, c \div q, c % q) /\ c \div q \in Nat /\ c % q \in Nat  BY <1>2, JoinsSplit
  <2> QED BY <1>2, <2>1 DEF Joins
<1>5. v \in 0 .. q - 1 /\ v \in Int  BY <1>2
<1>6. (u * q + g) * p = u * (q * p) + g * p /\ (u * q + v) * p = u * (q * p) + v * p  BY <1>5
<1>7. Splice(x, b, i, k, v) = x - g * p + v * p  BY <1>2, <1>3, <1>4 DEF Splice
<1>8. PICK w, y, z \in Int : w = u * (q * p) /\ y = g * p /\ z = v * p  BY <1>5
<1>9. x = (w + y) + a /\ Splice(x, b, i, k, v) = x - y + z  BY <1>3, <1>4, <1>6, <1>7, <1>8
<1>10. Splice(x, b, i, k, v) = (w + a) + z /\ x - y = w + a /\ Splice(x, b, i, k, v) = (w + z) + a
    BY <1>8, <1>9
<1>11. x = (u * q + g) * p + a  BY <1>3, <1>4
<1>12. Spliced(x, b, i, k, v, p, q, u, g, a)
    BY <1>2, <1>3, <1>4, <1>5, <1>6, <1>8, <1>10, <1>11 DEF Spliced
<1> QED BY <1>12

\* So its groups are,
Replaced(y, x, b, i, k, v) ==
    \A j \in Nat : Group(y, b, j) = IF i <= j /\ j < i + k THEN Group(v, b, j - i) ELSE Group(x, b, j)

\* The groups of a splice.
LEMMA SpliceGroups ==
    ASSUME NEW x \in Nat, NEW b \in Nat, NEW i \in Nat, NEW k \in Nat, NEW v \in 0 .. 2^(b * k) - 1
    PROVE  /\ Splice(x, b, i, k, v) \in Nat
           /\ Replaced(Splice(x, b, i, k, v), x, b, i, k, v)
<1>1. PICK p, q \in Nat \ {0}, u, g, a \in Nat : Spliced(x, b, i, k, v, p, q, u, g, a)
    BY SpliceParts
<1>2. /\ p = 2^(b * i) /\ q = 2^(b * k) /\ v \in 0 .. q - 1 /\ g \in 0 .. q - 1 /\ a \in 0 .. p - 1
      /\ x = (u * q + g) * p + a /\ Splice(x, b, i, k, v) = (u * q + v) * p + a
    BY <1>1 DEF Spliced
<1>3. PICK y \in Nat, c, d \in Nat : y = Splice(x, b, i, k, v) /\ c = u * q + g /\ d = u * q + v
  <2>1. u * q + g \in Nat /\ u * q + v \in Nat  BY <1>2
  <2>2. (u * q + v) * p + a \in Nat  BY <1>2, <2>1
  <2> QED BY <1>2, <2>1, <2>2
<1>4. Joins(x, b, i, c, a) /\ Joins(y, b, i, d, a) /\ Joins(c, b, k, u, g) /\ Joins(d, b, k, u, v)
    BY <1>2, <1>3 DEF Joins
<1>6. Beside(x, b, i, c, a) /\ Beside(y, b, i, d, a)  BY <1>4, JoinsGroups, Zenon
<1>7. Beside(c, b, k, u, g) /\ Beside(d, b, k, u, v)
  <2>1. v \in Nat  BY <1>2
  <2> QED BY <1>4, <2>1, JoinsGroups, Zenon
<1>5. ASSUME NEW j \in Nat
      PROVE  Group(y, b, j) = IF i <= j /\ j < i + k THEN Group(v, b, j - i) ELSE Group(x, b, j)
  <2>1. Group(x, b, j) = (IF j < i THEN Group(a, b, j) ELSE Group(c, b, j - i))
        /\ Group(y, b, j) = (IF j < i THEN Group(a, b, j) ELSE Group(d, b, j - i))
      BY <1>6 DEF Beside
  <2>2. CASE j < i  BY <2>1, <2>2
  <2>3. CASE ~(j < i)
    <3>1. j - i \in Nat  BY <2>3
    <3>2. Group(c, b, j - i) = (IF j - i < k THEN Group(g, b, j - i) ELSE Group(u, b, j - i - k))
          /\ Group(d, b, j - i) = (IF j - i < k THEN Group(v, b, j - i) ELSE Group(u, b, j - i - k))
        BY <1>7, <3>1 DEF Beside
    <3> QED BY <2>1, <2>3, <3>2
  <2> QED BY <2>2, <2>3
<1> QED BY <1>3, <1>5 DEF Replaced

\* and it stays as short as it was.
LEMMA SpliceBelow ==
    ASSUME NEW b \in Nat, NEW n \in Nat, NEW x \in 0 .. 2^(b * n) - 1, NEW i \in Nat, NEW k \in Nat,
           i + k <= n, NEW v \in 0 .. 2^(b * k) - 1
    PROVE  Splice(x, b, i, k, v) \in 0 .. 2^(b * n) - 1
<1>1. PICK d \in Nat : n = i + k + d  BY i + k <= n
<1>2. b * i \in Nat /\ b * k \in Nat /\ b * d \in Nat /\ b * n = (b * d + b * k) + b * i /\ b * n \in Nat
    BY <1>1
<1>3. x \in Nat  BY <1>2, PowerPositive
<1>4. PICK p, q \in Nat \ {0}, u, g, a \in Nat : Spliced(x, b, i, k, v, p, q, u, g, a)
    BY <1>3, SpliceParts
<1>5. /\ p = 2^(b * i) /\ q = 2^(b * k) /\ v \in 0 .. q - 1 /\ g \in 0 .. q - 1 /\ a \in 0 .. p - 1
      /\ x = (u * q + g) * p + a /\ Splice(x, b, i, k, v) = (u * q + v) * p + a
    BY <1>4 DEF Spliced
<1>6. PICK r \in Nat \ {0} : r = 2^(b * d)  BY <1>2, PowerPositive
<1>7. 2^(b * n) = r * q * p
  <2>1. 2^((b * d + b * k) + b * i) = 2^(b * d + b * k) * 2^(b * i)
        /\ 2^(b * d + b * k) = 2^(b * d) * 2^(b * k)
    <3>1. b * d + b * k \in Nat  BY <1>2
    <3> QED BY <1>2, <3>1, PowerSum, Zenon
  <2> QED BY <1>2, <1>5, <1>6, <2>1
<1>8. u < r
  <2>1. SUFFICES ASSUME u >= r PROVE FALSE  OBVIOUS
  <2>2. u * q >= r * q  BY <2>1
  <2>3. (u * q + g) * p >= (r * q) * p  BY <1>5, <2>2
  <2> QED BY <1>5, <1>7, <2>3
<1>9. (u * q + v) * p + a \in 0 .. r * q * p - 1
  <2>1. PICK w \in Nat : w = u * q + v /\ w + 1 <= r * q
    <3>1. u + 1 <= r  BY <1>8
    <3>2. (u + 1) * q <= r * q  BY <3>1
    <3>3. (u + 1) * q = u * q + q  OBVIOUS
    <3> QED BY <1>5, <3>2, <3>3
  <2>2. (w + 1) * p <= (r * q) * p  BY <2>1
  <2>3. (w + 1) * p = w * p + p  OBVIOUS
  <2> QED BY <1>5, <2>1, <2>2, <2>3
<1> QED BY <1>5, <1>7, <1>9

-----------------------------------------------------------------------------
(* Sequences of rows in place *)

IsSequence(t) == \E S : t \in Seq(S)

\* The rows t, from row p on.
Has(rows, p, t) == \A i \in 1 .. Len(t) : rows[p + i - 1] = t[i]

\* A sequence is placed at its first row,
LEMMA HasSelf == \A t : IsSequence(t) => Has(t, 1, t)
<1> SUFFICES ASSUME NEW S, NEW t \in Seq(S) PROVE Has(t, 1, t)
    BY DEF IsSequence
<1> QED BY DEF Has

\* and a concatenation one after the other.
LEMMA HasJoin ==
    ASSUME NEW t, NEW u, IsSequence(t), IsSequence(u)
    PROVE  /\ IsSequence(t \o u) /\ Len(t) \in Nat /\ Len(u) \in Nat /\ Len(t \o u) = Len(t) + Len(u)
           /\ \A rows : \A p \in Nat : Has(rows, p, t \o u)
                  => Has(rows, p, t) /\ Has(rows, p + Len(t), u)
<1>1. PICK S : t \in Seq(S)  BY DEF IsSequence
<1>2. PICK U : u \in Seq(U)  BY DEF IsSequence
<1> DEFINE V == S \cup U
<1>3. t \in Seq(V) /\ u \in Seq(V)
  <2>1. t \in [1 .. Len(t) -> S] /\ Len(t) \in Nat /\ u \in [1 .. Len(u) -> U] /\ Len(u) \in Nat
      BY <1>1, <1>2
  <2> QED BY <2>1
<1> HIDE DEF V
<1> DEFINE tu == t \o u
<1>4. /\ tu \in Seq(V) /\ Len(t) \in Nat /\ Len(u) \in Nat /\ Len(tu) = Len(t) + Len(u)
      /\ \A i \in 1 .. Len(t) : tu[i] = t[i]
      /\ \A i \in 1 .. Len(u) : tu[Len(t) + i] = u[i]
    BY <1>3
<1> HIDE DEF tu
<1>5. ASSUME NEW rows, NEW p \in Nat, Has(rows, p, tu)
      PROVE  Has(rows, p, t) /\ Has(rows, p + Len(t), u)
  <2>1. \A i \in 1 .. Len(t) : rows[p + i - 1] = t[i]  BY <1>4, <1>5 DEF Has
  <2>2. ASSUME NEW i \in 1 .. Len(u) PROVE rows[p + Len(t) + i - 1] = u[i]
    <3>1. Len(t) + i \in 1 .. Len(tu) /\ tu[Len(t) + i] = u[i]  BY <1>4
    <3>2. rows[p + (Len(t) + i) - 1] = tu[Len(t) + i]  BY <1>5, <3>1 DEF Has
    <3>3. p + (Len(t) + i) - 1 = p + Len(t) + i - 1  BY <1>4
    <3> QED BY <3>1, <3>2, <3>3
  <2> QED BY <2>1, <2>2 DEF Has
<1> QED BY <1>4, <1>5 DEF tu, IsSequence

\* The rows of a literal.
LEMMA HasNone == IsSequence(<<>>) /\ Len(<<>>) = 0
<1>1. <<>> \in Seq({})  OBVIOUS
<1> QED BY <1>1 DEF IsSequence

\* A sequence of one row, placed,
LEMMA HasOne ==
    ASSUME NEW a
    PROVE  /\ IsSequence(<<a>>) /\ Len(<<a>>) = 1
           /\ \A rows : \A p \in Nat : Has(rows, p, <<a>>)
                  => rows[p] = a
<1> DEFINE t == <<a>>
<1>1. t \in Seq({a}) /\ Len(t) = 1  OBVIOUS
<1>2. t[1] = a  OBVIOUS
<1> HIDE DEF t
<1>3. ASSUME NEW rows, NEW p \in Nat, Has(rows, p, t)
      PROVE  rows[p] = a
  <2>1. rows[p] = a
    <3>1. 1 \in 1 .. Len(t) /\ p + 1 - 1 = p  BY <1>1
    <3> QED BY <1>2, <1>3, <3>1, Zenon DEF Has
  <2> QED BY <2>1
<1> QED BY <1>1, <1>3 DEF t, IsSequence

\* of two,
LEMMA HasTwo ==
    ASSUME NEW a, NEW b
    PROVE  /\ IsSequence(<<a, b>>) /\ Len(<<a, b>>) = 2
           /\ \A rows : \A p \in Nat : Has(rows, p, <<a, b>>)
                  => rows[p] = a /\ rows[p + 1] = b
<1> DEFINE t == <<a, b>>
<1>1. t \in Seq({a, b}) /\ Len(t) = 2  OBVIOUS
<1>2. t[1] = a /\ t[2] = b  OBVIOUS
<1> HIDE DEF t
<1>3. ASSUME NEW rows, NEW p \in Nat, Has(rows, p, t)
      PROVE  rows[p] = a /\ rows[p + 1] = b
  <2>1. rows[p] = a
    <3>1. 1 \in 1 .. Len(t) /\ p + 1 - 1 = p  BY <1>1
    <3> QED BY <1>2, <1>3, <3>1, Zenon DEF Has
  <2>2. rows[p + 1] = b
    <3>1. 2 \in 1 .. Len(t) /\ p + 2 - 1 = p + 1  BY <1>1
    <3> QED BY <1>2, <1>3, <3>1, Zenon DEF Has
  <2> QED BY <2>1, <2>2
<1> QED BY <1>1, <1>3 DEF t, IsSequence

\* of three,
LEMMA HasThree ==
    ASSUME NEW a, NEW b, NEW c
    PROVE  /\ IsSequence(<<a, b, c>>) /\ Len(<<a, b, c>>) = 3
           /\ \A rows : \A p \in Nat : Has(rows, p, <<a, b, c>>)
                  => rows[p] = a /\ rows[p + 1] = b /\ rows[p + 2] = c
<1> DEFINE t == <<a, b, c>>
<1>1. t \in Seq({a, b, c}) /\ Len(t) = 3  OBVIOUS
<1>2. t[1] = a /\ t[2] = b /\ t[3] = c  OBVIOUS
<1> HIDE DEF t
<1>3. ASSUME NEW rows, NEW p \in Nat, Has(rows, p, t)
      PROVE  rows[p] = a /\ rows[p + 1] = b /\ rows[p + 2] = c
  <2>1. rows[p] = a
    <3>1. 1 \in 1 .. Len(t) /\ p + 1 - 1 = p  BY <1>1
    <3> QED BY <1>2, <1>3, <3>1, Zenon DEF Has
  <2>2. rows[p + 1] = b
    <3>1. 2 \in 1 .. Len(t) /\ p + 2 - 1 = p + 1  BY <1>1
    <3> QED BY <1>2, <1>3, <3>1, Zenon DEF Has
  <2>3. rows[p + 2] = c
    <3>1. 3 \in 1 .. Len(t) /\ p + 3 - 1 = p + 2  BY <1>1
    <3> QED BY <1>2, <1>3, <3>1, Zenon DEF Has
  <2> QED BY <2>1, <2>2, <2>3
<1> QED BY <1>1, <1>3 DEF t, IsSequence

\* of four,
LEMMA HasFour ==
    ASSUME NEW a, NEW b, NEW c, NEW d
    PROVE  /\ IsSequence(<<a, b, c, d>>) /\ Len(<<a, b, c, d>>) = 4
           /\ \A rows : \A p \in Nat : Has(rows, p, <<a, b, c, d>>)
                  => rows[p] = a /\ rows[p + 1] = b /\ rows[p + 2] = c /\ rows[p + 3] = d
<1> DEFINE t == <<a, b, c, d>>
<1>1. t \in Seq({a, b, c, d}) /\ Len(t) = 4  OBVIOUS
<1>2. t[1] = a /\ t[2] = b /\ t[3] = c /\ t[4] = d  OBVIOUS
<1> HIDE DEF t
<1>3. ASSUME NEW rows, NEW p \in Nat, Has(rows, p, t)
      PROVE  rows[p] = a /\ rows[p + 1] = b /\ rows[p + 2] = c /\ rows[p + 3] = d
  <2>1. rows[p] = a
    <3>1. 1 \in 1 .. Len(t) /\ p + 1 - 1 = p  BY <1>1
    <3> QED BY <1>2, <1>3, <3>1, Zenon DEF Has
  <2>2. rows[p + 1] = b
    <3>1. 2 \in 1 .. Len(t) /\ p + 2 - 1 = p + 1  BY <1>1
    <3> QED BY <1>2, <1>3, <3>1, Zenon DEF Has
  <2>3. rows[p + 2] = c
    <3>1. 3 \in 1 .. Len(t) /\ p + 3 - 1 = p + 2  BY <1>1
    <3> QED BY <1>2, <1>3, <3>1, Zenon DEF Has
  <2>4. rows[p + 3] = d
    <3>1. 4 \in 1 .. Len(t) /\ p + 4 - 1 = p + 3  BY <1>1
    <3> QED BY <1>2, <1>3, <3>1, Zenon DEF Has
  <2> QED BY <2>1, <2>2, <2>3, <2>4
<1> QED BY <1>1, <1>3 DEF t, IsSequence

\* of five
LEMMA HasFive ==
    ASSUME NEW a, NEW b, NEW c, NEW d, NEW e
    PROVE  /\ IsSequence(<<a, b, c, d, e>>) /\ Len(<<a, b, c, d, e>>) = 5
           /\ \A rows : \A p \in Nat : Has(rows, p, <<a, b, c, d, e>>)
                  => rows[p] = a /\ rows[p + 1] = b /\ rows[p + 2] = c /\ rows[p + 3] = d /\ rows[p + 4] = e
<1> DEFINE t == <<a, b, c, d, e>>
<1>1. t \in Seq({a, b, c, d, e}) /\ Len(t) = 5  OBVIOUS
<1>2. t[1] = a /\ t[2] = b /\ t[3] = c /\ t[4] = d /\ t[5] = e  OBVIOUS
<1> HIDE DEF t
<1>3. ASSUME NEW rows, NEW p \in Nat, Has(rows, p, t)
      PROVE  rows[p] = a /\ rows[p + 1] = b /\ rows[p + 2] = c /\ rows[p + 3] = d /\ rows[p + 4] = e
  <2>1. rows[p] = a
    <3>1. 1 \in 1 .. Len(t) /\ p + 1 - 1 = p  BY <1>1
    <3> QED BY <1>2, <1>3, <3>1, Zenon DEF Has
  <2>2. rows[p + 1] = b
    <3>1. 2 \in 1 .. Len(t) /\ p + 2 - 1 = p + 1  BY <1>1
    <3> QED BY <1>2, <1>3, <3>1, Zenon DEF Has
  <2>3. rows[p + 2] = c
    <3>1. 3 \in 1 .. Len(t) /\ p + 3 - 1 = p + 2  BY <1>1
    <3> QED BY <1>2, <1>3, <3>1, Zenon DEF Has
  <2>4. rows[p + 3] = d
    <3>1. 4 \in 1 .. Len(t) /\ p + 4 - 1 = p + 3  BY <1>1
    <3> QED BY <1>2, <1>3, <3>1, Zenon DEF Has
  <2>5. rows[p + 4] = e
    <3>1. 5 \in 1 .. Len(t) /\ p + 5 - 1 = p + 4  BY <1>1
    <3> QED BY <1>2, <1>3, <3>1, Zenon DEF Has
  <2> QED BY <2>1, <2>2, <2>3, <2>4, <2>5
<1> QED BY <1>1, <1>3 DEF t, IsSequence

\* and of nine.
LEMMA HasNine ==
    ASSUME NEW a, NEW b, NEW c, NEW d, NEW e, NEW f, NEW g, NEW h, NEW i
    PROVE  /\ IsSequence(<<a, b, c, d, e, f, g, h, i>>) /\ Len(<<a, b, c, d, e, f, g, h, i>>) = 9
           /\ \A rows : \A p \in Nat : Has(rows, p, <<a, b, c, d, e, f, g, h, i>>)
                  => rows[p] = a /\ rows[p + 1] = b /\ rows[p + 2] = c /\ rows[p + 3] = d /\ rows[p + 4] = e /\ rows[p + 5] = f /\ rows[p + 6] = g /\ rows[p + 7] = h /\ rows[p + 8] = i
<1> DEFINE t == <<a, b, c, d, e, f, g, h, i>>
<1>1. t \in Seq({a, b, c, d, e, f, g, h, i}) /\ Len(t) = 9  OBVIOUS
<1>2. t[1] = a /\ t[2] = b /\ t[3] = c /\ t[4] = d /\ t[5] = e /\ t[6] = f /\ t[7] = g /\ t[8] = h /\ t[9] = i
    OBVIOUS
<1> HIDE DEF t
<1>3. ASSUME NEW rows, NEW p \in Nat, Has(rows, p, t)
      PROVE  rows[p] = a /\ rows[p + 1] = b /\ rows[p + 2] = c /\ rows[p + 3] = d /\ rows[p + 4] = e /\ rows[p + 5] = f /\ rows[p + 6] = g /\ rows[p + 7] = h /\ rows[p + 8] = i
  <2>1. rows[p] = a
    <3>1. 1 \in 1 .. Len(t) /\ p + 1 - 1 = p  BY <1>1
    <3> QED BY <1>2, <1>3, <3>1, Zenon DEF Has
  <2>2. rows[p + 1] = b
    <3>1. 2 \in 1 .. Len(t) /\ p + 2 - 1 = p + 1  BY <1>1
    <3> QED BY <1>2, <1>3, <3>1, Zenon DEF Has
  <2>3. rows[p + 2] = c
    <3>1. 3 \in 1 .. Len(t) /\ p + 3 - 1 = p + 2  BY <1>1
    <3> QED BY <1>2, <1>3, <3>1, Zenon DEF Has
  <2>4. rows[p + 3] = d
    <3>1. 4 \in 1 .. Len(t) /\ p + 4 - 1 = p + 3  BY <1>1
    <3> QED BY <1>2, <1>3, <3>1, Zenon DEF Has
  <2>5. rows[p + 4] = e
    <3>1. 5 \in 1 .. Len(t) /\ p + 5 - 1 = p + 4  BY <1>1
    <3> QED BY <1>2, <1>3, <3>1, Zenon DEF Has
  <2>6. rows[p + 5] = f
    <3>1. 6 \in 1 .. Len(t) /\ p + 6 - 1 = p + 5  BY <1>1
    <3> QED BY <1>2, <1>3, <3>1, Zenon DEF Has
  <2>7. rows[p + 6] = g
    <3>1. 7 \in 1 .. Len(t) /\ p + 7 - 1 = p + 6  BY <1>1
    <3> QED BY <1>2, <1>3, <3>1, Zenon DEF Has
  <2>8. rows[p + 7] = h
    <3>1. 8 \in 1 .. Len(t) /\ p + 8 - 1 = p + 7  BY <1>1
    <3> QED BY <1>2, <1>3, <3>1, Zenon DEF Has
  <2>9. rows[p + 8] = i
    <3>1. 9 \in 1 .. Len(t) /\ p + 9 - 1 = p + 8  BY <1>1
    <3> QED BY <1>2, <1>3, <3>1, Zenon DEF Has
  <2> QED BY <2>1, <2>2, <2>3, <2>4, <2>5, <2>6, <2>7, <2>8, <2>9
<1> QED BY <1>1, <1>3 DEF t, IsSequence

\* One patch after the other.
Indexed(f) == DOMAIN f \subseteq Nat

RowsFollow(r, k, n, m, x, y, t) ==
    r \in Nat /\ k \in Nat /\ n \in Nat /\ m \in Nat /\ x = r + k /\ y = m + k /\ t = k + n

\* v, of k bits, as a word: extended to the given bits when signed.
Extended(v, k, bits, signed) == IF signed /\ v >= 2^(k - 1) THEN (v - 2^k) % 2^bits ELSE v

\* The quotient of a remainder.
LEMMA RemainderQuotient ==
    ASSUME NEW p \in Nat \ {0}, NEW q \in Nat \ {0}, NEW x \in Nat
    PROVE  (x % (p * q)) \div p = (x \div p) % q
<1>1. x % (p * q) = (x % p) + p * ((x \div p) % q)
  <2>1. x \in Int  OBVIOUS
  <2> QED BY <2>1, RemainderNext, Zenon
<1>2. x \div p \in Int /\ x % p \in 0 .. p - 1  BY Parts
<1>3. PICK a \in 0 .. p - 1, k \in Int : a = x % p /\ k = (x \div p) % q  BY <1>2, Parts
<1>4. PICK y \in Int : y = x % (p * q) /\ y = p * k + a  BY <1>1, <1>3
<1>5. y \div p = k  BY <1>4, Quotient
<1> QED BY <1>3, <1>4, <1>5

\* The ones a shift by k bytes leaves.
LEMMA OnesShift ==
    ASSUME NEW p \in Nat \ {0}, NEW q \in Nat \ {0}
    PROVE  (p * q - 1) \div p = q - 1 /\ (p * q - 1) % p = p - 1
<1>1. p * q - 1 = p * (q - 1) + (p - 1) /\ p * q - 1 \in Int /\ q - 1 \in Int
  <2>1. p * (q - 1) = p * q - p  OBVIOUS
  <2> QED BY <2>1
<1>2. p - 1 \in 0 .. p - 1 /\ p > 0 /\ p \in Nat  OBVIOUS
<1> QED BY <1>1, <1>2, Quotient, Remainder, Zenon

OneAt(rows, p, k, a1) ==
    \E k1 :
               /\ k1 = p + 1 /\ k = k1
               /\ rows[p] = a1

\* A sequence of one row, in its place,
LEMMA RowsOne ==
    ASSUME NEW rows, NEW p, p \in Nat, NEW a1,
           NEW S, S = <<a1>>, Has(rows, p, S), NEW k, k = p + Len(S)
    PROVE  OneAt(rows, p, k, a1)
<1>1. PICK k1 : k1 = p + 1  OBVIOUS
<1>2. rows[p] = a1 /\ Len(S) = 1  BY HasOne
<1>3. k = k1  BY <1>1, <1>2
<1>4. rows[p] = a1  BY <1>1, <1>2, <1>3
<1> QED BY <1>1, <1>3, <1>4 DEF OneAt

TwoAt(rows, p, k, a1, a2) ==
    \E k1, k2 :
               /\ k1 = p + 1 /\ k2 = k1 + 1 /\ k2 = p + 2 /\ k = k2
               /\ rows[p] = a1 /\ rows[k1] = a2

\* of two,
LEMMA RowsTwo ==
    ASSUME NEW rows, NEW p, p \in Nat, NEW a1, NEW a2,
           NEW S, S = <<a1, a2>>, Has(rows, p, S), NEW k, k = p + Len(S)
    PROVE  TwoAt(rows, p, k, a1, a2)
<1>1. PICK k1, k2 : k1 = p + 1 /\ k2 = k1 + 1 /\ k2 = p + 2  OBVIOUS
<1>2. rows[p] = a1 /\ rows[p + 1] = a2 /\ Len(S) = 2  BY HasTwo
<1>3. k = k2  BY <1>1, <1>2
<1>4. rows[p] = a1 /\ rows[k1] = a2  BY <1>1, <1>2, <1>3
<1> QED BY <1>1, <1>3, <1>4 DEF TwoAt

ThreeAt(rows, p, k, a1, a2, a3) ==
    \E k1, k2, k3 :
               /\ k1 = p + 1 /\ k2 = k1 + 1 /\ k3 = k2 + 1 /\ k3 = p + 3 /\ k = k3
               /\ rows[p] = a1 /\ rows[k1] = a2 /\ rows[k2] = a3

\* of three,
LEMMA RowsThree ==
    ASSUME NEW rows, NEW p, p \in Nat, NEW a1, NEW a2, NEW a3,
           NEW S, S = <<a1, a2, a3>>, Has(rows, p, S), NEW k, k = p + Len(S)
    PROVE  ThreeAt(rows, p, k, a1, a2, a3)
<1>1. PICK k1, k2, k3 : k1 = p + 1 /\ k2 = k1 + 1 /\ k3 = k2 + 1 /\ k3 = p + 3  OBVIOUS
<1>2. rows[p] = a1 /\ rows[p + 1] = a2 /\ rows[p + 2] = a3 /\ Len(S) = 3  BY HasThree
<1>3. k = k3 /\ k2 = p + 2  BY <1>1, <1>2
<1>4. rows[p] = a1 /\ rows[k1] = a2 /\ rows[k2] = a3  BY <1>1, <1>2, <1>3
<1> QED BY <1>1, <1>3, <1>4 DEF ThreeAt

FourAt(rows, p, k, a1, a2, a3, a4) ==
    \E k1, k2, k3, k4 :
               /\ k1 = p + 1 /\ k2 = k1 + 1 /\ k3 = k2 + 1 /\ k4 = k3 + 1 /\ k4 = p + 4 /\ k = k4
               /\ rows[p] = a1 /\ rows[k1] = a2 /\ rows[k2] = a3 /\ rows[k3] = a4

\* of four,
LEMMA RowsFour ==
    ASSUME NEW rows, NEW p, p \in Nat, NEW a1, NEW a2, NEW a3, NEW a4,
           NEW S, S = <<a1, a2, a3, a4>>, Has(rows, p, S), NEW k, k = p + Len(S)
    PROVE  FourAt(rows, p, k, a1, a2, a3, a4)
<1>1. PICK k1, k2, k3, k4 : k1 = p + 1 /\ k2 = k1 + 1 /\ k3 = k2 + 1 /\ k4 = k3 + 1 /\ k4 = p + 4
    OBVIOUS
<1>2. rows[p] = a1 /\ rows[p + 1] = a2 /\ rows[p + 2] = a3 /\ rows[p + 3] = a4 /\ Len(S) = 4
    BY HasFour
<1>3. k = k4 /\ k2 = p + 2 /\ k3 = p + 3  BY <1>1, <1>2
<1>4. rows[p] = a1 /\ rows[k1] = a2 /\ rows[k2] = a3 /\ rows[k3] = a4  BY <1>1, <1>2, <1>3
<1> QED BY <1>1, <1>3, <1>4 DEF FourAt

FiveAt(rows, p, k, a1, a2, a3, a4, a5) ==
    \E k1, k2, k3, k4, k5 :
               /\ k1 = p + 1 /\ k2 = k1 + 1 /\ k3 = k2 + 1 /\ k4 = k3 + 1 /\ k5 = k4 + 1 /\ k5 = p + 5 /\ k = k5
               /\ rows[p] = a1 /\ rows[k1] = a2 /\ rows[k2] = a3 /\ rows[k3] = a4 /\ rows[k4] = a5

\* of five
LEMMA RowsFive ==
    ASSUME NEW rows, NEW p, p \in Nat, NEW a1, NEW a2, NEW a3, NEW a4, NEW a5,
           NEW S, S = <<a1, a2, a3, a4, a5>>, Has(rows, p, S), NEW k, k = p + Len(S)
    PROVE  FiveAt(rows, p, k, a1, a2, a3, a4, a5)
<1>1. PICK k1, k2, k3, k4, k5 : k1 = p + 1 /\ k2 = k1 + 1 /\ k3 = k2 + 1 /\ k4 = k3 + 1 /\ k5 = k4 + 1 /\ k5 = p + 5
    OBVIOUS
<1>2. rows[p] = a1 /\ rows[p + 1] = a2 /\ rows[p + 2] = a3 /\ rows[p + 3] = a4 /\ rows[p + 4] = a5 /\ Len(S) = 5
    BY HasFive
<1>3. k = k5 /\ k2 = p + 2 /\ k3 = p + 3 /\ k4 = p + 4  BY <1>1, <1>2
<1>4. rows[p] = a1 /\ rows[k1] = a2 /\ rows[k2] = a3 /\ rows[k3] = a4 /\ rows[k4] = a5
    BY <1>1, <1>2, <1>3
<1> QED BY <1>1, <1>3, <1>4 DEF FiveAt

NineAt(rows, p, k, a1, a2, a3, a4, a5, a6, a7, a8, a9) ==
    \E k1, k2, k3, k4, k5, k6, k7, k8, k9 :
               /\ k1 = p + 1 /\ k2 = k1 + 1 /\ k3 = k2 + 1 /\ k4 = k3 + 1 /\ k5 = k4 + 1 /\ k6 = k5 + 1 /\ k7 = k6 + 1 /\ k8 = k7 + 1 /\ k9 = k8 + 1 /\ k9 = p + 9 /\ k = k9
               /\ rows[p] = a1 /\ rows[k1] = a2 /\ rows[k2] = a3 /\ rows[k3] = a4 /\ rows[k4] = a5 /\ rows[k5] = a6 /\ rows[k6] = a7 /\ rows[k7] = a8 /\ rows[k8] = a9

\* and of nine.
LEMMA RowsNine ==
    ASSUME NEW rows, NEW p, p \in Nat, NEW a1, NEW a2, NEW a3, NEW a4, NEW a5, NEW a6, NEW a7,
           NEW a8, NEW a9,
           NEW S, S = <<a1, a2, a3, a4, a5, a6, a7, a8, a9>>, Has(rows, p, S), NEW k, k = p + Len(S)
    PROVE  NineAt(rows, p, k, a1, a2, a3, a4, a5, a6, a7, a8, a9)
<1>1. PICK k1, k2, k3, k4, k5, k6, k7, k8, k9 : k1 = p + 1 /\ k2 = k1 + 1 /\ k3 = k2 + 1 /\ k4 = k3 + 1 /\ k5 = k4 + 1 /\ k6 = k5 + 1 /\ k7 = k6 + 1 /\ k8 = k7 + 1 /\ k9 = k8 + 1 /\ k9 = p + 9
    OBVIOUS
<1>2. rows[p] = a1 /\ rows[p + 1] = a2 /\ rows[p + 2] = a3 /\ rows[p + 3] = a4 /\ rows[p + 4] = a5 /\ rows[p + 5] = a6 /\ rows[p + 6] = a7 /\ rows[p + 7] = a8 /\ rows[p + 8] = a9 /\ Len(S) = 9
    BY HasNine
<1>3. k = k9 /\ k2 = p + 2 /\ k3 = p + 3 /\ k4 = p + 4 /\ k5 = p + 5 /\ k6 = p + 6 /\ k7 = p + 7 /\ k8 = p + 8
    BY <1>1, <1>2
<1>4. rows[p] = a1 /\ rows[k1] = a2 /\ rows[k2] = a3 /\ rows[k3] = a4 /\ rows[k4] = a5 /\ rows[k5] = a6 /\ rows[k6] = a7 /\ rows[k7] = a8 /\ rows[k8] = a9
    BY <1>1, <1>2, <1>3
<1> QED BY <1>1, <1>3, <1>4 DEF NineAt

\* The last part of a concatenation that starts at row 1.
LEMMA Peel ==
    ASSUME NEW t, NEW u, IsSequence(t), IsSequence(u), NEW x, x = t \o u,
           NEW rows, Has(rows, 1, x), NEW k, k = 1 + Len(t)
    PROVE  /\ Has(rows, 1, t) /\ Has(rows, k, u) /\ k \in Nat
<1>1. /\ Len(t) \in Nat
      /\ \A r : \A p \in Nat : Has(r, p, t \o u) => Has(r, p, t) /\ Has(r, p + Len(t), u)
    BY HasJoin
<1>2. Has(rows, 1, t) /\ Has(rows, 1 + Len(t), u)  BY <1>1
<1> QED BY <1>1, <1>2

\* The join of two sequences.
LEMMA JoinIs ==
    ASSUME NEW t, NEW u, IsSequence(t), IsSequence(u), NEW x, x = t \o u
    PROVE  IsSequence(x) /\ Len(x) = Len(t) + Len(u) /\ Len(t) \in Nat /\ Len(u) \in Nat
<1> QED BY HasJoin

\* Where the parts of the rows are.
Layout(rows, k, address, test, hot, cold, branch, mid, jump) ==
    \E p, o, i, j :
        /\ p = 6 + Len(test) /\ o = 7 + Len(test) /\ i = k + 1 /\ j = i + Len(cold) /\ k = o + Len(hot)
        /\ p \in Nat /\ o \in Nat /\ k \in Nat /\ i \in Nat /\ j \in Nat
        /\ Has(rows, 1, address) /\ Has(rows, 6, test) /\ rows[p] = branch
        /\ Has(rows, o, hot) /\ rows[k] = mid /\ Has(rows, i, cold) /\ rows[j] = jump

\* Where the parts of an access with a cold block lie,
LEMMA ColdLayout ==
    ASSUME NEW address, NEW test, NEW hot, NEW cold, NEW branch, NEW mid, NEW jump,
           IsSequence(address), IsSequence(test), IsSequence(hot), IsSequence(cold),
           Len(address) = 5, NEW k, k = Len(address) + Len(test) + 1 + Len(hot) + 1,
           NEW rows, rows = address \o test \o <<branch>> \o hot \o <<mid>> \o cold \o <<jump>>
    PROVE  Layout(rows, k, address, test, hot, cold, branch, mid, jump)
<1>0. PICK p, o, i, j : p = 6 + Len(test) /\ o = 7 + Len(test) /\ i = k + 1 /\ j = i + Len(cold)
    OBVIOUS
<1>1. PICK x1, x2, x3, x4, x5 :
          /\ x1 = address \o test /\ x2 = x1 \o <<branch>> /\ x3 = x2 \o hot /\ x4 = x3 \o <<mid>>
          /\ x5 = x4 \o cold
    OBVIOUS
<1>2. PICK y1, y2, y3 : y1 = <<branch>> /\ y2 = <<mid>> /\ y3 = <<jump>>  OBVIOUS
<1>3. /\ IsSequence(y1) /\ IsSequence(y2) /\ IsSequence(y3) /\ Len(y1) = 1 /\ Len(y2) = 1 /\ Len(y3) = 1
      /\ \A r : \A u \in Nat : /\ Has(r, u, y1) => r[u] = branch
                               /\ Has(r, u, y2) => r[u] = mid
                               /\ Has(r, u, y3) => r[u] = jump
    BY <1>2, HasOne
<1>4. x2 = x1 \o y1 /\ x4 = x3 \o y2 /\ rows = x5 \o y3  BY <1>1, <1>2
<1>5. IsSequence(x1) /\ Len(x1) = Len(address) + Len(test) /\ Len(address) \in Nat /\ Len(test) \in Nat
    BY <1>1, JoinIs, Zenon
<1>6. IsSequence(x2) /\ Len(x2) = Len(x1) + Len(y1) /\ Len(x1) \in Nat
    BY <1>3, <1>4, <1>5, JoinIs, Zenon
<1>7. IsSequence(x3) /\ Len(x3) = Len(x2) + Len(hot) /\ Len(x2) \in Nat /\ Len(hot) \in Nat
    BY <1>1, <1>6, JoinIs, Zenon
<1>8. IsSequence(x4) /\ Len(x4) = Len(x3) + Len(y2) /\ Len(x3) \in Nat
    BY <1>3, <1>4, <1>7, JoinIs, Zenon
<1>9. IsSequence(x5) /\ Len(x5) = Len(x4) + Len(cold) /\ Len(x4) \in Nat /\ Len(cold) \in Nat
    BY <1>1, <1>8, JoinIs, Zenon
<1>10. IsSequence(rows)  BY <1>3, <1>4, <1>9, JoinIs, Zenon
<1>11. /\ Len(x1) = 5 + Len(test) /\ Len(x2) = 6 + Len(test) /\ Len(x3) = (6 + Len(test)) + Len(hot)
       /\ Len(x4) = k /\ Len(x5) = k + Len(cold) /\ k \in Nat
    BY <1>3, <1>5, <1>6, <1>7, <1>8, <1>9
<1>12. /\ 6 = 1 + Len(address) /\ p = 1 + Len(x1) /\ o = 1 + Len(x2)
       /\ k = 1 + Len(x3) /\ i = 1 + Len(x4) /\ j = 1 + Len(x5)
       /\ o + Len(hot) = k /\ p \in Nat /\ o \in Nat /\ i \in Nat /\ j \in Nat
    BY <1>0, <1>5, <1>7, <1>9, <1>11
<1>13. Has(rows, 1, rows)  BY <1>10, HasSelf
<1>14. Has(rows, 1, x5) /\ Has(rows, j, y3)  BY <1>3, <1>4, <1>9, <1>12, <1>13, Peel, Zenon
<1>15. Has(rows, 1, x4) /\ Has(rows, i, cold)
  <2>1. x5 = x4 \o cold /\ i = 1 + Len(x4)  BY <1>1, <1>12
  <2> QED BY <1>7, <1>8, <1>14, <2>1, Peel, Zenon
<1>16. Has(rows, 1, x3) /\ Has(rows, k, y2)
  <2>1. x4 = x3 \o y2 /\ k = 1 + Len(x3) /\ IsSequence(y2)  BY <1>3, <1>4, <1>12
  <2> QED BY <1>7, <1>15, <2>1, Peel, Zenon
<1>17. Has(rows, 1, x2) /\ Has(rows, o, hot)
  <2>1. x3 = x2 \o hot /\ o = 1 + Len(x2) /\ IsSequence(x2)  BY <1>1, <1>6, <1>12
  <2> QED BY <1>16, <2>1, Peel, Zenon
<1>18. Has(rows, 1, x1) /\ Has(rows, p, y1)
  <2>1. x2 = x1 \o y1 /\ p = 1 + Len(x1) /\ IsSequence(y1)  BY <1>3, <1>4, <1>12
  <2> QED BY <1>5, <1>17, <2>1, Peel, Zenon
<1>19. Has(rows, 1, address) /\ Has(rows, 6, test)  BY <1>1, <1>12, <1>18, Peel, Zenon
<1>20. rows[p] = branch /\ rows[k] = mid /\ rows[j] = jump
    BY <1>3, <1>11, <1>12, <1>14, <1>16, <1>18
<1>21. k = o + Len(hot)  BY <1>12
<1> QED BY <1>0, <1>11, <1>12, <1>15, <1>17, <1>19, <1>20, <1>21, Zenon DEF Layout

\* and of one without.
Straight(rows, address, hot, mid) ==
    Has(rows, 1, address) /\ Has(rows, 6, hot) /\ rows[6 + Len(hot)] = mid

LEMMA HotLayout ==
    ASSUME NEW address, NEW hot, NEW mid, IsSequence(address), IsSequence(hot), Len(address) = 5,
           NEW rows, rows = address \o hot \o <<mid>>
    PROVE  Straight(rows, address, hot, mid)
<1>1. PICK x1, y1 : x1 = address \o hot /\ y1 = <<mid>>  OBVIOUS
<1>2. /\ IsSequence(y1) /\ Len(y1) = 1 /\ rows = x1 \o y1
      /\ \A r : \A p \in Nat : Has(r, p, y1) => r[p] = mid
    BY <1>1, HasOne
<1>3. IsSequence(x1) /\ Len(x1) = Len(address) + Len(hot) /\ Len(hot) \in Nat
    BY <1>1, JoinIs, Zenon
<1>4. IsSequence(rows)  BY <1>2, <1>3, JoinIs, Zenon
<1>5. 6 = 1 + Len(address) /\ 6 + Len(hot) = 1 + Len(x1)  BY <1>3
<1>6. Has(rows, 1, rows)  BY <1>4, HasSelf
<1>7. Has(rows, 1, x1) /\ Has(rows, 6 + Len(hot), y1) /\ 6 + Len(hot) \in Nat
    BY <1>2, <1>3, <1>5, <1>6, Peel, Zenon
<1>8. Has(rows, 1, address) /\ Has(rows, 6, hot)  BY <1>1, <1>5, <1>7, Peel, Zenon
<1> QED BY <1>2, <1>7, <1>8 DEF Straight

\* Two sequences, one after the other, up to row n.
Consecutive(rows, p, t, u, n) ==
    \E k : /\ k \in Nat /\ k = p + Len(t) /\ n = k + Len(u) /\ n \in Nat
           /\ Has(rows, p, t) /\ Has(rows, k, u)

\* Two sequences placed one after the other.
LEMMA Consecutively ==
    ASSUME NEW t, NEW u, IsSequence(t), IsSequence(u), NEW w, w = t \o u,
           NEW rows, NEW p, p \in Nat, Has(rows, p, w), NEW n, n = p + Len(w)
    PROVE  Consecutive(rows, p, t, u, n)
<1>1. /\ Len(t) \in Nat /\ Len(u) \in Nat /\ Len(w) = Len(t) + Len(u)
      /\ Has(rows, p, t) /\ Has(rows, p + Len(t), u)
    BY HasJoin
<1> QED BY <1>1 DEF Consecutive

\* The rows of a lane that crosses its cell.
Triple(rows, p, U, X, S, n) ==
    \E i, k : /\ i \in Nat /\ k \in Nat
              /\ i = p + Len(U) /\ k = i + Len(X) /\ n = k + Len(S)
              /\ Has(rows, p, U) /\ Has(rows, i, X) /\ Has(rows, k, S)

\* Three sequences, one after the other.
LEMMA Tripled ==
    ASSUME NEW rows, NEW p, p \in Nat, NEW U, IsSequence(U), NEW X, IsSequence(X), NEW S, IsSequence(S),
           NEW w, w = U \o X \o S, Has(rows, p, w), NEW n, n = p + Len(w)
    PROVE  Triple(rows, p, U, X, S, n)
<1>1. PICK V : V = U \o X  OBVIOUS
<1>2. w = V \o S  BY <1>1
<1>4. IsSequence(V)  BY <1>1, JoinIs, Zenon
<1>5. Consecutive(rows, p, V, S, n)  BY <1>2, <1>4, Consecutively, Zenon
<1>6. PICK k : k \in Nat /\ k = p + Len(V) /\ n = k + Len(S) /\ Has(rows, p, V) /\ Has(rows, k, S)
    BY <1>5, Zenon DEF Consecutive
<1>7. Consecutive(rows, p, U, X, k)  BY <1>1, <1>6, Consecutively, Zenon
<1>8. PICK i : i \in Nat /\ i = p + Len(U) /\ k = i + Len(X) /\ Has(rows, p, U) /\ Has(rows, i, X)
    BY <1>7, Zenon DEF Consecutive
<1> QED BY <1>6, <1>8, Zenon DEF Triple

\* One more byte d above m bytes.
Above(x, b, m, a, d) ==
    /\ x \in 0 .. 2^(b * (m + 1)) - 1
    /\ \A j \in Nat : j < m => Group(x, b, j) = Group(a, b, j)
    /\ Group(x, b, m) = d

\* A number with one more byte on top.
LEMMA ByteAbove ==
    ASSUME NEW b, b \in Nat, NEW m, m \in Nat, NEW a, a \in 0 .. 2^(b * m) - 1, NEW d,
           d \in 0 .. 2^b - 1,
           NEW x, x = a + d * 2^(b * m)
    PROVE  Above(x, b, m, a, d)
<1>1. PICK p, q, r : p = 2^(b * m) /\ q = 2^b /\ r = 2^(b * (m + 1))  OBVIOUS
<1>2. p \in Nat \ {0} /\ q \in Nat \ {0}
  <2>1. b * m \in Nat  OBVIOUS
  <2> QED BY <1>1, <2>1, PowerPositive
<1>3. r = p * q
  <2>1. PICK e \in Nat : e = b * m  OBVIOUS
  <2>2. b * (m + 1) = e + b  BY <2>1
  <2>3. 2^(e + b) = 2^e * 2^b  BY PowerSum
  <2> QED BY <1>1, <2>1, <2>2, <2>3
<1>4. a \in 0 .. p - 1 /\ d \in 0 .. q - 1 /\ x = a + d * p  BY <1>1
<1>5. d * p \in Nat /\ d * p <= (q - 1) * p /\ (q - 1) * p = p * q - p
  <2>1. (q - 1) * p = p * q - p  BY <1>2
  <2>2. (q - 1 - d) * p >= 0  BY <1>2, <1>4
  <2>3. (q - 1 - d) * p = (q - 1) * p - d * p  BY <1>2, <1>4
  <2>4. d * p \in Nat /\ (q - 1) * p \in Int  BY <1>2, <1>4
  <2> QED BY <2>1, <2>2, <2>3, <2>4
<1>6. x \in 0 .. r - 1
  <2>1. p * q \in Nat  BY <1>2
  <2> QED BY <1>2, <1>3, <1>4, <1>5, <2>1
<1>7. Joins(x, b, m, d, a)
  <2>1. a < p /\ x = d * p + a  BY <1>2, <1>4, <1>5
  <2> QED BY <1>1, <2>1, Zenon DEF Joins
<1>8. Beside(x, b, m, d, a)
  <2>1. x \in Nat /\ d \in Nat /\ a \in Nat  BY <1>2, <1>3, <1>4, <1>6
  <2> QED BY <1>7, <2>1, JoinsGroups, Zenon
<1>9. \A j \in Nat : j < m => Group(x, b, j) = Group(a, b, j)  BY <1>8, Zenon DEF Beside
<1>10. Group(x, b, m) = d
  <2>1. ~(m < m) /\ m - m = 0  OBVIOUS
  <2>2. Group(x, b, m) = Group(d, b, 0)  BY <1>8, <2>1, Zenon DEF Beside
  <2>3. b * 0 = 0 /\ 2^0 = 1
    <3>1. 2^0 = 1  BY Zeroth
    <3> QED BY <3>1
  <2>4. d \div 1 = d /\ d % q = d
    <3>1. d \div 1 = d  BY <1>2, <1>4
    <3> QED BY <1>2, <1>4, <3>1, RemainderSmall
  <2>5. Group(d, b, 0) = (d \div 2^0) % q  BY <1>1, <2>3, Zenon DEF Group
  <2> QED BY <2>2, <2>3, <2>4, <2>5, Zenon
<1> QED BY <1>1, <1>6, <1>9, <1>10, Zenon DEF Above

\* Four bytes.
Four(x, b, d0, d1, d2, d3) ==
    /\ x \in 0 .. 2^(b * 4) - 1
    /\ Group(x, b, 0) = d0 /\ Group(x, b, 1) = d1 /\ Group(x, b, 2) = d2 /\ Group(x, b, 3) = d3

\* The digits of four bytes.
LEMMA FourBytes ==
    ASSUME NEW b, b \in Nat, NEW d0, d0 \in 0 .. 2^b - 1, NEW d1, d1 \in 0 .. 2^b - 1,
           NEW d2, d2 \in 0 .. 2^b - 1, NEW d3, d3 \in 0 .. 2^b - 1,
           NEW x, x = d0 * 2^(b * 0) + d1 * 2^(b * 1) + d2 * 2^(b * 2) + d3 * 2^(b * 3)
    PROVE  Four(x, b, d0, d1, d2, d3)
<1>1. PICK p0, p1, p2, p3 : p0 = 2^(b * 0) /\ p1 = 2^(b * 1) /\ p2 = 2^(b * 2) /\ p3 = 2^(b * 3)
    OBVIOUS
<1>2. p0 \in Nat /\ p1 \in Nat /\ p2 \in Nat /\ p3 \in Nat /\ p0 = 1
  <2>1. b * 0 = 0 /\ b * 1 \in Nat /\ b * 2 \in Nat /\ b * 3 \in Nat  OBVIOUS
  <2> QED BY <1>1, <2>1, PowerPositive, Zeroth
<1>3. PICK w0, w1, w2, w3 : /\ w0 = 0 + d0 * p0 /\ w1 = w0 + d1 * p1 /\ w2 = w1 + d2 * p2 /\ w3 = w2 + d3 * p3
    OBVIOUS
<1>4. x = w3
  <2>1. PICK y0, y1, y2, y3 : y0 = d0 * p0 /\ y1 = d1 * p1 /\ y2 = d2 * p2 /\ y3 = d3 * p3  OBVIOUS
  <2>2. x = y0 + y1 + y2 + y3  BY <1>1, <2>1, Zenon
  <2>3. 2^b \in Nat  BY PowerPositive
  <2>4. y0 \in Nat /\ y1 \in Nat /\ y2 \in Nat /\ y3 \in Nat  BY <1>2, <2>1, <2>3
  <2>5. w0 = 0 + y0 /\ w1 = w0 + y1 /\ w2 = w1 + y2 /\ w3 = w2 + y3  BY <1>3, <2>1, Zenon
  <2> QED BY <2>2, <2>4, <2>5
<1>5. 0 \in Nat /\ 1 \in Nat /\ 2 \in Nat /\ 3 \in Nat /\ 0 + 1 = 1 /\ 1 + 1 = 2 /\ 2 + 1 = 3 /\ 3 + 1 = 4
    OBVIOUS
<1>6. Above(w0, b, 0, 0, d0)
  <2>1. 0 \in 0 .. 2^(b * 0) - 1  BY <1>1, <1>2
  <2> QED BY <1>1, <1>3, <1>5, <2>1, ByteAbove, Zenon
<1>7. Above(w1, b, 1, w0, d1)
  <2>1. w0 \in 0 .. 2^(b * 1) - 1  BY <1>5, <1>6, Zenon DEF Above
  <2> QED BY <1>1, <1>3, <1>5, <2>1, ByteAbove, Zenon
<1>8. Above(w2, b, 2, w1, d2)
  <2>1. w1 \in 0 .. 2^(b * 2) - 1  BY <1>5, <1>7, Zenon DEF Above
  <2> QED BY <1>1, <1>3, <1>5, <2>1, ByteAbove, Zenon
<1>9. Above(w3, b, 3, w2, d3)
  <2>1. w2 \in 0 .. 2^(b * 3) - 1  BY <1>5, <1>8, Zenon DEF Above
  <2> QED BY <1>1, <1>3, <1>5, <2>1, ByteAbove, Zenon
<1>10. w3 \in 0 .. 2^(b * 4) - 1  BY <1>5, <1>9, Zenon DEF Above
<1>11. 0 < 1 /\ 0 < 2 /\ 0 < 3 /\ 1 < 2 /\ 1 < 3 /\ 2 < 3  OBVIOUS
<1>12. Group(w3, b, 3) = d3 /\ \A j \in Nat : j < 3 => Group(w3, b, j) = Group(w2, b, j)
    BY <1>9, Zenon DEF Above
<1>13. Group(w2, b, 2) = d2 /\ \A j \in Nat : j < 2 => Group(w2, b, j) = Group(w1, b, j)
    BY <1>8, Zenon DEF Above
<1>14. Group(w1, b, 1) = d1 /\ \A j \in Nat : j < 1 => Group(w1, b, j) = Group(w0, b, j)
    BY <1>7, Zenon DEF Above
<1>15. Group(w0, b, 0) = d0  BY <1>6, Zenon DEF Above
<1>16. Group(w3, b, 2) = d2  BY <1>5, <1>11, <1>12, <1>13, Zenon
<1>17. Group(w3, b, 1) = d1
  <2>1. Group(w3, b, 1) = Group(w2, b, 1)  BY <1>5, <1>11, <1>12, Zenon
  <2>2. Group(w2, b, 1) = Group(w1, b, 1)  BY <1>5, <1>11, <1>13, Zenon
  <2> QED BY <1>14, <2>1, <2>2, Zenon
<1>18. Group(w3, b, 0) = d0
  <2>1. Group(w3, b, 0) = Group(w2, b, 0)  BY <1>5, <1>11, <1>12, Zenon
  <2>2. Group(w2, b, 0) = Group(w1, b, 0)  BY <1>5, <1>11, <1>13, Zenon
  <2>3. Group(w1, b, 0) = Group(w0, b, 0)  BY <1>5, <1>11, <1>14, Zenon
  <2> QED BY <1>15, <2>1, <2>2, <2>3, Zenon
<1> QED BY <1>4, <1>10, <1>12, <1>16, <1>17, <1>18, Zenon DEF Four
=============================================================================
