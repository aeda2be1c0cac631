----------------------- MODULE BatchedSumcheck_proofs -----------------------
(***************************************************************************)
(* Proofs about BatchedSumcheck, for every batch, field, forged proof and  *)
(* schedule (first the facts about the field, the sums, the polynomials    *)
(* and the tables of Poly, over every prime and data of every length):     *)
(*   - each member is given exactly the challenges of its window, in order;*)
(*   - the verifier of an honest proof draws the prover's challenges and   *)
(*     refuses none of its rounds;                                         *)
(*   - the running claim is the combination of the members' claims after   *)
(*     every round (ClaimsInv);                                            *)
(*   - the type invariant, and that it holds of every proof, forged or not *)
(*     (TypeInv);                                                          *)
(*   - an honest batch reduces to the sum of its members' values at the    *)
(*     challenges (Reckoned for the verifier's sum, HonestInv for the      *)
(*     members' tables);                                                   *)
(*   - a proved batch leaves each member at its polynomial's value at its  *)
(*     slice of the challenges (ValuesInv);                                *)
(*   - whatever proof is sent, a wrong claim survives a round for at most  *)
(*     as many challenges as the degree bound (ForgedInv).                 *)
(***************************************************************************)
EXTENDS BatchedSumcheck, Numbers_proofs, SequenceTheorems

-----------------------------------------------------------------------------
(* The field *)

LEMMA Characteristic == P \in Int /\ P > 2
BY PAssumption

LEMMA Fields == 0 \in Field /\ 1 \in Field /\ \A r \in Field : r \in Int /\ 0 <= r /\ r < P
BY Characteristic DEF Field

LEMMA Division ==
    \A a \in Int : a % P \in Field /\ a \div P \in Int /\ a = P * (a \div P) + (a % P)
BY Characteristic DEF Field

LEMMA Residue ==
    ASSUME NEW a \in Int, NEW q \in Int, NEW r \in Field, a = P * q + r
    PROVE  a % P = r
<1> DEFINE m == a % P
           e == a \div P
           d == q - e
<1>1. /\ r \in Int /\ 0 <= r /\ r < P /\ P \in Int /\ P > 2
      /\ m \in Int /\ 0 <= m /\ m < P /\ e \in Int /\ a = P * e + m
    BY Division, Fields, Characteristic
<1> HIDE DEF m, e
<1>2. d \in Int /\ P * d = m - r  BY <1>1
<1> HIDE DEF d
<1>3. P * d < P /\ P * d > 0 - P  BY <1>1, <1>2
<1>4. CASE d >= 1  BY <1>1, <1>2, <1>4, <1>3
<1>5. CASE d <= -1  BY <1>1, <1>2, <1>5, <1>3
<1>6. CASE d = 0  BY <1>1, <1>2, <1>6 DEF m
<1> QED BY <1>2, <1>4, <1>5, <1>6

LEMMA InField == \A r \in Field : r % P = r
<1> SUFFICES ASSUME NEW r \in Field PROVE r % P = r
    OBVIOUS
<1>1. r \in Int /\ r = P * 0 + r  BY Fields, Characteristic
<1> QED BY <1>1, Residue

\* Equal in the field.
Equal(a, b) == a % P = b % P

LEMMA EqualByMultiple ==
    ASSUME NEW a \in Int, NEW b \in Int, NEW q \in Int, a = b + P * q
    PROVE  Equal(a, b)
<1>1. b % P \in Field /\ b \div P \in Int /\ b = P * (b \div P) + (b % P)  BY Division
<1>2. a = P * ((b \div P) + q) + (b % P)  BY <1>1, Characteristic, Fields
<1> QED BY <1>1, <1>2, Residue DEF Equal

LEMMA MultipleByEqual ==
    ASSUME NEW a \in Int, NEW b \in Int, Equal(a, b)
    PROVE  \E q \in Int : a = b + P * q
<1>1. /\ a \div P \in Int /\ a = P * (a \div P) + (a % P) /\ a % P \in Int
      /\ b \div P \in Int /\ b = P * (b \div P) + (b % P) /\ b % P \in Int
    BY Division, Fields
<1>2. (a \div P) - (b \div P) \in Int /\ a = b + P * ((a \div P) - (b \div P))
    BY <1>1, Characteristic DEF Equal
<1> QED BY <1>2

LEMMA EqualReduced == \A a \in Int : Equal(a % P, a) /\ Equal(a, a % P)
<1> SUFFICES ASSUME NEW a \in Int PROVE Equal(a % P, a) /\ Equal(a, a % P)
    OBVIOUS
<1>1. a % P \in Field  BY Division
<1> QED BY <1>1, InField DEF Equal

LEMMA EqualSum ==
    ASSUME NEW a \in Int, NEW b \in Int, NEW c \in Int, NEW d \in Int, Equal(a, c), Equal(b, d)
    PROVE  Equal(a + b, c + d)
<1>1. PICK q \in Int : a = c + P * q  BY MultipleByEqual
<1>2. PICK s \in Int : b = d + P * s  BY MultipleByEqual
<1>3. a + b \in Int /\ c + d \in Int /\ q + s \in Int /\ a + b = c + d + P * (q + s)
    BY <1>1, <1>2, Characteristic
<1> QED BY <1>3, EqualByMultiple

LEMMA EqualProduct ==
    ASSUME NEW a \in Int, NEW b \in Int, NEW c \in Int, NEW d \in Int, Equal(a, c), Equal(b, d)
    PROVE  Equal(a * b, c * d)
<1>1. PICK q \in Int : a = c + P * q  BY MultipleByEqual
<1>2. PICK s \in Int : b = d + P * s  BY MultipleByEqual
<1> DEFINE t == c * s + q * d + P * q * s
<1>3. a * b \in Int /\ c * d \in Int /\ t \in Int /\ a * b = c * d + P * t
    BY <1>1, <1>2, Characteristic
<1> QED BY <1>3, EqualByMultiple

LEMMA EqualInField ==
    ASSUME NEW a \in Field, NEW b \in Field, Equal(a, b)
    PROVE  a = b
BY InField DEF Equal

-----------------------------------------------------------------------------
(* Folds *)

LEMMA Greatest ==
    ASSUME NEW n \in Nat, NEW K, K \subseteq 1 .. n, K # {}
    PROVE  Max(K) \in K /\ \A k \in K : k <= Max(K)
<1> DEFINE T == {n - k : k \in K}
<1>1. T \subseteq Nat /\ T # {}
  <2>1. \A k \in K : n - k \in Nat  OBVIOUS
  <2>2. \A t \in T : t \in Nat  BY <2>1
  <2> QED BY <2>2
<1>2. PICK t \in T : \A y \in T : ~(y < t)
  <2> HIDE DEF T
  <2> QED BY <1>1, Least
<1>3. PICK m \in K : t = n - m  BY DEF T
<1>4. \A k \in K : ~(n - k < n - m)  BY <1>2, <1>3
<1>5. \A k \in K : k \in Int
  <2> HIDE DEF T
  <2>1. 1 .. n \subseteq Int  OBVIOUS
  <2> QED BY <2>1
<1>6. m \in K /\ \A k \in K : m >= k  BY <1>3, <1>4, <1>5
<1>7. Max(K) \in K /\ \A k \in K : Max(K) >= k  BY <1>6, Zenon DEF Max
<1> QED BY <1>5, <1>7

LEMMA Smallest ==
    ASSUME NEW K, K \subseteq Nat, K # {}
    PROVE  Min(K) \in K /\ \A k \in K : Min(K) <= k
<1>1. PICK m \in K : \A k \in K : ~(k < m)  BY Least
<1>2. m \in K /\ \A k \in K : m <= k  BY <1>1
<1> QED BY <1>2, Zenon DEF Min

Iterates(f, n, base, g, next) ==
    f = [S \in SUBSET (1 .. n) |->
           IF S = {} THEN base ELSE g[<<f[S \ {next[S]}], next[S]>>]]

\* A fold over the indexes 1 .. n, in whatever order it takes them, is a
\* function: the iteration's recursive equation has a solution.
LEMMA Iteration ==
    ASSUME NEW n \in Nat, NEW V, NEW base \in V, NEW g \in [V \X (1 .. n) -> V],
           NEW next, \A S \in SUBSET (1 .. n) : S # {} => next[S] \in S
    PROVE  \E f \in [SUBSET (1 .. n) -> V] : Iterates(f, n, base, g, next)
<1> DEFINE Small(m) == {S \in SUBSET (1 .. n) : Cardinality(S) <= m}
           Solves(f, m) == /\ f \in [Small(m) -> V]
                           /\ \A S \in Small(m) :
                                f[S] = IF S = {} THEN base ELSE g[<<f[S \ {next[S]}], next[S]>>]
           K == {m \in 0 .. n : \E f : Solves(f, m)}
<1>1. \A S \in SUBSET (1 .. n) : IsFiniteSet(S) /\ Cardinality(S) \in 0 .. n
  <2>1. IsFiniteSet(1 .. n) /\ Cardinality(1 .. n) = n  BY FS_Interval
  <2>2. ASSUME NEW S \in SUBSET (1 .. n) PROVE IsFiniteSet(S) /\ Cardinality(S) <= Cardinality(1 .. n)
      BY ONLY <2>1, FS_Subset, Zenon
  <2> QED BY <2>1, <2>2, FS_CardinalityType
<1>2. ASSUME NEW m \in 0 .. n, NEW S \in Small(m), S # {}
      PROVE  /\ next[S] \in S /\ next[S] \in 1 .. n
             /\ S \ {next[S]} \in SUBSET (1 .. n)
             /\ Cardinality(S \ {next[S]}) = Cardinality(S) - 1
    BY <1>2, <1>1, FS_RemoveElement
<1>3. 0 \in K
  <2> DEFINE f == [S \in Small(0) |-> base]
  <2>1. \A S \in Small(0) : S = {}  BY <1>1, FS_EmptySet
  <2>2. Solves(f, 0)  BY <2>1
  <2>3. \E h : Solves(h, 0)  BY <2>2
  <2> HIDE DEF Solves
  <2> QED BY <2>3
<1>4. ASSUME NEW m \in 0 .. n - 1, m \in K
      PROVE  m + 1 \in K
  <2>1. PICK f : Solves(f, m)  BY <1>4
  <2> DEFINE h == [S \in Small(m + 1) |->
                      IF S = {} THEN base ELSE g[<<f[S \ {next[S]}], next[S]>>]]
  <2>2. m + 1 \in 0 .. n  OBVIOUS
  <2>3. ASSUME NEW S \in Small(m + 1), S # {}
        PROVE  S \ {next[S]} \in Small(m) /\ next[S] \in 1 .. n
      BY <1>1, <1>2, <2>2, <2>3
  <2>4. ASSUME NEW S \in Small(m) PROVE S \in Small(m + 1) /\ h[S] = f[S]
    <3>1. S \in Small(m + 1)  BY <1>1
    <3> QED BY <2>1, <3>1
  <2>5. h \in [Small(m + 1) -> V]
    <3> HIDE DEF Small
    <3>1. ASSUME NEW S \in Small(m + 1), S # {} PROVE g[<<f[S \ {next[S]}], next[S]>>] \in V
        BY <2>1, <2>3, <3>1
    <3> QED BY <3>1
  <2>6. ASSUME NEW S \in Small(m + 1)
        PROVE  h[S] = IF S = {} THEN base ELSE g[<<h[S \ {next[S]}], next[S]>>]
    <3> HIDE DEF Small
    <3>1. CASE S = {}  BY <3>1
    <3>2. CASE S # {}  BY <2>3, <2>4, <3>2
    <3> QED BY <3>1, <3>2
  <2> QED BY <2>2, <2>5, <2>6
<1>5. n \in K
  <2> HIDE DEF K
  <2>1. 0 .. n \subseteq K  BY <1>3, <1>4, Inductive
  <2> QED BY <2>1
<1>6. PICK f : Solves(f, n)  BY <1>5
<1>7. Small(n) = SUBSET (1 .. n)  BY <1>1
<1>8. /\ f \in [SUBSET (1 .. n) -> V]
      /\ f = [S \in SUBSET (1 .. n) |->
                IF S = {} THEN base ELSE g[<<f[S \ {next[S]}], next[S]>>]]
    BY <1>6, <1>7
<1> QED BY <1>8 DEF Iterates

-----------------------------------------------------------------------------
(* Sums *)

\* The running totals of s.
Totals(s, n) ==
    CHOOSE T : /\ T \in [0 .. n -> Field] /\ T[0] = 0
               /\ \A k \in 1 .. n : T[k] = (T[k - 1] + s[k]) % P

LEMMA TotalSteps ==
    ASSUME NEW n \in Nat, NEW s \in [1 .. n -> Int]
    PROVE  /\ Totals(s, n) \in [0 .. n -> Field] /\ Totals(s, n)[0] = 0
           /\ \A k \in 1 .. n : Totals(s, n)[k] = (Totals(s, n)[k - 1] + s[k]) % P
           /\ Total(s) = Totals(s, n)[n]
<1> DEFINE g == [p \in Field \X (1 .. n) |-> (p[1] + s[p[2]]) % P]
           next == [S \in SUBSET (1 .. n) |-> Max(S)]
           F == CHOOSE f : f = [S \in SUBSET (1 .. n) |->
                      IF S = {} THEN 0 ELSE (f[S \ {Max(S)}] + s[Max(S)]) % P]
           T == [k \in 0 .. n |-> F[1 .. k]]
<1>1. Total(s) = F[1 .. n]  BY DEF Total, FoldLeft, MapThenFoldSet
<1>2. ASSUME NEW S \in SUBSET (1 .. n), S # {}
      PROVE  Max(S) \in S /\ Max(S) \in 1 .. n /\ \A k \in S : k <= Max(S)
    BY <1>2, Greatest
<1>3. g \in [Field \X (1 .. n) -> Field]
  <2>1. \A p \in Field \X (1 .. n) : p[1] + s[p[2]] \in Int  BY Fields
  <2> QED BY <2>1, Division
<1>4. \A S \in SUBSET (1 .. n) : S # {} => next[S] \in S  BY <1>2
<1>5. \E f : f = [S \in SUBSET (1 .. n) |->
                    IF S = {} THEN 0 ELSE (f[S \ {Max(S)}] + s[Max(S)]) % P]
  <2>1. PICK f \in [SUBSET (1 .. n) -> Field] : Iterates(f, n, 0, g, next)
    <3> HIDE DEF g, next
    <3>1. 0 \in Field  BY Fields
    <3> QED BY <1>3, <1>4, <3>1, Iteration
  <2>2. ASSUME NEW S \in SUBSET (1 .. n), S # {}
        PROVE  g[<<f[S \ {next[S]}], next[S]>>] = (f[S \ {Max(S)}] + s[Max(S)]) % P
    <3>1. next[S] = Max(S) /\ Max(S) \in 1 .. n /\ f[S \ {Max(S)}] \in Field  BY <1>2, <2>2
    <3> HIDE DEF next
    <3> QED BY <3>1
  <2>3. f = [S \in SUBSET (1 .. n) |->
               IF S = {} THEN 0 ELSE (f[S \ {Max(S)}] + s[Max(S)]) % P]
    <3> HIDE DEF g, next
    <3> QED BY <2>1, <2>2 DEF Iterates
  <2> QED BY <2>3, Zenon
<1>6. F = [S \in SUBSET (1 .. n) |->
             IF S = {} THEN 0 ELSE (F[S \ {Max(S)}] + s[Max(S)]) % P]
    BY <1>5, Zenon
<1> HIDE DEF F, g, next
<1>7. T[0] = 0  BY <1>6
<1>8. ASSUME NEW k \in 1 .. n
      PROVE  T[k] = (T[k - 1] + s[k]) % P
  <2>1. 1 .. k \in SUBSET (1 .. n) /\ 1 .. k # {} /\ k \in 1 .. k  OBVIOUS
  <2>2. Max(1 .. k) = k
    <3>1. Max(1 .. k) \in 1 .. k /\ k <= Max(1 .. k)  BY <1>2, <2>1
    <3> QED BY <3>1
  <2>3. (1 .. k) \ {k} = 1 .. k - 1  OBVIOUS
  <2>4. F[1 .. k] = (F[1 .. k - 1] + s[k]) % P  BY <1>6, <2>1, <2>2, <2>3
  <2> QED BY <2>4
<1>9. T \in [0 .. n -> Field]
  <2>0. DOMAIN T = 0 .. n /\ T = [k \in 0 .. n |-> T[k]]  OBVIOUS
  <2> HIDE DEF T
  <2> DEFINE K == {k \in 0 .. n : T[k] \in Field}
  <2>1. 0 \in K  BY <1>7, Fields
  <2>2. ASSUME NEW k \in 0 .. n - 1, k \in K PROVE k + 1 \in K
    <3>1. k + 1 \in 1 .. n /\ k + 1 - 1 = k /\ T[k] \in Int /\ s[k + 1] \in Int  BY <2>2, Fields
    <3>2. T[k + 1] = (T[k] + s[k + 1]) % P /\ T[k] + s[k + 1] \in Int  BY <1>8, <3>1
    <3>3. T[k + 1] \in Field  BY <3>2, Division
    <3>4. k + 1 \in 0 .. n  BY <3>1
    <3> QED BY <3>3, <3>4
  <2>3. 0 .. n \subseteq K
    <3> HIDE DEF K
    <3> QED BY <2>1, <2>2, Inductive
  <2> QED BY <2>0, <2>3
<1>10. Total(s) = T[n]  BY <1>1
<1> HIDE DEF T
<1>11. \E R : /\ R \in [0 .. n -> Field] /\ R[0] = 0
               /\ \A k \in 1 .. n : R[k] = (R[k - 1] + s[k]) % P
    BY <1>7, <1>8, <1>9, Zenon
<1> DEFINE R == Totals(s, n)
<1>12. /\ R \in [0 .. n -> Field] /\ R[0] = 0
       /\ \A k \in 1 .. n : R[k] = (R[k - 1] + s[k]) % P
    BY <1>11, Zenon DEF Totals
<1> HIDE DEF R
<1>13. R[n] = T[n]
  <2> DEFINE K == {k \in 0 .. n : R[k] = T[k]}
  <2>1. 0 \in K  BY <1>7, <1>12
  <2>2. ASSUME NEW k \in 0 .. n - 1, k \in K PROVE k + 1 \in K  BY <1>8, <1>12, <2>2
  <2>3. 0 .. n \subseteq K
    <3> HIDE DEF K
    <3> QED BY <2>1, <2>2, Inductive
  <2> QED BY <2>3
<1> QED BY <1>10, <1>12, <1>13 DEF R

LEMMA TotalBySteps ==
    ASSUME NEW n \in Nat, NEW s \in [1 .. n -> Int], NEW T, T[0] = 0,
           \A k \in 1 .. n : T[k] = (T[k - 1] + s[k]) % P
    PROVE  Total(s) = T[n]
<1> DEFINE R == Totals(s, n)
           K == {k \in 0 .. n : R[k] = T[k]}
<1>1. R[0] = 0 /\ Total(s) = R[n] /\ \A k \in 1 .. n : R[k] = (R[k - 1] + s[k]) % P  BY TotalSteps
<1> HIDE DEF R
<1>2. 0 \in K  BY <1>1
<1>3. ASSUME NEW k \in 0 .. n - 1, k \in K PROVE k + 1 \in K  BY <1>1, <1>3
<1>4. 0 .. n \subseteq K
  <2> HIDE DEF K
  <2> QED BY <1>2, <1>3, Inductive
<1> QED BY <1>1, <1>4

LEMMA TotalInField ==
    ASSUME NEW n \in Nat, NEW s \in [1 .. n -> Int]
    PROVE  Total(s) \in Field /\ Total(s) \in Int
BY TotalSteps, Fields

LEMMA LinearStep ==
    ASSUME NEW a \in Int, NEW b \in Int, NEW s \in Int, NEW t \in Int, NEW u \in Int,
           NEW S \in Int, NEW T \in Int, NEW U \in Int,
           Equal(u, a * s + b * t), Equal(U, a * S + b * T)
    PROVE  Equal((U + u) % P, a * ((S + s) % P) + b * ((T + t) % P))
<1> DEFINE S1 == (S + s) % P
           T1 == (T + t) % P
<1>1. S + s \in Int /\ T + t \in Int /\ U + u \in Int /\ a * s + b * t \in Int /\ a * S + b * T \in Int
    OBVIOUS
<1>2. S1 \in Int /\ T1 \in Int /\ Equal(S1, S + s) /\ Equal(T1, T + t)
    BY <1>1, EqualReduced, Division, Fields
<1>3. Equal((U + u) % P, U + u)  BY <1>1, EqualReduced
<1> HIDE DEF S1, T1
<1>4. Equal(U + u, a * S + b * T + (a * s + b * t))  BY <1>1, EqualSum
<1>5. Equal(a, a) /\ Equal(b, b)  BY DEF Equal
<1>6. Equal(a * S1, a * (S + s)) /\ Equal(b * T1, b * (T + t))  BY <1>1, <1>2, <1>5, EqualProduct
<1>7. a * S1 \in Int /\ b * T1 \in Int /\ a * (S + s) \in Int /\ b * (T + t) \in Int  BY <1>2
<1>8. Equal(a * S1 + b * T1, a * (S + s) + b * (T + t))  BY <1>6, <1>7, EqualSum
<1>9. a * (S + s) + b * (T + t) = a * S + b * T + (a * s + b * t)  OBVIOUS
<1> QED BY <1>3, <1>4, <1>8, <1>9 DEF Equal, S1, T1

\* A sum of multiples is the multiple of the sums.
LEMMA TotalLinear ==
    ASSUME NEW n \in Nat, NEW s \in [1 .. n -> Int], NEW t \in [1 .. n -> Int],
           NEW u \in [1 .. n -> Int], NEW a \in Int, NEW b \in Int,
           \A k \in 1 .. n : Equal(u[k], a * s[k] + b * t[k])
    PROVE  Total(u) = (a * Total(s) + b * Total(t)) % P
<1> DEFINE S == Totals(s, n)
           T == Totals(t, n)
           U == Totals(u, n)
           K == {k \in 0 .. n : Equal(U[k], a * S[k] + b * T[k])}
<1>1. /\ S \in [0 .. n -> Field] /\ S[0] = 0 /\ Total(s) = S[n]
      /\ \A k \in 1 .. n : S[k] = (S[k - 1] + s[k]) % P
    BY TotalSteps
<1>2. /\ T \in [0 .. n -> Field] /\ T[0] = 0 /\ Total(t) = T[n]
      /\ \A k \in 1 .. n : T[k] = (T[k - 1] + t[k]) % P
    BY TotalSteps
<1>3. /\ U \in [0 .. n -> Field] /\ U[0] = 0 /\ Total(u) = U[n]
      /\ \A k \in 1 .. n : U[k] = (U[k - 1] + u[k]) % P
    BY TotalSteps
<1> HIDE DEF S, T, U
<1>4. 0 \in K  BY <1>1, <1>2, <1>3 DEF Equal
<1>5. ASSUME NEW k \in 0 .. n - 1, k \in K PROVE k + 1 \in K
  <2>1. k \in 0 .. n /\ k + 1 \in 1 .. n /\ k + 1 - 1 = k /\ k + 1 \in 0 .. n  OBVIOUS
  <2>2. /\ s[k + 1] \in Int /\ t[k + 1] \in Int /\ u[k + 1] \in Int
        /\ S[k] \in Int /\ T[k] \in Int /\ U[k] \in Int
      BY <1>1, <1>2, <1>3, <2>1, Fields
  <2>3. /\ S[k + 1] = (S[k] + s[k + 1]) % P /\ T[k + 1] = (T[k] + t[k + 1]) % P
        /\ U[k + 1] = (U[k] + u[k + 1]) % P
      BY <1>1, <1>2, <1>3, <2>1
  <2>4. Equal(u[k + 1], a * s[k + 1] + b * t[k + 1]) /\ Equal(U[k], a * S[k] + b * T[k])
      BY <1>5, <2>1
  <2>5. Equal(U[k + 1], a * S[k + 1] + b * T[k + 1])
    <3>1. Equal((U[k] + u[k + 1]) % P,
                a * ((S[k] + s[k + 1]) % P) + b * ((T[k] + t[k + 1]) % P))
        BY ONLY <2>2, <2>4, a \in Int, b \in Int, LinearStep, Zenon
    <3> QED BY <2>3, <3>1
  <2> QED BY <2>1, <2>5
<1>6. n \in K
  <2> HIDE DEF K
  <2>1. 0 .. n \subseteq K  BY <1>4, <1>5, Inductive
  <2> QED BY <2>1
<1>7. U[n] = (a * S[n] + b * T[n]) % P  BY <1>3, <1>6, InField DEF Equal
<1> QED BY <1>1, <1>2, <1>3, <1>7

LEMMA TotalSum ==
    ASSUME NEW n \in Nat, NEW s \in [1 .. n -> Int], NEW t \in [1 .. n -> Int],
           NEW u \in [1 .. n -> Int], \A k \in 1 .. n : u[k] = s[k] + t[k]
    PROVE  Total(u) = (Total(s) + Total(t)) % P
<1>2. ASSUME NEW k \in 1 .. n PROVE Equal(u[k], 1 * s[k] + 1 * t[k])  BY DEF Equal
<1>3. Total(s) \in Int /\ Total(t) \in Int  BY TotalInField
<1>4. 1 * Total(s) + 1 * Total(t) = Total(s) + Total(t)  BY <1>3
<1>6. 1 \in Int  OBVIOUS
<1>5. Total(u) = (1 * Total(s) + 1 * Total(t)) % P  BY <1>2, <1>6, TotalLinear, Zenon
<1> QED BY <1>4, <1>5

LEMMA TotalSame ==
    ASSUME NEW n \in Nat, NEW s \in [1 .. n -> Int], NEW u \in [1 .. n -> Int],
           \A k \in 1 .. n : Equal(u[k], s[k])
    PROVE  Total(u) = Total(s)
<1> DEFINE T == Totals(s, n)
<1>1. /\ T \in [0 .. n -> Field] /\ T[0] = 0 /\ Total(s) = T[n]
      /\ \A k \in 1 .. n : T[k] = (T[k - 1] + s[k]) % P
    BY TotalSteps
<1> HIDE DEF T
<1>2. ASSUME NEW k \in 1 .. n PROVE T[k] = (T[k - 1] + u[k]) % P
  <2>1. T[k - 1] \in Int /\ s[k] \in Int /\ u[k] \in Int  BY <1>1, Fields
  <2>2. Equal(T[k - 1], T[k - 1])  BY DEF Equal
  <2>3. Equal(T[k - 1] + u[k], T[k - 1] + s[k])  BY <2>1, <2>2, EqualSum
  <2> QED BY <1>1, <2>3 DEF Equal
<1> QED BY <1>1, <1>2, TotalBySteps

LEMMA TotalZero ==
    ASSUME NEW n \in Nat, NEW s \in [1 .. n -> Int], \A k \in 1 .. n : Equal(s[k], 0)
    PROVE  Total(s) = 0
<1> DEFINE T == [k \in 0 .. n |-> 0]
<1>1. 0 % P = 0  BY Fields, InField
<1>2. ASSUME NEW k \in 1 .. n PROVE T[k] = (T[k - 1] + s[k]) % P  BY <1>1 DEF Equal
<1>3. T[0] = 0 /\ T[n] = 0  OBVIOUS
<1> HIDE DEF T
<1> QED BY <1>2, <1>3, TotalBySteps

LEMMA TotalAppend ==
    ASSUME NEW n \in Nat, NEW s \in [1 .. n + 1 -> Int]
    PROVE  Total(s) = (Total([k \in 1 .. n |-> s[k]]) + s[n + 1]) % P
<1> DEFINE r == [k \in 1 .. n |-> s[k]]
           T == Totals(s, n + 1)
<1>1. r \in [1 .. n -> Int] /\ \A k \in 1 .. n : r[k] = s[k]  OBVIOUS
<1>2. T[0] = 0 /\ Total(s) = T[n + 1] /\ \A k \in 1 .. n + 1 : T[k] = (T[k - 1] + s[k]) % P
  <2>1. n + 1 \in Nat  OBVIOUS
  <2> QED BY <2>1, TotalSteps, Zenon
<1> HIDE DEF r, T
<1>3. \A k \in 1 .. n : T[k] = (T[k - 1] + r[k]) % P  BY <1>1, <1>2
<1>4. Total(r) = T[n]  BY <1>1, <1>2, <1>3, TotalBySteps
<1>5. n + 1 \in 1 .. n + 1 /\ n + 1 - 1 = n  OBVIOUS
<1> QED BY <1>2, <1>4, <1>5 DEF r

LEMMA TotalSingle ==
    ASSUME NEW n \in Nat, NEW s \in [1 .. n -> Int], NEW j \in 1 .. n,
           \A k \in 1 .. n : k # j => Equal(s[k], 0)
    PROVE  Total(s) = s[j] % P
<1> DEFINE T == [k \in 0 .. n |-> IF k < j THEN 0 ELSE s[j] % P]
<1>1. 0 % P = 0 /\ s[j] \in Int /\ s[j] % P \in Field /\ s[j] % P \in Int
    BY Fields, InField, Division
<1>2. ASSUME NEW k \in 1 .. n PROVE T[k] = (T[k - 1] + s[k]) % P
  <2>1. k \in 0 .. n /\ k - 1 \in 0 .. n /\ s[k] \in Int  OBVIOUS
  <2>2. CASE k < j  BY <2>1, <2>2, <1>1 DEF Equal
  <2>3. CASE k = j  BY <2>1, <2>3
  <2>4. CASE k > j  BY <2>1, <2>4, <1>1, EqualReduced, EqualSum DEF Equal
  <2> QED BY <2>1, <2>2, <2>3, <2>4
<1>3. T[0] = 0 /\ T[n] = s[j] % P  OBVIOUS
<1> HIDE DEF T
<1> QED BY <1>2, <1>3, TotalBySteps

\* The order of two sums does not matter.
LEMMA TotalSwap ==
    ASSUME NEW m \in Nat, NEW n \in Nat, NEW a \in [1 .. m -> [1 .. n -> Int]]
    PROVE  Total([p \in 1 .. m |-> Total(a[p])])
              = Total([q \in 1 .. n |-> Total([p \in 1 .. m |-> a[p][q]])])
<1> DEFINE rows(i) == [p \in 1 .. i |-> Total(a[p])]
           column(i, q) == [p \in 1 .. i |-> a[p][q]]
           columns(i) == [q \in 1 .. n |-> Total(column(i, q))]
           K == {i \in 0 .. m : Total(rows(i)) = Total(columns(i))}
<1>1. ASSUME NEW i \in 0 .. m
      PROVE  /\ i \in Nat
             /\ rows(i) \in [1 .. i -> Int]
             /\ \A q \in 1 .. n : column(i, q) \in [1 .. i -> Int]
             /\ columns(i) \in [1 .. n -> Int]
  <2>1. i \in Nat /\ \A p \in 1 .. i : p \in 1 .. m  OBVIOUS
  <2>2. \A p \in 1 .. m : Total(a[p]) \in Int  BY TotalInField
  <2>3. \A q \in 1 .. n : column(i, q) \in [1 .. i -> Int]  BY <2>1
  <2>4. \A q \in 1 .. n : Total(column(i, q)) \in Int
    <3> HIDE DEF column
    <3> QED BY <2>1, <2>3, TotalInField
  <2> QED BY <2>1, <2>2, <2>3, <2>4
<1>2. 0 \in K
  <2>1. 0 \in 0 .. m /\ 1 .. 0 = {}  OBVIOUS
  <2>2. Total(rows(0)) = 0 /\ \A q \in 1 .. n : Total(column(0, q)) = 0
    <3> HIDE DEF rows, column
    <3> QED BY <1>1, <2>1, TotalZero
  <2>3. \A q \in 1 .. n : Equal(columns(0)[q], 0)  BY <2>2 DEF Equal
  <2>4. Total(columns(0)) = 0
    <3> HIDE DEF columns
    <3> QED BY <1>1, <2>1, <2>3, TotalZero
  <2> QED BY <2>1, <2>2, <2>4
<1>3. ASSUME NEW i \in 0 .. m - 1, i \in K PROVE i + 1 \in K
  <2>1. i \in 0 .. m /\ i + 1 \in 0 .. m /\ i + 1 \in 1 .. m /\ i \in Nat /\ i + 1 \in 1 .. i + 1
      OBVIOUS
  <2>2. /\ rows(i) = [p \in 1 .. i |-> rows(i + 1)[p]]
        /\ rows(i + 1)[i + 1] = Total(a[i + 1])
        /\ \A q \in 1 .. n : /\ column(i, q) = [p \in 1 .. i |-> column(i + 1, q)[p]]
                             /\ column(i + 1, q)[i + 1] = a[i + 1][q]
        /\ \A q \in 1 .. n : /\ columns(i + 1)[q] = Total(column(i + 1, q))
                             /\ columns(i)[q] = Total(column(i, q))
      BY <2>1
  <2>3. a[i + 1] \in [1 .. n -> Int] /\ Total(rows(i)) = Total(columns(i))  BY <1>3, <2>1
  <2>4. /\ rows(i + 1) \in [1 .. i + 1 -> Int]
        /\ columns(i) \in [1 .. n -> Int] /\ columns(i + 1) \in [1 .. n -> Int]
        /\ \A q \in 1 .. n : column(i + 1, q) \in [1 .. i + 1 -> Int] /\ column(i, q) \in [1 .. i -> Int]
      BY <1>1, <2>1
  <2> HIDE DEF rows, column, columns
  <2>5. Total(rows(i + 1)) = (Total(rows(i)) + Total(a[i + 1])) % P
      BY <2>1, <2>2, <2>4, TotalAppend
  <2>6. ASSUME NEW q \in 1 .. n
        PROVE  Equal(columns(i + 1)[q], 1 * columns(i)[q] + 1 * a[i + 1][q])
    <3>1. Total(column(i + 1, q)) = (Total(column(i, q)) + a[i + 1][q]) % P
        BY <2>1, <2>2, <2>4, TotalAppend
    <3>2. Total(column(i, q)) \in Int /\ a[i + 1][q] \in Int  BY <2>1, <2>3, <2>4, TotalInField
    <3>3. Equal(columns(i + 1)[q], columns(i)[q] + a[i + 1][q])  BY <2>2, <3>1, <3>2, EqualReduced
    <3>4. 1 * columns(i)[q] + 1 * a[i + 1][q] = columns(i)[q] + a[i + 1][q]  BY <2>2, <3>2
    <3> QED BY <3>3, <3>4
  <2>7. Total(columns(i + 1)) = (1 * Total(columns(i)) + 1 * Total(a[i + 1])) % P
    <3>1. 1 \in Int  OBVIOUS
    <3> QED BY <2>3, <2>4, <2>6, <3>1, TotalLinear, Zenon
  <2>8. Total(columns(i)) \in Int /\ Total(a[i + 1]) \in Int  BY <2>3, <2>4, TotalInField
  <2> QED BY <2>1, <2>3, <2>5, <2>7, <2>8
<1>4. m \in K
  <2> HIDE DEF K
  <2>1. 0 .. m \subseteq K  BY <1>2, <1>3, Inductive
  <2> QED BY <2>1
<1> QED BY <1>4

-----------------------------------------------------------------------------
(* The value of a polynomial *)

\* Horner's scheme: the value of the last j coefficients, for every j.
Horner(c, x, n) ==
    CHOOSE H : /\ H \in [0 .. n -> Field] /\ H[0] = 0
               /\ \A j \in 1 .. n : H[j] = (H[j - 1] * x + c[n + 1 - j]) % P

LEMMA HornerSteps ==
    ASSUME NEW n \in Nat, NEW c \in [1 .. n -> Int], NEW x \in Int
    PROVE  /\ Horner(c, x, n) \in [0 .. n -> Field] /\ Horner(c, x, n)[0] = 0
           /\ \A j \in 1 .. n : Horner(c, x, n)[j] = (Horner(c, x, n)[j - 1] * x + c[n + 1 - j]) % P
           /\ Evaluate(c, x) = Horner(c, x, n)[n]
<1> DEFINE g == [p \in Field \X (1 .. n) |-> (p[1] * x + c[p[2]]) % P]
           next == [S \in SUBSET (1 .. n) |-> Min(S)]
           F == CHOOSE f : f = [S \in SUBSET (1 .. n) |->
                      IF S = {} THEN 0 ELSE (f[S \ {Min(S)}] * x + c[Min(S)]) % P]
           T == [j \in 0 .. n |-> F[n + 1 - j .. n]]
<1>1. Evaluate(c, x) = F[1 .. n]  BY DEF Evaluate, FoldRight, MapThenFoldSet
<1>2. ASSUME NEW S \in SUBSET (1 .. n), S # {}
      PROVE  Min(S) \in S /\ Min(S) \in 1 .. n /\ \A k \in S : Min(S) <= k
  <2>1. S \subseteq Nat  OBVIOUS
  <2> QED BY <1>2, <2>1, Smallest
<1>3. g \in [Field \X (1 .. n) -> Field]
  <2>1. \A p \in Field \X (1 .. n) : p[1] * x + c[p[2]] \in Int  BY Fields
  <2> QED BY <2>1, Division
<1>4. \A S \in SUBSET (1 .. n) : S # {} => next[S] \in S  BY <1>2
<1>5. \E f : f = [S \in SUBSET (1 .. n) |->
                    IF S = {} THEN 0 ELSE (f[S \ {Min(S)}] * x + c[Min(S)]) % P]
  <2>1. PICK f \in [SUBSET (1 .. n) -> Field] : Iterates(f, n, 0, g, next)
    <3> HIDE DEF g, next
    <3>1. 0 \in Field  BY Fields
    <3> QED BY <1>3, <1>4, <3>1, Iteration
  <2>2. ASSUME NEW S \in SUBSET (1 .. n), S # {}
        PROVE  g[<<f[S \ {next[S]}], next[S]>>] = (f[S \ {Min(S)}] * x + c[Min(S)]) % P
    <3>1. next[S] = Min(S) /\ Min(S) \in 1 .. n /\ f[S \ {Min(S)}] \in Field  BY <1>2, <2>2
    <3> HIDE DEF next
    <3> QED BY <3>1
  <2>3. f = [S \in SUBSET (1 .. n) |->
               IF S = {} THEN 0 ELSE (f[S \ {Min(S)}] * x + c[Min(S)]) % P]
    <3> HIDE DEF g, next
    <3> QED BY <2>1, <2>2 DEF Iterates
  <2> QED BY <2>3, Zenon
<1>6. F = [S \in SUBSET (1 .. n) |->
             IF S = {} THEN 0 ELSE (F[S \ {Min(S)}] * x + c[Min(S)]) % P]
    BY <1>5, Zenon
<1> HIDE DEF F, g, next
<1>7. T[0] = 0  BY <1>6
<1>8. ASSUME NEW j \in 1 .. n
      PROVE  T[j] = (T[j - 1] * x + c[n + 1 - j]) % P
  <2> DEFINE k == n + 1 - j
  <2>1. k \in 1 .. n /\ n + 1 - (j - 1) = k + 1 /\ j - 1 \in 0 .. n /\ j \in 0 .. n  OBVIOUS
  <2>2. T[j] = F[k .. n] /\ T[j - 1] = F[k + 1 .. n]  BY <2>1
  <2> HIDE DEF k, T
  <2>3. k .. n \in SUBSET (1 .. n) /\ k .. n # {} /\ k \in k .. n
    <3>1. k \in Int /\ 1 <= k /\ k <= n  BY <2>1
    <3>2. \A i \in k .. n : i \in 1 .. n  BY <3>1
    <3>3. k \in k .. n  BY <3>1
    <3>4. k .. n \subseteq 1 .. n  BY <3>2
    <3> QED BY <3>3, <3>4
  <2>4. Min(k .. n) = k
    <3>1. Min(k .. n) \in k .. n /\ Min(k .. n) <= k  BY <1>2, <2>3
    <3> QED BY <2>1, <3>1
  <2>5. (k .. n) \ {k} = k + 1 .. n  BY <2>1
  <2>6. F[k .. n] = (F[k + 1 .. n] * x + c[k]) % P  BY <1>6, <2>3, <2>4, <2>5
  <2> QED BY <2>2, <2>6 DEF k
<1>9. T \in [0 .. n -> Field]
  <2>0. DOMAIN T = 0 .. n /\ T = [k \in 0 .. n |-> T[k]]  OBVIOUS
  <2> HIDE DEF T
  <2> DEFINE K == {k \in 0 .. n : T[k] \in Field}
  <2>1. 0 \in K  BY <1>7, Fields
  <2>2. ASSUME NEW k \in 0 .. n - 1, k \in K PROVE k + 1 \in K
    <3>1. k + 1 \in 1 .. n /\ k + 1 - 1 = k /\ T[k] \in Int /\ c[n + 1 - (k + 1)] \in Int
        BY <2>2, Fields
    <3>2. T[k + 1] = (T[k] * x + c[n + 1 - (k + 1)]) % P /\ T[k] * x + c[n + 1 - (k + 1)] \in Int
        BY <1>8, <3>1
    <3>3. T[k + 1] \in Field  BY <3>2, Division
    <3>4. k + 1 \in 0 .. n  BY <3>1
    <3> QED BY <3>3, <3>4
  <2>3. 0 .. n \subseteq K
    <3> HIDE DEF K
    <3> QED BY <2>1, <2>2, Inductive
  <2> QED BY <2>0, <2>3
<1>10. Evaluate(c, x) = T[n]  BY <1>1
<1> HIDE DEF T
<1>11. \E R : /\ R \in [0 .. n -> Field] /\ R[0] = 0
               /\ \A j \in 1 .. n : R[j] = (R[j - 1] * x + c[n + 1 - j]) % P
    BY <1>7, <1>8, <1>9, Zenon
<1> DEFINE R == Horner(c, x, n)
<1>12. /\ R \in [0 .. n -> Field] /\ R[0] = 0
       /\ \A j \in 1 .. n : R[j] = (R[j - 1] * x + c[n + 1 - j]) % P
    BY <1>11, Zenon DEF Horner
<1> HIDE DEF R
<1>13. R[n] = T[n]
  <2> DEFINE K == {k \in 0 .. n : R[k] = T[k]}
  <2>1. 0 \in K  BY <1>7, <1>12
  <2>2. ASSUME NEW k \in 0 .. n - 1, k \in K PROVE k + 1 \in K  BY <2>2, <1>8, <1>12
  <2>3. 0 .. n \subseteq K
    <3> HIDE DEF K
    <3> QED BY <2>1, <2>2, Inductive
  <2> QED BY <2>3
<1> QED BY <1>10, <1>12, <1>13 DEF R

LEMMA EvaluateBySteps ==
    ASSUME NEW n \in Nat, NEW c \in [1 .. n -> Int], NEW x \in Int, NEW T, T[0] = 0,
           \A j \in 1 .. n : T[j] = (T[j - 1] * x + c[n + 1 - j]) % P
    PROVE  Evaluate(c, x) = T[n]
<1> DEFINE R == Horner(c, x, n)
           K == {k \in 0 .. n : R[k] = T[k]}
<1>1. /\ R[0] = 0 /\ Evaluate(c, x) = R[n]
      /\ \A j \in 1 .. n : R[j] = (R[j - 1] * x + c[n + 1 - j]) % P
    BY HornerSteps
<1> HIDE DEF R
<1>2. 0 \in K  BY <1>1
<1>3. ASSUME NEW k \in 0 .. n - 1, k \in K PROVE k + 1 \in K  BY <1>3, <1>1
<1>4. 0 .. n \subseteq K
  <2> HIDE DEF K
  <2> QED BY <1>2, <1>3, Inductive
<1> QED BY <1>1, <1>4

LEMMA EvaluateInField ==
    ASSUME NEW n \in Nat, NEW c \in [1 .. n -> Int], NEW x \in Int
    PROVE  Evaluate(c, x) \in Field /\ Evaluate(c, x) \in Int
<1>1. Horner(c, x, n) \in [0 .. n -> Field] /\ Evaluate(c, x) = Horner(c, x, n)[n]  BY HornerSteps
<1>2. n \in 0 .. n  OBVIOUS
<1> QED BY <1>1, <1>2, Fields

LEMMA LinearHornerStep ==
    ASSUME NEW a \in Int, NEW b \in Int, NEW s \in Int, NEW t \in Int, NEW u \in Int, NEW x \in Int,
           NEW S \in Int, NEW T \in Int, NEW U \in Int,
           Equal(u, a * s + b * t), Equal(U, a * S + b * T)
    PROVE  Equal((U * x + u) % P, a * ((S * x + s) % P) + b * ((T * x + t) % P))
<1>1. PICK q1 \in Int : u = a * s + b * t + P * q1  BY MultipleByEqual
<1>2. PICK q2 \in Int : U = a * S + b * T + P * q2  BY MultipleByEqual
<1>3. Equal(U * x, a * (S * x) + b * (T * x))
  <2>1. U * x \in Int /\ a * (S * x) + b * (T * x) \in Int /\ q2 * x \in Int  OBVIOUS
  <2>2. U * x = a * (S * x) + b * (T * x) + P * (q2 * x)  BY <1>2, Characteristic
  <2> QED BY <2>1, <2>2, EqualByMultiple
<1>4. S * x \in Int /\ T * x \in Int /\ U * x \in Int  OBVIOUS
<1> QED BY <1>3, <1>4, LinearStep

Mix(a, u, b, v) == a * u + b * v

\* The polynomial e is a times c and b times d.
Combines(n, e, a, c, b, d) ==
    /\ c \in [1 .. n -> Int] /\ d \in [1 .. n -> Int] /\ e \in [1 .. n -> Int]
    /\ a \in Int /\ b \in Int
    /\ \A k \in 1 .. n : Equal(e[k], Mix(a, c[k], b, d[k]))

\* The value of a combination is the combination of the values.
LEMMA EvaluateLinear ==
    ASSUME NEW n \in Nat, NEW c, NEW d, NEW e, NEW a, NEW b, NEW x \in Int,
           Combines(n, e, a, c, b, d)
    PROVE  Evaluate(e, x) = Mix(a, Evaluate(c, x), b, Evaluate(d, x)) % P
<1>0. /\ c \in [1 .. n -> Int] /\ d \in [1 .. n -> Int] /\ e \in [1 .. n -> Int]
      /\ a \in Int /\ b \in Int
      /\ \A k \in 1 .. n : Equal(e[k], a * c[k] + b * d[k])
    BY DEF Combines, Mix
<1> DEFINE C == Horner(c, x, n)
           D == Horner(d, x, n)
           E == Horner(e, x, n)
           K == {j \in 0 .. n : Equal(E[j], a * C[j] + b * D[j])}
<1>1. /\ C \in [0 .. n -> Field] /\ C[0] = 0 /\ Evaluate(c, x) = C[n]
      /\ \A j \in 1 .. n : C[j] = (C[j - 1] * x + c[n + 1 - j]) % P
    BY <1>0, HornerSteps
<1>2. /\ D \in [0 .. n -> Field] /\ D[0] = 0 /\ Evaluate(d, x) = D[n]
      /\ \A j \in 1 .. n : D[j] = (D[j - 1] * x + d[n + 1 - j]) % P
    BY <1>0, HornerSteps
<1>3. /\ E \in [0 .. n -> Field] /\ E[0] = 0 /\ Evaluate(e, x) = E[n]
      /\ \A j \in 1 .. n : E[j] = (E[j - 1] * x + e[n + 1 - j]) % P
    BY <1>0, HornerSteps
<1> HIDE DEF C, D, E
<1>4. 0 \in K  BY <1>0, <1>1, <1>2, <1>3 DEF Equal
<1>5. ASSUME NEW k \in 0 .. n - 1, k \in K PROVE k + 1 \in K
  <2>1. k + 1 \in 1 .. n /\ k + 1 - 1 = k /\ k + 1 \in 0 .. n /\ n + 1 - (k + 1) \in 1 .. n /\ k \in 0 .. n
      OBVIOUS
  <2> DEFINE i == n + 1 - (k + 1)
  <2>2. /\ C[k + 1] = (C[k] * x + c[i]) % P /\ D[k + 1] = (D[k] * x + d[i]) % P
        /\ E[k + 1] = (E[k] * x + e[i]) % P
      BY <1>1, <1>2, <1>3, <2>1
  <2>3. C[k] \in Int /\ D[k] \in Int /\ E[k] \in Int /\ Equal(E[k], a * C[k] + b * D[k])
      BY <1>1, <1>2, <1>3, <1>5, <2>1, Fields
  <2>4. i \in 1 .. n  BY <2>1
  <2> HIDE DEF i
  <2>5. c[i] \in Int /\ d[i] \in Int /\ e[i] \in Int /\ Equal(e[i], a * c[i] + b * d[i])
      BY <1>0, <2>4
  <2>6. Equal(E[k + 1], a * C[k + 1] + b * D[k + 1])
    <3>1. Equal((E[k] * x + e[i]) % P, a * ((C[k] * x + c[i]) % P) + b * ((D[k] * x + d[i]) % P))
        BY <1>0, <2>3, <2>5, LinearHornerStep
    <3> QED BY <2>2, <3>1
  <2> QED BY <2>1, <2>6
<1>6. 0 .. n \subseteq K
  <2> HIDE DEF K
  <2> QED BY <1>4, <1>5, Inductive
<1>7. Equal(E[n], a * C[n] + b * D[n])  BY <1>6
<1>8. E[n] % P = E[n]  BY <1>3, InField
<1> QED BY <1>1, <1>2, <1>3, <1>7, <1>8 DEF Equal, Mix

LEMMA EvaluateScale ==
    ASSUME NEW n \in Nat, NEW c \in [1 .. n -> Int], NEW d \in [1 .. n -> Int], NEW a \in Int, NEW x \in Int,
           \A k \in 1 .. n : Equal(d[k], a * c[k])
    PROVE  Evaluate(d, x) = (a * Evaluate(c, x)) % P
<1> DEFINE zero == 0
<1>1. zero \in Int  OBVIOUS
<1>2. \A k \in 1 .. n : Equal(d[k], Mix(a, c[k], zero, c[k]))
  <2> TAKE k \in 1 .. n
  <2>1. Mix(a, c[k], zero, c[k]) = a * c[k]  BY DEF Mix
  <2> QED BY <2>1
<1>3. Evaluate(d, x) = Mix(a, Evaluate(c, x), zero, Evaluate(c, x)) % P
  <2> HIDE DEF zero
  <2>1. Combines(n, d, a, c, zero, c)  BY <1>1, <1>2 DEF Combines
  <2> QED BY <2>1, EvaluateLinear
<1>4. Evaluate(c, x) \in Int  BY EvaluateInField
<1>5. Mix(a, Evaluate(c, x), zero, Evaluate(c, x)) = a * Evaluate(c, x)  BY <1>4 DEF Mix
<1> QED BY <1>3, <1>5

LEMMA EvaluateSame ==
    ASSUME NEW n \in Nat, NEW c \in [1 .. n -> Int], NEW d \in [1 .. n -> Int], NEW x \in Int,
           \A k \in 1 .. n : Equal(d[k], c[k])
    PROVE  Evaluate(d, x) = Evaluate(c, x)
<1> DEFINE one == 1
<1>1. one \in Int  OBVIOUS
<1>2. \A k \in 1 .. n : Equal(d[k], one * c[k])
  <2> TAKE k \in 1 .. n
  <2>1. one * c[k] = c[k]  OBVIOUS
  <2> QED BY <2>1
<1>3. Evaluate(d, x) = (one * Evaluate(c, x)) % P
  <2> HIDE DEF one
  <2> QED BY <1>1, <1>2, EvaluateScale
<1>4. Evaluate(c, x) \in Field /\ Evaluate(c, x) \in Int  BY EvaluateInField
<1>5. one * Evaluate(c, x) = Evaluate(c, x)  BY <1>4
<1> QED BY <1>3, <1>4, <1>5, InField

\* A polynomial is its constant and x times the others.
LEMMA EvaluateCons ==
    ASSUME NEW n \in Nat, NEW c \in [1 .. n + 1 -> Int], NEW x \in Int
    PROVE  Evaluate(c, x) = (Evaluate([k \in 1 .. n |-> c[k + 1]], x) * x + c[1]) % P
<1> DEFINE d == [k \in 1 .. n |-> c[k + 1]]
           D == Horner(d, x, n)
           T == [j \in 0 .. n + 1 |-> IF j <= n THEN D[j] ELSE (D[n] * x + c[1]) % P]
<1>1. d \in [1 .. n -> Int]  OBVIOUS
<1>2. /\ D[0] = 0 /\ Evaluate(d, x) = D[n]
      /\ \A j \in 1 .. n : D[j] = (D[j - 1] * x + d[n + 1 - j]) % P
  <2> HIDE DEF d
  <2> QED BY <1>1, HornerSteps
<1>3. \A j \in 1 .. n : D[j] = (D[j - 1] * x + c[n + 1 + 1 - j]) % P
  <2> TAKE j \in 1 .. n
  <2>1. n + 1 - j \in 1 .. n /\ n + 1 - j + 1 = n + 1 + 1 - j  OBVIOUS
  <2>2. d[n + 1 - j] = c[n + 1 + 1 - j]  BY <2>1
  <2> QED BY <1>2, <2>2
<1> HIDE DEF d, D
<1>4. T[0] = 0  BY <1>2
<1>5. ASSUME NEW j \in 1 .. n + 1 PROVE T[j] = (T[j - 1] * x + c[n + 1 + 1 - j]) % P
  <2>1. j \in 0 .. n + 1 /\ j - 1 \in 0 .. n + 1 /\ j - 1 <= n  OBVIOUS
  <2>2. CASE j <= n  BY <2>1, <2>2, <1>3
  <2>3. CASE j = n + 1  BY <2>1, <2>3
  <2> QED BY <2>2, <2>3
<1>6. T[n + 1] = (D[n] * x + c[1]) % P  OBVIOUS
<1> HIDE DEF T
<1>7. Evaluate(c, x) = T[n + 1]
  <2>1. n + 1 \in Nat  OBVIOUS
  <2> QED BY <1>4, <1>5, <2>1, EvaluateBySteps
<1> QED BY <1>2, <1>6, <1>7 DEF d

\* Coefficients that are zero beyond the m-th do not count.
Trails(c, n, d, m) ==
    /\ m \in 0 .. n /\ c \in [1 .. n -> Int] /\ d \in [1 .. m -> Int]
    /\ \A k \in 1 .. n : IF k <= m THEN Equal(c[k], d[k]) ELSE Equal(c[k], 0)

LEMMA EvaluateTrail ==
    ASSUME NEW n \in Nat, NEW c, NEW d, NEW m, NEW x \in Int, Trails(c, n, d, m)
    PROVE  Evaluate(c, x) = Evaluate(d, x)
<1> DEFINE D == Horner(d, x, m)
           T == [j \in 0 .. n |-> IF j <= n - m THEN 0 ELSE D[j - (n - m)]]
<1>0. /\ m \in Nat /\ m <= n /\ c \in [1 .. n -> Int] /\ d \in [1 .. m -> Int]
      /\ \A k \in 1 .. n : IF k <= m THEN Equal(c[k], d[k]) ELSE Equal(c[k], 0)
    BY DEF Trails
<1>1. /\ D \in [0 .. m -> Field] /\ D[0] = 0 /\ Evaluate(d, x) = D[m]
      /\ \A j \in 1 .. m : D[j] = (D[j - 1] * x + d[m + 1 - j]) % P
    BY <1>0, HornerSteps
<1> HIDE DEF D
<1>2. T[0] = 0  BY <1>0
<1>3. ASSUME NEW j \in 1 .. n PROVE T[j] = (T[j - 1] * x + c[n + 1 - j]) % P
  <2>1. /\ j \in 0 .. n /\ j - 1 \in 0 .. n /\ n + 1 - j \in 1 .. n
        /\ n - m \in Nat /\ n - m <= n
      BY <1>0
  <2>2. CASE j <= n - m  BY <1>0, <2>1, <2>2, Fields, InField DEF Equal
  <2>3. CASE ~(j <= n - m)
    <3> DEFINE i == j - (n - m)
    <3>1. i \in 1 .. m /\ i - 1 \in 0 .. m /\ n + 1 - j = m + 1 - i /\ m + 1 - i \in 1 .. m
          /\ i - 1 = j - 1 - (n - m)
        BY <1>0, <2>1, <2>3
    <3>2. T[j] = D[i]  BY <2>1, <2>3
    <3>3. T[j - 1] = D[i - 1]
      <4>1. CASE j - 1 <= n - m  BY <2>1, <3>1, <4>1, <1>1
      <4>2. CASE ~(j - 1 <= n - m)  BY <2>1, <3>1, <4>2
      <4> QED BY <4>1, <4>2
    <3> HIDE DEF i, T
    <3>4. D[i] = (D[i - 1] * x + d[m + 1 - i]) % P  BY <1>1, <3>1
    <3>5. Equal(c[m + 1 - i], d[m + 1 - i])  BY <1>0, <3>1
    <3>6. D[i - 1] \in Int /\ c[m + 1 - i] \in Int /\ d[m + 1 - i] \in Int
      <4>1. m + 1 - i \in 1 .. n  BY <1>0, <3>1
      <4> QED BY <1>0, <1>1, <3>1, <4>1, Fields
    <3>7. Equal(D[i - 1] * x + c[m + 1 - i], D[i - 1] * x + d[m + 1 - i])
      <4>1. D[i - 1] * x \in Int /\ Equal(D[i - 1] * x, D[i - 1] * x)  BY <3>6 DEF Equal
      <4> QED BY <3>5, <3>6, <4>1, EqualSum
    <3> QED BY <3>1, <3>2, <3>3, <3>4, <3>7 DEF Equal
  <2> QED BY <2>2, <2>3
<1>4. T[n] = D[m]
  <2>1. CASE m = 0  BY <1>0, <1>1, <2>1
  <2>2. CASE m # 0  BY <1>0, <2>2
  <2> QED BY <2>1, <2>2
<1> HIDE DEF T
<1>5. Evaluate(c, x) = T[n]  BY <1>0, <1>2, <1>3, EvaluateBySteps
<1> QED BY <1>1, <1>4, <1>5

LEMMA EvaluateAtZero ==
    ASSUME NEW n \in Nat, NEW c \in [1 .. n + 1 -> Int]
    PROVE  Evaluate(c, 0) = c[1] % P
<1> DEFINE zero == 0
           d == [k \in 1 .. n |-> c[k + 1]]
<1>1. zero \in Int /\ d \in [1 .. n -> Int]  OBVIOUS
<1>2. Evaluate(c, zero) = (Evaluate(d, zero) * zero + c[1]) % P
  <2> HIDE DEF zero
  <2> QED BY <1>1, EvaluateCons
<1>3. Evaluate(d, zero) \in Int
  <2> HIDE DEF zero, d
  <2> QED BY <1>1, EvaluateInField
<1>4. Evaluate(d, zero) * zero + c[1] = c[1]
  <2>1. c[1] \in Int  OBVIOUS
  <2> HIDE DEF d
  <2> QED BY <1>3, <2>1
<1> QED BY <1>2, <1>4

LEMMA EvaluateConstant ==
    ASSUME NEW a \in Int, NEW x \in Int
    PROVE  Evaluate(<<a>>, x) = a % P
<1> DEFINE one == 1
           c == <<a>>
           T == [j \in 0 .. one |-> IF j = 0 THEN 0 ELSE a % P]
<1>1. c \in [1 .. one -> Int] /\ c[1] = a  OBVIOUS
<1>2. \A j \in 1 .. one : T[j] = (T[j - 1] * x + c[one + 1 - j]) % P
  <2> TAKE j \in 1 .. one
  <2>1. j = 1 /\ 0 * x + a = a  OBVIOUS
  <2>2. T[j] = a % P /\ T[j - 1] = 0 /\ c[one + 1 - j] = a  BY <2>1
  <2> HIDE DEF T, c
  <2> QED BY <2>1, <2>2
<1>3. T[0] = 0 /\ T[one] = a % P /\ one \in Nat  OBVIOUS
<1> HIDE DEF T, c, one
<1>4. Evaluate(c, x) = T[one]  BY <1>1, <1>2, <1>3, EvaluateBySteps
<1> QED BY <1>3, <1>4 DEF c

-----------------------------------------------------------------------------
(* Sums in another order, and over another index *)

\* u has the entries of s, each at the place p gives it, and zeros.
Scatters(m, s, n, u, p) ==
    /\ m \in Nat /\ n \in Nat /\ s \in [1 .. m -> Int] /\ u \in [1 .. n -> Int]
    /\ p \in [1 .. m -> 1 .. n]
    /\ \A k, l \in 1 .. m : p[k] = p[l] => k = l
    /\ \A k \in 1 .. m : Equal(u[p[k]], s[k])
    /\ \A q \in 1 .. n : (\A k \in 1 .. m : p[k] # q) => Equal(u[q], 0)

LEMMA TotalScatter ==
    ASSUME NEW m, NEW s, NEW n, NEW u, NEW p, Scatters(m, s, n, u, p)
    PROVE  Total(u) = Total(s)
<1>0. /\ m \in Nat /\ n \in Nat /\ s \in [1 .. m -> Int] /\ u \in [1 .. n -> Int]
      /\ p \in [1 .. m -> 1 .. n]
      /\ \A k, l \in 1 .. m : p[k] = p[l] => k = l
      /\ \A k \in 1 .. m : Equal(u[p[k]], s[k])
      /\ \A q \in 1 .. n : (\A k \in 1 .. m : p[k] # q) => Equal(u[q], 0)
    BY DEF Scatters
<1> DEFINE a == [k \in 1 .. m |-> [q \in 1 .. n |-> IF p[k] = q THEN s[k] ELSE 0]]
           rows == [k \in 1 .. m |-> Total(a[k])]
           column(q) == [k \in 1 .. m |-> a[k][q]]
           columns == [q \in 1 .. n |-> Total(column(q))]
<1>1. a \in [1 .. m -> [1 .. n -> Int]]  BY <1>0
<1>2. Total(rows) = Total(columns)
  <2> HIDE DEF a
  <2> QED BY <1>0, <1>1, TotalSwap
<1>3. \A k \in 1 .. m : a[k] \in [1 .. n -> Int] /\ \A q \in 1 .. n : a[k][q] = IF p[k] = q THEN s[k] ELSE 0
    BY <1>0
<1> HIDE DEF a
<1>4. ASSUME NEW k \in 1 .. m PROVE Total(a[k]) \in Int /\ Equal(Total(a[k]), s[k])
  <2>1. /\ a[k] \in [1 .. n -> Int] /\ p[k] \in 1 .. n /\ a[k][p[k]] = s[k] /\ s[k] \in Int
      BY <1>0, <1>3
  <2>2. \A q \in 1 .. n : q # p[k] => Equal(a[k][q], 0)  BY <1>3 DEF Equal
  <2>3. Total(a[k]) = s[k] % P
    <3> DEFINE t == a[k]
               j == p[k]
    <3>1. t \in [1 .. n -> Int] /\ j \in 1 .. n /\ t[j] = s[k] /\ \A q \in 1 .. n : q # j => Equal(t[q], 0)
        BY <2>1, <2>2
    <3> HIDE DEF t, j
    <3>2. Total(t) = t[j] % P  BY <1>0, <3>1, TotalSingle
    <3> QED BY <3>1, <3>2 DEF t
  <2> QED BY <1>0, <2>1, <2>3, EqualReduced, TotalInField
<1>5. Total(s) = Total(rows)
  <2>1. rows \in [1 .. m -> Int]  BY <1>4
  <2>2. \A k \in 1 .. m : Equal(s[k], rows[k])  BY <1>4 DEF Equal
  <2> HIDE DEF rows
  <2> QED BY <1>0, <2>1, <2>2, TotalSame
<1>6. ASSUME NEW q \in 1 .. n
      PROVE  Total(column(q)) \in Int /\ Equal(Total(column(q)), u[q])
  <2>1. column(q) \in [1 .. m -> Int]  BY <1>3
  <2>2. \A k \in 1 .. m : column(q)[k] = IF p[k] = q THEN s[k] ELSE 0  BY <1>3
  <2> DEFINE t == column(q)
  <2>3. Total(t) \in Int
    <3> HIDE DEF column
    <3> QED BY <1>0, <2>1, TotalInField
  <2>4. CASE \E k \in 1 .. m : p[k] = q
    <3> PICK k \in 1 .. m : p[k] = q
        BY <2>4
    <3>1. t[k] = s[k] /\ s[k] \in Int /\ \A l \in 1 .. m : l # k => Equal(t[l], 0)
        BY <1>0, <2>2 DEF Equal
    <3>2. Total(t) = t[k] % P
      <4> HIDE DEF t
      <4> QED BY <1>0, <2>1, <3>1, TotalSingle DEF t
    <3>3. Equal(u[q], s[k]) /\ Equal(Total(t), s[k])
      <4> HIDE DEF t
      <4> QED BY <1>0, <3>1, <3>2, EqualReduced
    <3> QED BY <2>3, <3>3 DEF Equal
  <2>5. CASE \A k \in 1 .. m : p[k] # q
    <3>1. \A k \in 1 .. m : Equal(t[k], 0)  BY <2>2, <2>5 DEF Equal
    <3>2. Total(t) = 0
      <4> HIDE DEF t
      <4> QED BY <1>0, <2>1, <3>1, TotalZero DEF t
    <3>3. Equal(u[q], 0)  BY <1>0, <2>5
    <3> QED BY <2>3, <3>2, <3>3 DEF Equal
  <2> QED BY <2>4, <2>5
<1>7. Total(u) = Total(columns)
  <2>1. columns \in [1 .. n -> Int]
    <3> HIDE DEF column
    <3> QED BY <1>6
  <2>2. \A q \in 1 .. n : Equal(u[q], columns[q])
    <3> HIDE DEF column
    <3> QED BY <1>6 DEF Equal
  <2> HIDE DEF columns
  <2> QED BY <1>0, <2>1, <2>2, TotalSame
<1> QED BY <1>2, <1>5, <1>7

-----------------------------------------------------------------------------
(* Sums of polynomials *)

Padded(c, n) == [k \in 1 .. n |-> IF k <= Len(c) THEN c[k] ELSE 0]

\* Polynomials of at most n coefficients.
Fit(cs, n) ==
    /\ n \in Nat /\ cs \in Seq(Seq(Int))
    /\ \A i \in 1 .. Len(cs) : Len(cs[i]) <= n

LEMMA EvaluatePadded ==
    ASSUME NEW n \in Nat, NEW c \in Seq(Int), Len(c) <= n, NEW x \in Int
    PROVE  /\ Padded(c, n) \in [1 .. n -> Int]
           /\ Evaluate(Padded(c, n), x) = Evaluate(c, x)
           /\ Evaluate(c, x) \in Field /\ Evaluate(c, x) \in Int
<1>1. Len(c) \in Nat /\ c \in [1 .. Len(c) -> Int]  OBVIOUS
<1>2. Padded(c, n) \in [1 .. n -> Int]  BY <1>1 DEF Padded
<1>3. Trails(Padded(c, n), n, c, Len(c))
  <2>1. ASSUME NEW k \in 1 .. n
        PROVE IF k <= Len(c) THEN Equal(Padded(c, n)[k], c[k]) ELSE Equal(Padded(c, n)[k], 0)
      BY DEF Padded, Equal
  <2> QED BY <1>1, <1>2, <2>1 DEF Trails
<1> QED BY <1>1, <1>2, <1>3, EvaluateTrail, EvaluateInField

\* The k-th coefficients, one a polynomial.
Column(cs, k) == [i \in 1 .. Len(cs) |-> IF k <= Len(cs[i]) THEN cs[i][k] ELSE 0]

LEMMA Columns ==
    ASSUME NEW cs, NEW n, Fit(cs, n), NEW k \in 1 .. n
    PROVE  Column(cs, k) \in [1 .. Len(cs) -> Int]
<1>1. \A i \in 1 .. Len(cs) : cs[i] \in Seq(Int)  BY DEF Fit
<1>2. ASSUME NEW i \in 1 .. Len(cs) PROVE (IF k <= Len(cs[i]) THEN cs[i][k] ELSE 0) \in Int
    BY <1>1 DEF Fit
<1> QED BY <1>2 DEF Column

LEMMA PolySumInField ==
    ASSUME NEW cs, NEW n, Fit(cs, n)
    PROVE  PolySum(cs, n) \in [1 .. n -> Field] /\ PolySum(cs, n) \in [1 .. n -> Int]
<1>1. Len(cs) \in Nat  BY DEF Fit
<1>2. ASSUME NEW k \in 1 .. n PROVE Total(Column(cs, k)) \in Field  BY <1>1, Columns, TotalInField
<1>3. PolySum(cs, n) = [k \in 1 .. n |-> Total(Column(cs, k))]  BY DEF PolySum, Column
<1>4. PolySum(cs, n) \in [1 .. n -> Field]  BY <1>2, <1>3
<1> QED BY <1>4, Fields

Partial(cs, n, j) == [k \in 1 .. n |-> Totals(Column(cs, k), Len(cs))[j]]

\* The value of a sum is the sum of the values.
LEMMA EvaluatePolySum ==
    ASSUME NEW cs, NEW n, Fit(cs, n), NEW x \in Int
    PROVE  Evaluate(PolySum(cs, n), x) = Total([i \in 1 .. Len(cs) |-> Evaluate(cs[i], x)])
<1> DEFINE m == Len(cs)
           U(j) == Partial(cs, n, j)
           V == [j \in 0 .. m |-> Evaluate(U(j), x)]
           s == [i \in 1 .. m |-> Evaluate(cs[i], x)]
<1>1. m \in Nat /\ n \in Nat /\ \A i \in 1 .. m : cs[i] \in Seq(Int) /\ Len(cs[i]) <= n  BY DEF Fit
<1> HIDE DEF m
<1>2. ASSUME NEW k \in 1 .. n
      PROVE  LET T == Totals(Column(cs, k), m)
             IN  /\ T \in [0 .. m -> Field] /\ T[0] = 0
                 /\ \A j \in 1 .. m : T[j] = (T[j - 1] + Column(cs, k)[j]) % P
                 /\ Total(Column(cs, k)) = T[m]
  <2>1. Column(cs, k) \in [1 .. m -> Int]  BY Columns DEF m
  <2> DEFINE t == Column(cs, k)
  <2> HIDE DEF t
  <2> QED BY <1>1, <2>1, TotalSteps DEF t
<1>3. \A j \in 0 .. m : \A k \in 1 .. n : U(j)[k] = Totals(Column(cs, k), m)[j]  BY DEF Partial, m
<1>4. ASSUME NEW j \in 0 .. m PROVE U(j) \in [1 .. n -> Field] /\ U(j) \in [1 .. n -> Int]
    BY <1>2, Fields DEF Partial, m
<1>5. PolySum(cs, n) = U(m)  BY <1>2 DEF PolySum, Column, Partial, m
<1>6. V[0] = 0
  <2>1. 0 \in 0 .. m  BY <1>1
  <2>2. \A k \in 1 .. n : U(0)[k] = 0  BY <1>2, <1>3, <2>1
  <2> DEFINE z == U(0)
  <2>3. z \in [1 .. n -> Int]  BY <1>4, <2>1
  <2> HIDE DEF z, U
  <2>4. \A k \in 1 .. n : Equal(z[k], 0 * z[k])
    <3> TAKE k \in 1 .. n
    <3>1. z[k] = 0 /\ 0 * z[k] = 0  BY <2>2, <2>3 DEF z
    <3>2. z[k] = 0 * z[k]  BY <3>1, Zenon
    <3> QED BY <3>2, Zenon DEF Equal
  <2>5. Evaluate(z, x) = (0 * Evaluate(z, x)) % P
    <3> DEFINE zero == 0
    <3>1. zero \in Int /\ \A k \in 1 .. n : Equal(z[k], zero * z[k])  BY <2>4
    <3>2. Evaluate(z, x) = (zero * Evaluate(z, x)) % P
      <4> HIDE DEF zero
      <4> QED BY <1>1, <2>3, <3>1, EvaluateScale
    <3> QED BY <3>2
  <2>6. 0 * Evaluate(z, x) = 0  BY <1>1, <2>3, EvaluateInField
  <2>7. 0 % P = 0  BY Fields, InField
  <2> QED BY <2>1, <2>5, <2>6, <2>7 DEF z
<1>7. ASSUME NEW j \in 1 .. m PROVE V[j] = (V[j - 1] + s[j]) % P
  <2>1. j \in 0 .. m /\ j - 1 \in 0 .. m  BY <1>1
  <2> DEFINE c == U(j - 1)
             d == Padded(cs[j], n)
             e == U(j)
             one == 1
  <2>2. /\ d \in [1 .. n -> Int] /\ Evaluate(d, x) = Evaluate(cs[j], x)
        /\ Evaluate(cs[j], x) \in Int
      BY <1>1, EvaluatePadded
  <2>3. \A k \in 1 .. n : e[k] = (c[k] + d[k]) % P
    <3> TAKE k \in 1 .. n
    <3>1. Column(cs, k)[j] = d[k]  BY <1>1 DEF Column, Padded, m
    <3> QED BY <1>2, <1>3, <2>1, <3>1
  <2>4. c \in [1 .. n -> Int] /\ e \in [1 .. n -> Int] /\ one \in Int  BY <1>4, <2>1
  <2>5. V[j] = Evaluate(e, x) /\ V[j - 1] = Evaluate(c, x) /\ s[j] = Evaluate(d, x)  BY <2>1, <2>2
  <2>6. ASSUME NEW k \in 1 .. n PROVE Equal(e[k], Mix(one, c[k], one, d[k]))
    <3> HIDE DEF c, d, e
    <3>1. Mix(one, c[k], one, d[k]) = c[k] + d[k] /\ c[k] + d[k] \in Int  BY <2>2, <2>4 DEF Mix
    <3> QED BY <2>3, <3>1, EqualReduced
  <2> HIDE DEF c, d, e, one
  <2>7. Combines(n, e, one, c, one, d)  BY <2>2, <2>4, <2>6 DEF Combines
  <2>8. Evaluate(e, x) = Mix(one, Evaluate(c, x), one, Evaluate(d, x)) % P
      BY <1>1, <2>7, EvaluateLinear
  <2>9. Mix(one, Evaluate(c, x), one, Evaluate(d, x)) = Evaluate(c, x) + Evaluate(d, x)
    <3>1. Evaluate(c, x) \in Int  BY <1>1, <2>4, EvaluateInField
    <3> QED BY <2>2, <3>1 DEF Mix, one
  <2> QED BY <2>5, <2>8, <2>9
<1>8. s \in [1 .. m -> Int]  BY <1>1, EvaluatePadded
<1>9. V[m] = Evaluate(PolySum(cs, n), x)  BY <1>1, <1>5
<1> HIDE DEF V, s
<1>10. Total(s) = V[m]  BY <1>1, <1>6, <1>7, <1>8, TotalBySteps
<1> QED BY <1>9, <1>10 DEF s, m

-----------------------------------------------------------------------------
(* Products *)

\* The running products of s.
Products(s, n) ==
    CHOOSE T : /\ T \in [0 .. n -> Field] /\ T[0] = 1
               /\ \A k \in 1 .. n : T[k] = (T[k - 1] * s[k]) % P

LEMMA ProductSteps ==
    ASSUME NEW n \in Nat, NEW s \in [1 .. n -> Int]
    PROVE  /\ Products(s, n) \in [0 .. n -> Field] /\ Products(s, n)[0] = 1
           /\ \A k \in 1 .. n : Products(s, n)[k] = (Products(s, n)[k - 1] * s[k]) % P
           /\ Product(s) = Products(s, n)[n]
<1> DEFINE g == [p \in Field \X (1 .. n) |-> (p[1] * s[p[2]]) % P]
           next == [S \in SUBSET (1 .. n) |-> Max(S)]
           F == CHOOSE f : f = [S \in SUBSET (1 .. n) |->
                      IF S = {} THEN 1 ELSE (f[S \ {Max(S)}] * s[Max(S)]) % P]
           T == [k \in 0 .. n |-> F[1 .. k]]
<1>1. Product(s) = F[1 .. n]  BY DEF Product, FoldLeft, MapThenFoldSet
<1>2. ASSUME NEW S \in SUBSET (1 .. n), S # {}
      PROVE  Max(S) \in S /\ Max(S) \in 1 .. n /\ \A k \in S : k <= Max(S)
    BY <1>2, Greatest
<1>3. g \in [Field \X (1 .. n) -> Field]
  <2>1. \A p \in Field \X (1 .. n) : p[1] * s[p[2]] \in Int  BY Fields
  <2> QED BY <2>1, Division
<1>4. \A S \in SUBSET (1 .. n) : S # {} => next[S] \in S  BY <1>2
<1>5. \E f : f = [S \in SUBSET (1 .. n) |->
                    IF S = {} THEN 1 ELSE (f[S \ {Max(S)}] * s[Max(S)]) % P]
  <2>1. PICK f \in [SUBSET (1 .. n) -> Field] : Iterates(f, n, 1, g, next)
    <3> HIDE DEF g, next
    <3>1. 1 \in Field  BY Fields
    <3> QED BY <1>3, <1>4, <3>1, Iteration
  <2>2. ASSUME NEW S \in SUBSET (1 .. n), S # {}
        PROVE  g[<<f[S \ {next[S]}], next[S]>>] = (f[S \ {Max(S)}] * s[Max(S)]) % P
    <3>1. next[S] = Max(S) /\ Max(S) \in 1 .. n /\ f[S \ {Max(S)}] \in Field  BY <1>2, <2>2
    <3> HIDE DEF next
    <3> QED BY <3>1
  <2>3. f = [S \in SUBSET (1 .. n) |->
               IF S = {} THEN 1 ELSE (f[S \ {Max(S)}] * s[Max(S)]) % P]
    <3> HIDE DEF g, next
    <3> QED BY <2>1, <2>2 DEF Iterates
  <2> QED BY <2>3, Zenon
<1>6. F = [S \in SUBSET (1 .. n) |->
             IF S = {} THEN 1 ELSE (F[S \ {Max(S)}] * s[Max(S)]) % P]
    BY <1>5, Zenon
<1> HIDE DEF F, g, next
<1>7. T[0] = 1  BY <1>6
<1>8. ASSUME NEW k \in 1 .. n
      PROVE  T[k] = (T[k - 1] * s[k]) % P
  <2>1. 1 .. k \in SUBSET (1 .. n) /\ 1 .. k # {} /\ k \in 1 .. k  OBVIOUS
  <2>2. Max(1 .. k) = k
    <3>1. Max(1 .. k) \in 1 .. k /\ k <= Max(1 .. k)  BY <1>2, <2>1
    <3> QED BY <3>1
  <2>3. (1 .. k) \ {k} = 1 .. k - 1  OBVIOUS
  <2>4. F[1 .. k] = (F[1 .. k - 1] * s[k]) % P  BY <1>6, <2>1, <2>2, <2>3
  <2> QED BY <2>4
<1>9. T \in [0 .. n -> Field]
  <2>0. DOMAIN T = 0 .. n /\ T = [k \in 0 .. n |-> T[k]]  OBVIOUS
  <2> HIDE DEF T
  <2> DEFINE K == {k \in 0 .. n : T[k] \in Field}
  <2>1. 0 \in K  BY <1>7, Fields
  <2>2. ASSUME NEW k \in 0 .. n - 1, k \in K PROVE k + 1 \in K
    <3>1. k + 1 \in 1 .. n /\ k + 1 - 1 = k /\ T[k] \in Int /\ s[k + 1] \in Int  BY <2>2, Fields
    <3>2. T[k + 1] = (T[k] * s[k + 1]) % P /\ T[k] * s[k + 1] \in Int  BY <1>8, <3>1
    <3>3. T[k + 1] \in Field  BY <3>2, Division
    <3>4. k + 1 \in 0 .. n  BY <3>1
    <3> QED BY <3>3, <3>4
  <2>3. 0 .. n \subseteq K
    <3> HIDE DEF K
    <3> QED BY <2>1, <2>2, Inductive
  <2> QED BY <2>0, <2>3
<1>10. Product(s) = T[n]  BY <1>1
<1> HIDE DEF T
<1>11. \E R : /\ R \in [0 .. n -> Field] /\ R[0] = 1
               /\ \A k \in 1 .. n : R[k] = (R[k - 1] * s[k]) % P
    BY <1>7, <1>8, <1>9, Zenon
<1> DEFINE R == Products(s, n)
<1>12. /\ R \in [0 .. n -> Field] /\ R[0] = 1
       /\ \A k \in 1 .. n : R[k] = (R[k - 1] * s[k]) % P
    BY <1>11, Zenon DEF Products
<1> HIDE DEF R
<1>13. R[n] = T[n]
  <2> DEFINE K == {k \in 0 .. n : R[k] = T[k]}
  <2>1. 0 \in K  BY <1>7, <1>12
  <2>2. ASSUME NEW k \in 0 .. n - 1, k \in K PROVE k + 1 \in K  BY <1>8, <1>12, <2>2
  <2>3. 0 .. n \subseteq K
    <3> HIDE DEF K
    <3> QED BY <2>1, <2>2, Inductive
  <2> QED BY <2>3
<1> QED BY <1>10, <1>12, <1>13 DEF R

LEMMA ProductBySteps ==
    ASSUME NEW n \in Nat, NEW s \in [1 .. n -> Int], NEW T, T[0] = 1,
           \A k \in 1 .. n : T[k] = (T[k - 1] * s[k]) % P
    PROVE  Product(s) = T[n]
<1> DEFINE R == Products(s, n)
           K == {k \in 0 .. n : R[k] = T[k]}
<1>1. R[0] = 1 /\ Product(s) = R[n] /\ \A k \in 1 .. n : R[k] = (R[k - 1] * s[k]) % P
    BY ProductSteps
<1> HIDE DEF R
<1>2. 0 \in K  BY <1>1
<1>3. ASSUME NEW k \in 0 .. n - 1, k \in K PROVE k + 1 \in K  BY <1>1, <1>3
<1>4. 0 .. n \subseteq K
  <2> HIDE DEF K
  <2> QED BY <1>2, <1>3, Inductive
<1> QED BY <1>1, <1>4

LEMMA ProductInField ==
    ASSUME NEW n \in Nat, NEW s \in [1 .. n -> Int]
    PROVE  Product(s) \in Field /\ Product(s) \in Int
<1>1. Products(s, n) \in [0 .. n -> Field] /\ Product(s) = Products(s, n)[n]  BY ProductSteps
<1>2. n \in 0 .. n  OBVIOUS
<1> QED BY <1>1, <1>2, Fields

LEMMA ProductSame ==
    ASSUME NEW n \in Nat, NEW s \in [1 .. n -> Int], NEW u \in [1 .. n -> Int],
           \A k \in 1 .. n : Equal(u[k], s[k])
    PROVE  Product(u) = Product(s)
<1> DEFINE T == Products(s, n)
<1>1. /\ T \in [0 .. n -> Field] /\ T[0] = 1 /\ Product(s) = T[n]
      /\ \A k \in 1 .. n : T[k] = (T[k - 1] * s[k]) % P
    BY ProductSteps
<1> HIDE DEF T
<1>2. ASSUME NEW k \in 1 .. n PROVE T[k] = (T[k - 1] * u[k]) % P  BY <1>1, Fields, EqualProduct DEF Equal
<1> QED BY <1>1, <1>2, ProductBySteps

-----------------------------------------------------------------------------
(* A row of the round polynomial *)

\* The k-th coefficient of c times a + (b - a) x, not yet reduced.
Entry(c, a, b, k) ==
    (IF k <= Len(c) THEN c[k] * a ELSE 0) + (IF k > 1 THEN c[k - 1] * (b - a) ELSE 0)

LEMMA TimesLinearTyped ==
    ASSUME NEW n \in Nat, NEW c \in Seq(Int), Len(c) = n, NEW a \in Int, NEW b \in Int
    PROVE  /\ TimesLinear(c, a, b) \in Seq(Field) /\ TimesLinear(c, a, b) \in Seq(Int)
           /\ Len(TimesLinear(c, a, b)) = n + 1
           /\ \A k \in 1 .. n + 1 : TimesLinear(c, a, b)[k] = Entry(c, a, b, k) % P
<1> DEFINE e(k) == Entry(c, a, b, k)
           t == [k \in 1 .. n + 1 |-> e(k) % P]
<1>1. ASSUME NEW k \in 1 .. n + 1 PROVE e(k) \in Int  BY DEF Entry
<1>2. ASSUME NEW k \in 1 .. n + 1 PROVE e(k) % P \in Field
  <2> HIDE DEF e
  <2> QED BY <1>1, Division
<1>3. t \in [1 .. n + 1 -> Field]
  <2> HIDE DEF e
  <2> QED BY <1>2
<1>4. t \in Seq(Field) /\ Len(t) = n + 1 /\ n + 1 \in Nat
  <2> HIDE DEF t
  <2>1. n + 1 \in Nat  OBVIOUS
  <2>2. t \in Seq(Field)  BY <1>3, <2>1
  <2>3. DOMAIN t = 1 .. n + 1  BY <1>3
  <2> QED BY <2>1, <2>2, <2>3
<1>5. TimesLinear(c, a, b) = t \o <<>>  BY DEF TimesLinear, Strict, Entry
<1>6. \A k \in 1 .. n + 1 : t[k] = e(k) % P  OBVIOUS
<1> HIDE DEF t
<1>7. t \o <<>> = t  BY <1>4
<1>8. t \in Seq(Int)  BY <1>4, Fields
<1> QED BY <1>4, <1>5, <1>6, <1>7, <1>8

LEMMA EvaluateTimesLinear ==
    ASSUME NEW c \in Seq(Int), NEW a \in Int, NEW b \in Int, NEW x \in Int
    PROVE  Evaluate(TimesLinear(c, a, b), x) = (Evaluate(c, x) * (a + (x * (b - a)))) % P
<1> DEFINE n == Len(c)
           e == TimesLinear(c, a, b)
           low == Padded(c, n + 1)
           high == [k \in 1 .. n + 1 |-> IF k > 1 THEN c[k - 1] ELSE 0]
           rest == [k \in 1 .. n |-> high[k + 1]]
<1>1. n \in Nat /\ n + 1 \in Nat /\ c \in [1 .. n -> Int] /\ n <= n + 1  OBVIOUS
<1>2. /\ low \in [1 .. n + 1 -> Int] /\ Evaluate(low, x) = Evaluate(c, x)
      /\ Evaluate(c, x) \in Int
    BY <1>1, EvaluatePadded
<1>3. high \in [1 .. n + 1 -> Int]
  <2>1. ASSUME NEW k \in 1 .. n + 1, k > 1 PROVE c[k - 1] \in Int  BY <1>1, <2>1
  <2> QED BY <2>1
<1>4. rest = c
  <2>1. ASSUME NEW k \in 1 .. n PROVE high[k + 1] = c[k]  BY <1>1
  <2>2. c = [k \in 1 .. n |-> c[k]]  BY <1>1
  <2> HIDE DEF n, high
  <2> QED BY <2>1, <2>2
<1>5. Evaluate(high, x) = (Evaluate(c, x) * x) % P
  <2>1. high[1] = 0  BY <1>1
  <2> HIDE DEF high, n
  <2>2. Evaluate(high, x) = (Evaluate(rest, x) * x + high[1]) % P  BY <1>1, <1>3, EvaluateCons
  <2>3. Evaluate(c, x) * x + 0 = Evaluate(c, x) * x  BY <1>2
  <2> QED BY <1>4, <2>1, <2>2, <2>3
<1>6. e \in Seq(Int) /\ Len(e) = n + 1 /\ e \in [1 .. n + 1 -> Int]
      /\ \A k \in 1 .. n + 1 : e[k] = Entry(c, a, b, k) % P
  <2>1. /\ e \in Seq(Int) /\ Len(e) = n + 1
        /\ \A k \in 1 .. n + 1 : e[k] = Entry(c, a, b, k) % P
      BY <1>1, TimesLinearTyped
  <2> HIDE DEF e, n
  <2> QED BY <2>1
<1>7. \A k \in 1 .. n + 1 : Equal(e[k], Mix(a, low[k], b - a, high[k]))
  <2> TAKE k \in 1 .. n + 1
  <2>1. low[k] = (IF k <= n THEN c[k] ELSE 0) /\ high[k] = (IF k > 1 THEN c[k - 1] ELSE 0)
      BY DEF Padded
  <2>2. low[k] \in Int /\ high[k] \in Int  BY <1>2, <1>3
  <2>3. (IF k <= n THEN c[k] * a ELSE 0) = a * low[k]
    <3>1. k <= n => c[k] \in Int  BY <1>1
    <3> HIDE DEF low, high, n
    <3> QED BY <2>1, <2>2, <3>1
  <2>4. (IF k > 1 THEN c[k - 1] * (b - a) ELSE 0) = (b - a) * high[k]
    <3>1. k > 1 => c[k - 1] \in Int  BY <1>1
    <3> HIDE DEF low, high, n
    <3> QED BY <2>1, <2>2, <3>1
  <2> HIDE DEF low, high, n, e
  <2>5. Mix(a, low[k], b - a, high[k]) \in Int  BY <2>2 DEF Mix
  <2>6. Entry(c, a, b, k) = Mix(a, low[k], b - a, high[k])  BY <2>3, <2>4 DEF Mix, Entry, n
  <2>7. e[k] = Mix(a, low[k], b - a, high[k]) % P  BY <1>6, <2>6
  <2> QED BY <2>5, <2>7, EqualReduced
<1> HIDE DEF e, low, high, rest, n
<1>8. Combines(n + 1, e, a, low, b - a, high)  BY <1>2, <1>3, <1>6, <1>7 DEF Combines
<1>9. Evaluate(e, x) = Mix(a, Evaluate(low, x), b - a, Evaluate(high, x)) % P
    BY <1>1, <1>8, EvaluateLinear
<1> DEFINE v == Evaluate(c, x)
<1>10. Equal(Mix(a, v, b - a, (v * x) % P), v * (a + (x * (b - a))))
  <2>0. v \in Int  BY <1>2
  <2> HIDE DEF v
  <2>1. v * x \in Int /\ b - a \in Int /\ (v * x) % P \in Int  BY <2>0, Division, Fields
  <2>2. Equal((b - a) * ((v * x) % P), (b - a) * (v * x))
      BY <2>1, EqualReduced, EqualProduct DEF Equal
  <2>3. Equal(a * v + (b - a) * ((v * x) % P), a * v + (b - a) * (v * x))
      BY <2>0, <2>1, <2>2, EqualSum DEF Equal
  <2>4. a * v + (b - a) * (v * x) = v * (a + (x * (b - a)))  BY <2>0
  <2> QED BY <2>3, <2>4 DEF Mix
<1> QED BY <1>2, <1>5, <1>9, <1>10 DEF e, Equal

\* The row of the round polynomial at i, which TimesLinear builds factor by factor.
RowOf(fs, i, h) == FoldLeft(LAMBDA c, t : TimesLinear(c, t[i], t[i + h]), <<1>>, fs)

RowPoints(fs, n, i, h) ==
    /\ DOMAIN fs = 1 .. n
    /\ \A k \in 1 .. n : fs[k][i] \in Int /\ fs[k][i + h] \in Int

\* The row as the factors are taken in, one at a time.
Growing(T, fs, n, i, h) ==
    /\ T \in [0 .. n -> Seq(Int)] /\ T[0] = <<1>>
    /\ \A k \in 1 .. n : T[k] = TimesLinear(T[k - 1], fs[k][i], fs[k][i + h])
    /\ RowOf(fs, i, h) = T[n]

LEMMA RowSteps ==
    ASSUME NEW fs, NEW n \in Nat, NEW i \in Nat, NEW h \in Nat, RowPoints(fs, n, i, h)
    PROVE  \E T : Growing(T, fs, n, i, h)
<1>0. /\ DOMAIN fs = 1 .. n
      /\ \A k \in 1 .. n : fs[k][i] \in Int /\ fs[k][i + h] \in Int
    BY DEF RowPoints
<1> DEFINE g == [p \in Seq(Int) \X (1 .. n) |-> TimesLinear(p[1], fs[p[2]][i], fs[p[2]][i + h])]
           next == [S \in SUBSET (1 .. n) |-> Max(S)]
           F == CHOOSE f : f = [S \in SUBSET (1 .. n) |->
                      IF S = {} THEN <<1>> ELSE TimesLinear(f[S \ {Max(S)}], fs[Max(S)][i], fs[Max(S)][i + h])]
           T == [k \in 0 .. n |-> F[1 .. k]]
<1>1. RowOf(fs, i, h) = F[1 .. n]  BY <1>0 DEF RowOf, FoldLeft, MapThenFoldSet
<1>2. ASSUME NEW S \in SUBSET (1 .. n), S # {}
      PROVE  Max(S) \in S /\ Max(S) \in 1 .. n /\ \A k \in S : k <= Max(S)
    BY <1>0, <1>2, Greatest
<1>3. g \in [Seq(Int) \X (1 .. n) -> Seq(Int)]
  <2>1. ASSUME NEW p \in Seq(Int) \X (1 .. n)
        PROVE  TimesLinear(p[1], fs[p[2]][i], fs[p[2]][i + h]) \in Seq(Int)
    <3>1. p[1] \in Seq(Int) /\ p[2] \in 1 .. n /\ Len(p[1]) \in Nat  OBVIOUS
    <3>2. fs[p[2]][i] \in Int /\ fs[p[2]][i + h] \in Int  BY <1>0, <3>1
    <3> QED BY <3>1, <3>2, TimesLinearTyped
  <2> QED BY <2>1
<1>4. \A S \in SUBSET (1 .. n) : S # {} => next[S] \in S  BY <1>2
<1>5. \E f : f = [S \in SUBSET (1 .. n) |->
                    IF S = {} THEN <<1>> ELSE TimesLinear(f[S \ {Max(S)}], fs[Max(S)][i], fs[Max(S)][i + h])]
  <2>1. PICK f \in [SUBSET (1 .. n) -> Seq(Int)] : Iterates(f, n, <<1>>, g, next)
    <3> HIDE DEF g, next
    <3>1. <<1>> \in Seq(Int)  OBVIOUS
    <3> QED BY <1>0, <1>3, <1>4, <3>1, Iteration
  <2>2. ASSUME NEW S \in SUBSET (1 .. n), S # {}
        PROVE  g[<<f[S \ {next[S]}], next[S]>>] = TimesLinear(f[S \ {Max(S)}], fs[Max(S)][i], fs[Max(S)][i + h])
    <3>1. next[S] = Max(S) /\ Max(S) \in 1 .. n /\ f[S \ {Max(S)}] \in Seq(Int)  BY <1>2, <2>2
    <3> HIDE DEF next
    <3> QED BY <3>1
  <2>3. f = [S \in SUBSET (1 .. n) |->
               IF S = {} THEN <<1>> ELSE TimesLinear(f[S \ {Max(S)}], fs[Max(S)][i], fs[Max(S)][i + h])]
    <3> HIDE DEF g, next
    <3> QED BY <2>1, <2>2 DEF Iterates
  <2> QED BY <2>3, Zenon
<1>6. F = [S \in SUBSET (1 .. n) |->
             IF S = {} THEN <<1>> ELSE TimesLinear(F[S \ {Max(S)}], fs[Max(S)][i], fs[Max(S)][i + h])]
    BY <1>5, Zenon
<1> HIDE DEF F, g, next
<1>7. T[0] = <<1>>  BY <1>6
<1>8. ASSUME NEW k \in 1 .. n
      PROVE  T[k] = TimesLinear(T[k - 1], fs[k][i], fs[k][i + h])
  <2>1. 1 .. k \in SUBSET (1 .. n) /\ 1 .. k # {} /\ k \in 1 .. k  OBVIOUS
  <2>2. Max(1 .. k) = k  BY <1>2, <2>1
  <2>3. (1 .. k) \ {k} = 1 .. k - 1  OBVIOUS
  <2>4. F[1 .. k] = TimesLinear(F[1 .. k - 1], fs[k][i], fs[k][i + h])  BY <1>6, <2>1, <2>2, <2>3
  <2> QED BY <2>4
<1>9. T \in [0 .. n -> Seq(Int)]
  <2>0. DOMAIN T = 0 .. n /\ T = [k \in 0 .. n |-> T[k]]  OBVIOUS
  <2> HIDE DEF T
  <2> DEFINE K == {k \in 0 .. n : T[k] \in Seq(Int)}
  <2>1. 0 \in K
    <3>1. <<1>> \in Seq(Int) /\ 0 \in 0 .. n  OBVIOUS
    <3> QED BY <1>7, <3>1
  <2>2. ASSUME NEW k \in 0 .. n - 1, k \in K PROVE k + 1 \in K
    <3>1. k + 1 \in 1 .. n /\ k + 1 - 1 = k /\ T[k] \in Seq(Int) /\ k + 1 \in 0 .. n /\ Len(T[k]) \in Nat
        BY <2>2
    <3>2. fs[k + 1][i] \in Int /\ fs[k + 1][i + h] \in Int  BY <1>0, <3>1
    <3>3. T[k + 1] = TimesLinear(T[k], fs[k + 1][i], fs[k + 1][i + h])  BY <1>8, <3>1
    <3>4. T[k + 1] \in Seq(Int)  BY <3>1, <3>2, <3>3, TimesLinearTyped
    <3> QED BY <3>1, <3>4
  <2>3. 0 .. n \subseteq K
    <3> HIDE DEF K
    <3> QED BY <2>1, <2>2, Inductive
  <2> QED BY <2>0, <2>3
<1>10. RowOf(fs, i, h) = T[n]  BY <1>1
<1> HIDE DEF T
<1>11. Growing(T, fs, n, i, h)  BY <1>7, <1>8, <1>9, <1>10 DEF Growing
<1> QED BY <1>11

\* Factor k at x on the line from i to i + h.
LineAt(fs, k, i, h, x) == fs[k][i] + (x * (fs[k][i + h] - fs[k][i]))

\* The value of a row is the product of the factors' values on the line from i to i + h.
LEMMA EvaluateRow ==
    ASSUME NEW fs, NEW n \in Nat, NEW i \in Nat, NEW h \in Nat, RowPoints(fs, n, i, h), NEW x \in Int
    PROVE  /\ RowOf(fs, i, h) \in Seq(Int) /\ Len(RowOf(fs, i, h)) = n + 1
           /\ Evaluate(RowOf(fs, i, h), x) = Product([k \in 1 .. n |-> LineAt(fs, k, i, h, x)])
<1>0. /\ DOMAIN fs = 1 .. n
      /\ \A k \in 1 .. n : fs[k][i] \in Int /\ fs[k][i + h] \in Int
    BY DEF RowPoints
<1> PICK T : Growing(T, fs, n, i, h)
    BY RowSteps
<1>1. /\ T \in [0 .. n -> Seq(Int)] /\ T[0] = <<1>>
      /\ \A k \in 1 .. n : T[k] = TimesLinear(T[k - 1], fs[k][i], fs[k][i + h])
      /\ RowOf(fs, i, h) = T[n]
    BY DEF Growing
<1> DEFINE s == [k \in 1 .. n |-> LineAt(fs, k, i, h, x)]
           E == [k \in 0 .. n |-> Evaluate(T[k], x)]
           K == {k \in 0 .. n : Len(T[k]) = k + 1}
<1>2. ASSUME NEW k \in 1 .. n PROVE s[k] \in Int
  <2>1. fs[k][i] \in Int /\ fs[k][i + h] \in Int /\ s[k] = fs[k][i] + (x * (fs[k][i + h] - fs[k][i]))
      BY <1>0 DEF LineAt
  <2> HIDE DEF s
  <2> QED BY <2>1
<1>3. s \in [1 .. n -> Int]
  <2>1. s = [k \in 1 .. n |-> s[k]]  OBVIOUS
  <2> HIDE DEF s
  <2> QED BY <1>2, <2>1
<1>4. ASSUME NEW k \in 1 .. n
      PROVE  /\ k - 1 \in 0 .. n /\ k \in 0 .. n /\ T[k - 1] \in Seq(Int)
             /\ fs[k][i] \in Int /\ fs[k][i + h] \in Int
             /\ T[k] = TimesLinear(T[k - 1], fs[k][i], fs[k][i + h])
    BY <1>0, <1>1
<1>5. 0 .. n \subseteq K
  <2>1. 0 \in K
    <3>1. Len(<<1>>) = 0 + 1 /\ 0 \in 0 .. n  OBVIOUS
    <3> QED BY <1>1, <3>1
  <2>2. ASSUME NEW k \in 0 .. n - 1, k \in K PROVE k + 1 \in K
    <3>1. k + 1 \in 1 .. n /\ k + 1 - 1 = k /\ k + 1 \in 0 .. n /\ Len(T[k]) = k + 1 /\ k + 1 \in Nat
        BY <1>0, <2>2
    <3>2. Len(T[k + 1]) = k + 1 + 1
      <4> DEFINE a == fs[k + 1][i]
                 b == fs[k + 1][i + h]
                 c == T[k]
                 m == k + 1
      <4>1. a \in Int /\ b \in Int /\ c \in Seq(Int) /\ T[k + 1] = TimesLinear(c, a, b)
          BY <1>4, <3>1
      <4>2. Len(c) = m /\ m \in Nat  BY <3>1
      <4> HIDE DEF a, b, c, m
      <4>3. Len(TimesLinear(c, a, b)) = m + 1  BY <4>1, <4>2, TimesLinearTyped
      <4> QED BY <4>1, <4>3 DEF m
    <3> QED BY <3>1, <3>2
  <2> HIDE DEF K
  <2> QED BY <1>0, <2>1, <2>2, Inductive
<1>6. E[0] = 1
  <2>1. 0 \in 0 .. n  BY <1>0
  <2>2. Evaluate(<<1>>, x) = 1 % P
    <3> DEFINE one == 1
    <3>1. one \in Int  OBVIOUS
    <3>2. Evaluate(<<one>>, x) = one % P
      <4> HIDE DEF one
      <4> QED BY <3>1, EvaluateConstant
    <3> QED BY <3>2
  <2>3. 1 % P = 1  BY Fields, InField
  <2> QED BY <1>1, <2>1, <2>2, <2>3
<1>7. ASSUME NEW k \in 1 .. n PROVE E[k] = (E[k - 1] * s[k]) % P
  <2>1. E[k] = Evaluate(T[k], x) /\ E[k - 1] = Evaluate(T[k - 1], x)
        /\ s[k] = fs[k][i] + (x * (fs[k][i + h] - fs[k][i]))
      BY <1>4 DEF LineAt
  <2> HIDE DEF E, s
  <2> DEFINE a == fs[k][i]
             b == fs[k][i + h]
             c == T[k - 1]
  <2>2. a \in Int /\ b \in Int /\ c \in Seq(Int) /\ T[k] = TimesLinear(c, a, b)  BY <1>4
  <2> HIDE DEF a, b, c
  <2>3. Evaluate(TimesLinear(c, a, b), x) = (Evaluate(c, x) * (a + (x * (b - a)))) % P
      BY <2>2, EvaluateTimesLinear
  <2> QED BY <2>1, <2>2, <2>3 DEF a, b, c
<1>8. E[n] = Evaluate(T[n], x) /\ T[n] \in Seq(Int) /\ Len(T[n]) = n + 1  BY <1>0, <1>1, <1>5
<1> HIDE DEF E, s, K
<1>9. Product(s) = E[n]  BY <1>0, <1>3, <1>6, <1>7, ProductBySteps
<1> QED BY <1>1, <1>8, <1>9 DEF s

LEMMA Regroup ==
    ASSUME NEW u \in Int, NEW v \in Int, NEW w \in Int
    PROVE  (u + ((v + w) % P)) % P = (((u + v) % P) + w) % P
<1>1. v + w \in Int /\ u + v \in Int  OBVIOUS
<1>2. (v + w) % P \in Int /\ (u + v) % P \in Int  BY <1>1, Division, Fields
<1>3. Equal(u + ((v + w) % P), u + (v + w))  BY <1>1, EqualReduced, <1>2, EqualSum DEF Equal
<1>4. Equal(((u + v) % P) + w, (u + v) + w)  BY <1>1, EqualReduced, <1>2, EqualSum DEF Equal
<1>5. u + (v + w) = (u + v) + w  OBVIOUS
<1> QED BY <1>3, <1>4, <1>5 DEF Equal

\* A sum in two parts.
LEMMA TotalConcat ==
    ASSUME NEW m \in Nat, NEW n \in Nat, NEW s \in [1 .. m + n -> Int]
    PROVE  Total(s) = (Total([k \in 1 .. m |-> s[k]]) + Total([k \in 1 .. n |-> s[m + k]])) % P
<1> DEFINE a == [k \in 1 .. m |-> s[k]]
           b == [k \in 1 .. n |-> s[m + k]]
           A == Totals(a, m)
           B == Totals(b, n)
           T == [k \in 0 .. m + n |-> IF k <= m THEN A[k] ELSE (A[m] + B[k - m]) % P]
<1>1. a \in [1 .. m -> Int]  OBVIOUS
<1>2. b \in [1 .. n -> Int]  OBVIOUS
<1>3. /\ A \in [0 .. m -> Field] /\ A[0] = 0 /\ Total(a) = A[m]
      /\ \A k \in 1 .. m : A[k] = (A[k - 1] + a[k]) % P
  <2> HIDE DEF a
  <2> QED BY <1>1, TotalSteps
<1>4. /\ B \in [0 .. n -> Field] /\ B[0] = 0 /\ Total(b) = B[n]
      /\ \A k \in 1 .. n : B[k] = (B[k - 1] + b[k]) % P
  <2> HIDE DEF b
  <2> QED BY <1>2, TotalSteps
<1> HIDE DEF A, B
<1>5. T[0] = 0  BY <1>3
<1>6. ASSUME NEW k \in 1 .. m + n PROVE T[k] = (T[k - 1] + s[k]) % P
  <2>1. k \in 0 .. m + n /\ k - 1 \in 0 .. m + n /\ s[k] \in Int  OBVIOUS
  <2>2. CASE k <= m  BY <2>1, <2>2, <1>3
  <2>3. CASE ~(k <= m)
    <3> DEFINE j == k - m
    <3>1. j \in 1 .. n /\ j - 1 \in 0 .. n /\ m + j = k /\ j - 1 = k - 1 - m /\ j \in 0 .. n
        BY <2>3
    <3>2. T[k] = (A[m] + B[j]) % P /\ b[j] = s[k]  BY <2>1, <2>3, <3>1
    <3>3. A[m] \in Field /\ A[m] \in Int /\ B[j - 1] \in Int  BY <1>3, <1>4, <3>1, Fields
    <3>4. T[k - 1] = (A[m] + B[j - 1]) % P
      <4>1. CASE k - 1 <= m
        <5>1. j - 1 = 0 /\ k - 1 = m  BY <2>3, <4>1, <3>1
        <5>2. T[k - 1] = A[m] /\ A[m] + B[j - 1] = A[m]  BY <1>4, <2>1, <3>3, <5>1
        <5> QED BY <3>3, <5>2, InField
      <4>2. CASE ~(k - 1 <= m)  BY <2>1, <3>1, <4>2
      <4> QED BY <4>1, <4>2
    <3>5. B[j] = (B[j - 1] + s[k]) % P  BY <1>4, <3>1, <3>2
    <3> HIDE DEF T, j, b
    <3>6. (A[m] + ((B[j - 1] + s[k]) % P)) % P = (((A[m] + B[j - 1]) % P) + s[k]) % P
        BY <2>1, <3>3, Regroup
    <3>7. T[k] = (A[m] + ((B[j - 1] + s[k]) % P)) % P  BY <3>2, <3>5
    <3>8. T[k - 1] + s[k] = ((A[m] + B[j - 1]) % P) + s[k]  BY <3>4
    <3> QED BY <3>6, <3>7, <3>8
  <2> QED BY <2>2, <2>3
<1>7. T[m + n] = (A[m] + B[n]) % P
  <2>1. m + n \in 0 .. m + n /\ m + n - m = n /\ m \in 0 .. m  OBVIOUS
  <2>2. CASE n = 0  BY <1>3, <1>4, <2>1, <2>2, Fields, InField
  <2>3. CASE n # 0  BY <2>3, <2>1
  <2> QED BY <2>2, <2>3
<1> HIDE DEF T
<1> DEFINE N == m + n
<1>8. N \in Nat /\ s \in [1 .. N -> Int] /\ T[N] = (A[m] + B[n]) % P
      /\ \A k \in 1 .. N : T[k] = (T[k - 1] + s[k]) % P
    BY <1>6, <1>7
<1> HIDE DEF N
<1>9. Total(s) = T[N]  BY <1>5, <1>8, TotalBySteps
<1> QED BY <1>3, <1>4, <1>8, <1>9

-----------------------------------------------------------------------------
(* The tables of a member *)

\* n factors, each the table of its values at L points.
Tables(fs, n, L) ==
    /\ n \in Nat /\ n > 0 /\ L \in Nat
    /\ fs \in [1 .. n -> [1 .. L -> Field]]

LEMMA TableLengths ==
    ASSUME NEW fs, NEW n, NEW L, Tables(fs, n, L)
    PROVE  /\ Len(fs) = n /\ DOMAIN fs = 1 .. n /\ 1 \in 1 .. n
           /\ L \div 2 \in Nat /\ 2 * (L \div 2) <= L
           /\ \A k \in 1 .. n : /\ Len(fs[k]) = L /\ Half(fs[k]) = L \div 2
                                /\ \A i \in 1 .. L : fs[k][i] \in Field /\ fs[k][i] \in Int
<1>1. n \in Nat /\ L \in Nat /\ n > 0 /\ DOMAIN fs = 1 .. n  BY DEF Tables
<1>2. Len(fs) = n  BY <1>1
<1>3. ASSUME NEW k \in 1 .. n
      PROVE  /\ Len(fs[k]) = L /\ Half(fs[k]) = L \div 2
             /\ \A i \in 1 .. L : fs[k][i] \in Field /\ fs[k][i] \in Int
    BY <1>1, Fields DEF Tables, Half
<1>4. L \div 2 \in Nat /\ 2 * (L \div 2) <= L  BY <1>1
<1> QED BY <1>1, <1>2, <1>3, <1>4

LEMMA StrictIsItself ==
    ASSUME NEW n \in Nat, NEW V, NEW s \in [1 .. n -> V]
    PROVE  Strict(s) = s /\ s \in Seq(V) /\ Len(s) = n
<1>1. s \in Seq(V) /\ Len(s) = n  OBVIOUS
<1> QED BY <1>1 DEF Strict

LEMMA Lines ==
    ASSUME NEW fs, NEW n, NEW L, Tables(fs, n, L), NEW x \in Int,
           NEW k \in 1 .. n, NEW i \in 1 .. L \div 2
    PROVE  /\ i \in 1 .. L /\ i + (L \div 2) \in 1 .. L
           /\ fs[k][i] \in Int /\ fs[k][i + (L \div 2)] \in Int
           /\ LineAt(fs, k, i, L \div 2, x) \in Int
<1> DEFINE h == L \div 2
<1>1. h \in Nat /\ 2 * h <= L /\ L \in Nat  BY TableLengths DEF Tables
<1> HIDE DEF h
<1>2. i \in 1 .. h  BY DEF h
<1>3. i \in 1 .. L /\ i + h \in 1 .. L  BY <1>1, <1>2
<1>4. fs[k][i] \in Int /\ fs[k][i + h] \in Int  BY <1>3, TableLengths
<1> QED BY <1>3, <1>4 DEF LineAt, h

LEMMA BindTyped ==
    ASSUME NEW fs, NEW n, NEW L, Tables(fs, n, L), NEW r \in Int
    PROVE  /\ Tables(Bind(fs, r), n, L \div 2)
           /\ \A k \in 1 .. n : \A i \in 1 .. L \div 2 :
                  Bind(fs, r)[k][i] = LineAt(fs, k, i, L \div 2, r) % P
<1> DEFINE h == L \div 2
<1>1. /\ n \in Nat /\ n > 0 /\ L \in Nat /\ h \in Nat /\ Len(fs) = n
      /\ \A k \in 1 .. n : Half(fs[k]) = h
    BY TableLengths DEF Tables
<1>2. ASSUME NEW k \in 1 .. n
      PROVE  BindTable(fs[k], r) = [i \in 1 .. h |-> LineAt(fs, k, i, h, r) % P]
             /\ BindTable(fs[k], r) \in [1 .. h -> Field]
  <2> DEFINE t == [i \in 1 .. h |-> LineAt(fs, k, i, h, r) % P]
  <2>1. \A i \in 1 .. h : LineAt(fs, k, i, h, r) \in Int  BY Lines
  <2>2. t \in [1 .. h -> Field]
    <3> HIDE DEF h
    <3> QED BY <2>1, Division
  <2>3. BindTable(fs[k], r) = Strict(t)  BY <1>1 DEF BindTable, LineAt
  <2> HIDE DEF t, h
  <2>4. Strict(t) = t  BY <1>1, <2>2, StrictIsItself
  <2> QED BY <2>2, <2>3, <2>4 DEF t
<1>3. Bind(fs, r) = [k \in 1 .. n |-> BindTable(fs[k], r)]  BY <1>1 DEF Bind
<1> HIDE DEF h
<1>4. Bind(fs, r) \in [1 .. n -> [1 .. h -> Field]]  BY <1>2, <1>3
<1>5. Tables(Bind(fs, r), n, h)  BY <1>1, <1>4 DEF Tables
<1>6. \A k \in 1 .. n : \A i \in 1 .. h : Bind(fs, r)[k][i] = LineAt(fs, k, i, h, r) % P
  <2> TAKE k \in 1 .. n
  <2> TAKE i \in 1 .. h
  <2>1. Bind(fs, r)[k] = [j \in 1 .. h |-> LineAt(fs, k, j, h, r) % P]  BY <1>2, <1>3
  <2> QED BY <2>1
<1> QED BY <1>5, <1>6 DEF h

-----------------------------------------------------------------------------
(* The round polynomial of a member *)

\* The product of the factors at x on the line from i.
Along(fs, i, x) ==
    Product([k \in 1 .. Len(fs) |-> LineAt(fs, k, i, Half(fs[1]), x)])

LEMMA EvaluateRoundPoly ==
    ASSUME NEW fs, NEW n, NEW L, Tables(fs, n, L), NEW x \in Int
    PROVE  /\ RoundPoly(fs) \in [1 .. n + 1 -> Field] /\ RoundPoly(fs) \in [1 .. n + 1 -> Int]
           /\ \A i \in 1 .. L \div 2 : Along(fs, i, x) \in Int
           /\ Evaluate(RoundPoly(fs), x) = Total([i \in 1 .. L \div 2 |-> Along(fs, i, x)])
<1> DEFINE h == L \div 2
           rows == [i \in 1 .. h |-> RowOf(fs, i, h)]
<1>1. /\ n \in Nat /\ n > 0 /\ L \in Nat /\ h \in Nat /\ Len(fs) = n /\ DOMAIN fs = 1 .. n
      /\ Half(fs[1]) = h
    BY TableLengths DEF Tables
<1>2. RoundPoly(fs) = PolySum(Strict(rows), n + 1)  BY <1>1 DEF RoundPoly, RowOf
<1>3. ASSUME NEW i \in 1 .. h
      PROVE  /\ RowOf(fs, i, h) \in Seq(Int) /\ Len(RowOf(fs, i, h)) = n + 1
             /\ Evaluate(RowOf(fs, i, h), x) = Along(fs, i, x)
  <2>1. \A k \in 1 .. n : fs[k][i] \in Int /\ fs[k][i + h] \in Int  BY Lines, x \in Int
  <2>2. RowPoints(fs, n, i, h)
    <3> HIDE DEF h
    <3> QED BY <1>1, <2>1 DEF RowPoints
  <2>3. Along(fs, i, x) = Product([k \in 1 .. n |-> LineAt(fs, k, i, h, x)])
    <3> HIDE DEF h
    <3> QED BY <1>1 DEF Along
  <2>4. i \in Nat  OBVIOUS
  <2> HIDE DEF h
  <2> QED BY <1>1, <2>2, <2>3, <2>4, EvaluateRow
<1> HIDE DEF h
<1>4. rows \in [1 .. h -> Seq(Int)]  BY <1>3
<1>5. \A i \in 1 .. h : rows[i] = RowOf(fs, i, h)  OBVIOUS
<1> HIDE DEF rows
<1>6. Strict(rows) = rows /\ rows \in Seq(Seq(Int)) /\ Len(rows) = h  BY <1>1, <1>4, StrictIsItself
<1>7. Fit(rows, n + 1) /\ n + 1 \in Nat  BY <1>1, <1>3, <1>5, <1>6 DEF Fit
<1>8. ASSUME NEW i \in 1 .. h PROVE Along(fs, i, x) \in Int
  <2> DEFINE s == [k \in 1 .. n |-> LineAt(fs, k, i, h, x)]
  <2>1. \A k \in 1 .. n : LineAt(fs, k, i, h, x) \in Int  BY Lines DEF h
  <2>2. s \in [1 .. n -> Int]  BY <2>1
  <2>3. Along(fs, i, x) = Product(s)  BY <1>1 DEF Along
  <2> HIDE DEF s
  <2> QED BY <1>1, <2>2, <2>3, ProductInField
<1>9. Evaluate(PolySum(rows, n + 1), x) = Total([i \in 1 .. Len(rows) |-> Evaluate(rows[i], x)])
    BY <1>7, EvaluatePolySum
<1>10. [i \in 1 .. Len(rows) |-> Evaluate(rows[i], x)] = [i \in 1 .. h |-> Along(fs, i, x)]
    BY <1>3, <1>5, <1>6
<1>11. Evaluate(RoundPoly(fs), x) = Total([i \in 1 .. h |-> Along(fs, i, x)])
    BY <1>2, <1>6, <1>9, <1>10
<1>12. RoundPoly(fs) \in [1 .. n + 1 -> Field] /\ RoundPoly(fs) \in [1 .. n + 1 -> Int]
    BY <1>2, <1>6, <1>7, PolySumInField
<1> QED BY <1>8, <1>11, <1>12 DEF h

\* The product of the factors at point i of the hypercube.
AtPoint(fs, i) == Product([k \in 1 .. Len(fs) |-> fs[k][i]])

LEMMA SumOfProducts ==
    ASSUME NEW fs, NEW n, NEW L, Tables(fs, n, L)
    PROVE  /\ Sum(fs) = Total([i \in 1 .. L |-> AtPoint(fs, i)]) /\ Sum(fs) \in Field
           /\ \A i \in 1 .. L : AtPoint(fs, i) \in Field /\ AtPoint(fs, i) \in Int
<1>1. n \in Nat /\ L \in Nat /\ Len(fs) = n /\ 1 \in 1 .. n /\ Len(fs[1]) = L
    BY TableLengths DEF Tables
<1>2. Sum(fs) = Total([i \in 1 .. L |-> AtPoint(fs, i)])  BY <1>1 DEF Sum, AtPoint
<1>3. ASSUME NEW i \in 1 .. L PROVE AtPoint(fs, i) \in Field /\ AtPoint(fs, i) \in Int
  <2> DEFINE s == [k \in 1 .. n |-> fs[k][i]]
  <2>1. s \in [1 .. n -> Int]  BY TableLengths
  <2>2. AtPoint(fs, i) = Product(s)  BY <1>1 DEF AtPoint
  <2> HIDE DEF s
  <2> QED BY <1>1, <2>1, <2>2, ProductInField
<1>4. Sum(fs) \in Field
  <2> DEFINE s == [i \in 1 .. L |-> AtPoint(fs, i)]
  <2>1. s \in [1 .. L -> Int]  BY <1>3
  <2> HIDE DEF s
  <2>2. Total(s) \in Field  BY <1>1, <2>1, TotalInField
  <2> QED BY <1>2, <2>2 DEF s
<1> QED BY <1>2, <1>3, <1>4

\* At a challenge the round polynomial is the sum of the bound tables
\* (DenseMember::prove_round and bind).
THEOREM RoundPolyBinds ==
    ASSUME NEW fs, NEW n, NEW L, Tables(fs, n, L), NEW r \in Int
    PROVE  Evaluate(RoundPoly(fs), r) = Sum(Bind(fs, r))
<1> DEFINE h == L \div 2
           bs == Bind(fs, r)
<1>1. /\ n \in Nat /\ n > 0 /\ L \in Nat /\ h \in Nat /\ Len(fs) = n /\ Half(fs[1]) = h
    BY TableLengths DEF Tables
<1>2. Tables(bs, n, h) /\ \A k \in 1 .. n : \A i \in 1 .. h : bs[k][i] = LineAt(fs, k, i, h, r) % P
    BY BindTyped
<1>3. Len(bs) = n  BY <1>2, TableLengths
<1>4. Evaluate(RoundPoly(fs), r) = Total([i \in 1 .. h |-> Along(fs, i, r)])
      /\ \A i \in 1 .. h : Along(fs, i, r) \in Int
    BY EvaluateRoundPoly
<1>5. \A k \in 1 .. n : \A i \in 1 .. h : LineAt(fs, k, i, h, r) \in Int  BY Lines
<1> HIDE DEF h, bs
<1>6. ASSUME NEW i \in 1 .. h PROVE AtPoint(bs, i) = Along(fs, i, r)
  <2> DEFINE s == [k \in 1 .. n |-> bs[k][i]]
             u == [k \in 1 .. n |-> LineAt(fs, k, i, h, r)]
  <2>1. u \in [1 .. n -> Int]  BY <1>5
  <2>2. s \in [1 .. n -> Int]  BY <1>2, TableLengths
  <2>3. \A k \in 1 .. n : Equal(u[k], s[k])
    <3> TAKE k \in 1 .. n
    <3>1. u[k] \in Int /\ s[k] = u[k] % P  BY <1>2, <1>5
    <3> HIDE DEF u, s
    <3> QED BY <3>1, EqualReduced
  <2>4. AtPoint(bs, i) = Product(s) /\ Along(fs, i, r) = Product(u)
      BY <1>1, <1>3 DEF AtPoint, Along
  <2> HIDE DEF s, u
  <2> QED BY <1>1, <2>1, <2>2, <2>3, <2>4, ProductSame
<1>7. Sum(bs) = Total([i \in 1 .. h |-> AtPoint(bs, i)])  BY <1>2, SumOfProducts
<1>8. [i \in 1 .. h |-> AtPoint(bs, i)] = [i \in 1 .. h |-> Along(fs, i, r)]  BY <1>6
<1> QED BY <1>4, <1>7, <1>8 DEF bs

\* Its values at 0 and 1 add up to the sum of the tables: the check of
\* prove_batch's absorb_round holds of an honest member.
THEOREM RoundPolySums ==
    ASSUME NEW fs, NEW n, NEW h \in Nat, Tables(fs, n, h + h)
    PROVE  (Evaluate(RoundPoly(fs), 0) + Evaluate(RoundPoly(fs), 1)) % P = Sum(fs)
<1> DEFINE L == h + h
           zero == 0
           one == 1
<1>0. L \div 2 = h /\ L \in Nat /\ zero \in Int /\ one \in Int  OBVIOUS
<1>1. /\ n \in Nat /\ n > 0 /\ Len(fs) = n /\ Half(fs[1]) = h  BY <1>0, TableLengths DEF Tables
<1>2. /\ Evaluate(RoundPoly(fs), zero) = Total([i \in 1 .. h |-> Along(fs, i, zero)])
      /\ Evaluate(RoundPoly(fs), one) = Total([i \in 1 .. h |-> Along(fs, i, one)])
  <2> HIDE DEF zero, one
  <2> QED BY <1>0, EvaluateRoundPoly
<1>3. \A k \in 1 .. n : \A i \in 1 .. h : fs[k][i] \in Int /\ fs[k][i + h] \in Int  BY <1>0, Lines
<1>4. ASSUME NEW i \in 1 .. h
      PROVE  Along(fs, i, zero) = AtPoint(fs, i) /\ Along(fs, i, one) = AtPoint(fs, h + i)
  <2>1. ASSUME NEW k \in 1 .. n
        PROVE  LineAt(fs, k, i, h, zero) = fs[k][i] /\ LineAt(fs, k, i, h, one) = fs[k][h + i]
      BY <1>3 DEF LineAt
  <2>2. [k \in 1 .. n |-> LineAt(fs, k, i, h, zero)] = [k \in 1 .. n |-> fs[k][i]]
        /\ [k \in 1 .. n |-> LineAt(fs, k, i, h, one)] = [k \in 1 .. n |-> fs[k][h + i]]
    <3> HIDE DEF zero, one
    <3> QED BY <2>1
  <2> HIDE DEF zero, one
  <2> QED BY <1>1, <2>2 DEF Along, AtPoint
<1> DEFINE s == [i \in 1 .. L |-> AtPoint(fs, i)]
<1>5. Sum(fs) = Total(s) /\ s \in [1 .. h + h -> Int]  BY SumOfProducts
<1>6. /\ [i \in 1 .. h |-> s[i]] = [i \in 1 .. h |-> Along(fs, i, zero)]
      /\ [i \in 1 .. h |-> s[h + i]] = [i \in 1 .. h |-> Along(fs, i, one)]
  <2>1. ASSUME NEW i \in 1 .. h
        PROVE  s[i] = Along(fs, i, zero) /\ s[h + i] = Along(fs, i, one)
    <3>1. i \in 1 .. L /\ h + i \in 1 .. L  OBVIOUS
    <3> HIDE DEF zero, one
    <3> QED BY <1>4, <3>1
  <2> HIDE DEF s, zero, one
  <2> QED BY <2>1
<1> HIDE DEF s
<1>7. Total(s) = (Total([i \in 1 .. h |-> s[i]]) + Total([i \in 1 .. h |-> s[h + i]])) % P
    BY <1>5, TotalConcat
<1> QED BY <1>2, <1>5, <1>6, <1>7

-----------------------------------------------------------------------------
(* The compressed form *)

LEMMA EvaluateAtOne ==
    ASSUME NEW n \in Nat, NEW c \in [1 .. n -> Int]
    PROVE  Evaluate(c, 1) = Total(c)
<1> DEFINE one == 1
           H == Horner(c, one, n)
           rev == [k \in 1 .. n |-> c[n + 1 - k]]
           p == [k \in 1 .. n |-> n + 1 - k]
<1>1. /\ H \in [0 .. n -> Field] /\ H[0] = 0 /\ Evaluate(c, one) = H[n]
      /\ \A j \in 1 .. n : H[j] = (H[j - 1] * one + c[n + 1 - j]) % P
  <2>1. one \in Int  OBVIOUS
  <2> HIDE DEF one
  <2> QED BY <2>1, HornerSteps
<1> HIDE DEF H
<1>2. \A k \in 1 .. n : n + 1 - k \in 1 .. n  OBVIOUS
<1>3. rev \in [1 .. n -> Int]  BY <1>2
<1>4. \A k \in 1 .. n : H[k] = (H[k - 1] + rev[k]) % P
  <2> TAKE k \in 1 .. n
  <2>1. k - 1 \in 0 .. n  OBVIOUS
  <2>2. H[k - 1] \in Int  BY <1>1, <2>1, Fields
  <2>3. H[k - 1] * one = H[k - 1]  BY <2>2
  <2> QED BY <1>1, <2>3
<1>5. Total(rev) = H[n]
  <2> HIDE DEF rev
  <2> QED BY <1>1, <1>3, <1>4, TotalBySteps
<1>6. Scatters(n, rev, n, c, p)
  <2>1. p \in [1 .. n -> 1 .. n]  BY <1>2
  <2>2. \A k, l \in 1 .. n : p[k] = p[l] => k = l  OBVIOUS
  <2>3. \A k \in 1 .. n : Equal(c[p[k]], rev[k])  BY DEF Equal
  <2>4. ASSUME NEW q \in 1 .. n, \A k \in 1 .. n : p[k] # q PROVE FALSE  BY <2>4
  <2> HIDE DEF p, rev
  <2> QED BY <1>3, <2>1, <2>2, <2>3, <2>4 DEF Scatters
<1> HIDE DEF rev, p
<1>7. Total(c) = Total(rev)  BY <1>6, TotalScatter
<1> QED BY <1>1, <1>5, <1>7

LEMMA HintStep ==
    ASSUME NEW a \in Int, NEW b \in Field, NEW t \in Int
    PROVE  ((((a % P) + ((((t + b) % P) + a) % P)) % P) - 2 * a - t) % P = b
<1>1. t + b \in Int /\ b \in Int  BY Fields
<1>2. (t + b) % P \in Int /\ a % P \in Int  BY <1>1, Division, Fields
<1>3. PICK q1 \in Int : (t + b) % P = t + b + P * q1  BY <1>1, EqualReduced, <1>2, MultipleByEqual
<1>4. PICK q2 \in Int : a % P = a + P * q2  BY EqualReduced, <1>2, MultipleByEqual
<1> DEFINE v == ((t + b) % P) + a
<1>5. v \in Int /\ v = t + b + a + P * q1
  <2> DEFINE z == (t + b) % P
             y == P * q1
  <2>1. z \in Int /\ y \in Int /\ z = t + b + y  BY <1>2, <1>3, Characteristic
  <2> HIDE DEF z, y
  <2>2. z + a \in Int /\ z + a = t + b + a + y  BY <1>1, <2>1
  <2> QED BY <2>2 DEF z, y
<1> HIDE DEF v
<1>6. PICK q3 \in Int : v % P = v + P * q3  BY <1>5, EqualReduced, Division, Fields, MultipleByEqual
<1> DEFINE w == (a % P) + (v % P)
<1>7. w \in Int /\ w = a + P * q2 + (t + b + a + P * q1 + P * q3)
    BY <1>1, <1>2, <1>4, <1>5, <1>6, Characteristic
<1> HIDE DEF w
<1>8. PICK q4 \in Int : w % P = w + P * q4  BY <1>7, EqualReduced, Division, Fields, MultipleByEqual
<1> DEFINE d == (w % P) - 2 * a - t
           q == q1 + q2 + q3 + q4
<1>9. d = b + P * q /\ d \in Int /\ q \in Int  BY <1>1, <1>7, <1>8, Characteristic
<1> HIDE DEF d, q
<1>10. d % P = b  BY <1>1, <1>9, EqualByMultiple, InField DEF Equal
<1> QED BY <1>10 DEF d, w, v

\* The hint gives the linear coefficient back: the compressed form, with the
\* sum of the values at 0 and 1, has the values of the whole
\* (CompressedPoly::evaluate_with_hint).
THEOREM HintRecovers ==
    ASSUME NEW n \in Nat, NEW c \in Seq(Field), Len(c) = n + 2, NEW x \in Int
    PROVE  EvaluateWithHint(Compress(c), (Evaluate(c, 0) + Evaluate(c, 1)) % P, x) = Evaluate(c, x)
<1> DEFINE rest == SubSeq(c, 3, Len(c))
           most == [k \in 1 .. n + 1 |-> c[k + 1]]
           w == Compress(c)
           hint == (Evaluate(c, 0) + Evaluate(c, 1)) % P
<1>1. c \in [1 .. n + 2 -> Field] /\ c \in [1 .. n + 2 -> Int] /\ c[1] \in Int /\ c[2] \in Field /\ c[2] \in Int
    BY Fields
<1>2. rest \in Seq(Field) /\ Len(rest) = n /\ \A k \in 1 .. n : rest[k] = c[k + 2]  OBVIOUS
<1>3. w[1] = c[1] /\ Tail(w) = rest
  <2>1. w = <<c[1]>> \o rest  BY DEF Compress
  <2> HIDE DEF rest, w
  <2>2. Len(w) = n + 1 /\ \A k \in 1 .. n : w[k + 1] = rest[k]  BY <1>2, <2>1
  <2>3. w \in Seq(Field) /\ w[1] = c[1]  BY <1>1, <1>2, <2>1
  <2>4. Tail(w) \in Seq(Field) /\ Len(Tail(w)) = n /\ \A k \in 1 .. n : Tail(w)[k] = w[k + 1]
      BY <2>2, <2>3
  <2>5. Tail(w) = rest  BY <1>2, <2>2, <2>4
  <2> QED BY <2>3, <2>5
<1>4. rest \in [1 .. n -> Int] /\ rest = [k \in 1 .. n |-> c[k + 2]]
  <2> HIDE DEF rest
  <2>1. rest \in [1 .. n -> Field] /\ rest = [k \in 1 .. n |-> rest[k]]  BY <1>2
  <2>2. rest \in [1 .. n -> Int]  BY <2>1, Fields
  <2>3. rest = [k \in 1 .. n |-> c[k + 2]]  BY <1>2, <2>1
  <2> QED BY <2>2, <2>3
<1>5. most \in [1 .. n + 1 -> Int] /\ most[1] = c[2]
      /\ [k \in 1 .. n |-> most[k + 1]] = rest
  <2>1. \A k \in 1 .. n + 1 : k + 1 \in 1 .. n + 2  OBVIOUS
  <2>2. \A k \in 1 .. n : k + 1 \in 1 .. n + 1 /\ k + 1 + 1 = k + 2  OBVIOUS
  <2> HIDE DEF rest
  <2> QED BY <1>1, <1>4, <2>1, <2>2
<1> HIDE DEF rest, most, w
<1>6. Evaluate(c, 1) = (((Total(rest) + c[2]) % P) + c[1]) % P
  <2> DEFINE one == 1
             m == n + 1
  <2>0. one \in Int /\ m \in Nat /\ c \in [1 .. m + 1 -> Int] /\ most = [k \in 1 .. m |-> c[k + 1]]
        /\ most \in [1 .. n + 1 -> Int]
      BY <1>1, <1>5 DEF most
  <2>1. Evaluate(rest, one) = Total(rest) /\ Total(rest) \in Int
      BY <1>4, EvaluateAtOne, TotalInField
  <2> HIDE DEF one, m
  <2>2. Evaluate(c, one) = (Evaluate(most, one) * one + c[1]) % P  BY <2>0, EvaluateCons
  <2>3. Evaluate(most, one) = (Evaluate(rest, one) * one + most[1]) % P  BY <1>5, <2>0, EvaluateCons
  <2>4. Evaluate(most, one) \in Int /\ Evaluate(rest, one) \in Int  BY <1>4, <2>0, EvaluateInField
  <2>5. Evaluate(most, one) * one = Evaluate(most, one) /\ Evaluate(rest, one) * one = Evaluate(rest, one)
      BY <2>4 DEF one
  <2>6. Evaluate(most, one) = (Total(rest) + c[2]) % P  BY <1>5, <2>1, <2>3, <2>5
  <2>7. Evaluate(c, one) = (((Total(rest) + c[2]) % P) + c[1]) % P  BY <2>2, <2>5, <2>6
  <2> QED BY <2>7 DEF one
<1>7. Evaluate(c, 0) = c[1] % P
  <2> DEFINE m == n + 1
  <2>1. m \in Nat /\ c \in [1 .. m + 1 -> Int]  BY <1>1
  <2> HIDE DEF m
  <2> QED BY <2>1, EvaluateAtZero
<1>8. RecoverLinearTerm(w, hint) = c[2]
  <2>1. Total(rest) \in Int  BY <1>4, TotalInField
  <2>2. ((((c[1] % P) + ((((Total(rest) + c[2]) % P) + c[1]) % P)) % P) - 2 * c[1] - Total(rest)) % P = c[2]
      BY <1>1, <2>1, HintStep
  <2>3. hint = ((c[1] % P) + ((((Total(rest) + c[2]) % P) + c[1]) % P)) % P  BY <1>6, <1>7
  <2> HIDE DEF hint
  <2> QED BY <1>3, <2>2, <2>3 DEF RecoverLinearTerm
<1>9. <<c[1], c[2]>> \o rest = c
  <2> DEFINE d == <<c[1], c[2]>> \o rest
  <2>1. d \in Seq(Field) /\ Len(d) = n + 2  BY <1>1, <1>2
  <2>2. \A k \in 1 .. n + 2 : d[k] = c[k]
    <3> TAKE k \in 1 .. n + 2
    <3>1. CASE k = 1  BY <1>2, <3>1
    <3>2. CASE k = 2  BY <1>2, <3>2
    <3>3. CASE k > 2
      <4>1. k - 2 \in 1 .. n /\ k - 2 + 2 = k  BY <3>3
      <4>2. d[k] = rest[k - 2]  BY <1>2, <3>3
      <4> QED BY <1>2, <4>1, <4>2
    <3>4. k = 1 \/ k = 2 \/ k > 2  OBVIOUS
    <3> QED BY <3>1, <3>2, <3>3, <3>4
  <2> HIDE DEF d
  <2>3. d = c  BY <2>1, <2>2
  <2> QED BY <2>3 DEF d
<1> HIDE DEF hint
<1> QED BY <1>3, <1>8, <1>9 DEF EvaluateWithHint, hint, w

-----------------------------------------------------------------------------
(* Powers of two *)

Doubles(T, n) ==
    /\ T \in [0 .. n -> Nat] /\ T[0] = 1
    /\ \A k \in 1 .. n : T[k] = T[k - 1] * 2

LEMMA TwoToSteps ==
    ASSUME NEW n \in Nat
    PROVE  \E T : Doubles(T, n) /\ TwoTo(n) = T[n]
<1> DEFINE s == [j \in 1 .. n |-> 2]
           g == [p \in Nat \X (1 .. n) |-> p[1] * s[p[2]]]
           next == [S \in SUBSET (1 .. n) |-> Max(S)]
           F == CHOOSE f : f = [S \in SUBSET (1 .. n) |->
                      IF S = {} THEN 1 ELSE f[S \ {Max(S)}] * s[Max(S)]]
           T == [k \in 0 .. n |-> F[1 .. k]]
<1>1. TwoTo(n) = F[1 .. n]  BY DEF TwoTo, FoldLeft, MapThenFoldSet
<1>2. ASSUME NEW S \in SUBSET (1 .. n), S # {}
      PROVE  Max(S) \in S /\ Max(S) \in 1 .. n /\ \A k \in S : k <= Max(S)
    BY <1>2, Greatest
<1>3. g \in [Nat \X (1 .. n) -> Nat]
  <2>1. ASSUME NEW p \in Nat \X (1 .. n) PROVE p[1] * s[p[2]] \in Nat  OBVIOUS
  <2> HIDE DEF s
  <2> QED BY <2>1
<1>4. \A S \in SUBSET (1 .. n) : S # {} => next[S] \in S  BY <1>2
<1>5. \E f : f = [S \in SUBSET (1 .. n) |->
                    IF S = {} THEN 1 ELSE f[S \ {Max(S)}] * s[Max(S)]]
  <2>1. PICK f \in [SUBSET (1 .. n) -> Nat] : Iterates(f, n, 1, g, next)
    <3> HIDE DEF g, next
    <3>1. 1 \in Nat  OBVIOUS
    <3> QED BY <1>3, <1>4, <3>1, Iteration
  <2>2. ASSUME NEW S \in SUBSET (1 .. n), S # {}
        PROVE  g[<<f[S \ {next[S]}], next[S]>>] = f[S \ {Max(S)}] * s[Max(S)]
    <3>1. next[S] = Max(S) /\ Max(S) \in 1 .. n /\ f[S \ {Max(S)}] \in Nat  BY <1>2, <2>2
    <3> HIDE DEF next
    <3> QED BY <3>1
  <2>3. f = [S \in SUBSET (1 .. n) |->
               IF S = {} THEN 1 ELSE f[S \ {Max(S)}] * s[Max(S)]]
    <3> HIDE DEF g, next
    <3> QED BY <2>1, <2>2 DEF Iterates
  <2> QED BY <2>3, Zenon
<1>6. F = [S \in SUBSET (1 .. n) |->
             IF S = {} THEN 1 ELSE F[S \ {Max(S)}] * s[Max(S)]]
    BY <1>5, Zenon
<1> HIDE DEF F, g, next
<1>7. T[0] = 1  BY <1>6
<1>8. ASSUME NEW k \in 1 .. n
      PROVE  T[k] = T[k - 1] * s[k]
  <2>1. 1 .. k \in SUBSET (1 .. n) /\ 1 .. k # {} /\ k \in 1 .. k  OBVIOUS
  <2>2. Max(1 .. k) = k  BY <1>2, <2>1
  <2>3. (1 .. k) \ {k} = 1 .. k - 1  OBVIOUS
  <2>4. F[1 .. k] = F[1 .. k - 1] * s[k]  BY <1>6, <2>1, <2>2, <2>3
  <2> QED BY <2>4
<1>9. T \in [0 .. n -> Nat]
  <2>0. DOMAIN T = 0 .. n /\ T = [k \in 0 .. n |-> T[k]]  OBVIOUS
  <2> HIDE DEF T
  <2> DEFINE K == {k \in 0 .. n : T[k] \in Nat}
  <2>1. 0 \in K  BY <1>7
  <2>2. ASSUME NEW k \in 0 .. n - 1, k \in K PROVE k + 1 \in K  BY <2>2, <1>8
  <2>3. 0 .. n \subseteq K
    <3> HIDE DEF K
    <3> QED BY <2>1, <2>2, Inductive
  <2> QED BY <2>0, <2>3
<1>10. TwoTo(n) = T[n]  BY <1>1
<1> HIDE DEF T
<1>11. \A k \in 1 .. n : s[k] = 2  OBVIOUS
<1>12. Doubles(T, n)
  <2> HIDE DEF T, s
  <2> QED BY <1>7, <1>8, <1>9, <1>11 DEF Doubles
<1> QED BY <1>10, <1>12

LEMMA DoublesOnce ==
    ASSUME NEW n \in Nat, NEW m \in n .. n + 1, NEW T, NEW U, Doubles(T, n), Doubles(U, m)
    PROVE  T[n] = U[n]
<1> DEFINE K == {k \in 0 .. n : T[k] = U[k]}
<1>1. 0 \in K  BY DEF Doubles
<1>2. ASSUME NEW k \in 0 .. n - 1, k \in K PROVE k + 1 \in K  BY <1>2 DEF Doubles
<1>3. 0 .. n \subseteq K
  <2> HIDE DEF K
  <2> QED BY <1>1, <1>2, Inductive
<1> QED BY <1>3

LEMMA TwoToNext ==
    ASSUME NEW n \in Nat
    PROVE  TwoTo(n) \in Nat /\ TwoTo(n + 1) = TwoTo(n) + TwoTo(n)
<1>1. PICK T : Doubles(T, n) /\ TwoTo(n) = T[n]  BY TwoToSteps
<1>2. PICK U : Doubles(U, n + 1) /\ TwoTo(n + 1) = U[n + 1]  BY TwoToSteps
<1>3. T[n] = U[n]  BY <1>1, <1>2, DoublesOnce
<1>4. T[n] \in Nat /\ U[n + 1] = U[n] * 2  BY <1>1, <1>2 DEF Doubles
<1> QED BY <1>1, <1>2, <1>3, <1>4

LEMMA TwoToZero == TwoTo(0) = 1
<1>1. PICK T : Doubles(T, 0) /\ TwoTo(0) = T[0]
  <2> DEFINE z == 0
  <2>1. z \in Nat  OBVIOUS
  <2>2. \E T : Doubles(T, z) /\ TwoTo(z) = T[z]
    <3> HIDE DEF z
    <3> QED BY <2>1, TwoToSteps
  <2> QED BY <2>2
<1> QED BY <1>1 DEF Doubles

LEMMA TwoToAtLeast ==
    ASSUME NEW n \in Nat
    PROVE  n <= TwoTo(n) /\ TwoTo(n) > 0
<1> DEFINE K == {k \in 0 .. n : k <= TwoTo(k) /\ TwoTo(k) > 0}
<1>1. 0 \in K  BY TwoToZero
<1>2. ASSUME NEW k \in 0 .. n - 1, k \in K PROVE k + 1 \in K
  <2>1. k \in Nat /\ k + 1 \in 0 .. n  OBVIOUS
  <2>2. TwoTo(k) \in Nat /\ TwoTo(k + 1) = TwoTo(k) + TwoTo(k)  BY <2>1, TwoToNext
  <2>3. k <= TwoTo(k) /\ TwoTo(k) > 0  BY <1>2
  <2> QED BY <2>1, <2>2, <2>3
<1>3. 0 .. n \subseteq K
  <2> HIDE DEF K
  <2> QED BY <1>1, <1>2, Inductive
<1> QED BY <1>3

\* A table of a power of two is as long as its variables say.
LEMMA VarsOfTable ==
    ASSUME NEW fs, NEW n \in Nat, Len(fs[1]) = TwoTo(n)
    PROVE  Vars(fs) \in Nat /\ Len(fs[1]) = TwoTo(Vars(fs))
<1>1. n \in 0 .. Len(fs[1])  BY TwoToAtLeast, TwoToNext
<1>2. \E k \in 0 .. Len(fs[1]) : TwoTo(k) = Len(fs[1])  BY <1>1
<1>3. Vars(fs) \in 0 .. Len(fs[1]) /\ TwoTo(Vars(fs)) = Len(fs[1])  BY <1>2 DEF Vars
<1>4. Len(fs[1]) \in Nat  BY TwoToNext
<1> QED BY <1>3, <1>4

\* The inverse of two is one: what halves a claim.
LEMMA HalfInverse == TwoInv \in Int /\ 2 * TwoInv = P + 1 /\ Equal(2 * TwoInv, 1)
<1>1. P \in Nat /\ P > 2 /\ P % 2 # 0  BY PAssumption
<1>2. TwoInv \in Int /\ 2 * TwoInv = P + 1  BY <1>1 DEF TwoInv
<1>3. Equal(2 * TwoInv, 1)
  <2>1. 2 * TwoInv = 1 + P * 1 /\ 2 * TwoInv \in Int /\ 1 \in Int  BY <1>1, <1>2
  <2> DEFINE a == 2 * TwoInv
             one == 1
  <2>2. a \in Int /\ one \in Int /\ a = one + P * one  BY <1>1, <1>2
  <2> HIDE DEF a, one
  <2>3. Equal(a, one)  BY <2>2, EqualByMultiple
  <2> QED BY <2>3 DEF a, one
<1> QED BY <1>2, <1>3

-----------------------------------------------------------------------------
(* Bits *)

LEMMA PowerIs ==
    ASSUME NEW n \in Nat
    PROVE  2^n = TwoTo(n)
<1> DEFINE K == {k \in 0 .. n : 2^k = TwoTo(k)}
<1>1. 0 \in K  BY TwoToZero
<1>2. ASSUME NEW k \in 0 .. n - 1, k \in K PROVE k + 1 \in K
  <2>1. k \in Nat /\ k + 1 \in 0 .. n  OBVIOUS
  <2>2. 2^(k + 1) = 2^k + 2^k  BY <2>1, PowerNext
  <2>3. TwoTo(k + 1) = TwoTo(k) + TwoTo(k)  BY <2>1, TwoToNext
  <2>4. 2^k = TwoTo(k)  BY <1>2
  <2>5. 2^(k + 1) = TwoTo(k + 1)  BY <2>2, <2>3, <2>4, Zenon
  <2> QED BY <2>1, <2>5
<1>3. 0 .. n \subseteq K
  <2> HIDE DEF K
  <2> QED BY <1>1, <1>2, Inductive
<1>4. n \in 0 .. n  OBVIOUS
<1> QED BY <1>3, <1>4

LEMMA TwoToSum ==
    ASSUME NEW a \in Nat, NEW n \in Nat
    PROVE  TwoTo(a + n) = TwoTo(a) * TwoTo(n)
<1> DEFINE K == {k \in 0 .. n : TwoTo(a + k) = TwoTo(a) * TwoTo(k)}
<1>0. TwoTo(a) \in Nat  BY TwoToNext
<1>1. 0 \in K  BY <1>0, TwoToZero
<1>2. ASSUME NEW k \in 0 .. n - 1, k \in K PROVE k + 1 \in K
  <2>1. k \in Nat /\ k + 1 \in 0 .. n /\ a + k \in Nat /\ a + (k + 1) = (a + k) + 1  OBVIOUS
  <2>2. TwoTo(k) \in Nat /\ TwoTo(k + 1) = TwoTo(k) + TwoTo(k)  BY <2>1, TwoToNext
  <2>3. TwoTo((a + k) + 1) = TwoTo(a + k) + TwoTo(a + k)  BY <2>1, TwoToNext
  <2>4. TwoTo(a + k) = TwoTo(a) * TwoTo(k)  BY <1>2
  <2>5. TwoTo(a + (k + 1)) = TwoTo(a) * TwoTo(k) + TwoTo(a) * TwoTo(k)  BY <2>1, <2>3, <2>4
  <2>6. TwoTo(a) * TwoTo(k) + TwoTo(a) * TwoTo(k) = TwoTo(a) * TwoTo(k + 1)  BY <1>0, <2>2
  <2>7. TwoTo(a + (k + 1)) = TwoTo(a) * TwoTo(k + 1)  BY <2>5, <2>6, Zenon
  <2> QED BY <2>1, <2>7
<1>3. 0 .. n \subseteq K
  <2> HIDE DEF K
  <2> QED BY <1>1, <1>2, Inductive
<1>4. n \in 0 .. n  OBVIOUS
<1> QED BY <1>3, <1>4

\* The first bit tells the halves of a table apart; the others are a point's own.
LEMMA Bits ==
    ASSUME NEW m \in Nat, NEW i \in 1 .. TwoTo(m)
    PROVE  /\ BitOf(i, 1, m + 1) = 0 /\ BitOf(i + TwoTo(m), 1, m + 1) = 1
           /\ \A j \in 1 .. m : /\ BitOf(i, j + 1, m + 1) = BitOf(i, j, m)
                                /\ BitOf(i + TwoTo(m), j + 1, m + 1) = BitOf(i, j, m)
<1> DEFINE h == TwoTo(m)
<1>1. h \in Nat /\ h > 0 /\ i - 1 \in 0 .. h - 1 /\ i - 1 \in Int /\ i \in Int
    BY TwoToNext, TwoToAtLeast
<1>2. 2^m = h  BY PowerIs
<1> HIDE DEF h
<1>3. BitOf(i, 1, m + 1) = 0 /\ BitOf(i + h, 1, m + 1) = 1  BY <1>2, <1>1, Quotient DEF BitOf
<1>4. ASSUME NEW j \in 1 .. m
      PROVE  BitOf(i, j + 1, m + 1) = BitOf(i, j, m) /\ BitOf(i + h, j + 1, m + 1) = BitOf(i, j, m)
  <2>1. (m + 1) - (j + 1) = m - j /\ m - j \in Nat /\ j - 1 \in Nat /\ (j - 1) + 1 = j /\ (m - j) + j = m
        /\ j \in Nat
      OBVIOUS
  <2>2. PICK q : q = TwoTo(m - j)  OBVIOUS
  <2>3. q \in Nat /\ q > 0 /\ 2^(m - j) = q /\ 2^((m + 1) - (j + 1)) = q
      BY <2>1, <2>2, TwoToNext, TwoToAtLeast, PowerIs
  <2>4. PICK c : c = TwoTo(j - 1)  OBVIOUS
  <2>5. c \in Nat /\ TwoTo(j) = c + c  BY <2>1, <2>4, TwoToNext
  <2>6. h = q * (c + c)  BY <2>1, TwoToSum, <2>2, <2>5 DEF h
  <2>7. PICK x : x = i - 1  OBVIOUS
  <2>8. PICK e, r : e = x \div q /\ r = x % q  OBVIOUS
  <2>9. x \in Int  BY <1>1, <2>7
  <2>10. e \in Int /\ r \in 0 .. q - 1 /\ x = q * e + r  BY <2>3, <2>8, <2>9
  <2>11. (x + h) \div q = e + (c + c)  BY <2>3, <2>5, <2>10, <2>6, <2>9, <1>1, Quotient
  <2>12. (e + (c + c)) % 2 = e % 2  BY <2>5, <2>10
  <2>13. (i + h) - 1 = x + h  BY <1>1, <2>7
  <2>14. BitOf(i, j, m) = e % 2 /\ BitOf(i, j + 1, m + 1) = e % 2
      BY <2>3, <2>7, <2>8, Zenon DEF BitOf
  <2>15. BitOf(i + h, j + 1, m + 1) = ((x + h) \div q) % 2  BY <2>3, <2>13, Zenon DEF BitOf
  <2> QED BY <2>11, <2>12, <2>14, <2>15, Zenon
<1> QED BY <1>3, <1>4 DEF h

LEMMA ProductCons ==
    ASSUME NEW n \in Nat, NEW a \in Int, NEW s \in [1 .. n -> Int], NEW u \in [1 .. n + 1 -> Int],
           u[1] = a, \A k \in 1 .. n : u[k + 1] = s[k]
    PROVE  Product(u) = (a * Product(s)) % P
<1> DEFINE S == Products(s, n)
           T == [k \in 0 .. n + 1 |-> IF k = 0 THEN 1 ELSE (a * S[k - 1]) % P]
<1>1. /\ S \in [0 .. n -> Field] /\ S[0] = 1 /\ Product(s) = S[n]
      /\ \A k \in 1 .. n : S[k] = (S[k - 1] * s[k]) % P
    BY ProductSteps
<1> HIDE DEF S
<1>2. T[0] = 1 /\ \A k \in 0 .. n : T[k + 1] = (a * S[k]) % P  OBVIOUS
<1> HIDE DEF T
<1>3. ASSUME NEW k \in 0 .. n PROVE T[k + 1] = (T[k] * u[k + 1]) % P
  <2>1. CASE k = 0  BY <1>1, <1>2, <2>1
  <2>2. CASE k \in 1 .. n
    <3>1. PICK x \in Int : x = S[k - 1]  BY <2>2, <1>1, Fields
    <3>2. PICK y \in Int : y = s[k] /\ y = u[k + 1]  BY <2>2
    <3>3. T[k + 1] = (a * ((x * y) % P)) % P  BY <1>1, <1>2, <2>2, <3>1, <3>2
    <3>4. T[k] = (a * x) % P  BY <2>2, <1>2, <3>1
    <3>5. x * y \in Int /\ a * x \in Int /\ (x * y) % P \in Int /\ (a * x) % P \in Int
      <4>1. x * y \in Int /\ a * x \in Int  OBVIOUS
      <4> QED BY <4>1, Division, Fields
    <3>6. Equal(a * ((x * y) % P), a * (x * y))  BY <3>5, EqualReduced, EqualProduct DEF Equal
    <3>7. Equal(((a * x) % P) * y, (a * x) * y)  BY <3>5, EqualReduced, EqualProduct DEF Equal
    <3>8. a * (x * y) = (a * x) * y  OBVIOUS
    <3>9. (a * ((x * y) % P)) % P = (((a * x) % P) * y) % P  BY <3>6, <3>7, <3>8, Zenon DEF Equal
    <3> QED BY <3>2, <3>3, <3>4, <3>9, Zenon
  <2> QED BY <2>1, <2>2
<1>4. ASSUME NEW k \in 1 .. n + 1 PROVE T[k] = (T[k - 1] * u[k]) % P  BY <1>3
<1>5. Product(u) = T[n + 1]
  <2>1. n + 1 \in Nat  OBVIOUS
  <2> QED BY <1>2, <1>4, <2>1, ProductBySteps
<1>6. n \in 0 .. n  OBVIOUS
<1> QED BY <1>1, <1>2, <1>5, <1>6

-----------------------------------------------------------------------------
(* The extension of a table *)

LEMMA PointCons ==
    ASSUME NEW m \in Nat, NEW p \in Seq(Field), Len(p) = m, NEW r \in Field
    PROVE  /\ <<r>> \o p \in Seq(Field) /\ Len(<<r>> \o p) = m + 1
           /\ (<<r>> \o p)[1] = r /\ \A j \in 1 .. m : (<<r>> \o p)[j + 1] = p[j]
<1>1. <<r>> \in Seq(Field) /\ Len(<<r>>) = 1 /\ <<r>>[1] = r  OBVIOUS
<1>2. /\ <<r>> \o p \in Seq(Field) /\ Len(<<r>> \o p) = 1 + m
      /\ \A j \in 1 .. 1 + m : (<<r>> \o p)[j] = IF j <= 1 THEN <<r>>[j] ELSE p[j - 1]
    BY <1>1, ConcatProperties
<1>3. \A j \in 1 .. m : (<<r>> \o p)[j + 1] = p[j]
  <2> TAKE j \in 1 .. m
  <2>1. j + 1 \in 1 .. 1 + m /\ ~(j + 1 <= 1) /\ j + 1 - 1 = j  OBVIOUS
  <2> QED BY <1>2, <2>1
<1>4. 1 \in 1 .. 1 + m /\ 1 + m = m + 1  OBVIOUS
<1> QED BY <1>1, <1>2, <1>3, <1>4

\* The factor of eq at a bit b of the index and a coordinate x.
EqBit(b, x) == IF b = 1 THEN x ELSE (1 - x) % P

LEMMA EqBitTyped ==
    ASSUME NEW b, NEW x \in Field
    PROVE  EqBit(b, x) \in Field /\ EqBit(b, x) \in Int
<1>1. x \in Int /\ 1 - x \in Int  BY Fields
<1> QED BY <1>1, Division, Fields DEF EqBit

LEMMA EqIs ==
    ASSUME NEW m \in Nat, NEW p \in Seq(Field), Len(p) = m, NEW i
    PROVE  /\ Eq(i, p) = Product([j \in 1 .. m |-> EqBit(BitOf(i, j, m), p[j])])
           /\ [j \in 1 .. m |-> EqBit(BitOf(i, j, m), p[j])] \in [1 .. m -> Int]
           /\ Eq(i, p) \in Field /\ Eq(i, p) \in Int
<1> DEFINE s == [j \in 1 .. m |-> EqBit(BitOf(i, j, m), p[j])]
<1>1. Eq(i, p) = Product(s)  BY DEF Eq, EqBit
<1>2. s \in [1 .. m -> Int]  BY EqBitTyped
<1> HIDE DEF s
<1>3. Product(s) \in Field /\ Product(s) \in Int  BY <1>2, ProductInField
<1> QED BY <1>1, <1>2, <1>3 DEF s

LEMMA EqCons ==
    ASSUME NEW m \in Nat, NEW p \in Seq(Field), Len(p) = m, NEW r \in Field, NEW i \in 1 .. TwoTo(m)
    PROVE  /\ Eq(i, <<r>> \o p) = (((1 - r) % P) * Eq(i, p)) % P
           /\ Eq(i + TwoTo(m), <<r>> \o p) = (r * Eq(i, p)) % P
<1> DEFINE s == [j \in 1 .. m |-> EqBit(BitOf(i, j, m), p[j])]
           point == <<r>> \o p
           u(l) == [j \in 1 .. m + 1 |-> EqBit(BitOf(l, j, m + 1), point[j])]
<1>1. s \in [1 .. m -> Int] /\ Eq(i, p) = Product(s)  BY EqIs
<1>2. /\ point \in Seq(Field) /\ Len(point) = m + 1 /\ m + 1 \in Nat
      /\ point[1] = r /\ \A j \in 1 .. m : point[j + 1] = p[j]
    BY PointCons
<1> HIDE DEF point
<1>3. \A l : u(l) \in [1 .. m + 1 -> Int] /\ Eq(l, point) = Product(u(l))  BY <1>2, EqIs
<1>4. \A l : \A j \in 1 .. m + 1 : u(l)[j] = EqBit(BitOf(l, j, m + 1), point[j])  OBVIOUS
<1>5. \A j \in 1 .. m : s[j] = EqBit(BitOf(i, j, m), p[j])  OBVIOUS
<1>6. 1 \in 1 .. m + 1 /\ \A j \in 1 .. m : j + 1 \in 1 .. m + 1  OBVIOUS
<1> HIDE DEF s, u
<1>7. ASSUME NEW l, NEW a \in Int, EqBit(BitOf(l, 1, m + 1), r) = a,
             \A j \in 1 .. m : BitOf(l, j + 1, m + 1) = BitOf(i, j, m)
      PROVE  Eq(l, point) = (a * Eq(i, p)) % P
  <2>1. u(l)[1] = a  BY <1>2, <1>4, <1>6, <1>7
  <2>2. \A j \in 1 .. m : u(l)[j + 1] = s[j]  BY <1>2, <1>4, <1>5, <1>6, <1>7
  <2>3. PICK v : v = u(l)  OBVIOUS
  <2>4. v \in [1 .. m + 1 -> Int] /\ Eq(l, point) = Product(v) /\ v[1] = a /\ \A j \in 1 .. m : v[j + 1] = s[j]
      BY <1>3, <2>1, <2>2, <2>3
  <2>5. Product(v) = (a * Product(s)) % P  BY <1>1, <2>4, ProductCons
  <2> QED BY <1>1, <2>4, <2>5
<1>8. BitOf(i, 1, m + 1) = 0 /\ BitOf(i + TwoTo(m), 1, m + 1) = 1
      /\ \A j \in 1 .. m : /\ BitOf(i, j + 1, m + 1) = BitOf(i, j, m)
                           /\ BitOf(i + TwoTo(m), j + 1, m + 1) = BitOf(i, j, m)
    BY Bits
<1>9. EqBit(0, r) = (1 - r) % P /\ EqBit(1, r) = r /\ (1 - r) % P \in Int /\ r \in Int
  <2>1. EqBit(0, r) = (1 - r) % P /\ EqBit(1, r) = r  BY DEF EqBit
  <2> QED BY <2>1, EqBitTyped
<1> QED BY <1>7, <1>8, <1>9 DEF point

\* Both ends of a line, weighed by eq, are the point on it.
LEMMA OnTheLine ==
    ASSUME NEW x \in Int, NEW y \in Int, NEW r \in Int, NEW e \in Int
    PROVE  /\ Equal(x * ((((1 - r) % P) * e) % P) + y * ((r * e) % P), ((x + r * (y - x)) % P) * e)
           /\ x * ((((1 - r) % P) * e) % P) + y * ((r * e) % P) \in Int
           /\ ((x + r * (y - x)) % P) * e \in Int
<1> DEFINE c == (1 - r) % P
           d == (c * e) % P
           f == (r * e) % P
           l == x + r * (y - x)
           k == l % P
<1>1. 1 - r \in Int /\ r * e \in Int /\ l \in Int /\ (1 - r) * e \in Int  OBVIOUS
<1>2. c \in Int /\ f \in Int /\ k \in Int /\ Equal(c, 1 - r) /\ Equal(f, r * e) /\ Equal(k, l)
    BY <1>1, Division, Fields, EqualReduced
<1>3. Equal(e, e) /\ Equal(x, x) /\ Equal(y, y)  BY DEF Equal
<1>4. x + r * (y - x) = l  OBVIOUS
<1>5. f = (r * e) % P /\ d = (c * e) % P /\ k = l % P /\ c = (1 - r) % P  OBVIOUS
<1> HIDE DEF c, f, l, k, d
<1>6. c * e \in Int /\ k * e \in Int  BY <1>2
<1>7. d \in Int /\ Equal(d, c * e)  BY <1>5, <1>6, Division, Fields, EqualReduced
<1>8. Equal(c * e, (1 - r) * e)  BY <1>1, <1>2, <1>3, EqualProduct
<1>9. Equal(d, (1 - r) * e)  BY <1>7, <1>8 DEF Equal
<1>10. Equal(x * d, x * ((1 - r) * e))  BY <1>1, <1>3, <1>7, <1>9, EqualProduct
<1>11. Equal(y * f, y * (r * e))  BY <1>1, <1>2, <1>3, EqualProduct
<1>12. x * d \in Int /\ y * f \in Int /\ x * ((1 - r) * e) \in Int /\ y * (r * e) \in Int
    BY <1>1, <1>2, <1>7
<1>13. Equal(x * d + y * f, x * ((1 - r) * e) + y * (r * e))  BY <1>10, <1>11, <1>12, EqualSum
<1>14. x * ((1 - r) * e) + y * (r * e) = l * e  BY <1>4
<1>15. Equal(k * e, l * e)  BY <1>1, <1>2, <1>3, EqualProduct
<1>16. Equal(x * d + y * f, k * e)  BY <1>13, <1>14, <1>15 DEF Equal
<1>17. x * d + y * f \in Int  BY <1>12
<1> QED BY <1>4, <1>5, <1>6, <1>16, <1>17, Zenon

LEMMA ExtensionBinds ==
    ASSUME NEW m \in Nat, NEW p \in Seq(Field), Len(p) = m, NEW r \in Field,
           NEW t \in [1 .. TwoTo(m) + TwoTo(m) -> Field],
           NEW b \in [1 .. TwoTo(m) -> Field],
           \A i \in 1 .. TwoTo(m) : b[i] = (t[i] + r * (t[i + TwoTo(m)] - t[i])) % P
    PROVE  Extension(t, <<r>> \o p) = Extension(b, p)
<1> DEFINE h == TwoTo(m)
           point == <<r>> \o p
           v == [i \in 1 .. h + h |-> t[i] * Eq(i, point)]
           lo == [k \in 1 .. h |-> v[k]]
           hi == [k \in 1 .. h |-> v[h + k]]
           u == [k \in 1 .. h |-> lo[k] + hi[k]]
           w == [i \in 1 .. h |-> b[i] * Eq(i, p)]
<1>1. h \in Nat /\ h + h \in Nat /\ r \in Int  BY TwoToNext, Fields
<1>2. point \in Seq(Field) /\ Len(point) = m + 1 /\ m + 1 \in Nat  BY PointCons
<1> HIDE DEF point
<1>3. \A i : Eq(i, point) \in Int /\ Eq(i, p) \in Int
  <2> TAKE i
  <2>1. Eq(i, point) \in Int  BY <1>2, EqIs
  <2>2. Eq(i, p) \in Int  BY EqIs
  <2> QED BY <2>1, <2>2
<1>4. Extension(t, point) = Total(v)
  <2>1. Len(t) = h + h  BY <1>1
  <2> QED BY <2>1 DEF Extension
<1>5. Extension(b, p) = Total(w)
  <2>1. Len(b) = h  BY <1>1
  <2> QED BY <2>1 DEF Extension
<1>6. \A i \in 1 .. h : Eq(i, point) = (((1 - r) % P) * Eq(i, p)) % P
                        /\ Eq(i + h, point) = (r * Eq(i, p)) % P
    BY EqCons DEF point
<1> HIDE DEF h
<1>7. v \in [1 .. h + h -> Int]  BY Fields, <1>3 DEF h
<1>8. \A k \in 1 .. h : k \in 1 .. h + h /\ h + k \in 1 .. h + h /\ h + k = k + h  BY <1>1
<1>9. \A k \in 1 .. h : lo[k] = t[k] * Eq(k, point) /\ hi[k] = t[k + h] * Eq(k + h, point)  BY <1>8
<1>10. lo \in [1 .. h -> Int] /\ hi \in [1 .. h -> Int]
  <2> HIDE DEF v
  <2> QED BY <1>7, <1>8
<1>11. Total(v) = (Total(lo) + Total(hi)) % P
  <2> HIDE DEF v
  <2> QED BY <1>1, <1>7, TotalConcat
<1>12. \A k \in 1 .. h : u[k] = lo[k] + hi[k]  OBVIOUS
<1>13. \A i \in 1 .. h : w[i] = b[i] * Eq(i, p)  OBVIOUS
<1>14. u \in [1 .. h -> Int]
  <2>1. \A k \in 1 .. h : lo[k] + hi[k] \in Int
    <3> HIDE DEF lo, hi
    <3> QED BY <1>10
  <2> QED BY <2>1
<1>15. DOMAIN w = 1 .. h /\ w = [i \in 1 .. h |-> w[i]]  OBVIOUS
<1> HIDE DEF u, lo, hi, v, w
<1>16. ASSUME NEW i \in 1 .. h PROVE Equal(u[i], w[i]) /\ w[i] \in Int
  <2>1. t[i] \in Int /\ t[i + h] \in Int /\ Eq(i, p) \in Int  BY <1>3, <1>8, Fields DEF h
  <2>2. PICK x \in Int, y \in Int, e \in Int : x = t[i] /\ y = t[i + h] /\ e = Eq(i, p)  BY <2>1
  <2>3. b[i] = (x + r * (y - x)) % P  BY <2>2 DEF h
  <2>4. lo[i] = x * ((((1 - r) % P) * e) % P)  BY <1>6, <1>9, <2>2, Zenon
  <2>5. hi[i] = y * ((r * e) % P)  BY <1>6, <1>9, <2>2, Zenon
  <2>6. u[i] = x * ((((1 - r) % P) * e) % P) + y * ((r * e) % P)  BY <1>12, <2>4, <2>5, Zenon
  <2>7. w[i] = ((x + r * (y - x)) % P) * e  BY <1>13, <2>2, <2>3, Zenon
  <2> DEFINE left == x * ((((1 - r) % P) * e) % P) + y * ((r * e) % P)
             right == ((x + r * (y - x)) % P) * e
  <2>8. Equal(left, right) /\ right \in Int  BY <1>1, OnTheLine
  <2>9. u[i] = left /\ w[i] = right  BY <2>6, <2>7
  <2> HIDE DEF left, right
  <2> QED BY <2>8, <2>9
<1>17. w \in [1 .. h -> Int]  BY <1>15, <1>16
<1>18. Total(u) = (Total(lo) + Total(hi)) % P  BY <1>1, <1>10, <1>12, <1>14, TotalSum
<1>19. Total(u) = Total(w)  BY <1>1, <1>14, <1>16, <1>17, TotalSame
<1> QED BY <1>4, <1>5, <1>11, <1>18, <1>19 DEF point

\* Binding the first variable of a member's tables to a challenge leaves its
\* polynomial at that challenge: whatever the other coordinates, the extensions
\* of the bound tables are those of the tables (DenseMember::bind, Polynomial::bind).
THEOREM BindExtends ==
    ASSUME NEW m \in Nat, NEW fs, NEW n, Tables(fs, n, TwoTo(m + 1)),
           NEW p \in Seq(Field), Len(p) = m, NEW r \in Field
    PROVE  ExtensionAt(fs, <<r>> \o p) = ExtensionAt(Bind(fs, r), p)
<1>1. PICK h \in Nat : h = TwoTo(m) /\ TwoTo(m + 1) = h + h  BY TwoToNext
<1>2. Tables(fs, n, h + h) /\ (h + h) \div 2 = h /\ r \in Int  BY <1>1, Fields
<1>3. /\ Tables(Bind(fs, r), n, h)
      /\ \A k \in 1 .. n : \A i \in 1 .. h : Bind(fs, r)[k][i] = LineAt(fs, k, i, h, r) % P
  <2>1. PICK L : L = h + h  OBVIOUS
  <2>2. Tables(Bind(fs, r), n, L \div 2)
      /\ \A k \in 1 .. n : \A i \in 1 .. L \div 2 : Bind(fs, r)[k][i] = LineAt(fs, k, i, L \div 2, r) % P
      BY <1>2, <2>1, BindTyped
  <2> QED BY <1>2, <2>1, <2>2
<1>4. ASSUME NEW k \in 1 .. n PROVE Extension(fs[k], <<r>> \o p) = Extension(Bind(fs, r)[k], p)
  <2>1. PICK t, b : t = fs[k] /\ b = Bind(fs, r)[k]  OBVIOUS
  <2>2. t \in [1 .. h + h -> Field] /\ b \in [1 .. h -> Field]  BY <1>2, <1>3, <2>1 DEF Tables
  <2>3. \A i \in 1 .. h : b[i] = (t[i] + r * (t[i + h] - t[i])) % P  BY <1>3, <2>1 DEF LineAt
  <2>4. Extension(t, <<r>> \o p) = Extension(b, p)  BY <1>1, <2>2, <2>3, ExtensionBinds
  <2> QED BY <2>1, <2>4
<1>5. Len(fs) = n /\ Len(Bind(fs, r)) = n  BY <1>2, <1>3, TableLengths
<1> QED BY <1>4, <1>5, Zenon DEF ExtensionAt

LEMMA TotalOne ==
    ASSUME NEW x \in Int
    PROVE  Total(<<x>>) = x % P
<1>1. PICK n \in Nat : n = 1  OBVIOUS
<1>2. PICK j \in 1 .. n : j = 1  BY <1>1
<1>3. PICK s \in [1 .. n -> Int] : s = <<x>> /\ s[j] = x
  <2>1. <<x>> \in [1 .. 1 -> Int] /\ <<x>>[1] = x  OBVIOUS
  <2> QED BY <1>1, <1>2, <2>1
<1>4. \A k \in 1 .. n : k # j => Equal(s[k], 0)  BY <1>1, <1>2
<1>5. Total(s) = s[j] % P  BY <1>4, TotalSingle
<1> QED BY <1>3, <1>5

\* A member with no variable left is at its value.
LEMMA ExtensionOfOne ==
    ASSUME NEW fs, NEW n, Tables(fs, n, 1)
    PROVE  ExtensionAt(fs, <<>>) = Sum(fs)
<1> DEFINE v == [k \in 1 .. n |-> fs[k][1]]
           w == [k \in 1 .. n |-> Extension(fs[k], <<>>)]
           a == [i \in 1 .. 1 |-> AtPoint(fs, i)]
<1>1. n \in Nat /\ Len(fs) = n  BY TableLengths DEF Tables
<1>2. PICK L : L = 1  OBVIOUS
<1>3. Tables(fs, n, L) /\ L \in Nat  BY <1>2
<1>4. /\ Sum(fs) = Total([i \in 1 .. L |-> AtPoint(fs, i)])
      /\ \A i \in 1 .. L : AtPoint(fs, i) \in Field /\ AtPoint(fs, i) \in Int
    BY <1>3, SumOfProducts
<1>5. \A k \in 1 .. n : Len(fs[k]) = L /\ \A i \in 1 .. L : fs[k][i] \in Field /\ fs[k][i] \in Int
    BY <1>3, TableLengths
<1>6. AtPoint(fs, 1) = Product(v)  BY <1>1 DEF AtPoint
<1>7. Sum(fs) = Product(v)
  <2>1. Sum(fs) = Total(a)  BY <1>2, <1>4
  <2>2. a = <<AtPoint(fs, 1)>> /\ AtPoint(fs, 1) \in Field /\ AtPoint(fs, 1) \in Int  BY <1>2, <1>4
  <2> HIDE DEF a
  <2>3. Total(a) = AtPoint(fs, 1) % P  BY <2>2, TotalOne
  <2>4. AtPoint(fs, 1) % P = AtPoint(fs, 1)  BY <2>2, InField
  <2> QED BY <1>6, <2>1, <2>3, <2>4
<1>8. ASSUME NEW k \in 1 .. n PROVE Extension(fs[k], <<>>) = fs[k][1]
  <2> DEFINE t == fs[k]
             z == [j \in 1 .. 0 |-> EqBit(BitOf(1, j, 0), <<>>[j])]
             u == [i \in 1 .. 1 |-> t[i] * Eq(i, <<>>)]
  <2>1. Eq(1, <<>>) = 1
    <3>1. PICK m \in Nat : m = 0  OBVIOUS
    <3>2. <<>> \in Seq(Field) /\ Len(<<>>) = m  BY <3>1
    <3> DEFINE y == [j \in 1 .. m |-> EqBit(BitOf(1, j, m), <<>>[j])]
    <3>3. Eq(1, <<>>) = Product(y) /\ y \in [1 .. m -> Int]  BY <3>2, EqIs
    <3> HIDE DEF y
    <3>4. Products(y, m)[0] = 1 /\ Product(y) = Products(y, m)[m]  BY <3>3, ProductSteps
    <3> QED BY <3>1, <3>3, <3>4
  <2>2. Len(t) = 1 /\ t[1] \in Field /\ t[1] \in Int  BY <1>2, <1>5
  <2>3. Extension(t, <<>>) = Total(u)  BY <2>2 DEF Extension
  <2>4. u = <<t[1] * Eq(1, <<>>)>>  OBVIOUS
  <2>5. t[1] * Eq(1, <<>>) = t[1]  BY <2>1, <2>2
  <2>6. u = <<t[1]>>  BY <2>4, <2>5
  <2> HIDE DEF u
  <2>7. Total(u) = t[1] % P /\ t[1] % P = t[1]  BY <2>2, <2>6, TotalOne, InField
  <2> QED BY <2>3, <2>7
<1>9. ExtensionAt(fs, <<>>) = Product(w)  BY <1>1 DEF ExtensionAt
<1>10. w = v  BY <1>8
<1> QED BY <1>7, <1>9, <1>10

-----------------------------------------------------------------------------
(* Roots *)

\* The characteristic is prime: the field has no divisors of zero.
LEMMA NoZeroDivisors ==
    ASSUME NEW a \in Int, NEW b \in Int, Equal(a * b, 0)
    PROVE  Equal(a, 0) \/ Equal(b, 0)
<1> SUFFICES ASSUME ~Equal(a, 0) PROVE Equal(b, 0)
    OBVIOUS
<1> DEFINE D == {d \in Nat : d > 0 /\ Equal(d * b, 0)}
<1>0. 0 \in Field /\ 0 % P = 0 /\ P \in Nat /\ P > 2  BY Fields, InField, PAssumption
<1>1. P \in D
  <2>1. PICK z \in Int, t \in Int : z = 0 /\ t = P * b  BY <1>0
  <2>2. t = z + P * b  BY <2>1
  <2>3. Equal(t, z)  BY <2>2, EqualByMultiple
  <2>4. Equal(P * b, 0)  BY <2>1, <2>3
  <2>5. P > 0  BY <1>0
  <2> QED BY <1>0, <2>4, <2>5
<1>2. PICK e \in Int : e = a % P  BY Division, Fields
<1>3. e \in Field /\ e # 0  BY <1>0, <1>2, Division DEF Equal
<1>4. e \in D
  <2>1. Equal(e, a) /\ Equal(b, b)  BY <1>2, EqualReduced DEF Equal
  <2>2. Equal(e * b, a * b)  BY <2>1, EqualProduct
  <2>3. Equal(e * b, 0)  BY <2>2 DEF Equal
  <2>4. e \in Nat /\ e > 0  BY <1>3, Fields
  <2> QED BY <2>3, <2>4
<1>5. D \subseteq Nat /\ D # {}  BY <1>1
<1>6. \A d \in D : d \in Nat /\ d > 0 /\ Equal(d * b, 0)  OBVIOUS
<1>7. \A d \in Nat : d > 0 /\ Equal(d * b, 0) => d \in D  OBVIOUS
<1> HIDE DEF D
<1>8. PICK m \in D : \A d \in D : ~(d < m)  BY <1>5, Least
<1>9. m \in Nat /\ m > 0 /\ Equal(m * b, 0) /\ m < P  BY <1>6, <1>4, <1>8, <1>3, Fields, <1>0
\* The least of them divides the characteristic.
<1>10. P % m = 0
  <2>1. PICK k \in Int, r \in Int : k = P \div m /\ r = P % m  BY <1>0, <1>9
  <2>2. P = m * k + r /\ 0 <= r /\ r < m  BY <1>0, <1>9, <2>1
  <2>3. Equal(r * b, 0)
    <3>1. m * b \in Int /\ P * b \in Int /\ 0 - k \in Int /\ 0 \in Int  BY <1>0, <1>9
    <3>2. Equal((m * b) * (0 - k), 0 * (0 - k))
      <4>1. Equal(0 - k, 0 - k)  BY DEF Equal
      <4> QED BY <1>9, <3>1, <4>1, EqualProduct
    <3>3. Equal(P * b, 0)  BY <1>1, <1>6
    <3>4. (m * b) * (0 - k) \in Int /\ 0 * (0 - k) = 0  BY <3>1
    <3>5. Equal(P * b + (m * b) * (0 - k), 0 + 0)  BY <3>1, <3>2, <3>3, <3>4, EqualSum
    <3>6. P * b + (m * b) * (0 - k) = r * b  BY <1>0, <1>9, <2>2
    <3> QED BY <3>5, <3>6
  <2>4. CASE r > 0  BY <1>7, <1>8, <2>2, <2>3, <2>4
  <2> QED BY <2>1, <2>2, <2>4
<1>11. m = 1  BY <1>10, PAssumption, <1>0, <1>9
<1>12. m * b = b  BY <1>11
<1> QED BY <1>9, <1>12

\* A polynomial is its value at s and a multiple of x - s, whose other factor
\* is made of Horner's intermediate values at s.
LEMMA Factors ==
    ASSUME NEW m \in Nat, NEW c \in [1 .. m + 1 -> Int], NEW s \in Int, NEW q \in [1 .. m -> Int],
           \A i \in 1 .. m : q[i] = Horner(c, s, m + 1)[m + 1 - i], NEW x \in Int
    PROVE  Equal(Evaluate(c, x), (x - s) * Evaluate(q, x) + Evaluate(c, s))
<1> DEFINE H == Horner(c, s, m + 1)
           Q == Horner(q, x, m)
           y == x - s
           T == [j \in 0 .. m + 1 |-> IF j = 0 THEN 0 ELSE (y * Q[j - 1] + H[j]) % P]
<1>0. m + 1 \in Nat /\ y \in Int  OBVIOUS
<1>1. /\ H \in [0 .. m + 1 -> Field] /\ H[0] = 0 /\ Evaluate(c, s) = H[m + 1]
      /\ \A j \in 1 .. m + 1 : H[j] = (H[j - 1] * s + c[(m + 1) + 1 - j]) % P
    BY <1>0, HornerSteps
<1>2. /\ Q \in [0 .. m -> Field] /\ Q[0] = 0 /\ Evaluate(q, x) = Q[m]
      /\ \A j \in 1 .. m : Q[j] = (Q[j - 1] * x + q[m + 1 - j]) % P
    BY HornerSteps
<1>3. \A j \in 1 .. m : q[m + 1 - j] = H[j]
  <2> TAKE j \in 1 .. m
  <2>1. m + 1 - j \in 1 .. m /\ m + 1 - (m + 1 - j) = j  OBVIOUS
  <2> QED BY <2>1
<1>4. T[0] = 0 /\ \A j \in 0 .. m : T[j + 1] = (y * Q[j] + H[j + 1]) % P  OBVIOUS
<1>5. x = y + s  OBVIOUS
<1> HIDE DEF H, Q, T, y
<1>6. ASSUME NEW j \in 0 .. m PROVE T[j + 1] = (T[j] * x + c[(m + 1) + 1 - (j + 1)]) % P
  <2>1. PICK a \in Int : a = c[(m + 1) + 1 - (j + 1)]  OBVIOUS
  <2>2. PICK h \in Int, g \in Int : h = H[j] /\ g = H[j + 1]
    <3>1. j \in 0 .. m + 1 /\ j + 1 \in 0 .. m + 1  OBVIOUS
    <3> QED BY <1>1, <3>1, Fields
  <2>3. g = (h * s + a) % P  BY <1>1, <2>1, <2>2
  <2>4. PICK u \in Int : u = Q[j]  BY <1>2, Fields
  <2>5. T[j + 1] = (y * u + g) % P  BY <1>4, <2>2, <2>4
  <2>6. PICK v \in Int : g = (h * s + a) + P * v  BY <2>3, EqualReduced, MultipleByEqual
  <2>7. CASE j = 0
    <3>1. u = 0 /\ h = 0 /\ T[j] = 0  BY <1>1, <1>2, <1>4, <2>2, <2>4, <2>7
    <3>2. y * u + g = g /\ h * s + a = a /\ T[j] * x + a = a  BY <1>0, <3>1
    <3>3. g % P = g  BY <2>3, <3>2, Division, InField
    <3> QED BY <2>1, <2>3, <2>5, <3>2, <3>3
  <2>8. CASE j \in 1 .. m
    <3>1. PICK w \in Int : w = Q[j - 1]  BY <2>8, <1>2, Fields
    <3>2. u = (w * x + h) % P  BY <1>2, <1>3, <2>2, <2>4, <2>8, <3>1
    <3>3. PICK t \in Int : t = T[j] /\ t = (y * w + h) % P
      <4>1. j - 1 \in 0 .. m /\ j - 1 + 1 = j  BY <2>8
      <4>2. T[j - 1 + 1] = (y * Q[j - 1] + H[j - 1 + 1]) % P  BY <1>4, <4>1
      <4>3. T[j] = (y * w + h) % P  BY <2>2, <3>1, <4>1, <4>2
      <4>4. y * w + h \in Int  BY <1>0
      <4>5. (y * w + h) % P \in Int  BY <4>4, Division, Fields
      <4> QED BY <4>3, <4>5
    <3>4. PICK v1 \in Int : u = (w * x + h) + P * v1  BY <3>2, EqualReduced, MultipleByEqual
    <3>5. PICK v2 \in Int : t = (y * w + h) + P * v2  BY <1>0, <3>3, EqualReduced, MultipleByEqual
    <3>6. y * u + g \in Int /\ t * x + a \in Int  BY <1>0
    <3> DEFINE d == y * v1 + v - v2 * x
    <3>7. d \in Int /\ y * u + g = (t * x + a) + P * d
      <4>1. y * u + g = y * w * x + y * h + y * P * v1 + h * s + a + P * v
          BY <1>0, <2>6, <3>4, Characteristic
      <4>2. t * x + a = y * w * x + h * x + P * v2 * x + a  BY <1>0, <3>5, Characteristic
      <4>3. h * x = h * y + h * s  BY <1>0, <1>5
      <4>4. P * d = P * (y * v1) + P * v - P * (v2 * x)  BY <1>0, Characteristic
      <4>5. y * P * v1 = P * (y * v1) /\ P * v2 * x = P * (v2 * x) /\ y * h = h * y
          BY <1>0, Characteristic
      <4>6. d \in Int /\ P * (y * v1) \in Int /\ P * (v2 * x) \in Int /\ y * w * x \in Int /\ h * y \in Int
            /\ h * s \in Int /\ P * v \in Int
          BY <1>0, Characteristic
      <4>7. PICK A \in Int, B \in Int, C \in Int, D \in Int, E \in Int, F \in Int :
                /\ A = y * w * x /\ B = h * y /\ C = h * s /\ D = P * (y * v1) /\ E = P * v /\ F = P * (v2 * x)
          BY <4>6
      <4>8. PICK G \in Int, K \in Int, L \in Int, M \in Int : G = P * d /\ K = h * x /\ L = y * u + g /\ M = t * x + a
          BY <1>0, <4>6, Characteristic
      <4>9. G = D + E - F  BY <4>4, <4>7, <4>8
      <4>10. K = B + C  BY <4>3, <4>7, <4>8
      <4>11. L = A + B + D + C + a + E  BY <4>1, <4>5, <4>7, <4>8
      <4>12. M = A + K + F + a  BY <4>2, <4>5, <4>7, <4>8
      <4>13. L = M + G  BY <4>9, <4>10, <4>11, <4>12
      <4> QED BY <4>6, <4>8, <4>13
    <3> HIDE DEF d
    <3>8. Equal(y * u + g, t * x + a)  BY <3>6, <3>7, EqualByMultiple
    <3> QED BY <2>1, <2>5, <3>3, <3>8 DEF Equal
  <2> QED BY <2>7, <2>8
<1>7. Evaluate(c, x) = T[m + 1]
  <2>1. ASSUME NEW j \in 1 .. m + 1 PROVE T[j] = (T[j - 1] * x + c[(m + 1) + 1 - j]) % P
    <3>1. PICK i \in 0 .. m : i = j - 1  OBVIOUS
    <3>2. i + 1 = j  BY <3>1
    <3> QED BY <1>6, <3>1, <3>2
  <2>2. PICK N \in Nat : N = m + 1  BY <1>0
  <2>3. c \in [1 .. N -> Int]  BY <2>2
  <2>4. T[0] = 0  BY <1>4
  <2>5. \A j \in 1 .. N : T[j] = (T[j - 1] * x + c[N + 1 - j]) % P  BY <2>1, <2>2
  <2>6. Evaluate(c, x) = T[N]  BY <2>3, <2>4, <2>5, EvaluateBySteps, ZenonT(40)
  <2> QED BY <2>2, <2>6
<1>8. T[m + 1] = (y * Evaluate(q, x) + Evaluate(c, s)) % P  BY <1>1, <1>2, <1>4
<1>9. y * Evaluate(q, x) + Evaluate(c, s) \in Int
  <2>1. Q[m] \in Int /\ H[m + 1] \in Int  BY <1>1, <1>2, Fields
  <2> QED BY <1>0, <1>1, <1>2, <2>1
<1>10. Equal(T[m + 1], y * Evaluate(q, x) + Evaluate(c, s))  BY <1>8, <1>9, EqualReduced
<1> QED BY <1>7, <1>10 DEF y

Roots(c) == {r \in Field : Evaluate(c, r) = 0}

LEMMA RootsFinite ==
    \A c : IsFiniteSet(Roots(c)) /\ Cardinality(Roots(c)) \in Nat
<1> TAKE c
<1>1. IsFiniteSet(Field)  BY Characteristic, FS_Interval DEF Field
<1>2. Roots(c) \in SUBSET Field  BY DEF Roots
<1>3. IsFiniteSet(Roots(c))  BY <1>1, <1>2, FS_Subset
<1> QED BY <1>3, FS_CardinalityType

\* Dividing by x minus a root leaves a polynomial whose roots are the others.
LEMMA RootsOfQuotient ==
    ASSUME NEW m \in Nat, NEW a \in Field
    PROVE  \A c \in [1 .. m + 1 -> Int] : Evaluate(c, a) # 0 => \A s \in Roots(c) :
               \E q \in [1 .. m -> Int] : Evaluate(q, a) # 0 /\ Roots(c) \subseteq Roots(q) \cup {s}
<1> SUFFICES ASSUME NEW c \in [1 .. m + 1 -> Int], Evaluate(c, a) # 0, NEW s \in Roots(c)
             PROVE  \E q \in [1 .. m -> Int] : Evaluate(q, a) # 0 /\ Roots(c) \subseteq Roots(q) \cup {s}
    OBVIOUS
<1> DEFINE q == [i \in 1 .. m |-> Horner(c, s, m + 1)[m + 1 - i]]
<1>0. s \in Field /\ s \in Int /\ Evaluate(c, s) = 0 /\ m + 1 \in Nat /\ a \in Int /\ 0 \in Field
    BY Fields DEF Roots
<1>1. q \in [1 .. m -> Int]
  <2>1. Horner(c, s, m + 1) \in [0 .. m + 1 -> Field]  BY <1>0, HornerSteps
  <2>2. \A i \in 1 .. m : m + 1 - i \in 0 .. m + 1  OBVIOUS
  <2>3. \A i \in 1 .. m : Horner(c, s, m + 1)[m + 1 - i] \in Int  BY <2>1, <2>2, Fields
  <2> QED BY <2>3
<1>2. \A i \in 1 .. m : q[i] = Horner(c, s, m + 1)[m + 1 - i]  OBVIOUS
<1> HIDE DEF q
<1>3. ASSUME NEW x \in Int PROVE Equal(Evaluate(c, x), (x - s) * Evaluate(q, x))
  <2>1. Equal(Evaluate(c, x), (x - s) * Evaluate(q, x) + Evaluate(c, s))
      BY <1>0, <1>1, <1>2, Factors
  <2>2. Evaluate(q, x) \in Int  BY <1>1, EvaluateInField
  <2>3. (x - s) * Evaluate(q, x) \in Int  BY <1>0, <2>2
  <2>4. (x - s) * Evaluate(q, x) + Evaluate(c, s) = (x - s) * Evaluate(q, x)  BY <1>0, <2>3
  <2> QED BY <2>1, <2>4
<1>4. \A x \in Field : Evaluate(c, x) \in Field /\ Evaluate(q, x) \in Field /\ Evaluate(q, x) \in Int /\ x \in Int
    BY <1>0, <1>1, EvaluateInField, Fields
<1>5. Evaluate(q, a) # 0
  <2> SUFFICES ASSUME Evaluate(q, a) = 0 PROVE FALSE
      OBVIOUS
  <2>1. (a - s) * Evaluate(q, a) = 0  BY <1>0
  <2>2. Equal(Evaluate(c, a), 0)  BY <1>0, <1>3, <2>1
  <2>3. Evaluate(c, a) \in Field  BY <1>4
  <2>4. Evaluate(c, a) = 0  BY <1>0, <2>2, <2>3, EqualInField
  <2> QED BY <2>4
<1>6. ASSUME NEW x \in Roots(c) PROVE x \in Roots(q) \cup {s}
  <2>1. x \in Field /\ x \in Int /\ Evaluate(c, x) = 0  BY <1>4 DEF Roots
  <2>2. PICK b \in Int : b = Evaluate(q, x) /\ b \in Field  BY <1>4, <2>1
  <2>3. Equal(0, (x - s) * b)  BY <1>3, <2>1, <2>2
  <2>4. Equal((x - s) * b, 0)  BY <2>3 DEF Equal
  <2>5. PICK y \in Int : y = x - s  BY <1>0, <2>1
  <2>6. Equal(y, 0) \/ Equal(b, 0)  BY <2>4, <2>5, NoZeroDivisors
  <2>7. CASE Equal(b, 0)  BY <1>0, <2>2, <2>7, EqualInField, <2>1 DEF Roots
  <2>8. CASE Equal(y, 0)
    <3>1. Equal(y + s, 0 + s)  BY <1>0, <2>8, EqualSum DEF Equal
    <3>2. y + s = x /\ 0 + s = s  BY <1>0, <2>1, <2>5
    <3>3. x = s  BY <1>0, <2>1, <3>1, <3>2, EqualInField
    <3> QED BY <3>3
  <2> QED BY <2>6, <2>7, <2>8
<1> QED BY <1>1, <1>5, <1>6

\* A polynomial that is not zero everywhere has no more roots than its degree:
\* the bound on what a cheating prover gains in a round (verify_compressed's
\* degree check).
THEOREM FewRoots ==
    ASSUME NEW n \in Nat, NEW c \in [1 .. n + 1 -> Int], NEW a \in Field, Evaluate(c, a) # 0
    PROVE  Cardinality({r \in Field : Evaluate(c, r) = 0}) <= n
<1> DEFINE Few(m) == \A d \in [1 .. m + 1 -> Int] : Evaluate(d, a) # 0 => Cardinality(Roots(d)) <= m
           K == {m \in 0 .. n : Few(m)}
<1>0. a \in Int  BY Fields
<1>1. Few(0)
  <2> TAKE d \in [1 .. 0 + 1 -> Int]
  <2> HAVE Evaluate(d, a) # 0
  <2>1. d[1] \in Int /\ d = <<d[1]>>  OBVIOUS
  <2>2. \A x \in Int : Evaluate(d, x) = d[1] % P  BY <2>1, EvaluateConstant
  <2>3. Roots(d) = {}  BY <1>0, <2>2, Fields DEF Roots
  <2> QED BY <2>3, FS_EmptySet
<1>2. ASSUME NEW m \in 0 .. n - 1, Few(m) PROVE Few(m + 1)
  <2> TAKE d \in [1 .. (m + 1) + 1 -> Int]
  <2> HAVE Evaluate(d, a) # 0
  <2>1. CASE Roots(d) = {}  BY <2>1, FS_EmptySet
  <2>2. CASE Roots(d) # {}
    <3>1. PICK s \in Roots(d) : TRUE  BY <2>2
    <3>2. PICK N \in Nat : N = m + 1  OBVIOUS
    <3>3. d \in [1 .. N + 1 -> Int]  BY <3>2
    <3>4. PICK q \in [1 .. N -> Int] : Evaluate(q, a) # 0 /\ Roots(d) \subseteq Roots(q) \cup {s}
      <4>1. \A e \in [1 .. N + 1 -> Int] : Evaluate(e, a) # 0 => \A z \in Roots(e) :
                \E q \in [1 .. N -> Int] : Evaluate(q, a) # 0 /\ Roots(e) \subseteq Roots(q) \cup {z}
          BY RootsOfQuotient, Zenon
      <4>2. \A z \in Roots(d) :
                \E q \in [1 .. N -> Int] : Evaluate(q, a) # 0 /\ Roots(d) \subseteq Roots(q) \cup {z}
          BY <3>3, <4>1, Zenon
      <4> QED BY <3>1, <4>2, Zenon
    <3>5. Cardinality(Roots(q)) <= m  BY <1>2, <3>2, <3>4
    <3>6. IsFiniteSet(Roots(q)) /\ Cardinality(Roots(q)) \in Nat /\ Cardinality(Roots(d)) \in Nat
        BY RootsFinite
    <3>7. /\ IsFiniteSet(Roots(q) \cup {s})
          /\ Cardinality(Roots(q) \cup {s}) = IF s \in Roots(q) THEN Cardinality(Roots(q)) ELSE Cardinality(Roots(q)) + 1
        BY <3>6, FS_AddElement
    <3>8. Cardinality(Roots(d)) <= Cardinality(Roots(q) \cup {s})  BY <3>4, <3>7, FS_Subset
    <3> QED BY <3>5, <3>6, <3>7, <3>8
  <2> QED BY <2>1, <2>2
<1>3. 0 \in K /\ \A m \in 0 .. n - 1 : m \in K => m + 1 \in K
  <2> HIDE DEF Few
  <2>1. 0 \in K  BY <1>1
  <2>2. \A m \in 0 .. n - 1 : m \in 0 .. n /\ m + 1 \in 0 .. n  OBVIOUS
  <2>3. ASSUME NEW m \in 0 .. n - 1, m \in K PROVE m + 1 \in K  BY <2>3, <1>2, <2>2
  <2> QED BY <2>1, <2>3
<1> HIDE DEF K
<1>4. 0 .. n \subseteq K  BY <1>3, Inductive
<1>5. n \in K  BY <1>4
<1>6. Few(n)  BY <1>5 DEF K
<1> QED BY <1>6 DEF Roots

\* What the verifier makes of a message: its coefficients, the linear one
\* recovered from the hint.
Whole(w, hint) == <<w[1], RecoverLinearTerm(w, hint)>> \o Tail(w)

LEMMA WholeTyped ==
    ASSUME NEW w \in Seq(Field), w # <<>>, NEW hint \in Int
    PROVE  /\ Whole(w, hint) \in Seq(Field) /\ Len(Whole(w, hint)) = Len(w) + 1
           /\ w[1] \in Int /\ Tail(w) \in Seq(Field) /\ Len(Tail(w)) = Len(w) - 1 /\ Len(w) - 1 \in Nat
           /\ Total(Tail(w)) \in Int /\ RecoverLinearTerm(w, hint) \in Field
           /\ Whole(w, hint)[1] = w[1] /\ Whole(w, hint)[2] = RecoverLinearTerm(w, hint)
           /\ \A k \in 1 .. Len(w) - 1 : Whole(w, hint)[k + 2] = Tail(w)[k]
<1> DEFINE n == Len(w)
           lin == RecoverLinearTerm(w, hint)
           d == Whole(w, hint)
<1>1. n \in Nat /\ n >= 1 /\ w \in [1 .. n -> Field]  BY EmptySeq, LenProperties
<1>2. w[1] \in Field /\ w[1] \in Int  BY <1>1, Fields
<1>3. Tail(w) \in Seq(Field) /\ Len(Tail(w)) = n - 1  BY <1>1
<1>4. Tail(w) \in [1 .. n - 1 -> Field] /\ n - 1 \in Nat  BY <1>1, <1>3, LenProperties
<1>5. Tail(w) \in [1 .. n - 1 -> Int]  BY <1>4, Fields
<1>6. Total(Tail(w)) \in Int  BY <1>4, <1>5, TotalInField
<1>7. lin \in Field
  <2>1. (hint - 2 * w[1]) - Total(Tail(w)) \in Int  BY <1>2, <1>6
  <2> QED BY <2>1, Division DEF RecoverLinearTerm
<1> HIDE DEF lin
<1>8. <<w[1], lin>> \in Seq(Field) /\ Len(<<w[1], lin>>) = 2
      /\ <<w[1], lin>>[1] = w[1] /\ <<w[1], lin>>[2] = lin
    BY <1>2, <1>7
<1>9. d \in Seq(Field) /\ Len(d) = 2 + (n - 1)
      /\ \A i \in 1 .. Len(d) : d[i] = IF i <= 2 THEN <<w[1], lin>>[i] ELSE Tail(w)[i - 2]
    BY <1>3, <1>8, ConcatProperties DEF Whole, lin
<1> HIDE DEF d
<1>10. d[1] = w[1] /\ d[2] = lin  BY <1>1, <1>8, <1>9
<1>11. \A k \in 1 .. n - 1 : d[k + 2] = Tail(w)[k]
  <2> TAKE k \in 1 .. n - 1
  <2>1. k + 2 \in 1 .. Len(d) /\ ~(k + 2 <= 2) /\ (k + 2) - 2 = k  BY <1>1, <1>9
  <2> QED BY <1>9, <2>1
<1>12. Len(d) = n + 1  BY <1>1, <1>9
<1> QED BY <1>2, <1>3, <1>4, <1>6, <1>7, <1>9, <1>10, <1>11, <1>12 DEF d, lin

\* The polynomial the verifier recovers has values at 0 and 1 that add up to the
\* hint, whatever the message.
LEMMA HintSums ==
    ASSUME NEW w \in Seq(Field), w # <<>>, NEW hint \in Field
    PROVE  (EvaluateWithHint(w, hint, 0) + EvaluateWithHint(w, hint, 1)) % P = hint
<1>0. hint \in Int  BY Fields
<1> DEFINE d == Whole(w, hint)
           t == Total(Tail(w))
           a == w[1]
           lin == RecoverLinearTerm(w, hint)
<1>1. PICK n \in Nat : n = Len(w) - 1  BY <1>0, WholeTyped
<1>2. /\ d \in Seq(Field) /\ Len(d) = n + 2 /\ a \in Int /\ t \in Int /\ lin \in Field
      /\ d[1] = a /\ d[2] = lin /\ Tail(w) \in Seq(Field) /\ Len(Tail(w)) = n
      /\ \A k \in 1 .. n : d[k + 2] = Tail(w)[k]
  <2>1. Len(w) + 1 = n + 2  BY <1>1
  <2> QED BY <1>0, <1>1, <2>1, WholeTyped
<1>3. lin = ((hint - 2 * a) - t) % P  BY DEF RecoverLinearTerm
<1>4. EvaluateWithHint(w, hint, 0) = Evaluate(d, 0) /\ EvaluateWithHint(w, hint, 1) = Evaluate(d, 1)
    BY DEF EvaluateWithHint, Whole
<1> DEFINE rest == Tail(w)
<1> HIDE DEF d, a, lin
<1>5. d \in [1 .. n + 2 -> Int] /\ lin \in Int  BY <1>2, Fields
<1>6. rest \in [1 .. n -> Int]
  <2>0. rest \in Seq(Field) /\ Len(rest) = n  BY <1>2
  <2> HIDE DEF rest
  <2>1. rest \in [1 .. n -> Field]  BY <2>0
  <2> QED BY <2>1, Fields
<1>7. t = Total(rest)  OBVIOUS
<1>8. rest = [k \in 1 .. n |-> rest[k]]  BY <1>6
<1> HIDE DEF rest, t
<1>9. Evaluate(d, 0) = a % P
  <2>1. PICK m \in Nat : m = n + 1  OBVIOUS
  <2>2. d \in [1 .. m + 1 -> Int]  BY <2>1, <1>5
  <2> QED BY <1>2, <2>2, EvaluateAtZero
<1>10. Evaluate(d, 1) = (((t + lin) % P) + a) % P
  <2> DEFINE one == 1
             m == n + 1
             most == [k \in 1 .. m |-> d[k + 1]]
             last == [k \in 1 .. n |-> most[k + 1]]
  <2>1. one \in Int /\ m \in Nat /\ m + 1 = n + 2  OBVIOUS
  <2>2. most \in [1 .. n + 1 -> Int] /\ most[1] = lin  BY <1>2, <1>5
  <2>3. last = rest
    <3>1. \A k \in 1 .. n : k + 1 \in 1 .. n + 1 /\ k + 1 + 1 = k + 2  OBVIOUS
    <3>2. \A k \in 1 .. n : most[k + 1] = rest[k]  BY <1>2, <3>1 DEF rest
    <3> HIDE DEF most
    <3> QED BY <1>8, <3>2
  <2>4. Evaluate(rest, one) = t /\ Evaluate(rest, one) \in Int
      BY <1>6, <1>7, EvaluateAtOne, EvaluateInField
  <2> HIDE DEF one, m
  <2>5. d \in [1 .. m + 1 -> Int]  BY <1>5, <2>1
  <2>6. Evaluate(d, one) = (Evaluate(most, one) * one + d[1]) % P  BY <2>1, <2>5, EvaluateCons
  <2> HIDE DEF most
  <2>7. Evaluate(most, one) = (Evaluate(last, one) * one + most[1]) % P  BY <2>1, <2>2, EvaluateCons
  <2>8. Evaluate(most, one) \in Int  BY <2>2, <2>1, EvaluateInField DEF m
  <2> HIDE DEF last
  <2>9. Evaluate(rest, one) * one = t /\ Evaluate(most, one) * one = Evaluate(most, one)
      BY <1>2, <2>4, <2>8 DEF one
  <2>10. Evaluate(d, one) = (Evaluate(most, one) + a) % P  BY <1>2, <2>6, <2>9
  <2>11. Evaluate(most, one) = (t + lin) % P  BY <2>2, <2>3, <2>7, <2>9
  <2> QED BY <2>10, <2>11 DEF one
\* a + (t + lin + a) is the hint.
<1>11. PICK u \in Int, v \in Int : u = a % P /\ v = (((t + lin) % P) + a) % P
         /\ Equal(u, a) /\ Equal(v, t + lin + a)
  <2>1. t + lin \in Int /\ t + lin + a \in Int  BY <1>2, <1>5
  <2>2. (t + lin) % P \in Int  BY <2>1, Division, Fields
  <2>3. Equal((t + lin) % P, t + lin) /\ Equal(a, a)  BY <2>1, EqualReduced DEF Equal
  <2>4. Equal(((t + lin) % P) + a, t + lin + a)  BY <1>2, <2>1, <2>2, <2>3, EqualSum
  <2>5. ((t + lin) % P) + a \in Int  BY <1>2, <2>2
  <2>6. Equal((((t + lin) % P) + a) % P, t + lin + a)  BY <2>4, <2>5, EqualReduced DEF Equal
  <2>7. a % P \in Int /\ (((t + lin) % P) + a) % P \in Int  BY <1>2, <2>5, Division, Fields
  <2>8. Equal(a % P, a)  BY <1>2, EqualReduced
  <2> QED BY <2>6, <2>7, <2>8
<1>12. Equal(u + v, hint)
  <2>1. (hint - 2 * a) - t \in Int  BY <1>0, <1>2
  <2>2. PICK q \in Int : lin = ((hint - 2 * a) - t) + P * q
      BY <1>3, <2>1, EqualReduced, <1>5, MultipleByEqual
  <2>3. t + lin + a \in Int /\ a + (t + lin + a) \in Int  BY <1>2, <1>5
  <2>4. a + (t + lin + a) = hint + P * q
    <3>1. PICK y \in Int : y = P * q  BY Characteristic
    <3> QED BY <1>0, <1>2, <2>2, <3>1
  <2>5. Equal(a + (t + lin + a), hint)  BY <1>0, <2>3, <2>4, EqualByMultiple
  <2>6. Equal(u + v, a + (t + lin + a))  BY <1>2, <1>11, <2>3, EqualSum
  <2> QED BY <2>5, <2>6 DEF Equal
<1>13. (u + v) % P = hint  BY <1>12, InField DEF Equal
<1> QED BY <1>4, <1>9, <1>10, <1>11, <1>13

\* A message that starts from a wrong claim leaves a right one behind for no
\* more challenges than the degree check allows (verify_compressed).
THEOREM LuckOfARound ==
    ASSUME NEW fs, NEW n, NEW h \in Nat, Tables(fs, n, h + h), NEW w \in Seq(Field), w # <<>>,
           NEW hint \in Field, hint # Sum(fs), NEW degree \in Nat, Len(w) <= degree, n <= degree
    PROVE  Cardinality({r \in Field : EvaluateWithHint(w, hint, r) = Sum(Bind(fs, r))}) <= degree
<1> DEFINE g == Whole(w, hint)
           b == RoundPoly(fs)
           c == Padded(g, degree + 1)
           d == Padded(b, degree + 1)
           e == [k \in 1 .. degree + 1 |-> c[k] - d[k]]
           Same(x) == Evaluate(g, x) = Evaluate(b, x)
           L == h + h
<1>0. degree + 1 \in Nat /\ 1 \in Int /\ -1 \in Int /\ hint \in Int /\ 0 \in Field /\ 1 \in Field /\ 0 \in Int
    BY Fields
<1>1. L \in Nat /\ n \in Nat /\ Tables(fs, n, L)  BY DEF Tables
<1>2. g \in Seq(Int) /\ Len(g) <= degree + 1
  <2>1. g \in Seq(Field) /\ Len(g) = Len(w) + 1  BY <1>0, WholeTyped
  <2>2. Len(w) \in Nat  OBVIOUS
  <2> HIDE DEF g
  <2>3. g \in Seq(Int)
    <3>1. PICK m \in Nat : m = Len(g)  BY <2>1
    <3>2. g \in [1 .. m -> Field]  BY <2>1, <3>1
    <3>3. g \in [1 .. m -> Int]  BY <3>2, Fields
    <3> QED BY <3>3
  <2> QED BY <2>1, <2>2, <2>3
<1>3. b \in Seq(Int) /\ Len(b) <= degree + 1
  <2>1. b \in [1 .. n + 1 -> Int]
    <3> HIDE DEF L
    <3> QED BY <1>0, <1>1, EvaluateRoundPoly
  <2>2. n + 1 \in Nat /\ n + 1 <= degree + 1  BY <1>1
  <2> HIDE DEF b
  <2>3. b \in Seq(Int) /\ Len(b) = n + 1  BY <2>1, <2>2
  <2> QED BY <2>2, <2>3
<1> HIDE DEF g, b, L
<1>4. \A x \in Int : /\ Evaluate(c, x) = Evaluate(g, x) /\ Evaluate(g, x) \in Field /\ Evaluate(g, x) \in Int
                     /\ Evaluate(d, x) = Evaluate(b, x) /\ Evaluate(b, x) \in Field /\ Evaluate(b, x) \in Int
    BY <1>0, <1>2, <1>3, EvaluatePadded
<1>5. c \in [1 .. degree + 1 -> Int] /\ d \in [1 .. degree + 1 -> Int]
    BY <1>0, <1>2, <1>3, EvaluatePadded
<1> HIDE DEF c, d
<1>6. e \in [1 .. degree + 1 -> Int] /\ \A k \in 1 .. degree + 1 : e[k] = c[k] - d[k]  BY <1>5
<1> HIDE DEF e
<1>7. PICK one \in Int, minus \in Int : one = 1 /\ minus = -1  BY <1>0
<1>8. Combines(degree + 1, e, one, c, minus, d)
  <2>1. ASSUME NEW k \in 1 .. degree + 1 PROVE Equal(e[k], Mix(one, c[k], minus, d[k]))
      BY <1>5, <1>7, <1>6 DEF Mix, Equal
  <2> QED BY <1>5, <1>6, <2>1 DEF Combines
\* The difference vanishes where the two have the same value.
<1>9. ASSUME NEW x \in Int PROVE Evaluate(e, x) = 0 <=> Same(x)
  <2>1. PICK u \in Int, v \in Int : u = Evaluate(g, x) /\ v = Evaluate(b, x) /\ u \in Field /\ v \in Field
      BY <1>4
  <2>2. Evaluate(e, x) = Mix(one, u, minus, v) % P  BY <1>0, <1>4, <1>8, <2>1, EvaluateLinear
  <2>3. Mix(one, u, minus, v) = u - v  BY <1>7 DEF Mix
  <2>4. Evaluate(e, x) = (u - v) % P  BY <2>2, <2>3
  <2>5. CASE u = v
    <3>1. u - v = 0 /\ 0 % P = 0  BY <1>0, <2>5, InField
    <3> QED BY <2>1, <2>4, <2>5, <3>1
  <2>6. CASE u # v
    <3> SUFFICES ASSUME Evaluate(e, x) = 0 PROVE FALSE
        BY <2>1, <2>6
    <3>1. u - v \in Int /\ (u - v) % P = 0  BY <2>4
    <3>2. Equal(u - v, 0) /\ Equal(v, v)  BY <1>0, <3>1, InField DEF Equal
    <3>3. Equal((u - v) + v, 0 + v)  BY <1>0, <3>1, <3>2, EqualSum
    <3>4. (u - v) + v = u /\ 0 + v = v  OBVIOUS
    <3> QED BY <2>1, <2>6, <3>3, <3>4, EqualInField
  <2> QED BY <2>5, <2>6
\* The two differ at 0 or at 1: their sums over 0 and 1 do.
<1>10. \E a \in Field : ~Same(a)
  <2> SUFFICES ASSUME Same(0), Same(1) PROVE FALSE
      BY <1>0
  <2>1. (EvaluateWithHint(w, hint, 0) + EvaluateWithHint(w, hint, 1)) % P = hint  BY HintSums
  <2>2. EvaluateWithHint(w, hint, 0) = Evaluate(g, 0) /\ EvaluateWithHint(w, hint, 1) = Evaluate(g, 1)
      BY DEF EvaluateWithHint, Whole, g
  <2>3. (Evaluate(b, 0) + Evaluate(b, 1)) % P = Sum(fs)  BY RoundPolySums DEF b
  <2>4. Evaluate(g, 0) = Evaluate(b, 0) /\ Evaluate(g, 1) = Evaluate(b, 1)  OBVIOUS
  <2> QED BY <2>1, <2>2, <2>3, <2>4
<1>11. PICK a \in Field : ~Same(a)  BY <1>10
<1>12. a \in Int  BY Fields
<1>13. Evaluate(e, a) # 0  BY <1>9, <1>11, <1>12
<1>14. Cardinality({r \in Field : Evaluate(e, r) = 0}) <= degree  BY <1>6, <1>13, FewRoots
<1>15. ASSUME NEW r \in Field
       PROVE  Evaluate(e, r) = 0 <=> EvaluateWithHint(w, hint, r) = Sum(Bind(fs, r))
    BY Fields, <1>1, RoundPolyBinds, <1>9 DEF EvaluateWithHint, Whole, g, b
<1>16. {r \in Field : Evaluate(e, r) = 0} = {r \in Field : EvaluateWithHint(w, hint, r) = Sum(Bind(fs, r))}
    BY <1>15
<1> QED BY <1>14, <1>16

-----------------------------------------------------------------------------
(* A member bound at several challenges *)

\* The tables after each of the challenges.
Binds(T, fs, s, m) == T[0] = fs /\ \A k \in 1 .. m : T[k] = Bind(T[k - 1], s[k])

Families(n) == UNION {[1 .. n -> [1 .. L -> Field]] : L \in Nat}

LEMMA FamiliesBind ==
    ASSUME NEW n \in Nat, n > 0, NEW fs \in Families(n), NEW r \in Field
    PROVE  Bind(fs, r) \in Families(n)
<1>1. PICK L \in Nat : fs \in [1 .. n -> [1 .. L -> Field]]  BY DEF Families
<1>2. Tables(fs, n, L)  BY <1>1 DEF Tables
<1>3. r \in Int  BY Fields
<1>4. Tables(Bind(fs, r), n, L \div 2)  BY <1>2, <1>3, BindTyped
<1> QED BY <1>4 DEF Tables, Families

LEMMA BoundSteps ==
    ASSUME NEW n \in Nat, n > 0, NEW fs \in Families(n), NEW m \in Nat, NEW s \in [1 .. m -> Field]
    PROVE  \E T : Binds(T, fs, s, m) /\ FoldLeft(Bind, fs, s) = T[m]
<1> DEFINE V == Families(n)
           g == [p \in V \X (1 .. m) |-> Bind(p[1], s[p[2]])]
           next == [S \in SUBSET (1 .. m) |-> Max(S)]
           F == CHOOSE f : f = [S \in SUBSET (1 .. m) |->
                      IF S = {} THEN fs ELSE Bind(f[S \ {Max(S)}], s[Max(S)])]
           T == [k \in 0 .. m |-> F[1 .. k]]
<1>1. FoldLeft(Bind, fs, s) = F[1 .. m]  BY DEF FoldLeft, MapThenFoldSet
<1>2. ASSUME NEW S \in SUBSET (1 .. m), S # {}
      PROVE  Max(S) \in S /\ Max(S) \in 1 .. m /\ \A k \in S : k <= Max(S)
    BY <1>2, Greatest
<1>3. g \in [V \X (1 .. m) -> V]
  <2>1. \A a \in V : \A r \in Field : Bind(a, r) \in V  BY FamiliesBind
  <2>2. \A p \in V \X (1 .. m) : p[1] \in V /\ s[p[2]] \in Field  OBVIOUS
  <2> HIDE DEF V
  <2> QED BY <2>1, <2>2
<1>4. \A S \in SUBSET (1 .. m) : S # {} => next[S] \in S  BY <1>2
<1>5. \E f : f = [S \in SUBSET (1 .. m) |->
                    IF S = {} THEN fs ELSE Bind(f[S \ {Max(S)}], s[Max(S)])]
  <2>1. PICK f \in [SUBSET (1 .. m) -> V] : Iterates(f, m, fs, g, next)
    <3>1. fs \in V  OBVIOUS
    <3> HIDE DEF g, next, V
    <3> QED BY <1>3, <1>4, <3>1, Iteration
  <2>2. ASSUME NEW S \in SUBSET (1 .. m), S # {}
        PROVE  g[<<f[S \ {next[S]}], next[S]>>] = Bind(f[S \ {Max(S)}], s[Max(S)])
    <3>1. next[S] = Max(S) /\ Max(S) \in 1 .. m /\ f[S \ {Max(S)}] \in V  BY <1>2, <2>2
    <3> HIDE DEF next, V
    <3> QED BY <3>1
  <2>3. f = [S \in SUBSET (1 .. m) |->
               IF S = {} THEN fs ELSE Bind(f[S \ {Max(S)}], s[Max(S)])]
    <3> HIDE DEF g, next, V
    <3> QED BY <2>1, <2>2 DEF Iterates
  <2> QED BY <2>3, Zenon
<1>6. F = [S \in SUBSET (1 .. m) |->
             IF S = {} THEN fs ELSE Bind(F[S \ {Max(S)}], s[Max(S)])]
    BY <1>5, Zenon
<1> HIDE DEF F, g, next, V
<1>7. T[0] = fs  BY <1>6
<1>8. ASSUME NEW k \in 1 .. m
      PROVE  T[k] = Bind(T[k - 1], s[k])
  <2>0. k \in Nat /\ 1 <= k /\ k <= m  OBVIOUS
  <2>1. 1 .. k \in SUBSET (1 .. m) /\ 1 .. k # {} /\ k \in 1 .. k
    <3>1. k \in 1 .. k /\ \A i \in 1 .. k : i \in 1 .. m  BY <2>0
    <3> QED BY <3>1
  <2>2. Max(1 .. k) = k
    <3>1. Max(1 .. k) \in 1 .. k /\ k <= Max(1 .. k)  BY <1>2, <2>1
    <3> QED BY <3>1
  <2>3. (1 .. k) \ {k} = 1 .. k - 1  OBVIOUS
  <2>4. F[1 .. k] = Bind(F[1 .. k - 1], s[k])  BY <1>6, <2>1, <2>2, <2>3
  <2> QED BY <2>4
<1>9. FoldLeft(Bind, fs, s) = T[m]  BY <1>1
<1> HIDE DEF T
<1>10. Binds(T, fs, s, m)  BY <1>7, <1>8 DEF Binds
<1> QED BY <1>9, <1>10, Zenon

\* One challenge more binds the tables once more.
LEMMA BoundAppend ==
    ASSUME NEW n \in Nat, n > 0, NEW fs \in Families(n), NEW m \in Nat, NEW s \in Seq(Field), Len(s) = m,
           NEW r \in Field
    PROVE  FoldLeft(Bind, fs, Append(s, r)) = Bind(FoldLeft(Bind, fs, s), r)
<1> DEFINE u == Append(s, r)
<1>1. s \in [1 .. m -> Field] /\ u \in [1 .. m + 1 -> Field] /\ m + 1 \in Nat
  <2>1. u \in Seq(Field) /\ Len(u) = m + 1  OBVIOUS
  <2> HIDE DEF u
  <2> QED BY <2>1
<1>2. u[m + 1] = r /\ \A k \in 1 .. m : u[k] = s[k]  OBVIOUS
<1> HIDE DEF u
<1>3. PICK T : Binds(T, fs, s, m) /\ FoldLeft(Bind, fs, s) = T[m]  BY <1>1, BoundSteps
<1>4. PICK U : Binds(U, fs, u, m + 1) /\ FoldLeft(Bind, fs, u) = U[m + 1]  BY <1>1, BoundSteps
<1> DEFINE K == {k \in 0 .. m : T[k] = U[k]}
<1>5. 0 \in K  BY <1>3, <1>4 DEF Binds
<1>6. ASSUME NEW k \in 0 .. m - 1, k \in K PROVE k + 1 \in K
  <2>1. k + 1 \in 1 .. m /\ k + 1 \in 1 .. m + 1 /\ k + 1 - 1 = k /\ k + 1 \in 0 .. m  OBVIOUS
  <2>2. T[k + 1] = Bind(T[k], s[k + 1]) /\ U[k + 1] = Bind(U[k], u[k + 1])
      BY <1>3, <1>4, <2>1 DEF Binds
  <2>3. T[k] = U[k] /\ u[k + 1] = s[k + 1]  BY <1>2, <1>6, <2>1
  <2> QED BY <2>1, <2>2, <2>3
<1>7. 0 .. m \subseteq K
  <2> HIDE DEF K
  <2> QED BY <1>5, <1>6, Inductive
<1>8. T[m] = U[m]  BY <1>7
<1>9. U[m + 1] = Bind(U[m], u[m + 1])  BY <1>4 DEF Binds
<1> QED BY <1>2, <1>3, <1>4, <1>8, <1>9 DEF u

\* Tables over a hypercube of N variables are over one of N - m after m challenges.
LEMMA BoundTables ==
    ASSUME NEW fs, NEW n, NEW N \in Nat, Tables(fs, n, TwoTo(N)), NEW m \in 0 .. N,
           NEW s \in Seq(Field), Len(s) = m
    PROVE  Tables(FoldLeft(Bind, fs, s), n, TwoTo(N - m))
<1>1. n \in Nat /\ n > 0 /\ fs \in Families(n)  BY DEF Tables, Families
<1>2. m \in Nat /\ s \in [1 .. m -> Field]  OBVIOUS
<1>3. PICK T : Binds(T, fs, s, m) /\ FoldLeft(Bind, fs, s) = T[m]  BY <1>1, <1>2, BoundSteps
<1> DEFINE K == {k \in 0 .. m : Tables(T[k], n, TwoTo(N - k))}
<1>4. 0 \in K  BY <1>3 DEF Binds
<1>5. ASSUME NEW k \in 0 .. m - 1, k \in K PROVE k + 1 \in K
  <2>1. k + 1 \in 1 .. m /\ k + 1 - 1 = k /\ k + 1 \in 0 .. m  OBVIOUS
  <2>2. PICK j \in Nat : j = N - (k + 1) /\ N - k = j + 1  OBVIOUS
  <2>3. PICK h \in Nat : h = TwoTo(j) /\ TwoTo(j + 1) = h + h  BY TwoToNext
  <2>4. Tables(T[k], n, h + h)  BY <1>5, <2>2, <2>3
  <2>5. s[k + 1] \in Int /\ T[k + 1] = Bind(T[k], s[k + 1])  BY <1>2, <2>1, <1>3, Fields DEF Binds
  <2>6. (h + h) \div 2 = h  OBVIOUS
  <2>7. Tables(T[k + 1], n, (h + h) \div 2)  BY <2>4, <2>5, BindTyped
  <2> QED BY <2>1, <2>2, <2>3, <2>6, <2>7
<1>6. 0 .. m \subseteq K
  <2> HIDE DEF K
  <2> QED BY <1>2, <1>4, <1>5, Inductive
<1>7. m \in K  BY <1>6
<1> QED BY <1>3, <1>7

-----------------------------------------------------------------------------
(* The inductive invariant of delivery *)

\* A challenge or none, the code's Option.
Option == {<<>>} \cup {<<r>> : r \in Field}

\* The items of a round are those of the active members, each once: still to
\* run or run.
IndexesLeft == {item.index : item \in work}
IndexesRun  == {ran[k].index : k \in DOMAIN ran}

Elements(s) == {s[k] : k \in DOMAIN s}

Shape ==
    /\ batch \in Batches \cup Sealed \cup Forged
    /\ challenges \in Seq(Field)
    /\ \A t \in DOMAIN oracle : oracle[t] \in Field
    /\ delivered \in [1 .. Len(batch.kernels) -> Seq(Field)]
    /\ pending_binds \in [Members -> Option]
    /\ ran \in Seq(Elements(ran))

Items ==
    /\ phase \in {"check", "round", "finish"} => work = {}
    /\ \A item \in work :
         /\ item = [index |-> item.index, local_round |-> item.local_round,
                    bind |-> item.bind, claim |-> item.claim, message |-> item.message]
         /\ item.index \in Members /\ item.bind \in Option
    /\ \A a, b \in work : a.index = b.index => a = b
    /\ phase = "schedule" =>
         /\ IndexesLeft \cup IndexesRun = {i \in Members : Active(i)}
         /\ \A i \in Members : Active(i) => pending_binds[i] = <<>>

\* What member i holds of its slice: what it was given, its item, what is pending.
BindOf(held) == IF held = {} THEN <<>> ELSE (CHOOSE item \in held : TRUE).bind
InItem(i) == BindOf({item \in work : item.index = i})

DeliveryInv == Shape /\ Items /\ ChallengesDelivered

-----------------------------------------------------------------------------
(* Sequences *)

LEMMA MinOfTwo == \A a, b \in Int : Min({a, b}) = IF a <= b THEN a ELSE b
<1> SUFFICES ASSUME NEW a \in Int, NEW b \in Int
             PROVE  Min({a, b}) = IF a <= b THEN a ELSE b
    OBVIOUS
<1> DEFINE m == IF a <= b THEN a ELSE b
<1>1. m \in {a, b} /\ \A y \in {a, b} : m <= y  OBVIOUS
<1>2. \A x \in {a, b} : (\A y \in {a, b} : x <= y) => x = m  OBVIOUS
<1> QED BY <1>1, <1>2 DEF Min

LEMMA PrefixKept ==
    ASSUME NEW S, NEW s \in Seq(S), NEW x \in S, NEW m \in Nat, NEW n \in Nat, n <= Len(s), m >= 1
    PROVE  SubSeq(Append(s, x), m, n) = SubSeq(s, m, n)
<1> DEFINE t == Append(s, x)
<1>1. t \in Seq(S) /\ Len(t) = Len(s) + 1 /\ \A i \in 1 .. Len(s) : t[i] = s[i]  BY AppendProperties
<1>2. Len(s) \in Nat  OBVIOUS
<1> HIDE DEF t
<1>3. CASE n < m  BY <1>3, SubSeqEmpty DEF t
<1>4. CASE m <= n  BY <1>2, <1>1, ElementOfSeq, <1>4, SubSeqProperties, SeqEqual DEF t
<1> QED BY <1>3, <1>4

LEMMA PrefixGrows ==
    ASSUME NEW S, NEW s \in Seq(S), NEW x \in S, NEW m \in Nat, m >= 1, m <= Len(s) + 1
    PROVE  SubSeq(Append(s, x), m, Len(s) + 1) = SubSeq(s, m, Len(s)) \o <<x>>
<1> DEFINE t == Append(s, x)
           n == Len(s) + 1
<1>1. t \in Seq(S) /\ Len(t) = n /\ t[n] = x  BY AppendProperties
<1>2. n \in Nat /\ m \in 1 .. Len(t) /\ n \in m .. Len(t) /\ n - 1 = Len(s) /\ Len(s) \in Nat
    BY <1>1
<1> HIDE DEF t, n
<1>3. SubSeq(t, m, n) = SubSeq(t, m, n - 1) \o <<t[n]>>  BY <1>1, <1>2, SubSeqRecursiveSecond
<1>4. SubSeq(t, m, n - 1) = SubSeq(s, m, Len(s))  BY <1>2, PrefixKept DEF t
<1> QED BY <1>1, <1>3, <1>4 DEF t, n

LEMMA AppendedRange ==
    \A s, x : s \in Seq(Elements(s)) =>
        /\ Append(s, x) \in Seq(Elements(Append(s, x)))
        /\ Elements(Append(s, x)) = Elements(s) \cup {x}
<1> SUFFICES ASSUME NEW s, s \in Seq(Elements(s)), NEW x
             PROVE  /\ Append(s, x) \in Seq(Elements(Append(s, x)))
                    /\ Elements(Append(s, x)) = Elements(s) \cup {x}
    OBVIOUS
<1> DEFINE S == Elements(s)
           t == Append(s, x)
<1>1. s \in Seq(S \cup {x})
  <2>1. s \in Seq(S) /\ S \subseteq S \cup {x}  OBVIOUS
  <2> HIDE DEF S
  <2> QED BY <2>1
<1>2. /\ t \in Seq(S \cup {x}) /\ Len(t) = Len(s) + 1 /\ t[Len(s) + 1] = x
      /\ \A i \in 1 .. Len(s) : t[i] = s[i]
    BY <1>1, AppendProperties
<1>3. Len(s) \in Nat /\ DOMAIN s = 1 .. Len(s) /\ DOMAIN t = 1 .. Len(t)
    BY <1>1, <1>2, LenProperties
<1> HIDE DEF t
<1>4. DOMAIN t = DOMAIN s \cup {Len(s) + 1}  BY <1>2, <1>3
<1>5. Elements(t) = S \cup {x}  BY <1>2, <1>3, <1>4 DEF Elements
<1> QED BY <1>2, <1>5 DEF t

LEMMA OptionsAreSequences == Option \subseteq Seq(Field)
<1>1. \A r \in Field : <<r>> \in Seq(Field)  OBVIOUS
<1>2. <<>> \in Seq(Field)  OBVIOUS
<1>3. \A o \in Option : o = <<>> \/ \E r \in Field : o = <<r>>  BY DEF Option
<1> QED BY ONLY <1>1, <1>2, <1>3, Zenon

-----------------------------------------------------------------------------
(* Slices *)

LEMMA Descriptions ==
    ASSUME Shape, NEW i \in Members
    PROVE  Described(i).offset \in Nat /\ Described(i).rounds \in Nat
<1>1. batch.described \in Seq([input_claim : Field, coefficient : Field, rounds : Nat, offset : Nat])
    BY BatchAssumption DEF Shape
<1>2. batch.described[i] \in [input_claim : Field, coefficient : Field, rounds : Nat, offset : Nat]
    BY <1>1, LenProperties, ElementOfSeq DEF Members
<1> QED BY <1>2 DEF Described

LEMMA SliceAt ==
    ASSUME Shape, NEW i \in Members
    PROVE  Slice(i) = SubSeq(challenges, Described(i).offset + 1,
                             IF round <= Described(i).offset + Described(i).rounds THEN round
                             ELSE Described(i).offset + Described(i).rounds)
<1>1. round \in Int /\ Described(i).offset + Described(i).rounds \in Int
    BY Descriptions DEF Shape, round
<1> QED BY <1>1, MinOfTwo DEF Slice

\* A round's challenge belongs to the slices of the members active in it.
LEMMA SliceGrows ==
    ASSUME Shape, Shape', NEW i \in Members, NEW r \in Field, batch' = batch,
           challenges' = Append(challenges, r)
    PROVE  Slice(i)' = IF Active(i) THEN Slice(i) \o <<r>> ELSE Slice(i)
<1> DEFINE o == Described(i).offset
           n == Described(i).rounds
           c == Len(challenges)
<1>1. /\ o \in Nat /\ n \in Nat /\ c \in Nat /\ challenges \in Seq(Field)  BY Descriptions DEF Shape
<1>2. Slice(i) = SubSeq(challenges, o + 1, IF c <= o + n THEN c ELSE o + n)  BY SliceAt DEF round
<1>3. Slice(i)' = SubSeq(Append(challenges, r), o + 1, IF c + 1 <= o + n THEN c + 1 ELSE o + n)
  <2>1. i \in Members'  BY DEF Members
  <2>2. round' = c + 1  BY <1>1, AppendProperties DEF round
  <2>3. (Described(i).offset)' = o /\ (Described(i).rounds)' = n  BY DEF Described
  <2>4. Slice(i)' = SubSeq(challenges', (Described(i).offset)' + 1,
                           Min({round', (Described(i).offset)' + (Described(i).rounds)'}))
      BY DEF Slice
  <2> HIDE DEF o, n, c
  <2>5. Min({c + 1, o + n}) = IF c + 1 <= o + n THEN c + 1 ELSE o + n  BY <1>1, MinOfTwo
  <2> QED BY <2>2, <2>3, <2>4, <2>5
<1>4. Active(i) <=> c >= o /\ c < o + n  BY DEF Active, round
<1> HIDE DEF o, n, c
<1>5. CASE c >= o /\ c < o + n
  <2>1. c <= o + n /\ c + 1 <= o + n /\ o + 1 \in Nat /\ o + 1 >= 1 /\ o + 1 <= c + 1  BY <1>1, <1>5
  <2>2. SubSeq(Append(challenges, r), o + 1, c + 1) = SubSeq(challenges, o + 1, c) \o <<r>>
      BY <1>1, <2>1, PrefixGrows DEF c
  <2> QED BY <1>2, <1>3, <1>4, <1>5, <2>1, <2>2
<1>6. CASE c < o
  <2> DEFINE x == IF c <= o + n THEN c ELSE o + n
             y == IF c + 1 <= o + n THEN c + 1 ELSE o + n
  <2>1. x \in Int /\ x < o + 1 /\ y \in Int /\ y < o + 1 /\ o + 1 \in Int  BY <1>1, <1>6
  <2> HIDE DEF x, y
  <2>2. SubSeq(challenges, o + 1, x) = <<>> /\ SubSeq(Append(challenges, r), o + 1, y) = <<>>
      BY <2>1, SubSeqEmpty
  <2>3. ~(c >= o)  BY <1>1, <1>6
  <2> QED BY <1>2, <1>3, <1>4, <2>2, <2>3 DEF x, y
<1>7. CASE c >= o + n
  <2>1. o + n \in Nat /\ o + n <= c /\ o + 1 \in Nat /\ o + 1 >= 1
        /\ ~(c + 1 <= o + n) /\ (c <= o + n => c = o + n) /\ ~(c < o + n)
      BY <1>1, <1>7
  <2>2. SubSeq(Append(challenges, r), o + 1, o + n) = SubSeq(challenges, o + 1, o + n)
      BY <1>1, <2>1, PrefixKept DEF c
  <2> QED BY <1>2, <1>3, <1>4, <2>1, <2>2
<1> QED BY <1>1, <1>5, <1>6, <1>7

-----------------------------------------------------------------------------
(* The invariant is kept *)

LEMMA DeliveryParts ==
    ChallengesDelivered <=>
        \A i \in Members \cap DOMAIN delivered :
            delivered[i] \o InItem(i) \o pending_binds[i] = Slice(i)
BY DEF ChallengesDelivered, InItem, BindOf

LEMMA OracleKept ==
    ASSUME \A u \in DOMAIN oracle : oracle[u] \in Field,
           NEW t, NEW r \in Squeeze(t), oracle' = Remember(t, r)
    PROVE  /\ r \in Field
           /\ \A u \in DOMAIN oracle' : oracle'[u] \in Field
           /\ DOMAIN oracle' = DOMAIN oracle \cup {t} /\ oracle'[t] = r
           /\ \A u \in DOMAIN oracle : oracle'[u] = oracle[u]
<1>1. r \in Field /\ (t \in DOMAIN oracle => r = oracle[t])  BY DEF Squeeze
<1>2. oracle' = [u \in DOMAIN oracle \cup {t} |-> IF u = t THEN r ELSE oracle[u]]  BY DEF Remember
<1> QED BY <1>1, <1>2

\* A step that moves no challenge.
LEMMA QuietDelivery ==
    ASSUME DeliveryInv, UNCHANGED <<batch, delivered, pending_binds, work, ran, challenges>>,
           \A t \in DOMAIN oracle' : oracle'[t] \in Field,
           phase' # "schedule" \/ phase' = phase,
           phase' \in {"check", "round", "finish"} => work = {}
    PROVE  DeliveryInv'
<1>1. Shape'  BY DEF DeliveryInv, Shape, Members
<1>2. Items'
  <2>1. \A i \in Members : Active(i)' <=> Active(i)  BY DEF Active, Described, round
  <2>2. Members' = Members /\ IndexesLeft' = IndexesLeft /\ IndexesRun' = IndexesRun
      BY DEF Members, IndexesLeft, IndexesRun
  <2> QED BY <2>1, <2>2 DEF DeliveryInv, Items
<1>3. ChallengesDelivered'
  <2>1. Members' = Members /\ \A i \in Members : Slice(i)' = Slice(i) /\ InItem(i)' = InItem(i)
      BY DEF Members, Slice, Described, round, InItem
  <2> QED BY <2>1, DeliveryParts DEF DeliveryInv, ChallengesDelivered, InItem, BindOf
<1> QED BY <1>1, <1>2, <1>3 DEF DeliveryInv

\* The oracle's part of a step of the verifier.
LEMMA VerifierOracle ==
    ASSUME Shape, VNext \/ oracle' = oracle
    PROVE  \A t \in DOMAIN oracle' : oracle'[t] \in Field
<1>1. CASE oracle' = oracle  BY <1>1 DEF Shape
<1>2. CASE VNext
  <2>1. CASE RejectRound \/ Reduce  BY <2>1 DEF RejectRound, Reduce, Shape
  <2>2. CASE AcceptRound
    <3>1. PICK r \in Squeeze(vtranscript') : oracle' = Remember(vtranscript', r)
        BY <2>2 DEF AcceptRound
    <3> QED BY <3>1, OracleKept DEF Shape
  <2> QED BY <1>2, <2>1, <2>2 DEF VNext
<1> QED BY <1>1, <1>2

LEMMA MemberErrors ==
    \A i : MemberError(i) \in {"BatchMemberRoundsMismatch", "BatchMemberWindowOutOfRange", "none"}
BY DEF MemberError

LEMMA QuietSteps ==
    ASSUME DeliveryInv, Forge \/ Check \/ FailRound \/ LastRound \/ Finish \/ Verify
    PROVE  DeliveryInv'
<1>1. /\ UNCHANGED <<batch, delivered, pending_binds, work, ran, challenges>>
      /\ VNext \/ oracle' = oracle
    BY DEF Forge, Check, FailRound, LastRound, Finish, Verify, vvars, pvars
<1>2. \A t \in DOMAIN oracle' : oracle'[t] \in Field  BY <1>1, VerifierOracle DEF DeliveryInv
<1>3. /\ phase' # "schedule" \/ phase' = phase
      /\ phase' \in {"check", "round", "finish"} => work = {}
  <2>1. CASE Forge \/ LastRound \/ Finish \/ Verify
      BY <2>1 DEF Forge, LastRound, Finish, Verify, pvars, DeliveryInv, Items
  <2>2. CASE Check  BY <2>2, MemberErrors DEF Check, DeliveryInv, Items, CheckError
  <2>3. CASE FailRound  BY <2>3 DEF FailRound, RoundErrors, ItemErrors
  <2> QED BY <2>1, <2>2, <2>3
<1> QED BY <1>1, <1>2, <1>3, QuietDelivery

\* A round hands each active member what was pending for it.
LEMMA StartDelivery ==
    ASSUME DeliveryInv, StartRound
    PROVE  DeliveryInv'
<1> DEFINE active == {j \in Members : Active(j)}
<1>1. /\ phase = "round" /\ work = {} /\ phase' = "schedule" /\ ran' = <<>>
      /\ work' = {Item(i) : i \in active}
      /\ pending_binds' = [i \in Members |-> Taken(i)]
      /\ UNCHANGED <<batch, delivered, challenges, oracle>>
    BY DEF StartRound, vvars, DeliveryInv, Items
<1>2. /\ Members' = Members
      /\ \A i \in Members : (Active(i)' <=> Active(i)) /\ Slice(i)' = Slice(i)
    BY <1>1 DEF Members, Active, Slice, Described, round
<1>3. \A i : /\ Item(i).index = i /\ Item(i).bind = pending_binds[i]
             /\ Item(i) = [index |-> Item(i).index, local_round |-> Item(i).local_round,
                           bind |-> Item(i).bind, claim |-> Item(i).claim,
                           message |-> Item(i).message]
    BY DEF Item
<1>4. \A i \in Members : pending_binds[i] \in Option /\ pending_binds'[i] \in Option
                         /\ pending_binds'[i] = IF Active(i) THEN <<>> ELSE pending_binds[i]
    BY <1>1 DEF DeliveryInv, Shape, Taken, Option
<1>5. Shape'  BY <1>1, <1>4, <1>2 DEF DeliveryInv, Shape
<1>6. Items'  BY <1>1, <1>3, <1>4, <1>2 DEF IndexesRun, IndexesLeft, Items
<1>7. ASSUME NEW i \in Members \cap DOMAIN delivered
      PROVE  delivered'[i] \o InItem(i)' \o pending_binds'[i] = Slice(i)'
  <2>1. delivered[i] \o InItem(i) \o pending_binds[i] = Slice(i)  BY DeliveryParts DEF DeliveryInv
  <2>2. InItem(i) = <<>>  BY <1>1 DEF InItem, BindOf
  <2>3. delivered[i] \in Seq(Field) /\ pending_binds[i] \in Seq(Field)
      BY <1>4, OptionsAreSequences DEF DeliveryInv, Shape
  <2>4. delivered[i] \o <<>> = delivered[i]  BY <2>3, ConcatEmptySeq
  <2>5. CASE Active(i)
    <3>1. {item \in work' : item.index = i} = {Item(i)}  BY <1>1, <1>3, <2>5
    <3>2. InItem(i)' = pending_binds[i]  BY <1>3, <3>1 DEF InItem, BindOf
    <3>3. delivered[i] \o pending_binds[i] \in Seq(Field)  BY <2>3, ConcatProperties
    <3>4. (delivered[i] \o pending_binds[i]) \o <<>> = delivered[i] \o pending_binds[i]
        BY <3>3, ConcatEmptySeq
    <3> QED BY <1>1, <1>2, <1>4, <2>1, <2>2, <2>4, <2>5, <3>2, <3>4
  <2>6. CASE ~Active(i)
    <3>1. {item \in work' : item.index = i} = {}  BY <1>1, <1>3, <2>6
    <3>2. InItem(i)' = <<>>  BY <3>1 DEF InItem, BindOf
    <3> QED BY <1>1, <1>2, <1>4, <2>1, <2>2, <2>6, <3>2
  <2> QED BY <2>5, <2>6
<1>8. ChallengesDelivered'  BY <1>1, <1>2, <1>7 DEF ChallengesDelivered, InItem, BindOf
<1> QED BY <1>5, <1>6, <1>8 DEF DeliveryInv

\* A scheduler runs an item: what the item held moves to the member.
LEMMA RunDelivery ==
    ASSUME DeliveryInv, NEW item \in work, Run(item)
    PROVE  DeliveryInv'
<1> DEFINE e == [item EXCEPT !.message = Message(item.index)]
<1>1. /\ phase = "schedule" /\ phase' = phase /\ work' = work \ {item}
      /\ delivered' = [delivered EXCEPT ![item.index] = @ \o item.bind]
      /\ ran' = Append(ran, e)
      /\ UNCHANGED <<batch, pending_binds, challenges, oracle>>
    BY DEF Run, Delivered, vvars
<1>2. /\ Members' = Members
      /\ \A i \in Members : (Active(i)' <=> Active(i)) /\ Slice(i)' = Slice(i)
    BY <1>1 DEF Members, Active, Slice, Described, round
<1>3. /\ item.index \in Members /\ item.bind \in Seq(Field)
      /\ \A a \in work : a.index = item.index => a = item
    BY OptionsAreSequences DEF DeliveryInv, Items
<1>4. e.index = item.index  BY DEF DeliveryInv, Items
<1> HIDE DEF e
<1>5. ran' \in Seq(Elements(ran')) /\ Elements(ran') = Elements(ran) \cup {e}
    BY <1>1, AppendedRange DEF DeliveryInv, Shape
<1>6. \A i \in DOMAIN delivered : delivered[i] \in Seq(Field)  BY DEF DeliveryInv, Shape
<1>7. Shape'  BY <1>3, <1>6, ConcatProperties, <1>1, <1>2, <1>5 DEF DeliveryInv, Shape
<1>8. Items'
  <2>1. IndexesRun' = IndexesRun \cup {item.index}
    <3>1. IndexesRun = {m.index : m \in Elements(ran)}  BY DEF IndexesRun, Elements
    <3>2. IndexesRun' = {m.index : m \in Elements(ran')}  BY DEF IndexesRun, Elements
    <3> QED BY <1>4, <1>5, <3>1, <3>2
  <2>2. IndexesLeft = IndexesLeft' \cup {item.index}  BY <1>1 DEF IndexesLeft
  <2>3. IndexesLeft' \cup IndexesRun' = {i \in Members : Active(i)}
      BY <1>1, <2>1, <2>2 DEF DeliveryInv, Items
  <2> QED BY <1>1, <1>2, <2>3 DEF DeliveryInv, Items
<1>9. ASSUME NEW i \in Members \cap DOMAIN delivered
      PROVE  delivered'[i] \o InItem(i)' \o pending_binds'[i] = Slice(i)'
  <2>1. delivered[i] \o InItem(i) \o pending_binds[i] = Slice(i)  BY DeliveryParts DEF DeliveryInv
  <2>2. CASE i = item.index
    <3>1. {a \in work : a.index = i} = {item} /\ {a \in work' : a.index = i} = {}
        BY <1>1, <1>3, <2>2
    <3>2. InItem(i) = item.bind /\ InItem(i)' = <<>>  BY <3>1 DEF InItem, BindOf
    <3>3. delivered'[i] = delivered[i] \o item.bind  BY <1>1, <2>2
    <3>4. delivered[i] \o item.bind \in Seq(Field)  BY <1>3, <1>6, ConcatProperties
    <3>5. (delivered[i] \o item.bind) \o <<>> = delivered[i] \o item.bind  BY <3>4, ConcatEmptySeq
    <3> QED BY <1>1, <1>2, <2>1, <3>2, <3>3, <3>5
  <2>3. CASE i # item.index  BY <1>1, <2>3, <1>2, <2>1 DEF InItem
  <2> QED BY <2>2, <2>3
<1>10. ChallengesDelivered'  BY <1>1, <1>2, <1>9 DEF ChallengesDelivered, InItem, BindOf
<1> QED BY <1>7, <1>8, <1>10 DEF DeliveryInv

\* The round's challenge becomes pending for the members that ran, which are
\* the active ones, whatever the order they ran in.
LEMMA FinishDelivery ==
    ASSUME DeliveryInv, FinishRound
    PROVE  DeliveryInv'
<1> DEFINE result(i) == {k \in DOMAIN ran : Attribute(i, k)}
<1>1. /\ phase = "schedule" /\ phase' = "round" /\ work = {} /\ work' = {} /\ ran' = <<>>
      /\ UNCHANGED <<batch, delivered>>
    BY DEF FinishRound
<1>2. PICK r \in Squeeze(transcript') :
          /\ oracle' = Remember(transcript', r)
          /\ challenges' = Append(challenges, r)
          /\ pending_binds' = [i \in Members |->
                 IF result(i) = {} THEN pending_binds[i] ELSE <<r>>]
    BY DEF FinishRound
<1>3. r \in Field /\ \A u \in DOMAIN oracle' : oracle'[u] \in Field
    BY <1>2, OracleKept DEF DeliveryInv, Shape
<1>4. \A i \in Members : result(i) = {} <=> ~Active(i)
    BY <1>1 DEF DeliveryInv, Items, IndexesLeft, IndexesRun, Attribute
<1> HIDE DEF result
<1>5. /\ Members' = Members
      /\ \A i \in Members :
           /\ pending_binds[i] \in Option
           /\ pending_binds'[i] = IF Active(i) THEN <<r>> ELSE pending_binds[i]
           /\ Active(i) => pending_binds[i] = <<>>
    BY <1>1, <1>2, <1>4 DEF DeliveryInv, Shape, Items, Members
<1>6. Shape'  BY <1>1, <1>3, <1>2, <1>5, AppendProperties DEF Option, DeliveryInv, Shape
<1>7. Items'  BY <1>1 DEF Items
<1>8. ASSUME NEW i \in Members \cap DOMAIN delivered
      PROVE  delivered'[i] \o InItem(i)' \o pending_binds'[i] = Slice(i)'
  <2>1. delivered[i] \o InItem(i) \o pending_binds[i] = Slice(i)  BY DeliveryParts DEF DeliveryInv
  <2>2. InItem(i) = <<>> /\ InItem(i)' = <<>>  BY <1>1 DEF InItem, BindOf
  <2>3. delivered[i] \in Seq(Field) /\ delivered[i] \o <<>> = delivered[i]
      BY ConcatEmptySeq DEF DeliveryInv, Shape
  <2>4. Slice(i)' = IF Active(i) THEN Slice(i) \o <<r>> ELSE Slice(i)
      BY <1>1, <1>2, <1>3, <1>6, SliceGrows DEF DeliveryInv
  <2>5. CASE Active(i)  BY <1>5, <2>5, <2>1, <2>2, <2>3, <1>1, <2>4
  <2>6. CASE ~Active(i)  BY <1>5, <2>6, <1>1, <2>1, <2>2, <2>4
  <2> QED BY <2>5, <2>6
<1>9. ChallengesDelivered'  BY <1>1, <1>5, <1>8 DEF ChallengesDelivered, InItem, BindOf
<1> QED BY <1>6, <1>7, <1>9 DEF DeliveryInv

\* After the last round a member is given the challenge still pending for it.
LEMMA LastDelivery ==
    ASSUME DeliveryInv, NEW m \in ToFinish, FinishMember(m)
    PROVE  DeliveryInv'
<1>1. /\ phase = "finish" /\ phase' = phase /\ work = {} /\ work' = {} /\ ran' = ran
      /\ delivered' = [delivered EXCEPT ![m] = @ \o pending_binds[m]]
      /\ pending_binds' = [pending_binds EXCEPT ![m] = <<>>]
      /\ UNCHANGED <<batch, challenges, oracle>>
    BY DEF FinishMember, Delivered, vvars, DeliveryInv, Items
<1>2. /\ Members' = Members
      /\ \A i \in Members : Slice(i)' = Slice(i)
    BY <1>1 DEF Members, Slice, Described, round
<1>3. /\ m \in Members
      /\ pending_binds \in [Members -> Option]
      /\ \A i \in Members : pending_binds[i] \in Seq(Field)
    BY OptionsAreSequences DEF ToFinish, DeliveryInv, Shape
<1>4. \A i \in DOMAIN delivered : delivered[i] \in Seq(Field)  BY DEF DeliveryInv, Shape
<1>5. Shape'  BY <1>3, <1>4, ConcatProperties, <1>1, <1>2 DEF DeliveryInv, Shape, Option
<1>6. Items'  BY <1>1 DEF Items
<1>7. ASSUME NEW i \in Members \cap DOMAIN delivered
      PROVE  delivered'[i] \o InItem(i)' \o pending_binds'[i] = Slice(i)'
  <2>1. delivered[i] \o InItem(i) \o pending_binds[i] = Slice(i)  BY DeliveryParts DEF DeliveryInv
  <2>2. InItem(i) = <<>> /\ InItem(i)' = <<>>  BY <1>1 DEF InItem, BindOf
  <2>3. delivered[i] \in Seq(Field) /\ delivered[i] \o <<>> = delivered[i]  BY <1>4, ConcatEmptySeq
  <2>4. CASE i = m  BY <1>1, <1>3, <2>4, <2>3, ConcatProperties, ConcatEmptySeq, <1>2, <2>1, <2>2
  <2>5. CASE i # m  BY <1>1, <1>3, <2>5, <1>2, <2>1, <2>2
  <2> QED BY <2>4, <2>5
<1>8. ChallengesDelivered'  BY <1>1, <1>2, <1>7 DEF ChallengesDelivered, InItem, BindOf
<1> QED BY <1>5, <1>6, <1>8 DEF DeliveryInv

\* Before the first round no challenge is drawn, given or pending.
LEMMA DeliveryInit == Init => DeliveryInv
<1> SUFFICES ASSUME Init PROVE DeliveryInv
    OBVIOUS
<1>1. Shape  BY DEF Init, Shape, Option
<1>2. Items  BY DEF Init, Items
<1>3. ASSUME NEW i \in Members \cap DOMAIN delivered
      PROVE  delivered[i] \o InItem(i) \o pending_binds[i] = Slice(i)
  <2> DEFINE o == Described(i).offset
             n == Described(i).rounds
  <2>1. delivered[i] = <<>> /\ InItem(i) = <<>> /\ pending_binds[i] = <<>>
      BY DEF Init, InItem, BindOf
  <2>2. o \in Nat /\ n \in Nat /\ challenges = <<>> /\ round = 0
      BY <1>1, Descriptions DEF Init, round
  <2>3. Slice(i) = SubSeq(challenges, o + 1, IF round <= o + n THEN round ELSE o + n)
      BY <1>1, SliceAt
  <2> HIDE DEF o, n
  <2>4. SubSeq(challenges, o + 1, 0) = <<>>  BY <2>2, SubSeqEmpty
  <2>5. <<>> \o <<>> \o <<>> = <<>>  OBVIOUS
  <2> QED BY <2>1, <2>2, <2>3, <2>4, <2>5
<1> QED BY <1>1, <1>2, <1>3, DeliveryParts DEF DeliveryInv

LEMMA DeliveryStep == DeliveryInv /\ [Next]_vars => DeliveryInv'
<1> SUFFICES ASSUME DeliveryInv, [Next]_vars PROVE DeliveryInv'
    OBVIOUS
<1>1. CASE Forge \/ Check \/ FailRound \/ LastRound \/ Finish \/ Verify  BY <1>1, QuietSteps
<1>2. CASE StartRound  BY <1>2, StartDelivery
<1>3. ASSUME NEW item \in work, Run(item) PROVE DeliveryInv'  BY <1>3, RunDelivery
<1>4. CASE FinishRound  BY <1>4, FinishDelivery
<1>5. ASSUME NEW m \in ToFinish, FinishMember(m) PROVE DeliveryInv'  BY <1>5, LastDelivery
<1>6. CASE UNCHANGED vars  BY <1>6, QuietDelivery DEF vars, pvars, vvars, DeliveryInv, Shape, Items
<1> QED BY <1>1, <1>2, <1>3, <1>4, <1>5, <1>6 DEF Next

\* In whatever order the scheduler runs the members of a round, and whichever
\* round fails, each member is given exactly the challenges of its window, in
\* order, none twice and none lost (prove_batch's pending_binds).
THEOREM DeliveredInOrder == Spec => []ChallengesDelivered
<1>1. DeliveryInv => ChallengesDelivered  BY DEF DeliveryInv
<1> QED BY <1>1, DeliveryInit, DeliveryStep, PTL DEF Spec

-----------------------------------------------------------------------------
(* The inductive invariant of the lockstep *)

\* The transcript has what the recorder kept, one message a round, and the
\* oracle remembers the challenge of each.
Recording ==
    /\ round_polynomials = transcript
    /\ transcript \in Seq(Elements(transcript)) /\ Len(transcript) = round
    /\ \A k \in 1 .. round : /\ SubSeq(transcript, 1, k) \in DOMAIN oracle
                             /\ oracle[SubSeq(transcript, 1, k)] = challenges[k]

\* A recorded round is one the verifier takes.
Acceptable ==
    batch \notin Sealed => \A w \in Elements(transcript) :
        CompressedDegree(w) \in 1 .. batch.max_degree

Paced ==
    /\ phase \in {"round", "schedule", "finish"} =>
         round <= batch.max_num_vars /\ (batch.max_num_vars > 0 => batch.max_degree >= 1)
    /\ phase = "check" => round = 0
    /\ phase = "schedule" => round < batch.max_num_vars
    /\ phase = "finish" => round = batch.max_num_vars
    /\ phase \notin {"proved", "forged"} => verdict = "waiting"

\* The verifier of a proved batch has followed the prover to its round.
Following ==
    phase = "proved" =>
        /\ batch \notin Sealed /\ proof = transcript /\ claim.degree = batch.max_degree
        /\ verdict \in {"running", "reduced"}
        /\ vchallenges \in Seq(Field) /\ vround <= round
        /\ vchallenges = SubSeq(challenges, 1, vround)
        /\ vtranscript = SubSeq(transcript, 1, vround)
        /\ verdict = "reduced" => vround = round

LockstepInv == DeliveryInv /\ Recording /\ Acceptable /\ Paced /\ Following

-----------------------------------------------------------------------------
(* Sequences and their prefixes *)

LEMMA PrefixesOfAppend ==
    \A s, x : s \in Seq(Elements(s)) =>
        /\ Len(Append(s, x)) = Len(s) + 1 /\ Len(s) \in Nat
        /\ \A k \in 1 .. Len(s) : SubSeq(Append(s, x), 1, k) = SubSeq(s, 1, k)
        /\ SubSeq(Append(s, x), 1, Len(s) + 1) = Append(s, x)
<1> SUFFICES ASSUME NEW s, s \in Seq(Elements(s)), NEW x
             PROVE  /\ Len(Append(s, x)) = Len(s) + 1 /\ Len(s) \in Nat
                    /\ \A k \in 1 .. Len(s) : SubSeq(Append(s, x), 1, k) = SubSeq(s, 1, k)
                    /\ SubSeq(Append(s, x), 1, Len(s) + 1) = Append(s, x)
    OBVIOUS
<1> DEFINE S == Elements(s) \cup {x}
<1>1. s \in Seq(S) /\ x \in S
  <2>1. s \in Seq(Elements(s)) /\ Elements(s) \subseteq S  OBVIOUS
  <2> HIDE DEF S
  <2> QED BY <2>1 DEF S
<1> HIDE DEF S
<1>2. Append(s, x) \in Seq(S) /\ Len(Append(s, x)) = Len(s) + 1 /\ Len(s) \in Nat
    BY <1>1, AppendProperties
<1>3. \A k \in 1 .. Len(s) : SubSeq(Append(s, x), 1, k) = SubSeq(s, 1, k)  BY <1>1, <1>2, PrefixKept
<1>4. SubSeq(Append(s, x), 1, Len(s) + 1) = Append(s, x)  BY <1>2, SubSeqFull
<1> QED BY <1>2, <1>3, <1>4

LEMMA NextPrefix ==
    ASSUME NEW S, NEW s \in Seq(S), NEW k \in Nat, k < Len(s)
    PROVE  SubSeq(s, 1, k + 1) = Append(SubSeq(s, 1, k), s[k + 1])
<1>1. 1 \in 1 .. Len(s) /\ k + 1 \in 1 .. Len(s) /\ k + 1 - 1 = k  OBVIOUS
<1>2. SubSeq(s, 1, k + 1) = SubSeq(s, 1, k) \o <<s[k + 1]>>  BY <1>1, SubSeqRecursiveSecond
<1>3. s[k + 1] \in S /\ \A i \in 1 .. k : s[i] \in S  BY <1>1, ElementOfSeq
<1>4. SubSeq(s, 1, k) \in Seq(S)  BY <1>3, SubSeqProperties
<1> QED BY <1>2, <1>3, <1>4, AppendIsConcat

-----------------------------------------------------------------------------
(* A round as it is recorded *)

\* The trimmed polynomial keeps the linear coefficient, so that its compressed
\* form has one coefficient at least and max_degree at most.
LEMMA RecordedRound ==
    ASSUME DeliveryInv, batch \notin Sealed, batch.max_degree >= 1
    PROVE  LET w == Recorded(TrimRoundPolynomial(Folded))
           IN  CompressedDegree(w) \in 1 .. batch.max_degree
<1> DEFINE d == batch.max_degree
           F == Folded
           kept == {k \in 1 .. Len(F) : k <= 2 \/ F[k] # 0}
           L == CHOOSE k \in kept : \A l \in kept : l <= k
           c == SubSeq(F, 1, L)
           w == Compress(c)
<1>1. d \in Nat  BY BatchAssumption DEF DeliveryInv, Shape
<1>2. \E S : F \in Seq(S) /\ Len(F) = d + 1
  <2>1. \E g : F = [k \in 1 .. d + 1 |-> g[k]]
    <3> DEFINE cs == <<<<constant>>>> \o
                 [k \in 1 .. Len(ran) |-> Scale(Described(ran[k].index).coefficient, ran[k].message)]
               g == [k \in 1 .. d + 1 |->
                       Total([i \in 1 .. Len(cs) |-> IF k <= Len(cs[i]) THEN cs[i][k] ELSE 0])]
    <3>1. F = g  BY DEF Folded, PolySum
    <3> HIDE DEF g
    <3>2. F = [k \in 1 .. d + 1 |-> g[k]]  BY <3>1 DEF g
    <3> QED BY <3>2
  <2>2. PICK g : F = [k \in 1 .. d + 1 |-> g[k]]  BY <2>1
  <2> DEFINE S == {g[k] : k \in 1 .. d + 1}
  <2>3. F \in [1 .. d + 1 -> S] /\ d + 1 \in Nat  BY <1>1, <2>2
  <2>4. F \in Seq(S) /\ Len(F) = d + 1
    <3> HIDE DEF S, F
    <3> QED BY <2>3
  <2> QED BY <2>4
<1> HIDE DEF F
<1>3. PICK S : F \in Seq(S) /\ Len(F) = d + 1  BY <1>2
<1>4. kept \subseteq 1 .. d + 1 /\ 2 \in kept  BY <1>1, <1>3
<1>5. \E m \in kept : \A k \in kept : k <= m
  <2> HIDE DEF kept
  <2>1. kept # {} /\ d + 1 \in Nat  BY <1>1, <1>4
  <2> QED BY <1>4, <2>1, Greatest
<1>6. L \in kept /\ \A k \in kept : k <= L
  <2> HIDE DEF kept
  <2> QED BY <1>5, Zenon
<1>7. L \in 2 .. d + 1
  <2> HIDE DEF kept, L
  <2> QED BY <1>1, <1>4, <1>6
<1>8. c \in Seq(S) /\ Len(c) = L
  <2> HIDE DEF L
  <2>1. \A i \in 1 .. L : F[i] \in S  BY <1>1, <1>3, <1>7, ElementOfSeq
  <2> QED BY <1>1, <1>7, <2>1, SubSeqProperties
<1>9. w = <<c[1]>> \o SubSeq(c, 3, L)  BY <1>8 DEF Compress
<1>10. Len(w) = L - 1
  <2> HIDE DEF c, L, w
  <2>1. \A i \in 3 .. L : c[i] \in S  BY <1>1, <1>7, <1>8, ElementOfSeq
  <2>2. SubSeq(c, 3, L) \in Seq(S) /\ Len(SubSeq(c, 3, L)) = L - 2
      BY <1>1, <1>7, <2>1, SubSeqProperties
  <2>3. c[1] \in S  BY <1>1, <1>7, <1>8, ElementOfSeq
  <2>4. <<c[1]>> \in Seq(S) /\ Len(<<c[1]>>) = 1  BY <2>3
  <2> QED BY <1>1, <1>7, <1>9, <2>2, <2>4, ConcatProperties
<1>11. Recorded(TrimRoundPolynomial(Folded)) = w  BY DEF Recorded, TrimRoundPolynomial, F
<1>12. Len(w) \in 1 .. d
  <2> HIDE DEF c, L, w
  <2> QED BY <1>1, <1>7, <1>10
<1> QED BY <1>11, <1>12 DEF CompressedDegree

-----------------------------------------------------------------------------
(* The invariant is kept *)

\* What the oracle remembers it does not forget.
LEMMA OracleGrows ==
    ASSUME Shape, VNext \/ oracle' = oracle
    PROVE  DOMAIN oracle \subseteq DOMAIN oracle' /\ \A u \in DOMAIN oracle : oracle'[u] = oracle[u]
<1>1. CASE oracle' = oracle  BY <1>1
<1>2. CASE VNext
  <2>1. CASE RejectRound \/ Reduce  BY <2>1 DEF RejectRound, Reduce
  <2>2. CASE AcceptRound
    <3>1. PICK r \in Squeeze(vtranscript') : oracle' = Remember(vtranscript', r)
        BY <2>2 DEF AcceptRound
    <3> QED BY <3>1, OracleKept DEF Shape
  <2> QED BY <1>2, <2>1, <2>2 DEF VNext
<1> QED BY <1>1, <1>2

LEMMA QuietRecording ==
    ASSUME LockstepInv, UNCHANGED <<batch, challenges, transcript, round_polynomials>>,
           VNext \/ oracle' = oracle
    PROVE  Recording' /\ Acceptable'
<1>1. DOMAIN oracle \subseteq DOMAIN oracle' /\ \A u \in DOMAIN oracle : oracle'[u] = oracle[u]
    BY OracleGrows DEF LockstepInv, DeliveryInv
<1>2. Recording'  BY <1>1 DEF LockstepInv, Recording, round
<1>3. Acceptable'  BY DEF LockstepInv, Acceptable
<1> QED BY <1>2, <1>3

LEMMA BatchTyped ==
    ASSUME DeliveryInv
    PROVE  batch.max_num_vars \in Nat /\ batch.max_degree \in Nat /\ round \in Nat
BY BatchAssumption DEF DeliveryInv, Shape, round

\* The prover's steps that record nothing.
LEMMA QuietLockstep ==
    ASSUME LockstepInv,
           \/ Check \/ StartRound \/ FailRound \/ LastRound
           \/ \E item \in work : Run(item)
           \/ \E m \in ToFinish : FinishMember(m)
    PROVE  Recording' /\ Acceptable' /\ Paced' /\ Following'
<1>1. /\ UNCHANGED <<batch, challenges, transcript, round_polynomials, vvars>>
      /\ phase \in {"check", "round", "schedule", "finish"}
    BY DEF Check, StartRound, FailRound, LastRound, Run, FinishMember
<1>2. Recording' /\ Acceptable'  BY <1>1, QuietRecording DEF vvars
<1>4. (\E i \in Members : MemberError(i) # "none") =>
        MemberError(CHOOSE i \in Members :
            MemberError(i) # "none" /\ \A j \in Members : j < i => MemberError(j) = "none") # "none"
  <2> DEFINE bad == {i \in Members : MemberError(i) # "none"}
  <2> SUFFICES ASSUME bad # {}
               PROVE  \E i \in Members : MemberError(i) # "none"
                                         /\ \A j \in Members : j < i => MemberError(j) = "none"
      BY Zenon
  <2>1. bad \subseteq Nat  BY BatchAssumption, LenProperties DEF LockstepInv, DeliveryInv, Shape, Members
  <2>2. PICK i \in bad : \A j \in bad : ~(j < i)  BY <2>1, Least
  <2> QED BY <2>2
<1>3. phase' # "proved" /\ phase' # "forged" /\ Paced'
  <2>1. round' = round /\ batch' = batch /\ verdict' = verdict  BY <1>1 DEF round, vvars
  <2>2. CASE Check
      BY <2>2, MemberErrors, <1>4, <2>1, BatchTyped DEF Check, CheckError, LockstepInv, Paced
  <2>3. CASE FailRound  BY <2>3, <1>1, <2>1 DEF FailRound, RoundErrors, ItemErrors, LockstepInv, Paced
  <2>4. CASE StartRound \/ LastRound  BY <2>1, <2>4 DEF StartRound, LastRound, LockstepInv, Paced
  <2>5. CASE \/ \E item \in work : Run(item)
             \/ \E m \in ToFinish : FinishMember(m)
      BY <2>1, <2>5 DEF Run, FinishMember, LockstepInv, Paced
  <2> QED BY <2>2, <2>3, <2>4, <2>5
<1> QED BY <1>2, <1>3 DEF Following

\* A finished round is recorded once, with the challenge it drew.
LEMMA FinishLockstep ==
    ASSUME LockstepInv, FinishRound
    PROVE  Recording' /\ Acceptable' /\ Paced' /\ Following'
<1> DEFINE w == Recorded(TrimRoundPolynomial(Folded))
<1>1. /\ transcript' = Append(transcript, w) /\ round_polynomials' = Append(round_polynomials, w)
      /\ phase = "schedule" /\ phase' = "round" /\ batch' = batch /\ verdict' = verdict
    BY DEF FinishRound
<1>2. PICK r \in Squeeze(transcript') :
          oracle' = Remember(transcript', r) /\ challenges' = Append(challenges, r)
    BY DEF FinishRound
<1>3. /\ r \in Field
      /\ DOMAIN oracle' = DOMAIN oracle \cup {transcript'} /\ oracle'[transcript'] = r
      /\ \A u \in DOMAIN oracle : oracle'[u] = oracle[u]
    BY <1>2, OracleKept DEF LockstepInv, DeliveryInv, Shape
<1>4. /\ challenges \in Seq(Field) /\ round' = round + 1 /\ round \in Nat
      /\ challenges'[round + 1] = r /\ \A k \in 1 .. round : challenges'[k] = challenges[k]
    BY <1>2, <1>3, AppendProperties DEF LockstepInv, DeliveryInv, Shape, round
<1>5. round < batch.max_num_vars /\ batch.max_num_vars \in Nat /\ batch.max_degree \in Nat
      /\ (batch.max_num_vars > 0 => batch.max_degree >= 1) /\ verdict = "waiting"
    BY <1>1, BatchTyped DEF LockstepInv, Paced
<1> HIDE DEF w
<1>6. Recording'
  <2>1. transcript \in Seq(Elements(transcript)) /\ Len(transcript) = round
        /\ round_polynomials = transcript
      BY DEF LockstepInv, Recording
  <2>2. transcript' \in Seq(Elements(transcript'))  BY <1>1, <2>1, AppendedRange
  <2>3. /\ Len(transcript') = round + 1
        /\ \A k \in 1 .. round : SubSeq(transcript', 1, k) = SubSeq(transcript, 1, k)
        /\ SubSeq(transcript', 1, round + 1) = transcript'
      BY <1>1, <2>1, PrefixesOfAppend
  <2>4. \A k \in 1 .. round : /\ SubSeq(transcript, 1, k) \in DOMAIN oracle
                              /\ oracle[SubSeq(transcript, 1, k)] = challenges[k]
      BY DEF LockstepInv, Recording
  <2>5. ASSUME NEW k \in 1 .. round + 1
        PROVE  /\ SubSeq(transcript', 1, k) \in DOMAIN oracle'
               /\ oracle'[SubSeq(transcript', 1, k)] = challenges'[k]
    <3>1. CASE k = round + 1  BY <1>3, <1>4, <2>3, <3>1
    <3>2. CASE k \in 1 .. round  BY <1>3, <1>4, <2>3, <2>4, <3>2
    <3> QED BY <1>4, <3>1, <3>2
  <2> QED BY <1>1, <1>4, <2>1, <2>2, <2>3, <2>5 DEF Recording
<1>7. Acceptable'
  <2>1. SUFFICES ASSUME batch \notin Sealed
                 PROVE  \A v \in Elements(transcript') :
                            CompressedDegree(v) \in 1 .. batch.max_degree
      BY <1>1 DEF Acceptable
  <2>2. batch.max_degree >= 1  BY <1>4, <1>5
  <2>3. CompressedDegree(w) \in 1 .. batch.max_degree
      BY <2>1, <2>2, RecordedRound DEF LockstepInv, w
  <2>4. Elements(transcript') = Elements(transcript) \cup {w}
      BY <1>1, AppendedRange DEF LockstepInv, Recording
  <2> QED BY <2>1, <2>3, <2>4 DEF LockstepInv, Acceptable
<1>8. Paced'  BY <1>1, <1>4, <1>5 DEF Paced
<1>9. Following'  BY <1>1 DEF Following
<1> QED BY <1>6, <1>7, <1>8, <1>9

\* A proof arrives: the prover's, or one of another making.
LEMMA ProofArrives ==
    ASSUME LockstepInv, Finish \/ Forge
    PROVE  Recording' /\ Acceptable' /\ Paced' /\ Following'
<1>1. /\ UNCHANGED <<batch, challenges, transcript, round_polynomials, oracle>>
      /\ phase' \in {"proved", "forged"}
    BY DEF Finish, Forge
<1>2. Recording' /\ Acceptable'  BY <1>1, QuietRecording
<1>3. Paced'  BY <1>1 DEF Paced
<1>4. Following'
  <2>1. CASE Forge  BY <2>1 DEF Forge, Following
  <2>2. CASE Finish
    <3> DEFINE c == [num_vars |-> batch.max_num_vars, degree |-> batch.max_degree,
                     claimed_sum |-> ClaimedSum(batch)]
    <3>1. Begin(c, round_polynomials, <<>>) /\ phase = "finish" /\ batch \notin Sealed
        BY <2>2 DEF Finish
    <3>2. c.degree = batch.max_degree /\ c.num_vars = batch.max_num_vars  OBVIOUS
    <3> HIDE DEF c
    <3>3. /\ proof' = transcript /\ claim'.degree = batch.max_degree
          /\ vchallenges' = <<>> /\ vtranscript' = <<>>
          /\ verdict' = IF Len(transcript) = batch.max_num_vars THEN "running" ELSE "WrongNumberOfRounds"
        BY <3>1, <3>2 DEF Begin, LockstepInv, Recording
    <3>4. Len(transcript) = batch.max_num_vars  BY <3>1 DEF LockstepInv, Recording, Paced
    <3>5. vround' = 0 /\ round' = round /\ round \in Nat
        BY <1>1, <3>3, BatchTyped DEF vround, round, LockstepInv
    <3>6. SubSeq(challenges, 1, 0) = <<>> /\ SubSeq(transcript, 1, 0) = <<>>  BY SubSeqEmpty
    <3> QED BY <1>1, <3>1, <3>3, <3>4, <3>5, <3>6 DEF Following
  <2> QED BY <2>1, <2>2
<1> QED BY <1>2, <1>3, <1>4

\* The verifier takes the round, and draws the challenge the prover drew.
LEMMA VerifierFollows ==
    ASSUME LockstepInv, Verify
    PROVE  Recording' /\ Acceptable' /\ Paced' /\ Following'
<1>1. /\ VNext /\ UNCHANGED <<batch, challenges, transcript, round_polynomials, phase>>
      /\ round' = round
    BY DEF Verify, pvars, round
<1>2. Recording' /\ Acceptable'  BY <1>1, QuietRecording
<1>3. verdict = "running" /\ phase \in {"proved", "forged"}
    BY <1>1 DEF VNext, RejectRound, AcceptRound, Reduce, LockstepInv, Paced
<1>4. Paced'  BY <1>1, <1>3 DEF Paced
<1>5. Following'
  <2> SUFFICES ASSUME phase = "proved"
               PROVE  /\ batch \notin Sealed /\ proof' = transcript /\ claim'.degree = batch.max_degree
                      /\ verdict' \in {"running", "reduced"}
                      /\ vchallenges' \in Seq(Field) /\ vround' <= round
                      /\ vchallenges' = SubSeq(challenges, 1, vround')
                      /\ vtranscript' = SubSeq(transcript, 1, vround')
                      /\ verdict' = "reduced" => vround' = round
      BY <1>1 DEF Following
  <2>1. /\ batch \notin Sealed /\ proof = transcript /\ claim.degree = batch.max_degree
        /\ vchallenges \in Seq(Field) /\ vround <= round
        /\ vchallenges = SubSeq(challenges, 1, vround)
        /\ vtranscript = SubSeq(transcript, 1, vround)
      BY DEF LockstepInv, Following
  <2>2. /\ transcript \in Seq(Elements(transcript)) /\ Len(transcript) = round
        /\ round \in Nat /\ vround \in Nat /\ challenges \in Seq(Field) /\ Len(challenges) = round
      BY <2>1, BatchTyped DEF LockstepInv, Recording, DeliveryInv, Shape, vround, round
  <2>3. CASE Reduce  BY <2>3, <2>1, <2>2 DEF Reduce, vround
  <2>4. ASSUME vround < Len(proof)
        PROVE  RoundError(proof[vround + 1]) = "none"
    <3>1. vround + 1 \in 1 .. Len(transcript) /\ DOMAIN transcript = 1 .. Len(transcript)
        BY <2>1, <2>2, <2>4, LenProperties
    <3>2. proof[vround + 1] \in Elements(transcript)  BY <2>1, <3>1 DEF Elements
    <3>3. CompressedDegree(proof[vround + 1]) \in 1 .. claim.degree
        BY <2>1, <3>2 DEF LockstepInv, Acceptable
    <3>4. claim.degree \in Nat  BY <2>1, BatchTyped DEF LockstepInv
    <3>5. ~(CompressedDegree(proof[vround + 1]) > claim.degree)  BY <3>3, <3>4
    <3>6. proof[vround + 1] # <<>>  BY <3>3, <3>4 DEF CompressedDegree
    <3> QED BY <3>5, <3>6 DEF RoundError
  <2>5. CASE RejectRound  BY <2>4, <2>5 DEF RejectRound
  <2>6. CASE AcceptRound
    <3> DEFINE k == vround + 1
    <3>1. /\ vround < round /\ vtranscript' = Append(vtranscript, transcript[k])
          /\ UNCHANGED <<claim, proof, verdict>>
        BY <2>1, <2>2, <2>6 DEF AcceptRound, Absorb
    <3>2. PICK r \in Squeeze(vtranscript') : vchallenges' = Append(vchallenges, r)
        BY <2>6 DEF AcceptRound
    <3>3. SubSeq(transcript, 1, k) = vtranscript' /\ k \in 1 .. round
        BY <2>1, <2>2, <3>1, NextPrefix
    <3>4. r = challenges[k]  BY <3>2, <3>3 DEF LockstepInv, Recording, Squeeze
    <3>5. SubSeq(challenges, 1, k) = vchallenges'  BY <2>1, <2>2, <3>1, <3>2, <3>4, NextPrefix
    <3>6. r \in Field /\ vchallenges' \in Seq(Field) /\ vround' = k
        BY <2>2, <3>3, <3>4, ElementOfSeq, <2>1, <3>2, AppendProperties DEF vround
    <3> QED BY <1>3, <2>1, <2>2, <3>1, <3>3, <3>5, <3>6
  <2> QED BY <1>1, <2>3, <2>5, <2>6 DEF VNext
<1> QED BY <1>2, <1>4, <1>5

LEMMA LockstepInit == Init => LockstepInv
<1> SUFFICES ASSUME Init PROVE LockstepInv
    OBVIOUS
<1>1. round = 0 /\ transcript = <<>> /\ round_polynomials = <<>> /\ Elements(transcript) = {}
    BY DEF Init, round, Elements
<1>2. <<>> \in Seq({}) /\ Len(<<>>) = 0  OBVIOUS
<1>3. Recording /\ Acceptable  BY <1>1, <1>2 DEF Recording, Acceptable
<1>4. Paced /\ Following  BY <1>1 DEF Init, Paced, Following
<1> QED BY <1>3, <1>4, DeliveryInit DEF LockstepInv

LEMMA LockstepStep == LockstepInv /\ [Next]_vars => LockstepInv'
<1> SUFFICES ASSUME LockstepInv, [Next]_vars PROVE LockstepInv'
    OBVIOUS
<1>1. DeliveryInv'  BY DeliveryStep DEF LockstepInv
<1>2. CASE Check \/ StartRound \/ FailRound \/ LastRound \/ (\E item \in work : Run(item))
           \/ (\E m \in ToFinish : FinishMember(m))
    BY <1>1, <1>2, QuietLockstep DEF LockstepInv
<1>3. CASE FinishRound  BY <1>1, <1>3, FinishLockstep DEF LockstepInv
<1>4. CASE Finish \/ Forge  BY <1>1, <1>4, ProofArrives DEF LockstepInv
<1>5. CASE Verify  BY <1>1, <1>5, VerifierFollows DEF LockstepInv
<1>6. CASE UNCHANGED vars
  <2>1. UNCHANGED <<batch, challenges, transcript, round_polynomials, oracle, phase, verdict, proof,
                    claim, vchallenges, vtranscript>>
      BY <1>6 DEF vars, pvars, vvars
  <2>2. Recording' /\ Acceptable'  BY <2>1, QuietRecording
  <2>3. Paced' /\ Following'  BY <2>1 DEF LockstepInv, Paced, Following, round, vround
  <2> QED BY <1>1, <2>2, <2>3 DEF LockstepInv
<1> QED BY <1>2, <1>3, <1>4, <1>5, <1>6 DEF Next

LEMMA LockstepHolds == LockstepInv => InLockstep
<1> SUFFICES ASSUME LockstepInv, phase = "proved"
             PROVE  /\ verdict \in {"running", "reduced"}
                    /\ vchallenges = SubSeq(challenges, 1, vround)
                    /\ verdict = "reduced" => vchallenges = challenges
    BY DEF InLockstep
<1>1. /\ verdict \in {"running", "reduced"} /\ vchallenges = SubSeq(challenges, 1, vround)
      /\ verdict = "reduced" => vround = round
    BY DEF LockstepInv, Following
<1>2. SubSeq(challenges, 1, round) = challenges
    BY SubSeqFull DEF LockstepInv, DeliveryInv, Shape, round
<1> QED BY <1>1, <1>2

\* The verifier of an honest proof refuses none of its rounds and draws the
\* challenges the prover drew, for every batch and oracle (absorb_round and
\* verify_compressed).
THEOREM ProverAndVerifierInLockstep == Spec => []InLockstep
BY LockstepHolds, LockstepInit, LockstepStep, PTL DEF Spec

-----------------------------------------------------------------------------
(* The inductive invariant of the claims *)

IsTables(fs) == Tables(fs, Len(fs), Len(fs[1]))

\* What the checks before the first round leave of a batch.
Checked ==
    phase \in {"round", "schedule", "finish", "proved"} =>
        /\ Len(batch.kernels) = Len(batch.described)
        /\ \A i \in Members : MemberError(i) = "none"
        /\ batch.max_num_vars > 0 => batch.max_degree >= 1

\* Between rounds.
Settled == phase \in {"check", "round", "finish", "proved", "sealed"}

Claimed ==
    /\ member_claims \in [Members -> Field] /\ running_claim \in Field
    /\ Settled => running_claim = Combination

\* In a round: the inactive members' share, and one message per active member
\* that ran.
Inactive == [i \in 1 .. Len(batch.described) |->
               IF Active(i) THEN 0 ELSE Described(i).coefficient * member_claims[i]]
Messages ==
    phase = "schedule" =>
        /\ constant = Total(Inactive)
        /\ \A k \in DOMAIN ran : ran[k].message \in Seq(Field)
        /\ \A k, l \in DOMAIN ran : ran[k].index = ran[l].index => k = l
        /\ \A k \in DOMAIN ran : ran[k].index \notin IndexesLeft

Bound == /\ DOMAIN tables = 1 .. Len(batch.kernels)
         /\ \A i \in 1 .. Len(batch.kernels) : IsTables(tables[i])

ClaimsInv == DeliveryInv /\ Checked /\ Bound /\ Claimed /\ Messages

-----------------------------------------------------------------------------
(* Batches *)

LEMMA TablesAre ==
    ASSUME NEW fs, NEW n, NEW L, Tables(fs, n, L)
    PROVE  IsTables(fs)
<1>1. Len(fs) = n /\ 1 \in 1 .. n /\ \A k \in 1 .. n : Len(fs[k]) = L  BY TableLengths
<1> QED BY <1>1 DEF IsTables

LEMMA BatchFields ==
    ASSUME Shape
    PROVE  /\ Len(batch.described) \in Nat /\ Members = 1 .. Len(batch.described)
           /\ Len(batch.kernels) \in Nat
           /\ batch.max_num_vars \in Nat /\ batch.max_degree \in Nat /\ round \in Nat
           /\ \A i \in Members : /\ Described(i).input_claim \in Field /\ Described(i).coefficient \in Field
                                 /\ Described(i).coefficient \in Int
                                 /\ Described(i).rounds \in Nat /\ Described(i).offset \in Nat
<1> DEFINE S == [input_claim : Field, coefficient : Field, rounds : Nat, offset : Nat]
<1>1. batch.described \in Seq(S) /\ batch.max_num_vars \in Nat /\ batch.max_degree \in Nat
    BY BatchAssumption DEF Shape
<1>2. Len(batch.described) \in Nat /\ Members = 1 .. Len(batch.described)
  <2> HIDE DEF S
  <2> QED BY <1>1, LenProperties DEF Members
<1>3. Len(batch.kernels) \in Nat  BY KernelAssumption DEF Shape
<1>4. round \in Nat  BY DEF Shape, round
<1>5. \A i \in Members : batch.described[i] \in S
  <2> HIDE DEF S
  <2> QED BY <1>1, <1>2, ElementOfSeq
<1>6. \A i \in Members : /\ Described(i).input_claim \in Field /\ Described(i).coefficient \in Field
                         /\ Described(i).rounds \in Nat /\ Described(i).offset \in Nat
    BY <1>5 DEF Described
<1>7. \A r \in Field : r \in Int  BY Fields
<1> QED BY <1>1, <1>2, <1>3, <1>4, <1>6, <1>7

LEMMA KernelTables ==
    ASSUME Shape, NEW i \in 1 .. Len(batch.kernels)
    PROVE  /\ IsTables(batch.kernels[i])
           /\ Vars(batch.kernels[i]) \in Nat
           /\ Len(batch.kernels[i][1]) = TwoTo(Vars(batch.kernels[i]))
<1> DEFINE fs == batch.kernels[i]
           n == Len(fs)
<1>1. batch.kernels \in Seq(Seq(Seq(Field))) /\ DOMAIN batch.kernels = 1 .. Len(batch.kernels)
    BY KernelAssumption, LenProperties DEF Shape
<1>2. fs # <<>> /\ \E k \in 0 .. Len(fs[1]) : \A j \in DOMAIN fs : Len(fs[j]) = TwoTo(k)
    BY <1>1, KernelAssumption DEF Shape
<1>3. fs \in Seq(Seq(Field))  BY <1>1, ElementOfSeq
<1> HIDE DEF fs
<1>4. n \in Nat /\ n > 0 /\ DOMAIN fs = 1 .. n /\ \A j \in 1 .. n : fs[j] \in Seq(Field)
    BY <1>2, <1>3, LenProperties, EmptySeq, ElementOfSeq
<1>5. PICK k \in 0 .. Len(fs[1]) : \A j \in 1 .. n : Len(fs[j]) = TwoTo(k)  BY <1>2, <1>4
<1>6. k \in Nat /\ 1 \in 1 .. n  BY <1>4
<1>7. TwoTo(k) \in Nat  BY <1>6, TwoToNext
<1>8. \A j \in 1 .. n : fs[j] \in [1 .. TwoTo(k) -> Field]
  <2> SUFFICES ASSUME NEW j \in 1 .. n PROVE fs[j] \in [1 .. TwoTo(k) -> Field]
      OBVIOUS
  <2>1. fs[j] \in [1 .. Len(fs[j]) -> Field]  BY <1>4, LenProperties
  <2> QED BY <1>5, <2>1
<1>9. fs \in [1 .. n -> [1 .. TwoTo(k) -> Field]]  BY <1>3, <1>4, <1>8, LenProperties
<1>10. Tables(fs, n, TwoTo(k))  BY <1>4, <1>7, <1>9 DEF Tables
<1>11. Vars(fs) \in Nat /\ Len(fs[1]) = TwoTo(Vars(fs))  BY <1>5, <1>6, VarsOfTable
<1>12. IsTables(fs)  BY <1>10, TablesAre
<1> QED BY <1>11, <1>12 DEF fs

-----------------------------------------------------------------------------
(* Messages *)

LEMMA TwoToTyped == \A k \in Int : TwoTo(k) \in Nat
<1> SUFFICES ASSUME NEW k \in Int PROVE TwoTo(k) \in Nat
    OBVIOUS
<1>1. CASE k >= 0  BY <1>1, TwoToNext
<1>2. CASE k < 0
  <2>1. [j \in 1 .. k |-> 2] = [j \in 1 .. 0 |-> 2]  BY <1>2
  <2>2. TwoTo(k) = TwoTo(0)  BY <2>1, Zenon DEF TwoTo
  <2> QED BY <2>2, TwoToZero
<1> QED BY <1>1, <1>2

LEMMA ScaleTyped ==
    ASSUME NEW n \in Nat, NEW c \in [1 .. n -> Int], NEW a \in Int
    PROVE  /\ Scale(a, c) \in [1 .. n -> Field] /\ Scale(a, c) \in [1 .. n -> Int]
           /\ Scale(a, c) \in Seq(Field) /\ Len(Scale(a, c)) = n
           /\ \A k \in 1 .. n : Equal(Scale(a, c)[k], a * c[k])
           /\ \A x \in Int : Evaluate(Scale(a, c), x) = (a * Evaluate(c, x)) % P
<1>1. Len(c) = n  OBVIOUS
<1>2. Scale(a, c) = [k \in 1 .. n |-> (a * c[k]) % P]  BY <1>1 DEF Scale
<1>3. \A k \in 1 .. n : a * c[k] \in Int
  <2> SUFFICES ASSUME NEW k \in 1 .. n PROVE a * c[k] \in Int
      OBVIOUS
  <2>1. c[k] \in Int  OBVIOUS
  <2> QED BY <2>1
<1>4. \A k \in 1 .. n : (a * c[k]) % P \in Field /\ (a * c[k]) % P \in Int
    BY <1>3, Division, Fields
<1>5. Scale(a, c) \in [1 .. n -> Field] /\ Scale(a, c) \in [1 .. n -> Int]  BY <1>2, <1>4
<1>6. \A k \in 1 .. n : Equal(Scale(a, c)[k], a * c[k])  BY <1>2, <1>3, EqualReduced, Zenon
<1>7. Scale(a, c) \in Seq(Field) /\ Len(Scale(a, c)) = n  BY <1>5
<1>8. \A x \in Int : Evaluate(Scale(a, c), x) = (a * Evaluate(c, x)) % P
    BY <1>5, <1>6, EvaluateScale
<1> QED BY <1>5, <1>6, <1>7, <1>8

LEMMA MessageTyped ==
    ASSUME Shape, NEW i \in Members, IsTables(tables'[i])
    PROVE  /\ Message(i) \in Seq(Field) /\ Message(i) \in [1 .. Len(tables'[i]) + 1 -> Field]
           /\ Message(i) = Scale(MulPow2(1, batch.max_num_vars - Described(i).rounds)
                                   * Product([k \in 1 .. Described(i).offset |-> TwoInv]),
                                 RoundPoly(tables'[i]))
           /\ MulPow2(1, batch.max_num_vars - Described(i).rounds) \in Int
           /\ Product([k \in 1 .. Described(i).offset |-> TwoInv]) \in Int
<1> DEFINE fs == tables'[i]
           n == Len(fs)
           padding == MulPow2(1, batch.max_num_vars - Described(i).rounds)
           halved == Product([k \in 1 .. Described(i).offset |-> TwoInv])
           a == padding * halved
<1>1. padding \in Int
  <2>3. batch.max_num_vars - Described(i).rounds \in Int  BY BatchFields
  <2>1. TwoTo(batch.max_num_vars - Described(i).rounds) \in Int  BY <2>3, TwoToTyped
  <2>2. 1 * TwoTo(batch.max_num_vars - Described(i).rounds) \in Int  BY <2>1
  <2> QED BY <2>2, Division, Fields DEF MulPow2
<1>2. halved \in Int  BY HalfInverse, BatchFields, ProductInField
<1> HIDE DEF padding, halved
<1>3. a \in Int  BY <1>1, <1>2
<1> HIDE DEF a
<1>4. n \in Nat /\ RoundPoly(fs) \in [1 .. n + 1 -> Int]
  <2>1. Tables(fs, n, Len(fs[1]))  BY DEF IsTables
  <2>2. n \in Nat  BY <2>1 DEF Tables
  <2>3. 0 \in Int  OBVIOUS
  <2> HIDE DEF fs, n
  <2> QED BY <2>1, <2>2, <2>3, EvaluateRoundPoly
<1>5. Message(i) = Scale(a, RoundPoly(fs))  BY DEF Message, a, padding, halved
<1> HIDE DEF fs, n
<1>6. n + 1 \in Nat  BY <1>4
<1>7. Scale(a, RoundPoly(fs)) \in Seq(Field) /\ Scale(a, RoundPoly(fs)) \in [1 .. n + 1 -> Field]
    BY <1>3, <1>4, <1>6, ScaleTyped
<1> QED BY <1>1, <1>2, <1>5, <1>7 DEF fs, n, a, padding, halved

-----------------------------------------------------------------------------
(* The polynomial of a round *)

MessageFor(i) == ran[CHOOSE k \in {k \in DOMAIN ran : Attribute(i, k)} : TRUE].message

\* Member i's share of the round polynomial at x.
ShareAt(i, x) ==
    Described(i).coefficient * (IF Active(i) THEN Evaluate(MessageFor(i), x) ELSE member_claims[i])

\* What a round in which every active member ran has in hand.
RoundDone ==
    /\ phase = "schedule" /\ work = {}
    /\ \A k \in DOMAIN ran : ~(Degree(ran[k].message) > batch.max_degree)

LEMMA RanAre ==
    ASSUME ClaimsInv, phase = "schedule", work = {}
    PROVE  /\ Len(ran) \in Nat /\ DOMAIN ran = 1 .. Len(ran)
           /\ \A k \in 1 .. Len(ran) : /\ ran[k].index \in Members /\ Active(ran[k].index)
                                       /\ ran[k].message \in Seq(Field)
                                       /\ MessageFor(ran[k].index) = ran[k].message
           /\ \A k, l \in 1 .. Len(ran) : ran[k].index = ran[l].index => k = l
           /\ \A i \in Members : Active(i) <=> \E k \in 1 .. Len(ran) : ran[k].index = i
           /\ \A i \in Members : Active(i) <=> {k \in DOMAIN ran : Attribute(i, k)} # {}
<1>1. Len(ran) \in Nat /\ DOMAIN ran = 1 .. Len(ran)
    BY LenProperties DEF ClaimsInv, DeliveryInv, Shape
<1>2. IndexesRun = {i \in Members : Active(i)}  BY DEF IndexesLeft, ClaimsInv, DeliveryInv, Items
<1>3. \A k \in 1 .. Len(ran) : ran[k].index \in Members /\ Active(ran[k].index)
    BY <1>1, <1>2 DEF IndexesRun
<1>4. \A i \in Members : Active(i) <=> \E k \in 1 .. Len(ran) : ran[k].index = i
    BY <1>1, <1>2 DEF IndexesRun
<1>5. \A k, l \in 1 .. Len(ran) : ran[k].index = ran[l].index => k = l
    BY <1>1 DEF ClaimsInv, Messages
<1>6. \A k \in 1 .. Len(ran) : ran[k].message \in Seq(Field)  BY <1>1 DEF ClaimsInv, Messages
<1>7. \A k \in 1 .. Len(ran) : MessageFor(ran[k].index) = ran[k].message
  <2> SUFFICES ASSUME NEW k \in 1 .. Len(ran)
               PROVE  MessageFor(ran[k].index) = ran[k].message
      OBVIOUS
  <2>1. {l \in DOMAIN ran : Attribute(ran[k].index, l)} = {k}  BY <1>1, <1>5 DEF Attribute
  <2>2. (CHOOSE l \in {k} : TRUE) = k  OBVIOUS
  <2> QED BY <2>1, <2>2 DEF MessageFor
<1>8. \A i \in Members : Active(i) <=> {k \in DOMAIN ran : Attribute(i, k)} # {}
    BY <1>1, <1>4 DEF Attribute
<1> QED BY <1>1, <1>3, <1>4, <1>5, <1>6, <1>7, <1>8

LEMMA InactiveTyped ==
    ASSUME ClaimsInv
    PROVE  /\ Inactive \in [1 .. Len(batch.described) -> Int]
           /\ \A i \in Members : member_claims[i] \in Field /\ member_claims[i] \in Int
<1>1. /\ Members = 1 .. Len(batch.described)
      /\ \A i \in Members : Described(i).coefficient \in Int
    BY BatchFields DEF ClaimsInv, DeliveryInv
<1>2. \A i \in Members : member_claims[i] \in Field /\ member_claims[i] \in Int
    BY Fields DEF ClaimsInv, Claimed
<1>3. \A i \in Members : Described(i).coefficient * member_claims[i] \in Int
  <2> SUFFICES ASSUME NEW i \in Members PROVE Described(i).coefficient * member_claims[i] \in Int
      OBVIOUS
  <2>1. Described(i).coefficient \in Int /\ member_claims[i] \in Int  BY <1>1, <1>2
  <2> QED BY <2>1
<1>4. 0 \in Int  OBVIOUS
<1>5. \A i \in 1 .. Len(batch.described) :
          (IF Active(i) THEN 0 ELSE Described(i).coefficient * member_claims[i]) \in Int
    BY <1>1, <1>3, <1>4, Zenon
<1> QED BY <1>2, <1>5 DEF Inactive

\* The messages as they are added up.
Summands ==
    <<<<constant>>>> \o
        [k \in 1 .. Len(ran) |-> Scale(Described(ran[k].index).coefficient, ran[k].message)]

LEMMA SummandsTyped ==
    ASSUME ClaimsInv, RoundDone
    PROVE  /\ Fit(Summands, batch.max_degree + 1) /\ Len(Summands) = 1 + Len(ran)
           /\ Summands[1] = <<constant>> /\ constant \in Field /\ constant \in Int
           /\ \A k \in 1 .. Len(ran) :
                Summands[1 + k] = Scale(Described(ran[k].index).coefficient, ran[k].message)
<1> DEFINE m == Len(ran)
           d == batch.max_degree
           q == [k \in 1 .. m |-> Scale(Described(ran[k].index).coefficient, ran[k].message)]
           S == Seq(Int)
<1>1. m \in Nat /\ d \in Nat /\ \A k \in 1 .. m : ran[k].message \in Seq(Field)
      /\ ~(Degree(ran[k].message) > d) /\ Described(ran[k].index).coefficient \in Int
    BY RanAre, BatchFields DEF RoundDone, ClaimsInv, DeliveryInv
<1>2. constant \in Field /\ constant \in Int
    BY BatchFields, InactiveTyped, TotalInField DEF ClaimsInv, Messages, RoundDone, DeliveryInv
<1>3. ASSUME NEW k \in 1 .. m
      PROVE  q[k] \in S /\ Len(q[k]) <= d + 1
  <2> DEFINE c == ran[k].message
             a == Described(ran[k].index).coefficient
  <2>1. c \in Seq(Field) /\ a \in Int /\ ~(Degree(c) > d) /\ q[k] = Scale(a, c)  BY <1>1
  <2> HIDE DEF c, a, q
  <2>2. Len(c) \in Nat /\ c \in [1 .. Len(c) -> Int]  BY <2>1, LenProperties, Fields
  <2>3. Len(q[k]) = Len(c) /\ q[k] \in [1 .. Len(c) -> Int]  BY <2>1, <2>2, ScaleTyped
  <2>4. Len(c) <= d + 1
    <3>1. CASE c = <<>>  BY <1>1, <3>1
    <3>2. CASE c # <<>>  BY <1>1, <2>1, <2>2, <3>2 DEF Degree
    <3> QED BY <3>1, <3>2
  <2> QED BY <2>2, <2>3, <2>4
<1>4. q \in Seq(S) /\ Len(q) = m
  <2>1. q \in [1 .. m -> S]
    <3>1. \A k \in 1 .. m : q[k] \in S  BY <1>3
    <3> HIDE DEF S
    <3> QED BY <3>1
  <2> HIDE DEF q, S, m
  <2> QED BY <1>1, <2>1
<1>5. <<<<constant>>>> \in Seq(S) /\ Len(<<<<constant>>>>) = 1 /\ <<<<constant>>>>[1] = <<constant>>
  <2>1. <<constant>> \in S  BY <1>2
  <2> HIDE DEF S
  <2> QED BY <2>1
<1>6. Summands = <<<<constant>>>> \o q  BY DEF Summands
<1> HIDE DEF q, S
<1>7. /\ Summands \in Seq(S) /\ Len(Summands) = 1 + m /\ Summands[1] = <<constant>>
      /\ \A k \in 1 .. m : Summands[1 + k] = q[k]
    BY <1>4, <1>5, <1>6, ConcatProperties, <1>1
<1>8. \A i \in 1 .. 1 + m : Len(Summands[i]) <= d + 1
  <2> SUFFICES ASSUME NEW i \in 1 .. 1 + m PROVE Len(Summands[i]) <= d + 1
      OBVIOUS
  <2>1. CASE i = 1
    <3>1. Len(<<constant>>) = 1  OBVIOUS
    <3>2. 1 <= d + 1  BY <1>1
    <3>3. Summands[i] = <<constant>>  BY <1>7, <2>1
    <3> HIDE DEF d
    <3> QED BY <3>1, <3>2, <3>3, Zenon
  <2>2. CASE i # 1
    <3>1. i - 1 \in 1 .. m /\ 1 + (i - 1) = i  BY <1>1, <2>2
    <3> QED BY <1>3, <1>7, <3>1
  <2> QED BY <2>1, <2>2
<1>9. Fit(Summands, d + 1)  BY <1>1, <1>7, <1>8 DEF Fit, S
<1> QED BY <1>2, <1>7, <1>9 DEF q

LEMMA ShareTyped ==
    ASSUME ClaimsInv, RoundDone, NEW x \in Int, NEW i \in Members
    PROVE  ShareAt(i, x) \in Int
           /\ (Active(i) => Evaluate(MessageFor(i), x) \in Field /\ Evaluate(MessageFor(i), x) \in Int)
<1>1. Described(i).coefficient \in Int /\ member_claims[i] \in Int
    BY BatchFields, InactiveTyped DEF ClaimsInv, DeliveryInv
<1>2. ASSUME Active(i) PROVE Evaluate(MessageFor(i), x) \in Field /\ Evaluate(MessageFor(i), x) \in Int
  <2>1. PICK k \in 1 .. Len(ran) : ran[k].index = i  BY <1>2, RanAre DEF RoundDone
  <2>2. MessageFor(i) \in Seq(Field)  BY <2>1, RanAre DEF RoundDone
  <2>3. Len(MessageFor(i)) \in Nat /\ MessageFor(i) \in [1 .. Len(MessageFor(i)) -> Int]
      BY <2>2, LenProperties, Fields
  <2> QED BY <2>3, EvaluateInField
<1> DEFINE v == IF Active(i) THEN Evaluate(MessageFor(i), x) ELSE member_claims[i]
<1>3. v \in Int  BY <1>1, <1>2
<1>4. Described(i).coefficient * v \in Int
  <2> HIDE DEF v
  <2> QED BY <1>1, <1>3
<1> QED BY <1>2, <1>4 DEF ShareAt

\* The messages alone: in whatever order they come, one for each active member.
LEMMA MessagesAdd ==
    ASSUME ClaimsInv, RoundDone, NEW x \in Int, NEW u, NEW s, 
           u \in [1 .. Len(batch.described) -> Int], s \in [1 .. Len(ran) -> Int],
           \A i \in Members : u[i] = IF Active(i) THEN ShareAt(i, x) ELSE 0,
           \A k \in 1 .. Len(ran) : s[k] = Evaluate(Summands[1 + k], x)
    PROVE  Total(u) = Total(s)
<1> DEFINE m == Len(ran)
           n == Len(batch.described)
           p == [k \in 1 .. m |-> ran[k].index]
<1>1. /\ m \in Nat /\ n \in Nat /\ Members = 1 .. n
      /\ \A k \in 1 .. m : /\ ran[k].index \in Members /\ Active(ran[k].index)
                           /\ ran[k].message \in Seq(Field)
                           /\ MessageFor(ran[k].index) = ran[k].message
                           /\ Described(ran[k].index).coefficient \in Int
      /\ \A k, l \in 1 .. m : ran[k].index = ran[l].index => k = l
      /\ \A i \in Members : Active(i) <=> \E k \in 1 .. m : ran[k].index = i
    BY RanAre, BatchFields DEF RoundDone, ClaimsInv, DeliveryInv
<1>2. ASSUME NEW k \in 1 .. m PROVE Equal(u[p[k]], s[k])
  <2> DEFINE c == ran[k].message
             a == Described(ran[k].index).coefficient
  <2>1. c \in Seq(Field) /\ a \in Int /\ s[k] = Evaluate(Scale(a, c), x)  BY <1>1, SummandsTyped
  <2>2. u[p[k]] = a * Evaluate(c, x)
    <3>1. u[p[k]] = ShareAt(ran[k].index, x)  BY <1>1
    <3> QED BY <1>1, <3>1 DEF ShareAt
  <2> HIDE DEF c, a
  <2>3. Len(c) \in Nat /\ c \in [1 .. Len(c) -> Int]  BY <2>1, LenProperties, Fields
  <2>4. s[k] = (a * Evaluate(c, x)) % P  BY <2>1, <2>3, ScaleTyped
  <2>5. Evaluate(c, x) \in Int  BY <2>3, EvaluateInField
  <2>6. a * Evaluate(c, x) \in Int  BY <2>1, <2>5
  <2> QED BY <2>2, <2>4, <2>6, EqualReduced, Zenon
<1>3. p \in [1 .. m -> 1 .. n] /\ \A k \in 1 .. m : p[k] = ran[k].index  BY <1>1
<1>4. \A k, l \in 1 .. m : p[k] = p[l] => k = l  BY <1>1, <1>3
<1>5. ASSUME NEW q \in 1 .. n, \A k \in 1 .. m : p[k] # q PROVE Equal(u[q], 0)
    BY <1>1, <1>3, <1>5 DEF Equal
<1> HIDE DEF p, m, n
<1>6. Scatters(m, s, n, u, p)  BY <1>1, <1>2, <1>3, <1>4, <1>5 DEF Scatters, m, n
<1> QED BY <1>6, TotalScatter

LEMMA FoldedValue ==
    ASSUME ClaimsInv, RoundDone, NEW x \in Int
    PROVE  Evaluate(Folded, x) = Total([i \in 1 .. Len(batch.described) |-> ShareAt(i, x)])
<1> DEFINE m == Len(ran)
           n == Len(batch.described)
           w == [i \in 1 .. n |-> ShareAt(i, x)]
           u == [i \in 1 .. n |-> IF Active(i) THEN ShareAt(i, x) ELSE 0]
           s == [k \in 1 .. m |-> Evaluate(Summands[1 + k], x)]
           e == [i \in 1 .. 1 + m |-> Evaluate(Summands[i], x)]
<1>1. m \in Nat /\ n \in Nat /\ Members = 1 .. n /\ constant = Total(Inactive)
    BY RanAre, BatchFields DEF RoundDone, ClaimsInv, DeliveryInv, Messages
<1>2. /\ Fit(Summands, batch.max_degree + 1) /\ Len(Summands) = 1 + m
      /\ Summands[1] = <<constant>> /\ constant \in Field /\ constant \in Int
    BY SummandsTyped
<1>3. Evaluate(Folded, x) = Total(e)  BY <1>2, EvaluatePolySum DEF Folded, Summands
<1>4. e \in [1 .. 1 + m -> Int]
  <2> SUFFICES ASSUME NEW i \in 1 .. 1 + m PROVE Evaluate(Summands[i], x) \in Int
      OBVIOUS
  <2>1. Summands \in Seq(Seq(Int))  BY <1>2 DEF Fit
  <2>2. Summands[i] \in Seq(Int)  BY <1>2, <2>1, ElementOfSeq
  <2>3. Len(Summands[i]) \in Nat /\ Summands[i] \in [1 .. Len(Summands[i]) -> Int]
      BY <2>2, LenProperties
  <2> QED BY <2>3, EvaluateInField
<1>5. s \in [1 .. m -> Int] /\ Total(e) = (constant + Total(s)) % P
  <2>1. \A k \in 1 .. m : 1 + k \in 1 .. 1 + m  BY <1>1
  <2>2. s \in [1 .. m -> Int]  BY <1>4, <2>1
  <2>3. Total(e) = (Total([k \in 1 .. 1 |-> e[k]]) + Total([k \in 1 .. m |-> e[1 + k]])) % P
    <3>1. 1 \in Nat  OBVIOUS
    <3> HIDE DEF e, m
    <3> QED BY <1>1, <1>4, <3>1, TotalConcat
  <2>4. [k \in 1 .. m |-> e[1 + k]] = s  BY <2>1
  <2>5. Total([k \in 1 .. 1 |-> e[k]]) = constant
    <3> DEFINE t == [k \in 1 .. 1 |-> e[k]]
    <3>1. Evaluate(<<constant>>, x) = constant  BY <1>2, EvaluateConstant, InField
    <3>2. 1 \in 1 .. 1 + m /\ 1 \in 1 .. 1 /\ 1 \in Nat  BY <1>1
    <3>3. t \in [1 .. 1 -> Int] /\ t[1] = constant  BY <1>2, <3>1, <3>2
    <3>4. \A k \in 1 .. 1 : k = 1  OBVIOUS
    <3> HIDE DEF t
    <3>5. Total(t) = t[1] % P  BY <3>2, <3>3, <3>4, TotalSingle
    <3> QED BY <1>2, <3>3, <3>5, InField DEF t
  <2> QED BY <2>2, <2>3, <2>4, <2>5
<1>6. w \in [1 .. n -> Int] /\ u \in [1 .. n -> Int]
  <2>1. \A i \in 1 .. n : ShareAt(i, x) \in Int  BY <1>1, ShareTyped
  <2>2. 0 \in Int  OBVIOUS
  <2> QED BY <2>1, <2>2
<1>7. Total(u) = Total(s)
  <2>1. \A i \in Members : u[i] = IF Active(i) THEN ShareAt(i, x) ELSE 0  BY <1>1
  <2>2. \A k \in 1 .. m : s[k] = Evaluate(Summands[1 + k], x)  OBVIOUS
  <2> HIDE DEF u, s
  <2> QED BY <1>5, <1>6, <2>1, <2>2, MessagesAdd DEF m, n
<1>8. Total(w) = (Total(Inactive) + Total(u)) % P
  <2>1. Inactive \in [1 .. n -> Int]  BY InactiveTyped
  <2>2. ASSUME NEW i \in 1 .. n PROVE w[i] = Inactive[i] + u[i]
    <3>1. Inactive[i] \in Int /\ u[i] \in Int /\ w[i] \in Int  BY <1>6, <2>1
    <3>2. CASE Active(i)
      <4>1. Inactive[i] = 0 /\ u[i] = w[i]  BY <3>2 DEF Inactive
      <4> HIDE DEF w, u
      <4> QED BY <3>1, <4>1
    <3>3. CASE ~Active(i)
      <4>1. Inactive[i] = w[i] /\ u[i] = 0  BY <3>3 DEF Inactive, ShareAt
      <4> HIDE DEF w, u
      <4> QED BY <3>1, <4>1
    <3> QED BY <3>2, <3>3
  <2> HIDE DEF w, u, n
  <2> QED BY <1>1, <1>6, <2>1, <2>2, TotalSum
<1> HIDE DEF w, u, s, e, m, n
<1> QED BY <1>1, <1>3, <1>5, <1>7, <1>8 DEF w, n

Trimmed(c, L) ==
    /\ L \in 2 .. Len(c) /\ TrimRoundPolynomial(c) = SubSeq(c, 1, L)
    /\ \A k \in 1 .. Len(c) : k > L => c[k] = 0
    /\ L > 2 => c[L] # 0

LEMMA TrimKeeps ==
    ASSUME NEW n \in Nat, n >= 2, NEW c \in [1 .. n -> Field]
    PROVE  \E L \in 2 .. n : Trimmed(c, L)
<1> DEFINE kept == {k \in 1 .. Len(c) : k <= 2 \/ c[k] # 0}
           L == CHOOSE k \in kept : \A l \in kept : l <= k
<1>1. Len(c) = n  OBVIOUS
<1>2. kept \subseteq 1 .. n /\ 2 \in kept /\ \A k \in 1 .. n : k \in kept <=> (k <= 2 \/ c[k] # 0)
    BY <1>1
<1>3. \E m \in kept : \A k \in kept : k <= m
  <2> HIDE DEF kept
  <2>1. kept # {}  BY <1>2
  <2> QED BY <1>2, <2>1, Greatest
<1>4. L \in kept /\ \A k \in kept : k <= L
  <2> HIDE DEF kept
  <2> QED BY <1>3, Zenon
<1>5. TrimRoundPolynomial(c) = SubSeq(c, 1, L)  BY DEF TrimRoundPolynomial
<1>6. L \in 2 .. n
  <2> HIDE DEF kept, L
  <2> QED BY <1>2, <1>4
<1>7. \A k \in 1 .. n : k > L => c[k] = 0
  <2> HIDE DEF kept, L
  <2>1. \A k \in 1 .. n : k > L => k \notin kept  BY <1>4, <1>6
  <2> QED BY <1>2, <2>1
<1>8. L > 2 => c[L] # 0
  <2> HIDE DEF kept, L
  <2> QED BY <1>2, <1>4, <1>6
<1> HIDE DEF L
<1> QED BY <1>1, <1>5, <1>6, <1>7, <1>8 DEF Trimmed

LEMMA TrimmedValue ==
    ASSUME NEW n \in Nat, NEW c \in [1 .. n -> Field], NEW L, Trimmed(c, L)
    PROVE  LET t == TrimRoundPolynomial(c)
           IN  /\ t \in Seq(Field) /\ Len(t) = L /\ t \in [1 .. L -> Field] /\ t \in [1 .. L -> Int]
               /\ \A k \in 1 .. L : t[k] = c[k]
               /\ \A x \in Int : Evaluate(t, x) = Evaluate(c, x)
<1> DEFINE t == TrimRoundPolynomial(c)
<1>1. Len(c) = n /\ L \in 2 .. n /\ L \in Nat /\ t = SubSeq(c, 1, L)
      /\ \A k \in 1 .. n : k > L => c[k] = 0
    BY DEF Trimmed
<1> HIDE DEF t
<1>2. \A k \in 1 .. L : c[k] \in Field  BY <1>1
<1>3. t \in Seq(Field) /\ Len(t) = L /\ \A k \in 1 .. L : t[k] = c[k]  BY <1>1, SubSeqProperties
<1>4. t \in [1 .. L -> Field]  BY <1>3, LenProperties
<1>5. t \in [1 .. L -> Int] /\ c \in [1 .. n -> Int]  BY <1>4, Fields
<1>6. Trails(c, n, t, L)  BY <1>1, <1>3, <1>5 DEF Trails, Equal
<1>7. \A x \in Int : Evaluate(t, x) = Evaluate(c, x)  BY <1>6, EvaluateTrail
<1> QED BY <1>3, <1>4, <1>5, <1>7 DEF t

\* The round polynomial prove_batch absorbs.
LEMMA RoundMessage ==
    ASSUME ClaimsInv, RoundDone, batch.max_degree >= 1
    PROVE  LET t == TrimRoundPolynomial(Folded)
           IN  /\ t \in Seq(Field) /\ Len(t) \in 2 .. batch.max_degree + 1
               /\ t \in [1 .. Len(t) -> Field] /\ t \in [1 .. Len(t) -> Int]
               /\ Len(t) > 2 => t[Len(t)] # 0
               /\ \A x \in Int : Evaluate(t, x) = Total([i \in 1 .. Len(batch.described) |-> ShareAt(i, x)])
<1> DEFINE n == batch.max_degree + 1
           t == TrimRoundPolynomial(Folded)
<1>1. n \in Nat /\ n >= 2  BY BatchTyped DEF ClaimsInv
<1>2. Folded \in [1 .. n -> Field]  BY SummandsTyped, PolySumInField DEF Folded, Summands
<1>3. PICK L \in 2 .. n : Trimmed(Folded, L)  BY <1>1, <1>2, TrimKeeps
<1>4. /\ t \in Seq(Field) /\ Len(t) = L /\ t \in [1 .. L -> Field] /\ t \in [1 .. L -> Int]
      /\ \A k \in 1 .. L : t[k] = Folded[k]
      /\ \A x \in Int : Evaluate(t, x) = Evaluate(Folded, x)
    BY <1>1, <1>2, <1>3, TrimmedValue
<1>5. L > 2 => t[L] # 0  BY <1>3, <1>4 DEF Trimmed
<1>6. \A x \in Int : Evaluate(t, x) = Total([i \in 1 .. Len(batch.described) |-> ShareAt(i, x)])
    BY <1>4, FoldedValue
<1> HIDE DEF t
<1> QED BY <1>1, <1>3, <1>4, <1>5, <1>6 DEF t

LEMMA PaddedTyped ==
    ASSUME Shape, NEW i \in Members
    PROVE  PaddedClaim(batch, i) \in Field /\ PaddedClaim(batch, i) \in Int
<1>1. Described(i).input_claim \in Int /\ batch.max_num_vars - Described(i).rounds \in Int
    BY BatchFields, Fields
<1>2. TwoTo(batch.max_num_vars - Described(i).rounds) \in Int  BY <1>1, TwoToTyped
<1> DEFINE a == Described(i).input_claim
           b == TwoTo(batch.max_num_vars - Described(i).rounds)
<1>3. PaddedClaim(batch, i) = (a * b) % P  BY DEF PaddedClaim, MulPow2, Described
<1> HIDE DEF a, b
<1>4. a * b \in Int  BY <1>1, <1>2 DEF a, b
<1>5. (a * b) % P \in Field  BY <1>4, Division
<1> QED BY <1>3, <1>5, Fields

LEMMA CombinationTyped ==
    ASSUME Shape, member_claims \in [Members -> Field]
    PROVE  Combination \in Field /\ [i \in 1 .. Len(batch.described) |-> Described(i).coefficient * member_claims[i]]
                                        \in [1 .. Len(batch.described) -> Int]
<1>1. /\ Members = 1 .. Len(batch.described) /\ Len(batch.described) \in Nat
      /\ \A i \in Members : Described(i).coefficient \in Int
    BY BatchFields
<1>2. \A i \in Members : Described(i).coefficient * member_claims[i] \in Int
  <2> SUFFICES ASSUME NEW i \in Members PROVE Described(i).coefficient * member_claims[i] \in Int
      OBVIOUS
  <2>1. Described(i).coefficient \in Int /\ member_claims[i] \in Int  BY <1>1, Fields
  <2> QED BY <2>1
<1>3. [i \in 1 .. Len(batch.described) |-> Described(i).coefficient * member_claims[i]]
          \in [1 .. Len(batch.described) -> Int]
    BY <1>1, <1>2
<1> QED BY <1>1, <1>3, TotalInField DEF Combination

\* The claims start as the padded input claims, which the verifier combines alike.
LEMMA ClaimsInit == Init => ClaimsInv
<1> SUFFICES ASSUME Init PROVE ClaimsInv
    OBVIOUS
<1>1. DeliveryInv  BY DeliveryInit
<1>2. Checked /\ Messages  BY DEF Init, Checked, Messages
<1>3. Bound  BY <1>1, KernelAssumption, LenProperties, KernelTables DEF Init, DeliveryInv, Shape, Bound
<1>4. Claimed
    BY <1>1, PaddedTyped, BatchFields, CombinationTyped DEF Init, DeliveryInv, Described, ClaimedSum,
       Combination, Claimed
<1> QED BY <1>1, <1>2, <1>3, <1>4 DEF ClaimsInv

\* The phases of a batch whose checks passed.
Underway == phase \in {"round", "schedule", "finish", "proved"}

LEMMA QuietClaims ==
    ASSUME ClaimsInv, DeliveryInv', Checked',
           UNCHANGED <<batch, tables, member_claims, work, ran, constant, running_claim, challenges>>,
           phase' = "schedule" => phase = "schedule",
           Settled' => Settled
    PROVE  ClaimsInv'
<1>1. Members' = Members /\ Combination' = Combination /\ IndexesLeft' = IndexesLeft
    BY DEF Members, Combination, Described, IndexesLeft
<1>2. Claimed' /\ Bound'  BY <1>1 DEF ClaimsInv, Claimed, Bound
<1>3. Inactive' = Inactive  BY DEF Inactive, Active, Described, round
<1>4. Messages'  BY <1>1, <1>3 DEF ClaimsInv, Messages
<1> QED BY <1>2, <1>4 DEF ClaimsInv

\* The checks that let a batch through are those of every member.
LEMMA CheckPasses ==
    ASSUME Shape, CheckError = "none"
    PROVE  /\ Len(batch.kernels) = Len(batch.described)
           /\ \A i \in Members : MemberError(i) = "none"
           /\ batch.max_num_vars > 0 => batch.max_degree >= 1
<1>1. Len(batch.kernels) = Len(batch.described)  BY DEF CheckError
<1>2. (\E i \in Members : MemberError(i) # "none") =>
        MemberError(CHOOSE i \in Members :
            MemberError(i) # "none" /\ \A j \in Members : j < i => MemberError(j) = "none") # "none"
  <2> DEFINE bad == {i \in Members : MemberError(i) # "none"}
  <2> SUFFICES ASSUME bad # {}
               PROVE  \E i \in Members : MemberError(i) # "none"
                                         /\ \A j \in Members : j < i => MemberError(j) = "none"
      BY Zenon
  <2>1. bad \subseteq Nat  BY BatchFields
  <2>2. PICK i \in bad : \A j \in bad : ~(j < i)  BY <2>1, Least
  <2> QED BY <2>2
<1>3. \A i \in Members : MemberError(i) = "none"  BY <1>1, <1>2 DEF CheckError
<1>4. ~(batch.max_num_vars > 0 /\ batch.max_degree < 1)  BY <1>1, <1>3 DEF CheckError
<1> QED BY <1>1, <1>3, <1>4, BatchFields

LEMMA CheckedKept ==
    ASSUME Checked, batch' = batch, Underway' => Underway
    PROVE  Checked'
<1>1. Members' = Members /\ \A i : MemberError(i)' = MemberError(i)
    BY DEF Members, MemberError, WindowInRange, Described
<1> QED BY <1>1 DEF Checked, Underway

LEMMA QuietClaimSteps ==
    ASSUME ClaimsInv, Forge \/ Check \/ FailRound \/ LastRound \/ Finish \/ Verify
    PROVE  ClaimsInv'
<1>1. UNCHANGED <<batch, tables, member_claims, work, ran, constant, running_claim, challenges>>
    BY DEF Forge, Check, FailRound, LastRound, Finish, Verify, pvars
<1>2. DeliveryInv'  BY QuietSteps DEF ClaimsInv
<1>3. CASE Check
  <2>1. phase = "check" /\ ((phase' = "round" /\ CheckError = "none") \/ (phase' = CheckError /\ CheckError # "none"))
      BY <1>3 DEF Check
  <2>2. CheckError \in {"BatchMemberCountMismatch", "BatchMemberRoundsMismatch",
                        "BatchMemberWindowOutOfRange", "ZeroBatchDegree", "none"}
      BY MemberErrors DEF CheckError
  <2>3. Members' = Members /\ \A i : MemberError(i)' = MemberError(i)
      BY <1>1 DEF Members, MemberError, WindowInRange, Described
  <2>4. Checked'
    <3>1. CASE CheckError = "none"  BY <3>1, CheckPasses, <1>1, <2>3 DEF ClaimsInv, DeliveryInv, Checked
    <3>2. CASE CheckError # "none"  BY <2>1, <2>2, <3>2 DEF Checked
    <3> QED BY <3>1, <3>2
  <2>5. phase' # "schedule" /\ (Settled' => Settled)  BY <2>1, <2>2 DEF Settled
  <2> QED BY <1>1, <1>2, <2>1, <2>4, <2>5, QuietClaims
<1>4. CASE FailRound
    BY <1>4, <1>1, <1>2, QuietClaims DEF FailRound, RoundErrors, ItemErrors, Checked, Settled
<1>5. CASE Forge  BY <1>5, <1>1, <1>2, QuietClaims DEF Forge, Checked, Settled
<1>6. CASE LastRound \/ Finish \/ Verify
  <2>1. /\ phase' = "schedule" => phase = "schedule"
        /\ Settled' => Settled
        /\ Underway' => Underway
      BY <1>6 DEF LastRound, Finish, Verify, pvars, Underway, Settled
  <2>2. Checked'  BY <1>1, <2>1, CheckedKept DEF ClaimsInv
  <2> QED BY <1>1, <1>2, <2>1, <2>2, QuietClaims
<1> QED BY <1>3, <1>4, <1>5, <1>6

\* A round halves the inactive members' claims and adds up their share.
LEMMA StartClaims ==
    ASSUME ClaimsInv, StartRound
    PROVE  ClaimsInv'
<1>1. /\ phase = "round" /\ phase' = "schedule" /\ ran' = <<>>
      /\ member_claims' = [i \in Members |->
             IF Active(i) THEN member_claims[i] ELSE (member_claims[i] * TwoInv) % P]
      /\ constant' = Total([i \in 1 .. Len(batch.described) |->
             IF Active(i) THEN 0 ELSE Described(i).coefficient * member_claims'[i]])
      /\ UNCHANGED <<batch, tables, running_claim, challenges>>
    BY DEF StartRound
<1>2. DeliveryInv'  BY StartDelivery DEF ClaimsInv
<1>3. Members' = Members /\ \A i : (Active(i)' <=> Active(i)) /\ Described(i)' = Described(i)
    BY <1>1 DEF Members, Active, Described, round
<1>4. Checked'  BY <1>1, CheckedKept DEF ClaimsInv, Underway
<1>5. Bound'  BY <1>1 DEF ClaimsInv, Bound
<1>6. Claimed'
  <2>1. ASSUME NEW i \in Members PROVE (member_claims[i] * TwoInv) % P \in Field
    <3>1. member_claims[i] \in Int /\ TwoInv \in Int  BY InactiveTyped, HalfInverse
    <3>2. member_claims[i] * TwoInv \in Int  BY <3>1
    <3> QED BY <3>2, Division
  <2>2. \A i \in Members : member_claims[i] \in Field  BY InactiveTyped
  <2>3. member_claims' \in [Members -> Field]  BY <1>1, <2>1, <2>2
  <2> QED BY <1>1, <1>3, <2>3 DEF ClaimsInv, Claimed, Settled
<1>7. Messages'
  <2>1. Inactive' = [i \in 1 .. Len(batch.described) |->
             IF Active(i) THEN 0 ELSE Described(i).coefficient * member_claims'[i]]
      BY <1>1, <1>3 DEF Inactive
  <2>2. DOMAIN ran' = {}  BY <1>1
  <2> QED BY <1>1, <2>1, <2>2 DEF Messages
<1> QED BY <1>2, <1>4, <1>5, <1>6, <1>7 DEF ClaimsInv

\* What a member is given keeps its tables a hypercube's.
LEMMA DeliveredTables ==
    ASSUME ClaimsInv, NEW i \in Members, NEW bind \in Option, Delivered(i, bind)
    PROVE  /\ Bound' \/ batch' # batch
           /\ \A j \in DOMAIN tables : j # i => tables'[j] = tables[j]
           /\ DOMAIN tables' = DOMAIN tables
           /\ i \in DOMAIN tables => tables'[i] = IF bind = <<>> THEN tables[i] ELSE Bind(tables[i], bind[1])
<1>1. tables' = [tables EXCEPT ![i] = IF bind = <<>> THEN tables[i] ELSE Bind(tables[i], bind[1])]
    BY DEF Delivered
<1>2. DOMAIN tables = 1 .. Len(batch.kernels) /\ \A j \in DOMAIN tables : IsTables(tables[j])
    BY DEF ClaimsInv, Bound
<1>3. bind # <<>> => bind[1] \in Int  BY Fields DEF Option
<1>4. ASSUME NEW j \in DOMAIN tables, bind # <<>> PROVE IsTables(Bind(tables[j], bind[1]))
    BY <1>2, <1>3, <1>4, BindTyped, TablesAre DEF IsTables
<1>5. \A j \in DOMAIN tables : j # i => tables'[j] = tables[j]  BY <1>1
<1>6. DOMAIN tables' = DOMAIN tables  BY <1>1
<1>7. i \in DOMAIN tables => tables'[i] = IF bind = <<>> THEN tables[i] ELSE Bind(tables[i], bind[1])
    BY <1>1
<1>8. \A j \in DOMAIN tables : IsTables(tables'[j])  BY <1>2, <1>4, <1>5, <1>7
<1> QED BY <1>2, <1>5, <1>6, <1>7, <1>8 DEF Bound

LEMMA RunClaims ==
    ASSUME ClaimsInv, NEW item \in work, Run(item)
    PROVE  ClaimsInv'
<1> DEFINE e == [item EXCEPT !.message = Message(item.index)]
           i == item.index
<1>1. /\ phase = "schedule" /\ phase' = phase /\ work' = work \ {item}
      /\ Delivered(i, item.bind) /\ ran' = Append(ran, e)
      /\ UNCHANGED <<batch, member_claims, running_claim, challenges, constant>>
    BY DEF Run
<1>2. DeliveryInv'  BY RunDelivery DEF ClaimsInv
<1>3. Members' = Members /\ \A j : (Active(j)' <=> Active(j)) /\ Described(j)' = Described(j)
    BY <1>1 DEF Members, Active, Described, round
<1>4. Checked'  BY <1>1, CheckedKept DEF ClaimsInv, Underway
<1>5. /\ i \in Members /\ item.bind \in Option
      /\ item = [index |-> i, local_round |-> item.local_round,
                 bind |-> item.bind, claim |-> item.claim, message |-> item.message]
      /\ \A a \in work : a.index = i => a = item
    BY DEF ClaimsInv, DeliveryInv, Items
<1>6. e.index = i /\ e.message = Message(i)  BY <1>5
<1>7. Bound' /\ DOMAIN tables' = DOMAIN tables  BY <1>1, <1>5, DeliveredTables
<1>8. Claimed'  BY <1>1, <1>3 DEF ClaimsInv, Claimed, Combination, Settled
<1>9. i \in DOMAIN tables'  BY <1>1, BatchFields, <1>5, <1>7 DEF ClaimsInv, Checked, DeliveryInv, Bound
<1>10. Message(i) \in Seq(Field)  BY <1>7, <1>9, <1>5, MessageTyped DEF Bound, ClaimsInv, DeliveryInv
<1> HIDE DEF e
<1>11. Len(ran) \in Nat /\ DOMAIN ran = 1 .. Len(ran) /\ ran \in Seq(Elements(ran))
    BY LenProperties DEF ClaimsInv, DeliveryInv, Shape
<1>12. /\ DOMAIN ran' = 1 .. Len(ran) + 1 /\ ran'[Len(ran) + 1] = e
       /\ \A k \in 1 .. Len(ran) : ran'[k] = ran[k]
  <2> DEFINE S == Elements(ran) \cup {e}
  <2>1. ran \in Seq(S) /\ e \in S
    <3>1. ran \in Seq(Elements(ran)) /\ Elements(ran) \subseteq S  BY <1>11
    <3> HIDE DEF S
    <3> QED BY <3>1 DEF S
  <2> HIDE DEF S
  <2>2. Append(ran, e) \in Seq(S) /\ Len(Append(ran, e)) = Len(ran) + 1
        /\ Append(ran, e)[Len(ran) + 1] = e
        /\ \A k \in 1 .. Len(ran) : Append(ran, e)[k] = ran[k]
      BY <2>1, AppendProperties
  <2> QED BY <1>1, <2>2, LenProperties
<1>13. i \in IndexesLeft /\ IndexesLeft' = IndexesLeft \ {i}  BY <1>1, <1>5 DEF IndexesLeft
<1>14. \A k \in 1 .. Len(ran) : ran[k].message \in Seq(Field) /\ ran[k].index \notin IndexesLeft
    BY <1>1, <1>11 DEF ClaimsInv, Messages
<1>15. \A k, l \in 1 .. Len(ran) : ran[k].index = ran[l].index => k = l
    BY <1>1, <1>11 DEF ClaimsInv, Messages
<1>16. \A k \in DOMAIN ran' : k \in 1 .. Len(ran) \/ k = Len(ran) + 1  BY <1>11, <1>12
<1>17. Messages'
  <2>1. Inactive' = Inactive  BY <1>1, <1>3 DEF Inactive
  <2>2. constant' = Total(Inactive')  BY <1>1, <2>1 DEF ClaimsInv, Messages
  <2>3. \A k \in DOMAIN ran' : ran'[k].message \in Seq(Field) /\ ran'[k].index \notin IndexesLeft'
      BY <1>6, <1>10, <1>12, <1>13, <1>14, <1>16
  <2>4. \A k, l \in DOMAIN ran' : ran'[k].index = ran'[l].index => k = l
      BY <1>6, <1>12, <1>13, <1>14, <1>15, <1>16
  <2> QED BY <2>2, <2>3, <2>4 DEF Messages
<1> QED BY <1>2, <1>4, <1>7, <1>8, <1>17 DEF ClaimsInv

LEMMA LastClaims ==
    ASSUME ClaimsInv, NEW m \in ToFinish, FinishMember(m)
    PROVE  ClaimsInv'
<1>1. /\ phase = "finish" /\ phase' = phase /\ Delivered(m, pending_binds[m])
      /\ UNCHANGED <<batch, member_claims, running_claim, challenges>>
    BY DEF FinishMember
<1>2. DeliveryInv'  BY LastDelivery DEF ClaimsInv
<1>3. Members' = Members /\ \A j : Described(j)' = Described(j)  BY <1>1 DEF Members, Described
<1>4. Checked'  BY <1>1, CheckedKept DEF ClaimsInv, Underway
<1>5. m \in Members /\ pending_binds[m] \in Option  BY DEF ToFinish, ClaimsInv, DeliveryInv, Shape
<1>6. Bound'  BY <1>1, <1>5, DeliveredTables
<1>7. Claimed'  BY <1>1, <1>3 DEF ClaimsInv, Claimed, Combination, Settled
<1>8. Messages'  BY <1>1 DEF Messages
<1> QED BY <1>2, <1>4, <1>6, <1>7, <1>8 DEF ClaimsInv

LEMMA RoundIsDone ==
    ASSUME ClaimsInv, LockstepInv, phase = "schedule", ItemErrors = {}
    PROVE  RoundDone /\ batch.max_degree >= 1
<1>1. work = {} /\ \A k \in DOMAIN ran : ~(Degree(ran[k].message) > batch.max_degree)
    BY DEF ItemErrors
<1>2. batch.max_degree >= 1  BY BatchTyped DEF LockstepInv, Paced
<1> QED BY <1>1, <1>2 DEF RoundDone

\* What a finished round makes of the claims.
LEMMA FinishedRound ==
    ASSUME ClaimsInv, LockstepInv, FinishRound
    PROVE  \E r \in Field :
              LET t == TrimRoundPolynomial(Folded)
              IN  /\ RoundDone /\ batch.max_degree >= 1
                  /\ ItemErrors = {} /\ RoundSum = running_claim
                  /\ running_claim' = Evaluate(t, r) /\ challenges' = Append(challenges, r)
                  /\ round_polynomials' = Append(round_polynomials, Recorded(t))
                  /\ member_claims' = [i \in Members |->
                         IF Active(i) THEN Evaluate(MessageFor(i), r) ELSE member_claims[i]]
                  /\ pending_binds' = [i \in Members |-> IF Active(i) THEN <<r>> ELSE pending_binds[i]]
<1> DEFINE t == TrimRoundPolynomial(Folded)
           result(i) == {k \in DOMAIN ran : Attribute(i, k)}
<1>1. phase = "schedule" /\ work = {} /\ RoundErrors = {}  BY DEF FinishRound
<1>2. ItemErrors = {} /\ RoundSum = running_claim  BY <1>1 DEF RoundErrors
<1>3. RoundDone /\ batch.max_degree >= 1  BY <1>1, <1>2, RoundIsDone
<1>4. PICK r \in Squeeze(transcript') :
        /\ oracle' = Remember(transcript', r)
        /\ running_claim' = Evaluate(t, r)
        /\ challenges' = Append(challenges, r)
        /\ member_claims' = [i \in Members |->
               IF result(i) = {} THEN member_claims[i]
               ELSE Evaluate(ran[CHOOSE k \in result(i) : TRUE].message, r)]
        /\ pending_binds' = [i \in Members |->
               IF result(i) = {} THEN pending_binds[i] ELSE <<r>>]
    BY DEF FinishRound
<1>5. round_polynomials' = Append(round_polynomials, Recorded(t))  BY DEF FinishRound
<1>6. r \in Field  BY <1>4, OracleKept DEF ClaimsInv, DeliveryInv, Shape
<1>7. \A i \in Members : Active(i) <=> result(i) # {}  BY <1>1, RanAre
<1>8. \A i : MessageFor(i) = ran[CHOOSE k \in result(i) : TRUE].message  BY DEF MessageFor
<1> HIDE DEF result, t
<1>9. member_claims' = [i \in Members |->
                         IF Active(i) THEN Evaluate(MessageFor(i), r) ELSE member_claims[i]]
    BY <1>4, <1>7, <1>8
<1>10. pending_binds' = [i \in Members |-> IF Active(i) THEN <<r>> ELSE pending_binds[i]]
    BY <1>4, <1>7
<1> QED BY <1>2, <1>3, <1>4, <1>5, <1>6, <1>9, <1>10 DEF t

\* The claim a round leaves, and the members' claims, are one polynomial's and
\* the messages' values at one challenge: the first combines the others.
LEMMA FinishClaims ==
    ASSUME ClaimsInv, LockstepInv, FinishRound
    PROVE  ClaimsInv'
<1> DEFINE t == TrimRoundPolynomial(Folded)
<1>1. PICK r \in Field :
        /\ RoundDone /\ batch.max_degree >= 1
        /\ running_claim' = Evaluate(t, r) /\ challenges' = Append(challenges, r)
        /\ member_claims' = [i \in Members |->
               IF Active(i) THEN Evaluate(MessageFor(i), r) ELSE member_claims[i]]
    BY FinishedRound
<1>2. phase = "schedule" /\ phase' = "round" /\ UNCHANGED <<batch, tables>>  BY DEF FinishRound
<1>3. r \in Int  BY Fields
<1>4. DeliveryInv'  BY FinishDelivery DEF ClaimsInv
<1>5. Checked'  BY <1>2, CheckedKept DEF ClaimsInv, Underway
<1>6. Bound' /\ Messages'  BY <1>2 DEF ClaimsInv, Bound, Messages
<1>7. Members' = Members /\ \A j : Described(j)' = Described(j)  BY <1>2 DEF Members, Described
<1>8. /\ Members = 1 .. Len(batch.described)
      /\ \A i \in Members : Described(i).coefficient \in Int
    BY BatchFields DEF ClaimsInv, DeliveryInv
<1>9. Evaluate(t, r) = Total([i \in 1 .. Len(batch.described) |-> ShareAt(i, r)])
    BY <1>1, <1>3, RoundMessage
<1>10. member_claims' \in [Members -> Field]
  <2>1. ASSUME NEW i \in Members, Active(i) PROVE Evaluate(MessageFor(i), r) \in Field
      BY <1>1, <1>3, <2>1, ShareTyped
  <2>2. \A i \in Members : member_claims[i] \in Field  BY InactiveTyped
  <2> QED BY <1>1, <2>1, <2>2
<1>11. ASSUME NEW i \in 1 .. Len(batch.described)
       PROVE  ShareAt(i, r) = Described(i)'.coefficient * member_claims'[i]
    BY <1>1, <1>8, <1>7 DEF ShareAt
<1> HIDE DEF t
<1>12. [i \in 1 .. Len(batch.described) |-> ShareAt(i, r)]
         = [i \in 1 .. Len(batch'.described) |-> Described(i)'.coefficient * member_claims'[i]]
    BY <1>2, <1>11
<1>13. Combination' = Total([i \in 1 .. Len(batch'.described) |-> Described(i)'.coefficient * member_claims'[i]])
    BY DEF Combination
<1>14. running_claim' = Combination'  BY <1>1, <1>9, <1>12, <1>13, Zenon
<1>15. Combination' \in Field
  <2>1. Shape' /\ member_claims' \in [Members' -> Field]  BY <1>4, <1>7, <1>10 DEF DeliveryInv
  <2> DEFINE u == [i \in 1 .. Len(batch'.described) |-> Described(i)'.coefficient * member_claims'[i]]
  <2>2. ASSUME NEW i \in 1 .. Len(batch'.described) PROVE Described(i)'.coefficient * member_claims'[i] \in Int
      BY <1>2, <1>7, <1>8, <1>10, Fields
  <2>3. u \in [1 .. Len(batch'.described) -> Int] /\ Len(batch'.described) \in Nat
      BY <1>2, <2>2, BatchFields DEF ClaimsInv, DeliveryInv
  <2> HIDE DEF u
  <2>4. Total(u) \in Field  BY <2>3, TotalInField
  <2> QED BY <1>13, <2>4 DEF u
<1>16. Claimed'  BY <1>2, <1>7, <1>10, <1>14, <1>15 DEF Claimed
<1> QED BY <1>4, <1>5, <1>6, <1>16 DEF ClaimsInv

LEMMA ClaimsStep ==
    ASSUME ClaimsInv, LockstepInv, [Next]_vars
    PROVE  ClaimsInv'
<1>1. CASE Forge \/ Check \/ FailRound \/ LastRound \/ Finish \/ Verify  BY <1>1, QuietClaimSteps
<1>2. CASE StartRound  BY <1>2, StartClaims
<1>3. ASSUME NEW item \in work, Run(item) PROVE ClaimsInv'  BY <1>3, RunClaims
<1>4. CASE FinishRound  BY <1>4, FinishClaims
<1>5. ASSUME NEW m \in ToFinish, FinishMember(m) PROVE ClaimsInv'  BY <1>5, LastClaims
<1>6. CASE UNCHANGED vars
    BY <1>6, DeliveryStep, CheckedKept, QuietClaims DEF vars, pvars, ClaimsInv, Underway, Settled
<1> QED BY <1>1, <1>2, <1>3, <1>4, <1>5, <1>6 DEF Next

\* Between rounds the running claim is the combination of the members' claims,
\* in whatever order the scheduler ran them and wherever their windows lie
\* (prove_batch's running_claim and member_claims).
THEOREM ClaimsCombine == Spec => []RunningIsCombination
<1>1. ClaimsInv => RunningIsCombination  BY DEF ClaimsInv, Claimed, RunningIsCombination, Settled
<1>2. Init => ClaimsInv /\ LockstepInv  BY ClaimsInit, LockstepInit
<1>3. ClaimsInv /\ LockstepInv /\ [Next]_vars => ClaimsInv' /\ LockstepInv'
    BY ClaimsStep, LockstepStep
<1> QED BY <1>1, <1>2, <1>3, PTL DEF Spec

-----------------------------------------------------------------------------
(* Types *)

LEMMA CompressTyped ==
    ASSUME NEW L \in Nat, L >= 2, NEW c \in Seq(Field), Len(c) = L
    PROVE  /\ Compress(c) \in Seq(Field) /\ Len(Compress(c)) = L - 1
           /\ L > 2 => Compress(c)[L - 1] = c[L]
<1> DEFINE h == <<c[1]>>
           q == SubSeq(c, 3, L)
<1>1. Compress(c) = h \o q  BY DEF Compress
<1>2. h \in Seq(Field) /\ Len(h) = 1  BY ElementOfSeq
<1>3. q \in Seq(Field) /\ Len(q) = L - 2 /\ \A k \in 1 .. L - 2 : q[k] = c[3 + k - 1]
  <2>1. \A k \in 3 .. L : c[k] \in Field  BY ElementOfSeq
  <2>2. q \in Seq(Field) /\ Len(q) = IF 3 <= L THEN L - 3 + 1 ELSE 0  BY <2>1, SubSeqProperties
  <2>3. \A k \in 1 .. L - 3 + 1 : q[k] = c[3 + k - 1]  BY <2>1, SubSeqProperties
  <2> HIDE DEF q
  <2> QED BY <2>2, <2>3
<1> HIDE DEF h, q
<1>4. h \o q \in Seq(Field) /\ Len(h \o q) = 1 + (L - 2)
      /\ \A k \in 1 .. 1 + (L - 2) : (h \o q)[k] = IF k <= 1 THEN h[k] ELSE q[k - 1]
  <2>1. h \o q \in Seq(Field) /\ Len(h \o q) = Len(h) + Len(q)
        /\ \A k \in 1 .. Len(h) + Len(q) : (h \o q)[k] = IF k <= Len(h) THEN h[k] ELSE q[k - Len(h)]
      BY <1>2, <1>3, ConcatProperties
  <2> QED BY <1>2, <1>3, <2>1
<1>5. L > 2 => (h \o q)[L - 1] = c[L]
  <2> SUFFICES ASSUME L > 2 PROVE (h \o q)[L - 1] = c[L]
      OBVIOUS
  <2>1. L - 1 \in 1 .. 1 + (L - 2) /\ ~(L - 1 <= 1) /\ L - 1 - 1 = L - 2
        /\ L - 2 \in 1 .. L - 2 /\ 3 + (L - 2) - 1 = L
      OBVIOUS
  <2> QED BY <1>3, <1>4, <2>1
<1> QED BY <1>1, <1>4, <1>5

LEMMA HintTyped ==
    ASSUME NEW w \in Seq(Field), w # <<>>, NEW hint \in Field, NEW x \in Int
    PROVE  EvaluateWithHint(w, hint, x) \in Field
<1> DEFINE n == Len(w)
           lin == RecoverLinearTerm(w, hint)
           d == <<w[1], lin>> \o Tail(w)
<1>1. n \in Nat /\ n >= 1 /\ w \in [1 .. n -> Field]  BY EmptySeq, LenProperties
<1>2. w[1] \in Field /\ w[1] \in Int  BY <1>1, Fields
<1>3. Tail(w) \in Seq(Field) /\ Len(Tail(w)) = n - 1  BY <1>1
<1>4. Tail(w) \in [1 .. n - 1 -> Field] /\ n - 1 \in Nat  BY <1>1, <1>3, LenProperties
<1>5. Tail(w) \in [1 .. n - 1 -> Int]  BY <1>4, Fields
<1>6. Total(Tail(w)) \in Int  BY <1>4, <1>5, TotalInField
<1>7. lin \in Field
  <2>1. hint \in Int  BY Fields
  <2>2. (hint - 2 * w[1]) - Total(Tail(w)) \in Int  BY <1>2, <1>6, <2>1
  <2> QED BY <2>2, Division DEF RecoverLinearTerm
<1> HIDE DEF lin
<1>8. <<w[1], lin>> \in Seq(Field) /\ Len(<<w[1], lin>>) = 2  BY <1>2, <1>7
<1>9. d \in Seq(Field) /\ Len(d) = 2 + (n - 1)  BY <1>3, <1>8, ConcatProperties
<1>10. d \in [1 .. n + 1 -> Field]
  <2> HIDE DEF d
  <2> QED BY <1>1, <1>9, LenProperties
<1>11. d \in [1 .. n + 1 -> Int]
  <2> HIDE DEF d
  <2> QED BY <1>10, Fields
<1>12. Evaluate(d, x) \in Field
  <2> HIDE DEF d
  <2> QED BY <1>1, <1>11, EvaluateInField
<1> QED BY <1>12 DEF EvaluateWithHint, lin

LEMMA ClaimedSumTyped ==
    ASSUME Shape
    PROVE  ClaimedSum(batch) \in Field
<1> DEFINE u == [i \in 1 .. Len(batch.described) |-> batch.described[i].coefficient * PaddedClaim(batch, i)]
<1>1. /\ Members = 1 .. Len(batch.described) /\ Len(batch.described) \in Nat
      /\ \A i \in Members : batch.described[i].coefficient \in Int
    BY BatchFields DEF Described
<1>2. \A i \in Members : batch.described[i].coefficient * PaddedClaim(batch, i) \in Int
  <2> SUFFICES ASSUME NEW i \in Members PROVE batch.described[i].coefficient * PaddedClaim(batch, i) \in Int
      OBVIOUS
  <2>1. batch.described[i].coefficient \in Int /\ PaddedClaim(batch, i) \in Int
      BY <1>1, PaddedTyped
  <2> QED BY <2>1
<1>3. u \in [1 .. Len(batch.described) -> Int]  BY <1>1, <1>2
<1> HIDE DEF u
<1>4. Total(u) \in Field  BY <1>1, <1>3, TotalInField
<1> QED BY <1>4 DEF ClaimedSum, u

-----------------------------------------------------------------------------
\* A recorded round: no coefficient the wire does without.
KeptRound(w) ==
    IF batch \in Sealed THEN w.degree \in 1 .. batch.max_degree
    ELSE /\ w \in Seq(Field) /\ Len(w) \in 1 .. batch.max_degree
         /\ Len(w) > 1 => w[Len(w)] # 0

TypeInv ==
    /\ \A w \in Elements(transcript) : KeptRound(w)
    /\ running_sum \in Field
    /\ verdict = "running" => proof \in Seq(Seq(Field))

LEMMA TypeInit == Init => TypeInv
<1> SUFFICES ASSUME Init PROVE TypeInv
    OBVIOUS
<1>1. Elements(transcript) = {}  BY DEF Init, Elements
<1>2. running_sum \in Field /\ verdict = "waiting"  BY Fields DEF Init
<1> QED BY <1>1, <1>2 DEF TypeInv

LEMMA KeptRoundRecorded ==
    ASSUME ClaimsInv, RoundDone, batch.max_degree >= 1
    PROVE  KeptRound(Recorded(TrimRoundPolynomial(Folded)))
<1> DEFINE t == TrimRoundPolynomial(Folded)
           L == Len(t)
<1>1. /\ t \in Seq(Field) /\ L \in 2 .. batch.max_degree + 1 /\ L \in Nat
      /\ L > 2 => t[L] # 0
    BY RoundMessage
<1>2. batch.max_degree \in Nat  BY BatchTyped DEF ClaimsInv
<1> HIDE DEF t
<1>3. CASE batch \in Sealed  BY <1>3, <1>1, <1>2 DEF Recorded, KeptRound, t
<1>4. CASE batch \notin Sealed  BY <1>4, <1>1, CompressTyped, <1>2 DEF Recorded, KeptRound, t
<1> QED BY <1>3, <1>4

LEMMA TypeStep ==
    ASSUME TypeInv, ClaimsInv, LockstepInv, [Next]_vars
    PROVE  TypeInv'
<1>1. ASSUME UNCHANGED <<batch, transcript, running_sum, verdict, proof>> PROVE TypeInv'
    BY <1>1 DEF TypeInv, KeptRound, Elements
<1>2. CASE \/ Check \/ StartRound \/ FailRound \/ LastRound
           \/ \E item \in work : Run(item)
           \/ \E m \in ToFinish : FinishMember(m)
    BY <1>1, <1>2 DEF Check, StartRound, FailRound, LastRound, Run, FinishMember, vvars
<1>3. CASE UNCHANGED vars  BY <1>1, <1>3 DEF vars, pvars, vvars
<1>4. CASE FinishRound
  <2> DEFINE e == Recorded(TrimRoundPolynomial(Folded))
  <2>1. /\ UNCHANGED <<batch, running_sum, verdict, proof>>
        /\ transcript' = Append(transcript, e)
      BY <1>4 DEF FinishRound
  <2>2. KeptRound(e)  BY <1>4, FinishedRound, KeptRoundRecorded
  <2> HIDE DEF e
  <2>3. Elements(transcript') = Elements(transcript) \cup {e}
      BY <2>1, AppendedRange DEF LockstepInv, Recording
  <2>4. \A w \in Elements(transcript') : KeptRound(w)  BY <2>2, <2>3 DEF TypeInv
  <2>5. \A w : KeptRound(w)' <=> KeptRound(w)  BY <2>1 DEF KeptRound
  <2>6. \A w \in Elements(transcript') : KeptRound(w)'  BY <2>4, <2>5
  <2>7. running_sum' \in Field /\ (verdict' = "running" => proof' \in Seq(Seq(Field)))
      BY <2>1 DEF TypeInv
  <2> QED BY <2>1, <2>4, <2>7 DEF TypeInv, KeptRound, Elements
<1>5. CASE Finish
  <2>1. /\ UNCHANGED <<batch, transcript>> /\ batch \notin Sealed
        /\ running_sum' = ClaimedSum(batch) /\ proof' = transcript
      BY <1>5 DEF Finish, Begin, LockstepInv, Recording
  <2>2. ClaimedSum(batch) \in Field  BY ClaimedSumTyped DEF ClaimsInv, DeliveryInv
  <2>3. transcript \in Seq(Elements(transcript)) /\ Elements(transcript) \subseteq Seq(Field)
      BY <2>1 DEF LockstepInv, Recording, TypeInv, KeptRound
  <2> DEFINE E == Elements(transcript)
             S == Seq(Field)
  <2>4. transcript \in Seq(S)
    <3>1. transcript \in Seq(E) /\ E \subseteq S  BY <2>3
    <3> HIDE DEF E, S
    <3> QED BY <3>1
  <2> QED BY <2>1, <2>2, <2>4 DEF TypeInv, KeptRound, Elements
<1>6. CASE Forge
  <2>1. PICK c \in Field, p \in Proofs :
          Begin([num_vars |-> batch.max_num_vars, degree |-> batch.max_degree, claimed_sum |-> c], p, <<>>)
      BY <1>6 DEF Forge
  <2>2. running_sum' = c /\ proof' = p /\ UNCHANGED <<batch, transcript>>
      BY <1>6, <2>1 DEF Begin, Forge
  <2>3. p \in Seq(Seq(Field))  BY ProofAssumption
  <2> QED BY <2>2, <2>3 DEF TypeInv, KeptRound, Elements
<1>7. CASE Verify
  <2>1. UNCHANGED <<batch, transcript>> /\ VNext  BY <1>7 DEF Verify, pvars
  <2>2. verdict = "running" /\ proof' = proof  BY <2>1 DEF VNext, RejectRound, AcceptRound, Reduce
  <2>3. running_sum' \in Field
    <3>1. CASE RejectRound \/ Reduce  BY <3>1 DEF RejectRound, Reduce, TypeInv
    <3>2. CASE AcceptRound
      <4> DEFINE w == proof[vround + 1]
      <4>1. PICK r \in Squeeze(vtranscript') :
                oracle' = Remember(vtranscript', r) /\ running_sum' = EvaluateWithHint(w, running_sum, r)
          BY <3>2 DEF AcceptRound
      <4>2. r \in Int  BY <4>1, OracleKept, Fields DEF ClaimsInv, DeliveryInv, Shape
      <4>3. vround < Len(proof) /\ RoundError(w) = "none" /\ vround \in Nat
          BY <3>2, <2>2 DEF AcceptRound, vround
      <4>4. w \in Seq(Field)
        <5>1. proof \in Seq(Seq(Field))  BY <2>2 DEF TypeInv
        <5> DEFINE S == Seq(Field)
        <5>2. proof \in Seq(S)  BY <5>1
        <5> HIDE DEF S
        <5>3. vround + 1 \in 1 .. Len(proof)  BY <4>3, <5>2
        <5>4. w \in S  BY <5>2, <5>3, ElementOfSeq
        <5> QED BY <5>4 DEF S
      <4>5. w # <<>>  BY <4>3 DEF RoundError
      <4> HIDE DEF w
      <4>6. running_sum \in Field  BY DEF TypeInv
      <4> QED BY <4>1, <4>2, <4>4, <4>5, <4>6, HintTyped
    <3> QED BY <2>1, <3>1, <3>2 DEF VNext
  <2> QED BY <2>1, <2>2, <2>3 DEF TypeInv, KeptRound, Elements
<1> QED BY <1>2, <1>3, <1>4, <1>5, <1>6, <1>7 DEF Next

\* Every claim, sum and recorded coefficient is a field element, and no round
\* polynomial carries a superfluous zero to the wire, whatever a dishonest
\* prover sends (absorb_round, trim_round_polynomial, evaluate_with_hint).
THEOREM TypeCorrect == Spec => []TypeOK
<1>1. TypeInv /\ ClaimsInv /\ LockstepInv => TypeOK
  <2> SUFFICES ASSUME TypeInv, ClaimsInv, LockstepInv PROVE TypeOK
      OBVIOUS
  <2>1. running_claim \in Field /\ running_sum \in Field  BY DEF TypeInv, ClaimsInv, Claimed
  <2>2. ASSUME NEW i \in Members
        PROVE  member_claims[i] \in Field /\ pending_binds[i] \in {<<>>} \cup Seq(Field)
      BY InactiveTyped, OptionsAreSequences DEF ClaimsInv, DeliveryInv, Shape
  <2>3. ASSUME NEW k \in DOMAIN round_polynomials
        PROVE  KeptRound(round_polynomials[k])
      BY DEF LockstepInv, Recording, TypeInv, Elements
  <2> QED BY <2>1, <2>2, <2>3 DEF TypeOK, KeptRound
<1>2. Init => TypeInv /\ ClaimsInv /\ LockstepInv  BY TypeInit, ClaimsInit, LockstepInit
<1>3. (TypeInv /\ ClaimsInv /\ LockstepInv) /\ [Next]_vars => (TypeInv /\ ClaimsInv /\ LockstepInv)'
    BY TypeStep, ClaimsStep, LockstepStep
<1> QED BY <1>1, <1>2, <1>3, PTL DEF Spec

-----------------------------------------------------------------------------
(* The verifier's running sum *)

\* The claims of the rounds, as the recorded rounds and the challenges give them.
History(f) ==
    /\ f \in [0 .. round -> Field] /\ f[0] = ClaimedSum(batch)
    /\ \A k \in 1 .. round : f[k] = EvaluateWithHint(round_polynomials[k], f[k - 1], challenges[k])

Reckons(f) ==
    /\ History(f) /\ f[round] = running_claim
    /\ phase = "proved" => running_sum = f[vround]

Reckoned == batch \notin Sealed => \E f : Reckons(f)

LEMMA ReckonedInit == Init => Reckoned
<1> SUFFICES ASSUME Init PROVE \E f : Reckons(f)
    BY DEF Reckoned
<1> DEFINE f == [k \in 0 .. 0 |-> ClaimedSum(batch)]
<1>1. round = 0 /\ running_claim = ClaimedSum(batch) /\ phase = "check"  BY DEF Init, round
<1>2. ClaimedSum(batch) \in Field  BY DeliveryInit, ClaimedSumTyped DEF DeliveryInv
<1>3. Reckons(f)  BY <1>1, <1>2 DEF Reckons, History
<1> QED BY <1>3

LEMMA QuietReckoned ==
    ASSUME Reckoned, UNCHANGED <<batch, round_polynomials, challenges, running_claim>>,
           phase' = "proved" => phase = "proved" /\ UNCHANGED <<running_sum, vchallenges>>
    PROVE  Reckoned'
<1>1. round' = round /\ ClaimedSum(batch)' = ClaimedSum(batch)
    BY DEF round, ClaimedSum, PaddedClaim
<1>2. \A f : History(f) => History(f)'  BY <1>1 DEF History
<1>3. \A f : Reckons(f) => Reckons(f)'  BY <1>1, <1>2 DEF Reckons, vround
<1> QED BY <1>3 DEF Reckoned

LEMMA FinishReckoned ==
    ASSUME Reckoned, ClaimsInv, LockstepInv, FinishRound
    PROVE  Reckoned'
<1> DEFINE t == TrimRoundPolynomial(Folded)
           L == Len(t)
<1>0. batch' = batch /\ phase' = "round"  BY DEF FinishRound
<1> SUFFICES ASSUME batch \notin Sealed PROVE \E g : Reckons(g)'
    BY <1>0 DEF Reckoned
<1>1. PICK r \in Field :
        /\ RoundDone /\ batch.max_degree >= 1
        /\ RoundSum = running_claim
        /\ running_claim' = Evaluate(t, r) /\ challenges' = Append(challenges, r)
        /\ round_polynomials' = Append(round_polynomials, Recorded(t))
    BY FinishedRound
<1>2. PICK f : Reckons(f)  BY DEF Reckoned
<1>3. /\ t \in Seq(Field) /\ L \in 2 .. batch.max_degree + 1 /\ L \in Nat /\ t \in [1 .. L -> Int]
    BY <1>1, RoundMessage
<1>4. Evaluate(t, r) = EvaluateWithHint(Recorded(t), running_claim, r)
  <2>1. Recorded(t) = Compress(t)  BY DEF Recorded
  <2>2. running_claim = (Evaluate(t, 0) + Evaluate(t, 1)) % P  BY <1>1 DEF RoundSum
  <2>3. L - 2 \in Nat /\ Len(t) = (L - 2) + 2 /\ r \in Int  BY <1>3, Fields
  <2> HIDE DEF t, L
  <2>4. EvaluateWithHint(Compress(t), (Evaluate(t, 0) + Evaluate(t, 1)) % P, r) = Evaluate(t, r)
      BY <1>3, <2>3, HintRecovers
  <2> QED BY <2>1, <2>2, <2>4
<1>5. Evaluate(t, r) \in Field  BY <1>3, Fields, EvaluateInField
<1> HIDE DEF t
<1>6. /\ challenges \in Seq(Field) /\ round \in Nat /\ round' = round + 1
      /\ challenges'[round + 1] = r /\ \A k \in 1 .. round : challenges'[k] = challenges[k]
    BY <1>1, AppendProperties DEF ClaimsInv, DeliveryInv, Shape, round
<1>7. /\ round_polynomials'[round + 1] = Recorded(t)
      /\ \A k \in 1 .. round : round_polynomials'[k] = round_polynomials[k]
  <2> DEFINE S == Elements(round_polynomials) \cup {Recorded(t)}
  <2>1. round_polynomials \in Seq(Elements(round_polynomials)) /\ Len(round_polynomials) = round
      BY DEF LockstepInv, Recording
  <2>2. round_polynomials \in Seq(S) /\ Recorded(t) \in S
    <3>1. round_polynomials \in Seq(Elements(round_polynomials)) /\ Elements(round_polynomials) \subseteq S
        BY <2>1
    <3> HIDE DEF S
    <3> QED BY <3>1 DEF S
  <2> HIDE DEF S
  <2> QED BY <1>1, <2>1, <2>2, AppendProperties
<1> SUFFICES ASSUME NEW v \in Field, v = running_claim' PROVE \E g : Reckons(g)'
    BY <1>1, <1>5
<1>8. /\ f \in [0 .. round -> Field] /\ f[0] = ClaimedSum(batch) /\ f[round] = running_claim
      /\ \A k \in 1 .. round : f[k] = EvaluateWithHint(round_polynomials[k], f[k - 1], challenges[k])
    BY <1>2 DEF Reckons, History
<1>14. PICK w : w = [k \in 0 .. round + 1 |-> IF k <= round THEN f[k] ELSE v]  OBVIOUS
<1>9. /\ w \in [0 .. round + 1 -> Field] /\ w[0] = f[0] /\ w[round + 1] = running_claim'
      /\ \A k \in 0 .. round : w[k] = f[k]
    BY <1>5, <1>6, <1>8, <1>14
<1>10. ASSUME NEW k \in 1 .. round + 1
       PROVE  w[k] = EvaluateWithHint(round_polynomials'[k], w[k - 1], challenges'[k])
  <2>1. CASE k = round + 1
    <3>1. k - 1 = round /\ round \in 0 .. round  BY <1>6, <2>1
    <3>2. w[k - 1] = running_claim  BY <1>8, <1>9, <3>1
    <3> QED BY <1>1, <1>4, <1>6, <1>7, <1>9, <2>1, <3>2
  <2>2. CASE k \in 1 .. round  BY <1>6, <2>2, <1>7, <1>8, <1>9
  <2> QED BY <1>6, <2>1, <2>2
<1>11. ClaimedSum(batch)' = ClaimedSum(batch)  BY <1>0 DEF ClaimedSum, PaddedClaim
<1>12. History(w)'  BY <1>6, <1>8, <1>9, <1>10, <1>11 DEF History
<1>13. Reckons(w)'  BY <1>0, <1>6, <1>9, <1>12 DEF Reckons
<1> QED BY <1>13

LEMMA ReckonedStep ==
    ASSUME Reckoned, ClaimsInv, LockstepInv, LockstepInv', [Next]_vars
    PROVE  Reckoned'
<1>1. CASE \/ Forge \/ Check \/ StartRound \/ FailRound \/ LastRound
           \/ \E item \in work : Run(item)
           \/ \E m \in ToFinish : FinishMember(m)
  <2>1. UNCHANGED <<batch, round_polynomials, challenges, running_claim>>
      BY <1>1 DEF Forge, Check, StartRound, FailRound, LastRound, Run, FinishMember
  <2>2. phase' # "proved"
    <3>1. CASE Check  BY MemberErrors, <3>1 DEF CheckError, Check
    <3>2. CASE FailRound  BY <3>2 DEF FailRound, RoundErrors, ItemErrors
    <3> QED BY <1>1, <3>1, <3>2 DEF Forge, StartRound, LastRound, Run, FinishMember
  <2> QED BY <2>1, <2>2, QuietReckoned
<1>2. CASE FinishRound  BY <1>2, FinishReckoned
<1>3. CASE Finish
  <2>1. /\ UNCHANGED <<batch, round_polynomials, challenges, running_claim>>
        /\ running_sum' = ClaimedSum(batch) /\ vchallenges' = <<>>
      BY <1>3 DEF Finish, Begin
  <2>2. round' = round /\ ClaimedSum(batch)' = ClaimedSum(batch) /\ vround' = 0
      BY <2>1 DEF round, ClaimedSum, PaddedClaim, vround
  <2>3. \A f : History(f) => History(f)' /\ f[0] = ClaimedSum(batch)  BY <2>1, <2>2 DEF History
  <2>4. \A f : Reckons(f) => Reckons(f)'  BY <2>1, <2>2, <2>3 DEF Reckons
  <2> QED BY <2>1, <2>4 DEF Reckoned
<1>4. CASE Verify
  <2>1. UNCHANGED <<batch, round_polynomials, challenges, running_claim, phase>> /\ VNext
      BY <1>4 DEF Verify, pvars
  <2>2. CASE RejectRound \/ Reduce \/ phase # "proved"
      BY <2>1, <2>2, QuietReckoned DEF RejectRound, Reduce
  <2>3. CASE AcceptRound /\ phase = "proved"
    <3>1. PICK r \in Squeeze(vtranscript') :
              /\ running_sum' = EvaluateWithHint(proof[vround + 1], running_sum, r)
              /\ vchallenges' = Append(vchallenges, r)
              /\ oracle' = Remember(vtranscript', r)
        BY <2>3 DEF AcceptRound
    <3>2. r \in Field  BY <3>1, OracleKept DEF ClaimsInv, DeliveryInv, Shape
    <3>3. /\ proof = round_polynomials /\ vchallenges \in Seq(Field)
          /\ vround' <= round' /\ vchallenges' = SubSeq(challenges', 1, vround')
        BY <2>1, <2>3 DEF LockstepInv, Following, Recording
    <3>4. vround \in Nat /\ vround' = vround + 1 /\ vchallenges'[vround + 1] = r
        BY <3>1, <3>2, <3>3, AppendProperties DEF vround
    <3>5. round' = round /\ round \in Nat /\ challenges \in Seq(Field) /\ Len(challenges) = round
        BY <2>1 DEF round, ClaimsInv, DeliveryInv, Shape
    <3>6. r = challenges[vround + 1] /\ vround + 1 \in 1 .. round
      <4> DEFINE j == vround + 1
      <4>1. j \in 1 .. round  BY <3>3, <3>4, <3>5
      <4> HIDE DEF j
      <4>2. \A k \in 1 .. j : challenges[k] \in Field  BY <3>5, <4>1, ElementOfSeq
      <4>3. j - 1 + 1 = j /\ 1 + j - 1 = j /\ j \in 1 .. j  BY <3>5, <4>1
      <4>4. SubSeq(challenges, 1, j)[j] = challenges[j]  BY <3>5, <4>1, <4>2, SubSeqProperties, <4>3
      <4>5. vchallenges' = SubSeq(challenges, 1, j)  BY <2>1, <3>3, <3>4 DEF j
      <4> QED BY <3>4, <4>1, <4>4, <4>5 DEF j
    <3>7. ClaimedSum(batch)' = ClaimedSum(batch)  BY <2>1 DEF ClaimedSum, PaddedClaim
    <3>8. ASSUME NEW f, Reckons(f) PROVE Reckons(f)'
      <4>1. History(f)' /\ f[round'] = running_claim'
          BY <2>1, <3>5, <3>7, <3>8 DEF Reckons, History
      <4>2. running_sum = f[vround]  BY <2>3, <3>8 DEF Reckons
      <4>5. \A k \in 1 .. round : f[k] = EvaluateWithHint(round_polynomials[k], f[k - 1], challenges[k])
          BY <3>8 DEF Reckons, History
      <4>3. PICK k : k = vround + 1  OBVIOUS
      <4>4. f[k] = EvaluateWithHint(round_polynomials[k], f[k - 1], challenges[k])
          BY <3>6, <4>3, <4>5
      <4>6. k - 1 = vround  BY <3>4, <4>3
      <4>7. running_sum' = f[vround']  BY <3>1, <3>3, <3>4, <3>6, <4>2, <4>3, <4>4, <4>6
      <4> QED BY <4>1, <4>7 DEF Reckons
    <3> QED BY <2>1, <3>8 DEF Reckoned
  <2> QED BY <2>1, <2>2, <2>3 DEF VNext
<1>5. CASE UNCHANGED vars  BY <1>5, QuietReckoned DEF vars, pvars, vvars
<1> QED BY <1>1, <1>2, <1>3, <1>4, <1>5 DEF Next

\* The verifier of a reduced proof holds the prover's running claim.
LEMMA ReducedSum ==
    ASSUME Reckoned, LockstepInv, phase = "proved", verdict = "reduced"
    PROVE  running_sum = running_claim
<1>1. batch \notin Sealed /\ vround = round  BY DEF LockstepInv, Following
<1> QED BY <1>1 DEF Reckoned, Reckons

-----------------------------------------------------------------------------
(* The members' values *)

LEMMA EqualTrans ==
    ASSUME NEW a, NEW b, NEW c, Equal(a, b), Equal(b, c)
    PROVE  Equal(a, c)
BY DEF Equal

\* HalfTo(m) is a half to the power of m.
HalfTo(m) == Product([k \in 1 .. m |-> TwoInv])

LEMMA HalfToNext ==
    ASSUME NEW m \in Nat
    PROVE  /\ HalfTo(0) = 1 /\ HalfTo(m) \in Field /\ HalfTo(m) \in Int
           /\ HalfTo(m + 1) = (HalfTo(m) * TwoInv) % P
<1> DEFINE s == [k \in 1 .. m |-> TwoInv]
           u == [k \in 1 .. m + 1 |-> TwoInv]
           z == [k \in 1 .. 0 |-> TwoInv]
<1>1. TwoInv \in Int  BY HalfInverse
<1>2. s \in [1 .. m -> Int] /\ u \in [1 .. m + 1 -> Int] /\ z \in [1 .. 0 -> Int]  BY <1>1
<1>3. \A k \in 1 .. m + 1 : u[k] = TwoInv  OBVIOUS
<1>4. \A k \in 1 .. m : s[k] = TwoInv  OBVIOUS
<1> HIDE DEF s, u, z
<1>5. /\ Products(s, m) \in [0 .. m -> Field] /\ Products(s, m)[0] = 1
      /\ \A k \in 1 .. m : Products(s, m)[k] = (Products(s, m)[k - 1] * s[k]) % P
      /\ Product(s) = Products(s, m)[m]
    BY <1>2, ProductSteps
<1> DEFINE q == Products(s, m)
           T == [k \in 0 .. m + 1 |-> IF k <= m THEN q[k] ELSE (q[m] * TwoInv) % P]
<1>6. T[0] = 1 /\ T[m + 1] = (q[m] * TwoInv) % P /\ \A k \in 0 .. m : T[k] = q[k]  BY <1>5
<1> HIDE DEF T
<1>7. ASSUME NEW k \in 1 .. m + 1 PROVE T[k] = (T[k - 1] * u[k]) % P
  <2>1. CASE k = m + 1  BY <2>1, <1>3, <1>6
  <2>2. CASE k \in 1 .. m  BY <2>2, <1>4, <1>5, <1>3, <1>6
  <2> QED BY <2>1, <2>2
<1>8. Product(u) = T[m + 1]
  <2>1. m + 1 \in Nat /\ u \in [1 .. m + 1 -> Int] /\ T[0] = 1
        /\ \A k \in 1 .. m + 1 : T[k] = (T[k - 1] * u[k]) % P
      BY <1>2, <1>6, <1>7
  <2> QED BY ONLY <2>1, ProductBySteps
<1>9. Product(s) \in Field /\ Product(s) \in Int  BY <1>2, ProductInField
<1>10. Product(z) = 1  BY <1>2, ProductSteps
<1> QED BY <1>5, <1>6, <1>8, <1>9, <1>10 DEF HalfTo, s, u, z

\* An active member's message at 0 and at 1.
LEMMA SharesAdd ==
    ASSUME NEW c \in Int, NEW a \in Int, NEW e \in Int, NEW f \in Int, NEW s \in Int, NEW m \in Int,
           (e + f) % P = s % P, Equal(m, a * s)
    PROVE  Equal(c * ((a * e) % P) + c * ((a * f) % P), c * m)
<1> DEFINE u == a * e
           v == a * f
<1>1. u \in Int /\ v \in Int /\ a * s \in Int /\ a * (e + f) \in Int  OBVIOUS
<1>2. u + v = a * (e + f)  OBVIOUS
<1>3. Equal(e + f, s)  BY DEF Equal
<1>4. Equal(a, a)  BY DEF Equal
<1>5. Equal(a * (e + f), a * s)  BY <1>3, <1>4, EqualProduct
<1> HIDE DEF u, v
<1>6. Equal(u % P, u) /\ Equal(v % P, v) /\ u % P \in Int /\ v % P \in Int
    BY <1>1, EqualReduced, Division, Fields
<1>7. Equal((u % P) + (v % P), u + v)  BY <1>1, <1>6, EqualSum
<1>8. Equal((u % P) + (v % P), m)  BY <1>2, <1>5, <1>7 DEF Equal
<1>9. Equal(c * ((u % P) + (v % P)), c * m)
  <2>1. (u % P) + (v % P) \in Int /\ Equal(c, c)  BY <1>6 DEF Equal
  <2> QED BY <1>8, <2>1, EqualProduct
<1>10. c * ((u % P) + (v % P)) = c * (u % P) + c * (v % P)
  <2> DEFINE x == u % P
             y == v % P
  <2>1. x \in Int /\ y \in Int  BY <1>6
  <2> HIDE DEF x, y
  <2>2. c * (x + y) = c * x + c * y  BY <2>1
  <2> QED BY <2>2 DEF x, y
<1> QED BY <1>9, <1>10, Zenon DEF u, v

\* A halved claim, twice.
LEMMA HalvedTwice ==
    ASSUME NEW m \in Int
    PROVE  Equal(2 * ((m * TwoInv) % P), m) /\ (m * TwoInv) % P \in Int
<1> DEFINE h == m * TwoInv
<1>1. TwoInv \in Int /\ Equal(2 * TwoInv, 1) /\ 2 * TwoInv \in Int  BY HalfInverse
<1>2. h \in Int  BY <1>1
<1>3. 2 * h = m * (2 * TwoInv)  BY <1>1
<1>4. Equal(m * (2 * TwoInv), m * 1)  BY <1>1, EqualProduct DEF Equal
<1> HIDE DEF h
<1>5. Equal(h % P, h) /\ h % P \in Int  BY <1>2, EqualReduced, Division, Fields
<1>6. Equal(2 * (h % P), 2 * h)  BY <1>2, <1>5, EqualProduct DEF Equal
<1>7. m * 1 = m  OBVIOUS
<1>8. Equal(2 * (h % P), m)  BY <1>3, <1>4, <1>6, <1>7 DEF Equal
<1> QED BY <1>5, <1>8 DEF h

LEMMA ScaledValue ==
    ASSUME NEW a \in Int, NEW b \in Int, NEW h \in Int, NEW s \in Int, NEW m \in Int,
           Equal(m, a * b * s)
    PROVE  Equal((m * h) % P, a * ((b * h) % P) * s)
<1> DEFINE x == a * b * s
           y == b * h
<1>1. x \in Int /\ y \in Int /\ a * b \in Int /\ a * y \in Int  OBVIOUS
<1>2. Equal(m * h, x * h)
  <2>1. Equal(h, h)  BY DEF Equal
  <2> HIDE DEF x
  <2> QED BY <1>1, <2>1, EqualProduct DEF x
<1>3. x * h = (a * y) * s  OBVIOUS
<1>4. Equal(a * (y % P) * s, (a * y) * s)
  <2> HIDE DEF y
  <2>1. Equal(y % P, y) /\ y % P \in Int  BY <1>1, EqualReduced, Division, Fields
  <2>2. Equal(a * (y % P), a * y)
    <3>1. Equal(a, a)  BY DEF Equal
    <3> QED BY <1>1, <2>1, <3>1, EqualProduct
  <2>3. a * (y % P) \in Int /\ Equal(s, s)  BY <2>1 DEF Equal
  <2> QED BY <1>1, <2>2, <2>3, EqualProduct
<1>5. m * h \in Int  OBVIOUS
<1>6. Equal((m * h) % P, m * h)  BY <1>5, EqualReduced
<1> QED BY <1>2, <1>3, <1>4, <1>6 DEF Equal

\* A member whose tables are fs, with what it holds still to be bound: `left'
\* variables remain, and its claim m is their sum, padded, and halved once for
\* each of the idle rounds.
Valued(fs, held, left, m, pad, idle) ==
    /\ Len(fs[1]) = IF held = <<>> THEN TwoTo(left) ELSE TwoTo(left + 1)
    /\ Equal(m, pad * HalfTo(idle) * Sum(IF held = <<>> THEN fs ELSE Bind(fs, held[1])))

LEMMA SumTyped ==
    ASSUME NEW fs, IsTables(fs), NEW r \in Int
    PROVE  /\ Sum(fs) \in Field /\ Sum(fs) \in Int /\ Sum(Bind(fs, r)) \in Field /\ Sum(Bind(fs, r)) \in Int
           /\ IsTables(Bind(fs, r))
<1>1. Tables(fs, Len(fs), Len(fs[1]))  BY DEF IsTables
<1>2. Tables(Bind(fs, r), Len(fs), Len(fs[1]) \div 2)  BY <1>1, BindTyped
<1>3. Sum(fs) \in Field /\ Sum(Bind(fs, r)) \in Field  BY <1>1, <1>2, SumOfProducts
<1> QED BY <1>2, <1>3, TablesAre, Fields

LEMMA ValueBound ==
    ASSUME NEW fs, IsTables(fs), NEW r \in Int, NEW left \in Nat, NEW m, NEW pad, NEW idle,
           Valued(fs, <<r>>, left, m, pad, idle)
    PROVE  Valued(Bind(fs, r), <<>>, left, m, pad, idle)
<1> DEFINE n == Len(fs)
           L == Len(fs[1])
<1>1. Tables(fs, n, L)  BY DEF IsTables
<1>2. Tables(Bind(fs, r), n, L \div 2)  BY <1>1, BindTyped
<1>3. Len(Bind(fs, r)[1]) = L \div 2
  <2> DEFINE b == Bind(fs, r)
             l == L \div 2
  <2>1. Tables(b, n, l)  BY <1>2
  <2> HIDE DEF b, l
  <2>2. 1 \in 1 .. n /\ \A k \in 1 .. n : Len(b[k]) = l  BY <2>1, TableLengths
  <2> QED BY <2>2 DEF b, l
<1>4. L = TwoTo(left + 1) /\ Equal(m, pad * HalfTo(idle) * Sum(Bind(fs, r)))  BY DEF Valued
<1>5. TwoTo(left) \in Nat /\ TwoTo(left + 1) = TwoTo(left) + TwoTo(left)  BY TwoToNext
<1> HIDE DEF L
<1>6. L \div 2 = TwoTo(left)  BY <1>4, <1>5
<1> QED BY <1>3, <1>4, <1>6 DEF Valued

LEMMA ValueHalved ==
    ASSUME NEW fs, IsTables(fs), NEW held \in Option, NEW left, NEW m \in Int, NEW pad \in Int,
           NEW idle \in Nat, Valued(fs, held, left, m, pad, idle)
    PROVE  Valued(fs, held, left, (m * TwoInv) % P, pad, idle + 1)
<1> DEFINE s == Sum(IF held = <<>> THEN fs ELSE Bind(fs, held[1]))
           b == HalfTo(idle)
<1>1. s \in Int
  <2>1. held = <<>> \/ \E r \in Field : held = <<r>>  BY DEF Option
  <2>2. CASE held = <<>>  BY SumTyped, <2>2
  <2>3. ASSUME NEW r \in Field, held = <<r>> PROVE s \in Int  BY <2>3, Fields, SumTyped
  <2> QED BY <2>1, <2>2, <2>3
<1>2. b \in Int /\ HalfTo(idle + 1) = (b * TwoInv) % P /\ TwoInv \in Int  BY HalfToNext, HalfInverse
<1>3. Equal(m, pad * b * s)  BY DEF Valued
<1> HIDE DEF s, b
<1>4. Equal((m * TwoInv) % P, pad * ((b * TwoInv) % P) * s)  BY <1>1, <1>2, <1>3, ScaledValue
<1>5. Equal((m * TwoInv) % P, pad * HalfTo(idle + 1) * s)  BY <1>2, <1>4
<1> QED BY <1>5 DEF Valued, s

LEMMA ValueRound ==
    ASSUME NEW fs, IsTables(fs), NEW left \in Nat, NEW m \in Int, NEW pad \in Int,
           NEW idle \in Nat, Valued(fs, <<>>, left + 1, m, pad, idle),
           NEW w, w = Scale(pad * HalfTo(idle), RoundPoly(fs))
    PROVE  /\ \A c \in Int : Equal(c * Evaluate(w, 0) + c * Evaluate(w, 1), c * m)
           /\ \A r \in Field : Valued(fs, <<r>>, left, Evaluate(w, r), pad, idle)
<1> DEFINE n == Len(fs)
           L == Len(fs[1])
           h == TwoTo(left)
           a == pad * HalfTo(idle)
           p == RoundPoly(fs)
           e(x) == Evaluate(RoundPoly(fs), x)
<1>1. Tables(fs, n, L) /\ n + 1 \in Nat  BY DEF IsTables, Tables
<1>2. L = TwoTo(left + 1) /\ Equal(m, a * Sum(fs))  BY DEF Valued
<1>3. h \in Nat /\ TwoTo(left + 1) = h + h  BY TwoToNext
<1>4. Tables(fs, n, h + h)  BY <1>1, <1>2, <1>3
<1>5. HalfTo(idle) \in Int  BY HalfToNext
<1>6. a \in Int  BY <1>5
<1>7. p \in [1 .. n + 1 -> Int]  BY <1>1, EvaluateRoundPoly
<1>8. Sum(fs) \in Field /\ Sum(fs) \in Int  BY SumTyped
<1>9. (e(0) + e(1)) % P = Sum(fs)  BY <1>3, <1>4, RoundPolySums
<1>10. \A r \in Int : e(r) = Sum(Bind(fs, r))  BY <1>1, RoundPolyBinds
<1>11. \A x \in Int : e(x) \in Int  BY <1>1, <1>7, EvaluateInField
<1> HIDE DEF a, e, p, n, L, h
<1>12. \A x \in Int : Evaluate(w, x) = (a * e(x)) % P  BY <1>1, <1>6, <1>7, ScaleTyped DEF a, p, e
<1>13. ASSUME NEW c \in Int PROVE Equal(c * Evaluate(w, 0) + c * Evaluate(w, 1), c * m)
  <2>1. 0 \in Int /\ 1 \in Int  OBVIOUS
  <2>2. e(0) \in Int /\ e(1) \in Int  BY <1>11, <2>1
  <2>3. (e(0) + e(1)) % P = Sum(fs) % P  BY <1>8, <1>9, InField
  <2>4. Equal(c * ((a * e(0)) % P) + c * ((a * e(1)) % P), c * m)
      BY <1>2, <1>6, <1>8, <2>2, <2>3, SharesAdd
  <2>5. Evaluate(w, 0) = (a * e(0)) % P /\ Evaluate(w, 1) = (a * e(1)) % P  BY <1>12, <2>1
  <2> QED BY <2>4, <2>5, Zenon
<1>14. ASSUME NEW r \in Field PROVE Valued(fs, <<r>>, left, Evaluate(w, r), pad, idle)
  <2>1. r \in Int  BY Fields
  <2>2. Evaluate(w, r) = (a * Sum(Bind(fs, r))) % P  BY <1>10, <1>12, <2>1
  <2>3. Sum(Bind(fs, r)) \in Int  BY <2>1, SumTyped
  <2>4. a * Sum(Bind(fs, r)) \in Int  BY <1>6, <2>3
  <2>5. Equal(Evaluate(w, r), a * Sum(Bind(fs, r)))  BY <2>2, <2>4, EqualReduced
  <2>6. Equal(Evaluate(w, r), pad * HalfTo(idle) * Sum(Bind(fs, r)))  BY <2>5 DEF a
  <2>7. <<r>> # <<>> /\ <<r>>[1] = r  OBVIOUS
  <2> QED BY <1>2, <2>6, <2>7 DEF Valued, L
<1> QED BY <1>13, <1>14

-----------------------------------------------------------------------------
PadOf(i) == MulPow2(1, batch.max_num_vars - Described(i).rounds)

\* The rounds of its window member i has had, and those it has sat out.
Had(k, o, n) == IF k <= o THEN 0 ELSE IF k <= o + n THEN k - o ELSE n
Done(i) == Had(round, Described(i).offset, Described(i).rounds)
Idle(i) == IF phase = "schedule" /\ ~Active(i) THEN round - Done(i) + 1 ELSE round - Done(i)

\* The challenge on its way to member i.
Held(i) == IF pending_binds[i] # <<>> THEN pending_binds[i] ELSE InItem(i)

MemberValue(i) ==
    Valued(tables[i], Held(i), Described(i).rounds - Done(i), member_claims[i], PadOf(i), Idle(i))

Values == Underway => \A i \in Members : MemberValue(i)

Fresh ==
    phase = "check" =>
        /\ tables = batch.kernels
        /\ \A i \in Members : pending_binds[i] = <<>> /\ member_claims[i] = PaddedClaim(batch, i)

\* In a round the running claim is what it was before the inactive claims were halved.
Weight(i) == Described(i).coefficient * (IF Active(i) THEN member_claims[i] ELSE 2 * member_claims[i])
Balanced ==
    phase = "schedule" => running_claim = Total([i \in 1 .. Len(batch.described) |-> Weight(i)])

MessageOf(i, fs) == Scale(PadOf(i) * HalfTo(Described(i).offset), RoundPoly(fs))
Sent ==
    phase = "schedule" =>
        \A k \in DOMAIN ran : ran[k].message = MessageOf(ran[k].index, tables[ran[k].index])

HonestInv == Values /\ Fresh /\ Balanced /\ Sent /\ phase # "RoundCheckFailed"

-----------------------------------------------------------------------------
LEMMA Seats ==
    ASSUME Shape, NEW i \in Members
    PROVE  /\ Done(i) \in Nat /\ Described(i).rounds - Done(i) \in Nat /\ Idle(i) \in Nat
           /\ Described(i).offset \in Nat /\ Described(i).rounds \in Nat /\ round \in Nat
           /\ Active(i) => Described(i).rounds - Done(i) - 1 \in Nat /\ Idle(i) = Described(i).offset
           /\ PadOf(i) \in Int
<1>1. Described(i).offset \in Nat /\ Described(i).rounds \in Nat /\ round \in Nat /\ batch.max_num_vars \in Nat
    BY BatchFields
<1> DEFINE o == Described(i).offset
           n == Described(i).rounds
           d == Done(i)
<1>2. d = IF round <= o THEN 0 ELSE IF round <= o + n THEN round - o ELSE n  BY DEF Done, Had
<1>3. Active(i) <=> round >= o /\ round < o + n  BY DEF Active
<1>4. Idle(i) = IF phase = "schedule" /\ ~Active(i) THEN round - d + 1 ELSE round - d  BY DEF Idle
<1>5. PadOf(i) \in Int  BY <1>1, TwoToTyped, Division, Fields DEF PadOf, MulPow2
<1> HIDE DEF o, n, d
<1>6. o \in Nat /\ n \in Nat /\ round \in Nat  BY <1>1 DEF o, n
<1>7. d \in Nat /\ n - d \in Nat /\ round - d \in Nat  BY <1>2, <1>6
<1>8. Active(i) => n - d - 1 \in Nat /\ round - d = o  BY <1>2, <1>3, <1>6
<1>9. Idle(i) \in Nat /\ (Active(i) => Idle(i) = o)  BY <1>4, <1>7, <1>8
<1> QED BY <1>5, <1>6, <1>7, <1>8, <1>9 DEF o, n, d

LEMMA TablesOf ==
    ASSUME ClaimsInv, Underway, NEW i \in Members
    PROVE  i \in DOMAIN tables /\ IsTables(tables[i]) /\ member_claims[i] \in Int /\ Held(i) \in Option
<1>1. Len(batch.kernels) = Len(batch.described) /\ Members = 1 .. Len(batch.described)
    BY BatchFields DEF ClaimsInv, Checked, DeliveryInv, Underway
<1>2. i \in DOMAIN tables /\ IsTables(tables[i])  BY <1>1 DEF ClaimsInv, Bound
<1>3. Held(i) \in Option
  <2>1. pending_binds[i] \in Option /\ <<>> \in Option  BY DEF ClaimsInv, DeliveryInv, Shape, Option
  <2>2. InItem(i) \in Option  BY <2>1 DEF ClaimsInv, DeliveryInv, Items, InItem, BindOf
  <2> QED BY <2>1, <2>2 DEF Held
<1> QED BY <1>2, <1>3, InactiveTyped

\* A step that leaves the members alone.
LEMMA QuietHonest ==
    ASSUME HonestInv, UNCHANGED <<batch, tables, member_claims, pending_binds, work, challenges, ran, running_claim>>,
           phase' = phase \/ phase' \notin {"check", "RoundCheckFailed"},
           phase' = "schedule" => phase = "schedule",
           Underway' => phase' = phase \/ (Underway /\ phase # "schedule")
    PROVE  HonestInv'
<1>1. Members' = Members /\ \A i \in Members : /\ (Active(i)' <=> Active(i)) /\ Done(i)' = Done(i)
                                               /\ Held(i)' = Held(i) /\ PadOf(i)' = PadOf(i)
                                               /\ Weight(i)' = Weight(i) /\ Described(i)' = Described(i)
    BY DEF Members, Active, Done, Held, PadOf, Weight, Described, round, InItem
<1>2. Values'
  <2> SUFFICES ASSUME Underway', NEW i \in Members PROVE MemberValue(i)'
      BY <1>1 DEF Values
  <2>1. Idle(i)' = Idle(i)  BY <1>1 DEF Idle, round
  <2>2. MemberValue(i)  BY DEF HonestInv, Values, Underway
  <2> QED BY <1>1, <2>1, <2>2 DEF MemberValue
<1>3. Fresh'  BY <1>1 DEF HonestInv, Fresh, PaddedClaim
<1>4. Balanced'  BY <1>1 DEF Weight, Active, Described, round, HonestInv, Balanced
<1>5. Sent'  BY DEF MessageOf, PadOf, Described, HonestInv, Sent
<1> QED BY <1>2, <1>3, <1>4, <1>5 DEF HonestInv

LEMMA PadScales ==
    ASSUME NEW s \in Int, NEW t \in Int
    PROVE  Equal((s * t) % P, ((1 * t) % P) * 1 * s)
<1>1. 1 * t = t /\ s * t \in Int  OBVIOUS
<1>2. Equal((s * t) % P, s * t)  BY <1>1, EqualReduced
<1>3. Equal(t % P, t) /\ t % P \in Int /\ Equal(s, s)  BY EqualReduced, Division, Fields DEF Equal
<1>4. Equal((t % P) * s, t * s)  BY <1>3, EqualProduct
<1>5. t * s = s * t  OBVIOUS
<1> DEFINE u == t % P
<1>6. u * 1 * s = u * s
  <2>1. u \in Int  BY <1>3
  <2> HIDE DEF u
  <2> QED BY <2>1
<1>7. Equal((s * t) % P, u * s)  BY <1>2, <1>4, <1>5 DEF Equal
<1> QED BY <1>1, <1>6, <1>7

\* The checks leave each member with a claim that is its sum.
LEMMA CheckHonest ==
    ASSUME HonestInv, ClaimsInv, ClaimsInv', LockstepInv, Check
    PROVE  HonestInv'
<1>1. /\ phase = "check" /\ batch \notin Forged
      /\ (phase' = "round" /\ CheckError = "none") \/ (phase' = CheckError /\ CheckError # "none")
      /\ UNCHANGED <<batch, tables, member_claims, pending_binds, work, challenges>>
    BY DEF Check
<1>2. CheckError \in {"BatchMemberCountMismatch", "BatchMemberRoundsMismatch",
                      "BatchMemberWindowOutOfRange", "ZeroBatchDegree", "none"}
    BY MemberErrors DEF CheckError
<1>3. Fresh' /\ Balanced' /\ Sent' /\ phase' # "RoundCheckFailed"
    BY <1>1, <1>2 DEF Fresh, Balanced, Sent
<1>4. Values'
  <2> SUFFICES ASSUME Underway', NEW i \in Members PROVE MemberValue(i)'
      BY <1>1 DEF Values, Members
  <2>1. phase' = "round" /\ CheckError = "none"  BY <1>1, <1>2 DEF Underway
  <2>2. /\ Len(batch.kernels) = Len(batch.described) /\ MemberError(i) = "none"
        /\ Shape /\ Members = 1 .. Len(batch.described)
      BY <2>1, CheckPasses, BatchFields DEF ClaimsInv, DeliveryInv
  <2> DEFINE fs == batch.kernels[i]
  <2>3. Vars(fs) = Described(i).rounds  BY <2>2 DEF MemberError
  <2>4. Len(fs[1]) = TwoTo(Described(i).rounds) /\ IsTables(fs)  BY <2>2, <2>3, KernelTables
  <2>5. Described(i).input_claim = Sum(fs)
      BY <1>1, <2>2, KernelAssumption, LenProperties, HonestAssumption DEF Shape, Members, Described
  <2>6. tables[i] = fs /\ pending_binds[i] = <<>> /\ member_claims[i] = PaddedClaim(batch, i)
      BY <1>1 DEF HonestInv, Fresh
  <2> HIDE DEF fs
  <2>7. round = 0 /\ Described(i).offset \in Nat /\ Described(i).rounds \in Nat
      BY <1>1, <2>2, Seats DEF LockstepInv, Paced
  <2>8. Done(i) = 0 /\ Described(i).rounds - 0 = Described(i).rounds  BY <2>7 DEF Done, Had
  <2>9. Held(i) = <<>>  BY <1>1, <2>6 DEF ClaimsInv, DeliveryInv, Items, Held, InItem, BindOf
  <2>10. Sum(fs) \in Int  BY <2>4, SumTyped
  <2> DEFINE t == TwoTo(batch.max_num_vars - Described(i).rounds)
  <2>11. t \in Int
    <3>1. batch.max_num_vars - Described(i).rounds \in Int  BY <2>2, <2>7, BatchFields
    <3> QED BY <3>1, TwoToTyped
  <2>12. PaddedClaim(batch, i) = (Sum(fs) * t) % P /\ PadOf(i) = (1 * t) % P
      BY <2>5 DEF PaddedClaim, PadOf, MulPow2, Described
  <2> HIDE DEF t
  <2>13. HalfTo(0) = 1  BY HalfToNext
  <2>14. Equal(member_claims[i], PadOf(i) * HalfTo(0) * Sum(fs))
      BY <2>6, <2>10, <2>11, <2>12, <2>13, PadScales
  <2>15. Valued(fs, <<>>, Described(i).rounds, member_claims[i], PadOf(i), 0)
      BY <2>4, <2>14 DEF Valued
  <2>16. /\ tables'[i] = fs /\ Held(i)' = <<>> /\ Described(i)' = Described(i) /\ Done(i)' = 0
         /\ member_claims'[i] = member_claims[i] /\ PadOf(i)' = PadOf(i)
      BY <1>1, <2>6, <2>8, <2>9 DEF Held, InItem, Described, Done, round, PadOf
  <2>17. Idle(i)' = 0  BY <1>1, <2>1, <2>7, <2>16 DEF Idle, round
  <2> QED BY <2>8, <2>15, <2>16, <2>17 DEF MemberValue
<1> QED BY <1>3, <1>4 DEF HonestInv

LEMMA StartHonest ==
    ASSUME HonestInv, ClaimsInv, StartRound
    PROVE  HonestInv'
<1>1. /\ phase = "round" /\ phase' = "schedule" /\ ran' = <<>> /\ work = {}
      /\ member_claims' = [i \in Members |->
             IF Active(i) THEN member_claims[i] ELSE (member_claims[i] * TwoInv) % P]
      /\ work' = {Item(i) : i \in {j \in Members : Active(j)}}
      /\ pending_binds' = [i \in Members |-> Taken(i)]
      /\ UNCHANGED <<batch, tables, running_claim, challenges>>
    BY DEF StartRound, ClaimsInv, DeliveryInv, Items
<1>2. Members' = Members /\ \A i : /\ (Active(i)' <=> Active(i)) /\ Described(i)' = Described(i)
                                   /\ Done(i)' = Done(i) /\ PadOf(i)' = PadOf(i)
    BY <1>1 DEF Members, Active, Described, round, Done, PadOf
<1>3. ASSUME NEW i \in Members PROVE Held(i)' = Held(i)
  <2>1. InItem(i) = <<>>  BY <1>1 DEF InItem, BindOf
  <2>2. \A j : Item(j).index = j /\ Item(j).bind = pending_binds[j]  BY DEF Item
  <2>3. CASE Active(i)  BY <1>1, <2>2, <2>3, <2>1 DEF InItem, BindOf, Taken, Held
  <2>4. CASE ~Active(i)  BY <1>1, <2>2, <2>4, <2>1 DEF InItem, BindOf, Taken, Held
  <2> QED BY <2>3, <2>4
<1>4. Values'
  <2> SUFFICES ASSUME NEW i \in Members PROVE MemberValue(i)'
      BY <1>2 DEF Values
  <2>1. MemberValue(i) /\ Underway  BY <1>1 DEF HonestInv, Values, Underway
  <2>2. Valued(tables[i], Held(i), Described(i).rounds - Done(i), member_claims[i], PadOf(i), Idle(i))
      BY <2>1 DEF MemberValue
  <2>3. CASE Active(i)  BY <1>1, <1>2, <2>3, <1>3, <2>2 DEF Idle, round, MemberValue
  <2>4. CASE ~Active(i)
      BY <1>1, <1>2, <2>4, <2>1, TablesOf, Seats, <2>2, ValueHalved, <1>3 DEF Idle, round, ClaimsInv,
         DeliveryInv, MemberValue
  <2> QED BY <2>3, <2>4
<1>5. Balanced'
  <2> DEFINE n == Len(batch.described)
             s == [i \in 1 .. n |-> Described(i).coefficient * member_claims[i]]
             u == [i \in 1 .. n |-> Described(i).coefficient *
                     (IF Active(i) THEN member_claims'[i] ELSE 2 * member_claims'[i])]
  <2>1. /\ Members = 1 .. n /\ n \in Nat
        /\ \A i \in Members : Described(i).coefficient \in Int /\ member_claims[i] \in Int
      BY BatchFields, InactiveTyped DEF ClaimsInv, DeliveryInv
  <2>2. ASSUME NEW i \in 1 .. n
        PROVE  u[i] \in Int /\ s[i] \in Int /\ Equal(u[i], s[i])
    <3> DEFINE c == Described(i).coefficient
               m == member_claims[i]
    <3>1. c \in Int /\ m \in Int /\ s[i] = c * m  BY <2>1
    <3>2. CASE Active(i)
      <4>1. u[i] = c * m  BY <1>1, <2>1, <3>2
      <4> HIDE DEF c, m, u, s
      <4> QED BY <3>1, <4>1 DEF Equal
    <3>3. CASE ~Active(i)
      <4>1. u[i] = c * (2 * ((m * TwoInv) % P))  BY <1>1, <2>1, <3>3
      <4> HIDE DEF c, m, u, s
      <4>2. Equal(2 * ((m * TwoInv) % P), m) /\ (m * TwoInv) % P \in Int  BY <3>1, HalvedTwice
      <4> DEFINE h == 2 * ((m * TwoInv) % P)
      <4>3. h \in Int /\ Equal(h, m)  BY <4>2
      <4>4. u[i] = c * h  BY <4>1
      <4> HIDE DEF h
      <4>5. Equal(c * h, c * m)
        <5>1. Equal(c, c)  BY DEF Equal
        <5> QED BY <3>1, <4>3, <5>1, EqualProduct
      <4>6. c * h \in Int /\ c * m \in Int  BY <3>1, <4>3
      <4> QED BY <3>1, <4>4, <4>5, <4>6
    <3> QED BY <3>2, <3>3
  <2>3. u \in [1 .. n -> Int] /\ s \in [1 .. n -> Int]  BY <2>2
  <2>4. running_claim = Total(s)  BY <1>1 DEF ClaimsInv, Claimed, Settled, Combination
  <2>5. [i \in 1 .. Len(batch.described) |-> Weight(i)]' = u  BY <1>1, <1>2 DEF Weight
  <2> HIDE DEF u, s
  <2>6. Total(u) = Total(s)  BY <2>1, <2>2, <2>3, TotalSame
  <2> QED BY <1>1, <2>4, <2>5, <2>6 DEF Balanced
<1>6. Fresh' /\ Sent' /\ phase' # "RoundCheckFailed"  BY <1>1 DEF Fresh, Sent
<1> QED BY <1>4, <1>5, <1>6 DEF HonestInv

\* A member bound to the challenge it held has the value it had.
LEMMA DeliveredValue ==
    ASSUME HonestInv, ClaimsInv, Underway, NEW i \in Members, Delivered(i, Held(i)),
           UNCHANGED <<batch, challenges, member_claims, phase>>, Held(i)' = <<>>,
           \A j \in Members : j # i => Held(j)' = Held(j)
    PROVE  Values'
<1>1. Members' = Members /\ \A j : /\ (Active(j)' <=> Active(j)) /\ Described(j)' = Described(j)
                                   /\ Done(j)' = Done(j) /\ PadOf(j)' = PadOf(j) /\ Idle(j)' = Idle(j)
    BY DEF Members, Active, Described, round, Done, PadOf, Idle
<1>2. /\ \A j \in DOMAIN tables : j # i => tables'[j] = tables[j]
      /\ DOMAIN tables' = DOMAIN tables
      /\ i \in DOMAIN tables
      /\ tables'[i] = IF Held(i) = <<>> THEN tables[i] ELSE Bind(tables[i], Held(i)[1])
    BY TablesOf, DeliveredTables
<1> SUFFICES ASSUME NEW j \in Members PROVE MemberValue(j)'
    BY <1>1 DEF Values
<1>3. Valued(tables[j], Held(j), Described(j).rounds - Done(j), member_claims[j], PadOf(j), Idle(j))
    BY DEF HonestInv, Values, MemberValue
<1>4. CASE j # i  BY <1>2, <1>4, TablesOf, <1>1, <1>3 DEF MemberValue
<1>5. CASE j = i
  <2>1. Valued(tables'[i], <<>>, Described(i).rounds - Done(i), member_claims[i], PadOf(i), Idle(i))
    <3>1. CASE Held(i) = <<>>  BY <1>2, <1>3, <1>5, <3>1
    <3>2. ASSUME NEW r \in Field, Held(i) = <<r>>
          PROVE  Valued(tables'[i], <<>>, Described(i).rounds - Done(i), member_claims[i], PadOf(i), Idle(i))
        BY <1>2, <3>2, TablesOf, Seats, Fields, <1>3, <1>5, ValueBound DEF ClaimsInv, DeliveryInv
    <3> QED BY <3>1, <3>2, TablesOf DEF Option
  <2> QED BY <1>1, <1>5, <2>1 DEF MemberValue
<1> QED BY <1>4, <1>5

LEMMA RunHonest ==
    ASSUME HonestInv, ClaimsInv, NEW item \in work, Run(item)
    PROVE  HonestInv'
<1> DEFINE e == [item EXCEPT !.message = Message(item.index)]
           i == item.index
<1>1. /\ phase = "schedule" /\ phase' = phase /\ work' = work \ {item}
      /\ Delivered(i, item.bind) /\ ran' = Append(ran, e)
      /\ UNCHANGED <<batch, pending_binds, member_claims, running_claim, challenges>>
    BY DEF Run
<1>2. Members' = Members /\ \A j : /\ (Active(j)' <=> Active(j)) /\ Described(j)' = Described(j)
                                   /\ PadOf(j)' = PadOf(j)
    BY <1>1 DEF Members, Active, Described, round, PadOf
<1>3. /\ i \in Members /\ item.bind \in Option /\ Underway
      /\ item = [index |-> i, local_round |-> item.local_round,
                 bind |-> item.bind, claim |-> item.claim, message |-> item.message]
      /\ \A a \in work : a.index = i => a = item
    BY <1>1 DEF ClaimsInv, DeliveryInv, Items, Underway
<1>4. e.index = i /\ e.message = Message(i)  BY <1>3
<1>5. pending_binds[i] = <<>>  BY <1>1, <1>3 DEF IndexesLeft, ClaimsInv, DeliveryInv, Items
<1>6. Held(i) = item.bind /\ Held(i)' = <<>>  BY <1>1, <1>3, <1>5 DEF InItem, BindOf, Held
<1>7. ASSUME NEW j \in Members, j # i PROVE Held(j)' = Held(j)  BY <1>1, <1>7 DEF Held, InItem
<1>8. Values'  BY <1>1, <1>3, <1>6, <1>7, DeliveredValue
<1>9. Fresh' /\ phase' # "RoundCheckFailed"  BY <1>1 DEF Fresh
<1>10. Balanced'  BY <1>1, <1>2 DEF Weight, HonestInv, Balanced
<1>11. Sent'
  <2>1. \A j, fs : MessageOf(j, fs)' = MessageOf(j, fs)  BY <1>2 DEF MessageOf
  <2>2. Message(i) = MessageOf(i, tables'[i])  BY DEF Message, MessageOf, PadOf, HalfTo
  <2> HIDE DEF e
  <2>3. Len(ran) \in Nat /\ DOMAIN ran = 1 .. Len(ran) /\ ran \in Seq(Elements(ran))
      BY LenProperties DEF ClaimsInv, DeliveryInv, Shape
  <2>4. /\ DOMAIN ran' = 1 .. Len(ran) + 1 /\ ran'[Len(ran) + 1] = e
        /\ \A k \in 1 .. Len(ran) : ran'[k] = ran[k]
    <3> DEFINE S == Elements(ran) \cup {e}
    <3>1. ran \in Seq(S) /\ e \in S
      <4>1. ran \in Seq(Elements(ran)) /\ Elements(ran) \subseteq S  BY <2>3
      <4> HIDE DEF S
      <4> QED BY <4>1 DEF S
    <3> HIDE DEF S
    <3>2. Append(ran, e) \in Seq(S) /\ Len(Append(ran, e)) = Len(ran) + 1
          /\ Append(ran, e)[Len(ran) + 1] = e
          /\ \A k \in 1 .. Len(ran) : Append(ran, e)[k] = ran[k]
        BY <3>1, AppendProperties
    <3> QED BY <1>1, <3>2, LenProperties
  <2>5. ASSUME NEW k \in 1 .. Len(ran)
        PROVE  ran'[k].message = MessageOf(ran'[k].index, tables'[ran'[k].index])
    <3> DEFINE j == ran[k].index
    <3>1. ran[k].message = MessageOf(j, tables[j]) /\ ran'[k] = ran[k]
        BY <1>1, <2>3, <2>4 DEF HonestInv, Sent
    <3>2. j # i  BY <1>1, <2>3 DEF IndexesLeft, ClaimsInv, Messages
    <3>3. j \in Members  BY <2>3, <1>1 DEF IndexesRun, ClaimsInv, DeliveryInv, Items
    <3>4. tables'[j] = tables[j]  BY <1>1, <1>3, <3>2, <3>3, TablesOf, DeliveredTables
    <3> QED BY <3>1, <3>4
  <2>6. \A k \in DOMAIN ran' : k \in 1 .. Len(ran) \/ k = Len(ran) + 1  BY <2>3, <2>4
  <2>7. \A k \in DOMAIN ran' : ran'[k].message = MessageOf(ran'[k].index, tables'[ran'[k].index])
      BY <1>4, <2>2, <2>4, <2>5, <2>6
  <2> QED BY <2>1, <2>7 DEF Sent
<1> QED BY <1>8, <1>9, <1>10, <1>11 DEF HonestInv

LEMMA LastHonest ==
    ASSUME HonestInv, ClaimsInv, NEW m \in ToFinish, FinishMember(m)
    PROVE  HonestInv'
<1>1. /\ phase = "finish" /\ phase' = phase /\ work = {} /\ work' = {} /\ m \in Members
      /\ pending_binds[m] # <<>> /\ Delivered(m, pending_binds[m])
      /\ pending_binds' = [pending_binds EXCEPT ![m] = <<>>]
      /\ pending_binds \in [Members -> Option]
      /\ UNCHANGED <<batch, member_claims, challenges>>
    BY DEF FinishMember, ToFinish, ClaimsInv, DeliveryInv, Items, Shape
<1>2. \A j \in Members : InItem(j) = <<>> /\ InItem(j)' = <<>>  BY <1>1 DEF InItem, BindOf
<1>3. Held(m) = pending_binds[m] /\ Held(m)' = <<>>  BY <1>1, <1>2 DEF Held
<1>4. \A j \in Members : j # m => Held(j)' = Held(j)  BY <1>1, <1>2 DEF Held
<1>5. Values'  BY <1>1, <1>3, <1>4, DeliveredValue DEF Underway
<1>6. Fresh' /\ Balanced' /\ Sent' /\ phase' # "RoundCheckFailed"  BY <1>1 DEF Fresh, Balanced, Sent
<1> QED BY <1>5, <1>6 DEF HonestInv

LEMMA ActiveValue ==
    ASSUME HonestInv, ClaimsInv, RoundDone, NEW i \in Members, Active(i)
    PROVE  /\ Held(i) = <<>>
           /\ \A c \in Int : Equal(c * Evaluate(MessageFor(i), 0) + c * Evaluate(MessageFor(i), 1),
                                   c * member_claims[i])
           /\ \A r \in Field : Valued(tables[i], <<r>>, Described(i).rounds - Done(i) - 1,
                                      Evaluate(MessageFor(i), r), PadOf(i), Idle(i))
<1>1. phase = "schedule" /\ work = {} /\ Underway  BY DEF RoundDone, Underway
<1>2. Held(i) = <<>>  BY <1>1 DEF ClaimsInv, DeliveryInv, Items, InItem, BindOf, Held
<1>3. PICK left \in Nat : left = Described(i).rounds - Done(i) - 1
    BY Seats DEF ClaimsInv, DeliveryInv
<1>4. left + 1 = Described(i).rounds - Done(i)  BY <1>3, Seats DEF ClaimsInv, DeliveryInv
<1>5. Valued(tables[i], <<>>, left + 1, member_claims[i], PadOf(i), Idle(i))
    BY <1>1, <1>2, <1>4 DEF HonestInv, Values, MemberValue
<1>6. PICK k \in 1 .. Len(ran) : ran[k].index = i  BY <1>1, RanAre
<1>7. MessageFor(i) = ran[k].message /\ k \in DOMAIN ran  BY <1>1, <1>6, RanAre
<1>8. MessageFor(i) = Scale(PadOf(i) * HalfTo(Idle(i)), RoundPoly(tables[i]))
    BY Seats, <1>1, <1>6, <1>7 DEF ClaimsInv, DeliveryInv, HonestInv, Sent, MessageOf
<1>9. IsTables(tables[i]) /\ member_claims[i] \in Int /\ PadOf(i) \in Int /\ Idle(i) \in Nat
    BY <1>1, TablesOf, Seats DEF ClaimsInv, DeliveryInv
<1>10. /\ \A c \in Int : Equal(c * Evaluate(MessageFor(i), 0) + c * Evaluate(MessageFor(i), 1),
                               c * member_claims[i])
       /\ \A r \in Field : Valued(tables[i], <<r>>, left, Evaluate(MessageFor(i), r), PadOf(i), Idle(i))
    BY <1>5, <1>8, <1>9, ValueRound
<1> QED BY <1>2, <1>3, <1>10

\* The round polynomial of honest members sums to the running claim.
LEMMA RoundBalances ==
    ASSUME HonestInv, ClaimsInv, RoundDone, batch.max_degree >= 1
    PROVE  RoundSum = running_claim
<1> DEFINE n == Len(batch.described)
           s(x) == [i \in 1 .. n |-> ShareAt(i, x)]
           u == [i \in 1 .. n |-> ShareAt(i, 0) + ShareAt(i, 1)]
           v == [i \in 1 .. n |-> Weight(i)]
           t == TrimRoundPolynomial(Folded)
<1>1. /\ Members = 1 .. n /\ n \in Nat /\ phase = "schedule" /\ 0 \in Int /\ 1 \in Int
      /\ \A i \in Members : Described(i).coefficient \in Int /\ member_claims[i] \in Int
    BY BatchFields, InactiveTyped DEF ClaimsInv, DeliveryInv, RoundDone
<1>2. Evaluate(t, 0) = Total(s(0)) /\ Evaluate(t, 1) = Total(s(1))  BY <1>1, RoundMessage
<1>3. \A i \in 1 .. n : ShareAt(i, 0) \in Int /\ ShareAt(i, 1) \in Int  BY <1>1, ShareTyped
<1>4. ASSUME NEW i \in 1 .. n
      PROVE  u[i] = ShareAt(i, 0) + ShareAt(i, 1) /\ v[i] \in Int /\ Equal(u[i], v[i])
  <2> DEFINE c == Described(i).coefficient
             m == member_claims[i]
             e == Evaluate(MessageFor(i), 0)
             f == Evaluate(MessageFor(i), 1)
  <2>1. c \in Int /\ m \in Int /\ u[i] = ShareAt(i, 0) + ShareAt(i, 1)  BY <1>1
  <2>2. CASE Active(i)
    <3>1. ShareAt(i, 0) = c * e /\ ShareAt(i, 1) = c * f /\ v[i] = c * m
        BY <2>2 DEF ShareAt, Weight
    <3>2. Equal(c * e + c * f, c * m)  BY <1>1, <2>1, <2>2, ActiveValue
    <3> HIDE DEF u, v, c, m, e, f
    <3>3. v[i] \in Int  BY <2>1, <3>1
    <3> QED BY <2>1, <3>1, <3>2, <3>3
  <2>3. CASE ~Active(i)
    <3>1. ShareAt(i, 0) = c * m /\ ShareAt(i, 1) = c * m /\ v[i] = c * (2 * m)
        BY <2>3 DEF ShareAt, Weight
    <3> HIDE DEF u, v, c, m, e, f
    <3>2. c * m + c * m = c * (2 * m) /\ c * (2 * m) \in Int  BY <2>1
    <3> QED BY <2>1, <3>1, <3>2 DEF Equal
  <2> QED BY <2>2, <2>3
<1>5. s(0) \in [1 .. n -> Int] /\ s(1) \in [1 .. n -> Int]  BY <1>3
<1>6. /\ u \in [1 .. n -> Int] /\ v \in [1 .. n -> Int]
      /\ \A i \in 1 .. n : u[i] = s(0)[i] + s(1)[i]
  <2>1. \A i \in 1 .. n : ShareAt(i, 0) + ShareAt(i, 1) \in Int  BY <1>3
  <2>2. u \in [1 .. n -> Int]  BY <2>1
  <2>3. v \in [1 .. n -> Int]  BY <1>4
  <2>4. \A i \in 1 .. n : s(0)[i] = ShareAt(i, 0) /\ s(1)[i] = ShareAt(i, 1)  OBVIOUS
  <2>5. \A i \in 1 .. n : u[i] = s(0)[i] + s(1)[i]  BY <1>4, <2>4
  <2> QED BY <2>2, <2>3, <2>5
<1>7. running_claim = Total(v)  BY <1>1 DEF HonestInv, Balanced
<1> HIDE DEF u, v, s
<1>8. Total(u) = (Total(s(0)) + Total(s(1))) % P  BY <1>1, <1>5, <1>6, TotalSum
<1>9. Total(u) = Total(v)  BY <1>1, <1>4, <1>6, TotalSame
<1>10. RoundSum = (Evaluate(t, 0) + Evaluate(t, 1)) % P  BY DEF RoundSum
<1> HIDE DEF t
<1> QED BY <1>2, <1>7, <1>8, <1>9, <1>10

\* Honest members fail no round's check.
LEMMA FailHonest ==
    ASSUME HonestInv, ClaimsInv, LockstepInv, FailRound
    PROVE  HonestInv'
<1>1. phase = "schedule" /\ phase' \in RoundErrors  BY DEF FailRound
<1>2. phase' \in {"MissingRoundMessage", "DegreeBoundExceeded", "RoundCheckFailed",
                  "RoundExceedsCommitmentCapacity"}
    BY <1>1 DEF RoundErrors, ItemErrors
<1>3. phase' # "RoundCheckFailed"
  <2> SUFFICES ASSUME "RoundCheckFailed" \in RoundErrors PROVE FALSE
      BY <1>1
  <2>1. ItemErrors = {} /\ RoundSum # running_claim  BY DEF RoundErrors, ItemErrors
  <2> QED BY <1>1, <2>1, RoundIsDone, RoundBalances
<1> QED BY <1>2, <1>3 DEF HonestInv, Values, Fresh, Balanced, Sent, Underway

LEMMA FinishHonest ==
    ASSUME HonestInv, ClaimsInv, LockstepInv, FinishRound
    PROVE  HonestInv'
<1>1. PICK r \in Field :
        /\ RoundDone /\ batch.max_degree >= 1 /\ challenges' = Append(challenges, r)
        /\ member_claims' = [i \in Members |->
               IF Active(i) THEN Evaluate(MessageFor(i), r) ELSE member_claims[i]]
        /\ pending_binds' = [i \in Members |-> IF Active(i) THEN <<r>> ELSE pending_binds[i]]
    BY FinishedRound
<1>2. phase = "schedule" /\ phase' = "round" /\ work = {} /\ UNCHANGED <<batch, tables, work>>
    BY DEF FinishRound
<1>3. round \in Nat /\ round' = round + 1
    BY <1>1, AppendProperties DEF ClaimsInv, DeliveryInv, Shape, round
<1>4. Members' = Members /\ \A j : Described(j)' = Described(j) /\ PadOf(j)' = PadOf(j)
    BY <1>2 DEF Members, Described, PadOf
<1>5. ASSUME NEW i \in Members PROVE MemberValue(i)'
  <2>1. Valued(tables[i], Held(i), Described(i).rounds - Done(i), member_claims[i], PadOf(i), Idle(i))
      BY <1>2 DEF HonestInv, Values, MemberValue, Underway
  <2>2. InItem(i) = <<>> /\ InItem(i)' = <<>>  BY <1>2 DEF InItem, BindOf
  <2>3. Described(i).offset \in Nat /\ Described(i).rounds \in Nat
      BY Seats DEF ClaimsInv, DeliveryInv
  <2> DEFINE o == Described(i).offset
             n == Described(i).rounds
  <2>4. Done(i) = IF round <= o THEN 0 ELSE IF round <= o + n THEN round - o ELSE n
      BY DEF Done, Had
  <2>5. Done(i)' = IF round + 1 <= o THEN 0 ELSE IF round + 1 <= o + n THEN (round + 1) - o ELSE n
    <3>1. Done(i)' = Had(round + 1, o, n)  BY <1>3, <1>4 DEF Done
    <3> HIDE DEF o, n
    <3> QED BY <3>1 DEF Had
  <2>6. Active(i) <=> round >= o /\ round < o + n  BY DEF Active
  <2>7. Idle(i) = (IF ~Active(i) THEN round - Done(i) + 1 ELSE round - Done(i))
        /\ Idle(i)' = (round + 1) - Done(i)'
      BY <1>2, <1>3 DEF Idle
  <2>8. CASE Active(i)
    <3>1. n - Done(i)' = n - Done(i) - 1 /\ Idle(i)' = Idle(i)
      <4> HIDE DEF o, n
      <4>1. o \in Nat /\ n \in Nat  BY <2>3 DEF o, n
      <4>2. Done(i) = round - o /\ Done(i)' = (round + 1) - o  BY <1>3, <2>4, <2>5, <2>6, <2>8, <4>1
      <4> QED BY <1>3, <2>7, <2>8, <4>1, <4>2
    <3>2. Held(i)' = <<r>> /\ member_claims'[i] = Evaluate(MessageFor(i), r)  BY <1>1, <2>8 DEF Held
    <3>3. Valued(tables[i], <<r>>, n - Done(i) - 1, Evaluate(MessageFor(i), r), PadOf(i), Idle(i))
        BY <1>1, <2>8, ActiveValue
    <3> QED BY <1>2, <1>4, <3>1, <3>2, <3>3 DEF MemberValue
  <2>9. CASE ~Active(i)
    <3>1. Done(i)' = Done(i) /\ Idle(i)' = Idle(i)
      <4> HIDE DEF o, n
      <4>1. o \in Nat /\ n \in Nat  BY <2>3 DEF o, n
      <4>2. Done(i)' = Done(i) /\ Done(i) \in Int  BY <1>3, <2>4, <2>5, <2>6, <2>9, <4>1
      <4> QED BY <1>3, <2>7, <2>9, <4>2
    <3>2. Held(i)' = Held(i) /\ member_claims'[i] = member_claims[i]  BY <1>1, <2>9, <2>2 DEF Held
    <3> QED BY <1>2, <1>4, <2>1, <3>1, <3>2 DEF MemberValue
  <2> QED BY <2>8, <2>9
<1>6. Values'  BY <1>4, <1>5 DEF Values
<1>7. Fresh' /\ Balanced' /\ Sent' /\ phase' # "RoundCheckFailed"  BY <1>2 DEF Fresh, Balanced, Sent
<1> QED BY <1>6, <1>7 DEF HonestInv

LEMMA HonestInit == Init => HonestInv
<1> SUFFICES ASSUME Init PROVE HonestInv
    OBVIOUS
<1>1. phase = "check" /\ tables = batch.kernels
      /\ member_claims = [i \in Members |-> PaddedClaim(batch, i)]
      /\ pending_binds = [i \in Members |-> <<>>]
    BY DEF Init
<1> QED BY <1>1 DEF HonestInv, Values, Underway, Fresh, Balanced, Sent

LEMMA HonestStep ==
    ASSUME HonestInv, ClaimsInv, ClaimsInv', LockstepInv, [Next]_vars
    PROVE  HonestInv'
<1>1. CASE LastRound \/ Finish \/ Verify \/ UNCHANGED vars
    BY <1>1, QuietHonest DEF LastRound, Finish, Verify, vars, pvars, Underway
<1>2. CASE Forge
  <2>1. phase' = "forged"  BY <1>2 DEF Forge
  <2> QED BY <2>1 DEF HonestInv, Values, Underway, Fresh, Balanced, Sent
<1>3. CASE Check  BY <1>3, CheckHonest
<1>4. CASE StartRound  BY <1>4, StartHonest
<1>5. ASSUME NEW item \in work, Run(item) PROVE HonestInv'  BY <1>5, RunHonest
<1>6. CASE FailRound  BY <1>6, FailHonest
<1>7. CASE FinishRound  BY <1>7, FinishHonest
<1>8. ASSUME NEW m \in ToFinish, FinishMember(m) PROVE HonestInv'  BY <1>8, LastHonest
<1> QED BY <1>1, <1>2, <1>3, <1>4, <1>5, <1>6, <1>7, <1>8 DEF Next

\* Members that sum to their claims fail no round, in whatever order and with
\* whatever challenges they are run; the verifier refuses no round of their
\* proof and is left with the prover's claim (prove_batch and verify_compressed).
THEOREM HonestProofsReduce == Spec => []HonestProofReduces
<1> DEFINE Inv == HonestInv /\ Reckoned /\ ClaimsInv /\ LockstepInv
<1>1. Inv => HonestProofReduces
  <2> SUFFICES ASSUME Inv PROVE HonestProofReduces
      OBVIOUS
  <2>1. InLockstep  BY LockstepHolds
  <2> QED BY <2>1, ReducedSum DEF HonestInv, HonestProofReduces
<1>2. Init => Inv  BY HonestInit, ReckonedInit, ClaimsInit, LockstepInit
<1>3. Inv /\ [Next]_vars => Inv'  BY HonestStep, ReckonedStep, ClaimsStep, LockstepStep
<1> HIDE DEF Inv
<1> QED BY <1>1, <1>2, <1>3, PTL DEF Spec

-----------------------------------------------------------------------------
(* The members' polynomials *)

\* Member i's polynomial is that of its tables, at what it was given already.
ExtendsAt(i) ==
    \A p \in Seq(Field) : Len(tables[i][1]) = TwoTo(Len(p)) =>
        ExtensionAt(batch.kernels[i], delivered[i] \o p) = ExtensionAt(tables[i], p)
Extends == \A i \in 1 .. Len(batch.kernels) : ExtendsAt(i)

\* A proved batch has run all its rounds and left no challenge behind.
Finished ==
    /\ phase # "sealed"
    /\ phase = "proved" =>
         round = batch.max_num_vars /\ work = {} /\ \A i \in Members : pending_binds[i] = <<>>

ValuesInv == Extends /\ Finished

LEMMA ValuesInit == Init => ValuesInv
<1> SUFFICES ASSUME Init PROVE ValuesInv
    OBVIOUS
<1>1. phase = "check" /\ tables = batch.kernels
      /\ delivered = [i \in 1 .. Len(batch.kernels) |-> <<>>]
    BY DEF Init
<1>2. Extends
  <2> SUFFICES ASSUME NEW i \in 1 .. Len(batch.kernels), NEW p \in Seq(Field)
               PROVE  ExtensionAt(batch.kernels[i], delivered[i] \o p) = ExtensionAt(tables[i], p)
      BY DEF Extends, ExtendsAt
  <2>1. <<>> \o p = p  BY ConcatEmptySeq
  <2> QED BY <1>1, <2>1
<1> QED BY <1>1, <1>2 DEF ValuesInv, Finished

\* A member given the challenge it held.
LEMMA DeliveryExtends ==
    ASSUME Extends, HonestInv, ClaimsInv, Underway, NEW i \in Members, Delivered(i, Held(i)), batch' = batch
    PROVE  Extends'
<1>1. /\ \A j \in DOMAIN tables : j # i => tables'[j] = tables[j]
      /\ i \in DOMAIN tables /\ DOMAIN tables = 1 .. Len(batch.kernels)
      /\ tables'[i] = IF Held(i) = <<>> THEN tables[i] ELSE Bind(tables[i], Held(i)[1])
    BY TablesOf, DeliveredTables DEF ClaimsInv, Bound
<1>2. delivered \in [1 .. Len(batch.kernels) -> Seq(Field)]  BY DEF ClaimsInv, DeliveryInv, Shape
<1>3. delivered' = [delivered EXCEPT ![i] = delivered[i] \o Held(i)]  BY DEF Delivered
<1> SUFFICES ASSUME NEW j \in 1 .. Len(batch.kernels), NEW p \in Seq(Field),
                    Len(tables'[j][1]) = TwoTo(Len(p))
             PROVE  ExtensionAt(batch.kernels[j], delivered'[j] \o p) = ExtensionAt(tables'[j], p)
    BY DEF Extends, ExtendsAt
<1>4. ExtendsAt(j)  BY DEF Extends
<1>5. CASE j # i  BY <1>1, <1>2, <1>3, <1>5, <1>4 DEF ExtendsAt
<1>6. CASE j = i /\ Held(i) = <<>>  BY <1>1, <1>2, ConcatEmptySeq, <1>3, <1>6, <1>4 DEF ExtendsAt
<1>7. ASSUME NEW r \in Field, j = i, Held(i) = <<r>>
      PROVE  ExtensionAt(batch.kernels[j], delivered'[j] \o p) = ExtensionAt(tables'[j], p)
  <2>1. PICK fs : fs = tables[i]  OBVIOUS
  <2>2. PICK d \in Seq(Field) : d = delivered[i]  BY <1>1, <1>2
  <2>3. PICK m \in Nat : m = Len(p)  OBVIOUS
  <2>4. tables'[i] = Bind(fs, r)  BY <1>1, <1>7, <2>1
  <2>5. delivered'[i] = d \o <<r>>  BY <1>1, <1>2, <1>3, <1>7, <2>2
  <2>6. Tables(fs, Len(fs), Len(fs[1])) /\ r \in Int  BY <2>1, TablesOf, Fields DEF IsTables
  <2>7. PICK left \in Nat : Len(fs[1]) = TwoTo(left + 1)
    <3>1. Valued(fs, <<r>>, Described(i).rounds - Done(i), member_claims[i], PadOf(i), Idle(i))
        BY <1>7, <2>1 DEF HonestInv, Values, MemberValue
    <3>2. <<r>> # <<>> /\ Described(i).rounds - Done(i) \in Nat  BY Seats DEF ClaimsInv, DeliveryInv
    <3> QED BY <3>1, <3>2 DEF Valued
  <2>8. Len(Bind(fs, r)[1]) = Len(fs[1]) \div 2
    <3> DEFINE b == Bind(fs, r)
               n == Len(fs)
               l == Len(fs[1]) \div 2
    <3>1. Tables(b, n, l)  BY <2>6, BindTyped
    <3> HIDE DEF b, l, n
    <3>2. 1 \in 1 .. n /\ \A k \in 1 .. n : Len(b[k]) = l  BY <3>1, TableLengths
    <3> QED BY <3>2 DEF b, l
  <2>9. Len(fs[1]) = TwoTo(m + 1)
    <3>1. TwoTo(left) \in Nat /\ TwoTo(left + 1) = TwoTo(left) + TwoTo(left)  BY TwoToNext
    <3>2. TwoTo(m) \in Nat /\ TwoTo(m + 1) = TwoTo(m) + TwoTo(m)  BY TwoToNext
    <3>3. Len(fs[1]) \div 2 = TwoTo(left)  BY <2>7, <3>1
    <3>4. Len(fs[1]) \div 2 = TwoTo(m)  BY <1>7, <2>3, <2>4, <2>8
    <3> QED BY <2>7, <3>1, <3>2, <3>3, <3>4
  <2>10. <<r>> \o p \in Seq(Field) /\ Len(<<r>> \o p) = m + 1  BY <2>3, PointCons
  <2>11. ExtensionAt(batch.kernels[i], d \o (<<r>> \o p)) = ExtensionAt(fs, <<r>> \o p)
      BY <1>4, <1>7, <2>1, <2>2, <2>9, <2>10 DEF ExtendsAt
  <2>12. ExtensionAt(fs, <<r>> \o p) = ExtensionAt(Bind(fs, r), p)  BY <2>6, <2>9, <2>3, BindExtends
  <2>13. (d \o <<r>>) \o p = d \o (<<r>> \o p)  BY ConcatAssociative
  <2> QED BY <1>7, <2>4, <2>5, <2>11, <2>12, <2>13
<1>8. Held(i) = <<>> \/ \E r \in Field : Held(i) = <<r>>  BY TablesOf DEF Option
<1> QED BY <1>5, <1>6, <1>7, <1>8

\* What the scheduler and the end of the batch deliver is what the member held.
LEMMA RunHeld ==
    ASSUME ClaimsInv, NEW item \in work, Run(item)
    PROVE  item.index \in Members /\ Underway /\ Delivered(item.index, Held(item.index))
<1>1. phase = "schedule" /\ Delivered(item.index, item.bind)  BY DEF Run
<1>2. item.index \in Members /\ \A a \in work : a.index = item.index => a = item
    BY DEF ClaimsInv, DeliveryInv, Items
<1>3. pending_binds[item.index] = <<>>  BY <1>1, <1>2 DEF IndexesLeft, ClaimsInv, DeliveryInv, Items
<1>4. {a \in work : a.index = item.index} = {item}  BY <1>2
<1>5. InItem(item.index) = item.bind  BY <1>4 DEF InItem, BindOf
<1> QED BY <1>1, <1>2, <1>3, <1>5 DEF Held, Underway

LEMMA FinishHeld ==
    ASSUME ClaimsInv, NEW m \in ToFinish, FinishMember(m)
    PROVE  m \in Members /\ Underway /\ Delivered(m, Held(m))
BY DEF FinishMember, ToFinish, Held, Underway

LEMMA ValuesStep ==
    ASSUME ValuesInv, HonestInv, ClaimsInv, LockstepInv, [Next]_vars
    PROVE  ValuesInv'
<1>1. CASE Forge \/ Check \/ StartRound \/ FailRound \/ FinishRound \/ LastRound
  <2>1. UNCHANGED <<batch, tables, delivered>>
      BY <1>1 DEF Forge, Check, StartRound, FailRound, FinishRound, LastRound
  <2>2. CheckError \in {"BatchMemberCountMismatch", "BatchMemberRoundsMismatch",
                        "BatchMemberWindowOutOfRange", "ZeroBatchDegree", "none"}
      BY MemberErrors DEF CheckError
  <2>3. RoundErrors \subseteq {"MissingRoundMessage", "DegreeBoundExceeded", "RoundCheckFailed",
                               "RoundExceedsCommitmentCapacity"}
      BY DEF RoundErrors, ItemErrors
  <2>4. phase' \notin {"sealed", "proved"}
    <3>1. CASE Check  BY <2>2, <3>1 DEF Check
    <3>2. CASE FailRound  BY <2>3, <3>2 DEF FailRound
    <3>3. CASE Forge \/ StartRound \/ FinishRound \/ LastRound
        BY <3>3 DEF Forge, StartRound, FinishRound, LastRound
    <3> QED BY <1>1, <3>1, <3>2, <3>3
  <2>5. Extends'  BY <2>1 DEF ValuesInv, Extends, ExtendsAt
  <2> QED BY <2>4, <2>5 DEF ValuesInv, Finished
<1>2. ASSUME NEW item \in work, Run(item) PROVE ValuesInv'
    BY <1>2, RunHeld, DeliveryExtends DEF Run, ValuesInv, Finished
<1>3. ASSUME NEW m \in ToFinish, FinishMember(m) PROVE ValuesInv'
    BY <1>3, FinishHeld, DeliveryExtends DEF FinishMember, ValuesInv, Finished
<1>4. CASE Finish
  <2>1. /\ phase = "finish" /\ phase' = "proved" /\ ToFinish = {}
        /\ UNCHANGED <<batch, tables, delivered, pending_binds, work, challenges>>
      BY <1>4 DEF Finish
  <2>2. round = batch.max_num_vars /\ work = {} /\ \A i \in Members : pending_binds[i] = <<>>
      BY <2>1 DEF LockstepInv, DeliveryInv, Paced, Items, ToFinish
  <2> QED BY <2>1, <2>2 DEF ValuesInv, Finished, Extends, ExtendsAt, round, Members
<1>5. CASE Verify \/ UNCHANGED vars
  <2>1. UNCHANGED <<batch, tables, delivered, pending_binds, work, challenges, phase>>
      BY <1>5 DEF Verify, vars, pvars
  <2> QED BY <2>1 DEF ValuesInv, Finished, Extends, ExtendsAt, round, Members
<1> QED BY <1>1, <1>2, <1>3, <1>4, <1>5 DEF Next

\* What the padding doubles, the idle rounds halve.
LEMMA PadHalves ==
    ASSUME NEW n \in Nat
    PROVE  Equal(TwoTo(n) * HalfTo(n), 1)
<1> DEFINE K == {k \in 0 .. n : Equal(TwoTo(k) * HalfTo(k), 1)}
<1>1. 0 \in K
  <2>1. HalfTo(0) = 1
    <3>1. PICK m \in Nat : m = 0  OBVIOUS
    <3> QED BY <3>1, HalfToNext
  <2>2. TwoTo(0) * HalfTo(0) = 1  BY <2>1, TwoToZero
  <2> QED BY <2>2 DEF Equal
<1>2. ASSUME NEW k \in 0 .. n - 1, k \in K PROVE k + 1 \in K
  <2>1. k \in Nat /\ k + 1 \in 0 .. n  OBVIOUS
  <2>2. PICK t \in Nat : t = TwoTo(k) /\ TwoTo(k + 1) = t + t  BY <2>1, TwoToNext
  <2>3. PICK b \in Int : b = HalfTo(k) /\ HalfTo(k + 1) = (b * TwoInv) % P  BY <2>1, HalfToNext
  <2>4. PICK v \in Int : v = TwoInv /\ Equal(2 * v, 1)  BY HalfInverse
  <2>5. t * b \in Int /\ b * v \in Int /\ 2 * v \in Int /\ t + t \in Int /\ 1 \in Int
      BY <2>2, <2>3, <2>4
  <2>6. Equal(t * b, 1)  BY <1>2, <2>2, <2>3
  <2>7. Equal((t * b) * (2 * v), 1 * 1)  BY <2>4, <2>5, <2>6, EqualProduct
  <2>8. (t * b) * (2 * v) = (t + t) * (b * v) /\ 1 * 1 = 1  BY <2>2, <2>3, <2>4
  <2>9. (b * v) % P \in Int /\ Equal((b * v) % P, b * v) /\ Equal(t + t, t + t)
      BY <2>5, Division, Fields, EqualReduced DEF Equal
  <2>10. Equal((t + t) * ((b * v) % P), (t + t) * (b * v))  BY <2>5, <2>9, EqualProduct
  <2>11. Equal((t + t) * ((b * v) % P), 1)  BY <2>7, <2>8, <2>10, Zenon DEF Equal
  <2>12. Equal(TwoTo(k + 1) * HalfTo(k + 1), 1)  BY <2>2, <2>3, <2>4, <2>11
  <2> QED BY <2>1, <2>12
<1>3. 0 .. n \subseteq K
  <2> HIDE DEF K
  <2> QED BY <1>1, <1>2, Inductive
<1>4. n \in 0 .. n  OBVIOUS
<1> QED BY <1>3, <1>4

\* At the end of the batch.
LEMMA ProvedValue ==
    ASSUME ValuesInv, HonestInv, ClaimsInv, phase = "proved", NEW i \in Members
    PROVE  /\ Len(Slice(i)) = Vars(batch.kernels[i]) /\ Slice(i) = delivered[i]
           /\ Len(tables[i][1]) = 1 /\ Sum(tables[i]) = member_claims[i]
<1> DEFINE o == Described(i).offset
           n == Described(i).rounds
           N == batch.max_num_vars
           m == member_claims[i]
           s == Sum(tables[i])
<1>1. /\ o \in Nat /\ n \in Nat /\ N \in Nat /\ round = N /\ work = {} /\ pending_binds[i] = <<>>
      /\ Shape /\ challenges \in Seq(Field) /\ Len(challenges) = round
    BY BatchFields DEF ValuesInv, Finished, ClaimsInv, DeliveryInv, Shape, round
<1>2. /\ Len(batch.kernels) = Len(batch.described) /\ MemberError(i) = "none" /\ i \in 1 .. Len(batch.kernels)
    BY BatchFields DEF ClaimsInv, Checked, DeliveryInv
<1>3. Vars(batch.kernels[i]) = n /\ o + n <= N  BY <1>2 DEF MemberError, WindowInRange
<1>4. Slice(i) = delivered[i]
    BY <1>1, <1>2, ConcatEmptySeq DEF InItem, BindOf, Shape, ClaimsInv, DeliveryInv, ChallengesDelivered
<1>5. Len(Slice(i)) = n
  <2>1. Slice(i) = SubSeq(challenges, o + 1, IF round <= o + n THEN round ELSE o + n)
      BY <1>1, SliceAt
  <2> HIDE DEF o, n, N
  <2>2. (IF round <= o + n THEN round ELSE o + n) = o + n  BY <1>1, <1>3
  <2>3. Slice(i) = SubSeq(challenges, o + 1, o + n)  BY <2>1, <2>2
  <2>4. o + 1 \in 1 .. Len(challenges) + 1 /\ o + n \in (o + 1) - 1 .. Len(challenges)
      BY <1>1, <1>3
  <2>5. Len(SubSeq(challenges, o + 1, o + n)) = (o + n) - (o + 1) + 1
      BY <1>1, <2>4, SubSeqProperties
  <2>6. (o + n) - (o + 1) + 1 = n  BY <1>1
  <2> QED BY <2>3, <2>5, <2>6
<1>6. Done(i) = n /\ Idle(i) = N - n
  <2>1. Done(i) = IF round <= o THEN 0 ELSE IF round <= o + n THEN round - o ELSE n
      BY DEF Done, Had
  <2>2. Idle(i) = round - Done(i)  BY DEF Idle
  <2> HIDE DEF o, n, N
  <2>3. Done(i) = n  BY <1>1, <1>3, <2>1
  <2> QED BY <1>1, <2>2, <2>3
<1>7. PICK k \in Nat : k = N - n
  <2> HIDE DEF o, n, N
  <2> QED BY <1>1, <1>3
<1>8. Valued(tables[i], <<>>, 0, m, PadOf(i), k)
  <2>1. Held(i) = <<>>  BY <1>1 DEF Held, InItem, BindOf
  <2>2. n - n = 0  BY <1>1
  <2> QED BY <1>6, <1>7, <2>1, <2>2 DEF HonestInv, Values, Underway, MemberValue
<1>9. Len(tables[i][1]) = 1  BY <1>8, TwoToZero DEF Valued
<1>10. s \in Field /\ s \in Int /\ m \in Field /\ m \in Int
    BY TablesOf, SumTyped, InactiveTyped DEF Underway
<1>11. Equal(m, PadOf(i) * HalfTo(k) * s)  BY <1>8 DEF Valued
<1>12. PICK b \in Int : b = HalfTo(k)  BY HalfToNext
<1>13. PICK t \in Nat : t = TwoTo(k)  BY TwoToNext
<1>14. PadOf(i) = t % P  BY <1>7, <1>13 DEF PadOf, MulPow2
<1> HIDE DEF o, n, N, m, s
<1>15. Equal((t % P) * b, 1)
  <2>1. t \in Int /\ t % P \in Int /\ Equal(t % P, t) /\ Equal(b, b)
      BY Division, Fields, EqualReduced DEF Equal
  <2>2. Equal((t % P) * b, t * b)  BY <2>1, EqualProduct
  <2>3. Equal(t * b, 1)  BY <1>12, <1>13, PadHalves
  <2> QED BY <2>2, <2>3, EqualTrans
<1>16. Equal((t % P) * b * s, 1 * s)
  <2>1. t % P \in Int /\ Equal(s, s) /\ 1 \in Int  BY Division, Fields DEF Equal
  <2>2. (t % P) * b \in Int  BY <2>1
  <2> QED BY <1>10, <1>15, <2>1, <2>2, EqualProduct
<1>17. Equal(m, s)  BY <1>10, <1>11, <1>12, <1>14, <1>16 DEF Equal
<1>18. m = s  BY <1>10, <1>17, EqualInField
<1> QED BY <1>3, <1>4, <1>5, <1>9, <1>18 DEF m, s, n

\* A proved batch leaves every member's claim at the value of its polynomial at
\* its slice of the batch point, and the member bound to that value, in
\* whatever order the scheduler ran it (ProvedBatch.member_claims).
THEOREM ClaimsReachValues == Spec => []ClaimsAreValues
<1> DEFINE Inv == ValuesInv /\ HonestInv /\ ClaimsInv /\ LockstepInv
<1>1. Inv => ClaimsAreValues
  <2> SUFFICES ASSUME Inv, phase \in {"proved", "sealed"}, NEW i \in Members
               PROVE  /\ Len(Slice(i)) = Vars(batch.kernels[i])
                      /\ member_claims[i] = ExtensionAt(batch.kernels[i], Slice(i))
                      /\ Len(tables[i][1]) = 1 /\ Sum(tables[i]) = member_claims[i]
      BY DEF ClaimsAreValues
  <2>1. phase = "proved"  BY DEF ValuesInv, Finished
  <2>2. /\ Len(Slice(i)) = Vars(batch.kernels[i]) /\ Slice(i) = delivered[i]
        /\ Len(tables[i][1]) = 1 /\ Sum(tables[i]) = member_claims[i]
      BY <2>1, ProvedValue
  <2>3. i \in 1 .. Len(batch.kernels)  BY <2>1, BatchFields DEF ClaimsInv, Checked, DeliveryInv
  <2>4. <<>> \in Seq(Field) /\ Len(<<>>) = 0  OBVIOUS
  <2>5. ExtensionAt(batch.kernels[i], delivered[i] \o <<>>) = ExtensionAt(tables[i], <<>>)
      BY <2>2, <2>4, TwoToZero, <2>3 DEF ValuesInv, Extends, ExtendsAt
  <2>6. delivered[i] \o <<>> = delivered[i]
      BY <2>3, ConcatEmptySeq DEF ClaimsInv, DeliveryInv, Shape
  <2>7. ExtensionAt(tables[i], <<>>) = Sum(tables[i])
      BY <2>1, <2>2, TablesOf, ExtensionOfOne DEF IsTables, Underway
  <2> QED BY <2>2, <2>5, <2>6, <2>7
<1>2. Init => Inv  BY ValuesInit, HonestInit, ClaimsInit, LockstepInit
<1>3. Inv /\ [Next]_vars => Inv'  BY ValuesStep, HonestStep, ClaimsStep, LockstepStep
<1> HIDE DEF Inv
<1> QED BY <1>1, <1>2, <1>3, PTL DEF Spec

-----------------------------------------------------------------------------
(* A dishonest prover's rounds *)

ForgedInv ==
    phase = "forged" =>
        /\ batch \in Forged
        /\ claim.num_vars = batch.max_num_vars /\ claim.degree = batch.max_degree
        /\ vchallenges \in Seq(Field) /\ proof \in Seq(Seq(Field))
        /\ verdict = "running" => Len(proof) = claim.num_vars

LEMMA ForgedStep ==
    ASSUME ForgedInv, Shape, [Next]_vars
    PROVE  ForgedInv'
<1>1. CASE UNCHANGED vars  BY <1>1 DEF vars, pvars, vvars, ForgedInv
<1>2. CASE Forge
  <2>1. PICK c \in Field, p \in Proofs :
          Begin([num_vars |-> batch.max_num_vars, degree |-> batch.max_degree, claimed_sum |-> c], p, <<>>)
      BY <1>2 DEF Forge
  <2>2. /\ claim'.num_vars = batch.max_num_vars /\ claim'.degree = batch.max_degree
        /\ proof' = p /\ vchallenges' = <<>> /\ batch' = batch
        /\ verdict' = IF Len(p) = batch.max_num_vars THEN "running" ELSE "WrongNumberOfRounds"
      BY <1>2, <2>1 DEF Begin, Forge
  <2>3. p \in Seq(Seq(Field)) /\ batch \in Forged  BY <1>2, ProofAssumption DEF Forge
  <2> QED BY <2>2, <2>3 DEF ForgedInv
<1>3. CASE Verify
  <2> SUFFICES ASSUME phase' = "forged" PROVE ForgedInv'
      BY DEF ForgedInv
  <2>1. VNext /\ UNCHANGED <<batch, phase>>  BY <1>3 DEF Verify, pvars
  <2>2. UNCHANGED <<claim, proof>> /\ verdict = "running"
      BY <2>1 DEF VNext, RejectRound, AcceptRound, Reduce
  <2>3. /\ batch \in Forged /\ claim.num_vars = batch.max_num_vars /\ claim.degree = batch.max_degree
        /\ vchallenges \in Seq(Field) /\ proof \in Seq(Seq(Field)) /\ Len(proof) = claim.num_vars
      BY <2>1, <2>2 DEF ForgedInv
  <2>4. vchallenges' \in Seq(Field)
    <3>1. CASE RejectRound \/ Reduce  BY <2>3, <3>1 DEF RejectRound, Reduce
    <3>2. CASE AcceptRound
      <4>1. PICK r \in Squeeze(vtranscript') : oracle' = Remember(vtranscript', r) /\ vchallenges' = Append(vchallenges, r)
          BY <3>2 DEF AcceptRound
      <4>2. r \in Field  BY <4>1, OracleKept DEF Shape
      <4> QED BY <2>3, <4>1, <4>2
    <3> QED BY <2>1, <3>1, <3>2 DEF VNext
  <2> QED BY <2>1, <2>2, <2>3, <2>4 DEF ForgedInv
<1>4. CASE \/ Check \/ StartRound \/ FailRound \/ FinishRound \/ LastRound \/ Finish
           \/ \E item \in work : Run(item)
           \/ \E m \in ToFinish : FinishMember(m)
  <2>1. phase' # "forged"
      BY <1>4 DEF Check, CheckError, MemberError, StartRound, FailRound, RoundErrors, ItemErrors, FinishRound,
                  LastRound, Finish, Run, FinishMember
  <2> QED BY <2>1 DEF ForgedInv
<1> QED BY <1>1, <1>2, <1>3, <1>4 DEF Next

\* The forged member, bound at the challenges so far.
LEMMA ForgedTables ==
    ASSUME ForgedInv, Shape, phase = "forged"
    PROVE  \E n \in Nat :
             /\ n > 0 /\ n <= batch.max_degree /\ batch.kernels[1] \in Families(n)
             /\ Tables(batch.kernels[1], n, TwoTo(batch.max_num_vars))
<1> DEFINE fs == batch.kernels[1]
           n == Len(fs)
<1>1. batch \in Forged  BY DEF ForgedInv
<1>2. 1 \in 1 .. Len(batch.kernels)  BY <1>1, KernelAssumption, ForgedAssumption, EmptySeq, LenProperties
<1>3. IsTables(fs) /\ Len(fs[1]) = TwoTo(Vars(fs))  BY <1>2, KernelTables
<1>4. Vars(fs) = batch.max_num_vars /\ n <= batch.max_degree  BY <1>1, ForgedAssumption
<1> HIDE DEF fs
<1>5. Tables(fs, n, TwoTo(batch.max_num_vars))  BY <1>3, <1>4 DEF IsTables
<1>6. n \in Nat /\ n > 0 /\ fs \in Families(n)  BY <1>5 DEF Tables, Families
<1> QED BY <1>4, <1>5, <1>6 DEF fs

LEMMA LuckStep ==
    ASSUME ForgedInv, Shape, TypeInv, [Next]_vars,
           phase = "forged", vround' > vround, running_sum # Remaining(vchallenges)
    PROVE  Cardinality({r \in Field : EvaluateWithHint(proof[vround'], running_sum, r)
                                         = Remaining(Append(vchallenges, r))}) <= claim.degree
<1>1. vchallenges \in Seq(Field) /\ vround \in Nat /\ proof \in Seq(Seq(Field)) /\ batch \in Forged
      /\ claim.num_vars = batch.max_num_vars /\ claim.degree = batch.max_degree
      /\ batch.max_num_vars \in Nat /\ batch.max_degree \in Nat
    BY BatchFields DEF ForgedInv, vround
<1>2. AcceptRound /\ vround' = vround + 1
  <2>1. vchallenges' # vchallenges
    <3> SUFFICES ASSUME vchallenges' = vchallenges PROVE FALSE
        OBVIOUS
    <3>1. vround' = vround  BY DEF vround
    <3> QED BY <1>1, <3>1
  <2>2. AcceptRound
    <3>1. Verify
        BY <2>1, <1>1 DEF Next, vars, pvars, vvars, Forge, Check, StartRound, FailRound, FinishRound, LastRound, Finish,
                     Run, FinishMember
    <3> QED BY <2>1, <3>1 DEF Verify, VNext, RejectRound, Reduce
  <2>3. \E r : r \in Field /\ vchallenges' = Append(vchallenges, r)
    <3>1. PICK r \in Squeeze(vtranscript') : oracle' = Remember(vtranscript', r) /\ vchallenges' = Append(vchallenges, r)
        BY <2>2 DEF AcceptRound
    <3>2. r \in Field  BY <3>1, OracleKept DEF Shape
    <3> QED BY <3>1, <3>2
  <2>4. vround' = vround + 1  BY <1>1, <2>3 DEF vround
  <2> QED BY <2>2, <2>4
<1> DEFINE w == proof[vround + 1]
           s == vchallenges
           fs == batch.kernels[1]
           N == batch.max_num_vars
<1>3. verdict = "running" /\ vround < Len(proof) /\ RoundError(w) = "none" /\ Len(proof) = N
    BY <1>1, <1>2 DEF AcceptRound, ForgedInv
<1>4. w \in Seq(Field)
  <2> DEFINE S == Seq(Field)
  <2>1. proof \in Seq(S)  BY <1>1
  <2> HIDE DEF S, N
  <2>2. vround + 1 \in 1 .. Len(proof)  BY <1>1, <1>3, <2>1
  <2>3. proof[vround + 1] \in S  BY <2>1, <2>2, ElementOfSeq
  <2> QED BY <2>3 DEF S
<1>5. w # <<>> /\ ~(Len(w) > claim.degree)  BY <1>3 DEF RoundError, CompressedDegree
<1>6. Len(w) <= batch.max_degree
  <2>1. Len(w) \in Nat
    <3> HIDE DEF w
    <3> QED BY <1>4
  <2> QED BY <1>1, <1>5, <2>1
<1>7. PICK n \in Nat : n > 0 /\ n <= batch.max_degree /\ fs \in Families(n) /\ Tables(fs, n, TwoTo(N))
    BY ForgedTables
<1>8. PICK m \in Nat : m = Len(s) /\ vround = m  BY <1>1 DEF vround
<1>9. N \in Nat /\ m < N /\ m \in 0 .. N  BY <1>1, <1>3, <1>8
<1> DEFINE gs == FoldLeft(Bind, fs, s)
<1> HIDE DEF w, fs, N
<1>10. Tables(gs, n, TwoTo(N - m))  BY <1>1, <1>7, <1>8, <1>9, BoundTables
<1>11. PICK j \in Nat : N - m = j + 1
  <2>1. (N - m) - 1 \in Nat /\ N - m = ((N - m) - 1) + 1  BY <1>8, <1>9
  <2> QED BY <2>1
<1>12. PICK h \in Nat : TwoTo(j + 1) = h + h  BY <1>11, TwoToNext
<1>13. Tables(gs, n, h + h)  BY <1>10, <1>11, <1>12
<1>14. \A r \in Field : Remaining(Append(s, r)) = Sum(Bind(gs, r))
  <2> SUFFICES ASSUME NEW r \in Field PROVE Remaining(Append(s, r)) = Sum(Bind(gs, r))
      OBVIOUS
  <2>1. FoldLeft(Bind, fs, Append(s, r)) = Bind(FoldLeft(Bind, fs, s), r)
      BY <1>1, <1>7, <1>8, BoundAppend
  <2> QED BY <2>1 DEF Remaining, fs
<1>15. Remaining(s) = Sum(gs)  BY DEF Remaining, fs
<1>16. running_sum \in Field /\ running_sum # Sum(gs)  BY <1>15 DEF TypeInv
<1> DEFINE Lucky == {r \in Field : EvaluateWithHint(w, running_sum, r) = Sum(Bind(gs, r))}
<1> HIDE DEF gs
<1>17. Cardinality(Lucky) <= batch.max_degree
    BY <1>1, <1>4, <1>5, <1>6, <1>7, <1>13, <1>16, LuckOfARound
<1>18. Lucky = {r \in Field : EvaluateWithHint(proof[vround'], running_sum, r) = Remaining(Append(vchallenges, r))}
    BY <1>2, <1>14 DEF w
<1> QED BY <1>1, <1>17, <1>18

\* A wrong claim survives a round for at most degree of the challenges, in any
\* field and for any proof the prover sends (verify_compressed).
THEOREM LuckIsBounded == Spec => LuckBounded
<1> DEFINE Inv == DeliveryInv /\ ClaimsInv /\ LockstepInv /\ TypeInv /\ ForgedInv
<1>1. Init => Inv  BY DeliveryInit, ClaimsInit, LockstepInit, TypeInit DEF Init, ForgedInv
<1>2. Inv /\ [Next]_vars => Inv'
    BY DeliveryStep, ClaimsStep, LockstepStep, TypeStep, ForgedStep DEF DeliveryInv
<1>3. Inv /\ [Next]_vars =>
        [/\ phase = "forged" /\ vround' > vround
         /\ running_sum # Remaining(vchallenges) /\ running_sum' = Remaining(vchallenges')
         => Cardinality({r \in Field : EvaluateWithHint(proof[vround'], running_sum, r)
                                          = Remaining(Append(vchallenges, r))}) <= claim.degree]_vars
  <2> SUFFICES ASSUME Inv, [Next]_vars, phase = "forged" /\ vround' > vround /\ running_sum # Remaining(vchallenges)
               PROVE  Cardinality({r \in Field : EvaluateWithHint(proof[vround'], running_sum, r)
                                          = Remaining(Append(vchallenges, r))}) <= claim.degree
      OBVIOUS
  <2> QED BY LuckStep DEF DeliveryInv
<1> QED BY <1>1, <1>2, <1>3, PTL DEF Spec, LuckBounded

=============================================================================
