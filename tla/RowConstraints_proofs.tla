------------------------ MODULE RowConstraints_proofs ------------------------
(***************************************************************************)
(* Proofs about module RowConstraints: for every width of words, every     *)
(* prime field that holds a product of two of them, every program length   *)
(* and every memory, a complete witness is the machine's step, honest rows *)
(* satisfy the constraints, and check_record says what they say.           *)
(***************************************************************************)
EXTENDS RowConstraints, Numbers_proofs

-----------------------------------------------------------------------------
(* Linear forms *)

\* What a form sums, by column.
Summands(f, w) == [c \in DOMAIN f |-> f[c] * w[c]]
Summable(f, w) ==
    IsFiniteSet(DOMAIN f) /\ \A c \in DOMAIN f : f[c] \in Int /\ w[c] \in Int

\* A form is the sum of its summands, in whatever order TLC's definition takes them.
LEMMA FormIsSum ==
    ASSUME NEW f, NEW w, Summable(f, w)
    PROVE  \E F : IsSum(F, DOMAIN f, Summands(f, w)) /\ Form(f, w) = F[DOMAIN f]
<1> DEFINE S == DOMAIN f
           h == Summands(f, w)
           it == CHOOSE it : Sums(it, S, h)
<1>1. IsFiniteSet(S) /\ h \in [S -> Int]  BY DEF Summable, Summands
<1>2. PICK F : IsSum(F, S, h)  BY <1>1, SumExists
<1>3. Form(f, w) = it[S]
  <2> DEFINE J(g) == g = [s \in SUBSET S |-> IF s = {} THEN 0
                            ELSE f[CHOOSE x \in s : TRUE] * w[CHOOSE x \in s : TRUE]
                                    + g[s \ {CHOOSE x \in s : TRUE}]]
  <2>1. Form(f, w) = (CHOOSE g : J(g))[S]  BY Zenon DEF Form, MapThenSumSet, MapThenFoldSet
  <2>2. ASSUME NEW s \in SUBSET S, s # {}
        PROVE  f[CHOOSE x \in s : TRUE] * w[CHOOSE x \in s : TRUE] = h[CHOOSE x \in s : TRUE]
      BY <2>2 DEF Summands
  <2> HIDE DEF h, S
  <2>3. ASSUME NEW g PROVE J(g) <=> Sums(g, S, h)  BY <2>2 DEF Sums
  <2>4. (CHOOSE g : J(g)) = it
    <3> HIDE DEF J
    <3> QED BY <2>3, Zenon
  <2> QED BY <2>1, <2>4, Zenon DEF S
<1>4. Sums(F, S, h)  BY <1>2, SumIsSums
<1>5. Sums(it, S, h)  BY <1>4, Zenon
<1> HIDE DEF h, S, it
<1>6. it[S] = F[S]  BY <1>1, <1>2, <1>5, SumAnyOrder, Zenon
<1> QED BY <1>2, <1>3, <1>6 DEF S, h

\* The form of no column is 0.
LEMMA FormNone == ASSUME NEW f, NEW w, DOMAIN f = {} PROVE Form(f, w) = 0
<1>1. IsFiniteSet({})  BY FS_EmptySet
<1>2. Summable(f, w)  BY <1>1 DEF Summable
<1>3. PICK F : IsSum(F, DOMAIN f, Summands(f, w)) /\ Form(f, w) = F[DOMAIN f]  BY <1>2, FormIsSum
<1> QED BY <1>3 DEF IsSum

\* The sum over a column and the rest.
LEMMA FormMore ==
    ASSUME NEW f, NEW w, Summable(f, w), NEW g, NEW x, x \in DOMAIN f,
           DOMAIN g = DOMAIN f \ {x}, \A c \in DOMAIN g : g[c] = f[c]
    PROVE  Form(f, w) = f[x] * w[x] + Form(g, w) /\ Summable(g, w)
<1>1. IsFiniteSet(DOMAIN g)  BY FS_Subset DEF Summable
<1>2. Summable(g, w)  BY <1>1 DEF Summable
<1>3. PICK F : IsSum(F, DOMAIN f, Summands(f, w)) /\ Form(f, w) = F[DOMAIN f]  BY FormIsSum
<1>4. PICK G : IsSum(G, DOMAIN g, Summands(g, w)) /\ Form(g, w) = G[DOMAIN g]  BY <1>2, FormIsSum
<1> DEFINE D == DOMAIN g
           S == DOMAIN f
           hf == Summands(f, w)
           hg == Summands(g, w)
           R == SumOver(F, D)
<1>5. D \in SUBSET S /\ S \ {x} = D /\ x \in S  OBVIOUS
<1>6. hg \in [D -> Int] /\ \A c \in D : hg[c] = hf[c]  BY <1>2 DEF Summable, Summands
<1>7. hf[x] = f[x] * w[x]  BY DEF Summands
<1>8. IsSum(F, S, hf) /\ IsSum(G, D, hg) /\ IsFiniteSet(D)  BY <1>1, <1>3, <1>4
<1> HIDE DEF hf, hg, D, S
<1>9. F[S] = hf[x] + F[D]  BY <1>5, <1>8 DEF IsSum
<1>10. IsSum(R, D, hg)  BY <1>5, <1>6, <1>8, SumRestricts, Zenon
<1>11. R[D] = F[D]  BY DEF SumOver
<1> HIDE DEF R
<1>12. R[D] = G[D]  BY <1>6, <1>8, <1>10, SumUnique
<1> QED BY <1>2, <1>3, <1>4, <1>7, <1>9, <1>11, <1>12 DEF D, S

\* Taking one column from a form takes its summand.
LEMMA FormLess ==
    ASSUME NEW f, NEW w, Summable(f, w), NEW x, x \in DOMAIN f
    PROVE  Form(f, w) = f[x] * w[x] + Form([c \in DOMAIN f \ {x} |-> f[c]], w)
<1> DEFINE g == [c \in DOMAIN f \ {x} |-> f[c]]
<1>1. DOMAIN g = DOMAIN f \ {x} /\ \A c \in DOMAIN g : g[c] = f[c]  OBVIOUS
<1> HIDE DEF g
<1> QED BY <1>1, FormMore DEF g

\* A form of one column.
LEMMA OneColumn ==
    ASSUME NEW w, NEW x, NEW k \in Int, w[x] \in Int
    PROVE  Form(Column(x, k), w) = k * w[x] /\ Summable(Column(x, k), w)
<1> DEFINE f == Column(x, k)
<1>1. DOMAIN f = {x} /\ f[x] = k  BY DEF Column
<1> HIDE DEF f
<1>2. IsFiniteSet({x})  BY FS_Singleton
<1>3. Summable(f, w)  BY <1>1, <1>2 DEF Summable
<1>4. Form(f, w) = f[x] * w[x] + Form([c \in DOMAIN f \ {x} |-> f[c]], w)  BY <1>1, <1>3, FormLess
<1>5. Form([c \in DOMAIN f \ {x} |-> f[c]], w) = 0
  <2> DEFINE g == [c \in DOMAIN f \ {x} |-> f[c]]
  <2>1. DOMAIN g = {}  BY <1>1
  <2> HIDE DEF g
  <2>2. Form(g, w) = 0  BY <2>1, FormNone
  <2> QED BY <2>2 DEF g
<1>6. Form(f, w) = k * w[x]  BY <1>1, <1>4, <1>5
<1> QED BY <1>3, <1>6 DEF f

\* A form extended by a new column.
LEMMA MoreColumns ==
    ASSUME NEW w, NEW g, Summable(g, w), NEW x, x \notin DOMAIN g, NEW k \in Int, w[x] \in Int
    PROVE  Form(g ++ Column(x, k), w) = k * w[x] + Form(g, w) /\ Summable(g ++ Column(x, k), w)
<1> DEFINE f == g ++ Column(x, k)
<1>1. DOMAIN f = DOMAIN g \cup {x} /\ f[x] = k /\ \A c \in DOMAIN g : f[c] = g[c]  BY DEF Column, ++
<1>2. IsFiniteSet(DOMAIN g \cup {x})  BY FS_AddElement DEF Summable
<1> HIDE DEF f
<1>3. Summable(f, w)  BY <1>1, <1>2 DEF Summable
<1>4. x \in DOMAIN f /\ DOMAIN g = DOMAIN f \ {x} /\ \A c \in DOMAIN g : g[c] = f[c]  BY <1>1
<1>5. Form(f, w) = f[x] * w[x] + Form(g, w)  BY <1>3, <1>4, FormMore
<1> QED BY <1>1, <1>3, <1>5 DEF f

\* Forms over integers are integers.
LEMMA FormTyped == ASSUME NEW f, NEW w, Summable(f, w) PROVE Form(f, w) \in Int
<1>1. PICK F : IsSum(F, DOMAIN f, Summands(f, w)) /\ Form(f, w) = F[DOMAIN f]  BY FormIsSum
<1> QED BY <1>1 DEF IsSum

-----------------------------------------------------------------------------
(* What the guards and differences of the constraints are. *)

Ints(w, S) == \A c \in S : w[c] \in Int

\* The forms of the constraints, by how many columns they have.
LEMMA DiffOne == ASSUME NEW w, NEW x, w[x] \in Int PROVE Form(C(x), w) = w[x] /\ Summable(C(x), w)
<1>1. Form(C(x), w) = 1 * w[x] /\ Summable(C(x), w)  BY OneColumn DEF C
<1> QED BY <1>1

LEMMA DiffTwo ==
    ASSUME NEW w, NEW x, NEW y, x # y, w[x] \in Int, w[y] \in Int
    PROVE  Form(C(x) ++ Minus(y), w) = w[x] - w[y] /\ Summable(C(x) ++ Minus(y), w)
<1>1. Form(C(x), w) = w[x] /\ Summable(C(x), w)  BY DiffOne
<1>2. DOMAIN C(x) = {x} /\ -1 \in Int  BY DEF C, Column
<1>3. y \notin DOMAIN C(x)  BY <1>2
<1>4. Form(C(x) ++ Minus(y), w) = (-1) * w[y] + Form(C(x), w) /\ Summable(C(x) ++ Minus(y), w)
    BY <1>1, <1>2, <1>3, MoreColumns DEF Minus
<1> QED BY <1>1, <1>4

LEMMA DiffThree ==
    ASSUME NEW w, NEW x, NEW y, NEW z, x # y, x # z, y # z,
           w[x] \in Int, w[y] \in Int, w[z] \in Int
    PROVE  /\ Form(C(x) ++ Minus(y) ++ Minus(z), w) = w[x] - w[y] - w[z]
           /\ Summable(C(x) ++ Minus(y) ++ Minus(z), w)
<1> DEFINE g == C(x) ++ Minus(y)
<1>1. Form(g, w) = w[x] - w[y] /\ Summable(g, w)  BY DiffTwo
<1>2. z \notin DOMAIN g /\ -1 \in Int  BY DEF C, Minus, Column, ++
<1> HIDE DEF g
<1>3. Form(g ++ Minus(z), w) = (-1) * w[z] + Form(g, w) /\ Summable(g ++ Minus(z), w)
    BY <1>1, <1>2, MoreColumns DEF Minus
<1>4. Form(g ++ Minus(z), w) = w[x] - w[y] - w[z] /\ Summable(g ++ Minus(z), w)  BY <1>1, <1>3
<1> QED BY <1>4 DEF g

LEMMA DiffSub ==
    ASSUME NEW w, NEW x, NEW y, NEW z, NEW one, x # y, x # z, x # one, y # z, y # one, z # one,
           w[x] \in Int, w[y] \in Int, w[z] \in Int, w[one] \in Int, NEW m \in Int
    PROVE  /\ Form(C(x) ++ Minus(y) ++ C(z) ++ Column(one, m), w) = w[x] - w[y] + w[z] + m * w[one]
           /\ Summable(C(x) ++ Minus(y) ++ C(z) ++ Column(one, m), w)
<1> DEFINE g == C(x) ++ Minus(y)
           h == g ++ C(z)
<1>1. Form(g, w) = w[x] - w[y] /\ Summable(g, w)  BY DiffTwo
<1>2. z \notin DOMAIN g /\ one \notin DOMAIN g \cup {z} /\ 1 \in Int /\ DOMAIN h = DOMAIN g \cup {z}
    BY DEF C, Minus, Column, ++
<1> HIDE DEF g
<1>3. Form(h, w) = 1 * w[z] + Form(g, w) /\ Summable(h, w)  BY <1>1, <1>2, MoreColumns DEF C
<1>4. one \notin DOMAIN h  BY <1>2
<1> HIDE DEF h
<1>5. Form(h ++ Column(one, m), w) = m * w[one] + Form(h, w) /\ Summable(h ++ Column(one, m), w)
    BY <1>3, <1>4, MoreColumns
<1>6. Form(h ++ Column(one, m), w) = w[x] - w[y] + w[z] + m * w[one]  BY <1>1, <1>3, <1>5
<1> QED BY <1>5, <1>6 DEF g, h

\* A guard extended by one flag, and by none.
LEMMA EitherMore ==
    ASSUME NEW w, NEW S, IsFiniteSet(S), Ints(w, S), NEW x \in S
    PROVE  Form(Either(S), w) = w[x] + Form(Either(S \ {x}), w)
<1> DEFINE f == Either(S)
           g == Either(S \ {x})
<1>1. DOMAIN f = S /\ DOMAIN g = S \ {x} /\ (\A c \in S : f[c] = 1) /\ \A c \in DOMAIN g : g[c] = f[c]
    BY DEF Either
<1> HIDE DEF f, g
<1>2. Summable(f, w)  BY <1>1 DEF Summable, Ints
<1>3. Form(f, w) = f[x] * w[x] + Form(g, w)  BY <1>1, <1>2, FormMore
<1> QED BY <1>1, <1>3 DEF f, g, Ints

LEMMA WithoutMore ==
    ASSUME NEW w, NEW S, IsFiniteSet(S), Ints(w, S), "const" \notin S, w["const"] \in Int, NEW x \in S
    PROVE  /\ Form(Without(S), w) = Form(Without(S \ {x}), w) - w[x]
           /\ Form(Without(S \ {x}), w) \in Int
<1> DEFINE f == Without(S)
           g == Without(S \ {x})
<1>1. /\ DOMAIN f = S \cup {"const"} /\ DOMAIN g = (S \ {x}) \cup {"const"}
      /\ (\A c \in S : f[c] = -1) /\ f["const"] = 1 /\ \A c \in DOMAIN g : g[c] = f[c]
    BY DEF Without, One, Column, ++
<1> HIDE DEF f, g
<1>2. IsFiniteSet(S \cup {"const"})  BY FS_AddElement
<1>3. Summable(f, w)  BY <1>1, <1>2 DEF Summable, Ints
<1>4. Form(f, w) = f[x] * w[x] + Form(g, w) /\ Summable(g, w)  BY <1>1, <1>3, FormMore
<1>5. Form(g, w) \in Int  BY <1>4, FormTyped
<1> QED BY <1>1, <1>4, <1>5 DEF f, g, Ints

LEMMA WithoutNone == ASSUME NEW w, w["const"] \in Int PROVE Form(Without({}), w) = w["const"]
<1> DEFINE f == Without({})
<1>1. f = Column("const", 1)
  <2>1. DOMAIN f = {"const"} /\ f["const"] = 1  BY DEF Without, One, Column, ++
  <2>2. f = [c \in {"const"} |-> f[c]]  BY <2>1 DEF Without, ++
  <2> HIDE DEF f
  <2>3. f = [c \in {"const"} |-> 1]  BY <2>1, <2>2
  <2> QED BY <2>3 DEF Column
<1>2. Form(Column("const", 1), w) = 1 * w["const"]  BY OneColumn
<1> QED BY <1>1, <1>2

LEMMA EitherNone == ASSUME NEW w PROVE Form(Either({}), w) = 0
<1>1. DOMAIN Either({}) = {}  BY DEF Either
<1> QED BY <1>1, FormNone

LEMMA NothingIsZero == ASSUME NEW w PROVE Form(Nothing, w) = 0
<1>1. DOMAIN Nothing = {}  BY DEF Nothing
<1> QED BY <1>1, FormNone

\* A form reads its own columns only.
LEMMA FormReads ==
    ASSUME NEW f, NEW w, NEW v, \A c \in DOMAIN f : w[c] = v[c]
    PROVE  Form(f, w) = Form(f, v)
<1> DEFINE S == DOMAIN f
           J(g, u) == g = [s \in SUBSET S |-> IF s = {} THEN 0
                            ELSE f[CHOOSE x \in s : TRUE] * u[CHOOSE x \in s : TRUE]
                                    + g[s \ {CHOOSE x \in s : TRUE}]]
<1>1. Form(f, w) = (CHOOSE g : J(g, w))[S] /\ Form(f, v) = (CHOOSE g : J(g, v))[S]
    BY Zenon DEF Form, MapThenSumSet, MapThenFoldSet
<1>2. ASSUME NEW s \in SUBSET S, s # {}
      PROVE  f[CHOOSE x \in s : TRUE] * w[CHOOSE x \in s : TRUE]
                 = f[CHOOSE x \in s : TRUE] * v[CHOOSE x \in s : TRUE]
    BY <1>2
<1> HIDE DEF S
<1>3. ASSUME NEW g PROVE J(g, w) <=> J(g, v)  BY <1>2
<1>4. (CHOOSE g : J(g, w)) = (CHOOSE g : J(g, v))
  <2> HIDE DEF J
  <2> QED BY <1>3, Zenon
<1> QED BY <1>1, <1>4, Zenon

\* A form over columns that are 0 is 0.
LEMMA FormZero ==
    ASSUME NEW f, NEW w, Summable(f, w), \A c \in DOMAIN f : w[c] = 0
    PROVE  Form(f, w) = 0
<1> DEFINE S == DOMAIN f
           h == Summands(f, w)
           Z == [T \in SUBSET S |-> 0]
<1>1. PICK F : IsSum(F, S, h) /\ Form(f, w) = F[S]  BY FormIsSum
<1>2. IsFiniteSet(S) /\ h \in [S -> Int] /\ \A c \in S : h[c] = 0  BY DEF Summable, Summands
<1> HIDE DEF h
<1>3. IsSum(Z, S, h)
  <2>1. Z \in [SUBSET S -> Int] /\ Z[{}] = 0  OBVIOUS
  <2>2. ASSUME NEW T \in SUBSET S, NEW x \in T PROVE Z[T] = h[x] + Z[T \ {x}]  BY <1>2, <2>2
  <2> QED BY <2>1, <2>2 DEF IsSum
<1>4. Z[S] = 0  OBVIOUS
<1> HIDE DEF Z, S
<1>5. F[S] = Z[S]  BY <1>1, <1>2, <1>3, SumUnique
<1> QED BY <1>1, <1>4, <1>5

-----------------------------------------------------------------------------
(* A witness holds a flag as a bit, and no two flags of one guard are set. *)

Holding(w, S, flags) == \A f \in S : w[f] = Bool(f \in flags)
AtMostOne(S, flags) == \A f, g \in S : f \in flags /\ g \in flags => f = g

\* Either is 1 when a flag of it is set, Without when none is, and 0 otherwise.
LEMMA EitherFlags ==
    ASSUME NEW w, NEW S, IsFiniteSet(S), NEW flags, Holding(w, S, flags), AtMostOne(S, flags)
    PROVE  Form(Either(S), w) = Bool(S \cap flags # {})
<1>1. Ints(w, S)  BY DEF Ints, Holding, Bool
<1>2. ASSUME NEW T \in SUBSET S, T \cap flags = {} PROVE Form(Either(T), w) = 0
    BY <1>2, FS_Subset, FormZero DEF Either, Holding, Bool, Summable
<1>3. CASE S \cap flags = {}  BY <1>2, <1>3 DEF Bool
<1>4. CASE S \cap flags # {}
  <2>1. PICK x \in S : x \in flags  BY <1>4
  <2>2. S \ {x} \in SUBSET S /\ (S \ {x}) \cap flags = {}  BY <2>1 DEF AtMostOne
  <2>3. Form(Either(S), w) = w[x] + Form(Either(S \ {x}), w)  BY <1>1, EitherMore
  <2>4. Form(Either(S \ {x}), w) = 0  BY <1>2, <2>2
  <2> QED BY <1>4, <2>1, <2>3, <2>4 DEF Holding, Bool
<1> QED BY <1>3, <1>4

LEMMA WithoutFlags ==
    ASSUME NEW w, NEW S, IsFiniteSet(S), NEW flags, Holding(w, S, flags), AtMostOne(S, flags),
           "const" \notin S, w["const"] = 1
    PROVE  Form(Without(S), w) = Bool(S \cap flags = {})
<1>1. Ints(w, S) /\ w["const"] \in Int  BY DEF Ints, Holding, Bool
<1>2. ASSUME NEW T \in SUBSET S, T \cap flags = {} PROVE Form(Without(T), w) = 1
  <2> DEFINE f == Without(T)
             g == [c \in T |-> -1]
  <2>1. DOMAIN f = T \cup {"const"} /\ f["const"] = 1 /\ \A c \in T : f[c] = -1 /\ w[c] = 0
      BY <1>2 DEF Without, One, Column, ++, Holding, Bool
  <2>2. IsFiniteSet(T \cup {"const"})  BY FS_Subset, FS_AddElement
  <2>3. DOMAIN g = DOMAIN f \ {"const"} /\ \A c \in DOMAIN g : g[c] = f[c]  BY <2>1
  <2> HIDE DEF f, g
  <2>4. Summable(f, w)  BY <1>1, <2>1, <2>2 DEF Summable
  <2>5. Form(f, w) = f["const"] * w["const"] + Form(g, w) /\ Summable(g, w)
      BY <2>1, <2>3, <2>4, FormMore
  <2>6. Form(g, w) = 0  BY <2>1, <2>3, <2>5, FormZero
  <2> QED BY <2>1, <2>5, <2>6 DEF f
<1>3. CASE S \cap flags = {}  BY <1>2, <1>3 DEF Bool
<1>4. CASE S \cap flags # {}
  <2>1. PICK x \in S : x \in flags  BY <1>4
  <2>2. S \ {x} \in SUBSET S /\ (S \ {x}) \cap flags = {}  BY <2>1 DEF AtMostOne
  <2>3. Form(Without(S), w) = Form(Without(S \ {x}), w) - w[x]  BY <1>1, WithoutMore
  <2>4. Form(Without(S \ {x}), w) = 1  BY <1>2, <2>2
  <2> QED BY <1>4, <2>1, <2>3, <2>4 DEF Holding, Bool
<1> QED BY <1>3, <1>4

-----------------------------------------------------------------------------
(* The constraints, one group of rows at a time *)

Elements(s) == {s[n] : n \in 1 .. Len(s)}

Lists(s, S) == s \in Seq(S) /\ Elements(s) = S

\* A sequence and the set of what it lists.
LEMMA ListsJoin ==
    ASSUME NEW S, NEW T, NEW s, NEW t, Lists(s, S), Lists(t, T)
    PROVE  Lists(s \o t, S \cup T) /\ Len(s \o t) = Len(s) + Len(t)
<1> DEFINE U == S \cup T
<1>1. s \in Seq(U) /\ t \in Seq(U)  BY DEF Lists
<1> HIDE DEF U
<1>2. s \o t \in Seq(U) /\ Len(s \o t) = Len(s) + Len(t) /\ Len(s) \in Nat /\ Len(t) \in Nat
    BY <1>1
<1>3. \A n \in 1 .. Len(s) : (s \o t)[n] = s[n]  BY <1>1, <1>2
<1>4. \A n \in 1 .. Len(t) : (s \o t)[Len(s) + n] = t[n]  BY <1>1, <1>2
<1>5. Elements(s \o t) \subseteq Elements(s) \cup Elements(t)
  <2> SUFFICES ASSUME NEW n \in 1 .. Len(s \o t) PROVE (s \o t)[n] \in Elements(s) \cup Elements(t)
      BY DEF Elements
  <2>1. CASE n \in 1 .. Len(s)  BY <1>3, <2>1 DEF Elements
  <2>2. CASE n \notin 1 .. Len(s)  BY <1>2, <2>2, <1>4 DEF Elements
  <2> QED BY <2>1, <2>2
<1>6. Elements(s) \subseteq Elements(s \o t)
  <2> SUFFICES ASSUME NEW n \in 1 .. Len(s) PROVE s[n] \in Elements(s \o t)
      BY DEF Elements
  <2>1. n \in 1 .. Len(s \o t)  BY <1>2
  <2> QED BY <1>3, <2>1 DEF Elements
<1>7. Elements(t) \subseteq Elements(s \o t)
  <2> SUFFICES ASSUME NEW n \in 1 .. Len(t) PROVE t[n] \in Elements(s \o t)
      BY DEF Elements
  <2>1. Len(s) + n \in 1 .. Len(s \o t)  BY <1>2
  <2> QED BY <1>4, <2>1 DEF Elements
<1> QED BY <1>2, <1>5, <1>6, <1>7 DEF U, Lists

LEMMA Elements2 ==
    ASSUME NEW x1, NEW x2
    PROVE  <<x1, x2>> \in Seq({x1, x2}) /\ Elements(<<x1, x2>>) = {x1, x2}
<1>1. Len(<<x1, x2>>) = 2  OBVIOUS
<1> QED BY <1>1 DEF Elements

LEMMA Elements3 ==
    ASSUME NEW x1, NEW x2, NEW x3
    PROVE  <<x1, x2, x3>> \in Seq({x1, x2, x3}) /\ Elements(<<x1, x2, x3>>) = {x1, x2, x3}
<1>1. Len(<<x1, x2, x3>>) = 3  OBVIOUS
<1> QED BY <1>1 DEF Elements

LEMMA Elements5 ==
    ASSUME NEW x1, NEW x2, NEW x3, NEW x4, NEW x5
    PROVE  /\ <<x1, x2, x3, x4, x5>> \in Seq({x1, x2, x3, x4, x5})
           /\ Elements(<<x1, x2, x3, x4, x5>>) = {x1, x2, x3, x4, x5}
<1>1. Len(<<x1, x2, x3, x4, x5>>) = 5  OBVIOUS
<1> QED BY <1>1 DEF Elements

LEMMA Elements6 ==
    ASSUME NEW x1, NEW x2, NEW x3, NEW x4, NEW x5, NEW x6
    PROVE  /\ <<x1, x2, x3, x4, x5, x6>> \in Seq({x1, x2, x3, x4, x5, x6})
           /\ Elements(<<x1, x2, x3, x4, x5, x6>>) = {x1, x2, x3, x4, x5, x6}
<1>1. Len(<<x1, x2, x3, x4, x5, x6>>) = 6  OBVIOUS
<1> QED BY <1>1 DEF Elements

InputSet ==
    {Eq(C("LeftIsRs1"), C("left_input") ++ Minus("rs1")),
     Eq(Without({"LeftIsRs1"}), C("left_input")),
     Eq(C("RightIsRs2"), C("right_input") ++ Minus("rs2")),
     Eq(C("RightIsImm"), C("right_input") ++ Minus("imm")),
     Eq(Without({"RightIsRs2", "RightIsImm"}), C("right_input"))}
RamSet ==
    {Eq(Either({"Load", "Store"}), C("ram_address") ++ Minus("rs1") ++ Minus("imm")),
     Eq(Without({"Load", "Store"}), C("ram_address")),
     Eq(C("Load"), C("ram_read") ++ Minus("ram_write")),
     Eq(C("Load"), C("ram_read") ++ Minus("rd_write")),
     Eq(C("Store"), C("rs2") ++ Minus("ram_write"))}
LookupSet ==
    {Eq(Either(Combined), C("left_lookup")),
     Eq(Without(Combined), C("left_lookup") ++ Minus("left_input")),
     Eq(C("AddOperands"), C("right_lookup") ++ Minus("left_input") ++ Minus("right_input")),
     Eq(C("SubOperands"), C("right_lookup") ++ Minus("left_input") ++ C("right_input")
                            ++ Column("const", -M)),
     Eq(C("MulOperands"), C("right_lookup") ++ Minus("product")),
     Eq(Without(Combined \cup {"Advice"}), C("right_lookup") ++ Minus("right_input"))}
OutputSet ==
    {Eq(C("Assert"), C("lookup_output") ++ Minus("const")),
     Eq(C("WriteLookupToRd"), C("rd_write") ++ Minus("lookup_output")),
     Eq(C("Jump"), C("next_pc") ++ Minus("lookup_output"))}
NextPcSet ==
    {Eq(C("should_branch"), C("next_pc") ++ Minus("imm")),
     Eq(C("Halt"), C("next_pc") ++ Minus("pc")),
     Eq(Without({"should_branch", "Jump", "Halt"}), C("next_pc") ++ Minus("pc") ++ Minus("const"))}
ProductPairSet ==
    {Times("left_input", "right_input", "product"),
     Times("lookup_output", "Branch", "should_branch")}

\* The constraints, as a set.
LEMMA ConstraintsAre ==
    Constraints = InputSet \cup RamSet \cup LookupSet \cup OutputSet \cup NextPcSet \cup ProductPairSet
<1>1. Lists(InputRows, InputSet)  BY Elements5 DEF InputRows, InputSet, Lists
<1>2. Lists(RamRows, RamSet)  BY Elements5 DEF RamRows, RamSet, Lists
<1>3. Lists(LookupRows, LookupSet)  BY Elements6 DEF LookupRows, LookupSet, Lists
<1>4. Lists(OutputRows, OutputSet)  BY Elements3 DEF OutputRows, OutputSet, Lists
<1>5. Lists(NextPcRows, NextPcSet)  BY Elements3 DEF NextPcRows, NextPcSet, Lists
<1>6. Lists(ProductRows, ProductPairSet)  BY Elements2 DEF ProductRows, ProductPairSet, Lists
<1>7. Lists(InputRows \o RamRows, InputSet \cup RamSet)  BY <1>1, <1>2, ListsJoin
<1>8. Lists(InputRows \o RamRows \o LookupRows, InputSet \cup RamSet \cup LookupSet)
    BY <1>3, <1>7, ListsJoin
<1>9. Lists(InputRows \o RamRows \o LookupRows \o OutputRows,
            InputSet \cup RamSet \cup LookupSet \cup OutputSet)
    BY <1>4, <1>8, ListsJoin
<1>10. Lists(InputRows \o RamRows \o LookupRows \o OutputRows \o NextPcRows,
             InputSet \cup RamSet \cup LookupSet \cup OutputSet \cup NextPcSet)
    BY <1>5, <1>9, ListsJoin
<1>11. Lists(EqRows, InputSet \cup RamSet \cup LookupSet \cup OutputSet \cup NextPcSet)
    BY <1>10, Zenon DEF EqRows
<1>12. Lists(EqRows \o ProductRows, InputSet \cup RamSet \cup LookupSet \cup OutputSet
             \cup NextPcSet \cup ProductPairSet)
          /\ Len(EqRows \o ProductRows) = Len(EqRows) + Len(ProductRows)
    BY <1>6, <1>11, ListsJoin
<1> QED BY <1>12, Zenon DEF Constraints, Lists, Elements

-----------------------------------------------------------------------------
(* The sizes of the words and of the field *)

\* A product of two words is less than the characteristic.
LEMMA Sizes ==
    /\ W \in Nat /\ W - 1 \in Nat
    /\ M \in Nat /\ M >= 2
    /\ M \div 2 \in Nat /\ M = M \div 2 + M \div 2
    /\ P \in Nat /\ P > 2 * M
    /\ \A x, y \in Word : x * y \in 0 .. M * M - 1 /\ x * y < P
<1>1. W \in Nat /\ W - 1 \in Nat /\ (W - 1) + 1 = W  BY WidthAssumption
<1> DEFINE h == 2^(W - 1)
<1>2. h \in Nat /\ h > 0  BY <1>1, PowerPositive
<1>3. M = h + h  BY <1>1, PowerNext DEF M
<1> HIDE DEF h
<1>4. M \in Nat /\ M >= 2 /\ M \div 2 = h  BY <1>2, <1>3
<1>5. M * M >= 2 * M /\ M * M \in Nat  BY <1>4
<1>6. P \in Nat /\ P > M * M  BY FieldAssumption
<1>7. ASSUME NEW x \in Word, NEW y \in Word PROVE x * y \in 0 .. M * M - 1 /\ x * y < P
    BY <1>4, <1>5, <1>6 DEF Word
<1> QED BY <1>1, <1>2, <1>3, <1>4, <1>5, <1>6, <1>7

-----------------------------------------------------------------------------
(* What the constraints say of a witness: a row's flags select its rows. *)

Zero(x) == x % P = 0
Set(flag) == flag \in spec.flags

\* The columns no flag names.
ValueColumns ==
    {"left_input", "right_input", "product", "pc", "imm", "ram_address", "rs1", "rs2", "rd_write",
     "ram_read", "ram_write", "left_lookup", "right_lookup", "next_pc", "lookup_output",
     "should_branch"}
RowFlagSet ==
    {"LeftIsRs1", "RightIsRs2", "RightIsImm", "AddOperands", "SubOperands", "MulOperands",
     "WriteLookupToRd", "Load", "Store", "Jump", "Branch", "Assert", "Halt", "Trap", "Advice"}

Witnessed(w) ==
    /\ w["const"] = 1
    /\ Ints(w, ValueColumns)
    /\ Holding(w, RowFlagSet, spec.flags)

\* No two flags of one guard are set.
Exclusive ==
    /\ AtMostOne({"RightIsRs2", "RightIsImm"}, spec.flags)
    /\ AtMostOne({"Load", "Store"}, spec.flags)
    /\ AtMostOne(Combined \cup {"Advice"}, spec.flags)
    /\ AtMostOne({"Jump", "Halt"}, spec.flags)

\* A guarded equality holds when its guard is 0 or its difference is.
LEMMA Guarded ==
    ASSUME NEW w, NEW g, NEW d, NEW p \in BOOLEAN, NEW e \in Int, Form(g, w) = Bool(p), Form(d, w) = e
    PROVE  Satisfied(Eq(g, d), w) <=> (p => Zero(e))
<1>1. Eq(g, d).a = g /\ Eq(g, d).b = d /\ Eq(g, d).c = Nothing  BY DEF Eq
<1>2. Satisfied(Eq(g, d), w) <=> (Bool(p) * e - 0) % P = 0  BY <1>1, NothingIsZero DEF Satisfied
<1>3. CASE p  BY <1>2, <1>3 DEF Bool, Zero
<1>4. CASE ~p  BY Sizes, <1>2, <1>4 DEF Bool
<1> QED BY <1>3, <1>4

\* Every kind of guard is a bit: one flag, either of several, none of several.
LEMMA FlagGuard ==
    ASSUME NEW w, Witnessed(w), NEW flag \in RowFlagSet
    PROVE  Form(C(flag), w) = Bool(Set(flag)) /\ Set(flag) \in BOOLEAN
<1>1. w[flag] = Bool(Set(flag))  BY DEF Witnessed, Holding, Set
<1>2. w[flag] \in Int  BY <1>1 DEF Bool
<1> QED BY <1>1, <1>2, DiffOne DEF Set

LEMMA Finite ==
    /\ \A x : IsFiniteSet({x})
    /\ \A x, y : IsFiniteSet({x, y})
    /\ \A x, y, z : IsFiniteSet({x, y, z})
    /\ \A x, y, z, t : IsFiniteSet({x, y, z, t})
<1>1. \A x : IsFiniteSet({x})  BY FS_Singleton
<1>2. \A S, x : IsFiniteSet(S) => IsFiniteSet(S \cup {x})  BY FS_AddElement
<1>3. ASSUME NEW x, NEW y PROVE IsFiniteSet({x, y})
  <2>1. IsFiniteSet({x} \cup {y}) /\ {x} \cup {y} = {x, y}  BY <1>1, <1>2
  <2> QED BY <2>1
<1>4. ASSUME NEW x, NEW y, NEW z PROVE IsFiniteSet({x, y, z})
  <2>1. IsFiniteSet({x, y} \cup {z}) /\ {x, y} \cup {z} = {x, y, z}  BY <1>2, <1>3
  <2> QED BY <2>1
<1>5. ASSUME NEW x, NEW y, NEW z, NEW t PROVE IsFiniteSet({x, y, z, t})
  <2>1. IsFiniteSet({x, y, z} \cup {t}) /\ {x, y, z} \cup {t} = {x, y, z, t}  BY <1>2, <1>4
  <2> QED BY <2>1
<1> QED BY <1>1, <1>3, <1>4, <1>5, Zenon

NoneSet(S) == S \cap spec.flags = {}
SomeSet(S) == S \cap spec.flags # {}

LEMMA EitherGuard ==
    ASSUME NEW w, Witnessed(w), NEW S, S \subseteq RowFlagSet, IsFiniteSet(S), AtMostOne(S, spec.flags)
    PROVE  Form(Either(S), w) = Bool(SomeSet(S)) /\ SomeSet(S) \in BOOLEAN
<1>1. Holding(w, S, spec.flags)  BY DEF Witnessed, Holding
<1> QED BY <1>1, EitherFlags DEF SomeSet

LEMMA WithoutGuard ==
    ASSUME NEW w, Witnessed(w), NEW S, S \subseteq RowFlagSet, IsFiniteSet(S), AtMostOne(S, spec.flags)
    PROVE  Form(Without(S), w) = Bool(NoneSet(S)) /\ NoneSet(S) \in BOOLEAN
<1>1. Holding(w, S, spec.flags) /\ "const" \notin S /\ w["const"] = 1
    BY DEF Witnessed, Holding, RowFlagSet
<1> QED BY <1>1, WithoutFlags DEF NoneSet

InputHolds(w) ==
    /\ Set("LeftIsRs1") => Zero(w["left_input"] - w["rs1"])
    /\ NoneSet({"LeftIsRs1"}) => Zero(w["left_input"])
    /\ Set("RightIsRs2") => Zero(w["right_input"] - w["rs2"])
    /\ Set("RightIsImm") => Zero(w["right_input"] - w["imm"])
    /\ NoneSet({"RightIsRs2", "RightIsImm"}) => Zero(w["right_input"])

\* What the rows of InputRows say.
LEMMA InputSatisfied ==
    ASSUME NEW w, Witnessed(w), Exclusive
    PROVE  (\A k \in InputSet : Satisfied(k, w)) <=> InputHolds(w)
<1>1. /\ w["left_input"] \in Int /\ w["rs1"] \in Int /\ w["right_input"] \in Int
      /\ w["rs2"] \in Int /\ w["imm"] \in Int
    BY DEF Witnessed, Ints, ValueColumns
<1>2. Satisfied(Eq(C("LeftIsRs1"), C("left_input") ++ Minus("rs1")), w)
        <=> (Set("LeftIsRs1") => Zero(w["left_input"] - w["rs1"]))
    BY FlagGuard, <1>1, DiffTwo, Guarded DEF RowFlagSet
<1>3. Satisfied(Eq(Without({"LeftIsRs1"}), C("left_input")), w)
        <=> (NoneSet({"LeftIsRs1"}) => Zero(w["left_input"]))
  <2>1. {"LeftIsRs1"} \subseteq RowFlagSet /\ AtMostOne({"LeftIsRs1"}, spec.flags)
      BY DEF RowFlagSet, AtMostOne
  <2>2. Form(Without({"LeftIsRs1"}), w) = Bool(NoneSet({"LeftIsRs1"}))
              /\ NoneSet({"LeftIsRs1"}) \in BOOLEAN
      BY <2>1, WithoutGuard, Finite
  <2>3. Form(C("left_input"), w) = w["left_input"]  BY <1>1, DiffOne
  <2> QED BY <1>1, <2>2, <2>3, Guarded
<1>4. Satisfied(Eq(C("RightIsRs2"), C("right_input") ++ Minus("rs2")), w)
        <=> (Set("RightIsRs2") => Zero(w["right_input"] - w["rs2"]))
    BY FlagGuard, <1>1, DiffTwo, Guarded DEF RowFlagSet
<1>5. Satisfied(Eq(C("RightIsImm"), C("right_input") ++ Minus("imm")), w)
        <=> (Set("RightIsImm") => Zero(w["right_input"] - w["imm"]))
    BY FlagGuard, <1>1, DiffTwo, Guarded DEF RowFlagSet
<1>6. Satisfied(Eq(Without({"RightIsRs2", "RightIsImm"}), C("right_input")), w)
        <=> (NoneSet({"RightIsRs2", "RightIsImm"}) => Zero(w["right_input"]))
  <2>1. {"RightIsRs2", "RightIsImm"} \subseteq RowFlagSet  BY DEF RowFlagSet
  <2>2. /\ Form(Without({"RightIsRs2", "RightIsImm"}), w) = Bool(NoneSet({"RightIsRs2", "RightIsImm"}))
        /\ NoneSet({"RightIsRs2", "RightIsImm"}) \in BOOLEAN
      BY <2>1, WithoutGuard, Finite DEF Exclusive
  <2>3. Form(C("right_input"), w) = w["right_input"]  BY <1>1, DiffOne
  <2> QED BY <1>1, <2>2, <2>3, Guarded
<1>7. (\A k \in InputSet : Satisfied(k, w)) <=>
        /\ Satisfied(Eq(C("LeftIsRs1"), C("left_input") ++ Minus("rs1")), w)
        /\ Satisfied(Eq(Without({"LeftIsRs1"}), C("left_input")), w)
        /\ Satisfied(Eq(C("RightIsRs2"), C("right_input") ++ Minus("rs2")), w)
        /\ Satisfied(Eq(C("RightIsImm"), C("right_input") ++ Minus("imm")), w)
        /\ Satisfied(Eq(Without({"RightIsRs2", "RightIsImm"}), C("right_input")), w)
    BY Zenon DEF InputSet
<1> QED BY <1>2, <1>3, <1>4, <1>5, <1>6, <1>7, Zenon DEF InputHolds

RamHolds(w) ==
    /\ SomeSet({"Load", "Store"}) => Zero(w["ram_address"] - w["rs1"] - w["imm"])
    /\ NoneSet({"Load", "Store"}) => Zero(w["ram_address"])
    /\ Set("Load") => Zero(w["ram_read"] - w["ram_write"])
    /\ Set("Load") => Zero(w["ram_read"] - w["rd_write"])
    /\ Set("Store") => Zero(w["rs2"] - w["ram_write"])

\* What the rows of RamRows say.
LEMMA RamSatisfied ==
    ASSUME NEW w, Witnessed(w), Exclusive
    PROVE  (\A k \in RamSet : Satisfied(k, w)) <=> RamHolds(w)
<1>1. /\ w["ram_address"] \in Int
      /\ w["rs1"] \in Int
      /\ w["imm"] \in Int
      /\ w["ram_read"] \in Int
      /\ w["ram_write"] \in Int
      /\ w["rd_write"] \in Int
      /\ w["rs2"] \in Int
      /\ w["const"] = 1 /\ M \in Int
    BY Sizes DEF Witnessed, Ints, ValueColumns
<1>2. Satisfied(Eq(Either({"Load", "Store"}), C("ram_address") ++ Minus("rs1") ++ Minus("imm")), w)
        <=> (SomeSet({"Load", "Store"}) => Zero(w["ram_address"] - w["rs1"] - w["imm"]))
  <2>4. {"Load", "Store"} \subseteq RowFlagSet  BY DEF RowFlagSet
  <2>1. Form(Either({"Load", "Store"}), w) = Bool(SomeSet({"Load", "Store"}))
              /\ SomeSet({"Load", "Store"}) \in BOOLEAN
      BY <2>4, EitherGuard, Finite DEF Exclusive
  <2>2. Form(C("ram_address") ++ Minus("rs1") ++ Minus("imm"), w) = w["ram_address"] - w["rs1"] - w["imm"]
      BY <1>1, DiffThree
  <2>3. w["ram_address"] - w["rs1"] - w["imm"] \in Int  BY <1>1
  <2> QED BY <2>1, <2>2, <2>3, Guarded
<1>3. Satisfied(Eq(Without({"Load", "Store"}), C("ram_address")), w)
        <=> (NoneSet({"Load", "Store"}) => Zero(w["ram_address"]))
  <2>4. {"Load", "Store"} \subseteq RowFlagSet  BY DEF RowFlagSet
  <2>1. Form(Without({"Load", "Store"}), w) = Bool(NoneSet({"Load", "Store"}))
              /\ NoneSet({"Load", "Store"}) \in BOOLEAN
      BY <2>4, WithoutGuard, Finite DEF Exclusive
  <2>2. Form(C("ram_address"), w) = w["ram_address"]  BY <1>1, DiffOne
  <2>3. w["ram_address"] \in Int  BY <1>1
  <2> QED BY <2>1, <2>2, <2>3, Guarded
<1>4. Satisfied(Eq(C("Load"), C("ram_read") ++ Minus("ram_write")), w)
        <=> (Set("Load") => Zero(w["ram_read"] - w["ram_write"]))
    BY FlagGuard, <1>1, DiffTwo, Guarded DEF RowFlagSet
<1>5. Satisfied(Eq(C("Load"), C("ram_read") ++ Minus("rd_write")), w)
        <=> (Set("Load") => Zero(w["ram_read"] - w["rd_write"]))
    BY FlagGuard, <1>1, DiffTwo, Guarded DEF RowFlagSet
<1>6. Satisfied(Eq(C("Store"), C("rs2") ++ Minus("ram_write")), w)
        <=> (Set("Store") => Zero(w["rs2"] - w["ram_write"]))
    BY FlagGuard, <1>1, DiffTwo, Guarded DEF RowFlagSet
<1>7. (\A k \in RamSet : Satisfied(k, w)) <=>
        /\ Satisfied(Eq(Either({"Load", "Store"}), C("ram_address") ++ Minus("rs1") ++ Minus("imm")), w)
        /\ Satisfied(Eq(Without({"Load", "Store"}), C("ram_address")), w)
        /\ Satisfied(Eq(C("Load"), C("ram_read") ++ Minus("ram_write")), w)
        /\ Satisfied(Eq(C("Load"), C("ram_read") ++ Minus("rd_write")), w)
        /\ Satisfied(Eq(C("Store"), C("rs2") ++ Minus("ram_write")), w)
    BY Zenon DEF RamSet
<1> QED BY <1>2, <1>3, <1>4, <1>5, <1>6, <1>7, Zenon DEF RamHolds

LookupHolds(w) ==
    /\ SomeSet(Combined) => Zero(w["left_lookup"])
    /\ NoneSet(Combined) => Zero(w["left_lookup"] - w["left_input"])
    /\ Set("AddOperands") => Zero(w["right_lookup"] - w["left_input"] - w["right_input"])
    /\ Set("SubOperands") => Zero(w["right_lookup"] - w["left_input"] + w["right_input"] - M)
    /\ Set("MulOperands") => Zero(w["right_lookup"] - w["product"])
    /\ NoneSet(Combined \cup {"Advice"}) => Zero(w["right_lookup"] - w["right_input"])

\* What the rows of LookupRows say.
LEMMA LookupSatisfied ==
    ASSUME NEW w, Witnessed(w), Exclusive
    PROVE  (\A k \in LookupSet : Satisfied(k, w)) <=> LookupHolds(w)
<1>1. /\ w["left_lookup"] \in Int
      /\ w["left_input"] \in Int
      /\ w["right_lookup"] \in Int
      /\ w["right_input"] \in Int
      /\ w["product"] \in Int
      /\ w["const"] = 1 /\ M \in Int
    BY Sizes DEF Witnessed, Ints, ValueColumns
<1>2. Satisfied(Eq(Either(Combined), C("left_lookup")), w)
        <=> (SomeSet(Combined) => Zero(w["left_lookup"]))
  <2>4. Combined \subseteq RowFlagSet /\ AtMostOne(Combined, spec.flags)
      BY DEF RowFlagSet, Combined, Exclusive, AtMostOne
  <2>5. IsFiniteSet(Combined)  BY Finite DEF Combined
  <2>1. Form(Either(Combined), w) = Bool(SomeSet(Combined)) /\ SomeSet(Combined) \in BOOLEAN
      BY <2>4, <2>5, EitherGuard
  <2>2. Form(C("left_lookup"), w) = w["left_lookup"]  BY <1>1, DiffOne
  <2>3. w["left_lookup"] \in Int  BY <1>1
  <2> QED BY <2>1, <2>2, <2>3, Guarded
<1>3. Satisfied(Eq(Without(Combined), C("left_lookup") ++ Minus("left_input")), w)
        <=> (NoneSet(Combined) => Zero(w["left_lookup"] - w["left_input"]))
  <2>4. Combined \subseteq RowFlagSet /\ AtMostOne(Combined, spec.flags)
      BY DEF RowFlagSet, Combined, Exclusive, AtMostOne
  <2>5. IsFiniteSet(Combined)  BY Finite DEF Combined
  <2>1. Form(Without(Combined), w) = Bool(NoneSet(Combined)) /\ NoneSet(Combined) \in BOOLEAN
      BY <2>4, <2>5, WithoutGuard
  <2>2. Form(C("left_lookup") ++ Minus("left_input"), w) = w["left_lookup"] - w["left_input"]
      BY <1>1, DiffTwo
  <2>3. w["left_lookup"] - w["left_input"] \in Int  BY <1>1
  <2> QED BY <2>1, <2>2, <2>3, Guarded
<1>4. Satisfied(Eq(C("AddOperands"), C("right_lookup") ++ Minus("left_input") ++ Minus("right_input")), w)
        <=> (Set("AddOperands") => Zero(w["right_lookup"] - w["left_input"] - w["right_input"]))
    BY FlagGuard, <1>1, DiffThree, Guarded DEF RowFlagSet
<1>5. Satisfied(Eq(C("SubOperands"), C("right_lookup") ++ Minus("left_input") ++ C("right_input")
            ++ Column("const", -M)), w)
        <=> (Set("SubOperands") => Zero(w["right_lookup"] - w["left_input"] + w["right_input"] - M))
  <2>1. Form(C("SubOperands"), w) = Bool(Set("SubOperands")) /\ Set("SubOperands") \in BOOLEAN
      BY FlagGuard DEF RowFlagSet
  <2>2. Form(C("right_lookup") ++ Minus("left_input") ++ C("right_input") ++ Column("const", -M), w)
              = w["right_lookup"] - w["left_input"] + w["right_input"] - M
      BY <1>1, DiffSub
  <2>3. w["right_lookup"] - w["left_input"] + w["right_input"] - M \in Int  BY <1>1
  <2> QED BY <2>1, <2>2, <2>3, Guarded
<1>6. Satisfied(Eq(C("MulOperands"), C("right_lookup") ++ Minus("product")), w)
        <=> (Set("MulOperands") => Zero(w["right_lookup"] - w["product"]))
    BY FlagGuard, <1>1, DiffTwo, Guarded DEF RowFlagSet
<1>7. Satisfied(Eq(Without(Combined \cup {"Advice"}), C("right_lookup") ++ Minus("right_input")), w)
        <=> (NoneSet(Combined \cup {"Advice"}) => Zero(w["right_lookup"] - w["right_input"]))
  <2>4. Combined \cup {"Advice"} \subseteq RowFlagSet /\ AtMostOne(Combined \cup {"Advice"}, spec.flags)
      BY DEF RowFlagSet, Combined, Exclusive, AtMostOne
  <2>5. IsFiniteSet(Combined \cup {"Advice"})  BY Finite, FS_AddElement DEF Combined
  <2>1. Form(Without(Combined \cup {"Advice"}), w) = Bool(NoneSet(Combined \cup {"Advice"}))
              /\ NoneSet(Combined \cup {"Advice"}) \in BOOLEAN
      BY <2>4, <2>5, WithoutGuard
  <2>2. Form(C("right_lookup") ++ Minus("right_input"), w) = w["right_lookup"] - w["right_input"]
      BY <1>1, DiffTwo
  <2>3. w["right_lookup"] - w["right_input"] \in Int  BY <1>1
  <2> QED BY <2>1, <2>2, <2>3, Guarded
<1>8. (\A k \in LookupSet : Satisfied(k, w)) <=>
        /\ Satisfied(Eq(Either(Combined), C("left_lookup")), w)
        /\ Satisfied(Eq(Without(Combined), C("left_lookup") ++ Minus("left_input")), w)
        /\ Satisfied(Eq(C("AddOperands"), C("right_lookup") ++ Minus("left_input")
                 ++ Minus("right_input")), w)
        /\ Satisfied(Eq(C("SubOperands"), C("right_lookup") ++ Minus("left_input")
                 ++ C("right_input") ++ Column("const", -M)), w)
        /\ Satisfied(Eq(C("MulOperands"), C("right_lookup") ++ Minus("product")), w)
        /\ Satisfied(Eq(Without(Combined \cup {"Advice"}), C("right_lookup") ++ Minus("right_input")), w)
    BY Zenon DEF LookupSet
<1> QED BY <1>2, <1>3, <1>4, <1>5, <1>6, <1>7, <1>8, Zenon DEF LookupHolds

OutputHolds(w) ==
    /\ Set("Assert") => Zero(w["lookup_output"] - 1)
    /\ Set("WriteLookupToRd") => Zero(w["rd_write"] - w["lookup_output"])
    /\ Set("Jump") => Zero(w["next_pc"] - w["lookup_output"])

\* What the rows of OutputRows say.
LEMMA OutputSatisfied ==
    ASSUME NEW w, Witnessed(w), Exclusive
    PROVE  (\A k \in OutputSet : Satisfied(k, w)) <=> OutputHolds(w)
<1>1. /\ w["lookup_output"] \in Int
      /\ w["rd_write"] \in Int
      /\ w["next_pc"] \in Int
      /\ w["const"] = 1 /\ M \in Int
    BY Sizes DEF Witnessed, Ints, ValueColumns
<1>2. Satisfied(Eq(C("Assert"), C("lookup_output") ++ Minus("const")), w)
        <=> (Set("Assert") => Zero(w["lookup_output"] - 1))
    BY FlagGuard, <1>1, DiffTwo, Guarded DEF RowFlagSet
<1>3. Satisfied(Eq(C("WriteLookupToRd"), C("rd_write") ++ Minus("lookup_output")), w)
        <=> (Set("WriteLookupToRd") => Zero(w["rd_write"] - w["lookup_output"]))
    BY FlagGuard, <1>1, DiffTwo, Guarded DEF RowFlagSet
<1>4. Satisfied(Eq(C("Jump"), C("next_pc") ++ Minus("lookup_output")), w)
        <=> (Set("Jump") => Zero(w["next_pc"] - w["lookup_output"]))
    BY FlagGuard, <1>1, DiffTwo, Guarded DEF RowFlagSet
<1>5. (\A k \in OutputSet : Satisfied(k, w)) <=>
        /\ Satisfied(Eq(C("Assert"), C("lookup_output") ++ Minus("const")), w)
        /\ Satisfied(Eq(C("WriteLookupToRd"), C("rd_write") ++ Minus("lookup_output")), w)
        /\ Satisfied(Eq(C("Jump"), C("next_pc") ++ Minus("lookup_output")), w)
    BY Zenon DEF OutputSet
<1> QED BY <1>2, <1>3, <1>4, <1>5, Zenon DEF OutputHolds

NextPcHolds(w) ==
    /\ Zero(w["should_branch"] * (w["next_pc"] - w["imm"]))
    /\ Set("Halt") => Zero(w["next_pc"] - w["pc"])
    /\ Zero((Bool(NoneSet({"Jump", "Halt"})) - w["should_branch"]) * (w["next_pc"] - w["pc"] - 1))

\* What the rows of NextPcRows say: the guards multiply should_branch, not a flag.
LEMMA NextPcSatisfied ==
    ASSUME NEW w, Witnessed(w), Exclusive
    PROVE  (\A k \in NextPcSet : Satisfied(k, w)) <=> NextPcHolds(w)
<1>1. /\ w["should_branch"] \in Int /\ w["next_pc"] \in Int /\ w["imm"] \in Int /\ w["pc"] \in Int
      /\ w["const"] = 1
    BY DEF Witnessed, Ints, ValueColumns
<1>2. Satisfied(Eq(C("should_branch"), C("next_pc") ++ Minus("imm")), w)
        <=> Zero(w["should_branch"] * (w["next_pc"] - w["imm"]))
  <2> DEFINE k == Eq(C("should_branch"), C("next_pc") ++ Minus("imm"))
  <2>1. k.a = C("should_branch") /\ k.b = C("next_pc") ++ Minus("imm") /\ k.c = Nothing  BY DEF Eq
  <2>2. Form(C("should_branch"), w) = w["should_branch"]  BY <1>1, DiffOne
  <2>3. Form(C("next_pc") ++ Minus("imm"), w) = w["next_pc"] - w["imm"]  BY <1>1, DiffTwo
  <2> HIDE DEF k
  <2>4. Satisfied(k, w) <=> (w["should_branch"] * (w["next_pc"] - w["imm"]) - 0) % P = 0
      BY <2>1, <2>2, <2>3, NothingIsZero DEF Satisfied
  <2>5. w["should_branch"] * (w["next_pc"] - w["imm"]) - 0
              = w["should_branch"] * (w["next_pc"] - w["imm"])
      BY <1>1
  <2> QED BY <2>4, <2>5, Zenon DEF Zero, k
<1>3. Satisfied(Eq(C("Halt"), C("next_pc") ++ Minus("pc")), w)
        <=> (Set("Halt") => Zero(w["next_pc"] - w["pc"]))
    BY FlagGuard, <1>1, DiffTwo, Guarded DEF RowFlagSet
<1>4. Satisfied(Eq(Without({"should_branch", "Jump", "Halt"}),
                   C("next_pc") ++ Minus("pc") ++ Minus("const")), w)
        <=> Zero((Bool(NoneSet({"Jump", "Halt"})) - w["should_branch"]) * (w["next_pc"] - w["pc"] - 1))
  <2> DEFINE S == {"should_branch", "Jump", "Halt"}
             k == Eq(Without(S), C("next_pc") ++ Minus("pc") ++ Minus("const"))
             d == w["next_pc"] - w["pc"] - 1
             g == Bool(NoneSet({"Jump", "Halt"})) - w["should_branch"]
  <2>1. k.a = Without(S) /\ k.b = C("next_pc") ++ Minus("pc") ++ Minus("const") /\ k.c = Nothing
      BY DEF Eq
  <2>2. Form(C("next_pc") ++ Minus("pc") ++ Minus("const"), w) = d  BY <1>1, DiffThree
  <2>3. IsFiniteSet(S)  BY Finite
  <2>4. Ints(w, S) /\ "const" \notin S /\ w["const"] \in Int /\ "should_branch" \in S
      BY <1>1 DEF Witnessed, Holding, RowFlagSet, Ints, Bool
  <2>5. S \ {"should_branch"} = {"Jump", "Halt"}  OBVIOUS
  <2>6. Form(Without({"Jump", "Halt"}), w) = Bool(NoneSet({"Jump", "Halt"}))
      BY WithoutGuard, Finite DEF RowFlagSet, Exclusive
  <2> HIDE DEF S
  <2>7. Form(Without(S), w) = Form(Without(S \ {"should_branch"}), w) - w["should_branch"]
      BY <2>3, <2>4, WithoutMore
  <2>8. Form(Without(S), w) = g  BY <2>5, <2>6, <2>7
  <2>9. g \in Int /\ d \in Int  BY <1>1 DEF Bool
  <2> HIDE DEF k, g, d
  <2>10. Satisfied(k, w) <=> (g * d - 0) % P = 0  BY <2>1, <2>2, <2>8, NothingIsZero DEF Satisfied
  <2>11. g * d - 0 = g * d  BY <2>9
  <2> QED BY <2>10, <2>11, Zenon DEF Zero, k, S, g, d
<1>5. (\A k \in NextPcSet : Satisfied(k, w)) <=>
        /\ Satisfied(Eq(C("should_branch"), C("next_pc") ++ Minus("imm")), w)
        /\ Satisfied(Eq(C("Halt"), C("next_pc") ++ Minus("pc")), w)
        /\ Satisfied(Eq(Without({"should_branch", "Jump", "Halt"}),
                        C("next_pc") ++ Minus("pc") ++ Minus("const")), w)
    BY Zenon DEF NextPcSet
<1> QED BY <1>2, <1>3, <1>4, <1>5, Zenon DEF NextPcHolds

ProductHolds(w) ==
    /\ Zero(w["left_input"] * w["right_input"] - w["product"])
    /\ Zero(w["lookup_output"] * Bool(Set("Branch")) - w["should_branch"])

\* What the product constraints say.
LEMMA TimesSatisfied ==
    ASSUME NEW w, NEW x, NEW y, NEW z, w[x] \in Int, w[y] \in Int, w[z] \in Int
    PROVE  Satisfied(Times(x, y, z), w) <=> Zero(w[x] * w[y] - w[z])
<1>1. Times(x, y, z).a = C(x) /\ Times(x, y, z).b = C(y) /\ Times(x, y, z).c = C(z)  BY DEF Times
<1>2. Form(C(x), w) = w[x] /\ Form(C(y), w) = w[y] /\ Form(C(z), w) = w[z]  BY DiffOne
<1> QED BY <1>1, <1>2, Zenon DEF Satisfied, Zero

LEMMA ProductSatisfied ==
    ASSUME NEW w, Witnessed(w)
    PROVE  (\A k \in ProductPairSet : Satisfied(k, w)) <=> ProductHolds(w)
<1>1. /\ w["left_input"] \in Int /\ w["right_input"] \in Int /\ w["product"] \in Int
      /\ w["lookup_output"] \in Int /\ w["should_branch"] \in Int
    BY DEF Witnessed, Ints, ValueColumns
<1>2. w["Branch"] = Bool(Set("Branch")) /\ w["Branch"] \in Int
    BY DEF Witnessed, Holding, RowFlagSet, Bool, Set
<1>3. Satisfied(Times("left_input", "right_input", "product"), w)
        <=> Zero(w["left_input"] * w["right_input"] - w["product"])
    BY <1>1, TimesSatisfied
<1>4. Satisfied(Times("lookup_output", "Branch", "should_branch"), w)
        <=> Zero(w["lookup_output"] * w["Branch"] - w["should_branch"])
    BY <1>1, <1>2, TimesSatisfied
<1>5. (\A k \in ProductPairSet : Satisfied(k, w)) <=>
        /\ Satisfied(Times("left_input", "right_input", "product"), w)
        /\ Satisfied(Times("lookup_output", "Branch", "should_branch"), w)
    BY Zenon DEF ProductPairSet
<1> QED BY <1>2, <1>3, <1>4, <1>5, Zenon DEF ProductHolds

AllHold(w) ==
    /\ InputHolds(w)
    /\ RamHolds(w)
    /\ LookupHolds(w)
    /\ OutputHolds(w)
    /\ NextPcHolds(w)
    /\ ProductHolds(w)

\* The constraints of a row, by its flags.
LEMMA AllSatisfied ==
    ASSUME NEW w, Witnessed(w), Exclusive
    PROVE  (\A k \in Constraints : Satisfied(k, w)) <=> AllHold(w)
<1>1. (\A k \in Constraints : Satisfied(k, w)) <=>
        /\ \A k \in InputSet : Satisfied(k, w)
        /\ \A k \in RamSet : Satisfied(k, w)
        /\ \A k \in LookupSet : Satisfied(k, w)
        /\ \A k \in OutputSet : Satisfied(k, w)
        /\ \A k \in NextPcSet : Satisfied(k, w)
        /\ \A k \in ProductPairSet : Satisfied(k, w)
    BY ConstraintsAre, Zenon
<1>2. (\A k \in InputSet : Satisfied(k, w)) <=> InputHolds(w)  BY InputSatisfied
<1>3. (\A k \in RamSet : Satisfied(k, w)) <=> RamHolds(w)  BY RamSatisfied
<1>4. (\A k \in LookupSet : Satisfied(k, w)) <=> LookupHolds(w)  BY LookupSatisfied
<1>5. (\A k \in OutputSet : Satisfied(k, w)) <=> OutputHolds(w)  BY OutputSatisfied
<1>6. (\A k \in NextPcSet : Satisfied(k, w)) <=> NextPcHolds(w)  BY NextPcSatisfied
<1>7. (\A k \in ProductPairSet : Satisfied(k, w)) <=> ProductHolds(w)  BY ProductSatisfied
<1> QED BY <1>1, <1>2, <1>3, <1>4, <1>5, <1>6, <1>7, Zenon DEF AllHold

-----------------------------------------------------------------------------
(* What row_spec makes of any instruction *)

Lookups == {"none", "Advice"} \cup AluOps
HasMode(lookup, mode) == lookup \in AluOps /\ OperandMode(lookup) = mode

SpecFacts(s) ==
    /\ s.flags \subseteq RowFlagSet
    /\ s.imm \in Word
    /\ s.lookup \in Lookups
    /\ s.rd <=> "WriteLookupToRd" \in s.flags \/ "Load" \in s.flags
    /\ AtMostOne({"RightIsRs2", "RightIsImm"}, s.flags)
    /\ AtMostOne({"Load", "Store"}, s.flags)
    /\ AtMostOne({"Load", "Store", "RightIsImm"}, s.flags)
    /\ AtMostOne({"Load", "Store", "Branch"}, s.flags)
    /\ AtMostOne({"AddOperands", "SubOperands", "MulOperands", "Advice"}, s.flags)
    /\ AtMostOne({"Jump", "Halt", "Branch"}, s.flags)
    /\ AtMostOne({"Load", "Store", "WriteLookupToRd"}, s.flags)
    /\ "AddOperands" \in s.flags <=> HasMode(s.lookup, "Add")
    /\ "SubOperands" \in s.flags <=> HasMode(s.lookup, "Sub")
    /\ "MulOperands" \in s.flags <=> HasMode(s.lookup, "Mul")
    /\ "Advice" \in s.flags <=> s.lookup = "Advice"
    /\ AtMostOne({"Advice", "LeftIsRs1"}, s.flags)
    /\ "Advice" \in s.flags => "WriteLookupToRd" \in s.flags
    /\ "Assert" \in s.flags \/ "Branch" \in s.flags => s.lookup \in Booleans
    /\ "Branch" \in s.flags => s.imm \in Pc

\* The operand mode of an operator is its one operand flag, or none.
LEMMA Modes ==
    ASSUME NEW op \in AluOps
    PROVE  /\ OperandMode(op) \in {"Interleaved", "Add", "Sub", "Mul"}
           /\ OperandMode(op) = "Interleaved" => OperandFlags(op) = {}
           /\ OperandMode(op) = "Add" => OperandFlags(op) = {"AddOperands"}
           /\ OperandMode(op) = "Sub" => OperandFlags(op) = {"SubOperands"}
           /\ OperandMode(op) = "Mul" => OperandFlags(op) = {"MulOperands"}
<1>1. OperandMode(op) \in {"Interleaved", "Add", "Sub", "Mul"}  BY DEF AluOps, OperandMode
<1> QED BY <1>1 DEF OperandFlags

LEMMA BooleansAreOps == Booleans \subseteq AluOps
    BY DEF Booleans, AluOps

\* The rows that read a lookup by its operands' mode.
LEMMA OperandFacts ==
    ASSUME NEW s, NEW op \in AluOps, NEW right \in {"RightIsRs2", "RightIsImm"},
           NEW kind \in {"WriteLookupToRd", "Assert", "Branch"},
           s.flags = {"LeftIsRs1", right} \cup {kind} \cup OperandFlags(op),
           s.lookup = op, s.rd = (kind = "WriteLookupToRd"),
           s.imm \in Word, kind # "WriteLookupToRd" => op \in Booleans, kind = "Branch" => s.imm \in Pc
    PROVE  SpecFacts(s)
<1>1. OperandMode(op) \in {"Interleaved", "Add", "Sub", "Mul"}  BY Modes
<1>2. op \in Lookups /\ op # "Advice" /\ \A mode : HasMode(op, mode) <=> OperandMode(op) = mode
    BY DEF Lookups, HasMode, AluOps
<1>3. CASE OperandMode(op) = "Interleaved"  BY <1>3, Modes, <1>2 DEF SpecFacts, AtMostOne, RowFlagSet
<1>4. CASE OperandMode(op) = "Add"
  <2>1. s.flags = {"LeftIsRs1", right, kind, "AddOperands"}  BY <1>4, Modes
  <2> QED BY <1>2, <1>4, <2>1 DEF SpecFacts, AtMostOne, RowFlagSet
<1>5. CASE OperandMode(op) = "Sub"
  <2>1. s.flags = {"LeftIsRs1", right, kind, "SubOperands"}  BY <1>5, Modes
  <2> QED BY <1>2, <1>5, <2>1 DEF SpecFacts, AtMostOne, RowFlagSet
<1>6. CASE OperandMode(op) = "Mul"
  <2>1. s.flags = {"LeftIsRs1", right, kind, "MulOperands"}  BY <1>6, Modes
  <2> QED BY <1>2, <1>6, <2>1 DEF SpecFacts, AtMostOne, RowFlagSet
<1> QED BY <1>1, <1>3, <1>4, <1>5, <1>6

\* The other rows, by their flags.
LEMMA PlainFacts ==
    ASSUME NEW s, s.imm \in Word,
           \/ s.lookup = "none" /\ s.rd = FALSE /\ s.flags \in {{}, {"Halt"}, {"Trap"}, {"Store"}}
           \/ s.lookup = "none" /\ s.rd = TRUE /\ s.flags = {"Load"}
           \/ s.lookup = "Advice" /\ s.rd = TRUE /\ s.flags = {"Advice", "WriteLookupToRd"}
           \/ s.lookup = "Add64" /\ s.rd = FALSE
                /\ s.flags \in {{"RightIsImm", "AddOperands", "Jump"}, {"LeftIsRs1", "AddOperands", "Jump"}}
    PROVE  SpecFacts(s)
<1>1. \A mode : ~HasMode("none", mode) /\ ~HasMode("Advice", mode)  BY DEF HasMode, AluOps
<1>2. HasMode("Add64", "Add") /\ ~HasMode("Add64", "Sub") /\ ~HasMode("Add64", "Mul")
    BY DEF HasMode, AluOps, OperandMode
<1>3. "none" \in Lookups /\ "Advice" \in Lookups /\ "Add64" \in Lookups  BY DEF Lookups, AluOps
<1>4. CASE s.lookup = "none" /\ s.rd = FALSE /\ s.flags \in {{}, {"Halt"}, {"Trap"}, {"Store"}}
    BY <1>1, <1>3, <1>4 DEF SpecFacts, AtMostOne, RowFlagSet
<1>5. CASE s.lookup = "none" /\ s.rd = TRUE /\ s.flags = {"Load"}
    BY <1>1, <1>3, <1>5 DEF SpecFacts, AtMostOne, RowFlagSet
<1>6. CASE s.lookup = "Advice" /\ s.rd = TRUE /\ s.flags = {"Advice", "WriteLookupToRd"}
    BY <1>1, <1>3, <1>6 DEF SpecFacts, AtMostOne, RowFlagSet
<1>7. CASE s.lookup = "Add64" /\ s.rd = FALSE
              /\ s.flags \in {{"RightIsImm", "AddOperands", "Jump"}, {"LeftIsRs1", "AddOperands", "Jump"}}
    BY <1>2, <1>3, <1>7 DEF SpecFacts, AtMostOne, RowFlagSet
<1> QED BY <1>4, <1>5, <1>6, <1>7

LEMMA WordsAre == Pc \subseteq Word /\ 0 \in Word /\ (\A x \in Int : x % M \in Word)
<1>1. M \in Nat /\ M >= 2  BY Sizes
<1> QED BY <1>1 DEF Pc, Word

\* What holds of the row of every instruction.
LEMMA SpecIs == ASSUME NEW i \in Instructions PROVE SpecFacts(RowSpec(i))
<1> DEFINE s == RowSpec(i)
<1>1. CASE i \in [ir : {"Nop", "Halt", "Trap", "Advice", "JumpReg"}]
  <2>1. i.ir \in {"Nop", "Halt", "Trap", "Advice", "JumpReg"}  BY <1>1
  <2>9. /\ i.ir = "Nop" => s = Row({}, {}, FALSE, 0, "none")
        /\ i.ir = "Halt" => s = Row({"Halt"}, {}, FALSE, 0, "none")
        /\ i.ir = "Trap" => s = Row({"Trap"}, {}, FALSE, 0, "none")
        /\ i.ir = "Advice" => s = Row({"Advice", "WriteLookupToRd"}, {"rs1", "rs2"}, TRUE, 0, "Advice")
        /\ i.ir = "JumpReg" => s = Row({"LeftIsRs1", "AddOperands", "Jump"}, {"rs1"}, FALSE, 0, "Add64")
      BY DEF RowSpec
  <2> HIDE DEF s
  <2>2. s.imm = 0  BY <2>1, <2>9 DEF Row
  <2>3. /\ i.ir = "Nop" => s.lookup = "none" /\ s.rd = FALSE /\ s.flags = {}
        /\ i.ir = "Halt" => s.lookup = "none" /\ s.rd = FALSE /\ s.flags = {"Halt"}
        /\ i.ir = "Trap" => s.lookup = "none" /\ s.rd = FALSE /\ s.flags = {"Trap"}
        /\ i.ir = "Advice" => s.lookup = "Advice" /\ s.rd = TRUE
                 /\ s.flags = {"Advice", "WriteLookupToRd"}
        /\ i.ir = "JumpReg" => s.lookup = "Add64" /\ s.rd = FALSE
                                /\ s.flags = {"LeftIsRs1", "AddOperands", "Jump"}
      BY <2>9 DEF Row
  <2> QED BY <2>1, <2>2, <2>3, PlainFacts, WordsAre DEF s
<1>2. CASE i \in [ir : {"Alu"}, op : AluOps, rs2 : {Reg} \cup {Imm(v) : v \in Word}]
  <2>1. i.ir = "Alu" /\ i.op \in AluOps /\ i.rs2 \in {Reg} \cup {Imm(v) : v \in Word}  BY <1>2
  <2>2. i.rs2.imm \in Word /\ RightFlag(i.rs2) \in {"RightIsRs2", "RightIsImm"}
      BY <2>1, WordsAre DEF Reg, Imm, RightFlag
  <2>3. s = OperandRow(i, {"WriteLookupToRd"}, TRUE)  BY <2>1 DEF RowSpec
  <2> HIDE DEF s
  <2>4. /\ s.flags = {"LeftIsRs1", RightFlag(i.rs2)} \cup {"WriteLookupToRd"} \cup OperandFlags(i.op)
        /\ s.lookup = i.op /\ s.rd = TRUE /\ s.imm = i.rs2.imm
      BY <2>3 DEF OperandRow, Row
  <2>5. SpecFacts(s)  BY <2>1, <2>2, <2>4, OperandFacts
  <2> QED BY <2>5 DEF s
<1>3. CASE i \in [ir : {"Assert"}, op : Booleans, rs2 : {Reg} \cup {Imm(v) : v \in Word}]
  <2>1. i.ir = "Assert" /\ i.op \in Booleans /\ i.rs2 \in {Reg} \cup {Imm(v) : v \in Word}  BY <1>3
  <2>2. i.rs2.imm \in Word /\ RightFlag(i.rs2) \in {"RightIsRs2", "RightIsImm"} /\ i.op \in AluOps
      BY <2>1, WordsAre, BooleansAreOps DEF Reg, Imm, RightFlag
  <2>3. s = OperandRow(i, {"Assert"}, FALSE)  BY <2>1 DEF RowSpec
  <2> HIDE DEF s
  <2>4. /\ s.flags = {"LeftIsRs1", RightFlag(i.rs2)} \cup {"Assert"} \cup OperandFlags(i.op)
        /\ s.lookup = i.op /\ s.rd = FALSE /\ s.imm = i.rs2.imm
      BY <2>3 DEF OperandRow, Row
  <2>5. SpecFacts(s)  BY <2>1, <2>2, <2>4, OperandFacts
  <2> QED BY <2>5 DEF s
<1>4. CASE i \in [ir : {"Load", "Store"}, offset : -(M \div 2) .. M \div 2 - 1]
  <2>1. i.ir \in {"Load", "Store"} /\ i.offset \in Int  BY <1>4
  <2>2. i.offset % M \in Word  BY <2>1, WordsAre
  <2>4. /\ i.ir = "Load" => s = Row({"Load"}, {"rs1"}, TRUE, i.offset % M, "none")
        /\ i.ir = "Store" => s = Row({"Store"}, {"rs1", "rs2"}, FALSE, i.offset % M, "none")
      BY DEF RowSpec
  <2> HIDE DEF s
  <2>3. /\ i.ir = "Load" => s.lookup = "none" /\ s.rd = TRUE /\ s.flags = {"Load"} /\ s.imm = i.offset % M
        /\ i.ir = "Store" => s.lookup = "none" /\ s.rd = FALSE /\ s.flags = {"Store"}
                 /\ s.imm = i.offset % M
      BY <2>4 DEF Row
  <2> QED BY <2>1, <2>2, <2>3, PlainFacts DEF s
<1>5. CASE i \in [ir : {"Jump"}, target : Pc]
  <2>1. i.ir = "Jump" /\ i.target \in Pc  BY <1>5
  <2>3. s = Row({"RightIsImm", "AddOperands", "Jump"}, {}, FALSE, i.target, "Add64")
      BY <2>1 DEF RowSpec
  <2> HIDE DEF s
  <2>2. /\ s.lookup = "Add64" /\ s.rd = FALSE /\ s.flags = {"RightIsImm", "AddOperands", "Jump"}
        /\ s.imm = i.target
      BY <2>3 DEF Row
  <2> QED BY <2>1, <2>2, PlainFacts, WordsAre DEF s
<1>6. CASE i \in [ir : {"Branch"}, op : Booleans, target : Pc]
  <2>1. i.ir = "Branch" /\ i.op \in Booleans /\ i.target \in Pc /\ i.op \in AluOps
      BY <1>6, BooleansAreOps
  <2>2. s = Row({"LeftIsRs1", "RightIsRs2", "Branch"} \cup OperandFlags(i.op),
                {"rs1", "rs2"}, FALSE, i.target, i.op)
      BY <2>1 DEF RowSpec
  <2> HIDE DEF s
  <2>3. /\ s.flags = {"LeftIsRs1", "RightIsRs2"} \cup {"Branch"} \cup OperandFlags(i.op)
        /\ s.lookup = i.op /\ s.rd = FALSE /\ s.imm = i.target
      BY <2>2 DEF Row
  <2>4. SpecFacts(s)  BY <2>1, <2>3, OperandFacts, WordsAre
  <2> QED BY <2>4 DEF s
<1> QED BY <1>1, <1>2, <1>3, <1>4, <1>5, <1>6 DEF Instructions

-----------------------------------------------------------------------------
(* The field, and the words in it *)

\* Elements of the field differ by 0 modulo P only when they are equal.
LEMMA FieldEqual == \A x, y \in 0 .. P - 1 : Zero(x - y) <=> x = y
<1>1. P \in Nat /\ P > 0  BY Sizes
<1> SUFFICES ASSUME NEW x \in 0 .. P - 1, NEW y \in 0 .. P - 1 PROVE Zero(x - y) <=> x = y
    OBVIOUS
<1> DEFINE d == x - y
           q == d \div P
           r == d % P
<1>2. d \in Int /\ q \in Int /\ d = P * q + r  BY <1>1
<1>3. -P < d /\ d < P  BY <1>1
<1> HIDE DEF q
<1>4. ASSUME r = 0 PROVE d = 0
  <2>1. d = P * q  BY <1>1, <1>2, <1>4
  <2> HIDE DEF d
  <2>2. ~(q >= 1)
    <3> SUFFICES ASSUME q >= 1 PROVE FALSE
        OBVIOUS
    <3>1. P * q >= P  BY <1>1, <1>2
    <3> QED BY <1>1, <1>2, <1>3, <2>1, <3>1
  <2>3. ~(q <= -1)
    <3> SUFFICES ASSUME q <= -1 PROVE FALSE
        OBVIOUS
    <3>1. P * q <= -P  BY <1>1, <1>2
    <3> QED BY <1>1, <1>2, <1>3, <2>1, <3>1
  <2>4. q = 0  BY <1>2, <2>2, <2>3
  <2> QED BY <1>1, <2>1, <2>4
<1>5. ASSUME x = y PROVE r = 0  BY <1>1, <1>5
<1> QED BY <1>4, <1>5 DEF Zero

LEMMA FieldNone == \A x \in 0 .. P - 1 : Zero(x) <=> x = 0
<1>1. 0 \in 0 .. P - 1 /\ \A x \in 0 .. P - 1 : x - 0 = x  BY Sizes
<1> QED BY <1>1, FieldEqual

LEMMA ZeroIsZero == Zero(0)
    BY FieldNone, Sizes

\* Terms reduced before they are compared.
LEMMA ZeroReduced == \A x, y \in Int : Zero(x - (y % P)) <=> Zero(x - y)
<1>1. P \in Nat /\ P > 0  BY Sizes
<1> SUFFICES ASSUME NEW x \in Int, NEW y \in Int PROVE Zero(x - (y % P)) <=> Zero(x - y)
    OBVIOUS
<1> DEFINE q == y \div P
           u == x - y
           v == x - (y % P)
<1>2. q \in Int /\ y = P * q + (y % P) /\ y % P \in Int  BY <1>1
<1> HIDE DEF q
<1>3. v = u + P * q  BY <1>1, <1>2
<1>4. u \in Int /\ v \in Int  BY <1>2
<1> HIDE DEF u, v
<1>5. ASSUME Zero(u) PROVE Zero(v)
  <2>1. u = P * (u \div P) /\ u \div P \in Int  BY <1>1, <1>4, <1>5 DEF Zero
  <2>2. PICK e \in Int : e = u \div P  BY <2>1
  <2>3. v = P * (e + q) + 0  BY <1>1, <1>2, <1>3, <2>1, <2>2
  <2> QED BY <1>1, <1>2, <2>2, <2>3, Remainder DEF Zero
<1>6. ASSUME Zero(v) PROVE Zero(u)
  <2>1. v = P * (v \div P) /\ v \div P \in Int  BY <1>1, <1>4, <1>6 DEF Zero
  <2>2. PICK e \in Int : e = v \div P  BY <2>1
  <2>3. u = P * (e - q) + 0  BY <1>1, <1>2, <1>3, <1>4, <2>1, <2>2
  <2>4. e - q \in Int /\ 0 \in 0 .. P - 1  BY <1>1, <1>2
  <2> QED BY <1>1, <1>4, <2>3, <2>4, Remainder DEF Zero
<1> QED BY <1>5, <1>6 DEF u, v

\* A sum of words is less than the characteristic.
LEMMA FieldSums ==
    \A x, y \in Word : /\ x \in 0 .. P - 1
                       /\ x + y \in 0 .. P - 1
                       /\ x + M - y \in 0 .. P - 1
                       /\ x * y \in 0 .. P - 1
<1>1. M \in Nat /\ P \in Nat /\ P > 2 * M  BY Sizes
<1>2. \A x, y \in Word : x * y \in Int /\ 0 <= x * y /\ x * y < P  BY Sizes
<1> QED BY <1>1, <1>2 DEF Word

\* A word is its own remainder.
LEMMA WordRemainder == \A x \in Word : x % M = x /\ (x + M) % M = x
<1>1. M \in Nat /\ M > 0  BY Sizes
<1> SUFFICES ASSUME NEW x \in Word PROVE x % M = x /\ (x + M) % M = x
    OBVIOUS
<1>2. x \in 0 .. M - 1 /\ x \in Int /\ x = M * 0 + x /\ x + M = M * 1 + x /\ x + M \in Int
    BY <1>1 DEF Word
<1> QED BY <1>1, <1>2, Remainder

\* An address that does not wrap is its base and the signed offset.
LEMMA SignedAddress ==
    ASSUME NEW x \in Word, NEW y \in Word, x + Signed(y) \in 1 .. M - 1
    PROVE  (x + y) % M = x + Signed(y)
<1>1. M \in Nat /\ M > 0 /\ x \in Int /\ y \in Int  BY Sizes DEF Word
<1> DEFINE z == x + Signed(y)
<1>2. z \in Word /\ (x + y = z \/ x + y = z + M)  BY <1>1 DEF Word, Signed
<1> HIDE DEF z
<1>3. z % M = z /\ (z + M) % M = z  BY <1>2, WordRemainder
<1>4. (x + y) % M = z  BY <1>2, <1>3
<1> QED BY <1>4 DEF z

\* The index of a subtraction never underflows and gives the same word.
LEMMA Difference == \A x, y \in Word : (x + M - y) % M = (x - y) % M
<1>1. M \in Nat /\ M > 0  BY Sizes
<1> SUFFICES ASSUME NEW x \in Word, NEW y \in Word PROVE (x + M - y) % M = (x - y) % M
    OBVIOUS
<1> DEFINE d == x - y
           q == d \div M
           r == d % M
<1>2. d \in Int /\ x + M - y = d + M  BY <1>1 DEF Word
<1> HIDE DEF d
<1>3. q \in Int /\ r \in 0 .. M - 1 /\ d = M * q + r  BY <1>1, <1>2
<1> HIDE DEF q, r
<1>4. d + M = M * (q + 1) + r /\ q + 1 \in Int /\ d + M \in Int  BY <1>1, <1>2, <1>3
<1>5. (d + M) % M = r  BY <1>1, <1>3, <1>4, Remainder
<1> QED BY <1>2, <1>5 DEF r, d

\* Narrower words are words.
LEMMA PowerGrows == \A h, n \in Nat : 2^h <= 2^(h + n)
<1> SUFFICES ASSUME NEW h \in Nat, NEW n \in Nat PROVE 2^h <= 2^(h + n)
    OBVIOUS
<1> DEFINE K == {k \in Nat : 2^h <= 2^(h + k)}
<1>1. 0 \in K  BY PowerPositive
<1>2. ASSUME NEW k \in 0 .. n - 1, k \in K PROVE k + 1 \in K
  <2>1. PICK e \in Nat : e = h + k  OBVIOUS
  <2>2. 2^h <= 2^e /\ 2^e \in Nat /\ 2^(e + 1) = 2^e + 2^e /\ h + (k + 1) = e + 1 /\ 2^h \in Nat
      BY <1>2, <2>1, PowerNext, PowerPositive
  <2>3. 2^h <= 2^(e + 1)  BY <2>2
  <2> QED BY <2>2, <2>3
<1> HIDE DEF K
<1>3. 0 .. n \subseteq K  BY <1>1, <1>2, Inductive
<1> QED BY <1>3 DEF K

\* A 32-bit operator's result is a word.
LEMMA HalfWidth == 2^(W \div 2) \in Nat /\ 2^(W \div 2) > 0 /\ 2^(W \div 2) <= M
<1>1. PICK h \in Nat, n \in Nat : h = W \div 2 /\ W = h + n  BY Sizes
<1>2. 2^h <= 2^(h + n)  BY PowerGrows
<1> QED BY <1>1, <1>2, PowerPositive DEF M

-----------------------------------------------------------------------------
(* The operators of the catalog are words, and the tables compute them. *)

BothBits(x, y) == [i \in 0 .. W - 1 |-> 2^i * Bit(x, i) * Bit(y, i)]

\* A conjunction of words is a word: its bits sum to less than 2^W.
LEMMA BitsBounded ==
    \A x, y \in Word : \A i \in Nat : 2^i * Bit(x, i) * Bit(y, i) \in 0 .. 2^i
<1> SUFFICES ASSUME NEW x \in Word, NEW y \in Word, NEW i \in Nat
             PROVE  2^i * Bit(x, i) * Bit(y, i) \in 0 .. 2^i
    OBVIOUS
<1>1. x \in Int /\ y \in Int  BY Sizes DEF Word
<1>2. PICK p \in Nat : p = 2^i /\ p > 0  BY PowerPositive
<1>3. ASSUME NEW z \in Int PROVE (z \div p) % 2 \in {0, 1}  BY <1>2
<1>4. Bit(x, i) \in {0, 1} /\ Bit(y, i) \in {0, 1}  BY <1>1, <1>2, <1>3 DEF Bit
<1> HIDE DEF Bit
<1>5. p * Bit(x, i) * Bit(y, i) \in {0, p}  BY <1>2, <1>4
<1> QED BY <1>2, <1>5

LEMMA BitwiseAndIsSum ==
    ASSUME NEW x \in Word, NEW y \in Word
    PROVE  \E F : IsSum(F, 0 .. W - 1, BothBits(x, y)) /\ BitwiseAnd(x, y) = F[0 .. W - 1]
<1> DEFINE S == 0 .. W - 1
           h == BothBits(x, y)
           it == CHOOSE it : Sums(it, S, h)
<1>1. IsFiniteSet(S) /\ h \in [S -> Int]
  <2>1. W - 1 \in Int /\ 0 \in Int  BY Sizes
  <2>2. IsFiniteSet(S)  BY <2>1, FS_Interval
  <2>3. \A i \in S : i \in Nat  BY Sizes
  <2>4. \A i \in S : 2^i * Bit(x, i) * Bit(y, i) \in Int  BY <2>3, BitsBounded, PowerPositive
  <2> QED BY <2>2, <2>4 DEF BothBits
<1>2. PICK F : IsSum(F, S, h)  BY <1>1, SumExists
<1>3. BitwiseAnd(x, y) = it[S]
  <2> DEFINE J(g) == g = [s \in SUBSET S |-> IF s = {} THEN 0
                            ELSE 2^(CHOOSE i \in s : TRUE) * Bit(x, CHOOSE i \in s : TRUE)
                                      * Bit(y, CHOOSE i \in s : TRUE)
                                    + g[s \ {CHOOSE i \in s : TRUE}]]
  <2>1. BitwiseAnd(x, y) = (CHOOSE g : J(g))[S]
      BY Zenon DEF BitwiseAnd, MapThenSumSet, MapThenFoldSet
  <2>2. ASSUME NEW s \in SUBSET S, s # {}
        PROVE  2^(CHOOSE i \in s : TRUE) * Bit(x, CHOOSE i \in s : TRUE) * Bit(y, CHOOSE i \in s : TRUE)
                 = h[CHOOSE i \in s : TRUE]
    <3>1. (CHOOSE i \in s : TRUE) \in S  BY <2>2
    <3>2. \A i \in S : h[i] = 2^i * Bit(x, i) * Bit(y, i)  BY DEF BothBits
    <3> HIDE DEF h, S, J
    <3> QED BY <3>1, <3>2, Zenon
  <2> HIDE DEF h, S
  <2>3. ASSUME NEW g PROVE J(g) <=> Sums(g, S, h)  BY <2>2 DEF Sums
  <2>4. (CHOOSE g : J(g)) = it
    <3> HIDE DEF J
    <3> QED BY <2>3, Zenon
  <2> QED BY <2>1, <2>4, Zenon DEF S
<1>4. Sums(F, S, h)  BY <1>2, SumIsSums
<1>5. Sums(it, S, h)  BY <1>4, Zenon
<1> HIDE DEF h, S, it
<1>6. it[S] = F[S]  BY <1>1, <1>2, <1>5, SumAnyOrder, Zenon
<1> QED BY <1>2, <1>3, <1>6 DEF S, h

LEMMA BitwiseAndWord == \A x, y \in Word : BitwiseAnd(x, y) \in Word
<1> SUFFICES ASSUME NEW x \in Word, NEW y \in Word PROVE BitwiseAnd(x, y) \in Word
    OBVIOUS
<1> DEFINE S == 0 .. W - 1
           h == BothBits(x, y)
<1>1. PICK F : IsSum(F, S, h) /\ BitwiseAnd(x, y) = F[S]  BY BitwiseAndIsSum
<1>2. \A i \in S : h[i] \in 0 .. 2^i  BY Sizes, BitsBounded DEF BothBits
<1> HIDE DEF h
<1> DEFINE K == {k \in 0 .. W : F[0 .. k - 1] \in 0 .. 2^k - 1}
<1>3. 0 \in K  BY <1>1, Sizes DEF IsSum
<1>4. ASSUME NEW k \in 0 .. W - 1, k \in K PROVE k + 1 \in K
  <2>1. k \in Nat /\ k + 1 \in 0 .. W /\ k \in S  BY Sizes
  <2> DEFINE T == 0 .. (k + 1) - 1
  <2>2. T \in SUBSET S /\ k \in T /\ T \ {k} = 0 .. k - 1  BY <2>1, Sizes
  <2> HIDE DEF T, S
  <2>3. F[T] = h[k] + F[0 .. k - 1]  BY <1>1, <2>2 DEF IsSum
  <2>4. PICK p \in Nat : p = 2^k /\ 2^(k + 1) = p + p  BY <2>1, PowerNext
  <2>5. h[k] \in 0 .. p /\ F[0 .. k - 1] \in 0 .. p - 1  BY <1>2, <1>4, <2>1, <2>4
  <2>6. \A u \in 0 .. p, v \in 0 .. p - 1 : u + v \in 0 .. (p + p) - 1  BY <2>4
  <2>7. F[T] \in 0 .. (p + p) - 1  BY <2>3, <2>5, <2>6
  <2> QED BY <2>1, <2>4, <2>7 DEF T
<1> HIDE DEF K
<1>5. W \in Nat  BY Sizes
<1>6. 0 .. W \subseteq K  BY <1>3, <1>4, <1>5, Inductive
<1>7. W \in K  BY <1>5, <1>6
<1> QED BY <1>1, <1>7 DEF K, Word, M

\* Every operator of the catalog makes a word of two words.
LEMMA EvaluateWord == \A op \in AluOps : \A x, y \in Word : Evaluate(op, x, y) \in Word
<1> SUFFICES ASSUME NEW op \in AluOps, NEW x \in Word, NEW y \in Word PROVE Evaluate(op, x, y) \in Word
    OBVIOUS
<1>1. M \in Nat /\ M >= 2 /\ x \in Int /\ y \in Int  BY Sizes DEF Word
<1>2. \A z \in Int : z % M \in Word  BY WordsAre
<1>3. x + y \in Int /\ x - y \in Int /\ x * y \in Int  BY <1>1
<1>4. (x + y) % M \in Word /\ (x - y) % M \in Word /\ (x * y) % M \in Word  BY <1>2, <1>3
<1>5. (x + y) % 2^(W \div 2) \in Word
  <2>1. PICK q \in Nat : q = 2^(W \div 2) /\ q > 0 /\ q <= M  BY HalfWidth
  <2>2. (x + y) % q \in 0 .. q - 1  BY <1>3, <2>1
  <2> QED BY <1>1, <2>1, <2>2 DEF Word
<1>6. \A p \in BOOLEAN : Bool(p) \in Word  BY <1>1 DEF Bool, Word
<1>7. Bool(x * y < M) \in Word /\ Bool(x = y) \in Word /\ Bool(x < y) \in Word
    BY <1>1 DEF Bool, Word
<1>8. BitwiseAnd(x, y) \in Word  BY BitwiseAndWord
<1> QED BY <1>4, <1>5, <1>7, <1>8 DEF Evaluate, AluOps

\* A table's entry at the index of two words is the operator's value.
LEMMA EntryEvaluates ==
    \A op \in AluOps : \A x, y \in Word :
        Entry(op, LookupIndex(OperandMode(op), x, y)) = Evaluate(op, x, y)
<1> SUFFICES ASSUME NEW op \in AluOps, NEW x \in Word, NEW y \in Word
             PROVE  Entry(op, LookupIndex(OperandMode(op), x, y)) = Evaluate(op, x, y)
    OBVIOUS
<1>1. PICK index : index = LookupIndex(OperandMode(op), x, y)  OBVIOUS
<1>2. CASE op = "Add64"  BY <1>1, <1>2 DEF LookupIndex, OperandMode, Entry, Evaluate
<1>3. CASE op = "Add32"  BY <1>1, <1>3 DEF LookupIndex, OperandMode, Entry, Evaluate
<1>4. CASE op = "Sub64"  BY <1>1, <1>4, Difference DEF LookupIndex, OperandMode, Entry, Evaluate
<1>5. CASE op = "Mul64"  BY <1>1, <1>5 DEF LookupIndex, OperandMode, Entry, Evaluate
<1>6. CASE op = "MulUNoOverflow"  BY <1>1, <1>6 DEF LookupIndex, OperandMode, Entry, Evaluate
<1>7. CASE op \in {"And", "Eq", "LtU"}  BY <1>1, <1>7 DEF LookupIndex, OperandMode, Entry
<1> QED BY <1>2, <1>3, <1>4, <1>5, <1>6, <1>7 DEF AluOps

-----------------------------------------------------------------------------
(* The columns the constraints pin *)

L == LeftInput(spec, a)
R == RightInput(spec, b)

RowTyped ==
    /\ pc \in 0 .. CodeLength - 1
    /\ a \in Word
    /\ b \in Word
    /\ Addressable
    /\ SpecFacts(spec)

\* The columns of the row itself, in a witness.
Stands(w) ==
    /\ w["const"] = 1
    /\ w["imm"] = ImmSigned % P
    /\ w["pc"] = pc
    /\ w["rs1"] = a
    /\ w["rs2"] = b
    /\ Holding(w, RowFlagSet, spec.flags)

\* No two flags of one guard are set in a row.
LEMMA FlagsExclusive == ASSUME SpecFacts(spec) PROVE Exclusive
    BY DEF SpecFacts, Exclusive, AtMostOne, Combined

LEMMA InputWords == ASSUME RowTyped PROVE L \in Word /\ R \in Word
    BY WordsAre DEF RowTyped, SpecFacts, L, R, LeftInput, RightInput

\* The immediate is the raw word except in a memory row.
LEMMA ImmColumn ==
    ASSUME RowTyped
    PROVE  /\ ~Set("Load") /\ ~Set("Store") => ImmSigned % P = spec.imm
           /\ Set("Load") \/ Set("Store") => ImmSigned % P = Signed(spec.imm) % P
           /\ ImmSigned % P \in 0 .. P - 1
           /\ Signed(spec.imm) \in Int
<1>1. spec.imm \in Word /\ spec.imm \in Int /\ P \in Nat /\ P > 0 /\ M \in Nat /\ spec.imm < P
    BY Sizes DEF RowTyped, SpecFacts, Word
<1>2. spec.imm % P = spec.imm  BY <1>1 DEF Word
<1>3. Signed(spec.imm) \in Int  BY <1>1 DEF Signed
<1>4. CASE Set("Load") \/ Set("Store")  BY <1>4, <1>1, <1>3 DEF Set, ImmSigned
<1>5. CASE ~Set("Load") /\ ~Set("Store")  BY <1>5, <1>1, <1>2, <1>3 DEF Set, ImmSigned
<1> QED BY <1>4, <1>5

InputsAre(w) ==
    /\ w["left_input"] = L
    /\ w["right_input"] = R
    /\ w["product"] = L * R

\* The constraints on the inputs and their product hold of these values only.
LEMMA InputsExact ==
    ASSUME RowTyped, NEW w, Stands(w), w["left_input"] \in 0 .. P - 1, w["right_input"] \in 0 .. P - 1,
           w["product"] \in 0 .. P - 1
    PROVE  InputHolds(w) /\ Zero(w["left_input"] * w["right_input"] - w["product"]) <=> InputsAre(w)
<1>1. L \in Word /\ R \in Word /\ \A x \in Word : x \in 0 .. P - 1  BY InputWords, FieldSums
<1>2. (Set("LeftIsRs1") => Zero(w["left_input"] - w["rs1"]))
        /\ (NoneSet({"LeftIsRs1"}) => Zero(w["left_input"])) <=> w["left_input"] = L
  <2>1. CASE Set("LeftIsRs1")  BY <2>1, <1>1, FieldEqual DEF L, LeftInput, Set, NoneSet, Stands
  <2>2. CASE ~Set("LeftIsRs1")  BY <2>2, FieldNone DEF L, LeftInput, Set, NoneSet
  <2> QED BY <2>1, <2>2
<1>3. (Set("RightIsRs2") => Zero(w["right_input"] - w["rs2"]))
        /\ (Set("RightIsImm") => Zero(w["right_input"] - w["imm"]))
        /\ (NoneSet({"RightIsRs2", "RightIsImm"}) => Zero(w["right_input"])) <=> w["right_input"] = R
  <2>1. CASE Set("RightIsRs2")
    <3>1. R = b /\ w["rs2"] = b /\ ~NoneSet({"RightIsRs2", "RightIsImm"}) /\ ~Set("RightIsImm")
        BY <2>1 DEF R, RightInput, Set, NoneSet, Stands, RowTyped, SpecFacts, AtMostOne
    <3>2. Zero(w["right_input"] - b) <=> w["right_input"] = b  BY <1>1, <3>1, FieldEqual
    <3> QED BY <2>1, <3>1, <3>2
  <2>2. CASE ~Set("RightIsRs2") /\ Set("RightIsImm")
    <3>1. R = spec.imm /\ ~NoneSet({"RightIsRs2", "RightIsImm"}) /\ ~Set("Load") /\ ~Set("Store")
        BY <2>2 DEF R, RightInput, Set, NoneSet, RowTyped, SpecFacts, AtMostOne
    <3>2. w["imm"] = spec.imm  BY <3>1, ImmColumn DEF Stands
    <3>3. Zero(w["right_input"] - spec.imm) <=> w["right_input"] = spec.imm
        BY <1>1, <3>1, FieldEqual
    <3> QED BY <2>2, <3>1, <3>2, <3>3
  <2>3. CASE ~Set("RightIsRs2") /\ ~Set("RightIsImm")  BY <2>3, FieldNone DEF R, RightInput, Set, NoneSet
  <2> QED BY <2>1, <2>2, <2>3
<1>4. InputHolds(w) <=> w["left_input"] = L /\ w["right_input"] = R
    BY <1>2, <1>3, Zenon DEF InputHolds
<1>5. ASSUME w["left_input"] = L, w["right_input"] = R
      PROVE  Zero(w["left_input"] * w["right_input"] - w["product"]) <=> w["product"] = L * R
    BY <1>1, FieldSums, FieldEqual, <1>5
<1> QED BY <1>4, <1>5, Zenon DEF InputsAre

LookupsAre(w) ==
    /\ w["left_lookup"] = IF Raw THEN 0 ELSE L
    /\ spec.lookup # "Advice" =>
          w["right_lookup"] = IF Raw THEN LookupIndex(OperandMode(spec.lookup), L, R) ELSE R

\* The constraints on the lookup's operands hold of these values only; an advice row's
\* right operand is free.
LEMMA LookupsExact ==
    ASSUME RowTyped, NEW w, InputsAre(w), w["left_lookup"] \in 0 .. P - 1, w["right_lookup"] \in 0 .. P - 1
    PROVE  LookupHolds(w) <=> LookupsAre(w)
<1>1. L \in Word /\ R \in Word /\ \A x \in Word : x \in 0 .. P - 1  BY InputWords, FieldSums
<1>2. w["left_input"] = L /\ w["right_input"] = R /\ w["product"] = L * R  BY DEF InputsAre
<1> DEFINE left == w["left_lookup"]
           right == w["right_lookup"]
           index == LookupIndex(OperandMode(spec.lookup), L, R)
<1>3. left \in 0 .. P - 1 /\ right \in 0 .. P - 1 /\ L \in Int /\ R \in Int /\ right \in Int /\ M \in Int
    BY <1>1, Sizes DEF Word
<1>4. L + R \in 0 .. P - 1 /\ L + M - R \in 0 .. P - 1 /\ L * R \in 0 .. P - 1  BY <1>1, FieldSums
<1>5. Zero(left) <=> left = 0  BY FieldNone
<1>6. Zero(left - L) <=> left = L  BY <1>1, FieldEqual
<1>7. Zero(right - R) <=> right = R  BY <1>1, FieldEqual
<1>8. Zero(right - L - R) <=> right = L + R  BY <1>3, <1>4, FieldEqual
<1>9. Zero(right - L + R - M) <=> right = L + M - R  BY <1>3, <1>4, FieldEqual
<1>10. Zero(right - L * R) <=> right = L * R  BY <1>3, <1>4, FieldEqual
<1>11. LookupHolds(w) <=>
        /\ SomeSet(Combined) => left = 0
        /\ NoneSet(Combined) => left = L
        /\ Set("AddOperands") => right = L + R
        /\ Set("SubOperands") => right = L + M - R
        /\ Set("MulOperands") => right = L * R
        /\ NoneSet(Combined \cup {"Advice"}) => right = R
    BY <1>2, <1>5, <1>6, <1>7, <1>8, <1>9, <1>10 DEF LookupHolds
<1> HIDE DEF left, right
<1>12. CASE Set("Advice")
  <2>1. L = 0 /\ spec.lookup = "Advice" /\ Raw
      BY <1>12 DEF Set, L, LeftInput, RowTyped, SpecFacts, AtMostOne, Raw, IsRawIndex
  <2>2. ~SomeSet(Combined) /\ NoneSet(Combined) /\ ~NoneSet(Combined \cup {"Advice"})
          /\ ~Set("AddOperands") /\ ~Set("SubOperands") /\ ~Set("MulOperands")
      BY <1>12 DEF Set, RowTyped, SpecFacts, AtMostOne, Combined, SomeSet, NoneSet
  <2> QED BY <1>11, <2>1, <2>2 DEF LookupsAre, left, right
<1>13. CASE ~Set("Advice")
  <2>1. spec.lookup # "Advice" /\ spec.lookup \in {"none"} \cup AluOps
      BY <1>13 DEF Set, RowTyped, SpecFacts, Lookups
  <2>2. LookupsAre(w) <=> left = (IF Raw THEN 0 ELSE L) /\ right = (IF Raw THEN index ELSE R)
      BY <2>1 DEF LookupsAre, left, right
  <2>3. /\ Set("AddOperands") <=> HasMode(spec.lookup, "Add")
        /\ Set("SubOperands") <=> HasMode(spec.lookup, "Sub")
        /\ Set("MulOperands") <=> HasMode(spec.lookup, "Mul")
      BY DEF RowTyped, SpecFacts, Set
  <2>4. CASE \/ spec.lookup = "none"
             \/ spec.lookup \in AluOps /\ OperandMode(spec.lookup) = "Interleaved"
    <3>1. ~Set("AddOperands") /\ ~Set("SubOperands") /\ ~Set("MulOperands") /\ ~Raw
        BY <2>1, <2>3, <2>4 DEF HasMode, AluOps, Raw, IsRawIndex
    <3>2. ~SomeSet(Combined) /\ NoneSet(Combined) /\ NoneSet(Combined \cup {"Advice"})
        BY <1>13, <3>1 DEF Set, Combined, SomeSet, NoneSet
    <3> QED BY <1>11, <2>2, <3>1, <3>2
  <2>5. CASE HasMode(spec.lookup, "Add")
    <3>1. Set("AddOperands") /\ ~Set("SubOperands") /\ ~Set("MulOperands") /\ Raw /\ index = L + R
        BY <2>1, <2>3, <2>5 DEF HasMode, Raw, IsRawIndex, LookupIndex
    <3>2. SomeSet(Combined) /\ ~NoneSet(Combined) /\ ~NoneSet(Combined \cup {"Advice"})
        BY <3>1 DEF Set, Combined, SomeSet, NoneSet
    <3> QED BY <1>11, <2>2, <3>1, <3>2
  <2>6. CASE HasMode(spec.lookup, "Sub")
    <3>1. ~Set("AddOperands") /\ Set("SubOperands") /\ ~Set("MulOperands") /\ Raw /\ index = L + M - R
        BY <2>1, <2>3, <2>6 DEF HasMode, Raw, IsRawIndex, LookupIndex
    <3>2. SomeSet(Combined) /\ ~NoneSet(Combined) /\ ~NoneSet(Combined \cup {"Advice"})
        BY <3>1 DEF Set, Combined, SomeSet, NoneSet
    <3> QED BY <1>11, <2>2, <3>1, <3>2
  <2>7. CASE HasMode(spec.lookup, "Mul")
    <3>1. ~Set("AddOperands") /\ ~Set("SubOperands") /\ Set("MulOperands") /\ Raw /\ index = L * R
        BY <2>1, <2>3, <2>7 DEF HasMode, Raw, IsRawIndex, LookupIndex
    <3>2. SomeSet(Combined) /\ ~NoneSet(Combined) /\ ~NoneSet(Combined \cup {"Advice"})
        BY <3>1 DEF Set, Combined, SomeSet, NoneSet
    <3> QED BY <1>11, <2>2, <3>1, <3>2
  <2>8. spec.lookup \in AluOps => OperandMode(spec.lookup) \in {"Interleaved", "Add", "Sub", "Mul"}
      BY Modes
  <2>9. \/ \/ spec.lookup = "none"
           \/ spec.lookup \in AluOps /\ OperandMode(spec.lookup) = "Interleaved"
        \/ HasMode(spec.lookup, "Add")
        \/ HasMode(spec.lookup, "Sub")
        \/ HasMode(spec.lookup, "Mul")
    <3>1. CASE spec.lookup = "none"  BY <3>1
    <3>2. CASE spec.lookup \in AluOps  BY <2>8, <3>2 DEF HasMode
    <3> QED BY <2>1, <3>1, <3>2
  <2> QED BY <2>4, <2>5, <2>6, <2>7, <2>9, Zenon
<1> QED BY <1>12, <1>13

\* The lookup output in a witness: the table's entry at the index there.
TableOutput(w) ==
    IF spec.lookup = "none" THEN 0
    ELSE Entry(TableOp(spec.lookup),
               IF Raw THEN w["right_lookup"] ELSE <<w["left_lookup"], w["right_lookup"]>>)

\* With the lookup's operands right, the table's output is the row's output.
LEMMA OutputExact ==
    ASSUME RowTyped, NEW w, LookupsAre(w), w["right_lookup"] \in 0 .. M * M - 1
    PROVE  /\ TableOutput(w) \in Word
           /\ spec.lookup \in Booleans => TableOutput(w) \in {0, 1}
           /\ spec.lookup = "Advice" => TableOutput(w) = w["right_lookup"] % M
           /\ spec.lookup # "Advice" => \A supplied : Output(spec, a, b, supplied) = TableOutput(w)
<1>1. L \in Word /\ R \in Word  BY InputWords
<1>2. spec.lookup \in Lookups  BY DEF RowTyped, SpecFacts
<1> DEFINE lookup == spec.lookup
<1>3. CASE lookup = "none"  BY <1>3, WordsAre DEF TableOutput, Output, AluOps, Booleans
<1>4. CASE lookup = "Advice"
  <2>1. Raw /\ TableOp(lookup) = "Add64"  BY <1>4 DEF Raw, IsRawIndex, TableOp
  <2>2. TableOutput(w) = Entry("Add64", w["right_lookup"])  BY <1>4, <2>1 DEF TableOutput
  <2>3. \A index : Entry("Add64", index) = index % M  BY DEF Entry, OperandMode
  <2>4. TableOutput(w) = w["right_lookup"] % M  BY <2>2, <2>3
  <2>5. w["right_lookup"] \in Int  BY Sizes
  <2> QED BY <1>4, <2>4, <2>5, WordsAre DEF Booleans
<1>5. CASE lookup \in AluOps
  <2>1. lookup # "none" /\ lookup # "Advice" /\ TableOp(lookup) = lookup
      BY <1>5 DEF AluOps, TableOp
  <2>2. (IF Raw THEN w["right_lookup"] ELSE <<w["left_lookup"], w["right_lookup"]>>)
          = LookupIndex(OperandMode(lookup), L, R)
    <3>1. CASE Raw  BY <2>1, <3>1 DEF LookupsAre
    <3>2. CASE ~Raw  BY <1>5, <3>2, <2>1 DEF Raw, IsRawIndex, LookupIndex, LookupsAre
    <3> QED BY <3>1, <3>2
  <2>3. TableOutput(w) = Entry(lookup, LookupIndex(OperandMode(lookup), L, R))
      BY <2>1, <2>2 DEF TableOutput
  <2>4. TableOutput(w) = Evaluate(lookup, L, R)  BY <1>1, <1>5, <2>3, EntryEvaluates, Zenon
  <2>5. \A supplied : Output(spec, a, b, supplied) = Evaluate(lookup, L, R)
      BY <1>5, <2>1 DEF Output, L, R
  <2>6. Evaluate(lookup, L, R) \in Word  BY <1>1, <1>5, EvaluateWord
  <2>7. lookup \in Booleans => Evaluate(lookup, L, R) \in {0, 1}  BY DEF Booleans, Evaluate, Bool
  <2> QED BY <2>1, <2>4, <2>5, <2>6, <2>7
<1> QED BY <1>2, <1>3, <1>4, <1>5 DEF Lookups

Taken(out) == Set("Branch") /\ out = 1

RestIs(w) ==
    /\ w["should_branch"] = Bool(Taken(w["lookup_output"]))
    /\ w["ram_address"] = IF Set("Load") \/ Set("Store") THEN Address(spec, a) ELSE 0
    /\ Set("Load") => w["ram_read"] = w["ram_write"] /\ w["ram_read"] = w["rd_write"]
    /\ Set("Store") => w["ram_write"] = b
    /\ Set("Assert") => w["lookup_output"] = 1
    /\ Set("WriteLookupToRd") => w["rd_write"] = w["lookup_output"]
    /\ w["next_pc"] = NextPc(spec, pc, w["lookup_output"])

\* The constraints on the next pc hold of the next pc of the row only.
LEMMA NextPcExact ==
    ASSUME RowTyped, NEW w, Stands(w), w["next_pc"] \in 0 .. P - 1, w["lookup_output"] \in Word,
           w["should_branch"] = Bool(Taken(w["lookup_output"]))
    PROVE  NextPcHolds(w) /\ (Set("Jump") => Zero(w["next_pc"] - w["lookup_output"]))
             <=> w["next_pc"] = NextPc(spec, pc, w["lookup_output"])
<1> DEFINE next == w["next_pc"]
           out == w["lookup_output"]
           sb == w["should_branch"]
<1>1. /\ pc \in 0 .. P - 1 /\ pc + 1 \in 0 .. P - 1 /\ out \in 0 .. P - 1 /\ next \in 0 .. P - 1
      /\ spec.imm \in 0 .. P - 1 /\ pc \in Int /\ next \in Int /\ w["pc"] = pc
    BY Sizes, WidthAssumption DEF RowTyped, SpecFacts, Stands, Word
<1>2. w["imm"] \in Int  BY ImmColumn, Sizes DEF Stands
<1>3. Zero(next - pc) <=> next = pc  BY <1>1, FieldEqual
<1>4. Zero(next - out) <=> next = out  BY <1>1, FieldEqual
<1>5. Zero(next - spec.imm) <=> next = spec.imm  BY <1>1, FieldEqual
<1>6. Zero(next - pc - 1) <=> next = pc + 1  BY <1>1, FieldEqual
<1>7. AtMostOne({"Jump", "Halt", "Branch"}, spec.flags)  BY DEF RowTyped, SpecFacts
<1> DEFINE d == next - w["imm"]
           e == next - pc - 1
           g == Bool(NoneSet({"Jump", "Halt"}))
<1>8. d \in Int /\ e \in Int  BY <1>1, <1>2
<1>9. NextPcHolds(w) <=> Zero(sb * d) /\ (Set("Halt") => Zero(next - pc)) /\ Zero((g - sb) * e)
    BY <1>1 DEF NextPcHolds
<1> HIDE DEF d, e, g, next, out, sb
<1>10. 0 * d = 0 /\ 1 * d = d /\ 0 * e = 0 /\ 1 * e = e  BY <1>8
<1>11. CASE Set("Halt")
  <2>1. ~Set("Jump") /\ sb = 0 /\ g = 0 /\ NextPc(spec, pc, out) = pc
      BY <1>7, <1>11 DEF Set, AtMostOne, Bool, NoneSet, g, sb, out, Taken, NextPc
  <2>2. sb * d = 0 /\ (g - sb) * e = 0  BY <1>10, <2>1
  <2> QED BY <1>3, <1>9, <1>11, <2>1, <2>2, ZeroIsZero DEF next, out
<1>12. CASE Set("Jump")
  <2>1. ~Set("Halt") /\ sb = 0 /\ g = 0 /\ NextPc(spec, pc, out) = out
      BY <1>7, <1>12 DEF Set, AtMostOne, Bool, NoneSet, g, sb, out, Taken, NextPc
  <2>2. sb * d = 0 /\ (g - sb) * e = 0  BY <1>10, <2>1
  <2> QED BY <1>4, <1>9, <1>12, <2>1, <2>2, ZeroIsZero DEF next, out
<1>13. CASE ~Set("Halt") /\ ~Set("Jump") /\ Taken(out)
  <2>1. sb = 1 /\ g = 1 /\ NextPc(spec, pc, out) = spec.imm
      BY <1>13 DEF Set, Bool, NoneSet, g, sb, out, Taken, NextPc
  <2>2. ~Set("Load") /\ ~Set("Store")  BY <1>13 DEF Set, Taken, RowTyped, SpecFacts, AtMostOne
  <2>3. w["imm"] = spec.imm  BY <2>2, ImmColumn DEF Stands
  <2>4. sb * d = d /\ (g - sb) * e = 0 /\ d = next - spec.imm  BY <1>10, <2>1, <2>3 DEF d
  <2> QED BY <1>5, <1>9, <1>13, <2>1, <2>4, ZeroIsZero DEF next, out
<1>14. CASE ~Set("Halt") /\ ~Set("Jump") /\ ~Taken(out)
  <2>1. sb = 0 /\ g = 1 /\ NextPc(spec, pc, out) = pc + 1
      BY <1>14 DEF Set, Bool, NoneSet, g, sb, out, Taken, NextPc
  <2>2. sb * d = 0 /\ (g - sb) * e = e  BY <1>10, <2>1
  <2> QED BY <1>6, <1>9, <1>14, <2>1, <2>2, ZeroIsZero DEF next, out, e
<1> QED BY <1>11, <1>12, <1>13, <1>14

\* The constraints on the address hold of the row's address only, or of 0.
LEMMA RamExact ==
    ASSUME RowTyped, NEW w, Stands(w), w["ram_address"] \in Word
    PROVE  (Set("Load") \/ Set("Store") => Zero(w["ram_address"] - w["rs1"] - w["imm"]))
             /\ (~Set("Load") /\ ~Set("Store") => Zero(w["ram_address"]))
             <=> w["ram_address"] = IF Set("Load") \/ Set("Store") THEN Address(spec, a) ELSE 0
<1>1. w["ram_address"] \in 0 .. P - 1 /\ w["ram_address"] \in Int /\ a \in Int
    BY FieldSums, Sizes DEF RowTyped, Word
<1>2. CASE Set("Load") \/ Set("Store")
  <2> DEFINE s == Signed(spec.imm)
             x == w["ram_address"]
  <2>1. s \in Int /\ w["imm"] = s % P /\ w["rs1"] = a  BY <1>2, ImmColumn DEF Stands
  <2>2. a + s \in 1 .. M - 1  BY <1>2 DEF RowTyped, Addressable, Set
  <2>3. Address(spec, a) = a + s  BY <2>2, SignedAddress DEF RowTyped, SpecFacts, Address
  <2>4. a + s \in 0 .. P - 1  BY <2>2, Sizes
  <2> HIDE DEF s
  <2>8. x - a \in Int  BY <1>1
  <2>5. Zero((x - a) - (s % P)) <=> Zero((x - a) - s)  BY <2>1, <2>8, ZeroReduced
  <2>6. (x - a) - s = x - (a + s)  BY <1>1, <2>1
  <2>7. Zero(x - (a + s)) <=> x = a + s  BY <1>1, <2>4, FieldEqual
  <2> QED BY <1>2, <2>1, <2>3, <2>5, <2>6, <2>7
<1>3. CASE ~Set("Load") /\ ~Set("Store")  BY <1>1, FieldNone, <1>3
<1> QED BY <1>2, <1>3

Fields(w, S) == \A c \in S : w[c] \in 0 .. P - 1

\* The other constraints hold of these values only.
LEMMA RestExact ==
    ASSUME RowTyped, NEW w, Stands(w), w["lookup_output"] \in Word, w["ram_address"] \in Word,
           Set("Branch") => w["lookup_output"] \in {0, 1},
           Fields(w, {"should_branch", "ram_read", "ram_write", "rd_write", "next_pc"})
    PROVE  RamHolds(w) /\ OutputHolds(w) /\ NextPcHolds(w)
             /\ Zero(w["lookup_output"] * Bool(Set("Branch")) - w["should_branch"])
             <=> RestIs(w)
<1> DEFINE out == w["lookup_output"]
           sb == w["should_branch"]
<1>1. /\ sb \in 0 .. P - 1 /\ w["ram_read"] \in 0 .. P - 1 /\ w["ram_write"] \in 0 .. P - 1
      /\ w["rd_write"] \in 0 .. P - 1 /\ w["next_pc"] \in 0 .. P - 1 /\ out \in 0 .. P - 1
      /\ b \in 0 .. P - 1 /\ 1 \in 0 .. P - 1 /\ out \in Int /\ w["rs2"] = b
    BY FieldSums, Sizes DEF Fields, RowTyped, Stands
<1>2. Zero(out * Bool(Set("Branch")) - sb) <=> sb = Bool(Taken(out))
  <2>1. out * Bool(Set("Branch")) = Bool(Taken(out))  BY <1>1 DEF Bool, Taken
  <2>2. Bool(Taken(out)) \in 0 .. P - 1  BY Sizes DEF Bool
  <2>3. Zero(Bool(Taken(out)) - sb) <=> Bool(Taken(out)) = sb  BY <1>1, <2>2, FieldEqual
  <2> QED BY <2>1, <2>3
<1>3. RamHolds(w) <=>
        /\ (Set("Load") \/ Set("Store") => Zero(w["ram_address"] - w["rs1"] - w["imm"]))
             /\ (~Set("Load") /\ ~Set("Store") => Zero(w["ram_address"]))
        /\ Set("Load") => Zero(w["ram_read"] - w["ram_write"])
        /\ Set("Load") => Zero(w["ram_read"] - w["rd_write"])
        /\ Set("Store") => Zero(w["rs2"] - w["ram_write"])
    BY DEF SomeSet, NoneSet, Set, RamHolds
<1>4. (Set("Load") \/ Set("Store") => Zero(w["ram_address"] - w["rs1"] - w["imm"]))
             /\ (~Set("Load") /\ ~Set("Store") => Zero(w["ram_address"]))
             <=> w["ram_address"] = IF Set("Load") \/ Set("Store") THEN Address(spec, a) ELSE 0
    BY RamExact
<1>5. /\ Zero(w["ram_read"] - w["ram_write"]) <=> w["ram_read"] = w["ram_write"]
      /\ Zero(w["ram_read"] - w["rd_write"]) <=> w["ram_read"] = w["rd_write"]
      /\ Zero(w["rs2"] - w["ram_write"]) <=> w["ram_write"] = b
      /\ Zero(out - 1) <=> out = 1
      /\ Zero(w["rd_write"] - out) <=> w["rd_write"] = out
    BY <1>1, FieldEqual
<1>6. OutputHolds(w) <=>
        /\ Set("Assert") => Zero(out - 1)
        /\ Set("WriteLookupToRd") => Zero(w["rd_write"] - out)
        /\ Set("Jump") => Zero(w["next_pc"] - out)
    BY DEF OutputHolds
<1>7. sb = Bool(Taken(out)) =>
        (NextPcHolds(w) /\ (Set("Jump") => Zero(w["next_pc"] - out))
              <=> w["next_pc"] = NextPc(spec, pc, out))
    BY <1>1, NextPcExact
<1> QED BY <1>2, <1>3, <1>4, <1>5, <1>6, <1>7, Zenon DEF RestIs

-----------------------------------------------------------------------------
(* The witness of a record *)

LEMMA RowFlagsAre == RowFlags = RowFlagSet
<1>1. Len(Flags) = 15 /\ DOMAIN Flags = 1 .. 15  BY DEF Flags
<1>2. \A n \in 1 .. 15 : n \in {1, 2, 3, 4, 5, 6, 7, 8, 9, 10, 11, 12, 13, 14, 15}  OBVIOUS
<1>3. /\ Flags[1] = "LeftIsRs1" /\ Flags[2] = "RightIsRs2" /\ Flags[3] = "RightIsImm"
      /\ Flags[4] = "AddOperands" /\ Flags[5] = "SubOperands" /\ Flags[6] = "MulOperands"
      /\ Flags[7] = "WriteLookupToRd" /\ Flags[8] = "Load" /\ Flags[9] = "Store" /\ Flags[10] = "Jump"
      /\ Flags[11] = "Branch" /\ Flags[12] = "Assert" /\ Flags[13] = "Halt" /\ Flags[14] = "Trap"
      /\ Flags[15] = "Advice"
    BY DEF Flags
<1> QED BY <1>1, <1>2, <1>3 DEF RowFlags, RowFlagSet

StaticColumns == {"const", "imm", "pc", "rs1", "rs2"} \cup RowFlagSet

\* The row's own columns are those of the witness.
LEMMA StaticStands ==
    /\ DOMAIN Static = StaticColumns
    /\ \A w : (\A c \in StaticColumns : w[c] = Static[c]) => Stands(w)
<1> DEFINE head == [const |-> 1, imm |-> ImmSigned % P, pc |-> pc, rs1 |-> a, rs2 |-> b]
           tail == [f \in RowFlags |-> Bool(f \in spec.flags)]
<1>1. Static = head ++ tail  BY DEF Static
<1>2. DOMAIN head = {"const", "imm", "pc", "rs1", "rs2"} /\ DOMAIN tail = RowFlagSet  BY RowFlagsAre
<1>3. /\ head["const"] = 1 /\ head["imm"] = ImmSigned % P /\ head["pc"] = pc /\ head["rs1"] = a
      /\ head["rs2"] = b /\ \A f \in RowFlagSet : tail[f] = Bool(f \in spec.flags)
    BY RowFlagsAre
<1> HIDE DEF head, tail
<1>4. DOMAIN Static = StaticColumns  BY <1>1, <1>2 DEF ++, StaticColumns
<1>5. \A c \in StaticColumns : Static[c] = IF c \in DOMAIN head THEN head[c] ELSE tail[c]
    BY <1>1, <1>2 DEF ++, StaticColumns
<1>6. \A f \in RowFlagSet : f \notin DOMAIN head  BY <1>2 DEF RowFlagSet
<1> QED BY <1>2, <1>3, <1>4, <1>5, <1>6 DEF StaticColumns, Stands, Holding

RecordIndex(r) ==
    IF spec.lookup = "Advice" THEN r.rd ELSE LookupIndex(OperandMode(spec.lookup), L, R)
RecordOutput(r) == IF spec.lookup = "none" THEN 0 ELSE Entry(TableOp(spec.lookup), RecordIndex(r))

RecordColumns(w, r) ==
    /\ Stands(w)
    /\ w["left_input"] = L
    /\ w["right_input"] = R
    /\ w["product"] = L * R
    /\ w["left_lookup"] = IF Raw THEN 0 ELSE L
    /\ w["right_lookup"] = IF Raw THEN RecordIndex(r) ELSE R
    /\ w["lookup_output"] = RecordOutput(r)
    /\ w["should_branch"] = Bool(Taken(RecordOutput(r)))
    /\ w["ram_address"] = r.ram.address
    /\ w["ram_read"] = IF Set("Load") THEN r.rd ELSE IF Set("Store") THEN r.ram.pre ELSE 0
    /\ w["ram_write"] = IF Set("Load") THEN r.rd ELSE IF Set("Store") THEN b ELSE 0
    /\ w["rd_write"] = IF Set("Store") THEN 0 ELSE r.rd
    /\ w["next_pc"] = r.next

\* The columns cycle_witness makes of a record.
LEMMA CycleColumns == ASSUME NEW r PROVE RecordColumns(CycleWitness(r), r)
<1> DEFINE raw == spec.lookup # "none" /\ IsRawIndex(spec.lookup)
           filled ==
        [left_input |-> L, right_input |-> R, product |-> L * R,
         left_lookup |-> IF raw THEN 0 ELSE L, right_lookup |-> IF raw THEN RecordIndex(r) ELSE R,
         lookup_output |-> RecordOutput(r),
         should_branch |-> Bool("Branch" \in spec.flags /\ RecordOutput(r) = 1),
         ram_address |-> r.ram.address,
         ram_read |-> IF "Load" \in spec.flags THEN r.rd
                      ELSE IF "Store" \in spec.flags THEN r.ram.pre ELSE 0,
         ram_write |-> IF "Load" \in spec.flags THEN r.rd ELSE IF "Store" \in spec.flags THEN b ELSE 0,
         rd_write |-> IF "Store" \in spec.flags THEN 0 ELSE r.rd,
         next_pc |-> r.next]
           w == CycleWitness(r)
<1>1. w = Static ++ filled  BY DEF CycleWitness, RecordIndex, RecordOutput, L, R
<1>2. raw <=> Raw  BY DEF Raw, IsRawIndex, AluOps
<1>3. DOMAIN filled =
        {"left_input", "right_input", "product", "left_lookup", "right_lookup", "lookup_output",
         "should_branch", "ram_address", "ram_read", "ram_write", "rd_write", "next_pc"}
    OBVIOUS
<1>4. /\ filled["left_input"] = L
      /\ filled["right_input"] = R
      /\ filled["product"] = L * R
      /\ filled["left_lookup"] = IF raw THEN 0 ELSE L
      /\ filled["right_lookup"] = IF raw THEN RecordIndex(r) ELSE R
      /\ filled["lookup_output"] = RecordOutput(r)
      /\ filled["should_branch"] = Bool(Taken(RecordOutput(r)))
      /\ filled["ram_address"] = r.ram.address
      /\ filled["ram_read"] = IF Set("Load") THEN r.rd ELSE IF Set("Store") THEN r.ram.pre ELSE 0
      /\ filled["ram_write"] = IF Set("Load") THEN r.rd ELSE IF Set("Store") THEN b ELSE 0
      /\ filled["rd_write"] = IF Set("Store") THEN 0 ELSE r.rd
      /\ filled["next_pc"] = r.next
    BY DEF Set, Taken
<1> HIDE DEF filled, w, raw
<1>5. \A c \in StaticColumns : w[c] = Static[c]  BY <1>1, StaticStands DEF ++
<1>6. \A c \in DOMAIN filled : c \notin StaticColumns  BY <1>3 DEF StaticColumns, RowFlagSet
<1>7. \A c \in DOMAIN filled : w[c] = filled[c]  BY <1>1, <1>6, StaticStands DEF ++
<1>8. Stands(w)  BY <1>5, StaticStands
<1> QED BY <1>2, <1>3, <1>4, <1>7, <1>8 DEF RecordColumns, w

\* Every constraint but the record's own holds of it.
LEMMA RecordHolds ==
    ASSUME RowTyped, NEW r, NEW w, RecordColumns(w, r), r.rd \in Word, r.next \in Word,
           r.ram.address \in Word, r.ram.pre \in Word
    PROVE  /\ Output(spec, a, b, r.rd) = RecordOutput(r)
           /\ (\A k \in Constraints : Satisfied(k, w)) <=> RestIs(w)
<1>1. L \in Word /\ R \in Word /\ b \in Word  BY InputWords DEF RowTyped
<1>2. \A x \in Word : x \in 0 .. P - 1 /\ x \in Int  BY FieldSums, Sizes DEF Word
<1>3. 0 \in Word /\ 1 \in Word  BY Sizes DEF Word
<1>4. spec.lookup \in Lookups  BY DEF RowTyped, SpecFacts
<1>5. InputsAre(w) /\ LookupsAre(w)  BY DEF InputsAre, LookupsAre, RecordColumns, RecordIndex
<1>6. w["right_lookup"] \in 0 .. M * M - 1
  <2>1. \A x, y \in Word : /\ x \in 0 .. M * M - 1 /\ x + y \in 0 .. M * M - 1
                           /\ x + M - y \in 0 .. M * M - 1 /\ x * y \in 0 .. M * M - 1
    <3>1. M * M >= 2 * M /\ M * M \in Int /\ M \in Nat /\ M >= 2  BY Sizes
    <3>2. \A x, y \in Word : x * y \in 0 .. M * M - 1  BY Sizes
    <3>3. \A x, y \in Word : x + M - y \in 0 .. 2 * M - 1  BY <3>1 DEF Word
    <3> QED BY <3>1, <3>2 DEF Word
  <2>2. CASE spec.lookup = "Advice"  BY <1>1, <2>1, <2>2 DEF RecordColumns, RecordIndex
  <2>3. CASE spec.lookup = "none"  BY <1>1, <2>1, <2>3 DEF RecordColumns, Raw, IsRawIndex, AluOps
  <2>4. CASE spec.lookup \in AluOps
    <3>1. spec.lookup # "Advice"  BY <2>4 DEF AluOps
    <3>2. CASE ~Raw  BY <1>1, <2>1, <3>2 DEF RecordColumns
    <3>3. CASE Raw
        BY <2>4, <3>1, <3>3, Modes, <1>1, <2>1 DEF Raw, IsRawIndex, LookupIndex, RecordColumns, RecordIndex
    <3> QED BY <3>2, <3>3
  <2> QED BY <1>4, <2>2, <2>3, <2>4 DEF Lookups
<1>7. RecordOutput(r) = TableOutput(w)
  <2>1. CASE Raw  BY <2>1 DEF RecordOutput, TableOutput, RecordColumns
  <2>2. CASE ~Raw /\ spec.lookup # "none"
    <3>1. spec.lookup # "Advice" /\ OperandMode(spec.lookup) = "Interleaved"
        BY <1>4, <2>2 DEF Raw, IsRawIndex, Lookups
    <3>2. LookupIndex("Interleaved", L, R) = <<L, R>>  BY DEF LookupIndex
    <3> QED BY <2>2, <3>1, <3>2 DEF RecordOutput, TableOutput, RecordColumns, RecordIndex
  <2>3. CASE spec.lookup = "none"  BY <2>3 DEF RecordOutput, TableOutput
  <2> QED BY <2>1, <2>2, <2>3
<1>8. /\ TableOutput(w) \in Word
      /\ spec.lookup \in Booleans => TableOutput(w) \in {0, 1}
      /\ spec.lookup = "Advice" => TableOutput(w) = w["right_lookup"] % M
      /\ spec.lookup # "Advice" => \A supplied : Output(spec, a, b, supplied) = TableOutput(w)
    BY <1>5, <1>6, OutputExact
<1>9. Output(spec, a, b, r.rd) = RecordOutput(r)
  <2>1. CASE spec.lookup = "Advice"
      BY <2>1, WordRemainder, <1>7, <1>8 DEF RecordColumns, RecordIndex, Raw, IsRawIndex, Output, AluOps
  <2>2. CASE spec.lookup # "Advice"  BY <1>7, <1>8, <2>2
  <2> QED BY <2>1, <2>2
<1>10. w["lookup_output"] \in Word /\ w["ram_address"] \in Word
        /\ (Set("Branch") => w["lookup_output"] \in {0, 1})
    BY <1>7, <1>8 DEF RecordColumns, Set, RowTyped, SpecFacts
<1>11. w["should_branch"] \in Word /\ w["ram_read"] \in Word /\ w["ram_write"] \in Word
        /\ w["rd_write"] \in Word /\ w["next_pc"] \in Word
    BY <1>1, <1>3 DEF RecordColumns, Bool
<1>12. Fields(w, {"should_branch", "ram_read", "ram_write", "rd_write", "next_pc"})
    BY <1>2, <1>11 DEF Fields
<1>13. RamHolds(w) /\ OutputHolds(w) /\ NextPcHolds(w)
             /\ Zero(w["lookup_output"] * Bool(Set("Branch")) - w["should_branch"])
             <=> RestIs(w)
    BY <1>10, <1>12, RestExact DEF RecordColumns
<1>14. L * R \in 0 .. P - 1  BY <1>1, FieldSums
<1>15. InputHolds(w) /\ Zero(w["left_input"] * w["right_input"] - w["product"])
    BY <1>1, <1>2, <1>14, <1>5, InputsExact DEF RecordColumns
<1>16. w["left_lookup"] \in 0 .. P - 1 /\ w["right_lookup"] \in 0 .. P - 1
  <2>1. P \in Nat /\ P > M * M /\ M * M \in Int  BY FieldAssumption, Sizes
  <2>2. w["right_lookup"] \in 0 .. P - 1  BY <1>6, <2>1
  <2> QED BY <1>1, <1>2, <1>3, <2>2 DEF RecordColumns
<1>17. LookupHolds(w)  BY <1>5, <1>16, LookupsExact
<1>18. Witnessed(w)
    BY <1>2, ImmColumn, <1>1, <1>14, <1>16, <1>10, <1>11 DEF RecordColumns, Stands, RowTyped, Ints,
       ValueColumns, Witnessed
<1>19. (\A k \in Constraints : Satisfied(k, w)) <=> AllHold(w)
    BY <1>18, AllSatisfied, FlagsExclusive DEF RowTyped
<1> QED BY <1>9, <1>13, <1>15, <1>17, <1>19, Zenon DEF AllHold, ProductHolds

-----------------------------------------------------------------------------
(* check_record restates the constraints. *)

RecordTyped(r) ==
    /\ r.rd \in Word
    /\ r.next \in Word
    /\ Set("Jump") => r.next \in Pc
    /\ r.ram.access \in {"NoOp", "Read", "Write"}
    /\ r.ram.address \in Word
    /\ r.ram.pre \in Word
    /\ r.ram.access = "NoOp" => r.ram.address = 0

\* On a record of the row, check_record and the constraints agree.
LEMMA CheckIsAccepted ==
    ASSUME RowTyped, NEW r, RecordTyped(r)
    PROVE  CheckRecord(spec, pc, a, b, r) <=> Accepted(r)
<1> DEFINE w == CycleWitness(r)
           out == RecordOutput(r)
<1>1. RecordColumns(w, r)  BY CycleColumns
<1> HIDE DEF w
<1>2. /\ Output(spec, a, b, r.rd) = out
      /\ (\A k \in Constraints : Satisfied(k, w)) <=> RestIs(w)
    BY <1>1, RecordHolds DEF RecordTyped
<1>3. Accepted(r) <=> FromRecord(r) /\ RestIs(w)  BY <1>2, Zenon DEF Accepted, w
<1>4. RestIs(w) <=>
        /\ r.ram.address = IF Set("Load") \/ Set("Store") THEN Address(spec, a) ELSE 0
        /\ Set("Assert") => out = 1
        /\ Set("WriteLookupToRd") => r.rd = out
        /\ r.next = NextPc(spec, pc, out)
  <2>1. AtMostOne({"Load", "Store"}, spec.flags)
              /\ AtMostOne({"Load", "Store", "WriteLookupToRd"}, spec.flags)
      BY DEF RowTyped, SpecFacts
  <2>2. Set("Load") => ~Set("Store")  BY <2>1 DEF AtMostOne, Set
  <2>3. Set("WriteLookupToRd") => ~Set("Store")  BY <2>1 DEF AtMostOne, Set
  <2> HIDE DEF out
  <2>4. /\ w["should_branch"] = Bool(Taken(w["lookup_output"]))
        /\ w["lookup_output"] = out /\ w["ram_address"] = r.ram.address /\ w["next_pc"] = r.next
      BY <1>1 DEF RecordColumns, out
  <2>5. Set("Load") => w["ram_read"] = w["ram_write"] /\ w["ram_read"] = w["rd_write"]
      BY <1>1, <2>2 DEF RecordColumns
  <2>6. Set("Store") => w["ram_write"] = b  BY <1>1, <2>2 DEF RecordColumns
  <2>7. Set("WriteLookupToRd") => w["rd_write"] = r.rd  BY <1>1, <2>3 DEF RecordColumns
  <2> QED BY <2>4, <2>5, <2>6, <2>7 DEF RestIs
<1>5. /\ Set("Load") <=> "Load" \in spec.flags
      /\ Set("Store") <=> "Store" \in spec.flags
      /\ Set("Assert") <=> "Assert" \in spec.flags
      /\ Set("WriteLookupToRd") <=> "WriteLookupToRd" \in spec.flags
      /\ Set("Jump") <=> "Jump" \in spec.flags
    BY DEF Set
<1>6. spec.flags \cap {"Assert", "Branch"} # {} => spec.lookup \in Booleans
    BY DEF RowTyped, SpecFacts
<1>7. r.next = NextPc(spec, pc, out) => (Set("Jump") => out \in Pc)
  <2>1. SUFFICES ASSUME r.next = NextPc(spec, pc, out), Set("Jump") PROVE out \in Pc  OBVIOUS
  <2>2. "Jump" \in spec.flags /\ "Halt" \notin spec.flags
      BY <2>1 DEF Set, RowTyped, SpecFacts, AtMostOne
  <2>3. NextPc(spec, pc, out) = out  BY <2>2 DEF NextPc
  <2> QED BY <2>1, <2>3 DEF RecordTyped
<1>8. CheckRam(spec, a, b, r)
        <=> FromRecord(r) /\ r.ram.address = IF Set("Load") \/ Set("Store") THEN Address(spec, a) ELSE 0
  <2>1. ~(Set("Load") /\ Set("Store"))  BY DEF RowTyped, SpecFacts, AtMostOne, Set
  <2>2. spec.flags \cap {"Load", "Store"} = {} <=> ~Set("Load") /\ ~Set("Store")  BY DEF Set
  <2>3. CheckRam(spec, a, b, r) <=>
          \/ /\ r.ram.access = "Read" /\ Set("Load") /\ r.ram.address = Address(spec, a)
                      /\ r.ram.value = r.rd
          \/ /\ r.ram.access = "Write" /\ Set("Store") /\ r.ram.address = Address(spec, a)
                      /\ r.ram.value = b
          \/ /\ r.ram.access = "NoOp" /\ ~Set("Load") /\ ~Set("Store")
      BY <1>5, <2>2 DEF CheckRam, RecordTyped
  <2>4. CASE Set("Load")  BY <1>5, <2>1, <2>2, <2>4, <2>3 DEF FromRecord
  <2>5. CASE Set("Store")  BY <1>5, <2>1, <2>2, <2>5, <2>3 DEF FromRecord
  <2>6. CASE ~Set("Load") /\ ~Set("Store")  BY <1>5, <2>2, <2>6, <2>3 DEF FromRecord, RecordTyped
  <2> QED BY <2>4, <2>5, <2>6
<1>9. CheckRecord(spec, pc, a, b, r) <=>
        /\ spec.flags \cap {"Assert", "Branch"} # {} => spec.lookup \in Booleans
        /\ Set("Assert") => out = 1
        /\ Set("WriteLookupToRd") => r.rd = out
        /\ CheckRam(spec, a, b, r)
        /\ Set("Jump") => out \in Pc
        /\ r.next = NextPc(spec, pc, out)
    BY <1>2, <1>5, Zenon DEF CheckRecord
<1> QED BY <1>3, <1>4, <1>6, <1>7, <1>8, <1>9, Zenon

\* Memory holds words.
LEMMA MemoryWords == \A x \in Mapped : Memory[x] \in Word
<1>1. \A x \in Mapped : (x + 1) % M \in Word
  <2>1. \A x \in Mapped : x + 1 \in Int  BY WidthAssumption, Sizes
  <2> QED BY <2>1, WordsAre
<1> QED BY <1>1 DEF Memory

\* Every record the run enumerates is such a record.
LEMMA RecordsTyped == ASSUME RowTyped, NEW r \in Records PROVE RecordTyped(r)
<1>1. r.rd \in Word /\ r.next \in Pc /\ r.next \in Word  BY WordsAre DEF Records
<1>2. r.ram \in {NoOp} \cup {Access(kind, address, value) :
                kind \in {"Read", "Write"}, address \in DOMAIN Memory, value \in Word}
    BY DEF Records
<1>3. CASE r.ram = NoOp  BY <1>1, <1>3, WordsAre DEF RecordTyped, NoOp
<1>4. CASE r.ram # NoOp
  <2>1. PICK kind \in {"Read", "Write"}, address \in DOMAIN Memory, value \in Word :
            r.ram = Access(kind, address, value)
      BY <1>2, <1>4
  <2>2. address \in Word /\ Memory[address] \in Word
      BY WidthAssumption, Sizes, MemoryWords DEF Memory, Word
  <2> QED BY <1>1, <2>1, <2>2 DEF RecordTyped, Access
<1> QED BY <1>3, <1>4

\* The machine's step on a row that does not trap.
LEMMA HonestChecks ==
    ASSUME RowTyped, ~Traps
    PROVE  CheckRecord(spec, pc, a, b, Step) /\ RecordTyped(Step)
<1> DEFINE q == QuotientU(a, b)
           w == CycleWitness(Step)
<1>1. q \in Word
  <2>1. a \in Nat /\ b \in Nat /\ a <= M - 1 /\ M \in Nat  BY Sizes DEF RowTyped, Word
  <2>2. CASE b = 0  BY <2>2, WordsAre DEF QuotientU
  <2>3. CASE b # 0
    <3>1. PICK d \in Int : d = a \div b  BY <2>1, <2>3
    <3>2. a = b * d + (a % b) /\ a % b \in 0 .. b - 1  BY <2>1, <2>3, <3>1
    <3>3. d >= 0
      <4> SUFFICES ASSUME d <= -1 PROVE FALSE
          BY <3>1
      <4>1. b * d <= -b  BY <2>1, <2>3
      <4> QED BY <2>1, <3>2, <4>1
    <3>4. b * d >= d  BY <2>1, <2>3, <3>3
    <3>5. d <= a  BY <2>1, <3>2, <3>4
    <3> QED BY <2>1, <2>3, <3>1, <3>3, <3>5 DEF QuotientU, Word
  <2> QED BY <2>2, <2>3
<1>2. Honest \in Word /\ (spec.lookup = "Advice" => Honest = q)
        /\ (spec.lookup # "Advice" => \A supplied : Output(spec, a, b, supplied) = Honest)
  <2>1. L \in Word /\ R \in Word  BY InputWords
  <2>2. spec.lookup \in Lookups  BY DEF RowTyped, SpecFacts
  <2>3. CASE spec.lookup = "none"  BY <2>3, WordsAre DEF Honest, Output, AluOps
  <2>4. CASE spec.lookup = "Advice"  BY <1>1, <2>4 DEF Honest, Output, AluOps
  <2>5. CASE spec.lookup \in AluOps  BY <2>5, <2>1, EvaluateWord DEF Output, AluOps, L, R, Honest
  <2> QED BY <2>2, <2>3, <2>4, <2>5 DEF Lookups
<1> HIDE DEF q
<1>3. /\ Step.next = NextPc(spec, pc, Honest)
      /\ Step.rd = IF "Load" \in spec.flags THEN Memory[Address(spec, a)]
                   ELSE IF spec.rd THEN Honest ELSE 0
      /\ Step.ram = IF "Load" \in spec.flags
                    THEN Access("Read", Address(spec, a), Memory[Address(spec, a)])
                    ELSE IF "Store" \in spec.flags THEN Access("Write", Address(spec, a), b)
                    ELSE NoOp
    BY DEF Step, StepRecord
<1>4. ("Load" \in spec.flags \/ "Store" \in spec.flags)
            => Address(spec, a) \in Mapped /\ Address(spec, a) \in Word
  <2>1. DOMAIN Memory = Mapped /\ Mapped \subseteq Word  BY WidthAssumption, Sizes DEF Memory, Word
  <2> QED BY <2>1 DEF Traps, StepTraps
<1>5. \A x \in Mapped : Memory[x] \in Word  BY MemoryWords
<1>6. Step.rd \in Word  BY <1>2, <1>3, <1>4, <1>5, WordsAre
<1>7. NextPc(spec, pc, Honest) \in Word
    BY WidthAssumption, Sizes, <1>2 DEF RowTyped, Word, NextPc, SpecFacts
<1>8. Set("Jump") => Honest \in Pc /\ NextPc(spec, pc, Honest) = Honest
  <2>1. SUFFICES ASSUME "Jump" \in spec.flags PROVE Honest \in Pc /\ NextPc(spec, pc, Honest) = Honest
      BY DEF Set
  <2>2. "Halt" \notin spec.flags  BY <2>1 DEF RowTyped, SpecFacts, AtMostOne
  <2> QED BY <2>1, <2>2 DEF Traps, StepTraps, NextPc
<1>9. RecordTyped(Step)
  <2>1. /\ Step.rd \in Word /\ Step.next \in Word /\ 0 \in Word
        /\ Set("Jump") => Step.next \in Pc
      BY <1>3, <1>6, <1>7, <1>8, WordsAre
  <2>2. CASE "Load" \in spec.flags \/ "Store" \in spec.flags
    <3>1. PICK x \in Mapped : x = Address(spec, a) /\ x \in Word /\ Memory[x] \in Word
        BY <1>4, <1>5, <2>2
    <3>2. PICK kind, v : kind \in {"Read", "Write"} /\ Step.ram = Access(kind, x, v)
      <4>1. CASE "Load" \in spec.flags  BY <1>3, <3>1, <4>1
      <4>2. CASE "Load" \notin spec.flags  BY <1>3, <2>2, <3>1, <4>2
      <4> QED BY <4>1, <4>2
    <3>3. Access(kind, x, v) = [access |-> kind, address |-> x, value |-> v, pre |-> Memory[x]]
        BY DEF Access
    <3>4. /\ Step.ram.access = kind /\ Step.ram.address = x /\ Step.ram.pre = Memory[x]
          /\ kind # "NoOp"
        BY <3>2, <3>3
    <3> QED BY <2>1, <3>1, <3>2, <3>4 DEF RecordTyped
  <2>3. CASE ~("Load" \in spec.flags \/ "Store" \in spec.flags)
      BY <1>3, <2>1, <2>3 DEF RecordTyped, NoOp
  <2> QED BY <2>2, <2>3
<1>10. Output(spec, a, b, Step.rd) = Honest
  <2>1. CASE spec.lookup = "Advice"
      BY <2>1, <1>2, <1>3 DEF RowTyped, SpecFacts, AtMostOne, Output, AluOps
  <2> QED BY <1>2, <2>1
<1>11. CheckRam(spec, a, b, Step)
  <2>1. CASE "Load" \in spec.flags  BY <1>3, <2>1 DEF CheckRam, Access
  <2>2. CASE "Load" \notin spec.flags /\ "Store" \in spec.flags  BY <1>3, <2>2 DEF CheckRam, Access
  <2>3. CASE "Load" \notin spec.flags /\ "Store" \notin spec.flags  BY <1>3, <2>3 DEF CheckRam, NoOp
  <2> QED BY <2>1, <2>2, <2>3
<1>12. /\ spec.flags \cap {"Assert", "Branch"} # {} => spec.lookup \in Booleans
       /\ "Assert" \in spec.flags => Honest = 1
       /\ "WriteLookupToRd" \in spec.flags => Step.rd = Honest
    BY <1>3 DEF Traps, StepTraps, RowTyped, SpecFacts, AtMostOne
<1> QED BY <1>3, <1>8, <1>9, <1>10, <1>11, <1>12 DEF CheckRecord, Set

-----------------------------------------------------------------------------
(* The columns a row's witness is filled with *)

\* The columns in the order they are filled.
LEMMA OrderIs ==
    /\ DOMAIN Order = 1 .. 12 /\ Len(Order) = 12
    /\ Order[1] = "left_input" /\ Order[2] = "right_input" /\ Order[3] = "product"
    /\ Order[4] = "left_lookup" /\ Order[5] = "right_lookup" /\ Order[6] = "lookup_output"
    /\ Order[7] = "should_branch" /\ Order[8] = "ram_address" /\ Order[9] = "ram_read"
    /\ Order[10] = "ram_write" /\ Order[11] = "rd_write" /\ Order[12] = "next_pc"
    BY DEF Order

OrderSet ==
    {"left_input", "right_input", "product", "left_lookup", "right_lookup", "lookup_output",
     "should_branch", "ram_address", "ram_read", "ram_write", "rd_write", "next_pc"}

LEMMA Twelve == \A n \in 1 .. 12 : n \in {1, 2, 3, 4, 5, 6, 7, 8, 9, 10, 11, 12}
    OBVIOUS

LEMMA OrderDistinct ==
    /\ \A n \in 1 .. 12 : Order[n] \in OrderSet /\ Order[n] \notin StaticColumns
    /\ \A n, m \in 1 .. 12 : Order[n] = Order[m] => n = m
    /\ \A c \in OrderSet : \E n \in 1 .. 12 : c = Order[n]
<1>1. \A n \in 1 .. 12 : Order[n] \in OrderSet /\ Order[n] \notin StaticColumns
    BY Twelve, OrderIs DEF OrderSet, StaticColumns, RowFlagSet
<1>2. \A n, m \in 1 .. 12 : Order[n] = Order[m] => n = m  BY Twelve, OrderIs
<1>3. \A c \in OrderSet : \E n \in 1 .. 12 : c = Order[n]  BY OrderIs DEF OrderSet
<1> QED BY <1>1, <1>2, <1>3

\* The columns filled after n fills.
Front(n) == {Order[m] : m \in 1 .. n}

\* The columns filled so far.
LEMMA FrontNext ==
    ASSUME NEW n \in 0 .. 11
    PROVE  Front(n + 1) = Front(n) \cup {Order[n + 1]} /\ Order[n + 1] \notin Front(n)
<1>1. 1 .. n + 1 = (1 .. n) \cup {n + 1}  OBVIOUS
<1>2. Front(n + 1) = Front(n) \cup {Order[n + 1]}  BY <1>1 DEF Front
<1>3. Order[n + 1] \notin Front(n)  BY OrderDistinct DEF Front
<1> QED BY <1>2, <1>3

LEMMA FrontSize == \A n \in 0 .. 12 : IsFiniteSet(Front(n)) /\ Cardinality(Front(n)) = n
<1> DEFINE K == {n \in 0 .. 12 : IsFiniteSet(Front(n)) /\ Cardinality(Front(n)) = n}
<1>1. 0 \in K  BY FS_EmptySet DEF Front
<1>2. ASSUME NEW n \in 0 .. 12 - 1, n \in K PROVE n + 1 \in K
  <2>1. n \in 0 .. 11 /\ n + 1 \in 0 .. 12  OBVIOUS
  <2>2. Front(n + 1) = Front(n) \cup {Order[n + 1]} /\ Order[n + 1] \notin Front(n)
      BY <2>1, FrontNext
  <2>3. IsFiniteSet(Front(n)) /\ Cardinality(Front(n)) = n  BY <1>2
  <2>4. IsFiniteSet(Front(n) \cup {Order[n + 1]}) /\ Cardinality(Front(n) \cup {Order[n + 1]}) = n + 1
      BY <2>2, <2>3, FS_AddElement
  <2> QED BY <2>1, <2>2, <2>4
<1> HIDE DEF K
<1>3. 0 .. 12 \subseteq K  BY <1>1, <1>2, Inductive
<1> QED BY <1>3 DEF K

-----------------------------------------------------------------------------
(* The columns of the constraints *)

Regular(k) ==
    /\ Columns(k) \subseteq StaticColumns \cup OrderSet
    /\ Columns(k) \cap OrderSet # {}

\* The columns of the forms.
LEMMA FormColumns ==
    /\ \A x : DOMAIN C(x) = {x} /\ DOMAIN Minus(x) = {x}
    /\ \A x, k : DOMAIN Column(x, k) = {x}
    /\ \A f, g : DOMAIN (f ++ g) = DOMAIN f \cup DOMAIN g
    /\ \A S : DOMAIN Either(S) = S
    /\ \A S : DOMAIN Without(S) = S \cup {"const"}
    /\ DOMAIN Nothing = {}
<1>1. \A S : DOMAIN Without(S) = S \cup {"const"}  BY DEF Without, One, Column, ++
<1> QED BY <1>1 DEF C, Minus, Column, ++, Either, Nothing

LEMMA EqColumns == \A g, d : Columns(Eq(g, d)) = DOMAIN g \cup DOMAIN d
    BY FormColumns DEF Columns, Eq

AllColumns == StaticColumns \cup OrderSet
Inside(f) == DOMAIN f \subseteq AllColumns
Ordered(f) == DOMAIN f \cap OrderSet # {}

LEMMA FormsInside ==
    /\ \A x \in AllColumns : Inside(C(x)) /\ Inside(Minus(x)) /\ \A k : Inside(Column(x, k))
    /\ \A x \in OrderSet : Ordered(C(x)) /\ Ordered(Minus(x))
    /\ \A f, g : Inside(f) /\ Inside(g) => Inside(f ++ g)
    /\ \A f, g : Ordered(f) \/ Ordered(g) => Ordered(f ++ g)
    /\ \A S : S \subseteq RowFlagSet => Inside(Either(S)) /\ Inside(Without(S))
    /\ Inside(Without({"should_branch", "Jump", "Halt"}))
    /\ \A g, d : Inside(g) /\ Inside(d) /\ Ordered(d) => Regular(Eq(g, d))
<1>1. \A x \in AllColumns : Inside(C(x)) /\ Inside(Minus(x)) /\ \A k : Inside(Column(x, k))
  <2> SUFFICES ASSUME NEW x \in AllColumns
               PROVE  Inside(C(x)) /\ Inside(Minus(x)) /\ \A k : Inside(Column(x, k))
      BY Zenon
  <2>1. DOMAIN C(x) = {x} /\ DOMAIN Minus(x) = {x} /\ \A k : DOMAIN Column(x, k) = {x}
      BY FormColumns
  <2>2. {x} \subseteq AllColumns  OBVIOUS
  <2>3. Inside(C(x))  BY <2>1, <2>2 DEF Inside
  <2>4. Inside(Minus(x))  BY <2>1, <2>2 DEF Inside
  <2>5. ASSUME NEW k PROVE Inside(Column(x, k))  BY <2>1, <2>2 DEF Inside
  <2> QED BY <2>3, <2>4, <2>5, Zenon
<1>2. \A x \in OrderSet : Ordered(C(x)) /\ Ordered(Minus(x))  BY FormColumns DEF Ordered
<1>3. ASSUME NEW f, NEW g, Inside(f), Inside(g) PROVE Inside(f ++ g)
  <2>1. DOMAIN (f ++ g) = DOMAIN f \cup DOMAIN g  BY FormColumns
  <2> QED BY <1>3, <2>1 DEF Inside
<1>4. ASSUME NEW f, NEW g, Ordered(f) \/ Ordered(g) PROVE Ordered(f ++ g)
  <2>1. DOMAIN (f ++ g) = DOMAIN f \cup DOMAIN g  BY FormColumns
  <2> QED BY <1>4, <2>1 DEF Ordered
<1>5. ASSUME NEW S, S \subseteq RowFlagSet PROVE Inside(Either(S)) /\ Inside(Without(S))
  <2>1. DOMAIN Either(S) = S /\ DOMAIN Without(S) = S \cup {"const"}  BY FormColumns
  <2> QED BY <1>5, <2>1 DEF Inside, AllColumns, StaticColumns
<1>6. Inside(Without({"should_branch", "Jump", "Halt"}))
  <2>1. DOMAIN Without({"should_branch", "Jump", "Halt"})
              = {"should_branch", "Jump", "Halt"} \cup {"const"}
      BY FormColumns
  <2> QED BY <2>1 DEF Inside, AllColumns, StaticColumns, OrderSet, RowFlagSet
<1>7. ASSUME NEW g, NEW d, Inside(g), Inside(d), Ordered(d) PROVE Regular(Eq(g, d))
    BY EqColumns, <1>7 DEF Inside, Ordered, Regular, AllColumns
<1> QED BY <1>1, <1>2, <1>3, <1>4, <1>5, <1>6, <1>7, Zenon

\* Every constraint has a column to fill and no column outside the witness.
LEMMA ConstraintsRegular == \A k \in Constraints : Regular(k)
<1>1. OrderSet \subseteq AllColumns /\ RowFlagSet \subseteq AllColumns
        /\ {"const", "imm", "pc", "rs1", "rs2"} \subseteq AllColumns
    BY DEF AllColumns, StaticColumns
<1>2. Combined \subseteq RowFlagSet /\ Combined \cup {"Advice"} \subseteq RowFlagSet
    BY DEF Combined, RowFlagSet
<1>3. \A k \in InputSet : Regular(k)  BY <1>1, FormsInside DEF InputSet, OrderSet, RowFlagSet
<1>4. \A k \in RamSet : Regular(k)  BY <1>1, FormsInside DEF RamSet, OrderSet, RowFlagSet
<1>5. \A k \in LookupSet : Regular(k)
    BY <1>1, <1>2, FormsInside DEF LookupSet, OrderSet, RowFlagSet
<1>6. \A k \in OutputSet : Regular(k)  BY <1>1, FormsInside DEF OutputSet, OrderSet, RowFlagSet
<1>7. \A k \in NextPcSet : Regular(k)  BY <1>1, FormsInside DEF NextPcSet, OrderSet, RowFlagSet
<1>8. \A k \in ProductPairSet : Regular(k)
  <2>1. ASSUME NEW x, NEW y, NEW z PROVE Columns(Times(x, y, z)) = {x, y, z}
    <3>1. DOMAIN C(x) = {x} /\ DOMAIN C(y) = {y} /\ DOMAIN C(z) = {z}  BY FormColumns
    <3> QED BY <3>1 DEF Columns, Times
  <2> QED BY <2>1 DEF ProductPairSet, Regular, OrderSet, StaticColumns, RowFlagSet
<1> QED BY <1>3, <1>4, <1>5, <1>6, <1>7, <1>8, ConstraintsAre, Zenon

\* A constraint reads its columns only.
LEMMA SatisfiedReads ==
    ASSUME NEW k, NEW w, NEW v, \A c \in Columns(k) : w[c] = v[c]
    PROVE  Satisfied(k, w) <=> Satisfied(k, v)
<1>1. /\ \A c \in DOMAIN k.a : w[c] = v[c]
      /\ \A c \in DOMAIN k.b : w[c] = v[c]
      /\ \A c \in DOMAIN k.c : w[c] = v[c]
    BY DEF Columns
<1>2. Form(k.a, w) = Form(k.a, v) /\ Form(k.b, w) = Form(k.b, v) /\ Form(k.c, w) = Form(k.c, v)
    BY <1>1, FormReads
<1> QED BY <1>2, Zenon DEF Satisfied

-----------------------------------------------------------------------------
(* The inductive invariant *)

\* The row's columns and the first n of Order are filled, each within what it may hold.
Prefix(n) ==
    /\ DOMAIN witness = StaticColumns \cup Front(n)
    /\ \A c \in StaticColumns : witness[c] = Static[c]
    /\ \A m \in 1 .. n : witness[Order[m]] \in Given(Order[m])

\* A constraint whose columns are there holds.
Kept == \A k \in Constraints : Columns(k) \subseteq DOMAIN witness => Satisfied(k, witness)

RowInv == RowTyped /\ Kept /\ \E n \in 0 .. 12 : Prefix(n)

\* How many columns are filled.
LEMMA FilledIs ==
    ASSUME NEW n \in 0 .. 12, Prefix(n)
    PROVE  Filled = Front(n) /\ Cardinality(Filled) = n /\ (Complete <=> n = 12)
<1>1. \A c \in Front(n) : \E m \in DOMAIN Order : Order[m] = c  BY OrderIs DEF Front
<1>2. \A c \in StaticColumns : ~\E m \in DOMAIN Order : Order[m] = c  BY OrderIs, OrderDistinct
<1>3. Filled = Front(n)  BY <1>1, <1>2 DEF Filled, Prefix
<1> QED BY <1>3, FrontSize, OrderIs DEF Complete

\* The invariant holds of the row's own columns: no constraint is due yet.
LEMMA InitRow == Init => RowInv
<1> SUFFICES ASSUME Init PROVE RowInv
    OBVIOUS
<1>1. RowTyped  BY SpecIs, WordsAre DEF Init, RowTyped, spec
<1>2. Front(0) = {} /\ DOMAIN witness = StaticColumns  BY StaticStands DEF Init, Front
<1>3. Prefix(0)  BY <1>2 DEF Prefix, Init
<1>4. Kept  BY OrderDistinct, ConstraintsRegular, <1>2 DEF Regular, Kept
<1>5. 0 \in 0 .. 12  OBVIOUS
<1> QED BY <1>1, <1>3, <1>4, <1>5 DEF RowInv

\* What a column may hold depends on earlier columns only.
LEMMA GivenStays ==
    ASSUME UNCHANGED <<instruction, pc, a, b>>, NEW n \in 0 .. 12,
           \A m \in 1 .. n : witness'[Order[m]] = witness[Order[m]]
    PROVE  \A m \in 1 .. n + 1 : m <= 12 => Given(Order[m])' = Given(Order[m])
<1> SUFFICES ASSUME NEW m \in 1 .. n + 1, m <= 12 PROVE Given(Order[m])' = Given(Order[m])
    OBVIOUS
<1>1. spec' = spec /\ Raw' = Raw  BY DEF spec, Raw
<1>2. m \in {1, 2, 3, 4, 5, 6, 7, 8, 9, 10, 11, 12}  BY Twelve
<1>3. CASE m \in {1, 2, 3, 7}  BY <1>3, OrderIs DEF Given
<1>4. CASE m \in {4, 5, 8, 11, 12}  BY <1>1, <1>4, OrderIs DEF Given
<1>5. CASE m = 6  BY <1>5, OrderIs, <1>1 DEF Index, Given
<1>6. CASE m \in {9, 10}
  <2>1. witness'["ram_address"] = witness["ram_address"]  BY <1>6, OrderIs
  <2> QED BY <1>6, <2>1, OrderIs DEF Given
<1> QED BY <1>2, <1>3, <1>4, <1>5, <1>6

\* Filling a column keeps the invariant: a constraint is due once its last column is filled.
LEMMA FillRow == RowInv /\ Fill => RowInv'
<1> SUFFICES ASSUME RowInv, Fill PROVE RowInv'
    OBVIOUS
<1>1. UNCHANGED <<instruction, pc, a, b>>  BY DEF Fill
<1>2. RowTyped'  BY <1>1 DEF RowInv, RowTyped, Addressable, spec
<1>3. Static' = Static  BY <1>1 DEF Static, ImmSigned, spec
<1>4. PICK n \in 0 .. 12 : Prefix(n)  BY DEF RowInv
<1>5. Cardinality(Filled) = n /\ n # 12  BY <1>4, FilledIs DEF Fill
<1>6. PICK v \in Given(Order[n + 1]) :
        witness' = witness ++ Column(Order[n + 1], v) /\ \A k \in Due[n + 1] : Satisfied(k, witness')
    BY <1>5, Zenon DEF Fill
<1> DEFINE column == Order[n + 1]
<1>7. n \in 0 .. 11 /\ n + 1 \in 1 .. 12 /\ n + 1 \in 0 .. 12 /\ n \in Nat  BY <1>5
<1>8. Front(n + 1) = Front(n) \cup {column} /\ column \notin Front(n) /\ column \notin StaticColumns
    BY <1>7, FrontNext, OrderDistinct
<1>9. DOMAIN witness = StaticColumns \cup Front(n)  BY <1>4 DEF Prefix
<1> HIDE DEF column
<1>10. /\ DOMAIN witness' = StaticColumns \cup Front(n + 1)
       /\ \A c \in DOMAIN witness : witness'[c] = witness[c]
       /\ witness'[column] = v
  <2>1. DOMAIN Column(column, v) = {column} /\ Column(column, v)[column] = v  BY DEF Column
  <2>2. witness' = witness ++ Column(column, v)  BY <1>6 DEF column
  <2>3. DOMAIN witness' = DOMAIN witness \cup {column}  BY <2>1, <2>2 DEF ++
  <2>4. \A c \in DOMAIN witness : witness'[c] = witness[c]  BY <2>1, <2>2 DEF ++
  <2>5. column \notin DOMAIN witness  BY <1>8, <1>9
  <2>6. witness'[column] = v  BY <2>1, <2>2, <2>5 DEF ++
  <2> QED BY <1>8, <1>9, <2>3, <2>4, <2>6
<1>11. Prefix(n + 1)'
  <2>1. \A c \in StaticColumns : witness'[c] = Static'[c]  BY <1>3, <1>4, <1>9, <1>10 DEF Prefix
  <2>2. \A m \in 1 .. n : witness'[Order[m]] = witness[Order[m]]  BY <1>9, <1>10 DEF Front
  <2>3. \A m \in 1 .. n + 1 : Given(Order[m])' = Given(Order[m])  BY <1>1, <1>7, <2>2, GivenStays
  <2>4. ASSUME NEW m \in 1 .. n + 1 PROVE (witness[Order[m]])' \in Given(Order[m])'
    <3>1. CASE m = n + 1  BY <1>6, <1>10, <2>3, <3>1 DEF column
    <3>2. CASE m # n + 1  BY <1>7, <3>2, <1>4, <2>2, <2>3 DEF Prefix
    <3> QED BY <3>1, <3>2
  <2> QED BY <1>10, <2>1, <2>4, Zenon DEF Prefix
<1>12. Kept'
  <2> SUFFICES ASSUME NEW k \in Constraints, Columns(k) \subseteq DOMAIN witness'
            PROVE Satisfied(k, witness')
      BY Zenon DEF Kept
  <2>1. CASE column \notin Columns(k)  BY <1>8, <1>9, <1>10, <2>1, SatisfiedReads DEF RowInv, Kept
  <2>2. CASE column \in Columns(k)
    <3>1. \A l \in n + 2 .. 12 : Order[l] \notin Columns(k)
      <4> SUFFICES ASSUME NEW l \in n + 2 .. 12, Order[l] \in StaticColumns \cup Front(n + 1) PROVE FALSE
          BY <1>10
      <4>1. l \in 1 .. 12 /\ l \notin 1 .. n + 1  BY <1>7
      <4>2. Order[l] \in Front(n + 1)  BY <4>1, OrderDistinct
      <4>3. PICK m \in 1 .. n + 1 : Order[l] = Order[m]  BY <4>2 DEF Front
      <4>4. m \in 1 .. 12  BY <1>7
      <4> QED BY <4>1, <4>3, <4>4, OrderDistinct
    <3>2. k \in Due[n + 1]  BY <1>7, OrderIs, <2>2, <3>1 DEF Due, column
    <3> QED BY <1>6, <3>2
  <2> QED BY <2>1, <2>2
<1> QED BY <1>2, <1>7, <1>11, <1>12 DEF RowInv

-----------------------------------------------------------------------------
(* A complete witness is the machine's step *)

\* What a table holds at an index of its kind is a number.
LEMMA EntryTyped ==
    /\ \A op \in AluOps, index \in Nat : OperandMode(op) # "Interleaved" => Entry(op, index) \in Int
    /\ \A op \in AluOps, x \in Word, y \in Word :
           OperandMode(op) = "Interleaved" => Entry(op, <<x, y>>) \in Word
<1>1. ASSUME NEW op \in AluOps, NEW index \in Nat, OperandMode(op) # "Interleaved"
      PROVE  Entry(op, index) \in Int
  <2>1. index % M \in Int /\ index % 2^(W \div 2) \in Int  BY Sizes, HalfWidth
  <2>2. op \in {"Add64", "Add32", "Sub64", "Mul64", "MulUNoOverflow"}
      BY <1>1 DEF AluOps, OperandMode
  <2>3. CASE op \in {"Add64", "Sub64", "Mul64"}  BY <2>1, <2>3 DEF Entry, OperandMode
  <2>4. CASE op = "Add32"  BY <2>1, <2>4 DEF Entry, OperandMode
  <2>5. CASE op = "MulUNoOverflow"  BY <2>5, <1>1 DEF Entry, Bool
  <2> QED BY <2>2, <2>3, <2>4, <2>5
<1>2. ASSUME NEW op \in AluOps, NEW x \in Word, NEW y \in Word, OperandMode(op) = "Interleaved"
      PROVE  Entry(op, <<x, y>>) \in Word
    BY <1>2, EntryEvaluates, EvaluateWord DEF LookupIndex
<1> QED BY <1>1, <1>2

\* What the columns hold besides the constraints.
LEMMA GivenColumns ==
    ASSUME RowTyped, Prefix(12)
    PROVE  /\ Fields(witness, {"left_input", "right_input", "product", "should_branch",
                               "ram_read", "ram_write", "rd_write", "next_pc"})
           /\ witness["left_lookup"] \in Word
           /\ witness["right_lookup"] \in 0 .. M * M - 1
           /\ ~Raw => witness["right_lookup"] \in Word
           /\ witness["lookup_output"] = TableOutput(witness)
           /\ witness["ram_address"] \in {0} \cup Mapped
           /\ witness["ram_address"] \in Mapped => witness["ram_read"] = Memory[witness["ram_address"]]
           /\ witness["next_pc"] \in 0 .. CodeLength - 1
           /\ \A x \in Mapped : Memory[x] \in Word /\ x \in Word /\ x # 0
           /\ DOMAIN Memory = Mapped
<1>1. \A m \in 1 .. 12 : witness[Order[m]] \in Given(Order[m])  BY DEF Prefix
<1>2. \A n \in {1, 2, 3, 4, 5, 6, 7, 8, 9, 10, 11, 12} : witness[Order[n]] \in Given(Order[n])
    BY <1>1
<1>3. /\ witness["left_input"] \in Given("left_input")
      /\ witness["right_input"] \in Given("right_input")
      /\ witness["product"] \in Given("product")
      /\ witness["left_lookup"] \in Given("left_lookup")
      /\ witness["right_lookup"] \in Given("right_lookup")
      /\ witness["lookup_output"] \in Given("lookup_output")
      /\ witness["should_branch"] \in Given("should_branch")
      /\ witness["ram_address"] \in Given("ram_address")
      /\ witness["ram_read"] \in Given("ram_read")
      /\ witness["ram_write"] \in Given("ram_write")
      /\ witness["rd_write"] \in Given("rd_write")
      /\ witness["next_pc"] \in Given("next_pc")
    BY <1>2, OrderIs
<1>4. 0 \in Field /\ 1 \in Field /\ Word \subseteq Field /\ 0 \in Word
        /\ Word \subseteq 0 .. M * M - 1 /\ 0 .. CodeLength - 1 \subseteq Field
    BY Sizes, FieldAssumption, WidthAssumption DEF Field, Word
<1>5. DOMAIN Memory = Mapped /\ \A x \in Mapped : Memory[x] = (x + 1) % M  BY DEF Memory
<1>6. \A x \in Mapped : Memory[x] \in Word /\ x \in Word /\ x # 0
    BY WidthAssumption, Sizes, <1>5, WordsAre DEF Word
<1>7. /\ witness["left_input"] \in Field /\ witness["right_input"] \in Field
      /\ witness["product"] \in Field /\ witness["should_branch"] \in Field
    BY <1>3 DEF Given
<1>8. witness["left_lookup"] \in Word  BY <1>3, <1>4 DEF Given
<1>9. witness["right_lookup"] \in 0 .. M * M - 1 /\ (~Raw => witness["right_lookup"] \in Word)
    BY <1>3, <1>4 DEF Given
<1>10. witness["lookup_output"] = TableOutput(witness)  BY <1>3 DEF Given, TableOutput, Index
<1>11. witness["ram_address"] \in {0} \cup Mapped  BY <1>3, <1>5 DEF Given
<1>12. Given("ram_read") = IF witness["ram_address"] = 0 THEN {0} ELSE {Memory[witness["ram_address"]]}
    BY DEF Given
<1>13. /\ witness["ram_address"] = 0 => witness["ram_read"] = 0
       /\ witness["ram_address"] \in Mapped => witness["ram_read"] = Memory[witness["ram_address"]]
    BY <1>3, <1>6, <1>12
<1>14. witness["ram_read"] \in Field  BY <1>4, <1>6, <1>11, <1>13
<1>15. witness["ram_write"] \in Field  BY <1>3, <1>4 DEF Given
<1>16. witness["rd_write"] \in Field  BY <1>3, <1>4 DEF Given
<1>17. witness["next_pc"] \in 0 .. CodeLength - 1  BY <1>3 DEF Given
<1> QED BY <1>4, <1>5, <1>6, <1>7, <1>8, <1>9, <1>10, <1>11, <1>13, <1>14, <1>15, <1>16, <1>17
    DEF Fields, Field

\* The constraints leave a complete witness no other value than the step's.
LEMMA CompleteStep ==
    ASSUME RowInv, Complete
    PROVE  /\ Prefix(12)
           /\ RowTyped
           /\ InputsAre(witness)
           /\ LookupsAre(witness)
           /\ RestIs(witness)
<1>1. RowTyped /\ SpecFacts(spec)  BY DEF RowInv, RowTyped
<1>2. PICK n \in 0 .. 12 : Prefix(n)  BY DEF RowInv
<1>3. Prefix(12)  BY <1>2, FilledIs
<1>4. Stands(witness)  BY <1>3, StaticStands DEF Prefix
<1>5. \A k \in Constraints : Satisfied(k, witness)
  <2>1. \A c \in OrderSet : c \in Front(12)  BY OrderDistinct DEF Front
  <2>2. \A k \in Constraints : Columns(k) \subseteq DOMAIN witness
      BY <1>3, <2>1, ConstraintsRegular DEF Regular, Prefix
  <2> QED BY <2>2 DEF RowInv, Kept
<1>6. PICK w : w = witness  OBVIOUS
<1>7. /\ Fields(w, {"left_input", "right_input", "product", "should_branch",
                    "ram_read", "ram_write", "rd_write", "next_pc"})
      /\ w["left_lookup"] \in Word
      /\ w["right_lookup"] \in 0 .. M * M - 1
      /\ ~Raw => w["right_lookup"] \in Word
      /\ w["lookup_output"] = TableOutput(w)
      /\ w["ram_address"] \in Word
    BY <1>1, <1>3, GivenColumns, <1>6, WordsAre
<1>8. /\ Stands(w)
      /\ \A k \in Constraints : Satisfied(k, w)
    BY <1>4, <1>5, <1>6
<1>9. TableOutput(w) \in Int
  <2>1. spec.lookup \in Lookups  BY <1>1 DEF SpecFacts
  <2>2. w["right_lookup"] \in Nat  BY <1>7, Sizes
  <2>3. CASE spec.lookup = "none"  BY <2>3 DEF TableOutput
  <2>4. CASE spec.lookup = "Advice"
      BY <2>4, <2>2, EntryTyped DEF Raw, IsRawIndex, TableOp, AluOps, OperandMode, TableOutput
  <2>5. CASE spec.lookup \in AluOps
    <3>1. spec.lookup # "none" /\ TableOp(spec.lookup) = spec.lookup  BY <2>5 DEF AluOps, TableOp
    <3>2. CASE Raw  BY <2>5, <3>2, <3>1, <2>2, EntryTyped DEF Raw, IsRawIndex, AluOps, TableOutput
    <3>3. CASE ~Raw  BY <2>5, <3>3, <3>1, <1>7, EntryTyped, Sizes DEF Raw, IsRawIndex, TableOutput, Word
    <3> QED BY <3>2, <3>3
  <2> QED BY <2>1, <2>3, <2>4, <2>5 DEF Lookups
<1>10. Witnessed(w)
  <2>1. Word \subseteq Int /\ 0 .. P - 1 \subseteq Int /\ 0 .. M * M - 1 \subseteq Int /\ pc \in Int
      BY <1>1, Sizes DEF Word, RowTyped
  <2>2. ImmSigned % P \in Int  BY <1>1, ImmColumn
  <2>3. /\ w["left_input"] \in Int /\ w["right_input"] \in Int /\ w["product"] \in Int
        /\ w["should_branch"] \in Int /\ w["ram_read"] \in Int /\ w["ram_write"] \in Int
        /\ w["rd_write"] \in Int /\ w["next_pc"] \in Int
      BY <1>7, <2>1 DEF Fields
  <2>4. /\ w["pc"] \in Int /\ w["imm"] \in Int /\ w["rs1"] \in Int /\ w["rs2"] \in Int
      BY <1>1, <1>8, <2>1, <2>2 DEF Stands, RowTyped
  <2>5. w["left_lookup"] \in Int /\ w["right_lookup"] \in Int /\ w["lookup_output"] \in Int
          /\ w["ram_address"] \in Int
      BY <1>7, <1>9, <2>1
  <2> QED BY <1>8, <2>3, <2>4, <2>5 DEF Witnessed, Ints, ValueColumns, Stands
<1>11. AllHold(w)  BY <1>1, <1>8, <1>10, AllSatisfied, FlagsExclusive
<1>12. InputsAre(w)  BY <1>7, <1>1, <1>8, <1>11, InputsExact DEF Fields, AllHold, ProductHolds
<1>13. LookupsAre(w)  BY <1>7, Sizes, FieldAssumption, <1>1, <1>11, <1>12, LookupsExact DEF Word, AllHold
<1>14. TableOutput(w) \in Word /\ (spec.lookup \in Booleans => TableOutput(w) \in {0, 1})
    BY <1>1, <1>7, <1>13, OutputExact
<1>15. RestIs(w)
    BY <1>1, <1>7, <1>14, <1>8, <1>11, RestExact DEF SpecFacts, Set, Fields, AllHold, ProductHolds
<1> QED BY <1>1, <1>3, <1>6, <1>12, <1>13, <1>15

\* The row's output, supplied by the row itself when it is an advice row.
Supplied == IF spec.lookup = "Advice" THEN witness["rd_write"] ELSE 0

\* The output of a complete witness is the row's output.
LEMMA CompleteOutput ==
    ASSUME RowInv, Complete
    PROVE  /\ Output(spec, a, b, Supplied) = witness["lookup_output"]
           /\ witness["lookup_output"] \in Word
           /\ spec.lookup = "Advice" => witness["rd_write"] = witness["lookup_output"]
<1>1. PICK w : w = witness  OBVIOUS
<1>2. RowTyped /\ SpecFacts(spec) /\ Prefix(12) /\ LookupsAre(w) /\ RestIs(w)
    BY <1>1, CompleteStep DEF RowTyped
<1>3. w["lookup_output"] = TableOutput(w) /\ w["right_lookup"] \in 0 .. M * M - 1
    BY <1>1, <1>2, GivenColumns
<1>4. /\ TableOutput(w) \in Word
      /\ spec.lookup # "Advice" => \A supplied : Output(spec, a, b, supplied) = TableOutput(w)
    BY <1>2, <1>3, OutputExact
<1>5. spec.lookup = "Advice" => w["rd_write"] = w["lookup_output"]
    BY <1>2 DEF RestIs, SpecFacts, Set
<1>6. \A supplied : spec.lookup = "Advice" => Output(spec, a, b, supplied) = supplied
    BY DEF Output, AluOps
<1> QED BY <1>1, <1>3, <1>4, <1>5, <1>6 DEF Supplied

\* A complete witness does what the machine's step does, and the step does not trap.
LEMMA CompleteAgrees ==
    ASSUME RowInv, Complete, "Trap" \notin spec.flags
    PROVE  Agrees(Supplied)
<1> DEFINE out == witness["lookup_output"]
           r == StepRecord(spec, pc, a, b, out)
<1>1. RowTyped /\ SpecFacts(spec) /\ Prefix(12) /\ RestIs(witness)  BY CompleteStep DEF RowTyped
<1>2. Output(spec, a, b, Supplied) = out  BY CompleteOutput
<1>3. /\ witness["ram_address"] \in {0} \cup Mapped
      /\ witness["ram_address"] \in Mapped => witness["ram_read"] = Memory[witness["ram_address"]]
      /\ witness["next_pc"] \in 0 .. CodeLength - 1
      /\ DOMAIN Memory = Mapped
    BY <1>1, GivenColumns
<1>4. "Load" \in spec.flags \/ "Store" \in spec.flags =>
          witness["ram_address"] = Address(spec, a) /\ Address(spec, a) \in Mapped
  <2> SUFFICES ASSUME "Load" \in spec.flags \/ "Store" \in spec.flags
               PROVE  witness["ram_address"] = Address(spec, a) /\ Address(spec, a) \in Mapped
      OBVIOUS
  <2>1. witness["ram_address"] = Address(spec, a)  BY <1>1 DEF RestIs, Set
  <2>2. a + Signed(spec.imm) \in 1 .. M - 1 /\ a \in Word /\ spec.imm \in Word
      BY <1>1 DEF RowTyped, Addressable, SpecFacts
  <2>3. Address(spec, a) = a + Signed(spec.imm)  BY <2>2, SignedAddress DEF Address
  <2>4. Address(spec, a) # 0  BY <2>2, <2>3, Sizes
  <2> QED BY <1>3, <2>1, <2>4
<1>5. ~StepTraps(spec, a, out)
  <2>1. "Assert" \in spec.flags => out = 1  BY <1>1 DEF RestIs, Set
  <2>2. "Jump" \in spec.flags => out \in Pc
    <3> SUFFICES ASSUME "Jump" \in spec.flags PROVE out \in Pc
        OBVIOUS
    <3>1. "Halt" \notin spec.flags  BY <1>1 DEF SpecFacts, AtMostOne
    <3>2. witness["next_pc"] = out  BY <1>1, <3>1 DEF RestIs, NextPc
    <3> QED BY <1>3, <3>2, WidthAssumption, Sizes DEF Pc
  <2>3. spec.flags \cap {"Load", "Store"} # {} => Address(spec, a) \in DOMAIN Memory  BY <1>3, <1>4
  <2> QED BY <2>1, <2>2, <2>3 DEF StepTraps
<1>6. /\ r.rd = IF "Load" \in spec.flags THEN Memory[Address(spec, a)]
                ELSE IF spec.rd THEN out ELSE 0
      /\ r.ram = IF "Load" \in spec.flags
                 THEN Access("Read", Address(spec, a), Memory[Address(spec, a)])
                 ELSE IF "Store" \in spec.flags THEN Access("Write", Address(spec, a), b)
                 ELSE NoOp
      /\ r.next = NextPc(spec, pc, out)
    BY DEF StepRecord
<1> HIDE DEF out, r
<1>7. witness["next_pc"] = r.next  BY <1>1, <1>6 DEF RestIs, out
<1>8. spec.rd => witness["rd_write"] = r.rd
  <2> SUFFICES ASSUME spec.rd PROVE witness["rd_write"] = r.rd
      OBVIOUS
  <2>1. CASE "Load" \in spec.flags  BY <1>1, <2>1, <1>3, <1>4, <1>6 DEF RestIs, Set
  <2>2. CASE "Load" \notin spec.flags  BY <1>1, <2>2, <1>6 DEF SpecFacts, RestIs, Set, out
  <2> QED BY <2>1, <2>2
<1>9. "Store" \in spec.flags =>
          witness["ram_address"] = r.ram.address /\ witness["ram_write"] = r.ram.value
  <2> SUFFICES ASSUME "Store" \in spec.flags
               PROVE  witness["ram_address"] = r.ram.address /\ witness["ram_write"] = r.ram.value
      OBVIOUS
  <2>1. "Load" \notin spec.flags  BY <1>1 DEF SpecFacts, AtMostOne
  <2>2. r.ram = Access("Write", Address(spec, a), b)  BY <1>6, <2>1
  <2>3. r.ram.address = Address(spec, a) /\ r.ram.value = b  BY <2>2 DEF Access
  <2>4. witness["ram_write"] = b  BY <1>1 DEF RestIs, Set
  <2> QED BY <1>4, <2>3, <2>4
<1>10. Effect(witness["rd_write"], witness["ram_address"], witness["ram_write"], witness["next_pc"])
         = Effect(r.rd, r.ram.address, r.ram.value, r.next)
    BY <1>7, <1>8, <1>9 DEF Effect
<1> QED BY <1>2, <1>5, <1>10 DEF Agrees, r, out

\* The three properties of a row, whatever its instruction and its reads.
LEMMA RowHolds == RowInv => WitnessIsStep /\ HonestRowsHold /\ CheckRecordRestates
<1> SUFFICES ASSUME RowInv PROVE WitnessIsStep /\ HonestRowsHold /\ CheckRecordRestates
    OBVIOUS
<1>1. RowTyped  BY DEF RowInv
<1>2. WitnessIsStep
  <2> SUFFICES ASSUME Complete, "Trap" \notin spec.flags
               PROVE  IF spec.lookup = "Advice"
                      THEN witness["rd_write"] \in Word /\ Agrees(witness["rd_write"])
                      ELSE Agrees(0)
      BY Zenon DEF WitnessIsStep
  <2>1. Agrees(Supplied)  BY CompleteAgrees
  <2>2. spec.lookup = "Advice" => Supplied = witness["rd_write"] /\ witness["rd_write"] \in Word
      BY CompleteOutput DEF Supplied
  <2>3. spec.lookup # "Advice" => Supplied = 0  BY DEF Supplied
  <2> QED BY <2>1, <2>2, <2>3
<1>3. HonestRowsHold  BY <1>1, HonestChecks, CheckIsAccepted DEF HonestRowsHold
<1>4. CheckRecordRestates  BY <1>1, RecordsTyped, CheckIsAccepted DEF CheckRecordRestates
<1> QED BY <1>2, <1>3, <1>4

\* Whatever columns are filled, they hold values the arguments allow and every
\* constraint over them is satisfied (wasm_trace_constraints, cycle_witness).
THEOREM RowInvariant == Spec => []RowInv
<1>1. Init => RowInv  BY InitRow
<1>2. RowInv /\ [Fill]_vars => RowInv'
  <2> SUFFICES ASSUME RowInv, UNCHANGED vars PROVE RowInv'
      BY FillRow
  <2>1. UNCHANGED <<instruction, pc, a, b, witness>>  BY DEF vars
  <2>2. spec' = spec  BY <2>1 DEF spec
  <2>3. RowTyped'  BY <2>1, <2>2 DEF RowInv, RowTyped, Addressable
  <2>4. Kept'  BY <2>1 DEF RowInv, Kept
  <2>5. Static' = Static  BY <2>1, <2>2 DEF Static, ImmSigned
  <2>6. \A m \in 1 .. 12 : Given(Order[m])' = Given(Order[m])  BY <2>1, GivenStays
  <2>7. ASSUME NEW n \in 0 .. 12, Prefix(n) PROVE Prefix(n)'
    <3>1. /\ DOMAIN witness = StaticColumns \cup Front(n)
          /\ \A c \in StaticColumns : witness[c] = Static[c]
          /\ \A m \in 1 .. n : witness[Order[m]] \in Given(Order[m])
        BY <2>7 DEF Prefix
    <3>2. ASSUME NEW m \in 1 .. n PROVE (witness[Order[m]])' \in Given(Order[m])'
        BY <2>1, <2>6, <3>1
    <3> QED BY <2>1, <2>5, <3>1, <3>2, Zenon DEF Prefix
  <2> QED BY <2>3, <2>4, <2>7, Zenon DEF RowInv
<1> QED BY <1>1, <1>2, PTL DEF Spec

\* For every word width, prime and memory: a complete witness of a row does what
\* Machine::step does, and no row where the machine traps has a witness, Trap rows
\* aside (wasm_trace_constraints).
THEOREM WitnessSound == Spec => []WitnessIsStep
<1> QED BY RowInvariant, RowHolds, PTL

\* For every word width, prime and memory: the records Machine::step makes pass
\* check_record, become trace rows and satisfy every constraint (row.rs,
\* trace_row.rs, r1cs.rs).
THEOREM HonestRows == Spec => []HonestRowsHold
<1> QED BY RowInvariant, RowHolds, PTL

\* For every word width, prime and memory: on any record check_record and the
\* constraints agree (row.rs, check_record).
THEOREM CheckRestates == Spec => []CheckRecordRestates
<1> QED BY RowInvariant, RowHolds, PTL
=============================================================================
