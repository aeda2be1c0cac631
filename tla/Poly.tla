-------------------------------- MODULE Poly --------------------------------
(***************************************************************************)
(* The round polynomials of a sumcheck (jolt-poly, univariate.rs and       *)
(* compressed_univariate.rs) over a prime field of P elements.             *)
(*                                                                         *)
(* A polynomial is the sequence of its coefficients, lowest first; its     *)
(* compressed form leaves out the linear one, which the sum of the values  *)
(* at 0 and 1 (the hint) gives back.                                       *)
(***************************************************************************)
EXTENDS Integers, Sequences, SequencesExt

CONSTANT P      \* the characteristic, an odd prime

ASSUME PAssumption == P \in Nat /\ P > 2 /\ \A d \in 2 .. P - 1 : P % d # 0

Field == 0 .. P - 1
TwoInv == (P + 1) \div 2

Total(s)   == FoldLeft(LAMBDA a, b : (a + b) % P, 0, s)
Product(s) == FoldLeft(LAMBDA a, b : (a * b) % P, 1, s)
TwoTo(k) == FoldLeft(LAMBDA a, b : a * b, 1, [j \in 1 .. k |-> 2])
MulPow2(x, k) == (x * TwoTo(k)) % P

\* A sequence as it is, its entries computed once.
Strict(s) == s \o <<>>

Evaluate(c, x) == FoldRight(LAMBDA a, acc : (acc * x + a) % P, c, 0)
Degree(c) == IF c = <<>> THEN 0 ELSE Len(c) - 1

Compress(c) == <<c[1]>> \o SubSeq(c, 3, Len(c))
CompressedDegree(w) == Len(w)

RecoverLinearTerm(w, hint) == (hint - 2 * w[1] - Total(Tail(w))) % P

EvaluateWithHint(w, hint, x) ==
    Evaluate(<<w[1], RecoverLinearTerm(w, hint)>> \o Tail(w), x)

-----------------------------------------------------------------------------
(***************************************************************************)
(* What a batch member sums: a product of multilinear polynomials, each    *)
(* the table of its values on the hypercube, first variable highest (the   *)
(* DenseMember of the engine's tests, with more factors).                  *)
(***************************************************************************)
Vars(fs) == CHOOSE n \in 0 .. Len(fs[1]) : TwoTo(n) = Len(fs[1])

Sum(fs) == Total([i \in 1 .. Len(fs[1]) |-> Product([k \in 1 .. Len(fs) |-> fs[k][i]])])

Half(t) == Len(t) \div 2
BindTable(t, r) ==
    Strict([i \in 1 .. Half(t) |-> (t[i] + r * (t[i + Half(t)] - t[i])) % P])
Bind(fs, r) == [k \in 1 .. Len(fs) |-> BindTable(fs[k], r)]

\* The product of c and the linear polynomial a + (b - a) x.
TimesLinear(c, a, b) ==
    Strict([k \in 1 .. Len(c) + 1 |->
        ((IF k <= Len(c) THEN c[k] * a ELSE 0) + (IF k > 1 THEN c[k - 1] * (b - a) ELSE 0)) % P])

PolySum(cs, n) == [k \in 1 .. n |-> Total([i \in 1 .. Len(cs) |-> IF k <= Len(cs[i]) THEN cs[i][k] ELSE 0])]
Scale(a, c) == [k \in 1 .. Len(c) |-> (a * c[k]) % P]

\* The sum over all but the first variable.
RoundPoly(fs) ==
    LET h == Half(fs[1])
        Row(i) == FoldLeft(LAMBDA c, t : TimesLinear(c, t[i], t[i + h]), <<1>>, fs)
    IN  PolySum(Strict([i \in 1 .. h |-> Row(i)]), Len(fs) + 1)

-----------------------------------------------------------------------------
(* The same product at a point, by its multilinear extension. *)

BitOf(i, j, n) == ((i - 1) \div 2^(n - j)) % 2
Eq(i, point) ==
    Product([j \in 1 .. Len(point) |->
                IF BitOf(i, j, Len(point)) = 1 THEN point[j] ELSE (1 - point[j]) % P])
Extension(t, point) == Total([i \in 1 .. Len(t) |-> t[i] * Eq(i, point)])
ExtensionAt(fs, point) == Product([k \in 1 .. Len(fs) |-> Extension(fs[k], point)])
=============================================================================
