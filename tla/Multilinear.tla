------------------------------ MODULE Multilinear ------------------------------
(***************************************************************************)
(* Multilinear polynomials by their representations (jolt-poly).           *)
(* The tables behind the sumcheck kernels that are never written out:      *)
(* eq in two halves (split_eq.rs), lt in two halves bound from either end  *)
(* (lt.rs, and SplitLt of the kernels' support.rs), and eq_plus_one as two *)
(* products (eq_plus_one.rs); and the round messages made from the eq      *)
(* halves.  A table is the sequence of its values, first variable highest. *)
(* Then the ways the engine goes between the values and the coefficients   *)
(* of a polynomial in one variable (univariate.rs, lagrange.rs): over      *)
(* 0, 1, .., over integers centred at 0, over any points, and with a value *)
(* left out or replaced by the leading coefficient.  Last, eq tables built *)
(* whole, in blocks or by every length (eq.rs), the closed forms the       *)
(* verifier evaluates (mle.rs, identity.rs), and the one-hot, dense and    *)
(* combined polynomials a commitment folds by rows (one_hot.rs,            *)
(* multilinear.rs, dense.rs).                                              *)
(***************************************************************************)
EXTENDS Poly

-----------------------------------------------------------------------------
(* Tables at a point.                                                      *)

Log(t) == CHOOSE n \in 0 .. 12 : 2^n = Len(t)
Inverse_(a) == CHOOSE b \in Field : (a * b) % P = 1

\* Doubling: a variable splits every entry in two.
EqStep(table, r) ==
    Strict([i \in 1 .. 2 * Len(table) |->
        LET base == table[(i + 1) \div 2]
        IN  IF i % 2 = 0 THEN (base * r) % P ELSE (base - base * r) % P])
EqEvals(r, scale) == FoldLeft(EqStep, <<scale>>, r)
\* The tables of all prefixes of a point.
EqCached(r) == [k \in 1 .. Len(r) + 1 |-> EqEvals(SubSeq(r, 1, k - 1), 1)]

\* lt as a table over the first argument, from the last variable up.
LtStep(table, r) ==
    [i \in 1 .. 2 * Len(table) |->
        IF i > Len(table) THEN (table[i - Len(table)] * r) % P
        ELSE (table[i] + r - table[i] * r) % P]
LtEvals(r) == FoldLeft(LtStep, <<0>>, Reverse(r))
LtEvaluateSwapped(x, r) ==      \* slip: greater instead of less
    FoldLeft(LAMBDA acc, i :
                [lt |-> (acc.lt + x[i] * (1 - r[i]) * acc.eq) % P,
                 eq |-> (acc.eq * (x[i] * r[i] + (1 - x[i]) * (1 - r[i]))) % P],
             [lt |-> 0, eq |-> 1], [i \in DOMAIN x |-> i]).lt
LtEvaluate(x, r) ==
    FoldLeft(LAMBDA acc, i :
                [lt |-> (acc.lt + (1 - x[i]) * r[i] * acc.eq) % P,
                 eq |-> (acc.eq * (x[i] * r[i] + (1 - x[i]) * (1 - r[i]))) % P],
             [lt |-> 0, eq |-> 1], [i \in DOMAIN x |-> i]).lt

\* eq_plus_one(x, y) as the sum over the place of the carry, and as tables.
Bit(i, x, y) == (x[i] * y[i] + (1 - x[i]) * (1 - y[i])) % P
EqPlusOne(x, y) ==
    Total([k \in 1 .. Len(x) |->
        ((1 - x[k]) * y[k]
            * Product([i \in 1 .. Len(x) - k |-> x[k + i] * (1 - y[k + i])])
            * Product([i \in 1 .. k - 1 |-> Bit(i, x, y)])) % P])
\* The entry whose lowest set bit is variable i: eq below, a carry from there.
EqPlusOneEvals(r) ==
    LET n == Len(r)
        Carry(i) == ((1 - r[i]) * Product([j \in 1 .. n - i |-> r[i + j]])) % P
        Lowest(e) == CHOOSE i \in 1 .. n :
                        BitOf(e, i, n) = 1 /\ \A j \in i + 1 .. n : BitOf(e, j, n) = 0
    IN  [e \in 1 .. 2^n |->
            IF e = 1 THEN 0
            ELSE LET i == Lowest(e)
                 IN  (EqEvals(SubSeq(r, 1, i - 1), 1)[(e - 1) \div 2^(n - i + 1) + 1]
                        * Carry(i)) % P]
\* Two products of half tables: no carry out of the low half, or one.
PrefixSuffix(r) ==
    LET mid == Len(r) \div 2
        hi == SubSeq(r, 1, mid)
        lo == SubSeq(r, mid + 1, Len(r))
    IN  [prefix_0 |-> EqPlusOneEvals(lo), suffix_0 |-> EqEvals(hi, 1),
         prefix_1 |-> [i \in 1 .. 2^Len(lo) |-> IF i = 1 THEN Product(lo) ELSE 0],
         suffix_1 |-> EqPlusOneEvals(hi)]

BindLow(t, r) ==
    Strict([i \in 1 .. Half(t) |-> (t[2 * i - 1] + r * (t[2 * i] - t[2 * i - 1])) % P])
BindHigh(t, r) == BindTable(t, r)

-----------------------------------------------------------------------------
(* eq in halves: the first variables out, the next in, the current one     *)
(* apart, the bound ones in a scalar.  Bound from the last variable.       *)

NewEq(r) ==
    LET head == SubSeq(r, 1, Len(r) - 1)
        cut == IF Len(r) \div 2 < Len(head) THEN Len(r) \div 2 ELSE Len(head)
    IN  [point |-> r, index |-> Len(r), scalar |-> 1,
         e_out |-> EqCached(SubSeq(head, 1, cut)),
         e_in |-> EqCached(SubSeq(head, cut + 1, Len(head)))]
EIn(e) == e.e_in[Len(e.e_in)]
EOut(e) == e.e_out[Len(e.e_out)]

BindEqInFirst(e, r) ==      \* slip: the inner half shrinks to the end
    [point |-> e.point, index |-> e.index - 1, scalar |-> (e.scalar * Bit(1, <<e.point[e.index]>>, <<r>>)) % P,
     e_in |-> IF Len(e.point) \div 2 < e.index /\ Len(e.e_in) > 1 THEN Front(e.e_in) ELSE e.e_in,
     e_out |-> IF Len(e.point) \div 2 >= e.index /\ Len(e.e_out) > 1 THEN Front(e.e_out)
               ELSE e.e_out]
BindEq(e, r) ==
    LET index == e.index - 1
        inner == Len(e.point) \div 2 < index /\ Len(e.e_in) > 1
    IN  [point |-> e.point, index |-> index, scalar |-> (e.scalar * Bit(1, <<e.point[e.index]>>, <<r>>)) % P,
         e_in |-> IF inner THEN Front(e.e_in) ELSE e.e_in,
         e_out |-> IF ~inner /\ 0 < index /\ Len(e.e_out) > 1 THEN Front(e.e_out) ELSE e.e_out]

\* Row x_out, x_in of the pair (2 row, 2 row + 1).
GroupIndex(e, x_out, x_in) == x_out * Len(EIn(e)) + x_in
Weight(e, row) == (EOut(e)[row \div Len(EIn(e)) + 1] * EIn(e)[(row % Len(EIn(e))) + 1]) % P
Rows(e) == 0 .. Len(EOut(e)) * Len(EIn(e)) - 1
LinearAt(e, x) ==
    LET one == e.scalar * e.point[e.index]
    IN  (e.scalar - one + x * (2 * one - e.scalar)) % P

\* The first half of a stage's rounds at once: the heads beyond the window
\* and the eq of its inner variables.
WindowHeadsInner(e, size) ==    \* slip: what is left of the head is inner
    LET window == IF size < e.index THEN size ELSE e.index
        head == e.index - window
        in_bits == IF head < Len(e.e_in) - 1 THEN head ELSE Len(e.e_in) - 1
    IN  [e_out |-> e.e_out[head - in_bits + 1], e_in |-> e.e_in[in_bits + 1]]
WindowHeads(e, size) ==
    LET window == IF size < e.index THEN size ELSE e.index
        head == e.index - window
        out_bits == IF head < Len(e.point) \div 2 THEN head ELSE Len(e.point) \div 2
    IN  [e_out |-> e.e_out[out_bits + 1], e_in |-> e.e_in[head - out_bits + 1]]
WindowActive(e, size) ==
    IF size <= 1 \/ size > e.index THEN <<1>>
    ELSE EqEvals(SubSeq(e.point, e.index - size + 1, e.index - 1), 1)

-----------------------------------------------------------------------------
(* Round messages over eq(X) q(X), from what is summed of q.               *)

\* Values at 0, 1, .. of the polynomial with the given coefficients.
ValuesOf(c, n) == [i \in 1 .. n |-> Evaluate(c, i - 1)]
ProductEndpoints(e, a, b) ==
    [zero |-> Total([i \in 1 .. Half(a) |-> Weight(e, i - 1) * a[2 * i - 1] * b[2 * i - 1]]),
     infinity |-> Total([i \in 1 .. Half(a) |->
        Weight(e, i - 1) * (a[2 * i] - a[2 * i - 1]) * (b[2 * i] - b[2 * i - 1])])]
\* q quadratic, from q(0), its leading coefficient and the claimed sum.
GruenPolyDeg3Linear(e, q_constant, q_quadratic, claim) ==   \* slip: q taken as linear
    LET q_1 == ((claim - LinearAt(e, 0) * q_constant) * Inverse_(LinearAt(e, 1))) % P
    IN  [i \in 1 .. 4 |-> (LinearAt(e, i - 1) * (q_constant + (i - 1) * (q_1 - q_constant))) % P]
GruenPolyDeg3(e, q_constant, q_quadratic, claim) ==
    LET q_1 == ((claim - LinearAt(e, 0) * q_constant) * Inverse_(LinearAt(e, 1))) % P
        q_2 == 2 * q_1 - q_constant + 2 * q_quadratic
        q_3 == q_2 + q_1 - q_constant + 4 * q_quadratic
    IN  <<(LinearAt(e, 0) * q_constant) % P, (LinearAt(e, 1) * q_1) % P,
          (LinearAt(e, 2) * q_2) % P, (LinearAt(e, 3) * q_3) % P>>
\* q of any degree, from its values at 1, 2, .. and its leading coefficient:
\* only q(0) is solved for here.
GruenFromEvals(e, q_evals, claim) ==
    ((claim - LinearAt(e, 1) * q_evals[1]) * Inverse_(LinearAt(e, 0))) % P
\* All values of q at hand: the claim is checked instead.
CheckedRoundPoly(e, q_evals) == [i \in DOMAIN q_evals |-> (LinearAt(e, i - 1) * q_evals[i]) % P]

-----------------------------------------------------------------------------
(* lt in halves.                                                           *)

\* The halves as kept while the first variables are bound.
NewLt(r, constant) ==
    LET cut == Len(r) - Len(r) \div 2
        hi == SubSeq(r, 1, cut)
    IN  [lo |-> LtEvals(SubSeq(r, cut + 1, Len(r))), eq |-> EqEvals(hi, 1),
         hi |-> LET t == LtEvals(hi) IN [i \in DOMAIN t |-> (t[i] + constant) % P]]
LtEntry(s, i) ==
    LET h == (i - 1) \div Len(s.lo) + 1
    IN  (s.hi[h] + s.eq[h] * s.lo[((i - 1) % Len(s.lo)) + 1]) % P
BindLtHigh(s, r) ==
    IF Len(s.hi) > 1 THEN [s EXCEPT !.hi = BindHigh(@, r), !.eq = BindHigh(@, r)]
    ELSE [s EXCEPT !.lo = BindHigh(@, r)]
\* Bound from the last variable; folded to one table when a half is used up.
BindLtLowUnfolded(s, r) ==     \* slip: the bound half is not folded in
    IF Len(s.lo) > 1 THEN [s EXCEPT !.lo = BindLow(@, r)] ELSE [s EXCEPT !.hi = BindLow(@, r)]
BindLtLow(s, r) ==
    LET lo == BindLow(s.lo, r)
    IN  IF Len(s.lo) = 1 THEN [s EXCEPT !.hi = BindLow(@, r), !.eq = BindLow(@, r)]
        ELSE IF Len(lo) > 1 THEN [s EXCEPT !.lo = lo]
        ELSE [lo |-> <<0>>, eq |-> s.eq,
              hi |-> [i \in DOMAIN s.hi |-> (s.hi[i] + s.eq[i] * lo[1]) % P]]

-----------------------------------------------------------------------------
(* The whole tables the halves stand for.                                  *)

EqTable(r) == [i \in 1 .. 2^Len(r) |-> Eq(i, r)]
Cube(n) == [1 .. n -> {0, 1}]
PointOf(i, n) == [j \in 1 .. n |-> BitOf(i, j, n)]
\* Index i is strictly below index j.
LtTable(r) ==
    [i \in 1 .. 2^Len(r) |-> Total([j \in 1 .. 2^Len(r) - i |-> Eq(i + j, r)])]

-----------------------------------------------------------------------------
(* Interpolation.                                                          *)

Sub_(a, b) == (a - b) % P
PadTo(c, n) == [i \in 1 .. n |-> IF i <= Len(c) THEN c[i] ELSE 0]
Add_(a, b) ==
    LET n == IF Len(a) < Len(b) THEN Len(b) ELSE Len(a)
    IN  [i \in 1 .. n |-> (PadTo(a, n)[i] + PadTo(b, n)[i]) % P]
PolyMul(a, b) ==
    IF a = <<>> \/ b = <<>> THEN <<>>
    ELSE [k \in 1 .. Len(a) + Len(b) - 1 |->
            Total([i \in DOMAIN a |-> IF k - i + 1 \in DOMAIN b THEN a[i] * b[k - i + 1] ELSE 0])]
\* Multiplying the basis by the next X - node.
TimesRoot(basis, node) == TimesLinear(basis, (-node) % P, (1 - node) % P)

-----------------------------------------------------------------------------
(* Linear systems.                                                         *)

SwapRows(m, i, j) == [k \in DOMAIN m |-> m[IF k = i THEN j ELSE IF k = j THEN i ELSE k]]
Reduce(m, i, j) ==
    LET factor == m[j][i] * Inverse_(m[i][i])
    IN  [m EXCEPT ![j] = Strict([k \in DOMAIN @ |-> (@[k] - factor * m[i][k]) % P])]
\* Rows down to a triangle, each below the first with a pivot, and back up.
EliminateColumn(m, i) ==
    LET pivot == CHOOSE r \in i .. Len(m) :
                    m[r][i] # 0 /\ \A q \in i .. r - 1 : m[q][i] = 0
    IN  FoldLeft(LAMBDA acc, j : Reduce(acc, i, j), SwapRows(m, i, pivot),
                 [j \in 1 .. Len(m) - i |-> i + j])
Solve(matrix) ==
    LET n == Len(matrix)
        down == FoldLeft(EliminateColumn, matrix, [i \in 1 .. n - 1 |-> i])
        Up(m, i) == FoldLeft(LAMBDA acc, j : Reduce(acc, i, j), m, [j \in 1 .. i - 1 |-> i - j])
        done == FoldLeft(Up, down, [i \in 1 .. n - 1 |-> n + 1 - i])
    IN  [i \in 1 .. n |-> (done[i][n + 1] * Inverse_(done[i][i])) % P]
Powers(x, n) == [k \in 1 .. n |-> Product([i \in 1 .. k - 1 |-> x])]
FromEvals(evals) == Solve([i \in DOMAIN evals |-> Append(Powers(i - 1, Len(evals)), evals[i])])
\* The last value is the leading coefficient.
FromEvalsToom(evals) ==
    LET n == Len(evals)
    IN  Solve([i \in 1 .. n |->
            IF i = n THEN Append([k \in 1 .. n |-> IF k = n THEN 1 ELSE 0], evals[n])
            ELSE Append(Powers(i - 1, n), evals[i])])
\* The value at 1 is what the hint leaves of it.
FromEvalsAndHintUnsplit(hint, evals) ==     \* slip: the hint taken for the value at 1
    FromEvals(<<evals[1], hint>> \o Tail(evals))
PolyFromEvalsAndHint(hint, evals) ==
    FromEvals(<<evals[1], Sub_(hint, evals[1])>> \o Tail(evals))
FromLinearTimesQuadratic(l, q_0, q_2, hint) ==
    LET q_1 == ((hint - l[1] * q_0) * Inverse_((l[1] + l[2]) % P) - q_0 - q_2) % P
    IN  <<(l[1] * q_0) % P, (l[1] * q_1 + l[2] * q_0) % P,
          (l[1] * q_2 + l[2] * q_1) % P, (l[2] * q_2) % P>>

\* Lagrange's sum over any points.
Interpolate(points) ==
    LET n == Len(points)
        Basis(j) == FoldLeft(LAMBDA b, m :
                        IF m = j THEN b
                        ELSE Scale(Inverse_(Sub_(points[j][1], points[m][1])),
                                   TimesRoot(b, points[m][1])),
                        <<1>>, [m \in 1 .. n |-> m])
    IN  PolySum([j \in 1 .. n |-> Scale(points[j][2], Basis(j))], n)
InterpolateOverIntegers(evals) == Interpolate([i \in DOMAIN evals |-> <<i - 1, evals[i]>>])
EvaluateBasis(n, i, x) ==
    LET others == SelectSeq([j \in 1 .. n |-> j], LAMBDA j : j # i)
    IN  (Product([k \in DOMAIN others |-> (x - others[k] + 1) % P])
            * Inverse_(Product([k \in DOMAIN others |-> (i - others[k]) % P]))) % P

-----------------------------------------------------------------------------
(* Division.                                                               *)

IsZero(c) == \A i \in DOMAIN c : c[i] = 0
RECURSIVE StripZeros(_)
StripZeros(c) ==
    IF c = <<>> THEN c ELSE IF c[Len(c)] # 0 THEN c ELSE StripZeros(SubSeq(c, 1, Len(c) - 1))
DivideStep(acc, divisor) ==
    LET r == acc.remainder
        shift == Len(r) - Len(divisor)
        q == (r[Len(r)] * Inverse_(divisor[Len(divisor)])) % P
        left == [i \in DOMAIN r |->
                    IF i > shift THEN (r[i] - q * divisor[i - shift]) % P ELSE r[i]]
    IN  [quotient |-> [acc.quotient EXCEPT ![shift + 1] = q], remainder |-> StripZeros(left)]
RECURSIVE DivideAll(_, _)
DivideAll(acc, divisor) ==
    IF IsZero(acc.remainder) \/ Len(acc.remainder) < Len(divisor) THEN acc
    ELSE DivideAll(DivideStep(acc, divisor), divisor)
NoQuotient == [quotient |-> <<>>, remainder |-> <<>>]
DivideWithRemainderUntrimmed(c, divisor) ==     \* slip: lengths compared before trimming
    IF IsZero(c) THEN NoQuotient
    ELSE IF Len(c) < Len(divisor) THEN [quotient |-> <<>>, remainder |-> c]
    ELSE LET d == StripZeros(divisor)
         IN  DivideAll([quotient |-> [i \in 1 .. Len(c) - Len(d) + 1 |-> 0], remainder |-> c], d)
\* Nothing divides by the zero polynomial, but that it divides itself.
DivideWithRemainder(c, divisor) ==
    LET d == StripZeros(divisor)
    IN  IF IsZero(c) THEN NoQuotient
        ELSE IF Len(c) < Len(d) THEN [quotient |-> <<>>, remainder |-> c]
        ELSE DivideAll([quotient |-> [i \in 1 .. Len(c) - Len(d) + 1 |-> 0], remainder |-> c], d)

-----------------------------------------------------------------------------
(* Integers centred at 0: a domain of n starts at -((n - 1) \div 2).       *)

Start(n) == -((n - 1) \div 2)
Nodes(start, n) == [i \in 1 .. n |-> (start + i - 1) % P]

LagrangeEvals(start, n, r) ==
    LET nodes == Nodes(start, n)
        hit == {i \in 1 .. n : nodes[i] = r}
        full == Product([j \in 1 .. n |-> (r - nodes[j]) % P])
        Others(i) == Product([j \in 1 .. n |-> IF i = j THEN 1 ELSE (i - j) % P])
    IN  IF hit # {} THEN [i \in 1 .. n |-> IF i \in hit THEN 1 ELSE 0]
        ELSE [i \in 1 .. n |-> (((full * Inverse_(Others(i))) % P)
                                    * Inverse_((r - nodes[i]) % P)) % P]
CenteredEvals(n, r) == LagrangeEvals(Start(n), n, r)
LagrangeKernel(n, x, y) ==
    LET a == CenteredEvals(n, x)  b == CenteredEvals(n, y)
    IN  Total([i \in 1 .. n |-> a[i] * b[i]])

\* The same by the barycentric terms, their denominators from factorials.
Factorial(n) == Product([i \in 1 .. n |-> i % P])
DenRow(n) ==
    [i \in 1 .. n |-> ((IF (n - i) % 2 = 1 THEN -1 ELSE 1) * Factorial(i - 1) * Factorial(n - i)) % P]
BaryTerms(n, r) ==
    LET den == DenRow(n)
        nodes == Nodes(Start(n), n)
    IN  [i \in 1 .. n |-> (Inverse_(den[i]) * Inverse_((r - nodes[i]) % P)) % P]
OnDomain(n, r) == \E i \in 1 .. n : Nodes(Start(n), n)[i] = r
BaryEvals(n, r) ==
    IF OnDomain(n, r) THEN [i \in 1 .. n |-> IF Nodes(Start(n), n)[i] = r THEN 1 ELSE 0]
    ELSE LET terms == BaryTerms(n, r) IN Scale(Inverse_(Total(terms)), terms)
BaryEvaluate(values, r) ==
    LET w == BaryEvals(Len(values), r) IN Total([i \in DOMAIN values |-> values[i] * w[i]])
BaryKernel(n, x, y) ==
    LET a == BaryEvals(n, x)  b == BaryEvals(n, y) IN Total([i \in 1 .. n |-> a[i] * b[i]])

\* Newton's divided differences, and the basis they weigh.
Differences(values) ==
    FoldLeft(LAMBDA dd, step : Strict([i \in DOMAIN dd |->
                IF i <= step THEN dd[i] ELSE ((dd[i] - dd[i - 1]) * Inverse_(step)) % P]),
             values, [step \in 1 .. Len(values) - 1 |-> step])
InterpolateToCoeffsFromOne(start, values) ==    \* slip: the nodes start one late
    LET dd == Differences(values)
        acc == FoldLeft(LAMBDA s, k : [c |-> Strict(Add_(s.c, Scale(dd[k], s.basis))),
                                       basis |-> Strict(TimesRoot(s.basis, (start + k) % P))],
                        [c |-> <<>>, basis |-> <<1>>], [k \in DOMAIN values |-> k])
    IN  acc.c
InterpolateToCoeffs(start, values) ==
    LET dd == Differences(values)
        acc == FoldLeft(LAMBDA s, k : [c |-> Strict(Add_(s.c, Scale(dd[k], s.basis))),
                                       basis |-> Strict(TimesRoot(s.basis, (start + k - 1) % P))],
                        [c |-> <<>>, basis |-> <<1>>], [k \in DOMAIN values |-> k])
    IN  acc.c
EvaluateMany(values, points) ==
    IF Len(points) > Len(values)
    THEN LET c == InterpolateToCoeffs(Start(Len(values)), values)
         IN  [i \in DOMAIN points |-> Evaluate(c, points[i])]
    ELSE [i \in DOMAIN points |-> BaryEvaluate(values, points[i])]
\* Sums of powers over the domain, as integers.
PowerSums(n, powers) ==
    [k \in 1 .. powers |->
        LET Power(x) == FoldLeft(LAMBDA a, b : a * b, 1, [j \in 1 .. k - 1 |-> x])
        IN  FoldLeft(LAMBDA s, i : s + Power(Start(n) + i - 1), 0, [i \in 1 .. n |-> i])]

Decompress(w, hint) == <<w[1], RecoverLinearTerm(w, hint)>> \o Tail(w)

-----------------------------------------------------------------------------
(* Multilinear polynomials.                                                *)

NoIndex == -1

-----------------------------------------------------------------------------
(* eq tables.                                                              *)

\* Two variables at a time from the last one, the first alone if they are odd.
EqPairStep(t, r_lo, r_hi) ==
    LET n == Len(t)
        lo == [i \in 1 .. n |-> (t[i] * r_lo) % P]
        without == [i \in 1 .. n |-> (t[i] - lo[i]) % P]
    IN  [i \in 1 .. 4 * n |->
            LET k == ((i - 1) % n) + 1
            IN  CASE i <= n                -> Sub_(without[k], without[k] * r_hi)
                  [] i > n /\ i <= 2 * n   -> Sub_(lo[k], lo[k] * r_hi)
                  [] i > 2 * n /\ i <= 3 * n -> (without[k] * r_hi) % P
                  [] i > 3 * n             -> (lo[k] * r_hi) % P]
EqEvalsParallel(r, scale) ==
    LET n == Len(r)
        pairs == FoldLeft(LAMBDA t, k : EqPairStep(t, r[n + 2 - 2 * k], r[n + 1 - 2 * k]),
                          <<scale>>, [k \in 1 .. n \div 2 |-> k])
    IN  IF n % 2 = 0 THEN pairs
        ELSE [i \in 1 .. 2 * Len(pairs) |->
                IF i <= Len(pairs) THEN Sub_(pairs[i], pairs[i] * r[1])
                ELSE (pairs[i - Len(pairs)] * r[1]) % P]
\* The tables of all suffixes of a point.
EqCachedRev(r) ==
    LET Step(t, r_j) == [i \in 1 .. 2 * Len(t) |->
                            IF i > Len(t) THEN (t[i - Len(t)] * r_j) % P ELSE Sub_(t[i], t[i] * r_j)]
    IN  [k \in 1 .. Len(r) + 1 |-> FoldLeft(Step, <<1>>, SubSeq(Reverse(r), 1, k - 1))]

BitMsb(value, n, i) == (value \div 2^(n - i)) % 2
EqIndex(r, index) ==
    Product([i \in DOMAIN r |-> IF BitMsb(index, Len(r), i) = 1 THEN r[i] ELSE (1 - r[i]) % P])
AlignedBlock(r, start, bits) ==
    LET prefix == SubSeq(r, 1, Len(r) - bits)
    IN  EqEvals(SubSeq(r, Len(prefix) + 1, Len(r)), EqIndex(prefix, start \div 2^bits))
\* The largest block from start that is aligned and not longer than what is left.
BlockBitsByLength(r, start, remaining) ==   \* slip: alignment left out
    CHOOSE b \in 0 .. Len(r) : 2^b <= remaining /\ 2^(b + 1) > remaining
BlockBits(r, start, remaining) ==
    CHOOSE b \in 0 .. Len(r) :
        LET Fits(c) == 2^c <= remaining /\ start % 2^c = 0
        IN  Fits(b) /\ \A c \in b + 1 .. Len(r) : ~Fits(c)
RECURSIVE BlocksFrom(_, _, _)
BlocksFrom(r, start, remaining) ==
    IF remaining = 0 THEN <<>>
    ELSE LET b == BlockBits(r, start, remaining)
         IN  AlignedBlock(r, start, b) \o BlocksFrom(r, start + 2^b, remaining - 2^b)

-----------------------------------------------------------------------------
(* Closed forms.                                                           *)

LessThanMle(bound, x) ==
    LET n == Len(x)
    IN  IF bound = 2^n THEN 1
        ELSE FoldLeft(LAMBDA acc, i :
                IF BitMsb(bound, n, i) = 1
                THEN [lt |-> (acc.lt + acc.eq * (1 - x[i])) % P, eq |-> (acc.eq * x[i]) % P]
                ELSE [lt |-> acc.lt, eq |-> (acc.eq * (1 - x[i])) % P],
              [lt |-> 0, eq |-> 1], [i \in 1 .. n |-> i]).lt
RangeMaskMle(from, to, x) == Sub_(LessThanMle(to, x), LessThanMle(from, x))
BlockSelectorMle(start, bits, x) == EqIndex(SubSeq(x, 1, Len(x) - bits), start \div 2^bits)
SparseMle(start, values, x) == Total([i \in DOMAIN values |-> values[i] * EqIndex(x, start + i - 1)])
IdentityMle(x) == Total([i \in DOMAIN x |-> MulPow2(x[i], Len(x) - i)])
OperandMleSwapped(x, side) ==   \* slip: the other side's bits
    Total([i \in 1 .. Len(x) \div 2 |-> MulPow2(x[2 * i - side], Len(x) \div 2 - i)])
OperandMle(x, side) ==
    Total([i \in 1 .. Len(x) \div 2 |-> MulPow2(x[2 * i - 1 + side], Len(x) \div 2 - i)])
BooleanIndex(x) == FoldLeft(LAMBDA acc, b : 2 * acc + b, 0, x)

-----------------------------------------------------------------------------
(* Representations, as rows of 2^sigma columns.                            *)

DenseRows(t, sigma) ==
    [r \in 1 .. Len(t) \div 2^sigma |-> SubSeq(t, (r - 1) * 2^sigma + 1, r * 2^sigma)]
FoldedRows(rows, left, columns) ==
    [c \in 1 .. columns |-> Total([r \in DOMAIN rows |-> left[r] * rows[r][c]])]
DenseFold(t, left, sigma) == FoldedRows(DenseRows(t, sigma), left, 2^sigma)

\* The place of a one: k to a row, or a row to a place of k.
FlatIndexRows(p, row) == (row - 1) * p.k + p.indices[row]   \* slip: row major only
FlatIndex(p, row) ==
    IF p.order = "RowMajor" THEN (row - 1) * p.k + p.indices[row]
    ELSE p.indices[row] * Len(p.indices) + row - 1
Ones(p) == {row \in DOMAIN p.indices : p.indices[row] # NoIndex}
OneHotEvaluate(p, x) == LET e == EqEvals(x, 1)  At(row) == e[FlatIndex(p, row) + 1]
                        IN  MapThenSumSet(At, Ones(p)) % P
OneHotRows(p, sigma) ==
    LET total == p.k * Len(p.indices)
        hot == {FlatIndex(p, row) : row \in Ones(p)}
    IN  [r \in 1 .. total \div 2^sigma |-> [c \in 1 .. 2^sigma |->
            IF (r - 1) * 2^sigma + c - 1 \in hot THEN 1 ELSE 0]]
OneHotFold(p, left, sigma) ==
    [c \in 1 .. 2^sigma |->
        LET At(row) == left[FlatIndex(p, row) \div 2^sigma + 1]
        IN  MapThenSumSet(At, {row \in Ones(p) : FlatIndex(p, row) % 2^sigma = c - 1}) % P]

\* A combination of sources is folded source by source.
RlcRows(sources, scalars, sigma) ==
    [r \in DOMAIN DenseRows(sources[1], sigma) |-> [c \in 1 .. 2^sigma |->
        Total([s \in DOMAIN sources |-> scalars[s] * DenseRows(sources[s], sigma)[r][c]])]]
RlcFold(sources, scalars, left, sigma) ==
    [c \in 1 .. 2^sigma |->
        Total([s \in DOMAIN sources |-> scalars[s] * DenseFold(sources[s], left, sigma)[c]])]
RlcEvaluate(sources, scalars, x) ==
    Total([s \in DOMAIN sources |-> scalars[s] * Extension(sources[s], x)])
\* Evaluation by binding the variables first to last, as by the eq table.
EvaluateAndConsume(t, x) == FoldLeft(BindHigh, t, x)[1]
=============================================================================
