------------------------------- MODULE BlindFold ------------------------------
(***************************************************************************)
(* What a batch proved with committed rounds needs besides (jolt-blindfold *)
(* and jolt-verifier, stages/zk/blindfold): the verifier's checks as a     *)
(* constraint system over the committed values, the assignment of its      *)
(* witness in rows, the folding with a random instance, and the proof of   *)
(* the folded system by two sumchecks.                                     *)
(*                                                                         *)
(* Before the batch comes a uni-skip stage of one round over centred       *)
(* integers, whose opening the members' input claims refer to; after it    *)
(* one final opening binds all the members' openings.                      *)
(*                                                                         *)
(* A linear combination is the set of its <<variable, coefficient>> pairs, *)
(* no coefficient zero; variable 0 is the constant one.  A builder is      *)
(* [num_vars, rows]; a row <<a, b, c>> says that a times b is c.  A claim  *)
(* expression is a sequence of terms [coefficient, values, openings]: what *)
(* is public of a product, and the openings it multiplies.                 *)
(***************************************************************************)
EXTENDS BatchedSumcheck

CONSTANTS
    Heads,          \* the uni-skip stages: [coefficients, size, challenge]
    Seeds,          \* the generators and transcripts of a fold
    FoldChallenges

VARIABLES
    head,
    outputs,        \* per stage: the commitments of its output claims' rows
    protocol,       \* the BlindFoldProtocol: [stages, layout, rows, num_vars, ...]
    assigned,       \* the AssignedBlindFoldWitness: [z, rows, blindings]
    fold,           \* the BlindFoldProof
    judgement

bvars == <<head, outputs, protocol, assigned, fold, judgement>>

-----------------------------------------------------------------------------
(* Rank-one constraints over the field (jolt-r1cs).                        *)

Lagrange == INSTANCE Multilinear

Coefficient(lc, v) == IF \E p \in lc : p[1] = v THEN (CHOOSE p \in lc : p[1] = v)[2] ELSE 0
VarsOf(lc) == {p[1] : p \in lc}

ConstantLc(x) == IF x = 0 THEN {} ELSE {<<0, x>>}
VariableLc(v) == {<<v, 1>>}
ScaleLc(lc, k) == IF k = 0 THEN {} ELSE {<<p[1], (p[2] * k) % P>> : p \in lc}
AddLc(a, b) ==
    {p \in {<<v, (Coefficient(a, v) + Coefficient(b, v)) % P>> : v \in VarsOf(a) \cup VarsOf(b)} : p[2] # 0}
SumLcs(lcs) == FoldLeft(AddLc, {}, lcs)

Alloc(b, n) == [b EXCEPT !.num_vars = @ + n]
AssertProduct(b, left, right, product) == [b EXCEPT !.rows = Append(@, <<left, right, product>>)]
AssertEqual(b, left, right) ==
    AssertProduct(b, AddLc(left, ScaleLc(right, P - 1)), ConstantLc(1), {})

\* A fresh variable for a product.
Multiply(acc, lc) ==
    [builder |-> AssertProduct(Alloc(acc.builder, 1), acc.value, lc, VariableLc(acc.builder.num_vars)),
     value |-> VariableLc(acc.builder.num_vars)]

-----------------------------------------------------------------------------
(* Claim expressions: what they are worth, and what they lower to.         *)

ScaleExpr(expr, k) ==
    IF k = 0 THEN <<>> ELSE [i \in DOMAIN expr |-> [expr[i] EXCEPT !.coefficient = (@ * k) % P]]
Public(term) == (term.coefficient * Product(term.values)) % P
ExprValue(expr, opened) ==
    Total([i \in DOMAIN expr |->
              Public(expr[i]) * Product([k \in DOMAIN expr[i].openings |-> opened[expr[i].openings[k]]])])

\* Nothing at all for a zero coefficient, a constant without openings.
LowerProduct(b, term, sources) ==
    LET start == [builder |-> b, value |-> {}]
        next(acc, id) ==
            LET lc == VariableLc(sources[id])
            IN  IF acc.value = {} THEN [acc EXCEPT !.value = lc] ELSE Multiply(acc, lc)
    IN  IF Public(term) = 0 THEN start
        ELSE IF term.openings = <<>> THEN [start EXCEPT !.value = ConstantLc(Public(term))]
        ELSE LET product == FoldLeft(next, start, term.openings)
             IN  [product EXCEPT !.value = ScaleLc(@, Public(term))]

LowerExpr(b, expr, sources) ==
    FoldLeft(LAMBDA acc, term :
                 LET t == LowerProduct(acc.builder, term, sources)
                 IN  [builder |-> t.builder, value |-> AddLc(acc.value, t.value)],
             [builder |-> b, value |-> {}], expr)
AssertExprEq(b, expr, v, sources) ==
    LET lowered == LowerExpr(b, expr, sources)
    IN  AssertEqual(lowered.builder, lowered.value, VariableLc(v))

-----------------------------------------------------------------------------
(* A committed sumcheck: its rounds sum to the claim they get, and hand on *)
(* their value at the challenge.  The domain is 0 for the hypercube, or    *)
(* the size of a range of integers centred at 0.                           *)

RoundSumCoefficients(domain, degree) ==
    IF domain = 0 THEN [k \in 1 .. degree + 1 |-> IF k = 1 THEN 2 ELSE 1]
    ELSE LET sums == Lagrange!PowerSums(domain, degree + 1) IN [k \in 1 .. degree + 1 |-> sums[k] % P]
RoundSumOf(domain, c) ==
    LET weights == RoundSumCoefficients(domain, Len(c) - 1)
    IN  Total([k \in DOMAIN c |-> weights[k] * c[k]])
Powers(x, n) == [k \in 1 .. n |-> Product([j \in 1 .. k - 1 |-> x])]

LinearLc(weights, vs) == SumLcs([k \in DOMAIN vs |-> ScaleLc(VariableLc(vs[k]), weights[k])])
AppendRound(b, domain, coefficients, challenge, claim_in, claim_out) ==
    LET n == Len(coefficients)
        summed == AssertEqual(b, LinearLc(RoundSumCoefficients(domain, n - 1), coefficients),
                              VariableLc(claim_in))
    IN  AssertEqual(summed, LinearLc(Powers(challenge, n), coefficients), VariableLc(claim_out))

-----------------------------------------------------------------------------
(* Matrices: z is the sequence of all the variables, the constant first.   *)

Dot(lc, z) == MapThenSumSet(LAMBDA p : p[2] * z[p[1] + 1], lc) % P
CheckWitness(rows, z) == \A i \in DOMAIN rows : Dot(rows[i][1], z) * Dot(rows[i][2], z) % P = Dot(rows[i][3], z)
MatrixVector(rows, m, z) == [i \in DOMAIN rows |-> Dot(rows[i][m], z)]
\* One side of the rows, weighed, at column v.
ColumnEval(rows, m, weights, v) == Total([i \in DOMAIN rows |-> weights[i] * Coefficient(rows[i][m], v)])
\* The same at columns 1 .. n under weights of their own.
BilinearEval(rows, m, weights, columns) ==
    Total([i \in DOMAIN rows |->
              weights[i] * (MapThenSumSet(LAMBDA p : p[2] * columns[p[1]],
                                          {p \in rows[i][m] : p[1] \in DOMAIN columns}) % P)])

\* One pass in the order the rows were added gives every product its value;
\* an equality has no product side, and is a check.
Value(lc, known) == MapThenSumSet(LAMBDA p : p[2] * known[p[1]], lc) % P
SolveProducts(rows, given) ==
    FoldLeft(LAMBDA known, row :
                 LET targets == {v \in VarsOf(row[3]) : row[3] = VariableLc(v) /\ v \notin DOMAIN known}
                 IN  [v \in DOMAIN known \cup targets |->
                         IF v \in targets THEN Value(row[1], known) * Value(row[2], known) % P ELSE known[v]],
             given, rows)

-----------------------------------------------------------------------------
(* Rows of committed values.                                               *)

CeilDiv(n, d) == (n + d - 1) \div d
NextPow2(n) == CHOOSE p \in {2^k : k \in 0 .. 12} : p >= n /\ (p = 1 \/ p \div 2 < n)
Log2(p) == CHOOSE k \in 0 .. 12 : 2^k = p
Chunked(s, n) == [k \in 1 .. CeilDiv(Len(s), n) |-> SubSeq(s, (k - 1) * n + 1, Min({k * n, Len(s)}))]
Plain(ns) == FoldLeft(LAMBDA a, b : a + b, 0, ns)      \* a sum of counts
UpTo_(n) == [k \in 1 .. n |-> k]
PadRow(s, n) == [k \in 1 .. n |-> IF k <= Len(s) THEN s[k] ELSE 0]
CommitWith(rows, blinds) == [n \in DOMAIN rows |-> Commitment(rows[n], blinds[n])]
CommitRows(rows, seed, purpose) ==
    [n \in DOMAIN rows |-> Commitment(rows[n], Random(seed, purpose, n))]

-----------------------------------------------------------------------------
(* The openings of the batch: one for every factor, but those of one table *)
(* at one window are the same, committed once, the rest its aliases.       *)

HeadId == <<0, 1>>
HeadOpening == Evaluate(head.coefficients, head.challenge)
Ids == FlattenSeq([i \in 1 .. Len(batch.kernels) |-> [k \in 1 .. Len(batch.kernels[i]) |-> <<i, k>>]])
Table(id) == batch.kernels[id[1]][id[2]]
OpeningValue(id) == Extension(Table(id), Slice(id[1]))
Same(id, other) ==
    /\ Table(id) = Table(other)
    /\ Described(id[1]).offset = Described(other[1]).offset
    /\ Described(id[1]).rounds = Described(other[1]).rounds
SourceOf(id) == Ids[Min({n \in DOMAIN Ids : Same(Ids[n], id)})]
CommittedIds == SelectSeq(Ids, LAMBDA id : SourceOf(id) = id)

\* CommittedSumcheckBuilder::finish: the output claims in rows.
Seal ==
    /\ phase = "finish" /\ ToFinish = {} /\ batch \in Sealed
    /\ outputs' = <<CommitRows(<<<<HeadOpening>>>>, 1, "output"),
                    CommitRows(Chunked([n \in DOMAIN CommittedIds |-> OpeningValue(CommittedIds[n])],
                                       Capacity), 0, "output")>>
    /\ transcript' = Append(transcript, outputs'[2])
    /\ phase' = "sealed"
    /\ UNCHANGED <<batch, tables, delivered, member_claims, pending_binds, work, ran, constant,
                   running_claim, challenges, round_polynomials, vvars, head, protocol, assigned,
                   fold, judgement>>

-----------------------------------------------------------------------------
(* The statement: the stages with the challenges the transcript gives back *)
(* for their commitments, and their claims as expressions.                 *)

VerifiedRounds ==
    [j \in DOMAIN round_polynomials |->
        [degree |-> round_polynomials[j].degree, commitment |-> round_polynomials[j].commitment,
         challenge |-> oracle[SubSeq(round_polynomials, 1, j)]]]

Term(values, openings) == <<[coefficient |-> 1, values |-> values, openings |-> openings]>>
\* Member i's input claim: a power of the head's opening and something public.
InputExpr(i) ==
    LET power == [k \in 1 .. i |-> HeadId]
        rest  == (Described(i).input_claim - Product([k \in 1 .. i |-> HeadOpening])) % P
    IN  Term(<<>>, power) \o Term(<<rest>>, <<>>)
OutputExpr(i) == Term(<<>>, [k \in 1 .. Len(batch.kernels[i]) |-> <<i, k>>])

BatchInputUnscaled ==       \* slip: short members at their own size
    FlattenSeq([i \in Members |-> ScaleExpr(InputExpr(i), Described(i).coefficient)])
BatchInput ==
    FlattenSeq([i \in Members |->
        ScaleExpr(InputExpr(i), MulPow2(Described(i).coefficient, batch.max_num_vars - Described(i).rounds))])
BatchOutput == FlattenSeq([i \in Members |-> ScaleExpr(OutputExpr(i), Described(i).coefficient)])

HeadStage ==
    [rounds |-> <<[degree |-> Len(head.coefficients) - 1, challenge |-> head.challenge,
                   commitment |-> Commitment(head.coefficients, Random(1, "round", 0))]>>,
     domain |-> head.size, ids |-> <<HeadId>>, aliases |-> [id \in {} |-> id],
     input |-> <<>>, output |-> Term(<<>>, <<HeadId>>)]
BatchStage ==
    [rounds |-> VerifiedRounds, domain |-> 0, ids |-> CommittedIds,
     aliases |-> [id \in ToSet(Ids) \ ToSet(CommittedIds) |-> SourceOf(id)],
     input |-> BatchInput, output |-> BatchOutput]

FinalIds == Ids
FinalCoefficients == [n \in DOMAIN Ids |-> n % P]

-----------------------------------------------------------------------------
(* The layout: every round's coefficients in a row of their own, then the  *)
(* output claims' rows, then the claims the rounds pass on, then a row for *)
(* the final evaluation and one for its blinding; products come after.     *)

LayoutOf(stages) ==
    LET row_len == NextPow2(Max({Capacity} \cup
                       UNION {{stages[s].rounds[j].degree + 1 : j \in DOMAIN stages[s].rounds} : s \in DOMAIN stages}))
        RoundsTo(s) == Plain([t \in 1 .. s |-> Len(stages[t].rounds)])
        RowsTo(s)   == Plain([t \in 1 .. s |-> CeilDiv(Len(stages[t].ids), Capacity)])
        last        == Len(stages)
        Row(n)      == 1 + n * row_len
        claims      == Row(RoundsTo(last) + RowsTo(last))
        Claim(s, j) == claims + RoundsTo(s - 1) + s - 1 + j
        evaluation  == Row(CeilDiv(Claim(last, Len(stages[last].rounds)), row_len))
    IN  [row_len |-> row_len,
         coefficients |-> [s \in DOMAIN stages |-> [j \in DOMAIN stages[s].rounds |->
             [k \in 1 .. stages[s].rounds[j].degree + 1 |-> Row(RoundsTo(s - 1) + j - 1) + k - 1]]],
         outputs |-> [s \in DOMAIN stages |-> [n \in DOMAIN stages[s].ids |->
             Row(RoundsTo(last) + RowsTo(s - 1) + (n - 1) \div Capacity) + ((n - 1) % Capacity)]],
         claims |-> [s \in DOMAIN stages |-> [j \in 1 .. Len(stages[s].rounds) + 1 |-> Claim(s, j - 1)]],
         evaluation |-> evaluation, blinding |-> evaluation + row_len,
         coefficient_rows |-> RoundsTo(last), output_claim_rows |-> RowsTo(last),
         num_vars |-> evaluation + 2 * row_len]

SourcesOf(stages, y) ==
    LET own == UNION {{<<stages[s].ids[n], y.outputs[s][n]>> : n \in DOMAIN stages[s].ids} : s \in DOMAIN stages}
        Var(id) == (CHOOSE p \in own : p[1] = id)[2]
        aliased == UNION {{<<id, Var(stages[s].aliases[id])>> : id \in DOMAIN stages[s].aliases} : s \in DOMAIN stages}
    IN  [id \in {p[1] : p \in own \cup aliased} |-> (CHOOSE p \in own \cup aliased : p[1] = id)[2]]

AppendStage(b, stage, coefficients, claims, sources) ==
    LET Round(acc, j) ==
            AppendRound(acc, stage.domain, coefficients[j], stage.rounds[j].challenge, claims[j], claims[j + 1])
        rounds == FoldLeft(Round, AssertExprEq(b, stage.input, claims[1], sources), UpTo_(Len(stage.rounds)))
    IN  AssertExprEq(rounds, stage.output, claims[Len(claims)], sources)

SystemOf(stages, y) ==
    LET sources == SourcesOf(stages, y)
        Next_(b, s) == AppendStage(b, stages[s], y.coefficients[s], y.claims[s], sources)
        claims == FoldLeft(Next_, [num_vars |-> y.num_vars, rows |-> <<>>], UpTo_(Len(stages)))
    IN  AssertEqual(claims,
            LinearLc(FinalCoefficients, [n \in DOMAIN FinalIds |-> sources[FinalIds[n]]]),
            VariableLc(y.evaluation))

DimensionsOf(y, system) ==
    LET auxiliary == CeilDiv(system.num_vars - 1 - (y.coefficient_rows + y.output_claim_rows) * y.row_len, y.row_len)
        padded    == NextPow2(Len(system.rows))
        error_len == Min({y.row_len, padded})
    IN  [auxiliary |-> auxiliary, occupied |-> y.coefficient_rows + y.output_claim_rows + auxiliary,
         row_count |-> NextPow2(y.coefficient_rows + y.output_claim_rows + auxiliary),
         error_row_len |-> error_len, error_row_count |-> padded \div error_len]

Protocol ==
    LET stages == <<HeadStage, BatchStage>>
        y      == LayoutOf(stages)
        system == SystemOf(stages, y)
    IN  [stages |-> stages, layout |-> y, rows |-> system.rows, num_vars |-> system.num_vars,
         dimensions |-> DimensionsOf(y, system)]

-----------------------------------------------------------------------------
(* The assignment: what the prover kept of the rounds and the openings, the *)
(* claims that follow from them, the products, in rows with their blinds.   *)

Kept ==
    [coefficients |-> <<<<head.coefficients>>,
        [j \in DOMAIN round_polynomials |->
            SubSeq(round_polynomials[j].commitment.row, 1, round_polynomials[j].degree + 1)]>>,
     outputs |-> <<<<HeadOpening>>, [n \in DOMAIN CommittedIds |-> OpeningValue(CommittedIds[n])]>>,
     evaluation |-> Total([n \in DOMAIN FinalIds |-> FinalCoefficients[n] * OpeningValue(FinalIds[n])]),
     blinding |-> Random(0, "final", 0)]

ClaimChain(stage, coefficients) ==
    [j \in 1 .. Len(stage.rounds) + 1 |->
        IF j = 1 THEN RoundSumOf(stage.domain, coefficients[1])
        ELSE Evaluate(coefficients[j - 1], stage.rounds[j - 1].challenge)]

Paired(vs, values) == {<<vs[k], values[k]>> : k \in DOMAIN vs}
DirectValues(p, kept) ==
    LET y == p.layout
        pairs == {<<0, 1>>, <<y.evaluation, kept.evaluation>>, <<y.blinding, kept.blinding>>} \cup
                 UNION {UNION {Paired(y.coefficients[s][j], kept.coefficients[s][j]) :
                                   j \in DOMAIN y.coefficients[s]}
                        \cup Paired(y.outputs[s], kept.outputs[s])
                        \cup Paired(y.claims[s], ClaimChain(p.stages[s], kept.coefficients[s])) :
                            s \in DOMAIN p.stages}
    IN  [v \in {q[1] : q \in pairs} |-> (CHOOSE q \in pairs : q[1] = v)[2]]

Assignment(p, kept) ==
    LET known == SolveProducts(p.rows, DirectValues(p, kept))
    IN  Strict([k \in 1 .. p.num_vars |-> IF k - 1 \in DOMAIN known THEN known[k - 1] ELSE 0])

ZerosTo(s, n) == s \o [k \in 1 .. n - Len(s) |-> 0]
SliceRows(p, z) ==
    LET d == p.dimensions
    IN  [z |-> z,
         rows |-> Chunked(ZerosTo(Tail(z), d.row_count * p.layout.row_len), p.layout.row_len),
         blindings |-> ZerosTo(
             FlattenSeq([s \in DOMAIN p.stages |->
                 [j \in DOMAIN p.stages[s].rounds |-> p.stages[s].rounds[j].commitment.blinding]])
             \o FlattenSeq([s \in DOMAIN outputs |-> [k \in DOMAIN outputs[s] |-> outputs[s][k].blinding]])
             \o [k \in 1 .. d.auxiliary |-> Random(0, "auxiliary", k)],
             d.row_count)]

AssignError ==
    IF \E j \in DOMAIN round_polynomials : round_polynomials[j].degree > batch.max_degree
    THEN "DegreeBoundExceeded"
    ELSE IF round_polynomials = <<>> THEN "DegenerateSumcheck" ELSE "none"

Assign ==
    /\ phase = "sealed"
    /\ phase' = IF AssignError = "none" THEN "assigned" ELSE AssignError
    /\ IF AssignError = "none"
       THEN protocol' = Protocol /\ assigned' = SliceRows(protocol', Assignment(protocol', Kept))
       ELSE UNCHANGED <<protocol, assigned>>
    /\ UNCHANGED <<batch, tables, delivered, member_claims, pending_binds, work, ran, constant,
                   running_claim, challenges, transcript, round_polynomials, vvars, head, outputs,
                   fold, judgement>>

-----------------------------------------------------------------------------
(* Folding with a random instance (relaxed.rs).                            *)

FoldValue(a, b, r) == (a + r * b) % P
FoldValues(a, b, r) == [k \in DOMAIN a |-> FoldValue(a[k], b[k], r)]
FoldCommitments(a, b, r) ==
    [n \in DOMAIN a |-> [row |-> FoldValues(a[n].row, b[n].row, r),
                         blinding |-> FoldValue(a[n].blinding, b[n].blinding, r)]]
\* Errors are folded twice: the committed instance has none.
FoldErrors(cross, random, r) ==
    [n \in DOMAIN cross |-> [k \in DOMAIN cross[n] |-> (r * cross[n][k] + r * r * random[n][k]) % P]]

Side(m, u, w) == MatrixVector(protocol.rows, m, <<u>> \o w)
ErrorRows(values) ==
    LET d == protocol.dimensions
    IN  Chunked(ZerosTo(values, d.error_row_count * d.error_row_len), d.error_row_len)
RelaxedError(u, w) ==
    LET a == Side(1, u, w)   b == Side(2, u, w)   c == Side(3, u, w)
    IN  ErrorRows([i \in DOMAIN a |-> (a[i] * b[i] - u * c[i]) % P])
CrossTerm(w1, u, w2) ==
    LET a1 == Side(1, 1, w1)   b1 == Side(2, 1, w1)   c1 == Side(3, 1, w1)
        a2 == Side(1, u, w2)   b2 == Side(2, u, w2)   c2 == Side(3, u, w2)
    IN  ErrorRows([i \in DOMAIN a1 |-> (a1[i] * b2[i] + a2[i] * b1[i] - c2[i] - u * c1[i]) % P])

\* Where a variable is in the rows.
RowOf(v) == (v - 1) \div protocol.layout.row_len + 1
ColumnOf(v) == ((v - 1) % protocol.layout.row_len) + 1
Dedicated == {RowOf(protocol.layout.evaluation), RowOf(protocol.layout.blinding)}

\* Random rows: nothing in the padding, and in the two rows that are opened
\* on their own nothing but the final opening's value and blinding.
RandomAt(n, k, seed) == Random(seed, "row", (n - 1) * protocol.layout.row_len + k)
BesideMixed(n, k, seed) == RandomAt(n, k, seed)     \* slip: the dedicated rows random too
Beside(n, k, seed) == IF n \in Dedicated THEN 0 ELSE RandomAt(n, k, seed)
IsAt(n, k, v) == n = RowOf(v) /\ k = ColumnOf(v)
RandomRows(seed) ==
    [n \in 1 .. protocol.dimensions.row_count |-> Strict([k \in 1 .. protocol.layout.row_len |->
        IF n > protocol.dimensions.occupied THEN 0
        ELSE IF IsAt(n, k, protocol.layout.evaluation) THEN Random(seed, "value", 0)
        ELSE IF IsAt(n, k, protocol.layout.blinding) THEN Random(seed, "final", 0)
        ELSE Beside(n, k, seed)])]
RandomBlinds(seed) ==
    [n \in 1 .. protocol.dimensions.row_count |->
        IF n > protocol.dimensions.occupied \/ n \in Dedicated THEN 0 ELSE Random(seed, "blind", n)]

-----------------------------------------------------------------------------
(* Openings of rows at a point, and sumchecks over sums of products.       *)

EqEvals(point) == Strict([i \in 1 .. 2^Len(point) |-> Eq(i, point)])
CombinedRow(rows, weights) ==
    [k \in DOMAIN rows[1] |-> Total([i \in DOMAIN rows |-> weights[i] * rows[i][k]])]
OpenRows(rows, blindings, point) ==
    LET weights == EqEvals(point)
    IN  [row |-> Strict(CombinedRow(rows, weights)),
         blinding |-> Total([i \in DOMAIN rows |-> weights[i] * blindings[i]])]
Opened(opening, point) == Extension(opening.row, point)
OpeningFits(commitments, point, opening) ==
    LET weights == EqEvals(point)
    IN  /\ CombinedRow([i \in DOMAIN commitments |-> commitments[i].row], weights)
               = PadRow(opening.row, Capacity)
        /\ Total([i \in DOMAIN commitments |-> weights[i] * commitments[i].blinding]) = opening.blinding
\* The corner of the hypercube that singles out row n.
BooleanPoint(n, len) == [j \in 1 .. len |-> BitOf(n, j, len)]
RowVars == Log2(protocol.dimensions.row_count)
ErrorRowVars == Log2(protocol.dimensions.error_row_count)
Flat(rows) == Strict(FlattenSeq(rows))

\* A group is a coefficient and the tables it multiplies.
ProveSum(groups, claimed, degree, draws) ==
    LET Step(acc, r) ==
            LET c == Strict(PolySum([g \in DOMAIN acc.groups |->
                              Scale(acc.groups[g][1], RoundPoly(acc.groups[g][2]))], degree + 1))
            IN  [groups  |-> [g \in DOMAIN acc.groups |->
                                <<acc.groups[g][1], [k \in DOMAIN acc.groups[g][2] |->
                                                        Strict(BindTable(acc.groups[g][2][k], r))]>>],
                 running |-> Evaluate(c, r),
                 rounds  |-> Append(acc.rounds, Compress(c)),
                 sound   |-> acc.sound /\ (c[1] + Total(c)) % P = acc.running]
    IN  FoldLeft(Step, [groups |-> groups, running |-> claimed, rounds |-> <<>>, sound |-> TRUE], draws)

\* SumcheckProof::verify: the value claimed at the end of all the rounds.
RoundsFit(rounds, degree, draws) ==
    Len(rounds) = Len(draws) /\ \A j \in DOMAIN rounds : CompressedDegree(rounds[j]) <= degree
FinalValue(rounds, claimed, draws) ==
    FoldLeft(LAMBDA running, j : EvaluateWithHint(rounds[j], running, draws[j]), claimed, UpTo_(Len(draws)))

Draws(seed, purpose, n) == [k \in 1 .. n |-> Random(seed, purpose, k)]
OuterVars == ErrorRowVars + Log2(protocol.dimensions.error_row_len)
InnerVars == RowVars + Log2(protocol.layout.row_len)

\* What the inner sumcheck claims: the three sides less the column of the one.
PublicColumn(m, weights, u) == (ColumnEval(protocol.rows, m, weights, 0) * u) % P
InnerClaim(sides, weights, u, r) ==
    Total([m \in 1 .. 3 |-> r[m] * (sides[m] - PublicColumn(m, weights, u))])

-----------------------------------------------------------------------------
(* prove: folds, opens the final values, and proves the folded system.     *)

Folding(seed, r) ==
    LET y     == protocol.layout
        d     == protocol.dimensions
        u     == Random(seed, "u", 0)
        rows  == RandomRows(seed)
        error == RelaxedError(u, Flat(rows))
        cross == CrossTerm(Flat(assigned.rows), u, Flat(rows))
        error_blinds == Draws(seed, "error", d.error_row_count)
        cross_blinds == Draws(seed, "cross", d.error_row_count)
    IN  [sent |->
            [u |-> u, auxiliary |-> CommitWith(SubSeq(assigned.rows, d.occupied - d.auxiliary + 1, d.occupied),
                                               SubSeq(assigned.blindings, d.occupied - d.auxiliary + 1, d.occupied)),
             random |-> CommitWith(SubSeq(rows, 1, d.occupied), SubSeq(RandomBlinds(seed), 1, d.occupied)),
             error |-> CommitWith(error, error_blinds), cross |-> CommitWith(cross, cross_blinds),
             eval |-> Commitment(<<Random(seed, "value", 0)>>, Random(seed, "final", 0))],
         one |-> FoldValue(1, u, r),
         rows |-> [n \in 1 .. d.row_count |-> Strict(FoldValues(assigned.rows[n], rows[n], r))],
         blindings |-> Strict(FoldValues(assigned.blindings, RandomBlinds(seed), r)),
         errors |-> FoldErrors(cross, error, r),
         error_blindings |-> FoldErrors(<<cross_blinds>>, <<error_blinds>>, r)[1],
         output |-> FoldValue(assigned.z[y.evaluation + 1], Random(seed, "value", 0), r),
         blinding |-> FoldValue(assigned.z[y.blinding + 1], Random(seed, "final", 0), r)]

OuterGroups(f, w, eq) ==
    LET side(m) == ZerosTo(Side(m, f.one, w), Len(eq))
    IN  <<<<1, <<eq, side(1), side(2)>>>>, <<(-f.one) % P, <<eq, side(3)>>>>, <<P - 1, <<eq, Flat(f.errors)>>>>>>

ProofOf(seed, r) ==
    LET f       == Folding(seed, r)
        w       == Flat(f.rows)
        point   == Draws(seed, "outer", OuterVars)
        outer   == ProveSum(OuterGroups(f, w, EqEvals(Draws(seed, "tau", OuterVars))), 0, 3, point)
        weights == EqEvals(point)
        sides   == [m \in 1 .. 3 |-> Total(LET side == Strict(Side(m, f.one, w))
                                           IN  [i \in DOMAIN side |-> weights[i] * side[i]])]
        abc     == Draws(seed, "abc", 3)
        columns == Strict([v \in DOMAIN w |->
                       Total([m \in 1 .. 3 |-> abc[m] * ColumnEval(protocol.rows, m, weights, v)])])
        inner_point == Draws(seed, "inner", InnerVars)
        inner   == ProveSum(<<<<1, <<columns, w>>>>>>, InnerClaim(sides, weights, f.one, abc), 2, inner_point)
        OpenAt(v) == OpenRows(f.rows, f.blindings, BooleanPoint(RowOf(v), RowVars))
    IN  [seed |-> seed, challenge |-> r, sent |-> f.sent,
         output |-> f.output, blinding |-> f.blinding,
         output_opening |-> OpenAt(protocol.layout.evaluation),
         blinding_opening |-> OpenAt(protocol.layout.blinding),
         outer |-> outer.rounds, sides |-> Strict(sides),
         error_opening |-> OpenRows(f.errors, f.error_blindings, SubSeq(point, 1, ErrorRowVars)),
         inner |-> inner.rounds,
         witness_opening |-> OpenRows(f.rows, f.blindings, SubSeq(inner_point, 1, RowVars)),
         sound |-> outer.sound /\ inner.sound]

At(opening, v) == opening.row[ColumnOf(v)]
ProveError(p) ==
    IF protocol.layout.row_len > Capacity THEN "CommitmentCapacityExceeded"
    ELSE IF \/ At(p.output_opening, protocol.layout.evaluation) # p.output
            \/ At(p.blinding_opening, protocol.layout.blinding) # p.blinding THEN "EvalWitnessMismatch"
    ELSE IF OuterVars = 0 \/ InnerVars = 0 THEN "DegenerateSumcheck"
    ELSE IF ~p.sound THEN "SumcheckRoundClaimMismatch" ELSE "none"

Prove ==
    /\ phase = "assigned"
    /\ \E seed \in Seeds, r \in FoldChallenges :
         /\ fold' = ProofOf(seed, r)
         /\ phase' = IF ProveError(fold') = "none" THEN "folded" ELSE ProveError(fold')
    /\ UNCHANGED <<batch, tables, delivered, member_claims, pending_binds, work, ran, constant,
                   running_claim, challenges, transcript, round_polynomials, vvars, head, outputs,
                   protocol, assigned, judgement>>

-----------------------------------------------------------------------------
(* verify: the folded commitments, computed from those it has seen, against *)
(* the openings, and the two sumchecks; the first check that fails counts.  *)

Padded(commitments, n) ==
    commitments \o [k \in 1 .. n - Len(commitments) |-> Commitment(<<>>, 0)]
CommittedRows ==
    FlattenSeq([s \in DOMAIN protocol.stages |->
        [j \in DOMAIN protocol.stages[s].rounds |-> protocol.stages[s].rounds[j].commitment]])
    \o FlattenSeq(outputs) \o fold.sent.auxiliary
FoldedRows ==
    FoldCommitments(Padded(CommittedRows, protocol.dimensions.row_count),
                    Padded(fold.sent.random, protocol.dimensions.row_count), fold.challenge)
FoldedErrors ==
    [n \in DOMAIN fold.sent.error |->
        [row |-> FoldErrors(<<fold.sent.cross[n].row>>, <<fold.sent.error[n].row>>, fold.challenge)[1],
         blinding |-> FoldErrors(<<<<fold.sent.cross[n].blinding>>>>, <<<<fold.sent.error[n].blinding>>>>,
                                 fold.challenge)[1][1]]]
FoldedEval ==
    FoldCommitments(<<Commitment(<<Kept.evaluation>>, Kept.blinding)>>, <<fold.sent.eval>>, fold.challenge)[1]

EvalErrors(opening, v, expected) ==
    <<<<~OpeningFits(FoldedRows, BooleanPoint(RowOf(v), RowVars), opening), "CommitmentMismatch">>,
      <<At(opening, v) # expected, "EvalWitnessMismatch">>,
      <<\E k \in DOMAIN opening.row : k # ColumnOf(v) /\ opening.row[k] # 0, "EvalWitnessRowNotDedicated">>>>

OuterPoint == Draws(fold.seed, "outer", OuterVars)
FoldedU == FoldValue(1, fold.sent.u, fold.challenge)
OuterErrors ==
    LET tau == Draws(fold.seed, "tau", OuterVars)
        rx  == OuterPoint
        e_rx == Opened(fold.error_opening, SubSeq(rx, ErrorRowVars + 1, OuterVars))
        eq  == Product([j \in DOMAIN tau |-> tau[j] * rx[j] + (1 - tau[j]) * (1 - rx[j])])
    IN  <<<<~RoundsFit(fold.outer, 3, rx), "OuterSumcheck">>,
          <<~OpeningFits(FoldedErrors, SubSeq(rx, 1, ErrorRowVars), fold.error_opening), "CommitmentMismatch">>,
          <<FinalValue(fold.outer, 0, rx)
                # (eq * (fold.sides[1] * fold.sides[2] - FoldedU * fold.sides[3] - e_rx)) % P,
            "OuterFinalClaimMismatch">>>>
InnerErrors ==
    LET ry  == Draws(fold.seed, "inner", InnerVars)
        abc == Draws(fold.seed, "abc", 3)
        w_ry == Opened(fold.witness_opening, SubSeq(ry, RowVars + 1, InnerVars))
        weights == EqEvals(OuterPoint)
        l_w == Total([m \in 1 .. 3 |-> abc[m] * BilinearEval(protocol.rows, m, weights, EqEvals(ry))])
    IN  <<<<~RoundsFit(fold.inner, 2, ry), "InnerSumcheck">>,
          <<~OpeningFits(FoldedRows, SubSeq(ry, 1, RowVars), fold.witness_opening), "CommitmentMismatch">>,
          <<FinalValue(fold.inner, InnerClaim(fold.sides, weights, FoldedU, abc), ry)
                # (l_w * w_ry) % P, "InnerFinalClaimMismatch">>>>
\* BlindFoldProtocol::verify, the checks in their order.
Errors ==
    <<<<FoldedEval # Commitment(<<fold.output>>, fold.blinding), "EvalCommitmentMismatch">>>>
    \o EvalErrors(fold.output_opening, protocol.layout.evaluation, fold.output)
    \o EvalErrors(fold.blinding_opening, protocol.layout.blinding, fold.blinding)
    \o OuterErrors \o InnerErrors
Judge ==
    /\ phase = "folded" /\ judgement = "none"
    /\ judgement' = LET failed == SelectSeq(Errors, LAMBDA e : e[1])
                    IN  IF failed = <<>> THEN "accepted" ELSE failed[1][2]
    /\ UNCHANGED <<vars, head, outputs, protocol, assigned, fold>>

-----------------------------------------------------------------------------
NoHead == [coefficients |-> <<0>>, size |-> 1, challenge |-> 0]
FInit ==
    /\ Init
    /\ head \in IF batch \in Sealed THEN Heads ELSE {NoHead}
    /\ outputs = <<>> /\ protocol = <<>> /\ assigned = <<>> /\ fold = <<>> /\ judgement = "none"
FNext == (Next /\ UNCHANGED bvars) \/ Seal \/ Assign \/ Prove \/ Judge
FSpec == FInit /\ [][FNext]_<<vars, bvars>>

-----------------------------------------------------------------------------
(* What a verifier that saw the values would check.                        *)

CentredSum(size, c) == Total([k \in 1 .. size |-> Evaluate(c, (k - 1 - ((size - 1) \div 2)) % P)])
OpenedIn(kept) ==
    [id \in {HeadId} \cup ToSet(Ids) |->
        IF id = HeadId THEN kept.outputs[1][1]
        ELSE kept.outputs[2][CHOOSE n \in DOMAIN CommittedIds : CommittedIds[n] = SourceOf(id)]]
ClearlyVerifies(kept) ==
    LET opened == OpenedIn(kept)
        c      == kept.coefficients[2]
        input  == Total([i \in 1 .. Len(batch.described) |->
                      Described(i).coefficient
                        * MulPow2(ExprValue(InputExpr(i), opened), batch.max_num_vars - Described(i).rounds)])
        product(i) == Product([k \in 1 .. Len(batch.kernels[i]) |-> opened[<<i, k>>]])
        running(j) == IF j = 0 THEN input ELSE Evaluate(c[j], challenges[j])
    IN  /\ CentredSum(head.size, kept.coefficients[1][1]) = 0
        /\ Evaluate(kept.coefficients[1][1], head.challenge) = opened[HeadId]
        /\ \A j \in DOMAIN c : (Evaluate(c[j], 0) + Evaluate(c[j], 1)) % P = running(j - 1)
        /\ running(Len(c)) = Total([i \in 1 .. Len(batch.described) |-> Described(i).coefficient * product(i)])
        /\ kept.evaluation = Total([n \in DOMAIN FinalIds |-> FinalCoefficients[n] * opened[FinalIds[n]]])

\* What a prover may change: a coefficient, the final evaluation, an opening
\* with or without the evaluation along with it.
Weight(n) == Total([m \in DOMAIN FinalIds |->
                IF SourceOf(FinalIds[m]) = CommittedIds[n] THEN FinalCoefficients[m] ELSE 0])
Changed(kept, d) ==
    LET opening(n) == [kept EXCEPT !.outputs[2][n] = (@ + d) % P]
    IN  UNION {UNION {{[kept EXCEPT !.coefficients[s][j][k] = (@ + d) % P] :
                          k \in DOMAIN kept.coefficients[s][j]} : j \in DOMAIN kept.coefficients[s]} : s \in 1 .. 2}
        \cup {[kept EXCEPT !.outputs[1][1] = (@ + d) % P], [kept EXCEPT !.evaluation = (@ + d) % P]}
        \cup {opening(n) : n \in DOMAIN CommittedIds}
        \cup {[opening(n) EXCEPT !.evaluation = (@ + d * Weight(n)) % P] : n \in DOMAIN CommittedIds}
Derived(p) ==
    UNION {ToSet(p.layout.claims[s]) : s \in DOMAIN p.stages} \cup (p.layout.num_vars .. p.num_vars - 1)

\* The constraint system is the verification: the honest assignment satisfies
\* it, a changed one exactly when a verifier of the clear values would accept
\* it, and the claims and products are determined by the rest (append,
\* append_sumcheck_r1cs_constraints_for_domain, lower_claim_expression).
SystemIsVerification ==
    phase = "assigned" =>
        /\ CheckWitness(protocol.rows, assigned.z) /\ ClearlyVerifies(Kept)
        /\ \A d \in {1, 2} : \A kept \in Changed(Kept, d) :
               CheckWitness(protocol.rows, Assignment(protocol, kept)) <=> ClearlyVerifies(kept)
        /\ \A v \in Derived(protocol) :
               ~CheckWitness(protocol.rows, [assigned.z EXCEPT ![v + 1] = (@ + 1) % P])

\* A batch proved with committed rounds ends accepted: for every draw of the
\* prover and every folding challenge the folded commitments open to the folded
\* rows, the rows opened on their own hold nothing else, and both sumchecks
\* reach their final claims (prove_with_row_committer and verify in lockstep).
HonestFoldAccepted ==
    /\ phase \notin {"CommitmentCapacityExceeded", "EvalWitnessMismatch", "SumcheckRoundClaimMismatch"}
    /\ judgement \in {"none", "accepted"}
=============================================================================
