----------------------------- MODULE SpartanKernels -----------------------------
(***************************************************************************)
(* The kernels over the columns of the proof rows (jolt-kernels,           *)
(* spartan_outer.rs, spartan_product.rs, spartan_shift.rs,                 *)
(* instruction_input.rs).  The first two fold the constraints of a row in  *)
(* a univariate round before the rest: its variable ranges over integers   *)
(* centred at 0, one for each of a group of constraints.                   *)
(***************************************************************************)
EXTENDS CycleKernels

U == INSTANCE UniformConstraints WITH TwoPow64 <- Product([i \in 1 .. 64 |-> 2])

Column(witness, c) == [t \in DOMAIN witness |-> witness[t][c]]
Scaled(r, scale) == [NewEq(r) EXCEPT !.scalar = scale]
LogT(j) == Log(j.witness)

-----------------------------------------------------------------------------
(* The constraints of a row once more, as native arithmetic.               *)

RowGuards(row) ==
    LET combined == row.AddOperands + row.SubOperands + row.MulOperands
    IN  <<row.LeftIsRs1, 1 - row.LeftIsRs1, row.RightIsRs2, row.RightIsImm,
          1 - row.RightIsRs2 - row.RightIsImm, row.Load + row.Store, 1 - row.Load - row.Store,
          row.Load, row.Load, row.Store, combined,
          1 - combined, row.AddOperands, row.SubOperands, row.MulOperands,
          1 - combined - row.Advice, row.Assert, row.WriteLookupToRd, row.Jump,
          row.should_branch, row.Halt, 1 - row.should_branch - row.Jump - row.Halt>>
RowMagnitudesNoBorrow(row) ==       \* slip: a difference below zero is not lifted by 2^64
    <<row.left_input - row.rs1, row.left_input, row.right_input - row.rs2,
      row.right_input - row.imm, row.right_input, row.ram_address - row.rs1 - row.imm,
      row.ram_address, row.ram_read - row.ram_write, row.ram_read - row.rd_write,
      row.rs2 - row.ram_write, row.left_lookup,
      row.left_lookup - row.left_input, row.right_lookup - row.left_input - row.right_input,
      row.right_lookup - row.left_input + row.right_input, row.right_lookup - row.product,
      row.right_lookup - row.right_input, row.lookup_output - 1, row.rd_write - row.lookup_output,
      row.next_pc - row.lookup_output, row.next_pc - row.imm, row.next_pc - row.pc,
      row.next_pc - row.pc - 1>>
RowMagnitudes(row) ==
    <<row.left_input - row.rs1, row.left_input, row.right_input - row.rs2,
      row.right_input - row.imm, row.right_input, row.ram_address - row.rs1 - row.imm,
      row.ram_address, row.ram_read - row.ram_write, row.ram_read - row.rd_write,
      row.rs2 - row.ram_write, row.left_lookup,
      row.left_lookup - row.left_input, row.right_lookup - row.left_input - row.right_input,
      row.right_lookup - row.left_input + row.right_input - Product([i \in 1 .. 64 |-> 2]),
      row.right_lookup - row.product, row.right_lookup - row.right_input, row.lookup_output - 1,
      row.rd_write - row.lookup_output, row.next_pc - row.lookup_output, row.next_pc - row.imm,
      row.next_pc - row.pc, row.next_pc - row.pc - 1>>

\* A domain of n integers, and the 2n - 1 it takes to fix a product over it.
Extended(n) == 2 * n - 1
ExtensionCoefficients(n) ==
    [i \in 1 .. Extended(n) |-> Strict(CenteredEvals(n, Nodes(Start(Extended(n)), Extended(n))[i]))]
Fold(weights, values, from) == Total([i \in DOMAIN weights |-> weights[i] * values[from + i]])
\* Of the group-th half of the row's constraints.
FoldGroup(weights, row, group) ==
    [a |-> Fold(weights, RowGuards(row), group * U!DomainSize),
     b |-> Fold(weights, RowMagnitudes(row), group * U!DomainSize)]
\* What the other nodes of a product are; on the domain itself it is zero.
FirstRound(n, tau_high, t1_values) ==
    PolyMul(InterpolateToCoeffs(Start(n), CenteredEvals(n, tau_high)),
            InterpolateToCoeffs(Start(Extended(n)), t1_values))

-----------------------------------------------------------------------------
(* The outer sumcheck: the sum of eq * Az * Bz over rows and groups.       *)

OuterT1(j) ==
    LET tau_low == SubSeq(j.tau, 1, LogT(j) + 1)
        cut == Len(tau_low) \div 2
        e_out == EqEvals(SubSeq(tau_low, 1, cut), 1)
        e_in == EqEvals(SubSeq(tau_low, cut + 1, Len(tau_low)), 1)
        pairs == Len(e_in) \div 2
        At(weights, row, group) == LET f == FoldGroup(weights, row, group) IN f.a * f.b
        Block(weights, x_out) ==
            Total([p \in 1 .. pairs |->
                LET row == j.witness[(x_out - 1) * pairs + p]
                IN  e_in[2 * p - 1] * At(weights, row, 0) + e_in[2 * p] * At(weights, row, 1)])
        InDomain(i) == i - U!DomainSize \in Start(U!DomainSize) .. Start(U!DomainSize) + U!DomainSize - 1
        coefficients == Strict(ExtensionCoefficients(U!DomainSize))
    IN  [i \in 1 .. Extended(U!DomainSize) |->
            IF InDomain(i) THEN 0
            ELSE Total([x \in DOMAIN e_out |-> e_out[x] * Block(coefficients[i], x)])]
OuterFirstRound(j) == FirstRound(U!DomainSize, j.tau[LogT(j) + 2], Strict(OuterT1(j)))

\* The weight of every constraint, and of a column in all of them.
RowWeights(uniskip, stream) ==
    LET lagrange == Strict(CenteredEvals(U!DomainSize, uniskip))
    IN  [row \in DOMAIN U!EqRows |->
            IF row <= U!DomainSize THEN ((1 - stream) * lagrange[row]) % P
            ELSE (stream * lagrange[row - U!DomainSize]) % P]
OuterColumns == U!OuterInputs \o <<"const">>
WeightedColumns(weights, side) ==
    [c \in DOMAIN OuterColumns |->
        Total([row \in DOMAIN U!EqRows |->
            LET form == U!EqRows[row][side]
            IN  IF OuterColumns[c] \in DOMAIN form THEN weights[row] * form[OuterColumns[c]] ELSE 0])]
OuterNew(j) ==
    LET lagrange == Strict(CenteredEvals(U!DomainSize, j.r0))
        eq == Scaled(SubSeq(j.tau, 1, LogT(j) + 1),
                     LagrangeKernel(U!DomainSize, j.tau[LogT(j) + 2], j.r0))
        Cell(i) == FoldGroup(lagrange, j.witness[(i - 1) \div 2 + 1], (i - 1) % 2)
        az == [i \in 1 .. 2 * Len(j.witness) |-> Cell(i).a]
        bz == [i \in 1 .. 2 * Len(j.witness) |-> Cell(i).b]
        Weights(side) == [s \in 1 .. 2 |-> WeightedColumns(Strict(RowWeights(j.r0, s - 1)), side)]
    IN  [az |-> az, bz |-> bz, gruen |-> eq, pending |-> <<ProductEndpoints(eq, az, bz)>>,
         challenges |-> <<>>, witness |-> j.witness,
         az_weights |-> Weights("a"), bz_weights |-> Weights("b")]
PendingEndpoints(s, a, b) ==
    IF s.pending # <<>> THEN s.pending[1] ELSE ProductEndpoints(s.gruen, a, b)
OuterMessage(s, claim) ==
    LET ends == PendingEndpoints(s, s.az, s.bz)
    IN  GruenPolyDeg3(s.gruen, ends.zero, ends.infinity, claim)
OuterBindPending(s, r) ==   \* slip: the endpoints of the first round are kept
    [s EXCEPT !.az = BindLow(@, r), !.bz = BindLow(@, r), !.gruen = BindEq(@, r),
              !.challenges = Append(@, r)]
OuterBind(s, r) ==
    [s EXCEPT !.az = BindLow(@, r), !.bz = BindLow(@, r), !.gruen = BindEq(@, r),
              !.challenges = Append(@, r), !.pending = <<>>]
\* The columns are read off the rows again, at the challenges but the group's.
ClaimedColumnsUnreversed(witness, columns, challenges) ==   \* slip: the challenges as they came
    LET weights == EqEvals(challenges, 1)
    IN  [c \in DOMAIN columns |->
            Total([t \in DOMAIN weights |-> weights[t] * witness[t][columns[c]]])]
ClaimedColumns(witness, columns, challenges) ==
    LET weights == EqEvals(Reverse(challenges), 1)
    IN  [c \in DOMAIN columns |->
            Total([t \in DOMAIN weights |-> weights[t] * witness[t][columns[c]]])]
OuterOutputs(s) ==
    LET stream == s.challenges[1]
        Blend(pair) == [c \in DOMAIN OuterColumns |-> Lerp(pair[1][c], pair[2][c], stream)]
    IN  <<s.gruen.scalar>> \o Blend(s.az_weights) \o Blend(s.bz_weights)
            \o ClaimedColumns(s.witness, U!OuterInputs, Tail(s.challenges))

OuterTables(j) ==
    LET n == 2 * Len(j.witness)
        eq == EqTable(SubSeq(j.tau, 1, LogT(j) + 1))
        kernel == LagrangeKernel(U!DomainSize, j.tau[LogT(j) + 2], j.r0)
        Pairs(side) ==
            LET zero == Strict(WeightedColumns(Strict(RowWeights(j.r0, 0)), side))
                one == Strict(WeightedColumns(Strict(RowWeights(j.r0, 1)), side))
            IN  [c \in DOMAIN OuterColumns |->
                    [i \in 1 .. n |-> IF i % 2 = 1 THEN zero[c] ELSE one[c]]]
    IN  <<[i \in 1 .. n |-> (kernel * eq[i]) % P]>> \o Pairs("a") \o Pairs("b")
            \o [c \in DOMAIN U!OuterInputs |->
                    [i \in 1 .. n |-> j.witness[(i + 1) \div 2][U!OuterInputs[c]]]]
OuterExpression(j, v) ==
    LET k == Len(U!OuterInputs)
        Form(from) == (Total([c \in 1 .. k |-> v[from + c] * v[2 * k + 3 + c]]) + v[from + k + 1]) % P
    IN  v[1] * Form(1) * Form(k + 2)
\* The same sum at a point of the univariate variable, from the constraints.
FormAt(form, row) == SumOver(DOMAIN form, LAMBDA c : form[c] * row[c])
OuterSum(j, r) ==
    LET eq == EqTable(SubSeq(j.tau, 1, LogT(j) + 1))
        lagrange == Strict(CenteredEvals(U!DomainSize, r))
        Side(side, i) == Total([k \in DOMAIN U!Groups[((i - 1) % 2) + 1] |->
            lagrange[k] * FormAt(U!Groups[((i - 1) % 2) + 1][k][side], j.witness[(i + 1) \div 2])])
    IN  (LagrangeKernel(U!DomainSize, j.tau[LogT(j) + 2], r)
            * Total([i \in DOMAIN eq |-> eq[i] * Side("a", i) * Side("b", i)])) % P
OuterInput(j) == Evaluate(OuterFirstRound(j), j.r0)

-----------------------------------------------------------------------------
(* The products: left * right over two lanes.                              *)

LeftLanes(row) == <<row.left_input, row.lookup_output>>
RightLanes(row) == <<row.right_input, row.Branch>>

ProductT1(j) ==
    LET cut == Len(j.r_cycle) \div 2
        e_out == EqEvals(SubSeq(j.r_cycle, 1, cut), 1)
        e_in == EqEvals(SubSeq(j.r_cycle, cut + 1, Len(j.r_cycle)), 1)
        At(weights, row) == Fold(weights, LeftLanes(row), 0) * Fold(weights, RightLanes(row), 0)
        coefficients == ExtensionCoefficients(2)
    IN  [i \in 1 .. Extended(2) |->
            Total([x \in DOMAIN e_out |-> e_out[x] * Total([k \in DOMAIN e_in |->
                e_in[k] * At(coefficients[i], j.witness[(x - 1) * Len(e_in) + k])])])]
ProductFirstRound(j) == FirstRound(2, j.tau_high, Strict(ProductT1(j)))
ProductRemainderNew(j) ==
    LET weights == CenteredEvals(2, j.r0)
        eq == Scaled(j.r_cycle, LagrangeKernel(2, j.tau_high, j.r0))
        left == [t \in DOMAIN j.witness |-> Fold(weights, LeftLanes(j.witness[t]), 0)]
        right == [t \in DOMAIN j.witness |-> Fold(weights, RightLanes(j.witness[t]), 0)]
    IN  [left |-> left, right |-> right, gruen |-> eq, challenges |-> <<>>,
         pending |-> <<ProductEndpoints(eq, left, right)>>, witness |-> j.witness, weights |-> weights]
ProductRemainderMessage(s, claim) ==
    LET ends == PendingEndpoints(s, s.left, s.right)
    IN  GruenPolyDeg3(s.gruen, ends.zero, ends.infinity, claim)
ProductRemainderBind(s, r) ==
    [s EXCEPT !.left = BindLow(@, r), !.right = BindLow(@, r), !.gruen = BindEq(@, r),
              !.challenges = Append(@, r), !.pending = <<>>]
ProductColumns == <<"left_input", "right_input", "lookup_output", "Branch">>
ProductRemainderOutputs(s) ==
    <<s.gruen.scalar>> \o s.weights \o ClaimedColumns(s.witness, ProductColumns, s.challenges)

ProductRemainderTables(j) ==
    LET eq == EqTable(j.r_cycle)
        scale == LagrangeKernel(2, j.tau_high, j.r0)
        weights == CenteredEvals(2, j.r0)
    IN  <<[t \in DOMAIN eq |-> (scale * eq[t]) % P]>>
            \o [i \in 1 .. 2 |-> [t \in DOMAIN eq |-> weights[i]]]
            \o [c \in 1 .. 4 |-> Column(j.witness, ProductColumns[c])]
ProductRemainderExpression(j, v) ==
    v[1] * ((v[2] * v[4] + v[3] * v[6]) % P) * ((v[2] * v[5] + v[3] * v[7]) % P)
ProductRemainderInput(j) == Evaluate(ProductFirstRound(j), j.r0)
ProductSum(j, r) ==
    LET w == Strict(CenteredEvals(2, r))
    IN  (LagrangeKernel(2, j.tau_high, r)
            * Total([t \in DOMAIN j.witness |->
                LET row == j.witness[t]
                IN  Eq(t, j.r_cycle) * ((w[1] * row.left_input + w[2] * row.lookup_output) % P)
                        * ((w[1] * row.right_input + w[2] * row.Branch) % P)])) % P
\* The claim the univariate round starts from.
ProductUniskipInput(j) ==
    LET weights == CenteredEvals(2, j.tau_high)
    IN  weights[1] * OpenedAt(Column(j.witness, "product"), j.r_cycle)
            + weights[2] * OpenedAt(Column(j.witness, "should_branch"), j.r_cycle)

-----------------------------------------------------------------------------
(* The next row's pc, in two products of halves and then densely.          *)

ShiftNew(j) ==
    LET split == PrefixSuffix(j.r_cycle)
        n == Len(split.prefix_0)
        Q(suffix) == [lo \in 1 .. n |-> Total([hi \in DOMAIN suffix |->
                        j.witness[(hi - 1) * n + lo].pc * suffix[hi]])]
    IN  [phase |-> "prefix", r_outer |-> j.r_cycle, witness |-> j.witness, challenges |-> <<>>,
         p |-> <<split.prefix_0, split.prefix_1>>, q |-> <<Q(split.suffix_0), Q(split.suffix_1)>>,
         eq_plus_one |-> <<>>, pc |-> <<>>]
ShiftToDense(s) ==
    LET r_prefix == Reverse(s.challenges)
        eq_prefix == EqEvals(r_prefix, 1)
        n == Len(eq_prefix)
        split == PrefixSuffix(s.r_outer)
        p_0 == Extension(split.prefix_0, r_prefix)
        p_1 == Extension(split.prefix_1, r_prefix)
    IN  [s EXCEPT !.phase = "dense",
            !.pc = [hi \in 1 .. Len(s.witness) \div n |->
                Total([lo \in 1 .. n |-> eq_prefix[lo] * s.witness[(hi - 1) * n + lo].pc])],
            !.eq_plus_one = [i \in DOMAIN split.suffix_0 |->
                (p_0 * split.suffix_0[i] + p_1 * split.suffix_1[i]) % P]]
ShiftBind(s, r) ==
    LET t == [s EXCEPT !.challenges = Append(@, r)]
    IN  IF s.phase = "dense"
        THEN [t EXCEPT !.eq_plus_one = BindLow(@, r), !.pc = BindLow(@, r)]
        ELSE IF Len(s.p[1]) = 2 THEN ShiftToDense(t)
        ELSE [t EXCEPT !.p = [x \in 1 .. 2 |-> BindLow(@[x], r)],
                       !.q = [x \in 1 .. 2 |-> BindLow(@[x], r)]]
ShiftMessage(s, claim) ==
    LET Sum_(a, b, x) == Total([y \in PairRows(a) |-> Row(a, y, x) * Row(b, y, x)])
        At(x) == IF s.phase = "dense" THEN Sum_(s.eq_plus_one, s.pc, x)
                 ELSE (Sum_(s.p[1], s.q[1], x) + Sum_(s.p[2], s.q[2], x)) % P
    IN  FromEvalsAndHint(<<At(0), At(2)>>, claim)
ShiftOutputs(s) == <<s.eq_plus_one[1], s.pc[1]>>

ShiftTables(j) ==
    <<[t \in DOMAIN j.witness |-> EqPlusOne(j.r_cycle, PointOf(t, LogT(j)))], Column(j.witness, "pc")>>
ShiftExpression(j, v) == v[1] * v[2]
ShiftInput(j) == OpenedAt(Column(j.witness, "next_pc"), j.r_cycle)

-----------------------------------------------------------------------------
(* The inputs of the instruction: flags choose the operands.               *)

OperandColumns == <<"LeftIsRs1", "rs1", "RightIsRs2", "rs2", "RightIsImm", "imm">>
InstructionInputNew(j) ==
    [gruen |-> NewEq(j.r_cycle), gamma |-> j.gamma, native |-> TRUE,
     tables |-> [c \in 1 .. 6 |-> Column(j.witness, OperandColumns[c])]]
InstructionInputMessage(s, claim) ==
    LET V(c, y, x) == Row(s.tables[c], y, x)
        \* The immediate is signed: its two ends are multiplied apart.
        Imm(y, x) == V(5, y, x) * (1 - x) * s.tables[6][2 * y - 1] + V(5, y, x) * x * s.tables[6][2 * y]
        Right(y, x) == V(3, y, x) * V(4, y, x)
                        + (IF s.native THEN Imm(y, x) ELSE V(5, y, x) * V(6, y, x))
        Q(x) == Total([y \in PairRows(s.tables[1]) |->
                    Weight(s.gruen, y - 1) * ((Right(y, x) + s.gamma * V(1, y, x) * V(2, y, x)) % P)])
    IN  CheckedRoundPoly(s.gruen, [i \in 1 .. 4 |-> Q(i - 1)])
InstructionInputBind(s, r) ==
    [s EXCEPT !.gruen = BindEq(@, r), !.native = FALSE,
              !.tables = [c \in 1 .. 6 |-> BindLow(@[c], r)]]
InstructionInputOutputs(s) == [c \in 1 .. 6 |-> s.tables[c][1]] \o <<s.gruen.scalar>>

InstructionInputTables(j) ==
    [c \in 1 .. 6 |-> Column(j.witness, OperandColumns[c])] \o <<EqTable(j.r_cycle)>>
InstructionInputExpression(j, v) ==
    v[7] * ((v[3] * v[4] + v[5] * v[6] + j.gamma * v[1] * v[2]) % P)
InstructionInputInput(j) ==
    OpenedAt(Column(j.witness, "right_input"), j.r_cycle)
        + j.gamma * OpenedAt(Column(j.witness, "left_input"), j.r_cycle)
=============================================================================
