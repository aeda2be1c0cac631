----------------------------- MODULE ReadRafKernels -----------------------------
(***************************************************************************)
(* The kernels over one-hot columns.  Those over all committed columns     *)
(* (jolt-kernels, booleanity.rs, instruction_ra_virtualization.rs):        *)
(* booleanity folds the cycles away first and sums over addresses; a       *)
(* second kernel, at the address drawn there, sums over the cycles.        *)
(*                                                                         *)
(* Then the two over an address too long for a table                       *)
(* (jolt-kernels, instruction_read_raf.rs, bytecode_read_raf.rs): what is  *)
(* read is summed per cycle, not per address.  The address of an           *)
(* instruction lookup is bound first to last in phases of a few variables, *)
(* that of a bytecode row last to first; the cycles follow.                *)
(***************************************************************************)
EXTENDS SpartanKernels

CONSTANTS XLEN, ChunkLen    \* bits of a word; address variables bound per phase

W == INSTANCE LookupTables

LazyFinals(lazy) == [i \in DOMAIN lazy.tables |-> LazyValue(lazy, i, 0)]
InversePower(j, n) == Inverse_(Power(j, n))

-----------------------------------------------------------------------------
(* Booleanity.                                                             *)

\* Only one address of a column is hot, so that squares bind by themselves.
BooleanityAddressNew(j) ==
    LET k == 2^j.bits
        masses == [i \in DOMAIN j.columns |->
                    PushForward(j.columns[i], EqEvals(j.r_cycle, 1), k)]
    IN  [phase |-> "address", linear |-> masses, squared |-> masses,
         weights |-> [i \in DOMAIN j.columns |-> Power(j, 2 * i - 2)],
         eq |-> EqEvals(j.r_bool, 1), challenges |-> <<>>]
BindSquaresLinearly(t, r) == BindLow(t, r)      \* slip: squares bound as values
BindSquares(t, r) ==
    [y \in 1 .. Half(t) |-> ((1 - r) * (1 - r) * t[2 * y - 1] + ((r * r) % P) * t[2 * y]) % P]
BooleanityAddressMessage(s) ==
    LET SquaredAt(i, y, x) == (1 - x) * (1 - x) * s.squared[i][2 * y - 1] + x * x * s.squared[i][2 * y]
        At(x) == Total([y \in PairRows(s.eq) |-> Row(s.eq, y, x) *
                    Total([i \in DOMAIN s.weights |->
                        s.weights[i] * ((SquaredAt(i, y, x) - Row(s.linear[i], y, x)) % P)])])
    IN  [x \in 1 .. 4 |-> At(x - 1)]
BooleanityAddressBind(s, r) ==
    [s EXCEPT !.linear = [i \in DOMAIN @ |-> BindLow(@[i], r)],
              !.squared = [i \in DOMAIN @ |-> BindSquares(@[i], r)],
              !.eq = BindLow(@, r), !.challenges = Append(@, r)]
\* What is left for the second kernel.
BooleanityIntermediate(s) ==
    (s.eq[1] * Total([i \in DOMAIN s.weights |-> s.weights[i] * (s.squared[i][1] - s.linear[i][1])])) % P

BooleanityCycleNew(j, r_address, intermediate) ==
    LET eq == EqEvals(r_address, 1)
    IN  [phase |-> "cycle", intermediate |-> intermediate,
         gruen |-> Scaled(j.r_cycle, EqMle(r_address, j.r_bool)),
         powers |-> [i \in DOMAIN j.columns |-> Power(j, i - 1)],
         inverses |-> [i \in DOMAIN j.columns |-> InversePower(j, i - 1)],
         ra |-> LazyNew([i \in DOMAIN j.columns |-> Scale(Power(j, i - 1), eq)], j.columns)]
BooleanityCycleMessage(s, claim) ==
    LET h(i, y, x) == LazyRow(s.ra, i, y, x)
        n == 1 .. Cardinality(Rows(s.gruen))
        constant == Total([y \in n |-> Weight(s.gruen, y - 1) * Total([i \in DOMAIN s.powers |->
                        h(i, y, 0) * (h(i, y, 0) - s.powers[i])])])
        leading == Total([y \in n |-> Weight(s.gruen, y - 1) * Total([i \in DOMAIN s.powers |->
                        (h(i, y, 1) - h(i, y, 0)) * (h(i, y, 1) - h(i, y, 0))])])
    IN  GruenPolyDeg3(s.gruen, constant, leading, claim)
BooleanityCycleOutputs(s) ==
    [i \in DOMAIN s.powers |-> (LazyFinals(s.ra)[i] * s.inverses[i]) % P] \o <<s.gruen.scalar>>

\* The two phases in a row: the second starts at the reversed challenges.
BooleanityNew(j) == [job |-> j, kernel |-> BooleanityAddressNew(j)]
BooleanityMessage(s, claim) ==
    IF s.kernel.phase = "address" THEN BooleanityAddressMessage(s.kernel)
    ELSE BooleanityCycleMessage(s.kernel, claim)
BooleanityBind(s, r) ==
    LET bound == BooleanityAddressBind(s.kernel, r)
    IN  IF s.kernel.phase = "cycle"
        THEN [s EXCEPT !.kernel.gruen = BindEq(@, r), !.kernel.ra = LazyBind(@, r)]
        ELSE IF Len(bound.eq) > 1 THEN [s EXCEPT !.kernel = bound]
        ELSE [s EXCEPT !.kernel = BooleanityCycleNew(s.job, Reverse(bound.challenges),
                                                     BooleanityIntermediate(bound))]
BooleanityOutputs(s) == BooleanityCycleOutputs(s.kernel)

\* The reference: over cycles and addresses, the addresses bound first.
BooleanityTables(j) ==
    LET k == 2^j.bits
        Hot(c) == [i \in 1 .. k * Len(j.columns[c]) |->
                    Indicator(j.columns[c][(i - 1) \div k + 1] = (i - 1) % k)]
    IN  [c \in DOMAIN j.columns |-> Hot(c)] \o <<EqTable(j.r_cycle \o j.r_bool)>>
BooleanityExpression(j, v) ==
    v[Len(v)] * Total([i \in 1 .. Len(v) - 1 |-> Power(j, 2 * i - 2) * (v[i] * v[i] - v[i])])

-----------------------------------------------------------------------------
(* The virtual columns of the instruction lookups as products of committed *)
(* ones, their weights folded in the first factor's table.                 *)

\* Per virtual column a product of some of the chunks.
Chunks_(j) == Points!Chunks(j.r_index, j.bits)
Virtuals(j) == 1 .. Len(Chunks_(j)) \div j.per_virtual
RaProductNew(j) ==
    LET weight(i) == IF (i - 1) % j.per_virtual = 0 THEN Power(j, (i - 1) \div j.per_virtual) ELSE 1
    IN  [gruen |-> NewEq(j.r_cycle), per |-> j.per_virtual,
         inverses |-> [i \in DOMAIN Chunks_(j) |-> Inverse_(weight(i))],
         ra |-> LazyNew([i \in DOMAIN Chunks_(j) |-> Scale(weight(i), EqEvals(Chunks_(j)[i], 1))],
                        [i \in DOMAIN Chunks_(j) |-> [t \in DOMAIN j.indices |->
                            Chunk(j.indices[t], i, Len(Chunks_(j)), j.bits)]])]
\* A product of n factors at 1 .. n - 1, and its leading coefficient.
ProductGrid(lazy, first, n, y) ==
    LET lo(i) == LazyValue(lazy, first + i, 2 * y - 2)
        hi(i) == LazyValue(lazy, first + i, 2 * y - 1)
    IN  [x \in 1 .. n |->
            IF x = n THEN Product([i \in 1 .. n |-> (hi(i) - lo(i)) % P])
            ELSE Product([i \in 1 .. n |-> (hi(i) + (x - 1) * (hi(i) - lo(i))) % P])]
GruenPolyFromEvals(e, q_evals, claim) ==
    LET q == FromEvalsToom(<<GruenFromEvals(e, q_evals, claim)>> \o q_evals)
    IN  ValuesOf(TimesLinear(q, LinearAt(e, 0), LinearAt(e, 1)), Len(q_evals) + 2)
RaProductMessage(s, claim) ==
    LET n == s.per
        rows == 1 .. Cardinality(Rows(s.gruen))
        virtuals == 1 .. Len(s.inverses) \div n
        Lane(x) == Total([y \in rows |-> Weight(s.gruen, y - 1) * Total([v \in virtuals |->
                        ProductGrid(s.ra, (v - 1) * n, n, y)[x]])])
        Sum_(x) == Total([y \in rows |-> Weight(s.gruen, y - 1) * Total([v \in virtuals |->
                        LazyRow(s.ra, v, y, x)])])
    IN  IF n < 2 THEN CheckedRoundPoly(s.gruen, <<Sum_(0), Sum_(1), Sum_(2)>>)
        ELSE GruenPolyFromEvals(s.gruen, [x \in 1 .. n |-> Lane(x)], claim)
RaProductBind(s, r) == [s EXCEPT !.gruen = BindEq(@, r), !.ra = LazyBind(@, r)]
RaProductOutputs(s) ==
    [i \in DOMAIN s.inverses |-> (LazyFinals(s.ra)[i] * s.inverses[i]) % P] \o <<s.gruen.scalar>>

RaProductTables(j) ==
    [c \in DOMAIN Chunks_(j) |-> [t \in DOMAIN j.indices |->
        EqTable(Chunks_(j)[c])[Chunk(j.indices[t], c, Len(Chunks_(j)), j.bits) + 1]]]
        \o <<EqTable(j.r_cycle)>>
RaProductExpression(j, v) ==
    v[Len(v)] * Total([i \in Virtuals(j) |->
        Power(j, i - 1) * Product([k \in 1 .. j.per_virtual |-> v[(i - 1) * j.per_virtual + k]])])
RaProductInput(j) ==
    LET part(i) == SubSeq(j.r_index, (i - 1) * j.per_virtual * j.bits + 1, i * j.per_virtual * j.bits)
        total == Len(Chunks_(j)) \div j.per_virtual
        At(i, t) == EqEvals(part(i), 1)[Chunk(j.indices[t], i, total, j.per_virtual * j.bits) + 1]
    IN  Total([i \in Virtuals(j) |->
            Power(j, i - 1) * OpenedAt([t \in DOMAIN j.indices |-> At(i, t)], j.r_cycle)])
RaProductDegree(j) == j.per_virtual + 1

-----------------------------------------------------------------------------
(* The lookups of instructions and the rows of bytecode. *)
-----------------------------------------------------------------------------
(* Instruction lookups: a row has an index, a table or none, and whether   *)
(* the index is the operand itself (raf) or two operands interleaved.      *)

NoTable == "None"
Cycles_(j) == DOMAIN j.lookups
Present(j) == {t \in DOMAIN j.tables : \E c \in Cycles_(j) : j.lookups[c].table = j.tables[t]}
PresentPrefixes(j) == UNION {W!TablePrefixes(j.tables[t]) : t \in Present(j)}
Phases == (2 * XLEN) \div ChunkLen
Below(phase) == 2 * XLEN - phase * ChunkLen
PhaseChunk(index, phase) == Chunk(index, phase, Phases, ChunkLen)
RestOf(index, phase) == W!BitsOf(index % 2^Below(phase), Below(phase))

\* prefix * shift + value, the prefix of the phases so far in the checkpoint.
EmptyRaf == [prefix |-> <<0>>, shift |-> <<0>>, value |-> <<0>>, checkpoint |-> 0]
BindRaf(d, r) ==
    [d EXCEPT !.prefix = BindHigh(@, r), !.shift = BindHigh(@, r), !.value = BindHigh(@, r)]
HighRow(t, b, x) == Lerp(t[b], t[b + Half(t)], x)
RafAt(d, b, x) == HighRow(d.prefix, b, x) * HighRow(d.shift, b, x) + HighRow(d.value, b, x)

\* Sums over the cycles by the phase's chunk of their index.
Mass(j, phase, weights) ==
    PushForward([c \in Cycles_(j) |-> PhaseChunk(j.lookups[c].index, phase)], weights, 2^ChunkLen)
RafPrefix(checkpoint, bits, OfChunk(_)) ==
    [x \in 1 .. 2^ChunkLen |-> (checkpoint * 2^bits + OfChunk(W!BitsOf(x - 1, ChunkLen))) % P]
SuffixTables(j, phase, u) ==
    [t \in Present(j) |-> [s \in W!TableSuffixes(j.tables[t]) |->
        Mass(j, phase, [c \in Cycles_(j) |->
            IF j.lookups[c].table = j.tables[t]
            THEN (u[c] * W!Suffix(s, RestOf(j.lookups[c].index, phase))) % P ELSE 0])]]
PrefixTables(s, phase) ==
    [p \in PresentPrefixes(s.job) |-> W!PrefixTable(p, s.checkpoints, Below(phase))]
CondensedOnce(s, phase) == s.u      \* slip: the phase before is not folded in
\* The weight of a cycle takes in the eq of the phase before.
Condensed(s, phase) ==
    IF phase = 1 THEN s.u
    ELSE [c \in Cycles_(s.job) |->
            (s.u[c] * s.v[phase - 1][PhaseChunk(s.job.lookups[c].index, phase - 1) + 1]) % P]
PhaseAt(s, phase, u) ==
    LET j == s.job
        Of(raf, Value(_)) == Mass(j, phase, [c \in Cycles_(j) |->
            IF j.lookups[c].raf = raf THEN (u[c] * Value(RestOf(j.lookups[c].index, phase))) % P ELSE 0])
        LeftOf(b) == W!Word(W!Left(b))
        RightOf(b) == W!Word(W!Right(b))
        Half_(b) == 2^(Below(phase) \div 2)
        Full(b) == 2^Below(phase)
        Decomposed(d, bits, raf, Shift(_), Value(_)) ==
            [prefix |-> RafPrefix(d.checkpoint, bits, Value), shift |-> Of(raf, Shift),
             value |-> Of(raf, Value), checkpoint |-> d.checkpoint]
    IN  [s EXCEPT !.u = u, !.point = <<>>,
                  !.left = Decomposed(@, ChunkLen \div 2, FALSE, Half_, LeftOf),
                  !.right = Decomposed(@, ChunkLen \div 2, FALSE, Half_, RightOf),
                  !.identity = Decomposed(@, ChunkLen, TRUE, Full, W!Word),
                  !.suffixes = SuffixTables(j, phase, u),
                  !.prefixes = PrefixTables(s, phase)]
InitPhase(s, phase) == PhaseAt(s, phase, Condensed(s, phase))

ReadRafNew(j) ==
    InitPhase([job |-> j, bound |-> 0, u |-> EqEvals(j.r_cycle, 1), v |-> <<>>, point |-> <<>>,
               checkpoints |-> W!DefaultCheckpoints, prefixes |-> <<>>, suffixes |-> <<>>,
               left |-> EmptyRaf, right |-> EmptyRaf, identity |-> EmptyRaf, cycle |-> <<>>], 1)

ReadRafAddressMessage(s, claim) ==
    LET j == s.job
        Read(b, x) ==
            LET p == [f \in PresentPrefixes(j) |-> HighRow(s.prefixes[f], b, x)]
                Of(t) == W!Combine(j.tables[t], p,
                            [f \in W!TableSuffixes(j.tables[t]) |-> HighRow(s.suffixes[t][f], b, x)])
            IN  SumOver(Present(j), Of)
        At(x) == Total([b \in 1 .. Half(s.left.prefix) |->
                    Read(b, x) + j.gamma * RafAt(s.left, b, x)
                        + Power(j, 2) * (RafAt(s.right, b, x) + RafAt(s.identity, b, x))])
    IN  FromSkippedEvals(<<At(0), At(2)>>, claim)

\* The tables over the cycles are written out by the first bind only: until
\* then their entries are computed from the rows.
StartCycles(s) ==
    LET Ending(t) == W!Combine(t, s.checkpoints, [f \in W!TableSuffixes(t) |-> W!Suffix(f, <<>>)]) % P
    IN  [s EXCEPT !.u = <<>>, !.prefixes = <<>>, !.suffixes = <<>>,
            !.cycle = [gruen |-> NewEq(s.job.r_cycle), dense |-> <<>>, challenges |-> <<>>,
                       table_values |-> [t \in DOMAIN s.job.tables |-> Ending(s.job.tables[t])],
                       interleaved |-> s.job.gamma * s.left.checkpoint
                                        + Power(s.job, 2) * s.right.checkpoint,
                       identity |-> Power(s.job, 2) * s.identity.checkpoint]]
PendingValueBare(s, c) ==       \* slip: a row without a table has no operands either
    LET row == s.job.lookups[c]
        table == CHOOSE t \in DOMAIN s.job.tables : s.job.tables[t] = row.table
    IN  IF row.table = NoTable THEN 0
        ELSE (s.cycle.table_values[table]
                + IF row.raf THEN s.cycle.identity ELSE s.cycle.interleaved) % P
PendingValue(s, c) ==
    LET row == s.job.lookups[c]
        table == CHOOSE t \in DOMAIN s.job.tables : s.job.tables[t] = row.table
    IN  ((IF row.table = NoTable THEN 0 ELSE s.cycle.table_values[table])
            + IF row.raf THEN s.cycle.identity ELSE s.cycle.interleaved) % P
PhasesPerRa(j) == Phases \div j.ra_count
PendingRa(s, i, c) ==
    LET first == (i - 1) * PhasesPerRa(s.job)
    IN  Product([k \in 1 .. PhasesPerRa(s.job) |->
            s.v[first + k][PhaseChunk(s.job.lookups[c].index, first + k) + 1]])
\* The values and the ra's, as factors of one product.
Factor(s, i, c) ==
    IF s.cycle.dense # <<>> THEN s.cycle.dense[i][c]
    ELSE IF i = 1 THEN PendingValue(s, c) ELSE PendingRa(s, i - 1, c)
ReadRafCycleMessage(s, claim) ==
    LET n == s.job.ra_count + 1
        lo(i, y) == Factor(s, i, 2 * y - 1)
        hi(i, y) == Factor(s, i, 2 * y)
        Term_(x, y) == IF x = n THEN Product([i \in 1 .. n |-> (hi(i, y) - lo(i, y)) % P])
                       ELSE Product([i \in 1 .. n |-> Lerp(lo(i, y), hi(i, y), x)])
        q == [x \in 1 .. n |-> Total([y \in 1 .. Cardinality(Rows(s.cycle.gruen)) |->
                Weight(s.cycle.gruen, y - 1) * Term_(x, y)])]
    IN  GruenPolyFromEvals(s.cycle.gruen, q, claim)
ReadRafMessage(s, claim) ==
    IF s.bound < 2 * XLEN THEN ReadRafAddressMessage(s, claim) ELSE ReadRafCycleMessage(s, claim)

\* The last bind of a phase leaves every prefix's checkpoint.
EndPhase(s) ==
    [s EXCEPT !.v = Append(@, EqEvals(s.point, 1)),
              !.checkpoints = [p \in DOMAIN @ |-> IF p \in PresentPrefixes(s.job)
                                                  THEN s.prefixes[p][1] ELSE @[p]],
              !.left.checkpoint = s.left.prefix[1], !.right.checkpoint = s.right.prefix[1],
              !.identity.checkpoint = s.identity.prefix[1]]
BindAddressVariable(s, r) ==
    [s EXCEPT !.bound = @ + 1, !.point = Append(@, r),
              !.prefixes = [p \in DOMAIN @ |-> BindHigh(@[p], r)],
              !.suffixes = [t \in DOMAIN @ |-> [f \in DOMAIN @[t] |-> BindHigh(@[t][f], r)]],
              !.left = BindRaf(@, r), !.right = BindRaf(@, r), !.identity = BindRaf(@, r)]
BindCycle(s, r) ==
    [s EXCEPT !.bound = @ + 1, !.cycle.gruen = BindEq(@, r), !.cycle.challenges = Append(@, r),
        !.cycle.dense =
            IF @ # <<>> THEN [i \in DOMAIN @ |-> BindLow(@[i], r)]
            ELSE [i \in 1 .. s.job.ra_count + 1 |-> [y \in 1 .. Len(s.job.lookups) \div 2 |->
                    Lerp(Factor(s, i, 2 * y - 1), Factor(s, i, 2 * y), r)]]]
ReadRafBind(s, r) ==
    IF s.bound >= 2 * XLEN THEN BindCycle(s, r)
    ELSE LET one == BindAddressVariable(s, r)
         IN  IF Len(one.point) < ChunkLen THEN one
             ELSE IF one.bound < 2 * XLEN THEN InitPhase(EndPhase(one), one.bound \div ChunkLen + 1)
             ELSE StartCycles(EndPhase(one))
ReadRafOutputs(s) ==
    LET e == EqEvals(Reverse(s.cycle.challenges), 1)
        Eq_(c) == e[c]
        rows == s.job.lookups
    IN  [t \in DOMAIN s.job.tables |->
            SumOver({c \in DOMAIN rows : rows[c].table = s.job.tables[t]}, Eq_)]
            \o [i \in 1 .. s.job.ra_count |-> s.cycle.dense[i + 1][1]]
            \o <<SumOver({c \in DOMAIN rows : rows[c].raf}, Eq_), s.cycle.gruen.scalar>>

\* The reference: over cycles and addresses, the addresses bound first, from
\* their first variable.
ReadRafTables(j) ==
    LET n == 2 * XLEN
        width == n \div j.ra_count
        eq == EqTable(j.r_cycle)
        bits == Strict([a \in 1 .. 2^n |-> Reverse(W!BitsOf(a - 1, n))])
        Whole(F(_, _)) == [i \in 1 .. 2^n * Len(j.lookups) |->
                            F(bits[((i - 1) % 2^n) + 1], (i - 1) \div 2^n + 1)]
        OverAddress(F(_)) == LET once == Strict([a \in 1 .. 2^n |-> F(bits[a])])
                             IN  [i \in 1 .. 2^n * Len(j.lookups) |-> once[((i - 1) % 2^n) + 1]]
        Flag(t) == LET At(b, c) == Indicator(j.lookups[c].table = j.tables[t]) IN Whole(At)
        Part(b, i) == SubSeq(b, (i - 1) * width + 1, i * width)
        Ra_(i) == LET At(b, c) == Indicator(Part(b, i) = Part(W!BitsOf(j.lookups[c].index, n), i))
                  IN  Whole(At)
        Raf_(b, c) == Indicator(j.lookups[c].raf)
        EqCycle(b, c) == eq[c]
        Entries(t) == LET At(b) == W!Mle(j.tables[t], b) IN OverAddress(At)
        LeftOf(b) == W!Word(W!Left(b))
        RightOf(b) == W!Word(W!Right(b))
    IN  [t \in DOMAIN j.tables |-> Flag(t)] \o [i \in 1 .. j.ra_count |-> Ra_(i)]
            \o <<Whole(Raf_), Whole(EqCycle)>> \o [t \in DOMAIN j.tables |-> Entries(t)]
            \o <<OverAddress(LeftOf), OverAddress(RightOf), OverAddress(W!Word)>>
ReadRafExpression(j, v) ==
    LET tables == Len(j.tables)
        raf == v[tables + j.ra_count + 1]
        entries == tables + j.ra_count + 2
        left == v[Len(v) - 2]
        right == v[Len(v) - 1]
    IN  v[entries] * Product([c \in 1 .. j.ra_count |-> v[tables + c]])
            * ((Total([t \in 1 .. tables |-> v[t] * v[entries + t]])
                + j.gamma * left + Power(j, 2) * right
                + raf * (Power(j, 2) * v[Len(v)] - j.gamma * left - Power(j, 2) * right)) % P)
ReadRafInput(j) ==
    LET n == 2 * XLEN
        Bits(c) == W!BitsOf(j.lookups[c].index, n)
        Out(row, c) == IF row.table = NoTable THEN 0 ELSE W!Entry(row.table, Bits(c))
        LeftOf(row, c) == IF row.raf THEN 0 ELSE W!Word(W!Left(Bits(c)))
        RightOf(row, c) == IF row.raf THEN row.index ELSE W!Word(W!Right(Bits(c)))
        Column_(F(_, _)) == OpenedAt([c \in Cycles_(j) |-> F(j.lookups[c], c)], j.r_cycle)
    IN  Column_(Out) + j.gamma * Column_(LeftOf) + Power(j, 2) * Column_(RightOf)
ReadRafDegree(j) == j.ra_count + 2

-----------------------------------------------------------------------------
(* Bytecode reads.  The fields of a row were opened in five stages, at a   *)
(* cycle point each; the registers at a register point besides.            *)

StageFlags == U!Flags
RegisterEq(k, eq) == IF k = NoAccess THEN 0 ELSE eq[k + 1]
StagePower(j, s, n) == Product([i \in 1 .. n |-> j.stage_gammas[s]])
FlagSum(j, s, flags, Value(_)) ==
    Total([i \in DOMAIN flags |-> StagePower(j, s, i) * Value(flags[i])])
\* What a row contributes to each stage.
StageValues(j, row) ==
    LET Has(f) == Indicator(f \in row.flags)
        rw == EqEvals(j.r_rw, 1)
        val == EqEvals(j.r_val, 1)
        Selected(i) == Indicator(row.table = j.tables[i])
    IN  <<(row.imm + FlagSum(j, 1, StageFlags, Has)) % P,
          Has("Branch"),
          (row.imm + FlagSum(j, 3, <<"LeftIsRs1", "RightIsRs2", "RightIsImm">>, Has)) % P,
          (RegisterEq(row.rd, rw) + StagePower(j, 4, 1) * RegisterEq(row.rs1, rw)
            + StagePower(j, 4, 2) * RegisterEq(row.rs2, rw)) % P,
          (RegisterEq(row.rd, val) + StagePower(j, 5, 1) * Indicator(row.raf)
            + Total([i \in DOMAIN j.tables |-> StagePower(j, 5, i + 1) * Selected(i)])) % P>>
StageTables(j) ==
    [s \in 1 .. 5 |-> [k \in DOMAIN j.bytecode |-> StageValues(j, j.bytecode[k])[s]]]

\* The cycles by their row, the eq of a point in two halves.
StagePushForward(j, point) ==
    LET n == Len(point)
        hi == EqEvals(SubSeq(point, 1, n - n \div 2), 1)
        lo == EqEvals(SubSeq(point, n - n \div 2 + 1, n), 1)
        Inner(h, k) == LET In(l) == lo[l]
                       IN  SumOver({l \in DOMAIN lo : j.pcs[(h - 1) * Len(lo) + l] = k}, In)
    IN  [k \in DOMAIN j.bytecode |-> Total([h \in DOMAIN hi |-> hi[h] * Inner(h, k - 1)])]
OneHot(n, index) == [k \in 1 .. n |-> Indicator(k - 1 = index)]
BytecodeAddressNew(j) ==
    LET n == Len(j.bytecode)
    IN  [phase |-> "address", challenges |-> <<>>,
         f |-> [s \in 1 .. 5 |-> StagePushForward(j, j.stage_points[s])],
         values |-> StageTables(j),
         int |-> [k \in 1 .. n |-> k - 1], trace |-> OneHot(n, j.pcs[1]), expected |-> OneHot(n, j.entry)]
RafWeight(j, s) == CASE s = 1 -> Power(j, 5) [] s = 3 -> Power(j, 4) [] OTHER -> 0
AddressTerm(j, f, values, int, trace, expected) ==
    Total([s \in 1 .. 5 |-> Power(j, s - 1) * f[s] * ((values[s] + RafWeight(j, s) * int) % P)])
        + Power(j, 7) * trace * expected
BytecodeAddressMessage(j, s, claim) ==
    LET Rows_At(ts, y, x) == [i \in DOMAIN ts |-> Row(ts[i], y, x)]
        At(x) == Total([y \in PairRows(s.int) |->
                    AddressTerm(j, Rows_At(s.f, y, x), Rows_At(s.values, y, x), Row(s.int, y, x),
                                Row(s.trace, y, x), Row(s.expected, y, x))])
    IN  FromSkippedEvals(<<At(0), At(2)>>, claim)
BytecodeAddressBind(s, r) ==
    [s EXCEPT !.f = [i \in DOMAIN @ |-> BindLow(@[i], r)],
              !.values = [i \in DOMAIN @ |-> BindLow(@[i], r)], !.int = BindLow(@, r),
              !.trace = BindLow(@, r), !.expected = BindLow(@, r), !.challenges = Append(@, r)]
\* What is left for the cycles, and what the stages' values come to.
BytecodeIntermediate(j, s) ==
    AddressTerm(j, [i \in 1 .. 5 |-> s.f[i][1]], [i \in 1 .. 5 |-> s.values[i][1]], s.int[1],
                s.trace[1], s.expected[1]) % P

PcChunks(j) == Points!Chunks([i \in 1 .. Log(j.bytecode) |-> 0], j.bits)
\* Every factor but the ra's is linear in one table over the cycles.
CombinedAllCycles(j, r_address, values) ==   \* slip: the entry is asked of every cycle
    LET int == Total([i \in DOMAIN r_address |-> MulPow2(r_address[i], Len(r_address) - i)])
        weight(s) == Power(j, s - 1) * values[s]
                        + IF s = 1 THEN Power(j, 5) * int ELSE IF s = 3 THEN Power(j, 6) * int ELSE 0
        entry == (Power(j, 7) * EqEvals(r_address, 1)[j.entry + 1]) % P
    IN  [t \in DOMAIN j.pcs |->
            (Total([s \in 1 .. 5 |-> EqEvals(j.stage_points[s], weight(s) % P)[t]]) + entry) % P]
Combined(j, r_address, values) ==
    LET int == Total([i \in DOMAIN r_address |-> MulPow2(r_address[i], Len(r_address) - i)])
        weight(s) == Power(j, s - 1) * values[s]
                        + IF s = 1 THEN Power(j, 5) * int ELSE IF s = 3 THEN Power(j, 6) * int ELSE 0
        entry == (Power(j, 7) * EqEvals(r_address, 1)[j.entry + 1]) % P
    IN  [t \in DOMAIN j.pcs |->
            (Total([s \in 1 .. 5 |-> EqEvals(j.stage_points[s], weight(s) % P)[t]])
                + IF t = 1 THEN entry ELSE 0) % P]
BytecodeCycleNew(j, r_address, values, intermediate) ==
    LET chunks == Points!Chunks(r_address, j.bits)
    IN  [phase |-> "cycle", intermediate |-> intermediate, combined |-> Combined(j, r_address, values),
         ra |-> LazyNew([i \in DOMAIN chunks |-> EqEvals(chunks[i], 1)],
                        [i \in DOMAIN chunks |-> [t \in DOMAIN j.pcs |->
                            Chunk(j.pcs[t], i, Len(chunks), j.bits)]])]
BytecodeCycleMessage(s, claim) ==
    LET n == DOMAIN s.ra.tables
        At(x) == Total([y \in PairRows(s.combined) |->
                    Row(s.combined, y, x) * Product([i \in n |-> LazyRow(s.ra, i, y, x)])])
    IN  FromSkippedEvals([k \in 1 .. Len(s.ra.tables) + 1 |-> At(IF k = 1 THEN 0 ELSE k)], claim)

BytecodeNew(j) == [job |-> j, kernel |-> BytecodeAddressNew(j)]
BytecodeMessage(s, claim) ==
    IF s.kernel.phase = "address" THEN BytecodeAddressMessage(s.job, s.kernel, claim)
    ELSE BytecodeCycleMessage(s.kernel, claim)
BytecodeBind(s, r) ==
    LET bound == BytecodeAddressBind(s.kernel, r)
    IN  IF s.kernel.phase = "cycle"
        THEN [s EXCEPT !.kernel.combined = BindLow(@, r), !.kernel.ra = LazyBind(@, r)]
        ELSE IF Len(bound.int) > 1 THEN [s EXCEPT !.kernel = bound]
        ELSE [s EXCEPT !.kernel = BytecodeCycleNew(s.job, Reverse(bound.challenges),
                [i \in 1 .. 5 |-> bound.values[i][1]], BytecodeIntermediate(s.job, bound))]
BytecodeOutputs(s) == LazyFinals(s.kernel.ra)

\* The reference: over cycles and addresses, the addresses bound first.
BytecodeTables(j) ==
    LET n == Len(j.bytecode)
        Joint_(F(_, _)) == [i \in 1 .. n * Len(j.pcs) |-> F((i - 1) % n, (i - 1) \div n + 1)]
        parts == Len(PcChunks(j))
        Ra_(c) == LET At(k, t) == Indicator(Chunk(k, c, parts, j.bits) = Chunk(j.pcs[t], c, parts, j.bits))
                  IN  Joint_(At)
        Val(s) == LET At(k, t) == StageTables(j)[s][k + 1] IN Joint_(At)
        Stage(s) == LET At(k, t) == EqTable(j.stage_points[s])[t] IN Joint_(At)
        Index(k, t) == k
        EntryCycle(k, t) == Indicator(t = 1)
        EntryRow(k, t) == Indicator(k = j.entry)
    IN  [c \in 1 .. parts |-> Ra_(c)] \o [s \in 1 .. 5 |-> Val(s)] \o [s \in 1 .. 5 |-> Stage(s)]
            \o <<Joint_(Index), Joint_(EntryCycle), Joint_(EntryRow)>>
BytecodeExpression(j, v) ==
    LET ra == Len(v) - 13
        int == v[ra + 11]
    IN  Product([c \in 1 .. ra |-> v[c]])
            * ((Total([s \in 1 .. 5 |-> Power(j, s - 1) * v[ra + 5 + s] * v[ra + s]])
                + Power(j, 5) * int * v[ra + 6] + Power(j, 6) * int * v[ra + 8]
                + Power(j, 7) * v[ra + 12] * v[ra + 13]) % P)
\* The openings of the five stages, of the fields of the rows run.
BytecodeInput(j) ==
    LET At(s, F(_)) == OpenedAt([t \in DOMAIN j.pcs |-> F(j.bytecode[j.pcs[t] + 1])], j.stage_points[s])
        Imm(row) == row.imm
        FlagAt(s, f) == LET Has(row) == Indicator(f \in row.flags) IN At(s, Has)
        Folded(s, flags) == LET Open(f) == FlagAt(s, f) IN FlagSum(j, s, flags, Open)
        RegisterAt(s, f, point) ==
            LET eq == EqEvals(point, 1)  Of(row) == RegisterEq(row[f], eq) IN At(s, Of)
        RafOf(row) == Indicator(row.raf)
        TableAt(i) == LET Of(row) == Indicator(row.table = j.tables[i]) IN At(5, Of)
        Pc(s) == OpenedAt(j.pcs, j.stage_points[s])
    IN  Power(j, 7) + At(1, Imm) + Folded(1, StageFlags) + Power(j, 1) * FlagAt(2, "Branch")
            + Power(j, 2) * (At(3, Imm) + Folded(3, <<"LeftIsRs1", "RightIsRs2", "RightIsImm">>))
            + Power(j, 3) * (RegisterAt(4, "rd", j.r_rw) + StagePower(j, 4, 1) * RegisterAt(4, "rs1", j.r_rw)
                                + StagePower(j, 4, 2) * RegisterAt(4, "rs2", j.r_rw))
            + Power(j, 4) * (RegisterAt(5, "rd", j.r_val) + StagePower(j, 5, 1) * At(5, RafOf)
                                + Total([i \in DOMAIN j.tables |-> StagePower(j, 5, i + 1) * TableAt(i)]))
            + Power(j, 5) * Pc(1) + Power(j, 6) * Pc(3)
BytecodeDegree(j) == Len(PcChunks(j)) + 1
=============================================================================
