----------------------------- MODULE CycleKernels -----------------------------
(***************************************************************************)
(* The kernels that sum over the cycles of a trace, or over the addresses  *)
(* after the cycles were folded away, without the cycles x addresses table *)
(* their relation is stated on (jolt-kernels, lazy_ra.rs, ram_*.rs,        *)
(* registers_val_evaluation.rs, registers_claim_reduction.rs,              *)
(* inc_claim_reduction.rs, instruction_claim_reduction.rs,                 *)
(* hamming_weight_claim_reduction.rs).                                     *)
(***************************************************************************)
EXTENDS SparseKernels

CONSTANT LazyWidth  \* branches up to which one-hot columns stay unmaterialized

Points == INSTANCE OpeningPoints WITH Zero <- 0

\* A table between rows 2y and 2y + 1.
Row(t, y, x) == Lerp(t[2 * y - 1], t[2 * y], x)
PairRows(t) == 1 .. Half(t)
Field1(rows, f) == [t \in DOMAIN rows |-> rows[t][f]]

\* A degree-2 or degree-3 polynomial from all its values but the one at 1.
FromSkippedEvals(evals, claim) == <<evals[1], (claim - evals[1]) % P>> \o Tail(evals)

-----------------------------------------------------------------------------
(* One-hot columns folded with an eq table, looked up per cycle: binding   *)
(* doubles the tables, until the columns are materialized.                 *)

LazyNew(tables, index) == [tables |-> tables, width |-> 1, index |-> index, dense |-> <<>>]
DoubleBranches(table, r) ==
    [k \in 1 .. 2 * Len(table) |->
        IF k <= Len(table) THEN ((1 - r) * table[k]) % P ELSE (r * table[k - Len(table)]) % P]
\* Entry j of column i: the sum over the cycles that were folded into it.
Gather(table, width, index, j) ==
    LET stride == Len(table) \div width
        Term(o) == IF index[j * width + o + 1] = NoAccess THEN 0
                   ELSE table[o * stride + index[j * width + o + 1] + 1]
    IN  SumOver(0 .. width - 1, Term)
LazyValue(s, i, j) ==
    IF s.dense # <<>> THEN s.dense[i][j + 1] ELSE Gather(s.tables[i], s.width, s.index[i], j)
LazyBind(s, r) ==
    LET tables == [i \in DOMAIN s.tables |-> DoubleBranches(s.tables[i], r)]
        width == 2 * s.width
    IN  IF s.dense # <<>> THEN [s EXCEPT !.dense = [i \in DOMAIN @ |-> BindLow(@[i], r)]]
        ELSE IF s.width < LazyWidth THEN [s EXCEPT !.tables = tables, !.width = width]
        ELSE [s EXCEPT !.dense = [i \in DOMAIN tables |->
                [j \in 1 .. Len(s.index[i]) \div width |->
                    Gather(tables[i], width, s.index[i], j - 1)]]]
LazyRow(s, i, y, x) == Lerp(LazyValue(s, i, 2 * y - 2), LazyValue(s, i, 2 * y - 1), x)

Chunk(value, i, chunks, bits) ==
    IF value = NoAccess THEN NoAccess
    ELSE (value \div 2^((chunks - i) * bits)) % 2^bits
Addresses(job) == Field1(job.trace.rows, "address")

-----------------------------------------------------------------------------
(* Sums over addresses.                                                    *)

\* Read by the reference kernel: the addresses' last-seen values folded.
RafNew(job) ==
    LET k == 2^job.log_k
    IN  [ra |-> FoldCycles(job.trace, EqEvals(job.r_cycle, 1), k),
         unmap |-> [a \in 1 .. k |-> (8 * (a - 1) + job.lowest) % P]]
RafMessage(s, claim) ==
    [i \in 1 .. 3 |-> Total([y \in PairRows(s.ra) |-> Row(s.ra, y, i - 1) * Row(s.unmap, y, i - 1)])]
RafBind(s, r) == [s EXCEPT !.ra = BindLow(@, r), !.unmap = BindLow(@, r)]
RafOutputs(s) == <<s.ra[1], s.unmap[1]>>

\* The words of the public segments, later ones over earlier ones, those past
\* the table left out.
ValIo(io, k) ==
    [a \in 1 .. k |->
        LET held == {i \in DOMAIN io : a - 1 - io[i].start \in 0 .. Len(io[i].words) - 1}
            last == CHOOSE i \in held : \A j \in held : j <= i
        IN  IF held = {} THEN 0 ELSE io[last].words[a - io[last].start]]
OutputNew(job) ==
    LET k == 2^job.log_k
    IN  [gruen |-> NewEq(job.r_address), val_final |-> job.trace.ram_final,
         val_io |-> ValIo(job.io, k),
         io_mask |-> [a \in 1 .. k |-> IF a - 1 >= job.mask[1] /\ a - 1 < job.mask[2] THEN 1 ELSE 0]]
OutputMessage(s, claim) ==
    LET Q(x) == Total([y \in PairRows(s.io_mask) |->
                    Weight(s.gruen, y - 1) * Row(s.io_mask, y, x)
                        * (Row(s.val_final, y, x) - Row(s.val_io, y, x))])
    IN  CheckedRoundPoly(s.gruen, [i \in 1 .. 4 |-> Q(i - 1)])
OutputBind(s, r) ==
    [s EXCEPT !.gruen = BindEq(@, r), !.io_mask = BindLow(@, r),
              !.val_io = BindLow(@, r), !.val_final = BindLow(@, r)]
OutputOutputs(s) ==
    <<s.val_final[1], s.io_mask[1], s.val_io[1], s.gruen.scalar>>

\* Per committed column of every family, its cycles folded at the shared
\* point; its weight collects the three claims about the column.
PushForward(index, eq_cycle, k) ==
    [a \in 1 .. k |->
        LET Term(t) == eq_cycle[t]
        IN  SumOver({t \in DOMAIN index : index[t] = a - 1}, Term)]
HammingWeightNew(job) ==
    LET k == 2^job.bits
        g(n) == Product([i \in 1 .. n |-> job.gamma])
        eq_bool == EqEvals(job.r_bool, 1)
        Virtual(i) == EqEvals(job.r_virtual[i], 1)
    IN  [g |-> [i \in DOMAIN job.columns |->
                    PushForward(job.columns[i], EqEvals(job.r_cycle, 1), k)],
         weight |-> [i \in DOMAIN job.columns |->
            [a \in 1 .. k |-> (g(3 * i - 3) + g(3 * i - 2) * eq_bool[a]
                                + g(3 * i - 1) * Virtual(i)[a]) % P]]]
HammingWeightMessage(s, claim) ==
    LET At(x) == Total([i \in DOMAIN s.g |-> Total([y \in PairRows(s.g[i]) |->
                    Row(s.g[i], y, x) * Row(s.weight[i], y, x)])])
    IN  FromSkippedEvals(<<At(0), At(2)>>, claim)
HammingWeightBind(s, r) ==
    [g |-> [i \in DOMAIN s.g |-> BindLow(s.g[i], r)],
     weight |-> [i \in DOMAIN s.g |-> BindLow(s.weight[i], r)]]
HammingWeightOutputs(s) == [i \in DOMAIN s.g |-> s.g[i][1]]

-----------------------------------------------------------------------------
(* Sums over cycles.                                                       *)

TripleProduct(half, A(_, _), B(_, _), C(_, _), claim) ==
    LET At(x) == Total([y \in 1 .. half |-> A(y, x) * B(y, x) * C(y, x)])
    IN  FromSkippedEvals(<<At(0), At(2), At(3)>>, claim)
LtRow(lt, y, x) == Lerp(LtEntry(lt, 2 * y - 1), LtEntry(lt, 2 * y), x)

\* The write values of RAM: inc * wa * (lt + gamma).
ValCheckNew(job) ==
    [inc |-> RamInc(job.trace), lt |-> NewLt(job.r_cycle, job.gamma),
     ra |-> LazyNew(<<EqEvals(job.r_address, 1)>>, <<Addresses(job)>>)]
ValCheckMessage(s, claim) ==
    LET A(y, x) == Row(s.inc, y, x)
        B(y, x) == LazyRow(s.ra, 1, y, x)
        C(y, x) == LtRow(s.lt, y, x)
    IN  TripleProduct(Half(s.inc), A, B, C, claim)
ValCheckBind(s, r) ==
    [inc |-> BindLow(s.inc, r), ra |-> LazyBind(s.ra, r), lt |-> BindLtLow(s.lt, r)]
ValCheckOutputs(s) ==
    <<LazyValue(s.ra, 1, 0), s.inc[1], LtEntry(s.lt, 1)>>

\* The same of the registers, from the register each cycle writes.
ValEvaluationNew(job) ==
    LET e == EqEvals(job.r_address, 1)
    IN  [inc |-> [t \in DOMAIN job.trace.rows |->
                    LET row == job.trace.rows[t]
                    IN  IF row.rd = NoAccess THEN 0 ELSE (row.rd_post - row.rd_pre) % P],
         lt |-> NewLt(job.r_cycle, 0),
         wa |-> [t \in DOMAIN job.trace.rows |->
                    IF job.trace.rows[t].rd = NoAccess THEN 0 ELSE e[job.trace.rows[t].rd + 1]]]
ValEvaluationMessage(s, claim) ==
    LET A(y, x) == Row(s.inc, y, x)
        B(y, x) == Row(s.wa, y, x)
        C(y, x) == LtRow(s.lt, y, x)
    IN  TripleProduct(Half(s.inc), A, B, C, claim)
ValEvaluationBind(s, r) ==
    [inc |-> BindLow(s.inc, r), wa |-> BindLow(s.wa, r), lt |-> BindLtLow(s.lt, r)]
ValEvaluationOutputs(s) == <<s.wa[1], s.inc[1], LtEntry(s.lt, 1)>>

\* The product of the chunks' columns, at the chunks of the reduced address.
RaVirtualNew(job) ==
    LET chunks == Points!Chunks(job.r_address, job.bits)
    IN  [gruen |-> NewEq(job.r_cycle),
         ra |-> LazyNew([i \in DOMAIN chunks |-> EqEvals(chunks[i], 1)],
                        [i \in DOMAIN chunks |-> [t \in DOMAIN Addresses(job) |->
                            Chunk(Addresses(job)[t], i, Len(chunks), job.bits)]])]
RaVirtualMessage(s, claim) ==
    LET n == Len(s.ra.tables)
        Q(x) == Total([y \in 1 .. Cardinality(Rows(s.gruen)) |->
                    Weight(s.gruen, y - 1) * Product([i \in 1 .. n |-> LazyRow(s.ra, i, y, x)])])
    IN  CheckedRoundPoly(s.gruen, [i \in 1 .. n + 2 |-> Q(i - 1)])
RaVirtualBind(s, r) == [gruen |-> BindEq(s.gruen, r), ra |-> LazyBind(s.ra, r)]
RaVirtualOutputs(s) ==
    [i \in DOMAIN s.ra.tables |-> LazyValue(s.ra, i, 0)] \o <<s.gruen.scalar>>

\* Booleanity of the accesses; the stage-1 binding comes first variable first.
HammingNew(job) ==
    [gruen |-> NewEq(Reverse(job.r_binding)),
     h |-> [t \in Cycles(job.trace) |-> IF t \in Accesses(job.trace) THEN 1 ELSE 0]]
HammingMessage(s, claim) ==
    LET h == s.h
        constant == Total([y \in PairRows(h) |->
                        Weight(s.gruen, y - 1) * (h[2 * y - 1] * h[2 * y - 1] - h[2 * y - 1])])
        leading == Total([y \in PairRows(h) |->
                        Weight(s.gruen, y - 1) * (h[2 * y] - h[2 * y - 1]) * (h[2 * y] - h[2 * y - 1])])
    IN  GruenPolyDeg3(s.gruen, constant, leading, claim)
HammingBind(s, r) == [gruen |-> BindEq(s.gruen, r), h |-> BindLow(s.h, r)]
HammingOutputs(s) == <<s.h[1], s.gruen.scalar>>

\* Two weights, each for two claims about one increment.
IncNew(job) ==
    LET g == job.gamma
        Combine(p, a, q, b) == LET e == EqEvals(p, a)  f == EqEvals(q, b)
                               IN  [t \in DOMAIN e |-> (e[t] + f[t]) % P]
    IN  [ram_inc |-> RamInc(job.trace), rd_inc |-> ValEvaluationNew(job).inc,
         ram_weights |-> Combine(job.points[1], 1, job.points[2], g),
         rd_weights |-> Combine(job.points[3], (g * g) % P, job.points[4], (g * g * g) % P)]
IncMessage(s, claim) ==
    LET At(x) == Total([y \in PairRows(s.ram_inc) |->
                    Row(s.ram_weights, y, x) * Row(s.ram_inc, y, x)
                        + Row(s.rd_weights, y, x) * Row(s.rd_inc, y, x)])
    IN  FromSkippedEvals(<<At(0), At(2)>>, claim)
IncBind(s, r) == [f \in DOMAIN s |-> BindLow(s[f], r)]
IncOutputs(s) == <<s.ram_inc[1], s.rd_inc[1]>>

-----------------------------------------------------------------------------
(* Sums over cycles in two halves: a prefix table times what the suffix    *)
(* sums to, then the suffix with the prefix folded in at its challenges.   *)

RaReductionNew(job) ==
    LET log_t == Len(job.r_cycle)
        prefix == log_t \div 2
        eq_address == EqEvals(job.r_address, 1)
        Hi(x) == EqEvals(SubSeq(job.points[x], 1, log_t - prefix), 1)
        eq_hi == <<Hi(1), Hi(2), Hi(3)>>
        ra == FoldAddresses(job.trace, eq_address)
        Q(x) == [lo \in 1 .. 2^prefix |->
                    Total([hi \in DOMAIN eq_hi[x] |-> ra[(hi - 1) * 2^prefix + lo] * eq_hi[x][hi]])]
        Lo(x) == SubSeq(job.points[x], log_t - prefix + 1, log_t)
        common == [eq_hi |-> eq_hi, ra |-> ra, challenges |-> <<>>,
                   r_lo |-> <<Lo(1), Lo(2), Lo(3)>>,
                   gammas |-> <<1, job.gamma, (job.gamma * job.gamma) % P>>]
    IN  IF prefix = 0
        THEN [phase |-> "suffix", p |-> <<>>, q |-> <<>>, h |-> ra, scales |-> <<1, 1, 1>>] @@ common
        ELSE [phase |-> "prefix", h |-> <<>>, scales |-> <<>>,
              p |-> [x \in 1 .. 3 |-> EqEvals(common.r_lo[x], 1)],
              q |-> <<Q(1), Q(2), Q(3)>>] @@ common
EqMle(a, b) == Product([i \in DOMAIN a |-> Bit(i, a, b)])
\* The challenges came lowest variable first.
ToSuffixUnreversed(s) ==    \* slip: the prefix point is the challenges as they came
    LET eq_prefix == EqEvals(s.challenges, 1)
        n == Len(eq_prefix)
    IN  [s EXCEPT !.phase = "suffix", !.scales = [x \in 1 .. 3 |-> EqMle(s.r_lo[x], s.challenges)],
            !.h = [hi \in 1 .. Len(s.ra) \div n |->
                Total([lo \in 1 .. n |-> s.ra[(hi - 1) * n + lo] * eq_prefix[lo]])]]
ToSuffix(s) ==
    LET r_prefix == Reverse(s.challenges)
        eq_prefix == EqEvals(r_prefix, 1)
        n == Len(eq_prefix)
    IN  [s EXCEPT !.phase = "suffix", !.scales = [x \in 1 .. 3 |-> EqMle(s.r_lo[x], r_prefix)],
            !.h = [hi \in 1 .. Len(s.ra) \div n |->
                Total([lo \in 1 .. n |-> s.ra[(hi - 1) * n + lo] * eq_prefix[lo]])]]
RaReductionBind(s, r) ==
    LET bound == [s EXCEPT !.p = [x \in 1 .. 3 |-> BindLow(@[x], r)],
                           !.q = [x \in 1 .. 3 |-> BindLow(@[x], r)],
                           !.challenges = Append(@, r)]
    IN  IF s.phase = "suffix"
        THEN [s EXCEPT !.h = BindLow(@, r), !.eq_hi = [x \in 1 .. 3 |-> BindLow(@[x], r)]]
        ELSE IF Len(bound.p[1]) = 1 THEN ToSuffix(bound) ELSE bound
RaReductionMessage(s, claim) ==
    LET Prefix(x) == Total([k \in 1 .. 3 |-> s.gammas[k] * Total([y \in PairRows(s.p[k]) |->
                                Row(s.p[k], y, x) * Row(s.q[k], y, x)])])
        Suffix(x) == Total([y \in PairRows(s.h) |-> Row(s.h, y, x)
                        * Total([k \in 1 .. 3 |-> s.gammas[k] * s.scales[k] * Row(s.eq_hi[k], y, x)])])
    IN  FromEvalsAndHint(IF s.phase = "prefix" THEN <<Prefix(0), Prefix(2)>>
                         ELSE <<Suffix(0), Suffix(2)>>, claim)
RaReductionOutputs(s) ==
    <<s.h[1]>> \o [x \in 1 .. 3 |-> (s.scales[x] * s.eq_hi[x][1]) % P]

\* The registers' values: the transition happens instead of the last prefix
\* bind, when its table has two entries left.
RegisterReductionNew(job) ==
    LET log_t == Len(job.r_cycle)
        cut == log_t \div 2
        g == job.gamma
        rows == [t \in DOMAIN job.trace.rows |->
                    LET row == job.trace.rows[t] IN <<row.rd_post, row.rs1_val, row.rs2_val>>]
        eq_hi == EqEvals(SubSeq(job.r_cycle, 1, cut), 1)
        p == EqEvals(SubSeq(job.r_cycle, cut + 1, log_t), 1)
    IN  [phase |-> "prefix", p |-> p, tau |-> job.r_cycle, rows |-> rows, challenges |-> <<>>,
         gammas |-> <<1, g, (g * g) % P>>, eq |-> <<>>, values |-> <<>>,
         q |-> [lo \in DOMAIN p |->
            Total([hi \in DOMAIN eq_hi |->
                LET row == rows[(hi - 1) * Len(p) + lo]
                IN  eq_hi[hi] * (row[1] + g * row[2] + g * g * row[3])])]]
RegisterReductionBind(s, r) ==
    LET t == [s EXCEPT !.challenges = Append(@, r)]
        r_prefix == Reverse(t.challenges)
        eq_prefix == EqEvals(r_prefix, 1)
        n == Len(eq_prefix)
        cut == Len(s.tau) \div 2
    IN  IF s.phase = "dense"
        THEN [t EXCEPT !.eq = BindLow(@, r), !.values = [i \in 1 .. 3 |-> BindLow(@[i], r)]]
        ELSE IF Len(s.p) > 2 THEN [t EXCEPT !.p = BindLow(@, r), !.q = BindLow(@, r)]
        ELSE [t EXCEPT !.phase = "dense",
                !.eq = EqEvals(SubSeq(s.tau, 1, cut),
                               EqMle(r_prefix, SubSeq(s.tau, cut + 1, Len(s.tau)))),
                !.values = [i \in 1 .. 3 |-> [hi \in 1 .. Len(s.rows) \div n |->
                    Total([lo \in 1 .. n |-> eq_prefix[lo] * s.rows[(hi - 1) * n + lo][i]])]]]
RegisterReductionMessage(s, claim) ==
    LET Prefix(x) == Total([y \in PairRows(s.p) |-> Row(s.p, y, x) * Row(s.q, y, x)])
        Dense_(x) == Total([y \in PairRows(s.eq) |-> Row(s.eq, y, x)
                        * Total([i \in 1 .. 3 |-> s.gammas[i] * Row(s.values[i], y, x)])])
    IN  FromEvalsAndHint(IF s.phase = "prefix" THEN <<Prefix(0), Prefix(2)>>
                         ELSE <<Dense_(0), Dense_(2)>>, claim)
RegisterReductionOutputs(s) ==
    [i \in 1 .. 3 |-> s.values[i][1]] \o <<s.eq[1]>>

-----------------------------------------------------------------------------
(* Sums of rows folded to one column by powers of gamma, the openings read *)
(* off the rows again at the end with the eq of the point in two halves.   *)

OperandReductionNew(job) ==
    LET g(n) == Product([i \in 1 .. n - 1 |-> job.gamma])
    IN  [gruen |-> NewEq(job.r_cycle), rows |-> job.operands, challenges |-> <<>>,
         combined |-> [t \in DOMAIN job.operands |->
            Total([i \in DOMAIN job.operands[t] |-> g(i) * job.operands[t][i]])]]
OperandReductionMessage(s, claim) ==
    LET Q(x) == Total([y \in PairRows(s.combined) |-> Weight(s.gruen, y - 1) * Row(s.combined, y, x)])
    IN  CheckedRoundPoly(s.gruen, <<Q(0), Q(1), Q(2)>>)
OperandReductionBind(s, r) ==
    [s EXCEPT !.gruen = BindEq(@, r), !.combined = BindLow(@, r), !.challenges = Append(@, r)]
OperandClaim(s, i) ==
    LET point == Reverse(s.challenges)
        cut == Len(point) \div 2
        e_hi == EqEvals(SubSeq(point, 1, cut), 1)
        e_lo == EqEvals(SubSeq(point, cut + 1, Len(point)), 1)
    IN  Total([h \in DOMAIN e_hi |-> e_hi[h] * Total([l \in DOMAIN e_lo |->
            e_lo[l] * s.rows[(h - 1) * Len(e_lo) + l][i]])])
OperandReductionOutputs(s) ==
    [i \in DOMAIN s.rows[1] |-> OperandClaim(s, i)] \o <<s.gruen.scalar>>

-----------------------------------------------------------------------------
(***************************************************************************)
(* What every kernel proves, and how the reference backend states it       *)
(* (jolt-kernels, reference/; jolt-claims, relations/): the whole tables   *)
(* of a relation's polynomials, the expression summed over their values,   *)
(* and the claim it starts from, a combination of earlier openings of the  *)
(* trace.                                                                  *)
(***************************************************************************)

Rows_(j) == j.trace.rows
\* Cycle t of an index over addresses and cycles, and the address.
TimeOf(j, i) == ((i - 1) % Len(Rows_(j))) + 1
PlaceOf(j, i) == (i - 1) \div Len(Rows_(j))
Joint(j, F(_, _)) == [i \in 1 .. 2^j.log_k * Len(Rows_(j)) |-> F(PlaceOf(j, i), TimeOf(j, i))]
OverCycles(j, F(_)) == [t \in 1 .. Len(Rows_(j)) |-> F(t)]
OverAddresses(j, F(_)) == [i \in 1 .. 2^j.log_k |-> F(i - 1)]
Indicator(b) == IF b THEN 1 ELSE 0
Power(j, n) == Product([i \in 1 .. n |-> j.gamma])

Written(row) == IF row.rd = NoAccess THEN 0 ELSE (row.rd_post - row.rd_pre) % P
Stored(row) == IF row.address = NoAccess THEN 0 ELSE (row.post - row.pre) % P
Stores(j) == [t \in DOMAIN Rows_(j) |-> Stored(Rows_(j)[t])]
Writes(j) == [t \in DOMAIN Rows_(j) |-> Written(Rows_(j)[t])]
\* The one-hot columns folded at a point, of any field of the rows.
OneHotAt(j, f, point) ==
    LET e == EqTable(point)
    IN  [t \in 1 .. Len(Rows_(j)) |-> IF Rows_(j)[t][f] = NoAccess THEN 0 ELSE e[Rows_(j)[t][f] + 1]]
\* The values before each cycle, addresses first.
RamVal(j) == LET At(a, t) == j.trace.ram[t][a + 1] IN Joint(j, At)
RegisterVal(j) == LET At(a, t) == j.trace.registers[t][a + 1] IN Joint(j, At)
Ra(j, f) == LET At(a, t) == Indicator(Rows_(j)[t][f] = a) IN Joint(j, At)
OpenedAt(table, point) == Extension(table, point)

-----------------------------------------------------------------------------
(* Reads and writes.                                                       *)

RamRwTables(j) ==
    LET Inc(a, t) == Stored(Rows_(j)[t])
        Eq_(a, t) == EqTable(j.r_cycle)[t]
    IN  <<Ra(j, "address"), RamVal(j), Joint(j, Inc), Joint(j, Eq_)>>
RamRwExpression(j, v) == v[4] * v[1] * ((v[2] + j.gamma * (v[2] + v[3])) % P)
RamRwInput(j) ==
    OpenedAt(Field1(Rows_(j), "pre"), j.r_cycle) + j.gamma * OpenedAt(Field1(Rows_(j), "post"), j.r_cycle)

RegisterRwTables(j) ==
    LET Inc(a, t) == Written(Rows_(j)[t])
        Eq_(a, t) == EqTable(j.r_cycle)[t]
    IN  <<RegisterVal(j), Ra(j, "rs1"), Ra(j, "rs2"), Ra(j, "rd"), Joint(j, Inc), Joint(j, Eq_)>>
RegisterRwExpression(j, v) ==
    v[6] * ((v[4] * (v[5] + v[1]) + j.gamma * v[2] * v[1] + Power(j, 2) * v[3] * v[1]) % P)
RegisterRwInput(j) ==
    OpenedAt(Field1(Rows_(j), "rd_post"), j.r_cycle)
        + j.gamma * OpenedAt(Field1(Rows_(j), "rs1_val"), j.r_cycle)
        + Power(j, 2) * OpenedAt(Field1(Rows_(j), "rs2_val"), j.r_cycle)

ValCheckTables(j) ==
    LET lt == LtTable(j.r_cycle)
    IN  <<OneHotAt(j, "address", j.r_address), Stores(j), [i \in DOMAIN lt |-> (lt[i] + j.gamma) % P]>>
ValCheckExpression(j, v) == v[2] * v[1] * v[3]
ValCheckInputOnce(j) ==     \* slip: the first value is taken off one of the two
    OpenedAt(RamVal(j), j.r_address \o j.r_cycle)
        + j.gamma * OpenedAt(j.trace.ram_final, j.r_address)
        - OpenedAt(j.trace.ram[1], j.r_address)
\* The value at the point and the last value, less the first of each.
ValCheckInput(j) ==
    OpenedAt(RamVal(j), j.r_address \o j.r_cycle)
        + j.gamma * OpenedAt(j.trace.ram_final, j.r_address)
        - (1 + j.gamma) * OpenedAt(j.trace.ram[1], j.r_address)

\* Registers start at zero.
ValEvaluationTables(j) ==
    <<OneHotAt(j, "rd", j.r_address), Writes(j), LtTable(j.r_cycle)>>
ValEvaluationExpression(j, v) == v[2] * v[1] * v[3]
ValEvaluationInput(j) == OpenedAt(RegisterVal(j), j.r_address \o j.r_cycle)

-----------------------------------------------------------------------------
(* Addresses of RAM.                                                       *)

RafTables(j) ==
    LET Ra_(a) == Total([t \in DOMAIN Rows_(j) |->
                            EqTable(j.r_cycle)[t] * Indicator(Rows_(j)[t].address = a)])
        Unmap(a) == 8 * a + j.lowest
    IN  <<OverAddresses(j, Ra_), OverAddresses(j, Unmap)>>
RafExpression(j, v) == v[2] * v[1]
\* The address itself, zero where there is none.
RafInput(j) ==
    OpenedAt([t \in DOMAIN Rows_(j) |->
                IF Rows_(j)[t].address = NoAccess THEN 0 ELSE (8 * Rows_(j)[t].address + j.lowest) % P],
             j.r_cycle)

OutputTables(j) ==
    LET Final(a) == j.trace.ram_final[a + 1]
        Mask(a) == Indicator(a \in j.mask[1] .. j.mask[2] - 1)
        Io(a) == ValIo(j.io, 2^j.log_k)[a + 1]
    IN  <<OverAddresses(j, Final), OverAddresses(j, Mask), OverAddresses(j, Io), EqTable(j.r_address)>>
OutputExpression(j, v) == v[4] * v[2] * (v[1] - v[3])

RaReductionTables(j) ==
    <<OneHotAt(j, "address", j.r_address)>> \o [p \in 1 .. 3 |-> EqTable(j.points[p])]
RaReductionExpression(j, v) == v[1] * (v[2] + j.gamma * v[3] + Power(j, 2) * v[4])
RaReductionInput(j) ==
    Total([p \in 1 .. 3 |-> Power(j, p - 1) * OpenedAt(Ra(j, "address"), j.r_address \o j.points[p])])

RaVirtualTables(j) ==
    LET chunks == Points!Chunks(j.r_address, j.bits)
        Part(c, t) == Chunk(Rows_(j)[t].address, c, Len(chunks), j.bits)
    IN  [c \in DOMAIN chunks |-> [t \in DOMAIN Rows_(j) |->
            IF Rows_(j)[t].address = NoAccess THEN 0 ELSE EqTable(chunks[c])[Part(c, t) + 1]]]
        \o <<EqTable(j.r_cycle)>>
RaVirtualExpression(j, v) == Product(v)
RaVirtualDegree(j) == Len(Points!Chunks(j.r_address, j.bits)) + 1
RaVirtualInput(j) == OpenedAt(Ra(j, "address"), j.r_address \o j.r_cycle)

HammingTables(j) ==
    LET Hot(t) == Indicator(Rows_(j)[t].address # NoAccess)
        Eq_(t) == Product([k \in DOMAIN j.r_binding |->
                    Bit(k, j.r_binding, [m \in DOMAIN j.r_binding |-> ((t - 1) \div 2^(m - 1)) % 2])])
    IN  <<OverCycles(j, Hot), OverCycles(j, Eq_)>>
HammingExpression(j, v) == v[2] * (v[1] * v[1] - v[1])

-----------------------------------------------------------------------------
(* Reductions of several claims to one.                                    *)

HammingWeightTables(j) ==
    [c \in DOMAIN j.columns |-> [a \in 1 .. 2^j.bits |->
        Total([t \in DOMAIN Rows_(j) |-> EqTable(j.r_cycle)[t] * Indicator(j.columns[c][t] = a - 1)])]]
    \o <<EqTable(j.r_bool)>> \o [c \in DOMAIN j.columns |-> EqTable(j.r_virtual[c])]
HammingWeightExpression(j, v) ==
    LET n == Len(j.columns)
    IN  Total([i \in 1 .. n |->
            v[i] * (Power(j, 3 * i - 3) + Power(j, 3 * i - 2) * v[n + 1] + Power(j, 3 * i - 1) * v[n + 1 + i])])
HammingWeightInput(j) ==
    LET hot(c) == [i \in 1 .. 2^j.bits * Len(Rows_(j)) |->
                    Indicator(j.columns[c][TimeOf(j, i)] = PlaceOf(j, i))]
        used(c) == [t \in DOMAIN Rows_(j) |-> Indicator(j.columns[c][t] # NoAccess)]
    IN  Total([c \in DOMAIN j.columns |->
            Power(j, 3 * c - 3) * OpenedAt(used(c), j.r_cycle)
                + Power(j, 3 * c - 2) * OpenedAt(hot(c), j.r_bool \o j.r_cycle)
                + Power(j, 3 * c - 1) * OpenedAt(hot(c), j.r_virtual[c] \o j.r_cycle)])

IncTables(j) == <<Stores(j), Writes(j)>> \o [p \in 1 .. 4 |-> EqTable(j.points[p])]
IncExpression(j, v) ==
    v[1] * (v[3] + j.gamma * v[4]) + v[2] * ((Power(j, 2) * v[5] + Power(j, 3) * v[6]) % P)
IncInput(j) ==
    OpenedAt(Stores(j), j.points[1]) + j.gamma * OpenedAt(Stores(j), j.points[2])
        + Power(j, 2) * OpenedAt(Writes(j), j.points[3]) + Power(j, 3) * OpenedAt(Writes(j), j.points[4])

RegisterReductionTables(j) ==
    <<Field1(Rows_(j), "rd_post"), Field1(Rows_(j), "rs1_val"), Field1(Rows_(j), "rs2_val"),
      EqTable(j.r_cycle)>>
RegisterReductionExpression(j, v) == v[4] * (v[1] + j.gamma * v[2] + Power(j, 2) * v[3])
RegisterReductionInput(j) ==
    Total([i \in 1 .. 3 |-> Power(j, i - 1) * OpenedAt(RegisterReductionTables(j)[i], j.r_cycle)])

OperandReductionTables(j) ==
    [i \in DOMAIN j.operands[1] |-> [t \in DOMAIN j.operands |-> j.operands[t][i]]]
        \o <<EqTable(j.r_cycle)>>
OperandReductionExpression(j, v) ==
    v[Len(v)] * Total([i \in 1 .. Len(v) - 1 |-> Power(j, i - 1) * v[i]])
OperandReductionInput(j) ==
    Total([i \in DOMAIN j.operands[1] |->
        Power(j, i - 1) * OpenedAt(OperandReductionTables(j)[i], j.r_cycle)])
=============================================================================
