---------------------------- MODULE SparseKernels ----------------------------
(***************************************************************************)
(* The two read-write checking kernels (jolt-kernels, rw_matrix.rs,        *)
(* ram_read_write.rs, registers_read_write/): the cells of the             *)
(* cycles x addresses matrix that an access touches, bound cycle by cycle  *)
(* and then address by address.  A cell is at <<row, col>>; what the       *)
(* untouched cells hold is known from their neighbours: a cell keeps the   *)
(* value before it and after it, and a column its value at the start.      *)
(***************************************************************************)
EXTENDS Multilinear

CONSTANT LutLimit   \* squared entries past which a table of coefficients is given up

NoAccess == -1
Lerp(a, b, r) == (a + r * (b - a)) % P
SumOver(S, F(_)) == MapThenSumSet(F, S) % P

\* The pairs of rows (or columns) that a round folds into one.
RowPairs(cells) == {<<d[1] \div 2, d[2]>> : d \in DOMAIN cells}
ColPairs(cells) == {<<d[1], d[2] \div 2>> : d \in DOMAIN cells}

-----------------------------------------------------------------------------
(* Cells with two neighbouring cycles: a missing one carries the value its *)
(* neighbour had before or after it, and no access.                        *)

EvenRow(cells, c) ==
    LET e == <<2 * c[1], c[2]>>  o == <<2 * c[1] + 1, c[2]>>
    IN  IF e \in DOMAIN cells THEN cells[e]
        ELSE [ra |-> 0, val |-> cells[o].prev, prev |-> cells[o].prev, next |-> cells[o].prev]
OddRowStale(cells, c) ==    \* slip: the write of the even cycle is not seen by the odd one
    LET e == <<2 * c[1], c[2]>>  o == <<2 * c[1] + 1, c[2]>>
    IN  IF o \in DOMAIN cells THEN cells[o]
        ELSE [ra |-> 0, val |-> cells[e].prev, prev |-> cells[e].prev, next |-> cells[e].next]
OddRow(cells, c) ==
    LET e == <<2 * c[1], c[2]>>  o == <<2 * c[1] + 1, c[2]>>
    IN  IF o \in DOMAIN cells THEN cells[o]
        ELSE [ra |-> 0, val |-> cells[e].next, prev |-> cells[e].next, next |-> cells[e].next]

BindCells(cells, r) ==
    [c \in RowPairs(cells) |->
        LET even == EvenRow(cells, c)  odd == OddRow(cells, c)
        IN  [ra |-> Lerp(even.ra, odd.ra, r), val |-> Lerp(even.val, odd.val, r),
             prev |-> even.prev, next |-> odd.next]]

\* The constant and leading coefficient of the round, the eq head left out.
ValTerm(val, inc, gamma) == (val + gamma * (inc + val)) % P
QuadraticCoefficients(cells, gruen, inc, gamma) ==
    LET Inc(c, i) == inc[2 * c[1] + 1 + i]
        At0(c) == LET even == EvenRow(cells, c)
                  IN  Weight(gruen, c[1]) * even.ra * ValTerm(even.val, Inc(c, 0), gamma)
        Slope(c) == LET even == EvenRow(cells, c)  odd == OddRow(cells, c)
                    IN  Weight(gruen, c[1]) * (odd.ra - even.ra)
                          * ValTerm(odd.val - even.val, Inc(c, 1) - Inc(c, 0), gamma)
    IN  <<SumOver(RowPairs(cells), At0), SumOver(RowPairs(cells), Slope)>>

(* Cells with two neighbouring addresses: a missing one holds what the     *)
(* last earlier cell of its column left, or the column's start.            *)

Checkpoint(cells, val_init, row, col) ==
    LET earlier == {d[1] : d \in {d \in DOMAIN cells : d[2] = col /\ d[1] < row}}
    IN  IF earlier = {} THEN val_init[col + 1]
        ELSE cells[<<CHOOSE x \in earlier : \A y \in earlier : y <= x, col>>].next
ColSide(cells, val_init, c, i) ==
    LET d == <<c[1], 2 * c[2] + i>>
        held == Checkpoint(cells, val_init, d[1], d[2])
    IN  IF d \in DOMAIN cells THEN cells[d]
        ELSE [ra |-> 0, val |-> held, prev |-> held, next |-> held]
BindAddresses(cells, val_init, r) ==
    [c \in ColPairs(cells) |->
        LET even == ColSide(cells, val_init, c, 0)  odd == ColSide(cells, val_init, c, 1)
        IN  [f \in {"ra", "val", "prev", "next"} |-> Lerp(even[f], odd[f], r)]]
AddressRoundEvals(cells, val_init, inc, eq, gamma) ==
    LET At(c, x) == LET even == ColSide(cells, val_init, c, 0)
                        odd == ColSide(cells, val_init, c, 1)
                    IN  eq[c[1] + 1] * Lerp(even.ra, odd.ra, x)
                          * ValTerm(Lerp(even.val, odd.val, x), inc[c[1] + 1], gamma)
        At0(c) == At(c, 0)
        At2(c) == At(c, 2)
    IN  <<SumOver(ColPairs(cells), At0), SumOver(ColPairs(cells), At2)>>
FinalValues(cells, val_init) ==
    IF DOMAIN cells = {} THEN [ra |-> 0, val |-> val_init[1]]
    ELSE LET c == cells[<<0, 0>>] IN [ra |-> c.ra, val |-> c.val]

\* A round polynomial of degree 2 from its values at 0 and 2.
FromEvalsAndHint(evals, claim) == <<evals[1], (claim - evals[1]) % P, evals[2]>>

-----------------------------------------------------------------------------
(* RAM.  The trace gives per cycle an address or none, and the word before *)
(* and after; the words at the start are read back from it.                *)

Cycles(trace) == DOMAIN trace.rows
Accesses(trace) == {t \in Cycles(trace) : trace.rows[t].address # NoAccess}
FoldAddresses(trace, eq_address) ==
    [t \in Cycles(trace) |->
        IF t \in Accesses(trace) THEN eq_address[trace.rows[t].address + 1] ELSE 0]
FoldCycles(trace, eq_cycle, k) ==
    [a \in 1 .. k |->
        LET Term(t) == eq_cycle[t]
        IN  SumOver({t \in Accesses(trace) : trace.rows[t].address = a - 1}, Term)]
ReconstructValInit(trace, val_final) ==
    [a \in DOMAIN val_final |->
        LET touching == {t \in Accesses(trace) : trace.rows[t].address = a - 1}
        IN  IF touching = {} THEN val_final[a]
            ELSE trace.rows[CHOOSE t \in touching : \A u \in touching : t <= u].pre]

RamInc(trace) ==
    [t \in Cycles(trace) |-> IF t \in Accesses(trace)
                              THEN (trace.rows[t].post - trace.rows[t].pre) % P ELSE 0]

RamRwNew(job) ==
    LET rows == job.trace.rows
    IN  [phase |-> "cycle", gamma |-> job.gamma, gruen |-> NewEq(job.r_cycle),
         inc |-> RamInc(job.trace),
         val_init |-> ReconstructValInit(job.trace, job.trace.ram_final),
         merged_eq |-> <<>>,
         cells |-> [c \in {<<t - 1, rows[t].address>> : t \in Accesses(job.trace)} |->
                      LET row == rows[c[1] + 1]
                      IN  [ra |-> 1, val |-> row.pre, prev |-> row.pre, next |-> row.post]]]
RamRwMessage(s, claim) ==
    IF s.phase = "cycle"
    THEN LET q == QuadraticCoefficients(s.cells, s.gruen, s.inc, s.gamma)
         IN  GruenPolyDeg3(s.gruen, q[1], q[2], claim)
    ELSE FromEvalsAndHint(
            AddressRoundEvals(s.cells, s.val_init, s.inc, s.merged_eq, s.gamma), claim)
RamRwBind(s, r) ==
    IF s.phase = "cycle"
    THEN LET gruen == BindEq(s.gruen, r)
             bound == [s EXCEPT !.cells = BindCells(@, r), !.gruen = gruen,
                                !.inc = BindLow(@, r)]
         IN  IF gruen.index > 0 THEN bound
             ELSE [bound EXCEPT !.phase = "address",
                                !.merged_eq = EqEvals(SubSeq(gruen.point, 1, gruen.index),
                                                      gruen.scalar)]
    ELSE [s EXCEPT !.cells = BindAddresses(@, s.val_init, r), !.val_init = BindLow(@, r)]
RamRwOutputs(s) ==
    LET final == FinalValues(s.cells, s.val_init)
    IN  <<final.ra, final.val, s.inc[1], s.merged_eq[1]>>

-----------------------------------------------------------------------------
(* Registers.  The coefficients of a cell are indices into a table of the  *)
(* few values they can take; a round squares the table, until that costs   *)
(* too much and the values are written into the cells.                     *)

\* An absent side is index 0, whose value is 0, or the value 0 itself.
CoeffValue(lut, a) == IF lut = <<>> THEN a ELSE lut[a + 1]
BindCoeff(lut, even, odd, r) ==
    IF lut = <<>> THEN Lerp(even, odd, r) ELSE odd * Len(lut) + even
BindLutSwapped(lut, r) ==   \* slip: the squared table is indexed even first
    [i \in 1 .. Len(lut) * Len(lut) |->
        Lerp(lut[((i - 1) \div Len(lut)) + 1], lut[((i - 1) % Len(lut)) + 1], r)]
BindLut(lut, r) ==
    [i \in 1 .. Len(lut) * Len(lut) |->
        Lerp(lut[((i - 1) % Len(lut)) + 1], lut[((i - 1) \div Len(lut)) + 1], r)]
Saturated(lut) == Len(lut) * Len(lut) > LutLimit

\* The cells of a cycle: one register read twice, or read and written, is
\* one cell.
Operands(row) == {row.rs1, row.rs2, row.rd} \ {NoAccess}
RegisterCell(row, k) ==
    [ra |-> (IF row.rs1 = k THEN 1 ELSE 0) + (IF row.rs2 = k THEN 2 ELSE 0),
     wa |-> IF row.rd = k THEN 1 ELSE 0,
     prev |-> IF row.rs1 = k THEN row.rs1_val
              ELSE IF row.rs2 = k THEN row.rs2_val ELSE row.rd_pre,
     next |-> IF row.rd = k THEN row.rd_post
              ELSE IF row.rs1 = k THEN row.rs1_val ELSE row.rs2_val,
     val |-> IF row.rs1 = k THEN row.rs1_val
             ELSE IF row.rs2 = k THEN row.rs2_val ELSE row.rd_pre]

RegisterSides(cells, c) ==
    LET none(v) == [ra |-> 0, wa |-> 0, val |-> v, prev |-> v, next |-> v]
        e == <<2 * c[1], c[2]>>  o == <<2 * c[1] + 1, c[2]>>
    IN  [even |-> IF e \in DOMAIN cells THEN cells[e] ELSE none(cells[o].prev),
         odd |-> IF o \in DOMAIN cells THEN cells[o] ELSE none(cells[e].next)]
BindRegisterCells(s, r) ==
    [c \in RowPairs(s.cells) |->
        LET side == RegisterSides(s.cells, c)
        IN  [ra |-> BindCoeff(s.ra_lut, side.even.ra, side.odd.ra, r),
             wa |-> BindCoeff(s.wa_lut, side.even.wa, side.odd.wa, r),
             val |-> Lerp(side.even.val, side.odd.val, r),
             prev |-> side.even.prev, next |-> side.odd.next]]
SparseQuadratic(s) ==
    LET At0(c) ==
            LET even == RegisterSides(s.cells, c).even
            IN  Weight(s.gruen, c[1])
                  * (CoeffValue(s.ra_lut, even.ra) * even.val
                      + CoeffValue(s.wa_lut, even.wa) * (even.val + s.inc[2 * c[1] + 1]))
        Slope(c) ==
            LET side == RegisterSides(s.cells, c)
                Step(lut, f) == CoeffValue(lut, side.odd[f]) - CoeffValue(lut, side.even[f])
                val == side.odd.val - side.even.val
                inc == s.inc[2 * c[1] + 2] - s.inc[2 * c[1] + 1]
            IN  Weight(s.gruen, c[1])
                  * (Step(s.ra_lut, "ra") * val + Step(s.wa_lut, "wa") * (val + inc))
    IN  <<SumOver(RowPairs(s.cells), At0), SumOver(RowPairs(s.cells), Slope)>>

RegisterRwNew(job) ==
    LET rows == job.trace.rows
        g == job.gamma
    IN  [phase |-> "cycle", gruen |-> NewEq(job.r_cycle), rows |-> rows,
         log_k |-> job.log_k, challenges |-> <<>>,
         inc |-> [t \in DOMAIN rows |-> IF rows[t].rd = NoAccess THEN 0
                                        ELSE (rows[t].rd_post - rows[t].rd_pre) % P],
         ra_lut |-> <<0, g, (g * g) % P, (g + g * g) % P>>, wa_lut |-> <<0, 1>>,
         cells |-> [c \in UNION {{<<t - 1, k>> : k \in Operands(rows[t])} : t \in DOMAIN rows} |->
                        RegisterCell(rows[c[1] + 1], c[2])],
         ra |-> <<>>, wa |-> <<>>, val |-> <<>>]

\* Values instead of indices in the cells, when a table is full.
Dereferenced(s) ==
    IF s.ra_lut = <<>> \/ ~(Saturated(s.ra_lut) \/ Saturated(s.wa_lut)) THEN s
    ELSE [s EXCEPT !.ra_lut = <<>>, !.wa_lut = <<>>,
                   !.cells = [c \in DOMAIN s.cells |->
                                [s.cells[c] EXCEPT !.ra = CoeffValue(s.ra_lut, @),
                                                   !.wa = CoeffValue(s.wa_lut, @)]]]
BindSparse(s, r) ==
    LET d == Dereferenced(s)
    IN  [d EXCEPT !.cells = BindRegisterCells(d, r),
                  !.ra_lut = IF @ = <<>> THEN @ ELSE BindLut(@, r),
                  !.wa_lut = IF @ = <<>> THEN @ ELSE BindLut(@, r)]
\* One row is left: dense tables over the registers, untouched ones zero.
Dense(s) ==
    LET k == 2^s.log_k
        Column(F(_)) == [a \in 1 .. k |-> IF <<0, a - 1>> \in DOMAIN s.cells
                                          THEN F(s.cells[<<0, a - 1>>]) ELSE 0]
        Ra(c) == CoeffValue(s.ra_lut, c.ra)
        Wa(c) == CoeffValue(s.wa_lut, c.wa)
        Val(c) == c.val
    IN  [s EXCEPT !.phase = "address", !.ra = Column(Ra), !.wa = Column(Wa), !.val = Column(Val)]
RegisterRwBind(s, r) ==
    LET t == [s EXCEPT !.challenges = Append(@, r)]
        cycle == BindSparse([t EXCEPT !.gruen = BindEq(@, r), !.inc = BindLow(@, r)], r)
    IN  IF s.phase = "address"
        THEN [t EXCEPT !.ra = BindLow(@, r), !.wa = BindLow(@, r), !.val = BindLow(@, r)]
        ELSE IF cycle.gruen.index = 0 THEN Dense(cycle) ELSE cycle
RegisterRwMessage(s, claim) ==
    IF s.phase = "cycle"
    THEN LET q == SparseQuadratic(s) IN GruenPolyDeg3(s.gruen, q[1], q[2], claim)
    ELSE LET At(t, y, x) == Lerp(t[2 * y - 1], t[2 * y], x)
             Value(x) == Total([y \in 1 .. Half(s.ra) |->
                            At(s.wa, y, x) * (s.inc[1] + At(s.val, y, x))
                                + At(s.ra, y, x) * At(s.val, y, x)])
         IN  [i \in 1 .. 4 |-> (s.gruen.scalar * Value(i - 1)) % P]

\* The openings of the two read columns, which were only bound combined:
\* gathered from the indices with the eq of cycle and address in two halves.
OneHotOperandClaim(s, operand) ==
    LET log_t == Len(s.gruen.point)
        bound == Reverse(s.challenges)
        n == log_t + s.log_k
        hi_bits == IF log_t < (n + 1) \div 2 THEN log_t ELSE (n + 1) \div 2
        joint == SubSeq(bound, s.log_k + 1, n) \o SubSeq(bound, 1, s.log_k)
        e_hi == EqEvals(SubSeq(joint, 1, hi_bits), 1)
        e_lo == EqEvals(SubSeq(joint, hi_bits + 1, n), 1)
        block == 2^(n - hi_bits - s.log_k)
        Term(t) == e_hi[((t - 1) \div block) + 1]
                     * e_lo[((t - 1) % block) * 2^s.log_k + s.rows[t][operand] + 1]
    IN  SumOver({t \in DOMAIN s.rows : s.rows[t][operand] # NoAccess}, Term)
RegisterRwOutputs(s) ==
    <<s.val[1], OneHotOperandClaim(s, "rs1"), OneHotOperandClaim(s, "rs2"), s.wa[1], s.inc[1],
      s.gruen.scalar>>
=============================================================================
