-------------------------------- MODULE Kernels -------------------------------
(***************************************************************************)
(* Each optimized sumcheck kernel beside the reference it stands in for    *)
(* (jolt-kernels, reference/naive.rs): the whole tables of the relation's  *)
(* polynomials, the relation's expression summed over them, every table    *)
(* bound at every challenge.                                               *)
(***************************************************************************)
EXTENDS ReadRafKernels

CONSTANTS
    Jobs        \* what is proved: kernel, trace, points, gamma, the challenges drawn

-----------------------------------------------------------------------------
(* What the verifier makes of a member's challenges once its rounds are    *)
(* over (jolt-verifier, stages/): the points its openings are claimed at,  *)
(* and the public tables at them in closed form, without the tables.  Of   *)
(* each kernel a function from tables of its reference to their values.    *)

M == INSTANCE Multilinear

Dimensions(j) == [log_t |-> Len(j.r_cycle), log_k |-> j.log_k,
                  phase1 |-> Len(j.r_cycle), phase2 |-> j.log_k]
\* A one-hot column of n bits over the cycles, as a table.
OneHotTable(column, bits) ==
    [i \in 1 .. 2^bits * Len(column) |->
        Indicator(column[((i - 1) % Len(column)) + 1] = (i - 1) \div Len(column))]
Opened(tables, from, point) ==
    [i \in from + 1 .. from + Len(tables) |-> OpenedAt(tables[i - from], point)]

-----------------------------------------------------------------------------
(* Memory and registers.                                                   *)

RamRwDerived(j, ch) ==
    LET cycle == Points!ReadWriteCycle(Dimensions(j), ch)
        point == Points!ReadWriteAddress(Dimensions(j), ch) \o cycle
    IN  (1 :> OpenedAt(Ra(j, "address"), point)) @@ (2 :> OpenedAt(RamVal(j), point))
            @@ (3 :> OpenedAt(Stores(j), cycle)) @@ (4 :> EqMle(j.r_cycle, cycle))
RegisterRwDerived(j, ch) ==
    LET cycle == Points!ReadWriteCycle(Dimensions(j), ch)
        point == Points!ReadWriteAddress(Dimensions(j), ch) \o cycle
    IN  Opened(<<RegisterVal(j), Ra(j, "rs1"), Ra(j, "rs2"), Ra(j, "rd")>>, 0, point)
            @@ (5 :> OpenedAt(Writes(j), cycle)) @@ (6 :> EqMle(j.r_cycle, cycle))

ValCheckDerivedSwapped(j, ch) ==    \* slip: the earlier cycle is the output's
    LET cycle == Points!CycleOpeningPoint(ch)
    IN  (1 :> OpenedAt(Ra(j, "address"), j.r_address \o cycle)) @@ (2 :> OpenedAt(Stores(j), cycle))
            @@ (3 :> (LtEvaluate(j.r_cycle, cycle) + j.gamma) % P)
ValCheckDerived(j, ch) ==
    LET cycle == Points!CycleOpeningPoint(ch)
    IN  (1 :> OpenedAt(Ra(j, "address"), j.r_address \o cycle)) @@ (2 :> OpenedAt(Stores(j), cycle))
            @@ (3 :> (LtEvaluate(cycle, j.r_cycle) + j.gamma) % P)
ValEvaluationDerived(j, ch) ==
    LET cycle == Points!CycleOpeningPoint(ch)
    IN  (1 :> OpenedAt(Ra(j, "rd"), j.r_address \o cycle)) @@ (2 :> OpenedAt(Writes(j), cycle))
            @@ (3 :> LtEvaluate(cycle, j.r_cycle))

RafDerived(j, ch) ==
    LET address == Points!AddressOpeningPoint(Dimensions(j), ch)
    IN  (1 :> OpenedAt(Ra(j, "address"), address \o j.r_cycle))
            @@ (2 :> (8 * M!IdentityMle(address) + j.lowest) % P)

\* The variables that span the window of public words; none beyond it is one.
IoVars(mask) == CHOOSE n \in 0 .. 12 : 2^n >= mask[2] /\ \A m \in 0 .. n - 1 : 2^m < mask[2]
OutputDerived(j, ch) ==
    LET address == Points!AddressOpeningPoint(Dimensions(j), ch)
        split == Len(address) - IoVars(j.mask)
        low == SubSeq(address, split + 1, Len(address))
        hi_scale == Product([i \in 1 .. split |-> (1 - address[i]) % P])
    IN  (1 :> OpenedAt(j.trace.ram_final, address))
            @@ (2 :> M!RangeMaskMle(j.mask[1], j.mask[2], address))
            @@ (3 :> (hi_scale * Total([s \in DOMAIN j.io |->
                        M!SparseMle(j.io[s].start, j.io[s].words, low)])) % P)
            @@ (4 :> EqMle(j.r_address, address))

RaReductionDerived(j, ch) ==
    LET cycle == Points!CycleOpeningPoint(ch)
    IN  (1 :> OpenedAt(Ra(j, "address"), j.r_address \o cycle))
            @@ [x \in 2 .. 4 |-> EqMle(j.points[x - 1], cycle)]
\* Each committed chunk is opened at its part of the address.
RaVirtualDerived(j, ch) ==
    LET cycle == Reverse(ch)
        chunks == Points!Chunks(j.r_address, j.bits)
        Column_(c) == [t \in DOMAIN Rows_(j) |-> Chunk(Rows_(j)[t].address, c, Len(chunks), j.bits)]
    IN  [c \in DOMAIN chunks |-> OpenedAt(OneHotTable(Column_(c), j.bits), chunks[c] \o cycle)]
            @@ (Len(chunks) + 1 :> EqMle(j.r_cycle, cycle))
\* The stage-1 binding is compared with the challenges as they came.
HammingDerived(j, ch) ==
    (1 :> OpenedAt(HammingTables(j)[1], Points!CycleOpeningPoint(ch)))
        @@ (2 :> EqMle(Reverse(Points!CycleOpeningPoint(ch)), j.r_binding))

HammingWeightDerived(j, ch) ==
    LET rho == Reverse(ch)
        n == Len(j.columns)
    IN  [c \in DOMAIN j.columns |-> OpenedAt(OneHotTable(j.columns[c], j.bits), rho \o j.r_cycle)]
            @@ (n + 1 :> EqMle(rho, j.r_bool))
            @@ [x \in n + 2 .. 2 * n + 1 |-> EqMle(rho, j.r_virtual[x - n - 1])]
IncDerived(j, ch) ==
    Opened(<<Stores(j), Writes(j)>>, 0, Reverse(ch))
        @@ [x \in 3 .. 6 |-> EqMle(Reverse(ch), j.points[x - 2])]
RegisterReductionDerived(j, ch) ==
    Opened([i \in 1 .. 3 |-> RegisterReductionTables(j)[i]], 0, Reverse(ch))
        @@ (4 :> EqMle(Reverse(ch), j.r_cycle))
OperandReductionDerived(j, ch) ==
    LET n == Len(j.operands[1])
    IN  Opened([i \in 1 .. n |-> OperandReductionTables(j)[i]], 0, Reverse(ch))
            @@ (n + 1 :> EqMle(Reverse(ch), j.r_cycle))

-----------------------------------------------------------------------------
(* Proof rows.                                                             *)

\* The group's variable is bound first; the columns do not depend on it.
OuterDerived(j, ch) ==
    LET n == Len(OuterColumns)
        weights == Strict(RowWeights(j.r0, ch[1]))
        point == Reverse(ch)
        kernel == LagrangeKernel(U!DomainSize, j.tau[Len(j.tau)], j.r0)
    IN  (1 :> (kernel * EqMle(SubSeq(j.tau, 1, Len(j.tau) - 1), point)) % P)
            @@ [c \in 2 .. n + 1 |-> WeightedColumns(weights, "a")[c - 1]]
            @@ [c \in n + 2 .. 2 * n + 1 |-> WeightedColumns(weights, "b")[c - n - 1]]
            @@ Opened([c \in DOMAIN U!OuterInputs |-> Column(j.witness, U!OuterInputs[c])],
                      2 * n + 1, Reverse(Tail(ch)))
ProductRemainderDerived(j, ch) ==
    LET weights == CenteredEvals(2, j.r0)
    IN  (1 :> (LagrangeKernel(2, j.tau_high, j.r0) * EqMle(j.r_cycle, Reverse(ch))) % P)
            @@ (2 :> weights[1]) @@ (3 :> weights[2])
            @@ Opened([c \in 1 .. 4 |-> Column(j.witness, ProductColumns[c])], 3, Reverse(ch))
ShiftDerived(j, ch) ==
    (1 :> EqPlusOne(j.r_cycle, Reverse(ch))) @@ (2 :> OpenedAt(Column(j.witness, "pc"), Reverse(ch)))
InstructionInputDerived(j, ch) ==
    Opened([c \in 1 .. 6 |-> Column(j.witness, OperandColumns[c])], 0, Reverse(ch))
        @@ (7 :> EqMle(Reverse(ch), j.r_cycle))

-----------------------------------------------------------------------------
(* One-hot columns and read addresses.                                     *)

\* The address comes from the first of two batches, the cycle from the next.
BooleanityDerivedJoint(j, ch) ==    \* slip: both are one point, reversed as a whole
    LET n == Len(j.columns)
    IN  [c \in 1 .. n |-> OpenedAt(OneHotTable(j.columns[c], j.bits), Reverse(ch))]
            @@ (n + 1 :> EqMle(Reverse(ch), j.r_bool \o j.r_cycle))
BooleanityDerived(j, ch) ==
    LET n == Len(j.columns)
        address == Reverse(SubSeq(ch, 1, j.bits))
        cycle == Reverse(SubSeq(ch, j.bits + 1, Len(ch)))
    IN  [c \in 1 .. n |-> OpenedAt(OneHotTable(j.columns[c], j.bits), address \o cycle)]
            @@ (n + 1 :> EqMle(Reverse(address) \o Reverse(cycle),
                               Reverse(j.r_bool) \o Reverse(j.r_cycle)))
RaProductDerived(j, ch) ==
    LET n == Len(Chunks_(j))
        Column_(c) == [t \in DOMAIN j.indices |-> Chunk(j.indices[t], c, n, j.bits)]
    IN  [c \in 1 .. n |-> OpenedAt(OneHotTable(Column_(c), j.bits), Chunks_(j)[c] \o Reverse(ch))]
            @@ (n + 1 :> EqMle(j.r_cycle, Reverse(ch)))

\* The address of a lookup was bound first to last.
ReadRafDerived(j, ch) ==
    LET n == 2 * XLEN
        width == n \div j.ra_count
        tables == Len(j.tables)
        eq == tables + j.ra_count + 2
        address == SubSeq(ch, 1, n)
        cycle == Reverse(SubSeq(ch, n + 1, Len(ch)))
        Flag(t) == [c \in Cycles_(j) |-> Indicator(j.lookups[c].table = j.tables[t])]
        Column_(i) == [c \in Cycles_(j) |-> Chunk(j.lookups[c].index, i, j.ra_count, width)]
        ChunkPoint(i) == SubSeq(address, (i - 1) * width + 1, i * width)
    IN  [t \in 1 .. tables |-> OpenedAt(Flag(t), cycle)]
            @@ [i \in tables + 1 .. tables + j.ra_count |->
                    OpenedAt(OneHotTable(Column_(i - tables), width), ChunkPoint(i - tables) \o cycle)]
            @@ (eq - 1 :> OpenedAt([c \in Cycles_(j) |-> Indicator(j.lookups[c].raf)], cycle))
            @@ (eq :> EqMle(j.r_cycle, cycle))
            @@ [i \in eq + 1 .. eq + tables |-> W!Mle(j.tables[i - eq], address) % P]
            @@ (eq + tables + 1 :> M!OperandMle(address, 0))
            @@ (eq + tables + 2 :> M!OperandMle(address, 1))
            @@ (eq + tables + 3 :> M!IdentityMle(address))

\* The rows' values are folded at the address before the cycles are bound.
BytecodeDerived(j, ch) ==
    LET log_k == Log(j.bytecode)
        address == Reverse(SubSeq(ch, 1, log_k))
        cycle == Reverse(SubSeq(ch, log_k + 1, Len(ch)))
        chunks == Points!Chunks(address, j.bits)
        n == Len(chunks)
        Column_(c) == [t \in DOMAIN j.pcs |-> Chunk(j.pcs[t], c, n, j.bits)]
        eq_address == EqEvals(address, 1)
        values == [k \in DOMAIN j.bytecode |-> StageValues(j, j.bytecode[k])]
        entry_bits == [i \in 1 .. log_k |-> M!BitMsb(j.entry, log_k, i)]
    IN  [c \in 1 .. n |-> OpenedAt(OneHotTable(Column_(c), j.bits), chunks[c] \o cycle)]
            @@ [s \in n + 1 .. n + 5 |->
                    Total([k \in DOMAIN values |-> values[k][s - n] * eq_address[k]])]
            @@ [s \in n + 6 .. n + 10 |-> EqMle(j.stage_points[s - n - 5], cycle)]
            @@ (n + 11 :> M!IdentityMle(address))
            @@ (n + 12 :> EqMle([i \in DOMAIN cycle |-> 0], cycle))
            @@ (n + 13 :> EqMle(entry_bits, address))

-----------------------------------------------------------------------------
(* The kernels and their references.                                       *)

VARIABLES job, fast, tables, challenges

vars == <<job, fast, tables, challenges>>

New(j) ==
    CASE j.kernel = "ramReadWrite"       -> RamRwNew(j)
      [] j.kernel = "registerReadWrite"  -> RegisterRwNew(j)
      [] j.kernel = "raf"                -> RafNew(j)
      [] j.kernel = "output"             -> OutputNew(j)
      [] j.kernel = "hammingWeight"      -> HammingWeightNew(j)
      [] j.kernel = "valCheck"           -> ValCheckNew(j)
      [] j.kernel = "valEvaluation"      -> ValEvaluationNew(j)
      [] j.kernel = "raVirtual"          -> RaVirtualNew(j)
      [] j.kernel = "hamming"            -> HammingNew(j)
      [] j.kernel = "inc"                -> IncNew(j)
      [] j.kernel = "raReduction"        -> RaReductionNew(j)
      [] j.kernel = "registerReduction"  -> RegisterReductionNew(j)
      [] j.kernel = "operandReduction"   -> OperandReductionNew(j)
      [] j.kernel = "outer"              -> OuterNew(j)
      [] j.kernel = "product"            -> ProductRemainderNew(j)
      [] j.kernel = "shift"              -> ShiftNew(j)
      [] j.kernel = "instructionInput"   -> InstructionInputNew(j)
      [] j.kernel = "booleanity"         -> BooleanityNew(j)
      [] j.kernel = "raProduct"          -> RaProductNew(j)
      [] j.kernel = "instructionReadRaf" -> ReadRafNew(j)
      [] j.kernel = "bytecodeReadRaf"    -> BytecodeNew(j)
Message(s, claim) ==
    CASE job.kernel = "ramReadWrite"       -> RamRwMessage(s, claim)
      [] job.kernel = "registerReadWrite"  -> RegisterRwMessage(s, claim)
      [] job.kernel = "raf"                -> RafMessage(s, claim)
      [] job.kernel = "output"             -> OutputMessage(s, claim)
      [] job.kernel = "hammingWeight"      -> HammingWeightMessage(s, claim)
      [] job.kernel = "valCheck"           -> ValCheckMessage(s, claim)
      [] job.kernel = "valEvaluation"      -> ValEvaluationMessage(s, claim)
      [] job.kernel = "raVirtual"          -> RaVirtualMessage(s, claim)
      [] job.kernel = "hamming"            -> HammingMessage(s, claim)
      [] job.kernel = "inc"                -> IncMessage(s, claim)
      [] job.kernel = "raReduction"        -> RaReductionMessage(s, claim)
      [] job.kernel = "registerReduction"  -> RegisterReductionMessage(s, claim)
      [] job.kernel = "operandReduction"   -> OperandReductionMessage(s, claim)
      [] job.kernel = "outer"              -> OuterMessage(s, claim)
      [] job.kernel = "product"            -> ProductRemainderMessage(s, claim)
      [] job.kernel = "shift"              -> ShiftMessage(s, claim)
      [] job.kernel = "instructionInput"   -> InstructionInputMessage(s, claim)
      [] job.kernel = "booleanity"         -> BooleanityMessage(s, claim)
      [] job.kernel = "raProduct"          -> RaProductMessage(s, claim)
      [] job.kernel = "instructionReadRaf" -> ReadRafMessage(s, claim)
      [] job.kernel = "bytecodeReadRaf"    -> BytecodeMessage(s, claim)
BindKernel(s, r) ==
    CASE job.kernel = "ramReadWrite"       -> RamRwBind(s, r)
      [] job.kernel = "registerReadWrite"  -> RegisterRwBind(s, r)
      [] job.kernel = "raf"                -> RafBind(s, r)
      [] job.kernel = "output"             -> OutputBind(s, r)
      [] job.kernel = "hammingWeight"      -> HammingWeightBind(s, r)
      [] job.kernel = "valCheck"           -> ValCheckBind(s, r)
      [] job.kernel = "valEvaluation"      -> ValEvaluationBind(s, r)
      [] job.kernel = "raVirtual"          -> RaVirtualBind(s, r)
      [] job.kernel = "hamming"            -> HammingBind(s, r)
      [] job.kernel = "inc"                -> IncBind(s, r)
      [] job.kernel = "raReduction"        -> RaReductionBind(s, r)
      [] job.kernel = "registerReduction"  -> RegisterReductionBind(s, r)
      [] job.kernel = "operandReduction"   -> OperandReductionBind(s, r)
      [] job.kernel = "outer"              -> OuterBind(s, r)
      [] job.kernel = "product"            -> ProductRemainderBind(s, r)
      [] job.kernel = "shift"              -> ShiftBind(s, r)
      [] job.kernel = "instructionInput"   -> InstructionInputBind(s, r)
      [] job.kernel = "booleanity"         -> BooleanityBind(s, r)
      [] job.kernel = "raProduct"          -> RaProductBind(s, r)
      [] job.kernel = "instructionReadRaf" -> ReadRafBind(s, r)
      [] job.kernel = "bytecodeReadRaf"    -> BytecodeBind(s, r)
Outputs(s) ==
    CASE job.kernel = "ramReadWrite"       -> RamRwOutputs(s)
      [] job.kernel = "registerReadWrite"  -> RegisterRwOutputs(s)
      [] job.kernel = "raf"                -> RafOutputs(s)
      [] job.kernel = "output"             -> OutputOutputs(s)
      [] job.kernel = "hammingWeight"      -> HammingWeightOutputs(s)
      [] job.kernel = "valCheck"           -> ValCheckOutputs(s)
      [] job.kernel = "valEvaluation"      -> ValEvaluationOutputs(s)
      [] job.kernel = "raVirtual"          -> RaVirtualOutputs(s)
      [] job.kernel = "hamming"            -> HammingOutputs(s)
      [] job.kernel = "inc"                -> IncOutputs(s)
      [] job.kernel = "raReduction"        -> RaReductionOutputs(s)
      [] job.kernel = "registerReduction"  -> RegisterReductionOutputs(s)
      [] job.kernel = "operandReduction"   -> OperandReductionOutputs(s)
      [] job.kernel = "outer"              -> OuterOutputs(s)
      [] job.kernel = "product"            -> ProductRemainderOutputs(s)
      [] job.kernel = "shift"              -> ShiftOutputs(s)
      [] job.kernel = "instructionInput"   -> InstructionInputOutputs(s)
      [] job.kernel = "booleanity"         -> BooleanityOutputs(s)
      [] job.kernel = "raProduct"          -> RaProductOutputs(s)
      [] job.kernel = "instructionReadRaf" -> ReadRafOutputs(s)
      [] job.kernel = "bytecodeReadRaf"    -> BytecodeOutputs(s)
\* The reference: the tables, the expression at their values, and the claim.
RelationTables(j) ==
    CASE j.kernel = "ramReadWrite"       -> RamRwTables(j)
      [] j.kernel = "registerReadWrite"  -> RegisterRwTables(j)
      [] j.kernel = "raf"                -> RafTables(j)
      [] j.kernel = "output"             -> OutputTables(j)
      [] j.kernel = "hammingWeight"      -> HammingWeightTables(j)
      [] j.kernel = "valCheck"           -> ValCheckTables(j)
      [] j.kernel = "valEvaluation"      -> ValEvaluationTables(j)
      [] j.kernel = "raVirtual"          -> RaVirtualTables(j)
      [] j.kernel = "hamming"            -> HammingTables(j)
      [] j.kernel = "inc"                -> IncTables(j)
      [] j.kernel = "raReduction"        -> RaReductionTables(j)
      [] j.kernel = "registerReduction"  -> RegisterReductionTables(j)
      [] j.kernel = "operandReduction"   -> OperandReductionTables(j)
      [] j.kernel = "outer"              -> OuterTables(j)
      [] j.kernel = "product"            -> ProductRemainderTables(j)
      [] j.kernel = "shift"              -> ShiftTables(j)
      [] j.kernel = "instructionInput"   -> InstructionInputTables(j)
      [] j.kernel = "booleanity"         -> BooleanityTables(j)
      [] j.kernel = "raProduct"          -> RaProductTables(j)
      [] j.kernel = "instructionReadRaf" -> ReadRafTables(j)
      [] j.kernel = "bytecodeReadRaf"    -> BytecodeTables(j)
Term(v) ==
    CASE job.kernel = "ramReadWrite"       -> RamRwExpression(job, v)
      [] job.kernel = "registerReadWrite"  -> RegisterRwExpression(job, v)
      [] job.kernel = "raf"                -> RafExpression(job, v)
      [] job.kernel = "output"             -> OutputExpression(job, v)
      [] job.kernel = "hammingWeight"      -> HammingWeightExpression(job, v)
      [] job.kernel = "valCheck"           -> ValCheckExpression(job, v)
      [] job.kernel = "valEvaluation"      -> ValEvaluationExpression(job, v)
      [] job.kernel = "raVirtual"          -> RaVirtualExpression(job, v)
      [] job.kernel = "hamming"            -> HammingExpression(job, v)
      [] job.kernel = "inc"                -> IncExpression(job, v)
      [] job.kernel = "raReduction"        -> RaReductionExpression(job, v)
      [] job.kernel = "registerReduction"  -> RegisterReductionExpression(job, v)
      [] job.kernel = "operandReduction"   -> OperandReductionExpression(job, v)
      [] job.kernel = "outer"              -> OuterExpression(job, v)
      [] job.kernel = "product"            -> ProductRemainderExpression(job, v)
      [] job.kernel = "shift"              -> ShiftExpression(job, v)
      [] job.kernel = "instructionInput"   -> InstructionInputExpression(job, v)
      [] job.kernel = "booleanity"         -> BooleanityExpression(job, v)
      [] job.kernel = "raProduct"          -> RaProductExpression(job, v)
      [] job.kernel = "instructionReadRaf" -> ReadRafExpression(job, v)
      [] job.kernel = "bytecodeReadRaf"    -> BytecodeExpression(job, v)
InputClaim ==
    CASE job.kernel = "ramReadWrite"       -> RamRwInput(job)
      [] job.kernel = "registerReadWrite"  -> RegisterRwInput(job)
      [] job.kernel = "raf"                -> RafInput(job)
      [] job.kernel = "hammingWeight"      -> HammingWeightInput(job)
      [] job.kernel = "valCheck"           -> ValCheckInput(job)
      [] job.kernel = "valEvaluation"      -> ValEvaluationInput(job)
      [] job.kernel = "raVirtual"          -> RaVirtualInput(job)
      [] job.kernel = "inc"                -> IncInput(job)
      [] job.kernel = "raReduction"        -> RaReductionInput(job)
      [] job.kernel = "registerReduction"  -> RegisterReductionInput(job)
      [] job.kernel = "operandReduction"   -> OperandReductionInput(job)
      [] job.kernel = "outer"              -> OuterInput(job)
      [] job.kernel = "product"            -> ProductRemainderInput(job)
      [] job.kernel = "shift"              -> ShiftInput(job)
      [] job.kernel = "instructionInput"   -> InstructionInputInput(job)
      [] job.kernel = "raProduct"          -> RaProductInput(job)
      [] job.kernel = "instructionReadRaf" -> ReadRafInput(job)
      [] job.kernel = "bytecodeReadRaf"    -> BytecodeInput(job)
      [] OTHER -> 0
\* What the verifier makes of the challenges: openings and public tables.
Derived ==
    CASE job.kernel = "ramReadWrite"       -> RamRwDerived(job, challenges)
      [] job.kernel = "registerReadWrite"  -> RegisterRwDerived(job, challenges)
      [] job.kernel = "raf"                -> RafDerived(job, challenges)
      [] job.kernel = "output"             -> OutputDerived(job, challenges)
      [] job.kernel = "hammingWeight"      -> HammingWeightDerived(job, challenges)
      [] job.kernel = "valCheck"           -> ValCheckDerived(job, challenges)
      [] job.kernel = "valEvaluation"      -> ValEvaluationDerived(job, challenges)
      [] job.kernel = "raVirtual"          -> RaVirtualDerived(job, challenges)
      [] job.kernel = "hamming"            -> HammingDerived(job, challenges)
      [] job.kernel = "inc"                -> IncDerived(job, challenges)
      [] job.kernel = "raReduction"        -> RaReductionDerived(job, challenges)
      [] job.kernel = "registerReduction"  -> RegisterReductionDerived(job, challenges)
      [] job.kernel = "operandReduction"   -> OperandReductionDerived(job, challenges)
      [] job.kernel = "outer"              -> OuterDerived(job, challenges)
      [] job.kernel = "product"            -> ProductRemainderDerived(job, challenges)
      [] job.kernel = "shift"              -> ShiftDerived(job, challenges)
      [] job.kernel = "instructionInput"   -> InstructionInputDerived(job, challenges)
      [] job.kernel = "booleanity"         -> BooleanityDerived(job, challenges)
      [] job.kernel = "raProduct"          -> RaProductDerived(job, challenges)
      [] job.kernel = "instructionReadRaf" -> ReadRafDerived(job, challenges)
      [] job.kernel = "bytecodeReadRaf"    -> BytecodeDerived(job, challenges)
TermDegree ==
    CASE job.kernel \in {"ramReadWrite", "registerReadWrite", "output", "valCheck",
                         "valEvaluation", "hamming", "outer", "product",
                         "instructionInput", "booleanity"} -> 3
      [] job.kernel = "raVirtual" -> RaVirtualDegree(job)
      [] job.kernel = "raProduct" -> RaProductDegree(job)
      [] job.kernel = "instructionReadRaf" -> ReadRafDegree(job)
      [] job.kernel = "bytecodeReadRaf" -> BytecodeDegree(job)
      [] OTHER -> 2

\* One round of the reference at x, summed in blocks of rows.
ReferenceAt(x) ==
    LET rows == Half(tables[1])
        block == IF rows > 32 THEN 32 ELSE rows
        At(y) == Term([i \in DOMAIN tables |-> Row(tables[i], y, x)])
    IN  Total([b \in 1 .. rows \div block |-> Total([y \in 1 .. block |-> At((b - 1) * block + y)])])

-----------------------------------------------------------------------------

Init ==
    /\ job \in Jobs
    /\ fast = New(job)
    /\ tables = RelationTables(job)
    /\ challenges = <<>>

Bound == Len(tables[1]) = 1

BindRound ==
    /\ ~Bound
    /\ \E r \in job.draws :
        /\ fast' = BindKernel(fast, r)
        /\ tables' = [i \in DOMAIN tables |-> BindLow(tables[i], r)]
        /\ challenges' = Append(challenges, r)
    /\ UNCHANGED job

Next == BindRound
Spec == Init /\ [][Next]_vars

-----------------------------------------------------------------------------

\* The message of a round is the reference's, in the phase that changes how
\* it is computed as in any other.
MessageIsSum ==
    ~Bound =>
        LET sums == [i \in 1 .. TermDegree + 1 |-> ReferenceAt(i - 1)]
            message == Message(fast, (sums[1] + sums[2]) % P)
            poly == FromEvals(message)
        IN  \A i \in DOMAIN sums : Evaluate(poly, i - 1) = sums[i]

\* The univariate round is the sum over all cycles, at the domain's integers
\* and between them: what is left out of it is zero for rows that hold.
UniskipIsSum ==
    challenges = <<>> =>
        /\ job.kernel = "outer" =>
            LET poly == OuterFirstRound(job)
            IN  /\ Total([i \in 1 .. U!DomainSize |->
                        Evaluate(poly, Nodes(Start(U!DomainSize), U!DomainSize)[i])]) = 0
                /\ \A r \in Field : Evaluate(poly, r) = OuterSum(job, r)
        /\ job.kernel = "product" =>
            LET poly == ProductFirstRound(job)
            IN  /\ (Evaluate(poly, 0) + Evaluate(poly, 1) - ProductUniskipInput(job)) % P = 0
                /\ \A r \in Field : Evaluate(poly, r) = ProductSum(job, r)

\* Every round's message is the sum it stands for, the univariate round's too.
RoundsAreSums == MessageIsSum /\ UniskipIsSum

\* A kernel starts from the claim its relation makes of the openings before
\* it, and its second phase from what the first one left.
ClaimIsSum ==
    /\ challenges = <<>> => (InputClaim - ReferenceAt(0) - ReferenceAt(1)) % P = 0
    /\ job.kernel \in {"booleanity", "bytecodeReadRaf"} /\ Len(tables[1]) = 2^Len(job.r_cycle) =>
            (fast.kernel.intermediate - ReferenceAt(0) - ReferenceAt(1)) % P = 0

\* And so are the openings claimed when all variables are bound.
OpeningsAreFinal ==
    Bound => \A i \in DOMAIN Outputs(fast) : Outputs(fast)[i] = tables[i][1]

\* The verifier needs no table: what it opens and computes at its own order of
\* the challenges is what binding variable by variable came to.
DerivedAreFinal ==
    Bound => \A i \in DOMAIN tables : Derived[i] = tables[i][1]
=============================================================================
