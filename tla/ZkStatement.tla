----------------------------- MODULE ZkStatement -----------------------------
(***************************************************************************)
(* Two verifiers of one protocol.  The clear one evaluates every relation  *)
(* at the values its points give (derive_output_term of the relations in   *)
(* jolt-verifier/src/stages); the hiding one writes the same equations     *)
(* down as a BlindFold statement (stages/zk/blindfold), with code of its   *)
(* own for every point, value and list of openings.                        *)
(*                                                                         *)
(* A value is a polynomial over what the points fix: eq, lt or a table at  *)
(* the coordinates they are evaluated at.                                  *)
(***************************************************************************)
EXTENDS Stages, ClaimExpressions

Gamma(name) == Challenge(name)
D(name) == <<"derived", name, 0, "">>
DI(name, i) == <<"derived", name, i, "">>
Each(name, n, Value(_)) ==
    [f \in {DI(name, i) : i \in 1 .. n} |-> Value(f[3])]

\* eq is symmetric and does not depend on the order of the coordinates.
Eq(p, q) ==
    IF Len(p) # Len(q) THEN Var(<<"length", <<Len(p), Len(q)>>>>)
    ELSE Var(<<"eq", {{p[i], q[i]} : i \in DOMAIN p}>>)
Lt(p, q) == Var(<<"lt", <<p \o <<>>, q \o <<>>>>>>)
EqPlusOne(p, q) == Var(<<"eq+1", <<p \o <<>>, q \o <<>>>>>>)
At_(table, point) == Var(<<table, point \o <<>>>>)
Lagrange(i, r) == Var(<<"lagrange", <<i, r>>>>)
UniskipPoint(s) == <<s, 1>>
TauHigh == <<"tau_high", 1>>
ReferenceAddress == [i \in 1 .. c.chunk |-> <<"reference", i>>]
RegistersOf(point) == SubSeq(point, 1, c.log_reg)
PastRegisters(point) == Drop(point, c.log_reg)
PastRam(point) == Drop(point, c.log_k)

-----------------------------------------------------------------------------
(* What both compute with the same functions.                              *)

OuterWeights(uniskip, remainder) ==
    LET Weight(name, i) == Var(<<"row weights", <<name, i, uniskip, remainder>>>>)
        Columns(name) == Each(name, Len(OuterColumns), LAMBDA i : Weight(name, i))
    IN  Columns("AzWeight") @@ Columns("BzWeight")
            @@ D("TauKernel") :> Weight("TauKernel", 0)
            @@ D("AzConstant") :> Weight("AzConstant", 0)
            @@ D("BzConstant") :> Weight("BzConstant", 0)
OutputCheck(drawn, address) ==
    D("EqAddress") :> Eq(drawn, address) @@ D("IoMask") :> At_("io mask", address)
        @@ D("ValIo") :> At_("io words", address)
LookupValues(eq, address) ==
    LET gamma == Gamma("InstructionReadRaf")
        left == At_("left operand", address)
        right == At_("right operand", address)
        operands == Folded(gamma, <<Const(0), left, right>>)
    IN  Each("EqTableValue", c.tables, LAMBDA i : Mul(eq, Var(<<"table", <<i, address \o <<>>>>>>)))
            @@ D("EqRafConstant") :> Mul(eq, operands)
            @@ D("EqRafFlag") :> Mul(eq, Minus(Mul(Power(gamma, 2), At_("identity", address)),
                                               operands))
\* The bytecode table at a point: its five folds, or their eq factors alone.
BytecodeValues(address, cycle, cycles, read_write, val) ==
    LET Cycle(s) == Eq(cycles[s], cycle)
        Folds(s) == Var(<<"rows", <<s, address \o <<>>, read_write \o <<>>, val \o <<>>>>>>)
    IN  (IF c.committed THEN Each("StageCycleEq", ValStages, Cycle)
         ELSE Each("StageValue", ValStages, LAMBDA s : Mul(Folds(s), Cycle(s))))
            @@ D("SpartanOuterRaf") :> Mul(At_("identity", address), Cycle(1))
            @@ D("SpartanShiftRaf") :> Mul(At_("identity", address), Cycle(3))
            @@ D("Entry") :> Mul(At_("entry", address), At_("first cycle", cycle))

\* A chunk of the committed table: the chunk's place in the address, then eq
\* of the rows and the weighted lanes, in the order of the joint matrix.
ChunkBits == CHOOSE n \in 0 .. c.chunk_count : 2 ^ n = c.chunk_count
ChunkWeights(point, address, read_write, val, skipped) ==
    LET rows == Drop(address, ChunkBits)
        lanes == Len(point) - Len(rows)
        Row == IF c.order = "CycleMajor" THEN Drop(point, lanes) ELSE SubSeq(point, 1, Len(rows))
        Lane == IF c.order = "CycleMajor" THEN SubSeq(point, 1, lanes) ELSE Drop(point, Len(rows))
        Place(i) == Var(<<"eq at", <<i, SubSeq(address, 1, ChunkBits)>>>>)
        scale == ProductOf(<<Eq(Row, rows),
                             Var(<<"lanes", <<Lane \o <<>>, read_write \o <<>>, val \o <<>>>>>>),
                             Var(<<"half", skipped>>)>>)
    IN  Each("ChunkOutputWeight", c.chunk_count, LAMBDA i : Mul(Place(i), scale))
ImageScale(point, address, skipped) ==
    D("FinalScale") :> Mul(Var(<<"shifted eq", <<point \o <<>>, address \o <<>>>>>>),
                           Var(<<"half", skipped>>))
\* The rounds of a reduction that bind none of the polynomial's variables.
SkippedRounds(layout, splits) ==
    Reference(c).cycle - Cardinality(CycleActive(Reference(c), layout))
        + (IF splits THEN c.chunk - Cardinality(AddressActive(Reference(c), layout)) ELSE 0)

-----------------------------------------------------------------------------
(* The clear verifier: values from the points of the claims.               *)

P(name, i, relation) == points[<<name, i, relation>>] \o <<>>
RafCycle == P("InstructionRafFlag", 0, "InstructionReadRaf")
BooleanityPoint == P("InstructionRa", 1, "Booleanity")

ClearStage1 == OuterWeights(UniskipPoint("u1"), Window("s1", "OuterRemainder"))
ClearStage2 ==
    LET product == P("LeftInput", 0, "Product")
    IN  Each("UniskipLagrangeWeight", 2, LAMBDA i : Lagrange(i, TauHigh))
        @@ Each("LagrangeWeight", 2, LAMBDA i : Lagrange(i, UniskipPoint("u2")))
        @@ D("ProductTauKernel") :>
                Mul(Var(<<"kernel", {TauHigh, UniskipPoint("u2")}>>), Eq(TauLow(c), product))
        @@ D("RamEqCycle") :> Eq(TauLow(c), PastRam(P("RamVal", 0, "RamReadWrite")))
        @@ D("EqSpartan") :> Eq(P("LeftLookup", 0, "InstructionReduction"), TauLow(c))
        @@ D("UnmapAddress") :>
                At_("unmap", SubSeq(P("VirtualRamRa", 0, "RamRaf"), 1, c.log_k))
        @@ OutputCheck(Challenges("output_address", c.log_k), P("RamValFinal", 0, "RamOutput"))
ClearStage3 ==
    D("EqPlusOneOuter") :> EqPlusOne(TauLow(c), P("PC", 0, "Shift"))
    @@ D("EqProduct") :> Eq(P("Imm", 0, "InstructionInput"), P("LeftInput", 0, "Product"))
    @@ D("RegistersEqSpartan") :> Eq(P("RdWriteValue", 0, "RegistersReduction"), TauLow(c))
ClearStage4 ==
    D("RegistersEqCycle") :> Eq(P("RdWriteValue", 0, "RegistersReduction"),
                                PastRegisters(P("RegistersVal", 0, "RegistersReadWrite")))
    @@ D("InitEval") :> At_("initial memory", RamAddressPoint(c, points))
    @@ D("InitSelectorProgramImage") :> Const(-1)
    @@ D("LtCyclePlusGamma") :> Plus(Lt(PastRam(P("VirtualRamRa", 0, "RamValCheck")),
                                        PastRam(P("RamVal", 0, "RamReadWrite"))),
                                     Var(Gamma("RamValCheck")))
ClearStage5 ==
    LET reduced == PastRam(P("VirtualRamRa", 0, "RamRaReduction"))
        Cycle(relation) == Eq(reduced, PastRam(P("VirtualRamRa", 0, relation)))
    IN  LookupValues(Eq(P("LookupOutput", 0, "InstructionReduction"), RafCycle),
                     LookupAddress(c, points))
        @@ D("EqCycleRaf") :> Cycle("RamRaf") @@ D("EqCycleReadWrite") :> Cycle("RamReadWrite")
        @@ D("EqCycleValCheck") :> Cycle("RamValCheck")
        @@ D("RegistersLtCycle") :> Lt(PastRegisters(P("RdInc", 0, "RegistersValEvaluation")),
                                       PastRegisters(P("RegistersVal", 0, "RegistersReadWrite")))
TableAddress == BytecodeClaimPoint(points) \o <<>>
ReadWriteRegisters == RegistersOf(P("RdWa", 0, "RegistersReadWrite"))
ValRegisters == RegistersOf(P("RdWa", 0, "RegistersValEvaluation"))
ClearStage6 ==
    LET first == BooleanityPoint
        bits == Len(first) - c.log_t
        inc == P("RamInc", 0, "IncReduction")
        ra == Suffix(P("RamRa", 1, "RamRaVirtualization"), c.log_t)
        columns == Suffix(P("InstructionRa", 1, "InstructionRaVirtualization"), c.log_t)
    IN  BytecodeValues(TableAddress, Suffix(P("BytecodeRa", 1, "BytecodeReadRaf"), c.log_t),
                       StageCyclePoints(c, points), ReadWriteRegisters, ValRegisters)
        @@ D("EqAddressCycle") :>
            Eq(Reverse(SubSeq(first, 1, bits)) \o Reverse(Drop(first, bits)),
               Reverse(ReferenceAddress) \o RafCycle)
        @@ D("HammingEqCycle") :> Eq(Reverse(P("RamHammingWeight", 0, "RamHammingBooleanity")),
                                     Drop(Challenges("s1", c.log_t + 1), 1))
        @@ D("RamRaEqCycle") :> Eq(PastRam(P("VirtualRamRa", 0, "RamRaReduction")), ra)
        @@ D("InstructionRaEqCycle") :> Eq(RafCycle, columns)
        @@ D("EqRamReadWrite") :> Eq(inc, PastRam(P("RamVal", 0, "RamReadWrite")))
        @@ D("EqRamValCheck") :> Eq(inc, PastRam(P("VirtualRamRa", 0, "RamValCheck")))
        @@ D("EqRegistersReadWrite") :> Eq(inc, StageCyclePoints(c, points)[4])
        @@ D("EqRegistersValEvaluation") :> Eq(inc, StageCyclePoints(c, points)[5])
\* The reductions' last phase, at the point it opens.
Own(o) == OwnPoint(o) \o <<>>
ClearReductions ==
    LET split == SplitsReduction(c, BytecodeLayout(c))
        image_split == SplitsReduction(c, ImageLayout(c))
        chunk == IF split THEN "BytecodeReduction" ELSE "BytecodeReductionCycle"
        image == IF image_split THEN "ImageReduction" ELSE "ImageReductionCycle"
    IN  IF ~c.committed THEN <<>>
        ELSE ChunkWeights(Own(<<"BytecodeChunk", 1, chunk>>), TableAddress, ReadWriteRegisters,
                          ValRegisters, SkippedRounds(BytecodeLayout(c), split))
             @@ ImageScale(Own(<<"ProgramImage", 0, image>>), RamAddressPoint(c, points),
                           SkippedRounds(ImageLayout(c), image_split))
ClearStage7 ==
    LET bits == c.chunk
        rho == SubSeq(P("InstructionRa", 1, "HammingReduction"), 1, bits)
        virtual == RaVirtualizations(c)
    IN  D("EqBooleanity") :> Eq(rho, SubSeq(BooleanityPoint, 1, bits))
        @@ Each("EqVirtualization", Len(virtual),
                LAMBDA i : Eq(rho, SubSeq(points[virtual[i]] \o <<>>, 1, bits)))
ClearValues == ClearStage1 @@ ClearStage2 @@ ClearStage3 @@ ClearStage4 @@ ClearStage5
                @@ ClearStage6 @@ ClearReductions @@ ClearStage7

-----------------------------------------------------------------------------
(* The hiding verifier: values from the windows of the batches.  Each      *)
(* stage publishes the values its equations use before it is added.        *)

ZkWindow(s, rounds) ==
    InstancePoint(Challenges(s, BatchRounds(s)), SuffixOffset(BatchRounds(s), rounds), rounds)
ZkWindowAt(s, offset, rounds) == InstancePoint(Challenges(s, BatchRounds(s)), offset, rounds)
ZkCycle(s) == Reverse(ZkWindow(s, c.log_t))
Drawn(names) == [f \in {Gamma(n) : n \in names} |-> Var(f)]

ZkStage1 == OuterWeights(UniskipPoint("u1"), Challenges("s1", BatchRounds("s1")))

\* The address sumchecks beside the read-write checking run from the end of
\* its first phase on.
ZkPhase1OffsetUnshifted == SuffixOffset(BatchRounds("s2"), c.log_t + c.log_k)   \* slip
ZkPhase1Offset == SuffixOffset(BatchRounds("s2"), c.log_t + c.log_k) + Ram(c).phase1
ZkStage2 ==
    LET Address(m) == AddressOpeningPoint(Ram(c), ZkWindowAt("s2", ZkPhase1Offset, Rounds(m)))
        read_write == ZkWindow("s2", Rounds("RamReadWrite"))
    IN  Drawn({"RamReadWrite", "InstructionClaimReduction"})
        @@ D("RamEqCycle") :> Eq(TauLow(c), ReadWriteCycle(Ram(c), read_write))
        @@ D("EqSpartan") :> Eq(ZkCycle("s2"), TauLow(c))
        @@ D("UnmapAddress") :> At_("unmap", Address("RamRafEvaluation"))
        @@ OutputCheck(Challenges("output_address", c.log_k), Address("RamOutputCheck"))
ZkStage3 ==
    Drawn({"InstructionInput", "RegistersClaimReduction"})
    @@ D("EqPlusOneOuter") :> EqPlusOne(TauLow(c), ZkCycle("s3"))
    @@ D("EqProduct") :> Eq(ZkCycle("s3"), ZkCycle("s2"))
    @@ D("RegistersEqSpartan") :> Eq(ZkCycle("s3"), TauLow(c))
ZkStage4 ==
    D("InitEval") :> At_("initial memory", RamAddressPoint(c, points))
    @@ (IF c.committed THEN D("InitSelectorProgramImage") :> Const(-1) ELSE <<>>)
    @@ Drawn({"RegistersReadWrite", "RamValCheck"})
    @@ D("RegistersEqCycle") :>
        Eq(ZkCycle("s3"), ReadWriteCycle(Registers(c), ZkWindow("s4", Rounds("RegistersReadWrite"))))
    @@ D("LtCyclePlusGamma") :> Plus(Lt(ZkCycle("s4"), PastRam(P("RamVal", 0, "RamReadWrite"))),
                                     Var(Gamma("RamValCheck")))
ZkStage5 ==
    LET lookups == ZkWindow("s5", Rounds("InstructionReadRaf"))
        address == SubSeq(lookups, 1, c.address_bits)
        cycle == Reverse(Drop(lookups, c.address_bits))
        Cycle(relation) == Eq(ZkCycle("s5"), PastRam(P("VirtualRamRa", 0, relation)))
    IN  Drawn({"InstructionReadRaf", "RamRaClaimReduction"})
        @@ LookupValues(Eq(ZkCycle("s2"), cycle), address)
        @@ D("EqCycleRaf") :> Cycle("RamRaf") @@ D("EqCycleReadWrite") :> Cycle("RamReadWrite")
        @@ D("EqCycleValCheck") :> Cycle("RamValCheck")
        @@ D("RegistersLtCycle") :>
            Lt(ZkCycle("s5"), PastRegisters(P("RegistersVal", 0, "RegistersReadWrite")))

\* All of stage 6 is published before its first half.
ZkReadWriteCycle == PastRegisters(P("RegistersVal", 0, "RegistersReadWrite"))
ZkValCycle == PastRegisters(P("RdInc", 0, "RegistersValEvaluation"))
ZkStage6 ==
    LET inc == ZkCycle("s6b")
    IN  Drawn({"BytecodeReadRaf", "Stage1Gamma", "Stage2Gamma", "Stage3Gamma", "Stage4Gamma",
               "Stage5Gamma", "Booleanity", "InstructionRaVirtualization", "IncClaimReduction"})
        @@ BytecodeValues(Reverse(ZkWindow("s6a", c.log_b)), ZkCycle("s6b"),
                          <<TauLow(c), ZkCycle("s2"), ZkCycle("s3"), ZkReadWriteCycle, ZkValCycle>>,
                          RegistersOf(P("RegistersVal", 0, "RegistersReadWrite")),
                          RegistersOf(P("RdInc", 0, "RegistersValEvaluation")))
        @@ D("EqAddressCycle") :>
            Eq(ZkWindow("s6a", c.chunk) \o ZkWindow("s6b", c.log_t),
               Reverse(ReferenceAddress) \o RafCycle)
        @@ D("HammingEqCycle") :> Eq(ZkWindow("s6b", c.log_t),
                                     Drop(Challenges("s1", BatchRounds("s1")), 1))
        @@ D("RamRaEqCycle") :> Eq(PastRam(P("VirtualRamRa", 0, "RamRaReduction")), inc)
        @@ D("InstructionRaEqCycle") :> Eq(RafCycle, inc)
        @@ D("EqRamReadWrite") :> Eq(inc, PastRam(P("RamVal", 0, "RamReadWrite")))
        @@ D("EqRamValCheck") :> Eq(inc, PastRam(P("VirtualRamRa", 0, "RamValCheck")))
        @@ D("EqRegistersReadWrite") :> Eq(inc, ZkReadWriteCycle)
        @@ D("EqRegistersValEvaluation") :> Eq(inc, ZkValCycle)
ZkChunkWeights(point, split) ==
    ChunkWeights(point, TableAddress, RegistersOf(P("RegistersVal", 0, "RegistersReadWrite")),
                 RegistersOf(P("RdInc", 0, "RegistersValEvaluation")),
                 SkippedRounds(BytecodeLayout(c), split))
ZkReductionsCycle ==
    IF ~c.committed THEN <<>>
    ELSE Drawn({"Eta"})
         @@ (IF SplitsReduction(c, BytecodeLayout(c)) THEN <<>>
             ELSE ZkChunkWeights(Own(<<"BytecodeChunk", 1, "BytecodeReductionCycle">>), FALSE))
         @@ (IF SplitsReduction(c, ImageLayout(c)) THEN <<>>
             ELSE ImageScale(Own(<<"ProgramImage", 0, "ImageReductionCycle">>),
                             RamAddressPoint(c, points), SkippedRounds(ImageLayout(c), FALSE)))

\* The address halves, from the cycle halves' points and their own window.
ZkAddressPoint(layout, split) ==
    AddressPhaseOpeningPoint(Reference(c), layout, Reverse(points[split]),
                             ZkWindowAt("s7", 0, c.chunk)) \o <<>>
ZkReductionsAddress ==
    (IF ~SplitsReduction(c, BytecodeLayout(c)) THEN <<>>
     ELSE ZkChunkWeights(ZkAddressPoint(BytecodeLayout(c),
                            <<"BytecodeIntermediate", 0, "BytecodeReductionCycle">>), TRUE))
    @@ (IF ~SplitsReduction(c, ImageLayout(c)) THEN <<>>
        ELSE ImageScale(ZkAddressPoint(ImageLayout(c), <<"ProgramImage", 0, "ImageReductionCycle">>),
                        RamAddressPoint(c, points), SkippedRounds(ImageLayout(c), TRUE)))
VirtualPoint(o) == SubSeq(points[o] \o <<>>, 1, c.chunk)
ZkStage7 ==
    LET rho == Reverse(ZkWindow("s7", c.chunk))
        virtual == RaVirtualizations(c)
    IN  Drawn({"HammingWeightReduction"})
        @@ D("EqBooleanity") :> Eq(rho, SubSeq(BooleanityPoint, 1, c.chunk))
        @@ Each("EqVirtualization", Len(virtual), LAMBDA i : Eq(rho, VirtualPoint(virtual[i])))
        @@ ZkReductionsAddress

\* What is published by the time a stage's equations are checked.
ZkPublic == [
    u1 |-> <<>>, s1 |-> ZkStage1, u2 |-> <<>>, s2 |-> ZkStage2, s3 |-> ZkStage3, s4 |-> ZkStage4,
    s5 |-> ZkStage5, s6a |-> ZkStage6 @@ ZkReductionsCycle, s6b |-> <<>>, s7 |-> ZkStage7]

-----------------------------------------------------------------------------
(* The equations and the openings of each stage.                           *)

ClaimOf(m) ==
    CASE m = "OuterUniskip" -> OuterUniskipClaim
      [] m = "OuterRemainder" -> OuterRemainderClaim
      [] m = "ProductUniskip" -> ProductUniskipClaim
      [] m = "ProductRemainder" -> ProductRemainderClaim
      [] m = "RamReadWrite" -> RamReadWriteClaim
      [] m = "InstructionClaimReduction" -> InstructionReductionClaim
      [] m = "RamRafEvaluation" -> RamRafClaim(c)
      [] m = "RamOutputCheck" -> RamOutputClaim
      [] m = "SpartanShift" -> ShiftClaim
      [] m = "InstructionInput" -> InstructionInputClaim
      [] m = "RegistersClaimReduction" -> RegistersReductionClaim
      [] m = "RegistersReadWrite" -> RegistersReadWriteClaim
      [] m = "RamValCheck" -> RamValCheckClaim(c)
      [] m = "InstructionReadRaf" -> InstructionReadRafClaim(c)
      [] m = "RamRaClaimReduction" -> RamRaReductionClaim
      [] m = "RegistersValEvaluation" -> RegistersValEvaluationClaim
      [] m = "BytecodeAddressPhase" -> BytecodeAddressClaim(c)
      [] m = "BooleanityAddressPhase" -> BooleanityAddressClaim
      [] m = "BytecodeReadRaf" -> BytecodeReadRafClaim(c)
      [] m = "Booleanity" -> BooleanityClaim(c)
      [] m = "RamHammingBooleanity" -> RamHammingClaim
      [] m = "RamRaVirtualization" -> RamRaVirtualizationClaim(c)
      [] m = "InstructionRaVirtualization" -> InstructionRaClaim(c)
      [] m = "IncClaimReduction" -> IncReductionClaim
      [] m = "BytecodeReductionCycle" -> BytecodeCycleClaim(c)
      [] m = "ImageReductionCycle" -> ImageCycleClaim(c)
      [] m = "HammingWeightReduction" -> HammingReductionClaim(c)
      [] m = "BytecodeReductionAddress" -> BytecodeAddressReductionClaim(c)
      [] m = "ImageReductionAddress" -> ImageAddressClaim

\* The product sumchecks' weights are numbers in the statement.
ZkProductUniskip ==
    [ProductUniskipClaim EXCEPT !.in =
        Plus(Mul(Lagrange(1, TauHigh), At("Product", "Outer")),
             Mul(Lagrange(2, TauHigh), At("ShouldBranch", "Outer")))]
ZkProductRemainder ==
    LET kernel == Mul(Var(<<"kernel", {TauHigh, UniskipPoint("u2")}>>),
                      Eq(TauLow(c), ZkCycle("s2")))
        Weighted(a, b) == Plus(Mul(Lagrange(1, UniskipPoint("u2")), At(a, "Product")),
                               Mul(Lagrange(2, UniskipPoint("u2")), At(b, "Product")))
    IN  [ProductRemainderClaim EXCEPT !.out =
            ProductOf(<<Weighted("LeftInput", "LookupOutput"),
                        Weighted("RightInput", "Branch"), kernel>>)]
ZkClaimOf(m) == CASE m = "ProductUniskip" -> ZkProductUniskip
                  [] m = "ProductRemainder" -> ZkProductRemainder
                  [] OTHER -> ClaimOf(m)

\* The openings a stage's output rows commit to, and those left out of them.
ZkBytecodeAliases ==
    [o \in {x \in Range(Ra(c, "Booleanity")) :
                /\ x[1] = "BytecodeRa"
                /\ P("BytecodeRa", x[2], "BytecodeReadRaf") = BooleanityPoint}
        |-> <<o[1], o[2], "BytecodeReadRaf">>]
ZkAliases(s) == IF s = "s6b" THEN ZkBytecodeAliases ELSE DeclaredAliases(s)
ZkImageLast ==              \* slip: in the order of the batch
    One(<<"RegistersVal", "Rs1Ra", "Rs2Ra", "RdWa", "RdInc">>, "RegistersReadWrite")
        \o (IF c.committed THEN <<<<"ProgramImage", 0, "RamValCheck">>>> ELSE <<>>)
        \o One(<<"VirtualRamRa", "RamInc">>, "RamValCheck")
ZkStage4Ids ==
    (IF c.committed THEN <<<<"ProgramImage", 0, "RamValCheck">>>> ELSE <<>>)
        \o One(<<"RegistersVal", "Rs1Ra", "Rs2Ra", "RdWa", "RdInc">>, "RegistersReadWrite")
        \o One(<<"VirtualRamRa", "RamInc">>, "RamValCheck")
ZkStage2Ids ==
    One(<<"RamVal", "VirtualRamRa", "RamInc">>, "RamReadWrite")
        \o One(<<"LeftInput", "RightInput", "LookupOutput", "Branch">>, "Product")
        \o One(<<"LookupOutput", "LeftLookup", "RightLookup", "LeftInput", "RightInput">>,
               "InstructionReduction")
        \o <<<<"VirtualRamRa", 0, "RamRaf">>, <<"RamValFinal", 0, "RamOutput">>>>
ZkStage3Ids ==
    <<<<"PC", 0, "Shift">>>>
        \o One(<<"LeftIsRs1", "Rs1Value", "RightIsRs2", "Rs2Value", "RightIsImm", "Imm">>,
               "InstructionInput")
        \o One(<<"RdWriteValue", "Rs1Value", "Rs2Value">>, "RegistersReduction")
ZkStage5Ids ==
    Family("LookupTableFlag", c.tables, "InstructionReadRaf")
        \o Family("VirtualInstructionRa", VirtualRaCount(c), "InstructionReadRaf")
        \o <<<<"InstructionRafFlag", 0, "InstructionReadRaf">>,
             <<"VirtualRamRa", 0, "RamRaReduction">>>>
        \o One(<<"RdInc", "RdWa">>, "RegistersValEvaluation")
ZkStage6aIds ==
    <<<<"BytecodeClaim", 0, "BytecodeAddressPhase">>>>
        \o (IF c.committed THEN BytecodeVals(c) ELSE <<>>)
        \o <<<<"BooleanityClaim", 0, "BooleanityAddressPhase">>>>
ZkStage6bIds ==
    Family("BytecodeRa", BytecodeRaCount(c), "BytecodeReadRaf")
        \o Ra(c, "Booleanity") \o <<<<"RamHammingWeight", 0, "RamHammingBooleanity">>>>
        \o Family("RamRa", RamRaCount(c), "RamRaVirtualization")
        \o Family("InstructionRa", InstructionRaCount(c), "InstructionRaVirtualization")
        \o One(<<"RamInc", "RdInc">>, "IncReduction")
        \o (IF ~c.committed THEN <<>>
            ELSE (IF SplitsReduction(c, BytecodeLayout(c))
                  THEN <<<<"BytecodeIntermediate", 0, "BytecodeReductionCycle">>>>
                  ELSE Family("BytecodeChunk", c.chunk_count, "BytecodeReductionCycle"))
                 \o <<<<"ProgramImage", 0, "ImageReductionCycle">>>>)
ZkStage7Ids ==
    Ra(c, "HammingReduction")
        \o (IF SplitsReduction(c, BytecodeLayout(c))
            THEN Family("BytecodeChunk", c.chunk_count, "BytecodeReduction") ELSE <<>>)
        \o (IF SplitsReduction(c, ImageLayout(c))
            THEN <<<<"ProgramImage", 0, "ImageReduction">>>> ELSE <<>>)
ZkAllIds == [
    u1 |-> <<<<"UnivariateSkip", 0, "Outer">>>>, s1 |-> One(OuterColumns, "Outer"),
    u2 |-> <<<<"UnivariateSkip", 0, "Product">>>>, s2 |-> ZkStage2Ids, s3 |-> ZkStage3Ids,
    s4 |-> ZkStage4Ids, s5 |-> ZkStage5Ids, s6a |-> ZkStage6aIds, s6b |-> ZkStage6bIds,
    s7 |-> ZkStage7Ids]
ZkIds(s) == SelectSeq(ZkAllIds[s], LAMBDA o : o \notin DOMAIN ZkAliases(s))

\* A polynomial with its challenges and derived values put in.
RECURSIVE Resolve(_, _)
Resolve(p, value) ==
    LET Factor(f) == CASE f[1] = "sum" -> Whole(Resolve(f[2], value))
                       [] f \in DOMAIN value -> value[f]
                       [] OTHER -> Var(f)
        Monomial(m) == FoldSet(LAMBDA f, acc : Mul(acc, ProductOf([i \in 1 .. m[f] |-> Factor(f)])),
                               Const(1), DOMAIN m)
    IN  FoldSet(LAMBDA m, acc : Plus(acc, Mul(Const(p[m]), Monomial(m))), <<>>, DOMAIN p)
Sources(claim) ==
    {f \in FactorsOf(claim.in) \cup FactorsOf(claim.out) : f[1] \in {"challenge", "derived"}}

-----------------------------------------------------------------------------
(* The two ways to fold the bytecode table: row by row with the gammas of  *)
(* the stages, and lane by lane for the committed table.                   *)

Lane(kind, i) == Var(<<"lane", kind, i, "">>)
FlagLane(name) == Lane("flag", CHOOSE i \in DOMAIN Flags : Flags[i] = name)
EqAt(point, r) == Var(<<"eq at", <<point, r>>>>)
RegisterIds == 1 .. 2 ^ c.log_reg
OverRegisters(Term(_)) == SumOf([r \in RegisterIds |-> Term(r)])
\* The value of a row in each of the five folds.
RowValue(s) ==
    LET g == StageGamma(s)
        flags == [i \in DOMAIN Flags |-> Lane("flag", i)]
        tables == [i \in 1 .. c.tables |-> Lane("table", i)]
        ReadWrite(kind) == OverRegisters(LAMBDA r : Mul(EqAt("read-write", r), Lane(kind, r)))
        val == OverRegisters(LAMBDA r : Mul(EqAt("val", r), Lane("rd", r)))
    IN  CASE s = 1 -> Folded(g, <<Lane("imm", 0)>> \o flags)
          [] s = 2 -> FlagLane("Branch")
          [] s = 3 -> Folded(g, <<Lane("imm", 0), FlagLane("LeftIsRs1"), FlagLane("RightIsRs2"),
                                  FlagLane("RightIsImm")>>)
          [] s = 4 -> Folded(g, <<ReadWrite("rd"), ReadWrite("rs1"), ReadWrite("rs2")>>)
          [] s = 5 -> Folded(g, <<val, Lane("raf", 0)>> \o tables)
\* What a lane of the committed table weighs in the sum of the five.
FlagWeight(i) ==
    LET Index(name, weight) == IF Flags[i] = name THEN weight ELSE <<>>
        Third(n) == Mul(Power(Eta, 2), Power(StageGamma(3), n))
    IN  SumOf(<<Power(StageGamma(1), i), Index("Branch", Power(Eta, 1)),
                Index("LeftIsRs1", Third(1)), Index("RightIsRs2", Third(2)),
                Index("RightIsImm", Third(3))>>)
ReadWriteWeight(r, n) == ProductOf(<<Power(Eta, 3), Power(StageGamma(4), n), EqAt("read-write", r)>>)
ValWeight(n) == Mul(Power(Eta, 4), Power(StageGamma(5), n))
LaneWeighted ==
    LET Weigh(weight, kind, i) == Mul(weight, Lane(kind, i))
    IN  SumOf(<<OverRegisters(LAMBDA r : Weigh(ReadWriteWeight(r, 1), "rs1", r)),
                OverRegisters(LAMBDA r : Weigh(ReadWriteWeight(r, 2), "rs2", r)),
                OverRegisters(LAMBDA r : Weigh(Plus(ReadWriteWeight(r, 0),
                                                    Mul(ValWeight(0), EqAt("val", r))), "rd", r)),
                Weigh(Plus(Const(1), Power(Eta, 2)), "imm", 0),
                SumOf([i \in DOMAIN Flags |-> Weigh(FlagWeight(i), "flag", i)]),
                SumOf([i \in 1 .. c.tables |-> Weigh(ValWeight(1 + i), "table", i)]),
                Weigh(ValWeight(1), "raf", 0)>>)

\* The column of the table an opening is of.
ColumnOf(o) ==
    LET Register(kind, point) == OverRegisters(LAMBDA r : Mul(EqAt(point, r), Lane(kind, r)))
    IN  CASE o[1] \in Range(Flags) -> FlagLane(o[1])
          [] o[1] = "Imm" -> Lane("imm", 0)
          [] o[1] = "RdWa" -> Register("rd", IF o[3] = "RegistersReadWrite" THEN "read-write" ELSE "val")
          [] o[1] = "Rs1Ra" -> Register("rs1", "read-write")
          [] o[1] = "Rs2Ra" -> Register("rs2", "read-write")
          [] o[1] = "InstructionRafFlag" -> Lane("raf", 0)
          [] o[1] = "LookupTableFlag" -> Lane("table", o[2])
ColumnsOf(s) == [f \in {<<"opening">> \o o : o \in Range(StageColumns(c)[s])} |-> ColumnOf(Tail(f))]

-----------------------------------------------------------------------------
(* Properties.                                                             *)

\* Openings produced for a reduction to constrain: the folds of the bytecode
\* table and the program image's share of the initial memory.
Staged == Range(BytecodeVals(c)) \cup {<<"ProgramImage", 0, "RamValCheck">>}
\* Every variable of a relation's equations is a claim it consumes or produces;
\* every other claim it produces is constrained by the equation it ends at; and
\* no round message can exceed the degree the relation declares.
EquationsComplete ==
    \A k \in DOMAIN Sumchecks : \A m \in Range(Members(Sumchecks[k])) :
        LET r == RelationOf(Sumchecks[k], m)
            claim == ClaimOf(m)
            used == OpeningsOf(claim.in) \cup OpeningsOf(claim.out)
        IN  /\ used \subseteq r.ins \cup Range(r.outs)
            /\ r.ins \subseteq used
            /\ Range(r.outs) \ Staged \subseteq OpeningsOf(claim.out)
            /\ DegreeIn(claim.out, r.ins) <= claim.degree

\* Each stage's claim about the bytecode table is the fold of its rows the
\* verifier computes, and the weighted lanes of the committed table add up to
\* the folds the reduction was promised.
TableFoldsAgree ==
    /\ \A s \in 1 .. ValStages : Resolve(StageClaim(c, s), ColumnsOf(s)) = RowValue(s)
    /\ LaneWeighted = Folded(Eta, [s \in 1 .. ValStages |-> RowValue(s)])

\* The statement a hiding proof is checked against is the clear verification:
\* the same openings in the order they were committed in, the same openings
\* left out for another's value, and for every relation the same equation once
\* challenges and values are put in; and each value is there when it is needed.
StatementIsVerification ==
    LET clear == ClearValues
        public == ZkPublic
        Known(k) == FoldSeq(LAMBDA s, acc : acc @@ public[s], <<>>, SubSeq(Sumchecks, 1, k))
    IN  \A k \in DOMAIN Sumchecks :
            LET s == Sumchecks[k]
                batch == Batch(s)
                known == Known(k)
            IN  /\ ZkIds(s) = Curated(s, batch)
                /\ ZkAliases(s) = Aliases(s, OutputPoints(batch))
                /\ \A m \in Range(Members(s)) :
                    LET zk == ZkClaimOf(m)
                    IN  /\ Sources(zk) \subseteq DOMAIN known
                        /\ Resolve(zk.in, known) = Resolve(ClaimOf(m).in, clear)
                        /\ Resolve(zk.out, known) = Resolve(ClaimOf(m).out, clear)

\* Checked once per configuration, when the verifier accepts.
StatementsAgree ==
    verdict = "accept" =>
        /\ EquationsComplete
        /\ c.committed => TableFoldsAgree
        /\ c.zk => StatementIsVerification
=============================================================================
