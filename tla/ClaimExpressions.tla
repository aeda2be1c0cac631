-------------------------- MODULE ClaimExpressions --------------------------
(***************************************************************************)
(* What each relation of the protocol claims (jolt-claims, relations): the *)
(* polynomial in openings, challenges and derived values its sumcheck      *)
(* starts from, the one it ends at, and the degree it promises.            *)
(*                                                                         *)
(* A polynomial is a function from monomials to nonzero coefficients, a    *)
(* monomial a bag of factors.  A factor is an opening, a challenge or a    *)
(* derived value: <<kind, name, index, relation>>; or a polynomial that is *)
(* not multiplied out: <<"sum", p>>.                                       *)
(***************************************************************************)
EXTENDS ClaimGraph, Bags

Const(n) == IF n = 0 THEN <<>> ELSE EmptyBag :> n
Power(factor, n) == IF n = 0 THEN Const(1) ELSE (factor :> n) :> 1
Var(factor) == Power(factor, 1)
Coefficient(p, monomial) == IF monomial \in DOMAIN p THEN p[monomial] ELSE 0
Plus(p, q) ==
    LET all == DOMAIN p \cup DOMAIN q
        Sum_(m) == Coefficient(p, m) + Coefficient(q, m)
    IN  [m \in {n \in all : Sum_(n) # 0} |-> Sum_(m)]
TimesMonomial(p, monomial, k) ==
    [m \in {n (+) monomial : n \in DOMAIN p} |->
        k * p[CHOOSE n \in DOMAIN p : n (+) monomial = m]]
Mul(p, q) == FoldSet(LAMBDA m, acc : Plus(acc, TimesMonomial(p, m, q[m])), <<>>, DOMAIN q)
SumOf(terms) == FoldSeq(Plus, <<>>, terms)
ProductOf(terms) == FoldSeq(Mul, Const(1), terms)
Minus(p, q) == Plus(p, Mul(Const(-1), q))

Open(o) == Var(<<"opening">> \o o)
Opens(openings) == [i \in DOMAIN openings |-> Open(openings[i])]
At(name, relation) == Open(<<name, 0, relation>>)
Challenge(name) == <<"challenge", name, 0, "">>
Derived(name) == Var(<<"derived", name, 0, "">>)
DerivedAt(name, i) == Var(<<"derived", name, i, "">>)
Whole(p) == Var(<<"sum", p>>)       \* a factor that is not multiplied out
\* terms[1] + g * terms[2] + g^2 * terms[3] ...
Folded(g, terms) == SumOf([i \in DOMAIN terms |-> Mul(Power(g, i - 1), terms[i])])
Claim(degree, in, out) == [degree |-> degree, in |-> in, out |-> out]

RECURSIVE FactorsOf(_)
FactorsOf(p) == UNION {UNION {IF f[1] = "sum" THEN FactorsOf(f[2]) ELSE {f} :
                                 f \in DOMAIN m} : m \in DOMAIN p}
OpeningsOf(p) == {Tail(f) : f \in {g \in FactorsOf(p) : g[1] = "opening"}}
\* Weights of the row constraints: functions of the uni-skip point and the group
\* bit alone, which no column varies with.
RowWeights == {"AzWeight", "AzConstant", "BzWeight", "BzConstant", "LagrangeWeight"}
\* The degree in a variable of the rounds: of openings of this sumcheck and of
\* derived values.
RECURSIVE DegreeIn(_, _)
DegreeIn(p, fixed) ==
    LET Weight(f) == IF f[1] = "sum" THEN DegreeIn(f[2], fixed)
                     ELSE IF f[1] = "challenge" \/ Tail(f) \in fixed \/ f[2] \in RowWeights THEN 0
                     ELSE 1
    IN  MaxOf({0} \cup {MapThenSumSet(LAMBDA f : m[f] * Weight(f), DOMAIN m) : m \in DOMAIN p})

-----------------------------------------------------------------------------
(* Spartan: the row constraints, the products, the next row.               *)

OuterUniskipClaim == Claim(30, Const(0), At("UnivariateSkip", "Outer"))
LinearForm(weight, constant) ==
    Plus(SumOf([i \in DOMAIN OuterColumns |->
                    Mul(DerivedAt(weight, i), At(OuterColumns[i], "Outer"))]),
         Derived(constant))
OuterRemainderClaim ==
    Claim(3, At("UnivariateSkip", "Outer"),
          ProductOf(<<Derived("TauKernel"), Whole(LinearForm("AzWeight", "AzConstant")),
                      Whole(LinearForm("BzWeight", "BzConstant"))>>))
ProductUniskipClaim ==
    Claim(3, Plus(Mul(DerivedAt("UniskipLagrangeWeight", 1), At("Product", "Outer")),
                  Mul(DerivedAt("UniskipLagrangeWeight", 2), At("ShouldBranch", "Outer"))),
          At("UnivariateSkip", "Product"))
ProductRemainderClaim ==
    LET Weighted(a, b) == Plus(Mul(DerivedAt("LagrangeWeight", 1), At(a, "Product")),
                               Mul(DerivedAt("LagrangeWeight", 2), At(b, "Product")))
    IN  Claim(3, At("UnivariateSkip", "Product"),
              ProductOf(<<Derived("ProductTauKernel"), Weighted("LeftInput", "LookupOutput"),
                          Weighted("RightInput", "Branch")>>))
ShiftClaim == Claim(2, At("NextPC", "Outer"), Mul(Derived("EqPlusOneOuter"), At("PC", "Shift")))

-----------------------------------------------------------------------------
(* Instructions: operands and lookups.                                     *)

InstructionInputClaim ==
    LET gamma == Challenge("InstructionInput")
        In(name) == At(name, "InstructionInput")
    IN  Claim(3, Folded(gamma, <<At("RightInput", "Product"), At("LeftInput", "Product")>>),
              Mul(Derived("EqProduct"),
                  Folded(gamma, <<Plus(Mul(In("RightIsRs2"), In("Rs2Value")),
                                       Mul(In("RightIsImm"), In("Imm"))),
                                  Mul(In("LeftIsRs1"), In("Rs1Value"))>>)))
InstructionReductionClaim ==
    LET gamma == Challenge("InstructionClaimReduction")
        names == <<"LookupOutput", "LeftLookup", "RightLookup", "LeftInput", "RightInput">>
    IN  Claim(2, Folded(gamma, Opens(One(names, "Outer"))),
              Mul(Derived("EqSpartan"), Folded(gamma, Opens(One(names, "InstructionReduction")))))
InstructionReadRafClaim(c) ==
    LET gamma == Challenge("InstructionReadRaf")
        ra == ProductOf(Opens(Family("VirtualInstructionRa", VirtualRaCount(c), "InstructionReadRaf")))
        flags == Family("LookupTableFlag", c.tables, "InstructionReadRaf")
        per_table == [i \in DOMAIN flags |-> Mul(DerivedAt("EqTableValue", i), Open(flags[i]))]
    IN  Claim(VirtualRaCount(c) + 2,
              Folded(gamma, Opens(One(<<"LookupOutput", "LeftLookup", "RightLookup">>,
                                      "InstructionReduction"))),
              Mul(ra, SumOf(per_table
                        \o <<Derived("EqRafConstant"),
                             Mul(Derived("EqRafFlag"),
                                 At("InstructionRafFlag", "InstructionReadRaf"))>>)))
InstructionRaClaim(c) ==
    LET gamma == Challenge("InstructionRaVirtualization")
        per == c.vra \div c.chunk
        columns == Family("InstructionRa", InstructionRaCount(c), "InstructionRaVirtualization")
        Virtual(i) == ProductOf(Opens(SubSeq(columns, (i - 1) * per + 1, i * per)))
    IN  Claim(per + 1,
              Folded(gamma, Opens(Family("VirtualInstructionRa", VirtualRaCount(c),
                                         "InstructionReadRaf"))),
              Mul(Derived("InstructionRaEqCycle"),
                  Folded(gamma, [i \in 1 .. VirtualRaCount(c) |-> Virtual(i)])))

-----------------------------------------------------------------------------
(* Registers and memory.                                                   *)

RegistersReductionClaim ==
    LET gamma == Challenge("RegistersClaimReduction")
        names == <<"RdWriteValue", "Rs1Value", "Rs2Value">>
    IN  Claim(2, Folded(gamma, Opens(One(names, "Outer"))),
              Mul(Derived("RegistersEqSpartan"),
                  Folded(gamma, Opens(One(names, "RegistersReduction")))))
RegistersReadWriteClaim ==
    LET gamma == Challenge("RegistersReadWrite")
        In(name) == At(name, "RegistersReadWrite")
    IN  Claim(3, Folded(gamma, Opens(One(<<"RdWriteValue", "Rs1Value", "Rs2Value">>,
                                         "RegistersReduction"))),
              Mul(Derived("RegistersEqCycle"),
                  Folded(gamma, <<Mul(In("RdWa"), Plus(In("RdInc"), In("RegistersVal"))),
                                  Mul(In("Rs1Ra"), In("RegistersVal")),
                                  Mul(In("Rs2Ra"), In("RegistersVal"))>>)))
RegistersValEvaluationClaim ==
    Claim(3, At("RegistersVal", "RegistersReadWrite"),
          ProductOf(<<Derived("RegistersLtCycle"), At("RdInc", "RegistersValEvaluation"),
                      At("RdWa", "RegistersValEvaluation")>>))

RamReadWriteClaim ==
    LET gamma == Challenge("RamReadWrite")
        In(name) == At(name, "RamReadWrite")
    IN  Claim(3, Folded(gamma, Opens(One(<<"RamReadValue", "RamWriteValue">>, "Outer"))),
              Mul(Derived("RamEqCycle"),
                  Mul(In("VirtualRamRa"),
                      Folded(gamma, <<In("RamVal"), Plus(In("RamVal"), In("RamInc"))>>))))
RamRafClaim(c) ==
    Claim(2, Mul(Const(2 ^ Phase3Cycle(Ram(c))), At("RamAddress", "Outer")),
          Mul(Derived("UnmapAddress"), At("VirtualRamRa", "RamRaf")))
RamOutputClaim ==
    LET masked == Mul(Derived("EqAddress"), Derived("IoMask"))
    IN  Claim(3, Const(0), Minus(Mul(masked, At("RamValFinal", "RamOutput")),
                                 Mul(masked, Derived("ValIo"))))
RamValCheckClaim(c) ==
    LET gamma == Challenge("RamValCheck")
        initial == IF c.committed
                   THEN Minus(Derived("InitEval"), Mul(Derived("InitSelectorProgramImage"),
                                                       At("ProgramImage", "RamValCheck")))
                   ELSE Derived("InitEval")
    IN  Claim(3, Minus(Folded(gamma, <<At("RamVal", "RamReadWrite"), At("RamValFinal", "RamOutput")>>),
                       Mul(Folded(gamma, <<Const(1), Const(1)>>), initial)),
              ProductOf(<<Derived("LtCyclePlusGamma"), At("RamInc", "RamValCheck"),
                          At("VirtualRamRa", "RamValCheck")>>))
RamRaReductionClaim ==
    LET gamma == Challenge("RamRaClaimReduction")
    IN  Claim(2, Folded(gamma, <<At("VirtualRamRa", "RamRaf"), At("VirtualRamRa", "RamReadWrite"),
                                 At("VirtualRamRa", "RamValCheck")>>),
              Mul(Folded(gamma, <<Derived("EqCycleRaf"), Derived("EqCycleReadWrite"),
                                  Derived("EqCycleValCheck")>>),
                  At("VirtualRamRa", "RamRaReduction")))
RamRaVirtualizationClaim(c) ==
    Claim(RamRaCount(c) + 1, At("VirtualRamRa", "RamRaReduction"),
          Mul(Derived("RamRaEqCycle"),
              ProductOf(Opens(Family("RamRa", RamRaCount(c), "RamRaVirtualization")))))
RamHammingClaim ==
    LET weight == At("RamHammingWeight", "RamHammingBooleanity")
    IN  Claim(3, Const(0), Mul(Derived("HammingEqCycle"), Minus(Mul(weight, weight), weight)))

-----------------------------------------------------------------------------
(* The one-hot columns, the increments.                                    *)

BooleanityAddressClaim ==
    Claim(3, Const(0), At("BooleanityClaim", "BooleanityAddressPhase"))
BooleanityClaim(c) ==
    LET columns == Opens(Ra(c, "Booleanity"))
        gamma == Challenge("Booleanity")
    IN  Claim(3, At("BooleanityClaim", "BooleanityAddressPhase"),
              Mul(Derived("EqAddressCycle"),
                  SumOf([i \in DOMAIN columns |->
                    Mul(Power(gamma, 2 * (i - 1)),
                        Minus(Mul(columns[i], columns[i]), columns[i]))])))
HammingReductionClaim(c) ==
    LET gamma == Challenge("HammingWeightReduction")
        booleanity == Opens(Ra(c, "Booleanity"))
        virtual == Opens(RaVirtualizations(c))
        reduced == Ra(c, "HammingReduction")
        Weight(o) == IF o[1] = "RamRa" THEN At("RamHammingWeight", "RamHammingBooleanity")
                                       ELSE Const(1)
        Three(i, a, b, d) == Mul(Power(gamma, 3 * (i - 1)), Folded(gamma, <<a, b, d>>))
    IN  Claim(2, SumOf([i \in DOMAIN reduced |->
                    Three(i, Weight(reduced[i]), booleanity[i], virtual[i])]),
              SumOf([i \in DOMAIN reduced |->
                    Mul(Three(i, Const(1), Derived("EqBooleanity"),
                              DerivedAt("EqVirtualization", i)), Open(reduced[i]))]))
IncReductionClaim ==
    LET gamma == Challenge("IncClaimReduction")
    IN  Claim(2, Folded(gamma, <<At("RamInc", "RamReadWrite"), At("RamInc", "RamValCheck"),
                                 At("RdInc", "RegistersReadWrite"),
                                 At("RdInc", "RegistersValEvaluation")>>),
              Plus(Mul(Folded(gamma, <<Derived("EqRamReadWrite"), Derived("EqRamValCheck")>>),
                       At("RamInc", "IncReduction")),
                   Mul(Folded(gamma, <<Const(0), Const(0), Derived("EqRegistersReadWrite"),
                                       Derived("EqRegistersValEvaluation")>>),
                       At("RdInc", "IncReduction"))))

-----------------------------------------------------------------------------
(* The bytecode table and the committed program.                           *)

StageGamma(s) == Challenge(<<"Stage1Gamma", "Stage2Gamma", "Stage3Gamma", "Stage4Gamma",
                             "Stage5Gamma">>[s])
\* The openings that are columns of the bytecode table, in the order in which
\* the powers of each stage's gamma weigh them.
StageColumns(c) == <<
    One(<<"Imm">> \o Flags, "Outer"),
    One(<<"Branch">>, "Product"),
    One(<<"Imm", "LeftIsRs1", "RightIsRs2", "RightIsImm">>, "InstructionInput"),
    One(<<"RdWa", "Rs1Ra", "Rs2Ra">>, "RegistersReadWrite"),
    <<<<"RdWa", 0, "RegistersValEvaluation">>, <<"InstructionRafFlag", 0, "InstructionReadRaf">>>>
        \o Family("LookupTableFlag", c.tables, "InstructionReadRaf")>>
StageClaim(c, s) == Folded(StageGamma(s), Opens(StageColumns(c)[s]))
BytecodeGamma == Challenge("BytecodeReadRaf")
BytecodeAddressClaim(c) ==
    Claim(BytecodeRaCount(c) + 1,
          Folded(BytecodeGamma, [s \in 1 .. ValStages |-> StageClaim(c, s)]
                    \o <<At("PC", "Outer"), At("PC", "Shift"), Const(1)>>),
          At("BytecodeClaim", "BytecodeAddressPhase"))
BytecodeRaProduct(c) ==
    ProductOf(Opens(Family("BytecodeRa", BytecodeRaCount(c), "BytecodeReadRaf")))
RafTerms == <<Derived("SpartanOuterRaf"), Derived("SpartanShiftRaf"), Derived("Entry")>>
BytecodeReadRafPlain(c) ==
    Claim(BytecodeRaCount(c) + 1, At("BytecodeClaim", "BytecodeAddressPhase"),
          Mul(Folded(BytecodeGamma, [s \in 1 .. ValStages |-> DerivedAt("StageValue", s)] \o RafTerms),
              BytecodeRaProduct(c)))
BytecodeVals(c) == Family("BytecodeVal", ValStages, "BytecodeAddressPhase")
BytecodeReadRafCommitted(c) ==
    Claim(BytecodeRaCount(c) + 1, At("BytecodeClaim", "BytecodeAddressPhase"),
          Mul(Folded(BytecodeGamma,
                [s \in 1 .. ValStages |->
                    Mul(DerivedAt("StageCycleEq", s), Open(BytecodeVals(c)[s]))] \o RafTerms),
              BytecodeRaProduct(c)))
BytecodeReadRafClaim(c) ==
    IF c.committed THEN BytecodeReadRafCommitted(c) ELSE BytecodeReadRafPlain(c)

Eta == Challenge("Eta")
FinalChunks(c, relation) ==
    SumOf([i \in 1 .. c.chunk_count |->
        Mul(DerivedAt("ChunkOutputWeight", i), Open(<<"BytecodeChunk", i, relation>>))])
FinalImage(relation) == Mul(Derived("FinalScale"), At("ProgramImage", relation))
BytecodeCycleClaim(c) ==
    Claim(2, Folded(Eta, Opens(BytecodeVals(c))),
          IF SplitsReduction(c, BytecodeLayout(c))
          THEN At("BytecodeIntermediate", "BytecodeReductionCycle")
          ELSE FinalChunks(c, "BytecodeReductionCycle"))
BytecodeAddressReductionClaim(c) ==
    Claim(2, At("BytecodeIntermediate", "BytecodeReductionCycle"), FinalChunks(c, "BytecodeReduction"))
ImageCycleClaim(c) ==
    Claim(2, At("ProgramImage", "RamValCheck"),
          IF SplitsReduction(c, ImageLayout(c)) THEN At("ProgramImage", "ImageReductionCycle")
                                                ELSE FinalImage("ImageReductionCycle"))
ImageAddressClaim == Claim(2, At("ProgramImage", "ImageReductionCycle"), FinalImage("ImageReduction"))
=============================================================================
