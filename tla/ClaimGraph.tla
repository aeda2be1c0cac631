----------------------------- MODULE ClaimGraph -----------------------------
(***************************************************************************)
(* The claims of the protocol's seven sumcheck stages: for every relation, *)
(* which openings its input claim consumes, which openings it leaves, at   *)
(* which points, and which point its eq, eq_plus_one or lt factor assumes  *)
(* the consumed openings to be at (jolt-verifier/src/stages).  An opening  *)
(* is <<polynomial, index, relation>>; a point is a sequence of            *)
(* coordinates <<stage, i>>, the i-th challenge of the stage's sumcheck.   *)
(*                                                                         *)
(* c is a configuration, p the points of the openings produced so far.     *)
(***************************************************************************)
EXTENDS OpeningPoints

One(names, relation) == [i \in DOMAIN names |-> <<names[i], 0, relation>>]
Family(name, n, relation) == [i \in 1 .. n |-> <<name, i, relation>>]
AllAt(openings, point) == [o \in Range(openings) |-> point]
EachAt(openings, points) == [o \in Range(openings) |-> points[o[2]]]

InstructionRaCount(c) == c.address_bits \div c.chunk
VirtualRaCount(c) == c.address_bits \div c.vra
BytecodeRaCount(c) == CeilDiv(c.log_b, c.chunk)
RamRaCount(c) == CeilDiv(c.log_k, c.chunk)
Ram(c) == [log_t |-> c.log_t, log_k |-> c.log_k, phase1 |-> c.p1, phase2 |-> c.p2]
Registers(c) == [log_t |-> c.log_t, log_k |-> c.log_reg, phase1 |-> c.r1, phase2 |-> c.r2]

\* The committed program's polynomials and their place in the joint matrix.
Candidates(c) == IF c.committed THEN {c.bc_vars, c.image_vars} ELSE {}
Reference(c) == SchedulingReference(c.log_t + c.chunk, Candidates(c), c.chunk)
BytecodeLayout(c) == Project(Reference(c), c.order, c.log_t, c.bc_vars)
ImageLayout(c) == Project(Reference(c), c.order, c.log_t, c.image_vars)
SplitsReduction(c, layout) == c.committed /\ HasAddressPhase(Reference(c), layout)

Challenges(stage, rounds) == [i \in 1 .. rounds |-> <<stage, i>>]

\* The cycle variables of an opening: all but the group bit of the outer
\* sumcheck's, the last ones elsewhere.
CycleOf(c, o, point) == IF o[3] = "Outer" THEN SubSeq(point, 1, c.log_t)
                        ELSE Suffix(point, c.log_t)
AddressOf(c, o, point) == SubSeq(point, 1, Len(point) - c.log_t)
PartOf(c, part, o, point) ==
    CASE part = "cycle" -> CycleOf(c, o, point)
      [] part = "address" -> AddressOf(c, o, point)
      [] part = "whole" -> point

\* What a relation is: its claims, its rounds, the number of challenges it
\* draws, the points of its openings, the openings that are another's value
\* again, and the claims its factors take to be at a point.
Anchor(claims, part, point) == {<<o, part, point>> : o \in claims}
Relation(ins, outs, at, anchors) ==
    [ins |-> ins, outs |-> outs, at |-> at, anchors |-> anchors]

-----------------------------------------------------------------------------
(* Stages 1 and 2: the row constraints, products, memory.                  *)

Flags == <<"LeftIsRs1", "RightIsRs2", "RightIsImm", "AddOperands", "SubOperands",
    "MulOperands", "WriteLookupToRd", "Load", "Store", "Jump", "Branch", "Assert",
    "Halt", "Trap", "Advice">>
OuterColumns == <<"LeftInput", "RightInput", "Product", "PC", "Imm", "RamAddress",
    "Rs1Value", "Rs2Value", "RdWriteValue", "RamReadValue", "RamWriteValue",
    "LeftLookup", "RightLookup", "NextPC", "LookupOutput", "ShouldBranch">> \o Flags

Outer(names) == Range(One(names, "Outer"))
TauLow(c) == Reverse(Drop(Challenges("s1", c.log_t + 1), 1))

OuterUniskip(c, ch) ==
    LET outs == <<<<"UnivariateSkip", 0, "Outer">>>>
    IN  Relation({}, outs, AllAt(outs, ch), {})
OuterRemainder(c, ch) ==
    LET outs == One(OuterColumns, "Outer")
    IN  Relation({<<"UnivariateSkip", 0, "Outer">>}, outs, AllAt(outs, Reverse(ch)), {})
ProductUniskip(c, ch) ==
    LET ins == Outer(<<"Product", "ShouldBranch">>)
        outs == <<<<"UnivariateSkip", 0, "Product">>>>
    IN  Relation(ins, outs, AllAt(outs, ch), Anchor(ins, "cycle", TauLow(c)))
ProductRemainder(c, ch) ==
    LET outs == One(<<"LeftInput", "RightInput", "LookupOutput", "Branch">>, "Product")
    IN  Relation({<<"UnivariateSkip", 0, "Product">>}, outs,
                 AllAt(outs, CycleOpeningPoint(ch)), {})
RamReadWrite(c, ch) ==
    LET ins == Outer(<<"RamReadValue", "RamWriteValue">>)
        outs == One(<<"RamVal", "VirtualRamRa", "RamInc">>, "RamReadWrite")
    IN  Relation(ins, outs,
            AllAt(outs, ReadWriteAddress(Ram(c), ch) \o ReadWriteCycle(Ram(c), ch)),
            Anchor(ins, "cycle", TauLow(c)))
InstructionClaimReduction(c, ch) ==
    LET names == <<"LookupOutput", "LeftLookup", "RightLookup", "LeftInput", "RightInput">>
        outs == One(names, "InstructionReduction")
    IN  Relation(Outer(names), outs, AllAt(outs, CycleOpeningPoint(ch)),
                 Anchor(Outer(names), "cycle", TauLow(c)))
RamRafEvaluation(c, ch) ==
    LET outs == <<<<"VirtualRamRa", 0, "RamRaf">>>>
    IN  Relation(Outer(<<"RamAddress">>), outs,
                 AllAt(outs, AddressOpeningPoint(Ram(c), ch) \o TauLow(c)),
                 Anchor(Outer(<<"RamAddress">>), "cycle", TauLow(c)))
RamOutputCheck(c, ch) ==
    LET outs == <<<<"RamValFinal", 0, "RamOutput">>>>
    IN  Relation({}, outs, AllAt(outs, AddressOpeningPoint(Ram(c), ch)), {})

-----------------------------------------------------------------------------
(* Stages 3 to 5: operands, registers, memory values, lookups.             *)

SpartanShift(c, ch) ==
    LET ins == Outer(<<"NextPC">>)
        outs == <<<<"PC", 0, "Shift">>>>
    IN  Relation(ins, outs, AllAt(outs, CycleOpeningPoint(ch)), Anchor(ins, "cycle", TauLow(c)))
InstructionInput(c, p, ch) ==
    LET ins == Range(One(<<"RightInput", "LeftInput">>, "Product"))
        outs == One(<<"LeftIsRs1", "Rs1Value", "RightIsRs2", "Rs2Value", "RightIsImm", "Imm">>,
                    "InstructionInput")
    IN  Relation(ins, outs, AllAt(outs, CycleOpeningPoint(ch)),
                 Anchor(ins, "whole", p[<<"LookupOutput", 0, "Product">>]))
RegistersClaimReduction(c, ch) ==
    LET names == <<"RdWriteValue", "Rs1Value", "Rs2Value">>
        outs == One(names, "RegistersReduction")
    IN  Relation(Outer(names), outs, AllAt(outs, CycleOpeningPoint(ch)),
                 Anchor(Outer(names), "cycle", TauLow(c)))
RegistersReadWrite(c, p, ch) ==
    LET ins == Range(One(<<"RdWriteValue", "Rs1Value", "Rs2Value">>, "RegistersReduction"))
        outs == One(<<"RegistersVal", "Rs1Ra", "Rs2Ra", "RdWa", "RdInc">>, "RegistersReadWrite")
    IN  Relation(ins, outs,
            AllAt(outs, ReadWriteAddress(Registers(c), ch) \o ReadWriteCycle(Registers(c), ch)),
            Anchor(ins, "whole", p[<<"RdWriteValue", 0, "RegistersReduction">>]))
RamAddressPoint(c, p) == SubSeq(p[<<"RamVal", 0, "RamReadWrite">>], 1, c.log_k)
RamValCheck(c, p, ch) ==
    LET val == <<"RamVal", 0, "RamReadWrite">>
        ins == {val, <<"RamValFinal", 0, "RamOutput">>}
        outs == One(<<"VirtualRamRa", "RamInc">>, "RamValCheck")
        image == IF c.committed THEN <<<<"ProgramImage", 0, "RamValCheck">>>> ELSE <<>>
        point == RamAddressPoint(c, p) \o CycleOpeningPoint(ch)
    IN  Relation(ins, image \o outs,
            AllAt(image, RamAddressPoint(c, p)) @@ AllAt(outs, point),
            Anchor({<<"RamValFinal", 0, "RamOutput">>}, "whole", RamAddressPoint(c, p))
                \cup Anchor({val}, "cycle", Drop(p[val], c.log_k)))
InstructionReadRaf(c, p, ch) ==
    LET ins == Range(One(<<"LookupOutput", "LeftLookup", "RightLookup">>, "InstructionReduction"))
        cycle == Reverse(Drop(ch, c.address_bits))
        flags == Family("LookupTableFlag", c.tables, "InstructionReadRaf")
        ra == Family("VirtualInstructionRa", VirtualRaCount(c), "InstructionReadRaf")
        raf == <<<<"InstructionRafFlag", 0, "InstructionReadRaf">>>>
    IN  Relation(ins, flags \o ra \o raf,
            AllAt(flags \o raf, cycle)
                @@ EachAt(ra, [i \in DOMAIN ra |->
                        SubSeq(ch, (i - 1) * c.vra + 1, i * c.vra) \o cycle]),
            Anchor(ins, "whole", p[<<"LookupOutput", 0, "InstructionReduction">>]))
RamRaInputs == {<<"VirtualRamRa", 0, r>> : r \in {"RamRaf", "RamReadWrite", "RamValCheck"}}
RamRaClaimReduction(c, p, ch) ==
    LET outs == <<<<"VirtualRamRa", 0, "RamRaReduction">>>>
    IN  Relation(RamRaInputs, outs,
            AllAt(outs, RamAddressPoint(c, p) \o CycleOpeningPoint(ch)),
            Anchor(RamRaInputs, "address", RamAddressPoint(c, p)))
RegistersValEvaluation(c, p, ch) ==
    LET val == <<"RegistersVal", 0, "RegistersReadWrite">>
        outs == One(<<"RdInc", "RdWa">>, "RegistersValEvaluation")
    IN  Relation({val}, outs,
            AllAt(outs, SubSeq(p[val], 1, c.log_reg) \o CycleOpeningPoint(ch)),
            Anchor({val}, "cycle", Drop(p[val], c.log_reg)))

-----------------------------------------------------------------------------
(* Stage 6: the bytecode table, one-hot columns, increments.               *)

\* The cycle points the five groups of bytecode claims are taken to be at.
StageCyclePoints(c, p) == <<
    Reverse(Drop(Challenges("s1", c.log_t + 1), 1)),
    p[<<"LookupOutput", 0, "Product">>],
    p[<<"PC", 0, "Shift">>],
    Drop(p[<<"RdWa", 0, "RegistersReadWrite">>], c.log_reg),
    Drop(p[<<"RdWa", 0, "RegistersValEvaluation">>], c.log_reg)>>
BytecodeClaims(c) == <<
    Outer(Flags \o <<"Imm", "PC">>),
    {<<"Branch", 0, "Product">>},
    Range(One(<<"Imm", "LeftIsRs1", "RightIsRs2", "RightIsImm">>, "InstructionInput"))
        \cup {<<"PC", 0, "Shift">>},
    Range(One(<<"RdWa", "Rs1Ra", "Rs2Ra">>, "RegistersReadWrite")),
    {<<"RdWa", 0, "RegistersValEvaluation">>, <<"InstructionRafFlag", 0, "InstructionReadRaf">>}
        \cup Range(Family("LookupTableFlag", c.tables, "InstructionReadRaf"))>>
StageAnchors(c, p) ==
    UNION {Anchor(BytecodeClaims(c)[s], "cycle", StageCyclePoints(c, p)[s]) : s \in 1 .. 5}
ValStages == 5

BytecodeAddressPhase(c, p, ch) ==
    LET outs == One(<<"BytecodeClaim">>, "BytecodeAddressPhase")
                    \o Family("BytecodeVal", IF c.committed THEN ValStages ELSE 0,
                              "BytecodeAddressPhase")
    IN  Relation(UNION Range(BytecodeClaims(c)), outs, AllAt(outs, Reverse(ch)),
                 StageAnchors(c, p))
BooleanityAddressPhase(c, ch) ==
    LET outs == <<<<"BooleanityClaim", 0, "BooleanityAddressPhase">>>>
    IN  Relation({}, outs, AllAt(outs, Reverse(ch)), {})

\* One-hot columns opened in place of a virtual one: the same cycle, and the
\* virtual address cut in chunks.
OneHot(c, name, relation, address, ch) ==
    LET chunks == Chunks(address, c.chunk)
        outs == Family(name, Len(chunks), relation)
    IN  [outs |-> outs,
         at |-> EachAt(outs, [i \in DOMAIN outs |-> chunks[i] \o Reverse(ch)])]

BytecodeClaimPoint(p) == p[<<"BytecodeClaim", 0, "BytecodeAddressPhase">>]
BooleanityClaimPoint(p) == p[<<"BooleanityClaim", 0, "BooleanityAddressPhase">>]
BytecodeReadRaf(c, p, ch) ==
    LET one_hot == OneHot(c, "BytecodeRa", "BytecodeReadRaf", BytecodeClaimPoint(p), ch)
        vals == Family("BytecodeVal", IF c.committed THEN ValStages ELSE 0,
                       "BytecodeAddressPhase")
        claim == <<"BytecodeClaim", 0, "BytecodeAddressPhase">>
    IN  Relation(IF c.committed THEN {claim} \cup Range(vals) ELSE {claim},
                 one_hot.outs, one_hot.at,
                 Anchor({claim} \cup Range(vals), "whole", BytecodeClaimPoint(p)))
Ra(c, relation) ==
    Family("InstructionRa", InstructionRaCount(c), relation)
        \o Family("BytecodeRa", BytecodeRaCount(c), relation)
        \o Family("RamRa", RamRaCount(c), relation)
Booleanity(c, p, ch) ==
    LET outs == Ra(c, "Booleanity")
    IN  Relation({<<"BooleanityClaim", 0, "BooleanityAddressPhase">>}, outs,
                 AllAt(outs, BooleanityClaimPoint(p) \o Reverse(ch)), {})
RamHammingBooleanity(c, ch) ==
    LET outs == <<<<"RamHammingWeight", 0, "RamHammingBooleanity">>>>
    IN  Relation({}, outs, AllAt(outs, Reverse(ch)), {})
RamRaVirtualization(c, p, ch) ==
    LET reduced == <<"VirtualRamRa", 0, "RamRaReduction">>
        address == SubSeq(p[reduced], 1, c.log_k)
        one_hot == OneHot(c, "RamRa", "RamRaVirtualization", address, ch)
    IN  Relation({reduced}, one_hot.outs, one_hot.at,
            Anchor({reduced}, "address", Suffix(FlattenSeq(Chunks(address, c.chunk)), c.log_k)))

\* Every virtual lookup address is a product of the columns of its chunks.
LookupAddress(c, p) ==
    FlattenSeq([i \in 1 .. VirtualRaCount(c) |->
        SubSeq(p[<<"VirtualInstructionRa", i, "InstructionReadRaf">>], 1, c.vra)])
InstructionRaVirtualization(c, p, ch) ==
    LET ins == Range(Family("VirtualInstructionRa", VirtualRaCount(c), "InstructionReadRaf"))
        chunks == Chunks(LookupAddress(c, p), c.chunk)
        per == c.vra \div c.chunk
        one_hot == OneHot(c, "InstructionRa", "InstructionRaVirtualization",
                          LookupAddress(c, p), ch)
    IN  Relation(ins, one_hot.outs, one_hot.at,
            UNION {Anchor({o}, "address",
                          FlattenSeq(SubSeq(chunks, (o[2] - 1) * per + 1, o[2] * per)))
                        : o \in ins}
                \cup Anchor(ins, "cycle", p[<<"InstructionRafFlag", 0, "InstructionReadRaf">>]))
Increments == {<<"RamInc", 0, "RamReadWrite">>, <<"RamInc", 0, "RamValCheck">>,
    <<"RdInc", 0, "RegistersReadWrite">>, <<"RdInc", 0, "RegistersValEvaluation">>}
IncClaimReduction(c, p, ch) ==
    LET outs == One(<<"RamInc", "RdInc">>, "IncReduction")
        At(val, bits) == Drop(p[val], bits)
    IN  Relation(Increments, outs, AllAt(outs, Reverse(ch)),
            Anchor({<<"RamInc", 0, "RamReadWrite">>}, "cycle",
                   At(<<"RamVal", 0, "RamReadWrite">>, c.log_k))
            \cup Anchor({<<"RamInc", 0, "RamValCheck">>}, "cycle",
                   At(<<"VirtualRamRa", 0, "RamValCheck">>, c.log_k))
            \cup Anchor({<<"RdInc", 0, "RegistersReadWrite">>}, "cycle",
                   StageCyclePoints(c, p)[4])
            \cup Anchor({<<"RdInc", 0, "RegistersValEvaluation">>}, "cycle",
                   StageCyclePoints(c, p)[5]))

\* The committed program's reductions, their cycle half.
BytecodeReductionCycle(c, p, ch) ==
    LET vals == Range(Family("BytecodeVal", ValStages, "BytecodeAddressPhase"))
        outs == IF SplitsReduction(c, BytecodeLayout(c))
                THEN <<<<"BytecodeIntermediate", 0, "BytecodeReductionCycle">>>>
                ELSE Family("BytecodeChunk", c.chunk_count, "BytecodeReductionCycle")
    IN  Relation(vals, outs,
            AllAt(outs, CyclePhaseOpeningPoint(Reference(c), BytecodeLayout(c), ch)),
            Anchor(vals, "whole", BytecodeClaimPoint(p)))
ImageReductionCycle(c, p, ch) ==
    LET image == <<"ProgramImage", 0, "RamValCheck">>
        outs == <<<<"ProgramImage", 0, "ImageReductionCycle">>>>
    IN  Relation({image}, outs,
            AllAt(outs, CyclePhaseOpeningPoint(Reference(c), ImageLayout(c), ch)),
            Anchor({image}, "whole", SubSeq(p[<<"VirtualRamRa", 0, "RamValCheck">>], 1, c.log_k)))

-----------------------------------------------------------------------------
(* Stage 7: all columns to one address point, and the address halves.      *)

RaVirtualizations(c) ==
    Family("InstructionRa", InstructionRaCount(c), "InstructionRaVirtualization")
        \o Family("BytecodeRa", BytecodeRaCount(c), "BytecodeReadRaf")
        \o Family("RamRa", RamRaCount(c), "RamRaVirtualization")
HammingWeightReduction(c, p, ch) ==
    LET booleanity == Range(Ra(c, "Booleanity"))
        virtual == Range(RaVirtualizations(c))
        weight == <<"RamHammingWeight", 0, "RamHammingBooleanity">>
        outs == Ra(c, "HammingReduction")
        reference == p[<<"InstructionRa", 1, "Booleanity">>]
        cycle == Drop(reference, c.chunk)
        ins == booleanity \cup virtual \cup {weight}
    IN  Relation(ins, outs, AllAt(outs, Reverse(ch) \o cycle),
            Anchor(ins, "cycle", cycle)
                \cup Anchor(booleanity, "address", SubSeq(reference, 1, c.chunk)))
BytecodeReductionAddress(c, p, ch) ==
    LET split == <<"BytecodeIntermediate", 0, "BytecodeReductionCycle">>
        outs == Family("BytecodeChunk", c.chunk_count, "BytecodeReduction")
    IN  Relation({split}, outs,
            AllAt(outs, AddressPhaseOpeningPoint(Reference(c), BytecodeLayout(c),
                                                 Reverse(p[split]), ch)), {})
ImageReductionAddress(c, p, ch) ==
    LET split == <<"ProgramImage", 0, "ImageReductionCycle">>
        outs == <<<<"ProgramImage", 0, "ImageReduction">>>>
    IN  Relation({split}, outs,
            AllAt(outs, AddressPhaseOpeningPoint(Reference(c), ImageLayout(c),
                                                 Reverse(p[split]), ch)), {})
=============================================================================
