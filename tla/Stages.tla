------------------------------- MODULE Stages -------------------------------
(***************************************************************************)
(* The protocol from the first challenge to the final opening: the prover  *)
(* runs its sumcheck stages (jolt-prover/src/stages), then the verifier    *)
(* runs its own (jolt-verifier/src/stages) over what it was sent.  Claims  *)
(* are true or false; a sumcheck with a false claim on its input can only  *)
(* be finished by claiming something false on its output, unless the input *)
(* could still be chosen after the challenges were known.  A cheating      *)
(* prover chooses which outputs to falsify; an honest one none.            *)
(***************************************************************************)
EXTENDS ClaimGraph

CONSTANTS Configs,      \* the shapes of programs, traces and parameters
          VcCapacity    \* values one hiding commitment holds

VARIABLES
    c,          \* the configuration
    side,       \* "prover", then "verifier"
    step,       \* the index of the sumcheck that is next
    points,     \* where the claims made so far are
    log,        \* each side's transcript
    false,      \* the claims made so far that do not hold
    bound,      \* the claims fixed before the challenges to come
    cheats,     \* claims falsified unprompted, at most c.cheats
    verdict     \* "none", "accept" or the error

vars == <<c, side, step, points, log, false, bound, cheats, verdict>>

\* The batch types both sides build, in the order of their fields.
Stage1Batch == <<"OuterRemainder">>
Stage2Batch == <<"RamReadWrite", "ProductRemainder", "InstructionClaimReduction",
                 "RamRafEvaluation", "RamOutputCheck">>
Stage3Batch == <<"SpartanShift", "InstructionInput", "RegistersClaimReduction">>
Stage4Batch == <<"RegistersReadWrite", "RamValCheck">>
Stage5Batch == <<"InstructionReadRaf", "RamRaClaimReduction", "RegistersValEvaluation">>
Stage6aBatch == <<"BytecodeAddressPhase", "BooleanityAddressPhase">>
Stage6bBatch ==
    <<"BytecodeReadRaf", "Booleanity", "RamHammingBooleanity", "RamRaVirtualization",
      "InstructionRaVirtualization", "IncClaimReduction">>
    \o (IF c.committed THEN <<"BytecodeReductionCycle", "ImageReductionCycle">> ELSE <<>>)
Stage7Batch ==
    <<"HammingWeightReduction">>
    \o (IF SplitsReduction(c, BytecodeLayout(c)) THEN <<"BytecodeReductionAddress">> ELSE <<>>)
    \o (IF SplitsReduction(c, ImageLayout(c)) THEN <<"ImageReductionAddress">> ELSE <<>>)
Sumchecks == <<"u1", "s1", "u2", "s2", "s3", "s4", "s5", "s6a", "s6b", "s7">>
Members(s) ==
    CASE s = "u1" -> <<"OuterUniskip">>
      [] s = "s1" -> Stage1Batch
      [] s = "u2" -> <<"ProductUniskip">>
      [] s = "s2" -> Stage2Batch
      [] s = "s3" -> Stage3Batch
      [] s = "s4" -> Stage4Batch
      [] s = "s5" -> Stage5Batch
      [] s = "s6a" -> Stage6aBatch
      [] s = "s6b" -> Stage6bBatch
      [] s = "s7" -> Stage7Batch

Rounds(m) ==
    CASE m \in {"OuterUniskip", "ProductUniskip"} -> 1
      [] m = "OuterRemainder" -> c.log_t + 1
      [] m = "RamReadWrite" -> c.log_t + c.log_k
      [] m \in {"RamRafEvaluation", "RamOutputCheck"} -> c.log_t + c.log_k - c.p1
      [] m = "RegistersReadWrite" -> c.log_reg + c.log_t
      [] m = "InstructionReadRaf" -> c.address_bits + c.log_t
      [] m = "BytecodeAddressPhase" -> c.log_b
      [] m \in {"BooleanityAddressPhase", "HammingWeightReduction",
                "BytecodeReductionAddress", "ImageReductionAddress"} -> c.chunk
      [] m \in {"BytecodeReductionCycle", "ImageReductionCycle"} -> Reference(c).cycle
      [] m \in {"ProductRemainder", "InstructionClaimReduction", "SpartanShift",
                "InstructionInput", "RegistersClaimReduction", "RamValCheck",
                "RamRaClaimReduction", "RegistersValEvaluation", "BytecodeReadRaf",
                "Booleanity", "RamHammingBooleanity", "RamRaVirtualization",
                "InstructionRaVirtualization", "IncClaimReduction"} -> c.log_t
BatchRounds(s) == MaxOf({Rounds(m) : m \in Range(Members(s))})

\* Where a member's window starts: at the end of the batch, but for the
\* members that idle inside another's rounds and the reductions.
Offset(s, m) ==
    CASE m \in {"RamRafEvaluation", "RamOutputCheck"} -> Phase1Offset(Ram(c), BatchRounds(s))
      [] m \in {"BytecodeReductionCycle", "ImageReductionCycle",
                "BytecodeReductionAddress", "ImageReductionAddress"} -> 0
      [] OTHER -> SuffixOffset(BatchRounds(s), Rounds(m))

\* The challenges of the rounds of a member.
Window(s, m) == InstancePoint(Challenges(s, BatchRounds(s)), Offset(s, m), Rounds(m))
RelationAt(m, ch) ==
    CASE m = "OuterUniskip" -> OuterUniskip(c, ch)
      [] m = "OuterRemainder" -> OuterRemainder(c, ch)
      [] m = "ProductUniskip" -> ProductUniskip(c, ch)
      [] m = "ProductRemainder" -> ProductRemainder(c, ch)
      [] m = "RamReadWrite" -> RamReadWrite(c, ch)
      [] m = "InstructionClaimReduction" -> InstructionClaimReduction(c, ch)
      [] m = "RamRafEvaluation" -> RamRafEvaluation(c, ch)
      [] m = "RamOutputCheck" -> RamOutputCheck(c, ch)
      [] m = "SpartanShift" -> SpartanShift(c, ch)
      [] m = "InstructionInput" -> InstructionInput(c, points, ch)
      [] m = "RegistersClaimReduction" -> RegistersClaimReduction(c, ch)
      [] m = "RegistersReadWrite" -> RegistersReadWrite(c, points, ch)
      [] m = "RamValCheck" -> RamValCheck(c, points, ch)
      [] m = "InstructionReadRaf" -> InstructionReadRaf(c, points, ch)
      [] m = "RamRaClaimReduction" -> RamRaClaimReduction(c, points, ch)
      [] m = "RegistersValEvaluation" -> RegistersValEvaluation(c, points, ch)
      [] m = "BytecodeAddressPhase" -> BytecodeAddressPhase(c, points, ch)
      [] m = "BooleanityAddressPhase" -> BooleanityAddressPhase(c, ch)
      [] m = "BytecodeReadRaf" -> BytecodeReadRaf(c, points, ch)
      [] m = "Booleanity" -> Booleanity(c, points, ch)
      [] m = "RamHammingBooleanity" -> RamHammingBooleanity(c, ch)
      [] m = "RamRaVirtualization" -> RamRaVirtualization(c, points, ch)
      [] m = "InstructionRaVirtualization" -> InstructionRaVirtualization(c, points, ch)
      [] m = "IncClaimReduction" -> IncClaimReduction(c, points, ch)
      [] m = "BytecodeReductionCycle" -> BytecodeReductionCycle(c, points, ch)
      [] m = "ImageReductionCycle" -> ImageReductionCycle(c, points, ch)
      [] m = "HammingWeightReduction" -> HammingWeightReduction(c, points, ch)
      [] m = "BytecodeReductionAddress" -> BytecodeReductionAddress(c, points, ch)
      [] m = "ImageReductionAddress" -> ImageReductionAddress(c, points, ch)
RelationOf(s, m) == RelationAt(m, Window(s, m))

\* The batch of sumcheck s: its relations, in order, and what they leave.
Batch(s) == <<>> \o [i \in DOMAIN Members(s) |-> RelationOf(s, Members(s)[i])]
Outputs(batch) == FlattenSeq([i \in DOMAIN batch |-> batch[i].outs])
OutputPoints(batch) == FoldSeq(LAMBDA r, acc : r.at @@ acc, <<>>, batch)

-----------------------------------------------------------------------------
(* Openings that are another's value again.                                *)

\* Declared: the same polynomial, opened by two relations of one batch.
DeclaredAliases(s) ==
    CASE s = "s2" -> [o \in Range(One(<<"LookupOutput", "LeftInput", "RightInput">>,
                                      "InstructionReduction")) |-> <<o[1], 0, "Product">>]
      [] s = "s3" -> [o \in Range(One(<<"Rs1Value", "Rs2Value">>, "RegistersReduction")) |->
                        <<o[1], 0, "InstructionInput">>]
      [] OTHER -> <<>>

\* Found at run time: a bytecode column that the read-checking and the
\* booleanity sumcheck happen to open at the same point.
AliasesAnywhere(s, at) ==       \* slip: whatever the points
    IF s # "s6b" THEN <<>>
    ELSE [o \in {x \in DOMAIN at : x[1] = "BytecodeRa" /\ x[3] = "Booleanity"}
            |-> <<o[1], o[2], "BytecodeReadRaf">>]
RuntimeAliases(s, at) ==
    IF s # "s6b" THEN <<>>
    ELSE [o \in {x \in DOMAIN at : /\ x[1] = "BytecodeRa" /\ x[3] = "Booleanity"
                                   /\ at[<<x[1], x[2], "BytecodeReadRaf">>] = at[x]}
            |-> <<o[1], o[2], "BytecodeReadRaf">>]
Aliases(s, at) == DeclaredAliases(s) @@ RuntimeAliases(s, at)

-----------------------------------------------------------------------------
(* Transcripts.  Items are <<"absorb", ...>> and <<"draw", ...>>.          *)

Absorb(x) == <<"absorb", x>>
Draw(x) == <<"draw", x>>
Times(n, item) == [i \in 1 .. n |-> item]

\* The challenges a member draws for itself, one after the other.
DrawCount(m) ==
    CASE m = "RamOutputCheck" -> c.log_k
      [] m = "BytecodeAddressPhase" -> 6
      [] m = "BooleanityAddressPhase" ->
            (IF c.address_bits < c.chunk THEN c.chunk - c.address_bits ELSE 0) + 1
      [] m \in {"RamReadWrite", "InstructionClaimReduction", "InstructionInput",
                "RegistersClaimReduction", "RegistersReadWrite", "RamValCheck",
                "InstructionReadRaf", "RamRaClaimReduction", "HammingWeightReduction"} -> 1
      [] OTHER -> 0
BatchDraws(members) ==
    FlattenSeq([i \in DOMAIN members |->
        (IF members[i] = "RamValCheck" THEN <<Absorb("ram_val_check_gamma")>> ELSE <<>>)
            \o Times(DrawCount(members[i]), Draw(members[i]))])
OuterTau == Times(c.log_t + 2, Draw("tau"))
\* Stage 6b draws before it builds its members; eta only for a committed program.
Stage6bDraws ==
    <<Draw("instruction_ra_gamma"), Draw("inc_gamma")>>
        \o (IF c.committed THEN <<Draw("eta")>> ELSE <<>>)

\* What the prover's stage functions run, and what they draw before each.
Sumcheck(s, before) == [name |-> s, before |-> before]
ProveStage1 == <<Sumcheck("u1", OuterTau), Sumcheck("s1", BatchDraws(Stage1Batch))>>
ProveStage2 == <<Sumcheck("u2", <<Draw("tau_high")>>), Sumcheck("s2", BatchDraws(Stage2Batch))>>
ProveStage3 == <<Sumcheck("s3", BatchDraws(Stage3Batch))>>
ProveStage4 == <<Sumcheck("s4", BatchDraws(Stage4Batch))>>
ProveStage5 == <<Sumcheck("s5", BatchDraws(Stage5Batch))>>
ProveStage6a == <<Sumcheck("s6a", BatchDraws(Stage6aBatch))>>
ProveStage6b == <<Sumcheck("s6b", Stage6bDraws)>>
ProveStage7 == <<Sumcheck("s7", BatchDraws(Stage7Batch))>>
Proving ==
    ProveStage1 \o ProveStage2 \o ProveStage3 \o ProveStage4 \o ProveStage5
        \o ProveStage6a \o ProveStage6b \o ProveStage7

\* And the verifier's, which are written again: a hiding first stage draws
\* nothing for its batch.
VerifyStage1 ==
    <<Sumcheck("u1", OuterTau),
      Sumcheck("s1", IF c.zk THEN <<>> ELSE BatchDraws(Stage1Batch))>>
VerifyProductUniskip == <<Sumcheck("u2", <<Draw("tau_high")>>)>>
VerifyStage2 == VerifyProductUniskip \o <<Sumcheck("s2", BatchDraws(Stage2Batch))>>
VerifyStage3 == <<Sumcheck("s3", BatchDraws(Stage3Batch))>>
VerifyStage4 == <<Sumcheck("s4", BatchDraws(Stage4Batch))>>
VerifyStage5 == <<Sumcheck("s5", BatchDraws(Stage5Batch))>>
VerifyStage6a == <<Sumcheck("s6a", BatchDraws(Stage6aBatch))>>
VerifyStage6b == <<Sumcheck("s6b", Stage6bDraws)>>
VerifyStage7 == <<Sumcheck("s7", BatchDraws(Stage7Batch))>>
Verifying ==
    VerifyStage1 \o VerifyStage2 \o VerifyStage3 \o VerifyStage4 \o VerifyStage5
        \o VerifyStage6a \o VerifyStage6b \o VerifyStage7

RoundItems(s) ==
    FlattenSeq([i \in 1 .. BatchRounds(s) |-> <<Absorb(<<s, i>>), Draw(<<s, i>>)>>])
\* A clear batch absorbs its input claims, a committed one has them already;
\* both draw one coefficient for every member.
Prelude(s) ==
    (IF c.zk THEN <<>> ELSE [i \in DOMAIN Members(s) |-> Absorb(<<"input", Members(s)[i]>>)])
        \o [i \in DOMAIN Members(s) |-> Draw(<<"coefficient", Members(s)[i]>>)]
OutputItems(openings) ==
    IF c.zk THEN [i \in 1 .. CeilDiv(Len(openings), VcCapacity) |->
                    Absorb(<<"outputs", SubSeq(openings, (i - 1) * VcCapacity + 1,
                        IF i * VcCapacity < Len(openings) THEN i * VcCapacity
                                                          ELSE Len(openings))>>)]
    ELSE [i \in DOMAIN openings |-> Absorb(openings[i])]

\* The prover's recorder takes the curated values, the verifier appends
\* member by member; both leave out the aliases.
IsImage(o) == o[1] = "ProgramImage"
NotImage(o) == ~IsImage(o)
\* Stage 4 puts the program image before the registers' openings.
Canonical(s, openings) ==
    IF s = "s4" THEN SelectSeq(openings, IsImage) \o SelectSeq(openings, NotImage) ELSE openings
Curated(s, batch) ==
    LET aliases == DOMAIN Aliases(s, OutputPoints(batch))
        Fresh(o) == o \notin aliases
    IN  Canonical(s, SelectSeq(Outputs(batch), Fresh))
AppendedAll(s, batch) == Canonical(s, Outputs(batch))   \* slip: aliases absorbed again
Appended(s, batch) ==
    LET aliases == Aliases(s, OutputPoints(batch))
        Fresh(o) == o \notin DOMAIN aliases
    IN  Canonical(s, FlattenSeq([i \in DOMAIN batch |-> SelectSeq(batch[i].outs, Fresh)]))

Preamble == <<Absorb("digest"), Absorb("entry_pc"), Absorb("io"), Absorb("ram_K"),
    Absorb("trace_length"), Absorb("rw_config"), Absorb("log_k_chunk"),
    Absorb("lookups_ra_virtual_log_k_chunk"), Absorb("dory_layout")>>
Committed ==
    <<<<"RdInc", 0>>, <<"RamInc", 0>>>>
        \o [i \in 1 .. InstructionRaCount(c) |-> <<"InstructionRa", i>>]
        \o [i \in 1 .. RamRaCount(c) |-> <<"RamRa", i>>]
        \o [i \in 1 .. BytecodeRaCount(c) |-> <<"BytecodeRa", i>>]
        \o (IF c.committed
            THEN [i \in 1 .. c.chunk_count |-> <<"BytecodeChunk", i>>] \o <<<<"ProgramImage", 0>>>>
            ELSE <<>>)
Seed == Preamble \o [i \in DOMAIN Committed |-> Absorb(Committed[i])]

\* A uni-skip round is a sumcheck of its own, of one round and no prelude.
IsUniskip(s) == s \in {"u1", "u2"}
ProveUniskip(s, batch) == RoundItems(s) \o OutputItems(Outputs(batch))
VerifyUniskip(s, batch) == RoundItems(s) \o OutputItems(Outputs(batch))
ProverItems(sumcheck, batch) ==
    LET s == sumcheck.name
    IN  sumcheck.before \o
        (IF IsUniskip(s) THEN ProveUniskip(s, batch)
         ELSE Prelude(s) \o RoundItems(s) \o OutputItems(Curated(s, batch)))
VerifierItems(sumcheck, batch) ==
    LET s == sumcheck.name
    IN  sumcheck.before \o
        (IF IsUniskip(s) THEN VerifyUniskip(s, batch)
         ELSE Prelude(s) \o RoundItems(s) \o OutputItems(Appended(s, batch)))

\* A hiding prover runs the verifier's stages over what it is about to send,
\* and stops unless they leave the transcript it has itself.
Replay ==
    <<Seed>> \o [k \in DOMAIN Verifying |-> VerifierItems(Verifying[k], Batch(Verifying[k].name))]

\* How many openings the verifier expects behind a hiding proof's commitments:
\* those not declared aliases and, in stage 6b, less the bytecode openings
\* that lie at the booleanity point.
ExpectedOpenings(s, batch) ==
    LET at == OutputPoints(batch)
        Declared(o) == o \notin DOMAIN DeclaredAliases(s)
        AtBooleanity(o) == /\ o[1] = "BytecodeRa" /\ o[3] = "BytecodeReadRaf"
                           /\ at[o] = at[<<"InstructionRa", 1, "Booleanity">>]
    IN  Len(SelectSeq(Outputs(batch), Declared))
            - (IF s = "s6b" THEN Len(SelectSeq(Outputs(batch), AtBooleanity)) ELSE 0)
CommitmentsCounted(s, batch) ==
    c.zk => CeilDiv(ExpectedOpenings(s, batch), VcCapacity)
                = CeilDiv(Len(Curated(s, batch)), VcCapacity)

-----------------------------------------------------------------------------
(* The final opening (stage 8).                                            *)

\* The committed polynomials, and the claim each is opened for.
Entries ==
    One(<<"RamInc", "RdInc">>, "IncReduction") \o Ra(c, "HammingReduction")
        \o (IF ~c.committed THEN <<>>
            ELSE Family("BytecodeChunk", c.chunk_count,
                        IF SplitsReduction(c, BytecodeLayout(c)) THEN "BytecodeReduction"
                                                                 ELSE "BytecodeReductionCycle")
                 \o <<<<"ProgramImage", 0,
                       IF SplitsReduction(c, ImageLayout(c)) THEN "ImageReduction"
                                                             ELSE "ImageReductionCycle">>>>)

\* A claim without an address phase is opened in the order of the joint
\* matrix, not in that of its sumcheck.
OwnPoint(o) ==
    LET layout == IF o[1] = "ProgramImage" THEN ImageLayout(c) ELSE BytecodeLayout(c)
    IN  IF o[3] \in {"BytecodeReductionCycle", "ImageReductionCycle"}
        THEN CyclePhasePermuted(Reference(c), layout, points[o])
        ELSE points[o]
Precommitted(o) == o[1] \in {"BytecodeChunk", "ProgramImage"}
AnchorPoints ==
    LET anchors == SelectSeq(Entries, Precommitted)
    IN  [i \in DOMAIN anchors |-> OwnPoint(anchors[i])]
Unified ==
    FinalOpeningPoint(c.log_t, c.chunk, c.order, points[<<"InstructionRa", 1, "HammingReduction">>],
                      points[<<"RamInc", 0, "IncReduction">>], AnchorPoints)

\* Coordinates the claim is scaled by: those its own point does not contain.
ScaledBy(unified, own) == Range(unified) \ Range(own)

\* The prover's side: the position of each variable in the joint grid.
GridPositions(o, own) ==
    LET n == Reference(c).total
        dense == own = c.log_t
        First(v) == RowVars(n) - RowVars(v)
    IN  IF Precommitted(o)
        THEN [i \in 1 .. own |-> IF i <= RowVars(own) THEN First(own) + i ELSE n - own + i]
        ELSE IF c.order = "CycleMajor"
        THEN [i \in 1 .. own |-> n - own + i]
        ELSE [i \in 1 .. own |-> IF dense THEN i
                                 ELSE IF i <= c.chunk THEN c.log_t + i ELSE i - c.chunk]

-----------------------------------------------------------------------------
(* Steps.                                                                  *)

Init ==
    /\ c \in Configs
    /\ side = "prover" /\ step = 1 /\ points = <<>>
    /\ log = [prover |-> <<Seed>>, verifier |-> <<>>]
    /\ false = {} /\ bound = {} /\ cheats = 0
    /\ verdict = "none"

\* Address points compared before a stage goes on, by the verifier and by
\* the prover.
PointsAgree(s) ==
    CASE s = "s4" -> RamAddressPoint(c, points) = points[<<"RamValFinal", 0, "RamOutput">>]
      [] s = "s5" -> \A o \in RamRaInputs :
                        AddressOf(c, o, points[o]) = RamAddressPoint(c, points)
      [] OTHER -> TRUE

\* One sumcheck of the prover; what it claims is played out below, when the
\* verifier reads it.
ProverStage ==
    /\ side = "prover" /\ verdict = "none" /\ step <= Len(Sumchecks)
    /\ \E sumcheck \in {Proving[step]} :
       IF ~PointsAgree(sumcheck.name)
       THEN verdict' = "error" /\ UNCHANGED <<step, points, log>>
       ELSE \E batch \in {Batch(sumcheck.name)} :
            /\ points' = OutputPoints(batch) @@ points
            /\ log' = [log EXCEPT !.prover = Append(@, ProverItems(sumcheck, batch))]
            /\ step' = step + 1
            /\ UNCHANGED verdict
    /\ UNCHANGED <<c, side, false, bound, cheats>>
Send ==
    /\ side = "prover" /\ verdict = "none" /\ step > Len(Sumchecks)
    /\ IF c.zk /\ Replay # log.prover
       THEN verdict' = "error" /\ UNCHANGED <<side, step, points, log>>
       ELSE /\ side' = "verifier" /\ step' = 1 /\ points' = <<>>
            /\ log' = [log EXCEPT !.verifier = Append(@, Seed)]
            /\ UNCHANGED verdict
    /\ UNCHANGED <<c, false, bound, cheats>>

\* The members that start from a false claim fixed beforehand.
Forced(batch) == {i \in DOMAIN batch : batch[i].ins \cap false \cap bound # {}}
\* A forced member leaves a false claim; one more may be falsified at will.
Falsifications(batch) ==
    LET choices == {f \in [Forced(batch) -> Range(Outputs(batch))] :
                        \A i \in Forced(batch) : f[i] \in Range(batch[i].outs)}
    IN  {Range(f) : f \in choices}
Wilful(batch) ==
    {{}} \cup (IF cheats < c.cheats THEN {{o} : o \in Range(Outputs(batch))} ELSE {})

\* An alias holds the value of the opening it stands for.
AliasesIgnored(aliases, falsified) == TRUE      \* slip: not compared
AliasesConsistent(aliases, falsified) ==
    \A o \in DOMAIN aliases : o \in falsified <=> aliases[o] \in falsified

VerifierStage ==
    /\ side = "verifier" /\ verdict = "none" /\ step <= Len(Sumchecks)
    /\ \E sumcheck \in {Verifying[step]} :
       LET s == sumcheck.name IN
       IF ~PointsAgree(s)
       THEN verdict' = "error" /\ UNCHANGED <<step, points, log, false, bound, cheats>>
       ELSE \E batch \in {Batch(s)} :
            LET at == OutputPoints(batch)
                aliases == Aliases(s, at)
                items == VerifierItems(sumcheck, batch)
            IN  \E counted \in {CommitmentsCounted(s, batch)} :
                \E forced \in Falsifications(batch), wilful \in Wilful(batch) :
                \E falsified \in {forced \cup wilful,
                                  forced \cup wilful
                                    \cup {o \in DOMAIN aliases : aliases[o] \in forced \cup wilful}
                                    \cup {aliases[o] : o \in DOMAIN aliases
                                                            \cap (forced \cup wilful)}} :
                /\ points' = at @@ points
                /\ log' = [log EXCEPT !.verifier = Append(@, items)]
                /\ false' = false \cup falsified
                /\ bound' = bound \cup Range(Appended(s, batch))
                                 \cup {o \in DOMAIN aliases : AliasesConsistent(aliases, falsified)}
                /\ cheats' = IF wilful = {} THEN cheats ELSE cheats + 1
                /\ verdict' = IF AliasesConsistent(aliases, falsified) /\ counted
                             THEN "none" ELSE "error"
                /\ step' = step + 1
    /\ UNCHANGED <<c, side>>

VerifierOpening ==
    /\ side = "verifier" /\ verdict = "none" /\ step > Len(Sumchecks)
    /\ verdict' = IF Unified = <<"error">> \/ Range(Entries) \cap false # {}
                  THEN "error" ELSE "accept"
    /\ UNCHANGED <<c, side, step, points, log, false, bound, cheats>>

Next == ProverStage \/ Send \/ VerifierStage \/ VerifierOpening
Spec == Init /\ [][Next]_vars

-----------------------------------------------------------------------------
(* Properties.                                                             *)

\* Every relation finds its input claims made, and at the point its eq, lt or
\* shift factor assumes: whatever the phase split of the read-write
\* checking, the padding of addresses and the program's size, what one
\* stage opens is what the later stage evaluates.
AnchorsMet ==
    verdict = "none" /\ step <= Len(Sumchecks) =>
        LET s == Sumchecks[step] IN
        \A i \in DOMAIN Members(s) :
            LET r == RelationOf(s, Members(s)[i])
            IN  /\ r.ins \subseteq DOMAIN points
                /\ \A a \in r.anchors : PartOf(c, a[2], a[1], points[a[1]]) = a[3]

\* An alias is the same polynomial at the same point as what it stands for.
AliasesSame ==
    \A s \in {"s2", "s3", "s6b"} :
        LET aliases == Aliases(s, points)
        IN  \A o \in DOMAIN aliases \cap DOMAIN points :
                aliases[o][1] = o[1] /\ points[aliases[o]] = points[o]

\* A claim that does not hold is never accepted: each false claim is carried
\* by some later relation, through every stage, to a committed polynomial.
AcceptedClaimsTrue == verdict = "accept" => false = {}

\* In the joint opening every committed polynomial is evaluated at the point
\* its claim was reduced to: its variables' places in the joint grid hold its
\* own coordinates, and the factor for the rest is made of the others.
OpeningsMeet ==
    side = "verifier" /\ step > Len(Sumchecks) =>
        LET unified == Unified
        IN  \/ unified = <<"error">>
            \/ /\ Len(unified) = Reference(c).total
               /\ \A o \in Range(Entries) :
                    LET own == OwnPoint(o) \o <<>>
                        at == GridPositions(o, Len(own))
                    IN  /\ \A i \in DOMAIN at : unified[at[i]] = own[i]
                        /\ ScaledBy(unified, own) =
                                {unified[i] : i \in DOMAIN unified \ Range(at)}

\* Openings meet where they are used: at the point a later stage assumes, under
\* each of the names the stages give them, and in the joint opening.
PointsMeet == AnchorsMet /\ AliasesSame /\ OpeningsMeet

\* The verifier makes the transcript calls the prover made, in their order:
\* clear or hiding, with a plain or a committed program.
TranscriptsAgree == IsPrefix(log.verifier, log.prover)
\* A prover that claims nothing false is accepted.
HonestAccepted == verdict # "none" /\ false = {} => verdict = "accept"

\* Prover and verifier are one protocol: the same transcript, and no honest
\* proof refused.
SidesAgree == TranscriptsAgree /\ HonestAccepted
=============================================================================
