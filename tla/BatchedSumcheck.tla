--------------------------- MODULE BatchedSumcheck --------------------------
(***************************************************************************)
(* prove_batch (jolt-sumcheck, prover.rs): the round loop that proves      *)
(* several sumchecks of different lengths at once, its scheduler, and the  *)
(* verifier of the proof it writes, round by round (verifier.rs).          *)
(*                                                                         *)
(* The members are the code's ProveRounds implementations (the kernels),   *)
(* here products of multilinear tables bound round by round.  A scheduler  *)
(* runs the members of a round in any order, and may leave some out.  The   *)
(* rounds are recorded in the clear, or committed (recorder.rs,            *)
(* committed.rs).                                                          *)
(*                                                                         *)
(* The transcript is a random oracle: what has been absorbed so far        *)
(* determines the challenge, and a sequence absorbed for the first time    *)
(* may get any challenge.                                                  *)
(***************************************************************************)
EXTENDS Poly, FiniteSetsExt

CONSTANTS
    Batches,    \* the preludes and members a run proves
    Forged,     \* the members a dishonest prover makes a claim about
    Proofs,     \* the proofs it may send
    Sealed,     \* the batches proved with committed rounds
    Capacity,   \* how many values a commitment takes
    Random(_, _, _) \* draws of a prover's generator: its seed, the purpose and the number

\* What BatchPrelude holds: a description of each member, and the rounds and the
\* degree of the batch.
ASSUME BatchAssumption ==
    \A b \in Batches \cup Sealed \cup Forged :
        /\ b.described \in Seq([input_claim : Field, coefficient : Field, rounds : Nat, offset : Nat])
        /\ b.max_num_vars \in Nat /\ b.max_degree \in Nat

\* A member's factors are tables over one hypercube, and its input claim, where
\* the prover is honest, is what they sum to.
ASSUME KernelAssumption ==
    \A b \in Batches \cup Sealed \cup Forged :
        /\ b.kernels \in Seq(Seq(Seq(Field)))
        /\ \A i \in DOMAIN b.kernels :
             /\ b.kernels[i] # <<>>
             /\ \E k \in 0 .. Len(b.kernels[i][1]) :
                    \A j \in DOMAIN b.kernels[i] : Len(b.kernels[i][j]) = TwoTo(k)
ASSUME HonestAssumption ==
    \A b \in Batches \cup Sealed : \A i \in DOMAIN b.described \cap DOMAIN b.kernels :
        b.described[i].input_claim = Sum(b.kernels[i])

\* What a dishonest prover makes its claim about is one member that fits the
\* claim's rounds and degree (SumcheckClaim).
ASSUME ForgedAssumption ==
    \A b \in Forged :
        /\ b.kernels # <<>>
        /\ Vars(b.kernels[1]) = b.max_num_vars /\ Len(b.kernels[1]) <= b.max_degree

ASSUME ProofAssumption == Proofs \subseteq Seq(Seq(Field))

\* The prover.
VARIABLES
    batch,          \* [described, kernels, max_num_vars, max_degree]
    tables,         \* per member: its factors as bound so far
    delivered,      \* per member: the challenges it was given, in order
    phase,          \* "check", "round", "schedule", "finish", "proved", "forged" or an error
    member_claims,
    pending_binds,  \* per member: <<>> or <<challenge>> (the code's Option)
    work,           \* the round's items not run yet
    ran,            \* the items run, in the scheduler's order
    constant,       \* the inactive members' share of the round polynomial
    running_claim,
    challenges,
    transcript,
    round_polynomials   \* compressed, or committed with their degrees

\* The verifier and the oracle.
VARIABLES
    oracle,         \* absorbed sequence -> challenge, where drawn so far
    claim,          \* the SumcheckClaim: [num_vars, degree, claimed_sum]
    proof,          \* the compressed round polynomials
    vtranscript,    \* what the verifier has absorbed
    running_sum,
    vchallenges,
    verdict         \* "waiting", "running", "reduced" or the error

vvars == <<oracle, claim, proof, vtranscript, running_sum, vchallenges, verdict>>
pvars == <<batch, tables, delivered, phase, member_claims, pending_binds, work, ran, constant,
           running_claim, challenges, transcript, round_polynomials>>
vars == <<pvars, vvars>>

-----------------------------------------------------------------------------
(* The verifier, SumcheckVerifier::verify_compressed.                      *)

\* The challenges the transcript may give once t is absorbed, and its memory.
Squeeze(t) == IF t \in DOMAIN oracle THEN {oracle[t]} ELSE Field
Remember(t, r) == [u \in DOMAIN oracle \cup {t} |-> IF u = t THEN r ELSE oracle[u]]

vround == Len(vchallenges)

\* The claim and a proof arrive; the transcript holds what came before.
Begin(c, p, t) ==
    /\ claim' = c
    /\ proof' = p
    /\ vtranscript' = t
    /\ running_sum' = c.claimed_sum
    /\ vchallenges' = <<>>
    /\ verdict' = IF Len(p) = c.num_vars THEN "running" ELSE "WrongNumberOfRounds"

RoundErrorLate(w) ==           \* slip: one degree too many allowed
    IF CompressedDegree(w) > claim.degree + 1 THEN "DegreeBoundExceeded"
    ELSE IF w = <<>> THEN "CompressedPolynomialTooShort" ELSE "none"

RoundError(w) ==
    IF CompressedDegree(w) > claim.degree THEN "DegreeBoundExceeded"
    ELSE IF w = <<>> THEN "CompressedPolynomialTooShort" ELSE "none"

AbsorbNothing(w) == vtranscript    \* slip: the challenge drawn before the message
Absorb(w) == Append(vtranscript, w)

RejectRound ==
    /\ verdict = "running" /\ vround < Len(proof)
    /\ RoundError(proof[vround + 1]) # "none"
    /\ verdict' = RoundError(proof[vround + 1])
    /\ UNCHANGED <<oracle, claim, proof, vtranscript, running_sum, vchallenges>>

AcceptRound ==
    /\ verdict = "running" /\ vround < Len(proof)
    /\ LET w == proof[vround + 1]
       IN  /\ RoundError(w) = "none"
           /\ vtranscript' = Absorb(w)
           /\ \E r \in Squeeze(vtranscript') :
                /\ oracle' = Remember(vtranscript', r)
                /\ running_sum' = EvaluateWithHint(w, running_sum, r)
                /\ vchallenges' = Append(vchallenges, r)
    /\ UNCHANGED <<claim, proof, verdict>>

Reduce ==
    /\ verdict = "running" /\ vround = Len(proof)
    /\ verdict' = "reduced"
    /\ UNCHANGED <<oracle, claim, proof, vtranscript, running_sum, vchallenges>>

VNext == RejectRound \/ AcceptRound \/ Reduce

-----------------------------------------------------------------------------
(* The prover.                                                             *)

Members == DOMAIN batch.described
Described(i) == batch.described[i]
round == Len(challenges)

\* BatchPrelude::new: the combination of the input claims, each at its padding.
PaddedClaim(b, i) ==
    MulPow2(b.described[i].input_claim, b.max_num_vars - b.described[i].rounds)
ClaimedSum(b) ==
    Total([i \in 1 .. Len(b.described) |-> b.described[i].coefficient * PaddedClaim(b, i)])

Active(i) ==
    round >= Described(i).offset /\ round < Described(i).offset + Described(i).rounds

-----------------------------------------------------------------------------
(* The checks before the first round, in the code's order. *)

WindowAnywhere(i) == TRUE      \* slip: no window check
WindowInRange(i) == Described(i).offset + Described(i).rounds <= batch.max_num_vars

MemberError(i) ==
    IF Vars(batch.kernels[i]) # Described(i).rounds THEN "BatchMemberRoundsMismatch"
    ELSE IF ~WindowInRange(i) THEN "BatchMemberWindowOutOfRange" ELSE "none"

CheckError ==
    IF Len(batch.kernels) # Len(batch.described) THEN "BatchMemberCountMismatch"
    ELSE IF \E i \in Members : MemberError(i) # "none"
    THEN MemberError(CHOOSE i \in Members :
            MemberError(i) # "none" /\ \A j \in Members : j < i => MemberError(j) = "none")
    ELSE IF batch.max_num_vars > 0 /\ batch.max_degree < 1 THEN "ZeroBatchDegree" ELSE "none"

Check ==
    /\ phase = "check" /\ batch \notin Forged
    /\ phase' = IF CheckError = "none" THEN "round" ELSE CheckError
    /\ UNCHANGED <<batch, tables, delivered, member_claims, pending_binds, work, ran, constant,
                   running_claim, challenges, transcript, round_polynomials, vvars>>

-----------------------------------------------------------------------------
(* A round: halve the inactive members' claims, hand the others to the     *)
(* scheduler with their pending challenge.                                 *)

Item(i) == [index |-> i, local_round |-> round - Described(i).offset, bind |-> pending_binds[i],
            claim |-> member_claims[i], message |-> <<>>]

\* bind: pending_bind.take()
TakenNot(i) == pending_binds[i]     \* slip: the challenge stays pending
Taken(i) == IF Active(i) THEN <<>> ELSE pending_binds[i]

StartRound ==
    /\ phase = "round" /\ round < batch.max_num_vars
    /\ member_claims' = [i \in Members |->
           IF Active(i) THEN member_claims[i] ELSE (member_claims[i] * TwoInv) % P]
    /\ constant' = Total([i \in 1 .. Len(batch.described) |->
           IF Active(i) THEN 0 ELSE Described(i).coefficient * member_claims'[i]])
    /\ work' = {Item(i) : i \in {j \in Members : Active(j)}}
    /\ pending_binds' = [i \in Members |-> Taken(i)]
    /\ ran' = <<>>
    /\ phase' = "schedule"
    /\ UNCHANGED <<batch, tables, delivered, running_claim, challenges, transcript,
                   round_polynomials, vvars>>

\* A member's own part: bind what it is given, sum over all but one variable,
\* at the scale its claim has when its window opens.
Delivered(i, bind) ==
    /\ tables' = [tables EXCEPT ![i] = IF bind = <<>> THEN @ ELSE Bind(@, bind[1])]
    /\ delivered' = [delivered EXCEPT ![i] = @ \o bind]

Message(i) ==
    LET padding == MulPow2(1, batch.max_num_vars - Described(i).rounds)
        halved  == Product([k \in 1 .. Described(i).offset |-> TwoInv])
    IN  Scale(padding * halved, RoundPoly(tables'[i]))

Run(item) ==
    /\ phase = "schedule" /\ item \in work
    /\ Delivered(item.index, item.bind)
    /\ work' = work \ {item}
    /\ ran' = Append(ran, [item EXCEPT !.message = Message(item.index)])
    /\ UNCHANGED <<batch, phase, member_claims, pending_binds, constant, running_claim,
                   challenges, transcript, round_polynomials, vvars>>

-----------------------------------------------------------------------------
(* Back from the scheduler: fold the messages, check, absorb, attribute.   *)

Folded ==
    PolySum(<<<<constant>>>> \o
            [k \in 1 .. Len(ran) |-> Scale(Described(ran[k].index).coefficient, ran[k].message)],
            batch.max_degree + 1)

\* Trailing zeros beyond the linear coefficient never reach the wire.
TrimNothing(c) == c             \* slip: the slots as they are
TrimRoundPolynomial(c) ==
    LET kept == {k \in 1 .. Len(c) : k <= 2 \/ c[k] # 0}
    IN  SubSeq(c, 1, CHOOSE k \in kept : \A l \in kept : l <= k)

\* The first bad item of the scheduler's order decides; the order is free.
ItemErrors ==
    {"MissingRoundMessage" : item \in work} \cup
    {"DegreeBoundExceeded" : k \in {l \in DOMAIN ran : Degree(ran[l].message) > batch.max_degree}}

RoundSum == (Evaluate(TrimRoundPolynomial(Folded), 0) + Evaluate(TrimRoundPolynomial(Folded), 1)) % P
RoundErrors ==
    IF ItemErrors # {} THEN ItemErrors
    ELSE IF RoundSum # running_claim THEN {"RoundCheckFailed"}
    ELSE IF batch \in Sealed /\ Len(TrimRoundPolynomial(Folded)) > Capacity
    THEN {"RoundExceedsCommitmentCapacity"} ELSE {}

\* A commitment is ideal: what was committed, and its blinding.
Commitment(values, blinding) ==
    [row |-> [k \in 1 .. Capacity |-> IF k \in DOMAIN values THEN values[k] ELSE 0], blinding |-> blinding]

\* What the recorder absorbs and keeps of a round: ClearSumcheckRecorder the
\* compressed polynomial, CommittedSumcheckRecorder a commitment and the degree.
Recorded(c) ==
    IF batch \notin Sealed THEN Compress(c)
    ELSE [commitment |-> Commitment(c, Random(0, "round", round)), degree |-> Len(c) - 1]

FailRound ==
    /\ phase = "schedule"
    /\ phase' \in RoundErrors
    /\ UNCHANGED <<batch, tables, delivered, member_claims, pending_binds, work, ran, constant,
                   running_claim, challenges, transcript, round_polynomials, vvars>>

\* The item that carries member i's result.
AttributeByPosition(i, k) == Active(i) /\ k = Cardinality({j \in Members : j <= i /\ Active(j)})  \* slip
Attribute(i, k) == ran[k].index = i

FinishRound ==
    /\ phase = "schedule" /\ work = {} /\ RoundErrors = {}
    /\ LET c == TrimRoundPolynomial(Folded)
           result(i) == {k \in DOMAIN ran : Attribute(i, k)}
           message(i) == ran[CHOOSE k \in result(i) : TRUE].message
       IN  /\ transcript' = Append(transcript, Recorded(c))
           /\ round_polynomials' = Append(round_polynomials, Recorded(c))
           /\ \E r \in Squeeze(transcript') :
                /\ oracle' = Remember(transcript', r)
                /\ running_claim' = Evaluate(c, r)
                /\ challenges' = Append(challenges, r)
                /\ member_claims' = [i \in Members |->
                       IF result(i) = {} THEN member_claims[i] ELSE Evaluate(message(i), r)]
                /\ pending_binds' = [i \in Members |->
                       IF result(i) = {} THEN pending_binds[i] ELSE <<r>>]
    /\ phase' = "round"
    /\ ran' = <<>> /\ constant' = 0
    /\ UNCHANGED <<batch, tables, delivered, work, claim, proof, vtranscript, running_sum,
                   vchallenges, verdict>>

-----------------------------------------------------------------------------
(* After the last round each member that was ever active gets its final    *)
(* challenge; then the proof goes to the verifier.                         *)

ToFinish == {i \in Members : pending_binds[i] # <<>>}

LastRound ==
    /\ phase = "round" /\ round = batch.max_num_vars
    /\ phase' = "finish"
    /\ UNCHANGED <<batch, tables, delivered, member_claims, pending_binds, work, ran, constant,
                   running_claim, challenges, transcript, round_polynomials, vvars>>

FinishMember(i) ==
    /\ phase = "finish" /\ i \in ToFinish
    /\ Delivered(i, pending_binds[i])
    /\ pending_binds' = [pending_binds EXCEPT ![i] = <<>>]
    /\ UNCHANGED <<batch, phase, member_claims, work, ran, constant, running_claim, challenges,
                   transcript, round_polynomials, vvars>>

Finish ==
    /\ phase = "finish" /\ ToFinish = {} /\ batch \notin Sealed
    /\ phase' = "proved"
    /\ oracle' = oracle
    /\ Begin([num_vars |-> batch.max_num_vars, degree |-> batch.max_degree,
              claimed_sum |-> ClaimedSum(batch)], round_polynomials, <<>>)
    /\ UNCHANGED <<batch, tables, delivered, member_claims, pending_binds, work, ran, constant,
                   running_claim, challenges, transcript, round_polynomials>>

Verify == VNext /\ UNCHANGED pvars

-----------------------------------------------------------------------------
(* Or a prover of its own making sends any proof of any sum of the member. *)

Forge ==
    /\ phase = "check" /\ batch \in Forged
    /\ phase' = "forged"
    /\ oracle' = oracle
    /\ \E c \in Field, p \in Proofs :
           Begin([num_vars |-> batch.max_num_vars, degree |-> batch.max_degree, claimed_sum |-> c],
                 p, <<>>)
    /\ UNCHANGED <<batch, tables, delivered, member_claims, pending_binds, work, ran, constant,
                   running_claim, challenges, transcript, round_polynomials>>

-----------------------------------------------------------------------------
Init ==
    /\ batch \in Batches \cup Sealed \cup Forged
    /\ tables = batch.kernels
    /\ delivered = [i \in 1 .. Len(batch.kernels) |-> <<>>]
    /\ phase = "check"
    /\ member_claims = [i \in Members |-> PaddedClaim(batch, i)]
    /\ pending_binds = [i \in Members |-> <<>>]
    /\ work = {} /\ ran = <<>> /\ constant = 0
    /\ running_claim = ClaimedSum(batch)
    /\ challenges = <<>> /\ transcript = <<>> /\ round_polynomials = <<>>
    /\ oracle = [t \in {} |-> 0]
    /\ claim = [num_vars |-> 0, degree |-> 1, claimed_sum |-> 0]
    /\ proof = <<>> /\ vtranscript = <<>> /\ running_sum = 0 /\ vchallenges = <<>>
    /\ verdict = "waiting"

Next ==
    \/ Forge
    \/ Check \/ StartRound \/ FailRound \/ FinishRound \/ LastRound \/ Finish
    \/ \E item \in work : Run(item)
    \/ \E i \in ToFinish : FinishMember(i)
    \/ Verify

Spec == Init /\ [][Next]_vars

-----------------------------------------------------------------------------
Combination == Total([i \in 1 .. Len(batch.described) |-> Described(i).coefficient * member_claims[i]])

\* Member i's part of the challenges drawn so far.
Slice(i) ==
    SubSeq(challenges, Described(i).offset + 1, Min({round, Described(i).offset + Described(i).rounds}))

\* The round message has no superfluous coefficient, and every value is a
\* field element (trim_round_polynomial, absorb_round).
TypeOK ==
    /\ running_claim \in Field /\ running_sum \in Field
    /\ \A i \in Members : member_claims[i] \in Field /\ pending_binds[i] \in {<<>>} \cup Seq(Field)
    /\ \A k \in DOMAIN round_polynomials :
         LET w == round_polynomials[k]
         IN  IF batch \in Sealed THEN w.degree \in 1 .. batch.max_degree
             ELSE /\ w \in Seq(Field) /\ Len(w) \in 1 .. batch.max_degree
                  /\ Len(w) > 1 => w[Len(w)] # 0

\* Between rounds the running claim is the combination of the members' claims,
\* active or padded: what lets the stage open them in place of the batch
\* (prove_batch's two updates, of running_claim and of member_claims).
RunningIsCombination == phase \in {"round", "finish", "proved", "sealed"} => running_claim = Combination

\* In whatever order a scheduler runs the members, each gets the challenges of
\* its own window, in order, none twice and none lost: what it was given, what
\* its item holds and what is pending make up its slice (pending_binds).
ChallengesDelivered ==
    \A i \in Members \cap DOMAIN delivered :
        LET held == {item \in work : item.index = i}
            inItem == IF held = {} THEN <<>> ELSE (CHOOSE item \in held : TRUE).bind
        IN  delivered[i] \o inItem \o pending_binds[i] = Slice(i)

\* A proved batch leaves every member's claim at the value of its polynomial
\* at its slice of the batch point, wherever its window was, and the member
\* bound to that value (ProvedBatch.member_claims).
ClaimsAreValues ==
    phase \in {"proved", "sealed"} =>
        \A i \in Members :
            /\ Len(Slice(i)) = Vars(batch.kernels[i])
            /\ member_claims[i] = ExtensionAt(batch.kernels[i], Slice(i))
            /\ Len(tables[i][1]) = 1 /\ Sum(tables[i]) = member_claims[i]

\* The verifier refuses no round of an honest proof and draws the challenges
\* the prover drew (absorb_round and verify_compressed in lockstep).
InLockstep ==
    phase = "proved" =>
        /\ verdict \in {"running", "reduced"}
        /\ vchallenges = SubSeq(challenges, 1, vround)
        /\ verdict = "reduced" => vchallenges = challenges

\* The engine's own check never fails on members that sum to their claims, and
\* the verifier, drawing the prover's challenges, reaches its final claim
\* (prove_batch and verify_compressed).
HonestProofReduces ==
    /\ phase # "RoundCheckFailed"
    /\ InLockstep
    /\ phase = "proved" /\ verdict = "reduced" => running_sum = running_claim

\* The sum of the forged member over the variables that point leaves free.
Remaining(point) == Sum(FoldLeft(Bind, batch.kernels[1], point))

\* A claim that is false before a round is true after it for at most degree
\* challenges, whatever the message: the degree check of verify_compressed and
\* the linear coefficient recovered from the running sum leave no more.
LuckBounded ==
    [][/\ phase = "forged" /\ vround' > vround
       /\ running_sum # Remaining(vchallenges) /\ running_sum' = Remaining(vchallenges')
       => Cardinality({r \in Field : EvaluateWithHint(proof[vround'], running_sum, r)
                                        = Remaining(Append(vchallenges, r))}) <= claim.degree]_vars
=============================================================================
