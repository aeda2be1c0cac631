---------------------------- MODULE OpeningPoints ---------------------------
(***************************************************************************)
(* Where openings lie: how the challenges of a sumcheck become the point   *)
(* a polynomial is claimed at (jolt-claims, geometry/dimensions.rs,        *)
(* committed_openings.rs, claim_reductions/precommitted.rs), and how the   *)
(* claims of all committed polynomials meet in one point for the final     *)
(* opening.  Points are sequences of coordinates, first the most           *)
(* significant variable; what a coordinate is does not matter here.        *)
(***************************************************************************)
EXTENDS Integers, Sequences, FiniteSets, SequencesExt

CONSTANT Zero       \* the coordinate a padded address starts with

CeilDiv(n, d) == (n + d - 1) \div d
Suffix(s, n) == SubSeq(s, Len(s) - n + 1, Len(s))
Drop(s, n) == SubSeq(s, n + 1, Len(s))

-----------------------------------------------------------------------------
(* A member's window of a batch, and what its challenges open.             *)

\* The challenges of the rounds offset + 1 .. offset + rounds.
InstancePoint(batch, offset, rounds) == SubSeq(batch, offset + 1, offset + rounds)
SuffixOffset(batch_rounds, rounds) == batch_rounds - rounds

\* Variables are bound from the least significant one.
CycleOpeningPoint(challenges) == Reverse(challenges)

\* Read-write checking binds phase1 of the cycle, phase2 of the address, the
\* rest of the cycle, the rest of the address.
ValidSplit(d) == d.phase1 <= d.log_t /\ d.phase2 <= d.log_k
Phase3Cycle(d) == d.log_t - d.phase1
ReadWriteCycle(d, ch) ==
    Reverse(SubSeq(ch, d.phase1 + d.phase2 + 1, d.log_t + d.phase2))
        \o Reverse(SubSeq(ch, 1, d.phase1))
ReadWriteAddress(d, ch) ==
    Reverse(Drop(ch, d.log_t + d.phase2))
        \o Reverse(SubSeq(ch, d.phase1 + 1, d.phase1 + d.phase2))

\* The address of a member that runs beside it from the end of phase1 on,
\* idling while read-write checking binds the rest of the cycle.
AddressOpeningPointWholly(d, ch) ==     \* slip: idles after the address
    Reverse(SubSeq(ch, 1, d.log_k))
AddressOpeningPoint(d, ch) ==
    Reverse(SubSeq(ch, 1, d.phase2) \o Drop(ch, d.phase2 + Phase3Cycle(d)))
Phase1Offset(d, batch_rounds) == batch_rounds - (d.log_t + d.log_k) + d.phase1

\* An address cut in chunks of bits coordinates, padded in front.
Chunks(address, bits) ==
    LET n == CeilDiv(Len(address), bits)
        padded == [i \in 1 .. n * bits - Len(address) |-> Zero] \o address
    IN  [c \in 1 .. n |-> SubSeq(padded, (c - 1) * bits + 1, c * bits)]

-----------------------------------------------------------------------------
(* Matrices: the committed grid and the balanced shape of a polynomial.    *)

ColumnVars(total) == CeilDiv(total, 2)
RowVars(total) == total - ColumnVars(total)

MaxOf(S) == CHOOSE x \in S : \A y \in S : y <= x

\* The rounds all precommitted polynomials are scheduled against.
SchedulingReference(main, candidates, log_k_chunk) ==
    LET total == MaxOf({main} \cup candidates)
    IN  [main |-> main, total |-> total, cycle |-> total - log_k_chunk,
         address |-> log_k_chunk, dominated |-> total > main]

Descending(hi, lo) == [i \in 1 .. hi - lo |-> hi - i]       \* hi - 1 .. lo

\* Which round binds each variable of the joint matrix, first to last.
RoundPermutation(ref, order, log_t) ==
    LET address == Descending(ref.total, ref.cycle)
        split == ref.cycle - (IF log_t < ref.cycle THEN log_t ELSE ref.cycle)
        prefix == Descending(split, 0)
        dense == Descending(ref.cycle, split)
    IN  IF ref.dominated
        THEN IF order = "CycleMajor" THEN prefix \o address \o dense
                                     ELSE dense \o address \o prefix
        ELSE IF order = "CycleMajor" THEN Descending(ref.total, 0)
                                     ELSE Descending(ref.cycle, 0) \o address

\* A polynomial smaller than the joint matrix is its top left block: its
\* variables are the last of the rows' and the last of the columns'.
ProjectTail(ref, order, log_t, vars) ==      \* slip: the last of all
    Suffix(RoundPermutation(ref, order, log_t), vars)
Project(ref, order, log_t, vars) ==
    LET rounds == RoundPermutation(ref, order, log_t)
    IN  Suffix(SubSeq(rounds, 1, RowVars(ref.total)), RowVars(vars))
            \o Suffix(rounds, ColumnVars(vars))

CycleActive(ref, poly) == {r \in Range(poly) : r < ref.cycle}
AddressActive(ref, poly) == {r - ref.cycle : r \in Range(poly) \ CycleActive(ref, poly)}
HasAddressPhase(ref, poly) == AddressActive(ref, poly) # {}

\* The reduction's intermediate claim after the cycle phase.
Ascending(S) == [i \in 1 .. Cardinality(S) |->
    CHOOSE x \in S : Cardinality({y \in S : y <= x}) = i]
CyclePhaseVariables(ref, poly, ch) ==
    LET active == Ascending(CycleActive(ref, poly))
    IN  [i \in DOMAIN active |-> ch[active[i] + 1]]
CyclePhaseOpeningPoint(ref, poly, ch) == Reverse(CyclePhaseVariables(ref, poly, ch))

\* Recovering a cycle-phase variable from the intermediate claim's point.
CycleChallenge(ref, poly, vars, round) ==
    vars[Cardinality({r \in CycleActive(ref, poly) : r <= round})]

\* The final claim's point, with and without an address phase.
AddressPhaseOpeningPoint(ref, poly, vars, ch) ==
    [i \in DOMAIN poly |->
        IF poly[i] < ref.cycle THEN CycleChallenge(ref, poly, vars, poly[i])
        ELSE ch[poly[i] - ref.cycle + 1]]
CyclePhasePermuted(ref, poly, opening) ==
    [i \in DOMAIN poly |-> CycleChallenge(ref, poly, Reverse(opening), poly[i])]

-----------------------------------------------------------------------------
(* The unified point.                                                      *)

\* The first of the longest anchors, if it is longer than the main matrix.
Dominant(anchors) ==
    CHOOSE i \in DOMAIN anchors : \A j \in DOMAIN anchors :
        Len(anchors[j]) < Len(anchors[i]) \/ (Len(anchors[j]) = Len(anchors[i]) /\ i <= j)
HasDominant(anchors, main) ==
    anchors # <<>> /\ Len(anchors[Dominant(anchors)]) > main
AnchorsEqual(anchors) ==        \* slip: whatever their lengths
    \A j \in DOMAIN anchors : anchors[j] = anchors[1]
AnchorsCompatible(anchors) ==
    \A j \in DOMAIN anchors :
        Len(anchors[j]) = Len(anchors[Dominant(anchors)]) => anchors[j] = anchors[Dominant(anchors)]

\* final_opening_point; <<"error">> where it refuses.
FinalOpeningPoint(log_t, log_k_chunk, order, hamming, inc, anchors) ==
    LET main == log_t + log_k_chunk
        address == SubSeq(hamming, 1, log_k_chunk)
        native == Drop(hamming, log_k_chunk)
    IN  IF HasDominant(anchors, main)
        THEN IF AnchorsCompatible(anchors) THEN anchors[Dominant(anchors)] ELSE <<"error">>
        ELSE IF order = "AddressMajor" THEN inc \o address
        ELSE IF ~IsPrefix(native, inc) THEN <<"error">>
        ELSE Drop(inc, Len(native)) \o address \o native
=============================================================================
