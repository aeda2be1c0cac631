------------------------------ MODULE Polynomials ------------------------------
(***************************************************************************)
(* Tables bound round by round in parts beside the whole tables they       *)
(* stand for: eq tables in halves, lookup tables phase by phase by their   *)
(* prefixes; and the polynomials of jolt-poly in each of their forms.      *)
(***************************************************************************)
EXTENDS Multilinear, LookupTables

CONSTANTS
    Sizes,          \* numbers of variables
    Coordinates,    \* coordinates of the points, values
    Draws,          \* challenges
    Columns,        \* size -> tables summed against the eq tables
    PhaseDraws,     \* challenges of a phase of the lookup tables
    Operands        \* words that looked-up indices are made of

VARIABLES
    kind,       \* the table
    point,      \* what it is fixed at: a point, values, or places of ones; what it is bound at
    split,      \* its halves, or its prefixes at the point
    whole,      \* the table itself
    factors     \* two more tables, for the messages

vars == <<kind, point, split, whole, factors>>

\* Shifts are looked up with a mask: ones, then zeros.
ShiftTables == {"Srl", "Sra", "Rotr"}
IsMask(bits) == \A i \in 2 .. Len(bits) : bits[i] <= bits[i - 1]
Indices(t, n) ==
    {b \in {Interleaved(x, y, n) : x \in Operands, y \in Operands} :
        t \in ShiftTables => IsMask(Right(b))}

-----------------------------------------------------------------------------
Init ==
    /\ kind \in {"eq", "ltHigh", "ltLow", "plusOne", "values", "ones", "lookups"}
    /\ \E n \in Sizes : point \in IF kind = "lookups" THEN {<<>>} ELSE IF kind = "ones" THEN [1 .. 2^(n \div 2) -> {NoIndex, 0, 1}]
                                  ELSE [1 .. n -> Coordinates]
    /\ split = CASE kind = "eq" -> NewEq(point)
                 [] kind \in {"ltHigh", "ltLow"} -> NewLt(point, IF kind = "ltLow" THEN 3 ELSE 0)
                 [] kind = "plusOne" -> PrefixSuffix(point)
                 [] kind = "lookups" -> DefaultCheckpoints
                 [] OTHER -> <<>>
    /\ whole = CASE kind = "eq" -> EqTable(point)
                 [] kind = "ltHigh" -> LtTable(point)
                 [] kind = "ltLow" -> LET t == LtTable(point)
                                      IN  [i \in DOMAIN t |-> (t[i] + 3) % P]
                 [] kind = "plusOne" -> <<0>> \o SubSeq(EqTable(point), 1, 2^Len(point) - 1)
                 [] OTHER -> point
    /\ factors \in IF kind = "eq" THEN Columns[Len(point)] ELSE {<<>>}

\* One round: every table is bound at the challenge.
BindVariable ==
    /\ kind \in {"eq", "ltHigh", "ltLow"} /\ Len(whole) > 1
    /\ \E r \in Draws :
        /\ whole' = IF kind = "ltHigh" THEN BindHigh(whole, r) ELSE BindLow(whole, r)
        /\ split' = CASE kind = "eq" -> BindEq(split, r)
                      [] kind = "ltHigh" -> BindLtHigh(split, r)
                      [] kind = "ltLow" -> BindLtLow(split, r)
        /\ factors' = [k \in DOMAIN factors |-> BindLow(factors[k], r)]
    /\ UNCHANGED <<kind, point>>

\* One phase of the lookup tables, and the next checkpoints.
BindLookups ==
    /\ kind = "lookups" /\ Len(point) < 2 * XLEN
    /\ \E r \in PhaseDraws :
        /\ split' = BindPhase(split, point, r)
        /\ point' = point \o r
    /\ UNCHANGED <<kind, whole, factors>>

Next == BindVariable \/ BindLookups
Spec == Init /\ [][Next]_vars

-----------------------------------------------------------------------------

\* After any number of rounds the halves hold exactly the whole table: their
\* sizes shrink in the right order down to the last variable.
HalvesHold ==
    CASE kind = "eq" ->
            IF split.index = 0 THEN split.scalar = whole[1]
            ELSE /\ 2 * Cardinality(Rows(split)) = Len(whole)
                 /\ \A row \in Rows(split), b \in 0 .. 1 :
                        whole[2 * row + 1 + b] = (LinearAt(split, b) * Weight(split, row)) % P
      [] kind \in {"ltHigh", "ltLow"} ->
            /\ Len(split.hi) * Len(split.lo) = Len(whole)
            /\ \A i \in DOMAIN whole : LtEntry(split, i) = whole[i]
      [] kind = "plusOne" ->
            LET lo == Len(split.prefix_0)
            IN  \A i \in DOMAIN whole :
                    LET l == ((i - 1) % lo) + 1  h == (i - 1) \div lo + 1
                    IN  whole[i] = (split.prefix_0[l] * split.suffix_0[h]
                                        + split.prefix_1[l] * split.suffix_1[h]) % P
      [] OTHER -> TRUE

\* A window of rounds splits the table in heads and the window's variables.
WindowsHold ==
    kind = "eq" /\ split.index > 0 =>
        \A size \in 1 .. split.index :
            LET heads == WindowHeads(split, size)
                active == WindowActive(split, size)
                in == Len(heads.e_in)
            IN  \A i \in 1 .. Len(whole) \div 2 :
                    LET a == (i - 1) % Len(active)  h == (i - 1) \div Len(active)
                    IN  (whole[2 * i - 1] + whole[2 * i]) % P
                            = (split.scalar * active[a + 1] * heads.e_in[(h % in) + 1]
                                * heads.e_out[h \div in + 1]) % P

\* The message of a round is the sum over the whole tables, from whichever
\* values of q it is made.
MessagesHold ==
    kind = "eq" /\ split.index > 0 =>
        LET a == factors[1]  b == factors[2]
            At(t, i, x) == t[2 * i - 1] + x * (t[2 * i] - t[2 * i - 1])
            Sum_(x) == Total([i \in 1 .. Half(a) |-> At(whole, i, x) * At(a, i, x) * At(b, i, x)])
            Q(x) == Total([i \in 1 .. Half(a) |-> Weight(split, i - 1) * At(a, i, x) * At(b, i, x)])
            ends == ProductEndpoints(split, a, b)
            claim == (Sum_(0) + Sum_(1)) % P
            message == <<Sum_(0), Sum_(1), Sum_(2), Sum_(3)>>
        IN  /\ LinearAt(split, 1) # 0 =>
                    GruenPolyDeg3(split, ends.zero, ends.infinity, claim) = message
            /\ LinearAt(split, 0) # 0 => GruenFromEvals(split, <<Q(1)>>, claim) = Q(0)
            /\ CheckedRoundPoly(split, <<Q(0), Q(1), Q(2), Q(3)>>) = message

\* The closed forms the verifier evaluates are the tables' extensions.
ClosedFormsHold ==
    kind \in {"eq", "ltHigh", "plusOne"} /\ Len(whole) = 2^Len(point) =>
        \A x \in [1 .. Len(point) -> Coordinates] :
            /\ kind = "ltHigh" => LtEvaluate(x, point) = Extension(whole, x)
            /\ kind = "plusOne" => EqPlusOne(point, x) = Extension(whole, x)
            /\ kind = "eq" => Product([i \in DOMAIN x |-> Bit(i, x, point)]) = Extension(whole, x)
            /\ kind = "eq" => EvaluateAndConsume(whole, x) = Extension(whole, x)

\* An eq table is one table however it is built: variable by variable or in
\* pairs, as the last of the suffix tables, or in aligned blocks from anywhere.
EqFormsAgree ==
    kind = "eq" /\ split.index = Len(point) =>
        /\ EqEvalsParallel(point, 1) = whole
        /\ EqCachedRev(point)[Len(point) + 1] = whole
        /\ \A from \in 0 .. Len(whole) - 1 : \A n \in {1, Len(whole) - from} :
                BlocksFrom(point, from, n) = SubSeq(whole, from + 1, from + n)

\* The closed forms of index sets and of numbers are their tables' extensions.
MasksHold ==
    kind = "eq" /\ split.index = Len(point) /\ split.index <= 4 =>
        LET n == Len(point)
            TableOf(F(_)) == [i \in 1 .. 2^n |-> F(i - 1) % P]
            Ext(F(_)) == Extension(TableOf(F), point)
            LeftOf(i) == IF n % 2 = 1 THEN 0 ELSE BooleanIndex([b \in 1 .. n \div 2 |-> BitMsb(i, n, 2 * b - 1)])
            RightOf(i) == IF n % 2 = 1 THEN 0 ELSE BooleanIndex([b \in 1 .. n \div 2 |-> BitMsb(i, n, 2 * b)])
            Number(i) == i
        IN  /\ IdentityMle(point) = Ext(Number)
            /\ n % 2 = 0 => OperandMle(point, 0) = Ext(LeftOf) /\ OperandMle(point, 1) = Ext(RightOf)
            /\ \A from \in 0 .. 2^n - 1 : \A to \in from + 1 .. 2^n :
                    LET In(i) == IF i >= from /\ i < to THEN 1 ELSE 0
                        Three(i) == IF i >= from /\ i < to THEN 3 ELSE 0
                    IN  /\ RangeMaskMle(from, to, point) = Ext(In)
                        /\ SparseMle(from, [i \in 1 .. to - from |-> 3], point) = Ext(Three)
                        /\ \A b \in 0 .. n :
                            to - from = 2^b /\ from % 2^b = 0 =>
                                BlockSelectorMle(from, b, point) = Ext(In)

\* All interpolations of the same values are one polynomial.
InterpolationsAgree ==
    kind = "values" /\ Len(point) <= 4 =>
        LET v == point
            n == Len(v)
            c == InterpolateToCoeffs(Start(n), v)
            z == FromEvals(v)
            toom == FromEvalsToom(v)
            all == [i \in 1 .. P |-> i - 1]
        IN  /\ \A i \in 1 .. n : Evaluate(c, Nodes(Start(n), n)[i]) = v[i]
            /\ EvaluateMany(v, all) = [i \in 1 .. P |-> Evaluate(c, i - 1)]
            /\ \A r \in Field : EvaluateMany(v, <<r>>) = <<Evaluate(c, r)>>
            /\ \A r \in Field, s \in Draws : LagrangeKernel(n, r, s) = BaryKernel(n, r, s)
            /\ \A i \in 1 .. n : Evaluate(z, i - 1) = v[i]
            /\ InterpolateOverIntegers(v) = z
            /\ \A i \in 1 .. n :
                    Evaluate(Interpolate([k \in 1 .. n |-> <<(2 * k) % P, v[k]>>]), (2 * i) % P) = v[i]
            /\ toom[n] = v[n] /\ \A i \in 1 .. n - 1 : Evaluate(toom, i - 1) = v[i]
            /\ \A r \in Field : Total([i \in 1 .. n |-> v[i] * EvaluateBasis(n, i, r)]) = Evaluate(z, r)
            /\ \A h \in Draws :
                LET w == PolyFromEvalsAndHint(h, v)
                IN  /\ (Evaluate(w, 0) + Evaluate(w, 1)) % P = h
                    /\ \A i \in 2 .. n : Evaluate(w, i) = v[i]
            /\ n > 1 => Decompress(Compress(c), (Evaluate(c, 0) + Evaluate(c, 1)) % P) = c
            /\ \A k \in 1 .. 3 : PowerSums(n, 3)[k] % P
                    = Total([i \in 1 .. n |-> Product([e \in 1 .. k - 1 |-> Nodes(Start(n), n)[i]])])

\* Division leaves a remainder shorter than the divisor.
DivisionHolds ==
    kind = "values" =>
        \A cut \in 1 .. Len(point) : \A zeros \in 0 .. 1 :
            LET divisor == SubSeq(Reverse(point), 1, cut) \o [i \in 1 .. zeros |-> 0]
                d == DivideWithRemainder(point, divisor)
            IN  /\ PadTo(Add_(PolyMul(d.quotient, StripZeros(divisor)), d.remainder), Len(point)) = point
                /\ Len(d.remainder) < cut

\* Whatever a polynomial is stored as, a commitment folds the same rows.
RowsFold ==
    kind = "ones" =>
        \A order \in {"RowMajor", "ColumnMajor"} :
            LET p == [k |-> 2, indices |-> point, order |-> order]
                n == Log(point) + 1
                IsOne(i) == \E row \in Ones(p) :
                                i = IF order = "RowMajor" THEN (row - 1) * 2 + point[row]
                                    ELSE point[row] * Len(point) + row - 1
                table == [i \in 1 .. 2^n |-> IF IsOne(i - 1) THEN 1 ELSE 0]
                other == [i \in 1 .. 2^n |-> (i * i) % P]
                x == [i \in 1 .. n |-> (2 * i + 1) % P]
            IN  /\ OneHotEvaluate(p, x) = Extension(table, x)
                /\ \A sigma \in 0 .. n :
                    LET left == [r \in 1 .. 2^(n - sigma) |-> (3 * r + 1) % P]
                        both == [i \in 1 .. 2^n |-> (2 * table[i] + 5 * other[i]) % P]
                    IN  /\ OneHotRows(p, sigma) = DenseRows(table, sigma)
                        /\ OneHotFold(p, left, sigma) = DenseFold(table, left, sigma)
                        /\ RlcRows(<<table, other>>, <<2, 5>>, sigma) = DenseRows(both, sigma)
                        /\ RlcFold(<<table, other>>, <<2, 5>>, left, sigma) = DenseFold(both, left, sigma)
                /\ RlcEvaluate(<<table, other>>, <<2, 5>>, x)
                    = (2 * Extension(table, x) + 5 * Extension(other, x)) % P

\* What an instruction looks up is what the verifier's closed form gives.
EntriesAreMle ==
    kind = "lookups" /\ point = <<>> =>
        \A i \in DOMAIN Tables :
            \A b \in Indices(Tables[i], XLEN) : Mle(Tables[i], b) = Entry(Tables[i], b) % P

\* Between two phases a table is known from its checkpoints and from the bits
\* that follow alone, and it is its extension: no phase sees too much of an
\* index, or less than it must.
DecompositionHolds ==
    kind = "lookups" /\ point # <<>> =>
        LET n == XLEN - Len(point) \div 2
        IN  \A i \in DOMAIN Tables :
                \A b \in Indices(Tables[i], n) :
                    LET t == Tables[i]
                        s == [x \in TableSuffixes(t) |-> Suffix(x, b)]
                        p == [x \in TablePrefixes(t) |-> split[x]]
                    IN  (Combine(t, p, s) - Mle(t, point \o b)) % P = 0

-----------------------------------------------------------------------------
\* However many rounds are bound, and however many at once, the halves a
\* prover keeps hold the whole table, and its message is the round's sum.
RoundsFold == HalvesHold /\ WindowsHold /\ MessagesHold

\* What the verifier evaluates in closed form is the extension of what the
\* prover tabulates, whichever way the prover tabulates it.
FormsAgree == ClosedFormsHold /\ EqFormsAgree /\ MasksHold

\* Interpolation from values, however it is done, and division are exact.
InterpolationHolds == InterpolationsAgree /\ DivisionHolds

\* A table looked up by its entries, by its closed form, or phase by phase
\* from checkpoints and suffixes is one table.
LookupsHold == EntriesAreMle /\ DecompositionHolds
=============================================================================
