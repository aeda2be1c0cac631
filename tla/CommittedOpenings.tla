-------------------------- MODULE CommittedOpenings --------------------------
(***************************************************************************)
(* From the witness stream to the final opening.  A pass over the trace    *)
(* commits every column in one common grid (jolt-kernels, commitment.rs    *)
(* and its reference and optimized kernels, over jolt-dory's streaming.rs);*)
(* afterwards all of them are opened together at the unified point         *)
(* (stage8.rs of prover and verifier, jolt-openings, jolt-dory's scheme.rs)*)
(*                                                                         *)
(* Commitments are ideal: a row commitment is its row of coefficients, the *)
(* commitment of a matrix its rows and the blind.                          *)
(***************************************************************************)
EXTENDS WitnessStream

CONSTANTS
    P,              \* the characteristic
    Jobs,           \* grids, columns and passes to commit by
    Facts,          \* row -> what the committed columns derive from it
    Coordinates,    \* points the sumchecks may leave, long enough and distinct
    Gammas,         \* draws of the batching challenge
    Cold,           \* the packed columns' mark for no address
    MinRange,       \* least work of one of the threads that fold
    Threads

VARIABLES
    job,        \* the commitment under way, job.pass = "none" for a plain pass
    columns,    \* id -> the column's commitment so far
    pipe,       \* the pipelined pass: its two buffers and who is done with them
    opening     \* <<>> or <<the outcome of the final opening>>

ML == INSTANCE Multilinear
OP == INSTANCE OpeningPoints WITH Zero <- 0

commit_vars == <<job, columns, pipe, opening>>

-----------------------------------------------------------------------------
(* The grid and its columns.                                               *)

Committed(j) == j.chunks > 0        \* the program is committed
Widest(j) == OP!MaxOf({j.chunk_vars, j.image_vars})
TotalVars(j) ==
    LET main == j.log_k + j.log_t
    IN  IF Committed(j) THEN OP!MaxOf({main, Widest(j)}) ELSE main
Sigma(n) == OP!ColumnVars(n)
RowWidth(j) == 2^Sigma(TotalVars(j))
OneHotK(j) == 2^j.log_k
CycleStride(j) == 2^(TotalVars(j) - j.log_t)
OneHotStride(j) == 2^(TotalVars(j) - j.log_t - j.log_k)

Family(name, n) == [i \in 1 .. n |-> <<name, i - 1>>]
ProofOrder(j) ==
    <<<<"RdInc", 0>>, <<"RamInc", 0>>>> \o Family("InstructionRa", j.instruction)
        \o Family("RamRa", j.ram) \o Family("BytecodeRa", j.bytecode)
FinalOrder(j) ==
    <<<<"RamInc", 0>>, <<"RdInc", 0>>>> \o Family("InstructionRa", j.instruction)
        \o Family("BytecodeRa", j.bytecode) \o Family("RamRa", j.ram)
        \o Family("BytecodeChunk", j.chunks)
        \o (IF Committed(j) THEN <<<<"ProgramImageInit", 0>>>> ELSE <<>>)
InSequence(s) == {s[i] : i \in DOMAIN s}
Columns(j) == InSequence(ProofOrder(j))

OneHot(id) == id[1] \in {"InstructionRa", "RamRa", "BytecodeRa"}
BlockEmbedded(id) == id[1] \in {"BytecodeChunk", "ProgramImageInit"}

\* A chunk of an address, counted from the most significant.
SelectFromLow(value, index, chunks, bits) ==    \* slip: from the least
    (value \div 2^(bits * index)) % 2^bits
Select(value, index, chunks, bits) ==
    (value \div 2^(bits * (chunks - 1 - index))) % 2^bits

Increment(id, fact) == IF id[1] = "RdInc" THEN fact.rd_inc ELSE fact.ram_inc
HotAddress(j, id, fact) ==
    CASE id[1] = "InstructionRa" -> Select(fact.lookup_index, id[2], j.instruction, j.log_k)
      [] id[1] = "BytecodeRa"    -> Select(fact.bytecode_pc, id[2], j.bytecode, j.log_k)
      [] id[1] = "RamRa"         ->
            IF fact.ram_address = ML!NoIndex THEN ML!NoIndex
            ELSE Select(fact.ram_address, id[2], j.ram, j.log_k)

Increments(id, facts) == ML!Strict([i \in DOMAIN facts |-> Increment(id, facts[i]) % P])
HotAddresses(j, id, facts) == ML!Strict([i \in DOMAIN facts |-> HotAddress(j, id, facts[i])])

-----------------------------------------------------------------------------
(* Rows committed as they come.                                            *)

Windows(s, width) ==
    ML!Strict([w \in 1 .. OP!CeilDiv(Len(s), width) |->
        SubSeq(s, (w - 1) * width + 1, Least(w * width, Len(s)))])
Feed(partial, chunk) == Append(partial, chunk)
FeedRowsWith(partial, values, width) == partial \o Windows(values, width)

\* The rows a window of a one-hot column adds to, one to an address.
OneHotChunk(hot, k) ==
    ML!Strict([a \in 1 .. k |-> ML!Strict([c \in DOMAIN hot |-> IF hot[c] = a - 1 THEN 1 ELSE 0])])
OneHotChunksWith(hot, k, width) ==
    LET of == Windows(hot, width)
    IN  [w \in DOMAIN of |-> OneHotChunk(of[w], k)]
\* An address' rows lie together: the chunks are transposed.
FinishOneHotAsFed(chunks, k) ==     \* slip: not transposed
    [i \in 1 .. k * Len(chunks) |-> chunks[((i - 1) \div k) + 1][((i - 1) % k) + 1]]
FinishOneHot(chunks, k) ==
    LET n == Len(chunks)
    IN  ML!Strict([i \in 1 .. k * n |-> chunks[((i - 1) % n) + 1][((i - 1) \div n) + 1]])

\* A column set out in a table, where rows hold more or less than one address.
TableLength(j, id) ==
    IF j.order = "AddressMajor" THEN 2^TotalVars(j)
    ELSE IF OneHot(id) THEN OneHotK(j) * 2^j.log_t ELSE 2^j.log_t
TableIndex(j, cycle, k) ==
    IF j.order = "AddressMajor" THEN cycle * CycleStride(j) + k * OneHotStride(j)
    ELSE k * 2^j.log_t + cycle
Scatter(j, id, table, first, facts) ==
    LET Slot(i) == IF OneHot(id) THEN HotAddress(j, id, facts[i]) ELSE 0
        live == {i \in DOMAIN facts : Slot(i) # ML!NoIndex}
    IN  [x \in DOMAIN table |->
            LET here == {i \in live : TableIndex(j, first + i - 1, Slot(i)) = x - 1}
            IN  IF here = {} THEN table[x]
                ELSE IF OneHot(id) THEN 1
                ELSE Increment(id, facts[CHOOSE i \in here : TRUE]) % P]

BeginColumns(j) ==
    [id \in Columns(j) |->
        IF j.pass = "materialized"
        THEN [cycle |-> 0, table |-> [x \in 1 .. TableLength(j, id) |-> 0]]
        ELSE <<>>]

\* What a delivery of facts does to a column, by the kind of the pass.
Consume(j, id, column, facts) ==
    LET values == Increments(id, facts)
        hot == HotAddresses(j, id, facts)
        width == RowWidth(j)
    IN  CASE j.pass = "materialized" ->
                [cycle |-> column.cycle + Len(facts),
                 table |-> Scatter(j, id, column.table, column.cycle, facts)]
          [] j.pass = "fused" ->
                IF OneHot(id) THEN Append(column, OneHotChunk(hot, OneHotK(j)))
                ELSE Feed(column, values)
          [] j.pass \in {"batched", "pipelined"} ->
                IF OneHot(id) THEN column \o OneHotChunksWith(hot, OneHotK(j), width)
                ELSE FeedRowsWith(column, values, width)
ConsumeAll(facts) == [id \in DOMAIN columns |-> Consume(job, id, columns[id], facts)]

FinishRows(j, id, column) ==
    IF j.pass = "materialized" THEN Windows(column.table, RowWidth(j))
    ELSE IF OneHot(id) THEN FinishOneHot(column, OneHotK(j)) ELSE column

-----------------------------------------------------------------------------
(* Which pass commits a grid.                                              *)

Streams(j) == j.order = "CycleMajor" /\ RowWidth(j) <= 2^j.log_t
Superchunk(j) ==
    LET width == RowWidth(j)
        most == 2^j.log_t \div width
        asked == j.superchunk_cycles \div width
    IN  width * (IF asked < 1 THEN 1 ELSE Least(asked, most))
PassFits(j) == (j.pass = "materialized") = ~Streams(j)
ChunkOf(j) ==
    CASE j.pass \in {"fused", "materialized"} -> RowWidth(j)
      [] j.pass = "batched" -> Superchunk(j)
      [] j.pass = "pipelined" -> 0

NoJob == [pass |-> "none"]
NoPipe == [front |-> <<>>, back |-> <<>>, end |-> 0, fill |-> "idle", consumed |-> FALSE]

FactsOf(bundles) == [i \in DOMAIN bundles |-> Facts[bundles[i][1]]]

\* A plain pass, or one that commits.  The pipelined pass reads the trace by
\* random access and leaves the stream alone.
CommitInit ==
    /\ job \in {j \in Jobs : PassFits(j)}
    /\ cycles = 2^job.log_t
    /\ rows = job.trace
    /\ chunk_size = ChunkOf(job)
    /\ range = <<0, cycles>>
    /\ active = IF job.pass = "pipelined" THEN {} ELSE {1}
    /\ start = 0 /\ buffer = <<>> /\ next_after = <<>> /\ turn = 0
    /\ got = [c \in 1 .. Consumers |-> <<>>]
    /\ result = "running"
    /\ columns = BeginColumns(job)
    /\ pipe = NoPipe /\ opening = <<>>
PlainInit ==
    /\ Init
    /\ job = NoJob /\ columns = <<>> /\ pipe = NoPipe /\ opening = <<>>

-----------------------------------------------------------------------------
(* Streamed passes.                                                        *)

Walk ==
    /\ job.pass # "pipelined"
    /\ Reject \/ Buffer \/ Skip \/ FailExtraction \/ Finish
    /\ UNCHANGED commit_vars

DeliverColumns ==
    /\ job.pass # "pipelined"
    /\ Deliver
    /\ columns' = IF job.pass = "none" THEN columns ELSE ConsumeAll(FactsOf(Bundles))
    /\ UNCHANGED <<job, pipe, opening>>

-----------------------------------------------------------------------------
(* The pipelined pass: one thread fills the spare buffer while the other   *)
(* consumes the full one; they meet, and the buffers swap.                 *)

WindowsOf(first, end) ==
    [k \in 1 .. end - first |->
        <<RowAt(first + k - 1),
          IF first + k < cycles THEN <<RowAt(first + k)>> ELSE <<>>>>]
Extractable(bundles) == \A k \in DOMAIN bundles : bundles[k][1] # Bad
NextEnd == Least(pipe.end + Superchunk(job), cycles)

FillFirst ==
    /\ job.pass = "pipelined" /\ result = "running" /\ pipe.end = 0
    /\ LET first == WindowsOf(0, NextEnd)
       IN  IF Extractable(first)
           THEN /\ pipe' = [pipe EXCEPT !.front = first, !.end = NextEnd]
                /\ UNCHANGED result
           ELSE result' = "ExtractionError" /\ UNCHANGED pipe
    /\ UNCHANGED <<pass, start, buffer, next_after, turn, got, job, columns, opening>>

FillBack ==
    /\ job.pass = "pipelined" /\ result = "running" /\ pipe.end > 0 /\ pipe.fill = "idle"
    /\ LET back == WindowsOf(pipe.end, NextEnd)
       IN  pipe' = IF pipe.end = cycles THEN [pipe EXCEPT !.fill = "none"]
                   ELSE IF Extractable(back) THEN [pipe EXCEPT !.fill = "more", !.back = back]
                   ELSE [pipe EXCEPT !.fill = "failed"]
    /\ UNCHANGED <<vars, job, columns, opening>>

ConsumeFront ==
    /\ job.pass = "pipelined" /\ result = "running" /\ pipe.end > 0 /\ ~pipe.consumed
    /\ columns' = ConsumeAll(FactsOf(pipe.front))
    /\ pipe' = [pipe EXCEPT !.consumed = TRUE]
    /\ UNCHANGED <<vars, job, opening>>

\* Both are back: the code's join.
MeetEarly == pipe.fill # "idle"                     \* slip: the consumer not waited for
Meet == pipe.fill # "idle" /\ pipe.consumed
Join ==
    /\ job.pass = "pipelined" /\ result = "running" /\ Meet
    /\ pipe' = [pipe EXCEPT !.fill = "idle", !.consumed = FALSE, !.end = NextEnd,
                            !.front = IF pipe.fill = "more" THEN pipe.back ELSE @,
                            !.back = IF pipe.fill = "more" THEN pipe.front ELSE @]
    /\ result' = CASE pipe.fill = "more" -> result
                   [] pipe.fill = "none" -> "ok"
                   [] pipe.fill = "failed" -> "ExtractionError"
    /\ UNCHANGED <<pass, start, buffer, next_after, turn, got, job, columns, opening>>

-----------------------------------------------------------------------------
(* Commitments: rows and a blind, rows that are not there the identity.    *)

RowEntry(matrix, r, c) == IF r \in DOMAIN matrix /\ c \in DOMAIN matrix[r] THEN matrix[r][c] ELSE 0
Tier2(j, matrix, blind) ==
    LET columns_ == 1 .. RowWidth(j)
    IN  [rows |-> ML!Strict([r \in 1 .. 2^(TotalVars(j) - Sigma(TotalVars(j))) |->
                    ML!Strict([c \in columns_ |-> RowEntry(matrix, r, c)])]),
         blind |-> blind]

\* A draw of the hiding mode, none without it.
Sampled(j, place) == IF j.zk THEN (7 * place + 3) % P ELSE 0

\* The tables of the committed program, and their balanced commitments.
PreVars(j, id) == IF id[1] = "BytecodeChunk" THEN j.chunk_vars ELSE j.image_vars
PreTable(j, id) ==
    ML!Strict([i \in 1 .. 2^PreVars(j, id) |->
        (3 * i * i + 5 * i + 11 * id[2] + PreVars(j, id)) % P])
CommitRowsDense(table) ==
    LET vars_ == CHOOSE n \in 0 .. Len(table) : 2^n = Len(table)
    IN  Windows(table, 2^Sigma(vars_))
CommitRowsOneHot(p, vars_) == ML!OneHotRows(p, Sigma(vars_))

\* What stage 0 retains: the hints by id, in the order of the proof and the
\* program's after them.
Hints ==
    LET order == ProofOrder(job)
    IN  [i \in DOMAIN order |->
            <<order[i], [rows |-> FinishRows(job, order[i], columns[order[i]]),
                         blind |-> Sampled(job, i)]>>]
        \o [i \in 1 .. Len(FinalOrder(job)) - Len(order) |->
                LET id == FinalOrder(job)[Len(order) + i]
                IN  <<id, [rows |-> CommitRowsDense(PreTable(job, id)), blind |-> 0]>>]
HintOf(hints, id) == LET at == CHOOSE i \in DOMAIN hints : hints[i][1] = id IN hints[at][2]

-----------------------------------------------------------------------------
(* The opened polynomials over the grid: dense, or as views of the trace.  *)

TraceFacts == ML!Strict([i \in 1 .. cycles |-> Facts[RowAt(i - 1)]])

\* A committed polynomial as the witness serves it: a column by cycle, a
\* one-hot matrix by address, then cycle.
DenseView(id) ==
    IF BlockEmbedded(id) THEN PreTable(job, id)
    ELSE IF ~OneHot(id) THEN Increments(id, TraceFacts)
    ELSE LET hot == HotAddresses(job, id, TraceFacts)
         IN  ML!Strict([x \in 1 .. OneHotK(job) * cycles |->
                IF hot[((x - 1) % cycles) + 1] = (x - 1) \div cycles THEN 1 ELSE 0])

GridLength == 2^TotalVars(job)
PrefixEmbed(table) == [x \in 1 .. GridLength |-> IF x <= Len(table) THEN table[x] ELSE 0]
AddressMajorEmbed(id, table) ==
    LET block == CycleStride(job)
    IN  [x \in 1 .. GridLength |->
            LET cycle == (x - 1) \div block
                k == ((x - 1) % block) \div OneHotStride(job)
                aligned == (x - 1) % OneHotStride(job) = 0
            IN  IF OneHot(id) THEN IF aligned THEN table[k * cycles + cycle + 1] ELSE 0
                ELSE IF (x - 1) % block = 0 THEN table[cycle + 1] ELSE 0]
BlockEmbed(table, vars_) ==
    LET wide == RowWidth(job)
        own == 2^Sigma(vars_)
    IN  [x \in 1 .. GridLength |->
            LET r == (x - 1) \div wide
                col == (x - 1) % wide
            IN  IF col < own /\ r * own + col < Len(table) THEN table[r * own + col + 1] ELSE 0]
Embedded(id) ==
    LET table == DenseView(id)
    IN  ML!Strict(IF BlockEmbedded(id) THEN BlockEmbed(table, PreVars(job, id))
                  ELSE IF job.order = "AddressMajor" THEN AddressMajorEmbed(id, table)
                  ELSE PrefixEmbed(table))

\* Lazily: the places of the grid a polynomial has a value at.
Packed(facts) ==
    [i \in DOMAIN facts |->
        [facts[i] EXCEPT !.ram_address = IF @ = ML!NoIndex THEN Cold ELSE @]]
WitnessRow(packed) ==
    [packed EXCEPT !.ram_address = IF @ = Cold THEN ML!NoIndex ELSE @]
StrideT == IF job.order = "CycleMajor" THEN 1 ELSE CycleStride(job)
StrideK == IF job.order = "CycleMajor" THEN 2^job.log_t ELSE OneHotStride(job)
Place(cycle, address) == cycle * StrideT + address * StrideK
Entry(id, packed, cycle) ==
    LET row == WitnessRow(packed[cycle + 1])
    IN  IF OneHot(id)
        THEN LET hot == HotAddress(job, id, row)
             IN  IF hot = ML!NoIndex THEN {} ELSE {<<Place(cycle, hot), 1>>}
        ELSE IF Increment(id, row) = 0 THEN {} ELSE {<<Place(cycle, 0), Increment(id, row) % P>>}
BlockIndex(vars_, i) ==
    (i \div 2^Sigma(vars_)) * RowWidth(job) + (i % 2^Sigma(vars_))
BlockEntry(id, table, i) ==
    IF table[i + 1] = 0 THEN {} ELSE {<<BlockIndex(PreVars(job, id), i), table[i + 1]>>}
View(id) ==
    LET packed == Packed(TraceFacts)
        table == PreTable(job, id)
    IN  ML!Strict(IF BlockEmbedded(id)
                  THEN [i \in 1 .. Len(table) |-> BlockEntry(id, table, i - 1)]
                  ELSE [i \in 1 .. cycles |-> Entry(id, packed, i - 1)])

\* The work is cut in ranges whose partial sums are added.
SplitRanges(total) ==
    LET wanted == total \div MinRange
        ranges == IF wanted < 1 THEN 1 ELSE Least(wanted, 4 * Threads)
        chunk == OP!CeilDiv(total, ranges)
    IN  [i \in 1 .. OP!CeilDiv(total, chunk) |->
            ((i - 1) * chunk + 1) .. Least(i * chunk, total)]
SumEntries(view, range_, weight) ==
    LET Value(e) == e[2] * weight[e[1] + 1]
    IN  ML!MapThenSumSet(Value, UNION {view[i] : i \in range_}) % P
ScatterSum(view, weight) ==
    IF Len(view) <= MinRange THEN SumEntries(view, 1 .. Len(view), weight)
    ELSE LET ranges == SplitRanges(Len(view))
         IN  ML!Total([k \in DOMAIN ranges |-> SumEntries(view, ranges[k], weight)])
ViewEvaluate(view, point) == ScatterSum(view, ML!EqEvals(point, 1))
ViewFold(view, left, sigma) ==
    [c \in 1 .. 2^sigma |->
        ScatterSum(view, [n \in 1 .. GridLength |->
            IF (n - 1) % 2^sigma = c - 1 THEN left[(n - 1) \div 2^sigma + 1] ELSE 0])]
ViewRows(view, sigma) ==
    LET entries == UNION InSequence(view)
    IN  [r \in 1 .. GridLength \div 2^sigma |-> [c \in 1 .. 2^sigma |->
            LET here == {e \in entries : e[1] = (r - 1) * 2^sigma + c - 1}
            IN  IF here = {} THEN 0 ELSE (CHOOSE e \in here : TRUE)[2]]]

\* The two ways to prepare the polynomials of an opening.
FoldRows(how, id, left) ==
    LET sigma == Sigma(TotalVars(job))
    IN  IF how = "reference" THEN ML!DenseFold(Embedded(id), left, sigma)
        ELSE ViewFold(View(id), left, sigma)
EvaluateGrid(how, id, point) ==
    IF how = "reference" THEN ML!EvaluateAndConsume(Embedded(id), point)
    ELSE ViewEvaluate(View(id), point)

-----------------------------------------------------------------------------
(* Claims at their own points, and the one point they are opened at.       *)

Pick(at) == [i \in DOMAIN at |-> Coordinates[at[i]]]
Span(first, n) == [i \in 1 .. n |-> first + i - 1]
\* Where the stages leave each polynomial in the joint point.
CyclePoint ==
    Pick(IF job.order = "CycleMajor" THEN Span(TotalVars(job) - job.log_t + 1, job.log_t)
         ELSE Span(1, job.log_t))
AddressPoint ==
    Pick(IF job.order = "CycleMajor"
         THEN Span(TotalVars(job) - job.log_t - job.log_k + 1, job.log_k)
         ELSE Span(job.log_t + 1, job.log_k))
BlockPoint(vars_) ==
    LET n == TotalVars(job)
    IN  Pick(Span(OP!RowVars(n) - OP!RowVars(vars_) + 1, OP!RowVars(vars_))
                \o Span(n - Sigma(vars_) + 1, Sigma(vars_)))
OwnPoint(id) ==
    IF BlockEmbedded(id) THEN BlockPoint(PreVars(job, id))
    ELSE IF OneHot(id) THEN AddressPoint \o CyclePoint ELSE CyclePoint
Claim(id) == ML!EvaluateAndConsume(DenseView(id), OwnPoint(id))

Anchors ==
    LET order == FinalOrder(job)
        pre == {i \in DOMAIN order : BlockEmbedded(order[i])}
    IN  [k \in 1 .. Cardinality(pre) |-> OwnPoint(order[Len(order) - Cardinality(pre) + k])]
OpeningPoint ==
    OP!FinalOpeningPoint(job.log_t, job.log_k, job.order,
                         AddressPoint \o CyclePoint, CyclePoint, Anchors)

\* The factor of the variables a polynomial does not have.
EmbeddingScaleOne(point, own) == 1      \* slip: left out
EmbeddingScale(point, own) ==
    ML!Product([i \in DOMAIN point |->
        IF point[i] \in InSequence(own) THEN 1 ELSE (1 - point[i]) % P])

-----------------------------------------------------------------------------
(* The final opening.                                                      *)

Combine(commitments, scalars) ==
    [rows |-> [r \in DOMAIN commitments[1].rows |-> [c \in DOMAIN commitments[1].rows[r] |->
                ML!Total([i \in DOMAIN commitments |-> scalars[i] * commitments[i].rows[r][c]])]],
     blind |-> ML!Total([i \in DOMAIN commitments |-> scalars[i] * commitments[i].blind])]
\* Hints are ragged: the rows one does not have are the identity.
CombineHints(hints, scalars) ==
    [rows |-> [r \in 1 .. OP!MaxOf({Len(hints[i].rows) : i \in DOMAIN hints}) |->
                [c \in 1 .. RowWidth(job) |->
                    ML!Total([i \in DOMAIN hints |-> scalars[i] * RowEntry(hints[i].rows, r, c)])]],
     blind |-> ML!Total([i \in DOMAIN hints |-> scalars[i] * hints[i].blind])]

\* Dory orders variables the other way round.
Reversed(s) == [i \in DOMAIN s |-> s[Len(s) + 1 - i]]
LagrangeBasis(s) == ML!EqEvals(Reversed(s), 1)
LeftBasis(dory_point, sigma) == LagrangeBasis(SubSeq(dory_point, sigma + 1, Len(dory_point)))
RightBasis(dory_point, sigma) == LagrangeBasis(SubSeq(dory_point, 1, sigma))
Inner(a, b) == ML!Total([i \in DOMAIN a |-> a[i] * b[i]])

OpenJoint(how, order, scalars, hint, point) ==
    LET sigma == Sigma(Len(point))
        left == LeftBasis(Reversed(point), sigma)
        folds == [i \in DOMAIN order |-> FoldRows(how, order[i], left)]
    IN  [rows |-> hint.rows, blind |-> hint.blind,
         v |-> [c \in 1 .. 2^sigma |->
                    ML!Total([i \in DOMAIN order |-> scalars[i] * folds[i][c]])],
         y_com |-> IF job.zk
                   THEN <<ML!Total([i \in DOMAIN order |->
                            scalars[i] * EvaluateGrid(how, order[i], point)])>>
                   ELSE <<>>]
VerifyJoint(commitment, proof, point, eval) ==
    LET sigma == Sigma(Len(point))
    IN  /\ commitment = Tier2(job, proof.rows, proof.blind)
        /\ Len(proof.rows) = 2^(Len(point) - sigma)
        /\ proof.v = ML!FoldedRows(proof.rows, LeftBasis(Reversed(point), sigma), 2^sigma)
        /\ Inner(proof.v, RightBasis(Reversed(point), sigma)) = eval

\* The proof lists a family's commitments; a verifier takes them by index.
Layout(name) ==
    CASE name = "InstructionRa" -> job.instruction [] name = "BytecodeRa" -> job.bytecode
      [] name = "RamRa" -> job.ram
Assembled(hints) ==
    LET Of(id) == LET hint == HintOf(hints, id) IN Tier2(job, hint.rows, hint.blind)
        families == {"InstructionRa", "BytecodeRa", "RamRa"}
    IN  [rd_inc |-> Of(<<"RdInc", 0>>), ram_inc |-> Of(<<"RamInc", 0>>),
         ra |-> [f \in families |-> [i \in 1 .. Layout(f) |-> Of(<<f, i - 1>>)]],
         pre |-> [id \in {i \in InSequence(FinalOrder(job)) : BlockEmbedded(i)} |-> Of(id)]]
CommitmentOf(payload, id) ==
    CASE id[1] = "RdInc" -> payload.rd_inc [] id[1] = "RamInc" -> payload.ram_inc
      [] OneHot(id) -> payload.ra[id[1]][id[2] + 1]
      [] BlockEmbedded(id) -> payload.pre[id]

\* As many as the layout has in every family; a surplus one would be read past.
RequireEnough(payload) ==       \* slip: at least as many
    \A f \in DOMAIN payload.ra : Len(payload.ra[f]) >= Layout(f)
RequireLayout(payload) ==
    \A f \in DOMAIN payload.ra : Len(payload.ra[f]) = Layout(f)

Powers(gamma, n) == [i \in 1 .. n |-> (gamma^(i - 1)) % P]

\* A prover that claims one more than is true of the cheat-th polynomial.
Opened(hints, payload, gamma, cheat, how) ==
    LET order == FinalOrder(job)
        point == OpeningPoint
        scalars == Powers(gamma, Len(order))
        claims == ML!Strict([i \in DOMAIN order |->
                    (Claim(order[i]) + IF i = cheat THEN 1 ELSE 0)
                        * EmbeddingScale(point, OwnPoint(order[i]))])
        joint == Inner(scalars, claims)
        hint == CombineHints([i \in DOMAIN order |-> HintOf(hints, order[i])], scalars)
        proof == OpenJoint(how, order, scalars, hint, point)
        commitment == Combine([i \in DOMAIN order |-> CommitmentOf(payload, order[i])], scalars)
        eval == IF job.zk THEN proof.y_com[1] ELSE joint
    IN  /\ RequireLayout(payload)
        /\ VerifyJoint(commitment, proof, point, eval)
        /\ eval = joint             \* hidden, it is BlindFold's final binding

\* A payload as it is sent, or with one commitment more in a family.
WithSurplus(payload) ==
    [payload EXCEPT !.ra["RamRa"] = Append(@, payload.rd_inc)]
Open ==
    /\ job.pass # "none" /\ result = "ok" /\ opening = <<>>
    /\ \E gamma \in Gammas, how \in {"reference", "optimized"},
          cheat \in {0, 1, 3, Len(FinalOrder(job))}, surplus \in BOOLEAN :
        LET hints == Hints
            sent == Assembled(hints)
        IN  /\ surplus => cheat = 0
            /\ opening' = <<[gamma |-> gamma, cheat |-> cheat, how |-> how, surplus |-> surplus,
                    accepted |-> Opened(hints, IF surplus THEN WithSurplus(sent) ELSE sent,
                                        gamma, cheat, how)]>>
    /\ UNCHANGED <<vars, job, columns, pipe>>

Progress ==
    \/ Walk \/ DeliverColumns
    \/ FillFirst \/ FillBack \/ ConsumeFront \/ Join
CommitNext == Progress \/ Open
all_vars == <<vars, commit_vars>>
\* A pass runs to its end, on one thread or on the two of a join; whether
\* anything is opened is up to the prover.
CommitSpec ==
    (PlainInit \/ CommitInit) /\ [][CommitNext]_all_vars /\ WF_all_vars(Progress)

-----------------------------------------------------------------------------
\* The whole polynomial committed at once (DoryScheme::commit).
Unwidened == TotalVars(job) = job.log_k + job.log_t
CommittedWhole(id) ==
    CommitRowsOneHot([k |-> OneHotK(job), indices |-> HotAddresses(job, id, TraceFacts),
                      order |-> IF job.order = "CycleMajor" THEN "ColumnMajor" ELSE "RowMajor"],
                     TotalVars(job))

\* A pass that succeeds has delivered its range; one that commits has, in
\* whatever chunks, by whichever kernel and overlapped or not, made of every
\* column the commitment of its embedding in the grid: a one-hot column's rows
\* are, where the grid is not widened, those of committing it whole
\* (commit_witness, finish_one_hot_column_major_chunks).
ColumnsCommitted ==
    /\ WholeRangeDelivered
    /\ job.pass # "none" /\ result = "ok" =>
        \A id \in Columns(job) :
            LET of == FinishRows(job, id, columns[id])
            IN  /\ Tier2(job, of, 0) = Tier2(job, ML!DenseRows(Embedded(id), Sigma(TotalVars(job))), 0)
                /\ OneHot(id) /\ Unwidened => of = CommittedWhole(id)

\* The lazy views are the embeddings they stand for, whoever asks by rows.
ViewsEmbed ==
    \A id \in InSequence(FinalOrder(job)) :
        ViewRows(View(id), Sigma(TotalVars(job)))
            = ML!DenseRows(Embedded(id), Sigma(TotalVars(job)))

\* The final opening accepts the honest prover, transparent and hiding, by the
\* dense embeddings and by the lazy views of the trace, which are the same; a
\* claim that is false by one only if the batching challenge or the embedding's
\* factor makes it vanish; and no payload with a commitment to spare
\* (prove_batch, verify, commitment_embedding_scale, require_commitment_layout).
OpeningsAccepted ==
    opening # <<>> =>
        LET o == opening[1]
            id == FinalOrder(job)[o.cheat]
            weight == (o.gamma^(o.cheat - 1) * EmbeddingScale(OpeningPoint, OwnPoint(id))) % P
        IN  /\ o.accepted = (~o.surplus /\ (o.cheat = 0 \/ weight = 0))
            /\ o.how = "optimized" /\ o.cheat = 0 => ViewsEmbed
=============================================================================
