# zk-engine: a TLA+ verification project

The repository proves the execution of a WebAssembly function in zero
knowledge.  A wasm module is decoded and lowered to rows of a small fixed ISA
(`jolt-wasm-frontend`, `jolt-wasm-ir`), the rows run on a machine that records
a trace (`jolt-wasm-backend`), and the trace is proved by the Jolt protocol:
witness columns (`jolt-witness`) are committed (`jolt-dory`), ten batched
sumchecks (`jolt-sumcheck`, `jolt-kernels`, `jolt-prover`) turn claims about
the trace into claims about the columns, one joint opening (`jolt-openings`)
settles those, and `jolt-blindfold` hides all of it; the verifier
(`jolt-verifier`) replays the same transcript (`jolt-transcript`).

This directory holds TLA+ models of that program, the TLC configurations that
check them, and TLAPS proofs about them.

## 1. Inventory

### The wasm side

| part | state it keeps | operations | what makes it correct |
|---|---|---|---|
| `jolt-wasm-frontend/module.rs`, `source.rs` | the decoded module | `decode`: sections in order, one operator at a time | every accepted module has bounded frames, results and tables |
| `jolt-wasm-frontend/lower.rs` | `Emitter` (rows, fixups, cold blocks), per function a `FunctionCtx` (stack height, pending marks, labels) | `lower`, `lower_function`, `lower_op` and the `emit_*` helpers | the rows compute what the wasm operators compute: operands, locals, memory, control and calls |
| `jolt-wasm-ir` | none (pure) | `AluOp::evaluate`, `row_spec`, layout constants | one definition of each row, shared by machine, tables and constraints |
| `jolt-wasm-backend` | `Machine` (pc, registers, memory), the trace | `new`, `invoke`, `step`, `read_word`, `write_word`, `check_record` | a record is written for each row as the proof system reads it; traps stop the machine |
| `jolt-wasm-program` | the program image and the public claims | image and public-claims construction, trace rows, padding | the constraint witness of a row is the record; initial memory and public values agree with what the machine runs |

### The proof side

| part | state it keeps | operations | what makes it correct |
|---|---|---|---|
| `jolt-witness` | column windows of the trace | chunked walk with one row of look-ahead | a chunked walk and random access give the same columns, padding included |
| `jolt-dory`, commitment of `jolt-kernels` | rows of a grid, a partial row per column | fused, batched, pipelined and materialized passes; stage 0 | a streamed commitment is the commitment of the whole column embedded in the grid |
| `jolt-sumcheck` | per batch: running claim; per member: local claim, pending bind | `prove_batch`, `finish_rounds`, recorders, the verifier's rounds | members of different lengths share challenges; every member is bound once per challenge, in order |
| `jolt-kernels` | per sumcheck instance tables, partly sparse, split or lazy | `compute_message`, `bind`, `openings` | equal to the reference kernel at every round |
| `jolt-poly`, `jolt-lookup-tables` | tables being bound, prefix checkpoints | `bind`, `evaluate`, interpolation, closed forms | every representation is one polynomial |
| `jolt-claims` | none (pure) | points, phase splits, expressions of each relation | prover and verifier put an opening at the same point |
| `jolt-prover`, `jolt-verifier` | the transcript, the opening claims, the stage outputs | stages 1 to 8, both sides | prover and verifier absorb and squeeze the same sequence; no false claim survives |
| `jolt-blindfold`, `stages/zk` | the statement, the rows of its witness | build, assign, fold, prove, verify | the statement is the verifier; an honest fold is accepted |
| `jolt-openings` | opening views, the joint claim | combine, open, verify | the homomorphic batch opens what was committed |
| `jolt-transcript` | sponge state, round count | append, challenge, codec | a decoded value is the encoded one |

### How the parts meet

`lower` fills a `Program` (rows, entry stub, tables).  `Machine::new` loads it,
`invoke` writes parameters into the public-input region and runs `step` until
the exit row; every `step` appends a trace record.  `jolt-wasm-program` turns
the program into the verifier's image.  Stage 0 streams the trace through the
commitment consumers; stages 1 to 7 are batched sumchecks, each leaving opening
claims that later ones consume at the points they were left at; stage 8 opens
all committed columns at one unified point.  In the hiding mode rounds are
committed instead of sent, and BlindFold proves that the verifier's equations
hold of what was committed.  Prover and verifier share no memory: a proof, the
program and a transcript are all that connects them.

### What is hard here

* lowering keeps two descriptions of the operand stack (registers and pending
  marks) that must agree at every join of control;
* a callee runs in the caller's register file: what it may overwrite, and who
  restores it, is split between `emit_call`, `emit_return` and the entry stub;
* a load or a store has a fast path and a cold path that must behave alike at
  every alignment and at the memory's end;
* advice rows (division) let the prover pick a value, so the rows around them
  have to leave exactly one;
* a batch of sumchecks binds lazily: a member that starts late or ends early
  must see every challenge exactly once, in whatever order members are run;
* kernels never hold the table they sum over: halves, sparse cells, lazy
  products and prefix checkpoints change representation in mid-sumcheck;
* a pass over the trace hands out chunks whose last row needs the next chunk's
  first; the pipelined pass overlaps filling one buffer with draining another;
* prover and verifier are separate programs that must make the same sequence of
  transcript calls, and the hiding verifier states a third time, as linear
  equations, what the clear one computes.

`PROJECT.json` lists these, 40 in all, at their lines.

## 2. Plan and state

First what a proof claims (the wasm semantics of the rows), then what makes the
proof convincing (sumchecks, row constraints, stages), then what connects them.

| modules | composes | state |
|---|---|---|
| `Lowering`, `Lowering_proofs` | | checked, proved |
| `FuncTypes`, `CallStack`, `Calls`, `Calls_proofs` | `Calls` implements `CallStack` over `FuncTypes` | checked, proved |
| `RowMachine`, `Arith`, `Arith_proofs` | `Arith` runs sequences of `RowMachine` rows | checked, proved |
| `WasmMemory`, `LinearMemory`, `LinearMemory_proofs` | `LinearMemory` implements `WasmMemory` on `RowMachine` | checked, proved |
| `UniformConstraints`, `RowConstraints`, `RowConstraints_proofs` | machine step, `check_record`, constraints and witness of one row | checked, proved |
| `Numbers_proofs` | powers, remainders, digits and sums over finite sets, for the proofs | proved |
| `WitnessWindows`, `WitnessStream`, `WitnessStream_proofs` | `WitnessStream` implements `WitnessWindows` | checked, proved |
| `Poly` | round polynomials, bound tables, hints | proved (in `BatchedSumcheck_proofs`) |
| `BatchedSumcheck`, `BatchedSumcheck_proofs` | prover, scheduler, verifier and oracle | checked, proved |
| `BlindFold` | adds committed rounds and folding to `BatchedSumcheck` | checked |
| `Multilinear`, `LookupTables`, `Polynomials` | representations beside whole tables | checked |
| `SparseKernels`, `CycleKernels`, `SpartanKernels`, `ReadRafKernels`, `Kernels` | twenty-two kernels beside their references | checked |
| `CommittedOpenings` | adds the committing passes and the final opening to `WitnessStream` | checked |
| `OpeningPoints`, `ClaimGraph`, `Stages` | both sides of stages 1 to 8 over the graph of claims | checked |
| `ClaimExpressions`, `ZkStatement` | clear and hiding verifier of every relation, over `Stages` | checked |

Abstract specifications: `CallStack`, `WasmMemory` and `WitnessWindows` are what
calls, memory instructions and witness passes promise.

To prove next: the same for the pieces that stay with TLC now (section 5).

## 3. Modules and code

**`Lowering`** (`lower.rs`, `lower_op` and its helpers).  A function body is
chosen one operator at a time; an action lowers the operator as the code does
and runs its rows on the register file (`regs`, `ram`) while the same operator
runs on the wasm frame (`locals`, `stack`, `memory`).  `pending` is
`FunctionCtx::pending`, `labels` is `FunctionCtx::labels` without the fixups,
`height` the operand height that the decoder hands over.  An operator followed by
`local.set` or `local.tee` (`dest`) is one action with the absorbed write.
`Unary` and `Binary` are constants, any functions.  A branch that moves values
is a sequence of `MoveRow` steps, then `Jump`, because the rows of `move_down`
overlap.

**`FuncTypes`, `CallStack`, `Calls`** (`emit_call`, `emit_return`,
`emit_entry_stub`, `emit_indirect_target`, `canonical_type_ids`).  `CallStack`
is the wasm instance: a stack of frames.  `Calls` has one register file, the
shadow stack in memory with the guard and the globals above it, and `sp`, `ra`,
`temps`.  A return address is the call site.  Other operators write any slot of the
running frame.  The rows of a call up to its jump are one action, except that a
spill which runs out of room is another (`Exhaust`): it writes what the rows
before the trap have written.

**`RowMachine`, `Arith`** (`ir.rs`, `machine.rs`, `emit_binary`, `emit_unary`,
the division and shift helpers).  `RowMachine` has `AluOp::evaluate` on `2*H`-bit
words and executes rows; `Arith` has the row sequence of every numeric operator
as a function of its registers, and the wasm definition of the operator beside
it.  `AnyAdvice` replaces the honest quotient of an advice row by any word.

**`WasmMemory`, `LinearMemory`** (`emit_load`, `emit_store`,
`emit_memory_grow`, `emit_limits`, `memory.rs`).  `WasmMemory` is an array of
bytes with atomic loads, stores and grows.  `LinearMemory` is the cells (two
machine words apart, one wasm word each), the slack cell, the size word and the
four limit registers; each row of an instruction is a step, and the mapping
reads the wasm bytes out of the cells.

**`UniformConstraints`, `RowConstraints`** (`row.rs`, `check_record`,
`trace_row.rs`, `constraints/wasm.rs`, `constraints/jolt.rs`).  One row: what
the machine records, what `check_record` accepts, and the constraints in the
order and the two groups in which the spartan kernels weigh them.  A behaviour
fills in a witness column by column, each with any value the constraints allow;
what other arguments of the protocol give (bytecode columns, register reads,
RAM reads, table entries) is given.

**`WitnessWindows`, `WitnessStream`** (`consumer.rs`, `cycle.rs`).  A pass in
chunks with one row of look-ahead over several consumers (`Buffer`, `Deliver`,
`Skip`, `FailExtraction`, `Finish`), against the windows of random access.
**`CommittedOpenings`** extends it: the consumers commit columns into a grid by
each row kernel (fused, batched with carries between chunks, pipelined on two
buffers and the two closures of a `rayon::join`, materialized), stage 0 keeps
hints and commitments, and `Open` is the final opening: views, the homomorphic
batch and its verifier.  Commitments are ideal: a row commitment is its row.

**`Poly`, `BatchedSumcheck`** (`jolt-sumcheck`, `univariate.rs`,
`compressed_univariate.rs`).  `BatchedSumcheck` follows `prove_batch`: `Check`,
`StartRound` up to the scheduler, `Run` per scheduled item in any order,
`FinishRound` or `FailRound` after it, `FinishMember` after the loop, then the
proof goes to the verifier (`AcceptRound`, `RejectRound`, `Reduce`), or `Forge`
gives that verifier any proof.  The transcript is a random oracle: the sequence
absorbed so far determines the challenge, a new sequence may get any field
element.  **`BlindFold`** extends it with batches proved under committed rounds: the
constraint system of a uni-skip stage, a batch and a final opening
(`append`, `append_sumcheck_r1cs_constraints_for_domain`), the assignment of its
witness in rows, folding with a random instance, and the two sumchecks and the
checks of the folded proof.

**`Multilinear`, `LookupTables`, `Polynomials`** (`jolt-poly`,
`jolt-lookup-tables`).  Split eq and lt tables bound from either end, their round
messages, eq tables built whole, in blocks and by every length, the closed forms
of the verifier, interpolation over consecutive, centred and arbitrary points,
one-hot, dense and combined rows; all lookup tables by entry, closed form and
prefixes and suffixes.  A behaviour of `Polynomials` binds round by round.

**`SparseKernels`, `CycleKernels`, `SpartanKernels`, `ReadRafKernels`,
`Kernels`** (`jolt-kernels`; the plain references of `reference/` are in
`CycleKernels`, the one-hot kernels in `ReadRafKernels`).  `Kernels` runs one
kernel on one job: each step draws a challenge, binds the optimized state
and the whole tables of the reference, and compares.

**`OpeningPoints`, `ClaimGraph`, `Stages`** (`jolt-claims` geometry, the stage
files of prover and verifier).  A point is a sequence of coordinates
`<<stage, i>>`.  `ClaimGraph` says for every relation what it consumes, what it
leaves and where; `Stages` runs the prover's stages, then the verifier's on what
it was sent, each with its own log of transcript calls.  Claims are true or
false; a sumcheck with a false input can only end in a false output.

**`ClaimExpressions`, `ZkStatement`** (`jolt-claims` relations, the verifier's
relations, `stages/zk/blindfold`).  Input and output expression of each relation
as polynomials in openings, challenges and derived values, evaluated as the clear
verifier does and as the hiding verifier's statement does, by their own code for
points and values.

Operators whose comment says `slip` are plausible mistakes in the code next to
them; no specification uses them.  Replacing the definition they vary by them makes
a property fail, which shows that the property constrains that definition.
In the map a helper whose lines are all named by the rows of the definitions that
use it has no row of its own.

## 4. Runs

| run | question | bounds, and why they are enough |
|---|---|---|
| `lowering` | do registers and marks stand for the wasm frame, whatever is forwarded, and at joins? | a parameter and a declared local, 3 operands, 2 values, one label: one local is aliased by several operands while the other is written, three operands leave one below a binary operator, a branch moves two values that overlap by one; the theorems remove the bounds and nest labels |
| `calls` | do spilled frames come back, and does `call_indirect` enter only a function of the named type? | functions with none, one and two parameters, 5 words of shadow stack: the stub and up to three frames, exhaustion at every row of a spill; a null slot, an index past the table, equal types under two indices; the theorems remove the bounds |
| `arith` | do the rows compute the wasm operators, and do the asserts leave one quotient? | `H = 4`: all pairs of 4-bit i32s, 30-odd 8-bit edge values (`Samples64`); every aliasing of destination and operands; any advice word on the operands `Few` |
| `narrow_advice` | the same for the unsigned 32-bit division | violated: section 7 |
| `memory` | are memory instructions the wasm ones, also around `memory.grow`? | `MaxOps = 2` instructions on pages of 8 bytes, none to 2 of them: bases 0, 1, 2, 5 and 6 with offsets 0 and 3 put every width on every lane it can start at, an access of 8 bytes across three cells, up to the end and one byte past it; base and offset 255 add up past 32 bits; two instructions are an access before or after a grow, or after another access |
| `rows` | is a row's witness the machine's step? | 2-bit words over the field of 17, which holds a product of two words as the code's does; code of 3 rows, two mapped addresses (`Mapped`); every instruction class and operand mode |
| `trap_rows` | does a Trap row have a witness? | violated: section 7 |
| `batch` | does the batch keep its claims, does the verifier follow, how often can a false claim turn true, and does a hidden batch verify? | field of 5, batches of up to 2 rounds, 2 or 3 members at all offsets, degrees to 4, refused batches; forged proofs of two rounds with messages of up to three coefficients; committed batches with `Capacity = 4` columns (a power of two as in the code), two `Seeds`, every challenge of the rounds, one fold challenge |
| `stream` | does chunking show; is what a pass commits the column; does the opening accept? | up to 8 cycles and chunks of 5 at three consumers, a failing row at each place (`ImplementsWindows`, `PassEnds`); passes over traces of up to 31 rows in nine grids narrower, wider and higher than the trace, chunks of one row and of a whole block; field of 101, one `Gammas` draw, distinct `Coordinates`, `Cold` outside every chunk's range, folds on one thread (`Threads`, `MinRange`) |
| `polynomials` | is each representation one polynomial? | field of 101, 1 to 5 variables, two coordinates per place; lookup words of 16 bits (`XLEN`) in phases of `ChunkLen = 4` at operands on the edges |
| `kernels` | are the kernels modelled their references? | field of 31, words of 4 bits in chunks of 2, traces of 2 to 16 cycles, the longest with more cycles than registers so that one half of the split eq spans several cycles; `LutLimit = 16` and `LazyWidth = 2` so that the index tables overflow and the lazy columns materialise in mid-sumcheck |
| `stages` | do claims meet, do both sides agree, is the hiding statement the verifier? | traces of 4 to 8 cycles, chunks of two bits; every phase split, both layouts, programs below and above the main matrix; one false claim anywhere; `VcCapacity = 4` so that statements need several rows |

Some properties are conjunctions of parts that one behaviour of the code must
keep together:
`HonestProofReduces` (the round check never fails, `InLockstep`, the final sums
agree), `PointsMeet` (`AnchorsMet`, `AliasesSame`, `OpeningsMeet`), `SidesAgree`
(`TranscriptsAgree`, `HonestAccepted`), `StatementsAgree` (`EquationsComplete`,
`TableFoldsAgree`, `StatementIsVerification`), `RoundsFold` (`HalvesHold`,
`WindowsHold`, `MessagesHold`), `FormsAgree` (`ClosedFormsHold`, `EqFormsAgree`,
`MasksHold`), `InterpolationHolds`, `LookupsHold`, `RoundsAreSums`
(`MessageIsSum`, `UniskipIsSum`), `ColumnsCommitted` (with
`WholeRangeDelivered`), `OpeningsAccepted` (with the agreement of the lazy views
and the dense embeddings).

Runs turn deadlock checking off where the system really stops: a program halts
or traps (`Calls`, `Arith`, `LinearMemory`), a proof ends (`BatchedSumcheck`,
`BlindFold`, `Stages`, `Kernels`, `Polynomials`), a row is complete
(`RowConstraints`), a pass ends (`WitnessStream`).

One liveness property is checked: `PassEnds`.  `CommitSpec` assumes
`WF_all_vars(Progress)`, no more: the walk runs in one thread that waits for nobody,
and in the pipelined pass the two closures of a join each run to their end and the
join waits for both.  Whether anything is opened afterwards is not assumed.  The
rest of the modelled code is sequential, and nothing in it is waited for.

## 5. Proofs

Everything below is checked by `tlapm` for every value of the constants, under
the assumptions named.

**`Lowering_proofs`**: `TypeCorrect`, `Simulates`, `MarksFresh`, `JoinsAreClean`,
for every number of locals, frame size, nesting depth, set of block signatures,
value set and pair of operator functions (`BoundsAssumption`,
`ValueAssumption`).  `TypeOK` and `Simulation` are not inductive alone.  `IInv`
adds `NoStaleMark` (a push would otherwise revive an old mark) and `MoveOk`
(while values move down, the target is below the source, the rows done are below
the rows to do, and nothing is pending), without which a later row of `move_down`
might read what an earlier one wrote.  The lemmas are about frame slots and
denotation (writing one slot changes the denotation of that depth only,
materialising a mark changes none, saving the aliases of a local makes it free to
write); then a step lemma per family of operators, and one case per action.

**`Calls_proofs`**: `CallsImplementFrames` (the refinement), `SpillsMissGlobals`,
`IndirectSound`, `TypeCorrect`, `CanonicalIdsSeparate`, for every type section,
table and stack (`ModuleAssumption`, `StackAssumption`).  `StackInvariant` says
that the shadow stack is a chain of frames, each spilled by a call site whose
frame fits (`TypeOK`, `FrameFits`, `Places`, `Linked`, `GlobalsUntouched`);
`FramesInvariant` adds `Typed`: every open frame returns what its call site expects.
The refinement goes phase by phase: entering a frame, resuming one after the
reload, a step of the body, and steps the abstract stack does not see.

**`WitnessStream_proofs`**: `StreamImplementsWindows` and `WholeRange`, for every
trace, range, chunk size and tuple of consumers (`StreamAssumption`).
`StreamInvariant`: the buffer is the chunk at `start` with its lookahead, each
active consumer has exactly the windows of the cycles handed out, the others
nothing.

**`BatchedSumcheck_proofs`**, first part (about `Poly`): the algebra of a sumcheck
round over every odd prime, for tables of every length and any number of factors: `RoundPolyBinds` (the round polynomial
at a challenge is the sum of the bound tables), `RoundPolySums` (its values at 0 and
1 add up to the sum), `HintRecovers` (the compressed form with the hint is the whole),
`BindExtends` (the bound tables have the extension the tables have at the challenge),
`FewRoots` (a polynomial has no more roots than its degree), `LuckOfARound`.
A fold of the community modules unfolds over the sets `1 .. n` by well-founded
induction (`WFMin`, lemmas `Inductive`, `Iterates`); on it rest the laws of `Total`,
`Product` and of Horner's rule, and congruence modulo `P`.

**`BatchedSumcheck_proofs`**: `TypeCorrect` (`TypeOK`), `DeliveredInOrder`
(`ChallengesDelivered`), `ClaimsCombine` (`RunningIsCombination`),
`ProverAndVerifierInLockstep` (`InLockstep`), `HonestProofsReduce`
(`HonestProofReduces`), `ClaimsReachValues` (`ClaimsAreValues`) and `LuckIsBounded`
(`LuckBounded`), for every batch, window, prime, forged proof and order of the
scheduler.  Assumed of the constants:
`PAssumption`; `BatchAssumption`, the types of what a prelude holds;
`KernelAssumption`, a member's factors are tables over one hypercube;
`HonestAssumption`, the claims of an honest batch are its members' sums (members that
do not fit their description are still among the batches: `Check` turns them away);
`ForgedAssumption`, a forged claim is about a member that fits the claim's rounds and
degree; `ProofAssumption`, a forged proof is made of field elements.

None of the properties is inductive alone.  Each layer builds on the ones before it:

* `DeliveryInv`: items of a round are those of active members not yet run, one each,
  with what was pending for it; a member whose window is open has exactly the last
  challenge outstanding.
* `LockstepInv`: the oracle remembers every prefix of the transcript with the
  challenge drawn after it, every recorded message is within the degree, and the
  verifier's transcript is a prefix of the prover's.
* `ClaimsInv`: `constant` is the inactive members' share, each active member has one
  message, and between rounds the running claim is the combination of the claims.  At
  the end of a round the folded, trimmed polynomial is the sum of the members' shares
  (`RoundMessage`), so its value at the challenge is the new combination.
* `TypeInv`: what was recorded is trimmed, and the verifier's sum stays in the field
  for any proof.
* `Reckoned`: the recorded rounds and the challenges give the claim after each round
  (`HintRecovers`), and the verifier's sum is the one of its round.
* `HonestInv`: a member's claim is the sum over its tables, bound to what it still
  holds, times its padding, times a half for every round it sat out (`Values`); in a
  round the running claim is what it was before the inactive claims were halved
  (`Balanced`).  Then the round's polynomial sums to the running claim
  (`RoundBalances`, from `RoundPolySums`): the engine's check cannot fail.
* `ValuesInv`: a member's polynomial, at what it was given already and any further
  coordinates, is the polynomial of its bound tables at those coordinates
  (`BindExtends`).  At the end no coordinate is left, and the padding has undone the
  idle rounds (`PadHalves`).
* `ForgedInv`: the verifier of a forged proof keeps the claim's degree and rounds.  A
  round's message, completed with the linear coefficient the running sum gives, and
  the member's own round polynomial have different sums over 0 and 1 (`HintSums`,
  `RoundPolySums`), so they differ, and by `FewRoots` they meet in at most `degree`
  points (`LuckOfARound`).  `FewRoots` needs no divisors of zero, which is where the
  characteristic being prime is used (`NoZeroDivisors`), and a factor for every root
  (`Factors`).

**`RowConstraints_proofs`**: `WitnessSound` (`WitnessIsStep`), `HonestRows`
(`HonestRowsHold`) and `CheckRestates` (`CheckRecordRestates`), for every width `W` of
words, every prime `P` above the square of a word's range, every code length and
memory (`FieldAssumption`, `WidthAssumption`: addresses and pcs are words).  The code
has `W = 64` and a field of 254 bits, where TLC has `W = 2`.

A witness is filled column by column and a constraint is checked as soon as its
columns are there, so the properties say nothing before the last column.  `RowInv`
is what every step keeps: the columns filled are the row's own, as the row says, and
the first `n` of the order a prover fills them in, each with a value it may hold
(`Prefix`); and every constraint whose columns are there holds (`Kept`).  A complete
witness then satisfies all 24 (`ConstraintsRegular`: none reads another column).

* A form is a sum over its columns in whatever order TLC's definition takes them
  (`FormIsSum`, `SumAnyOrder`); `AllSatisfied` says what each constraint comes to
  on the columns its row can leave nonzero.
* Equality in the field is equality of integers once both sides stay below `P`:
  operands are words, and the product of two words does not wrap (`P > M * M`).
* In an honest or an arbitrary record the columns are known (`RecordHolds`,
  `CheckIsAccepted`).  Where a prover picks (`WitnessSound`), inputs and products
  are any field element and the constraints pin them (`InputsExact`,
  `LookupsExact`, `OutputExact`, `NextPcExact`, `RamExact`), the lookup's output
  being the entry the lookup argument gives at the index they make.

**`Arith_proofs`**: `Arithmetic`, `Results` (`ResultIsWasm`), `Traps` (`TrapIsWasm`)
and `AdvicePins` (`WideAdvicePinned`), for every `H` that is a power of two from 4 up
(`WidthAssumption`: a mask takes a count modulo the width), every set of operands of
each width (`OperandAssumption`), every register file that has the named registers
(`RegAssumption`) and every prover.  The code has `H = 32`, where TLC has `H = 4`;
TLC's operands are edge values, the theorem's are any.

The three properties speak of the registers where the rows end, so they are not
inductive: nothing in a state says which rows have written it.  `ArithInv` says it:
`code` is what `emit_binary`, `emit_unary` or `Convert` emits for the job
(`Lowered`), and the rows before `pc` lead from the registers it started with to the
present ones, a trap being the failure of the assert at `pc` (`Reached`).  It is a
statement about a whole run, with the registers in between as its witness, so TLC
checks what follows from it and not itself.  Every step keeps it (`StepHolds`), and
where execution stops it is the premise of one lemma (`LoweredGood`): the rows of
any operator, from any registers that hold its operands, end in wasm's trap or
leave wasm's result in the destination and nothing but it and the temporaries
changed.  That lemma is put together the way `lower.rs` puts the rows together:

* what a table gives is arithmetic modulo `M` (`MulWraps`: a product taken in halves)
  or on digits (`AndMask`, `OrApart`, `XorSign`, `MaskShift`, `LeadingHalf`); the
  community modules' sum over digits comes with `Numbers_proofs`;
* each helper has a lemma about its rows (`ShiftBitmaskRuns`, `RotrRuns`,
  `SignExtendRuns`, `MagnitudeRuns`, `OverflowRuns`, `SignRuns`, `DivmodRuns`), and
  sequences are cut where one ends and the next begins (`RunsSplit`, `EndsJoin`);
* `Pins`: the asserts leave one quotient.  At 64 bits the first one keeps the product
  from wrapping (`Fits`); a narrow unsigned division has no such row, which is what
  `narrow_advice` shows, and the theorems except it (`Loose`);
* a signed division is that of the magnitudes, re-signed (`SignedDivision`), and the
  only quotient that has no representation is the one the overflow check stops.

**`LinearMemory_proofs`**: `TypeCorrect`, `LimitsHold` (`LimitsMatch`) and
`MemoryImplementsWasm` (`ImplementsWasmMemory`, the refinement), for every byte width
whose four bytes are a power of two of bits, from 8 up (`WidthAssumption`), every page
of at least four bytes, every cap of pages whose bytes an i32 counts, every initial
memory and contents, every operand, offset and word stored, and any number of operators
(`MemoryAssumption`), on every register file that has the named registers
(`RegAssumption`).  The code has bytes of 8 bits and pages of 2^16; TLC has 2 and 2^3.

As with `Arith`, the properties speak of where the rows end.  A machine state is *safe*
for a request (`Safe`) when it is in some set of well-typed states that every row leads
from into itself, and whose stopped states have the effect the request asks for, or
trapped where wasm does.  `IInv` says that the present state is safe.  A step keeps it
by definition (`SafeMoves`), and where the rows stop it says what they have done
(`SafeStops`, `NowEnds`); the work is that an operator just issued is safe
(`LoadLaunches`, `StoreLaunches`, `SizeLaunches`, `GrowLaunches`), from any registers,
any memory and limits that match it.  `Safe` speaks of sets of states, so TLC checks
what follows from `IInv` and not itself.

* A memory of `e` cells and the slack one stands for `4 * e` bytes, the digits of the
  cells (`ByteIs`); a splice of one cell patches the bytes (`PatchCell`), and patches
  side by side are one (`PatchTwice`), so that a store over two or three cells is.
* An access takes a window of the digits of one, two or three cells (`SpellOne`,
  `SpellTwo`, `SpellThree`); shifts, masks and joins of rows take windows (`WindowLow`,
  `WindowTop`, `PairJoins`).
* Rows come to a state row by row (`Comes`), with what each register holds: the address
  and the bounds assert (for an offset that carries past 2^32, too), the branch to the
  cold rows exactly when the access crosses its cell, and either path to the end.
* A limit register compares as the bounds check does, without wrapping, because the cap
  keeps a memory's bytes within an i32 (`LimitWords`).

The refinement is then that an operator issued is `Wasm!Issue`, the last row of a safe
run `Wasm!Perform`, and the rows before it stutter (`IssueRefines`, `StepRefines`):
no store has touched the memory when its bounds assert fails.

**`Numbers_proofs`**: Euclidean quotients and remainders, powers of two, sums over a
finite set (they exist, are unique, and may be taken in any order), and the bitwise
conjunction of two numbers as the sum over their digits, with its partial sums; blocks
and splices of digits; sequences laid one after the other among the rows.

Out of the prover's reach, and only model-checked:

* liveness (`PassEnds`) and ENABLED;
* what recursive operators compute;
* properties that compare two computations on given data: `Polynomials`, `Kernels`,
  `ZkStatement`, `CommittedOpenings`, `BlindFold`.  Each is a family of identities of
  its own, enumerated by TLC;
* `Stages`: its behaviours are a few long runs per configuration; that a claim meets
  its point is a fact about the configuration's arithmetic, which TLC evaluates.

## 6. Not modelled

The components marked so in `PROJECT.json` have their reasons there: the decoder
is wasmparser's, fixups and the program image are layout and serialisation, the
sponge and the group arithmetic are outside what can be enumerated, macros,
profiling and scripts hold no protocol state.

Within the modelled parts:

* bodies follow the operand heights of reachable code (what the decoder reports
  after a branch is left out); branch targets are control states, not pcs;
* registers hold fewer bits than 64, with the two widths in the same ratio; a row
  never writes the zero register, and memory rows never wrap the address, as the
  emitted rows make sure; `CANONICAL_INSTRUCTION_ADDRESS`, a constant that is
  false, has no branch;
* public inputs and outputs occupy disjoint segments, as `PublicIoMemory` builds
  them; the outputs of the bytecode address kernel that only a committed program
  reads are left out of `Kernels` (they are in `ClaimExpressions`), and so are the
  kernels of `precommitted_reduction.rs`; kernels compute in the field, so the widths
  of the truncated integers they accumulate in are not checked;
* committed columns: row commitments are ideal, a materializing pass is one step,
  a committed program's own commitments carry no blind, coordinates of a point are
  distinct values;
* `ZkStatement` computes with symbols: `eq`, `lt`, tables and Lagrange kernels
  are atoms, the skip scale is a count of skipped rounds, and batching coefficients are
  compared relation by relation; a final chunk or image opening carries one relation
  tag in the code where `ClaimGraph` tags by phase;
* `BlindFold`: one final opening, as the composed system has; with two or more the
  prover appends all output openings before all blindings (`prove.rs` 527-542) while
  the verifier interleaves them (`verify.rs` 249-357), which the model does not reach;
  its own transcript is a draw per challenge; malformed statements and proofs are not
  modelled.

## 7. Disagreements found

* `narrow_advice`: `emit_unsigned_divmod` omits the overflow assert for 32-bit
  operands, on the ground that "at 32 bits the product cannot wrap".  The
  quotient is an advice word of 64 bits, and a product that wraps can satisfy
  both remaining asserts, so the rows do not pin the quotient.
* `trap_rows`: the trap flag is declared to stop a row from completing, but no
  constraint reads it: a Trap row has a witness whose next pc is the next row.
