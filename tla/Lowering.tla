------------------------------ MODULE Lowering ------------------------------
(***************************************************************************)
(* The operand-stack side of `Emitter::lower_op` (jolt-wasm-frontend,      *)
(* lower.rs): wasm locals and operand-stack slots live in registers, and   *)
(* `local.get` and constants are forwarded instead of copied -- a stack    *)
(* slot may be "pending", its register stale.                              *)
(*                                                                         *)
(* A function body and the rows lowered from it run side by side.  The     *)
(* body is chosen one operator at a time; an action lowers one operator    *)
(* and runs its rows on the register file, and runs the operator on the    *)
(* wasm frame.  Calls and returns are in module Calls; what the rows of    *)
(* one operator compute is abstracted to the functions Unary and Binary    *)
(* (module Arith).                                                         *)
(***************************************************************************)
EXTENDS Integers, Sequences

CONSTANTS
    NumLocals,    \* locals of the function, parameters included
    NumParams,    \* the first of them, set by the caller; the others start at 0
    MaxHeight,    \* operand-stack slots of the frame
    MaxLabels,    \* bound on the nesting of blocks
    Sigs,         \* block signatures: records [params, results]
    Value,        \* wasm values
    Zero,         \* the value a condition is false on, and locals start at
    Unary,        \* what a one-operand operator computes
    Binary        \* what a two-operand operator computes

ASSUME BoundsAssumption ==
    /\ NumLocals \in Nat
    /\ NumParams \in 0 .. NumLocals
    /\ MaxHeight \in Nat
    /\ MaxLabels \in Nat
    /\ Sigs \subseteq [params : Nat, results : Nat]

ASSUME ValueAssumption ==
    /\ Zero \in Value
    /\ Unary \in [Value -> Value]
    /\ Binary \in [Value \X Value -> Value]

Local == 0 .. NumLocals - 1
Depth == 0 .. MaxHeight - 1
Slot  == 0 .. NumLocals + MaxHeight - 1     \* frame slots: locals, then stack

\* Register of operand-stack depth d (FunctionCtx::stack).
StackSlot(d) == NumLocals + d

\* Pending marks: the value of a stack slot that is not in its register.
NotPending == [kind |-> "none"]
Alias(i)   == [kind |-> "local", local |-> i]
Imm(v)     == [kind |-> "const", imm |-> v]
Pending    == {NotPending} \cup {Alias(i) : i \in Local} \cup {Imm(v) : v \in Value}

\* Where a result goes: its own slot, or the local that the next operator, a
\* `local.set` or `local.tee` absorbed by this one, writes.
InSlot   == [kind |-> "slot"]
Dests    == {InSlot} \cup [kind : {"set", "tee"}, local : Local]

Label == [kind : {"block", "loop", "if", "else"}, base : 0 .. MaxHeight,
          params : Nat, results : Nat, hasElse : BOOLEAN]

\* No branch is moving values, or the copy rows of `move_down` under way for
\* a branch to label `depth`: the first k of n values are moved down to base.
NoMove == [on |-> FALSE]
Moves  == [on : {TRUE}, depth : Nat, base : 0 .. MaxHeight, n : Nat, k : Nat]

VARIABLES
    locals,    \* wasm frame: the locals ...
    stack,     \*   ... the operand stack, 0 .. height - 1 ...
    height,
    memory,    \*   ... the addressable words (globals and memory) ...
    labels,    \*   ... and the enclosing blocks, innermost last
    regs,      \* register file: the frame slots
    ram,       \* machine memory
    pending,   \* lowering: FunctionCtx.pending
    looked,    \* lowering: the last result looked at `next` and saw no set/tee
    moving,    \* the rows of move_down still to run
    agree      \* every branch row so far went the way its wasm operator does

frame   == <<locals, stack, height, memory, labels>>
machine == <<regs, ram, pending, looked, moving>>
vars    == <<frame, machine, agree>>

-----------------------------------------------------------------------------
(* Pending slots *)

\* The value depth d stands for, in register file r under marks p.
Denote(r, p, d) ==
    IF p[d].kind = "local" THEN r[p[d].local]
    ELSE IF p[d].kind = "const" THEN p[d].imm
    ELSE r[StackSlot(d)]

\* Run the copy rows that write the pending depths of D to their registers.
Materialize(r, p, D) ==
    [s \in Slot |-> IF \E d \in D : s = StackSlot(d)
                    THEN Denote(r, p, s - NumLocals)
                    ELSE r[s]]

Clear(p, D) == [d \in Depth |-> IF d \in D THEN NotPending ELSE p[d]]

Aliasing(p, i) == {d \in Depth : p[d] = Alias(i)}

\* Emitter::src: the register to read depth d from, once ReadSrc has written
\* the pending constants among the operands D.
SrcReg(p, d) == IF p[d].kind = "local" THEN p[d].local ELSE StackSlot(d)
ReadSrc(r, p, D) == Materialize(r, p, {d \in D : p[d].kind = "const"})

\* Emitter::dest: the register of the result of depth d, the register file
\* after the rows that save the local's aliases, and the marks left.
DestReg(d, dest) == IF dest = InSlot THEN StackSlot(d) ELSE dest.local
DestFileUnsaved(r, p, dest) == r      \* slip: the aliases are not saved
DestFile(r, p, dest) ==
    IF dest = InSlot THEN r ELSE Materialize(r, p, Aliasing(p, dest.local))
DestPending(p, d, dest) ==
    IF dest = InSlot THEN p
    ELSE [e \in Depth |-> IF dest.kind = "tee" /\ e = d THEN Alias(dest.local)
                          ELSE IF e \in Aliasing(p, dest.local) THEN NotPending
                          ELSE p[e]]
DestAbsorbs(dest) == dest # InSlot

-----------------------------------------------------------------------------
(* The wasm frame *)

\* The operator's result v at depth d, and the absorbed operator on it.
Push(d, v, dest) ==
    /\ height' = IF dest # InSlot /\ dest.kind = "set" THEN d ELSE d + 1
    /\ stack' = [e \in 0 .. height' - 1 |-> IF e = d THEN v ELSE stack[e]]
    /\ locals' = IF dest = InSlot THEN locals
                 ELSE [locals EXCEPT ![dest.local] = v]

Pop(n) ==
    /\ height' = height - n
    /\ stack' = [e \in 0 .. height - n - 1 |-> stack[e]]

LabelAt(d) == labels[Len(labels) - d]
Arity(l)   == IF l.kind = "loop" THEN l.params ELSE l.results

\* Validation: a branch to depth d from height h finds its values.
BranchOk(d, h) == d < Len(labels) /\ h >= LabelAt(d).base + Arity(LabelAt(d))

-----------------------------------------------------------------------------
Init ==
    /\ locals \in {l \in [Local -> Value] : \A i \in Local : i >= NumParams => l[i] = Zero}
    /\ stack = [d \in {} |-> Zero]
    /\ height = 0
    /\ memory \in [Value -> Value]
    /\ labels = <<>>
    /\ regs \in {r \in [Slot -> Value] : \A i \in Local : r[i] = locals[i]}
    /\ ram = memory
    /\ pending = [d \in Depth |-> NotPending]
    /\ looked = FALSE
    /\ moving = NoMove
    /\ agree = TRUE

\* An operator is lowered next (no move rows are left to run).
AtOperator == ~moving.on

Straight == UNCHANGED <<labels, moving, agree>>

-----------------------------------------------------------------------------
(* Operators that emit no row, or the rows of a set *)

Const(v) ==
    /\ AtOperator /\ height < MaxHeight
    /\ pending' = [pending EXCEPT ![height] = Imm(v)]
    /\ looked' = FALSE
    /\ Push(height, v, InSlot)
    /\ UNCHANGED <<regs, ram, memory>> /\ Straight

LocalGetUnbounded(i) ==                \* slip: no check of the frame's size
    /\ AtOperator
    /\ pending' = [pending EXCEPT ![height] = Alias(i)]
    /\ looked' = FALSE
    /\ Push(height, locals[i], InSlot)
    /\ UNCHANGED <<regs, ram, memory>> /\ Straight

LocalGet(i) ==
    /\ AtOperator /\ height < MaxHeight
    /\ pending' = [pending EXCEPT ![height] = Alias(i)]
    /\ looked' = FALSE
    /\ Push(height, locals[i], InSlot)
    /\ UNCHANGED <<regs, ram, memory>> /\ Straight

DropKeepsMark ==                       \* slip: the mark is not taken
    /\ AtOperator /\ height > 0
    /\ looked' = FALSE
    /\ Pop(1)
    /\ UNCHANGED <<pending, regs, ram, memory, locals>> /\ Straight

Drop ==
    /\ AtOperator /\ height > 0
    /\ pending' = Clear(pending, {height - 1})
    /\ looked' = FALSE
    /\ Pop(1)
    /\ UNCHANGED <<regs, ram, memory, locals>> /\ Straight

\* local.set / local.tee not absorbed by the operator before it.
LocalWrite(dest) ==
    LET d     == height - 1
        taken == Clear(pending, {d})
        saved == DestFile(regs, taken, dest)
    IN  /\ AtOperator /\ height > 0 /\ ~looked
        /\ dest # InSlot
        /\ regs' = [saved EXCEPT ![dest.local] = Denote(saved, pending, d)]
        /\ pending' = DestPending(taken, d, dest)
        /\ looked' = FALSE
        /\ Push(d, stack[d], dest)
        /\ UNCHANGED <<ram, memory>> /\ Straight

-----------------------------------------------------------------------------
(* Operators with a result: the operands are read, `dest` is asked for the  *)
(* result's register, and the operator's rows run.                          *)

\* unary operators, conversions and the other one-to-one operators
UnaryOp(dest) ==
    LET d    == height - 1
        a    == SrcReg(pending, d)
        left == Clear(pending, {d})
        file == DestFile(ReadSrc(regs, pending, {d}), left, dest)
    IN  /\ AtOperator /\ height > 0
        /\ regs' = [file EXCEPT ![DestReg(d, dest)] = Unary[file[a]]]
        /\ pending' = DestPending(left, d, dest)
        /\ looked' = ~DestAbsorbs(dest)
        /\ Push(d, Unary[stack[d]], dest)
        /\ UNCHANGED <<ram, memory>> /\ Straight

\* binary operators; `immediate` is binary_takes_immediate(op)
BinaryOp(immediate, dest) ==
    LET d    == height - 2
        a    == SrcReg(pending, d)
        b    == SrcReg(pending, d + 1)
        asImm == immediate /\ pending[d + 1].kind = "const"
        left == Clear(pending, {d, d + 1})
        read == ReadSrc(regs, pending, IF asImm THEN {d} ELSE {d, d + 1})
        file == DestFile(read, left, dest)
        rhs  == IF asImm THEN pending[d + 1].imm ELSE file[b]
    IN  /\ AtOperator /\ height > 1
        /\ regs' = [file EXCEPT ![DestReg(d, dest)] = Binary[<<file[a], rhs>>]]
        /\ pending' = DestPending(left, d, dest)
        /\ looked' = ~DestAbsorbs(dest)
        /\ Push(d, Binary[<<stack[d], stack[d + 1]>>], dest)
        /\ UNCHANGED <<ram, memory>> /\ Straight

\* a load from the address on the stack
Load(dest) ==
    LET d    == height - 1
        a    == SrcReg(pending, d)
        left == Clear(pending, {d})
        file == DestFile(ReadSrc(regs, pending, {d}), left, dest)
    IN  /\ AtOperator /\ height > 0
        /\ regs' = [file EXCEPT ![DestReg(d, dest)] = ram[file[a]]]
        /\ pending' = DestPending(left, d, dest)
        /\ looked' = ~DestAbsorbs(dest)
        /\ Push(d, memory[stack[d]], dest)
        /\ UNCHANGED <<ram, memory>> /\ Straight

\* a load from the fixed address g of a global
GlobalGet(g, dest) ==
    LET d    == height
        file == DestFile(regs, pending, dest)
    IN  /\ AtOperator /\ height < MaxHeight
        /\ regs' = [file EXCEPT ![DestReg(d, dest)] = ram[g]]
        /\ pending' = DestPending(pending, d, dest)
        /\ looked' = ~DestAbsorbs(dest)
        /\ Push(d, memory[g], dest)
        /\ UNCHANGED <<ram, memory>> /\ Straight

Select ==
    LET d    == height - 3
        ops  == {d, d + 1, d + 2}
        read == ReadSrc(regs, pending, ops)
        rd   == StackSlot(d)
        first == [read EXCEPT ![rd] = read[SrcReg(pending, d)]]
        cond == first[SrcReg(pending, d + 2)]
    IN  /\ AtOperator /\ height > 2
        /\ regs' = IF cond # Zero THEN first
                   ELSE [first EXCEPT ![rd] = first[SrcReg(pending, d + 1)]]
        /\ pending' = Clear(pending, ops)
        /\ looked' = FALSE
        /\ Push(d, IF stack[d + 2] # Zero THEN stack[d] ELSE stack[d + 1], InSlot)
        /\ UNCHANGED <<ram, memory>> /\ Straight

-----------------------------------------------------------------------------
(* Operators without a result *)

GlobalSet(g) ==
    LET d == height - 1
    IN  /\ AtOperator /\ height > 0
        /\ regs' = ReadSrc(regs, pending, {d})
        /\ ram' = [ram EXCEPT ![g] = regs'[SrcReg(pending, d)]]
        /\ pending' = Clear(pending, {d})
        /\ looked' = FALSE
        /\ memory' = [memory EXCEPT ![g] = stack[d]]
        /\ Pop(1)
        /\ UNCHANGED locals /\ Straight

Store ==
    LET d == height - 2
    IN  /\ AtOperator /\ height > 1
        /\ regs' = ReadSrc(regs, pending, {d, d + 1})
        /\ ram' = [ram EXCEPT ![regs'[SrcReg(pending, d)]] =
                                 regs'[SrcReg(pending, d + 1)]]
        /\ pending' = Clear(pending, {d, d + 1})
        /\ looked' = FALSE
        /\ memory' = [memory EXCEPT ![stack[d]] = stack[d + 1]]
        /\ Pop(2)
        /\ UNCHANGED locals /\ Straight

-----------------------------------------------------------------------------
(* Blocks and branches: every pending slot is materialized first *)

MaterializeAll == Materialize(regs, pending, Depth)
MarksKept      == pending              \* slip: written, but still marked
NothingPending == [d \in Depth |-> NotPending]

\* block and loop
Enter(kind, sig) ==
    /\ AtOperator /\ Len(labels) < MaxLabels
    /\ height >= sig.params
    /\ regs' = MaterializeAll
    /\ pending' = NothingPending
    /\ looked' = FALSE
    /\ labels' = Append(labels, [kind |-> kind, base |-> height - sig.params,
                                 params |-> sig.params, results |-> sig.results,
                                 hasElse |-> FALSE])
    /\ UNCHANGED <<locals, stack, height, memory, ram, moving, agree>>

\* if: on zero, jump to the else arm, or past the end when there is none
If(sig, hasElse) ==
    LET d    == height - 1
        file == Materialize(ReadSrc(regs, pending, {d}), Clear(pending, {d}), Depth)
        zero == file[SrcReg(pending, d)] = Zero
        label == [kind |-> IF zero THEN "else" ELSE "if",
                  base |-> height - 1 - sig.params,
                  params |-> sig.params, results |-> sig.results,
                  hasElse |-> hasElse]
    IN  /\ AtOperator /\ Len(labels) < MaxLabels
        /\ height >= 1 + sig.params
        /\ hasElse \/ sig.params = sig.results
        /\ regs' = file
        /\ pending' = NothingPending
        /\ looked' = FALSE
        /\ labels' = IF zero /\ ~hasElse THEN labels ELSE Append(labels, label)
        /\ agree' = (agree /\ (zero <=> stack[d] = Zero))
        /\ Pop(1)
        /\ UNCHANGED <<locals, memory, ram, moving>>

\* The innermost block is complete: its results are the values above its base.
BlockDone ==
    /\ AtOperator /\ labels # <<>>
    /\ height = LabelAt(0).base + LabelAt(0).results

Leave ==
    /\ regs' = MaterializeAll
    /\ pending' = NothingPending
    /\ looked' = FALSE
    /\ labels' = SubSeq(labels, 1, Len(labels) - 1)
    /\ UNCHANGED <<locals, stack, height, memory, ram, moving, agree>>

\* else reached from the first arm: jump to the end
Else == BlockDone /\ LabelAt(0).kind = "if" /\ LabelAt(0).hasElse /\ Leave

End == BlockDone /\ ~(LabelAt(0).kind = "if" /\ LabelAt(0).hasElse) /\ Leave

\* The rows of `branch` from stack height h, values in registers: copies when
\* the label's values are not where it expects them, then the jump.
StartBranch(d, h) ==
    LET n == Arity(LabelAt(d))
    IN  moving' = [on |-> TRUE, depth |-> d, base |-> LabelAt(d).base, n |-> n,
                   k |-> IF h - n = LabelAt(d).base THEN n ELSE 0]

Br(d) ==
    /\ AtOperator /\ BranchOk(d, height)
    /\ regs' = MaterializeAll
    /\ pending' = NothingPending
    /\ looked' = FALSE
    /\ StartBranch(d, height)
    /\ UNCHANGED <<frame, ram, agree>>

BrIf(d) ==
    LET c    == height - 1
        file == Materialize(ReadSrc(regs, pending, {c}), Clear(pending, {c}), Depth)
        taken == file[SrcReg(pending, c)] # Zero
    IN  /\ AtOperator /\ height > 0 /\ BranchOk(d, height - 1)
        /\ regs' = file
        /\ pending' = NothingPending
        /\ looked' = FALSE
        /\ agree' = (agree /\ (taken <=> stack[c] # Zero))
        /\ Pop(1)
        /\ IF taken THEN StartBranch(d, height - 1) ELSE UNCHANGED moving
        /\ UNCHANGED <<locals, memory, labels, ram>>

\* br_table: `table` is the label depth each index value selects
BrTable(table) ==
    LET c    == height - 1
        file == Materialize(ReadSrc(regs, pending, {c}), Clear(pending, {c}), Depth)
        d    == table[file[SrcReg(pending, c)]]
    IN  /\ AtOperator /\ height > 0
        /\ \A v \in Value : BranchOk(table[v], height - 1)
        /\ regs' = file
        /\ pending' = NothingPending
        /\ looked' = FALSE
        /\ agree' = (agree /\ d = table[stack[c]])
        /\ Pop(1)
        /\ StartBranch(d, height - 1)
        /\ UNCHANGED <<locals, memory, labels, ram>>

MoveRowDescending ==                   \* slip: the last value is copied first
    LET from == height - 1 - moving.k
        to   == moving.base + moving.n - 1 - moving.k
    IN  /\ moving.on /\ moving.k < moving.n
        /\ regs' = [regs EXCEPT ![StackSlot(to)] = regs[StackSlot(from)]]
        /\ moving' = [moving EXCEPT !.k = @ + 1]
        /\ UNCHANGED <<frame, ram, pending, looked, agree>>

\* One copy row of move_down: the k-th of the top n values.
MoveRow ==
    LET from == height - moving.n + moving.k
        to   == moving.base + moving.k
    IN  /\ moving.on /\ moving.k < moving.n
        /\ regs' = [regs EXCEPT ![StackSlot(to)] = regs[StackSlot(from)]]
        /\ moving' = [moving EXCEPT !.k = @ + 1]
        /\ UNCHANGED <<frame, ram, pending, looked, agree>>

\* The jump: to the loop's entry, or past the block's end.
Jump ==
    LET l    == LabelAt(moving.depth)
        n    == moving.n
        base == moving.base
        kept == Len(labels) - moving.depth
    IN  /\ moving.on /\ moving.k = moving.n
        /\ labels' = SubSeq(labels, 1, IF l.kind = "loop" THEN kept ELSE kept - 1)
        /\ height' = base + n
        /\ stack' = [e \in 0 .. base + n - 1 |->
                        IF e < base THEN stack[e] ELSE stack[height - n + e - base]]
        /\ moving' = NoMove
        /\ UNCHANGED <<locals, memory, regs, ram, pending, looked, agree>>

-----------------------------------------------------------------------------
LabelDepth == 0 .. MaxLabels - 1

Next ==
    \/ \E v \in Value : Const(v)
    \/ \E i \in Local : LocalGet(i)
    \/ Drop
    \/ \E dest \in Dests : LocalWrite(dest)
    \/ \E dest \in Dests : UnaryOp(dest)
    \/ \E immediate \in BOOLEAN, dest \in Dests : BinaryOp(immediate, dest)
    \/ \E dest \in Dests : Load(dest)
    \/ \E g \in Value, dest \in Dests : GlobalGet(g, dest)
    \/ Select
    \/ \E g \in Value : GlobalSet(g)
    \/ Store
    \/ \E kind \in {"block", "loop"}, sig \in Sigs : Enter(kind, sig)
    \/ \E sig \in Sigs, hasElse \in BOOLEAN : If(sig, hasElse)
    \/ Else
    \/ End
    \/ \E d \in LabelDepth : Br(d)
    \/ \E d \in LabelDepth : BrIf(d)
    \/ \E table \in [Value -> LabelDepth] : BrTable(table)
    \/ MoveRow
    \/ Jump

Spec == Init /\ [][Next]_vars

-----------------------------------------------------------------------------
(* Every variable has its type. *)
TypeOK ==
    /\ locals \in [Local -> Value]
    /\ height \in 0 .. MaxHeight
    /\ stack \in [0 .. height - 1 -> Value]
    /\ memory \in [Value -> Value]
    /\ labels \in Seq(Label)
    /\ regs \in [Slot -> Value]
    /\ ram \in [Value -> Value]
    /\ pending \in [Depth -> Pending]
    /\ looked \in BOOLEAN
    /\ moving \in {NoMove} \cup Moves
    /\ agree \in BOOLEAN

\* Depth whose value the registers hold while move_down is at row k: below
\* the target base, the values not moved yet, and (elsewhere) those moved.
Unmoved == {d \in 0 .. height - 1 :
               ~moving.on \/ d < moving.base \/ d >= height - moving.n + moving.k}

(* Whatever is forwarded, absorbed, saved or moved, the rows hold the wasm *)
(* frame: each local in its register, each operand where its pending mark  *)
(* says, moved values at their new depth, memory alike, and every branch   *)
(* row taken as its operator takes it.                                     *)
Simulation ==
    /\ agree
    /\ ram = memory
    /\ \A i \in Local : regs[i] = locals[i]
    /\ \A d \in Unmoved : Denote(regs, pending, d) = stack[d]
    /\ moving.on => \A j \in 0 .. moving.k - 1 :
           regs[StackSlot(moving.base + j)] = stack[height - moving.n + j]

(* No mark outlives its value: a slot above the stack is never pending, so *)
(* an operator that fills it later is not read through an old mark.        *)
NoStaleMark == \A d \in Depth : d >= height => pending[d] = NotPending

(* Where a label is entered or left every value is in its register: the    *)
(* marks of one path never reach another.                                  *)
JoinsClean ==
    [][labels' # labels => \A d \in Depth : pending'[d] = NotPending]_vars
=============================================================================
