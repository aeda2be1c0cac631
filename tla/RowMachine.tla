------------------------------ MODULE RowMachine ------------------------------
(***************************************************************************)
(* Execution of the proof rows one wasm operator is lowered to             *)
(* (jolt-wasm-backend, machine.rs: Machine::step): one action per kind of  *)
(* row, on named registers.  Rows are those of ir.rs with the operands of  *)
(* row_spec (jolt-wasm-ir, row.rs); code is a sequence of them and pc an   *)
(* index into it.  A Rejoin row stands for the next operator's rows, where *)
(* this module's execution ends.  Loads and stores are module LinearMemory.*)
(***************************************************************************)
EXTENDS Integers, Sequences, FiniteSets, FiniteSetsExt

(* The lookup tables of the rows (jolt-wasm-ir, ir.rs): AluOp and             *)
(* AluOp::evaluate.  A register is 2 * H bits wide (64 in the code), an i32   *)
(* H bits (32), a byte H \div 4; "64" and "32" in a name keep the code's     *)
(* words for the two.                                                         *)

CONSTANT H      \* bits of an i32

\* A power of two, for a mask to take a shift count modulo it.
ASSUME WidthAssumption == H \in Nat /\ \E k \in 2 .. H : H = 2^k

Bits == 2 * H
M    == 2^Bits
HalfM == 2^H
ByteBits == H \div 4
Word == 0 .. M - 1

Bool(p) == IF p THEN 1 ELSE 0

\* Two's complement of n bits.
Signed(n, x)   == IF x < 2^(n - 1) THEN x ELSE x - 2^n
Unsigned(n, v) == v % 2^n

\* x * y modulo M, in two halves so that no product exceeds 3H bits.
MulWrap(x, y) ==
    (x * (y % HalfM) + ((x * (y \div HalfM)) % HalfM) * HalfM) % M

\* Bitwise: the places where both have a one, either, or one of them only.
Bit(x, i) == (x \div 2^i) % 2
x & y  == MapThenSumSet(LAMBDA i : 2^i * Bit(x, i) * Bit(y, i), 0 .. Bits - 1)
x | y  == x + y - (x & y)
x ^^ y == x + y - 2 * (x & y)

LeadingZeros(n, x)  == Cardinality({k \in 0 .. n - 1 : x < 2^k})
TrailingZeros(n, x) == Cardinality({k \in 1 .. n : x % 2^k = 0})
Popcount(n, x)      == Cardinality({k \in 0 .. n - 1 : Bit(x, k) = 1})

\* shift_right_bitmask: the ones a right shift by s keeps.
ShiftMask(s) == (2^(Bits - s) - 1) * 2^s

RotateRightWide(x, k) == x \div 2^k + x * 2^(Bits - k)   \* slip: the low bits only
RotateRight(x, k) == x \div 2^k + (x % 2^k) * 2^(Bits - k)

AluOps == {"Add64", "Add32", "Sub64", "Sub32", "Mul64", "Mul32", "And", "Andn",
           "Or", "Xor", "Eq", "Ne", "LtU", "LtS", "GeU", "GeS", "LeU", "Srl",
           "Sra", "Rotr", "NegateIf", "MulUNoOverflow", "Pow2",
           "ShiftRightBitmask", "SignExtendWord", "LowerHalfWord", "Clz", "Ctz",
           "Popcnt"}

Booleans == {"Eq", "Ne", "LtU", "LtS", "GeU", "GeS", "LeU", "MulUNoOverflow"}

\* AluOp::evaluate.
Evaluate(op, x, y) ==
    LET raw == (x + y) % M
        tz  == TrailingZeros(Bits, y)
    IN CASE op = "Add64" -> raw
         [] op \in {"Add32", "LowerHalfWord"} -> raw % HalfM
         [] op = "Sub64" -> (x - y) % M
         [] op = "Sub32" -> (x - y) % HalfM
         [] op = "Mul64" -> MulWrap(x, y)
         [] op = "Mul32" -> MulWrap(x, y) % HalfM
         [] op = "And"   -> x & y
         [] op = "Andn"  -> x & (M - 1 - y)
         [] op = "Or"    -> x | y
         [] op = "Xor"   -> x ^^ y
         [] op = "Eq"    -> Bool(x = y)
         [] op = "Ne"    -> Bool(x # y)
         [] op = "LtU"   -> Bool(x < y)
         [] op = "GeU"   -> Bool(x >= y)
         [] op = "LeU"   -> Bool(x <= y)
         [] op = "LtS"   -> Bool(Signed(Bits, x) < Signed(Bits, y))
         [] op = "GeS"   -> Bool(Signed(Bits, x) >= Signed(Bits, y))
         [] op = "Srl"   -> x \div 2^tz
         [] op = "Sra"   -> Unsigned(Bits, Signed(Bits, x) \div 2^tz)
         [] op = "Rotr"  -> RotateRight(x, tz % Bits)
         [] op = "NegateIf" -> IF Signed(Bits, x) < 0 THEN (-y) % M ELSE y
         [] op = "MulUNoOverflow" -> Bool(y = 0 \/ x <= (M - 1) \div y)
         [] op = "Pow2"  -> 2^(raw % Bits)
         [] op = "ShiftRightBitmask" -> ShiftMask(raw % Bits)
         [] op = "SignExtendWord" -> Unsigned(Bits, Signed(H, raw % HalfM))
         [] op = "Clz"   -> LeadingZeros(Bits, x)
         [] op = "Ctz"   -> TrailingZeros(Bits, x)
         [] op = "Popcnt" -> Popcount(Bits, x)

-----------------------------------------------------------------------------
CONSTANT Reg        \* the registers the rows name, "ZERO" among them

VARIABLES
    code,           \* the rows, fixed for a behaviour
    pc,             \* index of the next row
    regs,           \* [Reg -> Word]
    trap            \* the failure that stopped execution, or "none"

machine == <<code, pc, regs, trap>>

-----------------------------------------------------------------------------
(* Operands and rows *)

R(r) == [kind |-> "reg", reg |-> r]
I(v) == [kind |-> "imm", imm |-> v]

Alu(op, rd, rs1, rs2) ==
    [row |-> "alu", op |-> op, rd |-> rd, rs1 |-> rs1, rs2 |-> rs2]
AluImm(op, rd, rs1, v) == Alu(op, rd, rs1, I(v))
Const(rd, v)           == AluImm("Add64", rd, "ZERO", v)
Mov(rd, rs)            == AluImm("Add64", rd, rs, 0)
Advice(rd, rs1, rs2)   == [row |-> "advice", rd |-> rd, rs1 |-> rs1, rs2 |-> R(rs2)]
Assert(op, failure, rs1, rs2) ==
    [row |-> "assert", op |-> op, failure |-> failure, rs1 |-> rs1, rs2 |-> rs2]
Load(rd, base, offset)     == [row |-> "load", rd |-> rd, rs1 |-> base, imm |-> offset]
Store(base, value, offset) ==
    [row |-> "store", rs1 |-> base, rs2 |-> R(value), imm |-> offset]
Jump(target)               == [row |-> "jump", target |-> target]
Branch(op, rs1, rs2, target) ==
    [row |-> "branch", op |-> op, rs1 |-> rs1, rs2 |-> R(rs2), target |-> target]
Rejoin                      == [row |-> "rejoin"]
BranchIfZero(rs, target)    == Branch("Eq", rs, "ZERO", target)
BranchIfNonzero(rs, target) == Branch("Ne", rs, "ZERO", target)

\* sign_extend_rows: the low bits of rs, extended to width w.
SignExtend(w, rd, rs, bits) ==
    LET up     == Bits - bits
        target == IF w = 64 THEN rd ELSE "T0"
    IN <<AluImm("Mul64", target, rs, 2^up), AluImm("Sra", target, target, ShiftMask(up))>>
       \o IF w = 64 THEN <<>> ELSE <<AluImm("LowerHalfWord", rd, "T0", 0)>>

-----------------------------------------------------------------------------
(* Machine::step *)

Row      == code[pc]
Running  == trap = "none" /\ Row.row # "rejoin"
Finished == trap = "none" /\ Row.row = "rejoin"

Read(operand) == IF operand.kind = "reg" THEN regs[operand.reg] ELSE operand.imm

\* Machine::write keeps ZERO hardwired.
Written(rd, v) == IF rd = "ZERO" THEN regs ELSE [regs EXCEPT ![rd] = v]

Output == Evaluate(Row.op, regs[Row.rs1], Read(Row.rs2))

Fall == pc' = pc + 1

AluStep ==
    /\ Running /\ Row.row = "alu"
    /\ regs' = Written(Row.rd, Output)
    /\ Fall
    /\ UNCHANGED <<code, trap>>

\* The prover supplies the quotient: AdviceHint::compute gives the honest one,
\* the rows around it are what a verifier relies on.
HonestQuotient(x, y) == IF y = 0 THEN 0 ELSE x \div y

Quotients(anyAdvice) ==
    IF anyAdvice THEN Word ELSE {HonestQuotient(regs[Row.rs1], Read(Row.rs2))}

AdviceStep(anyAdvice) ==
    /\ Running /\ Row.row = "advice"
    /\ \E q \in Quotients(anyAdvice) : regs' = Written(Row.rd, q)
    /\ Fall
    /\ UNCHANGED <<code, trap>>

AssertStep ==
    /\ Running /\ Row.row = "assert"
    /\ IF Output = 1 THEN Fall /\ UNCHANGED trap
                     ELSE trap' = Row.failure /\ UNCHANGED pc
    /\ UNCHANGED <<code, regs>>

JumpStep ==
    /\ Running /\ Row.row = "jump"
    /\ pc' = Row.target
    /\ UNCHANGED <<code, regs, trap>>

BranchStep ==
    /\ Running /\ Row.row = "branch"
    /\ pc' = IF Output = 1 THEN Row.target ELSE pc + 1
    /\ UNCHANGED <<code, regs, trap>>
=============================================================================
