-------------------------------- MODULE Arith --------------------------------
(***************************************************************************)
(* The numeric operators of wasm as the rows they are lowered to           *)
(* (jolt-wasm-frontend, lower.rs: emit_binary, emit_unary, Convert and the *)
(* helpers they call), run one row at a time on operands that may share a  *)
(* register with the destination, against the results and traps the wasm   *)
(* specification gives.                                                    *)
(*                                                                         *)
(* A value of width n is a canonical word: an i32 is zero-extended.        *)
(***************************************************************************)
EXTENDS RowMachine

CONSTANTS
    Samples32, Samples64,   \* operands of each width
    Operators,              \* names of the operators under test
    AnyAdvice,              \* the provers: TRUE one that supplies any word as advice
    Few                     \* the operands such a prover divides

ASSUME OperandAssumption ==
    /\ Samples32 \subseteq 0 .. HalfM - 1
    /\ Samples64 \subseteq Word
    /\ AnyAdvice \subseteq BOOLEAN

Temps == {"T0", "T1", "T2", "T3", "T4"}
Width == {32, 64}

ASSUME RegAssumption == {"ZERO", "A", "B", "D"} \cup Temps \subseteq Reg

Narrow == [Add |-> "Add32", Sub |-> "Sub32", Mul |-> "Mul32"]
Wide   == [Add |-> "Add64", Sub |-> "Sub64", Mul |-> "Mul64"]

\* The code's constants at a width.
NBits(w)     == IF w = 32 THEN H ELSE Bits
Samples(w)   == IF w = 32 THEN Samples32 ELSE Samples64
At(w, o)     == IF w = 32 THEN Narrow[o] ELSE Wide[o]

-----------------------------------------------------------------------------
(* The lowering: rows with destination rd and operand registers a, b *)

WideSigned(a, b) ==
    <<AluImm("SignExtendWord", "T0", a, 0), AluImm("SignExtendWord", "T1", b, 0)>>

\* LtS, GtS, LeS and GeS: one table, its operands swapped or not.
Compare(w, table, swap, rd, a, b) ==
    LET x == IF w = 32 THEN "T0" ELSE a
        y == IF w = 32 THEN "T1" ELSE b
    IN (IF w = 32 THEN WideSigned(a, b) ELSE <<>>)
         \o <<IF swap THEN Alu(table, rd, y, R(x)) ELSE Alu(table, rd, x, R(y))>>

Masked(w, b) == IF w = 32 THEN <<AluImm("And", "T0", b, H - 1)>> ELSE <<>>
Count(w, b)  == IF w = 32 THEN "T0" ELSE b

ShiftBitmaskUnmasked(w, b) == <<AluImm("ShiftRightBitmask", "T0", b, 0)>>  \* slip
ShiftBitmask(w, b) ==
    Masked(w, b) \o <<AluImm("ShiftRightBitmask", "T0", Count(w, b), 0)>>

Shl(w, rd, a, b) ==
    Masked(w, b) \o <<AluImm("Pow2", "T0", Count(w, b), 0),
                      Alu(At(w, "Mul"), rd, a, R("T0"))>>

ShrU(w, rd, a, b) == ShiftBitmask(w, b) \o <<Alu("Srl", rd, a, R("T0"))>>

ShrS(w, rd, a, b) ==
    ShiftBitmask(w, b) \o
    IF w = 64 THEN <<Alu("Sra", rd, a, R("T0"))>>
    ELSE <<AluImm("SignExtendWord", "T1", a, 0),
           Alu("Sra", "T1", "T1", R("T0")),
           AluImm("LowerHalfWord", rd, "T1", 0)>>

Rotr(w, rd, a, b) ==
    IF w = 64 THEN ShiftBitmask(w, b) \o <<Alu("Rotr", rd, a, R("T0"))>>
    ELSE <<AluImm("Mul64", "T2", a, HalfM), Alu("Or", "T2", "T2", R(a))>>
           \o ShiftBitmask(w, b)
           \o <<Alu("Srl", "T2", "T2", R("T0")), AluImm("LowerHalfWord", rd, "T2", 0)>>

Rotl(w, rd, a, b) == <<Alu("Sub64", "T1", "ZERO", R(b))>> \o Rotr(w, rd, a, "T1")

AssertNonzero(b) == <<Assert("Ne", "DivideByZero", b, I(0))>>

\* emit_unsigned_divmod: the quotient is advice, asserts pin it.
Pinned(w, a, b, product, bound) ==
    <<Advice("T3", a, b)>>
    \o (IF w = 64 THEN <<Assert("MulUNoOverflow", "IntegerOverflow", "T3", R(b))>> ELSE <<>>)
    \o <<Alu("Mul64", "T2", "T3", R(b)), product>> \o <<Alu("Sub64", "T4", a, R("T2")), bound>>
UnsignedDivmodUnbounded(w, a, b) ==          \* slip: the remainder is unbounded
    Pinned(w, a, b, Assert("LeU", "IntegerOverflow", "T2", R(a)), Mov("T4", "T4"))
UnsignedDivmodStrict(w, a, b) ==             \* slip: q * b < a
    Pinned(w, a, b, Assert("LtU", "IntegerOverflow", "T2", R(a)),
           Assert("LtU", "IntegerOverflow", "T4", R(b)))
UnsignedDivmod(w, a, b) ==
    Pinned(w, a, b, Assert("LeU", "IntegerOverflow", "T2", R(a)),
           Assert("LtU", "IntegerOverflow", "T4", R(b)))

Unsigned_(w, rd, rs, a, b) ==
    AssertNonzero(b) \o UnsignedDivmod(w, a, b) \o <<Mov(rd, rs)>>

Widen(w, rd, rs) == IF w = 64 THEN Mov(rd, rs) ELSE AluImm("SignExtendWord", rd, rs, 0)

\* The quotient of the least value by -1 does not fit.
Overflow(w, a, b) ==
    <<AluImm("Eq", "T2", a, 2^(NBits(w) - 1)),
      AluImm("Eq", "T4", b, 2^NBits(w) - 1),
      Alu("And", "T2", "T2", R("T4"))>>
    \o <<Assert("Eq", "IntegerOverflow", "T2", I(0))>>

Magnitude(w, t, rs) == <<Widen(w, t, rs), Alu("NegateIf", t, t, R(t))>>

\* emit_signed_divmod: divide the magnitudes, then give the result its sign.
SignedDivmod(w, op, rd, a, b) ==
    LET div == op = "DivS"
    IN AssertNonzero(b)
       \o (IF div THEN Overflow(w, a, b) ELSE <<>>)
       \o Magnitude(w, "T0", a) \o Magnitude(w, "T1", b)
       \o UnsignedDivmod(64, "T0", "T1")
       \o (IF div THEN <<Alu("Xor", "T2", a, R(b)), Widen(w, "T2", "T2")>>
                  ELSE <<Widen(w, "T2", a)>>)
       \o LET magnitude == R(IF div THEN "T3" ELSE "T4")
          IN IF w = 64 THEN <<Alu("NegateIf", rd, "T2", magnitude)>>
             ELSE <<Alu("NegateIf", "T2", "T2", magnitude),
                    AluImm("LowerHalfWord", rd, "T2", 0)>>

-----------------------------------------------------------------------------
(* emit_binary, emit_unary and Convert *)

Direct == {"Add", "Sub", "Mul"}                  \* a table for each width
Plain  == {"And", "Or", "Xor", "Eq", "Ne", "LtU", "LeU", "GeU"}

Binary == Direct \cup Plain \cup
    {"GtU", "LtS", "GtS", "LeS", "GeS", "Shl", "ShrU", "ShrS", "Rotl", "Rotr",
     "DivU", "RemU", "DivS", "RemS"}
Unary   == {"Eqz", "Clz", "Ctz", "Popcnt", "Extend8S", "Extend16S", "Extend32S"}
Convert == {"WrapI64", "ExtendI32S", "ExtendI32U"}
Division == {"DivU", "RemU", "DivS", "RemS"}

ASSUME OperatorAssumption == Operators \subseteq Binary \cup Unary \cup Convert

\* binary_takes_immediate: b is an operand of these, a register of the others.
TakesImmediate(op) == op \in Direct \cup Plain

EmitBinary(w, op, rd, a, b) ==
    CASE op \in Direct -> <<Alu(At(w, op), rd, a, b)>>
      [] op \in Plain  -> <<Alu(op, rd, a, b)>>
      [] op = "GtU" -> <<Alu("LtU", rd, b.reg, R(a))>>
      [] op = "LtS" -> Compare(w, "LtS", FALSE, rd, a, b.reg)
      [] op = "GtS" -> Compare(w, "LtS", TRUE, rd, a, b.reg)
      [] op = "LeS" -> Compare(w, "GeS", TRUE, rd, a, b.reg)
      [] op = "GeS" -> Compare(w, "GeS", FALSE, rd, a, b.reg)
      [] op = "Shl"  -> Shl(w, rd, a, b.reg)
      [] op = "ShrU" -> ShrU(w, rd, a, b.reg)
      [] op = "ShrS" -> ShrS(w, rd, a, b.reg)
      [] op = "Rotl" -> Rotl(w, rd, a, b.reg)
      [] op = "Rotr" -> Rotr(w, rd, a, b.reg)
      [] op = "DivU" -> Unsigned_(w, rd, "T3", a, b.reg)
      [] op = "RemU" -> Unsigned_(w, rd, "T4", a, b.reg)
      [] op \in {"DivS", "RemS"} -> SignedDivmod(w, op, rd, a, b.reg)

EmitUnary(w, op, rd, a) ==
    CASE op = "Eqz"    -> <<AluImm("Eq", rd, a, 0)>>
      [] op = "Popcnt" -> <<AluImm("Popcnt", rd, a, 0)>>
      [] op = "Clz" -> IF w = 64 THEN <<AluImm("Clz", rd, a, 0)>>
                       ELSE <<AluImm("Clz", "T0", a, 0), AluImm("Sub64", rd, "T0", H)>>
      [] op = "Ctz" -> IF w = 64 THEN <<AluImm("Ctz", rd, a, 0)>>
                       ELSE <<AluImm("Or", "T0", a, HalfM), AluImm("Ctz", rd, "T0", 0)>>
      [] op = "Extend8S"  -> SignExtend(w, rd, a, ByteBits)
      [] op = "Extend16S" -> SignExtend(w, rd, a, 2 * ByteBits)
      [] op = "Extend32S" -> <<AluImm("SignExtendWord", rd, a, 0)>>

EmitConvert(op, rd, a) ==
    CASE op = "WrapI64"    -> <<AluImm("And", rd, a, HalfM - 1)>>
      [] op = "ExtendI32S" -> <<AluImm("SignExtendWord", rd, a, 0)>>
      [] op = "ExtendI32U" -> <<Mov(rd, a)>>

-----------------------------------------------------------------------------
(* The wasm specification *)

\* Quotient truncated towards zero.
Truncated(x, y) ==
    LET q == (IF x < 0 THEN -x ELSE x) \div (IF y < 0 THEN -y ELSE y)
    IN IF (x < 0) = (y < 0) THEN q ELSE -q

WasmTrap(w, op, x, y) ==
    LET n == NBits(w)
    IN IF op \in Division /\ y = 0 THEN "DivideByZero"
       ELSE IF op = "DivS" /\ Signed(n, x) = -(2^(n - 1)) /\ Signed(n, y) = -1
            THEN "IntegerOverflow"
       ELSE "none"

\* The result of a binary operator that does not trap.
WasmBinary(w, op, x, y) ==
    LET n  == NBits(w)
        k  == y % n
        sx == Signed(n, x)
        sy == Signed(n, y)
    IN CASE op = "Add" -> (x + y) % 2^n
         [] op = "Sub" -> (x - y) % 2^n
         [] op = "Mul" -> (x * y) % 2^n
         [] op = "And" -> x & y
         [] op = "Or"  -> x | y
         [] op = "Xor" -> x ^^ y
         [] op = "Eq"  -> Bool(x = y)
         [] op = "Ne"  -> Bool(x # y)
         [] op = "LtU" -> Bool(x < y)
         [] op = "LeU" -> Bool(x <= y)
         [] op = "GtU" -> Bool(x > y)
         [] op = "GeU" -> Bool(x >= y)
         [] op = "LtS" -> Bool(sx < sy)
         [] op = "LeS" -> Bool(sx <= sy)
         [] op = "GtS" -> Bool(sx > sy)
         [] op = "GeS" -> Bool(sx >= sy)
         [] op = "Shl"  -> (x * 2^k) % 2^n
         [] op = "ShrU" -> x \div 2^k
         [] op = "ShrS" -> Unsigned(n, sx \div 2^k)
         [] op = "Rotl" -> ((x * 2^k) % 2^n) + x \div 2^(n - k)
         [] op = "Rotr" -> x \div 2^k + ((x * 2^(n - k)) % 2^n)
         [] op = "DivU" -> x \div y
         [] op = "RemU" -> x % y
         [] op = "DivS" -> Unsigned(n, Truncated(sx, sy))
         [] op = "RemS" -> Unsigned(n, sx - sy * Truncated(sx, sy))

WasmUnary(w, op, x) ==
    LET n == NBits(w)
        Extend(bits) == Unsigned(n, Signed(bits, x % 2^bits))
    IN CASE op = "Eqz"    -> Bool(x = 0)
         [] op = "Clz"    -> LeadingZeros(n, x)
         [] op = "Ctz"    -> TrailingZeros(n, x)
         [] op = "Popcnt" -> Popcount(n, x)
         [] op = "Extend8S"  -> Extend(ByteBits)
         [] op = "Extend16S" -> Extend(2 * ByteBits)
         [] op = "Extend32S" -> Extend(H)
         [] op = "WrapI64"    -> x % HalfM
         [] op = "ExtendI32S" -> Unsigned(Bits, Signed(H, x))
         [] op = "ExtendI32U" -> x

-----------------------------------------------------------------------------
(* One operator per behaviour *)

VARIABLE job    \* what was lowered: [op, width, rd, a, b, x, y]

vars == <<machine, job>>

\* Operand registers: a and b may be one register (a local read twice), and
\* the destination may be either (a stack slot reused, or a local.set
\* absorbed) or neither.
Operand(v, reg) == {R(reg)} \cup {I(v)}

Start(op, w, rd, a, b, x, y, rows, free) ==
    /\ code = rows \o <<Rejoin>>
    /\ job = [op |-> op, width |-> w, rd |-> rd, x |-> x, y |-> y, free |-> free]
    /\ regs = [r \in Reg |-> IF r = a THEN x ELSE IF R(r) = b THEN y ELSE 0]
    /\ pc = 1
    /\ trap = "none"

StartBinary ==
    \E op \in Operators \cap Binary, w \in Width, rd \in {"A", "B", "D"}, l \in {"A", "B"} :
        \E x \in Samples(w), y \in Samples(w) :
            \E b \in Operand(y, l) :
                /\ b.kind = "imm" => TakesImmediate(op)
                /\ b = R("A") => x = y
                /\ \E free \in AnyAdvice :
                    /\ free => op \in Division /\ {x, y} \subseteq Few
                    /\ Start(op, w, rd, "A", b, x, y, EmitBinary(w, op, rd, "A", b), free)

StartUnary ==
    \E op \in Operators \cap Unary, w \in Width, rd \in {"A", "D"} :
        \E x \in Samples(w) :
            /\ op = "Extend32S" => w = 64
            /\ Start(op, w, rd, "A", R("A"), x, x, EmitUnary(w, op, rd, "A"), FALSE)

StartConvert ==
    \E op \in Operators \cap Convert, rd \in {"A", "D"} :
        \E x \in Samples(IF op = "WrapI64" THEN 64 ELSE 32) :
            Start(op, IF op = "WrapI64" THEN 64 ELSE 32, rd, "A", R("A"), x, x,
                  EmitConvert(op, rd, "A"), FALSE)

Init == StartBinary \/ StartUnary \/ StartConvert

Next == (AluStep \/ AdviceStep(job.free) \/ AssertStep) /\ UNCHANGED job

Spec == Init /\ [][Next]_vars

-----------------------------------------------------------------------------
(* Properties *)

Expected == IF job.op \in Binary THEN WasmBinary(job.width, job.op, job.x, job.y)
                                 ELSE WasmUnary(job.width, job.op, job.x)

\* The rows are well typed: pc stays in them, registers hold words, only a
\* boolean table is asserted.
TypeOK ==
    /\ pc \in 1 .. Len(code)
    /\ regs \in [Reg -> Word]
    /\ regs["ZERO"] = 0
    /\ trap \in {"none", "DivideByZero", "IntegerOverflow"}
    /\ \A i \in 1 .. Len(code) : code[i].row = "assert" => code[i].op \in Booleans

\* Once the rows of an operator have run, its destination holds the result
\* wasm gives, canonical, for operands that did not trap; no register but the
\* destination and the temporaries has changed.
ResultIsWasm ==
    Finished /\ ~job.free
             => /\ WasmTrap(job.width, job.op, job.x, job.y) = "none"
                /\ regs[job.rd] = Expected
                /\ job.rd # "A" => regs["A"] = job.x

\* The rows trap on the operands wasm traps on, for the same reason: an honest
\* prover's advice never fails an assert.
TrapIsWasm ==
    trap # "none" /\ ~job.free => trap = WasmTrap(job.width, job.op, job.x, job.y)

\* Whatever word the prover supplies as the quotient, the rows of a 64-bit or a
\* signed division end in the result wasm gives or not at all: the comment on
\* emit_unsigned_divmod, "pinned by q b not overflowing, q b <= a, and
\* a - q b < b".
WideAdvicePinned ==
    Finished /\ ~(job.width = 32 /\ job.op \in {"DivU", "RemU"})
        => regs[job.rd] = Expected

\* The same for every division: the doc of Ir::Advice, "the surrounding Assert
\* rows pin it".
AdvicePinned == Finished /\ job.op \in Division => regs[job.rd] = Expected
=============================================================================
