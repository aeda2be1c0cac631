------------------------------ MODULE RowConstraints ------------------------
(***************************************************************************)
(* A proof row four ways: what row_spec says of an instruction             *)
(* (jolt-wasm-ir, row.rs), the record Machine::step makes of it            *)
(* (jolt-wasm-backend, machine.rs), check_record, the row's contract       *)
(* (jolt-wasm-backend, row.rs), and the uniform constraints (jolt-r1cs,    *)
(* constraints/wasm.rs) with the witness the prover builds for them        *)
(* (jolt-wasm-program, trace_row.rs and r1cs.rs), over a prime field that  *)
(* holds every product of two words.                                       *)
(*                                                                         *)
(* A row is looked at alone: its two register reads are any words, and the *)
(* memory it may touch is a constant.  The catalog is represented by an    *)
(* operator of every operand mode, width and use.                          *)
(*                                                                         *)
(* A behaviour fills in a row's witness one column at a time with any      *)
(* value the constraints over the columns so far allow.  Outside this      *)
(* module's sources, and so given: the row's own columns come from the     *)
(* bytecode table, the register reads from register memory, the word read  *)
(* from RAM, the lookup output from the row's table, and the next pc is a  *)
(* pc of the bytecode.                                                     *)
(***************************************************************************)
EXTENDS Integers, Sequences, FiniteSets, FiniteSetsExt

CONSTANTS
    P,          \* the field's characteristic
    W,          \* bits of a register
    CodeLength, \* pcs of the program
    Mapped      \* the addresses memory maps

M == 2^W
Word == 0 .. M - 1
Memory == [address \in Mapped |-> (address + 1) % M]
Pc == 0 .. M - 2                \* u32, narrower than a register
Signed(x) == IF x < M \div 2 THEN x ELSE x - M
Bool(p) == IF p THEN 1 ELSE 0
Bit(x, i) == (x \div 2^i) % 2
BitwiseAnd(x, y) == MapThenSumSet(LAMBDA i : 2^i * Bit(x, i) * Bit(y, i), 0 .. W - 1)

AluOps == {"Add64", "Add32", "Sub64", "Mul64", "MulUNoOverflow", "And", "Eq", "LtU"}
Booleans == {"MulUNoOverflow", "Eq", "LtU"}

OperandMode(op) ==
    CASE op \in {"Add64", "Add32"}          -> "Add"
      [] op = "Sub64"                       -> "Sub"
      [] op \in {"Mul64", "MulUNoOverflow"} -> "Mul"
      [] op \in {"And", "Eq", "LtU"}        -> "Interleaved"

Evaluate(op, x, y) ==
    CASE op = "Add64"          -> (x + y) % M
      [] op = "Add32"          -> (x + y) % 2^(W \div 2)
      [] op = "Sub64"          -> (x - y) % M
      [] op = "Mul64"          -> (x * y) % M
      [] op = "MulUNoOverflow" -> Bool(x * y < M)
      [] op = "And"            -> BitwiseAnd(x, y)
      [] op = "Eq"             -> Bool(x = y)
      [] op = "LtU"            -> Bool(x < y)

QuotientU(x, y) == IF y = 0 THEN 0 ELSE x \div y

-----------------------------------------------------------------------------
(* Instructions and their rows *)

Reg == [operand |-> "reg", imm |-> 0]
Imm(v) == [operand |-> "imm", imm |-> v]

Instructions ==
    [ir : {"Nop", "Halt", "Trap", "Advice", "JumpReg"}]
    \cup [ir : {"Alu"}, op : AluOps, rs2 : {Reg} \cup {Imm(v) : v \in Word}]
    \cup [ir : {"Assert"}, op : Booleans, rs2 : {Reg} \cup {Imm(v) : v \in Word}]
    \cup [ir : {"Load", "Store"}, offset : -(M \div 2) .. M \div 2 - 1]
    \cup [ir : {"Jump"}, target : Pc]
    \cup [ir : {"Branch"}, op : Booleans, target : Pc]

OperandFlags(op) ==
    CASE OperandMode(op) = "Interleaved" -> {}
      [] OperandMode(op) = "Add"         -> {"AddOperands"}
      [] OperandMode(op) = "Sub"         -> {"SubOperands"}
      [] OperandMode(op) = "Mul"         -> {"MulOperands"}

RightFlag(operand) == IF operand.operand = "reg" THEN "RightIsRs2" ELSE "RightIsImm"

Row(flags, reads, rd, imm, lookup) ==
    [flags |-> flags, reads |-> reads, rd |-> rd, imm |-> imm, lookup |-> lookup]
OperandRow(i, flags, rd) ==
    Row({"LeftIsRs1", RightFlag(i.rs2)} \cup flags \cup OperandFlags(i.op),
        IF i.rs2.operand = "reg" THEN {"rs1", "rs2"} ELSE {"rs1"}, rd, i.rs2.imm, i.op)

\* reads: the operand registers; rd: whether the row writes a register.
RowSpec(i) ==
    CASE i.ir = "Nop"     -> Row({}, {}, FALSE, 0, "none")
      [] i.ir = "Halt"    -> Row({"Halt"}, {}, FALSE, 0, "none")
      [] i.ir = "Trap"    -> Row({"Trap"}, {}, FALSE, 0, "none")
      [] i.ir = "Alu"     -> OperandRow(i, {"WriteLookupToRd"}, TRUE)
      [] i.ir = "Assert"  -> OperandRow(i, {"Assert"}, FALSE)
      [] i.ir = "Advice"  -> Row({"Advice", "WriteLookupToRd"}, {"rs1", "rs2"}, TRUE, 0, "Advice")
      [] i.ir = "Load"    -> Row({"Load"}, {"rs1"}, TRUE, i.offset % M, "none")
      [] i.ir = "Store"   -> Row({"Store"}, {"rs1", "rs2"}, FALSE, i.offset % M, "none")
      [] i.ir = "Jump"    -> Row({"RightIsImm", "AddOperands", "Jump"}, {}, FALSE, i.target, "Add64")
      [] i.ir = "JumpReg" -> Row({"LeftIsRs1", "AddOperands", "Jump"}, {"rs1"}, FALSE, 0, "Add64")
      [] i.ir = "Branch"  -> Row({"LeftIsRs1", "RightIsRs2", "Branch"} \cup OperandFlags(i.op),
                                 {"rs1", "rs2"}, FALSE, i.target, i.op)

LeftInput(spec, a)  == IF "LeftIsRs1" \in spec.flags THEN a ELSE 0
RightInput(spec, b) ==
    IF "RightIsRs2" \in spec.flags THEN b
    ELSE IF "RightIsImm" \in spec.flags THEN spec.imm ELSE 0

\* The lookup output; an advice row's is the value supplied.
Output(spec, a, b, supplied) ==
    CASE spec.lookup = "none"   -> 0
      [] spec.lookup = "Advice" -> supplied
      [] spec.lookup \in AluOps -> Evaluate(spec.lookup, LeftInput(spec, a), RightInput(spec, b))

-----------------------------------------------------------------------------
(***************************************************************************)
(* Machine::step, from register values a and b (0 where not read).         *)
(***************************************************************************)
NoOp == [access |-> "NoOp", address |-> 0, value |-> 0, pre |-> 0]
\* An access records the word it finds.
Access(kind, address, value) ==
    [access |-> kind, address |-> address, value |-> value, pre |-> Memory[address]]

Address(spec, a) == (a + spec.imm) % M

NextPc(spec, pc, output) ==
    IF "Halt" \in spec.flags THEN pc
    ELSE IF "Jump" \in spec.flags THEN output
    ELSE IF "Branch" \in spec.flags /\ output = 1 THEN spec.imm
    ELSE pc + 1

StepTraps(spec, a, output) ==
    \/ "Trap" \in spec.flags
    \/ "Assert" \in spec.flags /\ output # 1
    \/ spec.flags \cap {"Load", "Store"} # {} /\ Address(spec, a) \notin DOMAIN Memory
    \/ "Jump" \in spec.flags /\ output \notin Pc

StepRecord(spec, pc, a, b, output) ==
    [rd |-> IF "Load" \in spec.flags THEN Memory[Address(spec, a)]
            ELSE IF spec.rd THEN output ELSE 0,
     ram |-> IF "Load" \in spec.flags
             THEN Access("Read", Address(spec, a), Memory[Address(spec, a)])
             ELSE IF "Store" \in spec.flags THEN Access("Write", Address(spec, a), b)
             ELSE NoOp,
     next |-> NextPc(spec, pc, output)]

-----------------------------------------------------------------------------
(* check_record: NotBoolean, Assert, RdWrite, Ram, NextPc in one. *)

CheckRam(spec, a, b, r) ==
    CASE r.ram.access = "Read"  -> "Load" \in spec.flags /\ r.ram.address = Address(spec, a)
                                    /\ r.ram.value = r.rd
      [] r.ram.access = "Write" -> "Store" \in spec.flags /\ r.ram.address = Address(spec, a)
                                    /\ r.ram.value = b
      [] r.ram.access = "NoOp"  -> spec.flags \cap {"Load", "Store"} = {}

CheckRecord(spec, pc, a, b, r) ==
    LET output == Output(spec, a, b, r.rd)
    IN  /\ spec.flags \cap {"Assert", "Branch"} # {} => spec.lookup \in Booleans
        /\ "Assert" \in spec.flags => output = 1
        /\ "WriteLookupToRd" \in spec.flags => r.rd = output
        /\ CheckRam(spec, a, b, r)
        /\ "Jump" \in spec.flags => output \in Pc
        /\ r.next = NextPc(spec, pc, output)

-----------------------------------------------------------------------------
(* The field and the witness *)

ASSUME FieldAssumption == P \in Nat /\ P > M * M /\ \A d \in 2 .. P - 1 : P % d # 0
\* A pc, and the next, and an address are words; the code's pcs are u32s.
ASSUME WidthAssumption == W \in Nat \ {0} /\ CodeLength \in 1 .. M - 1 /\ Mapped \subseteq 1 .. M - 1

Field == 0 .. P - 1

VARIABLES
    instruction, pc, a, b,  \* the row, its pc and its register reads
    witness                 \* column -> field element, so far

vars == <<instruction, pc, a, b, witness>>

spec == RowSpec(instruction)

-----------------------------------------------------------------------------
(* The lookup tables at their index: a pair of words, or a raw number. *)

LookupIndex(mode, left, right) ==
    CASE mode = "Interleaved" -> <<left, right>>
      [] mode = "Add"         -> left + right
      [] mode = "Sub"         -> left + M - right
      [] mode = "Mul"         -> left * right

IsRawIndex(lookup) ==
    \/ lookup = "Advice"
    \/ lookup \in AluOps /\ OperandMode(lookup) # "Interleaved"
TableOp(lookup) == IF lookup = "Advice" THEN "Add64" ELSE lookup

Entry(op, index) ==
    CASE op \in {"Add64", "Sub64", "Mul64"} -> index % M
      [] op = "Add32"                       -> index % 2^(W \div 2)
      [] op = "MulUNoOverflow"              -> Bool(index < M)
      [] OperandMode(op) = "Interleaved"    -> Evaluate(op, index[1], index[2])

-----------------------------------------------------------------------------
(* The constraints over the words of this machine. *)

INSTANCE UniformConstraints WITH TwoPow64 <- M

RowFlags == {Flags[n] : n \in DOMAIN Flags}
Constraints == {(EqRows \o ProductRows)[n] : n \in 1 .. Len(EqRows) + Len(ProductRows)}

Columns(k) == DOMAIN k.a \cup DOMAIN k.b \cup DOMAIN k.c
Form(f, w) == MapThenSumSet(LAMBDA column : f[column] * w[column], DOMAIN f)
Satisfied(k, w) == (Form(k.a, w) * Form(k.b, w) - Form(k.c, w)) % P = 0

-----------------------------------------------------------------------------
(***************************************************************************)
(* WasmTraceRow::from_record and cycle_witness.                            *)
(***************************************************************************)
ImmRaw == spec.imm          \* slip: the raw bits, whatever the row
ImmSigned == IF spec.flags \cap {"Load", "Store"} # {} THEN Signed(spec.imm) ELSE spec.imm

Static ==
    [const |-> 1, imm |-> ImmSigned % P, pc |-> pc, rs1 |-> a, rs2 |-> b]
    ++ [f \in RowFlags |-> Bool(f \in spec.flags)]

FromRecord(r) ==
    CASE "Load" \in spec.flags  -> r.ram.access = "Read" /\ r.ram.value = r.rd
      [] "Store" \in spec.flags -> r.ram.access = "Write" /\ r.ram.value = b
      [] spec.flags \cap {"Load", "Store"} = {} -> r.ram.access = "NoOp"

CycleWitness(r) ==
    LET left  == LeftInput(spec, a)
        right == RightInput(spec, b)
        isLoad == "Load" \in spec.flags
        index == IF spec.lookup = "Advice" THEN r.rd
                 ELSE LookupIndex(OperandMode(spec.lookup), left, right)
        output == IF spec.lookup = "none" THEN 0 ELSE Entry(TableOp(spec.lookup), index)
        raw == spec.lookup # "none" /\ IsRawIndex(spec.lookup)
    IN  Static ++
        [left_input |-> left, right_input |-> right, product |-> left * right,
         left_lookup |-> IF raw THEN 0 ELSE left, right_lookup |-> IF raw THEN index ELSE right,
         lookup_output |-> output, should_branch |-> Bool("Branch" \in spec.flags /\ output = 1),
         ram_address |-> r.ram.address,
         ram_read |-> IF isLoad THEN r.rd ELSE IF "Store" \in spec.flags THEN r.ram.pre ELSE 0,
         ram_write |-> IF isLoad THEN r.rd ELSE IF "Store" \in spec.flags THEN b ELSE 0,
         rd_write |-> IF "Store" \in spec.flags THEN 0 ELSE r.rd,
         next_pc |-> r.next]

Accepted(r) == FromRecord(r) /\ \A k \in Constraints : Satisfied(k, CycleWitness(r))

-----------------------------------------------------------------------------
(* Filling a witness: what each column may hold besides the constraints. *)

Order == <<"left_input", "right_input", "product", "left_lookup", "right_lookup",
           "lookup_output", "should_branch", "ram_address", "ram_read", "ram_write", "rd_write",
           "next_pc">>

Raw == IsRawIndex(spec.lookup)
Index == IF Raw THEN witness["right_lookup"] ELSE <<witness["left_lookup"], witness["right_lookup"]>>

\* A column no argument binds in this row is given two values.
Given(column) ==
    CASE column = "left_lookup"   -> IF Raw THEN {0} ELSE Word
      [] column = "right_lookup"  -> IF Raw THEN 0 .. M * M - 1 ELSE Word
      [] column = "lookup_output" -> IF spec.lookup = "none" THEN {0}
                                     ELSE {Entry(TableOp(spec.lookup), Index)}
      [] column = "ram_address"   -> {0} \cup DOMAIN Memory
      [] column = "ram_read"      -> IF witness["ram_address"] = 0 THEN {0}
                                     ELSE {Memory[witness["ram_address"]]}
      [] column = "ram_write"     -> IF witness["ram_address"] = 0 THEN {0, 1} ELSE Field
      [] column = "rd_write"      -> IF spec.rd THEN Field ELSE {0, 1}
      [] column = "next_pc"       -> 0 .. CodeLength - 1
      [] column \in {"left_input", "right_input", "product", "should_branch"} -> Field

\* The constraints to check once the n-th column is filled.
Due ==
    [n \in DOMAIN Order |->
        {k \in Constraints : /\ Order[n] \in Columns(k)
                             /\ \A l \in n + 1 .. Len(Order) : Order[l] \notin Columns(k)}]

Filled == {column \in DOMAIN witness : \E n \in DOMAIN Order : Order[n] = column}
Complete == Cardinality(Filled) = Len(Order)

Fill ==
    /\ ~Complete
    /\ LET n == Cardinality(Filled) + 1
       IN  \E v \in Given(Order[n]) :
            /\ witness' = witness ++ Column(Order[n], v)
            /\ \A k \in Due[n] : Satisfied(k, witness')
    /\ UNCHANGED <<instruction, pc, a, b>>

\* Memory rows address a nonzero word without wrapping, as the bounds checks
\* before them make sure.
Addressable ==
    "Load" \in spec.flags \/ "Store" \in spec.flags => a + Signed(spec.imm) \in 1 .. M - 1

Init ==
    /\ instruction \in Instructions
    /\ pc \in 0 .. CodeLength - 1
    /\ a \in IF "rs1" \in spec.reads THEN Word ELSE {0}
    /\ b \in IF "rs2" \in spec.reads THEN Word ELSE {0}
    /\ Addressable
    /\ witness = Static

Spec == Init /\ [][Fill]_vars

-----------------------------------------------------------------------------
Honest == Output(spec, a, b, QuotientU(a, b))
Step == StepRecord(spec, pc, a, b, Honest)
Traps == StepTraps(spec, a, Honest)

\* Every record the machine makes passes check_record, becomes a trace row and
\* satisfies all the constraints (Machine::step, from_record, cycle_witness).
HonestRowsHold == Filled = {} /\ ~Traps => CheckRecord(spec, pc, a, b, Step) /\ Accepted(Step)

Records ==
    [rd : IF spec.rd THEN Word ELSE {0}, next : Pc,
     ram : {NoOp} \cup {Access(kind, address, value) :
                kind \in {"Read", "Write"}, address \in DOMAIN Memory, value \in Word}]

\* check_record is what it says it is, the constraints' executable form: on
\* any record, the machine's or not, the two agree (row.rs, check_record).
CheckRecordRestates ==
    Filled = {} => \A r \in Records : CheckRecord(spec, pc, a, b, r) <=> Accepted(r)

\* What a row does to the rest of the trace.
Effect(rd, address, value, next) ==
    <<IF spec.rd THEN rd ELSE 0, IF "Store" \in spec.flags THEN <<address, value>> ELSE <<>>, next>>
Agrees(supplied) ==
    LET output == Output(spec, a, b, supplied)
        r == StepRecord(spec, pc, a, b, output)
    IN  /\ ~StepTraps(spec, a, output)
        /\ Effect(witness["rd_write"], witness["ram_address"], witness["ram_write"], witness["next_pc"])
             = Effect(r.rd, r.ram.address, r.ram.value, r.next)

\* Whatever the prover puts in the columns, a complete witness does what the
\* machine does: the register it writes, the word it stores and the next pc are
\* the machine's, and no row where the machine traps has a witness, Trap rows
\* aside (wasm_trace_constraints).
WitnessIsStep ==
    Complete /\ "Trap" \notin spec.flags =>
        IF spec.lookup = "Advice" THEN witness["rd_write"] \in Word /\ Agrees(witness["rd_write"])
        ELSE Agrees(0)

\* No Trap row has a witness: "The row never completes: executing it traps"
\* (row.rs, RowFlag::Trap).
TrapNeverCompletes == Complete => "Trap" \notin spec.flags
=============================================================================
