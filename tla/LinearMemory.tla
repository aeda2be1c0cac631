----------------------------- MODULE LinearMemory -----------------------------
(***************************************************************************)
(* Wasm memory instructions as the rows they are lowered to                *)
(* (jolt-wasm-frontend, lower.rs: emit_load, emit_store, emit_memory_grow, *)
(* MemorySize, and the bounds limits the entry stub sets), run one row at  *)
(* a time on the word memory of jolt-wasm-backend (memory.rs).             *)
(*                                                                         *)
(* Guest memory holds one cell, a word of eight address units, for each    *)
(* four wasm bytes, so that an unaligned access touches two or three cells *)
(* one after the other.  The model's byte is ByteBits wide and its page    *)
(* PageBytes long; every other constant is the code's.                     *)
(***************************************************************************)
EXTENDS RowMachine

CONSTANTS
    PageBits,           \* log2 of a page's bytes (16 in the code)
    MaxPages,           \* the module's page cap
    InitialPages,       \* the memory sizes a module may start with
    Data,               \* initial contents: [0 .. MaxPages * PageBytes - 1 -> Byte]
    Bases, Offsets,     \* operands of loads and stores
    Widths,             \* their widths in bytes
    Values,             \* words stored
    Deltas,             \* operands of memory.grow
    MaxOps              \* bound: instructions of a behaviour

PageBytes == 2^PageBits
MaxBytes  == MaxPages * PageBytes

ASSUME MemoryAssumption ==
    /\ H >= 8 /\ PageBits \in 2 .. H - 1
    /\ MaxPages \in Nat /\ MaxBytes <= HalfM
    /\ InitialPages \subseteq 0 .. MaxPages
    /\ Data \subseteq [0 .. MaxBytes - 1 -> 0 .. 2^ByteBits - 1]
    /\ Bases \cup Deltas \cup Offsets \subseteq 0 .. HalfM - 1
    /\ Widths \subseteq {1, 2, 4, 8}
    /\ Values \subseteq Word

\* The registers the rows name: operands and results, scratch, the limits.
ASSUME RegAssumption ==
    {"ZERO", "A", "B", "D", "T0", "T1", "T2", "T3", "T4", "LB", "LH", "LW", "LD"} \subseteq Reg

\* Layout: the memory-size word lies below linear memory.
MemorySizeAddr == 8
LinearBase     == 64
CellUnits      == 8           \* LINEAR_CELL_BYTES
CellBytes      == 4           \* WASM_WORD_BYTES
LinearAddress(a) == LinearBase + 2 * a

VARIABLES
    sizeWord,       \* the memory-size word
    linear,         \* the cells, one slack cell past the end
    request,        \* the instruction whose rows run
    before,         \* auxiliary: the wasm bytes and size when it was issued
    ops             \* instructions issued

vars == <<machine, sizeWord, linear, request, before, ops>>

-----------------------------------------------------------------------------
(* Rows *)

Limit(n) == CASE n = 1 -> "LB" [] n = 2 -> "LH" [] n = 4 -> "LW" [] n = 8 -> "LD"

ByteMask(n) == 2^(ByteBits * n) - 1
CellMask    == HalfM - 1
LaneMask    == 6
ShiftPerLane == ByteBits \div 2       \* a lane offset counts two units a byte
Keep(s)      == ShiftMask(s)

EmitLimits(size) ==
    <<AluImm("Mul64", "T2", size, 2)>> \o
    [i \in 1 .. 4 |-> LET n == 2^(i - 1)
                      IN AluImm("Add64", Limit(n), "T2", (LinearBase - 2 * n + 1) % M)]

EmitAddressByte(addr, offset, n) ==            \* slip: the limit of one byte
    <<Alu("Add64", "T0", addr, R(addr)),
      AluImm("Add64", "T0", "T0", LinearAddress(offset)),
      Assert("LtU", "OutOfBounds", "T0", R(Limit(1))),
      AluImm("And", "T2", "T0", LaneMask),
      AluImm("And", "T1", "T0", M - CellUnits)>>
EmitAddress(addr, offset, n) ==
    <<Alu("Add64", "T0", addr, R(addr)),
      AluImm("Add64", "T0", "T0", LinearAddress(offset)),
      Assert("LtU", "OutOfBounds", "T0", R(Limit(n))),
      AluImm("And", "T2", "T0", LaneMask),
      AluImm("And", "T1", "T0", M - CellUnits)>>

\* An access whose lane crosses its cell branches to a cold block placed after
\* the hot rows; both end at the rejoin point.
WithCold(address, n, hot, cold) ==
    LET test     == IF n = 2 THEN <<Const("T4", 5)>> ELSE <<>>
        branchAt == Len(address) + Len(test) + 1
        rejoinAt == branchAt + Len(hot) + 1
        branch   == IF n = 2 THEN Branch("LtU", "T4", "T2", rejoinAt + 1)
                             ELSE BranchIfNonzero("T2", rejoinAt + 1)
    IN IF n = 1 THEN address \o hot \o <<Rejoin>>
       ELSE address \o test \o <<branch>> \o hot \o <<Rejoin>> \o cold \o <<Jump(rejoinAt)>>

Narrow(rd, rs, n, signed, w) ==
    CASE n = 8 -> <<Mov(rd, rs)>>
      [] n < 8 /\ ~signed -> <<AluImm("And", rd, rs, ByteMask(n))>>
      [] n < 4 /\ signed  -> SignExtend(w, rd, rs, ByteBits * n)
      [] n = 4 /\ signed  -> <<IF w = 64 THEN AluImm("SignExtendWord", rd, rs, 0)
                                         ELSE AluImm("And", rd, rs, ByteMask(n))>>

LaneShift(rows) ==
    <<AluImm("Mul64", "T2", "T2", ShiftPerLane)>> \o rows

HotLoad(rd, n, signed, w) ==
    CASE n = 8 -> <<Load("T3", "T1", 0), Load("T4", "T1", CellUnits),
                    AluImm("Mul64", "T4", "T4", HalfM), Alu("Or", rd, "T3", R("T4"))>>
      [] n = 4 /\ ~signed -> <<Load(rd, "T1", 0)>>
      [] n = 4 /\ signed  -> <<Load("T3", "T1", 0)>> \o Narrow(rd, "T3", n, signed, w)
      [] n < 4 -> <<Load("T3", "T1", 0),
                    AluImm("Mul64", "T2", "T2", ShiftPerLane),
                    AluImm("ShiftRightBitmask", "T4", "T2", 0),
                    Alu("Srl", "T3", "T3", R("T4"))>> \o Narrow(rd, "T3", n, signed, w)

ColdLoad(rd, n, signed, w) ==
    LaneShift(<<Load("T3", "T1", 0),
                AluImm("ShiftRightBitmask", "T4", "T2", 0),
                Alu("Srl", "T3", "T3", R("T4")),
                Load("T4", "T1", CellUnits),
                Const("T0", H),
                Alu("Sub64", "T0", "T0", R("T2")),
                AluImm("Pow2", "T0", "T0", 0),
                Alu("Mul64", "T4", "T4", R("T0")),
                Alu("Or", "T3", "T3", R("T4"))>>)
    \o (IF n = 8 THEN <<Load("T4", "T1", 2 * CellUnits),
                        Alu("Mul64", "T4", "T4", R("T0")),
                        AluImm("Mul64", "T4", "T4", HalfM),
                        Alu("Or", "T3", "T3", R("T4"))>> ELSE <<>>)
    \o Narrow(rd, "T3", n, signed, w)

EmitLoad(rd, addr, offset, n, signed, w) ==
    WithCold(EmitAddress(addr, offset, n), n,
             HotLoad(rd, n, signed, w), ColdLoad(rd, n, signed, w))

\* Replace the lane that mask, shifted by T2, selects in the cell at T1.
InsertUncut(value, mask, truncate) ==         \* slip: what crosses the cell stays
    <<Load("T3", "T1", 0), AluImm("Pow2", "T4", "T2", 0),
      Const("T0", mask), Alu("Mul64", "T0", "T0", R("T4")),
      Alu("Andn", "T3", "T3", R("T0")),
      AluImm("And", "T0", value, mask), Alu("Mul64", "T0", "T0", R("T4")),
      Alu("Or", "T3", "T3", R("T0")), Store("T1", "T3", 0)>>
Insert(value, mask, truncate) ==
    LET cut == IF truncate THEN <<AluImm("And", "T0", "T0", CellMask)>> ELSE <<>>
    IN <<Load("T3", "T1", 0), AluImm("Pow2", "T4", "T2", 0),
         Const("T0", mask), Alu("Mul64", "T0", "T0", R("T4"))>> \o cut
       \o <<Alu("Andn", "T3", "T3", R("T0")),
            AluImm("And", "T0", value, mask), Alu("Mul64", "T0", "T0", R("T4"))>> \o cut
       \o <<Alu("Or", "T3", "T3", R("T0")), Store("T1", "T3", 0)>>

HotStore(value, n, wide) ==
    CASE n = 4 /\ ~wide -> <<Store("T1", value, 0)>>
      [] n = 4 /\ wide  -> <<AluImm("And", "T3", value, ByteMask(4)), Store("T1", "T3", 0)>>
      [] n = 8 -> <<AluImm("And", "T3", value, CellMask), Store("T1", "T3", 0),
                    AluImm("Srl", "T3", value, Keep(H)), Store("T1", "T3", CellUnits)>>
      [] n < 4 -> LaneShift(Insert(value, ByteMask(n), FALSE))

\* The part of x that reaches the second cell, T0 = the bitmask of its shift.
Carry(x) == <<Alu("Srl", "T4", x, R("T0")), AluImm("And", "T4", "T4", CellMask)>>

ColdStore(value, n) ==
    LaneShift(Insert(value, ByteMask(n), TRUE))
    \o <<Const("T0", H), Alu("Sub64", "T0", "T0", R("T2")),
         AluImm("ShiftRightBitmask", "T0", "T0", 0),
         Load("T3", "T1", CellUnits), Const("T4", ByteMask(n))>>
    \o Carry("T4")
    \o <<Alu("Andn", "T3", "T3", R("T4")), AluImm("And", "T4", value, ByteMask(n))>>
    \o Carry("T4")
    \o <<Alu("Or", "T3", "T3", R("T4")), Store("T1", "T3", CellUnits)>>
    \o (IF n = 8 THEN <<Load("T3", "T1", 2 * CellUnits), Const("T4", M - 1),
                        Alu("Srl", "T4", "T4", R("T0")),
                        AluImm("Srl", "T4", "T4", Keep(H)),
                        Alu("Andn", "T3", "T3", R("T4")),
                        Alu("Srl", "T4", value, R("T0")),
                        AluImm("Srl", "T4", "T4", Keep(H)),
                        Alu("Or", "T3", "T3", R("T4")),
                        Store("T1", "T3", 2 * CellUnits)>> ELSE <<>>)

EmitStore(base, value, wide, offset, n) ==
    WithCold(EmitAddress(base, offset, n), n, HotStore(value, n, wide), ColdStore(value, n))

PagesOf(rd) == AluImm("Srl", rd, "T0", Keep(PageBits))

EmitMemorySize(rd) == <<Load("T0", "ZERO", MemorySizeAddr), PagesOf(rd), Rejoin>>

GrowRows(rd, rs, limits) ==
    LET try == <<Load("T0", "ZERO", MemorySizeAddr),
                 AluImm("Mul64", "T1", rs, PageBytes),
                 Alu("Add64", "T1", "T0", R("T1")),
                 AluImm("LeU", "T2", "T1", MaxBytes)>>
        grow   == <<Store("ZERO", "T1", MemorySizeAddr)>> \o limits \o <<PagesOf(rd)>>
        failAt == Len(try) + 1 + Len(grow) + 2
    IN try \o <<BranchIfZero("T2", failAt)>> \o grow
       \o <<Jump(failAt + 1), Const(rd, HalfM - 1), Rejoin>>
EmitMemoryGrowStale(rd, rs) == GrowRows(rd, rs, <<>>)      \* slip: old limits stay
EmitMemoryGrow(rd, rs)      == GrowRows(rd, rs, EmitLimits("T1"))

EmitEntry == <<Load("T0", "ZERO", MemorySizeAddr)>> \o EmitLimits("T0") \o <<Rejoin>>

-----------------------------------------------------------------------------
(* Guest memory (memory.rs) *)

\* Memory::locate: where an address leads.
Address   == (regs[Row.rs1] + Row.imm) % M
CellAt(a) == (a - LinearBase) \div CellUnits
IsSize(a) == a = MemorySizeAddr
IsCell(a) == a % CellUnits = 0 /\ a >= LinearBase /\ CellAt(a) \in DOMAIN linear

Fault == IF IsCell(Address) THEN "CellOverflow" ELSE "BadAddress"

LoadStep ==
    /\ Running /\ Row.row = "load"
    /\ IF IsSize(Address) \/ IsCell(Address)
         THEN /\ regs' = Written(Row.rd, IF IsSize(Address) THEN sizeWord
                                         ELSE linear[CellAt(Address)])
              /\ Fall
              /\ UNCHANGED trap
         ELSE trap' = Fault /\ UNCHANGED <<regs, pc>>
    /\ UNCHANGED <<code, sizeWord, linear>>

\* A write of the size word resizes the backing store, capped.
CellsFor(size)   == size \div CellBytes + 1
ResizedDirty(size) ==                          \* slip: new cells are not zeroed
    [j \in 0 .. CellsFor(size) - 1 |-> IF j < CellsFor(sizeWord) - 1 THEN linear[j]
                                       ELSE IF j < CellsFor(size) - 1 THEN 1 ELSE 0]
Resized(size) ==
    [j \in 0 .. CellsFor(size) - 1 |-> IF j \in DOMAIN linear THEN linear[j] ELSE 0]
Capped(v) == IF v < MaxBytes THEN v ELSE MaxBytes

StoreStep ==
    /\ Running /\ Row.row = "store"
    /\ LET v == Read(Row.rs2)
       IN \/ /\ IsSize(Address)
             /\ sizeWord' = v
             /\ linear' = Resized(Capped(v))
             /\ Fall
             /\ UNCHANGED trap
          \/ /\ IsCell(Address) /\ v <= CellMask
             /\ linear' = [linear EXCEPT ![CellAt(Address)] = v]
             /\ Fall
             /\ UNCHANGED <<trap, sizeWord>>
          \/ /\ ~IsSize(Address)
             /\ ~(IsCell(Address) /\ v <= CellMask)
             /\ trap' = Fault
             /\ UNCHANGED <<pc, linear, sizeWord>>
    /\ UNCHANGED <<code, regs>>

-----------------------------------------------------------------------------
(* The wasm memory the cells hold *)

Byte        == 0 .. 2^ByteBits - 1
ByteAt(a)   == (linear[a \div CellBytes] \div 2^(ByteBits * (a % CellBytes))) % 2^ByteBits
WasmBytes   == [a \in 0 .. sizeWord - 1 |-> ByteAt(a)]
CellOf(f, size, j) ==
    LET B(i) == IF CellBytes * j + i < size
                THEN f[CellBytes * j + i] * 2^(ByteBits * i) ELSE 0
    IN B(0) + B(1) + B(2) + B(3)

\* Issue an instruction: its rows follow, its operands are in A and B.
Issue(r, a, b, rows) ==
    /\ code' = rows
    /\ pc' = 1
    /\ request' = r
    /\ regs' = [regs EXCEPT !["A"] = a, !["B"] = b]
    /\ before' = [bytes |-> WasmBytes, size |-> sizeWord]
    /\ ops' = ops + 1
    /\ UNCHANGED <<trap, sizeWord, linear>>

Ready == Finished /\ ops < MaxOps

\* i32.load, i64.load8_u ...: n bytes at base + offset, in a register that may
\* be the base's.
LoadOp ==
    /\ Ready
    /\ \E base \in Bases, offset \in Offsets, n \in Widths, signed \in BOOLEAN,
          w \in {32, 64}, rd \in {"A", "D"} :
           /\ n = 8 => w = 64 /\ ~signed
           /\ n = 4 /\ w = 32 => ~signed
           /\ Issue([op |-> "load", base |-> base, offset |-> offset, width |-> n,
                     signed |-> signed, bits |-> IF w = 32 THEN H ELSE Bits, rd |-> rd],
                    base, regs["B"], EmitLoad(rd, "A", offset, n, signed, w))

\* The value stored may be the base itself.
StoreOp ==
    /\ Ready
    /\ \E base \in Bases, offset \in Offsets, n \in Widths, wide \in BOOLEAN,
          reg \in {"A", "B"}, v \in Values \cup Bases :
           /\ n = 8 => wide
           /\ ~wide => v < HalfM
           /\ IF reg = "A" THEN v = base ELSE v \in Values
           /\ Issue([op |-> "store", base |-> base, offset |-> offset, width |-> n,
                     value |-> v],
                    base, IF reg = "A" THEN regs["B"] ELSE v,
                    EmitStore("A", reg, wide, offset, n))

SizeOp ==
    /\ Ready
    /\ Issue([op |-> "size", rd |-> "D"], regs["A"], regs["B"], EmitMemorySize("D"))

GrowOp ==
    /\ Ready
    /\ \E delta \in Deltas, rd \in {"A", "D"} :
           Issue([op |-> "grow", delta |-> delta, rd |-> rd], delta, regs["B"],
                 EmitMemoryGrow(rd, "A"))

-----------------------------------------------------------------------------
Init ==
    \E p \in InitialPages, data \in Data :
        /\ sizeWord = p * PageBytes
        /\ linear = [j \in 0 .. CellsFor(p * PageBytes) - 1 |->
                        CellOf(data, p * PageBytes, j)]
        /\ before = [size  |-> p * PageBytes,
                     bytes |-> [a \in 0 .. p * PageBytes - 1 |-> data[a]]]
        /\ code = EmitEntry
        /\ pc = 1
        /\ regs = [r \in Reg |-> 0]
        /\ trap = "none"
        /\ request = [op |-> "entry"]
        /\ ops = 0

Operator == LoadOp \/ StoreOp \/ SizeOp \/ GrowOp

Step ==
    /\ \/ (AluStep \/ AssertStep \/ JumpStep \/ BranchStep) /\ UNCHANGED <<sizeWord, linear>>
       \/ LoadStep
       \/ StoreStep
    /\ UNCHANGED <<request, before, ops>>

Next == Operator \/ Step

Spec == Init /\ [][Next]_vars

-----------------------------------------------------------------------------
(* Properties *)

\* Registers and the size word hold words, cells hold four bytes (the writes
\* memory.rs rejects as an invariant violation never happen), and the backing
\* store always has one zero cell of slack.
TypeOK ==
    /\ regs \in [Reg -> Word]
    /\ trap \in {"none", "OutOfBounds"}
    /\ sizeWord \in {p * PageBytes : p \in 0 .. MaxPages}
    /\ linear \in [0 .. CellsFor(sizeWord) - 1 -> 0 .. CellMask]
    /\ linear[sizeWord \div CellBytes] = 0

\* Between instructions the limit register of each width is one past the guest
\* address of the last access of that width in bounds, so that the single
\* unsigned comparison of emit_address is the wasm bounds check.
LimitsMatch ==
    Finished => \A n \in {1, 2, 4, 8}, a \in 0 .. MaxBytes + 1 :
                    (LinearAddress(a) < regs[Limit(n)]) = (a + n <= sizeWord)

\* The rows implement a byte array: while an instruction's rows run its wasm
\* memory is the one it was issued on, and its last row installs the effect;
\* an access out of bounds traps before any cell is written.
Pending == -1
Trapped == -2
Outcome ==
    IF trap # "none" THEN Trapped
    ELSE IF ~Finished THEN Pending
    ELSE IF request.op \in {"load", "size", "grow"} THEN regs[request.rd] ELSE 0

Wasm == INSTANCE WasmMemory WITH
    ByteWidth <- ByteBits,
    bytes   <- IF Outcome = Pending THEN before.bytes ELSE WasmBytes,
    size    <- IF Outcome = Pending THEN before.size ELSE sizeWord,
    outcome <- Outcome

ImplementsWasmMemory == Wasm!Spec
=============================================================================
