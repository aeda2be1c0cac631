------------------------------ MODULE MCKernels -----------------------------
(* Traces of a machine with a few words and registers, over thirty-one elements. *)
EXTENDS Kernels

\* An instruction: an address or none, what it stores there or Keep, the
\* registers it reads and writes, and what it writes.
Keep == -2
Op(address, store, rs1, rs2, rd, write) ==
    [address |-> address, store |-> store, rs1 |-> rs1, rs2 |-> rs2, rd |-> rd, write |-> write]
RowOf(ram, registers, op) ==
    LET reg(k) == IF k = NoAccess THEN 0 ELSE registers[k + 1]
        word == IF op.address = NoAccess THEN 0 ELSE ram[op.address + 1]
    IN  [address |-> op.address, pre |-> word, post |-> IF op.store = Keep THEN word ELSE op.store,
         rs1 |-> op.rs1, rs2 |-> op.rs2, rd |-> op.rd,
         rs1_val |-> reg(op.rs1), rs2_val |-> reg(op.rs2),
         rd_pre |-> reg(op.rd), rd_post |-> IF op.rd = NoAccess THEN 0 ELSE op.write]
\* The rows of a program, and the words and registers before every cycle.
Run(program, ram) ==
    FoldLeft(LAMBDA acc, op :
                LET row == RowOf(acc.ram_final, acc.last, op)
                IN  [rows |-> Append(acc.rows, row),
                     ram |-> Append(acc.ram, acc.ram_final),
                     registers |-> Append(acc.registers, acc.last),
                     ram_final |-> IF op.address = NoAccess THEN acc.ram_final
                                   ELSE [acc.ram_final EXCEPT ![op.address + 1] = row.post],
                     last |-> IF op.rd = NoAccess THEN acc.last
                              ELSE [acc.last EXCEPT ![op.rd + 1] = op.write]],
             [rows |-> <<>>, ram |-> <<>>, registers |-> <<>>, ram_final |-> ram,
              last |-> <<0, 0, 0, 0>>], program)

Idle == Op(-1, Keep, -1, -1, -1, 0)
\* A word written and read back, a register read twice and overwritten.
Mixed == <<Op(1, 7, -1, -1, 2, 5), Op(1, Keep, 2, 2, 2, 9), Op(3, 4, 2, 0, 1, 6), Op(-1, Keep, 1, 2, -1, 0)>>
Loads == <<Op(-1, Keep, -1, -1, 3, 8), Op(2, Keep, 3, -1, -1, 0), Idle, Op(2, 11, 1, 3, 3, 2)>>
Long == Mixed \o Loads
Tr(program) == Run(program, <<3, 1, 4, 10>>)

\* Proof rows: an addition, a store, a subtraction, a branch back, and a stop.
Plain(pc) == [c \in {OuterColumns[i] : i \in DOMAIN OuterColumns} |->
                IF c = "pc" THEN pc ELSE IF c = "next_pc" THEN pc + 1 ELSE IF c = "const" THEN 1 ELSE 0]
AddRow(pc) ==
    [Plain(pc) EXCEPT !.LeftIsRs1 = 1, !.RightIsImm = 1, !.AddOperands = 1, !.WriteLookupToRd = 1,
        !.rs1 = 4, !.left_input = 4, !.imm = 9, !.right_input = 9, !.product = 5,
        !.right_lookup = 13, !.lookup_output = 13, !.rd_write = 13]
SubRow(pc) ==
    [Plain(pc) EXCEPT !.LeftIsRs1 = 1, !.RightIsRs2 = 1, !.SubOperands = 1,
        !.rs1 = 3, !.left_input = 3, !.rs2 = 8, !.right_input = 8, !.product = 24,
        !.right_lookup = (3 - 8 + Product([i \in 1 .. 64 |-> 2])) % P, !.lookup_output = 11]
StoreRow(pc) ==
    [Plain(pc) EXCEPT !.Store = 1, !.rs1 = 7, !.imm = 3, !.ram_address = 10, !.rs2 = 6,
        !.ram_read = 2, !.ram_write = 6]
BranchRow(pc) ==
    [Plain(pc) EXCEPT !.LeftIsRs1 = 1, !.RightIsRs2 = 1, !.Branch = 1, !.rs1 = 5, !.left_input = 5,
        !.rs2 = 8, !.right_input = 8, !.product = 9, !.left_lookup = 5, !.right_lookup = 8,
        !.lookup_output = 1, !.should_branch = 1, !.next_pc = 0]
HaltRow(pc) == [Plain(pc) EXCEPT !.Halt = 1, !.next_pc = pc]
WitnessOf(log_t) ==
    CASE log_t = 1 -> <<BranchRow(3), HaltRow(0)>>
      [] log_t = 2 -> <<AddRow(1), StoreRow(2), BranchRow(3), HaltRow(0)>>
      [] log_t = 3 -> <<AddRow(1), SubRow(2), StoreRow(3), BranchRow(4),
                        SubRow(0), AddRow(1), BranchRow(2), HaltRow(0)>>
      [] OTHER -> <<>>

\* Lookups: an addition, a conjunction, a comparison, a shift by a mask, a row
\* without a table; the tables of the machine, one of them unused.
LookupTablesOf == <<"RangeCheck", "And", "Xor", "UnsignedLessThan", "Srl">>
Lookup(index, table, raf) == [index |-> index, table |-> table, raf |-> raf]
LookupsOf(n) ==
    CASE n = 1 -> <<Lookup(182, "RangeCheck", TRUE), Lookup(108, "And", FALSE),
                    Lookup(29, "None", FALSE), Lookup(151, "UnsignedLessThan", FALSE)>>
      [] n = 2 -> <<Lookup(242, "Srl", FALSE), Lookup(0, "None", TRUE)>>
\* Bytecode: rows with and without flags, registers and tables, some run twice.
CodeRow(imm, flags, rd, rs1, rs2, raf, table) ==
    [imm |-> imm, flags |-> flags, rd |-> rd, rs1 |-> rs1, rs2 |-> rs2, raf |-> raf, table |-> table]
Code == <<CodeRow(0, {}, -1, -1, -1, FALSE, "None"),
          CodeRow(9, {"LeftIsRs1", "RightIsImm", "AddOperands"}, 1, 2, -1, TRUE, "RangeCheck"),
          CodeRow(0, {"LeftIsRs1", "RightIsRs2", "WriteLookupToRd"}, 3, 1, 2, FALSE, "And"),
          CodeRow(-2, {"Branch", "LeftIsRs1"}, -1, 3, 0, FALSE, "UnsignedLessThan"),
          CodeRow(5, {"Store"}, -1, 2, 1, FALSE, "None"),
          CodeRow(0, {"Halt"}, -1, -1, -1, FALSE, "None"),
          CodeRow(0, {}, -1, -1, -1, FALSE, "None"), CodeRow(0, {}, -1, -1, -1, FALSE, "None")>>

Coordinates(n, seed) == [i \in 1 .. n |-> IF (seed \div 2^i) % 2 = 0 THEN 2 ELSE 5]
Basic(kernel, program, log_t) ==
    [kernel |-> kernel, draws |-> {3, 6}, trace |-> Tr(program), log_k |-> 2, gamma |-> 4, bits |-> 1,
     r_cycle |-> Coordinates(log_t, 11), r_address |-> Coordinates(2, 4),
     indices |-> [t \in 1 .. 2^log_t |-> (7 * t) % 16], r_index |-> Coordinates(4, 20), per_virtual |-> 2,
     witness |-> WitnessOf(log_t), tau |-> Coordinates(log_t + 2, 9), tau_high |-> 5, r0 |-> 8,
     r_binding |-> Coordinates(log_t, 4), lowest |-> 3, mask |-> <<1, 3>>,
     io |-> <<[start |-> 1, words |-> <<7>>], [start |-> 2, words |-> <<11>>]>>,
     points |-> [x \in 1 .. 4 |-> Coordinates(log_t, 3 * x + 1)],
     columns |-> [c \in 1 .. 2 |-> [t \in 1 .. 2^log_t |->
                    <<<<1, 0, 1, 1, 0, 0, 1, 0>>, <<0, -1, 1, -1, 1, 1, 0, -1>>>>[c][((t - 1) % 8) + 1]]],
     r_bool |-> <<5>>, r_virtual |-> <<<<2>>, <<5>>>>,
     lookups |-> <<>>, ra_count |-> 2, tables |-> LookupTablesOf,
     bytecode |-> Code, pcs |-> [t \in 1 .. 2^log_t |-> <<1, 2, 3, 1>>[((t - 1) % 4) + 1]], entry |-> 1, stage_gammas |-> <<2, 7, 3, 5, 9>>,
     stage_points |-> [s \in 1 .. 5 |-> Coordinates(log_t, 5 * s + 2)],
     r_rw |-> <<5, 2>>, r_val |-> <<2, 5>>,
     operands |-> [t \in 1 .. 2^log_t |-> <<t, (3 * t * t) % 13, 12 - t>>]]

LookupJob(n, ras, log_t) ==
    [Basic("instructionReadRaf", Mixed, log_t) EXCEPT !.lookups = LookupsOf(n), !.ra_count = ras,
                                                          !.draws = {3}]
CodeJob(bits) == [Basic("bytecodeReadRaf", Mixed, 2) EXCEPT !.bits = bits]
\* A memory of eight words, the first four of them the public window.
WideOutput ==
    [Basic("output", Long, 2) EXCEPT !.log_k = 3, !.r_address = Coordinates(3, 10), !.mask = <<1, 4>>,
        !.trace.ram_final = <<3, 7, 11, 4, 8, 9, 6, 2>>,
        !.io = <<[start |-> 1, words |-> <<7>>], [start |-> 2, words |-> <<11, 4>>]>>]

MatrixKernels == {"ramReadWrite", "registerReadWrite"}
CycleSums == {"valCheck", "valEvaluation", "raVirtual", "hamming", "inc", "raReduction",
              "registerReduction", "operandReduction"}
AddressSums == {"raf", "output", "hammingWeight"}
RowSums == {"outer", "product", "shift", "instructionInput"}
MCJobs ==
    {Basic(k, p, 2) : k \in MatrixKernels, p \in {Mixed, Loads}}
        \cup {[Basic("registerReadWrite", Long \o Long, 4) EXCEPT !.draws = {6}]}
        \cup {Basic(k, Long, 3) : k \in CycleSums \cup AddressSums}
        \cup {Basic(k, Mixed, 2) : k \in RowSums \cup {"booleanity", "raProduct"}}
        \cup {[Basic("raProduct", Mixed, 2) EXCEPT !.per_virtual = n] : n \in {1, 4}}
        \cup {[Basic("booleanity", Long, 3) EXCEPT !.bits = 2, !.r_bool = <<5, 2>>,
                !.columns = <<<<3, 0, 2, 1, 0, 3, 1, 2>>, <<-1, 2, 1, -1, 3, 3, 0, -1>>>>]}
        \cup {LookupJob(1, 2, 2), LookupJob(2, 4, 1), CodeJob(1), CodeJob(2), WideOutput}
        \cup {Basic(k, Long, 3) : k \in RowSums \ {"outer"}}
        \cup {Basic(k, Long \o Long, 4) : k \in {"raReduction", "registerReduction", "valCheck"}}
        \cup {Basic(k, <<Op(2, 5, 1, 1, 1, 3), Idle>>, 1) :
                k \in CycleSums \cup MatrixKernels}
=============================================================================
