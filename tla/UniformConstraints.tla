------------------------- MODULE UniformConstraints -------------------------
(***************************************************************************)
(* The uniform constraints of a proof row (jolt-r1cs, constraints/wasm.rs) *)
(* in their order, as the spartan sumchecks weigh them (constraints/       *)
(* jolt.rs): 22 guarded equalities in two groups, and the products.        *)
(***************************************************************************)
EXTENDS Integers, Sequences

CONSTANT TwoPow64   \* the values of a register

\* The columns of a row's witness; the constant stands before them.
Values == <<"left_input", "right_input", "product", "pc", "imm", "ram_address", "rs1", "rs2",
            "rd_write", "ram_read", "ram_write", "left_lookup", "right_lookup", "next_pc",
            "lookup_output", "should_branch">>
Flags == <<"LeftIsRs1", "RightIsRs2", "RightIsImm", "AddOperands", "SubOperands", "MulOperands",
           "WriteLookupToRd", "Load", "Store", "Jump", "Branch", "Assert", "Halt", "Trap",
           "Advice">>
OuterInputs == Values \o Flags

-----------------------------------------------------------------------------
(* A constraint is a * b = c, each side a linear form: column -> coefficient *)

\* A form of one column, and a form extended by the columns of another.
Column(column, coefficient) == [x \in {column} |-> coefficient]
f ++ g == [x \in DOMAIN f \cup DOMAIN g |-> IF x \in DOMAIN f THEN f[x] ELSE g[x]]

One == Column("const", 1)
C(column) == Column(column, 1)
Minus(column) == Column(column, -1)
Nothing == [column \in {} |-> 0]

Eq(guard, diff) == [a |-> guard, b |-> diff, c |-> Nothing]
Times(x, y, z)  == [a |-> C(x), b |-> C(y), c |-> C(z)]
Without(flags) == One ++ [f \in flags |-> -1]
Either(flags)  == [f \in flags |-> 1]

Combined == {"AddOperands", "SubOperands", "MulOperands"}

NextPcRowsAnyHalt ==        \* slip: a halted row may also step on
    <<Eq(C("should_branch"), C("next_pc") ++ Minus("imm")),
      Eq(Without({"should_branch", "Jump", "Halt"}), C("next_pc") ++ Minus("pc") ++ Minus("const"))>>
NextPcRows ==
    <<Eq(C("should_branch"), C("next_pc") ++ Minus("imm")),
      Eq(C("Halt"), C("next_pc") ++ Minus("pc")),
      Eq(Without({"should_branch", "Jump", "Halt"}), C("next_pc") ++ Minus("pc") ++ Minus("const"))>>

InputRows ==
    <<Eq(C("LeftIsRs1"), C("left_input") ++ Minus("rs1")),
      Eq(Without({"LeftIsRs1"}), C("left_input")),
      Eq(C("RightIsRs2"), C("right_input") ++ Minus("rs2")),
      Eq(C("RightIsImm"), C("right_input") ++ Minus("imm")),
      Eq(Without({"RightIsRs2", "RightIsImm"}), C("right_input"))>>

RamRows ==
    <<Eq(Either({"Load", "Store"}), C("ram_address") ++ Minus("rs1") ++ Minus("imm")),
      Eq(Without({"Load", "Store"}), C("ram_address")),
      Eq(C("Load"), C("ram_read") ++ Minus("ram_write")),
      Eq(C("Load"), C("ram_read") ++ Minus("rd_write")),
      Eq(C("Store"), C("rs2") ++ Minus("ram_write"))>>

LookupRowsAnyProduct ==     \* slip: RightLookupEqProductIfMul left out
    <<Eq(Either(Combined), C("left_lookup")),
      Eq(Without(Combined), C("left_lookup") ++ Minus("left_input")),
      Eq(C("AddOperands"), C("right_lookup") ++ Minus("left_input") ++ Minus("right_input")),
      Eq(C("SubOperands"), C("right_lookup") ++ Minus("left_input") ++ C("right_input")
                            ++ Column("const", -TwoPow64)),
      Eq(Without(Combined \cup {"Advice"}), C("right_lookup") ++ Minus("right_input"))>>
LookupRows ==
    <<Eq(Either(Combined), C("left_lookup")),
      Eq(Without(Combined), C("left_lookup") ++ Minus("left_input")),
      Eq(C("AddOperands"), C("right_lookup") ++ Minus("left_input") ++ Minus("right_input")),
      Eq(C("SubOperands"), C("right_lookup") ++ Minus("left_input") ++ C("right_input")
                            ++ Column("const", -TwoPow64)),
      Eq(C("MulOperands"), C("right_lookup") ++ Minus("product")),
      Eq(Without(Combined \cup {"Advice"}), C("right_lookup") ++ Minus("right_input"))>>

OutputRows ==
    <<Eq(C("Assert"), C("lookup_output") ++ Minus("const")),
      Eq(C("WriteLookupToRd"), C("rd_write") ++ Minus("lookup_output")),
      Eq(C("Jump"), C("next_pc") ++ Minus("lookup_output"))>>
ProductRows ==
    <<Times("left_input", "right_input", "product"),
      Times("lookup_output", "Branch", "should_branch")>>

EqRows == InputRows \o RamRows \o LookupRows \o OutputRows \o NextPcRows

\* The groups of the outer sumcheck: a domain of rows, and the others.
DomainSize == (Len(EqRows) + 1) \div 2
Groups == <<SubSeq(EqRows, 1, DomainSize), SubSeq(EqRows, DomainSize + 1, Len(EqRows))>>
=============================================================================
