---------------------------- MODULE MCLinearMemory ----------------------------
(* Small instances of LinearMemory for TLC: 2-bit bytes, 8-bit i32s, 8-byte pages. *)
EXTENDS LinearMemory

MCReg == {"ZERO", "A", "B", "D", "T0", "T1", "T2", "T3", "T4", "LB", "LH", "LW", "LD"}
MCMixed == [a \in 0 .. MaxBytes - 1 |-> (a + 1 + a \div 4) % 4]
MCData  == {MCMixed}
MCBases == {0, 1, 2, 5, 6, HalfM - 1}
=============================================================================
