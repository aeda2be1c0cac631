----------------------------- MODULE MCLowering -----------------------------
(* Small instances of Lowering for TLC. *)
EXTENDS Lowering

MCSigs      == {[params |-> 1, results |-> 2]}
MCValue     == {0, 1}
MCUnary     == [v \in MCValue |-> 1 - v]
MCBinary    == [p \in MCValue \X MCValue |-> IF p[1] > p[2] THEN 1 ELSE 0]
=============================================================================
