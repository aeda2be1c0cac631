------------------------------- MODULE MCArith -------------------------------
(* Small instances of Arith for TLC: 8-bit registers, 4-bit i32s. *)
EXTENDS Arith

MCReg     == {"ZERO", "A", "B", "D"} \cup Temps
MCHalf    == 0 .. HalfM - 1
MCEdges   == 0 .. 9 \cup 14 .. 18 \cup {31, 32, 33, 63, 64, 65, 100}
                \cup 126 .. 130 \cup {192, 200} \cup 252 .. 255
MCFew     == {0, 1, 3, 5, 7, 8, 10, 15, 100, 128, 254, 255}
MCAll     == Binary \cup Unary \cup Convert
MCUnsigned == {"DivU"}
MCNone == {0}
MCProvers == {FALSE, TRUE}
MCAdvisers == {TRUE}
=============================================================================
