--------------------------- MODULE MCPolynomials ---------------------------
(* Over the field of a hundred and one elements, up to five variables; words of sixteen bits. *)
EXTENDS Polynomials

Table(n, a, b) == [i \in 1 .. 2^n |-> (a * i * i + b * i + 1) % P]
ColumnsOf == [n \in Sizes |-> {<<Table(n, 1, 2), Table(n, 3, 1)>>}]
MCPhaseDraws == {<<0, 1, 1, 1>>, <<3, 71, 0, 52>>}
MCOperands == {0, 1, 128, 43690, 49152, 65532, 65535}
=============================================================================
