------------------------------ MODULE MCCalls ------------------------------
(* Small instances of Calls for TLC. *)
EXTENDS Calls

MCTypes == <<[params |-> 0, results |-> 0], [params |-> 1, results |-> 1],
             [params |-> 2, results |-> 1], [params |-> 1, results |-> 1]>>
MCTypeIndex == [f \in Fn |-> IF f = "start" THEN 1 ELSE IF f = "main" THEN 4 ELSE 3]
MCDeclared  == [f \in Fn |-> IF f = "start" THEN 1 ELSE 0]
MCTable     == [i \in 0 .. 1 |-> IF i = 0 THEN NoFn ELSE "main"]
MCInputs    == [k \in 0 .. 0 |-> 1]
MCValue     == {0, 1, 2}
=============================================================================
