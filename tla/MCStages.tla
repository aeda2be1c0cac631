------------------------------ MODULE MCStages ------------------------------
(* Small programs: traces of 4 cycles, memories of 8 words, chunks of two   *)
(* address bits; every phase split, both layouts, programs smaller and      *)
(* larger than the main matrix.                                             *)
EXTENDS ZkStatement

Shape == [log_t |-> 2, log_k |-> 3, chunk |-> 2, vra |-> 4, address_bits |-> 4, log_b |-> 3,
          log_reg |-> 2, p1 |-> 1, p2 |-> 2, r1 |-> 2, r2 |-> 1, committed |-> FALSE,
          chunk_count |-> 1, bc_vars |-> 3, image_vars |-> 3, order |-> "CycleMajor",
          zk |-> FALSE, tables |-> 1, cheats |-> 0]

\* Plain programs under every phase split, size of bytecode and mode.
Plain == {[Shape EXCEPT !.p1 = p1, !.p2 = p2, !.r1 = p1, !.r2 = r2, !.log_b = log_b, !.zk = zk] :
            p1 \in 0 .. 2, p2 \in 0 .. 3, r2 \in 0 .. 2, log_b \in 1 .. 3, zk \in BOOLEAN}
\* Committed programs around the size of the main matrix, both layouts.
Committing == {[Shape EXCEPT !.committed = TRUE, !.log_t = log_t, !.order = order,
                        !.bc_vars = bc, !.image_vars = image, !.zk = zk, !.chunk_count = 2,
                        !.log_k = 7, !.p2 = 3] :
            log_t \in {2, 3}, order \in {"CycleMajor", "AddressMajor"}, bc \in 3 .. 7,
            image \in 3 .. 7, zk \in BOOLEAN}
\* Provers that falsify a claim of their own accord once.
Cheating == {[Shape EXCEPT !.cheats = 1, !.log_b = 2, !.log_k = log_k, !.p2 = 1,
                           !.committed = log_k = 4, !.bc_vars = log_k + 1] :
                log_k \in {2, 4}}
Shapes == Plain \cup Committing \cup Cheating
=============================================================================
