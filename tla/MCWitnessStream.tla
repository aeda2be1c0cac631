--------------------------- MODULE MCWitnessStream --------------------------
EXTENDS CommittedOpenings, TLC

\* Traces of up to four rows, all different, one of them bad at any place.
Good == <<"a", "b", "c", "d">>
MCTraces ==
    {SubSeq(Good, 1, n) : n \in 0 .. 4}
    \cup {[SubSeq(Good, 1, n) EXCEPT ![i] = "bad"] : n \in {4}, i \in 1 .. 4}

\* Increments of both signs, chunks that differ, an access or none.
Fact(rd, ram, index, pc, address) ==
    [rd_inc |-> rd, ram_inc |-> ram, lookup_index |-> index, bytecode_pc |-> pc,
     ram_address |-> address]
MCFacts ==
    [r \in {"a", "b", "c", "d", "pad"} |->
        CASE r = "a" -> Fact(5, 0, 6, 1, -1)
          [] r = "b" -> Fact(-3, 7, 11, 2, 9)
          [] r = "c" -> Fact(0, -20, 13, 7, 14)
          [] r = "d" -> Fact(40, 1, 0, 5, 0)
          [] r = "pad" -> Fact(0, 0, 0, 0, -1)]

Long(n) == [i \in 1 .. n |-> Good[((i * i + i \div 3) % 4) + 1]]
Late(n) == [Long(n) EXCEPT ![n] = "bad"]
Grid(log_t, log_k, chunk_vars, image_vars, order) ==
    [log_t |-> log_t, log_k |-> log_k, chunk_vars |-> chunk_vars, image_vars |-> image_vars,
     chunks |-> IF chunk_vars = 0 THEN 0 ELSE 2, order |-> order,
     instruction |-> 4 \div log_k, ram |-> 4 \div log_k, bytecode |-> 3 \div log_k]
Grids ==
    {Grid(4, 1, 0, 0, "CycleMajor"), Grid(5, 1, 3, 2, "CycleMajor"), Grid(3, 2, 0, 0, "CycleMajor"),
     Grid(2, 1, 5, 2, "CycleMajor"), Grid(3, 1, 5, 6, "CycleMajor"), Grid(4, 1, 6, 1, "CycleMajor"),
     Grid(2, 2, 0, 0, "AddressMajor"), Grid(3, 1, 3, 4, "AddressMajor"),
     Grid(2, 1, 4, 5, "AddressMajor")}
MCJobs ==
    UNION {{[pass |-> p, superchunk_cycles |-> s, zk |-> z, trace |-> t] @@ g :
                p \in {"fused", "batched", "pipelined", "materialized"},
                s \in {1, 16}, z \in BOOLEAN, t \in {Long(2^g.log_t - 1)}} : g \in Grids}
    \cup {[pass |-> p, superchunk_cycles |-> 1, zk |-> FALSE, trace |-> Late(14)]
            @@ Grid(4, 1, 0, 0, "CycleMajor") : p \in {"fused", "batched", "pipelined"}}

MCCoordinates == <<17, 5, 42, 29, 88, 63, 10>>
=============================================================================
