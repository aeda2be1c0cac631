--------------------------- MODULE MCBatchedSumcheck ------------------------
(* Batches of up to three members over the field of five elements. *)
EXTENDS BlindFold

None  == <<3>>
One   == <<1, 4>>
One_  == <<2, 3>>
Two   == <<1, 0, 3, 2>>
Two_  == <<4, 1, 1, 2>>

Member(fs, c, o) == [input_claim |-> Sum(fs), coefficient |-> c, rounds |-> Vars(fs), offset |-> o]
Batch(ks, cs, os, n, d) ==
    [described |-> [i \in 1 .. Len(os) |-> Member(ks[i], cs[i], os[i])], kernels |-> ks,
     max_num_vars |-> n, max_degree |-> d]

\* A member of two rounds and another at every offset.
Pairs ==
    {Batch(<<long, short>>, <<c, d>>, <<0, o>>, 2, 2) :
        long \in {<<Two>>, <<Two, Two_>>}, short \in {<<None>>, <<One>>, <<One, One_>>, <<Two_>>},
        c \in {1, 3}, d \in {0, 2}, o \in 0 .. 2}

\* Three members whose windows start together and apart.
Triples ==
    {Batch(<<<<Two>>, <<One, One_>>, <<One_>>>>, <<c, 2, 4>>, <<0, o, p>>, 2, 2) :
        c \in {1, 3}, o \in 0 .. 1, p \in 0 .. 1}

Refused ==
    {Batch(<<<<Two, Two_>>, <<One>>>>, <<1, 2>>, <<0, 1>>, 2, 1),         \* degree 2 in a batch of 1
     Batch(<<<<One>>>>, <<1>>, <<0>>, 1, 0),
     Batch(<<<<One>>, <<One_>>>>, <<1>>, <<0>>, 1, 1),
     [Batch(<<<<One>>>>, <<1>>, <<0>>, 2, 1) EXCEPT !.described[1].rounds = 2],
     Batch(<<<<None>>, <<None>>>>, <<1, 2>>, <<0, 0>>, 0, 0)}             \* no round at all

\* Two rounds: the first message over two coefficients, the second any.
UpTo(n, S) == UNION {[1 .. k -> S] : k \in 0 .. n}
MCForged == {Batch(<<<<Two, Two_>>>>, <<1>>, <<0>>, 2, 2), Batch(<<<<<<2, 2, 0, 1>>>>>>, <<1>>, <<0>>, 2, 1)}
MCProofs ==
    {<<v, w>> : v \in UpTo(3, {0, 2}), w \in UpTo(3, Field)} \cup {<<v>> : v \in UpTo(2, Field)}

\* Proved with committed rounds: two members of different lengths over a
\* shared table; five openings, two rows of them; a round of more coefficients
\* than a commitment takes; no round at all.
MCSealed ==
    {Batch(<<<<Two, Two_>>, <<One>>>>, <<1, 2>>, <<0, 1>>, 2, 2),
     Batch(<<<<One, One_>>, <<One>>, <<Two_, Two_>>>>, <<3, 1, 2>>, <<0, 0, 0>>, 2, 2),
     Batch(<<<<One, One_, <<1, 1>>>>, <<One>>, <<<<0, 3>>>>>>, <<1, 2, 1>>, <<0, 0, 0>>, 1, 3),
     Batch(<<<<One, One_, One, One_>>>>, <<1>>, <<0>>, 1, 4),
     Batch(<<<<None>>>>, <<1>>, <<0>>, 0, 1)}
\* Their uni-skip rounds sum to 0 over {-1, 0, 1} and over {0, 1}.
MCHeads ==
    {[coefficients |-> <<1, 2, 1>>, size |-> 3, challenge |-> 2],
     [coefficients |-> <<2, 3, 3>>, size |-> 2, challenge |-> 3]}

Purposes == [round |-> 1, output |-> 2, final |-> 3, auxiliary |-> 1, row |-> 2, blind |-> 4, value |-> 3,
             u |-> 1, error |-> 3, cross |-> 2, tau |-> 2, outer |-> 3, inner |-> 1, abc |-> 1]
MCRandom(seed, purpose, n) == (seed * Purposes[purpose] + n * n + (n \div 3) + 2) % P
MCSeeds == {1, 2}

MCBatches == Pairs \cup Triples \cup Refused
=============================================================================
