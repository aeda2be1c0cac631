------------------------ MODULE WitnessStream_proofs ------------------------
(***************************************************************************)
(* Proofs about WitnessStream, for every trace, range, chunk size and      *)
(* number of consumers: a chunked pass implements WitnessWindows.          *)
(***************************************************************************)
EXTENDS WitnessStream, SequenceTheorems, TLAPS

\* The windows a consumer is promised, n of them from cycle `first`.
Run(first, n) == [k \in 1 .. n |-> W!Window(first + k - 1)]

\* Where the chunk in the buffer begins.
ChunkStart == start - Len(buffer)

\* How far consumer c has come: it has had the chunk, or is still to get it.
Served(c) == IF turn > 0 /\ turn <= c THEN ChunkStart ELSE start

-----------------------------------------------------------------------------
(* The inductive invariant *)

Shapes ==
    /\ cycles \in Nat /\ chunk_size \in Nat
    /\ range \in Nat \X Nat
    /\ start \in Nat /\ turn \in 0 .. Consumers
    /\ active \in SUBSET (1 .. Consumers)
    /\ buffer \in Seq({RowAt(i) : i \in Nat})
    /\ DOMAIN got = 1 .. Consumers

\* Nothing moves in a pass that is refused; in the others the walk stays in range.
InRange ==
    IF PassError = "none" THEN range[1] <= start /\ start <= range[2]
    ELSE turn = 0 /\ start = range[1]

\* What a chunk holds while it is handed out.
ChunkHeld ==
    turn > 0 =>
        /\ PassError = "none"
        /\ 0 < Len(buffer) /\ range[1] <= ChunkStart
        /\ buffer = [k \in 1 .. Len(buffer) |-> RowAt(ChunkStart + k - 1)]
        /\ next_after = Lookahead(start)

Delivered ==
    \A c \in 1 .. Consumers :
        got[c] = IF c \in active THEN Run(range[1], Served(c) - range[1]) ELSE <<>>

IInv == Shapes /\ InRange /\ ChunkHeld /\ Delivered

-----------------------------------------------------------------------------
(* Sequences of windows *)

Cells == {W!Window(i) : i \in Int}

\* A run is a sequence of its length, whatever the trace is.
LEMMA RunIsSeq ==
    ASSUME NEW a \in Int, NEW n \in Nat
    PROVE  /\ Run(a, n) \in Seq(Cells)
           /\ Len(Run(a, n)) = n
           /\ \A k \in 1 .. n : Run(a, n)[k] = W!Window(a + k - 1)
<1>1. \A k \in 1 .. n : W!Window(a + k - 1) \in Cells
    BY DEF Cells
<1>2. Run(a, n) \in [1 .. n -> Cells]
    BY <1>1 DEF Run
<1>3. Run(a, n) \in Seq(Cells)
    BY <1>2 
<1>4. Len(Run(a, n)) = n
    BY <1>2, <1>3, LenProperties
<1> QED  BY <1>3, <1>4 DEF Run

\* Runs that follow one another make one run.
LEMMA RunsJoin ==
    ASSUME NEW a \in Int, NEW m \in Nat, NEW n \in Nat
    PROVE  Run(a, m) \o Run(a + m, n) = Run(a, m + n)
<1> DEFINE s == Run(a, m)
           t == Run(a + m, n)
           u == Run(a, m + n)
<1>1. /\ s \in Seq(Cells) /\ Len(s) = m
      /\ \A k \in 1 .. m : s[k] = W!Window(a + k - 1)
    BY RunIsSeq
<1>2. /\ t \in Seq(Cells) /\ Len(t) = n
      /\ \A k \in 1 .. n : t[k] = W!Window(a + m + k - 1)
    BY RunIsSeq
<1>3. /\ u \in Seq(Cells) /\ Len(u) = m + n
      /\ \A k \in 1 .. m + n : u[k] = W!Window(a + k - 1)
    BY RunIsSeq
<1> HIDE DEF s, t, u
<1>4. /\ s \o t \in Seq(Cells) /\ Len(s \o t) = m + n
      /\ \A k \in 1 .. m + n : (s \o t)[k] = IF k <= m THEN s[k] ELSE t[k - m]
    BY <1>1, <1>2, ConcatProperties
<1>5. \A k \in 1 .. m + n : (s \o t)[k] = u[k]
  <2>1. TAKE k \in 1 .. m + n
  <2>2. CASE k <= m
      BY <2>2, <1>1, <1>3, <1>4
  <2>3. CASE ~(k <= m)
    <3>1. k - m \in 1 .. n /\ a + m + (k - m) - 1 = a + k - 1
        BY <2>3
    <3> QED  BY <3>1, <2>3, <1>2, <1>3, <1>4
  <2> QED  BY <2>2, <2>3
<1>6. s \o t = u
    BY <1>3, <1>4, <1>5, SeqEqual
<1> QED  BY <1>6 DEF s, t, u

\* No window yet.
LEMMA RunEmpty ==
    ASSUME NEW a \in Int
    PROVE  Run(a, 0) = <<>>
<1>1. Run(a, 0) \in Seq(Cells) /\ Len(Run(a, 0)) = 0
    BY RunIsSeq
<1> QED  BY <1>1, EmptySeq

-----------------------------------------------------------------------------
(* The invariant is kept *)

\* A pass that is not refused stays within the padded domain, in chunks.
LEMMA Admitted ==
    ASSUME Shapes, PassError = "none"
    PROVE  /\ range[1] \in Nat /\ range[2] \in Nat
           /\ range[1] <= range[2] /\ range[2] <= cycles /\ chunk_size > 0
BY DEF Shapes, PassError

\* A refused pass is refused for good: the pass itself never changes.
LEMMA PassKept ==
    ASSUME UNCHANGED pass
    PROVE  /\ PassError' = PassError
           /\ \A i : RowAt(i)' = RowAt(i)
           /\ \A i : Lookahead(i)' = Lookahead(i)
           /\ \A a, n : Run(a, n)' = Run(a, n)
<1>1. rows' = rows /\ cycles' = cycles /\ range' = range /\ chunk_size' = chunk_size
    BY DEF pass
<1>2. PassError' = PassError
    BY <1>1 DEF PassError
<1>3. \A i : RowAt(i)' = RowAt(i) /\ W!RowAt(i)' = W!RowAt(i)
    BY <1>1 DEF RowAt, W!RowAt
<1>4. \A i : Lookahead(i)' = Lookahead(i)
    BY <1>1, <1>3 DEF Lookahead
<1>5. \A i : W!Window(i)' = W!Window(i)
    BY <1>1, <1>3 DEF W!Window
<1>6. \A a, n : Run(a, n)' = Run(a, n)
    BY <1>5 DEF Run
<1> QED  BY <1>2, <1>3, <1>4, <1>6

\* What the buffer hands out is the run of windows of its chunk: the rows in
\* it see one another, and the last sees the lookahead.
LEMMA BundlesAreWindows ==
    ASSUME IInv, turn > 0
    PROVE  /\ Len(buffer) \in Nat /\ ChunkStart \in Nat
           /\ Bundles = Run(ChunkStart, Len(buffer))
<1> DEFINE n == Len(buffer)
<1>1. n \in Nat /\ start \in Nat /\ cycles \in Nat
    BY LenProperties DEF IInv, Shapes
<1>2. /\ PassError = "none" /\ 0 < n /\ range[1] <= ChunkStart
      /\ buffer = [k \in 1 .. n |-> RowAt(ChunkStart + k - 1)]
      /\ next_after = Lookahead(start)
    BY DEF IInv, ChunkHeld
<1>3. range[1] \in Nat /\ range[2] \in Nat /\ start <= range[2] /\ range[2] <= cycles
    BY <1>2, Admitted DEF IInv, InRange
<1>4. ChunkStart \in Nat /\ ChunkStart = start - n
    BY <1>1, <1>2, <1>3 DEF ChunkStart
<1> HIDE DEF n
<1>5. ASSUME NEW k \in 1 .. n
      PROVE  Bundle(k) = W!Window(ChunkStart + k - 1)
  <2> DEFINE i == ChunkStart + k - 1
  <2>1. i \in Int /\ buffer[k] = RowAt(i)
      BY <1>1, <1>2, <1>4, <1>5
  <2>2. CASE k < n
    <3>1. k + 1 \in 1 .. n /\ ChunkStart + (k + 1) - 1 = i + 1 /\ i + 1 < cycles
        BY <2>2, <1>1, <1>3, <1>4
    <3>2. buffer[k + 1] = RowAt(i + 1)
        BY <3>1, <1>2
    <3> QED  BY <3>1, <3>2, <2>1, <2>2 DEF Bundle, W!Window, W!RowAt, RowAt, n
  <2>3. CASE k = n
    <3>1. i + 1 = start
        BY <2>3, <1>1, <1>4
    <3>2. ~(k < Len(buffer))
        BY <2>3, <1>1 DEF n
    <3> QED  BY <3>1, <3>2, <2>1, <1>2 DEF Bundle, Lookahead, W!Window, W!RowAt, RowAt
  <2> QED  BY <2>2, <2>3, <1>1
<1>6. Bundles = Run(ChunkStart, n)
    BY <1>5 DEF Bundles, Run, n
<1> QED  BY <1>1, <1>4, <1>6 DEF n

\* A chunk is fetched: it begins where the last one ended.
LEMMA BufferStep ==
    ASSUME IInv, Buffer
    PROVE  IInv'
<1> DEFINE end == Least(start + chunk_size, range[2])
           n == end - start
<1>1. /\ UNCHANGED pass /\ got' = got /\ result' = result
      /\ PassError = "none" /\ turn = 0 /\ turn' = 1 /\ start < range[2]
      /\ start' = end /\ next_after' = Lookahead(end)
      /\ buffer' = [k \in 1 .. n |-> RowAt(start + k - 1)]
    BY DEF Buffer, More
<1>2. /\ range[1] \in Nat /\ range[2] \in Nat /\ chunk_size \in Nat /\ start \in Nat
      /\ range[1] <= start /\ chunk_size > 0 /\ cycles \in Nat
    BY <1>1, Admitted DEF IInv, InRange, Shapes
<1>3. end \in Nat /\ start < end /\ end <= range[2] /\ n \in Nat /\ 0 < n
    BY <1>1, <1>2 DEF Least
<1> HIDE DEF end, n
<1>4. \A k \in 1 .. n : start + k - 1 \in Nat
    BY <1>2, <1>3
<1>5. buffer' \in [1 .. n -> {RowAt(i) : i \in Nat}]
    BY <1>1, <1>4
<1>6. buffer' \in Seq({RowAt(i) : i \in Nat}) /\ Len(buffer') = n
    BY <1>3, <1>5, LenProperties
<1>7. start' - Len(buffer') = start
    BY <1>1, <1>2, <1>3, <1>6 DEF n
<1>8. Shapes'
  <2>1. {RowAt(i) : i \in Nat}' = {RowAt(i) : i \in Nat}
      BY <1>1, PassKept
  <2>2. Consumers \in Nat /\ 1 \in 0 .. Consumers
      BY StreamAssumption
  <2> QED  BY <1>1, <1>3, <1>6, <2>1, <2>2 DEF IInv, Shapes, pass
<1>9. InRange'
    BY <1>1, <1>2, <1>3, PassKept DEF InRange, pass
<1>10. ChunkHeld'
  <2>1. ChunkStart' = start
      BY <1>7 DEF ChunkStart
  <2>2. next_after' = Lookahead(start)'
      BY <1>1, PassKept DEF Lookahead
  <2> QED  BY <1>1, <1>2, <1>3, <1>6, <2>1, <2>2, PassKept DEF ChunkHeld, pass
<1>11. Delivered'
  <2>1. ASSUME NEW c \in 1 .. Consumers
        PROVE  Served(c)' = start /\ Served(c) = start
    <3>1. turn' > 0 /\ turn' <= c /\ ~(turn > 0)
        BY <1>1, StreamAssumption
    <3>2. ChunkStart' = start
        BY <1>7 DEF ChunkStart
    <3> QED  BY <3>1, <3>2 DEF Served
  <2> QED  BY <1>1, <2>1, PassKept DEF IInv, Delivered, pass
<1> QED  BY <1>8, <1>9, <1>10, <1>11 DEF IInv

\* Once consumer `turn` is served or passed over, the turn is the next one's,
\* and nobody else's share changes; after the last the chunk is done.
LEMMA TurnPasses ==
    ASSUME IInv, turn > 0, Pass, UNCHANGED <<pass, start, buffer, next_after>>
    PROVE  /\ turn \in 1 .. Consumers /\ turn' \in 0 .. Consumers
           /\ \A c \in 1 .. Consumers :
                IF c = turn THEN Served(c) = ChunkStart /\ Served(c)' = start
                ELSE Served(c)' = Served(c)
<1>1. turn \in 1 .. Consumers /\ Consumers \in Nat
    BY StreamAssumption DEF IInv, Shapes
<1>2. turn' = IF turn = Consumers THEN 0 ELSE turn + 1
    BY DEF Pass
<1>3. start' = start /\ buffer' = buffer /\ ChunkStart' = ChunkStart
    BY DEF ChunkStart
<1>4. turn' \in 0 .. Consumers
    BY <1>1, <1>2
<1>5. ASSUME NEW c \in 1 .. Consumers
      PROVE  IF c = turn THEN Served(c) = ChunkStart /\ Served(c)' = start
             ELSE Served(c)' = Served(c)
  <2>1. CASE c = turn
    <3>1. turn > 0 /\ turn <= c /\ ~(turn' > 0 /\ turn' <= c)
        BY <2>1, <1>1, <1>2
    <3> QED  BY <2>1, <3>1, <1>3 DEF Served
  <2>2. CASE c # turn
    <3>1. (turn > 0 /\ turn <= c) <=> (turn' > 0 /\ turn' <= c)
        BY <2>2, <1>1, <1>2
    <3> QED  BY <2>2, <3>1, <1>3 DEF Served
  <2> QED  BY <2>1, <2>2
<1> QED  BY <1>1, <1>4, <1>5

\* What does not depend on the turn is kept while a chunk is handed out.
LEMMA HandOut ==
    ASSUME IInv, turn > 0, Pass, UNCHANGED <<pass, start, buffer, next_after>>,
           DOMAIN got' = 1 .. Consumers
    PROVE  Shapes' /\ InRange' /\ ChunkHeld'
<1>1. /\ start' = start /\ buffer' = buffer /\ next_after' = next_after
      /\ cycles' = cycles /\ chunk_size' = chunk_size /\ range' = range /\ active' = active
      /\ ChunkStart' = ChunkStart
    BY DEF pass, ChunkStart
<1>2. turn' \in 0 .. Consumers
    BY TurnPasses
<1>3. PassError = "none"
    BY DEF IInv, ChunkHeld
<1>4. {RowAt(i) : i \in Nat}' = {RowAt(i) : i \in Nat} /\ Lookahead(start)' = Lookahead(start)
    BY <1>1, PassKept
<1>5. Shapes'
    BY <1>1, <1>2, <1>4 DEF IInv, Shapes
<1>6. InRange'
    BY <1>1, <1>3, PassKept DEF IInv, InRange
<1>7. ChunkHeld'
    BY <1>1, <1>3, <1>4, PassKept DEF IInv, ChunkHeld
<1> QED  BY <1>5, <1>6, <1>7

LEMMA DeliverStep ==
    ASSUME IInv, Deliver
    PROVE  /\ IInv'
           /\ got[turn] = Run(range[1], ChunkStart - range[1])
           /\ got' = [got EXCEPT ![turn] = @ \o Run(ChunkStart, Len(buffer))]
<1> DEFINE m == ChunkStart - range[1]
           n == Len(buffer)
<1>1. /\ UNCHANGED <<pass, start, buffer, next_after>> /\ turn > 0 /\ turn \in active /\ Pass
      /\ got' = [got EXCEPT ![turn] = @ \o Bundles]
    BY DEF Deliver, Extracts
<1>2. n \in Nat /\ ChunkStart \in Nat /\ Bundles = Run(ChunkStart, n)
    BY <1>1, BundlesAreWindows
<1>3. range[1] \in Nat /\ m \in Nat /\ start \in Nat
    BY <1>1, <1>2 DEF IInv, Shapes, ChunkHeld
<1>4. DOMAIN got = 1 .. Consumers /\ turn \in 1 .. Consumers
    BY <1>1, TurnPasses DEF IInv, Shapes
<1>5. Shapes' /\ InRange' /\ ChunkHeld'
  <2>1. DOMAIN got' = 1 .. Consumers
      BY <1>1, <1>4
  <2> QED  BY <1>1, <2>1, HandOut
<1>6. got[turn] = Run(range[1], m)
    BY <1>1, <1>4, TurnPasses DEF IInv, Delivered
<1>7. range[1] + m = ChunkStart /\ m + n = start - range[1]
    BY <1>2, <1>3 DEF ChunkStart
<1> HIDE DEF m, n
<1>8. got'[turn] = Run(range[1], start - range[1])
  <2>1. got'[turn] = Run(range[1], m) \o Run(range[1] + m, n)
      BY <1>1, <1>2, <1>4, <1>6, <1>7
  <2>2. Run(range[1], m) \o Run(range[1] + m, n) = Run(range[1], m + n)
    <3>1. \A a \in Int, i, j \in Nat : Run(a, i) \o Run(a + i, j) = Run(a, i + j)
        BY RunsJoin
    <3>2. range[1] \in Int
        BY <1>3
    <3> QED  BY <3>1, <3>2, <1>2, <1>3
  <2> QED  BY <2>1, <2>2, <1>7
<1>9. Delivered'
  <2>1. SUFFICES ASSUME NEW c \in 1 .. Consumers
                 PROVE  got'[c] = IF c \in active THEN Run(range[1], Served(c)' - range[1])
                                  ELSE <<>>
      BY <1>1, PassKept DEF Delivered, pass
  <2>2. CASE c = turn
      BY <2>2, <1>1, <1>8, TurnPasses
  <2>3. CASE c # turn
    <3>1. got'[c] = got[c] /\ Served(c)' = Served(c)
        BY <2>3, <1>1, <1>4, TurnPasses
    <3> QED  BY <3>1 DEF IInv, Delivered
  <2> QED  BY <2>2, <2>3
<1> QED  BY <1>1, <1>2, <1>5, <1>6, <1>9 DEF IInv, m, n

LEMMA SkipStep ==
    ASSUME IInv, Skip
    PROVE  IInv'
<1>1. /\ UNCHANGED <<pass, start, buffer, next_after>> /\ turn > 0 /\ turn \notin active /\ Pass
      /\ got' = got
    BY DEF Skip
<1>2. Shapes' /\ InRange' /\ ChunkHeld'
    BY <1>1, HandOut DEF IInv, Shapes
<1>3. Delivered'
  <2>1. SUFFICES ASSUME NEW c \in 1 .. Consumers
                 PROVE  got[c] = IF c \in active THEN Run(range[1], Served(c)' - range[1])
                                 ELSE <<>>
      BY <1>1, PassKept DEF Delivered, pass
  <2>2. c \in active => Served(c)' = Served(c)
      BY <1>1, TurnPasses
  <2> QED  BY <2>2 DEF IInv, Delivered
<1> QED  BY <1>2, <1>3 DEF IInv

\* A step that leaves the walk alone: the pass ends, or nothing happens.
LEMMA StillStep ==
    ASSUME IInv, UNCHANGED <<pass, start, buffer, next_after, turn, got>>
    PROVE  IInv'
<1>1. /\ start' = start /\ buffer' = buffer /\ next_after' = next_after /\ turn' = turn
      /\ cycles' = cycles /\ chunk_size' = chunk_size /\ range' = range /\ active' = active
      /\ got' = got /\ ChunkStart' = ChunkStart
    BY DEF pass, ChunkStart
<1>2. {RowAt(i) : i \in Nat}' = {RowAt(i) : i \in Nat} /\ Lookahead(start)' = Lookahead(start)
    BY <1>1, PassKept
<1>3. Shapes'
    BY <1>1, <1>2 DEF IInv, Shapes
<1>4. InRange'
    BY <1>1, PassKept DEF IInv, InRange
<1>5. ChunkHeld'
    BY <1>1, <1>2, PassKept DEF IInv, ChunkHeld
<1>6. Delivered'
  <2>1. \A c : Served(c)' = Served(c)
      BY <1>1 DEF Served
  <2> QED  BY <1>1, <2>1, PassKept DEF IInv, Delivered
<1> QED  BY <1>3, <1>4, <1>5, <1>6 DEF IInv

LEMMA InitInvariant == Init => IInv
<1> SUFFICES ASSUME Init PROVE IInv
    OBVIOUS
<1>1. /\ cycles \in 1 .. MaxCycles /\ range \in (0 .. cycles + 1) \X (0 .. cycles + 1)
      /\ chunk_size \in 0 .. MaxChunk /\ active \in SUBSET (1 .. Consumers)
      /\ start = range[1] /\ buffer = <<>> /\ turn = 0
      /\ got = [c \in 1 .. Consumers |-> <<>>]
    BY DEF Init
<1>2. Shapes
    BY <1>1, StreamAssumption DEF Shapes
<1>3. InRange
    BY <1>1, <1>2 DEF InRange, PassError, Shapes
<1>4. ChunkHeld
    BY <1>1 DEF ChunkHeld
<1>5. Delivered
  <2>1. \A c \in 1 .. Consumers : Served(c) = range[1]
      BY <1>1 DEF Served
  <2>2. Run(range[1], 0) = <<>>
      BY <1>2, RunEmpty DEF Shapes
  <2>3. range[1] - range[1] = 0
      BY <1>2 DEF Shapes
  <2> QED  BY <1>1, <2>1, <2>2, <2>3 DEF Delivered
<1> QED  BY <1>2, <1>3, <1>4, <1>5 DEF IInv

LEMMA StepInvariant == IInv /\ [Next]_vars => IInv'
<1> SUFFICES ASSUME IInv, [Next]_vars PROVE IInv'
    OBVIOUS
<1>1. CASE Reject
    BY <1>1, StillStep DEF Reject
<1>2. CASE Buffer
    BY <1>2, BufferStep
<1>3. CASE Deliver
    BY <1>3, DeliverStep
<1>4. CASE Skip
    BY <1>4, SkipStep
<1>5. CASE FailExtraction
    BY <1>5, StillStep DEF FailExtraction
<1>6. CASE Finish
    BY <1>6, StillStep DEF Finish
<1>7. CASE UNCHANGED vars
    BY <1>7, StillStep DEF vars
<1> QED  BY <1>1, <1>2, <1>3, <1>4, <1>5, <1>6, <1>7 DEF Next

-----------------------------------------------------------------------------
(* Results *)

\* In every pass each active consumer has had exactly the windows of the
\* cycles handed out so far (stream_witnesses' loop over visit_chunks).
THEOREM StreamInvariant == Spec => []IInv
<1> QED  BY InitInvariant, StepInvariant, PTL DEF Spec

\* Chunks do not show: a chunked pass over any trace, range and chunk size,
\* failing or not, is a pass that hands out windows by random access
\* (visit_chunks' lookahead against RandomAccessRows::window).
THEOREM StreamImplementsWindows == Spec => ImplementsWindows
<1>1. Init => W!Init
    BY DEF Init, W!Init
<1>2. IInv /\ [Next]_vars => [W!Next]_<<rows, cycles, range, active, got>>
  <2> SUFFICES ASSUME IInv, [Next]_vars
               PROVE  [W!Next]_<<rows, cycles, range, active, got>>
      OBVIOUS
  <2>1. CASE Deliver
    <3> DEFINE n == Len(buffer)
               m == ChunkStart - range[1]
    <3>1. /\ turn > 0 /\ turn \in active /\ UNCHANGED <<rows, cycles, range, active>>
          /\ got[turn] = Run(range[1], m)
          /\ got' = [got EXCEPT ![turn] = @ \o Run(ChunkStart, n)]
        BY <2>1, DeliverStep DEF Deliver, Extracts, pass
    <3>2. /\ n \in Nat /\ 0 < n /\ ChunkStart \in Nat /\ range[1] \in Nat /\ range[2] \in Nat
          /\ cycles \in Nat /\ start \in Nat /\ m \in Nat
          /\ start <= range[2] /\ range[2] <= cycles
        BY <3>1, BundlesAreWindows, Admitted DEF IInv, Shapes, InRange, ChunkHeld
    <3>3. Len(Run(range[1], m)) = m
      <4>1. \A a \in Int, i \in Nat : Len(Run(a, i)) = i
          BY RunIsSeq
      <4>2. range[1] \in Int
          BY <3>2
      <4> HIDE DEF m
      <4> QED  BY <4>1, <4>2, <3>2
    <3>4. range[1] + m = ChunkStart /\ ChunkStart + n = start /\ n \in 1 .. cycles
        BY <3>2 DEF ChunkStart
    <3>5. W!Windows(ChunkStart, ChunkStart + n) = Run(ChunkStart, n)
      <4>1. (ChunkStart + n) - ChunkStart = n
          BY <3>2
      <4> QED  BY <4>1 DEF W!Windows, Run
    <3> HIDE DEF n, m
    <3>6. W!Consume(turn, n)
        BY <3>1, <3>2, <3>3, <3>4, <3>5 DEF W!Consume
    <3> QED  BY <3>1, <3>4, <3>6 DEF W!Next
  <2>2. CASE Reject \/ Buffer \/ Skip \/ FailExtraction \/ Finish \/ UNCHANGED vars
      BY <2>2 DEF Reject, Buffer, Skip, FailExtraction, Finish, vars, pass
  <2> QED  BY <2>1, <2>2 DEF Next
<1> QED  BY <1>1, <1>2, StreamInvariant, PTL DEF Spec, ImplementsWindows, W!Spec

\* A pass ends well only past its last chunk.
EndsPast == result = "ok" => PassError = "none" /\ turn = 0 /\ start = range[2]

\* A pass that succeeds has given every active consumer the whole range and
\* the others nothing (StreamConsumer::is_active).
THEOREM WholeRange == Spec => []WholeRangeDelivered
<1>1. Init => EndsPast
    BY DEF Init, EndsPast
<1>2. IInv /\ EndsPast /\ [Next]_vars => EndsPast'
  <2> SUFFICES ASSUME IInv, EndsPast, [Next]_vars PROVE EndsPast'
      OBVIOUS
  <2>1. CASE Finish
    <3>1. UNCHANGED <<pass, start, turn>> /\ PassError = "none" /\ turn = 0 /\ ~(start < range[2])
        BY <2>1 DEF Finish, More
    <3>2. start \in Nat /\ range[2] \in Nat /\ start <= range[2]
        BY <3>1, Admitted DEF IInv, Shapes, InRange
    <3> QED  BY <3>1, <3>2, PassKept DEF EndsPast, pass
  <2>2. CASE Reject \/ Buffer \/ Deliver \/ Skip \/ FailExtraction
    <3>1. result' # "ok"
        BY <2>2 DEF Reject, PassError, Buffer, Deliver, Skip, FailExtraction
    <3> QED  BY <3>1 DEF EndsPast
  <2>3. CASE UNCHANGED vars
      BY <2>3, PassKept DEF EndsPast, vars, pass
  <2> QED  BY <2>1, <2>2, <2>3 DEF Next
<1>3. IInv /\ EndsPast => WholeRangeDelivered
  <2> SUFFICES ASSUME IInv, EndsPast, result = "ok", NEW c \in 1 .. Consumers
               PROVE  got[c] = IF c \in active THEN W!Windows(range[1], range[2]) ELSE <<>>
      BY DEF WholeRangeDelivered
  <2>1. Served(c) = range[2]
      BY DEF EndsPast, Served
  <2>2. got[c] = IF c \in active THEN Run(range[1], range[2] - range[1]) ELSE <<>>
      BY <2>1 DEF IInv, Delivered
  <2> QED  BY <2>2 DEF Run, W!Windows
<1> QED  BY <1>1, <1>2, <1>3, StreamInvariant, PTL DEF Spec
=============================================================================
