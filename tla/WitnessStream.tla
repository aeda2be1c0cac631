---------------------------- MODULE WitnessStream ---------------------------
(***************************************************************************)
(* stream_witnesses (jolt-witness, consumer.rs) over TraceBackend's chunked*)
(* walk (backend/trace/cycle.rs): one pass over a range of cycles feeds a  *)
(* fixed tuple of consumers, chunk by chunk, consumer by consumer.         *)
(***************************************************************************)
EXTENDS Integers, Sequences, FiniteSets

CONSTANTS
    Traces,     \* the physical traces, sequences of rows
    Padding,    \* the padding row
    MaxCycles,  \* largest cycle domain
    MaxChunk,   \* largest chunk size asked for
    Consumers,  \* the tuple has places 1 .. Consumers
    Bad         \* a row whose extraction fails

ASSUME StreamAssumption == MaxCycles \in Nat /\ MaxChunk \in Nat /\ Consumers \in Nat \ {0}

VARIABLES
    rows, cycles, range, chunk_size, active,    \* fixed for a pass
    start,      \* first cycle not buffered yet
    buffer,     \* the chunk's rows
    next_after, \* <<>> or <<the row after the chunk>> (the code's Option)
    turn,       \* the consumer the chunk goes to next, 0 between chunks
    got,        \* consumer -> the windows it has consumed
    result      \* "running", "ok" or the error

pass == <<rows, cycles, range, chunk_size, active>>
vars == <<pass, start, buffer, next_after, turn, got, result>>

IsPowerOfTwo(n) == \E l \in 0 .. n : n = 2^l
Least(x, y) == IF x < y THEN x ELSE y
RowAt(i) == IF i < Len(rows) THEN rows[i + 1] ELSE Padding

LookaheadInRange(end) ==        \* slip: no lookahead past the range
    IF end < range[2] THEN <<RowAt(end)>> ELSE <<>>
Lookahead(end) == IF end < cycles THEN <<RowAt(end)>> ELSE <<>>

PassError ==
    IF chunk_size = 0 THEN "ZeroChunk"
    ELSE IF range[2] > cycles \/ range[1] > range[2] THEN "RangeExceeds" ELSE "none"

Reject ==
    /\ result = "running" /\ PassError # "none"
    /\ result' = PassError
    /\ UNCHANGED <<pass, start, buffer, next_after, turn, got>>

\* A chunk is left, and goes to the consumers.
MoreOrNone == start <= range[2]                 \* slip: an empty chunk at the end
MoreButOne == start + chunk_size < range[2]     \* slip: stops a chunk early
More == start < range[2]

Buffer ==
    /\ result = "running" /\ PassError = "none" /\ turn = 0 /\ More
    /\ LET end == Least(start + chunk_size, range[2])
       IN  /\ buffer' = [k \in 1 .. end - start |-> RowAt(start + k - 1)]
           /\ next_after' = Lookahead(end)
           /\ start' = end
    /\ turn' = 1
    /\ UNCHANGED <<pass, got, result>>

\* One consumer's extraction: each row with the next one of the buffer, the
\* last with the lookahead.
Bundle(k) == <<buffer[k], IF k < Len(buffer) THEN <<buffer[k + 1]>> ELSE next_after>>
Bundles == [k \in 1 .. Len(buffer) |-> Bundle(k)]

Pass == turn' = IF turn = Consumers THEN 0 ELSE turn + 1

Extracts == turn \in active /\ \A k \in DOMAIN buffer : buffer[k] # Bad

Deliver ==
    /\ result = "running" /\ turn > 0 /\ Extracts
    /\ got' = [got EXCEPT ![turn] = @ \o Bundles]
    /\ Pass
    /\ UNCHANGED <<pass, start, buffer, next_after, result>>

Skip ==
    /\ result = "running" /\ turn > 0 /\ turn \notin active
    /\ Pass
    /\ UNCHANGED <<pass, start, buffer, next_after, got, result>>

FailExtraction ==
    /\ result = "running" /\ turn \in active /\ ~Extracts
    /\ result' = "ExtractionError"
    /\ UNCHANGED <<pass, start, buffer, next_after, turn, got>>

Finish ==
    /\ result = "running" /\ PassError = "none" /\ turn = 0 /\ ~More
    /\ result' = "ok"
    /\ UNCHANGED <<pass, start, buffer, next_after, turn, got>>

-----------------------------------------------------------------------------
Init ==
    /\ cycles \in 1 .. MaxCycles /\ IsPowerOfTwo(cycles)
    /\ rows \in {t \in Traces : Len(t) <= cycles}
    /\ range \in (0 .. cycles + 1) \X (0 .. cycles + 1)
    /\ chunk_size \in 0 .. MaxChunk
    /\ active \in SUBSET (1 .. Consumers)
    /\ start = range[1]
    /\ buffer = <<>> /\ next_after = <<>> /\ turn = 0
    /\ got = [c \in 1 .. Consumers |-> <<>>]
    /\ result = "running"

Next == Reject \/ Buffer \/ Deliver \/ Skip \/ FailExtraction \/ Finish

\* One thread runs the loop and waits for nobody.
Spec == Init /\ [][Next]_vars /\ WF_vars(Next)

-----------------------------------------------------------------------------
W == INSTANCE WitnessWindows

\* Whatever the chunk size, a consumer gets the windows it would get by random
\* access, in order: no chunk boundary shows (Buffer's lookahead, deliver).
ImplementsWindows == W!Spec

\* A pass that succeeds has given every active consumer the whole range and
\* the others nothing (stream_witnesses, StreamConsumer::is_active).
WholeRangeDelivered ==
    result = "ok" =>
        \A c \in 1 .. Consumers :
            got[c] = IF c \in active THEN W!Windows(range[1], range[2]) ELSE <<>>

\* A pass ends, in success or in the error of one of its steps: the walk gets
\* past every chunk, empty ranges and chunks longer than the range included
\* (visit_chunks' start).
PassEnds == <>(result # "running")
=============================================================================
