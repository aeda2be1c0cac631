------------------------------ MODULE WasmMemory ------------------------------
(***************************************************************************)
(* The memory of a wasm instance, as the instructions see it: a byte array *)
(* that loads and stores reach at base + offset and that memory.grow       *)
(* extends with zeros.  Each instruction takes effect at once or traps     *)
(* without any effect.  Module LinearMemory implements it with rows on     *)
(* cells of a word memory.                                                 *)
(***************************************************************************)
EXTENDS Integers, FiniteSetsExt

CONSTANTS
    ByteWidth,      \* bits of a byte
    PageBytes,      \* bytes of a page
    MaxPages        \* the page cap

VARIABLES
    bytes,          \* [0 .. size - 1 -> 0 .. 2^ByteWidth - 1]
    size,           \* the memory's size in bytes
    request,        \* the instruction being executed
    outcome         \* Pending, Trapped, or its result

Pending == -1
Trapped == -2

ByteValue(v, i) == (v \div 2^(ByteWidth * i)) % 2^ByteWidth

Reach(r)    == r.base + r.offset                     \* never wraps
InBounds(r) == Reach(r) + r.width <= size

\* The little-endian value of n bytes of f, and of those a load reads, extended
\* to bits.
Assembled(f, a, n) == MapThenSumSet(LAMBDA i : f[a + i] * 2^(ByteWidth * i), 0 .. n - 1)

LoadedValue(r) ==
    LET v == Assembled(bytes, Reach(r), r.width)
        n == ByteWidth * r.width
    IN IF r.signed /\ v >= 2^(n - 1) THEN (v - 2^n) % 2^r.bits ELSE v

StoredBytes(r) ==
    [a \in DOMAIN bytes |->
        IF a \in Reach(r) .. Reach(r) + r.width - 1 THEN ByteValue(r.value, a - Reach(r))
        ELSE bytes[a]]

Grown(r) == size + r.delta * PageBytes

vars == <<bytes, size, request, outcome>>

Init ==
    /\ size \in {p * PageBytes : p \in 0 .. MaxPages}
    /\ bytes \in [0 .. size - 1 -> 0 .. 2^ByteWidth - 1]
    /\ request = [op |-> "entry"]
    /\ outcome = Pending

\* The next instruction, any one.
Issue ==
    /\ outcome >= 0
    /\ outcome' = Pending
    /\ UNCHANGED <<bytes, size>>

Entry ==
    /\ request.op = "entry"
    /\ outcome' = 0
    /\ UNCHANGED <<bytes, size>>

Trap ==
    /\ request.op \in {"load", "store"}
    /\ ~InBounds(request)
    /\ outcome' = Trapped
    /\ UNCHANGED <<bytes, size>>

Load ==
    /\ request.op = "load" /\ InBounds(request)
    /\ outcome' = LoadedValue(request)
    /\ UNCHANGED <<bytes, size>>

Store ==
    /\ request.op = "store" /\ InBounds(request)
    /\ bytes' = StoredBytes(request)
    /\ outcome' = 0
    /\ UNCHANGED size

Size ==
    /\ request.op = "size"
    /\ outcome' = size \div PageBytes
    /\ UNCHANGED <<bytes, size>>

Grow ==
    /\ request.op = "grow" /\ Grown(request) <= MaxPages * PageBytes
    /\ size' = Grown(request)
    /\ bytes' = [a \in 0 .. Grown(request) - 1 |-> IF a < size THEN bytes[a] ELSE 0]
    /\ outcome' = size \div PageBytes

\* memory.grow past the cap: -1, and nothing changes.
GrowFails ==
    /\ request.op = "grow" /\ Grown(request) > MaxPages * PageBytes
    /\ outcome' = 2^(4 * ByteWidth) - 1
    /\ UNCHANGED <<bytes, size>>

Perform ==
    /\ outcome = Pending
    /\ (Entry \/ Trap \/ Load \/ Store \/ Size \/ Grow \/ GrowFails)
    /\ UNCHANGED request

Next == Issue \/ Perform

Spec == Init /\ [][Next]_vars
=============================================================================
