---------------------------- MODULE WitnessWindows --------------------------
(***************************************************************************)
(* What a consumer of witness rows is promised (jolt-witness, consumer.rs, *)
(* RandomAccessRows::window): the window of every cycle of a range, in     *)
(* order, each exactly once.  A window is a row and the one after it; rows *)
(* past the physical trace are padding, and the last cycle has no next.    *)
(***************************************************************************)
EXTENDS Integers, Sequences

CONSTANT Padding

VARIABLES
    rows,       \* the physical trace
    cycles,     \* the padded domain
    range,      \* <<first, end>>: the half-open range asked for
    active,     \* the consumers that want bundles
    got         \* consumer -> the windows it has consumed

RowAt(i) == IF i < Len(rows) THEN rows[i + 1] ELSE Padding
Window(i) == <<RowAt(i), IF i + 1 < cycles THEN <<RowAt(i + 1)>> ELSE <<>>>>
Windows(first, end) == [k \in 1 .. end - first |-> Window(first + k - 1)]

Init == \A c \in DOMAIN got : got[c] = <<>>

\* One consumer takes the next few windows.
Consume(c, n) ==
    /\ range[1] + Len(got[c]) + n <= range[2]
    /\ got' = [got EXCEPT ![c] = @ \o Windows(range[1] + Len(@), range[1] + Len(@) + n)]
    /\ UNCHANGED <<rows, cycles, range, active>>

Next == \E c \in active : \E n \in 1 .. cycles : Consume(c, n)

Spec == Init /\ [][Next]_<<rows, cycles, range, active, got>>
=============================================================================
