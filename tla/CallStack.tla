----------------------------- MODULE CallStack -----------------------------
(***************************************************************************)
(* What calls promise: the frames of a wasm instance.  The start function  *)
(* runs first, then the export with the host's inputs; a call pops its     *)
(* arguments and opens a frame whose other locals are zero; a return       *)
(* closes the frame and pushes its results for the caller, whose locals    *)
(* and other operands are as it left them; `call_indirect` enters a        *)
(* function of exactly the type it names, or traps.                        *)
(*                                                                         *)
(* Module Calls implements this with one register file and a shadow stack. *)
(***************************************************************************)
EXTENDS FuncTypes

VARIABLES
    phase,     \* what runs, or how the run ended
    depth,     \* number of open frames
    frames,    \* frames[depth] is the running one
    result     \* what the export returned

vars == <<phase, depth, frames, result>>

NoResult == [k \in {} |-> 0]
NoFrames == [i \in {} |-> 0]

Init ==
    /\ phase = IF Start = NoFn THEN "export" ELSE "start"
    /\ depth = 0
    /\ frames = NoFrames
    /\ result = NoResult

Top == frames[depth]

\* A new frame for f over the frames `below`.
Open(below, f, arguments) ==
    /\ depth' = depth + 1
    /\ frames' = [i \in 1 .. depth + 1 |->
         IF i <= depth THEN below[i]
         ELSE [fn |-> f, height |-> 0, operands |-> [d \in {} |-> 0],
               locals |-> [k \in 0 .. Locals(f) - 1 |->
                    IF k < Type(f).params THEN arguments[k] ELSE 0]]]

WithTop(frame) == [frames EXCEPT ![depth] = frame]

\* Frame fr with its operands cut to height h.
Cut(fr, h) == [fr EXCEPT !.height = h,
                         !.operands = [d \in 0 .. h - 1 |-> fr.operands[d]]]

RunStart ==
    /\ phase = "start"
    /\ phase' = "starting"
    /\ Open(frames, Start, NoResult)
    /\ UNCHANGED result

RunExport ==
    /\ phase = "export"
    /\ phase' = "running"
    /\ Open(frames, Export, Inputs)
    /\ UNCHANGED result

Running == phase \in {"starting", "running"}

\* Any operator of the body that is not a call: the frame's contents change.
Body ==
    /\ Running
    /\ UNCHANGED <<phase, depth, result>>
    /\ LET fr == frames'[depth] IN
       /\ fr.fn = Top.fn
       /\ fr.height \in 0 .. MaxFrame - Locals(Top.fn)
       /\ fr.operands \in [0 .. fr.height - 1 -> Value]
       /\ fr.locals \in [0 .. Locals(Top.fn) - 1 -> Value]
       /\ frames' = WithTop([fn |-> fr.fn, height |-> fr.height,
                             operands |-> fr.operands, locals |-> fr.locals])

\* Enter f with the `Type(f).params` values above height h of the caller.
Enter(f, h) ==
    /\ h >= 0
    /\ Open(WithTop(Cut(Top, h)), f,
            [k \in 0 .. Type(f).params - 1 |-> Top.operands[h + k]])
    /\ UNCHANGED <<phase, result>>

Call(f) == Running /\ Enter(f, Top.height - Type(f).params)

Target(i) == IF i \in DOMAIN Table THEN Table[i] ELSE NoFn

CallIndirect(t) ==
    LET f == Target(Top.operands[Top.height - 1])
    IN  /\ Running /\ Top.height > 0
        /\ f # NoFn /\ Type(f) = Types[t]
        /\ Enter(f, Top.height - 1 - Types[t].params)

Stop(how) ==
    /\ phase' = how
    /\ depth' = 0
    /\ frames' = NoFrames
    /\ UNCHANGED result

BadIndirect(t) ==
    LET i == Top.operands[Top.height - 1]
    IN  /\ Running /\ Top.height > 0
        /\ \/ i \notin DOMAIN Table /\ Stop("out of bounds")
           \/ /\ i \in DOMAIN Table
              /\ Table[i] = NoFn \/ Type(Table[i]) # Types[t]
              /\ Stop("type mismatch")

\* A call may find no room for the caller's frame, however deep it is.
Exhaust == (Running \/ phase \in {"start", "export"}) /\ Stop("exhausted")

\* The values a frame returns: its topmost operands.
Returned(fr) ==
    LET n == Type(fr.fn).results
    IN  [k \in 0 .. n - 1 |-> fr.operands[fr.height - n + k]]

Return ==
    LET n      == Type(Top.fn).results
        caller == frames[depth - 1]
    IN  /\ Running /\ depth > 1 /\ Top.height >= n
        /\ depth' = depth - 1
        /\ frames' = [i \in 1 .. depth - 1 |->
              IF i < depth - 1 THEN frames[i]
              ELSE [caller EXCEPT !.height = @ + n,
                                  !.operands = [d \in 0 .. caller.height + n - 1 |->
                                       IF d < caller.height THEN caller.operands[d]
                                       ELSE Returned(Top)[d - caller.height]]]]
        /\ UNCHANGED <<phase, result>>

Finish ==
    /\ Running /\ depth = 1 /\ Top.height >= Type(Top.fn).results
    /\ depth' = 0 /\ frames' = NoFrames
    /\ \/ phase = "starting" /\ phase' = "export" /\ UNCHANGED result
       \/ phase = "running" /\ phase' = "done" /\ result' = Returned(Top)

Next ==
    \/ RunStart
    \/ RunExport
    \/ Body
    \/ \E f \in Fn : Call(f)
    \/ \E t \in DOMAIN Types : CallIndirect(t) \/ BadIndirect(t)
    \/ Exhaust
    \/ Return
    \/ Finish

Spec == Init /\ [][Next]_vars
=============================================================================
