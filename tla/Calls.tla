-------------------------------- MODULE Calls --------------------------------
(***************************************************************************)
(* Calls as they are lowered (jolt-wasm-frontend, lower.rs): emit_call,    *)
(* emit_indirect_target, emit_return and emit_entry_stub, on one register  *)
(* file and a shadow stack in memory.                                      *)
(*                                                                         *)
(* A frame's locals and operands are registers 0 .. MaxFrame - 1 (frame    *)
(* slots).  A caller spills all of them to the shadow stack with a return  *)
(* address, loads the arguments into the callee's first slots and moves    *)
(* SP past the spill; the callee leaves its results in temporaries; the    *)
(* caller's return site moves SP back and reloads what it needs.           *)
(*                                                                         *)
(* Other operators of a body only change its frame slots (module           *)
(* Lowering); every pending slot is in its register before a call.         *)
(***************************************************************************)
EXTENDS FuncTypes

CONSTANTS
    Stub,          \* the entry stub: a frame without locals
    StackWords,    \* words of the shadow stack
    GuardWords,    \* unmapped words above it
    GlobalWords,   \* words of the globals, above the guard
    MaxResults     \* temporaries for results

ASSUME StackAssumption ==
    /\ Stub \notin Fn
    /\ StackWords \in Nat \ {0}
    /\ GuardWords \in Nat \ {0}
    /\ GlobalWords \in Nat
    /\ MaxResults \in Nat
    /\ \A f \in Fn : Type(f).results <= MaxResults

Slot    == 0 .. MaxFrame - 1
Address == 0 .. StackWords + GuardWords + GlobalWords - 1
Guard   == StackWords .. StackWords + GuardWords - 1
Globals == StackWords + GuardWords .. StackWords + GuardWords + GlobalWords - 1

\* A return address: the call site in the code, which fixes the caller, its
\* operand height at the call, the callee's type and the code that follows.
Site == [fn : Fn \cup {Stub}, height : 0 .. MaxFrame, params : Nat,
         results : 0 .. MaxResults, next : {"args", "body", "publish"}]

\* Memory words.
Datum(v) == [kind |-> "value", value |-> v]
Ret(s)   == [kind |-> "return", site |-> s]
Word == [kind : {"value"}, value : Value] \cup [kind : {"return"}, site : Site]

LocalsOf(g) == IF g = Stub THEN 0 ELSE Locals(g)

VARIABLES
    pc,        \* stub code ("start", "args", "publish", "halt"), a function's
               \* "body", the return site ("resume"), or a trap
    fn,        \* whose code pc is in
    height,    \* the operand height at pc
    regs,      \* the frame slots
    temps,     \* T0, T1, ...
    ra,        \* at "resume": the call site whose return rows run
    sp,        \* the stack pointer, as a word of the shadow stack
    mem,       \* memory from the shadow stack's first word
    outputs,   \* the public output words
    bases      \* auxiliary: SP of every open function frame, the last is sp

vars == <<pc, fn, height, regs, temps, ra, sp, mem, outputs, bases>>

NoSite == [fn |-> Stub, height |-> 0, params |-> 0, results |-> 0, next |-> "args"]

\* The first word the stub's SP points to: SHADOW_STACK_BASE + 8.
StackStart == 1

Init ==
    /\ pc = IF Start = NoFn THEN "args" ELSE "start"
    /\ fn = Stub
    /\ height = 0
    /\ regs = [s \in Slot |-> 0]
    /\ temps = [k \in 0 .. MaxResults - 1 |-> 0]
    /\ ra = NoSite
    /\ sp = StackStart
    /\ mem = [a \in Address |-> Datum(0)]
    /\ outputs = [k \in {} |-> 0]
    /\ bases = <<>>

-----------------------------------------------------------------------------
(* The rows of a call *)

CallSite(h, type, next) ==
    [fn |-> fn, height |-> h, params |-> type.params, results |-> type.results,
     next |-> next]

Live(s)     == LocalsOf(s.fn) + s.height      \* slots spilled
ArgsBase(s) == Live(s) - s.params             \* slots reloaded on return
FrameWords(s)      == Live(s) + 1             \* and the return address

\* The spill stores upwards from SP and stops at the first word it may not
\* write: the words written.
ReachedDownwards(s) ==                        \* slip: the last word first
    {a \in sp .. sp + Live(s) : \A b \in a .. sp + Live(s) : b \notin Guard}
Reached(s) == {a \in sp .. sp + Live(s) : \A b \in sp .. a : b \notin Guard}

Exhausted(s) == \E a \in sp .. sp + Live(s) : a \in Guard

Spilled(s) ==
    [a \in Address |-> IF a \notin Reached(s) THEN mem[a]
                       ELSE IF a = sp + Live(s) THEN Ret(s)
                       ELSE Datum(regs[a - sp])]

\* The frame slots once the arguments are loaded from the spilled frame ...
Loaded(s) ==
    [r \in Slot |-> IF r < s.params THEN Spilled(s)[sp + ArgsBase(s) + r].value
                    ELSE regs[r]]

\* ... and once the callee has zeroed its declared locals.
EnteredDirty(s, f) == Loaded(s)               \* slip: they are left as found
Entered(s, f) ==
    [r \in Slot |-> IF r >= Type(f).params /\ r < Locals(f) THEN 0 ELSE Loaded(s)[r]]

Exhaust(s) ==
    /\ Exhausted(s)
    /\ pc' = "exhausted"
    /\ mem' = Spilled(s)
    /\ bases' = <<>>
    /\ UNCHANGED <<fn, height, regs, temps, ra, sp, outputs>>

\* A trap of the rows between the spill and the callee's first row.
Trap(s, how) ==
    /\ pc' = how
    /\ regs' = Loaded(s)
    /\ sp' = sp + FrameWords(s)
    /\ mem' = Spilled(s)
    /\ bases' = <<>>
    /\ UNCHANGED <<fn, height, temps, ra, outputs>>

EnterFn(s, f) ==
    /\ ~Exhausted(s)
    /\ pc' = "body"
    /\ fn' = f
    /\ height' = 0
    /\ regs' = Entered(s, f)
    /\ sp' = sp + FrameWords(s)
    /\ mem' = Spilled(s)
    /\ bases' = Append(bases, sp')
    /\ UNCHANGED <<temps, ra, outputs>>

EmitCall(s, f) == EnterFn(s, f) \/ Exhaust(s)

-----------------------------------------------------------------------------
(* The entry stub *)

RunStart ==
    /\ pc = "start"
    /\ EmitCall(CallSite(0, Type(Start), "args"), Start)

\* The arguments are loaded into the stub's operand slots: `LoadArgs`, then the
\* call of the export.
LoadArgs == [r \in Slot |-> IF r < Type(Export).params THEN Inputs[r] ELSE regs[r]]

Args ==
    /\ pc = "args"
    /\ regs' = LoadArgs
    /\ height' = Type(Export).params
    /\ pc' = "export"
    /\ UNCHANGED <<fn, temps, ra, sp, mem, outputs, bases>>

RunExport ==
    /\ pc = "export"
    /\ EmitCall(CallSite(height, Type(Export), "publish"), Export)

Publish ==
    /\ pc = "publish"
    /\ outputs' = [k \in 0 .. Type(Export).results - 1 |-> regs[k]]
    /\ pc' = "halt"
    /\ UNCHANGED <<fn, height, regs, temps, ra, sp, mem, bases>>

-----------------------------------------------------------------------------
(* A function's body *)

InBody == pc = "body"

\* Operators other than calls write a local or an operand, push or pop.
SetSlot(r, v) ==
    /\ InBody /\ r < LocalsOf(fn) + height
    /\ regs' = [regs EXCEPT ![r] = v]
    /\ UNCHANGED <<pc, fn, height, temps, ra, sp, mem, outputs, bases>>

PushUnbounded(v) ==                           \* slip: the frame's size unchecked
    /\ InBody
    /\ regs' = [regs EXCEPT ![LocalsOf(fn) + height] = v]
    /\ height' = height + 1
    /\ UNCHANGED <<pc, fn, temps, ra, sp, mem, outputs, bases>>

Push(v) ==
    /\ InBody /\ LocalsOf(fn) + height < MaxFrame
    /\ regs' = [regs EXCEPT ![LocalsOf(fn) + height] = v]
    /\ height' = height + 1
    /\ UNCHANGED <<pc, fn, temps, ra, sp, mem, outputs, bases>>

Pop ==
    /\ InBody /\ height > 0
    /\ height' = height - 1
    /\ UNCHANGED <<pc, fn, regs, temps, ra, sp, mem, outputs, bases>>

\* Validation: the operands are there and the results fit the frame; a site of
\* more results than there are temporaries is refused.
Callable(type, h) ==
    /\ h >= type.params
    /\ type.results <= MaxResults
    /\ LocalsOf(fn) + h - type.params + type.results <= MaxFrame

Call(f) ==
    /\ InBody /\ Callable(Type(f), height)
    /\ EmitCall(CallSite(height, Type(f), "body"), f)

\* The index stays in its slot, above the spilled ones; it selects the word
\* pair of a table slot, whose signature word must be the expected type's.
CallIndirect(t) ==
    LET s     == CallSite(height - 1, Types[t], "body")
        index == Loaded(s)[Live(s)]
        f     == Table[index]
    IN  /\ InBody /\ height > 0 /\ Callable(Types[t], height - 1)
        /\ \/ Exhaust(s)
           \/ /\ ~Exhausted(s)
              /\ \/ index \notin DOMAIN Table /\ Trap(s, "out of bounds")
                 \/ /\ index \in DOMAIN Table
                    /\ SignatureWord(index) # CanonicalId(t) + 1
                    /\ Trap(s, "type mismatch")
                 \/ /\ index \in DOMAIN Table
                    /\ SignatureWord(index) = CanonicalId(t) + 1
                    /\ EnterFn(s, f)

\* emit_return: results to the temporaries, then a jump to the return address.
Return ==
    LET n == Type(fn).results
    IN  /\ InBody /\ height >= n
        /\ temps' = [k \in 0 .. MaxResults - 1 |->
                        IF k < n THEN regs[LocalsOf(fn) + height - n + k] ELSE temps[k]]
        /\ ra' = mem[sp - 1].site
        /\ pc' = "resume"
        /\ UNCHANGED <<fn, height, regs, sp, mem, outputs, bases>>

\* The return site `ra`: SP back over the frame, slots below the arguments
\* reloaded, results pushed.
Resume ==
    LET back == sp - FrameWords(ra)
        at   == ArgsBase(ra)
    IN  /\ pc = "resume"
        /\ sp' = back
        /\ regs' = [r \in Slot |-> IF r < at THEN mem[back + r].value
                                   ELSE IF r < at + ra.results THEN temps[r - at]
                                   ELSE regs[r]]
        /\ fn' = ra.fn
        /\ height' = ra.height - ra.params + ra.results
        /\ pc' = ra.next
        /\ bases' = SubSeq(bases, 1, Len(bases) - 1)
        /\ ra' = NoSite
        /\ UNCHANGED <<temps, mem, outputs>>

-----------------------------------------------------------------------------
Next ==
    \/ RunStart
    \/ Args
    \/ RunExport
    \/ Publish
    \/ \E r \in Slot, v \in Value : SetSlot(r, v)
    \/ \E v \in Value : Push(v)
    \/ Pop
    \/ \E f \in Fn : Call(f)
    \/ \E t \in DOMAIN Types : CallIndirect(t)
    \/ Return
    \/ Resume

Spec == Init /\ [][Next]_vars

-----------------------------------------------------------------------------
(* The frames of the wasm instance, read from the machine *)

Traps == {"exhausted", "out of bounds", "type mismatch"}

Words(from, n)    == [d \in 0 .. n - 1 |-> mem[from + d].value]
RegFile(from, n)  == [d \in 0 .. n - 1 |-> regs[from + d]]

\* The open frame of the code at pc: its slots are registers.
TopFrame ==
    [fn |-> fn, height |-> height,
     locals |-> RegFile(0, Locals(fn)), operands |-> RegFile(Locals(fn), height)]

\* The frame i calls another: its slots were spilled under the return address
\* found below the next frame's SP.
SiteOf(i) == mem[bases[i + 1] - 1].site
WaitingFrame(i) ==
    LET s == SiteOf(i)
        h == s.height - s.params
    IN  [fn |-> s.fn, height |-> h, locals |-> Words(bases[i], Locals(s.fn)),
         operands |-> Words(bases[i] + Locals(s.fn), h)]

Frames ==
    [i \in 1 .. Len(bases) |-> IF i = Len(bases) THEN TopFrame ELSE WaitingFrame(i)]

Phase ==
    IF pc \in Traps \cup {"start"} THEN pc
    ELSE IF pc \in {"args", "export"} THEN "export"
    ELSE IF pc \in {"publish", "halt"} THEN "done"
    ELSE IF mem[bases[1] - 1].site.next = "args" THEN "starting"
    ELSE "running"

Result ==
    IF pc = "publish" THEN RegFile(0, Type(Export).results)
    ELSE IF pc = "halt" THEN outputs
    ELSE [k \in {} |-> 0]

CS == INSTANCE CallStack WITH phase <- Phase, depth <- Len(bases),
                              frames <- Frames, result <- Result

(* The lowered calls implement the frames of the wasm instance: a callee    *)
(* that overwrites the one register file never changes what its callers see *)
(* after it returns, however deep, and an indirect call enters only what    *)
(* the table and the types allow.                                           *)
ImplementsCallStack == CS!Spec

(* An indirect call through a table slot enters its function exactly when   *)
(* the function's type is structurally the one the call names, whatever     *)
(* their type indices, and never enters a null slot.                        *)
IndirectChecked ==
    [][\A t \in DOMAIN Types : CallIndirect(t) =>
         LET i == regs[LocalsOf(fn) + height - 1]
             matches == Table[i] # NoFn /\ Type(Table[i]) = Types[t]
         IN  /\ pc' = "type mismatch" => i \in DOMAIN Table /\ ~matches
             /\ pc' = "body" => i \in DOMAIN Table /\ matches /\ fn' = Table[i]]_vars

(* A spill that runs out of shadow stack stops at the guard: the globals    *)
(* above it are never written by a call.                                    *)
GlobalsUntouched == \A a \in Globals : mem[a] = Datum(0)

(* Every variable has its type, SP stays in the shadow stack, and a word is *)
(* a value or a return address.                                             *)
TypeOK ==
    /\ pc \in Traps \cup {"start", "args", "export", "body", "resume", "publish", "halt"}
    /\ fn \in Fn \cup {Stub}
    /\ height \in 0 .. MaxFrame - LocalsOf(fn)
    /\ regs \in [Slot -> Value]
    /\ temps \in [0 .. MaxResults - 1 -> Value]
    /\ ra \in Site
    /\ sp \in StackStart .. StackWords
    /\ mem \in [Address -> Word]
    /\ outputs \in {[k \in {} |-> 0]} \cup [0 .. Type(Export).results - 1 -> Value]
    /\ bases \in Seq(StackStart .. StackWords)
=============================================================================
