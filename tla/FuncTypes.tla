----------------------------- MODULE FuncTypes -----------------------------
(***************************************************************************)
(* What `lower` reads of a wasm module to lower its calls: function types, *)
(* function table, start function and export (jolt-wasm-frontend,          *)
(* module.rs and lower.rs).                                                *)
(***************************************************************************)
EXTENDS Integers, Sequences, FiniteSets

CONSTANTS
    Fn,          \* functions
    NoFn,        \* no start function; a null table slot
    Types,       \* the type section: a sequence of records [params, results]
    TypeIndex,   \* the type of each function
    Declared,    \* locals declared by each function, besides its parameters
    TableSlots,  \* size of the function table ...
    Table,       \*   ... and its entries
    Start,       \* the start function
    Export,      \* the exported function invoked
    Inputs,      \* its arguments
    MaxFrame,    \* MAX_FRAME_SLOTS: slots of a frame, locals and operands
    Value        \* wasm values

Type(f)   == Types[TypeIndex[f]]
Locals(f) == Type(f).params + Declared[f]

ASSUME ModuleAssumption ==
    /\ Types \in Seq([params : Nat, results : Nat])
    /\ TypeIndex \in [Fn -> DOMAIN Types]
    /\ Declared \in [Fn -> Nat]
    /\ NoFn \notin Fn
    /\ TableSlots \in Nat
    /\ Table \in [0 .. TableSlots - 1 -> Fn \cup {NoFn}]
    /\ Start \in Fn \cup {NoFn}
    /\ (Start \in Fn => Type(Start) = [params |-> 0, results |-> 0])
    /\ Export \in Fn
    /\ Inputs \in [0 .. Type(Export).params - 1 -> Value]
    /\ MaxFrame \in Nat
    /\ \A f \in Fn : Locals(f) <= MaxFrame
    /\ Type(Export).results <= MaxFrame
    /\ Value \subseteq Nat
    /\ 0 \in Value

-----------------------------------------------------------------------------
\* canonical_type_ids: the position of type t among the structurally distinct
\* types, in order of first appearance.
FirstLike(t) ==
    CHOOSE u \in DOMAIN Types :
        /\ Types[u] = Types[t]
        /\ \A w \in DOMAIN Types : Types[w] = Types[t] => u <= w

CanonicalIdByIndex(t) == t - 1      \* slip: equal types keep separate ids
CanonicalId(t) == Cardinality({Types[u] : u \in 1 .. FirstLike(t) - 1})

\* The signature word of a table slot in the program image: the function's
\* canonical type id plus one, or 0 for a null slot.
SignatureWord(i) ==
    IF Table[i] = NoFn THEN 0 ELSE CanonicalId(TypeIndex[Table[i]]) + 1
=============================================================================
