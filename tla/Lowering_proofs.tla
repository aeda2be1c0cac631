-------------------------- MODULE Lowering_proofs ---------------------------
(* Proofs about module Lowering: for every number of locals, stack slots    *)
(* and nested blocks, and every set of values and operators, the register   *)
(* file holds the wasm frame.                                               *)
EXTENDS Lowering, TLAPS

\* While move_down's rows run, nothing is pending and they stay in the stack.
MoveOk ==
    moving.on => /\ pending = NothingPending
                 /\ moving.depth < Len(labels)
                 /\ moving.base + moving.n <= height
                 /\ moving.k <= moving.n

(* The inductive invariant. *)
IInv == TypeOK /\ NoStaleMark /\ MoveOk /\ Simulation

RegFile == [Slot -> Value]
Marks   == [Depth -> Pending]

-----------------------------------------------------------------------------
(* Registers and pending marks *)

\* Locals and stack slots are distinct frame slots.
LEMMA SlotFacts ==
    /\ \A i \in Local : i \in Slot
    /\ \A d \in Depth : StackSlot(d) \in Slot /\ StackSlot(d) \notin Local
                        /\ StackSlot(d) - NumLocals = d
    /\ \A d, e \in Depth : StackSlot(d) = StackSlot(e) => d = e
    /\ \A i \in Local, d \in Depth : i # StackSlot(d)
BY BoundsAssumption DEF Local, Depth, Slot, StackSlot

\* A mark is one of three kinds, told apart by its field.
LEMMA PendingFacts ==
    /\ NotPending.kind = "none"
    /\ \A i : Alias(i).kind = "local" /\ Alias(i).local = i
    /\ \A v : Imm(v).kind = "const" /\ Imm(v).imm = v
    /\ \A m \in Pending :
         \/ m = NotPending
         \/ m.kind = "local" /\ m.local \in Local /\ m = Alias(m.local)
         \/ m.kind = "const" /\ m.imm \in Value /\ m = Imm(m.imm)
BY DEF Pending, NotPending, Alias, Imm

LEMMA DenoteType ==
    ASSUME NEW r \in RegFile, NEW p \in Marks, NEW d \in Depth
    PROVE  Denote(r, p, d) \in Value
<1>1. p[d] \in Pending  BY DEF Marks
<1>2. CASE p[d] = NotPending  BY <1>2, SlotFacts, PendingFacts DEF Denote, RegFile
<1>3. CASE p[d].kind = "local" /\ p[d].local \in Local  BY <1>3, SlotFacts DEF Denote, RegFile
<1>4. CASE p[d].kind = "const" /\ p[d].imm \in Value  BY <1>4 DEF Denote
<1>5. QED BY <1>1, <1>2, <1>3, <1>4, PendingFacts

\* Materialize writes the chosen stack slots and nothing else.
LEMMA MaterializeFacts ==
    ASSUME NEW r \in RegFile, NEW p \in Marks, NEW D \in SUBSET Depth
    PROVE  /\ Materialize(r, p, D) \in RegFile
           /\ \A i \in Local : Materialize(r, p, D)[i] = r[i]
           /\ \A d \in D : Materialize(r, p, D)[StackSlot(d)] = Denote(r, p, d)
           /\ \A d \in Depth \ D : Materialize(r, p, D)[StackSlot(d)] = r[StackSlot(d)]
<1>1. ASSUME NEW s \in Slot
      PROVE  (IF \E d \in D : s = StackSlot(d) THEN Denote(r, p, s - NumLocals)
                                               ELSE r[s]) \in Value
  BY SlotFacts, DenoteType DEF RegFile
<1>2. Materialize(r, p, D) \in RegFile  BY <1>1 DEF Materialize, RegFile
<1>3. \A i \in Local : Materialize(r, p, D)[i] = r[i]  BY SlotFacts DEF Materialize
<1>4. ASSUME NEW d \in D
      PROVE  Materialize(r, p, D)[StackSlot(d)] = Denote(r, p, d)
    BY SlotFacts DEF Materialize
<1>5. ASSUME NEW d \in Depth \ D
      PROVE  Materialize(r, p, D)[StackSlot(d)] = r[StackSlot(d)]
    BY SlotFacts DEF Materialize
<1>6. QED BY <1>2, <1>3, <1>4, <1>5

LEMMA ClearFacts ==
    ASSUME NEW p \in Marks, NEW D
    PROVE  /\ Clear(p, D) \in Marks
           /\ \A d \in Depth : Clear(p, D)[d] = IF d \in D THEN NotPending ELSE p[d]
BY DEF Clear, Marks, Pending

\* Reading: the source register holds what the operand stands for.
LEMMA ReadFacts ==
    ASSUME NEW r \in RegFile, NEW p \in Marks, NEW D \in SUBSET Depth
    PROVE  /\ ReadSrc(r, p, D) \in RegFile
           /\ \A i \in Local : ReadSrc(r, p, D)[i] = r[i]
           /\ \A d \in Depth \ D : ReadSrc(r, p, D)[StackSlot(d)] = r[StackSlot(d)]
           /\ \A d \in Depth : p[d] = NotPending =>
                 ReadSrc(r, p, D)[StackSlot(d)] = r[StackSlot(d)]
           /\ \A d \in D : /\ SrcReg(p, d) \in Slot
                           /\ ReadSrc(r, p, D)[SrcReg(p, d)] = Denote(r, p, d)
<1> DEFINE C == {d \in D : p[d].kind = "const"}
<1>1. C \in SUBSET Depth  OBVIOUS
<1>2. ReadSrc(r, p, D) = Materialize(r, p, C)  BY DEF ReadSrc
<1>3. ASSUME NEW d \in D
      PROVE  /\ SrcReg(p, d) \in Slot
             /\ ReadSrc(r, p, D)[SrcReg(p, d)] = Denote(r, p, d)
  <2>0. d \in Depth /\ p[d] \in Pending  BY DEF Marks
  <2>1. CASE p[d] = NotPending
      BY <2>1, <2>0, PendingFacts, <1>1, <1>2, SlotFacts, MaterializeFacts DEF SrcReg, Denote
  <2>2. CASE p[d].kind = "local" /\ p[d].local \in Local
      BY <2>2, <1>1, <1>2, SlotFacts, MaterializeFacts DEF SrcReg, Denote
  <2>3. CASE p[d].kind = "const"  BY <2>3, <2>0, <1>1, <1>2, SlotFacts, MaterializeFacts DEF SrcReg
  <2>4. QED BY <2>0, <2>1, <2>2, <2>3, PendingFacts
<1>4. \A d \in Depth : p[d] = NotPending => d \notin C  BY PendingFacts
<1>5. QED BY <1>1, <1>2, <1>3, <1>4, MaterializeFacts

\* The register file after an operator's result v is written.
DestResult(r, p, d, dest, v) == [DestFile(r, p, dest) EXCEPT ![DestReg(d, dest)] = v]

\* Writing a result: the locals and the other depths keep their values.
LEMMA DestFacts ==
    ASSUME NEW r \in RegFile, NEW p \in Marks, NEW d \in Depth,
           NEW dest \in Dests, NEW v \in Value, p[d] = NotPending
    PROVE  /\ DestFile(r, p, dest) \in RegFile
           /\ DestResult(r, p, d, dest, v) \in RegFile
           /\ DestPending(p, d, dest) \in Marks
           /\ \A i \in Local : DestFile(r, p, dest)[i] = r[i]
           /\ \A e \in Depth : p[e] = NotPending =>
                 DestFile(r, p, dest)[StackSlot(e)] = r[StackSlot(e)]
           /\ \A i \in Local : DestResult(r, p, d, dest, v)[i] =
                 IF dest # InSlot /\ dest.local = i THEN v ELSE r[i]
           /\ \A e \in Depth \ {d} :
                 Denote(DestResult(r, p, d, dest, v), DestPending(p, d, dest), e)
                     = Denote(r, p, e)
           /\ ~(dest # InSlot /\ dest.kind = "set") =>
                 Denote(DestResult(r, p, d, dest, v), DestPending(p, d, dest), d) = v
           /\ \A e \in Depth \ {d} : p[e] = NotPending =>
                 DestPending(p, d, dest)[e] = NotPending
           /\ dest # InSlot /\ dest.kind = "set" =>
                 DestPending(p, d, dest)[d] = NotPending
<1> DEFINE file == DestFile(r, p, dest)
           r2   == DestResult(r, p, d, dest, v)
           p2   == DestPending(p, d, dest)
<1>1. CASE dest = InSlot
  <2>1. file = r /\ p2 = p /\ DestReg(d, dest) = StackSlot(d)
    BY <1>1 DEF DestFile, DestPending, DestReg
  <2>2. r2 = [r EXCEPT ![StackSlot(d)] = v]  BY <2>1 DEF DestResult
  <2>3. r2 \in RegFile /\ \A i \in Local : r2[i] = r[i]  BY <2>2, SlotFacts DEF RegFile
  <2>4. r2[StackSlot(d)] = v /\ \A e \in Depth \ {d} : r2[StackSlot(e)] = r[StackSlot(e)]
    BY <2>2, SlotFacts DEF RegFile
  <2>5. \A e \in Depth \ {d} : Denote(r2, p, e) = Denote(r, p, e)
    BY <2>3, <2>4, PendingFacts DEF Denote, Marks
  <2>6. Denote(r2, p, d) = v  BY <2>4, PendingFacts DEF Denote
  <2>7. QED BY <1>1, <2>1, <2>3, <2>4, <2>5, <2>6
<1>2. CASE dest # InSlot
  <2> DEFINE i == dest.local
             A == Aliasing(p, i)
  <2>1. i \in Local /\ dest.kind \in {"set", "tee"}  BY <1>2 DEF Dests
  <2>2. file = Materialize(r, p, A) /\ DestReg(d, dest) = i /\ A \in SUBSET Depth
    BY <1>2 DEF DestFile, DestReg, Aliasing
  <2>3. \A e \in Depth : e \in A <=> p[e] = Alias(i)  BY DEF Aliasing
  <2>4. d \notin A  BY <2>3, PendingFacts
  <2>5. /\ file \in RegFile
        /\ \A j \in Local : file[j] = r[j]
        /\ \A e \in A : file[StackSlot(e)] = Denote(r, p, e)
        /\ \A e \in Depth \ A : file[StackSlot(e)] = r[StackSlot(e)]
    BY <2>2, MaterializeFacts
  <2>6. /\ r2 \in RegFile
        /\ \A j \in Local : r2[j] = IF j = i THEN v ELSE r[j]
        /\ \A e \in Depth : r2[StackSlot(e)] = file[StackSlot(e)]
      BY <2>2, <2>1, <2>5, SlotFacts DEF DestResult, RegFile
  <2>7. p2 \in Marks
    <3>1. ASSUME NEW e \in Depth
          PROVE  (IF dest.kind = "tee" /\ e = d THEN Alias(i)
                  ELSE IF e \in A THEN NotPending ELSE p[e]) \in Pending
      BY <2>1 DEF Marks, Pending
    <3>2. p2 = [e \in Depth |-> IF dest.kind = "tee" /\ e = d THEN Alias(i)
                                ELSE IF e \in A THEN NotPending ELSE p[e]]
      BY <1>2 DEF DestPending
    <3>3. QED BY <3>1, <3>2 DEF Marks
  <2>8. \A e \in Depth : p2[e] = IF dest.kind = "tee" /\ e = d THEN Alias(i)
                                 ELSE IF e \in A THEN NotPending ELSE p[e]
    BY <1>2 DEF DestPending
  <2>9. ASSUME NEW e \in Depth \ {d}
        PROVE  Denote(r2, p2, e) = Denote(r, p, e)
    <3>1. CASE e \in A  BY <3>1, <2>8, <2>5, <2>6, PendingFacts DEF Denote
    <3>2. CASE e \notin A  BY <3>2, <2>3, <2>8, <2>5, <2>6, PendingFacts DEF Marks, Denote
    <3>3. QED BY <3>1, <3>2
  <2>10. dest.kind # "set" => Denote(r2, p2, d) = v  BY <2>1, <2>6, <2>8, PendingFacts DEF Denote
  <2>11. dest.kind = "set" => p2[d] = NotPending  BY <2>4, <2>8
  <2>12. \A e \in Depth \ {d} : p[e] = NotPending => p2[e] = NotPending  BY <2>8
  <2>13. \A e \in Depth : p[e] = NotPending => file[StackSlot(e)] = r[StackSlot(e)]
    BY <2>3, <2>5, PendingFacts
  <2>14. QED BY <1>2, <2>5, <2>6, <2>7, <2>9, <2>10, <2>11, <2>12, <2>13
<1>3. QED BY <1>1, <1>2

LEMMA ReadNothing ==
    ASSUME NEW r \in RegFile, NEW p \in Marks
    PROVE  ReadSrc(r, p, {}) = r
BY DEF ReadSrc, Materialize, RegFile

\* An operand read through its source register, after the rows of dest.
LEMMA SourceFacts ==
    ASSUME NEW r \in RegFile, NEW p \in Marks, NEW R \in SUBSET Depth,
           NEW C \in SUBSET Depth, R \subseteq C, NEW dest \in Dests, NEW c \in R
    PROVE  DestFile(ReadSrc(r, p, R), Clear(p, C), dest)[SrcReg(p, c)] = Denote(r, p, c)
<1> DEFINE read == ReadSrc(r, p, R)
           left == Clear(p, C)
<1>1. read \in RegFile /\ left \in Marks /\ left[c] = NotPending /\ c \in Depth
  BY ReadFacts, ClearFacts
<1>2. read[SrcReg(p, c)] = Denote(r, p, c)  BY ReadFacts
<1>3. /\ \A i \in Local : DestFile(read, left, dest)[i] = read[i]
      /\ DestFile(read, left, dest)[StackSlot(c)] = read[StackSlot(c)]
    BY ValueAssumption, <1>1, DestFacts
<1>4. SrcReg(p, c) \in Local \/ SrcReg(p, c) = StackSlot(c)  BY <1>1, PendingFacts DEF SrcReg, Marks
<1>5. QED BY <1>2, <1>3, <1>4

\* Reading operands and clearing their marks keeps what the others stand for.
LEMMA ReadKeeps ==
    ASSUME NEW r \in RegFile, NEW p \in Marks, NEW R \in SUBSET Depth, NEW C,
           R \subseteq C
    PROVE  \A d \in Depth \ C :
               Denote(ReadSrc(r, p, R), Clear(p, C), d) = Denote(r, p, d)
<1>1. ASSUME NEW d \in Depth \ C
      PROVE  Denote(ReadSrc(r, p, R), Clear(p, C), d) = Denote(r, p, d)
    BY ClearFacts, ReadFacts, PendingFacts DEF Marks, Denote
<1>2. QED BY <1>1

\* Everything materialized: each stack slot's register holds its value.
LEMMA MaterializedFacts ==
    ASSUME NEW r \in RegFile, NEW p \in Marks
    PROVE  LET m == Materialize(r, p, Depth)
           IN  /\ m \in RegFile
               /\ \A i \in Local : m[i] = r[i]
               /\ \A d \in Depth : m[StackSlot(d)] = Denote(r, p, d)
BY MaterializeFacts

LEMMA NothingPendingFacts ==
    /\ NothingPending \in Marks
    /\ \A d \in Depth : NothingPending[d] = NotPending
    /\ \A r, d : d \in Depth => Denote(r, NothingPending, d) = r[StackSlot(d)]
<1>1. \A d \in Depth : NothingPending[d] = NotPending  BY DEF NothingPending
<1>2. NothingPending \in Marks  BY DEF NothingPending, Marks, Pending
<1>3. QED BY <1>1, <1>2, PendingFacts DEF Denote

\* The condition of a branch survives the materialization before it.
LEMMA ConditionFacts ==
    ASSUME NEW r \in RegFile, NEW p \in Marks, NEW c \in Depth
    PROVE  LET file == Materialize(ReadSrc(r, p, {c}), Clear(p, {c}), Depth)
           IN  /\ file \in RegFile
               /\ \A i \in Local : file[i] = r[i]
               /\ \A d \in Depth \ {c} : file[StackSlot(d)] = Denote(r, p, d)
               /\ file[SrcReg(p, c)] = Denote(r, p, c)
<1> DEFINE read == ReadSrc(r, p, {c})
           left == Clear(p, {c})
           file == Materialize(read, left, Depth)
<1>1. read \in RegFile /\ left \in Marks /\ {c} \in SUBSET Depth  BY ReadFacts, ClearFacts
<1>2. /\ file \in RegFile
      /\ \A i \in Local : file[i] = read[i]
      /\ \A d \in Depth : file[StackSlot(d)] = Denote(read, left, d)
  BY <1>1, MaterializedFacts
<1>3. \A i \in Local : file[i] = r[i]  BY <1>1, <1>2, ReadFacts
<1>4. \A d \in Depth \ {c} : file[StackSlot(d)] = Denote(r, p, d)
  <2>1. {c} \in SUBSET Depth /\ {c} \subseteq {c}  OBVIOUS
  <2>2. \A d \in Depth \ {c} : Denote(read, left, d) = Denote(r, p, d)  BY <2>1, ReadKeeps
  <2>3. QED BY <2>2, <1>2
<1>5. file[SrcReg(p, c)] = Denote(r, p, c)
  <2>1. read[SrcReg(p, c)] = Denote(r, p, c)  BY <1>1, ReadFacts
  <2>2. left[c] = NotPending  BY ClearFacts
  <2>3. CASE p[c].kind = "local"  BY <2>3, PendingFacts, <2>1, <1>2 DEF SrcReg, Marks
  <2>4. CASE p[c].kind # "local"  BY <2>4, <1>2, <2>2, PendingFacts, <2>1 DEF SrcReg, Denote
  <2>5. QED BY <2>3, <2>4
<1>6. QED BY <1>2, <1>3, <1>4, <1>5

-----------------------------------------------------------------------------
(* Steps of the lowered function *)

\* What the invariant says of an operand.
LEMMA OperandFacts ==
    ASSUME IInv, AtOperator
    PROVE  /\ regs \in RegFile /\ pending \in Marks
           /\ 0 .. height - 1 \subseteq Depth
           /\ \A d \in 0 .. height - 1 :
                 Denote(regs, pending, d) = stack[d] /\ stack[d] \in Value
<1>1. regs \in RegFile /\ pending \in Marks /\ height \in 0 .. MaxHeight
  BY DEF IInv, TypeOK, RegFile, Marks
<1>2. 0 .. height - 1 \subseteq Depth  BY <1>1, BoundsAssumption DEF Depth
<1>3. Unmoved = 0 .. height - 1  BY DEF Unmoved, AtOperator
<1>4. QED BY <1>1, <1>2, <1>3 DEF IInv, Simulation, TypeOK

\* Depths below a result at depth d, in a stack of height k at most d + 1.
LEMMA BelowTop ==
    ASSUME NEW h \in Int, NEW k \in Int, NEW d \in Int, NEW m \in Int,
           k <= d + 1, d <= h, h <= m
    PROVE  \A e \in 0 .. k - 1 : e # d =>
               e \in 0 .. h - 1 /\ e \notin d .. h - 1 /\ e \in 0 .. m - 1
OBVIOUS

\* An operator with a result.
LEMMA ProduceStep ==
    ASSUME IInv, AtOperator,
           NEW d \in Depth, d \in 0 .. height,
           NEW R \in SUBSET (d .. height - 1),
           NEW dest \in Dests, NEW v \in Value,
           regs' = DestResult(ReadSrc(regs, pending, R),
                              Clear(pending, d .. height - 1), d, dest, v),
           pending' = DestPending(Clear(pending, d .. height - 1), d, dest),
           looked' \in BOOLEAN,
           Push(d, v, dest),
           UNCHANGED <<ram, memory>>, Straight
    PROVE  IInv'
<1> DEFINE C    == d .. height - 1
           read == ReadSrc(regs, pending, R)
           left == Clear(pending, C)
<1>0. MaxHeight \in Nat /\ height \in 0 .. MaxHeight  BY BoundsAssumption DEF IInv, TypeOK
<1>1. /\ height \in 0 .. MaxHeight /\ regs \in RegFile /\ pending \in Marks
      /\ C \in SUBSET Depth /\ R \in SUBSET Depth /\ R \subseteq C
    BY <1>0, OperandFacts DEF Depth
<1>2. read \in RegFile /\ left \in Marks  BY <1>1, ReadFacts, ClearFacts
<1>3. left[d] = NotPending  BY <1>1, ClearFacts DEF Depth, IInv, NoStaleMark
<1>4. \A e \in Depth : e > d => left[e] = NotPending
    BY <1>0, <1>1, ClearFacts DEF Depth, IInv, NoStaleMark
<1>5. /\ regs' \in RegFile /\ pending' \in Marks
      /\ \A i \in Local : regs'[i] = IF dest # InSlot /\ dest.local = i THEN v ELSE regs[i]
      /\ \A e \in Depth \ {d} : Denote(regs', pending', e) = Denote(read, left, e)
      /\ ~(dest # InSlot /\ dest.kind = "set") => Denote(regs', pending', d) = v
      /\ \A e \in Depth \ {d} : left[e] = NotPending => pending'[e] = NotPending
      /\ dest # InSlot /\ dest.kind = "set" => pending'[d] = NotPending
    BY <1>1, ReadFacts, <1>2, <1>3, DestFacts
<1>6. /\ height' = IF dest # InSlot /\ dest.kind = "set" THEN d ELSE d + 1
      /\ stack' = [e \in 0 .. height' - 1 |-> IF e = d THEN v ELSE stack[e]]
      /\ locals' = IF dest = InSlot THEN locals ELSE [locals EXCEPT ![dest.local] = v]
  BY DEF Push
<1>7. height' \in 0 .. MaxHeight /\ height' \in d .. d + 1  BY <1>0, <1>6 DEF Depth
<1>8. \A e \in 0 .. height' - 1 : e # d => e \in 0 .. height - 1 /\ e \notin C /\ e \in Depth
  <2>1. /\ d \in Int /\ height \in Int /\ height' \in Int /\ MaxHeight \in Int
        /\ height' <= d + 1 /\ d <= height /\ height <= MaxHeight
    BY <1>0, <1>7 DEF Depth
  <2>2. QED BY <2>1, BelowTop DEF Depth
<1>9. stack' \in [0 .. height' - 1 -> Value]  BY <1>6, <1>8, OperandFacts
<1>10. locals' \in [Local -> Value]  BY <1>6 DEF IInv, TypeOK
<1>11. TypeOK'  BY <1>5, <1>7, <1>9, <1>10 DEF IInv, TypeOK, Straight, RegFile, Marks
<1>12. NoStaleMark'
  <2>1. ASSUME NEW e \in Depth, e >= height'
        PROVE  pending'[e] = NotPending
    <3>1. CASE e = d  BY <3>1, <2>1, <1>0, <1>5, <1>6 DEF Depth
    <3>2. CASE e # d  BY <3>2, <2>1, <1>0, <1>4, <1>5, <1>7 DEF Depth
    <3>3. QED BY <3>1, <3>2
  <2>2. QED BY <2>1 DEF NoStaleMark
<1>13. MoveOk'  BY DEF MoveOk, Straight, AtOperator
<1>14. \A e \in 0 .. height' - 1 : Denote(regs', pending', e) = stack'[e]
  <2>1. ASSUME NEW e, e \in 0 .. height' - 1
        PROVE  Denote(regs', pending', e) = stack'[e]
    <3>1. CASE e = d  BY <3>1, <2>1, <1>0, <1>5, <1>6, <1>7 DEF Depth
    <3>2. CASE e # d  BY <3>2, <2>1, <1>5, <1>8, <1>1, ReadKeeps, <1>6, OperandFacts
    <3>3. QED BY <3>1, <3>2
  <2>2. QED BY <2>1
<1>15. \A i \in Local : regs'[i] = locals'[i]  BY <1>5, <1>6 DEF IInv, Simulation, TypeOK
<1>16. Simulation'  BY <1>14, <1>15 DEF IInv, Simulation, Straight, AtOperator, Unmoved
<1>17. QED BY <1>11, <1>12, <1>13, <1>16 DEF IInv

\* An operator that only marks the new top: a constant or a copy of a local.
LEMMA ForwardStep ==
    ASSUME IInv, AtOperator, height < MaxHeight,
           NEW mark \in Pending, NEW v \in Value,
           mark = Imm(v) \/ \E i \in Local : mark = Alias(i) /\ v = locals[i],
           pending' = [pending EXCEPT ![height] = mark],
           looked' = FALSE,
           Push(height, v, InSlot),
           UNCHANGED <<regs, ram, memory>>, Straight
    PROVE  IInv'
<1>1. /\ height \in Int /\ 0 <= height /\ height < MaxHeight /\ MaxHeight \in Int
      /\ height \in Depth
      /\ regs \in RegFile /\ pending \in Marks
  BY BoundsAssumption, OperandFacts DEF IInv, TypeOK, Depth
<1>2. /\ height' = height + 1
      /\ stack' = [e \in 0 .. height |-> IF e = height THEN v ELSE stack[e]]
      /\ locals' = locals
  BY <1>1 DEF Push
<1>3. \A e \in Depth : pending'[e] = IF e = height THEN mark ELSE pending[e]  BY <1>1 DEF Marks
<1>4. pending' \in Marks  BY <1>1 DEF Marks
<1>5. Denote(regs, pending', height) = v  BY <1>1, <1>3, PendingFacts DEF IInv, Simulation, Denote
<1>6. ASSUME NEW e \in 0 .. height - 1
      PROVE  Denote(regs, pending', e) = stack[e]
    BY <1>1, OperandFacts, <1>3 DEF Denote
<1>7. stack' \in [0 .. height -> Value]  BY <1>1, <1>2, OperandFacts
<1>8. TypeOK'
  <2>1. height' \in 0 .. MaxHeight /\ height' - 1 = height  BY <1>1, <1>2
  <2>2. QED BY <2>1, <1>2, <1>4, <1>7 DEF IInv, TypeOK, Straight, Marks
<1>9. NoStaleMark'  BY <1>1, <1>3, <1>2 DEF Depth, IInv, NoStaleMark
<1>10. MoveOk' /\ Unmoved' = 0 .. height  BY <1>1, <1>2 DEF MoveOk, Straight, AtOperator, Unmoved
<1>11. ASSUME NEW e \in 0 .. height
       PROVE  Denote(regs, pending', e) = stack'[e]
  <2>1. CASE e = height  BY <2>1, <1>1, <1>2, <1>5
  <2>2. CASE e # height
    <3>1. e \in 0 .. height - 1  BY <2>2, <1>1
    <3>2. stack'[e] = stack[e]  BY <2>2, <1>2
    <3>3. QED BY <3>1, <3>2, <1>6
  <2>3. QED BY <2>1, <2>2
<1>12. Simulation'  BY <1>2, <1>10, <1>11 DEF IInv, Simulation, Straight, AtOperator
<1>13. QED BY <1>8, <1>9, <1>10, <1>12 DEF IInv

\* An operator that consumes its operands: the top n values.
LEMMA ConsumeStep ==
    ASSUME IInv, AtOperator,
           NEW n \in 1 .. height, NEW R \in SUBSET (height - n .. height - 1),
           regs' = ReadSrc(regs, pending, R),
           pending' = Clear(pending, height - n .. height - 1),
           looked' = FALSE,
           Pop(n),
           ram' = memory', memory' \in [Value -> Value],
           UNCHANGED locals, Straight
    PROVE  IInv'
<1> DEFINE C == height - n .. height - 1
           k == height - n
<1>1. /\ height \in Int /\ n \in Int /\ 1 <= n /\ n <= height
      /\ height <= MaxHeight /\ MaxHeight \in Int
      /\ regs \in RegFile /\ pending \in Marks
  BY BoundsAssumption, OperandFacts DEF IInv, TypeOK
<1>2. R \subseteq C /\ C \subseteq 0 .. height - 1  BY <1>1
<1>3. R \in SUBSET Depth  BY <1>2, OperandFacts
<1>4. height' = k /\ stack' = [e \in 0 .. k - 1 |-> stack[e]]  BY DEF Pop
<1>5. /\ regs' \in RegFile /\ pending' \in Marks
      /\ \A i \in Local : regs'[i] = regs[i]
  BY <1>1, <1>3, ReadFacts, ClearFacts
<1>6. \A e \in 0 .. k - 1 : e \in 0 .. height - 1 /\ e \notin C  BY <1>1
<1>7. ASSUME NEW e \in 0 .. k - 1
      PROVE  Denote(regs', pending', e) = stack'[e]
    BY <1>6, OperandFacts, <1>1, <1>2, <1>3, ReadKeeps, <1>4
<1>8. TypeOK'
  <2>1. stack' \in [0 .. k - 1 -> Value] /\ k \in 0 .. MaxHeight  BY <1>1, <1>4, <1>6, OperandFacts
  <2>2. QED BY <2>1, <1>4, <1>5 DEF IInv, TypeOK, Straight, RegFile, Marks
<1>9. NoStaleMark'  BY <1>1, ClearFacts, <1>4 DEF Depth, IInv, NoStaleMark
<1>10. MoveOk' /\ Unmoved' = 0 .. k - 1  BY <1>4 DEF MoveOk, Straight, AtOperator, Unmoved
<1>11. Simulation'  BY <1>5, <1>7, <1>10 DEF IInv, Simulation, Straight, AtOperator
<1>12. QED BY <1>8, <1>9, <1>10, <1>11 DEF IInv

\* A block boundary or a branch: the marks are gone, the values in registers.
LEMMA MaterializeStep ==
    ASSUME IInv, AtOperator,
           NEW k \in 0 .. height,
           \A i \in Local : regs'[i] = regs[i],
           \A d \in 0 .. k - 1 : regs'[StackSlot(d)] = stack[d],
           regs' \in RegFile,
           pending' = NothingPending, looked' = FALSE,
           height' = k, stack' = [e \in 0 .. k - 1 |-> stack[e]],
           labels' \in Seq(Label),
           agree' = TRUE,
           \/ moving' = moving
           \/ \E d \in 0 .. Len(labels') - 1 :
                 /\ labels' = labels
                 /\ BranchOk(d, k)
                 /\ StartBranch(d, k),
           UNCHANGED <<locals, memory, ram>>
    PROVE  IInv'
<1>1. /\ height \in Int /\ k \in Int /\ 0 <= k /\ k <= height
      /\ height <= MaxHeight /\ MaxHeight \in Int
      /\ pending' \in Marks
  BY BoundsAssumption, NothingPendingFacts DEF IInv, TypeOK
<1>2. \A e \in 0 .. k - 1 : e \in 0 .. height - 1 /\ e \in Depth  BY <1>1 DEF Depth
<1>3. ASSUME NEW e \in 0 .. k - 1
      PROVE  Denote(regs', pending', e) = stack'[e] /\ stack'[e] = stack[e]
                 /\ stack[e] \in Value
  BY <1>2, NothingPendingFacts, OperandFacts
<1>4. stack' \in [0 .. k - 1 -> Value] /\ k \in 0 .. MaxHeight  BY <1>1, <1>3
<1>5. NoStaleMark'  BY NothingPendingFacts DEF NoStaleMark
<1>6. CASE moving' = moving
  <2>1. TypeOK'  BY <1>1, <1>4, <1>6 DEF IInv, TypeOK, RegFile, Marks
  <2>2. MoveOk' /\ Unmoved' = 0 .. k - 1  BY <1>6 DEF MoveOk, AtOperator, Unmoved
  <2>3. Simulation'  BY <2>2, <1>3, <1>6 DEF IInv, Simulation, AtOperator
  <2>4. QED BY <2>1, <2>2, <2>3, <1>5 DEF IInv
<1>7. ASSUME NEW d \in 0 .. Len(labels') - 1,
             labels' = labels, BranchOk(d, k), StartBranch(d, k)
      PROVE  IInv'
  <2> DEFINE l == LabelAt(d)
             n == Arity(l)
             b == l.base
             m == IF k - n = b THEN n ELSE 0
  <2>1. Len(labels) \in Nat /\ d \in Nat /\ d < Len(labels) /\ l \in Label
      BY <1>7 DEF IInv, TypeOK, BranchOk, LabelAt
  <2>2. n \in Nat /\ b \in 0 .. MaxHeight /\ b + n <= k  BY <2>1, <1>7 DEF Label, Arity, BranchOk
  <2>3. m \in Nat /\ m <= n  BY <2>2
  <2>4. moving' = [on |-> TRUE, depth |-> d, base |-> b, n |-> n, k |-> m]  BY <1>7 DEF StartBranch
  <2>5. moving' \in Moves  BY <2>1, <2>2, <2>3, <2>4 DEF Moves
  <2>6. TypeOK'  BY <1>1, <1>4, <2>5 DEF IInv, TypeOK, RegFile, Marks
  <2>7. MoveOk'  BY <2>1, <2>2, <2>3, <2>4, <1>7 DEF NothingPending, MoveOk
  <2>8. \A e \in Unmoved' : Denote(regs', pending', e) = stack'[e]  BY <1>3 DEF Unmoved
  <2>9. ASSUME NEW j \in 0 .. m - 1
        PROVE  regs'[StackSlot(b + j)] = stack'[k - n + j]
    <3>1. k - n = b /\ m = n  BY <2>3
    <3>2. b + j \in 0 .. k - 1 /\ k - n + j = b + j  BY <3>1, <2>2, <1>1
    <3>3. QED BY <3>2, <1>3
  <2>10. Simulation'  BY <2>4, <2>8, <2>9 DEF IInv, Simulation
  <2>11. QED BY <2>6, <2>7, <2>10, <1>5 DEF IInv
<1>8. QED BY <1>6, <1>7

\* The copy rows under way stay inside the stack.
LEMMA MovingFacts ==
    ASSUME IInv, moving.on
    PROVE  /\ moving \in Moves
           /\ moving.n \in Nat /\ moving.k \in Nat /\ moving.base \in Nat
           /\ moving.depth \in Nat /\ height \in Nat /\ MaxHeight \in Nat
           /\ moving.k <= moving.n /\ moving.base + moving.n <= height
           /\ height <= MaxHeight
           /\ pending = NothingPending /\ moving.depth < Len(labels)
<1>1. moving \in Moves  BY DEF IInv, TypeOK, NoMove
<1>2. MaxHeight \in Nat /\ height \in 0 .. MaxHeight  BY BoundsAssumption DEF IInv, TypeOK
<1>3. /\ moving.n \in Nat /\ moving.k \in Nat /\ moving.base \in Nat
      /\ moving.depth \in Nat
  BY <1>1, <1>2 DEF Moves
<1>4. QED BY <1>1, <1>2, <1>3 DEF IInv, MoveOk

\* One copy row: its source is not overwritten yet, its target no longer read.
LEMMA MoveRowStep ==
    ASSUME IInv, MoveRow
    PROVE  IInv'
<1> DEFINE n == moving.n
           k == moving.k
           b == moving.base
           from == height - n + k
           to   == b + k
<1>1. /\ moving \in Moves /\ moving.on
      /\ n \in Int /\ k \in Int /\ b \in Int /\ height \in Int /\ MaxHeight \in Int
      /\ 0 <= n /\ 0 <= k /\ 0 <= b /\ k < n /\ b + n <= height /\ height <= MaxHeight
      /\ regs \in RegFile
    BY MovingFacts DEF MoveRow, IInv, TypeOK, RegFile
<1>2. /\ from \in 0 .. height - 1 /\ to \in 0 .. height - 1 /\ to <= from
      /\ from \in Depth /\ to \in Depth
  BY <1>1 DEF Depth
<1>3. /\ regs' = [regs EXCEPT ![StackSlot(to)] = regs[StackSlot(from)]]
      /\ moving' = [moving EXCEPT !.k = k + 1]
      /\ UNCHANGED <<frame, ram, pending, looked, agree>>
  BY DEF MoveRow
<1>4. /\ moving' \in Moves /\ moving'.on = TRUE /\ moving'.depth = moving.depth
      /\ moving'.base = b /\ moving'.n = n /\ moving'.k = k + 1
  <2>1. k + 1 \in Nat  BY <1>1
  <2>2. QED BY <1>1, <1>3, <2>1 DEF Moves
<1>5. /\ regs' \in RegFile
      /\ \A i \in Local : regs'[i] = regs[i]
      /\ \A d \in Depth : regs'[StackSlot(d)] =
             IF d = to THEN regs[StackSlot(from)] ELSE regs[StackSlot(d)]
  BY <1>1, <1>2, <1>3, SlotFacts DEF RegFile
<1>6. pending = NothingPending  BY <1>1 DEF IInv, MoveOk
<1>7. \A d \in Unmoved : d \in 0 .. height - 1 /\ d \in Depth /\ regs[StackSlot(d)] = stack[d]
    BY <1>1, <1>6, NothingPendingFacts DEF Unmoved, Depth, IInv, Simulation
<1>8. from \in Unmoved  BY <1>1, <1>2 DEF Unmoved
<1>9. Unmoved' = {d \in 0 .. height - 1 : d < b \/ d >= from + 1}
  BY <1>1, <1>3, <1>4 DEF Unmoved, frame
<1>10. \A d \in Unmoved' : d \in Unmoved /\ d # to  BY <1>1, <1>2, <1>9 DEF Unmoved
<1>11. TypeOK'  BY <1>3, <1>4, <1>5 DEF IInv, TypeOK, frame, RegFile
<1>12. MoveOk'  BY <1>1, <1>3, <1>4 DEF NothingPending, IInv, MoveOk, frame
<1>13. ASSUME NEW d, d \in Unmoved'
       PROVE  Denote(regs', pending', d) = stack'[d]
  <2>1. Denote(regs', pending', d) = regs'[StackSlot(d)]
    BY <1>3, <1>6, <1>7, <1>10, <1>13, NothingPendingFacts
  <2>2. regs'[StackSlot(d)] = stack[d]  BY <1>5, <1>7, <1>10, <1>13
  <2>3. QED BY <2>1, <2>2, <1>3 DEF frame
<1>14. ASSUME NEW j \in 0 .. k
       PROVE  regs'[StackSlot(b + j)] = stack[height - n + j]
  <2>1. b + j \in Depth  BY <1>1 DEF Depth
  <2>2. CASE j = k  BY <2>1, <2>2, <1>5, <1>7, <1>8
  <2>3. CASE j # k  BY <2>3, <1>1, <2>1, <1>5 DEF IInv, Simulation
  <2>4. QED BY <2>2, <2>3
<1>15. Simulation'
  <2>1. /\ agree' /\ ram' = memory'
        /\ \A i \in Local : regs'[i] = locals'[i]
    BY <1>3, <1>5 DEF IInv, Simulation, frame
  <2>2. moving'.k - 1 = k /\ height' = height /\ stack' = stack  BY <1>1, <1>3, <1>4 DEF frame
  <2>3. \A j \in 0 .. moving'.k - 1 :
           regs'[StackSlot(moving'.base + j)] = stack'[height' - moving'.n + j]
    BY <1>4, <1>14, <2>2
  <2>4. QED BY <1>13, <2>1, <2>3 DEF Simulation
<1>16. NoStaleMark'  BY <1>3 DEF IInv, NoStaleMark, frame
<1>17. QED BY <1>11, <1>12, <1>15, <1>16 DEF IInv

\* The jump: the moved values are the new top of the stack.
LEMMA JumpStep ==
    ASSUME IInv, Jump
    PROVE  IInv'
<1> DEFINE n == moving.n
           b == moving.base
           kept == Len(labels) - moving.depth
           m == IF LabelAt(moving.depth).kind = "loop" THEN kept ELSE kept - 1
<1>1. /\ moving \in Moves /\ moving.on /\ moving.k = n
      /\ n \in Int /\ b \in Int /\ height \in Int /\ MaxHeight \in Int
      /\ 0 <= n /\ 0 <= b /\ b + n <= height /\ height <= MaxHeight
      /\ pending = NothingPending
      /\ labels \in Seq(Label) /\ moving.depth \in Nat /\ moving.depth < Len(labels)
    BY MovingFacts DEF Jump, IInv, TypeOK
<1>2. /\ labels' = SubSeq(labels, 1, m)
      /\ height' = b + n
      /\ stack' = [e \in 0 .. b + n - 1 |->
                     IF e < b THEN stack[e] ELSE stack[height - n + e - b]]
      /\ moving' = NoMove
      /\ UNCHANGED <<locals, memory, regs, ram, pending, looked, agree>>
  BY DEF Jump
<1>3. labels' \in Seq(Label)
  <2>1. Len(labels) \in Nat /\ kept \in 1 .. Len(labels)  BY <1>1
  <2>2. m \in 0 .. Len(labels)  BY <2>1
  <2>3. \A i \in 1 .. m : labels[i] \in Label  BY <2>1, <2>2, <1>1
  <2>4. QED BY <1>2, <2>2, <2>3
<1>4. ASSUME NEW e \in 0 .. b + n - 1
      PROVE  /\ stack'[e] \in Value
             /\ Denote(regs, pending, e) = stack'[e]
  <2>1. e \in Depth /\ Denote(regs, pending, e) = regs[StackSlot(e)]
    BY <1>1, NothingPendingFacts DEF Depth
  <2>2. CASE e < b  BY <2>2, <1>1, <1>2 DEF Unmoved, IInv, Simulation, TypeOK
  <2>3. CASE ~(e < b)
    <3>1. /\ e - b \in 0 .. n - 1 /\ b + (e - b) = e
          /\ height - n + (e - b) = height - n + e - b
          /\ height - n + e - b \in 0 .. height - 1
      <4>1. e \in Int /\ b <= e /\ e <= b + n - 1  BY <2>3, <1>1
      <4>2. e - b \in 0 .. n - 1 /\ b + (e - b) = e  BY <4>1, <1>1
      <4>3. height - n + (e - b) = height - n + e - b  BY <4>1, <1>1
      <4>4. height - n + e - b \in 0 .. height - 1  BY <4>1, <1>1
      <4>5. QED BY <4>2, <4>3, <4>4
    <3>2. regs[StackSlot(e)] = stack[height - n + e - b]  BY <3>1, <1>1 DEF IInv, Simulation
    <3>3. stack'[e] = stack[height - n + e - b] /\ stack[height - n + e - b] \in Value
      BY <2>3, <3>1, <1>2 DEF IInv, TypeOK
    <3>4. QED BY <2>1, <3>2, <3>3
  <2>4. QED BY <2>2, <2>3
<1>5. TypeOK'
  <2>1. stack' \in [0 .. b + n - 1 -> Value] /\ b + n \in 0 .. MaxHeight  BY <1>1, <1>2, <1>4
  <2>2. /\ height' \in 0 .. MaxHeight /\ stack' \in [0 .. height' - 1 -> Value]
    <3>1. height' = b + n  BY <1>2
    <3>2. ASSUME NEW h \in Int, h = b + n
          PROVE  h \in 0 .. MaxHeight /\ stack' \in [0 .. h - 1 -> Value]
      BY <1>1, <2>1, <3>2
    <3>3. b + n \in Int  BY <1>1
    <3>4. QED BY <3>1, <3>2, <3>3
  <2>3. /\ locals' \in [Local -> Value] /\ memory' \in [Value -> Value]
        /\ regs' \in [Slot -> Value] /\ ram' \in [Value -> Value]
        /\ pending' \in [Depth -> Pending] /\ looked' \in BOOLEAN
        /\ moving' \in {NoMove} \cup Moves /\ agree' \in BOOLEAN
    BY <1>2 DEF IInv, TypeOK
  <2>4. QED BY <2>2, <2>3, <1>3 DEF TypeOK
<1>6. NoStaleMark' /\ MoveOk' /\ Unmoved' = 0 .. b + n - 1
  BY <1>1, <1>2, NothingPendingFacts DEF NoStaleMark, MoveOk, NoMove, Unmoved
<1>7. Simulation'  BY <1>2, <1>4, <1>6 DEF IInv, Simulation, NoMove
<1>8. QED BY <1>5, <1>6, <1>7 DEF IInv

-----------------------------------------------------------------------------
(* Each action preserves the invariant *)

LEMMA InitStep ==
    ASSUME Init
    PROVE  IInv
<1>1. /\ height = 0 /\ stack = [d \in {} |-> Zero]
      /\ regs \in RegFile /\ \A i \in Local : regs[i] = locals[i]
      /\ pending = [d \in Depth |-> NotPending] /\ moving = NoMove /\ moving.on = FALSE
      /\ labels = <<>> /\ looked = FALSE /\ agree = TRUE
      /\ ram = memory /\ memory \in [Value -> Value] /\ locals \in [Local -> Value]
  BY DEF Init, NoMove, RegFile
<1>2. MaxHeight \in Nat /\ 0 .. height - 1 = {}  BY <1>1, BoundsAssumption
<1>3. TypeOK
  <2>1. stack \in [0 .. height - 1 -> Value] /\ height \in 0 .. MaxHeight  BY <1>1, <1>2
  <2>2. pending \in [Depth -> Pending] /\ labels \in Seq(Label)  BY <1>1 DEF Pending
  <2>3. QED BY <2>1, <2>2, <1>1 DEF TypeOK, RegFile
<1>4. NoStaleMark /\ MoveOk /\ Unmoved = {}  BY <1>1, <1>2 DEF NoStaleMark, MoveOk, Unmoved
<1>5. Simulation  BY <1>1, <1>4 DEF Simulation
<1>6. QED BY <1>3, <1>4, <1>5 DEF IInv

LEMMA ConstStep == ASSUME IInv, NEW v \in Value, Const(v) PROVE IInv'
<1>1. Imm(v) \in Pending  BY DEF Pending
<1>2. QED BY <1>1, ForwardStep DEF Const

LEMMA LocalGetStep == ASSUME IInv, NEW i \in Local, LocalGet(i) PROVE IInv'
<1>1. Alias(i) \in Pending /\ locals[i] \in Value  BY DEF Pending, IInv, TypeOK
<1>2. QED BY <1>1, ForwardStep DEF LocalGet

LEMMA DropStep == ASSUME IInv, Drop PROVE IInv'
<1>1. /\ AtOperator /\ height \in Nat /\ 1 \in 1 .. height
      /\ height - 1 .. height - 1 = {height - 1}
      /\ regs \in RegFile /\ pending \in Marks
  BY OperandFacts DEF Drop, IInv, TypeOK
<1>2. ReadSrc(regs, pending, {}) = regs  BY <1>1, ReadNothing
<1>3. ram' = memory' /\ memory' \in [Value -> Value]  BY DEF Drop, IInv, TypeOK, Simulation
<1>4. {} \in SUBSET (height - 1 .. height - 1)  OBVIOUS
<1>5. QED BY <1>1, <1>2, <1>3, <1>4, ConsumeStep DEF Drop

LEMMA UnaryOpStep == ASSUME IInv, NEW dest \in Dests, UnaryOp(dest) PROVE IInv'
<1> DEFINE d    == height - 1
           a    == SrcReg(pending, d)
           left == Clear(pending, {d})
           read == ReadSrc(regs, pending, {d})
           v    == Unary[stack[d]]
<1>1. /\ AtOperator /\ d \in 0 .. height - 1 /\ d \in 0 .. height /\ d \in Depth
      /\ d .. height - 1 = {d} /\ {d} \in SUBSET Depth
      /\ regs \in RegFile /\ pending \in Marks
  BY OperandFacts DEF UnaryOp, IInv, TypeOK
<1>2. stack[d] \in Value /\ v \in Value  BY <1>1, OperandFacts, ValueAssumption
<1>3. DestFile(read, left, dest)[a] = stack[d]  BY <1>1, SourceFacts, OperandFacts
<1>4. regs' = DestResult(read, left, d, dest, v)  BY <1>3 DEF UnaryOp, DestResult
<1>5. QED BY <1>1, <1>2, <1>4, ProduceStep DEF UnaryOp, Straight

LEMMA LocalWriteStep == ASSUME IInv, NEW dest \in Dests, LocalWrite(dest) PROVE IInv'
<1> DEFINE d     == height - 1
           taken == Clear(pending, {d})
           saved == DestFile(regs, taken, dest)
           v     == stack[d]
<1>1. /\ AtOperator /\ dest # InSlot
      /\ d \in 0 .. height - 1 /\ d \in 0 .. height /\ d \in Depth
      /\ d .. height - 1 = {d}
      /\ regs \in RegFile /\ pending \in Marks
  BY OperandFacts DEF LocalWrite, IInv, TypeOK
<1>2. v \in Value /\ Denote(regs, pending, d) = v  BY <1>1, OperandFacts
<1>3. taken \in Marks /\ taken[d] = NotPending  BY <1>1, ClearFacts
<1>4. /\ \A i \in Local : saved[i] = regs[i]
      /\ saved[StackSlot(d)] = regs[StackSlot(d)]
  BY <1>1, <1>2, <1>3, DestFacts
<1>5. Denote(saved, pending, d) = Denote(regs, pending, d)  BY <1>1, <1>4, PendingFacts DEF Marks, Denote
<1>6. regs' = DestResult(ReadSrc(regs, pending, {}), taken, d, dest, v)
    BY <1>1, ReadNothing, <1>2, <1>5 DEF DestReg, LocalWrite, DestResult
<1>7. {} \in SUBSET (d .. height - 1)  OBVIOUS
<1>8. QED BY <1>1, <1>2, <1>6, <1>7, ProduceStep DEF LocalWrite, Straight

LEMMA LoadStep == ASSUME IInv, NEW dest \in Dests, Load(dest) PROVE IInv'
<1> DEFINE d    == height - 1
           a    == SrcReg(pending, d)
           left == Clear(pending, {d})
           read == ReadSrc(regs, pending, {d})
           v    == memory[stack[d]]
<1>1. /\ AtOperator /\ d \in 0 .. height - 1 /\ d \in 0 .. height /\ d \in Depth
      /\ d .. height - 1 = {d} /\ {d} \in SUBSET Depth
      /\ regs \in RegFile /\ pending \in Marks
  BY OperandFacts DEF Load, IInv, TypeOK
<1>2. stack[d] \in Value /\ v \in Value /\ ram = memory
  BY <1>1, OperandFacts DEF IInv, TypeOK, Simulation
<1>3. DestFile(read, left, dest)[a] = stack[d]  BY <1>1, SourceFacts, OperandFacts
<1>4. regs' = DestResult(read, left, d, dest, v)  BY <1>2, <1>3 DEF Load, DestResult
<1>5. QED BY <1>1, <1>2, <1>4, ProduceStep DEF Load, Straight

LEMMA GlobalGetStep ==
    ASSUME IInv, NEW g \in Value, NEW dest \in Dests, GlobalGet(g, dest) PROVE IInv'
<1> DEFINE d == height
           v == memory[g]
<1>1. /\ AtOperator /\ d \in 0 .. height /\ d \in Depth /\ d .. height - 1 = {}
      /\ regs \in RegFile /\ pending \in Marks
  BY BoundsAssumption, OperandFacts DEF GlobalGet, IInv, TypeOK, Depth
<1>2. v \in Value /\ ram = memory  BY DEF IInv, TypeOK, Simulation
<1>3. ReadSrc(regs, pending, {}) = regs /\ Clear(pending, {}) = pending
  BY <1>1, ReadNothing DEF Clear, Marks
<1>4. regs' = DestResult(regs, pending, d, dest, v)  BY <1>2 DEF GlobalGet, DestResult
<1>5. {} \in SUBSET (d .. height - 1)  OBVIOUS
<1>6. QED BY <1>1, <1>2, <1>3, <1>4, <1>5, ProduceStep DEF GlobalGet, Straight

LEMMA BinaryOpStep ==
    ASSUME IInv, NEW immediate \in BOOLEAN, NEW dest \in Dests,
           BinaryOp(immediate, dest)
    PROVE  IInv'
<1> DEFINE d     == height - 2
           e     == height - 1
           a     == SrcReg(pending, d)
           b     == SrcReg(pending, e)
           asImm == immediate /\ pending[e].kind = "const"
           R     == IF asImm THEN {d} ELSE {d, e}
           left  == Clear(pending, {d, e})
           read  == ReadSrc(regs, pending, R)
           file  == DestFile(read, left, dest)
           rhs   == IF asImm THEN pending[e].imm ELSE file[b]
           v     == Binary[<<stack[d], stack[e]>>]
<1>1. /\ AtOperator /\ height \in Int /\ height > 1
      /\ d \in 0 .. height - 1 /\ e \in 0 .. height - 1 /\ d \in 0 .. height
      /\ d \in Depth /\ e \in Depth /\ d + 1 = e
      /\ d .. height - 1 = {d, e}
      /\ R \in SUBSET Depth /\ {d, e} \in SUBSET Depth /\ R \subseteq {d, e}
      /\ regs \in RegFile /\ pending \in Marks
    BY OperandFacts DEF BinaryOp, IInv, TypeOK
<1>2. stack[d] \in Value /\ stack[e] \in Value /\ v \in Value  BY <1>1, OperandFacts, ValueAssumption
<1>3. file[a] = stack[d]  BY <1>1, SourceFacts, OperandFacts
<1>4. rhs = stack[e]
  <2>1. CASE asImm  BY <2>1, <1>1, OperandFacts DEF Denote
  <2>2. CASE ~asImm  BY <2>2, <1>1, SourceFacts, OperandFacts
  <2>3. QED BY <2>1, <2>2
<1>5. regs' = DestResult(read, left, d, dest, v)  BY <1>1, <1>3, <1>4 DEF BinaryOp, DestResult
<1>6. /\ pending' = DestPending(left, d, dest) /\ looked' \in BOOLEAN
      /\ Push(d, v, dest) /\ UNCHANGED <<ram, memory>> /\ Straight
  BY <1>1 DEF BinaryOp
<1>7. QED BY <1>1, <1>2, <1>5, <1>6, ProduceStep

LEMMA SelectStep == ASSUME IInv, Select PROVE IInv'
<1> DEFINE d     == height - 3
           ops   == {d, d + 1, d + 2}
           read  == ReadSrc(regs, pending, ops)
           left  == Clear(pending, ops)
           rd    == StackSlot(d)
           first == [read EXCEPT ![rd] = read[SrcReg(pending, d)]]
           cond  == first[SrcReg(pending, d + 2)]
           v     == IF stack[d + 2] # Zero THEN stack[d] ELSE stack[d + 1]
<1>1. /\ AtOperator /\ height \in Int /\ height > 2
      /\ ops \subseteq 0 .. height - 1 /\ d \in 0 .. height
      /\ ops \in SUBSET Depth /\ d \in ops /\ d + 1 \in ops /\ d + 2 \in ops
      /\ d # d + 1 /\ d # d + 2
      /\ d .. height - 1 = ops
      /\ regs \in RegFile /\ pending \in Marks
    BY OperandFacts DEF Select, IInv, TypeOK
<1>2. /\ read \in RegFile
      /\ \A c \in ops : /\ SrcReg(pending, c) \in Slot
                        /\ read[SrcReg(pending, c)] = stack[c]
                        /\ stack[c] \in Value
  BY <1>1, ReadFacts, OperandFacts
<1>3. \A c \in ops : c # d => SrcReg(pending, c) # rd
  <2>1. ASSUME NEW c \in ops, c # d
        PROVE  SrcReg(pending, c) # rd
      BY <1>1, PendingFacts, <2>1, SlotFacts DEF Marks, SrcReg
  <2>2. QED BY <2>1
<1>4. rd \in Slot /\ first = [read EXCEPT ![rd] = stack[d]]  BY <1>1, <1>2, SlotFacts
<1>5. cond = stack[d + 2] /\ first[SrcReg(pending, d + 1)] = stack[d + 1]
    BY <1>2, <1>3, <1>4, <1>1 DEF RegFile
<1>6. regs' = [read EXCEPT ![rd] = v]
  <2>1. regs' = IF cond # Zero THEN first
                ELSE [first EXCEPT ![rd] = first[SrcReg(pending, d + 1)]]
    BY DEF Select
  <2>2. CASE cond # Zero  BY <2>1, <2>2, <1>4, <1>5
  <2>3. CASE cond = Zero  BY <2>1, <2>3, <1>5, <1>2, <1>4 DEF RegFile
  <2>4. QED BY <2>2, <2>3
<1>7. /\ regs' = DestResult(read, left, d, InSlot, v)
      /\ left = DestPending(left, d, InSlot)
  BY <1>6 DEF DestResult, DestFile, DestReg, DestPending
<1>8. v \in Value /\ InSlot \in Dests  BY <1>1, <1>2 DEF Dests
<1>9. /\ pending' = left /\ looked' \in BOOLEAN /\ Push(d, v, InSlot)
      /\ UNCHANGED <<ram, memory>> /\ Straight
  BY DEF Select
<1>10. QED BY <1>1, <1>7, <1>8, <1>9, ProduceStep

LEMMA GlobalSetStep == ASSUME IInv, NEW g \in Value, GlobalSet(g) PROVE IInv'
<1> DEFINE d == height - 1
<1>1. /\ AtOperator /\ height \in Nat /\ 1 \in 1 .. height
      /\ d \in 0 .. height - 1 /\ d .. height - 1 = {d} /\ {d} \in SUBSET Depth
      /\ regs \in RegFile /\ pending \in Marks
  BY OperandFacts DEF GlobalSet, IInv, TypeOK
<1>2. regs'[SrcReg(pending, d)] = stack[d] /\ stack[d] \in Value
  BY <1>1, ReadFacts, OperandFacts DEF GlobalSet
<1>3. ram' = memory' /\ memory' \in [Value -> Value]
  BY <1>2 DEF GlobalSet, IInv, TypeOK, Simulation
<1>4. /\ regs' = ReadSrc(regs, pending, {d}) /\ pending' = Clear(pending, {d})
      /\ looked' = FALSE /\ Pop(1) /\ UNCHANGED locals /\ Straight
  BY DEF GlobalSet
<1>5. QED BY <1>1, <1>3, <1>4, ConsumeStep

LEMMA StoreStep == ASSUME IInv, Store PROVE IInv'
<1> DEFINE d == height - 2
           R == {d, d + 1}
<1>1. /\ AtOperator /\ height \in Nat /\ 2 \in 1 .. height
      /\ R \subseteq 0 .. height - 1 /\ d .. height - 1 = R /\ R \in SUBSET Depth
      /\ regs \in RegFile /\ pending \in Marks
    BY OperandFacts DEF Store, IInv, TypeOK
<1>2. /\ regs'[SrcReg(pending, d)] = stack[d] /\ stack[d] \in Value
      /\ regs'[SrcReg(pending, d + 1)] = stack[d + 1] /\ stack[d + 1] \in Value
  BY <1>1, ReadFacts, OperandFacts DEF Store
<1>3. ram' = memory' /\ memory' \in [Value -> Value]  BY <1>2 DEF Store, IInv, TypeOK, Simulation
<1>4. /\ regs' = ReadSrc(regs, pending, R) /\ pending' = Clear(pending, R)
      /\ looked' = FALSE /\ Pop(2) /\ UNCHANGED locals /\ Straight
  BY DEF Store
<1>5. QED BY <1>1, <1>3, <1>4, ConsumeStep

\* What every boundary without a condition writes.
LEMMA BoundaryFacts ==
    ASSUME IInv, AtOperator, regs' = MaterializeAll
    PROVE  /\ regs' \in RegFile
           /\ \A i \in Local : regs'[i] = regs[i]
           /\ \A d \in 0 .. height - 1 : regs'[StackSlot(d)] = stack[d]
           /\ height \in 0 .. height
           /\ stack = [e \in 0 .. height - 1 |-> stack[e]]
           /\ agree = TRUE
<1>1. regs \in RegFile /\ pending \in Marks /\ height \in Nat  BY OperandFacts DEF IInv, TypeOK
<1>2. /\ regs' \in RegFile /\ \A i \in Local : regs'[i] = regs[i]
      /\ \A d \in Depth : regs'[StackSlot(d)] = Denote(regs, pending, d)
  BY <1>1, MaterializedFacts DEF MaterializeAll
<1>3. \A d \in 0 .. height - 1 : regs'[StackSlot(d)] = stack[d]  BY <1>2, OperandFacts
<1>4. stack = [e \in 0 .. height - 1 |-> stack[e]] /\ agree = TRUE  BY DEF IInv, TypeOK, Simulation
<1>5. height \in 0 .. height  BY <1>1
<1>6. QED BY <1>2, <1>3, <1>4, <1>5

\* What every boundary with a condition writes, and reads.
LEMMA ConditionStep ==
    ASSUME IInv, AtOperator, height > 0,
           regs' = Materialize(ReadSrc(regs, pending, {height - 1}),
                               Clear(pending, {height - 1}), Depth),
           Pop(1)
    PROVE  /\ regs' \in RegFile
           /\ \A i \in Local : regs'[i] = regs[i]
           /\ \A d \in 0 .. height - 1 - 1 : regs'[StackSlot(d)] = stack[d]
           /\ regs'[SrcReg(pending, height - 1)] = stack[height - 1]
           /\ stack[height - 1] \in Value
           /\ height - 1 \in 0 .. height
           /\ height' = height - 1
           /\ stack' = [e \in 0 .. height - 1 - 1 |-> stack[e]]
           /\ agree = TRUE
<1>1. /\ height \in Nat /\ height - 1 \in 0 .. height - 1
      /\ \A d \in 0 .. height - 1 - 1 : d \in 0 .. height - 1 /\ d # height - 1
  BY DEF IInv, TypeOK
<1>2. height - 1 \in Depth /\ regs \in RegFile /\ pending \in Marks  BY <1>1, OperandFacts
<1>3. /\ regs' \in RegFile /\ \A i \in Local : regs'[i] = regs[i]
      /\ \A d \in Depth \ {height - 1} : regs'[StackSlot(d)] = Denote(regs, pending, d)
      /\ regs'[SrcReg(pending, height - 1)] = Denote(regs, pending, height - 1)
  BY <1>2, ConditionFacts
<1>4. \A d \in 0 .. height - 1 - 1 : regs'[StackSlot(d)] = stack[d]  BY <1>1, <1>3, OperandFacts
<1>5. agree = TRUE  BY DEF IInv, TypeOK, Simulation
<1>6. height' = height - 1 /\ stack' = [e \in 0 .. height - 1 - 1 |-> stack[e]]  BY DEF Pop
<1>7. /\ regs'[SrcReg(pending, height - 1)] = stack[height - 1]
      /\ stack[height - 1] \in Value
  BY <1>1, <1>3, OperandFacts
<1>8. height - 1 \in 0 .. height  BY <1>1
<1>9. QED BY <1>3, <1>4, <1>5, <1>6, <1>7, <1>8

\* Labels stay well formed.
LEMMA LabelsFacts ==
    ASSUME IInv
    PROVE  /\ Len(labels) \in Nat /\ labels \in Seq(Label)
           /\ \A l \in Label : Append(labels, l) \in Seq(Label)
           /\ Len(labels) > 0 => SubSeq(labels, 1, Len(labels) - 1) \in Seq(Label)
<1>1. labels \in Seq(Label) /\ Len(labels) \in Nat  BY DEF IInv, TypeOK
<1>2. Len(labels) > 0 => SubSeq(labels, 1, Len(labels) - 1) \in Seq(Label)  BY <1>1
<1>3. QED BY <1>1, <1>2

LEMMA EnterStep ==
    ASSUME IInv, NEW kind \in {"block", "loop"}, NEW sig \in Sigs, Enter(kind, sig)
    PROVE  IInv'
<1> DEFINE l == [kind |-> kind, base |-> height - sig.params,
                 params |-> sig.params, results |-> sig.results, hasElse |-> FALSE]
<1>1. AtOperator /\ height >= sig.params /\ regs' = MaterializeAll  BY DEF Enter
<1>2. sig.params \in Nat /\ sig.results \in Nat /\ height \in Nat /\ height <= MaxHeight
      /\ MaxHeight \in Nat
  BY BoundsAssumption DEF IInv, TypeOK
<1>3. l \in Label  BY <1>1, <1>2 DEF Label
<1>4. labels' \in Seq(Label)  BY <1>3, LabelsFacts DEF Enter
<1>5. /\ pending' = NothingPending /\ looked' = FALSE /\ height' = height
      /\ stack' = stack /\ agree' = agree /\ moving' = moving
      /\ UNCHANGED <<locals, memory, ram>>
  BY DEF Enter
<1>6. QED BY <1>1, <1>4, <1>5, BoundaryFacts, MaterializeStep

LEMMA LeaveStep == ASSUME IInv, BlockDone, Leave PROVE IInv'
<1>1. AtOperator /\ regs' = MaterializeAll  BY DEF BlockDone, Leave
<1>2. labels' \in Seq(Label)  BY LabelsFacts DEF BlockDone, Leave
<1>3. /\ pending' = NothingPending /\ looked' = FALSE /\ height' = height
      /\ stack' = stack /\ agree' = agree /\ moving' = moving
      /\ UNCHANGED <<locals, memory, ram>>
  BY DEF Leave
<1>4. QED BY <1>1, <1>2, <1>3, BoundaryFacts, MaterializeStep

LEMMA IfStep ==
    ASSUME IInv, NEW sig \in Sigs, NEW hasElse \in BOOLEAN, If(sig, hasElse)
    PROVE  IInv'
<1> DEFINE d    == height - 1
           zero == regs'[SrcReg(pending, d)] = Zero
           l    == [kind |-> IF zero THEN "else" ELSE "if",
                    base |-> height - 1 - sig.params,
                    params |-> sig.params, results |-> sig.results,
                    hasElse |-> hasElse]
<1>1. sig.params \in Nat /\ sig.results \in Nat /\ height \in Nat /\ height <= MaxHeight
      /\ MaxHeight \in Nat
  BY BoundsAssumption DEF IInv, TypeOK
<1>2. /\ AtOperator /\ height >= 1 + sig.params /\ Pop(1)
      /\ regs' = Materialize(ReadSrc(regs, pending, {d}), Clear(pending, {d}), Depth)
  BY DEF If
<1>3. height > 0  BY <1>1, <1>2
<1>4. /\ pending' = NothingPending /\ looked' = FALSE
      /\ labels' = IF zero /\ ~hasElse THEN labels ELSE Append(labels, l)
      /\ agree' = (agree /\ (zero <=> stack[d] = Zero))
      /\ UNCHANGED <<locals, memory, ram, moving>>
  BY DEF If
<1>5. l \in Label  BY <1>1, <1>2 DEF Label
<1>6. labels' \in Seq(Label)  BY <1>4, <1>5, LabelsFacts
<1>7. agree' = TRUE  BY <1>2, <1>3, <1>4, ConditionStep
<1>8. QED BY <1>2, <1>3, <1>4, <1>6, <1>7, ConditionStep, MaterializeStep

LEMMA BrStep == ASSUME IInv, NEW d \in LabelDepth, Br(d) PROVE IInv'
<1>1. /\ AtOperator /\ regs' = MaterializeAll /\ BranchOk(d, height)
      /\ StartBranch(d, height)
      /\ pending' = NothingPending /\ looked' = FALSE /\ height' = height
      /\ stack' = stack /\ agree' = agree /\ labels' = labels
      /\ UNCHANGED <<locals, memory, ram>>
  BY DEF Br, frame
<1>2. labels' \in Seq(Label) /\ d \in 0 .. Len(labels') - 1
  BY <1>1, LabelsFacts, BoundsAssumption DEF LabelDepth, BranchOk
<1>3. QED BY <1>1, <1>2, BoundaryFacts, MaterializeStep

LEMMA BrIfStep == ASSUME IInv, NEW d \in LabelDepth, BrIf(d) PROVE IInv'
<1> DEFINE c     == height - 1
           taken == regs'[SrcReg(pending, c)] # Zero
<1>1. /\ AtOperator /\ height > 0 /\ BranchOk(d, c) /\ Pop(1)
      /\ regs' = Materialize(ReadSrc(regs, pending, {c}), Clear(pending, {c}), Depth)
      /\ pending' = NothingPending /\ looked' = FALSE
      /\ agree' = (agree /\ (taken <=> stack[c] # Zero))
      /\ IF taken THEN StartBranch(d, c) ELSE UNCHANGED moving
      /\ UNCHANGED <<locals, memory, labels, ram>>
  BY DEF BrIf
<1>2. labels' \in Seq(Label) /\ d \in 0 .. Len(labels') - 1
  BY <1>1, LabelsFacts, BoundsAssumption DEF LabelDepth, BranchOk
<1>3. agree' = TRUE  BY <1>1, ConditionStep
<1>4. QED BY <1>1, <1>2, <1>3, ConditionStep, MaterializeStep

LEMMA BrTableStep ==
    ASSUME IInv, NEW table \in [Value -> LabelDepth], BrTable(table)
    PROVE  IInv'
<1> DEFINE c == height - 1
           d == table[regs'[SrcReg(pending, c)]]
<1>1. /\ AtOperator /\ height > 0 /\ Pop(1)
      /\ \A v \in Value : BranchOk(table[v], c)
      /\ regs' = Materialize(ReadSrc(regs, pending, {c}), Clear(pending, {c}), Depth)
      /\ pending' = NothingPending /\ looked' = FALSE
      /\ agree' = (agree /\ d = table[stack[c]])
      /\ StartBranch(d, c)
      /\ UNCHANGED <<locals, memory, labels, ram>>
  BY DEF BrTable
<1>2. regs'[SrcReg(pending, c)] = stack[c] /\ stack[c] \in Value  BY <1>1, ConditionStep
<1>3. d \in LabelDepth /\ BranchOk(d, c)  BY <1>1, <1>2
<1>4. labels' \in Seq(Label) /\ d \in 0 .. Len(labels') - 1
  BY <1>1, <1>3, LabelsFacts, BoundsAssumption DEF LabelDepth, BranchOk
<1>5. agree' = TRUE  BY <1>1, <1>2, ConditionStep
<1>6. QED BY <1>1, <1>3, <1>4, <1>5, ConditionStep, MaterializeStep

-----------------------------------------------------------------------------
(* The rows hold the wasm frame in every reachable state (lower_op and the  *)
(* materialize / src / dest helpers of lower.rs): the inductive invariant.  *)
THEOREM Inductive == Spec => []IInv
<1>1. Init => IInv  BY InitStep
<1>2. IInv /\ [Next]_vars => IInv'
  <2> SUFFICES ASSUME IInv, [Next]_vars
               PROVE  IInv'
    OBVIOUS
  <2>1. CASE \E v \in Value : Const(v)  BY <2>1, ConstStep
  <2>2. CASE \E i \in Local : LocalGet(i)  BY <2>2, LocalGetStep
  <2>3. CASE Drop  BY <2>3, DropStep
  <2>4. CASE \E dest \in Dests : LocalWrite(dest)  BY <2>4, LocalWriteStep
  <2>5. CASE \E dest \in Dests : UnaryOp(dest)  BY <2>5, UnaryOpStep
  <2>6. CASE \E immediate \in BOOLEAN, dest \in Dests : BinaryOp(immediate, dest)
    BY <2>6, BinaryOpStep
  <2>7. CASE \E dest \in Dests : Load(dest)  BY <2>7, LoadStep
  <2>8. CASE \E g \in Value, dest \in Dests : GlobalGet(g, dest)  BY <2>8, GlobalGetStep
  <2>9. CASE Select  BY <2>9, SelectStep
  <2>10. CASE \E g \in Value : GlobalSet(g)  BY <2>10, GlobalSetStep
  <2>11. CASE Store  BY <2>11, StoreStep
  <2>12. CASE \E kind \in {"block", "loop"}, sig \in Sigs : Enter(kind, sig)  BY <2>12, EnterStep
  <2>13. CASE \E sig \in Sigs, hasElse \in BOOLEAN : If(sig, hasElse)  BY <2>13, IfStep
  <2>14. CASE Else \/ End  BY <2>14, LeaveStep DEF Else, End
  <2>15. CASE \E d \in LabelDepth : Br(d)  BY <2>15, BrStep
  <2>16. CASE \E d \in LabelDepth : BrIf(d)  BY <2>16, BrIfStep
  <2>17. CASE \E table \in [Value -> LabelDepth] : BrTable(table)  BY <2>17, BrTableStep
  <2>18. CASE MoveRow  BY <2>18, MoveRowStep
  <2>19. CASE Jump  BY <2>19, JumpStep
  <2>20. CASE UNCHANGED vars
    BY <2>20 DEF vars, frame, machine, IInv, TypeOK, NoStaleMark, MoveOk,
       NothingPending, Simulation, Unmoved, Denote
  <2>21. QED
    BY <2>1, <2>2, <2>3, <2>4, <2>5, <2>6, <2>7, <2>8, <2>9, <2>10, <2>11,
       <2>12, <2>13, <2>14, <2>15, <2>16, <2>17, <2>18, <2>19, <2>20 DEF Next
<1>3. QED BY <1>1, <1>2, PTL DEF Spec

(* Every variable keeps its type; in particular the operand stack never     *)
(* outgrows the frame's slots.                                              *)
THEOREM TypeCorrect == Spec => []TypeOK
<1>1. IInv => TypeOK  BY DEF IInv
<1>2. QED BY <1>1, Inductive, PTL

(* The register file, the pending marks and memory always stand for the     *)
(* wasm frame, and every branch row goes the way its operator does.         *)
THEOREM Simulates == Spec => []Simulation
<1>1. IInv => Simulation  BY DEF IInv
<1>2. QED BY <1>1, Inductive, PTL

(* No pending mark is left above the operand stack.                         *)
THEOREM MarksFresh == Spec => []NoStaleMark
<1>1. IInv => NoStaleMark  BY DEF IInv
<1>2. QED BY <1>1, Inductive, PTL

(* A step that enters, leaves or branches to a label leaves nothing         *)
(* pending: code reached from several places starts from registers only.    *)
THEOREM JoinsAreClean == Spec => JoinsClean
<1>1. IInv /\ [Next]_vars => [labels' # labels => pending' = NothingPending]_vars
  <2> SUFFICES ASSUME IInv, Next, labels' # labels
               PROVE  pending' = NothingPending
    OBVIOUS
  <2>1. CASE \E kind \in {"block", "loop"}, sig \in Sigs : Enter(kind, sig)  BY <2>1 DEF Enter
  <2>2. CASE \E sig \in Sigs, hasElse \in BOOLEAN : If(sig, hasElse)  BY <2>2 DEF If
  <2>3. CASE Else \/ End  BY <2>3 DEF Else, End, Leave
  <2>4. CASE Jump  BY <2>4, MovingFacts DEF Jump
  <2>5. CASE \/ \E v \in Value : Const(v)
             \/ \E i \in Local : LocalGet(i)
             \/ Drop
             \/ \E dest \in Dests : LocalWrite(dest)
             \/ \E dest \in Dests : UnaryOp(dest)
             \/ \E immediate \in BOOLEAN, dest \in Dests : BinaryOp(immediate, dest)
             \/ \E dest \in Dests : Load(dest)
             \/ \E g \in Value, dest \in Dests : GlobalGet(g, dest)
             \/ Select
             \/ \E g \in Value : GlobalSet(g)
             \/ Store
    BY <2>5 DEF Const, LocalGet, Drop, LocalWrite, UnaryOp, BinaryOp, Load,
       GlobalGet, Select, GlobalSet, Store, Straight
  <2>6. CASE \/ \E d \in LabelDepth : Br(d)
             \/ \E d \in LabelDepth : BrIf(d)
             \/ \E table \in [Value -> LabelDepth] : BrTable(table)
             \/ MoveRow
    BY <2>6 DEF Br, BrIf, BrTable, MoveRow, frame
  <2>7. QED BY <2>1, <2>2, <2>3, <2>4, <2>5, <2>6 DEF Next
<1>2. IInv /\ [Next]_vars =>
        [labels' # labels => \A d \in Depth : pending'[d] = NotPending]_vars
  BY <1>1 DEF NothingPending
<1>3. QED BY <1>2, Inductive, PTL DEF Spec, JoinsClean
=============================================================================
