---------------------------- MODULE Calls_proofs ----------------------------
(***************************************************************************)
(* Proofs about Calls, for every type section, table, frame size, shadow   *)
(* stack and set of functions: canonical type ids separate the types that  *)
(* differ, so that indirect calls are checked, no spill reaches the        *)
(* globals, and the lowered calls implement the frames of a wasm instance. *)
(***************************************************************************)
EXTENDS Calls, SequenceTheorems, WellFoundedInduction, FiniteSetTheorems, TLAPS

-----------------------------------------------------------------------------
(* Canonical type ids *)

\* A nonempty set of naturals has a least element.
LEMMA LeastOf ==
    ASSUME NEW T, T \subseteq Nat, T # {}
    PROVE  \E x \in T : \A y \in T : x <= y
<1> DEFINE R == OpToRel(<, Nat)
<1>1. IsWellFoundedOn(R, Nat)  BY NatLessThanWellFounded
<1>2. \A x, y \in Nat : y < x => <<y, x>> \in R  BY DEF OpToRel
<1> HIDE DEF R
<1>3. PICK x \in T : \A y \in T : ~ (<<y, x>> \in R)  BY <1>1, WFMin
<1>4. ASSUME NEW y \in T PROVE x <= y
  <2>1. x \in Nat /\ y \in Nat /\ ~ (y < x)  BY <1>2, <1>3
  <2> QED BY <2>1
<1> QED BY <1>4

\* The type section, as far as the proofs read it.
LEMMA TypeSection ==
    /\ Len(Types) \in Nat /\ DOMAIN Types = 1 .. Len(Types)
    /\ \A f \in Fn : TypeIndex[f] \in DOMAIN Types
BY ModuleAssumption

\* FirstLike(t) is the first index of t's type.
LEMMA FirstLikeIsFirst ==
    ASSUME NEW t \in DOMAIN Types
    PROVE  /\ FirstLike(t) \in DOMAIN Types
           /\ Types[FirstLike(t)] = Types[t]
           /\ \A w \in DOMAIN Types : Types[w] = Types[t] => FirstLike(t) <= w
<1> DEFINE T == {u \in DOMAIN Types : Types[u] = Types[t]}
<1>1. T \subseteq Nat /\ T # {}  BY TypeSection
<1>2. \E u \in T : \A w \in T : u <= w  BY <1>1, LeastOf
<1>3. \E u \in DOMAIN Types :
        /\ Types[u] = Types[t]
        /\ \A w \in DOMAIN Types : Types[w] = Types[t] => u <= w
    BY <1>2
<1> QED BY <1>3 DEF FirstLike

\* The types before index n.
Before(n) == {Types[u] : u \in 1 .. n - 1}

LEMMA BeforeFinite ==
    ASSUME NEW n \in DOMAIN Types
    PROVE  IsFiniteSet(Before(n)) /\ Cardinality(Before(n)) \in Nat
<1> DEFINE f == [u \in 1 .. n - 1 |-> Types[u]]
<1>1. f \in Surjection(1 .. n - 1, Before(n))  BY DEF Surjection, Before
<1>2. IsFiniteSet(1 .. n - 1)  BY TypeSection, FS_Interval
<1>3. IsFiniteSet(Before(n))  BY <1>1, <1>2, FS_Surjection
<1> QED BY <1>3, FS_CardinalityType

\* Of two different first occurrences the later one has more types before it.
LEMMA IdsGrow ==
    ASSUME NEW t \in DOMAIN Types, NEW u \in DOMAIN Types, FirstLike(t) < FirstLike(u)
    PROVE  CanonicalId(t) < CanonicalId(u)
<1> DEFINE m == FirstLike(t)
           n == FirstLike(u)
<1>1. /\ m \in DOMAIN Types /\ n \in DOMAIN Types /\ m \in Nat /\ n \in Nat
      /\ \A w \in DOMAIN Types : Types[w] = Types[m] => m <= w
    BY FirstLikeIsFirst, TypeSection
<1> HIDE DEF m, n
<1>2. Before(m) \subseteq Before(n)  BY <1>1 DEF Before, m, n
<1>3. Types[m] \in Before(n)  BY <1>1, TypeSection DEF m, n, Before
<1>4. Types[m] \notin Before(m)
  <2>1. ASSUME NEW w \in 1 .. m - 1 PROVE Types[w] # Types[m]  BY <1>1, TypeSection
  <2> QED BY <2>1 DEF Before
<1>5. /\ IsFiniteSet(Before(m)) /\ Cardinality(Before(m)) \in Nat
      /\ IsFiniteSet(Before(n)) /\ Cardinality(Before(n)) \in Nat
    BY <1>1, BeforeFinite
<1>6. Cardinality(Before(m)) <= Cardinality(Before(n))
      /\ (Cardinality(Before(n)) = Cardinality(Before(m)) => Before(n) = Before(m))
    BY <1>2, <1>5, FS_Subset
<1>7. Cardinality(Before(m)) < Cardinality(Before(n))  BY <1>3, <1>4, <1>5, <1>6
<1> QED BY <1>7 DEF CanonicalId, Before, m, n

\* Canonical ids separate exactly the types that differ (canonical_type_ids).
THEOREM CanonicalIdsSeparate ==
    ASSUME NEW t \in DOMAIN Types, NEW u \in DOMAIN Types
    PROVE  CanonicalId(t) = CanonicalId(u) <=> Types[t] = Types[u]
<1>1. ASSUME NEW v \in DOMAIN Types PROVE CanonicalId(v) \in Nat /\ FirstLike(v) \in Nat
  <2>1. FirstLike(v) \in DOMAIN Types  BY FirstLikeIsFirst
  <2>2. Cardinality(Before(FirstLike(v))) \in Nat  BY <2>1, BeforeFinite
  <2> QED BY <2>1, <2>2, TypeSection DEF CanonicalId, Before
<1>2. CASE FirstLike(t) = FirstLike(u)  BY <1>2, FirstLikeIsFirst DEF CanonicalId
<1>3. CASE FirstLike(t) < FirstLike(u)  BY <1>3, <1>1, IdsGrow, FirstLikeIsFirst
<1>4. CASE FirstLike(u) < FirstLike(t)  BY <1>4, <1>1, IdsGrow, FirstLikeIsFirst
<1> QED BY <1>1, <1>2, <1>3, <1>4

-----------------------------------------------------------------------------
(* The inductive invariant *)

\* The frame at pc fits the register file.
FrameFits == height \in Nat /\ LocalsOf(fn) + height <= MaxFrame

\* Outside the stub a function runs above the frames it was called from;
\* in the stub nothing is spilled.
AtStub == {"start", "args", "export", "publish", "halt"}
Places ==
    /\ pc \in AtStub => fn = Stub /\ sp = StackStart /\ bases = <<>>
    /\ pc \in {"body", "resume"} => fn \in Fn /\ bases # <<>> /\ sp = bases[Len(bases)]
    /\ pc = "start" => Start \in Fn
    /\ pc = "export" => height = Type(Export).params
    /\ pc = "resume" => ra = mem[sp - 1].site

\* A site whose frame fits, with its arguments and with its results.
SiteFits(s) ==
    /\ s \in Site
    /\ s.params <= s.height /\ LocalsOf(s.fn) + s.height <= MaxFrame
    /\ ArgsBase(s) + s.results <= MaxFrame

\* Words from .. top - 1 of m hold a spilled frame under its return address.
SpillAt(m, from, top, first) ==
    LET s == m[top - 1].site
    IN  /\ SiteFits(s) /\ m[top - 1] = Ret(s)
        /\ top = from + FrameWords(s)
        /\ \A a \in from .. top - 2 : m[a] \in {Datum(v) : v \in Value}
        /\ IF first THEN s.fn = Stub /\ s.next \in {"args", "publish"}
           ELSE s.fn \in Fn /\ s.next = "body"

\* The shadow stack is a chain of spilled frames, each at the SP of its caller.
From(b, i) == IF i = 1 THEN StackStart ELSE b[i - 1]
Ascending(b) == \A i, j \in 1 .. Len(b) : i <= j => b[i] <= b[j]
Linked(m, b) ==
    /\ Ascending(b)
    /\ \A i \in 1 .. Len(b) : SpillAt(m, From(b, i), b[i], i = 1)

IInv ==
    /\ TypeOK /\ FrameFits /\ Places /\ Linked(mem, bases) /\ GlobalsUntouched

-----------------------------------------------------------------------------
(* Constants *)

LEMMA TypesOfFunctions ==
    ASSUME NEW f \in Fn
    PROVE  /\ TypeIndex[f] \in DOMAIN Types
           /\ Type(f).params \in Nat /\ Type(f).results \in 0 .. MaxResults
           /\ Locals(f) \in Nat /\ Type(f).params <= Locals(f) /\ Locals(f) <= MaxFrame
           /\ LocalsOf(f) = Locals(f)
<1>1. TypeIndex[f] \in DOMAIN Types  BY ModuleAssumption
<1>2. Types[TypeIndex[f]] \in [params : Nat, results : Nat]
    BY <1>1, TypeSection, ModuleAssumption, ElementOfSeq
<1>3. Declared[f] \in Nat  BY ModuleAssumption
<1>4. Type(f).params \in Nat /\ Type(f).results \in Nat  BY <1>2 DEF Type
<1>5. Type(f).results <= MaxResults /\ MaxResults \in Nat  BY StackAssumption
<1>6. Locals(f) <= MaxFrame /\ MaxFrame \in Nat  BY ModuleAssumption
<1>7. LocalsOf(f) = Locals(f)  BY StackAssumption DEF LocalsOf
<1>8. Locals(f) \in Nat /\ Type(f).params <= Locals(f)  BY <1>3, <1>4 DEF Locals
<1> QED BY <1>1, <1>4, <1>5, <1>6, <1>7, <1>8

LEMMA TypeRecords ==
    ASSUME NEW t \in DOMAIN Types
    PROVE  Types[t].results <= MaxResults => Types[t] \in [params : Nat, results : 0 .. MaxResults]
<1>1. Types[t] \in [params : Nat, results : Nat]  BY TypeSection, ModuleAssumption, ElementOfSeq
<1> QED BY <1>1, StackAssumption

LEMMA Sizes ==
    /\ StackWords \in Nat /\ StackWords > 0 /\ GuardWords \in Nat /\ GuardWords > 0
    /\ GlobalWords \in Nat /\ MaxResults \in Nat /\ MaxFrame \in Nat
    /\ StackStart = 1 /\ Stub \notin Fn /\ LocalsOf(Stub) = 0
    /\ \A g \in Fn \cup {Stub} : LocalsOf(g) \in Nat /\ LocalsOf(g) <= MaxFrame
BY StackAssumption, ModuleAssumption, TypesOfFunctions DEF StackStart, LocalsOf

\* What a site that fits says in numbers.
LEMMA SiteNumbers ==
    ASSUME NEW s, SiteFits(s)
    PROVE  /\ s.fn \in Fn \cup {Stub} /\ s.height \in Nat /\ s.params \in Nat
           /\ s.results \in 0 .. MaxResults
           /\ Live(s) \in Nat /\ Live(s) <= MaxFrame
           /\ ArgsBase(s) \in Nat /\ ArgsBase(s) + s.params = Live(s)
           /\ FrameWords(s) = Live(s) + 1
           /\ LocalsOf(s.fn) \in Nat /\ LocalsOf(s.fn) <= ArgsBase(s)
           /\ ArgsBase(s) = LocalsOf(s.fn) + s.height - s.params
<1>1. /\ s.fn \in Fn \cup {Stub} /\ s.height \in Nat /\ s.params \in Nat
      /\ s.results \in 0 .. MaxResults
    BY Sizes DEF SiteFits, Site
<1>2. LocalsOf(s.fn) \in Nat  BY <1>1, Sizes
<1> QED BY <1>1, <1>2, Sizes DEF SiteFits, Live, ArgsBase, FrameWords

-----------------------------------------------------------------------------
(* The spill *)

\* A spill writes upwards from SP and never past the shadow stack; what it
\* writes are words.
LEMMA SpillStaysBelowGuard ==
    ASSUME TypeOK, NEW s, SiteFits(s)
    PROVE  /\ \A a \in Reached(s) : sp <= a /\ a < StackWords
           /\ ~Exhausted(s) => Reached(s) = sp .. sp + Live(s) /\ sp + Live(s) < StackWords
           /\ Spilled(s) \in [Address -> Word]
           /\ \A a \in Globals : Spilled(s)[a] = mem[a]
           /\ \A a \in Address : a < sp => Spilled(s)[a] = mem[a]
<1>1. /\ sp \in Nat /\ sp <= StackWords /\ Live(s) \in Nat /\ Live(s) <= MaxFrame
      /\ mem \in [Address -> Word] /\ regs \in [Slot -> Value]
    BY SiteNumbers, Sizes DEF TypeOK
<1>2. StackWords \in Guard  BY Sizes DEF Guard
<1>3. ASSUME NEW a \in Reached(s) PROVE a \in Nat /\ sp <= a /\ a <= sp + Live(s) /\ a < StackWords
    BY <1>1, <1>2, Sizes DEF Reached
<1>4. ASSUME ~Exhausted(s)
      PROVE  Reached(s) = sp .. sp + Live(s) /\ sp + Live(s) < StackWords
    BY <1>4, <1>1, <1>2, Sizes DEF Exhausted, Reached
<1>5. Spilled(s) \in [Address -> Word]
  <2>1. ASSUME NEW a \in Address
        PROVE  (IF a \notin Reached(s) THEN mem[a]
                ELSE IF a = sp + Live(s) THEN Ret(s) ELSE Datum(regs[a - sp])) \in Word
    <3>1. CASE a \notin Reached(s)  BY <3>1, <1>1
    <3>2. CASE a \in Reached(s) /\ a = sp + Live(s)  BY <3>2 DEF Ret, Word, SiteFits
    <3>3. CASE a \in Reached(s) /\ a # sp + Live(s)
      <4>1. a - sp \in Slot  BY <3>3, <1>1, <1>3, Sizes DEF Slot
      <4>2. Datum(regs[a - sp]) \in Word  BY <4>1, <1>1 DEF Datum, Word
      <4> QED BY <3>3, <4>2
    <3> QED BY <3>1, <3>2, <3>3
  <2> QED BY <2>1 DEF Spilled
<1>6. ASSUME NEW a \in Globals PROVE Spilled(s)[a] = mem[a]  BY Sizes, <1>3 DEF Globals, Address, Spilled
<1>7. ASSUME NEW a \in Address, a < sp PROVE Spilled(s)[a] = mem[a]
    BY Sizes, <1>1, <1>3, <1>7 DEF Address, Spilled
<1> QED BY <1>3, <1>4, <1>5, <1>6, <1>7

\* When there is room the whole frame is spilled, under its return address.
LEMMA SpillWhole ==
    ASSUME TypeOK, NEW s, SiteFits(s), ~Exhausted(s)
    PROVE  /\ sp + Live(s) \in Address /\ Spilled(s)[sp + Live(s)] = Ret(s)
           /\ \A r \in 0 .. Live(s) - 1 :
                r \in Slot /\ sp + r \in Address /\ Spilled(s)[sp + r] = Datum(regs[r])
<1>1. /\ sp \in Nat /\ Live(s) \in Nat /\ Live(s) <= MaxFrame /\ Reached(s) = sp .. sp + Live(s)
      /\ sp + Live(s) < StackWords
    BY SpillStaysBelowGuard, SiteNumbers, Sizes DEF TypeOK
<1>2. sp + Live(s) \in Address /\ Spilled(s)[sp + Live(s)] = Ret(s)
    BY <1>1, Sizes DEF Spilled, Address
<1>3. ASSUME NEW r \in 0 .. Live(s) - 1
      PROVE  r \in Slot /\ sp + r \in Address /\ Spilled(s)[sp + r] = Datum(regs[r])
    BY <1>1, Sizes DEF Slot, Address, Spilled
<1> QED BY <1>2, <1>3

\* The arguments are those that were on the caller's operand stack.
LEMMA LoadedArguments ==
    ASSUME TypeOK, NEW s, SiteFits(s), ~Exhausted(s)
    PROVE  /\ Loaded(s) = [r \in Slot |-> IF r < s.params THEN regs[ArgsBase(s) + r] ELSE regs[r]]
           /\ Loaded(s) \in [Slot -> Value]
<1>1. ASSUME NEW r \in Slot
      PROVE  /\ (IF r < s.params THEN Spilled(s)[sp + ArgsBase(s) + r].value ELSE regs[r])
                  = (IF r < s.params THEN regs[ArgsBase(s) + r] ELSE regs[r])
             /\ (IF r < s.params THEN regs[ArgsBase(s) + r] ELSE regs[r]) \in Value
  <2>1. regs \in [Slot -> Value] /\ r \in Nat /\ sp \in Nat  BY Sizes DEF TypeOK, Slot
  <2>2. CASE r < s.params
    <3> DEFINE q == ArgsBase(s) + r
    <3>1. q \in 0 .. Live(s) - 1 /\ sp + ArgsBase(s) + r = sp + q  BY <2>1, <2>2, SiteNumbers
    <3> HIDE DEF q
    <3>2. q \in Slot /\ Spilled(s)[sp + q] = Datum(regs[q])  BY <3>1, SpillWhole
    <3>3. Spilled(s)[sp + ArgsBase(s) + r].value = regs[q] /\ regs[q] \in Value
        BY <2>1, <3>1, <3>2 DEF Datum
    <3> QED BY <2>2, <3>3 DEF q
  <2>3. CASE ~(r < s.params)  BY <2>1, <2>3
  <2> QED BY <2>2, <2>3
<1> QED BY <1>1 DEF Loaded

\* A chain of frames below `top` is not disturbed by what is written from there.
LEMMA ChainKept ==
    ASSUME NEW b \in Seq(StackStart .. StackWords), NEW m, NEW n, NEW top \in Nat,
           Linked(m, b), \A i \in 1 .. Len(b) : b[i] <= top,
           \A a \in Address : a < top => n[a] = m[a]
    PROVE  Linked(n, b)
<1>1. Ascending(b)  BY DEF Linked
<1>2. ASSUME NEW i \in 1 .. Len(b)
      PROVE  SpillAt(n, From(b, i), b[i], i = 1)
  <2> DEFINE lo == From(b, i)
             hi == b[i]
             s  == m[hi - 1].site
  <2>1. /\ SiteFits(s) /\ m[hi - 1] = Ret(s) /\ hi = lo + FrameWords(s)
        /\ \A a \in lo .. hi - 2 : m[a] \in {Datum(v) : v \in Value}
        /\ IF i = 1 THEN s.fn = Stub /\ s.next \in {"args", "publish"}
           ELSE s.fn \in Fn /\ s.next = "body"
      BY DEF Linked, SpillAt
  <2>2. lo \in StackStart .. StackWords /\ hi \in StackStart .. StackWords
      BY ElementOfSeq, LenProperties, Sizes DEF From
  <2>3. hi <= top  OBVIOUS
  <2> HIDE DEF lo, hi
  <2>4. \A a \in lo - 1 .. hi - 1 : n[a] = m[a]
    <3>1. \A a \in lo - 1 .. hi - 1 : a \in Address /\ a < top  BY <2>2, <2>3, Sizes DEF Address
    <3> QED BY <3>1
  <2>5. n[hi - 1] = m[hi - 1]
    <3>1. FrameWords(s) \in Nat  BY <2>1, SiteNumbers
    <3>2. hi - 1 \in lo - 1 .. hi - 1  BY <2>1, <2>2, <3>1, Sizes
    <3> QED BY <2>4, <3>2
  <2>6. \A a \in lo .. hi - 2 : n[a] = m[a]  BY <2>2, <2>4, Sizes
  <2> QED BY <2>1, <2>5, <2>6 DEF SpillAt, lo, hi
<1> QED BY <1>1, <1>2 DEF Linked

\* The chain with one more frame, spilled at its end.
LEMMA ChainExtended ==
    ASSUME NEW b \in Seq(StackStart .. StackWords), NEW m, NEW top \in StackStart .. StackWords,
           Linked(m, b), \A i \in 1 .. Len(b) : b[i] <= top,
           SpillAt(m, IF b = <<>> THEN StackStart ELSE b[Len(b)], top, b = <<>>)
    PROVE  Linked(m, Append(b, top)) /\ Append(b, top) \in Seq(StackStart .. StackWords)
<1> DEFINE c == Append(b, top)
<1>1. /\ c \in Seq(StackStart .. StackWords) /\ Len(c) = Len(b) + 1 /\ Len(b) \in Nat
      /\ \A i \in 1 .. Len(b) : c[i] = b[i]
      /\ c[Len(b) + 1] = top
    BY LenProperties
<1>2. \A j \in 1 .. Len(b) : b[j] \in Nat  BY ElementOfSeq, Sizes
<1>3. b = <<>> <=> Len(b) = 0  BY <1>1, EmptySeq
<1> HIDE DEF c
<1>4. Ascending(c)
  <2>1. ASSUME NEW i \in 1 .. Len(c), NEW j \in 1 .. Len(c), i <= j PROVE c[i] <= c[j]
    <3>1. CASE j \in 1 .. Len(b)  BY <2>1, <3>1, <1>1 DEF Linked, Ascending
    <3>2. CASE j = Len(b) + 1 /\ i \in 1 .. Len(b)  BY <3>2, <1>1
    <3>3. CASE j = Len(b) + 1 /\ i = j  BY <3>3, <1>1, Sizes
    <3> QED BY <2>1, <3>1, <3>2, <3>3, <1>1
  <2> QED BY <2>1 DEF Ascending
<1>5. ASSUME NEW i \in 1 .. Len(c)
      PROVE  SpillAt(m, From(c, i), c[i], i = 1)
  <2>1. CASE i \in 1 .. Len(b)  BY <2>1, <1>1 DEF From, Linked
  <2>2. CASE i = Len(b) + 1
    <3>1. From(c, i) = (IF b = <<>> THEN StackStart ELSE b[Len(b)]) /\ (i = 1 <=> b = <<>>)
      <4>1. CASE Len(b) = 0  BY <4>1, <2>2, <1>3 DEF From
      <4>2. CASE Len(b) # 0  BY <4>2, <2>2, <1>1, <1>3 DEF From
      <4> QED BY <4>1, <4>2
    <3>2. c[i] = top  BY <2>2, <1>1
    <3>3. CASE b = <<>>  BY <3>1, <3>2, <3>3
    <3>4. CASE b # <<>>  BY <3>1, <3>2, <3>4
    <3> QED BY <3>3, <3>4
  <2> QED BY <2>1, <2>2, <1>1
<1> QED BY <1>1, <1>4, <1>5 DEF Linked, c

\* The chain without its last frame.
LEMMA ChainCut ==
    ASSUME NEW b \in Seq(StackStart .. StackWords), NEW m, Linked(m, b), b # <<>>
    PROVE  LET c == SubSeq(b, 1, Len(b) - 1)
           IN  /\ Linked(m, c) /\ c \in Seq(StackStart .. StackWords)
               /\ Len(c) = Len(b) - 1
               /\ \A i \in 1 .. Len(b) - 1 : c[i] = b[i]
<1> DEFINE c == SubSeq(b, 1, Len(b) - 1)
<1>1. Len(b) \in Nat /\ Len(b) > 0  BY LenProperties, EmptySeq
<1>2. \A i \in 1 .. Len(b) - 1 : i \in 1 .. Len(b) /\ b[i] \in StackStart .. StackWords
  <2>1. \A i \in 1 .. Len(b) : b[i] \in StackStart .. StackWords  BY ElementOfSeq
  <2> QED BY <1>1, <2>1
<1>3. /\ c \in Seq(StackStart .. StackWords) /\ Len(c) = Len(b) - 1
      /\ \A i \in 1 .. Len(b) - 1 : c[i] = b[i]
  <2> DEFINE n == Len(b) - 1
             S == StackStart .. StackWords
  <2>1. 1 \in Int /\ n \in Int /\ \A i \in 1 .. n : b[i] \in S  BY <1>1, <1>2
  <2> HIDE DEF n, S
  <2>2. /\ SubSeq(b, 1, n) \in Seq(S)
        /\ Len(SubSeq(b, 1, n)) = IF 1 <= n THEN n - 1 + 1 ELSE 0
        /\ \A i \in 1 .. n - 1 + 1 : SubSeq(b, 1, n)[i] = b[1 + i - 1]
      BY <2>1, SubSeqProperties
  <2>3. Len(SubSeq(b, 1, n)) = n
    <3>1. n \in Nat  BY <1>1 DEF n
    <3>2. (IF 1 <= n THEN n - 1 + 1 ELSE 0) = n  BY <3>1
    <3> QED BY <2>2, <3>2
  <2>4. ASSUME NEW i \in 1 .. n PROVE SubSeq(b, 1, n)[i] = b[i]  BY <2>1, <2>2
  <2> QED BY <2>2, <2>3, <2>4 DEF n, S
<1> HIDE DEF c
<1>4. Ascending(c)  BY <1>1, <1>3 DEF Linked, Ascending
<1>5. ASSUME NEW i \in 1 .. Len(c) PROVE SpillAt(m, From(c, i), c[i], i = 1)
    BY <1>1, <1>3 DEF From, Linked
<1> QED BY <1>3, <1>4, <1>5 DEF Linked, c

-----------------------------------------------------------------------------
(* The invariant is kept *)

\* A call: a site that fits and carries on where the caller stands.
Calling(s) ==
    /\ SiteFits(s)
    /\ bases = <<>> => sp = StackStart /\ s.fn = Stub /\ s.next \in {"args", "publish"}
    /\ bases # <<>> => sp = bases[Len(bases)] /\ s.fn \in Fn /\ s.next = "body"

LEMMA BasesBelow ==
    ASSUME IInv, bases # <<>> => sp = bases[Len(bases)]
    PROVE  \A i \in 1 .. Len(bases) : bases[i] <= sp
<1>1. Len(bases) \in Nat /\ (bases = <<>> <=> Len(bases) = 0)
    BY LenProperties, EmptySeq DEF IInv, TypeOK
<1>2. CASE bases = <<>>  BY <1>1, <1>2
<1>3. CASE bases # <<>>  BY <1>1, <1>3 DEF IInv, Linked, Ascending
<1> QED BY <1>2, <1>3

LEMMA EnterKeeps ==
    ASSUME IInv, NEW s, Calling(s), NEW f \in Fn, EnterFn(s, f)
    PROVE  IInv'
<1>1. /\ ~Exhausted(s) /\ pc' = "body" /\ fn' = f /\ height' = 0
      /\ regs' = Entered(s, f) /\ sp' = sp + FrameWords(s) /\ mem' = Spilled(s)
      /\ bases' = Append(bases, sp') /\ temps' = temps /\ ra' = ra /\ outputs' = outputs
    BY DEF EnterFn
<1>2. TypeOK /\ SiteFits(s) /\ Linked(mem, bases) /\ GlobalsUntouched  BY DEF IInv, Calling
<1>3. /\ sp \in StackStart .. StackWords /\ sp \in Nat /\ Live(s) \in Nat
      /\ FrameWords(s) = Live(s) + 1 /\ sp' \in StackStart .. StackWords
    BY <1>1, <1>2, SpillStaysBelowGuard, SiteNumbers, Sizes DEF TypeOK
<1>4. bases \in Seq(StackStart .. StackWords)  BY <1>2 DEF TypeOK
<1>5. \A i \in 1 .. Len(bases) : bases[i] <= sp  BY BasesBelow DEF Calling
<1>6. SpillAt(mem', IF bases = <<>> THEN StackStart ELSE bases[Len(bases)], sp', bases = <<>>)
  <2>1. sp = (IF bases = <<>> THEN StackStart ELSE bases[Len(bases)])  BY DEF Calling
  <2>2. mem'[sp' - 1] = Ret(s)  BY <1>1, <1>3, <1>2, SpillWhole
  <2>3. mem'[sp' - 1].site = s  BY <2>2 DEF Ret
  <2>4. ASSUME NEW a \in sp .. sp' - 2 PROVE mem'[a] \in {Datum(v) : v \in Value}
    <3> DEFINE r == a - sp
    <3>1. r \in 0 .. Live(s) - 1 /\ a = sp + r  BY <1>1, <1>3
    <3> HIDE DEF r
    <3>2. r \in Slot /\ mem'[a] = Datum(regs[r])  BY <3>1, <1>1, <1>2, SpillWhole
    <3>3. regs[r] \in Value  BY <3>2, <1>2 DEF TypeOK
    <3> QED BY <3>2, <3>3
  <2> QED BY <2>1, <2>2, <2>3, <2>4, <1>1, <1>2 DEF SpillAt, Calling
<1>7. Linked(mem', bases)  BY <1>1, <1>2, SpillStaysBelowGuard, <1>3, <1>4, <1>5, ChainKept
<1>8. Linked(mem', bases') /\ bases' \in Seq(StackStart .. StackWords)
  <2>1. \A i \in 1 .. Len(bases) : bases[i] <= sp'  BY <1>4, ElementOfSeq, <1>1, <1>3, <1>5, Sizes
  <2> QED BY <2>1, <1>1, <1>3, <1>4, <1>6, <1>7, ChainExtended
<1>9. TypeOK'
  <2>1. regs' \in [Slot -> Value]  BY <1>1, <1>2, LoadedArguments, ModuleAssumption DEF Entered
  <2>2. mem' \in [Address -> Word]  BY <1>1, <1>2, SpillStaysBelowGuard
  <2>3. fn' \in Fn \cup {Stub} /\ height' \in 0 .. MaxFrame - LocalsOf(fn')  BY <1>1, Sizes
  <2> QED BY <2>1, <2>2, <2>3, <1>1, <1>2, <1>3, <1>8 DEF TypeOK
<1>10. FrameFits'  BY <1>1, Sizes DEF FrameFits
<1>11. Places'  BY <1>1, <1>3, <1>4 DEF Places, AtStub
<1>12. GlobalsUntouched'  BY <1>1, <1>2, SpillStaysBelowGuard DEF GlobalsUntouched
<1> QED BY <1>8, <1>9, <1>10, <1>11, <1>12 DEF IInv

LEMMA ExhaustKeeps ==
    ASSUME IInv, NEW s, SiteFits(s), Exhaust(s)
    PROVE  IInv'
<1>1. /\ pc' = "exhausted" /\ mem' = Spilled(s) /\ bases' = <<>> /\ fn' = fn /\ height' = height
      /\ regs' = regs /\ temps' = temps /\ ra' = ra /\ sp' = sp /\ outputs' = outputs
    BY DEF Exhaust
<1>2. TypeOK /\ GlobalsUntouched /\ FrameFits  BY DEF IInv
<1>3. TypeOK'
  <2>1. mem' \in [Address -> Word]  BY <1>1, <1>2, SpillStaysBelowGuard
  <2>2. bases' \in Seq(StackStart .. StackWords)  BY <1>1
  <2> QED BY <1>1, <1>2, <2>1, <2>2 DEF TypeOK, Traps
<1>4. FrameFits' /\ Places'  BY <1>1, <1>2 DEF FrameFits, Places, AtStub
<1>5. Linked(mem', bases')  BY <1>1 DEF Linked, Ascending
<1>6. GlobalsUntouched'  BY <1>1, <1>2, SpillStaysBelowGuard DEF GlobalsUntouched
<1> QED BY <1>3, <1>4, <1>5, <1>6 DEF IInv

LEMMA TrapKeeps ==
    ASSUME IInv, NEW s, SiteFits(s), ~Exhausted(s), NEW how \in Traps, Trap(s, how)
    PROVE  IInv'
<1>1. /\ pc' = how /\ mem' = Spilled(s) /\ bases' = <<>> /\ fn' = fn /\ height' = height
      /\ regs' = Loaded(s) /\ temps' = temps /\ ra' = ra /\ sp' = sp + FrameWords(s)
      /\ outputs' = outputs
    BY DEF Trap
<1>2. TypeOK /\ GlobalsUntouched /\ FrameFits  BY DEF IInv
<1>3. sp' \in StackStart .. StackWords
    BY <1>1, <1>2, SpillStaysBelowGuard, SiteNumbers, Sizes DEF TypeOK
<1>4. TypeOK'  BY <1>1, <1>2, <1>3, SpillStaysBelowGuard, LoadedArguments DEF TypeOK
<1>5. FrameFits' /\ Places'  BY <1>1, <1>2 DEF FrameFits, Places, AtStub, Traps
<1>6. Linked(mem', bases')  BY <1>1 DEF Linked, Ascending
<1>7. GlobalsUntouched'  BY <1>1, <1>2, SpillStaysBelowGuard DEF GlobalsUntouched
<1> QED BY <1>4, <1>5, <1>6, <1>7 DEF IInv

\* A step within the stub or a body that leaves the stack alone.
LEMMA LocalStep ==
    ASSUME IInv, UNCHANGED <<fn, sp, mem, bases>>, TypeOK', FrameFits', Places'
    PROVE  IInv'
<1>1. Linked(mem', bases') /\ GlobalsUntouched'  BY DEF IInv, GlobalsUntouched
<1> QED BY <1>1 DEF IInv

LEMMA StubCalling ==
    ASSUME IInv, pc \in {"start", "export"}
    PROVE  /\ pc = "start" => Start \in Fn /\ Calling(CallSite(0, Type(Start), "args"))
           /\ pc = "export" => Export \in Fn /\ Calling(CallSite(height, Type(Export), "publish"))
<1>1. fn = Stub /\ sp = StackStart /\ bases = <<>> /\ FrameFits  BY DEF IInv, Places, AtStub
<1>2. ASSUME pc = "start"
      PROVE  Start \in Fn /\ Calling(CallSite(0, Type(Start), "args"))
  <2> DEFINE s == CallSite(0, Type(Start), "args")
  <2>1. Start \in Fn /\ Type(Start) = [params |-> 0, results |-> 0]
      BY <1>2, ModuleAssumption DEF IInv, Places
  <2>2. s = [fn |-> Stub, height |-> 0, params |-> 0, results |-> 0, next |-> "args"]
      BY <1>1, <2>1 DEF CallSite
  <2> HIDE DEF s
  <2>3. SiteFits(s)  BY <2>2, Sizes DEF SiteFits, Site, ArgsBase, Live
  <2> QED BY <1>1, <2>1, <2>2, <2>3 DEF Calling, s
<1>3. ASSUME pc = "export"
      PROVE  Export \in Fn /\ Calling(CallSite(height, Type(Export), "publish"))
  <2> DEFINE s == CallSite(height, Type(Export), "publish")
  <2>1. /\ Export \in Fn /\ height = Type(Export).params /\ height \in Nat /\ height <= MaxFrame
        /\ Type(Export).results \in 0 .. MaxResults /\ Type(Export).results <= MaxFrame
      BY <1>3, <1>1, Sizes, ModuleAssumption, TypesOfFunctions DEF IInv, Places, FrameFits
  <2>2. s = [fn |-> Stub, height |-> height, params |-> height,
             results |-> Type(Export).results, next |-> "publish"]
      BY <1>1, <2>1 DEF CallSite
  <2> HIDE DEF s
  <2>3. SiteFits(s)  BY <2>1, <2>2, Sizes DEF SiteFits, Site, ArgsBase, Live
  <2> QED BY <1>1, <2>1, <2>2, <2>3 DEF Calling, s
<1> QED BY <1>2, <1>3

LEMMA BodyCalling ==
    ASSUME IInv, pc = "body", NEW type \in [params : Nat, results : 0 .. MaxResults],
           NEW h \in Nat, h <= height, Callable(type, h)
    PROVE  Calling(CallSite(h, type, "body"))
<1> DEFINE s == CallSite(h, type, "body")
<1>1. fn \in Fn /\ bases # <<>> /\ sp = bases[Len(bases)] /\ FrameFits  BY DEF IInv, Places
<1>2. s = [fn |-> fn, height |-> h, params |-> type.params, results |-> type.results,
           next |-> "body"]
    BY DEF CallSite
<1>3. /\ LocalsOf(fn) \in Nat /\ LocalsOf(fn) + h <= MaxFrame /\ h <= MaxFrame
      /\ type.params \in Nat /\ type.results \in 0 .. MaxResults /\ type.params <= h
      /\ LocalsOf(fn) + h - type.params + type.results <= MaxFrame
    BY <1>1, Sizes DEF FrameFits, Callable
<1> HIDE DEF s
<1>4. SiteFits(s)  BY <1>1, <1>2, <1>3, Sizes DEF SiteFits, Site, ArgsBase, Live
<1> QED BY <1>1, <1>2, <1>4 DEF Calling, s

\* emit_call from the stub or from a body.
LEMMA EmitCallKeeps ==
    ASSUME IInv, NEW s, Calling(s), NEW f \in Fn, EmitCall(s, f)
    PROVE  IInv'
BY EnterKeeps, ExhaustKeeps DEF EmitCall, Calling

\* The index of an indirect call is the operand above its arguments, whatever
\* the spill and the load of the arguments have done to the registers.
LEMMA IndexIsOperand ==
    ASSUME IInv, pc = "body", NEW t \in DOMAIN Types, height > 0, Callable(Types[t], height - 1),
           NEW s, s = CallSite(height - 1, Types[t], "body"), ~Exhausted(s)
    PROVE  /\ Live(s) = LocalsOf(fn) + height - 1
           /\ Loaded(s)[Live(s)] = regs[LocalsOf(fn) + height - 1]
<1> DEFINE type == Types[t]
           h == height - 1
<1>1. TypeOK /\ FrameFits /\ fn \in Fn /\ height \in Nat /\ h \in Nat /\ h <= height
    BY DEF IInv, FrameFits, Places
<1>2. type \in [params : Nat, results : 0 .. MaxResults]  BY TypeRecords DEF Callable
<1>3. SiteFits(s)  BY <1>1, <1>2, BodyCalling DEF Calling
<1>4. s.fn = fn /\ s.height = h /\ LocalsOf(fn) \in Nat  BY <1>1, Sizes DEF CallSite
<1>5. Live(s) = LocalsOf(fn) + height - 1 /\ Live(s) \in Nat /\ s.params <= Live(s)
    BY <1>1, <1>4, <1>3, SiteNumbers DEF Live
<1>6. Live(s) \in Slot  BY <1>1, <1>4, <1>5, Sizes DEF FrameFits, Slot
<1>7. Loaded(s) = [r \in Slot |-> IF r < s.params THEN regs[ArgsBase(s) + r] ELSE regs[r]]
    BY <1>1, <1>3, LoadedArguments
<1>8. ~(Live(s) < s.params)  BY <1>3, SiteNumbers, <1>5
<1>9. Loaded(s)[Live(s)] = regs[Live(s)]  BY <1>6, <1>7, <1>8
<1> QED BY <1>5, <1>9

\* A table slot's signature word is the one of type t exactly when the slot
\* holds a function of a structurally equal type.
LEMMA SignatureIsType ==
    ASSUME NEW t \in DOMAIN Types, NEW i \in DOMAIN Table
    PROVE  SignatureWord(i) = CanonicalId(t) + 1
             <=> Table[i] \in Fn /\ Table[i] # NoFn /\ Type(Table[i]) = Types[t]
<1>1. \A v \in DOMAIN Types : CanonicalId(v) \in Nat
  <2>1. ASSUME NEW v \in DOMAIN Types PROVE CanonicalId(v) \in Nat
      BY FirstLikeIsFirst, BeforeFinite DEF CanonicalId, Before
  <2> QED BY <2>1
<1>2. Table[i] \in Fn \cup {NoFn} /\ NoFn \notin Fn  BY ModuleAssumption
<1>3. CASE Table[i] = NoFn  BY <1>3, <1>1, <1>2 DEF SignatureWord
<1>4. CASE Table[i] # NoFn
  <2> DEFINE u == TypeIndex[Table[i]]
  <2>1. Table[i] \in Fn  BY <1>2, <1>4
  <2>2. u \in DOMAIN Types  BY <2>1, TypesOfFunctions
  <2>3. SignatureWord(i) = CanonicalId(u) + 1  BY <1>4 DEF SignatureWord
  <2>4. Type(Table[i]) = Types[u]  BY DEF Type
  <2> HIDE DEF u
  <2>5. CanonicalId(u) \in Nat /\ CanonicalId(t) \in Nat  BY <1>1, <2>2
  <2>6. CanonicalId(u) = CanonicalId(t) <=> Types[u] = Types[t]  BY <2>2, CanonicalIdsSeparate
  <2> QED BY <1>4, <2>1, <2>3, <2>4, <2>5, <2>6
<1> QED BY <1>3, <1>4

\* What an indirect call does with the index the program left on the operands.
LEMMA IndirectTarget ==
    ASSUME IInv, NEW t \in DOMAIN Types, CallIndirect(t)
    PROVE  LET s == CallSite(height - 1, Types[t], "body")
               i == regs[LocalsOf(fn) + height - 1]
               matches == Table[i] \in Fn /\ Table[i] # NoFn /\ Type(Table[i]) = Types[t]
           IN  /\ Calling(s)
               /\ \/ Exhaust(s)
                  \/ ~Exhausted(s) /\ i \notin DOMAIN Table /\ Trap(s, "out of bounds")
                  \/ ~Exhausted(s) /\ i \in DOMAIN Table /\ ~matches /\ Trap(s, "type mismatch")
                  \/ ~Exhausted(s) /\ i \in DOMAIN Table /\ matches /\ EnterFn(s, Table[i])
<1> DEFINE s == CallSite(height - 1, Types[t], "body")
           i == regs[LocalsOf(fn) + height - 1]
           index == Loaded(s)[Live(s)]
           matches == Table[i] \in Fn /\ Table[i] # NoFn /\ Type(Table[i]) = Types[t]
<1>1. /\ pc = "body" /\ height > 0 /\ Callable(Types[t], height - 1)
      /\ \/ Exhaust(s)
         \/ /\ ~Exhausted(s)
            /\ \/ index \notin DOMAIN Table /\ Trap(s, "out of bounds")
               \/ /\ index \in DOMAIN Table
                  /\ SignatureWord(index) # CanonicalId(t) + 1
                  /\ Trap(s, "type mismatch")
               \/ /\ index \in DOMAIN Table
                  /\ SignatureWord(index) = CanonicalId(t) + 1
                  /\ EnterFn(s, Table[index])
    BY DEF CallIndirect, InBody
<1>2. Calling(s)
  <2>1. height \in Nat /\ height - 1 \in Nat /\ height - 1 <= height
    <3>1. height \in Nat /\ height > 0  BY <1>1 DEF IInv, FrameFits
    <3> QED BY <3>1
  <2>2. Types[t] \in [params : Nat, results : 0 .. MaxResults]  BY <1>1, TypeRecords DEF Callable
  <2> QED BY <1>1, <2>1, <2>2, BodyCalling
<1>3. ~Exhausted(s) => index = i  BY <1>1, IndexIsOperand
<1>4. i \in DOMAIN Table => (SignatureWord(i) = CanonicalId(t) + 1 <=> matches)  BY SignatureIsType
<1> HIDE DEF s, i, index, matches
<1>5. \/ Exhaust(s)
      \/ ~Exhausted(s) /\ i \notin DOMAIN Table /\ Trap(s, "out of bounds")
      \/ ~Exhausted(s) /\ i \in DOMAIN Table /\ ~matches /\ Trap(s, "type mismatch")
      \/ ~Exhausted(s) /\ i \in DOMAIN Table /\ matches /\ EnterFn(s, Table[i])
    BY <1>1, <1>3, <1>4
<1> QED BY <1>2, <1>5 DEF s, i, matches

\* An indirect call steps like a call to the slot's function, or traps.
LEMMA CallIndirectKeeps ==
    ASSUME IInv, NEW t \in DOMAIN Types, CallIndirect(t)
    PROVE  IInv'
<1> DEFINE s == CallSite(height - 1, Types[t], "body")
           i == regs[LocalsOf(fn) + height - 1]
<1>1. /\ Calling(s)
      /\ \/ Exhaust(s)
         \/ ~Exhausted(s) /\ Trap(s, "out of bounds")
         \/ ~Exhausted(s) /\ Trap(s, "type mismatch")
         \/ Table[i] \in Fn /\ EnterFn(s, Table[i])
    BY IndirectTarget
<1> HIDE DEF s, i
<1>2. SiteFits(s) /\ {"out of bounds", "type mismatch"} \subseteq Traps  BY <1>1 DEF Calling, Traps
<1>3. CASE Exhaust(s)  BY <1>2, <1>3, ExhaustKeeps
<1>4. CASE ~Exhausted(s) /\ Trap(s, "out of bounds")  BY <1>2, <1>4, TrapKeeps
<1>5. CASE ~Exhausted(s) /\ Trap(s, "type mismatch")  BY <1>2, <1>5, TrapKeeps
<1>6. CASE Table[i] \in Fn /\ EnterFn(s, Table[i])  BY <1>1, <1>6, EnterKeeps
<1> QED BY <1>1, <1>3, <1>4, <1>5, <1>6

\* The frame a return site goes back to.
LEMMA CallerFrame ==
    ASSUME IInv, pc = "resume"
    PROVE  /\ SiteFits(ra) /\ bases # <<>> /\ Len(bases) \in Nat /\ Len(bases) > 0
           /\ sp - FrameWords(ra) = From(bases, Len(bases))
           /\ From(bases, Len(bases)) \in StackStart .. StackWords
           /\ \A a \in From(bases, Len(bases)) .. sp - 2 : mem[a] \in {Datum(v) : v \in Value}
           /\ Len(bases) = 1 => ra.fn = Stub /\ ra.next \in {"args", "publish"}
           /\ Len(bases) # 1 => ra.fn \in Fn /\ ra.next = "body"
<1>1. /\ bases # <<>> /\ sp = bases[Len(bases)] /\ ra = mem[sp - 1].site
      /\ bases \in Seq(StackStart .. StackWords) /\ Linked(mem, bases)
    BY DEF IInv, Places, TypeOK
<1>2. Len(bases) \in Nat /\ Len(bases) > 0 /\ Len(bases) \in 1 .. Len(bases)
    BY <1>1, LenProperties, EmptySeq
<1>3. SpillAt(mem, From(bases, Len(bases)), sp, Len(bases) = 1)  BY <1>1, <1>2 DEF Linked
<1>4. /\ SiteFits(ra) /\ sp = From(bases, Len(bases)) + FrameWords(ra)
      /\ \A a \in From(bases, Len(bases)) .. sp - 2 : mem[a] \in {Datum(v) : v \in Value}
      /\ IF Len(bases) = 1 THEN ra.fn = Stub /\ ra.next \in {"args", "publish"}
         ELSE ra.fn \in Fn /\ ra.next = "body"
    BY <1>1, <1>3 DEF SpillAt
<1>5. From(bases, Len(bases)) \in StackStart .. StackWords
  <2>1. \A j \in 1 .. Len(bases) : bases[j] \in StackStart .. StackWords  BY <1>1, ElementOfSeq
  <2>2. ASSUME Len(bases) # 1 PROVE Len(bases) - 1 \in 1 .. Len(bases)
    <3> DEFINE n == Len(bases)
    <3>1. n \in Nat /\ n > 0 /\ n # 1  BY <1>2, <2>2
    <3> HIDE DEF n
    <3>2. n - 1 \in 1 .. n  BY <3>1
    <3> QED BY <3>2 DEF n
  <2> QED BY <2>1, <2>2, Sizes DEF From
<1>6. FrameWords(ra) \in Nat /\ From(bases, Len(bases)) \in Nat  BY <1>4, <1>5, SiteNumbers, Sizes
<1>7. sp - FrameWords(ra) = From(bases, Len(bases))  BY <1>4, <1>6
<1> QED BY <1>1, <1>2, <1>4, <1>5, <1>7

\* The return site moves SP back over the last frame and reloads what the
\* caller kept.
LEMMA ResumeKeeps ==
    ASSUME IInv, Resume
    PROVE  IInv'
<1> DEFINE back == sp - FrameWords(ra)
           at   == ArgsBase(ra)
<1>1. /\ pc = "resume" /\ sp' = back /\ fn' = ra.fn
      /\ regs' = [r \in Slot |-> IF r < at THEN mem[back + r].value
                                  ELSE IF r < at + ra.results THEN temps[r - at] ELSE regs[r]]
      /\ height' = ra.height - ra.params + ra.results /\ pc' = ra.next
      /\ bases' = SubSeq(bases, 1, Len(bases) - 1) /\ ra' = NoSite
      /\ temps' = temps /\ mem' = mem /\ outputs' = outputs
    BY DEF Resume
<1>2. /\ SiteFits(ra) /\ bases # <<>> /\ Len(bases) \in Nat /\ Len(bases) > 0
      /\ back = From(bases, Len(bases)) /\ back \in StackStart .. StackWords
      /\ \A a \in back .. sp - 2 : mem[a] \in {Datum(v) : v \in Value}
      /\ Len(bases) = 1 => ra.fn = Stub /\ ra.next \in {"args", "publish"}
      /\ Len(bases) # 1 => ra.fn \in Fn /\ ra.next = "body"
    BY <1>1, CallerFrame
<1>3. TypeOK /\ Linked(mem, bases) /\ GlobalsUntouched  BY DEF IInv
<1>4. /\ ra.fn \in Fn \cup {Stub} /\ ra.height \in Nat /\ ra.params \in Nat
      /\ ra.results \in Nat /\ ra.results <= MaxResults
      /\ Live(ra) \in Nat /\ at \in Nat /\ at <= Live(ra) /\ FrameWords(ra) = Live(ra) + 1
      /\ LocalsOf(ra.fn) \in Nat /\ LocalsOf(ra.fn) <= at
      /\ at = LocalsOf(ra.fn) + ra.height - ra.params /\ at + ra.results <= MaxFrame
    BY <1>2, SiteNumbers, Sizes DEF SiteFits
<1>5. back \in Nat /\ sp \in Nat /\ sp - 1 = back + Live(ra)
  <2>1. back \in Nat /\ sp \in Nat  BY <1>2, <1>3, Sizes DEF TypeOK
  <2> QED BY <2>1, <1>4
<1>6. /\ Linked(mem', bases') /\ bases' \in Seq(StackStart .. StackWords)
      /\ Len(bases') = Len(bases) - 1
      /\ \A i \in 1 .. Len(bases) - 1 : bases'[i] = bases[i]
    BY <1>1, <1>2, <1>3, ChainCut DEF TypeOK
<1> HIDE DEF back, at
<1>7. regs' \in [Slot -> Value]
  <2>1. ASSUME NEW r \in Slot
        PROVE  (IF r < at THEN mem[back + r].value
                ELSE IF r < at + ra.results THEN temps[r - at] ELSE regs[r]) \in Value
    <3>1. r \in Nat  BY Sizes DEF Slot
    <3>2. CASE r < at
      <4> DEFINE a == back + r
      <4>1. a \in back .. sp - 2  BY <1>4, <1>5, <3>1, <3>2
      <4> HIDE DEF a
      <4>2. PICK v \in Value : mem[a] = Datum(v)  BY <1>2, <4>1
      <4>3. mem[a].value \in Value  BY <4>2 DEF Datum
      <4> QED BY <3>2, <4>3 DEF a
    <3>3. CASE ~(r < at) /\ r < at + ra.results
      <4>1. r - at \in 0 .. MaxResults - 1  BY <1>4, <3>1, <3>3, Sizes
      <4>2. temps \in [0 .. MaxResults - 1 -> Value]  BY <1>3 DEF TypeOK
      <4> QED BY <3>3, <4>1, <4>2
    <3>4. CASE ~(r < at) /\ ~(r < at + ra.results)  BY <1>3, <3>4 DEF TypeOK
    <3> QED BY <3>2, <3>3, <3>4
  <2> QED BY <2>1, <1>1
<1>8. height' \in Nat /\ LocalsOf(fn') + height' <= MaxFrame
  <2>1. height' = ra.height - ra.params + ra.results /\ fn' = ra.fn  BY <1>1
  <2> QED BY <2>1, <1>4
<1>9. FrameFits' /\ height' \in 0 .. MaxFrame - LocalsOf(fn')  BY <1>1, <1>4, <1>8, Sizes DEF FrameFits
<1>10. TypeOK'
  <2>1. NoSite \in Site  BY Sizes DEF NoSite, Site
  <2>2. ra.next \in {"args", "body", "publish"}  BY <1>2
  <2> QED BY <2>1, <2>2, <1>1, <1>2, <1>3, <1>4, <1>6, <1>7, <1>9 DEF TypeOK
<1>11. Places'
  <2>1. CASE Len(bases) = 1  BY <1>2, <2>1, <1>6, EmptySeq, <1>1 DEF From, Places
  <2>2. CASE Len(bases) # 1
    <3> DEFINE n == Len(bases) - 1
    <3>1. ra.fn \in Fn /\ ra.next = "body" /\ back = bases[n]  BY <1>2, <2>2 DEF From
    <3>2. n \in 1 .. n /\ Len(bases') = n  BY <1>2, <2>2, <1>6
    <3>3. bases' # <<>>  BY <3>2, <1>6, EmptySeq
    <3>4. bases'[Len(bases')] = back  BY <3>1, <3>2, <1>6
    <3> QED BY <3>1, <3>3, <3>4, <1>1 DEF Places, AtStub
  <2> QED BY <2>1, <2>2
<1>12. GlobalsUntouched'  BY <1>1, <1>3 DEF GlobalsUntouched
<1> QED BY <1>6, <1>9, <1>10, <1>11, <1>12 DEF IInv

\* The stub's loads and publication, and the operators that are not calls.
LEMMA StubKeeps ==
    ASSUME IInv, Args \/ Publish
    PROVE  IInv'
<1>1. TypeOK /\ FrameFits /\ Places  BY DEF IInv
<1>2. CASE Args
  <2>1. /\ pc = "args" /\ regs' = LoadArgs /\ height' = Type(Export).params /\ pc' = "export"
        /\ UNCHANGED <<fn, temps, ra, sp, mem, outputs, bases>>
      BY <1>2 DEF Args
  <2>2. fn = Stub /\ sp = StackStart /\ bases = <<>>  BY <1>1, <2>1 DEF Places, AtStub
  <2>3. /\ Type(Export).params \in Nat /\ Type(Export).params <= MaxFrame
        /\ Inputs \in [0 .. Type(Export).params - 1 -> Value]
    <3>1. Export \in Fn /\ Inputs \in [0 .. Type(Export).params - 1 -> Value]  BY ModuleAssumption
    <3>2. /\ Type(Export).params \in Nat /\ Locals(Export) \in Nat
          /\ Type(Export).params <= Locals(Export) /\ Locals(Export) <= MaxFrame
        BY <3>1, TypesOfFunctions
    <3> QED BY <3>1, <3>2, Sizes
  <2>4. LoadArgs \in [Slot -> Value]
    <3>1. ASSUME NEW r \in Slot
          PROVE  (IF r < Type(Export).params THEN Inputs[r] ELSE regs[r]) \in Value
      <4>1. r \in Nat /\ regs[r] \in Value  BY <1>1, Sizes DEF TypeOK, Slot
      <4>2. r < Type(Export).params => r \in 0 .. Type(Export).params - 1  BY <4>1, <2>3
      <4> QED BY <2>3, <4>1, <4>2
    <3> QED BY <3>1 DEF LoadArgs
  <2>5. TypeOK' /\ FrameFits'  BY <2>1, <2>2, <2>3, Sizes, <1>1, <2>4 DEF FrameFits, TypeOK
  <2>6. Places'  BY <2>1, <2>2 DEF Places, AtStub
  <2> QED BY <2>1, <2>5, <2>6, LocalStep
<1>3. CASE Publish
  <2>1. /\ pc = "publish" /\ outputs' = [k \in 0 .. Type(Export).results - 1 |-> regs[k]]
        /\ pc' = "halt" /\ UNCHANGED <<fn, height, regs, temps, ra, sp, mem, bases>>
      BY <1>3 DEF Publish
  <2>2. outputs' \in [0 .. Type(Export).results - 1 -> Value]
    <3>1. Type(Export).results <= MaxFrame /\ Type(Export).results \in Nat
        BY ModuleAssumption, TypesOfFunctions
    <3>2. \A k \in 0 .. Type(Export).results - 1 : k \in Slot  BY <3>1, Sizes DEF Slot
    <3> QED BY <3>2, <2>1, <1>1 DEF TypeOK
  <2>3. TypeOK' /\ FrameFits'  BY <1>1, <2>1, <2>2 DEF TypeOK, FrameFits
  <2>4. Places'  BY <1>1, <2>1 DEF Places, AtStub
  <2> QED BY <2>1, <2>3, <2>4, LocalStep
<1> QED BY <1>2, <1>3

LEMMA BodyKeeps ==
    ASSUME IInv,
           \/ \E r \in Slot, v \in Value : SetSlot(r, v)
           \/ \E v \in Value : Push(v)
           \/ Pop
    PROVE  IInv'
<1>1. /\ TypeOK /\ FrameFits /\ Places /\ height \in Nat /\ regs \in [Slot -> Value]
      /\ fn \in Fn \cup {Stub} /\ LocalsOf(fn) \in Nat /\ LocalsOf(fn) + height <= MaxFrame
    BY Sizes DEF IInv, TypeOK, FrameFits
<1>2. ASSUME NEW r \in Slot, NEW v \in Value, SetSlot(r, v) PROVE IInv'
    BY <1>2, <1>1, LocalStep DEF SetSlot, InBody, TypeOK, FrameFits, Places
<1>3. ASSUME NEW v \in Value, Push(v) PROVE IInv'
  <2>1. /\ pc = "body" /\ LocalsOf(fn) + height < MaxFrame
        /\ regs' = [regs EXCEPT ![LocalsOf(fn) + height] = v] /\ height' = height + 1
        /\ UNCHANGED <<pc, fn, temps, ra, sp, mem, outputs, bases>>
      BY <1>3 DEF Push, InBody
  <2>2. regs' \in [Slot -> Value]  BY <1>1, <2>1
  <2>3. FrameFits' /\ height' \in 0 .. MaxFrame - LocalsOf(fn')  BY <1>1, <2>1, Sizes DEF FrameFits
  <2>4. TypeOK' /\ Places'  BY <1>1, <2>1, <2>2, <2>3 DEF TypeOK, Places, AtStub
  <2> QED BY <2>1, <2>3, <2>4, LocalStep
<1>4. CASE Pop  BY <1>4, <1>1, Sizes, LocalStep DEF Pop, InBody, FrameFits, TypeOK, Places, AtStub
<1> QED BY <1>2, <1>3, <1>4

\* A return reads its address from the word below SP.
LEMMA ReturnKeeps ==
    ASSUME IInv, Return
    PROVE  IInv'
<1> DEFINE n == Type(fn).results
<1>1. /\ pc = "body" /\ height >= n
      /\ temps' = [k \in 0 .. MaxResults - 1 |->
                      IF k < n THEN regs[LocalsOf(fn) + height - n + k] ELSE temps[k]]
      /\ ra' = mem[sp - 1].site /\ pc' = "resume"
      /\ UNCHANGED <<fn, height, regs, sp, mem, outputs, bases>>
    BY DEF Return, InBody
<1>2. /\ TypeOK /\ FrameFits /\ Places /\ Linked(mem, bases)
      /\ fn \in Fn /\ bases # <<>> /\ sp = bases[Len(bases)]
      /\ height \in Nat /\ regs \in [Slot -> Value] /\ temps \in [0 .. MaxResults - 1 -> Value]
      /\ bases \in Seq(StackStart .. StackWords)
    BY <1>1 DEF IInv, Places, FrameFits, TypeOK
<1>3. /\ n \in Nat /\ LocalsOf(fn) \in Nat /\ LocalsOf(fn) + height <= MaxFrame
    BY <1>2, TypesOfFunctions DEF FrameFits
<1> HIDE DEF n
<1>4. temps' \in [0 .. MaxResults - 1 -> Value]
  <2>1. ASSUME NEW k \in 0 .. MaxResults - 1
        PROVE  (IF k < n THEN regs[LocalsOf(fn) + height - n + k] ELSE temps[k]) \in Value
    <3>1. k < n => LocalsOf(fn) + height - n + k \in Slot  BY <1>1, <1>2, <1>3, Sizes DEF Slot
    <3> QED BY <3>1, <1>2
  <2> QED BY <2>1, <1>1
<1>5. ra' \in Site  BY <1>2, LenProperties, EmptySeq, <1>1 DEF Linked, SpillAt, SiteFits
<1>6. TypeOK' /\ FrameFits'  BY <1>1, <1>2, <1>4, <1>5 DEF TypeOK, FrameFits
<1>7. Places'  BY <1>1, <1>2 DEF Places, AtStub
<1> QED BY <1>1, <1>6, <1>7, LocalStep

-----------------------------------------------------------------------------
(* The theorems *)

LEMMA InitInvariant ==
    ASSUME Init
    PROVE  IInv
<1>1. /\ pc = (IF Start = NoFn THEN "args" ELSE "start") /\ fn = Stub /\ height = 0
      /\ regs = [s \in Slot |-> 0] /\ temps = [k \in 0 .. MaxResults - 1 |-> 0] /\ ra = NoSite
      /\ sp = StackStart /\ mem = [a \in Address |-> Datum(0)] /\ outputs = [k \in {} |-> 0]
      /\ bases = <<>>
    BY DEF Init
<1>2. 0 \in Value /\ Datum(0) \in Word /\ NoSite \in Site
    BY Sizes, ModuleAssumption DEF Datum, Word, NoSite, Site
<1>3. TypeOK  BY <1>1, Sizes, <1>2 DEF TypeOK
<1>4. FrameFits /\ Places  BY <1>1, Sizes, ModuleAssumption DEF FrameFits, Places, AtStub
<1>5. Linked(mem, bases)  BY <1>1 DEF Linked, Ascending
<1>6. GlobalsUntouched  BY <1>1, Sizes DEF GlobalsUntouched, Globals, Address
<1> QED BY <1>3, <1>4, <1>5, <1>6 DEF IInv

LEMMA StepInvariant ==
    ASSUME IInv, [Next]_vars
    PROVE  IInv'
<1>1. CASE RunStart  BY <1>1, StubCalling, EmitCallKeeps DEF RunStart
<1>2. CASE RunExport  BY <1>2, StubCalling, EmitCallKeeps DEF RunExport
<1>3. CASE Args \/ Publish  BY <1>3, StubKeeps
<1>4. CASE \/ \E r \in Slot, v \in Value : SetSlot(r, v)
           \/ \E v \in Value : Push(v)
           \/ Pop
    BY <1>4, BodyKeeps
<1>5. ASSUME NEW f \in Fn, Call(f) PROVE IInv'
    BY <1>5, TypesOfFunctions, TypeRecords, BodyCalling, EmitCallKeeps DEF Call, InBody, Type, Callable,
       IInv, FrameFits
<1>6. ASSUME NEW t \in DOMAIN Types, CallIndirect(t) PROVE IInv'  BY <1>6, CallIndirectKeeps
<1>7. CASE Return  BY <1>7, ReturnKeeps
<1>8. CASE Resume  BY <1>8, ResumeKeeps
<1>9. CASE UNCHANGED vars  BY <1>9, LocalStep DEF vars, IInv, TypeOK, FrameFits, Places
<1> QED BY <1>1, <1>2, <1>3, <1>4, <1>5, <1>6, <1>7, <1>8, <1>9 DEF Next

\* The invariant of the shadow stack: a chain of spilled frames, each under its
\* return address, of call sites whose frames fit the register file.
THEOREM StackInvariant == Spec => []IInv
BY InitInvariant, StepInvariant, PTL DEF Spec

\* Every variable has its type: registers, temporaries and memory hold what
\* emit_call and emit_return put there, and SP stays in the shadow stack.
THEOREM TypeCorrect == Spec => []TypeOK
<1>1. IInv => TypeOK  BY DEF IInv
<1> QED BY <1>1, StackInvariant, PTL

\* However deep the calls, no spill of emit_call writes a global.
THEOREM SpillsMissGlobals == Spec => []GlobalsUntouched
<1>1. IInv => GlobalsUntouched  BY DEF IInv
<1> QED BY <1>1, StackInvariant, PTL

\* For every type section and table, emit_indirect_target enters a slot's
\* function exactly when its type is structurally the expected one.
THEOREM IndirectSound == Spec => IndirectChecked
<1> DEFINE i == regs[LocalsOf(fn) + height - 1]
           matches(t) == Table[i] # NoFn /\ Type(Table[i]) = Types[t]
           Checked == \A t \in DOMAIN Types : CallIndirect(t) =>
               /\ pc' = "type mismatch" => i \in DOMAIN Table /\ ~matches(t)
               /\ pc' = "body" => i \in DOMAIN Table /\ matches(t) /\ fn' = Table[i]
<1>1. ASSUME IInv, [Next]_vars PROVE Checked
  <2>1. ASSUME NEW t \in DOMAIN Types, CallIndirect(t)
        PROVE  /\ pc' = "type mismatch" => i \in DOMAIN Table /\ ~matches(t)
               /\ pc' = "body" => i \in DOMAIN Table /\ matches(t) /\ fn' = Table[i]
    <3> DEFINE s == CallSite(height - 1, Types[t], "body")
               fits == Table[i] \in Fn /\ Table[i] # NoFn /\ Type(Table[i]) = Types[t]
    <3>1. \/ Exhaust(s)
          \/ i \notin DOMAIN Table /\ Trap(s, "out of bounds")
          \/ i \in DOMAIN Table /\ ~fits /\ Trap(s, "type mismatch")
          \/ i \in DOMAIN Table /\ fits /\ EnterFn(s, Table[i])
        BY <1>1, <2>1, IndirectTarget
    <3>2. i \in DOMAIN Table => (fits <=> matches(t))  BY ModuleAssumption
    <3> HIDE DEF s, i, fits, matches
    <3>3. CASE Exhaust(s)  BY <3>3 DEF Exhaust
    <3>4. CASE i \notin DOMAIN Table /\ Trap(s, "out of bounds")  BY <3>4 DEF Trap
    <3>5. CASE i \in DOMAIN Table /\ ~fits /\ Trap(s, "type mismatch")  BY <3>2, <3>5 DEF Trap
    <3>6. CASE i \in DOMAIN Table /\ fits /\ EnterFn(s, Table[i])  BY <3>2, <3>6 DEF EnterFn
    <3> QED BY <3>1, <3>3, <3>4, <3>5, <3>6
  <2> QED BY <2>1
<1>2. IInv /\ [Next]_vars => [Checked]_vars  BY <1>1
<1>3. Spec => [][Checked]_vars  BY <1>2, StackInvariant, PTL DEF Spec
<1> QED BY <1>3 DEF IndirectChecked

-----------------------------------------------------------------------------
(* The frames of the wasm instance *)

\* The function of open frame i.
CalleeAt(i) == IF i = Len(bases) THEN fn ELSE SiteOf(i).fn

\* What the frames read from the machine rest on besides IInv: every open frame
\* returns what its call site expects, only the export's frame returns to the
\* publication, and at a return site the results are in the temporaries.
Typed ==
    /\ pc = "export" => \A k \in 0 .. Type(Export).params - 1 : regs[k] = Inputs[k]
    /\ \A i \in 1 .. Len(bases) :
         mem[bases[i] - 1].site.results = Type(CalleeAt(i)).results
    /\ bases # <<>> =>
         /\ ArgsBase(mem[bases[1] - 1].site) = 0
         /\ mem[bases[1] - 1].site.next = "publish" => CalleeAt(1) = Export
    /\ pc = "resume" =>
         /\ height >= Type(fn).results
         /\ \A k \in 0 .. Type(fn).results - 1 :
              temps[k] = regs[LocalsOf(fn) + height - Type(fn).results + k]

\* Where the open frames are.
LEMMA FramesAt ==
    ASSUME IInv
    PROVE  /\ Len(bases) \in Nat /\ (bases = <<>> <=> Len(bases) = 0)
           /\ \A i \in 1 .. Len(bases) :
                bases[i] \in StackStart .. StackWords /\ bases[i] \in Nat
                /\ bases[i] - 1 \in Address
           /\ \A i, j \in 1 .. Len(bases) : i <= j => bases[i] <= bases[j]
<1>1. bases \in Seq(StackStart .. StackWords) /\ Linked(mem, bases)  BY DEF IInv, TypeOK
<1>2. Len(bases) \in Nat /\ (bases = <<>> <=> Len(bases) = 0)  BY <1>1, LenProperties, EmptySeq
<1>3. \A i \in 1 .. Len(bases) : bases[i] \in StackStart .. StackWords  BY <1>1, ElementOfSeq
<1>4. \A a \in StackStart .. StackWords : a \in Nat /\ a - 1 \in Address  BY Sizes DEF Address
<1> QED BY <1>1, <1>2, <1>3, <1>4 DEF Linked, Ascending

\* A frame that called another: its site and its slots.
LEMMA WaitingSite ==
    ASSUME IInv, NEW i \in 1 .. Len(bases) - 1
    PROVE  /\ i \in 1 .. Len(bases) /\ i + 1 \in 1 .. Len(bases)
           /\ SiteFits(SiteOf(i)) /\ SiteOf(i).fn \in Fn /\ SiteOf(i).next = "body"
           /\ bases[i + 1] = bases[i] + FrameWords(SiteOf(i))
           /\ \A a \in bases[i] .. bases[i + 1] - 2 : mem[a] \in {Datum(v) : v \in Value}
<1>1. i \in 1 .. Len(bases) /\ i + 1 \in 1 .. Len(bases) /\ i + 1 # 1 /\ (i + 1) - 1 = i
    BY FramesAt
<1>2. SpillAt(mem, From(bases, i + 1), bases[i + 1], i + 1 = 1)  BY <1>1 DEF IInv, Linked
<1>3. From(bases, i + 1) = bases[i]  BY <1>1 DEF From
<1> QED BY <1>1, <1>2, <1>3 DEF SpillAt, SiteOf

\* Such a frame is not disturbed by writes from the last frame's SP upwards.
LEMMA WaitingKept ==
    ASSUME IInv, NEW i \in 1 .. Len(bases) - 1,
           \A a \in Address : a < bases[Len(bases)] => mem'[a] = mem[a],
           bases'[i] = bases[i], bases'[i + 1] = bases[i + 1]
    PROVE  SiteOf(i)' = SiteOf(i) /\ WaitingFrame(i)' = WaitingFrame(i)
<1> DEFINE lo == bases[i]
           hi == bases[i + 1]
           top == bases[Len(bases)]
           s  == SiteOf(i)
           n  == Locals(s.fn)
           h  == s.height - s.params
<1>1. /\ SiteFits(s) /\ s.fn \in Fn /\ hi = lo + FrameWords(s)
      /\ i \in 1 .. Len(bases) /\ i + 1 \in 1 .. Len(bases)
    BY WaitingSite
<1>2. /\ lo \in Nat /\ hi \in Nat /\ lo >= 1 /\ hi <= StackWords /\ hi <= top /\ top \in Nat
    BY <1>1, FramesAt, Sizes
<1>3. /\ n \in Nat /\ h \in Nat /\ n + h <= Live(s) /\ FrameWords(s) = Live(s) + 1 /\ Live(s) \in Nat
  <2>1. LocalsOf(s.fn) = Locals(s.fn)  BY <1>1, TypesOfFunctions
  <2>2. /\ s.height \in Nat /\ s.params \in Nat /\ s.params <= s.height
        /\ Live(s) \in Nat /\ FrameWords(s) = Live(s) + 1 /\ LocalsOf(s.fn) \in Nat
        /\ Live(s) = LocalsOf(s.fn) + s.height
      BY <1>1, SiteNumbers DEF SiteFits, Live
  <2> QED BY <2>1, <2>2
<1> HIDE DEF lo, hi, top, n, h
<1>4. \A a \in lo .. hi - 1 : mem'[a] = mem[a]  BY <1>2, Sizes DEF Address, top
<1>5. SiteOf(i)' = s  BY <1>1, <1>2, <1>3, <1>4 DEF SiteOf, hi
<1> HIDE DEF s
<1>6. \A d \in 0 .. n - 1 : mem'[lo + d] = mem[lo + d]
  <2>1. \A d \in 0 .. n - 1 : lo + d \in lo .. hi - 1  BY <1>1, <1>2, <1>3
  <2> QED BY <1>4, <2>1
<1>7. \A d \in 0 .. h - 1 : mem'[lo + n + d] = mem[lo + n + d]  BY <1>1, <1>2, <1>3, <1>4
<1>8. WaitingFrame(i) = [fn |-> s.fn, height |-> h,
                         locals |-> [d \in 0 .. n - 1 |-> mem[lo + d].value],
                         operands |-> [d \in 0 .. h - 1 |-> mem[lo + n + d].value]]
    BY DEF WaitingFrame, Words, lo, n, h, s
<1>9. WaitingFrame(i)' = [fn |-> s.fn, height |-> h,
                          locals |-> [d \in 0 .. n - 1 |-> mem'[lo + d].value],
                          operands |-> [d \in 0 .. h - 1 |-> mem'[lo + n + d].value]]
    BY <1>5 DEF WaitingFrame, Words, lo, n, h
<1>10. /\ [d \in 0 .. n - 1 |-> mem'[lo + d].value] = [d \in 0 .. n - 1 |-> mem[lo + d].value]
       /\ [d \in 0 .. h - 1 |-> mem'[lo + n + d].value] = [d \in 0 .. h - 1 |-> mem[lo + n + d].value]
    BY <1>6, <1>7
<1> QED BY <1>5, <1>8, <1>9, <1>10 DEF s

\* A call opens its callee's frame over the caller's, cut below the arguments.
Opened(s, f) ==
    [fn |-> f, height |-> 0,
     locals |-> [k \in 0 .. Locals(f) - 1 |->
                   IF k < Type(f).params THEN regs[ArgsBase(s) + k] ELSE 0],
     operands |-> [d \in {} |-> 0]]
CallerCut(s) ==
    [fn |-> s.fn, height |-> s.height - s.params,
     locals |-> [d \in 0 .. Locals(s.fn) - 1 |-> regs[d]],
     operands |-> [d \in 0 .. s.height - s.params - 1 |-> regs[Locals(s.fn) + d]]]

LEMMA EnterFrames ==
    ASSUME IInv, NEW s, Calling(s), NEW f \in Fn, EnterFn(s, f), s.params = Type(f).params
    PROVE  /\ Len(bases') = Len(bases) + 1 /\ pc' = "body" /\ fn' = f /\ bases' # <<>>
           /\ \A i \in 1 .. Len(bases) :
                bases'[i] = bases[i] /\ mem'[bases[i] - 1] = mem[bases[i] - 1]
           /\ bases'[Len(bases) + 1] = sp' /\ mem'[sp' - 1] = Ret(s)
           /\ \A i \in 1 .. Len(bases) - 1 :
                SiteOf(i)' = SiteOf(i) /\ WaitingFrame(i)' = WaitingFrame(i)
           /\ \A i \in 1 .. Len(bases) :
                i = Len(bases) => SiteOf(i)' = s /\ WaitingFrame(i)' = CallerCut(s)
           /\ TopFrame' = Opened(s, f)
<1> DEFINE D == Len(bases)
<1>1. /\ ~Exhausted(s) /\ pc' = "body" /\ fn' = f /\ height' = 0
      /\ regs' = Entered(s, f) /\ sp' = sp + FrameWords(s) /\ mem' = Spilled(s)
      /\ bases' = Append(bases, sp')
    BY DEF EnterFn
<1>2. TypeOK /\ SiteFits(s) /\ bases \in Seq(StackStart .. StackWords) /\ sp \in Nat /\ sp >= 1
    BY Sizes DEF IInv, Calling, TypeOK
<1>3. D \in Nat /\ (bases = <<>> <=> D = 0) /\ (D # 0 => D \in 1 .. D)  BY FramesAt
<1>4. /\ Len(bases') = D + 1 /\ bases'[D + 1] = sp' /\ bases' # <<>>
      /\ \A i \in 1 .. D : bases'[i] = bases[i]
    BY <1>1, <1>2, <1>3
<1>5. \A a \in Address : a < sp => mem'[a] = mem[a]  BY <1>1, <1>2, SpillStaysBelowGuard
<1>6. \A i \in 1 .. D : mem'[bases[i] - 1] = mem[bases[i] - 1]
  <2>1. ASSUME NEW i \in 1 .. D PROVE mem'[bases[i] - 1] = mem[bases[i] - 1]
      BY BasesBelow, FramesAt, <1>2, <1>5 DEF Calling
  <2> QED BY <2>1
<1>7. /\ Live(s) \in Nat /\ FrameWords(s) = Live(s) + 1 /\ LocalsOf(s.fn) \in Nat
      /\ s.height \in Nat /\ s.params \in Nat /\ s.params <= s.height
      /\ ArgsBase(s) \in Nat /\ ArgsBase(s) + s.params = Live(s) /\ Live(s) <= MaxFrame
      /\ ArgsBase(s) = LocalsOf(s.fn) + (s.height - s.params)
    BY <1>2, SiteNumbers DEF SiteFits
<1>8. sp' - 1 = sp + Live(s) /\ mem'[sp' - 1] = Ret(s)
  <2>1. sp' - 1 = sp + Live(s)  BY <1>1, <1>2, <1>7
  <2> QED BY <2>1, <1>1, <1>2, SpillWhole
<1>9. \A r \in 0 .. Live(s) - 1 : r \in Slot /\ mem'[sp + r].value = regs[r]
  <2>1. ASSUME NEW r \in 0 .. Live(s) - 1 PROVE r \in Slot /\ mem'[sp + r].value = regs[r]
    <3>1. r \in Slot /\ mem'[sp + r] = Datum(regs[r])  BY <1>1, <1>2, SpillWhole
    <3>2. Datum(regs[r]).value = regs[r]  BY DEF Datum
    <3> QED BY <3>1, <3>2
  <2> QED BY <2>1
<1>10. ASSUME NEW i \in 1 .. D - 1
       PROVE  SiteOf(i)' = SiteOf(i) /\ WaitingFrame(i)' = WaitingFrame(i)
    BY <1>3, <1>4, <1>5, WaitingKept DEF Calling
<1>11. ASSUME NEW i \in 1 .. D, i = D
       PROVE  SiteOf(i)' = s /\ WaitingFrame(i)' = CallerCut(s)
  <2> DEFINE n == Locals(s.fn)
             h == s.height - s.params
  <2>1. s.fn \in Fn /\ bases[i] = sp  BY <1>3, <1>11 DEF Calling
  <2>2. LocalsOf(s.fn) = n /\ n \in Nat  BY <2>1, TypesOfFunctions
  <2>3. bases'[i] = sp /\ bases'[i + 1] = sp'  BY <2>1, <1>4, <1>11
  <2>4. SiteOf(i)' = s  BY <2>3, <1>8 DEF SiteOf, Ret
  <2> HIDE DEF n, h
  <2>5. h \in Nat /\ n + h <= Live(s)  BY <1>7, <2>2 DEF h
  <2>6. ASSUME NEW d \in 0 .. n - 1 PROVE mem'[sp + d].value = regs[d]  BY <1>9, <1>7, <2>2, <2>5
  <2>7. ASSUME NEW d \in 0 .. h - 1 PROVE mem'[sp + n + d].value = regs[n + d]
    <3> DEFINE r == n + d
    <3>1. r \in 0 .. Live(s) - 1 /\ sp + n + d = sp + r  BY <1>2, <1>7, <2>2, <2>5
    <3> HIDE DEF r
    <3> QED BY <3>1, <1>9 DEF r
  <2>8. WaitingFrame(i)' = [fn |-> s.fn, height |-> h,
                            locals |-> [d \in 0 .. n - 1 |-> mem'[sp + d].value],
                            operands |-> [d \in 0 .. h - 1 |-> mem'[sp + n + d].value]]
      BY <2>3, <2>4 DEF WaitingFrame, Words, n, h
  <2>9. /\ [d \in 0 .. n - 1 |-> mem'[sp + d].value] = [d \in 0 .. n - 1 |-> regs[d]]
        /\ [d \in 0 .. h - 1 |-> mem'[sp + n + d].value] = [d \in 0 .. h - 1 |-> regs[n + d]]
      BY <2>6, <2>7
  <2>10. CallerCut(s) = [fn |-> s.fn, height |-> h,
                         locals |-> [d \in 0 .. n - 1 |-> regs[d]],
                         operands |-> [d \in 0 .. h - 1 |-> regs[n + d]]]
      BY DEF CallerCut, n, h
  <2> QED BY <2>4, <2>8, <2>9, <2>10
<1>12. TopFrame' = Opened(s, f)
  <2> DEFINE p == Type(f).params
             n == Locals(f)
  <2>1. n \in Nat /\ p \in Nat /\ p <= n /\ n <= MaxFrame  BY TypesOfFunctions
  <2>2. TopFrame' = [fn |-> f, height |-> 0,
                     locals |-> [d \in 0 .. n - 1 |-> regs'[0 + d]],
                     operands |-> [d \in 0 .. 0 - 1 |-> regs'[n + d]]]
      BY <1>1 DEF TopFrame, RegFile
  <2> HIDE DEF p, n
  <2>3. ASSUME NEW k \in 0 .. n - 1
        PROVE  regs'[0 + k] = IF k < p THEN regs[ArgsBase(s) + k] ELSE 0
      BY <2>1, Sizes, <1>1, <1>2, LoadedArguments DEF Slot, Entered, p, n
  <2>4. [d \in 0 .. n - 1 |-> regs'[0 + d]]
          = [k \in 0 .. n - 1 |-> IF k < p THEN regs[ArgsBase(s) + k] ELSE 0]
      BY <2>3
  <2>5. [d \in 0 .. 0 - 1 |-> regs'[n + d]] = [d \in {} |-> 0]  OBVIOUS
  <2> QED BY <2>2, <2>4, <2>5 DEF Opened, p, n
<1> QED BY <1>1, <1>4, <1>6, <1>8, <1>10, <1>11, <1>12

\* A call site that says of its callee what it is.
Sound(s, f) ==
    /\ Calling(s) /\ f \in Fn
    /\ s.params = Type(f).params /\ s.results = Type(f).results
    /\ bases # <<>> => pc = "body" /\ s.fn = fn /\ s.height <= height
    /\ bases = <<>> => ArgsBase(s) = 0 /\ (s.next = "publish" => f = Export)

LEMMA StubSound ==
    ASSUME IInv
    PROVE  /\ pc = "start" => Sound(CallSite(0, Type(Start), "args"), Start)
           /\ pc = "export" => Sound(CallSite(height, Type(Export), "publish"), Export)
<1>1. ASSUME pc = "start" PROVE Sound(CallSite(0, Type(Start), "args"), Start)
  <2> DEFINE s == CallSite(0, Type(Start), "args")
  <2>1. fn = Stub /\ bases = <<>> /\ Start \in Fn /\ Calling(s)
      BY <1>1, StubCalling DEF IInv, Places, AtStub
  <2>2. Type(Start) = [params |-> 0, results |-> 0]  BY <2>1, ModuleAssumption
  <2>3. s = [fn |-> Stub, height |-> 0, params |-> 0, results |-> 0, next |-> "args"]
      BY <2>1, <2>2 DEF CallSite
  <2> HIDE DEF s
  <2>4. ArgsBase(s) = 0  BY <2>3, Sizes DEF ArgsBase, Live
  <2>5. Sound(s, Start)  BY <2>1, <2>2, <2>3, <2>4 DEF Sound
  <2> QED BY <2>5 DEF s
<1>2. ASSUME pc = "export" PROVE Sound(CallSite(height, Type(Export), "publish"), Export)
  <2> DEFINE s == CallSite(height, Type(Export), "publish")
  <2>1. /\ fn = Stub /\ bases = <<>> /\ Export \in Fn /\ Calling(s)
        /\ height = Type(Export).params /\ height \in Nat
      BY <1>2, StubCalling DEF IInv, Places, AtStub, FrameFits
  <2>2. s = [fn |-> Stub, height |-> height, params |-> height,
             results |-> Type(Export).results, next |-> "publish"]
      BY <2>1 DEF CallSite
  <2> HIDE DEF s
  <2>3. ArgsBase(s) = 0  BY <2>1, <2>2, Sizes DEF ArgsBase, Live
  <2>4. Sound(s, Export)  BY <2>1, <2>2, <2>3 DEF Sound
  <2> QED BY <2>4 DEF s
<1> QED BY <1>1, <1>2

LEMMA CallSound ==
    ASSUME IInv, NEW f \in Fn, Call(f)
    PROVE  /\ Sound(CallSite(height, Type(f), "body"), f)
           /\ EmitCall(CallSite(height, Type(f), "body"), f)
<1> DEFINE s == CallSite(height, Type(f), "body")
<1>1. pc = "body" /\ Callable(Type(f), height) /\ EmitCall(s, f)  BY DEF Call, InBody
<1>2. Type(f) \in [params : Nat, results : 0 .. MaxResults]
    BY TypesOfFunctions, <1>1, TypeRecords DEF Type, Callable
<1>3. height \in Nat /\ height <= height /\ bases # <<>>  BY <1>1 DEF IInv, FrameFits, Places
<1>4. Calling(s)  BY <1>1, <1>2, <1>3, BodyCalling
<1>5. s.fn = fn /\ s.height = height /\ s.params = Type(f).params /\ s.results = Type(f).results
    BY DEF CallSite
<1> HIDE DEF s
<1>6. Sound(s, f)  BY <1>1, <1>3, <1>4, <1>5 DEF Sound
<1> QED BY <1>1, <1>6 DEF s

LEMMA IndirectSite ==
    ASSUME IInv, NEW t \in DOMAIN Types, CallIndirect(t)
    PROVE  LET s == CallSite(height - 1, Types[t], "body")
           IN  /\ pc = "body" /\ height > 0 /\ Calling(s) /\ bases # <<>>
               /\ s.fn = fn /\ s.height = height - 1 /\ s.params = Types[t].params
               /\ \A f \in Fn : Type(f) = Types[t] => Sound(s, f)
<1> DEFINE s == CallSite(height - 1, Types[t], "body")
<1>1. pc = "body" /\ height > 0 /\ Calling(s)  BY IndirectTarget DEF CallIndirect, InBody
<1>2. bases # <<>> /\ height \in Nat  BY <1>1 DEF IInv, Places, FrameFits
<1>3. s.fn = fn /\ s.height = height - 1 /\ s.params = Types[t].params /\ s.results = Types[t].results
    BY DEF CallSite
<1> HIDE DEF s
<1>4. ASSUME NEW f \in Fn, Type(f) = Types[t] PROVE Sound(s, f)  BY <1>2, <1>3, <1>1, <1>4 DEF Sound
<1> QED BY <1>1, <1>2, <1>3, <1>4 DEF s

LEMMA EnterTyped ==
    ASSUME IInv, Typed, NEW s, NEW f \in Fn, Sound(s, f), EnterFn(s, f)
    PROVE  Typed'
<1>1. /\ Len(bases') = Len(bases) + 1 /\ pc' = "body" /\ fn' = f /\ bases' # <<>>
      /\ \A i \in 1 .. Len(bases) :
           bases'[i] = bases[i] /\ mem'[bases[i] - 1] = mem[bases[i] - 1]
      /\ bases'[Len(bases) + 1] = sp' /\ mem'[sp' - 1] = Ret(s)
      /\ \A i \in 1 .. Len(bases) - 1 : SiteOf(i)' = SiteOf(i)
      /\ \A i \in 1 .. Len(bases) : i = Len(bases) => SiteOf(i)' = s
    BY EnterFrames DEF Sound
<1>2. Len(bases) \in Nat /\ (bases = <<>> <=> Len(bases) = 0)  BY FramesAt
<1>3. ASSUME NEW i \in 1 .. Len(bases) PROVE CalleeAt(i)' = CalleeAt(i)
  <2>1. CalleeAt(i)' = (IF i = Len(bases') THEN fn' ELSE SiteOf(i)'.fn) /\ i # Len(bases')
      BY <1>1, <1>2 DEF CalleeAt
  <2>2. CASE i = Len(bases)  BY <1>2, <1>1, <2>1, <2>2 DEF Sound, CalleeAt
  <2>3. CASE i \in 1 .. Len(bases) - 1 /\ i # Len(bases)  BY <1>1, <2>1, <2>3 DEF CalleeAt
  <2> QED BY <1>2, <2>2, <2>3
<1>4. ASSUME NEW i \in 1 .. Len(bases')
      PROVE  mem'[bases'[i] - 1].site.results = Type(CalleeAt(i)').results
  <2>1. CASE i \in 1 .. Len(bases)  BY <2>1, <1>1, <1>3 DEF Typed
  <2>2. CASE i = Len(bases')  BY <2>2, <1>1 DEF Ret, CalleeAt, Sound
  <2> QED BY <2>1, <2>2, <1>1, <1>2
<1>5. /\ ArgsBase(mem'[bases'[1] - 1].site) = 0
      /\ mem'[bases'[1] - 1].site.next = "publish" => CalleeAt(1)' = Export
  <2>1. CASE bases = <<>>  BY <2>1, <1>1, <1>2 DEF Ret, CalleeAt, Sound
  <2>2. CASE bases # <<>>  BY <2>2, <1>2, <1>1, <1>3 DEF Typed
  <2> QED BY <2>1, <2>2
<1>6. ArgsBase(mem[bases[1] - 1].site)' = ArgsBase(mem'[bases'[1] - 1].site)
    BY DEF ArgsBase, Live, LocalsOf
<1> QED BY <1>1, <1>4, <1>5, <1>6 DEF Typed

\* A return site drops the last frame and pushes the results for its caller.
LEMMA ResumeFrames ==
    ASSUME IInv, Resume
    PROVE  /\ Len(bases) \in Nat /\ Len(bases) > 0 /\ Len(bases') = Len(bases) - 1
           /\ \A i \in 1 .. Len(bases) - 1 : bases'[i] = bases[i]
           /\ mem' = mem /\ pc = "resume" /\ pc' = ra.next /\ fn' = ra.fn
           /\ ra = mem[bases[Len(bases)] - 1].site
           /\ ra.results \in Nat
           /\ Len(bases) = 1 => pc' \in {"args", "publish"}
           /\ Len(bases) # 1 => pc' = "body"
           /\ \A k \in 0 .. ra.results - 1 : regs'[ArgsBase(ra) + k] = temps[k]
           /\ \A i \in 1 .. Len(bases) - 2 :
                SiteOf(i)' = SiteOf(i) /\ WaitingFrame(i)' = WaitingFrame(i)
           /\ \A i \in 1 .. Len(bases) - 1 : i = Len(bases) - 1 =>
                LET fr == WaitingFrame(i)
                IN  /\ SiteOf(i) = ra /\ fr.height \in Nat
                    /\ TopFrame' = [fn |-> fr.fn, height |-> fr.height + ra.results,
                                    locals |-> fr.locals,
                                    operands |-> [d \in 0 .. fr.height + ra.results - 1 |->
                                       IF d < fr.height THEN fr.operands[d]
                                       ELSE temps[d - fr.height]]]
<1> DEFINE D == Len(bases)
           back == sp - FrameWords(ra)
           at   == ArgsBase(ra)
<1>1. /\ pc = "resume" /\ sp' = back /\ fn' = ra.fn
      /\ regs' = [r \in Slot |-> IF r < at THEN mem[back + r].value
                                  ELSE IF r < at + ra.results THEN temps[r - at] ELSE regs[r]]
      /\ height' = ra.height - ra.params + ra.results /\ pc' = ra.next
      /\ bases' = SubSeq(bases, 1, Len(bases) - 1) /\ mem' = mem
    BY DEF Resume
<1>2. /\ SiteFits(ra) /\ bases # <<>> /\ D \in Nat /\ D > 0
      /\ back = From(bases, D)
      /\ D = 1 => ra.fn = Stub /\ ra.next \in {"args", "publish"}
      /\ D # 1 => ra.fn \in Fn /\ ra.next = "body"
    BY <1>1, CallerFrame
<1>3. ra = mem[bases[D] - 1].site  BY <1>1, <1>2 DEF IInv, Places
<1>4. Len(bases') = D - 1 /\ \A i \in 1 .. D - 1 : bases'[i] = bases[i]
    BY <1>1, <1>2, ChainCut DEF IInv, TypeOK
<1>5. /\ ra.height \in Nat /\ ra.params \in Nat /\ ra.params <= ra.height /\ ra.results \in Nat
      /\ LocalsOf(ra.fn) \in Nat /\ at \in Nat /\ at = LocalsOf(ra.fn) + (ra.height - ra.params)
      /\ at + ra.results <= MaxFrame
    BY <1>2, SiteNumbers, Sizes DEF SiteFits
<1> HIDE DEF D, back, at
<1>6. ASSUME NEW k \in 0 .. ra.results - 1 PROVE regs'[at + k] = temps[k]
  <2> DEFINE r == at + k
  <2>1. r \in Slot /\ ~(r < at) /\ r < at + ra.results /\ r - at = k  BY <1>5, Sizes DEF Slot
  <2> HIDE DEF r
  <2>2. regs'[r] = temps[k]  BY <1>1, <2>1
  <2> QED BY <2>2 DEF r
<1>7. ASSUME NEW i \in 1 .. D - 2
      PROVE  SiteOf(i)' = SiteOf(i) /\ WaitingFrame(i)' = WaitingFrame(i)
  <2>1. bases'[i] = bases[i] /\ bases'[i + 1] = bases[i + 1]  BY <1>2, <1>4
  <2> QED BY <2>1, <1>1 DEF WaitingFrame, SiteOf, Words
<1>8. ASSUME NEW i \in 1 .. D - 1, i = D - 1
      PROVE  LET fr == WaitingFrame(i)
             IN  /\ SiteOf(i) = ra /\ fr.height \in Nat
                 /\ TopFrame' = [fn |-> fr.fn, height |-> fr.height + ra.results,
                                 locals |-> fr.locals,
                                 operands |-> [d \in 0 .. fr.height + ra.results - 1 |->
                                    IF d < fr.height THEN fr.operands[d]
                                    ELSE temps[d - fr.height]]]
  <2> DEFINE n == Locals(ra.fn)
             h == ra.height - ra.params
             q == ra.results
  <2>1. i + 1 = D /\ D # 1 /\ i \in Nat  BY <1>2, <1>8
  <2>2. SiteOf(i) = ra  BY <2>1, <1>3 DEF SiteOf
  <2>3. back = bases[i]  BY <2>1, <1>2, <1>8 DEF From
  <2>4. n = LocalsOf(ra.fn) /\ n \in Nat /\ h \in Nat /\ q \in Nat /\ at = n + h
        /\ n + h + q <= MaxFrame
      BY <1>2, <2>1, TypesOfFunctions, <1>5
  <2>5. back \in Nat  BY <2>1, <1>2, FramesAt, <2>3 DEF D
  <2> HIDE DEF n, h, q
  <2>6. WaitingFrame(i) = [fn |-> ra.fn, height |-> h,
                           locals |-> [d \in 0 .. n - 1 |-> mem[back + d].value],
                           operands |-> [d \in 0 .. h - 1 |-> mem[back + n + d].value]]
      BY <2>2, <2>3 DEF WaitingFrame, Words, n, h
  <2>7. TopFrame' = [fn |-> ra.fn, height |-> h + q,
                     locals |-> [d \in 0 .. n - 1 |-> regs'[0 + d]],
                     operands |-> [d \in 0 .. h + q - 1 |-> regs'[n + d]]]
    <3>1. fn' = ra.fn /\ height' = h + q  BY <1>1 DEF h, q
    <3>2. Locals(fn') = n  BY <3>1 DEF n
    <3> QED BY <3>1, <3>2, <2>4 DEF TopFrame, RegFile
  <2>8. \A r \in Slot : /\ r < at => regs'[r] = mem[back + r].value
                        /\ ~(r < at) /\ r < at + q => regs'[r] = temps[r - at]
      BY <1>1 DEF q
  <2>9. ASSUME NEW d \in 0 .. n - 1 PROVE regs'[0 + d] = mem[back + d].value
      BY <2>4, Sizes, <2>8 DEF Slot
  <2>10. ASSUME NEW d \in 0 .. h + q - 1
         PROVE  regs'[n + d] = IF d < h THEN mem[back + n + d].value ELSE temps[d - h]
    <3> DEFINE r == n + d
    <3>1. r \in Slot /\ r < at + q /\ (d < h <=> r < at) /\ back + n + d = back + r
          /\ d - h = r - at
        BY <2>4, <2>5, Sizes DEF Slot
    <3> HIDE DEF r
    <3>2. regs'[r] = IF d < h THEN mem[back + n + d].value ELSE temps[d - h]  BY <3>1, <2>8
    <3> QED BY <3>2 DEF r
  <2>11. [d \in 0 .. n - 1 |-> regs'[0 + d]] = [d \in 0 .. n - 1 |-> mem[back + d].value]  BY <2>9
  <2>12. [d \in 0 .. h + q - 1 |-> regs'[n + d]]
           = [d \in 0 .. h + q - 1 |->
                IF d < h THEN [e \in 0 .. h - 1 |-> mem[back + n + e].value][d] ELSE temps[d - h]]
      BY <2>4, <2>10
  <2>13. WaitingFrame(i).height = h /\ WaitingFrame(i).fn = ra.fn
         /\ WaitingFrame(i).locals = [d \in 0 .. n - 1 |-> mem[back + d].value]
         /\ WaitingFrame(i).operands = [d \in 0 .. h - 1 |-> mem[back + n + d].value]
      BY <2>6
  <2> DEFINE w == WaitingFrame(i)
  <2>14. w.height = h /\ w.fn = ra.fn
         /\ w.locals = [d \in 0 .. n - 1 |-> mem[back + d].value]
         /\ w.operands = [e \in 0 .. h - 1 |-> mem[back + n + e].value]
      BY <2>13
  <2> HIDE DEF w
  <2>15. TopFrame' = [fn |-> w.fn, height |-> w.height + q, locals |-> w.locals,
                      operands |-> [d \in 0 .. w.height + q - 1 |->
                         IF d < w.height THEN w.operands[d] ELSE temps[d - w.height]]]
    <3>1. TopFrame' = [fn |-> ra.fn, height |-> h + q,
                       locals |-> [d \in 0 .. n - 1 |-> mem[back + d].value],
                       operands |-> [d \in 0 .. h + q - 1 |->
                          IF d < h THEN [e \in 0 .. h - 1 |-> mem[back + n + e].value][d]
                          ELSE temps[d - h]]]
        BY <2>7, <2>11, <2>12
    <3> QED BY <3>1, <2>4, <2>14
  <2> QED BY <2>2, <2>4, <2>14, <2>15 DEF q, w
<1> QED BY <1>1, <1>2, <1>3, <1>4, <1>5, <1>6, <1>7, <1>8 DEF D, at

LEMMA ResumeTyped ==
    ASSUME IInv, Typed, Resume
    PROVE  Typed'
<1>1. /\ Len(bases) \in Nat /\ Len(bases) > 0 /\ Len(bases') = Len(bases) - 1
      /\ \A i \in 1 .. Len(bases) - 1 : bases'[i] = bases[i]
      /\ mem' = mem /\ pc' \in {"args", "publish", "body"} /\ fn' = ra.fn
      /\ \A i \in 1 .. Len(bases) - 2 : SiteOf(i)' = SiteOf(i)
      /\ \A i \in 1 .. Len(bases) - 1 : i = Len(bases) - 1 => SiteOf(i) = ra
    BY ResumeFrames
<1>2. ASSUME NEW i \in 1 .. Len(bases) - 1 PROVE CalleeAt(i)' = CalleeAt(i)
  <2>1. i # Len(bases) /\ CalleeAt(i) = SiteOf(i).fn  BY <1>1 DEF CalleeAt
  <2>2. CASE i = Len(bases) - 1  BY <1>1, <2>1, <2>2 DEF CalleeAt
  <2>3. CASE i \in 1 .. Len(bases) - 2 /\ i # Len(bases')  BY <1>1, <2>1, <2>3 DEF CalleeAt
  <2> QED BY <1>1, <2>2, <2>3
<1>3. ASSUME NEW i \in 1 .. Len(bases')
      PROVE  mem'[bases'[i] - 1].site.results = Type(CalleeAt(i)').results
    BY <1>1, <1>2 DEF Typed
<1>4. ASSUME bases' # <<>>
      PROVE  /\ ArgsBase(mem'[bases'[1] - 1].site) = 0
             /\ mem'[bases'[1] - 1].site.next = "publish" => CalleeAt(1)' = Export
  <2>1. Len(bases') # 0  BY ResumeKeeps, <1>4, EmptySeq DEF IInv, TypeOK
  <2>2. 1 \in 1 .. Len(bases) - 1 /\ bases # <<>>  BY <2>1, <1>1, FramesAt
  <2>3. bases'[1] = bases[1] /\ CalleeAt(1)' = CalleeAt(1)  BY <2>2, <1>1, <1>2
  <2> QED BY <2>2, <2>3, <1>1 DEF Typed
<1>5. ArgsBase(mem[bases[1] - 1].site)' = ArgsBase(mem'[bases'[1] - 1].site)
    BY DEF ArgsBase, Live, LocalsOf
<1> QED BY <1>1, <1>3, <1>4, <1>5 DEF Typed

LEMMA NoIndex == \A i \in 1 .. 0 : FALSE
OBVIOUS

\* A run stopped by the guard or a trap has no open frame.
LEMMA StoppedTyped ==
    ASSUME bases' = <<>>, pc' \in {"exhausted", "out of bounds", "type mismatch", "args"}
    PROVE  Typed'
<1>1. \A i \in 1 .. Len(bases') : FALSE  BY NoIndex
<1>2. pc' # "export" /\ pc' # "resume"  OBVIOUS
<1> QED BY <1>1, <1>2 DEF Typed

\* Steps within a body do not disturb what the open frames return.
LEMMA QuietTyped ==
    ASSUME Typed, UNCHANGED <<fn, mem, bases>>, pc' # "export", pc' # "resume"
    PROVE  Typed'
<1>1. \A i \in 1 .. Len(bases) : CalleeAt(i)' = CalleeAt(i)  BY DEF CalleeAt, SiteOf
<1>2. CalleeAt(1)' = CalleeAt(1) /\ ArgsBase(mem[bases[1] - 1].site)' = ArgsBase(mem[bases[1] - 1].site)
    BY DEF CalleeAt, SiteOf, ArgsBase, Live, LocalsOf
<1> QED BY <1>1, <1>2 DEF Typed

LEMMA EmitTyped ==
    ASSUME IInv, Typed, NEW s, NEW f \in Fn, Sound(s, f), EmitCall(s, f)
    PROVE  Typed'
<1>1. CASE EnterFn(s, f)  BY <1>1, EnterTyped
<1>2. CASE Exhaust(s)  BY <1>2, StoppedTyped DEF Exhaust
<1> QED BY <1>1, <1>2 DEF EmitCall

LEMMA IndirectTyped ==
    ASSUME IInv, Typed, NEW t \in DOMAIN Types, CallIndirect(t)
    PROVE  Typed'
<1> DEFINE s == CallSite(height - 1, Types[t], "body")
           i == regs[LocalsOf(fn) + height - 1]
<1>1. \/ Exhaust(s) \/ Trap(s, "out of bounds") \/ Trap(s, "type mismatch")
      \/ Table[i] \in Fn /\ Type(Table[i]) = Types[t] /\ EnterFn(s, Table[i])
    BY IndirectTarget
<1>2. \A f \in Fn : Type(f) = Types[t] => Sound(s, f)  BY IndirectSite
<1> HIDE DEF s, i
<1>3. CASE Exhaust(s) \/ Trap(s, "out of bounds") \/ Trap(s, "type mismatch")
    BY <1>3, StoppedTyped DEF Exhaust, Trap
<1>4. CASE Table[i] \in Fn /\ Type(Table[i]) = Types[t] /\ EnterFn(s, Table[i])
    BY <1>2, <1>4, EnterTyped
<1> QED BY <1>1, <1>3, <1>4

\* A return leaves the results in the temporaries and jumps to the return site.
LEMMA ReturnTyped ==
    ASSUME IInv, Typed, Return
    PROVE  Typed'
<1> DEFINE n == Type(fn).results
<1>1. /\ height >= n /\ pc' = "resume"
      /\ temps' = [k \in 0 .. MaxResults - 1 |->
                      IF k < n THEN regs[LocalsOf(fn) + height - n + k] ELSE temps[k]]
      /\ UNCHANGED <<fn, height, regs, sp, mem, outputs, bases>>
    BY DEF Return
<1>2. n \in Nat /\ n <= MaxResults /\ MaxResults \in Nat
    BY TypesOfFunctions, Sizes DEF Return, InBody, IInv, Places
<1>3. \A i \in 1 .. Len(bases) : CalleeAt(i)' = CalleeAt(i)  BY <1>1 DEF CalleeAt, SiteOf
<1>4. CalleeAt(1)' = CalleeAt(1) /\ ArgsBase(mem[bases[1] - 1].site)' = ArgsBase(mem[bases[1] - 1].site)
    BY <1>1 DEF CalleeAt, SiteOf, ArgsBase, Live, LocalsOf
<1>5. Type(fn)' = Type(fn) /\ LocalsOf(fn)' = LocalsOf(fn)  BY <1>1 DEF Type, LocalsOf, Locals
<1> HIDE DEF n
<1>6. \A k \in 0 .. n - 1 : temps'[k] = regs[LocalsOf(fn) + height - n + k]  BY <1>2, <1>1
<1>7. \A k \in 0 .. Type(fn)'.results - 1 :
        temps'[k] = regs'[LocalsOf(fn)' + height' - Type(fn)'.results + k]
    BY <1>1, <1>5, <1>6 DEF n
<1>8. height' >= Type(fn)'.results  BY <1>1, <1>5 DEF n
<1> QED BY <1>1, <1>3, <1>4, <1>7, <1>8 DEF Typed

LEMMA TypedInit ==
    ASSUME Init
    PROVE  Typed
<1>1. bases = <<>> /\ Len(bases) = 0 /\ pc # "export" /\ pc # "resume"  BY DEF Init
<1>2. \A i \in 1 .. Len(bases) : FALSE  BY <1>1
<1> QED BY <1>1, <1>2 DEF Typed

LEMMA TypedStep ==
    ASSUME IInv, Typed, [Next]_vars
    PROVE  Typed'
<1>1. CASE RunStart  BY <1>1, StubSound, StubCalling, EmitTyped DEF RunStart
<1>2. CASE RunExport  BY <1>2, StubSound, StubCalling, EmitTyped DEF RunExport
<1>3. CASE Args
  <2>1. bases = <<>> /\ bases' = bases /\ pc' = "export" /\ regs' = LoadArgs
      BY <1>3 DEF Args, IInv, Places, AtStub
  <2>2. \A i \in 1 .. Len(bases') : FALSE  BY <2>1
  <2>3. ASSUME NEW k \in 0 .. Type(Export).params - 1 PROVE regs'[k] = Inputs[k]
    <3>1. Type(Export).params \in Nat /\ Type(Export).params <= MaxFrame
      <4>1. Export \in Fn  BY ModuleAssumption
      <4> QED BY <4>1, TypesOfFunctions, Sizes
    <3>2. k \in Slot /\ k < Type(Export).params  BY <3>1, Sizes DEF Slot
    <3> QED BY <2>1, <3>2 DEF LoadArgs
  <2> QED BY <2>1, <2>2, <2>3 DEF Typed
<1>4. CASE Publish  BY <1>4, QuietTyped DEF Publish
<1>5. CASE \/ \E r \in Slot, v \in Value : SetSlot(r, v)
           \/ \E v \in Value : Push(v)
           \/ Pop
    BY <1>5, QuietTyped DEF SetSlot, Push, Pop, InBody
<1>6. ASSUME NEW f \in Fn, Call(f) PROVE Typed'  BY <1>6, CallSound, EmitTyped
<1>7. ASSUME NEW t \in DOMAIN Types, CallIndirect(t) PROVE Typed'  BY <1>7, IndirectTyped
<1>8. CASE Return  BY <1>8, ReturnTyped
<1>9. CASE Resume  BY <1>9, ResumeTyped
<1>10. CASE UNCHANGED vars
  <2>1. UNCHANGED <<pc, fn, height, regs, temps, mem, bases>>  BY <1>10 DEF vars
  <2>2. \A i \in 1 .. Len(bases) : CalleeAt(i)' = CalleeAt(i)  BY <2>1 DEF CalleeAt, SiteOf
  <2>3. /\ CalleeAt(1)' = CalleeAt(1)
        /\ ArgsBase(mem[bases[1] - 1].site)' = ArgsBase(mem[bases[1] - 1].site)
        /\ Type(fn)' = Type(fn) /\ LocalsOf(fn)' = LocalsOf(fn)
      BY <2>1 DEF CalleeAt, SiteOf, ArgsBase, Live, LocalsOf, Type, Locals
  <2> QED BY <2>1, <2>2, <2>3 DEF Typed
<1> QED BY <1>1, <1>2, <1>3, <1>4, <1>5, <1>6, <1>7, <1>8, <1>9, <1>10 DEF Next

\* What the frames read from the machine rest on.
THEOREM FramesInvariant == Spec => [](IInv /\ Typed)
<1>1. Init => IInv /\ Typed  BY InitInvariant, TypedInit
<1>2. IInv /\ Typed /\ [Next]_vars => (IInv /\ Typed)'  BY StepInvariant, TypedStep
<1> QED BY <1>1, <1>2, PTL DEF Spec

-----------------------------------------------------------------------------
(* The refinement *)

LEMMA SameTypes == \A f : CS!Type(f) = Type(f) /\ CS!Locals(f) = Locals(f)
BY DEF CS!Type, CS!Locals, Type, Locals

LEMMA NoFrames ==
    ASSUME bases = <<>>
    PROVE  Len(bases) = 0 /\ Frames = CS!NoFrames
<1>1. Len(bases) = 0  OBVIOUS
<1>2. 1 .. 0 = {}  BY NoIndex
<1>3. Frames = [j \in {} |-> IF j = 0 THEN TopFrame ELSE WaitingFrame(j)]  BY <1>1, <1>2 DEF Frames
<1> QED BY <1>1, <1>3 DEF CS!NoFrames

LEMMA FramesOpened ==
    ASSUME IInv, NEW s, NEW f \in Fn, Sound(s, f), EnterFn(s, f)
    PROVE  /\ Len(bases) \in Nat /\ Len(bases') = Len(bases) + 1
           /\ Frames' = [i \in 1 .. Len(bases) + 1 |->
                           IF i = Len(bases) + 1 THEN Opened(s, f)
                           ELSE IF i = Len(bases) THEN CallerCut(s) ELSE Frames[i]]
<1>1. /\ Len(bases') = Len(bases) + 1 /\ TopFrame' = Opened(s, f)
      /\ \A i \in 1 .. Len(bases) - 1 : WaitingFrame(i)' = WaitingFrame(i)
      /\ \A i \in 1 .. Len(bases) : i = Len(bases) => WaitingFrame(i)' = CallerCut(s)
    BY EnterFrames DEF Sound
<1>2. Len(bases) \in Nat  BY FramesAt
<1>3. Frames' = [i \in 1 .. Len(bases') |->
                   IF i = Len(bases') THEN TopFrame' ELSE WaitingFrame(i)']
    BY DEF Frames
<1>4. ASSUME NEW i \in 1 .. Len(bases) + 1
      PROVE  (IF i = Len(bases') THEN TopFrame' ELSE WaitingFrame(i)')
               = IF i = Len(bases) + 1 THEN Opened(s, f)
                 ELSE IF i = Len(bases) THEN CallerCut(s) ELSE Frames[i]
  <2>1. CASE i = Len(bases) + 1  BY <1>1, <2>1
  <2>2. CASE i = Len(bases)  BY <1>1, <1>2, <2>2
  <2>3. CASE i \in 1 .. Len(bases) - 1  BY <1>2, <2>3, <1>1 DEF Frames
  <2> QED BY <1>2, <2>1, <2>2, <2>3
<1> QED BY <1>1, <1>2, <1>3, <1>4

\* The stub's calls open the first frame.
LEMMA StubOpens ==
    ASSUME IInv, NEW s, NEW f \in Fn, Sound(s, f), EnterFn(s, f), bases = <<>>,
           NEW arguments,
           \A k \in 0 .. Type(f).params - 1 : arguments[k] = regs[k]
    PROVE  CS!Open(Frames, f, arguments)
<1>1. /\ Len(bases) = 0 /\ Len(bases') = 1
      /\ Frames' = [i \in 1 .. 1 |-> Opened(s, f)]
    BY NoFrames, FramesOpened
<1>2. ArgsBase(s) = 0  BY DEF Sound
<1>3. Type(f).params \in Nat /\ Locals(f) \in Nat  BY TypesOfFunctions
<1>4. Opened(s, f) = [fn |-> f, height |-> 0, operands |-> [d \in {} |-> 0],
                      locals |-> [k \in 0 .. Locals(f) - 1 |->
                         IF k < Type(f).params THEN arguments[k] ELSE 0]]
  <2>1. ASSUME NEW k \in 0 .. Locals(f) - 1, k < Type(f).params
        PROVE  regs[ArgsBase(s) + k] = arguments[k]
      BY <1>2, <1>3, <2>1
  <2>2. [k \in 0 .. Locals(f) - 1 |-> IF k < Type(f).params THEN regs[ArgsBase(s) + k] ELSE 0]
         = [k \in 0 .. Locals(f) - 1 |-> IF k < Type(f).params THEN arguments[k] ELSE 0]
      BY <2>1
  <2> QED BY <2>2 DEF Opened
<1>5. Frames' = [i \in 1 .. 0 + 1 |-> IF i <= 0 THEN Frames[i] ELSE
                    [fn |-> f, height |-> 0, operands |-> [d \in {} |-> 0],
                     locals |-> [k \in 0 .. Locals(f) - 1 |->
                        IF k < Type(f).params THEN arguments[k] ELSE 0]]]
    BY <1>1, <1>4
<1> QED BY <1>1, <1>5, SameTypes DEF CS!Open

\* The running frame, read from the registers.
LEMMA RunningFrame ==
    ASSUME IInv, pc \in {"body", "resume"}
    PROVE  /\ bases # <<>> /\ Len(bases) \in 1 .. Len(bases) /\ fn \in Fn /\ height \in Nat
           /\ Locals(fn) = LocalsOf(fn) /\ Locals(fn) \in Nat
           /\ DOMAIN Frames = 1 .. Len(bases)
           /\ Frames[Len(bases)]
                = [fn |-> fn, height |-> height,
                   locals |-> [d \in 0 .. Locals(fn) - 1 |-> regs[d]],
                   operands |-> [d \in 0 .. height - 1 |-> regs[Locals(fn) + d]]]
<1>2. fn \in Fn /\ height \in Nat /\ bases # <<>>  BY DEF IInv, Places, FrameFits
<1>1. Len(bases) \in 1 .. Len(bases) /\ DOMAIN Frames = 1 .. Len(bases)
    BY <1>2, FramesAt DEF Frames
<1>3. Locals(fn) = LocalsOf(fn) /\ Locals(fn) \in Nat  BY <1>2, TypesOfFunctions
<1>4. Frames[Len(bases)] = TopFrame  BY <1>1 DEF Frames
<1>5. [d \in 0 .. Locals(fn) - 1 |-> regs[0 + d]] = [d \in 0 .. Locals(fn) - 1 |-> regs[d]]  BY <1>3
<1>6. TopFrame = [fn |-> fn, height |-> height,
                  locals |-> [d \in 0 .. Locals(fn) - 1 |-> regs[d]],
                  operands |-> [d \in 0 .. height - 1 |-> regs[Locals(fn) + d]]]
    BY <1>5 DEF TopFrame, RegFile
<1> QED BY <1>1, <1>2, <1>3, <1>4, <1>6

LEMMA ExceptAt ==
    ASSUME NEW F, NEW x \in DOMAIN F, NEW e
    PROVE  /\ [F EXCEPT ![x] = e][x] = e
           /\ \A i \in DOMAIN F : i # x => [F EXCEPT ![x] = e][i] = F[i]
OBVIOUS

\* A body's call cuts its frame below the arguments and opens the callee's.
LEMMA BodyOpens ==
    ASSUME IInv, pc = "body", NEW s, NEW f \in Fn, Sound(s, f), EnterFn(s, f)
    PROVE  CS!Open(CS!WithTop(CS!Cut(CS!Top, s.height - s.params)), f,
                   [k \in 0 .. CS!Type(f).params - 1 |->
                      CS!Top.operands[s.height - s.params + k]])
<1> DEFINE D == Len(bases)
           h == s.height - s.params
           p == Type(f).params
           n == Locals(fn)
           top == Frames[D]
           below == CS!WithTop(CS!Cut(CS!Top, h))
           arguments == [k \in 0 .. CS!Type(f).params - 1 |-> CS!Top.operands[h + k]]
<1>1. /\ bases # <<>> /\ D \in 1 .. D /\ D \in Nat /\ height \in Nat
      /\ n = LocalsOf(fn) /\ n \in Nat /\ DOMAIN Frames = 1 .. D
      /\ top = [fn |-> fn, height |-> height,
                locals |-> [d \in 0 .. n - 1 |-> regs[d]],
                operands |-> [d \in 0 .. height - 1 |-> regs[n + d]]]
    BY RunningFrame, FramesAt
<1>2. Calling(s) /\ SiteFits(s) /\ s.fn = fn /\ s.height <= height /\ s.params = p
    BY <1>1 DEF Sound, Calling
<1>3. /\ s.height \in Nat /\ p \in Nat /\ h \in Nat /\ h + p = s.height
      /\ ArgsBase(s) = n + h
  <2>1. /\ s.height \in Nat /\ s.params \in Nat /\ s.params <= s.height
        /\ ArgsBase(s) = LocalsOf(s.fn) + s.height - s.params
      BY <1>2, SiteNumbers DEF SiteFits
  <2>2. LocalsOf(s.fn) = n  BY <1>1, <1>2
  <2> QED BY <1>1, <1>2, <2>1, <2>2
<1>4. /\ Len(bases') = D + 1
      /\ Frames' = [i \in 1 .. D + 1 |->
                      IF i = D + 1 THEN Opened(s, f)
                      ELSE IF i = D THEN CallerCut(s) ELSE Frames[i]]
    BY FramesOpened
<1>5. CallerCut(s) = [fn |-> fn, height |-> h,
                      locals |-> [d \in 0 .. n - 1 |-> regs[d]],
                      operands |-> [d \in 0 .. h - 1 |-> regs[n + d]]]
    BY <1>2 DEF CallerCut
<1>6. Opened(s, f) = [fn |-> f, height |-> 0,
                      locals |-> [k \in 0 .. Locals(f) - 1 |->
                         IF k < p THEN regs[ArgsBase(s) + k] ELSE 0],
                      operands |-> [d \in {} |-> 0]]
    BY DEF Opened
<1>7. Locals(f) \in Nat  BY TypesOfFunctions
<1>8. CS!Top = top  BY DEF CS!Top
<1>9. arguments = [k \in 0 .. p - 1 |-> top.operands[h + k]]  BY <1>8, SameTypes
<1>10. below = [Frames EXCEPT ![D] = [top EXCEPT !.height = h,
                              !.operands = [d \in 0 .. h - 1 |-> top.operands[d]]]]
    BY <1>8 DEF CS!WithTop, CS!Cut
<1> HIDE DEF D, h, p, n, top, below, arguments
<1>11. below[D] = CallerCut(s) /\ \A i \in 1 .. D : i # D => below[i] = Frames[i]
  <2>1. [d \in 0 .. h - 1 |-> top.operands[d]] = [d \in 0 .. h - 1 |-> regs[n + d]]  BY <1>1, <1>2, <1>3
  <2>2. [top EXCEPT !.height = h, !.operands = [d \in 0 .. h - 1 |-> top.operands[d]]]
           = CallerCut(s)
    <3> DEFINE o == [d \in 0 .. h - 1 |-> regs[n + d]]
    <3>1. [top EXCEPT !.height = h, !.operands = [d \in 0 .. h - 1 |-> top.operands[d]]]
            = [top EXCEPT !.height = h, !.operands = o]
        BY <2>1, Zenon
    <3> DEFINE l == [d \in 0 .. n - 1 |-> regs[d]]
               all == [d \in 0 .. height - 1 |-> regs[n + d]]
    <3>2. top = [fn |-> fn, height |-> height, locals |-> l, operands |-> all]  BY <1>1
    <3> HIDE DEF o, l, all
    <3>3. [top EXCEPT !.height = h, !.operands = o]
            = [fn |-> fn, height |-> h, locals |-> l, operands |-> o]
      <4> DEFINE e == [top EXCEPT !.height = h]
      <4>1. [top EXCEPT !.height = h, !.operands = o] = [e EXCEPT !.operands = o]  OBVIOUS
      <4>2. e = [fn |-> fn, height |-> h, locals |-> l, operands |-> all]  BY <3>2
      <4> HIDE DEF e
      <4>3. [e EXCEPT !.operands = o] = [fn |-> fn, height |-> h, locals |-> l, operands |-> o]
          BY <4>2
      <4> QED BY <4>1, <4>3
    <3> QED BY <3>1, <3>3, <1>5 DEF o, l
  <2>3. below = [Frames EXCEPT ![D] = CallerCut(s)]  BY <1>10, <2>2, Zenon
  <2> QED BY <1>1, <2>3, ExceptAt
<1>12. \A k \in 0 .. p - 1 : arguments[k] = regs[ArgsBase(s) + k]
  <2>1. ASSUME NEW k \in 0 .. p - 1 PROVE arguments[k] = regs[ArgsBase(s) + k]
    <3> DEFINE d == h + k
    <3>1. d \in 0 .. height - 1 /\ ArgsBase(s) + k = n + d  BY <1>1, <1>2, <1>3
    <3>2. arguments[k] = top.operands[d]  BY <1>9
    <3> HIDE DEF d
    <3> QED BY <1>1, <3>1, <3>2
  <2> QED BY <2>1
<1>13. Opened(s, f) = [fn |-> f, height |-> 0, operands |-> [d \in {} |-> 0],
                       locals |-> [k \in 0 .. Locals(f) - 1 |->
                          IF k < p THEN arguments[k] ELSE 0]]
  <2>1. ASSUME NEW k \in 0 .. Locals(f) - 1, k < p
        PROVE  regs[ArgsBase(s) + k] = arguments[k]
      BY <1>3, <1>7, <2>1, <1>12
  <2>2. [k \in 0 .. Locals(f) - 1 |-> IF k < p THEN regs[ArgsBase(s) + k] ELSE 0]
         = [k \in 0 .. Locals(f) - 1 |-> IF k < p THEN arguments[k] ELSE 0]
      BY <2>1
  <2> QED BY <1>6, <2>2
<1>14. Frames' = [i \in 1 .. D + 1 |-> IF i <= D THEN below[i] ELSE
                    [fn |-> f, height |-> 0, operands |-> [d \in {} |-> 0],
                     locals |-> [k \in 0 .. Locals(f) - 1 |->
                        IF k < p THEN arguments[k] ELSE 0]]]
  <2>1. ASSUME NEW i \in 1 .. D + 1
        PROVE  (IF i = D + 1 THEN Opened(s, f)
                ELSE IF i = D THEN CallerCut(s) ELSE Frames[i])
                 = IF i <= D THEN below[i] ELSE Opened(s, f)
    <3>1. CASE i = D + 1  BY <1>1, <3>1
    <3>2. CASE i = D  BY <1>1, <3>2, <1>11
    <3>3. CASE i # D + 1 /\ i # D  BY <1>1, <3>3, <1>11
    <3> QED BY <3>1, <3>2, <3>3
  <2>2. Frames' = [i \in 1 .. D + 1 |-> IF i <= D THEN below[i] ELSE Opened(s, f)]  BY <1>4, <2>1
  <2> QED BY <2>2, <1>13
<1>15. CS!Open(below, f, arguments)  BY <1>4, <1>14, SameTypes DEF CS!Open, D, p
<1> QED BY <1>15 DEF below, arguments, h

\* While functions run, the phase is the one of the stub's call.
LEMMA RunningPhase ==
    ASSUME IInv, pc \in {"body", "resume"}
    PROVE  /\ Phase = (IF mem[bases[1] - 1].site.next = "args" THEN "starting" ELSE "running")
           /\ CS!Running /\ Result = CS!NoResult
<1>1. pc \notin Traps \cup {"start"} /\ pc \notin {"args", "export"} /\ pc \notin {"publish", "halt"}
    BY DEF Traps
<1>2. Phase = (IF mem[bases[1] - 1].site.next = "args" THEN "starting" ELSE "running")
    BY <1>1 DEF Phase
<1>3. Result = CS!NoResult  BY <1>1 DEF Result, CS!NoResult
<1> QED BY <1>2, <1>3 DEF CS!Running

\* emit_call from a body, to a function whose type the site names.
LEMMA BodyEnters ==
    ASSUME IInv, pc = "body", NEW s, NEW f \in Fn, Sound(s, f), EnterFn(s, f)
    PROVE  CS!Running /\ CS!Enter(f, s.height - s.params)
<1>1. /\ pc' = "body" /\ bases' # <<>> /\ Len(bases) \in Nat
      /\ \A i \in 1 .. Len(bases) :
           bases'[i] = bases[i] /\ mem'[bases[i] - 1] = mem[bases[i] - 1]
    BY EnterFrames, FramesAt DEF Sound
<1>2. 1 \in 1 .. Len(bases)  BY RunningFrame, <1>1
<1>3. bases'[1] = bases[1] /\ mem'[bases'[1] - 1] = mem[bases[1] - 1]  BY <1>1, <1>2
<1>4. Phase' = (IF mem'[bases'[1] - 1].site.next = "args" THEN "starting" ELSE "running")
      /\ Result' = CS!NoResult
    BY <1>1 DEF Phase, Traps, Result, CS!NoResult
<1>5. UNCHANGED <<Phase, Result>>  BY <1>3, <1>4, RunningPhase
<1>6. s.height - s.params >= 0  BY SiteNumbers DEF Sound, Calling, SiteFits
<1> QED BY <1>5, <1>6, BodyOpens, RunningPhase DEF CS!Enter

\* A run stopped by the guard or a trap.
LEMMA StopsStep ==
    ASSUME pc \in {"start", "export", "body"}, NEW how \in Traps, pc' = how, bases' = <<>>
    PROVE  CS!Stop(how)
<1>1. Len(bases') = 0  OBVIOUS
<1>2. 1 .. 0 = {}  BY NoIndex
<1>3. Frames' = [j \in {} |-> IF j = 0 THEN TopFrame' ELSE WaitingFrame(j)']
    BY <1>1, <1>2 DEF Frames
<1>4. Frames' = CS!NoFrames  BY <1>3 DEF CS!NoFrames
<1>5. Phase' = how  BY DEF Phase
<1>6. Result' = Result  BY DEF Result, Traps
<1> QED BY <1>1, <1>4, <1>5, <1>6 DEF CS!Stop

LEMMA ExhaustStep ==
    ASSUME IInv, pc \in {"start", "export", "body"}, NEW s, Exhaust(s)
    PROVE  CS!Exhaust
<1>1. bases' = <<>> /\ pc' = "exhausted" /\ "exhausted" \in Traps  BY DEF Exhaust, Traps
<1>2. CS!Stop("exhausted")  BY <1>1, StopsStep
<1>3. pc \in {"start", "export"} => Phase \in {"start", "export"}  BY DEF Phase, Traps
<1> QED BY <1>2, <1>3, RunningPhase DEF CS!Exhaust

\* The first frame's return address tells the start function from the export.
FirstPhase(s) ==
    /\ Phase' = IF s.next = "args" THEN "starting" ELSE "running"
    /\ Result' = CS!NoResult

LEMMA StubPhase ==
    ASSUME IInv, NEW s, NEW f \in Fn, Sound(s, f), EnterFn(s, f), bases = <<>>
    PROVE  FirstPhase(s)
<1>1. pc' = "body" /\ bases'[Len(bases) + 1] = sp' /\ mem'[sp' - 1] = Ret(s)
    BY EnterFrames DEF Sound
<1>2. Len(bases) + 1 = 1  BY NoFrames
<1>3. mem'[bases'[1] - 1].site = s  BY <1>1, <1>2 DEF Ret
<1> QED BY <1>1, <1>3 DEF FirstPhase, Phase, Traps, Result, CS!NoResult

\* The stub's calls of the start function and of the export.
LEMMA StubStep ==
    ASSUME IInv, Typed, RunStart \/ RunExport
    PROVE  CS!Next
<1>1. CASE RunStart
  <2> DEFINE s == CallSite(0, Type(Start), "args")
  <2>1. /\ pc = "start" /\ EmitCall(s, Start) /\ Sound(s, Start) /\ Start \in Fn
        /\ bases = <<>> /\ Phase = "start" /\ s.next = "args"
      BY <1>1, StubSound, StubCalling
      DEF RunStart, IInv, Places, AtStub, Phase, CallSite
  <2>2. Type(Start).params = 0  BY <2>1, ModuleAssumption
  <2> HIDE DEF s
  <2>3. CASE Exhaust(s)  BY <2>1, <2>3, ExhaustStep DEF CS!Next
  <2>4. CASE EnterFn(s, Start)
      BY <2>2, <2>1, <2>4, StubOpens, StubPhase DEF FirstPhase, Result, CS!NoResult, CS!RunStart, CS!Next
  <2> QED BY <2>1, <2>3, <2>4 DEF EmitCall
<1>2. CASE RunExport
  <2> DEFINE s == CallSite(height, Type(Export), "publish")
  <2>1. /\ pc = "export" /\ EmitCall(s, Export) /\ Sound(s, Export) /\ Export \in Fn
        /\ bases = <<>> /\ Phase = "export" /\ s.next = "publish"
      BY <1>2, StubSound, StubCalling
      DEF RunExport, IInv, Places, AtStub, Phase, Traps, CallSite
  <2> HIDE DEF s
  <2>3. CASE Exhaust(s)  BY <2>1, <2>3, ExhaustStep DEF CS!Next
  <2>4. CASE EnterFn(s, Export)
      BY <2>1, <2>4, StubOpens, StubPhase DEF Typed, FirstPhase, Result, CS!NoResult, CS!RunExport, CS!Next
  <2> QED BY <2>1, <2>3, <2>4 DEF EmitCall
<1> QED BY <1>1, <1>2

\* A call from a body, direct or through the table.
LEMMA CallStep ==
    ASSUME IInv, NEW f \in Fn, Call(f)
    PROVE  CS!Next
<1> DEFINE s == CallSite(height, Type(f), "body")
<1>1. /\ pc = "body" /\ EmitCall(s, f) /\ Sound(s, f)
      /\ s.height = height /\ s.params = Type(f).params
    BY CallSound DEF Call, InBody, CallSite
<1> HIDE DEF s
<1>2. CASE Exhaust(s)  BY <1>1, <1>2, ExhaustStep DEF CS!Next
<1>3. CASE EnterFn(s, f)  BY <1>1, <1>3, BodyEnters, RunningFrame, SameTypes DEF CS!Top, CS!Call, CS!Next
<1> QED BY <1>1, <1>2, <1>3 DEF EmitCall

LEMMA IndirectStep ==
    ASSUME IInv, NEW t \in DOMAIN Types, CallIndirect(t)
    PROVE  CS!Next
<1> DEFINE s == CallSite(height - 1, Types[t], "body")
           i == regs[LocalsOf(fn) + height - 1]
           f == Table[i]
<1>1. \/ Exhaust(s)
      \/ i \notin DOMAIN Table /\ Trap(s, "out of bounds")
      \/ /\ i \in DOMAIN Table /\ ~(f \in Fn /\ f # NoFn /\ Type(f) = Types[t])
         /\ Trap(s, "type mismatch")
      \/ /\ i \in DOMAIN Table /\ f \in Fn /\ f # NoFn /\ Type(f) = Types[t]
         /\ EnterFn(s, f)
    BY IndirectTarget
<1>2. /\ pc = "body" /\ height > 0
      /\ s.height = height - 1 /\ s.params = Types[t].params
      /\ \A g \in Fn : Type(g) = Types[t] => Sound(s, g)
    BY IndirectSite
<1>3. /\ CS!Running /\ height \in Nat
      /\ CS!Top.height = height
      /\ CS!Top.operands[CS!Top.height - 1] = i
  <2> DEFINE n == Locals(fn)
             o == [d \in 0 .. height - 1 |-> regs[n + d]]
  <2>1. /\ CS!Top.height = height /\ CS!Top.operands = o
        /\ height \in Nat /\ n = LocalsOf(fn) /\ n \in Nat
    <3>1. CS!Top = Frames[Len(bases)]  BY DEF CS!Top
    <3> QED BY <1>2, <3>1, RunningFrame
  <2>2. o[height - 1] = regs[n + height - 1]
    <3> HIDE DEF n
    <3>1. height - 1 \in 0 .. height - 1 /\ n + (height - 1) = n + height - 1  BY <1>2, <2>1
    <3>2. o[height - 1] = regs[n + (height - 1)]  BY <3>1
    <3> QED BY <3>1, <3>2
  <2> HIDE DEF o, n
  <2> QED BY <1>2, <2>1, <2>2, RunningPhase
<1>4. f \in Fn \cup {NoFn} \/ i \notin DOMAIN Table  BY ModuleAssumption
<1> HIDE DEF s, i
<1>5. CASE Exhaust(s)  BY <1>2, <1>5, ExhaustStep DEF CS!Next
<1>6. CASE i \notin DOMAIN Table /\ Trap(s, "out of bounds")
    BY <1>6, <1>2, StopsStep, <1>3 DEF Trap, Traps, CS!BadIndirect, CS!Next
<1>7. CASE /\ i \in DOMAIN Table /\ ~(f \in Fn /\ f # NoFn /\ Type(f) = Types[t])
           /\ Trap(s, "type mismatch")
    BY <1>7, <1>2, StopsStep, <1>4, SameTypes, <1>3 DEF Trap, Traps, CS!BadIndirect, CS!Next
<1>8. CASE /\ i \in DOMAIN Table /\ f \in Fn /\ f # NoFn /\ Type(f) = Types[t]
           /\ EnterFn(s, f)
  <2> HIDE DEF f
  <2>1. CS!Running /\ CS!Enter(f, s.height - s.params)  BY <1>2, <1>8, BodyEnters
  <2>2. CS!Target(CS!Top.operands[CS!Top.height - 1]) = f  BY <1>3, <1>8 DEF CS!Target, f
  <2>3. CS!CallIndirect(t)  BY <1>8, SameTypes, <1>2, <1>3, <2>1, <2>2 DEF CS!CallIndirect
  <2> QED BY <2>3 DEF CS!Next
<1> QED BY <1>1, <1>5, <1>6, <1>7, <1>8

LEMMA InFrame ==
    \A a, b, m \in Nat : a + b <= m => \A d \in 0 .. b - 1 : a + d \in 0 .. m - 1
OBVIOUS

\* An operator that is not a call changes the running frame only.
LEMMA BodyStep ==
    ASSUME IInv, IInv', pc = "body", UNCHANGED <<pc, fn, mem, bases>>
    PROVE  CS!Next
<1> DEFINE D == Len(bases)
           n == Locals(fn)
           fr == Frames'[D]
           rec == [fn |-> fr.fn, height |-> fr.height,
                   operands |-> fr.operands, locals |-> fr.locals]
<1>1. /\ D \in 1 .. D /\ n \in Nat /\ n = LocalsOf(fn) /\ DOMAIN Frames = 1 .. D
      /\ CS!Top.fn = fn /\ CS!Running
    BY RunningFrame, RunningPhase DEF CS!Top
<1>2. UNCHANGED <<Phase, Len(bases), Result>>  BY DEF Phase, Traps, Result
<1>3. fr = [fn |-> fn, height |-> height',
            locals |-> [d \in 0 .. n - 1 |-> regs'[0 + d]],
            operands |-> [d \in 0 .. height' - 1 |-> regs'[n + d]]]
    BY <1>1 DEF Frames, Locals, Type, TopFrame, RegFile
<1>4. Frames' = [i \in 1 .. D |-> IF i = D THEN fr ELSE Frames[i]]
  <2>1. Frames' = [i \in 1 .. D |-> IF i = D THEN TopFrame' ELSE WaitingFrame(i)']  BY DEF Frames
  <2>2. \A i \in 1 .. D : WaitingFrame(i)' = WaitingFrame(i)  BY DEF WaitingFrame, SiteOf, Words
  <2>3. \A i \in 1 .. D : i # D => Frames[i] = WaitingFrame(i)  BY DEF Frames
  <2>4. fr = TopFrame'  BY <1>1 DEF Frames
  <2> HIDE DEF fr
  <2> QED BY <2>1, <2>2, <2>3, <2>4
<1>5. /\ regs' \in [Slot -> Value] /\ height' \in Nat /\ height' \in 0 .. MaxFrame - n
      /\ n + height' <= MaxFrame
    BY <1>1, Sizes DEF IInv, LocalsOf, Locals, Type, TypeOK, FrameFits
<1> HIDE DEF D, n, fr
<1>6. fr.operands \in [0 .. fr.height - 1 -> Value] /\ fr.locals \in [0 .. n - 1 -> Value]
  <2>1. \A d \in 0 .. height' - 1 : n + d \in Slot  BY <1>1, <1>5, Sizes, InFrame DEF Slot
  <2>2. \A d \in 0 .. n - 1 : 0 + d \in Slot  BY <1>1, <1>5, Sizes DEF Slot
  <2> QED BY <1>3, <1>5, <2>1, <2>2
<1>7. rec = fr  BY <1>3
<1>8. Frames' = CS!WithTop(rec)
  <2>1. [Frames EXCEPT ![D] = fr] = [i \in 1 .. D |-> IF i = D THEN fr ELSE Frames[i]]  BY <1>1
  <2>2. CS!WithTop(rec) = [Frames EXCEPT ![D] = rec]  BY DEF CS!WithTop, D
  <2> HIDE DEF rec
  <2>3. CS!WithTop(rec) = [Frames EXCEPT ![D] = fr]  BY <1>7, <2>2, Zenon
  <2> QED BY <1>4, <2>1, <2>3
<1>9. CS!Body
  <2>1. /\ fr.fn = fn /\ fr.height \in 0 .. MaxFrame - CS!Locals(fn)
        /\ fr.operands \in [0 .. fr.height - 1 -> Value]
        /\ fr.locals \in [0 .. CS!Locals(fn) - 1 -> Value]
      BY <1>3, <1>5, <1>6, SameTypes DEF n
  <2>2. fr = Frames'[Len(bases')]  BY <1>2 DEF fr, D
  <2> HIDE DEF rec
  <2>3. Frames' = CS!WithTop([fn |-> fr.fn, height |-> fr.height,
                              operands |-> fr.operands, locals |-> fr.locals])
      BY <1>8 DEF rec
  <2> QED BY <1>1, <1>2, <2>1, <2>2, <2>3 DEF CS!Body
<1> QED BY <1>9 DEF CS!Next

LEMMA NoFramesLeft ==
    ASSUME bases' = <<>>
    PROVE  Len(bases') = 0 /\ Frames' = CS!NoFrames
<1>1. Len(bases') = 0  OBVIOUS
<1>2. 1 .. 0 = {}  BY NoIndex
<1>3. Frames' = [j \in {} |-> IF j = 0 THEN TopFrame' ELSE WaitingFrame(j)']
    BY <1>1, <1>2 DEF Frames
<1> QED BY <1>1, <1>3 DEF CS!NoFrames

\* The stub's loads, its publication and the jump of a return are not seen.
LEMMA Unseen ==
    ASSUME IInv, Args \/ Publish \/ Return
    PROVE  UNCHANGED CS!vars
<1>1. CASE Args
  <2>1. /\ bases = <<>> /\ bases' = <<>> /\ Len(bases) = Len(bases')
        /\ pc = "args" /\ pc' = "export"
      BY <1>1 DEF Args, IInv, Places, AtStub
  <2>2. UNCHANGED <<Phase, Result>>  BY <2>1 DEF Phase, Traps, Result
  <2>3. Frames = CS!NoFrames /\ Frames' = CS!NoFrames  BY <2>1, NoFrames, NoFramesLeft
  <2> QED BY <2>1, <2>2, <2>3 DEF CS!vars
<1>2. CASE Publish
  <2>1. /\ bases = <<>> /\ bases' = <<>> /\ Len(bases) = Len(bases')
        /\ pc = "publish" /\ pc' = "halt"
        /\ outputs' = [k \in 0 .. Type(Export).results - 1 |-> regs[k]]
      BY <1>2 DEF Publish, IInv, Places, AtStub
  <2>2. Phase' = Phase  BY <2>1 DEF Phase, Traps
  <2>3. Result' = Result  BY ModuleAssumption, TypesOfFunctions, <2>1 DEF Result, RegFile
  <2>4. Frames = CS!NoFrames /\ Frames' = CS!NoFrames  BY <2>1, NoFrames, NoFramesLeft
  <2> QED BY <2>1, <2>2, <2>3, <2>4 DEF CS!vars
<1>3. CASE Return
  <2>1. /\ pc = "body" /\ pc' = "resume"
        /\ UNCHANGED <<fn, height, regs, mem, outputs, bases>>
      BY <1>3 DEF Return, InBody
  <2>2. UNCHANGED <<Phase, Result>>  BY <2>1 DEF Phase, Traps, Result
  <2>3. Frames' = Frames
    <3>1. TopFrame' = TopFrame  BY <2>1 DEF TopFrame, RegFile, Locals, Type
    <3>2. \A i \in 1 .. Len(bases) : WaitingFrame(i)' = WaitingFrame(i)
        BY <2>1 DEF WaitingFrame, SiteOf, Words
    <3>3. Frames' = [i \in 1 .. Len(bases) |->
                        IF i = Len(bases) THEN TopFrame' ELSE WaitingFrame(i)']
        BY <2>1 DEF Frames
    <3> QED BY <3>1, <3>2, <3>3 DEF Frames
  <2> QED BY <2>1, <2>2, <2>3 DEF CS!vars
<1> QED BY <1>1, <1>2, <1>3

\* What the callee left in the temporaries is what its frame returns.
LEMMA ResultsReturned ==
    ASSUME IInv, Typed, Resume
    PROVE  /\ CS!Running /\ CS!Top.height >= ra.results
           /\ CS!Type(CS!Top.fn).results = ra.results /\ CS!Top.fn = fn
           /\ ra.results \in Nat
           /\ CS!Returned(CS!Top) = [k \in 0 .. ra.results - 1 |-> temps[k]]
<1> DEFINE D == Len(bases)
           n == Locals(fn)
           q == Type(fn).results
           o == [d \in 0 .. height - 1 |-> regs[n + d]]
<1>1. /\ pc = "resume" /\ ra = mem[bases[D] - 1].site
      /\ ra.results \in Nat
    BY ResumeFrames
<1>2. /\ bases # <<>> /\ D \in 1 .. D /\ n \in Nat /\ n = LocalsOf(fn) /\ height \in Nat
      /\ CS!Top.fn = fn /\ CS!Top.height = height /\ CS!Top.operands = o
    BY <1>1, RunningFrame DEF CS!Top
<1>3. ra.results = q  BY <1>1, <1>2 DEF CalleeAt, Typed
<1>4. height >= q /\ \A k \in 0 .. q - 1 : temps[k] = regs[n + height - q + k]
    BY <1>1, <1>2 DEF Typed
<1>5. CS!Returned(CS!Top) = [k \in 0 .. q - 1 |-> o[height - q + k]]
    BY <1>2, SameTypes DEF CS!Returned
<1>6. q \in Nat  BY <1>1, <1>3
<1>7. CS!Type(CS!Top.fn).results = q  BY <1>2, SameTypes
<1> HIDE DEF q, n, o, D
<1>8. ASSUME NEW k \in 0 .. q - 1 PROVE o[height - q + k] = temps[k]
  <2> DEFINE d == height - q + k
  <2>1. d \in 0 .. height - 1 /\ n + d = n + height - q + k  BY <1>2, <1>4, <1>6
  <2>2. o[d] = regs[n + d]
    <3> HIDE DEF d
    <3> QED BY <2>1 DEF o
  <2> QED BY <1>4, <2>1, <2>2
<1>9. [k \in 0 .. q - 1 |-> o[height - q + k]] = [k \in 0 .. q - 1 |-> temps[k]]  BY <1>8
<1>10. CS!Running  BY <1>1, RunningPhase
<1> QED BY <1>1, <1>2, <1>3, <1>4, <1>5, <1>7, <1>9, <1>10

\* A return site of a function: its frame carries on with the results pushed.
LEMMA CallerStep ==
    ASSUME IInv, Typed, Resume, Len(bases) # 1
    PROVE  CS!Return
<1> DEFINE D == Len(bases)
           q == ra.results
           caller == Frames[D - 1]
           back == CS!Returned(CS!Top)
           pushed == [d \in 0 .. caller.height + q - 1 |->
                        IF d < caller.height THEN caller.operands[d]
                        ELSE back[d - caller.height]]
           top == [caller EXCEPT !.height = @ + q, !.operands = pushed]
<1>1. /\ D \in Nat /\ D > 1 /\ Len(bases') = D - 1 /\ q \in Nat
      /\ bases'[1] = bases[1] /\ mem' = mem /\ pc = "resume" /\ pc' = "body"
    BY ResumeFrames
<1>2. UNCHANGED <<Phase, Result>>  BY <1>1, RunningPhase DEF Phase, Traps, Result, CS!NoResult
<1>3. D - 1 \in 1 .. D - 1 /\ D - 1 \in 1 .. D /\ caller = WaitingFrame(D - 1)  BY <1>1 DEF Frames
<1>4. /\ caller.height \in Nat
      /\ TopFrame' = [fn |-> caller.fn, height |-> caller.height + q,
                      locals |-> caller.locals,
                      operands |-> [d \in 0 .. caller.height + q - 1 |->
                         IF d < caller.height THEN caller.operands[d]
                         ELSE temps[d - caller.height]]]
    BY <1>3, ResumeFrames
<1>5. caller = [fn |-> caller.fn, height |-> caller.height, locals |-> caller.locals,
                operands |-> caller.operands]
    BY <1>3 DEF WaitingFrame
<1>6. back = [k \in 0 .. q - 1 |-> temps[k]]  BY ResultsReturned
<1>7. Frames' = [i \in 1 .. D - 1 |-> IF i < D - 1 THEN Frames[i] ELSE TopFrame']
  <2>1. Frames' = [i \in 1 .. D - 1 |-> IF i = D - 1 THEN TopFrame' ELSE WaitingFrame(i)']
      BY <1>1 DEF Frames
  <2>2. \A i \in 1 .. D - 2 : WaitingFrame(i)' = WaitingFrame(i)  BY ResumeFrames
  <2>3. ASSUME NEW i \in 1 .. D - 1
        PROVE  (IF i = D - 1 THEN TopFrame' ELSE WaitingFrame(i)')
                 = IF i < D - 1 THEN Frames[i] ELSE TopFrame'
    <3>1. CASE i = D - 1  BY <1>1, <3>1
    <3>2. CASE i # D - 1  BY <1>1, <3>2, <2>2 DEF Frames
    <3> QED BY <3>1, <3>2
  <2> QED BY <2>1, <2>3
<1> HIDE DEF D, q, caller, back
<1>8. pushed = [d \in 0 .. caller.height + q - 1 |->
                  IF d < caller.height THEN caller.operands[d] ELSE temps[d - caller.height]]
  <2>1. ASSUME NEW d \in 0 .. caller.height + q - 1, ~(d < caller.height)
        PROVE  back[d - caller.height] = temps[d - caller.height]
      BY <1>1, <1>4, <2>1, <1>6
  <2> QED BY <2>1
<1> HIDE DEF pushed
<1>9. top = TopFrame'
  <2> DEFINE g == caller.fn
             a == caller.height
             l == caller.locals
             o == caller.operands
             b == a + q
             e == [caller EXCEPT !.height = b]
  <2>1. caller = [fn |-> g, height |-> a, locals |-> l, operands |-> o]  BY <1>5
  <2>2. top = [caller EXCEPT !.height = b, !.operands = pushed]  OBVIOUS
  <2>3. TopFrame' = [fn |-> g, height |-> b, locals |-> l, operands |-> pushed]  BY <1>4, <1>8
  <2> HIDE DEF top, g, a, l, o, b
  <2>4. [caller EXCEPT !.height = b, !.operands = pushed] = [e EXCEPT !.operands = pushed]  OBVIOUS
  <2>5. e = [fn |-> g, height |-> b, locals |-> l, operands |-> o]  BY <2>1
  <2> HIDE DEF e
  <2>6. [e EXCEPT !.operands = pushed] = [fn |-> g, height |-> b, locals |-> l, operands |-> pushed]
      BY <2>5
  <2> QED BY <2>2, <2>3, <2>4, <2>6
<1> HIDE DEF top
<1>10. Frames' = [i \in 1 .. D - 1 |-> IF i < D - 1 THEN Frames[i] ELSE top]  BY <1>7, <1>9
<1>11. CS!Running /\ CS!Top.height >= q /\ CS!Type(CS!Top.fn).results = q  BY ResultsReturned DEF q
<1> QED BY <1>1, <1>2, <1>10, <1>11 DEF CS!Return, D, top, pushed, caller, back

\* The stub's return sites: the start function's, then the export's.
LEMMA StubResumes ==
    ASSUME IInv, Typed, Resume, Len(bases) = 1
    PROVE  CS!Finish
<1>1. /\ Len(bases') = 0 /\ mem' = mem /\ pc = "resume" /\ pc' = ra.next
      /\ ra = mem[bases[1] - 1].site /\ pc' \in {"args", "publish"} /\ ra.results \in Nat
      /\ \A k \in 0 .. ra.results - 1 : regs'[ArgsBase(ra) + k] = temps[k]
    BY ResumeFrames
<1>2. bases # <<>> /\ ArgsBase(ra) = 0 /\ (ra.next = "publish" => fn = Export)
    BY <1>1, RunningFrame DEF CalleeAt, Typed
<1>3. /\ CS!Running /\ CS!Top.height >= ra.results
      /\ CS!Type(CS!Top.fn).results = ra.results /\ CS!Top.fn = fn
      /\ CS!Returned(CS!Top) = [k \in 0 .. ra.results - 1 |-> temps[k]]
    BY ResultsReturned
<1>4. bases' = <<>>  BY ResumeKeeps, <1>1, EmptySeq DEF IInv, TypeOK
<1>5. Frames' = CS!NoFrames  BY <1>4, NoFramesLeft
<1>6. /\ Phase = (IF ra.next = "args" THEN "starting" ELSE "running")
      /\ Result = CS!NoResult
    BY <1>1, RunningPhase
<1>7. CASE ra.next = "args"
    BY <1>1, <1>6, <1>7, <1>3, <1>5 DEF Phase, Traps, Result, CS!NoResult, CS!Finish
<1>8. CASE ra.next = "publish"
    BY <1>1, <1>8, <1>6, <1>2, <1>3, SameTypes, <1>5 DEF Phase, Traps, Result, RegFile, CS!Finish
<1> QED BY <1>1, <1>7, <1>8

LEMMA RefinesInit ==
    ASSUME Init
    PROVE  CS!Init
<1>1. /\ bases = <<>> /\ pc = IF Start = NoFn THEN "args" ELSE "start"  BY DEF Init
<1>2. Phase = IF Start = NoFn THEN "export" ELSE "start"  BY <1>1 DEF Phase, Traps
<1>3. Result = CS!NoResult  BY <1>1 DEF Result, CS!NoResult
<1> QED BY <1>1, <1>2, <1>3, NoFrames DEF CS!Init

LEMMA RefinesStep ==
    ASSUME IInv, Typed, [Next]_vars
    PROVE  [CS!Next]_(CS!vars)
<1>1. CASE RunStart \/ RunExport  BY <1>1, StubStep
<1>2. CASE Args \/ Publish \/ Return  BY <1>2, Unseen
<1>3. CASE \/ \E r \in Slot, v \in Value : SetSlot(r, v)
           \/ \E v \in Value : Push(v)
           \/ Pop
    BY <1>3, StepInvariant, BodyStep DEF SetSlot, Push, Pop, InBody
<1>4. ASSUME NEW f \in Fn, Call(f) PROVE CS!Next  BY <1>4, CallStep
<1>5. ASSUME NEW t \in DOMAIN Types, CallIndirect(t) PROVE CS!Next  BY <1>5, IndirectStep
<1>6. CASE Resume  BY <1>6, CallerStep, StubResumes DEF CS!Next
<1>7. CASE UNCHANGED vars
  <2>1. UNCHANGED <<pc, fn, height, regs, mem, outputs, bases>>  BY <1>7 DEF vars
  <2>2. UNCHANGED <<Phase, Result, Len(bases)>>  BY <2>1 DEF Phase, Traps, Result, RegFile
  <2>3. Frames' = Frames
    <3>1. TopFrame' = TopFrame  BY <2>1 DEF TopFrame, RegFile, Locals, Type
    <3>2. \A i \in 1 .. Len(bases) : WaitingFrame(i)' = WaitingFrame(i)
        BY <2>1 DEF WaitingFrame, SiteOf, Words
    <3>3. Frames' = [i \in 1 .. Len(bases) |->
                        IF i = Len(bases) THEN TopFrame' ELSE WaitingFrame(i)']
        BY <2>1 DEF Frames
    <3> QED BY <3>1, <3>2, <3>3 DEF Frames
  <2> QED BY <2>2, <2>3 DEF CS!vars
<1> QED BY <1>1, <1>2, <1>3, <1>4, <1>5, <1>6, <1>7 DEF Next

\* Calls lowered to one register file and a shadow stack behave as the frames
\* of a wasm instance, for every module, however deep the calls.
THEOREM CallsImplementFrames == Spec => ImplementsCallStack
<1>1. Init => CS!Init  BY RefinesInit
<1>2. IInv /\ Typed /\ [Next]_vars => [CS!Next]_(CS!vars)  BY RefinesStep
<1> QED BY <1>1, <1>2, FramesInvariant, PTL DEF Spec, ImplementsCallStack, CS!Spec
=============================================================================
