----------------------------- MODULE Arith_proofs -----------------------------
(***************************************************************************)
(* Proofs about Arith for every width H, every operand within it, every    *)
(* register an operand and the destination may share, and every prover:    *)
(* the rows of a numeric operator end in the result or the trap wasm       *)
(* gives.                                                                  *)
(*                                                                         *)
(* What rows do to registers is a relation (Does for one row, Runs for the *)
(* first k of a sequence, Ends for all of it or the row that stops it), so *)
(* that each helper of lower.rs has one lemma saying what its rows do, and *)
(* the lemma of an operator follows from those of the helpers it calls.    *)
(* The invariant says that the rows before pc have run; that is kept by    *)
(* any step, and where execution stops it gives the operator's lemma.      *)
(***************************************************************************)
EXTENDS Arith, Numbers_proofs

(* The sizes of the words *)

\* The width assumption in numbers: M is 2^H squared, 2^H at least 16.
LEMMA Sizes ==
    /\ H \in Nat /\ H >= 4 /\ \E k \in 2 .. H : H = 2^k
    /\ Bits = H + H /\ Bits \in Nat
    /\ HalfM \in Nat \ {0} /\ HalfM = 2^H
    /\ M \in Nat \ {0} /\ M = 2^Bits /\ M = HalfM * HalfM
    /\ HalfM <= M /\ 0 \in Word
<1>1. PICK k \in 2 .. H : H = 2^k  BY WidthAssumption
<1>2. H \in Nat /\ k \in Nat /\ 2 \in Nat /\ 2 <= k  BY WidthAssumption
<1>3. 2^2 <= 2^k  BY <1>2, PowerMonotone
<1>4. 2^2 = 4  BY PowerNext, Zeroth
<1>5. H >= 4  BY <1>1, <1>2, <1>3, <1>4
<1>6. HalfM \in Nat \ {0} /\ HalfM = 2^H  BY <1>2, PowerPositive DEF HalfM
<1>7. Bits = H + H /\ Bits \in Nat  BY <1>2 DEF Bits
<1>8. M = 2^Bits /\ M \in Nat \ {0}  BY <1>7, PowerPositive DEF M
<1>9. M = HalfM * HalfM  BY <1>2, PowerSum, <1>6, <1>7, <1>8
<1>10. HalfM <= M  BY <1>6, <1>9
<1> QED BY <1>1, <1>2, <1>5, <1>6, <1>7, <1>8, <1>9, <1>10 DEF Word

\* The values of width w: N of them, n bits.
Values(w) == 0 .. 2^NBits(w) - 1

\* Either width is a power of two of bits, and its values are words.
LEMMA Widths ==
    ASSUME NEW w \in Width
    PROVE  /\ NBits(w) \in Nat /\ NBits(w) >= 4 /\ NBits(w) <= Bits
           /\ \E k \in 2 .. Bits : NBits(w) = 2^k
           /\ 2^NBits(w) \in Nat \ {0} /\ 2^NBits(w) <= M
           /\ 2^NBits(w) = (IF w = 32 THEN HalfM ELSE M)
           /\ Samples(w) \subseteq Values(w) /\ Values(w) \subseteq Word
<1>1. PICK k \in 2 .. H : H = 2^k  BY Sizes
<1>2. Bits = 2^(k + 1) /\ k + 1 \in 2 .. Bits /\ k \in 2 .. Bits  BY Sizes, <1>1, PowerNext
<1>3. CASE w = 32  BY <1>1, <1>2, <1>3, Sizes, OperandAssumption DEF NBits, Samples, Values, Word
<1>4. CASE w = 64  BY <1>1, <1>2, <1>4, Sizes, OperandAssumption DEF NBits, Samples, Values, Word
<1> QED BY <1>3, <1>4 DEF Width

\* M is a multiple of 2^n, so reducing by M first changes nothing.
LEMMA Reduces ==
    ASSUME NEW w \in Width, NEW v \in Int
    PROVE  (v % M) % 2^NBits(w) = v % 2^NBits(w)
<1>1. CASE w = 32
  <2>1. 2^NBits(w) = HalfM  BY <1>1, Widths
  <2>2. (v % (HalfM * HalfM)) % HalfM = v % HalfM  BY Sizes, RemainderTwice
  <2> QED BY <2>1, <2>2, Sizes
<1>2. CASE w = 64
  <2>1. 2^NBits(w) = M  BY <1>2, Widths
  <2>2. v % M \in 0 .. M - 1  BY Sizes, Parts
  <2>3. (v % M) % M = v % M  BY <2>2, Sizes, RemainderSmall
  <2> QED BY <2>1, <2>3
<1> QED BY <1>1, <1>2 DEF Width

-----------------------------------------------------------------------------
(* What the operators of the rows compute *)

\* AluOp::evaluate, table by table.
LEMMA Evaluates ==
    ASSUME NEW x, NEW y
    PROVE  /\ Evaluate("Add64", x, y) = (x + y) % M
           /\ Evaluate("Add32", x, y) = ((x + y) % M) % HalfM
           /\ Evaluate("LowerHalfWord", x, y) = ((x + y) % M) % HalfM
           /\ Evaluate("Sub64", x, y) = (x - y) % M
           /\ Evaluate("Sub32", x, y) = (x - y) % HalfM
           /\ Evaluate("Mul64", x, y) = MulWrap(x, y)
           /\ Evaluate("Mul32", x, y) = MulWrap(x, y) % HalfM
           /\ Evaluate("And", x, y) = x & y
           /\ Evaluate("Or", x, y) = x | y
           /\ Evaluate("Xor", x, y) = x ^^ y
           /\ Evaluate("Eq", x, y) = Bool(x = y)
           /\ Evaluate("Ne", x, y) = Bool(x # y)
           /\ Evaluate("LtU", x, y) = Bool(x < y)
           /\ Evaluate("GeU", x, y) = Bool(x >= y)
           /\ Evaluate("LeU", x, y) = Bool(x <= y)
           /\ Evaluate("LtS", x, y) = Bool(Signed(Bits, x) < Signed(Bits, y))
           /\ Evaluate("GeS", x, y) = Bool(Signed(Bits, x) >= Signed(Bits, y))
           /\ Evaluate("Srl", x, y) = x \div 2^TrailingZeros(Bits, y)
           /\ Evaluate("Sra", x, y) = Unsigned(Bits, Signed(Bits, x) \div 2^TrailingZeros(Bits, y))
           /\ Evaluate("Rotr", x, y) = RotateRight(x, TrailingZeros(Bits, y) % Bits)
           /\ Evaluate("NegateIf", x, y) = (IF Signed(Bits, x) < 0 THEN (-y) % M ELSE y)
           /\ Evaluate("MulUNoOverflow", x, y) = Bool(y = 0 \/ x <= (M - 1) \div y)
           /\ Evaluate("Pow2", x, y) = 2^(((x + y) % M) % Bits)
           /\ Evaluate("ShiftRightBitmask", x, y) = ShiftMask(((x + y) % M) % Bits)
           /\ Evaluate("SignExtendWord", x, y) = Unsigned(Bits, Signed(H, ((x + y) % M) % HalfM))
           /\ Evaluate("Clz", x, y) = LeadingZeros(Bits, x)
           /\ Evaluate("Ctz", x, y) = TrailingZeros(Bits, x)
           /\ Evaluate("Popcnt", x, y) = Popcount(Bits, x)
<1> QED BY DEF Evaluate

\* A word plus nothing is the word: an immediate of 0 in Add64 copies.
LEMMA PlusZero == \A x \in Word : (x + 0) % M = x
<1> SUFFICES ASSUME NEW x \in Word PROVE (x + 0) % M = x
    OBVIOUS
<1>1. x + 0 = x /\ x % M = x  BY Sizes, RemainderSmall DEF Word
<1> QED BY <1>1

\* Splitting one factor in half does not change the product modulo M.
LEMMA MulWraps == \A x, y \in Nat : MulWrap(x, y) = (x * y) % M
<1> SUFFICES ASSUME NEW x \in Nat, NEW y \in Nat PROVE MulWrap(x, y) = (x * y) % M
    OBVIOUS
<1>1. PICK h \in Nat \ {0} : h = HalfM /\ M = h * h  BY Sizes
<1>2. PICK q \in Int, r \in 0 .. h - 1 : q = y \div h /\ r = y % h /\ y = h * q + r  BY Parts
<1>3. PICK z \in Int : z = x * q  OBVIOUS
<1>4. PICK k \in Int, t \in 0 .. h - 1 : t = z % h /\ z = h * k + t  BY Parts
<1>5. PICK u \in Int, v \in Int : u = x * r + t * h /\ v = x * y  BY <1>2, <1>4
<1>6. v = u + (h * h) * k
  <2>1. x * y = x * (h * q) + x * r  BY <1>2
  <2>2. x * (h * q) = h * z  BY <1>3
  <2>3. h * z = h * (h * k) + h * t  BY <1>4
  <2>4. h * (h * k) = (h * h) * k /\ h * t = t * h  OBVIOUS
  <2> QED BY <1>5, <2>1, <2>2, <2>3, <2>4
<1>7. PICK m \in Nat \ {0} : m = h * h  OBVIOUS
<1>8. v % m = u % m  BY <1>6, <1>7, RemainderShift
<1>9. MulWrap(x, y) = (x * r + t * h) % (h * h)  BY <1>1, <1>2, <1>3, <1>4, Zenon DEF MulWrap
<1> QED BY <1>1, <1>5, <1>7, <1>8, <1>9

\* The bitwise conjunction adds up the places where both operands have a one.
LEMMA AndIs == \A x, y : (x & y) = Conjunction(x, y, Bits)
<1> QED BY Zenon DEF &, Bit, Conjunction, Digit, MapThenSumSet, MapThenFoldSet

-----------------------------------------------------------------------------
(* Two's complement *)

\* The integers a word of n bits stands for.
SignedRange(n) == -(2^(n - 1)) .. 2^(n - 1) - 1

\* Signed reads a word as the integer it stands for, Unsigned goes back.
LEMMA SignedIs ==
    ASSUME NEW n \in Nat \ {0}, NEW x \in 0 .. 2^n - 1
    PROVE  /\ Signed(n, x) \in Int /\ Signed(n, x) \in SignedRange(n)
           /\ Signed(n, x) < 0 <=> x >= 2^(n - 1)
           /\ Signed(n, x) = (IF x < 2^(n - 1) THEN x ELSE x - 2^n)
           /\ Unsigned(n, Signed(n, x)) = x
<1>1. PICK p \in Nat \ {0}, q \in Nat \ {0} : p = 2^(n - 1) /\ q = 2^n /\ q = p + p  BY Halves
<1>2. PICK v \in Int : v = Signed(n, x) /\ v = (IF x < p THEN x ELSE x - q)  BY <1>1 DEF Signed
<1>3. v % q = x
  <2>1. CASE x < p  BY <1>1, <1>2, <2>1, RemainderSmall
  <2>2. CASE ~(x < p)  BY <1>1, <1>2, <2>2, Remainder
  <2> QED BY <2>1, <2>2
<1>4. v \in -p .. p - 1 /\ (v < 0 <=> x >= p)  BY <1>1, <1>2
<1> QED BY <1>1, <1>2, <1>3, <1>4, Zenon DEF Unsigned, SignedRange

\* Unsigned writes an integer as a word, Signed reads it back.
LEMMA UnsignedIs ==
    ASSUME NEW n \in Nat \ {0}, NEW v \in SignedRange(n)
    PROVE  /\ Unsigned(n, v) \in 0 .. 2^n - 1
           /\ Unsigned(n, v) = (IF v >= 0 THEN v ELSE v + 2^n)
           /\ Signed(n, Unsigned(n, v)) = v
<1>1. PICK p \in Nat \ {0}, q \in Nat \ {0} : p = 2^(n - 1) /\ q = 2^n /\ q = p + p  BY Halves
<1>2. v \in -p .. p - 1 /\ v \in Int  BY <1>1 DEF SignedRange
<1>3. v % q = IF v >= 0 THEN v ELSE v + q
  <2>1. CASE v >= 0  BY <1>1, <1>2, <2>1, RemainderSmall
  <2>2. CASE ~(v >= 0)  BY <1>1, <1>2, <2>2, Remainder
  <2> QED BY <2>1, <2>2
<1>4. PICK u \in 0 .. q - 1 : u = v % q  BY <1>2, Parts
<1>5. (IF u < p THEN u ELSE u - q) = v  BY <1>1, <1>2, <1>3, <1>4
<1>6. Unsigned(n, v) = u  BY <1>1, <1>4, Zenon DEF Unsigned
<1>7. Signed(n, u) = (IF u < p THEN u ELSE u - q)  BY <1>1, Zenon DEF Signed
<1> QED BY <1>1, <1>3, <1>4, <1>5, <1>6, <1>7

\* A wider word stands for more integers.
LEMMA SignedRangeGrows == \A m, n \in Nat \ {0} : m <= n => SignedRange(m) \subseteq SignedRange(n)
<1> SUFFICES ASSUME NEW m \in Nat \ {0}, NEW n \in Nat \ {0}, m <= n
             PROVE  SignedRange(m) \subseteq SignedRange(n)
    OBVIOUS
<1>1. m - 1 \in Nat /\ n - 1 \in Nat /\ m - 1 <= n - 1  OBVIOUS
<1>2. PICK p, q \in Nat : p = 2^(m - 1) /\ q = 2^(n - 1) /\ p <= q
    BY <1>1, PowerMonotone, PowerPositive
<1>3. -p .. p - 1 \subseteq -q .. q - 1  BY <1>2
<1> QED BY <1>2, <1>3, Zenon DEF SignedRange

-----------------------------------------------------------------------------
(* Masks *)

\* And with a mask of k ones keeps the k low bits.
LEMMA AndMask == \A x \in Int : \A k \in 0 .. Bits : (x & (2^k - 1)) = x % 2^k
<1> QED BY AndIs, ConjunctionMask, Sizes

\* And of two booleans is their product.
LEMMA AndBools == \A u, v \in {0, 1} : (u & v) = u * v
<1> SUFFICES ASSUME NEW u \in {0, 1}, NEW v \in {0, 1} PROVE (u & v) = u * v
    OBVIOUS
<1>1. 2^0 = 1 /\ 2^1 = 2  BY PowerNext, Zeroth
<1>2. u \in Int /\ 0 \in 0 .. Bits /\ 1 \in 0 .. Bits  BY Sizes
<1>3. (u & (2^0 - 1)) = u % 2^0 /\ (u & (2^1 - 1)) = u % 2^1  BY <1>2, AndMask
<1>4. (u & 0) = u % 1 /\ (u & 1) = u % 2  BY <1>1, <1>3
<1>5. u % 1 = 0 /\ u % 2 = u  OBVIOUS
<1>6. u * 0 = 0 /\ u * 1 = u  OBVIOUS
<1> QED BY <1>4, <1>5, <1>6

\* Joining a multiple of 2^h and a number below it adds them.
LEMMA OrApart ==
    ASSUME NEW h \in Nat, NEW c \in Nat, NEW a \in 0 .. 2^h - 1
    PROVE  (c * 2^h | a) = c * 2^h + a /\ (a | c * 2^h) = a + c * 2^h
<1>1. PICK m \in Nat : m = 2^h  BY PowerPositive
<1>2. PICK u \in Int : u = c * 2^h  BY <1>1
<1>3. (u & a) = 0 /\ (a & u) = 0  BY <1>2, AndIs, ConjunctionApart, Sizes
<1>4. a \in Int  BY <1>1
<1>5. (u | a) = u + a - 0 /\ (a | u) = a + u - 0  BY <1>3, Zenon DEF |
<1> QED BY <1>2, <1>4, <1>5

\* The sign of an exclusive disjunction is the difference of the signs.
LEMMA XorSign ==
    ASSUME NEW n \in Nat \ {0}, n <= Bits, NEW x \in 0 .. 2^n - 1, NEW y \in 0 .. 2^n - 1
    PROVE  /\ (x ^^ y) \in 0 .. 2^n - 1
           /\ (x ^^ y) >= 2^(n - 1) <=> ~(x >= 2^(n - 1) <=> y >= 2^(n - 1))
<1>1. PICK m \in Nat : m = n - 1 /\ n = m + 1 /\ m < Bits  BY Sizes
<1>2. (x ^^ y) = x + y - 2 * Conjunction(x, y, Bits)  BY AndIs, Zenon DEF ^^
<1>3. x \in 0 .. 2^(m + 1) - 1 /\ y \in 0 .. 2^(m + 1) - 1 /\ Bits \in Nat  BY <1>1, Sizes
<1>4. (x ^^ y) \in 0 .. 2^(m + 1) - 1 /\ ((x ^^ y) >= 2^m <=> ~(x >= 2^m <=> y >= 2^m))
    BY <1>1, <1>2, <1>3, CarryFreeSum
<1> QED BY <1>1, <1>4, Zenon

\* Srl, Sra and Rotr read the count k back from ShiftRightBitmask's mask.
LEMMA MaskShift == \A k \in 0 .. Bits - 1 : TrailingZeros(Bits, ShiftMask(k)) = k
<1> SUFFICES ASSUME NEW k \in 0 .. Bits - 1 PROVE TrailingZeros(Bits, ShiftMask(k)) = k
    OBVIOUS
<1>1. k \in Nat /\ k < Bits /\ Bits \in Nat  BY Sizes
<1>2. {j \in 1 .. Bits : ShiftMask(k) % 2^j = 0} = 1 .. k  BY <1>1, MaskZeros DEF ShiftMask
<1>3. Cardinality(1 .. k) = k  BY <1>1, FS_Interval
<1> QED BY <1>2, <1>3 DEF TrailingZeros

\* A shift count modulo the width.
LEMMA Counts ==
    ASSUME NEW w \in Width, NEW y \in Word
    PROVE  /\ y % NBits(w) \in 0 .. NBits(w) - 1
           /\ y % NBits(w) \in 0 .. Bits - 1
           /\ y % NBits(w) \in Word
           /\ (y & (NBits(w) - 1)) = y % NBits(w)
<1>1. PICK k \in 2 .. Bits : NBits(w) = 2^k  BY Widths
<1>2. y \in Int /\ k \in 0 .. Bits /\ NBits(w) \in Nat \ {0} /\ NBits(w) <= Bits /\ Bits \in Nat
    BY Sizes, Widths DEF Word
<1>3. y % NBits(w) \in 0 .. NBits(w) - 1  BY <1>2, Parts
<1>4. (y & (NBits(w) - 1)) = y % NBits(w)  BY <1>1, <1>2, AndMask
<1>5. NBits(w) <= M  BY <1>1, <1>2, PowerMonotone, Sizes
<1> QED BY <1>2, <1>3, <1>4, <1>5, Sizes DEF Word

-----------------------------------------------------------------------------
(* Runs of rows *)

Val(s, o) == IF o.kind = "reg" THEN s[o.reg] ELSE o.imm
Out(r, s) == Evaluate(r.op, s[r.rs1], Val(s, r.rs2))

\* Only rd changes, to v; nothing outside S changes.
Sets(s, t, rd, v) == t[rd] = v /\ \A q \in Reg : q # rd => t[q] = s[q]
Keeps(s, t, S)    == \A q \in Reg : q \notin S => t[q] = s[q]

\* Row r takes registers s to t; e is the failure that stops it, or "none".
Advised(s, r, free) == IF free THEN Word ELSE {HonestQuotient(s[r.rs1], Val(s, r.rs2))}
Does(r, s, t, e, free) ==
    \/ r.row = "alu" /\ e = "none" /\ Sets(s, t, r.rd, Out(r, s))
    \/ r.row = "advice" /\ e = "none" /\ \E q \in Advised(s, r, free) : Sets(s, t, r.rd, q)
    \/ r.row = "assert" /\ e = "none" /\ Out(r, s) = 1 /\ t = s
    \/ r.row = "assert" /\ e # "none" /\ Out(r, s) # 1 /\ t = s /\ e = r.failure

\* The first k rows take s to t, one after the other.
Steps(rows, f, k, s, t, free) ==
    /\ f[0] = s /\ f[k] = t
    /\ \A i \in 1 .. k : Does(rows[i], f[i - 1], f[i], "none", free)
Runs(rows, k, s, t, free) == \E f : Steps(rows, f, k, s, t, free)

\* The rows take s to t, or stop there with failure e.
Ends(rows, s, t, e, free) ==
    IF e = "none" THEN Runs(rows, Len(rows), s, t, free)
    ELSE \E k \in 0 .. Len(rows) - 1 : Runs(rows, k, s, t, free) /\ Does(rows[k + 1], t, t, e, free)

\* No rows lead nowhere else.
LEMMA RunsNone == \A rows, s, t, free : Runs(rows, 0, s, t, free) => t = s
<1> QED BY DEF Runs, Steps

\* and lead there from any registers.
LEMMA RunsStart == \A rows, s, free : Runs(rows, 0, s, s, free)
<1> SUFFICES ASSUME NEW rows, NEW s, NEW free PROVE Runs(rows, 0, s, s, free)
    OBVIOUS
<1> DEFINE f == [i \in {0} |-> s]
<1>1. f[0] = s  OBVIOUS
<1> HIDE DEF f
<1>2. Steps(rows, f, 0, s, s, free)  BY <1>1 DEF Steps
<1> QED BY <1>2 DEF Runs

\* One row more.
LEMMA RunsNext ==
    ASSUME NEW rows, NEW k \in Nat, NEW s, NEW u, NEW t, NEW free,
           Runs(rows, k, s, u, free), Does(rows[k + 1], u, t, "none", free)
    PROVE  Runs(rows, k + 1, s, t, free)
<1>1. PICK f : Steps(rows, f, k, s, u, free)  BY DEF Runs
<1> DEFINE g == [i \in 0 .. k + 1 |-> IF i = k + 1 THEN t ELSE f[i]]
<1>2. g[k + 1] = t /\ \A i \in 0 .. k : g[i] = f[i]  OBVIOUS
<1> HIDE DEF g
<1>3. g[0] = s /\ g[k] = u  BY <1>1, <1>2 DEF Steps
<1>4. ASSUME NEW i \in 1 .. k + 1 PROVE Does(rows[i], g[i - 1], g[i], "none", free)
  <2>1. CASE i = k + 1  BY <2>1, <1>2, <1>3
  <2>2. CASE i \in 1 .. k  BY <1>2, <2>2, <1>1 DEF Steps
  <2> QED BY <2>1, <2>2
<1>5. Steps(rows, g, k + 1, s, t, free)  BY <1>2, <1>3, <1>4 DEF Steps
<1> QED BY <1>5 DEF Runs

\* Rows that agree on the first k run alike.
LEMMA RunsPrefix ==
    ASSUME NEW rows, NEW others, NEW k \in Nat, \A i \in 1 .. k : rows[i] = others[i],
           NEW s, NEW t, NEW free, Runs(rows, k, s, t, free)
    PROVE  Runs(others, k, s, t, free)
<1>1. PICK f : Steps(rows, f, k, s, t, free)  BY DEF Runs
<1>2. ASSUME NEW i \in 1 .. k PROVE Does(others[i], f[i - 1], f[i], "none", free)  BY <1>1 DEF Steps
<1>3. Steps(others, f, k, s, t, free)  BY <1>1, <1>2 DEF Steps
<1> QED BY <1>3 DEF Runs

\* A run splits where one list of rows ends and the next begins.
LEMMA RunsSplit ==
    ASSUME NEW rows, NEW others, NEW m \in Nat, NEW n \in Nat,
           \A i \in 1 .. n : rows[m + i] = others[i],
           NEW s, NEW t, NEW free, Runs(rows, m + n, s, t, free)
    PROVE  \E u : Runs(rows, m, s, u, free) /\ Runs(others, n, u, t, free)
<1>1. PICK f : Steps(rows, f, m + n, s, t, free)  BY DEF Runs
<1>2. Steps(rows, f, m, s, f[m], free)  BY <1>1 DEF Steps
<1> DEFINE g == [i \in 0 .. n |-> f[m + i]]
<1>3. g[0] = f[m] /\ g[n] = f[m + n] /\ \A i \in 0 .. n : g[i] = f[m + i]  OBVIOUS
<1> HIDE DEF g
<1>4. ASSUME NEW i \in 1 .. n PROVE Does(others[i], g[i - 1], g[i], "none", free)
    BY <1>1, <1>3 DEF Steps
<1>5. Steps(others, g, n, f[m], t, free)  BY <1>1, <1>3, <1>4 DEF Steps
<1> QED BY <1>2, <1>5 DEF Runs

\* Rows that follow others start where those end.
LEMMA EndsJoin ==
    ASSUME NEW R1, NEW p \in Seq(R1), NEW q \in Seq(R1), NEW s, NEW t, NEW e, NEW free,
           Ends(p \o q, s, t, e, free)
    PROVE  \/ e # "none" /\ Ends(p, s, t, e, free)
           \/ \E u : Ends(p, s, u, "none", free) /\ Ends(q, u, t, e, free)
<1> DEFINE rows == p \o q
           m == Len(p)
           n == Len(q)
<1>1. m \in Nat /\ n \in Nat /\ Len(rows) = m + n  OBVIOUS
<1>2. \A i \in 1 .. m : rows[i] = p[i]  OBVIOUS
<1>3. \A i \in 1 .. n : rows[m + i] = q[i]  OBVIOUS
<1> HIDE DEF rows, m, n
<1>4. CASE e = "none"
  <2>1. Runs(rows, m + n, s, t, free)  BY <1>1, <1>4 DEF Ends, rows
  <2>2. PICK u : Runs(rows, m, s, u, free) /\ Runs(q, n, u, t, free)  BY <1>1, <1>3, <2>1, RunsSplit
  <2>3. Runs(p, m, s, u, free)  BY <1>1, <1>2, <2>2, RunsPrefix
  <2>4. Ends(p, s, u, "none", free) /\ Ends(q, u, t, e, free)  BY <1>4, <2>2, <2>3 DEF Ends, m, n
  <2> QED BY <2>4
<1>5. CASE e # "none"
  <2>1. PICK k \in 0 .. m + n - 1 : Runs(rows, k, s, t, free) /\ Does(rows[k + 1], t, t, e, free)
      BY <1>1, <1>5 DEF Ends, rows
  <2>2. CASE k < m
    <3>1. k \in Nat /\ k + 1 \in 1 .. m /\ k \in 0 .. m - 1  BY <1>1, <2>2
    <3>2. \A i \in 1 .. k : rows[i] = p[i]  BY <1>1, <1>2, <2>2
    <3>3. Runs(p, k, s, t, free)  BY <2>1, <3>1, <3>2, RunsPrefix
    <3>4. Does(p[k + 1], t, t, e, free)  BY <1>2, <2>1, <3>1
    <3>5. Ends(p, s, t, e, free)  BY <1>5, <3>1, <3>3, <3>4 DEF Ends, m
    <3> QED BY <1>5, <3>5
  <2>3. CASE ~(k < m)
    <3>1. PICK j \in Nat : k = m + j /\ j \in 0 .. n - 1 /\ k + 1 = m + (j + 1) /\ j + 1 \in 1 .. n
        BY <1>1, <2>3
    <3>2. \A i \in 1 .. j : rows[m + i] = q[i]  BY <1>1, <1>3, <3>1
    <3>3. PICK u : Runs(rows, m, s, u, free) /\ Runs(q, j, u, t, free)
        BY <2>1, <3>1, <1>1, <3>2, RunsSplit
    <3>4. Runs(p, m, s, u, free)  BY <1>1, <1>2, <3>3, RunsPrefix
    <3>5. Does(q[j + 1], t, t, e, free)  BY <1>3, <2>1, <3>1
    <3>6. Ends(p, s, u, "none", free)  BY <3>4 DEF Ends, m
    <3>7. Ends(q, u, t, e, free)  BY <1>5, <3>1, <3>3, <3>5 DEF Ends, n
    <3> QED BY <3>6, <3>7
  <2> QED BY <2>2, <2>3
<1> QED BY <1>4, <1>5

\* An operator of no rows ends at once.
LEMMA EndsNone ==
    ASSUME NEW s, NEW t, NEW e, NEW free, Ends(<<>>, s, t, e, free)
    PROVE  e = "none" /\ t = s
<1>1. Len(<<>>) = 0  OBVIOUS
<1>2. 0 .. 0 - 1 = {}  OBVIOUS
<1> QED BY <1>1, <1>2, RunsNone DEF Ends

\* An operator of one row is the row.
LEMMA EndsOne ==
    ASSUME NEW r, NEW s, NEW t, NEW e, NEW free, Ends(<<r>>, s, t, e, free)
    PROVE  Does(r, s, t, e, free)
<1>1. Len(<<r>>) = 1 /\ <<r>>[1] = r  OBVIOUS
<1>2. CASE e = "none"
  <2>1. PICK f : Steps(<<r>>, f, 1, s, t, free)  BY <1>1, <1>2 DEF Ends, Runs
  <2>2. Does(<<r>>[1], f[1 - 1], f[1], "none", free) /\ 1 - 1 = 0  BY <2>1 DEF Steps
  <2> QED BY <1>1, <1>2, <2>1, <2>2 DEF Steps
<1>3. CASE e # "none"
  <2>1. PICK k \in 0 .. 1 - 1 : Runs(<<r>>, k, s, t, free) /\ Does(<<r>>[k + 1], t, t, e, free)
      BY <1>1, <1>3 DEF Ends
  <2>2. k = 0 /\ k + 1 = 1  OBVIOUS
  <2>3. t = s  BY <2>1, <2>2, RunsNone
  <2> QED BY <1>1, <2>1, <2>2, <2>3
<1> QED BY <1>2, <1>3

-----------------------------------------------------------------------------
(* Rows *)

Registers == {"ZERO", "A", "B", "D"} \cup Temps
Operands  == [kind : {"reg"}, reg : Registers] \cup [kind : {"imm"}, imm : Int]
AluRows   == [row : {"alu"}, op : AluOps, rd : Registers \ {"ZERO"}, rs1 : Registers, rs2 : Operands]
Rows == AluRows
          \cup [row : {"advice"}, rd : Registers \ {"ZERO"}, rs1 : Registers, rs2 : Operands]
          \cup [row : {"assert"}, op : AluOps, failure : {"DivideByZero", "IntegerOverflow"},
                rs1 : Registers, rs2 : Operands]

\* Registers and immediates are operands.
LEMMA OperandsAre == (\A r \in Registers : R(r) \in Operands) /\ (\A v \in Int : I(v) \in Operands)
<1> QED BY DEF R, I, Operands

\* What the emitters append are rows.
LEMMA RowsAre ==
    /\ \A op \in AluOps : \A rd \in Registers \ {"ZERO"} : \A r \in Registers : \A o \in Operands : Alu(op, rd, r, o) \in AluRows
    /\ \A op \in AluOps : \A rd \in Registers \ {"ZERO"} : \A r \in Registers : \A v \in Int : AluImm(op, rd, r, v) \in AluRows
    /\ \A rd \in Registers \ {"ZERO"} : \A a, b \in Registers : Advice(rd, a, b) \in Rows
    /\ \A op \in AluOps : \A failure \in {"DivideByZero", "IntegerOverflow"} :
           \A r \in Registers : \A o \in Operands : Assert(op, failure, r, o) \in Rows
    /\ AluRows \subseteq Rows
<1>1. \A op \in AluOps : \A rd \in Registers \ {"ZERO"} : \A r \in Registers : \A o \in Operands : Alu(op, rd, r, o) \in AluRows
    BY DEF Alu, AluRows
<1>2. \A op \in AluOps : \A rd \in Registers \ {"ZERO"} : \A r \in Registers : \A v \in Int : AluImm(op, rd, r, v) \in AluRows
    BY <1>1, OperandsAre, Zenon DEF AluImm
<1>3. ASSUME NEW rd \in Registers \ {"ZERO"}, NEW a \in Registers, NEW b \in Registers
      PROVE  Advice(rd, a, b) \in Rows
    BY OperandsAre DEF Advice, Rows
<1>4. \A op \in AluOps : \A failure \in {"DivideByZero", "IntegerOverflow"} :
           \A r \in Registers : \A o \in Operands : Assert(op, failure, r, o) \in Rows
    BY DEF Assert, Rows
<1> QED BY <1>1, <1>2, <1>3, <1>4, Zenon DEF Rows

\* The emitters' literal sequences are sequences of rows.
LEMMA Tuples ==
    /\ <<>> \in Seq(Rows)
    /\ \A a \in Rows : <<a>> \in Seq(Rows)
    /\ \A a, b \in Rows : <<a, b>> \in Seq(Rows) /\ <<a, b>> = <<a>> \o <<b>>
    /\ \A a, b, c \in Rows : <<a, b, c>> \in Seq(Rows) /\ <<a, b, c>> = <<a>> \o <<b, c>>
    /\ \A p, q \in Seq(Rows) : p \o q \in Seq(Rows)
<1> DEFINE S == Rows
<1> HIDE DEF S
<1>1. ASSUME NEW a \in S, NEW b \in S PROVE <<a, b>> \in Seq(S) /\ <<a, b>> = <<a>> \o <<b>>
  <2>1. <<a, b>> \in Seq(S)  OBVIOUS
  <2>2. <<a>> \o <<b>> = <<a, b>>
    <3>1. /\ <<a>> \o <<b>> \in Seq(S) /\ Len(<<a>> \o <<b>>) = 2
          /\ (<<a>> \o <<b>>)[1] = a /\ (<<a>> \o <<b>>)[2] = b
        OBVIOUS
    <3> DEFINE p == <<a>> \o <<b>>
    <3> HIDE DEF p
    <3>2. p = <<a, b>>
      <4>1. p \in Seq(S) /\ Len(p) = 2 /\ p[1] = a /\ p[2] = b  BY <3>1 DEF p
      <4> QED BY <4>1
    <3> QED BY <3>2 DEF p
  <2> QED BY <2>1, <2>2
<1>2. \A a, b, c \in S : <<a, b, c>> \in Seq(S) /\ <<a, b, c>> = <<a>> \o <<b, c>>  OBVIOUS
<1>4. <<>> \in Seq(S) /\ \A a \in S : <<a>> \in Seq(S)  OBVIOUS
<1>5. \A p, q \in Seq(S) : p \o q \in Seq(S)  OBVIOUS
<1> QED BY <1>1, <1>2, <1>4, <1>5 DEF S

\* The first row stops the run, or the rest of the rows goes on from it.
LEMMA EndsFirst ==
    ASSUME NEW r \in Rows, NEW q \in Seq(Rows), NEW s, NEW t, NEW e, NEW free,
           Ends(<<r>> \o q, s, t, e, free)
    PROVE  \/ e # "none" /\ Does(r, s, t, e, free)
           \/ \E u : Does(r, s, u, "none", free) /\ Ends(q, u, t, e, free)
<1>1. <<r>> \in Seq(Rows)  BY Tuples
<1>2. CASE e # "none" /\ Ends(<<r>>, s, t, e, free)  BY <1>2, EndsOne
<1>3. CASE \E u : Ends(<<r>>, s, u, "none", free) /\ Ends(q, u, t, e, free)  BY <1>3, EndsOne
<1> QED BY <1>1, <1>2, <1>3, EndsJoin

\* An alu row writes rd and goes on.
Writes(r, s, t) == Sets(s, t, r.rd, Out(r, s))

\* An alu row cannot fail.
LEMMA AluDoes ==
    ASSUME NEW r \in AluRows, NEW s, NEW t, NEW e, NEW free, Does(r, s, t, e, free)
    PROVE  e = "none" /\ Writes(r, s, t)
<1>1. r.row = "alu"  BY DEF AluRows
<1> QED BY <1>1, Zenon DEF Does, Writes

\* An alu row before others.
LEMMA AluFirst ==
    ASSUME NEW r \in AluRows, NEW q \in Seq(Rows), NEW s, NEW t, NEW e, NEW free,
           Ends(<<r>> \o q, s, t, e, free)
    PROVE  \E u : Writes(r, s, u) /\ Ends(q, u, t, e, free)
<1>1. r \in Rows  BY RowsAre
<1>2. CASE e # "none" /\ Does(r, s, t, e, free)  BY <1>2, AluDoes
<1>3. CASE \E u : Does(r, s, u, "none", free) /\ Ends(q, u, t, e, free)  BY <1>3, AluDoes
<1> QED BY <1>1, <1>2, <1>3, EndsFirst

\* One alu row,
LEMMA AluOne ==
    ASSUME NEW a \in AluRows, NEW s, NEW t, NEW e, NEW free, Ends(<<a>>, s, t, e, free)
    PROVE  e = "none" /\ Writes(a, s, t)
<1>1. Does(a, s, t, e, free)  BY EndsOne
<1> QED BY <1>1, AluDoes

\* two,
LEMMA AluTwo ==
    ASSUME NEW a \in AluRows, NEW b \in AluRows, NEW s, NEW t, NEW e, NEW free,
           Ends(<<a, b>>, s, t, e, free)
    PROVE  e = "none" /\ \E u : Writes(a, s, u) /\ Writes(b, u, t)
<1>1. a \in Rows /\ b \in Rows  BY RowsAre
<1>2. Ends(<<a>> \o <<b>>, s, t, e, free) /\ <<b>> \in Seq(Rows)  BY <1>1, Tuples
<1>3. PICK u : Writes(a, s, u) /\ Ends(<<b>>, u, t, e, free)  BY <1>2, AluFirst
<1>4. e = "none" /\ Writes(b, u, t)  BY <1>3, AluOne
<1> QED BY <1>3, <1>4

\* and three.
LEMMA AluThree ==
    ASSUME NEW a \in AluRows, NEW b \in AluRows, NEW c \in AluRows,
           NEW s, NEW t, NEW e, NEW free, Ends(<<a, b, c>>, s, t, e, free)
    PROVE  e = "none" /\ \E u, v : Writes(a, s, u) /\ Writes(b, u, v) /\ Writes(c, v, t)
<1>1. a \in Rows /\ b \in Rows /\ c \in Rows  BY RowsAre
<1>2. Ends(<<a>> \o <<b, c>>, s, t, e, free) /\ <<b, c>> \in Seq(Rows)  BY <1>1, Tuples
<1>3. PICK u : Writes(a, s, u) /\ Ends(<<b, c>>, u, t, e, free)  BY <1>2, AluFirst
<1>4. e = "none" /\ \E v : Writes(b, u, v) /\ Writes(c, v, t)  BY <1>3, AluTwo
<1> QED BY <1>3, <1>4

\* What a row writes.
LEMMA WritesAlu ==
    /\ \A op, rd, r, o, s, t :
           Writes(Alu(op, rd, r, o), s, t) <=> Sets(s, t, rd, Evaluate(op, s[r], Val(s, o)))
    /\ \A op, rd, r, v, s, t :
           Writes(AluImm(op, rd, r, v), s, t) <=> Sets(s, t, rd, Evaluate(op, s[r], v))
    /\ \A r, s : Val(s, R(r)) = s[r]
    /\ \A v, s : Val(s, I(v)) = v
<1>1. \A op, rd, r, o, s, t :
           Writes(Alu(op, rd, r, o), s, t) <=> Sets(s, t, rd, Evaluate(op, s[r], Val(s, o)))
  <2> SUFFICES ASSUME NEW op, NEW rd, NEW r, NEW o, NEW s, NEW t
               PROVE  Writes(Alu(op, rd, r, o), s, t) <=> Sets(s, t, rd, Evaluate(op, s[r], Val(s, o)))
      OBVIOUS
  <2> DEFINE a == Alu(op, rd, r, o)
  <2>1. a.op = op /\ a.rd = rd /\ a.rs1 = r /\ a.rs2 = o  BY DEF Alu
  <2> HIDE DEF a
  <2>2. Writes(a, s, t) <=> Sets(s, t, rd, Evaluate(op, s[r], Val(s, o)))
      BY <2>1, Zenon DEF Writes, Out
  <2> QED BY <2>2 DEF a
<1>2. \A v, s : Val(s, I(v)) = v  BY DEF Val, I
<1>3. \A op, rd, r, v, s, t :
           Writes(AluImm(op, rd, r, v), s, t) <=> Sets(s, t, rd, Evaluate(op, s[r], v))
    BY <1>1, <1>2, Zenon DEF AluImm
<1>4. \A r, s : Val(s, R(r)) = s[r]  BY DEF Val, R
<1> QED BY <1>1, <1>2, <1>3, <1>4, Zenon

\* The named registers are registers of the machine.
LEMMA RegistersAre ==
    Registers \subseteq Reg /\ Registers = {"ZERO", "A", "B", "D", "T0", "T1", "T2", "T3", "T4"}
<1> QED BY RegAssumption DEF Registers, Temps

-----------------------------------------------------------------------------
(* Operators of one row *)

\* The rows end with v in rd, and only temporaries have changed besides.
Gives(s, t, e, rd, v) == e = "none" /\ t[rd] = v /\ Keeps(s, t, Temps \cup {rd})

\* A value of either width is a word.
LEMMA ValueInt == ASSUME NEW w \in Width, NEW x \in Values(w) PROVE x \in Nat /\ x \in Word /\ x \in Int
<1> QED BY Widths, Sizes DEF Word

\* What wasm gives, operator by operator.
LEMMA WasmIs ==
    ASSUME NEW w, NEW x, NEW y
    PROVE  LET n  == NBits(w)
               k  == y % n
               sx == Signed(n, x)
               sy == Signed(n, y)
           IN /\ WasmBinary(w, "Add", x, y) = (x + y) % 2^n
              /\ WasmBinary(w, "Sub", x, y) = (x - y) % 2^n
              /\ WasmBinary(w, "Mul", x, y) = (x * y) % 2^n
              /\ WasmBinary(w, "And", x, y) = x & y
              /\ WasmBinary(w, "Or", x, y) = x | y
              /\ WasmBinary(w, "Xor", x, y) = x ^^ y
              /\ WasmBinary(w, "Eq", x, y) = Bool(x = y)
              /\ WasmBinary(w, "Ne", x, y) = Bool(x # y)
              /\ WasmBinary(w, "LtU", x, y) = Bool(x < y)
              /\ WasmBinary(w, "LeU", x, y) = Bool(x <= y)
              /\ WasmBinary(w, "GtU", x, y) = Bool(x > y)
              /\ WasmBinary(w, "GeU", x, y) = Bool(x >= y)
              /\ WasmBinary(w, "LtS", x, y) = Bool(sx < sy)
              /\ WasmBinary(w, "LeS", x, y) = Bool(sx <= sy)
              /\ WasmBinary(w, "GtS", x, y) = Bool(sx > sy)
              /\ WasmBinary(w, "GeS", x, y) = Bool(sx >= sy)
              /\ WasmBinary(w, "Shl", x, y) = (x * 2^k) % 2^n
              /\ WasmBinary(w, "ShrU", x, y) = x \div 2^k
              /\ WasmBinary(w, "ShrS", x, y) = Unsigned(n, sx \div 2^k)
              /\ WasmBinary(w, "Rotl", x, y) = ((x * 2^k) % 2^n) + x \div 2^(n - k)
              /\ WasmBinary(w, "Rotr", x, y) = x \div 2^k + ((x * 2^(n - k)) % 2^n)
              /\ WasmBinary(w, "DivU", x, y) = x \div y
              /\ WasmBinary(w, "RemU", x, y) = x % y
              /\ WasmBinary(w, "DivS", x, y) = Unsigned(n, Truncated(sx, sy))
              /\ WasmBinary(w, "RemS", x, y) = Unsigned(n, sx - sy * Truncated(sx, sy))
<1> QED BY DEF WasmBinary

\* Add, Sub and Mul: the table of the width gives wasm's result.
LEMMA DirectValue ==
    ASSUME NEW w \in Width, NEW op \in Direct, NEW x \in Values(w), NEW y \in Values(w)
    PROVE  At(w, op) \in AluOps /\ Evaluate(At(w, op), x, y) = WasmBinary(w, op, x, y)
<1>1. x \in Nat /\ y \in Nat /\ x + y \in Int /\ x - y \in Int /\ x * y \in Int  BY ValueInt
<1>2. /\ ((x + y) % M) % 2^NBits(w) = (x + y) % 2^NBits(w)
      /\ ((x * y) % M) % 2^NBits(w) = (x * y) % 2^NBits(w)
    BY <1>1, Reduces
<1>3. MulWrap(x, y) = (x * y) % M  BY <1>1, MulWraps
<1>4. 2^NBits(w) = IF w = 32 THEN HalfM ELSE M  BY Widths
<1>5. CASE op = "Add"  BY <1>5, Evaluates, <1>2, <1>4 DEF WasmBinary, At, Narrow, Wide, AluOps
<1>6. CASE op = "Sub"  BY <1>6, Evaluates, <1>4 DEF WasmBinary, At, Narrow, Wide, AluOps
<1>7. CASE op = "Mul"  BY <1>7, Evaluates, <1>2, <1>3, <1>4 DEF WasmBinary, At, Narrow, Wide, AluOps
<1> QED BY <1>5, <1>6, <1>7 DEF Direct

\* Operators whose table is the same at both widths: so do And to GeU.
LEMMA PlainValue ==
    ASSUME NEW w, NEW op \in Plain, NEW x, NEW y
    PROVE  op \in AluOps /\ Evaluate(op, x, y) = WasmBinary(w, op, x, y)
<1>1. op \in AluOps  BY DEF Plain, AluOps
<1>2. /\ Evaluate("And", x, y) = WasmBinary(w, "And", x, y)
      /\ Evaluate("Or", x, y) = WasmBinary(w, "Or", x, y)
      /\ Evaluate("Xor", x, y) = WasmBinary(w, "Xor", x, y)
    BY Evaluates, WasmIs
<1>3. /\ Evaluate("Eq", x, y) = WasmBinary(w, "Eq", x, y)
      /\ Evaluate("Ne", x, y) = WasmBinary(w, "Ne", x, y)
      /\ Evaluate("LtU", x, y) = WasmBinary(w, "LtU", x, y)
      /\ Evaluate("LeU", x, y) = WasmBinary(w, "LeU", x, y)
      /\ Evaluate("GeU", x, y) = WasmBinary(w, "GeU", x, y)
    BY Evaluates, WasmIs
<1> QED BY <1>1, <1>2, <1>3 DEF Plain

\* One alu row leaves what its table gives in rd.
LEMMA OneRow ==
    ASSUME NEW op \in AluOps, NEW rd \in Registers \ {"ZERO"}, NEW a \in Registers, NEW o \in Operands,
           NEW s, NEW t, NEW e, NEW free, Ends(<<Alu(op, rd, a, o)>>, s, t, e, free)
    PROVE  e = "none" /\ Sets(s, t, rd, Evaluate(op, s[a], Val(s, o)))
<1>1. Alu(op, rd, a, o) \in AluRows  BY RowsAre, Zenon
<1>2. e = "none" /\ Writes(Alu(op, rd, a, o), s, t)  BY <1>1, AluOne
<1> QED BY <1>2, WritesAlu, Zenon

\* and nothing but rd has changed.
LEMMA OneRowGives ==
    ASSUME NEW op \in AluOps, NEW rd \in Registers \ {"ZERO"}, NEW a \in Registers, NEW o \in Operands,
           NEW s, NEW t, NEW e, NEW free, Ends(<<Alu(op, rd, a, o)>>, s, t, e, free)
    PROVE  Gives(s, t, e, rd, Evaluate(op, s[a], Val(s, o)))
<1>1. e = "none" /\ Sets(s, t, rd, Evaluate(op, s[a], Val(s, o)))  BY OneRow
<1> QED BY <1>1 DEF Gives, Sets, Keeps

\* The same with an immediate.
LEMMA OneRowImm ==
    ASSUME NEW op \in AluOps, NEW rd \in Registers \ {"ZERO"}, NEW a \in Registers, NEW v \in Int,
           NEW s, NEW t, NEW e, NEW free, Ends(<<AluImm(op, rd, a, v)>>, s, t, e, free)
    PROVE  e = "none" /\ Sets(s, t, rd, Evaluate(op, s[a], v))
<1>1. AluImm(op, rd, a, v) \in AluRows  BY RowsAre, Zenon
<1>2. e = "none" /\ Writes(AluImm(op, rd, a, v), s, t)  BY <1>1, AluOne
<1> QED BY <1>2, WritesAlu, Zenon

-----------------------------------------------------------------------------
(* Signed comparisons *)

\* What SignExtendWord does with an i32.
LEMMA Widened ==
    ASSUME NEW x \in Values(32)
    PROVE  /\ Evaluate("SignExtendWord", x, 0) = Unsigned(Bits, Signed(H, x))
           /\ Unsigned(Bits, Signed(H, x)) \in Word
           /\ Signed(Bits, Unsigned(Bits, Signed(H, x))) = Signed(H, x)
           /\ Signed(H, x) \in SignedRange(H) /\ Signed(H, x) \in SignedRange(Bits)
<1>1. x \in 0 .. HalfM - 1 /\ x \in Word /\ 32 \in Width  BY Widths, ValueInt DEF Width, Values
<1>2. ((x + 0) % M) % HalfM = x  BY <1>1, PlusZero, RemainderSmall, Sizes
<1>3. Evaluate("SignExtendWord", x, 0) = Unsigned(Bits, Signed(H, x))  BY <1>2, Evaluates
<1>4. H \in Nat \ {0} /\ Bits \in Nat \ {0} /\ H <= Bits /\ HalfM = 2^H /\ M = 2^Bits  BY Sizes
<1>5. Signed(H, x) \in SignedRange(H)  BY <1>1, <1>4, SignedIs
<1>6. Signed(H, x) \in SignedRange(Bits)  BY <1>4, <1>5, SignedRangeGrows
<1>7. Unsigned(Bits, Signed(H, x)) \in 0 .. 2^Bits - 1
      /\ Signed(Bits, Unsigned(Bits, Signed(H, x))) = Signed(H, x)
    BY <1>4, <1>6, UnsignedIs
<1> QED BY <1>3, <1>4, <1>5, <1>6, <1>7 DEF Word

\* Both i32s of a signed comparison, sign-extended into T0 and T1.
LEMMA WideSignedRuns ==
    ASSUME NEW b \in {"A", "B"}, NEW s, s["A"] \in Values(32), s[b] \in Values(32),
           NEW t, NEW e, NEW free, Ends(WideSigned("A", b), s, t, e, free)
    PROVE  /\ e = "none" /\ Keeps(s, t, {"T0", "T1"})
           /\ t["T0"] = Unsigned(Bits, Signed(H, s["A"])) /\ t["T1"] = Unsigned(Bits, Signed(H, s[b]))
<1> DEFINE r1 == AluImm("SignExtendWord", "T0", "A", 0)
           r2 == AluImm("SignExtendWord", "T1", b, 0)
<1>1. "SignExtendWord" \in AluOps /\ "T0" \in Registers /\ "T1" \in Registers /\ "A" \in Registers
      /\ b \in Registers /\ 0 \in Int
    BY RegistersAre DEF AluOps
<1>2. r1 \in AluRows /\ r2 \in AluRows  BY <1>1, RowsAre, Zenon
<1>3. Ends(<<r1, r2>>, s, t, e, free)  BY DEF WideSigned
<1> HIDE DEF r1, r2
<1>4. PICK u : e = "none" /\ Writes(r1, s, u) /\ Writes(r2, u, t)  BY <1>2, <1>3, AluTwo
<1>5. Sets(s, u, "T0", Evaluate("SignExtendWord", s["A"], 0))  BY <1>4, WritesAlu, Zenon DEF r1
<1>6. Sets(u, t, "T1", Evaluate("SignExtendWord", u[b], 0))  BY <1>4, WritesAlu, Zenon DEF r2
<1>7. u[b] = s[b]  BY <1>1, <1>5, RegistersAre DEF Sets
<1>8. Sets(s, u, "T0", Unsigned(Bits, Signed(H, s["A"])))  BY <1>5, Widened
<1>9. Sets(u, t, "T1", Unsigned(Bits, Signed(H, s[b])))  BY <1>6, <1>7, Widened
<1>10. t["T0"] = u["T0"]  BY <1>1, <1>9, RegistersAre DEF Sets
<1>11. Keeps(s, t, {"T0", "T1"})  BY <1>8, <1>9 DEF Sets, Keeps
<1> QED BY <1>4, <1>8, <1>9, <1>10, <1>11 DEF Sets

\* No rows before others.
LEMMA EndsAfterNone ==
    ASSUME NEW q \in Seq(Rows), NEW s, NEW t, NEW e, NEW free, Ends(<<>> \o q, s, t, e, free)
    PROVE  Ends(q, s, t, e, free)
<1>1. <<>> \in Seq(Rows)  BY Tuples
<1>2. CASE e # "none" /\ Ends(<<>>, s, t, e, free)  BY <1>2, EndsNone
<1>3. CASE \E u : Ends(<<>>, s, u, "none", free) /\ Ends(q, u, t, e, free)  BY <1>3, EndsNone
<1> QED BY <1>1, <1>2, <1>3, EndsJoin

\* Rows that stop nowhere, then others.
LEMMA EndsAfter ==
    ASSUME NEW p \in Seq(Rows), NEW q \in Seq(Rows), NEW s, NEW t, NEW e, NEW free,
           Ends(p \o q, s, t, e, free), \A v : Ends(p, s, v, e, free) => e = "none"
    PROVE  \E u : Ends(p, s, u, "none", free) /\ Ends(q, u, t, e, free)
<1> QED BY EndsJoin

Compared(table, i, j) == IF table = "LtS" THEN Bool(i < j) ELSE Bool(i >= j)

\* LtS and GeS compare the integers the words stand for.
LEMMA CompareValue ==
    ASSUME NEW table \in {"LtS", "GeS"}, NEW x, NEW y
    PROVE  table \in AluOps
           /\ Evaluate(table, x, y) = Compared(table, Signed(Bits, x), Signed(Bits, y))
<1>1. /\ Evaluate("LtS", x, y) = Compared("LtS", Signed(Bits, x), Signed(Bits, y))
      /\ Evaluate("GeS", x, y) = Compared("GeS", Signed(Bits, x), Signed(Bits, y))
    BY Evaluates DEF Compared
<1> QED BY <1>1 DEF AluOps

\* LtS, GtS, LeS and GeS: one table compares either way at either width.
LEMMA CompareRuns ==
    ASSUME NEW w \in Width, NEW table \in {"LtS", "GeS"}, NEW swap \in BOOLEAN,
           NEW rd \in Registers \ {"ZERO"}, NEW b \in {"A", "B"}, NEW s, s["A"] \in Values(w), s[b] \in Values(w),
           NEW t, NEW e, NEW free, Ends(Compare(w, table, swap, rd, "A", b), s, t, e, free)
    PROVE  LET sx == Signed(NBits(w), s["A"])
               sy == Signed(NBits(w), s[b])
           IN Gives(s, t, e, rd, IF swap THEN Compared(table, sy, sx) ELSE Compared(table, sx, sy))
<1> DEFINE x == IF w = 32 THEN "T0" ELSE "A"
           y == IF w = 32 THEN "T1" ELSE b
           last == IF swap THEN Alu(table, rd, y, R(x)) ELSE Alu(table, rd, x, R(y))
           first == IF w = 32 THEN WideSigned("A", b) ELSE <<>>
           sx == Signed(NBits(w), s["A"])
           sy == Signed(NBits(w), s[b])
<1>1. x \in Registers /\ y \in Registers /\ "A" \in Registers /\ b \in Registers /\ table \in AluOps
      /\ "T0" \in Registers /\ "T1" \in Registers /\ "SignExtendWord" \in AluOps /\ 0 \in Int
    BY RegistersAre, CompareValue DEF AluOps
<1>2. R(x) \in Operands /\ R(y) \in Operands  BY <1>1, OperandsAre
<1> HIDE DEF x, y
<1>3. last \in Rows  BY <1>1, <1>2, RowsAre
<1>4. first \in Seq(Rows)  BY <1>1, RowsAre, Tuples DEF WideSigned
<1>5. Ends(first \o <<last>>, s, t, e, free)  BY Zenon DEF Compare, x, y
<1> HIDE DEF first, last
<1>6. <<last>> \in Seq(Rows)  BY <1>3, Tuples
<1>7. \E u : /\ Keeps(s, u, {"T0", "T1"}) /\ Ends(<<last>>, u, t, e, free)
             /\ Signed(Bits, u[x]) = sx /\ Signed(Bits, u[y]) = sy
  <2>1. CASE w = 32
    <3>1. first = WideSigned("A", b) /\ x = "T0" /\ y = "T1" /\ NBits(w) = H
        BY <2>1 DEF first, x, y, NBits
    <3>2. s["A"] \in Values(32) /\ s[b] \in Values(32)  BY <2>1
    <3>3. \A v : Ends(first, s, v, e, free) => e = "none"  BY <3>1, <3>2, WideSignedRuns
    <3>4. PICK u : Ends(first, s, u, "none", free) /\ Ends(<<last>>, u, t, e, free)
        BY <1>4, <1>5, <1>6, <3>3, EndsAfter
    <3>5. /\ Keeps(s, u, {"T0", "T1"})
          /\ u["T0"] = Unsigned(Bits, Signed(H, s["A"])) /\ u["T1"] = Unsigned(Bits, Signed(H, s[b]))
        BY <3>1, <3>2, <3>4, WideSignedRuns
    <3>6. Signed(Bits, u[x]) = sx /\ Signed(Bits, u[y]) = sy  BY <3>1, <3>2, <3>5, Widened
    <3> QED BY <3>4, <3>5, <3>6
  <2>2. CASE w = 64  BY <2>2, <1>5, <1>6, EndsAfterNone DEF first, x, y, NBits, Keeps
  <2> QED BY <2>1, <2>2 DEF Width
<1>8. PICK u : /\ Keeps(s, u, {"T0", "T1"}) /\ Ends(<<last>>, u, t, e, free)
               /\ Signed(Bits, u[x]) = sx /\ Signed(Bits, u[y]) = sy
    BY <1>7
<1> HIDE DEF sx, sy
<1>9. e = "none" /\ Sets(u, t, rd, IF swap THEN Compared(table, sy, sx) ELSE Compared(table, sx, sy))
  <2>1. CASE swap  BY <1>1, <1>2, <1>8, <2>1, OneRow, WritesAlu, CompareValue DEF last
  <2>2. CASE ~swap  BY <1>1, <1>2, <1>8, <2>2, OneRow, WritesAlu, CompareValue DEF last
  <2> QED BY <2>1, <2>2
<1>10. Keeps(s, t, Temps \cup {rd})  BY <1>8, <1>9 DEF Keeps, Sets, Temps
<1>11. Gives(s, t, e, rd, IF swap THEN Compared(table, sy, sx) ELSE Compared(table, sx, sy))
    BY <1>9, <1>10 DEF Gives, Sets
<1> QED BY <1>11 DEF sx, sy

-----------------------------------------------------------------------------
(* Shifts and rotations *)

\* The count of a shift: masked at i32, left alone at i64, where the table
\* reduces it.
LEMMA MaskedRuns ==
    ASSUME NEW w \in Width, NEW b \in {"A", "B", "T1"}, NEW s, s[b] \in Word,
           NEW t, NEW e, NEW free, Ends(Masked(w, b), s, t, e, free)
    PROVE  /\ e = "none" /\ Keeps(s, t, {"T0"})
           /\ t[Count(w, b)] \in Word /\ t[Count(w, b)] % NBits(w) = s[b] % NBits(w)
           /\ t[Count(w, b)] % Bits = s[b] % NBits(w)
<1>1. b \in Registers /\ "T0" \in Registers /\ "And" \in AluOps /\ H - 1 \in Int /\ b # "T0"
    BY RegistersAre, Sizes DEF AluOps
<1>2. CASE w = 32
  <2>1. Ends(<<AluImm("And", "T0", b, H - 1)>>, s, t, e, free)  BY <1>2, Zenon DEF Masked
  <2>2. e = "none" /\ Sets(s, t, "T0", Evaluate("And", s[b], H - 1))  BY <1>1, <2>1, OneRowImm
  <2>3. Count(w, b) = "T0" /\ NBits(w) = H  BY <1>2 DEF Count, NBits
  <2>4. PICK k \in Int : k = s[b] % H /\ k \in 0 .. H - 1 /\ k \in 0 .. Bits - 1 /\ k \in Word
        /\ (s[b] & (H - 1)) = k
      BY <2>3, Counts
  <2>5. t["T0"] = k  BY <2>2, <2>4, Evaluates DEF Sets
  <2>6. k % H = k /\ k % Bits = k  BY <2>4, RemainderSmall, Sizes
  <2>7. Keeps(s, t, {"T0"})  BY <2>2 DEF Sets, Keeps
  <2> QED BY <2>2, <2>3, <2>4, <2>5, <2>6, <2>7
<1>3. CASE w = 64  BY <1>3, EndsNone DEF Masked, Count, NBits, Keeps
<1> QED BY <1>2, <1>3 DEF Width

\* Its rows are rows.
LEMMA MaskedTyped ==
    \A w \in Width : \A b \in {"A", "B", "T1"} :
        Masked(w, b) \in Seq(Rows) /\ Count(w, b) \in Registers
<1> SUFFICES ASSUME NEW w \in Width, NEW b \in {"A", "B", "T1"}
             PROVE  Masked(w, b) \in Seq(Rows) /\ Count(w, b) \in Registers
    OBVIOUS
<1>1. b \in Registers /\ "T0" \in Registers /\ "And" \in AluOps /\ H - 1 \in Int
    BY RegistersAre, Sizes DEF AluOps
<1>2. AluImm("And", "T0", b, H - 1) \in Rows  BY <1>1, RowsAre
<1> QED BY <1>1, <1>2, Tuples DEF Masked, Count

\* The count that a bitmask or a power takes from a register, modulo the width.
LEMMA CountOf ==
    ASSUME NEW v \in Word, NEW k, v % Bits = k
    PROVE  /\ Evaluate("ShiftRightBitmask", v, 0) = ShiftMask(k)
           /\ Evaluate("Pow2", v, 0) = 2^k
<1>1. (v + 0) % M = v  BY PlusZero
<1> QED BY <1>1, Evaluates

\* emit_shift_bitmask: T0 holds the mask of the count modulo the width.
LEMMA ShiftBitmaskRuns ==
    ASSUME NEW w \in Width, NEW b \in {"A", "B", "T1"}, NEW s, s[b] \in Word,
           NEW t, NEW e, NEW free, Ends(ShiftBitmask(w, b), s, t, e, free)
    PROVE  e = "none" /\ Sets(s, t, "T0", ShiftMask(s[b] % NBits(w)))
<1> DEFINE r == AluImm("ShiftRightBitmask", "T0", Count(w, b), 0)
<1>1. "ShiftRightBitmask" \in AluOps /\ "T0" \in Registers /\ Count(w, b) \in Registers /\ 0 \in Int
      /\ Masked(w, b) \in Seq(Rows)
    BY MaskedTyped, RegistersAre DEF AluOps
<1>2. <<r>> \in Seq(Rows)  BY <1>1, RowsAre, Tuples
<1>3. Ends(Masked(w, b) \o <<r>>, s, t, e, free)  BY Zenon DEF ShiftBitmask
<1> HIDE DEF r
<1>4. \A v : Ends(Masked(w, b), s, v, e, free) => e = "none"  BY MaskedRuns
<1>5. PICK u : Ends(Masked(w, b), s, u, "none", free) /\ Ends(<<r>>, u, t, e, free)
    BY <1>1, <1>2, <1>3, <1>4, EndsAfter
<1>6. /\ Keeps(s, u, {"T0"}) /\ u[Count(w, b)] \in Word
      /\ u[Count(w, b)] % Bits = s[b] % NBits(w)
    BY <1>5, MaskedRuns
<1>7. e = "none" /\ Sets(u, t, "T0", Evaluate("ShiftRightBitmask", u[Count(w, b)], 0))
    BY <1>1, <1>5, OneRowImm DEF r
<1>8. Sets(u, t, "T0", ShiftMask(s[b] % NBits(w)))  BY <1>6, <1>7, CountOf
<1>9. Sets(s, t, "T0", ShiftMask(s[b] % NBits(w)))  BY <1>6, <1>8 DEF Sets, Keeps
<1> QED BY <1>7, <1>9

\* Its rows are rows.
LEMMA ShiftBitmaskTyped ==
    \A w \in Width : \A b \in {"A", "B", "T1"} : ShiftBitmask(w, b) \in Seq(Rows)
<1> SUFFICES ASSUME NEW w \in Width, NEW b \in {"A", "B", "T1"} PROVE ShiftBitmask(w, b) \in Seq(Rows)
    OBVIOUS
<1>1. "ShiftRightBitmask" \in AluOps /\ "T0" \in Registers /\ Count(w, b) \in Registers /\ 0 \in Int
      /\ Masked(w, b) \in Seq(Rows)
    BY MaskedTyped, RegistersAre DEF AluOps
<1>2. <<AluImm("ShiftRightBitmask", "T0", Count(w, b), 0)>> \in Seq(Rows)  BY <1>1, RowsAre, Tuples
<1> QED BY <1>1, <1>2, Tuples DEF ShiftBitmask

\* Mul multiplies modulo the width.
LEMMA MulValue ==
    ASSUME NEW w \in Width, NEW x \in Nat, NEW y \in Nat
    PROVE  At(w, "Mul") \in AluOps /\ Evaluate(At(w, "Mul"), x, y) = (x * y) % 2^NBits(w)
<1>1. ((x * y) % M) % 2^NBits(w) = (x * y) % 2^NBits(w)
  <2>1. PICK z \in Int : z = x * y  OBVIOUS
  <2> QED BY <2>1, Reduces
<1>2. MulWrap(x, y) = (x * y) % M  BY MulWraps
<1>3. 2^NBits(w) = IF w = 32 THEN HalfM ELSE M  BY Widths
<1>4. At(w, "Mul") = IF w = 32 THEN "Mul32" ELSE "Mul64"  BY DEF At, Narrow, Wide
<1>5. Evaluate("Mul64", x, y) = MulWrap(x, y) /\ Evaluate("Mul32", x, y) = MulWrap(x, y) % HalfM
    BY Evaluates
<1>6. CASE w = 32  BY <1>1, <1>2, <1>3, <1>4, <1>5, <1>6 DEF AluOps
<1>7. CASE w # 32  BY <1>2, <1>3, <1>4, <1>5, <1>7 DEF AluOps
<1> QED BY <1>6, <1>7

\* What a shift count does once it is a mask.
LEMMA ShiftValue ==
    ASSUME NEW k \in 0 .. Bits - 1, NEW x
    PROVE  /\ Evaluate("Srl", x, ShiftMask(k)) = x \div 2^k
           /\ Evaluate("Sra", x, ShiftMask(k)) = Unsigned(Bits, Signed(Bits, x) \div 2^k)
           /\ Evaluate("Rotr", x, ShiftMask(k)) = RotateRight(x, k)
<1>1. TrailingZeros(Bits, ShiftMask(k)) = k  BY MaskShift
<1>2. k % Bits = k  BY RemainderSmall, Sizes
<1> QED BY <1>1, <1>2, Evaluates

\* LowerHalfWord keeps the low half.
LEMMA LowerHalf ==
    /\ \A z \in Word : Evaluate("LowerHalfWord", z, 0) = z % HalfM
    /\ \A v \in Int : Evaluate("LowerHalfWord", v % M, 0) = v % HalfM /\ v % M \in Word
<1>1. \A z \in Word : Evaluate("LowerHalfWord", z, 0) = z % HalfM  BY Evaluates, PlusZero
<1>2. ASSUME NEW v \in Int PROVE (v % M) % HalfM = v % HalfM /\ v % M \in Word
    BY Sizes, Reduces, Parts DEF NBits, Width, Word
<1> QED BY <1>1, <1>2

\* Shl: Pow2 of the count, then a multiplication, is wasm's shl.
LEMMA ShlRuns ==
    ASSUME NEW w \in Width, NEW rd \in {"A", "B", "D"}, NEW b \in {"A", "B"},
           NEW s, s["A"] \in Values(w), s[b] \in Values(w),
           NEW t, NEW e, NEW free, Ends(Shl(w, rd, "A", b), s, t, e, free)
    PROVE  Gives(s, t, e, rd, WasmBinary(w, "Shl", s["A"], s[b]))
<1> DEFINE r1 == AluImm("Pow2", "T0", Count(w, b), 0)
           r2 == Alu(At(w, "Mul"), rd, "A", R("T0"))
<1>1. PICK k : k = s[b] % NBits(w)  OBVIOUS
<1>2. k \in 0 .. Bits - 1 /\ k \in Nat /\ s[b] \in Word /\ s["A"] \in Nat /\ 2^k \in Nat
    BY ValueInt, <1>1, Counts, PowerPositive
<1>3. "Pow2" \in AluOps /\ At(w, "Mul") \in AluOps /\ 0 \in Int /\ "T0" \in Registers
      /\ "A" \in Registers /\ rd \in Registers /\ Count(w, b) \in Registers
      /\ Masked(w, b) \in Seq(Rows) /\ R("T0") \in Operands
  <2>1. At(w, "Mul") \in AluOps  BY MulValue
  <2>2. Masked(w, b) \in Seq(Rows) /\ Count(w, b) \in Registers  BY MaskedTyped
  <2>3. "T0" \in Registers /\ "A" \in Registers /\ rd \in Registers  BY RegistersAre
  <2>4. "Pow2" \in AluOps  BY DEF AluOps
  <2>5. R("T0") \in Operands  BY <2>3, OperandsAre
  <2> QED BY <2>1, <2>2, <2>3, <2>4, <2>5
<1>4. r1 \in AluRows /\ r2 \in AluRows  BY <1>3, RowsAre, Zenon
<1>5. <<r1, r2>> \in Seq(Rows)
  <2>1. r1 \in Rows /\ r2 \in Rows  BY <1>4, RowsAre
  <2> HIDE DEF r1, r2
  <2> QED BY <2>1, Tuples
<1>6. Ends(Masked(w, b) \o <<r1, r2>>, s, t, e, free)  BY Zenon DEF Shl
<1> HIDE DEF r1, r2
<1>7. \A v : Ends(Masked(w, b), s, v, e, free) => e = "none"  BY <1>2, MaskedRuns
<1>8. PICK u : Ends(Masked(w, b), s, u, "none", free) /\ Ends(<<r1, r2>>, u, t, e, free)
    BY <1>3, <1>5, <1>6, <1>7, EndsAfter
<1>9. Keeps(s, u, {"T0"}) /\ u[Count(w, b)] \in Word /\ u[Count(w, b)] % Bits = k
    BY <1>1, <1>2, <1>8, MaskedRuns
<1>10. PICK v : e = "none" /\ Writes(r1, u, v) /\ Writes(r2, v, t)  BY <1>4, <1>8, AluTwo
<1>11. Sets(u, v, "T0", 2^k)  BY <1>10, WritesAlu, <1>9, CountOf DEF r1
<1>12. v["A"] = s["A"] /\ v["T0"] = 2^k  BY <1>9, <1>11, RegistersAre DEF Sets, Keeps
<1>13. Sets(v, t, rd, (s["A"] * 2^k) % 2^NBits(w))
  <2>1. Sets(v, t, rd, Evaluate(At(w, "Mul"), v["A"], Val(v, R("T0"))))
      BY <1>10, WritesAlu, Zenon DEF r2
  <2>2. Val(v, R("T0")) = 2^k  BY <1>12, WritesAlu
  <2> QED BY <1>2, <1>12, <2>1, <2>2, MulValue
<1>14. WasmBinary(w, "Shl", s["A"], s[b]) = (s["A"] * 2^k) % 2^NBits(w)  BY <1>1, WasmIs
<1> QED BY <1>9, <1>10, <1>11, <1>13, <1>14 DEF Gives, Keeps, Sets, Temps

\* ShrU: Srl by the mask is wasm's shr_u.
LEMMA ShrURuns ==
    ASSUME NEW w \in Width, NEW rd \in {"A", "B", "D"}, NEW b \in {"A", "B"},
           NEW s, s["A"] \in Values(w), s[b] \in Values(w),
           NEW t, NEW e, NEW free, Ends(ShrU(w, rd, "A", b), s, t, e, free)
    PROVE  Gives(s, t, e, rd, WasmBinary(w, "ShrU", s["A"], s[b]))
<1> DEFINE r == Alu("Srl", rd, "A", R("T0"))
<1>1. PICK k : k = s[b] % NBits(w)  OBVIOUS
<1>2. k \in 0 .. Bits - 1 /\ s[b] \in Word  BY <1>1, ValueInt, Counts
<1>3. "Srl" \in AluOps /\ "T0" \in Registers /\ "A" \in Registers /\ rd \in Registers
      /\ R("T0") \in Operands /\ ShiftBitmask(w, b) \in Seq(Rows)
    BY ShiftBitmaskTyped, RegistersAre, OperandsAre DEF AluOps
<1>4. <<r>> \in Seq(Rows)  BY <1>3, RowsAre, Tuples
<1>5. Ends(ShiftBitmask(w, b) \o <<r>>, s, t, e, free)  BY Zenon DEF ShrU
<1> HIDE DEF r
<1>6. \A v : Ends(ShiftBitmask(w, b), s, v, e, free) => e = "none"  BY <1>2, ShiftBitmaskRuns
<1>7. PICK u : Ends(ShiftBitmask(w, b), s, u, "none", free) /\ Ends(<<r>>, u, t, e, free)
    BY <1>3, <1>4, <1>5, <1>6, EndsAfter
<1>8. Sets(s, u, "T0", ShiftMask(k))  BY <1>1, <1>2, <1>7, ShiftBitmaskRuns
<1>9. u["A"] = s["A"] /\ u["T0"] = ShiftMask(k)  BY <1>8, RegistersAre DEF Sets
<1>10. e = "none" /\ Sets(u, t, rd, Evaluate("Srl", u["A"], Val(u, R("T0"))))
    BY <1>3, <1>7, OneRow DEF r
<1>11. Val(u, R("T0")) = ShiftMask(k)  BY <1>9, WritesAlu
<1>12. Sets(u, t, rd, s["A"] \div 2^k)  BY <1>2, <1>9, <1>10, <1>11, ShiftValue
<1>13. WasmBinary(w, "ShrU", s["A"], s[b]) = s["A"] \div 2^k  BY <1>1, WasmIs
<1> QED BY <1>8, <1>10, <1>12, <1>13 DEF Gives, Keeps, Sets, Temps

\* ShrS: an i32 is sign-extended, shifted and cut, which is wasm's shr_s.
LEMMA ShrSRuns ==
    ASSUME NEW w \in Width, NEW rd \in {"A", "B", "D"}, NEW b \in {"A", "B"},
           NEW s, s["A"] \in Values(w), s[b] \in Values(w),
           NEW t, NEW e, NEW free, Ends(ShrS(w, rd, "A", b), s, t, e, free)
    PROVE  Gives(s, t, e, rd, WasmBinary(w, "ShrS", s["A"], s[b]))
<1> DEFINE r0 == Alu("Sra", rd, "A", R("T0"))
           r1 == AluImm("SignExtendWord", "T1", "A", 0)
           r2 == Alu("Sra", "T1", "T1", R("T0"))
           r3 == AluImm("LowerHalfWord", rd, "T1", 0)
           q  == IF w = 64 THEN <<r0>> ELSE <<r1, r2, r3>>
<1>1. PICK k : k = s[b] % NBits(w)  OBVIOUS
<1>2. k \in 0 .. Bits - 1 /\ s[b] \in Word  BY <1>1, ValueInt, Counts
<1>3. {"Sra", "SignExtendWord", "LowerHalfWord"} \subseteq AluOps /\ rd \in Registers
      /\ "T0" \in Registers /\ "T1" \in Registers /\ "A" \in Registers /\ 0 \in Int
      /\ R("T0") \in Operands /\ ShiftBitmask(w, b) \in Seq(Rows)
    BY ShiftBitmaskTyped, RegistersAre, OperandsAre DEF AluOps
<1>4. r0 \in AluRows /\ r1 \in AluRows /\ r2 \in AluRows /\ r3 \in AluRows  BY <1>3, RowsAre
<1>5. q \in Seq(Rows)
  <2>1. r0 \in Rows /\ r1 \in Rows /\ r2 \in Rows /\ r3 \in Rows  BY <1>4, RowsAre
  <2> HIDE DEF r0, r1, r2, r3
  <2> QED BY <2>1, Tuples
<1>6. Ends(ShiftBitmask(w, b) \o q, s, t, e, free)  BY Zenon DEF ShrS
<1> HIDE DEF q, r0, r1, r2, r3
<1>7. \A v : Ends(ShiftBitmask(w, b), s, v, e, free) => e = "none"  BY <1>2, ShiftBitmaskRuns
<1>8. PICK u : Ends(ShiftBitmask(w, b), s, u, "none", free) /\ Ends(q, u, t, e, free)
    BY <1>3, <1>5, <1>6, <1>7, EndsAfter
<1>9. Sets(s, u, "T0", ShiftMask(k))  BY <1>1, <1>2, <1>8, ShiftBitmaskRuns
<1>10. u["A"] = s["A"] /\ u["T0"] = ShiftMask(k) /\ Keeps(s, u, {"T0"})
    BY <1>9, RegistersAre DEF Sets, Keeps
<1>11. WasmBinary(w, "ShrS", s["A"], s[b]) = Unsigned(NBits(w), Signed(NBits(w), s["A"]) \div 2^k)
    BY <1>1, WasmIs
<1>12. CASE w = 64
  <2>1. e = "none" /\ Sets(u, t, rd, Evaluate("Sra", u["A"], Val(u, R("T0"))))
      BY <1>3, <1>8, <1>12, OneRow DEF q, r0
  <2>2. Val(u, R("T0")) = ShiftMask(k)  BY <1>10, WritesAlu
  <2>3. Sets(u, t, rd, Unsigned(Bits, Signed(Bits, s["A"]) \div 2^k))
      BY <1>2, <1>10, <2>1, <2>2, ShiftValue
  <2>4. NBits(w) = Bits  BY <1>12 DEF NBits
  <2> QED BY <1>10, <1>11, <2>1, <2>3, <2>4 DEF Gives, Keeps, Sets, Temps
<1>13. CASE w = 32
  <2>1. Ends(<<r1, r2, r3>>, u, t, e, free)  BY <1>8, <1>13 DEF q
  <2>2. PICK a, c : e = "none" /\ Writes(r1, u, a) /\ Writes(r2, a, c) /\ Writes(r3, c, t)
      BY <1>4, <2>1, AluThree
  <2>3. Sets(u, a, "T1", Evaluate("SignExtendWord", u["A"], 0))  BY <2>2, WritesAlu, Zenon DEF r1
  <2>4. Sets(a, c, "T1", Evaluate("Sra", a["T1"], Val(a, R("T0"))))
      BY <2>2, WritesAlu, Zenon DEF r2
  <2>5. Sets(c, t, rd, Evaluate("LowerHalfWord", c["T1"], 0))  BY <2>2, WritesAlu, Zenon DEF r3
  <2>6. s["A"] \in Values(32) /\ NBits(w) = H  BY <1>13 DEF NBits
  <2>7. a["T1"] = Unsigned(Bits, Signed(H, s["A"])) /\ a["T0"] = ShiftMask(k)
      BY <1>10, <2>3, <2>6, Widened, RegistersAre DEF Sets
  <2>8. Val(a, R("T0")) = ShiftMask(k)  BY <2>7, WritesAlu
  <2>9. PICK i \in Int : i = Signed(H, s["A"]) /\ Signed(Bits, a["T1"]) = i
      BY <2>6, Widened, Sizes, Halves, <2>7 DEF SignedRange
  <2>10. PICK v \in Int : v = i \div 2^k
    <3>1. k \in Nat  BY <1>2
    <3> QED BY <3>1, Parts, PowerPositive
  <2>11. c["T1"] = v % M  BY <1>2, <2>9, <2>10, ShiftValue, Sizes, <2>4, <2>8 DEF Unsigned, Sets
  <2>12. Sets(c, t, rd, v % HalfM)  BY <2>5, <2>11, LowerHalf
  <2>13. WasmBinary(w, "ShrS", s["A"], s[b]) = v % HalfM
      BY <1>11, <2>6, <2>9, <2>10, Sizes DEF Unsigned
  <2> QED BY <1>10, <2>2, <2>3, <2>4, <2>12, <2>13 DEF Gives, Keeps, Sets, Temps
<1> QED BY <1>12, <1>13 DEF Width

\* A word of n bits rotated right by k: the high part, then the k low bits.
Rotated(n, x, k) == x \div 2^k + (x % 2^k) * 2^(n - k)

\* The bits that wrap around.
LEMMA RotatedIs ==
    ASSUME NEW n \in Nat, NEW k \in 0 .. n, NEW x \in Int
    PROVE  (x * 2^(n - k)) % 2^n = (x % 2^k) * 2^(n - k)
<1>1. k \in Nat /\ n - k \in Nat /\ k <= n  OBVIOUS
<1>2. PICK p, c, q \in Nat \ {0} : p = 2^k /\ c = 2^(n - k) /\ q = 2^n  BY <1>1, PowerPositive
<1>3. q = p * c  BY <1>1, <1>2, PowerSplit
<1>4. (x * c) % (p * c) = (x % p) * c  BY RemainderScale
<1> QED BY <1>2, <1>3, <1>4

\* The low half of an i32 written twice and shifted right is the i32 rotated.
LEMMA RotatedTwice ==
    ASSUME NEW p \in Nat \ {0}, NEW c \in Nat \ {0}, NEW h \in Nat \ {0}, h = p * c,
           NEW x \in 0 .. h - 1
    PROVE  ((x * h + x) \div p) % h = x \div p + (x % p) * c
<1>1. x \in Int /\ x >= 0 /\ x < h /\ p \in Int /\ p > 0 /\ c \in Int /\ c > 0 /\ h \in Int /\ h > 0
    OBVIOUS
<1>2. PICK f \in Int, r \in 0 .. p - 1 : f = x \div p /\ r = x % p /\ x = p * f + r  BY <1>1, Parts
<1>3. r \in Int /\ f \in Int /\ r >= 0 /\ r <= p - 1  BY <1>2
<1>4. PICK g \in Int : g = p * f  BY <1>1, <1>3, Ring
<1>5. PICK z \in Int : z = x * c  BY <1>1, Ring
<1>6. PICK u \in Int : u = r * c  BY <1>1, <1>3, Ring
<1>7. PICK j \in Int : j = x * h  BY <1>1, Ring
<1>8. PICK i \in Int : i = h * f  BY <1>1, <1>3, Ring
<1>9. x = g + r  BY <1>2, <1>4
<1>10. j = p * z  BY <1>1, Ring, <1>5, <1>7
<1>11. z = i + u  BY <1>1, <1>3, <1>4, Ring, <1>5, <1>6, <1>8, <1>9
<1>12. (j + x) \div p = z + f
  <2>1. PICK k \in Int : k = z + f  BY <1>3
  <2>2. z * p + f * p = k * p  BY <1>1, <1>3, <2>1, Ring
  <2>3. z * p = p * z /\ f * p = p * f /\ k * p = p * k /\ p * k \in Int  BY <1>1, <1>3, <2>1, Ring
  <2>4. PICK m \in Int : m = p * k /\ m = j + g  BY <1>4, <1>10, <2>2, <2>3
  <2>5. PICK y \in Int : y = j + x  BY <1>1
  <2>6. y = m + r  BY <1>3, <1>9, <2>4, <2>5
  <2>7. y \div p = k  BY <2>4, <2>6, <1>1, <1>2, <2>1, Quotient
  <2> QED BY <2>1, <2>5, <2>7
<1>13. f >= 0
  <2>1. SUFFICES ASSUME f <= -1 PROVE FALSE  BY <1>3
  <2>2. p * f <= p * (-1)  BY <1>1, <1>3, <2>1
  <2>3. p * (-1) = -p  BY <1>1
  <2> QED BY <1>1, <1>3, <1>4, <1>9, <2>2, <2>3
<1>14. f < c
  <2>1. SUFFICES ASSUME f >= c PROVE FALSE  BY <1>1, <1>3
  <2>2. p * f >= p * c  BY <1>1, <1>3, <2>1
  <2>3. g >= h  BY <1>4, <2>2
  <2> QED BY <1>1, <1>3, <1>9, <2>3
<1>15. u >= 0 /\ u <= h - c  BY <1>1, <1>3, <1>6
<1>16. PICK o \in Int : o = u + f  BY <1>3
<1>17. o \in 0 .. h - 1  BY <1>1, <1>3, <1>13, <1>14, <1>15, <1>16
<1>18. PICK k \in Int : k = z + f  BY <1>3
<1>19. k = i + o  BY <1>3, <1>11, <1>16, <1>18
<1>20. k % h = o  BY <1>8, <1>19, <1>1, <1>3, <1>17, Remainder
<1>21. x \div p + (x % p) * c = f + u  BY <1>2, <1>6
<1>22. f + u = o  BY <1>3, <1>16
<1> QED BY <1>7, <1>12, <1>18, <1>20, <1>21, <1>22

\* Rotr on one word, and on an i32 written twice, rotates within the width.
LEMMA RotatedWord ==
    ASSUME NEW w \in Width, NEW x \in Values(w), NEW k \in 0 .. NBits(w) - 1
    PROVE  /\ w = 64 => RotateRight(x, k) = Rotated(NBits(w), x, k)
           /\ w = 32 => ((x * HalfM + x) \div 2^k) % HalfM = Rotated(NBits(w), x, k)
<1>1. NBits(w) \in Nat /\ k \in Nat /\ k <= NBits(w) /\ x \in Int  BY ValueInt, Widths
<1>2. CASE w = 64  BY <1>2 DEF RotateRight, Rotated, NBits
<1>3. CASE w = 32
  <2>1. NBits(w) = H /\ H \in Nat /\ k <= H /\ H - k \in Nat  BY <1>1, <1>3, Sizes DEF NBits
  <2>2. PICK p, c \in Nat \ {0} : p = 2^k /\ c = 2^(H - k) /\ HalfM = p * c
      BY <1>1, <2>1, PowerSplit, PowerPositive, Sizes
  <2>3. x \in 0 .. HalfM - 1  BY <1>3, Widths DEF Values
  <2>4. ((x * HalfM + x) \div p) % HalfM = x \div p + (x % p) * c
    <3>1. PICK h \in Nat \ {0} : h = HalfM  BY Sizes
    <3>2. h = p * c /\ x \in 0 .. h - 1  BY <2>2, <2>3, <3>1
    <3>3. ((x * h + x) \div p) % h = x \div p + (x % p) * c  BY <3>2, RotatedTwice
    <3> QED BY <3>1, <3>3, Zenon
  <2> QED BY <1>3, <2>1, <2>2, <2>4 DEF Rotated
<1> QED BY <1>2, <1>3 DEF Width

\* Its rows are rows.
LEMMA RotrTyped ==
    \A w \in Width : \A rd \in {"A", "B", "D"} : \A b \in {"A", "B", "T1"} :
        Rotr(w, rd, "A", b) \in Seq(Rows)
<1> SUFFICES ASSUME NEW w \in Width, NEW rd \in {"A", "B", "D"}, NEW b \in {"A", "B", "T1"}
             PROVE  Rotr(w, rd, "A", b) \in Seq(Rows)
    OBVIOUS
<1>1. {"Mul64", "Or", "Srl", "LowerHalfWord", "Rotr"} \subseteq AluOps  BY DEF AluOps
<1>2. {"T0", "T2", "A", rd} \subseteq Registers /\ HalfM \in Int /\ 0 \in Int
    BY RegistersAre, Sizes
<1>3. R("T0") \in Operands /\ R("A") \in Operands  BY <1>2, OperandsAre
<1>4. /\ Alu("Rotr", rd, "A", R("T0")) \in Rows
      /\ AluImm("Mul64", "T2", "A", HalfM) \in Rows /\ Alu("Or", "T2", "T2", R("A")) \in Rows
      /\ Alu("Srl", "T2", "T2", R("T0")) \in Rows /\ AluImm("LowerHalfWord", rd, "T2", 0) \in Rows
    BY <1>1, <1>2, <1>3, RowsAre
<1>5. /\ <<Alu("Rotr", rd, "A", R("T0"))>> \in Seq(Rows)
      /\ <<AluImm("Mul64", "T2", "A", HalfM), Alu("Or", "T2", "T2", R("A"))>> \in Seq(Rows)
      /\ <<Alu("Srl", "T2", "T2", R("T0")), AluImm("LowerHalfWord", rd, "T2", 0)>> \in Seq(Rows)
    BY <1>4, Tuples, Zenon
<1>6. ShiftBitmask(w, b) \in Seq(Rows)  BY ShiftBitmaskTyped
<1> QED BY <1>5, <1>6, Tuples, Zenon DEF Rotr

\* Concatenation associates.
LEMMA Associates ==
    ASSUME NEW S, NEW p \in Seq(S), NEW q \in Seq(S), NEW r \in Seq(S)
    PROVE  (p \o q) \o r = p \o (q \o r)
<1> DEFINE a == (p \o q) \o r
           b == p \o (q \o r)
<1>1. p \o q \in Seq(S) /\ q \o r \in Seq(S) /\ Len(p \o q) = Len(p) + Len(q) /\ Len(q \o r) = Len(q) + Len(r)
    OBVIOUS
<1>2. a \in Seq(S) /\ Len(a) = Len(p) + Len(q) + Len(r)  BY <1>1
<1>3. b \in Seq(S) /\ Len(b) = Len(p) + Len(q) + Len(r)  BY <1>1
<1>4. ASSUME NEW i \in 1 .. Len(p) + Len(q) + Len(r) PROVE a[i] = b[i]
  <2>1. CASE i <= Len(p)  BY <1>1, <2>1
  <2>2. CASE i > Len(p) /\ i <= Len(p) + Len(q)  BY <1>1, <2>2
  <2>3. CASE i > Len(p) + Len(q)  BY <1>1, <2>3
  <2> QED BY <2>1, <2>2, <2>3
<1> HIDE DEF a, b
<1>5. a = b  BY <1>2, <1>3, <1>4
<1> QED BY <1>5 DEF a, b

\* Two alu rows before others.
LEMMA AluTwoFirst ==
    ASSUME NEW a \in AluRows, NEW b \in AluRows, NEW q \in Seq(Rows),
           NEW s, NEW t, NEW e, NEW free, Ends(<<a, b>> \o q, s, t, e, free)
    PROVE  \E u, v : Writes(a, s, u) /\ Writes(b, u, v) /\ Ends(q, v, t, e, free)
<1>1. a \in Rows /\ b \in Rows  BY RowsAre
<1>2. <<a, b>> \in Seq(Rows)  BY <1>1, Tuples
<1>3. \A v : Ends(<<a, b>>, s, v, e, free) => e = "none"  BY AluTwo
<1>4. PICK v : Ends(<<a, b>>, s, v, "none", free) /\ Ends(q, v, t, e, free)
    BY <1>2, <1>3, EndsAfter
<1>5. PICK u : Writes(a, s, u) /\ Writes(b, u, v)  BY <1>4, AluTwo
<1> QED BY <1>4, <1>5

\* emit_rotr: the count taken modulo the width, the i32 doubled.
LEMMA RotrRuns ==
    ASSUME NEW w \in Width, NEW rd \in {"A", "B", "D"}, NEW b \in {"A", "B", "T1"},
           NEW s, s["A"] \in Values(w), s[b] \in Word,
           NEW t, NEW e, NEW free, Ends(Rotr(w, rd, "A", b), s, t, e, free)
    PROVE  Gives(s, t, e, rd, Rotated(NBits(w), s["A"], s[b] % NBits(w)))
<1>1. PICK k : k = s[b] % NBits(w)  OBVIOUS
<1>2. k \in 0 .. Bits - 1 /\ k \in 0 .. NBits(w) - 1  BY <1>1, Counts
<1>3. ShiftBitmask(w, b) \in Seq(Rows)  BY ShiftBitmaskTyped
<1>4. {"Mul64", "Or", "Srl", "LowerHalfWord", "Rotr"} \subseteq AluOps  BY DEF AluOps
<1>5. {"T0", "T2", "A", rd} \subseteq Registers /\ HalfM \in Int /\ 0 \in Int
    BY RegistersAre, Sizes
<1>6. R("T0") \in Operands /\ R("A") \in Operands  BY <1>5, OperandsAre
<1>7. PICK x \in Int : x = s["A"] /\ x \in Values(w)  BY ValueInt
<1>8. \A u, v, q : q \in Seq(Rows) /\ Ends(ShiftBitmask(w, b) \o q, u, v, e, free) /\ u[b] = s[b]
          => \E z : Sets(u, z, "T0", ShiftMask(k)) /\ Ends(q, z, v, e, free)
  <2> SUFFICES ASSUME NEW u, NEW v, NEW q \in Seq(Rows),
                      Ends(ShiftBitmask(w, b) \o q, u, v, e, free), u[b] = s[b]
               PROVE  \E z : Sets(u, z, "T0", ShiftMask(k)) /\ Ends(q, z, v, e, free)
      OBVIOUS
  <2>1. u[b] \in Word /\ u[b] % NBits(w) = k  BY <1>1
  <2>2. \A z : Ends(ShiftBitmask(w, b), u, z, e, free) => e = "none"  BY <2>1, ShiftBitmaskRuns
  <2>3. PICK z : Ends(ShiftBitmask(w, b), u, z, "none", free) /\ Ends(q, z, v, e, free)
      BY <1>3, <2>2, EndsAfter
  <2>4. Sets(u, z, "T0", ShiftMask(k))  BY <2>1, <2>3, ShiftBitmaskRuns
  <2> QED BY <2>3, <2>4
<1>9. CASE w = 64
  <2> DEFINE r == Alu("Rotr", rd, "A", R("T0"))
  <2>1. <<r>> \in Seq(Rows)  BY <1>4, <1>5, <1>6, RowsAre, Tuples
  <2>2. Ends(ShiftBitmask(w, b) \o <<r>>, s, t, e, free)  BY <1>9, Zenon DEF Rotr
  <2> HIDE DEF r
  <2>3. PICK u : Sets(s, u, "T0", ShiftMask(k)) /\ Ends(<<r>>, u, t, e, free)  BY <1>8, <2>1, <2>2
  <2>4. e = "none" /\ Sets(u, t, rd, Evaluate("Rotr", u["A"], Val(u, R("T0"))))
      BY <1>4, <1>5, <1>6, <2>3, OneRow DEF r
  <2>5. u["A"] = x /\ u["T0"] = ShiftMask(k) /\ Keeps(s, u, {"T0"})
      BY <1>7, <2>3, RegistersAre DEF Sets, Keeps
  <2>6. Val(u, R("T0")) = ShiftMask(k)  BY <2>5, WritesAlu
  <2>7. Evaluate("Rotr", x, ShiftMask(k)) = RotateRight(x, k)  BY <1>2, ShiftValue
  <2>8. RotateRight(x, k) = Rotated(NBits(w), x, k)  BY <1>2, <1>7, <1>9, RotatedWord
  <2>9. Sets(u, t, rd, Rotated(NBits(w), x, k))  BY <2>4, <2>5, <2>6, <2>7, <2>8
  <2> QED BY <1>1, <1>7, <2>4, <2>5, <2>9 DEF Gives, Keeps, Sets, Temps
<1>10. CASE w = 32
  <2> DEFINE r1 == AluImm("Mul64", "T2", "A", HalfM)
             r2 == Alu("Or", "T2", "T2", R("A"))
             r3 == Alu("Srl", "T2", "T2", R("T0"))
             r4 == AluImm("LowerHalfWord", rd, "T2", 0)
  <2>1. r1 \in AluRows /\ r2 \in AluRows /\ r3 \in AluRows /\ r4 \in AluRows
      BY <1>4, <1>5, <1>6, RowsAre
  <2>2. Ends(<<r1, r2>> \o ShiftBitmask(w, b) \o <<r3, r4>>, s, t, e, free)  BY <1>10 DEF Rotr
  <2> HIDE DEF r1, r2, r3, r4
  <2>3. <<r1, r2>> \in Seq(Rows) /\ <<r3, r4>> \in Seq(Rows)  BY <2>1, RowsAre, Tuples
  <2>4. Ends(<<r1, r2>> \o (ShiftBitmask(w, b) \o <<r3, r4>>), s, t, e, free)
    <3>1. (<<r1, r2>> \o ShiftBitmask(w, b)) \o <<r3, r4>>
             = <<r1, r2>> \o (ShiftBitmask(w, b) \o <<r3, r4>>)
        BY <1>3, <2>3, Associates
    <3> QED BY <2>2, <3>1, Zenon
  <2>5. PICK u, v : /\ Writes(r1, s, u) /\ Writes(r2, u, v)
                    /\ Ends(ShiftBitmask(w, b) \o <<r3, r4>>, v, t, e, free)
      BY <1>3, <2>3, Tuples, <2>1, <2>4, AluTwoFirst
  <2>6. HalfM \in Nat \ {0} /\ M = HalfM * HalfM /\ x \in 0 .. HalfM - 1 /\ HalfM = 2^H /\ H \in Nat
        /\ M \in Nat \ {0}
      BY <1>10, Widths, <1>7, Sizes DEF Values
  <2>7. PICK h \in Nat \ {0} : h = HalfM  BY <2>6
  <2>8. PICK d \in Int : d = x * h  BY <1>7, <2>7, Ring
  <2>9. d % M = d
    <3>1. x >= 0 /\ x <= h - 1 /\ h \in Int /\ h > 0  BY <2>6, <2>7
    <3>2. x * h >= 0 /\ x * h <= (h - 1) * h  BY <1>7, <3>1
    <3>3. (h - 1) * h = h * h - h /\ h * h \in Int  BY <3>1
    <3>4. d \in 0 .. M - 1  BY <2>6, <2>7, <2>8, <3>1, <3>2, <3>3
    <3> QED BY <2>6, <3>4, RemainderSmall
  <2>10. Sets(s, u, "T2", d)
    <3>1. Sets(s, u, "T2", Evaluate("Mul64", x, h))  BY <1>7, <2>5, <2>7, WritesAlu, Zenon DEF r1
    <3>2. MulWrap(x, h) = (x * h) % M
      <4>1. x \in Nat /\ h \in Nat  BY <2>6, <2>7
      <4> QED BY <4>1, MulWraps
    <3> QED BY <2>8, <2>9, <3>1, <3>2, Evaluates
  <2>11. Sets(u, v, "T2", d + x)
    <3>1. Sets(u, v, "T2", Evaluate("Or", u["T2"], Val(u, R("A"))))
        BY <2>5, WritesAlu, Zenon DEF r2
    <3>2. u["T2"] = d /\ u["A"] = x  BY <1>7, <2>10, RegistersAre DEF Sets
    <3>3. Val(u, R("A")) = x  BY <3>2, WritesAlu
    <3>4. (x * 2^H | x) = x * 2^H + x  BY <2>6, OrApart
    <3>5. (d | x) = d + x  BY <2>6, <2>7, <2>8, <3>4
    <3> QED BY <3>1, <3>2, <3>3, <3>5, Evaluates
  <2>12. v[b] = s[b] /\ v["T2"] = d + x /\ Keeps(s, v, {"T2"})
      BY <2>10, <2>11, RegistersAre DEF Sets, Keeps
  <2>13. PICK z : Sets(v, z, "T0", ShiftMask(k)) /\ Ends(<<r3, r4>>, z, t, e, free)
      BY <1>8, <2>3, <2>5, <2>12
  <2>14. PICK y : e = "none" /\ Writes(r3, z, y) /\ Writes(r4, y, t)  BY <2>1, <2>13, AluTwo
  <2>15. Sets(z, y, "T2", (d + x) \div 2^k)
      BY <2>14, WritesAlu, <2>12, <2>13, RegistersAre, <1>2, ShiftValue DEF r3, Sets
  <2>16. PICK q \in Word : q = (d + x) \div 2^k
    <3>1. PICK a \in Int : a = d + x /\ a \in 0 .. M - 1  BY <2>6, <2>7, <1>7, <2>8
    <3>2. k \in Nat  BY <1>2
    <3>3. PICK p \in Nat \ {0} : p = 2^k  BY <3>2, PowerPositive
    <3>4. a \div p \in 0 .. a  BY <3>1, <3>3, QuotientBelow
    <3> QED BY <2>6, <3>1, <3>3, <3>4 DEF Word
  <2>17. Sets(y, t, rd, q % HalfM)  BY <2>14, WritesAlu, <2>15, <2>16, LowerHalf DEF r4, Sets
  <2>18. q % HalfM = Rotated(NBits(w), x, k)  BY <1>2, <1>7, <1>10, RotatedWord, <2>7, <2>8, <2>16
  <2> QED BY <1>1, <1>7, <2>12, <2>13, <2>14, <2>15, <2>17, <2>18 DEF Gives, Keeps, Sets, Temps
<1> QED BY <1>9, <1>10 DEF Width

\* The width divides M, so a count negated modulo M is negated modulo the width.
LEMMA CountNegated ==
    ASSUME NEW w \in Width, NEW y \in Word
    PROVE  ((0 - y) % M) % NBits(w) = (IF y % NBits(w) = 0 THEN 0 ELSE NBits(w) - (y % NBits(w)))
<1>1. PICK j \in 2 .. Bits : NBits(w) = 2^j  BY Widths
<1>2. j \in Nat /\ Bits \in Nat /\ j <= Bits /\ Bits - j \in Nat  BY Sizes
<1>3. PICK n, c \in Nat \ {0} : n = NBits(w) /\ c = 2^(Bits - j) /\ M = n * c
    BY <1>1, <1>2, PowerSplit, PowerPositive, Sizes
<1>4. PICK v \in Int : v = 0 - y /\ y \in Int  BY Sizes DEF Word
<1>5. (v % (n * c)) % n = v % n  BY <1>3, <1>4, RemainderTwice
<1>6. PICK f \in Int, r \in 0 .. n - 1 : r = y % n /\ y = n * f + r  BY <1>4, Parts
<1>7. PICK g, i \in Int : g = n * f /\ i = n * (-f) /\ i = -g  OBVIOUS
<1>8. v % n = IF r = 0 THEN 0 ELSE n - r
  <2>1. CASE r = 0
    <3>1. v = n * (-f) + 0 /\ 0 \in 0 .. n - 1 /\ n > 0 /\ -f \in Int  BY <1>4, <1>6, <1>7, <2>1
    <3>2. v % n = 0  BY <1>4, <3>1, Remainder
    <3> QED BY <2>1, <3>2
  <2>2. CASE r # 0
    <3>1. PICK d \in Int : d = -f - 1  BY <1>6
    <3>2. n * d = i - n  BY <1>6, <1>7, <3>1
    <3>3. PICK m \in Int : m = n * d  BY <1>7, <3>2
    <3>4. v = m + (n - r) /\ n - r \in 0 .. n - 1 /\ n > 0  BY <1>4, <1>6, <1>7, <2>2, <3>2, <3>3
    <3>5. v = n * d + (n - r)  BY <3>3, <3>4
    <3>6. v % n = n - r  BY <1>4, <3>1, <3>4, <3>5, Remainder
    <3> QED BY <2>2, <3>6
  <2> QED BY <2>1, <2>2
<1> QED BY <1>3, <1>4, <1>5, <1>6, <1>8

\* Rotating left by k is rotating right by what is left of the width.
LEMMA RotatedLeft ==
    ASSUME NEW n \in Nat \ {0}, NEW k \in 0 .. n - 1, NEW x \in 0 .. 2^n - 1
    PROVE  ((x * 2^k) % 2^n) + x \div 2^(n - k) = Rotated(n, x, IF k = 0 THEN 0 ELSE n - k)
<1>1. PICK q \in Nat \ {0} : q = 2^n  BY PowerPositive
<1>2. x \in Int /\ x % q = x /\ x \div q = 0 /\ x \in Nat  BY <1>1, RemainderSmall
<1>3. CASE k = 0  BY <1>2, Zeroth, <1>1, <1>3 DEF Rotated
<1>4. CASE k # 0
  <2>1. PICK i \in 0 .. n : i = n - k /\ n - i = k  BY <1>4
  <2>2. (x * 2^k) % 2^n = (x % 2^i) * 2^k
    <3>1. (x * 2^(n - i)) % 2^n = (x % 2^i) * 2^(n - i)  BY <1>2, RotatedIs
    <3> QED BY <2>1, <3>1, Zenon
  <2>3. Rotated(n, x, i) = x \div 2^i + (x % 2^i) * 2^k  BY <2>1 DEF Rotated
  <2>4. x \div 2^i \in Int /\ (x % 2^i) * 2^k \in Int
    <3>1. i \in Nat /\ k \in Nat  BY <2>1
    <3>2. PICK p, c \in Nat \ {0} : p = 2^i /\ c = 2^k  BY <3>1, PowerPositive
    <3>3. PICK f \in Int, r \in 0 .. p - 1 : f = x \div p /\ r = x % p  BY <1>2, Parts
    <3>4. r * c \in Int  OBVIOUS
    <3> QED BY <3>2, <3>3, <3>4
  <2> QED BY <1>4, <2>1, <2>2, <2>3, <2>4
<1> QED BY <1>3, <1>4

\* Rotl negates its count and rotates right: wasm's rotl.
LEMMA RotlRuns ==
    ASSUME NEW w \in Width, NEW rd \in {"A", "B", "D"}, NEW b \in {"A", "B"},
           NEW s, s["ZERO"] = 0, s["A"] \in Values(w), s[b] \in Values(w),
           NEW t, NEW e, NEW free, Ends(Rotl(w, rd, "A", b), s, t, e, free)
    PROVE  Gives(s, t, e, rd, WasmBinary(w, "Rotl", s["A"], s[b]))
<1> DEFINE r == Alu("Sub64", "T1", "ZERO", R(b))
<1>1. "Sub64" \in AluOps /\ "T1" \in Registers /\ "ZERO" \in Registers /\ b \in Registers
    BY RegistersAre DEF AluOps
<1>2. R(b) \in Operands  BY <1>1, OperandsAre
<1>3. r \in AluRows  BY <1>1, <1>2, RowsAre
<1>4. Rotr(w, rd, "A", "T1") \in Seq(Rows)  BY RotrTyped
<1>5. Ends(<<r>> \o Rotr(w, rd, "A", "T1"), s, t, e, free)  BY Zenon DEF Rotl
<1> HIDE DEF r
<1>6. PICK u : Writes(r, s, u) /\ Ends(Rotr(w, rd, "A", "T1"), u, t, e, free)
    BY <1>3, <1>4, <1>5, AluFirst
<1>7. PICK x, y \in Int : x = s["A"] /\ y = s[b] /\ x \in Values(w) /\ y \in Word  BY ValueInt
<1>8. PICK c \in Word : c = (0 - y) % M  BY <1>7, Parts, Sizes DEF Word
<1>9. Sets(s, u, "T1", c)  BY <1>6, WritesAlu, <1>7, <1>8, Evaluates DEF r
<1>10. u["A"] = x /\ u["T1"] = c /\ Keeps(s, u, {"T1"})  BY <1>7, <1>9, RegistersAre DEF Sets, Keeps
<1>11. Gives(u, t, e, rd, Rotated(NBits(w), x, c % NBits(w)))  BY <1>7, <1>10, <1>6, RotrRuns
<1>12. WasmBinary(w, "Rotl", x, y) = Rotated(NBits(w), x, c % NBits(w))
  <2>1. PICK n \in Nat \ {0} : n = NBits(w) /\ y % n \in 0 .. n - 1  BY <1>7, Counts, Widths
  <2> PICK k \in 0 .. n - 1 : k = y % n
      BY <2>1
  <2>2. c % n = IF k = 0 THEN 0 ELSE n - k  BY <1>7, <1>8, <2>1, CountNegated
  <2>3. x \in 0 .. 2^n - 1  BY <1>7, <2>1 DEF Values
  <2>4. ((x * 2^k) % 2^n) + x \div 2^(n - k) = Rotated(n, x, IF k = 0 THEN 0 ELSE n - k)
      BY <2>3, RotatedLeft
  <2>5. WasmBinary(w, "Rotl", x, y) = ((x * 2^k) % 2^n) + x \div 2^(n - k)  BY <2>1, WasmIs
  <2> QED BY <2>1, <2>2, <2>4, <2>5
<1> QED BY <1>7, <1>10, <1>11, <1>12 DEF Gives, Keeps, Temps

-----------------------------------------------------------------------------
(* Operators of one operand *)

\* What wasm gives for one operand, operator by operator.
LEMMA WasmUnaryIs ==
    ASSUME NEW w, NEW x
    PROVE  LET n == NBits(w)
           IN /\ WasmUnary(w, "Eqz", x) = Bool(x = 0)
              /\ WasmUnary(w, "Clz", x) = LeadingZeros(n, x)
              /\ WasmUnary(w, "Ctz", x) = TrailingZeros(n, x)
              /\ WasmUnary(w, "Popcnt", x) = Popcount(n, x)
              /\ WasmUnary(w, "Extend8S", x) = Unsigned(n, Signed(ByteBits, x % 2^ByteBits))
              /\ WasmUnary(w, "Extend16S", x)
                    = Unsigned(n, Signed(2 * ByteBits, x % 2^(2 * ByteBits)))
              /\ WasmUnary(w, "Extend32S", x) = Unsigned(n, Signed(H, x % 2^H))
              /\ WasmUnary(w, "WrapI64", x) = x % HalfM
              /\ WasmUnary(w, "ExtendI32S", x) = Unsigned(Bits, Signed(H, x))
              /\ WasmUnary(w, "ExtendI32U", x) = x
<1> QED BY DEF WasmUnary

\* One alu row on an immediate leaves its value in rd and touches nothing
\* else.
LEMMA OneRowImmGives ==
    ASSUME NEW op \in AluOps, NEW rd \in Registers \ {"ZERO"}, NEW a \in Registers, NEW v \in Int,
           NEW s, NEW t, NEW e, NEW free, Ends(<<AluImm(op, rd, a, v)>>, s, t, e, free)
    PROVE  Gives(s, t, e, rd, Evaluate(op, s[a], v))
<1>1. e = "none" /\ Sets(s, t, rd, Evaluate(op, s[a], v))  BY OneRowImm
<1> QED BY <1>1 DEF Gives, Sets, Keeps

\* A word of one half counts its ones alike in either width.
LEMMA PopcountHalf ==
    ASSUME NEW w \in Width, NEW x \in Values(w)
    PROVE  Popcount(Bits, x) = Popcount(NBits(w), x)
<1>1. PICK n \in Nat : n = NBits(w) /\ n <= Bits /\ Bits \in Nat  BY Widths, Sizes
<1>2. x \in 0 .. 2^n - 1  BY <1>1 DEF Values
<1>3. \A k \in Nat : k >= n => Bit(x, k) = 0  BY <1>1, <1>2, NoDigit DEF Bit, Digit
<1>4. {k \in 0 .. Bits - 1 : Bit(x, k) = 1} = {k \in 0 .. n - 1 : Bit(x, k) = 1}
  <2>1. ASSUME NEW k \in 0 .. Bits - 1, Bit(x, k) = 1 PROVE k \in 0 .. n - 1  BY <1>1, <1>3, <2>1
  <2>2. \A k \in 0 .. n - 1 : k \in 0 .. Bits - 1  BY <1>1
  <2> QED BY <2>1, <2>2
<1> QED BY <1>1, <1>4 DEF Popcount

\* The places above a half lead with zeros.
LEMMA LeadingHalf ==
    ASSUME NEW x \in Values(32)
    PROVE  /\ LeadingZeros(H, x) \in 0 .. H
           /\ LeadingZeros(Bits, x) = LeadingZeros(H, x) + H
<1> DEFINE S == {k \in 0 .. H - 1 : x < 2^k}
           T == H .. Bits - 1
<1>1. H \in Nat /\ Bits = H + H /\ x \in 0 .. 2^H - 1 /\ x \in Int
    BY ValueInt, Sizes DEF Width, NBits, Values
<1>2. {k \in 0 .. Bits - 1 : x < 2^k} = S \cup T
  <2>1. ASSUME NEW k \in T PROVE x < 2^k /\ k \in 0 .. Bits - 1
    <3>1. k \in Nat /\ H <= k  BY <1>1
    <3>2. PICK p, q \in Nat : p = 2^H /\ q = 2^k /\ p <= q
        BY <1>1, <3>1, PowerMonotone, PowerPositive
    <3> QED BY <1>1, <3>1, <3>2
  <2>2. \A k \in 0 .. Bits - 1 : k \in 0 .. H - 1 \/ k \in T  BY <1>1
  <2>3. \A k \in 0 .. H - 1 : k \in 0 .. Bits - 1  BY <1>1
  <2> QED BY <2>1, <2>2, <2>3
<1>3. IsFiniteSet(0 .. H - 1) /\ Cardinality(0 .. H - 1) = H
  <2>1. 0 \in Int /\ H - 1 \in Int  BY <1>1
  <2>2. IsFiniteSet(0 .. H - 1) /\ Cardinality(0 .. H - 1) = IF 0 > H - 1 THEN 0 ELSE (H - 1) - 0 + 1
      BY <2>1, FS_Interval
  <2> QED BY <1>1, <2>2
<1>4. IsFiniteSet(T) /\ Cardinality(T) = H
  <2>1. H \in Int /\ Bits - 1 \in Int  BY <1>1
  <2>2. IsFiniteSet(T) /\ Cardinality(T) = IF H > Bits - 1 THEN 0 ELSE (Bits - 1) - H + 1
      BY <2>1, FS_Interval
  <2> QED BY <1>1, <2>2
<1>5. IsFiniteSet(S) /\ Cardinality(S) <= H /\ Cardinality(S) \in Nat
  <2>1. S \subseteq 0 .. H - 1  OBVIOUS
  <2> HIDE DEF S
  <2>2. IsFiniteSet(S) /\ Cardinality(S) <= Cardinality(0 .. H - 1)  BY <1>3, <2>1, FS_Subset
  <2> QED BY <1>3, <2>2, FS_CardinalityType
<1>6. S \cap T = {}  BY <1>1
<1>7. Cardinality(S \cup T) = Cardinality(S) + Cardinality(T) - Cardinality(S \cap T)
  <2> HIDE DEF S, T
  <2> QED BY <1>4, <1>5, FS_Union
<1>8. Cardinality(S \cap T) = 0  BY <1>6, FS_EmptySet
<1> HIDE DEF S, T
<1>9. Cardinality(S \cup T) = Cardinality(S) + H  BY <1>1, <1>4, <1>5, <1>7, <1>8
<1>10. LeadingZeros(H, x) = Cardinality(S)  BY Zenon DEF LeadingZeros, S
<1>11. LeadingZeros(Bits, x) = Cardinality(S \cup T)  BY <1>2, Zenon DEF LeadingZeros
<1> QED BY <1>1, <1>5, <1>9, <1>10, <1>11

\* A one above a half stops the trailing zeros there.
LEMMA TrailingHalf ==
    ASSUME NEW x \in Values(32)
    PROVE  (x | HalfM) = x + HalfM /\ TrailingZeros(Bits, x + HalfM) = TrailingZeros(H, x)
<1>1. H \in Nat /\ Bits = H + H /\ x \in 0 .. 2^H - 1 /\ x \in Int /\ HalfM = 2^H
    BY ValueInt, Sizes DEF Width, NBits, Values
<1>2. PICK h \in Nat \ {0} : h = HalfM  BY Sizes
<1>3. PICK y \in Int : y = x + h  BY <1>1
<1>4. (x | h) = y  BY <1>1, OrApart, <1>2, <1>3
<1>5. ASSUME NEW k \in 1 .. H PROVE y % 2^k = x % 2^k
  <2>1. k \in Nat /\ k <= H /\ H - k \in Nat  BY <1>1
  <2>2. PICK p, c \in Nat \ {0} : p = 2^k /\ c = 2^(H - k) /\ h = p * c
      BY <1>1, <1>2, <2>1, PowerSplit, PowerPositive
  <2>3. y = x + p * c /\ c \in Int  BY <1>3, <2>2
  <2> QED BY <1>1, <2>2, <2>3, RemainderShift
<1>6. ASSUME NEW k \in H + 1 .. Bits PROVE y % 2^k # 0
  <2>1. k \in Nat /\ H < k  BY <1>1
  <2>2. PICK p \in Nat \ {0} : p = 2^k /\ h + h <= p
      BY <1>1, <1>2, <2>1, PowerDoubles, PowerPositive
  <2>3. y \in 0 .. p - 1 /\ y # 0  BY <1>1, <1>2, <1>3, <2>2
  <2> QED BY <2>2, <2>3, RemainderSmall
<1>7. {k \in 1 .. Bits : y % 2^k = 0} = {k \in 1 .. H : x % 2^k = 0}  BY <1>1, <1>5, <1>6
<1> QED BY <1>2, <1>3, <1>4, <1>7 DEF TrailingZeros

\* The low bits of a word moved to the top and shifted back keep their sign.
LEMMA SignMoved ==
    ASSUME NEW bits \in Nat \ {0}, NEW up \in Nat, NEW z \in 0 .. 2^bits - 1
    PROVE  /\ z * 2^up \in 0 .. 2^(bits + up) - 1
           /\ Signed(bits + up, z * 2^up) \div 2^up = Signed(bits, z)
<1>1. PICK p, c, q \in Nat \ {0} : p = 2^(bits - 1) /\ c = 2^up /\ q = 2^bits /\ q = p + p
    BY Halves, PowerPositive
<1>2. z \in Int /\ z >= 0 /\ z < q /\ c \in Int /\ c > 0 /\ p \in Int /\ q \in Int  BY <1>1
<1>3. PICK d, k, m \in Int : d = z * c /\ k = p * c /\ m = q * c  BY <1>2, Ring
<1>4. 2^(bits + up) = m /\ 2^((bits + up) - 1) = k
  <2>1. bits - 1 \in Nat /\ (bits - 1) + up = (bits + up) - 1  OBVIOUS
  <2>2. 2^(bits + up) = 2^bits * 2^up /\ 2^((bits - 1) + up) = 2^(bits - 1) * 2^up
      BY <2>1, PowerSum
  <2> QED BY <1>1, <1>3, <2>1, <2>2
<1>5. d >= 0 /\ d <= m - c  BY <1>2, <1>3
<1>6. d < k <=> z < p
  <2>1. CASE z < p  BY <1>2, <2>1, <1>3
  <2>2. CASE z >= p  BY <1>2, <2>2, <1>3
  <2> QED BY <1>2, <2>1, <2>2
<1>7. PICK v \in Int : v = Signed(bits, z) /\ v = IF z < p THEN z ELSE z - q
    BY <1>1, <1>2 DEF Signed
<1>8. Signed(bits + up, d) = v * c  BY <1>4, <1>2, <1>3, <1>6, <1>7 DEF Signed
<1>9. (v * c) \div c = v  BY <1>1, QuotientScale
<1> QED BY <1>1, <1>2, <1>3, <1>4, <1>5, <1>7, <1>8, <1>9

\* sign_extend_rows: two shifts, and a cut at i32, extend the low bits.
LEMMA SignExtendRuns ==
    ASSUME NEW w \in Width, NEW rd \in {"A", "D"}, NEW bits \in 1 .. H,
           NEW s, s["A"] \in Values(w),
           NEW t, NEW e, NEW free, Ends(SignExtend(w, rd, "A", bits), s, t, e, free)
    PROVE  Gives(s, t, e, rd, Unsigned(NBits(w), Signed(bits, s["A"] % 2^bits)))
<1> DEFINE up == Bits - bits
           target == IF w = 64 THEN rd ELSE "T0"
           r1 == AluImm("Mul64", target, "A", 2^up)
           r2 == AluImm("Sra", target, target, ShiftMask(up))
           r3 == AluImm("LowerHalfWord", rd, "T0", 0)
           last == IF w = 64 THEN <<>> ELSE <<r3>>
<1>1. up \in 0 .. Bits - 1 /\ up \in Nat /\ bits \in Nat \ {0} /\ bits + up = Bits  BY Sizes
<1>2. PICK c, q \in Nat \ {0} : c = 2^up /\ q = 2^bits /\ M = q * c
  <2>1. bits \in Nat  BY <1>1
  <2>2. PICK c, q \in Nat \ {0} : c = 2^up /\ q = 2^bits  BY <1>1, <2>1, PowerPositive
  <2>3. 2^(bits + up) = 2^bits * 2^up  BY <1>1, <2>1, PowerSum
  <2> QED BY <1>1, <2>2, <2>3, Sizes
<1>3. ShiftMask(up) \in Int
  <2>1. Bits - up \in Nat  BY <1>1, Sizes
  <2>2. PICK a, b \in Nat : a = 2^(Bits - up) /\ b = 2^up  BY <1>1, <2>1, PowerPositive
  <2>3. (a - 1) * b \in Int  BY <2>2
  <2> QED BY <2>2, <2>3 DEF ShiftMask
<1>4. PICK x \in Nat : x = s["A"] /\ x \in Word /\ x \in Int  BY ValueInt
<1>5. PICK z \in 0 .. q - 1 : z = x % q  BY <1>4, Parts
<1>6. PICK v \in Int : v = Signed(bits, z)  BY <1>1, <1>2, <1>5, SignedIs
<1>7. {"Mul64", "Sra", "LowerHalfWord"} \subseteq AluOps /\ "T0" \in Registers /\ rd \in Registers
      /\ target \in Registers \ {"ZERO"} /\ "A" \in Registers /\ 0 \in Int /\ 2^up \in Int
    BY <1>2, RegistersAre DEF AluOps
<1> HIDE DEF target
<1>8. r1 \in AluRows /\ r2 \in AluRows /\ r3 \in AluRows
  <2> HIDE DEF up
  <2> QED BY <1>3, <1>7, RowsAre
<1>9. Ends(<<r1, r2>> \o last, s, t, e, free)  BY Zenon DEF SignExtend, target
<1> HIDE DEF r1, r2, r3
<1>10. last \in Seq(Rows)  BY <1>8, RowsAre, Tuples
<1> HIDE DEF last, up
<1>11. PICK a, b : Writes(r1, s, a) /\ Writes(r2, a, b) /\ Ends(last, b, t, e, free)
    BY <1>8, <1>9, <1>10, AluTwoFirst
<1>12. Sets(s, a, target, z * c)
  <2>1. Sets(s, a, target, Evaluate("Mul64", x, c))  BY <1>2, <1>4, <1>11, WritesAlu, Zenon DEF r1
  <2>2. MulWrap(x, c) = (x * c) % M  BY <1>2, <1>4, MulWraps
  <2>3. (x * c) % (q * c) = (x % q) * c  BY <1>4, RemainderScale
  <2> QED BY <1>2, <1>5, <2>1, <2>2, <2>3, Evaluates
<1>13. Sets(a, b, target, v % M)
  <2>1. Sets(a, b, target, Evaluate("Sra", a[target], ShiftMask(up)))
      BY <1>11, WritesAlu, Zenon DEF r2
  <2>2. a[target] = z * c  BY <1>12 DEF Sets
  <2>3. Evaluate("Sra", z * c, ShiftMask(up)) = Unsigned(Bits, Signed(Bits, z * c) \div 2^up)
      BY <1>1, ShiftValue
  <2>4. Signed(bits + up, z * 2^up) \div 2^up = Signed(bits, z)  BY <1>1, <1>2, <1>5, SignMoved
  <2>5. Unsigned(Bits, v) = v % M  BY Sizes DEF Unsigned
  <2> QED BY <1>1, <1>2, <1>6, <2>1, <2>2, <2>3, <2>4, <2>5
<1>14. Unsigned(NBits(w), Signed(bits, x % 2^bits)) = v % 2^NBits(w)
    BY <1>2, <1>5, <1>6 DEF Unsigned
<1>15. CASE w = 64
  <2>1. target = rd /\ Ends(<<>>, b, t, e, free) /\ 2^NBits(w) = M
      BY <1>11, <1>15, Widths DEF target, last
  <2>2. e = "none" /\ t = b  BY <2>1, EndsNone
  <2> QED BY <1>4, <1>12, <1>13, <1>14, <2>1, <2>2 DEF Gives, Keeps, Sets
<1>16. CASE w = 32
  <2>1. target = "T0" /\ Ends(<<r3>>, b, t, e, free) /\ 2^NBits(w) = HalfM
      BY <1>11, <1>16, Widths DEF target, last
  <2>2. e = "none" /\ Sets(b, t, rd, Evaluate("LowerHalfWord", b["T0"], 0))
      BY <1>7, <2>1, OneRowImm DEF r3
  <2>3. b["T0"] = v % M  BY <1>13, <2>1 DEF Sets
  <2>4. Evaluate("LowerHalfWord", v % M, 0) = v % HalfM  BY LowerHalf
  <2>5. Sets(b, t, rd, v % HalfM)  BY <2>2, <2>3, <2>4
  <2> QED BY <1>4, <1>12, <1>13, <1>14, <2>1, <2>2, <2>5 DEF Gives, Keeps, Sets, Temps
<1> QED BY <1>15, <1>16 DEF Width

\* emit_unary and Convert, operator by operator.
LEMMA EmitUnaryIs ==
    ASSUME NEW w, NEW rd
    PROVE  /\ EmitUnary(w, "Eqz", rd, "A") = <<AluImm("Eq", rd, "A", 0)>>
           /\ EmitUnary(w, "Popcnt", rd, "A") = <<AluImm("Popcnt", rd, "A", 0)>>
           /\ EmitUnary(w, "Clz", rd, "A") =
                 IF w = 64 THEN <<AluImm("Clz", rd, "A", 0)>>
                 ELSE <<AluImm("Clz", "T0", "A", 0), AluImm("Sub64", rd, "T0", H)>>
           /\ EmitUnary(w, "Ctz", rd, "A") =
                 IF w = 64 THEN <<AluImm("Ctz", rd, "A", 0)>>
                 ELSE <<AluImm("Or", "T0", "A", HalfM), AluImm("Ctz", rd, "T0", 0)>>
           /\ EmitUnary(w, "Extend8S", rd, "A") = SignExtend(w, rd, "A", ByteBits)
           /\ EmitUnary(w, "Extend16S", rd, "A") = SignExtend(w, rd, "A", 2 * ByteBits)
           /\ EmitUnary(w, "Extend32S", rd, "A") = <<AluImm("SignExtendWord", rd, "A", 0)>>
           /\ EmitConvert("WrapI64", rd, "A") = <<AluImm("And", rd, "A", HalfM - 1)>>
           /\ EmitConvert("ExtendI32S", rd, "A") = <<AluImm("SignExtendWord", rd, "A", 0)>>
           /\ EmitConvert("ExtendI32U", rd, "A") = <<Mov(rd, "A")>>
<1> QED BY DEF EmitUnary, EmitConvert

\* A byte and two bytes fit in an i32.
LEMMA Bytes == ByteBits \in 1 .. H /\ 2 * ByteBits \in 1 .. H
<1>1. PICK h \in Int : h = H /\ h >= 4  BY Sizes
<1>2. h \div 4 \in Int /\ h \div 4 >= 1 /\ 4 * (h \div 4) <= h  BY <1>1
<1> QED BY <1>1, <1>2 DEF ByteBits

\* Clz of an i32 is that of the wide word less the upper half.
LEMMA ClzRuns ==
    ASSUME NEW w \in Width, NEW rd \in {"A", "D"}, NEW s, s["A"] \in Values(w),
           NEW t, NEW e, NEW free, Ends(EmitUnary(w, "Clz", rd, "A"), s, t, e, free)
    PROVE  Gives(s, t, e, rd, WasmUnary(w, "Clz", s["A"]))
<1>1. {"Clz", "Sub64"} \subseteq AluOps /\ rd \in Registers /\ "A" \in Registers
      /\ "T0" \in Registers /\ 0 \in Int /\ H \in Int
    BY RegistersAre, Sizes DEF AluOps
<1>2. WasmUnary(w, "Clz", s["A"]) = LeadingZeros(NBits(w), s["A"])  BY WasmUnaryIs
<1>3. CASE w = 64  BY <1>3, EmitUnaryIs, <1>1, OneRowImmGives, <1>2, Evaluates DEF NBits
<1>4. CASE w = 32
  <2> DEFINE r1 == AluImm("Clz", "T0", "A", 0)
             r2 == AluImm("Sub64", rd, "T0", H)
  <2>1. r1 \in AluRows /\ r2 \in AluRows  BY <1>1, RowsAre, Zenon
  <2>2. Ends(<<r1, r2>>, s, t, e, free)  BY <1>4, EmitUnaryIs
  <2> HIDE DEF r1, r2
  <2>3. PICK u : e = "none" /\ Writes(r1, s, u) /\ Writes(r2, u, t)  BY <2>1, <2>2, AluTwo
  <2>4. PICK n \in Int : n = LeadingZeros(H, s["A"]) /\ n \in 0 .. H
        /\ LeadingZeros(Bits, s["A"]) = n + H
      BY <1>4, LeadingHalf, <1>1
  <2>5. Sets(s, u, "T0", n + H)  BY <2>3, WritesAlu, <2>4, Evaluates DEF r1
  <2>6. Sets(u, t, rd, n)
      BY <2>3, WritesAlu, <2>5, <1>1, <2>4, Sizes, BelowPower, RemainderSmall, Evaluates DEF r2, Sets
  <2>7. NBits(w) = H  BY <1>4 DEF NBits
  <2> QED BY <1>2, <2>3, <2>4, <2>5, <2>6, <2>7 DEF Gives, Keeps, Sets, Temps
<1> QED BY <1>3, <1>4 DEF Width

\* Ctz of an i32 is that of the word with a one just above it.
LEMMA CtzRuns ==
    ASSUME NEW w \in Width, NEW rd \in {"A", "D"}, NEW s, s["A"] \in Values(w),
           NEW t, NEW e, NEW free, Ends(EmitUnary(w, "Ctz", rd, "A"), s, t, e, free)
    PROVE  Gives(s, t, e, rd, WasmUnary(w, "Ctz", s["A"]))
<1>1. {"Ctz", "Or"} \subseteq AluOps /\ rd \in Registers /\ "A" \in Registers
      /\ "T0" \in Registers /\ 0 \in Int /\ HalfM \in Int
    BY RegistersAre, Sizes DEF AluOps
<1>2. WasmUnary(w, "Ctz", s["A"]) = TrailingZeros(NBits(w), s["A"])  BY WasmUnaryIs
<1>3. CASE w = 64  BY <1>3, EmitUnaryIs, <1>1, OneRowImmGives, <1>2, Evaluates DEF NBits
<1>4. CASE w = 32
  <2> DEFINE r1 == AluImm("Or", "T0", "A", HalfM)
             r2 == AluImm("Ctz", rd, "T0", 0)
  <2>1. r1 \in AluRows /\ r2 \in AluRows  BY <1>1, RowsAre, Zenon
  <2>2. Ends(<<r1, r2>>, s, t, e, free)  BY <1>4, EmitUnaryIs
  <2> HIDE DEF r1, r2
  <2>3. PICK u : e = "none" /\ Writes(r1, s, u) /\ Writes(r2, u, t)  BY <2>1, <2>2, AluTwo
  <2>4. (s["A"] | HalfM) = s["A"] + HalfM
        /\ TrailingZeros(Bits, s["A"] + HalfM) = TrailingZeros(H, s["A"])
      BY <1>4, TrailingHalf
  <2>5. Sets(s, u, "T0", s["A"] + HalfM)  BY <2>3, WritesAlu, <2>4, Evaluates DEF r1
  <2>6. Sets(u, t, rd, TrailingZeros(H, s["A"]))  BY <2>3, WritesAlu, <2>5, <2>4, Evaluates DEF r2, Sets
  <2>7. NBits(w) = H  BY <1>4 DEF NBits
  <2> QED BY <1>2, <2>3, <2>5, <2>6, <2>7 DEF Gives, Keeps, Sets, Temps
<1> QED BY <1>3, <1>4 DEF Width

\* Every unary operator gives wasm's result.
LEMMA UnaryRuns ==
    ASSUME NEW w \in Width, NEW op \in Unary, op = "Extend32S" => w = 64,
           NEW rd \in {"A", "D"}, NEW s, s["A"] \in Values(w),
           NEW t, NEW e, NEW free, Ends(EmitUnary(w, op, rd, "A"), s, t, e, free)
    PROVE  Gives(s, t, e, rd, WasmUnary(w, op, s["A"]))
<1>1. {"Eq", "Popcnt", "SignExtendWord"} \subseteq AluOps /\ rd \in Registers /\ "A" \in Registers
      /\ 0 \in Int
    BY RegistersAre DEF AluOps
<1>2. CASE op = "Eqz"  BY <1>2, EmitUnaryIs, <1>1, OneRowImmGives, Evaluates, WasmUnaryIs
<1>3. CASE op = "Popcnt"
    BY <1>3, EmitUnaryIs, <1>1, OneRowImmGives, Evaluates, WasmUnaryIs, PopcountHalf
<1>4. CASE op = "Clz"  BY <1>4, ClzRuns
<1>5. CASE op = "Ctz"  BY <1>5, CtzRuns
<1>6. CASE op = "Extend8S"  BY <1>6, EmitUnaryIs, Bytes, SignExtendRuns, WasmUnaryIs
<1>7. CASE op = "Extend16S"  BY <1>7, EmitUnaryIs, Bytes, SignExtendRuns, WasmUnaryIs
<1>8. CASE op = "Extend32S"
  <2>1. Ends(<<AluImm("SignExtendWord", rd, "A", 0)>>, s, t, e, free)  BY <1>8, EmitUnaryIs, Zenon
  <2>2. Gives(s, t, e, rd, Evaluate("SignExtendWord", s["A"], 0))  BY <1>1, <2>1, OneRowImmGives
  <2>3. (s["A"] + 0) % M = s["A"]  BY ValueInt, PlusZero
  <2>4. NBits(w) = Bits  BY <1>8 DEF NBits
  <2>5. Evaluate("SignExtendWord", s["A"], 0) = Unsigned(Bits, Signed(H, s["A"] % 2^H))
      BY <2>3, Evaluates, Sizes
  <2> QED BY <1>8, <2>2, <2>4, <2>5, WasmUnaryIs
<1> QED BY <1>2, <1>3, <1>4, <1>5, <1>6, <1>7, <1>8 DEF Unary

\* Every conversion gives wasm's result.
LEMMA ConvertRuns ==
    ASSUME NEW op \in Convert, NEW w, w = (IF op = "WrapI64" THEN 64 ELSE 32),
           NEW rd \in {"A", "D"}, NEW s, s["A"] \in Values(w),
           NEW t, NEW e, NEW free, Ends(EmitConvert(op, rd, "A"), s, t, e, free)
    PROVE  Gives(s, t, e, rd, WasmUnary(w, op, s["A"]))
<1>1. {"And", "SignExtendWord", "Add64"} \subseteq AluOps /\ rd \in Registers /\ "A" \in Registers
      /\ 0 \in Int /\ HalfM - 1 \in Int /\ w \in Width
    BY RegistersAre, Sizes DEF AluOps, Width
<1>2. CASE op = "WrapI64"
  <2>1. Ends(<<AluImm("And", rd, "A", HalfM - 1)>>, s, t, e, free)  BY <1>2, EmitUnaryIs, Zenon
  <2>2. Gives(s, t, e, rd, Evaluate("And", s["A"], HalfM - 1))  BY <1>1, <2>1, OneRowImmGives
  <2>3. (s["A"] & (HalfM - 1)) = s["A"] % HalfM  BY <1>1, ValueInt, Sizes, AndMask
  <2> QED BY <1>2, <2>2, <2>3, Evaluates, WasmUnaryIs
<1>3. CASE op = "ExtendI32S"  BY <1>3, EmitUnaryIs, <1>1, OneRowImmGives, Widened, WasmUnaryIs
<1>4. CASE op = "ExtendI32U"
  <2>1. Ends(<<AluImm("Add64", rd, "A", 0)>>, s, t, e, free)  BY <1>4, EmitUnaryIs, Zenon DEF Mov
  <2>2. Gives(s, t, e, rd, Evaluate("Add64", s["A"], 0))  BY <1>1, <2>1, OneRowImmGives
  <2>3. (s["A"] + 0) % M = s["A"]  BY <1>1, ValueInt, PlusZero
  <2> QED BY <1>4, <2>2, <2>3, Evaluates, WasmUnaryIs
<1> QED BY <1>2, <1>3, <1>4 DEF Convert

-----------------------------------------------------------------------------
(* Asserts and advice *)

Failures == {"DivideByZero", "IntegerOverflow"}

\* An assert changes nothing: it passes on 1, else stops with its failure.
LEMMA AssertDoes ==
    ASSUME NEW op, NEW f \in Failures, NEW r, NEW o, NEW s, NEW t, NEW e, NEW free,
           Does(Assert(op, f, r, o), s, t, e, free)
    PROVE  /\ t = s
           /\ \/ e = "none" /\ Evaluate(op, s[r], Val(s, o)) = 1
              \/ e = f /\ Evaluate(op, s[r], Val(s, o)) # 1
<1> DEFINE a == Assert(op, f, r, o)
<1>1. a.row = "assert" /\ a.op = op /\ a.failure = f /\ a.rs1 = r /\ a.rs2 = o  BY DEF Assert
<1> HIDE DEF a
<1>2. Does(a, s, t, e, free)  BY DEF a
<1>3. Out(a, s) = Evaluate(op, s[r], Val(s, o))  BY <1>1, Zenon DEF Out
<1>4. \/ e = "none" /\ Out(a, s) = 1 /\ t = s
      \/ e # "none" /\ Out(a, s) # 1 /\ t = s /\ e = f
    BY <1>1, <1>2, Zenon DEF Does
<1> QED BY <1>3, <1>4

\* Advice writes a quotient: the honest one, or any word.
LEMMA AdviceDoes ==
    ASSUME NEW rd, NEW a, NEW b, NEW s, NEW t, NEW e, NEW free \in BOOLEAN,
           Does(Advice(rd, a, b), s, t, e, free)
    PROVE  /\ e = "none"
           /\ \E q : /\ Sets(s, t, rd, q)
                     /\ IF free THEN q \in Word ELSE q = HonestQuotient(s[a], s[b])
<1> DEFINE r == Advice(rd, a, b)
<1>1. r.row = "advice" /\ r.rd = rd /\ r.rs1 = a /\ r.rs2 = R(b)  BY DEF Advice
<1> HIDE DEF r
<1>2. Does(r, s, t, e, free)  BY DEF r
<1>3. e = "none" /\ \E q \in Advised(s, r, free) : Sets(s, t, rd, q)  BY <1>1, <1>2, Zenon DEF Does
<1>4. Val(s, R(b)) = s[b]  BY WritesAlu
<1>5. Advised(s, r, free) = IF free THEN Word ELSE {HonestQuotient(s[a], s[b])}
    BY <1>1, <1>4, Zenon DEF Advised
<1> QED BY <1>3, <1>5

\* An assert before others.
LEMMA AssertFirst ==
    ASSUME NEW op \in AluOps, NEW f \in Failures, NEW r \in Registers, NEW o \in Operands,
           NEW q \in Seq(Rows), NEW s, NEW t, NEW e, NEW free,
           Ends(<<Assert(op, f, r, o)>> \o q, s, t, e, free)
    PROVE  \/ e = f /\ t = s /\ Evaluate(op, s[r], Val(s, o)) # 1
           \/ Evaluate(op, s[r], Val(s, o)) = 1 /\ Ends(q, s, t, e, free)
<1>1. Assert(op, f, r, o) \in Rows  BY RowsAre, Zenon DEF Failures
<1>2. CASE e # "none" /\ Does(Assert(op, f, r, o), s, t, e, free)  BY <1>2, AssertDoes
<1>3. CASE \E u : Does(Assert(op, f, r, o), s, u, "none", free) /\ Ends(q, u, t, e, free)
  <2>1. PICK u : Does(Assert(op, f, r, o), s, u, "none", free) /\ Ends(q, u, t, e, free)  BY <1>3
  <2>2. u = s /\ (Evaluate(op, s[r], Val(s, o)) = 1 \/ "none" = f)  BY <2>1, AssertDoes
  <2>3. "none" # f  BY DEF Failures
  <2> QED BY <2>1, <2>2, <2>3
<1> QED BY <1>1, <1>2, <1>3, EndsFirst, Zenon

\* A row that computes, then one that asserts.
LEMMA PairFirst ==
    ASSUME NEW a \in AluRows, NEW op \in AluOps, NEW f \in Failures, NEW r \in Registers,
           NEW o \in Operands, NEW q \in Seq(Rows), NEW s, NEW t, NEW e, NEW free,
           Ends(<<a, Assert(op, f, r, o)>> \o q, s, t, e, free)
    PROVE  \E u : /\ Writes(a, s, u)
                  /\ \/ e = f /\ t = u /\ Evaluate(op, u[r], Val(u, o)) # 1
                     \/ Evaluate(op, u[r], Val(u, o)) = 1 /\ Ends(q, u, t, e, free)
<1> DEFINE b == Assert(op, f, r, o)
<1>1. a \in Rows /\ b \in Rows  BY RowsAre, Zenon DEF Failures
<1> HIDE DEF b
<1>2. <<a>> \in Seq(Rows) /\ <<b>> \in Seq(Rows) /\ <<a, b>> = <<a>> \o <<b>>  BY <1>1, Tuples
<1>3. <<a, b>> \o q = <<a>> \o (<<b>> \o q)  BY <1>2, Associates
<1>4. <<b>> \o q \in Seq(Rows)  BY <1>2, Tuples
<1>5. Ends(<<a>> \o (<<b>> \o q), s, t, e, free)  BY <1>3, Zenon DEF b
<1>6. PICK u : Writes(a, s, u) /\ Ends(<<b>> \o q, u, t, e, free)  BY <1>4, <1>5, AluFirst
<1>7. \/ e = f /\ t = u /\ Evaluate(op, u[r], Val(u, o)) # 1
      \/ Evaluate(op, u[r], Val(u, o)) = 1 /\ Ends(q, u, t, e, free)
    BY <1>6, AssertFirst, Zenon DEF b
<1> QED BY <1>6, <1>7

\* A row that computes and the assert that ends the rows.
LEMMA PairLast ==
    ASSUME NEW a \in AluRows, NEW op \in AluOps, NEW f \in Failures, NEW r \in Registers,
           NEW o \in Operands, NEW s, NEW t, NEW e, NEW free,
           Ends(<<a, Assert(op, f, r, o)>>, s, t, e, free)
    PROVE  \E u : /\ Writes(a, s, u) /\ t = u
                  /\ \/ e = f /\ Evaluate(op, u[r], Val(u, o)) # 1
                     \/ e = "none" /\ Evaluate(op, u[r], Val(u, o)) = 1
<1> DEFINE b == Assert(op, f, r, o)
<1>1. a \in Rows /\ b \in Rows  BY RowsAre, Zenon DEF Failures
<1> HIDE DEF b
<1>2. <<b>> \in Seq(Rows) /\ <<a, b>> = <<a>> \o <<b>>  BY <1>1, Tuples
<1>3. Ends(<<a>> \o <<b>>, s, t, e, free)  BY <1>2, Zenon DEF b
<1>4. PICK u : Writes(a, s, u) /\ Ends(<<b>>, u, t, e, free)  BY <1>2, <1>3, AluFirst
<1>5. Does(b, u, t, e, free)  BY <1>4, EndsOne
<1>6. t = u /\ (\/ e = "none" /\ Evaluate(op, u[r], Val(u, o)) = 1
                \/ e = f /\ Evaluate(op, u[r], Val(u, o)) # 1)
    BY <1>5, AssertDoes DEF b
<1> QED BY <1>4, <1>6

-----------------------------------------------------------------------------
(* The quotient and the asserts that pin it *)

\* Asserts of AluOp::MulUNoOverflow, LeU and LtU leave one quotient.
PinnedBy(x, y, q) == q * y <= x /\ x - q * y < y

\* The quotient is the only number that passes both asserts.
LEMMA Pins ==
    ASSUME NEW x \in Nat, NEW y \in Nat \ {0}, NEW q \in Nat
    PROVE  /\ PinnedBy(x, y, q) <=> q = x \div y
           /\ PinnedBy(x, y, q) => x - q * y = x % y /\ q <= x
<1>1. x \in Int /\ y \in Int /\ q \in Int /\ y > 0  OBVIOUS
<1>2. PICK g \in Int : g = q * y /\ g = y * q  BY <1>1, Ring
<1>3. ASSUME PinnedBy(x, y, q) PROVE q = x \div y /\ x - g = x % y
  <2>1. g <= x /\ x - g < y  BY <1>2, <1>3 DEF PinnedBy
  <2>2. PICK r \in Int : r = x - g /\ r \in 0 .. y - 1 /\ x = g + r  BY <1>1, <2>1
  <2>3. x = y * q + r  BY <1>2, <2>2
  <2> QED BY <1>1, <2>2, <2>3, Quotient, Remainder
<1>4. ASSUME q = x \div y PROVE PinnedBy(x, y, q)
  <2>1. PICK f \in Int, r \in 0 .. y - 1 : f = x \div y /\ x = y * f + r  BY <1>1, Parts
  <2>2. x = g + r /\ r \in Int  BY <1>2, <1>4, <2>1
  <2>3. g <= x /\ x - g < y
    <3>1. r >= 0 /\ r < y  BY <2>1
    <3> QED BY <1>1, <2>2, <3>1
  <2> QED BY <1>2, <2>3 DEF PinnedBy
<1>5. x \div y \in 0 .. x  BY QuotientBelow
<1> QED BY <1>2, <1>3, <1>4, <1>5

\* MulUNoOverflow: the product is below M.
LEMMA Fits ==
    ASSUME NEW y \in Word, y # 0, NEW q \in Word
    PROVE  q <= (M - 1) \div y <=> q * y <= M - 1
<1>1. y \in Int /\ y > 0 /\ y \in Nat \ {0} /\ q \in Int /\ M - 1 \in Int  BY Sizes DEF Word
<1>2. PICK f \in Int, r \in 0 .. y - 1 : f = (M - 1) \div y /\ M - 1 = y * f + r  BY <1>1, Parts
<1>3. PICK g \in Int : g = q * y /\ g = y * q  BY <1>1, Ring
<1>4. PICK a \in Int : a = y * f /\ M - 1 = a + r  BY <1>1, <1>2, Ring
<1>5. CASE q <= f  BY <1>1, <1>2, <1>5, <1>3, <1>4
<1>6. CASE q >= f + 1
  <2>1. y * q >= y * (f + 1)  BY <1>1, <1>2, <1>6
  <2>2. y * (f + 1) = y * f + y  BY <1>1, <1>2
  <2>3. ~(q <= f)  BY <1>1, <1>2, <1>6
  <2> QED BY <1>1, <1>2, <1>3, <1>4, <2>1, <2>2, <2>3
<1> QED BY <1>1, <1>2, <1>5, <1>6

\* A product that fits is not reduced.
LEMMA ProductFits ==
    ASSUME NEW q \in Word, NEW y \in Word, q * y <= M - 1
    PROVE  Evaluate("Mul64", q, y) = q * y
<1>1. q \in Nat /\ y \in Nat  BY Sizes DEF Word
<1>2. PICK g \in Nat : g = q * y  BY <1>1
<1>3. g \in 0 .. M - 1  BY <1>2, Sizes
<1>4. g % M = g  BY <1>3, RemainderSmall, Sizes
<1>5. MulWrap(q, y) = (q * y) % M  BY <1>1, MulWraps
<1> QED BY <1>2, <1>4, <1>5, Evaluates

DivRegs == {"A", "B", "T0", "T1"}

\* A boolean table gives 1 exactly where its condition holds.
LEMMA Bools == \A p : (p \in BOOLEAN => (Bool(p) = 1 <=> p)) /\ Bool(TRUE) = 1 /\ Bool(FALSE) = 0
<1> QED BY DEF Bool

\* The advice HonestQuotient gives is the quotient.
LEMMA HonestIs ==
    ASSUME NEW x \in Word, NEW y \in Word, y # 0
    PROVE  HonestQuotient(x, y) = x \div y /\ x \div y \in Word
<1>1. x \in Nat /\ y \in Nat \ {0} /\ x <= M - 1 /\ M \in Int  BY Sizes DEF Word
<1>2. PICK q \in Int : q = x \div y /\ q \in 0 .. x  BY <1>1, QuotientBelow
<1>3. q \in Word  BY <1>1, <1>2 DEF Word
<1> QED BY <1>2, <1>3 DEF HonestQuotient

\* emit_unsigned_divmod: the honest advice passes every assert; at 64 bits
\* only the quotient passes, whoever supplies it.
LEMMA DivmodRuns ==
    ASSUME NEW w \in Width, NEW a \in DivRegs, NEW b \in DivRegs,
           NEW s, s[a] \in Word, s[b] \in Word, s[b] # 0,
           NEW t, NEW e, NEW free \in BOOLEAN, Ends(UnsignedDivmod(w, a, b), s, t, e, free)
    PROVE  /\ ~free => e = "none"
           /\ e = "none" /\ (free => w = 64)
                => /\ t["T3"] = s[a] \div s[b] /\ t["T4"] = s[a] % s[b]
                   /\ Keeps(s, t, {"T2", "T3", "T4"})
<1> DEFINE r1 == Advice("T3", a, b)
           no == Assert("MulUNoOverflow", "IntegerOverflow", "T3", R(b))
           m  == IF w = 64 THEN <<no>> ELSE <<>>
           r2 == Alu("Mul64", "T2", "T3", R(b))
           le == Assert("LeU", "IntegerOverflow", "T2", R(a))
           r3 == Alu("Sub64", "T4", a, R("T2"))
           lt == Assert("LtU", "IntegerOverflow", "T4", R(b))
           p  == <<r2, le>>
           q  == <<r3, lt>>
<1>1. {"MulUNoOverflow", "Mul64", "LeU", "Sub64", "LtU"} \subseteq AluOps
      /\ "IntegerOverflow" \in Failures
    BY DEF AluOps, Failures
<1>2. {a, b, "T2", "T3", "T4"} \subseteq Registers /\ a \notin {"T2", "T3", "T4"} /\ b \notin {"T2", "T3", "T4"}
    BY RegistersAre DEF DivRegs
<1>3. R(a) \in Operands /\ R(b) \in Operands /\ R("T2") \in Operands  BY <1>2, OperandsAre
<1>4. r1 \in Rows /\ no \in Rows /\ le \in Rows /\ lt \in Rows
    BY <1>1, <1>2, <1>3, RowsAre DEF Failures
<1>5. r2 \in AluRows /\ r3 \in AluRows  BY <1>1, <1>2, <1>3, RowsAre
<1>6. Ends(((<<r1>> \o m) \o p) \o q, s, t, e, free)  BY Zenon DEF UnsignedDivmod, Pinned
<1> HIDE DEF r1, no, le, lt, r2, r3
<1>7. <<r1>> \in Seq(Rows) /\ m \in Seq(Rows) /\ p \in Seq(Rows) /\ q \in Seq(Rows)
    BY <1>5, RowsAre, <1>4, Tuples
<1>8. p \o q \in Seq(Rows) /\ m \o (p \o q) \in Seq(Rows) /\ <<r1>> \o m \in Seq(Rows)
  <2> HIDE DEF m, p, q
  <2> QED BY <1>7, Tuples
<1>9. Ends(<<r1>> \o (m \o (p \o q)), s, t, e, free)
  <2> HIDE DEF m, p, q
  <2>1. ((<<r1>> \o m) \o p) \o q = (<<r1>> \o m) \o (p \o q)  BY <1>7, <1>8, Associates
  <2>2. (<<r1>> \o m) \o (p \o q) = <<r1>> \o (m \o (p \o q))  BY <1>7, <1>8, Associates
  <2> QED BY <1>6, <2>1, <2>2, Zenon
<1>10. PICK x, y \in Nat : x = s[a] /\ y = s[b] /\ x \in Word /\ y \in Word /\ y # 0
    BY Sizes DEF Word
<1>11. \E u : Does(r1, s, u, "none", free) /\ Ends(m \o (p \o q), u, t, e, free)
  <2> HIDE DEF m, p, q
  <2>1. \/ e # "none" /\ Does(r1, s, t, e, free)
        \/ \E u : Does(r1, s, u, "none", free) /\ Ends(m \o (p \o q), u, t, e, free)
      BY <1>4, <1>8, <1>9, EndsFirst
  <2>2. Does(r1, s, t, e, free) => e = "none"  BY AdviceDoes DEF r1
  <2> QED BY <2>1, <2>2
<1>12. PICK u, k : /\ Sets(s, u, "T3", k) /\ (IF free THEN k \in Word ELSE k = HonestQuotient(x, y))
                   /\ Ends(m \o (p \o q), u, t, e, free)
  <2>1. PICK u : Does(r1, s, u, "none", free) /\ Ends(m \o (p \o q), u, t, e, free)  BY <1>11
  <2>2. \E k : Sets(s, u, "T3", k) /\ (IF free THEN k \in Word ELSE k = HonestQuotient(s[a], s[b]))
      BY <2>1, AdviceDoes DEF r1
  <2> QED BY <1>10, <2>1, <2>2
<1>13. k \in Word /\ (~free => k = x \div y)
  <2>1. HonestQuotient(x, y) = x \div y /\ x \div y \in Word  BY <1>10, HonestIs
  <2> HIDE DEF m, p, q
  <2>2. CASE free  BY <1>12, <2>2
  <2>3. CASE ~free  BY <1>12, <2>1, <2>3
  <2> QED BY <2>2, <2>3
<1>14. k \in Nat  BY <1>13, Sizes DEF Word
<1>15. ~free => PinnedBy(x, y, k)  BY <1>10, <1>13, <1>14, Pins
<1>16. PinnedBy(x, y, k) => k * y <= M - 1
  <2>1. x <= M - 1 /\ x \in Int /\ M \in Int  BY <1>10, Sizes DEF Word
  <2>2. PICK g \in Int : g = k * y  BY <1>10, <1>14, Ring
  <2> QED BY <2>1, <2>2 DEF PinnedBy
<1>17. u[a] = x /\ u[b] = y /\ u["T3"] = k /\ Val(u, R(b)) = y
    BY <1>2, <1>10, <1>12, RegistersAre, WritesAlu DEF Sets
\* Either the quotient does not fit and a free prover is stopped, or it fits.
<1>18. CASE e # "none" /\ free  BY <1>18
<1>19. CASE w = 32 /\ free  BY <1>19
<1>20. CASE ~(e # "none" /\ free) /\ ~(w = 32 /\ free)
  <2>1. k * y <= M - 1 /\ Ends(p \o q, u, t, e, free)
    <3>1. CASE w = 64
      <4>1. Ends(<<no>> \o (p \o q), u, t, e, free)  BY <1>12, <3>1 DEF m
      <4> HIDE DEF m, p, q
      <4>2. \/ e = "IntegerOverflow" /\ t = u /\ Evaluate("MulUNoOverflow", u["T3"], Val(u, R(b))) # 1
            \/ Evaluate("MulUNoOverflow", u["T3"], Val(u, R(b))) = 1 /\ Ends(p \o q, u, t, e, free)
          BY <1>1, <1>2, <1>3, <1>8, <4>1, AssertFirst DEF no
      <4>3. Evaluate("MulUNoOverflow", k, y) = 1 <=> k * y <= M - 1
          BY Evaluates, <1>10, <1>13, Fits DEF Bool
      <4>4. e = "IntegerOverflow" => e # "none"  OBVIOUS
      <4> QED BY <1>15, <1>16, <1>17, <1>20, <4>2, <4>3, <4>4
    <3>2. CASE w = 32
      <4>1. Ends(<<>> \o (p \o q), u, t, e, free)  BY <1>12, <3>2 DEF m
      <4> HIDE DEF m, p, q
      <4>2. Ends(p \o q, u, t, e, free)  BY <1>8, <4>1, EndsAfterNone
      <4> QED BY <1>15, <1>16, <1>20, <3>2, <4>2
    <3> QED BY <3>1, <3>2 DEF Width
  <2>2. PICK v : /\ Writes(r2, u, v)
                 /\ \/ e = "IntegerOverflow" /\ t = v /\ Evaluate("LeU", v["T2"], Val(v, R(a))) # 1
                    \/ Evaluate("LeU", v["T2"], Val(v, R(a))) = 1 /\ Ends(q, v, t, e, free)
    <3>1. Ends(<<r2, le>> \o q, u, t, e, free)  BY <2>1 DEF p
    <3> HIDE DEF p, q
    <3> QED BY <1>1, <1>2, <1>3, <1>5, <1>7, <3>1, PairFirst DEF le
  <2>3. PICK g \in Int : g = k * y  BY <1>10, <1>14, Ring
  <2>4. Sets(u, v, "T2", g)  BY <2>2, WritesAlu, <1>10, <1>13, <2>1, ProductFits, <1>17, <2>3 DEF r2
  <2>5. v[a] = x /\ v[b] = y /\ v["T2"] = g /\ v["T3"] = k /\ Val(v, R(a)) = x
      BY <1>2, <1>17, <2>4, RegistersAre, WritesAlu DEF Sets
  <2>6. (Evaluate("LeU", g, x) = 1 <=> g <= x)  BY Evaluates DEF Bool
  <2>7. g <= x /\ Ends(q, v, t, e, free)  BY <1>15, <2>3, <1>20, <2>2, <2>5, <2>6 DEF PinnedBy
  <2>8. PICK z : /\ Writes(r3, v, z) /\ t = z
                 /\ \/ e = "IntegerOverflow" /\ Evaluate("LtU", z["T4"], Val(z, R(b))) # 1
                    \/ e = "none" /\ Evaluate("LtU", z["T4"], Val(z, R(b))) = 1
    <3>1. Ends(<<r3, lt>>, v, t, e, free)  BY <2>7 DEF q
    <3> HIDE DEF q
    <3> QED BY <1>1, <1>2, <1>3, <1>5, <3>1, PairLast DEF lt
  <2>9. Sets(v, z, "T4", x - g)
    <3>1. Sets(v, z, "T4", Evaluate("Sub64", v[a], Val(v, R("T2"))))
        BY <2>8, WritesAlu, Zenon DEF r3
    <3>2. Val(v, R("T2")) = g  BY <2>5, WritesAlu
    <3>3. (x - g) % M = x - g
      <4>1. g >= 0  BY <1>10, <1>14, <2>3
      <4>2. x - g \in 0 .. M - 1  BY <1>10, <2>3, <2>7, <4>1, Sizes DEF Word
      <4> QED BY <4>2, RemainderSmall, Sizes
    <3> QED BY <2>5, <3>1, <3>2, <3>3, Evaluates
  <2>10. z["T4"] = x - g /\ z["T3"] = k /\ Val(z, R(b)) = y
      BY <1>2, <2>5, <2>9, RegistersAre, WritesAlu DEF Sets
  <2>11. (Evaluate("LtU", x - g, y) = 1 <=> x - g < y)  BY Evaluates DEF Bool
  <2>12. x - g < y /\ e = "none"  BY <1>15, <2>3, <1>20, <2>8, <2>10, <2>11 DEF PinnedBy
  <2>13. PinnedBy(x, y, k)  BY <2>3, <2>7, <2>12 DEF PinnedBy
  <2>14. k = x \div y /\ x - g = x % y  BY <1>10, <1>14, <2>3, <2>13, Pins
  <2>15. Keeps(s, t, {"T2", "T3", "T4"})  BY <1>12, <2>4, <2>8, <2>9 DEF Keeps, Sets
  <2> QED BY <1>10, <2>8, <2>10, <2>12, <2>14, <2>15
<1> QED BY <1>18, <1>19, <1>20 DEF Width

\* Its rows are rows.
LEMMA DivmodTyped ==
    \A w \in Width : \A a, b \in DivRegs :
        UnsignedDivmod(w, a, b) \in Seq(Rows) /\ AssertNonzero(b) \in Seq(Rows)
<1> SUFFICES ASSUME NEW w \in Width, NEW a \in DivRegs, NEW b \in DivRegs
             PROVE  UnsignedDivmod(w, a, b) \in Seq(Rows) /\ AssertNonzero(b) \in Seq(Rows)
    OBVIOUS
<1>1. {"MulUNoOverflow", "Mul64", "LeU", "Sub64", "LtU", "Ne"} \subseteq AluOps
      /\ {"IntegerOverflow", "DivideByZero"} \subseteq {"DivideByZero", "IntegerOverflow"}
    BY DEF AluOps
<1>2. {a, b, "T2", "T3", "T4"} \subseteq Registers  BY RegistersAre DEF DivRegs
<1>3. R(a) \in Operands /\ R(b) \in Operands /\ R("T2") \in Operands /\ I(0) \in Operands
    BY <1>2, OperandsAre
<1>4. /\ Advice("T3", a, b) \in Rows
      /\ Assert("MulUNoOverflow", "IntegerOverflow", "T3", R(b)) \in Rows
      /\ Alu("Mul64", "T2", "T3", R(b)) \in Rows
      /\ Assert("LeU", "IntegerOverflow", "T2", R(a)) \in Rows
      /\ Alu("Sub64", "T4", a, R("T2")) \in Rows
      /\ Assert("LtU", "IntegerOverflow", "T4", R(b)) \in Rows
      /\ Assert("Ne", "DivideByZero", b, I(0)) \in Rows
    BY <1>1, <1>2, <1>3, RowsAre
<1>5. /\ <<Advice("T3", a, b)>> \in Seq(Rows) /\ <<>> \in Seq(Rows)
      /\ <<Assert("MulUNoOverflow", "IntegerOverflow", "T3", R(b))>> \in Seq(Rows)
      /\ <<Alu("Mul64", "T2", "T3", R(b)), Assert("LeU", "IntegerOverflow", "T2", R(a))>> \in Seq(Rows)
      /\ <<Alu("Sub64", "T4", a, R("T2")), Assert("LtU", "IntegerOverflow", "T4", R(b))>> \in Seq(Rows)
      /\ <<Assert("Ne", "DivideByZero", b, I(0))>> \in Seq(Rows)
    BY <1>4, Tuples, Zenon
<1>6. UnsignedDivmod(w, a, b) \in Seq(Rows)  BY <1>5, Tuples, Zenon DEF UnsignedDivmod, Pinned
<1> QED BY <1>5, <1>6, Zenon DEF AssertNonzero

\* The rows of an operator on x and y end as wasm says: with its trap, or its
\* result in rd and nothing but rd and the temporaries changed.  Only a prover
\* that supplies any advice at all may end an unsigned i32 division otherwise.
Loose(op, w, free) == free /\ w = 32 /\ op \in {"DivU", "RemU"}
Good(op, w, rd, x, y, free, s, t, e) ==
    /\ ~free => e = WasmTrap(w, op, x, y)
    /\ e = "none" /\ ~Loose(op, w, free)
         => t[rd] = WasmBinary(w, op, x, y) /\ Keeps(s, t, Temps \cup {rd})

\* emit_assert_nonzero stops a zero divisor and lets the others on.
LEMMA NonzeroFirst ==
    ASSUME NEW b \in DivRegs, NEW q \in Seq(Rows), NEW s, NEW t, NEW e, NEW free,
           Ends(AssertNonzero(b) \o q, s, t, e, free)
    PROVE  \/ e = "DivideByZero" /\ s[b] = 0
           \/ s[b] # 0 /\ Ends(q, s, t, e, free)
<1>1. "Ne" \in AluOps /\ "DivideByZero" \in Failures  BY DEF AluOps, Failures
<1>2. b \in Registers /\ I(0) \in Operands  BY RegistersAre, OperandsAre DEF DivRegs
<1>3. Ends(<<Assert("Ne", "DivideByZero", b, I(0))>> \o q, s, t, e, free)
    BY Zenon DEF AssertNonzero
<1>4. Val(s, I(0)) = 0  BY WritesAlu
<1>5. Evaluate("Ne", s[b], 0) = 1 <=> s[b] # 0  BY Evaluates DEF Bool
<1>6. \/ e = "DivideByZero" /\ t = s /\ Evaluate("Ne", s[b], Val(s, I(0))) # 1
      \/ Evaluate("Ne", s[b], Val(s, I(0))) = 1 /\ Ends(q, s, t, e, free)
    BY <1>1, <1>2, <1>3, AssertFirst
<1> QED BY <1>4, <1>5, <1>6

\* DivU and RemU end as wasm says.
LEMMA UnsignedRuns ==
    ASSUME NEW w \in Width, NEW rd \in {"A", "B", "D"}, NEW b \in {"A", "B"},
           NEW op \in {"DivU", "RemU"}, NEW rs, rs = IF op = "DivU" THEN "T3" ELSE "T4",
           NEW s, s["A"] \in Values(w), s[b] \in Values(w),
           NEW t, NEW e, NEW free \in BOOLEAN, Ends(Unsigned_(w, rd, rs, "A", b), s, t, e, free)
    PROVE  Good(op, w, rd, s["A"], s[b], free, s, t, e)
<1> DEFINE mv == Mov(rd, rs)
<1>1. "A" \in DivRegs /\ b \in DivRegs /\ rs \in Registers /\ rd \in Registers
      /\ "Add64" \in AluOps /\ 0 \in Int
    BY RegistersAre DEF DivRegs, AluOps
<1>2. UnsignedDivmod(w, "A", b) \in Seq(Rows) /\ AssertNonzero(b) \in Seq(Rows)
    BY <1>1, DivmodTyped
<1>3. mv \in Rows  BY <1>1, RowsAre DEF Mov
<1>4. Ends((AssertNonzero(b) \o UnsignedDivmod(w, "A", b)) \o <<mv>>, s, t, e, free)
    BY Zenon DEF Unsigned_
<1> HIDE DEF mv
<1>5. <<mv>> \in Seq(Rows)  BY <1>3, Tuples
<1>6. UnsignedDivmod(w, "A", b) \o <<mv>> \in Seq(Rows)  BY <1>2, <1>5, Tuples
<1>7. Ends(AssertNonzero(b) \o (UnsignedDivmod(w, "A", b) \o <<mv>>), s, t, e, free)
  <2>1. (AssertNonzero(b) \o UnsignedDivmod(w, "A", b)) \o <<mv>>
           = AssertNonzero(b) \o (UnsignedDivmod(w, "A", b) \o <<mv>>)
      BY <1>2, <1>5, Associates
  <2> QED BY <1>4, <2>1, Zenon
<1>8. PICK x, y \in Nat : x = s["A"] /\ y = s[b] /\ x \in Word /\ y \in Word  BY ValueInt
<1>9. WasmTrap(w, op, x, y) = IF y = 0 THEN "DivideByZero" ELSE "none"  BY DEF WasmTrap, Division
<1>10. WasmBinary(w, op, x, y) = IF op = "DivU" THEN x \div y ELSE x % y  BY WasmIs
<1>11. CASE y = 0  BY <1>1, <1>6, <1>7, <1>8, <1>11, NonzeroFirst, <1>9 DEF Good
<1>12. CASE y # 0
  <2>1. Ends(UnsignedDivmod(w, "A", b) \o <<mv>>, s, t, e, free)
      BY <1>1, <1>6, <1>7, <1>8, <1>12, NonzeroFirst
  <2>2. s["A"] \in Word /\ s[b] \in Word /\ s[b] # 0  BY <1>8, <1>12
  <2>3. \A u : Ends(UnsignedDivmod(w, "A", b), s, u, e, free) /\ ~free => e = "none"
      BY <1>1, <2>2, DivmodRuns
  <2>4. CASE e # "none" /\ Ends(UnsignedDivmod(w, "A", b), s, t, e, free)
      BY <1>8, <2>3, <2>4 DEF Good
  <2>5. CASE \E u : Ends(UnsignedDivmod(w, "A", b), s, u, "none", free) /\ Ends(<<mv>>, u, t, e, free)
    <3>1. PICK u : Ends(UnsignedDivmod(w, "A", b), s, u, "none", free) /\ Ends(<<mv>>, u, t, e, free)
        BY <2>5
    <3>2. e = "none" /\ Sets(u, t, rd, Evaluate("Add64", u[rs], 0))
        BY <1>1, <3>1, OneRowImm DEF mv, Mov
    <3>3. CASE Loose(op, w, free)  BY <1>8, <3>2, <3>3 DEF Good, Loose
    <3>4. CASE ~Loose(op, w, free)
      <4>1. free => w = 64  BY <3>4 DEF Loose, Width
      <4>2. /\ u["T3"] = s["A"] \div s[b] /\ u["T4"] = s["A"] % s[b]
            /\ Keeps(s, u, {"T2", "T3", "T4"})
          BY <1>1, <2>2, <3>1, <4>1, DivmodRuns
      <4>3. u[rs] = WasmBinary(w, op, x, y)  BY <1>8, <1>10, <4>2
      <4>4. u[rs] \in Word
        <5>1. PICK d, m \in Int : d = x \div y /\ m = x % y /\ d \in Word /\ m \in 0 .. y - 1
          <6>1. y \in Nat \ {0} /\ x \in Int  BY <1>12
          <6>2. x \div y \in Word /\ x \div y \in Int  BY <1>8, <1>12, HonestIs, Sizes DEF Word
          <6>3. x % y \in 0 .. y - 1  BY <6>1, Parts
          <6> QED BY <6>2, <6>3
        <5>2. m \in Word  BY <1>8, <5>1, Sizes DEF Word
        <5> QED BY <1>8, <4>2, <5>1, <5>2
      <4>5. Evaluate("Add64", u[rs], 0) = u[rs]  BY <4>4, PlusZero, Evaluates
      <4>6. t[rd] = WasmBinary(w, op, x, y)  BY <3>2, <4>3, <4>5 DEF Sets
      <4>7. Keeps(s, t, Temps \cup {rd})  BY <3>2, <4>2 DEF Keeps, Sets, Temps
      <4> QED BY <1>8, <1>9, <1>12, <3>2, <4>6, <4>7 DEF Good
    <3> QED BY <1>8, <1>9, <1>12, <3>2, <3>3, <3>4 DEF Good
  <2> QED BY <1>2, <1>5, <2>1, <2>4, <2>5, EndsJoin
<1> QED BY <1>11, <1>12

\* Rows associate.
LEMMA RowsAssociate == \A p, q, r \in Seq(Rows) : (p \o q) \o r = p \o (q \o r)
<1> QED BY Associates

Chained(a, b, c, d, f, g, h) == (((((a \o b) \o c) \o d) \o f) \o g) \o h
Nested(c, d, f, g, h) == c \o (d \o (f \o (g \o h)))

\* Seven pieces appended one by one are the first, the second and the rest.
LEMMA AssociateSeven ==
    \A a, b, c, d, f, g, h :
        {a, b, c, d, f, g, h} \subseteq Seq(Rows) =>
           /\ Chained(a, b, c, d, f, g, h) = a \o (b \o Nested(c, d, f, g, h))
           /\ Nested(c, d, f, g, h) \in Seq(Rows)
           /\ b \o Nested(c, d, f, g, h) \in Seq(Rows)
<1> TAKE a, b, c, d, f, g, h
<1>1. HAVE {a, b, c, d, f, g, h} \subseteq Seq(Rows)
<1>2. PICK l2 : l2 = a \o b  OBVIOUS
<1>3. PICK l3 : l3 = l2 \o c  OBVIOUS
<1>4. PICK l4 : l4 = l3 \o d  OBVIOUS
<1>5. PICK l5 : l5 = l4 \o f  OBVIOUS
<1>6. PICK s6 : s6 = g \o h  OBVIOUS
<1>7. PICK s5 : s5 = f \o s6  OBVIOUS
<1>8. PICK s4 : s4 = d \o s5  OBVIOUS
<1>9. PICK s3 : s3 = c \o s4  OBVIOUS
<1>10. a \in Seq(Rows) /\ b \in Seq(Rows)  BY <1>1
<1>11. c \in Seq(Rows)  BY <1>1
<1>12. d \in Seq(Rows)  BY <1>1
<1>13. f \in Seq(Rows)  BY <1>1
<1>14. g \in Seq(Rows) /\ h \in Seq(Rows)  BY <1>1
<1>15. l2 \in Seq(Rows)  BY <1>2, <1>10, Tuples
<1>16. l3 \in Seq(Rows)  BY <1>3, <1>15, <1>11, Tuples
<1>17. l4 \in Seq(Rows)  BY <1>4, <1>16, <1>12, Tuples
<1>18. s6 \in Seq(Rows)  BY <1>6, <1>14, Tuples
<1>19. s5 \in Seq(Rows)  BY <1>7, <1>18, <1>13, Tuples
<1>20. s4 \in Seq(Rows)  BY <1>8, <1>19, <1>12, Tuples
<1>21. s3 \in Seq(Rows)  BY <1>9, <1>20, <1>11, Tuples
<1>22. b \o s3 \in Seq(Rows)  BY <1>10, <1>21, Tuples
<1>23. l5 \in Seq(Rows)  BY <1>5, <1>17, <1>13, Tuples
<1>24. (l5 \o g) \o h = l5 \o s6  BY <1>6, <1>23, <1>14, RowsAssociate
<1>25. l5 \o s6 = l4 \o s5  BY <1>5, <1>7, <1>17, <1>13, <1>18, RowsAssociate
<1>26. l4 \o s5 = l3 \o s4  BY <1>4, <1>8, <1>16, <1>12, <1>19, RowsAssociate
<1>27. l3 \o s4 = l2 \o s3  BY <1>3, <1>9, <1>15, <1>11, <1>20, RowsAssociate
<1>28. l2 \o s3 = a \o (b \o s3)  BY <1>2, <1>10, <1>21, RowsAssociate
<1>29. (l5 \o g) \o h = a \o (b \o s3)  BY <1>24, <1>25, <1>26, <1>27, <1>28, Zenon
<1>30. Chained(a, b, c, d, f, g, h) = (l5 \o g) \o h  BY <1>2, <1>3, <1>4, <1>5, Zenon DEF Chained
<1>31. Nested(c, d, f, g, h) = s3  BY <1>6, <1>7, <1>8, <1>9, Zenon DEF Nested
<1> QED BY <1>21, <1>22, <1>29, <1>30, <1>31, Zenon

-----------------------------------------------------------------------------
(* Magnitudes and signs *)

Abs(v) == IF v < 0 THEN -v ELSE v

\* NegateIf of a word by itself is its magnitude.
LEMMA NegateIs ==
    ASSUME NEW v \in Word
    PROVE  Evaluate("NegateIf", v, v) = Abs(Signed(Bits, v)) /\ Abs(Signed(Bits, v)) \in Word
<1>1. Bits \in Nat \ {0} /\ M = 2^Bits /\ M \in Nat \ {0} /\ v \in 0 .. 2^Bits - 1
    BY Sizes DEF Word
<1>2. PICK p \in Nat \ {0} : p = 2^(Bits - 1) /\ M = p + p  BY <1>1, Halves
<1>3. PICK i \in Int : i = Signed(Bits, v) /\ i = IF v < p THEN v ELSE v - M
    BY <1>1, <1>2, SignedIs
<1>6. Evaluate("NegateIf", v, v) = IF Signed(Bits, v) < 0 THEN (-v) % M ELSE v  BY Evaluates
<1>4. CASE i < 0  BY <1>1, <1>2, <1>3, <1>4, Remainder, <1>6 DEF Abs, Word
<1>5. CASE ~(i < 0)  BY <1>1, <1>2, <1>3, <1>5, <1>6 DEF Abs
<1> QED BY <1>4, <1>5

\* The row that widens an operand keeps the integer it stands for.
LEMMA WidenRow ==
    ASSUME NEW w \in Width, NEW rd \in Registers \ {"ZERO"}, NEW rs \in Registers
    PROVE  /\ Widen(w, rd, rs) \in AluRows
           /\ \A s, u : s[rs] \in Values(w) /\ Writes(Widen(w, rd, rs), s, u)
                 => \E v \in Word : Sets(s, u, rd, v) /\ Signed(Bits, v) = Signed(NBits(w), s[rs])
<1>1. {"Add64", "SignExtendWord"} \subseteq AluOps /\ 0 \in Int  BY DEF AluOps
<1>2. Widen(w, rd, rs) \in AluRows  BY <1>1, RowsAre DEF Widen, Mov
<1>3. ASSUME NEW s, NEW u, s[rs] \in Values(w), Writes(Widen(w, rd, rs), s, u)
      PROVE  \E v \in Word : Sets(s, u, rd, v) /\ Signed(Bits, v) = Signed(NBits(w), s[rs])
  <2>1. CASE w = 64  BY <1>3, <2>1, WritesAlu, ValueInt, PlusZero, Evaluates DEF Widen, Mov, NBits
  <2>2. CASE w = 32  BY <1>3, <2>2, WritesAlu, Widened DEF Widen, NBits
  <2> QED BY <2>1, <2>2 DEF Width
<1> QED BY <1>2, <1>3

\* It and NegateIf leave the operand's magnitude.
LEMMA MagnitudeRuns ==
    ASSUME NEW w \in Width, NEW rd \in {"T0", "T1"}, NEW rs \in {"A", "B"}
    PROVE  /\ Magnitude(w, rd, rs) \in Seq(Rows)
           /\ \A s, t, e, free : s[rs] \in Values(w) /\ Ends(Magnitude(w, rd, rs), s, t, e, free)
                 => /\ e = "none" /\ Sets(s, t, rd, Abs(Signed(NBits(w), s[rs])))
                    /\ t[rd] \in Word
<1> DEFINE r1 == Widen(w, rd, rs)
           r2 == Alu("NegateIf", rd, rd, R(rd))
<1>1. "NegateIf" \in AluOps /\ rd \in Registers /\ rs \in Registers  BY RegistersAre DEF AluOps
<1>2. R(rd) \in Operands  BY <1>1, OperandsAre
<1>3. r1 \in AluRows /\ r2 \in AluRows  BY <1>1, <1>2, WidenRow, RowsAre
<1>4. Magnitude(w, rd, rs) = <<r1, r2>>  BY DEF Magnitude
<1> HIDE DEF r1, r2
<1>5. <<r1, r2>> \in Seq(Rows)  BY <1>3, RowsAre, Tuples
<1>6. ASSUME NEW s, NEW t, NEW e, NEW free, s[rs] \in Values(w), Ends(<<r1, r2>>, s, t, e, free)
      PROVE  /\ e = "none" /\ Sets(s, t, rd, Abs(Signed(NBits(w), s[rs])))
             /\ t[rd] \in Word
  <2>1. PICK u : e = "none" /\ Writes(r1, s, u) /\ Writes(r2, u, t)  BY <1>3, <1>6, AluTwo
  <2>2. PICK v \in Word : Sets(s, u, rd, v) /\ Signed(Bits, v) = Signed(NBits(w), s[rs])
      BY <1>1, <1>6, <2>1, WidenRow DEF r1
  <2>3. Sets(u, t, rd, Evaluate("NegateIf", u[rd], Val(u, R(rd))))  BY <2>1, WritesAlu, Zenon DEF r2
  <2>4. u[rd] = v /\ Val(u, R(rd)) = v  BY <2>2, WritesAlu DEF Sets
  <2>5. Sets(u, t, rd, Abs(Signed(Bits, v))) /\ Abs(Signed(Bits, v)) \in Word
      BY <2>3, <2>4, NegateIs
  <2> QED BY <2>1, <2>2, <2>5 DEF Sets
<1> QED BY <1>4, <1>5, <1>6

\* Signed operands, their magnitudes and their signs.
LEMMA SignedValues ==
    ASSUME NEW w \in Width, NEW x \in Values(w)
    PROVE  /\ Signed(NBits(w), x) \in Int /\ Abs(Signed(NBits(w), x)) \in Nat
           /\ Signed(NBits(w), x) < 0 <=> x >= 2^(NBits(w) - 1)
           /\ Signed(NBits(w), x) = 0 <=> x = 0
           /\ Signed(NBits(w), x) = -1 <=> x = 2^NBits(w) - 1
           /\ Signed(NBits(w), x) = -(2^(NBits(w) - 1)) <=> x = 2^(NBits(w) - 1)
           /\ 2^(NBits(w) - 1) \in Int /\ 2^NBits(w) - 1 \in Int
<1>1. PICK n \in Nat \ {0} : n = NBits(w)  BY Widths
<1>2. PICK p, q \in Nat \ {0} : p = 2^(n - 1) /\ q = 2^n /\ q = p + p  BY Halves
<1>3. x \in 0 .. q - 1  BY <1>1, <1>2 DEF Values
<1>4. PICK i \in Int : i = Signed(n, x) /\ i = IF x < p THEN x ELSE x - q  BY <1>2, <1>3 DEF Signed
<1>5. (i < 0 <=> x >= p) /\ (i = 0 <=> x = 0) /\ (i = -1 <=> x = q - 1) /\ (i = -p <=> x = p)
    BY <1>2, <1>3, <1>4
<1>6. Abs(i) \in Nat  BY <1>4 DEF Abs
<1> QED BY <1>1, <1>2, <1>4, <1>5, <1>6

\* The least value divided by -1.
Overflows(w, x, y) ==
    Signed(NBits(w), x) = -(2^(NBits(w) - 1)) /\ Signed(NBits(w), y) = -1

\* The overflow check of div_s stops exactly the least value divided by -1.
LEMMA OverflowRuns ==
    ASSUME NEW w \in Width, NEW b \in {"A", "B"}
    PROVE  /\ Overflow(w, "A", b) \in Seq(Rows)
           /\ \A s, t, e, free :
                 s["A"] \in Values(w) /\ s[b] \in Values(w) /\ Ends(Overflow(w, "A", b), s, t, e, free)
                 => /\ Keeps(s, t, {"T2", "T4"})
                    /\ e = IF Overflows(w, s["A"], s[b]) THEN "IntegerOverflow" ELSE "none"
<1> DEFINE p == 2^(NBits(w) - 1)
           q == 2^NBits(w) - 1
           r1 == AluImm("Eq", "T2", "A", p)
           r2 == AluImm("Eq", "T4", b, q)
           r3 == Alu("And", "T2", "T2", R("T4"))
           r4 == Assert("Eq", "IntegerOverflow", "T2", I(0))
<1>1. {"Eq", "And"} \subseteq AluOps /\ "IntegerOverflow" \in Failures
      /\ {"A", b, "T2", "T4"} \subseteq Registers /\ 0 \in Int
    BY RegistersAre DEF AluOps, Failures
<1>2. p \in Int /\ q \in Int  BY Widths, SignedValues DEF Values
<1>3. R("T4") \in Operands /\ I(0) \in Operands  BY <1>1, OperandsAre
<1>4. r1 \in AluRows /\ r2 \in AluRows /\ r3 \in AluRows /\ r4 \in Rows
  <2> HIDE DEF p, q
  <2> QED BY <1>1, <1>2, <1>3, RowsAre DEF Failures
<1>5. Overflow(w, "A", b) = <<r1, r2, r3>> \o <<r4>>  BY DEF Overflow
<1> HIDE DEF r1, r2, r3, r4
<1>6. <<r1, r2, r3>> \in Seq(Rows) /\ <<r4>> \in Seq(Rows)  BY <1>4, RowsAre, Tuples
<1>7. <<r1, r2, r3>> \o <<r4>> \in Seq(Rows)  BY <1>6, Tuples
<1>8. ASSUME NEW s, NEW t, NEW e, NEW free, s["A"] \in Values(w), s[b] \in Values(w),
             Ends(<<r1, r2, r3>> \o <<r4>>, s, t, e, free)
      PROVE  /\ Keeps(s, t, {"T2", "T4"})
             /\ e = IF Overflows(w, s["A"], s[b]) THEN "IntegerOverflow" ELSE "none"
  <2>1. \A u : Ends(<<r1, r2, r3>>, s, u, e, free) => e = "none"  BY <1>4, AluThree
  <2>2. PICK u : Ends(<<r1, r2, r3>>, s, u, "none", free) /\ Ends(<<r4>>, u, t, e, free)
      BY <1>6, <1>8, <2>1, EndsAfter
  <2>3. PICK c, d : Writes(r1, s, c) /\ Writes(r2, c, d) /\ Writes(r3, d, u)
      BY <1>4, <2>2, AluThree
  <2>4. PICK i \in {0, 1} : i = Bool(s["A"] = p)  BY DEF Bool
  <2>5. PICK j \in {0, 1} : j = Bool(s[b] = q)  BY DEF Bool
  <2>6. Sets(s, c, "T2", i)  BY <2>3, WritesAlu, <2>4, Evaluates DEF r1
  <2>7. Sets(c, d, "T4", j)  BY <2>3, WritesAlu, <1>1, <2>6, RegistersAre, <2>5, Evaluates DEF r2, Sets
  <2>8. Sets(d, u, "T2", i * j)
      BY <2>3, WritesAlu, <1>1, <2>6, <2>7, RegistersAre, AndBools, Evaluates DEF r3, Sets
  <2>9. t = u /\ (\/ e = "none" /\ Evaluate("Eq", u["T2"], Val(u, I(0))) = 1
                  \/ e = "IntegerOverflow" /\ Evaluate("Eq", u["T2"], Val(u, I(0))) # 1)
      BY <2>2, EndsOne, <1>1, AssertDoes DEF r4
  <2>10. u["T2"] = i * j /\ Val(u, I(0)) = 0  BY <2>8, WritesAlu DEF Sets
  <2>11. Evaluate("Eq", i * j, 0) = 1 <=> i * j = 0  BY Evaluates DEF Bool
  <2>12. i * j = 0 <=> ~(i = 1 /\ j = 1)
    <3>1. CASE i = 0  BY <3>1
    <3>2. CASE i = 1  BY <3>2
    <3> QED BY <3>1, <3>2
  <2>13. Overflows(w, s["A"], s[b]) <=> i = 1 /\ j = 1
      BY <1>8, SignedValues, <2>4, <2>5 DEF Bool, Overflows
  <2>14. Keeps(s, t, {"T2", "T4"})  BY <2>6, <2>7, <2>8, <2>9 DEF Keeps, Sets
  <2> QED BY <2>9, <2>10, <2>11, <2>12, <2>13, <2>14
<1>9. ASSUME NEW s, NEW t, NEW e, NEW free, s["A"] \in Values(w), s[b] \in Values(w),
             Ends(Overflow(w, "A", b), s, t, e, free)
      PROVE  /\ Keeps(s, t, {"T2", "T4"})
             /\ e = IF Overflows(w, s["A"], s[b]) THEN "IntegerOverflow" ELSE "none"
  <2>1. Ends(<<r1, r2, r3>> \o <<r4>>, s, t, e, free)  BY <1>5, <1>9, Zenon
  <2> QED BY <1>8, <1>9, <2>1
<1>10. Overflow(w, "A", b) \in Seq(Rows)  BY <1>5, <1>7, Zenon
<1> QED BY <1>9, <1>10

\* The row or rows that set T2 to a value of the result's sign.
SignRows(w, op, b) ==
    IF op = "DivS" THEN <<Alu("Xor", "T2", "A", R(b)), Widen(w, "T2", "T2")>>
    ELSE <<Widen(w, "T2", "A")>>

Negative(w, op, x, y) ==
    IF op = "DivS" THEN ~(Signed(NBits(w), x) < 0 <=> Signed(NBits(w), y) < 0)
    ELSE Signed(NBits(w), x) < 0

\* T2 ends negative exactly when the result has to be negated.
LEMMA SignRuns ==
    ASSUME NEW w \in Width, NEW op, NEW b \in {"A", "B"}
    PROVE  /\ SignRows(w, op, b) \in Seq(Rows)
           /\ \A s, t, e, free :
                 s["A"] \in Values(w) /\ s[b] \in Values(w) /\ Ends(SignRows(w, op, b), s, t, e, free)
                 => /\ e = "none" /\ Keeps(s, t, {"T2"})
                    /\ Signed(Bits, t["T2"]) < 0 <=> Negative(w, op, s["A"], s[b])
<1> DEFINE r1 == Alu("Xor", "T2", "A", R(b))
           r2 == Widen(w, "T2", "T2")
           r3 == Widen(w, "T2", "A")
<1>1. "Xor" \in AluOps /\ {"A", b, "T2"} \subseteq Registers  BY RegistersAre DEF AluOps
<1>2. R(b) \in Operands  BY <1>1, OperandsAre
<1>3. r1 \in AluRows /\ r2 \in AluRows /\ r3 \in AluRows  BY <1>1, <1>2, RowsAre, WidenRow
<1> HIDE DEF r1, r2, r3
<1>4. <<r1, r2>> \in Seq(Rows) /\ <<r3>> \in Seq(Rows)  BY <1>3, RowsAre, Tuples
<1>5. CASE op = "DivS"
  <2>1. SignRows(w, op, b) = <<r1, r2>>  BY <1>5 DEF SignRows, r1, r2
  <2>2. ASSUME NEW s, NEW t, NEW e, NEW free, s["A"] \in Values(w), s[b] \in Values(w),
               Ends(<<r1, r2>>, s, t, e, free)
        PROVE  /\ e = "none" /\ Keeps(s, t, {"T2"})
               /\ Signed(Bits, t["T2"]) < 0 <=> Negative(w, op, s["A"], s[b])
    <3>1. PICK u : e = "none" /\ Writes(r1, s, u) /\ Writes(r2, u, t)  BY <1>3, <2>2, AluTwo
    <3>2. PICK x, y : x = s["A"] /\ y = s[b] /\ x \in Values(w) /\ y \in Values(w)  BY <2>2
    <3>3. Sets(s, u, "T2", x ^^ y)  BY <3>1, WritesAlu, <3>2, Evaluates DEF r1
    <3>4. /\ (x ^^ y) \in Values(w)
          /\ (x ^^ y) >= 2^(NBits(w) - 1) <=> ~(x >= 2^(NBits(w) - 1) <=> y >= 2^(NBits(w) - 1))
      <4>1. NBits(w) \in Nat \ {0} /\ NBits(w) <= Bits  BY Widths
      <4> QED BY <3>2, <4>1, XorSign DEF Values
    <3>5. u["T2"] = x ^^ y  BY <3>3 DEF Sets
    <3>6. PICK v \in Word : Sets(u, t, "T2", v) /\ Signed(Bits, v) = Signed(NBits(w), x ^^ y)
        BY <1>1, <3>1, <3>4, <3>5, WidenRow DEF r2
    <3>7. Signed(NBits(w), x ^^ y) < 0 <=> (x ^^ y) >= 2^(NBits(w) - 1)  BY <3>4, SignedValues
    <3>8. /\ Signed(NBits(w), x) < 0 <=> x >= 2^(NBits(w) - 1)
          /\ Signed(NBits(w), y) < 0 <=> y >= 2^(NBits(w) - 1)
        BY <3>2, SignedValues
    <3>9. Signed(Bits, v) < 0 <=> Negative(w, op, x, y)
        BY <1>5, <3>4, <3>6, <3>7, <3>8 DEF Negative
    <3>10. Keeps(s, t, {"T2"}) /\ t["T2"] = v  BY <3>3, <3>6 DEF Keeps, Sets
    <3> QED BY <3>1, <3>2, <3>9, <3>10
  <2> QED BY <1>4, <2>1, <2>2
<1>6. CASE op # "DivS"
  <2>1. SignRows(w, op, b) = <<r3>>  BY <1>6 DEF SignRows, r3
  <2>2. ASSUME NEW s, NEW t, NEW e, NEW free, s["A"] \in Values(w), s[b] \in Values(w),
               Ends(<<r3>>, s, t, e, free)
        PROVE  /\ e = "none" /\ Keeps(s, t, {"T2"})
               /\ Signed(Bits, t["T2"]) < 0 <=> Negative(w, op, s["A"], s[b])
    <3>1. e = "none" /\ Writes(r3, s, t)  BY <1>3, <2>2, AluOne
    <3>2. PICK v \in Word : Sets(s, t, "T2", v) /\ Signed(Bits, v) = Signed(NBits(w), s["A"])
        BY <1>1, <2>2, <3>1, WidenRow DEF r3
    <3> QED BY <1>6, <3>1, <3>2 DEF Negative, Keeps, Sets
  <2> QED BY <1>4, <2>1, <2>2
<1> QED BY <1>5, <1>6

FinalRows(w, rd, mag) ==
    IF w = 64 THEN <<Alu("NegateIf", rd, "T2", R(mag))>>
    ELSE <<Alu("NegateIf", "T2", "T2", R(mag)), AluImm("LowerHalfWord", rd, "T2", 0)>>

\* The value NegateIf leaves is the signed value, modulo M.
LEMMA NegateValue ==
    ASSUME NEW c, NEW m \in Word, NEW v, v = (IF Signed(Bits, c) < 0 THEN -m ELSE m)
    PROVE  v \in Int /\ Evaluate("NegateIf", c, m) = v % M
<1>1. M \in Nat \ {0} /\ m \in 0 .. M - 1 /\ m \in Int /\ v \in Int  BY Sizes DEF Word
<1>2. Evaluate("NegateIf", c, m) = (IF Signed(Bits, c) < 0 THEN (-m) % M ELSE m)  BY Evaluates
<1>3. m % M = m  BY <1>1, RemainderSmall
<1> QED BY <1>1, <1>2, <1>3

Finals(w, rd, mag, s, t, e) ==
    /\ e = "none" /\ Keeps(s, t, {"T2", rd})
    /\ t[rd] = Unsigned(NBits(w), IF Signed(Bits, s["T2"]) < 0 THEN -s[mag] ELSE s[mag])

\* The last rows negate the magnitude where T2 is negative, and cut it at i32.
LEMMA FinalRuns ==
    ASSUME NEW w \in Width, NEW rd \in {"A", "B", "D"}, NEW mag \in {"T3", "T4"}
    PROVE  /\ FinalRows(w, rd, mag) \in Seq(Rows)
           /\ \A s, t, e, free :
                 s[mag] \in Word /\ Ends(FinalRows(w, rd, mag), s, t, e, free)
                 => Finals(w, rd, mag, s, t, e)
<1> DEFINE r1 == Alu("NegateIf", rd, "T2", R(mag))
           r2 == Alu("NegateIf", "T2", "T2", R(mag))
           r3 == AluImm("LowerHalfWord", rd, "T2", 0)
           V(s) == IF Signed(Bits, s["T2"]) < 0 THEN -s[mag] ELSE s[mag]
<1>1. {"NegateIf", "LowerHalfWord"} \subseteq AluOps /\ {rd, mag, "T2"} \subseteq Registers /\ 0 \in Int
    BY RegistersAre DEF AluOps
<1>2. R(mag) \in Operands  BY <1>1, OperandsAre
<1>3. r1 \in AluRows /\ r2 \in AluRows /\ r3 \in AluRows  BY <1>1, <1>2, RowsAre
<1> HIDE DEF r1, r2, r3
<1>4. <<r1>> \in Seq(Rows) /\ <<r2, r3>> \in Seq(Rows)  BY <1>3, RowsAre, Tuples
<1>5. CASE w = 64
  <2>1. FinalRows(w, rd, mag) = <<r1>> /\ NBits(w) = Bits  BY <1>5 DEF FinalRows, r1, NBits
  <2>2. ASSUME NEW s, NEW t, NEW e, NEW free, s[mag] \in Word, Ends(<<r1>>, s, t, e, free)
        PROVE  e = "none" /\ Keeps(s, t, {"T2", rd}) /\ t[rd] = Unsigned(Bits, V(s))
      BY <1>3, <2>2, AluOne, WritesAlu, NegateValue DEF r1, Unsigned, M, Sets, Keeps
  <2>3. ASSUME NEW s, NEW t, NEW e, NEW free, s[mag] \in Word, Ends(FinalRows(w, rd, mag), s, t, e, free)
        PROVE  Finals(w, rd, mag, s, t, e)
      BY <2>1, <2>2, <2>3, Zenon DEF Finals
  <2> QED BY <1>4, <2>1, <2>3
<1>6. CASE w = 32
  <2>1. FinalRows(w, rd, mag) = <<r2, r3>> /\ NBits(w) = H  BY <1>6 DEF FinalRows, r2, r3, NBits
  <2>2. ASSUME NEW s, NEW t, NEW e, NEW free, s[mag] \in Word, Ends(<<r2, r3>>, s, t, e, free)
        PROVE  e = "none" /\ Keeps(s, t, {"T2", rd}) /\ t[rd] = Unsigned(H, V(s))
    <3>1. PICK u : e = "none" /\ Writes(r2, s, u) /\ Writes(r3, u, t)  BY <1>3, <2>2, AluTwo
    <3>2. Sets(s, u, "T2", Evaluate("NegateIf", s["T2"], Val(s, R(mag))))
        BY <3>1, WritesAlu, Zenon DEF r2
    <3>3. Val(s, R(mag)) = s[mag]  BY WritesAlu
    <3>4. Evaluate("NegateIf", s["T2"], s[mag]) = V(s) % M /\ V(s) \in Int  BY <2>2, NegateValue
    <3>5. u["T2"] = V(s) % M  BY <3>2, <3>3, <3>4, Zenon DEF Sets
    <3>6. Sets(u, t, rd, Evaluate("LowerHalfWord", u["T2"], 0))  BY <3>1, WritesAlu, Zenon DEF r3
    <3>7. Evaluate("LowerHalfWord", u["T2"], 0) = V(s) % HalfM  BY <3>4, <3>5, LowerHalf
    <3>8. V(s) % HalfM = Unsigned(H, V(s))  BY DEF Unsigned, HalfM
    <3>9. t[rd] = Unsigned(H, V(s))  BY <3>6, <3>7, <3>8, Zenon DEF Sets
    <3>10. Keeps(s, t, {"T2", rd})  BY <3>2, <3>6 DEF Keeps, Sets
    <3> QED BY <3>1, <3>9, <3>10
  <2>3. ASSUME NEW s, NEW t, NEW e, NEW free, s[mag] \in Word, Ends(FinalRows(w, rd, mag), s, t, e, free)
        PROVE  Finals(w, rd, mag, s, t, e)
      BY <2>1, <2>2, <2>3, Zenon DEF Finals
  <2> QED BY <1>4, <2>1, <2>3
<1> QED BY <1>5, <1>6 DEF Width

-----------------------------------------------------------------------------
\* Signs and products.
LEMMA Negatives ==
    \A a, b \in Int : a * (-b) = -(a * b) /\ (-a) * b = -(a * b) /\ (-a) * (-b) = a * b
<1> QED  OBVIOUS

\* Signed division by magnitudes.
LEMMA SignedDivision ==
    ASSUME NEW x \in Int, NEW y \in Int, y # 0, NEW q, NEW r,
           q = Abs(x) \div Abs(y), r = Abs(x) % Abs(y)
    PROVE  /\ Truncated(x, y) = IF ~(x < 0 <=> y < 0) THEN -q ELSE q
           /\ x - y * Truncated(x, y) = IF x < 0 THEN -r ELSE r
<1>1. PICK a, b \in Nat : a = Abs(x) /\ b = Abs(y) /\ b # 0  BY DEF Abs
<1>2. PICK k, z \in Int : k = q /\ z = r /\ a = b * k + z
  <2>1. a \in Int /\ b \in Nat \ {0}  BY <1>1
  <2>2. PICK k, z \in Int : k = a \div b /\ z = a % b /\ a = b * k + z
    <3>1. a \div b \in Int /\ a % b \in 0 .. b - 1 /\ a = b * (a \div b) + (a % b)  BY <2>1, Parts
    <3>2. a % b \in Int  BY <2>1, <3>1
    <3> QED BY <3>1, <3>2, Zenon
  <2>3. k = q /\ z = r  BY <1>1, <2>2, Zenon
  <2> QED BY <2>2, <2>3
<1>3. Truncated(x, y) = IF (x < 0) = (y < 0) THEN k ELSE -k  BY <1>1, <1>2 DEF Truncated, Abs
<1>4. Truncated(x, y) = IF ~(x < 0 <=> y < 0) THEN -k ELSE k  BY <1>3
<1>5. PICK c \in Int : c = b * k  BY <1>1, <1>2
<1>6. b * (-k) = -c /\ (-b) * k = -c /\ (-b) * (-k) = c  BY <1>5, Negatives
<1>7. (y < 0 => y = -b) /\ (~(y < 0) => y = b) /\ (x < 0 => x = -a) /\ (~(x < 0) => x = a)
    BY <1>1 DEF Abs
<1>8. a = c + z  BY <1>2, <1>5
<1>9. x - y * Truncated(x, y) = IF x < 0 THEN -z ELSE z
  <2>1. CASE x < 0 /\ y < 0  BY <1>4, <1>6, <1>7, <2>1, <1>8
  <2>2. CASE x < 0 /\ ~(y < 0)  BY <1>4, <1>6, <1>7, <2>2, <1>8
  <2>3. CASE ~(x < 0) /\ y < 0  BY <1>4, <1>6, <1>7, <2>3, <1>8
  <2>4. CASE ~(x < 0) /\ ~(y < 0)  BY <1>4, <1>5, <1>7, <2>4, <1>8
  <2> QED BY <2>1, <2>2, <2>3, <2>4
<1> QED BY <1>2, <1>4, <1>9

\* The result of a signed operator, by magnitudes.
LEMMA SignedResult ==
    ASSUME NEW w \in Width, NEW op \in {"DivS", "RemS"}, NEW x \in Values(w), NEW y \in Values(w),
           y # 0, NEW q, NEW sx, NEW sy, sx = Signed(NBits(w), x), sy = Signed(NBits(w), y),
           q = IF op = "DivS" THEN Abs(sx) \div Abs(sy) ELSE Abs(sx) % Abs(sy)
    PROVE  WasmBinary(w, op, x, y) = Unsigned(NBits(w), IF Negative(w, op, x, y) THEN -q ELSE q)
<1>1. sx \in Int /\ sy \in Int /\ sy # 0  BY SignedValues
<1>2. /\ Truncated(sx, sy) = IF ~(sx < 0 <=> sy < 0) THEN -(Abs(sx) \div Abs(sy)) ELSE Abs(sx) \div Abs(sy)
      /\ sx - sy * Truncated(sx, sy) = IF sx < 0 THEN -(Abs(sx) % Abs(sy)) ELSE Abs(sx) % Abs(sy)
    BY <1>1, SignedDivision
<1>3. CASE op = "DivS"  BY <1>3, WasmIs, <1>2 DEF Negative
<1>4. CASE op = "RemS"  BY <1>4, WasmIs, <1>2 DEF Negative
<1> QED BY <1>3, <1>4

OverflowRows(w, op, b) == IF op = "DivS" THEN Overflow(w, "A", b) ELSE <<>>
Holds(op) == IF op = "DivS" THEN "T3" ELSE "T4"

Divided(w, op, rd, b) ==
    Nested(Magnitude(w, "T0", "A"), Magnitude(w, "T1", b), UnsignedDivmod(64, "T0", "T1"),
           SignRows(w, op, b), FinalRows(w, rd, Holds(op)))

\* emit_signed_divmod is a zero check, an overflow check and a division of
\* magnitudes.
LEMMA SignedPieces ==
    ASSUME NEW w \in Width, NEW op \in {"DivS", "RemS"}, NEW rd \in {"A", "B", "D"}, NEW b \in {"A", "B"}
    PROVE  /\ SignedDivmod(w, op, rd, "A", b)
                 = AssertNonzero(b) \o (OverflowRows(w, op, b) \o Divided(w, op, rd, b))
           /\ OverflowRows(w, op, b) \o Divided(w, op, rd, b) \in Seq(Rows)
           /\ Divided(w, op, rd, b) \in Seq(Rows)
<1> DEFINE p1 == AssertNonzero(b)
           p2 == OverflowRows(w, op, b)
           p3 == Magnitude(w, "T0", "A")
           p4 == Magnitude(w, "T1", b)
           p5 == UnsignedDivmod(64, "T0", "T1")
           p6 == SignRows(w, op, b)
           p7 == FinalRows(w, rd, Holds(op))
<1>1. b \in DivRegs /\ {"T0", "T1"} \subseteq DivRegs /\ 64 \in Width  BY DEF DivRegs, Width
<1>2. p1 \in Seq(Rows) /\ p5 \in Seq(Rows)  BY <1>1, DivmodTyped
<1>3. p2 \in Seq(Rows)  BY OverflowRuns, Tuples DEF OverflowRows
<1>4. p3 \in Seq(Rows) /\ p4 \in Seq(Rows)  BY MagnitudeRuns
<1>5. p6 \in Seq(Rows)  BY SignRuns
<1>6. p7 \in Seq(Rows)  BY FinalRuns DEF Holds
<1>7. SignedDivmod(w, op, rd, "A", b) = Chained(p1, p2, p3, p4, p5, p6, p7)
    BY Zenon DEF Chained, SignedDivmod, OverflowRows, SignRows, FinalRows, Holds
<1>10. Divided(w, op, rd, b) = Nested(p3, p4, p5, p6, p7)  BY Zenon DEF Divided
<1> HIDE DEF p1, p2, p3, p4, p5, p6, p7
<1>8. {p1, p2, p3, p4, p5, p6, p7} \subseteq Seq(Rows)  BY <1>2, <1>3, <1>4, <1>5, <1>6
<1>9. /\ Chained(p1, p2, p3, p4, p5, p6, p7) = p1 \o (p2 \o Nested(p3, p4, p5, p6, p7))
      /\ Nested(p3, p4, p5, p6, p7) \in Seq(Rows)
      /\ p2 \o Nested(p3, p4, p5, p6, p7) \in Seq(Rows)
    BY <1>8, AssociateSeven
<1> QED BY <1>7, <1>9, <1>10, Zenon DEF p1, p2

\* Past the overflow check wasm does not trap.
LEMMA OverflowFirst ==
    ASSUME NEW w \in Width, NEW op \in {"DivS", "RemS"}, NEW b \in {"A", "B"}, NEW q \in Seq(Rows),
           NEW s, s["A"] \in Values(w), s[b] \in Values(w), s[b] # 0,
           NEW t, NEW e, NEW free, Ends(OverflowRows(w, op, b) \o q, s, t, e, free)
    PROVE  \/ e = "IntegerOverflow" /\ WasmTrap(w, op, s["A"], s[b]) = "IntegerOverflow"
           \/ \E u : /\ Keeps(s, u, {"T2", "T4"}) /\ Ends(q, u, t, e, free)
                     /\ WasmTrap(w, op, s["A"], s[b]) = "none"
<1>1. WasmTrap(w, op, s["A"], s[b])
         = IF op = "DivS" /\ Overflows(w, s["A"], s[b]) THEN "IntegerOverflow" ELSE "none"
    BY DEF WasmTrap, Overflows
<1>2. CASE op = "DivS"
  <2>1. Overflow(w, "A", b) \in Seq(Rows)  BY OverflowRuns
  <2>2. Ends(Overflow(w, "A", b) \o q, s, t, e, free)  BY <1>2 DEF OverflowRows
  <2>3. CASE e # "none" /\ Ends(Overflow(w, "A", b), s, t, e, free)  BY <2>3, OverflowRuns, <1>1, <1>2
  <2>4. CASE \E u : Ends(Overflow(w, "A", b), s, u, "none", free) /\ Ends(q, u, t, e, free)
    <3>1. PICK u : Ends(Overflow(w, "A", b), s, u, "none", free) /\ Ends(q, u, t, e, free)  BY <2>4
    <3>2. /\ Keeps(s, u, {"T2", "T4"})
          /\ "none" = IF Overflows(w, s["A"], s[b]) THEN "IntegerOverflow" ELSE "none"
        BY <3>1, OverflowRuns
    <3>3. ~Overflows(w, s["A"], s[b])  BY <3>2
    <3> QED BY <1>1, <3>1, <3>2, <3>3
  <2> QED BY <2>1, <2>2, <2>3, <2>4, EndsJoin
<1>3. CASE op # "DivS"  BY <1>3, EndsAfterNone, <1>1 DEF OverflowRows, Keeps
<1> QED BY <1>2, <1>3

Divides(w, op, rd, b, free, s, t, e) ==
    /\ ~free => e = "none"
    /\ e = "none" => t[rd] = WasmBinary(w, op, s["A"], s[b]) /\ Keeps(s, t, Temps \cup {rd})

\* The rows of a signed division past its checks.
LEMMA SignedRest ==
    ASSUME NEW w \in Width, NEW op \in {"DivS", "RemS"}, NEW rd \in {"A", "B", "D"}, NEW b \in {"A", "B"},
           NEW s, s["A"] \in Values(w), s[b] \in Values(w), s[b] # 0,
           NEW t, NEW e, NEW free \in BOOLEAN,
           Ends(Divided(w, op, rd, b), s, t, e, free)
    PROVE  Divides(w, op, rd, b, free, s, t, e)
<1> DEFINE p3 == Magnitude(w, "T0", "A")
           p4 == Magnitude(w, "T1", b)
           p5 == UnsignedDivmod(64, "T0", "T1")
           p6 == SignRows(w, op, b)
           p7 == FinalRows(w, rd, Holds(op))
<1>1. b \in DivRegs /\ {"T0", "T1"} \subseteq DivRegs /\ 64 \in Width /\ Holds(op) \in {"T3", "T4"}
    BY DEF DivRegs, Width, Holds
<1>2. p3 \in Seq(Rows) /\ p4 \in Seq(Rows) /\ p5 \in Seq(Rows) /\ p6 \in Seq(Rows) /\ p7 \in Seq(Rows)
    BY <1>1, MagnitudeRuns, DivmodTyped, SignRuns, FinalRuns
<1>0. PICK x, y : x = s["A"] /\ y = s[b] /\ x \in Values(w) /\ y \in Values(w) /\ y # 0  OBVIOUS
<1>3. PICK sx, sy : sx = Signed(NBits(w), x) /\ sy = Signed(NBits(w), y)  OBVIOUS
<1>4. Abs(sx) \in Nat /\ Abs(sy) \in Nat /\ Abs(sy) # 0  BY <1>0, <1>3, SignedValues DEF Abs
<1>5. /\ \A q, u, v, f : u["A"] = x /\ Ends(p3, u, v, q, f)
                => q = "none" /\ Sets(u, v, "T0", Abs(sx)) /\ v["T0"] \in Word
      /\ \A q, u, v, f : u[b] = y /\ Ends(p4, u, v, q, f)
                => q = "none" /\ Sets(u, v, "T1", Abs(sy)) /\ v["T1"] \in Word
    BY <1>0, <1>3, MagnitudeRuns
<1>6. \A q, u, v, f : u["A"] = x /\ u[b] = y /\ Ends(p6, u, v, q, f)
                => /\ q = "none" /\ Keeps(u, v, {"T2"})
                   /\ Signed(Bits, v["T2"]) < 0 <=> Negative(w, op, x, y)
    BY <1>0, SignRuns
<1>7. \A q, u, v, f : u[Holds(op)] \in Word /\ Ends(p7, u, v, q, f)
                => Finals(w, rd, Holds(op), u, v, q)
    BY <1>1, FinalRuns
<1>8. ASSUME NEW u, NEW v, NEW f \in BOOLEAN, u["T0"] \in Word, u["T1"] \in Word, u["T1"] # 0,
             Ends(p5, u, v, "none", f)
      PROVE  /\ v["T3"] = u["T0"] \div u["T1"] /\ v["T4"] = u["T0"] % u["T1"]
             /\ Keeps(u, v, {"T2", "T3", "T4"})
    BY <1>1, <1>8, DivmodRuns
<1>9. ASSUME NEW u, NEW v, NEW q, NEW f \in BOOLEAN, ~f, u["T0"] \in Word, u["T1"] \in Word,
             u["T1"] # 0, Ends(p5, u, v, q, f)
      PROVE  q = "none"
    BY <1>1, <1>9, DivmodRuns
<1>10. p6 \o p7 \in Seq(Rows)  BY <1>2, Tuples
<1>11. p5 \o (p6 \o p7) \in Seq(Rows)  BY <1>2, <1>10, Tuples
<1>12. p4 \o (p5 \o (p6 \o p7)) \in Seq(Rows)  BY <1>2, <1>11, Tuples
<1>13. Ends(p3 \o (p4 \o (p5 \o (p6 \o p7))), s, t, e, free)  BY Zenon DEF Nested, Divided
<1> HIDE DEF p3, p4, p5, p6, p7
<1>14. PICK u : Ends(p3, s, u, "none", free) /\ Ends(p4 \o (p5 \o (p6 \o p7)), u, t, e, free)
  <2>1. \A v : Ends(p3, s, v, e, free) => e = "none"  BY <1>0, <1>5
  <2> QED BY <1>2, <1>12, <1>13, <2>1, EndsAfter
<1>15. Sets(s, u, "T0", Abs(sx)) /\ u["T0"] \in Word  BY <1>0, <1>5, <1>14
<1>16. u["A"] = x /\ u[b] = y /\ u["T0"] = Abs(sx)  BY <1>0, <1>15, RegistersAre DEF Sets
<1>17. PICK v : Ends(p4, u, v, "none", free) /\ Ends(p5 \o (p6 \o p7), v, t, e, free)
  <2>1. \A z : Ends(p4, u, z, e, free) => e = "none"  BY <1>5, <1>16
  <2> QED BY <1>2, <1>11, <1>14, <2>1, EndsAfter
<1>18. Sets(u, v, "T1", Abs(sy)) /\ v["T1"] \in Word  BY <1>5, <1>16, <1>17
<1>19. /\ v["A"] = x /\ v[b] = y /\ v["T0"] = Abs(sx) /\ v["T1"] = Abs(sy)
       /\ v["T0"] \in Word /\ v["T1"] # 0
    BY <1>4, <1>15, <1>16, <1>18, RegistersAre DEF Sets
<1>20. Keeps(s, v, Temps)  BY <1>15, <1>18 DEF Keeps, Sets, Temps
<1>21. CASE e # "none" /\ Ends(p5, v, t, e, free)  BY <1>9, <1>18, <1>19, <1>21 DEF Divides
<1>22. CASE \E z : Ends(p5, v, z, "none", free) /\ Ends(p6 \o p7, z, t, e, free)
  <2>1. PICK z : Ends(p5, v, z, "none", free) /\ Ends(p6 \o p7, z, t, e, free)  BY <1>22
  <2>2. /\ z["T3"] = Abs(sx) \div Abs(sy) /\ z["T4"] = Abs(sx) % Abs(sy)
        /\ Keeps(v, z, {"T2", "T3", "T4"})
      BY <1>8, <1>18, <1>19, <2>1
  <2>3. z["A"] = x /\ z[b] = y  BY <1>19, <2>2, RegistersAre DEF Keeps
  <2>4. PICK q : q = z[Holds(op)]  OBVIOUS
  <2>5. q = IF op = "DivS" THEN Abs(sx) \div Abs(sy) ELSE Abs(sx) % Abs(sy)  BY <2>2, <2>4 DEF Holds
  <2>6. q \in Word
    <3>1. Abs(sx) \in Word /\ Abs(sy) \in Word  BY <1>18, <1>19
    <3>2. Abs(sx) \div Abs(sy) \in Word  BY <1>4, <3>1, HonestIs
    <3>3. Abs(sx) % Abs(sy) \in 0 .. Abs(sy) - 1  BY <1>4, Parts
    <3>4. Abs(sx) % Abs(sy) \in Word  BY <1>4, <3>1, <3>3, Sizes DEF Word
    <3> QED BY <2>5, <3>2, <3>4
  <2>7. PICK k : Ends(p6, z, k, "none", free) /\ Ends(p7, k, t, e, free)
      BY <1>6, <2>3, <1>2, <2>1, EndsAfter
  <2>8. Keeps(z, k, {"T2"}) /\ (Signed(Bits, k["T2"]) < 0 <=> Negative(w, op, x, y))
      BY <1>6, <2>3, <2>7
  <2>9. k[Holds(op)] = q  BY <2>4, <2>8, RegistersAre DEF Keeps, Holds
  <2>10. /\ e = "none" /\ Keeps(k, t, {"T2", rd})
         /\ t[rd] = Unsigned(NBits(w), IF Signed(Bits, k["T2"]) < 0 THEN -q ELSE q)
      BY <1>7, <2>6, <2>7, <2>9 DEF Finals
  <2>11. WasmBinary(w, op, x, y) = Unsigned(NBits(w), IF Negative(w, op, x, y) THEN -q ELSE q)
      BY <1>0, <1>3, <2>5, SignedResult
  <2>12. t[rd] = WasmBinary(w, op, x, y)  BY <2>8, <2>10, <2>11
  <2>13. Keeps(s, t, Temps \cup {rd})  BY <1>20, <2>2, <2>8, <2>10 DEF Keeps, Temps
  <2> QED BY <1>0, <2>10, <2>12, <2>13 DEF Divides
<1> QED BY <1>2, <1>10, <1>17, <1>21, <1>22, EndsJoin

\* DivS and RemS end as wasm says.
LEMMA SignedRuns ==
    ASSUME NEW w \in Width, NEW op \in {"DivS", "RemS"}, NEW rd \in {"A", "B", "D"}, NEW b \in {"A", "B"},
           NEW s, s["A"] \in Values(w), s[b] \in Values(w),
           NEW t, NEW e, NEW free \in BOOLEAN, Ends(SignedDivmod(w, op, rd, "A", b), s, t, e, free)
    PROVE  Good(op, w, rd, s["A"], s[b], free, s, t, e)
<1> DEFINE rest == Divided(w, op, rd, b)
<1>1. /\ Ends(AssertNonzero(b) \o (OverflowRows(w, op, b) \o rest), s, t, e, free)
      /\ OverflowRows(w, op, b) \o rest \in Seq(Rows) /\ rest \in Seq(Rows)
  <2>1. /\ SignedDivmod(w, op, rd, "A", b) = AssertNonzero(b) \o (OverflowRows(w, op, b) \o rest)
        /\ OverflowRows(w, op, b) \o rest \in Seq(Rows) /\ rest \in Seq(Rows)
      BY SignedPieces, Zenon
  <2> HIDE DEF rest
  <2> QED BY <2>1, Zenon
<1>2. ASSUME NEW u, u["A"] = s["A"], u[b] = s[b], s[b] # 0, Ends(rest, u, t, e, free)
      PROVE  Divides(w, op, rd, b, free, u, t, e)
    BY <1>2, SignedRest
<1> HIDE DEF rest
<1>3. ~Loose(op, w, free)  BY DEF Loose
<1>4. b \in DivRegs  BY DEF DivRegs
<1>5. CASE s[b] = 0  BY <1>1, <1>4, <1>5, NonzeroFirst DEF WasmTrap, Division, Good
<1>6. CASE s[b] # 0
  <2>1. Ends(OverflowRows(w, op, b) \o rest, s, t, e, free)  BY <1>1, <1>4, <1>6, NonzeroFirst
  <2>2. \/ e = "IntegerOverflow" /\ WasmTrap(w, op, s["A"], s[b]) = "IntegerOverflow"
        \/ \E u : /\ Keeps(s, u, {"T2", "T4"}) /\ Ends(rest, u, t, e, free)
                  /\ WasmTrap(w, op, s["A"], s[b]) = "none"
      BY <1>1, <1>6, <2>1, OverflowFirst
  <2>3. CASE e = "IntegerOverflow" /\ WasmTrap(w, op, s["A"], s[b]) = "IntegerOverflow"  BY <2>3 DEF Good
  <2>4. CASE \E u : /\ Keeps(s, u, {"T2", "T4"}) /\ Ends(rest, u, t, e, free)
                    /\ WasmTrap(w, op, s["A"], s[b]) = "none"
    <3>1. PICK u : /\ Keeps(s, u, {"T2", "T4"}) /\ Ends(rest, u, t, e, free)
                   /\ WasmTrap(w, op, s["A"], s[b]) = "none"
        BY <2>4
    <3>2. u["A"] = s["A"] /\ u[b] = s[b]  BY <3>1, RegistersAre DEF Keeps
    <3>3. /\ ~free => e = "none"
          /\ e = "none" => t[rd] = WasmBinary(w, op, s["A"], s[b]) /\ Keeps(u, t, Temps \cup {rd})
        BY <1>2, <1>6, <3>1, <3>2 DEF Divides
    <3>4. e = "none" => Keeps(s, t, Temps \cup {rd})  BY <3>1, <3>3 DEF Keeps, Temps
    <3> QED BY <3>1, <3>3, <3>4 DEF Good
  <2> QED BY <2>2, <2>3, <2>4
<1> QED BY <1>5, <1>6

\* emit_binary for the operators that take an immediate as their operand,
LEMMA EmitDirect ==
    ASSUME NEW w, NEW rd, NEW b
    PROVE  /\ \A op \in Direct : EmitBinary(w, op, rd, "A", b) = <<Alu(At(w, op), rd, "A", b)>>
           /\ \A op \in Plain : EmitBinary(w, op, rd, "A", b) = <<Alu(op, rd, "A", b)>>
<1> QED BY DEF EmitBinary, Direct, Plain

\* An operand of emit_binary that is not an immediate.
LEMMA RegisterOperand ==
    ASSUME NEW l \in {"A", "B"}
    PROVE  R(l).reg = l /\ R(l).kind = "reg" /\ R(l) \in Operands /\ (\A s : Val(s, R(l)) = s[l])
<1>1. l \in Registers  BY RegistersAre
<1> QED BY <1>1, OperandsAre, WritesAlu DEF R

\* and for those that take a register.
LEMMA EmitRegister ==
    ASSUME NEW w, NEW rd, NEW l \in {"A", "B"}
    PROVE  /\ EmitBinary(w, "GtU", rd, "A", R(l)) = <<Alu("LtU", rd, l, R("A"))>>
           /\ EmitBinary(w, "LtS", rd, "A", R(l)) = Compare(w, "LtS", FALSE, rd, "A", l)
           /\ EmitBinary(w, "GtS", rd, "A", R(l)) = Compare(w, "LtS", TRUE, rd, "A", l)
           /\ EmitBinary(w, "LeS", rd, "A", R(l)) = Compare(w, "GeS", TRUE, rd, "A", l)
           /\ EmitBinary(w, "GeS", rd, "A", R(l)) = Compare(w, "GeS", FALSE, rd, "A", l)
           /\ EmitBinary(w, "Shl", rd, "A", R(l)) = Shl(w, rd, "A", l)
           /\ EmitBinary(w, "ShrU", rd, "A", R(l)) = ShrU(w, rd, "A", l)
           /\ EmitBinary(w, "ShrS", rd, "A", R(l)) = ShrS(w, rd, "A", l)
           /\ EmitBinary(w, "Rotl", rd, "A", R(l)) = Rotl(w, rd, "A", l)
           /\ EmitBinary(w, "Rotr", rd, "A", R(l)) = Rotr(w, rd, "A", l)
           /\ EmitBinary(w, "DivU", rd, "A", R(l)) = Unsigned_(w, rd, "T3", "A", l)
           /\ EmitBinary(w, "RemU", rd, "A", R(l)) = Unsigned_(w, rd, "T4", "A", l)
           /\ EmitBinary(w, "DivS", rd, "A", R(l)) = SignedDivmod(w, "DivS", rd, "A", l)
           /\ EmitBinary(w, "RemS", rd, "A", R(l)) = SignedDivmod(w, "RemS", rd, "A", l)
<1>1. R(l).reg = l  BY RegisterOperand
<1>2. /\ EmitBinary(w, "GtU", rd, "A", R(l)) = <<Alu("LtU", rd, l, R("A"))>>
      /\ EmitBinary(w, "LtS", rd, "A", R(l)) = Compare(w, "LtS", FALSE, rd, "A", l)
      /\ EmitBinary(w, "GtS", rd, "A", R(l)) = Compare(w, "LtS", TRUE, rd, "A", l)
      /\ EmitBinary(w, "LeS", rd, "A", R(l)) = Compare(w, "GeS", TRUE, rd, "A", l)
      /\ EmitBinary(w, "GeS", rd, "A", R(l)) = Compare(w, "GeS", FALSE, rd, "A", l)
    BY <1>1 DEF EmitBinary, Direct, Plain
<1>3. /\ EmitBinary(w, "Shl", rd, "A", R(l)) = Shl(w, rd, "A", l)
      /\ EmitBinary(w, "ShrU", rd, "A", R(l)) = ShrU(w, rd, "A", l)
      /\ EmitBinary(w, "ShrS", rd, "A", R(l)) = ShrS(w, rd, "A", l)
      /\ EmitBinary(w, "Rotl", rd, "A", R(l)) = Rotl(w, rd, "A", l)
      /\ EmitBinary(w, "Rotr", rd, "A", R(l)) = Rotr(w, rd, "A", l)
    BY <1>1 DEF EmitBinary, Direct, Plain
<1>4. /\ EmitBinary(w, "DivU", rd, "A", R(l)) = Unsigned_(w, rd, "T3", "A", l)
      /\ EmitBinary(w, "RemU", rd, "A", R(l)) = Unsigned_(w, rd, "T4", "A", l)
      /\ EmitBinary(w, "DivS", rd, "A", R(l)) = SignedDivmod(w, "DivS", rd, "A", l)
      /\ EmitBinary(w, "RemS", rd, "A", R(l)) = SignedDivmod(w, "RemS", rd, "A", l)
    BY <1>1 DEF EmitBinary, Direct, Plain
<1> QED BY <1>2, <1>3, <1>4

\* The rows of every operator but a division end, and never in a trap.
LEMMA GivesGood ==
    ASSUME NEW w, NEW op \in Binary \ Division, NEW rd, NEW x, NEW y, NEW free, NEW s, NEW t, NEW e,
           Gives(s, t, e, rd, WasmBinary(w, op, x, y))
    PROVE  Good(op, w, rd, x, y, free, s, t, e)
<1>1. WasmTrap(w, op, x, y) = "none"  BY DEF WasmTrap, Division
<1> QED BY <1>1 DEF Good, Gives

Settled(w, rd, l, s, free) ==
    /\ w \in Width /\ rd \in {"A", "B", "D"} /\ l \in {"A", "B"} /\ free \in BOOLEAN
    /\ s["ZERO"] = 0 /\ s["A"] \in Values(w) /\ s[l] \in Values(w)

\* The comparisons of emit_binary.
LEMMA CompareGives ==
    ASSUME NEW w, NEW rd, NEW l, NEW s, NEW free, Settled(w, rd, l, s, free),
           NEW op \in {"GtU", "LtS", "GtS", "LeS", "GeS"},
           NEW t, NEW e, Ends(EmitBinary(w, op, rd, "A", R(l)), s, t, e, free)
    PROVE  Gives(s, t, e, rd, WasmBinary(w, op, s["A"], s[l]))
<1>1. /\ w \in Width /\ rd \in {"A", "B", "D"} /\ l \in {"A", "B"}
      /\ s["A"] \in Values(w) /\ s[l] \in Values(w) /\ R(l).reg = l
    BY RegisterOperand DEF Settled
<1>2. rd \in Registers \ {"ZERO"} /\ l \in Registers /\ "LtU" \in AluOps /\ R("A") \in Operands
    BY <1>1, RegistersAre, OperandsAre DEF AluOps
<1>3. PICK sx, sy : sx = Signed(NBits(w), s["A"]) /\ sy = Signed(NBits(w), s[l])  OBVIOUS
<1>4. sx \in Int /\ sy \in Int /\ s["A"] \in Int /\ s[l] \in Int
    BY <1>1, <1>3, SignedValues, ValueInt
<1>5. /\ WasmBinary(w, "GtU", s["A"], s[l]) = Bool(s["A"] > s[l])
      /\ WasmBinary(w, "LtS", s["A"], s[l]) = Bool(sx < sy)
      /\ WasmBinary(w, "GtS", s["A"], s[l]) = Bool(sx > sy)
      /\ WasmBinary(w, "LeS", s["A"], s[l]) = Bool(sx <= sy)
      /\ WasmBinary(w, "GeS", s["A"], s[l]) = Bool(sx >= sy)
    BY <1>3, WasmIs
<1>6. CASE op = "GtU"
  <2>1. Ends(<<Alu("LtU", rd, l, R("A"))>>, s, t, e, free)  BY <1>1, <1>6, EmitRegister
  <2>2. Gives(s, t, e, rd, Evaluate("LtU", s[l], Val(s, R("A"))))  BY <1>2, <2>1, OneRowGives
  <2>3. Evaluate("LtU", s[l], s["A"]) = Bool(s[l] < s["A"]) /\ Val(s, R("A")) = s["A"]
      BY Evaluates, WritesAlu
  <2>4. Bool(s[l] < s["A"]) = Bool(s["A"] > s[l])  BY <1>4 DEF Bool
  <2> QED BY <1>5, <1>6, <2>2, <2>3, <2>4
<1>7. CASE op = "LtS"
  <2>1. Ends(Compare(w, "LtS", FALSE, rd, "A", l), s, t, e, free)  BY <1>1, <1>7, EmitRegister
  <2>2. Gives(s, t, e, rd, Compared("LtS", sx, sy))  BY <1>1, <1>2, <1>3, <2>1, CompareRuns
  <2>3. Compared("LtS", sx, sy) = Bool(sx < sy)  BY DEF Compared
  <2> QED BY <1>5, <1>7, <2>2, <2>3
<1>8. CASE op = "GtS"
  <2>1. Ends(Compare(w, "LtS", TRUE, rd, "A", l), s, t, e, free)  BY <1>1, <1>8, EmitRegister
  <2>2. Gives(s, t, e, rd, Compared("LtS", sy, sx))  BY <1>1, <1>2, <1>3, <2>1, CompareRuns
  <2>3. Compared("LtS", sy, sx) = Bool(sx > sy)  BY <1>4 DEF Compared, Bool
  <2> QED BY <1>5, <1>8, <2>2, <2>3
<1>9. CASE op = "LeS"
  <2>1. Ends(Compare(w, "GeS", TRUE, rd, "A", l), s, t, e, free)  BY <1>1, <1>9, EmitRegister
  <2>2. Gives(s, t, e, rd, Compared("GeS", sy, sx))  BY <1>1, <1>2, <1>3, <2>1, CompareRuns
  <2>3. Compared("GeS", sy, sx) = Bool(sx <= sy)  BY <1>4 DEF Compared, Bool
  <2> QED BY <1>5, <1>9, <2>2, <2>3
<1>10. CASE op = "GeS"
  <2>1. Ends(Compare(w, "GeS", FALSE, rd, "A", l), s, t, e, free)  BY <1>1, <1>10, EmitRegister
  <2>2. Gives(s, t, e, rd, Compared("GeS", sx, sy))  BY <1>1, <1>2, <1>3, <2>1, CompareRuns
  <2>3. Compared("GeS", sx, sy) = Bool(sx >= sy)  BY DEF Compared
  <2> QED BY <1>5, <1>10, <2>2, <2>3
<1> QED BY <1>6, <1>7, <1>8, <1>9, <1>10

\* The shifts and rotations of emit_binary.
LEMMA ShiftGives ==
    ASSUME NEW w, NEW rd, NEW l, NEW s, NEW free, Settled(w, rd, l, s, free),
           NEW op \in {"Shl", "ShrU", "ShrS", "Rotl", "Rotr"},
           NEW t, NEW e, Ends(EmitBinary(w, op, rd, "A", R(l)), s, t, e, free)
    PROVE  Gives(s, t, e, rd, WasmBinary(w, op, s["A"], s[l]))
<1>1. /\ w \in Width /\ rd \in {"A", "B", "D"} /\ l \in {"A", "B"}
      /\ s["ZERO"] = 0 /\ s["A"] \in Values(w) /\ s[l] \in Values(w)
    BY DEF Settled
<1>2. CASE op = "Shl"  BY <1>1, <1>2, EmitRegister, ShlRuns
<1>3. CASE op = "ShrU"  BY <1>1, <1>3, EmitRegister, ShrURuns
<1>4. CASE op = "ShrS"  BY <1>1, <1>4, EmitRegister, ShrSRuns
<1>5. CASE op = "Rotl"  BY <1>1, <1>5, EmitRegister, RotlRuns
<1>6. CASE op = "Rotr"
  <2>1. Ends(Rotr(w, rd, "A", l), s, t, e, free)  BY <1>1, <1>6, EmitRegister
  <2>2. s[l] \in Word  BY <1>1, ValueInt
  <2>3. Gives(s, t, e, rd, Rotated(NBits(w), s["A"], s[l] % NBits(w)))
      BY <1>1, <2>1, <2>2, RotrRuns
  <2>4. PICK n, k, x : n = NBits(w) /\ k = s[l] % n /\ x = s["A"]  OBVIOUS
  <2>5. n \in Nat /\ k \in 0 .. n - 1 /\ x \in Int  BY <1>1, <2>2, <2>4, Widths, Counts, ValueInt
  <2>6. (x * 2^(n - k)) % 2^n = (x % 2^k) * 2^(n - k)  BY <2>5, RotatedIs
  <2>7. WasmBinary(w, "Rotr", s["A"], s[l]) = x \div 2^k + ((x * 2^(n - k)) % 2^n)  BY <2>4, WasmIs
  <2>8. WasmBinary(w, "Rotr", s["A"], s[l]) = Rotated(n, x, k)  BY <2>6, <2>7, Zenon DEF Rotated
  <2> QED BY <1>6, <2>3, <2>4, <2>8, Zenon
<1> QED BY <1>2, <1>3, <1>4, <1>5, <1>6

\* The divisions of emit_binary.
LEMMA DivisionGood ==
    ASSUME NEW w, NEW rd, NEW l, NEW s, NEW free, Settled(w, rd, l, s, free), NEW op \in Division,
           NEW t, NEW e, Ends(EmitBinary(w, op, rd, "A", R(l)), s, t, e, free)
    PROVE  Good(op, w, rd, s["A"], s[l], free, s, t, e)
<1>1. /\ w \in Width /\ rd \in {"A", "B", "D"} /\ l \in {"A", "B"} /\ free \in BOOLEAN
      /\ s["ZERO"] = 0 /\ s["A"] \in Values(w) /\ s[l] \in Values(w)
    BY DEF Settled
<1>2. CASE op = "DivU"
  <2>1. Ends(Unsigned_(w, rd, "T3", "A", l), s, t, e, free)  BY <1>1, <1>2, EmitRegister
  <2> QED BY <1>1, <1>2, <2>1, UnsignedRuns
<1>3. CASE op = "RemU"
  <2>1. Ends(Unsigned_(w, rd, "T4", "A", l), s, t, e, free)  BY <1>1, <1>3, EmitRegister
  <2> QED BY <1>1, <1>3, <2>1, UnsignedRuns
<1>4. CASE op = "DivS"  BY <1>1, <1>4, EmitRegister, SignedRuns
<1>5. CASE op = "RemS"  BY <1>1, <1>5, EmitRegister, SignedRuns
<1> QED BY <1>2, <1>3, <1>4, <1>5 DEF Division

\* The operators of one row, on a register or an immediate.
LEMMA DirectGives ==
    ASSUME NEW w \in Width, NEW rd \in {"A", "B", "D"}, NEW b \in Operands, NEW s, NEW free,
           s["A"] \in Values(w), Val(s, b) \in Values(w), NEW op, TakesImmediate(op),
           NEW t, NEW e, Ends(EmitBinary(w, op, rd, "A", b), s, t, e, free)
    PROVE  Gives(s, t, e, rd, WasmBinary(w, op, s["A"], Val(s, b)))
<1>1. rd \in Registers /\ "A" \in Registers  BY RegistersAre
<1>2. CASE op \in Direct  BY <1>2, EmitDirect, DirectValue, <1>1, OneRowGives
<1>3. CASE op \in Plain  BY <1>3, EmitDirect, PlainValue, <1>1, OneRowGives
<1> QED BY <1>2, <1>3 DEF TakesImmediate

\* Every binary operator, at both widths, on operands that may be one register
\* or an immediate, into any register.
LEMMA BinaryRuns ==
    ASSUME NEW w \in Width, NEW op \in Binary, NEW rd \in {"A", "B", "D"},
           NEW b, NEW y, \/ b \in {R("A"), R("B")} \/ (b = I(y) /\ TakesImmediate(op)),
           NEW s, s["ZERO"] = 0, s["A"] \in Values(w), y = Val(s, b), y \in Values(w),
           NEW free \in BOOLEAN,
           NEW t, NEW e, Ends(EmitBinary(w, op, rd, "A", b), s, t, e, free)
    PROVE  Good(op, w, rd, s["A"], y, free, s, t, e)
<1>1. CASE TakesImmediate(op)
    BY ValueInt, RegistersAre, OperandsAre, <1>1, DirectGives, GivesGood DEF TakesImmediate, Direct,
       Plain, Division
<1>2. CASE ~TakesImmediate(op)
  <2>1. PICK l \in {"A", "B"} : b = R(l)  BY <1>2
  <2>2. y = s[l] /\ Settled(w, rd, l, s, free)  BY <2>1, RegisterOperand DEF Settled
  <2>3. Ends(EmitBinary(w, op, rd, "A", R(l)), s, t, e, free)  BY <2>1
  <2>4. CASE op \in Division  BY <2>2, <2>3, <2>4, DivisionGood
  <2>5. CASE op \in {"Shl", "ShrU", "ShrS", "Rotl", "Rotr"}
      BY <2>2, <2>3, <2>5, ShiftGives, GivesGood DEF Division
  <2>6. CASE op \in {"GtU", "LtS", "GtS", "LeS", "GeS"}
      BY <2>2, <2>3, <2>6, CompareGives, GivesGood DEF Division
  <2> QED BY <1>2, <2>4, <2>5, <2>6 DEF Binary, TakesImmediate, Division
<1> QED BY <1>1, <1>2

\* What is emitted is rows: a sign extension,
LEMMA SignExtendTyped ==
    ASSUME NEW w \in Width, NEW rd \in {"A", "D"}, NEW bits \in 1 .. H
    PROVE  SignExtend(w, rd, "A", bits) \in Seq(Rows)
<1> DEFINE up == Bits - bits
           target == IF w = 64 THEN rd ELSE "T0"
           r1 == AluImm("Mul64", target, "A", 2^up)
           r2 == AluImm("Sra", target, target, ShiftMask(up))
           r3 == AluImm("LowerHalfWord", rd, "T0", 0)
           last == IF w = 64 THEN <<>> ELSE <<r3>>
<1>1. up \in Nat /\ up <= Bits  BY Sizes
<1>2. 2^up \in Int  BY <1>1, PowerPositive
<1>3. ShiftMask(up) \in Int
  <2>1. Bits - up \in Nat  BY <1>1, Sizes
  <2>2. PICK a, b \in Nat : a = 2^(Bits - up) /\ b = 2^up  BY <1>1, <2>1, PowerPositive
  <2>3. (a - 1) * b \in Int  BY <2>2
  <2> QED BY <2>2, <2>3 DEF ShiftMask
<1>4. {"Mul64", "Sra", "LowerHalfWord"} \subseteq AluOps /\ "T0" \in Registers /\ rd \in Registers
      /\ target \in Registers \ {"ZERO"} /\ "A" \in Registers /\ 0 \in Int
    BY RegistersAre DEF AluOps
<1>5. SignExtend(w, rd, "A", bits) = <<r1, r2>> \o last  BY Zenon DEF SignExtend
<1> HIDE DEF target, up
<1>6. r1 \in Rows /\ r2 \in Rows /\ r3 \in Rows  BY <1>2, <1>3, <1>4, RowsAre
<1> HIDE DEF r1, r2, r3
<1>7. <<r1, r2>> \in Seq(Rows) /\ <<r3>> \in Seq(Rows) /\ <<>> \in Seq(Rows)  BY <1>6, Tuples
<1>8. last \in Seq(Rows)  BY <1>7
<1> HIDE DEF last
<1> QED BY <1>5, <1>7, <1>8, Tuples

\* a comparison,
LEMMA CompareTyped ==
    ASSUME NEW w \in Width, NEW table \in {"LtS", "GeS"}, NEW swap \in BOOLEAN,
           NEW rd \in {"A", "B", "D"}, NEW l \in {"A", "B"}
    PROVE  Compare(w, table, swap, rd, "A", l) \in Seq(Rows)
<1> DEFINE x == IF w = 32 THEN "T0" ELSE "A"
           y == IF w = 32 THEN "T1" ELSE l
           first == IF w = 32 THEN WideSigned("A", l) ELSE <<>>
           last == IF swap THEN Alu(table, rd, y, R(x)) ELSE Alu(table, rd, x, R(y))
<1>1. /\ {table, "SignExtendWord"} \subseteq AluOps
      /\ {"T0", "T1", "A", l, rd, x, y} \subseteq Registers /\ 0 \in Int
    BY RegistersAre DEF AluOps
<1>2. Compare(w, table, swap, rd, "A", l) = first \o <<last>>  BY Zenon DEF Compare
<1>3. WideSigned("A", l) \in Seq(Rows)  BY <1>1, RowsAre, Tuples DEF WideSigned
<1>4. first \in Seq(Rows)  BY <1>3, Tuples
<1> HIDE DEF x, y, first
<1>5. R(x) \in Operands /\ R(y) \in Operands  BY <1>1, OperandsAre
<1>6. last \in Rows  BY <1>1, <1>5, RowsAre
<1> HIDE DEF last
<1>7. <<last>> \in Seq(Rows)  BY <1>6, Tuples
<1> QED BY <1>2, <1>4, <1>7, Tuples

\* a shift or rotation,
LEMMA ShiftsTyped ==
    ASSUME NEW w \in Width, NEW rd \in {"A", "B", "D"}, NEW l \in {"A", "B"}
    PROVE  /\ Shl(w, rd, "A", l) \in Seq(Rows) /\ ShrU(w, rd, "A", l) \in Seq(Rows)
           /\ ShrS(w, rd, "A", l) \in Seq(Rows)
           /\ Rotl(w, rd, "A", l) \in Seq(Rows) /\ Rotr(w, rd, "A", l) \in Seq(Rows)
<1>1. /\ {"Pow2", "Srl", "Sra", "SignExtendWord", "LowerHalfWord", "Sub64"} \subseteq AluOps
      /\ {"T0", "T1", "A", "ZERO", l, rd} \subseteq Registers /\ 0 \in Int
      /\ Count(w, l) \in Registers /\ Masked(w, l) \in Seq(Rows) /\ ShiftBitmask(w, l) \in Seq(Rows)
    BY RegistersAre, MaskedTyped, ShiftBitmaskTyped DEF AluOps
<1>2. R("T0") \in Operands /\ R(l) \in Operands  BY <1>1, OperandsAre
<1>3. At(w, "Mul") \in AluOps  BY MulValue
<1>4. Shl(w, rd, "A", l) \in Seq(Rows)
  <2>1. PICK r1, r2 \in Rows : r1 = AluImm("Pow2", "T0", Count(w, l), 0)
                               /\ r2 = Alu(At(w, "Mul"), rd, "A", R("T0"))
      BY <1>1, <1>2, <1>3, RowsAre
  <2>2. Shl(w, rd, "A", l) = Masked(w, l) \o <<r1, r2>>  BY <2>1 DEF Shl
  <2>3. <<r1, r2>> \in Seq(Rows)  BY Tuples
  <2> QED BY <1>1, <2>2, <2>3, Tuples
<1>5. ShrU(w, rd, "A", l) \in Seq(Rows)
  <2>1. PICK r \in Rows : r = Alu("Srl", rd, "A", R("T0"))  BY <1>1, <1>2, RowsAre
  <2>2. ShrU(w, rd, "A", l) = ShiftBitmask(w, l) \o <<r>>  BY <2>1 DEF ShrU
  <2>3. <<r>> \in Seq(Rows)  BY Tuples
  <2> QED BY <1>1, <2>2, <2>3, Tuples
<1>6. ShrS(w, rd, "A", l) \in Seq(Rows)
  <2>1. PICK r1, r2, r3, r4 \in Rows :
            /\ r1 = Alu("Sra", rd, "A", R("T0")) /\ r2 = AluImm("SignExtendWord", "T1", "A", 0)
            /\ r3 = Alu("Sra", "T1", "T1", R("T0")) /\ r4 = AluImm("LowerHalfWord", rd, "T1", 0)
      BY <1>1, <1>2, RowsAre
  <2>2. PICK q : q = IF w = 64 THEN <<r1>> ELSE <<r2, r3, r4>>  OBVIOUS
  <2>3. ShrS(w, rd, "A", l) = ShiftBitmask(w, l) \o q  BY <2>1, <2>2, Zenon DEF ShrS
  <2>4. <<r1>> \in Seq(Rows) /\ <<r2, r3, r4>> \in Seq(Rows)  BY Tuples
  <2>5. q \in Seq(Rows)  BY <2>2, <2>4
  <2> QED BY <1>1, <2>3, <2>5, Tuples
<1>7. Rotl(w, rd, "A", l) \in Seq(Rows)
  <2>1. PICK r \in Rows : r = Alu("Sub64", "T1", "ZERO", R(l))  BY <1>1, <1>2, RowsAre
  <2>2. Rotl(w, rd, "A", l) = <<r>> \o Rotr(w, rd, "A", "T1")  BY <2>1 DEF Rotl
  <2>3. <<r>> \in Seq(Rows)  BY Tuples
  <2>4. Rotr(w, rd, "A", "T1") \in Seq(Rows)  BY RotrTyped
  <2> QED BY <2>2, <2>3, <2>4, Tuples
<1>8. Rotr(w, rd, "A", l) \in Seq(Rows)  BY RotrTyped
<1> QED BY <1>4, <1>5, <1>6, <1>7, <1>8

\* a division,
LEMMA DivisionTyped ==
    ASSUME NEW w \in Width, NEW rd \in {"A", "B", "D"}, NEW l \in {"A", "B"}
    PROVE  /\ \A rs \in {"T3", "T4"} : Unsigned_(w, rd, rs, "A", l) \in Seq(Rows)
           /\ \A op \in {"DivS", "RemS"} : SignedDivmod(w, op, rd, "A", l) \in Seq(Rows)
<1>1. AssertNonzero(l) \in Seq(Rows) /\ UnsignedDivmod(w, "A", l) \in Seq(Rows)
    BY DivmodTyped DEF DivRegs
<1>2. ASSUME NEW rs \in {"T3", "T4"} PROVE Unsigned_(w, rd, rs, "A", l) \in Seq(Rows)
  <2>1. rd \in Registers \ {"ZERO"} /\ rs \in Registers /\ "Add64" \in AluOps /\ 0 \in Int
      BY RegistersAre DEF AluOps
  <2>2. PICK r \in Rows : r = Mov(rd, rs)  BY <2>1, RowsAre DEF Mov
  <2>3. <<r>> \in Seq(Rows)  BY Tuples
  <2>4. Unsigned_(w, rd, rs, "A", l) = (AssertNonzero(l) \o UnsignedDivmod(w, "A", l)) \o <<r>>
      BY <2>2 DEF Unsigned_
  <2>5. AssertNonzero(l) \o UnsignedDivmod(w, "A", l) \in Seq(Rows)  BY <1>1, Tuples
  <2> QED BY <2>3, <2>4, <2>5, Tuples
<1>3. ASSUME NEW op \in {"DivS", "RemS"} PROVE SignedDivmod(w, op, rd, "A", l) \in Seq(Rows)
  <2>1. /\ SignedDivmod(w, op, rd, "A", l)
                 = AssertNonzero(l) \o (OverflowRows(w, op, l) \o Divided(w, op, rd, l))
        /\ OverflowRows(w, op, l) \o Divided(w, op, rd, l) \in Seq(Rows)
      BY SignedPieces
  <2> QED BY <1>1, <2>1, Tuples
<1> QED BY <1>2, <1>3

\* any binary operator,
LEMMA BinaryTyped ==
    ASSUME NEW w \in Width, NEW op \in Binary, NEW rd \in {"A", "B", "D"},
           NEW b \in Operands, \/ b \in {R("A"), R("B")} \/ TakesImmediate(op)
    PROVE  EmitBinary(w, op, rd, "A", b) \in Seq(Rows)
<1>1. rd \in Registers \ {"ZERO"} /\ "A" \in Registers  BY RegistersAre
<1>2. CASE op \in Direct
  <2>1. 0 \in Values(w)  BY Widths DEF Values
  <2>2. At(w, op) \in AluOps  BY <1>2, <2>1, DirectValue
  <2>3. <<Alu(At(w, op), rd, "A", b)>> \in Seq(Rows)  BY <1>1, <2>2, RowsAre, Tuples
  <2>4. EmitBinary(w, op, rd, "A", b) = <<Alu(At(w, op), rd, "A", b)>>  BY <1>2, EmitDirect
  <2> QED BY <2>3, <2>4, Zenon
<1>3. CASE op \in Plain
  <2>1. op \in AluOps  BY <1>3, PlainValue
  <2>2. <<Alu(op, rd, "A", b)>> \in Seq(Rows)  BY <1>1, <2>1, RowsAre, Tuples
  <2>3. EmitBinary(w, op, rd, "A", b) = <<Alu(op, rd, "A", b)>>  BY <1>3, EmitDirect
  <2> QED BY <2>2, <2>3, Zenon
<1>4. CASE ~TakesImmediate(op)
  <2>1. PICK l \in {"A", "B"} : b = R(l)  BY <1>4
  <2>2. <<Alu("LtU", rd, l, R("A"))>> \in Seq(Rows)
      BY RegistersAre, OperandsAre, <1>1, RowsAre, Tuples DEF AluOps
  <2>3. CASE op \in {"GtU", "LtS", "GtS", "LeS", "GeS"}
    <3>1. \A table \in {"LtS", "GeS"} : \A swap \in BOOLEAN :
              Compare(w, table, swap, rd, "A", l) \in Seq(Rows)
        BY CompareTyped
    <3>2. /\ Compare(w, "LtS", FALSE, rd, "A", l) \in Seq(Rows) /\ Compare(w, "LtS", TRUE, rd, "A", l) \in Seq(Rows)
          /\ Compare(w, "GeS", FALSE, rd, "A", l) \in Seq(Rows) /\ Compare(w, "GeS", TRUE, rd, "A", l) \in Seq(Rows)
        BY <3>1, Zenon
    <3>3. /\ EmitBinary(w, "GtU", rd, "A", R(l)) \in Seq(Rows)
          /\ EmitBinary(w, "LtS", rd, "A", R(l)) \in Seq(Rows)
          /\ EmitBinary(w, "GtS", rd, "A", R(l)) \in Seq(Rows)
          /\ EmitBinary(w, "LeS", rd, "A", R(l)) \in Seq(Rows)
          /\ EmitBinary(w, "GeS", rd, "A", R(l)) \in Seq(Rows)
        BY <2>2, <3>2, EmitRegister, Zenon
    <3> QED BY <2>1, <2>3, <3>3, Zenon
  <2>4. CASE op \in {"Shl", "ShrU", "ShrS", "Rotl", "Rotr"}
    <3>1. /\ Shl(w, rd, "A", l) \in Seq(Rows) /\ ShrU(w, rd, "A", l) \in Seq(Rows)
          /\ ShrS(w, rd, "A", l) \in Seq(Rows)
          /\ Rotl(w, rd, "A", l) \in Seq(Rows) /\ Rotr(w, rd, "A", l) \in Seq(Rows)
        BY ShiftsTyped
    <3>2. /\ EmitBinary(w, "Shl", rd, "A", R(l)) = Shl(w, rd, "A", l)
          /\ EmitBinary(w, "ShrU", rd, "A", R(l)) = ShrU(w, rd, "A", l)
          /\ EmitBinary(w, "ShrS", rd, "A", R(l)) = ShrS(w, rd, "A", l)
          /\ EmitBinary(w, "Rotl", rd, "A", R(l)) = Rotl(w, rd, "A", l)
          /\ EmitBinary(w, "Rotr", rd, "A", R(l)) = Rotr(w, rd, "A", l)
        BY EmitRegister
    <3>3. /\ EmitBinary(w, "Shl", rd, "A", R(l)) \in Seq(Rows)
          /\ EmitBinary(w, "ShrU", rd, "A", R(l)) \in Seq(Rows)
          /\ EmitBinary(w, "ShrS", rd, "A", R(l)) \in Seq(Rows)
          /\ EmitBinary(w, "Rotl", rd, "A", R(l)) \in Seq(Rows)
          /\ EmitBinary(w, "Rotr", rd, "A", R(l)) \in Seq(Rows)
        BY <3>1, <3>2, Zenon
    <3> QED BY <2>1, <2>4, <3>3, Zenon
  <2>5. CASE op \in Division
    <3>1. /\ Unsigned_(w, rd, "T3", "A", l) \in Seq(Rows) /\ Unsigned_(w, rd, "T4", "A", l) \in Seq(Rows)
          /\ SignedDivmod(w, "DivS", rd, "A", l) \in Seq(Rows)
          /\ SignedDivmod(w, "RemS", rd, "A", l) \in Seq(Rows)
        BY DivisionTyped
    <3>2. /\ EmitBinary(w, "DivU", rd, "A", R(l)) = Unsigned_(w, rd, "T3", "A", l)
          /\ EmitBinary(w, "RemU", rd, "A", R(l)) = Unsigned_(w, rd, "T4", "A", l)
          /\ EmitBinary(w, "DivS", rd, "A", R(l)) = SignedDivmod(w, "DivS", rd, "A", l)
          /\ EmitBinary(w, "RemS", rd, "A", R(l)) = SignedDivmod(w, "RemS", rd, "A", l)
        BY EmitRegister
    <3>3. /\ EmitBinary(w, "DivU", rd, "A", R(l)) \in Seq(Rows)
          /\ EmitBinary(w, "RemU", rd, "A", R(l)) \in Seq(Rows)
          /\ EmitBinary(w, "DivS", rd, "A", R(l)) \in Seq(Rows)
          /\ EmitBinary(w, "RemS", rd, "A", R(l)) \in Seq(Rows)
        BY <3>1, <3>2, Zenon
    <3> QED BY <2>1, <2>5, <3>3, Zenon DEF Division
  <2> QED BY <1>4, <2>3, <2>4, <2>5 DEF Binary, TakesImmediate, Division
<1> QED BY <1>2, <1>3, <1>4 DEF TakesImmediate

\* and any unary operator or conversion.
LEMMA UnaryTyped ==
    ASSUME NEW w \in Width, NEW rd \in {"A", "D"}
    PROVE  /\ \A op \in Unary : EmitUnary(w, op, rd, "A") \in Seq(Rows)
           /\ \A op \in Convert : EmitConvert(op, rd, "A") \in Seq(Rows)
<1>1. {"Eq", "Popcnt", "Clz", "Sub64", "Ctz", "Or", "SignExtendWord", "And", "Add64"} \subseteq AluOps
    BY DEF AluOps
<1>2. {"T0", "A", rd} \subseteq Registers /\ rd # "ZERO"
      /\ {0, H, HalfM, HalfM - 1} \subseteq Int
    BY RegistersAre, Sizes
<1>3. PICK r1, r2, r3, r4, r5, r6 \in Rows :
          /\ r1 = AluImm("Eq", rd, "A", 0) /\ r2 = AluImm("Popcnt", rd, "A", 0)
          /\ r3 = AluImm("Clz", rd, "A", 0) /\ r4 = AluImm("Clz", "T0", "A", 0)
          /\ r5 = AluImm("Sub64", rd, "T0", H) /\ r6 = AluImm("Ctz", rd, "A", 0)
    BY <1>1, <1>2, RowsAre
<1>4. PICK r7, r8, r9, s1, s2 \in Rows :
          /\ r7 = AluImm("Or", "T0", "A", HalfM) /\ r8 = AluImm("Ctz", rd, "T0", 0)
          /\ r9 = AluImm("SignExtendWord", rd, "A", 0) /\ s1 = AluImm("And", rd, "A", HalfM - 1)
          /\ s2 = AluImm("Add64", rd, "A", 0)
    BY <1>1, <1>2, RowsAre
<1>5. /\ <<r1>> \in Seq(Rows) /\ <<r2>> \in Seq(Rows) /\ <<r3>> \in Seq(Rows)
      /\ <<r4, r5>> \in Seq(Rows) /\ <<r6>> \in Seq(Rows) /\ <<r7, r8>> \in Seq(Rows)
      /\ <<r9>> \in Seq(Rows) /\ <<s1>> \in Seq(Rows) /\ <<s2>> \in Seq(Rows)
    BY Tuples
<1>6. /\ EmitUnary(w, "Eqz", rd, "A") = <<r1>> /\ EmitUnary(w, "Popcnt", rd, "A") = <<r2>>
      /\ EmitUnary(w, "Clz", rd, "A") = IF w = 64 THEN <<r3>> ELSE <<r4, r5>>
      /\ EmitUnary(w, "Ctz", rd, "A") = IF w = 64 THEN <<r6>> ELSE <<r7, r8>>
      /\ EmitUnary(w, "Extend32S", rd, "A") = <<r9>>
      /\ EmitConvert("WrapI64", rd, "A") = <<s1>> /\ EmitConvert("ExtendI32S", rd, "A") = <<r9>>
      /\ EmitConvert("ExtendI32U", rd, "A") = <<s2>>
    BY <1>4, <1>3, EmitUnaryIs DEF Mov
<1>7. EmitUnary(w, "Extend8S", rd, "A") \in Seq(Rows) /\ EmitUnary(w, "Extend16S", rd, "A") \in Seq(Rows)
    BY Bytes, SignExtendTyped, EmitUnaryIs
<1>8. ASSUME NEW op \in Unary PROVE EmitUnary(w, op, rd, "A") \in Seq(Rows)
    BY <1>5, <1>6, <1>7 DEF Unary
<1>9. ASSUME NEW op \in Convert PROVE EmitConvert(op, rd, "A") \in Seq(Rows)
    BY <1>5, <1>6, Zenon DEF Convert
<1> QED BY <1>8, <1>9

\* What was lowered for job j, and the registers it started from.
Lowered(j, rows, s) ==
    /\ j.width \in Width /\ j.free \in BOOLEAN /\ rows \in Seq(Rows)
    /\ s["ZERO"] = 0 /\ s["A"] = j.x /\ j.x \in Values(j.width)
    /\ \/ /\ j.op \in Binary /\ j.rd \in {"A", "B", "D"}
          /\ \E b : /\ b \in {R("A"), R("B")} \/ (b = I(j.y) /\ TakesImmediate(j.op))
                    /\ j.y = Val(s, b) /\ j.y \in Values(j.width)
                    /\ rows = EmitBinary(j.width, j.op, j.rd, "A", b)
       \/ /\ j.op \in Unary /\ j.rd \in {"A", "D"} /\ (j.op = "Extend32S" => j.width = 64)
          /\ rows = EmitUnary(j.width, j.op, j.rd, "A")
       \/ /\ j.op \in Convert /\ j.rd \in {"A", "D"}
          /\ j.width = (IF j.op = "WrapI64" THEN 64 ELSE 32)
          /\ rows = EmitConvert(j.op, j.rd, "A")

ResultOf(j) == IF j.op \in Binary THEN WasmBinary(j.width, j.op, j.x, j.y)
                                  ELSE WasmUnary(j.width, j.op, j.x)

\* Rows lowered for a job end as wasm says: its trap, or its result.
LEMMA LoweredGood ==
    ASSUME NEW j, NEW rows, NEW s, Lowered(j, rows, s),
           NEW t, NEW e, Ends(rows, s, t, e, j.free)
    PROVE  /\ ~j.free => e = WasmTrap(j.width, j.op, j.x, j.y)
           /\ e = "none" /\ ~Loose(j.op, j.width, j.free)
                => t[j.rd] = ResultOf(j) /\ Keeps(s, t, Temps \cup {j.rd})
<1>1. /\ j.width \in Width /\ j.free \in BOOLEAN
      /\ s["ZERO"] = 0 /\ s["A"] = j.x /\ s["A"] \in Values(j.width)
    BY DEF Lowered
<1>2. CASE /\ j.op \in Binary /\ j.rd \in {"A", "B", "D"}
           /\ \E b : /\ b \in {R("A"), R("B")} \/ (b = I(j.y) /\ TakesImmediate(j.op))
                     /\ j.y = Val(s, b) /\ j.y \in Values(j.width)
                     /\ rows = EmitBinary(j.width, j.op, j.rd, "A", b)
  <2>1. PICK b : /\ b \in {R("A"), R("B")} \/ (b = I(j.y) /\ TakesImmediate(j.op))
                 /\ j.y = Val(s, b) /\ j.y \in Values(j.width)
                 /\ rows = EmitBinary(j.width, j.op, j.rd, "A", b)
      BY <1>2
  <2>2. Ends(EmitBinary(j.width, j.op, j.rd, "A", b), s, t, e, j.free)  BY <2>1, Zenon
  <2>3. PICK w, op, rd, y, free : w = j.width /\ op = j.op /\ rd = j.rd /\ y = j.y /\ free = j.free
      OBVIOUS
  <2>4. Good(op, w, rd, s["A"], y, free, s, t, e)  BY <1>1, <1>2, <2>1, <2>2, <2>3, BinaryRuns
  <2>5. ResultOf(j) = WasmBinary(w, op, j.x, y)  BY <1>2, <2>3, Zenon DEF ResultOf
  <2> QED BY <1>1, <2>3, <2>4, <2>5, Zenon DEF Good
<1>3. ASSUME j.op \in Unary \cup Convert,
             Gives(s, t, e, j.rd, WasmUnary(j.width, j.op, s["A"]))
      PROVE  /\ ~j.free => e = WasmTrap(j.width, j.op, j.x, j.y)
             /\ e = "none" /\ ~Loose(j.op, j.width, j.free)
                  => t[j.rd] = ResultOf(j) /\ Keeps(s, t, Temps \cup {j.rd})
  <2>1. j.op \notin Binary /\ j.op \notin Division /\ j.op # "DivS"
      BY <1>3 DEF Unary, Convert, Binary, Direct, Plain, Division
  <2>2. WasmTrap(j.width, j.op, j.x, j.y) = "none"  BY <2>1 DEF WasmTrap
  <2>3. ResultOf(j) = WasmUnary(j.width, j.op, s["A"])  BY <1>1, <2>1, Zenon DEF ResultOf
  <2> QED BY <1>3, <2>2, <2>3, Zenon DEF Gives
<1>4. CASE /\ j.op \in Unary /\ j.rd \in {"A", "D"} /\ (j.op = "Extend32S" => j.width = 64)
           /\ rows = EmitUnary(j.width, j.op, j.rd, "A")
    BY <1>4, <1>1, UnaryRuns, <1>3
<1>5. CASE /\ j.op \in Convert /\ j.rd \in {"A", "D"}
           /\ j.width = (IF j.op = "WrapI64" THEN 64 ELSE 32)
           /\ rows = EmitConvert(j.op, j.rd, "A")
    BY <1>5, <1>1, ConvertRuns, <1>3
<1> QED BY <1>2, <1>4, <1>5, Zenon DEF Lowered

-----------------------------------------------------------------------------
(* The invariant: the rows before pc have run *)

Reached(rows, s) ==
    /\ code = rows \o <<Rejoin>>
    /\ pc \in 1 .. Len(rows) + 1
    /\ regs = [r \in Reg |-> regs[r]]
    /\ Runs(rows, pc - 1, s, regs, job.free)
    /\ trap # "none" => pc <= Len(rows) /\ Does(rows[pc], regs, regs, trap, job.free)

ArithInv == \E rows, s : Lowered(job, rows, s) /\ Reached(rows, s)

\* Before the first row, no rows have run.
LEMMA InitReached ==
    ASSUME NEW op, NEW w, NEW rd, NEW a, NEW b, NEW x, NEW y, NEW rows, NEW free,
           Start(op, w, rd, a, b, x, y, rows, free), rows \in Seq(Rows)
    PROVE  Reached(rows, regs)
<1>1. code = rows \o <<Rejoin>> /\ pc = 1 /\ trap = "none" /\ Len(rows) \in Nat  BY DEF Start
<1>2. regs = [r \in Reg |-> regs[r]]  BY DEF Start
<1>3. pc - 1 = 0 /\ pc \in 1 .. Len(rows) + 1  BY <1>1
<1>4. Runs(rows, pc - 1, regs, regs, job.free)  BY <1>3, RunsStart
<1> QED BY <1>1, <1>2, <1>3, <1>4 DEF Reached

\* The row at pc is one of the operator's, or the one where they end.
LEMMA CodeIs ==
    ASSUME NEW rows \in Seq(Rows), NEW s, Reached(rows, s)
    PROVE  /\ pc \in Nat /\ Len(rows) \in Nat /\ pc >= 1 /\ pc <= Len(rows) + 1
           /\ pc <= Len(rows) => Row = rows[pc] /\ rows[pc] \in Rows /\ Row.row # "rejoin"
           /\ pc = Len(rows) + 1 => Row.row = "rejoin"
<1>1. code = rows \o <<Rejoin>> /\ pc \in 1 .. Len(rows) + 1 /\ Len(rows) \in Nat  BY DEF Reached
<1>2. ASSUME pc <= Len(rows) PROVE Row = rows[pc] /\ rows[pc] \in Rows /\ Row.row # "rejoin"
    BY <1>1, <1>2 DEF Rows, AluRows, Row
<1>3. ASSUME pc = Len(rows) + 1 PROVE Row.row = "rejoin"  BY <1>1, <1>3 DEF Row, Rejoin
<1> QED BY <1>1, <1>2, <1>3

\* One row run, with a register written or an assert passed.
LEMMA RunsOn ==
    ASSUME NEW rows \in Seq(Rows), NEW s, Reached(rows, s), Running, pc <= Len(rows),
           Does(rows[pc], regs, regs', "none", job.free), pc' = pc + 1,
           UNCHANGED <<code, trap, job>>, regs' = [r \in Reg |-> regs'[r]]
    PROVE  Reached(rows, s)'
<1>1. pc \in Nat /\ Len(rows) \in Nat /\ pc >= 1  BY CodeIs
<1>2. Runs(rows, pc - 1, s, regs, job.free) /\ code = rows \o <<Rejoin>>  BY DEF Reached
<1>3. PICK k \in Nat : k = pc - 1 /\ k + 1 = pc /\ pc' - 1 = k + 1  BY <1>1
<1>4. Runs(rows, k + 1, s, regs', job.free)  BY <1>2, <1>3, RunsNext
<1>5. trap' = "none" /\ job' = job /\ code' = code  BY DEF Running
<1>6. pc' \in 1 .. Len(rows) + 1  BY <1>1
<1>7. Runs(rows, pc' - 1, s, regs', job'.free)  BY <1>3, <1>4, <1>5, Zenon
<1> QED BY <1>2, <1>5, <1>6, <1>7 DEF Reached

\* An operator lowered and not yet run satisfies the invariant.
LEMMA InitHolds == Init => ArithInv
<1> SUFFICES ASSUME Init PROVE ArithInv
    OBVIOUS
<1>0. "ZERO" \in Reg /\ "A" \in Reg /\ "B" \in Reg  BY RegistersAre
<1>1. CASE StartBinary
  <2>1. PICK op \in Operators \cap Binary, w \in Width, rd \in {"A", "B", "D"}, l \in {"A", "B"} :
           \E x \in Samples(w), y \in Samples(w) : \E b \in Operand(y, l) :
                /\ b.kind = "imm" => TakesImmediate(op)
                /\ b = R("A") => x = y
                /\ \E free \in AnyAdvice :
                    /\ free => op \in Division /\ {x, y} \subseteq Few
                    /\ Start(op, w, rd, "A", b, x, y, EmitBinary(w, op, rd, "A", b), free)
      BY <1>1, Zenon DEF StartBinary
  <2>01. PICK x \in Samples(w), y \in Samples(w) : \E b \in Operand(y, l) :
                /\ b.kind = "imm" => TakesImmediate(op)
                /\ b = R("A") => x = y
                /\ \E free \in AnyAdvice :
                    /\ free => op \in Division /\ {x, y} \subseteq Few
                    /\ Start(op, w, rd, "A", b, x, y, EmitBinary(w, op, rd, "A", b), free)
      BY <2>1, Zenon
  <2>2. PICK b \in Operand(y, l), free \in AnyAdvice :
                /\ b.kind = "imm" => TakesImmediate(op)
                /\ b = R("A") => x = y
                /\ Start(op, w, rd, "A", b, x, y, EmitBinary(w, op, rd, "A", b), free)
      BY <2>01, Zenon
  <2>3. x \in Values(w) /\ y \in Values(w) /\ free \in BOOLEAN /\ op \in Binary
      BY Widths, OperandAssumption
  <2>4. b \in {R("A"), R("B")} \/ (b = I(y) /\ TakesImmediate(op))  BY <2>2 DEF Operand, I
  <2>5. b \in Operands  BY <2>3, ValueInt, RegistersAre, <2>4, OperandsAre
  <2>6. EmitBinary(w, op, rd, "A", b) \in Seq(Rows)  BY <2>3, <2>4, <2>5, BinaryTyped
  <2>7. /\ regs = [r \in Reg |-> IF r = "A" THEN x ELSE IF R(r) = b THEN y ELSE 0]
        /\ job = [op |-> op, width |-> w, rd |-> rd, x |-> x, y |-> y, free |-> free]
      BY <2>2 DEF Start
  <2>8. regs["ZERO"] = 0 /\ regs["A"] = x  BY <1>0, <2>4, <2>7 DEF R, I
  <2>9. Val(regs, b) = y
    <3>1. CASE b = R("A")  BY <2>2, <2>8, <3>1, WritesAlu
    <3>2. CASE b = R("B")  BY <1>0, <2>7, <3>2, WritesAlu
    <3>3. CASE b = I(y)  BY <3>3, WritesAlu
    <3> QED BY <2>4, <3>1, <3>2, <3>3
  <2>10. Reached(EmitBinary(w, op, rd, "A", b), regs)  BY <2>2, <2>6, InitReached
  <2>11. Lowered(job, EmitBinary(w, op, rd, "A", b), regs)
    <3>1. /\ job.op = op /\ job.width = w /\ job.rd = rd /\ job.x = x /\ job.y = y /\ job.free = free
        BY <2>7
    <3> HIDE DEF Lowered
    <3>2. \E b_1 : /\ b_1 \in {R("A"), R("B")} \/ (b_1 = I(y) /\ TakesImmediate(op))
                   /\ y = Val(regs, b_1) /\ y \in Values(w)
                   /\ EmitBinary(w, op, rd, "A", b) = EmitBinary(w, op, rd, "A", b_1)
        BY <2>3, <2>4, <2>9
    <3> QED BY <2>3, <2>6, <2>8, <3>1, <3>2, Zenon DEF Lowered
  <2> QED BY <2>10, <2>11 DEF ArithInv
<1>2. CASE StartUnary
  <2>01. PICK op \in Operators \cap Unary, w \in Width, rd \in {"A", "D"} : \E x \in Samples(w) :
            /\ op = "Extend32S" => w = 64
            /\ Start(op, w, rd, "A", R("A"), x, x, EmitUnary(w, op, rd, "A"), FALSE)
      BY <1>2, Zenon DEF StartUnary
  <2>1. PICK x \in Samples(w) :
            /\ op = "Extend32S" => w = 64
            /\ Start(op, w, rd, "A", R("A"), x, x, EmitUnary(w, op, rd, "A"), FALSE)
      BY <2>01
  <2>2. x \in Values(w) /\ op \in Unary  BY Widths
  <2>3. EmitUnary(w, op, rd, "A") \in Seq(Rows)  BY <2>2, UnaryTyped
  <2>4. /\ regs = [r \in Reg |-> IF r = "A" THEN x ELSE IF R(r) = R("A") THEN x ELSE 0]
        /\ job = [op |-> op, width |-> w, rd |-> rd, x |-> x, y |-> x, free |-> FALSE]
      BY <2>1 DEF Start
  <2>5. regs["ZERO"] = 0 /\ regs["A"] = x  BY <1>0, <2>4 DEF R
  <2>6. Reached(EmitUnary(w, op, rd, "A"), regs)  BY <2>1, <2>3, InitReached
  <2>7. Lowered(job, EmitUnary(w, op, rd, "A"), regs)  BY <2>4, <2>1, <2>2, <2>3, <2>5 DEF Lowered
  <2> QED BY <2>6, <2>7 DEF ArithInv
<1>3. CASE StartConvert
  <2>1. PICK op \in Operators \cap Convert, rd \in {"A", "D"} :
            \E x \in Samples(IF op = "WrapI64" THEN 64 ELSE 32) :
                Start(op, IF op = "WrapI64" THEN 64 ELSE 32, rd, "A", R("A"), x, x,
                      EmitConvert(op, rd, "A"), FALSE)
      BY <1>3, Zenon DEF StartConvert
  <2>2. PICK w \in Width : w = IF op = "WrapI64" THEN 64 ELSE 32  BY DEF Width
  <2>3. PICK x \in Samples(w) : Start(op, w, rd, "A", R("A"), x, x, EmitConvert(op, rd, "A"), FALSE)
      BY <2>1, <2>2, Zenon
  <2>4. x \in Values(w) /\ op \in Convert  BY Widths
  <2>5. EmitConvert(op, rd, "A") \in Seq(Rows)  BY <2>4, UnaryTyped
  <2>6. /\ regs = [r \in Reg |-> IF r = "A" THEN x ELSE IF R(r) = R("A") THEN x ELSE 0]
        /\ job = [op |-> op, width |-> w, rd |-> rd, x |-> x, y |-> x, free |-> FALSE]
      BY <2>3 DEF Start
  <2>7. regs["ZERO"] = 0 /\ regs["A"] = x  BY <1>0, <2>6 DEF R
  <2>8. Reached(EmitConvert(op, rd, "A"), regs)  BY <2>3, <2>5, InitReached
  <2>9. Lowered(job, EmitConvert(op, rd, "A"), regs)  BY <2>6, <2>2, <2>4, <2>5, <2>7 DEF Lowered
  <2> QED BY <2>8, <2>9 DEF ArithInv
<1> QED BY <1>1, <1>2, <1>3 DEF Init

\* An operand is read from the registers;
LEMMA ReadIs == \A o : Read(o) = Val(regs, o)
<1> QED BY Zenon DEF Read, Val

\* what a row computes is what its table gives;
LEMMA OutputIs == Output = Out(Row, regs)
<1> QED BY ReadIs, Zenon DEF Output, Out

\* Writing a register that is not ZERO.
LEMMA WrittenIs ==
    ASSUME NEW rd \in Reg, rd # "ZERO", regs = [r \in Reg |-> regs[r]], NEW v
    PROVE  /\ Sets(regs, Written(rd, v), rd, v)
           /\ Written(rd, v) = [r \in Reg |-> Written(rd, v)[r]]
<1>1. Written(rd, v) = [regs EXCEPT ![rd] = v]  BY DEF Written
<1>2. PICK f : f = regs  OBVIOUS
<1>3. f = [r \in Reg |-> f[r]]  BY <1>2, Zenon
<1>4. PICK g : g = [f EXCEPT ![rd] = v]  OBVIOUS
<1>5. g[rd] = v /\ (\A q \in Reg : q # rd => g[q] = f[q]) /\ g = [r \in Reg |-> g[r]]  BY <1>3, <1>4
<1> QED BY <1>1, <1>2, <1>4, <1>5 DEF Sets

\* a row that writes names a register other than ZERO;
LEMMA TargetIs == \A r \in Rows : r.row \in {"alu", "advice"} => r.rd \in Reg /\ r.rd # "ZERO"
<1>1. Registers \subseteq Reg  BY RegistersAre
<1> QED BY <1>1 DEF Rows, AluRows

\* and an assert fails as one of the two traps.
LEMMA FailureIs == \A r \in Rows : r.row = "assert" => r.failure \in Failures
<1> QED BY DEF Rows, AluRows, Failures

\* One step runs one row: an alu row and a passing assert move pc on, a
\* failing assert stops there.
LEMMA StepReached ==
    ASSUME NEW rows \in Seq(Rows), NEW s, Reached(rows, s), job.free \in BOOLEAN, Next
    PROVE  Reached(rows, s)'
<1>1. trap = "none" /\ Row.row # "rejoin" /\ UNCHANGED job /\ Running
    BY DEF Next, AluStep, AdviceStep, AssertStep, Running
<1>2. pc <= Len(rows) /\ Row = rows[pc] /\ Row \in Rows /\ pc \in Nat /\ pc >= 1 /\ Len(rows) \in Nat
    BY <1>1, CodeIs
<1>3. regs = [r \in Reg |-> regs[r]]  BY DEF Reached
<1>4. CASE AluStep
    BY <1>4, <1>2, TargetIs, <1>3, WrittenIs, OutputIs, <1>1, RunsOn DEF AluStep, Fall, Does
<1>5. CASE AdviceStep(job.free)
  <2>1. /\ Row.row = "advice" /\ pc' = pc + 1
        /\ UNCHANGED <<code, trap>>
      BY <1>5 DEF AdviceStep, Fall
  <2>2. PICK q \in Quotients(job.free) : regs' = Written(Row.rd, q)  BY <1>5 DEF AdviceStep
  <2>3. Row.rd \in Reg /\ Row.rd # "ZERO"  BY <1>2, <2>1, TargetIs
  <2>4. Sets(regs, regs', Row.rd, q) /\ regs' = [r \in Reg |-> regs'[r]]
      BY <1>3, <2>2, <2>3, WrittenIs, Zenon
  <2>5. q \in Advised(regs, Row, job.free)  BY ReadIs, Zenon DEF Quotients, Advised
  <2>6. Does(rows[pc], regs, regs', "none", job.free)  BY <1>2, <2>1, <2>4, <2>5, Zenon DEF Does
  <2> QED BY <1>1, <1>2, <2>1, <2>4, <2>6, RunsOn
<1>6. CASE AssertStep
  <2>1. Row.row = "assert" /\ UNCHANGED <<code, regs>>  BY <1>6 DEF AssertStep
  <2>2. CASE Output = 1
      BY <1>6, <2>1, <2>2, <1>2, OutputIs, <1>3, <1>1, RunsOn DEF AssertStep, Fall, Does
  <2>3. CASE Output # 1
      BY <1>1, <1>6, <2>1, <2>3, <1>2, FailureIs, OutputIs, <1>3 DEF AssertStep, Failures, Does, Reached
  <2> QED BY <2>2, <2>3
<1> QED BY <1>4, <1>5, <1>6 DEF Next

\* Every step keeps the invariant.
LEMMA StepHolds == ArithInv /\ [Next]_vars => ArithInv'
<1> SUFFICES ASSUME ArithInv, [Next]_vars PROVE ArithInv'
    OBVIOUS
<1>1. PICK rows, s : Lowered(job, rows, s) /\ Reached(rows, s)  BY DEF ArithInv
<1>2. rows \in Seq(Rows) /\ job.free \in BOOLEAN  BY <1>1 DEF Lowered
<1>3. CASE Next  BY <1>3, <1>1, <1>2, StepReached DEF Next, ArithInv
<1>4. CASE UNCHANGED vars  BY <1>4, <1>1 DEF vars, machine, Reached, ArithInv
<1> QED BY <1>3, <1>4

\* Where execution stops, the rows have ended.
LEMMA Stopped ==
    ASSUME NEW rows \in Seq(Rows), NEW s, Reached(rows, s), Finished \/ trap # "none"
    PROVE  Ends(rows, s, regs, trap, job.free)
<1>1. pc \in Nat /\ Len(rows) \in Nat /\ pc >= 1 /\ pc <= Len(rows) + 1  BY CodeIs
<1>2. CASE Finished
  <2>1. trap = "none" /\ ~(pc <= Len(rows))  BY <1>2, CodeIs DEF Finished
  <2>2. pc - 1 = Len(rows)  BY <1>1, <2>1
  <2>3. Runs(rows, pc - 1, s, regs, job.free)  BY DEF Reached
  <2>4. Runs(rows, Len(rows), s, regs, job.free)  BY <2>2, <2>3, Zenon
  <2> QED BY <2>1, <2>4, Zenon DEF Ends
<1>3. CASE trap # "none"
  <2>1. pc <= Len(rows) /\ Does(rows[pc], regs, regs, trap, job.free)
        /\ Runs(rows, pc - 1, s, regs, job.free)
      BY <1>3 DEF Reached
  <2>2. PICK k \in 0 .. Len(rows) - 1 : k = pc - 1 /\ k + 1 = pc  BY <1>1, <2>1
  <2>3. Runs(rows, k, s, regs, job.free) /\ Does(rows[k + 1], regs, regs, trap, job.free)
      BY <2>1, <2>2, Zenon
  <2> QED BY <1>3, <2>3, Zenon DEF Ends
<1> QED BY <1>2, <1>3

\* What the invariant says of the end of the rows is what the three properties
\* ask.
LEMMA InvHolds == ArithInv => ResultIsWasm /\ TrapIsWasm /\ WideAdvicePinned
<1> SUFFICES ASSUME ArithInv PROVE ResultIsWasm /\ TrapIsWasm /\ WideAdvicePinned
    OBVIOUS
<1>1. PICK rows, s : Lowered(job, rows, s) /\ Reached(rows, s)  BY DEF ArithInv
<1>2. rows \in Seq(Rows) /\ s["A"] = job.x  BY <1>1 DEF Lowered
<1>3. ASSUME Finished \/ trap # "none"
      PROVE  /\ ~job.free => trap = WasmTrap(job.width, job.op, job.x, job.y)
             /\ trap = "none" /\ ~Loose(job.op, job.width, job.free)
                  => regs[job.rd] = ResultOf(job) /\ Keeps(s, regs, Temps \cup {job.rd})
  <2>1. Ends(rows, s, regs, trap, job.free)  BY <1>1, <1>2, <1>3, Stopped
  <2> QED BY <1>1, <2>1, LoweredGood
<1>4. ResultOf(job) = Expected  BY Zenon DEF ResultOf, Expected
<1>5. ASSUME Finished, ~job.free
      PROVE  /\ WasmTrap(job.width, job.op, job.x, job.y) = "none"
             /\ regs[job.rd] = Expected /\ (job.rd # "A" => regs["A"] = job.x)
    BY <1>5, <1>3, <1>4, RegistersAre, <1>2 DEF Finished, Loose, Keeps, Temps
<1>6. ASSUME Finished, ~(job.width = 32 /\ job.op \in {"DivU", "RemU"})
      PROVE  regs[job.rd] = Expected
    BY <1>6, <1>3, <1>4, Zenon DEF Finished, Loose
<1> QED BY <1>3, <1>5, <1>6, Zenon DEF ResultIsWasm, TrapIsWasm, WideAdvicePinned

\* Wherever execution is, the rows of one wasm operator were emitted for it,
\* the rows before pc have run from the registers it started with, and a trap
\* is the failure of the assert at pc: Machine::step on what emit_binary,
\* emit_unary and Convert append, for every H, set of operands and prover.
THEOREM Arithmetic == Spec => []ArithInv
<1> QED BY InitHolds, StepHolds, PTL DEF Spec

\* With the machine's own advice every numeric operator that runs to its end
\* leaves the result wasm gives, at both widths, in whichever register it was
\* lowered into, and its operands did not trap (emit_binary, emit_unary,
\* Convert on Machine::step).
THEOREM Results == Spec => []ResultIsWasm
<1>1. ArithInv => ResultIsWasm  BY InvHolds, Zenon
<1> QED BY Arithmetic, <1>1, PTL

\* With the machine's own advice the rows stop only on operands wasm traps on,
\* for wasm's reason: emit_assert_nonzero and the overflow check of
\* emit_signed_divmod stop nothing else, and honest advice fails no assert of
\* emit_unsigned_divmod.
THEOREM Traps == Spec => []TrapIsWasm
<1>1. ArithInv => TrapIsWasm  BY InvHolds, Zenon
<1> QED BY Arithmetic, <1>1, PTL

\* Whatever quotient a prover advises, a 64-bit or a signed division ends with
\* wasm's result or not at all: the asserts of emit_unsigned_divmod leave one
\* quotient and one remainder.
THEOREM AdvicePins == Spec => []WideAdvicePinned
<1>1. ArithInv => WideAdvicePinned  BY InvHolds, Zenon
<1> QED BY Arithmetic, <1>1, PTL
===============================================================================
