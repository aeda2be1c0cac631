------------------------ MODULE LinearMemory_proofs ------------------------
(***************************************************************************)
(* Proofs about LinearMemory for every width of bytes, page size, cap of   *)
(* pages, initial contents, operand and sequence of operators: the types,  *)
(* the limit registers, and that the rows implement WasmMemory.            *)
(*                                                                         *)
(* A memory is a number of bytes and its cells; an access takes a window   *)
(* of the digits of one, two or three of them, and what a row of a load or *)
(* a store computes is a shift, a mask or a join of such digits (the facts *)
(* about digits are in Numbers_proofs).                                    *)
(*                                                                         *)
(* A machine state is safe when every sequence of steps from it ends in    *)
(* what the instruction asks for.  Safety is shown backwards, a row at a   *)
(* time: the last row ends well, and a row that leads to a safe state is   *)
(* safe (Comes), so that each path of a load, a store or memory.grow is    *)
(* followed row by row with the values its registers hold.  The invariant  *)
(* says the current state is safe; a step keeps it, whatever row it runs,  *)
(* and where the rows end it says what they did.                           *)
(***************************************************************************)
EXTENDS LinearMemory, Numbers_proofs

-----------------------------------------------------------------------------
(* Widths, pages and the sizes that hold them *)

\* The width assumption in numbers: four bytes to an i32, two i32s to a word.
LEMMA Sizes ==
  /\ H \in Nat /\ H >= 8 /\ H = 4 * ByteBits
  /\ ByteBits \in Nat /\ ByteBits >= 2 /\ ByteBits = 2 * ShiftPerLane /\ ShiftPerLane \in Nat
  /\ Bits = H + H /\ Bits \in Nat /\ \E k \in Nat : Bits = 2^k
  /\ HalfM \in Nat /\ HalfM >= 256 /\ HalfM = 2^H
  /\ M \in Nat /\ M >= 65536 /\ M = 2^Bits /\ M = HalfM * HalfM
  /\ Bits < M
<1>1. PICK k \in 2 .. H : H = 2^k  BY WidthAssumption
<1>2. H \in Nat /\ k \in Nat /\ H >= 8  BY WidthAssumption, MemoryAssumption
<1>3. k >= 3
  <2>1. CASE k = 2  BY <1>1, <1>2, <2>1, SmallPowers
  <2> QED BY <1>1, <2>1
<1>4. PICK j \in Nat : k = j + 3  BY <1>3
<1>5. PICK z \in Nat : z = 2^j /\ z > 0  BY PowerPositive
<1>6. H = 8 * z
  <2>1. 2^(j + 3) = 2^j * 2^3  BY PowerSum
  <2> QED BY <1>1, <1>4, <1>5, <2>1, SmallPowers
<1>7. ByteBits = 2 * z  BY <1>6, Quotient DEF ByteBits
<1>8. ShiftPerLane = z  BY <1>7 DEF ShiftPerLane
<1>9. Bits = H + H /\ Bits \in Nat  BY <1>2 DEF Bits
<1>10. Bits = 2^(k + 1)  BY <1>1, <1>2, <1>9, PowerNext
<1>11. PICK h \in Nat : h = 2^H /\ h >= 256
  <2>1. 2^8 <= 2^H  BY <1>2, PowerMonotone
  <2>2. 2^8 = 256  BY PowerSum, SmallPowers
  <2> QED BY <1>2, <2>1, <2>2, PowerPositive
<1>12. HalfM = h  BY <1>11 DEF HalfM
<1>13. M = 2^Bits /\ M = h * h  BY <1>2, PowerSum, <1>9, <1>11 DEF M
<1>14. M \in Nat /\ M >= 65536  BY <1>11, <1>13
<1>15. Bits < M  BY <1>9, <1>13, BelowPower
<1> QED BY <1>2, <1>5, <1>6, <1>7, <1>8, <1>9, <1>10, <1>11, <1>12, <1>13, <1>14, <1>15

\* AluOp::evaluate, table by table.
LEMMA Evaluates ==
  ASSUME NEW x, NEW y
  PROVE  /\ Evaluate("Add64", x, y) = (x + y) % M
         /\ Evaluate("Add32", x, y) = ((x + y) % M) % HalfM
         /\ Evaluate("LowerHalfWord", x, y) = ((x + y) % M) % HalfM
         /\ Evaluate("Sub64", x, y) = (x - y) % M
         /\ Evaluate("Sub32", x, y) = (x - y) % HalfM
         /\ Evaluate("Mul64", x, y) = MulWrap(x, y)
         /\ Evaluate("Mul32", x, y) = MulWrap(x, y) % HalfM
         /\ Evaluate("And", x, y) = x & y
         /\ Evaluate("Andn", x, y) = x & (M - 1 - y)
         /\ Evaluate("Or", x, y) = x | y
         /\ Evaluate("Xor", x, y) = x ^^ y
         /\ Evaluate("Eq", x, y) = Bool(x = y)
         /\ Evaluate("Ne", x, y) = Bool(x # y)
         /\ Evaluate("LtU", x, y) = Bool(x < y)
         /\ Evaluate("GeU", x, y) = Bool(x >= y)
         /\ Evaluate("LeU", x, y) = Bool(x <= y)
         /\ Evaluate("LtS", x, y) = Bool(Signed(Bits, x) < Signed(Bits, y))
         /\ Evaluate("GeS", x, y) = Bool(Signed(Bits, x) >= Signed(Bits, y))
         /\ Evaluate("Srl", x, y) = x \div 2^TrailingZeros(Bits, y)
         /\ Evaluate("Sra", x, y) = Unsigned(Bits, Signed(Bits, x) \div 2^TrailingZeros(Bits, y))
         /\ Evaluate("Rotr", x, y) = RotateRight(x, TrailingZeros(Bits, y) % Bits)
         /\ Evaluate("NegateIf", x, y) = (IF Signed(Bits, x) < 0 THEN (-y) % M ELSE y)
         /\ Evaluate("MulUNoOverflow", x, y) = Bool(y = 0 \/ x <= (M - 1) \div y)
         /\ Evaluate("Pow2", x, y) = 2^(((x + y) % M) % Bits)
         /\ Evaluate("ShiftRightBitmask", x, y) = ShiftMask(((x + y) % M) % Bits)
         /\ Evaluate("SignExtendWord", x, y) = Unsigned(Bits, Signed(H, ((x + y) % M) % HalfM))
         /\ Evaluate("Clz", x, y) = LeadingZeros(Bits, x)
         /\ Evaluate("Ctz", x, y) = TrailingZeros(Bits, x)
         /\ Evaluate("Popcnt", x, y) = Popcount(Bits, x)
<1> QED BY DEF Evaluate

\* A word plus nothing is the word: an immediate of 0 in Add64 copies.
LEMMA PlusZero == \A x \in Word : (x + 0) % M = x
<1> SUFFICES ASSUME NEW x \in Word PROVE (x + 0) % M = x
    OBVIOUS
<1>1. x + 0 = x /\ x % M = x  BY Sizes, RemainderSmall DEF Word
<1> QED BY <1>1

\* Splitting one factor in half does not change the product modulo M.
LEMMA MulWraps == \A x, y \in Nat : MulWrap(x, y) = (x * y) % M
<1> SUFFICES ASSUME NEW x \in Nat, NEW y \in Nat PROVE MulWrap(x, y) = (x * y) % M
    OBVIOUS
<1>1. PICK h \in Nat \ {0} : h = HalfM /\ M = h * h  BY Sizes
<1>2. PICK q \in Int, r \in 0 .. h - 1 : q = y \div h /\ r = y % h /\ y = h * q + r  BY Parts
<1>3. PICK z \in Int : z = x * q  OBVIOUS
<1>4. PICK k \in Int, t \in 0 .. h - 1 : t = z % h /\ z = h * k + t  BY Parts
<1>5. PICK u \in Int, v \in Int : u = x * r + t * h /\ v = x * y  BY <1>2, <1>4
<1>6. v = u + (h * h) * k
  <2>1. x * y = x * (h * q) + x * r  BY <1>2
  <2>2. x * (h * q) = h * z  BY <1>3
  <2>3. h * z = h * (h * k) + h * t  BY <1>4
  <2>4. h * (h * k) = (h * h) * k /\ h * t = t * h  OBVIOUS
  <2> QED BY <1>5, <2>1, <2>2, <2>3, <2>4
<1>7. PICK m \in Nat \ {0} : m = h * h  OBVIOUS
<1>8. v % m = u % m  BY <1>6, <1>7, RemainderShift
<1>9. MulWrap(x, y) = (x * r + t * h) % (h * h)  BY <1>1, <1>2, <1>3, <1>4, Zenon DEF MulWrap
<1> QED BY <1>1, <1>5, <1>7, <1>8, <1>9

\* The bitwise conjunction adds up the places where both operands have a one.
LEMMA AndIs == \A x, y : (x & y) = Conjunction(x, y, Bits)
<1> QED BY Zenon DEF &, Bit, Conjunction, Digit, MapThenSumSet, MapThenFoldSet

\* And with a mask of k ones keeps the k low bits.
LEMMA AndMask == \A x \in Int : \A k \in 0 .. Bits : (x & (2^k - 1)) = x % 2^k
<1> QED BY AndIs, ConjunctionMask, Sizes

\* Joining a multiple of 2^h and a number below it adds them.
LEMMA OrApart ==
  ASSUME NEW h \in Nat, NEW c \in Nat, NEW a \in 0 .. 2^h - 1
  PROVE  (c * 2^h | a) = c * 2^h + a /\ (a | c * 2^h) = a + c * 2^h
<1>1. PICK m \in Nat : m = 2^h  BY PowerPositive
<1>2. PICK u \in Int : u = c * 2^h  BY <1>1
<1>3. (u & a) = 0 /\ (a & u) = 0  BY <1>2, AndIs, ConjunctionApart, Sizes
<1>4. a \in Int  BY <1>1
<1>5. (u | a) = u + a - 0 /\ (a | u) = a + u - 0  BY <1>3, Zenon DEF |
<1> QED BY <1>2, <1>4, <1>5

\* Srl, Sra and Rotr read the count k back from ShiftRightBitmask's mask.
LEMMA MaskShift == \A k \in 0 .. Bits - 1 : TrailingZeros(Bits, ShiftMask(k)) = k
<1> SUFFICES ASSUME NEW k \in 0 .. Bits - 1 PROVE TrailingZeros(Bits, ShiftMask(k)) = k
    OBVIOUS
<1>1. k \in Nat /\ k < Bits /\ Bits \in Nat  BY Sizes
<1>2. {j \in 1 .. Bits : ShiftMask(k) % 2^j = 0} = 1 .. k  BY <1>1, MaskZeros DEF ShiftMask
<1>3. Cardinality(1 .. k) = k  BY <1>1, FS_Interval
<1> QED BY <1>2, <1>3 DEF TrailingZeros

\* The low bits of a word moved to the top and shifted back keep their sign.
LEMMA SignMoved ==
  ASSUME NEW bits \in Nat \ {0}, NEW up \in Nat, NEW z \in 0 .. 2^bits - 1
  PROVE  /\ z * 2^up \in 0 .. 2^(bits + up) - 1
         /\ Signed(bits + up, z * 2^up) \div 2^up = Signed(bits, z)
<1>1. PICK p, c, q \in Nat \ {0} : p = 2^(bits - 1) /\ c = 2^up /\ q = 2^bits /\ q = p + p
    BY Halves, PowerPositive
<1>2. z \in Int /\ z >= 0 /\ z < q /\ c \in Int /\ c > 0 /\ p \in Int /\ q \in Int  BY <1>1
<1>3. PICK d, k, m \in Int : d = z * c /\ k = p * c /\ m = q * c  BY <1>2, Ring
<1>4. 2^(bits + up) = m /\ 2^((bits + up) - 1) = k
  <2>1. bits - 1 \in Nat /\ (bits - 1) + up = (bits + up) - 1  OBVIOUS
  <2>2. 2^(bits + up) = 2^bits * 2^up /\ 2^((bits - 1) + up) = 2^(bits - 1) * 2^up  BY <2>1, PowerSum
  <2> QED BY <1>1, <1>3, <2>1, <2>2
<1>5. d >= 0 /\ d <= m - c  BY <1>2, <1>3
<1>6. d < k <=> z < p
  <2>1. CASE z < p  BY <1>2, <2>1, <1>3
  <2>2. CASE z >= p  BY <1>2, <2>2, <1>3
  <2> QED BY <1>2, <2>1, <2>2
<1>7. PICK v \in Int : v = Signed(bits, z) /\ v = IF z < p THEN z ELSE z - q  BY <1>1, <1>2 DEF Signed
<1>8. Signed(bits + up, d) = v * c  BY <1>4, <1>2, <1>3, <1>6, <1>7 DEF Signed
<1>9. (v * c) \div c = v  BY <1>1, QuotientScale
<1> QED BY <1>1, <1>2, <1>3, <1>4, <1>5, <1>7, <1>8, <1>9

\* And with a mask of k ones at place s; Andn with it takes them out.
LEMMA AndBlock ==
  ASSUME NEW x \in Word, NEW k \in Nat, NEW s \in Nat, k + s <= Bits
  PROVE  /\ (x & ((2^k - 1) * 2^s)) = ((x \div 2^s) % 2^k) * 2^s
         /\ (x & (M - 1 - ((2^k - 1) * 2^s))) = x - ((x \div 2^s) % 2^k) * 2^s
         /\ (2^k - 1) * 2^s \in Word
<1>1. PICK p, q \in Nat \ {0} : p = 2^s /\ q = 2^k  BY PowerPositive
<1>2. PICK y \in Nat : y = (q - 1) * p  BY <1>1
<1>3. q * p <= M
  <2>1. k + s \in Nat  OBVIOUS
  <2>2. Bits \in Nat /\ M = 2^Bits  BY Sizes
  <2>3. 2^(k + s) <= 2^Bits  BY <2>1, <2>2, PowerMonotone, Zenon
  <2>4. 2^(k + s) = 2^k * 2^s  BY PowerSum, Zenon
  <2> QED BY <1>1, <2>2, <2>3, <2>4, Zenon
<1>4. y \in 0 .. M - 1
  <2>1. (q - 1) * p = q * p - p  BY <1>1
  <2> QED BY <1>1, <1>2, <1>3, <2>1, Sizes
<1>5. x \in Int /\ x \in 0 .. 2^Bits - 1 /\ y \in 0 .. 2^Bits - 1 /\ Bits \in Nat  BY <1>4, Sizes DEF Word
<1>6. Conjunction(x, (2^k - 1) * 2^s, Bits) = ((x \div 2^s) % 2^k) * 2^s
  <2>1. TakesBlock(Bits, k, s, x)  BY <1>5, ConjunctionBlock, Zenon
  <2> QED BY <2>1, Zenon DEF TakesBlock
<1>7. Conjunction(x, (2^Bits - 1) - y, Bits) = x - Conjunction(x, y, Bits)
    BY <1>5, ConjunctionComplement, Zenon
<1>8. (2^k - 1) * 2^s = y  BY <1>1, <1>2
<1>9. (x & y) = ((x \div 2^s) % 2^k) * 2^s  BY <1>6, <1>8, AndIs, Zenon
<1>10. (x & (M - 1 - y)) = x - ((x \div 2^s) % 2^k) * 2^s
  <2>1. (2^Bits - 1) - y = M - 1 - y  BY Sizes
  <2>2. (x & (M - 1 - y)) = x - Conjunction(x, y, Bits)  BY <1>7, <2>1, AndIs, Zenon
  <2> QED BY <1>6, <1>8, <2>2, Zenon
<1> QED BY <1>4, <1>8, <1>9, <1>10, Zenon DEF Word

\* Or puts v into the gap its digits left.
FillsGap(k, s, a, c, v) == ((c * 2^(k + s) + a) | v * 2^s) = (c * 2^(k + s) + a) + v * 2^s

\* Or puts digits into the place that was cleared for them.
LEMMA OrGap ==
  ASSUME NEW k \in Nat, NEW s \in Nat, NEW a \in 0 .. 2^s - 1, NEW c \in Nat, NEW v \in 0 .. 2^k - 1
  PROVE  FillsGap(k, s, a, c, v)
<1>1. PICK p, q, m \in Nat : p = 2^s /\ q = 2^k /\ m = 2^(k + s)  BY PowerPositive
<1>2. PICK x, y \in Nat : x = c * m + a /\ y = v * p  BY <1>1
<1>3. Conjunction(v * 2^s, c * 2^(k + s) + a, Bits) = 0
  <2>1. Bits \in Nat  BY Sizes
  <2> QED BY <2>1, ConjunctionGap, Zenon
<1>4. Conjunction(y, x, Bits) = 0  BY <1>1, <1>2, <1>3
<1>6. (x & y) = 0  BY Sizes, ConjunctionCommutes, <1>4, AndIs
<1>7. (x | y) = x + y - 0  BY <1>6, Zenon DEF |
<1>8. (x | y) = x + y  BY <1>2, <1>7
<1> QED BY <1>1, <1>2, <1>8, Zenon DEF FillsGap

\* The address word 8 q + 2 l splits into its cell, 8 q, and its lane, 2 l.
LEMMA AndAddress ==
  ASSUME NEW q \in Nat, NEW l \in 0 .. 3, NEW x \in Word, x = 8 * q + 2 * l
  PROVE  (x & LaneMask) = 2 * l /\ (x & (M - CellUnits)) = 8 * q
<1>1. Bits >= 16 /\ Bits \in Nat  BY Sizes
<1>2. (x & LaneMask) = 2 * l
  <2>1. 2 \in Nat /\ 1 \in Nat /\ 2 + 1 <= Bits  BY <1>1
  <2>2. (x & ((2^2 - 1) * 2^1)) = ((x \div 2^1) % 2^2) * 2^1  BY <2>1, AndBlock, Zenon
  <2>3. (4 - 1) * 2 = LaneMask  BY DEF LaneMask
  <2>4. (x \div 2) % 4 = l  OBVIOUS
  <2> QED BY <2>2, <2>3, <2>4, SmallPowers
<1>3. (x & (M - CellUnits)) = 8 * q
  <2>1. PICK n \in Nat : n = Bits - 3 /\ n + 3 = Bits  BY <1>1
  <2>2. PICK p \in Nat \ {0} : p = 2^n /\ M = p * 8
    <3>1. 2^(n + 3) = 2^n * 2^3  BY PowerSum
    <3> QED BY <2>1, <3>1, PowerPositive, SmallPowers, Sizes
  <2>3. (x & ((2^n - 1) * 2^3)) = ((x \div 2^3) % 2^n) * 2^3
    <3>1. 3 \in Nat /\ n + 3 <= Bits  BY <1>1, <2>1
    <3> QED BY <3>1, AndBlock, Zenon
  <2>4. (p - 1) * 8 = M - CellUnits  BY <2>2 DEF CellUnits
  <2>5. x \div 8 = q  OBVIOUS
  <2>6. q \in 0 .. p - 1  BY <2>2 DEF Word
  <2>7. q % p = q  BY <2>6, RemainderSmall
  <2>8. (x & (M - CellUnits)) = q * 8  BY <2>2, <2>3, <2>4, <2>5, <2>7, SmallPowers
  <2> QED BY <2>8
<1> QED BY <1>2, <1>3

\* A shift count in the words that carry it.
LEMMA ShiftIs ==
  ASSUME NEW k \in Nat, k < Bits, NEW x \in Word
  PROVE  /\ Evaluate("ShiftRightBitmask", k, 0) = ShiftMask(k)
         /\ Evaluate("Pow2", k, 0) = 2^k
         /\ Evaluate("Srl", x, ShiftMask(k)) = x \div 2^k
         /\ Evaluate("Sra", x, ShiftMask(k)) = Unsigned(Bits, Signed(Bits, x) \div 2^k)
         /\ ShiftMask(k) \in Word /\ 2^k \in Word /\ x \div 2^k \in 0 .. x /\ x \div 2^k \in Word
<1>1. k \in 0 .. Bits - 1 /\ k \in Word /\ Bits \in Nat  BY Sizes DEF Word
<1>2. (k + 0) % M = k /\ k % Bits = k  BY <1>1, PlusZero, RemainderSmall
<1>3. TrailingZeros(Bits, ShiftMask(k)) = k  BY <1>1, MaskShift
<1>4. ShiftMask(k) \in Word
  <2>1. PICK n \in Nat : n = Bits - k /\ n + k = Bits  BY <1>1
  <2>2. (2^n - 1) * 2^k \in Word  BY <2>1, AndBlock
  <2> QED BY <2>1, <2>2 DEF ShiftMask
<1>5. PICK p \in Nat \ {0} : p = 2^k /\ p \in Word
  <2>1. PICK p \in Nat \ {0} : p = 2^k  BY PowerPositive
  <2>2. p + p <= M  BY <1>1, <2>1, PowerDoubles, Sizes
  <2> QED BY <2>1, <2>2, Sizes DEF Word
<1>6. x \div p \in 0 .. x  BY Sizes, QuotientBelow DEF Word
<1>7. x \div p \in Word  BY <1>6, Sizes DEF Word
<1> QED BY <1>2, <1>3, <1>4, <1>5, <1>6, <1>7, Evaluates

-----------------------------------------------------------------------------
(* A memory of cells and the bytes it stands for *)

\* The size word and the cells it is in charge of.
Memory(z, c) ==
    /\ z \in {p * PageBytes : p \in 0 .. MaxPages}
    /\ c \in [0 .. CellsFor(z) - 1 -> 0 .. CellMask]
    /\ c[z \div CellBytes] = 0

\* A state: the next row, the registers, size word and cells, the failure.
At(p, r, z, c, t) == [p |-> p, r |-> r, z |-> z, c |-> c, t |-> t]

WellTyped(m) ==
    m.r \in [Reg -> Word] /\ m.t \in {"none", "OutOfBounds"} /\ Memory(m.z, m.c)

Val(r, o)    == IF o.kind = "reg" THEN r[o.reg] ELSE o.imm

Put(r, d, v) == IF d = "ZERO" THEN r ELSE [r EXCEPT ![d] = v]

Holds(a, c)  == a % CellUnits = 0 /\ a >= LinearBase /\ CellAt(a) \in DOMAIN c

Grows(c, n)  == [j \in 0 .. CellsFor(n) - 1 |-> IF j \in DOMAIN c THEN c[j] ELSE 0]

Bad(a, c)    == IF Holds(a, c) THEN "CellOverflow" ELSE "BadAddress"

\* One row takes m to n.
Moves(rows, m, n) ==
    LET row == rows[m.p]
        out == Evaluate(row.op, m.r[row.rs1], Val(m.r, row.rs2))
        v   == Val(m.r, row.rs2)
        a   == (m.r[row.rs1] + row.imm) % M
    IN /\ m.t = "none" /\ row.row # "rejoin"
       /\ \/ row.row = "alu" /\ n = At(m.p + 1, Put(m.r, row.rd, out), m.z, m.c, "none")
          \/ row.row = "assert" /\ n = IF out = 1 THEN At(m.p + 1, m.r, m.z, m.c, "none")
                                       ELSE At(m.p, m.r, m.z, m.c, row.failure)
          \/ row.row = "jump" /\ n = At(row.target, m.r, m.z, m.c, "none")
          \/ row.row = "branch" /\ n = At(IF out = 1 THEN row.target ELSE m.p + 1, m.r, m.z, m.c, "none")
          \/ row.row = "load" /\ n = IF IsSize(a) THEN At(m.p + 1, Put(m.r, row.rd, m.z), m.z, m.c, "none")
                                     ELSE IF Holds(a, m.c)
                                     THEN At(m.p + 1, Put(m.r, row.rd, m.c[CellAt(a)]), m.z, m.c, "none")
                                     ELSE At(m.p, m.r, m.z, m.c, Bad(a, m.c))
          \/ row.row = "store" /\ IsSize(a)
                /\ n = At(m.p + 1, m.r, v, Grows(m.c, Capped(v)), "none")
          \/ row.row = "store" /\ Holds(a, m.c) /\ v <= CellMask
                /\ n = At(m.p + 1, m.r, m.z, [m.c EXCEPT ![CellAt(a)] = v], "none")
          \/ row.row = "store" /\ ~IsSize(a) /\ ~(Holds(a, m.c) /\ v <= CellMask)
                /\ n = At(m.p, m.r, m.z, m.c, Bad(a, m.c))

Now == At(pc, regs, sizeWord, linear, trap)

\* So moves the machine.
LEMMA StepMoves ==
  ASSUME Step
  PROVE  Moves(code, Now, Now') /\ code' = code
<1> DEFINE out == Evaluate(Row.op, regs[Row.rs1], Val(regs, Row.rs2))
           v   == Val(regs, Row.rs2)
           a   == (regs[Row.rs1] + Row.imm) % M
<1>1. /\ Now.p = pc /\ Now.r = regs /\ Now.z = sizeWord /\ Now.c = linear /\ Now.t = trap
      /\ code[Now.p] = Row
      /\ Now' = At(pc', regs', sizeWord', linear', trap')
    BY DEF Now, At, Row
<1>2. out = Output /\ v = Read(Row.rs2) /\ a = Address  BY Zenon DEF Output, Read, Val, Address
<1>3. Holds(a, linear) <=> IsCell(a)  BY Zenon DEF Holds, IsCell
<1>4. Bad(a, linear) = Fault  BY <1>2, <1>3, Zenon DEF Bad, Fault
<1>5. \A w : Written(Row.rd, w) = Put(regs, Row.rd, w)  BY Zenon DEF Written, Put
<1>6. \A w : Resized(w) = Grows(linear, w)  BY Zenon DEF Resized, Grows
<1> DEFINE NowIs(q, w, z, c, t) == Now' = At(q, w, z, c, t)
<1>7. CASE AluStep /\ UNCHANGED <<sizeWord, linear>>
    BY <1>7, <1>1, <1>2, <1>5 DEF AluStep, Running, Fall, Moves
<1>8. CASE AssertStep /\ UNCHANGED <<sizeWord, linear>>
    BY <1>8, <1>1, <1>2 DEF AssertStep, Running, Fall, Moves
<1>9. CASE JumpStep /\ UNCHANGED <<sizeWord, linear>>  BY <1>9, <1>1 DEF JumpStep, Running, Moves
<1>10. CASE BranchStep /\ UNCHANGED <<sizeWord, linear>>
    BY <1>10, <1>1, <1>2 DEF BranchStep, Running, Moves
<1>11. CASE LoadStep  BY <1>11, <1>1, <1>2, <1>3, <1>4, <1>5 DEF LoadStep, Running, Fall, Moves
<1>12. CASE StoreStep  BY <1>12, <1>1, <1>2, <1>3, <1>4, <1>6 DEF StoreStep, Running, Fall, Moves
<1> QED BY <1>7, <1>8, <1>9, <1>10, <1>11, <1>12, Zenon DEF Step

BytesOf(z, c) ==
    [a \in 0 .. z - 1 |-> (c[a \div CellBytes] \div 2^(ByteBits * (a % CellBytes))) % 2^ByteBits]

\* The limit registers are those of a memory of z bytes.
Limited(r, z) == \A n \in {1, 2, 4, 8} : r[Limit(n)] = 2 * z + LinearBase + 1 - 2 * n

Inside(q, b) == q.base + q.offset + q.width <= b.size

LoadedFrom(q, f) ==
    LET v == Spelled(f, q.base + q.offset, ByteBits, q.width)
        n == ByteBits * q.width
    IN IF q.signed /\ v >= 2^(n - 1) THEN (v - 2^n) % 2^q.bits ELSE v

StoredIn(q, f) ==
    [a \in DOMAIN f |-> IF a \in q.base + q.offset .. q.base + q.offset + q.width - 1
                        THEN Group(q.value, ByteBits, a - (q.base + q.offset)) ELSE f[a]]

GrownTo(f, z, size) == [a \in 0 .. size - 1 |-> IF a < z THEN f[a] ELSE 0]

\* What request q does to the bytes b, one disjunct for each way it can end.
Done(q, b, bytes, size, out) ==
    \/ q.op = "entry" /\ bytes = b.bytes /\ size = b.size /\ out = 0
    \/ /\ q.op = "load" /\ Inside(q, b) /\ bytes = b.bytes /\ size = b.size
       /\ out = LoadedFrom(q, b.bytes)
    \/ /\ q.op = "store" /\ Inside(q, b) /\ bytes = StoredIn(q, b.bytes) /\ size = b.size
       /\ out = 0
    \/ q.op = "size" /\ bytes = b.bytes /\ size = b.size /\ out = b.size \div PageBytes
    \/ /\ q.op = "grow" /\ b.size + q.delta * PageBytes <= MaxBytes
       /\ size = b.size + q.delta * PageBytes
       /\ bytes = GrownTo(b.bytes, b.size, size)
       /\ out = b.size \div PageBytes
    \/ /\ q.op = "grow" /\ b.size + q.delta * PageBytes > MaxBytes
       /\ bytes = b.bytes /\ size = b.size /\ out = HalfM - 1

Result(q, r) == IF q.op \in {"load", "size", "grow"} THEN r[q.rd] ELSE 0

\* Where rows for request q, issued on the bytes b, may stop.
Ends(q, b, m) ==
    /\ m.t = "none" => /\ m.r["ZERO"] = 0 /\ Limited(m.r, m.z)
                       /\ Done(q, b, BytesOf(m.z, m.c), m.z, Result(q, m.r))
    /\ m.t # "none" => /\ q.op \in {"load", "store"} /\ ~Inside(q, b)
                       /\ BytesOf(m.z, m.c) = b.bytes /\ m.z = b.size

Stopped(rows, m) == m.t # "none" \/ rows[m.p].row = "rejoin"

\* S is closed under the rows, and they stop in it only where q may end.
Closed(rows, S, q, b) ==
    \A x \in S : /\ WellTyped(x)
                 /\ Stopped(rows, x) => Ends(q, b, x)
                 /\ \A y : Moves(rows, x, y) => y \in S

\* From m the rows do what q asks for, wherever they stop.
Safe(rows, m, q, b) == \E S : m \in S /\ Closed(rows, S, q, b)

\* From m the rows come to n.
Leads(rows, m, n) == \A q, b : Safe(rows, n, q, b) => Safe(rows, m, q, b)

\* Safety goes from a state to the next one,
LEMMA SafeMoves ==
  ASSUME NEW rows, NEW m, NEW n, NEW q, NEW b, Safe(rows, m, q, b), Moves(rows, m, n)
  PROVE  Safe(rows, n, q, b)
<1> QED BY Zenon DEF Safe, Closed

\* and says where they stop.
LEMMA SafeStops ==
  ASSUME NEW rows, NEW m, NEW q, NEW b, Safe(rows, m, q, b)
  PROVE  WellTyped(m) /\ (Stopped(rows, m) => Ends(q, b, m))
<1> QED BY Zenon DEF Safe, Closed

\* Where they stop rightly they are safe.
LEMMA StopsSafe ==
  ASSUME NEW rows, NEW m, NEW q, NEW b, WellTyped(m), Stopped(rows, m), Ends(q, b, m)
  PROVE  Safe(rows, m, q, b)
<1>1. \A y : ~Moves(rows, m, y)  BY Zenon DEF Moves, Stopped
<1>2. m \in {m} /\ \A x \in {m} : x = m  OBVIOUS
<1>3. Closed(rows, {m}, q, b)  BY <1>1, <1>2, Zenon DEF Closed
<1> QED BY <1>2, <1>3, Zenon DEF Safe

\* The rows that can only move to n lead there,
LEMMA LeadsStep ==
  ASSUME NEW rows, NEW m, NEW n, WellTyped(m), ~Stopped(rows, m),
         \A y : Moves(rows, m, y) => y = n
  PROVE  Leads(rows, m, n)
<1> SUFFICES ASSUME NEW q, NEW b, Safe(rows, n, q, b) PROVE Safe(rows, m, q, b)
    BY Zenon DEF Leads
<1>1. PICK S : n \in S /\ Closed(rows, S, q, b)  BY Zenon DEF Safe
<1>2. m \in S \cup {m} /\ n \in S \cup {m}  BY <1>1
<1>3. ASSUME NEW x \in S \cup {m}
      PROVE  /\ WellTyped(x)
             /\ Stopped(rows, x) => Ends(q, b, x)
             /\ \A y : Moves(rows, x, y) => y \in S \cup {m}
  <2>1. CASE x \in S  BY <1>1, <2>1 DEF Closed
  <2>2. CASE x = m  BY <1>2, <2>2, Zenon
  <2> QED BY <2>1, <2>2
<1> QED BY <1>2, <1>3, Zenon DEF Safe, Closed

\* and so do those that lead to a state that does.
LEMMA LeadsOn ==
  ASSUME NEW rows, NEW m, NEW n, NEW o, Leads(rows, m, n), Leads(rows, n, o)
  PROVE  Leads(rows, m, o)
<1> QED BY Zenon DEF Leads

\* What leads to safe states is safe.
LEMMA LeadsSafe ==
  ASSUME NEW rows, NEW m, NEW n, NEW q, NEW b, Leads(rows, m, n), Safe(rows, n, q, b)
  PROVE  Safe(rows, m, q, b)
<1> QED BY Zenon DEF Leads

\* A state leads to itself.
LEMMA LeadsSelf == \A rows, m : Leads(rows, m, m)
<1> QED BY Zenon DEF Leads

\* Only d changes, to v; nothing outside S changes.
Sets(r, s, d, v) == s[d] = v /\ \A x \in Reg : x # d => s[x] = r[x]

\* From row p with registers r to row o with registers s, in memory (z, c).
Goes(rows, z, c, p, r, o, s) == Leads(rows, At(p, r, z, c, "none"), At(o, s, z, c, "none"))

\* The fields of a state.
LEMMA Fields ==
  \A p, r, z, c, t :
      LET m == At(p, r, z, c, t)
      IN m.p = p /\ m.r = r /\ m.z = z /\ m.c = c /\ m.t = t
<1> QED BY DEF At

\* The states of a memory and a register file are well typed.
LEMMA StateTyped ==
  ASSUME NEW p, NEW r \in [Reg -> Word], NEW z, NEW c, Memory(z, c)
  PROVE  WellTyped(At(p, r, z, c, "none")) /\ WellTyped(At(p, r, z, c, "OutOfBounds"))
<1> QED BY DEF At, WellTyped

\* Replacing a register.
LEMMA PutSets ==
  ASSUME NEW r \in [Reg -> Word], NEW d \in Reg \ {"ZERO"}, NEW v \in Word
  PROVE  Put(r, d, v) \in [Reg -> Word] /\ Sets(r, Put(r, d, v), d, v)
<1>1. Put(r, d, v) = [r EXCEPT ![d] = v]  BY DEF Put
<1> DEFINE s == [r EXCEPT ![d] = v]
<1>2. s \in [Reg -> Word] /\ s[d] = v /\ \A x \in Reg : x # d => s[x] = r[x]  OBVIOUS
<1> HIDE DEF s
<1> QED BY <1>1, <1>2 DEF Sets, s

\* An alu row.
LEMMA AluGoes ==
  ASSUME NEW rows, NEW z, NEW c, Memory(z, c), NEW p, NEW r \in [Reg -> Word],
         NEW op, NEW d \in Reg \ {"ZERO"}, NEW a, NEW o, rows[p] = Alu(op, d, a, o),
         NEW v \in Word, v = Evaluate(op, r[a], Val(r, o))
  PROVE  \E s \in [Reg -> Word] : Sets(r, s, d, v) /\ Goes(rows, z, c, p, r, p + 1, s)
<1> DEFINE m == At(p, r, z, c, "none")
           s == Put(r, d, v)
           n == At(p + 1, s, z, c, "none")
<1>1. m.p = p /\ m.r = r /\ m.z = z /\ m.c = c /\ m.t = "none"  BY DEF At
<1>2. s \in [Reg -> Word] /\ Sets(r, s, d, v)  BY PutSets
<1>3. rows[m.p].row = "alu" /\ rows[m.p].op = op /\ rows[m.p].rd = d /\ rows[m.p].rs1 = a /\ rows[m.p].rs2 = o
    BY <1>1 DEF Alu
<1> HIDE DEF m, s
<1>4. \A y : Moves(rows, m, y) => y = n
  <2> SUFFICES ASSUME NEW y, Moves(rows, m, y) PROVE y = n
      OBVIOUS
  <2>1. rows[m.p].row # "assert" /\ rows[m.p].row # "jump" /\ rows[m.p].row # "branch"
        /\ rows[m.p].row # "load" /\ rows[m.p].row # "store"
      BY <1>3
  <2>2. y = At(m.p + 1, Put(m.r, rows[m.p].rd, Evaluate(rows[m.p].op, m.r[rows[m.p].rs1], Val(m.r, rows[m.p].rs2))), m.z, m.c, "none")
      BY <2>1, Zenon DEF Moves
  <2> QED BY <1>1, <1>3, <2>2, Zenon DEF s
<1>5. WellTyped(m) /\ ~Stopped(rows, m)  BY StateTyped, <1>3, <1>1 DEF m, Stopped
<1>6. Leads(rows, m, n)  BY <1>4, <1>5, LeadsStep
<1> QED BY <1>2, <1>6 DEF Goes, m

\* An assertion that holds,
LEMMA AssertGoes ==
  ASSUME NEW rows, NEW z, NEW c, Memory(z, c), NEW p, NEW r \in [Reg -> Word],
         NEW op, NEW f, NEW a, NEW o, rows[p] = Assert(op, f, a, o), Evaluate(op, r[a], Val(r, o)) = 1
  PROVE  Goes(rows, z, c, p, r, p + 1, r)
<1> DEFINE m   == At(p, r, z, c, "none")
           n   == At(p + 1, r, z, c, "none")
           row == rows[p]
<1>1. m.p = p /\ m.r = r /\ m.z = z /\ m.c = c /\ m.t = "none"  BY DEF At
<1>2. /\ row.row = "assert" /\ row.row # "rejoin"
      /\ row.row # "alu" /\ row.row # "jump" /\ row.row # "branch" /\ row.row # "load" /\ row.row # "store"
      /\ row.op = op /\ row.failure = f /\ row.rs1 = a /\ row.rs2 = o
    BY DEF Assert
<1>3. WellTyped(m)  BY StateTyped
<1> HIDE DEF m, row
<1>4. ~Stopped(rows, m)  BY <1>1, <1>2, Zenon DEF Stopped, row
<1>5. \A y : Moves(rows, m, y) => y = n  BY <1>1, <1>2, Zenon DEF Moves, row
<1> QED BY <1>3, <1>4, <1>5, LeadsStep, Zenon DEF Goes, m

\* and one that does not.
LEMMA AssertStops ==
  ASSUME NEW rows, NEW z, NEW c, Memory(z, c), NEW p, NEW r \in [Reg -> Word],
         NEW op, NEW a, NEW o, rows[p] = Assert(op, "OutOfBounds", a, o),
         Evaluate(op, r[a], Val(r, o)) # 1
  PROVE  Leads(rows, At(p, r, z, c, "none"), At(p, r, z, c, "OutOfBounds"))
<1> DEFINE m   == At(p, r, z, c, "none")
           n   == At(p, r, z, c, "OutOfBounds")
           row == rows[p]
<1>1. m.p = p /\ m.r = r /\ m.z = z /\ m.c = c /\ m.t = "none"  BY DEF At
<1>2. /\ row.row = "assert" /\ row.row # "rejoin"
      /\ row.row # "alu" /\ row.row # "jump" /\ row.row # "branch" /\ row.row # "load" /\ row.row # "store"
      /\ row.op = op /\ row.failure = "OutOfBounds" /\ row.rs1 = a /\ row.rs2 = o
    BY DEF Assert
<1>3. WellTyped(m)  BY StateTyped
<1> HIDE DEF m, row
<1>4. ~Stopped(rows, m)  BY <1>1, <1>2, Zenon DEF Stopped, row
<1>5. \A y : Moves(rows, m, y) => y = n  BY <1>1, <1>2, Zenon DEF Moves, row
<1> QED BY <1>3, <1>4, <1>5, LeadsStep, Zenon DEF Goes, m

\* A jump.
LEMMA JumpGoes ==
  ASSUME NEW rows, NEW z, NEW c, Memory(z, c), NEW p, NEW r \in [Reg -> Word],
         NEW o, rows[p] = Jump(o)
  PROVE  Goes(rows, z, c, p, r, o, r)
<1> DEFINE m   == At(p, r, z, c, "none")
           n   == At(o, r, z, c, "none")
           row == rows[p]
<1>1. m.p = p /\ m.r = r /\ m.z = z /\ m.c = c /\ m.t = "none"  BY DEF At
<1>2. /\ row.row = "jump" /\ row.row # "rejoin"
      /\ row.row # "alu" /\ row.row # "assert" /\ row.row # "branch" /\ row.row # "load" /\ row.row # "store"
      /\ row.target = o
    BY DEF Jump
<1>3. WellTyped(m)  BY StateTyped
<1> HIDE DEF m, row
<1>4. ~Stopped(rows, m)  BY <1>1, <1>2, Zenon DEF Stopped, row
<1>5. \A y : Moves(rows, m, y) => y = n  BY <1>1, <1>2, Zenon DEF Moves, row
<1> QED BY <1>3, <1>4, <1>5, LeadsStep, Zenon DEF Goes, m

\* A branch taken,
LEMMA BranchGoes ==
  ASSUME NEW rows, NEW z, NEW c, Memory(z, c), NEW p, NEW r \in [Reg -> Word],
         NEW op, NEW a, NEW e, NEW o, rows[p] = Branch(op, a, e, o), Evaluate(op, r[a], r[e]) = 1
  PROVE  Goes(rows, z, c, p, r, o, r)
<1> DEFINE m   == At(p, r, z, c, "none")
           n   == At(o, r, z, c, "none")
           row == rows[p]
<1>1. m.p = p /\ m.r = r /\ m.z = z /\ m.c = c /\ m.t = "none"  BY DEF At
<1>2. /\ row.row = "branch" /\ row.row # "rejoin"
      /\ row.row # "alu" /\ row.row # "assert" /\ row.row # "jump" /\ row.row # "load" /\ row.row # "store"
      /\ row.op = op /\ row.target = o /\ row.rs1 = a /\ Val(r, row.rs2) = r[e]
    BY DEF Branch, Val, R
<1>3. WellTyped(m)  BY StateTyped
<1> HIDE DEF m, row
<1>4. ~Stopped(rows, m)  BY <1>1, <1>2, Zenon DEF Stopped, row
<1>5. \A y : Moves(rows, m, y) => y = n  BY <1>1, <1>2, Zenon DEF Moves, row
<1> QED BY <1>3, <1>4, <1>5, LeadsStep, Zenon DEF Goes, m

\* and one not taken.
LEMMA BranchFalls ==
  ASSUME NEW rows, NEW z, NEW c, Memory(z, c), NEW p, NEW r \in [Reg -> Word],
         NEW op, NEW a, NEW e, NEW o, rows[p] = Branch(op, a, e, o), Evaluate(op, r[a], r[e]) # 1
  PROVE  Goes(rows, z, c, p, r, p + 1, r)
<1> DEFINE m   == At(p, r, z, c, "none")
           n   == At(p + 1, r, z, c, "none")
           row == rows[p]
<1>1. m.p = p /\ m.r = r /\ m.z = z /\ m.c = c /\ m.t = "none"  BY DEF At
<1>2. /\ row.row = "branch" /\ row.row # "rejoin"
      /\ row.row # "alu" /\ row.row # "assert" /\ row.row # "jump" /\ row.row # "load" /\ row.row # "store"
      /\ row.op = op /\ row.target = o /\ row.rs1 = a /\ Val(r, row.rs2) = r[e]
    BY DEF Branch, Val, R
<1>3. WellTyped(m)  BY StateTyped
<1> HIDE DEF m, row
<1>4. ~Stopped(rows, m)  BY <1>1, <1>2, Zenon DEF Stopped, row
<1>5. \A y : Moves(rows, m, y) => y = n  BY <1>1, <1>2, Zenon DEF Moves, row
<1> QED BY <1>3, <1>4, <1>5, LeadsStep, Zenon DEF Goes, m

\* A load of the size word,
LEMMA SizeLoadGoes ==
  ASSUME NEW rows, NEW z, NEW c, Memory(z, c), NEW p, NEW r \in [Reg -> Word],
         NEW d, NEW a, NEW o, rows[p] = Load(d, a, o), (r[a] + o) % M = MemorySizeAddr
  PROVE  Goes(rows, z, c, p, r, p + 1, Put(r, d, z))
<1> DEFINE m   == At(p, r, z, c, "none")
           n   == At(p + 1, Put(r, d, z), z, c, "none")
           row == rows[p]
<1>1. m.p = p /\ m.r = r /\ m.z = z /\ m.c = c /\ m.t = "none"  BY DEF At
<1>2. /\ row.row = "load" /\ row.row # "rejoin"
      /\ row.row # "alu" /\ row.row # "assert" /\ row.row # "jump" /\ row.row # "branch" /\ row.row # "store"
      /\ row.rd = d /\ row.rs1 = a /\ row.imm = o
    BY DEF Load
<1>3. WellTyped(m)  BY StateTyped
<1> HIDE DEF m, row
<1>4. ~Stopped(rows, m)  BY <1>1, <1>2, Zenon DEF Stopped, row
<1>5. \A y : Moves(rows, m, y) => y = n  BY <1>1, <1>2, Zenon DEF Moves, row, IsSize
<1> QED BY <1>3, <1>4, <1>5, LeadsStep, Zenon DEF Goes, m

\* and of a cell.
LEMMA CellLoadGoes ==
  ASSUME NEW rows, NEW z, NEW c, Memory(z, c), NEW p, NEW r \in [Reg -> Word],
         NEW d, NEW a, NEW o, rows[p] = Load(d, a, o),
         ~IsSize((r[a] + o) % M), Holds((r[a] + o) % M, c)
  PROVE  Goes(rows, z, c, p, r, p + 1, Put(r, d, c[CellAt((r[a] + o) % M)]))
<1> DEFINE m   == At(p, r, z, c, "none")
           n   == At(p + 1, Put(r, d, c[CellAt((r[a] + o) % M)]), z, c, "none")
           row == rows[p]
<1>1. m.p = p /\ m.r = r /\ m.z = z /\ m.c = c /\ m.t = "none"  BY DEF At
<1>2. /\ row.row = "load" /\ row.row # "rejoin"
      /\ row.row # "alu" /\ row.row # "assert" /\ row.row # "jump" /\ row.row # "branch" /\ row.row # "store"
      /\ row.rd = d /\ row.rs1 = a /\ row.imm = o
    BY DEF Load
<1>3. WellTyped(m)  BY StateTyped
<1> HIDE DEF m, row
<1>4. ~Stopped(rows, m)  BY <1>1, <1>2, Zenon DEF Stopped, row
<1>5. \A y : Moves(rows, m, y) => y = n  BY <1>1, <1>2, Zenon DEF Moves, row
<1> QED BY <1>3, <1>4, <1>5, LeadsStep, Zenon DEF Goes, m

\* A store to the size word,
LEMMA SizeStoreGoes ==
  ASSUME NEW rows, NEW z, NEW c, Memory(z, c), NEW p, NEW r \in [Reg -> Word],
         NEW a, NEW e, NEW o, rows[p] = Store(a, e, o), (r[a] + o) % M = MemorySizeAddr,
         ~Holds(MemorySizeAddr, c)
  PROVE  Leads(rows, At(p, r, z, c, "none"), At(p + 1, r, r[e], Grows(c, Capped(r[e])), "none"))
<1> DEFINE m   == At(p, r, z, c, "none")
           n   == At(p + 1, r, r[e], Grows(c, Capped(r[e])), "none")
           row == rows[p]
<1>1. m.p = p /\ m.r = r /\ m.z = z /\ m.c = c /\ m.t = "none"  BY DEF At
<1>2. /\ row.row = "store" /\ row.row # "rejoin"
      /\ row.row # "alu" /\ row.row # "assert" /\ row.row # "jump" /\ row.row # "branch" /\ row.row # "load"
      /\ row.rs1 = a /\ row.imm = o /\ Val(r, row.rs2) = r[e]
    BY DEF Store, Val, R
<1>3. WellTyped(m)  BY StateTyped
<1> HIDE DEF m, row
<1>4. ~Stopped(rows, m)  BY <1>1, <1>2, Zenon DEF Stopped, row
<1>5. \A y : Moves(rows, m, y) => y = n  BY <1>1, <1>2, Zenon DEF Moves, row, IsSize
<1> QED BY <1>3, <1>4, <1>5, LeadsStep, Zenon DEF Goes, m

\* and to a cell.
LEMMA CellStoreGoes ==
  ASSUME NEW rows, NEW z, NEW c, Memory(z, c), NEW p, NEW r \in [Reg -> Word],
         NEW a, NEW e, NEW o, rows[p] = Store(a, e, o),
         ~IsSize((r[a] + o) % M), Holds((r[a] + o) % M, c), r[e] <= CellMask
  PROVE  Leads(rows, At(p, r, z, c, "none"),
               At(p + 1, r, z, [c EXCEPT ![CellAt((r[a] + o) % M)] = r[e]], "none"))
<1> DEFINE m   == At(p, r, z, c, "none")
           n   == At(p + 1, r, z, [c EXCEPT ![CellAt((r[a] + o) % M)] = r[e]], "none")
           row == rows[p]
<1>1. m.p = p /\ m.r = r /\ m.z = z /\ m.c = c /\ m.t = "none"  BY DEF At
<1>2. /\ row.row = "store" /\ row.row # "rejoin"
      /\ row.row # "alu" /\ row.row # "assert" /\ row.row # "jump" /\ row.row # "branch" /\ row.row # "load"
      /\ row.rs1 = a /\ row.imm = o /\ Val(r, row.rs2) = r[e]
    BY DEF Store, Val, R
<1>3. WellTyped(m)  BY StateTyped
<1> HIDE DEF m, row
<1>4. ~Stopped(rows, m)  BY <1>1, <1>2, Zenon DEF Stopped, row
<1>5. \A y : Moves(rows, m, y) => y = n  BY <1>1, <1>2, Zenon DEF Moves, row
<1> QED BY <1>3, <1>4, <1>5, LeadsStep, Zenon DEF Goes, m

-----------------------------------------------------------------------------
(* Pages, and the cells and bytes they are made of *)

\* A page is a power of two of bytes, four at least.
LEMMA Pages ==
  /\ PageBits \in Nat /\ PageBits < H /\ PageBytes \in Nat /\ PageBytes = 2^PageBits /\ PageBytes >= 4
  /\ (\E n \in Nat : PageBytes = 4 * n) /\ MaxBytes \in Nat /\ MaxBytes <= HalfM
  /\ MaxPages \in Nat /\ MaxBytes = MaxPages * PageBytes
<1>1. PageBits \in Nat /\ PageBits >= 2 /\ PageBits < H /\ MaxPages \in Nat /\ MaxBytes <= HalfM
    BY MemoryAssumption, Sizes
<1>2. PICK d \in Nat : PageBits = d + 2  BY <1>1
<1>3. PICK n \in Nat \ {0} : n = 2^d  BY PowerPositive
<1>4. PageBytes = n * 4  BY PowerSum, <1>2, <1>3, SmallPowers DEF PageBytes
<1>5. PageBytes \in Nat /\ PageBytes = 2^PageBits /\ PageBytes >= 4 /\ PageBytes = 4 * n
    BY <1>3, <1>4 DEF PageBytes
<1>6. MaxBytes \in Nat /\ MaxBytes = MaxPages * PageBytes  BY <1>1, <1>5 DEF MaxBytes
<1> QED BY <1>1, <1>5, <1>6

\* A memory of e cells and the one of slack.
Shape(z, c, e) ==
    /\ z \in Nat /\ e \in Nat /\ z = 4 * e /\ z \div CellBytes = e /\ z <= MaxBytes
    /\ c \in [0 .. e -> 0 .. CellMask] /\ c[e] = 0 /\ DOMAIN c = 0 .. e
    /\ \E p \in 0 .. MaxPages : z = p * PageBytes

\* Pages are whole cells.
LEMMA Multiple ==
  ASSUME NEW p \in Nat
  PROVE  \E e \in Nat : p * PageBytes = 4 * e /\ (p * PageBytes) \div CellBytes = e /\ CellsFor(p * PageBytes) - 1 = e
<1>1. PICK n \in Nat : PageBytes = 4 * n  BY Pages
<1>2. PICK e \in Nat : e = p * n  OBVIOUS
<1>3. p * (4 * n) = 4 * (p * n)  OBVIOUS
<1>4. p * PageBytes = 4 * e  BY <1>1, <1>2, <1>3
<1> HIDE DEF PageBytes
<1>5. (4 * e) \div 4 = e  OBVIOUS
<1> QED BY <1>4, <1>5 DEF CellsFor, CellBytes

\* A memory is e cells of four bytes and the slack one.
LEMMA Shapes == \A z, c : Memory(z, c) <=> \E e : Shape(z, c, e)
<1>1. ASSUME NEW z, NEW c, Memory(z, c) PROVE \E e : Shape(z, c, e)
  <2>1. PICK p \in 0 .. MaxPages : z = p * PageBytes  BY <1>1 DEF Memory
  <2>2. PICK e \in Nat : z = 4 * e /\ z \div CellBytes = e /\ CellsFor(z) - 1 = e  BY <2>1, Multiple, Pages
  <2>3. z <= MaxBytes  BY <2>1, Pages
  <2>4. c \in [0 .. e -> 0 .. CellMask] /\ c[e] = 0  BY <1>1, <2>2, Zenon DEF Memory
  <2> QED BY <2>1, <2>2, <2>3, <2>4 DEF Shape
<1>2. ASSUME NEW z, NEW c, NEW e, Shape(z, c, e) PROVE Memory(z, c)
  <2>1. PICK p \in 0 .. MaxPages : z = p * PageBytes  BY <1>2 DEF Shape
  <2>2. CellsFor(z) - 1 = e /\ z \div CellBytes = e  BY <1>2 DEF Shape, CellsFor
  <2>3. c \in [0 .. e -> 0 .. CellMask] /\ c[e] = 0  BY <1>2 DEF Shape
  <2> QED BY <2>1, <2>2, <2>3, Zenon DEF Memory
<1> QED BY <1>1, <1>2

\* A cell is four bytes.
LEMMA CellIs == CellMask = 2^(ByteBits * 4) - 1 /\ CellMask \in Nat /\ CellMask \in Word /\ CellMask < M /\ 0 .. CellMask \subseteq Word
<1>1. ByteBits * 4 = H  BY Sizes
<1>2. CellMask = HalfM - 1 /\ CellMask \in Nat  BY Sizes DEF CellMask
<1>3. HalfM - 1 < M
  <2>1. PICK h \in Nat : h = HalfM /\ h >= 1 /\ M = h * h  BY Sizes
  <2>2. h * 1 <= h * h  BY <2>1
  <2> QED BY <2>1, <2>2
<1>4. CellMask = 2^(ByteBits * 4) - 1  BY <1>1, <1>2, Sizes
<1> QED BY <1>2, <1>3, <1>4, Sizes DEF Word

\* The bytes f are those of the e cells of c.
Reads(f, c, e) == \A j \in 0 .. e - 1 : \A i \in 0 .. 3 : f[4 * j + i] = Group(c[j], ByteBits, i)

\* The bytes of a memory are the digits of its cells.
LEMMA ByteIs ==
  ASSUME NEW z, NEW c, NEW e, Shape(z, c, e)
  PROVE  /\ DOMAIN BytesOf(z, c) = 0 .. z - 1
         /\ Reads(BytesOf(z, c), c, e)
         /\ \A a \in 0 .. z - 1 : \E j \in 0 .. e - 1, i \in 0 .. 3 : a = 4 * j + i
<1>1. DOMAIN BytesOf(z, c) = 0 .. z - 1  BY DEF BytesOf
<1>2. z = 4 * e /\ z \in Nat /\ e \in Nat  BY DEF Shape
<1>3. ASSUME NEW j \in 0 .. e - 1, NEW i \in 0 .. 3
      PROVE  4 * j + i \in 0 .. z - 1 /\ BytesOf(z, c)[4 * j + i] = Group(c[j], ByteBits, i)
  <2>1. PICK a \in 0 .. z - 1 : a = 4 * j + i  BY <1>2
  <2>2. a \div CellBytes = j /\ a % CellBytes = i  BY <2>1, <1>2 DEF CellBytes
  <2>3. BytesOf(z, c)[a] = (c[j] \div 2^(ByteBits * i)) % 2^ByteBits  BY <2>2, Zenon DEF BytesOf
  <2> QED BY <2>1, <2>3 DEF Group
<1>4. ASSUME NEW a \in 0 .. z - 1 PROVE \E j \in 0 .. e - 1, i \in 0 .. 3 : a = 4 * j + i
  <2>1. a \div 4 \in 0 .. e - 1 /\ a % 4 \in 0 .. 3 /\ a = 4 * (a \div 4) + (a % 4)  BY <1>2
  <2> QED BY <2>1
<1> QED BY <1>1, <1>3, <1>4 DEF Reads

\* The k bytes from r on are those of v from its byte m on.
Patched(f, r, k, m, v) ==
    [a \in DOMAIN f |-> IF a \in r .. r + k - 1 THEN Group(v, ByteBits, m + (a - r)) ELSE f[a]]

\* The k groups of w are those of v from its group m on.
Window(w, k, m, v) ==
    /\ w \in 0 .. 2^(ByteBits * k) - 1
    /\ \A t \in 0 .. k - 1 : Group(w, ByteBits, t) = Group(v, ByteBits, m + t)

\* A splice of a cell is a patch of the bytes.
LEMMA PatchCell ==
  ASSUME NEW z, NEW c, NEW e, Shape(z, c, e), NEW j \in 0 .. e - 1,
         NEW i \in Nat, NEW k \in Nat,
         i + k <= 4, NEW m \in Nat, NEW v \in Nat, NEW w, Window(w, k, m, v),
         NEW y, y = Splice(c[j], ByteBits, i, k, w)
  PROVE  /\ y \in 0 .. CellMask /\ Shape(z, [c EXCEPT ![j] = y], e)
         /\ BytesOf(z, [c EXCEPT ![j] = y]) = Patched(BytesOf(z, c), 4 * j + i, k, m, v)
<1>1. /\ c \in [0 .. e -> 0 .. CellMask] /\ e \in Nat /\ c[j] \in 0 .. CellMask
      /\ c[e] = 0 /\ z \in Nat /\ z = 4 * e /\ z \div CellBytes = e /\ z <= MaxBytes
      /\ \E p \in 0 .. MaxPages : z = p * PageBytes
    BY DEF Shape
<1>2. ByteBits \in Nat /\ CellMask \in Nat /\ c[j] \in Nat  BY <1>1, Sizes, CellIs
<1>3. w \in 0 .. 2^(ByteBits * k) - 1 /\ \A t \in 0 .. k - 1 : Group(w, ByteBits, t) = Group(v, ByteBits, m + t)
    BY DEF Window
<1>4. y \in 0 .. CellMask  BY <1>1, CellIs, <1>2, <1>3, SpliceBelow
<1> DEFINE d == [c EXCEPT ![j] = y]
<1>5. d \in [0 .. e -> 0 .. CellMask] /\ DOMAIN d = 0 .. e /\ d[j] = y /\ \A x \in 0 .. e : x # j => d[x] = c[x]
    BY <1>1, <1>4
<1> HIDE DEF d
<1>6. Shape(z, d, e)
  <2>1. d[e] = 0  BY <1>1, <1>5
  <2> QED BY <1>1, <1>5, <2>1 DEF Shape
<1>7. \A l \in Nat : Group(y, ByteBits, l)
              = IF i <= l /\ l < i + k THEN Group(w, ByteBits, l - i) ELSE Group(c[j], ByteBits, l)
  <2>1. Replaced(Splice(c[j], ByteBits, i, k, w), c[j], ByteBits, i, k, w)  BY <1>2, <1>3, SpliceGroups, Zenon
  <2> QED BY <2>1 DEF Replaced
<1> DEFINE r == 4 * j + i
           f == BytesOf(z, c)
           g == BytesOf(z, d)
<1>8. DOMAIN f = 0 .. z - 1 /\ DOMAIN g = 0 .. z - 1  BY <1>6, ByteIs
<1>9. ASSUME NEW a \in 0 .. z - 1
      PROVE  g[a] = IF a \in r .. r + k - 1 THEN Group(v, ByteBits, m + (a - r)) ELSE f[a]
  <2>1. PICK q \in 0 .. e - 1, l \in 0 .. 3 : a = 4 * q + l  BY ByteIs
  <2>2. f[a] = Group(c[q], ByteBits, l) /\ g[a] = Group(d[q], ByteBits, l)
    <3>1. Reads(f, c, e) /\ Reads(g, d, e)  BY <1>6, ByteIs
    <3>2. f[4 * q + l] = Group(c[q], ByteBits, l) /\ g[4 * q + l] = Group(d[q], ByteBits, l)
        BY <3>1, Zenon DEF Reads
    <3> QED BY <2>1, <3>2, Zenon
  <2> HIDE DEF f, g
  <2>3. CASE q # j
    <3>1. ~(a \in r .. r + k - 1)  BY <2>1, <2>3
    <3>2. q \in 0 .. e  BY <1>1
    <3> QED BY <1>5, <2>2, <2>3, <3>1, <3>2
  <2>4. CASE q = j  BY <2>1, <2>4, <1>5, <1>7, <2>2, <1>3
  <2> QED BY <2>3, <2>4
<1>10. g = Patched(f, r, k, m, v)
  <2>1. g = [a \in 0 .. z - 1 |-> g[a]]  BY DEF g, BytesOf
  <2> HIDE DEF f, g
  <2> QED BY <1>8, <1>9, <2>1 DEF Patched
<1> QED BY <1>4, <1>6, <1>10 DEF d

Patches(f, r, k, m, v, g) == g = Patched(f, r, k, m, v)

\* Two patches, one after the other, are one.
LEMMA PatchTwice ==
  ASSUME NEW f, Indexed(f), NEW v,
         NEW r, NEW k, NEW n, NEW m, NEW x, NEW y, NEW t, RowsFollow(r, k, n, m, x, y, t),
         NEW g, Patches(f, r, k, m, v, g), NEW h, Patches(g, x, n, y, v, h)
  PROVE  Patches(f, r, t, m, v, h)
<1>0. g = Patched(f, r, k, m, v) /\ h = Patched(g, x, n, y, v) /\ DOMAIN f \subseteq Nat
      /\ r \in Nat /\ k \in Nat /\ n \in Nat /\ m \in Nat /\ x = r + k /\ y = m + k /\ t = k + n
    BY DEF Patches, Indexed, RowsFollow
<1>1. DOMAIN g = DOMAIN f /\ DOMAIN h = DOMAIN f  BY <1>0 DEF Patched
<1>2. ASSUME NEW a \in DOMAIN f
      PROVE  h[a] = IF a \in r .. r + t - 1 THEN Group(v, ByteBits, m + (a - r)) ELSE f[a]
    BY <1>0, <1>1 DEF Patched
<1>3. h = [a \in DOMAIN f |-> h[a]]  BY <1>0, <1>1 DEF Patched
<1> QED BY <1>1, <1>2, <1>3 DEF Patches, Patched

\* n bytes of f from r on are those of x from its byte l on.
Reading(f, r, n, x, l) == Spelled(f, r, ByteBits, n) = (x \div 2^(ByteBits * l)) % 2^(ByteBits * n)

\* Bytes that are the digits of a word from the l-th on spell it there.
LEMMA SpellWindow ==
  ASSUME NEW f, NEW x \in Nat, NEW r \in Nat, NEW l \in Nat, NEW n \in Nat,
         \A t \in 0 .. n - 1 : f[r + t] = Group(x, ByteBits, l + t)
  PROVE  Reading(f, r, n, x, l)
<1>1. ByteBits \in Nat  BY Sizes
<1>2. PICK y \in Nat : y = x \div 2^(ByteBits * l)  BY <1>1, JoinsSplit
<1>3. \A t \in 0 .. n - 1 : f[r + t] = Group(y, ByteBits, t)
  <2> SUFFICES ASSUME NEW t \in 0 .. n - 1 PROVE f[r + t] = Group(y, ByteBits, t)
      OBVIOUS
  <2>1. t \in Nat  OBVIOUS
  <2>2. Skips(y, x, ByteBits, l)  BY <1>1, <1>2, GroupSkip, Zenon
  <2> QED BY <2>1, <2>2 DEF Skips
<1>4. y \in Int  BY <1>2
<1>5. Spells(f, r, ByteBits, n, y)  BY <1>1, <1>3, <1>4, SpelledIs, Zenon
<1> QED BY <1>2, <1>5, Zenon DEF Spells, Reading

\* Two cells side by side.
Pair(x, y) == y * HalfM + x

\* Two cells side by side are a word of eight bytes.
LEMMA PairJoins ==
  ASSUME NEW x \in 0 .. CellMask, NEW y \in Nat
  PROVE  /\ Pair(x, y) \in Nat
         /\ Beside(Pair(x, y), ByteBits, 4, y, x)
<1>1. ByteBits \in Nat /\ HalfM = 2^(ByteBits * 4) /\ HalfM \in Nat /\ x < HalfM /\ 4 \in Nat /\ x \in Nat
    BY Sizes DEF CellMask
<1>2. PICK u \in Nat : u = Pair(x, y) /\ u = y * HalfM + x  BY <1>1 DEF Pair
<1>3. Joins(u, ByteBits, 4, y, x)  BY <1>1, <1>2 DEF Joins
<1>4. Beside(u, ByteBits, 4, y, x)  BY <1>1, <1>2, <1>3, JoinsGroups, Zenon
<1> QED BY <1>2, <1>4

\* The bytes of an access within a cell are digits of the cell,
LEMMA SpellOne ==
  ASSUME NEW z, NEW c, NEW e, Shape(z, c, e), NEW q \in Nat, NEW l \in 0 .. 3, NEW n \in Nat \ {0},
         l + n <= 4, 4 * q + l + n <= z
  PROVE  /\ q \in 0 .. e - 1 /\ c[q] \in 0 .. CellMask
         /\ Reading(BytesOf(z, c), 4 * q + l, n, c[q], l)
<1>1. q \in 0 .. e - 1 /\ c[q] \in 0 .. CellMask /\ c[q] \in Nat  BY CellIs DEF Shape
<1>2. Reads(BytesOf(z, c), c, e)  BY ByteIs
<1>3. ASSUME NEW t \in 0 .. n - 1 PROVE BytesOf(z, c)[(4 * q + l) + t] = Group(c[q], ByteBits, l + t)
    BY <1>1, <1>2 DEF Reads
<1>4. 4 * q + l \in Nat /\ l \in Nat /\ n \in Nat  OBVIOUS
<1> QED BY <1>1, <1>3, <1>4, SpellWindow, Zenon

\* those of one across two cells, digits of the pair,
LEMMA SpellTwo ==
  ASSUME NEW z, NEW c, NEW e, Shape(z, c, e), NEW q \in Nat, NEW l \in 0 .. 3, NEW n \in Nat,
         4 < l + n, l + n <= 8, 4 * q + l + n <= z
  PROVE  /\ q \in 0 .. e - 1 /\ q + 1 \in 0 .. e - 1 /\ c[q] \in 0 .. CellMask /\ c[q + 1] \in 0 .. CellMask
         /\ Reading(BytesOf(z, c), 4 * q + l, n, Pair(c[q], c[q + 1]), l)
<1>1. /\ q \in 0 .. e - 1 /\ q + 1 \in 0 .. e - 1 /\ c[q] \in 0 .. CellMask /\ c[q] \in Nat
      /\ c[q + 1] \in 0 .. CellMask /\ c[q + 1] \in Nat
    BY CellIs DEF Shape
<1>2. Reads(BytesOf(z, c), c, e)  BY ByteIs
<1>3. PICK x \in Nat : x = Pair(c[q], c[q + 1])  BY <1>1, PairJoins
<1>4. Beside(x, ByteBits, 4, c[q + 1], c[q])  BY <1>1, <1>3, PairJoins
<1>5. ASSUME NEW t \in 0 .. n - 1 PROVE BytesOf(z, c)[(4 * q + l) + t] = Group(x, ByteBits, l + t)
  <2>1. CASE l + t < 4
    <3>1. l + t \in 0 .. 3 /\ l + t \in Nat  BY <2>1
    <3>2. BytesOf(z, c)[4 * q + (l + t)] = Group(c[q], ByteBits, l + t)  BY <1>1, <1>2, <3>1, Zenon DEF Reads
    <3>3. 4 * q + (l + t) = (4 * q + l) + t  OBVIOUS
    <3>4. Group(x, ByteBits, l + t) = Group(c[q], ByteBits, l + t)  BY <1>4, <2>1, <3>1 DEF Beside
    <3> QED BY <3>2, <3>3, <3>4
  <2>2. CASE ~(l + t < 4)
    <3>1. l + t - 4 \in 0 .. 3 /\ l + t \in Nat  BY <2>2
    <3>2. BytesOf(z, c)[4 * (q + 1) + (l + t - 4)] = Group(c[q + 1], ByteBits, l + t - 4)
        BY <1>1, <1>2, <3>1, Zenon DEF Reads
    <3>3. 4 * (q + 1) + (l + t - 4) = (4 * q + l) + t  OBVIOUS
    <3>4. Group(x, ByteBits, l + t) = Group(c[q + 1], ByteBits, l + t - 4)  BY <1>4, <2>2, <3>1 DEF Beside
    <3> QED BY <3>2, <3>3, <3>4
  <2> QED BY <2>1, <2>2
<1>6. 4 * q + l \in Nat /\ l \in Nat  OBVIOUS
<1>7. Reading(BytesOf(z, c), 4 * q + l, n, x, l)  BY <1>5, <1>6, SpellWindow, Zenon
<1> QED BY <1>1, <1>3, <1>7

\* and those across three, of the pair of pairs.
LEMMA SpellThree ==
  ASSUME NEW z, NEW c, NEW e, Shape(z, c, e), NEW q \in Nat, NEW l \in 0 .. 3, NEW n \in Nat,
         8 < l + n, l + n <= 12, 4 * q + l + n <= z
  PROVE  /\ q \in 0 .. e - 1 /\ q + 1 \in 0 .. e - 1 /\ q + 2 \in 0 .. e - 1
         /\ c[q] \in 0 .. CellMask /\ c[q + 1] \in 0 .. CellMask /\ c[q + 2] \in 0 .. CellMask
         /\ Reading(BytesOf(z, c), 4 * q + l, n, Pair(c[q], Pair(c[q + 1], c[q + 2])), l)
<1>1. /\ q \in 0 .. e - 1 /\ q + 1 \in 0 .. e - 1 /\ c[q] \in 0 .. CellMask /\ c[q] \in Nat
      /\ c[q + 1] \in 0 .. CellMask /\ c[q + 1] \in Nat
      /\ q + 2 \in 0 .. e - 1 /\ c[q + 2] \in 0 .. CellMask /\ c[q + 2] \in Nat
    BY CellIs DEF Shape
<1>2. Reads(BytesOf(z, c), c, e)  BY ByteIs
<1>3. PICK y \in Nat : y = Pair(c[q + 1], c[q + 2])  BY <1>1, PairJoins
<1>4. Beside(y, ByteBits, 4, c[q + 2], c[q + 1])  BY <1>1, <1>3, PairJoins
<1>5. PICK x \in Nat : x = Pair(c[q], y)  BY <1>1, PairJoins
<1>6. Beside(x, ByteBits, 4, y, c[q])  BY <1>1, <1>5, PairJoins
<1>7. ASSUME NEW t \in 0 .. n - 1 PROVE BytesOf(z, c)[(4 * q + l) + t] = Group(x, ByteBits, l + t)
  <2>1. CASE l + t < 4
    <3>1. l + t \in 0 .. 3 /\ l + t \in Nat  BY <2>1
    <3>2. BytesOf(z, c)[4 * q + (l + t)] = Group(c[q], ByteBits, l + t)  BY <1>1, <1>2, <3>1, Zenon DEF Reads
    <3>3. 4 * q + (l + t) = (4 * q + l) + t  OBVIOUS
    <3>4. Group(x, ByteBits, l + t) = Group(c[q], ByteBits, l + t)  BY <1>6, <2>1, <3>1 DEF Beside
    <3> QED BY <3>2, <3>3, <3>4
  <2>2. CASE ~(l + t < 4) /\ l + t < 8
    <3>1. l + t - 4 \in 0 .. 3 /\ l + t \in Nat /\ l + t - 4 \in Nat  BY <2>2
    <3>2. BytesOf(z, c)[4 * (q + 1) + (l + t - 4)] = Group(c[q + 1], ByteBits, l + t - 4)
        BY <1>1, <1>2, <3>1, Zenon DEF Reads
    <3>3. 4 * (q + 1) + (l + t - 4) = (4 * q + l) + t  OBVIOUS
    <3>4. Group(x, ByteBits, l + t) = Group(y, ByteBits, l + t - 4)  BY <1>6, <2>2, <3>1 DEF Beside
    <3>5. Group(y, ByteBits, l + t - 4) = Group(c[q + 1], ByteBits, l + t - 4)  BY <1>4, <2>2, <3>1 DEF Beside
    <3> QED BY <3>2, <3>3, <3>4, <3>5
  <2>3. CASE ~(l + t < 8)
    <3>1. l + t - 8 \in 0 .. 3 /\ l + t \in Nat /\ l + t - 4 \in Nat /\ l + t - 4 - 4 = l + t - 8  BY <2>3
    <3>2. BytesOf(z, c)[4 * (q + 2) + (l + t - 8)] = Group(c[q + 2], ByteBits, l + t - 8)
        BY <1>1, <1>2, <3>1, Zenon DEF Reads
    <3>3. 4 * (q + 2) + (l + t - 8) = (4 * q + l) + t  OBVIOUS
    <3>4. Group(x, ByteBits, l + t) = Group(y, ByteBits, l + t - 4)  BY <1>6, <2>3, <3>1 DEF Beside
    <3>5. Group(y, ByteBits, l + t - 4) = Group(c[q + 2], ByteBits, l + t - 8)  BY <1>4, <2>3, <3>1 DEF Beside
    <3> QED BY <3>2, <3>3, <3>4, <3>5
  <2> QED BY <2>1, <2>2, <2>3
<1>8. 4 * q + l \in Nat /\ l \in Nat  OBVIOUS
<1>9. Reading(BytesOf(z, c), 4 * q + l, n, x, l)  BY <1>7, <1>8, SpellWindow, Zenon
<1> QED BY <1>1, <1>3, <1>5, <1>9

-----------------------------------------------------------------------------
(* The digits of a cell, and the bytes an access takes from it *)

BP(j) == 2^(ByteBits * j)

\* The powers of a byte, up to a word's.
LEMMA BytePowers ==
  /\ \A j \in Nat : BP(j) \in Nat \ {0} /\ ByteBits * j \in Nat
  /\ \A i, j \in Nat : BP(i + j) = BP(i) * BP(j)
  /\ BP(0) = 1 /\ BP(4) = HalfM /\ BP(8) = M
  /\ \A j \in 0 .. 8 : ByteBits * j <= Bits /\ BP(j) <= M /\ BP(j) - 1 \in Word
  /\ \A j \in 0 .. 7 : ByteBits * j < Bits /\ BP(j) \in Word
<1>1. ByteBits \in Nat /\ ByteBits >= 2 /\ ByteBits * 4 = H /\ ByteBits * 8 = Bits  BY Sizes
<1>2. ASSUME NEW j \in Nat PROVE BP(j) \in Nat \ {0} /\ ByteBits * j \in Nat
    BY <1>1, PowerPositive DEF BP
<1>3. ASSUME NEW i \in Nat, NEW j \in Nat PROVE BP(i + j) = BP(i) * BP(j)  BY <1>1, PowerSum DEF BP
<1>4. BP(0) = 1 /\ BP(4) = HalfM /\ BP(8) = M
  <2>1. ByteBits * 0 = 0  BY <1>1
  <2>2. BP(0) = 1  BY <2>1, Zeroth DEF BP
  <2> QED BY <1>1, <2>2, Sizes DEF BP
<1>5. ASSUME NEW j \in 0 .. 8 PROVE ByteBits * j <= Bits /\ BP(j) <= M /\ BP(j) - 1 \in Word
  <2>1. PICK e \in Nat : e = ByteBits * j /\ e <= Bits  BY <1>1
  <2>2. 2^e <= 2^Bits  BY <2>1, Sizes, PowerMonotone
  <2>3. BP(j) <= M  BY <2>1, <2>2, Sizes DEF BP
  <2>4. BP(j) \in Nat \ {0}  BY <1>2
  <2> QED BY <2>1, <2>3, <2>4, Sizes DEF Word
<1>6. ASSUME NEW j \in 0 .. 7 PROVE ByteBits * j < Bits /\ BP(j) \in Word
  <2>1. PICK e \in Nat : e = ByteBits * j /\ e < Bits  BY <1>1
  <2>2. 2^e + 2^e <= 2^Bits  BY <2>1, Sizes, PowerDoubles
  <2>3. BP(j) \in Nat \ {0}  BY <1>2
  <2>4. BP(j) < M  BY <2>1, <2>2, <2>3, Sizes DEF BP
  <2> QED BY <2>1, <2>3, <2>4, Sizes DEF Word
<1> QED BY <1>2, <1>3, <1>4, <1>5, <1>6

\* The powers that l bytes of a cell are moved by.
Lanes(l, p, q, r) ==
    /\ p = BP(l) /\ q = BP(4 - l) /\ r = BP(8 - l)
    /\ p \in Nat \ {0} /\ q \in Nat \ {0} /\ r \in Nat \ {0}
    /\ HalfM = q * p /\ r = HalfM * q /\ M = p * r /\ r <= M

\* Those of a lane and of what is left of the cell.
LEMMA LanePowers == \A l \in 0 .. 4 : \E p, q, r \in Nat \ {0} : Lanes(l, p, q, r)
<1> SUFFICES ASSUME NEW l \in 0 .. 4 PROVE \E p, q, r \in Nat \ {0} : Lanes(l, p, q, r)
    OBVIOUS
<1>1. PICK i, j \in Nat : i = 4 - l /\ j = 8 - l /\ i + l = 4 /\ 4 + i = j /\ l + j = 8 /\ j \in 0 .. 8
    OBVIOUS
<1>2. BP(i + l) = BP(i) * BP(l) /\ BP(4 + i) = BP(4) * BP(i) /\ BP(l + j) = BP(l) * BP(j)
  <2>1. l \in Nat /\ 4 \in Nat  OBVIOUS
  <2> QED BY <1>1, <2>1, BytePowers, Zenon
<1>3. PICK p, q, r \in Nat \ {0} : p = BP(l) /\ q = BP(i) /\ r = BP(j)
  <2>1. l \in Nat  OBVIOUS
  <2> QED BY <1>1, <2>1, BytePowers
<1>4. r <= M  BY <1>1, <1>3, BytePowers
<1>5. HalfM = q * p /\ r = HalfM * q /\ M = p * r  BY <1>1, <1>2, <1>3, BytePowers
<1> QED BY <1>1, <1>3, <1>4, <1>5 DEF Lanes

\* What is left of a cell, and a multiple of what is taken.
LEMMA Shifted ==
  ASSUME NEW l, NEW p \in Nat \ {0}, NEW q \in Nat \ {0}, NEW r, Lanes(l, p, q, r),
         NEW x \in 0 .. CellMask, NEW y \in Nat
  PROVE  /\ x \div p \in 0 .. q - 1
         /\ Pair(x, y) \div p = y * q + (x \div p)
<1>1. HalfM = q * p  BY DEF Lanes
<1>2. x \in Nat /\ x < q * p  BY <1>1, Sizes DEF CellMask
<1>3. PICK k \in Nat, a \in 0 .. p - 1 : k = x \div p /\ x = p * k + a
  <2>1. x \in Int  BY <1>2
  <2>2. x \div p \in Int /\ x % p \in 0 .. p - 1 /\ x = p * (x \div p) + (x % p)  BY <2>1, Parts, Zenon
  <2>3. x \div p \in Nat  BY <1>2, QuotientBelow
  <2> QED BY <2>2, <2>3
<1>4. k < q
  <2>1. SUFFICES ASSUME k >= q PROVE FALSE  OBVIOUS
  <2>2. p * k >= p * q  BY <2>1
  <2>3. p * q = q * p  OBVIOUS
  <2> QED BY <1>2, <1>3, <2>2, <2>3
<1>5. Pair(x, y) \div p = y * q + k
  <2>1. PICK d \in Nat : d = y * q  OBVIOUS
  <2>2. y * HalfM = p * d  BY <1>1, <2>1, Ring
  <2>3. p * (d + k) = p * d + p * k  OBVIOUS
  <2>4. PICK u, w, t \in Int : u = p * d /\ w = p * k /\ t = p * (d + k)  OBVIOUS
  <2>5. Pair(x, y) = p * (d + k) + a /\ Pair(x, y) \in Int  BY <1>3, <2>2, <2>3, <2>4 DEF Pair
  <2>6. d + k \in Int /\ p > 0 /\ p \in Nat  OBVIOUS
  <2>7. Pair(x, y) \div p = d + k  BY <2>5, <2>6, Quotient, Zenon
  <2> QED BY <2>1, <2>7
<1> QED BY <1>3, <1>4, <1>5

\* The word of a product that fits.
LEMMA Fits ==
  ASSUME NEW x \in Nat, NEW y \in Nat, x * y < M
  PROVE  MulWrap(x, y) = x * y /\ x * y \in Word
<1>1. PICK z \in Nat : z = x * y /\ z \in 0 .. M - 1  BY Sizes
<1>2. MulWrap(x, y) = z % M  BY <1>1, MulWraps
<1> QED BY <1>1, <1>2, Sizes, RemainderSmall DEF Word

\* Two cells of an unaligned load: the first shifted down, the second up.
LEMMA TwoCells ==
  ASSUME NEW l \in 0 .. 4, NEW p \in Nat \ {0}, NEW q \in Nat \ {0}, NEW r \in Nat \ {0},
         Lanes(l, p, q, r),
         NEW x \in 0 .. CellMask, NEW y \in 0 .. CellMask
  PROVE  /\ x \div p \in Word
         /\ MulWrap(y, q) = y * q /\ y * q \in Word
         /\ (x \div p | y * q) = Pair(x, y) \div p
         /\ Pair(x, y) \div p \in Word
         /\ Pair(x, y) \div p \in 0 .. r - 1
<1>1. PICK h \in Nat : h = HalfM  BY Sizes
<1>2. r = h * q /\ h * q <= M  BY <1>1 DEF Lanes
<1>3. PICK k \in 0 .. q - 1 : k = x \div p /\ Pair(x, y) \div p = y * q + k  BY CellIs, Shifted
<1>4. y + 1 <= h /\ y \in Nat  BY <1>1, CellIs DEF CellMask
<1>5. PICK t \in Nat : t = y * q /\ t + q <= h * q  BY <1>4
<1>6. MulWrap(y, q) = t /\ t \in Word
  <2>1. y * q < M  BY <1>2, <1>5, Sizes
  <2>2. MulWrap(y, q) = y * q /\ y * q \in Word  BY <1>4, <2>1, Fits, Zenon
  <2> QED BY <1>5, <2>2
<1>7. (k | t) = k + t
  <2>1. PICK g \in Nat : g = ByteBits * (4 - l)
    <3>1. 4 - l \in Nat  OBVIOUS
    <3> QED BY <3>1, BytePowers
  <2>2. k \in 0 .. 2^g - 1 /\ q = 2^g  BY <1>3, <2>1 DEF BP, Lanes
  <2>3. (k | y * 2^g) = k + y * 2^g  BY <1>4, <2>1, <2>2, OrApart, Zenon
  <2> QED BY <1>5, <2>2, <2>3
<1>8. k + t \in 0 .. h * q - 1 /\ k + t \in Word /\ k \in Word  BY <1>2, <1>3, <1>5, Sizes DEF Word
<1> QED BY <1>2, <1>3, <1>5, <1>6, <1>7, <1>8

\* The third cell of an unaligned load of eight bytes.
LEMMA ThreeCells ==
  ASSUME NEW l \in 0 .. 4, NEW p \in Nat \ {0}, NEW q \in Nat \ {0}, NEW r \in Nat \ {0},
         Lanes(l, p, q, r),
         NEW x \in 0 .. CellMask, NEW y \in 0 .. CellMask, NEW w \in 0 .. CellMask
  PROVE  \E v \in Word : /\ MulWrap(w * q, HalfM) = v
                         /\ (Pair(x, y) \div p | v) = (Pair(x, Pair(y, w)) \div p) % M
                         /\ (Pair(x, Pair(y, w)) \div p) % M \in Word
<1>1. PICK h \in Nat \ {0} : h = HalfM  BY Sizes
<1>2. r = h * q /\ M = p * r /\ h = q * p  BY <1>1 DEF Lanes
<1>4. x \in Nat /\ y \in Nat /\ w \in Nat /\ w \in Int  BY CellIs
<1>5. PICK k \in 0 .. r - 1 : k = Pair(x, y) \div p  BY TwoCells
<1>6. PICK a \in 0 .. p - 1, i \in Nat : a = w % p /\ w = p * i + a
  <2>1. w \div p \in Int /\ w % p \in 0 .. p - 1 /\ w = p * (w \div p) + (w % p)  BY <1>4, Parts, Zenon
  <2>2. w \div p \in Nat  BY <1>4, QuotientBelow
  <2> QED BY <2>1, <2>2
<1>7. MulWrap(w * q, h) = a * r
  <2>1. PICK t \in Nat : t = w * q  BY <1>4
  <2>2. MulWrap(t, h) = (t * h) % M  BY MulWraps
  <2>3. t * h = w * r  BY <1>4, <1>2, <2>1
  <2>4. (w * r) % (p * r) = (w % p) * r  BY <1>4, RemainderScale, Zenon
  <2> QED BY <1>2, <1>6, <2>1, <2>2, <2>3, <2>4
<1>8. PICK g \in Nat : g = a * r /\ g + r <= M  BY <1>6, <1>2
<1>9. (k | g) = k + g
  <2>1. PICK d \in Nat : d = ByteBits * (8 - l)
    <3>1. 8 - l \in Nat  OBVIOUS
    <3> QED BY <3>1, BytePowers
  <2>2. k \in 0 .. 2^d - 1 /\ r = 2^d /\ a \in Nat  BY <1>5, <1>6, <2>1 DEF BP, Lanes
  <2>3. (k | a * 2^d) = k + a * 2^d  BY <2>1, <2>2, OrApart, Zenon
  <2> QED BY <1>8, <2>2, <2>3
<1>10. (Pair(x, Pair(y, w)) \div p) % M = k + g
  <2>1. PICK s, t \in Nat : s = Pair(y, w) /\ s = w * h + y /\ t = x \div p
    <3>1. w * h + y \in Nat  BY <1>4
    <3>2. x \div p \in Nat  BY <1>4, QuotientBelow
    <3> QED BY <1>1, <3>1, <3>2 DEF Pair
  <2>2. Pair(x, s) \div p = s * q + t  BY Shifted, <2>1
  <2>3. k = y * q + t  BY <1>4, Shifted, <1>5, <2>1
  <2>4. s * q = w * r + y * q  BY <1>4, <1>2, <2>1
  <2>5. PICK b, o, u \in Nat : b = y * q /\ o = M * i /\ u = w * r  BY <1>4, Sizes
  <2>6. u = o + g
    <3>1. (p * i + a) * r = (p * i) * r + a * r /\ (p * i) * r = (p * r) * i  BY <1>6
    <3> QED BY <1>2, <1>6, <1>8, <2>5, <3>1
  <2>8. Pair(x, s) \div p = o + (k + g)  BY <2>1, <2>2, <2>3, <2>4, <2>5, <2>6
  <2>9. k + g \in 0 .. M - 1  BY <1>8, Sizes
  <2>10. Pair(x, s) \div p \in Int /\ M > 0 /\ M \in Nat /\ i \in Int /\ Pair(x, s) \div p = M * i + (k + g)
      BY <2>5, <2>8, <2>9, Sizes
  <2>11. (Pair(x, s) \div p) % M = k + g  BY <2>9, <2>10, Remainder
  <2> QED BY <2>1, <2>11
<1>11. k + g \in Word /\ g \in Word  BY <1>8, Sizes DEF Word
<1>12. /\ MulWrap(w * q, HalfM) = g
       /\ (Pair(x, y) \div p | g) = (Pair(x, Pair(y, w)) \div p) % M
       /\ (Pair(x, Pair(y, w)) \div p) % M \in Word
    BY <1>1, <1>5, <1>7, <1>8, <1>9, <1>10, <1>11
<1> QED BY <1>11, <1>12

\* Its two's complement in words.
LEMMA SignWords ==
  ASSUME NEW k \in Nat \ {0}, k <= Bits, NEW v \in 0 .. 2^k - 1
  PROVE  /\ Unsigned(Bits, Signed(k, v)) = Extended(v, k, Bits, TRUE)
         /\ k <= H => Unsigned(Bits, Signed(k, v)) % HalfM = Extended(v, k, H, TRUE)
         /\ Unsigned(Bits, Signed(k, v)) \in Word
<1>1. PICK w, h \in Nat \ {0} : w = 2^k /\ h = 2^(k - 1) /\ h < w /\ w <= M
    BY Halves, Sizes, PowerMonotone
<1>2. v \in 0 .. w - 1 /\ v \in Int  BY <1>1
<1>3. PICK t \in Int : t = Signed(k, v) /\ t = IF v < h THEN v ELSE v - w  BY <1>1, <1>2 DEF Signed
<1>4. Unsigned(Bits, t) = t % M  BY Sizes DEF Unsigned
<1>5. t % M \in 0 .. M - 1 /\ M \in Nat \ {0} /\ HalfM \in Nat \ {0} /\ M = HalfM * HalfM
    BY <1>3, Sizes, Parts
<1>6. (t % M) % HalfM = t % HalfM  BY <1>3, <1>5, RemainderTwice
<1>7. v < M /\ v % M = v  BY <1>1, <1>2, Sizes, RemainderSmall
<1>8. k <= H => v % HalfM = v
  <2> SUFFICES ASSUME k <= H PROVE v % HalfM = v
      OBVIOUS
  <2>1. 2^k <= 2^H  BY Sizes, PowerMonotone
  <2> QED BY <1>1, <1>2, <2>1, Sizes, RemainderSmall
<1>9. Extended(v, k, Bits, TRUE) = (IF v >= h THEN (v - w) % M ELSE v)
      /\ Extended(v, k, H, TRUE) = (IF v >= h THEN (v - w) % HalfM ELSE v)
    BY Sizes, <1>1 DEF Extended
<1>10. t % M \in Word  BY <1>5 DEF Word
<1>11. CASE v < h
  <2>1. t = v /\ ~(v >= h)  BY <1>2, <1>3, <1>11
  <2> QED BY <1>3, <1>4, <1>6, <1>7, <1>8, <1>9, <1>10, <2>1
<1>12. CASE ~(v < h)
  <2>1. t = v - w /\ v >= h  BY <1>2, <1>3, <1>12
  <2> QED BY <1>3, <1>4, <1>6, <1>9, <1>10, <2>1
<1> QED BY <1>11, <1>12

\* The words sign_extend_rows makes: the low k bits moved to the top and back.
LEMMA SignMovedWord ==
  ASSUME NEW k \in Nat \ {0}, k < Bits, NEW x \in Word
  PROVE  /\ 2^(Bits - k) \in Word /\ Bits - k \in Nat /\ Bits - k < Bits
         /\ MulWrap(x, 2^(Bits - k)) \in Word
         /\ Evaluate("Sra", MulWrap(x, 2^(Bits - k)), ShiftMask(Bits - k))
               = Unsigned(Bits, Signed(k, x % 2^k))
<1>1. PICK up \in Nat : up = Bits - k /\ k + up = Bits /\ up < Bits  BY Sizes
<1>2. PICK p, w \in Nat \ {0} : p = 2^up /\ w = 2^k /\ M = w * p
  <2>1. 2^(k + up) = 2^k * 2^up  BY <1>1, PowerSum, Zenon
  <2> QED BY <1>1, <2>1, PowerPositive, Sizes
<1>3. x \in Nat /\ x \in Int  BY Sizes DEF Word
<1>4. PICK z \in 0 .. w - 1 : z = x % w  BY <1>3, Parts
<1>5. MulWrap(x, p) = z * p
  <2>1. (x * p) % (w * p) = (x % w) * p  BY <1>3, RemainderScale, Zenon
  <2>2. MulWrap(x, p) = (x * p) % M  BY <1>3, MulWraps
  <2> QED BY <1>2, <1>4, <2>1, <2>2
<1>6. z * p \in 0 .. 2^Bits - 1 /\ Signed(Bits, z * p) \div p = Signed(k, z)
  <2>1. z \in 0 .. 2^k - 1  BY <1>2
  <2>2. z * 2^up \in 0 .. 2^(k + up) - 1 /\ Signed(k + up, z * 2^up) \div 2^up = Signed(k, z)
      BY <2>1, SignMoved, Zenon
  <2> QED BY <1>1, <1>2, <2>2
<1>7. z * p \in Word  BY <1>6, Sizes DEF Word
<1>8. Evaluate("Sra", z * p, ShiftMask(up)) = Unsigned(Bits, Signed(Bits, z * p) \div 2^up) /\ 2^up \in Word
    BY <1>1, <1>7, ShiftIs, Zenon
<1> QED BY <1>1, <1>2, <1>4, <1>5, <1>6, <1>7, <1>8

\* Taking k bytes out of a word at byte i and putting v there.
LEMMA SpliceWords ==
  ASSUME NEW x \in Word, NEW i \in Nat, NEW k \in Nat, i + k <= 8, NEW v \in 0 .. BP(k) - 1
  PROVE  /\ (BP(k) - 1) * BP(i) \in Word
         /\ (x & (M - 1 - (BP(k) - 1) * BP(i))) \in Word
         /\ ((x & (M - 1 - (BP(k) - 1) * BP(i))) | v * BP(i)) = Splice(x, ByteBits, i, k, v)
<1>1. PICK f, g \in Nat : f = ByteBits * i /\ g = ByteBits * k /\ g + f <= Bits
  <2>1. ByteBits * i \in Nat /\ ByteBits * k \in Nat  BY BytePowers
  <2>2. PICK j \in 0 .. 8 : j = i + k  OBVIOUS
  <2>3. ByteBits * j <= Bits  BY BytePowers
  <2>4. ByteBits * (i + k) = ByteBits * i + ByteBits * k  BY Sizes
  <2> QED BY <2>1, <2>2, <2>3, <2>4
<1>2. x \in Nat /\ ByteBits \in Nat  BY Sizes DEF Word
<1>3. v \in 0 .. 2^(ByteBits * k) - 1  BY DEF BP
<1>4. PICK p, q \in Nat \ {0}, u, h, a \in Nat : Spliced(x, ByteBits, i, k, v, p, q, u, h, a)
    BY <1>2, <1>3, SpliceParts
<1>5. /\ p = 2^f /\ q = 2^g /\ v \in 0 .. q - 1 /\ a \in 0 .. p - 1
      /\ x - ((x \div p) % q) * p = u * (q * p) + a
      /\ Splice(x, ByteBits, i, k, v) = (u * (q * p) + a) + v * p
    BY <1>1, <1>4 DEF Spliced
<1>6. 2^(g + f) = q * p  BY <1>1, <1>5, PowerSum
<1>7. /\ (x & (M - 1 - ((2^g - 1) * 2^f))) = x - ((x \div 2^f) % 2^g) * 2^f
      /\ (2^g - 1) * 2^f \in Word
    BY <1>1, AndBlock, Zenon
<1>8. a \in 0 .. 2^f - 1 /\ v \in 0 .. 2^g - 1  BY <1>5
<1>9. ((u * 2^(g + f) + a) | v * 2^f) = (u * 2^(g + f) + a) + v * 2^f
  <2>1. FillsGap(g, f, a, u, v)  BY <1>8, OrGap, Zenon
  <2> QED BY <2>1, Zenon DEF FillsGap
<1>10. BP(k) = q /\ BP(i) = p  BY <1>1, <1>5 DEF BP
<1>11. (x & (M - 1 - (q - 1) * p)) = u * (q * p) + a /\ (q - 1) * p \in Word  BY <1>5, <1>7
<1>12. u * (q * p) + a \in Word
  <2>1. PICK n \in Int : n = ((x \div p) % q) * p /\ n >= 0
    <3>1. x \in Int  BY <1>2
    <3>2. x \div p \in Int  BY <3>1, Parts
    <3>3. (x \div p) % q \in 0 .. q - 1  BY <3>2, Parts
    <3>4. PICK n \in Nat : n = (x \div p) % q  BY <3>3
    <3> QED BY <3>4
  <2>2. PICK o \in Int : o = u * (q * p) + a /\ o >= 0 /\ o = x - n  BY <1>5, <2>1
  <2>3. n >= 0 /\ o >= 0 /\ o = x - n  BY <2>1, <2>2, Zenon
  <2>4. \A d \in Int : d >= 0 /\ x - d >= 0 => x - d \in Word  BY <1>2, Sizes DEF Word
  <2>5. o \in Word  BY <2>3, <2>4, Zenon
  <2> QED BY <2>2, <2>5, Zenon
<1> QED BY <1>5, <1>6, <1>9, <1>10, <1>11, <1>12

\* The bytes of a remainder, of a quotient, and of what is left of a word.
LEMMA WindowAt ==
  ASSUME NEW k \in Nat, NEW m \in Nat, NEW v \in Nat
  PROVE  Window((v \div BP(m)) % BP(k), k, m, v)
<1>1. PICK y \in Nat : y = v \div BP(m)
  <2>1. PICK w \in Nat \ {0} : w = BP(m)  BY BytePowers
  <2>2. v \div w \in 0 .. v  BY QuotientBelow
  <2> QED BY <2>1, <2>2
<1>2. y % BP(k) \in 0 .. BP(k) - 1 /\ ByteBits \in Nat
  <2>1. PICK w \in Nat \ {0} : w = BP(k)  BY BytePowers
  <2>2. y % w \in 0 .. w - 1  BY Parts
  <2> QED BY <2>1, <2>2, Sizes
<1>3. Skips(y, v, ByteBits, m)  BY <1>1, <1>2, GroupSkip, Zenon DEF BP
<1>4. ASSUME NEW t \in 0 .. k - 1
      PROVE  Group(y % BP(k), ByteBits, t) = Group(v, ByteBits, m + t)
  <2>1. t \in Nat /\ t < k  OBVIOUS
  <2>2. Group(y % 2^(ByteBits * k), ByteBits, t) = Group(y, ByteBits, t)  BY <1>2, <2>1, GroupCut
  <2> QED BY <1>3, <2>1, <2>2 DEF Skips, BP
<1> QED BY <1>1, <1>2, <1>4 DEF Window, BP

\* The low bytes of a word, and
LEMMA WindowLow ==
  ASSUME NEW k \in Nat, NEW v \in Nat
  PROVE  Window(v % BP(k), k, 0, v) /\ v % BP(k) \in 0 .. BP(k) - 1
<1>1. v \div BP(0) = v  BY BytePowers
<1>2. Window((v \div BP(0)) % BP(k), k, 0, v)  BY WindowAt, Zenon
<1> QED BY <1>1, <1>2 DEF Window, BP

\* its high ones, as windows.
LEMMA WindowTop ==
  ASSUME NEW l \in 0 .. 4, NEW p \in Nat \ {0}, NEW q \in Nat \ {0}, NEW r \in Nat \ {0},
         Lanes(l, p, q, r),
         NEW v \in Word
  PROVE  Window(v \div r, l, 8 - l, v) /\ v \div r \in 0 .. p - 1
<1>1. M = p * r /\ r = BP(8 - l) /\ p = BP(l)  BY DEF Lanes
<1>2. v \in Nat /\ v < M  BY Sizes DEF Word
<1>3. PICK y \in Nat : y = v \div r  BY <1>2, QuotientBelow
<1>4. y < p
  <2>1. SUFFICES ASSUME y >= p PROVE FALSE  OBVIOUS
  <2>2. v = r * y + (v % r) /\ v % r >= 0 /\ v % r \in Int
    <3>1. v \in Int  BY <1>2
    <3>2. v % r \in 0 .. r - 1 /\ v = r * (v \div r) + (v % r)  BY <3>1, Parts, Zenon
    <3> QED BY <1>3, <3>2
  <2>3. r * y >= r * p  BY <2>1
  <2>4. r * p = p * r  OBVIOUS
  <2>5. PICK a, b, d \in Int : a = r * y /\ b = p * r /\ d = v % r  BY <2>2
  <2> QED BY <1>1, <1>2, <2>2, <2>3, <2>4, <2>5
<1>5. y % p = y  BY <1>4, RemainderSmall
<1>6. Window((v \div BP(8 - l)) % BP(l), l, 8 - l, v)  BY <1>2, WindowAt
<1> QED BY <1>1, <1>3, <1>4, <1>5, <1>6

\* Writing a whole cell.
LEMMA SpliceWhole ==
  ASSUME NEW x \in 0 .. CellMask, NEW w \in 0 .. BP(4) - 1
  PROVE  Splice(x, ByteBits, 0, 4, w) = w
<1>1. BP(4) = HalfM /\ BP(0) = 1 /\ HalfM \in Nat  BY BytePowers, Sizes
<1>2. x \in 0 .. HalfM - 1 /\ x \in Nat  BY <1>1 DEF CellMask
<1>3. x % HalfM = x  BY <1>1, <1>2, RemainderSmall
<1>4. Splice(x, ByteBits, 0, 4, w) = x - ((x \div 1) % HalfM) * 1 + w * 1  BY <1>1, Zenon DEF Splice, BP
<1> QED BY <1>1, <1>2, <1>3, <1>4

\* Masks of bytes.
LEMMA ByteMasks ==
  ASSUME NEW n \in 0 .. 8
  PROVE  /\ ByteMask(n) = BP(n) - 1 /\ ByteMask(n) \in Word /\ ByteMask(n) \in Nat
         /\ \A x \in Word : (x & ByteMask(n)) = x % BP(n) /\ x % BP(n) \in Word /\ x % BP(n) \in 0 .. BP(n) - 1
<1>1. ByteMask(n) = BP(n) - 1  BY DEF ByteMask, BP
<1>2. BP(n) - 1 \in Word /\ ByteBits * n \in 0 .. Bits /\ BP(n) \in Nat \ {0} /\ BP(n) <= M
  <2>1. n \in Nat  OBVIOUS
  <2>2. ByteBits * n <= Bits /\ BP(n) <= M /\ BP(n) - 1 \in Word  BY BytePowers, Zenon
  <2>3. BP(n) \in Nat \ {0} /\ ByteBits * n \in Nat  BY <2>1, BytePowers, Zenon
  <2> QED BY <2>2, <2>3, Sizes
<1>3. ASSUME NEW x \in Word
      PROVE  (x & ByteMask(n)) = x % BP(n) /\ x % BP(n) \in Word /\ x % BP(n) \in 0 .. BP(n) - 1
  <2>1. x \in Int /\ x \in Nat /\ x < M  BY Sizes DEF Word
  <2>2. (x & (2^(ByteBits * n) - 1)) = x % 2^(ByteBits * n)  BY <1>2, <2>1, AndMask, Zenon
  <2>3. x % BP(n) \in 0 .. BP(n) - 1  BY <1>2, <2>1, Parts, Zenon
  <2>4. x % BP(n) \in Word  BY <1>2, <2>3, Sizes DEF Word
  <2> QED BY <2>2, <2>3, <2>4 DEF ByteMask, BP
<1> QED BY <1>1, <1>2, <1>3, Sizes DEF Word

\* The mask of a cell takes a remainder.
LEMMA CellMasks ==
  /\ CellMask = ByteMask(4) /\ CellMask \in Word
  /\ \A x \in Word : (x & CellMask) = x % HalfM /\ x % HalfM \in 0 .. CellMask /\ x % HalfM \in Word
<1>1. ByteMask(4) = BP(4) - 1 /\ ByteMask(4) \in Word
      /\ \A x \in Word : (x & ByteMask(4)) = x % BP(4) /\ x % BP(4) \in Word /\ x % BP(4) \in 0 .. BP(4) - 1
    BY ByteMasks
<1>2. CellMask = BP(4) - 1 /\ HalfM = BP(4)  BY BytePowers DEF CellMask
<1> QED BY <1>1, <1>2

\* A multiple of p cut to a cell.
LEMMA CutIs ==
  ASSUME NEW l \in 0 .. 4, NEW p \in Nat \ {0}, NEW q \in Nat \ {0}, NEW r \in Nat \ {0},
         Lanes(l, p, q, r),
         NEW u \in Nat
  PROVE  MulWrap(u, p) \in Word /\ (MulWrap(u, p) & CellMask) = (u % q) * p /\ (u % q) * p \in Word
<1>1. HalfM = q * p /\ HalfM \in Nat \ {0} /\ M = HalfM * HalfM /\ M \in Nat \ {0}  BY Sizes DEF Lanes
<1>2. PICK t \in Nat : t = u * p  OBVIOUS
<1>3. MulWrap(u, p) = t % M  BY <1>2, MulWraps
<1>4. t % M \in 0 .. M - 1 /\ (t % (HalfM * HalfM)) % HalfM = t % HalfM
  <2>1. t \in Int  BY <1>2
  <2> QED BY <1>1, <2>1, Parts, RemainderTwice, Zenon
<1>5. t % M \in Word  BY <1>4 DEF Word
<1>6. (u * p) % (q * p) = (u % q) * p
  <2>1. u \in Int  OBVIOUS
  <2> QED BY <2>1, RemainderScale, Zenon
<1>7. (MulWrap(u, p) & CellMask) = t % HalfM /\ t % HalfM \in Word
  <2>1. PICK y \in Word : y = t % M  BY <1>5
  <2>2. (y & CellMask) = y % HalfM /\ y % HalfM \in Word  BY CellMasks, Zenon
  <2>3. y % HalfM = t % HalfM  BY <1>1, <1>4, <2>1, Zenon
  <2>4. MulWrap(u, p) = y  BY <1>3, <2>1
  <2> QED BY <2>2, <2>3, <2>4, Zenon
<1>8. MulWrap(u, p) \in Word  BY <1>3, <1>5
<1>9. (MulWrap(u, p) & CellMask) = (u % q) * p  BY <1>1, <1>2, <1>6, <1>4, <1>7
<1>10. (u % q) * p \in Word  BY <1>1, <1>2, <1>6, <1>7
<1> QED BY <1>8, <1>9, <1>10

-----------------------------------------------------------------------------
(* The machine that runs the rows: registers, memory and what a row does *)

Temps == {"T0", "T1", "T2", "T3", "T4"}

\* The registers are those of s but for the scratch ones.
File(r, s, a, b, d, e, f) ==
    /\ r \in [Reg -> Word]
    /\ r["T0"] = a /\ r["T1"] = b /\ r["T2"] = d /\ r["T3"] = e /\ r["T4"] = f
    /\ \A x \in Reg : x \notin Temps => r[x] = s[x]

\* From m the rows come to row p with the memory (z, c) and those registers.
Comes(rows, m, p, z, c, s, a, b, d, e, f) ==
    \E r : File(r, s, a, b, d, e, f) /\ Memory(z, c) /\ Leads(rows, m, At(p, r, z, c, "none"))

\* What a register holds.
Source(s, a, b, d, e, f, x) ==
    IF x = "T0" THEN a ELSE IF x = "T1" THEN b ELSE IF x = "T2" THEN d
    ELSE IF x = "T3" THEN e ELSE IF x = "T4" THEN f ELSE s[x]

\* A register file is what its operands are.
LEMMA SourceIs ==
  \A r, s, a, b, d, e, f : File(r, s, a, b, d, e, f)
      => \A x \in Reg : r[x] = Source(s, a, b, d, e, f, x) /\ r[x] \in Word
<1> QED BY DEF File, Source, Temps

\* A row that computes v,
Computes(rows, p, s, a, b, d, e, f, t, v) ==
    \E op, x, o : /\ rows[p] = Alu(op, t, x, o) /\ x \in Reg
                  /\ v \in Word
                  /\ \/ \E k : o = I(k) /\ v = Evaluate(op, Source(s, a, b, d, e, f, x), k)
                     \/ \E y \in Reg : o = R(y) /\ v = Evaluate(op, Source(s, a, b, d, e, f, x), Source(s, a, b, d, e, f, y))

\* and one that loads it.
Fetches(rows, p, z, c, s, a, b, d, e, f, t, v) ==
    \E x, o : /\ rows[p] = Load(t, x, o) /\ x \in Reg
              /\ v \in Word
              /\ \/ (Source(s, a, b, d, e, f, x) + o) % M = MemorySizeAddr /\ v = z
                 \/ \E k : /\ k = (Source(s, a, b, d, e, f, x) + o) % M
                          /\ ~IsSize(k) /\ Holds(k, c) /\ v = c[CellAt(k)]

Yields(rows, p, z, c, s, a, b, d, e, f, t, v) ==
    Computes(rows, p, s, a, b, d, e, f, t, v) \/ Fetches(rows, p, z, c, s, a, b, d, e, f, t, v)

\* An ALU row yields its operation's value, on a register
LEMMA YieldsReg ==
  ASSUME NEW rows, NEW p, NEW z, NEW c, NEW s, NEW a, NEW b, NEW d, NEW e, NEW f, NEW t, NEW v \in Word,
         NEW op, NEW x \in Reg, NEW y \in Reg, rows[p] = Alu(op, t, x, R(y)),
         Evaluate(op, Source(s, a, b, d, e, f, x), Source(s, a, b, d, e, f, y)) = v
  PROVE  Yields(rows, p, z, c, s, a, b, d, e, f, t, v)
<1> QED BY Zenon DEF Yields, Computes

\* or an immediate.
LEMMA YieldsImm ==
  ASSUME NEW rows, NEW p, NEW z, NEW c, NEW s, NEW a, NEW b, NEW d, NEW e, NEW f, NEW t, NEW v \in Word,
         NEW op, NEW x \in Reg, NEW k, rows[p] = AluImm(op, t, x, k),
         Evaluate(op, Source(s, a, b, d, e, f, x), k) = v
  PROVE  Yields(rows, p, z, c, s, a, b, d, e, f, t, v)
<1> QED BY Zenon DEF Yields, Computes, AluImm

\* Where it comes to.
LEMMA YieldsTo ==
  ASSUME NEW rows, NEW m, NEW p, NEW z, NEW c, NEW s, NEW a, NEW b, NEW d, NEW e, NEW f,
         Comes(rows, m, p, z, c, s, a, b, d, e, f),
         NEW t \in Reg \ {"ZERO"}, NEW v, Yields(rows, p, z, c, s, a, b, d, e, f, t, v)
  PROVE  \E r, u \in [Reg -> Word] : /\ File(r, s, a, b, d, e, f) /\ Sets(r, u, t, v) /\ Memory(z, c)
                    /\ Leads(rows, m, At(p + 1, u, z, c, "none"))
<1>1. PICK r : File(r, s, a, b, d, e, f) /\ Memory(z, c) /\ Leads(rows, m, At(p, r, z, c, "none"))
    BY Zenon DEF Comes
<1>2. r \in [Reg -> Word] /\ \A x \in Reg : r[x] = Source(s, a, b, d, e, f, x)  BY <1>1, SourceIs DEF File
<1>3. ASSUME Computes(rows, p, s, a, b, d, e, f, t, v)
      PROVE  \E u \in [Reg -> Word] : Sets(r, u, t, v) /\ Goes(rows, z, c, p, r, p + 1, u)
  <2>1. PICK op, x, o : /\ rows[p] = Alu(op, t, x, o) /\ x \in Reg
                  /\ v \in Word
                  /\ \/ \E k : o = I(k) /\ v = Evaluate(op, Source(s, a, b, d, e, f, x), k)
                     \/ \E y \in Reg : o = R(y) /\ v = Evaluate(op, Source(s, a, b, d, e, f, x), Source(s, a, b, d, e, f, y))
      BY <1>3, Zenon DEF Computes
  <2>2. v = Evaluate(op, r[x], Val(r, o))
    <3>1. CASE \E k : o = I(k) /\ v = Evaluate(op, Source(s, a, b, d, e, f, x), k)
      <4>1. PICK k : o = I(k) /\ v = Evaluate(op, Source(s, a, b, d, e, f, x), k)  BY <3>1
      <4>2. Val(r, o) = k  BY <4>1 DEF Val, I
      <4> QED BY <1>2, <2>1, <4>1, <4>2
    <3>2. CASE \E y \in Reg : o = R(y) /\ v = Evaluate(op, Source(s, a, b, d, e, f, x), Source(s, a, b, d, e, f, y))
      <4>1. PICK y \in Reg : o = R(y) /\ v = Evaluate(op, Source(s, a, b, d, e, f, x), Source(s, a, b, d, e, f, y))
          BY <3>2
      <4>2. Val(r, o) = r[y]  BY <4>1 DEF Val, R
      <4> QED BY <1>2, <2>1, <4>1, <4>2
    <3> QED BY <2>1, <3>1, <3>2
  <2> QED BY <1>1, <1>2, <2>1, <2>2, AluGoes, Zenon
<1>4. ASSUME Fetches(rows, p, z, c, s, a, b, d, e, f, t, v)
      PROVE  \E u \in [Reg -> Word] : Sets(r, u, t, v) /\ Goes(rows, z, c, p, r, p + 1, u)
  <2>1. PICK x, o : /\ rows[p] = Load(t, x, o) /\ x \in Reg
              /\ v \in Word
              /\ \/ (Source(s, a, b, d, e, f, x) + o) % M = MemorySizeAddr /\ v = z
                 \/ \E k : /\ k = (Source(s, a, b, d, e, f, x) + o) % M
                          /\ ~IsSize(k) /\ Holds(k, c) /\ v = c[CellAt(k)]
      BY <1>4, Zenon DEF Fetches
  <2>2. r[x] = Source(s, a, b, d, e, f, x)  BY <1>2, <2>1
  <2>3. Goes(rows, z, c, p, r, p + 1, Put(r, t, v))
    <3>1. CASE (Source(s, a, b, d, e, f, x) + o) % M = MemorySizeAddr /\ v = z
        BY <1>1, <1>2, <2>1, <2>2, <3>1, SizeLoadGoes, Zenon
    <3>2. CASE \E k : /\ k = (Source(s, a, b, d, e, f, x) + o) % M
                     /\ ~IsSize(k) /\ Holds(k, c) /\ v = c[CellAt(k)]
      <4>1. /\ ~IsSize((r[x] + o) % M) /\ Holds((r[x] + o) % M, c)
            /\ v = c[CellAt((r[x] + o) % M)]
          BY <2>2, <3>2, Zenon
      <4>2. Goes(rows, z, c, p, r, p + 1, Put(r, t, c[CellAt((r[x] + o) % M)]))
          BY <1>1, <1>2, <2>1, <4>1, CellLoadGoes, Zenon
      <4> QED BY <4>1, <4>2, Zenon
    <3> QED BY <2>1, <3>1, <3>2, Zenon
  <2>4. Put(r, t, v) \in [Reg -> Word] /\ Sets(r, Put(r, t, v), t, v)  BY <1>2, <2>1, PutSets
  <2> QED BY <2>3, <2>4, Zenon
<1>5. PICK u \in [Reg -> Word] : Sets(r, u, t, v) /\ Goes(rows, z, c, p, r, p + 1, u)
    BY <1>3, <1>4, Zenon DEF Yields
<1>6. Leads(rows, m, At(p + 1, u, z, c, "none"))  BY <1>1, <1>5, LeadsOn, Zenon DEF Goes
<1> QED BY <1>1, <1>2, <1>5, <1>6, Zenon

\* The row that yields v leaves it in T0,
LEMMA YieldsT0 ==
  ASSUME NEW rows, NEW m, NEW p, NEW z, NEW c, NEW s, NEW a, NEW b, NEW d, NEW e, NEW f,
         Comes(rows, m, p, z, c, s, a, b, d, e, f),
         NEW v, Yields(rows, p, z, c, s, a, b, d, e, f, "T0", v), NEW n, n = p + 1
  PROVE  Comes(rows, m, n, z, c, s, v, b, d, e, f)
<1>1. "T0" \in Reg \ {"ZERO"} /\ Temps \subseteq Reg  BY RegAssumption DEF Temps
<1>2. PICK r, u \in [Reg -> Word] : /\ File(r, s, a, b, d, e, f) /\ Sets(r, u, "T0", v) /\ Memory(z, c)
                      /\ Leads(rows, m, At(p + 1, u, z, c, "none"))
    BY <1>1, YieldsTo, Zenon
<1>3. File(u, s, v, b, d, e, f)  BY <1>1, <1>2 DEF File, Sets, Temps
<1> QED BY <1>2, <1>3, Zenon DEF Comes

\* T1,
LEMMA YieldsT1 ==
  ASSUME NEW rows, NEW m, NEW p, NEW z, NEW c, NEW s, NEW a, NEW b, NEW d, NEW e, NEW f,
         Comes(rows, m, p, z, c, s, a, b, d, e, f),
         NEW v, Yields(rows, p, z, c, s, a, b, d, e, f, "T1", v), NEW n, n = p + 1
  PROVE  Comes(rows, m, n, z, c, s, a, v, d, e, f)
<1>1. "T1" \in Reg \ {"ZERO"} /\ Temps \subseteq Reg  BY RegAssumption DEF Temps
<1>2. PICK r, u \in [Reg -> Word] : /\ File(r, s, a, b, d, e, f) /\ Sets(r, u, "T1", v) /\ Memory(z, c)
                      /\ Leads(rows, m, At(p + 1, u, z, c, "none"))
    BY <1>1, YieldsTo, Zenon
<1>3. File(u, s, a, v, d, e, f)  BY <1>1, <1>2 DEF File, Sets, Temps
<1> QED BY <1>2, <1>3, Zenon DEF Comes

\* T2,
LEMMA YieldsT2 ==
  ASSUME NEW rows, NEW m, NEW p, NEW z, NEW c, NEW s, NEW a, NEW b, NEW d, NEW e, NEW f,
         Comes(rows, m, p, z, c, s, a, b, d, e, f),
         NEW v, Yields(rows, p, z, c, s, a, b, d, e, f, "T2", v), NEW n, n = p + 1
  PROVE  Comes(rows, m, n, z, c, s, a, b, v, e, f)
<1>1. "T2" \in Reg \ {"ZERO"} /\ Temps \subseteq Reg  BY RegAssumption DEF Temps
<1>2. PICK r, u \in [Reg -> Word] : /\ File(r, s, a, b, d, e, f) /\ Sets(r, u, "T2", v) /\ Memory(z, c)
                      /\ Leads(rows, m, At(p + 1, u, z, c, "none"))
    BY <1>1, YieldsTo, Zenon
<1>3. File(u, s, a, b, v, e, f)  BY <1>1, <1>2 DEF File, Sets, Temps
<1> QED BY <1>2, <1>3, Zenon DEF Comes

\* T3
LEMMA YieldsT3 ==
  ASSUME NEW rows, NEW m, NEW p, NEW z, NEW c, NEW s, NEW a, NEW b, NEW d, NEW e, NEW f,
         Comes(rows, m, p, z, c, s, a, b, d, e, f),
         NEW v, Yields(rows, p, z, c, s, a, b, d, e, f, "T3", v), NEW n, n = p + 1
  PROVE  Comes(rows, m, n, z, c, s, a, b, d, v, f)
<1>1. "T3" \in Reg \ {"ZERO"} /\ Temps \subseteq Reg  BY RegAssumption DEF Temps
<1>2. PICK r, u \in [Reg -> Word] : /\ File(r, s, a, b, d, e, f) /\ Sets(r, u, "T3", v) /\ Memory(z, c)
                      /\ Leads(rows, m, At(p + 1, u, z, c, "none"))
    BY <1>1, YieldsTo, Zenon
<1>3. File(u, s, a, b, d, v, f)  BY <1>1, <1>2 DEF File, Sets, Temps
<1> QED BY <1>2, <1>3, Zenon DEF Comes

\* or T4.
LEMMA YieldsT4 ==
  ASSUME NEW rows, NEW m, NEW p, NEW z, NEW c, NEW s, NEW a, NEW b, NEW d, NEW e, NEW f,
         Comes(rows, m, p, z, c, s, a, b, d, e, f),
         NEW v, Yields(rows, p, z, c, s, a, b, d, e, f, "T4", v), NEW n, n = p + 1
  PROVE  Comes(rows, m, n, z, c, s, a, b, d, e, v)
<1>1. "T4" \in Reg \ {"ZERO"} /\ Temps \subseteq Reg  BY RegAssumption DEF Temps
<1>2. PICK r, u \in [Reg -> Word] : /\ File(r, s, a, b, d, e, f) /\ Sets(r, u, "T4", v) /\ Memory(z, c)
                      /\ Leads(rows, m, At(p + 1, u, z, c, "none"))
    BY <1>1, YieldsTo, Zenon
<1>3. File(u, s, a, b, d, e, v)  BY <1>1, <1>2 DEF File, Sets, Temps
<1> QED BY <1>2, <1>3, Zenon DEF Comes

\* A row that writes another register.
LEMMA YieldsBase ==
  ASSUME NEW rows, NEW m, NEW p, NEW z, NEW c,
         NEW s \in [Reg -> Word], NEW a, NEW b, NEW d, NEW e, NEW f,
         Comes(rows, m, p, z, c, s, a, b, d, e, f), NEW t \in Reg \ {"ZERO"}, t \notin Temps,
         NEW v, Yields(rows, p, z, c, s, a, b, d, e, f, t, v), NEW n, n = p + 1
  PROVE  v \in Word /\ \E w \in [Reg -> Word] : Sets(s, w, t, v) /\ Comes(rows, m, n, z, c, w, a, b, d, e, f)
<1>1. PICK r, u \in [Reg -> Word] : /\ File(r, s, a, b, d, e, f) /\ Sets(r, u, t, v) /\ Memory(z, c)
                      /\ Leads(rows, m, At(p + 1, u, z, c, "none"))
    BY YieldsTo, Zenon
<1>2. v \in Word  BY Zenon DEF Yields, Computes, Fetches
<1> DEFINE w == [s EXCEPT ![t] = v]
<1>3. w \in [Reg -> Word] /\ Sets(s, w, t, v)  BY <1>2 DEF Sets
<1>4. File(u, w, a, b, d, e, f)
  <2> HIDE DEF w
  <2> QED BY <1>1, <1>3, RegAssumption DEF File, Sets, Temps
<1>5. Comes(rows, m, n, z, c, w, a, b, d, e, f)  BY <1>1, <1>4, Zenon DEF Comes
<1> QED BY <1>2, <1>3, <1>5

\* The address of a cell.
CellAddress(q) == LinearBase + CellUnits * q

\* The guest address of a cell leads to it.
LEMMA CellAddresses ==
  ASSUME NEW z, NEW c, NEW j, Shape(z, c, j), NEW q \in 0 .. j
  PROVE  /\ CellAddress(q) \in Word
         /\ ~IsSize(CellAddress(q)) /\ Holds(CellAddress(q), c) /\ CellAt(CellAddress(q)) = q
<1>1. j \in Nat /\ 4 * j <= HalfM /\ DOMAIN c = 0 .. j  BY Pages, Sizes DEF Shape
<1>2. PICK h \in Nat : h = HalfM /\ M = h * h /\ h >= 256  BY Sizes
<1>3. M >= 256 * h  BY <1>2
<1>4. CellAddress(q) = 64 + 8 * q /\ CellAddress(q) \in Nat  BY DEF CellAddress, LinearBase, CellUnits
<1>5. CellAddress(q) \in Word  BY <1>1, <1>2, Sizes, <1>3, <1>4 DEF Word
<1>6. CellAt(CellAddress(q)) = q  BY <1>4 DEF CellAt, LinearBase, CellUnits
<1>7. CellAddress(q) % CellUnits = 0  BY <1>4 DEF CellUnits
<1> QED BY <1>1, <1>4, <1>5, <1>6, <1>7 DEF Holds, IsSize, LinearBase, MemorySizeAddr

\* Reaching it from another.
LEMMA CellOffsets ==
  ASSUME NEW z, NEW c, NEW j, Shape(z, c, j), NEW q \in Nat, NEW i \in 0 .. 2, q + i <= j
  PROVE  (CellAddress(q) + CellUnits * i) % M = CellAddress(q + i)
<1>1. j \in Nat /\ q + i \in 0 .. j  BY DEF Shape
<1>2. CellAddress(q) + CellUnits * i = CellAddress(q + i)  BY DEF CellAddress, CellUnits, LinearBase
<1>3. CellAddress(q + i) \in 0 .. M - 1  BY <1>1, CellAddresses DEF Word
<1>4. M \in Nat  BY Sizes
<1> HIDE DEF CellAddress
<1> QED BY <1>2, <1>3, <1>4, RemainderSmall

\* A jump,
LEMMA JumpComes ==
  ASSUME NEW rows, NEW m, NEW p, NEW z, NEW c, NEW s, NEW a, NEW b, NEW d, NEW e, NEW f,
         Comes(rows, m, p, z, c, s, a, b, d, e, f), NEW n, rows[p] = Jump(n)
  PROVE  Comes(rows, m, n, z, c, s, a, b, d, e, f)
<1>1. PICK r : File(r, s, a, b, d, e, f) /\ Memory(z, c) /\ Leads(rows, m, At(p, r, z, c, "none"))
    BY Zenon DEF Comes
<1>2. r \in [Reg -> Word]  BY <1>1 DEF File
<1>3. Leads(rows, At(p, r, z, c, "none"), At(n, r, z, c, "none"))  BY <1>1, <1>2, JumpGoes, Zenon DEF Goes
<1>4. Leads(rows, m, At(n, r, z, c, "none"))  BY <1>1, <1>3, LeadsOn, Zenon
<1> QED BY <1>1, <1>4, Zenon DEF Comes

\* a branch taken and not taken,
LEMMA TakenComes ==
  ASSUME NEW rows, NEW m, NEW p, NEW z, NEW c, NEW s, NEW a, NEW b, NEW d, NEW e, NEW f,
         Comes(rows, m, p, z, c, s, a, b, d, e, f),
         NEW op, NEW x \in Reg, NEW y \in Reg, NEW n, rows[p] = Branch(op, x, y, n),
         Evaluate(op, Source(s, a, b, d, e, f, x), Source(s, a, b, d, e, f, y)) = 1
  PROVE  Comes(rows, m, n, z, c, s, a, b, d, e, f)
<1>1. PICK r : File(r, s, a, b, d, e, f) /\ Memory(z, c) /\ Leads(rows, m, At(p, r, z, c, "none"))
    BY Zenon DEF Comes
<1>2. r \in [Reg -> Word] /\ Evaluate(op, r[x], r[y]) = 1  BY <1>1, SourceIs DEF File
<1>3. Leads(rows, At(p, r, z, c, "none"), At(n, r, z, c, "none"))  BY <1>1, <1>2, BranchGoes, Zenon DEF Goes
<1>4. Leads(rows, m, At(n, r, z, c, "none"))  BY <1>1, <1>3, LeadsOn, Zenon
<1> QED BY <1>1, <1>4, Zenon DEF Comes

\* A branch not taken falls through.
LEMMA FallsComes ==
  ASSUME NEW rows, NEW m, NEW p, NEW z, NEW c, NEW s, NEW a, NEW b, NEW d, NEW e, NEW f,
         Comes(rows, m, p, z, c, s, a, b, d, e, f),
         NEW op, NEW x \in Reg, NEW y \in Reg, NEW k, rows[p] = Branch(op, x, y, k),
         Evaluate(op, Source(s, a, b, d, e, f, x), Source(s, a, b, d, e, f, y)) # 1,
         NEW n, n = p + 1
  PROVE  Comes(rows, m, n, z, c, s, a, b, d, e, f)
<1>1. PICK r : File(r, s, a, b, d, e, f) /\ Memory(z, c) /\ Leads(rows, m, At(p, r, z, c, "none"))
    BY Zenon DEF Comes
<1>2. r \in [Reg -> Word] /\ Evaluate(op, r[x], r[y]) # 1  BY <1>1, SourceIs DEF File
<1>3. Leads(rows, At(p, r, z, c, "none"), At(p + 1, r, z, c, "none"))
    BY <1>1, <1>2, BranchFalls, Zenon DEF Goes
<1>4. Leads(rows, m, At(p + 1, r, z, c, "none"))  BY <1>1, <1>3, LeadsOn, Zenon
<1> QED BY <1>1, <1>4, Zenon DEF Comes

\* an assertion that holds, and one that does not.
Asserted(rows, m, p, n, z, c, s, a, b, d, e, f, v) ==
    IF v = 1 THEN Comes(rows, m, n, z, c, s, a, b, d, e, f)
    ELSE \E g \in [Reg -> Word] : Memory(z, c) /\ Leads(rows, m, At(p, g, z, c, "OutOfBounds"))

\* An assertion that holds does, too.
LEMMA AssertComes ==
  ASSUME NEW rows, NEW m, NEW p, NEW z, NEW c, NEW s, NEW a, NEW b, NEW d, NEW e, NEW f,
         Comes(rows, m, p, z, c, s, a, b, d, e, f),
         NEW op, NEW x, x \in Reg, NEW y, y \in Reg, rows[p] = Assert(op, "OutOfBounds", x, R(y)),
         NEW u, NEW w, Source(s, a, b, d, e, f, x) = u, Source(s, a, b, d, e, f, y) = w,
         NEW v, v = Evaluate(op, u, w), NEW n, n = p + 1
  PROVE  Asserted(rows, m, p, n, z, c, s, a, b, d, e, f, v)
<1> SUFFICES IF Evaluate(op, Source(s, a, b, d, e, f, x), Source(s, a, b, d, e, f, y)) = 1
             THEN Comes(rows, m, n, z, c, s, a, b, d, e, f)
             ELSE \E g \in [Reg -> Word] : Memory(z, c) /\ Leads(rows, m, At(p, g, z, c, "OutOfBounds"))
    BY Zenon DEF Asserted
<1>1. PICK r : File(r, s, a, b, d, e, f) /\ Memory(z, c) /\ Leads(rows, m, At(p, r, z, c, "none"))
    BY Zenon DEF Comes
<1>2. /\ r \in [Reg -> Word]
      /\ Evaluate(op, r[x], Val(r, R(y))) = Evaluate(op, Source(s, a, b, d, e, f, x), Source(s, a, b, d, e, f, y))
    BY <1>1, SourceIs DEF File, Val, R
<1>3. CASE Evaluate(op, Source(s, a, b, d, e, f, x), Source(s, a, b, d, e, f, y)) = 1
    BY <1>1, <1>2, <1>3, AssertGoes, LeadsOn DEF Goes, Comes
<1>4. CASE Evaluate(op, Source(s, a, b, d, e, f, x), Source(s, a, b, d, e, f, y)) # 1
    BY <1>1, <1>2, <1>4, AssertStops, LeadsOn
<1> QED BY <1>3, <1>4

\* The registers the rows name.
LEMMA RegNames ==
  /\ "ZERO" \in Reg /\ "A" \in Reg /\ "B" \in Reg /\ "D" \in Reg
  /\ "T0" \in Reg /\ "T1" \in Reg /\ "T2" \in Reg /\ "T3" \in Reg /\ "T4" \in Reg
  /\ "LB" \in Reg /\ "LH" \in Reg /\ "LW" \in Reg /\ "LD" \in Reg
<1> QED BY RegAssumption

\* Scratch register by scratch register: a row of two registers, of an immediate.

\* ALU rows into T0,
LEMMA RegT0 ==
  ASSUME NEW rows, NEW m, NEW p, NEW z, NEW c, NEW s, NEW a, NEW b, NEW d, NEW e, NEW f,
         Comes(rows, m, p, z, c, s, a, b, d, e, f),
         NEW op, NEW x \in Reg, NEW y \in Reg, rows[p] = Alu(op, "T0", x, R(y)),
         NEW u, NEW w, Source(s, a, b, d, e, f, x) = u, Source(s, a, b, d, e, f, y) = w,
         NEW v, v \in Word, Evaluate(op, u, w) = v, NEW n, n = p + 1
  PROVE  Comes(rows, m, n, z, c, s, v, b, d, e, f)
<1>1. Yields(rows, p, z, c, s, a, b, d, e, f, "T0", v)  BY YieldsReg
<1> QED BY <1>1, YieldsT0, Zenon

\* with an immediate;
LEMMA ImmT0 ==
  ASSUME NEW rows, NEW m, NEW p, NEW z, NEW c, NEW s, NEW a, NEW b, NEW d, NEW e, NEW f,
         Comes(rows, m, p, z, c, s, a, b, d, e, f),
         NEW op, NEW x \in Reg, NEW k, rows[p] = AluImm(op, "T0", x, k),
         NEW u, Source(s, a, b, d, e, f, x) = u,
         NEW v, v \in Word, Evaluate(op, u, k) = v, NEW n, n = p + 1
  PROVE  Comes(rows, m, n, z, c, s, v, b, d, e, f)
<1>1. Yields(rows, p, z, c, s, a, b, d, e, f, "T0", v)  BY YieldsImm
<1> QED BY <1>1, YieldsT0, Zenon

\* into T1,
LEMMA RegT1 ==
  ASSUME NEW rows, NEW m, NEW p, NEW z, NEW c, NEW s, NEW a, NEW b, NEW d, NEW e, NEW f,
         Comes(rows, m, p, z, c, s, a, b, d, e, f),
         NEW op, NEW x \in Reg, NEW y \in Reg, rows[p] = Alu(op, "T1", x, R(y)),
         NEW u, NEW w, Source(s, a, b, d, e, f, x) = u, Source(s, a, b, d, e, f, y) = w,
         NEW v, v \in Word, Evaluate(op, u, w) = v, NEW n, n = p + 1
  PROVE  Comes(rows, m, n, z, c, s, a, v, d, e, f)
<1>1. Yields(rows, p, z, c, s, a, b, d, e, f, "T1", v)  BY YieldsReg
<1> QED BY <1>1, YieldsT1, Zenon

\* with an immediate;
LEMMA ImmT1 ==
  ASSUME NEW rows, NEW m, NEW p, NEW z, NEW c, NEW s, NEW a, NEW b, NEW d, NEW e, NEW f,
         Comes(rows, m, p, z, c, s, a, b, d, e, f),
         NEW op, NEW x \in Reg, NEW k, rows[p] = AluImm(op, "T1", x, k),
         NEW u, Source(s, a, b, d, e, f, x) = u,
         NEW v, v \in Word, Evaluate(op, u, k) = v, NEW n, n = p + 1
  PROVE  Comes(rows, m, n, z, c, s, a, v, d, e, f)
<1>1. Yields(rows, p, z, c, s, a, b, d, e, f, "T1", v)  BY YieldsImm
<1> QED BY <1>1, YieldsT1, Zenon

\* into T2;
LEMMA ImmT2 ==
  ASSUME NEW rows, NEW m, NEW p, NEW z, NEW c, NEW s, NEW a, NEW b, NEW d, NEW e, NEW f,
         Comes(rows, m, p, z, c, s, a, b, d, e, f),
         NEW op, NEW x \in Reg, NEW k, rows[p] = AluImm(op, "T2", x, k),
         NEW u, Source(s, a, b, d, e, f, x) = u,
         NEW v, v \in Word, Evaluate(op, u, k) = v, NEW n, n = p + 1
  PROVE  Comes(rows, m, n, z, c, s, a, b, v, e, f)
<1>1. Yields(rows, p, z, c, s, a, b, d, e, f, "T2", v)  BY YieldsImm
<1> QED BY <1>1, YieldsT2, Zenon

\* into T3,
LEMMA RegT3 ==
  ASSUME NEW rows, NEW m, NEW p, NEW z, NEW c, NEW s, NEW a, NEW b, NEW d, NEW e, NEW f,
         Comes(rows, m, p, z, c, s, a, b, d, e, f),
         NEW op, NEW x \in Reg, NEW y \in Reg, rows[p] = Alu(op, "T3", x, R(y)),
         NEW u, NEW w, Source(s, a, b, d, e, f, x) = u, Source(s, a, b, d, e, f, y) = w,
         NEW v, v \in Word, Evaluate(op, u, w) = v, NEW n, n = p + 1
  PROVE  Comes(rows, m, n, z, c, s, a, b, d, v, f)
<1>1. Yields(rows, p, z, c, s, a, b, d, e, f, "T3", v)  BY YieldsReg
<1> QED BY <1>1, YieldsT3, Zenon

\* with an immediate;
LEMMA ImmT3 ==
  ASSUME NEW rows, NEW m, NEW p, NEW z, NEW c, NEW s, NEW a, NEW b, NEW d, NEW e, NEW f,
         Comes(rows, m, p, z, c, s, a, b, d, e, f),
         NEW op, NEW x \in Reg, NEW k, rows[p] = AluImm(op, "T3", x, k),
         NEW u, Source(s, a, b, d, e, f, x) = u,
         NEW v, v \in Word, Evaluate(op, u, k) = v, NEW n, n = p + 1
  PROVE  Comes(rows, m, n, z, c, s, a, b, d, v, f)
<1>1. Yields(rows, p, z, c, s, a, b, d, e, f, "T3", v)  BY YieldsImm
<1> QED BY <1>1, YieldsT3, Zenon

\* into T4,
LEMMA RegT4 ==
  ASSUME NEW rows, NEW m, NEW p, NEW z, NEW c, NEW s, NEW a, NEW b, NEW d, NEW e, NEW f,
         Comes(rows, m, p, z, c, s, a, b, d, e, f),
         NEW op, NEW x \in Reg, NEW y \in Reg, rows[p] = Alu(op, "T4", x, R(y)),
         NEW u, NEW w, Source(s, a, b, d, e, f, x) = u, Source(s, a, b, d, e, f, y) = w,
         NEW v, v \in Word, Evaluate(op, u, w) = v, NEW n, n = p + 1
  PROVE  Comes(rows, m, n, z, c, s, a, b, d, e, v)
<1>1. Yields(rows, p, z, c, s, a, b, d, e, f, "T4", v)  BY YieldsReg
<1> QED BY <1>1, YieldsT4, Zenon

\* with an immediate.
LEMMA ImmT4 ==
  ASSUME NEW rows, NEW m, NEW p, NEW z, NEW c, NEW s, NEW a, NEW b, NEW d, NEW e, NEW f,
         Comes(rows, m, p, z, c, s, a, b, d, e, f),
         NEW op, NEW x \in Reg, NEW k, rows[p] = AluImm(op, "T4", x, k),
         NEW u, Source(s, a, b, d, e, f, x) = u,
         NEW v, v \in Word, Evaluate(op, u, k) = v, NEW n, n = p + 1
  PROVE  Comes(rows, m, n, z, c, s, a, b, d, e, v)
<1>1. Yields(rows, p, z, c, s, a, b, d, e, f, "T4", v)  BY YieldsImm
<1> QED BY <1>1, YieldsT4, Zenon

\* Where the rows start.
LEMMA Starts ==
  ASSUME NEW rows, NEW s \in [Reg -> Word], NEW z, NEW c, Memory(z, c)
  PROVE  Comes(rows, At(1, s, z, c, "none"), 1, z, c, s, s["T0"], s["T1"], s["T2"], s["T3"], s["T4"])
<1>1. File(s, s, s["T0"], s["T1"], s["T2"], s["T3"], s["T4"])  BY DEF File
<1> QED BY <1>1, LeadsSelf, Zenon DEF Comes

\* The words emit_address makes for byte 4 q + l.
LEMMA AddressWords ==
  ASSUME NEW base \in 0 .. HalfM - 1, NEW offset \in 0 .. HalfM - 1,
         NEW q \in Nat, NEW l \in 0 .. 3, base + offset = 4 * q + l
  PROVE  /\ (base + base) % M = 2 * base /\ 2 * base \in Word
         /\ (2 * base + LinearAddress(offset)) % M = CellAddress(q) + 2 * l
         /\ CellAddress(q) + 2 * l \in Word /\ CellAddress(q) + 2 * l = LinearBase + 2 * (base + offset)
         /\ ((CellAddress(q) + 2 * l) & LaneMask) = 2 * l /\ 2 * l \in Word
         /\ ((CellAddress(q) + 2 * l) & (M - CellUnits)) = CellAddress(q) /\ CellAddress(q) \in Word
<1>1. PICK h \in Nat : h = HalfM /\ M = h * h /\ h >= 256  BY Sizes
<1>2. M >= 256 * h /\ M \in Nat  BY <1>1
<1>3. PICK w \in Nat : w = M /\ w >= 256 * h  BY <1>2
<1>4. base \in 0 .. h - 1 /\ offset \in 0 .. h - 1  BY <1>1
<1>5. 2 * base \in 0 .. w - 1 /\ base + base = 2 * base  BY <1>1, <1>3, <1>4
<1>6. CellAddress(q) = 8 * (8 + q) /\ CellAddress(q) + 2 * l = 64 + 2 * (base + offset)
      /\ 2 * base + LinearAddress(offset) = CellAddress(q) + 2 * l
    BY <1>4 DEF CellAddress, LinearBase, CellUnits, LinearAddress
<1>7. CellAddress(q) + 2 * l \in 0 .. w - 1 /\ 2 * l \in 0 .. w - 1 /\ CellAddress(q) \in 0 .. w - 1
  <2>1. CellAddress(q) + 2 * l \in Nat /\ CellAddress(q) + 2 * l < 64 + 4 * h  BY <1>4, <1>6
  <2>2. CellAddress(q) \in Nat /\ CellAddress(q) <= CellAddress(q) + 2 * l /\ 2 * l <= 6  BY <1>6
  <2> HIDE DEF CellAddress
  <2> QED BY <1>1, <1>3, <2>1, <2>2
<1>8. (2 * base) % w = 2 * base /\ (CellAddress(q) + 2 * l) % w = CellAddress(q) + 2 * l
    BY <1>3, <1>5, <1>7, RemainderSmall, Zenon
<1>9. CellAddress(q) + 2 * l \in Word /\ 2 * base \in Word /\ 2 * l \in Word /\ CellAddress(q) \in Word
    BY <1>3, <1>5, <1>7 DEF Word
<1>10. ((CellAddress(q) + 2 * l) & LaneMask) = 2 * l /\ ((CellAddress(q) + 2 * l) & (M - CellUnits)) = CellAddress(q)
  <2>1. 8 + q \in Nat  OBVIOUS
  <2>2. PICK x \in Word : x = CellAddress(q) + 2 * l  BY <1>9
  <2>3. x = 8 * (8 + q) + 2 * l  BY <1>6, <2>2
  <2>4. (x & LaneMask) = 2 * l /\ (x & (M - CellUnits)) = 8 * (8 + q)  BY <2>1, <2>3, AndAddress, Zenon
  <2> QED BY <1>6, <2>2, <2>4
<1> HIDE DEF CellAddress
<1> QED BY <1>3, <1>5, <1>6, <1>8, <1>9, <1>10 DEF LinearBase

-----------------------------------------------------------------------------
(* The limit registers as words *)

\* The limits compare as bounds checks.
LEMMA LimitWords ==
  ASSUME NEW z \in Nat, z <= HalfM, NEW n \in {1, 2, 4, 8}
  PROVE  /\ 2 * z + LinearBase + 1 - 2 * n \in Word
         /\ \A a \in Nat : LinearBase + 2 * a < 2 * z + LinearBase + 1 - 2 * n <=> a + n <= z
<1>1. PICK h \in Nat : h = HalfM /\ M = h * h /\ h >= 256  BY Sizes
<1>2. M >= 256 * h  BY <1>1
<1>3. PICK w \in Nat : w = M /\ w >= 256 * h  BY <1>2, Sizes
<1>4. 2 * z + 64 + 1 - 2 * n \in 0 .. w - 1  BY <1>1, <1>3
<1>5. \A a \in Nat : 64 + 2 * a < 2 * z + 64 + 1 - 2 * n <=> a + n <= z  OBVIOUS
<1> QED BY <1>3, <1>4, <1>5 DEF Word, LinearBase

\* The limits are registers of their own.
LEMMA LimitNames == \A n \in {1, 2, 4, 8} : Limit(n) \in Reg /\ Limit(n) \notin Temps /\ Limit(n) # "ZERO" /\ Limit(n) # "A" /\ Limit(n) # "B" /\ Limit(n) # "D"
<1>1. Limit(1) = "LB" /\ Limit(2) = "LH" /\ Limit(4) = "LW" /\ Limit(8) = "LD"  BY DEF Limit
<1> QED BY <1>1, RegNames DEF Temps

-----------------------------------------------------------------------------
(* Rows that come to a row, and the accesses among them *)

\* Where the rows come with the address of cell q in T1 and the lane's byte in T2,
Lands(rows, m, z, c, s, q, l) == \E a, f, g : Comes(rows, m, 6, z, c, s, a, CellAddress(q), 2 * l, f, g)

\* and where they trap.
Traps(rows, m, z, c) == \E r \in [Reg -> Word] : Leads(rows, m, At(3, r, z, c, "OutOfBounds"))

AddressWorks(rows, m, z, c, s, r, n, q, l) ==
    IF r + n <= z THEN Lands(rows, m, z, c, s, q, l) ELSE Traps(rows, m, z, c)

\* The rows of emit_address: on to row 6 inside, a trap outside.
\* The state an access starts in.
Access(m, z, c, s, addr, base, offset, n, r) ==
    /\ s \in [Reg -> Word] /\ s["ZERO"] = 0 /\ addr \in Reg /\ addr \notin Temps
    /\ base \in 0 .. HalfM - 1 /\ offset \in 0 .. HalfM - 1 /\ n \in {1, 2, 4, 8}
    /\ s[addr] = base /\ s[Limit(n)] = 2 * z + LinearBase + 1 - 2 * n
    /\ m = At(1, s, z, c, "none") /\ r = base + offset

\* emit_address leaves the cell's address and the lane, or traps.
LEMMA Addressed ==
  ASSUME NEW z, NEW c, NEW j, Shape(z, c, j), NEW s, NEW addr, NEW base, NEW offset, NEW n, NEW m, NEW r,
         Access(m, z, c, s, addr, base, offset, n, r),
         NEW rows, NEW address, address = EmitAddress(addr, offset, n), Has(rows, 1, address),
         NEW q, q \in Nat, NEW l, l \in 0 .. 3, r = 4 * q + l
  PROVE  AddressWorks(rows, m, z, c, s, r, n, q, l)
<1> SUFFICES ASSUME s \in [Reg -> Word], addr \in Reg, addr \notin Temps,
                    base \in 0 .. HalfM - 1, offset \in 0 .. HalfM - 1, n \in {1, 2, 4, 8},
                    s[addr] = base, s[Limit(n)] = 2 * z + LinearBase + 1 - 2 * n,
                    Has(rows, 1, EmitAddress(addr, offset, n)),
                    base + offset = 4 * q + l, m = At(1, s, z, c, "none")
             PROVE  AddressWorks(rows, m, z, c, s, base + offset, n, q, l)
    BY Zenon DEF Access
<1> SUFFICES IF base + offset + n <= z
             THEN Comes(rows, m, 6, z, c, s, CellAddress(q) + 2 * l, CellAddress(q), 2 * l, s["T3"], s["T4"])
             ELSE \E g \in [Reg -> Word] : Leads(rows, m, At(3, g, z, c, "OutOfBounds"))
    BY Zenon DEF AddressWorks, Lands, Traps
<1> DEFINE k == 2 * z + LinearBase + 1 - 2 * n
           x == CellAddress(q) + 2 * l
<1>1. Memory(z, c) /\ z \in Nat /\ z <= HalfM
  <2>1. Memory(z, c) /\ z \in Nat /\ z <= MaxBytes  BY Shapes, Zenon DEF Shape
  <2> QED BY <2>1, Pages, Sizes
<1>2. /\ rows[1] = Alu("Add64", "T0", addr, R(addr))
      /\ rows[2] = AluImm("Add64", "T0", "T0", LinearAddress(offset))
      /\ rows[3] = Assert("LtU", "OutOfBounds", "T0", R(Limit(n)))
      /\ rows[4] = AluImm("And", "T2", "T0", LaneMask)
      /\ rows[5] = AluImm("And", "T1", "T0", M - CellUnits)
    BY HasFive DEF EmitAddress
<1>3. /\ (base + base) % M = 2 * base /\ 2 * base \in Word
      /\ (2 * base + LinearAddress(offset)) % M = x
      /\ x \in Word /\ x = LinearBase + 2 * (base + offset)
      /\ (x & LaneMask) = 2 * l /\ 2 * l \in Word
      /\ (x & (M - CellUnits)) = CellAddress(q) /\ CellAddress(q) \in Word
    BY AddressWords
<1>4. Limit(n) \in Reg /\ Limit(n) \notin Temps  BY LimitNames
<1>5. base + offset \in Nat /\ (x < k <=> base + offset + n <= z)
  <2>1. base + offset \in Nat  OBVIOUS
  <2>2. LinearBase + 2 * (base + offset) < 2 * z + LinearBase + 1 - 2 * n <=> (base + offset) + n <= z
      BY <1>1, <2>1, LimitWords, Zenon
  <2> QED BY <1>3, <2>1, <2>2
<1> HIDE DEF x, k
<1>6. Comes(rows, m, 1, z, c, s, s["T0"], s["T1"], s["T2"], s["T3"], s["T4"])  BY <1>1, Starts
<1>7. Comes(rows, m, 2, z, c, s, 2 * base, s["T1"], s["T2"], s["T3"], s["T4"])
    BY <1>3, Evaluates, <1>2, <1>6, RegNames, RegT0 DEF Source, Temps
<1>8. Comes(rows, m, 3, z, c, s, x, s["T1"], s["T2"], s["T3"], s["T4"])
    BY RegNames, <1>3, Evaluates, <1>2, <1>7, ImmT0 DEF Source
<1>9. /\ Source(s, x, s["T1"], s["T2"], s["T3"], s["T4"], "T0") = x
      /\ Source(s, x, s["T1"], s["T2"], s["T3"], s["T4"], Limit(n)) = k
    BY <1>4 DEF k, Source, Temps
<1>10. Evaluate("LtU", x, k) = 1 <=> base + offset + n <= z  BY Evaluates, <1>5 DEF Bool
<1>11. IF Evaluate("LtU", x, k) = 1 THEN Comes(rows, m, 4, z, c, s, x, s["T1"], s["T2"], s["T3"], s["T4"])
       ELSE \E g \in [Reg -> Word] : Memory(z, c) /\ Leads(rows, m, At(3, g, z, c, "OutOfBounds"))
  <2>1. 4 = 3 + 1  OBVIOUS
  <2>2. rows[3] = Assert("LtU", "OutOfBounds", "T0", R(Limit(n))) /\ Limit(n) \in Reg  BY <1>2, <1>4
  <2>3. PICK v : v = Evaluate("LtU", x, k)  OBVIOUS
  <2>4. Asserted(rows, m, 3, 4, z, c, s, x, s["T1"], s["T2"], s["T3"], s["T4"], v)
      BY <1>8, <1>9, <2>1, <2>2, <2>3, RegNames, AssertComes, Zenon
  <2> QED BY <2>3, <2>4, Zenon DEF Asserted
<1>12. CASE ~(base + offset + n <= z)  BY <1>10, <1>11, <1>12
<1>13. CASE base + offset + n <= z
    BY <1>10, <1>11, <1>13, RegNames, <1>3, Evaluates, <1>2, ImmT2, ImmT1 DEF Source, x
<1> QED BY <1>12, <1>13

\* Two writes of a register are the last.
LEMMA SetsTwice ==
  ASSUME NEW s, NEW g, NEW h, NEW t, NEW u, NEW v, Sets(s, g, t, u), Sets(g, h, t, v)
  PROVE  Sets(s, h, t, v)
<1> QED BY DEF Sets

\* The bits of n bytes.
LEMMA ByteWidths ==
  ASSUME NEW n \in {1, 2, 4, 8}
  PROVE  /\ ByteBits * n \in Nat \ {0} /\ ByteBits * n <= Bits /\ BP(n) = 2^(ByteBits * n)
         /\ n < 8 => ByteBits * n < Bits /\ ByteBits * n <= H
         /\ BP(n) \in Nat \ {0}
<1>1. ByteBits * n \in Nat \ {0} /\ ByteBits * n <= Bits /\ (n < 8 => ByteBits * n < Bits /\ ByteBits * n <= H)
    BY Sizes
<1>2. BP(n) \in Nat \ {0}  BY BytePowers
<1> QED BY <1>1, <1>2 DEF BP

\* The words of an extension.
LEMMA Extensions ==
  ASSUME NEW n \in 0 .. 8, NEW y \in Word, NEW k \in Nat \ {0}, k <= H, BP(n) = 2^k
  PROVE  /\ y % BP(n) \in Word /\ Extended(y % BP(n), k, Bits, FALSE) = y % BP(n)
         /\ Extended(y % BP(n), k, H, FALSE) = y % BP(n)
         /\ Unsigned(Bits, Signed(k, y % BP(n))) = Extended(y % BP(n), k, Bits, TRUE)
         /\ Unsigned(Bits, Signed(k, y % BP(n))) % HalfM = Extended(y % BP(n), k, H, TRUE)
         /\ Unsigned(Bits, Signed(k, y % BP(n))) \in Word /\ Extended(y % BP(n), k, H, TRUE) \in Word
         /\ Extended(y % BP(n), k, Bits, TRUE) \in Word
<1>1. k \in Nat \ {0} /\ k <= Bits /\ k <= H /\ BP(n) = 2^k  BY Sizes
<1>2. y % BP(n) \in 0 .. BP(n) - 1 /\ y % BP(n) \in Word  BY ByteMasks
<1>3. y % BP(n) \in 0 .. 2^k - 1  BY <1>1, <1>2
<1>4. /\ Unsigned(Bits, Signed(k, y % BP(n))) = Extended(y % BP(n), k, Bits, TRUE)
      /\ k <= H => Unsigned(Bits, Signed(k, y % BP(n))) % HalfM = Extended(y % BP(n), k, H, TRUE)
      /\ Unsigned(Bits, Signed(k, y % BP(n))) \in Word
    BY <1>1, <1>3, SignWords, Zenon
<1>5. Unsigned(Bits, Signed(k, y % BP(n))) % HalfM \in Word  BY <1>4, CellMasks
<1>6. Extended(y % BP(n), k, Bits, FALSE) = y % BP(n) /\ Extended(y % BP(n), k, H, FALSE) = y % BP(n)
    BY DEF Extended
<1> QED BY <1>1, <1>2, <1>4, <1>5, <1>6, Zenon

-----------------------------------------------------------------------------
(* A load: the rows of its address and its limit test *)

\* The registers are those the rows come to row n with, v in t.
Gets(rows, m, n, z, c, s, t, v, a, b, d, e, f) ==
    \E g \in [Reg -> Word] : Sets(s, g, t, v) /\ Comes(rows, m, n, z, c, g, a, b, d, e, f)

Free(t) == t \in Reg \ {"ZERO"} /\ t \notin Temps

\* An ALU row into the result's register,
LEMMA RegGets ==
  ASSUME NEW rows, NEW m, NEW p, NEW z, NEW c, NEW s,
         s \in [Reg -> Word], NEW a, NEW b, NEW d, NEW e, NEW f,
         Comes(rows, m, p, z, c, s, a, b, d, e, f), NEW t, Free(t),
         NEW op, NEW x \in Reg, NEW y \in Reg, rows[p] = Alu(op, t, x, R(y)),
         NEW u, NEW w, Source(s, a, b, d, e, f, x) = u, Source(s, a, b, d, e, f, y) = w,
         NEW v, v \in Word, Evaluate(op, u, w) = v, NEW n, n = p + 1
  PROVE  Gets(rows, m, n, z, c, s, t, v, a, b, d, e, f)
<1>1. Yields(rows, p, z, c, s, a, b, d, e, f, t, v)  BY YieldsReg
<1>2. t \in Reg \ {"ZERO"} /\ t \notin Temps  BY Zenon DEF Free
<1> QED BY <1>1, <1>2, YieldsBase, Zenon DEF Gets

\* with an immediate.
LEMMA ImmGets ==
  ASSUME NEW rows, NEW m, NEW p, NEW z, NEW c, NEW s,
         s \in [Reg -> Word], NEW a, NEW b, NEW d, NEW e, NEW f,
         Comes(rows, m, p, z, c, s, a, b, d, e, f), NEW t, Free(t),
         NEW op, NEW x \in Reg, NEW k, rows[p] = AluImm(op, t, x, k),
         NEW u, Source(s, a, b, d, e, f, x) = u,
         NEW v, v \in Word, Evaluate(op, u, k) = v, NEW n, n = p + 1
  PROVE  Gets(rows, m, n, z, c, s, t, v, a, b, d, e, f)
<1>1. Yields(rows, p, z, c, s, a, b, d, e, f, t, v)  BY YieldsImm
<1>2. t \in Reg \ {"ZERO"} /\ t \notin Temps  BY Zenon DEF Free
<1> QED BY <1>1, <1>2, YieldsBase, Zenon DEF Gets

\* A run of rows that ends with v in t.
Gives(rows, m, n, z, c, s, t, v, b, d, e, f) == \E a : Gets(rows, m, n, z, c, s, t, v, a, b, d, e, f)

\* The rows of a narrowing: one row,
LEMMA OneRow ==
  ASSUME NEW rows, NEW m, NEW p \in Nat, NEW z, NEW c, NEW s \in [Reg -> Word],
         NEW a, NEW b, NEW d, NEW y, NEW f,
         Comes(rows, m, p, z, c, s, a, b, d, y, f),
         NEW rd, Free(rd),
         NEW op, NEW u, NEW e \in Word, Evaluate(op, y, u) = e,
         NEW S, S = <<AluImm(op, rd, "T3", u)>>, Has(rows, p, S), NEW k, k = p + Len(S)
  PROVE  Gives(rows, m, k, z, c, s, rd, e, b, d, y, f)
<1>1. Source(s, a, b, d, y, f, "T3") = y  BY DEF Source
<1> DEFINE A1 == AluImm(op, rd, "T3", u)
<1>2. S = <<A1>>  OBVIOUS
<1> HIDE DEF A1
<1>3. rows[p] = A1 /\ Len(S) = 1  BY <1>2, HasOne
<1>4. rows[p] = AluImm(op, rd, "T3", u) /\ k = p + 1  BY <1>3 DEF A1
<1>5. Gets(rows, m, k, z, c, s, rd, e, a, b, d, y, f)  BY <1>1, <1>4, RegNames, ImmGets, Zenon
<1> QED BY <1>5, Zenon DEF Gives

\* two,
LEMMA TwoRows ==
  ASSUME NEW rows, NEW m, NEW p \in Nat, NEW z, NEW c, NEW s \in [Reg -> Word],
         NEW a, NEW b, NEW d, NEW y, NEW f,
         Comes(rows, m, p, z, c, s, a, b, d, y, f),
         NEW rd, Free(rd),
         NEW op, NEW u, NEW x \in Word, Evaluate(op, y, u) = x,
         NEW qp, NEW v, NEW e \in Word, Evaluate(qp, x, v) = e,
         NEW S, S = <<AluImm(op, rd, "T3", u), AluImm(qp, rd, rd, v)>> \o <<>>,
         Has(rows, p, S), NEW k, k = p + Len(S)
  PROVE  Gives(rows, m, k, z, c, s, rd, e, b, d, y, f)
<1>1. Source(s, a, b, d, y, f, "T3") = y  BY DEF Source
<1> DEFINE A1 == AluImm(op, rd, "T3", u)
           A2 == AluImm(qp, rd, rd, v)
<1>2. S = <<A1, A2>> \o <<>>  OBVIOUS
<1> HIDE DEF A1, A2
<1>3. IsSequence(<<A1, A2>>) /\ IsSequence(<<>>) /\ Len(<<A1, A2>>) = 2 /\ Len(<<>>) = 0  BY HasTwo, HasNone
<1>4. Len(S) = 2 /\ Has(rows, p, <<A1, A2>>)  BY <1>2, <1>3, HasJoin
<1>5. rows[p] = A1 /\ rows[p + 1] = A2  BY <1>4, HasTwo
<1>6. PICK o : o = p + 1 /\ k = o + 1  BY <1>4
<1>7. rows[p] = AluImm(op, rd, "T3", u) /\ rows[o] = AluImm(qp, rd, rd, v)  BY <1>5, <1>6 DEF A1, A2
<1>12. Gets(rows, m, o, z, c, s, rd, x, a, b, d, y, f)  BY <1>1, <1>6, <1>7, RegNames, ImmGets, Zenon
<1>8. PICK g \in [Reg -> Word] : Sets(s, g, rd, x) /\ Comes(rows, m, o, z, c, g, a, b, d, y, f)
    BY <1>12, Zenon DEF Gets
<1>9. Source(g, a, b, d, y, f, rd) = x /\ rd \in Reg  BY <1>8 DEF Source, Sets, Temps, Free
<1>13. Gets(rows, m, k, z, c, g, rd, e, a, b, d, y, f)  BY <1>6, <1>7, <1>8, <1>9, ImmGets, Zenon
<1>10. PICK h \in [Reg -> Word] : Sets(g, h, rd, e) /\ Comes(rows, m, k, z, c, h, a, b, d, y, f)
    BY <1>13, Zenon DEF Gets
<1>11. Sets(s, h, rd, e)  BY <1>8, <1>10, SetsTwice, Zenon
<1> QED BY <1>10, <1>11, Zenon DEF Gives, Gets

\* or three by way of T0.
LEMMA ThreeRows ==
  ASSUME NEW rows, NEW m, NEW p \in Nat, NEW z, NEW c, NEW s \in [Reg -> Word],
         NEW a, NEW b, NEW d, NEW y, NEW f,
         Comes(rows, m, p, z, c, s, a, b, d, y, f),
         NEW rd, Free(rd),
         NEW op, NEW u, NEW x \in Word, Evaluate(op, y, u) = x,
         NEW qp, NEW v, NEW w \in Word, Evaluate(qp, x, v) = w,
         NEW rp, NEW i, NEW e \in Word, Evaluate(rp, w, i) = e,
         NEW S,
         S = <<AluImm(op, "T0", "T3", u), AluImm(qp, "T0", "T0", v)>> \o <<AluImm(rp, rd, "T0", i)>>,
         Has(rows, p, S), NEW k, k = p + Len(S)
  PROVE  Gives(rows, m, k, z, c, s, rd, e, b, d, y, f)
<1>1. /\ Source(s, a, b, d, y, f, "T3") = y /\ Source(s, x, b, d, y, f, "T0") = x
      /\ Source(s, w, b, d, y, f, "T0") = w
    BY DEF Source
<1> DEFINE A1 == AluImm(op, "T0", "T3", u)
           A2 == AluImm(qp, "T0", "T0", v)
           A3 == AluImm(rp, rd, "T0", i)
<1>2. S = <<A1, A2>> \o <<A3>>  OBVIOUS
<1> HIDE DEF A1, A2, A3
<1>3. IsSequence(<<A1, A2>>) /\ IsSequence(<<A3>>) /\ Len(<<A1, A2>>) = 2 /\ Len(<<A3>>) = 1
    BY HasTwo, HasOne
<1>14. PICK x1, x2 : x1 = <<A1, A2>> /\ x2 = <<A3>>  OBVIOUS
<1>15. IsSequence(x1) /\ IsSequence(x2) /\ Len(x1) = 2 /\ Len(x2) = 1 /\ Has(rows, p, x1 \o x2) /\ S = x1 \o x2
    BY <1>2, <1>3, <1>14
<1>16. Len(x1 \o x2) = Len(x1) + Len(x2) /\ Has(rows, p, x1) /\ Has(rows, p + Len(x1), x2)
    BY <1>15, HasJoin, Zenon
<1>4. /\ Len(S) = 2 + 1 /\ Has(rows, p, <<A1, A2>>) /\ Has(rows, p + 2, <<A3>>)  BY <1>14, <1>15, <1>16
<1>5. Len(S) = 3  BY <1>4
<1>6. PICK o, n : o = p + 1 /\ n = o + 1 /\ k = n + 1 /\ n = p + 2  BY <1>5
<1>7. rows[p] = A1 /\ rows[p + 1] = A2  BY <1>4, HasTwo
<1>8. Has(rows, n, <<A3>>) /\ n \in Nat  BY <1>4, <1>5, <1>6
<1>9. rows[n] = A3  BY <1>8, HasOne
<1>10. /\ rows[p] = AluImm(op, "T0", "T3", u) /\ rows[o] = AluImm(qp, "T0", "T0", v)
       /\ rows[n] = AluImm(rp, rd, "T0", i)
    BY <1>6, <1>7, <1>9 DEF A1, A2, A3
<1>11. Comes(rows, m, o, z, c, s, x, b, d, y, f)  BY <1>1, <1>6, <1>10, RegNames, ImmT0, Zenon
<1>12. Comes(rows, m, n, z, c, s, w, b, d, y, f)  BY <1>1, <1>6, <1>10, <1>11, RegNames, ImmT0, Zenon
<1>13. Gets(rows, m, k, z, c, s, rd, e, w, b, d, y, f)  BY <1>1, <1>6, <1>10, <1>12, RegNames, ImmGets, Zenon
<1> QED BY <1>13, Zenon DEF Gives

\* Two and three rows, as facts about the sequence.
TwoShifts(S, rd, y, e) ==
    \E op, u, x, qp, v :
        /\ S = <<AluImm(op, rd, "T3", u), AluImm(qp, rd, rd, v)>> \o <<>>
        /\ x \in Word /\ Evaluate(op, y, u) = x /\ e \in Word /\ Evaluate(qp, x, v) = e

TwoShiftsCut(S, rd, y, e) ==
    \E op, u, x, qp, v, w, rp, i :
        /\ S = <<AluImm(op, "T0", "T3", u), AluImm(qp, "T0", "T0", v)>> \o <<AluImm(rp, rd, "T0", i)>>
        /\ x \in Word /\ Evaluate(op, y, u) = x /\ w \in Word /\ Evaluate(qp, x, v) = w
        /\ e \in Word /\ Evaluate(rp, w, i) = e

OneShift(S, rd, y, e) ==
    \E op, u : S = <<AluImm(op, rd, "T3", u)>> /\ e \in Word /\ Evaluate(op, y, u) = e

\* From y in T3 the rows S put e in rd.
Narrows(S, rd, y, e) == OneShift(S, rd, y, e) \/ TwoShifts(S, rd, y, e) \/ TwoShiftsCut(S, rd, y, e)

\* The rows that narrow give the value narrowed.
LEMMA NarrowsGive ==
  ASSUME NEW rows, NEW m, NEW p, p \in Nat, NEW z, NEW c, NEW s, s \in [Reg -> Word],
         NEW a, NEW b, NEW d, NEW y, NEW f,
         Comes(rows, m, p, z, c, s, a, b, d, y, f),
         NEW rd, Free(rd), NEW S, NEW e, Narrows(S, rd, y, e),
         Has(rows, p, S), NEW k, k = p + Len(S)
  PROVE  Gives(rows, m, k, z, c, s, rd, e, b, d, y, f)
<1>0. CASE OneShift(S, rd, y, e)
  <2>1. PICK op, u : S = <<AluImm(op, rd, "T3", u)>> /\ e \in Word /\ Evaluate(op, y, u) = e
      BY <1>0, Zenon DEF OneShift
  <2> QED BY <2>1, OneRow, Zenon
<1>1. CASE TwoShifts(S, rd, y, e)
  <2>1. PICK op, u, x, qp, v :
            /\ S = <<AluImm(op, rd, "T3", u), AluImm(qp, rd, rd, v)>> \o <<>>
            /\ x \in Word /\ Evaluate(op, y, u) = x /\ e \in Word /\ Evaluate(qp, x, v) = e
      BY <1>1, Zenon DEF TwoShifts
  <2> QED BY <2>1, TwoRows, Zenon
<1>2. CASE TwoShiftsCut(S, rd, y, e)
  <2>1. PICK op, u, x, qp, v, w, rp, i :
            /\ S = <<AluImm(op, "T0", "T3", u), AluImm(qp, "T0", "T0", v)>> \o <<AluImm(rp, rd, "T0", i)>>
            /\ x \in Word /\ Evaluate(op, y, u) = x /\ w \in Word /\ Evaluate(qp, x, v) = w
            /\ e \in Word /\ Evaluate(rp, w, i) = e
      BY <1>2, Zenon DEF TwoShiftsCut
  <2> QED BY <2>1, ThreeRows, Zenon
<1> QED BY <1>0, <1>1, <1>2, Zenon DEF Narrows

\* What the rows narrow to: one step for a mask, a copy or a sign extension of
\* a half word, the two shifts for a narrower sign extension.
LEMMA NarrowWord ==
  ASSUME NEW y \in Word
  PROVE  /\ Evaluate("Add64", y, 0) = y % BP(8) /\ y % BP(8) \in Word
         /\ \A n \in 0 .. 8 : Evaluate("And", y, ByteMask(n)) = y % BP(n) /\ y % BP(n) \in Word
         /\ Evaluate("SignExtendWord", y, 0) = Extended(y % BP(4), H, Bits, TRUE)
         /\ Evaluate("LowerHalfWord", y, 0) = y % HalfM
         /\ Extended(y % BP(4), H, Bits, TRUE) \in Word
<1>1. (y + 0) % M = y  BY PlusZero
<1>2. BP(8) = M /\ BP(4) = HalfM /\ HalfM = 2^H /\ H \in Nat \ {0} /\ H <= H  BY BytePowers, Sizes
<1>3. y % M = y  BY Sizes, RemainderSmall DEF Word
<1>4. ASSUME NEW n \in 0 .. 8 PROVE Evaluate("And", y, ByteMask(n)) = y % BP(n) /\ y % BP(n) \in Word
    BY ByteMasks, Evaluates
<1>5. /\ Unsigned(Bits, Signed(H, y % BP(4))) = Extended(y % BP(4), H, Bits, TRUE)
      /\ Extended(y % BP(4), H, Bits, TRUE) \in Word
  <2>1. 4 \in 0 .. 8 /\ BP(4) = 2^H  BY <1>2
  <2> QED BY <1>2, <2>1, Extensions, Zenon
<1>6. Evaluate("SignExtendWord", y, 0) = Unsigned(Bits, Signed(H, y % BP(4)))  BY Evaluates, <1>1, <1>2
<1>7. Evaluate("LowerHalfWord", y, 0) = y % HalfM  BY Evaluates, <1>1
<1>8. Evaluate("Add64", y, 0) = y  BY <1>1, Evaluates
<1> QED BY <1>2, <1>3, <1>4, <1>5, <1>6, <1>7, <1>8

\* sign_extend_rows extends.
LEMMA SignRows ==
  ASSUME NEW y \in Word, NEW n \in 0 .. 8, NEW u \in Nat \ {0}, u < Bits, u <= H, BP(n) = 2^u,
         NEW rd
  PROVE  /\ TwoShifts(SignExtend(64, rd, "T3", u), rd, y, Extended(y % BP(n), u, Bits, TRUE))
         /\ TwoShiftsCut(SignExtend(32, rd, "T3", u), rd, y, Extended(y % BP(n), u, H, TRUE))
<1>1. PICK x1, x2 : x1 = MulWrap(y, 2^(Bits - u)) /\ x2 = Unsigned(Bits, Signed(u, y % BP(n)))  OBVIOUS
<1>2. x1 \in Word /\ Evaluate("Sra", x1, ShiftMask(Bits - u)) = x2  BY <1>1, SignMovedWord
<1>3. Evaluate("Mul64", y, 2^(Bits - u)) = x1  BY <1>1, Evaluates
<1>4. x2 = Extended(y % BP(n), u, Bits, TRUE) /\ x2 % HalfM = Extended(y % BP(n), u, H, TRUE)
      /\ x2 \in Word /\ Extended(y % BP(n), u, H, TRUE) \in Word
    BY <1>1, Extensions
<1>5. PICK K1, K2 : K1 = 2^(Bits - u) /\ K2 = ShiftMask(Bits - u)  OBVIOUS
<1>6. SignExtend(64, rd, "T3", u) = <<AluImm("Mul64", rd, "T3", K1), AluImm("Sra", rd, rd, K2)>> \o <<>>
    BY <1>5, Zenon DEF SignExtend
<1>7. 32 # 64  OBVIOUS
<1>8. SignExtend(32, rd, "T3", u) = <<AluImm("Mul64", "T0", "T3", K1), AluImm("Sra", "T0", "T0", K2)>>
              \o <<AluImm("LowerHalfWord", rd, "T0", 0)>>
    BY <1>5, <1>7, Zenon DEF SignExtend
<1>9. Evaluate("LowerHalfWord", x2, 0) = x2 % HalfM  BY <1>4, NarrowWord, Zenon
<1>10. TwoShifts(SignExtend(64, rd, "T3", u), rd, y, x2)  BY <1>2, <1>3, <1>4, <1>5, <1>6 DEF TwoShifts
<1>11. TwoShiftsCut(SignExtend(32, rd, "T3", u), rd, y, x2 % HalfM)
    BY <1>2, <1>3, <1>4, <1>5, <1>8, <1>9 DEF TwoShiftsCut
<1> QED BY <1>4, <1>10, <1>11

\* The rows of Narrow extend the low n bytes.
LEMMA Narrowed ==
  ASSUME NEW y \in Word, NEW rd,
         NEW n \in {1, 2, 4, 8}, NEW signed \in BOOLEAN, NEW w \in {32, 64},
         n = 8 => w = 64 /\ ~signed, n = 4 /\ w = 32 => ~signed
  PROVE  Narrows(Narrow(rd, "T3", n, signed, w), rd, y,
                 Extended(y % BP(n), ByteBits * n, IF w = 32 THEN H ELSE Bits, signed))
<1> DEFINE S == Narrow(rd, "T3", n, signed, w)
           e == Extended(y % BP(n), ByteBits * n, IF w = 32 THEN H ELSE Bits, signed)
<1>0. n \in 0 .. 8  OBVIOUS
<1>2. CASE n = 8
  <2>1. S = <<AluImm("Add64", rd, "T3", 0)>> /\ w = 64 /\ ~signed  BY <1>2 DEF Narrow, Mov
  <2>2. e = y % BP(8)  BY <1>2, <2>1 DEF Extended
  <2>3. Evaluate("Add64", y, 0) = y % BP(8) /\ y % BP(8) \in Word  BY NarrowWord, Zenon
  <2> HIDE DEF S, e
  <2>4. OneShift(S, rd, y, e)  BY <2>1, <2>2, <2>3 DEF OneShift
  <2> QED BY <2>4 DEF Narrows, S, e
<1>3. CASE n < 8 /\ ~signed
  <2>1. S = <<AluImm("And", rd, "T3", ByteMask(n))>>  BY <1>3 DEF Narrow
  <2>2. e = y % BP(n)  BY <1>3 DEF Extended
  <2>3. Evaluate("And", y, ByteMask(n)) = y % BP(n) /\ y % BP(n) \in Word  BY <1>0, NarrowWord, Zenon
  <2> HIDE DEF S, e
  <2>4. OneShift(S, rd, y, e)  BY <2>1, <2>2, <2>3 DEF OneShift
  <2> QED BY <2>4 DEF Narrows, S, e
<1>4. CASE n = 4 /\ signed
  <2>1. S = <<AluImm("SignExtendWord", rd, "T3", 0)>> /\ w = 64  BY <1>4 DEF Narrow
  <2>2. ByteBits * 4 = H  BY Sizes
  <2>3. e = Extended(y % BP(4), H, Bits, TRUE)  BY <1>4, <2>1, <2>2
  <2>4. Evaluate("SignExtendWord", y, 0) = Extended(y % BP(4), H, Bits, TRUE)
        /\ Extended(y % BP(4), H, Bits, TRUE) \in Word
      BY NarrowWord, Zenon
  <2> HIDE DEF S, e
  <2>5. OneShift(S, rd, y, e)  BY <2>1, <2>3, <2>4 DEF OneShift
  <2> QED BY <2>5 DEF Narrows, S, e
<1>5. CASE n < 4 /\ signed
  <2>1. PICK u : u = ByteBits * n  OBVIOUS
  <2>2. S = SignExtend(w, rd, "T3", u)  BY <1>5, <2>1 DEF Narrow
  <2>3. u \in Nat \ {0} /\ u < Bits /\ u <= H /\ BP(n) = 2^u  BY <1>5, <2>1, ByteWidths
  <2>4. /\ TwoShifts(SignExtend(64, rd, "T3", u), rd, y, Extended(y % BP(n), u, Bits, TRUE))
        /\ TwoShiftsCut(SignExtend(32, rd, "T3", u), rd, y, Extended(y % BP(n), u, H, TRUE))
      BY <1>0, <2>3, SignRows
  <2>5. signed = TRUE  BY <1>5
  <2>6. ASSUME w = 64 PROVE TwoShifts(S, rd, y, e)
    <3>1. e = Extended(y % BP(n), u, Bits, TRUE)  BY <2>1, <2>5, <2>6
    <3>2. S = SignExtend(64, rd, "T3", u)  BY <2>2, <2>6
    <3> HIDE DEF S, e
    <3> QED BY <2>4, <3>1, <3>2
  <2>7. w = 32 => TwoShiftsCut(S, rd, y, e)  BY <2>1, <2>2, <2>4, <2>5
  <2> HIDE DEF S, e
  <2>8. Narrows(S, rd, y, e)  BY <2>6, <2>7 DEF Narrows
  <2> QED BY <2>8 DEF S, e
<1> QED BY <1>2, <1>3, <1>4, <1>5

\* A load at offset o from address b finds v.
Finds(c, b, o, v) ==
    \E k : k = (b + o) % M /\ ~IsSize(k) /\ Holds(k, c) /\ v = c[CellAt(k)] /\ v \in Word

\* A load at a cell's address, or of the next two, finds the cell.
LEMMA CellFinds ==
  ASSUME NEW z, NEW c, NEW j, Shape(z, c, j), NEW q \in Nat, NEW i \in 0 .. 2, q + i <= j,
         NEW b, b = CellAddress(q), NEW o, o = CellUnits * i
  PROVE  Finds(c, b, o, c[q + i]) /\ c[q + i] \in 0 .. CellMask
<1> DEFINE k == CellAddress(q + i)
<1>1. (b + o) % M = k  BY CellOffsets
<1>2. q + i \in 0 .. j /\ c[q + i] \in Word /\ c[q + i] \in 0 .. CellMask  BY CellIs DEF Shape
<1>3. ~IsSize(k) /\ Holds(k, c) /\ CellAt(k) = q + i  BY <1>2, CellAddresses
<1> HIDE DEF k
<1>4. \E n : n = (b + o) % M /\ ~IsSize(n) /\ Holds(n, c) /\ c[q + i] = c[CellAt(n)] /\ c[q + i] \in Word
    BY <1>1, <1>2, <1>3
<1> QED BY <1>2, <1>4, Zenon DEF Finds

\* The offsets of the rows.
LEMMA CellsFind ==
  ASSUME NEW z, NEW c, NEW j, Shape(z, c, j), NEW q \in Nat, NEW b, b = CellAddress(q)
  PROVE  /\ q <= j => Finds(c, b, 0, c[q]) /\ c[q] \in 0 .. CellMask
         /\ q + 1 <= j => Finds(c, b, CellUnits, c[q + 1]) /\ c[q + 1] \in 0 .. CellMask
         /\ q + 2 <= j => Finds(c, b, 2 * CellUnits, c[q + 2]) /\ c[q + 2] \in 0 .. CellMask
<1>1. CellUnits * 0 = 0 /\ CellUnits * 1 = CellUnits /\ CellUnits * 2 = 2 * CellUnits /\ q + 0 = q
    BY DEF CellUnits
<1>2. ASSUME q <= j PROVE Finds(c, b, 0, c[q]) /\ c[q] \in 0 .. CellMask  BY <1>1, <1>2, CellFinds
<1>3. ASSUME q + 1 <= j PROVE Finds(c, b, CellUnits, c[q + 1]) /\ c[q + 1] \in 0 .. CellMask
    BY <1>1, <1>3, CellFinds
<1>4. ASSUME q + 2 <= j PROVE Finds(c, b, 2 * CellUnits, c[q + 2]) /\ c[q + 2] \in 0 .. CellMask
    BY <1>1, <1>4, CellFinds
<1> QED BY <1>2, <1>3, <1>4

\* The load row yields it,
LEMMA FindsYields ==
  ASSUME NEW rows, NEW p, NEW z, NEW c, NEW s, NEW a, NEW b, NEW d, NEW e, NEW f, NEW t,
         NEW o, rows[p] = Load(t, "T1", o), NEW v, Finds(c, b, o, v)
  PROVE  Yields(rows, p, z, c, s, a, b, d, e, f, t, v)
<1>1. PICK k : k = (b + o) % M /\ ~IsSize(k) /\ Holds(k, c) /\ v = c[CellAt(k)] /\ v \in Word
    BY Zenon DEF Finds
<1>2. "T1" \in Reg /\ Source(s, a, b, d, e, f, "T1") = b  BY RegAssumption DEF Source
<1>3. k = (Source(s, a, b, d, e, f, "T1") + o) % M  BY <1>1, <1>2
<1>4. Fetches(rows, p, z, c, s, a, b, d, e, f, t, v)  BY <1>1, <1>2, <1>3, Zenon DEF Fetches
<1> QED BY <1>4 DEF Yields

\* into T3,
LEMMA LoadT3 ==
  ASSUME NEW rows, NEW m, NEW p, NEW z, NEW c, NEW s, NEW a, NEW b, NEW d, NEW e, NEW f,
         Comes(rows, m, p, z, c, s, a, b, d, e, f),
         NEW o, rows[p] = Load("T3", "T1", o), NEW v, Finds(c, b, o, v), NEW n, n = p + 1
  PROVE  Comes(rows, m, n, z, c, s, a, b, d, v, f)
<1>1. Yields(rows, p, z, c, s, a, b, d, e, f, "T3", v)  BY FindsYields, Zenon
<1> QED BY <1>1, YieldsT3, Zenon

\* into T4,
LEMMA LoadT4 ==
  ASSUME NEW rows, NEW m, NEW p, NEW z, NEW c, NEW s, NEW a, NEW b, NEW d, NEW e, NEW f,
         Comes(rows, m, p, z, c, s, a, b, d, e, f),
         NEW o, rows[p] = Load("T4", "T1", o), NEW v, Finds(c, b, o, v), NEW n, n = p + 1
  PROVE  Comes(rows, m, n, z, c, s, a, b, d, e, v)
<1>1. Yields(rows, p, z, c, s, a, b, d, e, f, "T4", v)  BY FindsYields, Zenon
<1> QED BY <1>1, YieldsT4, Zenon

\* or into the result.
LEMMA LoadGets ==
  ASSUME NEW rows, NEW m, NEW p, NEW z, NEW c, NEW s,
         s \in [Reg -> Word], NEW a, NEW b, NEW d, NEW e, NEW f,
         Comes(rows, m, p, z, c, s, a, b, d, e, f), NEW t, Free(t),
         NEW o, rows[p] = Load(t, "T1", o), NEW v, Finds(c, b, o, v), NEW n, n = p + 1
  PROVE  Gets(rows, m, n, z, c, s, t, v, a, b, d, e, f)
<1>1. Yields(rows, p, z, c, s, a, b, d, e, f, t, v)  BY FindsYields, Zenon
<1>2. t \in Reg \ {"ZERO"} /\ t \notin Temps  BY Zenon DEF Free
<1> QED BY <1>1, <1>2, YieldsBase, Zenon DEF Gets

\* A store of v at offset o from address b makes the cells g.
Puts(z, c, b, o, v, g) ==
    \E k : k = (b + o) % M /\ ~IsSize(k) /\ Holds(k, c) /\ v <= CellMask
           /\ g = [c EXCEPT ![CellAt(k)] = v] /\ Memory(z, g)

\* A store there puts the word in the cell.
LEMMA CellPuts ==
  ASSUME NEW z, NEW c, NEW j, Shape(z, c, j), NEW q \in Nat, NEW i \in 0 .. 2, q + i < j,
         NEW b, b = CellAddress(q), NEW o, o = CellUnits * i, NEW v \in 0 .. CellMask,
         NEW k, k = q + i
  PROVE  LET g == [c EXCEPT ![k] = v] IN Puts(z, c, b, o, v, g) /\ Shape(z, g, j)
<1> DEFINE y == CellAddress(k)
           g == [c EXCEPT ![k] = v]
<1>1. (b + o) % M = y
  <2>1. q + i <= j  BY DEF Shape
  <2> QED BY <2>1, CellOffsets
<1>2. k \in 0 .. j /\ k # j /\ j \in 0 .. j  BY DEF Shape
<1>3. ~IsSize(y) /\ Holds(y, c) /\ CellAt(y) = k  BY <1>2, CellAddresses
<1> HIDE DEF y
<1>4. Shape(z, g, j)
  <2>1. c \in [0 .. j -> 0 .. CellMask] /\ c[j] = 0  BY Zenon DEF Shape
  <2>2. g \in [0 .. j -> 0 .. CellMask] /\ g[j] = 0 /\ DOMAIN g = 0 .. j  BY <1>2, <2>1
  <2> HIDE DEF g
  <2> QED BY <2>2, Zenon DEF Shape
<1>5. Memory(z, g)  BY <1>4, Shapes
<1>6. v <= CellMask  BY CellIs
<1>7. \E n : n = (b + o) % M /\ ~IsSize(n) /\ Holds(n, c) /\ v <= CellMask
             /\ g = [c EXCEPT ![CellAt(n)] = v] /\ Memory(z, g)
  <2> HIDE DEF g
  <2>1. g = [c EXCEPT ![CellAt(y)] = v]  BY <1>3 DEF g
  <2> QED BY <1>1, <1>3, <1>5, <1>6, <2>1
<1> HIDE DEF g
<1>8. Puts(z, c, b, o, v, g) /\ Shape(z, g, j)  BY <1>4, <1>7, Zenon DEF Puts
<1> QED BY <1>8 DEF g

\* The store row does.
LEMMA PutsComes ==
  ASSUME NEW rows, NEW m, NEW p, NEW z, NEW c, NEW s, NEW a, NEW b, NEW d, NEW e, NEW f,
         Comes(rows, m, p, z, c, s, a, b, d, e, f),
         NEW o, NEW y, y \in Reg, rows[p] = Store("T1", y, o),
         NEW v, Source(s, a, b, d, e, f, y) = v, NEW g, Puts(z, c, b, o, v, g), NEW n, n = p + 1
  PROVE  Comes(rows, m, n, z, g, s, a, b, d, e, f)
<1>1. PICK r : File(r, s, a, b, d, e, f) /\ Memory(z, c) /\ Leads(rows, m, At(p, r, z, c, "none"))
    BY Zenon DEF Comes
<1>2. r \in [Reg -> Word] /\ r["T1"] = b /\ r[y] = v  BY <1>1, SourceIs DEF File
<1>3. PICK k : k = (b + o) % M /\ ~IsSize(k) /\ Holds(k, c) /\ v <= CellMask
               /\ g = [c EXCEPT ![CellAt(k)] = v] /\ Memory(z, g)
    BY Zenon DEF Puts
<1>4. ~IsSize((r["T1"] + o) % M) /\ Holds((r["T1"] + o) % M, c) /\ r[y] <= CellMask  BY <1>2, <1>3
<1>5. Leads(rows, At(p, r, z, c, "none"),
            At(p + 1, r, z, [c EXCEPT ![CellAt((r["T1"] + o) % M)] = r[y]], "none"))
    BY <1>1, <1>2, <1>4, CellStoreGoes, Zenon
<1>6. Leads(rows, At(p, r, z, c, "none"), At(n, r, z, g, "none"))  BY <1>2, <1>3, <1>5
<1>7. Leads(rows, m, At(n, r, z, g, "none"))  BY <1>1, <1>6, LeadsOn, Zenon
<1> QED BY <1>1, <1>3, <1>7, Zenon DEF Comes

-----------------------------------------------------------------------------
(* A load: the lanes, the hot rows and the cold ones *)

\* A lane of one cell, shifted down.
HotShiftWords(z, c, a, b, d, e, f, x, u, v, w) ==
    /\ Finds(c, b, 0, x)
    /\ Evaluate("Mul64", d, ShiftPerLane) = u
    /\ u \in Word
    /\ Evaluate("ShiftRightBitmask", u, 0) = v
    /\ v \in Word
    /\ Evaluate("Srl", x, v) = w
    /\ w \in Word

\* The rows that shift a lane down.
LEMMA HotShift ==
  ASSUME NEW rows, NEW m, NEW p, p \in Nat, NEW z, NEW c, NEW s, s \in [Reg -> Word],
         NEW a, NEW b, NEW d, NEW e, NEW f, Comes(rows, m, p, z, c, s, a, b, d, e, f),
         NEW x, NEW u, NEW v, NEW w,
         HotShiftWords(z, c, a, b, d, e, f, x, u, v, w),
         NEW S, S = <<Load("T3", "T1", 0),
                    AluImm("Mul64", "T2", "T2", ShiftPerLane),
                    AluImm("ShiftRightBitmask", "T4", "T2", 0),
                    Alu("Srl", "T3", "T3", R("T4"))>>,
         Has(rows, p, S), NEW k, k = p + Len(S)
  PROVE  Comes(rows, m, k, z, c, s, a, b, u, w, v)
<1>1. /\ Finds(c, b, 0, x)
      /\ Evaluate("Mul64", d, ShiftPerLane) = u
      /\ u \in Word
      /\ Evaluate("ShiftRightBitmask", u, 0) = v
      /\ v \in Word
      /\ Evaluate("Srl", x, v) = w
      /\ w \in Word
    BY Zenon DEF HotShiftWords
<1> DEFINE A1 == Load("T3", "T1", 0)
           A2 == AluImm("Mul64", "T2", "T2", ShiftPerLane)
           A3 == AluImm("ShiftRightBitmask", "T4", "T2", 0)
           A4 == Alu("Srl", "T3", "T3", R("T4"))
<1>3. S = <<A1, A2, A3, A4>>  OBVIOUS
<1> HIDE DEF A1, A2, A3, A4
<1>2. PICK k1, k2, k3, k4 :
          /\ k1 = p + 1 /\ k2 = k1 + 1 /\ k3 = k2 + 1 /\ k4 = k3 + 1 /\ k4 = p + 4 /\ k = k4
          /\ rows[p] = A1 /\ rows[k1] = A2 /\ rows[k2] = A3 /\ rows[k3] = A4
  <2>1. FourAt(rows, p, k, A1, A2, A3, A4)  BY <1>3, RowsFour, Zenon
  <2> QED BY <2>1, Zenon DEF FourAt
<1>10. rows[p] = Load("T3", "T1", 0)  BY <1>2 DEF A1
<1>11. rows[k1] = AluImm("Mul64", "T2", "T2", ShiftPerLane)  BY <1>2 DEF A2
<1>12. rows[k2] = AluImm("ShiftRightBitmask", "T4", "T2", 0)  BY <1>2 DEF A3
<1>13. rows[k3] = Alu("Srl", "T3", "T3", R("T4"))  BY <1>2 DEF A4
<1>20. Comes(rows, m, k1, z, c, s, a, b, d, x, f)  BY <1>1, <1>2, <1>10, RegNames, LoadT3
<1>21. Comes(rows, m, k2, z, c, s, a, b, u, x, f)
    BY RegNames, <1>1, <1>2, <1>11, <1>20, ImmT2 DEF Source
<1>22. Comes(rows, m, k3, z, c, s, a, b, u, x, v)
    BY RegNames, <1>1, <1>2, <1>12, <1>21, ImmT4 DEF Source
<1>23. Comes(rows, m, k4, z, c, s, a, b, u, w, v)
    BY RegNames, <1>1, <1>2, <1>13, <1>22, RegT3 DEF Source
<1> QED BY <1>2, <1>23

\* Two whole cells.
HotPairWords(z, c, a, b, d, e, f, rd, x, y, u, v) ==
    /\ Finds(c, b, 0, x)
    /\ Finds(c, b, CellUnits, y)
    /\ Evaluate("Mul64", y, HalfM) = u
    /\ u \in Word
    /\ Evaluate("Or", x, u) = v
    /\ v \in Word

\* The rows that join two cells.
LEMMA HotPair ==
  ASSUME NEW rows, NEW m, NEW p, p \in Nat, NEW z, NEW c, NEW s, s \in [Reg -> Word],
         NEW a, NEW b, NEW d, NEW e, NEW f, Comes(rows, m, p, z, c, s, a, b, d, e, f),
         NEW rd,
         Free(rd),
         NEW x, NEW y, NEW u, NEW v,
         HotPairWords(z, c, a, b, d, e, f, rd, x, y, u, v),
         NEW S, S = <<Load("T3", "T1", 0),
                    Load("T4", "T1", CellUnits),
                    AluImm("Mul64", "T4", "T4", HalfM),
                    Alu("Or", rd, "T3", R("T4"))>>,
         Has(rows, p, S), NEW k, k = p + Len(S)
  PROVE  Gets(rows, m, k, z, c, s, rd, v, a, b, d, x, u)
<1>1. /\ Finds(c, b, 0, x)
      /\ Finds(c, b, CellUnits, y)
      /\ Evaluate("Mul64", y, HalfM) = u
      /\ u \in Word
      /\ Evaluate("Or", x, u) = v
      /\ v \in Word
    BY Zenon DEF HotPairWords
<1> DEFINE A1 == Load("T3", "T1", 0)
           A2 == Load("T4", "T1", CellUnits)
           A3 == AluImm("Mul64", "T4", "T4", HalfM)
           A4 == Alu("Or", rd, "T3", R("T4"))
<1>3. S = <<A1, A2, A3, A4>>  OBVIOUS
<1> HIDE DEF A1, A2, A3, A4
<1>2. PICK k1, k2, k3, k4 :
          /\ k1 = p + 1 /\ k2 = k1 + 1 /\ k3 = k2 + 1 /\ k4 = k3 + 1 /\ k4 = p + 4 /\ k = k4
          /\ rows[p] = A1 /\ rows[k1] = A2 /\ rows[k2] = A3 /\ rows[k3] = A4
  <2>1. FourAt(rows, p, k, A1, A2, A3, A4)  BY <1>3, RowsFour, Zenon
  <2> QED BY <2>1, Zenon DEF FourAt
<1>10. rows[p] = Load("T3", "T1", 0)  BY <1>2 DEF A1
<1>11. rows[k1] = Load("T4", "T1", CellUnits)  BY <1>2 DEF A2
<1>12. rows[k2] = AluImm("Mul64", "T4", "T4", HalfM)  BY <1>2 DEF A3
<1>13. rows[k3] = Alu("Or", rd, "T3", R("T4"))  BY <1>2 DEF A4
<1>20. Comes(rows, m, k1, z, c, s, a, b, d, x, f)  BY <1>1, <1>2, <1>10, RegNames, LoadT3
<1>21. Comes(rows, m, k2, z, c, s, a, b, d, x, y)  BY <1>1, <1>2, <1>11, <1>20, RegNames, LoadT4
<1>22. Comes(rows, m, k3, z, c, s, a, b, d, x, u)
    BY RegNames, <1>1, <1>2, <1>12, <1>21, ImmT4 DEF Source
<1>23. Gets(rows, m, k4, z, c, s, rd, v, a, b, d, x, u)
    BY RegNames, <1>1, <1>2, <1>13, <1>22, RegGets DEF Source
<1> QED BY <1>2, <1>23

\* The lane's place in bits.
ScaleWords(a, b, d, e, f, u) ==
    /\ Evaluate("Mul64", d, ShiftPerLane) = u
    /\ u \in Word

\* The row that scales the lane's offset.
LEMMA Scale ==
  ASSUME NEW rows, NEW m, NEW p, p \in Nat, NEW z, NEW c, NEW s, s \in [Reg -> Word],
         NEW a, NEW b, NEW d, NEW e, NEW f, Comes(rows, m, p, z, c, s, a, b, d, e, f),
         NEW u,
         ScaleWords(a, b, d, e, f, u),
         NEW S, S = <<AluImm("Mul64", "T2", "T2", ShiftPerLane)>>,
         Has(rows, p, S), NEW k, k = p + Len(S)
  PROVE  Comes(rows, m, k, z, c, s, a, b, u, e, f)
<1>1. /\ Evaluate("Mul64", d, ShiftPerLane) = u
      /\ u \in Word
    BY Zenon DEF ScaleWords
<1> DEFINE A1 == AluImm("Mul64", "T2", "T2", ShiftPerLane)
<1>3. S = <<A1>>  OBVIOUS
<1> HIDE DEF A1
<1>2. PICK k1 :
          /\ k1 = p + 1 /\ k = k1
          /\ rows[p] = A1
    BY <1>3, RowsOne, Zenon DEF OneAt
<1>10. rows[p] = AluImm("Mul64", "T2", "T2", ShiftPerLane)  BY <1>2 DEF A1
<1>20. Comes(rows, m, k1, z, c, s, a, b, u, e, f)  BY RegNames, <1>1, <1>2, <1>10, ImmT2 DEF Source
<1> QED BY <1>2, <1>20

\* The first cell shifted down, the second up to meet it.
ColdTwoWords(z, c, a, b, d, e, f, x, v, w, y, h, i, g, t, r) ==
    /\ Finds(c, b, 0, x)
    /\ Evaluate("ShiftRightBitmask", d, 0) = v
    /\ v \in Word
    /\ Evaluate("Srl", x, v) = w
    /\ w \in Word
    /\ Finds(c, b, CellUnits, y)
    /\ Evaluate("Add64", 0, H) = h
    /\ h \in Word
    /\ Evaluate("Sub64", h, d) = i
    /\ i \in Word
    /\ Evaluate("Pow2", i, 0) = g
    /\ g \in Word
    /\ Evaluate("Mul64", y, g) = t
    /\ t \in Word
    /\ Evaluate("Or", w, t) = r
    /\ r \in Word

\* The rows that join the ends of two cells.
LEMMA ColdTwo ==
  ASSUME NEW rows, NEW m, NEW p, p \in Nat, NEW z, NEW c, NEW s, s \in [Reg -> Word], s["ZERO"] = 0,
         NEW a, NEW b, NEW d, NEW e, NEW f, Comes(rows, m, p, z, c, s, a, b, d, e, f),
         NEW x, NEW v, NEW w, NEW y, NEW h, NEW i, NEW g, NEW t, NEW r,
         ColdTwoWords(z, c, a, b, d, e, f, x, v, w, y, h, i, g, t, r),
         NEW S, S = <<Load("T3", "T1", 0),
                    AluImm("ShiftRightBitmask", "T4", "T2", 0),
                    Alu("Srl", "T3", "T3", R("T4")),
                    Load("T4", "T1", CellUnits),
                    Const("T0", H),
                    Alu("Sub64", "T0", "T0", R("T2")),
                    AluImm("Pow2", "T0", "T0", 0),
                    Alu("Mul64", "T4", "T4", R("T0")),
                    Alu("Or", "T3", "T3", R("T4"))>>,
         Has(rows, p, S), NEW k, k = p + Len(S)
  PROVE  Comes(rows, m, k, z, c, s, g, b, d, r, t)
<1>1. /\ Finds(c, b, 0, x)
      /\ Evaluate("ShiftRightBitmask", d, 0) = v
      /\ v \in Word
      /\ Evaluate("Srl", x, v) = w
      /\ w \in Word
      /\ Finds(c, b, CellUnits, y)
      /\ Evaluate("Add64", 0, H) = h
      /\ h \in Word
      /\ Evaluate("Sub64", h, d) = i
      /\ i \in Word
      /\ Evaluate("Pow2", i, 0) = g
      /\ g \in Word
      /\ Evaluate("Mul64", y, g) = t
      /\ t \in Word
      /\ Evaluate("Or", w, t) = r
      /\ r \in Word
    BY Zenon DEF ColdTwoWords
<1> DEFINE A1 == Load("T3", "T1", 0)
           A2 == AluImm("ShiftRightBitmask", "T4", "T2", 0)
           A3 == Alu("Srl", "T3", "T3", R("T4"))
           A4 == Load("T4", "T1", CellUnits)
           A5 == Const("T0", H)
           A6 == Alu("Sub64", "T0", "T0", R("T2"))
           A7 == AluImm("Pow2", "T0", "T0", 0)
           A8 == Alu("Mul64", "T4", "T4", R("T0"))
           A9 == Alu("Or", "T3", "T3", R("T4"))
<1>3. S = <<A1, A2, A3, A4, A5, A6, A7, A8, A9>>  OBVIOUS
<1> HIDE DEF A1, A2, A3, A4, A5, A6, A7, A8, A9
<1>2. PICK k1, k2, k3, k4, k5, k6, k7, k8, k9 :
          /\ k1 = p + 1 /\ k2 = k1 + 1 /\ k3 = k2 + 1 /\ k4 = k3 + 1 /\ k5 = k4 + 1 /\ k6 = k5 + 1 /\ k7 = k6 + 1 /\ k8 = k7 + 1 /\ k9 = k8 + 1 /\ k9 = p + 9 /\ k = k9
          /\ rows[p] = A1 /\ rows[k1] = A2 /\ rows[k2] = A3 /\ rows[k3] = A4 /\ rows[k4] = A5 /\ rows[k5] = A6 /\ rows[k6] = A7 /\ rows[k7] = A8 /\ rows[k8] = A9
  <2>1. NineAt(rows, p, k, A1, A2, A3, A4, A5, A6, A7, A8, A9)  BY <1>3, RowsNine
  <2> QED BY <2>1, Zenon DEF NineAt
<1>10. rows[p] = Load("T3", "T1", 0)  BY <1>2 DEF A1
<1>11. rows[k1] = AluImm("ShiftRightBitmask", "T4", "T2", 0)  BY <1>2 DEF A2
<1>12. rows[k2] = Alu("Srl", "T3", "T3", R("T4"))  BY <1>2 DEF A3
<1>13. rows[k3] = Load("T4", "T1", CellUnits)  BY <1>2 DEF A4
<1>14. rows[k4] = AluImm("Add64", "T0", "ZERO", H)  BY <1>2 DEF A5, Const
<1>15. rows[k5] = Alu("Sub64", "T0", "T0", R("T2"))  BY <1>2 DEF A6
<1>16. rows[k6] = AluImm("Pow2", "T0", "T0", 0)  BY <1>2 DEF A7
<1>17. rows[k7] = Alu("Mul64", "T4", "T4", R("T0"))  BY <1>2 DEF A8
<1>18. rows[k8] = Alu("Or", "T3", "T3", R("T4"))  BY <1>2 DEF A9
<1>20. Comes(rows, m, k1, z, c, s, a, b, d, x, f)  BY <1>1, <1>2, <1>10, RegNames, LoadT3
<1>21. Comes(rows, m, k2, z, c, s, a, b, d, x, v)
    BY RegNames, <1>1, <1>2, <1>11, <1>20, ImmT4 DEF Source
<1>22. Comes(rows, m, k3, z, c, s, a, b, d, w, v)
    BY RegNames, <1>1, <1>2, <1>12, <1>21, RegT3 DEF Source
<1>23. Comes(rows, m, k4, z, c, s, a, b, d, w, y)  BY <1>1, <1>2, <1>13, <1>22, RegNames, LoadT4
<1>24. Comes(rows, m, k5, z, c, s, h, b, d, w, y)
    BY RegNames, <1>1, <1>2, <1>14, <1>23, ImmT0 DEF Source
<1>25. Comes(rows, m, k6, z, c, s, i, b, d, w, y)
    BY RegNames, <1>1, <1>2, <1>15, <1>24, RegT0 DEF Source
<1>26. Comes(rows, m, k7, z, c, s, g, b, d, w, y)
    BY RegNames, <1>1, <1>2, <1>16, <1>25, ImmT0 DEF Source
<1>27. Comes(rows, m, k8, z, c, s, g, b, d, w, t)
    BY RegNames, <1>1, <1>2, <1>17, <1>26, RegT4 DEF Source
<1>28. Comes(rows, m, k9, z, c, s, g, b, d, r, t)
    BY RegNames, <1>1, <1>2, <1>18, <1>27, RegT3 DEF Source
<1> QED BY <1>2, <1>28

\* The third cell above them.
ColdThreeWords(z, c, a, b, d, e, f, x, u, v, w) ==
    /\ Finds(c, b, 2 * CellUnits, x)
    /\ Evaluate("Mul64", x, a) = u
    /\ u \in Word
    /\ Evaluate("Mul64", u, HalfM) = v
    /\ v \in Word
    /\ Evaluate("Or", e, v) = w
    /\ w \in Word

\* The rows that put the third cell's on top.
LEMMA ColdThree ==
  ASSUME NEW rows, NEW m, NEW p, p \in Nat, NEW z, NEW c, NEW s, s \in [Reg -> Word],
         NEW a, NEW b, NEW d, NEW e, NEW f, Comes(rows, m, p, z, c, s, a, b, d, e, f),
         NEW x, NEW u, NEW v, NEW w,
         ColdThreeWords(z, c, a, b, d, e, f, x, u, v, w),
         NEW S, S = <<Load("T4", "T1", 2 * CellUnits),
                    Alu("Mul64", "T4", "T4", R("T0")),
                    AluImm("Mul64", "T4", "T4", HalfM),
                    Alu("Or", "T3", "T3", R("T4"))>>,
         Has(rows, p, S), NEW k, k = p + Len(S)
  PROVE  Comes(rows, m, k, z, c, s, a, b, d, w, v)
<1>1. /\ Finds(c, b, 2 * CellUnits, x)
      /\ Evaluate("Mul64", x, a) = u
      /\ u \in Word
      /\ Evaluate("Mul64", u, HalfM) = v
      /\ v \in Word
      /\ Evaluate("Or", e, v) = w
      /\ w \in Word
    BY Zenon DEF ColdThreeWords
<1> DEFINE A1 == Load("T4", "T1", 2 * CellUnits)
           A2 == Alu("Mul64", "T4", "T4", R("T0"))
           A3 == AluImm("Mul64", "T4", "T4", HalfM)
           A4 == Alu("Or", "T3", "T3", R("T4"))
<1>3. S = <<A1, A2, A3, A4>>  OBVIOUS
<1> HIDE DEF A1, A2, A3, A4
<1>2. PICK k1, k2, k3, k4 :
          /\ k1 = p + 1 /\ k2 = k1 + 1 /\ k3 = k2 + 1 /\ k4 = k3 + 1 /\ k4 = p + 4 /\ k = k4
          /\ rows[p] = A1 /\ rows[k1] = A2 /\ rows[k2] = A3 /\ rows[k3] = A4
  <2>1. FourAt(rows, p, k, A1, A2, A3, A4)  BY <1>3, RowsFour, Zenon
  <2> QED BY <2>1, Zenon DEF FourAt
<1>10. rows[p] = Load("T4", "T1", 2 * CellUnits)  BY <1>2 DEF A1
<1>11. rows[k1] = Alu("Mul64", "T4", "T4", R("T0"))  BY <1>2 DEF A2
<1>12. rows[k2] = AluImm("Mul64", "T4", "T4", HalfM)  BY <1>2 DEF A3
<1>13. rows[k3] = Alu("Or", "T3", "T3", R("T4"))  BY <1>2 DEF A4
<1>20. Comes(rows, m, k1, z, c, s, a, b, d, e, x)  BY <1>1, <1>2, <1>10, RegNames, LoadT4
<1>21. Comes(rows, m, k2, z, c, s, a, b, d, e, u)
    BY RegNames, <1>1, <1>2, <1>11, <1>20, RegT4 DEF Source
<1>22. Comes(rows, m, k3, z, c, s, a, b, d, e, v)
    BY RegNames, <1>1, <1>2, <1>12, <1>21, ImmT4 DEF Source
<1>23. Comes(rows, m, k4, z, c, s, a, b, d, w, v)
    BY RegNames, <1>1, <1>2, <1>13, <1>22, RegT3 DEF Source
<1> QED BY <1>2, <1>23

\* The mask of the lane in the first cell,
InsertMaskWords(z, c, a, b, d, e, f, mask, x, u, v, w) ==
    /\ Finds(c, b, 0, x)
    /\ Evaluate("Pow2", d, 0) = u
    /\ u \in Word
    /\ Evaluate("Add64", 0, mask) = v
    /\ v \in Word
    /\ Evaluate("Mul64", v, u) = w
    /\ w \in Word

\* The rows of insert: the mask,
LEMMA InsertMask ==
  ASSUME NEW rows, NEW m, NEW p, p \in Nat, NEW z, NEW c, NEW s, s \in [Reg -> Word], s["ZERO"] = 0,
         NEW a, NEW b, NEW d, NEW e, NEW f, Comes(rows, m, p, z, c, s, a, b, d, e, f),
         NEW mask,
         NEW x, NEW u, NEW v, NEW w,
         InsertMaskWords(z, c, a, b, d, e, f, mask, x, u, v, w),
         NEW S, S = <<Load("T3", "T1", 0),
                    AluImm("Pow2", "T4", "T2", 0),
                    Const("T0", mask),
                    Alu("Mul64", "T0", "T0", R("T4"))>>,
         Has(rows, p, S), NEW k, k = p + Len(S)
  PROVE  Comes(rows, m, k, z, c, s, w, b, d, x, u)
<1>1. /\ Finds(c, b, 0, x)
      /\ Evaluate("Pow2", d, 0) = u
      /\ u \in Word
      /\ Evaluate("Add64", 0, mask) = v
      /\ v \in Word
      /\ Evaluate("Mul64", v, u) = w
      /\ w \in Word
    BY Zenon DEF InsertMaskWords
<1> DEFINE A1 == Load("T3", "T1", 0)
           A2 == AluImm("Pow2", "T4", "T2", 0)
           A3 == Const("T0", mask)
           A4 == Alu("Mul64", "T0", "T0", R("T4"))
<1>3. S = <<A1, A2, A3, A4>>  OBVIOUS
<1> HIDE DEF A1, A2, A3, A4
<1>2. PICK k1, k2, k3, k4 :
          /\ k1 = p + 1 /\ k2 = k1 + 1 /\ k3 = k2 + 1 /\ k4 = k3 + 1 /\ k4 = p + 4 /\ k = k4
          /\ rows[p] = A1 /\ rows[k1] = A2 /\ rows[k2] = A3 /\ rows[k3] = A4
  <2>1. FourAt(rows, p, k, A1, A2, A3, A4)  BY <1>3, RowsFour, Zenon
  <2> QED BY <2>1, Zenon DEF FourAt
<1>10. rows[p] = Load("T3", "T1", 0)  BY <1>2 DEF A1
<1>11. rows[k1] = AluImm("Pow2", "T4", "T2", 0)  BY <1>2 DEF A2
<1>12. rows[k2] = AluImm("Add64", "T0", "ZERO", mask)  BY <1>2 DEF A3, Const
<1>13. rows[k3] = Alu("Mul64", "T0", "T0", R("T4"))  BY <1>2 DEF A4
<1>20. Comes(rows, m, k1, z, c, s, a, b, d, x, f)  BY <1>1, <1>2, <1>10, RegNames, LoadT3
<1>21. Comes(rows, m, k2, z, c, s, a, b, d, x, u)
    BY RegNames, <1>1, <1>2, <1>11, <1>20, ImmT4 DEF Source
<1>22. Comes(rows, m, k3, z, c, s, v, b, d, x, u)
    BY RegNames, <1>1, <1>2, <1>12, <1>21, ImmT0 DEF Source
<1>23. Comes(rows, m, k4, z, c, s, w, b, d, x, u)
    BY RegNames, <1>1, <1>2, <1>13, <1>22, RegT0 DEF Source
<1> QED BY <1>2, <1>23

\* cut to the cell,
CutWords(a, b, d, e, f, u) ==
    /\ Evaluate("And", a, CellMask) = u
    /\ u \in Word

\* its cut to the cell,
LEMMA Cut ==
  ASSUME NEW rows, NEW m, NEW p, p \in Nat, NEW z, NEW c, NEW s, s \in [Reg -> Word],
         NEW a, NEW b, NEW d, NEW e, NEW f, Comes(rows, m, p, z, c, s, a, b, d, e, f),
         NEW u,
         CutWords(a, b, d, e, f, u),
         NEW S, S = <<AluImm("And", "T0", "T0", CellMask)>>,
         Has(rows, p, S), NEW k, k = p + Len(S)
  PROVE  Comes(rows, m, k, z, c, s, u, b, d, e, f)
<1>1. /\ Evaluate("And", a, CellMask) = u
      /\ u \in Word
    BY Zenon DEF CutWords
<1> DEFINE A1 == AluImm("And", "T0", "T0", CellMask)
<1>3. S = <<A1>>  OBVIOUS
<1> HIDE DEF A1
<1>2. PICK k1 :
          /\ k1 = p + 1 /\ k = k1
          /\ rows[p] = A1
    BY <1>3, RowsOne, Zenon DEF OneAt
<1>10. rows[p] = AluImm("And", "T0", "T0", CellMask)  BY <1>2 DEF A1
<1>20. Comes(rows, m, k1, z, c, s, u, b, d, e, f)  BY RegNames, <1>1, <1>2, <1>10, ImmT0 DEF Source
<1> QED BY <1>2, <1>20

\* the lane cleared and the value brought to it,
InsertClearWords(a, b, d, e, f, value, val, mask, u, v, w) ==
    /\ Evaluate("Andn", e, a) = u
    /\ u \in Word
    /\ Evaluate("And", val, mask) = v
    /\ v \in Word
    /\ Evaluate("Mul64", v, f) = w
    /\ w \in Word

\* the lane cleared,
LEMMA InsertClear ==
  ASSUME NEW rows, NEW m, NEW p, p \in Nat, NEW z, NEW c, NEW s, s \in [Reg -> Word],
         NEW a, NEW b, NEW d, NEW e, NEW f, Comes(rows, m, p, z, c, s, a, b, d, e, f),
         NEW value, NEW val, NEW mask,
         value \in Reg,
         value \notin Temps,
         s[value] = val,
         NEW u, NEW v, NEW w,
         InsertClearWords(a, b, d, e, f, value, val, mask, u, v, w),
         NEW S, S = <<Alu("Andn", "T3", "T3", R("T0")),
                    AluImm("And", "T0", value, mask),
                    Alu("Mul64", "T0", "T0", R("T4"))>>,
         Has(rows, p, S), NEW k, k = p + Len(S)
  PROVE  Comes(rows, m, k, z, c, s, w, b, d, u, f)
<1>1. /\ Evaluate("Andn", e, a) = u
      /\ u \in Word
      /\ Evaluate("And", val, mask) = v
      /\ v \in Word
      /\ Evaluate("Mul64", v, f) = w
      /\ w \in Word
    BY Zenon DEF InsertClearWords
<1> DEFINE A1 == Alu("Andn", "T3", "T3", R("T0"))
           A2 == AluImm("And", "T0", value, mask)
           A3 == Alu("Mul64", "T0", "T0", R("T4"))
<1>3. S = <<A1, A2, A3>>  OBVIOUS
<1> HIDE DEF A1, A2, A3
<1>2. PICK k1, k2, k3 :
          /\ k1 = p + 1 /\ k2 = k1 + 1 /\ k3 = k2 + 1 /\ k3 = p + 3 /\ k = k3
          /\ rows[p] = A1 /\ rows[k1] = A2 /\ rows[k2] = A3
  <2>1. ThreeAt(rows, p, k, A1, A2, A3)  BY <1>3, RowsThree, Zenon
  <2> QED BY <2>1, Zenon DEF ThreeAt
<1>10. rows[p] = Alu("Andn", "T3", "T3", R("T0"))  BY <1>2 DEF A1
<1>11. rows[k1] = AluImm("And", "T0", value, mask)  BY <1>2 DEF A2
<1>12. rows[k2] = Alu("Mul64", "T0", "T0", R("T4"))  BY <1>2 DEF A3
<1>20. Comes(rows, m, k1, z, c, s, a, b, d, u, f)  BY RegNames, <1>1, <1>2, <1>10, RegT3 DEF Source
<1>21. Comes(rows, m, k2, z, c, s, v, b, d, u, f)
    BY RegNames, <1>1, <1>2, <1>11, <1>20, ImmT0 DEF Source, Temps
<1>22. Comes(rows, m, k3, z, c, s, w, b, d, u, f)
    BY RegNames, <1>1, <1>2, <1>12, <1>21, RegT0 DEF Source
<1> QED BY <1>2, <1>22

\* and the cell written back.
InsertPutWords(z, c, a, b, d, e, f, u, g) ==
    /\ Evaluate("Or", e, a) = u
    /\ u \in Word
    /\ Puts(z, c, b, 0, u, g)

\* and filled.
LEMMA InsertPut ==
  ASSUME NEW rows, NEW m, NEW p, p \in Nat, NEW z, NEW c, NEW s, s \in [Reg -> Word],
         NEW a, NEW b, NEW d, NEW e, NEW f, Comes(rows, m, p, z, c, s, a, b, d, e, f),
         NEW u, NEW g,
         InsertPutWords(z, c, a, b, d, e, f, u, g),
         NEW S, S = <<Alu("Or", "T3", "T3", R("T0")),
                    Store("T1", "T3", 0)>>,
         Has(rows, p, S), NEW k, k = p + Len(S)
  PROVE  Comes(rows, m, k, z, g, s, a, b, d, u, f)
<1>1. /\ Evaluate("Or", e, a) = u
      /\ u \in Word
      /\ Puts(z, c, b, 0, u, g)
    BY Zenon DEF InsertPutWords
<1> DEFINE A1 == Alu("Or", "T3", "T3", R("T0"))
           A2 == Store("T1", "T3", 0)
<1>3. S = <<A1, A2>>  OBVIOUS
<1> HIDE DEF A1, A2
<1>2. PICK k1, k2 :
          /\ k1 = p + 1 /\ k2 = k1 + 1 /\ k2 = p + 2 /\ k = k2
          /\ rows[p] = A1 /\ rows[k1] = A2
  <2>1. TwoAt(rows, p, k, A1, A2)  BY <1>3, RowsTwo, Zenon
  <2> QED BY <2>1, Zenon DEF TwoAt
<1>10. rows[p] = Alu("Or", "T3", "T3", R("T0"))  BY <1>2 DEF A1
<1>11. rows[k1] = Store("T1", "T3", 0)  BY <1>2 DEF A2
<1>20. Comes(rows, m, k1, z, c, s, a, b, d, u, f)  BY RegNames, <1>1, <1>2, <1>10, RegT3 DEF Source
<1>21. Comes(rows, m, k2, z, g, s, a, b, d, u, f)
    BY RegNames, <1>1, <1>2, <1>11, <1>20, PutsComes DEF Source
<1> QED BY <1>2, <1>21

\* The second cell and the mask,
NextMaskWords(z, c, a, b, d, e, f, mask, h, i, v, x, u) ==
    /\ Evaluate("Add64", 0, H) = h
    /\ h \in Word
    /\ Evaluate("Sub64", h, d) = i
    /\ i \in Word
    /\ Evaluate("ShiftRightBitmask", i, 0) = v
    /\ v \in Word
    /\ Finds(c, b, CellUnits, x)
    /\ Evaluate("Add64", 0, mask) = u
    /\ u \in Word

\* Of the second cell: the mask,
LEMMA NextMask ==
  ASSUME NEW rows, NEW m, NEW p, p \in Nat, NEW z, NEW c, NEW s, s \in [Reg -> Word], s["ZERO"] = 0,
         NEW a, NEW b, NEW d, NEW e, NEW f, Comes(rows, m, p, z, c, s, a, b, d, e, f),
         NEW mask,
         NEW h, NEW i, NEW v, NEW x, NEW u,
         NextMaskWords(z, c, a, b, d, e, f, mask, h, i, v, x, u),
         NEW S, S = <<Const("T0", H),
                    Alu("Sub64", "T0", "T0", R("T2")),
                    AluImm("ShiftRightBitmask", "T0", "T0", 0),
                    Load("T3", "T1", CellUnits),
                    Const("T4", mask)>>,
         Has(rows, p, S), NEW k, k = p + Len(S)
  PROVE  Comes(rows, m, k, z, c, s, v, b, d, x, u)
<1>1. /\ Evaluate("Add64", 0, H) = h
      /\ h \in Word
      /\ Evaluate("Sub64", h, d) = i
      /\ i \in Word
      /\ Evaluate("ShiftRightBitmask", i, 0) = v
      /\ v \in Word
      /\ Finds(c, b, CellUnits, x)
      /\ Evaluate("Add64", 0, mask) = u
      /\ u \in Word
    BY Zenon DEF NextMaskWords
<1> DEFINE A1 == Const("T0", H)
           A2 == Alu("Sub64", "T0", "T0", R("T2"))
           A3 == AluImm("ShiftRightBitmask", "T0", "T0", 0)
           A4 == Load("T3", "T1", CellUnits)
           A5 == Const("T4", mask)
<1>3. S = <<A1, A2, A3, A4, A5>>  OBVIOUS
<1> HIDE DEF A1, A2, A3, A4, A5
<1>2. PICK k1, k2, k3, k4, k5 :
          /\ k1 = p + 1 /\ k2 = k1 + 1 /\ k3 = k2 + 1 /\ k4 = k3 + 1 /\ k5 = k4 + 1 /\ k5 = p + 5 /\ k = k5
          /\ rows[p] = A1 /\ rows[k1] = A2 /\ rows[k2] = A3 /\ rows[k3] = A4 /\ rows[k4] = A5
  <2>1. FiveAt(rows, p, k, A1, A2, A3, A4, A5)  BY <1>3, RowsFive, Zenon
  <2> QED BY <2>1, Zenon DEF FiveAt
<1>10. rows[p] = AluImm("Add64", "T0", "ZERO", H)  BY <1>2 DEF A1, Const
<1>11. rows[k1] = Alu("Sub64", "T0", "T0", R("T2"))  BY <1>2 DEF A2
<1>12. rows[k2] = AluImm("ShiftRightBitmask", "T0", "T0", 0)  BY <1>2 DEF A3
<1>13. rows[k3] = Load("T3", "T1", CellUnits)  BY <1>2 DEF A4
<1>14. rows[k4] = AluImm("Add64", "T4", "ZERO", mask)  BY <1>2 DEF A5, Const
<1>20. Comes(rows, m, k1, z, c, s, h, b, d, e, f)  BY RegNames, <1>1, <1>2, <1>10, ImmT0 DEF Source
<1>21. Comes(rows, m, k2, z, c, s, i, b, d, e, f)
    BY RegNames, <1>1, <1>2, <1>11, <1>20, RegT0 DEF Source
<1>22. Comes(rows, m, k3, z, c, s, v, b, d, e, f)
    BY RegNames, <1>1, <1>2, <1>12, <1>21, ImmT0 DEF Source
<1>23. Comes(rows, m, k4, z, c, s, v, b, d, x, f)  BY <1>1, <1>2, <1>13, <1>22, RegNames, LoadT3
<1>24. Comes(rows, m, k5, z, c, s, v, b, d, x, u)
    BY RegNames, <1>1, <1>2, <1>14, <1>23, ImmT4 DEF Source
<1> QED BY <1>2, <1>24

\* the part of the mask or the value in it,
CarriedWords(a, b, d, e, f, u, v) ==
    /\ Evaluate("Srl", f, a) = u
    /\ u \in Word
    /\ Evaluate("And", u, CellMask) = v
    /\ v \in Word

\* its part past the first,
LEMMA Carried ==
  ASSUME NEW rows, NEW m, NEW p, p \in Nat, NEW z, NEW c, NEW s, s \in [Reg -> Word],
         NEW a, NEW b, NEW d, NEW e, NEW f, Comes(rows, m, p, z, c, s, a, b, d, e, f),
         NEW u, NEW v,
         CarriedWords(a, b, d, e, f, u, v),
         NEW S, S = <<Alu("Srl", "T4", "T4", R("T0")),
                    AluImm("And", "T4", "T4", CellMask)>>,
         Has(rows, p, S), NEW k, k = p + Len(S)
  PROVE  Comes(rows, m, k, z, c, s, a, b, d, e, v)
<1>1. /\ Evaluate("Srl", f, a) = u
      /\ u \in Word
      /\ Evaluate("And", u, CellMask) = v
      /\ v \in Word
    BY Zenon DEF CarriedWords
<1> DEFINE A1 == Alu("Srl", "T4", "T4", R("T0"))
           A2 == AluImm("And", "T4", "T4", CellMask)
<1>3. S = <<A1, A2>>  OBVIOUS
<1> HIDE DEF A1, A2
<1>2. PICK k1, k2 :
          /\ k1 = p + 1 /\ k2 = k1 + 1 /\ k2 = p + 2 /\ k = k2
          /\ rows[p] = A1 /\ rows[k1] = A2
  <2>1. TwoAt(rows, p, k, A1, A2)  BY <1>3, RowsTwo, Zenon
  <2> QED BY <2>1, Zenon DEF TwoAt
<1>10. rows[p] = Alu("Srl", "T4", "T4", R("T0"))  BY <1>2 DEF A1
<1>11. rows[k1] = AluImm("And", "T4", "T4", CellMask)  BY <1>2 DEF A2
<1>20. Comes(rows, m, k1, z, c, s, a, b, d, e, u)  BY RegNames, <1>1, <1>2, <1>10, RegT4 DEF Source
<1>21. Comes(rows, m, k2, z, c, s, a, b, d, e, v)
    BY RegNames, <1>1, <1>2, <1>11, <1>20, ImmT4 DEF Source
<1> QED BY <1>2, <1>21

\* the value,
NextClearWords(a, b, d, e, f, value, val, mask, u, v) ==
    /\ Evaluate("Andn", e, f) = u
    /\ u \in Word
    /\ Evaluate("And", val, mask) = v
    /\ v \in Word

\* the bytes cleared,
LEMMA NextClear ==
  ASSUME NEW rows, NEW m, NEW p, p \in Nat, NEW z, NEW c, NEW s, s \in [Reg -> Word],
         NEW a, NEW b, NEW d, NEW e, NEW f, Comes(rows, m, p, z, c, s, a, b, d, e, f),
         NEW value, NEW val, NEW mask,
         value \in Reg,
         value \notin Temps,
         s[value] = val,
         NEW u, NEW v,
         NextClearWords(a, b, d, e, f, value, val, mask, u, v),
         NEW S, S = <<Alu("Andn", "T3", "T3", R("T4")),
                    AluImm("And", "T4", value, mask)>>,
         Has(rows, p, S), NEW k, k = p + Len(S)
  PROVE  Comes(rows, m, k, z, c, s, a, b, d, u, v)
<1>1. /\ Evaluate("Andn", e, f) = u
      /\ u \in Word
      /\ Evaluate("And", val, mask) = v
      /\ v \in Word
    BY Zenon DEF NextClearWords
<1> DEFINE A1 == Alu("Andn", "T3", "T3", R("T4"))
           A2 == AluImm("And", "T4", value, mask)
<1>3. S = <<A1, A2>>  OBVIOUS
<1> HIDE DEF A1, A2
<1>2. PICK k1, k2 :
          /\ k1 = p + 1 /\ k2 = k1 + 1 /\ k2 = p + 2 /\ k = k2
          /\ rows[p] = A1 /\ rows[k1] = A2
  <2>1. TwoAt(rows, p, k, A1, A2)  BY <1>3, RowsTwo, Zenon
  <2> QED BY <2>1, Zenon DEF TwoAt
<1>10. rows[p] = Alu("Andn", "T3", "T3", R("T4"))  BY <1>2 DEF A1
<1>11. rows[k1] = AluImm("And", "T4", value, mask)  BY <1>2 DEF A2
<1>20. Comes(rows, m, k1, z, c, s, a, b, d, u, f)  BY RegNames, <1>1, <1>2, <1>10, RegT3 DEF Source
<1>21. Comes(rows, m, k2, z, c, s, a, b, d, u, v)
    BY RegNames, <1>1, <1>2, <1>11, <1>20, ImmT4 DEF Source, Temps
<1> QED BY <1>2, <1>21

\* and the cell written back.
NextPutWords(z, c, a, b, d, e, f, u, g) ==
    /\ Evaluate("Or", e, f) = u
    /\ u \in Word
    /\ Puts(z, c, b, CellUnits, u, g)

\* and filled.
LEMMA NextPut ==
  ASSUME NEW rows, NEW m, NEW p, p \in Nat, NEW z, NEW c, NEW s, s \in [Reg -> Word],
         NEW a, NEW b, NEW d, NEW e, NEW f, Comes(rows, m, p, z, c, s, a, b, d, e, f),
         NEW u, NEW g,
         NextPutWords(z, c, a, b, d, e, f, u, g),
         NEW S, S = <<Alu("Or", "T3", "T3", R("T4")),
                    Store("T1", "T3", CellUnits)>>,
         Has(rows, p, S), NEW k, k = p + Len(S)
  PROVE  Comes(rows, m, k, z, g, s, a, b, d, u, f)
<1>1. /\ Evaluate("Or", e, f) = u
      /\ u \in Word
      /\ Puts(z, c, b, CellUnits, u, g)
    BY Zenon DEF NextPutWords
<1> DEFINE A1 == Alu("Or", "T3", "T3", R("T4"))
           A2 == Store("T1", "T3", CellUnits)
<1>3. S = <<A1, A2>>  OBVIOUS
<1> HIDE DEF A1, A2
<1>2. PICK k1, k2 :
          /\ k1 = p + 1 /\ k2 = k1 + 1 /\ k2 = p + 2 /\ k = k2
          /\ rows[p] = A1 /\ rows[k1] = A2
  <2>1. TwoAt(rows, p, k, A1, A2)  BY <1>3, RowsTwo, Zenon
  <2> QED BY <2>1, Zenon DEF TwoAt
<1>10. rows[p] = Alu("Or", "T3", "T3", R("T4"))  BY <1>2 DEF A1
<1>11. rows[k1] = Store("T1", "T3", CellUnits)  BY <1>2 DEF A2
<1>20. Comes(rows, m, k1, z, c, s, a, b, d, u, f)  BY RegNames, <1>1, <1>2, <1>10, RegT3 DEF Source
<1>21. Comes(rows, m, k2, z, g, s, a, b, d, u, f)
    BY RegNames, <1>1, <1>2, <1>11, <1>20, PutsComes DEF Source
<1> QED BY <1>2, <1>21

\* The third cell.
LastPutWords(z, c, a, b, d, e, f, value, val, x, u, v, w, h, i, t, r, g) ==
    /\ Finds(c, b, 2 * CellUnits, x)
    /\ Evaluate("Add64", 0, M - 1) = u
    /\ u \in Word
    /\ Evaluate("Srl", u, a) = v
    /\ v \in Word
    /\ Evaluate("Srl", v, Keep(H)) = w
    /\ w \in Word
    /\ Evaluate("Andn", x, w) = h
    /\ h \in Word
    /\ Evaluate("Srl", val, a) = i
    /\ i \in Word
    /\ Evaluate("Srl", i, Keep(H)) = t
    /\ t \in Word
    /\ Evaluate("Or", h, t) = r
    /\ r \in Word
    /\ Puts(z, c, b, 2 * CellUnits, r, g)

\* The rows of the third cell.
LEMMA LastPut ==
  ASSUME NEW rows, NEW m, NEW p, p \in Nat, NEW z, NEW c, NEW s, s \in [Reg -> Word], s["ZERO"] = 0,
         NEW a, NEW b, NEW d, NEW e, NEW f, Comes(rows, m, p, z, c, s, a, b, d, e, f),
         NEW value, NEW val,
         value \in Reg,
         value \notin Temps,
         s[value] = val,
         NEW x, NEW u, NEW v, NEW w, NEW h, NEW i, NEW t, NEW r, NEW g,
         LastPutWords(z, c, a, b, d, e, f, value, val, x, u, v, w, h, i, t, r, g),
         NEW S, S = <<Load("T3", "T1", 2 * CellUnits),
                    Const("T4", M - 1),
                    Alu("Srl", "T4", "T4", R("T0")),
                    AluImm("Srl", "T4", "T4", Keep(H)),
                    Alu("Andn", "T3", "T3", R("T4")),
                    Alu("Srl", "T4", value, R("T0")),
                    AluImm("Srl", "T4", "T4", Keep(H)),
                    Alu("Or", "T3", "T3", R("T4")),
                    Store("T1", "T3", 2 * CellUnits)>>,
         Has(rows, p, S), NEW k, k = p + Len(S)
  PROVE  Comes(rows, m, k, z, g, s, a, b, d, r, t)
<1>1. /\ Finds(c, b, 2 * CellUnits, x)
      /\ Evaluate("Add64", 0, M - 1) = u
      /\ u \in Word
      /\ Evaluate("Srl", u, a) = v
      /\ v \in Word
      /\ Evaluate("Srl", v, Keep(H)) = w
      /\ w \in Word
      /\ Evaluate("Andn", x, w) = h
      /\ h \in Word
      /\ Evaluate("Srl", val, a) = i
      /\ i \in Word
      /\ Evaluate("Srl", i, Keep(H)) = t
      /\ t \in Word
      /\ Evaluate("Or", h, t) = r
      /\ r \in Word
      /\ Puts(z, c, b, 2 * CellUnits, r, g)
    BY Zenon DEF LastPutWords
<1> DEFINE A1 == Load("T3", "T1", 2 * CellUnits)
           A2 == Const("T4", M - 1)
           A3 == Alu("Srl", "T4", "T4", R("T0"))
           A4 == AluImm("Srl", "T4", "T4", Keep(H))
           A5 == Alu("Andn", "T3", "T3", R("T4"))
           A6 == Alu("Srl", "T4", value, R("T0"))
           A7 == AluImm("Srl", "T4", "T4", Keep(H))
           A8 == Alu("Or", "T3", "T3", R("T4"))
           A9 == Store("T1", "T3", 2 * CellUnits)
<1>3. S = <<A1, A2, A3, A4, A5, A6, A7, A8, A9>>  OBVIOUS
<1> HIDE DEF A1, A2, A3, A4, A5, A6, A7, A8, A9
<1>2. PICK k1, k2, k3, k4, k5, k6, k7, k8, k9 :
          /\ k1 = p + 1 /\ k2 = k1 + 1 /\ k3 = k2 + 1 /\ k4 = k3 + 1 /\ k5 = k4 + 1 /\ k6 = k5 + 1 /\ k7 = k6 + 1 /\ k8 = k7 + 1 /\ k9 = k8 + 1 /\ k9 = p + 9 /\ k = k9
          /\ rows[p] = A1 /\ rows[k1] = A2 /\ rows[k2] = A3 /\ rows[k3] = A4 /\ rows[k4] = A5 /\ rows[k5] = A6 /\ rows[k6] = A7 /\ rows[k7] = A8 /\ rows[k8] = A9
  <2>1. NineAt(rows, p, k, A1, A2, A3, A4, A5, A6, A7, A8, A9)  BY <1>3, RowsNine
  <2> QED BY <2>1, Zenon DEF NineAt
<1>10. rows[p] = Load("T3", "T1", 2 * CellUnits)  BY <1>2 DEF A1
<1>11. rows[k1] = AluImm("Add64", "T4", "ZERO", M - 1)  BY <1>2 DEF A2, Const
<1>12. rows[k2] = Alu("Srl", "T4", "T4", R("T0"))  BY <1>2 DEF A3
<1>13. rows[k3] = AluImm("Srl", "T4", "T4", Keep(H))  BY <1>2 DEF A4
<1>14. rows[k4] = Alu("Andn", "T3", "T3", R("T4"))  BY <1>2 DEF A5
<1>15. rows[k5] = Alu("Srl", "T4", value, R("T0"))  BY <1>2 DEF A6
<1>16. rows[k6] = AluImm("Srl", "T4", "T4", Keep(H))  BY <1>2 DEF A7
<1>17. rows[k7] = Alu("Or", "T3", "T3", R("T4"))  BY <1>2 DEF A8
<1>18. rows[k8] = Store("T1", "T3", 2 * CellUnits)  BY <1>2 DEF A9
<1>20. Comes(rows, m, k1, z, c, s, a, b, d, x, f)  BY <1>1, <1>2, <1>10, RegNames, LoadT3
<1>21. Comes(rows, m, k2, z, c, s, a, b, d, x, u)
    BY RegNames, <1>1, <1>2, <1>11, <1>20, ImmT4 DEF Source
<1>22. Comes(rows, m, k3, z, c, s, a, b, d, x, v)
    BY RegNames, <1>1, <1>2, <1>12, <1>21, RegT4 DEF Source
<1>23. Comes(rows, m, k4, z, c, s, a, b, d, x, w)
    BY RegNames, <1>1, <1>2, <1>13, <1>22, ImmT4 DEF Source
<1>24. Comes(rows, m, k5, z, c, s, a, b, d, h, w)
    BY RegNames, <1>1, <1>2, <1>14, <1>23, RegT3 DEF Source
<1>25. Comes(rows, m, k6, z, c, s, a, b, d, h, i)
    BY RegNames, <1>1, <1>2, <1>15, <1>24, RegT4 DEF Source, Temps
<1>26. Comes(rows, m, k7, z, c, s, a, b, d, h, t)
    BY RegNames, <1>1, <1>2, <1>16, <1>25, ImmT4 DEF Source
<1>27. Comes(rows, m, k8, z, c, s, a, b, d, r, t)
    BY RegNames, <1>1, <1>2, <1>17, <1>26, RegT3 DEF Source
<1>28. Comes(rows, m, k9, z, g, s, a, b, d, r, t)
    BY RegNames, <1>1, <1>2, <1>18, <1>27, PutsComes DEF Source
<1> QED BY <1>2, <1>28

\* A whole cell, of a value that fits or of one cut,
HotCellWords(z, c, a, b, d, e, f, value, val, g) ==
    /\ Puts(z, c, b, 0, val, g)

\* The rows of a whole cell's store,
LEMMA HotCell ==
  ASSUME NEW rows, NEW m, NEW p, p \in Nat, NEW z, NEW c, NEW s, s \in [Reg -> Word],
         NEW a, NEW b, NEW d, NEW e, NEW f, Comes(rows, m, p, z, c, s, a, b, d, e, f),
         NEW value, NEW val,
         value \in Reg,
         value \notin Temps,
         s[value] = val,
         NEW g,
         HotCellWords(z, c, a, b, d, e, f, value, val, g),
         NEW S, S = <<Store("T1", value, 0)>>,
         Has(rows, p, S), NEW k, k = p + Len(S)
  PROVE  Comes(rows, m, k, z, g, s, a, b, d, e, f)
<1>1. /\ Puts(z, c, b, 0, val, g)  BY Zenon DEF HotCellWords
<1> DEFINE A1 == Store("T1", value, 0)
<1>3. S = <<A1>>  OBVIOUS
<1> HIDE DEF A1
<1>2. PICK k1 :
          /\ k1 = p + 1 /\ k = k1
          /\ rows[p] = A1
    BY <1>3, RowsOne, Zenon DEF OneAt
<1>10. rows[p] = Store("T1", value, 0)  BY <1>2 DEF A1
<1>20. Comes(rows, m, k1, z, g, s, a, b, d, e, f)
    BY RegNames, <1>1, <1>2, <1>10, PutsComes DEF Source, Temps
<1> QED BY <1>2, <1>20

HotCutCellWords(z, c, a, b, d, e, f, value, val, mask, u, g) ==
    /\ Evaluate("And", val, mask) = u
    /\ u \in Word
    /\ Puts(z, c, b, 0, u, g)

\* from an i64
LEMMA HotCutCell ==
  ASSUME NEW rows, NEW m, NEW p, p \in Nat, NEW z, NEW c, NEW s, s \in [Reg -> Word],
         NEW a, NEW b, NEW d, NEW e, NEW f, Comes(rows, m, p, z, c, s, a, b, d, e, f),
         NEW value, NEW val, NEW mask,
         value \in Reg,
         value \notin Temps,
         s[value] = val,
         NEW u, NEW g,
         HotCutCellWords(z, c, a, b, d, e, f, value, val, mask, u, g),
         NEW S, S = <<AluImm("And", "T3", value, mask),
                    Store("T1", "T3", 0)>>,
         Has(rows, p, S), NEW k, k = p + Len(S)
  PROVE  Comes(rows, m, k, z, g, s, a, b, d, u, f)
<1>1. /\ Evaluate("And", val, mask) = u
      /\ u \in Word
      /\ Puts(z, c, b, 0, u, g)
    BY Zenon DEF HotCutCellWords
<1> DEFINE A1 == AluImm("And", "T3", value, mask)
           A2 == Store("T1", "T3", 0)
<1>3. S = <<A1, A2>>  OBVIOUS
<1> HIDE DEF A1, A2
<1>2. PICK k1, k2 :
          /\ k1 = p + 1 /\ k2 = k1 + 1 /\ k2 = p + 2 /\ k = k2
          /\ rows[p] = A1 /\ rows[k1] = A2
  <2>1. TwoAt(rows, p, k, A1, A2)  BY <1>3, RowsTwo, Zenon
  <2> QED BY <2>1, Zenon DEF TwoAt
<1>10. rows[p] = AluImm("And", "T3", value, mask)  BY <1>2 DEF A1
<1>11. rows[k1] = Store("T1", "T3", 0)  BY <1>2 DEF A2
<1>20. Comes(rows, m, k1, z, c, s, a, b, d, u, f)
    BY RegNames, <1>1, <1>2, <1>10, ImmT3 DEF Source, Temps
<1>21. Comes(rows, m, k2, z, g, s, a, b, d, u, f)
    BY RegNames, <1>1, <1>2, <1>11, <1>20, PutsComes DEF Source
<1> QED BY <1>2, <1>21

\* and two.
HotCellsWords(z, c, a, b, d, e, f, value, val, u, v, g, h) ==
    /\ Evaluate("And", val, CellMask) = u
    /\ u \in Word
    /\ Puts(z, c, b, 0, u, g)
    /\ Evaluate("Srl", val, Keep(H)) = v
    /\ v \in Word
    /\ Puts(z, g, b, CellUnits, v, h)

\* and of two cells'.
LEMMA HotCells ==
  ASSUME NEW rows, NEW m, NEW p, p \in Nat, NEW z, NEW c, NEW s, s \in [Reg -> Word],
         NEW a, NEW b, NEW d, NEW e, NEW f, Comes(rows, m, p, z, c, s, a, b, d, e, f),
         NEW value, NEW val,
         value \in Reg,
         value \notin Temps,
         s[value] = val,
         NEW u, NEW v, NEW g, NEW h,
         HotCellsWords(z, c, a, b, d, e, f, value, val, u, v, g, h),
         NEW S, S = <<AluImm("And", "T3", value, CellMask),
                    Store("T1", "T3", 0),
                    AluImm("Srl", "T3", value, Keep(H)),
                    Store("T1", "T3", CellUnits)>>,
         Has(rows, p, S), NEW k, k = p + Len(S)
  PROVE  Comes(rows, m, k, z, h, s, a, b, d, v, f)
<1>1. /\ Evaluate("And", val, CellMask) = u
      /\ u \in Word
      /\ Puts(z, c, b, 0, u, g)
      /\ Evaluate("Srl", val, Keep(H)) = v
      /\ v \in Word
      /\ Puts(z, g, b, CellUnits, v, h)
    BY Zenon DEF HotCellsWords
<1> DEFINE A1 == AluImm("And", "T3", value, CellMask)
           A2 == Store("T1", "T3", 0)
           A3 == AluImm("Srl", "T3", value, Keep(H))
           A4 == Store("T1", "T3", CellUnits)
<1>3. S = <<A1, A2, A3, A4>>  OBVIOUS
<1> HIDE DEF A1, A2, A3, A4
<1>2. PICK k1, k2, k3, k4 :
          /\ k1 = p + 1 /\ k2 = k1 + 1 /\ k3 = k2 + 1 /\ k4 = k3 + 1 /\ k4 = p + 4 /\ k = k4
          /\ rows[p] = A1 /\ rows[k1] = A2 /\ rows[k2] = A3 /\ rows[k3] = A4
  <2>1. FourAt(rows, p, k, A1, A2, A3, A4)  BY <1>3, RowsFour, Zenon
  <2> QED BY <2>1, Zenon DEF FourAt
<1>10. rows[p] = AluImm("And", "T3", value, CellMask)  BY <1>2 DEF A1
<1>11. rows[k1] = Store("T1", "T3", 0)  BY <1>2 DEF A2
<1>12. rows[k2] = AluImm("Srl", "T3", value, Keep(H))  BY <1>2 DEF A3
<1>13. rows[k3] = Store("T1", "T3", CellUnits)  BY <1>2 DEF A4
<1>20. Comes(rows, m, k1, z, c, s, a, b, d, u, f)
    BY RegNames, <1>1, <1>2, <1>10, ImmT3 DEF Source, Temps
<1>21. Comes(rows, m, k2, z, g, s, a, b, d, u, f)
    BY RegNames, <1>1, <1>2, <1>11, <1>20, PutsComes DEF Source
<1>22. Comes(rows, m, k3, z, g, s, a, b, d, v, f)
    BY RegNames, <1>1, <1>2, <1>12, <1>21, ImmT3 DEF Source, Temps
<1>23. Comes(rows, m, k4, z, h, s, a, b, d, v, f)
    BY RegNames, <1>1, <1>2, <1>13, <1>22, PutsComes DEF Source
<1> QED BY <1>2, <1>23

\* A lane of l bytes in bits, and what the rows make of it.
LEMMA LaneWords ==
  ASSUME NEW l \in 0 .. 3, NEW u, u = ByteBits * l, NEW p, p = BP(l)
  PROVE  /\ Evaluate("Mul64", 2 * l, ShiftPerLane) = u /\ u \in Word
         /\ Evaluate("ShiftRightBitmask", u, 0) = ShiftMask(u) /\ ShiftMask(u) \in Word
         /\ Evaluate("Pow2", u, 0) = p /\ p \in Word /\ p \in Nat \ {0}
         /\ \A x \in Word : Evaluate("Srl", x, ShiftMask(u)) = x \div p /\ x \div p \in Word
<1>1. l \in 0 .. 7 /\ l \in Nat  OBVIOUS
<1>2. u \in Nat /\ u < Bits /\ p \in Nat \ {0} /\ p \in Word /\ p = 2^u  BY <1>1, BytePowers DEF BP
<1>3. u \in Word  BY <1>2, Sizes DEF Word
<1>4. Evaluate("Mul64", 2 * l, ShiftPerLane) = u
  <2>1. ShiftPerLane \in Nat /\ ByteBits = 2 * ShiftPerLane  BY Sizes
  <2>2. (2 * l) * ShiftPerLane = u /\ 2 * l \in Nat  BY <2>1
  <2>3. MulWrap(2 * l, ShiftPerLane) = ((2 * l) * ShiftPerLane) % M  BY <2>1, <2>2, MulWraps
  <2>4. u % M = u  BY <1>3, Sizes, RemainderSmall DEF Word
  <2>5. Evaluate("Mul64", 2 * l, ShiftPerLane) = MulWrap(2 * l, ShiftPerLane)  BY Evaluates
  <2> QED BY <2>2, <2>3, <2>4, <2>5
<1>5. ASSUME NEW x \in Word PROVE Evaluate("Srl", x, ShiftMask(u)) = x \div p /\ x \div p \in Word
    BY <1>2, ShiftIs
<1>6. /\ Evaluate("ShiftRightBitmask", u, 0) = ShiftMask(u) /\ ShiftMask(u) \in Word
      /\ Evaluate("Pow2", u, 0) = p
    BY Sizes, <1>2, ShiftIs DEF Word
<1> QED BY <1>2, <1>3, <1>4, <1>5, <1>6

\* The rest of the cell.
LEMMA RestWords ==
  ASSUME NEW l \in 1 .. 3, NEW u, u = ByteBits * l, NEW q, q = BP(4 - l), NEW i, i = ByteBits * (4 - l)
  PROVE  /\ Evaluate("Add64", 0, H) = H /\ H \in Word
         /\ Evaluate("Sub64", H, u) = i /\ i \in Word
         /\ Evaluate("ShiftRightBitmask", i, 0) = ShiftMask(i) /\ ShiftMask(i) \in Word
         /\ Evaluate("Pow2", i, 0) = q /\ q \in Word /\ q \in Nat \ {0}
         /\ \A x \in Word : Evaluate("Srl", x, ShiftMask(i)) = x \div q /\ x \div q \in Word
<1>1. 4 - l \in 0 .. 3  OBVIOUS
<1>2. /\ i \in Word /\ Evaluate("ShiftRightBitmask", i, 0) = ShiftMask(i) /\ ShiftMask(i) \in Word
      /\ Evaluate("Pow2", i, 0) = q /\ q \in Word /\ q \in Nat \ {0}
      /\ \A x \in Word : Evaluate("Srl", x, ShiftMask(i)) = x \div q /\ x \div q \in Word
    BY <1>1, LaneWords
<1>3. H \in Word  BY Sizes DEF Word
<1>4. Evaluate("Add64", 0, H) = H
  <2>1. Evaluate("Add64", 0, H) = (0 + H) % M  BY Evaluates
  <2>2. 0 + H = H /\ H % M = H  BY <1>3, Sizes, RemainderSmall DEF Word
  <2> QED BY <2>1, <2>2
<1>5. Evaluate("Sub64", H, u) = i
  <2>1. Evaluate("Sub64", H, u) = (H - u) % M  BY Evaluates
  <2>2. H - u = i  BY Sizes
  <2>3. i % M = i
    <3>1. i \in 0 .. M - 1 /\ M \in Nat  BY <1>2, Sizes DEF Word
    <3> QED BY <3>1, RemainderSmall, Zenon
  <2> QED BY <2>1, <2>2, <2>3
<1> QED BY <1>2, <1>3, <1>4, <1>5

\* A lane of one cell,
LEMMA HotShiftIs ==
  ASSUME NEW l \in 0 .. 3, NEW p, p = BP(l), NEW z, NEW c, NEW a, NEW b, NEW d, d = 2 * l, NEW e, NEW f,
         NEW x, Finds(c, b, 0, x), x \in 0 .. CellMask
  PROVE  \E u, v : HotShiftWords(z, c, a, b, d, e, f, x, u, v, x \div p)
<1>1. PICK u : u = ByteBits * l  OBVIOUS
<1>2. x \in Word  BY CellIs
<1>3. /\ Evaluate("Mul64", d, ShiftPerLane) = u /\ u \in Word
      /\ Evaluate("ShiftRightBitmask", u, 0) = ShiftMask(u) /\ ShiftMask(u) \in Word
      /\ Evaluate("Srl", x, ShiftMask(u)) = x \div p /\ x \div p \in Word
    BY <1>1, <1>2, LaneWords
<1>4. HotShiftWords(z, c, a, b, d, e, f, x, u, ShiftMask(u), x \div p)  BY <1>3, Zenon DEF HotShiftWords
<1> QED BY <1>4, Zenon

\* two whole cells,
LEMMA HotPairIs ==
  ASSUME NEW z, NEW c, NEW a, NEW b, NEW d, NEW e, NEW f, NEW rd,
         NEW x, Finds(c, b, 0, x), x \in 0 .. CellMask,
         NEW y, Finds(c, b, CellUnits, y), y \in 0 .. CellMask
  PROVE  Pair(x, y) \in Word /\ \E u : HotPairWords(z, c, a, b, d, e, f, rd, x, y, u, Pair(x, y))
<1>1. x \in Nat /\ y \in Nat /\ x \in 0 .. HalfM - 1 /\ y \in 0 .. HalfM - 1 /\ HalfM = 2^H /\ H \in Nat /\ M = HalfM * HalfM
      /\ HalfM \in Nat \ {0}
    BY Sizes DEF CellMask
<1>2. PICK h \in Nat \ {0} : h = HalfM  BY <1>1
<1>3. y * h + x \in Nat /\ y * h + x < h * h /\ y * h \in Nat /\ y * h < h * h  BY <1>1, <1>2
<1>4. MulWrap(y, HalfM) = y * HalfM /\ y * HalfM \in Word  BY <1>1, <1>2, <1>3, Fits
<1>5. (x | y * HalfM) = x + y * HalfM  BY <1>1, OrApart
<1>6. Pair(x, y) = x + y * HalfM /\ Pair(x, y) \in Word  BY <1>1, <1>2, <1>3, Sizes DEF Pair, Word
<1>7. Evaluate("Mul64", y, HalfM) = y * HalfM /\ Evaluate("Or", x, y * HalfM) = Pair(x, y)
    BY <1>4, <1>5, <1>6, Evaluates
<1>8. HotPairWords(z, c, a, b, d, e, f, rd, x, y, y * HalfM, Pair(x, y))
    BY <1>4, <1>6, <1>7, Zenon DEF HotPairWords
<1> QED BY <1>6, <1>8, Zenon

\* two cells about a lane,
LEMMA ColdTwoIs ==
  ASSUME NEW l \in 1 .. 3, NEW p, NEW q, NEW r, Lanes(l, p, q, r),
         NEW z, NEW c, NEW a, NEW b, NEW d, d = ByteBits * l, NEW e, NEW f,
         NEW x, Finds(c, b, 0, x), x \in 0 .. CellMask,
         NEW y, Finds(c, b, CellUnits, y), y \in 0 .. CellMask,
         NEW w, w = Pair(x, y) \div p
  PROVE  w \in Word /\ \E v, h, i, t : ColdTwoWords(z, c, a, b, d, e, f, x, v, x \div p, y, h, i, q, t, w)
<1>1. l \in 0 .. 3 /\ l \in 0 .. 4  OBVIOUS
<1>2. p = BP(l) /\ q = BP(4 - l) /\ p \in Nat \ {0} /\ q \in Nat \ {0} /\ r \in Nat \ {0}  BY Zenon DEF Lanes
<1>3. x \in Word /\ y \in Word  BY CellIs
<1>4. PICK i : i = ByteBits * (4 - l)  OBVIOUS
<1>5. /\ Evaluate("ShiftRightBitmask", d, 0) = ShiftMask(d) /\ ShiftMask(d) \in Word
      /\ Evaluate("Srl", x, ShiftMask(d)) = x \div p /\ x \div p \in Word
    BY <1>1, <1>2, <1>3, LaneWords
<1>6. /\ Evaluate("Add64", 0, H) = H /\ H \in Word /\ Evaluate("Sub64", H, d) = i /\ i \in Word
      /\ Evaluate("Pow2", i, 0) = q /\ q \in Word
    BY <1>2, <1>4, RestWords
<1>7. /\ MulWrap(y, q) = y * q /\ y * q \in Word /\ (x \div p | y * q) = w /\ w \in Word
    BY <1>1, <1>2, TwoCells
<1>8. Evaluate("Mul64", y, q) = y * q /\ Evaluate("Or", x \div p, y * q) = w  BY <1>7, Evaluates
<1>9. ColdTwoWords(z, c, a, b, d, e, f, x, ShiftMask(d), x \div p, y, H, i, q, y * q, w)
    BY <1>5, <1>6, <1>7, <1>8, Zenon DEF ColdTwoWords
<1> QED BY <1>7, <1>9, Zenon

\* and three.
LEMMA ColdThreeIs ==
  ASSUME NEW l \in 1 .. 3, NEW p, NEW q, NEW r, Lanes(l, p, q, r),
         NEW z, NEW c, NEW b, NEW d, NEW f,
         NEW x, x \in 0 .. CellMask, NEW y, y \in 0 .. CellMask,
         NEW v, Finds(c, b, 2 * CellUnits, v), v \in 0 .. CellMask,
         NEW e, e = Pair(x, y) \div p, NEW w, w = (Pair(x, Pair(y, v)) \div p) % M
  PROVE  w \in Word /\ \E t, u : ColdThreeWords(z, c, q, b, d, e, f, v, t, u, w)
<1>1. l \in 0 .. 4  OBVIOUS
<1>2. p \in Nat \ {0} /\ q \in Nat \ {0} /\ r \in Nat \ {0}  BY Zenon DEF Lanes
<1>3. MulWrap(v, q) = v * q /\ v * q \in Word  BY <1>1, <1>2, TwoCells
<1>4. PICK u \in Word : MulWrap(v * q, HalfM) = u /\ (e | u) = w /\ w \in Word  BY <1>1, <1>2, ThreeCells
<1>5. Evaluate("Mul64", v, q) = v * q /\ Evaluate("Mul64", v * q, HalfM) = u /\ Evaluate("Or", e, u) = w
    BY <1>3, <1>4, Evaluates
<1>6. ColdThreeWords(z, c, q, b, d, e, f, v, v * q, u, w)  BY <1>3, <1>4, <1>5, Zenon DEF ColdThreeWords
<1> QED BY <1>4, <1>6, Zenon

-----------------------------------------------------------------------------
(* A load: what its rows leave *)

\* The rows come to the hot rows, after which they end,
Hot(rows, m, z, c, s, q, l, hot) ==
    \E p, a, e, f : /\ p \in Nat /\ Comes(rows, m, p, z, c, s, a, CellAddress(q), 2 * l, e, f)
                    /\ Has(rows, p, hot) /\ rows[p + Len(hot)] = Rejoin

\* or to the cold ones, which jump to the end.
Cold(rows, m, z, c, s, q, l, cold) ==
    \E p, a, e, f, k : /\ p \in Nat /\ Comes(rows, m, p, z, c, s, a, CellAddress(q), 2 * l, e, f)
                       /\ Has(rows, p, cold) /\ rows[p + Len(cold)] = Jump(k) /\ rows[k] = Rejoin

\* A lane that ends in its cell, and one that crosses it.
Crosses(n, l) == IF n = 8 THEN l # 0 ELSE l + n > 4

\* One byte never crosses its cell;
LEMMA EnteredOne ==
  ASSUME NEW address, NEW hot, NEW cold, IsSequence(address), IsSequence(hot), Len(address) = 5,
         NEW rows, rows = WithCold(address, 1, hot, cold),
         NEW m, NEW z, NEW c, NEW s, NEW q, NEW l, NEW a, NEW e, NEW f,
         Comes(rows, m, 6, z, c, s, a, CellAddress(q), 2 * l, e, f)
  PROVE  Hot(rows, m, z, c, s, q, l, hot)
<1>1. rows = address \o hot \o <<Rejoin>>  BY Zenon DEF WithCold
<1>2. Has(rows, 6, hot) /\ rows[6 + Len(hot)] = Rejoin
  <2>1. Straight(rows, address, hot, Rejoin)  BY <1>1, HotLayout, Zenon
  <2> QED BY <2>1, Zenon DEF Straight
<1>3. 6 \in Nat  OBVIOUS
<1> QED BY <1>2, <1>3, Zenon DEF Hot

\* two do at the last lane,
LEMMA EnteredTwo ==
  ASSUME NEW address, NEW hot, NEW cold, IsSequence(address), IsSequence(hot), IsSequence(cold),
         Len(address) = 5,
         NEW rows, rows = WithCold(address, 2, hot, cold),
         NEW m, NEW z, NEW c, NEW s, s["ZERO"] = 0, NEW q, NEW l \in 0 .. 3, NEW a, NEW e, NEW f,
         Comes(rows, m, 6, z, c, s, a, CellAddress(q), 2 * l, e, f)
  PROVE  IF Crosses(2, l) THEN Cold(rows, m, z, c, s, q, l, cold) ELSE Hot(rows, m, z, c, s, q, l, hot)
<1>1. PICK k : k = Len(address) + Len(<<Const("T4", 5)>>) + 1 + Len(hot) + 1  OBVIOUS
<1>2. PICK T, A : T = <<A>> /\ A = Const("T4", 5)  OBVIOUS
<1>3. IsSequence(T) /\ Len(T) = 1 /\ \A r : \A p \in Nat : Has(r, p, T) => r[p] = A  BY <1>2, HasOne
<1>4. k = Len(address) + Len(T) + 1 + Len(hot) + 1  BY <1>1, <1>2
<1>14. PICK B, J : B = Branch("LtU", "T4", "T2", k + 1) /\ J = Jump(k)  OBVIOUS
<1>5. rows = address \o T \o <<B>> \o hot \o <<Rejoin>> \o cold \o <<J>>
    BY <1>1, <1>2, <1>14 DEF WithCold
<1>15. Layout(rows, k, address, T, hot, cold, B, Rejoin, J)  BY <1>3, <1>4, <1>5, ColdLayout, Zenon
<1>6. /\ Has(rows, 6, T) /\ rows[6 + Len(T)] = Branch("LtU", "T4", "T2", k + 1)
      /\ Has(rows, 7 + Len(T), hot) /\ (7 + Len(T)) + Len(hot) = k /\ rows[k] = Rejoin
      /\ Has(rows, k + 1, cold) /\ rows[(k + 1) + Len(cold)] = Jump(k)
      /\ k \in Nat /\ 7 + Len(T) \in Nat
    BY <1>14, <1>15 DEF Layout
<1>7. rows[6] = AluImm("Add64", "T4", "ZERO", 5) /\ 7 = 6 + 1 /\ 7 = 6 + Len(T) /\ 8 = 7 + 1 /\ 8 = 7 + Len(T) /\ 8 \in Nat
      /\ k + 1 \in Nat
    BY <1>2, <1>3, <1>6 DEF Const
<1>8. Comes(rows, m, 7, z, c, s, a, CellAddress(q), 2 * l, e, 5)
  <2>1. Source(s, a, CellAddress(q), 2 * l, e, f, "ZERO") = 0  BY RegNames DEF Source
  <2>2. Evaluate("Add64", 0, 5) = 5 /\ 5 \in Word  BY Evaluates, Sizes, RemainderSmall DEF Word
  <2>4. PICK i, j, v : i = 6 /\ j = 7 /\ v = 5  OBVIOUS
  <2>3. rows[i] = AluImm("Add64", "T4", "ZERO", v) /\ j = i + 1 /\ Comes(rows, m, i, z, c, s, a, CellAddress(q), 2 * l, e, f)
      BY <1>7, <2>4
  <2>5. Evaluate("Add64", 0, v) = v /\ v \in Word  BY <2>2, <2>4, Zenon
  <2>6. Comes(rows, m, j, z, c, s, a, CellAddress(q), 2 * l, e, v)
      BY <2>1, <2>3, <2>5, RegNames, ImmT4, Zenon
  <2> QED BY <2>4, <2>6, Zenon
<1>9. /\ Source(s, a, CellAddress(q), 2 * l, e, 5, "T4") = 5
      /\ Source(s, a, CellAddress(q), 2 * l, e, 5, "T2") = 2 * l
    BY DEF Source
<1>10. Evaluate("LtU", 5, 2 * l) = Bool(5 < 2 * l)  BY Evaluates
<1>11. rows[7] = Branch("LtU", "T4", "T2", k + 1)  BY <1>6, <1>7
<1>12. CASE Crosses(2, l)
    BY <1>10, <1>12, <1>9, <1>8, <1>11, RegNames, TakenComes, <1>6, <1>7 DEF Bool, Crosses, Cold
<1>13. CASE ~Crosses(2, l)
  <2>1. Evaluate("LtU", 5, 2 * l) # 1  BY <1>10, <1>13 DEF Bool, Crosses
  <2>2. Evaluate("LtU", Source(s, a, CellAddress(q), 2 * l, e, 5, "T4"), Source(s, a, CellAddress(q), 2 * l, e, 5, "T2")) # 1
      BY <1>9, <2>1, Zenon
  <2>5. 8 = 7 + 1  OBVIOUS
  <2>3. Comes(rows, m, 8, z, c, s, a, CellAddress(q), 2 * l, e, 5)
      BY <1>8, <1>11, <2>2, <2>5, RegNames, FallsComes, Zenon
  <2>6. Has(rows, 8, hot) /\ rows[8 + Len(hot)] = Rejoin /\ 8 \in Nat  BY <1>6, <1>7
  <2>4. Hot(rows, m, z, c, s, q, l, hot)  BY <2>3, <2>6, Zenon DEF Hot
  <2> QED BY <1>13, <2>4
<1> QED BY <1>12, <1>13

\* four and eight at all but the first.
LEMMA EnteredMore ==
  ASSUME NEW address, NEW hot, NEW cold, IsSequence(address), IsSequence(hot), IsSequence(cold),
         Len(address) = 5,
         NEW rows, NEW n, n # 1, n # 2, n = 4 \/ n = 8, rows = WithCold(address, n, hot, cold),
         NEW m, NEW z, NEW c, NEW s, s["ZERO"] = 0, NEW q, NEW l \in 0 .. 3, NEW a, NEW e, NEW f,
         Comes(rows, m, 6, z, c, s, a, CellAddress(q), 2 * l, e, f)
  PROVE  IF Crosses(n, l) THEN Cold(rows, m, z, c, s, q, l, cold) ELSE Hot(rows, m, z, c, s, q, l, hot)
<1>2. PICK T : T = <<>>  OBVIOUS
<1>3. IsSequence(T) /\ Len(T) = 0  BY <1>2, HasNone
<1>1. PICK k : k = Len(address) + Len(T) + 1 + Len(hot) + 1  OBVIOUS
<1>14. PICK B, J : B = Branch("Ne", "T2", "ZERO", k + 1) /\ J = Jump(k)  OBVIOUS
<1>5. rows = address \o T \o <<B>> \o hot \o <<Rejoin>> \o cold \o <<J>>
    BY <1>1, <1>2, <1>14, Zenon DEF WithCold, BranchIfNonzero
<1>15. Layout(rows, k, address, T, hot, cold, B, Rejoin, J)  BY <1>1, <1>3, <1>5, ColdLayout, Zenon
<1>6. /\ rows[6 + Len(T)] = Branch("Ne", "T2", "ZERO", k + 1)
      /\ Has(rows, 7 + Len(T), hot) /\ (7 + Len(T)) + Len(hot) = k /\ rows[k] = Rejoin
      /\ Has(rows, k + 1, cold) /\ rows[(k + 1) + Len(cold)] = Jump(k)
      /\ k \in Nat /\ 7 + Len(T) \in Nat
    BY <1>14, <1>15 DEF Layout
<1>7. 6 + Len(T) = 6 /\ 7 + Len(T) = 7 /\ 7 = 6 + 1 /\ 7 \in Nat /\ k + 1 \in Nat  BY <1>3, <1>6
<1>9. /\ Source(s, a, CellAddress(q), 2 * l, e, f, "ZERO") = 0
      /\ Source(s, a, CellAddress(q), 2 * l, e, f, "T2") = 2 * l
    BY DEF Source
<1>10. Evaluate("Ne", 2 * l, 0) = Bool(2 * l # 0)  BY Evaluates
<1>11. rows[6] = Branch("Ne", "T2", "ZERO", k + 1)  BY <1>6, <1>7
<1>12. CASE Crosses(n, l)
    BY <1>12, <1>10, <1>9, <1>11, RegNames, TakenComes, <1>6, <1>7 DEF Crosses, Bool, Cold
<1>13. CASE ~Crosses(n, l)
  <2>1. Evaluate("Ne", 2 * l, 0) # 1  BY <1>13, <1>10 DEF Crosses, Bool
  <2>2. Evaluate("Ne", Source(s, a, CellAddress(q), 2 * l, e, f, "T2"), Source(s, a, CellAddress(q), 2 * l, e, f, "ZERO")) # 1
      BY <1>9, <2>1, Zenon
  <2>5. 7 = 6 + 1  OBVIOUS
  <2>3. Comes(rows, m, 7, z, c, s, a, CellAddress(q), 2 * l, e, f)
      BY <1>11, <2>2, <2>5, RegNames, FallsComes, Zenon
  <2>6. Has(rows, 7, hot) /\ rows[7 + Len(hot)] = Rejoin /\ 7 \in Nat  BY <1>6, <1>7
  <2>4. Hot(rows, m, z, c, s, q, l, hot)  BY <2>3, <2>6, Zenon DEF Hot
  <2> QED BY <1>13, <2>4
<1> QED BY <1>12, <1>13

\* The rows of an access come to the rows for its lane.
InLane(rows, m, z, c, s, q, l, n, hot, cold) ==
    /\ Crosses(n, l) => l \in 1 .. 3 /\ n \in {2, 4, 8} /\ Cold(rows, m, z, c, s, q, l, cold)
    /\ ~Crosses(n, l) => /\ (n = 8 => l = 0) /\ (n < 8 => l + n <= 4)
                         /\ Hot(rows, m, z, c, s, q, l, hot)

\* The branch takes the cold rows exactly when the lane crosses.
LEMMA Entered ==
  ASSUME NEW address, NEW hot, NEW cold, IsSequence(address), IsSequence(hot), IsSequence(cold),
         Len(address) = 5,
         NEW rows, NEW n, n \in {1, 2, 4, 8}, rows = WithCold(address, n, hot, cold),
         NEW m, NEW z, NEW c, NEW s, s["ZERO"] = 0, NEW q, NEW l, l \in 0 .. 3, NEW a, NEW e, NEW f,
         Comes(rows, m, 6, z, c, s, a, CellAddress(q), 2 * l, e, f)
  PROVE  InLane(rows, m, z, c, s, q, l, n, hot, cold)
<1> SUFFICES /\ Crosses(n, l) => l \in 1 .. 3 /\ n \in {2, 4, 8} /\ Cold(rows, m, z, c, s, q, l, cold)
             /\ ~Crosses(n, l) => /\ (n = 8 => l = 0) /\ (n < 8 => l + n <= 4)
                                  /\ Hot(rows, m, z, c, s, q, l, hot)
    BY Zenon DEF InLane
<1>1. CASE n = 1  BY <1>1, EnteredOne DEF Crosses
<1>2. CASE n = 2  BY <1>2, EnteredTwo DEF Crosses
<1>3. CASE n = 4 \/ n = 8  BY <1>3, EnteredMore DEF Crosses
<1> QED BY <1>1, <1>2, <1>3

\* The rows come to their end, with v in rd for a load.
Finishes(rows, m, z, c, s, rd, v) ==
    \E k, a, b, d, e, f : Gets(rows, m, k, z, c, s, rd, v, a, b, d, e, f) /\ rows[k] = Rejoin

\* A value in its register at the end is the result.
LEMMA GetsFinishes ==
  ASSUME NEW rows, NEW m, NEW k, NEW z, NEW c, NEW s, NEW t, NEW v, NEW a, NEW b, NEW d, NEW e, NEW f,
         Gets(rows, m, k, z, c, s, t, v, a, b, d, e, f), NEW n, n = k, rows[n] = Rejoin
  PROVE  Finishes(rows, m, z, c, s, t, v)
<1> QED BY Zenon DEF Finishes

\* So is one narrowed there.
LEMMA GivesFinishes ==
  ASSUME NEW rows, NEW m, NEW k, NEW z, NEW c, NEW s, NEW t, NEW v, NEW b, NEW d, NEW e, NEW f,
         Gives(rows, m, k, z, c, s, t, v, b, d, e, f), NEW n, n = k, rows[n] = Rejoin
  PROVE  Finishes(rows, m, z, c, s, t, v)
<1>1. PICK a : Gets(rows, m, k, z, c, s, t, v, a, b, d, e, f)  BY Zenon DEF Gives
<1> QED BY <1>1, GetsFinishes, Zenon

\* By way of a jump.
LEMMA GivesJumps ==
  ASSUME NEW rows, NEW m, NEW k, NEW z, NEW c, NEW s, NEW t, NEW v, NEW b, NEW d, NEW e, NEW f,
         Gives(rows, m, k, z, c, s, t, v, b, d, e, f), NEW n, n = k, NEW j, rows[n] = Jump(j), rows[j] = Rejoin
  PROVE  Finishes(rows, m, z, c, s, t, v)
<1>1. PICK a : Gets(rows, m, k, z, c, s, t, v, a, b, d, e, f)  BY Zenon DEF Gives
<1>2. PICK g \in [Reg -> Word] : Sets(s, g, t, v) /\ Comes(rows, m, n, z, c, g, a, b, d, e, f)
    BY <1>1, Zenon DEF Gets
<1>3. Comes(rows, m, j, z, c, g, a, b, d, e, f)  BY <1>2, JumpComes, Zenon
<1>4. Gets(rows, m, j, z, c, s, t, v, a, b, d, e, f)  BY <1>2, <1>3, Zenon DEF Gets
<1> QED BY <1>4, GetsFinishes, Zenon

\* The rows of a narrowing are a sequence.
LEMMA NarrowsSequence ==
  ASSUME NEW S, NEW rd, NEW y, NEW e, Narrows(S, rd, y, e)
  PROVE  IsSequence(S)
<1>1. \A a1, a2 : IsSequence(<<a1, a2>> \o <<>>)
  <2> TAKE a1, a2
  <2>1. PICK t : t = <<a1, a2>>  OBVIOUS
  <2>2. PICK o : o = <<>>  OBVIOUS
  <2>3. IsSequence(t) /\ IsSequence(o)  BY <2>1, <2>2, HasTwo, HasNone
  <2> QED BY <2>1, <2>2, <2>3, HasJoin
<1>2. \A a1, a2, a3 : IsSequence(<<a1, a2>> \o <<a3>>)
  <2> TAKE a1, a2, a3
  <2>1. PICK t : t = <<a1, a2>>  OBVIOUS
  <2>2. PICK o : o = <<a3>>  OBVIOUS
  <2>3. IsSequence(t) /\ IsSequence(o)  BY <2>1, <2>2, HasTwo, HasOne
  <2> QED BY <2>1, <2>2, <2>3, HasJoin
<1>3. \A a1 : IsSequence(<<a1>>)  BY HasOne
<1> QED BY <1>1, <1>2, <1>3, Zenon DEF Narrows, OneShift, TwoShifts, TwoShiftsCut

\* A lane of one cell.
LEMMA LaneNarrows ==
  ASSUME NEW rows, NEW m, NEW p, p \in Nat, NEW z, NEW c, NEW s, s \in [Reg -> Word],
         NEW a, NEW b, NEW l, l \in 0 .. 3, NEW d, d = 2 * l, NEW e, NEW f,
         Comes(rows, m, p, z, c, s, a, b, d, e, f),
         NEW x, Finds(c, b, 0, x), x \in 0 .. CellMask, NEW rd, Free(rd),
         NEW y, y = x \div BP(l), NEW S, NEW v, Narrows(S, rd, y, v),
         NEW T, T = <<Load("T3", "T1", 0),
                    AluImm("Mul64", "T2", "T2", ShiftPerLane),
                    AluImm("ShiftRightBitmask", "T4", "T2", 0),
                    Alu("Srl", "T3", "T3", R("T4"))>>, NEW W, W = T \o S, Has(rows, p, W),
         NEW n, n = p + Len(W), rows[n] = Rejoin
  PROVE  Finishes(rows, m, z, c, s, rd, v)
<1>1. PICK h : h = BP(l)  OBVIOUS
<1>2. PICK u, t : HotShiftWords(z, c, a, b, d, e, f, x, u, t, x \div h)  BY <1>1, HotShiftIs, Zenon
<1>3. HotShiftWords(z, c, a, b, d, e, f, x, u, t, y)  BY <1>1, <1>2, Zenon
<1>4. IsSequence(T) /\ Len(T) = 4  BY HasFour
<1>5. IsSequence(S)  BY NarrowsSequence, Zenon
<1>6. Consecutive(rows, p, T, S, n)  BY <1>4, <1>5, Consecutively, Zenon
<1>7. PICK k : k \in Nat /\ k = p + Len(T) /\ n = k + Len(S) /\ Has(rows, p, T) /\ Has(rows, k, S)
    BY <1>6, Zenon DEF Consecutive
<1>8. Comes(rows, m, k, z, c, s, a, b, u, y, t)  BY <1>3, <1>7, HotShift, Zenon
<1>10. Gives(rows, m, n, z, c, s, rd, v, b, u, y, t)  BY <1>7, <1>8, NarrowsGive, Zenon
<1> QED BY <1>10, GivesFinishes, Zenon

\* A whole cell, extended.
LEMMA WholeNarrows ==
  ASSUME NEW rows, NEW m, NEW p, p \in Nat, NEW z, NEW c, NEW s, s \in [Reg -> Word],
         NEW a, NEW b, NEW d, NEW e, NEW f, Comes(rows, m, p, z, c, s, a, b, d, e, f),
         NEW x, Finds(c, b, 0, x), NEW rd, Free(rd), NEW S, NEW v, Narrows(S, rd, x, v),
         NEW T, T = <<Load("T3", "T1", 0)>>, NEW W, W = T \o S, Has(rows, p, W),
         NEW n, n = p + Len(W), rows[n] = Rejoin
  PROVE  Finishes(rows, m, z, c, s, rd, v)
<1>4. IsSequence(T) /\ Len(T) = 1  BY HasOne
<1>5. IsSequence(S)  BY NarrowsSequence, Zenon
<1>6. Consecutive(rows, p, T, S, n)  BY <1>4, <1>5, Consecutively, Zenon
<1>7. PICK k : k \in Nat /\ k = p + Len(T) /\ n = k + Len(S) /\ Has(rows, p, T) /\ Has(rows, k, S)
    BY <1>6, Zenon DEF Consecutive
<1>12. rows[p] = Load("T3", "T1", 0) /\ k = p + 1  BY <1>4, <1>7, HasOne
<1>8. Comes(rows, m, k, z, c, s, a, b, d, x, f)  BY <1>12, LoadT3, Zenon
<1>10. Gives(rows, m, n, z, c, s, rd, v, b, d, x, f)  BY <1>7, <1>8, NarrowsGive, Zenon
<1> QED BY <1>10, GivesFinishes, Zenon

\* A whole cell as it is.
LEMMA WholeLoads ==
  ASSUME NEW rows, NEW m, NEW p, p \in Nat, NEW z, NEW c, NEW s, s \in [Reg -> Word],
         NEW a, NEW b, NEW d, NEW e, NEW f, Comes(rows, m, p, z, c, s, a, b, d, e, f),
         NEW rd, Free(rd), NEW x, Finds(c, b, 0, x),
         NEW T, T = <<Load(rd, "T1", 0)>>, Has(rows, p, T), rows[p + Len(T)] = Rejoin
  PROVE  Finishes(rows, m, z, c, s, rd, x)
<1>1. rows[p] = Load(rd, "T1", 0) /\ Len(T) = 1  BY HasOne
<1>2. PICK n : n = p + 1  OBVIOUS
<1>3. Gets(rows, m, n, z, c, s, rd, x, a, b, d, e, f)  BY <1>1, <1>2, LoadGets, Zenon
<1>4. rows[n] = Rejoin  BY <1>1, <1>2
<1> QED BY <1>3, <1>4, GetsFinishes, Zenon

\* Two whole cells.
LEMMA PairLoads ==
  ASSUME NEW rows, NEW m, NEW p, p \in Nat, NEW z, NEW c, NEW s, s \in [Reg -> Word],
         NEW a, NEW b, NEW d, NEW e, NEW f, Comes(rows, m, p, z, c, s, a, b, d, e, f),
         NEW rd, Free(rd), NEW x, Finds(c, b, 0, x), x \in 0 .. CellMask,
         NEW y, Finds(c, b, CellUnits, y), y \in 0 .. CellMask, NEW v, v = Pair(x, y),
         NEW T, T = <<Load("T3", "T1", 0), Load("T4", "T1", CellUnits),
                  AluImm("Mul64", "T4", "T4", HalfM), Alu("Or", rd, "T3", R("T4"))>>,
         Has(rows, p, T), rows[p + Len(T)] = Rejoin
  PROVE  Finishes(rows, m, z, c, s, rd, v)
<1>1. PICK u : HotPairWords(z, c, a, b, d, e, f, rd, x, y, u, Pair(x, y))  BY HotPairIs, Zenon
<1>2. PICK n : n = p + Len(T)  OBVIOUS
<1>3. Gets(rows, m, n, z, c, s, rd, v, a, b, d, x, u)  BY <1>1, <1>2, HotPair, Zenon
<1>4. rows[n] = Rejoin  BY <1>2
<1> QED BY <1>3, <1>4, GetsFinishes, Zenon

-----------------------------------------------------------------------------
(* A load is the guest's *)

\* The value of n bytes from r on.
Loaded(z, c, r, n, bits, signed) == Extended(Spelled(BytesOf(z, c), r, ByteBits, n), ByteBits * n, bits, signed)

\* Of one cell, of two and of three.
OneCell(c, e, q, l, n, bits, signed, v) ==
    /\ q <= e /\ c[q] \in 0 .. CellMask
    /\ v = Extended((c[q] \div BP(l)) % BP(n), ByteBits * n, bits, signed)

TwoCell(c, e, q, l, n, bits, signed, v) ==
    /\ q <= e /\ q + 1 <= e /\ c[q] \in 0 .. CellMask /\ c[q + 1] \in 0 .. CellMask
    /\ v = Extended((Pair(c[q], c[q + 1]) \div BP(l)) % BP(n), ByteBits * n, bits, signed)

ThreeCell(c, e, q, l, n, bits, signed, v) ==
    /\ q <= e /\ q + 1 <= e /\ q + 2 <= e
    /\ c[q] \in 0 .. CellMask /\ c[q + 1] \in 0 .. CellMask /\ c[q + 2] \in 0 .. CellMask
    /\ v = Extended((Pair(c[q], Pair(c[q + 1], c[q + 2])) \div BP(l)) % BP(n), ByteBits * n, bits, signed)

\* What a load reads from one cell,
LEMMA LoadedOne ==
  ASSUME NEW z, NEW c, NEW e, Shape(z, c, e), NEW q, q \in Nat, NEW l, l \in 0 .. 3, NEW n,
         n \in Nat \ {0},
         l + n <= 4, 4 * q + l + n <= z, NEW bits, NEW signed,
         NEW v, v = Loaded(z, c, 4 * q + l, n, bits, signed)
  PROVE  OneCell(c, e, q, l, n, bits, signed, v)
<1>1. q \in 0 .. e - 1 /\ c[q] \in 0 .. CellMask /\ Reading(BytesOf(z, c), 4 * q + l, n, c[q], l)  BY SpellOne
<1>2. Spelled(BytesOf(z, c), 4 * q + l, ByteBits, n) = (c[q] \div BP(l)) % BP(n)
    BY <1>1, Zenon DEF Reading, BP
<1>3. Loaded(z, c, 4 * q + l, n, bits, signed) = Extended((c[q] \div BP(l)) % BP(n), ByteBits * n, bits, signed)
    BY <1>2, Zenon DEF Loaded
<1>4. e \in Nat  BY Zenon DEF Shape
<1>5. q <= e  BY <1>1, <1>4
<1> QED BY <1>1, <1>3, <1>5 DEF OneCell

\* from two
LEMMA LoadedTwo ==
  ASSUME NEW z, NEW c, NEW e, Shape(z, c, e), NEW q, q \in Nat, NEW l, l \in 0 .. 3, NEW n, n \in Nat,
         4 < l + n, l + n <= 8, 4 * q + l + n <= z, NEW bits, NEW signed,
         NEW v, v = Loaded(z, c, 4 * q + l, n, bits, signed)
  PROVE  TwoCell(c, e, q, l, n, bits, signed, v)
<1>1. /\ q \in 0 .. e - 1 /\ q + 1 \in 0 .. e - 1 /\ c[q] \in 0 .. CellMask /\ c[q + 1] \in 0 .. CellMask
      /\ Reading(BytesOf(z, c), 4 * q + l, n, Pair(c[q], c[q + 1]), l)
    BY SpellTwo
<1>2. Spelled(BytesOf(z, c), 4 * q + l, ByteBits, n) = (Pair(c[q], c[q + 1]) \div BP(l)) % BP(n)
    BY <1>1, Zenon DEF Reading, BP
<1>3. Loaded(z, c, 4 * q + l, n, bits, signed)
                 = Extended((Pair(c[q], c[q + 1]) \div BP(l)) % BP(n), ByteBits * n, bits, signed)
    BY <1>2, Zenon DEF Loaded
<1>4. e \in Nat  BY Zenon DEF Shape
<1>5. q <= e /\ q + 1 <= e  BY <1>1, <1>4
<1> QED BY <1>1, <1>3, <1>5 DEF TwoCell

\* and from three.
LEMMA LoadedThree ==
  ASSUME NEW z, NEW c, NEW e, Shape(z, c, e), NEW q, q \in Nat, NEW l, l \in 0 .. 3, NEW n, n \in Nat,
         8 < l + n, l + n <= 12, 4 * q + l + n <= z, NEW bits, NEW signed,
         NEW v, v = Loaded(z, c, 4 * q + l, n, bits, signed)
  PROVE  ThreeCell(c, e, q, l, n, bits, signed, v)
<1>1. /\ q \in 0 .. e - 1 /\ q + 1 \in 0 .. e - 1 /\ q + 2 \in 0 .. e - 1
      /\ c[q] \in 0 .. CellMask /\ c[q + 1] \in 0 .. CellMask /\ c[q + 2] \in 0 .. CellMask
      /\ Reading(BytesOf(z, c), 4 * q + l, n, Pair(c[q], Pair(c[q + 1], c[q + 2])), l)
    BY SpellThree
<1>2. Spelled(BytesOf(z, c), 4 * q + l, ByteBits, n) = (Pair(c[q], Pair(c[q + 1], c[q + 2])) \div BP(l)) % BP(n)
    BY <1>1, Zenon DEF Reading, BP
<1>3. Loaded(z, c, 4 * q + l, n, bits, signed)
                 = Extended((Pair(c[q], Pair(c[q + 1], c[q + 2])) \div BP(l)) % BP(n), ByteBits * n, bits, signed)
    BY <1>2, Zenon DEF Loaded
<1>4. e \in Nat  BY Zenon DEF Shape
<1>5. q <= e /\ q + 1 <= e /\ q + 2 <= e  BY <1>1, <1>4
<1> QED BY <1>1, <1>3, <1>5 DEF ThreeCell

\* The hot rows of each width.
HotShiftRows == <<Load("T3", "T1", 0),
                  AluImm("Mul64", "T2", "T2", ShiftPerLane),
                  AluImm("ShiftRightBitmask", "T4", "T2", 0),
                  Alu("Srl", "T3", "T3", R("T4"))>>

HotPairRows(rd) == <<Load("T3", "T1", 0), Load("T4", "T1", CellUnits),
                     AluImm("Mul64", "T4", "T4", HalfM), Alu("Or", rd, "T3", R("T4"))>>

HotForms(rd, n, signed, w, hot) ==
    /\ n = 8 => hot = HotPairRows(rd)
    /\ n = 4 /\ ~signed => hot = <<Load(rd, "T1", 0)>>
    /\ n = 4 /\ signed => hot = <<Load("T3", "T1", 0)>> \o Narrow(rd, "T3", n, signed, w)
    /\ n < 4 => hot = HotShiftRows \o Narrow(rd, "T3", n, signed, w)

\* The rows of HotLoad, by width.
LEMMA HotLoadRows ==
  ASSUME NEW n, n \in {1, 2, 4, 8}, NEW rd, NEW signed, signed \in BOOLEAN, NEW w,
         NEW hot, hot = HotLoad(rd, n, signed, w)
  PROVE  HotForms(rd, n, signed, w, hot)
<1> SUFFICES /\ n = 8 => HotLoad(rd, n, signed, w) = HotPairRows(rd)
             /\ n = 4 /\ ~signed => HotLoad(rd, n, signed, w) = <<Load(rd, "T1", 0)>>
             /\ n = 4 /\ signed => HotLoad(rd, n, signed, w) = <<Load("T3", "T1", 0)>> \o Narrow(rd, "T3", n, signed, w)
             /\ n < 4 => HotLoad(rd, n, signed, w) = HotShiftRows \o Narrow(rd, "T3", n, signed, w)
    BY Zenon DEF HotForms
<1>1. CASE n = 8  BY <1>1 DEF HotLoad, HotPairRows
<1>2. CASE n = 4 /\ ~signed  BY <1>2 DEF HotLoad
<1>3. CASE n = 4 /\ signed
  <2>1. PICK N : N = Narrow(rd, "T3", n, signed, w)  OBVIOUS
  <2>2. n # 8 /\ ~(n < 4) /\ signed = TRUE /\ n = 4  BY <1>3
  <2>3. HotLoad(rd, n, signed, w) = <<Load("T3", "T1", 0)>> \o N  BY <2>1, <2>2, Zenon DEF HotLoad
  <2> QED BY <2>1, <2>2, <2>3, Zenon
<1>4. CASE n < 4  BY <1>4 DEF HotLoad, HotShiftRows
<1> QED BY <1>1, <1>2, <1>3, <1>4

\* Where hot rows finish, for each of their forms.
LEMMA HotFinishes ==
  ASSUME NEW rows, NEW m, NEW z, NEW c, NEW e, Shape(z, c, e), NEW s, s \in [Reg -> Word],
         NEW q, q \in Nat, q <= e, NEW l, l \in 0 .. 3, NEW hot, Hot(rows, m, z, c, s, q, l, hot),
         NEW rd, Free(rd), NEW x, x = c[q], NEW v
  PROVE  /\ \A S, y : y = x \div BP(l) /\ Narrows(S, rd, y, v) /\ hot = HotShiftRows \o S
               => Finishes(rows, m, z, c, s, rd, v)
         /\ \A S : Narrows(S, rd, x, v) /\ hot = <<Load("T3", "T1", 0)>> \o S
               => Finishes(rows, m, z, c, s, rd, v)
         /\ hot = <<Load(rd, "T1", 0)>> /\ v = x => Finishes(rows, m, z, c, s, rd, v)
         /\ q + 1 <= e /\ hot = HotPairRows(rd) /\ v = Pair(x, c[q + 1]) => Finishes(rows, m, z, c, s, rd, v)
<1>1. PICK p, a, f, g : /\ p \in Nat /\ Comes(rows, m, p, z, c, s, a, CellAddress(q), 2 * l, f, g)
                        /\ Has(rows, p, hot) /\ rows[p + Len(hot)] = Rejoin
    BY Zenon DEF Hot
<1>2. PICK b, d, n : b = CellAddress(q) /\ d = 2 * l /\ n = p + Len(hot)  OBVIOUS
<1>3. Comes(rows, m, p, z, c, s, a, b, d, f, g) /\ rows[n] = Rejoin  BY <1>1, <1>2
<1>4. Finds(c, b, 0, x) /\ x \in 0 .. CellMask  BY <1>2, CellsFind
<1>5. ASSUME NEW S, NEW y, y = x \div BP(l), Narrows(S, rd, y, v), hot = HotShiftRows \o S
      PROVE  Finishes(rows, m, z, c, s, rd, v)
  <2>1. PICK T : T = HotShiftRows  OBVIOUS
  <2>2. /\ T = <<Load("T3", "T1", 0), AluImm("Mul64", "T2", "T2", ShiftPerLane),
                 AluImm("ShiftRightBitmask", "T4", "T2", 0), Alu("Srl", "T3", "T3", R("T4"))>>
        /\ hot = T \o S
      BY <1>5, <2>1, Zenon DEF HotShiftRows
  <2>3. p \in Nat /\ Has(rows, p, hot)  BY <1>1
  <2> QED BY <1>2, <1>3, <1>4, <1>5, <2>2, <2>3, LaneNarrows, Zenon
<1>6. ASSUME NEW S, Narrows(S, rd, x, v), hot = <<Load("T3", "T1", 0)>> \o S
      PROVE  Finishes(rows, m, z, c, s, rd, v)
  <2>1. PICK T : T = <<Load("T3", "T1", 0)>>  OBVIOUS
  <2>2. hot = T \o S  BY <1>6, <2>1
  <2>3. p \in Nat /\ Has(rows, p, hot)  BY <1>1
  <2> QED BY <1>2, <1>3, <1>4, <1>6, <2>1, <2>2, <2>3, WholeNarrows, Zenon
<1>7. ASSUME hot = <<Load(rd, "T1", 0)>>, v = x
      PROVE  Finishes(rows, m, z, c, s, rd, v)
    BY <1>1, <1>3, <1>4, <1>7, WholeLoads
<1>8. ASSUME q + 1 <= e, hot = HotPairRows(rd), v = Pair(x, c[q + 1])
      PROVE  Finishes(rows, m, z, c, s, rd, v)
    BY <1>2, <1>8, CellsFind, <1>1, <1>3, <1>4, PairLoads DEF HotPairRows
<1> QED BY <1>5, <1>6, <1>7, <1>8, Zenon

\* The width of the result in bits.
Wide(w) == IF w = 32 THEN H ELSE Bits

\* The forms of a load that the code emits.
LoadForm(n, signed, w) ==
    /\ n \in {1, 2, 4, 8} /\ signed \in BOOLEAN /\ w \in {32, 64}
    /\ n = 8 => w = 64 /\ ~signed
    /\ n = 4 /\ w = 32 => ~signed

\* The narrowing of a load is wasm's extension.
LEMMA FormNarrows ==
  ASSUME NEW n, NEW signed, NEW w, LoadForm(n, signed, w), NEW y, y \in Word, NEW rd,
         NEW u, u = y % BP(n)
  PROVE  Narrows(Narrow(rd, "T3", n, signed, w), rd, y, Extended(u, ByteBits * n, Wide(w), signed))
<1>1. /\ n \in {1, 2, 4, 8} /\ signed \in BOOLEAN /\ w \in {32, 64}
      /\ n = 8 => w = 64 /\ ~signed
      /\ n = 4 /\ w = 32 => ~signed
    BY Zenon DEF LoadForm
<1>2. Narrows(Narrow(rd, "T3", n, signed, w), rd, y,
              Extended(y % BP(n), ByteBits * n, IF w = 32 THEN H ELSE Bits, signed))
    BY <1>1, Narrowed
<1> QED BY <1>2, Zenon DEF Wide

\* The powers named.
LEMMA PowerFacts ==
  /\ BP(0) = 1 /\ BP(4) = HalfM /\ BP(8) = M /\ HalfM \in Nat \ {0} /\ M \in Nat \ {0}
  /\ \A l \in 0 .. 3 : BP(l) \in Nat \ {0}
<1>1. BP(0) = 1 /\ BP(4) = HalfM /\ BP(8) = M  BY BytePowers
<1>2. HalfM \in Nat \ {0} /\ M \in Nat \ {0}  BY Sizes
<1>3. \A l \in Nat : BP(l) \in Nat \ {0}  BY BytePowers
<1> QED BY <1>1, <1>2, <1>3

\* The rows of a lane within its cell.
LEMMA HotLoads ==
  ASSUME NEW rows, NEW m, NEW z, NEW c, NEW e, Shape(z, c, e), NEW s, s \in [Reg -> Word],
         NEW q, q \in Nat, NEW l, l \in 0 .. 3, NEW n, NEW signed, NEW w, LoadForm(n, signed, w),
         n = 8 => l = 0, n < 8 => l + n <= 4, 4 * q + l + n <= z, NEW rd, Free(rd),
         Hot(rows, m, z, c, s, q, l, HotLoad(rd, n, signed, w))
  PROVE  Finishes(rows, m, z, c, s, rd, Loaded(z, c, 4 * q + l, n, Wide(w), signed))
<1>1. n \in {1, 2, 4, 8} /\ signed \in BOOLEAN  BY Zenon DEF LoadForm
<1>2. n \in 0 .. 8 /\ n \in Nat \ {0}  BY <1>1
<1>3. BP(0) = 1 /\ BP(4) = HalfM /\ BP(8) = M /\ HalfM \in Nat \ {0} /\ M \in Nat \ {0}  BY PowerFacts
<1>4. PICK v : v = Loaded(z, c, 4 * q + l, n, Wide(w), signed)  OBVIOUS
<1>5. PICK hot : hot = HotLoad(rd, n, signed, w)  OBVIOUS
<1>6. Hot(rows, m, z, c, s, q, l, hot)  BY <1>5
<1>7. /\ n = 8 => hot = HotPairRows(rd)
      /\ n = 4 /\ ~signed => hot = <<Load(rd, "T1", 0)>>
      /\ n = 4 /\ signed => hot = <<Load("T3", "T1", 0)>> \o Narrow(rd, "T3", n, signed, w)
      /\ n < 4 => hot = HotShiftRows \o Narrow(rd, "T3", n, signed, w)
  <2>1. HotForms(rd, n, signed, w, hot)  BY <1>1, <1>5, HotLoadRows, Zenon
  <2> QED BY <2>1, Zenon DEF HotForms
<1>8. ASSUME n = 8 PROVE Finishes(rows, m, z, c, s, rd, v)
  <2>1. l = 0 /\ ~signed  BY <1>8, Zenon DEF LoadForm
  <2>2. /\ q <= e /\ q + 1 <= e /\ c[q] \in 0 .. CellMask /\ c[q + 1] \in 0 .. CellMask
        /\ v = Extended((Pair(c[q], c[q + 1]) \div BP(l)) % BP(n), ByteBits * n, Wide(w), signed)
    <3>1. 4 < l + n /\ l + n <= 8 /\ n \in Nat  BY <1>8, <2>1
    <3>2. TwoCell(c, e, q, l, n, Wide(w), signed, v)  BY <1>4, <3>1, LoadedTwo, Zenon
    <3> QED BY <3>2, Zenon DEF TwoCell
  <2>3. Pair(c[q], c[q + 1]) \in Word
    <3>1. PICK b : b = CellAddress(q)  OBVIOUS
    <3>2. Finds(c, b, 0, c[q]) /\ Finds(c, b, CellUnits, c[q + 1])  BY <2>2, <3>1, CellsFind
    <3> QED BY <2>2, <3>2, HotPairIs
  <2>4. v = Pair(c[q], c[q + 1])
    <3>1. PICK y : y = Pair(c[q], c[q + 1]) /\ y \in Nat /\ y < M  BY <2>3, <1>3 DEF Word
    <3>2. (y \div 1) % M = y  BY <1>3, <3>1, RemainderSmall
    <3>3. (y \div BP(l)) % BP(n) = y  BY <1>3, <1>8, <2>1, <3>2
    <3> QED BY <2>1, <2>2, <3>1, <3>3 DEF Extended
  <2>5. hot = HotPairRows(rd)  BY <1>7, <1>8
  <2> QED BY <1>6, <2>2, <2>4, <2>5, HotFinishes
<1>9. ASSUME n < 8
      PROVE  /\ q <= e /\ c[q] \in 0 .. CellMask /\ c[q] \in Word
             /\ v = Extended((c[q] \div BP(l)) % BP(n), ByteBits * n, Wide(w), signed)
  <2>1. /\ q <= e /\ c[q] \in 0 .. CellMask
        /\ v = Extended((c[q] \div BP(l)) % BP(n), ByteBits * n, Wide(w), signed)
    <3>1. l + n <= 4  BY <1>9
    <3>2. OneCell(c, e, q, l, n, Wide(w), signed, v)  BY <1>2, <1>4, <3>1, LoadedOne, Zenon
    <3> QED BY <3>2, Zenon DEF OneCell
  <2> QED BY <2>1, CellIs
<1>10. ASSUME n = 4 PROVE Finishes(rows, m, z, c, s, rd, v)
  <2>1. l = 0 /\ BP(l) = 1 /\ n < 8  BY <1>3, <1>10
  <2>2. PICK x : x = c[q]  OBVIOUS
  <2>3. q <= e /\ x \in Word /\ x \in 0 .. CellMask  BY <1>9, <2>1, <2>2
  <2>4. x \in Nat /\ x < HalfM /\ x \div BP(l) = x  BY <1>3, <2>1, <2>3 DEF CellMask
  <2>5. x % BP(n) = x  BY <1>3, <1>10, <2>4, RemainderSmall
  <2>6. v = Extended(x % BP(n), ByteBits * n, Wide(w), signed)  BY <1>9, <2>1, <2>2, <2>4
  <2>7. ASSUME signed PROVE Finishes(rows, m, z, c, s, rd, v)
    <3>1. PICK S : S = Narrow(rd, "T3", n, signed, w)  OBVIOUS
    <3>2. hot = <<Load("T3", "T1", 0)>> \o S  BY <1>7, <1>10, <2>7, <3>1
    <3>3. Narrows(S, rd, x, v)  BY <2>3, <2>6, <3>1, FormNarrows, Zenon
    <3> QED BY <1>6, <2>2, <2>3, <3>2, <3>3, HotFinishes
  <2>8. ASSUME ~signed PROVE Finishes(rows, m, z, c, s, rd, v)
      BY <2>5, <2>6, <2>8, <1>7, <1>10, <1>6, <2>2, <2>3, HotFinishes DEF Extended
  <2> QED BY <2>7, <2>8
<1>11. ASSUME n < 4 PROVE Finishes(rows, m, z, c, s, rd, v)
  <2>1. n < 8  BY <1>2, <1>11
  <2>2. PICK x, y : x = c[q] /\ y = x \div BP(l)  OBVIOUS
  <2>3. q <= e /\ x \in Word  BY <1>9, <2>1, <2>2
  <2>4. y \in Word  BY <2>2, <2>3, LaneWords
  <2>5. v = Extended(y % BP(n), ByteBits * n, Wide(w), signed)  BY <1>9, <2>1, <2>2
  <2>6. PICK S : S = Narrow(rd, "T3", n, signed, w)  OBVIOUS
  <2>7. hot = HotShiftRows \o S  BY <1>7, <1>11, <2>6
  <2>8. Narrows(S, rd, y, v)  BY <2>4, <2>5, <2>6, FormNarrows, Zenon
  <2> QED BY <1>6, <2>2, <2>3, <2>7, <2>8, HotFinishes
<1>12. n = 8 \/ n = 4 \/ n < 4  BY <1>1
<1> QED BY <1>4, <1>8, <1>10, <1>11, <1>12, Zenon

\* The cold rows.
ScaleRow == <<AluImm("Mul64", "T2", "T2", ShiftPerLane)>>

ColdTwoRows == <<Load("T3", "T1", 0),
                 AluImm("ShiftRightBitmask", "T4", "T2", 0),
                 Alu("Srl", "T3", "T3", R("T4")),
                 Load("T4", "T1", CellUnits),
                 Const("T0", H),
                 Alu("Sub64", "T0", "T0", R("T2")),
                 AluImm("Pow2", "T0", "T0", 0),
                 Alu("Mul64", "T4", "T4", R("T0")),
                 Alu("Or", "T3", "T3", R("T4"))>>

ColdThreeRows == <<Load("T4", "T1", 2 * CellUnits),
                   Alu("Mul64", "T4", "T4", R("T0")),
                   AluImm("Mul64", "T4", "T4", HalfM),
                   Alu("Or", "T3", "T3", R("T4"))>>

\* The parts of ColdLoad are sequences,
LEMMA ColdSequences ==
  IsSequence(ScaleRow) /\ IsSequence(ColdTwoRows) /\ IsSequence(ColdThreeRows) /\ IsSequence(<<>>)
<1>1. IsSequence(ScaleRow)  BY HasOne, Zenon DEF ScaleRow
<1>2. IsSequence(ColdTwoRows)  BY HasNine DEF ColdTwoRows
<1>3. IsSequence(ColdThreeRows)  BY HasFour, Zenon DEF ColdThreeRows
<1> QED BY <1>1, <1>2, <1>3, HasNone, Zenon

ColdForms(n, S, cold) ==
    /\ n = 8 => cold = ScaleRow \o ColdTwoRows \o ColdThreeRows \o S
    /\ n # 8 => cold = ScaleRow \o ColdTwoRows \o <<>> \o S

\* and ColdLoad is made of them.
LEMMA ColdLoadRows ==
  ASSUME NEW n, NEW rd, NEW signed, NEW w, NEW cold, cold = ColdLoad(rd, n, signed, w),
         NEW S, S = Narrow(rd, "T3", n, signed, w)
  PROVE  ColdForms(n, S, cold)
<1> QED BY Zenon DEF ColdLoad, LaneShift, ScaleRow, ColdTwoRows, ColdThreeRows, ColdForms

\* To row k, with y in T3 and the power of the rest of the cell in T0.
Shifts(rows, m, k, z, c, s, a, b, d, y) == \E f : Comes(rows, m, k, z, c, s, a, b, d, y, f)

\* The first two cells,
LEMMA ColdStart ==
  ASSUME NEW rows, NEW m, NEW p, p \in Nat, NEW z, NEW c, NEW s, s \in [Reg -> Word], s["ZERO"] = 0,
         NEW l, l \in 1 .. 3, NEW a, NEW b, NEW f, NEW g, Comes(rows, m, p, z, c, s, a, b, 2 * l, f, g),
         NEW x, Finds(c, b, 0, x), x \in 0 .. CellMask,
         NEW y, Finds(c, b, CellUnits, y), y \in 0 .. CellMask,
         NEW u, NEW t, NEW r, Lanes(l, u, t, r), NEW v, v = Pair(x, y) \div u,
         NEW U, U = ScaleRow \o ColdTwoRows, Has(rows, p, U), NEW n, n = p + Len(U),
         NEW d, d = ByteBits * l
  PROVE  v \in Word /\ Shifts(rows, m, n, z, c, s, t, b, d, v)
<1>1. PICK T, S : T = ScaleRow /\ S = ColdTwoRows  OBVIOUS
<1>2. IsSequence(T) /\ IsSequence(S) /\ U = T \o S  BY <1>1, ColdSequences
<1>3. Consecutive(rows, p, T, S, n)  BY <1>2, Consecutively, Zenon
<1>4. PICK k : k \in Nat /\ k = p + Len(T) /\ n = k + Len(S) /\ Has(rows, p, T) /\ Has(rows, k, S)
    BY <1>3, Zenon DEF Consecutive
<1>5. ScaleWords(a, b, 2 * l, f, g, d)
  <2>1. l \in 0 .. 3 /\ u = BP(l)  BY DEF Lanes
  <2>2. Evaluate("Mul64", 2 * l, ShiftPerLane) = d /\ d \in Word  BY <2>1, LaneWords, Zenon
  <2> QED BY <2>2 DEF ScaleWords
<1>6. Comes(rows, m, k, z, c, s, a, b, d, f, g)  BY <1>1, <1>4, <1>5, Scale, Zenon DEF ScaleRow
<1>7. v \in Word /\ \E h, i, j, o : ColdTwoWords(z, c, a, b, d, f, g, x, h, x \div u, y, i, j, t, o, v)
    BY ColdTwoIs, Zenon
<1>8. PICK h, i, j, o : ColdTwoWords(z, c, a, b, d, f, g, x, h, x \div u, y, i, j, t, o, v)  BY <1>7, Zenon
<1>9. Comes(rows, m, n, z, c, s, t, b, d, v, o)  BY <1>1, <1>4, <1>6, <1>8, ColdTwo, Zenon DEF ColdTwoRows
<1> QED BY <1>7, <1>9, Zenon DEF Shifts

\* the third,
ThirdCell(l, x, y, u, t, r, e, v, w) ==
    /\ l \in 1 .. 3 /\ x \in 0 .. CellMask /\ y \in 0 .. CellMask /\ Lanes(l, u, t, r)
    /\ e = Pair(x, y) \div u /\ v \in 0 .. CellMask /\ w = (Pair(x, Pair(y, v)) \div u) % M

\* The rows from p to n.
Placed(rows, p, t, n) == Has(rows, p, t) /\ n = p + Len(t)

\* The third cell's rows run.
LEMMA ColdNext ==
  ASSUME NEW rows, NEW m, NEW p, p \in Nat, NEW z, NEW c, NEW s, s \in [Reg -> Word],
         NEW l, NEW b, NEW d, NEW e, NEW x, NEW y, NEW u, NEW t, NEW r, NEW v, NEW w,
         ThirdCell(l, x, y, u, t, r, e, v, w), Shifts(rows, m, p, z, c, s, t, b, d, e),
         Finds(c, b, 2 * CellUnits, v), NEW U, U = ColdThreeRows, NEW n, Placed(rows, p, U, n)
  PROVE  Shifts(rows, m, n, z, c, s, t, b, d, w)
<1>5. Has(rows, p, U) /\ n = p + Len(U)  BY Zenon DEF Placed
<1>1. PICK f : Comes(rows, m, p, z, c, s, t, b, d, e, f)  BY Zenon DEF Shifts
<1>2. w \in Word /\ \E g, h : ColdThreeWords(z, c, t, b, d, e, f, v, g, h, w)
    BY ColdThreeIs, Zenon DEF ThirdCell
<1>3. PICK g, h : ColdThreeWords(z, c, t, b, d, e, f, v, g, h, w)  BY <1>2, Zenon
<1>4. Comes(rows, m, n, z, c, s, t, b, d, w, h)  BY <1>1, <1>3, <1>5, ColdThree, Zenon DEF ColdThreeRows
<1> QED BY <1>4, Zenon DEF Shifts

\* and the narrowing and jump.
LEMMA ColdEnd ==
  ASSUME NEW rows, NEW m, NEW p, p \in Nat, NEW z, NEW c, NEW s, s \in [Reg -> Word],
         NEW a, NEW b, NEW d, NEW e, Shifts(rows, m, p, z, c, s, a, b, d, e),
         NEW rd, Free(rd), NEW S, NEW v, Narrows(S, rd, e, v),
         Has(rows, p, S), NEW n, n = p + Len(S), NEW j, rows[n] = Jump(j), rows[j] = Rejoin
  PROVE  Finishes(rows, m, z, c, s, rd, v)
<1>1. PICK f : Comes(rows, m, p, z, c, s, a, b, d, e, f)  BY Zenon DEF Shifts
<1>2. Gives(rows, m, n, z, c, s, rd, v, b, d, e, f)  BY <1>1, NarrowsGive, Zenon
<1> QED BY <1>2, GivesJumps, Zenon

\* Two cells,
LEMMA ColdTwoLoads ==
  ASSUME NEW rows, NEW m, NEW z, NEW c, NEW s, s \in [Reg -> Word], s["ZERO"] = 0,
         NEW q, NEW l, l \in 1 .. 3, NEW cold, Cold(rows, m, z, c, s, q, l, cold), NEW b,
         b = CellAddress(q),
         NEW x, Finds(c, b, 0, x), x \in 0 .. CellMask,
         NEW y, Finds(c, b, CellUnits, y), y \in 0 .. CellMask,
         NEW u, NEW t, NEW r, Lanes(l, u, t, r), NEW v, v = Pair(x, y) \div u,
         NEW rd, Free(rd), NEW S, NEW w, Narrows(S, rd, v, w),
         NEW X, X = <<>>, cold = ScaleRow \o ColdTwoRows \o X \o S
  PROVE  Finishes(rows, m, z, c, s, rd, w)
<1>1. PICK p, a, f, g, j : /\ p \in Nat /\ Comes(rows, m, p, z, c, s, a, CellAddress(q), 2 * l, f, g)
                           /\ Has(rows, p, cold) /\ rows[p + Len(cold)] = Jump(j) /\ rows[j] = Rejoin
    BY Zenon DEF Cold
<1>2. PICK n, d : n = p + Len(cold) /\ d = ByteBits * l  OBVIOUS
<1>3. IsSequence(X) /\ Len(X) = 0 /\ IsSequence(S)  BY NarrowsSequence, HasNone
<1>9. PICK U : U = ScaleRow \o ColdTwoRows  OBVIOUS
<1>10. Triple(rows, p, U, X, S, n)  BY <1>9, ColdSequences, JoinIs, <1>1, <1>2, <1>3, Tripled
<1>4. PICK i, k : /\ i \in Nat /\ k \in Nat
                  /\ i = p + Len(U) /\ k = i + Len(X) /\ n = k + Len(S)
                  /\ Has(rows, p, U) /\ Has(rows, i, X) /\ Has(rows, k, S)
    BY <1>10, Zenon DEF Triple
<1>5. Comes(rows, m, p, z, c, s, a, b, 2 * l, f, g)  BY <1>1, Zenon
<1>6. Shifts(rows, m, i, z, c, s, t, b, d, v)  BY <1>1, <1>2, <1>4, <1>5, <1>9, ColdStart, Zenon
<1>7. i = k  BY <1>3, <1>4
<1>8. Shifts(rows, m, k, z, c, s, t, b, d, v) /\ rows[n] = Jump(j)  BY <1>1, <1>2, <1>6, <1>7, Zenon
<1> QED BY <1>1, <1>4, <1>8, ColdEnd, Zenon

\* and three.
LEMMA ColdThreeLoads ==
  ASSUME NEW rows, NEW m, NEW z, NEW c, NEW s, s \in [Reg -> Word], s["ZERO"] = 0,
         NEW q, NEW l, l \in 1 .. 3, NEW cold, Cold(rows, m, z, c, s, q, l, cold), NEW b,
         b = CellAddress(q),
         NEW x, Finds(c, b, 0, x), x \in 0 .. CellMask,
         NEW y, Finds(c, b, CellUnits, y), y \in 0 .. CellMask,
         NEW h, Finds(c, b, 2 * CellUnits, h), h \in 0 .. CellMask,
         NEW u, NEW t, NEW r, Lanes(l, u, t, r), NEW v, v = (Pair(x, Pair(y, h)) \div u) % M,
         NEW rd, Free(rd), NEW S, NEW w, Narrows(S, rd, v, w),
         NEW X, X = ColdThreeRows, cold = ScaleRow \o ColdTwoRows \o X \o S
  PROVE  Finishes(rows, m, z, c, s, rd, w)
<1>1. PICK p, a, f, g, j : /\ p \in Nat /\ Comes(rows, m, p, z, c, s, a, CellAddress(q), 2 * l, f, g)
                           /\ Has(rows, p, cold) /\ rows[p + Len(cold)] = Jump(j) /\ rows[j] = Rejoin
    BY Zenon DEF Cold
<1>2. PICK n, d, e : n = p + Len(cold) /\ d = ByteBits * l /\ e = Pair(x, y) \div u  OBVIOUS
<1>3. IsSequence(X) /\ IsSequence(S)  BY NarrowsSequence, ColdSequences, Zenon
<1>9. PICK U : U = ScaleRow \o ColdTwoRows  OBVIOUS
<1>10. Triple(rows, p, U, X, S, n)  BY <1>9, ColdSequences, JoinIs, <1>1, <1>2, <1>3, Tripled
<1>4. PICK i, k : /\ i \in Nat /\ k \in Nat
                  /\ i = p + Len(U) /\ k = i + Len(X) /\ n = k + Len(S)
                  /\ Has(rows, p, U) /\ Has(rows, i, X) /\ Has(rows, k, S)
    BY <1>10, Zenon DEF Triple
<1>5. Comes(rows, m, p, z, c, s, a, b, 2 * l, f, g)  BY <1>1, Zenon
<1>6. Shifts(rows, m, i, z, c, s, t, b, d, e)  BY <1>1, <1>2, <1>4, <1>5, <1>9, ColdStart, Zenon
<1>7. Shifts(rows, m, k, z, c, s, t, b, d, v)
  <2>1. ThirdCell(l, x, y, u, t, r, e, h, v)  BY <1>2, Zenon DEF ThirdCell
  <2>2. i \in Nat /\ Placed(rows, i, X, k)  BY <1>4, Zenon DEF Placed
  <2> QED BY <1>6, <2>1, <2>2, ColdNext
<1>8. rows[n] = Jump(j)  BY <1>1, <1>2
<1> QED BY <1>1, <1>4, <1>7, <1>8, ColdEnd, Zenon

\* ColdLoad loads what wasm does.
LEMMA ColdLoads ==
  ASSUME NEW rows, NEW m, NEW z, NEW c, NEW e, Shape(z, c, e), NEW s, s \in [Reg -> Word], s["ZERO"] = 0,
         NEW q, q \in Nat, NEW l, l \in 1 .. 3, NEW n, NEW signed, NEW w, LoadForm(n, signed, w),
         Crosses(n, l), 4 * q + l + n <= z, NEW rd, Free(rd),
         Cold(rows, m, z, c, s, q, l, ColdLoad(rd, n, signed, w))
  PROVE  Finishes(rows, m, z, c, s, rd, Loaded(z, c, 4 * q + l, n, Wide(w), signed))
<1>1. n \in {1, 2, 4, 8} /\ l \in 0 .. 3 /\ n \in Nat  BY DEF LoadForm
<1>2. PICK v, b, cold, S : /\ v = Loaded(z, c, 4 * q + l, n, Wide(w), signed) /\ b = CellAddress(q)
                           /\ cold = ColdLoad(rd, n, signed, w) /\ S = Narrow(rd, "T3", n, signed, w)
    OBVIOUS
<1>3. Cold(rows, m, z, c, s, q, l, cold)  BY <1>2
<1>4. PICK u, t, r : Lanes(l, u, t, r) /\ u = BP(l)
  <2>1. \E u, t, r : Lanes(l, u, t, r)  BY LanePowers
  <2>2. PICK u, t, r : Lanes(l, u, t, r)  BY <2>1, Zenon
  <2>3. u = BP(l)  BY <2>2, Zenon DEF Lanes
  <2> QED BY <2>2, <2>3
<1>5. /\ n = 8 => cold = ScaleRow \o ColdTwoRows \o ColdThreeRows \o S
      /\ n # 8 => cold = ScaleRow \o ColdTwoRows \o <<>> \o S
  <2>1. ColdForms(n, S, cold)  BY <1>2, ColdLoadRows, Zenon
  <2> QED BY <2>1, Zenon DEF ColdForms
<1>6. ASSUME n # 8 PROVE Finishes(rows, m, z, c, s, rd, v)
  <2>1. 4 < l + n /\ l + n <= 8  BY <1>1, <1>6 DEF Crosses
  <2>2. TwoCell(c, e, q, l, n, Wide(w), signed, v)  BY <1>1, <1>2, <2>1, LoadedTwo, Zenon
  <2>3. PICK x, y : x = c[q] /\ y = c[q + 1]  OBVIOUS
  <2>4. /\ Finds(c, b, 0, x) /\ x \in 0 .. CellMask /\ Finds(c, b, CellUnits, y) /\ y \in 0 .. CellMask
        /\ v = Extended((Pair(x, y) \div u) % BP(n), ByteBits * n, Wide(w), signed)
      BY <1>4, <2>2, <2>3, <1>2, CellsFind, Zenon DEF TwoCell
  <2>5. PICK o, X : o = Pair(x, y) \div u /\ X = <<>>  OBVIOUS
  <2>6. o \in Word
    <3>1. PICK d, a : d = ByteBits * l /\ a = 0  OBVIOUS
    <3> QED BY <1>4, <2>4, <2>5, <3>1, ColdTwoIs, Zenon
  <2>7. v = Extended(o % BP(n), ByteBits * n, Wide(w), signed)  BY <2>4, <2>5, Zenon
  <2>8. Narrows(S, rd, o, v)  BY <1>2, <2>6, <2>7, FormNarrows, Zenon
  <2>9. cold = ScaleRow \o ColdTwoRows \o X \o S  BY <1>5, <1>6, <2>5, Zenon
  <2> QED BY <1>2, <1>3, <1>4, <2>4, <2>5, <2>8, <2>9, ColdTwoLoads, Zenon
<1>7. ASSUME n = 8 PROVE Finishes(rows, m, z, c, s, rd, v)
  <2>1. 8 < l + n /\ l + n <= 12  BY <1>1, <1>7
  <2>2. ThreeCell(c, e, q, l, n, Wide(w), signed, v)  BY <1>1, <1>2, <2>1, LoadedThree, Zenon
  <2>3. PICK x, y, h : x = c[q] /\ y = c[q + 1] /\ h = c[q + 2]  OBVIOUS
  <2>4. /\ q <= e /\ q + 1 <= e /\ q + 2 <= e
        /\ v = Extended((Pair(x, Pair(y, h)) \div u) % BP(n), ByteBits * n, Wide(w), signed)
      BY <1>4, <2>2, <2>3, Zenon DEF ThreeCell
  <2>5. /\ Finds(c, b, 0, x) /\ x \in 0 .. CellMask
        /\ Finds(c, b, CellUnits, y) /\ y \in 0 .. CellMask
        /\ Finds(c, b, 2 * CellUnits, h) /\ h \in 0 .. CellMask
      BY <1>2, <2>3, <2>4, CellsFind, Zenon
  <2>6. PICK o, X : o = (Pair(x, Pair(y, h)) \div u) % M /\ X = ColdThreeRows  OBVIOUS
  <2>7. o \in Word
    <3>1. PICK d, a, i : d = ByteBits * l /\ a = 0 /\ i = Pair(x, y) \div u  OBVIOUS
    <3> QED BY <1>4, <2>5, <2>6, <3>1, ColdThreeIs, Zenon
  <2>8. o % BP(n) = o /\ o = (Pair(x, Pair(y, h)) \div u) % BP(n)
      BY <1>7, PowerFacts, <2>7, RemainderSmall, <2>6 DEF Word
  <2>9. v = Extended(o % BP(n), ByteBits * n, Wide(w), signed)  BY <2>4, <2>8, Zenon
  <2>10. Narrows(S, rd, o, v)  BY <1>2, <2>7, <2>9, FormNarrows, Zenon
  <2>11. cold = ScaleRow \o ColdTwoRows \o X \o S  BY <1>5, <1>7, <2>6, Zenon
  <2> QED BY <1>2, <1>3, <1>4, <2>5, <2>6, <2>10, <2>11, ColdThreeLoads, Zenon
<1> QED BY <1>2, <1>6, <1>7, Zenon

\* The address rows come first.
LEMMA AddressFirst ==
  ASSUME NEW address, NEW hot, NEW cold, IsSequence(address), IsSequence(hot), IsSequence(cold),
         Len(address) = 5,
         NEW n, NEW rows, rows = WithCold(address, n, hot, cold)
  PROVE  Has(rows, 1, address)
<1>1. ASSUME n = 1 PROVE Has(rows, 1, address)  BY <1>1, HotLayout, Zenon DEF WithCold, Straight
<1>2. ASSUME n # 1 PROVE Has(rows, 1, address)
  <2>1. PICK T : T = IF n = 2 THEN <<Const("T4", 5)>> ELSE <<>>  OBVIOUS
  <2>2. PICK k : k = Len(address) + Len(T) + 1 + Len(hot) + 1  OBVIOUS
  <2>3. PICK B, J : /\ B = IF n = 2 THEN Branch("LtU", "T4", "T2", k + 1) ELSE BranchIfNonzero("T2", k + 1)
                    /\ J = Jump(k)
      OBVIOUS
  <2>4. rows = address \o T \o <<B>> \o hot \o <<Rejoin>> \o cold \o <<J>>
      BY <1>2, <2>1, <2>2, <2>3, Zenon DEF WithCold
  <2>5. IsSequence(T)  BY <2>1, HasOne, HasNone
  <2>6. Layout(rows, k, address, T, hot, cold, B, Rejoin, J)  BY <2>2, <2>4, <2>5, ColdLayout, Zenon
  <2> QED BY <2>6, Zenon DEF Layout
<1> QED BY <1>1, <1>2

\* emit_address is five rows.
LEMMA AddressRows ==
  \A addr, offset, n : IsSequence(EmitAddress(addr, offset, n)) /\ Len(EmitAddress(addr, offset, n)) = 5
<1> TAKE addr, offset, n
<1>1. \A a1, a2, a3, a4, a5 : IsSequence(<<a1, a2, a3, a4, a5>>) /\ Len(<<a1, a2, a3, a4, a5>>) = 5
    BY HasFive
<1> QED BY <1>1, Zenon DEF EmitAddress

\* Within bounds the rows come to those for the lane.
Reaches(rows, m, z, c, s, r, n, hot, cold) ==
    \E q, l : /\ q \in Nat /\ l \in 0 .. 3 /\ r = 4 * q + l
              /\ InLane(rows, m, z, c, s, q, l, n, hot, cold)

Accessed(rows, m, z, c, s, r, n, hot, cold) ==
    IF r + n <= z THEN Reaches(rows, m, z, c, s, r, n, hot, cold) ELSE Traps(rows, m, z, c)

\* An access enters its hot or cold rows in bounds, and traps out of bounds.
LEMMA Accesses ==
  ASSUME NEW z, NEW c, NEW e, Shape(z, c, e), NEW s, NEW addr, NEW base, NEW offset, NEW n, NEW m, NEW r,
         Access(m, z, c, s, addr, base, offset, n, r),
         NEW hot, NEW cold, IsSequence(hot), IsSequence(cold),
         NEW rows, rows = WithCold(EmitAddress(addr, offset, n), n, hot, cold)
  PROVE  Accessed(rows, m, z, c, s, r, n, hot, cold)
<1>1. PICK address : address = EmitAddress(addr, offset, n)  OBVIOUS
<1>2. IsSequence(address) /\ Len(address) = 5  BY <1>1, AddressRows, Zenon
<1>3. Has(rows, 1, address)  BY <1>1, <1>2, AddressFirst, Zenon
<1>4. r \in Nat /\ r = 4 * (r \div 4) + (r % 4) /\ r \div 4 \in Nat /\ r % 4 \in 0 .. 3  BY DEF Access
<1>5. PICK q, l : q \in Nat /\ l \in 0 .. 3 /\ r = 4 * q + l  BY <1>4, Zenon
<1>6. AddressWorks(rows, m, z, c, s, r, n, q, l)
  <2> QED BY <1>1, <1>3, <1>5, Addressed, Zenon
<1>7. ASSUME r + n <= z PROVE Reaches(rows, m, z, c, s, r, n, hot, cold)
  <2>1. Lands(rows, m, z, c, s, q, l)  BY <1>6, <1>7, Zenon DEF AddressWorks
  <2>2. PICK a, f, g : Comes(rows, m, 6, z, c, s, a, CellAddress(q), 2 * l, f, g)  BY <2>1, Zenon DEF Lands
  <2>3. InLane(rows, m, z, c, s, q, l, n, hot, cold)  BY <1>1, <1>2, <1>5, <2>2, Entered DEF Access
  <2> QED BY <1>5, <2>3, Zenon DEF Reaches
<1>8. ASSUME ~(r + n <= z) PROVE Traps(rows, m, z, c)  BY <1>6, <1>8, Zenon DEF AddressWorks
<1> QED BY <1>7, <1>8, Zenon DEF Accessed

\* The rows of a load are sequences.
LEMMA LoadSequences ==
  ASSUME NEW n, NEW signed, NEW w, LoadForm(n, signed, w), NEW rd
  PROVE  IsSequence(HotLoad(rd, n, signed, w)) /\ IsSequence(ColdLoad(rd, n, signed, w))
<1>1. PICK S : S = Narrow(rd, "T3", n, signed, w)  OBVIOUS
<1>2. IsSequence(S)
  <2>1. PICK y, u : y = 0 /\ u = y % BP(n)  OBVIOUS
  <2>2. y \in Word  BY <2>1, PowerFacts DEF Word
  <2>3. Narrows(S, rd, y, Extended(u, ByteBits * n, Wide(w), signed))  BY <1>1, <2>1, <2>2, FormNarrows, Zenon
  <2> QED BY <2>3, NarrowsSequence, Zenon
<1>3. PICK hot, cold : hot = HotLoad(rd, n, signed, w) /\ cold = ColdLoad(rd, n, signed, w)  OBVIOUS
<1>4. n \in {1, 2, 4, 8} /\ signed \in BOOLEAN  BY Zenon DEF LoadForm
<1>5. HotForms(rd, n, signed, w, hot)  BY <1>3, <1>4, HotLoadRows, Zenon
<1>6. IsSequence(hot)
  <2>1. \A a1 : IsSequence(<<a1>>)  BY HasOne
  <2>2. \A a1, a2, a3, a4 : IsSequence(<<a1, a2, a3, a4>>)  BY HasFour
  <2>3. IsSequence(HotPairRows(rd)) /\ IsSequence(HotShiftRows)  BY <2>2, Zenon DEF HotPairRows, HotShiftRows
  <2>4. PICK T, U : T = <<Load("T3", "T1", 0)>> /\ U = HotShiftRows  OBVIOUS
  <2>5. IsSequence(T \o S) /\ IsSequence(U \o S)  BY <1>2, <2>1, <2>3, <2>4, JoinIs
  <2>6. /\ n = 8 => hot = HotPairRows(rd)
        /\ n = 4 /\ ~signed => hot = <<Load(rd, "T1", 0)>>
        /\ n = 4 /\ signed => hot = T \o S
        /\ n < 4 => hot = U \o S
      BY <1>1, <1>5, <2>4, Zenon DEF HotForms
  <2>7. n = 8 \/ n = 4 \/ n < 4  BY <1>4
  <2> QED BY <2>1, <2>3, <2>5, <2>6, <2>7, Zenon
<1>7. IsSequence(cold)
  <2>1. ColdForms(n, S, cold)  BY <1>1, <1>3, ColdLoadRows, Zenon
  <2>2. PICK A, B, C, D : A = ScaleRow /\ B = ColdTwoRows /\ C = ColdThreeRows /\ D = <<>>  OBVIOUS
  <2>3. IsSequence(A) /\ IsSequence(B) /\ IsSequence(C) /\ IsSequence(D)  BY <2>2, ColdSequences
  <2>4. PICK U : U = A \o B  OBVIOUS
  <2>5. IsSequence(U)  BY <2>3, <2>4, JoinIs, Zenon
  <2>6. PICK V, W : V = U \o C /\ W = U \o D  OBVIOUS
  <2>7. IsSequence(V) /\ IsSequence(W)  BY <2>3, <2>5, <2>6, JoinIs, Zenon
  <2>8. IsSequence(V \o S) /\ IsSequence(W \o S)  BY <1>2, <2>7, JoinIs
  <2>9. cold = V \o S \/ cold = W \o S  BY <2>1, <2>2, <2>4, <2>6, Zenon DEF ColdForms
  <2> QED BY <2>8, <2>9, Zenon
<1> QED BY <1>3, <1>6, <1>7, Zenon

\* What the rows of a load do.
LoadDone(rows, m, z, c, s, r, n, w, signed, rd) ==
    IF r + n <= z THEN Finishes(rows, m, z, c, s, rd, Loaded(z, c, r, n, Wide(w), signed))
    ELSE Traps(rows, m, z, c)

\* A load's rows do what the load does.
LEMMA LoadRuns ==
  ASSUME NEW z, NEW c, NEW e, Shape(z, c, e), NEW s, NEW addr, NEW base, NEW offset, NEW n, NEW m, NEW r,
         Access(m, z, c, s, addr, base, offset, n, r), NEW signed, NEW w, LoadForm(n, signed, w), NEW rd, Free(rd),
         NEW rows, rows = EmitLoad(rd, addr, offset, n, signed, w)
  PROVE  LoadDone(rows, m, z, c, s, r, n, w, signed, rd)
<1>1. PICK hot, cold : hot = HotLoad(rd, n, signed, w) /\ cold = ColdLoad(rd, n, signed, w)  OBVIOUS
<1>2. IsSequence(hot) /\ IsSequence(cold) /\ n \in {1, 2, 4, 8}
  <2>1. n \in {1, 2, 4, 8}  BY Zenon DEF LoadForm
  <2> QED BY <1>1, <2>1, LoadSequences, Zenon
<1>3. rows = WithCold(EmitAddress(addr, offset, n), n, hot, cold)  BY <1>1, Zenon DEF EmitLoad
<1>4. Accessed(rows, m, z, c, s, r, n, hot, cold)  BY <1>2, <1>3, Accesses, Zenon
<1>6. s \in [Reg -> Word] /\ s["ZERO"] = 0  BY Zenon DEF Access
<1>5. ASSUME r + n <= z PROVE Finishes(rows, m, z, c, s, rd, Loaded(z, c, r, n, Wide(w), signed))
  <2>1. Reaches(rows, m, z, c, s, r, n, hot, cold)  BY <1>4, <1>5, Zenon DEF Accessed
  <2>2. PICK q, l : q \in Nat /\ l \in 0 .. 3 /\ r = 4 * q + l /\ InLane(rows, m, z, c, s, q, l, n, hot, cold)
      BY <2>1, Zenon DEF Reaches
  <2>3. 4 * q + l + n <= z  BY <1>5, <2>2, Zenon
  <2>6. PICK v : v = Loaded(z, c, 4 * q + l, n, Wide(w), signed)  OBVIOUS
  <2>4. ASSUME Crosses(n, l) PROVE Finishes(rows, m, z, c, s, rd, v)
      BY <2>2, <2>4, <1>1, <1>6, <2>3, <2>6, ColdLoads, Zenon DEF InLane
  <2>5. ASSUME ~Crosses(n, l) PROVE Finishes(rows, m, z, c, s, rd, v)
      BY <2>2, <2>5, <1>1, <1>6, <2>3, <2>6, HotLoads, Zenon DEF InLane
  <2>7. v = Loaded(z, c, r, n, Wide(w), signed)  BY <2>2, <2>6, Zenon
  <2> QED BY <2>4, <2>5, <2>7, Zenon
<1> QED BY <1>4, <1>5, Zenon DEF Accessed, LoadDone

-----------------------------------------------------------------------------
(* A store: the rows it lays *)

\* Word y put at offset o gives the k bytes from r on those of v from its byte h on.
Lays(z, c, e, b, o, y, r, k, h, v, g) ==
    /\ y \in Word /\ Puts(z, c, b, o, y, g) /\ Shape(z, g, e)
    /\ BytesOf(z, g) = Patched(BytesOf(z, c), r, k, h, v)

\* The place of k bytes at byte t of cell d, b and o leading to it.
Place(e, b, o, d, t, k, r) ==
    /\ d \in Nat /\ d < e /\ t \in Nat /\ k \in Nat /\ t + k <= 4 /\ r = 4 * d + t
    /\ \E q \in Nat, i \in 0 .. 2 : d = q + i /\ b = CellAddress(q) /\ o = CellUnits * i

\* A splice written to a cell lays its bytes.
LEMMA CellLays ==
  ASSUME NEW z, NEW c, NEW e, Shape(z, c, e), NEW b, NEW o, NEW d, NEW t, NEW k, NEW r,
         Place(e, b, o, d, t, k, r),
         NEW h, h \in Nat, NEW v, v \in Nat, NEW w, Window(w, k, h, v),
         NEW y, y = Splice(c[d], ByteBits, t, k, w)
  PROVE  \E g : Lays(z, c, e, b, o, y, r, k, h, v, g)
<1>1. PICK q \in Nat, i \in 0 .. 2 : d = q + i /\ b = CellAddress(q) /\ o = CellUnits * i  BY Zenon DEF Place
<1>2. d \in Nat /\ d < e /\ t \in Nat /\ k \in Nat /\ t + k <= 4 /\ r = 4 * d + t  BY Zenon DEF Place
<1>3. e \in Nat  BY Zenon DEF Shape
<1>4. d \in 0 .. e - 1  BY <1>2, <1>3
<1>5. PICK g : g = [c EXCEPT ![d] = y]  OBVIOUS
<1>6. y \in 0 .. CellMask /\ Shape(z, g, e) /\ BytesOf(z, g) = Patched(BytesOf(z, c), r, k, h, v)
  <2>1. /\ y \in 0 .. CellMask /\ Shape(z, [c EXCEPT ![d] = y], e)
        /\ BytesOf(z, [c EXCEPT ![d] = y]) = Patched(BytesOf(z, c), 4 * d + t, k, h, v)
      BY <1>2, <1>4, PatchCell, SMTT(60)
  <2> QED BY <1>2, <1>5, <2>1, Zenon
<1>7. Puts(z, c, b, o, y, g)  BY <1>1, <1>2, <1>5, <1>6, CellPuts
<1>8. y \in Word  BY <1>6, CellIs
<1> QED BY <1>6, <1>7, <1>8, Zenon DEF Lays

\* A word, cut to a cell if asked to.
Trimmed(truncate, a, u) ==
    /\ u \in Word
    /\ truncate => Evaluate("And", a, CellMask) = u
    /\ ~truncate => u = a

\* The cut row runs, where there is one.
LEMMA TrimRuns ==
  ASSUME NEW rows, NEW m, NEW p, p \in Nat, NEW z, NEW c, NEW s, s \in [Reg -> Word],
         NEW a, NEW b, NEW d, NEW e, NEW f, Comes(rows, m, p, z, c, s, a, b, d, e, f),
         NEW truncate, truncate \in BOOLEAN, NEW u, Trimmed(truncate, a, u),
         NEW X, X = (IF truncate THEN <<AluImm("And", "T0", "T0", CellMask)>> ELSE <<>>),
         Has(rows, p, X), NEW k, k = p + Len(X)
  PROVE  Comes(rows, m, k, z, c, s, u, b, d, e, f)
<1>1. CASE truncate  BY <1>1, Cut, Zenon DEF Trimmed, CutWords
<1>2. CASE ~truncate  BY <1>2, HasNone DEF Trimmed
<1> QED BY <1>1, <1>2

\* The words of a replacement.
InsertWords(z, c, b, d, val, mask, truncate, y, g) ==
    \E x, p, i, j, h, v, k, o :
        /\ Finds(c, b, 0, x)
        /\ Evaluate("Pow2", d, 0) = p /\ p \in Word
        /\ Evaluate("Add64", 0, mask) = mask /\ mask \in Word
        /\ Evaluate("Mul64", mask, p) = i /\ i \in Word /\ Trimmed(truncate, i, j)
        /\ Evaluate("Andn", x, j) = h /\ h \in Word
        /\ Evaluate("And", val, mask) = v /\ v \in Word
        /\ Evaluate("Mul64", v, p) = k /\ k \in Word /\ Trimmed(truncate, k, o)
        /\ Evaluate("Or", h, o) = y /\ y \in Word /\ Puts(z, c, b, 0, y, g)

\* The rows come to row n with the cells g, the lane in bits in T2.
Puttings(rows, m, n, z, g, s, b, d) == \E a, e, f : Comes(rows, m, n, z, g, s, a, b, d, e, f)

TrimRow(truncate) == IF truncate THEN <<AluImm("And", "T0", "T0", CellMask)>> ELSE <<>>

InsertMaskRows(mask) == <<Load("T3", "T1", 0), AluImm("Pow2", "T4", "T2", 0),
                          Const("T0", mask), Alu("Mul64", "T0", "T0", R("T4"))>>

InsertClearRows(value, mask) == <<Alu("Andn", "T3", "T3", R("T0")),
                                  AluImm("And", "T0", value, mask), Alu("Mul64", "T0", "T0", R("T4"))>>

InsertPutRows == <<Alu("Or", "T3", "T3", R("T0")), Store("T1", "T3", 0)>>

\* The parts of insert are sequences,
LEMMA InsertSequences ==
  \A value, mask : \A truncate \in BOOLEAN :
      /\ IsSequence(TrimRow(truncate)) /\ IsSequence(InsertMaskRows(mask))
      /\ IsSequence(InsertClearRows(value, mask)) /\ IsSequence(InsertPutRows)
<1> TAKE value, mask
<1> TAKE truncate \in BOOLEAN
<1>1. \A a1 : IsSequence(<<a1>>)  BY HasOne
<1>2. \A a1, a2 : IsSequence(<<a1, a2>>)  BY HasTwo
<1>3. \A a1, a2, a3 : IsSequence(<<a1, a2, a3>>)  BY HasThree
<1>4. \A a1, a2, a3, a4 : IsSequence(<<a1, a2, a3, a4>>)  BY HasFour
<1>5. IsSequence(TrimRow(truncate))  BY <1>1, HasNone, Zenon DEF TrimRow
<1>6. IsSequence(InsertMaskRows(mask)) /\ IsSequence(InsertClearRows(value, mask)) /\ IsSequence(InsertPutRows)
    BY <1>2, <1>3, <1>4, Zenon DEF InsertMaskRows, InsertClearRows, InsertPutRows
<1> QED BY <1>5, <1>6

\* The five parts of a replacement's rows.
InsertParts(rows, p, value, mask, truncate, n) ==
    \E i, j, k, o :
        /\ i \in Nat /\ j \in Nat /\ k \in Nat /\ o \in Nat
        /\ Placed(rows, p, InsertMaskRows(mask), i) /\ Placed(rows, i, TrimRow(truncate), j)
        /\ Placed(rows, j, InsertClearRows(value, mask), k) /\ Placed(rows, k, TrimRow(truncate), o)
        /\ Placed(rows, o, InsertPutRows, n)

\* and insert is made of them.
LEMMA InsertSplits ==
  ASSUME NEW value, NEW mask, NEW truncate, truncate \in BOOLEAN, NEW rows, NEW p, p \in Nat,
         NEW W, W = Insert(value, mask, truncate), NEW n, Placed(rows, p, W, n)
  PROVE  InsertParts(rows, p, value, mask, truncate, n) /\ IsSequence(W)
<1>1. PICK A, X, B, C : /\ A = InsertMaskRows(mask) /\ X = TrimRow(truncate)
                        /\ B = InsertClearRows(value, mask) /\ C = InsertPutRows
    OBVIOUS
<1>2. IsSequence(A) /\ IsSequence(X) /\ IsSequence(B) /\ IsSequence(C)  BY <1>1, InsertSequences, Zenon
<1>3. W = A \o X \o B \o X \o C
    BY <1>1, Zenon DEF Insert, InsertMaskRows, TrimRow, InsertClearRows, InsertPutRows
<1>4. PICK U : U = A \o X  OBVIOUS
<1>5. PICK V : V = U \o B \o X  OBVIOUS
<1>6. W = V \o C  BY <1>3, <1>4, <1>5
<1>7. IsSequence(U)  BY <1>2, <1>4, JoinIs, Zenon
<1>8. IsSequence(V)
  <2>1. PICK T : T = U \o B  OBVIOUS
  <2>2. IsSequence(T)  BY <1>2, <1>7, <2>1, JoinIs, Zenon
  <2>3. V = T \o X  BY <1>5, <2>1
  <2> QED BY <1>2, <2>2, <2>3, JoinIs, Zenon
<1>9. Has(rows, p, W) /\ n = p + Len(W)  BY Zenon DEF Placed
<1>10. Consecutive(rows, p, V, C, n)  BY <1>2, <1>6, <1>8, <1>9, Consecutively, Zenon
<1>11. PICK o : o \in Nat /\ o = p + Len(V) /\ n = o + Len(C) /\ Has(rows, p, V) /\ Has(rows, o, C)
    BY <1>10, Zenon DEF Consecutive
<1>12. Triple(rows, p, U, B, X, o)  BY <1>2, <1>5, <1>7, <1>11, Tripled, Zenon
<1>13. PICK j, k : /\ j \in Nat /\ k \in Nat
                   /\ j = p + Len(U) /\ k = j + Len(B) /\ o = k + Len(X)
                   /\ Has(rows, p, U) /\ Has(rows, j, B) /\ Has(rows, k, X)
    BY <1>12, Zenon DEF Triple
<1>14. Consecutive(rows, p, A, X, j)  BY <1>2, <1>4, <1>13, Consecutively, Zenon
<1>15. PICK i : i \in Nat /\ i = p + Len(A) /\ j = i + Len(X) /\ Has(rows, p, A) /\ Has(rows, i, X)
    BY <1>14, Zenon DEF Consecutive
<1>16. /\ Placed(rows, p, A, i) /\ Placed(rows, i, X, j) /\ Placed(rows, j, B, k)
       /\ Placed(rows, k, X, o) /\ Placed(rows, o, C, n)
    BY <1>11, <1>13, <1>15, Zenon DEF Placed
<1>17. InsertParts(rows, p, value, mask, truncate, n)
    BY <1>1, <1>11, <1>13, <1>15, <1>16, Zenon DEF InsertParts
<1>18. IsSequence(W)  BY <1>2, <1>6, <1>8, JoinIs, Zenon
<1> QED BY <1>17, <1>18

\* A store of val from register value.
Holding(s, value, val) == s \in [Reg -> Word] /\ s["ZERO"] = 0 /\ value \in Reg /\ value \notin Temps /\ s[value] = val

\* insert puts the bytes in the cell.
LEMMA InsertRuns ==
  ASSUME NEW rows, NEW m, NEW p, p \in Nat, NEW z, NEW c, NEW s, NEW value, NEW val,
         Holding(s, value, val),
         NEW b, NEW d, Puttings(rows, m, p, z, c, s, b, d), NEW mask, NEW truncate, truncate \in BOOLEAN,
         NEW y, NEW g, InsertWords(z, c, b, d, val, mask, truncate, y, g),
         NEW W, W = Insert(value, mask, truncate), NEW n, Placed(rows, p, W, n)
  PROVE  Puttings(rows, m, n, z, g, s, b, d)
<1>1. PICK a, e, f : Comes(rows, m, p, z, c, s, a, b, d, e, f)  BY Zenon DEF Puttings
<1>2. PICK x, u, i, j, h, v, k, o :
        /\ Finds(c, b, 0, x)
        /\ Evaluate("Pow2", d, 0) = u /\ u \in Word
        /\ Evaluate("Add64", 0, mask) = mask /\ mask \in Word
        /\ Evaluate("Mul64", mask, u) = i /\ i \in Word /\ Trimmed(truncate, i, j)
        /\ Evaluate("Andn", x, j) = h /\ h \in Word
        /\ Evaluate("And", val, mask) = v /\ v \in Word
        /\ Evaluate("Mul64", v, u) = k /\ k \in Word /\ Trimmed(truncate, k, o)
        /\ Evaluate("Or", h, o) = y /\ y \in Word /\ Puts(z, c, b, 0, y, g)
    BY Zenon DEF InsertWords
<1>3. /\ InsertMaskWords(z, c, a, b, d, e, f, mask, x, u, mask, i)
      /\ InsertClearWords(j, b, d, x, u, value, val, mask, h, v, k)
      /\ InsertPutWords(z, c, o, b, d, h, u, y, g)
    BY <1>2, Zenon DEF InsertMaskWords, InsertClearWords, InsertPutWords
<1>4. InsertParts(rows, p, value, mask, truncate, n)  BY InsertSplits, Zenon
<1>5. PICK p1, p2, p3, p4 :
        /\ p1 \in Nat /\ p2 \in Nat /\ p3 \in Nat /\ p4 \in Nat
        /\ Placed(rows, p, InsertMaskRows(mask), p1) /\ Placed(rows, p1, TrimRow(truncate), p2)
        /\ Placed(rows, p2, InsertClearRows(value, mask), p3) /\ Placed(rows, p3, TrimRow(truncate), p4)
        /\ Placed(rows, p4, InsertPutRows, n)
    BY <1>4, Zenon DEF InsertParts
<1>6. s \in [Reg -> Word] /\ s["ZERO"] = 0 /\ value \in Reg /\ value \notin Temps /\ s[value] = val
    BY Zenon DEF Holding
<1>7. Comes(rows, m, p1, z, c, s, i, b, d, x, u)
  <2>1. PICK S : S = InsertMaskRows(mask)  OBVIOUS
  <2>2. Has(rows, p, S) /\ p1 = p + Len(S)  BY <1>5, <2>1, Zenon DEF Placed
  <2>3. S = <<Load("T3", "T1", 0),
                      AluImm("Pow2", "T4", "T2", 0),
                      Const("T0", mask),
                      Alu("Mul64", "T0", "T0", R("T4"))>>
      BY <2>1, Zenon DEF InsertMaskRows
  <2> QED BY <1>1, <1>3, <1>6, <2>2, <2>3, InsertMask, Zenon
<1>8. Comes(rows, m, p2, z, c, s, j, b, d, x, u)
  <2>1. PICK S : S = TrimRow(truncate)  OBVIOUS
  <2>2. Has(rows, p1, S) /\ p2 = p1 + Len(S)  BY <1>5, <2>1, Zenon DEF Placed
  <2>3. S = IF truncate THEN <<AluImm("And", "T0", "T0", CellMask)>> ELSE <<>>  BY <2>1, Zenon DEF TrimRow
  <2> QED BY <1>2, <1>5, <1>6, <1>7, <2>2, <2>3, TrimRuns, Zenon
<1>9. Comes(rows, m, p3, z, c, s, k, b, d, h, u)
  <2>1. PICK S : S = InsertClearRows(value, mask)  OBVIOUS
  <2>2. Has(rows, p2, S) /\ p3 = p2 + Len(S)  BY <1>5, <2>1, Zenon DEF Placed
  <2>3. S = <<Alu("Andn", "T3", "T3", R("T0")),
                      AluImm("And", "T0", value, mask),
                      Alu("Mul64", "T0", "T0", R("T4"))>>
      BY <2>1, Zenon DEF InsertClearRows
  <2> QED BY <1>3, <1>5, <1>6, <1>8, <2>2, <2>3, InsertClear, Zenon
<1>10. Comes(rows, m, p4, z, c, s, o, b, d, h, u)
  <2>1. PICK S : S = TrimRow(truncate)  OBVIOUS
  <2>2. Has(rows, p3, S) /\ p4 = p3 + Len(S)  BY <1>5, <2>1, Zenon DEF Placed
  <2>3. S = IF truncate THEN <<AluImm("And", "T0", "T0", CellMask)>> ELSE <<>>  BY <2>1, Zenon DEF TrimRow
  <2> QED BY <1>2, <1>5, <1>6, <1>9, <2>2, <2>3, TrimRuns, Zenon
<1>11. Comes(rows, m, n, z, g, s, o, b, d, y, u)
  <2>1. PICK S : S = InsertPutRows  OBVIOUS
  <2>2. Has(rows, p4, S) /\ n = p4 + Len(S)  BY <1>5, <2>1, Zenon DEF Placed
  <2>3. S = <<Alu("Or", "T3", "T3", R("T0")),
                      Store("T1", "T3", 0)>>
      BY <2>1, Zenon DEF InsertPutRows
  <2> QED BY <1>3, <1>5, <1>6, <1>10, <2>2, <2>3, InsertPut, Zenon
<1> QED BY <1>11, Zenon DEF Puttings

\* n bytes from byte l of a cell on: as they are, or the k that are in the cell.
LaneCut(truncate, n, l, k) ==
    /\ truncate \in BOOLEAN /\ n \in 0 .. 8 /\ l \in 0 .. 3 /\ k \in 0 .. 4 /\ l + k <= 4
    /\ truncate => k = 4 - l /\ k < n
    /\ ~truncate => k = n

\* What the multiples of the lane's power are cut to.
LEMMA TrimMultiple ==
  ASSUME NEW truncate, NEW n, NEW l, NEW k, LaneCut(truncate, n, l, k), NEW p, p = BP(l), NEW t,
         t = BP(k),
         NEW u, u \in Nat, ~truncate => u < t
  PROVE  MulWrap(u, p) \in Word /\ Trimmed(truncate, MulWrap(u, p), (u % t) * p) /\ (u % t) * p \in Word
<1>1. /\ truncate \in BOOLEAN /\ n \in 0 .. 8 /\ l \in 0 .. 3 /\ k \in 0 .. 4 /\ l + k <= 4
      /\ truncate => k = 4 - l /\ k < n
      /\ ~truncate => k = n
    BY DEF LaneCut
<1>2. p \in Nat \ {0} /\ t \in Nat \ {0}
  <2>1. \A j \in Nat : BP(j) \in Nat \ {0}  BY BytePowers, Zenon
  <2>2. l \in Nat /\ k \in Nat  BY <1>1
  <2> QED BY <2>1, <2>2
<1>3. ASSUME truncate PROVE MulWrap(u, p) \in Word /\ Evaluate("And", MulWrap(u, p), CellMask) = (u % t) * p /\ (u % t) * p \in Word
  <2>1. l \in 0 .. 4 /\ t = BP(4 - l)  BY <1>1, <1>3
  <2>2. PICK p1, q1, r1 \in Nat \ {0} : Lanes(l, p1, q1, r1)  BY <2>1, LanePowers
  <2>3. p1 = p /\ q1 = t  BY <2>1, <2>2 DEF Lanes
  <2>4. MulWrap(u, p) \in Word /\ (MulWrap(u, p) & CellMask) = (u % t) * p /\ (u % t) * p \in Word
      BY <2>1, <2>2, <2>3, CutIs, Zenon
  <2> QED BY <2>4, Evaluates
<1>4. ASSUME ~truncate PROVE MulWrap(u, p) = (u % t) * p /\ (u % t) * p \in Word
  <2>1. u < t /\ u % t = u  BY <1>4, <1>2, RemainderSmall
  <2>2. t * p <= M
    <3>1. k + l \in 0 .. 8 /\ k \in Nat /\ l \in Nat  BY <1>1
    <3>2. BP(k + l) = BP(k) * BP(l)  BY <3>1, BytePowers, Zenon
    <3>3. BP(k + l) <= M  BY <3>1, BytePowers, Zenon
    <3> QED BY <3>2, <3>3
  <2>3. u * p < t * p  BY <1>2, <2>1
  <2>4. u * p < M  BY <1>2, Sizes, <2>2, <2>3
  <2>5. MulWrap(u, p) = u * p /\ u * p \in Word  BY <1>2, <2>4, Fits
  <2> QED BY <2>1, <2>5
<1>5. CASE truncate  BY <1>3, <1>5, Zenon DEF Trimmed
<1>6. CASE ~truncate  BY <1>4, <1>6, Zenon DEF Trimmed
<1> QED BY <1>5, <1>6

\* The mask's bytes and the value's.
LEMMA TrimMask ==
  ASSUME NEW truncate, NEW n, NEW l, NEW k, LaneCut(truncate, n, l, k), NEW t, t = BP(k), NEW val,
         val \in Word
  PROVE  /\ (BP(n) - 1) % t = t - 1 /\ (val % BP(n)) % t = val % t
         /\ BP(n) - 1 \in Nat /\ val % BP(n) \in Nat /\ val % BP(n) < BP(n) /\ (~truncate => BP(n) = t) /\ BP(n) \in Nat
<1>1. n \in 0 .. 8 /\ k \in 0 .. 4 /\ k <= n /\ (~truncate => k = n)  BY DEF LaneCut
<1>2. n - k \in Nat /\ n = (n - k) + k /\ k \in Nat /\ n \in Nat  BY <1>1
<1>3. PICK o : o = BP(n - k)  OBVIOUS
<1>4. o \in Nat \ {0} /\ t \in Nat \ {0} /\ BP(n) = o * t /\ BP(n) \in Nat \ {0}
    BY <1>2, <1>3, BytePowers
<1>5. val \in Nat  BY DEF Word
<1>6. BP(n) = t * o  BY <1>4
<1>7. (BP(n) - 1) % t = t - 1  BY <1>4, <1>6, OnesShift
<1>8. (val % BP(n)) % t = val % t
  <2>1. val \in Int  BY <1>5
  <2>2. (val % (t * o)) % t = val % t  BY <1>4, <2>1, RemainderTwice, Zenon
  <2> QED BY <1>6, <2>2, Zenon
<1> QED BY <1>1, <1>4, <1>5, <1>7, <1>8

\* The words that put a value's bytes in a lane.
LEMMA InsertIs ==
  ASSUME NEW truncate, NEW n, NEW l, NEW k, LaneCut(truncate, n, l, k),
         NEW z, NEW c, NEW e, Shape(z, c, e), NEW q, q \in Nat, q < e, NEW b, b = CellAddress(q),
         NEW d, d = ByteBits * l, NEW val, val \in Word, NEW mask, mask = ByteMask(n), NEW r,
         r = 4 * q + l
  PROVE  \E y, g : /\ InsertWords(z, c, b, d, val, mask, truncate, y, g)
                   /\ Lays(z, c, e, b, 0, y, r, k, 0, val, g)
<1>1. n \in 0 .. 8 /\ l \in 0 .. 3 /\ k \in 0 .. 4 /\ l + k <= 4 /\ l \in Nat /\ k \in Nat  BY DEF LaneCut
<1>2. PICK p, t, x, w : p = BP(l) /\ t = BP(k) /\ x = c[q] /\ w = val % t  OBVIOUS
<1>3. e \in Nat /\ q <= e /\ q + 0 <= e  BY DEF Shape
<1>4. Finds(c, b, 0, x) /\ x \in 0 .. CellMask /\ x \in Word  BY <1>2, <1>3, CellsFind, CellIs
<1>5. Evaluate("Pow2", d, 0) = p /\ p \in Word /\ p \in Nat \ {0}  BY <1>1, <1>2, LaneWords
<1>6. /\ mask = BP(n) - 1 /\ mask \in Word /\ mask \in Nat
      /\ (val & mask) = val % BP(n) /\ val % BP(n) \in Word
    BY <1>1, ByteMasks
<1>7. Evaluate("Add64", 0, mask) = mask  BY Evaluates, <1>6, Sizes, RemainderSmall DEF Word
<1>8. /\ mask % t = t - 1 /\ (val % BP(n)) % t = w
      /\ (~truncate => mask < t) /\ (~truncate => val % BP(n) < t) /\ val % BP(n) \in Nat
    BY <1>2, TrimMask, <1>6
<1>9. PICK i, j, u, v, o : i = MulWrap(mask, p) /\ j = (t - 1) * p /\ u = val % BP(n) /\ v = MulWrap(u, p) /\ o = w * p
    OBVIOUS
<1>10. i \in Word /\ Trimmed(truncate, i, j)  BY <1>2, <1>6, <1>8, <1>9, TrimMultiple
<1>11. v \in Word /\ Trimmed(truncate, v, o)  BY <1>8, <1>9, <1>2, TrimMultiple
<1>12. w \in 0 .. t - 1 /\ Window(w, k, 0, val) /\ val \in Nat /\ w \in 0 .. BP(k) - 1
    BY <1>1, WindowLow, <1>2 DEF Word
<1>13. PICK h, y : h = (x & (M - 1 - j)) /\ y = Splice(x, ByteBits, l, k, w)  OBVIOUS
<1>14. h \in Word /\ (h | o) = y  BY <1>1, <1>4, <1>12, SpliceWords, <1>2, <1>9, <1>13
<1>15. Place(e, b, 0, q, l, k, r)  BY <1>1 DEF CellUnits, Place
<1>16. PICK g : Lays(z, c, e, b, 0, y, r, k, 0, val, g)  BY <1>2, <1>13, <1>12, <1>15, CellLays
<1>17. y \in Word /\ Puts(z, c, b, 0, y, g)  BY <1>16, Zenon DEF Lays
<1>18. /\ Evaluate("Mul64", mask, p) = i /\ Evaluate("Andn", x, j) = h /\ Evaluate("And", val, mask) = u /\ u \in Word
       /\ Evaluate("Mul64", u, p) = v /\ Evaluate("Or", h, o) = y
    BY <1>6, <1>9, <1>13, <1>14, Evaluates
<1>19. InsertWords(z, c, b, d, val, mask, truncate, y, g)
    BY <1>4, <1>5, <1>6, <1>7, <1>10, <1>11, <1>14, <1>17, <1>18, Zenon DEF InsertWords
<1> QED BY <1>16, <1>19, Zenon

\* The rows come to their end with the cells g.
Leaves(rows, m, z, g, s) ==
    \E k, a, b, d, e, f : Comes(rows, m, k, z, g, s, a, b, d, e, f) /\ rows[k] = Rejoin

\* They store the n bytes of v from byte r on.
Stores(rows, m, z, c, e, s, r, n, v) ==
    \E g : /\ Shape(z, g, e) /\ BytesOf(z, g) = Patched(BytesOf(z, c), r, n, 0, v)
           /\ Leaves(rows, m, z, g, s)

\* The forms of a store that the code emits.
StoreForm(n, wide, val) ==
    /\ n \in {1, 2, 4, 8} /\ wide \in BOOLEAN /\ val \in Word
    /\ n = 8 => wide
    /\ ~wide => val < HalfM

\* The lane scaled to bits.
LEMMA Scaled ==
  ASSUME NEW rows, NEW m, NEW p, p \in Nat, NEW z, NEW c, NEW s, s \in [Reg -> Word],
         NEW l, l \in 0 .. 3, NEW a, NEW b, NEW e, NEW f, Comes(rows, m, p, z, c, s, a, b, 2 * l, e, f),
         NEW d, d = ByteBits * l, NEW n, Placed(rows, p, ScaleRow, n)
  PROVE  Puttings(rows, m, n, z, c, s, b, d)
<1>1. PICK S : S = ScaleRow  OBVIOUS
<1>2. Has(rows, p, S) /\ n = p + Len(S)  BY <1>1, Zenon DEF Placed
<1>3. ScaleWords(a, b, 2 * l, e, f, d)
  <2>1. PICK u : u = BP(l)  OBVIOUS
  <2>2. Evaluate("Mul64", 2 * l, ShiftPerLane) = d /\ d \in Word  BY <2>1, LaneWords, Zenon
  <2> QED BY <2>2 DEF ScaleWords
<1>4. Comes(rows, m, n, z, c, s, a, b, d, e, f)  BY <1>1, <1>2, <1>3, Scale, Zenon DEF ScaleRow
<1> QED BY <1>4, Zenon DEF Puttings

\* A lane within a cell.
LEMMA HotLane ==
  ASSUME NEW rows, NEW m, NEW z, NEW c, NEW e, Shape(z, c, e), NEW s, NEW value, NEW val,
         Holding(s, value, val), val \in Word,
         NEW q, q \in Nat, q < e, NEW l, NEW n, LaneCut(FALSE, n, l, n), NEW r, r = 4 * q + l,
         NEW hot, hot = LaneShift(Insert(value, ByteMask(n), FALSE)), Hot(rows, m, z, c, s, q, l, hot)
  PROVE  Stores(rows, m, z, c, e, s, r, n, val)
<1>1. PICK p, a, f, g : /\ p \in Nat /\ Comes(rows, m, p, z, c, s, a, CellAddress(q), 2 * l, f, g)
                        /\ Has(rows, p, hot) /\ rows[p + Len(hot)] = Rejoin
    BY Zenon DEF Hot
<1>2. PICK b, d, k, mask, S, T :
        /\ b = CellAddress(q) /\ d = ByteBits * l /\ k = p + Len(hot) /\ mask = ByteMask(n)
        /\ S = ScaleRow /\ T = Insert(value, mask, FALSE)
    OBVIOUS
<1>3. hot = S \o T  BY <1>2, Zenon DEF LaneShift, ScaleRow
<1>4. IsSequence(S) /\ IsSequence(T)
  <2>1. PICK x : Has(x, 1, T)  BY DEF Has
  <2>2. PICK j : j = 1 + Len(T)  OBVIOUS
  <2>3. Placed(x, 1, T, j) /\ 1 \in Nat /\ FALSE \in BOOLEAN  BY <2>1, <2>2 DEF Placed
  <2>4. IsSequence(T)  BY <1>2, <2>3, InsertSplits, Zenon
  <2> QED BY <1>2, <2>4, ColdSequences, Zenon
<1>5. Consecutive(rows, p, S, T, k)  BY <1>1, <1>2, <1>3, <1>4, Consecutively, Zenon
<1>6. PICK i : i \in Nat /\ Placed(rows, p, S, i) /\ Placed(rows, i, T, k)
    BY <1>5, Zenon DEF Consecutive, Placed
<1>7. s \in [Reg -> Word]  BY Zenon DEF Holding
<1>8. l \in 0 .. 3  BY Zenon DEF LaneCut
<1>9. Puttings(rows, m, i, z, c, s, b, d)  BY <1>1, <1>2, <1>6, <1>7, <1>8, Scaled, Zenon
<1>10. PICK y, h : InsertWords(z, c, b, d, val, mask, FALSE, y, h) /\ Lays(z, c, e, b, 0, y, r, n, 0, val, h)
    BY <1>2, InsertIs, Zenon
<1>11. Puttings(rows, m, k, z, h, s, b, d)  BY <1>2, <1>6, <1>9, <1>10, InsertRuns
<1>12. Leaves(rows, m, z, h, s)  BY <1>1, <1>2, <1>11, Zenon DEF Puttings, Leaves
<1>13. Shape(z, h, e) /\ BytesOf(z, h) = Patched(BytesOf(z, c), r, n, 0, val)  BY <1>10, Zenon DEF Lays
<1> QED BY <1>12, <1>13, Zenon DEF Stores

\* What a whole cell is given.
LEMMA WholeLays ==
  ASSUME NEW z, NEW c, NEW e, Shape(z, c, e), NEW q, q \in Nat, NEW i, i \in 0 .. 2, NEW d,
         d = q + i, d < e,
         NEW b, b = CellAddress(q), NEW o, o = CellUnits * i, NEW r, r = 4 * d,
         NEW h, h \in Nat, NEW v, v \in Nat, NEW w, Window(w, 4, h, v)
  PROVE  \E g : Lays(z, c, e, b, o, w, r, 4, h, v, g)
<1>1. d \in Nat /\ d <= e /\ e \in Nat  BY DEF Shape
<1>2. c[d] \in 0 .. CellMask  BY <1>1 DEF Shape
<1>3. w \in 0 .. BP(4) - 1  BY DEF Window, BP
<1>4. w = Splice(c[d], ByteBits, 0, 4, w)  BY <1>2, <1>3, SpliceWhole
<1>5. Place(e, b, o, d, 0, 4, r)  BY <1>1 DEF Place
<1> QED BY <1>4, <1>5, CellLays, Zenon

\* A whole cell, of a value that fits, of one cut, and two cells.
LEMMA HotWhole ==
  ASSUME NEW rows, NEW m, NEW z, NEW c, NEW e, Shape(z, c, e), NEW s, NEW value, NEW val,
         Holding(s, value, val), val \in Word,
         NEW q, q \in Nat, q < e, NEW hot, Hot(rows, m, z, c, s, q, 0, hot), NEW r, r = 4 * q,
         \/ hot = <<Store("T1", value, 0)>> /\ val < HalfM
         \/ hot = <<AluImm("And", "T3", value, ByteMask(4)), Store("T1", "T3", 0)>>
  PROVE  Stores(rows, m, z, c, e, s, r, 4, val)
<1>1. PICK p, a, d, f, g : /\ p \in Nat /\ Comes(rows, m, p, z, c, s, a, CellAddress(q), d, f, g)
                           /\ Has(rows, p, hot) /\ rows[p + Len(hot)] = Rejoin
    BY Zenon DEF Hot
<1>2. PICK b, k, w : b = CellAddress(q) /\ k = p + Len(hot) /\ w = val % BP(4)  OBVIOUS
<1>3. s \in [Reg -> Word] /\ value \in Reg /\ value \notin Temps /\ s[value] = val  BY Zenon DEF Holding
<1>4. val \in Nat /\ Window(w, 4, 0, val)  BY <1>2, WindowLow DEF Word
<1>5. PICK h : Lays(z, c, e, b, 0, w, r, 4, 0, val, h)
  <2>1. 0 \in 0 .. 2 /\ q = q + 0 /\ 0 = CellUnits * 0 /\ 0 \in Nat  BY DEF CellUnits
  <2> QED BY <1>2, <1>4, <2>1, WholeLays, Zenon
<1>6. w \in Word /\ Puts(z, c, b, 0, w, h) /\ Shape(z, h, e) /\ BytesOf(z, h) = Patched(BytesOf(z, c), r, 4, 0, val)
    BY <1>5, Zenon DEF Lays
<1>7. Comes(rows, m, p, z, c, s, a, b, d, f, g)  BY <1>1, <1>2, Zenon
<1>8. Leaves(rows, m, z, h, s)
  <2>0. rows[k] = Rejoin  BY <1>1, <1>2, Zenon
  <2>1. CASE hot = <<Store("T1", value, 0)>> /\ val < HalfM
    <3>1. w = val  BY <1>2, <1>4, <2>1, PowerFacts, RemainderSmall
    <3>2. HotCellWords(z, c, a, b, d, f, g, value, val, h)  BY <1>6, <3>1, Zenon DEF HotCellWords
    <3>3. Comes(rows, m, k, z, h, s, a, b, d, f, g)  BY <1>1, <1>2, <1>3, <1>7, <2>1, <3>2, HotCell, Zenon
    <3> QED BY <2>0, <3>3, Zenon DEF Leaves
  <2>2. CASE hot = <<AluImm("And", "T3", value, ByteMask(4)), Store("T1", "T3", 0)>>
    <3>1. PICK mask, S : mask = ByteMask(4) /\ S = hot  OBVIOUS
    <3>2. Evaluate("And", val, mask) = w  BY <1>2, <3>1, ByteMasks, Evaluates
    <3>3. HotCutCellWords(z, c, a, b, d, f, g, value, val, mask, w, h)
        BY <1>6, <3>2, Zenon DEF HotCutCellWords
    <3>4. S = <<AluImm("And", "T3", value, mask), Store("T1", "T3", 0)>> /\ Has(rows, p, S) /\ k = p + Len(S)
        BY <1>1, <1>2, <2>2, <3>1, Zenon
    <3>5. p \in Nat  BY <1>1
    <3>6. Comes(rows, m, k, z, h, s, a, b, d, w, g)  BY <1>3, <1>7, <3>3, <3>4, <3>5, HotCutCell, Zenon
    <3> QED BY <2>0, <3>6, Zenon DEF Leaves
  <2> QED BY <2>1, <2>2
<1> QED BY <1>6, <1>8, Zenon DEF Stores

\* The cells g have the bytes of c but for the k from r on, those of v from its byte h on.
Rewrites(z, c, g, r, k, h, v) == BytesOf(z, g) = Patched(BytesOf(z, c), r, k, h, v)

\* One run of bytes after another.
LEMMA RewritesTwice ==
  ASSUME NEW z, NEW c, NEW v, NEW r, NEW k, NEW n, NEW h, NEW x, NEW y, NEW t,
         RowsFollow(r, k, n, h, x, y, t),
         NEW g, Rewrites(z, c, g, r, k, h, v), NEW i, Rewrites(z, g, i, x, n, y, v)
  PROVE  Rewrites(z, c, i, r, t, h, v)
<1>1. PICK a, b, d : a = BytesOf(z, c) /\ b = BytesOf(z, g) /\ d = BytesOf(z, i)  OBVIOUS
<1>2. Indexed(a)  BY <1>1 DEF Indexed, BytesOf
<1>3. Patches(a, r, k, h, v, b) /\ Patches(b, x, n, y, v, d)  BY <1>1, Zenon DEF Rewrites, Patches
<1>4. Patches(a, r, t, h, v, d)  BY <1>2, <1>3, PatchTwice, Zenon
<1> QED BY <1>1, <1>4, Zenon DEF Rewrites, Patches

\* Two whole cells.
LEMMA HotDouble ==
  ASSUME NEW rows, NEW m, NEW z, NEW c, NEW e, Shape(z, c, e), NEW s, NEW value, NEW val,
         Holding(s, value, val), val \in Word,
         NEW q, q \in Nat, q + 1 < e, NEW hot, Hot(rows, m, z, c, s, q, 0, hot), NEW r, r = 4 * q,
         hot = <<AluImm("And", "T3", value, CellMask), Store("T1", "T3", 0),
                  AluImm("Srl", "T3", value, Keep(H)), Store("T1", "T3", CellUnits)>>
  PROVE  Stores(rows, m, z, c, e, s, r, 8, val)
<1>1. PICK p, a, d, f, g : /\ p \in Nat /\ Comes(rows, m, p, z, c, s, a, CellAddress(q), d, f, g)
                           /\ Has(rows, p, hot) /\ rows[p + Len(hot)] = Rejoin
    BY Zenon DEF Hot
<1>2. PICK b, k, u, w, j, o, x, y : /\ b = CellAddress(q) /\ k = p + Len(hot) /\ u = val % BP(4) /\ w = val \div BP(4)
                            /\ j = q + 1 /\ o = CellUnits /\ x = r + 4 /\ y = 4
    OBVIOUS
<1>3. s \in [Reg -> Word] /\ value \in Reg /\ value \notin Temps /\ s[value] = val  BY Zenon DEF Holding
<1>4. val \in Nat /\ Window(u, 4, 0, val)  BY <1>2, WindowLow DEF Word
<1>5. Window(w, 4, y, val)
  <2>1. PICK l : l = 4  OBVIOUS
  <2>2. l \in 0 .. 4 /\ 8 - l = 4  BY <2>1
  <2>3. PICK p1, q1, r1 \in Nat \ {0} : Lanes(l, p1, q1, r1)  BY <2>2, LanePowers
  <2>4. Window(val \div r1, l, 8 - l, val)  BY <2>2, <2>3, WindowTop, Zenon
  <2>5. r1 = BP(8 - l)  BY <2>3, Zenon DEF Lanes
  <2> QED BY <1>2, <2>1, <2>2, <2>4, <2>5
<1>6. e \in Nat /\ q < e /\ j < e  BY <1>2 DEF Shape
<1>7. PICK h : Lays(z, c, e, b, 0, u, r, 4, 0, val, h)
  <2>1. 0 \in 0 .. 2 /\ q = q + 0 /\ 0 = CellUnits * 0 /\ 0 \in Nat  BY DEF CellUnits
  <2> QED BY <1>2, <1>4, <1>6, <2>1, WholeLays, Zenon
<1>8. u \in Word /\ Puts(z, c, b, 0, u, h) /\ Shape(z, h, e) /\ BytesOf(z, h) = Patched(BytesOf(z, c), r, 4, 0, val)
    BY <1>7, Zenon DEF Lays
<1>9. PICK i : Lays(z, h, e, b, o, w, x, 4, y, val, i)
  <2>1. 1 \in 0 .. 2 /\ j = q + 1 /\ o = CellUnits * 1 /\ y \in Nat /\ x = 4 * j  BY <1>2 DEF CellUnits
  <2> QED BY <1>2, <1>4, <1>5, <1>6, <1>8, <2>1, WholeLays, Zenon
<1>10. w \in Word /\ Puts(z, h, b, CellUnits, w, i) /\ Shape(z, i, e) /\ BytesOf(z, i) = Patched(BytesOf(z, h), x, 4, y, val)
    BY <1>2, <1>9, Zenon DEF Lays
<1>11. BytesOf(z, i) = Patched(BytesOf(z, c), r, 8, 0, val)
  <2>1. PICK t, n, l : t = 8 /\ n = 4 /\ l = 0  OBVIOUS
  <2>2. RowsFollow(r, n, n, l, x, y, t)  BY <1>2, <2>1 DEF RowsFollow
  <2>3. Rewrites(z, c, h, r, n, l, val) /\ Rewrites(z, h, i, x, n, y, val)
      BY <1>8, <1>10, <2>1, Zenon DEF Rewrites
  <2>4. Rewrites(z, c, i, r, t, l, val)  BY <2>2, <2>3, RewritesTwice, Zenon
  <2> QED BY <2>1, <2>4, Zenon DEF Rewrites
<1>12. Evaluate("And", val, CellMask) = u  BY <1>2, CellMasks, PowerFacts, Evaluates
<1>13. Evaluate("Srl", val, Keep(H)) = w  BY Sizes, PowerFacts, <1>2, ShiftIs DEF Keep
<1>14. HotCellsWords(z, c, a, b, d, f, g, value, val, u, w, h, i)
    BY <1>8, <1>10, <1>12, <1>13, Zenon DEF HotCellsWords
<1>15. Comes(rows, m, p, z, c, s, a, b, d, f, g)  BY <1>1, <1>2, Zenon
<1>16. Comes(rows, m, k, z, i, s, a, b, d, w, g)  BY <1>1, <1>2, <1>3, <1>14, <1>15, HotCells, Zenon
<1>17. Leaves(rows, m, z, i, s)  BY <1>1, <1>2, <1>16, Zenon DEF Leaves
<1> QED BY <1>10, <1>11, <1>17, Zenon DEF Stores

\* HotStore stores what wasm does.
LEMMA HotStores ==
  ASSUME NEW rows, NEW m, NEW z, NEW c, NEW e, Shape(z, c, e), NEW s, NEW value, NEW val,
         Holding(s, value, val),
         NEW q, q \in Nat, NEW l, l \in 0 .. 3, NEW n, NEW wide, StoreForm(n, wide, val),
         n = 8 => l = 0, n < 8 => l + n <= 4, NEW r, r = 4 * q + l, r + n <= z,
         Hot(rows, m, z, c, s, q, l, HotStore(value, n, wide))
  PROVE  Stores(rows, m, z, c, e, s, r, n, val)
<1>1. n \in {1, 2, 4, 8} /\ wide \in BOOLEAN /\ val \in Word /\ (~wide => val < HalfM)  BY Zenon DEF StoreForm
<1>2. z = 4 * e /\ e \in Nat  BY Zenon DEF Shape
<1>3. q < e /\ (n = 8 => q + 1 < e)  BY <1>1, <1>2
<1>4. PICK hot : hot = HotStore(value, n, wide)  OBVIOUS
<1>5. Hot(rows, m, z, c, s, q, l, hot)  BY <1>4
<1>6. CASE n = 8  BY <1>6, <1>4, <1>1, <1>3, <1>5, HotDouble DEF HotStore
<1>7. CASE n = 4  BY <1>7, <1>1, <1>4, <1>3, <1>5, HotWhole DEF HotStore
<1>8. CASE n < 4
  <2>1. LaneCut(FALSE, n, l, n)  BY <1>1, <1>8 DEF LaneCut
  <2>2. hot = LaneShift(Insert(value, ByteMask(n), FALSE))  BY <1>8, <1>4 DEF HotStore
  <2> QED BY <1>1, <1>3, <1>5, <2>1, <2>2, HotLane, Zenon
<1> QED BY <1>1, <1>6, <1>7, <1>8

-----------------------------------------------------------------------------
(* A store: the cold rows, cell by cell *)

NextMaskRows(n) == <<Const("T0", H), Alu("Sub64", "T0", "T0", R("T2")),
                     AluImm("ShiftRightBitmask", "T0", "T0", 0),
                     Load("T3", "T1", CellUnits), Const("T4", ByteMask(n))>>

NextClearRows(value, n) == <<Alu("Andn", "T3", "T3", R("T4")), AluImm("And", "T4", value, ByteMask(n))>>

NextPutRows == <<Alu("Or", "T3", "T3", R("T4")), Store("T1", "T3", CellUnits)>>

LastRows(value) == <<Load("T3", "T1", 2 * CellUnits), Const("T4", M - 1),
                     Alu("Srl", "T4", "T4", R("T0")),
                     AluImm("Srl", "T4", "T4", Keep(H)),
                     Alu("Andn", "T3", "T3", R("T4")),
                     Alu("Srl", "T4", value, R("T0")),
                     AluImm("Srl", "T4", "T4", Keep(H)),
                     Alu("Or", "T3", "T3", R("T4")),
                     Store("T1", "T3", 2 * CellUnits)>>

ThirdRows(value, n) == IF n = 8 THEN LastRows(value) ELSE <<>>

\* The parts of ColdStore are sequences,
LEMMA NextSequences ==
  \A value, n : /\ IsSequence(NextMaskRows(n)) /\ IsSequence(NextClearRows(value, n))
                /\ IsSequence(NextPutRows) /\ IsSequence(LastRows(value)) /\ IsSequence(ThirdRows(value, n))
                /\ IsSequence(Carry("T4"))
<1> TAKE value, n
<1>1. \A a1, a2 : IsSequence(<<a1, a2>>)  BY HasTwo
<1>2. \A a1, a2, a3, a4, a5 : IsSequence(<<a1, a2, a3, a4, a5>>)  BY HasFive
<1>3. \A a1, a2, a3, a4, a5, a6, a7, a8, a9 : IsSequence(<<a1, a2, a3, a4, a5, a6, a7, a8, a9>>)  BY HasNine
<1>4. IsSequence(NextMaskRows(n))  BY <1>2, Zenon DEF NextMaskRows
<1>5. IsSequence(NextClearRows(value, n)) /\ IsSequence(NextPutRows) /\ IsSequence(Carry("T4"))
    BY <1>1, Zenon DEF NextClearRows, NextPutRows, Carry
<1>6. IsSequence(LastRows(value))  BY <1>3, Zenon DEF LastRows
<1>7. IsSequence(ThirdRows(value, n))  BY <1>6, HasNone, Zenon DEF ThirdRows
<1> QED BY <1>4, <1>5, <1>6, <1>7

\* its first one among them,
LEMMA LaneSequence ==
  \A value, mask : \A truncate \in BOOLEAN :
      LET w == LaneShift(Insert(value, mask, truncate))
      IN IsSequence(w) /\ IsSequence(Insert(value, mask, truncate)) /\ w = ScaleRow \o Insert(value, mask, truncate)
<1> TAKE value, mask
<1> TAKE truncate \in BOOLEAN
<1>1. PICK S, T : S = ScaleRow /\ T = Insert(value, mask, truncate)  OBVIOUS
<1>2. Placed(T, 1, T, 1 + Len(T)) /\ 1 \in Nat  BY DEF Placed, Has
<1>3. IsSequence(T)  BY <1>1, <1>2, InsertSplits, Zenon
<1>4. IsSequence(S)  BY <1>1, ColdSequences, Zenon
<1>5. IsSequence(S \o T)  BY <1>3, <1>4, JoinIs
<1>6. LaneShift(T) = S \o T  BY <1>1, Zenon DEF LaneShift, ScaleRow
<1> QED BY <1>1, <1>3, <1>5, <1>6, Zenon

\* The seven parts of the rows.
ColdParts(rows, p, value, n, k) ==
    \E i1, i2, i3, i4, i5, i6 :
        /\ i1 \in Nat /\ i2 \in Nat /\ i3 \in Nat /\ i4 \in Nat /\ i5 \in Nat /\ i6 \in Nat
        /\ Placed(rows, p, LaneShift(Insert(value, ByteMask(n), TRUE)), i1)
        /\ Placed(rows, i1, NextMaskRows(n), i2) /\ Placed(rows, i2, Carry("T4"), i3)
        /\ Placed(rows, i3, NextClearRows(value, n), i4) /\ Placed(rows, i4, Carry("T4"), i5)
        /\ Placed(rows, i5, NextPutRows, i6) /\ Placed(rows, i6, ThirdRows(value, n), k)

\* and ColdStore is made of them.
LEMMA ColdSplits ==
  ASSUME NEW value, NEW n, NEW rows, NEW p, p \in Nat, NEW W, W = ColdStore(value, n), NEW k,
         Placed(rows, p, W, k)
  PROVE  ColdParts(rows, p, value, n, k) /\ IsSequence(W)
<1>1. PICK L, A, X, B, C, D : /\ L = LaneShift(Insert(value, ByteMask(n), TRUE)) /\ A = NextMaskRows(n)
                              /\ X = Carry("T4") /\ B = NextClearRows(value, n)
                              /\ C = NextPutRows /\ D = ThirdRows(value, n)
    OBVIOUS
<1>2. /\ IsSequence(L) /\ IsSequence(A) /\ IsSequence(X) /\ IsSequence(B) /\ IsSequence(C) /\ IsSequence(D)
    BY <1>1, NextSequences, LaneSequence
<1>3. W = L \o A \o X \o B \o X \o C \o D
    BY <1>1, Zenon DEF ColdStore, NextMaskRows, NextClearRows, NextPutRows, LastRows, ThirdRows
<1>4. PICK U : U = L \o A \o X  OBVIOUS
<1>5. PICK V : V = U \o B \o X  OBVIOUS
<1>6. W = V \o C \o D  BY <1>3, <1>4, <1>5
<1>7. \A a, b : IsSequence(a) /\ IsSequence(b) => IsSequence(a \o b)  BY JoinIs
<1>8. IsSequence(U)
  <2>1. PICK T : T = L \o A  OBVIOUS
  <2>2. IsSequence(T) /\ U = T \o X  BY <1>2, <1>4, <1>7, <2>1
  <2> QED BY <1>2, <1>7, <2>2
<1>9. IsSequence(V)
  <2>1. PICK T : T = U \o B  OBVIOUS
  <2>2. IsSequence(T) /\ V = T \o X  BY <1>2, <1>5, <1>7, <1>8, <2>1
  <2> QED BY <1>2, <1>7, <2>2
<1>10. IsSequence(W)
  <2>1. PICK T : T = V \o C  OBVIOUS
  <2>2. IsSequence(T) /\ W = T \o D  BY <1>2, <1>6, <1>7, <1>9, <2>1
  <2> QED BY <1>2, <1>7, <2>2
<1>11. Has(rows, p, W) /\ k = p + Len(W)  BY Zenon DEF Placed
<1>12. Triple(rows, p, V, C, D, k)  BY <1>2, <1>6, <1>9, <1>11, Tripled, Zenon
<1>13. PICK i5, i6 : /\ i5 \in Nat /\ i6 \in Nat
                     /\ i5 = p + Len(V) /\ i6 = i5 + Len(C) /\ k = i6 + Len(D)
                     /\ Has(rows, p, V) /\ Has(rows, i5, C) /\ Has(rows, i6, D)
    BY <1>12, Zenon DEF Triple
<1>14. Triple(rows, p, U, B, X, i5)  BY <1>2, <1>5, <1>8, <1>13, Tripled, Zenon
<1>15. PICK i3, i4 : /\ i3 \in Nat /\ i4 \in Nat
                     /\ i3 = p + Len(U) /\ i4 = i3 + Len(B) /\ i5 = i4 + Len(X)
                     /\ Has(rows, p, U) /\ Has(rows, i3, B) /\ Has(rows, i4, X)
    BY <1>14, Zenon DEF Triple
<1>16. Triple(rows, p, L, A, X, i3)  BY <1>2, <1>4, <1>15, Tripled, Zenon
<1>17. PICK i1, i2 : /\ i1 \in Nat /\ i2 \in Nat
                     /\ i1 = p + Len(L) /\ i2 = i1 + Len(A) /\ i3 = i2 + Len(X)
                     /\ Has(rows, p, L) /\ Has(rows, i1, A) /\ Has(rows, i2, X)
    BY <1>16, Zenon DEF Triple
<1>18. /\ Placed(rows, p, L, i1) /\ Placed(rows, i1, A, i2) /\ Placed(rows, i2, X, i3)
       /\ Placed(rows, i3, B, i4) /\ Placed(rows, i4, X, i5) /\ Placed(rows, i5, C, i6) /\ Placed(rows, i6, D, k)
    BY <1>13, <1>15, <1>17, Zenon DEF Placed
<1>19. ColdParts(rows, p, value, n, k)  BY <1>1, <1>13, <1>15, <1>17, <1>18, Zenon DEF ColdParts
<1> QED BY <1>10, <1>19

\* The words of the second cell.
NextWords(z, c, b, d, val, mask, t, y, g) ==
    \E h, i, x, u, v, o, w, j, k :
        /\ Evaluate("Add64", 0, H) = h /\ h \in Word
        /\ Evaluate("Sub64", h, d) = i /\ i \in Word
        /\ Evaluate("ShiftRightBitmask", i, 0) = t /\ t \in Word
        /\ Finds(c, b, CellUnits, x)
        /\ Evaluate("Add64", 0, mask) = mask /\ mask \in Word
        /\ Evaluate("Srl", mask, t) = u /\ u \in Word /\ Evaluate("And", u, CellMask) = v /\ v \in Word
        /\ Evaluate("Andn", x, v) = o /\ o \in Word
        /\ Evaluate("And", val, mask) = w /\ w \in Word
        /\ Evaluate("Srl", w, t) = j /\ j \in Word /\ Evaluate("And", j, CellMask) = k /\ k \in Word
        /\ Evaluate("Or", o, k) = y /\ y \in Word /\ Puts(z, c, b, CellUnits, y, g)

\* The rows come to row n with the cells g, the shift of what is carried in T0.
Carries(rows, m, n, z, g, s, t, b, d) == \E e, f : Comes(rows, m, n, z, g, s, t, b, d, e, f)

\* The rows of the second cell.
NextParts(rows, i1, value, n, i6) ==
    \E i2, i3, i4, i5 :
        /\ i2 \in Nat /\ i3 \in Nat /\ i4 \in Nat /\ i5 \in Nat
        /\ Placed(rows, i1, NextMaskRows(n), i2) /\ Placed(rows, i2, Carry("T4"), i3)
        /\ Placed(rows, i3, NextClearRows(value, n), i4) /\ Placed(rows, i4, Carry("T4"), i5)
        /\ Placed(rows, i5, NextPutRows, i6)

\* The carried part comes to T4.
LEMMA CarryRuns ==
  ASSUME NEW rows, NEW m, NEW p, p \in Nat, NEW z, NEW c, NEW s, s \in [Reg -> Word],
         NEW a, NEW b, NEW d, NEW e, NEW f, Comes(rows, m, p, z, c, s, a, b, d, e, f),
         NEW u, NEW v, CarriedWords(a, b, d, e, f, u, v), NEW n, Placed(rows, p, Carry("T4"), n)
  PROVE  Comes(rows, m, n, z, c, s, a, b, d, e, v)
<1>1. PICK S : S = Carry("T4")  OBVIOUS
<1>2. Has(rows, p, S) /\ n = p + Len(S)  BY <1>1, Zenon DEF Placed
<1>3. S = <<Alu("Srl", "T4", "T4", R("T0")),
                      AluImm("And", "T4", "T4", CellMask)>>
    BY <1>1, Zenon DEF Carry
<1> QED BY <1>2, <1>3, Carried, Zenon

\* The second cell's rows lay their bytes,
LEMMA NextRuns ==
  ASSUME NEW rows, NEW m, NEW p, p \in Nat, NEW z, NEW c, NEW s, NEW value, NEW val,
         Holding(s, value, val),
         NEW b, NEW d, Puttings(rows, m, p, z, c, s, b, d), NEW n, NEW mask, mask = ByteMask(n),
         NEW t, NEW y, NEW g, NextWords(z, c, b, d, val, mask, t, y, g),
         NEW k, NextParts(rows, p, value, n, k)
  PROVE  Carries(rows, m, k, z, g, s, t, b, d)
<1>1. PICK a, e, f : Comes(rows, m, p, z, c, s, a, b, d, e, f)  BY Zenon DEF Puttings
<1>2. PICK h, i, x, u, v, o, w, j, kk :
        /\ Evaluate("Add64", 0, H) = h /\ h \in Word
        /\ Evaluate("Sub64", h, d) = i /\ i \in Word
        /\ Evaluate("ShiftRightBitmask", i, 0) = t /\ t \in Word
        /\ Finds(c, b, CellUnits, x)
        /\ Evaluate("Add64", 0, mask) = mask /\ mask \in Word
        /\ Evaluate("Srl", mask, t) = u /\ u \in Word /\ Evaluate("And", u, CellMask) = v /\ v \in Word
        /\ Evaluate("Andn", x, v) = o /\ o \in Word
        /\ Evaluate("And", val, mask) = w /\ w \in Word
        /\ Evaluate("Srl", w, t) = j /\ j \in Word /\ Evaluate("And", j, CellMask) = kk /\ kk \in Word
        /\ Evaluate("Or", o, kk) = y /\ y \in Word /\ Puts(z, c, b, CellUnits, y, g)
    BY Zenon DEF NextWords
<1>3. /\ NextMaskWords(z, c, a, b, d, e, f, mask, h, i, t, x, mask)
      /\ CarriedWords(t, b, d, x, mask, u, v)
      /\ NextClearWords(t, b, d, x, v, value, val, mask, o, w)
      /\ CarriedWords(t, b, d, o, w, j, kk)
      /\ NextPutWords(z, c, t, b, d, o, kk, y, g)
    BY <1>2, Zenon DEF NextMaskWords, CarriedWords, NextClearWords, NextPutWords
<1>4. PICK i2, i3, i4, i5 :
        /\ i2 \in Nat /\ i3 \in Nat /\ i4 \in Nat /\ i5 \in Nat
        /\ Placed(rows, p, NextMaskRows(n), i2) /\ Placed(rows, i2, Carry("T4"), i3)
        /\ Placed(rows, i3, NextClearRows(value, n), i4) /\ Placed(rows, i4, Carry("T4"), i5)
        /\ Placed(rows, i5, NextPutRows, k)
    BY Zenon DEF NextParts
<1>5. s \in [Reg -> Word] /\ s["ZERO"] = 0 /\ value \in Reg /\ value \notin Temps /\ s[value] = val
    BY Zenon DEF Holding
<1>6. Comes(rows, m, i2, z, c, s, t, b, d, x, mask)
  <2>1. PICK S : S = NextMaskRows(n)  OBVIOUS
  <2>2. Has(rows, p, S) /\ i2 = p + Len(S)  BY <1>4, <2>1, Zenon DEF Placed
  <2>3. S = <<Const("T0", H),
                      Alu("Sub64", "T0", "T0", R("T2")),
                      AluImm("ShiftRightBitmask", "T0", "T0", 0),
                      Load("T3", "T1", CellUnits),
                      Const("T4", mask)>>
      BY <2>1, Zenon DEF NextMaskRows
  <2> QED BY <1>1, <1>3, <1>5, <2>2, <2>3, NextMask, Zenon
<1>7. Comes(rows, m, i3, z, c, s, t, b, d, x, v)  BY <1>3, <1>4, <1>5, <1>6, CarryRuns, Zenon
<1>8. Comes(rows, m, i4, z, c, s, t, b, d, o, w)
  <2>1. PICK S : S = NextClearRows(value, n)  OBVIOUS
  <2>2. Has(rows, i3, S) /\ i4 = i3 + Len(S)  BY <1>4, <2>1, Zenon DEF Placed
  <2>3. S = <<Alu("Andn", "T3", "T3", R("T4")),
                      AluImm("And", "T4", value, mask)>>
      BY <2>1, Zenon DEF NextClearRows
  <2> QED BY <1>3, <1>4, <1>5, <1>7, <2>2, <2>3, NextClear, Zenon
<1>9. Comes(rows, m, i5, z, c, s, t, b, d, o, kk)  BY <1>3, <1>4, <1>5, <1>8, CarryRuns, Zenon
<1>10. Comes(rows, m, k, z, g, s, t, b, d, y, kk)
  <2>1. PICK S : S = NextPutRows  OBVIOUS
  <2>2. Has(rows, i5, S) /\ k = i5 + Len(S)  BY <1>4, <2>1, Zenon DEF Placed
  <2>3. S = <<Alu("Or", "T3", "T3", R("T4")),
                      Store("T1", "T3", CellUnits)>>
      BY <2>1, Zenon DEF NextPutRows
  <2> QED BY <1>3, <1>4, <1>5, <1>9, <2>2, <2>3, NextPut, Zenon
<1> QED BY <1>10, Zenon DEF Carries

\* The words of the third cell.
LastComputes(z, c, t, b, val, y, g, x, u, v, w, h, i, o) ==
    /\ Finds(c, b, 2 * CellUnits, x)
    /\ Evaluate("Add64", 0, M - 1) = u /\ u \in Word
    /\ Evaluate("Srl", u, t) = v /\ v \in Word /\ Evaluate("Srl", v, Keep(H)) = w /\ w \in Word
    /\ Evaluate("Andn", x, w) = h /\ h \in Word
    /\ Evaluate("Srl", val, t) = i /\ i \in Word /\ Evaluate("Srl", i, Keep(H)) = o /\ o \in Word
    /\ Evaluate("Or", h, o) = y /\ y \in Word /\ Puts(z, c, b, 2 * CellUnits, y, g)

LastWords(z, c, t, b, val, y, g) ==
    \E x, u, v, w, h, i, o : LastComputes(z, c, t, b, val, y, g, x, u, v, w, h, i, o)

\* and the third's.
LEMMA LastRuns ==
  ASSUME NEW rows, NEW m, NEW p, p \in Nat, NEW z, NEW c, NEW s, NEW value, NEW val,
         Holding(s, value, val),
         NEW b, NEW d, NEW t, Carries(rows, m, p, z, c, s, t, b, d),
         NEW y, NEW g, LastWords(z, c, t, b, val, y, g), NEW n, Placed(rows, p, LastRows(value), n)
  PROVE  Carries(rows, m, n, z, g, s, t, b, d)
<1>1. PICK e, f : Comes(rows, m, p, z, c, s, t, b, d, e, f)  BY Zenon DEF Carries
<1>2. PICK x, u, v, w, h, i, o :
        /\ Finds(c, b, 2 * CellUnits, x)
        /\ Evaluate("Add64", 0, M - 1) = u /\ u \in Word
        /\ Evaluate("Srl", u, t) = v /\ v \in Word /\ Evaluate("Srl", v, Keep(H)) = w /\ w \in Word
        /\ Evaluate("Andn", x, w) = h /\ h \in Word
        /\ Evaluate("Srl", val, t) = i /\ i \in Word /\ Evaluate("Srl", i, Keep(H)) = o /\ o \in Word
        /\ Evaluate("Or", h, o) = y /\ y \in Word /\ Puts(z, c, b, 2 * CellUnits, y, g)
    BY Zenon DEF LastWords, LastComputes
<1>3. LastPutWords(z, c, t, b, d, e, f, value, val, x, u, v, w, h, i, o, y, g)
    BY <1>2, Zenon DEF LastPutWords
<1>4. s \in [Reg -> Word] /\ s["ZERO"] = 0 /\ value \in Reg /\ value \notin Temps /\ s[value] = val
    BY Zenon DEF Holding
<1>5. PICK S : S = LastRows(value)  OBVIOUS
<1>6. Has(rows, p, S) /\ n = p + Len(S)  BY <1>5, Zenon DEF Placed
<1>7. Comes(rows, m, n, z, g, s, t, b, d, y, o)  BY <1>1, <1>3, <1>4, <1>5, <1>6, LastPut, Zenon DEF LastRows
<1> QED BY <1>7, Zenon DEF Carries

\* The k of n bytes that go to the second cell when l of the first are kept.
NextCut(n, l, k) ==
    /\ l \in 1 .. 3 /\ n \in 0 .. 8 /\ k \in 0 .. 4 /\ 4 - l + k <= n
    /\ k < 4 => k = n - (4 - l)

\* What is left of the mask and of the value.
LEMMA NextBytes ==
  ASSUME NEW n, NEW l, NEW k, NextCut(n, l, k), NEW q, q = BP(4 - l), NEW t, t = BP(k), NEW val,
         val \in Word
  PROVE  /\ ((BP(n) - 1) \div q) % HalfM = t - 1
         /\ ((val % BP(n)) \div q) % HalfM = (val \div q) % t
         /\ q \in Nat \ {0} /\ t \in Nat \ {0}
<1>1. /\ l \in 1 .. 3 /\ n \in 0 .. 8 /\ k \in 0 .. 4 /\ 4 - l + k <= n /\ (k < 4 => k = n - (4 - l))
      /\ 4 - l \in Nat /\ n - (4 - l) \in Nat /\ k \in Nat /\ n \in Nat /\ 4 - k \in Nat /\ n - (4 - l) - k \in Nat
      /\ n = (4 - l) + (n - (4 - l)) /\ n - (4 - l) = k + (n - (4 - l) - k) /\ 4 = k + (4 - k)
    BY DEF NextCut
<1>2. PICK a, o, i : a = BP(n - (4 - l)) /\ o = BP(n - (4 - l) - k) /\ i = BP(4 - k)  OBVIOUS
<1>3. a \in Nat \ {0} /\ o \in Nat \ {0} /\ i \in Nat \ {0} /\ q \in Nat \ {0} /\ t \in Nat \ {0} /\ BP(n) \in Nat \ {0}
    BY <1>1, <1>2, BytePowers
<1>4. BP(n) = q * a /\ a = t * o /\ HalfM = t * i  BY <1>1, BytePowers, <1>2
<1>5. (BP(n) - 1) \div q = a - 1 /\ ((val % BP(n)) \div q) = (val \div q) % a
    BY <1>3, OnesShift, RemainderQuotient, <1>4 DEF Word
<1>6. PICK v : v = val \div q  OBVIOUS
<1>7. v \in Nat  BY <1>3, <1>6, QuotientBelow DEF Word
<1>8. (a - 1) % HalfM = t - 1 /\ (v % a) % HalfM = v % t
  <2>1. CASE k = 4
    <3>1. t = HalfM  BY <2>1, BytePowers
    <3>2. (t * o - 1) % t = t - 1  BY <1>3, OnesShift
    <3>3. (v % (t * o)) % t = v % t
      <4>1. v \in Int  BY <1>7
      <4> QED BY <1>3, <4>1, RemainderTwice, Zenon
    <3> QED BY <1>4, <3>1, <3>2, <3>3
  <2>2. CASE k < 4
    <3>1. n - (4 - l) = k  BY <1>1, <2>2
    <3>2. a = t  BY <1>2, <3>1
    <3>3. t <= HalfM  BY <1>3, QuotientScale, <1>4, Sizes, QuotientBelow
    <3>4. HalfM \in Nat /\ t - 1 \in 0 .. HalfM - 1 /\ v % t \in 0 .. HalfM - 1
        BY Sizes, <1>3, <1>7, <3>3
    <3> QED BY <3>2, <3>4, RemainderSmall
  <2> QED BY <1>1, <2>1, <2>2
<1>9. ((BP(n) - 1) \div q) % HalfM = t - 1  BY <1>5, <1>8, Zenon
<1>10. ((val % BP(n)) \div q) % HalfM = (val \div q) % t  BY <1>5, <1>6, <1>8, Zenon
<1>11. q \in Nat \ {0} /\ t \in Nat \ {0}  BY <1>3
<1> QED BY <1>9, <1>10, <1>11

\* The words that put what is carried in the second cell.
LEMMA NextIs ==
  ASSUME NEW n, NEW l, NEW k, NextCut(n, l, k),
         NEW z, NEW c, NEW e, Shape(z, c, e), NEW q, q \in Nat, q + 1 < e, NEW b, b = CellAddress(q),
         NEW d, d = ByteBits * l, NEW val, val \in Word, NEW mask, mask = ByteMask(n),
         NEW h, h = 4 - l, NEW r, r = 4 * q + l + h, NEW t, t = ShiftMask(ByteBits * h)
  PROVE  \E y, g : /\ NextWords(z, c, b, d, val, mask, t, y, g)
                   /\ Lays(z, c, e, b, CellUnits, y, r, k, h, val, g)
<1>1. /\ l \in 1 .. 3 /\ n \in 0 .. 8 /\ k \in 0 .. 4 /\ h \in Nat /\ k \in Nat /\ k + 0 <= 8 /\ 0 + k <= 8
      /\ r = 4 * (q + 1) + 0 /\ q + 1 \in Nat
    BY DEF NextCut
<1>2. PICK p, o, x, i, w, j : /\ p = BP(h) /\ o = BP(k) /\ x = c[q + 1] /\ i = ByteBits * h
                              /\ w = (val \div p) % o /\ j = q + 1
    OBVIOUS
<1>3. e \in Nat /\ q + 1 <= e  BY DEF Shape
<1>4. Finds(c, b, CellUnits, x) /\ x \in 0 .. CellMask /\ x \in Word  BY <1>2, <1>3, CellsFind, CellIs
<1>5. /\ Evaluate("Add64", 0, H) = H /\ H \in Word
      /\ Evaluate("Sub64", H, d) = i /\ i \in Word
      /\ Evaluate("ShiftRightBitmask", i, 0) = t /\ t \in Word
      /\ p \in Nat \ {0}
      /\ \A m \in Word : Evaluate("Srl", m, t) = m \div p /\ m \div p \in Word
    BY <1>1, <1>2, RestWords
<1>6. /\ mask = BP(n) - 1 /\ mask \in Word /\ mask \in Nat
      /\ (val & mask) = val % BP(n) /\ val % BP(n) \in Word
    BY <1>1, ByteMasks
<1>7. Evaluate("Add64", 0, mask) = mask  BY Evaluates, <1>6, Sizes, RemainderSmall DEF Word
<1>8. (mask \div p) % HalfM = o - 1 /\ ((val % BP(n)) \div p) % HalfM = w /\ o \in Nat \ {0}
    BY <1>2, <1>6, NextBytes
<1>9. PICK u, v, a, s : u = mask \div p /\ v = o - 1 /\ a = val % BP(n) /\ s = a \div p  OBVIOUS
<1>10. /\ Evaluate("Srl", mask, t) = u /\ u \in Word /\ Evaluate("Srl", a, t) = s /\ s \in Word /\ a \in Word
       /\ Evaluate("And", val, mask) = a
    BY Evaluates, <1>5, <1>6, <1>9
<1>11. /\ Evaluate("And", u, CellMask) = v /\ v \in Word
       /\ Evaluate("And", s, CellMask) = w /\ w \in Word
    BY Evaluates, <1>10, CellMasks, <1>8, <1>9
<1>12. Window(w, k, h, val) /\ w \in 0 .. BP(k) - 1
  <2>1. val \in Nat  BY DEF Word
  <2>2. Window((val \div BP(h)) % BP(k), k, h, val)  BY <1>1, <2>1, WindowAt
  <2>3. (val \div p) % o \in 0 .. o - 1  BY <1>5, <1>8, <2>1, QuotientBelow
  <2> QED BY <1>2, <2>2, <2>3
<1>13. PICK m, y : m = (x & (M - 1 - v)) /\ y = Splice(x, ByteBits, 0, k, w)  OBVIOUS
<1>14. m \in Word /\ (m | w) = y
  <2>1. /\ (x & (M - 1 - (BP(k) - 1) * BP(0))) \in Word
        /\ ((x & (M - 1 - (BP(k) - 1) * BP(0))) | w * BP(0)) = Splice(x, ByteBits, 0, k, w)
      BY <1>1, <1>4, <1>12, SpliceWords
  <2>2. (BP(k) - 1) * BP(0) = v /\ w * BP(0) = w
    <3>1. BP(0) = 1  BY BytePowers
    <3> QED BY <1>2, <1>8, <1>9, <1>12, <3>1
  <2> QED BY <1>13, <2>1, <2>2
<1>15. Place(e, b, CellUnits, j, 0, k, r)  BY <1>2, <1>1 DEF CellUnits, Place
<1>16. PICK g : Lays(z, c, e, b, CellUnits, y, r, k, h, val, g)
  <2>1. h \in Nat /\ y = Splice(c[j], ByteBits, 0, k, w) /\ val \in Nat  BY <1>1, <1>2, <1>13 DEF Word
  <2> QED BY <1>12, <1>15, <2>1, CellLays, Zenon
<1>17. y \in Word /\ Puts(z, c, b, CellUnits, y, g)  BY <1>16, Zenon DEF Lays
<1>18. Evaluate("Andn", x, v) = m /\ Evaluate("Or", m, w) = y  BY <1>13, <1>14, Evaluates
<1>19. NextWords(z, c, b, d, val, mask, t, y, g)
    BY <1>5, <1>4, <1>6, <1>7, <1>10, <1>11, <1>14, <1>18, <1>17 DEF NextWords
<1> QED BY <1>16, <1>19, Zenon

\* The shift by the rest of a cell, and the powers it and one by a cell divide by.
RestShift(l, q, r, t) == l \in 1 .. 3 /\ t = ShiftMask(ByteBits * (4 - l)) /\ \E p : Lanes(l, p, q, r)

RestShifts(x, q, r, t) ==
    /\ Evaluate("Srl", x, t) = x \div q /\ x \div q \in Word
    /\ Evaluate("Srl", x \div q, Keep(H)) = x \div r /\ x \div r \in Word

\* Two shifts, the second by a cell, are one.
LEMMA TwoShiftsIs ==
  ASSUME NEW l, NEW q, NEW r, NEW t, RestShift(l, q, r, t), NEW x, x \in Word
  PROVE  RestShifts(x, q, r, t)
<1>1. /\ q = BP(4 - l) /\ q \in Nat \ {0} /\ r \in Nat \ {0} /\ r = HalfM * q /\ l \in 1 .. 3 /\ t = ShiftMask(ByteBits * (4 - l))
    BY DEF Lanes, RestShift
<1>2. Evaluate("Srl", x, t) = x \div q /\ x \div q \in Word  BY <1>1, RestWords
<1>3. /\ H \in Nat /\ H < Bits /\ HalfM = 2^H /\ HalfM \in Nat \ {0}  BY Sizes
<1>4. PICK y : y = x \div q  OBVIOUS
<1>5. Evaluate("Srl", y, Keep(H)) = y \div HalfM /\ y \div HalfM \in Word
    BY <1>2, <1>4, <1>3, ShiftIs DEF Keep
<1>6. y \div HalfM = x \div r  BY <1>1, <1>3, QuotientTwice, <1>4 DEF Word
<1> QED BY <1>2, <1>4, <1>5, <1>6 DEF RestShifts

\* The words that put the rest in the third cell.
LEMMA LastIs ==
  ASSUME NEW l, l \in 1 .. 3, NEW z, NEW c, NEW e, Shape(z, c, e), NEW q, q \in Nat,
         q + 2 < e, NEW b, b = CellAddress(q),
         NEW val, val \in Word, NEW h, h = 8 - l, NEW r, r = 4 * q + l + h, NEW t,
         t = ShiftMask(ByteBits * (4 - l))
  PROVE  \E y, g : /\ LastWords(z, c, t, b, val, y, g)
                   /\ Lays(z, c, e, b, 2 * CellUnits, y, r, l, h, val, g)
<1>1. /\ l \in 0 .. 4 /\ l \in Nat /\ 0 + l <= 8 /\ h \in Nat /\ r = 4 * (q + 2) + 0 /\ q + 2 \in Nat  OBVIOUS
<1>2. PICK p, i, j : p \in Nat \ {0} /\ i \in Nat \ {0} /\ j \in Nat \ {0} /\ Lanes(l, p, i, j)
    BY <1>1, LanePowers
<1>3. PICK x, k, w, s, u : x = c[q + 2] /\ k = q + 2 /\ w = val \div j /\ s = val \div i /\ u = M - 1  OBVIOUS
<1>4. e \in Nat /\ q + 2 <= e  BY DEF Shape
<1>5. Finds(c, b, 2 * CellUnits, x) /\ x \in 0 .. CellMask /\ x \in Word
    BY <1>3, <1>4, CellsFind, CellIs
<1>18. RestShift(l, i, j, t)  BY <1>2, Zenon DEF RestShift
<1>6. /\ Evaluate("Srl", val, t) = s /\ s \in Word /\ Evaluate("Srl", s, Keep(H)) = w /\ w \in Word
    BY <1>18, TwoShiftsIs, <1>3 DEF RestShifts
<1>7. Evaluate("Add64", 0, M - 1) = u /\ u \in Word  BY Evaluates, Sizes, RemainderSmall, <1>3 DEF Word
<1>8. PICK v, o : v = u \div i /\ o = p - 1  OBVIOUS
<1>9. /\ Evaluate("Srl", u, t) = v /\ v \in Word /\ Evaluate("Srl", v, Keep(H)) = o /\ o \in Word
    BY <1>7, <1>18, TwoShiftsIs, <1>2, OnesShift, <1>3, <1>8 DEF RestShifts, Lanes
<1>10. Window(w, l, h, val) /\ w \in 0 .. BP(l) - 1 /\ BP(l) = p
    BY <1>1, <1>2, WindowTop, <1>3 DEF Lanes
<1>11. PICK m, y : m = (x & (M - 1 - o)) /\ y = Splice(x, ByteBits, 0, l, w)  OBVIOUS
<1>12. m \in Word /\ (m | w) = y
  <2>1. /\ (x & (M - 1 - (BP(l) - 1) * BP(0))) \in Word
        /\ ((x & (M - 1 - (BP(l) - 1) * BP(0))) | w * BP(0)) = Splice(x, ByteBits, 0, l, w)
      BY <1>1, <1>5, <1>10, SpliceWords
  <2>2. (BP(l) - 1) * BP(0) = o /\ w * BP(0) = w
    <3>1. BP(0) = 1  BY BytePowers
    <3> QED BY <1>2, <1>8, <1>10, <3>1
  <2> QED BY <1>11, <2>1, <2>2
<1>13. Place(e, b, 2 * CellUnits, k, 0, l, r)  BY <1>3, <1>1 DEF CellUnits, Place
<1>14. PICK g : Lays(z, c, e, b, 2 * CellUnits, y, r, l, h, val, g)
  <2>1. h \in Nat /\ y = Splice(c[k], ByteBits, 0, l, w) /\ val \in Nat  BY <1>1, <1>3, <1>11 DEF Word
  <2>2. PICK oo : oo = 2 * CellUnits  OBVIOUS
  <2>3. Place(e, b, oo, k, 0, l, r)  BY <1>13, <2>2
  <2>4. PICK g : Lays(z, c, e, b, oo, y, r, l, h, val, g)  BY <1>10, <2>1, <2>3, CellLays, Zenon
  <2> QED BY <2>2, <2>4
<1>15. y \in Word /\ Puts(z, c, b, 2 * CellUnits, y, g)  BY <1>14, Zenon DEF Lays
<1>16. Evaluate("Andn", x, o) = m /\ Evaluate("Or", m, w) = y  BY <1>11, <1>12, Evaluates
<1>17. LastWords(z, c, t, b, val, y, g)
  <2>1. LastComputes(z, c, t, b, val, y, g, x, u, v, o, m, s, w)
      BY <1>5, <1>6, <1>7, <1>9, <1>12, <1>15, <1>16, Zenon DEF LastComputes
  <2> QED BY <2>1, Zenon DEF LastWords
<1> QED BY <1>14, <1>17, Zenon

\* The first cell's part,
LEMMA ColdFirst ==
  ASSUME NEW rows, NEW m, NEW p, p \in Nat, NEW z, NEW c, NEW e, Shape(z, c, e), NEW s, NEW value,
         NEW val, Holding(s, value, val), val \in Word,
         NEW q, q \in Nat, q < e, NEW l, NEW n, NEW k, LaneCut(TRUE, n, l, k), NEW r, r = 4 * q + l,
         NEW b, b = CellAddress(q), NEW d, d = ByteBits * l,
         NEW a, NEW f, NEW g, Comes(rows, m, p, z, c, s, a, b, 2 * l, f, g),
         NEW o, Placed(rows, p, LaneShift(Insert(value, ByteMask(n), TRUE)), o)
  PROVE  \E h : Puttings(rows, m, o, z, h, s, b, d) /\ Shape(z, h, e) /\ Rewrites(z, c, h, r, k, 0, val)
<1>1. PICK mask, S, T, U : mask = ByteMask(n) /\ S = ScaleRow /\ T = Insert(value, mask, TRUE) /\ U = LaneShift(T)
    OBVIOUS
<1>2. U = S \o T  BY <1>1, Zenon DEF LaneShift, ScaleRow
<1>3. IsSequence(S) /\ IsSequence(T)  BY <1>1, LaneSequence, ColdSequences
<1>4. Has(rows, p, U) /\ o = p + Len(U)  BY <1>1, Zenon DEF Placed
<1>5. Consecutive(rows, p, S, T, o)  BY <1>2, <1>3, <1>4, Consecutively, Zenon
<1>6. PICK i : i \in Nat /\ Placed(rows, p, S, i) /\ Placed(rows, i, T, o)
    BY <1>5, Zenon DEF Consecutive, Placed
<1>7. s \in [Reg -> Word]  BY Zenon DEF Holding
<1>8. l \in 0 .. 3  BY Zenon DEF LaneCut
<1>9. Puttings(rows, m, i, z, c, s, b, d)  BY <1>1, <1>6, <1>7, <1>8, Scaled, Zenon
<1>10. PICK y, h : InsertWords(z, c, b, d, val, mask, TRUE, y, h) /\ Lays(z, c, e, b, 0, y, r, k, 0, val, h)
    BY <1>1, InsertIs, Zenon
<1>11. Puttings(rows, m, o, z, h, s, b, d)  BY <1>1, <1>6, <1>9, <1>10, InsertRuns
<1> QED BY <1>10, <1>11, Zenon DEF Lays, Rewrites

\* the second's,
LEMMA ColdSecond ==
  ASSUME NEW rows, NEW m, NEW p, p \in Nat, NEW z, NEW c, NEW e, Shape(z, c, e), NEW s, NEW value,
         NEW val, Holding(s, value, val), val \in Word,
         NEW q, q \in Nat,
         q + 1 < e, NEW l, NEW n, NEW k, NextCut(n, l, k), NEW h, h = 4 - l, NEW r, r = 4 * q + l + h,
         NEW b, b = CellAddress(q), NEW d, d = ByteBits * l, NEW t, t = ShiftMask(ByteBits * h),
         Puttings(rows, m, p, z, c, s, b, d), NEW o, NextParts(rows, p, value, n, o)
  PROVE  \E g : Carries(rows, m, o, z, g, s, t, b, d) /\ Shape(z, g, e) /\ Rewrites(z, c, g, r, k, h, val)
<1>1. PICK mask : mask = ByteMask(n)  OBVIOUS
<1>2. PICK y, g : NextWords(z, c, b, d, val, mask, t, y, g) /\ Lays(z, c, e, b, CellUnits, y, r, k, h, val, g)
    BY <1>1, NextIs, Zenon
<1>3. Carries(rows, m, o, z, g, s, t, b, d)  BY <1>1, <1>2, NextRuns, Zenon
<1> QED BY <1>2, <1>3, Zenon DEF Lays, Rewrites

\* and the third's.
LEMMA ColdThird ==
  ASSUME NEW rows, NEW m, NEW p, p \in Nat, NEW z, NEW c, NEW e, Shape(z, c, e), NEW s, NEW value,
         NEW val, Holding(s, value, val), val \in Word,
         NEW q, q \in Nat, q + 2 < e, NEW l, l \in 1 .. 3, NEW h, h = 8 - l, NEW r, r = 4 * q + l + h,
         NEW b, b = CellAddress(q), NEW d, NEW t, t = ShiftMask(ByteBits * (4 - l)),
         Carries(rows, m, p, z, c, s, t, b, d), NEW o, Placed(rows, p, LastRows(value), o)
  PROVE  \E g : Carries(rows, m, o, z, g, s, t, b, d) /\ Shape(z, g, e) /\ Rewrites(z, c, g, r, l, h, val)
<1>1. PICK y, g : LastWords(z, c, t, b, val, y, g) /\ Lays(z, c, e, b, 2 * CellUnits, y, r, l, h, val, g)
    BY LastIs, Zenon
<1>2. Carries(rows, m, o, z, g, s, t, b, d)  BY <1>1, LastRuns, Zenon
<1> QED BY <1>1, <1>2, Zenon DEF Lays, Rewrites

\* The rows jump to their end.
LEMMA CarriesLeaves ==
  ASSUME NEW rows, NEW m, NEW p, NEW z, NEW g, NEW s, NEW t, NEW b, NEW d,
         Carries(rows, m, p, z, g, s, t, b, d),
         NEW n, n = p, NEW k, rows[n] = Jump(k), rows[k] = Rejoin
  PROVE  Leaves(rows, m, z, g, s)
<1>1. PICK e, f : Comes(rows, m, p, z, g, s, t, b, d, e, f)  BY Zenon DEF Carries
<1>2. rows[p] = Jump(k)  OBVIOUS
<1>3. Comes(rows, m, k, z, g, s, t, b, d, e, f)  BY <1>1, <1>2, JumpComes, Zenon
<1> QED BY <1>3, Zenon DEF Leaves

\* ColdStore stores what wasm does.
LEMMA ColdStores ==
  ASSUME NEW rows, NEW m, NEW z, NEW c, NEW e, Shape(z, c, e), NEW s, NEW value, NEW val,
         Holding(s, value, val),
         NEW q, q \in Nat, NEW l, l \in 1 .. 3, NEW n, NEW wide, StoreForm(n, wide, val),
         n \in {2, 4, 8}, Crosses(n, l),
         NEW r, r = 4 * q + l, r + n <= z,
         Cold(rows, m, z, c, s, q, l, ColdStore(value, n))
  PROVE  Stores(rows, m, z, c, e, s, r, n, val)
<1>1. val \in Word  BY Zenon DEF StoreForm
<1>2. PICK W : W = ColdStore(value, n)  OBVIOUS
<1>3. PICK b, d, h, x, i, t, k : /\ b = CellAddress(q) /\ d = ByteBits * l /\ h = 4 - l /\ x = r + h
                                 /\ i = (IF n = 8 THEN 4 ELSE n - h) /\ t = ShiftMask(ByteBits * h) /\ k = h + i
    OBVIOUS
<1>4. /\ l \in Nat /\ h \in Nat /\ h \in 1 .. 3 /\ r \in Nat /\ i \in Nat /\ x \in Nat /\ x = 4 * q + l + h
      /\ LaneCut(TRUE, n, l, h) /\ NextCut(n, l, i) /\ RowsFollow(r, h, i, 0, x, h, k) /\ k \in Nat
    BY <1>3 DEF Crosses, LaneCut, NextCut, RowsFollow
<1>5. z = 4 * e /\ e \in Nat  BY Zenon DEF Shape
<1>6. q < e /\ q + 1 < e /\ (n = 8 => q + 2 < e)  BY <1>3, <1>4, <1>5 DEF Crosses
<1>7. PICK p, a, f, g, j : /\ p \in Nat /\ Comes(rows, m, p, z, c, s, a, b, 2 * l, f, g)
                           /\ Has(rows, p, W) /\ rows[p + Len(W)] = Jump(j) /\ rows[j] = Rejoin
    BY <1>2, <1>3, Zenon DEF Cold
<1>8. PICK y : y = p + Len(W)  OBVIOUS
<1>9. ColdParts(rows, p, value, n, y)  BY <1>7, <1>8, <1>2, ColdSplits, Zenon DEF Placed
<1>10. PICK i1, i6 : /\ i1 \in Nat /\ i6 \in Nat
                     /\ Placed(rows, p, LaneShift(Insert(value, ByteMask(n), TRUE)), i1)
                     /\ NextParts(rows, i1, value, n, i6) /\ Placed(rows, i6, ThirdRows(value, n), y)
    BY <1>9, Zenon DEF ColdParts, NextParts
<1>11. PICK u : Puttings(rows, m, i1, z, u, s, b, d) /\ Shape(z, u, e) /\ Rewrites(z, c, u, r, h, 0, val)
    BY <1>1, <1>3, <1>4, <1>6, <1>7, <1>10, ColdFirst, Zenon
<1>12. PICK v : Carries(rows, m, i6, z, v, s, t, b, d) /\ Shape(z, v, e) /\ Rewrites(z, u, v, x, i, h, val)
  <2>1. b = CellAddress(q) /\ d = ByteBits * l /\ h = 4 - l /\ t = ShiftMask(ByteBits * h)  BY <1>3, Zenon
  <2>2. x = 4 * q + l + h /\ NextCut(n, l, i) /\ q + 1 < e  BY <1>4, <1>6, Zenon
  <2>3. /\ i1 \in Nat /\ NextParts(rows, i1, value, n, i6)
        /\ Puttings(rows, m, i1, z, u, s, b, d) /\ Shape(z, u, e)
      BY <1>10, <1>11, Zenon
  <2>4. \E v : Carries(rows, m, i6, z, v, s, t, b, d) /\ Shape(z, v, e) /\ Rewrites(z, u, v, x, i, h, val)
      BY <1>1, <2>1, <2>2, <2>3, ColdSecond, Zenon
  <2> QED BY <2>4, Zenon
<1>13. Rewrites(z, c, v, r, k, 0, val)
  <2>1. PICK zero : zero = 0  OBVIOUS
  <2>2. RowsFollow(r, h, i, zero, x, h, k) /\ Rewrites(z, c, u, r, h, zero, val)  BY <1>4, <1>11, <2>1, Zenon
  <2>3. Rewrites(z, c, v, r, k, zero, val)  BY <1>12, <2>2, RewritesTwice, Zenon
  <2> QED BY <2>1, <2>3, Zenon
<1>14. CASE n # 8
  <2>1. k = n  BY <1>3, <1>4, <1>14
  <2>2. y = i6  BY <1>14, <1>10, HasNone DEF ThirdRows, Placed
  <2>3. Leaves(rows, m, z, v, s)  BY <1>7, <1>8, <1>12, <2>2, CarriesLeaves, Zenon
  <2>4. BytesOf(z, v) = Patched(BytesOf(z, c), r, n, 0, val)  BY <1>13, <2>1, Zenon DEF Rewrites
  <2> QED BY <1>12, <2>3, <2>4, Zenon DEF Stores
<1>15. CASE n = 8
  <2>1. PICK hh, xx : hh = 8 - l /\ xx = r + hh  OBVIOUS
  <2>2. xx = 4 * q + l + hh /\ k = hh /\ t = ShiftMask(ByteBits * (4 - l))  BY <1>3, <1>4, <1>15, <2>1
  <2>3. Placed(rows, i6, LastRows(value), y)  BY <1>15, <1>10 DEF ThirdRows
  <2>4. PICK w : Carries(rows, m, y, z, w, s, t, b, d) /\ Shape(z, w, e) /\ Rewrites(z, v, w, xx, l, hh, val)
    <3>1. b = CellAddress(q) /\ q + 2 < e /\ hh = 8 - l  BY <1>3, <1>6, <1>15, <2>1, Zenon
    <3>2. Carries(rows, m, i6, z, v, s, t, b, d) /\ Shape(z, v, e) /\ i6 \in Nat  BY <1>10, <1>12, Zenon
    <3> QED BY <1>1, <2>2, <2>3, <3>1, <3>2, ColdThird, Zenon
  <2>5. Rewrites(z, c, w, r, n, 0, val)
    <3>1. PICK zero : zero = 0  OBVIOUS
    <3>2. RowsFollow(r, k, l, zero, xx, hh, n)  BY <1>4, <1>15, <2>1, <2>2, <3>1 DEF RowsFollow
    <3>3. Rewrites(z, c, v, r, k, zero, val)  BY <1>13, <3>1, Zenon
    <3>4. Rewrites(z, c, w, r, n, zero, val)  BY <2>4, <3>2, <3>3, RewritesTwice, Zenon
    <3> QED BY <3>1, <3>4, Zenon
  <2>6. Leaves(rows, m, z, w, s)  BY <1>7, <1>8, <2>4, CarriesLeaves, Zenon
  <2> QED BY <2>4, <2>5, <2>6, Zenon DEF Stores, Rewrites
<1> QED BY <1>14, <1>15

\* The rows of a store are sequences.
LEMMA StoreSequences ==
  ASSUME NEW n, NEW wide, NEW val, StoreForm(n, wide, val), NEW value
  PROVE  IsSequence(HotStore(value, n, wide)) /\ IsSequence(ColdStore(value, n))
<1>1. n \in {1, 2, 4, 8} /\ wide \in BOOLEAN  BY Zenon DEF StoreForm
<1>2. PICK hot, cold : hot = HotStore(value, n, wide) /\ cold = ColdStore(value, n)  OBVIOUS
<1>3. IsSequence(hot)
  <2>1. CASE n = 8  BY <1>2, <2>1, HasFour DEF HotStore
  <2>2. CASE n = 4  BY <1>1, <1>2, <2>2, HasOne, HasTwo DEF HotStore
  <2>3. CASE n < 4
    <3>1. n # 8 /\ n # 4  BY <2>3
    <3>2. hot = LaneShift(Insert(value, ByteMask(n), FALSE))  BY <1>2, <2>3, <3>1, Zenon DEF HotStore
    <3>3. FALSE \in BOOLEAN  OBVIOUS
    <3> QED BY <3>2, <3>3, LaneSequence
  <2> QED BY <1>1, <2>1, <2>2, <2>3
<1>4. IsSequence(cold)
  <2>1. PICK x : Has(x, 1, cold)  BY DEF Has
  <2>2. PICK j : j = 1 + Len(cold)  OBVIOUS
  <2>3. Placed(x, 1, cold, j) /\ 1 \in Nat  BY <2>1, <2>2 DEF Placed
  <2> QED BY <1>2, <2>3, ColdSplits, Zenon
<1> QED BY <1>2, <1>3, <1>4, Zenon

\* What the rows of a store do.
StoreDone(rows, m, z, c, e, s, r, n, val) ==
    IF r + n <= z THEN Stores(rows, m, z, c, e, s, r, n, val) ELSE Traps(rows, m, z, c)

\* A store's rows do what the store does.
LEMMA StoreRuns ==
  ASSUME NEW z, NEW c, NEW e, Shape(z, c, e), NEW s, NEW addr, NEW base, NEW offset, NEW n, NEW m, NEW r,
         Access(m, z, c, s, addr, base, offset, n, r), NEW value, NEW val, Holding(s, value, val),
         NEW wide, StoreForm(n, wide, val),
         NEW rows, rows = EmitStore(addr, value, wide, offset, n)
  PROVE  StoreDone(rows, m, z, c, e, s, r, n, val)
<1>1. PICK hot, cold : hot = HotStore(value, n, wide) /\ cold = ColdStore(value, n)  OBVIOUS
<1>2. IsSequence(hot) /\ IsSequence(cold) /\ n \in {1, 2, 4, 8}
    BY <1>1, StoreSequences, Zenon DEF StoreForm
<1>3. rows = WithCold(EmitAddress(addr, offset, n), n, hot, cold)  BY <1>1, Zenon DEF EmitStore
<1>4. Accessed(rows, m, z, c, s, r, n, hot, cold)  BY <1>2, <1>3, Accesses, Zenon
<1>5. ASSUME r + n <= z PROVE Stores(rows, m, z, c, e, s, r, n, val)
  <2>1. Reaches(rows, m, z, c, s, r, n, hot, cold)  BY <1>4, <1>5, Zenon DEF Accessed
  <2>2. PICK q, l : q \in Nat /\ l \in 0 .. 3 /\ r = 4 * q + l /\ InLane(rows, m, z, c, s, q, l, n, hot, cold)
      BY <2>1, Zenon DEF Reaches
  <2>3. ASSUME Crosses(n, l) PROVE Stores(rows, m, z, c, e, s, r, n, val)
      BY <2>2, <2>3, <1>1, <1>5, ColdStores, Zenon DEF InLane
  <2>4. ASSUME ~Crosses(n, l) PROVE Stores(rows, m, z, c, e, s, r, n, val)
      BY <2>2, <2>4, <1>1, <1>5, HotStores, Zenon DEF InLane
  <2> QED BY <2>3, <2>4, Zenon
<1> QED BY <1>4, <1>5, Zenon DEF Accessed, StoreDone

-----------------------------------------------------------------------------
(* A store: its limit test, its hot rows and what they leave *)

LimitRow(n) == AluImm("Add64", Limit(n), "T2", (LinearBase - 2 * n + 1) % M)

LimitRows   == <<LimitRow(1), LimitRow(2), LimitRow(4), LimitRow(8)>>

LimitWord(n, z) == 2 * z + LinearBase + 1 - 2 * n

\* The rows of emit_limits, one by one.
LEMMA LimitForm == \A size : EmitLimits(size) = <<AluImm("Mul64", "T2", size, 2)>> \o LimitRows
<1> TAKE size
<1>1. PICK L : L = [i \in 1 .. 4 |-> LET n == 2^(i - 1) IN AluImm("Add64", Limit(n), "T2", (LinearBase - 2 * n + 1) % M)]
    OBVIOUS
<1>2. EmitLimits(size) = <<AluImm("Mul64", "T2", size, 2)>> \o L  BY <1>1, Zenon DEF EmitLimits
<1>3. 2^0 = 1 /\ 2^1 = 2 /\ 2^2 = 4 /\ 2^3 = 8  BY SmallPowers, Zeroth
<1>4. L = [i \in 1 .. 4 |-> LimitRow(2^(i - 1))]  BY <1>1, Zenon DEF LimitRow
<1>5. PICK f : f = [i \in 0 .. 3 |-> LimitRow(2^i)]  OBVIOUS
<1>6. f[0] = LimitRow(1) /\ f[1] = LimitRow(2) /\ f[2] = LimitRow(4) /\ f[3] = LimitRow(8)  BY <1>3, <1>5
<1>7. L = [i \in 1 .. 4 |-> f[i - 1]]  BY <1>4, <1>5
<1>8. L = <<f[0], f[1], f[2], f[3]>>  BY <1>7
<1>9. L = LimitRows  BY <1>6, <1>8, Zenon DEF LimitRows
<1> QED BY <1>2, <1>9, Zenon

\* What they compute.
LEMMA LimitValue ==
  ASSUME NEW n, n \in {1, 2, 4, 8}, NEW y, y \in Nat,
         y <= HalfM, NEW d, d = 2 * y, NEW v, v = LimitWord(n, y)
  PROVE  /\ Evaluate("Add64", d, (LinearBase - 2 * n + 1) % M) = v /\ v \in Word
         /\ d \in Word /\ Evaluate("Mul64", y, 2) = d
<1>1. v \in Word  BY LimitWords DEF LimitWord
<1>2. LinearBase - 2 * n + 1 \in 0 .. M - 1 /\ M \in Nat  BY Sizes DEF LinearBase
<1>3. (LinearBase - 2 * n + 1) % M = LinearBase - 2 * n + 1  BY <1>2, RemainderSmall
<1>4. Evaluate("Add64", d, LinearBase - 2 * n + 1) = (d + (LinearBase - 2 * n + 1)) % M  BY Evaluates
<1>5. d + (LinearBase - 2 * n + 1) = v  BY DEF LimitWord, LinearBase
<1>6. v % M = v  BY <1>1, <1>2, RemainderSmall DEF Word
<1>7. d \in Nat /\ d < M /\ d = y * 2  BY Sizes
<1>8. MulWrap(y, 2) = d /\ d \in Word  BY <1>7, Fits
<1>9. Evaluate("Mul64", y, 2) = MulWrap(y, 2)  BY Evaluates
<1> QED BY <1>1, <1>3, <1>4, <1>5, <1>6, <1>8, <1>9

\* A row of emit_limits sets one limit,
LEMMA LimitSets ==
  ASSUME NEW rows, NEW m, NEW p, NEW z, NEW c, NEW s, s \in [Reg -> Word],
         NEW a, NEW b, NEW e, NEW f, NEW y, y \in Nat,
         y <= HalfM, NEW d, d = 2 * y, Comes(rows, m, p, z, c, s, a, b, d, e, f),
         NEW n, n \in {1, 2, 4, 8}, rows[p] = LimitRow(n), NEW t, t = Limit(n), NEW v,
         v = LimitWord(n, y), NEW k, k = p + 1
  PROVE  Gets(rows, m, k, z, c, s, t, v, a, b, d, e, f)
<1>1. PICK i : i = (LinearBase - 2 * n + 1) % M  OBVIOUS
<1>2. Evaluate("Add64", d, i) = v /\ v \in Word  BY <1>1, LimitValue
<1>3. Free(t)  BY LimitNames DEF Free
<1>4. rows[p] = AluImm("Add64", t, "T2", i) /\ "T2" \in Reg /\ Source(s, a, b, d, e, f, "T2") = d
    BY <1>1, RegNames DEF LimitRow, Source
<1> QED BY <1>2, <1>3, <1>4, ImmGets, Zenon

\* Registers like s, but for the limits, those of y bytes.
Limits == {"LB", "LH", "LW", "LD"}

Relimited(s, g, y) ==
    /\ g \in [Reg -> Word] /\ Limited(g, y)
    /\ \A x \in Reg : x \notin Limits => g[x] = s[x]

\* and the four of them all.
LEMMA LimitsSet ==
  ASSUME NEW s, NEW g, NEW h, NEW i, NEW j, NEW y, j \in [Reg -> Word],
         Sets(s, g, "LB", LimitWord(1, y)), Sets(g, h, "LH", LimitWord(2, y)),
         Sets(h, i, "LW", LimitWord(4, y)), Sets(i, j, "LD", LimitWord(8, y))
  PROVE  Relimited(s, j, y)
<1>1. "LB" \in Reg /\ "LH" \in Reg /\ "LW" \in Reg /\ "LD" \in Reg  BY RegNames
<1>2. /\ j["LB"] = LimitWord(1, y) /\ j["LH"] = LimitWord(2, y)
      /\ j["LW"] = LimitWord(4, y) /\ j["LD"] = LimitWord(8, y)
    BY <1>1 DEF Sets
<1>3. Limited(j, y)  BY <1>2 DEF Limited, Limit, LimitWord
<1>4. \A x \in Reg : x \notin Limits => j[x] = s[x]  BY DEF Sets, Limits
<1> QED BY <1>3, <1>4, Zenon DEF Relimited

\* The rows of emit_limits run.
LEMMA LimitRuns ==
  ASSUME NEW rows, NEW m, NEW p, p \in Nat, NEW z, NEW c, NEW s, s \in [Reg -> Word],
         NEW a, NEW b, NEW d, NEW e, NEW f, Comes(rows, m, p, z, c, s, a, b, d, e, f),
         NEW size, size \in Reg, NEW y, y \in Nat, y <= HalfM, Source(s, a, b, d, e, f, size) = y,
         NEW n, Placed(rows, p, EmitLimits(size), n)
  PROVE  \E g, u : Relimited(s, g, y) /\ Comes(rows, m, n, z, c, g, a, b, u, e, f)
<1>1. PICK S, T, W : S = <<AluImm("Mul64", "T2", size, 2)>> /\ T = LimitRows /\ W = EmitLimits(size)  OBVIOUS
<1>2. W = S \o T /\ IsSequence(S) /\ IsSequence(T)  BY <1>1, HasOne, HasFour, LimitForm DEF LimitRows
<1>3. Has(rows, p, W) /\ n = p + Len(W)  BY <1>1, Zenon DEF Placed
<1>4. Consecutive(rows, p, S, T, n)  BY <1>2, <1>3, Consecutively, Zenon
<1>5. PICK k : k \in Nat /\ k = p + Len(S) /\ n = k + Len(T) /\ Has(rows, p, S) /\ Has(rows, k, T)
    BY <1>4, Zenon DEF Consecutive
<1>6. OneAt(rows, p, k, AluImm("Mul64", "T2", size, 2))  BY <1>1, <1>5, RowsOne, Zenon
<1>7. FourAt(rows, k, n, LimitRow(1), LimitRow(2), LimitRow(4), LimitRow(8))
    BY <1>1, <1>5, RowsFour, Zenon DEF LimitRows
<1>8. k = p + 1 /\ rows[p] = AluImm("Mul64", "T2", size, 2)  BY <1>6, Zenon DEF OneAt
<1>9. PICK k1, k2, k3 : /\ k1 = k + 1 /\ k2 = k1 + 1 /\ k3 = k2 + 1 /\ n = k3 + 1
                        /\ rows[k] = LimitRow(1) /\ rows[k1] = LimitRow(2)
                        /\ rows[k2] = LimitRow(4) /\ rows[k3] = LimitRow(8)
  <2>1. PICK k1, k2, k3, k4 : /\ k1 = k + 1 /\ k2 = k1 + 1 /\ k3 = k2 + 1 /\ k4 = k3 + 1 /\ n = k4
                              /\ rows[k] = LimitRow(1) /\ rows[k1] = LimitRow(2)
                              /\ rows[k2] = LimitRow(4) /\ rows[k3] = LimitRow(8)
      BY <1>7 DEF FourAt
  <2> QED BY <2>1
<1>10. PICK u : u = 2 * y  OBVIOUS
<1>11. Comes(rows, m, k, z, c, s, a, b, u, e, f)
  <2>1. PICK w : w = LimitWord(1, y)  OBVIOUS
  <2>2. u \in Word /\ Evaluate("Mul64", y, 2) = u  BY <1>10, <2>1, LimitValue
  <2> QED BY <1>8, <2>2, ImmT2, Zenon
<1>12. 1 \in {1, 2, 4, 8} /\ 2 \in {1, 2, 4, 8} /\ 4 \in {1, 2, 4, 8} /\ 8 \in {1, 2, 4, 8}  OBVIOUS
<1>13. Limit(1) = "LB" /\ Limit(2) = "LH" /\ Limit(4) = "LW" /\ Limit(8) = "LD"  BY DEF Limit
<1>14. PICK g1 \in [Reg -> Word] : /\ Sets(s, g1, "LB", LimitWord(1, y)) /\ Comes(rows, m, k1, z, c, g1, a, b, u, e, f)
    BY <1>9, <1>10, <1>11, <1>12, <1>13, LimitSets, Zenon DEF Gets
<1>15. PICK g2 \in [Reg -> Word] : /\ Sets(g1, g2, "LH", LimitWord(2, y)) /\ Comes(rows, m, k2, z, c, g2, a, b, u, e, f)
  <2>1. Gets(rows, m, k2, z, c, g1, "LH", LimitWord(2, y), a, b, u, e, f)
      BY <1>9, <1>10, <1>14, <1>12, <1>13, LimitSets, Zenon
  <2> QED BY <2>1, Zenon DEF Gets
<1>16. PICK g3 \in [Reg -> Word] : /\ Sets(g2, g3, "LW", LimitWord(4, y)) /\ Comes(rows, m, k3, z, c, g3, a, b, u, e, f)
  <2>1. Gets(rows, m, k3, z, c, g2, "LW", LimitWord(4, y), a, b, u, e, f)
      BY <1>9, <1>10, <1>15, <1>12, <1>13, LimitSets, Zenon
  <2> QED BY <2>1, Zenon DEF Gets
<1>17. PICK g4 \in [Reg -> Word] : /\ Sets(g3, g4, "LD", LimitWord(8, y)) /\ Comes(rows, m, n, z, c, g4, a, b, u, e, f)
  <2>1. Gets(rows, m, n, z, c, g3, "LD", LimitWord(8, y), a, b, u, e, f)
      BY <1>9, <1>10, <1>16, <1>12, <1>13, LimitSets, Zenon
  <2> QED BY <2>1, Zenon DEF Gets
<1>18. Relimited(s, g4, y)  BY <1>14, <1>15, <1>16, <1>17, LimitsSet, Zenon
<1> QED BY <1>17, <1>18, Zenon

\* The size word is a word, and its pages are a shift of it.
LEMMA SizeWord ==
  ASSUME NEW z, NEW c, NEW e, Shape(z, c, e)
  PROVE  /\ z \in Nat /\ z <= HalfM /\ z \in Word /\ Memory(z, c)
         /\ Evaluate("Srl", z, Keep(PageBits)) = z \div PageBytes /\ z \div PageBytes \in Word
<1>1. z \in Nat /\ z <= HalfM  BY Pages, Sizes DEF Shape
<1>2. z \in Word  BY CellIs, Sizes, <1>1 DEF CellMask, Word
<1>3. Memory(z, c)  BY Shapes, Zenon
<1>4. PageBits \in Nat /\ PageBits < Bits /\ PageBytes = 2^PageBits  BY Pages, Sizes
<1>5. Evaluate("Srl", z, ShiftMask(PageBits)) = z \div 2^PageBits /\ z \div 2^PageBits \in Word
    BY <1>2, <1>4, ShiftIs
<1> QED BY <1>1, <1>2, <1>3, <1>4, <1>5 DEF Keep

\* A row that loads it,
LEMMA SizeComes ==
  ASSUME NEW rows, NEW m, NEW p, NEW z, NEW c, NEW h, Shape(z, c, h), NEW s, s["ZERO"] = 0,
         NEW a, NEW b, NEW d, NEW e, NEW f, Comes(rows, m, p, z, c, s, a, b, d, e, f),
         rows[p] = Load("T0", "ZERO", MemorySizeAddr), NEW n, n = p + 1
  PROVE  Comes(rows, m, n, z, c, s, z, b, d, e, f)
<1>1. Source(s, a, b, d, e, f, "ZERO") = 0 /\ "ZERO" \in Reg  BY RegNames DEF Source
<1>2. (0 + MemorySizeAddr) % M = MemorySizeAddr  BY Sizes, RemainderSmall DEF MemorySizeAddr
<1>3. z \in Word  BY SizeWord
<1>4. Fetches(rows, p, z, c, s, a, b, d, e, f, "T0", z)  BY <1>1, <1>2, <1>3 DEF Fetches
<1>5. Yields(rows, p, z, c, s, a, b, d, e, f, "T0", z)  BY <1>4, Zenon DEF Yields
<1> QED BY <1>5, YieldsT0, Zenon

\* and one that turns it into pages.
LEMMA PagesGets ==
  ASSUME NEW rows, NEW m, NEW p, NEW z, NEW c, NEW h, Shape(z, c, h), NEW s, s \in [Reg -> Word],
         NEW a, NEW g, NEW j, Shape(a, g, j), NEW b, NEW d, NEW e, NEW f,
         Comes(rows, m, p, z, c, s, a, b, d, e, f),
         NEW rd, Free(rd), rows[p] = PagesOf(rd), NEW n, n = p + 1
  PROVE  Gets(rows, m, n, z, c, s, rd, a \div PageBytes, a, b, d, e, f)
<1>1. Source(s, a, b, d, e, f, "T0") = a /\ "T0" \in Reg  BY RegNames DEF Source
<1>2. PICK v, k : v = a \div PageBytes /\ k = Keep(PageBits)  OBVIOUS
<1>3. Evaluate("Srl", a, k) = v /\ v \in Word  BY <1>2, SizeWord
<1>4. rows[p] = AluImm("Srl", rd, "T0", k)  BY <1>2, Zenon DEF PagesOf
<1>5. Gets(rows, m, n, z, c, s, rd, v, a, b, d, e, f)  BY <1>1, <1>3, <1>4, ImmGets, Zenon
<1> QED BY <1>2, <1>5, Zenon

\* The state the rows of an instruction without an address start in.
Begun(m, z, c, s) == s \in [Reg -> Word] /\ s["ZERO"] = 0 /\ m = At(1, s, z, c, "none")

\* memory.size does what it should.
LEMMA SizeRuns ==
  ASSUME NEW z, NEW c, NEW e, Shape(z, c, e), NEW s, NEW m, Begun(m, z, c, s), NEW rd, Free(rd),
         NEW rows, rows = EmitMemorySize(rd)
  PROVE  Finishes(rows, m, z, c, s, rd, z \div PageBytes)
<1>1. s \in [Reg -> Word] /\ s["ZERO"] = 0 /\ m = At(1, s, z, c, "none") /\ Memory(z, c)
    BY SizeWord, Zenon DEF Begun
<1>2. PICK a, b, d, f, g : Comes(rows, m, 1, z, c, s, a, b, d, f, g)  BY <1>1, Starts
<1>3. PICK one, two, three : one = 1 /\ two = one + 1 /\ three = two + 1  OBVIOUS
<1>4. rows[one] = Load("T0", "ZERO", MemorySizeAddr) /\ rows[two] = PagesOf(rd) /\ rows[three] = Rejoin
    BY <1>3 DEF EmitMemorySize
<1>5. Comes(rows, m, two, z, c, s, z, b, d, f, g)  BY <1>1, <1>2, <1>3, <1>4, SizeComes, Zenon
<1>6. Gets(rows, m, three, z, c, s, rd, z \div PageBytes, z, b, d, f, g)
    BY <1>1, <1>3, <1>4, <1>5, PagesGets, Zenon
<1> QED BY <1>4, <1>6, Zenon DEF Finishes

\* The limits' rows.
LEMMA LimitSequence == \A size : IsSequence(EmitLimits(size)) /\ Len(EmitLimits(size)) = 5
<1> TAKE size
<1>1. PICK S, T : S = <<AluImm("Mul64", "T2", size, 2)>> /\ T = LimitRows  OBVIOUS
<1>2. IsSequence(S) /\ Len(S) = 1  BY <1>1, HasOne
<1>3. IsSequence(T) /\ Len(T) = 4  BY HasFour, <1>1 DEF LimitRows
<1>4. EmitLimits(size) = S \o T  BY <1>1, LimitForm, Zenon
<1>5. PICK W : W = S \o T  OBVIOUS
<1>6. IsSequence(W) /\ Len(W) = 5
  <2>1. IsSequence(W) /\ Len(W) = Len(S) + Len(T)  BY <1>2, <1>3, <1>5, JoinIs, Zenon
  <2> QED BY <1>2, <1>3, <2>1
<1> QED BY <1>4, <1>5, <1>6, Zenon

\* The rows of the entry.
LEMMA EntryRuns ==
  ASSUME NEW z, NEW c, NEW e, Shape(z, c, e), NEW s, NEW m, Begun(m, z, c, s), NEW rows, rows = EmitEntry
  PROVE  \E g : Relimited(s, g, z) /\ Leaves(rows, m, z, c, g)
<1>1. s \in [Reg -> Word] /\ s["ZERO"] = 0 /\ m = At(1, s, z, c, "none") /\ Memory(z, c)
    BY SizeWord, Zenon DEF Begun
<1>2. PICK a, b, d, f, g : Comes(rows, m, 1, z, c, s, a, b, d, f, g)  BY <1>1, Starts
<1>3. PICK A, L, B, j : /\ A = <<Load("T0", "ZERO", MemorySizeAddr)>> /\ L = EmitLimits("T0") /\ B = <<Rejoin>>
                        /\ j = 1 + Len(rows)
    OBVIOUS
<1>4. IsSequence(A) /\ IsSequence(L) /\ IsSequence(B)  BY <1>3, HasOne, LimitSequence
<1>5. rows = A \o L \o B  BY <1>3, Zenon DEF EmitEntry
<1>6. Triple(rows, 1, A, L, B, j)
  <2>1. Has(rows, 1, rows) /\ 1 \in Nat  BY DEF Has
  <2> QED BY <1>3, <1>4, <1>5, <2>1, Tripled, Zenon
<1>7. PICK i, k : /\ i \in Nat /\ k \in Nat /\ i = 1 + Len(A) /\ k = i + Len(L) /\ j = k + Len(B)
                  /\ Has(rows, 1, A) /\ Has(rows, i, L) /\ Has(rows, k, B)
    BY <1>6, Zenon DEF Triple
<1>8. rows[1] = Load("T0", "ZERO", MemorySizeAddr) /\ i = 1 + 1  BY <1>3, <1>7, HasOne
<1>9. rows[k] = Rejoin  BY <1>3, <1>7, HasOne
<1>10. Comes(rows, m, i, z, c, s, z, b, d, f, g)  BY <1>1, <1>2, <1>8, SizeComes, Zenon
<1>11. PICK h, u : Relimited(s, h, z) /\ Comes(rows, m, k, z, c, h, z, b, u, f, g)
    BY RegNames, <1>3, <1>7, SizeWord, <1>1, <1>10, LimitRuns DEF Source, Placed
<1> QED BY <1>9, <1>11, Zenon DEF Leaves

\* The memory after it.
Larger(z, c, y, g) ==
    /\ \E h : Shape(y, g, h)
    /\ BytesOf(y, g) = GrownTo(BytesOf(z, c), z, y)

\* The memory grown keeps its bytes and adds zeros.
LEMMA GrowsLarger ==
  ASSUME NEW z, NEW c, NEW e, Shape(z, c, e), NEW delta, delta \in Nat, NEW y,
         y = z + delta * PageBytes, y <= MaxBytes,
         NEW g, g = Grows(c, Capped(y))
  PROVE  Larger(z, c, y, g)
<1>1. /\ z \in Nat /\ e \in Nat /\ z = 4 * e /\ c \in [0 .. e -> 0 .. CellMask] /\ c[e] = 0 /\ DOMAIN c = 0 .. e
    BY DEF Shape
<1>2. PICK p \in 0 .. MaxPages : z = p * PageBytes  BY DEF Shape
<1>3. PageBytes \in Nat /\ PageBytes >= 4 /\ MaxBytes = MaxPages * PageBytes /\ MaxPages \in Nat /\ MaxBytes \in Nat
    BY Pages
<1>4. PICK q : q = p + delta  OBVIOUS
<1>5. q \in Nat /\ y = q * PageBytes /\ y \in Nat  BY <1>2, <1>3, <1>4
<1>6. q \in 0 .. MaxPages
  <2>1. ASSUME q > MaxPages PROVE FALSE  BY <1>3, <1>5, <2>1
  <2> QED BY <1>3, <1>5, <2>1
<1>7. PICK h \in Nat : y = 4 * h /\ y \div CellBytes = h /\ CellsFor(y) - 1 = h  BY <1>5, Multiple
<1>8. Capped(y) = y  BY <1>3, <1>5 DEF Capped
<1>9. g = [j \in 0 .. h |-> IF j \in 0 .. e THEN c[j] ELSE 0] /\ e <= h
    BY <1>8, <1>3, <1>1, <1>7 DEF Grows
<1>10. Shape(y, g, h)
  <2>1. CellMask \in Nat  BY CellIs
  <2>2. g \in [0 .. h -> 0 .. CellMask] /\ g[h] = 0 /\ DOMAIN g = 0 .. h  BY <1>1, <1>9, <2>1
  <2> QED BY <1>5, <1>6, <1>7, <2>2 DEF Shape
<1>11. BytesOf(y, g) = GrownTo(BytesOf(z, c), z, y)
  <2>1. ASSUME NEW a \in 0 .. y - 1, a < z
        PROVE  (g[a \div CellBytes] \div 2^(ByteBits * (a % CellBytes))) % 2^ByteBits = BytesOf(z, c)[a]
    <3>1. a \div CellBytes \in 0 .. e /\ a \in 0 .. z - 1  BY <1>1, <2>1 DEF CellBytes
    <3>2. g[a \div CellBytes] = c[a \div CellBytes]  BY <1>1, <1>7, <1>9, <3>1
    <3> QED BY <3>1, <3>2 DEF BytesOf
  <2>2. ASSUME NEW a \in 0 .. y - 1, ~(a < z)
        PROVE  (g[a \div CellBytes] \div 2^(ByteBits * (a % CellBytes))) % 2^ByteBits = 0
    <3>1. a \div CellBytes \in e .. h  BY <1>1, <1>7, <2>2 DEF CellBytes
    <3>2. g[a \div CellBytes] = 0  BY <1>1, <1>9, <3>1
    <3>3. PICK w : w = 2^(ByteBits * (a % CellBytes))  OBVIOUS
    <3>4. w \in Nat \ {0} /\ 2^ByteBits \in Nat \ {0}  BY <1>5, Sizes, <3>3, PowerPositive DEF CellBytes
    <3>5. 0 \div w = 0 /\ 0 % 2^ByteBits = 0  BY <3>4, RemainderSmall
    <3> QED BY <3>2, <3>3, <3>5
  <2> QED BY <2>1, <2>2 DEF BytesOf, GrownTo
<1> QED BY <1>10, <1>11 DEF Larger

\* The words it computes.
LEMMA GrowWords ==
  ASSUME NEW z, NEW c, NEW e, Shape(z, c, e), NEW delta, delta \in 0 .. HalfM - 1,
         NEW x, x = delta * PageBytes, NEW y, y = z + x
  PROVE  /\ Evaluate("Mul64", delta, PageBytes) = x /\ x \in Word
         /\ Evaluate("Add64", z, x) = y /\ y \in Word
         /\ Evaluate("LeU", y, MaxBytes) = Bool(y <= MaxBytes)
<1>1. z \in Nat /\ z <= HalfM  BY SizeWord
<1>2. PageBytes \in Nat /\ HalfM \in Nat /\ M \in Nat /\ HalfM >= 256 /\ M = HalfM * HalfM  BY Pages, Sizes
<1>3. PageBytes + PageBytes <= HalfM  BY Pages, Sizes, PowerDoubles
<1>4. x \in Nat /\ x + x <= (HalfM - 1) * HalfM  BY <1>2, <1>3
<1>5. y \in Nat /\ y < M /\ x < M  BY <1>2, <1>1, <1>4
<1>6. MulWrap(delta, PageBytes) = x /\ x \in Word  BY <1>2, <1>5, Fits
<1>7. (z + x) % M = y /\ y \in Word  BY <1>2, <1>5, RemainderSmall DEF Word
<1> QED BY <1>6, <1>7, Evaluates

\* The row that writes the size word.
LEMMA SizePuts ==
  ASSUME NEW rows, NEW m, NEW p, NEW z, NEW c, NEW s, s["ZERO"] = 0,
         NEW a, NEW b, NEW d, NEW e, NEW f, Comes(rows, m, p, z, c, s, a, b, d, e, f),
         rows[p] = Store("ZERO", "T1", MemorySizeAddr), NEW g, g = Grows(c, Capped(b)), Memory(b, g), NEW n, n = p + 1
  PROVE  Comes(rows, m, n, b, g, s, a, b, d, e, f)
<1>1. PICK r : File(r, s, a, b, d, e, f) /\ Memory(z, c) /\ Leads(rows, m, At(p, r, z, c, "none"))
    BY Zenon DEF Comes
<1>2. r \in [Reg -> Word] /\ r["T1"] = b /\ r["ZERO"] = 0  BY RegNames, <1>1 DEF Temps, File
<1>3. (r["ZERO"] + MemorySizeAddr) % M = MemorySizeAddr
    BY Sizes, <1>2, RemainderSmall DEF MemorySizeAddr
<1>4. ~Holds(MemorySizeAddr, c)  BY DEF Holds, MemorySizeAddr, LinearBase
<1>5. Leads(rows, At(p, r, z, c, "none"), At(p + 1, r, r["T1"], Grows(c, Capped(r["T1"])), "none"))
    BY <1>1, <1>2, <1>3, <1>4, SizeStoreGoes, Zenon
<1>6. Leads(rows, At(p, r, z, c, "none"), At(n, r, b, g, "none"))  BY <1>2, <1>5, Zenon
<1>7. Leads(rows, m, At(n, r, b, g, "none"))  BY <1>1, <1>6, LeadsOn, Zenon
<1> QED BY <1>1, <1>7, Zenon DEF Comes

\* The rows of emit_memory_grow.
GrowAt(rows, rd, rs) ==
    \E p1, p2, p3, p4, p5, p6, p7, p12, p13, p14, p15 :
        /\ p1 = 1 /\ p2 = p1 + 1 /\ p3 = p2 + 1 /\ p4 = p3 + 1 /\ p5 = p4 + 1 /\ p6 = p5 + 1 /\ p7 = p6 + 1
        /\ p13 = p12 + 1 /\ p7 \in Nat
        /\ rows[p1] = Load("T0", "ZERO", MemorySizeAddr) /\ rows[p2] = AluImm("Mul64", "T1", rs, PageBytes)
        /\ rows[p3] = Alu("Add64", "T1", "T0", R("T1")) /\ rows[p4] = AluImm("LeU", "T2", "T1", MaxBytes)
        /\ rows[p5] = BranchIfZero("T2", p14) /\ rows[p6] = Store("ZERO", "T1", MemorySizeAddr)
        /\ Placed(rows, p7, EmitLimits("T1"), p12) /\ rows[p12] = PagesOf(rd) /\ rows[p13] = Jump(p15)
        /\ rows[p14] = Const(rd, HalfM - 1) /\ rows[p15] = Rejoin /\ p15 = p14 + 1

\* Where the rows of memory.grow lie.
LEMMA GrowLayout ==
  ASSUME NEW rd, NEW rs, NEW rows, rows = EmitMemoryGrow(rd, rs)
  PROVE  GrowAt(rows, rd, rs)
<1>1. PICK A, L, T, S, P, G, B, J : /\ L = EmitLimits("T1")
                        /\ T = <<Load("T0", "ZERO", MemorySizeAddr), AluImm("Mul64", "T1", rs, PageBytes),
                                 Alu("Add64", "T1", "T0", R("T1")), AluImm("LeU", "T2", "T1", MaxBytes)>>
                        /\ S = <<Store("ZERO", "T1", MemorySizeAddr)>> /\ P = <<PagesOf(rd)>> /\ G = S \o L \o P
                        /\ B = <<BranchIfZero("T2", 14)>> /\ A = T \o B
                        /\ J = <<Jump(15), Const(rd, HalfM - 1), Rejoin>>
    OBVIOUS
<1>2. /\ IsSequence(L) /\ IsSequence(T) /\ IsSequence(S) /\ IsSequence(P) /\ IsSequence(B) /\ IsSequence(J)
      /\ Len(L) = 5 /\ Len(T) = 4 /\ Len(S) = 1 /\ Len(P) = 1 /\ Len(B) = 1 /\ Len(J) = 3
    BY HasFour, HasThree, HasOne, <1>1, LimitSequence
<1>3. IsSequence(A) /\ Len(A) = 5
  <2>1. IsSequence(A) /\ Len(A) = Len(T) + Len(B)  BY <1>1, <1>2, JoinIs, Zenon
  <2> QED BY <1>2, <2>1
<1>4. IsSequence(G) /\ Len(G) = 7
  <2>1. PICK U : U = S \o L  OBVIOUS
  <2>2. IsSequence(U) /\ Len(U) = Len(S) + Len(L)  BY <1>2, <2>1, JoinIs, Zenon
  <2>3. G = U \o P  BY <1>1, <2>1, Zenon
  <2>4. IsSequence(G) /\ Len(G) = Len(U) + Len(P)  BY <1>2, <2>2, <2>3, JoinIs, Zenon
  <2> QED BY <1>2, <2>2, <2>4
<1>5. rows = A \o G \o J  BY <1>2, <1>4, <1>1 DEF EmitMemoryGrow, GrowRows
<1>6. PICK j : j = 1 + Len(rows)  OBVIOUS
<1>7. Triple(rows, 1, A, G, J, j)
  <2>1. Has(rows, 1, rows) /\ 1 \in Nat  BY DEF Has
  <2> QED BY <1>2, <1>3, <1>4, <1>5, <1>6, <2>1, Tripled, Zenon
<1>8. PICK p6, p13 : /\ p6 \in Nat /\ p13 \in Nat /\ p6 = 1 + Len(A) /\ p13 = p6 + Len(G) /\ j = p13 + Len(J)
                     /\ Has(rows, 1, A) /\ Has(rows, p6, G) /\ Has(rows, p13, J)
    BY <1>7, Zenon DEF Triple
<1>9. p6 = 6 /\ p13 = 13 /\ j = 16  BY <1>2, <1>3, <1>4, <1>8
<1>10. Consecutive(rows, 1, T, B, p6)  BY <1>1, <1>2, <1>8, Consecutively
<1>11. PICK p5 : p5 \in Nat /\ p5 = 1 + Len(T) /\ Has(rows, 1, T) /\ Has(rows, p5, B)
    BY <1>10, Zenon DEF Consecutive
<1>12. p5 = 5  BY <1>2, <1>11
<1>13. Triple(rows, p6, S, L, P, p13)  BY <1>1, <1>2, <1>8, Tripled, Zenon
<1>14. PICK p7, p12 : /\ p7 \in Nat /\ p12 \in Nat /\ p7 = p6 + Len(S) /\ p12 = p7 + Len(L) /\ p13 = p12 + Len(P)
                      /\ Has(rows, p6, S) /\ Has(rows, p7, L) /\ Has(rows, p12, P)
    BY <1>13, Zenon DEF Triple
<1>15. p7 = p6 + 1 /\ p13 = p12 + 1 /\ p6 = p5 + 1  BY <1>2, <1>9, <1>12, <1>14
<1>16. /\ rows[p5] = BranchIfZero("T2", 14) /\ rows[p6] = Store("ZERO", "T1", MemorySizeAddr) /\ rows[p12] = PagesOf(rd)
    BY <1>1, <1>8, <1>11, <1>14, HasOne
<1>17. /\ rows[1] = Load("T0", "ZERO", MemorySizeAddr) /\ rows[2] = AluImm("Mul64", "T1", rs, PageBytes)
       /\ rows[3] = Alu("Add64", "T1", "T0", R("T1")) /\ rows[4] = AluImm("LeU", "T2", "T1", MaxBytes)
    BY HasFour, <1>1, <1>11
<1>18. rows[p13] = Jump(15) /\ rows[14] = Const(rd, HalfM - 1) /\ rows[15] = Rejoin
    BY <1>8, HasThree, <1>1, <1>9
<1>19. Placed(rows, p7, EmitLimits("T1"), p12)  BY <1>1, <1>14, Zenon DEF Placed
<1>20. PICK p1, p2, p3, p4, p14, p15 : p1 = 1 /\ p2 = 2 /\ p3 = 3 /\ p4 = 4 /\ p14 = 14 /\ p15 = 15  OBVIOUS
<1>21. /\ p2 = p1 + 1 /\ p3 = p2 + 1 /\ p4 = p3 + 1 /\ p5 = p4 + 1 /\ p15 = p14 + 1  BY <1>12, <1>20
<1>22. /\ rows[p1] = Load("T0", "ZERO", MemorySizeAddr) /\ rows[p2] = AluImm("Mul64", "T1", rs, PageBytes)
       /\ rows[p3] = Alu("Add64", "T1", "T0", R("T1")) /\ rows[p4] = AluImm("LeU", "T2", "T1", MaxBytes)
       /\ rows[p5] = BranchIfZero("T2", p14) /\ rows[p13] = Jump(p15)
       /\ rows[p14] = Const(rd, HalfM - 1) /\ rows[p15] = Rejoin
    BY <1>16, <1>17, <1>18, <1>20, Zenon
<1>23. p1 = 1 /\ p6 = p5 + 1 /\ p7 = p6 + 1 /\ p13 = p12 + 1 /\ p7 \in Nat  BY <1>14, <1>15, <1>20
<1>24. /\ p1 = 1 /\ p2 = p1 + 1 /\ p3 = p2 + 1 /\ p4 = p3 + 1 /\ p5 = p4 + 1 /\ p6 = p5 + 1 /\ p7 = p6 + 1
       /\ p13 = p12 + 1 /\ p7 \in Nat
       /\ rows[p1] = Load("T0", "ZERO", MemorySizeAddr) /\ rows[p2] = AluImm("Mul64", "T1", rs, PageBytes)
       /\ rows[p3] = Alu("Add64", "T1", "T0", R("T1")) /\ rows[p4] = AluImm("LeU", "T2", "T1", MaxBytes)
       /\ rows[p5] = BranchIfZero("T2", p14) /\ rows[p6] = Store("ZERO", "T1", MemorySizeAddr)
       /\ Placed(rows, p7, EmitLimits("T1"), p12) /\ rows[p12] = PagesOf(rd) /\ rows[p13] = Jump(p15)
       /\ rows[p14] = Const(rd, HalfM - 1) /\ rows[p15] = Rejoin /\ p15 = p14 + 1
    BY <1>16, <1>19, <1>21, <1>22, <1>23, Zenon
<1> QED BY <1>24, SMT DEF GrowAt

\* What the rows of memory.grow do with room for y bytes, and without.
GrowDone(rows, m, z, c, s, rd, y) ==
    IF y <= MaxBytes
    THEN \E g, h : /\ Larger(z, c, y, h) /\ Relimited(s, g, y)
                   /\ Finishes(rows, m, y, h, g, rd, z \div PageBytes)
    ELSE Finishes(rows, m, z, c, s, rd, HalfM - 1)

\* memory.grow does what it should.
LEMMA GrowRuns ==
  ASSUME NEW z, NEW c, NEW e, Shape(z, c, e), NEW s, NEW m, Begun(m, z, c, s), NEW rd, Free(rd),
         NEW rs, rs \in Reg, rs \notin Temps, NEW delta, s[rs] = delta, delta \in 0 .. HalfM - 1,
         NEW y, y = z + delta * PageBytes,
         NEW rows, rows = EmitMemoryGrow(rd, rs)
  PROVE  GrowDone(rows, m, z, c, s, rd, y)
<1>1. s \in [Reg -> Word] /\ s["ZERO"] = 0 /\ m = At(1, s, z, c, "none") /\ Memory(z, c) /\ z \in Nat /\ z <= HalfM
    BY SizeWord, Zenon DEF Begun
<1>2. PICK a, b, d, f, g : Comes(rows, m, 1, z, c, s, a, b, d, f, g)  BY <1>1, Starts
<1>3. GrowAt(rows, rd, rs)  BY GrowLayout, Zenon
<1>4. PICK p1, p2, p3, p4, p5, p6, p7, p12, p13, p14, p15 :
        /\ p1 = 1 /\ p2 = p1 + 1 /\ p3 = p2 + 1 /\ p4 = p3 + 1 /\ p5 = p4 + 1 /\ p6 = p5 + 1 /\ p7 = p6 + 1
        /\ p13 = p12 + 1 /\ p7 \in Nat
        /\ rows[p1] = Load("T0", "ZERO", MemorySizeAddr) /\ rows[p2] = AluImm("Mul64", "T1", rs, PageBytes)
        /\ rows[p3] = Alu("Add64", "T1", "T0", R("T1")) /\ rows[p4] = AluImm("LeU", "T2", "T1", MaxBytes)
        /\ rows[p5] = BranchIfZero("T2", p14) /\ rows[p6] = Store("ZERO", "T1", MemorySizeAddr)
        /\ Placed(rows, p7, EmitLimits("T1"), p12) /\ rows[p12] = PagesOf(rd) /\ rows[p13] = Jump(p15)
        /\ rows[p14] = Const(rd, HalfM - 1) /\ rows[p15] = Rejoin /\ p15 = p14 + 1
    BY <1>3, Zenon DEF GrowAt
<1>5. PICK x, u : x = delta * PageBytes /\ u = Bool(y <= MaxBytes)  OBVIOUS
<1>6. y = z + x  BY <1>5, Zenon
<1>7. /\ Evaluate("Mul64", delta, PageBytes) = x /\ x \in Word
      /\ Evaluate("Add64", z, x) = y /\ y \in Word
      /\ Evaluate("LeU", y, MaxBytes) = u
    BY <1>5, <1>6, GrowWords, Zenon
<1>8. u \in Word /\ u \in {0, 1} /\ (u = 1 <=> y <= MaxBytes)  BY <1>5, Sizes DEF Bool, Word
<1>9. "ZERO" \in Reg /\ "T0" \in Reg /\ "T1" \in Reg /\ "T2" \in Reg  BY RegNames
<1>10. Comes(rows, m, p2, z, c, s, z, b, d, f, g)  BY <1>1, <1>2, <1>4, SizeComes, Zenon
<1>11. Comes(rows, m, p3, z, c, s, z, x, d, f, g)  BY <1>4, <1>7, <1>10, ImmT1 DEF Source, Temps
<1>12. Comes(rows, m, p4, z, c, s, z, y, d, f, g)  BY <1>4, <1>7, <1>9, <1>11, RegT1 DEF Source
<1>13. Comes(rows, m, p5, z, c, s, z, y, u, f, g)  BY <1>4, <1>7, <1>8, <1>9, <1>12, ImmT2 DEF Source
<1>14. /\ Source(s, z, y, u, f, g, "T2") = u /\ Source(s, z, y, u, f, g, "ZERO") = 0
       /\ rows[p5] = Branch("Eq", "T2", "ZERO", p14)
    BY <1>1, <1>4 DEF Source, BranchIfZero
<1>15. ASSUME y <= MaxBytes PROVE GrowDone(rows, m, z, c, s, rd, y)
  <2>1. Evaluate("Eq", u, 0) # 1  BY <1>8, <1>15, Evaluates DEF Bool
  <2>2. Comes(rows, m, p6, z, c, s, z, y, u, f, g)
    <3>1. Evaluate("Eq", Source(s, z, y, u, f, g, "T2"), Source(s, z, y, u, f, g, "ZERO")) # 1
        BY <1>14, <2>1, Zenon
    <3>2. p6 = p5 + 1  BY <1>4, Zenon
    <3> QED BY <1>9, <1>13, <1>14, <3>1, <3>2, FallsComes
  <2>3. PICK h : h = Grows(c, Capped(y))  OBVIOUS
  <2>4. Larger(z, c, y, h)  BY Sizes, <1>15, <2>3, GrowsLarger
  <2>5. PICK k : Shape(y, h, k)  BY <2>4, Zenon DEF Larger
  <2>6. Memory(y, h) /\ y \in Nat /\ y <= HalfM  BY <2>5, SizeWord, Zenon
  <2>7. Comes(rows, m, p7, y, h, s, z, y, u, f, g)  BY <1>1, <1>4, <2>2, <2>3, <2>6, SizePuts, Zenon
  <2>8. PICK i, w : Relimited(s, i, y) /\ Comes(rows, m, p12, y, h, i, z, y, w, f, g)
      BY <1>4, <1>1, <1>9, <2>6, <2>7, LimitRuns DEF Source
  <2>9. i \in [Reg -> Word]  BY <2>8, Zenon DEF Relimited
  <2>10. Gets(rows, m, p13, y, h, i, rd, z \div PageBytes, z, y, w, f, g)
      BY <1>4, <2>5, <2>8, <2>9, PagesGets, Zenon
  <2>11. Gives(rows, m, p13, y, h, i, rd, z \div PageBytes, y, w, f, g)  BY <2>10, Zenon DEF Gives
  <2>12. Finishes(rows, m, y, h, i, rd, z \div PageBytes)  BY <1>4, <2>11, GivesJumps, Zenon
  <2> QED BY <1>15, <2>4, <2>8, <2>12, Zenon DEF GrowDone
<1>16. ASSUME ~(y <= MaxBytes) PROVE GrowDone(rows, m, z, c, s, rd, y)
  <2>1. Evaluate("Eq", u, 0) = 1  BY <1>8, <1>16, Evaluates DEF Bool
  <2>2. Comes(rows, m, p14, z, c, s, z, y, u, f, g)  BY <1>14, <2>1, <1>9, <1>13, TakenComes, Zenon
  <2>3. PICK v : v = HalfM - 1  OBVIOUS
  <2>4. v \in Word /\ Evaluate("Add64", 0, v) = v
      BY <2>3, CellIs, Sizes, RemainderSmall, Evaluates DEF CellMask, Word
  <2>5. rows[p14] = AluImm("Add64", rd, "ZERO", v)  BY <1>4, <2>3, Zenon DEF Const
  <2>6. Gets(rows, m, p15, z, c, s, rd, v, z, y, u, f, g)
      BY <1>1, <1>4, <1>9, <1>14, <2>2, <2>4, <2>5, ImmGets, Zenon
  <2>7. Finishes(rows, m, z, c, s, rd, v)  BY <1>4, <2>6, Zenon DEF Finishes
  <2> QED BY <1>16, <2>3, <2>7, Zenon DEF GrowDone
<1> QED BY <1>15, <1>16, Zenon

-----------------------------------------------------------------------------
(* The operator returns to the guest's state *)

\* The registers between instructions,
Settled(s, z) == s \in [Reg -> Word] /\ s["ZERO"] = 0 /\ Limited(s, z)

\* what a request was issued on,
Issued(b, z, c) == b.bytes = BytesOf(z, c) /\ b.size = z

\* and what becomes of it.
Does(q, b, z, c, out) == Done(q, b, BytesOf(z, c), z, out)

\* The limits and the zero register do not change with the scratch registers.
LEMMA SettledFile ==
  ASSUME NEW s, NEW z, Settled(s, z), NEW r, NEW a, NEW b, NEW d, NEW e, NEW f, File(r, s, a, b, d, e, f)
  PROVE  Settled(r, z) /\ \A x \in Reg : x \notin Temps => r[x] = s[x]
<1>1. r \in [Reg -> Word] /\ \A x \in Reg : x \notin Temps => r[x] = s[x]  BY Zenon DEF File
<1>2. r["ZERO"] = 0  BY RegNames, <1>1 DEF Temps, Settled
<1>3. Limited(r, z)
  <2>1. ASSUME NEW n \in {1, 2, 4, 8} PROVE r[Limit(n)] = 2 * z + LinearBase + 1 - 2 * n
      BY LimitNames, <1>1 DEF Settled, Limited
  <2> QED BY <2>1, Zenon DEF Limited
<1> QED BY <1>1, <1>2, <1>3, Zenon DEF Settled

\* Nor with the register of a result.
LEMMA SettledSets ==
  ASSUME NEW s, NEW z, Settled(s, z), NEW rd, rd \in {"A", "D"}, NEW g,
         g \in [Reg -> Word], NEW v, Sets(s, g, rd, v)
  PROVE  Settled(g, z)
<1>1. g \in [Reg -> Word] /\ \A x \in Reg : x # rd => g[x] = s[x]  BY Zenon DEF Sets
<1>2. g["ZERO"] = 0  BY RegNames, <1>1 DEF Settled
<1>3. Limited(g, z)
  <2>1. ASSUME NEW n \in {1, 2, 4, 8} PROVE g[Limit(n)] = 2 * z + LinearBase + 1 - 2 * n
      BY LimitNames, <1>1 DEF Settled, Limited
  <2> QED BY <2>1, Zenon DEF Limited
<1> QED BY <1>1, <1>2, <1>3, Zenon DEF Settled

\* New limits settle the registers.
LEMMA SettledLimits ==
  ASSUME NEW s, s \in [Reg -> Word], s["ZERO"] = 0, NEW z, NEW g, Relimited(s, g, z)
  PROVE  Settled(g, z)
<1>1. g["ZERO"] = 0  BY RegNames DEF Limits, Relimited
<1> QED BY <1>1, Zenon DEF Settled, Relimited

\* Where the rows stop with out.
LEMMA StopEnds ==
  ASSUME NEW rows, NEW m, NEW k, NEW z, NEW c, NEW r, Memory(z, c), Settled(r, z),
         Leads(rows, m, At(k, r, z, c, "none")), rows[k] = Rejoin,
         NEW q, NEW b, NEW out, Does(q, b, z, c, out), Result(q, r) = out
  PROVE  Safe(rows, m, q, b)
<1>1. PICK n : n = At(k, r, z, c, "none")  OBVIOUS
<1>2. n.p = k /\ n.r = r /\ n.z = z /\ n.c = c /\ n.t = "none"  BY <1>1, Fields
<1>3. r \in [Reg -> Word] /\ r["ZERO"] = 0 /\ Limited(r, z)  BY Zenon DEF Settled
<1>4. WellTyped(n)  BY <1>1, <1>3, StateTyped, Zenon
<1>5. Stopped(rows, n)  BY <1>2 DEF Stopped, Rejoin
<1>6. Ends(q, b, n)  BY <1>2, <1>3, Zenon DEF Ends, Does
<1> QED BY <1>1, <1>4, <1>5, <1>6, StopsSafe, LeadsSafe, Zenon

\* A result in rd,
Returns(q, rd) == q.op \in {"load", "size", "grow"} /\ q.rd = rd /\ rd \in {"A", "D"}

\* Rows that end with the result are safe,
LEMMA FinishSafe ==
  ASSUME NEW rows, NEW m, NEW z, NEW c, NEW s, NEW rd, NEW v, Finishes(rows, m, z, c, s, rd, v),
         Settled(s, z),
         NEW q, Returns(q, rd), NEW b, Does(q, b, z, c, v)
  PROVE  Safe(rows, m, q, b)
<1>1. PICK k, a, f, d, e, h : Gets(rows, m, k, z, c, s, rd, v, a, f, d, e, h) /\ rows[k] = Rejoin
    BY Zenon DEF Finishes
<1>2. PICK g \in [Reg -> Word] : Sets(s, g, rd, v) /\ Comes(rows, m, k, z, c, g, a, f, d, e, h)
    BY <1>1, Zenon DEF Gets
<1>3. PICK r : File(r, g, a, f, d, e, h) /\ Memory(z, c) /\ Leads(rows, m, At(k, r, z, c, "none"))
    BY <1>2, Zenon DEF Comes
<1>4. rd \in {"A", "D"} /\ q.rd = rd /\ q.op \in {"load", "size", "grow"}  BY Zenon DEF Returns
<1>5. Settled(g, z)  BY <1>2, <1>4, SettledSets, Zenon
<1>6. Settled(r, z) /\ r[rd] = v  BY <1>4, RegNames, <1>2, <1>3, <1>5, SettledFile DEF Temps, Sets
<1>7. Result(q, r) = v  BY <1>4, <1>6, Zenon DEF Result
<1> QED BY <1>1, <1>3, <1>6, <1>7, StopEnds, Zenon

\* none,
Returnless(q) == q.op \in {"entry", "store"}

\* as are those that end without one
LEMMA LeaveSafe ==
  ASSUME NEW rows, NEW m, NEW z, NEW c, NEW s, Leaves(rows, m, z, c, s), Settled(s, z),
         NEW q, Returnless(q), NEW b, Does(q, b, z, c, 0)
  PROVE  Safe(rows, m, q, b)
<1>1. PICK k, a, f, d, e, h : Comes(rows, m, k, z, c, s, a, f, d, e, h) /\ rows[k] = Rejoin
    BY Zenon DEF Leaves
<1>2. PICK r : File(r, s, a, f, d, e, h) /\ Memory(z, c) /\ Leads(rows, m, At(k, r, z, c, "none"))
    BY <1>1, Zenon DEF Comes
<1>3. Settled(r, z)  BY <1>2, SettledFile, Zenon
<1>4. Result(q, r) = 0  BY DEF Result, Returnless
<1> QED BY <1>1, <1>2, <1>3, <1>4, StopEnds, Zenon

\* and a trap.
Outside(q, b) == q.op \in {"load", "store"} /\ ~Inside(q, b)

\* and those that trap out of bounds.
LEMMA TrapSafe ==
  ASSUME NEW rows, NEW m, NEW z, NEW c, Traps(rows, m, z, c), Memory(z, c),
         NEW q, NEW b, Outside(q, b), Issued(b, z, c)
  PROVE  Safe(rows, m, q, b)
<1>1. PICK r \in [Reg -> Word] : Leads(rows, m, At(3, r, z, c, "OutOfBounds"))  BY Zenon DEF Traps
<1>2. PICK n : n = At(3, r, z, c, "OutOfBounds")  OBVIOUS
<1>3. n.z = z /\ n.c = c /\ n.t # "none"  BY <1>2, Fields
<1>4. WellTyped(n)  BY <1>2, StateTyped, Zenon
<1>5. Stopped(rows, n)  BY <1>3 DEF Stopped
<1>6. Ends(q, b, n)  BY <1>3, Zenon DEF Ends, Outside, Issued
<1> QED BY <1>1, <1>2, <1>4, <1>5, <1>6, StopsSafe, LeadsSafe, Zenon

\* The state an instruction's rows start in.
Fresh(m, s, z, c, b) ==
    Settled(s, z) /\ Memory(z, c) /\ m = At(1, s, z, c, "none") /\ Issued(b, z, c)

\* The rows of the entry stub are safe,
LEMMA EntrySafe ==
  ASSUME NEW s, s \in [Reg -> Word], s["ZERO"] = 0, NEW z, NEW c, Memory(z, c),
         NEW m, m = At(1, s, z, c, "none"), NEW b, Issued(b, z, c), NEW q, q.op = "entry",
         NEW rows, rows = EmitEntry
  PROVE  Safe(rows, m, q, b)
<1>1. PICK e : Shape(z, c, e)  BY Shapes, Zenon
<1>2. Begun(m, z, c, s)  BY Zenon DEF Begun
<1>3. PICK g : Relimited(s, g, z) /\ Leaves(rows, m, z, c, g)  BY <1>1, <1>2, EntryRuns, Zenon
<1>4. Settled(g, z)  BY <1>3, SettledLimits, Zenon
<1>5. Does(q, b, z, c, 0)  BY Zenon DEF Does, Done, Issued
<1>6. Returnless(q)  BY DEF Returnless
<1> QED BY <1>3, <1>4, <1>5, <1>6, LeaveSafe, Zenon

\* of memory.size,
LEMMA SizeSafe ==
  ASSUME NEW s, NEW z, NEW c, NEW m, NEW b, Fresh(m, s, z, c, b), NEW rd, rd \in {"A", "D"},
         NEW q, q.op = "size", q.rd = rd, NEW rows, rows = EmitMemorySize(rd)
  PROVE  Safe(rows, m, q, b)
<1>1. Settled(s, z) /\ m = At(1, s, z, c, "none") /\ Issued(b, z, c) /\ Memory(z, c)  BY Zenon DEF Fresh
<1>2. PICK e : Shape(z, c, e)  BY <1>1, Shapes, Zenon
<1>3. Begun(m, z, c, s)  BY <1>1, Zenon DEF Begun, Settled
<1>4. Free(rd)  BY RegNames DEF Free, Temps
<1>5. PICK v : v = z \div PageBytes  OBVIOUS
<1>6. Finishes(rows, m, z, c, s, rd, v)  BY <1>2, <1>3, <1>4, <1>5, SizeRuns, Zenon
<1>7. Does(q, b, z, c, v)  BY <1>1, <1>5, Zenon DEF Does, Done, Issued
<1>8. Returns(q, rd)  BY DEF Returns
<1> QED BY <1>1, <1>6, <1>7, <1>8, FinishSafe, Zenon

\* of memory.grow,
LEMMA GrowSafe ==
  ASSUME NEW s, NEW z, NEW c, NEW m, NEW b, Fresh(m, s, z, c, b), NEW rd, rd \in {"A", "D"},
         NEW delta, delta \in 0 .. HalfM - 1, s["A"] = delta,
         NEW q, q.op = "grow", q.rd = rd, q.delta = delta, NEW rows, rows = EmitMemoryGrow(rd, "A")
  PROVE  Safe(rows, m, q, b)
<1>1. Settled(s, z) /\ m = At(1, s, z, c, "none") /\ Issued(b, z, c) /\ Memory(z, c)  BY Zenon DEF Fresh
<1>2. PICK e : Shape(z, c, e)  BY <1>1, Shapes, Zenon
<1>3. Begun(m, z, c, s)  BY <1>1, Zenon DEF Begun, Settled
<1>4. Free(rd) /\ "A" \in Reg /\ "A" \notin Temps  BY RegNames DEF Free, Temps
<1>5. PICK y, v, f : y = z + delta * PageBytes /\ v = z \div PageBytes /\ f = HalfM - 1  OBVIOUS
<1>6. GrowDone(rows, m, z, c, s, rd, y)  BY <1>2, <1>3, <1>4, <1>5, GrowRuns, Zenon
<1>7. Returns(q, rd)  BY DEF Returns
<1>8. CASE y <= MaxBytes
  <2>1. PICK g, h : Larger(z, c, y, h) /\ Relimited(s, g, y) /\ Finishes(rows, m, y, h, g, rd, v)
      BY <1>5, <1>6, <1>8, Zenon DEF GrowDone
  <2>2. Settled(g, y)  BY <1>1, <2>1, SettledLimits, Zenon DEF Settled
  <2>3. BytesOf(y, h) = GrownTo(BytesOf(z, c), z, y)  BY <2>1, Zenon DEF Larger
  <2>4. b.bytes = BytesOf(z, c) /\ b.size = z  BY <1>1, Zenon DEF Issued
  <2>5. b.size + q.delta * PageBytes = y  BY <1>5, <2>4, Zenon
  <2>6. Done(q, b, BytesOf(y, h), y, v)  BY <1>5, <2>4, <2>3, <1>8, <2>5, Zenon DEF Done
  <2> QED BY <1>7, <2>1, <2>2, <2>6, FinishSafe, Zenon DEF Does
<1>9. CASE ~(y <= MaxBytes)
  <2>1. Finishes(rows, m, z, c, s, rd, f)  BY <1>5, <1>6, <1>9, Zenon DEF GrowDone
  <2>2. b.bytes = BytesOf(z, c) /\ b.size = z  BY <1>1, Zenon DEF Issued
  <2>3. b.size + q.delta * PageBytes = y  BY <1>5, <2>2, Zenon
  <2>4. b.size + q.delta * PageBytes > MaxBytes  BY <1>2, SizeWord, Sizes, Pages, <1>5, <1>9, <2>3
  <2>5. Done(q, b, BytesOf(z, c), z, f)  BY <1>5, <2>2, <2>4, Zenon DEF Done
  <2> QED BY <1>1, <1>7, <2>1, <2>5, FinishSafe, Zenon DEF Does
<1> QED BY <1>8, <1>9, Zenon

\* The state of an access.
LEMMA AccessFresh ==
  ASSUME NEW s, NEW z, NEW c, NEW m, NEW b, Fresh(m, s, z, c, b),
         NEW base, base \in 0 .. HalfM - 1, s["A"] = base, NEW offset, offset \in 0 .. HalfM - 1,
         NEW n, n \in {1, 2, 4, 8}, NEW r, r = base + offset
  PROVE  Access(m, z, c, s, "A", base, offset, n, r)
<1>1. s \in [Reg -> Word] /\ s["ZERO"] = 0 /\ Limited(s, z) /\ m = At(1, s, z, c, "none")
    BY Zenon DEF Fresh, Settled
<1>2. "A" \in Reg /\ "A" \notin Temps  BY RegNames DEF Temps
<1>3. s[Limit(n)] = 2 * z + LinearBase + 1 - 2 * n  BY <1>1, Zenon DEF Limited
<1> QED BY <1>1, <1>2, <1>3, Zenon DEF Access

\* Its request.
Asks(q, base, offset, n, r) ==
    /\ q.base = base /\ q.offset = offset /\ q.width = n /\ r = base + offset

\* (an access and its bounds)
LEMMA AsksInside ==
  ASSUME NEW q, NEW base, NEW offset, NEW n, NEW r, Asks(q, base, offset, n, r),
         NEW z, NEW c, NEW b, Issued(b, z, c)
  PROVE  /\ Inside(q, b) <=> r + n <= z
         /\ q.base + q.offset = r /\ q.width = n /\ b.bytes = BytesOf(z, c) /\ b.size = z
<1> QED BY Zenon DEF Asks, Issued, Inside

\* A load's.
LoadAsks(q, base, offset, n, signed, w, rd, r) ==
    /\ base \in 0 .. HalfM - 1 /\ offset \in 0 .. HalfM - 1 /\ LoadForm(n, signed, w) /\ rd \in {"A", "D"}
    /\ Asks(q, base, offset, n, r) /\ q.op = "load" /\ q.signed = signed /\ q.bits = Wide(w) /\ q.rd = rd

\* of a load
LEMMA LoadSafe ==
  ASSUME NEW s, NEW z, NEW c, NEW m, NEW b, Fresh(m, s, z, c, b), NEW base, s["A"] = base, NEW offset,
         NEW n, NEW signed, NEW w, NEW rd, NEW r, NEW q, LoadAsks(q, base, offset, n, signed, w, rd, r),
         NEW rows, rows = EmitLoad(rd, "A", offset, n, signed, w)
  PROVE  Safe(rows, m, q, b)
<1>0. /\ base \in 0 .. HalfM - 1 /\ offset \in 0 .. HalfM - 1 /\ LoadForm(n, signed, w) /\ rd \in {"A", "D"}
      /\ Asks(q, base, offset, n, r) /\ q.op = "load" /\ q.signed = signed /\ q.bits = Wide(w) /\ q.rd = rd
    BY Zenon DEF LoadAsks
<1>1. Settled(s, z) /\ Issued(b, z, c) /\ Memory(z, c)  BY Zenon DEF Fresh
<1>2. PICK e : Shape(z, c, e)  BY <1>1, Shapes, Zenon
<1>3. Access(m, z, c, s, "A", base, offset, n, r)  BY <1>0, AccessFresh, Zenon DEF Asks, LoadForm
<1>4. Free(rd)  BY <1>0, RegNames DEF Free, Temps
<1>5. LoadDone(rows, m, z, c, s, r, n, w, signed, rd)  BY <1>0, <1>2, <1>3, <1>4, LoadRuns, Zenon
<1>6. /\ Inside(q, b) <=> r + n <= z
      /\ q.base + q.offset = r /\ q.width = n /\ b.bytes = BytesOf(z, c) /\ b.size = z
  <2>1. Asks(q, base, offset, n, r) /\ Issued(b, z, c)  BY <1>0, <1>1, Zenon
  <2> QED BY <2>1, AsksInside, Zenon
<1>7. CASE r + n <= z
  <2>1. PICK v : v = Loaded(z, c, r, n, Wide(w), signed)  OBVIOUS
  <2>2. Finishes(rows, m, z, c, s, rd, v)  BY <1>5, <1>7, <2>1, Zenon DEF LoadDone
  <2>3. LoadedFrom(q, b.bytes) = v  BY <1>0, <1>6, <2>1 DEF LoadedFrom, Extended, Loaded
  <2>4. Done(q, b, BytesOf(z, c), z, v)  BY <1>0, <1>6, <1>7, <2>3, Zenon DEF Done
  <2>5. Returns(q, rd)  BY <1>0 DEF Returns
  <2> QED BY <1>1, <2>2, <2>4, <2>5, FinishSafe, Zenon DEF Does
<1>8. CASE ~(r + n <= z)  BY <1>5, <1>8, <1>0, <1>6, <1>1, TrapSafe DEF LoadDone, Outside
<1> QED BY <1>7, <1>8, Zenon

\* and of a store.
LEMMA StoreSafe ==
  ASSUME NEW s, NEW z, NEW c, NEW m, NEW b, Fresh(m, s, z, c, b),
         NEW base, base \in 0 .. HalfM - 1, s["A"] = base, NEW offset, offset \in 0 .. HalfM - 1,
         NEW n, NEW wide, NEW v, StoreForm(n, wide, v), NEW value, value \in {"A", "B"},
         s[value] = v, NEW r,
         NEW q, Asks(q, base, offset, n, r), q.op = "store", q.value = v,
         NEW rows, rows = EmitStore("A", value, wide, offset, n)
  PROVE  Safe(rows, m, q, b)
<1>1. Settled(s, z) /\ Issued(b, z, c) /\ Memory(z, c)  BY Zenon DEF Fresh
<1>2. PICK e : Shape(z, c, e)  BY <1>1, Shapes, Zenon
<1>3. Access(m, z, c, s, "A", base, offset, n, r)  BY AccessFresh, Zenon DEF Asks, StoreForm
<1>4. Holding(s, value, v)  BY RegNames, <1>1 DEF Temps, Holding, Settled
<1>5. StoreDone(rows, m, z, c, e, s, r, n, v)  BY <1>2, <1>3, <1>4, StoreRuns, Zenon
<1>6. /\ Inside(q, b) <=> r + n <= z
      /\ q.base + q.offset = r /\ q.width = n /\ b.bytes = BytesOf(z, c) /\ b.size = z
    BY <1>1, AsksInside, Zenon
<1>7. CASE r + n <= z
  <2>1. PICK g : /\ Shape(z, g, e) /\ BytesOf(z, g) = Patched(BytesOf(z, c), r, n, 0, v)
                 /\ Leaves(rows, m, z, g, s)
      BY <1>5, <1>7, Zenon DEF StoreDone, Stores
  <2>2. BytesOf(z, g) = StoredIn(q, b.bytes)
    <3>1. PICK f : f = BytesOf(z, c)  OBVIOUS
    <3>2. DOMAIN f = 0 .. z - 1 /\ z \in Nat  BY <1>2, <3>1, ByteIs, SizeWord
    <3>3. r \in Nat  BY Sizes DEF Asks
    <3>4. \A a \in DOMAIN f : 0 + (a - r) = a - r  BY <3>2, <3>3
    <3>5. Patched(f, r, n, 0, v) = [a \in DOMAIN f |-> IF a \in r .. r + n - 1 THEN Group(v, ByteBits, a - r) ELSE f[a]]
        BY <3>4, Zenon DEF Patched
    <3>6. StoredIn(q, f) = [a \in DOMAIN f |-> IF a \in r .. r + n - 1 THEN Group(v, ByteBits, a - r) ELSE f[a]]
        BY <1>6, Zenon DEF StoredIn
    <3> QED BY <1>6, <2>1, <3>1, <3>5, <3>6, Zenon
  <2>3. Done(q, b, BytesOf(z, g), z, 0)  BY <1>6, <1>7, <2>2, Zenon DEF Done
  <2>4. Returnless(q)  BY DEF Returnless
  <2> QED BY <1>1, <2>1, <2>3, <2>4, LeaveSafe, Zenon DEF Does
<1>8. CASE ~(r + n <= z)  BY <1>5, <1>8, <1>6, <1>1, TrapSafe DEF StoreDone, Outside
<1> QED BY <1>7, <1>8, Zenon

\* The cells of the initial contents hold them.
CellsOf(c, f, z)  == c = [j \in 0 .. CellsFor(z) - 1 |-> CellOf(f, z, j)]

Contains(z, c, f) == Memory(z, c) /\ BytesOf(z, c) = [a \in 0 .. z - 1 |-> f[a]]

\* The cells the program starts with hold its data.
LEMMA EntryMemory ==
  ASSUME NEW p, p \in 0 .. MaxPages, NEW z, z = p * PageBytes,
         NEW f, f \in [0 .. MaxBytes - 1 -> 0 .. 2^ByteBits - 1],
         NEW c, CellsOf(c, f, z)
  PROVE  Contains(z, c, f)
<1>1. p \in Nat /\ MaxPages \in Nat /\ MaxBytes = MaxPages * PageBytes /\ MaxBytes \in Nat /\ PageBytes \in Nat
    BY Pages
<1>2. PICK e \in Nat : z = 4 * e /\ z \div CellBytes = e /\ CellsFor(z) - 1 = e  BY <1>1, Multiple
<1>3. z \in Nat /\ z <= MaxBytes  BY <1>1
<1>4. c = [j \in 0 .. e |-> CellOf(f, z, j)]  BY <1>2, Zenon DEF CellsOf
<1>5. ByteBits \in Nat /\ CellMask = 2^(ByteBits * 4) - 1 /\ CellMask \in Nat  BY CellIs, Sizes
<1>6. ASSUME NEW j \in 0 .. e - 1
      PROVE  c[j] \in 0 .. CellMask /\ \A i \in 0 .. 3 : Group(c[j], ByteBits, i) = f[4 * j + i]
  <2>1. PICK d0, d1, d2, d3 : d0 = f[4 * j + 0] /\ d1 = f[4 * j + 1] /\ d2 = f[4 * j + 2] /\ d3 = f[4 * j + 3]
      OBVIOUS
  <2>2. \A i \in 0 .. 3 : 4 * j + i < z /\ 4 * j + i \in 0 .. MaxBytes - 1
    <3>1. PICK y : y = MaxBytes  OBVIOUS
    <3>2. y \in Nat /\ z \in Nat /\ z <= y /\ z = 4 * e  BY <1>1, <1>2, <1>3, <3>1, Zenon
    <3> QED BY <3>1, <3>2
  <2>3. /\ d0 \in 0 .. 2^ByteBits - 1 /\ d1 \in 0 .. 2^ByteBits - 1
        /\ d2 \in 0 .. 2^ByteBits - 1 /\ d3 \in 0 .. 2^ByteBits - 1
    <3>1. \A a \in 0 .. MaxBytes - 1 : f[a] \in 0 .. 2^ByteBits - 1  OBVIOUS
    <3>2. 0 \in 0 .. 3 /\ 1 \in 0 .. 3 /\ 2 \in 0 .. 3 /\ 3 \in 0 .. 3  OBVIOUS
    <3> QED BY <2>1, <2>2, <3>1, <3>2, Zenon
  <2>4. c[j] = d0 * 2^(ByteBits * 0) + d1 * 2^(ByteBits * 1) + d2 * 2^(ByteBits * 2) + d3 * 2^(ByteBits * 3)
      BY <1>2, <1>4, <2>2, <2>1 DEF CellOf, CellBytes
  <2>5. /\ c[j] \in 0 .. 2^(ByteBits * 4) - 1
        /\ Group(c[j], ByteBits, 0) = d0 /\ Group(c[j], ByteBits, 1) = d1
        /\ Group(c[j], ByteBits, 2) = d2 /\ Group(c[j], ByteBits, 3) = d3
    <3>1. Four(c[j], ByteBits, d0, d1, d2, d3)  BY <1>5, <2>3, <2>4, FourBytes, Zenon
    <3> QED BY <3>1, Zenon DEF Four
  <2>6. ASSUME NEW i \in 0 .. 3 PROVE Group(c[j], ByteBits, i) = f[4 * j + i]
    <3>1. i = 0 \/ i = 1 \/ i = 2 \/ i = 3  OBVIOUS
    <3> QED BY <2>1, <2>5, <3>1, Zenon
  <2> QED BY <1>5, <2>5, <2>6, Zenon
<1>7. c[e] = 0  BY <1>2, <1>4 DEF CellOf, CellBytes
<1>8. Shape(z, c, e)
  <2>1. \A j \in 0 .. e : c[j] \in 0 .. CellMask  BY <1>2, <1>5, <1>6, <1>7
  <2>2. c \in [0 .. e -> 0 .. CellMask] /\ DOMAIN c = 0 .. e  BY <1>4, <2>1
  <2>3. \E t \in 0 .. MaxPages : z = t * PageBytes  OBVIOUS
  <2> QED BY <1>2, <1>3, <1>7, <2>2, <2>3, Zenon DEF Shape
<1>9. BytesOf(z, c) = [a \in 0 .. z - 1 |-> f[a]]
  <2>1. /\ DOMAIN BytesOf(z, c) = 0 .. z - 1 /\ Reads(BytesOf(z, c), c, e)
        /\ \A a \in 0 .. z - 1 : \E j \in 0 .. e - 1, i \in 0 .. 3 : a = 4 * j + i
    <3>1. DOMAIN BytesOf(z, c) = 0 .. z - 1  BY <1>8, ByteIs, Zenon
    <3>2. Reads(BytesOf(z, c), c, e)  BY <1>8, ByteIs, Zenon
    <3>3. \A a \in 0 .. z - 1 : \E j \in 0 .. e - 1, i \in 0 .. 3 : a = 4 * j + i
      <4>1. TAKE a \in 0 .. z - 1
      <4>2. a \div 4 \in 0 .. e - 1 /\ a % 4 \in 0 .. 3 /\ a = 4 * (a \div 4) + (a % 4)  BY <1>2
      <4> QED BY <4>2
    <3> QED BY <3>1, <3>2, <3>3, Zenon
  <2>2. ASSUME NEW a \in 0 .. z - 1 PROVE BytesOf(z, c)[a] = f[a]
    <3>1. PICK j \in 0 .. e - 1, i \in 0 .. 3 : a = 4 * j + i  BY <2>1, Zenon
    <3>2. BytesOf(z, c)[4 * j + i] = Group(c[j], ByteBits, i)  BY <2>1, Zenon DEF Reads
    <3> QED BY <1>6, <3>1, <3>2, Zenon
  <2>3. BytesOf(z, c) = [a \in DOMAIN BytesOf(z, c) |-> BytesOf(z, c)[a]]  BY DEF BytesOf
  <2>4. [a \in 0 .. z - 1 |-> BytesOf(z, c)[a]] = [a \in 0 .. z - 1 |-> f[a]]  BY <2>2
  <2> QED BY <2>1, <2>3, <2>4, Zenon
<1>10. Memory(z, c)  BY <1>8, Shapes, Zenon
<1> QED BY <1>9, <1>10, Zenon DEF Contains

-----------------------------------------------------------------------------
(* The invariant *)

\* From any state the rows still to run do what the instruction asks for.
Returning(q) == q.op \in {"load", "size", "grow"} => q.rd \in Reg

IInv ==
    /\ Safe(code, Now, request, before)
    /\ Returning(request)

\* The memory's bytes.
LEMMA WasmBytesAre == WasmBytes = BytesOf(sizeWord, linear)
<1> QED BY Zenon DEF WasmBytes, ByteAt, BytesOf

\* The state, field by field.
LEMMA NowFields ==
  Now.p = pc /\ Now.r = regs /\ Now.z = sizeWord /\ Now.c = linear /\ Now.t = trap
<1> QED BY Fields DEF Now

\* Wherever the rows are,
LEMMA NowTyped ==
  ASSUME IInv
  PROVE  regs \in [Reg -> Word] /\ trap \in {"none", "OutOfBounds"} /\ Memory(sizeWord, linear)
<1>1. WellTyped(Now)  BY SafeStops, Zenon DEF IInv
<1> QED BY <1>1, NowFields, Zenon DEF WellTyped

\* and where they stop.
LEMMA NowEnds ==
  ASSUME IInv, trap # "none" \/ Row.row = "rejoin"
  PROVE  /\ trap = "none" => /\ Settled(regs, sizeWord)
                             /\ Does(request, before, sizeWord, linear, Result(request, regs))
         /\ trap # "none" => /\ Outside(request, before)
                             /\ BytesOf(sizeWord, linear) = before.bytes /\ sizeWord = before.size
<1>1. Stopped(code, Now)  BY NowFields, Zenon DEF Stopped, Row
<1>2. Ends(request, before, Now)  BY <1>1, SafeStops, Zenon DEF IInv
<1>3. regs \in [Reg -> Word]  BY NowTyped
<1>4. ASSUME trap = "none"
      PROVE  Settled(regs, sizeWord) /\ Does(request, before, sizeWord, linear, Result(request, regs))
    BY <1>2, <1>3, <1>4, NowFields, Zenon DEF Ends, Settled, Does
<1>5. ASSUME trap # "none"
      PROVE  /\ Outside(request, before)
             /\ BytesOf(sizeWord, linear) = before.bytes /\ sizeWord = before.size
    BY <1>2, <1>5, NowFields, Zenon DEF Ends, Outside
<1> QED BY <1>4, <1>5, Zenon

\* It holds at the start,
LEMMA InitHolds == Init => IInv
<1> SUFFICES ASSUME Init PROVE IInv
    OBVIOUS
<1>1. PICK p \in InitialPages, data \in Data :
        /\ sizeWord = p * PageBytes
        /\ linear = [j \in 0 .. CellsFor(p * PageBytes) - 1 |-> CellOf(data, p * PageBytes, j)]
        /\ before = [size  |-> p * PageBytes, bytes |-> [a \in 0 .. p * PageBytes - 1 |-> data[a]]]
    BY Zenon DEF Init
<1>2. PICK z : z = p * PageBytes  OBVIOUS
<1>3. p \in 0 .. MaxPages /\ data \in [0 .. MaxBytes - 1 -> 0 .. 2^ByteBits - 1]  BY MemoryAssumption
<1>4. CellsOf(linear, data, z)  BY <1>1, <1>2, Zenon DEF CellsOf
<1>5. Memory(z, linear) /\ BytesOf(z, linear) = [a \in 0 .. z - 1 |-> data[a]]
  <2>1. Contains(z, linear, data)  BY <1>2, <1>3, <1>4, EntryMemory, Zenon
  <2> QED BY <2>1, Zenon DEF Contains
<1>6. Issued(before, z, linear)  BY <1>1, <1>2, <1>5 DEF Issued
<1>7. code = EmitEntry /\ pc = 1 /\ regs = [r \in Reg |-> 0] /\ trap = "none" /\ request = [op |-> "entry"]
    BY DEF Init
<1>8. regs \in [Reg -> Word] /\ regs["ZERO"] = 0  BY Sizes, <1>7, RegNames DEF Word
<1>9. request.op = "entry" /\ Returning(request)  BY <1>7 DEF Returning
<1>10. Now = At(1, regs, z, linear, "none")  BY <1>1, <1>2, <1>7, Zenon DEF Now
<1>11. Safe(code, Now, request, before)  BY <1>5, <1>6, <1>7, <1>8, <1>9, <1>10, EntrySafe, Zenon
<1> QED BY <1>9, <1>11, Zenon DEF IInv

\* the rows keep it,
LEMMA StepHolds == IInv /\ Step => IInv'
<1> SUFFICES ASSUME IInv, Step PROVE IInv'
    OBVIOUS
<1>1. request' = request /\ before' = before  BY Zenon DEF Step
<1>2. Moves(code, Now, Now') /\ code' = code  BY StepMoves
<1>3. Safe(code, Now', request, before)  BY <1>2, SafeMoves, Zenon DEF IInv
<1> QED BY <1>1, <1>2, <1>3, Zenon DEF IInv, Returning

\* and so does a stutter.
LEMMA StutterHolds == IInv /\ UNCHANGED vars => IInv'
<1> SUFFICES ASSUME IInv, UNCHANGED vars PROVE IInv'
    OBVIOUS
<1>1. /\ code' = code /\ pc' = pc /\ regs' = regs /\ trap' = trap /\ sizeWord' = sizeWord /\ linear' = linear
      /\ request' = request /\ before' = before
    BY DEF vars, machine
<1>2. Now' = Now  BY <1>1, Zenon DEF Now
<1> QED BY <1>1, <1>2, Zenon DEF IInv, Returning

-----------------------------------------------------------------------------
(* The initial states, and each operator, keep it *)

\* The rows do not end where they start.
Opens(rows) == rows[1].row # "rejoin"

\* No operator's rows are at their end when they start: an access's,
LEMMA AccessOpens ==
  ASSUME NEW addr, NEW offset, NEW n, NEW hot, NEW cold, IsSequence(hot), IsSequence(cold),
         NEW rows, rows = WithCold(EmitAddress(addr, offset, n), n, hot, cold)
  PROVE  Opens(rows)
<1>1. PICK address : address = EmitAddress(addr, offset, n)  OBVIOUS
<1>2. IsSequence(address) /\ Len(address) = 5  BY <1>1, AddressRows, Zenon
<1>3. Has(rows, 1, address)  BY <1>1, <1>2, AddressFirst, Zenon
<1>4. rows[1] = Alu("Add64", "T0", addr, R(addr))  BY <1>1, <1>3, HasFive DEF EmitAddress
<1> QED BY <1>4 DEF Opens, Alu

\* a load's,
LEMMA LoadOpens ==
  ASSUME NEW n, NEW signed, NEW w, LoadForm(n, signed, w), NEW rd, NEW addr, NEW offset,
         NEW rows, rows = EmitLoad(rd, addr, offset, n, signed, w)
  PROVE  Opens(rows)
<1>1. PICK hot, cold : hot = HotLoad(rd, n, signed, w) /\ cold = ColdLoad(rd, n, signed, w)  OBVIOUS
<1>2. IsSequence(hot) /\ IsSequence(cold)  BY <1>1, LoadSequences, Zenon
<1>3. rows = WithCold(EmitAddress(addr, offset, n), n, hot, cold)  BY <1>1, Zenon DEF EmitLoad
<1> QED BY <1>2, <1>3, AccessOpens, Zenon

\* a store's,
LEMMA StoreOpens ==
  ASSUME NEW n, NEW wide, NEW v, StoreForm(n, wide, v), NEW value, NEW addr, NEW offset,
         NEW rows, rows = EmitStore(addr, value, wide, offset, n)
  PROVE  Opens(rows)
<1>1. PICK hot, cold : hot = HotStore(value, n, wide) /\ cold = ColdStore(value, n)  OBVIOUS
<1>2. IsSequence(hot) /\ IsSequence(cold)  BY <1>1, StoreSequences, Zenon
<1>3. rows = WithCold(EmitAddress(addr, offset, n), n, hot, cold)  BY <1>1, Zenon DEF EmitStore
<1> QED BY <1>2, <1>3, AccessOpens, Zenon

\* those of memory.size
LEMMA SizeOpens == \A rd : Opens(EmitMemorySize(rd))
<1> QED BY DEF Opens, EmitMemorySize, Load

\* and of memory.grow.
LEMMA GrowOpens ==
  ASSUME NEW rd, NEW rs, NEW rows, rows = EmitMemoryGrow(rd, rs)
  PROVE  Opens(rows)
<1>1. GrowAt(rows, rd, rs)  BY GrowLayout, Zenon
<1>2. PICK p : p = 1 /\ rows[p] = Load("T0", "ZERO", MemorySizeAddr)  BY <1>1 DEF GrowAt
<1> QED BY <1>2 DEF Opens, Load

\* the entry stub's
LEMMA EntryOpens ==
  ASSUME NEW rows, rows = EmitEntry
  PROVE  Opens(rows)
<1>1. PICK A, L, B, j : /\ A = <<Load("T0", "ZERO", MemorySizeAddr)>> /\ L = EmitLimits("T0") /\ B = <<Rejoin>>
                        /\ j = 1 + Len(rows)
    OBVIOUS
<1>2. IsSequence(A) /\ IsSequence(L) /\ IsSequence(B)  BY <1>1, HasOne, LimitSequence
<1>3. rows = A \o L \o B  BY <1>1, Zenon DEF EmitEntry
<1>4. Triple(rows, 1, A, L, B, j)
  <2>1. Has(rows, 1, rows) /\ 1 \in Nat  BY DEF Has
  <2> QED BY <1>1, <1>2, <1>3, <2>1, Tripled, Zenon
<1>5. Has(rows, 1, A)  BY <1>4, Zenon DEF Triple
<1>6. rows[1] = Load("T0", "ZERO", MemorySizeAddr)  BY <1>1, <1>5, HasOne
<1> QED BY <1>6 DEF Opens, Load

\* The next instruction starts on the bytes the last one left,
LEMMA IssueFresh ==
  ASSUME IInv, Finished, NEW q, NEW a, a \in Word, NEW v, v \in Word, NEW rows, Issue(q, a, v, rows)
  PROVE  /\ Fresh(Now', regs', sizeWord', linear', before')
         /\ regs'["A"] = a /\ regs'["B"] = v /\ code' = rows /\ request' = q /\ pc' = 1 /\ trap' = "none"
         /\ before' = [bytes |-> WasmBytes, size |-> sizeWord]
<1>1. /\ code' = rows /\ pc' = 1 /\ request' = q /\ regs' = [regs EXCEPT !["A"] = a, !["B"] = v]
      /\ before' = [bytes |-> WasmBytes, size |-> sizeWord]
      /\ trap' = trap /\ sizeWord' = sizeWord /\ linear' = linear
    BY DEF Issue
<1>2. trap = "none" /\ Row.row = "rejoin"  BY DEF Finished
<1>3. Settled(regs, sizeWord) /\ Memory(sizeWord, linear)  BY <1>2, NowEnds, NowTyped, Zenon
<1>4. regs \in [Reg -> Word] /\ "A" \in Reg /\ "B" \in Reg /\ "ZERO" \in Reg
    BY <1>3, RegNames, Zenon DEF Settled
<1>5. PICK s : s = regs'  OBVIOUS
<1>6. s \in [Reg -> Word] /\ s["A"] = a /\ s["B"] = v /\ \A x \in Reg : x \notin {"A", "B"} => s[x] = regs[x]
    BY <1>1, <1>4, <1>5
<1>7. Settled(s, sizeWord)
  <2>1. s["ZERO"] = 0  BY <1>3, <1>4, <1>6, Zenon DEF Settled
  <2>2. ASSUME NEW n \in {1, 2, 4, 8} PROVE s[Limit(n)] = 2 * sizeWord + LinearBase + 1 - 2 * n
      BY LimitNames, <1>3, <1>6 DEF Settled, Limited
  <2> QED BY <1>6, <2>1, <2>2, Zenon DEF Settled, Limited
<1>8. Now' = At(1, s, sizeWord, linear, "none")  BY <1>1, <1>2, <1>5, Zenon DEF Now
<1>9. Issued(before', sizeWord, linear)  BY <1>1, WasmBytesAre DEF Issued
<1>10. Fresh(Now', s, sizeWord, linear, before')  BY <1>3, <1>7, <1>8, <1>9, Zenon DEF Fresh
<1> QED BY <1>1, <1>2, <1>5, <1>6, <1>10, Zenon

\* and runs rightly.
Launches ==
    /\ IInv' /\ pc' = 1 /\ trap' = "none" /\ Opens(code')
    /\ before' = [bytes |-> WasmBytes, size |-> sizeWord]

\* A load starts right,
LEMMA LoadLaunches ==
  ASSUME IInv, LoadOp
  PROVE  Launches
<1>1. PICK base \in Bases, offset \in Offsets, n \in Widths, signed \in BOOLEAN, w \in {32, 64}, rd \in {"A", "D"} :
           /\ n = 8 => w = 64 /\ ~signed
           /\ n = 4 /\ w = 32 => ~signed
           /\ Issue([op |-> "load", base |-> base, offset |-> offset, width |-> n,
                     signed |-> signed, bits |-> IF w = 32 THEN H ELSE Bits, rd |-> rd],
                    base, regs["B"], EmitLoad(rd, "A", offset, n, signed, w))
    BY DEF LoadOp
<1>2. PICK q : q = [op |-> "load", base |-> base, offset |-> offset, width |-> n,
                     signed |-> signed, bits |-> IF w = 32 THEN H ELSE Bits, rd |-> rd]
    OBVIOUS
<1>3. PICK rows, r, u : rows = EmitLoad(rd, "A", offset, n, signed, w) /\ r = base + offset /\ u = regs["B"]
    OBVIOUS
<1>4. Finished  BY Zenon DEF LoadOp, Ready
<1>5. base \in 0 .. HalfM - 1 /\ offset \in 0 .. HalfM - 1 /\ n \in {1, 2, 4, 8} /\ base \in Word
    BY MemoryAssumption, CellIs DEF CellMask
<1>6. LoadForm(n, signed, w)  BY <1>1, <1>5, Zenon DEF LoadForm
<1>7. /\ Fresh(Now', regs', sizeWord', linear', before')
      /\ regs'["A"] = base /\ regs'["B"] = u /\ code' = rows /\ request' = q /\ pc' = 1 /\ trap' = "none"
      /\ before' = [bytes |-> WasmBytes, size |-> sizeWord]
    BY <1>3, NowTyped, RegNames, <1>1, <1>2, <1>4, <1>5, IssueFresh
<1>8. /\ Asks(q, base, offset, n, r) /\ q.op = "load" /\ q.signed = signed /\ q.bits = Wide(w) /\ q.rd = rd
    BY <1>2, <1>3 DEF Asks, Wide
<1>9. Safe(rows, Now', q, before')
  <2>1. PICK s, z, c, m, b : s = regs' /\ z = sizeWord' /\ c = linear' /\ m = Now' /\ b = before'  OBVIOUS
  <2>2. Fresh(m, s, z, c, b) /\ s["A"] = base  BY <1>7, <2>1, Zenon
  <2>3. Safe(rows, m, q, b)
    <3>1. LoadAsks(q, base, offset, n, signed, w, rd, r)  BY <1>5, <1>6, <1>8, Zenon DEF LoadAsks
    <3>2. rows = EmitLoad(rd, "A", offset, n, signed, w)  BY <1>3, Zenon
    <3> HIDE DEF EmitLoad
    <3> QED BY <2>2, <3>1, <3>2, LoadSafe, SMT
  <2> QED BY <2>1, <2>3, Zenon
<1>10. Returning(q)  BY RegNames, <1>8 DEF Returning
<1>11. IInv'  BY <1>7, <1>9, <1>10, Zenon DEF IInv, Returning
<1>12. Opens(rows)  BY <1>3, <1>6, LoadOpens, Zenon
<1> QED BY <1>7, <1>11, <1>12, Zenon DEF Launches

\* so does a store,
LEMMA StoreLaunches ==
  ASSUME IInv, StoreOp
  PROVE  Launches
<1>1. PICK base \in Bases, offset \in Offsets, n \in Widths, wide \in BOOLEAN, reg \in {"A", "B"}, v \in Values \cup Bases :
           /\ n = 8 => wide
           /\ ~wide => v < HalfM
           /\ IF reg = "A" THEN v = base ELSE v \in Values
           /\ Issue([op |-> "store", base |-> base, offset |-> offset, width |-> n, value |-> v],
                    base, IF reg = "A" THEN regs["B"] ELSE v, EmitStore("A", reg, wide, offset, n))
    BY DEF StoreOp
<1>2. PICK q : q = [op |-> "store", base |-> base, offset |-> offset, width |-> n, value |-> v]  OBVIOUS
<1>3. PICK rows, r, u : /\ rows = EmitStore("A", reg, wide, offset, n) /\ r = base + offset
                        /\ u = IF reg = "A" THEN regs["B"] ELSE v
    OBVIOUS
<1>4. Finished  BY Zenon DEF StoreOp, Ready
<1>5. base \in 0 .. HalfM - 1 /\ offset \in 0 .. HalfM - 1 /\ n \in {1, 2, 4, 8} /\ base \in Word
    BY MemoryAssumption, CellIs DEF CellMask
<1>6. v \in Word /\ u \in Word  BY <1>1, <1>5, MemoryAssumption, NowTyped, RegNames, <1>3
<1>7. StoreForm(n, wide, v)  BY <1>1, <1>5, <1>6, Zenon DEF StoreForm
<1>8. /\ Fresh(Now', regs', sizeWord', linear', before')
      /\ regs'["A"] = base /\ regs'["B"] = u /\ code' = rows /\ request' = q /\ pc' = 1 /\ trap' = "none"
      /\ before' = [bytes |-> WasmBytes, size |-> sizeWord]
    BY <1>1, <1>2, <1>3, <1>4, <1>5, <1>6, IssueFresh, Zenon
<1>9. regs'[reg] = v  BY <1>1, <1>3, <1>8
<1>10. Asks(q, base, offset, n, r) /\ q.op = "store" /\ q.value = v  BY <1>2, <1>3 DEF Asks
<1>11. Safe(rows, Now', q, before')  BY <1>3, <1>5, <1>7, <1>8, <1>9, <1>10, StoreSafe, Zenon
<1>12. Returning(q)  BY <1>10 DEF Returning
<1>13. IInv'  BY <1>8, <1>11, <1>12, Zenon DEF IInv, Returning
<1>14. Opens(rows)  BY <1>3, <1>7, StoreOpens, Zenon
<1> QED BY <1>8, <1>13, <1>14, Zenon DEF Launches

\* memory.size
LEMMA SizeLaunches ==
  ASSUME IInv, SizeOp
  PROVE  Launches
<1>1. PICK q, rows : q = [op |-> "size", rd |-> "D"] /\ rows = EmitMemorySize("D")  OBVIOUS
<1>2. Finished /\ Issue(q, regs["A"], regs["B"], rows)  BY <1>1, Zenon DEF SizeOp, Ready
<1>3. regs["A"] \in Word /\ regs["B"] \in Word /\ "D" \in Reg /\ "D" \in {"A", "D"}  BY NowTyped, RegNames
<1>4. /\ Fresh(Now', regs', sizeWord', linear', before')
      /\ code' = rows /\ request' = q /\ pc' = 1 /\ trap' = "none"
      /\ before' = [bytes |-> WasmBytes, size |-> sizeWord]
    BY <1>2, <1>3, IssueFresh, Zenon
<1>5. q.op = "size" /\ q.rd = "D"  BY <1>1
<1>6. Safe(rows, Now', q, before')  BY <1>1, <1>3, <1>4, <1>5, SizeSafe, Zenon
<1>7. Returning(q)  BY <1>3, <1>5, Zenon DEF Returning
<1>8. IInv'  BY <1>4, <1>6, <1>7, Zenon DEF IInv, Returning
<1>9. Opens(rows)  BY <1>1, SizeOpens, Zenon
<1> QED BY <1>4, <1>8, <1>9, Zenon DEF Launches

\* and memory.grow,
LEMMA GrowLaunches ==
  ASSUME IInv, GrowOp
  PROVE  Launches
<1>1. PICK delta \in Deltas, rd \in {"A", "D"} :
           Issue([op |-> "grow", delta |-> delta, rd |-> rd], delta, regs["B"], EmitMemoryGrow(rd, "A"))
    BY DEF GrowOp
<1>2. PICK q, rows : q = [op |-> "grow", delta |-> delta, rd |-> rd] /\ rows = EmitMemoryGrow(rd, "A")
    OBVIOUS
<1>3. Finished /\ Issue(q, delta, regs["B"], rows)  BY <1>1, <1>2, Zenon DEF GrowOp, Ready
<1>4. regs["B"] \in Word /\ rd \in Reg  BY NowTyped, RegNames
<1>5. delta \in 0 .. HalfM - 1 /\ delta \in Word  BY MemoryAssumption, CellIs DEF CellMask
<1>6. /\ Fresh(Now', regs', sizeWord', linear', before')
      /\ regs'["A"] = delta /\ code' = rows /\ request' = q /\ pc' = 1 /\ trap' = "none"
      /\ before' = [bytes |-> WasmBytes, size |-> sizeWord]
    BY <1>3, <1>4, <1>5, IssueFresh, Zenon
<1>7. q.op = "grow" /\ q.rd = rd /\ q.delta = delta  BY <1>2
<1>8. Safe(rows, Now', q, before')  BY <1>2, <1>5, <1>6, <1>7, GrowSafe, Zenon
<1>9. Returning(q)  BY <1>4, <1>7, Zenon DEF Returning
<1>10. IInv'  BY <1>6, <1>8, <1>9, Zenon DEF IInv, Returning
<1>11. Opens(rows)  BY <1>2, GrowOpens, Zenon
<1> QED BY <1>6, <1>10, <1>11, Zenon DEF Launches

\* whichever operator is issued.
LEMMA OperatorLaunches ==
  ASSUME IInv, Operator
  PROVE  Launches
<1> QED BY LoadLaunches, StoreLaunches, SizeLaunches, GrowLaunches, Zenon DEF Operator

-----------------------------------------------------------------------------
(* The theorems *)

\* The invariant holds: the rows of every operator, from the entry stub on, are
\* safe.
LEMMA InvHolds == Spec => []IInv
<1>1. IInv /\ [Next]_vars => IInv'
  <2> SUFFICES ASSUME IInv, [Next]_vars PROVE IInv'
      OBVIOUS
  <2>1. CASE Operator  BY <2>1, OperatorLaunches, Zenon DEF Launches
  <2>2. CASE Step  BY <2>2, StepHolds, Zenon
  <2>3. CASE UNCHANGED vars  BY <2>3, StutterHolds, Zenon
  <2> QED BY <2>1, <2>2, <2>3, Zenon DEF Next
<1> QED BY InitHolds, <1>1, PTL DEF Spec

\* Registers hold words, the memory its cells, and the only trap is OutOfBounds,
\* for every width, page size and cap (TypeOK).
THEOREM TypeCorrect == Spec => []TypeOK
<1>1. IInv => TypeOK  BY NowTyped, Zenon DEF TypeOK, Memory
<1> QED BY InvHolds, <1>1, PTL

\* Between instructions each limit register admits exactly the accesses of its
\* width that end within the memory: emit_limits after the entry stub and after
\* every memory.grow, for every width, page size and cap (LimitsMatch).
THEOREM LimitsHold == Spec => []LimitsMatch
<1>1. IInv => LimitsMatch
  <2> SUFFICES ASSUME IInv, Finished, NEW n \in {1, 2, 4, 8}, NEW a \in 0 .. MaxBytes + 1
               PROVE  (LinearAddress(a) < regs[Limit(n)]) <=> (a + n <= sizeWord)
      BY DEF LimitsMatch
  <2>1. Settled(regs, sizeWord) /\ Memory(sizeWord, linear)  BY NowEnds, NowTyped, Zenon DEF Finished
  <2>2. PICK z : z = sizeWord  OBVIOUS
  <2>3. z \in Nat /\ z <= HalfM  BY <2>1, <2>2, Shapes, SizeWord, Zenon
  <2>4. regs[Limit(n)] = 2 * z + LinearBase + 1 - 2 * n  BY <2>1, <2>2, Zenon DEF Settled, Limited
  <2>5. a \in Nat  BY Pages
  <2>6. LinearBase + 2 * a < 2 * z + LinearBase + 1 - 2 * n <=> a + n <= z  BY <2>3, <2>5, LimitWords
  <2> QED BY <2>2, <2>4, <2>6, Zenon DEF LinearAddress
<1> QED BY InvHolds, <1>1, PTL

\* The value wasm assembles is the number its bytes spell,
LEMMA AssembledIs == \A f, r, n : Wasm!Assembled(f, r, n) = Spelled(f, r, ByteBits, n)
<1> SUFFICES ASSUME NEW f, NEW r, NEW n PROVE Wasm!Assembled(f, r, n) = Spelled(f, r, ByteBits, n)
    OBVIOUS
<1> DEFINE S == 0 .. n - 1
           J(g) == g = [s \in SUBSET S |-> IF s = {} THEN 0
                         ELSE f[r + (CHOOSE i \in s : TRUE)] * 2^(ByteBits * (CHOOSE i \in s : TRUE))
                                 + g[s \ {CHOOSE i \in s : TRUE}]]
<1>1. Spelled(f, r, ByteBits, n) = (CHOOSE g : J(g))[S]  BY Zenon DEF Spelled, MapThenSumSet, MapThenFoldSet
<1>2. Wasm!Assembled(f, r, n) = (CHOOSE g : J(g))[S]
    BY Zenon DEF Wasm!Assembled, Wasm!MapThenSumSet, Wasm!MapThenFoldSet
<1> QED BY <1>1, <1>2

\* the value of a load what the rows of a load leave,
LEMMA LoadedIs ==
  ASSUME NEW q, Outcome = Pending
  PROVE  Wasm!LoadedValue(q) = LoadedFrom(q, before.bytes)
<1>1. PICK f : f = before.bytes  OBVIOUS
<1>2. Wasm!Assembled(f, q.base + q.offset, q.width) = Spelled(f, q.base + q.offset, ByteBits, q.width)
    BY AssembledIs, Zenon
<1> QED BY <1>1, <1>2, Zenon DEF Wasm!LoadedValue, Wasm!Reach, LoadedFrom

\* and the bytes of a store those its rows write.
LEMMA StoredAre ==
  ASSUME NEW q, Outcome = Pending
  PROVE  Wasm!StoredBytes(q) = StoredIn(q, before.bytes)
<1> QED BY DEF Wasm!StoredBytes, Wasm!Reach, Wasm!ByteValue, StoredIn, Group

-----------------------------------------------------------------------------
(* The refinement *)

\* Where an instruction's rows stopped in a state.
EndedAt(r, z, c, t, q, b) ==
    /\ t = "none" => Does(q, b, z, c, Result(q, r)) /\ Result(q, r) \in Nat
    /\ t # "none" => Outside(q, b) /\ BytesOf(z, c) = b.bytes /\ z = b.size

\* Where the rows stop they have done what the instruction asks for.
LEMMA EndsAt ==
  ASSUME NEW rows, NEW p, NEW r, NEW z, NEW c, NEW t, NEW q, NEW b, Returning(q),
         Safe(rows, At(p, r, z, c, t), q, b), t # "none" \/ rows[p].row = "rejoin"
  PROVE  EndedAt(r, z, c, t, q, b)
<1>1. PICK m : m = At(p, r, z, c, t)  OBVIOUS
<1>2. m.p = p /\ m.r = r /\ m.z = z /\ m.c = c /\ m.t = t  BY <1>1, Fields
<1>3. Stopped(rows, m)  BY <1>2, Zenon DEF Stopped
<1>4. WellTyped(m) /\ Ends(q, b, m)  BY <1>1, <1>3, SafeStops, Zenon
<1>5. r \in [Reg -> Word]  BY <1>2, <1>4, Zenon DEF WellTyped
<1>6. Result(q, r) \in Nat
  <2>1. CASE q.op \in {"load", "size", "grow"}  BY <2>1, <1>5, Sizes DEF Returning, Word, Result
  <2>2. CASE q.op \notin {"load", "size", "grow"}  BY <2>2 DEF Result
  <2> QED BY <2>1, <2>2, Zenon
<1>7. ASSUME t = "none" PROVE Does(q, b, z, c, Result(q, r))  BY <1>2, <1>4, <1>7, Zenon DEF Ends, Does
<1>8. ASSUME t # "none" PROVE Outside(q, b) /\ BytesOf(z, c) = b.bytes /\ z = b.size
    BY <1>2, <1>4, <1>8, Zenon DEF Ends, Outside
<1> QED BY <1>6, <1>7, <1>8, Zenon DEF EndedAt

\* The first instruction is the entry stub's.
LEMMA InitRefines == Init => Wasm!Init
<1> SUFFICES ASSUME Init PROVE Wasm!Init
    OBVIOUS
<1>1. PICK p \in InitialPages, data \in Data :
        before = [size  |-> p * PageBytes, bytes |-> [a \in 0 .. p * PageBytes - 1 |-> data[a]]]
    BY Zenon DEF Init
<1>2. code = EmitEntry /\ pc = 1 /\ trap = "none" /\ request = [op |-> "entry"]  BY DEF Init
<1>3. Outcome = Pending  BY <1>2, EntryOpens, Zenon DEF Finished, Row, Opens, Outcome
<1>4. p \in 0 .. MaxPages /\ data \in [0 .. MaxBytes - 1 -> 0 .. 2^ByteBits - 1]  BY MemoryAssumption
<1>5. PICK z : z = p * PageBytes  OBVIOUS
<1>6. z \in {i * PageBytes : i \in 0 .. MaxPages}  BY <1>4, <1>5
<1>7. 0 .. z - 1 \subseteq 0 .. MaxBytes - 1  BY <1>4, Pages, <1>5
<1>8. before.size = z /\ before.bytes = [a \in 0 .. z - 1 |-> data[a]]  BY <1>1, <1>5
<1>9. before.bytes \in [0 .. z - 1 -> 0 .. 2^ByteBits - 1]  BY <1>4, <1>7, <1>8
<1> QED BY <1>2, <1>3, <1>6, <1>8, <1>9, Zenon DEF Wasm!Init, Wasm!Pending, Pending

\* An instruction is issued when the last one is done,
LEMMA IssueRefines ==
  ASSUME IInv, Operator
  PROVE  Wasm!Issue
<1>1. Launches  BY OperatorLaunches
<1>2. Finished  BY Zenon DEF Operator, LoadOp, StoreOp, SizeOp, GrowOp, Ready
<1>3. Outcome \in Nat
  <2>1. EndedAt(regs, sizeWord, linear, trap, request, before)
      BY <1>2, EndsAt, Zenon DEF IInv, Now, Finished, Row
  <2>2. trap = "none" /\ Outcome = Result(request, regs)  BY <1>2, Zenon DEF Finished, Outcome, Result
  <2> QED BY <2>1, <2>2, Zenon DEF EndedAt
<1>4. Outcome >= 0 /\ Outcome # Pending  BY <1>3 DEF Pending
<1>5. Outcome' = Pending  BY <1>1, Zenon DEF Launches, Opens, Finished, Row, Outcome, Pending
<1>6. before'.bytes = WasmBytes /\ before'.size = sizeWord  BY <1>1 DEF Launches
<1> QED BY <1>4, <1>5, <1>6, Zenon DEF Wasm!Issue, Wasm!Pending, Pending

\* its last row has the effect of the wasm instruction,
LEMMA DoneRefines ==
  ASSUME Outcome = Pending, NEW f, NEW z, NEW out, Done(request, before, f, z, out),
         Outcome' = out, WasmBytes' = f, sizeWord' = z, out # Pending, request' = request
  PROVE  Wasm!Perform
<1>2. Wasm!InBounds(request) <=> Inside(request, before)  BY Zenon DEF Wasm!InBounds, Wasm!Reach, Inside
<1>3. Wasm!Grown(request) = before.size + request.delta * PageBytes  BY Zenon DEF Wasm!Grown
<1>4. Outcome' # Pending  OBVIOUS
<1>5. ASSUME NEW w, f = before.bytes, z = before.size, out = w
      PROVE  /\ Outcome' = w
             /\ (IF Outcome = Pending THEN before.bytes ELSE WasmBytes)' = IF Outcome = Pending THEN before.bytes ELSE WasmBytes
             /\ (IF Outcome = Pending THEN before.size ELSE sizeWord)' = IF Outcome = Pending THEN before.size ELSE sizeWord
    BY <1>4, <1>5, Zenon DEF Pending
<1>6. CASE request.op = "entry" /\ f = before.bytes /\ z = before.size /\ out = 0
    BY <1>5, <1>6, Zenon DEF Wasm!Entry, Wasm!Perform, Wasm!Pending, Pending
<1>7. CASE /\ request.op = "load" /\ Inside(request, before) /\ f = before.bytes /\ z = before.size
           /\ out = LoadedFrom(request, before.bytes)
    BY LoadedIs, <1>2, <1>5, <1>7 DEF Wasm!Load, Wasm!Perform, Wasm!Pending, Pending
<1>8. CASE /\ request.op = "store" /\ Inside(request, before) /\ f = StoredIn(request, before.bytes) /\ z = before.size
           /\ out = 0
    BY StoredAre, <1>2, <1>4, <1>8 DEF Wasm!Store, Wasm!Perform, Wasm!Pending, Pending
<1>9. CASE request.op = "size" /\ f = before.bytes /\ z = before.size /\ out = before.size \div PageBytes
    BY <1>5, <1>9, Zenon DEF Wasm!Size, Wasm!Perform, Wasm!Pending, Pending
<1>10. CASE /\ request.op = "grow" /\ before.size + request.delta * PageBytes <= MaxBytes
            /\ z = before.size + request.delta * PageBytes
            /\ f = GrownTo(before.bytes, before.size, z)
            /\ out = before.size \div PageBytes
    BY <1>3, <1>4, <1>10, Zenon DEF Wasm!Grow, GrownTo, MaxBytes, Wasm!Perform, Wasm!Pending, Pending
<1>11. CASE /\ request.op = "grow" /\ before.size + request.delta * PageBytes > MaxBytes
            /\ f = before.bytes /\ z = before.size /\ out = HalfM - 1
    BY Sizes, <1>3, <1>5, <1>11 DEF Wasm!GrowFails, MaxBytes, Wasm!Perform, Wasm!Pending, Pending
<1> QED BY <1>6, <1>7, <1>8, <1>9, <1>10, <1>11, Zenon DEF Done

\* an access that fails its bounds test has none,
LEMMA TrapRefines ==
  ASSUME Outcome = Pending, Outside(request, before), Outcome' = Trapped,
         WasmBytes' = before.bytes, sizeWord' = before.size, request' = request
  PROVE  Wasm!Perform
<1>1. Wasm!InBounds(request) <=> Inside(request, before)  BY Zenon DEF Wasm!InBounds, Wasm!Reach, Inside
<1>2. Outcome' # Pending  BY DEF Pending, Trapped
<1>3. request.op \in {"load", "store"} /\ ~Inside(request, before)  BY Zenon DEF Outside
<1>4. Wasm!Trap  BY <1>1, <1>2, <1>3, Zenon DEF Wasm!Trap, Wasm!Trapped, Trapped
<1> QED BY <1>4, Zenon DEF Wasm!Perform, Wasm!Pending, Pending

\* and the rows before it change nothing of the wasm memory.
LEMMA StepRefines ==
  ASSUME IInv, Step
  PROVE  Wasm!Perform \/ UNCHANGED Wasm!vars
<1>1. Running  BY Zenon DEF Step, AluStep, AssertStep, JumpStep, BranchStep, LoadStep, StoreStep
<1>2. Outcome = Pending  BY <1>1, Zenon DEF Outcome, Running, Finished
<1>3. request' = request /\ before' = before  BY Zenon DEF Step
<1>4. Safe(code', At(pc', regs', sizeWord', linear', trap'), request, before) /\ Returning(request)
    BY StepHolds, <1>3 DEF IInv, Now
<1>5. WasmBytes' = BytesOf(sizeWord', linear')  BY Zenon DEF WasmBytes, ByteAt, BytesOf
<1>6. ASSUME trap' # "none" \/ Row.row' = "rejoin"
      PROVE  EndedAt(regs', sizeWord', linear', trap', request, before)
    BY <1>6, <1>4, EndsAt, Zenon DEF Row
<1>7. CASE trap' # "none"  BY <1>6, <1>7, <1>2, <1>3, <1>5, TrapRefines, Zenon DEF EndedAt, Outcome
<1>8. CASE trap' = "none" /\ Finished'
  <2>1. Does(request, before, sizeWord', linear', Result(request, regs')) /\ Result(request, regs') \in Nat
      BY <1>6, <1>8, Zenon DEF EndedAt, Finished
  <2>2. PICK f, z, out : f = WasmBytes' /\ z = sizeWord' /\ out = Result(request, regs')  OBVIOUS
  <2>3. Outcome' = out  BY <1>3, <1>8, <2>2, Zenon DEF Outcome, Result
  <2>4. Done(request, before, f, z, out)  BY <1>5, <2>1, <2>2, Zenon DEF Does
  <2>5. out # Pending  BY <2>1, <2>2 DEF Pending
  <2> QED BY <1>2, <1>3, <2>2, <2>3, <2>4, <2>5, DoneRefines, Zenon
<1>9. CASE trap' = "none" /\ ~Finished'  BY <1>9, <1>2, <1>3, Zenon DEF Outcome, Wasm!vars
<1> QED BY <1>7, <1>8, <1>9, Zenon

\* A stutter is one of the wasm memory.
LEMMA StutterRefines == UNCHANGED vars => UNCHANGED Wasm!vars
<1> SUFFICES ASSUME UNCHANGED vars PROVE UNCHANGED Wasm!vars
    OBVIOUS
<1>1. /\ code' = code /\ pc' = pc /\ regs' = regs /\ trap' = trap /\ sizeWord' = sizeWord /\ linear' = linear
      /\ request' = request /\ before' = before
    BY DEF vars, machine
<1>2. Outcome' = Outcome /\ WasmBytes' = WasmBytes
    BY <1>1, Zenon DEF Outcome, Finished, Row, WasmBytes, ByteAt
<1> QED BY <1>1, <1>2, Zenon DEF Wasm!vars

\* The rows emit_load, emit_store, emit_memory_grow and MemorySize lower to do
\* to the wasm bytes and the destination register what the wasm instruction
\* does, or trap exactly when it does, hot path or cold, for every width of
\* bytes, page size, operand and initial memory (ImplementsWasmMemory).
THEOREM MemoryImplementsWasm == Spec => ImplementsWasmMemory
<1>1. IInv /\ [Next]_vars => [Wasm!Next]_(Wasm!vars)
  <2> SUFFICES ASSUME IInv, [Next]_vars PROVE [Wasm!Next]_(Wasm!vars)
      OBVIOUS
  <2>1. CASE Operator  BY <2>1, IssueRefines, Zenon DEF Wasm!Next
  <2>2. CASE Step  BY <2>2, StepRefines, Zenon DEF Wasm!Next
  <2>3. CASE UNCHANGED vars  BY <2>3, StutterRefines, Zenon
  <2> QED BY <2>1, <2>2, <2>3, Zenon DEF Next
<1> QED BY InitRefines, InvHolds, <1>1, PTL DEF Spec, Wasm!Spec, ImplementsWasmMemory
=============================================================================
