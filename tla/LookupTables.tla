----------------------------- MODULE LookupTables ------------------------------
(***************************************************************************)
(* The lookup tables of the proof (jolt-lookup-tables): what each holds at *)
(* an index, its extension in closed form, and its decomposition, which    *)
(* gives the extension at a point whose first coordinates are bound from   *)
(* one value per prefix and one per suffix.  An index is the sequence of   *)
(* its bits, highest first: two operands interleaved, or one double word.  *)
(***************************************************************************)
EXTENDS Poly

CONSTANT XLEN   \* bits of a word

ASSUME XlenAssumption == XLEN \in {4, 8, 16}

Lanes == [i \in 1 .. XLEN |-> i]
HalfWord == XLEN \div 2
LogXlen == CHOOSE k \in 2 .. 4 : 2^k = XLEN
Sum2(n) == 2^n - 1

\* The operands of an index, or of a part of one; what bits stand for.
Left(b) == Strict([i \in 1 .. Len(b) \div 2 |-> b[2 * i - 1]])
Right(b) == Strict([i \in 1 .. Len(b) \div 2 |-> b[2 * i]])
Word(bits) == FoldLeft(LAMBDA acc, x : 2 * acc + x, 0, bits)
Value(v) == FoldLeft(LAMBDA acc, x : (2 * acc + x) % P, 0, v)
Low(b, n) == SubSeq(b, Len(b) - n + 1, Len(b))
LastBits(b, n) == IF Len(b) > n THEN Low(b, n) ELSE b
Truth(c) == IF c THEN 1 ELSE 0
LeadingOnes(bits) ==
    IF \A i \in DOMAIN bits : bits[i] = 1 THEN Len(bits)
    ELSE (CHOOSE i \in DOMAIN bits : bits[i] = 0 /\ \A k \in 1 .. i - 1 : bits[k] = 1) - 1
LeadingZeros(bits) == LeadingOnes([i \in DOMAIN bits |-> 1 - bits[i]])
TrailingZeros(bits) == LeadingZeros(Reverse(bits))
CountOnes(bits) == FoldLeft(LAMBDA acc, x : acc + x, 0, bits)
\* The bits of x where y is set, moved together.
Compressed(x, y) == FoldLeft(LAMBDA acc, i : acc * (1 + y[i]) + x[i] * y[i], 0, [i \in DOMAIN x |-> i])
Signed(bits) == Word(bits) - bits[1] * 2^Len(bits)

AndBit(x, y) == x * y
AndnBit(x, y) == x * (1 - y)
OrBit(x, y) == x + y - x * y
XorBit(x, y) == x * (1 - y) + (1 - x) * y
EqBit(x, y) == x * y + (1 - x) * (1 - y)
Bits2(Op(_, _), b) == [i \in 1 .. Len(b) \div 2 |-> Op(b[2 * i - 1], b[2 * i])]

-----------------------------------------------------------------------------
(* What a table holds.                                                     *)

RangeCheckEntry(b) == Word(Low(b, XLEN))
LowerHalfWordEntry(b) == Word(Low(b, HalfWord))
AndEntry(b) == Word(Bits2(AndBit, b))
AndnEntry(b) == Word(Bits2(AndnBit, b))
OrEntry(b) == Word(Bits2(OrBit, b))
XorEntry(b) == Word(Bits2(XorBit, b))
EqualEntry(b) == Truth(Left(b) = Right(b))
NotEqualEntry(b) == Truth(Left(b) # Right(b))
UnsignedLessThanEntry(b) == Truth(Word(Left(b)) < Word(Right(b)))
SignedLessThanEntry(b) == Truth(Signed(Left(b)) < Signed(Right(b)))
UnsignedGreaterThanEqualEntry(b) == Truth(Word(Left(b)) >= Word(Right(b)))
SignedGreaterThanEqualEntry(b) == Truth(Signed(Left(b)) >= Signed(Right(b)))
UnsignedLessThanEqualEntry(b) == Truth(Word(Left(b)) <= Word(Right(b)))
\* Shifts are by bitmask: the bits that stay are those the mask selects.
SrlEntry(b) == Compressed(Left(b), Right(b))
SraEntry(b) ==
    LET y == Right(b)
        filled == [i \in 1 .. XLEN - 1 |-> 2^i * (1 - y[i + 1])]
    IN  Compressed(Left(b), y) + b[1] * FoldLeft(LAMBDA acc, x : acc + x, 0, filled)
RotrEntry(b) ==
    LET x == Left(b)  y == Right(b)
        Turn(acc, i) == [kept |-> acc.kept * (1 + y[i]) + x[i] * y[i],
                         moved |-> acc.moved + x[i] * (1 - y[i]) * acc.scale * 2^(XLEN - i),
                         scale |-> acc.scale * (1 + y[i])]
        end == FoldLeft(Turn, [kept |-> 0, moved |-> 0, scale |-> 1], Lanes)
    IN  end.kept + end.moved
NegateIfEntry(b) == IF b[1] = 0 THEN Word(Right(b)) ELSE (-Word(Right(b))) % 2^XLEN
MulUNoOverflowEntry(b) == Truth(\A i \in 1 .. XLEN : b[i] = 0)
Pow2Entry(b) == 2^Word(Low(b, LogXlen))
ShiftRightBitmaskEntry(b) == LET shift == Word(Low(b, LogXlen)) IN Sum2(XLEN - shift) * 2^shift
SignExtendWordEntry(b) ==
    LET low == Low(b, HalfWord) IN Word(low) + low[1] * Sum2(HalfWord) * 2^HalfWord
ClzEntry(b) == LeadingZeros(Left(b))
CtzEntry(b) == TrailingZeros(Left(b))
PopcntEntry(b) == CountOnes(Left(b))

-----------------------------------------------------------------------------
(* The extensions, as the verifier evaluates them.                         *)

LessThanFold(r) ==
    FoldLeft(LAMBDA a, i : [lt |-> (a.lt + (1 - r[2 * i - 1]) * r[2 * i] * a.eq) % P,
                            eq |-> (a.eq * EqBit(r[2 * i - 1], r[2 * i])) % P],
             [lt |-> 0, eq |-> 1], Lanes)
\* The zeros of x before its first one, from either end.
FirstOne(x) ==
    LET end == FoldLeft(LAMBDA a, i : [at |-> (a.at + a.zero * x[i] * (i - 1)) % P,
                                       zero |-> (a.zero * (1 - x[i])) % P],
                        [at |-> 0, zero |-> 1], Lanes)
    IN  (end.at + end.zero * XLEN) % P
Shifted(r) ==
    FoldLeft(LAMBDA acc, i : (acc * (1 + r[2 * i]) + r[2 * i - 1] * r[2 * i]) % P, 0, Lanes)

RangeCheckMle(r) == Value(Low(r, XLEN))
LowerHalfWordMle(r) == Value(Low(r, HalfWord))
AndMle(r) == Value(Bits2(AndBit, r))
AndnMle(r) == Value(Bits2(AndnBit, r))
OrMle(r) == Value(Bits2(OrBit, r))
XorMle(r) == Value(Bits2(XorBit, r))
EqualMle(r) == Product(Bits2(EqBit, r))
NotEqualMle(r) == (1 - EqualMle(r)) % P
UnsignedLessThanMle(r) == LessThanFold(r).lt
SignedLessThanMle(r) == (r[1] - r[2] + LessThanFold(r).lt) % P
UnsignedGreaterThanEqualMle(r) == (1 - UnsignedLessThanMle(r)) % P
SignedGreaterThanEqualMle(r) == (1 - SignedLessThanMle(r)) % P
UnsignedLessThanEqualMle(r) == LET end == LessThanFold(r) IN (end.lt + end.eq) % P
SrlMle(r) == Shifted(r)
SraMle(r) == (Shifted(r) + r[1] * Total([i \in 1 .. XLEN - 1 |-> 2^i * (1 - r[2 * i + 2])])) % P
RotrMle(r) ==
    LET Turn(acc, i) == [moved |-> (acc.moved + r[2 * i - 1] * (1 - r[2 * i]) * acc.scale * 2^(XLEN - i)) % P,
                         scale |-> (acc.scale * (1 + r[2 * i])) % P]
    IN  (Shifted(r) + FoldLeft(Turn, [moved |-> 0, scale |-> 1], Lanes).moved) % P
NegateIfMleZeroNegated(r) ==     \* slip: zero is negated to 2^XLEN
    LET value == Value(Right(r)) IN (value - 2 * r[1] * value + 2^XLEN * r[1]) % P
NegateIfMle(r) ==
    LET value == Value(Right(r))
        zero == Product([i \in 1 .. XLEN |-> 1 - r[2 * i]])
    IN  (value - 2 * r[1] * value + 2^XLEN * r[1] * (1 - zero)) % P
MulUNoOverflowMle(r) == Product([i \in 1 .. XLEN |-> 1 - r[i]])
Pow2Mle(r) == Product([i \in 1 .. LogXlen |-> 1 + Sum2(2^(i - 1)) * r[Len(r) - i + 1]])
ShiftRightBitmaskMle(r) ==
    LET low == Low(r, LogXlen)
        Weigh(s) == Product([i \in 1 .. LogXlen |->
                        IF (s \div 2^(LogXlen - i)) % 2 = 1 THEN low[i] ELSE 1 - low[i]])
    IN  Total([s \in 1 .. XLEN |-> Sum2(XLEN - s + 1) * 2^(s - 1) * Weigh(s - 1)])
SignExtendWordMle(r) ==
    (LowerHalfWordMle(r) + Low(r, HalfWord)[1] * Sum2(HalfWord) * 2^HalfWord) % P
ClzMle(r) == FirstOne(Left(r))
CtzMle(r) == FirstOne(Reverse(Left(r)))
PopcntMle(r) == Total(Left(r))

-----------------------------------------------------------------------------
(* The decomposition (prefixes/ and suffixes/).  An address is bound in    *)
(* phases of a few bits.  A prefix is known at the phases bound before     *)
(* (its checkpoint c), at the bits b of the current one, with n bits to    *)
(* follow; a suffix at the bits that follow.  A table combines a handful   *)
(* of each.                                                                *)

-----------------------------------------------------------------------------
(* Prefixes.                                                               *)

PhaseStart(b, n) == 2 * XLEN - n - Len(b)
Shift(b, n) == (Word(b) * 2^(n \div 2)) % P

ZeroCheckpoints == {"LowerWord", "LowerHalfWord", "And", "Andn", "Or", "Xor", "LessThan",
    "LeftOperandMsb", "RightOperandMsb", "RightShift", "SignExtension", "LeftShift", "RightOperand",
    "LeftMsbRightOperand", "LeftMsbRightOperandIsZero", "Popcnt", "Clz", "Ctz"}
OneCheckpoints == {"Eq", "LeftOperandIsZero", "Pow2", "LeftShiftHelper", "SignExtensionUpperHalf",
    "OverflowBitsZero"}
AllPrefixes == ZeroCheckpoints \cup OneCheckpoints
DefaultCheckpoints == [p \in AllPrefixes |-> IF p \in OneCheckpoints THEN 1 ELSE 0]

LowerWordPrefix(c, b, n) ==
    IF PhaseStart(b, n) < XLEN THEN 0 ELSE (c.LowerWord + Word(b) * 2^n) % P
LowerHalfWordPrefix(c, b, n) ==
    IF PhaseStart(b, n) < XLEN + HalfWord THEN 0 ELSE (c.LowerHalfWord + Word(b) * 2^n) % P
EqPrefix(c, b, n) == IF Left(b) = Right(b) THEN c.Eq ELSE 0
AndPrefix(c, b, n) == (c.And + Shift(Bits2(AndBit, b), n)) % P
AndnPrefix(c, b, n) == (c.Andn + Shift(Bits2(AndnBit, b), n)) % P
OrPrefix(c, b, n) == (c.Or + Shift(Bits2(OrBit, b), n)) % P
XorPrefix(c, b, n) == (c.Xor + Shift(Bits2(XorBit, b), n)) % P
LessThanPrefixFirst(c, b, n) ==     \* slip: the chunk decides whatever was above it
    IF Word(Left(b)) < Word(Right(b)) THEN (c.LessThan + 1) % P ELSE c.LessThan
LessThanPrefix(c, b, n) ==
    IF Word(Left(b)) < Word(Right(b)) THEN (c.LessThan + c.Eq) % P ELSE c.LessThan
LeftOperandIsZeroPrefix(c, b, n) == IF CountOnes(Left(b)) = 0 THEN c.LeftOperandIsZero ELSE 0
LeftOperandMsbPrefix(c, b, n) == IF PhaseStart(b, n) > 0 THEN c.LeftOperandMsb ELSE b[1]
RightOperandMsbPrefix(c, b, n) == IF PhaseStart(b, n) > 0 THEN c.RightOperandMsb ELSE b[2]
Pow2Prefix(c, b, n) == IF n # 0 THEN 1 ELSE (c.Pow2 * 2^Word(LastBits(b, LogXlen))) % P
RightShiftPrefix(c, b, n) ==
    FoldLeft(LAMBDA acc, i : IF b[2 * i] = 1 THEN (2 * acc + b[2 * i - 1]) % P ELSE acc,
             c.RightShift, [i \in 1 .. Len(b) \div 2 |-> i])
\* The sign fills the places the mask leaves out, but never the first.
SignExtensionPrefixUnplaced(c, b, n) == \* slip: every phase fills from the first place
    LET y == Right(b)
    IN  (c.SignExtension + LeftOperandMsbPrefix(c, b, n)
            * Total([i \in DOMAIN y |-> IF y[i] = 0 /\ i > 1 THEN 2^(i - 1) ELSE 0])) % P
SignExtensionPrefix(c, b, n) ==
    LET start == PhaseStart(b, n)
        y == Right(b)
        Fill(from) == Total([i \in DOMAIN y |->
                        IF y[i] = 0 /\ i >= from THEN 2^(start \div 2 + i - 1) ELSE 0])
    IN  IF start = 0 THEN b[1] * Fill(2)
        ELSE (c.SignExtension + c.LeftOperandMsb * Fill(1)) % P
LeftShiftPrefix(c, b, n) ==
    LET Turn(acc, i) ==
            [moved |-> IF b[2 * i] = 0 /\ b[2 * i - 1] = 1
                       THEN (acc.moved + acc.scale * 2^(XLEN - PhaseStart(b, n) \div 2 - i)) % P
                       ELSE acc.moved,
             scale |-> IF b[2 * i] = 1 THEN (2 * acc.scale) % P ELSE acc.scale]
    IN  FoldLeft(Turn, [moved |-> c.LeftShift, scale |-> c.LeftShiftHelper],
                 [i \in 1 .. Len(b) \div 2 |-> i]).moved
LeftShiftHelperPrefix(c, b, n) == (c.LeftShiftHelper * 2^CountOnes(Right(b))) % P
SignExtensionUpperHalfPrefix(c, b, n) ==
    LET start == PhaseStart(b, n)
        sign == XLEN + HalfWord
    IN  IF n >= HalfWord THEN 1
        ELSE IF start <= sign /\ sign < start + Len(b)
             THEN (Sum2(HalfWord) * 2^HalfWord * b[1]) % P
        ELSE c.SignExtensionUpperHalf
RightOperandPrefix(c, b, n) == (c.RightOperand + Shift(Right(b), n)) % P
LeftMsbRightOperandPrefix(c, b, n) ==
    (c.LeftMsbRightOperand + LeftOperandMsbPrefix(c, b, n) * Shift(Right(b), n)) % P
LeftMsbRightOperandIsZeroPrefix(c, b, n) ==
    IF CountOnes(Right(b)) # 0 THEN 0
    ELSE IF PhaseStart(b, n) = 0 THEN b[1] ELSE c.LeftMsbRightOperandIsZero
\* The source's bound is 128 - XLEN, which is XLEN for its words of 64 bits.
OverflowBitsZeroPrefix(c, b, n) ==
    LET upper == SubSeq(b, 1, IF n >= XLEN THEN Len(b) ELSE Len(b) - (XLEN - n))
    IN  IF PhaseStart(b, n) >= XLEN \/ CountOnes(upper) = 0 THEN c.OverflowBitsZero ELSE 0
PopcntPrefix(c, b, n) == (c.Popcnt + CountOnes(Left(b))) % P
ClzPrefix(c, b, n) == (c.Clz + c.LeftOperandIsZero * LeadingZeros(Left(b))) % P
CtzPrefix(c, b, n) ==
    LET x == Left(b) IN IF CountOnes(x) = 0 THEN (c.Ctz + Len(x)) % P ELSE TrailingZeros(x)

Prefix(p, c, b, n) ==
    CASE p = "LowerWord"                 -> LowerWordPrefix(c, b, n)
      [] p = "LowerHalfWord"             -> LowerHalfWordPrefix(c, b, n)
      [] p = "Eq"                        -> EqPrefix(c, b, n)
      [] p = "And"                       -> AndPrefix(c, b, n)
      [] p = "Andn"                      -> AndnPrefix(c, b, n)
      [] p = "Or"                        -> OrPrefix(c, b, n)
      [] p = "Xor"                       -> XorPrefix(c, b, n)
      [] p = "LessThan"                  -> LessThanPrefix(c, b, n)
      [] p = "LeftOperandIsZero"         -> LeftOperandIsZeroPrefix(c, b, n)
      [] p = "LeftOperandMsb"            -> LeftOperandMsbPrefix(c, b, n)
      [] p = "RightOperandMsb"           -> RightOperandMsbPrefix(c, b, n)
      [] p = "Pow2"                      -> Pow2Prefix(c, b, n)
      [] p = "RightShift"                -> RightShiftPrefix(c, b, n)
      [] p = "SignExtension"             -> SignExtensionPrefix(c, b, n)
      [] p = "LeftShift"                 -> LeftShiftPrefix(c, b, n)
      [] p = "LeftShiftHelper"           -> LeftShiftHelperPrefix(c, b, n)
      [] p = "SignExtensionUpperHalf"    -> SignExtensionUpperHalfPrefix(c, b, n)
      [] p = "RightOperand"              -> RightOperandPrefix(c, b, n)
      [] p = "LeftMsbRightOperand"       -> LeftMsbRightOperandPrefix(c, b, n)
      [] p = "LeftMsbRightOperandIsZero" -> LeftMsbRightOperandIsZeroPrefix(c, b, n)
      [] p = "OverflowBitsZero"          -> OverflowBitsZeroPrefix(c, b, n)
      [] p = "Popcnt"                    -> PopcntPrefix(c, b, n)
      [] p = "Clz"                       -> ClzPrefix(c, b, n)
      [] p = "Ctz"                       -> CtzPrefix(c, b, n)

-----------------------------------------------------------------------------
(* Suffixes, at the bits b that follow.                                    *)

LowerWordSuffix(b) == Word(LastBits(b, XLEN))
LowerHalfWordSuffix(b) == Word(LastBits(b, HalfWord))
LessThanSuffix(b) == Truth(Word(Left(b)) < Word(Right(b)))
OverflowBitsZeroSuffix(b) == Truth(\A i \in 1 .. Len(b) - XLEN : b[i] = 0)
Pow2Suffix(b) == IF b = <<>> THEN 1 ELSE 2^Word(Low(b, LogXlen))
\* Only the last run of the mask is still in place below the prefix.
RightShiftSuffix(b) == Word(Left(b)) \div 2^TrailingZeros(Right(b))
RightShiftHelperSuffix(b) == 2^LeadingOnes(Right(b))
SignExtensionSuffix(b) == 2^XLEN - 2^(XLEN - TrailingZeros(Right(b)))
LeftShiftSuffix(b) == Word(Bits2(AndnBit, b)) * 2^LeadingOnes(Right(b))
SignExtensionUpperHalfSuffix(b) ==
    IF Len(b) >= HalfWord THEN Low(b, HalfWord)[1] * Sum2(HalfWord) * 2^HalfWord ELSE 1
ClzLowSuffix(b) == LeadingZeros(Left(b))
CtzLowSuffix(b) == TrailingZeros(Left(b))

Suffix(s, b) ==
    CASE s = "One"                    -> 1
      [] s = "And"                    -> Word(Bits2(AndBit, b))
      [] s = "AndNot"                 -> Word(Bits2(AndnBit, b))
      [] s = "Or"                     -> Word(Bits2(OrBit, b))
      [] s = "Xor"                    -> Word(Bits2(XorBit, b))
      [] s = "RightOperand"           -> Word(Right(b))
      [] s = "LowerWord"              -> LowerWordSuffix(b)
      [] s = "LowerHalfWord"          -> LowerHalfWordSuffix(b)
      [] s = "LessThan"               -> LessThanSuffix(b)
      [] s = "Eq"                     -> Truth(Left(b) = Right(b))
      [] s = "LeftOperandIsZero"      -> Truth(CountOnes(Left(b)) = 0)
      [] s = "RightOperandIsZero"     -> Truth(CountOnes(Right(b)) = 0)
      [] s = "Pow2"                   -> Pow2Suffix(b)
      [] s = "RightShift"             -> RightShiftSuffix(b)
      [] s = "RightShiftHelper"       -> RightShiftHelperSuffix(b)
      [] s = "SignExtension"          -> SignExtensionSuffix(b)
      [] s = "LeftShift"              -> LeftShiftSuffix(b)
      [] s = "SignExtensionUpperHalf" -> SignExtensionUpperHalfSuffix(b)
      [] s = "OverflowBitsZero"       -> OverflowBitsZeroSuffix(b)
      [] s = "Popcnt"                 -> CountOnes(Left(b))
      [] s = "ClzLow"                 -> ClzLowSuffix(b)
      [] s = "CtzLow"                 -> CtzLowSuffix(b)

-----------------------------------------------------------------------------
(* The tables: what each takes, what it holds, its extension, and the      *)
(* extension from its prefixes p and suffixes s.                           *)

RangeCheckCombine(p, s) == p.LowerWord * s.One + s.LowerWord
LowerHalfWordCombine(p, s) == p.LowerHalfWord * s.One + s.LowerHalfWord
AndCombine(p, s) == p.And * s.One + s.And
AndnCombine(p, s) == p.Andn * s.One + s.AndNot
OrCombine(p, s) == p.Or * s.One + s.Or
XorCombine(p, s) == p.Xor * s.One + s.Xor
EqualCombine(p, s) == p.Eq * s.Eq
NotEqualCombine(p, s) == s.One - p.Eq * s.Eq
UnsignedLessThanCombine(p, s) == p.LessThan * s.One + p.Eq * s.LessThan
SignedLessThanCombine(p, s) ==
    (p.LeftOperandMsb - p.RightOperandMsb + p.LessThan) * s.One + p.Eq * s.LessThan
UnsignedGreaterThanEqualCombine(p, s) == s.One - p.LessThan * s.One - p.Eq * s.LessThan
SignedGreaterThanEqualCombine(p, s) ==
    (1 + p.RightOperandMsb - p.LeftOperandMsb - p.LessThan) * s.One - p.Eq * s.LessThan
UnsignedLessThanEqualCombine(p, s) == p.LessThan * s.One + p.Eq * s.LessThan + p.Eq * s.Eq
SrlCombine(p, s) == p.RightShift * s.RightShiftHelper + s.RightShift
SraCombine(p, s) ==
    p.RightShift * s.RightShiftHelper + s.RightShift
        + p.LeftOperandMsb * s.SignExtension + p.SignExtension * s.One
RotrCombine(p, s) ==
    p.RightShift * s.RightShiftHelper + s.RightShift
        + p.LeftShiftHelper * s.LeftShift + p.LeftShift * s.One
NegateIfCombine(p, s) ==
    p.RightOperand * s.One + s.RightOperand
        - 2 * (p.LeftMsbRightOperand * s.One + p.LeftOperandMsb * s.RightOperand)
        + 2^XLEN * (p.LeftOperandMsb * s.One - p.LeftMsbRightOperandIsZero * s.RightOperandIsZero)
MulUNoOverflowCombine(p, s) == p.OverflowBitsZero * s.OverflowBitsZero
Pow2Combine(p, s) == p.Pow2 * s.Pow2
ShiftRightBitmaskCombine(p, s) == 2^XLEN * s.One - p.Pow2 * s.Pow2
SignExtendWordCombine(p, s) ==
    p.LowerHalfWord * s.One + s.LowerHalfWord + p.SignExtensionUpperHalf * s.SignExtensionUpperHalf
ClzCombine(p, s) == p.Clz * s.One + p.LeftOperandIsZero * s.ClzLow
CtzCombine(p, s) == s.CtzLow + p.Ctz * s.LeftOperandIsZero
PopcntCombine(p, s) == p.Popcnt * s.One + s.Popcnt

Tables == <<
    "RangeCheck", "LowerHalfWord", "And", "Andn", "Or", "Xor", "Equal", "NotEqual",
    "UnsignedLessThan", "SignedLessThan", "UnsignedGreaterThanEqual",
    "SignedGreaterThanEqual", "UnsignedLessThanEqual", "Srl", "Sra", "Rotr", "NegateIf",
    "MulUNoOverflow", "Pow2", "ShiftRightBitmask", "SignExtendWord", "Clz", "Ctz",
    "Popcnt">>
TablePrefixes(t) ==
    CASE t = "RangeCheck"               -> {"LowerWord"}
      [] t = "LowerHalfWord"            -> {"LowerHalfWord"}
      [] t = "And"                      -> {"And"}
      [] t = "Andn"                     -> {"Andn"}
      [] t = "Or"                       -> {"Or"}
      [] t = "Xor"                      -> {"Xor"}
      [] t = "Equal"                    -> {"Eq"}
      [] t = "NotEqual"                 -> {"Eq"}
      [] t = "UnsignedLessThan"         -> {"LessThan", "Eq"}
      [] t = "SignedLessThan"           -> {"LeftOperandMsb", "RightOperandMsb", "LessThan", "Eq"}
      [] t = "UnsignedGreaterThanEqual" -> {"LessThan", "Eq"}
      [] t = "SignedGreaterThanEqual"   -> {"RightOperandMsb", "LeftOperandMsb", "LessThan", "Eq"}
      [] t = "UnsignedLessThanEqual"    -> {"LessThan", "Eq"}
      [] t = "Srl"                      -> {"RightShift"}
      [] t = "Sra"                      -> {"RightShift", "LeftOperandMsb", "SignExtension"}
      [] t = "Rotr"                     -> {"RightShift", "LeftShiftHelper", "LeftShift"}
      [] t = "NegateIf"                 -> {"RightOperand", "LeftOperandMsb",
                                          "LeftMsbRightOperand", "LeftMsbRightOperandIsZero"}
      [] t = "MulUNoOverflow"           -> {"OverflowBitsZero"}
      [] t = "Pow2"                     -> {"Pow2"}
      [] t = "ShiftRightBitmask"        -> {"Pow2"}
      [] t = "SignExtendWord"           -> {"LowerHalfWord", "SignExtensionUpperHalf"}
      [] t = "Clz"                      -> {"Clz", "LeftOperandIsZero"}
      [] t = "Ctz"                      -> {"Ctz"}
      [] t = "Popcnt"                   -> {"Popcnt"}
TableSuffixes(t) ==
    CASE t = "RangeCheck"               -> {"One", "LowerWord"}
      [] t = "LowerHalfWord"            -> {"One", "LowerHalfWord"}
      [] t = "And"                      -> {"One", "And"}
      [] t = "Andn"                     -> {"One", "AndNot"}
      [] t = "Or"                       -> {"One", "Or"}
      [] t = "Xor"                      -> {"One", "Xor"}
      [] t = "Equal"                    -> {"Eq"}
      [] t = "NotEqual"                 -> {"One", "Eq"}
      [] t = "UnsignedLessThan"         -> {"One", "LessThan"}
      [] t = "SignedLessThan"           -> {"One", "LessThan"}
      [] t = "UnsignedGreaterThanEqual" -> {"One", "LessThan"}
      [] t = "SignedGreaterThanEqual"   -> {"One", "LessThan"}
      [] t = "UnsignedLessThanEqual"    -> {"One", "LessThan", "Eq"}
      [] t = "Srl"                      -> {"RightShift", "RightShiftHelper"}
      [] t = "Sra"                      -> {"One", "RightShift", "RightShiftHelper", "SignExtension"}
      [] t = "Rotr"                     -> {"RightShiftHelper", "RightShift", "LeftShift", "One"}
      [] t = "NegateIf"                 -> {"One", "RightOperand", "RightOperandIsZero"}
      [] t = "MulUNoOverflow"           -> {"OverflowBitsZero"}
      [] t = "Pow2"                     -> {"Pow2"}
      [] t = "ShiftRightBitmask"        -> {"One", "Pow2"}
      [] t = "SignExtendWord"           -> {"One", "LowerHalfWord", "SignExtensionUpperHalf"}
      [] t = "Clz"                      -> {"One", "ClzLow"}
      [] t = "Ctz"                      -> {"CtzLow", "LeftOperandIsZero"}
      [] t = "Popcnt"                   -> {"One", "Popcnt"}
Entry(t, b) ==
    CASE t = "RangeCheck"               -> RangeCheckEntry(b)
      [] t = "LowerHalfWord"            -> LowerHalfWordEntry(b)
      [] t = "And"                      -> AndEntry(b)
      [] t = "Andn"                     -> AndnEntry(b)
      [] t = "Or"                       -> OrEntry(b)
      [] t = "Xor"                      -> XorEntry(b)
      [] t = "Equal"                    -> EqualEntry(b)
      [] t = "NotEqual"                 -> NotEqualEntry(b)
      [] t = "UnsignedLessThan"         -> UnsignedLessThanEntry(b)
      [] t = "SignedLessThan"           -> SignedLessThanEntry(b)
      [] t = "UnsignedGreaterThanEqual" -> UnsignedGreaterThanEqualEntry(b)
      [] t = "SignedGreaterThanEqual"   -> SignedGreaterThanEqualEntry(b)
      [] t = "UnsignedLessThanEqual"    -> UnsignedLessThanEqualEntry(b)
      [] t = "Srl"                      -> SrlEntry(b)
      [] t = "Sra"                      -> SraEntry(b)
      [] t = "Rotr"                     -> RotrEntry(b)
      [] t = "NegateIf"                 -> NegateIfEntry(b)
      [] t = "MulUNoOverflow"           -> MulUNoOverflowEntry(b)
      [] t = "Pow2"                     -> Pow2Entry(b)
      [] t = "ShiftRightBitmask"        -> ShiftRightBitmaskEntry(b)
      [] t = "SignExtendWord"           -> SignExtendWordEntry(b)
      [] t = "Clz"                      -> ClzEntry(b)
      [] t = "Ctz"                      -> CtzEntry(b)
      [] t = "Popcnt"                   -> PopcntEntry(b)
Mle(t, r) ==
    CASE t = "RangeCheck"               -> RangeCheckMle(r)
      [] t = "LowerHalfWord"            -> LowerHalfWordMle(r)
      [] t = "And"                      -> AndMle(r)
      [] t = "Andn"                     -> AndnMle(r)
      [] t = "Or"                       -> OrMle(r)
      [] t = "Xor"                      -> XorMle(r)
      [] t = "Equal"                    -> EqualMle(r)
      [] t = "NotEqual"                 -> NotEqualMle(r)
      [] t = "UnsignedLessThan"         -> UnsignedLessThanMle(r)
      [] t = "SignedLessThan"           -> SignedLessThanMle(r)
      [] t = "UnsignedGreaterThanEqual" -> UnsignedGreaterThanEqualMle(r)
      [] t = "SignedGreaterThanEqual"   -> SignedGreaterThanEqualMle(r)
      [] t = "UnsignedLessThanEqual"    -> UnsignedLessThanEqualMle(r)
      [] t = "Srl"                      -> SrlMle(r)
      [] t = "Sra"                      -> SraMle(r)
      [] t = "Rotr"                     -> RotrMle(r)
      [] t = "NegateIf"                 -> NegateIfMle(r)
      [] t = "MulUNoOverflow"           -> MulUNoOverflowMle(r)
      [] t = "Pow2"                     -> Pow2Mle(r)
      [] t = "ShiftRightBitmask"        -> ShiftRightBitmaskMle(r)
      [] t = "SignExtendWord"           -> SignExtendWordMle(r)
      [] t = "Clz"                      -> ClzMle(r)
      [] t = "Ctz"                      -> CtzMle(r)
      [] t = "Popcnt"                   -> PopcntMle(r)
Combine(t, p, s) ==
    CASE t = "RangeCheck"               -> RangeCheckCombine(p, s)
      [] t = "LowerHalfWord"            -> LowerHalfWordCombine(p, s)
      [] t = "And"                      -> AndCombine(p, s)
      [] t = "Andn"                     -> AndnCombine(p, s)
      [] t = "Or"                       -> OrCombine(p, s)
      [] t = "Xor"                      -> XorCombine(p, s)
      [] t = "Equal"                    -> EqualCombine(p, s)
      [] t = "NotEqual"                 -> NotEqualCombine(p, s)
      [] t = "UnsignedLessThan"         -> UnsignedLessThanCombine(p, s)
      [] t = "SignedLessThan"           -> SignedLessThanCombine(p, s)
      [] t = "UnsignedGreaterThanEqual" -> UnsignedGreaterThanEqualCombine(p, s)
      [] t = "SignedGreaterThanEqual"   -> SignedGreaterThanEqualCombine(p, s)
      [] t = "UnsignedLessThanEqual"    -> UnsignedLessThanEqualCombine(p, s)
      [] t = "Srl"                      -> SrlCombine(p, s)
      [] t = "Sra"                      -> SraCombine(p, s)
      [] t = "Rotr"                     -> RotrCombine(p, s)
      [] t = "NegateIf"                 -> NegateIfCombine(p, s)
      [] t = "MulUNoOverflow"           -> MulUNoOverflowCombine(p, s)
      [] t = "Pow2"                     -> Pow2Combine(p, s)
      [] t = "ShiftRightBitmask"        -> ShiftRightBitmaskCombine(p, s)
      [] t = "SignExtendWord"           -> SignExtendWordCombine(p, s)
      [] t = "Clz"                      -> ClzCombine(p, s)
      [] t = "Ctz"                      -> CtzCombine(p, s)
      [] t = "Popcnt"                   -> PopcntCombine(p, s)

-----------------------------------------------------------------------------
(***************************************************************************)
(* The phases in which the read-raf sumcheck binds an address: per phase   *)
(* the table of every prefix over the phase's bits, bound at the phase's   *)
(* challenges to the prefix's next checkpoint.                             *)
(***************************************************************************)

CONSTANT ChunkLen   \* address variables bound per phase

ASSUME ChunkAssumption == ChunkLen % 2 = 0 /\ (2 * XLEN) % ChunkLen = 0 /\ LogXlen <= ChunkLen

\* The bits of an index of 2 n bits, from the operands' lowest n.
BitsOf(v, n) == [i \in 1 .. n |-> (v \div 2^(n - i)) % 2]
Interleaved(x, y, n) == [i \in 1 .. 2 * n |-> IF i % 2 = 1 THEN BitsOf(x, n)[(i + 1) \div 2]
                                              ELSE BitsOf(y, n)[i \div 2]]

SuffixLen(point) == 2 * XLEN - Len(point) - ChunkLen
PrefixTable(p, checkpoints, n) ==
    Strict([x \in 1 .. 2^ChunkLen |-> Prefix(p, checkpoints, BitsOf(x - 1, ChunkLen), n)])
BindAt(table, r) == FoldLeft(LAMBDA t, c : Strict(BindTable(t, c)), table, r)[1]
\* The checkpoints after a phase at r, the point before it given.
BindPhase(checkpoints, point, r) ==
    [p \in AllPrefixes |-> BindAt(PrefixTable(p, checkpoints, SuffixLen(point)), r)]
===============================================================================
