----------------------------- MODULE SPIsaProofs -----------------------------
(***************************************************************************)
(* Lemmas about words, the fields of an instruction and its operands, for  *)
(* every width of words, and what the theorems about the processors        *)
(* suppose of an ALU, shown of the three ALUs of the code.                 *)
(***************************************************************************)
EXTENDS SPIsa, SPAlu, TLAPS

(***************************************************************************)
(* The fields of an instruction and the arithmetic of C ints.              *)
(***************************************************************************)
LEMMA DivRange ==
    ASSUME NEW k \in Nat \ {0}, NEW i \in Int, NEW lo \in Int, NEW hi \in Int,
           lo * k <= i, i < hi * k
    PROVE  i \div k \in lo .. hi - 1
  OBVIOUS

LEMMA OpcodeRange ==
    ASSUME NEW i \in Word
    PROVE  Opcode(i) \in -64 .. 63
  <1>1. 512 * ImmMod \in Nat \ {0} /\ i \in Int
    BY ImmModAssumption DEF Word, WordMod
  <1>2. (-64) * (512 * ImmMod) <= i /\ i < 64 * (512 * ImmMod)
    BY ImmModAssumption DEF Word, WordMod
  <1> QED
    BY <1>1, <1>2, DivRange DEF Opcode

LEMMA FieldRanges ==
    ASSUME NEW i \in Word
    PROVE  /\ Dst(i) \in RegId /\ Src0(i) \in RegId /\ Src1(i) \in RegId
           /\ Imm(i) \in Immediate
  BY ImmModAssumption DEF Word, WordMod, Dst, Src0, Src1, Imm, RegId, Immediate

LEMMA WrapWord ==
    ASSUME NEW n \in Int
    PROVE  Wrap(n) \in Word
  BY ImmModAssumption DEF Wrap, Word, WordMod

\* Register numbers, immediates and small constants are words.
LEMMA SmallWords ==
    /\ Immediate \subseteq Word /\ RegId \subseteq Word /\ 0 \in Word
    /\ Word \subseteq Int
  BY ImmModAssumption DEF Immediate, RegId, Word, WordMod

LEMMA OperandWord ==
    ASSUME NEW rf \in [RegId -> Word], NEW s \in RegId, NEW imm \in Immediate
    PROVE  Operand(rf, s, imm) \in Word
  BY SmallWords DEF Operand

LEMMA SmallMod ==
    ASSUME NEW m \in Nat \ {0}, NEW x \in Int, 0 <= x, x < m
    PROVE  x % m = x
  OBVIOUS

\* A number that is a word is kept as it is.
LEMMA WrapOfWord ==
    ASSUME NEW a \in Word
    PROVE  Wrap(a) = a
  <1> DEFINE H == WordMod \div 2
  <1>1. WordMod \in Nat \ {0} /\ H \in Nat /\ WordMod = 2 * H
    BY ImmModAssumption DEF WordMod
  <1>2. a \in Int /\ -H <= a /\ a < H
    BY <1>1 DEF Word
  <1>3. a + H \in Int /\ 0 <= a + H /\ a + H < WordMod
    BY <1>1, <1>2
  <1>4. (a + H) % WordMod = a + H
    BY <1>1, <1>3, SmallMod
  <1> QED
    BY <1>1, <1>2, <1>4 DEF Wrap

\* The next address and back is the same address, at the end of the words, too.
LEMMA WrapBack ==
    ASSUME NEW a \in Word
    PROVE  Wrap(Wrap(a + 1) - 1) = a
  <1> DEFINE H == WordMod \div 2
  <1>1. WordMod \in Nat \ {0} /\ H \in Nat \ {0} /\ WordMod = 2 * H
    BY ImmModAssumption DEF WordMod
  <1>2. a \in Int /\ -H <= a /\ a < H
    BY <1>1 DEF Word
  <1>3. CASE a + 1 < H
    <2>1. a + 1 \in Word
      BY <1>1, <1>2, <1>3 DEF Word
    <2>2. Wrap(a + 1) = a + 1
      BY <2>1, WrapOfWord
    <2> QED
      BY <1>2, <2>2, WrapOfWord
  <1>4. CASE a + 1 = H
    <2>1. (a + 1 + H) % WordMod = 0
      BY <1>1, <1>2, <1>4
    <2>2. Wrap(a + 1) = -H
      BY <1>1, <2>1 DEF Wrap
    <2>3. (-H - 1 + H) % WordMod = WordMod - 1
      BY <1>1
    <2>4. Wrap(-H - 1) = H - 1
      BY <1>1, <2>3 DEF Wrap
    <2> QED
      BY <1>1, <1>2, <1>4, <2>2, <2>4
  <1> QED
    BY <1>1, <1>2, <1>3, <1>4

\* A number of which the low part is known.
LEMMA MultipleDiv ==
    ASSUME NEW k \in Int, NEW i \in Int, NEW m \in Nat \ {0}, NEW n \in Nat \ {0},
           0 <= i, i < m
    PROVE  (k * m + i) \div (n * m) = k \div n
  <1>1. PICK q \in Int : q = k \div n
    OBVIOUS
  <1>2. q * n <= k /\ k + 1 <= (q + 1) * n
    BY <1>1
  <1>3. n * m \in Nat \ {0}
    OBVIOUS
  <1>4. k * m + i \in Int
    OBVIOUS
  <1>5. q * (n * m) <= k * m + i
    <2>1. (q * n) * m <= k * m
      BY <1>2
    <2> QED
      BY <2>1
  <1>6. k * m + i < (q + 1) * (n * m)
    <2>1. (k + 1) * m <= ((q + 1) * n) * m
      BY <1>2
    <2>2. ((q + 1) * n) * m = (q + 1) * (n * m)
      OBVIOUS
    <2>3. (k + 1) * m = k * m + m
      OBVIOUS
    <2> QED
      BY <2>1, <2>2, <2>3
  <1>7. (k * m + i) \div (n * m) \in q .. (q + 1) - 1
    BY <1>3, <1>4, <1>5, <1>6, DivRange
  <1> QED
    BY <1>1, <1>7

LEMMA MultipleMod ==
    ASSUME NEW k \in Int, NEW i \in Int, NEW m \in Nat \ {0}, 0 <= i, i < m
    PROVE  (k * m + i) \div m = k /\ (k * m + i) % m = i
  <1>1. k * m <= k * m + i /\ k * m + i < (k + 1) * m /\ k * m + i \in Int
    OBVIOUS
  <1>2. (k * m + i) \div m \in k .. (k + 1) - 1
    BY <1>1, DivRange
  <1>3. (k * m + i) % m = (k * m + i) - m * ((k * m + i) \div m)
    OBVIOUS
  <1> QED
    BY <1>2, <1>3

LEMMA EncodeFields ==
    ASSUME NEW o \in 0 .. 31, NEW d \in RegId, NEW s \in RegId, NEW t \in RegId,
           NEW i \in Immediate
    PROVE  LET w == Encode(o, d, s, t, i)
           IN  /\ Opcode(w) = o /\ Dst(w) = d /\ Src0(w) = s /\ Src1(w) = t /\ Imm(w) = i
  <1> DEFINE k == o * 512 + d * 64 + s * 8 + t
             w == k * ImmMod + i
  <1>1. k \in Int /\ i \in Int /\ 0 <= i /\ i < ImmMod /\ ImmMod \in Nat \ {0}
    BY ImmModAssumption DEF RegId, Immediate
  <1>2. Encode(o, d, s, t, i) = w
    <2>1. i % ImmMod = i
      BY <1>1, SmallMod
    <2>2. o % 32 = o /\ d % 8 = d /\ s % 8 = s /\ t % 8 = t
      BY DEF RegId
    <2> QED
      BY <2>1, <2>2 DEF Encode
  <1>3. k \div 512 = o /\ (k \div 64) % 8 = d /\ (k \div 8) % 8 = s /\ k % 8 = t
    BY DEF RegId
  <1> HIDE DEF k
  <1>4. \A n \in Nat \ {0} : w \div (n * ImmMod) = k \div n
    BY <1>1, MultipleDiv
  <1>5. w \div (512 * ImmMod) = k \div 512 /\ w \div (64 * ImmMod) = k \div 64
        /\ w \div (8 * ImmMod) = k \div 8
    BY <1>4
  <1>6. w \div ImmMod = k /\ w % ImmMod = i
    BY <1>1, MultipleMod
  <1> QED
    BY <1>2, <1>3, <1>5, <1>6 DEF Opcode, Dst, Src0, Src1, Imm

LEMMA ModTurns ==
    ASSUME NEW m \in Nat \ {0}, NEW x \in Int, NEW k \in Int
    PROVE  (x + k * m) % m = x % m
  <1>1. PICK q \in Int : q = x \div m
    OBVIOUS
  <1>2. PICK y \in Int : y = x % m /\ 0 <= y /\ y < m
    OBVIOUS
  <1>3. x = m * q + y
    BY <1>1, <1>2
  <1>4. x + k * m = (q + k) * m + y /\ q + k \in Int
    BY <1>3
  <1>5. ((q + k) * m + y) % m = y
    BY <1>2, <1>4, MultipleMod
  <1> QED
    BY <1>2, <1>4, <1>5

\* Whole turns do not count.
LEMMA WrapTurns ==
    ASSUME NEW n \in Int, NEW k \in Int
    PROVE  Wrap(n + k * WordMod) = Wrap(n)
  <1> DEFINE H == WordMod \div 2
  <1>1. WordMod \in Nat \ {0} /\ H \in Nat
    BY ImmModAssumption DEF WordMod
  <1>2. \A x \in Int : (x + k * WordMod) % WordMod = x % WordMod
    BY <1>1, ModTurns
  <1>3. (n + k * WordMod) + H = (n + H) + k * WordMod
    BY <1>1
  <1>4. n + H \in Int
    BY <1>1
  <1> HIDE DEF H
  <1>5. ((n + k * WordMod) + H) % WordMod = (n + H) % WordMod
    BY <1>2, <1>3, <1>4
  <1> QED
    BY <1>5 DEF Wrap, H

LEMMA WrapIsTurn ==
    ASSUME NEW n \in Int
    PROVE  \E k \in Int : Wrap(n) = n + k * WordMod
  <1> DEFINE H == WordMod \div 2
             q == (n + H) \div WordMod
  <1>1. WordMod \in Nat \ {0} /\ H \in Nat
    BY ImmModAssumption DEF WordMod
  <1>2. (n + H) % WordMod = (n + H) - q * WordMod /\ q \in Int
    BY <1>1
  <1>3. Wrap(n) = n + (-q) * WordMod
    BY <1>1, <1>2 DEF Wrap
  <1> QED
    BY <1>2, <1>3

\* A sum or a product may be wrapped in between.
LEMMA WrapInside ==
    ASSUME NEW a \in Int, NEW b \in Int, NEW h \in Int
    PROVE  Wrap(b + Wrap(a) * h) = Wrap(b + a * h)
  <1>0. WordMod \in Int
    BY ImmModAssumption DEF WordMod
  <1>1. PICK k \in Int : Wrap(a) = a + k * WordMod
    BY WrapIsTurn
  <1>2. b + Wrap(a) * h = (b + a * h) + (k * h) * WordMod
    BY <1>0, <1>1
  <1>3. b + a * h \in Int /\ k * h \in Int
    OBVIOUS
  <1> QED
    BY <1>2, <1>3, WrapTurns

LEMMA WrapSum ==
    ASSUME NEW a \in Int, NEW b \in Int
    PROVE  Wrap(Wrap(a) + b) = Wrap(a + b)
  <1>1. Wrap(b + Wrap(a) * 1) = Wrap(b + a * 1)
    BY WrapInside
  <1>2. Wrap(a) \in Int
    BY WrapWord, SmallWords
  <1> QED
    BY <1>1, <1>2

-----------------------------------------------------------------------------
(***************************************************************************)
(* The ALUs.  The powers of two come from a table, since no backend knows  *)
(* what it means to add one to an exponent.                                *)
(***************************************************************************)
Pow2(n) == 2 ^ n

LEMMA PowerTable ==
    /\ Pow2(0) = 1 /\ Pow2(1) = 2 /\ Pow2(2) = 4 /\ Pow2(3) = 8
    /\ Pow2(4) = 16 /\ Pow2(5) = 32 /\ Pow2(6) = 64 /\ Pow2(7) = 128
    /\ Pow2(8) = 256 /\ Pow2(9) = 512 /\ Pow2(10) = 1024 /\ Pow2(11) = 2048
    /\ Pow2(12) = 4096 /\ Pow2(13) = 8192 /\ Pow2(14) = 16384 /\ Pow2(15) = 32768
    /\ Pow2(16) = 65536 /\ Pow2(17) = 131072 /\ Pow2(18) = 262144 /\ Pow2(19) = 524288
    /\ Pow2(20) = 1048576 /\ Pow2(21) = 2097152 /\ Pow2(22) = 4194304
    /\ Pow2(23) = 8388608 /\ Pow2(24) = 16777216 /\ Pow2(25) = 33554432
    /\ Pow2(26) = 67108864 /\ Pow2(27) = 134217728 /\ Pow2(28) = 268435456
    /\ Pow2(29) = 536870912 /\ Pow2(30) = 1073741824 /\ Pow2(31) = 2147483648
    /\ Pow2(32) = 4294967296
  BY DEF Pow2

LEMMA PowerPositive == \A n \in 0 .. 32 : 2 ^ n \in Nat \ {0}
  <1>1. \A n \in 0 .. 32 : Pow2(n) \in Nat \ {0}
    BY PowerTable
  <1> QED
    BY <1>1 DEF Pow2

\* The words of the ALUs are those of the instruction set.
SameWords == AluWordMod = WordMod

\* The lowest bit of a number.
LowBit == \A a \in Nat : And(a, 1) = a % 2

\* The operators of bits have numbers for results.
BitsClosed ==
    \A a, b \in Nat : And(a, b) \in Int /\ Or(a, b) \in Int /\ Xor(a, b) \in Int

LEMMA SignedWord ==
    ASSUME SameWords, NEW n \in Int
    PROVE  Signed(n) = Wrap(n) /\ Signed(n) \in Word
  BY WrapWord DEF SameWords, Signed, Wrap

LEMMA SignedOfWord ==
    ASSUME SameWords, NEW n \in Word
    PROVE  Signed(n) = n
  BY SignedWord, WrapOfWord, SmallWords

LEMMA UnsignedOfWord ==
    ASSUME SameWords, NEW n \in Word
    PROVE  /\ Unsigned(n) \in Nat
           /\ Unsigned(n) = IF n >= 0 THEN n ELSE n + WordMod
  <1> DEFINE H == WordMod \div 2
  <1>1. WordMod \in Nat \ {0} /\ H \in Nat /\ WordMod = 2 * H
    BY ImmModAssumption DEF WordMod
  <1>2. n \in Int /\ -H <= n /\ n < H
    BY <1>1 DEF Word
  <1>3. CASE n >= 0
    BY <1>1, <1>2, <1>3, SmallMod DEF SameWords, Unsigned
  <1>4. CASE n < 0
    <2>1. n % WordMod = (n + WordMod) % WordMod
      BY <1>1, <1>2
    <2>2. (n + WordMod) % WordMod = n + WordMod
      BY <1>1, <1>2, <1>4, SmallMod
    <2> QED
      BY <1>1, <1>2, <1>4, <2>1, <2>2 DEF SameWords, Unsigned
  <1> QED
    BY <1>2, <1>3, <1>4

LEMMA DivWord ==
    ASSUME NEW n \in Word, NEW k \in Nat \ {0}
    PROVE  n \div k \in Word
  <1> DEFINE H == WordMod \div 2
  <1>1. WordMod \in Nat \ {0} /\ H \in Nat /\ WordMod = 2 * H
    BY ImmModAssumption DEF WordMod
  <1>2. n \in Int /\ -H <= n /\ n < H
    BY <1>1 DEF Word
  <1>3. (-H) * k <= -H /\ H <= H * k
    BY <1>1
  <1>4. (-H) * k <= n /\ n < H * k
    BY <1>1, <1>2, <1>3
  <1>5. n \div k \in -H .. H - 1
    BY <1>1, <1>2, <1>4, DivRange
  <1> QED
    BY <1>5 DEF Word

\* The amounts by which a word is shifted.
LEMMA ShiftAmount ==
    ASSUME NEW b \in Int
    PROVE  /\ b % ShiftMod \in 0 .. AluWordBits
           /\ 2 ^ (b % ShiftMod) \in Nat \ {0}
           /\ b \in 0 .. ShiftMod - 1 => b % ShiftMod = b
  <1>1. AluWordBits \in 1 .. 32 /\ ShiftMod \in 1 .. AluWordBits
    BY AluAssumption
  <1>2. b % ShiftMod \in 0 .. ShiftMod - 1
    BY <1>1
  <1>3. b % ShiftMod \in 0 .. 32 /\ b % ShiftMod \in 0 .. AluWordBits
    BY <1>1, <1>2
  <1>4. b \in 0 .. ShiftMod - 1 => b % ShiftMod = b
    BY <1>1, SmallMod
  <1> QED
    BY <1>3, <1>4, PowerPositive

LEMMA ShiftLeftWord ==
    ASSUME SameWords, NEW a \in Int, NEW n \in 0 .. AluWordBits
    PROVE  ShiftLeft(a, n) \in Word
  <1>1. AluWordBits - n \in 0 .. 32 /\ n \in 0 .. 32
    BY AluAssumption
  <1>2. PICK k \in Nat \ {0} : k = 2 ^ (AluWordBits - n)
    BY <1>1, PowerPositive
  <1>3. PICK l \in Nat \ {0} : l = 2 ^ n
    BY <1>1, PowerPositive
  <1>4. (a % k) * l \in Int
    OBVIOUS
  <1> QED
    BY <1>2, <1>3, <1>4, SignedWord DEF ShiftLeft

\* The shifts of mult.c.
LEMMA ShiftOnce ==
    ASSUME SameWords, ShiftMod > 1, NEW a \in Int
    PROVE  /\ 1 % ShiftMod = 1 /\ 2 ^ 1 = 2
           /\ ShiftLeft(a, 1) = Wrap(2 * a)
  <1>1. ShiftMod \in 1 .. 32 /\ AluWordBits \in 1 .. 32
    BY AluAssumption
  <1>2. 1 % ShiftMod = 1
    BY <1>1
  <1>3. 2 ^ 1 = 2
    OBVIOUS
  <1>4. PICK h \in Nat \ {0} : h = 2 ^ (AluWordBits - 1) /\ WordMod = 2 * h
    <2>1. \A n \in 1 .. 32 : Pow2(n) = 2 * Pow2(n - 1) /\ Pow2(n - 1) \in Nat \ {0}
      BY PowerTable
    <2> QED
      BY <1>1, <2>1 DEF Pow2, SameWords, AluWordMod
  <1>5. (a % h) * 2 = 2 * a + (-(a \div h)) * WordMod
    <2>1. PICK q \in Int : q = a \div h /\ a % h = a - h * q
      BY <1>4
    <2> QED
      BY <1>4, <2>1
  <1>6. ShiftLeft(a, 1) = Wrap((a % h) * 2)
    BY <1>3, <1>4, SignedWord DEF ShiftLeft
  <1>7. a \div h \in Int
    BY <1>4
  <1> QED
    BY <1>2, <1>3, <1>5, <1>6, <1>7, WrapTurns

LEMMA SpAluWord ==
    ASSUME SameWords, BitsClosed,
           NEW o \in Int, NEW a \in Word, NEW b \in Word, NEW imm \in Immediate
    PROVE  SpAlu(o, a, b, imm) \in Word
  <1>1. a \in Int /\ b \in Int /\ imm \in Int /\ 0 \in Word /\ 1 \in Word
    BY SmallWords, ImmModAssumption DEF Immediate, Word, WordMod
  <1>2. o = 0 => SpAlu(o, a, b, imm) \in Word
    BY <1>1, SignedWord DEF SpAlu
  <1>3. o = 1 => SpAlu(o, a, b, imm) \in Word
    BY <1>1, SignedWord DEF SpAlu
  <1>4. o = 2 => SpAlu(o, a, b, imm) \in Word
    BY <1>1, ShiftAmount, ShiftLeftWord DEF SpAlu
  <1>5. o = 3 => SpAlu(o, a, b, imm) \in Word
    <2>1. PICK k \in Nat \ {0} : k = 2 ^ (b % ShiftMod)
      BY <1>1, ShiftAmount
    <2> QED
      BY <2>1, DivWord DEF SpAlu
  <1>6. o \in {4, 5, 6} => SpAlu(o, a, b, imm) \in Word
    <2>1. Unsigned(a) \in Nat /\ Unsigned(b) \in Nat
      BY UnsignedOfWord
    <2>2. /\ And(Unsigned(a), Unsigned(b)) \in Int
          /\ Or(Unsigned(a), Unsigned(b)) \in Int
          /\ Xor(Unsigned(a), Unsigned(b)) \in Int
      BY <2>1 DEF BitsClosed
    <2>3. BitAnd(a, b) \in Word /\ BitOr(a, b) \in Word /\ BitXor(a, b) \in Word
      BY <2>2, SignedWord DEF BitAnd, BitOr, BitXor
    <2> QED
      BY <2>3 DEF SpAlu
  <1>7. o = 7 => SpAlu(o, a, b, imm) \in Word
    <2>1. ShiftLeft(imm, AluImmBits) \in Int
      BY <1>1, ShiftLeftWord, SmallWords, AluAssumption
    <2>2. Bool(a # 0) \in {0, 1}
      BY DEF Bool
    <2> QED
      BY <2>1, <2>2, SignedWord DEF SpAlu
  <1>8. o \in 16 .. 20 => SpAlu(o, a, b, imm) \in {0, 1}
    BY DEF SpAlu, Bool
  <1>9. o \notin 0 .. 7 \cup 16 .. 20 => SpAlu(o, a, b, imm) = 0
    BY DEF SpAlu
  <1> QED
    BY <1>1, <1>2, <1>3, <1>4, <1>5, <1>6, <1>7, <1>8, <1>9

LEMMA IssAluWord ==
    ASSUME SameWords, BitsClosed,
           NEW o \in Int, NEW a \in Word, NEW b \in Word, NEW imm \in Immediate
    PROVE  IssAlu(o, a, b, imm) \in Word
  <1>1. o = 3 => IssAlu(o, a, b, imm) \in Word
    <2>1. PICK k \in Nat \ {0} : k = 2 ^ (b % ShiftMod)
      BY ShiftAmount, SmallWords
    <2>2. Unsigned(a) \div k \in Int
      BY UnsignedOfWord
    <2> QED
      BY <2>1, <2>2, SignedWord DEF IssAlu
  <1>2. o \in {16, 17} => IssAlu(o, a, b, imm) \in {0, 1}
    BY DEF IssAlu, Bool
  <1>3. o \notin {3, 16, 17} => IssAlu(o, a, b, imm) = SpAlu(o, a, b, imm)
    BY DEF IssAlu
  <1>4. 0 \in Word /\ 1 \in Word
    BY ImmModAssumption DEF Word, WordMod
  <1> QED
    BY <1>1, <1>2, <1>3, <1>4, SpAluWord

LEMMA RtlAluWord ==
    ASSUME SameWords, BitsClosed, NEW o \in Int, NEW a \in Word, NEW b \in Word
    PROVE  RtlAlu(o, a, b) \in Word
  <1>0. a \in Int /\ 0 \in Word /\ 1 \in Word /\ 0 \in Immediate
    BY SmallWords, ImmModAssumption DEF Word, WordMod, Immediate
  <1>1. CASE o \in {2, 3} /\ Unsigned(b) < AluWordBits
    <2>1. Unsigned(b) \in 0 .. AluWordBits /\ Unsigned(b) \in 0 .. 32
      BY <1>1, UnsignedOfWord, AluAssumption
    <2>2. PICK k \in Nat \ {0} : k = 2 ^ Unsigned(b)
      BY <2>1, PowerPositive
    <2>3. Signed(Unsigned(a) \div k) \in Word
      BY UnsignedOfWord, SignedWord
    <2>4. ShiftLeft(a, Unsigned(b)) \in Word
      BY <1>0, <2>1, ShiftLeftWord
    <2>5. ~(Unsigned(b) >= AluWordBits)
      BY <1>1, <2>1, AluAssumption
    <2> QED
      BY <1>1, <2>2, <2>3, <2>4, <2>5 DEF RtlAlu
  <1>2. CASE o \in {2, 3} /\ ~(Unsigned(b) < AluWordBits)
    <2>1. Unsigned(b) >= AluWordBits
      BY <1>2, UnsignedOfWord, AluAssumption
    <2> QED
      BY <1>0, <1>2, <2>1 DEF RtlAlu
  <1>3. CASE o \in {16, 17}
    BY <1>0, <1>3 DEF RtlAlu, Bool
  <1>4. CASE o \notin {2, 3, 16, 17}
    <2>1. RtlAlu(o, a, b) = SpAlu(o, a, b, 0)
      BY <1>4 DEF RtlAlu
    <2> QED
      BY <1>0, <2>1, SpAluWord
  <1> QED
    BY <1>1, <1>2, <1>3, <1>4

-----------------------------------------------------------------------------
(***************************************************************************)
(* What the theorems suppose of an ALU.                                    *)
(***************************************************************************)
IsSpAlu  == \A o, a, b, imm : Alu(o, a, b, imm) = SpAlu(o, a, b, imm)
IsIssAlu == \A o, a, b, imm : Alu(o, a, b, imm) = IssAlu(o, a, b, imm)
IsRtlAlu == \A o, a, b, imm : Alu(o, a, b, imm) = RtlAlu(o, a, b)

\* A processor with the ALU of sp.c, of words of the right width.
SpWords == SameWords /\ BitsClosed /\ IsSpAlu

\* Comparisons say yes or no.
Compares ==
    \A o \in JumpOps, a, b \in Word, imm \in Immediate : Alu(o, a, b, imm) \in {0, 1}

\* The ALU of sp.c, of words of any width up to 32, is one of those that the
\* theorems about the multi-cycle and the pipelined processor are about: its
\* results are words, and the nop of a stall computes zero.
THEOREM SpAluFits ==
    ASSUME SameWords, BitsClosed, IsSpAlu
    PROVE  AluClosed /\ Compares /\ Alu(ADD, 0, 0, 0) = 0
  <1>1. AluClosed
    BY SpAluWord DEF AluClosed, IsSpAlu
  <1>2. Compares
    BY DEF Compares, JumpOps, IsSpAlu, SpAlu, Bool
  <1>3. Alu(ADD, 0, 0, 0) = 0
    <2>1. Signed(0 + 0) = 0
      BY SignedOfWord, SmallWords
    <2> QED
      BY <2>1 DEF IsSpAlu, SpAlu, ADD
  <1> QED
    BY <1>1, <1>2, <1>3

\* So is that of iss.c, which is unsigned.
THEOREM IssAluFits ==
    ASSUME SameWords, BitsClosed, IsIssAlu
    PROVE  AluClosed /\ Compares /\ Alu(ADD, 0, 0, 0) = 0
  <1>1. AluClosed
    BY IssAluWord DEF AluClosed, IsIssAlu
  <1>2. Compares
    BY DEF Compares, JumpOps, IsIssAlu, IssAlu, SpAlu, Bool
  <1>3. Alu(ADD, 0, 0, 0) = 0
    <2>1. Signed(0 + 0) = 0
      BY SignedOfWord, SmallWords
    <2> QED
      BY <2>1 DEF IsIssAlu, IssAlu, SpAlu, ADD
  <1> QED
    BY <1>1, <1>2, <1>3

\* alu.v has what the theorems about the Verilog processor suppose.
THEOREM RtlAluFits ==
    ASSUME SameWords, BitsClosed, IsRtlAlu
    PROVE  AluClosed /\ Compares
  <1>1. AluClosed
    BY RtlAluWord DEF AluClosed, IsRtlAlu
  <1>2. Compares
    BY DEF Compares, JumpOps, IsRtlAlu, RtlAlu, SpAlu, Bool
  <1> QED
    BY <1>1, <1>2

\* alu.v computes what iss.c does, for every shift amount below the word.
LEMMA RtlComputesAsIss ==
    ASSUME SameWords, NEW o \in (AluOps \cup JumpOps) \ {LHI},
           NEW a \in Word, NEW b \in Word, NEW imm \in Immediate,
           o \notin {LSF, RSF} \/ b \in 0 .. ShiftMod - 1
    PROVE  RtlAlu(o, a, b) = IssAlu(o, a, b, imm)
  <1>1. CASE o \in {2, 3}
    <2>1. b \in 0 .. ShiftMod - 1 /\ b % ShiftMod = b
      BY <1>1, ShiftAmount, SmallWords DEF LSF, RSF
    <2>2. Unsigned(b) = b /\ ~(b >= AluWordBits)
      BY <2>1, UnsignedOfWord, AluAssumption
    <2> QED
      BY <1>1, <2>1, <2>2 DEF RtlAlu, IssAlu, SpAlu
  <1>2. CASE o \notin {2, 3}
    BY <1>2 DEF RtlAlu, IssAlu, SpAlu, AluOps, JumpOps, LHI
  <1> QED
    BY <1>1, <1>2

\* sp.c does, too, but for the right shift of a negative number and the order
\* between numbers of different sign.
LEMMA SpComputesAsIss ==
    ASSUME SameWords, NEW o \in AluOps \cup JumpOps,
           NEW a \in Word, NEW b \in Word, NEW imm \in Immediate,
           ~(o = RSF /\ a < 0), ~(o \in {JLT, JLE} /\ (a < 0) # (b < 0))
    PROVE  SpAlu(o, a, b, imm) = IssAlu(o, a, b, imm)
  <1>0. WordMod \in Nat /\ a \in Int /\ b \in Int
    BY SmallWords, ImmModAssumption DEF WordMod
  <1>1. CASE o = 3
    <2>1. PICK k \in Nat \ {0} : k = 2 ^ (b % ShiftMod)
      BY <1>0, ShiftAmount
    <2>2. a >= 0 /\ Unsigned(a) = a
      BY <1>0, <1>1, UnsignedOfWord DEF RSF
    <2>3. Signed(a \div k) = a \div k
      BY DivWord, SignedOfWord
    <2> QED
      BY <1>1, <2>1, <2>2, <2>3 DEF SpAlu, IssAlu
  <1>2. CASE o \in {16, 17}
    <2>1. (a < 0) = (b < 0)
      BY <1>2 DEF JLT, JLE
    <2>2. /\ Unsigned(a) < Unsigned(b) <=> a < b
          /\ Unsigned(a) <= Unsigned(b) <=> a <= b
      BY <1>0, <2>1, UnsignedOfWord
    <2> QED
      BY <1>2, <2>2 DEF SpAlu, IssAlu, Bool
  <1>3. CASE o \notin {3, 16, 17}
    BY <1>3 DEF IssAlu
  <1> QED
    BY <1>1, <1>2, <1>3
=============================================================================
