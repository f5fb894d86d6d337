------------------------------- MODULE SPAlu -------------------------------
(***************************************************************************)
(* The ALUs of the simulators.  They agree on what a word is (WordBits     *)
(* bits, kept as a signed integer of Word) and differ where C ints, C      *)
(* unsigned ints and Verilog vectors do: in comparisons, right shifts,     *)
(* shift amounts past the word and the instruction LHI.  The operators of  *)
(* bits, which all of them share, are parameters.                          *)
(***************************************************************************)
EXTENDS Integers

CONSTANTS AluWordBits, \* 32 in the code
          AluImmBits,  \* 16 in the code
          ShiftMod,    \* shift amounts of the build are taken modulo this, 32 on x86
          And(_, _), Or(_, _), Xor(_, _)  \* &, | and ^ of numbers that are not negative

ASSUME AluAssumption ==
    /\ AluWordBits \in 1 .. 32
    /\ AluImmBits \in 0 .. AluWordBits
    /\ ShiftMod \in 1 .. AluWordBits

AluWordMod == 2 ^ AluWordBits
Signed(x)   == ((x + AluWordMod \div 2) % AluWordMod) - AluWordMod \div 2
Unsigned(x) == x % AluWordMod
Bool(b)     == IF b THEN 1 ELSE 0

\* a << n for 0 <= n <= AluWordBits; the bits that leave the word are dropped first.
ShiftLeft(a, n)  == Signed((a % 2 ^ (AluWordBits - n)) * 2 ^ n)
BitAnd(a, b) == Signed(And(Unsigned(a), Unsigned(b)))
BitOr(a, b)  == Signed(Or(Unsigned(a), Unsigned(b)))
BitXor(a, b) == Signed(Xor(Unsigned(a), Unsigned(b)))

-----------------------------------------------------------------------------
\* EXEC0 of lab2/sp.c and exec0 of lab5/sp.c: signed ints.  LHI uses &&, so
\* the old value of operand 0 counts as 0 or 1.
SpAlu(op, a, b, imm) ==
    CASE op = 0 -> Signed(a + b)
      [] op = 1 -> Signed(a - b)
      [] op = 2 -> ShiftLeft(a, b % ShiftMod)
      [] op = 3 -> a \div 2 ^ (b % ShiftMod)
      [] op = 4 -> BitAnd(a, b)
      [] op = 5 -> BitOr(a, b)
      [] op = 6 -> BitXor(a, b)
      [] op = 7 -> Signed(ShiftLeft(imm, AluImmBits) + Bool(a # 0))
      [] op = 16 -> Bool(a < b)
      [] op = 17 -> Bool(a <= b)
      [] op = 18 -> Bool(a = b)
      [] op = 19 -> Bool(a # b)
      [] op = 20 -> 1
      [] OTHER -> 0

\* Faulty: the operands of iss.c were ints.
FaultyIssAlu(op, a, b, imm) == SpAlu(op, a, b, imm)

\* lab1/iss.c: the operands are unsigned ints, shift amounts as in sp.c.
IssAlu(op, a, b, imm) ==
    CASE op = 3  -> Signed(Unsigned(a) \div 2 ^ (b % ShiftMod))
      [] op = 16 -> Bool(Unsigned(a) < Unsigned(b))
      [] op = 17 -> Bool(Unsigned(a) <= Unsigned(b))
      [] OTHER -> SpAlu(op, a, b, imm)

\* Where ints and unsigned ints come to the same: not in a right shift of a
\* negative number, nor in the order of two numbers of different sign.
SignBlind(op, a, b) ==
    /\ op = 3 => a >= 0
    /\ op \in {16, 17} => (a < 0) = (b < 0)

\* lab4/alu.v: unsigned vectors, and shifts by more than the word are possible.
\* LHI, which depends on the output itself, is not here.
RtlAlu(op, a, b) ==
    CASE op = 2 -> IF Unsigned(b) >= AluWordBits THEN 0 ELSE ShiftLeft(a, Unsigned(b))
      [] op = 3 -> IF Unsigned(b) >= AluWordBits THEN 0 ELSE Signed(Unsigned(a) \div 2 ^ Unsigned(b))
      [] op = 16 -> Bool(Unsigned(a) < Unsigned(b))
      [] op = 17 -> Bool(Unsigned(a) <= Unsigned(b))
      [] OTHER -> SpAlu(op, a, b, 0)
=============================================================================
