------------------------------- MODULE SPIsa -------------------------------
(***************************************************************************)
(* The instruction set shared by the simulators of the SP processor        *)
(* (lab1/iss.c, lab2/sp.c, lab5/sp.c): words, the fields of an instruction *)
(* and the selection of operands.  A word is a signed integer.  An         *)
(* instruction has an opcode, three register numbers of three bits each    *)
(* and an immediate; the code's immediate has 16 bits (ImmMod = 2^16), so  *)
(* its words have 32.  The ALU is a parameter: the control and the memory  *)
(* do not depend on what it computes.                                      *)
(***************************************************************************)
EXTENDS Integers

CONSTANTS ImmMod,          \* number of immediates, 2^16 in the code
          Alu(_, _, _, _)  \* result of opcode, operand 0, operand 1, immediate

WordMod   == 65536 * ImmMod
Word      == -(WordMod \div 2) .. (WordMod \div 2) - 1
Immediate == 0 .. ImmMod - 1
RegId     == 0 .. 7

\* The value a C int keeps of the integer x.
Wrap(x) == ((x + WordMod \div 2) % WordMod) - WordMod \div 2

ASSUME ImmModAssumption == ImmMod \in Nat \ {0}

\* What the theorems about types suppose of the ALU: its results fit a C int.
AluClosed ==
    \A op \in Int, a, b \in Word, imm \in Immediate : Alu(op, a, b, imm) \in Word

-----------------------------------------------------------------------------
ADD == 0
SUB == 1
LSF == 2
RSF == 3
AND == 4
OR  == 5
XOR == 6
LHI == 7
LD  == 8
ST  == 9
DMA == 10
POL == 11
JLT == 16
JLE == 17
JEQ == 18
JNE == 19
JIN == 20
HLT == 24

AluOps  == 0 .. 7
JumpOps == 16 .. 20
Opcodes == AluOps \cup {LD, ST, DMA, POL, HLT} \cup JumpOps

\* inst >> 25 is an arithmetic shift of a signed word, so the opcode of a
\* data word that is executed may be negative or above 31.
Opcode(i) == i \div (512 * ImmMod)

Dst(i) == (i \div (64 * ImmMod)) % 8

Src0(i)   == (i \div (8 * ImmMod)) % 8
Src1(i)   == (i \div ImmMod) % 8
Imm(i)    == i % ImmMod

\* The word asm_cmd emits for an instruction.
Encode(op, dst, src0, src1, imm) ==
    (((op % 32) * 512) + ((dst % 8) * 64) + ((src0 % 8) * 8) + (src1 % 8)) * ImmMod
        + (imm % ImmMod)

\* Faulty: register 1 is read as it was before the instruction.
FaultyOperand(r, s, imm) == r[s]

\* Register number 1 stands for the immediate.
Operand(r, s, imm) == IF s = 1 THEN imm ELSE r[s]

\* What the instruction word i reads from the register file r.  LHI works on
\* its own destination field.
Operand0(r, i) == IF Opcode(i) = LHI THEN Dst(i) ELSE Operand(r, Src0(i), Imm(i))
Operand1(r, i) == Operand(r, Src1(i), Imm(i))

\* The instructions lab1/iss.c decodes from the image m: all up to the first
\* HLT; the rest of its table stays zero.
Decode(m, height) ==
    [p \in 0 .. height - 1 |->
        IF \E h \in 0 .. p - 1 : Opcode(m[h]) = HLT THEN 0 ELSE m[p]]
=============================================================================
