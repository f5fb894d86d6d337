------------------------------ MODULE MCSPMulti ------------------------------
(***************************************************************************)
(* SPMulti for TLC: words of 21 bits with immediates of 5 and a memory of  *)
(* 32 words.  The images are                                               *)
(*   - all programs of a set-up of two additions, a DMA instruction of 0   *)
(*     to 3 words, three instructions of a menu, and HLT, in front of data *)
(*     that the programs load, store, copy and may jump into;              *)
(*   - all programs of a set-up and three plain instructions, which the    *)
(*     instruction-set simulator executes as well;                         *)
(*   - the test programs of lab1 that this processor is tested with.       *)
(***************************************************************************)
EXTENDS SPMultiProps, SPMultiIss, SPPrograms, SPAlu, MCBits

MCAlu(o, a, b, imm) == SpAlu(o, a, b, imm)
MCBaad == -283731

Data == <<101, 102, -5, 104, 105, 106, -7, 108, 109>>

Image(prog) ==
    [a \in 0 .. Height - 1 |->
        IF a < Len(prog) THEN prog[a + 1]
        ELSE IF a \in 7 .. 15 THEN Data[a - 6] ELSE 0]

SetUp(n) == << Encode(ADD, 2, 1, 0, 8),     \* r2 = 8
               Encode(ADD, 3, 1, 0, 12),    \* r3 = 12
               Encode(DMA, 0, 2, 3, n) >>   \* copy n words from r2 to r3

Menu == { Encode(DMA, 0, 3, 2, 2),    \* a transfer back, over the first one
          Encode(LD, 4, 0, 3, 0),     \* r4 = MEM[r3]
          Encode(LD, 5, 0, 4, 0),     \* r5 = MEM[r4], perhaps out of range
          Encode(ST, 0, 3, 2, 0),     \* MEM[r2] = r3
          Encode(POL, 4, 0, 0, 0),    \* r4 = words left
          Encode(JNE, 0, 4, 0, 3),    \* loop while r4 # 0
          Encode(LHI, 0, 4, 2, 9),    \* writes r0
          Encode(JLT, 0, 4, 3, 14),   \* into the data
          Encode(12, 5, 2, 3, 1) }    \* no such opcode

DmaImages == { Image(SetUp(n) \o <<i, j, k, Encode(HLT, 0, 0, 0, 0)>>) :
                 n \in {0, 1, 3}, i, j, k \in Menu }

PlainMenu == { Encode(LD, 4, 0, 3, 0),     \* r4 = MEM[r3], which is -7 at first
               Encode(LD, 2, 0, 2, 0),     \* into its own address register
               Encode(ST, 0, 3, 2, 0),
               Encode(ST, 0, 2, 4, 0),     \* perhaps out of range
               Encode(RSF, 4, 4, 1, 1),
               Encode(LSF, 3, 3, 1, 2),
               Encode(ADD, 0, 2, 3, 0),    \* writes r0
               Encode(JNE, 0, 4, 0, 2),
               Encode(JLT, 0, 4, 3, 5) }

PlainImages == { Image(<<Encode(ADD, 2, 1, 0, 8), Encode(ADD, 3, 1, 0, 13),
                         i, j, k, Encode(HLT, 0, 0, 0, 0)>>) : i, j, k \in PlainMenu }

Tests == { Mult(24, x, y) : x \in {0, 5, 13}, y \in {0, 1, 6, 31} }
           \cup {MultTable(2, 25, 31), MultDma(20, 4, 28, 3, 24), MultDma(20, 3, 28, 2, 24)}

TestImages == { t.image : t \in Tests }

\* The files of the programs with a set-up, which alone begin with this word, end
\* behind their data; those of the assembler have LastAddr words.
MCLoaded(m) == IF m[0] = Encode(ADD, 2, 1, 0, 8) THEN 16 ELSE LastAddr

MCImages == DmaImages \cup PlainImages \cup TestImages

\* The test programs of lab1 pass on this processor: whenever one is the
\* program that was loaded, the simulation ends and the dump holds the words
\* the program is there to compute, whether it works them out itself or has
\* the DMA copy them meanwhile.
TestsPass ==
    ctl_state = "IDLE" /\ program \in TestImages
        ~> sim = "stopped" /\ \A t \in Tests : program = t.image => Passed(t, dump)
=============================================================================
