------------------------------ MODULE MCSPPipe ------------------------------
(***************************************************************************)
(* SPPipe for TLC: words of 21 bits with immediates of 5 and memories of   *)
(* 24 words (22, 6 and 48 where the test programs run).  A program stands  *)
(* at 0, HLT and zero words follow it, its data is at 16 to 23.            *)
(***************************************************************************)
EXTENDS SPPipeRules, SPAlu, MCBits, Sequences

MCAlu(o, x, y, imm) == SpAlu(o, x, y, imm)
MCBaad == -283731

Data == <<101, 102, -5, 104, 105, 106, 16, 0>>

Image(prog) ==
    [p \in 0 .. Height - 1 |->
        IF p < Len(prog) THEN prog[p + 1] ELSE IF p \in 16 .. 23 THEN Data[p - 15] ELSE 0]

Stop == <<Encode(HLT, 0, 0, 0, 0)>>

SetUp == << Encode(ADD, 2, 1, 0, 16),   \* r2 = 16
            Encode(ADD, 3, 1, 0, 20) >> \* r3 = 20

-----------------------------------------------------------------------------
\* Programs that keep no rule at all.
Menu == { Encode(ADD, 2, 1, 0, 22),    \* r2 = 22
          Encode(XOR, 3, 2, 3, 0),     \* r3 = r2 ^ r3
          Encode(LD, 4, 0, 2, 0),      \* r4 = MEM[r2]
          Encode(LD, 5, 0, 4, 0),      \* r5 = MEM[r4], perhaps out of range
          Encode(ST, 0, 3, 2, 0),      \* MEM[r2] = r3
          Encode(ST, 4, 2, 1, 17),     \* a store that marks r4 busy
          Encode(JNE, 0, 4, 0, 2),     \* backward while r4 # 0
          Encode(JEQ, 0, 0, 0, 6),     \* forward
          Encode(DMA, 0, 2, 3, 3),     \* copy 3 words from r2 to r3
          Encode(POL, 4, 0, 0, 0) }    \* r4 = words left

WildImages ==
    { Image(SetUp \o <<i, j, k, l>> \o Stop) : i, j, k, l \in Menu }
        \cup
    { Image(SetUp \o <<i>> \o Stop) :
        i \in { Encode(ADD, 0, 1, 0, 3), Encode(JIN, 0, 0, 0, 30), Encode(LHI, 1, 2, 3, 4),
                Encode(12, 5, 2, 3, 1), Encode(LD, 4, 0, 1, 18) } }
        \cup
    \* HLT retires while the instruction behind a load waits for it.
    { Image(SetUp \o Stop \o <<Encode(LD, 4, 0, 1, 18), Encode(ADD, 5, 4, 4, 0)>>) }

=============================================================================
