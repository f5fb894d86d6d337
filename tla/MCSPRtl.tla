------------------------------- MODULE MCSPRtl -------------------------------
(***************************************************************************)
(* SPRtl for TLC: words of 20 bits, halves of 4, a memory of 16 words.     *)
(***************************************************************************)
EXTENDS SPRtlProps, SPRtlArch, MCBits, Sequences

MCAlu(o, x, y, imm) == RtlAlu(o, x, y)

\* The word at 11 ends a program that jumps into the data.
Data == <<9, 10, 5, 3, Encode(HLT, 0, 0, 0, 0), 12, 14, 2, 1>>

Image(prog, data) ==
    [a \in Address |->
        IF a < Len(prog) THEN prog[a + 1] ELSE IF a >= 7 THEN data[a - 6] ELSE 0]

\* r2 = 8, r3 = 12, copy n words from r2 to r3, and HLT in the end.
Around(n, p) ==
    << Encode(ADD, 2, 1, 0, 8), Encode(ADD, 3, 1, 0, 12), Encode(DMA, 0, 2, 3, n) >>
        \o p \o << Encode(HLT, 0, 0, 0, 0) >>

\* Programs in the common ground of the two processors (SPRtlArch).
Menu == { Encode(DMA, 0, 3, 2, 2),    \* a transfer back
          Encode(LD, 4, 0, 3, 0),     \* r4 = MEM[r3]
          Encode(ST, 0, 3, 1, 14),    \* MEM[14] = r3
          Encode(ST, 0, 3, 7, 5),     \* MEM[r7] = r3, into the program
          Encode(POL, 4, 0, 0, 0),    \* r4 = words left
          Encode(JNE, 0, 4, 0, 3),    \* loop while r4 # 0
          Encode(SUB, 5, 0, 2, 0),    \* r5 = -r2
          Encode(JLT, 0, 5, 2, 6),    \* not taken if r5 is a large number
          Encode(JLT, 0, 0, 3, 10),   \* into the data
          Encode(12, 5, 2, 3, 1) }    \* no such opcode

MCImages == { Image(Around(n, <<i, j, k>>), Data) : n \in {1, 3}, i, j, k \in Menu }

\* A transfer of a word that does not fit 16 bits.
WideImages == { Image(Around(1, << Encode(OR, 4, 0, 0, 0), Encode(OR, 5, 0, 0, 0) >>),
                      [Data EXCEPT ![2] = 3 * ImmMod + 1]) }

=============================================================================
