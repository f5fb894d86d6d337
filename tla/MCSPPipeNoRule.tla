--------------------------- MODULE MCSPPipeNoRule ---------------------------
(***************************************************************************)
(* Small programs that break a rule of SPPipeRules: JumpRule, StoreRule,   *)
(* DestinationRule and DmaRule.  By their comments, which say what the     *)
(* instruction set promises, each of them would run on the pipeline, too.  *)
(***************************************************************************)
EXTENDS MCSPPipeIss

Nop == Encode(OR, 6, 0, 0, 0)

Programs(p) == { Image(p \o Stop) }

\* Against JumpRule: the jump of a loop tests what the instruction before it
\* has computed, and the jump before was taken.
JumpImages == Programs(
    << Encode(ADD, 4, 1, 0, 2),       \* r4 = 2
       Encode(JIN, 0, 0, 0, 2),       \* goto LOOP
       Encode(SUB, 4, 4, 1, 1),       \* LOOP: r4--
       Encode(JNE, 0, 4, 0, 2),       \* if r4 # 0 goto LOOP
       Nop, Nop >>)

\* Against StoreRule: the first jump of the program skips a store.
StoreImages == Programs(
    << Encode(JEQ, 0, 2, 0, 3),       \* if r2 = 0 goto END
       Encode(ST, 0, 1, 2, 16),       \* MEM[r2] = 16
       Nop >>)                        \* END:

\* Against DestinationRule: a conditional jump that is not taken names r4.
DestinationImages == Programs(
    << Encode(JNE, 4, 0, 0, 3),       \* if r0 # 0 goto END
       Encode(ADD, 5, 4, 1, 1),       \* r5 = r4 + 1
       Nop >>)                        \* END:

\* Against DmaRule: a transfer with a store under way.
BusyImages == Programs(
    SetUp \o << Encode(DMA, 0, 2, 3, 2), Nop, Encode(ST, 0, 2, 1, 23), Nop, Nop, Nop >>)
=============================================================================
