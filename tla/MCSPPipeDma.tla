---------------------------- MODULE MCSPPipeDma ----------------------------
(***************************************************************************)
(* Transfers of the pipelined processor for TLC: a program starts one,     *)
(* polls it in a loop until no word is left, and does other things         *)
(* meanwhile, another DMA instruction and jumps included; and the test      *)
(* program pipe_dma.c, whose loop loads and stores during the transfer.    *)
(***************************************************************************)
EXTENDS MCSPPipe, SPPrograms

DmaMenu == { Encode(ADD, 5, 2, 1, 1),     \* r5 = r2 + 1
             Encode(XOR, 5, 5, 7, 0),     \* r5 = r5 ^ r7, perhaps waiting for r5
             Encode(JLT, 0, 3, 2, 7),     \* never taken
             Encode(JEQ, 0, 0, 0, 8),     \* to the end of the loop
             Encode(POL, 6, 0, 0, 0),
             Encode(DMA, 0, 3, 2, 2) }    \* back, if the first is over

DmaPrograms ==
    { SetUp \o <<Encode(DMA, 0, 2, 3, n), Encode(POL, 4, 0, 0, 0), i, j, k,
                 Encode(OR, 7, 0, 0, 0), Encode(JNE, 0, 4, 0, 3)>> \o Stop :
        n \in {0, 2, 4}, i, j, k \in DmaMenu }

Tests == UNION { { PipeDma(26, n, 32, k, 40, 7) : k \in 0 .. n } : n \in {2, 4, 6} }

TestImages == { t.image : t \in Tests }

DmaImages == { m \in { Image(p) : p \in DmaPrograms } : Disciplined(m) } \cup TestImages

\* A program whose text keeps the rules keeps them in every clock of its
\* execution: through stalls, on the wrong path behind a mispredicted jump, in
\* the prefetch behind HLT and at every alignment of loop and transfer.
KeepsRules == srami \notin TestImages => RulesKept

\* pipe_dma.c passes on the pipeline: the simulation ends, and the dump holds
\* the words the program copies and the words the DMA copies, whatever the
\* lengths of loop and transfer and so their alignment.
TestsPass ==
    start /\ srami \in TestImages
        ~> sim = "stopped" /\ \A t \in Tests : srami = t.image => Passed(t, dump)
=============================================================================
