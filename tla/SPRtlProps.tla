----------------------------- MODULE SPRtlProps -----------------------------
(***************************************************************************)
(* What makes the Verilog processor correct: one driver of the memory at a *)
(* time, reads that reach their reader although sram_EN also fires without *)
(* an address, and the programmer's view of SPArch.                        *)
(***************************************************************************)
EXTENDS SPRtl, SPAlu

\* The memory has one user per clock.  Here no assertion would tell: sram_ADDR
\* and sram_DI would go to the DMA and the access of the program would be lost.
OneUser ==
    /\ \A a, b \in Drivers : a = b
    /\ \A v, w \in Stores : v = w
    /\ ~(sram_WE /\ (Fetching \/ Loading \/ (Storing /\ DmaWriting)))

\* The word a reader takes from sram_DO is the one at its address: no read
\* without a driver and no other reader comes in between, and the sample of
\* the DMA is never put off.
DoFresh ==
    /\ ctl_state = "FETCH1" => do = mem[pc]
    /\ ctl_state = "EXEC1" /\ opcode = LD => do = mem[Half(alu1)]
    /\ dma_state = "SAMPLE" => dma_enable /\ do = mem[dma_raddr]

\* A transfer copies words: what is written is the word that was read.
TransferWhole == [][dma_state = "SAMPLE" => dma_reg' = do]_vars

\* The clocks until the control is in DEC1, by when the word under way is in
\* its place at the latest.
Deadline ==
    LET toDec1 == CASE ctl_state = "DEC1" -> 0
                    [] ctl_state = "DEC0" -> 1
                    [] ctl_state = "FETCH1" -> 2
                    [] ctl_state = "FETCH0" -> 3
                    [] ctl_state = "EXEC1" -> 4
                    [] OTHER -> 5
        late == \/ dma_state = "READ" /\ ctl_state \in {"DEC0", "DEC1"}
                \/ dma_state = "SAMPLE" /\ ctl_state = "DEC1"
    IN  IF late THEN toDec1 + 6 ELSE toDec1

\* The clocks a transfer takes at most; a count of 0 stands for ImmMod words.
DmaClocks == 6 * ((dma_cnt - 1) % ImmMod) + Deadline

\* The DMA copies at least a word per instruction: every clock brings the end
\* of the transfer nearer, whatever the program does with the memory.
WordPerInstruction ==
    [][dma_state # "IDLE" /\ sim' = "running" =>
         dma_state' = "IDLE" \/ DmaClocks' < DmaClocks]_vars

\* The three ALUs, on all operands the programs come to have: alu.v computes
\* what iss.c does, unsigned, for every shift amount below the word; sp.c, with
\* its signed ints, the same, but for a right shift of a negative number and an
\* order between numbers of different sign.  So much of it is common ground of
\* the three, and the traces can be compared no further.
AluCommonGround ==
    ctl_state = "EXEC0" => \A x, y \in {alu0, alu1} : \A op \in (AluOps \cup JumpOps) \ {LHI} :
        op \notin {LSF, RSF} \/ y \in 0 .. ShiftMod - 1
            => /\ RtlAlu(op, x, y) = IssAlu(op, x, y, immediate)
               /\ \/ SpAlu(op, x, y, immediate) = IssAlu(op, x, y, immediate)
                  \/ op = RSF /\ x < 0
                  \/ op \in {JLT, JLE} /\ (x < 0) # (y < 0)
=============================================================================
