---------------------------- MODULE SPMultiProps ----------------------------
(***************************************************************************)
(* What makes the multi-cycle processor correct: the arbitration of the    *)
(* single memory port, the timing of the control machine, the progress of  *)
(* the DMA, and that clocks implement the programmer's view (SPArch).      *)
(***************************************************************************)
EXTENDS SPMulti

\* The registers hold C ints, the decoded fields have the widths of their
\* shifts and masks, and the machines are in their named states.
TypeOK ==
    /\ r \in [RegId -> Word]
    /\ pc \in Word /\ inst \in Word
    /\ opcode \in -64 .. 63
    /\ dst \in RegId /\ src0 \in RegId /\ src1 \in RegId
    /\ immediate \in Immediate
    /\ alu0 \in Word /\ alu1 \in Word /\ aluout \in Word
    /\ cycle_counter \in 0 .. CycleMod - 1
    /\ ctl_state \in CtlStates
    /\ dma_raddr \in Word /\ dma_waddr \in Word /\ dma_reg \in Word /\ dma_cnt \in Word
    /\ dma_state \in DmaStates
    /\ sram \in [0 .. Height - 1 -> Word]
    /\ dataout \in Word
    /\ dump \in {<<>>} \cup [0 .. Height - 1 -> Word]
    /\ sim \in {"running", "stopped", "conflict", "range", "undefined"}

\* Control and DMA never use the memory in the same clock, whatever the
\* program and the moment it starts a transfer: the assertions of llsim.c
\* against multiple and simultaneous accesses cannot fire.  This is what
\* dma_enable is for.
NoConflict == ~SRAM!Conflict(Reads, Writes) /\ sim # "conflict"

\* A word on the output port is used in the clock after its read and is
\* still the word in the memory, never 0xBAADBAAD or another reader's word:
\* for the fetch, for a load and for the sample of the DMA, which the
\* look-ahead dma_enable(sprn) protects from being held back for a clock.
DataoutFresh ==
    /\ ctl_state = "FETCH1" => dataout = sram[pc]
    /\ ctl_state = "EXEC1" /\ opcode = LD => dataout = sram[alu1]
    /\ dma_state = "SAMPLE" => DmaOn /\ dataout = sram[dma_raddr]

\* An instruction takes six clocks whatever the DMA does, so that the number
\* dump_trace prints, cycle_counter / 6 - 1, counts the instructions.
Phase ==
    CASE ctl_state = "IDLE" -> IF sim = "stopped" THEN 1 ELSE 0
      [] ctl_state = "FETCH0" -> 1
      [] ctl_state = "FETCH1" -> 2
      [] ctl_state = "DEC0" -> 3
      [] ctl_state = "DEC1" -> 4
      [] ctl_state = "EXEC0" -> 5
      [] ctl_state = "EXEC1" -> 6
SixClocks == cycle_counter % 6 = Phase % 6

\* The registers of a transfer belong to the transfer: from its start to its
\* end only the engine changes them, by one word at a time, and a second DMA
\* instruction in between leaves them alone.
TransferUndisturbed ==
    [][dma_state # "IDLE" =>
         /\ dma_waddr - dma_waddr' = dma_cnt' - dma_cnt
         /\ dma_cnt' # dma_cnt => sram'[dma_waddr] = dma_reg
         /\ dma_raddr' # dma_raddr => dma_reg' = sram[dma_raddr]]_vars

\* The clocks until the control is in DEC1, by when the word under way is in
\* its place: the port is free from FETCH1 on, so what still has to be read in
\* FETCH1 is sampled in DEC0 and written in DEC1.
Deadline ==
    LET toDec1 == CASE ctl_state = "DEC1" -> 0
                    [] ctl_state = "DEC0" -> 1
                    [] ctl_state = "FETCH1" -> 2
                    [] ctl_state = "FETCH0" -> 3
                    [] ctl_state = "EXEC1" -> 4
                    [] OTHER -> 5
        late == \/ dma_state = "READ" /\ ctl_state \in {"DEC0", "DEC1"}
                \/ dma_state = "SAMPLE" /\ ctl_state = "DEC1"
    IN  IF late THEN toDec1 + 6 ELSE toDec1

\* The clocks a transfer takes at most from here, if the program goes on: six
\* for each word behind the one under way.  A count of 0 stands for WordMod.
DmaClocks == 6 * ((dma_cnt - 1) % WordMod) + Deadline

\* The DMA copies at least a word per instruction, whatever the instructions
\* are: every clock brings the end of the transfer nearer, also those in which
\* the engine waits for the port, and a bound in clocks is known at its start.
WordPerInstruction ==
    [][dma_state # "IDLE" /\ sim' = "running" =>
         dma_state' = "IDLE" \/ DmaClocks' < DmaClocks]_vars
=============================================================================
