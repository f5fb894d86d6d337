---------------------------- MODULE SPPipeProps ----------------------------
(***************************************************************************)
(* What makes the pipelined processor correct.  The first group holds for  *)
(* every program.  The second group is what a programmer expects of it;    *)
(* lab5/sp.c gives it only to programs that keep certain rules (module     *)
(* SPPipeRules), and without a rule there is a run that violates it.       *)
(***************************************************************************)
EXTENDS SPPipe, FiniteSets

\* The registers hold C ints or addresses, a stage is empty or full.
TypeOK ==
    /\ start \in BOOLEAN /\ fetch0_active \in BOOLEAN /\ fetch1_active \in BOOLEAN
    /\ fetch0_pc \in 0 .. Height + ImmMod /\ fetch1_pc \in 0 .. Height + ImmMod
    /\ dec0 = Empty \/ dec0 \in [active : {TRUE}, pc : Int, inst : Word]
    /\ dec1 = Empty \/ dec1 \in [active : {TRUE}, pc : Int, inst : Word]
    /\ exec0 = Empty \/ exec0 \in [active : {TRUE}, pc : Int, inst : Word,
                                   alu0 : Word, alu1 : Word]
    /\ exec1 = Empty \/ exec1 \in [active : {TRUE}, pc : Int, inst : Word,
                                   alu0 : Word, alu1 : Word, aluout : Word]
    /\ bubble \in BOOLEAN /\ jtaken \in BOOLEAN
    /\ r \in [RegId -> Word]
    /\ r_busy \subseteq RegId \ {0}
    /\ dma_raddr \in Word /\ dma_waddr \in Word /\ dma_cnt \in Word /\ dma_reg \in Word
    /\ dma_write_active \in BOOLEAN /\ dma_sample_active \in BOOLEAN
    /\ srami \in [0 .. Height - 1 -> Word] /\ sramd \in [0 .. Height - 1 -> Word]
    /\ idataout \in Word /\ ddataout \in Word
    /\ dump \in {<<>>} \cup [0 .. Height - 1 -> Word]
    /\ sim \in {"running", "stopped", "refused", "range", "undefined"}

-----------------------------------------------------------------------------
\* The repeated read at the end of a stall never meets a fetch, and the DMA
\* never meets a load, a store or itself: no assertion of llsim.c against
\* multiple or simultaneous accesses fires.
NoConflict ==
    /\ ~ISRAM!Conflict(IReads, {})
    /\ ~DSRAM!Conflict(DReads, DWrites)
    /\ sim # "conflict"

\* A stall stops both fetch stages and its end starts both: dec0 never takes
\* its own instruction again because fetch1 has nothing for it, and fetch1 is
\* never ahead of a fetch0 that rests.  HLT in the middle of a stall leaves
\* bubble set, which no clock sees any more.
FrontInStep ==
    sim = "running" =>
        /\ bubble => dec0.active /\ ~fetch0_active /\ ~fetch1_active /\ ~start
        /\ dec0.active /\ ~bubble => fetch0_active /\ fetch1_active
        /\ fetch1_active => fetch0_active

\* What a stage takes from a memory port was read in the clock before, from
\* the address the stage holds, through every stall, flush and transfer.
PortFresh ==
    /\ fetch1_active => idataout = srami[fetch1_pc]
    /\ Op1 = LD => ddataout = sramd[exec1.alu1]
    /\ dma_sample_active => ddataout = sramd[Wrap(dma_raddr - 1)]

\* An instruction in the pipeline is the word at its pc, or the nop that the
\* end of a stall puts in.
WordAtPc ==
    \A s \in {dec0, dec1, exec0, exec1} :
        s.active => s.inst = 0 \/ s.inst = srami[s.pc]

\* Register 0 reads as zero: dec0 refuses what would write it, and the nops,
\* which do write it, write zero.
R0Zero == r[0] = 0

-----------------------------------------------------------------------------
\* An instruction that retires has computed on the values the register file
\* holds when it retires, although it read them two clocks earlier: the
\* scoreboard has kept it back while an older instruction was to write them.
OperandsFresh ==
    Retires => /\ exec1.alu0 = Operand0(r, exec1.inst)
               /\ exec1.alu1 = Operand1(r, exec1.inst)

\* An instruction that is thrown away has had no effect: when a jump in exec1
\* comes out otherwise than predicted, exec0 is not storing, nor starting a
\* transfer.
WrongPathHarmless == Mispredicts => ~(exec0.active /\ Op0 \in {ST, DMA})

\* Of a stalled instruction fetch1 keeps the address behind it, so that the
\* stall loses no instruction and repeats none.
StallKeepsPlace ==
    dec0.active /\ dec0.inst # 0 /\ bubble => fetch1_pc = dec0.pc + 1

\* A register is busy only as long as an instruction that will write it is in
\* the pipeline, since nothing else sets it free.  HLT stops everything with
\* the marks of the instructions behind it.
BusyHasWriter ==
    sim = "running" =>
        \A d \in r_busy :
            \E s \in {dec1, exec0, exec1} :
                s.active /\ Dst(s.inst) = d /\ Opcode(s.inst) \in Writers

\* The processor never gets stuck: until it stops, instructions retire; no
\* stall, flush or transfer holds the next one back for ever.
KeepsRetiring == (sim = "running") ~> (Retires \/ sim # "running")

\* The clocks until the oldest instruction in the pipeline retires, or the one
\* that is fetched next if there is none.
ToRetire ==
    IF Retires THEN 0
    ELSE IF exec0.active /\ exec0.inst # 0 THEN 1
    ELSE IF dec1.active /\ dec1.inst # 0 THEN 2
    ELSE IF dec0.active /\ dec0.inst # 0 THEN 3
    ELSE IF fetch1_active THEN 4
    ELSE IF fetch0_active THEN 5
    ELSE 6

\* Of seven clocks in succession one retires an instruction: nothing holds the
\* oldest one back, not even for a clock, and behind a flush, a predicted jump
\* or a stall the next one follows without a gap.
RetiresSoon == [][~Retires /\ sim' = "running" => ToRetire' < ToRetire]_vars

-----------------------------------------------------------------------------
\* Words that the DMA has read and not yet written, once they are sampled.
InFlight == Cardinality({k \in {"sample", "write"} :
                            IF k = "sample" THEN dma_sample_active ELSE dma_write_active})

\* A transfer moves no more words than the DMA instruction asked for: the
\* words on their way are among those still to be counted down.  In particular
\* POL returns 0 only when the last word is in the memory.
NoOverrun == InFlight <= dma_cnt

\* No word of a transfer is lost or written twice: source and destination
\* address advance together, but for the words on their way.
DmaInStep ==
    [][~DmaStarts => (dma_raddr' - dma_waddr') - (dma_raddr - dma_waddr) = InFlight' - InFlight]_vars

\* A transfer takes two clocks a word and one more for every clock in which a
\* load or a store has the port: no clock passes for nothing, and no word that
\* was read is thrown away by the next one that is sampled.
DmaRate ==
    [][dma_cnt > 0 /\ sim' = "running" =>
         (2 * dma_cnt - InFlight) - (2 * dma_cnt' - InFlight') = IF DmaEnable THEN 1 ELSE 0]_vars

\* A transfer comes to its end, or the program does.
DmaEnds == (dma_cnt > 0 /\ sim = "running") ~> (dma_cnt <= 0 \/ sim # "running")
=============================================================================
