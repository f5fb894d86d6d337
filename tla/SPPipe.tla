------------------------------- MODULE SPPipe -------------------------------
(***************************************************************************)
(* The pipelined SP processor of lab5/sp.c: six stages (fetch0, fetch1,    *)
(* dec0, dec1, exec0, exec1) that all work in every clock, a scoreboard of *)
(* busy registers that holds an instruction back in dec0, a one-bit branch *)
(* predictor, separate instruction and data memories, and a DMA engine in  *)
(* the clocks in which exec0 leaves the data memory alone.                 *)
(*                                                                         *)
(* A step is one clock.  The stages read the registers of the last clock;  *)
(* where several of them write the same register the later one in sp_ctl   *)
(* wins, which is what the definitions named Next... spell out.  The       *)
(* opcode, register and immediate fields that the code carries along are   *)
(* functions of the instruction word and are not stored again; a stage     *)
(* that is not active is Empty, since its old contents are never read      *)
(* (fetch1_pc is the exception).                                           *)
(***************************************************************************)
EXTENDS SPIsa

CONSTANTS Height,    \* words of each memory, SP_SRAM_HEIGHT
          Baad,      \* the word 0xBAADBAAD
          Images     \* the memory images to start from

VARIABLES start,         \* sp->start: the pipeline fills, fetch0 counts up by itself
          fetch0_active, fetch0_pc,
          fetch1_active, fetch1_pc,
          dec0,          \* pc, inst
          dec1,          \* pc, inst
          exec0,         \* pc, inst, alu0, alu1
          exec1,         \* pc, inst, alu0, alu1, aluout
          bubble,        \* dec0 holds an instruction back
          jtaken,        \* the last jump was taken
          r,
          r_busy,        \* the set of registers marked busy
          dma_raddr, dma_waddr, dma_cnt, dma_reg,
          dma_write_active, dma_sample_active,
          srami, idataout, sramd, ddataout,  \* the memories and their ports
          dump,          \* sramd_out.txt, <<>> before HLT
          sim            \* running, stopped by HLT, or failed

ASSUME PipeAssumption ==
    /\ Height \in Nat \ {0}
    /\ Baad \in Word
    /\ \A img \in Images : img \in [0 .. Height - 1 -> Word]

ISRAM == INSTANCE LLSimMem WITH data <- srami, dataout <- idataout
DSRAM == INSTANCE LLSimMem WITH data <- sramd, dataout <- ddataout

front == <<start, fetch0_active, fetch0_pc, fetch1_active, fetch1_pc, dec0, dec1, bubble>>
back  == <<exec0, exec1, r>>
dma   == <<dma_raddr, dma_waddr, dma_cnt, dma_reg, dma_write_active, dma_sample_active>>
mems  == <<srami, idataout, sramd, ddataout>>
vars  == <<front, jtaken, r_busy, back, dma, mems, dump, sim>>

Empty == [active |-> FALSE]
-----------------------------------------------------------------------------
(***************************************************************************)
(* dec0: the scoreboard, the prediction, the refusal to write register 0.  *)
(***************************************************************************)
\* Faulty: the scoreboard is asked about the first source only.
FaultyStalled == dec0.active /\ Src0(dec0.inst) \in r_busy

Stalled ==
    dec0.active /\ {Src0(dec0.inst), Src1(dec0.inst)} \cap r_busy # {}

Issues == dec0.active /\ ~Stalled

\* The instruction in dec0 is a jump that is predicted to be taken.
Predicted == Opcode(dec0.inst) \in JumpOps /\ jtaken

\* Faulty: only loads and polls are looked at.
FaultyRefused ==
    /\ Issues
    /\ dec0.inst # 0
    /\ Dst(dec0.inst) = 0
    /\ Opcode(dec0.inst) \in {LD, POL}

\* Faulty: stores are not excepted.
FaultyRefusedStore ==
    /\ Issues
    /\ dec0.inst # 0
    /\ Dst(dec0.inst) = 0
    /\ Opcode(dec0.inst) \notin JumpOps \cup {HLT, DMA}

\* "Cannot write to R[0], exiting..."; the word 0 is the pipeline's own nop.
Refused ==
    /\ Issues
    /\ dec0.inst # 0
    /\ Dst(dec0.inst) = 0
    /\ Opcode(dec0.inst) \notin JumpOps \cup {ST, HLT, DMA}

\* The scoreboard marks the destination field of whatever it issues.
Marked == IF Issues /\ Dst(dec0.inst) # 0 THEN {Dst(dec0.inst)} ELSE {}

-----------------------------------------------------------------------------
(***************************************************************************)
(* exec0 and exec1.                                                        *)
(***************************************************************************)
Op0 == IF exec0.active THEN Opcode(exec0.inst) ELSE 0
Op1 == IF exec1.active THEN Opcode(exec1.inst) ELSE 0

\* A jump in exec1 came out otherwise than the predictor says.
Mispredicts == Op1 \in JumpOps /\ (exec1.aluout # 0) # jtaken

Halts == Op1 = HLT

\* An instruction leaves the pipeline; inst_cnt counts it unless it is a nop.
Retires == exec1.active /\ exec1.inst # 0

Writers == AluOps \cup {LD, POL}

\* Faulty: a taken jump saves the address behind it.
FaultyNextR ==
    LET rd == IF dec1.active THEN [r EXCEPT ![1] = Imm(dec1.inst)] ELSE r
        d  == Dst(exec1.inst)
    IN  IF ~exec1.active THEN rd
        ELSE IF Op1 \in AluOps THEN [rd EXCEPT ![d] = exec1.aluout]
        ELSE IF Op1 = LD THEN [rd EXCEPT ![d] = ddataout]
        ELSE IF Op1 = POL THEN [rd EXCEPT ![d] = dma_cnt]
        ELSE IF Op1 \in JumpOps /\ exec1.aluout # 0 THEN [rd EXCEPT ![7] = exec1.pc + 1]
        ELSE rd

\* The registers after this clock: dec1 latches its immediate in register 1,
\* exec1 writes its result.
NextR ==
    LET rd == IF dec1.active THEN [r EXCEPT ![1] = Imm(dec1.inst)] ELSE r
        d  == Dst(exec1.inst)
    IN  IF ~exec1.active THEN rd
        ELSE IF Op1 \in AluOps THEN [rd EXCEPT ![d] = exec1.aluout]
        ELSE IF Op1 = LD THEN [rd EXCEPT ![d] = ddataout]
        ELSE IF Op1 = POL THEN [rd EXCEPT ![d] = dma_cnt]
        ELSE IF Op1 \in JumpOps /\ exec1.aluout # 0 THEN [rd EXCEPT ![7] = exec1.pc]
        ELSE rd

\* Faulty: loads and polls do not set their register free.
FaultyReleased == IF exec1.active /\ Op1 \in AluOps THEN {Dst(exec1.inst)} ELSE {}

\* The scoreboard after this clock.  exec1 comes after dec0 in sp_ctl, so a
\* register that is marked and released in the same clock ends up free.
Released == IF exec1.active /\ Op1 \in Writers THEN {Dst(exec1.inst)} ELSE {}

NextBusy ==
    IF Mispredicts THEN {}
    ELSE (r_busy \cup Marked) \ Released

NextExec0 ==
    IF dec1.active
    THEN [active |-> TRUE, pc |-> dec1.pc, inst |-> dec1.inst,
          alu0 |-> Operand0(r, dec1.inst), alu1 |-> Operand1(r, dec1.inst)]
    ELSE Empty

NextExec1 ==
    IF exec0.active
    THEN [active |-> TRUE, pc |-> exec0.pc, inst |-> exec0.inst,
          alu0 |-> exec0.alu0, alu1 |-> exec0.alu1,
          aluout |-> IF Op0 \in AluOps \cup JumpOps
                     THEN Alu(Op0, exec0.alu0, exec0.alu1, Imm(exec0.inst)) ELSE 0]
    ELSE Empty
-----------------------------------------------------------------------------
(***************************************************************************)
(* The DMA engine reads when no word waits to be written and writes when   *)
(* one does; a word that was read is sampled in the next clock.            *)
(***************************************************************************)
\* Faulty: loads are forgotten.
FaultyDmaEnable == ~(exec0.active /\ Op0 = ST)

DmaEnable == ~(exec0.active /\ Op0 \in {LD, ST})

DmaStarts == exec0.active /\ Op0 = DMA /\ dma_cnt <= 0

\* Faulty: reads on when no word is left.
FaultyDmaReads == DmaEnable /\ dma_cnt >= 0 /\ ~dma_write_active

\* Faulty: waits for the fetch as if both had one memory.
FaultyDmaReadsShared == DmaEnable /\ dma_cnt > 0 /\ ~dma_write_active /\ ~fetch0_active

DmaReads  == DmaEnable /\ dma_cnt > 0 /\ ~dma_write_active

\* Faulty: does not write in the clock of a sample.
FaultyDmaWrites == DmaEnable /\ dma_write_active /\ ~dma_sample_active

DmaWrites == DmaEnable /\ dma_write_active

Dma ==
    /\ dma_raddr' = IF DmaReads THEN Wrap(dma_raddr + 1)
                    ELSE IF DmaStarts THEN exec0.alu0 ELSE dma_raddr
    /\ dma_waddr' = IF DmaWrites THEN Wrap(dma_waddr + 1)
                    ELSE IF DmaStarts THEN exec0.alu1 ELSE dma_waddr
    /\ dma_cnt' = IF DmaWrites THEN Wrap(dma_cnt - 1)
                  ELSE IF DmaStarts THEN Imm(exec0.inst) ELSE dma_cnt
    /\ dma_sample_active' = DmaReads
    /\ dma_reg' = IF dma_sample_active THEN ddataout ELSE dma_reg
    /\ dma_write_active' = (dma_sample_active \/ (~DmaEnable /\ dma_write_active))
-----------------------------------------------------------------------------
(***************************************************************************)
(* The requests of a clock.  When a stall ends, dec0 reads the word behind *)
(* the instruction again, which fetch1 had to drop.                        *)
(***************************************************************************)
\* Faulty: the word that fetch1 dropped is not read again.
FaultyIReads == IF fetch0_active THEN {[by |-> "fetch0", addr |-> fetch0_pc]} ELSE {}

IReads ==
    (IF fetch0_active THEN {[by |-> "fetch0", addr |-> fetch0_pc]} ELSE {})
      \cup (IF Issues /\ bubble THEN {[by |-> "dec0", addr |-> fetch1_pc]} ELSE {})

DReads ==
    (IF Op0 = LD THEN {[by |-> "load", addr |-> exec0.alu1]} ELSE {})
      \cup (IF DmaReads THEN {[by |-> "dma", addr |-> dma_raddr]} ELSE {})

DWrites ==
    (IF Op0 = ST THEN {[by |-> "store", addr |-> exec0.alu1, val |-> exec0.alu0]} ELSE {})
      \cup (IF DmaWrites THEN {[by |-> "dma", addr |-> dma_waddr, val |-> dma_reg]} ELSE {})

\* What becomes of the program in this clock.  exit(1) in dec0 comes first;
\* srami and sramd are served in turn, the one allocated last before the other.
Verdict ==
    IF Refused THEN "refused"
    ELSE IF DSRAM!Verdict(DReads, DWrites) # "run" THEN DSRAM!Verdict(DReads, DWrites)
    ELSE ISRAM!Verdict(IReads, {})
-----------------------------------------------------------------------------
(***************************************************************************)
(* The front of the pipeline.                                              *)
(***************************************************************************)

\* Faulty: a stall does not undo the fetch.
FaultyNextFetch1Pc == IF fetch0_active THEN fetch0_pc ELSE fetch1_pc

\* fetch0 hands its address to fetch1, unless a stall keeps fetch1's for later.
NextFetch1Pc == IF fetch0_active /\ ~Stalled THEN fetch0_pc ELSE fetch1_pc

\* While the pipeline fills, fetch0 steps by itself.
FilledPc == IF fetch0_active /\ start THEN fetch0_pc + 1 ELSE fetch0_pc

\* Faulty: the address of the wrong fetch stage.
FaultyFetched == [active |-> TRUE, pc |-> fetch0_pc, inst |-> idataout]

\* What fetch1 hands to dec0.
Fetched == [active |-> TRUE, pc |-> fetch1_pc, inst |-> idataout]

Fill ==
    /\ ~dec0.active
    /\ fetch0_active' = (fetch0_active \/ start)
    /\ fetch0_pc' = FilledPc
    /\ fetch1_active' = fetch0_active
    /\ dec0' = IF fetch1_active THEN Fetched ELSE Empty
    /\ dec1' = Empty
    /\ UNCHANGED <<start, bubble>>

\* Faulty: the word that was being fetched goes on to fetch1.
FaultyStall ==
    /\ Stalled
    /\ fetch0_active' = FALSE
    /\ fetch0_pc' = FilledPc
    /\ fetch1_active' = fetch0_active
    /\ dec1' = Empty
    /\ bubble' = TRUE
    /\ start' = FALSE
    /\ UNCHANGED dec0

Stall ==
    /\ Stalled
    /\ fetch0_active' = FALSE
    /\ fetch0_pc' = FilledPc
    /\ fetch1_active' = FALSE
    /\ dec1' = Empty
    /\ bubble' = TRUE
    /\ start' = FALSE
    /\ UNCHANGED dec0

\* The end of a stall: a nop follows the instruction into dec0 while fetch1
\* gets its word again.  fetch0 stays where it is, even for a jump that is
\* predicted to be taken.
Release ==
    /\ Issues /\ bubble
    /\ fetch0_active' = TRUE
    /\ fetch0_pc' = fetch0_pc
    /\ fetch1_active' = ~Predicted
    /\ dec0' = IF Predicted THEN Empty
               ELSE [active |-> TRUE, inst |-> 0,
                     pc |-> IF fetch1_active THEN fetch1_pc ELSE dec0.pc]
    /\ dec1' = dec0
    /\ bubble' = FALSE
    /\ start' = FALSE

Issue ==
    /\ Issues /\ ~bubble
    /\ fetch0_active' = TRUE
    /\ fetch0_pc' = IF Predicted THEN Imm(dec0.inst) ELSE fetch0_pc + 1
    /\ fetch1_active' = ~Predicted
    /\ dec0' = IF Predicted THEN Empty ELSE IF fetch1_active THEN Fetched ELSE dec0
    /\ dec1' = dec0
    /\ start' = Predicted
    /\ UNCHANGED bubble
-----------------------------------------------------------------------------
\* What every clock does that ends well.
Tick ==
    /\ sim = "running"
    /\ Verdict = "run"
    /\ fetch1_pc' = NextFetch1Pc
    /\ r' = NextR
    /\ r_busy' = NextBusy
    /\ jtaken' = IF Op1 \in JumpOps THEN exec1.aluout # 0 ELSE jtaken
    /\ Dma
    /\ ISRAM!Clock(IReads, {})
    /\ DSRAM!Clock(DReads, DWrites)

Advance(Front) ==
    /\ ~Mispredicts /\ ~Halts
    /\ Tick
    /\ Front
    /\ exec0' = NextExec0
    /\ exec1' = NextExec1
    /\ UNCHANGED <<dump, sim>>

\* A mispredicted jump in exec1 empties the pipeline behind it and fetches
\* again from the right address.
Flush ==
    /\ Mispredicts
    /\ Tick
    /\ start' = TRUE
    /\ fetch0_active' = TRUE
    /\ fetch0_pc' = IF exec1.aluout # 0 THEN Imm(exec1.inst) ELSE exec1.pc + 1
    /\ fetch1_active' = FALSE
    /\ dec0' = Empty /\ dec1' = Empty /\ exec0' = Empty /\ exec1' = Empty
    /\ bubble' = FALSE
    /\ UNCHANGED <<dump, sim>>

\* HLT in exec1 dumps the memories and stops the simulator after this clock.
\* The registers that no stage of a stopped pipeline reads keep their values.
Halt ==
    /\ Halts
    /\ Tick
    /\ fetch0_active' = FALSE /\ fetch1_active' = FALSE
    /\ dec0' = Empty /\ dec1' = Empty /\ exec0' = Empty /\ exec1' = Empty
    /\ dump' = sramd
    /\ sim' = "stopped"
    /\ UNCHANGED <<start, fetch0_pc, bubble>>

\* exit(1) in dec0, an assertion of a memory, or a negative address.
Abort ==
    /\ sim = "running"
    /\ Verdict # "run"
    /\ sim' = Verdict
    /\ dump' = IF Halts /\ ~Refused THEN sramd ELSE dump
    /\ UNCHANGED <<front, jtaken, r_busy, back, dma, mems>>

Next ==
    \/ Advance(Fill) \/ Advance(Stall) \/ Advance(Release) \/ Advance(Issue)
    \/ Flush \/ Halt \/ Abort

Init ==
    /\ start = TRUE
    /\ fetch0_active = FALSE /\ fetch0_pc = 0
    /\ fetch1_active = FALSE /\ fetch1_pc = 0
    /\ dec0 = Empty /\ dec1 = Empty /\ exec0 = Empty /\ exec1 = Empty
    /\ bubble = FALSE /\ jtaken = FALSE
    /\ r = [i \in RegId |-> 0]
    /\ r_busy = {}
    /\ dma_raddr = 0 /\ dma_waddr = 0 /\ dma_cnt = 0 /\ dma_reg = 0
    /\ dma_write_active = FALSE /\ dma_sample_active = FALSE
    /\ srami \in Images /\ sramd = srami
    /\ idataout = Baad /\ ddataout = Baad
    /\ dump = <<>>
    /\ sim = "running"

Spec == Init /\ [][Next]_vars

\* main runs the clock again and again until llsim_stop.
FairSpec == Spec /\ WF_vars(Next)
=============================================================================
