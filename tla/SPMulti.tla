------------------------------ MODULE SPMulti ------------------------------
(***************************************************************************)
(* The multi-cycle SP processor of lab2/sp.c: a control state machine that *)
(* takes six clocks per instruction and a DMA state machine that copies    *)
(* words in the clocks in which the control leaves the memory alone.       *)
(*                                                                         *)
(* A step is one clock of the simulator (llsim_run_clock): the two machines*)
(* read the registers of the last clock, post their memory requests, the   *)
(* memory serves them and the new registers replace the old ones.  A clock *)
(* whose requests fail an assertion of the memory ends the program before  *)
(* the registers are copied (Abort).                                       *)
(***************************************************************************)
EXTENDS SPIsa

CONSTANTS Height,    \* words of the memory, SP_SRAM_HEIGHT
          Baad,      \* the word 0xBAADBAAD
          CycleMod,  \* the cycle counter is counted modulo this bound
          Images     \* the memory images to start from

VARIABLES r, pc, inst, opcode, dst, src0, src1, immediate, alu0, alu1, aluout,
          cycle_counter, ctl_state,
          dma_raddr, dma_waddr, dma_reg, dma_cnt, dma_state,
          sram, dataout,  \* the memory and its output port
          dump,           \* srams_out.txt: the memory dump, <<>> before HLT
          sim             \* the simulator: running, stopped by HLT, or failed

ASSUME MultiAssumption ==
    /\ Height \in Nat \ {0}
    /\ Baad \in Word
    /\ CycleMod \in Nat \ {0}
    /\ \A img \in Images : img \in [0 .. Height - 1 -> Word]

SRAM == INSTANCE LLSimMem WITH data <- sram

decoded == <<opcode, dst, src0, src1, immediate>>
alu     == <<alu0, alu1, aluout>>
control == <<r, pc, inst, decoded, alu>>
dma     == <<dma_raddr, dma_waddr, dma_reg, dma_cnt, dma_state>>
vars    == <<control, cycle_counter, ctl_state, dma, sram, dataout, dump, sim>>

CtlStates == {"IDLE", "FETCH0", "FETCH1", "DEC0", "DEC1", "EXEC0", "EXEC1"}
DmaStates == {"IDLE", "READ", "SAMPLE", "WRITE"}
-----------------------------------------------------------------------------
\* The control state after this clock.  IDLE leaves at once: sp_init sets start.
NextCtl ==
    CASE ctl_state = "IDLE"   -> "FETCH0"
      [] ctl_state = "FETCH0" -> "FETCH1"
      [] ctl_state = "FETCH1" -> "DEC0"
      [] ctl_state = "DEC0"   -> "DEC1"
      [] ctl_state = "DEC1"   -> "EXEC0"
      [] ctl_state = "EXEC0"  -> "EXEC1"
      [] ctl_state = "EXEC1"  -> IF opcode = HLT THEN "IDLE" ELSE "FETCH0"

NextOpcode == IF ctl_state = "DEC0" THEN Opcode(inst) ELSE opcode

\* Faulty: loads are forgotten.
FaultyDmaEnable(ctl, op) == ~(ctl = "FETCH0" \/ (ctl = "EXEC1" /\ op = ST))

\* dma_enable: the control does not use the memory in this state.
DmaEnable(ctl, op) ==
    ~ \/ ctl = "FETCH0"
      \/ ctl = "EXEC0" /\ op = LD
      \/ ctl = "EXEC1" /\ op = ST

\* Faulty: the DMA runs only while the control rests.
FaultyDmaOn == ctl_state = "IDLE"

DmaOn == DmaEnable(ctl_state, opcode)

\* Faulty: no look-ahead.
FaultyDmaReads == DmaOn /\ dma_state = "READ"

\* A read is issued only when the next clock, which samples it, is free too.
DmaReads == DmaOn /\ dma_state = "READ" /\ DmaEnable(NextCtl, NextOpcode)

Reads ==
    (IF ctl_state = "FETCH0" THEN {[by |-> "fetch", addr |-> pc]} ELSE {})
      \cup
    (IF ctl_state = "EXEC0" /\ opcode = LD THEN {[by |-> "load", addr |-> alu1]} ELSE {})
      \cup
    (IF DmaReads THEN {[by |-> "dma", addr |-> dma_raddr]} ELSE {})

Writes ==
    (IF ctl_state = "EXEC1" /\ opcode = ST
     THEN {[by |-> "store", addr |-> alu1, val |-> alu0]} ELSE {})
      \cup
    (IF DmaOn /\ dma_state = "WRITE"
     THEN {[by |-> "dma", addr |-> dma_waddr, val |-> dma_reg]} ELSE {})

Halts == ctl_state = "EXEC1" /\ opcode = HLT

\* HLT dumps the memory while the unit runs, before the memory phase.
Dump == dump' = IF Halts THEN sram ELSE dump
-----------------------------------------------------------------------------
(***************************************************************************)
(* The DMA machine.  DmaStart is the DMA instruction in EXEC0; it is       *)
(* ignored while a transfer is under way.                                  *)
(***************************************************************************)
\* Faulty: a transfer under way is not looked at.
FaultyStarts == ctl_state = "EXEC0" /\ opcode = DMA

Starts == ctl_state = "EXEC0" /\ opcode = DMA /\ dma_state = "IDLE"

DmaStart ==
    /\ Starts
    /\ dma_raddr' = alu0
    /\ dma_waddr' = alu1
    /\ dma_cnt' = immediate
    /\ dma_state' = "READ"
    /\ UNCHANGED dma_reg

DmaWait ==
    /\ ~Starts
    /\ \/ dma_state = "IDLE"
       \/ ~DmaOn
       \/ dma_state = "READ" /\ ~DmaReads
    /\ UNCHANGED dma

DmaRead ==
    /\ DmaReads
    /\ dma_state' = "SAMPLE"
    /\ UNCHANGED <<dma_raddr, dma_waddr, dma_reg, dma_cnt>>

DmaSample ==
    /\ DmaOn /\ dma_state = "SAMPLE"
    /\ dma_reg' = dataout
    /\ dma_raddr' = Wrap(dma_raddr + 1)
    /\ dma_state' = "WRITE"
    /\ UNCHANGED <<dma_waddr, dma_cnt>>

\* Faulty: the count is compared with the wrong end.
FaultyDmaWrite ==
    /\ DmaOn /\ dma_state = "WRITE"
    /\ dma_waddr' = Wrap(dma_waddr + 1)
    /\ dma_cnt' = Wrap(dma_cnt - 1)
    /\ dma_state' = IF dma_cnt = 0 THEN "IDLE" ELSE "READ"
    /\ UNCHANGED <<dma_raddr, dma_reg>>

DmaWrite ==
    /\ DmaOn /\ dma_state = "WRITE"
    /\ dma_waddr' = Wrap(dma_waddr + 1)
    /\ dma_cnt' = Wrap(dma_cnt - 1)
    /\ dma_state' = IF dma_cnt = 1 THEN "IDLE" ELSE "READ"
    /\ UNCHANGED <<dma_raddr, dma_reg>>

\* The rest of a clock that ends well: the DMA, the memory phase, the counter.
Tick ==
    /\ sim = "running"
    /\ SRAM!Verdict(Reads, Writes) = "run"
    /\ DmaStart \/ DmaWait \/ DmaRead \/ DmaSample \/ DmaWrite
    /\ SRAM!Clock(Reads, Writes)
    /\ Dump
    /\ ctl_state' = NextCtl
    /\ cycle_counter' = (cycle_counter + 1) % CycleMod
    /\ sim' = IF Halts THEN "stopped" ELSE "running"
-----------------------------------------------------------------------------
(***************************************************************************)
(* The control machine, one action per control state.                      *)
(***************************************************************************)
Idle ==
    /\ ctl_state = "IDLE"
    /\ Tick
    /\ pc' = 0
    /\ UNCHANGED <<r, inst, decoded, alu>>

Fetch0 ==
    /\ ctl_state = "FETCH0"
    /\ Tick
    /\ UNCHANGED control

Fetch1 ==
    /\ ctl_state = "FETCH1"
    /\ Tick
    /\ inst' = dataout
    /\ UNCHANGED <<r, pc, decoded, alu>>

Dec0 ==
    /\ ctl_state = "DEC0"
    /\ Tick
    /\ pc' = Wrap(pc + 1)
    /\ opcode' = Opcode(inst)
    /\ dst' = Dst(inst)
    /\ src0' = Src0(inst)
    /\ src1' = Src1(inst)
    /\ immediate' = Imm(inst)
    /\ UNCHANGED <<r, inst, alu>>

Dec1 ==
    /\ ctl_state = "DEC1"
    /\ Tick
    /\ r' = [r EXCEPT ![1] = immediate]
    /\ alu0' = IF opcode = LHI THEN dst ELSE Operand(r, src0, immediate)
    /\ alu1' = Operand(r, src1, immediate)
    /\ UNCHANGED <<pc, inst, decoded, aluout>>

Exec0 ==
    /\ ctl_state = "EXEC0"
    /\ Tick
    /\ aluout' = IF opcode \in AluOps \cup JumpOps
                 THEN Alu(opcode, alu0, alu1, immediate) ELSE aluout
    /\ UNCHANGED <<r, pc, inst, decoded, alu0, alu1>>

\* Faulty: JIN is forgotten.
FaultyTaken == opcode \in JumpOps \ {JIN} /\ aluout # 0

\* A taken jump leaves its own address in register 7.
Taken == opcode \in JumpOps /\ aluout # 0

Exec1 ==
    /\ ctl_state = "EXEC1"
    /\ Tick
    /\ \/ opcode \in AluOps /\ r' = [r EXCEPT ![dst] = aluout]
       \/ opcode = LD /\ r' = [r EXCEPT ![dst] = dataout]
       \/ opcode = POL /\ r' = [r EXCEPT ![dst] = dma_cnt]
       \/ Taken /\ r' = [r EXCEPT ![7] = Wrap(pc - 1)]
       \/ opcode \notin AluOps \cup {LD, POL} /\ ~Taken /\ r' = r
    /\ pc' = IF Taken THEN immediate ELSE pc
    /\ UNCHANGED <<inst, decoded, alu>>

\* An assertion of the memory fails (exit(1)) or a negative address is used.
Abort ==
    /\ sim = "running"
    /\ SRAM!Verdict(Reads, Writes) # "run"
    /\ sim' = SRAM!Verdict(Reads, Writes)
    /\ Dump
    /\ UNCHANGED <<control, cycle_counter, ctl_state, dma, sram, dataout>>

Next == Idle \/ Fetch0 \/ Fetch1 \/ Dec0 \/ Dec1 \/ Exec0 \/ Exec1 \/ Abort

\* After the reset clocks every register is 0 and the memory holds its image.
Init ==
    /\ r = [i \in RegId |-> 0]
    /\ pc = 0 /\ inst = 0
    /\ opcode = 0 /\ dst = 0 /\ src0 = 0 /\ src1 = 0 /\ immediate = 0
    /\ alu0 = 0 /\ alu1 = 0 /\ aluout = 0
    /\ cycle_counter = 0
    /\ ctl_state = "IDLE"
    /\ dma_raddr = 0 /\ dma_waddr = 0 /\ dma_reg = 0 /\ dma_cnt = 0
    /\ dma_state = "IDLE"
    /\ sram \in Images
    /\ dataout = Baad
    /\ dump = <<>>
    /\ sim = "running"

Spec == Init /\ [][Next]_vars

\* main runs the clock again and again until llsim_stop.
FairSpec == Spec /\ WF_vars(Next)
=============================================================================
