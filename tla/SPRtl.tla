-------------------------------- MODULE SPRtl --------------------------------
(***************************************************************************)
(* The SP processor in Verilog (lab4: ctl.v, alu.v, sram.v, wired by sp.v  *)
(* and driven by top.v).  A step is one rising edge of the clock together  *)
(* with the combinational logic that settles behind it.  Vectors of 32     *)
(* bits are words; vectors of 16 bits, addresses and the registers of the  *)
(* DMA, are numbers below ImmMod, so that every address is inside the      *)
(* memory and longer values lose their upper half.                         *)
(*                                                                         *)
(* The reset is over in the initial state.  start rises in the same        *)
(* instant as a clock edge, which may see it or not.                       *)
(***************************************************************************)
EXTENDS SPIsa

CONSTANT Images  \* the memory contents to start from, example.bin

VARIABLES r, pc, inst, opcode, dst, src0, src1, immediate, alu0, alu1, aluout, ctl_state,
          dma_raddr, dma_waddr, dma_reg, dma_cnt, dma_state,
          aluout_wire,  \* the output of the ALU, which holds its value for some opcodes
          mem, do,      \* the SRAM and its output register
          start,
          dump,         \* verilog_sram_out.txt, <<>> before HLT
          sim

Address == 0 .. ImmMod - 1

ASSUME RtlAssumption == \A img \in Images : img \in [Address -> Word]

decoded == <<opcode, dst, src0, src1, immediate>>
control == <<r, pc, inst, decoded, alu0, alu1, aluout>>
dma     == <<dma_raddr, dma_waddr, dma_reg, dma_cnt, dma_state>>
vars    == <<control, ctl_state, dma, aluout_wire, mem, do, start, dump, sim>>

\* What a vector of 16 bits keeps of a word.
Half(x) == x % ImmMod
-----------------------------------------------------------------------------
(***************************************************************************)
(* Who uses the memory.                                                    *)
(***************************************************************************)
Fetching == ctl_state = "FETCH0"
Loading  == ctl_state = "EXEC0" /\ opcode = LD
Storing  == ctl_state = "EXEC1" /\ opcode = ST

\* Faulty: loads are forgotten.
Faulty_dma_enable == ~(Fetching \/ Storing)

dma_enable == ~(Fetching \/ Loading \/ Storing)

\* Faulty: no thought of the fetch.
Faulty_dma_enable_next ==
    ~ \/ ctl_state = "DEC1" /\ opcode = LD
      \/ ctl_state = "EXEC0" /\ opcode = ST

\* dma_enable of the next clock, from what is known in this one.
dma_enable_next ==
    ~ \/ ctl_state = "EXEC1"
      \/ ctl_state = "IDLE" /\ start
      \/ ctl_state = "DEC1" /\ opcode = LD
      \/ ctl_state = "EXEC0" /\ opcode = ST

DmaWriting == dma_enable /\ dma_state = "WRITE"

\* sram_EN for the DMA does not ask for dma_enable_next.
sram_EN == Fetching \/ Loading \/ Storing \/ DmaWriting \/ (dma_enable /\ dma_state = "READ")
sram_WE == Storing \/ DmaWriting

\* The addresses that drive sram_ADDR for a read.
Drivers ==
    (IF Fetching THEN {pc} ELSE {})
      \cup (IF Loading THEN {Half(alu1)} ELSE {})
      \cup (IF dma_enable /\ dma_enable_next /\ dma_state = "READ" THEN {dma_raddr} ELSE {})

\* Without a driver sram_ADDR is a latch that holds an address of the past or
\* of a passing moment: some address.
ReadAddr == IF Drivers # {} THEN Drivers ELSE Address

Stores ==
    (IF Storing THEN {[addr |-> Half(alu1), val |-> alu0]} ELSE {})
      \cup (IF DmaWriting THEN {[addr |-> dma_waddr, val |-> dma_reg]} ELSE {})

\* A DMA instruction starts a transfer when none is under way.
Starts == ctl_state = "EXEC0" /\ opcode = DMA /\ dma_state = "IDLE"

\* The memory at the clock edge.  The blocking assignment that starts a
\* transfer can raise sram_EN before the memory looks at it.
Sram ==
    \/ sram_WE /\ (\E w \in Stores : mem' = [mem EXCEPT ![w.addr] = w.val]) /\ UNCHANGED do
    \/ (Starts \/ (sram_EN /\ ~sram_WE)) /\ (\E a \in ReadAddr : do' = mem[a]) /\ UNCHANGED mem
    \/ ~sram_EN /\ UNCHANGED <<mem, do>>
-----------------------------------------------------------------------------
\* Faulty: the source address does not move on.
FaultyDmaStep ==
    \/ /\ dma_state = "READ"
       /\ dma_state' = IF dma_enable_next THEN "SAMPLE" ELSE "READ"
       /\ UNCHANGED <<dma_raddr, dma_waddr, dma_reg, dma_cnt>>
    \/ /\ dma_state = "SAMPLE"
       /\ dma_reg' = Half(do)
       /\ dma_state' = "WRITE"
       /\ UNCHANGED <<dma_raddr, dma_waddr, dma_cnt>>
    \/ /\ dma_state = "WRITE"
       /\ dma_waddr' = Half(dma_waddr + 1)
       /\ dma_cnt' = Half(dma_cnt - 1)
       /\ dma_state' = IF dma_cnt = 1 THEN "IDLE" ELSE "READ"
       /\ UNCHANGED <<dma_raddr, dma_reg>>

\* A clock of the DMA that has the memory for itself.
DmaStep ==
    \/ /\ dma_state = "READ"
       /\ dma_state' = IF dma_enable_next THEN "SAMPLE" ELSE "READ"
       /\ UNCHANGED <<dma_raddr, dma_waddr, dma_reg, dma_cnt>>
    \/ /\ dma_state = "SAMPLE"
       /\ dma_reg' = Half(do)
       /\ dma_raddr' = Half(dma_raddr + 1)
       /\ dma_state' = "WRITE"
       /\ UNCHANGED <<dma_waddr, dma_cnt>>
    \/ /\ dma_state = "WRITE"
       /\ dma_waddr' = Half(dma_waddr + 1)
       /\ dma_cnt' = Half(dma_cnt - 1)
       /\ dma_state' = IF dma_cnt = 1 THEN "IDLE" ELSE "READ"
       /\ UNCHANGED <<dma_raddr, dma_reg>>

Dma ==
    \/ /\ Starts
       /\ dma_raddr' = Half(alu0)
       /\ dma_waddr' = Half(alu1)
       /\ dma_cnt' = Half(immediate)
       /\ dma_state' = "READ"
       /\ UNCHANGED dma_reg
    \/ dma_enable /\ DmaStep
    \/ ~Starts /\ (dma_state = "IDLE" \/ ~dma_enable) /\ UNCHANGED dma

\* The ALU.  For LHI the lower half is what the output held before; for the
\* opcodes it does not know the output stays.
Settle(op, x, y, imm, out) ==
    IF op = LHI THEN Wrap(x * ImmMod + Half(out))
    ELSE IF op \in AluOps \cup JumpOps THEN Alu(op, x, y, imm)
    ELSE out

\* What every rising edge does.
Edge ==
    /\ sim = "running"
    /\ Sram
    /\ Dma
    /\ aluout_wire' = Settle(opcode', alu0', alu1', immediate', aluout_wire)
    /\ start' = TRUE
-----------------------------------------------------------------------------
(***************************************************************************)
(* The control machine.                                                    *)
(***************************************************************************)
Goto(state) == ctl_state' = state /\ UNCHANGED <<dump, sim>>

Idle ==
    /\ ctl_state = "IDLE"
    /\ pc' = 0
    /\ Goto(IF start THEN "FETCH0" ELSE "IDLE")
    /\ UNCHANGED <<r, inst, decoded, alu0, alu1, aluout>>
    /\ Edge

Fetch0 ==
    /\ Fetching
    /\ Goto("FETCH1")
    /\ UNCHANGED control
    /\ Edge

Fetch1 ==
    /\ ctl_state = "FETCH1"
    /\ inst' = do
    /\ Goto("DEC0")
    /\ UNCHANGED <<r, pc, decoded, alu0, alu1, aluout>>
    /\ Edge

\* opcode has five bits.
Dec0 ==
    /\ ctl_state = "DEC0"
    /\ pc' = Half(pc + 1)
    /\ opcode' = Opcode(inst) % 32
    /\ dst' = Dst(inst)
    /\ src0' = Src0(inst)
    /\ src1' = Src1(inst)
    /\ immediate' = Imm(inst)
    /\ Goto("DEC1")
    /\ UNCHANGED <<r, inst, alu0, alu1, aluout>>
    /\ Edge

Dec1 ==
    /\ ctl_state = "DEC1"
    /\ alu0' = IF opcode = LHI THEN dst ELSE Operand(r, src0, immediate)
    /\ alu1' = Operand(r, src1, immediate)
    /\ Goto("EXEC0")
    /\ UNCHANGED <<r, pc, inst, decoded, aluout>>
    /\ Edge

Exec0 ==
    /\ ctl_state = "EXEC0"
    /\ aluout' = IF opcode \in AluOps \cup JumpOps THEN aluout_wire ELSE aluout
    /\ Goto("EXEC1")
    /\ UNCHANGED <<r, pc, inst, decoded, alu0, alu1>>
    /\ Edge

Taken == opcode \in JumpOps /\ aluout = 1

\* The registers after EXEC1.
Written ==
    IF opcode \in AluOps THEN [r EXCEPT ![dst] = aluout]
    ELSE IF opcode = LD THEN [r EXCEPT ![dst] = do]
    ELSE IF opcode = POL THEN [r EXCEPT ![dst] = dma_cnt]
    ELSE IF Taken THEN [r EXCEPT ![7] = pc - 1]
    ELSE r

Exec1 ==
    /\ ctl_state = "EXEC1"
    /\ r' = Written
    /\ pc' = IF Taken THEN immediate ELSE pc
    /\ \/ opcode # HLT /\ Goto("FETCH0")
       \/ opcode = HLT /\ ctl_state' = "IDLE" /\ dump' = mem /\ sim' = "stopped"
    /\ UNCHANGED <<inst, decoded, alu0, alu1, aluout>>
    /\ Edge

Next == Idle \/ Fetch0 \/ Fetch1 \/ Dec0 \/ Dec1 \/ Exec0 \/ Exec1

Init ==
    /\ r = [i \in RegId |-> 0]
    /\ pc = 0 /\ inst = 0
    /\ opcode = 0 /\ dst = 0 /\ src0 = 0 /\ src1 = 0 /\ immediate = 0
    /\ alu0 = 0 /\ alu1 = 0 /\ aluout = 0 /\ aluout_wire = Alu(ADD, 0, 0, 0)
    /\ ctl_state = "IDLE"
    /\ dma_raddr = 0 /\ dma_waddr = 0 /\ dma_reg = 0 /\ dma_cnt = 0
    /\ dma_state = "IDLE"
    /\ mem \in Images /\ do \in {mem[a] : a \in Address}
    /\ start \in BOOLEAN
    /\ dump = <<>>
    /\ sim = "running"

Spec == Init /\ [][Next]_vars
=============================================================================
