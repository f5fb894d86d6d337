------------------------------ MODULE SPRtlArch ------------------------------
(***************************************************************************)
(* The Verilog processor and the programmer's view that SPMulti implements.*)
(* It implements it, too, for programs whose addresses are in the memory,  *)
(* whose transfers have at least one word, of 16 bits, and which do not    *)
(* use LHI; beyond that the two processors differ.                         *)
(***************************************************************************)
EXTENDS SPRtl

\* The fetched instruction has not taken effect yet.
Pending ==
    \/ ctl_state \in {"FETCH1", "DEC0", "DEC1", "EXEC0"}
    \/ ctl_state = "EXEC1" /\ opcode # DMA

\* DEC0 has advanced the program counter past the pending instruction.
Advanced ==
    \/ ctl_state \in {"DEC1", "EXEC0"}
    \/ ctl_state = "EXEC1" /\ opcode # DMA

Arch == INSTANCE SPArch WITH
    Height  <- ImmMod,
    r       <- [r EXCEPT ![1] = 0],
    pc      <- IF Advanced THEN pc - 1 ELSE pc,
    fetched <- Pending,
    ir      <- IF ~Pending THEN 0 ELSE IF ctl_state = "FETCH1" THEN do ELSE inst,
    active  <- dma_state # "IDLE",
    from    <- IF dma_state = "SAMPLE" THEN dma_raddr + 1 ELSE dma_raddr,
    to      <- dma_waddr,
    left    <- dma_cnt,
    full    <- dma_state \in {"SAMPLE", "WRITE"},
    buf     <- IF dma_state = "SAMPLE" THEN do ELSE IF dma_state = "WRITE" THEN dma_reg ELSE 0,
    status  <- sim

\* The common ground of the two processors, as an execution keeps it: opcodes of
\* five bits other than LHI, addresses that 16 bits hold without wrapping, and
\* transfers of at least one word, each of 16 bits.
CommonGround ==
    /\ ctl_state = "DEC0" => Opcode(inst) \in 0 .. 31 \ {LHI} /\ pc + 1 \in Address
    /\ ctl_state \in {"EXEC0", "EXEC1"} /\ opcode \in {LD, ST} => alu1 \in Address
    /\ Starts => alu0 \in Address /\ alu1 \in Address /\ immediate # 0
    /\ dma_state = "SAMPLE" => do \in Immediate /\ dma_raddr + 1 \in Address
    /\ dma_state = "WRITE" => dma_waddr + 1 \in Address

\* What the Verilog processor does, edge by edge, is an execution of the same
\* programmer's view as that of the C simulator it is compared with, up to the
\* ALU, which is a parameter of the view as of the two processors.
ArchSpec == Arch!Spec
=============================================================================
