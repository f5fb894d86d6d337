----------------------------- MODULE SPMultiArch -----------------------------
(***************************************************************************)
(* The clocked processor implements the programmer's view.  An instruction *)
(* is fetched in FETCH0 and takes effect in EXEC1, a DMA instruction in    *)
(* EXEC0; a word of a transfer is picked up in READ and put down in WRITE. *)
(***************************************************************************)
EXTENDS SPMulti

\* The fetched instruction has not taken effect yet.
Pending ==
    \/ ctl_state \in {"FETCH1", "DEC0", "DEC1", "EXEC0"}
    \/ ctl_state = "EXEC1" /\ opcode # DMA

\* DEC0 has advanced the program counter past the pending instruction.
Advanced ==
    \/ ctl_state \in {"DEC1", "EXEC0"}
    \/ ctl_state = "EXEC1" /\ opcode # DMA

Arch == INSTANCE SPArch WITH
    r       <- [r EXCEPT ![1] = 0],
    pc      <- IF Advanced THEN Wrap(pc - 1) ELSE pc,
    fetched <- Pending,
    ir      <- IF ~Pending THEN 0 ELSE IF ctl_state = "FETCH1" THEN dataout ELSE inst,
    mem     <- sram,
    active  <- dma_state # "IDLE",
    from    <- IF dma_state = "SAMPLE" THEN Wrap(dma_raddr + 1) ELSE dma_raddr,
    to      <- dma_waddr,
    left    <- dma_cnt,
    full    <- dma_state \in {"SAMPLE", "WRITE"},
    buf     <- CASE dma_state = "SAMPLE" -> dataout
                 [] dma_state = "WRITE" -> dma_reg
                 [] OTHER -> 0,
    status  <- sim

\* Every run of the processor is a run of the programmer's view: instructions
\* appear atomic and in order, and every word of a transfer is read and
\* written exactly once, although sp_ctl spreads both over many clocks and
\* interleaves them on one memory port.
ArchSpec == Arch!Spec
=============================================================================
