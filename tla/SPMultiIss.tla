----------------------------- MODULE SPMultiIss -----------------------------
(***************************************************************************)
(* The multi-cycle processor (lab2/sp.c) against the instruction-set       *)
(* simulator (lab1/iss.c), on the programs both are meant for: no DMA, no  *)
(* POL, no LHI (whose operand differs), and no jump behind the first HLT,  *)
(* where iss.c sees zero words.  History variables keep the program as it  *)
(* was loaded, which is what iss.c decodes, and whether a store has ever   *)
(* changed it: restoring an instruction does not undo what its substitute  *)
(* has done meanwhile, such as starting a transfer.                        *)
(***************************************************************************)
EXTENDS SPMultiArch, SPPrograms, SPAlu

CONSTANT Loaded(_)  \* the words of the file that was loaded as an image

\* Behind the words of the file the memory is zero.
ASSUME LoadedAssumption ==
    \A m \in Images : /\ Loaded(m) \in 0 .. Height
                      /\ \A p \in Loaded(m) .. Height - 1 : m[p] = 0

VARIABLES program,  \* the program as loaded
          intact,   \* it has never been overwritten up to its first HLT
          alike     \* every instruction so far computed in ints what it does in unsigned ints

issvars == <<vars, program, intact, alike>>

\* What the two simulators are both meant for.
Plain(m) ==
    \E h \in 0 .. Height - 1 :
        /\ Opcode(m[h]) = HLT
        /\ \A p \in 0 .. h - 1 :
              /\ Opcode(m[p]) \notin {HLT, LHI, DMA, POL}
              /\ Opcode(m[p]) \in JumpOps => Imm(m[p]) <= h

\* The instructions up to the first HLT, which iss.c decodes.
Decoded(p) == p \in 0 .. Height - 1 /\ \A h \in 0 .. p - 1 : Opcode(program[h]) # HLT

\* The program has not overwritten itself.
AsWritten == \A p \in 0 .. Height - 1 : Decoded(p) => sram[p] = program[p]

\* The instruction that ends computes the same in ints and in unsigned ints.
SignsKept == ctl_state = "EXEC1" => SignBlind(opcode, alu0, alu1)

IssInit == Init /\ program = sram /\ intact = TRUE /\ alike = TRUE
IssNext ==
    /\ Next
    /\ UNCHANGED program
    /\ intact' = IF AsWritten' THEN intact ELSE FALSE
    /\ alike' = IF SignsKept THEN alike ELSE FALSE

IssMultiSpec == IssInit /\ [][IssNext]_issvars
IssFairSpec  == IssMultiSpec /\ WF_issvars(IssNext)

-----------------------------------------------------------------------------
Comparable == Plain(program) /\ intact

\* The words of the file as they are at the end, which iss.c dumps.
Dumped == IF dump = <<>> THEN <<>> ELSE [p \in 0 .. Loaded(program) - 1 |-> dump[p]]

\* The operands of iss.c are unsigned ints (IssAlu), whatever the processor's are.
Iss == INSTANCE SPIss WITH
    Alu   <- IssAlu,
    REG   <- [r EXCEPT ![1] = 0],
    MEM   <- sram,
    insts <- Decode(program, Height),
    pc    <- IF Advanced \/ sim = "stopped" THEN Wrap(pc - 1) ELSE pc,
    n     <- Loaded(program),
    dump  <- Dumped,
    sim   <- IF sim = "stopped" THEN "stopped" ELSE "running"

\* As long as the simulators are comparable, and up to the first instruction
\* that the unsigned operands of iss.c make a different one, six clocks of the
\* processor are one step of the instruction-set simulator, on the same
\* registers and the same memory, up to a dump of the same words.
IssAgrees ==
    /\ Comparable => Iss!Init
    /\ [][Comparable /\ alike' => Iss!Next \/ UNCHANGED Iss!vars]_issvars

\* Faulty: the line is written from the registers after the clock.
FaultyTraceLine ==
    [pc |-> Wrap(pc' - 1), inst |-> inst', regs |-> r',
     exec |-> IF opcode \in AluOps THEN <<dst, r'[dst]>> ELSE <<>>]

\* What dump_trace writes, from the registers before the clock (spro) and after
\* it (sprn).  The address in the line of a load is read from register src1
\* after the load.
TraceLine ==
    [pc |-> Wrap(pc - 1), inst |-> inst, regs |-> r,
     exec |-> IF opcode \in AluOps THEN <<dst, r'[dst]>>
              ELSE IF opcode = LD THEN <<dst, r'[src1], r'[dst]>>
              ELSE IF opcode = ST THEN <<alu1, alu0>>
              ELSE IF opcode \in JumpOps THEN <<alu0, alu1, pc'>>
              ELSE IF opcode = HLT THEN <<Wrap(pc' - 1)>>
              ELSE <<>>]

\* As far as that, the traces agree line by line: a difference between
\* inst_trace.txt and the trace of iss.c is a load into the very register that
\* holds its address, or an instruction that depends on the sign of an operand.
TraceAgrees ==
    [][Comparable /\ alike' /\ ctl_state = "EXEC1" /\ ctl_state' # "EXEC1"
          /\ ~(opcode = LD /\ src1 = dst)
       => TraceLine = Iss!TraceLine]_issvars

-----------------------------------------------------------------------------
\* mult.c as it was loaded, for the operands and the place its text names.
Place == Imm(program[0])
Left  == Imm(program[2])
Right == Imm(program[3])

IsMult ==
    /\ Place \in 16 .. Height - 3
    /\ \A p \in 0 .. 15 : program[p] = MultCode(Place, Left, Right)[p + 1]

\* mult.c multiplies, whatever the operands are: it never touches an address
\* outside the memory, and the dump it ends with has the product, as far as a
\* word holds it.
Multiplies ==
    IsMult => /\ sim \in {"running", "stopped"}
              /\ sim = "stopped" => dump[Place + 2] = Wrap(Left * Right)
=============================================================================
