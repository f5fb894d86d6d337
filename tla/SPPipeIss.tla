----------------------------- MODULE SPPipeIss -----------------------------
(***************************************************************************)
(* The pipelined processor (lab5/sp.c) against the instruction-set         *)
(* simulator (lab1/iss.c).  An instruction takes effect when it retires    *)
(* from exec1; a store has reached sramd one clock earlier by then.  Two   *)
(* history variables say what the simulator would have at that point, a    *)
(* third whether its unsigned operands have made a difference so far.      *)
(***************************************************************************)
EXTENDS SPPipe, SPAlu

CONSTANT Loaded(_)  \* the words of the file that was loaded as an image

\* Behind the words of the file the memory is zero.
ASSUME LoadedAssumption ==
    \A m \in Images : /\ Loaded(m) \in 0 .. Height
                      /\ \A p \in Loaded(m) .. Height - 1 : m[p] = 0

VARIABLES due,       \* the pc of the instruction that has to retire next
          committed, \* sramd with the stores of retired instructions only
          alike      \* what has retired computed in ints what it does in unsigned ints

issvars == <<vars, due, committed, alike>>

IssInit == Init /\ due = 0 /\ committed = sramd /\ alike = TRUE

\* The instruction in exec1 retires in this clock.
Completes == Retires /\ Verdict = "run"

\* What retires computes the same in ints and in unsigned ints.
SignsKept == Completes => SignBlind(Op1, exec1.alu0, exec1.alu1)

IssNext ==
    /\ Next
    /\ due' = IF ~Completes \/ Op1 = HLT THEN due
              ELSE IF Op1 \in JumpOps /\ exec1.aluout # 0 THEN Imm(exec1.inst)
              ELSE exec1.pc + 1
    /\ committed' = IF Completes /\ Op1 = ST
                    THEN [committed EXCEPT ![exec1.alu1] = exec1.alu0] ELSE committed
    /\ alike' = IF SignsKept THEN alike ELSE FALSE

IssPipeSpec == IssInit /\ [][IssNext]_issvars

IssFairSpec == IssPipeSpec /\ WF_issvars(IssNext)

\* The words of the file as they are at the end, which iss.c dumps.
Dumped == IF dump = <<>> THEN <<>> ELSE [p \in 0 .. Loaded(srami) - 1 |-> dump[p]]

\* The operands of iss.c are unsigned ints (IssAlu), whatever the pipeline's are.
Iss == INSTANCE SPIss WITH
    Alu   <- IssAlu,
    REG   <- [r EXCEPT ![1] = 0],
    MEM   <- committed,
    insts <- Decode(srami, Height),
    pc    <- due,
    n     <- Loaded(srami),
    dump  <- Dumped,
    sim   <- IF sim = "stopped" THEN "stopped" ELSE "running"

\* Faulty: the register of a load is read before the clock.
FaultyTraceLine ==
    LET i == exec1.inst
    IN  [pc |-> exec1.pc, inst |-> i, regs |-> [r EXCEPT ![1] = Imm(i)],
         exec |-> IF Op1 \in AluOps \cup {LD} THEN <<Dst(i), r[Dst(i)]>> ELSE <<>>]

\* What dump_inst_trace writes when an instruction retires, from the registers
\* before the clock (spro) and after it (sprn).  The line of HLT goes back from
\* the instruction that follows it into exec1, and the address in the line of a
\* load is read from register src1 after the load.
TraceLine ==
    LET i == exec1.inst
    IN  [pc |-> exec1.pc, inst |-> i, regs |-> [r EXCEPT ![1] = Imm(i)],
         exec |-> IF Op1 \in AluOps THEN <<Dst(i), r'[Dst(i)]>>
                  ELSE IF Op1 = LD
                  THEN <<Dst(i), IF Src1(i) = 1 THEN Imm(i) ELSE r'[Src1(i)], r'[Dst(i)]>>
                  ELSE IF Op1 = ST THEN <<exec1.alu1, exec1.alu0>>
                  ELSE IF Op1 \in JumpOps
                  THEN <<exec1.alu0, exec1.alu1,
                         IF exec1.aluout # 0 THEN Imm(i) ELSE exec1.pc + 1>>
                  ELSE IF Op1 = HLT
                  THEN <<(IF exec0.active THEN exec0.pc ELSE exec1.pc) - 1>>
                  ELSE <<>>]

-----------------------------------------------------------------------------
\* What the pipeline retires, clock by clock, is what the instruction-set
\* simulator executes, step by step: the same instructions in the same order,
\* on the same registers, with the same memory at every step and in the dump: up
\* to the first instruction that the unsigned operands of iss.c make a different
\* one, as the right shift of a negative number.
IssAgrees ==
    /\ Iss!Init
    /\ [][alike' => Iss!Next \/ UNCHANGED Iss!vars]_issvars

\* Without such an instruction, to the end.
IssSpec == Iss!Spec

\* Instructions retire in program order: the next one is the one behind the
\* last one, or the target of the last one if that was a taken jump.
RetireInOrder == Retires => exec1.pc = due

\* A program that only reaches HLT ends there: the prefetch behind it does not
\* fail first.
EndsWell == sim \in {"running", "stopped"}

\* As far as that, the two simulators write the same trace, line by line: the
\* pipeline's lines are put together from the registers and the stages of two
\* different clocks.  Excepted is the load into the very register that holds its
\* address.
TraceAgrees ==
    [][Completes /\ alike' /\ ~(Op1 = LD /\ Src1(exec1.inst) = Dst(exec1.inst))
       => TraceLine = Iss!TraceLine]_issvars
=============================================================================
