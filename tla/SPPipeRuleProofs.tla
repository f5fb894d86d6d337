-------------------------- MODULE SPPipeRuleProofs --------------------------
(***************************************************************************)
(* What the pipelined processor gives to the programs that keep the rules  *)
(* of SPPipeRules: for every width of words, every size of the memories,   *)
(* every ALU and every program.  A rule is a hypothesis of its theorem in  *)
(* the form in which an execution keeps it, clock by clock; each theorem   *)
(* names the rules it needs and no other.                                  *)
(***************************************************************************)
EXTENDS SPPipeRules, SPPipeProofs, FiniteSetTheorems

\* The clocks in which the instructions move on.
Moves ==
    /\ Fill \/ Stall \/ Release \/ Issue
    /\ ~Mispredicts /\ ~Halts /\ Tick
    /\ exec0' = NextExec0 /\ exec1' = NextExec1
    /\ dump' = dump /\ sim' = sim

\* The clocks that empty the pipeline.
Empties ==
    /\ Flush \/ Halt
    /\ Tick
    /\ dec0' = Empty /\ dec1' = Empty /\ exec0' = Empty /\ exec1' = Empty
    /\ fetch1_active' = FALSE

\* The steps that change nothing but the verdict.
Rests ==
    /\ UNCHANGED <<front, jtaken, r_busy, back, dma, mems>>
    /\ sim' = sim \/ sim' # "running"

LEMMA StepCases ==
    ASSUME [Next]_vars
    PROVE  Moves \/ Empties \/ Rests
  <1>1. CASE UNCHANGED vars
    BY <1>1 DEF vars, Rests
  <1>2. CASE Next
    <2>1. CASE Abort
      BY <2>1 DEF Abort, Rests
    <2>2. CASE Flush \/ Halt
      BY <2>2 DEF Flush, Halt, Empties
    <2>3. CASE Next /\ ~Abort /\ ~Flush /\ ~Halt
      BY <2>3 DEF Next, Advance, Moves
    <2> QED
      BY <1>2, <2>1, <2>2, <2>3
  <1> QED
    BY <1>1, <1>2

\* dec0 hands its instruction to dec1 when it issues it, and a hole otherwise.
LEMMA Handed ==
    ASSUME Moves
    PROVE  dec1' = IF Issues THEN dec0 ELSE Empty
  BY DEF Moves, Fill, Stall, Release, Issue, Issues, Stalled, Empty

-----------------------------------------------------------------------------
(***************************************************************************)
(* The scoreboard.                                                         *)
(***************************************************************************)
LEMMA BusyStep ==
    ASSUME BusyHasWriter, DestinationKept, [Next]_vars
    PROVE  BusyHasWriter'
  <1>1. CASE Rests
    BY <1>1 DEF Rests, BusyHasWriter, front, back
  <1>2. CASE Empties
    <2>1. CASE Flush
      BY <2>1 DEF Flush, Tick, NextBusy, BusyHasWriter
    <2>2. CASE Halt
      BY <2>2 DEF Halt, BusyHasWriter
    <2> QED
      BY <1>2, <2>1, <2>2 DEF Empties
  <1>3. CASE Moves
    <2> SUFFICES ASSUME NEW d \in r_busy'
                 PROVE  \E s \in {dec1', exec0', exec1'} :
                          s.active /\ Dst(s.inst) = d /\ Opcode(s.inst) \in Writers
      BY DEF BusyHasWriter
    <2>1. r_busy' = (r_busy \cup Marked) \ Released /\ sim = "running"
      BY <1>3 DEF Moves, Tick, NextBusy
    <2>2. CASE d \in Marked
      <3>1. Issues /\ dec0.active /\ Dst(dec0.inst) = d /\ d # 0
        BY <2>2 DEF Marked, Issues
      <3>2. Opcode(dec0.inst) \in Writers
        BY <3>1 DEF DestinationKept, Writes
      <3> QED
        BY <1>3, <3>1, <3>2, Handed
    <2>3. CASE d \in r_busy
      <3>1. PICK s \in {dec1, exec0, exec1} :
              s.active /\ Dst(s.inst) = d /\ Opcode(s.inst) \in Writers
        BY <2>1, <2>3 DEF BusyHasWriter
      <3>2. d \notin Released
        BY <2>1
      <3>3. CASE s = dec1
        <4>1. exec0'.active /\ exec0'.inst = dec1.inst
          BY <1>3, <3>1, <3>3 DEF Moves, NextExec0
        <4> QED
          BY <3>1, <3>3, <4>1
      <3>4. CASE s = exec0
        <4>1. exec1'.active /\ exec1'.inst = exec0.inst
          BY <1>3, <3>1, <3>4 DEF Moves, NextExec1
        <4> QED
          BY <3>1, <3>4, <4>1
      <3>5. CASE s = exec1
        BY <3>1, <3>2, <3>5 DEF Released, Op1
      <3> QED
        BY <3>1, <3>3, <3>4, <3>5
    <2> QED
      BY <2>1, <2>2, <2>3
  <1> QED
    BY <1>1, <1>2, <1>3, StepCases

\* If only instructions that write a register name a destination, no register
\* stays busy behind the instruction that marked it: the scoreboard holds an
\* instruction back no longer than a writer is in the pipeline.
THEOREM BusyWhileWritten == Spec /\ []DestinationKept => []BusyHasWriter
  <1>1. Init => BusyHasWriter
    BY DEF Init, BusyHasWriter
  <1>2. BusyHasWriter /\ DestinationKept /\ [Next]_vars => BusyHasWriter'
    BY BusyStep
  <1> QED
    BY <1>1, <1>2, PTL DEF Spec

-----------------------------------------------------------------------------
(***************************************************************************)
(* The operands.                                                           *)
(***************************************************************************)
\* The registers that an instruction reads and an older one may still write.
Sources(i) == {Src0(i), Src1(i)} \ {0, 1}

\* The register that the instruction of a stage writes; register 0 is not marked.
Out(s) == IF s.active /\ Opcode(s.inst) \in Writers THEN {Dst(s.inst)} \ {0} ELSE {}

IsJump(s) == s.active /\ Opcode(s.inst) \in JumpOps

Reads(a0, a1, i) == a0 = Operand0(r, i) /\ a1 = Operand1(r, i)

\* A register that will be written is busy, has one writer, and no instruction
\* that reads it is past dec0; what was read is what the registers hold.
\* Behind a jump that is predicted to be taken, which will write register 7,
\* the pipeline is empty.
ScoreInv ==
    /\ Out(dec1) \cup Out(exec0) \cup Out(exec1) \subseteq r_busy
    /\ Out(dec1) \cap Out(exec0) = {}
    /\ Out(dec1) \cap Out(exec1) = {}
    /\ Out(exec0) \cap Out(exec1) = {}
    /\ dec1.active => Sources(dec1.inst) \cap (Out(exec0) \cup Out(exec1)) = {}
    /\ exec0.active => /\ Sources(exec0.inst) \cap Out(exec1) = {}
                       /\ Reads(exec0.alu0, exec0.alu1, exec0.inst)
    /\ exec1.active => Reads(exec1.alu0, exec1.alu1, exec1.inst)
    /\ jtaken => /\ IsJump(dec1) => ~dec0.active /\ ~fetch1_active
                 /\ IsJump(exec0) => ~dec0.active /\ ~dec1.active
                 /\ IsJump(exec1) => ~dec1.active /\ ~exec0.active

OperandInv == TypesInv /\ R0Inv /\ ScoreInv

\* What exec1 writes does not disturb what an instruction without a register
\* in common reads.
LEMMA ReadsKept ==
    ASSUME TypesInv, R0Inv, NEW i \in Word,
           Sources(i) \cap Out(exec1) = {},
           ~(Op1 \in JumpOps /\ exec1.aluout # 0)
    PROVE  Operand0(NextR, i) = Operand0(r, i) /\ Operand1(NextR, i) = Operand1(r, i)
  <1> DEFINE rd == IF dec1.active THEN [r EXCEPT ![1] = Imm(dec1.inst)] ELSE r
  <1>1. DOMAIN r = RegId /\ r[0] = 0 /\ NextR[0] = 0
    BY NextR0 DEF R0Inv
  <1>2. \A s \in RegId \ {0, 1} : s \notin Out(exec1) => NextR[s] = r[s]
    <2> SUFFICES ASSUME NEW s \in RegId \ {0, 1}, s \notin Out(exec1)
                 PROVE  NextR[s] = r[s]
      OBVIOUS
    <2>1. rd[s] = r[s] /\ DOMAIN rd = RegId
      BY <1>1
    <2>2. CASE exec1.active /\ Op1 \in Writers
      <3>1. Dst(exec1.inst) # s
        BY <2>2 DEF Out, Op1
      <3>2. \E v : NextR = [rd EXCEPT ![Dst(exec1.inst)] = v]
        BY <2>2 DEF NextR, Writers
      <3> QED
        BY <2>1, <3>1, <3>2
    <2>3. CASE ~(exec1.active /\ Op1 \in Writers)
      <3>1. NextR = rd
        BY <2>3 DEF NextR, Writers
      <3> QED
        BY <2>1, <3>1
    <2> QED
      BY <2>2, <2>3
  <1>3. Src0(i) \in RegId /\ Src1(i) \in RegId
    BY FieldRanges
  <1>4. \A s \in {Src0(i), Src1(i)} : Operand(NextR, s, Imm(i)) = Operand(r, s, Imm(i))
    BY <1>1, <1>2, <1>3 DEF Sources, Operand
  <1> QED
    BY <1>4 DEF Operand0, Operand1

LEMMA ScoreStep ==
    ASSUME OperandInv, WriteKept, Moves
    PROVE  ScoreInv'
  <1>1. /\ ~Mispredicts /\ Tick /\ sim = "running" /\ r' = NextR
        /\ exec0' = NextExec0 /\ exec1' = NextExec1
        /\ dec1' = IF Issues THEN dec0 ELSE Empty
        /\ r_busy' = (r_busy \cup Marked) \ Released
    BY Handed DEF Moves, Tick, NextBusy
  <1>2. Out(exec0') = Out(dec1) /\ Out(exec1') = Out(exec0)
    BY <1>1 DEF Out, NextExec0, NextExec1, Empty
  <1>3. /\ Out(dec1') \subseteq Marked
        /\ Out(dec1') \cap (Out(dec1) \cup Out(exec0) \cup Out(exec1)) = {}
    <2>1. CASE Issues
      BY <1>1, <2>1 DEF Out, Marked, WriteKept, Writes
    <2>2. CASE ~Issues
      BY <1>1, <2>2 DEF Out, Empty
    <2> QED
      BY <2>1, <2>2
  <1>4. Released \subseteq Out(exec1) \cup {0}
    BY DEF Released, Out, Op1
  <1>5. 0 \notin Out(dec1) /\ 0 \notin Out(exec0) /\ 0 \notin Out(dec1')
    BY DEF Out
  <1>6. /\ Out(dec1') \cup Out(exec0') \cup Out(exec1') \subseteq r_busy'
        /\ Out(dec1') \cap Out(exec0') = {}
        /\ Out(dec1') \cap Out(exec1') = {}
        /\ Out(exec0') \cap Out(exec1') = {}
    BY <1>1, <1>2, <1>3, <1>4, <1>5 DEF OperandInv, ScoreInv
  <1>7. dec1'.active => Sources(dec1'.inst) \cap (Out(exec0') \cup Out(exec1')) = {}
    <2> SUFFICES ASSUME dec1'.active
                 PROVE  Sources(dec1'.inst) \cap (Out(exec0') \cup Out(exec1')) = {}
      OBVIOUS
    <2>1. Issues /\ dec1' = dec0
      BY <1>1 DEF Empty
    <2>2. Sources(dec0.inst) \cap r_busy = {}
      BY <2>1 DEF Issues, Stalled, Sources
    <2> QED
      BY <1>2, <2>1, <2>2 DEF OperandInv, ScoreInv
  <1>8. jtaken' = jtaken /\ (IsJump(exec1) /\ exec1.aluout # 0 => jtaken)
    <2>1. jtaken \in BOOLEAN /\ jtaken' = IF Op1 \in JumpOps THEN exec1.aluout # 0 ELSE jtaken
      BY <1>1 DEF Tick, OperandInv, TypesInv, TypeOK
    <2>2. IsJump(exec1) <=> Op1 \in JumpOps
      BY DEF IsJump, Op1, JumpOps
    <2> QED
      BY <1>1, <2>1, <2>2 DEF Mispredicts
  <1>9. Op1 \in JumpOps /\ exec1.aluout # 0 => ~dec1.active /\ ~exec0.active
    <2>1. IsJump(exec1) <=> Op1 \in JumpOps
      BY DEF IsJump, Op1, JumpOps
    <2> QED
      BY <1>8, <2>1 DEF OperandInv, ScoreInv
  <1>10. exec0'.active => /\ Sources(exec0'.inst) \cap Out(exec1') = {}
                          /\ Reads(exec0.alu0, exec0.alu1, exec0.inst)'
    <2> SUFFICES ASSUME exec0'.active
                 PROVE  /\ Sources(exec0'.inst) \cap Out(exec1') = {}
                        /\ Reads(exec0.alu0, exec0.alu1, exec0.inst)'
      OBVIOUS
    <2>1. /\ dec1.active /\ exec0'.inst = dec1.inst
          /\ exec0'.alu0 = Operand0(r, dec1.inst) /\ exec0'.alu1 = Operand1(r, dec1.inst)
      BY <1>1 DEF NextExec0, Empty
    <2>2. dec1.inst \in Word
      BY <2>1, StageWords DEF OperandInv, TypesInv
    <2>3. Sources(dec1.inst) \cap (Out(exec0) \cup Out(exec1)) = {}
      BY <2>1 DEF OperandInv, ScoreInv
    <2>4. /\ Operand0(NextR, dec1.inst) = Operand0(r, dec1.inst)
          /\ Operand1(NextR, dec1.inst) = Operand1(r, dec1.inst)
      BY <1>9, <2>1, <2>2, <2>3, ReadsKept DEF OperandInv
    <2> QED
      BY <1>1, <1>2, <2>1, <2>3, <2>4 DEF Reads, Operand0, Operand1, Operand
  <1>11. exec1'.active => Reads(exec1.alu0, exec1.alu1, exec1.inst)'
    <2> SUFFICES ASSUME exec1'.active
                 PROVE  Reads(exec1.alu0, exec1.alu1, exec1.inst)'
      OBVIOUS
    <2>1. /\ exec0.active /\ exec1'.inst = exec0.inst
          /\ exec1'.alu0 = exec0.alu0 /\ exec1'.alu1 = exec0.alu1
      BY <1>1 DEF NextExec1, Empty
    <2>2. exec0.inst \in Word
      BY <2>1, StageWords DEF OperandInv, TypesInv
    <2>3. Sources(exec0.inst) \cap Out(exec1) = {} /\ Reads(exec0.alu0, exec0.alu1, exec0.inst)
      BY <2>1 DEF OperandInv, ScoreInv
    <2>4. /\ Operand0(NextR, exec0.inst) = Operand0(r, exec0.inst)
          /\ Operand1(NextR, exec0.inst) = Operand1(r, exec0.inst)
      BY <1>9, <2>1, <2>2, <2>3, ReadsKept DEF OperandInv
    <2> QED
      BY <1>1, <2>1, <2>3, <2>4 DEF Reads, Operand0, Operand1, Operand
  <1>12. jtaken' => /\ IsJump(dec1') => ~dec0'.active /\ ~fetch1_active'
                    /\ IsJump(exec0') => ~dec0'.active /\ ~dec1'.active
                    /\ IsJump(exec1') => ~dec1'.active /\ ~exec0'.active
    <2> SUFFICES ASSUME jtaken
                 PROVE  /\ IsJump(dec1') => ~dec0'.active /\ ~fetch1_active'
                        /\ IsJump(exec0') => ~dec0'.active /\ ~dec1'.active
                        /\ IsJump(exec1') => ~dec1'.active /\ ~exec0'.active
      BY <1>8
    <2>1. IsJump(dec1') => ~dec0'.active /\ ~fetch1_active'
      <3>1. IsJump(dec1') => Issues /\ Predicted
        BY <1>1 DEF IsJump, Empty, Predicted
      <3>2. Issues => Release \/ Issue
        BY DEF Moves, Fill, Stall, Issues
      <3>3. Predicted /\ (Release \/ Issue) => dec0' = Empty /\ ~fetch1_active'
        BY DEF Release, Issue, Predicted
      <3>4. ~Empty.active
        BY DEF Empty
      <3> QED
        BY <3>1, <3>2, <3>3, <3>4
    <2>2. IsJump(exec0') => IsJump(dec1)
      BY <1>1 DEF IsJump, NextExec0, Empty
    <2>3. IsJump(exec0') => ~dec0'.active /\ ~dec1'.active
      <3>1. IsJump(dec1) => ~dec0.active /\ ~fetch1_active
        BY DEF OperandInv, ScoreInv
      <3>2. ~dec0.active => Fill
        BY DEF Moves, Stall, Stalled, Release, Issue, Issues
      <3> QED
        BY <2>2, <3>1, <3>2 DEF Fill, Empty
    <2>4. IsJump(exec1') => ~dec1'.active /\ ~exec0'.active
      <3>1. IsJump(exec1') => IsJump(exec0)
        BY <1>1 DEF IsJump, NextExec1, Empty
      <3>2. IsJump(exec0) => ~dec0.active /\ ~dec1.active
        BY DEF OperandInv, ScoreInv
      <3> QED
        BY <1>1, <3>1, <3>2 DEF NextExec0, Issues, Empty
    <2> QED
      BY <2>1, <2>3, <2>4
  <1> QED
    BY <1>6, <1>7, <1>10, <1>11, <1>12 DEF ScoreInv, Out, IsJump, Sources

LEMMA OperandStep ==
    ASSUME AluClosed, Height \in Word, Alu(ADD, 0, 0, 0) = 0,
           OperandInv, WriteKept, [Next]_vars
    PROVE  OperandInv'
  <1>1. TypesInv' /\ R0Inv'
    BY TypesStep, R0Step DEF OperandInv
  <1>2. CASE Rests
    <2>1. ScoreInv'
      BY <1>2 DEF Rests, OperandInv, ScoreInv, Out, IsJump, Reads, front, back
    <2> QED
      BY <1>1, <2>1 DEF OperandInv
  <1>3. CASE Empties
    <2>1. ScoreInv'
      BY <1>3 DEF Empties, ScoreInv, Out, IsJump, Empty
    <2> QED
      BY <1>1, <2>1 DEF OperandInv
  <1>4. CASE Moves
    BY <1>1, <1>4, ScoreStep DEF OperandInv
  <1> QED
    BY <1>2, <1>3, <1>4, StepCases

\* If no register is to be written by two instructions in the pipeline, every one
\* retires with the operands that the registers hold when it retires: the
\* scoreboard keeps back, in dec0, each reader of a register still to be
\* written, and a taken jump has nothing behind it to read the register it links.
THEOREM OperandsAlwaysFresh ==
    ASSUME AluClosed, Height \in Word, Alu(ADD, 0, 0, 0) = 0
    PROVE  Spec /\ []WriteKept => []OperandsFresh
  <1>1. Init => OperandInv
    <2> SUFFICES ASSUME Init PROVE OperandInv
      OBVIOUS
    <2>1. R0Inv
      BY DEF Init, R0Inv, Empty, RegId
    <2>2. ScoreInv
      BY DEF Init, ScoreInv, Out, IsJump, Empty
    <2> QED
      BY <2>1, <2>2, TypesInit DEF OperandInv
  <1>2. OperandInv => OperandsFresh
    BY DEF OperandInv, ScoreInv, OperandsFresh, Retires, Reads
  <1>3. OperandInv /\ WriteKept /\ [Next]_vars => OperandInv'
    BY OperandStep
  <1> QED
    BY <1>1, <1>2, <1>3, PTL DEF Spec

-----------------------------------------------------------------------------
(***************************************************************************)
(* The addresses at the front of the pipeline.                             *)
(***************************************************************************)
\* A stage with an instruction that will write a register.
WillWrite(s) == s.active /\ Opcode(s.inst) \in Writers

\* While the pipeline fills, no writer is left by the time dec0 has an
\* instruction.
FillInv ==
    /\ start => ~WillWrite(dec1)
    /\ start /\ fetch1_active => ~dec1.active /\ ~WillWrite(exec0)
    /\ start /\ dec0.active => ~dec1.active /\ ~exec0.active /\ ~WillWrite(exec1)

LEMMA FillStep ==
    ASSUME FillInv, [Next]_vars
    PROVE  FillInv'
  <1>1. CASE Rests
    BY <1>1 DEF Rests, FillInv, WillWrite, front, back
  <1>2. CASE Empties
    BY <1>2 DEF Empties, FillInv, WillWrite, Empty
  <1>3. CASE Moves
    <2>1. /\ WillWrite(exec0') <=> WillWrite(dec1)
          /\ WillWrite(exec1') <=> WillWrite(exec0)
          /\ exec0'.active => dec1.active
          /\ ~Empty.active /\ ~WillWrite(Empty)
      BY <1>3 DEF Moves, WillWrite, NextExec0, NextExec1, Empty
    <2>2. CASE Fill
      BY <2>1, <2>2 DEF Fill, FillInv, Fetched
    <2>3. CASE Stall \/ Release
      BY <2>3 DEF Stall, Release, FillInv
    <2>4. CASE Issue
      <3>1. start' => Predicted
        BY <2>4 DEF Issue
      <3>2. Predicted => ~WillWrite(dec0)
        BY DEF Predicted, WillWrite, Writers, AluOps, JumpOps, LD, POL
      <3>3. Predicted => dec0' = Empty /\ ~fetch1_active'
        BY <2>4 DEF Issue, Predicted
      <3>4. dec1' = dec0
        BY <2>4 DEF Issue
      <3> QED
        BY <2>1, <3>1, <3>2, <3>3, <3>4 DEF FillInv, WillWrite
    <2> QED
      BY <1>3, <2>2, <2>3, <2>4 DEF Moves
  <1> QED
    BY <1>1, <1>2, <1>3, StepCases

FilledInv == BusyHasWriter /\ FillInv /\ FillKept

LEMMA FilledStep ==
    ASSUME FilledInv, DestinationKept, [Next]_vars
    PROVE  FilledInv'
  <1>1. BusyHasWriter' /\ FillInv'
    BY BusyStep, FillStep DEF FilledInv
  <1>2. FillKept'
    <2>1. CASE Rests
      BY <2>1 DEF Rests, FilledInv, FillKept, Stalled, front
    <2>2. CASE Empties
      BY <2>2 DEF Empties, FillKept, Stalled, Empty
    <2>3. CASE Moves
      <3> SUFFICES ASSUME start', Stalled'
                   PROVE  FALSE
        BY DEF FillKept
      <3>1. dec0'.active /\ sim' = "running"
        BY <2>3 DEF Stalled, Moves, Tick
      <3>2. ~dec1'.active /\ ~exec0'.active /\ ~WillWrite(exec1')
        BY <1>1, <3>1 DEF FillInv, WillWrite
      <3>3. r_busy' = {}
        BY <1>1, <3>1, <3>2 DEF BusyHasWriter, WillWrite
      <3> QED
        BY <3>3 DEF Stalled
    <2> QED
      BY <2>1, <2>2, <2>3, StepCases
  <1> QED
    BY <1>1, <1>2 DEF FilledInv

\* If only writers name a destination, nothing waits in a pipeline that fills:
\* by the time the first instruction is in dec0, the writers from before the
\* jump have set their registers free.
THEOREM FillsWithoutStall == Spec /\ []DestinationKept => []FillKept
  <1>1. Init => FilledInv
    BY DEF Init, FilledInv, BusyHasWriter, FillInv, FillKept, WillWrite, Stalled, Empty
  <1>2. FilledInv => FillKept
    BY DEF FilledInv
  <1>3. FilledInv /\ DestinationKept /\ [Next]_vars => FilledInv'
    BY FilledStep
  <1> QED
    BY <1>1, <1>2, <1>3, PTL DEF Spec

\* fetch1 is one word behind fetch0 and one word before dec0, in a stall, too.
PlaceInv ==
    /\ dec0.active /\ bubble => fetch1_pc = dec0.pc + 1
    /\ sim = "running" =>
         /\ fetch0_active /\ fetch1_active => fetch0_pc = fetch1_pc + 1
         /\ dec0.active /\ ~bubble => fetch1_pc = dec0.pc + 1
         /\ bubble => fetch0_pc = fetch1_pc + 1 /\ ~Predicted
         /\ ~dec0.active => start

FlowInv == FrontInv /\ PlaceInv

\* The prediction changes only when it was wrong.
LEMMA PredictionKept ==
    ASSUME Moves
    PROVE  jtaken' = jtaken
  BY DEF Moves, Mispredicts, Tick

LEMMA PlaceStep ==
    ASSUME FlowInv, FillKept, JumpKept, Moves
    PROVE  PlaceInv'
  <1>1. /\ sim = "running" /\ sim' = "running" /\ fetch1_pc' = NextFetch1Pc
        /\ FrontTypes /\ FrontInStep
    BY DEF Moves, Tick, FlowInv, FrontInv
  <1>2. ~Empty.active
    BY DEF Empty
  <1>3. CASE Fill
    <2>1. /\ ~dec0.active /\ start /\ start' = start /\ ~bubble /\ bubble' = bubble
          /\ dec1' = Empty /\ fetch1_active' = fetch0_active
          /\ fetch0_pc' = FilledPc
      BY <1>1, <1>3 DEF Fill, FlowInv, PlaceInv, FrontInStep, FrontTypes
    <2>2. fetch0_active => fetch0_pc' = fetch0_pc + 1 /\ fetch1_pc' = fetch0_pc
      BY <1>1, <2>1 DEF FilledPc, NextFetch1Pc, Stalled
    <2>3. dec0'.active => fetch1_active /\ fetch0_active /\ dec0' = Fetched
      BY <1>1, <1>2, <1>3 DEF Fill, FrontInStep
    <2>4. dec0'.active => fetch1_pc' = dec0'.pc + 1
      BY <1>1, <2>2, <2>3 DEF FlowInv, PlaceInv, Fetched
    <2> QED
      BY <1>1, <2>1, <2>2, <2>4 DEF PlaceInv
  <1>4. CASE Stall
    <2>1. Stalled /\ ~start /\ dec0.active /\ ~Predicted
      BY <1>4 DEF Stall, Stalled, FillKept, JumpKept
    <2>2. /\ fetch0_pc' = fetch0_pc /\ fetch1_pc' = fetch1_pc /\ dec0' = dec0
          /\ ~fetch1_active' /\ ~start' /\ bubble' = TRUE
      BY <1>1, <1>4, <2>1 DEF Stall, FilledPc, NextFetch1Pc
    <2>3. fetch1_pc = dec0.pc + 1 /\ fetch0_pc = fetch1_pc + 1
      BY <1>1, <2>1 DEF FlowInv, PlaceInv, FrontInStep, FrontTypes
    <2>4. ~Predicted'
      BY <2>1, <2>2, PredictionKept DEF Predicted
    <2> QED
      BY <1>1, <2>1, <2>2, <2>3, <2>4 DEF PlaceInv
  <1>5. CASE Release
    <2>1. /\ bubble /\ ~fetch0_active /\ ~fetch1_active /\ dec0.active /\ ~Predicted
          /\ fetch1_pc = dec0.pc + 1 /\ fetch0_pc = fetch1_pc + 1
      BY <1>1, <1>5 DEF Release, FlowInv, PlaceInv, FrontInStep
    <2>2. /\ fetch0_pc' = fetch0_pc /\ fetch1_pc' = fetch1_pc
          /\ dec0' = [active |-> TRUE, inst |-> 0, pc |-> dec0.pc]
          /\ bubble' = FALSE /\ start' = FALSE
      BY <1>1, <1>5, <2>1 DEF Release, NextFetch1Pc
    <2>3. dec0'.active /\ dec0'.pc = dec0.pc
      BY <2>2
    <2> QED
      BY <1>1, <2>1, <2>2, <2>3 DEF PlaceInv
  <1>6. CASE Issue
    <2>1. /\ ~bubble /\ fetch0_active /\ fetch1_active /\ dec0.active /\ ~Stalled
          /\ fetch0_pc = fetch1_pc + 1
      BY <1>1, <1>6 DEF Issue, Issues, FlowInv, PlaceInv, FrontInStep
    <2>2. fetch1_pc' = fetch0_pc /\ bubble' = FALSE
      BY <1>1, <1>6, <2>1 DEF Issue, NextFetch1Pc
    <2>3. CASE Predicted
      <3>1. dec0' = Empty /\ ~fetch1_active' /\ start' = TRUE
        BY <1>6, <2>3 DEF Issue, Predicted
      <3> QED
        BY <1>1, <1>2, <2>2, <3>1 DEF PlaceInv
    <2>4. CASE ~Predicted
      <3>1. dec0' = Fetched /\ start' = FALSE /\ fetch0_pc' = fetch0_pc + 1
        BY <1>6, <2>1, <2>4 DEF Issue, Predicted
      <3>2. dec0'.active /\ dec0'.pc = fetch1_pc
        BY <3>1 DEF Fetched
      <3> QED
        BY <1>1, <2>1, <2>2, <3>1, <3>2 DEF PlaceInv
    <2> QED
      BY <2>3, <2>4
  <1> QED
    BY <1>3, <1>4, <1>5, <1>6 DEF Moves

LEMMA FlowStep ==
    ASSUME FlowInv, FillKept, JumpKept, [Next]_vars
    PROVE  FlowInv'
  <1>1. FrontInv'
    BY FrontStep DEF FlowInv
  <1>2. CASE Rests
    <2>1. PlaceInv'
      BY <1>2 DEF Rests, FlowInv, PlaceInv, Predicted, front
    <2> QED
      BY <1>1, <2>1 DEF FlowInv
  <1>3. CASE Empties
    <2>1. PlaceInv'
      BY <1>3 DEF Empties, Flush, Halt, PlaceInv, Empty
    <2> QED
      BY <1>1, <2>1 DEF FlowInv
  <1>4. CASE Moves
    BY <1>1, <1>4, PlaceStep DEF FlowInv
  <1> QED
    BY <1>2, <1>3, <1>4, StepCases

LEMMA FlowInit ==
    ASSUME Init
    PROVE  FlowInv
  <1>1. PlaceInv
    BY DEF Init, PlaceInv, Empty
  <1> QED
    BY <1>1, FrontInit DEF FlowInv

\* If nothing waits while the pipeline fills, and no jump that is predicted to
\* be taken, a stall keeps the place of the instruction it holds back: dec0
\* reads again the word behind it, which fetch1 dropped, and no other.
THEOREM StallAlwaysKeepsPlace == Spec /\ []FillKept /\ []JumpKept => []StallKeepsPlace
  <1>1. FlowInv => StallKeepsPlace
    BY DEF FlowInv, PlaceInv, StallKeepsPlace
  <1>2. FlowInv /\ FillKept /\ JumpKept /\ [Next]_vars => FlowInv'
    BY FlowStep
  <1> QED
    BY <1>1, <1>2, FlowInit, PTL DEF Spec

-----------------------------------------------------------------------------
(***************************************************************************)
(* The wrong path.                                                         *)
(***************************************************************************)
Effects == {ST, DMA}

\* Behind a jump there is no store and no transfer.
PathInv ==
    /\ IsJump(exec0) /\ dec1.active => Opcode(dec1.inst) \notin Effects
    /\ IsJump(exec1) /\ exec0.active => Opcode(exec0.inst) \notin Effects

LEMMA PathStep ==
    ASSUME PathInv, StoreKept, [Next]_vars
    PROVE  PathInv'
  <1>1. CASE Rests
    BY <1>1 DEF Rests, PathInv, IsJump, front, back
  <1>2. CASE Empties
    BY <1>2 DEF Empties, PathInv, IsJump, Empty
  <1>3. CASE Moves
    <2>1. exec0' = NextExec0 /\ exec1' = NextExec1 /\ dec1' = IF Issues THEN dec0 ELSE Empty
      BY <1>3, Handed DEF Moves
    <2>2. IsJump(exec0') => IsJump(dec1)
      BY <2>1 DEF IsJump, NextExec0, Empty
    <2>3. dec1'.active => Issues /\ dec1' = dec0
      BY <2>1 DEF Empty
    <2>4. IsJump(exec0') /\ dec1'.active => Opcode(dec1'.inst) \notin Effects
      BY <2>2, <2>3 DEF StoreKept, IsJump, Effects
    <2>5. IsJump(exec1') => IsJump(exec0)
      BY <2>1 DEF IsJump, NextExec1, Empty
    <2>6. exec0'.active => dec1.active /\ exec0'.inst = dec1.inst
      BY <2>1 DEF NextExec0, Empty
    <2> QED
      BY <2>4, <2>5, <2>6 DEF PathInv
  <1> QED
    BY <1>1, <1>2, <1>3, StepCases

\* If no store and no transfer is issued right behind a jump, a misprediction
\* throws away only instructions without effect: the two further behind have
\* not reached exec0.
THEOREM WrongPathAlwaysHarmless == Spec /\ []StoreKept => []WrongPathHarmless
  <1>1. Init => PathInv
    BY DEF Init, PathInv, IsJump, Empty
  <1>2. PathInv => WrongPathHarmless
    BY DEF PathInv, WrongPathHarmless, Mispredicts, IsJump, Op0, Op1, Effects, JumpOps, ST, DMA
  <1>3. PathInv /\ StoreKept /\ [Next]_vars => PathInv'
    BY PathStep
  <1> QED
    BY <1>1, <1>2, <1>3, PTL DEF Spec

-----------------------------------------------------------------------------
(***************************************************************************)
(* The DMA.                                                                *)
(***************************************************************************)
Bit(b) == IF b THEN 1 ELSE 0

LEMMA PairOfTwo ==
    ASSUME NEW a, NEW b, a # b
    PROVE  Cardinality({a} \cup {b}) = 2
  <1>1. IsFiniteSet({a}) /\ Cardinality({a}) = 1
    BY FS_Singleton
  <1>2. Cardinality({a} \cup {b}) = IF b \in {a} THEN Cardinality({a}) ELSE Cardinality({a}) + 1
    BY <1>1, FS_AddElement
  <1>3. b \notin {a}
    OBVIOUS
  <1> QED
    BY <1>1, <1>2, <1>3

InFlightCounts == InFlight = Bit(dma_sample_active) + Bit(dma_write_active)

LEMMA InFlightBits == InFlightCounts
  <1> DEFINE K == {k \in {"sample", "write"} :
                     IF k = "sample" THEN dma_sample_active ELSE dma_write_active}
  <1>1. InFlight = Cardinality(K)
    BY DEF InFlight
  <1>2. Cardinality({}) = 0 /\ Cardinality({"sample"}) = 1 /\ Cardinality({"write"}) = 1
    BY FS_EmptySet, FS_Singleton
  <1>3. Cardinality({"sample"} \cup {"write"}) = 2
    BY PairOfTwo
  <1>4. CASE dma_sample_active /\ dma_write_active
    <2>1. K = {"sample"} \cup {"write"}
      BY <1>4
    <2> QED
      BY <1>1, <1>3, <1>4, <2>1 DEF InFlightCounts, Bit
  <1>5. CASE dma_sample_active /\ ~dma_write_active
    <2>1. K = {"sample"}
      BY <1>5
    <2> QED
      BY <1>1, <1>2, <1>5, <2>1 DEF InFlightCounts, Bit
  <1>6. CASE ~dma_sample_active /\ dma_write_active
    <2>1. K = {"write"}
      BY <1>6
    <2> QED
      BY <1>1, <1>2, <1>6, <2>1 DEF InFlightCounts, Bit
  <1>7. CASE ~dma_sample_active /\ ~dma_write_active
    <2>1. K = {}
      BY <1>7
    <2> QED
      BY <1>1, <1>2, <1>7, <2>1 DEF InFlightCounts, Bit
  <1> QED
    BY <1>4, <1>5, <1>6, <1>7

\* The words go in pairs: two reads, two writes.  The number still to be
\* written is even but between the two writes of a pair, and while a word is
\* sampled both words of its pair are still to be written.
CountInv ==
    /\ dma_cnt >= 0
    /\ dma_cnt % 2 = Bit(~dma_sample_active /\ dma_write_active)
    /\ dma_sample_active => dma_cnt >= 2

TransferInv == TypesInv /\ CountInv

LEMMA CountStep ==
    ASSUME TransferInv, DmaKept, Tick
    PROVE  CountInv'
  <1>1. /\ dma_cnt \in Word /\ dma_cnt \in Nat /\ Dma
        /\ dma_sample_active \in BOOLEAN /\ dma_write_active \in BOOLEAN
    BY SmallWords DEF TransferInv, TypesInv, TypeOK, CountInv, Tick
  <1>2. dma_cnt > 0 => Wrap(dma_cnt - 1) = dma_cnt - 1
    <2>1. dma_cnt > 0 => dma_cnt - 1 \in Word
      BY <1>1, ImmModAssumption DEF Word, WordMod
    <2> QED
      BY <2>1, WrapOfWord
  <1>3. dma_cnt > 0 \/ dma_sample_active \/ dma_write_active => DmaEnable
    BY DEF DmaKept
  <1>4. dma_write_active' = dma_sample_active
    BY <1>1, <1>3 DEF Dma
  <1>5. CASE dma_write_active
    <2>1. DmaWrites /\ ~DmaReads
      BY <1>3, <1>5 DEF DmaWrites, DmaReads
    <2>2. dma_sample_active' = FALSE /\ dma_cnt' = Wrap(dma_cnt - 1)
      BY <1>1, <2>1 DEF Dma, DmaReads
    <2>3. CASE dma_sample_active
      BY <1>1, <1>2, <1>4, <2>2, <2>3 DEF TransferInv, CountInv, Bit
    <2>4. CASE ~dma_sample_active
      BY <1>1, <1>2, <1>4, <1>5, <2>2, <2>4 DEF TransferInv, CountInv, Bit
    <2> QED
      BY <1>1, <2>3, <2>4
  <1>6. CASE ~dma_write_active /\ dma_cnt > 0
    <2>1. DmaReads /\ ~DmaWrites /\ ~DmaStarts
      BY <1>1, <1>3, <1>6 DEF DmaWrites, DmaReads, DmaStarts
    <2>2. dma_sample_active' = TRUE /\ dma_cnt' = dma_cnt
      BY <1>1, <2>1 DEF Dma
    <2> QED
      BY <1>1, <1>4, <1>6, <2>2 DEF TransferInv, CountInv, Bit
  <1>7. CASE ~dma_write_active /\ dma_cnt = 0
    <2>1. ~DmaReads /\ ~DmaWrites /\ ~dma_sample_active
      BY <1>1, <1>7 DEF DmaReads, DmaWrites, TransferInv, CountInv
    <2>2. dma_sample_active' = FALSE
          /\ dma_cnt' = IF DmaStarts THEN Imm(exec0.inst) ELSE dma_cnt
      BY <1>1, <2>1 DEF Dma, DmaReads
    <2>3. DmaStarts => Imm(exec0.inst) \in Nat /\ Imm(exec0.inst) % 2 = 0
      <3>1. DmaStarts => exec0.inst \in Word
        BY StageWords DEF DmaStarts, TransferInv, TypesInv
      <3> QED
        BY <3>1, FieldRanges, ImmModAssumption DEF DmaKept, Immediate
    <2> QED
      BY <1>1, <1>4, <1>7, <2>1, <2>2, <2>3 DEF CountInv, Bit
  <1> QED
    BY <1>1, <1>5, <1>6, <1>7

LEMMA TransferStep ==
    ASSUME AluClosed, Height \in Word, TransferInv, DmaKept, [Next]_vars
    PROVE  TransferInv'
  <1>1. TypesInv'
    BY TypesStep DEF TransferInv
  <1>2. CASE Rests
    BY <1>1, <1>2 DEF Rests, TransferInv, CountInv, dma
  <1>3. CASE Moves \/ Empties
    BY <1>1, <1>3, CountStep DEF Moves, Empties, TransferInv
  <1> QED
    BY <1>2, <1>3, StepCases

LEMMA TransferInit ==
    ASSUME Init
    PROVE  TransferInv
  <1>1. dma_cnt = 0 /\ dma_sample_active = FALSE /\ dma_write_active = FALSE
    BY DEF Init
  <1>2. CountInv
    BY <1>1 DEF CountInv, Bit
  <1> QED
    BY <1>2, TypesInit DEF TransferInv

\* If no load, store or transfer comes into the clocks of a transfer, and
\* transfers have an even number of words, the DMA never has more words under
\* way than it has still to write: no transfer writes a word too many.
THEOREM NeverOverruns ==
    ASSUME AluClosed, Height \in Word
    PROVE  Spec /\ []DmaKept => []NoOverrun
  <1>1. TransferInv => NoOverrun
    <2> SUFFICES ASSUME TransferInv PROVE NoOverrun
      OBVIOUS
    <2>1. /\ dma_cnt \in Nat
          /\ dma_sample_active \in BOOLEAN /\ dma_write_active \in BOOLEAN
      BY SmallWords DEF TransferInv, TypesInv, TypeOK, CountInv
    <2>2. InFlight = Bit(dma_sample_active) + Bit(dma_write_active)
      BY InFlightBits DEF InFlightCounts
    <2> QED
      BY <2>1, <2>2 DEF TransferInv, CountInv, NoOverrun, Bit
  <1>2. TransferInv /\ DmaKept /\ [Next]_vars => TransferInv'
    BY TransferStep
  <1> QED
    BY <1>1, <1>2, TransferInit, PTL DEF Spec

\* The addresses count on, since what is read and written is in the memory.
LEMMA AddressesCount ==
    ASSUME TypesInv, Height \in Word, Tick
    PROVE  /\ DmaReads => Wrap(dma_raddr + 1) = dma_raddr + 1
           /\ DmaWrites => Wrap(dma_waddr + 1) = dma_waddr + 1
  <1>1. \A q \in DReads \cup DWrites : q.addr \in 0 .. Height - 1
    BY RequestsInMemory DEF TypesInv, Tick, InMemory
  <1>2. DmaReads => [by |-> "dma", addr |-> dma_raddr] \in DReads
    BY DEF DReads
  <1>3. DmaWrites => [by |-> "dma", addr |-> dma_waddr, val |-> dma_reg] \in DWrites
    BY DEF DWrites
  <1>4. DmaReads => dma_raddr \in 0 .. Height - 1
    BY <1>1, <1>2
  <1>5. DmaWrites => dma_waddr \in 0 .. Height - 1
    BY <1>1, <1>3
  <1>6. \A a \in 0 .. Height - 1 : a + 1 \in Word
    BY PipeAssumption, ImmModAssumption DEF Word, WordMod
  <1> QED
    BY <1>4, <1>5, <1>6, WrapOfWord

\* The words under way in the next clock: a word that is read joins them, one
\* that is written leaves, and a load or a store loses none.
LEMMA InFlightTick ==
    ASSUME TypesInv, PairKept, Tick
    PROVE  /\ InFlight \in Int /\ InFlight' = InFlight + Bit(DmaReads) - Bit(DmaWrites)
           /\ DmaReads => ~DmaWrites
  <1>1. Dma /\ dma_sample_active \in BOOLEAN /\ dma_write_active \in BOOLEAN
    BY DEF TypesInv, TypeOK, Tick
  <1>2. /\ dma_sample_active' = DmaReads
        /\ dma_write_active' = (dma_sample_active \/ (~DmaEnable /\ dma_write_active))
    BY <1>1 DEF Dma
  <1>3. InFlightCounts'
    BY InFlightBits, PTL
  <1>4. InFlight = Bit(dma_sample_active) + Bit(dma_write_active)
    BY InFlightBits DEF InFlightCounts
  <1>5. /\ DmaReads => DmaEnable /\ ~dma_write_active
        /\ DmaWrites <=> DmaEnable /\ dma_write_active
    BY DEF DmaReads, DmaWrites
  <1>6. DmaEnable \in BOOLEAN /\ DmaReads \in BOOLEAN /\ DmaWrites \in BOOLEAN
    BY DEF DmaEnable, DmaReads, DmaWrites
  <1>7. dma_sample_active /\ dma_write_active => DmaEnable
    BY DEF PairKept
  <1> HIDE DEF DmaEnable, DmaReads, DmaWrites
  <1>8. InFlight' = Bit(DmaReads) + Bit(dma_sample_active \/ (~DmaEnable /\ dma_write_active))
    BY <1>2, <1>3 DEF InFlightCounts
  <1>9. InFlight \in Int /\ InFlight' = InFlight + Bit(DmaReads) - Bit(DmaWrites)
    BY <1>1, <1>4, <1>5, <1>6, <1>7, <1>8 DEF Bit
  <1> QED
    BY <1>5, <1>9

LEMMA InStepTick ==
    ASSUME TypesInv, Height \in Word, PairKept, Tick, ~DmaStarts
    PROVE  (dma_raddr' - dma_waddr') - (dma_raddr - dma_waddr) = InFlight' - InFlight
  <1>1. dma_raddr \in Int /\ dma_waddr \in Int /\ Dma
    BY SmallWords DEF TypesInv, TypeOK, Tick
  <1>2. dma_raddr' = dma_raddr + Bit(DmaReads) /\ dma_waddr' = dma_waddr + Bit(DmaWrites)
    BY <1>1, AddressesCount DEF Dma, Bit
  <1>3. Bit(DmaReads) \in Int /\ Bit(DmaWrites) \in Int
    BY DEF Bit
  <1> QED
    BY <1>1, <1>2, <1>3, InFlightTick

\* If no load or store comes into the clock in which a word is sampled while
\* another is written, source and destination address advance together but
\* for the words on their way: every word that is read is written once, to its
\* own place.
THEOREM TransferInStep ==
    ASSUME AluClosed, Height \in Word
    PROVE  Spec /\ []PairKept => DmaInStep
  <1> DEFINE Step == ~DmaStarts =>
               (dma_raddr' - dma_waddr') - (dma_raddr - dma_waddr) = InFlight' - InFlight
  <1>1. TypesInv /\ PairKept /\ [Next]_vars => [Step]_vars
    <2> SUFFICES ASSUME TypesInv, PairKept, [Next]_vars PROVE [Step]_vars
      OBVIOUS
    <2>1. CASE Rests
      <3>1. /\ dma_raddr' = dma_raddr /\ dma_waddr' = dma_waddr
            /\ InFlight' = InFlight /\ InFlight \in Int
            /\ dma_raddr \in Int /\ dma_waddr \in Int
        <4>1. InFlight = Bit(dma_sample_active) + Bit(dma_write_active)
          BY InFlightBits DEF InFlightCounts
        <4> QED
          BY <2>1, <4>1, SmallWords DEF Rests, dma, InFlight, Bit, TypesInv, TypeOK
      <3> QED
        BY <3>1
    <2>2. CASE Moves \/ Empties
      BY <2>2, InStepTick DEF Moves, Empties
    <2> QED
      BY <2>1, <2>2, StepCases
  <1>2. TypesInv /\ [Next]_vars => TypesInv'
    BY TypesStep
  <1>3. Init => TypesInv
    BY TypesInit
  <1> QED
    BY <1>1, <1>2, <1>3, PTL DEF Spec, DmaInStep

LEMMA RateTick ==
    ASSUME TypesInv, PairKept, Tick, dma_cnt > 0
    PROVE  (2 * dma_cnt - InFlight) - (2 * dma_cnt' - InFlight') = IF DmaEnable THEN 1 ELSE 0
  <1>1. dma_cnt \in Word /\ dma_cnt \in Int /\ Dma /\ ~DmaStarts
    <2>1. dma_cnt \in Word
      BY DEF TypesInv, TypeOK
    <2>2. dma_cnt \in Int
      BY <2>1, SmallWords
    <2>3. Dma
      BY DEF Tick
    <2>4. ~DmaStarts
      BY <2>2 DEF DmaStarts
    <2> QED
      BY <2>1, <2>2, <2>3, <2>4
  <1>2. Wrap(dma_cnt - 1) = dma_cnt - 1
    <2>1. dma_cnt - 1 \in Word
      BY <1>1, ImmModAssumption DEF Word, WordMod
    <2> QED
      BY <2>1, WrapOfWord
  <1>3. dma_cnt' = dma_cnt - Bit(DmaWrites)
    BY <1>1, <1>2 DEF Dma, Bit
  <1>4. Bit(DmaReads) + Bit(DmaWrites) = IF DmaEnable THEN 1 ELSE 0
    BY DEF DmaReads, DmaWrites, Bit
  <1>5. Bit(DmaReads) \in Int /\ Bit(DmaWrites) \in Int
    BY DEF Bit
  <1> QED
    BY <1>1, <1>3, <1>4, <1>5, InFlightTick

\* A clock that fails is not a clock.
LEMMA AbortFails ==
    ASSUME Abort
    PROVE  sim' # "running"
  BY DEF Abort, Verdict, DSRAM!Verdict, ISRAM!Verdict

\* Under the same condition no clock of a transfer passes for nothing: each one
\* that exec0 leaves to the DMA reads a word or writes one, for transfers of
\* any length and whatever the processor does meanwhile.
THEOREM TransferKeepsRate ==
    ASSUME AluClosed, Height \in Word
    PROVE  Spec /\ []PairKept => DmaRate
  <1> DEFINE Rate == dma_cnt > 0 /\ sim' = "running" =>
               (2 * dma_cnt - InFlight) - (2 * dma_cnt' - InFlight')
                   = IF DmaEnable THEN 1 ELSE 0
  <1>1. TypesInv /\ PairKept /\ [Next]_vars => [Rate]_vars
    <2> SUFFICES ASSUME TypesInv, PairKept, Next, sim' = "running", dma_cnt > 0
                 PROVE  (2 * dma_cnt - InFlight) - (2 * dma_cnt' - InFlight')
                            = IF DmaEnable THEN 1 ELSE 0
      OBVIOUS
    <2>1. Tick
      BY AbortFails DEF Next, Advance, Flush, Halt
    <2> QED
      BY <2>1, RateTick
  <1>2. TypesInv /\ [Next]_vars => TypesInv'
    BY TypesStep
  <1>3. Init => TypesInv
    BY TypesInit
  <1> QED
    BY <1>1, <1>2, <1>3, PTL DEF Spec, DmaRate
=============================================================================
