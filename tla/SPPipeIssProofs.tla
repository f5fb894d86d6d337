--------------------------- MODULE SPPipeIssProofs ---------------------------
(***************************************************************************)
(* The pipelined processor runs the programs that keep the rules of        *)
(* SPPipeRules as the instruction-set simulator does: it retires the same  *)
(* instructions in the same order, on the same registers and the same      *)
(* memory, and traces them in the same lines.  First of executions that    *)
(* keep the rules clock by clock, then of programs whose text keeps them.  *)
(***************************************************************************)
EXTENDS SPPipeIss, SPPipeRuleProofs

\* The history variables follow the processor and do not hinder it.
LEMMA HistoryOnly == IssPipeSpec => Spec
  <1>1. IssInit => Init
    BY DEF IssInit
  <1>2. [IssNext]_issvars => [Next]_vars
    BY DEF IssNext, issvars
  <1> QED
    BY <1>1, <1>2, PTL DEF IssPipeSpec, Spec

LEMMA HistoryCases ==
    ASSUME [IssNext]_issvars
    PROVE  \/ Moves /\ IssNext
           \/ Empties /\ IssNext
           \/ Rests /\ UNCHANGED <<due, committed>>
  <1>1. CASE UNCHANGED issvars
    BY <1>1 DEF issvars, vars, Rests
  <1>2. CASE IssNext
    <2>1. CASE Abort
      BY <1>2, <2>1 DEF IssNext, Abort, Completes, Rests
    <2>2. CASE ~Abort
      <3>1. Moves \/ Empties
        <4>1. CASE Flush \/ Halt
          BY <4>1 DEF Flush, Halt, Empties
        <4>2. CASE ~Flush /\ ~Halt
          BY <1>2, <2>2, <4>2 DEF IssNext, Next, Advance, Moves
        <4> QED
          BY <4>1, <4>2
      <3> QED
        BY <1>2, <3>1
    <2> QED
      BY <2>1, <2>2
  <1> QED
    BY <1>1, <1>2

-----------------------------------------------------------------------------
(***************************************************************************)
(* The order of the instructions.                                          *)
(***************************************************************************)
\* The nop of a stall stands at the address of the instruction that waited.
Nop(s) == s.inst = 0 /\ srami[s.pc] # 0

\* A stage, if it is not empty, holds the instruction at e, or the nop behind
\* the instruction before e.
Follows(s, e) == s.active => IF Nop(s) THEN s.pc + 1 = e ELSE s.pc = e

\* Where the program goes on behind a stage, as the predictor sees it.
After(s, e) ==
    IF ~s.active THEN e
    ELSE IF Opcode(s.inst) \in JumpOps /\ jtaken THEN Imm(s.inst) ELSE s.pc + 1

DueExec0 == After(exec1, due)
DueDec1  == After(exec0, DueExec0)
DueDec0  == After(dec1, DueDec1)

\* The instructions in the pipeline are those of the program from due on, as
\* far as the predictor is right, and so is what the front fetches next.
ChainInv ==
    /\ Follows(exec1, due)
    /\ sim = "running" =>
        /\ Follows(exec0, DueExec0)
        /\ Follows(dec1, DueDec1)
        /\ Follows(dec0, DueDec0)
        /\ ~dec0.active => (IF fetch1_active THEN fetch1_pc ELSE fetch0_pc) = DueDec0
        /\ bubble => dec0.inst # 0

OrderInv == FreshInv /\ FlowInv /\ ChainInv

LEMMA JumpInExec1 == IsJump(exec1) <=> Op1 \in JumpOps
  BY DEF IsJump, Op1, JumpOps

\* What retires, or leaves as a nop, is followed by what exec0 waits for.
LEMMA DueMoves ==
    ASSUME OrderInv, ZeroKept, Moves, IssNext
    PROVE  due' = DueExec0
  <1>1. sim = "running" /\ Verdict = "run" /\ ~Mispredicts /\ ~Halts
    BY DEF Moves, Tick
  <1>2. CASE ~exec1.active
    BY <1>2 DEF IssNext, Completes, Retires, DueExec0, After
  <1>3. CASE exec1.active /\ exec1.inst = 0
    <2>1. exec1.pc + 1 = due
      BY <1>1, <1>3 DEF OrderInv, ChainInv, Follows, Nop, ZeroKept
    <2>2. Opcode(exec1.inst) \notin JumpOps
      BY <1>3, NopFields DEF ADD, JumpOps
    <2> QED
      BY <1>3, <2>1, <2>2 DEF IssNext, Completes, Retires, DueExec0, After
  <1>4. CASE exec1.active /\ exec1.inst # 0
    <2>1. Completes /\ Op1 # HLT /\ Op1 = Opcode(exec1.inst)
      BY <1>1, <1>4 DEF Completes, Retires, Halts, Op1
    <2>2. Op1 \in JumpOps => (exec1.aluout # 0) = jtaken
      BY <1>1 DEF Mispredicts
    <2> QED
      BY <1>4, <2>1, <2>2 DEF IssNext, DueExec0, After
  <1> QED
    BY <1>2, <1>3, <1>4

LEMMA ChainMoves ==
    ASSUME OrderInv, JumpKept, ZeroKept, Moves, IssNext
    PROVE  ChainInv'
  <1>1. /\ sim = "running" /\ Tick /\ srami' = srami /\ jtaken' = jtaken
        /\ fetch1_pc' = NextFetch1Pc
        /\ exec0' = NextExec0 /\ exec1' = NextExec1
        /\ dec1' = IF Issues THEN dec0 ELSE Empty
    BY MemTypes, PredictionKept, Handed DEF Moves, Tick, OrderInv, FreshInv, TypesInv
  <1>2. /\ Follows(exec1, due) /\ Follows(exec0, DueExec0)
        /\ Follows(dec1, DueDec1) /\ Follows(dec0, DueDec0)
        /\ ~dec0.active => (IF fetch1_active THEN fetch1_pc ELSE fetch0_pc) = DueDec0
        /\ bubble => dec0.inst # 0
        /\ FrontTypes /\ FrontInStep /\ PlaceInv
    BY <1>1 DEF OrderInv, ChainInv, FlowInv, FrontInv
  <1>3. due' = DueExec0
    BY DueMoves
  <1>4. /\ exec1'.active <=> exec0.active
        /\ exec0.active => exec1'.pc = exec0.pc /\ exec1'.inst = exec0.inst
        /\ exec0'.active <=> dec1.active
        /\ dec1.active => exec0'.pc = dec1.pc /\ exec0'.inst = dec1.inst
    BY <1>1, <1>2 DEF NextExec0, NextExec1, Empty
  <1>5. Follows(exec1, due)' /\ DueExec0' = DueDec1
    BY <1>1, <1>2, <1>3, <1>4 DEF Follows, Nop, DueExec0, DueDec1, After
  <1>6. Follows(exec0, DueExec0)' /\ DueDec1' = DueDec0
    BY <1>1, <1>2, <1>4, <1>5 DEF Follows, Nop, DueDec1, DueDec0, After
  <1>7. Follows(dec1, DueDec1)'
    BY <1>1, <1>2, <1>6 DEF Follows, Nop, Empty
  <1>8. DueDec0' = IF ~Issues THEN DueDec0
                   ELSE IF Predicted THEN Imm(dec0.inst) ELSE dec0.pc + 1
    BY <1>1, <1>6 DEF DueDec0, After, Issues, Predicted, Empty
  <1>9. fetch1_active => Fetched.active /\ Fetched.pc = fetch1_pc /\ ~Nop(Fetched)
    BY DEF Fetched, Nop, OrderInv, FreshInv, PortFresh
  <1>10. CASE Fill
    <2>1. /\ DueDec0' = DueDec0 /\ start /\ ~Stalled
          /\ fetch1_active' = fetch0_active /\ fetch0_active' = TRUE
          /\ dec0' = IF fetch1_active THEN Fetched ELSE Empty
          /\ fetch0_pc' = FilledPc /\ ~bubble'
      BY <1>1, <1>2, <1>8, <1>10 DEF Fill, Issues, Stalled, PlaceInv, FrontInStep, FrontTypes
    <2>2. fetch1_active => Follows(dec0, DueDec0)' /\ dec0'.active
      BY <1>1, <1>2, <1>9, <1>10, <2>1 DEF Fill, Follows, Nop
    <2>3. ~fetch1_active => ~dec0'.active /\ fetch0_pc = DueDec0
      BY <1>2, <1>10, <2>1 DEF Fill, Empty
    <2>4. (IF fetch0_active THEN fetch1_pc' ELSE fetch0_pc') = fetch0_pc
      BY <1>1, <2>1 DEF NextFetch1Pc, FilledPc
    <2> QED
      BY <1>2, <1>5, <1>6, <1>7, <2>1, <2>2, <2>3, <2>4 DEF ChainInv, Follows, FrontTypes
  <1>11. CASE Stall
    <2>1. ~Issues /\ dec0' = dec0 /\ dec0.active
      BY <1>11 DEF Stall, Stalled, Issues
    <2>2. dec0.inst # 0
      <3>1. {Src0(dec0.inst), Src1(dec0.inst)} \cap r_busy # {} /\ 0 \notin r_busy
        BY <1>11 DEF Stall, Stalled, OrderInv, FreshInv, TypesInv, TypeOK
      <3> QED
        BY <3>1, NopFields
    <2> QED
      BY <1>1, <1>2, <1>5, <1>6, <1>7, <1>8, <2>1, <2>2 DEF ChainInv, Follows, Nop
  <1>12. CASE Release
    <2>1. Issues /\ bubble /\ ~Predicted /\ dec0.active /\ dec0.inst # 0
      BY <1>1, <1>2, <1>12 DEF Release, Issues, PlaceInv
    <2>2. /\ dec0' = [active |-> TRUE, inst |-> 0, pc |-> dec0.pc] /\ bubble' = FALSE
      BY <1>1, <1>2, <1>12, <2>1 DEF Release, FrontInStep
    <2>3. srami[dec0.pc] # 0
      BY <2>1 DEF OrderInv, FreshInv, WordAtPc
    <2>4. Follows(dec0, DueDec0)' /\ dec0'.active
      BY <1>1, <1>8, <2>1, <2>2, <2>3 DEF Follows, Nop
    <2> QED
      BY <1>5, <1>6, <1>7, <2>2, <2>4 DEF ChainInv
  <1>13. CASE Issue
    <2>1. /\ Issues /\ ~bubble /\ ~bubble' /\ fetch0_active /\ fetch1_active
          /\ fetch1_pc = dec0.pc + 1
      BY <1>1, <1>2, <1>13 DEF Issue, Issues, PlaceInv, FrontInStep
    <2>2. CASE Predicted
      <3>1. /\ dec0' = Empty /\ ~fetch1_active' /\ fetch0_pc' = Imm(dec0.inst)
        BY <1>13, <2>2 DEF Issue, Predicted
      <3>2. ~dec0'.active
        BY <3>1 DEF Empty
      <3> QED
        BY <1>5, <1>6, <1>7, <1>8, <2>1, <2>2, <3>1, <3>2 DEF ChainInv, Follows
    <2>3. CASE ~Predicted
      <3>1. dec0' = Fetched
        BY <1>13, <2>1, <2>3 DEF Issue
      <3>2. Follows(dec0, DueDec0)' /\ dec0'.active
        BY <1>1, <1>8, <1>9, <2>1, <2>3, <3>1 DEF Follows, Nop
      <3> QED
        BY <1>5, <1>6, <1>7, <2>1, <3>2 DEF ChainInv
    <2> QED
      BY <2>2, <2>3
  <1> QED
    BY <1>10, <1>11, <1>12, <1>13 DEF Moves

\* A flush begins again where the jump really goes.
LEMMA ChainFlush ==
    ASSUME Flush, IssNext
    PROVE  ChainInv'
  <1>1. Completes /\ Op1 # HLT
    <2>1. Op1 \in JumpOps /\ Verdict = "run"
      BY DEF Flush, Mispredicts, Tick
    <2>2. exec1.active /\ exec1.inst # 0 /\ Op1 # HLT
      BY <2>1, NopFields DEF Op1, JumpOps, ADD, HLT
    <2> QED
      BY <2>1, <2>2 DEF Completes, Retires
  <1>2. due' = fetch0_pc'
    BY <1>1 DEF IssNext, Flush, Mispredicts
  <1>3. /\ ~exec1'.active /\ ~exec0'.active /\ ~dec1'.active /\ ~dec0'.active
        /\ ~fetch1_active' /\ ~bubble'
    BY DEF Flush, Empty
  <1>4. DueDec0' = due'
    BY <1>3 DEF DueDec0, DueDec1, DueExec0, After
  <1> QED
    BY <1>2, <1>3, <1>4 DEF ChainInv, Follows

LEMMA OrderStep ==
    ASSUME OrderInv, AluClosed, Height \in Word, FillKept, JumpKept, ZeroKept,
           [IssNext]_issvars
    PROVE  OrderInv'
  <1>1. [Next]_vars
    BY DEF IssNext, issvars
  <1>2. FreshInv' /\ FlowInv'
    BY <1>1, FreshStep, FlowStep DEF OrderInv
  <1>3. ChainInv'
    <2>1. CASE Moves /\ IssNext
      BY <2>1, ChainMoves
    <2>2. CASE Empties /\ IssNext
      <3>1. CASE Flush
        BY <2>2, <3>1, ChainFlush
      <3>2. CASE Halt
        BY <3>2 DEF Halt, ChainInv, Follows, Empty
      <3> QED
        BY <2>2, <3>1, <3>2 DEF Empties
    <2>3. CASE Rests /\ UNCHANGED <<due, committed>>
      BY <2>3 DEF Rests, OrderInv, ChainInv, Follows, Nop, DueDec0, DueDec1, DueExec0, After,
                  front, back, mems
    <2> QED
      BY <2>1, <2>2, <2>3, HistoryCases
  <1> QED
    BY <1>2, <1>3 DEF OrderInv

LEMMA OrderInit ==
    ASSUME IssInit
    PROVE  OrderInv
  <1>1. ChainInv
    BY DEF IssInit, Init, ChainInv, Follows, DueDec0, DueDec1, DueExec0, After, Empty
  <1> QED
    BY <1>1, FreshInit, FlowInit DEF IssInit, OrderInv

LEMMA OrderAlways ==
    ASSUME AluClosed, Height \in Word
    PROVE  IssPipeSpec /\ []FillKept /\ []JumpKept /\ []ZeroKept => []OrderInv
  <1>1. OrderInv /\ FillKept /\ JumpKept /\ ZeroKept /\ [IssNext]_issvars => OrderInv'
    BY OrderStep
  <1> QED
    BY <1>1, OrderInit, PTL DEF IssPipeSpec

LEMMA OrderNow ==
    ASSUME OrderInv
    PROVE  RetireInOrder
  BY DEF OrderInv, ChainInv, Follows, Nop, RetireInOrder, Retires

\* Instructions retire in the order of the program, if nothing waits while the
\* pipeline fills, no jump waits that is predicted to be taken, and no zero
\* word is executed: no stall and no flush loses an instruction or repeats one.
THEOREM RetiresInOrder ==
    ASSUME AluClosed, Height \in Word
    PROVE  IssPipeSpec /\ []FillKept /\ []JumpKept /\ []ZeroKept => []RetireInOrder
  BY OrderAlways, OrderNow, PTL

-----------------------------------------------------------------------------
(***************************************************************************)
(* What the instructions do.                                               *)
(***************************************************************************)
\* The instruction in exec1 has its result; a load or a store has asked for an
\* address in the memory, and a store has written it already, one clock ahead
\* of the program.
EffectInv ==
    /\ exec1.active /\ Op1 \in AluOps \cup JumpOps =>
         exec1.aluout = Alu(Op1, exec1.alu0, exec1.alu1, Imm(exec1.inst))
    /\ sim = "running" =>
         /\ Op1 \notin {LHI, DMA, POL}
         /\ Op1 \in {LD, ST} => exec1.alu1 \in 0 .. Height - 1
         /\ committed \in [0 .. Height - 1 -> Word]
         /\ sramd = IF Op1 = ST THEN [committed EXCEPT ![exec1.alu1] = exec1.alu0]
                    ELSE committed
         /\ dma_cnt = 0 /\ ~dma_sample_active /\ ~dma_write_active

RunInv == OrderInv /\ OperandInv /\ PathInv /\ EffectInv

\* The engine rests, since no transfer is started.
LEMMA EngineRests ==
    ASSUME EffectInv, Tick, ~DmaStarts
    PROVE  /\ ~DmaReads /\ ~DmaWrites
           /\ dma_cnt' = 0 /\ ~dma_sample_active' /\ ~dma_write_active'
  <1>1. dma_cnt = 0 /\ ~dma_sample_active /\ ~dma_write_active /\ Dma
    BY DEF EffectInv, Tick
  <1>2. ~DmaWrites
    BY <1>1 DEF DmaWrites
  <1>3. ~DmaReads
    BY <1>1 DEF DmaReads
  <1>4. dma_cnt' = 0
    BY <1>1, <1>2 DEF Dma
  <1>5. dma_sample_active' = FALSE
    BY <1>1, <1>3 DEF Dma, DmaReads
  <1>6. ~dma_write_active'
    BY <1>1 DEF Dma
  <1> QED
    BY <1>2, <1>3, <1>4, <1>5, <1>6

\* Only a store in exec0 writes the memory.
LEMMA StoreServed ==
    ASSUME Tick, ~DmaWrites
    PROVE  sramd' = IF Op0 = ST THEN [sramd EXCEPT ![exec0.alu1] = exec0.alu0] ELSE sramd
  <1>1. DSRAM!Clock(DReads, DWrites) /\ ~DSRAM!Conflict(DReads, DWrites)
    BY DataRequestsNeverCollide DEF Tick
  <1>2. CASE Op0 = ST
    <2>1. DWrites = {[by |-> "store", addr |-> exec0.alu1, val |-> exec0.alu0]}
      BY <1>2 DEF DWrites
    <2>2. PICK w \in DWrites : sramd' = [sramd EXCEPT ![w.addr] = w.val]
      BY <1>1, <2>1 DEF DSRAM!Clock, DSRAM!Conflict
    <2>3. w.addr = exec0.alu1 /\ w.val = exec0.alu0
      BY <2>1
    <2> QED
      BY <1>2, <2>2, <2>3
  <1>3. CASE Op0 # ST
    <2>1. DWrites = {}
      BY <1>3 DEF DWrites
    <2> QED
      BY <1>1, <1>3, <2>1 DEF DSRAM!Clock
  <1> QED
    BY <1>2, <1>3

\* With the store in exec1 the program has caught up with the memory.
LEMMA Committed ==
    ASSUME EffectInv, Tick, IssNext
    PROVE  committed' = sramd
  <1>1. sim = "running" /\ Verdict = "run"
    BY DEF Tick
  <1>2. Op1 = ST => Completes
    <2>1. Op1 = ST => exec1.active /\ exec1.inst # 0
      BY NopFields DEF Op1, ST, ADD
    <2> QED
      BY <1>1, <2>1 DEF Completes, Retires
  <1> QED
    BY <1>1, <1>2 DEF IssNext, EffectInv

LEMMA AccessInside ==
    ASSUME TypeOK, Tick, Op0 \in {LD, ST}
    PROVE  exec0.alu1 \in 0 .. Height - 1
  <1>1. \A q \in DReads \cup DWrites : q.addr \in 0 .. Height - 1
    BY RequestsInMemory DEF Tick, InMemory
  <1>2. Op0 = LD => [by |-> "load", addr |-> exec0.alu1] \in DReads
    BY DEF DReads
  <1>3. Op0 = ST => [by |-> "store", addr |-> exec0.alu1, val |-> exec0.alu0] \in DWrites
    BY DEF DWrites
  <1> QED
    BY <1>1, <1>2, <1>3

LEMMA EffectMoves ==
    ASSUME EffectInv, TypesInv, CommonKept, Moves, IssNext
    PROVE  EffectInv'
  <1>1. /\ Tick /\ sim = "running" /\ ~Halts /\ exec1' = NextExec1
        /\ sramd \in [0 .. Height - 1 -> Word]
    BY DEF Moves, Tick, TypesInv, TypeOK
  <1>2. Op1' = Op0
    BY <1>1 DEF NextExec1, Op0, Op1, Empty
  <1>3. exec1'.active => /\ exec0.active /\ exec1'.inst = exec0.inst
                         /\ exec1'.alu0 = exec0.alu0 /\ exec1'.alu1 = exec0.alu1
                         /\ Op0 \in AluOps \cup JumpOps =>
                              exec1'.aluout = Alu(Op0, exec0.alu0, exec0.alu1, Imm(exec0.inst))
    BY <1>1 DEF NextExec1, Empty
  <1>4. Op0 \notin {LHI, DMA, POL}
    BY <1>1 DEF CommonKept, Op0, LHI, DMA, POL
  <1>5. ~DmaStarts
    BY <1>4 DEF DmaStarts
  <1>6. committed' = sramd
    BY <1>1, Committed
  <1>7. Op0 \in {LD, ST} => exec1'.alu1 = exec0.alu1 /\ exec1'.alu0 = exec0.alu0
    BY <1>1 DEF Op0, LD, ST, NextExec1
  <1>8. sramd' = IF Op1' = ST THEN [committed' EXCEPT ![exec1'.alu1] = exec1'.alu0]
                 ELSE committed'
    BY <1>1, <1>2, <1>5, <1>6, <1>7, EngineRests, StoreServed
  <1>9. Op1' \in {LD, ST} => exec1'.alu1 \in 0 .. Height - 1
    BY <1>1, <1>2, <1>7, AccessInside DEF TypesInv
  <1>10. dma_cnt' = 0 /\ ~dma_sample_active' /\ ~dma_write_active'
    BY <1>1, <1>5, EngineRests
  <1>11. (exec1.active /\ Op1 \in AluOps \cup JumpOps =>
           exec1.aluout = Alu(Op1, exec1.alu0, exec1.alu1, Imm(exec1.inst)))'
    BY <1>2, <1>3
  <1> QED
    BY <1>1, <1>2, <1>4, <1>6, <1>8, <1>9, <1>10, <1>11 DEF EffectInv

LEMMA EffectFlush ==
    ASSUME EffectInv, TypesInv, PathInv, Flush, IssNext
    PROVE  EffectInv'
  <1>1. /\ Tick /\ ~exec1'.active /\ Op1' = 0
        /\ sramd \in [0 .. Height - 1 -> Word]
    BY DEF Flush, Empty, Op1, TypesInv, TypeOK
  <1>2. Op0 # ST /\ ~DmaStarts
    <2>1. IsJump(exec1)
      BY JumpInExec1 DEF Flush, Mispredicts
    <2> QED
      BY <2>1 DEF PathInv, Effects, Op0, DmaStarts, ST
  <1>3. committed' = sramd /\ sramd' = sramd
    BY <1>1, <1>2, Committed, EngineRests, StoreServed
  <1> QED
    BY <1>1, <1>2, <1>3, EngineRests DEF EffectInv, ST, LD, LHI, DMA, POL

LEMMA RunStep ==
    ASSUME AluClosed, Height \in Word, Alu(ADD, 0, 0, 0) = 0, RunInv,
           FillKept, JumpKept, WriteKept, StoreKept, CommonKept, ZeroKept,
           [IssNext]_issvars
    PROVE  RunInv'
  <1>1. [Next]_vars
    BY DEF IssNext, issvars
  <1>2. OrderInv' /\ OperandInv' /\ PathInv'
    BY <1>1, OrderStep, OperandStep, PathStep DEF RunInv
  <1>3. EffectInv'
    <2>1. CASE Moves /\ IssNext
      BY <2>1, EffectMoves DEF RunInv, OperandInv
    <2>2. CASE Empties /\ IssNext
      <3>1. CASE Flush
        BY <2>2, <3>1, EffectFlush DEF RunInv, OperandInv
      <3>2. CASE Halt
        BY <3>2 DEF Halt, EffectInv, Empty
      <3> QED
        BY <2>2, <3>1, <3>2 DEF Empties
    <2>3. CASE Rests /\ UNCHANGED <<due, committed>>
      BY <2>3 DEF Rests, RunInv, EffectInv, Op1, back, dma, mems
    <2> QED
      BY <2>1, <2>2, <2>3, HistoryCases
  <1> QED
    BY <1>2, <1>3 DEF RunInv

LEMMA RunInit ==
    ASSUME IssInit
    PROVE  RunInv
  <1>1. Init /\ due = 0 /\ committed = sramd
    BY DEF IssInit
  <1>2. OperandInv
    <2>1. R0Inv
      BY <1>1 DEF Init, R0Inv, Empty, RegId
    <2>2. ScoreInv
      BY <1>1 DEF Init, ScoreInv, Out, IsJump, Empty
    <2> QED
      BY <1>1, <2>1, <2>2, TypesInit DEF OperandInv
  <1>3. PathInv
    BY <1>1 DEF Init, PathInv, IsJump, Empty
  <1>4. EffectInv
    <2>1. committed \in [0 .. Height - 1 -> Word]
      BY <1>1, PipeAssumption DEF Init
    <2>2. ~exec1.active /\ Op1 = 0
      BY <1>1 DEF Init, Op1, Empty
    <2> QED
      BY <1>1, <2>1, <2>2 DEF Init, EffectInv, ST, LD, LHI, DMA, POL
  <1> QED
    BY <1>2, <1>3, <1>4, OrderInit DEF RunInv

-----------------------------------------------------------------------------
(***************************************************************************)
(* What the instruction-set simulator sees.                                *)
(***************************************************************************)
\* SPIss reads words and fields as SPPipe does.
LEMMA SameFields ==
    /\ \A i : /\ Iss!Opcode(i) = Opcode(i) /\ Iss!Dst(i) = Dst(i) /\ Iss!Imm(i) = Imm(i)
              /\ Iss!Src0(i) = Src0(i) /\ Iss!Src1(i) = Src1(i)
    /\ \A rf, s, imm : Iss!Operand(rf, s, imm) = Operand(rf, s, imm)
    /\ Iss!AluOps = AluOps /\ Iss!JumpOps = JumpOps /\ Iss!Opcodes = Opcodes
    /\ Iss!LHI = LHI /\ Iss!LD = LD /\ Iss!ST = ST /\ Iss!DMA = DMA /\ Iss!POL = POL
    /\ Iss!HLT = HLT
  <1>1. /\ Iss!AluOps = AluOps /\ Iss!JumpOps = JumpOps /\ Iss!LHI = LHI
        /\ Iss!LD = LD /\ Iss!ST = ST /\ Iss!DMA = DMA /\ Iss!POL = POL /\ Iss!HLT = HLT
    BY DEF Iss!AluOps, AluOps, Iss!JumpOps, JumpOps, Iss!LHI, LHI, Iss!LD, LD, Iss!ST, ST,
           Iss!DMA, DMA, Iss!POL, POL, Iss!HLT, HLT
  <1>2. Iss!Opcodes = Opcodes
    BY <1>1 DEF Iss!Opcodes, Opcodes
  <1>3. \A i : /\ Iss!Opcode(i) = Opcode(i) /\ Iss!Dst(i) = Dst(i) /\ Iss!Imm(i) = Imm(i)
               /\ Iss!Src0(i) = Src0(i) /\ Iss!Src1(i) = Src1(i)
    BY DEF Iss!Opcode, Opcode, Iss!Dst, Dst, Iss!Imm, Imm, Iss!Src0, Src0, Iss!Src1, Src1
  <1>4. \A rf, s, imm : Iss!Operand(rf, s, imm) = Operand(rf, s, imm)
    BY DEF Iss!Operand, Operand
  <1> QED
    BY <1>1, <1>2, <1>3, <1>4

LEMMA SameDecode == \A m, h : Iss!Decode(m, h) = Decode(m, h)
  BY SameFields DEF Iss!Decode, Decode

\* The registers without register 1, where dec1 latches its immediate.
Reg == [r EXCEPT ![1] = 0]

\* The instruction that retires is the one that the simulator has decoded at
\* its pc.
LEMMA InstSeen ==
    ASSUME OrderInv, Retires, FirstHaltKept
    PROVE  /\ Iss!inst = exec1.inst /\ Iss!op = Op1 /\ Op1 = Opcode(exec1.inst)
           /\ due = exec1.pc /\ due \in Iss!Address /\ exec1.inst \in Word
  <1>1. due = exec1.pc /\ exec1.active /\ exec1.inst # 0
    BY OrderNow DEF RetireInOrder, Retires
  <1>2. exec1.pc \in 0 .. Height - 1 /\ exec1.inst = srami[exec1.pc] /\ exec1.inst \in Word
    BY <1>1, StageWords DEF OrderInv, FreshInv, TypesInv, PcInv, InMemory, WordAtPc
  <1>3. ~ \E h \in 0 .. exec1.pc - 1 : Opcode(srami[h]) = HLT
    BY DEF FirstHaltKept
  <1>4. Decode(srami, Height)[due] = exec1.inst
    BY <1>1, <1>2, <1>3 DEF Decode
  <1> QED
    BY <1>1, <1>2, <1>4, SameFields DEF Iss!inst, Iss!op, Iss!Address, Op1

\* Its operands are those that the simulator computes with.
LEMMA ValuesSeen ==
    ASSUME RunInv, Retires, FirstHaltKept, Op1 # LHI
    PROVE  Iss!a = exec1.alu0 /\ Iss!b = exec1.alu1
  <1> DEFINE i == exec1.inst
  <1>1. Iss!inst = i /\ Op1 = Opcode(i) /\ i \in Word
    BY InstSeen DEF RunInv
  <1>2. exec1.alu0 = Operand0(r, i) /\ exec1.alu1 = Operand1(r, i)
    BY DEF RunInv, OperandInv, ScoreInv, Reads, Retires
  <1>3. Src0(i) \in RegId /\ Src1(i) \in RegId
    BY <1>1, FieldRanges
  <1>4. \A s \in RegId : Operand(Reg, s, Imm(i)) = Operand(r, s, Imm(i))
    <2>1. DOMAIN r = RegId
      BY DEF RunInv, OperandInv, R0Inv
    <2> QED
      BY <2>1 DEF Reg, Operand, RegId
  <1>5. /\ Iss!a = Operand(Reg, Src0(i), Imm(i))
        /\ Iss!b = Operand(Reg, Src1(i), Imm(i))
    BY <1>1, SameFields DEF Iss!a, Iss!b, Reg
  <1> QED
    BY <1>1, <1>2, <1>3, <1>4, <1>5 DEF Operand0, Operand1

\* Latching an immediate is not seen, and a write is seen unless it is to
\* register 1.
LEMMA PutSeen ==
    ASSUME NEW f \in [RegId -> Word], NEW g \in [RegId -> Word], NEW d \in RegId, NEW v,
           \A s \in RegId \ {1} : g[s] = f[s]
    PROVE  /\ [g EXCEPT ![1] = 0] = [f EXCEPT ![1] = 0]
           /\ [[g EXCEPT ![d] = v] EXCEPT ![1] = 0] =
              IF d = 1 THEN [f EXCEPT ![1] = 0] ELSE [[f EXCEPT ![1] = 0] EXCEPT ![d] = v]
  BY DEF RegId

\* The registers that the simulator sees after a clock.
LEMMA RegsSeen ==
    ASSUME TypesInv, Tick
    PROVE  /\ ~(exec1.active /\ Op1 \in Writers) /\ ~(Op1 \in JumpOps /\ exec1.aluout # 0)
                => Reg' = Reg
           /\ exec1.active /\ Op1 \in AluOps => Reg' = Iss!Put(Dst(exec1.inst), exec1.aluout)
           /\ exec1.active /\ Op1 = LD => Reg' = Iss!Put(Dst(exec1.inst), ddataout)
           /\ Op1 \in JumpOps /\ exec1.aluout # 0 => Reg' = Iss!Put(7, exec1.pc)
  <1> DEFINE rd == IF dec1.active THEN [r EXCEPT ![1] = Imm(dec1.inst)] ELSE r
             d  == Dst(exec1.inst)
  <1>1. r' = NextR /\ r \in [RegId -> Word]
    BY DEF Tick, TypesInv, TypeOK
  <1>2. rd \in [RegId -> Word] /\ \A s \in RegId \ {1} : rd[s] = r[s]
    <2>1. dec1.active => Imm(dec1.inst) \in Word
      BY StageWords, FieldRanges, SmallWords DEF TypesInv
    <2> QED
      BY <1>1, <2>1
  <1>3. exec1.active => d \in RegId
    BY StageWords, FieldRanges DEF TypesInv
  <1>4. ASSUME NEW e \in RegId, NEW v, NextR = [rd EXCEPT ![e] = v]
        PROVE  Reg' = Iss!Put(e, v)
    <2>1. [[rd EXCEPT ![e] = v] EXCEPT ![1] = 0] =
          IF e = 1 THEN [r EXCEPT ![1] = 0] ELSE [[r EXCEPT ![1] = 0] EXCEPT ![e] = v]
      BY <1>1, <1>2, PutSeen
    <2> QED
      BY <1>1, <1>4, <2>1 DEF Reg, Iss!Put
  <1>5. NextR = rd => Reg' = Reg
    <2>1. [rd EXCEPT ![1] = 0] = [r EXCEPT ![1] = 0]
      BY <1>1, <1>2, PutSeen DEF RegId
    <2> QED
      BY <1>1, <2>1 DEF Reg
  <1>6. ~(exec1.active /\ Op1 \in Writers) /\ ~(Op1 \in JumpOps /\ exec1.aluout # 0)
          => NextR = rd
    BY DEF NextR, Writers
  <1>7. exec1.active /\ Op1 \in AluOps => NextR = [rd EXCEPT ![d] = exec1.aluout]
    BY DEF NextR
  <1>8. exec1.active /\ Op1 = LD => NextR = [rd EXCEPT ![d] = ddataout]
    BY DEF NextR, AluOps, LD
  <1>9. Op1 \in JumpOps /\ exec1.aluout # 0 => NextR = [rd EXCEPT ![7] = exec1.pc]
    BY DEF NextR, Op1, AluOps, LD, POL, JumpOps
  <1> QED
    BY <1>3, <1>4, <1>5, <1>6, <1>7, <1>8, <1>9 DEF RegId

-----------------------------------------------------------------------------
(***************************************************************************)
(* A clock of the pipeline is a step of the simulator or none.             *)
(***************************************************************************)
\* What every clock with a retiring instruction gives to its step.
Retiring ==
    /\ SpWords /\ SignsKept
    /\ RunInv /\ FirstHaltKept
    /\ Completes /\ Tick /\ IssNext
    /\ sim' = sim \/ Halts

LEMMA RetiringFacts ==
    ASSUME Retiring
    PROVE  /\ Iss!Running /\ Iss!inst = exec1.inst /\ Iss!op = Op1 /\ due = exec1.pc
           /\ Iss!a = exec1.alu0 /\ Iss!b = exec1.alu1
           /\ exec1.active /\ Op1 = Opcode(exec1.inst) /\ Op1 \notin {LHI, DMA, POL}
           /\ Op1 # ST => committed' = committed /\ committed = sramd
           /\ srami' = srami /\ sim = "running"
           /\ dump' = dump => Dumped' = Dumped
  <1>1. sim = "running" /\ TypesInv /\ EffectInv /\ OrderInv /\ Retires
    BY DEF Retiring, Tick, RunInv, OperandInv, Completes
  <1>2. Op1 \notin {LHI, DMA, POL} /\ (Op1 # ST => committed = sramd)
    BY <1>1 DEF EffectInv
  <1>3. Iss!inst = exec1.inst /\ Iss!op = Op1 /\ Op1 = Opcode(exec1.inst)
        /\ due = exec1.pc /\ due \in Iss!Address
    BY <1>1, InstSeen DEF Retiring
  <1>4. Iss!a = exec1.alu0 /\ Iss!b = exec1.alu1
    BY <1>1, <1>2, ValuesSeen DEF Retiring
  <1>5. srami' = srami
    BY <1>1, MemTypes DEF Retiring, TypesInv
  <1>6. Op1 # ST => committed' = committed
    BY DEF Retiring, IssNext
  <1>7. Iss!Running
    BY <1>1, <1>3 DEF Iss!Running
  <1>8. dump' = dump => Dumped' = Dumped
    BY <1>5 DEF Dumped
  <1> QED
    BY <1>1, <1>2, <1>3, <1>4, <1>5, <1>6, <1>7, <1>8 DEF Retires

\* Its result is that of the unsigned ALU, too.
LEMMA ResultSeen ==
    ASSUME Retiring, Op1 \in AluOps \cup JumpOps
    PROVE  exec1.aluout = IssAlu(Op1, exec1.alu0, exec1.alu1, Imm(exec1.inst))
  <1> DEFINE imm == Imm(exec1.inst)
  <1>1. /\ exec1.alu0 \in Word /\ exec1.alu1 \in Word /\ imm \in Immediate
        /\ Op1 # LHI /\ exec1.active
    BY RetiringFacts, StageWords, FieldRanges DEF Retiring, RunInv, OperandInv, TypesInv
  <1>2. SignBlind(Op1, exec1.alu0, exec1.alu1)
    BY DEF Retiring, SignsKept
  <1>3. ~(Op1 = RSF /\ exec1.alu0 < 0)
    <2>1. exec1.alu0 \in Int
      BY <1>1, SmallWords
    <2>2. Op1 = RSF => exec1.alu0 >= 0
      BY <1>2 DEF SignBlind, RSF
    <2> QED
      BY <2>1, <2>2
  <1>4. ~(Op1 \in {JLT, JLE} /\ (exec1.alu0 < 0) # (exec1.alu1 < 0))
    BY <1>2 DEF SignBlind, JLT, JLE
  <1>5. SpAlu(Op1, exec1.alu0, exec1.alu1, imm) = IssAlu(Op1, exec1.alu0, exec1.alu1, imm)
    BY <1>1, <1>3, <1>4, SpComputesAsIss DEF Retiring, SpWords
  <1>6. exec1.aluout = Alu(Op1, exec1.alu0, exec1.alu1, imm)
    BY <1>1 DEF Retiring, RunInv, EffectInv
  <1> QED
    BY ONLY <1>5, <1>6, Retiring DEF Retiring, SpWords, IsSpAlu

LEMMA ComputeSeen ==
    ASSUME Retiring, Op1 \in AluOps, dump' = dump
    PROVE  Iss!Compute
  <1>1. Reg' = Iss!Put(Dst(exec1.inst), exec1.aluout)
    BY RetiringFacts, RegsSeen DEF Retiring, RunInv, OperandInv
  <1>2. exec1.aluout = IssAlu(Op1, exec1.alu0, exec1.alu1, Imm(exec1.inst))
    BY ResultSeen
  <1>3. Op1 \notin JumpOps /\ Op1 # HLT /\ Op1 # ST
    BY DEF AluOps, JumpOps, HLT, ST
  <1>4. due' = due + 1
    BY <1>3, RetiringFacts DEF Retiring, IssNext
  <1>5. sim' = sim
    BY <1>3 DEF Retiring, Halts
  <1> QED
    BY <1>1, <1>2, <1>3, <1>4, <1>5, RetiringFacts, SameFields DEF Iss!Compute, Reg

LEMMA LoadSeen ==
    ASSUME Retiring, Op1 = LD, dump' = dump
    PROVE  Iss!Load
  <1>1. Reg' = Iss!Put(Dst(exec1.inst), ddataout)
    BY RetiringFacts, RegsSeen DEF Retiring, RunInv, OperandInv
  <1>2. ddataout = sramd[exec1.alu1]
    BY DEF Retiring, RunInv, OrderInv, FreshInv, PortFresh
  <1>3. Op1 \notin JumpOps /\ Op1 # HLT /\ Op1 # ST
    BY DEF LD, JumpOps, HLT, ST
  <1>4. exec1.alu1 \in Iss!Address
    BY RetiringFacts DEF Retiring, RunInv, EffectInv, Iss!Address
  <1>5. due' = due + 1
    BY <1>3, RetiringFacts DEF Retiring, IssNext
  <1>6. sim' = sim
    BY <1>3 DEF Retiring, Halts
  <1> QED
    BY <1>1, <1>2, <1>3, <1>4, <1>5, <1>6, RetiringFacts, SameFields DEF Iss!Load, Reg

LEMMA StoreSeen ==
    ASSUME Retiring, Op1 = ST, dump' = dump
    PROVE  Iss!Store
  <1>1. Op1 \notin JumpOps /\ Op1 # HLT /\ Op1 \notin Writers
    BY DEF ST, JumpOps, HLT, Writers, AluOps, LD, POL
  <1>2. Reg' = Reg
    BY <1>1, RegsSeen DEF Retiring, RunInv, OperandInv
  <1>3. committed' = [committed EXCEPT ![exec1.alu1] = exec1.alu0]
    BY DEF Retiring, IssNext
  <1>4. exec1.alu1 \in Iss!Address
    BY RetiringFacts DEF Retiring, RunInv, EffectInv, Iss!Address
  <1>5. due' = due + 1
    BY <1>1, RetiringFacts DEF Retiring, IssNext
  <1>6. sim' = sim
    BY <1>1 DEF Retiring, Halts
  <1> QED
    BY <1>2, <1>3, <1>4, <1>5, <1>6, RetiringFacts, SameFields DEF Iss!Store, Reg

LEMMA JumpSeen ==
    ASSUME Retiring, Op1 \in JumpOps, dump' = dump
    PROVE  Iss!Jump
  <1>1. Op1 # HLT /\ Op1 # ST /\ Op1 \notin Writers
    BY DEF ST, JumpOps, HLT, Writers, AluOps, LD, POL
  <1>2. exec1.aluout = IssAlu(Op1, exec1.alu0, exec1.alu1, Imm(exec1.inst))
    BY ResultSeen
  <1>3. IF exec1.aluout # 0 THEN Reg' = Iss!Put(7, due) /\ due' = Imm(exec1.inst)
                            ELSE Reg' = Reg /\ due' = due + 1
    <2>1. due' = IF exec1.aluout # 0 THEN Imm(exec1.inst) ELSE due + 1
      BY <1>1, RetiringFacts DEF Retiring, IssNext
    <2>2. IF exec1.aluout # 0 THEN Reg' = Iss!Put(7, due) ELSE Reg' = Reg
      BY <1>1, RetiringFacts, RegsSeen DEF Retiring, RunInv, OperandInv
    <2> QED
      BY <2>1, <2>2
  <1>4. sim' = sim
    BY <1>1 DEF Retiring, Halts
  <1> QED
    BY <1>1, <1>2, <1>3, <1>4, RetiringFacts, SameFields DEF Iss!Jump, Reg

LEMMA UnknownSeen ==
    ASSUME Retiring, Op1 \notin Opcodes, dump' = dump
    PROVE  Iss!Unknown
  <1>1. Op1 \notin JumpOps /\ Op1 # HLT /\ Op1 # ST /\ Op1 \notin Writers
    BY DEF Opcodes, Writers
  <1>2. Reg' = Reg
    BY <1>1, RegsSeen DEF Retiring, RunInv, OperandInv
  <1>3. due' = due + 1
    BY <1>1, RetiringFacts DEF Retiring, IssNext
  <1>4. sim' = sim
    BY <1>1 DEF Retiring, Halts
  <1> QED
    BY <1>1, <1>2, <1>3, <1>4, RetiringFacts, SameFields DEF Iss!Unknown, Reg

LEMMA HaltSeen ==
    ASSUME Retiring, Halt
    PROVE  Iss!Halt
  <1>1. Op1 = HLT /\ dump' = sramd /\ sim' = "stopped"
    BY DEF Halt, Halts
  <1>2. Op1 \notin JumpOps /\ Op1 # ST /\ Op1 \notin Writers
    BY <1>1 DEF HLT, JumpOps, ST, Writers, AluOps, LD, POL
  <1>3. Reg' = Reg
    BY <1>2, RegsSeen DEF Retiring, RunInv, OperandInv
  <1>4. due' = due
    BY <1>1 DEF Retiring, IssNext
  <1>5. Dumped' = [p \in 0 .. Loaded(srami) - 1 |-> committed[p]]
    <2>1. sramd = committed /\ srami' = srami
      BY <1>2, RetiringFacts
    <2>2. sramd # <<>>
      <3>1. DOMAIN sramd = 0 .. Height - 1
        BY DEF Retiring, RunInv, OperandInv, TypesInv, TypeOK
      <3>2. 0 \in DOMAIN sramd
        BY <3>1, PipeAssumption
      <3>3. DOMAIN << >> = {}
        OBVIOUS
      <3> QED
        BY <3>2, <3>3
    <2> QED
      BY <1>1, <2>1, <2>2 DEF Dumped
  <1> QED
    BY <1>1, <1>2, <1>3, <1>4, <1>5, RetiringFacts, SameFields DEF Iss!Halt, Reg

LEMMA RetiringStep ==
    ASSUME Retiring, Halt \/ (~Halts /\ dump' = dump)
    PROVE  Iss!Next
  <1>1. UNCHANGED <<Decode(srami, Height), Loaded(srami)>>
    BY RetiringFacts DEF Decode
  <1>2. Iss!Compute \/ Iss!Load \/ Iss!Store \/ Iss!Jump \/ Iss!Unknown \/ Iss!Halt
    <2>1. CASE Halt
      BY <2>1, HaltSeen
    <2>2. CASE ~Halts /\ dump' = dump
      <3>1. \/ Op1 \in AluOps \/ Op1 = LD \/ Op1 = ST \/ Op1 \in JumpOps
            \/ Op1 \notin Opcodes
        BY <2>2, RetiringFacts DEF Opcodes, Halts
      <3> QED
        BY <2>2, <3>1, ComputeSeen, LoadSeen, StoreSeen, JumpSeen, UnknownSeen
    <2> QED
      BY <2>1, <2>2
  <1> QED
    BY <1>1, <1>2, RetiringFacts DEF Iss!Next

LEMMA IssStep ==
    ASSUME SpWords, SignsKept, RunInv, ZeroKept, FirstHaltKept, EndKept, [IssNext]_issvars
    PROVE  [Iss!Next]_(Iss!vars)
  <1>1. CASE UNCHANGED issvars
    BY <1>1 DEF issvars, vars, back, mems, Iss!vars, Decode, Dumped
  <1>2. CASE IssNext /\ Abort
    <2>1. Verdict # "run" /\ sim = "running" /\ sim' # "stopped"
      BY <1>2 DEF Abort, Verdict, DSRAM!Verdict, ISRAM!Verdict
    <2>2. dump' = dump
      BY <1>2, <2>1 DEF Abort, EndKept
    <2>3. due' = due /\ committed' = committed
      BY <1>2, <2>1 DEF IssNext, Completes
    <2>4. r' = r /\ srami' = srami
      BY <1>2 DEF Abort, back, mems
    <2>5. Dumped' = Dumped
      BY <2>2, <2>4 DEF Dumped
    <2> QED
      BY <2>1, <2>2, <2>3, <2>4, <2>5 DEF Iss!vars, Decode
  <1>3. CASE IssNext /\ ~Abort
    <2>1. Tick /\ sim = "running" /\ Verdict = "run"
      BY <1>3 DEF IssNext, Next, Advance, Flush, Halt, Tick
    <2>2. Halt \/ (~Halts /\ dump' = dump /\ sim' = sim)
      <3>1. Mispredicts => ~Halts
        BY DEF Mispredicts, Halts, JumpOps, HLT
      <3> QED
        BY <1>3, <3>1 DEF IssNext, Next, Advance, Flush
    <2>3. CASE Retires
      <3>1. Retiring
        BY <1>3, <2>1, <2>2, <2>3 DEF Retiring, Completes, Halt
      <3> QED
        BY <2>2, <3>1, RetiringStep
    <2>4. CASE ~Retires
      <3>1. Op1 = ADD
        BY <2>4, NopFields DEF Retires, Op1, ADD
      <3>2. ~Halts /\ dump' = dump /\ sim' = sim
        BY <2>2, <3>1 DEF Halt, Halts, ADD, HLT
      <3>3. due' = due /\ committed' = committed
        BY <1>3, <2>4 DEF IssNext, Completes
      <3>4. srami' = srami
        BY <2>1, MemTypes DEF RunInv, OperandInv, TypesInv
      <3>5. Reg' = Reg
        <4>1. CASE ~exec1.active
          BY <2>1, <3>1, <4>1, RegsSeen DEF ADD, JumpOps, RunInv, OperandInv
        <4>2. CASE exec1.active
          <5>1. Dst(exec1.inst) = 0 /\ exec1.aluout = 0
            BY <2>4, <4>2, NopFields DEF Retires, RunInv, OperandInv, R0Inv
          <5>2. Reg' = Iss!Put(0, 0)
            BY <2>1, <3>1, <4>2, <5>1, RegsSeen DEF ADD, AluOps, RunInv, OperandInv
          <5>3. r[0] = 0 /\ r \in [RegId -> Word]
            BY DEF RunInv, OperandInv, R0Inv, TypesInv, TypeOK
          <5> QED
            BY <5>2, <5>3 DEF Iss!Put, Reg, RegId
        <4> QED
          BY <4>1, <4>2
      <3>6. Dumped' = Dumped
        BY <3>2, <3>4 DEF Dumped
      <3> QED
        BY <3>2, <3>3, <3>4, <3>5, <3>6 DEF Iss!vars, Decode, Reg
    <2> QED
      BY <2>3, <2>4
  <1> QED
    BY <1>1, <1>2, <1>3

LEMMA IssInitSeen ==
    ASSUME IssInit
    PROVE  Iss!Init
  <1>1. Init /\ due = 0 /\ committed = srami
    BY DEF IssInit, Init
  <1>2. [r EXCEPT ![1] = 0] = [i \in Iss!RegId |-> 0]
    BY <1>1 DEF Init, RegId, Iss!RegId
  <1>3. committed \in [Iss!Address -> Iss!Word]
    BY <1>1, PipeAssumption DEF Init, Iss!Address, Iss!Word, Word, Iss!WordMod, WordMod
  <1>4. /\ Loaded(srami) \in 0 .. Height
        /\ \A p \in Loaded(srami) .. Height - 1 : committed[p] = 0
    BY <1>1, LoadedAssumption DEF Init
  <1>5. Dumped = <<>>
    BY <1>1 DEF Init, Dumped
  <1> QED
    BY <1>1, <1>2, <1>3, <1>4, <1>5, SameDecode DEF Init, Iss!Init

LEMMA RunAlways ==
    ASSUME AluClosed, Height \in Word, Alu(ADD, 0, 0, 0) = 0
    PROVE  IssPipeSpec /\ []Kept => []RunInv
  <1>1. RunInv /\ Kept /\ [IssNext]_issvars => RunInv'
    BY RunStep DEF Kept, CommonRulesKept
  <1> QED
    BY <1>1, RunInit, PTL DEF IssPipeSpec

\* A run that keeps the rules is, instruction by instruction, a run of the
\* instruction-set simulator, whose operands are unsigned: what the pipeline
\* retires, whatever it stalls, predicts and throws away, are the simulator's
\* instructions in its order, on its registers and its memory, up to a dump of
\* the same words, or up to the first instruction to which a sign matters.
THEOREM PipeImplementsIss ==
    ASSUME SpWords, Height \in Word
    PROVE  IssPipeSpec /\ []Kept => IssAgrees
  <1>0. AluClosed /\ Alu(ADD, 0, 0, 0) = 0
    BY SpAluFits DEF SpWords
  <1>1. RunInv /\ Kept /\ [IssNext]_issvars
          => [alike' => Iss!Next \/ UNCHANGED Iss!vars]_issvars
    <2> SUFFICES ASSUME RunInv, Kept, IssNext, alike'
                 PROVE  [Iss!Next]_(Iss!vars)
      OBVIOUS
    <2>1. SignsKept
      BY DEF IssNext
    <2> QED
      BY <2>1, IssStep DEF Kept, CommonRulesKept
  <1> QED
    BY <1>0, <1>1, IssInitSeen, RunAlways, PTL DEF IssPipeSpec, IssAgrees

\* It is one to the end, if a sign never matters.
THEOREM AlikeImplementsIss ==
    ASSUME SpWords, Height \in Word
    PROVE  IssPipeSpec /\ []Kept /\ []SignsKept => IssSpec /\ [](alike = TRUE)
  <1>0. AluClosed /\ Alu(ADD, 0, 0, 0) = 0
    BY SpAluFits DEF SpWords
  <1>1. RunInv /\ Kept /\ SignsKept /\ [IssNext]_issvars => [Iss!Next]_(Iss!vars)
    BY IssStep DEF Kept, CommonRulesKept
  <1>2. alike = TRUE /\ SignsKept /\ [IssNext]_issvars => (alike = TRUE)'
    BY DEF IssNext, issvars
  <1>3. IssInit => alike = TRUE
    BY DEF IssInit
  <1> QED
    BY <1>0, <1>1, <1>2, <1>3, IssInitSeen, RunAlways, PTL DEF IssPipeSpec, IssSpec, Iss!Spec

-----------------------------------------------------------------------------
(***************************************************************************)
(* The traces.                                                             *)
(***************************************************************************)
LEMMA SameRegs == ASSUME NEW v PROVE [Reg EXCEPT ![1] = v] = [r EXCEPT ![1] = v]
  BY DEF Reg

\* What is written is there after the clock, and what is not is as before.
LEMMA RegsAfter ==
    ASSUME Retiring
    PROVE  /\ Op1 \in AluOps => r'[Dst(exec1.inst)] = exec1.aluout
           /\ Op1 = LD => /\ r'[Dst(exec1.inst)] = ddataout
                          /\ \A s \in RegId \ {1, Dst(exec1.inst)} : r'[s] = r[s]
  <1> DEFINE rd == IF dec1.active THEN [r EXCEPT ![1] = Imm(dec1.inst)] ELSE r
             d  == Dst(exec1.inst)
  <1>1. r' = NextR /\ DOMAIN r = RegId /\ exec1.active
    BY RetiringFacts DEF Retiring, Tick, RunInv, OperandInv, R0Inv
  <1>2. d \in RegId
    BY <1>1, StageWords, FieldRanges DEF Retiring, RunInv, OperandInv, TypesInv
  <1>3. DOMAIN rd = RegId /\ \A s \in RegId \ {1} : rd[s] = r[s]
    BY <1>1
  <1>4. Op1 \in AluOps => NextR = [rd EXCEPT ![d] = exec1.aluout]
    BY <1>1 DEF NextR
  <1>5. Op1 = LD => NextR = [rd EXCEPT ![d] = ddataout]
    BY <1>1 DEF NextR, AluOps, LD
  <1> QED
    BY <1>1, <1>2, <1>3, <1>4, <1>5

\* The line of HLT goes back from the instruction behind it.
LEMMA HaltLine ==
    ASSUME Retiring, Op1 = HLT, HaltLineKept
    PROVE  (IF exec0.active THEN exec0.pc ELSE exec1.pc) - 1 = due'
  <1>1. exec0.active /\ exec0.pc # exec1.pc
    BY DEF HaltLineKept, Halts
  <1>2. due' = due /\ due = exec1.pc /\ exec1.active /\ Opcode(exec1.inst) = HLT
    BY RetiringFacts DEF Retiring, IssNext
  <1>3. exec0.pc \in Int /\ exec1.pc \in Int
    BY <1>1, <1>2 DEF Retiring, RunInv, OperandInv, TypesInv, PcInv, InMemory
  <1>4. DueExec0 = exec1.pc + 1
    BY <1>2 DEF DueExec0, After, JumpOps, HLT
  <1>5. Follows(exec0, DueExec0)
    BY RetiringFacts DEF Retiring, RunInv, OrderInv, ChainInv
  <1> QED
    BY <1>1, <1>2, <1>3, <1>4, <1>5 DEF Follows

LEMMA TraceStep ==
    ASSUME Retiring, HaltLineKept, Op1 = LD => Src1(exec1.inst) # Dst(exec1.inst)
    PROVE  TraceLine = Iss!TraceLine
  <1> DEFINE i == exec1.inst
             Line(e) == [pc |-> exec1.pc, inst |-> i, regs |-> [r EXCEPT ![1] = Imm(i)],
                         exec |-> e]
  <1>1. /\ Iss!inst = i /\ Iss!op = Op1 /\ due = exec1.pc
        /\ Iss!a = exec1.alu0 /\ Iss!b = exec1.alu1
        /\ Op1 \notin {LHI, DMA, POL} /\ exec1.active
    BY RetiringFacts
  <1>2. [Reg EXCEPT ![1] = Iss!Imm(Iss!inst)] = [r EXCEPT ![1] = Imm(i)]
    BY <1>1, SameRegs, SameFields
  <1>3. CASE Op1 \in AluOps
    <2>1. /\ r'[Dst(i)] = exec1.aluout
          /\ exec1.aluout = IssAlu(Op1, exec1.alu0, exec1.alu1, Imm(i))
      BY <1>3, RegsAfter, ResultSeen
    <2>2. TraceLine = Line(<<Dst(i), exec1.aluout>>)
      BY <1>3, <2>1 DEF TraceLine
    <2>3. Iss!TraceLine = Line(<<Dst(i), exec1.aluout>>)
      BY <1>1, <1>2, <1>3, <2>1, SameFields DEF Iss!TraceLine, Reg
    <2> QED
      BY <2>2, <2>3
  <1>4. CASE Op1 = LD
    <2>1. /\ ddataout = sramd[exec1.alu1] /\ committed' = sramd
          /\ r'[Dst(i)] = ddataout
      BY <1>4, RetiringFacts, RegsAfter
      DEF Retiring, RunInv, OrderInv, FreshInv, PortFresh, LD, ST
    <2>2. (IF Src1(i) = 1 THEN Imm(i) ELSE r'[Src1(i)]) = exec1.alu1
      <3>1. exec1.alu1 = Operand1(r, i)
        BY <1>1 DEF Retiring, RunInv, OperandInv, ScoreInv, Reads
      <3>2. Src1(i) \in RegId
        BY <1>1, StageWords, FieldRanges DEF Retiring, RunInv, OperandInv, TypesInv
      <3> QED
        BY <1>4, <3>1, <3>2, RegsAfter DEF Operand1, Operand
    <2>3. TraceLine = Line(<<Dst(i), exec1.alu1, ddataout>>)
      BY <1>4, <2>1, <2>2 DEF TraceLine, AluOps, LD
    <2>4. Iss!TraceLine = Line(<<Dst(i), exec1.alu1, ddataout>>)
      BY <1>1, <1>2, <1>4, <2>1, SameFields DEF Iss!TraceLine, Reg, AluOps, LD
    <2> QED
      BY <2>3, <2>4
  <1>5. CASE Op1 = ST
    <2>1. committed'[exec1.alu1] = exec1.alu0
      <3>1. committed' = [committed EXCEPT ![exec1.alu1] = exec1.alu0]
        BY <1>5 DEF Retiring, IssNext
      <3>2. exec1.alu1 \in DOMAIN committed
        BY <1>5, RetiringFacts DEF Retiring, RunInv, EffectInv
      <3> QED
        BY <3>1, <3>2
    <2>2. TraceLine = Line(<<exec1.alu1, exec1.alu0>>)
      BY <1>5 DEF TraceLine, AluOps, LD, ST
    <2>3. Iss!op \notin Iss!AluOps /\ Iss!op # Iss!LD /\ Iss!op = Iss!ST
      BY <1>1, <1>5, SameFields DEF AluOps, LD, ST
    <2>4. Iss!TraceLine = Line(<<exec1.alu1, exec1.alu0>>)
      BY <1>1, <1>2, <2>1, <2>3 DEF Iss!TraceLine, Reg
    <2> QED
      BY <2>2, <2>4
  <1>6. CASE Op1 \in JumpOps
    <2>1. due' = IF exec1.aluout # 0 THEN Imm(i) ELSE exec1.pc + 1
      BY <1>6 DEF Retiring, IssNext, JumpOps, HLT
    <2>2. TraceLine = Line(<<exec1.alu0, exec1.alu1, due'>>)
      BY <1>6, <2>1 DEF TraceLine, AluOps, LD, ST, JumpOps
    <2>3. /\ Iss!op \notin Iss!AluOps /\ Iss!op # Iss!LD /\ Iss!op # Iss!ST
          /\ Iss!op \in Iss!JumpOps
      BY <1>1, <1>6, SameFields DEF AluOps, LD, ST, JumpOps
    <2>4. Iss!TraceLine = Line(<<exec1.alu0, exec1.alu1, due'>>)
      BY <1>1, <1>2, <2>3 DEF Iss!TraceLine, Reg
    <2> QED
      BY <2>2, <2>4
  <1>7. CASE Op1 = HLT
    <2>1. TraceLine = Line(<<due'>>)
      BY <1>7, HaltLine DEF TraceLine, AluOps, LD, ST, JumpOps, HLT
    <2>2. /\ Iss!op \notin Iss!AluOps /\ Iss!op # Iss!LD /\ Iss!op # Iss!ST
          /\ Iss!op \notin Iss!JumpOps /\ Iss!op = Iss!HLT
      BY <1>1, <1>7, SameFields DEF AluOps, LD, ST, JumpOps, HLT
    <2>3. Iss!TraceLine = Line(<<due'>>)
      BY <1>1, <1>2, <2>2 DEF Iss!TraceLine, Reg
    <2> QED
      BY <2>1, <2>3
  <1>8. CASE Op1 \notin AluOps \cup JumpOps \cup {LD, ST, HLT}
    <2>1. TraceLine = Line(<<>>)
      BY <1>8 DEF TraceLine
    <2>2. Iss!TraceLine = Line(<<>>)
      BY <1>1, <1>2, <1>8, SameFields DEF Iss!TraceLine, Reg
    <2> QED
      BY <2>1, <2>2
  <1> QED
    BY <1>3, <1>4, <1>5, <1>6, <1>7, <1>8

\* In a run that keeps the rules the two simulators write the same trace, as
\* long as no sign matters: the pipeline's lines, put together from the stages
\* and registers of two clocks, are the simulator's, but for a load into the
\* register of its own address.
THEOREM TracesAgree ==
    ASSUME SpWords, Height \in Word
    PROVE  IssPipeSpec /\ []Kept => TraceAgrees
  <1> DEFINE Agree == Completes /\ alike' /\ ~(Op1 = LD /\ Src1(exec1.inst) = Dst(exec1.inst))
                        => TraceLine = Iss!TraceLine
  <1>0. AluClosed /\ Alu(ADD, 0, 0, 0) = 0
    BY SpAluFits DEF SpWords
  <1>1. RunInv /\ Kept /\ [IssNext]_issvars => [Agree]_issvars
    <2> SUFFICES ASSUME RunInv, Kept, IssNext, Completes, alike',
                        ~(Op1 = LD /\ Src1(exec1.inst) = Dst(exec1.inst))
                 PROVE  TraceLine = Iss!TraceLine
      OBVIOUS
    <2>1. Tick /\ (sim' = sim \/ Halts) /\ SignsKept
      BY DEF IssNext, Next, Advance, Flush, Halt, Abort, Completes
    <2>2. Retiring /\ HaltLineKept
      BY <2>1 DEF Retiring, Kept, CommonRulesKept
    <2> QED
      BY <2>2, TraceStep
  <1> QED
    BY <1>0, <1>1, RunAlways, PTL DEF IssPipeSpec, TraceAgrees

-----------------------------------------------------------------------------
(***************************************************************************)
(* From the text of a program to its executions: a program that keeps the  *)
(* rules of SPPipeRules as they can be read off its words keeps them in    *)
(* every clock, so that the theorems above hold of it without further      *)
(* hypotheses.  h is the address of its first HLT.                         *)
(***************************************************************************)
\* The instruction of the program, not the nop of a stall, is in the stage.
Present(s) == s.active /\ ~Nop(s)

LEMMA PresentSeen ==
    ASSUME OrderInv, NEW s \in {dec0, dec1, exec0, exec1}, NEW e, Follows(s, e)
    PROVE  /\ Present(s) => /\ s.pc = e /\ s.inst = srami[e]
                            /\ After(s, e) \in Succ(srami, e)
           /\ ~Present(s) => After(s, e) = e
           /\ s.active /\ s.inst # 0 => Present(s)
  <1>1. s.active => s.inst = 0 \/ s.inst = srami[s.pc]
    BY DEF OrderInv, FreshInv, WordAtPc
  <1>2. Opcode(0) \notin JumpOps
    BY NopFields DEF ADD, JumpOps
  <1>3. CASE Present(s)
    <2>1. s.pc = e /\ s.inst = srami[e]
      BY <1>1, <1>3 DEF Present, Follows, Nop
    <2> QED
      BY <1>3, <2>1 DEF Present, After, Succ
  <1>4. CASE ~Present(s) /\ s.active
    <2>1. s.inst = 0 /\ s.pc + 1 = e
      BY <1>4 DEF Present, Follows, Nop
    <2> QED
      BY <1>2, <1>4, <2>1 DEF After
  <1>5. CASE ~s.active
    BY <1>5 DEF Present, After
  <1> QED
    BY <1>3, <1>4, <1>5

LEMMA InShadow ==
    ASSUME NEW m, NEW a, NEW b, NEW c, NEW d, b \in Succ(m, a)
    PROVE  /\ b \in Shadow(m, a)
           /\ c \in Succ(m, b) => c \in Shadow(m, a)
           /\ c \in Succ(m, b) /\ d \in Succ(m, c) => d \in Shadow(m, a)
  BY DEF Shadow

\* The instruction in dec0 is in the shadow of each one that is ahead of it.
LEMMA ShadowSeen ==
    ASSUME OrderInv, sim = "running", Present(dec0),
           NEW s \in {dec1, exec0, exec1}, Present(s)
    PROVE  dec0.pc \in Shadow(srami, s.pc)
  <1>1. /\ Follows(exec1, due) /\ Follows(exec0, DueExec0)
        /\ Follows(dec1, DueDec1) /\ Follows(dec0, DueDec0)
    BY DEF OrderInv, ChainInv
  <1>2. dec0.pc = DueDec0
    BY <1>1, PresentSeen
  <1>3. /\ Present(dec1) => dec1.pc = DueDec1 /\ DueDec0 \in Succ(srami, DueDec1)
        /\ ~Present(dec1) => DueDec0 = DueDec1
    BY <1>1, PresentSeen DEF DueDec0
  <1>4. /\ Present(exec0) => exec0.pc = DueExec0 /\ DueDec1 \in Succ(srami, DueExec0)
        /\ ~Present(exec0) => DueDec1 = DueExec0
    BY <1>1, PresentSeen DEF DueDec1
  <1>5. /\ Present(exec1) => exec1.pc = due /\ DueExec0 \in Succ(srami, due)
    BY <1>1, PresentSeen DEF DueExec0
  <1>6. CASE s = dec1
    BY <1>2, <1>3, <1>6, InShadow
  <1>7. CASE s = exec0
    BY <1>2, <1>3, <1>4, <1>7, InShadow
  <1>8. CASE s = exec1
    BY <1>2, <1>3, <1>4, <1>5, <1>8, InShadow
  <1> QED
    BY <1>6, <1>7, <1>8

\* Where the program may go on.
LEMMA SuccInside ==
    ASSUME NEW h \in Nat, Ends(srami, h), srami \in [0 .. Height - 1 -> Word],
           NEW b \in h .. h + 2, NEW e \in 0 .. b
    PROVE  Succ(srami, e) \subseteq 0 .. b + 1
  <1>1. CASE e < h
    <2>1. e \in 0 .. h - 1 /\ e \in 0 .. Height - 1
      BY <1>1, PipeAssumption DEF Ends
    <2>2. srami[e] \in Word /\ Imm(srami[e]) \in Nat
      BY <2>1, FieldRanges DEF Immediate
    <2>3. Opcode(srami[e]) \in JumpOps => Imm(srami[e]) <= h
      BY <2>1 DEF Ends
    <2> QED
      BY <1>1, <2>2, <2>3 DEF Succ
  <1>2. CASE e >= h
    <2>1. Opcode(srami[e]) \in {HLT, ADD}
      <3>1. e = h \/ e \in h + 1 .. h + 3
        BY <1>2
      <3> QED
        BY <3>1, NopFields DEF Ends
    <2>2. Opcode(srami[e]) \notin JumpOps
      BY <2>1 DEF HLT, ADD, JumpOps
    <2> QED
      BY <2>2 DEF Succ
  <1> QED
    BY <1>1, <1>2

\* The words of a program that keeps the rules, the zero words behind it included.
LEMMA TextSeen ==
    ASSUME NEW h \in Nat, DisciplinedTo(srami, h), NEW k \in 0 .. h + 3
    PROVE  LET i == srami[k]
           IN  /\ Writes(i) \/ Dst(i) = 0
               /\ Opcode(i) = HLT => k = h
               /\ k \in 0 .. h \/ i = 0
               /\ i = 0 => Opcode(i) = ADD /\ Dst(i) = 0
               /\ Opcode(i) \in JumpOps => k \in 0 .. h
  <1>1. CASE k \in 0 .. h
    BY <1>1, NopFields DEF DisciplinedTo, DestinationRule, Ends
  <1>2. CASE k \notin 0 .. h
    <2>1. k \in h + 1 .. h + 3
      BY <1>2
    <2>2. srami[k] = 0
      BY <2>1 DEF DisciplinedTo, Ends
    <2> QED
      BY <2>1, <2>2, NopFields DEF Writes, Writers, AluOps, ADD, HLT, JumpOps
  <1> QED
    BY <1>1, <1>2

\* What holds of a program that keeps the rules, besides what is shown above of
\* every program: where it is, that only one with a DMA instruction transfers,
\* that what waits has something to wait for, and that nothing comes between
\* HLT and the word behind it.
PlaceOf(h) ==
    /\ due \in 0 .. h
    /\ dma_cnt > 0 \/ dma_sample_active \/ dma_write_active =>
          \E k \in 0 .. h : Opcode(srami[k]) = DMA
    /\ bubble => Waits(dec0.inst) # {}
    /\ dec1.active /\ Opcode(dec1.inst) = HLT =>
          dec0.active /\ dec0.inst = 0 /\ dec0.pc # dec1.pc
    /\ exec0.active /\ Opcode(exec0.inst) = HLT => dec1.active /\ dec1.pc # exec0.pc
    /\ exec1.active /\ Opcode(exec1.inst) = HLT => exec0.active /\ exec0.pc # exec1.pc

TextInv(h) ==
    /\ h \in Nat /\ DisciplinedTo(srami, h)
    /\ OrderInv /\ OperandInv /\ FilledInv
    /\ sim = "running" => PlaceOf(h)

\* Where the stages of a program are that keeps the rules.
LEMMA StagesInside ==
    ASSUME NEW h, TextInv(h), sim = "running"
    PROVE  /\ DueExec0 \in 0 .. h + 1 /\ DueDec1 \in 0 .. h + 2 /\ DueDec0 \in 0 .. h + 3
           /\ Present(exec1) => exec1.pc = due /\ exec1.inst = srami[due]
           /\ Present(exec0) => exec0.pc = DueExec0 /\ exec0.inst = srami[DueExec0]
           /\ Present(dec1) => dec1.pc = DueDec1 /\ dec1.inst = srami[DueDec1]
           /\ Present(dec0) => dec0.pc = DueDec0 /\ dec0.inst = srami[DueDec0]
  <1>1. /\ Follows(exec1, due) /\ Follows(exec0, DueExec0)
        /\ Follows(dec1, DueDec1) /\ Follows(dec0, DueDec0)
    BY DEF TextInv, OrderInv, ChainInv
  <1>2. /\ h \in Nat /\ Ends(srami, h) /\ srami \in [0 .. Height - 1 -> Word] /\ due \in 0 .. h
        /\ OrderInv
    BY DEF TextInv, DisciplinedTo, PlaceOf, OrderInv, FreshInv, TypesInv, TypeOK
  <1>3. DueExec0 \in 0 .. h + 1
    <2>1. DueExec0 \in {due} \cup Succ(srami, due)
      BY <1>1, <1>2, PresentSeen DEF DueExec0
    <2>2. Succ(srami, due) \subseteq 0 .. h + 1
      BY <1>2, SuccInside
    <2> QED
      BY <1>2, <2>1, <2>2
  <1>4. DueDec1 \in 0 .. h + 2
    <2>1. DueDec1 \in {DueExec0} \cup Succ(srami, DueExec0)
      BY <1>1, <1>2, PresentSeen DEF DueDec1
    <2>2. Succ(srami, DueExec0) \subseteq 0 .. (h + 1) + 1
      BY <1>2, <1>3, SuccInside
    <2> QED
      BY <1>2, <1>3, <2>1, <2>2
  <1>5. DueDec0 \in 0 .. h + 3
    <2>1. DueDec0 \in {DueDec1} \cup Succ(srami, DueDec1)
      BY <1>1, <1>2, PresentSeen DEF DueDec0
    <2>2. Succ(srami, DueDec1) \subseteq 0 .. (h + 2) + 1
      BY <1>2, <1>4, SuccInside
    <2> QED
      BY <1>2, <1>4, <2>1, <2>2
  <1> QED
    BY <1>1, <1>2, <1>3, <1>4, <1>5, PresentSeen

\* An instruction with an opcode other than ADD, or with a destination, is not
\* the nop of a stall.
LEMMA NotNop ==
    ASSUME NEW s, s.active, Opcode(s.inst) # ADD \/ Dst(s.inst) # 0
    PROVE  Present(s)
  BY NopFields DEF Present, Nop

\* While the pipeline runs it keeps the rules, whatever is on its way.
LEMMA RulesNow ==
    ASSUME NEW h, TextInv(h), sim = "running"
    PROVE  RulesKept
  <1>1. /\ h \in Nat /\ DisciplinedTo(srami, h) /\ PlaceOf(h) /\ OrderInv
        /\ ScoreInv /\ FillKept /\ BusyHasWriter /\ 0 \notin r_busy
    BY DEF TextInv, OperandInv, FilledInv, TypesInv, TypeOK
  <1>2. DestinationKept
    <2> SUFFICES ASSUME Issues, Dst(dec0.inst) # 0 PROVE Writes(dec0.inst)
      BY DEF DestinationKept
    <2>1. Present(dec0)
      BY NotNop DEF Issues
    <2> QED
      BY <1>1, <2>1, StagesInside, TextSeen
  <1>3. WriteKept
    <2> SUFFICES ASSUME Issues, Writes(dec0.inst), Dst(dec0.inst) # 0,
                        NEW s \in {dec1, exec0, exec1},
                        s.active, Writes(s.inst), Dst(s.inst) = Dst(dec0.inst)
                 PROVE  FALSE
      BY DEF WriteKept
    <2>1. Present(dec0) /\ Present(s)
      BY NotNop DEF Issues
    <2>2. dec0.pc \in Shadow(srami, s.pc)
      BY <1>1, <2>1, ShadowSeen
    <2>3. /\ s.pc \in 0 .. h + 3 /\ s.inst = srami[s.pc]
          /\ dec0.inst = srami[dec0.pc]
      BY <1>1, <2>1, StagesInside DEF PlaceOf
    <2>4. s.pc \in 0 .. h
      BY <1>1, <2>3, TextSeen
    <2>5. Dst(dec0.inst) \in Waits(dec0.inst)
      BY <1>1, <2>2, <2>3, <2>4 DEF DisciplinedTo, WriteRule
    <2>6. Dst(dec0.inst) \in r_busy
      BY <1>1 DEF ScoreInv, Out, Writes
    <2> QED
      BY <2>5, <2>6 DEF Waits, Issues, Stalled
  <1>4. JumpKept
    <2> SUFFICES ASSUME Stalled, Predicted PROVE FALSE
      BY DEF JumpKept
    <2>1. PICK d \in {Src0(dec0.inst), Src1(dec0.inst)} : d \in r_busy
      BY DEF Stalled
    <2>2. PICK s \in {dec1, exec0, exec1} :
            s.active /\ Dst(s.inst) = d /\ Opcode(s.inst) \in Writers
      BY <1>1, <2>1 DEF BusyHasWriter
    <2>3. d # 0 /\ d \in Waits(dec0.inst) /\ Opcode(dec0.inst) \in JumpOps /\ dec0.active
      BY <1>1, <2>1 DEF Waits, Predicted, Stalled
    <2>4. Present(dec0) /\ Present(s)
      BY <2>2, <2>3, NotNop DEF JumpOps, ADD
    <2>5. dec0.pc \in Shadow(srami, s.pc)
      BY <1>1, <2>4, ShadowSeen
    <2>6. /\ s.pc \in 0 .. h + 3 /\ s.inst = srami[s.pc]
          /\ dec0.inst = srami[dec0.pc]
      BY <1>1, <2>4, StagesInside DEF PlaceOf
    <2>7. s.pc \in 0 .. h
      BY <1>1, <2>2, <2>3, <2>6, TextSeen
    <2> QED
      BY <1>1, <2>2, <2>3, <2>5, <2>6, <2>7 DEF DisciplinedTo, JumpRule, Writes
  <1>5. StoreKept
    <2> SUFFICES ASSUME Issues, dec1.active, Opcode(dec1.inst) \in JumpOps,
                        Opcode(dec0.inst) \in {ST, DMA}
                 PROVE  FALSE
      BY DEF StoreKept
    <2>1. Present(dec0) /\ Present(dec1) /\ dec0.active
      BY NotNop DEF Issues, JumpOps, ST, DMA, ADD
    <2>2. ~jtaken
      BY <1>1, <2>1 DEF ScoreInv, IsJump
    <2>3. DueDec0 = DueDec1 + 1
      BY <1>1, <2>1, <2>2, StagesInside DEF DueDec0, After
    <2>4. dec0.inst = srami[DueDec1 + 1] /\ dec1.inst = srami[DueDec1] /\ DueDec1 \in 0 .. h + 3
      BY <2>1, <2>3, StagesInside, <1>1
    <2>5. DueDec1 \in 0 .. h
      BY <1>1, <2>4, TextSeen
    <2> QED
      BY <1>1, <2>4, <2>5 DEF DisciplinedTo, StoreRule
  <1>6. DmaKept
    <2>1. exec0.active /\ Op0 \in {LD, ST, DMA} =>
            \E k \in 0 .. h : Opcode(srami[k]) = Op0 /\ exec0.inst = srami[k]
      <3> SUFFICES ASSUME exec0.active, Op0 \in {LD, ST, DMA}
                   PROVE  \E k \in 0 .. h : Opcode(srami[k]) = Op0 /\ exec0.inst = srami[k]
        OBVIOUS
      <3>1. Present(exec0) /\ Op0 = Opcode(exec0.inst)
        BY NotNop DEF Op0, LD, ST, DMA, ADD
      <3>2. DueExec0 \in 0 .. h + 3 /\ exec0.inst = srami[DueExec0]
        BY <1>1, <3>1, StagesInside
      <3>3. DueExec0 \in 0 .. h
        BY <1>1, <3>1, <3>2, TextSeen DEF LD, ST, DMA, ADD
      <3> QED
        BY <3>1, <3>2, <3>3
    <2>2. dma_cnt > 0 \/ dma_sample_active \/ dma_write_active => DmaEnable
      BY <1>1, <2>1 DEF DmaEnable, PlaceOf, DisciplinedTo, DmaRule
    <2>3. DmaStarts => Imm(exec0.inst) % 2 = 0
      BY <1>1, <2>1 DEF DmaStarts, DisciplinedTo, DmaRule
    <2> QED
      BY <2>2, <2>3 DEF DmaKept
  <1> QED
    BY <1>1, <1>2, <1>3, <1>4, <1>5, <1>6 DEF RulesKept

\* No zero word of the program is executed, as it has none.
LEMMA ZeroNow ==
    ASSUME NEW h, TextInv(h), sim = "running"
    PROVE  ZeroKept
  <1> SUFFICES ASSUME exec1.active, exec1.inst = 0, srami[exec1.pc] = 0 PROVE FALSE
    BY DEF ZeroKept
  <1>1. Present(exec1) /\ h \in Nat /\ Ends(srami, h) /\ due \in 0 .. h
    BY DEF Present, Nop, TextInv, DisciplinedTo, PlaceOf
  <1>2. srami[due] = 0 /\ Opcode(0) # HLT
    BY <1>1, StagesInside, NopFields DEF ADD, HLT
  <1> QED
    BY <1>1, <1>2 DEF Ends

\* The next instruction to retire stays in the program.
LEMMA DueInside ==
    ASSUME NEW h, TextInv(h), sim = "running", IssNext
    PROVE  due' \in 0 .. h
  <1>1. due \in 0 .. h /\ h \in Nat /\ Ends(srami, h) /\ srami \in [0 .. Height - 1 -> Word]
    BY DEF TextInv, DisciplinedTo, PlaceOf, OrderInv, FreshInv, TypesInv, TypeOK
  <1>2. CASE Completes /\ Op1 # HLT
    <2>1. exec1.active /\ exec1.inst # 0 /\ Op1 = Opcode(exec1.inst)
      BY <1>2 DEF Completes, Retires, Op1
    <2>2. Present(exec1) /\ exec1.pc = due /\ exec1.inst = srami[due]
      BY <2>1, StagesInside DEF Present, Nop
    <2>3. due # h
      BY <1>1, <1>2, <2>1, <2>2 DEF Ends
    <2>4. due \in 0 .. h - 1 /\ due \in 0 .. Height - 1
      BY <1>1, <2>3, PipeAssumption DEF Ends
    <2>5. Imm(srami[due]) \in Nat
      BY <1>1, <2>4, FieldRanges DEF Immediate
    <2>6. Op1 \in JumpOps => Imm(srami[due]) <= h
      BY <1>1, <2>1, <2>2, <2>4 DEF Ends
    <2> QED
      BY <1>1, <1>2, <2>2, <2>4, <2>5, <2>6 DEF IssNext
  <1>3. CASE ~(Completes /\ Op1 # HLT)
    BY <1>1, <1>3 DEF IssNext
  <1> QED
    BY <1>2, <1>3

\* Only a DMA instruction of the program makes the engine leave its rest.
LEMMA EngineInside ==
    ASSUME NEW h, TextInv(h), sim = "running", Tick,
           dma_cnt' > 0 \/ dma_sample_active' \/ dma_write_active'
    PROVE  \E k \in 0 .. h : Opcode(srami[k]) = DMA
  <1>1. h \in Nat /\ DisciplinedTo(srami, h) /\ PlaceOf(h) /\ Dma
    BY DEF TextInv, Tick
  <1>2. CASE DmaStarts
    <2>1. exec0.active /\ Opcode(exec0.inst) = DMA
      BY <1>2 DEF DmaStarts, Op0
    <2>2. Present(exec0)
      BY <2>1, NotNop DEF DMA, ADD
    <2>3. DueExec0 \in 0 .. h + 3 /\ exec0.inst = srami[DueExec0]
      BY <1>1, <2>2, StagesInside
    <2>4. DueExec0 \in 0 .. h
      BY <1>1, <2>1, <2>3, TextSeen DEF DMA, ADD
    <2> QED
      BY <2>1, <2>3, <2>4
  <1>3. CASE ~DmaStarts
    <2>1. dma_cnt > 0 \/ dma_sample_active \/ dma_write_active
      <3>1. dma_sample_active' => dma_cnt > 0
        BY <1>1 DEF Dma, DmaReads
      <3>2. dma_write_active' => dma_sample_active \/ dma_write_active
        BY <1>1 DEF Dma
      <3>3. dma_cnt' = dma_cnt \/ dma_write_active
        BY <1>1, <1>3 DEF Dma, DmaWrites
      <3> QED
        BY <3>1, <3>2, <3>3
    <2> QED
      BY <1>1, <2>1 DEF PlaceOf
  <1> QED
    BY <1>2, <1>3

\* What waits names a register that it waits for.
LEMMA WaitsMoves ==
    ASSUME NEW h, TextInv(h), Moves, bubble'
    PROVE  Waits(dec0'.inst) # {}
  <1>1. sim = "running" /\ FrontTypes /\ FrontInStep /\ 0 \notin r_busy
    BY DEF TextInv, OrderInv, FreshInv, FlowInv, FrontInv, TypesInv, TypeOK, Moves, Tick
  <1>2. CASE Fill
    BY <1>1, <1>2 DEF Fill, FrontInStep
  <1>3. CASE Stall
    BY <1>1, <1>3 DEF Stall, Stalled, Waits
  <1>4. CASE Release
    BY <1>4 DEF Release
  <1>5. CASE Issue
    BY <1>5 DEF Issue
  <1> QED
    BY <1>2, <1>3, <1>4, <1>5 DEF Moves

\* HLT waits for nothing, so that the word behind it follows it.
LEMMA HaltIssued ==
    ASSUME NEW h, TextInv(h), Moves, dec1'.active, Opcode(dec1'.inst) = HLT
    PROVE  dec0'.active /\ dec0'.inst = 0 /\ dec0'.pc # dec1'.pc
  <1>1. /\ sim = "running" /\ FrontTypes /\ FrontInStep /\ PlaceInv /\ PortFresh
        /\ PlaceOf(h) /\ DisciplinedTo(srami, h) /\ h \in Nat
    BY DEF TextInv, OrderInv, FreshInv, FlowInv, FrontInv, Moves, Tick
  <1>2. Issues /\ dec1' = dec0 /\ dec0.active
    BY Handed DEF Empty, Issues
  <1>3. dec0.pc = DueDec0 /\ dec0.inst = srami[DueDec0] /\ DueDec0 \in 0 .. h + 3
    <2>1. Present(dec0)
      BY <1>2, NotNop DEF HLT, ADD
    <2> QED
      BY <1>1, <2>1, StagesInside
  <1>4. DueDec0 = h
    BY <1>1, <1>2, <1>3, TextSeen
  <1>5. ~bubble
    BY <1>1, <1>3, <1>4 DEF PlaceOf, DisciplinedTo, Ends
  <1>6. fetch1_active /\ fetch1_pc = h + 1
    BY <1>1, <1>2, <1>3, <1>4, <1>5 DEF FrontInStep, PlaceInv
  <1>7. idataout = 0
    <2>1. h + 1 \in h + 1 .. h + 3
      BY <1>1
    <2> QED
      BY <1>1, <1>6, <2>1 DEF PortFresh, DisciplinedTo, Ends
  <1>8. Issue /\ ~Predicted
    BY <1>2, <1>5 DEF Moves, Fill, Stall, Release, Issues, Predicted, HLT, JumpOps
  <1>9. dec0' = Fetched
    BY <1>6, <1>8 DEF Issue
  <1> QED
    BY <1>1, <1>2, <1>3, <1>4, <1>6, <1>7, <1>9 DEF Fetched

LEMMA HaltMoves ==
    ASSUME NEW h, TextInv(h), Moves
    PROVE  /\ exec0'.active /\ Opcode(exec0'.inst) = HLT => dec1'.active /\ dec1'.pc # exec0'.pc
           /\ exec1'.active /\ Opcode(exec1'.inst) = HLT => exec0'.active /\ exec0'.pc # exec1'.pc
  <1>1. sim = "running" /\ PlaceOf(h) /\ 0 \notin r_busy
    BY DEF TextInv, OrderInv, FreshInv, TypesInv, TypeOK, Moves, Tick
  <1>2. /\ exec0' = NextExec0 /\ exec1' = NextExec1
        /\ dec1' = IF Issues THEN dec0 ELSE Empty
    BY Handed DEF Moves
  <1>3. /\ exec0'.active => dec1.active /\ exec0'.inst = dec1.inst /\ exec0'.pc = dec1.pc
        /\ exec1'.active => exec0.active /\ exec1'.inst = exec0.inst /\ exec1'.pc = exec0.pc
        /\ dec1.active => exec0'.active /\ exec0'.pc = dec1.pc
    BY <1>2 DEF NextExec0, NextExec1, Empty
  <1>4. ASSUME exec0'.active, Opcode(exec0'.inst) = HLT
        PROVE  dec1'.active /\ dec1'.pc # exec0'.pc
    <2>1. dec0.active /\ dec0.inst = 0 /\ dec0.pc # dec1.pc
      BY <1>1, <1>3, <1>4 DEF PlaceOf
    <2>2. Issues
      BY <1>1, <2>1, NopFields DEF Issues, Stalled
    <2> QED
      BY <1>2, <1>3, <1>4, <2>1, <2>2
  <1>5. ASSUME exec1'.active, Opcode(exec1'.inst) = HLT
        PROVE  exec0'.active /\ exec0'.pc # exec1'.pc
    BY <1>1, <1>3, <1>5 DEF PlaceOf
  <1> QED
    BY <1>4, <1>5

LEMMA TextStep ==
    ASSUME AluClosed, Height \in Word, Alu(ADD, 0, 0, 0) = 0,
           NEW h, TextInv(h), RulesKept, ZeroKept, [IssNext]_issvars
    PROVE  TextInv(h)'
  <1>1. [Next]_vars
    BY DEF IssNext, issvars
  <1>2. OrderInv' /\ OperandInv' /\ FilledInv'
    BY <1>1, OrderStep, OperandStep, FilledStep DEF TextInv, RulesKept
  <1>3. srami' = srami
    BY MemTypes, StepCases, <1>1
    DEF Moves, Empties, Rests, mems, TextInv, OperandInv, TypesInv
  <1>4. (sim = "running" => PlaceOf(h))'
    <2> SUFFICES ASSUME sim' = "running" PROVE PlaceOf(h)'
      OBVIOUS
    <2>1. CASE Moves /\ IssNext
      <3>1. sim = "running" /\ Tick
        BY <2>1 DEF Moves, Tick
      <3> QED
        BY <1>3, <2>1, <3>1, DueInside, EngineInside, WaitsMoves, HaltIssued, HaltMoves
        DEF PlaceOf
    <2>2. CASE Empties /\ IssNext
      <3>1. Flush /\ Tick /\ sim = "running"
        BY <2>2 DEF Empties, Halt, Tick
      <3>2. ~bubble' /\ ~dec1'.active /\ ~exec0'.active /\ ~exec1'.active
        BY <3>1 DEF Flush, Empty
      <3> QED
        BY <1>3, <2>2, <3>1, <3>2, DueInside, EngineInside DEF PlaceOf
    <2>3. CASE Rests /\ UNCHANGED <<due, committed>>
      <3>1. sim = "running" /\ UNCHANGED <<front, back, dma, mems, due>>
        BY <2>3 DEF Rests
      <3> QED
        BY <3>1 DEF TextInv, PlaceOf, Waits, front, back, dma, mems
    <2> QED
      BY <2>1, <2>2, <2>3, HistoryCases
  <1> QED
    BY <1>2, <1>3, <1>4 DEF TextInv, DisciplinedTo, Ends, DestinationRule, WriteRule,
                            JumpRule, StoreRule, DmaRule, Shadow, Succ

\* An emptied or resting pipeline keeps the rules, too.
LEMMA RulesRest ==
    ASSUME RulesKept, ZeroKept, Rests \/ Halt
    PROVE  RulesKept' /\ ZeroKept'
  <1>1. CASE Rests
    <2>1. UNCHANGED <<start, dec0, jtaken, r_busy, dec1, exec0, exec1>>
          /\ UNCHANGED <<dma_cnt, dma_sample_active, dma_write_active, srami>>
      BY <1>1 DEF Rests, front, back, dma, mems
    <2>2. Issues' = Issues /\ Stalled' = Stalled /\ Predicted' = Predicted
      BY <2>1 DEF Issues, Stalled, Predicted
    <2>3. DmaEnable' = DmaEnable /\ DmaStarts' = DmaStarts
      BY <2>1 DEF DmaEnable, DmaStarts, Op0
    <2> QED
      BY <2>1, <2>2, <2>3 DEF RulesKept, ZeroKept, DestinationKept, WriteKept, JumpKept,
                              FillKept, StoreKept, DmaKept
  <1>2. CASE Halt
    <2>1. ~dec0'.active /\ ~dec1'.active /\ ~exec0'.active /\ ~exec1'.active
      BY <1>2 DEF Halt, Empty
    <2>2. ~Issues' /\ ~Stalled' /\ DmaEnable' /\ ~DmaStarts'
      BY <2>1 DEF Issues, Stalled, DmaEnable, DmaStarts
    <2> QED
      BY <2>1, <2>2 DEF RulesKept, ZeroKept, DestinationKept, WriteKept, JumpKept,
                        FillKept, StoreKept, DmaKept
  <1> QED
    BY <1>1, <1>2

LEMMA TextInit ==
    ASSUME IssInit, NEW h \in Nat, DisciplinedTo(srami, h)
    PROVE  TextInv(h)
  <1>1. Init /\ due = 0
    BY DEF IssInit
  <1>2. OrderInv /\ OperandInv
    BY RunInit DEF RunInv
  <1>3. FilledInv
    BY <1>1 DEF Init, FilledInv, BusyHasWriter, FillInv, FillKept, WillWrite, Stalled, Empty
  <1>4. PlaceOf(h)
    BY <1>1 DEF Init, PlaceOf, Empty
  <1> QED
    BY <1>2, <1>3, <1>4 DEF TextInv

\* The rules follow from where the program is while it runs, and stay kept when
\* it has come to its end.
Keeping(h) == TextInv(h) /\ (sim # "running" => RulesKept /\ ZeroKept)

LEMMA KeepingInit ==
    ASSUME IssInit, NEW h \in 0 .. Height - 1, DisciplinedTo(srami, h)
    PROVE  Keeping(h)
  <1>1. h \in Nat /\ sim = "running"
    BY DEF IssInit, Init
  <1> QED
    BY <1>1, TextInit DEF Keeping

LEMMA KeepingNow ==
    ASSUME NEW h, Keeping(h)
    PROVE  RulesKept /\ ZeroKept
  BY RulesNow, ZeroNow DEF Keeping

LEMMA KeepingStep ==
    ASSUME AluClosed, Height \in Word, Alu(ADD, 0, 0, 0) = 0,
           NEW h, Keeping(h), [IssNext]_issvars
    PROVE  Keeping(h)'
  <1>1. RulesKept /\ ZeroKept /\ TextInv(h)
    BY KeepingNow DEF Keeping
  <1>2. TextInv(h)'
    BY <1>1, TextStep
  <1>3. ASSUME sim' # "running" PROVE RulesKept' /\ ZeroKept'
    <2>1. [Next]_vars
      BY DEF IssNext, issvars
    <2>2. Rests \/ Halt
      BY <1>3, <2>1, StepCases DEF Moves, Empties, Flush, Tick
    <2> QED
      BY <1>1, <2>2, RulesRest
  <1> QED
    BY <1>2, <1>3 DEF Keeping

\* A program whose text keeps the rules keeps them in every clock, through every
\* stall and misprediction, on the wrong path and in the prefetch behind HLT,
\* whatever memory, width of words and ALU it runs on.
THEOREM TextKeepsRules ==
    ASSUME AluClosed, Height \in Word, Alu(ADD, 0, 0, 0) = 0
    PROVE  IssPipeSpec /\ Disciplined(srami) => []RulesKept /\ []ZeroKept
  <1>1. SUFFICES ASSUME NEW h \in 0 .. Height - 1
                 PROVE  IssPipeSpec /\ DisciplinedTo(srami, h) => []RulesKept /\ []ZeroKept
    BY DEF Disciplined
  <1>2. IssInit /\ DisciplinedTo(srami, h) => Keeping(h)
    BY KeepingInit
  <1>3. Keeping(h) /\ [IssNext]_issvars => Keeping(h)'
    BY KeepingStep
  <1>4. Keeping(h) => RulesKept /\ ZeroKept
    BY KeepingNow
  <1> QED
    BY <1>2, <1>3, <1>4, PTL DEF IssPipeSpec

\* The clock in which HLT retires: zero words are behind it, and the prefetch is
\* in the memory.
LEMMA BehindHalt ==
    ASSUME NEW h, TextInv(h), sim = "running", Halts
    PROVE  /\ exec0.active /\ exec0.pc # exec1.pc /\ Op0 = ADD
           /\ dec0.active => dec0.inst = 0
           /\ fetch0_active => fetch0_pc \in 0 .. Height - 1
  <1>1. /\ PlaceOf(h) /\ h \in Nat /\ Ends(srami, h) /\ h + 5 < Height /\ due \in 0 .. h
        /\ DisciplinedTo(srami, h) /\ OrderInv /\ FrontTypes /\ FrontInStep /\ PlaceInv
        /\ TypeOK /\ PcInv
    BY DEF TextInv, DisciplinedTo, Ends, PlaceOf, OrderInv, FreshInv, FlowInv, FrontInv, TypesInv
  <1>0. Height \in Nat /\ fetch0_pc \in Nat /\ fetch1_pc \in Nat
    BY <1>1, PipeAssumption, ImmModAssumption DEF TypeOK
  <1>2. exec1.active /\ Opcode(exec1.inst) = HLT /\ Present(exec1)
    BY NotNop DEF Halts, Op1, HLT, ADD
  <1>3. due = h /\ exec1.pc = h /\ DueExec0 = h + 1
    <2>1. due = h /\ exec1.pc = due
      BY <1>1, <1>2, StagesInside, TextSeen
    <2> QED
      BY <1>2, <2>1 DEF DueExec0, After, HLT, JumpOps
  <1>4. exec0.active /\ exec0.pc # h
    BY <1>1, <1>2, <1>3 DEF PlaceOf
  <1>5. Present(exec0)
    <2>1. exec0.pc \in Int
      BY <1>0, <1>1, <1>4 DEF PcInv, InMemory
    <2>2. Nop(exec0) => exec0.pc + 1 = h + 1
      BY <1>1, <1>3, <1>4 DEF OrderInv, ChainInv, Follows
    <2> QED
      BY <1>1, <1>4, <2>1, <2>2 DEF Present
  <1>6. \A k \in h + 1 .. h + 3 : srami[k] = 0
    BY <1>1 DEF Ends
  <1>7. exec0.inst = 0 /\ DueDec1 = h + 2
    <2>1. exec0.inst = srami[h + 1] /\ exec0.pc = h + 1
      BY <1>1, <1>3, <1>5, StagesInside
    <2>2. exec0.inst = 0
      BY <1>1, <1>6, <2>1
    <2> QED
      BY <1>1, <1>4, <2>1, <2>2, NopFields DEF DueDec1, After, ADD, JumpOps
  <1>8. DueDec0 \in h + 2 .. h + 3
    <2>1. CASE ~Present(dec1)
      BY <1>1, <1>7, <2>1, PresentSeen DEF OrderInv, ChainInv, DueDec0
    <2>2. CASE Present(dec1)
      <3>1. dec1.inst = srami[h + 2] /\ dec1.pc = h + 2
        BY <1>7, <2>2, StagesInside
      <3>2. dec1.inst = 0
        BY <1>1, <1>6, <3>1
      <3> QED
        BY <1>1, <2>2, <3>1, <3>2, NopFields DEF DueDec0, After, Present, ADD, JumpOps
    <2> QED
      BY <2>1, <2>2
  <1>9. ASSUME dec0.active PROVE dec0.inst = 0 /\ dec0.pc \in 0 .. h + 3
    <2>1. CASE Present(dec0)
      BY <1>1, <1>6, <1>8, <2>1, StagesInside
    <2>2. CASE ~Present(dec0)
      <3>1. dec0.inst = 0 /\ dec0.pc + 1 = DueDec0
        BY <1>1, <1>9, <2>2 DEF Present, Nop, OrderInv, ChainInv, Follows
      <3>2. dec0.pc \in 0 .. Height - 1
        BY <1>9 DEF TextInv, OperandInv, TypesInv, PcInv, InMemory
      <3> QED
        BY <1>1, <1>8, <3>1, <3>2, PipeAssumption
    <2> QED
      BY <2>1, <2>2
  <1>10. ASSUME fetch0_active PROVE fetch0_pc \in 0 .. Height - 1
    <2>1. CASE dec0.active
      <3>1. ~bubble
        BY <1>1, <1>10 DEF FrontInStep
      <3>2. fetch1_pc = dec0.pc + 1 /\ fetch0_pc = fetch1_pc + 1
        BY <1>1, <1>10, <2>1, <3>1 DEF FrontInStep, PlaceInv
      <3> QED
        BY <1>0, <1>1, <1>9, <2>1, <3>2
    <2>2. CASE ~dec0.active
      <3>1. (IF fetch1_active THEN fetch1_pc ELSE fetch0_pc) = DueDec0
        BY <1>1, <2>2 DEF OrderInv, ChainInv
      <3>2. fetch1_active => fetch0_pc = fetch1_pc + 1
        BY <1>1, <1>10 DEF PlaceInv
      <3> QED
        BY <1>0, <1>1, <1>8, <3>1, <3>2
    <2> QED
      BY <2>1, <2>2
  <1> QED
    BY <1>3, <1>4, <1>7, <1>9, <1>10, NopFields DEF Op0

\* Nothing ends the program in the clock in which HLT retires.
LEMMA HaltServed ==
    ASSUME NEW h, TextInv(h), RunInv, sim = "running", Halts
    PROVE  Verdict = "run"
  <1>1. /\ dec0.active => dec0.inst = 0
        /\ fetch0_active => fetch0_pc \in 0 .. Height - 1
        /\ exec0.active /\ Op0 = ADD
    BY BehindHalt
  <1>2. ~Refused
    BY <1>1 DEF Refused, Issues
  <1>3. DReads = {} /\ DWrites = {}
    <2>1. dma_cnt = 0 /\ ~dma_write_active
      BY DEF RunInv, EffectInv
    <2>2. ~DmaReads /\ ~DmaWrites
      BY <2>1 DEF DmaReads, DmaWrites
    <2> QED
      BY <1>1, <2>2 DEF DReads, DWrites, LD, ST, ADD
  <1>4. DSRAM!Verdict(DReads, DWrites) = "run"
    BY <1>3 DEF DSRAM!Verdict, DSRAM!Conflict, DSRAM!OutOfRange, DSRAM!Wild
  <1>5. ~(Issues /\ bubble)
    <2>1. bubble => Waits(dec0.inst) # {}
      BY DEF TextInv, PlaceOf
    <2> QED
      BY <1>1, <2>1, NopFields DEF Waits, Issues
  <1>6. \A q \in IReads : q = [by |-> "fetch0", addr |-> fetch0_pc] /\ fetch0_active
    BY <1>5 DEF IReads
  <1>7. \A q \in IReads : q.addr \in 0 .. Height - 1
    BY <1>1, <1>6
  <1>8. ISRAM!Verdict(IReads, {}) = "run"
    <2>1. ~ISRAM!Conflict(IReads, {})
      BY <1>6 DEF ISRAM!Conflict
    <2>2. ~ISRAM!OutOfRange(IReads, {}) /\ ~ISRAM!Wild(IReads, {})
      BY <1>7, PipeAssumption DEF ISRAM!OutOfRange, ISRAM!Wild
    <2> QED
      BY <2>1, <2>2 DEF ISRAM!Verdict
  <1> QED
    BY <1>2, <1>4, <1>8 DEF Verdict

LEMMA CommonNow ==
    ASSUME NEW h, TextInv(h), RunInv, CommonRule(srami, h), sim = "running"
    PROVE  CommonRulesKept
  <1>1. /\ PlaceOf(h) /\ h \in Nat /\ Ends(srami, h) /\ due \in 0 .. h
        /\ DisciplinedTo(srami, h) /\ OrderInv
    BY DEF TextInv, DisciplinedTo, PlaceOf
  <1>2. CommonKept
    <2> SUFFICES ASSUME exec0.active, Op0 \in {LHI, DMA, POL} PROVE FALSE
      BY DEF CommonKept
    <2>1. Present(exec0) /\ Op0 = Opcode(exec0.inst)
      BY NotNop DEF Op0, LHI, DMA, POL, ADD
    <2>2. DueExec0 \in 0 .. h + 3 /\ exec0.inst = srami[DueExec0]
      BY <1>1, <2>1, StagesInside
    <2>3. DueExec0 \in 0 .. h
      BY <1>1, <2>1, <2>2, TextSeen DEF LHI, DMA, POL, ADD
    <2> QED
      BY <2>1, <2>2, <2>3 DEF CommonRule
  <1>3. FirstHaltKept
    <2> SUFFICES ASSUME Retires, NEW q \in 0 .. exec1.pc - 1 PROVE Opcode(srami[q]) # HLT
      BY DEF FirstHaltKept
    <2>1. exec1.pc = due
      BY StagesInside DEF Retires, Present, Nop
    <2>2. q \in 0 .. h - 1
      BY <1>1, <2>1
    <2> QED
      BY <1>1, <2>2 DEF Ends
  <1>4. EndKept /\ HaltLineKept
    BY BehindHalt, HaltServed DEF EndKept, HaltLineKept
  <1> QED
    BY <1>2, <1>3, <1>4, ZeroNow DEF CommonRulesKept

\* As RulesRest, of the rules for programs that the instruction-set simulator has.
LEMMA CommonRest ==
    ASSUME CommonRulesKept, Rests \/ Halt
    PROVE  CommonRulesKept'
  <1>1. CASE Rests
    <2>1. UNCHANGED <<front, jtaken, r_busy, exec0, exec1>> /\ UNCHANGED <<dma, mems>>
      BY <1>1 DEF Rests, back
    <2>2. Op0' = Op0 /\ Op1' = Op1 /\ Issues' = Issues
      BY <2>1 DEF Op0, Op1, Issues, Stalled, front
    <2>3. IReads' = IReads /\ Refused' = Refused
      BY <2>1, <2>2 DEF IReads, Refused, front
    <2>4. DReads' = DReads /\ DWrites' = DWrites
      <3>1. DmaReads' = DmaReads /\ DmaWrites' = DmaWrites
        BY <2>1, <2>2 DEF DmaReads, DmaWrites, DmaEnable, dma
      <3> QED
        BY <2>1, <2>2, <3>1 DEF DReads, DWrites, dma
    <2>5. Verdict' = Verdict
      BY <2>3, <2>4 DEF Verdict, DSRAM!Verdict, DSRAM!Conflict, DSRAM!OutOfRange, DSRAM!Wild,
                        ISRAM!Verdict, ISRAM!Conflict, ISRAM!OutOfRange, ISRAM!Wild
    <2> QED
      BY <2>1, <2>2, <2>5 DEF CommonRulesKept, CommonKept, ZeroKept, FirstHaltKept, EndKept,
                              HaltLineKept, Halts, Retires, mems
  <1>2. CASE Halt
    <2>1. ~exec0'.active /\ ~exec1'.active
      BY <1>2 DEF Halt, Empty
    <2>2. Op1' = 0
      BY <2>1 DEF Op1
    <2> QED
      BY <2>1, <2>2 DEF CommonRulesKept, CommonKept, ZeroKept, FirstHaltKept, EndKept,
                        HaltLineKept, Halts, Retires, HLT
  <1> QED
    BY <1>1, <1>2

\* As Keeping, of a program that the instruction-set simulator has, too.
Running(h) ==
    /\ Keeping(h) /\ RunInv /\ CommonRule(srami, h)
    /\ sim # "running" => CommonRulesKept

LEMMA RunningNow ==
    ASSUME NEW h, Running(h)
    PROVE  Kept
  BY KeepingNow, CommonNow DEF Running, Keeping, Kept, RulesKept

LEMMA RunningStep ==
    ASSUME AluClosed, Height \in Word, Alu(ADD, 0, 0, 0) = 0,
           NEW h, Running(h), [IssNext]_issvars
    PROVE  Running(h)'
  <1>1. Kept /\ CommonRulesKept /\ Keeping(h)
    BY RunningNow DEF Running, Kept
  <1>2. Keeping(h)'
    BY <1>1, KeepingStep
  <1>3. RunInv'
    BY <1>1, RunStep DEF Running, Kept, CommonRulesKept
  <1>4. [Next]_vars
    BY DEF IssNext, issvars
  <1>5. CommonRule(srami, h)'
    <2>1. srami' = srami
      BY MemTypes, StepCases, <1>4
      DEF Moves, Empties, Rests, mems, Running, RunInv, OperandInv, TypesInv
    <2> QED
      BY <2>1 DEF Running, CommonRule
  <1>6. ASSUME sim' # "running" PROVE CommonRulesKept'
    <2>1. Rests \/ Halt
      BY <1>4, <1>6, StepCases DEF Moves, Empties, Flush, Tick
    <2> QED
      BY <1>1, <2>1, CommonRest
  <1> QED
    BY <1>2, <1>3, <1>5, <1>6 DEF Running

LEMMA RunningInit ==
    ASSUME NEW h \in 0 .. Height - 1, IssInit, DisciplinedTo(srami, h), CommonRule(srami, h)
    PROVE  Running(h)
  <1>1. h \in Nat /\ sim = "running"
    BY DEF IssInit, Init
  <1> QED
    BY <1>1, TextInit, RunInit DEF Running, Keeping

LEMMA PortableKeeps ==
    ASSUME AluClosed, Height \in Word, Alu(ADD, 0, 0, 0) = 0
    PROVE  IssPipeSpec /\ Portable(srami) => []Kept
  <1>1. SUFFICES ASSUME NEW h \in 0 .. Height - 1
                 PROVE  IssPipeSpec /\ DisciplinedTo(srami, h) /\ CommonRule(srami, h) => []Kept
    BY DEF Portable
  <1>2. IssInit /\ DisciplinedTo(srami, h) /\ CommonRule(srami, h) => Running(h)
    BY RunningInit
  <1>3. Running(h) /\ [IssNext]_issvars => Running(h)'
    BY RunningStep
  <1>4. Running(h) => Kept
    BY RunningNow
  <1> QED
    BY <1>2, <1>3, <1>4, PTL DEF IssPipeSpec

\* A program that keeps the rules as they can be read off its text, and has no
\* instruction that iss.c has not or has with another operand, runs on the
\* pipeline as on the instruction-set simulator: in its order, on its registers
\* and memory, up to a dump of the same words, and with the same trace, until it
\* shifts a negative word to the right or compares words of different sign.
THEOREM PortableRunsAlike ==
    ASSUME SpWords, Height \in Word
    PROVE  IssPipeSpec /\ Portable(srami) => IssAgrees /\ TraceAgrees
  <1>0. AluClosed /\ Alu(ADD, 0, 0, 0) = 0
    BY SpAluFits DEF SpWords
  <1>1. IssPipeSpec /\ []Kept => IssAgrees
    BY PipeImplementsIss
  <1>2. IssPipeSpec /\ []Kept => TraceAgrees
    BY TracesAgree
  <1> QED
    BY <1>0, <1>1, <1>2, PortableKeeps, PTL

\* The instruction in exec1 does not depend on a sign.
Signless == exec1.active => Op1 \notin {RSF, JLT, JLE}

\* As Running, of a program without such instructions.
RunningSignless(h) ==
    /\ Running(h) /\ SignRule(srami, h)
    /\ sim # "running" => Signless

LEMMA SignlessNow ==
    ASSUME NEW h, RunningSignless(h)
    PROVE  Signless /\ SignsKept
  <1>1. Signless
    <2>1. CASE sim # "running"
      BY <2>1 DEF RunningSignless
    <2>2. CASE sim = "running"
      <3> SUFFICES ASSUME exec1.active, Op1 \in {RSF, JLT, JLE} PROVE FALSE
        BY DEF Signless
      <3>1. TextInv(h) /\ PlaceOf(h) /\ SignRule(srami, h)
        BY <2>2 DEF RunningSignless, Running, Keeping, TextInv
      <3>2. Present(exec1) /\ Op1 = Opcode(exec1.inst)
        BY NotNop DEF Op1, RSF, JLT, JLE, ADD
      <3>3. exec1.inst = srami[due] /\ due \in 0 .. h
        BY <2>2, <3>1, <3>2, StagesInside DEF PlaceOf
      <3> QED
        BY <3>1, <3>2, <3>3 DEF SignRule
    <2> QED
      BY <2>1, <2>2
  <1>2. SignsKept
    BY <1>1 DEF Signless, SignsKept, SignBlind, Completes, Retires, RSF, JLT, JLE
  <1> QED
    BY <1>1, <1>2

LEMMA RunningSignlessStep ==
    ASSUME AluClosed, Height \in Word, Alu(ADD, 0, 0, 0) = 0,
           NEW h, RunningSignless(h), [IssNext]_issvars
    PROVE  RunningSignless(h)'
  <1>1. Running(h) /\ Running(h)' /\ [Next]_vars /\ Signless
    BY RunningStep, SignlessNow DEF RunningSignless, IssNext, issvars
  <1>2. SignRule(srami, h)'
    <2>1. srami' = srami
      BY <1>1, MemTypes, StepCases
      DEF Moves, Empties, Rests, mems, Running, RunInv, OperandInv, TypesInv
    <2> QED
      BY <2>1 DEF RunningSignless, SignRule
  <1>3. ASSUME sim' # "running" PROVE Signless'
    <2>1. Rests \/ Halt
      BY <1>1, <1>3, StepCases DEF Moves, Empties, Flush, Tick
    <2> QED
      BY <1>1, <2>1 DEF Rests, back, Halt, Empty, Signless, Op1
  <1> QED
    BY <1>1, <1>2, <1>3 DEF RunningSignless

\* Without right shifts and comparisons by order it does so to the end.
THEOREM SignFreeRunsAlike ==
    ASSUME SpWords, Height \in Word
    PROVE  IssPipeSpec /\ SignFree(srami) => IssSpec /\ TraceAgrees /\ [](alike = TRUE)
  <1>0. AluClosed /\ Alu(ADD, 0, 0, 0) = 0
    BY SpAluFits DEF SpWords
  <1>1. SUFFICES ASSUME NEW h \in 0 .. Height - 1
                 PROVE  IssPipeSpec /\ DisciplinedTo(srami, h) /\ CommonRule(srami, h)
                          /\ SignRule(srami, h) => IssSpec /\ TraceAgrees /\ [](alike = TRUE)
    BY DEF SignFree
  <1>2. IssInit /\ DisciplinedTo(srami, h) /\ CommonRule(srami, h) /\ SignRule(srami, h)
          => RunningSignless(h)
    BY RunningInit DEF RunningSignless, IssInit, Init
  <1>3. RunningSignless(h) /\ [IssNext]_issvars => RunningSignless(h)'
    BY <1>0, RunningSignlessStep
  <1>4. RunningSignless(h) => Kept /\ SignsKept
    BY SignlessNow, RunningNow DEF RunningSignless
  <1>5. IssPipeSpec /\ []Kept /\ []SignsKept => IssSpec /\ [](alike = TRUE)
    BY AlikeImplementsIss
  <1>6. IssPipeSpec /\ []Kept => TraceAgrees
    BY TracesAgree
  <1> QED
    BY <1>2, <1>3, <1>4, <1>5, <1>6, PTL DEF IssPipeSpec

-----------------------------------------------------------------------------
(***************************************************************************)
(* The pace of the pipeline.                                               *)
(***************************************************************************)
\* A stage without an instruction.
Idle(s) == ~s.active \/ s.inst = 0

\* Nothing waits while no writer is ahead.
LEMMA IdleIssues ==
    ASSUME NEW h, TextInv(h), sim = "running", Idle(exec1), Idle(exec0), Idle(dec1)
    PROVE  ~Stalled
  <1>1. BusyHasWriter /\ r_busy \subseteq RegId \ {0}
    BY DEF TextInv, FilledInv, OperandInv, TypesInv, TypeOK
  <1>2. Dst(0) = 0
    BY NopFields
  <1>3. r_busy = {}
    BY <1>1, <1>2 DEF BusyHasWriter, Idle
  <1> QED
    BY <1>3 DEF Stalled

\* A pipeline without an instruction fetches the one that is due, which is no
\* zero word.
LEMMA IdleFetches ==
    ASSUME NEW h, TextInv(h), sim = "running",
           Idle(exec1), Idle(exec0), Idle(dec1), Idle(dec0), fetch1_active
    PROVE  idataout # 0
  <1>1. /\ OrderInv /\ h \in Nat /\ Ends(srami, h) /\ due \in 0 .. h
        /\ FrontInStep /\ PlaceInv /\ PortFresh
    BY DEF TextInv, DisciplinedTo, PlaceOf, OrderInv, FlowInv, FrontInv, FreshInv
  <1>2. /\ Follows(exec1, due) /\ Follows(exec0, DueExec0)
        /\ Follows(dec1, DueDec1) /\ Follows(dec0, DueDec0)
        /\ ~dec0.active => fetch1_pc = DueDec0
    BY <1>1 DEF OrderInv, ChainInv
  <1>3. srami[due] # 0
    <2>1. CASE due = h
      BY <1>1, <2>1, NopFields DEF Ends, ADD, HLT
    <2>2. CASE due # h
      BY <1>1, <2>2 DEF Ends
    <2> QED
      BY <2>1, <2>2
  <1>4. ~Present(exec1) /\ DueExec0 = due
    <2>1. ~Present(exec1)
      BY <1>1, <1>2, <1>3, PresentSeen DEF Present, Idle
    <2> QED
      BY <1>1, <1>2, <2>1, PresentSeen DEF DueExec0
  <1>5. ~Present(exec0) /\ DueDec1 = due
    <2>1. ~Present(exec0)
      BY <1>1, <1>2, <1>3, <1>4, PresentSeen DEF Present, Idle
    <2> QED
      BY <1>1, <1>2, <1>4, <2>1, PresentSeen DEF DueDec1
  <1>6. ~Present(dec1) /\ DueDec0 = due
    <2>1. ~Present(dec1)
      BY <1>1, <1>2, <1>3, <1>5, PresentSeen DEF Present, Idle
    <2> QED
      BY <1>1, <1>2, <1>5, <2>1, PresentSeen DEF DueDec0
  <1>7. ~Present(dec0)
    BY <1>1, <1>2, <1>3, <1>6, PresentSeen DEF Present, Idle
  <1>8. fetch1_pc = due
    <2>1. CASE dec0.active
      <3>1. dec0.pc + 1 = due
        BY <1>2, <1>6, <1>7, <2>1 DEF Present, Follows, Nop
      <3>2. fetch1_pc = dec0.pc + 1
        BY <1>1, <2>1 DEF FrontInStep, PlaceInv
      <3> QED
        BY <3>1, <3>2
    <2>2. CASE ~dec0.active
      BY <1>2, <1>6, <2>2
    <2> QED
      BY <2>1, <2>2
  <1> QED
    BY <1>1, <1>3, <1>8 DEF PortFresh

\* Every stage that no instruction waits in front of hands on what it has.
LEMMA NearerRetirement ==
    ASSUME NEW h, TextInv(h), Moves, ~Retires
    PROVE  ToRetire' < ToRetire
  <1>1. /\ sim = "running" /\ exec0' = NextExec0 /\ exec1' = NextExec1
        /\ dec1' = IF Issues THEN dec0 ELSE Empty
        /\ FrontTypes /\ FrontInStep /\ PlaceInv /\ PlaceOf(h) /\ ~Empty.active
    BY Handed DEF Moves, Tick, TextInv, OrderInv, FlowInv, FrontInv, Empty
  <1>2. ToRetire' \in 0 .. 6 /\ Idle(exec1)
    BY DEF ToRetire, Retires, Idle
  <1>3. CASE ~Idle(exec0)
    <2>1. exec1'.active /\ exec1'.inst # 0
      BY <1>1, <1>3 DEF NextExec1, Idle
    <2> QED
      BY <1>3, <2>1 DEF ToRetire, Retires, Idle
  <1>4. CASE Idle(exec0) /\ ~Idle(dec1)
    <2>1. exec0'.active /\ exec0'.inst # 0
      BY <1>1, <1>4 DEF NextExec0, Idle
    <2>2. ToRetire = 2
      BY <1>4 DEF ToRetire, Idle
    <2> QED
      BY <2>1, <2>2 DEF ToRetire
  <1>5. CASE Idle(exec0) /\ Idle(dec1) /\ ~Idle(dec0)
    <2>1. Issues
      BY <1>1, <1>2, <1>5, IdleIssues DEF Issues, Idle
    <2>2. dec1'.active /\ dec1'.inst # 0
      BY <1>1, <1>5, <2>1 DEF Idle
    <2>3. ToRetire = 3
      BY <1>5 DEF ToRetire, Idle
    <2> QED
      BY <2>2, <2>3 DEF ToRetire
  <1>6. CASE Idle(exec0) /\ Idle(dec1) /\ Idle(dec0) /\ fetch1_active
    <2>1. idataout # 0 /\ ~bubble /\ ~Stalled
      BY <1>1, <1>2, <1>6, IdleFetches, IdleIssues DEF FrontInStep
    <2>2. Fill \/ Issue
      BY <2>1 DEF Moves, Stall, Release
    <2>3. Issue => ~Predicted
      BY <1>6, NopFields DEF Predicted, Issue, Issues, Idle, ADD, JumpOps
    <2>4. dec0' = Fetched
      BY <1>6, <2>2, <2>3 DEF Fill, Issue
    <2>5. dec0'.active /\ dec0'.inst # 0
      BY <2>1, <2>4 DEF Fetched
    <2>6. ToRetire = 4
      BY <1>6 DEF ToRetire, Idle
    <2> QED
      BY <2>5, <2>6 DEF ToRetire
  <1>7. CASE Idle(exec0) /\ Idle(dec1) /\ Idle(dec0) /\ ~fetch1_active
    <2>1. ~bubble
      BY <1>1, <1>7, NopFields DEF PlaceOf, Waits, FrontInStep, Idle
    <2>2. ~dec0.active /\ start
      BY <1>1, <1>7, <2>1 DEF FrontInStep, PlaceInv
    <2>3. Fill
      BY <2>2 DEF Moves, Stall, Stalled, Release, Issue, Issues
    <2>4. fetch0_active' /\ (fetch0_active => fetch1_active')
      BY <1>1, <2>2, <2>3 DEF Fill
    <2>5. ToRetire = IF fetch0_active THEN 5 ELSE 6
      BY <1>7 DEF ToRetire, Idle
    <2> QED
      BY <2>4, <2>5 DEF ToRetire
  <1> QED
    BY <1>3, <1>4, <1>5, <1>6, <1>7

\* A program that keeps the rules has an instruction retire in every seven
\* clocks, through stalls, flushes and transfers: the safety that is in the
\* promise that it keeps retiring, with its bound.
THEOREM DisciplinedRetiresSoon ==
    ASSUME AluClosed, Height \in Word, Alu(ADD, 0, 0, 0) = 0
    PROVE  IssPipeSpec /\ Disciplined(srami) => RetiresSoon
  <1> DEFINE Nearer == ~Retires /\ sim' = "running" => ToRetire' < ToRetire
  <1>1. SUFFICES ASSUME NEW h \in 0 .. Height - 1
                 PROVE  IssPipeSpec /\ DisciplinedTo(srami, h) => [][Nearer]_vars
    BY DEF Disciplined, RetiresSoon
  <1>2. IssInit /\ DisciplinedTo(srami, h) => Keeping(h)
    BY KeepingInit
  <1>3. Keeping(h) /\ [IssNext]_issvars => Keeping(h)'
    BY KeepingStep
  <1>4. Keeping(h) /\ [IssNext]_issvars => [Nearer]_vars
    <2> SUFFICES ASSUME Keeping(h), IssNext, ~Retires, sim' = "running"
                 PROVE  ToRetire' < ToRetire
      BY DEF issvars
    <2>1. ~Mispredicts /\ ~Halts
      BY NopFields DEF Mispredicts, Halts, Op1, Retires, ADD, JumpOps, HLT
    <2>2. Moves
      BY <2>1, AbortFails DEF IssNext, Next, Advance, Flush, Halt, Moves
    <2> QED
      BY <2>2, NearerRetirement DEF Keeping
  <1> QED
    BY <1>2, <1>3, <1>4, PTL DEF IssPipeSpec

-----------------------------------------------------------------------------
(***************************************************************************)
(* How a program ends.                                                     *)
(***************************************************************************)
\* What is fetched of a program that keeps the rules is in the memory, on the
\* wrong path and behind HLT, too.
LEMMA FetchInside ==
    ASSUME NEW h, TextInv(h), sim = "running"
    PROVE  ISRAM!Verdict(IReads, {}) = "run"
  <1>1. /\ h \in Nat /\ h + 5 < Height /\ due \in 0 .. h /\ OrderInv
        /\ FrontInStep /\ PlaceInv /\ TypesInv /\ OneFetch
    BY DEF TextInv, DisciplinedTo, Ends, PlaceOf, OrderInv, FreshInv, FlowInv, FrontInv,
           TypesInv, PortInv
  <1>2. Height \in Nat /\ fetch0_pc \in Nat /\ fetch1_pc \in Nat
    BY <1>1, PipeAssumption, ImmModAssumption DEF TypesInv, TypeOK
  <1>3. DueDec0 \in 0 .. h + 3
    BY StagesInside
  <1>4. ASSUME dec0.active PROVE dec0.pc \in 0 .. h + 3
    <2>1. dec0.pc = DueDec0 \/ dec0.pc + 1 = DueDec0
      BY <1>1, <1>4 DEF OrderInv, ChainInv, Follows
    <2>2. dec0.pc \in 0 .. Height - 1
      BY <1>1, <1>4 DEF TypesInv, PcInv, InMemory
    <2> QED
      BY <1>1, <1>2, <1>3, <2>1, <2>2
  <1>5. ASSUME fetch0_active PROVE fetch0_pc < Height
    <2>1. CASE dec0.active
      <3>1. fetch1_pc = dec0.pc + 1 /\ fetch0_pc = fetch1_pc + 1
        BY <1>1, <1>5, <2>1 DEF FrontInStep, PlaceInv
      <3> QED
        BY <1>1, <1>2, <1>4, <2>1, <3>1
    <2>2. CASE ~dec0.active
      <3>1. (IF fetch1_active THEN fetch1_pc ELSE fetch0_pc) = DueDec0
        BY <1>1, <2>2 DEF OrderInv, ChainInv
      <3>2. fetch1_active => fetch0_pc = fetch1_pc + 1
        BY <1>1, <1>5 DEF PlaceInv
      <3> QED
        BY <1>1, <1>2, <1>3, <3>1, <3>2
    <2> QED
      BY <2>1, <2>2
  <1>6. ASSUME Issues, bubble PROVE fetch1_pc < Height
    <2>1. dec0.active /\ fetch1_pc = dec0.pc + 1
      BY <1>1, <1>6 DEF Issues, PlaceInv
    <2> QED
      BY <1>1, <1>2, <1>4, <2>1
  <1>7. \A q \in IReads : q.addr \in Nat /\ q.addr < Height
    BY <1>2, <1>5, <1>6 DEF IReads
  <1>8. ~ISRAM!OutOfRange(IReads, {}) /\ ~ISRAM!Wild(IReads, {})
    BY <1>2, <1>7 DEF ISRAM!OutOfRange, ISRAM!Wild
  <1> QED
    BY <1>1, <1>8, FetchesCollideOnlyTogether DEF ISRAM!Verdict

\* So nothing but its own loads, stores, transfers and destinations can make a
\* program that keeps the rules fail.
LEMMA AccessServed ==
    ASSUME NEW h, TextInv(h), sim = "running", AccessKept
    PROVE  Verdict = "run"
  <1>1. ~DSRAM!OutOfRange(DReads, DWrites) /\ ~DSRAM!Wild(DReads, DWrites)
    BY PipeAssumption DEF AccessKept, DSRAM!OutOfRange, DSRAM!Wild
  <1>2. DSRAM!Verdict(DReads, DWrites) = "run"
    BY <1>1, DataRequestsNeverCollide DEF DSRAM!Verdict
  <1> QED
    BY <1>2, FetchInside DEF Verdict, AccessKept

LEMMA EndsStep ==
    ASSUME NEW h, Keeping(h), EndsWell, AccessKept, [IssNext]_issvars
    PROVE  EndsWell'
  <1>1. CASE Abort
    BY <1>1, AccessServed DEF Abort, Keeping
  <1>2. CASE IssNext /\ ~Abort
    BY <1>2 DEF IssNext, Next, Advance, Flush, Halt, EndsWell
  <1>3. CASE UNCHANGED issvars
    BY <1>3 DEF issvars, vars, EndsWell
  <1> QED
    BY <1>1, <1>2, <1>3

\* A program that keeps the rules ends with HLT or not at all, if its loads,
\* stores and transfers stay in the data memory and it writes no register 0: no
\* fetch on a wrong path or behind HLT leaves the memory, no nop of a stall is
\* refused, and no two requests meet at a port.
THEOREM DisciplinedEndsWell ==
    ASSUME AluClosed, Height \in Word, Alu(ADD, 0, 0, 0) = 0
    PROVE  IssPipeSpec /\ Disciplined(srami) /\ []AccessKept => []EndsWell
  <1>1. SUFFICES ASSUME NEW h \in 0 .. Height - 1
                 PROVE  IssPipeSpec /\ DisciplinedTo(srami, h) /\ []AccessKept => []EndsWell
    BY DEF Disciplined
  <1>2. IssInit /\ DisciplinedTo(srami, h) => Keeping(h) /\ EndsWell
    BY KeepingInit DEF IssInit, Init, EndsWell
  <1>3. Keeping(h) /\ [IssNext]_issvars => Keeping(h)'
    BY KeepingStep
  <1>4. Keeping(h) /\ EndsWell /\ AccessKept /\ [IssNext]_issvars => EndsWell'
    BY EndsStep
  <1> QED
    BY <1>2, <1>3, <1>4, PTL DEF IssPipeSpec

\* What a program with addresses in its text has in exec0 when it loads or stores.
DirectInv(h) ==
    /\ DirectRule(srami, h)
    /\ exec0.active /\ Op0 \in {LD, ST} => exec0.alu1 = Imm(exec0.inst)
    /\ EndsWell

LEMMA DirectServed ==
    ASSUME NEW h, Keeping(h), DirectInv(h), sim = "running"
    PROVE  AccessKept
  <1>1. /\ TextInv(h) /\ h \in Nat /\ DisciplinedTo(srami, h) /\ PlaceOf(h)
        /\ DirectRule(srami, h)
    BY DEF Keeping, TextInv, DirectInv
  <1>2. ~Refused
    <2> SUFFICES ASSUME Refused PROVE FALSE
      OBVIOUS
    <2>1. dec0.active /\ dec0.inst # 0 /\ Dst(dec0.inst) = 0
          /\ Opcode(dec0.inst) \notin JumpOps \cup {ST, HLT, DMA}
      BY DEF Refused, Issues
    <2>2. DueDec0 \in 0 .. h + 3 /\ dec0.inst = srami[DueDec0]
      BY <1>1, <2>1, StagesInside DEF Present, Nop
    <2>3. DueDec0 \in 0 .. h
      BY <1>1, <2>1, <2>2, TextSeen
    <2> QED
      BY <1>1, <2>1, <2>2, <2>3 DEF DirectRule
  <1>3. ~DmaReads /\ ~DmaWrites
    BY <1>1 DEF PlaceOf, DirectRule, DmaReads, DmaWrites
  <1>4. Op0 \in {LD, ST} => exec0.alu1 \in 0 .. Height - 1
    <2> SUFFICES ASSUME Op0 \in {LD, ST} PROVE exec0.alu1 \in 0 .. Height - 1
      OBVIOUS
    <2>1. exec0.active /\ Op0 = Opcode(exec0.inst)
      BY DEF Op0, LD, ST
    <2>2. Present(exec0)
      BY <2>1, NotNop DEF LD, ST, ADD
    <2>3. DueExec0 \in 0 .. h + 3 /\ exec0.inst = srami[DueExec0]
      BY <1>1, <2>2, StagesInside
    <2>4. DueExec0 \in 0 .. h
      BY <1>1, <2>1, <2>3, TextSeen DEF LD, ST, ADD
    <2>5. exec0.inst \in Word /\ Imm(exec0.inst) < Height
      BY <1>1, <2>1, <2>3, <2>4, StageWords DEF DirectRule, TextInv, OperandInv, TypesInv
    <2> QED
      BY <2>1, <2>5, FieldRanges, PipeAssumption, ImmModAssumption DEF DirectInv, Immediate
  <1> QED
    BY <1>2, <1>3, <1>4 DEF AccessKept, DReads, DWrites

LEMMA DirectStep ==
    ASSUME AluClosed, Height \in Word, Alu(ADD, 0, 0, 0) = 0,
           NEW h, Keeping(h), DirectInv(h), [IssNext]_issvars
    PROVE  DirectInv(h)'
  <1>1. TextInv(h) /\ h \in Nat /\ DisciplinedTo(srami, h) /\ DirectRule(srami, h) /\ TypesInv
    BY DEF Keeping, TextInv, DirectInv, OperandInv
  <1>2. [Next]_vars
    BY DEF IssNext, issvars
  <1>3. srami' = srami
    BY <1>1, <1>2, MemTypes, StepCases DEF Moves, Empties, Rests, mems, TypesInv
  <1>4. DirectRule(srami, h)'
    BY <1>1, <1>3 DEF DirectRule
  <1>5. (exec0.active /\ Op0 \in {LD, ST} => exec0.alu1 = Imm(exec0.inst))'
    <2>1. CASE Rests
      BY <2>1 DEF Rests, DirectInv, Op0, back
    <2>2. CASE Empties
      BY <2>2 DEF Empties, Empty
    <2>3. CASE Moves
      <3> SUFFICES ASSUME exec0'.active, Opcode(exec0'.inst) \in {LD, ST}
                   PROVE  exec0'.alu1 = Imm(exec0'.inst)
        BY DEF Op0
      <3>1. /\ dec1.active /\ exec0'.inst = dec1.inst /\ sim = "running"
            /\ exec0'.alu1 = Operand1(r, dec1.inst)
        BY <2>3 DEF Moves, Tick, NextExec0, Empty
      <3>2. Present(dec1)
        BY <3>1, NotNop DEF LD, ST, ADD
      <3>3. DueDec1 \in 0 .. h + 3 /\ dec1.inst = srami[DueDec1]
        BY <1>1, <3>1, <3>2, StagesInside
      <3>4. DueDec1 \in 0 .. h
        BY <1>1, <3>1, <3>3, TextSeen DEF LD, ST, ADD
      <3>5. Src1(dec1.inst) = 1
        BY <1>1, <3>1, <3>3, <3>4 DEF DirectRule
      <3> QED
        BY <3>1, <3>5 DEF Operand1, Operand
    <2> QED
      BY <1>2, <2>1, <2>2, <2>3, StepCases
  <1>6. EndsWell'
    <2>1. CASE sim = "running"
      BY <2>1, DirectServed, EndsStep DEF DirectInv
    <2>2. CASE sim # "running"
      <3>1. sim' = sim
        BY <1>2, <2>2 DEF Next, Advance, Flush, Halt, Abort, Tick, vars
      <3> QED
        BY <3>1 DEF DirectInv, EndsWell
    <2> QED
      BY <2>1, <2>2
  <1> QED
    BY <1>4, <1>5, <1>6 DEF DirectInv

\* That can be read off the text of a program without transfers whose loads and
\* stores have their addresses in the text: it ends with HLT or not at all.
THEOREM DirectEndsWell ==
    ASSUME AluClosed, Height \in Word, Alu(ADD, 0, 0, 0) = 0
    PROVE  IssPipeSpec /\ Direct(srami) => []EndsWell
  <1>1. SUFFICES ASSUME NEW h \in 0 .. Height - 1
                 PROVE  IssPipeSpec /\ DisciplinedTo(srami, h) /\ DirectRule(srami, h)
                          => []EndsWell
    BY DEF Direct
  <1>2. IssInit /\ DisciplinedTo(srami, h) /\ DirectRule(srami, h)
          => Keeping(h) /\ DirectInv(h)
    <2> SUFFICES ASSUME IssInit, DisciplinedTo(srami, h), DirectRule(srami, h)
                 PROVE  Keeping(h) /\ DirectInv(h)
      OBVIOUS
    <2>1. ~exec0.active /\ sim = "running"
      BY DEF IssInit, Init, Empty
    <2>2. DirectInv(h)
      BY <2>1 DEF DirectInv, EndsWell
    <2> QED
      BY <2>2, KeepingInit
  <1>3. Keeping(h) /\ [IssNext]_issvars => Keeping(h)'
    BY KeepingStep
  <1>4. Keeping(h) /\ DirectInv(h) /\ [IssNext]_issvars => DirectInv(h)'
    BY DirectStep
  <1>5. DirectInv(h) => EndsWell
    BY DEF DirectInv
  <1> QED
    BY <1>2, <1>3, <1>4, <1>5, PTL DEF IssPipeSpec

\* No program that keeps the rules loses, repeats or reorders an instruction,
\* computes on a register that is still to be written, waits for one that nobody
\* writes, goes seven clocks without retiring an instruction, or has a transfer
\* that writes a word too many, leaves one out or rests between two words.
THEOREM DisciplinedRunsWell ==
    ASSUME AluClosed, Height \in Word, Alu(ADD, 0, 0, 0) = 0
    PROVE  IssPipeSpec /\ Disciplined(srami) =>
             /\ []StallKeepsPlace /\ []RetireInOrder /\ []OperandsFresh /\ []BusyHasWriter
             /\ []NoOverrun /\ DmaInStep /\ DmaRate /\ RetiresSoon
  <1>1. RulesKept => /\ DestinationKept /\ WriteKept /\ JumpKept
                     /\ FillKept /\ StoreKept /\ DmaKept /\ PairKept
    BY DEF RulesKept, DmaKept, PairKept
  <1>2. Spec /\ []FillKept /\ []JumpKept => []StallKeepsPlace
    BY StallAlwaysKeepsPlace
  <1>3. Spec /\ []WriteKept => []OperandsFresh
    BY OperandsAlwaysFresh
  <1>4. Spec /\ []DestinationKept => []BusyHasWriter
    BY BusyWhileWritten
  <1>5. Spec /\ []DmaKept => []NoOverrun
    BY NeverOverruns
  <1>6. Spec /\ []PairKept => DmaInStep /\ DmaRate
    BY TransferInStep, TransferKeepsRate
  <1>7. IssPipeSpec /\ []FillKept /\ []JumpKept /\ []ZeroKept => []RetireInOrder
    BY RetiresInOrder
  <1>8. IssPipeSpec /\ Disciplined(srami) => RetiresSoon
    BY DisciplinedRetiresSoon
  <1> QED
    BY <1>1, <1>2, <1>3, <1>4, <1>5, <1>6, <1>7, <1>8, TextKeepsRules, HistoryOnly, PTL
=============================================================================
