---------------------------- MODULE SPPipeProofs ----------------------------
(***************************************************************************)
(* Proofs about the pipelined processor, for every width of words, every   *)
(* size of the memories, every ALU and every set of programs, whether or   *)
(* not they keep the rules of SPPipeRules.                                 *)
(***************************************************************************)
EXTENDS SPPipeProps, SPIsaProofs, TLAPS

-----------------------------------------------------------------------------
(***************************************************************************)
(* The front of the pipeline.                                              *)
(***************************************************************************)
FrontTypes ==
    /\ start \in BOOLEAN /\ bubble \in BOOLEAN
    /\ fetch0_active \in BOOLEAN /\ fetch1_active \in BOOLEAN
    /\ dec0.active \in BOOLEAN

FrontInv == FrontTypes /\ FrontInStep

Runs == sim = "running" /\ sim' = "running"

\* Every clock of the running pipeline is of one of these kinds.
LEMMA ClockCases ==
    ASSUME Next
    PROVE  \/ Fill /\ Runs
           \/ Stall /\ Runs
           \/ Release /\ Runs
           \/ Issue /\ Runs
           \/ Flush
           \/ Halt
           \/ Abort
  BY DEF Next, Advance, Tick, Runs

LEMMA FrontInit ==
    ASSUME Init
    PROVE  FrontInv
  <1>1. /\ start = TRUE /\ bubble = FALSE
        /\ fetch0_active = FALSE /\ fetch1_active = FALSE
        /\ dec0.active = FALSE
    BY DEF Init, Empty
  <1> QED
    BY <1>1 DEF FrontInv, FrontTypes, FrontInStep

LEMMA FrontStep ==
    ASSUME FrontInv, [Next]_vars
    PROVE  FrontInv'
  <1> USE DEF FrontInv, FrontTypes, FrontInStep, Runs
  <1>1. CASE UNCHANGED vars
    BY <1>1 DEF vars, front
  <1>2. CASE Fill /\ Runs
    BY <1>2 DEF Fill, Fetched, Empty
  <1>3. CASE Stall /\ Runs
    BY <1>3 DEF Stall, Stalled
  <1>4. CASE Release /\ Runs
    BY <1>4 DEF Release, Issues, Empty
  <1>5. CASE Issue /\ Runs
    <2>1. fetch0_active' = TRUE /\ bubble' = FALSE /\ fetch1_active' = ~Predicted
      BY <1>5 DEF Issue
    <2>2. start' \in BOOLEAN
      BY <1>5 DEF Issue, Predicted
    <2>3. fetch0_active /\ fetch1_active /\ dec0.active
      BY <1>5 DEF Issue, Issues, Stalled
    <2>4. CASE Predicted
      <3>1. dec0'.active = FALSE
        BY <1>5, <2>4 DEF Issue, Empty
      <3> QED
        BY <1>5, <2>1, <2>2, <2>4, <3>1
    <2>5. CASE ~Predicted
      <3>1. dec0'.active = TRUE
        BY <1>5, <2>3, <2>5 DEF Issue, Fetched
      <3> QED
        BY <1>5, <2>1, <2>2, <2>5, <3>1
    <2> QED
      BY <2>4, <2>5
  <1>6. CASE Flush
    BY <1>6 DEF Flush, Empty
  <1>7. CASE Halt
    BY <1>7 DEF Halt, Empty
  <1>8. CASE Abort
    BY <1>8 DEF Abort, front
  <1> QED
    BY <1>1, <1>2, <1>3, <1>4, <1>5, <1>6, <1>7, <1>8, ClockCases

\* Stalls, their ends, fills and flushes keep fetch0, fetch1 and dec0 in step.
THEOREM FrontAlwaysInStep == Spec => []FrontInStep
  <1>1. FrontInv => FrontInStep
    BY DEF FrontInv
  <1> QED
    BY <1>1, FrontInit, FrontStep, PTL DEF Spec

-----------------------------------------------------------------------------
(***************************************************************************)
(* The memory ports.                                                       *)
(***************************************************************************)

\* dma_enable keeps the DMA off the clocks of loads and stores, and the DMA
\* reads only when it has nothing to write: no state has a conflict.
LEMMA DataRequestsNeverCollide == ~DSRAM!Conflict(DReads, DWrites)
  <1>1. \A p, q \in DReads : p = q
    BY DEF DReads, DmaReads, DmaEnable, Op0, LD
  <1>2. \A p, q \in DWrites : p = q
    BY DEF DWrites, DmaWrites, DmaEnable, Op0, ST
  <1>3. ~(DReads # {} /\ DWrites # {})
    BY DEF DReads, DWrites, DmaReads, DmaWrites, DmaEnable, Op0, LD, ST
  <1> QED
    BY <1>1, <1>2, <1>3 DEF DSRAM!Conflict

\* fetch0 rests when dec0 repeats a read.
OneFetch == ~(fetch0_active /\ Issues /\ bubble)

LEMMA FetchesCollideOnlyTogether ==
    ASSUME OneFetch
    PROVE  ~ISRAM!Conflict(IReads, {})
  <1>1. \A p, q \in IReads : p = q
    BY DEF IReads, OneFetch
  <1> QED
    BY <1>1 DEF ISRAM!Conflict

PortInv == FrontInv /\ OneFetch /\ sim # "conflict"

LEMMA PortStep ==
    ASSUME PortInv, [Next]_vars
    PROVE  PortInv'
  <1>1. FrontInv'
    BY FrontStep DEF PortInv
  <1>2. (sim = "running" => OneFetch)'
    BY <1>1 DEF FrontInv, FrontInStep, OneFetch
  <1>3. CASE UNCHANGED vars
    BY <1>1, <1>3 DEF PortInv, OneFetch, Issues, Stalled, vars, front
  <1>4. CASE Abort
    <2>1. Verdict # "conflict"
      BY DataRequestsNeverCollide, FetchesCollideOnlyTogether
      DEF PortInv, Verdict, DSRAM!Verdict, ISRAM!Verdict
    <2> QED
      BY <1>1, <1>4, <2>1 DEF PortInv, OneFetch, Issues, Stalled, Abort, front
  <1>5. CASE Halt
    BY <1>1, <1>5 DEF PortInv, OneFetch, Halt
  <1>6. CASE Next /\ ~Abort /\ ~Halt
    <2>1. sim' = "running"
      BY <1>6 DEF Next, Advance, Flush, Tick
    <2> QED
      BY <1>1, <1>2, <2>1 DEF PortInv
  <1> QED
    BY <1>3, <1>4, <1>5, <1>6

\* The assertions of llsim.c against multiple and simultaneous accesses never
\* fire for either memory, whatever program runs and wherever it stalls.
THEOREM PortsExclusive == Spec => []NoConflict
  <1>1. Init => PortInv
    BY FrontInit DEF Init, PortInv, OneFetch
  <1>2. PortInv => NoConflict
    BY DataRequestsNeverCollide, FetchesCollideOnlyTogether DEF PortInv, NoConflict
  <1> QED
    BY <1>1, <1>2, PortStep, PTL DEF Spec

-----------------------------------------------------------------------------
(***************************************************************************)
(* Register 0.                                                             *)
(***************************************************************************)

\* The nop of a stall is the instruction ADD 0, 0, 0, 0.
LEMMA NopFields ==
    Opcode(0) = ADD /\ Dst(0) = 0 /\ Src0(0) = 0 /\ Src1(0) = 0 /\ Imm(0) = 0
  BY ImmModAssumption DEF Opcode, Dst, Src0, Src1, Imm, ADD

\* What dec0 lets pass: an instruction that writes no register, or another one.
SparesR0(i) == i # 0 /\ Dst(i) = 0 => Opcode(i) \notin Writers

R0Inv ==
    /\ DOMAIN r = RegId /\ r[0] = 0
    /\ dec1.active => SparesR0(dec1.inst)
    /\ exec0.active => /\ SparesR0(exec0.inst)
                       /\ exec0.inst = 0 => exec0.alu0 = 0 /\ exec0.alu1 = 0
    /\ exec1.active => /\ SparesR0(exec1.inst)
                       /\ exec1.inst = 0 => exec1.aluout = 0

LEMMA IssuedSparesR0 ==
    ASSUME Issues, ~Refused
    PROVE  SparesR0(dec0.inst)
  BY DEF Refused, SparesR0, Writers, AluOps, JumpOps, LD, POL, ST, HLT, DMA

\* What exec1 writes into register 0 is zero.
LEMMA NextR0 ==
    ASSUME R0Inv
    PROVE  DOMAIN NextR = RegId /\ NextR[0] = 0
  <1> DEFINE rd == IF dec1.active THEN [r EXCEPT ![1] = Imm(dec1.inst)] ELSE r
             d  == Dst(exec1.inst)
  <1>1. DOMAIN rd = RegId /\ rd[0] = 0
    BY DEF R0Inv, RegId
  <1>2. CASE ~exec1.active
    BY <1>1, <1>2 DEF NextR
  <1>3. CASE exec1.active /\ exec1.inst = 0
    <2>1. Op1 \in AluOps /\ d = 0
      BY <1>3, NopFields DEF Op1, AluOps, ADD
    <2>2. NextR = [rd EXCEPT ![0] = 0]
      BY <1>3, <2>1 DEF NextR, R0Inv
    <2> QED
      BY <1>1, <2>2 DEF RegId
  <1>4. CASE exec1.active /\ exec1.inst # 0
    <2>1. Op1 \in Writers => d # 0
      BY <1>4 DEF R0Inv, SparesR0, Op1
    <2>2. \/ Op1 \in Writers /\ \E v : NextR = [rd EXCEPT ![d] = v]
          \/ NextR = [rd EXCEPT ![7] = exec1.pc]
          \/ NextR = rd
      BY <1>4 DEF NextR, Writers
    <2> QED
      BY <1>1, <2>1, <2>2 DEF RegId
  <1> QED
    BY <1>2, <1>3, <1>4

LEMMA R0Step ==
    ASSUME Alu(ADD, 0, 0, 0) = 0, R0Inv, [Next]_vars
    PROVE  R0Inv'
  <1>1. CASE UNCHANGED vars \/ Abort
    BY <1>1 DEF R0Inv, SparesR0, Abort, vars, front, back
  <1>2. CASE Next /\ ~Abort
    <2>1. DOMAIN r' = RegId /\ r'[0] = 0
      BY <1>2, NextR0 DEF Next, Advance, Flush, Halt, Tick
    <2>2. ~Refused
      BY <1>2 DEF Next, Advance, Flush, Halt, Tick, Verdict
    <2>3. dec1'.active => SparesR0(dec1'.inst)
      BY <1>2, <2>2, IssuedSparesR0
      DEF Next, Advance, Fill, Stall, Release, Issue, Flush, Halt, Empty
    <2>4. exec0' = NextExec0 \/ exec0' = Empty
      BY <1>2 DEF Next, Advance, Flush, Halt
    <2>5. exec0'.active =>
            /\ SparesR0(exec0'.inst)
            /\ exec0'.inst = 0 => exec0'.alu0 = 0 /\ exec0'.alu1 = 0
      <3>1. Operand0(r, 0) = 0 /\ Operand1(r, 0) = 0
        BY NopFields DEF Operand0, Operand1, Operand, R0Inv, ADD, LHI
      <3> QED
        BY <2>4, <3>1 DEF NextExec0, Empty, R0Inv
    <2>6. exec1' = NextExec1 \/ exec1' = Empty
      BY <1>2 DEF Next, Advance, Flush, Halt
    <2>7. exec1'.active =>
            /\ SparesR0(exec1'.inst)
            /\ exec1'.inst = 0 => exec1'.aluout = 0
      <3>1. exec0.active /\ exec0.inst = 0 => Op0 = ADD /\ ADD \in AluOps /\ Imm(exec0.inst) = 0
        BY NopFields DEF Op0, AluOps, ADD
      <3> QED
        BY <2>6, <3>1 DEF NextExec1, Empty, R0Inv
    <2> QED
      BY <2>1, <2>3, <2>5, <2>7 DEF R0Inv, SparesR0
  <1> QED
    BY <1>1, <1>2

\* Register 0 reads as zero in every program, for an ALU that adds 0 and 0 to 0:
\* the refusals in dec0 and the nops of the stalls are enough for it.
THEOREM R0AlwaysZero ==
    ASSUME Alu(ADD, 0, 0, 0) = 0
    PROVE  Spec => []R0Zero
  <1>1. Init => R0Inv
    BY DEF Init, R0Inv, Empty, RegId
  <1>2. R0Inv => R0Zero
    BY DEF R0Inv, R0Zero
  <1>3. R0Inv /\ [Next]_vars => R0Inv'
    BY R0Step
  <1> QED
    BY <1>1, <1>2, <1>3, PTL DEF Spec

-----------------------------------------------------------------------------
(***************************************************************************)
(* Types, for an ALU whose results are words and a memory whose addresses  *)
(* are words.                                                              *)
(***************************************************************************)
InMemory(p) == p \in 0 .. Height - 1

\* Whatever has passed fetch0 was fetched from inside the memory.
PcInv ==
    /\ fetch1_active => InMemory(fetch1_pc)
    /\ dec0.active => InMemory(dec0.pc)
    /\ dec1.active => InMemory(dec1.pc)
    /\ exec0.active => InMemory(exec0.pc)
    /\ exec1.active => InMemory(exec1.pc)

TypesInv == TypeOK /\ PortInv /\ PcInv

\* What TypeOK says of the stages that are active.
LEMMA StageWords ==
    ASSUME TypeOK
    PROVE  /\ dec0.active => dec0.inst \in Word
           /\ dec1.active => dec1.inst \in Word
           /\ exec0.active => exec0.inst \in Word /\ exec0.alu0 \in Word /\ exec0.alu1 \in Word
           /\ exec1.active => /\ exec1.inst \in Word /\ exec1.alu0 \in Word
                              /\ exec1.alu1 \in Word /\ exec1.aluout \in Word
  <1>1. dec0.active => dec0.inst \in Word
    <2>1. CASE dec0 = Empty
      BY <2>1 DEF Empty
    <2>2. CASE dec0 # Empty
      BY <2>2 DEF TypeOK
    <2> QED
      BY <2>1, <2>2
  <1>2. dec1.active => dec1.inst \in Word
    <2>1. CASE dec1 = Empty
      BY <2>1 DEF Empty
    <2>2. CASE dec1 # Empty
      BY <2>2 DEF TypeOK
    <2> QED
      BY <2>1, <2>2
  <1>3. exec0.active => exec0.inst \in Word /\ exec0.alu0 \in Word /\ exec0.alu1 \in Word
    <2>1. CASE exec0 = Empty
      BY <2>1 DEF Empty
    <2>2. CASE exec0 # Empty
      BY <2>2 DEF TypeOK
    <2> QED
      BY <2>1, <2>2
  <1>4. exec1.active => /\ exec1.inst \in Word /\ exec1.alu0 \in Word
                       /\ exec1.alu1 \in Word /\ exec1.aluout \in Word
    <2>1. CASE exec1 = Empty
      BY <2>1 DEF Empty
    <2>2. CASE exec1 # Empty
      BY <2>2 DEF TypeOK
    <2> QED
      BY <2>1, <2>2
  <1> QED
    BY <1>1, <1>2, <1>3, <1>4

LEMMA RequestsInMemory ==
    ASSUME TypeOK, Verdict = "run"
    PROVE  /\ \A q \in IReads : InMemory(q.addr)
           /\ \A q \in DReads \cup DWrites : InMemory(q.addr)
  <1>1. \A q \in IReads : q.addr \in Int
    BY PipeAssumption, ImmModAssumption DEF TypeOK, IReads
  <1>2. \A q \in DReads \cup DWrites : q.addr \in Int
    <2>1. dma_raddr \in Int /\ dma_waddr \in Int
      BY SmallWords DEF TypeOK
    <2>2. Op0 \in {LD, ST} => exec0.alu1 \in Int
      <3>1. exec0.active => exec0.alu1 \in Int
        BY StageWords, SmallWords
      <3> QED
        BY <3>1 DEF Op0, LD, ST
    <2> QED
      BY <2>1, <2>2 DEF DReads, DWrites
  <1>3. ISRAM!Verdict(IReads, {}) = "run" /\ DSRAM!Verdict(DReads, DWrites) = "run"
    BY DEF Verdict
  <1>4. ~ISRAM!OutOfRange(IReads, {}) /\ ~ISRAM!Wild(IReads, {})
    BY <1>3 DEF ISRAM!Verdict
  <1>5. ~DSRAM!OutOfRange(DReads, DWrites) /\ ~DSRAM!Wild(DReads, DWrites)
    BY <1>3 DEF DSRAM!Verdict
  <1>6. \A q \in IReads : InMemory(q.addr)
    BY <1>1, <1>4, PipeAssumption DEF ISRAM!OutOfRange, ISRAM!Wild, InMemory
  <1>7. \A q \in DReads \cup DWrites : InMemory(q.addr)
    BY <1>2, <1>5, PipeAssumption DEF DSRAM!OutOfRange, DSRAM!Wild, InMemory
  <1> QED
    BY <1>6, <1>7

LEMMA MemTypes ==
    ASSUME TypeOK, Tick
    PROVE  /\ srami' = srami /\ idataout' \in Word
           /\ sramd' \in [0 .. Height - 1 -> Word] /\ ddataout' \in Word
  <1>1. /\ \A q \in IReads : InMemory(q.addr)
        /\ \A q \in DReads \cup DWrites : InMemory(q.addr)
    BY RequestsInMemory DEF Tick
  <1>2. \A w \in DWrites : w.val \in Word
    <2>1. dma_reg \in Word
      BY DEF TypeOK
    <2>2. Op0 = ST => exec0.alu0 \in Word
      BY StageWords DEF Op0, ST
    <2> QED
      BY <2>1, <2>2 DEF DWrites
  <1>3. ISRAM!Clock(IReads, {}) /\ DSRAM!Clock(DReads, DWrites)
    BY DEF Tick
  <1>4. srami' = srami /\ idataout' \in Word
    BY <1>1, <1>3, PipeAssumption DEF ISRAM!Clock, TypeOK, InMemory
  <1>5. sramd' \in [0 .. Height - 1 -> Word] /\ ddataout' \in Word
    <2>1. sramd \in [0 .. Height - 1 -> Word] /\ ddataout \in Word /\ Baad \in Word
      BY PipeAssumption DEF TypeOK
    <2>2. CASE ddataout' = Baad /\ sramd' = sramd
      BY <2>1, <2>2
    <2>3. CASE \E q \in DReads : ddataout' = sramd[q.addr] /\ sramd' = sramd
      BY <1>1, <2>1, <2>3 DEF InMemory
    <2>4. CASE \E w \in DWrites : /\ sramd' = [sramd EXCEPT ![w.addr] = w.val]
                                  /\ ddataout' = ddataout
      BY <1>1, <1>2, <2>1, <2>4 DEF InMemory
    <2> QED
      BY <1>3, <2>2, <2>3, <2>4 DEF DSRAM!Clock
  <1> QED
    BY <1>4, <1>5

LEMMA DmaTypes ==
    ASSUME TypeOK, Tick
    PROVE  /\ dma_raddr' \in Word /\ dma_waddr' \in Word /\ dma_cnt' \in Word
           /\ dma_reg' \in Word
           /\ dma_write_active' \in BOOLEAN /\ dma_sample_active' \in BOOLEAN
  <1>1. /\ Wrap(dma_raddr + 1) \in Word /\ Wrap(dma_waddr + 1) \in Word
        /\ Wrap(dma_cnt - 1) \in Word
    BY WrapWord, SmallWords DEF TypeOK
  <1>2. DmaStarts => exec0.alu0 \in Word /\ exec0.alu1 \in Word /\ Imm(exec0.inst) \in Word
    BY StageWords, FieldRanges, SmallWords DEF DmaStarts
  <1>3. Dma /\ ddataout \in Word
    BY DEF Tick, TypeOK
  <1>4. dma_raddr' \in Word /\ dma_waddr' \in Word /\ dma_cnt' \in Word
    BY <1>1, <1>2, <1>3 DEF Dma, TypeOK
  <1>5. dma_reg' \in Word
    BY <1>3 DEF Dma, TypeOK
  <1>6. dma_write_active' \in BOOLEAN /\ dma_sample_active' \in BOOLEAN
    BY <1>3 DEF Dma, DmaReads, DmaEnable, TypeOK
  <1> QED
    BY <1>4, <1>5, <1>6

LEMMA RegTypes ==
    ASSUME TypeOK, PcInv, Height \in Word
    PROVE  NextR \in [RegId -> Word]
  <1> DEFINE rd == IF dec1.active THEN [r EXCEPT ![1] = Imm(dec1.inst)] ELSE r
             d  == Dst(exec1.inst)
  <1>1. rd \in [RegId -> Word]
    <2>1. dec1.active => Imm(dec1.inst) \in Word
      BY StageWords, FieldRanges, SmallWords
    <2> QED
      BY <2>1 DEF TypeOK
  <1>2. CASE ~exec1.active
    BY <1>1, <1>2 DEF NextR
  <1>3. CASE exec1.active
    <2>1. d \in RegId /\ exec1.aluout \in Word /\ ddataout \in Word /\ dma_cnt \in Word
      BY <1>3, StageWords, FieldRanges DEF TypeOK
    <2>2. exec1.pc \in Word
      <3>1. exec1.pc \in 0 .. Height - 1
        BY <1>3 DEF PcInv, InMemory
      <3> QED
        BY <3>1, ImmModAssumption, PipeAssumption DEF Word, WordMod
    <2>3. \/ \E v \in Word : NextR = [rd EXCEPT ![d] = v]
          \/ NextR = [rd EXCEPT ![7] = exec1.pc]
          \/ NextR = rd
      BY <1>3, <2>1 DEF NextR
    <2> QED
      BY <1>1, <2>1, <2>2, <2>3
  <1> QED
    BY <1>2, <1>3

LEMMA BusyTypes ==
    ASSUME TypeOK
    PROVE  NextBusy \subseteq RegId \ {0}
  <1>1. Marked \subseteq RegId \ {0}
    BY StageWords, FieldRanges DEF Marked, Issues
  <1> QED
    BY <1>1 DEF NextBusy, TypeOK

\* The front of the pipeline: where it fetches, what it holds.
FrontTyped ==
    /\ fetch0_pc \in 0 .. Height + ImmMod /\ fetch1_pc \in 0 .. Height + ImmMod
    /\ fetch1_active => InMemory(fetch1_pc)
    /\ dec0 = Empty \/ dec0 \in [active : {TRUE}, pc : 0 .. Height - 1, inst : Word]
    /\ dec1 = Empty \/ dec1 \in [active : {TRUE}, pc : 0 .. Height - 1, inst : Word]

LEMMA FrontTypedNow ==
    ASSUME TypesInv
    PROVE  FrontTyped
  <1>1. dec0 = Empty \/ dec0 \in [active : {TRUE}, pc : 0 .. Height - 1, inst : Word]
    <2>1. dec0 = Empty \/ dec0 \in [active : {TRUE}, pc : Int, inst : Word]
      BY DEF TypesInv, TypeOK
    <2>2. dec0.active => dec0.pc \in 0 .. Height - 1
      BY DEF TypesInv, PcInv, InMemory
    <2> QED
      BY <2>1, <2>2
  <1>2. dec1 = Empty \/ dec1 \in [active : {TRUE}, pc : 0 .. Height - 1, inst : Word]
    <2>1. dec1 = Empty \/ dec1 \in [active : {TRUE}, pc : Int, inst : Word]
      BY DEF TypesInv, TypeOK
    <2>2. dec1.active => dec1.pc \in 0 .. Height - 1
      BY DEF TypesInv, PcInv, InMemory
    <2> QED
      BY <2>1, <2>2
  <1> QED
    BY <1>1, <1>2 DEF FrontTyped, TypesInv, TypeOK, PcInv

LEMMA FrontTypedNext ==
    ASSUME TypesInv, Tick, Fill \/ Stall \/ Release \/ Issue
    PROVE  FrontTyped'
  <1> DEFINE Held == [active : {TRUE}, pc : 0 .. Height - 1, inst : Word]
  <1>1. /\ FrontTyped /\ idataout \in Word /\ 0 \in Word
        /\ fetch0_active => fetch0_pc \in 0 .. Height - 1
        /\ Issues /\ bubble => fetch1_pc \in 0 .. Height - 1
    <2>1. FrontTyped /\ idataout \in Word /\ 0 \in Word
      BY FrontTypedNow, SmallWords DEF TypesInv, TypeOK
    <2>2. \A q \in IReads : q.addr \in 0 .. Height - 1
      BY RequestsInMemory DEF TypesInv, Tick, InMemory
    <2>3. fetch0_active => [by |-> "fetch0", addr |-> fetch0_pc] \in IReads
      BY DEF IReads
    <2>4. Issues /\ bubble => [by |-> "dec0", addr |-> fetch1_pc] \in IReads
      BY DEF IReads
    <2> QED
      BY <2>1, <2>2, <2>3, <2>4
  <1>2. fetch1_pc' = NextFetch1Pc
    BY DEF Tick
  <1>3. fetch1_pc' \in 0 .. Height + ImmMod
    BY <1>1, <1>2 DEF FrontTyped, NextFetch1Pc
  <1>4. fetch0_pc' \in 0 .. Height + ImmMod
    <2>1. dec0.active => Imm(dec0.inst) \in Immediate
      BY StageWords, FieldRanges DEF TypesInv
    <2>2. dec0.active /\ ~bubble => fetch0_active
      BY DEF TypesInv, PortInv, FrontInv, FrontInStep, Tick
    <2> QED
      BY <1>1, <2>1, <2>2, ImmModAssumption, PipeAssumption
      DEF FrontTyped, Fill, Stall, Release, Issue, Issues, FilledPc, Immediate
  <1>5. fetch1_active' => fetch1_pc' \in 0 .. Height - 1
    <2>1. CASE Fill
      BY <1>1, <1>2, <2>1 DEF Fill, NextFetch1Pc, Stalled
    <2>2. CASE Stall
      BY <2>2 DEF Stall
    <2>3. CASE Release
      BY <1>1, <1>2, <2>3 DEF Release, Issues, NextFetch1Pc
    <2>4. CASE Issue
      BY <1>1, <1>2, <2>4 DEF Issue, Issues, NextFetch1Pc, TypesInv, PortInv,
         FrontInv, FrontInStep, Tick
    <2> QED
      BY <2>1, <2>2, <2>3, <2>4
  <1>6. fetch1_active => Fetched \in Held
    BY <1>1 DEF FrontTyped, Fetched, InMemory
  <1>7. dec0 = Empty \/ dec0 \in Held
    BY <1>1 DEF FrontTyped
  <1>8. dec0.active => dec0 \in Held
    <2>1. CASE dec0 = Empty
      BY <2>1 DEF Empty
    <2> QED
      BY <1>7, <2>1
  <1>9. dec1' = Empty \/ dec1' \in Held
    BY <1>7 DEF Fill, Stall, Release, Issue
  <1>10. dec0' = Empty \/ dec0' \in Held
    <2>1. CASE Fill
      BY <1>6, <2>1 DEF Fill
    <2>2. CASE Stall
      BY <1>7, <2>2 DEF Stall
    <2>3. CASE Release
      <3>1. \A p \in 0 .. Height - 1 : [active |-> TRUE, inst |-> 0, pc |-> p] \in Held
        BY <1>1
      <3>2. (IF fetch1_active THEN fetch1_pc ELSE dec0.pc) \in 0 .. Height - 1
        BY <1>1, <1>8, <2>3 DEF Release, Issues
      <3> QED
        BY <2>3, <3>1, <3>2 DEF Release
    <2>4. CASE Issue
      BY <1>6, <1>7, <2>4 DEF Issue
    <2> QED
      BY <2>1, <2>2, <2>3, <2>4
  <1> QED
    BY <1>3, <1>4, <1>5, <1>9, <1>10 DEF FrontTyped, InMemory

\* The back of the pipeline: what exec0 and exec1 hold.
BackTyped ==
    /\ exec0 = Empty \/ exec0 \in [active : {TRUE}, pc : 0 .. Height - 1, inst : Word,
                                   alu0 : Word, alu1 : Word]
    /\ exec1 = Empty \/ exec1 \in [active : {TRUE}, pc : 0 .. Height - 1, inst : Word,
                                   alu0 : Word, alu1 : Word, aluout : Word]

LEMMA BackTypedNext ==
    ASSUME TypesInv, AluClosed
    PROVE  /\ NextExec0 = Empty \/
              NextExec0 \in [active : {TRUE}, pc : 0 .. Height - 1, inst : Word,
                             alu0 : Word, alu1 : Word]
           /\ NextExec1 = Empty \/
              NextExec1 \in [active : {TRUE}, pc : 0 .. Height - 1, inst : Word,
                             alu0 : Word, alu1 : Word, aluout : Word]
  <1>1. dec1.active =>
          /\ dec1.inst \in Word /\ dec1.pc \in 0 .. Height - 1
          /\ Operand0(r, dec1.inst) \in Word /\ Operand1(r, dec1.inst) \in Word
    <2> SUFFICES ASSUME dec1.active
                 PROVE  /\ dec1.inst \in Word /\ dec1.pc \in 0 .. Height - 1
                        /\ Operand0(r, dec1.inst) \in Word /\ Operand1(r, dec1.inst) \in Word
      OBVIOUS
    <2>1. dec1.inst \in Word /\ r \in [RegId -> Word] /\ dec1.pc \in 0 .. Height - 1
      BY StageWords DEF TypesInv, TypeOK, PcInv, InMemory
    <2>2. /\ Dst(dec1.inst) \in RegId /\ Src0(dec1.inst) \in RegId
          /\ Src1(dec1.inst) \in RegId /\ Imm(dec1.inst) \in Immediate
      BY <2>1, FieldRanges
    <2> QED
      BY <2>1, <2>2, OperandWord, SmallWords DEF Operand0, Operand1
  <1>2. exec0.active =>
          /\ exec0.pc \in 0 .. Height - 1
          /\ exec0.inst \in Word /\ exec0.alu0 \in Word /\ exec0.alu1 \in Word
          /\ Alu(Op0, exec0.alu0, exec0.alu1, Imm(exec0.inst)) \in Word
    <2> SUFFICES ASSUME exec0.active
                 PROVE  /\ exec0.pc \in 0 .. Height - 1
                        /\ exec0.inst \in Word /\ exec0.alu0 \in Word /\ exec0.alu1 \in Word
                        /\ Alu(Op0, exec0.alu0, exec0.alu1, Imm(exec0.inst)) \in Word
      OBVIOUS
    <2>1. exec0.inst \in Word /\ exec0.alu0 \in Word /\ exec0.alu1 \in Word
      BY StageWords DEF TypesInv
    <2>2. exec0.pc \in 0 .. Height - 1
      BY DEF TypesInv, PcInv, InMemory
    <2>3. Op0 \in Int
      BY <2>1, OpcodeRange DEF Op0
    <2> QED
      BY <2>1, <2>2, <2>3, FieldRanges DEF AluClosed
  <1>3. NextExec0 = Empty \/
        NextExec0 \in [active : {TRUE}, pc : 0 .. Height - 1, inst : Word,
                       alu0 : Word, alu1 : Word]
    BY <1>1 DEF NextExec0
  <1>4. NextExec1 = Empty \/
        NextExec1 \in [active : {TRUE}, pc : 0 .. Height - 1, inst : Word,
                       alu0 : Word, alu1 : Word, aluout : Word]
    BY <1>2, SmallWords DEF NextExec1
  <1> QED
    BY <1>3, <1>4

\* TypeOK in three parts.
StagesTyped ==
    /\ dec0 = Empty \/ dec0 \in [active : {TRUE}, pc : Int, inst : Word]
    /\ dec1 = Empty \/ dec1 \in [active : {TRUE}, pc : Int, inst : Word]
    /\ exec0 = Empty \/ exec0 \in [active : {TRUE}, pc : Int, inst : Word,
                                   alu0 : Word, alu1 : Word]
    /\ exec1 = Empty \/ exec1 \in [active : {TRUE}, pc : Int, inst : Word,
                                   alu0 : Word, alu1 : Word, aluout : Word]

ControlTyped ==
    /\ start \in BOOLEAN /\ fetch0_active \in BOOLEAN /\ fetch1_active \in BOOLEAN
    /\ fetch0_pc \in 0 .. Height + ImmMod /\ fetch1_pc \in 0 .. Height + ImmMod
    /\ bubble \in BOOLEAN /\ jtaken \in BOOLEAN
    /\ r \in [RegId -> Word]
    /\ r_busy \subseteq RegId \ {0}

DataTyped ==
    /\ dma_raddr \in Word /\ dma_waddr \in Word /\ dma_cnt \in Word /\ dma_reg \in Word
    /\ dma_write_active \in BOOLEAN /\ dma_sample_active \in BOOLEAN
    /\ srami \in [0 .. Height - 1 -> Word] /\ sramd \in [0 .. Height - 1 -> Word]
    /\ idataout \in Word /\ ddataout \in Word
    /\ dump \in {<<>>} \cup [0 .. Height - 1 -> Word]

LEMMA TypeParts ==
    TypeOK <=> /\ StagesTyped /\ ControlTyped /\ DataTyped
               /\ sim \in {"running", "stopped", "refused", "range", "undefined"}
  BY DEF TypeOK, StagesTyped, ControlTyped, DataTyped

LEMMA TypePartsNext ==
    TypeOK' <=> /\ StagesTyped' /\ ControlTyped' /\ DataTyped'
                /\ sim' \in {"running", "stopped", "refused", "range", "undefined"}
  BY DEF TypeOK, StagesTyped, ControlTyped, DataTyped

LEMMA StagesTypedBy ==
    ASSUME FrontTyped, BackTyped
    PROVE  StagesTyped
  <1>1. 0 .. Height - 1 \subseteq Int
    OBVIOUS
  <1>2. dec0 = Empty \/ dec0 \in [active : {TRUE}, pc : Int, inst : Word]
    BY <1>1 DEF FrontTyped
  <1>3. dec1 = Empty \/ dec1 \in [active : {TRUE}, pc : Int, inst : Word]
    BY <1>1 DEF FrontTyped
  <1>4. exec0 = Empty \/ exec0 \in [active : {TRUE}, pc : Int, inst : Word,
                                    alu0 : Word, alu1 : Word]
    BY <1>1 DEF BackTyped
  <1>5. exec1 = Empty \/ exec1 \in [active : {TRUE}, pc : Int, inst : Word,
                                    alu0 : Word, alu1 : Word, aluout : Word]
    BY <1>1 DEF BackTyped
  <1> QED
    BY <1>2, <1>3, <1>4, <1>5 DEF StagesTyped

LEMMA PcInvBy ==
    ASSUME FrontTyped, BackTyped
    PROVE  PcInv
  <1>1. dec0.active => InMemory(dec0.pc)
    <2>1. CASE dec0 = Empty
      BY <2>1 DEF Empty
    <2> QED
      BY <2>1 DEF FrontTyped, InMemory
  <1>2. dec1.active => InMemory(dec1.pc)
    <2>1. CASE dec1 = Empty
      BY <2>1 DEF Empty
    <2> QED
      BY <2>1 DEF FrontTyped, InMemory
  <1>3. exec0.active => InMemory(exec0.pc)
    <2>1. CASE exec0 = Empty
      BY <2>1 DEF Empty
    <2> QED
      BY <2>1 DEF BackTyped, InMemory
  <1>4. exec1.active => InMemory(exec1.pc)
    <2>1. CASE exec1 = Empty
      BY <2>1 DEF Empty
    <2> QED
      BY <2>1 DEF BackTyped, InMemory
  <1> QED
    BY <1>1, <1>2, <1>3, <1>4 DEF PcInv, FrontTyped

LEMMA TypesStay ==
    ASSUME StagesTyped, ControlTyped, DataTyped, PcInv,
           UNCHANGED <<front, jtaken, r_busy, back, dma, mems>>
    PROVE  /\ StagesTyped' /\ ControlTyped' /\ PcInv'
           /\ dump' \in {dump, sramd} => DataTyped'
  <1>1. StagesTyped'
    BY DEF StagesTyped, front, back
  <1>2. ControlTyped'
    BY DEF ControlTyped, front, back
  <1>3. PcInv'
    BY DEF PcInv, front, back
  <1>4. dump' \in {dump, sramd} => DataTyped'
    BY DEF DataTyped, dma, mems
  <1> QED
    BY <1>1, <1>2, <1>3, <1>4

\* A clock that does not end the program.
LEMMA TypesTick ==
    ASSUME TypesInv, AluClosed, Height \in Word, Tick, FrontTyped',
           (exec0' = NextExec0 /\ exec1' = NextExec1) \/ (exec0' = Empty /\ exec1' = Empty),
           FrontInv', dump' \in {dump, sramd}, sim' \in {"running", "stopped"}
    PROVE  TypeOK' /\ PcInv'
  <1>1. BackTyped'
    BY BackTypedNext DEF BackTyped
  <1>2. (/\ start \in BOOLEAN /\ fetch0_active \in BOOLEAN
         /\ fetch1_active \in BOOLEAN /\ bubble \in BOOLEAN)'
    BY DEF FrontInv, FrontTypes
  <1>3. jtaken' \in BOOLEAN
    BY DEF Tick, TypesInv, TypeOK
  <1>4. r' \in [RegId -> Word] /\ r_busy' \subseteq RegId \ {0}
    BY RegTypes, BusyTypes DEF Tick, TypesInv
  <1>5. dump' \in {<<>>} \cup [0 .. Height - 1 -> Word]
    BY DEF TypesInv, TypeOK
  <1>6. srami' \in [0 .. Height - 1 -> Word]
    BY MemTypes DEF TypesInv, TypeOK
  <1>7. PcInv' /\ StagesTyped'
    BY <1>1, PcInvBy, StagesTypedBy, PTL
  <1>8. ControlTyped'
    BY <1>2, <1>3, <1>4 DEF ControlTyped, FrontTyped
  <1>9. DataTyped'
    BY <1>5, <1>6, MemTypes, DmaTypes DEF DataTyped, TypesInv
  <1>10. TypeOK'
    BY <1>7, <1>8, <1>9, TypePartsNext
  <1> QED
    BY <1>7, <1>10

LEMMA TypesStep ==
    ASSUME TypesInv, AluClosed, Height \in Word, [Next]_vars
    PROVE  TypesInv'
  <1>1. PortInv' /\ FrontInv'
    BY PortStep DEF TypesInv, PortInv
  <1>2. CASE UNCHANGED vars
    <2>1. UNCHANGED <<front, jtaken, r_busy, back, dma, mems>> /\ dump' = dump /\ sim' = sim
      BY <1>2 DEF vars
    <2> QED
      BY <1>1, <2>1, TypeParts, TypesStay, TypePartsNext DEF TypesInv
  <1>3. CASE Abort
    <2>1. sim' \in {"refused", "range", "undefined"}
      <3>1. sim' \in {"conflict", "refused", "range", "undefined"}
        BY <1>3 DEF Abort, Verdict, DSRAM!Verdict, ISRAM!Verdict
      <3> QED
        BY <1>1, <3>1 DEF PortInv
    <2>2. dump' \in {dump, sramd}
      BY <1>3 DEF Abort
    <2>3. UNCHANGED <<front, jtaken, r_busy, back, dma, mems>>
      BY <1>3 DEF Abort
    <2> QED
      BY <1>1, <2>1, <2>2, <2>3, TypeParts, TypesStay, TypePartsNext DEF TypesInv
  <1>4. CASE Advance(Fill) \/ Advance(Stall) \/ Advance(Release) \/ Advance(Issue)
    <2>1. FrontTyped'
      BY <1>4, FrontTypedNext DEF Advance
    <2>2. /\ Tick /\ sim = "running" /\ sim' = sim /\ dump' = dump
          /\ exec0' = NextExec0 /\ exec1' = NextExec1
      BY <1>4 DEF Advance, Tick
    <2>3. dump' \in {dump, sramd} /\ sim' \in {"running", "stopped"}
      BY <2>2
    <2>4. TypeOK' /\ PcInv'
      BY <1>1, <2>1, <2>2, <2>3, TypesTick
    <2> QED
      BY <1>1, <2>4 DEF TypesInv
  <1>5. CASE Flush \/ Halt
    <2>1. fetch0_pc' \in 0 .. Height + ImmMod
      <3>1. CASE Flush
        <4>1. exec1.active
          BY <3>1 DEF Flush, Mispredicts, Op1, JumpOps
        <4>2. exec1.pc \in 0 .. Height - 1 /\ Imm(exec1.inst) \in Immediate
          BY <4>1, StageWords, FieldRanges DEF TypesInv, PcInv, InMemory
        <4> QED
          BY <3>1, <4>2, ImmModAssumption, PipeAssumption DEF Flush, Immediate
      <3>2. CASE Halt
        BY <3>2 DEF Halt, TypesInv, TypeOK
      <3> QED
        BY <1>5, <3>1, <3>2
    <2>2. fetch1_pc' \in 0 .. Height + ImmMod
      BY <1>5 DEF Flush, Halt, Tick, NextFetch1Pc, TypesInv, TypeOK
    <2>3. FrontTyped'
      BY <1>5, <2>1, <2>2 DEF Flush, Halt, FrontTyped
    <2> QED
      BY <1>1, <1>5, <2>3, TypesTick DEF Flush, Halt, Tick, TypesInv
  <1> QED
    BY <1>2, <1>3, <1>4, <1>5 DEF Next

LEMMA TypesInit ==
    ASSUME Init
    PROVE  TypesInv
  <1>1. PortInv
    BY FrontInit DEF Init, PortInv, OneFetch
  <1>2. PcInv
    BY DEF Init, PcInv, Empty
  <1>3. TypeOK
    <2>1. StagesTyped
      BY DEF Init, StagesTyped
    <2>2. ControlTyped
      <3>1. 0 \in 0 .. Height + ImmMod
        BY PipeAssumption, ImmModAssumption
      <3>2. r \in [RegId -> Word]
        BY SmallWords DEF Init
      <3> QED
        BY <3>1, <3>2 DEF Init, ControlTyped
    <2>3. DataTyped
      BY PipeAssumption, SmallWords DEF Init, DataTyped
    <2> QED
      BY <2>1, <2>2, <2>3, TypeParts DEF Init
  <1> QED
    BY <1>1, <1>2, <1>3 DEF TypesInv

\* Every register, stage, memory and port keeps its type: in particular no
\* clock that the simulator survives carries an instruction through the
\* pipeline that was fetched from outside the memory.
THEOREM PipeTypeCorrect ==
    ASSUME AluClosed, Height \in Word
    PROVE  Spec => []TypeOK
  <1>1. Init => TypesInv
    BY TypesInit
  <1>2. TypesInv => TypeOK
    BY DEF TypesInv
  <1>3. TypesInv /\ [Next]_vars => TypesInv'
    BY TypesStep
  <1> QED
    BY <1>1, <1>2, <1>3, PTL DEF Spec

-----------------------------------------------------------------------------
(***************************************************************************)
(* What the memory ports hold.                                             *)
(***************************************************************************)
FreshInv == TypesInv /\ PortFresh /\ WordAtPc

\* A read of the instruction memory is answered in the same clock: fetch0's,
\* and the one that dec0 repeats.
LEMMA InstructionRead ==
    ASSUME TypesInv, Tick
    PROVE  /\ fetch0_active => idataout' = srami[fetch0_pc]
           /\ Issues /\ bubble => idataout' = srami[fetch1_pc]
  <1>1. ~ISRAM!Conflict(IReads, {})
    BY FetchesCollideOnlyTogether DEF TypesInv, PortInv
  <1>2. \A p, q \in IReads : p = q
    BY <1>1 DEF ISRAM!Conflict
  <1>3. \/ IReads = {}
        \/ \E q \in IReads : idataout' = srami[q.addr]
    BY DEF Tick, ISRAM!Clock
  <1>4. \A q \in IReads : idataout' = srami[q.addr]
    BY <1>2, <1>3
  <1>5. fetch0_active => [by |-> "fetch0", addr |-> fetch0_pc] \in IReads
    BY DEF IReads
  <1>6. Issues /\ bubble => [by |-> "dec0", addr |-> fetch1_pc] \in IReads
    BY DEF IReads
  <1> QED
    BY <1>4, <1>5, <1>6

\* So is a read of the data memory, which keeps its words in that clock.
LEMMA DataRead ==
    ASSUME Tick
    PROVE  /\ Op0 = LD => ddataout' = sramd[exec0.alu1] /\ sramd' = sramd
           /\ DmaReads => ddataout' = sramd[dma_raddr] /\ sramd' = sramd
  <1>1. ~DSRAM!Conflict(DReads, DWrites)
    BY DataRequestsNeverCollide
  <1>2. \A p, q \in DReads : p = q
    BY <1>1 DEF DSRAM!Conflict
  <1>3. \/ DReads = {}
        \/ sramd' = sramd /\ \E q \in DReads : ddataout' = sramd[q.addr]
    BY DEF Tick, DSRAM!Clock
  <1>4. \A q \in DReads : ddataout' = sramd[q.addr] /\ sramd' = sramd
    BY <1>2, <1>3
  <1>5. Op0 = LD => [by |-> "load", addr |-> exec0.alu1] \in DReads
    BY DEF DReads
  <1>6. DmaReads => [by |-> "dma", addr |-> dma_raddr] \in DReads
    BY DEF DReads
  <1> QED
    BY <1>4, <1>5, <1>6

\* What fetch1 waits for was read from the address that fetch1 holds.
LEMMA FetchFresh ==
    ASSUME TypesInv, Tick, Fill \/ Stall \/ Release \/ Issue, fetch1_active'
    PROVE  idataout' = srami'[fetch1_pc']
  <1>1. fetch1_pc' = NextFetch1Pc /\ srami' = srami
    BY MemTypes DEF Tick, TypesInv
  <1>2. CASE Fill
    <2>1. fetch0_active /\ ~Stalled
      BY <1>2 DEF Fill, Stalled
    <2> QED
      BY <1>1, <2>1, InstructionRead DEF NextFetch1Pc
  <1>3. CASE Stall
    BY <1>3 DEF Stall
  <1>4. CASE Release
    <2>1. Issues /\ bubble /\ ~fetch0_active
      BY <1>4 DEF Release, TypesInv, PortInv, FrontInv, FrontInStep, Tick
    <2> QED
      BY <1>1, <2>1, InstructionRead DEF NextFetch1Pc
  <1>5. CASE Issue
    <2>1. fetch0_active /\ ~Stalled
      BY <1>5 DEF Issue, Issues, TypesInv, PortInv, FrontInv, FrontInStep, Tick
    <2> QED
      BY <1>1, <2>1, InstructionRead DEF NextFetch1Pc
  <1> QED
    BY <1>2, <1>3, <1>4, <1>5

\* The word a load waits for in exec1, and the word the DMA samples.
LEMMA LoadFresh ==
    ASSUME Tick, exec1' = NextExec1 \/ exec1' = Empty, Op1' = LD
    PROVE  ddataout' = sramd'[exec1'.alu1]
  <1>1. exec1'.active /\ Opcode(exec1'.inst) = LD
    BY DEF Op1, LD
  <1>2. exec0.active /\ exec1'.inst = exec0.inst /\ exec1'.alu1 = exec0.alu1
    BY <1>1 DEF NextExec1, Empty
  <1>3. Op0 = LD
    BY <1>1, <1>2 DEF Op0
  <1> QED
    BY <1>2, <1>3, DataRead

LEMMA SampleFresh ==
    ASSUME TypeOK, Tick, dma_sample_active'
    PROVE  ddataout' = sramd'[Wrap(dma_raddr' - 1)]
  <1>1. DmaReads /\ dma_raddr' = Wrap(dma_raddr + 1)
    BY DEF Tick, Dma
  <1>2. Wrap(dma_raddr' - 1) = dma_raddr
    BY <1>1, WrapBack DEF TypeOK
  <1> QED
    BY <1>1, <1>2, DataRead

\* An instruction moves with its address.
AtPc(s) == s.active => s.inst = 0 \/ s.inst = srami[s.pc]

LEMMA StagesMove ==
    ASSUME FreshInv, Tick, Fill \/ Stall \/ Release \/ Issue
    PROVE  AtPc(dec0)' /\ AtPc(dec1)'
  <1>1. srami' = srami
    BY MemTypes DEF FreshInv, TypesInv
  <1>2. AtPc(dec0) /\ AtPc(Empty)
    BY DEF FreshInv, WordAtPc, AtPc, Empty
  <1>3. fetch1_active => AtPc(Fetched)
    BY DEF FreshInv, PortFresh, AtPc, Fetched
  <1>4. dec1' \in {dec0, Empty}
    BY DEF Fill, Stall, Release, Issue
  <1>5. \/ dec0' \in {dec0, Empty}
        \/ fetch1_active /\ dec0' = Fetched
        \/ dec0'.inst = 0
    BY DEF Fill, Stall, Release, Issue
  <1> QED
    BY <1>1, <1>2, <1>3, <1>4, <1>5 DEF AtPc

LEMMA FreshStep ==
    ASSUME FreshInv, AluClosed, Height \in Word, [Next]_vars
    PROVE  FreshInv'
  <1>1. TypesInv'
    BY TypesStep DEF FreshInv
  <1>2. CASE UNCHANGED vars \/ Abort
    <2>1. UNCHANGED <<front, back, dma, mems>>
      BY <1>2 DEF vars, Abort
    <2>2. PortFresh'
      BY <2>1 DEF FreshInv, PortFresh, Op1, front, back, dma, mems
    <2>3. WordAtPc'
      BY <2>1 DEF FreshInv, WordAtPc, front, back, mems
    <2> QED
      BY <1>1, <2>2, <2>3 DEF FreshInv
  <1>3. CASE Next /\ ~Abort
    <2>1. /\ Tick
          /\ \/ Fill \/ Stall \/ Release \/ Issue
             \/ ~fetch1_active' /\ dec0' = Empty /\ dec1' = Empty
          /\ exec0' = NextExec0 \/ exec0' = Empty
          /\ exec1' = NextExec1 \/ exec1' = Empty
      BY <1>3 DEF Next, Advance, Flush, Halt
    <2>2. fetch1_active' => idataout' = srami'[fetch1_pc']
      BY <2>1, FetchFresh DEF FreshInv
    <2>3. Op1' = LD => ddataout' = sramd'[exec1'.alu1]
      BY <2>1, LoadFresh
    <2>4. dma_sample_active' => ddataout' = sramd'[Wrap(dma_raddr' - 1)]
      BY <2>1, SampleFresh DEF FreshInv, TypesInv
    <2>5. PortFresh'
      BY <2>2, <2>3, <2>4 DEF PortFresh, Wrap
    <2>6. AtPc(dec0)' /\ AtPc(dec1)'
      BY <2>1, StagesMove DEF AtPc, Empty
    <2>7. AtPc(exec0)' /\ AtPc(exec1)'
      <3>1. srami' = srami
        BY <2>1, MemTypes DEF FreshInv, TypesInv
      <3> QED
        BY <2>1, <3>1 DEF FreshInv, WordAtPc, AtPc, NextExec0, NextExec1, Empty
    <2>8. WordAtPc'
      BY <2>6, <2>7 DEF WordAtPc, AtPc
    <2> QED
      BY <1>1, <2>5, <2>8 DEF FreshInv
  <1> QED
    BY <1>2, <1>3

LEMMA FreshInit ==
    ASSUME Init
    PROVE  FreshInv
  <1>1. TypesInv
    BY TypesInit
  <1>2. PortFresh /\ WordAtPc
    BY DEF Init, PortFresh, WordAtPc, Op1, Empty, LD
  <1> QED
    BY <1>1, <1>2 DEF FreshInv

\* Through stalls, flushes and transfers, what fetch1, a load in exec1 and the
\* DMA take from a memory port is the word at the address they asked for.
THEOREM PipePortFresh ==
    ASSUME AluClosed, Height \in Word
    PROVE  Spec => []PortFresh
  <1>1. Init => FreshInv
    BY FreshInit
  <1>2. FreshInv => PortFresh
    BY DEF FreshInv
  <1>3. FreshInv /\ [Next]_vars => FreshInv'
    BY FreshStep
  <1> QED
    BY <1>1, <1>2, <1>3, PTL DEF Spec

\* An instruction in the pipeline is the word of the program at its address,
\* however often its fetch was dropped and repeated, or the nop of a stall.
THEOREM PipeWordAtPc ==
    ASSUME AluClosed, Height \in Word
    PROVE  Spec => []WordAtPc
  <1>1. Init => FreshInv
    BY FreshInit
  <1>2. FreshInv => WordAtPc
    BY DEF FreshInv
  <1>3. FreshInv /\ [Next]_vars => FreshInv'
    BY FreshStep
  <1> QED
    BY <1>1, <1>2, <1>3, PTL DEF Spec
=============================================================================
