---------------------------- MODULE SPMultiProofs ----------------------------
(***************************************************************************)
(* Proofs about the multi-cycle processor, for every width of words, every *)
(* size of the memory, every set of programs and every ALU; that it        *)
(* implements the programmer's view SPArch; and that it agrees with the    *)
(* instruction-set simulator.                                              *)
(***************************************************************************)
EXTENDS SPMultiProps, SPMultiIss, SPIsaProofs, TLAPS

-----------------------------------------------------------------------------
(***************************************************************************)
(* The memory port.                                                        *)
(***************************************************************************)

\* dma_enable excludes the DMA exactly where the control uses the memory, so
\* the requests of one clock never collide, in any state whatsoever.
LEMMA RequestsNeverCollide == ~SRAM!Conflict(Reads, Writes)
  <1>1. \A p, q \in Reads : p = q
    BY DEF Reads, DmaReads, DmaOn, DmaEnable
  <1>2. \A p, q \in Writes : p = q
    BY DEF Writes, DmaOn, DmaEnable
  <1>3. ~(Reads # {} /\ Writes # {})
    BY DEF Reads, Writes, DmaReads, DmaOn, DmaEnable, LD, ST
  <1> QED
    BY <1>1, <1>2, <1>3 DEF SRAM!Conflict

LEMMA VerdictNotConflict == SRAM!Verdict(Reads, Writes) # "conflict"
  BY RequestsNeverCollide DEF SRAM!Verdict

\* The assertions of llsim.c against multiple and simultaneous accesses never
\* fire, whatever program runs.
THEOREM PortExclusive == Spec => []NoConflict
  <1> DEFINE Alive == sim # "conflict"
  <1>1. Init => Alive
    BY DEF Init
  <1>2. Alive /\ [Next]_vars => Alive'
    <2> SUFFICES ASSUME Alive, [Next]_vars
                 PROVE  Alive'
      OBVIOUS
    <2>1. Tick => Alive'
      BY DEF Tick
    <2>2. Abort => Alive'
      BY VerdictNotConflict DEF Abort
    <2>3. UNCHANGED vars => Alive'
      BY DEF vars
    <2> QED
      BY <2>1, <2>2, <2>3 DEF Next, Idle, Fetch0, Fetch1, Dec0, Dec1, Exec0, Exec1
  <1>3. Alive /\ ~SRAM!Conflict(Reads, Writes) => NoConflict
    BY DEF NoConflict
  <1> QED
    BY <1>1, <1>2, <1>3, RequestsNeverCollide, PTL DEF Spec

-----------------------------------------------------------------------------
(***************************************************************************)
(* The freshness of the output port.                                       *)
(***************************************************************************)

\* A clock that ends well serves exactly the request that was posted.
LEMMA ServedRead ==
    ASSUME NEW who, NEW a, SRAM!Clock(Reads, Writes),
           Reads = {[by |-> who, addr |-> a]}, Writes = {}
    PROVE  dataout' = sram[a] /\ sram' = sram
  <1>1. \E q \in Reads : dataout' = sram[q.addr] /\ sram' = sram
    BY DEF SRAM!Clock
  <1>2. \A q \in Reads : q.addr = a
    OBVIOUS
  <1> QED
    BY <1>1, <1>2

LEMMA FetchServed ==
    ASSUME SRAM!Clock(Reads, Writes), ctl_state = "FETCH0"
    PROVE  dataout' = sram[pc] /\ sram' = sram
  <1>1. Reads = {[by |-> "fetch", addr |-> pc]} /\ Writes = {}
    BY DEF Reads, Writes, DmaReads, DmaOn, DmaEnable
  <1> QED
    BY <1>1, ServedRead

LEMMA LoadServed ==
    ASSUME SRAM!Clock(Reads, Writes), ctl_state = "EXEC0", opcode = LD
    PROVE  dataout' = sram[alu1] /\ sram' = sram
  <1>1. Reads = {[by |-> "load", addr |-> alu1]} /\ Writes = {}
    BY DEF Reads, Writes, DmaReads, DmaOn, DmaEnable
  <1> QED
    BY <1>1, ServedRead

LEMMA DmaReadServed ==
    ASSUME SRAM!Clock(Reads, Writes), DmaReads
    PROVE  dataout' = sram[dma_raddr] /\ sram' = sram
  <1>1. Reads = {[by |-> "dma", addr |-> dma_raddr]} /\ Writes = {}
    BY DEF Reads, Writes, DmaReads, DmaOn, DmaEnable, LD, ST
  <1> QED
    BY <1>1, ServedRead

\* What NextCtl and NextOpcode compute is what the clock stores.
LEMMA LookAhead ==
    ASSUME Next, ~Abort
    PROVE  Tick /\ ctl_state' = NextCtl /\ opcode' = NextOpcode
  BY DEF Next, Tick, Idle, Fetch0, Fetch1, Dec0, Dec1, Exec0, Exec1,
         control, decoded, NextOpcode

\* A word is read from the output port only in the clock after its own read.
THEOREM PortFresh == Spec => []DataoutFresh
  <1>1. Init => DataoutFresh
    BY DEF Init, DataoutFresh
  <1>2. DataoutFresh /\ [Next]_vars => DataoutFresh'
    <2> SUFFICES ASSUME DataoutFresh, [Next]_vars
                 PROVE  DataoutFresh'
      OBVIOUS
    <2>1. CASE UNCHANGED vars
      BY <2>1 DEF DataoutFresh, vars, control, decoded, alu, dma, DmaOn, DmaEnable
    <2>2. CASE Abort
      BY <2>2 DEF DataoutFresh, Abort, control, decoded, alu, dma, DmaOn, DmaEnable
    <2>3. CASE Next /\ ~Abort
      <3>1. Tick /\ ctl_state' = NextCtl /\ opcode' = NextOpcode
        BY <2>3, LookAhead
      <3>2. SRAM!Clock(Reads, Writes)
        BY <3>1 DEF Tick
      <3>3. (ctl_state = "FETCH1" => dataout = sram[pc])'
        <4> SUFFICES ASSUME ctl_state' = "FETCH1"
                     PROVE  dataout' = sram'[pc']
          OBVIOUS
        <4>1. ctl_state = "FETCH0"
          BY <3>1, <2>3 DEF NextCtl, Next, Idle, Fetch0, Fetch1, Dec0, Dec1, Exec0, Exec1
        <4>2. pc' = pc
          BY <4>1, <2>3 DEF Next, Idle, Fetch0, Fetch1, Dec0, Dec1, Exec0, Exec1, control
        <4> QED
          BY <3>2, <4>1, <4>2, FetchServed
      <3>4. (ctl_state = "EXEC1" /\ opcode = LD => dataout = sram[alu1])'
        <4> SUFFICES ASSUME ctl_state' = "EXEC1", opcode' = LD
                     PROVE  dataout' = sram'[alu1']
          OBVIOUS
        <4>1. ctl_state = "EXEC0"
          BY <3>1, <2>3 DEF NextCtl, Next, Idle, Fetch0, Fetch1, Dec0, Dec1, Exec0, Exec1
        <4>2. opcode = LD /\ alu1' = alu1
          BY <4>1, <3>1, <2>3
          DEF Next, Idle, Fetch0, Fetch1, Dec0, Dec1, Exec0, Exec1, NextOpcode
        <4> QED
          BY <3>2, <4>1, <4>2, LoadServed
      <3>5. (dma_state = "SAMPLE" => DmaOn /\ dataout = sram[dma_raddr])'
        <4> SUFFICES ASSUME dma_state' = "SAMPLE"
                     PROVE  DmaOn' /\ dataout' = sram'[dma_raddr']
          OBVIOUS
        <4>1. DmaReads /\ dma_raddr' = dma_raddr
          BY <3>1 DEF Tick, DataoutFresh, DmaStart, DmaWait, DmaRead, DmaSample, DmaWrite, dma
        <4>2. DmaOn'
          BY <4>1, <3>1 DEF DmaReads, DmaOn, DmaEnable
        <4> QED
          BY <3>2, <4>1, <4>2, DmaReadServed
      <3> QED
        BY <3>3, <3>4, <3>5 DEF DataoutFresh
    <2> QED
      BY <2>1, <2>2, <2>3
  <1> QED
    BY <1>1, <1>2, PTL DEF Spec

-----------------------------------------------------------------------------
(***************************************************************************)
(* Type correctness, for an ALU whose results are C ints.                  *)
(***************************************************************************)

\* The memory phase keeps words in the memory and on its output port.
LEMMA ClockTypes ==
    ASSUME TypeOK, SRAM!Verdict(Reads, Writes) = "run", SRAM!Clock(Reads, Writes)
    PROVE  sram' \in [0 .. Height - 1 -> Word] /\ dataout' \in Word
  <1>1. \A q \in Reads \cup Writes : q.addr \in 0 .. Height - 1
    <2>1. \A q \in Reads \cup Writes : q.addr \in Int
      BY SmallWords DEF TypeOK, Reads, Writes
    <2>2. ~SRAM!OutOfRange(Reads, Writes) /\ ~SRAM!Wild(Reads, Writes)
      BY DEF SRAM!Verdict
    <2> QED
      BY <2>1, <2>2, MultiAssumption DEF SRAM!OutOfRange, SRAM!Wild
  <1>2. \A w \in Writes : w.val \in Word
    BY DEF TypeOK, Writes
  <1>3. sram \in [0 .. Height - 1 -> Word] /\ dataout \in Word
    BY DEF TypeOK
  <1>4. CASE dataout' = Baad /\ sram' = sram
    BY <1>3, <1>4, MultiAssumption
  <1>5. CASE \E q \in Reads : dataout' = sram[q.addr] /\ sram' = sram
    BY <1>1, <1>3, <1>5
  <1>6. CASE \E w \in Writes : sram' = [sram EXCEPT ![w.addr] = w.val] /\ dataout' = dataout
    BY <1>1, <1>2, <1>3, <1>6
  <1> QED
    BY <1>4, <1>5, <1>6 DEF SRAM!Clock

\* What every clock does besides the work of the control machine.
LEMMA TickTypes ==
    ASSUME TypeOK, Tick
    PROVE  /\ cycle_counter' \in 0 .. CycleMod - 1
           /\ ctl_state' \in CtlStates
           /\ dma_raddr' \in Word /\ dma_waddr' \in Word
           /\ dma_reg' \in Word /\ dma_cnt' \in Word
           /\ dma_state' \in DmaStates
           /\ sram' \in [0 .. Height - 1 -> Word] /\ dataout' \in Word
           /\ dump' \in {<<>>} \cup [0 .. Height - 1 -> Word]
           /\ sim' \in {"running", "stopped", "conflict", "range", "undefined"}
  <1>1. cycle_counter' \in 0 .. CycleMod - 1
    BY MultiAssumption DEF Tick, TypeOK
  <1>2. ctl_state' \in CtlStates
    BY DEF Tick, TypeOK, NextCtl, CtlStates
  <1>3. /\ dma_raddr' \in Word /\ dma_waddr' \in Word
        /\ dma_reg' \in Word /\ dma_cnt' \in Word
        /\ dma_state' \in DmaStates
    <2> USE SmallWords DEF TypeOK, DmaStates
    <2>1. CASE DmaStart
      BY <2>1 DEF DmaStart
    <2>2. CASE DmaWait
      BY <2>2 DEF DmaWait, dma
    <2>3. CASE DmaRead
      BY <2>3 DEF DmaRead
    <2>4. CASE DmaSample
      <3>1. Wrap(dma_raddr + 1) \in Word
        BY WrapWord
      <3> QED
        BY <2>4, <3>1 DEF DmaSample
    <2>5. CASE DmaWrite
      <3>1. Wrap(dma_waddr + 1) \in Word /\ Wrap(dma_cnt - 1) \in Word
        BY WrapWord
      <3> QED
        BY <2>5, <3>1 DEF DmaWrite
    <2> QED
      BY <2>1, <2>2, <2>3, <2>4, <2>5 DEF Tick
  <1>4. sram' \in [0 .. Height - 1 -> Word] /\ dataout' \in Word
    BY ClockTypes DEF Tick
  <1>5. dump' \in {<<>>} \cup [0 .. Height - 1 -> Word]
    BY DEF Tick, Dump, TypeOK
  <1>6. sim' \in {"running", "stopped", "conflict", "range", "undefined"}
    BY DEF Tick
  <1> QED
    BY <1>1, <1>2, <1>3, <1>4, <1>5, <1>6

\* The registers of the control machine.
ControlTypes ==
    /\ r \in [RegId -> Word]
    /\ pc \in Word /\ inst \in Word
    /\ opcode \in -64 .. 63
    /\ dst \in RegId /\ src0 \in RegId /\ src1 \in RegId
    /\ immediate \in Immediate
    /\ alu0 \in Word /\ alu1 \in Word /\ aluout \in Word

LEMMA ControlStep ==
    ASSUME AluClosed, TypeOK, Next, ~Abort
    PROVE  ControlTypes'
  <1> USE DEF TypeOK, ControlTypes
  <1>1. CASE Idle
    BY <1>1, SmallWords DEF Idle, decoded, alu
  <1>2. CASE Fetch0
    BY <1>2 DEF Fetch0, control, decoded, alu
  <1>3. CASE Fetch1
    BY <1>3 DEF Fetch1, decoded, alu
  <1>4. CASE Dec0
    <2>1. Wrap(pc + 1) \in Word
      BY SmallWords, WrapWord
    <2> QED
      BY <1>4, <2>1, OpcodeRange, FieldRanges DEF Dec0, alu
  <1>5. CASE Dec1
    <2>1. Operand(r, src0, immediate) \in Word /\ Operand(r, src1, immediate) \in Word
      BY OperandWord
    <2> QED
      BY <1>5, <2>1, SmallWords DEF Dec1, decoded
  <1>6. CASE Exec0
    <2>1. Alu(opcode, alu0, alu1, immediate) \in Word
      BY DEF AluClosed
    <2> QED
      BY <1>6, <2>1 DEF Exec0, decoded
  <1>7. CASE Exec1
    <2>1. Wrap(pc - 1) \in Word
      BY SmallWords, WrapWord
    <2>2. r' \in [RegId -> Word]
      BY <1>7, <2>1 DEF Exec1, RegId
    <2> QED
      BY <1>7, <2>2, SmallWords DEF Exec1, decoded, alu
  <1> QED
    BY <1>1, <1>2, <1>3, <1>4, <1>5, <1>6, <1>7 DEF Next

\* Every register, memory word and state stays in its range.
THEOREM TypeCorrect ==
    ASSUME AluClosed
    PROVE  Spec => []TypeOK
  <1>1. Init => TypeOK
    BY SmallWords, MultiAssumption
    DEF Init, TypeOK, RegId, Immediate, CtlStates, DmaStates
  <1>2. TypeOK /\ [Next]_vars => TypeOK'
    <2> SUFFICES ASSUME TypeOK, [Next]_vars
                 PROVE  TypeOK'
      OBVIOUS
    <2>1. CASE UNCHANGED vars
      BY <2>1 DEF TypeOK, vars, control, decoded, alu, dma
    <2>2. CASE Abort
      BY <2>2 DEF TypeOK, Abort, Dump, control, decoded, alu, dma, SRAM!Verdict
    <2>3. CASE Next /\ ~Abort
      BY <2>3, LookAhead, TickTypes, ControlStep DEF TypeOK, ControlTypes
    <2> QED
      BY <2>1, <2>2, <2>3
  <1> QED
    BY <1>1, <1>2, PTL DEF Spec
-----------------------------------------------------------------------------
(***************************************************************************)
(* The timing of the control machine.                                      *)
(***************************************************************************)

\* Counting up modulo a multiple of six keeps the remainder by six.
LEMMA CountBySix ==
    ASSUME CycleMod % 6 = 0, cycle_counter \in 0 .. CycleMod - 1
    PROVE  /\ (cycle_counter + 1) % CycleMod \in 0 .. CycleMod - 1
           /\ ((cycle_counter + 1) % CycleMod) % 6 = (cycle_counter + 1) % 6
  <1>1. CASE cycle_counter + 1 < CycleMod
    <2>1. (cycle_counter + 1) % CycleMod = cycle_counter + 1
      BY <1>1, MultiAssumption
    <2> QED
      BY <2>1, <1>1, MultiAssumption
  <1>2. CASE cycle_counter + 1 = CycleMod
    <2>1. (cycle_counter + 1) % CycleMod = 0
      BY <1>2, MultiAssumption
    <2> QED
      BY <2>1, <1>2, MultiAssumption
  <1> QED
    BY <1>1, <1>2, MultiAssumption

LEMMA SuccMod6 ==
    ASSUME NEW c \in Nat, NEW p \in Nat, c % 6 = p % 6
    PROVE  (c + 1) % 6 = (p + 1) % 6
  OBVIOUS

\* An instruction takes six clocks under every program and every activity of
\* the DMA, for every bound of the counter that is a multiple of six: an
\* arbitration that made the control wait would break it.
THEOREM SixClocksAlways ==
    ASSUME CycleMod % 6 = 0
    PROVE  Spec => []SixClocks
  <1> DEFINE Timed == /\ cycle_counter \in 0 .. CycleMod - 1
                      /\ ctl_state \in CtlStates
                      /\ SixClocks
  <1>1. Init => Timed
    BY MultiAssumption DEF Init, SixClocks, Phase, CtlStates
  <1>2. Timed /\ [Next]_vars => Timed'
    <2> SUFFICES ASSUME Timed, [Next]_vars
                 PROVE  Timed'
      OBVIOUS
    <2>1. CASE UNCHANGED vars
      BY <2>1 DEF vars, SixClocks, Phase
    <2>2. CASE Abort
      BY <2>2 DEF Abort, SixClocks, Phase, SRAM!Verdict
    <2>3. CASE Next /\ ~Abort
      <3>1. Tick
        BY <2>3, LookAhead
      <3>2. /\ cycle_counter' \in 0 .. CycleMod - 1
            /\ cycle_counter' % 6 = (cycle_counter + 1) % 6
        BY <3>1, CountBySix DEF Tick
      <3>3. ctl_state' = NextCtl /\ ctl_state' \in CtlStates
        BY <3>1 DEF Tick, NextCtl, CtlStates
      <3>4. Phase' % 6 = (Phase + 1) % 6
        BY <3>1, <3>3 DEF Tick, Phase, NextCtl, CtlStates, Halts
      <3>5. Phase \in Nat
        BY DEF Phase, CtlStates
      <3>6. (cycle_counter + 1) % 6 = (Phase + 1) % 6
        BY <3>5, MultiAssumption, SuccMod6 DEF SixClocks
      <3>7. SixClocks'
        BY <3>2, <3>4, <3>6 DEF SixClocks
      <3> QED
        BY <3>2, <3>3, <3>7
    <2> QED
      BY <2>1, <2>2, <2>3
  <1> QED
    BY <1>1, <1>2, PTL DEF Spec
-----------------------------------------------------------------------------
(***************************************************************************)
(* The transfer.                                                           *)
(***************************************************************************)

\* A write of the DMA goes into the memory, and nothing else happens there.
LEMMA DmaWriteServed ==
    ASSUME SRAM!Verdict(Reads, Writes) = "run", SRAM!Clock(Reads, Writes),
           TypeOK, DmaOn, dma_state = "WRITE"
    PROVE  /\ dma_waddr \in 0 .. Height - 1
           /\ sram' = [sram EXCEPT ![dma_waddr] = dma_reg]
  <1>1. /\ Reads = {}
        /\ Writes = {[by |-> "dma", addr |-> dma_waddr, val |-> dma_reg]}
    BY DEF Reads, Writes, DmaReads, DmaOn, DmaEnable
  <1>2. ~SRAM!OutOfRange(Reads, Writes) /\ ~SRAM!Wild(Reads, Writes)
    BY DEF SRAM!Verdict
  <1>3. ~(dma_waddr >= Height) /\ ~(dma_waddr < 0)
    BY <1>1, <1>2 DEF SRAM!OutOfRange, SRAM!Wild
  <1>4. dma_waddr \in 0 .. Height - 1
    BY <1>3, SmallWords, MultiAssumption DEF TypeOK
  <1>5. PICK w \in Writes : sram' = [sram EXCEPT ![w.addr] = w.val]
    BY <1>1 DEF SRAM!Clock
  <1>6. w.addr = dma_waddr /\ w.val = dma_reg
    BY <1>1
  <1> QED
    BY <1>4, <1>5, <1>6

\* The count of a transfer of 0 words becomes negative, but by no more than the
\* target address has moved on from the beginning of the memory: it cannot
\* overflow before the address has left the memory.
Counted == dma_state # "IDLE" => dma_cnt >= 0 \/ dma_cnt + dma_waddr >= 0

LEMMA WriteCounts ==
    ASSUME TypeOK, Counted, Height \in Word, DmaWrite, dma_waddr \in 0 .. Height - 1
    PROVE  dma_waddr' = dma_waddr + 1 /\ dma_cnt' = dma_cnt - 1 /\ Counted'
  <1>1. WordMod \div 2 \in Nat \ {0} /\ Height \in Nat
    BY ImmModAssumption, MultiAssumption DEF WordMod
  <1>2. dma_waddr \in Word /\ dma_cnt \in Word /\ dma_state = "WRITE"
    BY DEF TypeOK, DmaWrite
  <1>3. dma_waddr + 1 \in Word
    BY <1>1, <1>2 DEF Word
  <1>4. dma_cnt >= 0 \/ dma_cnt + dma_waddr >= 0
    BY <1>2 DEF Counted
  <1>5. dma_cnt - 1 \in Word
    BY <1>1, <1>2, <1>4 DEF Word
  <1>6. dma_waddr' = dma_waddr + 1 /\ dma_cnt' = dma_cnt - 1
    BY <1>3, <1>5, WrapOfWord DEF DmaWrite
  <1>7. dma_cnt - 1 >= 0 \/ (dma_cnt - 1) + (dma_waddr + 1) >= 0
    BY <1>2, <1>4, SmallWords
  <1> QED
    BY <1>6, <1>7 DEF Counted

LEMMA CountedStep ==
    ASSUME TypeOK, Counted, Height \in Word, [Next]_vars
    PROVE  Counted'
  <1>1. CASE UNCHANGED vars
    BY <1>1 DEF Counted, vars, dma
  <1>2. CASE Abort
    BY <1>2 DEF Counted, Abort, dma
  <1>3. CASE Next /\ ~Abort
    <2>1. Tick
      BY <1>3, LookAhead
    <2>2. CASE DmaStart
      <3>1. dma_cnt' >= 0
        BY <2>2 DEF DmaStart, TypeOK, Immediate
      <3> QED
        BY <3>1 DEF Counted
    <2>3. CASE DmaWait
      BY <2>3 DEF Counted, DmaWait, dma
    <2>4. CASE DmaRead
      BY <2>4 DEF Counted, DmaRead, DmaReads
    <2>5. CASE DmaSample
      BY <2>5 DEF Counted, DmaSample
    <2>6. CASE DmaWrite
      <3>1. dma_waddr \in 0 .. Height - 1
        BY <2>1, <2>6, DmaWriteServed DEF Tick, DmaWrite
      <3> QED
        BY <2>6, <3>1, WriteCounts
    <2> QED
      BY <2>1, <2>2, <2>3, <2>4, <2>5, <2>6 DEF Tick
  <1> QED
    BY <1>1, <1>2, <1>3

LEMMA TransferStep ==
    ASSUME TypeOK, DataoutFresh, Counted, Height \in Word, [Next]_vars, dma_state # "IDLE"
    PROVE  /\ dma_waddr - dma_waddr' = dma_cnt' - dma_cnt
           /\ dma_cnt' # dma_cnt => sram'[dma_waddr] = dma_reg
           /\ dma_raddr' # dma_raddr => dma_reg' = sram[dma_raddr]
  <1>0. dma_waddr \in Int /\ dma_cnt \in Int
    BY SmallWords DEF TypeOK
  <1>1. CASE UNCHANGED <<dma_raddr, dma_waddr, dma_cnt>>
    BY <1>0, <1>1
  <1>2. CASE Next /\ ~Abort
    <2>1. Tick
      BY <1>2, LookAhead
    <2>2. CASE DmaStart \/ DmaWait \/ DmaRead
      BY <1>1, <2>2 DEF DmaStart, Starts, DmaWait, DmaRead, dma
    <2>3. CASE DmaSample
      BY <1>0, <2>3 DEF DmaSample, DataoutFresh
    <2>4. CASE DmaWrite
      <3>1. /\ dma_waddr \in 0 .. Height - 1
            /\ sram' = [sram EXCEPT ![dma_waddr] = dma_reg]
        BY <2>1, <2>4, DmaWriteServed DEF Tick, DmaWrite
      <3>2. dma_waddr' = dma_waddr + 1 /\ dma_cnt' = dma_cnt - 1
        BY <2>4, <3>1, WriteCounts
      <3>3. sram'[dma_waddr] = dma_reg
        BY <3>1 DEF TypeOK
      <3>4. dma_raddr' = dma_raddr
        BY <2>4 DEF DmaWrite
      <3> QED
        BY <1>0, <3>2, <3>3, <3>4
    <2> QED
      BY <2>1, <2>2, <2>3, <2>4 DEF Tick
  <1> QED
    BY <1>1, <1>2 DEF Abort, vars, dma

\* From its start to its end a transfer is the engine's alone: no program
\* changes its registers (sp.c:371), every word counted off has been written and
\* every word written had been read from its place.
THEOREM TransferAlwaysUndisturbed ==
    ASSUME AluClosed, Height \in Word
    PROVE  Spec => TransferUndisturbed
  <1>1. Spec => []TypeOK
    BY TypeCorrect
  <1>2. Spec => []DataoutFresh
    BY PortFresh
  <1>3. Init => Counted
    BY DEF Init, Counted
  <1>4. TypeOK /\ Counted /\ [Next]_vars => Counted'
    BY CountedStep
  <1>5. TypeOK /\ DataoutFresh /\ Counted /\ [Next]_vars
          => [dma_state # "IDLE" =>
                /\ dma_waddr - dma_waddr' = dma_cnt' - dma_cnt
                /\ dma_cnt' # dma_cnt => sram'[dma_waddr] = dma_reg
                /\ dma_raddr' # dma_raddr => dma_reg' = sram[dma_raddr]]_vars
    BY TransferStep
  <1> QED
    BY <1>1, <1>2, <1>3, <1>4, <1>5, PTL DEF Spec, TransferUndisturbed

-----------------------------------------------------------------------------
(***************************************************************************)
(* The progress of a transfer.                                             *)
(***************************************************************************)

\* The words behind the one under way become one fewer, round the end of the
\* C ints, too.
LEMMA OneWordLess ==
    ASSUME NEW c \in Word, c # 1
    PROVE  /\ (c - 1) % WordMod \in Nat
           /\ (Wrap(c - 1) - 1) % WordMod = ((c - 1) % WordMod) - 1
  <1> DEFINE H == WordMod \div 2
  <1>1. WordMod \in Nat \ {0} /\ H \in Nat /\ H > 4 /\ WordMod = 2 * H
    BY ImmModAssumption DEF WordMod
  <1>2. c \in Int /\ -H <= c /\ c < H
    BY <1>1 DEF Word
  <1> HIDE DEF H
  <1>3. CASE c >= 2
    <2>1. c - 1 \in Word
      BY <1>1, <1>2, <1>3 DEF Word, H
    <2>2. (c - 1) % WordMod = c - 1 /\ (c - 1 - 1) % WordMod = c - 2
      BY <1>1, <1>2, <1>3, SmallMod
    <2> QED
      BY <1>2, <1>3, <2>1, <2>2, WrapOfWord
  <1>4. CASE c <= 0 /\ c > -H
    <2>1. c - 1 \in Word
      BY <1>1, <1>2, <1>4 DEF Word, H
    <2>2. (c - 1) % WordMod = c - 1 + WordMod /\ (c - 1 - 1) % WordMod = c - 2 + WordMod
      BY <1>1, <1>2, <1>4
    <2>3. c - 1 + WordMod \in Nat
      BY <1>1, <1>2, <1>4
    <2>4. Wrap(c - 1) = c - 1
      BY <2>1, WrapOfWord
    <2> QED
      BY <1>1, <1>2, <2>2, <2>3, <2>4
  <1>5. CASE c = -H
    <2>1. (c - 1 + H) % WordMod = WordMod - 1
      BY <1>1, <1>5
    <2>2. Wrap(c - 1) = H - 1
      BY <1>1, <2>1 DEF Wrap, H
    <2>3. (c - 1) % WordMod = H - 1 /\ (H - 1 - 1) % WordMod = H - 2
      BY <1>1, <1>5
    <2> QED
      BY <1>1, <2>2, <2>3
  <1> QED
    BY <1>1, <1>2, <1>3, <1>4, <1>5

\* A clock of the control machine brings DEC1 nearer.
DeadlineTable ==
    /\ Deadline \in 0 .. 7
    /\ dma_state = "WRITE" => Deadline <= 5
    /\ ctl_state = "DEC1" =>
         /\ dma_state \in {"READ", "SAMPLE"} => Deadline = 6
         /\ dma_state = "WRITE" => Deadline = 0
    /\ ctl_state = "DEC0" =>
         /\ dma_state = "READ" => Deadline = 7
         /\ dma_state \in {"SAMPLE", "WRITE"} => Deadline = 1
    /\ ctl_state = "FETCH1" => Deadline = 2
    /\ ctl_state = "FETCH0" => Deadline = 3
    /\ ctl_state = "EXEC1" => Deadline = 4
    /\ ctl_state \in {"IDLE", "EXEC0"} => Deadline = 5

LEMMA DeadlineNow == DeadlineTable
  BY DEF DeadlineTable, Deadline

LEMMA DeadlineThen == DeadlineTable'
  BY DEF DeadlineTable, Deadline

LEMMA DeadlineNext ==
    ASSUME TypeOK, DataoutFresh, Tick, sim' = "running", dma_state # "IDLE"
    PROVE  /\ DmaWait \/ DmaRead \/ DmaSample => Deadline' < Deadline
           /\ DmaWrite /\ dma_state' = "READ" => Deadline' < Deadline + 6
  <1>1. ctl_state' = NextCtl /\ ctl_state \in CtlStates /\ dma_state \in DmaStates
    BY DEF Tick, TypeOK
  <1>2. ~Halts
    BY DEF Tick
  <1>3. CASE DmaWait
    <2>1. /\ dma_state' = dma_state
          /\ ~DmaOn \/ (dma_state = "READ" /\ ~DmaReads)
      BY <1>3 DEF DmaWait, dma
    <2>2. dma_state # "SAMPLE"
      BY <2>1 DEF DataoutFresh, DmaReads
    <2>3. ctl_state \notin {"FETCH1", "DEC0"}
      BY <2>1 DEF DmaReads, DmaOn, DmaEnable, NextCtl
    <2>4. ctl_state = "DEC1" => dma_state = "READ"
      BY <2>1 DEF DmaOn, DmaEnable
    <2> QED
      BY <1>1, <1>2, <1>3, <2>1, <2>2, <2>3, <2>4, DeadlineNow, DeadlineThen
      DEF DeadlineTable, NextCtl, CtlStates, DmaStates, Halts, DmaWait, DmaRead, DmaSample, DmaWrite, DmaReads
  <1>4. CASE DmaRead
    <2>1. dma_state = "READ" /\ dma_state' = "SAMPLE" /\ DmaOn /\ DmaEnable(NextCtl, NextOpcode)
      BY <1>4 DEF DmaRead, DmaReads
    <2>2. ctl_state \notin {"FETCH0", "EXEC1", "IDLE"}
      BY <1>1, <1>2, <2>1 DEF DmaOn, DmaEnable, NextCtl, Halts
    <2> QED
      BY <1>1, <1>2, <2>1, <2>2, DeadlineNow, DeadlineThen
      DEF DeadlineTable, NextCtl, CtlStates, Halts, DmaWrite
  <1>5. CASE DmaSample
    <2>1. dma_state = "SAMPLE" /\ dma_state' = "WRITE"
      BY <1>5 DEF DmaSample
    <2> QED
      BY <1>1, <1>2, <2>1, DeadlineNow, DeadlineThen
      DEF DeadlineTable, NextCtl, CtlStates, Halts, DmaWrite
  <1>6. CASE DmaWrite /\ dma_state' = "READ"
    <2>1. dma_state = "WRITE"
      BY <1>6 DEF DmaWrite
    <2>2. Deadline' < Deadline + 6
      BY <1>1, <1>2, <1>6, <2>1, DeadlineNow, DeadlineThen DEF DeadlineTable, NextCtl, CtlStates, Halts
    <2>3. ~DmaWait /\ ~DmaRead /\ ~DmaSample
      BY <1>6, <2>1 DEF DmaRead, DmaReads, DmaSample, DmaWait, DmaWrite, dma
    <2> QED
      BY <2>2, <2>3
  <1> QED
    BY <1>3, <1>4, <1>5, <1>6

\* The DMA copies a word per instruction, at least: for every program and for
\* every count, also when loads and stores take the port as often as they can.
THEOREM AlwaysWordPerInstruction ==
    ASSUME AluClosed
    PROVE  Spec => WordPerInstruction
  <1>1. Spec => []TypeOK
    BY TypeCorrect
  <1>2. Spec => []DataoutFresh
    BY PortFresh
  <1>3. TypeOK /\ DataoutFresh /\ [Next]_vars
          => [dma_state # "IDLE" /\ sim' = "running" =>
                dma_state' = "IDLE" \/ DmaClocks' < DmaClocks]_vars
    <2> SUFFICES ASSUME TypeOK, DataoutFresh, Next,
                        dma_state # "IDLE", sim' = "running", dma_state' # "IDLE"
                 PROVE  DmaClocks' < DmaClocks
      OBVIOUS
    <2>1. ~Abort
      BY DEF Abort, SRAM!Verdict
    <2>2. Tick
      BY <2>1, LookAhead
    <2>3. Deadline \in Int /\ Deadline' \in Int
      BY DeadlineNow, DeadlineThen DEF DeadlineTable
    <2>4. WordMod \in Nat \ {0} /\ dma_cnt \in Word /\ dma_cnt \in Int
      BY SmallWords, ImmModAssumption DEF TypeOK, WordMod
    <2>5. CASE DmaWait \/ DmaRead \/ DmaSample
      <3>1. dma_cnt' = dma_cnt
        BY <2>5 DEF DmaWait, DmaRead, DmaSample, dma
      <3>2. Deadline' < Deadline
        BY <2>2, <2>5, DeadlineNext
      <3>3. (dma_cnt - 1) % WordMod \in Int
        BY <2>4
      <3> QED
        BY <2>3, <3>1, <3>2, <3>3 DEF DmaClocks, WordMod
    <2>6. CASE DmaWrite
      <3>1. dma_cnt # 1 /\ dma_state' = "READ" /\ dma_cnt' = Wrap(dma_cnt - 1)
        BY <2>6 DEF DmaWrite
      <3>2. Deadline' < Deadline + 6
        BY <2>2, <2>6, <3>1, DeadlineNext
      <3>3. /\ (dma_cnt - 1) % WordMod \in Nat
            /\ (dma_cnt' - 1) % WordMod = ((dma_cnt - 1) % WordMod) - 1
        BY <2>4, <3>1, OneWordLess
      <3>4. DmaClocks = 6 * ((dma_cnt - 1) % WordMod) + Deadline
              /\ DmaClocks' = 6 * ((dma_cnt' - 1) % WordMod) + Deadline'
        BY DEF DmaClocks, WordMod
      <3> QED
        BY <2>3, <3>2, <3>3, <3>4
    <2> QED
      BY <2>2, <2>5, <2>6 DEF Tick, DmaStart, Starts
  <1> QED
    BY <1>1, <1>2, <1>3, PTL DEF Spec, WordPerInstruction

-----------------------------------------------------------------------------
(***************************************************************************)
(* What the registers hold of the instruction under way.                   *)
(***************************************************************************)
Carried ==
    /\ ctl_state = "IDLE" /\ sim = "running" => pc = 0
    /\ ctl_state \in {"DEC1", "EXEC0", "EXEC1"} =>
         /\ opcode = Opcode(inst) /\ dst = Dst(inst)
         /\ src0 = Src0(inst) /\ src1 = Src1(inst) /\ immediate = Imm(inst)
    /\ ctl_state \in {"EXEC0", "EXEC1"} =>
         alu0 = Operand0(r, inst) /\ alu1 = Operand1(r, inst)
    /\ ctl_state = "EXEC1" /\ opcode \in AluOps \cup JumpOps =>
         aluout = Alu(opcode, alu0, alu1, immediate)
    /\ ctl_state = "EXEC1" /\ opcode = LD => alu1 \in 0 .. Height - 1

\* A request that a clock serves is inside the memory.
LEMMA RequestInside ==
    ASSUME TypeOK, SRAM!Verdict(Reads, Writes) = "run", NEW q \in Reads \cup Writes
    PROVE  q.addr \in 0 .. Height - 1
  <1>1. q.addr \in Int
    BY SmallWords DEF TypeOK, Reads, Writes
  <1>2. ~SRAM!OutOfRange(Reads, Writes) /\ ~SRAM!Wild(Reads, Writes)
    BY DEF SRAM!Verdict
  <1> QED
    BY <1>1, <1>2, MultiAssumption DEF SRAM!OutOfRange, SRAM!Wild

LEMMA CarriedStep ==
    ASSUME TypeOK, Carried, [Next]_vars
    PROVE  Carried'
  <1>1. CASE UNCHANGED vars
    BY <1>1 DEF Carried, vars, control, decoded, alu
  <1>2. CASE Abort
    BY <1>2 DEF Carried, Abort, control, decoded, alu, SRAM!Verdict
  <1>3. CASE Idle
    BY <1>3 DEF Idle, Tick, NextCtl, Carried
  <1>4. CASE Fetch0
    BY <1>4 DEF Fetch0, Tick, NextCtl, Carried
  <1>5. CASE Fetch1
    BY <1>5 DEF Fetch1, Tick, NextCtl, Carried
  <1>6. CASE Dec0
    BY <1>6 DEF Dec0, Tick, NextCtl, Carried
  <1>7. CASE Dec1
    <2>1. /\ ctl_state' = "EXEC0" /\ UNCHANGED <<inst, opcode, dst, src0, src1, immediate>>
          /\ r' = [r EXCEPT ![1] = immediate]
      BY <1>7 DEF Dec1, Tick, NextCtl, decoded
    <2>2. /\ opcode = Opcode(inst) /\ dst = Dst(inst)
          /\ src0 = Src0(inst) /\ src1 = Src1(inst) /\ immediate = Imm(inst)
      BY <1>7 DEF Dec1, Carried
    <2>3. \A s \in RegId : Operand(r', s, immediate) = Operand(r, s, immediate)
      <3>1. r \in [RegId -> Word]
        BY DEF TypeOK
      <3> QED
        BY <2>1, <3>1 DEF Operand
    <2>4. src0 \in RegId /\ src1 \in RegId
      BY DEF TypeOK
    <2>5. alu0' = Operand0(r, inst)' /\ alu1' = Operand1(r, inst)'
      BY <1>7, <2>1, <2>2, <2>3, <2>4 DEF Dec1, Operand0, Operand1
    <2> QED
      BY <2>1, <2>2, <2>5 DEF Carried
  <1>8. CASE Exec0
    <2>1. /\ ctl_state = "EXEC0" /\ ctl_state' = "EXEC1"
          /\ UNCHANGED <<r, inst, opcode, dst, src0, src1, immediate, alu0, alu1>>
          /\ aluout' = IF opcode \in AluOps \cup JumpOps
                       THEN Alu(opcode, alu0, alu1, immediate) ELSE aluout
      BY <1>8 DEF Exec0, Tick, NextCtl, decoded
    <2>2. opcode = LD => alu1 \in 0 .. Height - 1
      <3>1. opcode = LD => [by |-> "load", addr |-> alu1] \in Reads
        BY <2>1 DEF Reads
      <3>2. SRAM!Verdict(Reads, Writes) = "run"
        BY <1>8 DEF Exec0, Tick
      <3> QED
        BY <3>1, <3>2, RequestInside
    <2> QED
      BY <2>1, <2>2 DEF Carried, Operand0, Operand1
  <1>9. CASE Exec1
    BY <1>9 DEF Exec1, Tick, NextCtl, Halts, Carried
  <1> QED
    BY <1>1, <1>2, <1>3, <1>4, <1>5, <1>6, <1>7, <1>8, <1>9 DEF Next

LEMMA CarriedAlways == ASSUME AluClosed PROVE Spec => []Carried
  <1>1. Init => Carried
    BY DEF Init, Carried
  <1> QED
    BY <1>1, TypeCorrect, CarriedStep, PTL DEF Spec
-----------------------------------------------------------------------------
(***************************************************************************)
(* The programmer's view of a state.                                       *)
(***************************************************************************)
archR    == [r EXCEPT ![1] = 0]
archPc   == IF Advanced THEN Wrap(pc - 1) ELSE pc
archIr   == IF ~Pending THEN 0 ELSE IF ctl_state = "FETCH1" THEN dataout ELSE inst
archCpu  == <<archR, archPc, Pending, archIr, dump, sim>>

\* SPArch reads words and fields as SPMulti does.
LEMMA SameIsa ==
    /\ \A w : Arch!Wrap(w) = Wrap(w)
    /\ \A i : /\ Arch!Opcode(i) = Opcode(i) /\ Arch!Dst(i) = Dst(i)
              /\ Arch!Imm(i) = Imm(i)
    /\ \A rf, i : /\ Arch!Operand0(rf, i) = Operand0(rf, i)
                  /\ Arch!Operand1(rf, i) = Operand1(rf, i)
    /\ Arch!AluOps = AluOps /\ Arch!JumpOps = JumpOps /\ Arch!Opcodes = Opcodes
    /\ Arch!LD = LD /\ Arch!ST = ST /\ Arch!DMA = DMA /\ Arch!POL = POL /\ Arch!HLT = HLT
  <1>1. \A w : Arch!Wrap(w) = Wrap(w)
    BY DEF Arch!Wrap, Wrap, Arch!WordMod, WordMod
  <1>2. \A i : /\ Arch!Opcode(i) = Opcode(i) /\ Arch!Dst(i) = Dst(i)
               /\ Arch!Imm(i) = Imm(i)
    BY DEF Arch!Opcode, Opcode, Arch!Dst, Dst, Arch!Imm, Imm
  <1>3. \A rf, i : /\ Arch!Operand0(rf, i) = Operand0(rf, i)
                   /\ Arch!Operand1(rf, i) = Operand1(rf, i)
    BY <1>2 DEF Arch!Operand0, Operand0, Arch!Operand1, Operand1, Arch!Operand, Operand,
                Arch!Src0, Src0, Arch!Src1, Src1, Arch!LHI, LHI
  <1>4. /\ Arch!AluOps = AluOps /\ Arch!JumpOps = JumpOps
        /\ Arch!LD = LD /\ Arch!ST = ST /\ Arch!DMA = DMA /\ Arch!POL = POL /\ Arch!HLT = HLT
    BY DEF Arch!AluOps, AluOps, Arch!JumpOps, JumpOps, Arch!LD, LD, Arch!ST, ST,
           Arch!DMA, DMA, Arch!POL, POL, Arch!HLT, HLT
  <1>5. Arch!Opcodes = Opcodes
    BY <1>4 DEF Arch!Opcodes, Opcodes
  <1> QED
    BY <1>1, <1>2, <1>3, <1>4, <1>5

\* An instruction that takes effect: the pending one is gone and the registers
\* and the program counter have their next values.
LEMMA RetireSeen ==
    ASSUME NEW regs, NEW next, Pending, ~Pending', archR' = regs, archPc' = next,
           dump' = dump, sim' = sim
    PROVE  Arch!Retire(regs, next)
  BY DEF Arch!Retire, archR, archPc

LEMMA CpuUnseen ==
    ASSUME UNCHANGED archCpu
    PROVE  UNCHANGED Arch!cpu
  BY DEF Arch!cpu, archCpu, archR, archPc, archIr

-----------------------------------------------------------------------------
(***************************************************************************)
(* Memory and DMA.                                                         *)
(***************************************************************************)
\* Beside any instruction but a store or the start of a transfer, the engine
\* picks a word up, puts one down or rests.
LEMMA EngineStep ==
    ASSUME TypeOK, DataoutFresh, Tick, ~Starts, ~(ctl_state = "EXEC1" /\ opcode = ST)
    PROVE  Arch!Pick \/ Arch!Put \/ UNCHANGED <<sram, Arch!dma>>
  <1> USE DEF Arch!dma
  <1>0. SRAM!Verdict(Reads, Writes) = "run" /\ SRAM!Clock(Reads, Writes)
    BY DEF Tick
  <1>1. CASE DmaWait
    <2>1. dma_state # "SAMPLE"
      BY <1>1 DEF DmaWait, DataoutFresh
    <2>2. Writes = {}
      BY <1>1 DEF DmaWait, Writes
    <2>3. sram' = sram
      BY <1>0, <2>2 DEF SRAM!Clock
    <2> QED
      BY <1>1, <2>1, <2>3 DEF DmaWait, dma
  <1>2. CASE DmaRead
    <2>1. dma_state = "READ" /\ dma_state' = "SAMPLE"
          /\ UNCHANGED <<dma_raddr, dma_waddr, dma_cnt>>
      BY <1>2 DEF DmaRead, DmaReads
    <2>2. dataout' = sram[dma_raddr] /\ sram' = sram
      BY <1>0, <1>2, DmaReadServed DEF DmaRead
    <2>3. [by |-> "dma", addr |-> dma_raddr] \in Reads
      BY <1>2 DEF DmaRead, Reads
    <2>4. dma_raddr \in 0 .. Height - 1
      BY <1>0, <2>3, RequestInside
    <2>5. Arch!Pick
      BY <2>1, <2>2, <2>4, SameIsa DEF Arch!Pick, Arch!Address
    <2> QED
      BY <2>5
  <1>3. CASE DmaSample
    <2>1. Writes = {}
      BY <1>3 DEF DmaSample, Writes
    <2>2. sram' = sram
      BY <1>0, <2>1 DEF SRAM!Clock
    <2> QED
      BY <1>3, <2>2 DEF DmaSample
  <1>4. CASE DmaWrite
    <2>1. dma_waddr \in 0 .. Height - 1 /\ sram' = [sram EXCEPT ![dma_waddr] = dma_reg]
      BY <1>0, <1>4, DmaWriteServed DEF DmaWrite
    <2>2. Arch!Put
      BY <1>4, <2>1, SameIsa DEF DmaWrite, Arch!Put, Arch!Address
    <2> QED
      BY <2>2
  <1> QED
    BY <1>1, <1>2, <1>3, <1>4 DEF Tick, DmaStart

\* A store has the memory for itself; the engine rests.
LEMMA StoreStep ==
    ASSUME TypeOK, DataoutFresh, Tick, ctl_state = "EXEC1", opcode = ST
    PROVE  /\ alu1 \in 0 .. Height - 1
           /\ sram' = [sram EXCEPT ![alu1] = alu0]
           /\ UNCHANGED Arch!dma
  <1>1. ~DmaOn /\ ~Starts
    BY DEF DmaOn, DmaEnable, Starts
  <1>2. Reads = {} /\ Writes = {[by |-> "store", addr |-> alu1, val |-> alu0]}
    BY <1>1 DEF Reads, Writes, DmaReads
  <1>3. SRAM!Verdict(Reads, Writes) = "run" /\ SRAM!Clock(Reads, Writes)
    BY DEF Tick
  <1>4. PICK w \in Writes : sram' = [sram EXCEPT ![w.addr] = w.val]
    BY <1>2, <1>3 DEF SRAM!Clock
  <1>5. w.addr = alu1 /\ w.val = alu0
    BY <1>2
  <1>6. w.addr \in 0 .. Height - 1
    BY <1>3, RequestInside
  <1>7. DmaWait /\ dma_state # "SAMPLE"
    BY <1>1 DEF Tick, DmaStart, DmaRead, DmaReads, DmaSample, DmaWrite, DataoutFresh
  <1>8. UNCHANGED Arch!dma
    BY <1>7 DEF DmaWait, dma, Arch!dma
  <1> QED
    BY <1>4, <1>5, <1>6, <1>8

\* A clock that starts a transfer does not touch the memory.
LEMMA StartStep ==
    ASSUME TypeOK, Tick, Starts
    PROVE  /\ sram' = sram
           /\ dma_state' = "READ" /\ dma_raddr' = alu0 /\ dma_waddr' = alu1
           /\ dma_cnt' = immediate
  <1>1. DmaStart
    BY DEF Tick, Starts, DmaWait, DmaRead, DmaReads, DmaSample, DmaWrite
  <1>2. Writes = {}
    BY DEF Starts, Writes
  <1> QED
    BY <1>1, <1>2 DEF DmaStart, Tick, SRAM!Clock

-----------------------------------------------------------------------------
(***************************************************************************)
(* The instructions.                                                       *)
(***************************************************************************)
LEMMA WrapForth ==
    ASSUME NEW a \in Word
    PROVE  Wrap(Wrap(a - 1) + 1) = a
  <1> DEFINE H == WordMod \div 2
  <1>1. WordMod \in Nat \ {0} /\ H \in Nat \ {0} /\ WordMod = 2 * H
    BY ImmModAssumption DEF WordMod
  <1>2. a \in Int /\ -H <= a /\ a < H
    BY <1>1 DEF Word
  <1>3. CASE a - 1 >= -H
    <2>1. a - 1 \in Word
      BY <1>1, <1>2, <1>3 DEF Word
    <2>2. Wrap(a - 1) = a - 1
      BY <2>1, WrapOfWord
    <2> QED
      BY <1>2, <2>2, WrapOfWord
  <1>4. CASE a = -H
    <2>1. (-H - 1 + H) % WordMod = WordMod - 1
      BY <1>1
    <2>2. Wrap(a - 1) = H - 1
      BY <1>1, <1>4, <2>1 DEF Wrap
    <2>3. (H - 1 + 1 + H) % WordMod = 0
      BY <1>1
    <2>4. Wrap(H - 1 + 1) = -H
      BY <1>1, <2>3 DEF Wrap
    <2> QED
      BY <1>4, <2>2, <2>4
  <1> QED
    BY <1>1, <1>2, <1>3, <1>4

\* An instruction in EXEC0 or EXEC1, as the programmer sees it.
LEMMA PendingSeen ==
    ASSUME TypeOK, Carried, ctl_state \in {"EXEC0", "EXEC1"}, Pending
    PROVE  /\ archIr = inst /\ Arch!op = opcode
           /\ Arch!x = alu0 /\ Arch!y = alu1
           /\ Dst(inst) = dst /\ Imm(inst) = immediate
           /\ Wrap(archPc + 1) = pc
  <1>1. archIr = inst
    BY DEF archIr
  <1>2. archPc = Wrap(pc - 1) /\ pc \in Word
    BY DEF archPc, Advanced, Pending, TypeOK
  <1>3. opcode = Opcode(inst) /\ dst = Dst(inst) /\ immediate = Imm(inst)
        /\ alu0 = Operand0(r, inst) /\ alu1 = Operand1(r, inst)
    BY DEF Carried
  <1>4. r \in [RegId -> Word] /\ src0 \in RegId /\ src1 \in RegId
        /\ src0 = Src0(inst) /\ src1 = Src1(inst)
    BY DEF TypeOK, Carried
  <1>5. Operand0(archR, inst) = Operand0(r, inst) /\ Operand1(archR, inst) = Operand1(r, inst)
    BY <1>4 DEF Operand0, Operand1, Operand, archR
  <1>6. Arch!op = Arch!Opcode(archIr) /\ Arch!x = Arch!Operand0(archR, archIr)
        /\ Arch!y = Arch!Operand1(archR, archIr)
    BY DEF Arch!op, Arch!x, Arch!y, archR, archIr
  <1>7. Wrap(archPc + 1) = pc
    BY <1>2, WrapForth
  <1> QED
    BY <1>1, <1>3, <1>5, <1>6, <1>7, SameIsa

\* Register 1 is no destination the programmer could read.
LEMMA SetSeen ==
    ASSUME r \in [RegId -> Word], NEW d \in RegId, NEW v, r' = [r EXCEPT ![d] = v]
    PROVE  archR' = Arch!Set(d, v)
  BY DEF archR, Arch!Set, RegId

LEMMA Exec1Step ==
    ASSUME TypeOK, DataoutFresh, Carried, Exec1, opcode \notin {ST, DMA}
    PROVE  Arch!Compute \/ Arch!Load \/ Arch!Poll \/ Arch!Jump \/ Arch!Skip \/ Arch!Halt
  <1>1. Pending /\ ~Pending'
    BY DEF Exec1, Tick, NextCtl, Pending
  <1>2. /\ archIr = inst /\ Arch!op = opcode
        /\ Arch!x = alu0 /\ Arch!y = alu1
        /\ Dst(inst) = dst /\ Imm(inst) = immediate
        /\ Wrap(archPc + 1) = pc
    BY <1>1, PendingSeen DEF Exec1
  <1>3. archPc' = pc'
    BY <1>1 DEF archPc, Advanced, Exec1, Tick, NextCtl
  <1>4. archPc = Wrap(pc - 1)
    BY <1>1 DEF archPc, Advanced, Pending, Exec1
  <1>5. r \in [RegId -> Word] /\ dst \in RegId /\ 7 \in RegId
    BY DEF TypeOK, RegId
  <1>6. Arch!op = opcode /\ Arch!Dst(archIr) = dst /\ Arch!Imm(archIr) = immediate
        /\ Arch!Wrap(archPc + 1) = pc
    BY <1>2, SameIsa
  <1>7. CASE opcode \in AluOps
    <2>1. r' = [r EXCEPT ![dst] = aluout] /\ pc' = pc /\ UNCHANGED <<dump, sim>>
      BY <1>7 DEF Exec1, Taken, AluOps, JumpOps, LD, POL, HLT, Halts, Tick, Dump
    <2>2. aluout = Alu(opcode, alu0, alu1, immediate)
      BY <1>7 DEF Carried, Exec1
    <2>3. archR' = Arch!Set(dst, Alu(opcode, alu0, alu1, immediate))
      BY <1>5, <2>1, <2>2, SetSeen
    <2>4. Arch!Retire(Arch!Set(dst, Alu(opcode, alu0, alu1, immediate)), pc)
      BY <1>1, <1>3, <2>1, <2>3, RetireSeen
    <2>5. Arch!Compute
      BY <1>2, <1>6, <1>7, <2>4, SameIsa DEF Arch!Compute, archIr, archPc
    <2> QED
      BY <2>5
  <1>8. CASE opcode = LD
    <2>1. r' = [r EXCEPT ![dst] = dataout] /\ pc' = pc /\ UNCHANGED <<dump, sim>>
      BY <1>8 DEF Exec1, Taken, AluOps, JumpOps, LD, POL, HLT, Halts, Tick, Dump
    <2>2. dataout = sram[alu1] /\ alu1 \in 0 .. Height - 1
      BY <1>8 DEF Carried, DataoutFresh, Exec1
    <2>3. archR' = Arch!Set(dst, sram[alu1])
      BY <1>5, <2>1, <2>2, SetSeen
    <2>4. Arch!Retire(Arch!Set(dst, sram[alu1]), pc)
      BY <1>1, <1>3, <2>1, <2>3, RetireSeen
    <2>5. Arch!Load
      BY <1>2, <1>6, <1>8, <2>2, <2>4, SameIsa DEF Arch!Load, Arch!Address, archIr, archPc
    <2> QED
      BY <2>5
  <1>9. CASE opcode = POL
    <2>1. r' = [r EXCEPT ![dst] = dma_cnt] /\ pc' = pc /\ UNCHANGED <<dump, sim>>
      BY <1>9 DEF Exec1, Taken, AluOps, JumpOps, LD, POL, HLT, Halts, Tick, Dump
    <2>2. archR' = Arch!Set(dst, dma_cnt)
      BY <1>5, <2>1, SetSeen
    <2>3. Arch!Retire(Arch!Set(dst, dma_cnt), pc)
      BY <1>1, <1>3, <2>1, <2>2, RetireSeen
    <2>4. Arch!Poll
      BY <1>2, <1>6, <1>9, <2>3, SameIsa DEF Arch!Poll, archIr, archPc
    <2> QED
      BY <2>4
  <1>10. CASE opcode \in JumpOps
    <2>1. UNCHANGED <<dump, sim>>
      BY <1>10 DEF Exec1, JumpOps, HLT, Halts, Tick, Dump
    <2>2. aluout = Alu(opcode, alu0, alu1, immediate)
      BY <1>10 DEF Carried, Exec1
    <2>3. CASE aluout # 0
      <3>1. r' = [r EXCEPT ![7] = archPc] /\ pc' = immediate
        BY <1>4, <1>10, <2>3 DEF Exec1, Taken, AluOps, JumpOps, LD, POL
      <3>2. archR' = Arch!Set(7, archPc)
        BY <1>5, <3>1, SetSeen
      <3>3. Arch!Retire(Arch!Set(7, archPc), immediate)
        BY <1>1, <1>3, <2>1, <3>1, <3>2, RetireSeen
      <3>4. Arch!Jump
        BY <1>2, <1>6, <1>10, <2>2, <2>3, <3>3, SameIsa DEF Arch!Jump, archIr, archPc
      <3> QED
        BY <3>4
    <2>4. CASE aluout = 0
      <3>1. r' = r /\ pc' = pc
        BY <1>10, <2>4 DEF Exec1, Taken, AluOps, JumpOps, LD, POL
      <3>2. archR' = archR
        BY <3>1 DEF archR
      <3>3. Arch!Retire(archR, pc)
        BY <1>1, <1>3, <2>1, <3>1, <3>2, RetireSeen
      <3>4. Arch!Jump
        BY <1>2, <1>6, <1>10, <2>2, <2>4, <3>3, SameIsa DEF Arch!Jump, archIr, archPc, archR
      <3> QED
        BY <3>4
    <2> QED
      BY <2>3, <2>4
  <1>11. CASE opcode = HLT
    <2>1. /\ dump' = sram /\ sim' = "stopped" /\ r' = r /\ pc' = pc
      BY <1>11 DEF Exec1, Taken, AluOps, JumpOps, LD, POL, HLT, Halts, Tick, Dump
    <2>2. archR' = archR
      BY <2>1 DEF archR
    <2>3. Arch!Halt
      BY <1>1, <1>2, <1>3, <1>6, <1>11, <2>1, <2>2, SameIsa
      DEF Arch!Halt, archIr, archPc, archR
    <2> QED
      BY <2>3
  <1>12. CASE opcode \notin Opcodes
    <2>1. UNCHANGED <<dump, sim>> /\ r' = r /\ pc' = pc
      BY <1>12 DEF Exec1, Taken, Opcodes, HLT, Halts, Tick, Dump
    <2>2. archR' = archR
      BY <2>1 DEF archR
    <2>3. Arch!Retire(archR, pc)
      BY <1>1, <1>3, <2>1, <2>2, RetireSeen
    <2>4. Arch!Skip
      BY <1>2, <1>6, <1>12, <2>3, SameIsa DEF Arch!Skip, archIr, archPc, archR
    <2> QED
      BY <2>4
  <1> QED
    BY <1>7, <1>8, <1>9, <1>10, <1>11, <1>12 DEF Opcodes

\* Between the fetch and EXEC1 the programmer sees nothing but a DMA
\* instruction that comes too early and is dropped.
LEMMA CpuStep ==
    ASSUME TypeOK, DataoutFresh, Carried, Next, ~Abort, ~Starts,
           ~(ctl_state = "EXEC1" /\ opcode = ST)
    PROVE  \/ Arch!Fetch \/ Arch!Compute \/ Arch!Load \/ Arch!Poll \/ Arch!Jump
           \/ Arch!Skip \/ Arch!Halt \/ UNCHANGED Arch!cpu
  <1>1. Tick /\ ctl_state' = NextCtl /\ opcode' = NextOpcode
    BY LookAhead
  <1>2. ctl_state # "EXEC1" => UNCHANGED <<dump, sim>>
    BY <1>1 DEF Tick, Dump, Halts
  <1>3. CASE Idle
    <2>1. UNCHANGED archCpu
      BY <1>1, <1>2, <1>3 DEF Idle, archCpu, archR, archPc, archIr, Pending, Advanced,
                              NextCtl, NextOpcode, Carried, Tick
    <2> QED
      BY <2>1, CpuUnseen
  <1>4. CASE Fetch0
    <2>1. /\ ctl_state' = "FETCH1" /\ UNCHANGED <<r, pc>> /\ ~Pending /\ Pending'
      BY <1>4 DEF Fetch0, control, Tick, NextCtl, Pending
    <2>2. dataout' = sram[pc]
      BY <1>1, <1>4, FetchServed DEF Fetch0, Tick
    <2>3. [by |-> "fetch", addr |-> pc] \in Reads
      BY <1>4 DEF Fetch0, Reads
    <2>4. pc \in 0 .. Height - 1
      BY <1>1, <2>3, RequestInside DEF Tick
    <2>5. archPc = pc /\ archPc' = pc /\ archIr' = sram[pc] /\ archR' = archR
      BY <1>4, <2>1, <2>2 DEF Fetch0, archPc, archIr, archR, Advanced
    <2>6. Arch!Fetch
      BY <1>2, <1>4, <2>1, <2>4, <2>5 DEF Fetch0, Arch!Fetch, Arch!Address, archPc, archIr, archR
    <2> QED
      BY <2>6
  <1>5. CASE Fetch1
    <2>1. UNCHANGED archCpu
      BY <1>1, <1>2, <1>5 DEF Fetch1, archCpu, archR, archPc, archIr, Pending, Advanced, NextCtl
    <2> QED
      BY <2>1, CpuUnseen
  <1>6. CASE Dec0
    <2>1. pc \in Word
      BY DEF TypeOK
    <2>2. Wrap(Wrap(pc + 1) - 1) = pc
      BY <2>1, WrapBack
    <2>3. UNCHANGED archCpu
      BY <1>1, <1>2, <1>6, <2>2
      DEF Dec0, alu, archCpu, archR, archPc, archIr, Pending, Advanced, NextCtl
    <2> QED
      BY <2>3, CpuUnseen
  <1>7. CASE Dec1
    <2>1. archR' = archR
      BY <1>7 DEF Dec1, archR, TypeOK, RegId
    <2>2. UNCHANGED archCpu
      BY <1>1, <1>2, <1>7, <2>1 DEF Dec1, archCpu, archPc, archIr, Pending, Advanced, NextCtl
    <2> QED
      BY <2>2, CpuUnseen
  <1>8. CASE Exec0 /\ opcode # DMA
    <2>1. UNCHANGED archCpu
      BY <1>1, <1>2, <1>8 DEF Exec0, decoded, archCpu, archR, archPc, archIr, Pending, Advanced,
                              NextCtl, NextOpcode
    <2> QED
      BY <2>1, CpuUnseen
  <1>9. CASE Exec0 /\ opcode = DMA
    <2>1. /\ ctl_state' = "EXEC1" /\ opcode' = DMA /\ UNCHANGED <<r, pc>>
          /\ Pending /\ ~Pending'
      BY <1>1, <1>9 DEF Exec0, NextCtl, NextOpcode, Pending
    <2>2. archPc' = pc /\ archR' = archR
      BY <2>1 DEF archPc, archR, Advanced
    <2>3. Arch!op = DMA /\ Wrap(archPc + 1) = pc
      BY <1>9, <2>1, PendingSeen DEF Exec0
    <2>4. Arch!Retire(archR, pc)
      BY <1>2, <1>9, <2>1, <2>2, RetireSeen DEF Exec0
    <2>5. dma_state # "IDLE"
      BY <1>9 DEF Exec0, Starts
    <2>6. Arch!Skip
      BY <2>3, <2>4, <2>5, SameIsa DEF Arch!Skip, archPc, archR
    <2> QED
      BY <2>6
  <1>10. CASE Exec1 /\ opcode = DMA
    <2>1. UNCHANGED archCpu
      BY <1>1, <1>10 DEF Exec1, archCpu, archR, archPc, archIr, Pending, Advanced,
                         NextCtl, NextOpcode, Taken, DMA, AluOps, JumpOps, LD, POL, HLT,
                         Halts, Tick, Dump
    <2> QED
      BY <2>1, CpuUnseen
  <1>11. CASE Exec1 /\ opcode # DMA
    BY <1>11, Exec1Step DEF Exec1
  <1> QED
    BY <1>3, <1>4, <1>5, <1>6, <1>7, <1>8, <1>9, <1>10, <1>11 DEF Next

-----------------------------------------------------------------------------
(***************************************************************************)
(* Every clock is a step of the programmer's view or none.                 *)
(***************************************************************************)
LEMMA ClockRefines ==
    ASSUME TypeOK, DataoutFresh, Carried, Next, ~Abort
    PROVE  Arch!Step
  <1>1. Tick /\ ctl_state' = NextCtl /\ opcode' = NextOpcode
    BY LookAhead
  <1>2. CASE ctl_state = "EXEC1" /\ opcode = ST
    <2>1. Exec1
      BY <1>2 DEF Next, Idle, Fetch0, Fetch1, Dec0, Dec1, Exec0
    <2>2. /\ alu1 \in 0 .. Height - 1 /\ sram' = [sram EXCEPT ![alu1] = alu0]
          /\ UNCHANGED Arch!dma
      BY <1>1, <1>2, StoreStep
    <2>3. Pending /\ ~Pending'
      BY <1>1, <1>2 DEF Pending, NextCtl, ST, DMA, HLT
    <2>4. /\ Arch!op = opcode /\ Arch!x = alu0 /\ Arch!y = alu1 /\ Wrap(archPc + 1) = pc
      BY <1>2, <2>3, PendingSeen
    <2>5. r' = r /\ pc' = pc /\ UNCHANGED <<dump, sim>>
      BY <1>1, <1>2, <2>1 DEF Exec1, Taken, AluOps, JumpOps, LD, ST, POL, HLT, Halts, Tick, Dump
    <2>6. archR' = archR /\ archPc' = pc
      BY <1>1, <1>2, <2>5 DEF archR, archPc, Advanced, NextCtl
    <2>7. Arch!Retire(archR, pc)
      BY <2>3, <2>5, <2>6, RetireSeen
    <2>8. Arch!Store
      BY <1>2, <2>2, <2>4, <2>7, SameIsa DEF Arch!Store, Arch!Address, archR, archPc
    <2> QED
      BY <2>8 DEF Arch!Step
  <1>3. CASE Starts
    <2>1. Exec0 /\ opcode = DMA /\ dma_state = "IDLE"
      BY <1>3 DEF Starts, Next, Idle, Fetch0, Fetch1, Dec0, Dec1, Exec1
    <2>2. /\ sram' = sram
          /\ dma_state' = "READ" /\ dma_raddr' = alu0 /\ dma_waddr' = alu1
          /\ dma_cnt' = immediate
      BY <1>1, <1>3, StartStep
    <2>3. /\ ctl_state' = "EXEC1" /\ opcode' = DMA /\ UNCHANGED <<r, pc, dump, sim>>
          /\ Pending /\ ~Pending'
      BY <1>1, <2>1 DEF Exec0, NextCtl, NextOpcode, Pending, Tick, Dump, Halts
    <2>4. /\ archIr = inst /\ Arch!op = DMA /\ Arch!x = alu0 /\ Arch!y = alu1
          /\ Imm(inst) = immediate /\ Wrap(archPc + 1) = pc
      BY <2>1, <2>3, PendingSeen DEF Exec0
    <2>5. archR' = archR /\ archPc' = pc
      BY <2>3 DEF archR, archPc, Advanced
    <2>6. Arch!Retire(archR, pc)
      BY <2>3, <2>5, RetireSeen
    <2>7. Arch!StartDma
      BY <2>1, <2>2, <2>4, <2>6, SameIsa DEF Arch!StartDma, archR, archPc, archIr
    <2> QED
      BY <2>7 DEF Arch!Step
  <1>4. CASE ~Starts /\ ~(ctl_state = "EXEC1" /\ opcode = ST)
    BY <1>1, <1>4, CpuStep, EngineStep DEF Arch!Step
  <1> QED
    BY <1>2, <1>3, <1>4

\* A clock that fails does so for an access that the programmer's view has.
LEMMA AbortRefines ==
    ASSUME TypeOK, Carried, Abort
    PROVE  Arch!Fail
  <1>1. SRAM!Verdict(Reads, Writes) # "run" /\ sim' = SRAM!Verdict(Reads, Writes) /\ Dump
        /\ UNCHANGED <<control, cycle_counter, ctl_state, dma, sram, dataout>>
    BY DEF Abort
  <1>2. \A q \in Reads \cup Writes : q.addr \in Arch!Accesses
    <2>1. ctl_state = "FETCH0" => pc \in Arch!Accesses
      BY DEF Arch!Accesses, Pending, Advanced
    <2>2. (ctl_state = "EXEC0" /\ opcode = LD) \/ (ctl_state = "EXEC1" /\ opcode = ST)
            => alu1 \in Arch!Accesses
      <3> SUFFICES ASSUME \/ ctl_state = "EXEC0" /\ opcode = LD
                          \/ ctl_state = "EXEC1" /\ opcode = ST
                   PROVE  alu1 \in Arch!Accesses
        OBVIOUS
      <3>1. Pending
        BY DEF Pending, LD, ST, DMA
      <3>2. Arch!op = opcode /\ Arch!y = alu1
        BY <3>1, PendingSeen
      <3> QED
        BY <3>1, <3>2, SameIsa DEF Arch!Accesses
    <2>3. dma_state = "READ" => dma_raddr \in Arch!Accesses
      BY DEF Arch!Accesses
    <2>4. dma_state = "WRITE" => dma_waddr \in Arch!Accesses
      BY DEF Arch!Accesses
    <2> QED
      BY <2>1, <2>2, <2>3, <2>4 DEF Reads, Writes, DmaReads
  <1>3. \/ sim' = "range" /\ \E a \in Arch!Accesses : a >= Height
        \/ sim' = "undefined" /\ \E a \in Arch!Accesses : a < 0
    BY <1>1, <1>2, RequestsNeverCollide DEF SRAM!Verdict, SRAM!OutOfRange, SRAM!Wild
  <1>4. UNCHANGED <<archR, archPc, archIr, Pending, sram>> /\ UNCHANGED Arch!dma
    BY <1>1 DEF control, decoded, alu, dma, archR, archPc, archIr, Pending, Advanced, Arch!dma
  <1>5. \/ UNCHANGED dump
        \/ Pending /\ Arch!op = HLT /\ dump' = sram
    <2>1. CASE Halts
      <3>1. ctl_state = "EXEC1" /\ Pending /\ opcode = HLT
        BY <2>1 DEF Halts, Pending, DMA, HLT
      <3> QED
        BY <1>1, <2>1, <3>1, PendingSeen DEF Dump
    <2> QED
      BY <1>1, <2>1 DEF Dump
  <1> QED
    BY <1>3, <1>4, <1>5, SameIsa DEF Arch!Fail, archR, archPc, archIr

LEMMA InitRefines ==
    ASSUME Init
    PROVE  Arch!Init
  <1>1. sram \in [Arch!Address -> Arch!Word]
    BY MultiAssumption DEF Init, Arch!Address, Arch!Word, Word, Arch!WordMod, WordMod
  <1>2. [r EXCEPT ![1] = 0] = [i \in Arch!RegId |-> 0]
    BY DEF Init, RegId, Arch!RegId
  <1> QED
    BY <1>1, <1>2 DEF Init, Arch!Init, Pending, Advanced

\* The instructions that sp_ctl spreads over six clocks take effect one after
\* the other as if each of them were atomic, and each word of a transfer is
\* picked up once and put down once, whatever program runs and whatever the
\* memory port is used for meanwhile.
THEOREM MultiImplementsArch ==
    ASSUME AluClosed
    PROVE  Spec => ArchSpec
  <1>1. Init => Arch!Init
    BY InitRefines
  <1>2. TypeOK /\ DataoutFresh /\ Carried /\ [Next]_vars => [Arch!Next]_(Arch!vars)
    <2> SUFFICES ASSUME TypeOK, DataoutFresh, Carried, [Next]_vars
                 PROVE  [Arch!Next]_(Arch!vars)
      OBVIOUS
    <2>1. CASE UNCHANGED vars
      BY <2>1 DEF vars, control, decoded, alu, dma, Arch!vars, Arch!cpu, Arch!dma, Pending, Advanced
    <2>2. CASE Abort
      BY <2>2, AbortRefines DEF Abort, Arch!Next
    <2>3. CASE Next /\ ~Abort
      <3>1. sim = "running"
        BY <2>3, LookAhead DEF Tick
      <3> QED
        BY <2>3, <3>1, ClockRefines DEF Arch!Next
    <2> QED
      BY <2>1, <2>2, <2>3
  <1>3. Spec => []TypeOK
    BY TypeCorrect
  <1>4. Spec => []DataoutFresh
    BY PortFresh
  <1>5. Spec => []Carried
    BY CarriedAlways
  <1> QED
    BY <1>1, <1>2, <1>3, <1>4, <1>5, PTL DEF Spec, ArchSpec, Arch!Spec
-----------------------------------------------------------------------------
(***************************************************************************)
(* The processor against the instruction-set simulator.  IssInv: as long   *)
(* as the two are comparable, no transfer is under way and the instruction *)
(* in the control registers is the one that iss.c has decoded at its pc.   *)
(***************************************************************************)
issPc == IF Advanced \/ sim = "stopped" THEN Wrap(pc - 1) ELSE pc

\* The instruction-set simulator as it would be with the ALU of the processor:
\* the steps of the two are compared with it first, the two ALUs afterwards.
Own == INSTANCE SPIss WITH
    REG   <- [r EXCEPT ![1] = 0],
    MEM   <- sram,
    insts <- Decode(program, Height),
    pc    <- IF Advanced \/ sim = "stopped" THEN Wrap(pc - 1) ELSE pc,
    n     <- Loaded(program),
    dump  <- Dumped,
    sim   <- IF sim = "stopped" THEN "stopped" ELSE "running"

IssInv ==
    /\ program \in [0 .. Height - 1 -> Word] /\ intact \in BOOLEAN
    /\ intact = TRUE => AsWritten
    /\ ctl_state \in {"EXEC0", "EXEC1"} => r[1] = immediate
    /\ Comparable =>
         /\ dma_state = "IDLE"
         /\ sim # "stopped" => Decoded(issPc)
         /\ ctl_state = "FETCH1" => dataout = program[pc]
         /\ ctl_state \in {"DEC0", "DEC1", "EXEC0", "EXEC1"} => inst = program[issPc]

\* What Plain says of an instruction that both simulators execute: what it is
\* and what may come next.
LEMMA PlainNext ==
    ASSUME Plain(program), NEW p, Decoded(p), program \in [0 .. Height - 1 -> Word]
    PROVE  /\ Opcode(program[p]) \notin {LHI, DMA, POL}
           /\ Opcode(program[p]) # HLT => Decoded(p + 1)
           /\ Opcode(program[p]) \in JumpOps => Decoded(Imm(program[p]))
           /\ Decode(program, Height)[p] = program[p]
  <1>1. PICK h \in 0 .. Height - 1 :
          /\ Opcode(program[h]) = HLT
          /\ \A q \in 0 .. h - 1 :
                /\ Opcode(program[q]) \notin {HLT, LHI, DMA, POL}
                /\ Opcode(program[q]) \in JumpOps => Imm(program[q]) <= h
    BY DEF Plain
  <1>2. p \in 0 .. Height - 1 /\ \A q \in 0 .. p - 1 : Opcode(program[q]) # HLT
    BY DEF Decoded
  <1>3. p <= h /\ p \in Int /\ h \in Int /\ Height \in Int
    BY <1>1, <1>2, MultiAssumption
  <1>4. \A q \in 0 .. h : Decoded(q)
    BY <1>1, <1>3, MultiAssumption DEF Decoded
  <1>5. p < h \/ p = h
    BY <1>3
  <1>6. Opcode(program[p]) \notin {LHI, DMA, POL}
    BY <1>1, <1>2, <1>5 DEF HLT, LHI, DMA, POL
  <1>7. ASSUME Opcode(program[p]) # HLT
        PROVE  p < h /\ Decoded(p + 1)
    <2>1. p < h
      BY <1>1, <1>5, <1>7
    <2> QED
      BY <1>2, <1>3, <1>4, <2>1
  <1>8. ASSUME Opcode(program[p]) \in JumpOps
        PROVE  Decoded(Imm(program[p]))
    <2>1. Opcode(program[p]) # HLT
      BY <1>8 DEF JumpOps, HLT
    <2>2. p \in 0 .. h - 1
      BY <1>2, <1>3, <1>7, <2>1
    <2>3. Imm(program[p]) <= h
      BY <1>1, <1>8, <2>2
    <2>4. Imm(program[p]) \in Immediate
      BY <1>2, FieldRanges
    <2>5. Imm(program[p]) \in 0 .. h
      BY <1>3, <2>3, <2>4, ImmModAssumption DEF Immediate
    <2> QED
      BY <1>4, <2>5
  <1>9. Decode(program, Height)[p] = program[p]
    BY <1>2 DEF Decode
  <1> QED
    BY <1>6, <1>7, <1>8, <1>9

\* While no transfer is under way and none starts, only a store changes memory.
LEMMA DmaRests ==
    ASSUME Tick, dma_state = "IDLE", ~Starts
    PROVE  /\ dma_state' = "IDLE"
           /\ ~(ctl_state = "EXEC1" /\ opcode = ST) => sram' = sram
  <1>1. dma_state' = "IDLE"
    BY DEF Tick, DmaStart, DmaWait, DmaRead, DmaReads, DmaSample, DmaWrite, dma
  <1>2. ASSUME ~(ctl_state = "EXEC1" /\ opcode = ST) PROVE sram' = sram
    <2>1. Writes = {}
      BY <1>2 DEF Writes
    <2> QED
      BY <2>1 DEF Tick, SRAM!Clock
  <1> QED
    BY <1>1, <1>2

\* The instruction in the control registers is no DMA, so that DEC0 shows in
\* the program counter until it has taken effect.
LEMMA InstKnown ==
    ASSUME TypeOK, Carried, IssInv, Comparable, sim = "running",
           ctl_state \in {"DEC1", "EXEC0", "EXEC1"}
    PROVE  /\ opcode = Opcode(inst) /\ opcode \notin {LHI, DMA, POL}
           /\ Advanced /\ issPc = Wrap(pc - 1) /\ Decoded(issPc) /\ inst = program[issPc]
           /\ ~Starts /\ dma_state = "IDLE"
  <1>1. Decoded(issPc) /\ inst = program[issPc] /\ dma_state = "IDLE"
        /\ program \in [0 .. Height - 1 -> Word]
    BY DEF IssInv
  <1>2. Plain(program)
    BY DEF Comparable
  <1>3. opcode = Opcode(inst) /\ opcode \notin {LHI, DMA, POL}
    BY <1>1, <1>2, PlainNext DEF Carried
  <1>4. Advanced
    BY <1>3 DEF Advanced
  <1> QED
    BY <1>1, <1>3, <1>4 DEF issPc, Starts

\* Where the program counter goes from an instruction.
LEMMA NextPc ==
    ASSUME TypeOK, Carried, IssInv, Comparable, Height \in Word, Exec1, ~Halts
    PROVE  /\ ctl_state' = "FETCH0" /\ issPc' = pc' /\ Decoded(pc') /\ sim' = "running"
           /\ pc' = IF Taken THEN Imm(inst) ELSE issPc + 1
           /\ program' = program => Decoded(issPc)'
  <1>1. /\ sim = "running" /\ sim' = "running" /\ ctl_state = "EXEC1" /\ opcode # HLT
        /\ ctl_state' = "FETCH0" /\ pc' = IF Taken THEN immediate ELSE pc
    BY DEF Exec1, Tick, Halts, NextCtl
  <1>2. /\ opcode = Opcode(inst) /\ issPc = Wrap(pc - 1) /\ Decoded(issPc)
        /\ inst = program[issPc] /\ immediate = Imm(inst)
    BY <1>1, InstKnown DEF Carried
  <1>3. Plain(program) /\ program \in [0 .. Height - 1 -> Word]
    BY DEF Comparable, IssInv
  <1>4. Decoded(issPc + 1) /\ (opcode \in JumpOps => Decoded(Imm(inst)))
    BY <1>1, <1>2, <1>3, PlainNext
  <1>5. pc = issPc + 1
    <2>1. Wrap(issPc + 1) = pc
      BY <1>2, WrapForth DEF TypeOK
    <2>2. issPc + 1 \in 0 .. Height - 1
      BY <1>4 DEF Decoded
    <2>3. issPc + 1 \in Word
      <3>1. WordMod \in Nat /\ WordMod \div 2 \in Nat
        BY ImmModAssumption DEF WordMod
      <3>2. issPc + 1 \in Int /\ 0 <= issPc + 1 /\ issPc + 1 <= Height
        BY <2>2, MultiAssumption
      <3>3. Height <= (WordMod \div 2) - 1 /\ Height \in Int
        BY <3>1 DEF Word
      <3> QED
        BY <3>1, <3>2, <3>3 DEF Word
    <2> QED
      BY <2>1, <2>3, WrapOfWord
  <1>6. pc' = IF Taken THEN Imm(inst) ELSE issPc + 1
    BY <1>1, <1>2, <1>5
  <1>7. Decoded(pc')
    BY <1>4, <1>6 DEF Taken
  <1>8. issPc' = pc'
    BY <1>1 DEF issPc, Advanced
  <1>9. program' = program => Decoded(issPc)'
    BY <1>7, <1>8 DEF Decoded
  <1> QED
    BY <1>1, <1>6, <1>7, <1>8, <1>9

LEMMA IssInvInit == IssInit => IssInv
  <1> SUFFICES ASSUME IssInit PROVE IssInv
    OBVIOUS
  <1>1. /\ program = sram /\ intact = TRUE /\ sram \in [0 .. Height - 1 -> Word]
        /\ ctl_state = "IDLE" /\ dma_state = "IDLE" /\ sim = "running" /\ pc = 0
    BY MultiAssumption DEF IssInit, Init
  <1>2. issPc = 0
    BY <1>1 DEF issPc, Advanced
  <1>3. Decoded(0)
    BY MultiAssumption DEF Decoded
  <1> QED
    BY <1>1, <1>2, <1>3 DEF IssInv, AsWritten

\* The part of the invariant that speaks of comparable executions.
LEMMA ComparableStep ==
    ASSUME TypeOK, DataoutFresh, Carried, IssInv, Comparable, Height \in Word, Next,
           program' = program
    PROVE  /\ dma_state' = "IDLE"
           /\ sim' # "stopped" => Decoded(issPc)'
           /\ ctl_state' = "FETCH1" => dataout' = program[pc']
           /\ ctl_state' \in {"DEC0", "DEC1", "EXEC0", "EXEC1"} => inst' = program[issPc']
  <1>0. /\ dma_state = "IDLE" /\ AsWritten
        /\ sim # "stopped" => Decoded(issPc)
        /\ ctl_state = "FETCH1" => dataout = program[pc]
        /\ ctl_state \in {"DEC0", "DEC1", "EXEC0", "EXEC1"} => inst = program[issPc]
    BY DEF IssInv, Comparable
  <1>1. ASSUME issPc' = issPc, Decoded(issPc) PROVE Decoded(issPc)'
    BY <1>1 DEF Decoded
  <1>2. CASE Abort
    <2>1. /\ UNCHANGED <<pc, inst, opcode, ctl_state, dma_state, dataout>>
          /\ sim = "running" /\ sim' # "stopped"
      BY <1>2 DEF Abort, control, decoded, dma, SRAM!Verdict
    <2>2. issPc' = issPc
      BY <2>1 DEF issPc, Advanced
    <2> QED
      BY <1>0, <1>1, <2>1, <2>2
  <1>3. CASE ~Abort
    <2>1. /\ Tick /\ ctl_state' = NextCtl /\ opcode' = NextOpcode /\ sim = "running"
          /\ sim' = IF Halts THEN "stopped" ELSE "running"
      BY <1>3, LookAhead DEF Tick
    <2>2. ~Starts
      BY <2>1, InstKnown DEF Starts
    <2>3. dma_state' = "IDLE"
      BY <1>0, <2>1, <2>2, DmaRests
    <2>4. CASE Idle
      <3>1. ctl_state' = "FETCH0" /\ pc' = 0 /\ sim' = "running"
        BY <2>1, <2>4 DEF Idle, NextCtl, Halts
      <3>2. issPc' = 0
        BY <3>1 DEF issPc, Advanced
      <3>3. Decoded(issPc)'
        BY <3>2, MultiAssumption DEF Decoded
      <3> QED
        BY <2>3, <3>1, <3>3
    <2>5. CASE Fetch0
      <3>1. ctl_state' = "FETCH1" /\ pc' = pc /\ sim' = "running" /\ ctl_state = "FETCH0"
        BY <2>1, <2>5 DEF Fetch0, NextCtl, Halts, control
      <3>2. issPc = pc /\ issPc' = pc
        BY <2>1, <3>1 DEF issPc, Advanced
      <3>3. dataout' = sram[pc]
        BY <2>1, <3>1, FetchServed DEF Tick
      <3>4. Decoded(pc) /\ pc \in 0 .. Height - 1
        BY <1>0, <2>1, <3>2 DEF Decoded
      <3>5. sram[pc] = program[pc]
        BY <1>0, <3>4 DEF AsWritten
      <3> QED
        BY <1>1, <2>3, <3>1, <3>2, <3>3, <3>4, <3>5
    <2>6. CASE Fetch1
      <3>1. /\ ctl_state' = "DEC0" /\ pc' = pc /\ sim' = "running" /\ ctl_state = "FETCH1"
            /\ inst' = dataout
        BY <2>1, <2>6 DEF Fetch1, NextCtl, Halts
      <3>2. issPc = pc /\ issPc' = pc
        BY <2>1, <3>1 DEF issPc, Advanced
      <3> QED
        BY <1>0, <1>1, <2>1, <2>3, <3>1, <3>2
    <2>7. CASE Dec0
      <3>1. /\ ctl_state' = "DEC1" /\ pc' = Wrap(pc + 1) /\ sim' = "running"
            /\ ctl_state = "DEC0" /\ inst' = inst
        BY <2>1, <2>7 DEF Dec0, NextCtl, Halts
      <3>2. issPc = pc /\ issPc' = Wrap(pc' - 1)
        BY <2>1, <3>1 DEF issPc, Advanced
      <3>3. issPc' = pc
        BY <3>1, <3>2, WrapBack DEF TypeOK
      <3> QED
        BY <1>0, <1>1, <2>1, <2>3, <3>1, <3>2, <3>3
    <2>8. CASE Dec1 \/ Exec0
      <3>1. /\ ctl_state \in {"DEC1", "EXEC0"} /\ ctl_state' \in {"EXEC0", "EXEC1"}
            /\ UNCHANGED <<pc, inst, opcode>> /\ sim' = "running"
        BY <2>1, <2>8 DEF Dec1, Exec0, NextCtl, Halts, decoded
      <3>2. opcode # DMA /\ issPc = Wrap(pc - 1) /\ Decoded(issPc) /\ inst = program[issPc]
        BY <2>1, <3>1, InstKnown
      <3>3. issPc' = Wrap(pc - 1)
        BY <3>1, <3>2 DEF issPc, Advanced
      <3> QED
        BY <1>1, <2>3, <3>1, <3>2, <3>3
    <2>9. CASE Exec1 /\ ~Halts
      <3>1. ctl_state' = "FETCH0" /\ Decoded(issPc)'
        BY <2>9, NextPc
      <3> QED
        BY <2>3, <3>1
    <2>10. CASE Exec1 /\ Halts
      <3>1. ctl_state' = "IDLE" /\ sim' = "stopped"
        BY <2>1, <2>10 DEF Exec1, NextCtl, Halts
      <3> QED
        BY <2>3, <3>1
    <2> QED
      BY <1>3, <2>4, <2>5, <2>6, <2>7, <2>8, <2>9, <2>10 DEF Next
  <1> QED
    BY <1>2, <1>3

LEMMA IssInvStep ==
    ASSUME TypeOK, DataoutFresh, Carried, IssInv, Height \in Word, [IssNext]_issvars
    PROVE  IssInv'
  <1>1. CASE UNCHANGED issvars
    BY <1>1 DEF issvars, vars, control, decoded, alu, dma, IssInv, issPc, Advanced, AsWritten,
                Decoded, Comparable, Plain
  <1>2. CASE IssNext
    <2>1. Next /\ program' = program /\ intact' = IF AsWritten' THEN intact ELSE FALSE
      BY <1>2 DEF IssNext
    <2>2. program' \in [0 .. Height - 1 -> Word] /\ intact' \in BOOLEAN
      BY <2>1 DEF IssInv
    <2>3. intact' = TRUE => AsWritten'
      BY <2>1
    <2>4. ctl_state' \in {"EXEC0", "EXEC1"} => r'[1] = immediate'
      <3>1. CASE Abort
        BY <3>1 DEF Abort, control, decoded, IssInv
      <3>2. CASE Dec1
        BY <3>2 DEF Dec1, decoded, TypeOK, RegId
      <3>3. CASE Exec0
        BY <3>3 DEF Exec0, decoded, IssInv
      <3>4. CASE Idle \/ Fetch0 \/ Fetch1 \/ Dec0 \/ Exec1
        BY <3>4 DEF Idle, Fetch0, Fetch1, Dec0, Exec1, Tick, NextCtl
      <3> QED
        BY <2>1, <3>1, <3>2, <3>3, <3>4 DEF Next
    <2>5. ASSUME Comparable'
          PROVE  /\ dma_state' = "IDLE"
                 /\ sim' # "stopped" => Decoded(issPc)'
                 /\ ctl_state' = "FETCH1" => dataout' = program[pc']
                 /\ ctl_state' \in {"DEC0", "DEC1", "EXEC0", "EXEC1"} => inst' = program[issPc']
      <3>1. Plain(program)
        BY <2>1, <2>5 DEF Comparable
      <3>2. intact' = TRUE
        BY <2>2, <2>5 DEF Comparable
      <3>3. intact = TRUE
        BY <2>1, <3>2
      <3>4. Comparable
        BY <3>1, <3>3 DEF Comparable
      <3> QED
        BY <2>1, <3>4, ComparableStep
    <2> QED
      BY <2>1, <2>2, <2>3, <2>4, <2>5 DEF IssInv
  <1> QED
    BY <1>1, <1>2

\* The history variables do not disturb the processor.
LEMMA HistoryOnly == IssMultiSpec => Spec
  <1>1. IssInit => Init
    BY DEF IssInit
  <1>2. [IssNext]_issvars => [Next]_vars
    BY DEF IssNext, issvars
  <1> QED
    BY <1>1, <1>2, PTL DEF IssMultiSpec, Spec

LEMMA IssInvAlways ==
    ASSUME AluClosed, Height \in Word
    PROVE  IssMultiSpec => [](TypeOK /\ DataoutFresh /\ Carried /\ IssInv)
  <1>1. TypeOK /\ DataoutFresh /\ Carried /\ IssInv /\ [IssNext]_issvars => IssInv'
    BY IssInvStep
  <1> QED
    BY <1>1, IssInvInit, HistoryOnly, TypeCorrect, PortFresh, CarriedAlways, PTL
    DEF IssMultiSpec
-----------------------------------------------------------------------------
\* SPIss reads words and fields as SPMulti does.
LEMMA SameOwn ==
    /\ \A i : /\ Own!Opcode(i) = Opcode(i) /\ Own!Dst(i) = Dst(i) /\ Own!Imm(i) = Imm(i)
              /\ Own!Src0(i) = Src0(i) /\ Own!Src1(i) = Src1(i)
    /\ \A rf, s, imm : Own!Operand(rf, s, imm) = Operand(rf, s, imm)
    /\ \A m, h : Own!Decode(m, h) = Decode(m, h)
    /\ Own!AluOps = AluOps /\ Own!JumpOps = JumpOps /\ Own!Opcodes = Opcodes
    /\ Own!LHI = LHI /\ Own!LD = LD /\ Own!ST = ST /\ Own!DMA = DMA /\ Own!POL = POL
    /\ Own!HLT = HLT
  <1>1. /\ Own!AluOps = AluOps /\ Own!JumpOps = JumpOps /\ Own!LHI = LHI
        /\ Own!LD = LD /\ Own!ST = ST /\ Own!DMA = DMA /\ Own!POL = POL /\ Own!HLT = HLT
    BY DEF Own!AluOps, AluOps, Own!JumpOps, JumpOps, Own!LHI, LHI, Own!LD, LD, Own!ST, ST,
           Own!DMA, DMA, Own!POL, POL, Own!HLT, HLT
  <1>2. Own!Opcodes = Opcodes
    BY <1>1 DEF Own!Opcodes, Opcodes
  <1>3. \A i : /\ Own!Opcode(i) = Opcode(i) /\ Own!Dst(i) = Dst(i) /\ Own!Imm(i) = Imm(i)
               /\ Own!Src0(i) = Src0(i) /\ Own!Src1(i) = Src1(i)
    BY DEF Own!Opcode, Opcode, Own!Dst, Dst, Own!Imm, Imm, Own!Src0, Src0, Own!Src1, Src1
  <1>4. \A rf, s, imm : Own!Operand(rf, s, imm) = Operand(rf, s, imm)
    BY DEF Own!Operand, Operand
  <1>5. \A m, h : Own!Decode(m, h) = Decode(m, h)
    BY <1>1, <1>3 DEF Own!Decode, Decode
  <1> QED
    BY <1>1, <1>2, <1>3, <1>4, <1>5

\* The last clock of an instruction that both simulators know.
LastClock ==
    /\ TypeOK /\ DataoutFresh /\ Carried /\ IssInv /\ Comparable /\ Height \in Word
    /\ Exec1 /\ program' = program

\* iss.c executes the same instruction, at the same place, on the same operands.
LEMMA InstructionSeen ==
    ASSUME LastClock
    PROVE  /\ Own!Running /\ Own!inst = inst /\ Own!op = opcode /\ Own!a = alu0 /\ Own!b = alu1
           /\ opcode \notin {LHI, DMA, POL}
           /\ Dst(inst) = dst /\ Src1(inst) = src1 /\ Imm(inst) = immediate
           /\ r[1] = immediate /\ issPc = Wrap(pc - 1) /\ sim = "running"
           /\ r \in [RegId -> Word] /\ dst \in RegId /\ src1 \in RegId
  <1>1. ctl_state = "EXEC1" /\ sim = "running"
    BY DEF LastClock, Exec1, Tick
  <1>2. /\ opcode = Opcode(inst) /\ opcode \notin {LHI, DMA, POL}
        /\ issPc = Wrap(pc - 1) /\ Decoded(issPc) /\ inst = program[issPc]
    BY <1>1, InstKnown DEF LastClock
  <1>3. /\ dst = Dst(inst) /\ src0 = Src0(inst) /\ src1 = Src1(inst) /\ immediate = Imm(inst)
        /\ alu0 = Operand0(r, inst) /\ alu1 = Operand1(r, inst)
    BY <1>1 DEF LastClock, Carried
  <1>4. /\ r \in [RegId -> Word] /\ dst \in RegId /\ src0 \in RegId /\ src1 \in RegId
        /\ r[1] = immediate
    BY <1>1 DEF LastClock, TypeOK, IssInv
  <1>5. Decode(program, Height)[issPc] = inst
    BY <1>2, PlainNext DEF LastClock, IssInv, Comparable
  <1>6. Own!inst = inst
    BY <1>5 DEF Own!inst, issPc
  <1>7. Own!op = opcode
    BY <1>2, <1>6, SameOwn DEF Own!op
  <1>8. Own!Running
    BY <1>1, <1>2 DEF Own!Running, Own!Address, issPc, Decoded
  <1>9. \A s \in RegId : Operand(archR, s, immediate) = Operand(r, s, immediate)
    BY <1>4 DEF Operand, archR
  <1>10. Own!a = Operand(archR, src0, immediate) /\ Own!b = Operand(archR, src1, immediate)
    BY <1>3, <1>6, SameOwn DEF Own!a, Own!b, archR
  <1>11. alu0 = Operand(r, src0, immediate) /\ alu1 = Operand(r, src1, immediate)
    BY <1>2, <1>3 DEF Operand0, Operand1
  <1> QED
    BY <1>1, <1>2, <1>3, <1>4, <1>6, <1>7, <1>8, <1>9, <1>10, <1>11

\* Unless it halts, what it leaves alone and where it goes.
LEMMA ContinuesSeen ==
    ASSUME LastClock, opcode # HLT
    PROVE  /\ sim = "running" /\ sim' = "running" /\ dump' = dump /\ Dumped' = Dumped
           /\ issPc' = pc' /\ pc' = IF Taken THEN Imm(inst) ELSE issPc + 1
           /\ opcode # ST => sram' = sram
  <1>1. Tick /\ ctl_state = "EXEC1" /\ ~Halts /\ dma_state = "IDLE" /\ ~Starts
    BY InstructionSeen DEF LastClock, Exec1, Halts, IssInv, Starts
  <1>2. sim = "running" /\ sim' = "running" /\ dump' = dump
    BY <1>1 DEF Tick, Dump
  <1>3. issPc' = pc' /\ pc' = IF Taken THEN Imm(inst) ELSE issPc + 1
    BY <1>1, NextPc DEF LastClock
  <1>4. opcode # ST => sram' = sram
    BY <1>1, DmaRests
  <1>5. Dumped' = Dumped
    BY <1>2 DEF Dumped, LastClock
  <1> QED
    BY <1>2, <1>3, <1>4, <1>5

LEMMA PutSeen ==
    ASSUME r \in [RegId -> Word], NEW d \in RegId, NEW v, r' = [r EXCEPT ![d] = v]
    PROVE  archR' = Own!Put(d, v)
  BY DEF archR, Own!Put, RegId

LEMMA ComputeSeen ==
    ASSUME LastClock, opcode \in AluOps
    PROVE  Own!Compute
  <1>1. opcode \notin {LD, ST, POL, HLT, LHI} /\ ~Taken
    BY InstructionSeen DEF AluOps, JumpOps, LD, ST, POL, HLT, Taken
  <1>2. r' = [r EXCEPT ![dst] = aluout] /\ pc' = issPc + 1 /\ issPc' = issPc + 1
    BY <1>1, ContinuesSeen DEF LastClock, Exec1
  <1>3. aluout = Alu(opcode, alu0, alu1, immediate)
    BY DEF LastClock, Carried, Exec1
  <1>4. archR' = Own!Put(dst, Alu(opcode, alu0, alu1, immediate))
    BY <1>2, <1>3, PutSeen, InstructionSeen
  <1>5. sram' = sram /\ Dumped' = Dumped /\ sim' = sim
    BY <1>1, ContinuesSeen
  <1> QED
    BY <1>1, <1>2, <1>4, <1>5, InstructionSeen, SameOwn DEF Own!Compute, issPc, archR

LEMMA LoadSeen ==
    ASSUME LastClock, opcode = LD
    PROVE  Own!Load /\ dataout = sram[alu1]
  <1>1. opcode \notin AluOps \cup JumpOps \cup {ST, POL, HLT} /\ ~Taken
    BY DEF AluOps, JumpOps, LD, ST, POL, HLT, Taken
  <1>2. r' = [r EXCEPT ![dst] = dataout] /\ issPc' = issPc + 1
    BY <1>1, ContinuesSeen DEF LastClock, Exec1
  <1>3. dataout = sram[alu1] /\ alu1 \in 0 .. Height - 1
    BY DEF LastClock, Carried, DataoutFresh, Exec1
  <1>4. archR' = Own!Put(dst, sram[alu1])
    BY <1>2, <1>3, PutSeen, InstructionSeen
  <1>5. sram' = sram /\ Dumped' = Dumped /\ sim' = sim
    BY <1>1, ContinuesSeen
  <1> QED
    BY <1>2, <1>3, <1>4, <1>5, InstructionSeen, SameOwn DEF Own!Load, Own!Address, issPc, archR

LEMMA StoreSeen ==
    ASSUME LastClock, opcode = ST
    PROVE  Own!Store /\ sram'[alu1] = alu0
  <1>1. opcode \notin AluOps \cup JumpOps \cup {LD, POL, HLT} /\ ~Taken
    BY DEF AluOps, JumpOps, LD, ST, POL, HLT, Taken
  <1>2. r' = r /\ issPc' = issPc + 1
    BY <1>1, ContinuesSeen DEF LastClock, Exec1
  <1>3. alu1 \in 0 .. Height - 1 /\ sram' = [sram EXCEPT ![alu1] = alu0]
        /\ sram \in [0 .. Height - 1 -> Word]
    BY StoreStep DEF LastClock, Exec1, TypeOK
  <1>4. Dumped' = Dumped /\ sim' = sim
    BY <1>1, ContinuesSeen
  <1> QED
    BY <1>2, <1>3, <1>4, InstructionSeen, SameOwn DEF Own!Store, Own!Address, issPc

LEMMA JumpSeen ==
    ASSUME LastClock, opcode \in JumpOps
    PROVE  Own!Jump
  <1>1. opcode \notin AluOps \cup {LD, ST, POL, HLT} /\ (Taken <=> aluout # 0)
    BY DEF AluOps, JumpOps, LD, ST, POL, HLT, Taken
  <1>2. aluout = Alu(opcode, alu0, alu1, immediate)
    BY DEF LastClock, Carried, Exec1
  <1>3. CASE aluout # 0
    <2>1. r' = [r EXCEPT ![7] = issPc] /\ issPc' = immediate
      BY <1>1, <1>3, ContinuesSeen, InstructionSeen DEF LastClock, Exec1
    <2>2. 7 \in RegId /\ r \in [RegId -> Word]
      BY InstructionSeen DEF RegId
    <2>3. archR' = Own!Put(7, issPc)
      BY ONLY <2>1, <2>2, PutSeen
    <2>4. sram' = sram /\ Dumped' = Dumped /\ sim' = sim
      BY <1>1, ContinuesSeen
    <2> QED
      BY <1>2, <1>3, <2>1, <2>3, <2>4, InstructionSeen, SameOwn DEF Own!Jump, issPc, archR
  <1>4. CASE aluout = 0
    <2>1. r' = r /\ issPc' = issPc + 1
      BY <1>1, <1>4, ContinuesSeen DEF LastClock, Exec1
    <2>2. sram' = sram /\ Dumped' = Dumped /\ sim' = sim
      BY <1>1, ContinuesSeen
    <2> QED
      BY <1>2, <1>4, <2>1, <2>2, InstructionSeen, SameOwn DEF Own!Jump, issPc
  <1> QED
    BY <1>3, <1>4

LEMMA UnknownSeen ==
    ASSUME LastClock, opcode \notin Opcodes
    PROVE  Own!Unknown
  <1>1. opcode \notin AluOps \cup JumpOps \cup {LD, ST, POL, HLT} /\ ~Taken
    BY DEF Opcodes, Taken
  <1>2. r' = r /\ issPc' = issPc + 1
    BY <1>1, ContinuesSeen DEF LastClock, Exec1
  <1>3. sram' = sram /\ Dumped' = Dumped /\ sim' = sim
    BY <1>1, ContinuesSeen
  <1> QED
    BY <1>2, <1>3, InstructionSeen, SameOwn DEF Own!Unknown, issPc

LEMMA HaltSeen ==
    ASSUME LastClock, opcode = HLT
    PROVE  Own!Halt /\ issPc' = Wrap(pc' - 1) /\ dump' = sram
  <1>1. opcode \notin AluOps \cup JumpOps \cup {LD, ST, POL} /\ ~Taken /\ Halts
    BY DEF AluOps, JumpOps, LD, ST, POL, HLT, Taken, Halts, LastClock, Exec1
  <1>2. r' = r /\ pc' = pc /\ dump' = sram /\ sim' = "stopped"
    BY <1>1 DEF LastClock, Exec1, Tick, Dump
  <1>3. issPc = Wrap(pc - 1) /\ issPc' = Wrap(pc - 1)
    BY <1>2, InstructionSeen DEF issPc
  <1>4. ~Starts /\ dma_state = "IDLE"
    BY DEF LastClock, IssInv, Exec1, Starts
  <1>5. sram' = sram
    BY <1>1, <1>4, DmaRests DEF LastClock, Exec1
  <1>6. Dumped' = [p \in 0 .. Loaded(program) - 1 |-> sram[p]]
    <2>1. sram # <<>>
      <3>1. DOMAIN sram = 0 .. Height - 1
        BY DEF LastClock, TypeOK
      <3>2. 0 \in DOMAIN sram
        BY <3>1, MultiAssumption
      <3>3. DOMAIN << >> = {}
        OBVIOUS
      <3> QED
        BY <3>2, <3>3
    <2> QED
      BY <1>2, <2>1 DEF Dumped, LastClock
  <1> QED
    BY <1>2, <1>3, <1>5, <1>6, InstructionSeen, SameOwn DEF Own!Halt, issPc

\* The other clocks change nothing that iss.c has.
LEMMA BetweenInstructions ==
    ASSUME TypeOK, DataoutFresh, Carried, IssInv, Comparable, Next, ~Exec1, program' = program
    PROVE  UNCHANGED Own!vars /\ dump' = dump
  <1>0. dma_state = "IDLE"
    BY DEF IssInv
  <1>1. CASE Abort
    <2>1. /\ UNCHANGED <<r, pc, opcode, ctl_state, sram>>
          /\ sim = "running" /\ sim' # "stopped"
      BY <1>1 DEF Abort, control, decoded, SRAM!Verdict
    <2>2. dump' = dump
      <3>1. ~Halts \/ (Writes = {} /\ Reads = {})
        BY <1>0 DEF Writes, Reads, DmaReads, Halts, ST, HLT
      <3>2. Writes = {} /\ Reads = {} => SRAM!Verdict(Reads, Writes) = "run"
        BY DEF SRAM!Verdict, SRAM!Conflict, SRAM!OutOfRange, SRAM!Wild
      <3> QED
        BY <1>1, <3>1, <3>2 DEF Abort, Dump
    <2>3. Dumped' = Dumped
      BY <2>2 DEF Dumped
    <2> QED
      BY <2>1, <2>2, <2>3 DEF Own!vars, Advanced
  <1>2. CASE ~Abort
    <2>1. /\ Tick /\ ctl_state' = NextCtl /\ opcode' = NextOpcode /\ sim = "running"
          /\ ctl_state # "EXEC1"
      BY <1>2, LookAhead DEF Tick, Next, Idle, Fetch0, Fetch1, Dec0, Dec1, Exec0
    <2>2. ~Starts
      BY <2>1, InstKnown DEF Starts
    <2>3. sram' = sram /\ dump' = dump /\ sim' = "running"
      BY <1>0, <2>1, <2>2, DmaRests DEF Tick, Dump, Halts
    <2>4. archR' = archR /\ issPc' = issPc
      <3>1. CASE Idle
        BY <2>1, <2>3, <3>1 DEF Idle, NextCtl, Carried, archR, issPc, Advanced
      <3>2. CASE Fetch0
        BY <2>1, <2>3, <3>2 DEF Fetch0, NextCtl, control, archR, issPc, Advanced
      <3>3. CASE Fetch1
        BY <2>1, <2>3, <3>3 DEF Fetch1, NextCtl, archR, issPc, Advanced
      <3>4. CASE Dec0
        <4>1. Wrap(Wrap(pc + 1) - 1) = pc
          BY WrapBack DEF TypeOK
        <4> QED
          BY <2>1, <2>3, <3>4, <4>1 DEF Dec0, NextCtl, archR, issPc, Advanced
      <3>5. CASE Dec1
        <4>1. archR' = archR
          BY <3>5 DEF Dec1, archR, TypeOK, RegId
        <4> QED
          BY <2>1, <2>3, <3>5, <4>1 DEF Dec1, NextCtl, issPc, Advanced
      <3>6. CASE Exec0
        <4>1. opcode # DMA
          BY <2>1, <3>6, InstKnown DEF Exec0
        <4> QED
          BY <2>1, <2>3, <3>6, <4>1 DEF Exec0, NextCtl, decoded, archR, issPc, Advanced
      <3> QED
        BY <1>2, <3>1, <3>2, <3>3, <3>4, <3>5, <3>6 DEF Next
    <2>5. Dumped' = Dumped
      BY <2>3 DEF Dumped
    <2> QED
      BY <2>1, <2>3, <2>4, <2>5 DEF Own!vars, archR, issPc
  <1> QED
    BY <1>1, <1>2

LEMMA LastClockStep ==
    ASSUME LastClock
    PROVE  Own!Next
  <1>1. UNCHANGED <<Decode(program, Height), Loaded(program)>>
    BY DEF LastClock, Decode
  <1>2. \/ opcode \in AluOps \/ opcode = LD \/ opcode = ST \/ opcode \in JumpOps
        \/ opcode \notin Opcodes \/ opcode = HLT
    BY InstructionSeen DEF Opcodes
  <1>3. Own!Compute \/ Own!Load \/ Own!Store \/ Own!Jump \/ Own!Unknown \/ Own!Halt
    BY <1>2, ComputeSeen, LoadSeen, StoreSeen, JumpSeen, UnknownSeen, HaltSeen
  <1> QED
    BY <1>1, <1>3, InstructionSeen DEF Own!Next

-----------------------------------------------------------------------------
\* iss.c is this simulator but for its ALU.
LEMMA OwnIsIss ==
    /\ Iss!inst = Own!inst /\ Iss!op = Own!op /\ Iss!a = Own!a /\ Iss!b = Own!b
    /\ Iss!Running <=> Own!Running
    /\ \A d, v : Iss!Put(d, v) = Own!Put(d, v)
    /\ \A i : Iss!Opcode(i) = Own!Opcode(i) /\ Iss!Dst(i) = Own!Dst(i) /\ Iss!Imm(i) = Own!Imm(i)
    /\ Iss!AluOps = Own!AluOps /\ Iss!JumpOps = Own!JumpOps /\ Iss!Opcodes = Own!Opcodes
    /\ Iss!LHI = Own!LHI /\ Iss!LD = Own!LD /\ Iss!ST = Own!ST /\ Iss!HLT = Own!HLT
    /\ Iss!DMA = Own!DMA /\ Iss!POL = Own!POL /\ Iss!Address = Own!Address
  <1>1. /\ Iss!AluOps = Own!AluOps /\ Iss!JumpOps = Own!JumpOps /\ Iss!LHI = Own!LHI
        /\ Iss!LD = Own!LD /\ Iss!ST = Own!ST /\ Iss!DMA = Own!DMA /\ Iss!POL = Own!POL
        /\ Iss!HLT = Own!HLT
    BY DEF Iss!AluOps, Own!AluOps, Iss!JumpOps, Own!JumpOps, Iss!LHI, Own!LHI, Iss!LD, Own!LD,
           Iss!ST, Own!ST, Iss!DMA, Own!DMA, Iss!POL, Own!POL, Iss!HLT, Own!HLT
  <1>2. Iss!Opcodes = Own!Opcodes
    BY <1>1 DEF Iss!Opcodes, Own!Opcodes
  <1>3. \A i : /\ Iss!Opcode(i) = Own!Opcode(i) /\ Iss!Dst(i) = Own!Dst(i)
               /\ Iss!Imm(i) = Own!Imm(i)
               /\ Iss!Src0(i) = Own!Src0(i) /\ Iss!Src1(i) = Own!Src1(i)
    BY DEF Iss!Opcode, Own!Opcode, Iss!Dst, Own!Dst, Iss!Imm, Own!Imm,
           Iss!Src0, Own!Src0, Iss!Src1, Own!Src1
  <1>4. \A rf, q, imm : Iss!Operand(rf, q, imm) = Own!Operand(rf, q, imm)
    BY DEF Iss!Operand, Own!Operand
  <1>5. Iss!Address = Own!Address
    BY DEF Iss!Address, Own!Address
  <1>6. Iss!inst = Own!inst
    BY DEF Iss!inst, Own!inst
  <1>7. Iss!op = Own!op
    BY <1>3, <1>6 DEF Iss!op, Own!op
  <1>8. Iss!a = Own!a /\ Iss!b = Own!b
    BY <1>3, <1>4, <1>6 DEF Iss!a, Own!a, Iss!b, Own!b
  <1>9. \A d, v : Iss!Put(d, v) = Own!Put(d, v)
    BY DEF Iss!Put, Own!Put
  <1>10. Iss!Running <=> Own!Running
    BY <1>5 DEF Iss!Running, Own!Running
  <1> QED
    BY <1>1, <1>2, <1>3, <1>5, <1>6, <1>7, <1>8, <1>9, <1>10

\* As long as the sign does not matter, the unsigned ALU computes the same.
LEMMA SameResult ==
    ASSUME SpWords, LastClock, SignsKept, opcode \in AluOps \cup JumpOps
    PROVE  IssAlu(opcode, alu0, alu1, immediate) = Alu(opcode, alu0, alu1, immediate)
  <1>1. opcode # LHI /\ ctl_state = "EXEC1"
    BY InstructionSeen DEF LastClock, Exec1
  <1>2. alu0 \in Word /\ alu1 \in Word /\ immediate \in Immediate
    BY DEF LastClock, TypeOK
  <1>3. SignBlind(opcode, alu0, alu1)
    BY <1>1 DEF SignsKept
  <1>4. ~(opcode = RSF /\ alu0 < 0)
    BY <1>2, <1>3, SmallWords DEF SignBlind, RSF
  <1>5. ~(opcode \in {JLT, JLE} /\ (alu0 < 0) # (alu1 < 0))
    BY <1>3 DEF SignBlind, JLT, JLE
  <1>6. SpAlu(opcode, alu0, alu1, immediate) = IssAlu(opcode, alu0, alu1, immediate)
    BY <1>2, <1>4, <1>5, SpComputesAsIss DEF SpWords
  <1> QED
    BY ONLY <1>6, SpWords DEF SpWords, IsSpAlu

\* The last clock of an instruction is a step of iss.c.
LEMMA IssStep ==
    ASSUME SpWords, LastClock, SignsKept
    PROVE  Iss!Next
  <1>1. /\ Own!Next /\ Own!op = opcode /\ Own!a = alu0 /\ Own!b = alu1
        /\ Own!Imm(Own!inst) = immediate /\ opcode # LHI /\ Own!Running
        /\ Own!LHI = LHI /\ Own!AluOps = AluOps /\ Own!JumpOps = JumpOps
    BY LastClockStep, InstructionSeen, SameOwn
  <1>2. UNCHANGED <<Decode(program, Height), Loaded(program)>>
    BY DEF LastClock, Decode
  <1>3. \/ Own!Compute \/ Own!Load \/ Own!Store \/ Own!Jump \/ Own!Unknown \/ Own!Halt
        \/ Own!Wild
    BY <1>1 DEF Own!Next
  <1>4. CASE Own!Compute
    <2>1. IssAlu(opcode, alu0, alu1, immediate) = Alu(opcode, alu0, alu1, immediate)
      BY <1>1, <1>4, SameResult DEF Own!Compute
    <2>2. Iss!Compute
      BY <1>1, <1>4, <2>1, OwnIsIss DEF Own!Compute, Iss!Compute, Dumped
    <2> QED
      BY <1>1, <1>2, <2>2, OwnIsIss DEF Iss!Next
  <1>5. CASE Own!Jump
    <2>1. IssAlu(opcode, alu0, alu1, immediate) = Alu(opcode, alu0, alu1, immediate)
      BY <1>1, <1>5, SameResult DEF Own!Jump
    <2>2. Iss!Jump
      BY <1>1, <1>5, <2>1, OwnIsIss DEF Own!Jump, Iss!Jump, Dumped
    <2> QED
      BY <1>1, <1>2, <2>2, OwnIsIss DEF Iss!Next
  <1>6. CASE Own!Load
    <2>1. Iss!Load
      BY <1>6, OwnIsIss DEF Own!Load, Iss!Load, Dumped
    <2> QED
      BY <1>1, <1>2, <2>1, OwnIsIss DEF Iss!Next
  <1>7. CASE Own!Store
    <2>1. Iss!Store
      BY <1>7, OwnIsIss DEF Own!Store, Iss!Store, Dumped
    <2> QED
      BY <1>1, <1>2, <2>1, OwnIsIss DEF Iss!Next
  <1>8. CASE Own!Unknown
    <2>1. Iss!Unknown
      BY <1>8, OwnIsIss DEF Own!Unknown, Iss!Unknown, Dumped
    <2> QED
      BY <1>1, <1>2, <2>1, OwnIsIss DEF Iss!Next
  <1>9. CASE Own!Halt
    <2>1. Iss!Halt
      BY <1>9, OwnIsIss DEF Own!Halt, Iss!Halt, Dumped
    <2> QED
      BY <1>1, <1>2, <2>1, OwnIsIss DEF Iss!Next
  <1>10. CASE Own!Wild
    <2>1. Iss!Wild
      BY <1>10, OwnIsIss DEF Own!Wild, Iss!Wild, Dumped
    <2> QED
      BY <1>2, <2>1 DEF Iss!Next
  <1> QED
    BY <1>3, <1>4, <1>5, <1>6, <1>7, <1>8, <1>9, <1>10

\* The processor of lab2 is the instruction-set simulator of lab1, with the
\* unsigned operands of the latter: on a program that both are meant for, until
\* it overwrites itself or the sign of an operand makes a difference, every six
\* clocks are one step of iss.c on the same registers and memory, to a dump of
\* the same words.
THEOREM MultiAgreesWithIss ==
    ASSUME SpWords, Height \in Word
    PROVE  IssMultiSpec => IssAgrees
  <1>0. AluClosed
    BY SpAluFits DEF SpWords
  <1>1. IssInit => (Comparable => Iss!Init)
    <2> SUFFICES ASSUME IssInit PROVE Iss!Init
      OBVIOUS
    <2>1. program = sram /\ sram \in Images /\ sram \in [0 .. Height - 1 -> Word]
      BY MultiAssumption DEF IssInit, Init
    <2>2. [r EXCEPT ![1] = 0] = [i \in Iss!RegId |-> 0]
      BY DEF IssInit, Init, RegId, Iss!RegId
    <2>3. sram \in [Iss!Address -> Iss!Word]
      BY <2>1 DEF Iss!Address, Iss!Word, Word, Iss!WordMod, WordMod
    <2>4. Decode(program, Height) = Iss!Decode(sram, Height)
      <3>1. \A i : Iss!Opcode(i) = Opcode(i)
        BY DEF Iss!Opcode, Opcode
      <3> QED
        BY <2>1, <3>1 DEF Iss!Decode, Decode, Iss!HLT, HLT
    <2>5. ~Advanced /\ sim = "running" /\ pc = 0 /\ dump = <<>>
      BY DEF IssInit, Init, Advanced
    <2>6. /\ Loaded(program) \in 0 .. Height
          /\ \A p \in Loaded(program) .. Height - 1 : sram[p] = 0
      BY <2>1, LoadedAssumption
    <2> QED
      BY <2>2, <2>3, <2>4, <2>5, <2>6 DEF Iss!Init, Dumped
  <1>2. TypeOK /\ DataoutFresh /\ Carried /\ IssInv /\ [IssNext]_issvars
          => [Comparable /\ alike' => Iss!Next \/ UNCHANGED Iss!vars]_issvars
    <2> SUFFICES ASSUME TypeOK, DataoutFresh, Carried, IssInv, IssNext, Comparable, alike'
                 PROVE  Iss!Next \/ UNCHANGED Iss!vars
      OBVIOUS
    <2>1. Next /\ program' = program /\ SignsKept
      BY DEF IssNext
    <2>2. CASE Exec1
      <3>1. LastClock
        BY <2>1, <2>2 DEF LastClock
      <3> QED
        BY <2>1, <3>1, IssStep
    <2>3. CASE ~Exec1
      <3>1. UNCHANGED Own!vars
        BY <2>1, <2>3, BetweenInstructions
      <3> QED
        BY <3>1 DEF Own!vars, Iss!vars, Dumped
    <2> QED
      BY <2>2, <2>3
  <1> QED
    BY <1>0, <1>1, <1>2, IssInvAlways, PTL DEF IssMultiSpec, IssAgrees

\* And as far as that the traces of the two agree line by line, but for loads
\* into the register of their own address.
THEOREM MultiTracesAgree ==
    ASSUME SpWords, Height \in Word
    PROVE  IssMultiSpec => TraceAgrees
  <1>0. AluClosed
    BY SpAluFits DEF SpWords
  <1>1. ASSUME LastClock, SignsKept, ~(opcode = LD /\ src1 = dst)
        PROVE  TraceLine = Iss!TraceLine
    <2>0. /\ Iss!inst = inst /\ Iss!op = opcode /\ Iss!a = alu0 /\ Iss!b = alu1
          /\ Iss!Dst(inst) = Dst(inst) /\ Iss!Imm(inst) = Imm(inst)
          /\ Iss!AluOps = AluOps /\ Iss!JumpOps = JumpOps /\ Iss!LHI = LHI
          /\ Iss!LD = LD /\ Iss!ST = ST /\ Iss!HLT = HLT
      BY <1>1, InstructionSeen, SameOwn, OwnIsIss
    <2>1. /\ opcode \in AluOps => IssAlu(opcode, alu0, alu1, immediate)
                                    = Alu(opcode, alu0, alu1, immediate)
          /\ opcode # LHI /\ Dst(inst) = dst /\ Src1(inst) = src1 /\ Imm(inst) = immediate
          /\ r[1] = immediate /\ issPc = Wrap(pc - 1)
          /\ r \in [RegId -> Word] /\ dst \in RegId /\ src1 \in RegId
      BY <1>1, InstructionSeen, SameResult
    <2>2. [archR EXCEPT ![1] = immediate] = r
      BY <2>1 DEF archR, RegId
    <2>3. opcode \in AluOps => r'[dst] = Alu(opcode, alu0, alu1, immediate)
      <3> SUFFICES ASSUME opcode \in AluOps
                   PROVE  r'[dst] = Alu(opcode, alu0, alu1, immediate)
        OBVIOUS
      <3>1. r' = [r EXCEPT ![dst] = aluout]
        BY <1>1 DEF LastClock, Exec1, Taken, AluOps, JumpOps, LD, POL
      <3>2. aluout = Alu(opcode, alu0, alu1, immediate)
        BY <1>1 DEF LastClock, Carried, Exec1
      <3> QED
        BY <2>1, <3>1, <3>2
    <2>4. opcode = LD => r'[src1] = alu1 /\ r'[dst] = sram'[alu1]
      <3> SUFFICES ASSUME opcode = LD PROVE r'[src1] = alu1 /\ r'[dst] = sram'[alu1]
        OBVIOUS
      <3>1. r' = [r EXCEPT ![dst] = dataout]
        BY <1>1 DEF LastClock, Exec1, Taken, AluOps, JumpOps, LD, POL
      <3>2. dataout = sram[alu1] /\ sram' = sram
        BY <1>1, LoadSeen, ContinuesSeen DEF LD, HLT, ST
      <3>3. alu1 = Operand(r, src1, immediate)
        BY <1>1, <2>1 DEF LastClock, Carried, Exec1, Operand1
      <3>4. alu1 = r[src1]
        BY <2>1, <3>3 DEF Operand
      <3> QED
        BY <1>1, <2>1, <3>1, <3>2, <3>4
    <2>5. opcode = ST => sram'[alu1] = alu0
      BY <1>1, StoreSeen
    <2>6. opcode \in JumpOps => pc' = issPc'
      BY <1>1, ContinuesSeen DEF JumpOps, HLT
    <2>7. opcode = HLT => Wrap(pc' - 1) = issPc'
      BY <1>1, HaltSeen
    <2>8. Iss!TraceLine.exec = TraceLine.exec
      <3> DEFINE E == IF opcode \in AluOps THEN <<dst, Alu(opcode, alu0, alu1, immediate)>>
                      ELSE IF opcode = LD THEN <<dst, alu1, sram'[alu1]>>
                      ELSE IF opcode = ST THEN <<alu1, sram'[alu1]>>
                      ELSE IF opcode \in JumpOps THEN <<alu0, alu1, issPc'>>
                      ELSE IF opcode = HLT THEN <<issPc'>>
                      ELSE <<>>
      <3>1. Iss!TraceLine.exec = E
        BY <2>0, <2>1 DEF Iss!TraceLine, issPc
      <3>2. TraceLine.exec = E
        BY <2>3, <2>4, <2>5, <2>6, <2>7 DEF TraceLine
      <3> QED
        BY <3>1, <3>2
    <2>9. Iss!TraceLine.regs = r /\ Iss!TraceLine.pc = issPc /\ Iss!TraceLine.inst = inst
      BY <2>0, <2>1, <2>2 DEF Iss!TraceLine, archR, issPc
    <2>10. Iss!TraceLine = [pc |-> issPc, inst |-> inst, regs |-> r, exec |-> Iss!TraceLine.exec]
      BY <2>9 DEF Iss!TraceLine
    <2> QED
      BY <2>1, <2>8, <2>10 DEF TraceLine
  <1>2. TypeOK /\ DataoutFresh /\ Carried /\ IssInv /\ [IssNext]_issvars
          => [Comparable /\ alike' /\ ctl_state = "EXEC1" /\ ctl_state' # "EXEC1"
                /\ ~(opcode = LD /\ src1 = dst)
              => TraceLine = Iss!TraceLine]_issvars
    <2> SUFFICES ASSUME TypeOK, DataoutFresh, Carried, IssInv, IssNext, Comparable,
                        alike', ctl_state = "EXEC1", ctl_state' # "EXEC1",
                        ~(opcode = LD /\ src1 = dst)
                 PROVE  TraceLine = Iss!TraceLine
      OBVIOUS
    <2>1. Exec1 /\ program' = program /\ SignsKept
      BY DEF IssNext, Next, Abort, Idle, Fetch0, Fetch1, Dec0, Dec1, Exec0
    <2>2. LastClock
      BY <2>1 DEF LastClock
    <2> QED
      BY <1>1, <2>1, <2>2
  <1> QED
    BY <1>0, <1>2, IssInvAlways, PTL DEF IssMultiSpec, TraceAgrees

-----------------------------------------------------------------------------
(***************************************************************************)
(* mult.c multiplies.  MultInv says what the registers and the memory have *)
(* at each of its instructions; around the loop the sum of the result and  *)
(* of the product of what is left of the operands stays, as a word.        *)
(***************************************************************************)
Product == Wrap(Left * Right)

\* The instruction of the program at p.
Instr(p, o, d, s, t, i) ==
    /\ Opcode(program[p]) = o /\ Dst(program[p]) = d
    /\ Src0(program[p]) = s /\ Src1(program[p]) = t /\ Imm(program[p]) = i

Invariant(k) == Wrap(archR[2] + archR[5] * k) = Product

MultAt ==
    /\ issPc \in 0 .. 15
    /\ issPc \in {1, 2} => archR[2] = Place
    /\ issPc \in {2, 3} => archR[3] = Place + 1
    /\ issPc \in {3, 4} => sram[Place] = Left
    /\ issPc \in {4, 5} => sram[Place + 1] = Right
    /\ issPc \in {5, 6} => archR[5] = Left
    /\ issPc = 6 => archR[6] = Right
    /\ issPc \in 7 .. 13 => archR[6] \in Immediate
    /\ issPc \in {7, 8, 9, 10, 13} => Invariant(archR[6])
    /\ issPc \in {9, 10} => archR[4] = archR[6] % 2
    /\ issPc = 10 => archR[4] # 0
    /\ issPc = 11 => Invariant(archR[6] - (archR[6] % 2))
    /\ issPc = 12 => Invariant(archR[6] \div 2)
    /\ issPc = 14 => archR[2] = Product
    /\ issPc = 15 => sram[Place + 2] = Product

\* What the theorem supposes: the ALU of sp.c, and a memory that immediates
\* can address.
MultAlu ==
    /\ IsSpAlu /\ SameWords /\ BitsClosed /\ LowBit
    /\ ShiftMod > 1 /\ Height <= ImmMod

LEMMA MultPlaces ==
    ASSUME IsMult, Height <= ImmMod, program \in [0 .. Height - 1 -> Word]
    PROVE  /\ Place \in 16 .. Height - 3 /\ ImmMod \in Nat /\ ImmMod > 15
           /\ Left \in Immediate /\ Right \in Immediate
           /\ Place \in Immediate /\ Place + 1 \in Immediate /\ Place + 2 \in Immediate
           /\ 0 .. 15 \subseteq Immediate /\ Height \in Word /\ Height \in Nat
           /\ Height > 18
  <1>1. Place \in 16 .. Height - 3 /\ Height \in Nat /\ ImmMod \in Nat /\ Height > 18
    BY MultiAssumption, ImmModAssumption DEF IsMult
  <1>2. program[2] \in Word /\ program[3] \in Word
    BY <1>1
  <1>3. Left \in Immediate /\ Right \in Immediate
    BY <1>2, FieldRanges DEF Left, Right
  <1>4. Height \in Word
    BY <1>1, ImmModAssumption DEF Word, WordMod
  <1> QED
    BY <1>1, <1>3, <1>4 DEF Immediate

LEMMA MultText ==
    ASSUME IsMult, Height <= ImmMod, program \in [0 .. Height - 1 -> Word]
    PROVE  /\ Instr(0, ADD, 2, 0, 1, Place)
           /\ Instr(1, ADD, 3, 0, 1, Place + 1)
           /\ Instr(2, ST, 0, 1, 2, Left)
           /\ Instr(3, ST, 0, 1, 3, Right)
           /\ Instr(4, LD, 5, 0, 1, Place)
           /\ Instr(5, LD, 6, 0, 1, Place + 1)
           /\ Instr(6, ADD, 2, 0, 0, 0)
           /\ Instr(7, JEQ, 0, 6, 0, 14)
           /\ Instr(8, AND, 4, 6, 1, 1)
           /\ Instr(9, JEQ, 4, 4, 0, 11)
           /\ Instr(10, ADD, 2, 2, 5, 0)
           /\ Instr(11, LSF, 5, 5, 1, 1)
           /\ Instr(12, RSF, 6, 6, 1, 1)
           /\ Instr(13, JEQ, 0, 0, 0, 7)
           /\ Instr(14, ST, 0, 2, 1, Place + 2)
           /\ Instr(15, HLT, 0, 0, 0, 0)
  <1> DEFINE E(p, o, d, s, t, i) == program[p] = Encode(o, d, s, t, i)
  <1>1. /\ E(0, ADD, 2, 0, 1, Place) /\ E(1, ADD, 3, 0, 1, Place + 1)
        /\ E(2, ST, 0, 1, 2, Left) /\ E(3, ST, 0, 1, 3, Right)
    BY DEF IsMult, MultCode
  <1>2. /\ E(4, LD, 5, 0, 1, Place) /\ E(5, LD, 6, 0, 1, Place + 1)
        /\ E(6, ADD, 2, 0, 0, 0) /\ E(7, JEQ, 0, 6, 0, 14)
    BY DEF IsMult, MultCode
  <1>3. /\ E(8, AND, 4, 6, 1, 1) /\ E(9, JEQ, 4, 4, 0, 11)
        /\ E(10, ADD, 2, 2, 5, 0) /\ E(11, LSF, 5, 5, 1, 1)
    BY DEF IsMult, MultCode
  <1>4. /\ E(12, RSF, 6, 6, 1, 1) /\ E(13, JEQ, 0, 0, 0, 7)
        /\ E(14, ST, 0, 2, 1, Place + 2) /\ E(15, HLT, 0, 0, 0, 0)
    BY DEF IsMult, MultCode
  <1>5. \A p, o, d, s, t, i :
          E(p, o, d, s, t, i) /\ o \in 0 .. 31 /\ d \in RegId /\ s \in RegId /\ t \in RegId
            /\ i \in Immediate => Instr(p, o, d, s, t, i)
    <2> SUFFICES ASSUME NEW p, NEW o \in 0 .. 31, NEW d \in RegId, NEW s \in RegId,
                        NEW t \in RegId, NEW i \in Immediate,
                        program[p] = Encode(o, d, s, t, i)
                 PROVE  Instr(p, o, d, s, t, i)
      OBVIOUS
    <2> QED
      BY ONLY EncodeFields, program[p] = Encode(o, d, s, t, i), o \in 0 .. 31, d \in RegId,
              s \in RegId, t \in RegId, i \in Immediate DEF Instr
  <1>6. /\ 0 \in RegId /\ 1 \in RegId /\ 2 \in RegId /\ 3 \in RegId /\ 4 \in RegId
        /\ 5 \in RegId /\ 6 \in RegId
    BY DEF RegId
  <1>7. /\ ADD \in 0 .. 31 /\ ST \in 0 .. 31 /\ LD \in 0 .. 31 /\ JEQ \in 0 .. 31
        /\ AND \in 0 .. 31 /\ LSF \in 0 .. 31 /\ RSF \in 0 .. 31 /\ HLT \in 0 .. 31
    BY DEF ADD, ST, LD, JEQ, AND, LSF, RSF, HLT
  <1>8. /\ Place \in Immediate /\ Place + 1 \in Immediate /\ Place + 2 \in Immediate
        /\ Left \in Immediate /\ Right \in Immediate
        /\ 0 \in Immediate /\ 1 \in Immediate /\ 7 \in Immediate /\ 11 \in Immediate
        /\ 14 \in Immediate
    BY MultPlaces
  <1> HIDE DEF E
  <1>9. /\ Instr(0, ADD, 2, 0, 1, Place) /\ Instr(1, ADD, 3, 0, 1, Place + 1)
        /\ Instr(2, ST, 0, 1, 2, Left) /\ Instr(3, ST, 0, 1, 3, Right)
    BY <1>1, <1>5, <1>6, <1>7, <1>8
  <1>10. /\ Instr(4, LD, 5, 0, 1, Place) /\ Instr(5, LD, 6, 0, 1, Place + 1)
         /\ Instr(6, ADD, 2, 0, 0, 0) /\ Instr(7, JEQ, 0, 6, 0, 14)
    BY <1>2, <1>5, <1>6, <1>7, <1>8
  <1>11. /\ Instr(8, AND, 4, 6, 1, 1) /\ Instr(9, JEQ, 4, 4, 0, 11)
         /\ Instr(10, ADD, 2, 2, 5, 0) /\ Instr(11, LSF, 5, 5, 1, 1)
    BY <1>3, <1>5, <1>6, <1>7, <1>8
  <1>12. /\ Instr(12, RSF, 6, 6, 1, 1) /\ Instr(13, JEQ, 0, 0, 0, 7)
         /\ Instr(14, ST, 0, 2, 1, Place + 2) /\ Instr(15, HLT, 0, 0, 0, 0)
    BY <1>4, <1>5, <1>6, <1>7, <1>8
  <1> QED
    BY <1>9, <1>10, <1>11, <1>12

\* Both simulators are meant for it.
LEMMA MultPlain ==
    ASSUME IsMult, Height <= ImmMod, program \in [0 .. Height - 1 -> Word]
    PROVE  Plain(program) /\ \A p : Decoded(p) => p \in 0 .. 15
  <1>1. 15 \in 0 .. Height - 1
    BY MultPlaces
  <1>2. Opcode(program[15]) = HLT
    BY MultText DEF Instr
  <1>3. \A p \in 0 .. 14 : /\ Opcode(program[p]) \notin {HLT, LHI, DMA, POL}
                           /\ Opcode(program[p]) \in JumpOps => Imm(program[p]) <= 15
    <2> DEFINE Fine(p) == Opcode(program[p]) \notin {HLT, LHI, DMA, POL}
               Near(p) == Opcode(program[p]) \in JumpOps => Imm(program[p]) <= 15
    <2> USE DEF ADD, AND, LSF, RSF, LD, ST, JEQ, HLT, LHI, DMA, POL, JumpOps
    <2>1. \A p \in {0, 1, 6, 8, 10, 11, 12} : Fine(p) /\ Near(p)
      <3>1. \A p \in {0, 1, 6, 8, 10, 11, 12} : Opcode(program[p]) \in 0 .. 4
        BY MultText DEF Instr
      <3>2. \A o \in 0 .. 4 : o \notin {HLT, LHI, DMA, POL} /\ o \notin JumpOps
        OBVIOUS
      <3> QED
        BY ONLY <3>1, <3>2 DEF Fine, Near
    <2>2. \A p \in {2, 3, 4, 5, 14} : Fine(p) /\ Near(p)
      <3>1. \A p \in {2, 3, 4, 5, 14} : Opcode(program[p]) \in {8, 9}
        BY MultText DEF Instr
      <3> QED
        BY <3>1
    <2>3. \A p \in {7, 9, 13} : Fine(p) /\ Near(p)
      <3>1. \A p \in {7, 9, 13} : Opcode(program[p]) = 18 /\ Imm(program[p]) \in {7, 11, 14}
        BY MultText DEF Instr
      <3> QED
        BY <3>1
    <2>4. \A p \in 0 .. 14 : \/ p \in {0, 1, 6, 8, 10, 11, 12} \/ p \in {2, 3, 4, 5, 14}
                            \/ p \in {7, 9, 13}
      OBVIOUS
    <2> HIDE DEF Fine, Near
    <2>5. \A p \in 0 .. 14 : Fine(p) /\ Near(p)
      BY <2>1, <2>2, <2>3, <2>4
    <2> QED
      BY <2>5 DEF Fine, Near
  <1>4. \A p : Decoded(p) => p \in 0 .. 15
    <2>1. \A p \in 0 .. Height - 1 : p > 15 => 15 \in 0 .. p - 1
      BY <1>1
    <2>2. \A p \in 0 .. Height - 1 : p \in Int /\ (p > 15 \/ p \in 0 .. 15)
      BY <1>1
    <2> QED
      BY <1>2, <2>1, <2>2 DEF Decoded
  <1> QED
    BY <1>1, <1>2, <1>3, <1>4 DEF Plain

\* The last clock of an instruction, as iss.c has it.
Here(o, d, s, t, i) == LastClock /\ Instr(issPc, o, d, s, t, i)

LEMMA OperandsHere ==
    ASSUME NEW o, NEW d \in RegId, NEW s \in RegId, NEW t \in RegId, NEW i \in Immediate,
           Here(o, d, s, t, i)
    PROVE  /\ opcode = o /\ Own!op = o /\ Own!Dst(Own!inst) = d /\ Own!Imm(Own!inst) = i
           /\ Own!a = Operand(archR, s, i) /\ Own!b = Operand(archR, t, i)
           /\ sim = "running" /\ archR \in [RegId -> Word]
  <1>1. LastClock /\ sim = "running" /\ ctl_state = "EXEC1"
    BY InstructionSeen DEF Here, LastClock, Exec1
  <1>2. opcode = Opcode(inst) /\ inst = program[issPc]
    BY <1>1, InstKnown DEF LastClock
  <1>3. /\ opcode = o /\ Dst(inst) = d /\ Src0(inst) = s /\ Src1(inst) = t /\ Imm(inst) = i
    BY <1>2 DEF Here, Instr
  <1>4. Own!inst = inst /\ Own!op = opcode
    BY <1>1, InstructionSeen
  <1>5. Own!a = Operand(archR, s, i) /\ Own!b = Operand(archR, t, i)
    BY <1>3, <1>4, SameOwn DEF Own!a, Own!b, archR
  <1>6. archR \in [RegId -> Word]
    BY <1>1, InstructionSeen, SmallWords DEF archR
  <1> QED
    BY <1>1, <1>3, <1>4, <1>5, <1>6, SameOwn

LEMMA ComputeHere ==
    ASSUME NEW o \in AluOps \ {LHI}, NEW d \in RegId \ {1}, NEW s \in RegId, NEW t \in RegId,
           NEW i \in Immediate, Here(o, d, s, t, i)
    PROVE  /\ archR' = [archR EXCEPT ![d] = Alu(o, Operand(archR, s, i), Operand(archR, t, i), i)]
           /\ issPc' = issPc + 1 /\ UNCHANGED <<sram, dump, sim>>
  <1>0. /\ LastClock /\ opcode = o /\ Own!op = o /\ Own!Dst(Own!inst) = d
        /\ Own!Imm(Own!inst) = i /\ sim = "running"
        /\ Own!a = Operand(archR, s, i) /\ Own!b = Operand(archR, t, i)
    <2>1. LastClock
      BY DEF Here
    <2> QED
      BY <2>1, OperandsHere
  <1>1. Own!Compute
    BY <1>0, ComputeSeen
  <1>2. sim' = sim /\ dump' = dump
    BY <1>0, ContinuesSeen DEF AluOps, HLT
  <1> QED
    BY <1>0, <1>1, <1>2, SameOwn DEF Own!Compute, Own!Put, issPc, archR

LEMMA LoadHere ==
    ASSUME NEW d \in RegId \ {1}, NEW s \in RegId, NEW t \in RegId,
           NEW i \in Immediate, Here(LD, d, s, t, i)
    PROVE  /\ archR' = [archR EXCEPT ![d] = sram[Operand(archR, t, i)]]
           /\ issPc' = issPc + 1 /\ UNCHANGED <<sram, dump, sim>>
  <1>0. /\ LastClock /\ opcode = LD /\ Own!op = LD /\ Own!Dst(Own!inst) = d
        /\ Own!Imm(Own!inst) = i /\ sim = "running"
        /\ Own!a = Operand(archR, s, i) /\ Own!b = Operand(archR, t, i)
    <2>1. LastClock
      BY DEF Here
    <2> QED
      BY <2>1, OperandsHere
  <1>1. Own!Load
    BY <1>0, LoadSeen
  <1>2. sim' = sim /\ dump' = dump
    BY <1>0, ContinuesSeen DEF LD, HLT
  <1> QED
    BY <1>0, <1>1, <1>2, SameOwn DEF Own!Load, Own!Put, issPc, archR

LEMMA StoreHere ==
    ASSUME NEW d \in RegId, NEW s \in RegId, NEW t \in RegId,
           NEW i \in Immediate, Here(ST, d, s, t, i)
    PROVE  /\ sram' = [sram EXCEPT ![Operand(archR, t, i)] = Operand(archR, s, i)]
           /\ issPc' = issPc + 1 /\ UNCHANGED <<archR, dump, sim>>
  <1>0. /\ LastClock /\ opcode = ST /\ Own!op = ST /\ Own!Dst(Own!inst) = d
        /\ Own!Imm(Own!inst) = i /\ sim = "running"
        /\ Own!a = Operand(archR, s, i) /\ Own!b = Operand(archR, t, i)
    <2>1. LastClock
      BY DEF Here
    <2> QED
      BY <2>1, OperandsHere
  <1>1. Own!Store
    BY <1>0, StoreSeen
  <1>2. sim' = sim /\ dump' = dump
    BY <1>0, ContinuesSeen DEF ST, HLT
  <1> QED
    BY <1>0, <1>1, <1>2, SameOwn DEF Own!Store, issPc, archR

LEMMA JumpHere ==
    ASSUME IsSpAlu, NEW d \in RegId, NEW s \in RegId, NEW t \in RegId,
           NEW i \in Immediate, Here(JEQ, d, s, t, i)
    PROVE  /\ IF Operand(archR, s, i) = Operand(archR, t, i)
              THEN archR' = [archR EXCEPT ![7] = issPc] /\ issPc' = i
              ELSE archR' = archR /\ issPc' = issPc + 1
           /\ UNCHANGED <<sram, dump, sim>>
  <1>0. /\ LastClock /\ opcode = JEQ /\ Own!op = JEQ /\ Own!Dst(Own!inst) = d
        /\ Own!Imm(Own!inst) = i /\ sim = "running"
        /\ Own!a = Operand(archR, s, i) /\ Own!b = Operand(archR, t, i)
    <2>1. LastClock
      BY DEF Here
    <2> QED
      BY <2>1, OperandsHere
  <1>1. JEQ \in JumpOps /\ JEQ = 18 /\ JEQ # HLT
    BY DEF JEQ, JumpOps, HLT
  <1>2. Own!Jump
    BY <1>0, <1>1, JumpSeen
  <1>3. sim' = sim /\ dump' = dump
    BY <1>0, <1>1, ContinuesSeen
  <1>4. Alu(JEQ, Own!a, Own!b, i) # 0 <=> Operand(archR, s, i) = Operand(archR, t, i)
    <2> DEFINE A == Own!a
               B == Own!b
    <2> HIDE DEF A, B
    <2>1. Alu(18, A, B, i) = SpAlu(18, A, B, i)
      BY ONLY IsSpAlu DEF IsSpAlu
    <2>2. SpAlu(18, A, B, i) = Bool(A = B)
      BY ONLY DEF SpAlu
    <2>3. Alu(18, A, B, i) # 0 <=> A = B
      BY ONLY <2>1, <2>2 DEF Bool
    <2> QED
      BY <1>0, <1>1, <2>3 DEF A, B
  <1> QED
    BY <1>0, <1>2, <1>3, <1>4, SameOwn DEF Own!Jump, Own!Put, issPc, archR

LEMMA HaltHere ==
    ASSUME NEW d \in RegId, NEW s \in RegId, NEW t \in RegId,
           NEW i \in Immediate, Here(HLT, d, s, t, i)
    PROVE  dump' = sram /\ sim' = "stopped" /\ UNCHANGED <<archR, issPc, sram>>
  <1>0. /\ LastClock /\ opcode = HLT /\ Own!op = HLT /\ Own!Dst(Own!inst) = d
        /\ Own!Imm(Own!inst) = i /\ sim = "running"
        /\ Own!a = Operand(archR, s, i) /\ Own!b = Operand(archR, t, i)
    <2>1. LastClock
      BY DEF Here
    <2> QED
      BY <2>1, OperandsHere
  <1>1. Own!Halt
    BY <1>0, HaltSeen
  <1>2. sim' = "stopped" /\ dump' = sram
    BY <1>0, HaltSeen DEF LastClock, Exec1, Tick, Halts
  <1> QED
    BY <1>0, <1>1, <1>2, SameOwn DEF Own!Halt, issPc, archR

\* What the ALU computes for it.
LEMMA MultAluValues ==
    ASSUME MultAlu, NEW a \in Word, NEW i
    PROVE  /\ \A b \in Word : Alu(ADD, a, b, i) = Wrap(a + b)
           /\ Alu(LSF, a, 1, i) = Wrap(2 * a)
           /\ Alu(RSF, a, 1, i) = a \div 2
           /\ a \in Immediate => Alu(AND, a, 1, i) = a % 2
  <1>0. SameWords /\ IsSpAlu /\ LowBit /\ ShiftMod > 1 /\ a \in Int
    BY SmallWords DEF MultAlu
  <1>1. \A b \in Word : Alu(ADD, a, b, i) = Wrap(a + b)
    <2> SUFFICES ASSUME NEW b \in Word PROVE Alu(ADD, a, b, i) = Wrap(a + b)
      OBVIOUS
    <2>1. Signed(a + b) = Wrap(a + b)
      BY <1>0, SignedWord, SmallWords
    <2>2. Alu(0, a, b, i) = Signed(a + b)
      BY ONLY <1>0 DEF IsSpAlu, SpAlu
    <2> QED
      BY <2>1, <2>2 DEF ADD
  <1>2. Alu(LSF, a, 1, i) = Wrap(2 * a)
    <2>1. 1 % ShiftMod = 1 /\ ShiftLeft(a, 1) = Wrap(2 * a)
      BY <1>0, ShiftOnce
    <2>2. Alu(2, a, 1, i) = ShiftLeft(a, 1 % ShiftMod)
      BY ONLY <1>0 DEF IsSpAlu, SpAlu
    <2> QED
      BY <2>1, <2>2 DEF LSF
  <1>3. Alu(RSF, a, 1, i) = a \div 2
    <2>1. 1 % ShiftMod = 1 /\ 2 ^ 1 = 2
      BY <1>0, ShiftOnce
    <2>2. Alu(3, a, 1, i) = a \div 2 ^ (1 % ShiftMod)
      BY ONLY <1>0 DEF IsSpAlu, SpAlu
    <2> QED
      BY <2>1, <2>2 DEF RSF
  <1>4. a \in Immediate => Alu(AND, a, 1, i) = a % 2
    <2> SUFFICES ASSUME a \in Immediate PROVE Alu(AND, a, 1, i) = a % 2
      OBVIOUS
    <2>1. a \in Nat /\ 1 \in Word /\ a % 2 \in Word
      BY ImmModAssumption DEF Immediate, Word, WordMod
    <2>2. Unsigned(a) = a /\ Unsigned(1) = 1
      BY <1>0, <2>1, UnsignedOfWord
    <2>3. BitAnd(a, 1) = a % 2
      BY <1>0, <2>1, <2>2, SignedOfWord DEF BitAnd, LowBit
    <2>4. Alu(4, a, 1, i) = BitAnd(a, 1)
      BY ONLY <1>0 DEF IsSpAlu, SpAlu
    <2> QED
      BY <2>3, <2>4 DEF AND
  <1> QED
    BY <1>1, <1>2, <1>3, <1>4

\* What a step of the program leaves behind.
MultKept ==
    /\ \A p \in 0 .. 15 : sram[p] = program[p]
    /\ archR[0] = 0
    /\ MultAt
    /\ sim \in {"running", "stopped"}
    /\ sim = "stopped" => dump[Place + 2] = Product

MultInv == IsMult => Comparable /\ MultKept

MultNow ==
    /\ MultAlu /\ LastClock /\ IsMult /\ MultKept

LEMMA MultFacts ==
    ASSUME MultNow
    PROVE  /\ Place \in 16 .. Height - 3 /\ Height \in Nat
           /\ Place \in Immediate /\ Place + 1 \in Immediate /\ Place + 2 \in Immediate
           /\ Left \in Immediate /\ Right \in Immediate
           /\ {0, 1, 7, 11, 14} \subseteq Immediate /\ Immediate \subseteq Word
           /\ program \in [0 .. Height - 1 -> Word]
           /\ archR \in [RegId -> Word] /\ archR[0] = 0 /\ 0 \in Word
           /\ sram \in [0 .. Height - 1 -> Word]
           /\ Place' = Place /\ Left' = Left /\ Right' = Right /\ Product' = Product
           /\ program' = program /\ sim = "running"
  <1>1. program \in [0 .. Height - 1 -> Word] /\ Height <= ImmMod /\ IsMult
    BY DEF MultNow, LastClock, IssInv, MultAlu
  <1>2. archR \in [RegId -> Word]
    BY InstructionSeen, SmallWords DEF MultNow, archR
  <1>3. program' = program /\ sim = "running" /\ sram \in [0 .. Height - 1 -> Word]
    BY DEF MultNow, LastClock, TypeOK, Exec1, Tick
  <1>4. Place' = Place /\ Left' = Left /\ Right' = Right /\ Product' = Product
    BY <1>3 DEF Place, Left, Right, Product
  <1>5. archR[0] = 0
    BY DEF MultNow, MultKept
  <1>6. /\ Place \in 16 .. Height - 3 /\ Height \in Nat
        /\ Place \in Immediate /\ Place + 1 \in Immediate /\ Place + 2 \in Immediate
        /\ Left \in Immediate /\ Right \in Immediate /\ 0 .. 15 \subseteq Immediate
    BY <1>1, MultPlaces
  <1>7. {0, 1, 7, 11, 14} \subseteq Immediate
    BY <1>6
  <1> QED
    BY <1>1, <1>2, <1>3, <1>4, <1>5, <1>6, <1>7, SmallWords

LEMMA MultSetUp ==
    ASSUME MultNow, issPc \in 0 .. 3
    PROVE  MultKept'
  <1>0. LastClock /\ MultAt /\ IsMult /\ Height <= ImmMod
    BY DEF MultNow, MultKept, MultAlu
  <1>1. \A p \in 0 .. 15 : sram[p] = program[p]
    BY DEF MultNow, MultKept
  <1>2. \A w \in Immediate : Alu(ADD, 0, w, w) = w
    <2>1. \A w \in Immediate : w \in Word /\ w \in Int /\ 0 + w = w
      BY MultFacts, SmallWords
    <2>2. MultAlu /\ 0 \in Word
      BY MultFacts DEF MultNow
    <2> QED
      BY <2>1, <2>2, MultAluValues, WrapOfWord
  <1>3. 0 \in RegId /\ 1 \in RegId /\ 2 \in RegId \ {1} /\ 3 \in RegId \ {1}
        /\ ADD \in AluOps \ {LHI}
    BY DEF RegId, AluOps, LHI, ADD
  <1>4. \A i : Operand(archR, 0, i) = 0 /\ Operand(archR, 1, i) = i
               /\ Operand(archR, 2, i) = archR[2] /\ Operand(archR, 3, i) = archR[3]
    BY MultFacts DEF Operand
  <1>5. CASE issPc = 0
    <2>1. Here(ADD, 2, 0, 1, Place)
      BY <1>0, <1>5, MultFacts, MultText DEF Here
    <2>2. archR' = [archR EXCEPT ![2] = Place] /\ issPc' = 1 /\ UNCHANGED <<sram, dump, sim>>
      BY <1>2, <1>3, <1>4, <1>5, <2>1, ComputeHere, MultFacts
    <2> QED
      BY <1>1, <1>3, <2>2, MultFacts DEF MultKept, MultAt
  <1>6. CASE issPc = 1
    <2>1. Here(ADD, 3, 0, 1, Place + 1)
      BY <1>0, <1>6, MultFacts, MultText DEF Here
    <2>2. archR' = [archR EXCEPT ![3] = Place + 1] /\ issPc' = 2
          /\ UNCHANGED <<sram, dump, sim>>
      BY <1>2, <1>3, <1>4, <1>6, <2>1, ComputeHere, MultFacts
    <2>3. archR[2] = Place
      BY <1>0, <1>6 DEF MultAt
    <2> QED
      BY <1>1, <1>3, <2>2, <2>3, MultFacts DEF MultKept, MultAt
  <1>7. CASE issPc = 2
    <2>1. Here(ST, 0, 1, 2, Left)
      BY <1>0, <1>7, MultFacts, MultText DEF Here
    <2>2. archR[2] = Place /\ archR[3] = Place + 1
      BY <1>0, <1>7 DEF MultAt
    <2>3. sram' = [sram EXCEPT ![Place] = Left] /\ issPc' = 3 /\ UNCHANGED <<archR, dump, sim>>
      BY <1>3, <1>4, <1>7, <2>1, <2>2, StoreHere, MultFacts
    <2> QED
      BY <1>1, <2>2, <2>3, MultFacts DEF MultKept, MultAt
  <1>8. CASE issPc = 3
    <2>1. Here(ST, 0, 1, 3, Right)
      BY <1>0, <1>8, MultFacts, MultText DEF Here
    <2>2. archR[3] = Place + 1 /\ sram[Place] = Left
      BY <1>0, <1>8 DEF MultAt
    <2>3. sram' = [sram EXCEPT ![Operand(archR, 3, Right)] = Operand(archR, 1, Right)]
          /\ issPc' = 4 /\ UNCHANGED <<archR, dump, sim>>
      BY <1>3, <1>8, <2>1, StoreHere, MultFacts
    <2>4. sram' = [sram EXCEPT ![Place + 1] = Right]
      BY <1>4, <2>2, <2>3
    <2>5. sram'[Place] = Left /\ sram'[Place + 1] = Right /\ \A p \in 0 .. 15 : sram'[p] = sram[p]
      BY <2>2, <2>4, MultFacts
    <2> QED
      BY <1>1, <2>3, <2>5, MultFacts DEF MultKept, MultAt
  <1> QED
    BY <1>5, <1>6, <1>7, <1>8

\* The operands are loaded and the loop begins.
LEMMA MultStart ==
    ASSUME MultNow, issPc \in 4 .. 6
    PROVE  MultKept'
  <1>0. LastClock /\ MultAt /\ IsMult /\ Height <= ImmMod
    BY DEF MultNow, MultKept, MultAlu
  <1>1. \A p \in 0 .. 15 : sram[p] = program[p]
    BY DEF MultNow, MultKept
  <1>2. 0 \in RegId /\ 1 \in RegId /\ 2 \in RegId \ {1} /\ 5 \in RegId \ {1}
        /\ 6 \in RegId \ {1} /\ ADD \in AluOps \ {LHI}
    BY DEF RegId, AluOps, LHI, ADD
  <1>3. \A i : Operand(archR, 0, i) = 0 /\ Operand(archR, 1, i) = i
    BY MultFacts DEF Operand
  <1>4. CASE issPc = 4
    <2>1. Here(LD, 5, 0, 1, Place)
      BY <1>0, <1>4, MultFacts, MultText DEF Here
    <2>2. sram[Place] = Left /\ sram[Place + 1] = Right
      BY <1>0, <1>4 DEF MultAt
    <2>3. archR' = [archR EXCEPT ![5] = Left] /\ issPc' = 5 /\ UNCHANGED <<sram, dump, sim>>
      <3>1. Place \in Immediate /\ 0 \in RegId /\ 1 \in RegId
        BY <1>2, MultFacts
      <3>2. /\ archR' = [archR EXCEPT ![5] = sram[Operand(archR, 1, Place)]]
            /\ issPc' = issPc + 1 /\ UNCHANGED <<sram, dump, sim>>
        BY ONLY <1>2, <2>1, <3>1, LoadHere
      <3>3. sram[Operand(archR, 1, Place)] = Left
        BY <1>3, <2>2
      <3>4. archR' = [archR EXCEPT ![5] = Left]
        BY <3>2, <3>3
      <3>5. issPc' = 5
        BY <1>4, <3>2
      <3> QED
        BY <3>2, <3>4, <3>5
    <2> QED
      BY <1>1, <1>2, <2>2, <2>3, MultFacts DEF MultKept, MultAt
  <1>5. CASE issPc = 5
    <2>1. Here(LD, 6, 0, 1, Place + 1)
      BY <1>0, <1>5, MultFacts, MultText DEF Here
    <2>2. archR[5] = Left /\ sram[Place + 1] = Right
      BY <1>0, <1>5 DEF MultAt
    <2>3. archR' = [archR EXCEPT ![6] = sram[Operand(archR, 1, Place + 1)]] /\ issPc' = 6
          /\ UNCHANGED <<sram, dump, sim>>
      <3>1. Place + 1 \in Immediate /\ 0 \in RegId /\ 1 \in RegId
        BY <1>2, MultFacts
      <3>2. /\ archR' = [archR EXCEPT ![6] = sram[Operand(archR, 1, Place + 1)]]
            /\ issPc' = issPc + 1 /\ UNCHANGED <<sram, dump, sim>>
        BY ONLY <1>2, <2>1, <3>1, LoadHere
      <3> QED
        BY <1>5, <3>2
    <2>4. archR'[5] = Left /\ archR'[6] = Right /\ archR'[0] = 0
      BY <1>2, <1>3, <2>2, <2>3, MultFacts
    <2> QED
      BY <1>1, <2>3, <2>4, MultFacts DEF MultKept, MultAt
  <1>6. CASE issPc = 6
    <2>1. Here(ADD, 2, 0, 0, 0)
      BY <1>0, <1>6, MultFacts, MultText DEF Here
    <2>2. archR[5] = Left /\ archR[6] = Right
      BY <1>0, <1>6 DEF MultAt
    <2>3. Alu(ADD, 0, 0, 0) = 0
      <3>1. 0 \in Word /\ MultAlu /\ 0 + 0 = 0
        BY MultFacts DEF MultNow
      <3> QED
        BY <3>1, MultAluValues, WrapOfWord
    <2>4. archR' = [archR EXCEPT ![2] = 0] /\ issPc' = 7 /\ UNCHANGED <<sram, dump, sim>>
      BY <1>2, <1>3, <1>6, <2>1, <2>3, ComputeHere, MultFacts
    <2>5. archR'[0] = 0 /\ archR'[2] = 0 /\ archR'[5] = Left /\ archR'[6] = Right
      BY <1>2, <2>2, <2>4, MultFacts
    <2>6. Wrap(0 + Left * Right) = Product
      <3>1. Left * Right \in Int
        BY MultFacts, ImmModAssumption DEF Immediate
      <3> QED
        BY <3>1 DEF Product
    <2> QED
      BY <1>1, <2>4, <2>5, <2>6, MultFacts DEF MultKept, MultAt, Invariant
  <1> QED
    BY <1>4, <1>5, <1>6

LEMMA Halves ==
    ASSUME NEW n \in Nat
    PROVE  n - (n % 2) = 2 * (n \div 2) /\ n \div 2 \in Nat /\ n - 0 = n
  OBVIOUS

LEMMA TakeOne ==
    ASSUME NEW a \in Int, NEW b \in Int, NEW k \in Int
    PROVE  (a + b) + b * (k - 1) = a + b * k /\ b * (k - 1) \in Int /\ a + b \in Int
  OBVIOUS

LEMMA MoveTwo ==
    ASSUME NEW b \in Int, NEW k \in Int
    PROVE  b * (2 * k) = (2 * b) * k
  OBVIOUS

\* Around the loop.
LEMMA MultLoop ==
    ASSUME MultNow, issPc \in 7 .. 13
    PROVE  MultKept'
  <1> DEFINE R2 == archR[2]
             R5 == archR[5]
             R6 == archR[6]
  <1>0. LastClock /\ MultAt /\ IsMult /\ Height <= ImmMod /\ IsSpAlu /\ MultAlu
    BY DEF MultNow, MultKept, MultAlu
  <1>1. \A p \in 0 .. 15 : sram[p] = program[p]
    BY DEF MultNow, MultKept
  <1>2. /\ 0 \in RegId /\ 1 \in RegId /\ 2 \in RegId \ {1} /\ 4 \in RegId \ {1}
        /\ 5 \in RegId \ {1} /\ 6 \in RegId \ {1} /\ 7 \in RegId
        /\ {ADD, AND, LSF, RSF} \subseteq AluOps \ {LHI}
    BY DEF RegId, AluOps, LHI, ADD, AND, LSF, RSF
  <1>3. \A i : /\ Operand(archR, 0, i) = 0 /\ Operand(archR, 1, i) = i
               /\ \A s \in RegId \ {1} : Operand(archR, s, i) = archR[s]
    BY MultFacts DEF Operand
  <1>4. R2 \in Word /\ R5 \in Word /\ R6 \in Word /\ R6 \in Immediate
        /\ R2 \in Int /\ R5 \in Int /\ R6 \in Nat /\ 1 \in Immediate
    <2>1. R6 \in Immediate
      BY <1>0 DEF MultAt
    <2>2. R2 \in Word /\ R5 \in Word /\ R6 \in Word /\ 1 \in Immediate
      BY <1>2, MultFacts
    <2>3. Word \subseteq Int /\ Immediate \subseteq Nat
      BY SmallWords, ImmModAssumption DEF Immediate
    <2> QED
      BY <2>1, <2>2, <2>3
  <1>5. sim = "running" /\ archR[0] = 0 /\ archR \in [RegId -> Word]
    BY MultFacts
  <1> HIDE DEF R2, R5, R6
  <1>6. CASE issPc = 7
    <2>1. Here(JEQ, 0, 6, 0, 14)
      BY <1>0, <1>6, MultFacts, MultText DEF Here
    <2>2. Wrap(R2 + R5 * R6) = Product
      BY <1>0, <1>6 DEF MultAt, Invariant, R2, R5, R6
    <2>3. /\ IF R6 = 0 THEN archR' = [archR EXCEPT ![7] = issPc] /\ issPc' = 14
                       ELSE archR' = archR /\ issPc' = 8
          /\ UNCHANGED <<sram, dump, sim>>
      BY <1>0, <1>2, <1>3, <1>6, <2>1, JumpHere, MultFacts DEF R6
    <2>4. CASE R6 = 0
      <3>1. R2 + R5 * R6 = R2
        BY <1>4, <2>4
      <3>2. R2 = Product
        BY <1>4, <2>2, <3>1, WrapOfWord
      <3>3. archR'[0] = 0 /\ archR'[2] = Product /\ issPc' = 14
        BY <1>2, <1>5, <2>3, <2>4, <3>2 DEF R2
      <3> QED
        BY <1>1, <1>5, <2>3, <3>3, MultFacts DEF MultKept, MultAt
    <2>5. CASE R6 # 0
      <3>1. archR' = archR /\ issPc' = 8
        BY <2>3, <2>5
      <3> QED
        BY <1>1, <1>4, <1>5, <2>2, <2>3, <3>1, MultFacts
        DEF MultKept, MultAt, Invariant, R2, R5, R6
    <2> QED
      BY <2>4, <2>5
  <1>7. CASE issPc = 8
    <2>1. Here(AND, 4, 6, 1, 1)
      BY <1>0, <1>7, MultFacts, MultText DEF Here
    <2>2. Wrap(R2 + R5 * R6) = Product
      BY <1>0, <1>7 DEF MultAt, Invariant, R2, R5, R6
    <2>3. Alu(AND, R6, 1, 1) = R6 % 2
      BY <1>0, <1>4, MultAluValues
    <2>4. archR' = [archR EXCEPT ![4] = R6 % 2] /\ issPc' = 9 /\ UNCHANGED <<sram, dump, sim>>
      BY <1>2, <1>3, <1>4, <1>7, <2>1, <2>3, ComputeHere DEF R6
    <2>5. archR'[0] = 0 /\ archR'[2] = R2 /\ archR'[4] = R6 % 2 /\ archR'[5] = R5
          /\ archR'[6] = R6
      BY <1>2, <1>5, <2>4 DEF R2, R5, R6
    <2>6. /\ program' = program /\ Place' = Place /\ Product' = Product
          /\ R6 \in Immediate
      BY <1>4, MultFacts
    <2>7. Wrap(archR'[2] + archR'[5] * archR'[6]) = Product'
      BY <2>2, <2>5, <2>6
    <2>8. MultAt'
      BY ONLY <2>4, <2>5, <2>6, <2>7 DEF MultAt, Invariant
    <2> QED
      BY <1>1, <1>5, <2>4, <2>5, <2>6, <2>8 DEF MultKept
  <1>8. CASE issPc = 9
    <2>1. Here(JEQ, 4, 4, 0, 11)
      BY <1>0, <1>8, MultFacts, MultText DEF Here
    <2>2. Wrap(R2 + R5 * R6) = Product /\ archR[4] = R6 % 2
      BY <1>0, <1>8 DEF MultAt, Invariant, R2, R5, R6
    <2>3. /\ IF R6 % 2 = 0 THEN archR' = [archR EXCEPT ![7] = issPc] /\ issPc' = 11
                           ELSE archR' = archR /\ issPc' = 10
          /\ UNCHANGED <<sram, dump, sim>>
      BY <1>0, <1>2, <1>3, <1>8, <2>1, <2>2, JumpHere, MultFacts
    <2>4. CASE R6 % 2 = 0
      <3>1. R6 - (R6 % 2) = R6
        <4>1. R6 - 0 = R6
          BY ONLY <1>4, Halves
        <4> QED
          BY <2>4, <4>1
      <3>2. archR'[0] = 0 /\ archR'[2] = R2 /\ archR'[5] = R5 /\ archR'[6] = R6
            /\ issPc' = 11
        BY <1>2, <1>5, <2>3, <2>4 DEF R2, R5, R6
      <3> QED
        BY <1>1, <1>4, <1>5, <2>2, <2>3, <3>1, <3>2, MultFacts DEF MultKept, MultAt, Invariant
    <2>5. CASE R6 % 2 # 0
      <3>1. archR' = archR /\ issPc' = 10
        BY <2>3, <2>5
      <3> QED
        BY <1>1, <1>4, <1>5, <2>2, <2>3, <2>5, <3>1, MultFacts
        DEF MultKept, MultAt, Invariant, R2, R5, R6
    <2> QED
      BY <2>4, <2>5
  <1>9. CASE issPc = 10
    <2>1. Here(ADD, 2, 2, 5, 0)
      BY <1>0, <1>9, MultFacts, MultText DEF Here
    <2>2. Wrap(R2 + R5 * R6) = Product /\ R6 % 2 # 0
      BY <1>0, <1>9 DEF MultAt, Invariant, R2, R5, R6
    <2>3. Alu(ADD, R2, R5, 0) = Wrap(R2 + R5)
      BY <1>0, <1>4, MultAluValues
    <2>4. archR' = [archR EXCEPT ![2] = Wrap(R2 + R5)] /\ issPc' = 11
          /\ UNCHANGED <<sram, dump, sim>>
      BY <1>2, <1>3, <1>9, <2>1, <2>3, ComputeHere, MultFacts DEF R2, R5
    <2>5. archR'[0] = 0 /\ archR'[2] = Wrap(R2 + R5) /\ archR'[5] = R5 /\ archR'[6] = R6
      BY <1>2, <1>5, <2>4 DEF R2, R5, R6
    <2>6. Wrap(Wrap(R2 + R5) + R5 * (R6 - (R6 % 2))) = Product
      <3>1. R6 % 2 = 1
        BY <1>4, <2>2
      <3>0. R2 \in Int /\ R5 \in Int /\ R6 \in Int
        BY ONLY <1>4
      <3>2. R5 * (R6 - 1) \in Int /\ R2 + R5 \in Int
        BY ONLY <3>0, TakeOne
      <3>3. (R2 + R5) + R5 * (R6 - 1) = R2 + R5 * R6
        BY ONLY <3>0, TakeOne
      <3>4. Wrap(Wrap(R2 + R5) + R5 * (R6 - 1)) = Wrap((R2 + R5) + R5 * (R6 - 1))
        BY <3>2, WrapSum
      <3> QED
        BY <2>2, <3>1, <3>3, <3>4
    <2>7. /\ program' = program /\ Place' = Place /\ Product' = Product
          /\ R6 \in Immediate
      BY <1>4, MultFacts
    <2>8. MultAt'
      BY ONLY <2>4, <2>5, <2>6, <2>7 DEF MultAt, Invariant
    <2> QED
      BY <1>1, <1>5, <2>4, <2>5, <2>7, <2>8 DEF MultKept
  <1>10. CASE issPc = 11
    <2>1. Here(LSF, 5, 5, 1, 1)
      BY <1>0, <1>10, MultFacts, MultText DEF Here
    <2>2. Wrap(R2 + R5 * (R6 - (R6 % 2))) = Product
      BY <1>0, <1>10 DEF MultAt, Invariant, R2, R5, R6
    <2>3. Alu(LSF, R5, 1, 1) = Wrap(2 * R5)
      BY <1>0, <1>4, MultAluValues
    <2>4. archR' = [archR EXCEPT ![5] = Wrap(2 * R5)] /\ issPc' = 12
          /\ UNCHANGED <<sram, dump, sim>>
      BY <1>2, <1>3, <1>4, <1>10, <2>1, <2>3, ComputeHere DEF R5
    <2>5. archR'[0] = 0 /\ archR'[2] = R2 /\ archR'[5] = Wrap(2 * R5) /\ archR'[6] = R6
      BY <1>2, <1>5, <2>4 DEF R2, R5, R6
    <2>6. Wrap(R2 + Wrap(2 * R5) * (R6 \div 2)) = Product
      <3>1. R6 - (R6 % 2) = 2 * (R6 \div 2) /\ R6 \div 2 \in Int
        <4>1. R6 - (R6 % 2) = 2 * (R6 \div 2) /\ R6 \div 2 \in Nat
          BY ONLY <1>4, Halves
        <4> QED
          BY ONLY <4>1
      <3>2. R5 * (2 * (R6 \div 2)) = (2 * R5) * (R6 \div 2)
        BY ONLY <1>4, <3>1, MoveTwo
      <3>3. R2 \in Int /\ 2 * R5 \in Int
        BY ONLY <1>4
      <3>4. Wrap(R2 + Wrap(2 * R5) * (R6 \div 2)) = Wrap(R2 + (2 * R5) * (R6 \div 2))
        BY <3>1, <3>3, WrapInside
      <3> QED
        BY ONLY <2>2, <3>1, <3>2, <3>4
    <2>7. /\ program' = program /\ Place' = Place /\ Product' = Product
          /\ R6 \in Immediate
      BY <1>4, MultFacts
    <2>8. MultAt'
      BY ONLY <2>4, <2>5, <2>6, <2>7 DEF MultAt, Invariant
    <2> QED
      BY <1>1, <1>5, <2>4, <2>5, <2>7, <2>8 DEF MultKept
  <1>11. CASE issPc = 12
    <2>1. Here(RSF, 6, 6, 1, 1)
      BY <1>0, <1>11, MultFacts, MultText DEF Here
    <2>2. Wrap(R2 + R5 * (R6 \div 2)) = Product
      BY <1>0, <1>11 DEF MultAt, Invariant, R2, R5, R6
    <2>3. Alu(RSF, R6, 1, 1) = R6 \div 2
      BY <1>0, <1>4, MultAluValues
    <2>4. archR' = [archR EXCEPT ![6] = R6 \div 2] /\ issPc' = 13
          /\ UNCHANGED <<sram, dump, sim>>
      BY <1>2, <1>3, <1>4, <1>11, <2>1, <2>3, ComputeHere DEF R6
    <2>5. archR'[0] = 0 /\ archR'[2] = R2 /\ archR'[5] = R5 /\ archR'[6] = R6 \div 2
      BY <1>2, <1>5, <2>4 DEF R2, R5, R6
    <2>6. R6 \div 2 \in Immediate
      BY <1>4, ImmModAssumption DEF Immediate
    <2> QED
      BY <1>1, <1>5, <2>2, <2>4, <2>5, <2>6, MultFacts DEF MultKept, MultAt, Invariant
  <1>12. CASE issPc = 13
    <2>1. Here(JEQ, 0, 0, 0, 7)
      BY <1>0, <1>12, MultFacts, MultText DEF Here
    <2>2. Wrap(R2 + R5 * R6) = Product
      BY <1>0, <1>12 DEF MultAt, Invariant, R2, R5, R6
    <2>3. archR' = [archR EXCEPT ![7] = issPc] /\ issPc' = 7 /\ UNCHANGED <<sram, dump, sim>>
      BY <1>0, <1>2, <2>1, JumpHere, MultFacts
    <2>4. archR'[0] = 0 /\ archR'[2] = R2 /\ archR'[5] = R5 /\ archR'[6] = R6
      BY <1>2, <1>5, <2>3 DEF R2, R5, R6
    <2> QED
      BY <1>1, <1>4, <1>5, <2>2, <2>3, <2>4, MultFacts DEF MultKept, MultAt, Invariant
  <1> QED
    BY <1>6, <1>7, <1>8, <1>9, <1>10, <1>11, <1>12

\* The product is stored and the memory dumped.
LEMMA MultEnd ==
    ASSUME MultNow, issPc \in 14 .. 15
    PROVE  MultKept'
  <1>0. LastClock /\ MultAt /\ IsMult /\ Height <= ImmMod
    BY DEF MultNow, MultKept, MultAlu
  <1>1. \A p \in 0 .. 15 : sram[p] = program[p]
    BY DEF MultNow, MultKept
  <1>2. 0 \in RegId /\ 1 \in RegId /\ 2 \in RegId
    BY DEF RegId
  <1>3. CASE issPc = 14
    <2>1. Here(ST, 0, 2, 1, Place + 2)
      BY <1>0, <1>3, MultFacts, MultText DEF Here
    <2>2. Operand(archR, 1, Place + 2) = Place + 2 /\ Operand(archR, 2, Place + 2) = Product
      BY <1>0, <1>3 DEF MultAt, Operand
    <2>3. sram' = [sram EXCEPT ![Place + 2] = Product] /\ issPc' = 15
          /\ UNCHANGED <<archR, dump, sim>>
      BY <1>2, <1>3, <2>1, <2>2, StoreHere, MultFacts
    <2>4. sram'[Place + 2] = Product /\ \A p \in 0 .. 15 : sram'[p] = sram[p]
      BY <2>3, MultFacts
    <2> QED
      BY <1>1, <2>3, <2>4, MultFacts DEF MultKept, MultAt
  <1>4. CASE issPc = 15
    <2>1. Here(HLT, 0, 0, 0, 0)
      BY <1>0, <1>4, MultFacts, MultText DEF Here
    <2>2. dump' = sram /\ sim' = "stopped" /\ UNCHANGED <<archR, issPc, sram>>
      BY <1>2, <2>1, HaltHere, MultFacts
    <2>3. sram[Place + 2] = Product
      BY <1>0, <1>4 DEF MultAt
    <2> QED
      BY <1>1, <1>4, <2>2, <2>3, MultFacts DEF MultKept, MultAt
  <1> QED
    BY <1>3, <1>4

\* A step keeps the program in memory, and the simulators comparable.
LEMMA MultStep ==
    ASSUME MultNow
    PROVE  MultKept'
  <1>1. issPc \in 0 .. 3 \/ issPc \in 4 .. 6 \/ issPc \in 7 .. 13 \/ issPc \in 14 .. 15
    BY DEF MultNow, MultKept, MultAt
  <1> QED
    BY <1>1, MultSetUp, MultStart, MultLoop, MultEnd

\* In the clocks between the last ones of two instructions nothing that counts
\* changes, and no request of theirs fails.
LEMMA MultServed ==
    ASSUME MultAlu, TypeOK, DataoutFresh, Carried, IssInv, Height \in Word,
           IsMult, Comparable, MultKept, sim = "running"
    PROVE  SRAM!Verdict(Reads, Writes) = "run"
  <1>0. /\ program \in [0 .. Height - 1 -> Word] /\ Height <= ImmMod /\ Height \in Nat
        /\ Height > 18 /\ Place \in 16 .. Height - 3
    <2>1. program \in [0 .. Height - 1 -> Word] /\ Height <= ImmMod
      BY DEF IssInv, MultAlu
    <2> QED
      BY <2>1, MultPlaces
  <1>1. dma_state = "IDLE" /\ MultAt
    BY DEF IssInv, MultKept
  <1>2. issPc \in 0 .. 15
    BY <1>1 DEF MultAt
  <1>3. \A q \in Reads \cup Writes : q.addr \in 0 .. Height - 1
    <2>1. CASE ctl_state = "FETCH0"
      <3>1. issPc = pc
        BY <2>1 DEF issPc, Advanced
      <3> QED
        BY <1>0, <1>1, <1>2, <2>1, <3>1 DEF Reads, Writes, DmaReads
    <2>2. CASE ctl_state \in {"EXEC0", "EXEC1"}
      <3>1. /\ opcode = Opcode(inst) /\ inst = program[issPc]
            /\ alu1 = Operand1(r, inst) /\ r[1] = immediate /\ immediate = Imm(inst)
            /\ src1 = Src1(inst)
        BY <2>2, InstKnown DEF Carried, IssInv
      <3>2. issPc \in 0 .. 15 /\ opcode \in {LD, ST} => issPc \in {2, 3, 4, 5, 14}
        <4>1. \A p \in (0 .. 15) \ {2, 3, 4, 5, 14} : Opcode(program[p]) \notin {8, 9}
          <5>1. \A p \in {0, 1, 6, 8, 10, 11, 12} : Opcode(program[p]) \in 0 .. 4
            BY <1>0, MultText DEF Instr, ADD, AND, LSF, RSF
          <5>2. \A p \in {7, 9, 13} : Opcode(program[p]) = 18
            BY <1>0, MultText DEF Instr, JEQ
          <5>3. Opcode(program[15]) = 24
            BY <1>0, MultText DEF Instr, HLT
          <5> QED
            BY ONLY <5>1, <5>2, <5>3
        <4> QED
          BY <1>2, <3>1, <4>1 DEF LD, ST
      <3>3. opcode \in {LD, ST} => alu1 \in {Place, Place + 1, Place + 2}
        <4>1. alu1 = Operand(r, Src1(program[issPc]), Imm(program[issPc]))
          BY <3>1 DEF Operand1
        <4>2. /\ issPc = 2 => Src1(program[issPc]) = 2 /\ archR[2] = Place
              /\ issPc = 3 => Src1(program[issPc]) = 3 /\ archR[3] = Place + 1
          BY <1>0, <1>1, MultText DEF Instr, MultAt
        <4>3. /\ issPc = 4 => Src1(program[issPc]) = 1 /\ Imm(program[issPc]) = Place
              /\ issPc = 5 => Src1(program[issPc]) = 1 /\ Imm(program[issPc]) = Place + 1
              /\ issPc = 14 => Src1(program[issPc]) = 1 /\ Imm(program[issPc]) = Place + 2
          BY <1>0, MultText DEF Instr
        <4>4. archR[2] = r[2] /\ archR[3] = r[3]
          BY DEF archR, TypeOK, RegId
        <4> QED
          BY <3>2, <4>1, <4>2, <4>3, <4>4, <1>2 DEF Operand
      <3>4. {Place, Place + 1, Place + 2} \subseteq 0 .. Height - 1
        BY <1>0
      <3>5. \A q \in Reads \cup Writes : opcode \in {LD, ST} /\ q.addr = alu1
        BY <1>1, <2>2 DEF Reads, Writes, DmaReads
      <3> QED
        BY <3>3, <3>4, <3>5
    <2>3. CASE ctl_state \notin {"FETCH0", "EXEC0", "EXEC1"}
      BY <1>1, <2>3 DEF Reads, Writes, DmaReads
    <2> QED
      BY <2>1, <2>2, <2>3
  <1> QED
    BY <1>0, <1>3, RequestsNeverCollide DEF SRAM!Verdict, SRAM!OutOfRange, SRAM!Wild

LEMMA MultInvStep ==
    ASSUME MultAlu, TypeOK, DataoutFresh, Carried, IssInv, Height \in Word, MultInv,
           [IssNext]_issvars
    PROVE  MultInv'
  <1>1. CASE UNCHANGED issvars
    <2>1. UNCHANGED <<r, pc, opcode, ctl_state, sram, dump, sim, program, intact>>
      BY <1>1 DEF issvars, vars, control, decoded, alu
    <2>2. Place' = Place /\ Left' = Left /\ Right' = Right
      BY <2>1 DEF Place, Left, Right
    <2>3. (IsMult' <=> IsMult) /\ Product' = Product
      BY <2>1, <2>2 DEF IsMult, Product
    <2>4. archR' = archR /\ issPc' = issPc
      BY <2>1 DEF archR, issPc, Advanced
    <2>5. MultAt' <=> MultAt
      BY <2>1, <2>2, <2>3, <2>4 DEF MultAt, Invariant
    <2>6. MultKept' <=> MultKept
      BY <2>1, <2>2, <2>3, <2>4, <2>5 DEF MultKept
    <2>7. Comparable' <=> Comparable
      BY <2>1 DEF Comparable, Plain
    <2> QED
      BY <2>3, <2>6, <2>7 DEF MultInv
  <1>2. CASE IssNext
    <2> SUFFICES ASSUME IsMult' PROVE Comparable' /\ MultKept'
      BY DEF MultInv
    <2>1. Next /\ program' = program /\ intact' = IF AsWritten' THEN intact ELSE FALSE
      BY <1>2 DEF IssNext
    <2>2. Place' = Place /\ Left' = Left /\ Right' = Right
      BY <2>1 DEF Place, Left, Right
    <2>3. IsMult /\ Product' = Product
      BY <2>1, <2>2 DEF IsMult, Product
    <2>4. Comparable /\ MultKept
      BY <2>3 DEF MultInv
    <2>5. sim = "running"
      BY <2>1 DEF Next, Idle, Fetch0, Fetch1, Dec0, Dec1, Exec0, Exec1, Abort, Tick
    <2>6. ~Abort
      BY <2>3, <2>4, <2>5, MultServed DEF Abort
    <2>7. MultKept'
      <3>1. CASE Exec1
        <4>1. MultNow
          BY <2>1, <2>3, <2>4, <3>1 DEF MultNow, LastClock
        <4> QED
          BY <4>1, MultStep
      <3>2. CASE ~Exec1
        <4>1. archR' = archR /\ issPc' = issPc /\ sram' = sram /\ dump' = dump
          BY <2>1, <2>4, <3>2, BetweenInstructions DEF Own!vars, archR, issPc
        <4>2. sim' = "running"
          BY <2>1, <2>6, <3>2
          DEF Next, Idle, Fetch0, Fetch1, Dec0, Dec1, Exec0, Tick, Halts
        <4>3. MultAt
          BY <2>4 DEF MultKept
        <4>4. MultAt'
          BY <2>2, <2>3, <4>1, <4>3 DEF MultAt, Invariant
        <4> QED
          BY <2>1, <2>4, <4>1, <4>2, <4>4 DEF MultKept
      <3> QED
        BY <3>1, <3>2
    <2>8. Plain(program) /\ \A p : Decoded(p) => p \in 0 .. 15
      BY <2>3, MultPlain DEF IssInv, MultAlu
    <2>9. AsWritten'
      BY <2>1, <2>7, <2>8 DEF AsWritten, Decoded, MultKept
    <2>10. intact' = intact /\ Plain(program)'
      BY <2>1, <2>8, <2>9 DEF Plain
    <2> QED
      BY <2>4, <2>7, <2>10 DEF Comparable
  <1> QED
    BY <1>1, <1>2

LEMMA MultInvInit ==
    ASSUME MultAlu, IssInit
    PROVE  MultInv
  <1> SUFFICES ASSUME IsMult PROVE Comparable /\ MultKept
    BY DEF MultInv
  <1>1. program = sram /\ intact = TRUE /\ sram \in [0 .. Height - 1 -> Word]
    BY MultiAssumption DEF IssInit, Init
  <1>2. issPc = 0 /\ archR[0] = 0 /\ sim = "running"
    BY DEF IssInit, Init, issPc, Advanced, archR, RegId
  <1>3. Plain(program)
    BY <1>1, MultPlain DEF MultAlu
  <1> QED
    BY <1>1, <1>2, <1>3 DEF Comparable, MultKept, MultAt

\* mult.c multiplies: for all operands that its text can hold, wherever it
\* keeps them and whatever else is in the memory, it never leaves the memory,
\* and the dump it ends with has the product of the two as a word.
THEOREM MultMultiplies ==
    ASSUME MultAlu, Height \in Word
    PROVE  IssMultiSpec => []Multiplies
  <1>1. AluClosed
    BY SpAluFits DEF MultAlu
  <1>2. MultInv => Multiplies
    BY DEF MultInv, MultKept, Multiplies, Product
  <1>3. TypeOK /\ DataoutFresh /\ Carried /\ IssInv /\ MultInv /\ [IssNext]_issvars => MultInv'
    BY MultInvStep
  <1>4. IssInit => MultInv
    BY MultInvInit
  <1>5. IssMultiSpec => [](TypeOK /\ DataoutFresh /\ Carried /\ IssInv)
    BY <1>1, IssInvAlways
  <1> QED
    BY <1>2, <1>3, <1>4, <1>5, PTL DEF IssMultiSpec
=============================================================================
