---------------------------- MODULE SPRtlProofs ----------------------------
(***************************************************************************)
(* Proofs about the Verilog processor: its wires keep control and DMA off  *)
(* each other's accesses, and every reader of sram_DO finds the word at    *)
(* its address, for every word size, program and ALU, for which no         *)
(* invariant about the types of the registers is needed; and that it       *)
(* implements the programmer's view SPArch on the common ground of the     *)
(* processors.                                                             *)
(***************************************************************************)
EXTENDS SPRtlProps, SPRtlArch, SPIsaProofs, TLAPS

\* The wires alone exclude two users, in every state.
LEMMA WiresExclude == OneUser
<1>1. ~(Fetching /\ Loading) /\ ~(Fetching /\ Storing) /\ ~(Loading /\ Storing)
  BY DEF Fetching, Loading, Storing
<1>2. dma_enable <=> ~Fetching /\ ~Loading /\ ~Storing
  BY DEF dma_enable
<1>3. DmaWriting => dma_enable
  BY DEF DmaWriting
<1>4. \A a, b \in Drivers : a = b
  BY <1>1, <1>2 DEF Drivers
<1>5. \A v, w \in Stores : v = w
  BY <1>2, <1>3 DEF Stores
<1>6. ~(sram_WE /\ (Fetching \/ Loading \/ (Storing /\ DmaWriting)))
  BY <1>1, <1>2, <1>3 DEF sram_WE
<1> QED  BY <1>4, <1>5, <1>6 DEF OneUser

\* Control and DMA never use the memory of lab4 in the same clock: sram_ADDR,
\* sram_DI and sram_WE serve one of them (ctl.v:79-117).
THEOREM RtlOneUser == Spec => []OneUser
<1>1. Init => OneUser
  BY WiresExclude
<1>2. OneUser /\ [Next]_vars => OneUser'
  <2>1. OneUser'
    BY WiresExclude, PTL
  <2> QED  BY <2>1
<1> QED  BY <1>1, <1>2, PTL DEF Spec

\* A clock in which somebody drives the address and nobody writes is a read of
\* that address.
LEMMA DrivenRead ==
    ASSUME Edge, NEW a, a \in Drivers, sram_EN, ~sram_WE
    PROVE  do' = mem[a] /\ mem' = mem
<1>1. PICK b \in ReadAddr : do' = mem[b] /\ mem' = mem
  BY DEF Edge, Sram
<1>2. b = a
  BY <1>1, WiresExclude DEF OneUser, ReadAddr
<1> QED  BY <1>1, <1>2

\* The wire dma_enable_next is right: when it is high, dma_enable is high in the
\* next clock.
LEMMA LookAhead ==
    ASSUME Next, dma_enable_next
    PROVE  dma_enable'
<1> USE DEF Goto, decoded, control
<1> SUFFICES ASSUME (Fetching \/ Loading \/ Storing)' PROVE FALSE
  BY DEF dma_enable
<1>1. CASE Idle    BY <1>1 DEF Idle, dma_enable_next, Fetching, Loading, Storing
<1>2. CASE Fetch0  BY <1>2 DEF Fetch0, dma_enable_next, Fetching, Loading, Storing
<1>3. CASE Fetch1  BY <1>3 DEF Fetch1, dma_enable_next, Fetching, Loading, Storing
<1>4. CASE Dec0    BY <1>4 DEF Dec0, dma_enable_next, Fetching, Loading, Storing
<1>5. CASE Dec1    BY <1>5 DEF Dec1, dma_enable_next, Fetching, Loading, Storing, LD
<1>6. CASE Exec0   BY <1>6 DEF Exec0, dma_enable_next, Fetching, Loading, Storing, ST
<1>7. CASE Exec1   BY <1>7 DEF Exec1, dma_enable_next, Fetching, Loading, Storing
<1> QED  BY <1>1, <1>2, <1>3, <1>4, <1>5, <1>6, <1>7 DEF Next

\* FETCH1 takes the word at pc.
LEMMA FetchStep ==
    ASSUME Next, ctl_state' = "FETCH1"
    PROVE  do' = mem'[pc']
<1>1. Fetch0
  BY DEF Next, Idle, Fetch1, Dec0, Dec1, Exec0, Exec1, Goto
<1>2. Fetching /\ Edge /\ pc' = pc
  BY <1>1 DEF Fetch0, control
<1>3. pc \in Drivers /\ sram_EN /\ ~sram_WE
  BY <1>2, WiresExclude DEF Drivers, sram_EN, OneUser
<1> QED  BY <1>2, <1>3, DrivenRead

\* A load takes the word at the address in its second operand.
LEMMA LoadStep ==
    ASSUME Next, ctl_state' = "EXEC1", opcode' = LD
    PROVE  do' = mem'[Half(alu1)']
<1>1. Exec0
  BY DEF Next, Idle, Fetch0, Fetch1, Dec0, Dec1, Exec1, Goto
<1>2. Loading /\ Edge /\ alu1' = alu1
  BY <1>1 DEF Exec0, decoded, Loading
<1>3. Half(alu1) \in Drivers /\ sram_EN /\ ~sram_WE
  BY <1>2, WiresExclude DEF Drivers, sram_EN, OneUser
<1> QED  BY <1>2, <1>3, DrivenRead DEF Half

\* The DMA samples the word at its source address, and has the memory for
\* itself when it does.
LEMMA SampleStep ==
    ASSUME Next, dma_state = "SAMPLE" => dma_enable, dma_state' = "SAMPLE"
    PROVE  dma_enable' /\ do' = mem'[dma_raddr']
<1>1. Edge
  BY DEF Next, Idle, Fetch0, Fetch1, Dec0, Dec1, Exec0, Exec1
<1>2. /\ dma_enable /\ dma_enable_next /\ dma_state = "READ"
      /\ dma_raddr' = dma_raddr
  BY <1>1 DEF Edge, Dma, DmaStep, dma
<1>3. dma_raddr \in Drivers /\ sram_EN
  BY <1>2 DEF Drivers, sram_EN
<1>4. ~sram_WE
  BY <1>2 DEF sram_WE, dma_enable, DmaWriting
<1> QED  BY <1>1, <1>2, <1>3, <1>4, DrivenRead, LookAhead

\* Fetches, loads and the DMA of lab4 find the word at their address on
\* sram_DO, though sram_EN fires without an address at times (ctl.v:82).
THEOREM RtlDoFresh == Spec => []DoFresh
<1>1. Init => DoFresh
  BY DEF Init, DoFresh
<1>2. DoFresh /\ [Next]_vars => DoFresh'
  <2> SUFFICES ASSUME DoFresh, [Next]_vars PROVE DoFresh'
    OBVIOUS
  <2>1. CASE Next
    <3>1. (ctl_state = "FETCH1" => do = mem[pc])'
      BY <2>1, FetchStep
    <3>2. (ctl_state = "EXEC1" /\ opcode = LD => do = mem[Half(alu1)])'
      BY <2>1, LoadStep
    <3>3. (dma_state = "SAMPLE" => dma_enable /\ do = mem[dma_raddr])'
      BY <2>1, SampleStep DEF DoFresh
    <3> QED  BY <3>1, <3>2, <3>3 DEF DoFresh
  <2>2. CASE UNCHANGED vars
    BY <2>2 DEF DoFresh, vars, control, decoded, dma, dma_enable, Fetching, Loading, Storing, Half
  <2> QED  BY <2>1, <2>2
<1> QED  BY <1>1, <1>2, PTL DEF Spec

-----------------------------------------------------------------------------
(***************************************************************************)
(* Types.                                                                  *)
(***************************************************************************)
CtlStates == {"IDLE", "FETCH0", "FETCH1", "DEC0", "DEC1", "EXEC0", "EXEC1"}

RegTypes ==
    /\ r \in [RegId -> Word]
    /\ pc \in Address /\ inst \in Word
    /\ opcode \in 0 .. 31 /\ immediate \in Immediate
    /\ dst \in RegId /\ src0 \in RegId /\ src1 \in RegId
    /\ alu0 \in Word /\ alu1 \in Word /\ aluout \in Word
    /\ ctl_state \in CtlStates

MemTypes ==
    /\ aluout_wire \in Word
    /\ mem \in [Address -> Word] /\ do \in Word
    /\ dma_raddr \in Address /\ dma_waddr \in Address
    /\ dma_reg \in Immediate /\ dma_cnt \in Address
    /\ dma_state \in {"IDLE", "READ", "SAMPLE", "WRITE"}

LEMMA HalfAddress ==
    ASSUME NEW n \in Int
    PROVE  Half(n) \in Address
  BY ImmModAssumption DEF Half, Address

LEMMA HalfOfAddress ==
    ASSUME NEW a \in Address
    PROVE  Half(a) = a
  BY ImmModAssumption, SmallMod DEF Half, Address

LEMMA AddressWord == Address = Immediate /\ Address \subseteq Word /\ 0 \in Address
  BY SmallWords, ImmModAssumption DEF Address, Immediate

LEMMA RegTypesStep ==
    ASSUME RegTypes, MemTypes, Next
    PROVE  RegTypes'
  <1> USE DEF decoded, control, Goto
  <1>1. CASE Idle
    BY <1>1, AddressWord DEF Idle, RegTypes, CtlStates
  <1>2. CASE Fetch0
    BY <1>2 DEF Fetch0, RegTypes, CtlStates
  <1>3. CASE Fetch1
    BY <1>3 DEF Fetch1, RegTypes, MemTypes, CtlStates
  <1>4. CASE Dec0
    <2>1. inst \in Word /\ Opcode(inst) \in Int
      BY OpcodeRange DEF RegTypes
    <2>2. Opcode(inst) % 32 \in 0 .. 31
      BY <2>1
    <2>3. pc + 1 \in Int
      BY DEF RegTypes, Address
    <2>4. Half(pc + 1) \in Address
      BY <2>3, HalfAddress
    <2> QED
      BY <1>4, <2>1, <2>2, <2>4, FieldRanges DEF Dec0, RegTypes, CtlStates
  <1>5. CASE Dec1
    <2>1. Operand(r, src0, immediate) \in Word /\ Operand(r, src1, immediate) \in Word
      BY OperandWord DEF RegTypes
    <2>2. dst \in Word
      BY SmallWords DEF RegTypes
    <2> QED
      BY <1>5, <2>1, <2>2 DEF Dec1, RegTypes, CtlStates
  <1>6. CASE Exec0
    BY <1>6 DEF Exec0, RegTypes, MemTypes, CtlStates
  <1>7. CASE Exec1
    <2>1. dma_cnt \in Word /\ do \in Word /\ aluout \in Word
      BY AddressWord DEF RegTypes, MemTypes
    <2>2. pc - 1 \in Word
      BY ImmModAssumption DEF RegTypes, Address, Word, WordMod
    <2>3. Written \in [RegId -> Word]
      BY <2>1, <2>2 DEF RegTypes, Written, RegId
    <2>4. immediate \in Address
      BY AddressWord DEF RegTypes
    <2> QED
      BY <1>7, <2>3, <2>4 DEF Exec1, RegTypes, CtlStates
  <1> QED
    BY <1>1, <1>2, <1>3, <1>4, <1>5, <1>6, <1>7 DEF Next

LEMMA MemTypesStep ==
    ASSUME AluClosed, RegTypes, RegTypes', MemTypes, Edge
    PROVE  MemTypes'
  <1>1. aluout_wire' \in Word
    <2>1. /\ opcode' \in Int /\ alu0' \in Word /\ alu1' \in Word /\ immediate' \in Immediate
      BY DEF RegTypes
    <2>2. Alu(opcode', alu0', alu1', immediate') \in Word
      BY <2>1 DEF AluClosed
    <2>3. Half(aluout_wire) \in Int /\ alu0' \in Int
      BY <2>1, HalfAddress, SmallWords DEF MemTypes, Address
    <2>4. Wrap(alu0' * ImmMod + Half(aluout_wire)) \in Word
      BY <2>3, WrapWord, ImmModAssumption
    <2> QED
      BY <2>2, <2>4 DEF Edge, Settle, MemTypes
  <1>2. mem' \in [Address -> Word] /\ do' \in Word
    <2>1. \A w \in Stores : w.val \in Word
      BY AddressWord DEF Stores, RegTypes, MemTypes
    <2>2. ReadAddr \subseteq Address
      <3>1. Half(alu1) \in Address
        BY HalfAddress, SmallWords DEF RegTypes
      <3> QED
        BY <3>1 DEF ReadAddr, Drivers, RegTypes, MemTypes
    <2>3. \A w \in Stores : [mem EXCEPT ![w.addr] = w.val] \in [Address -> Word]
      BY <2>1 DEF MemTypes
    <2> QED
      BY <2>2, <2>3 DEF Edge, Sram, MemTypes
  <1>3. /\ dma_raddr' \in Address /\ dma_waddr' \in Address
        /\ dma_reg' \in Immediate /\ dma_cnt' \in Address
        /\ dma_state' \in {"IDLE", "READ", "SAMPLE", "WRITE"}
    <2>1. /\ Half(alu0) \in Address /\ Half(alu1) \in Address /\ Half(immediate) \in Address
          /\ Half(do) \in Address
      BY HalfAddress, SmallWords DEF RegTypes, MemTypes
    <2>2. /\ Half(dma_raddr + 1) \in Address /\ Half(dma_waddr + 1) \in Address
          /\ Half(dma_cnt - 1) \in Address
      <3>1. dma_raddr + 1 \in Int /\ dma_waddr + 1 \in Int /\ dma_cnt - 1 \in Int
        BY DEF MemTypes, Address
      <3> QED
        BY <3>1, HalfAddress
    <2> QED
      BY <2>1, <2>2, AddressWord DEF Edge, Dma, DmaStep, dma, MemTypes
  <1> QED
    BY <1>1, <1>2, <1>3 DEF MemTypes

LEMMA EdgeAlways == ASSUME Next PROVE Edge
  BY DEF Next, Idle, Fetch0, Fetch1, Dec0, Dec1, Exec0, Exec1

\* The registers keep their widths, whatever the program is.
LEMMA TypesAlways ==
    ASSUME AluClosed
    PROVE  Spec => [](RegTypes /\ MemTypes)
  <1>1. Init => RegTypes /\ MemTypes
    <2> SUFFICES ASSUME Init PROVE RegTypes /\ MemTypes
      OBVIOUS
    <2>1. Alu(ADD, 0, 0, 0) \in Word
      BY SmallWords, AddressWord DEF AluClosed, ADD
    <2>2. 0 \in Address /\ 0 \in Immediate /\ 0 \in Word /\ 0 \in RegId
      BY AddressWord DEF RegId
    <2>3. RegTypes
      BY <2>2 DEF Init, RegTypes, CtlStates
    <2>4. MemTypes
      BY <2>1, <2>2, RtlAssumption DEF Init, MemTypes
    <2> QED
      BY <2>3, <2>4
  <1>2. RegTypes /\ MemTypes /\ [Next]_vars => RegTypes' /\ MemTypes'
    <2>1. Next /\ RegTypes /\ MemTypes => RegTypes' /\ MemTypes'
      BY EdgeAlways, RegTypesStep, MemTypesStep
    <2>2. UNCHANGED vars /\ RegTypes /\ MemTypes => RegTypes' /\ MemTypes'
      BY DEF vars, control, decoded, dma, RegTypes, MemTypes
    <2> QED
      BY <2>1, <2>2
  <1> QED
    BY <1>1, <1>2, PTL DEF Spec

\* The three ALUs compute the same for all operands of any execution, where
\* AluCommonGround says so: the traces of the three simulators can be compared.
THEOREM AlwaysAluCommonGround ==
    ASSUME AluClosed, SameWords
    PROVE  Spec => []AluCommonGround
  <1>1. RegTypes => AluCommonGround
    <2> SUFFICES ASSUME RegTypes, NEW x \in {alu0, alu1}, NEW y \in {alu0, alu1},
                        NEW op \in (AluOps \cup JumpOps) \ {LHI},
                        op \notin {LSF, RSF} \/ y \in 0 .. ShiftMod - 1
                 PROVE  /\ RtlAlu(op, x, y) = IssAlu(op, x, y, immediate)
                        /\ \/ SpAlu(op, x, y, immediate) = IssAlu(op, x, y, immediate)
                           \/ op = RSF /\ x < 0
                           \/ op \in {JLT, JLE} /\ (x < 0) # (y < 0)
      BY DEF AluCommonGround
    <2>1. x \in Word /\ y \in Word /\ immediate \in Immediate
      BY DEF RegTypes
    <2>2. op \in AluOps \cup JumpOps
      OBVIOUS
    <2> QED
      BY <2>1, <2>2, RtlComputesAsIss, SpComputesAsIss
  <1> QED
    BY <1>1, TypesAlways, PTL
-----------------------------------------------------------------------------
(***************************************************************************)
(* The progress of a transfer.                                             *)
(***************************************************************************)

\* The words behind the one under way become one fewer; 16 bits count round.
LEMMA OneWordLess ==
    ASSUME ImmMod > 1, NEW c \in Address, c # 1
    PROVE  /\ (c - 1) % ImmMod \in Nat
           /\ (Half(c - 1) - 1) % ImmMod = ((c - 1) % ImmMod) - 1
  <1>1. ImmMod \in Nat \ {0} /\ c \in Nat /\ c < ImmMod
    BY ImmModAssumption DEF Address
  <1>2. CASE c = 0
    <2>1. (c - 1) % ImmMod = ImmMod - 1 /\ (ImmMod - 2) % ImmMod = ImmMod - 2
      BY <1>1, <1>2
    <2>2. Half(c - 1) = ImmMod - 1
      BY <2>1 DEF Half
    <2> QED
      BY <1>1, <2>1, <2>2
  <1>3. CASE c >= 2
    <2>1. (c - 1) % ImmMod = c - 1 /\ (c - 2) % ImmMod = c - 2
      BY <1>1, <1>3, SmallMod
    <2>2. Half(c - 1) = c - 1
      BY <2>1 DEF Half
    <2> QED
      BY <1>1, <1>3, <2>1, <2>2
  <1> QED
    BY <1>1, <1>2, <1>3

\* The control rests only before the program, when no transfer is under way.
Resting == ctl_state = "IDLE" /\ sim = "running" => dma_state = "IDLE"

LEMMA RestingStep ==
    ASSUME Resting, [Next]_vars
    PROVE  Resting'
  <1>1. CASE Idle
    BY <1>1 DEF Resting, Idle, Edge, Dma, DmaStep, dma, Starts
  <1>2. CASE Next /\ ~Idle
    BY <1>2 DEF Next, Fetch0, Fetch1, Dec0, Dec1, Exec0, Exec1, Goto, Resting
  <1>3. CASE UNCHANGED vars
    BY <1>3 DEF vars, dma, Resting
  <1> QED
    BY <1>1, <1>2, <1>3

DeadlineTable ==
    /\ Deadline \in 0 .. 7
    /\ ctl_state = "DEC1" =>
         /\ dma_state \in {"READ", "SAMPLE"} => Deadline = 6
         /\ dma_state = "WRITE" => Deadline = 0
    /\ ctl_state = "DEC0" =>
         /\ dma_state = "READ" => Deadline = 7
         /\ dma_state \in {"SAMPLE", "WRITE"} => Deadline = 1
    /\ ctl_state = "FETCH1" => Deadline = 2
    /\ ctl_state = "FETCH0" => Deadline = 3
    /\ ctl_state = "EXEC1" => Deadline = 4
    /\ ctl_state = "EXEC0" => Deadline = 5

LEMMA DeadlineNow == DeadlineTable
  BY DEF DeadlineTable, Deadline

LEMMA DeadlineThen == DeadlineTable'
  BY DEF DeadlineTable, Deadline

\* The states of the control follow one another whatever the DMA does.
LEMMA ControlMoves ==
    ASSUME RegTypes, Resting, Next, sim' = "running", dma_state # "IDLE"
    PROVE  \/ ctl_state = "FETCH0" /\ ctl_state' = "FETCH1"
           \/ ctl_state = "FETCH1" /\ ctl_state' = "DEC0"
           \/ ctl_state = "DEC0" /\ ctl_state' = "DEC1"
           \/ ctl_state = "DEC1" /\ ctl_state' = "EXEC0"
           \/ ctl_state = "EXEC0" /\ ctl_state' = "EXEC1"
           \/ ctl_state = "EXEC1" /\ ctl_state' = "FETCH0"
  <1>1. ~Idle
    BY DEF Idle, Edge, Resting
  <1> QED
    BY <1>1 DEF Next, Fetch0, Fetch1, Dec0, Dec1, Exec0, Exec1, Goto, Fetching

\* The port is free in FETCH1, DEC0 and, but for a load in the next clock, in DEC1.
LEMMA DeadlineNext ==
    ASSUME RegTypes, Resting, DoFresh, Next, sim' = "running",
           dma_state \in {"READ", "SAMPLE", "WRITE"}
    PROVE  IF dma_state = "WRITE" /\ dma_enable
           THEN dma_state' = "READ" => Deadline' < Deadline + 6
           ELSE dma_cnt' = dma_cnt /\ Deadline' < Deadline
  <1>1. Edge /\ ~Starts
    BY EdgeAlways DEF Starts
  <1>2. dma_enable <=> ~(ctl_state = "FETCH0" \/ (ctl_state = "EXEC0" /\ opcode = LD)
                           \/ (ctl_state = "EXEC1" /\ opcode = ST))
    BY DEF dma_enable, Fetching, Loading, Storing
  <1>3. CASE dma_state = "WRITE" /\ dma_enable
    BY <1>2, <1>3, ControlMoves, DeadlineNow, DeadlineThen DEF DeadlineTable
  <1>4. CASE dma_state = "WRITE" /\ ~dma_enable
    <2>1. dma_cnt' = dma_cnt /\ dma_state' = dma_state
      BY <1>1, <1>4 DEF Edge, Dma, dma
    <2> QED
      BY <1>2, <1>4, <2>1, ControlMoves, DeadlineNow, DeadlineThen DEF DeadlineTable
  <1>5. CASE dma_state = "SAMPLE"
    <2>1. dma_cnt' = dma_cnt /\ dma_state' = "WRITE" /\ dma_enable
      BY <1>1, <1>5 DEF Edge, Dma, DmaStep, DoFresh
    <2> QED
      BY <1>2, <1>5, <2>1, ControlMoves, DeadlineNow, DeadlineThen DEF DeadlineTable
  <1>6. CASE dma_state = "READ" /\ dma_enable /\ dma_enable_next
    <2>1. dma_cnt' = dma_cnt /\ dma_state' = "SAMPLE"
      BY <1>1, <1>6 DEF Edge, Dma, DmaStep
    <2>2. ctl_state \notin {"FETCH0", "EXEC1"}
      BY <1>2, <1>6 DEF dma_enable_next
    <2> QED
      BY <1>6, <2>1, <2>2, ControlMoves, DeadlineNow, DeadlineThen DEF DeadlineTable
  <1>7. CASE dma_state = "READ" /\ ~(dma_enable /\ dma_enable_next)
    <2>1. dma_cnt' = dma_cnt /\ dma_state' = "READ"
      BY <1>1, <1>7 DEF Edge, Dma, DmaStep, dma
    <2>2. ctl_state \notin {"FETCH1", "DEC0"}
      BY <1>2, <1>7 DEF dma_enable_next
    <2> QED
      BY <1>7, <2>1, <2>2, ControlMoves, DeadlineNow, DeadlineThen DEF DeadlineTable
  <1> QED
    BY <1>3, <1>4, <1>5, <1>6, <1>7

\* The DMA of lab4, too, copies a word per instruction at least, for every
\* program: ctl.v lets it wait only in the clocks it needs itself.
THEOREM RtlWordPerInstruction ==
    ASSUME AluClosed, ImmMod > 1
    PROVE  Spec => WordPerInstruction
  <1>1. Spec => [](RegTypes /\ MemTypes)
    BY TypesAlways
  <1>2. Spec => []DoFresh
    BY RtlDoFresh
  <1>3. Init => Resting
    BY DEF Init, Resting
  <1>4. Resting /\ [Next]_vars => Resting'
    BY RestingStep
  <1>5. RegTypes /\ MemTypes /\ DoFresh /\ Resting /\ [Next]_vars
          => [dma_state # "IDLE" /\ sim' = "running" =>
                dma_state' = "IDLE" \/ DmaClocks' < DmaClocks]_vars
    <2> SUFFICES ASSUME RegTypes, MemTypes, DoFresh, Resting, Next,
                        dma_state # "IDLE", sim' = "running", dma_state' # "IDLE"
                 PROVE  DmaClocks' < DmaClocks
      OBVIOUS
    <2>1. /\ dma_state \in {"READ", "SAMPLE", "WRITE"} /\ dma_cnt \in Address
          /\ dma_cnt \in Int /\ ImmMod \in Nat \ {0}
      BY ImmModAssumption DEF MemTypes, Address
    <2>2. Deadline \in Int /\ Deadline' \in Int
      BY DeadlineNow, DeadlineThen DEF DeadlineTable
    <2>3. CASE ~(dma_state = "WRITE" /\ dma_enable)
      <3>1. dma_cnt' = dma_cnt /\ Deadline' < Deadline
        BY <2>1, <2>3, DeadlineNext
      <3>2. (dma_cnt - 1) % ImmMod \in Int
        BY <2>1
      <3> QED
        BY <2>2, <3>1, <3>2 DEF DmaClocks
    <2>4. CASE dma_state = "WRITE" /\ dma_enable
      <3>1. dma_cnt # 1 /\ dma_state' = "READ" /\ dma_cnt' = Half(dma_cnt - 1)
        BY <2>4, EdgeAlways DEF Edge, Dma, DmaStep, Starts
      <3>2. Deadline' < Deadline + 6
        BY <2>1, <2>4, <3>1, DeadlineNext
      <3>3. /\ (dma_cnt - 1) % ImmMod \in Nat
            /\ (dma_cnt' - 1) % ImmMod = ((dma_cnt - 1) % ImmMod) - 1
        BY <2>1, <3>1, OneWordLess
      <3>4. DmaClocks = 6 * ((dma_cnt - 1) % ImmMod) + Deadline
              /\ DmaClocks' = 6 * ((dma_cnt' - 1) % ImmMod) + Deadline'
        BY DEF DmaClocks
      <3> QED
        BY <2>2, <3>2, <3>3, <3>4
    <2> QED
      BY <2>3, <2>4
  <1> QED
    BY <1>1, <1>2, <1>3, <1>4, <1>5, PTL DEF Spec, WordPerInstruction
-----------------------------------------------------------------------------
(***************************************************************************)
(* What the registers hold of the instruction and the transfer under way,  *)
(* on the common ground.                                                   *)
(***************************************************************************)
Carried ==
    /\ ctl_state = "IDLE" /\ sim = "running" => pc = 0
    /\ ctl_state \in {"DEC1", "EXEC0", "EXEC1"} =>
         /\ opcode = Opcode(inst) /\ opcode # LHI /\ dst = Dst(inst)
         /\ src0 = Src0(inst) /\ src1 = Src1(inst) /\ immediate = Imm(inst)
         /\ pc # 0
    /\ ctl_state \in {"EXEC0", "EXEC1"} =>
         alu0 = Operand0(r, inst) /\ alu1 = Operand1(r, inst)
    /\ ctl_state = "EXEC0" /\ opcode \in AluOps \cup JumpOps =>
         aluout_wire = Alu(opcode, alu0, alu1, immediate)
    /\ ctl_state = "EXEC1" /\ opcode \in AluOps \cup JumpOps =>
         aluout = Alu(opcode, alu0, alu1, immediate)

Counted == dma_state # "IDLE" => dma_cnt # 0

GroundInv == RegTypes /\ MemTypes /\ Carried /\ Counted

LEMMA CarriedStep ==
    ASSUME RegTypes, Carried, CommonGround, Next
    PROVE  Carried'
  <1> USE DEF decoded, control, Goto
  <1>1. CASE Idle
    BY <1>1 DEF Idle, Carried
  <1>2. CASE Fetch0
    BY <1>2 DEF Fetch0, Carried
  <1>3. CASE Fetch1
    BY <1>3 DEF Fetch1, Carried
  <1>4. CASE Dec0
    <2>1. Opcode(inst) % 32 = Opcode(inst) /\ Opcode(inst) # LHI /\ Half(pc + 1) # 0
      <3>1. Opcode(inst) \in 0 .. 31 /\ Opcode(inst) # LHI /\ pc + 1 \in Address
        BY <1>4 DEF CommonGround, Dec0
      <3>2. pc + 1 # 0
        BY DEF RegTypes, Address
      <3> QED
        BY <3>1, <3>2, SmallMod, HalfOfAddress
    <2> QED
      BY <1>4, <2>1 DEF Dec0, Carried
  <1>5. CASE Dec1
    <2>1. /\ opcode = Opcode(inst) /\ opcode # LHI /\ dst = Dst(inst)
          /\ src0 = Src0(inst) /\ src1 = Src1(inst) /\ immediate = Imm(inst) /\ pc # 0
      BY <1>5 DEF Dec1, Carried
    <2>2. /\ alu0' = Operand0(r, inst) /\ alu1' = Operand1(r, inst)
          /\ UNCHANGED <<r, inst, pc, opcode, dst, src0, src1, immediate>>
          /\ ctl_state' = "EXEC0"
      BY <1>5, <2>1 DEF Dec1, Operand0, Operand1
    <2>3. opcode' \in AluOps \cup JumpOps
            => aluout_wire' = Alu(opcode', alu0', alu1', immediate')
      BY <1>5, <2>1, <2>2 DEF Dec1, Edge, Settle
    <2> QED
      BY <2>1, <2>2, <2>3 DEF Carried
  <1>6. CASE Exec0
    BY <1>6 DEF Exec0, Carried
  <1>7. CASE Exec1
    BY <1>7 DEF Exec1, Carried
  <1> QED
    BY <1>1, <1>2, <1>3, <1>4, <1>5, <1>6, <1>7 DEF Next

\* A transfer ends at the count of one, before the count could wrap.
LEMMA CountedStep ==
    ASSUME RegTypes, MemTypes, Counted, CommonGround, Edge
    PROVE  Counted'
  <1>1. CASE Starts
    <2>1. immediate # 0 /\ immediate \in Address
      BY <1>1, AddressWord DEF CommonGround, RegTypes
    <2>2. Half(immediate) = immediate
      BY <2>1, HalfOfAddress
    <2> QED
      BY <1>1, <2>1, <2>2 DEF Counted, Edge, Dma, DmaStep, Starts
  <1>2. CASE dma_enable /\ DmaStep /\ dma_state = "WRITE" /\ dma_cnt # 1
    <2>1. dma_cnt - 1 \in Address /\ dma_cnt - 1 # 0
      BY <1>2, ImmModAssumption DEF Counted, MemTypes, Address
    <2>2. Half(dma_cnt - 1) = dma_cnt - 1
      BY <2>1, HalfOfAddress
    <2> QED
      BY <1>2, <2>1, <2>2 DEF DmaStep, Counted
  <1>3. CASE ~Starts /\ ~(dma_enable /\ DmaStep /\ dma_state = "WRITE" /\ dma_cnt # 1)
    BY <1>3 DEF Counted, Edge, Dma, DmaStep, dma
  <1> QED
    BY <1>1, <1>2, <1>3

LEMMA GroundAlways ==
    ASSUME AluClosed
    PROVE  Spec /\ []CommonGround => []GroundInv
  <1>1. Init => GroundInv
    <2> SUFFICES ASSUME Init PROVE GroundInv
      OBVIOUS
    <2>1. Alu(ADD, 0, 0, 0) \in Word
      BY SmallWords, AddressWord DEF AluClosed, ADD
    <2>2. 0 \in Address /\ 0 \in Immediate /\ 0 \in Word /\ 0 \in RegId
      BY AddressWord DEF RegId
    <2>3. RegTypes
      BY <2>2 DEF Init, RegTypes, CtlStates
    <2>4. MemTypes
      BY <2>1, <2>2, RtlAssumption DEF Init, MemTypes
    <2>5. Carried /\ Counted
      BY DEF Init, Carried, Counted
    <2> QED
      BY <2>3, <2>4, <2>5 DEF GroundInv
  <1>2. GroundInv /\ CommonGround /\ [Next]_vars => GroundInv'
    <2> SUFFICES ASSUME GroundInv, CommonGround, [Next]_vars PROVE GroundInv'
      OBVIOUS
    <2>1. CASE Next
      <3>1. Edge /\ RegTypes'
        BY <2>1, EdgeAlways, RegTypesStep DEF GroundInv
      <3>2. MemTypes'
        BY <3>1, MemTypesStep DEF GroundInv
      <3>3. Carried' /\ Counted'
        BY <2>1, <3>1, CarriedStep, CountedStep DEF GroundInv
      <3> QED
        BY <3>1, <3>2, <3>3 DEF GroundInv
    <2>2. CASE UNCHANGED vars
      BY <2>2 DEF vars, control, decoded, dma, GroundInv, RegTypes, MemTypes, Carried, Counted
    <2> QED
      BY <2>1, <2>2
  <1> QED
    BY <1>1, <1>2, PTL DEF Spec
-----------------------------------------------------------------------------
(***************************************************************************)
(* The programmer's view of a state.                                       *)
(***************************************************************************)
archR    == [r EXCEPT ![1] = 0]
archPc   == IF Advanced THEN pc - 1 ELSE pc
archIr   == IF ~Pending THEN 0 ELSE IF ctl_state = "FETCH1" THEN do ELSE inst
archCpu  == <<archR, archPc, Pending, archIr, dump, sim>>

\* SPArch reads words and fields as SPRtl does, and has the same addresses.
LEMMA SameIsa ==
    /\ \A w : Arch!Wrap(w) = Wrap(w)
    /\ \A i : /\ Arch!Opcode(i) = Opcode(i) /\ Arch!Dst(i) = Dst(i)
              /\ Arch!Imm(i) = Imm(i)
    /\ \A rf, i : /\ Arch!Operand0(rf, i) = Operand0(rf, i)
                  /\ Arch!Operand1(rf, i) = Operand1(rf, i)
    /\ Arch!AluOps = AluOps /\ Arch!JumpOps = JumpOps /\ Arch!Opcodes = Opcodes
    /\ Arch!LD = LD /\ Arch!ST = ST /\ Arch!DMA = DMA /\ Arch!POL = POL /\ Arch!HLT = HLT
    /\ Arch!Address = Address
  <1>1. \A w : Arch!Wrap(w) = Wrap(w)
    BY DEF Arch!Wrap, Wrap, Arch!WordMod, WordMod
  <1>2. \A i : /\ Arch!Opcode(i) = Opcode(i) /\ Arch!Dst(i) = Dst(i)
               /\ Arch!Imm(i) = Imm(i)
    BY DEF Arch!Opcode, Opcode, Arch!Dst, Dst, Arch!Imm, Imm
  <1>3. \A rf, i : /\ Arch!Operand0(rf, i) = Operand0(rf, i)
                   /\ Arch!Operand1(rf, i) = Operand1(rf, i)
    BY <1>2 DEF Arch!Operand0, Operand0, Arch!Operand1, Operand1, Arch!Operand, Operand,
                Arch!Src0, Src0, Arch!Src1, Src1, Arch!LHI, LHI
  <1>4. /\ Arch!AluOps = AluOps /\ Arch!JumpOps = JumpOps
        /\ Arch!LD = LD /\ Arch!ST = ST /\ Arch!DMA = DMA /\ Arch!POL = POL /\ Arch!HLT = HLT
    BY DEF Arch!AluOps, AluOps, Arch!JumpOps, JumpOps, Arch!LD, LD, Arch!ST, ST,
           Arch!DMA, DMA, Arch!POL, POL, Arch!HLT, HLT
  <1>5. Arch!Opcodes = Opcodes /\ Arch!Address = Address
    BY <1>4 DEF Arch!Opcodes, Opcodes, Arch!Address, Address
  <1> QED
    BY <1>1, <1>2, <1>3, <1>4, <1>5

LEMMA RetireSeen ==
    ASSUME NEW regs, NEW next, Pending, ~Pending', archR' = regs, archPc' = next,
           dump' = dump, sim' = sim
    PROVE  Arch!Retire(regs, next)
  BY DEF Arch!Retire, archR, archPc

LEMMA CpuUnseen ==
    ASSUME UNCHANGED archCpu
    PROVE  UNCHANGED Arch!cpu
  BY DEF Arch!cpu, archCpu, archR, archPc, archIr

\* Register 1 is no destination the programmer could read.
LEMMA SetSeen ==
    ASSUME r \in [RegId -> Word], NEW d \in RegId, NEW v, r' = [r EXCEPT ![d] = v]
    PROVE  archR' = Arch!Set(d, v)
  BY DEF archR, Arch!Set, RegId

\* An instruction in EXEC0 or EXEC1, as the programmer sees it.
LEMMA PendingSeen ==
    ASSUME GroundInv, ctl_state \in {"EXEC0", "EXEC1"}, Pending
    PROVE  /\ archIr = inst /\ Arch!op = opcode
           /\ Arch!x = alu0 /\ Arch!y = alu1
           /\ Dst(inst) = dst /\ Imm(inst) = immediate
           /\ archPc = pc - 1 /\ Wrap(archPc + 1) = pc
  <1> USE DEF GroundInv
  <1>1. archIr = inst
    BY DEF archIr
  <1>2. archPc = pc - 1 /\ pc \in Word /\ pc \in Int
    BY AddressWord, SmallWords DEF archPc, Advanced, Pending, RegTypes
  <1>3. opcode = Opcode(inst) /\ dst = Dst(inst) /\ immediate = Imm(inst)
        /\ alu0 = Operand0(r, inst) /\ alu1 = Operand1(r, inst)
    BY DEF Carried
  <1>4. r \in [RegId -> Word] /\ src0 \in RegId /\ src1 \in RegId
        /\ src0 = Src0(inst) /\ src1 = Src1(inst)
    BY DEF RegTypes, Carried
  <1>5. Operand0(archR, inst) = Operand0(r, inst) /\ Operand1(archR, inst) = Operand1(r, inst)
    BY <1>4 DEF Operand0, Operand1, Operand, archR
  <1>6. Arch!op = Arch!Opcode(archIr) /\ Arch!x = Arch!Operand0(archR, archIr)
        /\ Arch!y = Arch!Operand1(archR, archIr)
    BY DEF Arch!op, Arch!x, Arch!y, archR, archIr
  <1>7. archPc + 1 = pc /\ Wrap(pc) = pc
    BY <1>2, WrapOfWord
  <1> QED
    BY <1>1, <1>2, <1>3, <1>5, <1>6, <1>7, SameIsa

-----------------------------------------------------------------------------
(***************************************************************************)
(* Memory and DMA.                                                         *)
(***************************************************************************)
LEMMA NoWrite ==
    ASSUME Edge, ~sram_WE
    PROVE  mem' = mem
  BY DEF Edge, Sram

LEMMA WordWritten ==
    ASSUME Edge, NEW w, w \in Stores, sram_WE
    PROVE  mem' = [mem EXCEPT ![w.addr] = w.val]
  <1>1. ~Starts
    BY DEF sram_WE, Starts, Storing, DmaWriting, dma_enable, Fetching, Loading
  <1>2. sram_EN
    BY DEF sram_EN, sram_WE
  <1>3. PICK v \in Stores : mem' = [mem EXCEPT ![v.addr] = v.val]
    BY <1>1, <1>2 DEF Edge, Sram
  <1> QED
    BY <1>3, WiresExclude DEF OneUser

\* The next address is the same in 16 bits, in 32 and as a number.
LEMMA NextAddress ==
    ASSUME NEW a \in Int, a + 1 \in Address
    PROVE  Half(a + 1) = a + 1 /\ Wrap(a + 1) = a + 1
  <1>1. a + 1 \in Word
    BY AddressWord
  <1> QED
    BY <1>1, HalfOfAddress, WrapOfWord

\* Beside any instruction but a store or the start of a transfer, the engine
\* picks a word up, puts one down or rests.
LEMMA EngineStep ==
    ASSUME GroundInv, DoFresh, CommonGround, CommonGround', Next, ~Starts, ~Storing
    PROVE  Arch!Pick \/ Arch!Put \/ UNCHANGED <<mem, Arch!dma>>
  <1> USE DEF Arch!dma, GroundInv
  <1>0. Edge /\ dma_raddr \in Int /\ dma_waddr \in Int /\ dma_cnt \in Int
    BY EdgeAlways DEF MemTypes, Address
  <1>1. CASE UNCHANGED dma /\ (dma_state = "IDLE" \/ ~dma_enable)
    <2>1. ~sram_WE
      BY <1>1 DEF sram_WE, DmaWriting
    <2>2. dma_state # "SAMPLE"
      BY <1>1 DEF DoFresh
    <2> QED
      BY <1>0, <1>1, <2>1, <2>2, NoWrite DEF dma
  <1>2. CASE dma_enable /\ DmaStep /\ dma_state = "READ" /\ dma_enable_next
    <2>1. dma_state' = "SAMPLE" /\ UNCHANGED <<dma_raddr, dma_waddr, dma_cnt>>
      BY <1>2 DEF DmaStep
    <2>2. dma_raddr \in Drivers /\ sram_EN /\ ~sram_WE
      BY <1>2 DEF Drivers, sram_EN, sram_WE, DmaWriting
    <2>3. do' = mem[dma_raddr] /\ mem' = mem
      BY <1>0, <2>2, DrivenRead
    <2>4. dma_raddr \in Address
      BY DEF MemTypes
    <2>5. Wrap(dma_raddr + 1) = dma_raddr + 1
      BY <1>0, <2>1, NextAddress DEF CommonGround
    <2> QED
      BY <1>2, <2>1, <2>3, <2>4, <2>5, SameIsa DEF Arch!Pick
  <1>3. CASE dma_enable /\ DmaStep /\ dma_state = "READ" /\ ~dma_enable_next
    <2>1. ~sram_WE
      BY <1>3 DEF sram_WE, DmaWriting
    <2> QED
      BY <1>0, <1>3, <2>1, NoWrite DEF DmaStep
  <1>4. CASE dma_enable /\ DmaStep /\ dma_state = "SAMPLE"
    <2>1. ~sram_WE
      BY <1>4 DEF sram_WE, DmaWriting
    <2>2. Half(do) = do /\ Half(dma_raddr + 1) = dma_raddr + 1
      BY <1>0, <1>4, NextAddress, HalfOfAddress, AddressWord DEF CommonGround
    <2> QED
      BY <1>0, <1>4, <2>1, <2>2, NoWrite DEF DmaStep
  <1>5. CASE dma_enable /\ DmaStep /\ dma_state = "WRITE"
    <2>1. sram_WE /\ [addr |-> dma_waddr, val |-> dma_reg] \in Stores
      BY <1>5 DEF sram_WE, DmaWriting, Stores
    <2>2. mem' = [mem EXCEPT ![dma_waddr] = dma_reg]
      BY <1>0, <2>1, WordWritten
    <2>3. dma_waddr \in Address
      BY DEF MemTypes
    <2>4. Half(dma_waddr + 1) = Wrap(dma_waddr + 1)
      BY <1>0, <1>5, NextAddress DEF CommonGround
    <2>5. Half(dma_cnt - 1) = Wrap(dma_cnt - 1)
      <3>1. dma_cnt - 1 \in Address
        BY <1>5, ImmModAssumption DEF Counted, MemTypes, Address
      <3> QED
        BY <3>1, HalfOfAddress, WrapOfWord, AddressWord
    <2>6. /\ dma_waddr' = Wrap(dma_waddr + 1) /\ dma_cnt' = Wrap(dma_cnt - 1)
          /\ dma_state' = IF dma_cnt = 1 THEN "IDLE" ELSE "READ"
          /\ dma_raddr' = dma_raddr
      BY <1>5, <2>4, <2>5 DEF DmaStep
    <2> QED
      BY <1>5, <2>2, <2>3, <2>6, SameIsa DEF Arch!Put
  <1> QED
    BY <1>0, <1>1, <1>2, <1>3, <1>4, <1>5 DEF Edge, Dma, DmaStep

\* A store has the memory for itself; the engine rests.
LEMMA StoreStep ==
    ASSUME GroundInv, DoFresh, CommonGround, Next, Storing
    PROVE  /\ alu1 \in Address
           /\ mem' = [mem EXCEPT ![alu1] = alu0]
           /\ UNCHANGED Arch!dma
  <1>1. Edge /\ ~dma_enable /\ ~Starts
    BY EdgeAlways DEF dma_enable, Starts, Storing
  <1>2. alu1 \in Address
    BY DEF CommonGround, Storing, ST, LD
  <1>3. sram_WE /\ [addr |-> alu1, val |-> alu0] \in Stores
    BY <1>2, HalfOfAddress DEF sram_WE, Stores
  <1>4. mem' = [mem EXCEPT ![alu1] = alu0]
    BY <1>1, <1>3, WordWritten
  <1>5. UNCHANGED dma /\ dma_state # "SAMPLE"
    BY <1>1 DEF Edge, Dma, DoFresh
  <1> QED
    BY <1>2, <1>4, <1>5 DEF dma, Arch!dma

\* A clock that starts a transfer does not write the memory.
LEMMA StartStep ==
    ASSUME GroundInv, CommonGround, Next, Starts
    PROVE  /\ mem' = mem
           /\ dma_state' = "READ" /\ dma_raddr' = alu0 /\ dma_waddr' = alu1
           /\ dma_cnt' = immediate
  <1>1. Edge /\ ~sram_WE
    BY EdgeAlways DEF sram_WE, Storing, DmaWriting, Starts
  <1>2. Half(alu0) = alu0 /\ Half(alu1) = alu1 /\ Half(immediate) = immediate
    BY HalfOfAddress, AddressWord DEF CommonGround, GroundInv, RegTypes
  <1> QED
    BY <1>1, <1>2, NoWrite DEF Edge, Dma, DmaStep, Starts
-----------------------------------------------------------------------------
(***************************************************************************)
(* The instructions.                                                       *)
(***************************************************************************)
LEMMA Exec1Step ==
    ASSUME Compares, GroundInv, DoFresh, CommonGround, Exec1, opcode \notin {ST, DMA}
    PROVE  Arch!Compute \/ Arch!Load \/ Arch!Poll \/ Arch!Jump \/ Arch!Skip \/ Arch!Halt
  <1> USE DEF GroundInv, Goto, decoded
  <1>1. Pending /\ ~Pending' /\ ~Advanced'
    BY DEF Exec1, Pending, Advanced
  <1>2. /\ archIr = inst /\ Arch!op = opcode
        /\ Arch!x = alu0 /\ Arch!y = alu1
        /\ Dst(inst) = dst /\ Imm(inst) = immediate
        /\ archPc = pc - 1 /\ Wrap(archPc + 1) = pc
    BY <1>1, PendingSeen DEF Exec1
  <1>3. archPc' = pc'
    BY <1>1 DEF archPc
  <1>4. r \in [RegId -> Word] /\ dst \in RegId /\ 7 \in RegId
    BY DEF RegTypes, RegId
  <1>5. Arch!op = opcode /\ Arch!Dst(archIr) = dst /\ Arch!Imm(archIr) = immediate
        /\ Arch!Wrap(archPc + 1) = pc
    BY <1>2, SameIsa
  <1>6. opcode # HLT => UNCHANGED <<dump, sim>>
    BY DEF Exec1
  <1>7. CASE opcode \in AluOps
    <2>1. r' = [r EXCEPT ![dst] = aluout] /\ pc' = pc /\ UNCHANGED <<dump, sim>>
      BY <1>6, <1>7 DEF Exec1, Taken, Written, AluOps, JumpOps, HLT
    <2>2. aluout = Alu(opcode, alu0, alu1, immediate)
      BY <1>7 DEF Carried, Exec1
    <2>3. archR' = Arch!Set(dst, Alu(opcode, alu0, alu1, immediate))
      BY <1>4, <2>1, <2>2, SetSeen
    <2>4. Arch!Retire(Arch!Set(dst, Alu(opcode, alu0, alu1, immediate)), pc)
      BY <1>1, <1>3, <2>1, <2>3, RetireSeen
    <2> QED
      BY <1>2, <1>5, <1>7, <2>4, SameIsa DEF Arch!Compute, archIr, archPc
  <1>8. CASE opcode = LD
    <2>1. r' = [r EXCEPT ![dst] = do] /\ pc' = pc /\ UNCHANGED <<dump, sim>>
      BY <1>6, <1>8 DEF Exec1, Taken, Written, AluOps, JumpOps, LD, HLT
    <2>2. do = mem[alu1] /\ alu1 \in Address
      BY <1>8, HalfOfAddress DEF CommonGround, DoFresh, Exec1
    <2>3. archR' = Arch!Set(dst, mem[alu1])
      BY <1>4, <2>1, <2>2, SetSeen
    <2>4. Arch!Retire(Arch!Set(dst, mem[alu1]), pc)
      BY <1>1, <1>3, <2>1, <2>3, RetireSeen
    <2> QED
      BY <1>2, <1>5, <1>8, <2>2, <2>4, SameIsa DEF Arch!Load, archIr, archPc
  <1>9. CASE opcode = POL
    <2>1. r' = [r EXCEPT ![dst] = dma_cnt] /\ pc' = pc /\ UNCHANGED <<dump, sim>>
      BY <1>6, <1>9 DEF Exec1, Taken, Written, AluOps, JumpOps, LD, POL, HLT
    <2>2. archR' = Arch!Set(dst, dma_cnt)
      BY <1>4, <2>1, SetSeen
    <2>3. Arch!Retire(Arch!Set(dst, dma_cnt), pc)
      BY <1>1, <1>3, <2>1, <2>2, RetireSeen
    <2> QED
      BY <1>2, <1>5, <1>9, <2>3, SameIsa DEF Arch!Poll, archIr, archPc
  <1>10. CASE opcode \in JumpOps
    <2>1. UNCHANGED <<dump, sim>>
      BY <1>6, <1>10 DEF JumpOps, HLT
    <2>2. aluout = Alu(opcode, alu0, alu1, immediate) /\ aluout \in {0, 1}
      BY <1>10 DEF Carried, Exec1, Compares, RegTypes
    <2>3. CASE aluout = 1
      <3>1. r' = [r EXCEPT ![7] = archPc] /\ pc' = immediate
        BY <1>2, <1>10, <2>3 DEF Exec1, Taken, Written, AluOps, JumpOps, LD, POL
      <3>2. archR' = Arch!Set(7, archPc)
        BY <1>4, <3>1, SetSeen
      <3>3. Arch!Retire(Arch!Set(7, archPc), immediate)
        BY <1>1, <1>3, <2>1, <3>1, <3>2, RetireSeen
      <3>4. Alu(opcode, alu0, alu1, immediate) # 0
        BY <2>2, <2>3
      <3>5. Arch!Jump
        BY <1>2, <1>5, <1>10, <3>3, <3>4, SameIsa DEF Arch!Jump, archIr, archPc
      <3> QED
        BY <3>5
    <2>4. CASE aluout = 0
      <3>1. r' = r /\ pc' = pc
        BY <1>10, <2>4 DEF Exec1, Taken, Written, AluOps, JumpOps, LD, POL
      <3>2. archR' = archR
        BY <3>1 DEF archR
      <3>3. Arch!Retire(archR, pc)
        BY <1>1, <1>3, <2>1, <3>1, <3>2, RetireSeen
      <3> QED
        BY <1>2, <1>5, <1>10, <2>2, <2>4, <3>3, SameIsa DEF Arch!Jump, archIr, archPc, archR
    <2> QED
      BY <2>2, <2>3, <2>4
  <1>11. CASE opcode = HLT
    <2>1. /\ dump' = mem /\ sim' = "stopped" /\ r' = r /\ pc' = pc
      BY <1>11 DEF Exec1, Taken, Written, AluOps, JumpOps, LD, POL, HLT
    <2>2. archR' = archR
      BY <2>1 DEF archR
    <2>3. archIr' = 0
      BY <1>1 DEF archIr
    <2> QED
      BY <1>1, <1>2, <1>3, <1>5, <1>11, <2>1, <2>2, <2>3, SameIsa
      DEF Arch!Halt, archIr, archPc, archR
  <1>12. CASE opcode \notin Opcodes
    <2>1. UNCHANGED <<dump, sim>> /\ r' = r /\ pc' = pc
      BY <1>6, <1>12 DEF Exec1, Taken, Written, Opcodes
    <2>2. archR' = archR
      BY <2>1 DEF archR
    <2>3. Arch!Retire(archR, pc)
      BY <1>1, <1>3, <2>1, <2>2, RetireSeen
    <2> QED
      BY <1>2, <1>5, <1>12, <2>3, SameIsa DEF Arch!Skip, archIr, archPc, archR
  <1> QED
    BY <1>7, <1>8, <1>9, <1>10, <1>11, <1>12 DEF Opcodes

\* Between the fetch and EXEC1 the programmer sees nothing but a DMA
\* instruction that comes too early and is dropped.
LEMMA CpuStep ==
    ASSUME Compares, GroundInv, DoFresh, CommonGround, Next, ~Starts, ~Storing
    PROVE  \/ Arch!Fetch \/ Arch!Compute \/ Arch!Load \/ Arch!Poll \/ Arch!Jump
           \/ Arch!Skip \/ Arch!Halt \/ UNCHANGED Arch!cpu
  <1> USE DEF GroundInv, Goto, control, decoded
  <1>1. Edge /\ sim = "running"
    BY EdgeAlways DEF Edge
  <1>2. CASE Idle
    <2>1. UNCHANGED archCpu
      BY <1>1, <1>2 DEF Idle, archCpu, archR, archPc, archIr, Pending, Advanced, Carried
    <2> QED
      BY <2>1, CpuUnseen
  <1>3. CASE Fetch0
    <2>1. /\ ctl_state' = "FETCH1" /\ UNCHANGED <<r, pc, dump, sim>>
          /\ ~Pending /\ Pending' /\ ~Advanced /\ ~Advanced'
      BY <1>3 DEF Fetch0, Fetching, Pending, Advanced
    <2>2. pc \in Drivers /\ sram_EN /\ ~sram_WE
      BY <1>3, WiresExclude DEF Fetch0, Drivers, sram_EN, OneUser
    <2>3. do' = mem[pc] /\ pc \in Address
      BY <1>1, <2>2, DrivenRead DEF RegTypes
    <2>4. archPc = pc /\ archPc' = pc /\ archIr' = mem[pc] /\ archR' = archR
      BY <2>1, <2>3 DEF archPc, archIr, archR
    <2> QED
      BY <2>1, <2>3, <2>4, SameIsa DEF Arch!Fetch, archPc, archIr, archR
  <1>4. CASE Fetch1
    <2>1. UNCHANGED archCpu
      BY <1>4 DEF Fetch1, archCpu, archR, archPc, archIr, Pending, Advanced
    <2> QED
      BY <2>1, CpuUnseen
  <1>5. CASE Dec0
    <2>1. Half(pc + 1) = pc + 1
      BY <1>5, NextAddress DEF Dec0, CommonGround, RegTypes, Address
    <2>2. /\ pc' = pc + 1 /\ UNCHANGED <<r, inst, dump, sim>>
          /\ ctl_state = "DEC0" /\ ctl_state' = "DEC1"
      BY <1>5, <2>1 DEF Dec0
    <2>3. Pending /\ Pending' /\ ~Advanced /\ Advanced'
      BY <2>2 DEF Pending, Advanced
    <2>4. archPc' = archPc /\ archIr' = archIr /\ archR' = archR
      <3>1. pc' - 1 = pc
        BY <2>2 DEF RegTypes, Address
      <3>2. archPc' = pc' - 1 /\ archPc = pc
        BY <2>3 DEF archPc
      <3>3. archIr' = inst' /\ archIr = inst
        BY <2>2, <2>3 DEF archIr
      <3>4. archR' = archR
        BY <2>2 DEF archR
      <3> QED
        BY <2>2, <3>1, <3>2, <3>3, <3>4
    <2>5. UNCHANGED archCpu
      BY <2>2, <2>3, <2>4 DEF archCpu
    <2> QED
      BY <2>5, CpuUnseen
  <1>6. CASE Dec1
    <2>1. UNCHANGED archCpu
      BY <1>6 DEF Dec1, archCpu, archR, archPc, archIr, Pending, Advanced
    <2> QED
      BY <2>1, CpuUnseen
  <1>7. CASE Exec0 /\ opcode # DMA
    <2>1. UNCHANGED archCpu
      BY <1>7 DEF Exec0, archCpu, archR, archPc, archIr, Pending, Advanced
    <2> QED
      BY <2>1, CpuUnseen
  <1>8. CASE Exec0 /\ opcode = DMA
    <2>1. /\ ctl_state' = "EXEC1" /\ opcode' = DMA /\ UNCHANGED <<r, pc, dump, sim>>
          /\ Pending /\ ~Pending' /\ ~Advanced'
      BY <1>8 DEF Exec0, Pending, Advanced
    <2>2. archPc' = pc /\ archR' = archR
      BY <2>1 DEF archPc, archR
    <2>3. Arch!op = DMA /\ Wrap(archPc + 1) = pc
      BY <1>8, <2>1, PendingSeen DEF Exec0
    <2>4. Arch!Retire(archR, pc)
      BY <2>1, <2>2, RetireSeen
    <2>5. dma_state # "IDLE"
      BY <1>8 DEF Exec0, Starts
    <2> QED
      BY <2>3, <2>4, <2>5, SameIsa DEF Arch!Skip, archPc, archR
  <1>9. CASE Exec1 /\ opcode = DMA
    <2>1. UNCHANGED <<r, pc, dump, sim>> /\ ctl_state = "EXEC1" /\ ctl_state' = "FETCH0"
      BY <1>9 DEF Exec1, Taken, Written, DMA, AluOps, JumpOps, LD, POL, HLT
    <2>2. UNCHANGED archCpu
      BY <1>9, <2>1 DEF archCpu, archR, archPc, archIr, Pending, Advanced
    <2> QED
      BY <2>2, CpuUnseen
  <1>10. CASE Exec1 /\ opcode # DMA
    BY <1>10, Exec1Step DEF Exec1, Storing
  <1> QED
    BY <1>2, <1>3, <1>4, <1>5, <1>6, <1>7, <1>8, <1>9, <1>10 DEF Next

-----------------------------------------------------------------------------
(***************************************************************************)
(* Every clock edge is a step of the programmer's view or none.            *)
(***************************************************************************)
LEMMA EdgeRefines ==
    ASSUME Compares, GroundInv, DoFresh, CommonGround, CommonGround', Next
    PROVE  Arch!Step
  <1> USE DEF Goto, control, decoded
  <1>1. CASE Storing
    <2>1. Exec1 /\ opcode = ST
      BY <1>1 DEF Next, Idle, Fetch0, Fetch1, Dec0, Dec1, Exec0, Storing, Fetching
    <2>2. alu1 \in Address /\ mem' = [mem EXCEPT ![alu1] = alu0] /\ UNCHANGED Arch!dma
      BY <1>1, StoreStep
    <2>3. Pending /\ ~Pending' /\ ~Advanced'
      BY <2>1 DEF Exec1, Pending, Advanced, ST, DMA, HLT
    <2>4. /\ Arch!op = opcode /\ Arch!x = alu0 /\ Arch!y = alu1 /\ Wrap(archPc + 1) = pc
      BY <2>1, <2>3, PendingSeen DEF Exec1
    <2>5. r' = r /\ pc' = pc /\ UNCHANGED <<dump, sim>>
      BY <2>1 DEF Exec1, Taken, Written, AluOps, JumpOps, LD, ST, POL, HLT
    <2>6. archR' = archR /\ archPc' = pc
      BY <2>3, <2>5 DEF archR, archPc
    <2>7. Arch!Retire(archR, pc)
      BY <2>3, <2>5, <2>6, RetireSeen
    <2>8. Arch!Store
      BY <2>1, <2>2, <2>4, <2>7, SameIsa DEF Arch!Store, archR, archPc
    <2> QED
      BY <2>8 DEF Arch!Step
  <1>2. CASE Starts
    <2>1. Exec0 /\ opcode = DMA /\ dma_state = "IDLE"
      BY <1>2 DEF Starts, Next, Idle, Fetch0, Fetch1, Dec0, Dec1, Exec1, Fetching
    <2>2. /\ mem' = mem
          /\ dma_state' = "READ" /\ dma_raddr' = alu0 /\ dma_waddr' = alu1
          /\ dma_cnt' = immediate
      BY <1>2, StartStep
    <2>3. /\ UNCHANGED <<r, pc, dump, sim>> /\ Pending /\ ~Pending' /\ ~Advanced'
      BY <2>1 DEF Exec0, Pending, Advanced
    <2>4. /\ archIr = inst /\ Arch!op = DMA /\ Arch!x = alu0 /\ Arch!y = alu1
          /\ Imm(inst) = immediate /\ Wrap(archPc + 1) = pc
      BY <2>1, <2>3, PendingSeen DEF Exec0
    <2>5. archR' = archR /\ archPc' = pc
      BY <2>3 DEF archR, archPc
    <2>6. Arch!Retire(archR, pc)
      BY <2>3, <2>5, RetireSeen
    <2>7. Arch!StartDma
      BY <2>1, <2>2, <2>4, <2>6, SameIsa DEF Arch!StartDma, archR, archPc, archIr
    <2> QED
      BY <2>7 DEF Arch!Step
  <1>3. CASE ~Starts /\ ~Storing
    BY <1>3, CpuStep, EngineStep DEF Arch!Step
  <1> QED
    BY <1>1, <1>2, <1>3

LEMMA InitRefines ==
    ASSUME Init
    PROVE  Arch!Init
  <1>1. mem \in [Arch!Address -> Arch!Word]
    BY RtlAssumption, SameIsa DEF Init, Arch!Word, Word, Arch!WordMod, WordMod
  <1>2. [r EXCEPT ![1] = 0] = [i \in Arch!RegId |-> 0]
    BY DEF Init, RegId, Arch!RegId
  <1> QED
    BY <1>1, <1>2 DEF Init, Arch!Init, Pending, Advanced

\* On the common ground ctl.v is what sp.c of lab2 is: its instructions take
\* effect one after the other as if each were atomic, and each word of a
\* transfer is picked up once and put down once, though control and DMA share
\* a memory that would not notice if they used it together.
THEOREM RtlImplementsArch ==
    ASSUME AluClosed, Compares
    PROVE  Spec /\ []CommonGround => ArchSpec
  <1>1. Init => Arch!Init
    BY InitRefines
  <1>2. GroundInv /\ DoFresh /\ CommonGround /\ CommonGround' /\ [Next]_vars
          => [Arch!Next]_(Arch!vars)
    <2> SUFFICES ASSUME GroundInv, DoFresh, CommonGround, CommonGround', [Next]_vars
                 PROVE  [Arch!Next]_(Arch!vars)
      OBVIOUS
    <2>1. CASE UNCHANGED vars
      BY <2>1 DEF vars, control, decoded, dma, Arch!vars, Arch!cpu, Arch!dma, Pending, Advanced
    <2>2. CASE Next
      BY <2>2, EdgeAlways, EdgeRefines DEF Arch!Next, Edge
    <2> QED
      BY <2>1, <2>2
  <1>3. Spec => []DoFresh
    BY RtlDoFresh
  <1>4. Spec /\ []CommonGround => []GroundInv
    BY GroundAlways
  <1> QED
    BY <1>1, <1>2, <1>3, <1>4, PTL DEF Spec, ArchSpec, Arch!Spec
=============================================================================
