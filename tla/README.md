# The SP processor in TLA+

The repository holds one small 32-bit processor, the SP, four times: as an instruction-set simulator
(`src/lab1/iss.c`), as a multi-cycle machine with a DMA engine for a clocked simulator (`src/lab2/sp.c` on
`src/lab2/llsim.c`), as the same machine in Verilog (`src/lab4`), and as a six-stage pipeline with a DMA engine
(`src/lab5/sp.c`). The modules in this directory model each of them clock by clock (or instruction by instruction),
check them against the programmer's view they share and against one another, run the test programs of `src/lab1` on
them, and prove, for every memory size, word width, program and ALU, that the machines implement that view, and, with the
ALUs of the code, how far they agree with the instruction-set simulator. The circuits of `src/lab3` are modelled and, in part, proved as well.

## 1. Inventory

| component | code | state | operations | modules |
|---|---|---|---|---|
| instruction set, assembler encoding | `lab1/asm.c`, `lab2/sp.c:108-125` | none | encode, decode, select operands, ALU | `SPIsa`, `SPAlu`, `SPIsaProofs` |
| instruction-set simulator | `lab1/iss.c` | `REG`, `MEM`, decoded `insts`, `pc` | one instruction per step, HLT dumps, a trace line each | `SPIss` |
| low-level simulator | `lab2/llsim.c`, `lab5/llsim.c` | per memory: words, pending read/write, `dataout`; old/new register copies | inject, reset, post requests, serve them, assert, copy registers, stop | `LLSim`, `LLSimProps`, `LLSimProofs`; as one step `LLSimMem` and the shape of every clocked module |
| multi-cycle SP | `lab2/sp.c` | control registers, `ctl_state`, `dma_*`, one SRAM | seven control states, four DMA states | `SPMulti`, `SPMultiProps`, `SPMultiArch`, `SPMultiIss`, `SPMultiProofs` |
| pipelined SP | `lab5/sp.c` | six stages, `r_busy`, `bubble`, `jtaken`, `start`, `dma_*`, two SRAMs | fill, stall, release, issue, flush, halt, DMA | `SPPipe`, `SPPipeProps`, `SPPipeRules`, `SPPipeIss`, `SPPipeProofs`, `SPPipeRuleProofs`, `SPPipeIssProofs` |
| Verilog SP | `lab4/ctl.v`, `alu.v`, `sram.v`, `sp.v`, `top.v` | registers, ALU output wire, SRAM and its output register | one clock edge: control, DMA, memory, ALU | `SPRtl`, `SPRtlProps`, `SPRtlArch`, `SPRtlProofs` |
| program loaders | `sp_generate_sram_memory_image`, `generic_inject_bits` | memory image | read a text file once, inject it into every memory | `LLSim` |
| trace writers | `dump_trace`, `dump_inst_trace`, `print_trace` | files | output | the values of instruction traces: `TraceLine` in `SPIss`, `SPMultiIss`, `SPPipeIss` |
| test programs | `lab1/mult*.c`, `lab1/pipe_dma.c` | none | sequences of `asm_cmd` | `SPPrograms` |
| Verilog exercises | `lab3/ex1` ... `ex8` | counter, parity bit, shift register and timer | one clock edge; adders without state | `Lab3Adders`, `SatCount`, `Parity`, `Des`, `Lab3Bench`, `Lab3Proofs` |
| test benches | `lab3/*/*_tb.v`, `lab4/sram_tb.v` | stimuli | | not modelled |

**How they interact.** In the simulators `llsim_run_clock` calls the unit once per clock. The unit reads the registers
of the last clock (`spro`), writes the next ones (`sprn`) and posts memory requests; the memory phase then serves at
most one request per memory, asserting that there is no more, and the registers are copied. Control and DMA share one
SRAM port in lab2 and lab4, and the data-memory port in lab5; they share no other state except that the DMA
instruction writes the `dma_*` registers and POL reads `dma_cnt`. A word that is read in one clock appears on
`dataout` in the next one and is gone in the one after that (`0xBAADBAAD`).

**What is hard.** Two machines take turns on one memory port without a handshake: each computes from the state of the
other whether the port is free, the DMA even for the next clock. Instructions and transfers take many clocks and
overlap. The pipeline reads operands early, guesses jumps, stalls and restarts its front end, and lets stores and DMA
instructions take effect before older jumps are decided. What looks like one step to a processor, a clock, is a
sequence of calls and of memories served one after the other in `llsim.c`, any of which may end the program. The
traces by which the labs are compared are put together from registers of two different clocks. Programs can overwrite themselves, and transfers can
overwrite programs. The Verilog processor has latches, a blocking assignment in a clocked block and a memory that does
not object to being used twice. There are no messages, no crashes and no persistence.

**What makes each component correct.** The port has one user per clock; a word taken from the port is the word at the
address the taker holds; a clock of the simulator is atomic; an instruction takes a fixed number of clocks (lab2) or retires in program order with the
right operands (lab5); a transfer moves every word once and comes to an end; and the whole of it is, seen from the
program, the execution of atomic instructions next to a DMA, the same on every processor but for its ALU, so that the test
programs compute what they are written for and the traces agree as far as the ALUs do. `PROJECT.json` lists the hazards at their lines with the
properties that cover them.

## 2. Modules

`SPIsa` has words as signed integers of `65536 * ImmMod` values (`ImmMod = 2^16` gives C ints), the fields of an
instruction as divisions and remainders, and `Alu` as a parameter: the control, the arbitration and the pipeline do
not depend on what is computed, so that nothing proved or checked for them hangs on arithmetic. `SPAlu` has the three
ALUs of `sp.c` (signed ints), `iss.c` (unsigned ints) and `alu.v` (unsigned vectors); each run gives a processor its own
one. `SignBlind` says when signed and unsigned ints come to the same. The operators `&`, `|` and `^` are
parameters of it, too (`And`, `Or`, `Xor`); `MCBits` gives TLC the real ones, and the few theorems that speak of them say
what they suppose.

`LLSim` is `llsim.c` call by call. It begins where `main` does: the loader places the words of a file in every memory
(`LoadWord`; `lrbs` rewrites 64 bits to place 32, so a negative word changes the one behind it), five reset clocks copy
cleared registers, and then each clock clears the requests (`BeginClock`), lets an arbitrary unit make calls
(`MemRead`, `MemWrite`, `UnitReturns`), serves the memories in list order (`ServeMemory`) and copies the registers
(`CopyRegisters`). Assertions end it wherever they stand in the code. `LLSimProps` has what the processor models take
for granted of it.

`LLSimMem` is the memory phase as one step: sets of requests, the verdict of the assertions (`conflict`, `range`), the negative address
that passes the assertion (`undefined`), and the memory phase. `SPMulti` instantiates it once, `SPPipe` twice.

`SPMulti` is one clock of `lab2/sp.c` per step. An action per control state (`Idle` ... `Exec1`) carries the control
registers; each contains `Tick`, which has the DMA machine (an action per DMA state), the memory phase, the dump of HLT
and the counter, because a clock does all of them. `Abort` is the clock in which an assertion ends the program.
`SPArch` is the programmer's view: atomic instructions, a separate fetch (programs that change themselves make the
difference visible), a DMA that picks a word up and puts it down. `SPMultiArch` is the refinement mapping: an
instruction takes effect in EXEC1 (a DMA instruction in EXEC0), a picked-up word is on `dataout` in SAMPLE and in
`dma_reg` in WRITE.

`SPPipe` is one clock of `lab5/sp.c` per step. In the code six stages assign to the same `sprn` in turn and the last
one wins; the model has one action per case of the front end (`Fill`, `Stall`, `Release`, `Issue`), `Flush` for a
misprediction, `Halt` and `Abort`, and an operator for the value of each register that more than one stage writes
(`NextR`, `NextBusy`, `NextFetch1Pc`, `FilledPc`). The copies of opcode, registers and immediate in every stage are
functions of the instruction word; a stage that is not active is `Empty`, as nothing reads its old content
(`fetch1_pc` is kept, because the end of a stall reads it). `SPMultiIss` maps the multi-cycle machine to `SPIss`, six clocks to one instruction, on programs both are meant for. One
history variable keeps the program as loaded, since `iss.c` decodes it once; a second one remembers whether a store has
ever changed it, since a program that has put its words back may have started a transfer in between; a third one (`alike`)
whether the unsigned operands of `iss.c` have made a difference so far, since `SPIss` is instantiated with `IssAlu` and the
processor has `SpAlu` (section 4). `iss.c` dumps the words it has loaded and no more, so that `Loaded` gives each image
their number. Its property
`Multiplies` is about `mult.c` alone: for whatever operands its text names. `SPPipeIss` does so
for the pipeline; it adds `alike` and two other history variables, the pc that has to retire next and the memory of the retired stores,
and maps the pipeline to `SPIss`. `SPPipeRules` has the rules that a program must keep for this to hold (section 4),
twice: as they can be read off its text (`Disciplined`, `Portable`, `SignFree`), and as an execution keeps them clock by clock
(`RulesKept`, `Kept`). `Direct` is a stronger rule, for programs that name every address in their text.

`SPRtl` is one rising edge of the clock of `lab4` per step, with the logic that settles behind it. Where Verilog leaves
the outcome open the model does: a read while nothing drives `sram_ADDR` (a latch) reads some address, the blocking
assignment that starts a transfer may or may not be seen by the memory in the same edge, and `start` may or may not be
seen at its first edge. Vectors of 16 bits are numbers below `ImmMod`. `SPRtlArch` maps it to the same `SPArch`, on
the ground that the two processors have in common (`CommonGround`). That ground is about control, memory and transfers: the
ALU is a parameter of `SPArch`, too, and `MCSPRtl` fills in the one of `alu.v`, so that a jump of its menu (`JLT r5, r2` behind
`SUB r5 = -r2`) is taken in lab2 and not in lab4.

`SPPrograms` has the four test programs of `lab1` as `assemble_program` writes them, with the addresses of their data
and the sizes of loops and transfers as parameters, and the words each is there to compute.

`Lab3Adders` has the combinational circuits of `lab3`, wire by wire. `SatCount`, `Parity` and `Des` are a clock edge of
the three clocked ones, undefined registers included; `SatCountSpec` (a number that goes up and down between two ends)
and `DesSpec` (a sequence of frames, each shown until the next one) say what two of them promise. `Lab3Bench` runs the three
under one clock with free inputs and has the properties; they share nothing but the clock and the reset. Its history variable
`cleared` tells the two specifications whether an edge had a reset: only then, and always then, may the word shown or the
number become 0 out of turn.

`...Props` modules have the properties, `MC...` modules the programs and constants for TLC, `...Proofs` modules the
theorems: `SPIsaProofs` the lemmas about words and fields; `SPMultiProofs` and `SPRtlProofs` those of the lab2 and lab4
processors; `SPPipeProofs` what holds of the pipeline for every program, `SPPipeRuleProofs` what holds for those that keep a
rule, `SPPipeIssProofs` that they run as on `iss.c`; `LLSimProofs` those of the simulator, `Lab3Proofs` of the circuits. An operator named `Faulty...` is a plausible slip in the definition below it; it is used by nothing but the
mutants in `PROJECT.json`, which show that each property notices such a slip.

## 3. Runs

| run | shows |
|---|---|
| `MCLLSim` | a clock of `llsim.c` that completes is one step of `LLSimMem` on what was called (`ServedAsPosted`); it ends early only for a reason `LLSimMem` gives (`ExitsJustified`); the unit first runs on the loaded image with cleared registers (`StartsClean`) |
| `MCSPMulti` | lab2 implements `SPArch`; `DataoutFresh`, `TransferUndisturbed`; `WordPerInstruction`: no program starves a transfer, each clock brings its end nearer; without DMA it does what `iss.c` does (`IssAgrees`) and writes the same trace (`TraceAgrees`), up to the first instruction to which a sign matters; `mult`, `mult_table` and `mult_dma` compute what they should (`TestsPass`), and `mult` for whatever operands it names (`Multiplies`) |
| `MCSPPipe` | `NoConflict`, `FrontInStep`, `PortFresh`, `WordAtPc`, `R0Zero` for programs that keep no rule |
| `MCSPPipeIss` | programs that keep the rules, and `mult` and `mult_table`, retire what `iss.c` executes (`IssAgrees`), in order, on fresh operands, with the same trace, up to the first instruction to which a sign matters; the products are right; they end with HLT (`EndsWell`); `KeepsRules`: in every clock the executions keep the rules that the theorems are about |
| `MCSPPipeDma` | transfers that keep the rules, and `pipe_dma`: no word too many, none lost, an end; the scoreboard is cleaned up; a transfer does not rest for a clock that the port is free (`DmaRate`), and one clock of seven retires an instruction (`RetiresSoon`); `KeepsRules` |
| `MCSPRtl` | lab4 implements `SPArch` on the common ground of both processors, which the programs do not leave (`CommonGround`); one user of the memory, reads reach their reader; on the operands the programs come to have the three ALUs agree but for right shifts of negative numbers and orders between numbers of different sign (`AluCommonGround`) |
| `MCLab3` | the counter saturates (`CounterSpec`) and its predictor learns (`Trained`), parity is right from the reset on (`ParityOfInputs`), the deserialiser shows every frame once, to the end of the next one or to a reset (`FramesSpec`) |
| `MCSPPipeJump`, `...Store`, `...Destination`, `...Load`, `MCSPRtlWide` | disagreements of section 4; TLC finds each violated |

The type invariants, and a few properties that follow from others or hold of every state (`SixClocks` and `NoConflict`
of lab2, `StallKeepsPlace`, `WordPerInstruction` of lab4), are proved (section 5) and not run again.

**Bounds, and why they are enough.** Words have 20 to 22 bits with immediates (and in `SPRtl` addresses) of 4 to 6
bits; field positions scale with them. Memories have 16 to 48 words, so that every immediate of a program is near an
interesting place: program, data, past the end. Test programs have their data a few words behind the last instruction,
as close as the pipeline's prefetch allows (at 1000 and more in the sources): it refuses a prefetched word that writes
register 0, and data may look like one. The menus of `MCSPMulti` and `MCSPPipeIss` load negative words and compare and shift
them; with `SignsKept` taken to be true TLC finds `IssAgrees` and `TraceAgrees` violated in both. The factors, table sizes and transfers are small, but include 0, 1, all bits
set, and both remainders of the loop's length by the DMA's period. A property that depends on alignment between transfer and instructions
depends on the kind of the next few instructions and on where in its four states (lab2, lab4) or three flags (lab5) the
DMA is. The programs are *all* sequences of three (lab2, lab4) or four to five (lab5) instructions of a menu with every
kind of memory access, a loop, a jump into data, a second transfer, an opcode that does not exist; transfers have 0,
1, 2, 3 or 4 words, so that first, middle, last and wrapped counts occur, and loops repeat the alignments. Five
instructions are the depth of the pipeline from dec0 to exec1 plus one. `CycleMod` bounds the cycle counter (only its
remainder by six matters). `MCLLSim` has the two memories of lab5 with two words each, two calls of the unit in a clock
(the smallest number that can collide), every address from one below to one above the memory, and files from empty to
one word more than fit; two clocks behind the reset show what one leaves to the next. The circuits of `lab3` have
their whole state space, for a two-bit counter and frames of four bits. A transfer of 0 words wraps its count in lab2 and runs until it leaves the memory.

**Deadlock** is not checked: a simulator that has executed HLT, failed an assertion or called `exit` makes no further
step, and that is how every run of a program ends; the clocks of `MCLLSim` are bounded. (`MCLab3` is checked for it.) That it does not stop otherwise is `RetiresSoon`, with a bound of
seven clocks, `WordPerInstruction`, with six clocks a word, and `DmaEnds`, which is checked under fairness.

**Fairness.** `FairSpec` has weak fairness of the clock (`Next`) and of nothing else: `main` in `llsim.c` calls
`llsim_run_clock` in a loop until `llsim_stop`. No choice inside a clock needs fairness; a clock is deterministic. The
Verilog model has no liveness property.

## 4. Where code and documentation disagree

*lab5* runs a program as `iss.c` does only if the program keeps rules that nothing in the repository states.
`SPPipeRules` states them as rules about the words of a program up to its first HLT, and `SPPipeIssProofs` proves that
they suffice, for every program (`TextKeepsRules`). Each is needed; a run has a program against four of them:

| rule | without it | cause |
|---|---|---|
| `WriteRule`: no second write of a register while the first is under way, unless it reads it | a reader gets the older value | one busy bit per register, cleared by the first writer |
| `JumpRule`: a jump does not wait for its operands, register 1 included | a predicted jump falls through (`MCSPPipeJump`) | the end of a stall leaves `fetch0_pc` alone but starts the prediction |
| `StoreRule`: no store, no DMA behind a jump | it takes effect although it is skipped (`MCSPPipeStore`) | exec0 acts before exec1 decides the jump |
| `DestinationRule`: only writers name a destination | the next reader waits for ever (`MCSPPipeDestination`) | dec0 marks every destination, only writers clear it |
| `DmaRule`: even transfers, no loads and stores meanwhile | a word too many for an odd count, or one lost (`MCSPPipeLoad`) | the DMA reads ahead of its count; a held-back word is overwritten by the next sample |

*lab4:* `dma_reg` has 16 bits (`MCSPRtlWide`). `MCSPRtl` therefore has 16-bit data in its transfers, addresses in
the memory, no transfer of 0 words and no LHI, whose lower half is what the ALU output happened to hold.

To them comes `Ends`: no jump behind the HLT, no zero word before it, and three zero words and two more of memory
behind it, which the pipeline fetches before HLT retires. What each rule is for is a rule about executions: `WriteKept`,
that no register is to be written by two instructions in the pipeline; `JumpKept`, that no jump waits that is predicted to
be taken; `FillKept`, that nothing waits while the pipeline fills, which `DestinationRule` is enough for; and so on.

The test programs do not keep every rule: the loop of `mult.c` has a jump that names R4, and its jumps wait for
operands; `pipe_dma.c` loads and stores during its transfer. That they pass all the same (`TestsPass`) hangs on
mispredictions that flush the scoreboard and on the alignment of loop and transfer. `mult` and `mult_table` keep the
rules about executions all the same, but for a store on the wrong path, and so do the theorems that do not take
`StoreKept` hold of them.

The ALUs differ, too: comparisons and right shifts are signed in `sp.c` and unsigned in `iss.c` (`iss.c:128`, `:147`, `:170`,
`:176`) and `alu.v`, shifts by more than a word are possible in `alu.v` only, and the three give LHI three meanings. No document
says which one is meant, so no finding is made of it; `AluCommonGround` says where they agree. The comparisons with `iss.c`
leave out programs with LHI and go up to the first right shift of a negative number or JLT or JLE across signs: from there on the two
simulators may go different ways, in fact and in the model. The traces differ before that where an instruction
loads into the very register that holds its address: `lab2/sp.c:219` and `lab5/sp.c:226` read the register after the load,
and `TraceAgrees` excepts it. The comment in
`lab1/pipe_dma.c:79` ("if DMA finished --> goto ELSE") stands at a JNE that jumps while words are left. `lab2/sp.c:21` says that `r[0]` does not exist; it is written and read
like any register, in `iss.c` and `ctl.v`, too, and programs use it as zero.

## 5. Proofs

All theorems hold for every width of words and every size of the memory, and, but for those that compare a processor with
`iss.c` or speak of `mult.c`, for every ALU. Some take hypotheses on the constants, which the code justifies: `AluClosed` (results are words, as those of an `int` are), `Height \in Word` (an
address is an `int`), `Alu(ADD, 0, 0, 0) = 0`, and for Verilog `Compares` (a comparison yields 0 or 1). That the three ALUs
of `SPAlu` are such ALUs, for words of any width up to 32, is proved in `SPIsaProofs` (`SpAluFits`, `IssAluFits`,
`RtlAluFits`), under `SameWords` (the words of the ALU are those of the instruction set) and `BitsClosed` (`&`, `|` and `^` of
numbers are numbers). `SpWords` is these two and that the processor has the ALU of `sp.c`. `SPIsaProofs` also has the lemmas that these and the other modules rest on: the ranges of fields
and of `Wrap`, remainders, and a table of the powers of two up to 2^32, since the provers know none.

`SPMultiProofs` proves, with `tlapm`, for every `ImmMod`, `Height`, set of images and ALU:

* `PortExclusive` (`Spec => []NoConflict`). The lemma `RequestsNeverCollide` holds in *every* state: `DmaOn` is false
  exactly where `Reads` or `Writes` have a request of the control. So no clock gets the verdict `conflict`, and the
  invariant only has to carry that `sim` never became `conflict`.
* `PortFresh` (`Spec => []DataoutFresh`). The property is inductive as it stands, because its third conjunct also says
  that a sample is never put off (`DmaOn`). The step is carried by `LookAhead`, that `NextCtl` and `NextOpcode`, on which
  the DMA bases its decision, are what the clock will store, and by three lemmas that the memory phase serves the
  one request there is.
* `AlwaysWordPerInstruction` (`Spec => WordPerInstruction`), for an `AluClosed` ALU. The measure `DmaClocks` is six clocks for each
  word behind the one under way, with a count of 0 for all of `WordMod`, and for that one the clocks that its DMA state
  needs at most from the present control state (`Deadline`). A load takes the port in EXEC0, a store in EXEC1 and the
  fetch in FETCH0; the proof is that of every six clocks enough are left, so that the safety part of "a transfer ends"
  holds with a bound and needs no fairness but that of the clock.
* `SixClocksAlways` (`Spec => []SixClocks`), for a `CycleMod` that is a multiple of six. Inductive together with the
  ranges of the counter and of the control state; `CountBySix` is the arithmetic.
* `TypeCorrect` (`Spec => []TypeOK`), for an ALU whose results are words (`AluClosed`, a hypothesis of the theorem and
  not an assumption of the module). The lemmas of `SPIsaProofs` give the ranges of fields, operands and of `Wrap`;
  `ClockTypes` uses the verdict `run` to know that a request is inside the memory.
* `TransferAlwaysUndisturbed` (`Spec => TransferUndisturbed`), for an `AluClosed` ALU and a height that is a word. It takes
  `PortFresh` for the words sampled, and that neither the target address nor the count wraps: an address that is
  written is inside the memory, and a count that starts at 0 goes below it by no more than the address has gone up (`Counted`).

* `MultiImplementsArch` (`Spec => ArchSpec`), for an `AluClosed` ALU. Every clock is a step of `SPArch` or a stutter, for the
  control and for the DMA together. It takes `TypeOK`, `DataoutFresh`, and `Carried`: what the registers of each control
  state still hold of the instruction under way, although the DMA works on the memory meanwhile.
* `MultiAgreesWithIss` (`IssMultiSpec => IssAgrees`) and `MultiTracesAgree` (`... => TraceAgrees`), under `SpWords`. The proof
  goes over `Own`, which is `SPIss` with the processor's own ALU: six clocks are a step of it in any case, and that step is one
  of `iss.c` if `SignBlind` holds (`SameResult`, `IssStep`). `IssInv` says that a
  comparable program has no transfer under way and has in its registers the instruction that `iss.c` decoded at its pc;
  `PlainNext`, that it goes on where `iss.c` has decoded. The proof found that comparing the program with its text at
  each moment is not enough: one that replaces an instruction by DMA, runs it and puts it back has a transfer that
  `iss.c` does not know. Hence `intact`.
* `MultMultiplies` (`IssMultiSpec => []Multiplies`): the program `mult.c`, loaded at 0, with any two operands and any place for
  them behind it, in any memory and next to any other content, leaves their product, as a word, in the dump. It is proved
  of the machine and not of a text: the lemmas under `MultiAgreesWithIss` let each instruction be looked at as one step of `Own`
  (`MultInv` carries that the program stays comparable), `MultAt` says what registers and memory hold in front of each of
  the sixteen instructions, and the invariant of the loop is that R2 plus R5 times the bits of R6 still to come is the
  product, modulo the word. It supposes the ALU of `sp.c` (`IsSpAlu`), that `&` with 1 is the lowest bit (`LowBit`), shifts by
  1 (`ShiftMod > 1`) and addresses that fit into immediates (`Height <= ImmMod`); in the code shifts are modulo 32 and the
  last two are both 2^16. That the loop ends is not part of it.

`SPPipeProofs` proves of the pipeline, for every `ImmMod`, `Height`, set of images and ALU, of programs that keep the
rules of section 4 and of programs that do not:

* `FrontAlwaysInStep` (`Spec => []FrontInStep`). Together with the fact that the flags it speaks of are Booleans it is
  inductive (`FrontInv`). It is the core of what follows: where a stage is active, the stages before it are in the
  only states the end of the clock can cope with.
* `PortsExclusive` (`Spec => []NoConflict`). For the data memory `DataRequestsNeverCollide` needs no invariant, as
  `DmaEnable` looks at the same opcode as the load and the store. For the instruction memory it takes `FrontInv`: only
  because a stall has stopped `fetch0` may dec0 repeat a read when it ends (`OneFetch`).
* `R0AlwaysZero` (`Spec => []R0Zero`), for an ALU with `Alu(ADD, 0, 0, 0) = 0`. dec0 lets two kinds of instructions pass
  (`SparesR0`), and the invariant carries that through dec1, exec0 and exec1; the word 0, which is the nop of the end of a
  stall and passes though it writes register 0, has operands and a result of zero at each of them (`R0Inv`).
* `PipeTypeCorrect` (`Spec => []TypeOK`), for an `AluClosed` ALU and a height that is a word. `TypeOK` is not inductive: it
  takes that every instruction that has passed `fetch0` came from inside the memory (`PcInv`), since otherwise
  `fetch0_pc` could count up for ever and a jump could save an address that is no word. `RequestsInMemory` gets it from the
  assertion of the memory, and `FrontInv` makes sure that a stage that moves on did pass one.
* `PipePortFresh` and `PipeWordAtPc` (`Spec => []PortFresh`, `Spec => []WordAtPc`), under the same hypotheses. `FreshInv`
  needs both: dec0's word is the word at its pc because `fetch1` found its own on the port (`FetchFresh`), also when
  the stall dropped it and dec0 had it read again.

`SPPipeRuleProofs` proves what an execution gets for keeping a rule, each theorem from the rules it needs:

* `BusyWhileWritten` (`DestinationKept` gives `BusyHasWriter`): a marked register has a writer that will free it. It is
  inductive, as a mark moves on with its instruction.
* `OperandsAlwaysFresh` (`WriteKept` gives `OperandsFresh`). `ScoreInv`: the destinations of the three stages behind dec0 are
  busy and differ, no instruction behind dec0 reads one of them from an older one, and behind a jump that is predicted
  to be taken, which may write register 7, the pipeline is empty.
* `FillsWithoutStall` (`DestinationKept` gives `FillKept`), `StallAlwaysKeepsPlace` (`FillKept` and `JumpKept` give
  `StallKeepsPlace`): `PlaceInv` has the distances between the pcs of fetch0, fetch1 and dec0, in a stall, too.
* `WrongPathAlwaysHarmless` (from `StoreKept`), that a misprediction throws away nothing that has had an effect.
* `NeverOverruns` (`DmaKept` gives `NoOverrun`). `CountInv`: the parity of the count says whether a word waits to be written, and a
  sample is under way only while two words are left.
* `TransferInStep` and `TransferKeepsRate` (`PairKept` gives `DmaInStep` and `DmaRate`), for transfers of any length. `PairKept` is the
  part of `DmaKept` that matters to them: no load or store comes into the clock in which one word of a pair is sampled
  and the other one is written. Then twice the count less the words in flight goes down by one in each clock that exec0
  leaves the port to the DMA.

`SPPipeIssProofs` proves that such executions are those of `iss.c`:

* `RetiresInOrder` (`FillKept`, `JumpKept` and `ZeroKept` give `RetireInOrder`). `ChainInv`: each stage holds the instruction
  that follows the one in the stage ahead, as the predictor sees it, or the nop of a stall; the first one is `due`.
* `PipeImplementsIss` and `TracesAgree` (`IssPipeSpec /\ []Kept => IssAgrees`, `... => TraceAgrees`), under `SpWords`.
  `EffectInv` adds that the instruction in exec1 has its result, and that the memory is ahead of the retired stores by the one
  in exec1. `AlikeImplementsIss`: if `SignsKept` holds in every clock, the execution is one of `iss.c` to the end (`IssSpec`).
* `TextKeepsRules`, `DisciplinedRunsWell`, `PortableRunsAlike`: a program whose *text* keeps the rules (`Disciplined`) keeps
  them in every clock, so that all of the above holds of it without a hypothesis about its execution; one without LHI,
  DMA and POL (`Portable`) does what `iss.c` does and has its trace, as far as `alike`. `SignFreeRunsAlike`: one without RSF, JLT and
  JLE as well (`SignFree`) does so to the end. `TextInv` puts the invariants above together: `ChainInv`
  locates every stage in the program or in the three zero words behind it, each stage in the `Shadow` of those ahead, and
  so the rules about words become rules about stages; these in turn keep `ChainInv`. The proof found `JumpRule` too weak
  as it was: it excepted register 1, for which a jump that uses its immediate does wait.
* `DisciplinedRetiresSoon` (`Disciplined` gives `RetiresSoon`). `ToRetire` counts the stages the oldest instruction still has to
  pass. That a stall does not add to it takes the invariants of the rules: what dec0 waits for is in front of it and
  retires first, so that the measure is then about another instruction.
* `DisciplinedEndsWell` (`Disciplined` and `[]AccessKept` give `[]EndsWell`): the program ends with HLT or not at all. No fetch
  leaves the memory, on the wrong path and behind HLT included, and no two requests meet; what is left to the program is
  `AccessKept`, its own accesses and those of its transfers. `DirectEndsWell` has no such hypothesis: in a program whose
  loads and stores have their addresses as immediates and which starts no transfer (`Direct`), `AccessKept` is true,
  because register 1 as an operand is the immediate of the instruction itself.

`SPRtlProofs` proves of the Verilog processor, for every word size, memory, program and ALU:

* `RtlOneUser` (`Spec => []OneUser`): the wires alone exclude two users, in every state (`WiresExclude`).
* `RtlDoFresh` (`Spec => []DoFresh`). `dma_enable_next` is right about `dma_enable` in the next clock (`LookAhead`), so that a
  word the DMA asked for is sampled before anyone else uses the port; a clock with an address and no write
  reads that address (`DrivenRead`).
* `RtlImplementsArch` (`Spec /\ []CommonGround => ArchSpec`). The mapping is that of lab2, so that the two processors
  implement one specification. `CommonGround` is a rule about executions (addresses and transferred words of 16 bits, no
  wrapped pc, transfers of at least one word): the lab4 machine has registers of 16 bits where lab2 has ints, and outside
  of it they differ (`MCSPRtlWide`). `MCSPRtl` checks that its programs keep it.
* `RtlWordPerInstruction` (`Spec => WordPerInstruction`, for `ImmMod > 1`): the same measure as in lab2 decreases, for every
  program and without `CommonGround`.
* `AlwaysAluCommonGround` (`Spec => []AluCommonGround`), for words of any width up to 32: on the operands of any execution the
  three ALUs agree, but for the cases that `AluCommonGround` excepts. `alu.v` shifts everything out where the two others
  take the amount modulo the word, and a signed comparison or shift is an unsigned one where no sign is involved; the
  bitwise operators drop out, as all three apply the same ones to the same numbers.

`LLSimProofs` proves of the simulator, for every number, order and height of memories, every program file and units that
make any number of calls in any order:

* `AtomicClock` (`Spec => ServedAsPosted`): the step that completes a clock is `LLSimMem!Clock` on what the unit has posted,
  and `LLSimMem!Verdict` is `run`. This is what lets the processor models take a clock for one step. The invariant
  follows a request from the call to the memory: a memory that has not been served holds exactly what was posted
  (`Waiting`), one that has been served shows its effect (`Served`), and outside of a clock nothing is pending (`Between`).
* `AlwaysStartsClean` (`Spec => []StartsClean`). `Clean` follows loading and reset; `Placed` is what a memory holds when some
  of the words have been placed, each with the word behind it overwritten by its sign.
* `Justified` (`Spec => []ExitsJustified`), from the same invariant: at the moment of an early exit the reason is among
  the calls of that clock (`Exits`).

`Lab3Proofs` proves of the circuits:

* `Add4Adds` and `AddSubComputes`: the chain of full adders is integer addition, with its carry, and `addsub` adds and
  subtracts modulo 16, for every pair of buses (`FullAdderAdds`, `BusFromValue`).
* `CounterSaturates` (`Spec => CounterSpec`): the counter implements `SatCountSpec`, for every width `N`, because a step of
  `addsub` away from an end is a step of a number (`PlusMinusOne`). That a branch does move it, which a specification without
  the inputs cannot say, is `PredictorLearns`.
* `PredictorLearns` (`Spec => []Trained`), for every `N`. The invariant (`LearnInv`) says how far the counter has come: it is at
  least `streak` above 0, or below the maximum, on the side of the last outcome.
* `ParityAlwaysRight` (`Spec => []ParityOfInputs`), for every sequence of inputs.
* `FramesComplete` (`Spec => FramesSpec`): the deserialiser implements `DesSpec`, for every `WIDTH` from 2 to 32 (a parameter in
  the code, 8 by default). `DesInv`: `timer` is 0 or a power of two, and `Received`, which is read off it, says how many
  bits of `out_next` belong to the frame. A bit that comes in moves each digit up by one place (`Shifted`). The powers of two
  come from a table, and what follows from one power to the next is taken in 32 steps (`PowersDivide`), as the
  provers have no induction; hence the 32. `DesSpec` describes the number that is shown by its digits; the lemma
  `FrameHasOneWord` says that there is only one such number, so that nothing is left open but what the bits and resets are.

They rest on `LLSimAssumption`, `SatCountAssumption` and `DesAssumption` (ranges of the constants), which TLC evaluates in
`MCLLSim` and `MCLab3`; those of the processors on `ImmModAssumption` (`ImmMod` is a positive natural number) and on `MultiAssumption` and `PipeAssumption` (a
memory of at least one word, images of words), which TLC evaluates in the runs of `MCSPMulti` and `MCSPPipe`, and those
about the ALUs on `AluAssumption` (words of at most 32 bits, immediates and shifts within them), evaluated there, too.

Only model-checked:

* `TestsPass`: that the test programs come to their end, and with the right results but for `mult` on lab2. Their
  end is liveness; the tables and transfers of the others are a recursion over their length.
* `KeepsRules`: that `mult`, `mult_table` and the programs of `MCSPPipeDma` keep the rules about executions. It is a statement
  about these programs; for those that keep the rules in their text it is `TextKeepsRules`. Likewise `EndsWell` for programs
  that are not `Direct`, and that the programs of `MCSPRtl` stay on `CommonGround`.
* `DmaEnds`, for ENABLED. Its safety part, that the DMA advances whenever it has the port, is `DmaRate`; what remains is that
  the program leaves the port free often enough. (`KeepsRetiring` is refuted by `MCSPPipeDestination` and otherwise replaced by `RetiresSoon`.)

## 6. Not modelled

The wording and layout of traces and the cycle traces (output that nothing reads back); `llsim_register_*` and
`llsim_find_unit` in `llsim.c` (lists built before the first clock that a run does not read, and `llsim_init_reset_values`
sets only what is 0 already); bit fields other than 31..0 of the memory interface, which no unit uses; the files that
cannot be opened and the parameter checks of `main`; the text the assembler prints and the loader scans, beyond words
and "no word". In `LLSim` memories have one unit, as in every lab, and the word behind a memory stands for the heap that
the injection of the last word touches. The trace of lab4 and its reset before the start; the test benches, whose
stimuli the free inputs of the models include.

## 7. Plan

Done in this order: `SPIsa`, `LLSimMem`, `SPMulti` with its properties and first proofs; `SPArch` and the refinement;
`SPPipe`; `SPIss` and the pipeline against it, which led to `SPPipeRules`; `SPRtl` and its refinement; the proofs for the
pipeline that hold for every program; `LLSim` and the proof that its clock is atomic; `SPMulti` against `SPIss`, the
traces, the test programs on all simulators, the three ALUs; the circuits of `lab3` with their proofs.

Then the proofs: both refinements of `SPArch`, the multi-cycle machine and the pipeline against `SPIss`, the pipeline's rules
and that a program's text is enough to keep them, loading and reset, parity.

Last: the measures that bring a transfer and the oldest instruction nearer to their ends (`WordPerInstruction`, `DmaRate`,
`RetiresSoon`), the ALUs of the code in place of the parameter `Alu`, `EndsWell`, `mult.c` for all operands, and the
deserialiser.

Next: the rest of `CommonGround` from the text of a program, as for the pipeline; weaker rules that `mult` and
`mult_table` keep by their text, with the mispredictions that save them, and then `Multiplies` for the pipeline;
`mult_table`, with `MultAt` for its inner loop.
