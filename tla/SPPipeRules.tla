---------------------------- MODULE SPPipeRules ----------------------------
(***************************************************************************)
(* The rules under which a program runs on the pipelined processor as it   *)
(* does on the instruction-set simulator.  The code does not state them:   *)
(* they are what the second group of SPPipeProps and the properties of     *)
(* SPPipeIss need; MCSPPipeNoRule has programs against four of them.       *)
(* A program is the memory m up to its first HLT, at address h.            *)
(***************************************************************************)
EXTENDS SPPipeProps

Succ(m, k) == {k + 1} \cup (IF Opcode(m[k]) \in JumpOps THEN {Imm(m[k])} ELSE {})

\* The instructions that may follow k within three steps.
Shadow(m, k) ==
    LET one == Succ(m, k)
        two == UNION {Succ(m, s) : s \in one}
    IN  one \cup two \cup UNION {Succ(m, s) : s \in two}

Writes(i) == Opcode(i) \in Writers

\* The registers an instruction waits for; register 1, where its immediate is,
\* is one of them.
Waits(i) == {Src0(i), Src1(i)} \ {0}

\* The program ends at h: no jump leads behind its HLT, which waits for nothing,
\* there is no zero word before and nothing but zero words in the three clocks
\* of prefetch behind it.
Ends(m, h) ==
    /\ Opcode(m[h]) = HLT /\ Waits(m[h]) = {} /\ h + 5 < Height
    /\ \A k \in 0 .. h - 1 :
          /\ m[k] # 0 /\ Opcode(m[k]) # HLT
          /\ Opcode(m[k]) \in JumpOps => Imm(m[k]) <= h
    /\ \A k \in h + 1 .. h + 3 : m[k] = 0

\* Only instructions that write a register name a destination.
DestinationRule(m, h) == \A k \in 0 .. h : Writes(m[k]) \/ Dst(m[k]) = 0

\* A register is not written again while an earlier write is in the pipeline,
\* unless the second instruction reads it too and so waits for the first.
WriteRule(m, h) ==
    \A k \in 0 .. h : \A s \in Shadow(m, k) :
        Writes(m[k]) /\ Writes(m[s]) /\ Dst(m[k]) = Dst(m[s])
            => Dst(m[s]) \in {0} \cup Waits(m[s])

\* A jump does not wait for its operands.
JumpRule(m, h) ==
    \A k \in 0 .. h : \A s \in Shadow(m, k) :
        Writes(m[k]) /\ Opcode(m[s]) \in JumpOps => Dst(m[k]) \notin Waits(m[s])

\* Behind a jump there is no store and no transfer.
StoreRule(m, h) ==
    \A k \in 0 .. h : Opcode(m[k]) \in JumpOps => Opcode(m[k + 1]) \notin {ST, DMA}

\* While a transfer is under way there is no load and no store, and a transfer
\* has an even number of words.
DmaRule(m, h) ==
    \A k \in 0 .. h : Opcode(m[k]) = DMA =>
        /\ Imm(m[k]) % 2 = 0
        /\ \A s \in 0 .. h : Opcode(m[s]) \notin {LD, ST}

DisciplinedTo(m, h) ==
    /\ Ends(m, h)
    /\ StoreRule(m, h) /\ DestinationRule(m, h) /\ JumpRule(m, h)
    /\ WriteRule(m, h) /\ DmaRule(m, h)

Disciplined(m) == \E h \in 0 .. Height - 1 : DisciplinedTo(m, h)

\* A disciplined program of instructions that the instruction-set simulator has,
\* with the same operands.  It still compares and shifts without sign.
CommonRule(m, h) == \A k \in 0 .. h : Opcode(m[k]) \notin {LHI, DMA, POL}

Portable(m) == \E h \in 0 .. Height - 1 : DisciplinedTo(m, h) /\ CommonRule(m, h)

\* A portable program without the instructions to which the sign of a word matters.
SignRule(m, h) == \A k \in 0 .. h : Opcode(m[k]) \notin {RSF, JLT, JLE}

SignFree(m) ==
    \E h \in 0 .. Height - 1 : DisciplinedTo(m, h) /\ CommonRule(m, h) /\ SignRule(m, h)

\* A disciplined program without transfers that loads and stores at addresses of
\* its text only, all in the memory, and has nothing that dec0 takes for a write
\* to register 0.
DirectRule(m, h) ==
    \A k \in 0 .. h :
        /\ Dst(m[k]) # 0 \/ Opcode(m[k]) \in JumpOps \cup {ST, HLT}
        /\ Opcode(m[k]) \in {LD, ST} => Src1(m[k]) = 1 /\ Imm(m[k]) < Height
        /\ Opcode(m[k]) # DMA

Direct(m) == \E h \in 0 .. Height - 1 : DisciplinedTo(m, h) /\ DirectRule(m, h)

-----------------------------------------------------------------------------
(***************************************************************************)
(* The same rules as an execution keeps them, clock by clock, whatever the *)
(* text of the program is: about the instruction that dec0 issues or holds *)
(* back, and about the transfer under way.  Programs may keep them without *)
(* the text rules: mult.c and mult_table.c break JumpRule, WriteRule and   *)
(* DestinationRule, but keep JumpKept, WriteKept and FillKept.             *)
(***************************************************************************)
DestinationKept == Issues => Writes(dec0.inst) \/ Dst(dec0.inst) = 0

\* No register is to be written by two instructions in the pipeline.
WriteKept ==
    Issues /\ Writes(dec0.inst) /\ Dst(dec0.inst) # 0 =>
        \A s \in {dec1, exec0, exec1} :
            s.active /\ Writes(s.inst) => Dst(s.inst) # Dst(dec0.inst)

\* No jump waits that is predicted to be taken.
JumpKept == Stalled => ~Predicted

\* Nothing waits in a pipeline that fills, while fetch0 steps by itself.
\* DestinationKept is enough for it.
FillKept == start => ~Stalled

StoreKept ==
    Issues /\ dec1.active /\ Opcode(dec1.inst) \in JumpOps => Opcode(dec0.inst) \notin {ST, DMA}

DmaKept ==
    /\ dma_cnt > 0 \/ dma_sample_active \/ dma_write_active => DmaEnable
    /\ DmaStarts => Imm(exec0.inst) % 2 = 0

\* No load or store comes into the clock in which one word of a pair is sampled
\* and the other is written: part of DmaKept, and what keeps every word.
PairKept == dma_sample_active /\ dma_write_active => DmaEnable

\* A program whose text keeps the rules keeps them in every clock, on the wrong
\* path behind a mispredicted jump and in the prefetch behind HLT, too.
RulesKept ==
    DestinationKept /\ WriteKept /\ JumpKept /\ FillKept /\ StoreKept /\ DmaKept

(***************************************************************************)
(* What it takes besides to run as on lab1/iss.c.                          *)
(***************************************************************************)
\* No instruction gets to exec1 that the instruction-set simulator does not
\* have, or has with another operand (LHI).  That the sign of its operands does
\* not matter is SignsKept of SPPipeIss.
CommonKept == exec0.active /\ ~Halts => Op0 \notin {LHI, DMA, POL}

\* No zero word is executed, which the pipeline would not count; the nops of
\* the stalls stand at addresses of other words.
ZeroKept == exec1.active /\ exec1.inst = 0 => srami[exec1.pc] # 0

\* No instruction is executed behind the first HLT of the memory.
FirstHaltKept == Retires => \A h \in 0 .. exec1.pc - 1 : Opcode(srami[h]) # HLT

\* The prefetch behind HLT stays in the memory.
EndKept == Halts => Verdict = "run"

\* Neither HLT waits nor the instruction behind it: it is in exec0.
HaltLineKept == Halts => exec0.active /\ exec0.pc # exec1.pc

\* dec0 refuses nothing, and loads, stores and transfers stay in the data memory.
AccessKept == ~Refused /\ \A q \in DReads \cup DWrites : q.addr \in 0 .. Height - 1

CommonRulesKept == CommonKept /\ ZeroKept /\ FirstHaltKept /\ EndKept /\ HaltLineKept

Kept == FillKept /\ JumpKept /\ WriteKept /\ StoreKept /\ CommonRulesKept
=============================================================================
