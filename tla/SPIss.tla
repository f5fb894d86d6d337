------------------------------- MODULE SPIss -------------------------------
(***************************************************************************)
(* The instruction-set simulator lab1/iss.c: one instruction per step, no  *)
(* clocks, no DMA.  It decodes the program once, before the first step, up *)
(* to the first HLT, so it never sees code that a program writes, and an   *)
(* instruction behind the first HLT is the zero word, ADD 0, 0, 0.         *)
(***************************************************************************)
EXTENDS SPIsa

CONSTANT Height  \* MEM_SIZE

VARIABLES REG,    \* REG[1] is overwritten with the immediate before every use: it stays 0
          MEM,
          insts,  \* the decoded instructions, kept as words
          pc,
          n,      \* the words of the program file
          dump,   \* the n words at the end, <<>> before HLT
          sim

vars == <<REG, MEM, insts, pc, n, dump, sim>>

Address == 0 .. Height - 1

inst == insts[pc]
op   == Opcode(inst)

a == Operand(REG, Src0(inst), Imm(inst))
b == Operand(REG, Src1(inst), Imm(inst))

Put(d, v) == IF d = 1 THEN REG ELSE [REG EXCEPT ![d] = v]

Init ==
    /\ REG = [i \in RegId |-> 0]
    /\ MEM \in [Address -> Word]
    /\ n \in 0 .. Height /\ \A p \in n .. Height - 1 : MEM[p] = 0
    /\ insts = Decode(MEM, Height)
    /\ pc = 0
    /\ dump = <<>>
    /\ sim = "running"

Running == sim = "running" /\ pc \in Address

\* The operand LHI adds to is its destination register.
Compute ==
    /\ op \in AluOps
    /\ LET x == IF op = LHI THEN Operand(REG, Dst(inst), Imm(inst)) ELSE a
       IN  REG' = Put(Dst(inst), Alu(op, x, b, Imm(inst)))
    /\ pc' = pc + 1
    /\ UNCHANGED <<MEM, dump, sim>>

Load ==
    /\ op = LD /\ b \in Address
    /\ REG' = Put(Dst(inst), MEM[b])
    /\ pc' = pc + 1
    /\ UNCHANGED <<MEM, dump, sim>>

Store ==
    /\ op = ST /\ b \in Address
    /\ MEM' = [MEM EXCEPT ![b] = a]
    /\ pc' = pc + 1
    /\ UNCHANGED <<REG, dump, sim>>

Jump ==
    /\ op \in JumpOps
    /\ IF Alu(op, a, b, Imm(inst)) # 0
       THEN REG' = Put(7, pc) /\ pc' = Imm(inst)
       ELSE REG' = REG /\ pc' = pc + 1
    /\ UNCHANGED <<MEM, dump, sim>>

\* DMA and POL are not instructions of this simulator.
Unknown ==
    /\ op \notin Opcodes \ {DMA, POL}
    /\ pc' = pc + 1
    /\ UNCHANGED <<REG, MEM, dump, sim>>

Halt ==
    /\ op = HLT
    /\ dump' = [p \in 0 .. n - 1 |-> MEM[p]]
    /\ sim' = "stopped"
    /\ UNCHANGED <<REG, MEM, pc>>

\* A pc or an address outside the arrays, which nothing checks.
Wild ==
    /\ sim = "running"
    /\ pc \in Address => op \in {LD, ST} /\ b \notin Address
    /\ sim' = "undefined"
    /\ UNCHANGED <<REG, MEM, pc, dump>>

\* What the trace says of the instruction that a step executes: where it is,
\* the registers before it, and what its EXEC line shows after it.
TraceLine ==
    [pc |-> pc, inst |-> inst, regs |-> [REG EXCEPT ![1] = Imm(inst)],
     exec |-> IF op \in AluOps
              THEN <<Dst(inst), Alu(op, IF op = LHI THEN Operand(REG, Dst(inst), Imm(inst)) ELSE a,
                                    b, Imm(inst))>>
              ELSE IF op = LD THEN <<Dst(inst), b, MEM'[b]>>
              ELSE IF op = ST THEN <<b, MEM'[b]>>
              ELSE IF op \in JumpOps THEN <<a, b, pc'>>
              ELSE IF op = HLT THEN <<pc'>>
              ELSE <<>>]

Next ==
    /\ \/ Running /\ (Compute \/ Load \/ Store \/ Jump \/ Unknown \/ Halt)
       \/ Wild
    /\ UNCHANGED <<insts, n>>

Spec == Init /\ [][Next]_vars
=============================================================================
