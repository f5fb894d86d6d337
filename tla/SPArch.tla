------------------------------- MODULE SPArch -------------------------------
(***************************************************************************)
(* What a programmer of the SP sees: instructions that execute one at a    *)
(* time, atomically, on a register file and a memory, and a DMA engine     *)
(* that moves the words of a transfer one by one while the program goes on.*)
(* No clocks, no pipeline registers, no arbitration.                       *)
(*                                                                         *)
(* What an instruction does is taken from the control machine of           *)
(* lab2/sp.c, which SPMulti models clock by clock and which implements     *)
(* this specification.                                                     *)
(***************************************************************************)
EXTENDS SPIsa

CONSTANT Height  \* words of the memory

VARIABLES r,         \* registers; r[1] is never read and stays 0
          pc,
          fetched,   \* an instruction word has been fetched into ir
          ir,
          mem,
          dump,      \* the memory as HLT dumped it, <<>> before
          active,    \* a transfer is under way
          from, to,  \* its next source and destination address
          left,      \* words left, what POL returns
          full, buf, \* a word has been picked up and not yet put down
          status     \* running, stopped by HLT or failed

dma  == <<active, from, to, left, full, buf>>
cpu  == <<r, pc, fetched, ir, dump, status>>
vars == <<cpu, mem, dma>>

Address == 0 .. Height - 1

Init ==
    /\ r = [i \in RegId |-> 0]
    /\ pc = 0
    /\ fetched = FALSE /\ ir = 0
    /\ mem \in [Address -> Word]
    /\ dump = <<>>
    /\ active = FALSE /\ from = 0 /\ to = 0 /\ left = 0
    /\ full = FALSE /\ buf = 0
    /\ status = "running"
-----------------------------------------------------------------------------
op == Opcode(ir)
x  == Operand0(r, ir)
y  == Operand1(r, ir)

Set(d, v) == IF d = 1 THEN r ELSE [r EXCEPT ![d] = v]

\* The instruction word is fetched before the instruction executes, so a store
\* or a transfer into that word comes too late.
Fetch ==
    /\ ~fetched /\ pc \in Address
    /\ ir' = mem[pc]
    /\ fetched' = TRUE
    /\ UNCHANGED <<r, pc, dump, status>>

\* Executing takes the next instruction in sequence, unless a jump says otherwise.
Retire(regs, next) ==
    /\ fetched
    /\ fetched' = FALSE /\ ir' = 0
    /\ r' = regs
    /\ pc' = next
    /\ UNCHANGED <<dump, status>>

Compute == op \in AluOps /\ Retire(Set(Dst(ir), Alu(op, x, y, Imm(ir))), Wrap(pc + 1))

Load == op = LD /\ y \in Address /\ Retire(Set(Dst(ir), mem[y]), Wrap(pc + 1))

Poll == op = POL /\ Retire(Set(Dst(ir), left), Wrap(pc + 1))

Jump ==
    /\ op \in JumpOps
    /\ IF Alu(op, x, y, Imm(ir)) # 0
       THEN Retire(Set(7, pc), Imm(ir))
       ELSE Retire(r, Wrap(pc + 1))

\* Not an opcode: nothing happens.  A transfer requested during another one is
\* dropped as well.
Skip ==
    /\ op \notin Opcodes \/ (op = DMA /\ active)
    /\ Retire(r, Wrap(pc + 1))

\* HLT dumps the memory and stops everything, a transfer under way too.
Halt ==
    /\ fetched /\ op = HLT
    /\ dump' = mem
    /\ status' = "stopped"
    /\ fetched' = FALSE /\ ir' = 0
    /\ pc' = Wrap(pc + 1)
    /\ UNCHANGED r

Store ==
    /\ op = ST /\ y \in Address
    /\ Retire(r, Wrap(pc + 1))
    /\ mem' = [mem EXCEPT ![y] = x]
    /\ UNCHANGED dma

StartDma ==
    /\ op = DMA /\ ~active
    /\ Retire(r, Wrap(pc + 1))
    /\ active' = TRUE
    /\ from' = x /\ to' = y /\ left' = Imm(ir)
    /\ UNCHANGED <<full, buf, mem>>
-----------------------------------------------------------------------------
Pick ==
    /\ active /\ ~full /\ from \in Address
    /\ full' = TRUE
    /\ buf' = mem[from]
    /\ from' = Wrap(from + 1)
    /\ UNCHANGED <<active, to, left, mem>>

\* The transfer ends when the last word has been put; the count is compared
\* with 1, so a transfer of 0 words does not end.
Put ==
    /\ active /\ full /\ to \in Address
    /\ mem' = [mem EXCEPT ![to] = buf]
    /\ full' = FALSE /\ buf' = 0
    /\ to' = Wrap(to + 1)
    /\ left' = Wrap(left - 1)
    /\ active' = (left # 1)
    /\ UNCHANGED from

\* Processor and engine run side by side; one store or put happens at a time.
Step ==
    \/ StartDma
    \/ Store
    \/ /\ Fetch \/ Compute \/ Load \/ Poll \/ Jump \/ Skip \/ Halt \/ UNCHANGED cpu
       /\ Pick \/ Put \/ UNCHANGED <<mem, dma>>

\* An access outside the memory: the next fetch, the operand of a load or a
\* store, the next word of a transfer.  A negative address has no defined
\* effect; an address past the end fails an assertion.
Accesses ==
    (IF ~fetched THEN {pc} ELSE IF op \in {LD, ST} THEN {y} ELSE {})
      \cup (IF ~active THEN {} ELSE IF full THEN {to} ELSE {from})

Fail ==
    /\ \/ status' = "range" /\ \E a \in Accesses : a >= Height
       \/ status' = "undefined" /\ \E a \in Accesses : a < 0
    /\ \/ UNCHANGED dump
       \/ fetched /\ op = HLT /\ dump' = mem
    /\ UNCHANGED <<r, pc, fetched, ir, mem, dma>>

Next == status = "running" /\ (Step \/ Fail)

Spec == Init /\ [][Next]_vars
=============================================================================
