------------------------------- MODULE LLSim -------------------------------
(***************************************************************************)
(* The low-level simulator itself: main, llsim_run_clock and the memories  *)
(* of lab5/llsim.c (lab2/llsim.c differs in commented-out output only),    *)
(* call by call.  The processor models take a clock for one step and its   *)
(* memory phase from LLSimMem; here the unit makes its calls one after the *)
(* other, the memories are served one after the other, and any of these    *)
(* steps may end the program.  The unit is arbitrary: it posts requests,   *)
(* assigns registers and may stop the simulation.                          *)
(***************************************************************************)
EXTENDS Integers, Sequences

CONSTANTS Height,    \* words of a memory, SP_SRAM_HEIGHT
          Baad,      \* 0xBAADBAAD
          Words,     \* the words of program files
          Writes,    \* the words the unit writes
          Registers, \* what the unit's registers may hold, 0 included
          MemList,   \* the unit's memories in list order, the last allocated first
          Files,     \* the program files
          MaxCalls,  \* bound: calls of the unit in one clock
          MaxClock   \* bound: clocks simulated

VARIABLES file,      \* the program file: its words, and whether text follows them
          loaded,    \* words injected so far
          mem,       \* the memories, records of Memory
          old, new,  \* the unit's registers
          clock, phase, stop_sim, sim,
          serving,   \* position in MemList of the memory to serve next
          calls,     \* history: the number of calls in this clock so far
          posted,    \* history: these calls, numbered
          before     \* history: the memories after the last clock

ASSUME LLSimAssumption ==
    /\ Height \in Nat \ {0}
    /\ 0 \in Words /\ -1 \in Words /\ Words \subseteq Int /\ Writes \subseteq Int
    /\ Baad \in Int
    /\ 0 \in Registers
    /\ MemList \in Seq(STRING)
    /\ \A j, k \in 1 .. Len(MemList) : MemList[j] = MemList[k] => j = k
    /\ Files \subseteq [words : Seq(Words), text : BOOLEAN]
    /\ MaxCalls \in Nat /\ MaxClock \in Nat

Mems    == {MemList[k] : k \in 1 .. Len(MemList)}
Address == 0 .. Height - 1

\* The block of a memory ends with the word at Height - 1.  The word behind it
\* belongs to nobody; it is kept here because the loader touches it.
Block == 0 .. Height

Memory == [data : [Block -> Int], datain : Int, dataout : Int,
           read : BOOLEAN, read_addr : Int, write : BOOLEAN, write_addr : Int]

vars == <<file, loaded, mem, old, new, clock, phase, stop_sim, sim, serving, calls, posted, before>>
-----------------------------------------------------------------------------
(***************************************************************************)
(* Loading the program.                                                    *)
(***************************************************************************)
\* memory_image_size.  An empty file yields one word, 0; the scan does not get
\* past text that is no number, finds no end of file and fills the memory up.
Size(f) ==
    IF f.text \/ Len(f.words) > Height THEN Height
    ELSE IF f.words = <<>> THEN 1 ELSE Len(f.words)

MemoryImage(f, i) == IF i < Len(f.words) THEN f.words[i + 1] ELSE 0

\* llsim_mem_inject for bits 31 to 0: lrbs rewrites 64 bits, and a negative int
\* has ones in the upper half, too.
Inject(d, addr, val) ==
    [d EXCEPT ![addr] = val, ![addr + 1] = IF val < 0 THEN -1 ELSE @]

\* Faulty: the words are placed from the last to the first.
FaultyLoadWord ==
    /\ phase = "load" /\ loaded < Size(file)
    /\ mem' = LET a == Size(file) - 1 - loaded
              IN  [m \in Mems |->
                     [mem[m] EXCEPT !.data = Inject(@, a, MemoryImage(file, a))]]
    /\ loaded' = loaded + 1
    /\ UNCHANGED <<file, old, new, clock, phase, stop_sim, sim, serving, calls, posted, before>>

LoadWord ==
    /\ phase = "load" /\ loaded < Size(file)
    /\ mem' = [m \in Mems |->
                 [mem[m] EXCEPT !.data = Inject(@, loaded, MemoryImage(file, loaded))]]
    /\ loaded' = loaded + 1
    /\ UNCHANGED <<file, old, new, clock, phase, stop_sim, sim, serving, calls, posted, before>>

\* llsim_init_reset_values sets the new registers only.
InitResetValues ==
    /\ phase = "load" /\ loaded = Size(file)
    /\ new' = 0
    /\ phase' = "idle"
    /\ before' = mem
    /\ UNCHANGED <<file, loaded, mem, old, clock, stop_sim, sim, serving, calls, posted>>
-----------------------------------------------------------------------------
(***************************************************************************)
(* A clock: the unit runs, the memories are served, registers are copied.  *)
(***************************************************************************)
NoCalls == [m \in Mems |-> [rd |-> {}, wr |-> {}]]

Reset == clock < 5

\* main starts the next clock; the unit clears the requests before anything else.
BeginClock ==
    /\ phase = "idle" /\ sim = "running" /\ clock < MaxClock
    /\ phase' = IF Reset THEN "serve" ELSE "run"
    /\ IF Reset
       THEN new' = 0 /\ UNCHANGED mem
       ELSE /\ mem' = [m \in Mems |-> [mem[m] EXCEPT !.read = FALSE, !.write = FALSE]]
            /\ UNCHANGED new
    /\ serving' = 1
    /\ UNCHANGED <<file, loaded, old, clock, stop_sim, sim, calls, posted, before>>

Calling == phase = "run" /\ sim = "running" /\ calls < MaxCalls /\ calls' = calls + 1

\* An assertion ends the program in the middle of what it was doing.
Assertion(ok, verdict) == sim' = IF ok THEN sim ELSE verdict

\* llsim_mem_read.
MemRead(m, a) ==
    /\ Calling
    /\ posted' = [posted EXCEPT ![m].rd = @ \cup {[by |-> calls, addr |-> a]}]
    /\ Assertion(~mem[m].read, "conflict")
    /\ mem' = IF mem[m].read THEN mem
              ELSE [mem EXCEPT ![m].read = TRUE, ![m].read_addr = a]
    /\ UNCHANGED <<file, loaded, old, new, clock, phase, stop_sim, serving, before>>

\* llsim_mem_set_datain and llsim_mem_write; datain is set before the assertion.
MemWrite(m, a, v) ==
    /\ Calling
    /\ posted' = [posted EXCEPT ![m].wr =
                    @ \cup {[by |-> calls, addr |-> a, val |-> v]}]
    /\ Assertion(~mem[m].write, "conflict")
    /\ mem' = IF mem[m].write THEN [mem EXCEPT ![m].datain = v]
              ELSE [mem EXCEPT ![m].datain = v, ![m].write = TRUE, ![m].write_addr = a]
    /\ UNCHANGED <<file, loaded, old, new, clock, phase, stop_sim, serving, before>>

\* The unit has assigned its new registers, has perhaps called llsim_stop, and
\* returns.
UnitReturns ==
    /\ phase = "run" /\ sim = "running"
    /\ new' \in Registers
    /\ stop_sim' \in BOOLEAN
    /\ phase' = "serve"
    /\ UNCHANGED <<file, loaded, mem, old, clock, sim, serving, calls, posted, before>>

\* Faulty: the last word of a memory is out of range.
FaultyAccess(a) ==
    IF a >= Height - 1 THEN "range" ELSE IF a < 0 THEN "undefined" ELSE "running"

\* The assertion on an address compares it from above only.
Access(a) ==
    IF a >= Height THEN "range" ELSE IF a < 0 THEN "undefined" ELSE "running"

\* Faulty: a read and a write in one clock are both served.
FaultyOutcome(s) ==
    IF s.read /\ Access(s.read_addr) # "running" THEN Access(s.read_addr)
    ELSE IF s.write THEN Access(s.write_addr) ELSE "running"

\* The assertions in the order of the code: on the read, on the write, on both.
Outcome(s) ==
    IF s.read /\ Access(s.read_addr) # "running" THEN Access(s.read_addr)
    ELSE IF s.write /\ Access(s.write_addr) # "running" THEN Access(s.write_addr)
    ELSE IF s.read /\ s.write THEN "conflict"
    ELSE "running"

\* Serve one memory.
ServeMemory ==
    /\ phase = "serve" /\ sim = "running" /\ serving <= Len(MemList)
    /\ LET m == MemList[serving]
           s == mem[m]
       IN  /\ sim' = Outcome(s)
           /\ mem' = IF Outcome(s) # "running" THEN mem
                     ELSE [mem EXCEPT
                       ![m].dataout = IF s.read THEN s.data[s.read_addr]
                                      ELSE IF s.write THEN @ ELSE Baad,
                       ![m].data = IF s.write THEN [@ EXCEPT ![s.write_addr] = s.datain] ELSE @,
                       ![m].read = FALSE,
                       ![m].write = FALSE]
    /\ serving' = serving + 1
    /\ UNCHANGED <<file, loaded, old, new, clock, phase, stop_sim, calls, posted, before>>

\* The new registers become the old ones; a stop ends the program after the clock.
CopyRegisters ==
    /\ phase = "serve" /\ sim = "running" /\ serving > Len(MemList)
    /\ old' = new
    /\ clock' = clock + 1
    /\ phase' = "idle"
    /\ sim' = IF stop_sim THEN "stopped" ELSE sim
    /\ calls' = 0
    /\ posted' = NoCalls
    /\ before' = mem
    /\ UNCHANGED <<file, loaded, mem, new, stop_sim, serving>>
-----------------------------------------------------------------------------
\* llsim_malloc clears what it allocates.
Cleared == [data |-> [a \in Block |-> 0], datain |-> 0, dataout |-> 0,
            read |-> FALSE, read_addr |-> 0, write |-> FALSE, write_addr |-> 0]

Init ==
    /\ file \in Files
    /\ loaded = 0
    /\ mem = [m \in Mems |-> Cleared]
    /\ old = 0 /\ new = 0
    /\ clock = 0
    /\ phase = "load"
    /\ stop_sim = FALSE
    /\ sim = "running"
    /\ serving = 1
    /\ calls = 0
    /\ posted = NoCalls
    /\ before = mem

\* The unit's addresses: those of the memory and one on either side.
Next ==
    \/ LoadWord \/ InitResetValues \/ BeginClock
    \/ \E m \in Mems, a \in -1 .. Height : MemRead(m, a)
    \/ \E m \in Mems, a \in -1 .. Height, v \in Writes : MemWrite(m, a, v)
    \/ UnitReturns \/ ServeMemory \/ CopyRegisters

Spec == Init /\ [][Next]_vars
=============================================================================
