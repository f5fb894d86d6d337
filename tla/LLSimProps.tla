----------------------------- MODULE LLSimProps -----------------------------
(***************************************************************************)
(* What the processor models take for granted of the simulator: a clock is *)
(* atomic and its memory phase is LLSimMem!Clock, the assertions fire when *)
(* LLSimMem!Verdict says so, and the processor starts from cleared         *)
(* registers and the program's image.                                      *)
(***************************************************************************)
EXTENDS LLSim

\* The memories as a processor model sees them: within a clock, as they were
\* when it began.
Shown == IF phase \in {"run", "serve"} THEN before ELSE mem
Seen(m) == INSTANCE LLSimMem WITH data <- Shown[m].data, dataout <- Shown[m].dataout

\* A clock that is completed has served every call of the unit, once, and
\* nothing else, whatever the order of the calls and of the memories; so the
\* call-by-call llsim_run_clock implements the one step of LLSimMem.
ServedAsPosted ==
    [][clock' # clock =>
         \A m \in Mems :
            /\ Seen(m)!Verdict(posted[m].rd, posted[m].wr) = "run"
            /\ Seen(m)!Clock(posted[m].rd, posted[m].wr)]_vars

\* The program ends early only for calls that LLSimMem says it must not
\* survive, and for the reason it gives: two accesses of one memory, an address
\* at or above its height, a negative address that no assertion looks at.
ExitsJustified ==
    /\ sim = "conflict" => \E m \in Mems : Seen(m)!Conflict(posted[m].rd, posted[m].wr)
    /\ sim = "range" => \E m \in Mems : Seen(m)!OutOfRange(posted[m].rd, posted[m].wr)
    /\ sim = "undefined" => \E m \in Mems : Seen(m)!Wild(posted[m].rd, posted[m].wr)

\* The loader places the program's words, and although it writes 64 bits for
\* each of them it changes nothing else in a memory but the word behind the
\* image, which becomes -1 when the last word of the program is negative.
Loaded(a) ==
    IF a < Size(file) THEN MemoryImage(file, a)
    ELSE IF a = Size(file) /\ MemoryImage(file, a - 1) < 0 THEN -1
    ELSE 0

\* When the unit runs for the first time, every memory holds the loaded image,
\* its output is 0xBAADBAAD and the registers are 0 on both sides: the
\* state in which the processor models begin.
StartsClean ==
    clock = 5 /\ phase = "idle" =>
        /\ old = 0 /\ new = 0
        /\ \A m \in Mems :
              /\ mem[m].dataout = Baad
              /\ \A a \in Address : mem[m].data[a] = Loaded(a)
=============================================================================
