------------------------------ MODULE LLSimMem ------------------------------
(***************************************************************************)
(* A single-ported memory of the low-level simulator (lab2/llsim.c; the    *)
(* memory functions of lab5/llsim.c are the same).  During a clock the     *)
(* unit posts requests: rd is the set of its llsim_mem_read calls, records *)
(* [by, addr], and wr the set of its llsim_mem_write calls, records        *)
(* [by, addr, val] that carry the datain set before the call.  After the   *)
(* unit has run, llsim_run_clock serves them.                              *)
(***************************************************************************)
EXTENDS Integers

CONSTANTS Height,  \* number of words, 64K in the code
          Baad     \* dataout after a clock without an access, 0xBAADBAAD

VARIABLES data, dataout

Address == 0 .. Height - 1

\* The assertions on the number of accesses in one clock.
Conflict(rd, wr) ==
    \/ \E p, q \in rd : p # q
    \/ \E p, q \in wr : p # q
    \/ rd # {} /\ wr # {}

\* The assertion compares the signed address with the height only from above.
OutOfRange(rd, wr) == \E q \in rd \cup wr : q.addr >= Height

\* A negative address passes the assertion and indexes outside the array.
Wild(rd, wr) == \E q \in rd \cup wr : q.addr < 0

\* What becomes of the program in this clock: it runs on, an assertion ends it,
\* or its behaviour is undefined.
Verdict(rd, wr) ==
    IF Conflict(rd, wr) THEN "conflict"
    ELSE IF OutOfRange(rd, wr) THEN "range"
    ELSE IF Wild(rd, wr) THEN "undefined"
    ELSE "run"

\* The memory phase of llsim_run_clock, for a clock whose verdict is "run".
Clock(rd, wr) ==
    \/ rd = {} /\ wr = {} /\ dataout' = Baad /\ UNCHANGED data
    \/ \E q \in rd : wr = {} /\ dataout' = data[q.addr] /\ UNCHANGED data
    \/ \E w \in wr : rd = {} /\ data' = [data EXCEPT ![w.addr] = w.val] /\ UNCHANGED dataout
=============================================================================
