----------------------------- MODULE Lab3Bench -----------------------------
(***************************************************************************)
(* The clocked circuits of lab3 under one clock and one reset, with inputs *)
(* that change in every clock, and what each of them has to do.  History   *)
(* variables: whether the last edge had a reset; the last outcome of a     *)
(* branch and how often it has come in succession; the number of ones that *)
(* parity has seen, modulo 4.                                              *)
(***************************************************************************)
EXTENDS SatCount, Des

VARIABLES state, cleared, outcome, streak, ones

INSTANCE Parity

bench == <<counter_o, state, des, cleared, outcome, streak, ones>>

\* As many outcomes of one kind as it takes from one end to the other side.
Half == (Value(max) + 1) \div 2

Observe(reset, in, branch, taken) ==
    /\ cleared' = reset
    /\ outcome' = IF branch THEN taken ELSE outcome
    /\ streak' = IF reset THEN 0
                 ELSE IF ~branch THEN streak
                 ELSE IF taken = outcome /\ streak < Half THEN streak + 1
                 ELSE IF taken = outcome THEN Half
                 ELSE 1
    /\ ones' = IF reset \/ state = X THEN 0 ELSE (ones + in) % 4

Edge(reset, in, branch, taken) ==
    /\ SatEdge(reset, branch, taken)
    /\ ParityEdge(reset, in)
    /\ DesEdge(reset, in)
    /\ Observe(reset, in, branch, taken)

Init ==
    /\ SatInit /\ ParityInit /\ DesInit
    /\ cleared = FALSE /\ outcome = FALSE /\ streak = 0 /\ ones = 0

Next == \E reset, branch, taken \in BOOLEAN, in \in {0, 1} : Edge(reset, in, branch, taken)

Spec == Init /\ [][Next]_bench

-----------------------------------------------------------------------------
\* The predictor learns: wherever the counter stands, half its range of equal
\* outcomes in succession makes it predict that outcome.  So a counter that
\* wraps at an end, or steps by another amount, or a prediction read from the
\* wrong bit would show.
Trained == counter_o # X /\ streak = Half => prediction = outcome

Counter == INSTANCE SatCountSpec
             WITH Top <- Value(max), reset <- cleared, taken <- outcome

\* The counter saturates: a register of four bits with a ripple-carry adder is
\* a number that moves by one, up for a branch taken and down for one not, that
\* stays at its ends, and that a reset, always and alone, clears from above 1.
\* That a branch does move it is for Trained to show.
CounterSpec == Counter!Spec

\* Parity says whether it has seen an odd number of ones since the last reset,
\* or, without one, since the edge that defined its state.
ParityOfInputs == state # X => state = ones % 2

Frames == INSTANCE DesSpec WITH frame <- Bits, word <- out, reset <- cleared

\* The deserialiser shows every complete frame from the edge behind it to the
\* end of the next one, in order, none skipped, cut short or shown twice, unless
\* a reset hides it; resets come at any edge.
FramesSpec == Frames!Spec
=============================================================================
