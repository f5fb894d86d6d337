------------------------------ MODULE SatCount ------------------------------
(***************************************************************************)
(* lab3/ex7/sat_coun.v: the saturating counter of a branch predictor, in a *)
(* register of four bits that counts with the adder-subtractor.            *)
(***************************************************************************)
EXTENDS Lab3Adders

CONSTANTS N,   \* the width of the counter proper
          X    \* what a register holds before it is first assigned

ASSUME SatCountAssumption == N \in 1 .. 4 /\ X \notin Bus \cup Int

VARIABLE counter_o

zero == [i \in 0 .. 3 |-> FALSE]
one  == [i \in 0 .. 3 |-> i = 0]
max  == [i \in 0 .. 3 |-> i < N]

counter_n(taken) == addsub(counter_o, one, ~taken)

prediction == counter_o[N - 1]

\* A branch: up if it was taken and down if not, but not past the ends.  An
\* undefined register stays undefined.
FaultyCount(taken) ==
    counter_o' = IF counter_o = X THEN X ELSE counter_n(taken)

Count(taken) ==
    counter_o' = CASE counter_o = X -> X
                   [] counter_o # X /\ counter_o = (IF taken THEN max ELSE zero) -> counter_o
                   [] OTHER -> counter_n(taken)

SatEdge(reset, branch, taken) ==
    \/ reset /\ counter_o' = zero
    \/ ~reset /\ ~branch /\ UNCHANGED counter_o
    \/ ~reset /\ branch /\ Count(taken)

SatInit == counter_o = X
SatSpec == SatInit /\ [][\E reset, branch, taken \in BOOLEAN :
                            SatEdge(reset, branch, taken)]_counter_o

-----------------------------------------------------------------------------
\* The number in the register.
count == IF counter_o = X THEN X ELSE Value(counter_o)
=============================================================================
