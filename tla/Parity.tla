------------------------------- MODULE Parity -------------------------------
(***************************************************************************)
(* lab3/ex6/parity.v: one flip-flop that says whether the number of ones   *)
(* it has seen is odd.                                                     *)
(***************************************************************************)
EXTENDS Integers

CONSTANT X   \* what a register holds before it is first assigned

VARIABLE state

\* Faulty: the state is replaced, not toggled.
FaultyParityEdge(reset, in) == state' = IF reset \/ state = X THEN 0 ELSE in

\* An undefined state becomes 0, and the input of that edge is lost.
ParityEdge(reset, in) ==
    \/ reset /\ state' = 0
    \/ ~reset /\ state = 0 /\ state' = in
    \/ ~reset /\ state = 1 /\ state' = 1 - in
    \/ ~reset /\ state = X /\ state' = 0

ParityInit == state = X
=============================================================================
