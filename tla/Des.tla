-------------------------------- MODULE Des --------------------------------
(***************************************************************************)
(* lab3/ex8/des.v: a deserialiser.  Every edge shifts a bit into out_next; *)
(* a one that is shifted through timer says when a word is complete.       *)
(***************************************************************************)
EXTENDS Integers

CONSTANT WIDTH

ASSUME DesAssumption == WIDTH \in Nat /\ WIDTH >= 2

VARIABLES out_next, out, timer

des == <<out_next, out, timer>>

\* Faulty: a reset starts a new frame.
FaultyDesEdge(reset, in) ==
    /\ out_next' = ((2 * out_next) % 2 ^ WIDTH) + in
    /\ timer' = IF reset \/ timer = 0 THEN 1 ELSE (2 * timer) % 2 ^ (WIDTH - 1)
    /\ out' = IF reset THEN 0 ELSE IF timer = 0 THEN out_next ELSE out

\* A reset clears the output only: the frame goes on.
DesEdge(reset, in) ==
    /\ out_next' = ((2 * out_next) % 2 ^ WIDTH) + in
    /\ timer' = IF timer = 0 THEN 1 ELSE (2 * timer) % 2 ^ (WIDTH - 1)
    /\ out' = IF reset THEN 0 ELSE IF timer = 0 THEN out_next ELSE out

DesInit == out_next = 0 /\ out = 0 /\ timer = 1

-----------------------------------------------------------------------------
\* How many bits of out_next belong to the frame under way.
Received == IF timer = 0 THEN WIDTH ELSE CHOOSE n \in 1 .. WIDTH - 1 : timer = 2 ^ (n - 1)

\* The digit of n at place j, the lowest one at place 0.
Digit(n, j) == (n \div 2 ^ j) % 2

\* Their values, the first one the highest.
Bits == [i \in 1 .. Received |-> Digit(out_next, Received - i)]
=============================================================================
