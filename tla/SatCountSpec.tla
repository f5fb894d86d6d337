---------------------------- MODULE SatCountSpec ----------------------------
(***************************************************************************)
(* What a saturating counter promises: a number from 0 to Top that moves   *)
(* by one, up only when the last branch was taken and down only when it    *)
(* was not, and stays at its ends; an edge with a reset makes it 0.        *)
(* Before the first reset it is undefined.                                 *)
(***************************************************************************)
EXTENDS Integers

CONSTANTS Top, X

VARIABLES count, reset, taken   \* those of the last edge; taken: of the last branch

Init == count = X /\ reset = FALSE

Reset == reset' /\ count' = 0
Hold  == ~reset' /\ count' = count
Up    == ~reset' /\ taken' /\ count # X /\ count < Top /\ count' = count + 1
Down  == ~reset' /\ ~taken' /\ count # X /\ count > 0 /\ count' = count - 1

Next == Reset \/ Hold \/ Up \/ Down

Spec == Init /\ [][Next]_<<count, reset, taken>>
=============================================================================
