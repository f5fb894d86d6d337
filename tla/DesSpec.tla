------------------------------ MODULE DesSpec ------------------------------
(***************************************************************************)
(* What a deserialiser promises: the bits come in frames of WIDTH, and a   *)
(* complete frame is shown, first bit highest, from the edge that brings   *)
(* the first bit of the next one to the edge that completes that one.  The *)
(* first frame starts with a 0 that nobody sent.  An edge with a reset     *)
(* hides the word that was or would have been shown, up to the next frame, *)
(* and leaves the frame alone; no other edge does.                         *)
(***************************************************************************)
EXTENDS Integers, Sequences

CONSTANT WIDTH

VARIABLES frame, word, reset   \* reset: that of the last edge

Init == frame = <<0>> /\ word = 0 /\ reset = FALSE

\* The bits are the binary digits of n, the first one the highest.
Reads(n, bits) ==
    /\ n \in 0 .. 2 ^ Len(bits) - 1
    /\ \A i \in 1 .. Len(bits) : (n \div 2 ^ (Len(bits) - i)) % 2 = bits[i]

Number(bits) == CHOOSE n \in 0 .. 2 ^ Len(bits) - 1 : Reads(n, bits)

Show(n) == word' = IF reset' THEN 0 ELSE n

More(in)     == Len(frame) < WIDTH /\ frame' = Append(frame, in) /\ Show(word)
Complete(in) == Len(frame) = WIDTH /\ frame' = <<in>> /\ Show(Number(frame))

Next == reset' \in BOOLEAN /\ \E in \in {0, 1} : More(in) \/ Complete(in)

Spec == Init /\ [][Next]_<<frame, word, reset>>
=============================================================================
