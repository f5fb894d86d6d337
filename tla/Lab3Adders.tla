----------------------------- MODULE Lab3Adders -----------------------------
(***************************************************************************)
(* The combinational circuits of lab3: multiplexer, half and full adder,   *)
(* the adder of four bits made of full adders, and the adder-subtractor    *)
(* made of that.  A wire is a Boolean, a bus a function from its indices.  *)
(***************************************************************************)
EXTENDS Integers

Bus == [0 .. 3 -> BOOLEAN]

mux(a, b, select) == IF select THEN b ELSE a

halfadder(a, b) == [sum |-> a # b, carry |-> a /\ b]

fulladder(a, b, ci) ==
    [sum |-> (a # b) # ci, co |-> (a /\ b) \/ (a /\ ci) \/ (b /\ ci)]

add4(a, b, ci) ==
    LET fa0 == fulladder(a[0], b[0], ci)
        fa1 == fulladder(a[1], b[1], fa0.co)
        fa2 == fulladder(a[2], b[2], fa1.co)
        fa3 == fulladder(a[3], b[3], fa2.co)
    IN  [sum |-> [i \in 0 .. 3 |-> CASE i = 0 -> fa0.sum [] i = 1 -> fa1.sum
                                     [] i = 2 -> fa2.sum [] OTHER -> fa3.sum],
         co  |-> fa3.co]

\* Faulty: the carry of the two's complement is forgotten.
Faultyaddsub(a, b, mode) == add4(a, [i \in 0 .. 3 |-> mux(b[i], ~b[i], mode)], FALSE).sum

\* mode subtracts: operand b is inverted and the carry in is set.
addsub(a, b, mode) == add4(a, [i \in 0 .. 3 |-> mux(b[i], ~b[i], mode)], mode).sum

-----------------------------------------------------------------------------
\* The number on a bus.
Bit(w)   == IF w THEN 1 ELSE 0
Value(v) == Bit(v[0]) + 2 * Bit(v[1]) + 4 * Bit(v[2]) + 8 * Bit(v[3])
=============================================================================
