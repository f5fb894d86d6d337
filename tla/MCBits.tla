------------------------------- MODULE MCBits -------------------------------
(***************************************************************************)
(* The operators of bits for SPAlu when TLC evaluates it.                  *)
(***************************************************************************)
LOCAL INSTANCE Bitwise

MCAnd(a, b) == a & b
MCOr(a, b)  == a | b
MCXor(a, b) == a ^^ b
=============================================================================
