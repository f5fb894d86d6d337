------------------------------ MODULE MCLLSim ------------------------------
(***************************************************************************)
(* LLSim for TLC: the two memories of lab5 with two words each, two calls *)
(* of the unit in a clock, two clocks behind the five reset clocks.  The   *)
(* files have up to three words, one more than fit.                        *)
(***************************************************************************)
EXTENDS LLSimProps

MCBaad == -77
MCWords == {0, -1, 5}
MCMemList == <<"sramd", "srami">>
MCFiles ==
    [words : { <<>>, <<-1>>, <<5, -1>>, <<-1, 5, 5>> }, text : {FALSE}]
        \cup
    [words : { <<-1>> }, text : {TRUE}]
=============================================================================
