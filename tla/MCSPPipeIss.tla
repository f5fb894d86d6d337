---------------------------- MODULE MCSPPipeIss ----------------------------
(***************************************************************************)
(* SPPipeIss for TLC, on programs that keep the rules of SPPipeRules and   *)
(* on the test programs of lab1 without DMA, which do not keep them all.   *)
(***************************************************************************)
EXTENDS SPPipeIss, MCSPPipe, SPPrograms

Neutral == Encode(OR, 6, 0, 0, 0)

RuleMenu == { Encode(ADD, 3, 2, 1, 2),     \* r3 = r2 + 2
              Encode(LD, 4, 0, 3, 0),      \* r4 = MEM[r3], which is -5 at first
              Encode(LD, 2, 0, 1, 22),     \* r2 = MEM[22]
              Encode(RSF, 5, 4, 1, 1),     \* r5 = r4 >> 1
              Encode(ST, 0, 4, 1, 18),     \* MEM[18] = r4
              Encode(JNE, 0, 5, 4, 2),     \* backward
              Encode(JLT, 0, 4, 2, 6),     \* forward
              Encode(XOR, 4, 7, 1, 5) }    \* r4 = r7 ^ 5

RulePrograms ==
    { <<Encode(ADD, 2, 1, 0, 16), Neutral>> \o <<i, j, k, l, m>> \o Stop :
        i, j, k, l, m \in RuleMenu }

RuleImages == { m \in { Image(p) : p \in RulePrograms } : Portable(m) }

Tests == { Mult(24, x, y) : x \in {5, 13}, y \in {0, 1, 6, 31, 42} }
           \cup {MultTable(2, 30, 36), MultTable(3, 30, 41)}

TestImages == { t.image : t \in Tests }

\* The files of the programs of the menu, which alone begin with this word, end
\* behind their data; those of the assembler have LastAddr words.
MCLoaded(m) == IF m[0] = Encode(ADD, 2, 1, 0, 16) THEN 24 ELSE LastAddr

IssImages == RuleImages \cup TestImages

\* A program whose text keeps the rules keeps those in every clock that make the
\* pipeline run as the instruction-set simulator.  mult.c and mult_table.c, whose
\* texts do not, keep them all the same, except that they store on a wrong path.
KeepsRules ==
    /\ FillKept /\ JumpKept /\ WriteKept /\ CommonRulesKept
    /\ srami \notin TestImages => StoreKept

\* mult.c and mult_table.c pass on the pipeline: the simulation ends, and the
\* dump holds the products, though their jumps wait for operands and one of
\* them marks a register busy that it does not write.
TestsPass ==
    start /\ srami \in TestImages
        ~> sim = "stopped" /\ \A t \in Tests : srami = t.image => Passed(t, dump)
=============================================================================
