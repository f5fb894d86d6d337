----------------------------- MODULE SPPrograms -----------------------------
(***************************************************************************)
(* The test programs of lab1 (mult.c, mult_table.c, mult_dma.c,            *)
(* pipe_dma.c): the words that assemble_program writes, instruction by     *)
(* instruction, with the addresses of the data (1000 and more in the       *)
(* sources) and the sizes of loops and transfers as parameters.  A test    *)
(* is an image and the words the program is there to compute.              *)
(***************************************************************************)
EXTENDS SPIsa, Sequences

CONSTANT LastAddr    \* the words the assembler writes: last_addr

\* The file: the instructions from 0, the planted data, zeros.
Assemble(code, planted) ==
    [p \in 0 .. LastAddr - 1 |->
        IF p < Len(code) THEN code[p + 1] ELSE IF p \in DOMAIN planted THEN planted[p] ELSE 0]

\* What a test expects of the memory image that is dumped at the end.
Passed(test, dumped) == \A p \in DOMAIN test.result : dumped[p] = test.result[p]

NoData == [p \in {} |-> 0]

-----------------------------------------------------------------------------
\* mult.c: x * y by shifts and additions.  x and y are planted at d and d + 1
\* by the program itself, the product goes to d + 2.
MultCode(d, x, y) ==
  << Encode(ADD, 2, 0, 1, d),
     Encode(ADD, 3, 0, 1, d + 1),
     Encode(ST, 0, 1, 2, x),
     Encode(ST, 0, 1, 3, y),
     Encode(LD, 5, 0, 1, d),
     Encode(LD, 6, 0, 1, d + 1),
     Encode(ADD, 2, 0, 0, 0),
     Encode(JEQ, 0, 6, 0, 14),     \* 7: while y # 0
     Encode(AND, 4, 6, 1, 1),
     Encode(JEQ, 4, 4, 0, 11),
     Encode(ADD, 2, 2, 5, 0),
     Encode(LSF, 5, 5, 1, 1),      \* 11
     Encode(RSF, 6, 6, 1, 1),
     Encode(JEQ, 0, 0, 0, 7),
     Encode(ST, 0, 2, 1, d + 2),   \* 14
     Encode(HLT, 0, 0, 0, 0) >>

Mult(d, x, y) ==
    [image |-> Assemble(MultCode(d, x, y), NoData), result |-> [p \in {d + 2} |-> x * y]]

\* mult_table.c: the products i * j for i and j from n down to 1, written
\* downwards from top.  cell holds i, cell + 1 the place of the last product.
TableCode(n, cell) ==
  << Encode(ADD, 2, 0, 1, n),
     Encode(JEQ, 0, 2, 0, 24),       \* 1: FORI
     Encode(ST, 0, 2, 1, cell),
     Encode(ADD, 3, 0, 1, n),
     Encode(JEQ, 0, 3, 0, 21),       \* 4: FORJ
     Encode(LD, 5, 0, 1, cell),
     Encode(ADD, 6, 3, 0, 0),
     Encode(ADD, 2, 0, 0, 0),
     Encode(JEQ, 0, 6, 0, 15),       \* 8: LOOP
     Encode(AND, 4, 6, 1, 1),
     Encode(JEQ, 4, 4, 0, 12),
     Encode(ADD, 2, 2, 5, 0),
     Encode(LSF, 5, 5, 1, 1),        \* 12: ELSE
     Encode(RSF, 6, 6, 1, 1),
     Encode(JEQ, 0, 0, 0, 8),
     Encode(LD, 4, 0, 1, cell + 1),  \* 15: ENDJ
     Encode(SUB, 4, 4, 1, 1),
     Encode(ST, 0, 2, 4, 0),
     Encode(ST, 0, 4, 1, cell + 1),
     Encode(SUB, 3, 3, 1, 1),
     Encode(JIN, 0, 0, 0, 4),
     Encode(LD, 2, 0, 1, cell),      \* 21: ENDI
     Encode(SUB, 2, 2, 1, 1),
     Encode(JIN, 0, 0, 0, 1),
     Encode(HLT, 0, 0, 0, 0) >>      \* 24: HALT

MultTable(n, cell, top) ==
    [image  |-> Assemble(TableCode(n, cell), [p \in {cell + 1} |-> top]),
     result |-> [p \in top - n * n .. top - 1 |->
                    ((p - (top - n * n)) \div n + 1) * (((p - (top - n * n)) % n) + 1)]]

-----------------------------------------------------------------------------
\* mult_dma.c: k words are copied from s to t by the program while the DMA
\* copies n words from s to d.  r2 says at the end whether the DMA was done.
CopyCode(s, n, d, k, t) ==
  << Encode(ADD, 2, 0, 1, s),
     Encode(ADD, 3, 0, 1, d),
     Encode(DMA, 0, 2, 3, n),
     Encode(ADD, 3, 0, 1, t),
     Encode(ADD, 4, 0, 1, k),
     Encode(JEQ, 0, 4, 0, 13),   \* 5: LOOP
     Encode(LD, 5, 0, 2, 0),
     Encode(POL, 6, 0, 0, 0),
     Encode(ST, 0, 5, 3, 0),
     Encode(ADD, 2, 2, 1, 1),
     Encode(ADD, 3, 3, 1, 1),
     Encode(SUB, 4, 4, 1, 1),
     Encode(JIN, 0, 1, 0, 5),
     Encode(POL, 6, 0, 0, 0),    \* 13: END
     Encode(ADD, 2, 0, 0, 0),
     Encode(JNE, 0, 6, 0, 17),
     Encode(ADD, 2, 0, 1, 1),
     Encode(HLT, 0, 0, 0, 0) >>

\* The planted words are numbered from 0.
Numbers(s, n) == [p \in s .. s + n - 1 |-> p - s]

MultDma(s, n, d, k, t) ==
    [image  |-> Assemble(CopyCode(s, n, d, k, t), Numbers(s, n)),
     result |-> [p \in (t .. t + k - 1) \cup (d .. d + n - 1) |->
                    IF p \in t .. t + k - 1 THEN p - t ELSE p - d]]

\* pipe_dma.c: the same, but 100 is added to the words the program copies.
PipeCode(s, n, d, k, t, plus) ==
  << Encode(ADD, 2, 0, 1, s),
     Encode(ADD, 3, 0, 1, d),
     Encode(DMA, 0, 2, 3, n),
     Encode(ADD, 3, 0, 1, t),
     Encode(ADD, 4, 0, 1, k),
     Encode(JEQ, 0, 4, 0, 14),   \* 5: LOOP
     Encode(LD, 5, 0, 2, 0),
     Encode(ADD, 5, 5, 1, plus),
     Encode(ST, 0, 5, 3, 0),
     Encode(ADD, 2, 2, 1, 1),
     Encode(ADD, 3, 3, 1, 1),
     Encode(SUB, 4, 4, 1, 1),
     Encode(POL, 6, 0, 0, 0),
     Encode(JIN, 0, 1, 0, 5),
     Encode(POL, 6, 0, 0, 0),    \* 14: END
     Encode(ADD, 2, 0, 0, 0),
     Encode(JNE, 0, 6, 0, 18),
     Encode(ADD, 2, 0, 1, 1),
     Encode(HLT, 0, 0, 0, 0) >>

PipeDma(s, n, d, k, t, plus) ==
    [image  |-> Assemble(PipeCode(s, n, d, k, t, plus), Numbers(s, n)),
     result |-> [p \in (t .. t + k - 1) \cup (d .. d + n - 1) |->
                    IF p \in t .. t + k - 1 THEN p - t + plus ELSE p - d]]
=============================================================================
