----------------------------- MODULE Lab3Proofs -----------------------------
(***************************************************************************)
(* Proofs about the circuits of lab3: the adders add, for all inputs; the  *)
(* saturating counter that counts with them implements SatCountSpec, for   *)
(* every width; the deserialiser implements DesSpec, for frames of up to   *)
(* 32 bits.  A bus is compared with its number bit by bit.                 *)
(***************************************************************************)
EXTENDS Lab3Bench, Sequences, TLAPS

\* A full adder adds three bits.
LEMMA FullAdderAdds ==
    ASSUME NEW a \in BOOLEAN, NEW b \in BOOLEAN, NEW ci \in BOOLEAN
    PROVE  LET fa == fulladder(a, b, ci)
           IN  /\ fa.sum \in BOOLEAN /\ fa.co \in BOOLEAN
               /\ Bit(fa.sum) + 2 * Bit(fa.co) = Bit(a) + Bit(b) + Bit(ci)
  BY DEF fulladder, Bit

\* It is two half adders and an or of their carries.
LEMMA FullAdderFromHalf ==
    ASSUME NEW a \in BOOLEAN, NEW b \in BOOLEAN, NEW ci \in BOOLEAN
    PROVE  LET h0 == halfadder(a, b)
               h1 == halfadder(h0.sum, ci)
           IN  fulladder(a, b, ci) = [sum |-> h1.sum, co |-> h0.carry \/ h1.carry]
  BY DEF fulladder, halfadder

\* add4 adds two numbers of four bits and a carry, into four bits and a carry.
THEOREM Add4Adds ==
    ASSUME NEW a \in Bus, NEW b \in Bus, NEW ci \in BOOLEAN
    PROVE  /\ add4(a, b, ci).sum \in Bus
           /\ add4(a, b, ci).co \in BOOLEAN
           /\ Value(add4(a, b, ci).sum) + 16 * Bit(add4(a, b, ci).co)
                = Value(a) + Value(b) + Bit(ci)
<1> DEFINE fa0 == fulladder(a[0], b[0], ci)
           fa1 == fulladder(a[1], b[1], fa0.co)
           fa2 == fulladder(a[2], b[2], fa1.co)
           fa3 == fulladder(a[3], b[3], fa2.co)
           s   == add4(a, b, ci)
<1>1. \A i \in 0 .. 3 : a[i] \in BOOLEAN /\ b[i] \in BOOLEAN
  BY DEF Bus
<1>2. /\ fa0.sum \in BOOLEAN /\ fa0.co \in BOOLEAN
      /\ Bit(fa0.sum) + 2 * Bit(fa0.co) = Bit(a[0]) + Bit(b[0]) + Bit(ci)
  <2>1. a[0] \in BOOLEAN /\ b[0] \in BOOLEAN  BY <1>1
  <2> QED  BY <2>1, FullAdderAdds
<1>3. /\ fa1.sum \in BOOLEAN /\ fa1.co \in BOOLEAN
      /\ Bit(fa1.sum) + 2 * Bit(fa1.co) = Bit(a[1]) + Bit(b[1]) + Bit(fa0.co)
  <2>1. a[1] \in BOOLEAN /\ b[1] \in BOOLEAN  BY <1>1
  <2> HIDE DEF fa0
  <2> QED  BY <2>1, <1>2, FullAdderAdds
<1>4. /\ fa2.sum \in BOOLEAN /\ fa2.co \in BOOLEAN
      /\ Bit(fa2.sum) + 2 * Bit(fa2.co) = Bit(a[2]) + Bit(b[2]) + Bit(fa1.co)
  <2>1. a[2] \in BOOLEAN /\ b[2] \in BOOLEAN  BY <1>1
  <2> HIDE DEF fa1
  <2> QED  BY <2>1, <1>3, FullAdderAdds
<1>5. /\ fa3.sum \in BOOLEAN /\ fa3.co \in BOOLEAN
      /\ Bit(fa3.sum) + 2 * Bit(fa3.co) = Bit(a[3]) + Bit(b[3]) + Bit(fa2.co)
  <2>1. a[3] \in BOOLEAN /\ b[3] \in BOOLEAN  BY <1>1
  <2> HIDE DEF fa2
  <2> QED  BY <2>1, <1>4, FullAdderAdds
<1>6. /\ s.sum = [i \in 0 .. 3 |-> CASE i = 0 -> fa0.sum [] i = 1 -> fa1.sum
                                     [] i = 2 -> fa2.sum [] OTHER -> fa3.sum]
      /\ s.co = fa3.co
  BY DEF add4
<1> HIDE DEF fa0, fa1, fa2, fa3, s
<1>7. s.sum[0] = fa0.sum /\ s.sum[1] = fa1.sum /\ s.sum[2] = fa2.sum /\ s.sum[3] = fa3.sum
  BY <1>6
<1>8. s.sum \in Bus
  BY <1>2, <1>3, <1>4, <1>5, <1>6 DEF Bus
<1>9. \A w : Bit(w) \in Int
  BY DEF Bit
<1>10. Value(s.sum) + 16 * Bit(s.co) = Value(a) + Value(b) + Bit(ci)
  <2>1. Value(s.sum) = Bit(fa0.sum) + 2 * Bit(fa1.sum) + 4 * Bit(fa2.sum) + 8 * Bit(fa3.sum)
    BY <1>7, Zenon DEF Value
  <2>2. Bit(s.co) = Bit(fa3.co)
    BY <1>6, Zenon
  <2>3. /\ Value(a) = Bit(a[0]) + 2 * Bit(a[1]) + 4 * Bit(a[2]) + 8 * Bit(a[3])
        /\ Value(b) = Bit(b[0]) + 2 * Bit(b[1]) + 4 * Bit(b[2]) + 8 * Bit(b[3])
    BY DEF Value
  <2> DEFINE S(f) == Bit(f.sum)   \* as opaque numbers from here on
             C(f) == Bit(f.co)
  <2>4. /\ S(fa0) + 2 * C(fa0) = Bit(a[0]) + Bit(b[0]) + Bit(ci)
        /\ S(fa1) + 2 * C(fa1) = Bit(a[1]) + Bit(b[1]) + C(fa0)
        /\ S(fa2) + 2 * C(fa2) = Bit(a[2]) + Bit(b[2]) + C(fa1)
        /\ S(fa3) + 2 * C(fa3) = Bit(a[3]) + Bit(b[3]) + C(fa2)
        /\ \A f : S(f) \in Int /\ C(f) \in Int
    BY <1>2, <1>3, <1>4, <1>5, <1>9
  <2>5. Value(s.sum) = S(fa0) + 2 * S(fa1) + 4 * S(fa2) + 8 * S(fa3) /\ Bit(s.co) = C(fa3)
    BY <2>1, <2>2
  <2> HIDE DEF S, C
  <2> QED  BY <1>9, <2>3, <2>4, <2>5
<1> QED  BY <1>8, <1>10, <1>5, <1>6 DEF s

\* Equal numbers are on equal buses.
LEMMA BusFromValue ==
    ASSUME NEW a \in Bus, NEW b \in Bus
    PROVE  /\ Value(a) \in 0 .. 15
           /\ Value(a) = Value(b) => a = b
<1>1. \A i \in 0 .. 3 : a[i] \in BOOLEAN /\ b[i] \in BOOLEAN
  BY DEF Bus
<1>2. Value(a) \in 0 .. 15
  BY <1>1 DEF Value, Bit
<1>3. ASSUME Value(a) = Value(b) PROVE a = b
  <2>1. \A i \in 0 .. 3 : Bit(a[i]) \in {0, 1} /\ Bit(b[i]) \in {0, 1}
                           /\ (Bit(a[i]) = Bit(b[i]) => a[i] = b[i])
    BY <1>1 DEF Bit
  <2>2. \A i \in 0 .. 3 : Bit(a[i]) = Bit(b[i])
    <3>1. Bit(a[0]) = Bit(b[0]) /\ Bit(a[1]) = Bit(b[1])
            /\ Bit(a[2]) = Bit(b[2]) /\ Bit(a[3]) = Bit(b[3])
      BY <1>3, <2>1 DEF Value
    <3> QED  BY <3>1
  <2>3. \A i \in 0 .. 3 : a[i] = b[i]
    BY <2>1, <2>2
  <2> QED  BY <2>3 DEF Bus
<1> QED  BY <1>2, <1>3

\* addsub adds, or subtracts, modulo 16.
THEOREM AddSubComputes ==
    ASSUME NEW a \in Bus, NEW b \in Bus, NEW mode \in BOOLEAN
    PROVE  /\ addsub(a, b, mode) \in Bus
           /\ Value(addsub(a, b, mode))
                = (IF mode THEN Value(a) - Value(b) ELSE Value(a) + Value(b)) % 16
<1> DEFINE bm == [i \in 0 .. 3 |-> mux(b[i], ~b[i], mode)]
           s  == add4(a, bm, mode)
<1>1. \A i \in 0 .. 3 : b[i] \in BOOLEAN
  BY DEF Bus
<1>2. bm \in Bus
  BY <1>1 DEF Bus, mux
<1>3. Value(bm) = IF mode THEN 15 - Value(b) ELSE Value(b)
  <2>1. \A i \in 0 .. 3 : Bit(bm[i]) = IF mode THEN 1 - Bit(b[i]) ELSE Bit(b[i])
    <3>1. \A w \in BOOLEAN : Bit(~w) = 1 - Bit(w)
      BY DEF Bit
    <3>2. CASE mode
      <4>1. \A i \in 0 .. 3 : bm[i] = ~b[i]  BY <3>2, <1>1 DEF mux
      <4> HIDE DEF bm
      <4> QED  BY <3>1, <3>2, <4>1, <1>1, Zenon
    <3>3. CASE ~mode
      <4>1. \A i \in 0 .. 3 : bm[i] = b[i]  BY <3>3, <1>1 DEF mux
      <4> HIDE DEF bm
      <4> QED  BY <3>3, <4>1, <1>1, Zenon
    <3> QED  BY <3>2, <3>3
  <2>2. \A w : Bit(w) \in Int
    BY DEF Bit
  <2> HIDE DEF bm
  <2> QED  BY <2>1, <2>2 DEF Value
<1>4. addsub(a, b, mode) = s.sum
  BY DEF addsub
<1> HIDE DEF bm
<1>5. /\ s.sum \in Bus /\ s.co \in BOOLEAN
      /\ Value(s.sum) + 16 * Bit(s.co) = Value(a) + Value(bm) + Bit(mode)
  BY <1>2, Add4Adds
<1> HIDE DEF s
<1>6. Value(s.sum) \in 0 .. 15 /\ Value(a) \in 0 .. 15 /\ Value(b) \in 0 .. 15
  BY <1>5, BusFromValue
<1>7. Bit(s.co) \in {0, 1} /\ Bit(mode) = IF mode THEN 1 ELSE 0
  BY DEF Bit
<1>8. Value(s.sum) = (IF mode THEN Value(a) - Value(b) ELSE Value(a) + Value(b)) % 16
  <2>1. CASE mode
    <3>1. Value(s.sum) + 16 * Bit(s.co) = Value(a) + 16 - Value(b)
      <4>1. Value(bm) = 15 - Value(b) /\ Bit(mode) = 1
        BY <2>1, <1>3 DEF Bit
      <4> QED  BY <4>1, <1>5, <1>6, <1>7
    <3> QED  BY <2>1, <3>1, <1>6, <1>7
  <2>2. CASE ~mode
    <3>1. Value(s.sum) + 16 * Bit(s.co) = Value(a) + Value(b)
      <4>1. Value(bm) = Value(b) /\ Bit(mode) = 0
        BY <2>2, <1>3 DEF Bit
      <4> QED  BY <4>1, <1>5, <1>6, <1>7
    <3> QED  BY <2>2, <3>1, <1>6, <1>7
  <2> QED  BY <2>1, <2>2
<1> QED  BY <1>4, <1>5, <1>8
-----------------------------------------------------------------------------
\* The numbers on the constant buses.
LEMMA ConstantBuses ==
    /\ zero \in Bus /\ Value(zero) = 0
    /\ one \in Bus /\ Value(one) = 1
    /\ max \in Bus
    /\ \/ N = 1 /\ Value(max) = 1
       \/ N = 2 /\ Value(max) = 3
       \/ N = 3 /\ Value(max) = 7
       \/ N = 4 /\ Value(max) = 15
<1>1. zero \in Bus /\ Value(zero) = 0
  BY DEF zero, Bus, Value, Bit
<1>2. one \in Bus /\ Value(one) = 1
  <2>1. one \in Bus
    BY DEF one, Bus
  <2>2. \A i \in 0 .. 3 : (i = 0 => one[i]) /\ (i # 0 => ~one[i])
    BY DEF one
  <2>3. \A i \in 0 .. 3 : (i = 0 => Bit(one[i]) = 1) /\ (i # 0 => Bit(one[i]) = 0)
    BY <2>2, Zenon DEF Bit
  <2> QED  BY <2>1, <2>3 DEF Value
<1>3. max \in Bus
  BY SatCountAssumption DEF max, Bus
<1>4. N = 1 \/ N = 2 \/ N = 3 \/ N = 4
  BY SatCountAssumption
<1>5. /\ N = 1 => Value(max) = 1
      /\ N = 2 => Value(max) = 3
      /\ N = 3 => Value(max) = 7
      /\ N = 4 => Value(max) = 15
  <2>1. \A i \in 0 .. 3 : (i < N => max[i]) /\ (~(i < N) => ~max[i])
    BY DEF max
  <2>2. \A i \in 0 .. 3 : (i < N => Bit(max[i]) = 1) /\ (~(i < N) => Bit(max[i]) = 0)
    BY <2>1, Zenon DEF Bit
  <2> QED  BY <2>2 DEF Value
<1> QED  BY <1>1, <1>2, <1>3, <1>4, <1>5

\* The counter is undefined or at most max.
CounterInv == counter_o # X => counter_o \in Bus /\ Value(counter_o) <= Value(max)

\* Counting.
LEMMA PlusMinusOne ==
    ASSUME NEW a \in Bus
    PROVE  /\ addsub(a, one, FALSE) \in Bus
           /\ Value(addsub(a, one, FALSE)) = (Value(a) + 1) % 16
           /\ addsub(a, one, TRUE) \in Bus
           /\ Value(addsub(a, one, TRUE)) = (Value(a) - 1) % 16
<1>1. one \in Bus /\ Value(one) = 1
  BY ConstantBuses
<1>2. \A mode \in BOOLEAN :
         /\ addsub(a, one, mode) \in Bus
         /\ Value(addsub(a, one, mode))
              = (IF mode THEN Value(a) - Value(one) ELSE Value(a) + Value(one)) % 16
  BY <1>1, AddSubComputes
<1>3. /\ addsub(a, one, FALSE) \in Bus
      /\ Value(addsub(a, one, FALSE))
           = (IF FALSE THEN Value(a) - Value(one) ELSE Value(a) + Value(one)) % 16
  BY <1>2, Zenon
<1>4. /\ addsub(a, one, TRUE) \in Bus
      /\ Value(addsub(a, one, TRUE))
           = (IF TRUE THEN Value(a) - Value(one) ELSE Value(a) + Value(one)) % 16
  BY <1>2, Zenon
<1> QED  BY <1>1, <1>3, <1>4

\* A branch moves a defined counter by one, but not past its ends.
LEMMA CountStep ==
    ASSUME CounterInv, counter_o # X, NEW taken \in BOOLEAN, Count(taken)
    PROVE  /\ counter_o' \in Bus
           /\ counter_o' # X
           /\ Value(counter_o) \in 0 .. Value(max)
           /\ Value(counter_o')
                = IF taken THEN IF Value(counter_o) = Value(max)
                                THEN Value(max) ELSE Value(counter_o) + 1
                  ELSE IF Value(counter_o) = 0 THEN 0 ELSE Value(counter_o) - 1
<1> DEFINE v == Value(counter_o)
           end == IF taken THEN max ELSE zero
<1>1. counter_o \in Bus /\ v <= Value(max) /\ v \in 0 .. 15 /\ Value(max) \in 0 .. 15
  BY ConstantBuses, BusFromValue DEF CounterInv
<1>2. CASE counter_o = end
  <2>1. counter_o' = counter_o
    BY <1>2 DEF Count
  <2>2. v = IF taken THEN Value(max) ELSE 0
    BY <1>2, ConstantBuses
  <2> QED  BY <1>1, <2>1, <2>2
<1>3. CASE counter_o # end
  <2>1. counter_o' = addsub(counter_o, one, ~taken)
    BY <1>3 DEF Count, counter_n
  <2>2. v # IF taken THEN Value(max) ELSE 0
    BY <1>1, <1>3, ConstantBuses, BusFromValue
  <2>3. /\ counter_o' \in Bus
        /\ Value(counter_o') = (IF ~taken THEN v - 1 ELSE v + 1) % 16
    <3>1. CASE taken
      <4>1. counter_o' = addsub(counter_o, one, FALSE)
        <5>1. (~taken) = FALSE  BY <3>1, Zenon
        <5> QED  BY <2>1, <5>1, Zenon
      <4> QED  BY <1>1, <3>1, <4>1, PlusMinusOne
    <3>2. CASE ~taken
      <4>1. counter_o' = addsub(counter_o, one, TRUE)
        <5>1. (~taken) = TRUE  BY <3>2, Zenon
        <5> QED  BY <2>1, <5>1, Zenon
      <4> QED  BY <1>1, <3>2, <4>1, PlusMinusOne
    <3> QED  BY <3>1, <3>2
  <2>4. counter_o' # X
    BY <2>3, SatCountAssumption
  <2>5. CASE taken
    <3>1. v + 1 \in 0 .. 15 /\ Value(counter_o') = (v + 1) % 16
      BY <1>1, <2>2, <2>3, <2>5
    <3>2. Value(counter_o') = v + 1
      BY <3>1
    <3> QED  BY <1>1, <2>2, <2>3, <2>4, <2>5, <3>2
  <2>6. CASE ~taken
    <3>1. v - 1 \in 0 .. 15 /\ Value(counter_o') = (v - 1) % 16
      BY <1>1, <2>2, <2>3, <2>6
    <3>2. Value(counter_o') = v - 1
      BY <3>1
    <3> QED  BY <1>1, <2>2, <2>3, <2>4, <2>6, <3>2
  <2> QED  BY <2>5, <2>6
<1> QED  BY <1>2, <1>3

LEMMA CounterInvInit == SatInit => CounterInv
  BY DEF SatInit, CounterInv

LEMMA CounterInvStep ==
    ASSUME CounterInv, NEW reset \in BOOLEAN, NEW branch \in BOOLEAN, NEW taken \in BOOLEAN,
           SatEdge(reset, branch, taken)
    PROVE  CounterInv'
<1>1. CASE reset /\ counter_o' = zero
  <2>1. max' = max /\ Value(max) \in 0 .. 15
    BY ConstantBuses, BusFromValue DEF max
  <2> QED  BY <1>1, <2>1, ConstantBuses DEF CounterInv
<1>2. CASE counter_o' = counter_o
  BY <1>2 DEF CounterInv
<1>3. CASE branch /\ Count(taken) /\ counter_o = X
  BY <1>3 DEF Count, CounterInv
<1>4. CASE branch /\ Count(taken) /\ counter_o # X
  <2>1. Value(counter_o') <= Value(max) /\ counter_o' \in Bus
    <3>1. Value(max) \in 0 .. 15
      BY ConstantBuses, BusFromValue
    <3> QED  BY <1>4, <3>1, CountStep
  <2> QED  BY <2>1 DEF CounterInv
<1> QED  BY <1>1, <1>2, <1>3, <1>4 DEF SatEdge

\* The saturating counter: the register of four bits with its ripple-carry
\* adder is a number that saturates, for every width.
THEOREM CounterSaturates == Spec => CounterSpec
<1>1. Init => Counter!Init
  BY DEF Init, SatInit, Counter!Init, count
<1>2. Init => CounterInv
  BY CounterInvInit DEF Init
<1>3. CounterInv /\ [Next]_bench => CounterInv'
  <2> SUFFICES ASSUME CounterInv, [Next]_bench PROVE CounterInv'
    OBVIOUS
  <2>1. CASE UNCHANGED bench
    BY <2>1 DEF bench, CounterInv
  <2>2. CASE Next
    <3>1. PICK reset, branch, taken \in BOOLEAN : SatEdge(reset, branch, taken)
      BY <2>2 DEF Next, Edge
    <3> QED  BY <3>1, CounterInvStep
  <2> QED  BY <2>1, <2>2
<1>4. CounterInv /\ [Next]_bench => [Counter!Next]_<<count, cleared, outcome>>
  <2> SUFFICES ASSUME CounterInv, [Next]_bench
               PROVE  [Counter!Next]_<<count, cleared, outcome>>
    OBVIOUS
  <2>1. CASE UNCHANGED bench
    BY <2>1 DEF bench, count
  <2>2. CASE Next
    <3>1. PICK reset, branch, taken \in BOOLEAN, in \in {0, 1} : Edge(reset, in, branch, taken)
      BY <2>2 DEF Next
    <3>2. /\ SatEdge(reset, branch, taken)
          /\ cleared' = reset /\ (branch => outcome' = taken)
      BY <3>1 DEF Edge, Observe
    <3>3. CASE reset
      <4>1. count' = 0
        BY <3>2, <3>3, ConstantBuses, SatCountAssumption DEF SatEdge, count
      <4> QED  BY <3>2, <3>3, <4>1 DEF Counter!Next, Counter!Reset
    <3>4. CASE ~reset /\ UNCHANGED counter_o
      <4>1. count' = count
        BY <3>4 DEF count
      <4> QED  BY <3>2, <3>4, <4>1 DEF Counter!Next, Counter!Hold
    <3>5. CASE ~reset /\ branch /\ Count(taken) /\ counter_o # X
      <4>1. /\ counter_o' # X
            /\ Value(counter_o) \in 0 .. Value(max)
            /\ Value(counter_o')
                 = IF taken THEN IF Value(counter_o) = Value(max)
                                 THEN Value(max) ELSE Value(counter_o) + 1
                   ELSE IF Value(counter_o) = 0 THEN 0 ELSE Value(counter_o) - 1
        BY <3>5, CountStep
      <4>2. count = Value(counter_o) /\ count' = Value(counter_o')
        BY <3>5, <4>1 DEF count
      <4>3. Value(max) \in 0 .. 15
        BY ConstantBuses, BusFromValue
      <4>4. Value(counter_o) # X
        BY <4>1, SatCountAssumption
      <4>5. ~cleared' /\ outcome' = taken
        BY <3>2, <3>5
      <4> QED  BY <4>1, <4>2, <4>3, <4>4, <4>5
                  DEF Counter!Next, Counter!Hold, Counter!Up, Counter!Down
    <3>6. Count(taken) /\ counter_o = X => UNCHANGED counter_o
      BY DEF Count
    <3> QED  BY <3>2, <3>3, <3>4, <3>5, <3>6 DEF SatEdge
  <2> QED  BY <2>1, <2>2
<1> QED  BY <1>1, <1>2, <1>3, <1>4, PTL DEF Spec, CounterSpec, Counter!Spec

-----------------------------------------------------------------------------
\* Why the predictor learns: a streak is never longer than the way the counter
\* is from the end that it comes from.
LearnInv ==
    /\ CounterInv
    /\ outcome \in BOOLEAN
    /\ streak \in 0 .. Half
    /\ counter_o # X =>
          /\ outcome => streak <= Value(counter_o)
          /\ ~outcome => Value(counter_o) + streak <= Value(max)

LEMMA HalfRange == /\ Value(max) \in 1 .. 15 /\ Half \in 1 .. 8 /\ Value(max) = 2 * Half - 1
                   /\ N = 1 => Half = 1
                   /\ N = 2 => Half = 2
                   /\ N = 3 => Half = 4
                   /\ N = 4 => Half = 8
  BY ConstantBuses DEF Half

\* In the upper half of the range the prediction bit is set, in the lower not.
LEMMA PredictionIsHalf ==
    ASSUME CounterInv, counter_o # X
    PROVE  /\ prediction \in BOOLEAN
           /\ prediction => Value(counter_o) >= Half
           /\ ~prediction => Value(counter_o) < Half
<1>1. counter_o \in Bus /\ Value(counter_o) <= Value(max)
  BY DEF CounterInv
<1>2. \A i \in 0 .. 3 : /\ counter_o[i] \in BOOLEAN
                         /\ Bit(counter_o[i]) \in {0, 1}
                         /\ (counter_o[i] => Bit(counter_o[i]) = 1)
                         /\ (~counter_o[i] => Bit(counter_o[i]) = 0)
  BY <1>1 DEF Bus, Bit
<1>3. N - 1 \in 0 .. 3 /\ (N = 1 \/ N = 2 \/ N = 3 \/ N = 4)
  BY SatCountAssumption
<1>4. prediction \in BOOLEAN
  BY <1>2, <1>3 DEF prediction
<1>5. /\ prediction => Bit(counter_o[N - 1]) = 1
      /\ ~prediction => Bit(counter_o[N - 1]) = 0
  BY <1>2, <1>3 DEF prediction
<1>6. /\ Bit(counter_o[N - 1]) = 1 => Value(counter_o) >= Half
      /\ Bit(counter_o[N - 1]) = 0 => Value(counter_o) < Half
  BY <1>1, <1>2, <1>3, HalfRange DEF Value
<1> QED  BY <1>4, <1>5, <1>6

LEMMA LearnStep ==
    ASSUME LearnInv, NEW reset \in BOOLEAN, NEW branch \in BOOLEAN, NEW taken \in BOOLEAN,
           NEW in, SatEdge(reset, branch, taken), Observe(reset, in, branch, taken)
    PROVE  LearnInv'
<1>1. CounterInv'
  BY CounterInvStep DEF LearnInv
<1>2. outcome' \in BOOLEAN
  BY DEF LearnInv, Observe
<1>3. Half' = Half /\ Value(max)' = Value(max)
  BY DEF Half, max, Value
<1>4. streak' \in 0 .. Half
  BY HalfRange DEF LearnInv, Observe
<1>5. ASSUME counter_o' # X
      PROVE  /\ outcome' => streak' <= Value(counter_o')
             /\ ~outcome' => Value(counter_o') + streak' <= Value(max)
  <2>1. CASE reset /\ counter_o' = zero
    <3>1. streak' = 0 /\ Value(counter_o') = 0
      BY <2>1, ConstantBuses DEF Observe
    <3> QED  BY <3>1, HalfRange
  <2>2. CASE ~reset /\ ~branch /\ counter_o' = counter_o
    BY <2>2, <1>5 DEF Observe, LearnInv
  <2>3. CASE ~reset /\ branch /\ Count(taken)
    <3>1. counter_o # X
      BY <2>3, <1>5 DEF Count
    <3>2. /\ Value(counter_o) \in 0 .. Value(max)
          /\ Value(counter_o')
               = IF taken THEN IF Value(counter_o) = Value(max)
                               THEN Value(max) ELSE Value(counter_o) + 1
                 ELSE IF Value(counter_o) = 0 THEN 0 ELSE Value(counter_o) - 1
      BY <2>3, <3>1, CountStep DEF LearnInv
    <3>3. /\ outcome' = taken
          /\ streak' = IF taken = outcome THEN IF streak < Half THEN streak + 1 ELSE Half ELSE 1
      BY <2>3 DEF Observe
    <3>4. CASE taken
      <4>1. outcome'
        BY <3>3, <3>4
      <4>2. Value(counter_o') \in Int /\ Value(counter_o') >= 1
              /\ (Value(counter_o') = Value(max) \/ Value(counter_o') = Value(counter_o) + 1)
        BY <3>2, <3>4, HalfRange
      <4>3. CASE outcome
        <5>1. streak' = IF streak < Half THEN streak + 1 ELSE Half
          BY <3>3, <3>4, <4>3
        <5>2. streak \in 0 .. Half /\ streak <= Value(counter_o)
          BY <3>1, <4>3 DEF LearnInv
        <5> QED  BY <3>2, <4>1, <4>2, <5>1, <5>2, HalfRange
      <4>4. CASE ~outcome
        <5>1. streak' = 1
          BY <3>3, <3>4, <4>4
        <5> QED  BY <4>1, <4>2, <5>1
      <4> QED  BY <4>3, <4>4
    <3>5. CASE ~taken
      <4>1. ~outcome'
        BY <3>3, <3>5
      <4>2. Value(counter_o') \in Int /\ Value(counter_o') <= Value(max) - 1
              /\ (Value(counter_o') = 0 \/ Value(counter_o') = Value(counter_o) - 1)
        BY <3>2, <3>5, HalfRange
      <4>3. CASE outcome
        <5>1. streak' = 1
          BY <3>3, <3>5, <4>3
        <5> QED  BY <4>1, <4>2, <5>1, HalfRange
      <4>4. CASE ~outcome
        <5>1. streak' = IF streak < Half THEN streak + 1 ELSE Half
          BY <3>3, <3>5, <4>4 DEF LearnInv
        <5>2. streak \in 0 .. Half /\ Value(counter_o) + streak <= Value(max)
          BY <3>1, <4>4 DEF LearnInv
        <5> QED  BY <3>2, <4>1, <4>2, <5>1, <5>2, HalfRange
      <4> QED  BY <4>3, <4>4
    <3> QED  BY <3>4, <3>5
  <2> QED  BY <2>1, <2>2, <2>3 DEF SatEdge
<1> QED  BY <1>1, <1>2, <1>3, <1>4, <1>5 DEF LearnInv

\* The predictor of ex7 predicts an outcome after it has come half the range of
\* the counter in succession, wherever the counter stood, for every width.
THEOREM PredictorLearns == Spec => []Trained
<1>1. Init => LearnInv
  <2> SUFFICES ASSUME Init PROVE LearnInv
    OBVIOUS
  <2>1. counter_o = X /\ outcome \in BOOLEAN
    BY Zenon DEF Init, SatInit
  <2>2. streak \in 0 .. Half
    BY HalfRange DEF Init
  <2> QED  BY <2>1, <2>2 DEF LearnInv, CounterInv
<1>2. LearnInv /\ [Next]_bench => LearnInv'
  <2> SUFFICES ASSUME LearnInv, [Next]_bench PROVE LearnInv'
    OBVIOUS
  <2>1. CASE UNCHANGED bench
    BY <2>1 DEF bench, LearnInv, CounterInv, Half, max, Value
  <2>2. CASE Next
    <3>1. PICK reset, branch, taken \in BOOLEAN, in \in {0, 1} :
             SatEdge(reset, branch, taken) /\ Observe(reset, in, branch, taken)
      BY <2>2 DEF Next, Edge
    <3> QED  BY <3>1, LearnStep
  <2> QED  BY <2>1, <2>2
<1>3. LearnInv => Trained
  <2> SUFFICES ASSUME LearnInv, counter_o # X, streak = Half PROVE prediction = outcome
    BY DEF Trained
  <2>1. /\ outcome => Value(counter_o) >= Half
        /\ ~outcome => Value(counter_o) < Half
        /\ outcome \in BOOLEAN
    <3>1. Value(counter_o) \in 0 .. 15
      BY BusFromValue DEF LearnInv, CounterInv
    <3> QED  BY <3>1, HalfRange DEF LearnInv
  <2>2. /\ prediction \in BOOLEAN
        /\ prediction => Value(counter_o) >= Half
        /\ ~prediction => Value(counter_o) < Half
    BY PredictionIsHalf DEF LearnInv
  <2>3. Value(counter_o) \in Int /\ Half \in Int
    BY BusFromValue, HalfRange DEF LearnInv, CounterInv
  <2>4. prediction <=> outcome
    BY <2>1, <2>2, <2>3
  <2> QED  BY <2>1, <2>2, <2>4
<1> QED  BY <1>1, <1>2, <1>3, PTL DEF Spec
-----------------------------------------------------------------------------
\* The number of ones, modulo 4, says all that the flip-flop says and more.
ParityInv == ones \in 0 .. 3 /\ state \in {0, 1, X} /\ ParityOfInputs

\* The parity of the inputs, through resets at any edge and from an undefined
\* state, for every sequence of inputs.
THEOREM ParityAlwaysRight == Spec => []ParityOfInputs
<1>1. Init => ParityInv
  BY DEF Init, ParityInit, ParityInv, ParityOfInputs
<1>2. ParityInv /\ [Next]_bench => ParityInv'
  <2> SUFFICES ASSUME ParityInv, [Next]_bench PROVE ParityInv'
    OBVIOUS
  <2>1. CASE UNCHANGED bench
    BY <2>1 DEF bench, ParityInv, ParityOfInputs
  <2>2. CASE Next
    <3>1. PICK reset, branch, taken \in BOOLEAN, in \in {0, 1} :
             ParityEdge(reset, in) /\ Observe(reset, in, branch, taken)
      BY <2>2 DEF Next, Edge
    <3>2. ones' = IF reset \/ state = X THEN 0 ELSE (ones + in) % 4
      BY <3>1 DEF Observe
    <3>3. X \notin {0, 1}
      BY SatCountAssumption
    <3>4. CASE reset \/ state = X
      <4>1. state' = 0 /\ ones' = 0
        BY <3>1, <3>2, <3>3, <3>4 DEF ParityEdge
      <4> QED  BY <4>1 DEF ParityInv, ParityOfInputs
    <3>5. CASE ~reset /\ state # X
      <4>1. state = ones % 2 /\ ones \in 0 .. 3 /\ state \in {0, 1}
        BY <3>5 DEF ParityInv, ParityOfInputs
      <4>2. ones' = (ones + in) % 4
        BY <3>2, <3>5
      <4>3. state' = IF state = 0 THEN in ELSE 1 - in
        BY <3>1, <3>3, <3>5, <4>1 DEF ParityEdge
      <4>4. ones = 0 \/ ones = 1 \/ ones = 2 \/ ones = 3
        BY <4>1
      <4>5. in = 0 \/ in = 1
        OBVIOUS
      <4>6. /\ ones' \in 0 .. 3 /\ state' \in {0, 1} /\ state' = ones' % 2
        BY <4>1, <4>2, <4>3, <4>4, <4>5
      <4> QED  BY <4>6 DEF ParityInv, ParityOfInputs
    <3> QED  BY <3>4, <3>5
  <2> QED  BY <2>1, <2>2
<1>3. ParityInv => ParityOfInputs
  BY DEF ParityInv
<1> QED  BY <1>1, <1>2, <1>3, PTL DEF Spec

-----------------------------------------------------------------------------
\* The powers of two that the frames of up to 32 bits need.
Pow2(n) == 2 ^ n

\* The provers know no powers but these.
LEMMA PowerTable ==
    /\ Pow2(0) = 1 /\ Pow2(1) = 2 /\ Pow2(2) = 4 /\ Pow2(3) = 8
    /\ Pow2(4) = 16 /\ Pow2(5) = 32 /\ Pow2(6) = 64 /\ Pow2(7) = 128
    /\ Pow2(8) = 256 /\ Pow2(9) = 512 /\ Pow2(10) = 1024 /\ Pow2(11) = 2048
    /\ Pow2(12) = 4096 /\ Pow2(13) = 8192 /\ Pow2(14) = 16384 /\ Pow2(15) = 32768
    /\ Pow2(16) = 65536 /\ Pow2(17) = 131072 /\ Pow2(18) = 262144 /\ Pow2(19) = 524288
    /\ Pow2(20) = 1048576 /\ Pow2(21) = 2097152 /\ Pow2(22) = 4194304
    /\ Pow2(23) = 8388608 /\ Pow2(24) = 16777216 /\ Pow2(25) = 33554432
    /\ Pow2(26) = 67108864 /\ Pow2(27) = 134217728 /\ Pow2(28) = 268435456
    /\ Pow2(29) = 536870912 /\ Pow2(30) = 1073741824 /\ Pow2(31) = 2147483648
    /\ Pow2(32) = 4294967296
  BY DEF Pow2

\* What is needed of them.
LEMMA Powers ==
    /\ 2 ^ 0 = 1
    /\ \A n \in 0 .. 32 : 2 ^ n \in Nat \ {0}
    /\ \A n \in 0 .. 31 : 2 ^ (n + 1) = 2 * 2 ^ n
    /\ \A m, n \in 0 .. 32 : 2 ^ m = 2 ^ n => m = n
<1>1. \A n \in 0 .. 32 : Pow2(n) \in Nat \ {0}
  BY PowerTable
<1>2. \A n \in 0 .. 31 : Pow2(n + 1) = 2 * Pow2(n)
  BY PowerTable
<1>3. \A m, n \in 0 .. 32 : Pow2(m) = Pow2(n) => m = n
  BY PowerTable
<1> QED  BY PowerTable, <1>1, <1>2, <1>3 DEF Pow2

\* Each power divides the higher ones.
DividesUpTo(n) == \A m \in 0 .. n : \E q \in Nat \ {0} : 2 ^ n = q * 2 ^ m

LEMMA PowersDivide == \A n \in 0 .. 32 : DividesUpTo(n)
<1>1. DividesUpTo(0)
  <2>1. 2 ^ 0 = 1 * 2 ^ 0
    BY Powers
  <2> QED  BY <2>1 DEF DividesUpTo
<1>2. ASSUME NEW n \in 0 .. 31, DividesUpTo(n)
      PROVE  DividesUpTo(n + 1)
  <2> SUFFICES ASSUME NEW m \in 0 .. n + 1
               PROVE  \E q \in Nat \ {0} : 2 ^ (n + 1) = q * 2 ^ m
    BY DEF DividesUpTo
  <2>1. 2 ^ (n + 1) = 2 * 2 ^ n /\ 2 ^ n \in Nat \ {0} /\ 2 ^ m \in Nat \ {0}
    <3>1. n \in 0 .. 32 /\ m \in 0 .. 32
      OBVIOUS
    <3> QED  BY <3>1, Powers
  <2>2. CASE m = n + 1
    <3>1. 2 ^ m = 1 * 2 ^ m
      BY <2>1
    <3> QED  BY <2>2, <3>1
  <2>3. CASE m \in 0 .. n
    <3>1. PICK q \in Nat \ {0} : 2 ^ n = q * 2 ^ m
      BY <1>2, <2>3 DEF DividesUpTo
    <3>2. 2 * (q * 2 ^ m) = (2 * q) * 2 ^ m /\ 2 * q \in Nat \ {0}
      BY <2>1
    <3> QED  BY <2>1, <3>1, <3>2
  <2> QED  BY <2>2, <2>3
<1>3. /\ DividesUpTo(1) /\ DividesUpTo(2) /\ DividesUpTo(3) /\ DividesUpTo(4)
      /\ DividesUpTo(5) /\ DividesUpTo(6) /\ DividesUpTo(7) /\ DividesUpTo(8)
  BY <1>1, <1>2
<1>4. /\ DividesUpTo(9) /\ DividesUpTo(10) /\ DividesUpTo(11) /\ DividesUpTo(12)
      /\ DividesUpTo(13) /\ DividesUpTo(14) /\ DividesUpTo(15) /\ DividesUpTo(16)
  BY <1>2, <1>3
<1>5. /\ DividesUpTo(17) /\ DividesUpTo(18) /\ DividesUpTo(19) /\ DividesUpTo(20)
      /\ DividesUpTo(21) /\ DividesUpTo(22) /\ DividesUpTo(23) /\ DividesUpTo(24)
  BY <1>2, <1>4
<1>6. /\ DividesUpTo(25) /\ DividesUpTo(26) /\ DividesUpTo(27) /\ DividesUpTo(28)
      /\ DividesUpTo(29) /\ DividesUpTo(30) /\ DividesUpTo(31) /\ DividesUpTo(32)
  BY <1>2, <1>5
<1> QED  BY <1>1, <1>3, <1>4, <1>5, <1>6

\* Quotient and remainder.
LEMMA Divided ==
    ASSUME NEW x \in Nat, NEW m \in Nat \ {0}
    PROVE  \E k \in Nat, i \in Nat : x = k * m + i /\ i < m /\ k = x \div m /\ i = x % m
<1>1. x \div m \in Nat /\ x % m \in Nat /\ x % m < m /\ x = (x \div m) * m + (x % m)
  OBVIOUS
<1> QED  BY <1>1

\* The quotient is the only number of its kind.
LEMMA Quotient ==
    ASSUME NEW k \in Int, NEW m \in Nat \ {0}, NEW i \in Int, 0 <= i, i < m, NEW x \in Int,
           x = k * m + i
    PROVE  x \div m = k
<1>1. k * m <= x /\ x < (k + 1) * m
  OBVIOUS
<1>2. \A j \in Int : j * m <= x /\ x < (j + 1) * m => x \div m = j
  OBVIOUS
<1> QED  BY <1>1, <1>2

\* A digit of a number that is shifted left into M values, with a bit that
\* comes in below, is the digit of the number at the place before.
DigitMoves(n, b, p, M) == ((((2 * n) % M) + b) \div (2 * p)) % 2 = (n \div p) % 2
Fourfold(M, p) == \E q \in Nat \ {0} : M = q * (4 * p)

LEMMA ShiftedDigit ==
    ASSUME NEW n \in Nat, NEW b \in {0, 1}, NEW p \in Nat \ {0}, NEW M \in Nat \ {0}, Fourfold(M, p)
    PROVE  DigitMoves(n, b, p, M)
<1>0. PICK q \in Nat \ {0} : M = q * (4 * p)
  BY DEF Fourfold
<1>1. PICK a \in Nat, s \in Nat : n = a * p + s /\ s < p /\ n \div p = a
  BY Divided
<1>2. PICK t \in Nat, y \in Nat : 2 * n = t * M + y /\ y = (2 * n) % M
  <2>1. 2 * n \in Nat
    OBVIOUS
  <2> QED  BY <2>1, Divided
<1> DEFINE u == t * q
<1>3. u \in Nat /\ t * M = u * (4 * p)
  <2>1. t * (q * (4 * p)) = (t * q) * (4 * p) /\ t * q \in Nat
    OBVIOUS
  <2> QED  BY <1>0, <2>1 DEF u
<1> HIDE DEF u
<1>4. y + b = (a - 2 * u) * (2 * p) + (2 * s + b)
  <2>1. PICK ap \in Int : ap = a * p
    BY <1>1
  <2>2. PICK up \in Int : up = u * p
    BY <1>3
  <2>3. (a - 2 * u) * (2 * p) = 2 * ap - 4 * up
    BY <1>1, <1>3, <2>1, <2>2
  <2>4. t * M = 4 * up
    BY <1>3, <2>2
  <2>5. 2 * (ap + s) = t * M + y
    BY <1>1, <1>2, <2>1
  <2>6. b \in Int
    OBVIOUS
  <2>7. y = 2 * ap + 2 * s - 4 * up
    <3>1. 2 * (ap + s) = 4 * up + y
      BY ONLY <2>4, <2>5
    <3> QED  BY ONLY <3>1, s \in Nat, y \in Nat, ap \in Int, up \in Int
  <2> QED  BY ONLY <1>1, <1>2, <2>3, <2>6, <2>7
<1>5. 0 <= 2 * s + b /\ 2 * s + b < 2 * p /\ b \in Int
  BY <1>1
<1>6. (y + b) \div (2 * p) = a - 2 * u
  BY <1>1, <1>3, <1>4, <1>5, Quotient
<1>7. (a - 2 * u) % 2 = a % 2
  BY <1>1, <1>3
<1> QED  BY <1>1, <1>2, <1>6, <1>7 DEF DigitMoves

\* The lowest digit is the bit that came in.
LEMMA LowestDigit ==
    ASSUME NEW n \in Nat, NEW b \in {0, 1}, NEW q \in Nat \ {0}, NEW M \in Nat \ {0}, M = 2 * q
    PROVE  ((((2 * n) % M) + b) \div 1) % 2 = b /\ ((2 * n) % M) + b \in 0 .. M - 1
<1>1. PICK t \in Nat, y \in Nat : 2 * n = t * M + y /\ y = (2 * n) % M /\ y < M
  <2>1. 2 * n \in Nat
    OBVIOUS
  <2> QED  BY <2>1, Divided
<1>2. PICK v \in Int : y = 2 * v
  <2>1. t * (2 * q) = 2 * (t * q) /\ t * q \in Int
    BY <1>1
  <2>2. y = 2 * (n - t * q) /\ n - t * q \in Int
    BY <1>1, <2>1
  <2> QED  BY <2>2
<1>3. (y + b) \div 1 = y + b /\ (2 * v + b) % 2 = b
  BY <1>1, <1>2
<1>4. y + b < M
  BY <1>1, <1>2
<1> QED  BY <1>1, <1>2, <1>3, <1>4

-----------------------------------------------------------------------------
\* The frame under way has one bit at least, its digits are in out_next, and
\* timer has the one at the place that says how many there are.
DesInv ==
    /\ out_next \in 0 .. 2 ^ WIDTH - 1
    /\ \/ timer = 0
       \/ \E k \in 1 .. WIDTH - 1 : timer = 2 ^ (k - 1)

\* timer tells how many bits of the frame are there, before a step and after it.
LEMMA ReceivedSoFar ==
    ASSUME WIDTH <= 32, NEW k \in 1 .. WIDTH - 1, timer = 2 ^ (k - 1)
    PROVE  Received = k
<1>1. \A n \in 1 .. WIDTH - 1 : timer = 2 ^ (n - 1) => n = k
  <2> SUFFICES ASSUME NEW n \in 1 .. WIDTH - 1, timer = 2 ^ (n - 1) PROVE n = k
    OBVIOUS
  <2>1. n - 1 \in 0 .. 32 /\ k - 1 \in 0 .. 32 /\ 2 ^ (n - 1) = 2 ^ (k - 1)
    BY DesAssumption
  <2>2. n - 1 = k - 1
    BY <2>1, Powers
  <2> QED  BY <2>2
<1>2. timer # 0
  <2>1. k - 1 \in 0 .. 32
    BY DesAssumption
  <2> QED  BY <2>1, Powers
<1> QED  BY <1>1, <1>2 DEF Received

LEMMA ReceivedNext ==
    ASSUME WIDTH <= 32, NEW k \in 1 .. WIDTH - 1, timer' = 2 ^ (k - 1)
    PROVE  Received' = k
<1>1. \A n \in 1 .. WIDTH - 1 : timer' = 2 ^ (n - 1) => n = k
  <2> SUFFICES ASSUME NEW n \in 1 .. WIDTH - 1, timer' = 2 ^ (n - 1) PROVE n = k
    OBVIOUS
  <2>1. n - 1 \in 0 .. 32 /\ k - 1 \in 0 .. 32 /\ 2 ^ (n - 1) = 2 ^ (k - 1)
    BY DesAssumption
  <2>2. n - 1 = k - 1
    BY <2>1, Powers
  <2> QED  BY <2>2
<1>2. timer' # 0
  <2>1. k - 1 \in 0 .. 32
    BY DesAssumption
  <2> QED  BY <2>1, Powers
<1> QED  BY <1>1, <1>2 DEF Received

\* out_next takes a bit: the others move up by one place, and it is the lowest.
LEMMA Shifted ==
    ASSUME WIDTH <= 32, NEW n \in Nat, NEW b \in {0, 1}, NEW j \in 0 .. WIDTH - 2
    PROVE  Digit(((2 * n) % 2 ^ WIDTH) + b, j + 1) = Digit(n, j)
<1>1. j \in 0 .. 31 /\ j + 1 \in 0 .. 31 /\ j + 2 \in 0 .. WIDTH /\ WIDTH \in 0 .. 32
  BY DesAssumption
<1>2. 2 ^ (j + 1) = 2 * 2 ^ j /\ 2 ^ ((j + 1) + 1) = 2 * 2 ^ (j + 1) /\ 2 ^ j \in Nat \ {0}
      /\ 2 ^ WIDTH \in Nat \ {0}
  <2>1. j \in 0 .. 32
    BY <1>1
  <2> QED  BY <1>1, <2>1, Powers
<1>3. 2 ^ (j + 2) = 4 * 2 ^ j
  <2>1. (j + 1) + 1 = j + 2
    BY <1>1
  <2> QED  BY <1>2, <2>1
<1>4. PICK q \in Nat \ {0} : 2 ^ WIDTH = q * 2 ^ (j + 2)
  BY <1>1, PowersDivide DEF DividesUpTo
<1>5. Fourfold(2 ^ WIDTH, 2 ^ j)
  BY <1>3, <1>4 DEF Fourfold
<1>6. DigitMoves(n, b, 2 ^ j, 2 ^ WIDTH)
  BY <1>2, <1>5, ShiftedDigit
<1> QED  BY <1>2, <1>6 DEF Digit, DigitMoves

LEMMA ShiftedIn ==
    ASSUME WIDTH <= 32, NEW n \in Nat, NEW b \in {0, 1}
    PROVE  /\ Digit(((2 * n) % 2 ^ WIDTH) + b, 0) = b
           /\ ((2 * n) % 2 ^ WIDTH) + b \in 0 .. 2 ^ WIDTH - 1
<1>1. WIDTH \in 0 .. 32 /\ 1 \in 0 .. WIDTH /\ 0 \in 0 .. 31
  BY DesAssumption
<1>2. PICK q \in Nat \ {0} : 2 ^ WIDTH = q * 2 ^ 1
  BY <1>1, PowersDivide DEF DividesUpTo
<1>3. 2 ^ 1 = 2 /\ 2 ^ 0 = 1
  BY PowerTable DEF Pow2
<1>4. 2 ^ WIDTH = 2 * q /\ 2 ^ WIDTH \in Nat \ {0}
  BY <1>1, <1>2, <1>3, Powers
<1>5. PICK M \in Nat \ {0} : M = 2 ^ WIDTH
  BY <1>4
<1>6. ((((2 * n) % M) + b) \div 1) % 2 = b /\ ((2 * n) % M) + b \in 0 .. M - 1
  <2>1. M = 2 * q
    BY <1>4, <1>5
  <2> QED  BY ONLY <2>1, LowestDigit, n \in Nat, b \in {0, 1}, q \in Nat \ {0}, M \in Nat \ {0}
<1> QED  BY <1>3, <1>5, <1>6 DEF Digit

\* A sequence that goes on.
LEMMA AppendDigit ==
    ASSUME NEW k \in Nat, NEW f, f = [i \in 1 .. k |-> f[i]], NEW b
    PROVE  Append(f, b) = [i \in 1 .. k + 1 |-> IF i = k + 1 THEN b ELSE f[i]]
  OBVIOUS

\* A digit above which a multiple is added does not change.
HigherAdds(x, p, z) == ((x + z) \div p) % 2 = (x \div p) % 2
Even(z, p) == \E q \in Nat : z = q * (2 * p)

LEMMA HigherDigit ==
    ASSUME NEW x \in Nat, NEW p \in Nat \ {0}, NEW z \in Nat, Even(z, p)
    PROVE  HigherAdds(x, p, z)
<1>1. PICK q \in Nat : z = q * (2 * p)
  BY DEF Even
<1>2. PICK a \in Nat, s \in Nat : x = a * p + s /\ s < p /\ a = x \div p
  BY Divided
<1>3. x + z = (a + 2 * q) * p + s
  <2>1. PICK ap \in Int, qp \in Int : ap = a * p /\ qp = q * p
    BY <1>1, <1>2
  <2>2. z = 2 * qp /\ (a + 2 * q) * p = ap + 2 * qp
    BY <1>1, <1>2, <2>1
  <2>3. x = ap + s
    BY <1>2, <2>1
  <2>4. x + z = (ap + 2 * qp) + s
    BY ONLY <2>2, <2>3, s \in Nat, ap \in Int, qp \in Int
  <2> QED  BY <2>2, <2>4
<1>4. (x + z) \div p = a + 2 * q
  <2>1. PICK v \in Int, y \in Int : v = a + 2 * q /\ y = x + z
    OBVIOUS
  <2>2. y = v * p + s
    BY ONLY <1>3, <2>1
  <2>3. 0 <= s /\ s < p /\ s \in Int
    BY <1>2
  <2>4. y \div p = v
    BY <2>2, <2>3, Quotient
  <2> QED  BY <2>1, <2>4
<1>5. (a + 2 * q) % 2 = a % 2
  OBVIOUS
<1> QED  BY <1>2, <1>4, <1>5 DEF HigherAdds

\* Numbers of k digits are told apart by them.
SameDigits(m, n, k) == \A j \in 0 .. k - 1 : Digit(m, j) = Digit(n, j)
ToldApart(k) == \A m, n \in 0 .. 2 ^ k - 1 : SameDigits(m, n, k) => m = n

\* A number of k + 1 digits is its highest one and a number of k digits.
LEMMA HighestDigit ==
    ASSUME NEW k \in 0 .. 31, NEW n \in 0 .. 2 ^ (k + 1) - 1
    PROVE  \E l \in 0 .. 2 ^ k - 1 :
              /\ n = l + Digit(n, k) * 2 ^ k /\ Digit(n, k) \in {0, 1}
              /\ SameDigits(l, n, k)
<1>1. PICK H \in Nat \ {0} : H = 2 ^ k /\ 2 ^ (k + 1) = 2 * H
  <2>1. k \in 0 .. 32
    OBVIOUS
  <2> QED  BY <2>1, Powers
<1>2. n \in Nat /\ n < 2 * H
  BY <1>1
<1>3. PICK a \in Nat, l \in Nat : n = a * H + l /\ l < H /\ a = n \div H
  BY <1>2, Divided
<1>4. a \in {0, 1}
  <2>1. CASE a >= 2
    <3>1. a * H >= 2 * H
      BY <2>1
    <3>2. a * H \in Int
      OBVIOUS
    <3> QED  BY <1>2, <1>3, <3>1, <3>2
  <2> QED  BY <2>1
<1>5. Digit(n, k) = a
  <2>1. a % 2 = a
    BY <1>4
  <2> QED  BY <1>1, <1>3, <2>1 DEF Digit
<1>6. SameDigits(l, n, k)
  <2> SUFFICES ASSUME NEW j \in 0 .. k - 1 PROVE Digit(l, j) = Digit(n, j)
    BY DEF SameDigits
  <2>1. PICK p \in Nat \ {0} : p = 2 ^ j
    <3>1. j \in 0 .. 32
      OBVIOUS
    <3> QED  BY <3>1, Powers
  <2>2. PICK q \in Nat \ {0} : H = q * (2 * p)
    <3>1. k \in 0 .. 32 /\ j + 1 \in 0 .. k /\ j \in 0 .. 31
      OBVIOUS
    <3>2. PICK q \in Nat \ {0} : 2 ^ k = q * 2 ^ (j + 1)
      BY <3>1, PowersDivide DEF DividesUpTo
    <3>3. 2 ^ (j + 1) = 2 * 2 ^ j
      BY <3>1, Powers
    <3> QED  BY <1>1, <2>1, <3>2, <3>3
  <2>3. CASE a = 0
    <3>1. n = l
      BY <1>3, <2>3
    <3> QED  BY <3>1
  <2>4. CASE a = 1
    <3>1. n = l + H
      BY <1>3, <2>4
    <3>2. Even(H, p)
      BY <2>2 DEF Even
    <3>3. HigherAdds(l, p, H)
      BY <3>2, HigherDigit
    <3> QED  BY <2>1, <3>1, <3>3 DEF HigherAdds, Digit
  <2> QED  BY <1>4, <2>3, <2>4
<1>7. l \in 0 .. 2 ^ k - 1 /\ n = l + a * H
  BY <1>1, <1>3
<1> QED  BY <1>1, <1>4, <1>5, <1>6, <1>7

\* From digit to digit.
LEMMA DigitsTellApart == \A k \in 0 .. 32 : ToldApart(k)
<1>1. ToldApart(0)
  BY Powers DEF ToldApart
<1>2. ASSUME NEW k \in 0 .. 31, ToldApart(k)
      PROVE  ToldApart(k + 1)
  <2> SUFFICES ASSUME NEW m \in 0 .. 2 ^ (k + 1) - 1, NEW n \in 0 .. 2 ^ (k + 1) - 1,
                      SameDigits(m, n, k + 1)
               PROVE  m = n
    BY DEF ToldApart
  <2>1. PICK a \in 0 .. 2 ^ k - 1 : m = a + Digit(m, k) * 2 ^ k /\ SameDigits(a, m, k)
    BY HighestDigit
  <2>2. PICK b \in 0 .. 2 ^ k - 1 : n = b + Digit(n, k) * 2 ^ k /\ SameDigits(b, n, k)
    BY HighestDigit
  <2>3. Digit(m, k) = Digit(n, k) /\ SameDigits(m, n, k)
    BY DEF SameDigits
  <2>4. SameDigits(a, b, k)
    BY <2>1, <2>2, <2>3 DEF SameDigits
  <2>5. a = b
    BY <1>2, <2>4 DEF ToldApart
  <2> QED  BY <2>1, <2>2, <2>3, <2>5
<1>3. /\ ToldApart(1) /\ ToldApart(2) /\ ToldApart(3) /\ ToldApart(4)
      /\ ToldApart(5) /\ ToldApart(6) /\ ToldApart(7) /\ ToldApart(8)
  BY <1>1, <1>2
<1>4. /\ ToldApart(9) /\ ToldApart(10) /\ ToldApart(11) /\ ToldApart(12)
      /\ ToldApart(13) /\ ToldApart(14) /\ ToldApart(15) /\ ToldApart(16)
  BY <1>2, <1>3
<1>5. /\ ToldApart(17) /\ ToldApart(18) /\ ToldApart(19) /\ ToldApart(20)
      /\ ToldApart(21) /\ ToldApart(22) /\ ToldApart(23) /\ ToldApart(24)
  BY <1>2, <1>4
<1>6. /\ ToldApart(25) /\ ToldApart(26) /\ ToldApart(27) /\ ToldApart(28)
      /\ ToldApart(29) /\ ToldApart(30) /\ ToldApart(31) /\ ToldApart(32)
  BY <1>2, <1>5
<1> QED  BY <1>1, <1>3, <1>4, <1>5, <1>6

\* The bits of a frame of up to 32 bits are the digits of one number only, which
\* therefore is the number of the frame.
LEMMA FrameHasOneWord ==
    ASSUME NEW bits, Len(bits) \in 0 .. 32, NEW n, Frames!Reads(n, bits)
    PROVE  Frames!Number(bits) = n
<1> DEFINE k == Len(bits)
<1>1. ASSUME NEW m, Frames!Reads(m, bits) PROVE m = n
  <2>1. m \in 0 .. 2 ^ k - 1 /\ n \in 0 .. 2 ^ k - 1
    BY <1>1 DEF Frames!Reads
  <2>2. SameDigits(m, n, k)
    <3> SUFFICES ASSUME NEW j \in 0 .. k - 1 PROVE Digit(m, j) = Digit(n, j)
      BY DEF SameDigits
    <3>1. k - j \in 1 .. k /\ k - (k - j) = j
      OBVIOUS
    <3>2. Digit(m, k - (k - j)) = bits[k - j] /\ Digit(n, k - (k - j)) = bits[k - j]
      BY <1>1, <3>1 DEF Frames!Reads, Digit
    <3> QED  BY <3>1, <3>2
  <2> QED  BY <2>1, <2>2, DigitsTellApart DEF ToldApart
<1>2. n \in 0 .. 2 ^ k - 1
  BY DEF Frames!Reads
<1> QED  BY <1>1, <1>2 DEF Frames!Number

\* An edge takes a bit into the frame under way, or shows the complete one.
LEMMA DesStep ==
    ASSUME WIDTH <= 32, DesInv, NEW reset \in BOOLEAN, NEW in \in {0, 1}, DesEdge(reset, in)
    PROVE  /\ DesInv'
           /\ \/ /\ Received < WIDTH /\ Bits' = Append(Bits, in)
                 /\ out' = IF reset THEN 0 ELSE out
              \/ /\ Received = WIDTH /\ Bits' = <<in>>
                 /\ out' = IF reset THEN 0 ELSE out_next
<1>1. /\ WIDTH \in 2 .. 32 /\ out_next \in Nat
      /\ out_next' = ((2 * out_next) % 2 ^ WIDTH) + in
      /\ timer' = IF timer = 0 THEN 1 ELSE (2 * timer) % 2 ^ (WIDTH - 1)
      /\ out' = IF reset THEN 0 ELSE IF timer = 0 THEN out_next ELSE out
  <2>1. WIDTH \in 2 .. 32 /\ WIDTH \in 0 .. 32
    BY DesAssumption
  <2>2. 2 ^ WIDTH \in Nat \ {0}
    BY <2>1, Powers
  <2> QED  BY <2>1, <2>2 DEF DesInv, DesEdge
<1>2. out_next' \in 0 .. 2 ^ WIDTH - 1 /\ Digit(out_next', 0) = in
  BY <1>1, ShiftedIn
<1>3. 2 ^ 0 = 1
  BY Powers
<1>4. CASE timer = 0
  <2>1. timer' = 2 ^ (1 - 1) /\ 1 \in 1 .. WIDTH - 1
    BY <1>1, <1>3, <1>4
  <2>2. Received' = 1
    BY <2>1, ReceivedNext
  <2>3. Bits' = <<in>>
    <3>1. Bits' = [i \in 1 .. 1 |-> Digit(out_next', 1 - i)]
      BY <2>2 DEF Bits
    <3>2. \A i \in 1 .. 1 : 1 - i = 0
      OBVIOUS
    <3> QED  BY <1>2, <3>1, <3>2
  <2>4. Received = WIDTH
    BY <1>4 DEF Received
  <2> QED  BY <1>1, <1>2, <1>4, <2>1, <2>3, <2>4 DEF DesInv
<1>5. CASE timer # 0
  <2>1. PICK k \in 1 .. WIDTH - 1 : timer = 2 ^ (k - 1)
    BY <1>5 DEF DesInv
  <2>2. Received = k
    BY <2>1, ReceivedSoFar
  <2>3. 2 * timer = 2 ^ k /\ 2 ^ k \in Nat \ {0}
    <3>1. k - 1 \in 0 .. 31 /\ (k - 1) + 1 = k /\ k \in 0 .. 32
      BY <1>1
    <3> QED  BY <2>1, <3>1, Powers
  <2>4. Received' = k + 1 /\ DesInv'
    <3>1. CASE k = WIDTH - 1
      <4>1. timer' = 0
        BY <1>1, <1>5, <2>3, <3>1
      <4> QED  BY <1>1, <1>2, <3>1, <4>1 DEF DesInv, Received
    <3>2. CASE k < WIDTH - 1
      <4>1. PICK q \in Nat \ {0} : 2 ^ (WIDTH - 1) = q * 2 ^ (k + 1)
        <5>1. WIDTH - 1 \in 0 .. 32 /\ k + 1 \in 0 .. WIDTH - 1
          BY <1>1, <3>2
        <5> QED  BY <5>1, PowersDivide DEF DividesUpTo
      <4>2. 2 ^ (k + 1) = 2 * 2 ^ k
        <5>1. k \in 0 .. 31
          BY <1>1
        <5> QED  BY <5>1, Powers
      <4>3. 2 ^ k < 2 ^ (WIDTH - 1) /\ 2 ^ (WIDTH - 1) \in Nat
        <5>1. PICK p \in Nat \ {0} : p = 2 ^ k
          BY <2>3
        <5>2. q * (2 * p) \in Nat /\ p < q * (2 * p)
          BY <5>1
        <5> QED  BY <4>1, <4>2, <5>1, <5>2
      <4>4. timer' = 2 ^ ((k + 1) - 1) /\ k + 1 \in 1 .. WIDTH - 1
        <5>1. (2 ^ k) % 2 ^ (WIDTH - 1) = 2 ^ k
          BY <2>3, <4>3
        <5>2. (k + 1) - 1 = k
          OBVIOUS
        <5> QED  BY <1>1, <1>5, <2>3, <3>2, <5>1, <5>2
      <4> QED  BY <1>2, <4>4, ReceivedNext DEF DesInv
    <3> QED  BY <1>1, <3>1, <3>2
  <2>5. Bits' = [i \in 1 .. k + 1 |-> Digit(out_next', (k + 1) - i)]
    BY <2>4 DEF Bits
  <2>6. Bits = [i \in 1 .. k |-> Digit(out_next, k - i)]
    BY <2>2 DEF Bits
  <2>7. \A i \in 1 .. k : Digit(out_next', (k + 1) - i) = Digit(out_next, k - i)
    <3> SUFFICES ASSUME NEW i \in 1 .. k
                 PROVE  Digit(out_next', (k + 1) - i) = Digit(out_next, k - i)
      OBVIOUS
    <3>1. k - i \in 0 .. WIDTH - 2 /\ (k - i) + 1 = (k + 1) - i
      BY <1>1
    <3> QED  BY <1>1, <3>1, Shifted
  <2>8. (k + 1) - (k + 1) = 0 /\ k \in Nat
    OBVIOUS
  <2>9. Bits' = Append(Bits, in)
    <3> DEFINE d(i) == Digit(out_next, k - i)
    <3>1. Bits = [i \in 1 .. k |-> d(i)]
      BY <2>6
    <3>2. Bits' = [i \in 1 .. k + 1 |-> IF i = k + 1 THEN in ELSE d(i)]
      BY <1>2, <2>5, <2>7, <2>8
    <3>3. Bits' = [i \in 1 .. k + 1 |-> IF i = k + 1 THEN in ELSE Bits[i]]
      BY <3>1, <3>2
    <3>4. Bits = [i \in 1 .. k |-> Bits[i]]
      BY <3>1
    <3> QED  BY <2>8, <3>3, <3>4, AppendDigit
  <2>10. out' = IF reset THEN 0 ELSE out
    BY <1>1, <1>5
  <2>11. Received < WIDTH
    BY <1>1, <2>2
  <2> QED  BY <2>4, <2>9, <2>10, <2>11
<1> QED  BY <1>4, <1>5

\* The deserialiser shows every complete frame from the edge behind it to the
\* end of the next one and nothing else, in order, none skipped and none shown
\* twice, whatever the bits are; a reset, and only a reset, hides the word of its
\* edge, and the frame under way goes on: for frames of up to 32 bits.
THEOREM FramesComplete ==
    ASSUME WIDTH <= 32
    PROVE  Spec => FramesSpec
<1>1. Init => DesInv /\ Frames!Init
  <2> SUFFICES ASSUME Init PROVE DesInv /\ Frames!Init
    OBVIOUS
  <2>1. out_next = 0 /\ out = 0 /\ timer = 1 /\ WIDTH \in 0 .. 32
    BY DesAssumption DEF Init, DesInit
  <2>2. timer = 2 ^ (1 - 1) /\ 1 \in 1 .. WIDTH - 1 /\ 2 ^ WIDTH \in Nat \ {0} /\ 2 ^ 0 = 1
    <3>1. 2 ^ WIDTH \in Nat \ {0} /\ 2 ^ 0 = 1
      BY <2>1, Powers
    <3>2. 1 - 1 = 0 /\ 1 \in 1 .. WIDTH - 1
      BY DesAssumption
    <3> QED  BY <2>1, <3>1, <3>2
  <2>3. Received = 1
    BY <2>2, ReceivedSoFar
  <2>4. Bits = <<0>>
    <3>1. Bits = [i \in 1 .. 1 |-> Digit(0, 1 - i)]
      BY <2>1, <2>3 DEF Bits
    <3>2. \A i \in 1 .. 1 : Digit(0, 1 - i) = 0
      <4>1. \A i \in 1 .. 1 : 1 - i = 0
        OBVIOUS
      <4>2. (0 \div 1) % 2 = 0
        OBVIOUS
      <4> QED  BY <2>2, <4>1, <4>2 DEF Digit
    <3> QED  BY <3>1, <3>2
  <2>5. out_next \in 0 .. 2 ^ WIDTH - 1
    BY <2>1, <2>2
  <2>6. DesInv
    BY <2>2, <2>5 DEF DesInv
  <2>7. Frames!Init
    BY <2>1, <2>4 DEF Init, Frames!Init
  <2> QED  BY <2>6, <2>7
<1>2. DesInv /\ [Next]_bench => DesInv' /\ [Frames!Next]_<<Bits, out, cleared>>
  <2> SUFFICES ASSUME DesInv, [Next]_bench
               PROVE  DesInv' /\ [Frames!Next]_<<Bits, out, cleared>>
    OBVIOUS
  <2>1. CASE UNCHANGED bench
    <3>1. out_next' = out_next /\ out' = out /\ timer' = timer /\ cleared' = cleared
      BY <2>1 DEF bench, des
    <3> QED  BY <3>1 DEF DesInv, Bits, Received
  <2>2. CASE Next
    <3>1. PICK reset \in BOOLEAN, in \in {0, 1} : DesEdge(reset, in) /\ cleared' = reset
      BY <2>2 DEF Next, Edge, Observe
    <3> DEFINE Takes  == Received < WIDTH /\ Bits' = Append(Bits, in)
                           /\ out' = IF reset THEN 0 ELSE out
               Closes == Received = WIDTH /\ Bits' = <<in>>
                           /\ out' = IF reset THEN 0 ELSE out_next
    <3>2. DesInv' /\ (Takes \/ Closes)
      BY <3>1, DesStep
    <3>3. Received \in 1 .. WIDTH
      <4>1. CASE timer = 0
        BY <4>1, DesAssumption DEF Received
      <4>2. CASE timer # 0
        BY <4>2, ReceivedSoFar, DesAssumption DEF DesInv
      <4> QED  BY <4>1, <4>2
    <3>4. Len(Bits) = Received
      BY <3>3 DEF Bits
    <3>5. CASE Takes
      BY <3>1, <3>2, <3>4, <3>5 DEF Frames!Next, Frames!More, Frames!Show
    <3>6. CASE Closes
      <4>1. out_next \in 0 .. 2 ^ WIDTH - 1
        BY DEF DesInv
      <4>2. Frames!Reads(out_next, Bits)
        BY <3>3, <3>4, <3>6, <4>1 DEF Frames!Reads, Bits, Digit
      <4>3. Frames!Number(Bits) = out_next
        <5>1. Len(Bits) \in 0 .. 32
          BY <3>4, <3>6, DesAssumption
        <5> QED  BY <4>2, <5>1, FrameHasOneWord
      <4> QED  BY <3>1, <3>2, <3>4, <3>6, <4>3
                  DEF Frames!Next, Frames!Complete, Frames!Show
    <3> QED  BY <3>2, <3>5, <3>6
  <2> QED  BY <2>1, <2>2
<1> QED  BY <1>1, <1>2, PTL DEF Spec, FramesSpec, Frames!Spec
=============================================================================
