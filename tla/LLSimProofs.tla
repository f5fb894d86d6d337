---------------------------- MODULE LLSimProofs ----------------------------
(***************************************************************************)
(* A clock of the simulator is atomic: for memories of any number and      *)
(* height, any program file, and units that make any number of calls in    *)
(* any order; and the unit starts from the image of the file.  Types       *)
(* states what the variables hold; Between, Waiting and Served follow the  *)
(* requests of a clock from the call to the memory; Clean follows the      *)
(* words of the file through loading and reset.                            *)
(***************************************************************************)
EXTENDS LLSimProps, TLAPS

Call  == [by : Nat, addr : Int]
WCall == [by : Nat, addr : Int, val : Int]
Posts == [Mems -> [rd : SUBSET Call, wr : SUBSET WCall]]

Types ==
    /\ file \in Files /\ loaded \in Nat
    /\ mem \in [Mems -> Memory] /\ before \in [Mems -> Memory]
    /\ serving \in Nat \ {0} /\ calls \in Nat
    /\ posted \in Posts
    /\ clock \in Nat

\* The calls of a clock are numbered from 0.
Numbered == \A m \in Mems : \A q \in posted[m].rd \cup posted[m].wr : q.by < calls

\* Outside of a clock nothing is pending.
Between ==
    phase \in {"load", "idle"} =>
        /\ posted = NoCalls
        /\ \A m \in Mems : ~mem[m].read /\ ~mem[m].write
        /\ phase = "idle" => before = mem

\* A memory that has not been served yet: its requests are those posted.
Waiting(m) ==
    /\ mem[m].data = before[m].data
    /\ mem[m].dataout = before[m].dataout
    /\ IF mem[m].read THEN \E n \in Nat : posted[m].rd = {[by |-> n, addr |-> mem[m].read_addr]}
                      ELSE posted[m].rd = {}
    /\ IF mem[m].write
       THEN \E n \in Nat : posted[m].wr = {[by |-> n, addr |-> mem[m].write_addr,
                                            val |-> mem[m].datain]}
       ELSE posted[m].wr = {}

\* What LLSimMem!Clock says, between the memory before and after.
Effect(m) ==
    \/ /\ posted[m].rd = {} /\ posted[m].wr = {}
       /\ mem[m].dataout = Baad /\ mem[m].data = before[m].data
    \/ \E q \in posted[m].rd :
       /\ posted[m].rd = {q} /\ posted[m].wr = {} /\ q.addr \in Address
       /\ mem[m].dataout = before[m].data[q.addr] /\ mem[m].data = before[m].data
    \/ \E w \in posted[m].wr :
       /\ posted[m].wr = {w} /\ posted[m].rd = {} /\ w.addr \in Address
       /\ mem[m].dataout = before[m].dataout
       /\ mem[m].data = [before[m].data EXCEPT ![w.addr] = w.val]

Served(m) == ~mem[m].read /\ ~mem[m].write /\ Effect(m)

Past(m) == \E k \in 1 .. Len(MemList) : k < serving /\ MemList[k] = m

Within ==
    sim = "running" =>
        /\ phase = "run" => serving = 1 /\ \A m \in Mems : Waiting(m)
        /\ phase = "serve" => \A m \in Mems : IF Past(m) THEN Served(m) ELSE Waiting(m)

Phases == phase \in {"load", "idle", "run", "serve"}

\* The reason of an early exit is on record.
Exits ==
    /\ sim \in {"running", "stopped", "conflict", "range", "undefined"}
    /\ sim \notin {"running", "stopped"} =>
         /\ phase \in {"run", "serve"}
         /\ \E m \in Mems :
               \/ sim = "conflict" /\ Seen(m)!Conflict(posted[m].rd, posted[m].wr)
               \/ sim = "range" /\ Seen(m)!OutOfRange(posted[m].rd, posted[m].wr)
               \/ sim = "undefined" /\ Seen(m)!Wild(posted[m].rd, posted[m].wr)

IInv == Types /\ Numbered /\ Between /\ Within /\ Phases /\ Exits
-----------------------------------------------------------------------------
\* The memory operations keep the shape of a memory.
LEMMA ImageWord ==
    ASSUME LLSimAssumption, Types
    PROVE  MemoryImage(file, loaded) \in Int
<1>1. file.words \in Seq(Words)
  BY DEF LLSimAssumption, Types
<1>2. CASE loaded < Len(file.words)
  <2>1. loaded + 1 \in 1 .. Len(file.words)
    BY <1>1, <1>2 DEF Types
  <2>2. file.words[loaded + 1] \in Words
    BY <1>1, <2>1
  <2>3. QED
    BY <1>2, <2>2 DEF LLSimAssumption, MemoryImage
<1>3. CASE ~(loaded < Len(file.words))
  BY <1>3 DEF MemoryImage
<1>4. QED
  BY <1>2, <1>3

LEMMA InjectType ==
    ASSUME NEW d \in [Block -> Int], NEW a \in Nat, NEW v \in Int
    PROVE  Inject(d, a, v) \in [Block -> Int]
<1> DEFINE e == [d EXCEPT ![a] = v]
<1>1. e \in [Block -> Int]
  OBVIOUS
<1>2. CASE a + 1 \in Block
  <2>1. (IF v < 0 THEN -1 ELSE d[a + 1]) \in Int
    BY <1>2
  <2>2. QED
    BY <1>1, <2>1 DEF Inject
<1>3. CASE a + 1 \notin Block
  BY <1>1, <1>3 DEF Inject
<1>4. QED
  BY <1>2, <1>3

LEMMA InitIInv == LLSimAssumption /\ Init => IInv
<1> SUFFICES ASSUME LLSimAssumption, Init PROVE IInv
  OBVIOUS
<1>1. Cleared \in Memory
  BY DEF Cleared, Memory
<1>2. mem \in [Mems -> Memory] /\ before \in [Mems -> Memory]
  BY <1>1 DEF Init
<1>3. posted \in Posts
  BY DEF Init, NoCalls, Posts
<1>4. Types
  BY <1>2, <1>3 DEF Init, Types
<1>5. Numbered
  BY DEF Init, NoCalls, Numbered
<1>6. Between
  BY DEF Init, NoCalls, Between, Cleared
<1>7. QED
  BY <1>4, <1>5, <1>6 DEF Init, IInv, Within, Phases, Exits

\* Loading only changes words.
LEMMA LoadStep == LLSimAssumption /\ IInv /\ LoadWord => IInv'
<1> SUFFICES ASSUME LLSimAssumption, IInv, LoadWord PROVE IInv'
  OBVIOUS
<1>1. mem' \in [Mems -> Memory]
  <2> DEFINE w == MemoryImage(file, loaded)
  <2>1. w \in Int
    BY ImageWord DEF IInv
  <2>2. \A m \in Mems : [mem[m] EXCEPT !.data = Inject(@, loaded, w)] \in Memory
    <3> SUFFICES ASSUME NEW m \in Mems
                 PROVE  [mem[m] EXCEPT !.data = Inject(@, loaded, w)] \in Memory
      OBVIOUS
    <3>1. mem[m] \in Memory /\ mem[m].data \in [Block -> Int] /\ loaded \in Nat
      BY DEF IInv, Types, Memory
    <3>2. Inject(mem[m].data, loaded, w) \in [Block -> Int]
      BY <2>1, <3>1, InjectType
    <3> HIDE DEF w
    <3>3. QED
      BY <3>1, <3>2 DEF Memory
  <2>3. mem' = [m \in Mems |-> [mem[m] EXCEPT !.data = Inject(@, loaded, w)]]
    BY DEF LoadWord
  <2>4. QED
    BY <2>2, <2>3
<1>2. Types'
  BY <1>1 DEF IInv, Types, LoadWord
<1>3. Numbered'
  BY DEF IInv, Numbered, LoadWord
<1>4. \A m \in Mems : mem'[m].read = mem[m].read /\ mem'[m].write = mem[m].write
  BY DEF LoadWord, IInv, Types, Memory
<1>5. Between'
  BY <1>4 DEF IInv, Between, LoadWord
<1>6. QED
  BY <1>2, <1>3, <1>5 DEF IInv, Within, Phases, Exits, LoadWord

LEMMA ResetValuesStep == IInv /\ InitResetValues => IInv'
<1> SUFFICES ASSUME IInv, InitResetValues PROVE IInv'
  OBVIOUS
<1>1. Types'
  BY DEF IInv, Types, InitResetValues
<1>2. Between'
  BY DEF IInv, Between, InitResetValues
<1>3. QED
  BY <1>1, <1>2 DEF IInv, Numbered, Within, Phases, Exits, InitResetValues

LEMMA BeginStep == IInv /\ BeginClock => IInv'
<1> SUFFICES ASSUME IInv, BeginClock PROVE IInv'
  OBVIOUS
<1>a. /\ phase = "idle" /\ posted = NoCalls /\ before = mem
      /\ \A m \in Mems : ~mem[m].read /\ ~mem[m].write
      /\ sim = "running"
  BY DEF IInv, Between, BeginClock
<1>b. UNCHANGED <<file, loaded, old, clock, stop_sim, sim, calls, posted, before>>
  BY DEF BeginClock
<1>c. phase' \in {"run", "serve"} /\ serving' = 1
  BY DEF BeginClock
<1>d. \/ mem' = mem
      \/ mem' = [m \in Mems |-> [mem[m] EXCEPT !.read = FALSE, !.write = FALSE]]
  BY DEF BeginClock
<1>1. /\ mem' \in [Mems -> Memory]
      /\ \A m \in Mems : /\ mem'[m].data = mem[m].data
                         /\ mem'[m].dataout = mem[m].dataout
                         /\ ~mem'[m].read /\ ~mem'[m].write
  <2>1. CASE mem' = mem
    BY <1>a, <2>1 DEF IInv, Types
  <2>2. CASE mem' = [m \in Mems |-> [mem[m] EXCEPT !.read = FALSE, !.write = FALSE]]
    BY <2>2 DEF IInv, Types, Memory
  <2>3. QED
    BY <1>d, <2>1, <2>2
<1>2. Types'
  BY <1>1, <1>b, <1>c DEF IInv, Types
<1>3. \A m \in Mems : Waiting(m)'
  <2> SUFFICES ASSUME NEW m \in Mems PROVE Waiting(m)'
    OBVIOUS
  <2>1. posted'[m].rd = {} /\ posted'[m].wr = {}
    BY <1>a, <1>b DEF NoCalls
  <2>2. mem'[m].data = before'[m].data /\ mem'[m].dataout = before'[m].dataout
    BY <1>1, <1>a, <1>b
  <2>3. QED
    BY <2>1, <2>2, <1>1 DEF Waiting
<1>4. \A m \in Mems : ~Past(m)'
  BY <1>c DEF Past
<1>5. Within'
  BY <1>3, <1>4, <1>c DEF Within
<1>6. Exits'
  BY <1>a, <1>b, <1>c DEF Exits
<1>7. QED
  BY <1>2, <1>5, <1>6, <1>b, <1>c DEF IInv, Numbered, Between, Phases
-----------------------------------------------------------------------------
\* A call is recorded under a new number, and the flags follow the record.
LEMMA ReadStep ==
    ASSUME IInv, NEW m \in Mems, NEW a \in Int, MemRead(m, a)
    PROVE  IInv'
<1>a. /\ phase = "run" /\ phase' = "run" /\ sim = "running" /\ calls' = calls + 1
      /\ UNCHANGED <<file, loaded, old, new, clock, stop_sim, serving, before>>
      /\ posted' = [posted EXCEPT ![m].rd = @ \cup {[by |-> calls, addr |-> a]}]
      /\ sim' = IF ~mem[m].read THEN sim ELSE "conflict"
      /\ mem' = IF mem[m].read THEN mem
                ELSE [mem EXCEPT ![m].read = TRUE, ![m].read_addr = a]
  BY DEF MemRead, Calling, Assertion
<1>b. /\ mem \in [Mems -> Memory] /\ posted \in Posts /\ calls \in Nat
      /\ serving = 1 /\ \A n \in Mems : Waiting(n)
  BY <1>a DEF IInv, Types, Within
<1>c. /\ posted'[m].rd = posted[m].rd \cup {[by |-> calls, addr |-> a]}
      /\ posted'[m].wr = posted[m].wr
      /\ \A n \in Mems \ {m} : posted'[n] = posted[n]
  BY <1>a, <1>b DEF Posts
<1>d. [by |-> calls, addr |-> a] \in Call
  BY <1>b DEF Call
<1>1. mem' \in [Mems -> Memory]
  BY <1>a, <1>b DEF Memory
<1>2. posted' \in Posts
  BY <1>a, <1>b, <1>d DEF Posts
<1>3. Types'
  BY <1>1, <1>2, <1>a DEF IInv, Types
<1>4. Numbered'
  <2> SUFFICES ASSUME NEW n \in Mems, NEW q \in posted'[n].rd \cup posted'[n].wr
               PROVE  q.by < calls'
    BY DEF Numbered
  <2>1. CASE q \in posted[n].rd \cup posted[n].wr
    <3>1. q.by < calls /\ q.by \in Nat
      BY <2>1, <1>b DEF IInv, Numbered, Posts, Call, WCall
    <3>2. QED
      BY <3>1, <1>a, <1>b
  <2>2. CASE q = [by |-> calls, addr |-> a]
    BY <2>2, <1>a, <1>b
  <2>3. QED
    BY <2>1, <2>2, <1>c
<1>5. CASE mem[m].read
  <2>1. PICK k \in Nat : posted[m].rd = {[by |-> k, addr |-> mem[m].read_addr]}
    BY <1>b, <1>5 DEF Waiting
  <2>2. k < calls
    <3>1. [by |-> k, addr |-> mem[m].read_addr].by < calls
      BY <2>1 DEF IInv, Numbered
    <3>2. QED
      BY <3>1
  <2>3. [by |-> k, addr |-> mem[m].read_addr] # [by |-> calls, addr |-> a]
    BY <2>2, <1>b
  <2>4. Seen(m)!Conflict(posted'[m].rd, posted'[m].wr)
    BY <2>1, <2>3, <1>c DEF Seen!Conflict
  <2>5. Exits'
    BY <2>4, <1>a, <1>5 DEF Exits, Seen!Conflict
  <2>6. QED
    BY <2>5, <1>3, <1>4, <1>5, <1>a DEF IInv, Between, Within, Phases
<1>6. CASE ~mem[m].read
  <2>1. /\ mem'[m].data = mem[m].data /\ mem'[m].dataout = mem[m].dataout
        /\ mem'[m].read /\ mem'[m].read_addr = a
        /\ mem'[m].write = mem[m].write /\ mem'[m].write_addr = mem[m].write_addr
        /\ mem'[m].datain = mem[m].datain
        /\ \A n \in Mems \ {m} : mem'[n] = mem[n]
    BY <1>6, <1>a, <1>b DEF Memory
  <2>2. Waiting(m)'
    <3>1. posted[m].rd = {} /\ Waiting(m)
      BY <1>6, <1>b DEF Waiting
    <3>2. posted'[m].rd = {[by |-> calls, addr |-> mem'[m].read_addr]}
      BY <3>1, <2>1, <1>c
    <3>3. QED
      BY <3>1, <3>2, <2>1, <1>a, <1>b, <1>c DEF Waiting
  <2>3. \A n \in Mems \ {m} : Waiting(n)'
    BY <2>1, <1>a, <1>b, <1>c DEF Waiting
  <2>4. Within'
    BY <2>2, <2>3, <1>a, <1>b DEF Within
  <2>5. QED
    BY <2>4, <1>3, <1>4, <1>6, <1>a DEF IInv, Between, Phases, Exits
<1>7. QED
  BY <1>5, <1>6

LEMMA WriteStep ==
    ASSUME IInv, NEW m \in Mems, NEW a \in Int, NEW v \in Int, MemWrite(m, a, v)
    PROVE  IInv'
<1>a. /\ phase = "run" /\ phase' = "run" /\ sim = "running" /\ calls' = calls + 1
      /\ UNCHANGED <<file, loaded, old, new, clock, stop_sim, serving, before>>
      /\ posted' = [posted EXCEPT ![m].wr = @ \cup {[by |-> calls, addr |-> a, val |-> v]}]
      /\ sim' = IF ~mem[m].write THEN sim ELSE "conflict"
      /\ mem' = IF mem[m].write THEN [mem EXCEPT ![m].datain = v]
                ELSE [mem EXCEPT ![m].datain = v, ![m].write = TRUE, ![m].write_addr = a]
  BY DEF MemWrite, Calling, Assertion
<1>b. /\ mem \in [Mems -> Memory] /\ posted \in Posts /\ calls \in Nat
      /\ serving = 1 /\ \A n \in Mems : Waiting(n)
  BY <1>a DEF IInv, Types, Within
<1>c. /\ posted'[m].wr = posted[m].wr \cup {[by |-> calls, addr |-> a, val |-> v]}
      /\ posted'[m].rd = posted[m].rd
      /\ \A n \in Mems \ {m} : posted'[n] = posted[n]
  BY <1>a, <1>b DEF Posts
<1>d. [by |-> calls, addr |-> a, val |-> v] \in WCall
  BY <1>b DEF WCall
<1>1. mem' \in [Mems -> Memory]
  BY <1>a, <1>b DEF Memory
<1>2. posted' \in Posts
  BY <1>a, <1>b, <1>d DEF Posts
<1>3. Types'
  BY <1>1, <1>2, <1>a DEF IInv, Types
<1>4. Numbered'
  <2> SUFFICES ASSUME NEW n \in Mems, NEW q \in posted'[n].rd \cup posted'[n].wr
               PROVE  q.by < calls'
    BY DEF Numbered
  <2>1. CASE q \in posted[n].rd \cup posted[n].wr
    <3>1. q.by < calls /\ q.by \in Nat
      BY <2>1, <1>b DEF IInv, Numbered, Posts, Call, WCall
    <3>2. QED
      BY <3>1, <1>a, <1>b
  <2>2. CASE q = [by |-> calls, addr |-> a, val |-> v]
    BY <2>2, <1>a, <1>b
  <2>3. QED
    BY <2>1, <2>2, <1>c
<1>5. CASE mem[m].write
  <2>1. PICK k \in Nat : posted[m].wr = {[by |-> k, addr |-> mem[m].write_addr, val |-> mem[m].datain]}
    BY <1>b, <1>5 DEF Waiting
  <2>2. k < calls
    <3>1. [by |-> k, addr |-> mem[m].write_addr, val |-> mem[m].datain].by < calls
      BY <2>1 DEF IInv, Numbered
    <3>2. QED
      BY <3>1
  <2>3. [by |-> k, addr |-> mem[m].write_addr, val |-> mem[m].datain] # [by |-> calls, addr |-> a, val |-> v]
    BY <2>2, <1>b
  <2>4. Seen(m)!Conflict(posted'[m].rd, posted'[m].wr)
    BY <2>1, <2>3, <1>c DEF Seen!Conflict
  <2>5. Exits'
    BY <2>4, <1>a, <1>5 DEF Exits, Seen!Conflict
  <2>6. QED
    BY <2>5, <1>3, <1>4, <1>5, <1>a DEF IInv, Between, Within, Phases
<1>6. CASE ~mem[m].write
  <2>1. /\ mem'[m].data = mem[m].data /\ mem'[m].dataout = mem[m].dataout
        /\ mem'[m].write /\ mem'[m].write_addr = a /\ mem'[m].datain = v
        /\ mem'[m].read = mem[m].read /\ mem'[m].read_addr = mem[m].read_addr
        /\ \A n \in Mems \ {m} : mem'[n] = mem[n]
    BY <1>6, <1>a, <1>b DEF Memory
  <2>2. Waiting(m)'
    <3>1. posted[m].wr = {} /\ Waiting(m)
      BY <1>6, <1>b DEF Waiting
    <3>2. posted'[m].wr = {[by |-> calls, addr |-> mem'[m].write_addr, val |-> mem'[m].datain]}
      BY <3>1, <2>1, <1>c
    <3>3. QED
      BY <3>1, <3>2, <2>1, <1>a, <1>b, <1>c DEF Waiting
  <2>3. \A n \in Mems \ {m} : Waiting(n)'
    BY <2>1, <1>a, <1>b, <1>c DEF Waiting
  <2>4. Within'
    BY <2>2, <2>3, <1>a, <1>b DEF Within
  <2>5. QED
    BY <2>4, <1>3, <1>4, <1>6, <1>a DEF IInv, Between, Phases, Exits
<1>7. QED
  BY <1>5, <1>6

LEMMA ReturnStep == IInv /\ UnitReturns => IInv'
<1> SUFFICES ASSUME IInv, UnitReturns PROVE IInv'
  OBVIOUS
<1>1. Types'
  BY DEF IInv, Types, UnitReturns
<1>2. serving = 1 /\ (\A m \in Mems : Waiting(m)) /\ sim = "running"
  BY DEF IInv, Within, UnitReturns
<1>3. \A m \in Mems : Waiting(m)' /\ ~Past(m)'
  BY <1>2 DEF UnitReturns, Waiting, Past
<1>4. Within'
  BY <1>3 DEF Within, UnitReturns
<1>5. QED
  BY <1>1, <1>2, <1>4 DEF IInv, Numbered, Between, Phases, Exits, UnitReturns

\* What the assertions accept, and what is done, is what LLSimMem says.
LEMMA ServeStep == LLSimAssumption /\ IInv /\ ServeMemory => IInv'
<1> SUFFICES ASSUME LLSimAssumption, IInv, ServeMemory PROVE IInv'
  OBVIOUS
<1>0. serving \in 1 .. Len(MemList) /\ Len(MemList) \in Nat
  <2>1. Len(MemList) \in Nat
    BY DEF LLSimAssumption
  <2>2. serving \in Nat \ {0}
    BY DEF IInv, Types
  <2>3. serving <= Len(MemList)
    BY DEF ServeMemory
  <2> QED  BY <2>1, <2>2, <2>3
<1> PICK m \in Mems : m = MemList[serving]
  BY <1>0 DEF Mems
<1> DEFINE s == mem[m]
<1>a. /\ phase = "serve" /\ phase' = "serve" /\ sim = "running"
      /\ serving' = serving + 1
      /\ UNCHANGED <<file, loaded, old, new, clock, stop_sim, calls, posted, before>>
      /\ sim' = Outcome(s)
      /\ Outcome(s) # "running" => mem' = mem
      /\ Outcome(s) = "running" =>
           mem' = [mem EXCEPT
                     ![m].dataout = IF s.read THEN s.data[s.read_addr]
                                    ELSE IF s.write THEN @ ELSE Baad,
                     ![m].data = IF s.write THEN [@ EXCEPT ![s.write_addr] = s.datain] ELSE @,
                     ![m].read = FALSE,
                     ![m].write = FALSE]
  BY DEF ServeMemory
<1>b. serving \in 1 .. Len(MemList) /\ Len(MemList) \in Nat /\ m \in Mems /\ m = MemList[serving]
  BY <1>0
<1>c. /\ mem \in [Mems -> Memory] /\ before \in [Mems -> Memory] /\ s \in Memory
      /\ posted \in Posts
  BY <1>b DEF IInv, Types
<1>d. \A n \in Mems : IF Past(n) THEN Served(n) ELSE Waiting(n)
  BY <1>a DEF IInv, Within
<1>e. Waiting(m)
  <2>1. ~Past(m)
    BY <1>b DEF LLSimAssumption, Past
  <2>2. QED
    BY <1>b, <1>d, <2>1
<1>f. /\ s.data = before[m].data /\ s.dataout = before[m].dataout
      /\ s.read => \E n \in Nat : posted[m].rd = {[by |-> n, addr |-> s.read_addr]}
      /\ ~s.read => posted[m].rd = {}
      /\ s.write => \E n \in Nat : posted[m].wr = {[by |-> n, addr |-> s.write_addr, val |-> s.datain]}
      /\ ~s.write => posted[m].wr = {}
  BY <1>e DEF Waiting
<1>g. /\ s.data \in [Block -> Int] /\ s.datain \in Int /\ s.dataout \in Int
      /\ s.read \in BOOLEAN /\ s.write \in BOOLEAN
      /\ s.read_addr \in Int /\ s.write_addr \in Int
  BY <1>c DEF Memory
<1> HIDE DEF s
<1>1. CASE Outcome(s) = "running"
  <2>1. /\ s.read => s.read_addr \in Address /\ ~s.write
        /\ s.write => s.write_addr \in Address /\ ~s.read
    BY <1>1, <1>g DEF Outcome, Access, Address
  <2> DEFINE t == mem'[m]
  <2>2. /\ mem' \in [Mems -> Memory]
        /\ t.dataout = IF s.read THEN s.data[s.read_addr] ELSE IF s.write THEN s.dataout ELSE Baad
        /\ t.data = IF s.write THEN [s.data EXCEPT ![s.write_addr] = s.datain] ELSE s.data
        /\ ~t.read /\ ~t.write
        /\ \A n \in Mems \ {m} : mem'[n] = mem[n]
    <3> DEFINE out == IF s.read THEN s.data[s.read_addr] ELSE IF s.write THEN s.dataout ELSE Baad
               dat == IF s.write THEN [s.data EXCEPT ![s.write_addr] = s.datain] ELSE s.data
    <3>1. out \in Int /\ dat \in [Block -> Int]
      <4>1. Height \in Nat /\ Baad \in Int
        BY DEF LLSimAssumption
      <4>2. Address \subseteq Block
        BY <4>1 DEF Address, Block
      <4>3. out \in Int
        BY <2>1, <1>g, <4>1, <4>2
      <4>4. dat \in [Block -> Int]
        BY <2>1, <1>g, <4>2
      <4> QED  BY <4>3, <4>4
    <3>2. mem' = [mem EXCEPT ![m].dataout = out, ![m].data = dat,
                             ![m].read = FALSE, ![m].write = FALSE]
      BY <1>1, <1>a, <1>b, <1>c DEF s
    <3> HIDE DEF out, dat
    <3>3. /\ mem' = [mem EXCEPT ![m] = [mem[m] EXCEPT !.dataout = out, !.data = dat,
                                                      !.read = FALSE, !.write = FALSE]]
      BY <3>2, <1>b, <1>c DEF Memory
    <3>4. [mem[m] EXCEPT !.dataout = out, !.data = dat, !.read = FALSE, !.write = FALSE] \in Memory
      BY <3>1, <1>b, <1>c DEF Memory
    <3>5. mem' \in [Mems -> Memory]
      BY <3>3, <3>4, <1>b, <1>c
    <3>6. t.dataout = out /\ t.data = dat /\ ~t.read /\ ~t.write
      BY <3>3, <1>b, <1>c DEF Memory
    <3>7. QED
      BY <3>3, <3>5, <3>6, <1>b, <1>c DEF out, dat
  <2> HIDE DEF t
  <2>3. Effect(m)'
    <3>1. UNCHANGED <<posted[m], before[m]>>
      BY <1>a
    <3>2. CASE s.read
      <4>1. PICK n \in Nat : posted[m].rd = {[by |-> n, addr |-> s.read_addr]}
        BY <1>f, <3>2
      <4>2. posted[m].wr = {} /\ s.read_addr \in Address
        BY <1>f, <2>1, <3>2
      <4>3. t.dataout = before[m].data[s.read_addr] /\ t.data = before[m].data
        BY <1>f, <2>1, <2>2, <3>2
      <4>4. QED
        BY <3>1, <4>1, <4>2, <4>3 DEF Effect, t
    <3>3. CASE s.write
      <4>1. PICK n \in Nat :
              posted[m].wr = {[by |-> n, addr |-> s.write_addr, val |-> s.datain]}
        BY <1>f, <3>3
      <4>2. posted[m].rd = {} /\ s.write_addr \in Address
        BY <1>f, <2>1, <3>3
      <4>3. /\ t.dataout = before[m].dataout
            /\ t.data = [before[m].data EXCEPT ![s.write_addr] = s.datain]
        BY <1>f, <2>1, <2>2, <3>3
      <4>4. QED
        BY <3>1, <4>1, <4>2, <4>3 DEF Effect, t
    <3>4. CASE ~s.read /\ ~s.write
      BY <3>1, <3>4, <1>f, <2>2 DEF Effect, t
    <3>5. QED
      BY <3>2, <3>3, <3>4
  <2>4. Served(m)'
    BY <2>2, <2>3 DEF Served, t
  <2>5. ASSUME NEW n \in Mems PROVE IF Past(n)' THEN Served(n)' ELSE Waiting(n)'
    <3>1. CASE n = m
      BY <3>1, <2>4, <1>a, <1>b DEF Past
    <3>2. CASE n # m
      <4>1. Past(n)' <=> Past(n)
        BY <3>2, <1>a, <1>b DEF Past
      <4>2. UNCHANGED <<mem[n], posted[n], before[n]>>
        BY <3>2, <2>2, <1>a
      <4>3. Effect(n)' <=> Effect(n)
        BY <4>2 DEF Effect
      <4>4. Served(n)' <=> Served(n)
        BY <4>2, <4>3 DEF Served
      <4>5. Waiting(n)' <=> Waiting(n)
        BY <4>2 DEF Waiting
      <4>6. IF Past(n) THEN Served(n) ELSE Waiting(n)
        BY <1>d
      <4>7. QED
        BY <4>1, <4>4, <4>5, <4>6
    <3>3. QED
      BY <3>1, <3>2
  <2>6. Within'
    BY <2>5, <1>a DEF Within
  <2>7. Types'
    BY <2>2, <1>a DEF IInv, Types
  <2>8. QED
    BY <2>6, <2>7, <1>1, <1>a DEF IInv, Numbered, Between, Phases, Exits
<1>2. CASE Outcome(s) # "running"
  <2>1. Types' /\ Within' /\ Numbered' /\ Between' /\ Phases'
    BY <1>2, <1>a DEF IInv, Types, Within, Numbered, Between, Phases
  <2>2. \/ sim' = "conflict" /\ s.read /\ s.write
        \/ sim' = "range" /\ s.read /\ s.read_addr >= Height
        \/ sim' = "range" /\ s.write /\ s.write_addr >= Height
        \/ sim' = "undefined" /\ s.read /\ s.read_addr < 0
        \/ sim' = "undefined" /\ s.write /\ s.write_addr < 0
    BY <1>2, <1>a DEF Outcome, Access
  <2>3. \/ sim' = "conflict" /\ Seen(m)!Conflict(posted[m].rd, posted[m].wr)
        \/ sim' = "range" /\ Seen(m)!OutOfRange(posted[m].rd, posted[m].wr)
        \/ sim' = "undefined" /\ Seen(m)!Wild(posted[m].rd, posted[m].wr)
    <3>1. ASSUME s.read PROVE \E q \in posted[m].rd : q.addr = s.read_addr
      <4>1. PICK n \in Nat : posted[m].rd = {[by |-> n, addr |-> s.read_addr]}
        BY <1>f, <3>1
      <4>2. QED
        BY <4>1
    <3>2. ASSUME s.write PROVE \E q \in posted[m].wr : q.addr = s.write_addr
      <4>1. PICK n \in Nat :
              posted[m].wr = {[by |-> n, addr |-> s.write_addr, val |-> s.datain]}
        BY <1>f, <3>2
      <4>2. QED
        BY <4>1
    <3>3. QED
      BY <2>2, <3>1, <3>2 DEF Seen!Conflict, Seen!OutOfRange, Seen!Wild
  <2>4. Exits'
    <3>1. \/ sim' = "conflict" /\ Seen(m)!Conflict(posted'[m].rd, posted'[m].wr)
          \/ sim' = "range" /\ Seen(m)!OutOfRange(posted'[m].rd, posted'[m].wr)
          \/ sim' = "undefined" /\ Seen(m)!Wild(posted'[m].rd, posted'[m].wr)
      BY <2>3, <1>a
    <3>2. /\ phase' \in {"run", "serve"}
          /\ sim' \in {"running", "stopped", "conflict", "range", "undefined"}
      BY <3>1, <1>a
    <3>3. QED
      BY <3>1, <3>2 DEF Exits, Seen!Conflict, Seen!OutOfRange, Seen!Wild
  <2>5. QED
    BY <2>1, <2>4 DEF IInv
<1>3. QED
  BY <1>1, <1>2

LEMMA AllServed ==
    ASSUME LLSimAssumption, IInv, CopyRegisters
    PROVE  \A m \in Mems : Served(m)
<1>1. \A m \in Mems : Past(m)
  BY DEF LLSimAssumption, IInv, Types, CopyRegisters, Mems, Past
<1>2. QED
  BY <1>1 DEF IInv, Within, CopyRegisters

LEMMA CopyStep == LLSimAssumption /\ IInv /\ CopyRegisters => IInv'
<1> SUFFICES ASSUME LLSimAssumption, IInv, CopyRegisters PROVE IInv'
  OBVIOUS
<1>1. \A m \in Mems : Served(m)
  BY AllServed
<1>2. posted' \in Posts
  BY DEF CopyRegisters, NoCalls, Posts
<1>3. Types'
  BY <1>2 DEF IInv, Types, CopyRegisters
<1>4. Between'
  BY <1>1 DEF Between, CopyRegisters, Served
<1>5. Numbered'
  BY DEF Numbered, CopyRegisters, NoCalls
<1>6. QED
  BY <1>3, <1>4, <1>5 DEF IInv, Within, Phases, Exits, CopyRegisters
-----------------------------------------------------------------------------
LEMMA NextIInv == LLSimAssumption /\ IInv /\ [Next]_vars => IInv'
<1> SUFFICES ASSUME LLSimAssumption, IInv, [Next]_vars PROVE IInv'
  OBVIOUS
<1>1. CASE LoadWord
  BY <1>1, LoadStep
<1>2. CASE InitResetValues
  BY <1>2, ResetValuesStep
<1>3. CASE BeginClock
  BY <1>3, BeginStep
<1>4. ASSUME NEW m \in Mems, NEW a \in -1 .. Height, MemRead(m, a)
      PROVE  IInv'
  BY <1>4, ReadStep DEF LLSimAssumption
<1>5. ASSUME NEW m \in Mems, NEW a \in -1 .. Height, NEW v \in Writes, MemWrite(m, a, v)
      PROVE  IInv'
  BY <1>5, WriteStep DEF LLSimAssumption
<1>6. CASE UnitReturns
  BY <1>6, ReturnStep
<1>7. CASE ServeMemory
  BY <1>7, ServeStep
<1>8. CASE CopyRegisters
  BY <1>8, CopyStep
<1>9. CASE UNCHANGED vars
  <2>1. UNCHANGED <<file, loaded, mem, old, new, clock, phase, stop_sim, sim, serving, calls,
                    posted, before>>
    BY <1>9 DEF vars
  <2>2. Types' /\ Numbered' /\ Between' /\ Phases'
    BY <2>1 DEF IInv, Types, Numbered, Between, Phases
  <2>3. \A m \in Mems : /\ Waiting(m) => Waiting(m)'
                        /\ Served(m) => Served(m)'
                        /\ Past(m)' <=> Past(m)
    BY <2>1 DEF Waiting, Served, Effect, Past
  <2>4. Within'
    BY <2>1, <2>3 DEF IInv, Within
  <2>5. Exits'
    BY <2>1 DEF IInv, Exits, Seen!Conflict, Seen!OutOfRange, Seen!Wild
  <2>6. QED
    BY <2>2, <2>4, <2>5 DEF IInv
<1>10. QED
  BY <1>1, <1>2, <1>3, <1>4, <1>5, <1>6, <1>7, <1>8, <1>9 DEF Next

THEOREM Inductive == Spec => []IInv
<1>1. Init => IInv
  BY InitIInv, LLSimAssumption
<1>2. IInv /\ [Next]_vars => IInv'
  BY NextIInv, LLSimAssumption
<1>3. QED
  BY <1>1, <1>2, PTL DEF Spec

\* An early exit of llsim_run_clock always has the reason LLSimMem gives for
\* it, for any unit, number and height of memories.
THEOREM Justified == Spec => []ExitsJustified
<1>1. IInv => ExitsJustified
  BY DEF IInv, Exits, ExitsJustified
<1>2. QED
  BY <1>1, Inductive, PTL

\* A memory that was served as posted is one that LLSimMem!Clock describes.
LEMMA CopyServes ==
    ASSUME LLSimAssumption, IInv, CopyRegisters, NEW m \in Mems
    PROVE  /\ Seen(m)!Verdict(posted[m].rd, posted[m].wr) = "run"
           /\ Seen(m)!Clock(posted[m].rd, posted[m].wr)
<1>1. Effect(m)
  BY AllServed DEF Served
<1>2. /\ Shown[m].data = before[m].data /\ Shown[m].dataout = before[m].dataout
      /\ (Shown[m].data)' = mem[m].data /\ (Shown[m].dataout)' = mem[m].dataout
  BY DEF CopyRegisters, Shown
<1>3. CASE posted[m].rd = {} /\ posted[m].wr = {}
  BY <1>1, <1>2, <1>3 DEF Effect, Seen!Verdict, Seen!Conflict, Seen!OutOfRange, Seen!Wild, Seen!Clock
<1>4. ASSUME NEW q \in posted[m].rd, posted[m].rd = {q}, posted[m].wr = {},
             q.addr \in Address, mem[m].dataout = before[m].data[q.addr],
             mem[m].data = before[m].data
      PROVE  /\ Seen(m)!Verdict(posted[m].rd, posted[m].wr) = "run"
             /\ Seen(m)!Clock(posted[m].rd, posted[m].wr)
  <2>1. Seen(m)!Verdict(posted[m].rd, posted[m].wr) = "run"
    BY <1>4 DEF Seen!Verdict, Seen!Conflict, Seen!OutOfRange, Seen!Wild, Address, LLSimAssumption
  <2>2. Seen(m)!Clock(posted[m].rd, posted[m].wr)
    BY <1>2, <1>4 DEF Seen!Clock
  <2>3. QED
    BY <2>1, <2>2
<1>5. ASSUME NEW w \in posted[m].wr, posted[m].wr = {w}, posted[m].rd = {},
             w.addr \in Address, mem[m].dataout = before[m].dataout,
             mem[m].data = [before[m].data EXCEPT ![w.addr] = w.val]
      PROVE  /\ Seen(m)!Verdict(posted[m].rd, posted[m].wr) = "run"
             /\ Seen(m)!Clock(posted[m].rd, posted[m].wr)
  <2>1. Seen(m)!Verdict(posted[m].rd, posted[m].wr) = "run"
    BY <1>5 DEF Seen!Verdict, Seen!Conflict, Seen!OutOfRange, Seen!Wild, Address, LLSimAssumption
  <2>2. Seen(m)!Clock(posted[m].rd, posted[m].wr)
    BY <1>2, <1>5 DEF Seen!Clock
  <2>3. QED
    BY <2>1, <2>2
<1>6. QED
  BY <1>1, <1>3, <1>4, <1>5 DEF Effect

\* llsim_run_clock implements the atomic clock the processor models are built
\* on: every call served once, in whatever order they were made.
THEOREM AtomicClock == Spec => ServedAsPosted
<1> DEFINE Right == clock' # clock =>
              \A m \in Mems :
                 /\ Seen(m)!Verdict(posted[m].rd, posted[m].wr) = "run"
                 /\ Seen(m)!Clock(posted[m].rd, posted[m].wr)
<1>1. IInv /\ [Next]_vars => [Right]_vars
  <2> SUFFICES ASSUME IInv, Next, clock' # clock PROVE Right
    OBVIOUS
  <2>1. CopyRegisters
    BY DEF Next, LoadWord, InitResetValues, BeginClock, MemRead, MemWrite, UnitReturns, ServeMemory
  <2>2. QED
    BY <2>1, CopyServes, LLSimAssumption
<1>2. QED
  BY <1>1, Inductive, PTL DEF Spec, ServedAsPosted
-----------------------------------------------------------------------------
\* What a memory holds when the first words have been injected.
Placed(a) ==
    IF a < loaded THEN MemoryImage(file, a)
    ELSE IF a = loaded /\ loaded > 0 /\ MemoryImage(file, loaded - 1) < 0 THEN -1
    ELSE 0

Image == \A m \in Mems : \A a \in Block : mem[m].data[a] = Placed(a)

\* Loading, then five clocks of reset: the registers stay 0, the image is not
\* touched, and every memory that is served without a request puts out Baad.
Clean ==
    /\ phase = "load" => clock = 0 /\ loaded <= Size(file)
    /\ phase # "load" => loaded = Size(file)
    /\ Reset => phase # "run" /\ old = 0 /\ new = 0 /\ Image /\ posted = NoCalls
    /\ clock = 5 /\ phase = "idle" => StartsClean /\ Image

LEMMA SizeRange == ASSUME LLSimAssumption, Types PROVE Size(file) \in 1 .. Height
<1>1. file.words \in Seq(Words) /\ Len(file.words) \in Nat
  BY DEF LLSimAssumption, Types
<1>2. file.words # <<>> => Len(file.words) # 0
  BY <1>1
<1> QED  BY <1>1, <1>2 DEF LLSimAssumption, Size

\* The word behind the one that was injected last is the only one that is
\* right for the time being only.
LEMMA PlaceNext ==
    ASSUME LLSimAssumption, IInv, Image, LoadWord PROVE Image'
<1>1. loaded \in Nat /\ loaded + 1 \in Block /\ loaded \in Block
  BY SizeRange DEF IInv, Types, LoadWord, Block, LLSimAssumption
<1> DEFINE w == MemoryImage(file, loaded)
<1>2. w \in Int
  BY ImageWord DEF IInv
<1>3. loaded' = loaded + 1 /\ file' = file
  BY DEF LoadWord
<1> SUFFICES ASSUME NEW m \in Mems, NEW a \in Block PROVE mem'[m].data[a] = Placed(a)'
  BY DEF Image
<1>4. mem'[m].data = Inject(mem[m].data, loaded, w)
  <2>1. mem[m] \in Memory
    BY DEF IInv, Types
  <2>2. mem'[m] = [mem[m] EXCEPT !.data = Inject(@, loaded, w)]
    BY DEF LoadWord
  <2> HIDE DEF w
  <2> QED  BY <2>1, <2>2 DEF Memory
<1>5. mem[m].data \in [Block -> Int] /\ mem[m].data[a] = Placed(a) /\ a \in Int
  BY DEF IInv, Types, Memory, Image, Block, LLSimAssumption
<1>6. mem[m].data[loaded + 1] = 0
  BY <1>1 DEF Image, Placed
<1>7. mem'[m].data[a] = IF a = loaded THEN w
                        ELSE IF a = loaded + 1 THEN IF w < 0 THEN -1 ELSE 0
                        ELSE mem[m].data[a]
  <2> HIDE DEF w
  <2> QED  BY <1>1, <1>2, <1>4, <1>5, <1>6 DEF Inject
<1>8. Placed(a)' = IF a < loaded + 1 THEN MemoryImage(file, a)
                   ELSE IF a = loaded + 1 /\ w < 0 THEN -1 ELSE 0
  <2>1. (loaded + 1) - 1 = loaded /\ loaded + 1 > 0
    BY <1>1
  <2> QED  BY <1>3, <2>1 DEF Placed, MemoryImage
<1>9. CASE a < loaded
  BY <1>1, <1>5, <1>7, <1>8, <1>9 DEF Placed
<1>10. CASE a = loaded
  BY <1>1, <1>7, <1>8, <1>10
<1>11. CASE a > loaded
  <2>1. a # loaded + 1 => mem[m].data[a] = 0
    BY <1>1, <1>5, <1>11 DEF Placed
  <2> HIDE DEF w
  <2> QED  BY <1>1, <1>5, <1>7, <1>8, <1>11, <2>1
<1> QED  BY <1>1, <1>5, <1>9, <1>10, <1>11

LEMMA PlacedIsLoaded ==
    ASSUME LLSimAssumption, Types, loaded = Size(file), NEW a \in Block
    PROVE  Placed(a) = Loaded(a)
<1>1. Size(file) > 0
  BY SizeRange DEF LLSimAssumption
<1>2. a = Size(file) => a - 1 = Size(file) - 1
  OBVIOUS
<1> QED  BY <1>1, <1>2 DEF Placed, Loaded

\* In a reset clock no memory has a request, and serving it leaves the words.
LEMMA ServeQuiet ==
    ASSUME LLSimAssumption, IInv, Reset, Image, posted = NoCalls, phase = "serve",
           sim = "running"
    PROVE  /\ \A m \in Mems : ~mem[m].read /\ ~mem[m].write
           /\ \A m \in Mems : Past(m) => mem[m].dataout = Baad
<1>1. \A m \in Mems : posted[m].rd = {} /\ posted[m].wr = {}
  BY DEF NoCalls
<1>2. \A m \in Mems : IF Past(m) THEN Served(m) ELSE Waiting(m)
  BY DEF IInv, Within
<1> SUFFICES ASSUME NEW m \in Mems
             PROVE  ~mem[m].read /\ ~mem[m].write /\ (Past(m) => mem[m].dataout = Baad)
  OBVIOUS
<1>3. CASE Past(m)
  BY <1>1, <1>2, <1>3 DEF Served, Effect
<1>4. CASE ~Past(m)
  <2>1. Waiting(m)
    BY <1>2, <1>4
  <2>2. \A q : posted[m].rd # {q} /\ posted[m].wr # {q}
    BY <1>1
  <2> QED  BY <1>4, <2>1, <2>2 DEF Waiting
<1> QED  BY <1>3, <1>4

LEMMA CleanStep == LLSimAssumption /\ IInv /\ Clean /\ [Next]_vars => Clean'
<1> SUFFICES ASSUME LLSimAssumption, IInv, Clean, [Next]_vars PROVE Clean'
  OBVIOUS
<1>0. clock \in Nat
  BY DEF IInv, Types
<1>1. CASE LoadWord
  <2>1. clock = 0 /\ loaded + 1 <= Size(file) /\ UNCHANGED <<file, clock, phase, old, new, posted>>
    BY <1>1, SizeRange DEF LoadWord, Clean, IInv, Types
  <2>2. Image'
    BY <1>1, <2>1, PlaceNext DEF Clean, Reset
  <2>3. loaded' <= Size(file')
    BY <1>1, <2>1 DEF LoadWord
  <2>4. phase' = "load"
    BY <1>1 DEF LoadWord
  <2> QED  BY <1>1, <2>1, <2>2, <2>3, <2>4 DEF Clean, Reset
<1>2. CASE InitResetValues
  <2>1. /\ clock' = 0 /\ phase' = "idle" /\ new' = 0 /\ loaded = Size(file)
        /\ UNCHANGED <<file, loaded, mem, old, posted>>
    BY <1>2 DEF InitResetValues, Clean
  <2>2. old = 0 /\ Image /\ posted = NoCalls
    BY <1>2 DEF InitResetValues, Clean, Reset
  <2>3. Image'
    BY <2>1, <2>2 DEF Image, Placed
  <2> QED  BY <2>1, <2>2, <2>3 DEF Clean, Reset
<1>3. CASE BeginClock
  <2>1. /\ phase' # "load" /\ phase' # "idle" /\ loaded = Size(file)
        /\ UNCHANGED <<file, loaded, old, clock, posted>>
    BY <1>3 DEF BeginClock, Clean
  <2>2. Reset => phase' = "serve" /\ new' = 0 /\ mem' = mem
    BY <1>3 DEF BeginClock
  <2>3. Reset => Image'
    BY <2>1, <2>2 DEF Clean, Image, Placed
  <2> QED  BY <2>1, <2>2, <2>3 DEF Clean, Reset
<1>4. CASE phase = "run" /\ phase' \in {"run", "serve"} /\ UNCHANGED <<file, loaded, clock>>
  BY <1>4 DEF Clean, Reset
<1>5. CASE ServeMemory
  <2>1. /\ phase = "serve" /\ phase' = "serve" /\ sim = "running"
        /\ UNCHANGED <<file, loaded, old, new, clock, posted>>
    BY <1>5 DEF ServeMemory
  <2>2. ASSUME Reset PROVE Image'
    <3>1. serving \in 1 .. Len(MemList) /\ MemList[serving] \in Mems
      <4>1. Len(MemList) \in Nat /\ serving \in Nat \ {0} /\ serving <= Len(MemList)
        <5>1. Len(MemList) \in Nat
          BY LLSimAssumption
        <5>2. serving \in Nat \ {0}
          BY DEF IInv, Types
        <5>3. serving <= Len(MemList)
          BY <1>5 DEF ServeMemory
        <5> QED  BY <5>1, <5>2, <5>3
      <4> QED  BY <4>1 DEF Mems
    <3>2. ~mem[MemList[serving]].write
      BY <2>1, <2>2, <3>1, ServeQuiet DEF Clean
    <3>3. \A m \in Mems : mem'[m].data = mem[m].data
      <4> SUFFICES ASSUME NEW m \in Mems PROVE mem'[m].data = mem[m].data
        OBVIOUS
      <4>1. mem \in [Mems -> Memory]
        BY DEF IInv, Types
      <4>2. mem[m] \in Memory
        BY <4>1
      <4>3. CASE mem' = mem
        BY <4>3
      <4>4. CASE m # MemList[serving]
        BY <1>5, <3>1, <4>1, <4>4 DEF ServeMemory
      <4>5. CASE m = MemList[serving] /\ mem' # mem
        <5> DEFINE s == mem[m]
        <5>1. PICK out : mem' = [mem EXCEPT ![m].dataout = out, ![m].data = s.data,
                                            ![m].read = FALSE, ![m].write = FALSE]
          BY <1>5, <3>2, <4>1, <4>5 DEF ServeMemory
        <5> QED  BY <4>1, <4>2, <5>1 DEF Memory
      <4> QED  BY <4>3, <4>4, <4>5
    <3> QED  BY <2>1, <2>2, <3>3 DEF Clean, Image, Placed
  <2> QED  BY <2>1, <2>2 DEF Clean, Reset
<1>6. CASE CopyRegisters
  <2>1. /\ phase = "serve" /\ phase' = "idle" /\ sim = "running"
        /\ clock' = clock + 1 /\ old' = new /\ posted' = NoCalls
        /\ UNCHANGED <<file, loaded, mem, new>>
    BY <1>6 DEF CopyRegisters
  <2>2. ASSUME Reset PROVE old' = 0 /\ new' = 0 /\ Image'
    BY <2>1, <2>2 DEF Clean, Image, Placed
  <2>3. clock' < 5 \/ clock' = 5 => Reset
    BY <1>0, <2>1 DEF Reset
  <2>4. ASSUME clock' = 5 PROVE StartsClean'
    <3>1. \A m \in Mems : Past(m)
      BY <1>6 DEF LLSimAssumption, IInv, Types, CopyRegisters, Mems, Past
    <3>2. \A m \in Mems : mem[m].dataout = Baad
      BY <2>1, <2>3, <2>4, <3>1, ServeQuiet DEF Clean
    <3>3. \A m \in Mems : \A a \in Address : mem'[m].data[a] = Loaded(a)'
      <4> SUFFICES ASSUME NEW m \in Mems, NEW a \in Address
                   PROVE  mem'[m].data[a] = Loaded(a)'
        OBVIOUS
      <4>1. a \in Block
        BY DEF Address, Block, LLSimAssumption
      <4>2. mem[m].data[a] = Placed(a)
        BY <2>3, <2>4, <4>1 DEF Clean, Image
      <4>3. Placed(a) = Loaded(a)
        BY <2>1, <4>1, PlacedIsLoaded DEF IInv, Clean
      <4>4. Loaded(a)' = Loaded(a)
        BY <2>1 DEF Loaded
      <4> QED  BY <2>1, <4>2, <4>3, <4>4
    <3> QED  BY <2>1, <2>2, <2>3, <2>4, <3>2, <3>3 DEF StartsClean
  <2> QED  BY <2>1, <2>2, <2>3, <2>4 DEF Clean, Reset
<1>7. CASE UNCHANGED vars
  <2>1. UNCHANGED <<file, loaded, mem, old, new, clock, phase, posted>>
    BY <1>7 DEF vars
  <2>2. Image' <=> Image
    BY <2>1 DEF Image, Placed
  <2>3. StartsClean' <=> StartsClean
    BY <2>1 DEF StartsClean, Loaded
  <2> QED  BY <2>1, <2>2, <2>3 DEF Clean, Reset
<1>8. CASE \/ \E m \in Mems, a \in -1 .. Height : MemRead(m, a)
           \/ \E m \in Mems, a \in -1 .. Height, v \in Writes : MemWrite(m, a, v)
           \/ UnitReturns
  <2>1. phase = "run" /\ phase' \in {"run", "serve"} /\ UNCHANGED <<file, loaded, clock>>
    BY <1>8 DEF MemRead, MemWrite, UnitReturns, Calling
  <2> QED  BY <1>4, <2>1
<1> QED  BY <1>1, <1>2, <1>3, <1>5, <1>6, <1>7, <1>8 DEF Next

\* Whatever the program file, an empty one and one that is too long included,
\* the unit first runs with the image in every memory, although the loader
\* writes two words for each one it places, and with cleared registers.
THEOREM AlwaysStartsClean == Spec => []StartsClean
<1>1. Init => Clean
  <2> SUFFICES ASSUME Init PROVE Clean
    OBVIOUS
  <2>1. Size(file) > 0
    BY SizeRange, InitIInv, LLSimAssumption DEF IInv
  <2>2. loaded = 0 /\ clock = 0 /\ phase = "load" /\ old = 0 /\ new = 0 /\ posted = NoCalls
    BY DEF Init
  <2>3. Image
    <3> SUFFICES ASSUME NEW m \in Mems, NEW a \in Block PROVE mem[m].data[a] = Placed(a)
      BY DEF Image
    <3>1. mem[m].data[a] = 0
      BY DEF Init, Cleared
    <3>2. a \in Int /\ ~(a < 0)
      BY DEF Block, LLSimAssumption
    <3> QED  BY <2>2, <3>1, <3>2 DEF Placed
  <2> QED  BY <2>1, <2>2, <2>3, SizeRange, InitIInv, LLSimAssumption DEF IInv, Clean
<1>2. IInv /\ Clean /\ [Next]_vars => Clean'
  BY CleanStep, LLSimAssumption
<1>3. IInv /\ Clean => StartsClean
  BY DEF Clean, StartsClean
<1> QED  BY <1>1, <1>2, <1>3, Inductive, PTL DEF Spec
=============================================================================
