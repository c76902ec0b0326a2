---------------------------- MODULE NetlistProofs ----------------------------
(***************************************************************************)
(* Proofs about Netlist, for every netlist and every table of answers: the *)
(* translator rejects exactly the netlists that do not make sense, and one *)
(* pass over its list settles the circuit.                                 *)
(***************************************************************************)
EXTENDS Netlist, SubsequenceProofs

-----------------------------------------------------------------------------
(* Sequences without repetition *)

Members(s) == {s[k] : k \in DOMAIN s}

NoRepeat(s) == \A j, k \in DOMAIN s : s[j] = s[k] => j = k

\* A sequence of n different numbers up to n has all of them.
LEMMA OneToOneOnto ==
    ASSUME NEW n \in Nat, NEW f \in [1 .. n -> 1 .. n], NoRepeat(f)
    PROVE  Members(f) = 1 .. n
<1>1. IsFiniteSet(1 .. n)
  BY FS_Interval
<1>2. f \in Injection(1 .. n, 1 .. n)
  BY DEF NoRepeat, Injection, IsInjective
<1>3. f \in Surjection(1 .. n, 1 .. n)
  BY <1>1, <1>2, FS_Injection
<1>. QED  BY <1>3 DEF Surjection, Members

\* A sequence that has each number up to n once has length n.
LEMMA OneToOneLength ==
    ASSUME NEW m \in Nat, NEW n \in Nat, NEW f \in [1 .. m -> 1 .. n],
           NoRepeat(f), Members(f) = 1 .. n
    PROVE  m = n
<1>1. IsFiniteSet(1 .. m) /\ Cardinality(1 .. m) = m /\ IsFiniteSet(1 .. n) /\ Cardinality(1 .. n) = n
  BY FS_Interval
<1>2. f \in Injection(1 .. m, 1 .. n) /\ f \in Surjection(1 .. m, 1 .. n)
  BY DEF NoRepeat, Injection, IsInjective, Surjection, Members
<1>. QED  BY <1>1, <1>2, FS_Injection

\* Gates that join the queue of netlist.py, which has none of them, leave it
\* without repetition.
LEMMA Joining ==
    ASSUME NEW D, NEW q \in Seq(D), q # <<>>, NoRepeat(q),
           NEW S \in SUBSET D, S \cap Members(q) = {},
           NEW new \in Ascending(S), Cardinality(S) \in Nat, S \subseteq Nat
    PROVE  /\ Joined(Tail(q), new) \in Seq(D)
           /\ NoRepeat(Joined(Tail(q), new))
           /\ Members(Joined(Tail(q), new)) = (Members(q) \ {Head(q)}) \cup S
<1> DEFINE r == Tail(q) \o new
           m == Len(q) - 1
           n == Cardinality(S)
<1>1. /\ new \in [1 .. n -> S] /\ new \in Seq(D) /\ Len(new) = n
      /\ \A j, k \in 1 .. n : j < k => new[j] < new[k]
      /\ \A s \in S : \E k \in 1 .. n : new[k] = s
  <2>1. /\ new \in [1 .. n -> S]
        /\ \A j, k \in 1 .. n : j < k => new[j] < new[k]
        /\ \A s \in S : \E k \in 1 .. n : new[k] = s
    BY Zenon DEF Ascending
  <2> HIDE DEF n
  <2>2. n \in Nat
    BY DEF n
  <2>3. new \in [1 .. n -> D]
    BY <2>1
  <2>. QED  BY <2>1, <2>2, <2>3
<1>2. /\ Tail(q) \in Seq(D) /\ Len(Tail(q)) = m /\ m \in Nat
      /\ \A k \in 1 .. m : Tail(q)[k] = q[k + 1]
      /\ Head(q) = q[1] /\ DOMAIN q = 1 .. m + 1
  OBVIOUS
<1>3. /\ r \in Seq(D) /\ DOMAIN r = 1 .. m + n
      /\ \A k \in 1 .. m : r[k] = q[k + 1]
      /\ \A k \in 1 .. n : r[m + k] = new[k]
  BY <1>1, <1>2
<1> HIDE DEF r, m, n
<1>4. \A k \in DOMAIN r : k \in 1 .. m \/ \E i \in 1 .. n : k = m + i
  <2>1. n \in Nat
    BY DEF n
  <2>2. SUFFICES ASSUME NEW k \in 1 .. m + n, k \notin 1 .. m  PROVE k - m \in 1 .. n /\ k = m + (k - m)
    BY <1>3
  <2>. QED  BY <1>2, <2>1, <2>2
<1>5. \A j, k \in 1 .. n : new[j] = new[k] => j = k
  <2>1. \A k \in 1 .. n : new[k] \in Nat
    BY <1>1
  <2>. QED  BY <1>1, <2>1 DEF n
<1>6. \A j \in 1 .. m, k \in 1 .. n : q[j + 1] # new[k]
  BY <1>1, <1>2 DEF Members
<1>7. NoRepeat(r)
  <2> SUFFICES ASSUME NEW j \in DOMAIN r, NEW k \in DOMAIN r, r[j] = r[k]  PROVE j = k
    BY DEF NoRepeat
  <2>1. CASE j \in 1 .. m /\ k \in 1 .. m
    <3>1. q[j + 1] = q[k + 1]
      BY <1>3, <2>1
    <3>2. j + 1 \in DOMAIN q /\ k + 1 \in DOMAIN q
      BY <1>2, <2>1
    <3>3. j + 1 = k + 1
      BY <3>1, <3>2 DEF NoRepeat
    <3>. QED  BY <1>2, <2>1, <3>3
  <2>2. CASE j \in 1 .. m /\ \E i \in 1 .. n : k = m + i
    BY <1>3, <1>6, <2>2
  <2>3. CASE k \in 1 .. m /\ \E i \in 1 .. n : j = m + i
    BY <1>3, <1>6, <2>3
  <2>4. CASE (\E i \in 1 .. n : k = m + i) /\ \E i \in 1 .. n : j = m + i
    BY <1>3, <1>5, <2>4
  <2>. QED  BY <1>4, <2>1, <2>2, <2>3, <2>4
<1>8. Members(r) = (Members(q) \ {Head(q)}) \cup S
  <2>1. ASSUME NEW x \in Members(r)  PROVE x \in (Members(q) \ {Head(q)}) \cup S
    <3>1. PICK k \in DOMAIN r : x = r[k]
      BY DEF Members
    <3>2. CASE k \in 1 .. m
      <4>1. k + 1 \in DOMAIN q /\ 1 \in DOMAIN q /\ k + 1 # 1
        BY <1>2, <3>2
      <4>2. x = q[k + 1] /\ q[k + 1] # q[1]
        BY <1>3, <3>1, <3>2, <4>1 DEF NoRepeat
      <4>. QED  BY <1>2, <4>1, <4>2 DEF Members
    <3>3. CASE \E i \in 1 .. n : k = m + i
      BY <1>1, <1>3, <3>1, <3>3
    <3>. QED  BY <1>4, <3>2, <3>3
  <2>2. ASSUME NEW x \in Members(q), x # Head(q)  PROVE x \in Members(r)
    <3>1. PICK k \in DOMAIN q : x = q[k]
      BY DEF Members
    <3>2. k - 1 \in 1 .. m /\ (k - 1) + 1 = k
      BY <1>2, <2>2, <3>1
    <3>3. k - 1 \in DOMAIN r /\ r[k - 1] = x
      <4>1. n \in Nat
        BY DEF n
      <4>. QED  BY <1>2, <1>3, <3>1, <3>2, <4>1
    <3>. QED  BY <3>3 DEF Members
  <2>3. ASSUME NEW x \in S  PROVE x \in Members(r)
    <3>1. PICK k \in 1 .. n : new[k] = x
      BY <1>1
    <3>2. m + k \in DOMAIN r /\ r[m + k] = x
      <4>1. n \in Nat
        BY DEF n
      <4>. QED  BY <1>2, <1>3, <3>1, <4>1
    <3>. QED  BY <3>2 DEF Members
  <2>. QED  BY <2>1, <2>2, <2>3
<1>. QED  BY <1>3, <1>7, <1>8 DEF r, Joined

\* The first places of the new queue are those of the old one but its head, the
\* others are new.
LEMMA JoinedPlaces ==
    ASSUME NEW D, NEW q \in Seq(D), q # <<>>,
           NEW S \in SUBSET D, NEW new \in Ascending(S), Cardinality(S) \in Nat
    PROVE  \A i \in DOMAIN Joined(Tail(q), new) :
              /\ i \in Nat \ {0}
              /\ i < Len(q) => i + 1 \in DOMAIN q /\ Joined(Tail(q), new)[i] = q[i + 1]
              /\ i >= Len(q) => Joined(Tail(q), new)[i] \in S
<1> DEFINE n == Cardinality(S)
           m == Len(q) - 1
           r == Tail(q) \o new
<1>1. new \in [1 .. n -> S] /\ new \in Seq(D) /\ Len(new) = n /\ n \in Nat
  <2>1. new \in [1 .. n -> S]
    BY Zenon DEF Ascending
  <2> HIDE DEF n
  <2>2. n \in Nat
    BY DEF n
  <2>3. new \in [1 .. n -> D]
    BY <2>1
  <2>. QED  BY <2>1, <2>2, <2>3
<1>2. /\ Tail(q) \in Seq(D) /\ Len(Tail(q)) = m /\ m \in Nat
      /\ \A i \in 1 .. m : Tail(q)[i] = q[i + 1]
      /\ DOMAIN q = 1 .. m + 1
  OBVIOUS
<1>3. /\ DOMAIN r = 1 .. m + n
      /\ \A i \in 1 .. m : r[i] = q[i + 1]
      /\ \A i \in 1 .. n : r[m + i] = new[i]
  BY <1>1, <1>2
<1> HIDE DEF r, m, n
<1>4. ASSUME NEW i \in DOMAIN r
      PROVE  /\ i \in Nat \ {0}
             /\ i < Len(q) => i + 1 \in DOMAIN q /\ r[i] = q[i + 1]
             /\ i >= Len(q) => r[i] \in S
  <2>1. i \in 1 .. m + n /\ Len(q) = m + 1
    BY <1>2, <1>3 DEF m
  <2>2. CASE i \in 1 .. m
    BY <1>2, <1>3, <2>1, <2>2
  <2>3. CASE i \notin 1 .. m
    <3>1. i - m \in 1 .. n /\ i = m + (i - m) /\ i >= Len(q)
      BY <1>1, <1>2, <2>1, <2>3
    <3>. QED  BY <1>1, <1>3, <2>1, <3>1
  <2>. QED  BY <2>2, <2>3
<1>. QED  BY <1>4 DEF Joined, r

-----------------------------------------------------------------------------
(* The inductive invariant *)

Running == {"drive", "evaluate", "edge"}

Emitted == Members(ordered)
Open(i) == Dependencies(i) \ Emitted

\* Until something is wrong each flip-flop is the only one that drives its net.
FlopInv ==
    pc # "rejected" =>
        \A i \in DOMAIN flops :
            /\ flops[i].q \notin {0, 1} \cup Ports
            /\ \A j \in DOMAIN flops : j # i => flops[j].q # flops[i].q

DriverInv ==
    /\ pc = "cells" => ordered = <<>>
    /\ pc = "order" \/ pc \in Running => ~MultipleDrivers /\ ~FloatingInput

\* What the counters and the queue mean.
WaitInv == pc = "order" => \A i \in DOMAIN gates : pending[i] = Cardinality(Open(i))

ReadyInv ==
    pc = "order" =>
        /\ NoRepeat(ready)
        /\ \A i \in DOMAIN gates :
              i \in Members(ready) <=> i \notin Emitted /\ Open(i) = {}

\* Each gate comes once, after the gates it reads and with a higher level.
OrderInv ==
    /\ NoRepeat(ordered)
    /\ \A i \in Emitted :
          /\ Dependencies(i) \subseteq Emitted
          /\ \A j \in Dependencies(i) : LevelOf(j) < LevelOf(i)

\* No gates that have been emitted wait for each other.
NoLoopInv ==
    \A S \in SUBSET Emitted : S # {} => \E i \in S : Dependencies(i) \cap S = {}

\* The list that is evaluated.
ProgramInv ==
    pc \in Running =>
        /\ Emitted = DOMAIN gates
        /\ ~FloatingResult
        /\ NoRepeat(program)
        /\ Members(program) = DOMAIN gates
        /\ \A k \in DOMAIN program : \A j \in Dependencies(program[k]) :
              \E l \in DOMAIN program : l < k /\ program[l] = j

\* The gates before "at" have answered to what is on their inputs now.
PassInv ==
    /\ pc = "evaluate" =>
          \A k \in DOMAIN program :
              k < at => nets[gates[program[k]].out] = Answer(program[k])
    /\ pc = "edge" => Settled

RejectInv == pc = "rejected" => Bad

IInv ==
    /\ TypeOK /\ FlopInv /\ DriverInv /\ WaitInv /\ ReadyInv /\ OrderInv
    /\ NoLoopInv /\ ProgramInv /\ PassInv /\ RejectInv

-----------------------------------------------------------------------------

LEMMA GateTypes ==
    ASSUME TypeOK
    PROVE  /\ DOMAIN gates = 1 .. Len(gates) /\ Len(gates) \in Nat
           /\ \A i \in DOMAIN gates :
                 /\ gates[i].in \in Seq(Nets) /\ gates[i].out \in Nets
                 /\ gates[i] \in Gates
                 /\ InputsOf(i) \subseteq Nets
                 /\ Dependencies(i) \subseteq DOMAIN gates
                 /\ IsFiniteSet(Dependencies(i))
<1>1. DOMAIN gates = 1 .. Len(gates) /\ Len(gates) \in Nat /\ \A i \in DOMAIN gates : gates[i] \in Gates
  BY DEF TypeOK
<1>2. \A i \in DOMAIN gates : gates[i].in \in Seq(Nets) /\ gates[i].out \in Nets
  BY <1>1, NetlistAssumption
<1>3. \A i \in DOMAIN gates : InputsOf(i) \subseteq Nets
  BY <1>2 DEF InputsOf
<1>4. \A i \in DOMAIN gates : Dependencies(i) \subseteq DOMAIN gates
  BY DEF Dependencies
<1>5. IsFiniteSet(DOMAIN gates)
  BY <1>1, FS_Interval
<1>6. \A i \in DOMAIN gates : IsFiniteSet(Dependencies(i))
  BY <1>4, <1>5, FS_Subset
<1>. QED  BY <1>1, <1>2, <1>3, <1>4, <1>6

\* A gate that reads the output of another one depends on it, and no two gates
\* have the same output.
LEMMA SingleDriver ==
    ASSUME ~MultipleDrivers, NEW i \in DOMAIN gates, NEW j \in DOMAIN gates,
           gates[i].out = gates[j].out
    PROVE  i = j
BY DEF MultipleDrivers

\* A step that leaves the circuit alone leaves its operators alone.
LEMMA CircuitUnchanged ==
    ASSUME UNCHANGED circuit
    PROVE  /\ gates' = gates /\ flops' = flops
           /\ \A i : Dependencies(i)' = Dependencies(i)
           /\ \A i : InputsOf(i)' = InputsOf(i)
           /\ MultipleDrivers' = MultipleDrivers
           /\ FloatingInput' = FloatingInput
           /\ FloatingResult' = FloatingResult
           /\ Bad' = Bad
<1>1. gates' = gates /\ flops' = flops
  BY DEF circuit
<1>2. \A i : InputsOf(i)' = InputsOf(i)
  BY <1>1 DEF InputsOf
<1>3. \A i : Dependencies(i)' = Dependencies(i)
  BY <1>1, <1>2 DEF Dependencies
<1>4. Driven' = Driven /\ Produced' = Produced
  BY <1>1 DEF Driven, Produced
<1>5. MultipleDrivers' = MultipleDrivers
  BY <1>1, <1>4 DEF MultipleDrivers
<1>6. FloatingInput' = FloatingInput
  BY <1>1, <1>2, <1>4 DEF FloatingInput
<1>7. FloatingResult' = FloatingResult
  BY <1>1, <1>4 DEF FloatingResult
<1>8. TwoDrivers' = TwoDrivers
  BY <1>1, <1>5 DEF TwoDrivers
<1>9. Loop' = Loop
  BY <1>1, <1>3 DEF Loop
<1>10. Bad' = Bad
  BY <1>6, <1>7, <1>8, <1>9 DEF Bad
<1>. QED  BY <1>1, <1>2, <1>3, <1>5, <1>6, <1>7, <1>10

LEMMA InitEstablishes == Init => IInv
<1> SUFFICES ASSUME Init  PROVE IInv
  OBVIOUS
<1>1. TypeOK
  <2>1. levels \in [Nets -> Nat] /\ nets \in [Nets -> Bit]
    BY DEF Init, Bit
  <2>2. \A X : <<>> \in Seq(X)
    OBVIOUS
  <2>3. gates \in Seq(Gates) /\ flops \in Seq(Flops)
    BY <2>2 DEF Init
  <2>4. ready \in Seq(DOMAIN gates) /\ ordered \in Seq(DOMAIN gates) /\ program \in Seq(DOMAIN gates)
    BY <2>2 DEF Init
  <2>5. pc = "cells" /\ at \in Nat \ {0}
    BY DEF Init
  <2>6. second \in BOOLEAN
    BY Zenon DEF Init
  <2>. QED  BY <2>1, <2>3, <2>4, <2>5, <2>6 DEF TypeOK
<1>2. Emitted = {}
  BY DEF Init, Emitted, Members
<1>. QED
  BY <1>1, <1>2 DEF Init, IInv, FlopInv, DriverInv, WaitInv, ReadyInv, OrderInv, NoLoopInv,
     ProgramInv, PassInv, RejectInv, Running, NoRepeat

-----------------------------------------------------------------------------
(* Reading the cells *)

LEMMA ReadGatePreserves == IInv /\ ReadGate => IInv'
<1> SUFFICES ASSUME IInv, ReadGate  PROVE IInv'
  OBVIOUS
<1>1. /\ pc = "cells" /\ pc' = "cells" /\ flops' = flops /\ UNCHANGED <<queueVars, program, cpuVars>>
      /\ TypeOK /\ FlopInv /\ ordered = <<>>
  BY DEF IInv, ReadGate, DriverInv
<1>2. PICK g \in Gates : gates' = Append(gates, g)
  BY DEF ReadGate
<1>3. gates' \in Seq(Gates) /\ DOMAIN gates \subseteq DOMAIN gates'
  BY <1>1, <1>2 DEF TypeOK
<1>4. TypeOK'
  <2>1. \A s \in Seq(DOMAIN gates) : s \in Seq(DOMAIN gates')
    BY <1>3
  <2>. QED  BY <1>1, <1>3, <2>1 DEF TypeOK, queueVars, cpuVars
<1>5. FlopInv'
  BY <1>1 DEF FlopInv
<1>6. ordered' = <<>>
  BY <1>1 DEF queueVars
<1>7. (OrderInv /\ NoLoopInv)'
  BY <1>6 DEF OrderInv, NoLoopInv, NoRepeat, Emitted, Members
<1>. QED
  BY <1>1, <1>4, <1>5, <1>6, <1>7
     DEF IInv, DriverInv, WaitInv, ReadyInv, ProgramInv, PassInv, RejectInv, Running

LEMMA ReadFlopPreserves == IInv /\ ReadFlop => IInv'
<1> SUFFICES ASSUME IInv, ReadFlop  PROVE IInv'
  OBVIOUS
<1>1. /\ pc = "cells" /\ gates' = gates /\ UNCHANGED <<queueVars, program, cpuVars>>
      /\ TypeOK /\ FlopInv /\ ordered = <<>>
  BY DEF IInv, ReadFlop, DriverInv
<1>2. PICK f \in Flops : /\ flops' = Append(flops, f)
                         /\ pc' = IF f.q \in Driven THEN "rejected" ELSE "cells"
  BY DEF ReadFlop
<1>3. /\ flops \in Seq(Flops) /\ flops' \in Seq(Flops) /\ Len(flops) \in Nat
      /\ DOMAIN flops = 1 .. Len(flops) /\ DOMAIN flops' = 1 .. Len(flops) + 1
      /\ \A i \in 1 .. Len(flops) : flops'[i] = flops[i]
      /\ flops'[Len(flops) + 1] = f
  BY <1>1, <1>2 DEF TypeOK
<1>4. TypeOK'
  BY <1>1, <1>2, <1>3 DEF TypeOK, queueVars, cpuVars
<1>5. FlopInv'
  <2> SUFFICES ASSUME f.q \notin Driven
               PROVE \A i \in DOMAIN flops' :
                        /\ flops'[i].q \notin {0, 1} \cup Ports
                        /\ \A j \in DOMAIN flops' : j # i => flops'[j].q # flops'[i].q
    BY <1>2 DEF FlopInv
  <2>1. f.q \notin {0, 1} \cup Ports /\ \A i \in DOMAIN flops : flops[i].q # f.q
    BY DEF Driven
  <2>2. \A i \in DOMAIN flops : /\ flops[i].q \notin {0, 1} \cup Ports
                                /\ \A j \in DOMAIN flops : j # i => flops[j].q # flops[i].q
    BY <1>1 DEF FlopInv
  <2>. QED  BY <1>3, <2>1, <2>2
<1>6. RejectInv'
  <2> SUFFICES ASSUME f.q \in Driven  PROVE TwoDrivers'
    BY <1>2 DEF RejectInv, Bad
  <2>1. CASE f.q \in {0, 1} \cup Ports
    BY <1>3, <2>1 DEF TwoDrivers
  <2>2. CASE \E i \in DOMAIN flops : flops[i].q = f.q
    <3>1. PICK i \in DOMAIN flops : flops[i].q = f.q
      BY <2>2
    <3>2. i \in DOMAIN flops' /\ Len(flops) + 1 \in DOMAIN flops' /\ i # Len(flops) + 1
      BY <1>3
    <3>3. flops'[i].q = flops'[Len(flops) + 1].q
      BY <1>3, <3>1
    <3>. QED  BY <3>2, <3>3 DEF TwoDrivers
  <2>. QED  BY <2>1, <2>2 DEF Driven
<1>7. ordered' = <<>>
  BY <1>1 DEF queueVars
<1>8. (OrderInv /\ NoLoopInv)'
  BY <1>7 DEF OrderInv, NoLoopInv, NoRepeat, Emitted, Members
<1>. QED
  BY <1>1, <1>2, <1>4, <1>5, <1>6, <1>7, <1>8
     DEF IInv, DriverInv, WaitInv, ReadyInv, ProgramInv, PassInv, Running

\* The counters start with what each gate waits for, the queue with those that
\* wait for none.
LEMMA StartOrderPreserves == IInv /\ StartOrder => IInv'
<1> SUFFICES ASSUME IInv, StartOrder  PROVE IInv'
  OBVIOUS
<1>1. /\ pc = "cells" /\ UNCHANGED <<circuit, ordered, levels, program, cpuVars>>
      /\ TypeOK /\ FlopInv /\ ordered = <<>> /\ ordered' = <<>>
  BY DEF IInv, StartOrder, DriverInv
<1>2. (OrderInv /\ NoLoopInv)' /\ Emitted' = {}
  BY <1>1 DEF OrderInv, NoLoopInv, NoRepeat, Emitted, Members
<1>3. FlopInv'
  BY <1>1 DEF FlopInv, circuit
<1>4. /\ gates' = gates /\ flops' = flops
      /\ \A i : Dependencies(i)' = Dependencies(i)
      /\ MultipleDrivers' = MultipleDrivers
      /\ FloatingInput' = FloatingInput
      /\ Bad' = Bad
  BY <1>1, CircuitUnchanged
<1>5. CASE MultipleDrivers \/ FloatingInput
  <2>1. pc' = "rejected" /\ UNCHANGED <<pending, ready>>
    BY <1>5 DEF StartOrder
  <2>2. TypeOK'
    BY <1>1, <1>4, <2>1 DEF TypeOK, cpuVars
  <2>3. Bad
    BY <1>5 DEF Bad, TwoDrivers
  <2>. QED
    BY <1>2, <1>4, <2>1, <2>2, <2>3
       DEF IInv, FlopInv, DriverInv, WaitInv, ReadyInv, ProgramInv, PassInv, RejectInv, Running
<1>6. CASE ~(MultipleDrivers \/ FloatingInput)
  <2> DEFINE S == {i \in DOMAIN gates : WaitsFor(i) = 0}
  <2>1. /\ pc' = "order"
        /\ pending' = [i \in DOMAIN gates |-> Cardinality(Dependencies(i))]
        /\ ready' \in Ascending(S)
    BY <1>6 DEF StartOrder, WaitsFor
  <2>2. /\ \A i \in DOMAIN gates : Cardinality(Dependencies(i)) \in Nat
        /\ \A i \in DOMAIN gates : Cardinality(Dependencies(i)) = 0 <=> Dependencies(i) = {}
        /\ S \subseteq Nat /\ Cardinality(S) \in Nat
    <3>1. \A i \in DOMAIN gates : IsFiniteSet(Dependencies(i))
      BY <1>1, GateTypes
    <3>2. IsFiniteSet(1 .. Len(gates)) /\ DOMAIN gates = 1 .. Len(gates) /\ Len(gates) \in Nat
      BY <1>1, GateTypes, FS_Interval
    <3>3. IsFiniteSet(S)
      BY <3>2, FS_Subset
    <3>. QED  BY <3>1, <3>2, <3>3, FS_CardinalityType, FS_EmptySet
  <2>3. /\ ready' \in Seq(DOMAIN gates) /\ DOMAIN ready' = 1 .. Cardinality(S)
        /\ \A j, k \in DOMAIN ready' : j < k => ready'[j] < ready'[k]
        /\ \A i \in S : \E k \in DOMAIN ready' : ready'[k] = i
        /\ \A k \in DOMAIN ready' : ready'[k] \in S
    <3>1. /\ ready' \in [1 .. Cardinality(S) -> S]
          /\ \A j, k \in 1 .. Cardinality(S) : j < k => ready'[j] < ready'[k]
          /\ \A i \in S : \E k \in 1 .. Cardinality(S) : ready'[k] = i
      BY <2>1, Zenon DEF Ascending
    <3>2. S \subseteq DOMAIN gates
      OBVIOUS
    <3> HIDE DEF S
    <3>3. ready' \in [1 .. Cardinality(S) -> DOMAIN gates]
      BY <3>1, <3>2
    <3>4. ready' \in Seq(DOMAIN gates)
      BY <2>2, <3>3
    <3>5. DOMAIN ready' = 1 .. Cardinality(S)
      BY <3>1
    <3>. QED  BY <3>1, <3>4, <3>5
  <2> HIDE DEF S
  <2>4. NoRepeat(ready')
    <3>1. \A k \in DOMAIN ready' : ready'[k] \in Nat
      BY <2>2, <2>3
    <3>. QED  BY <2>2, <2>3, <3>1 DEF NoRepeat
  <2>5. \A i \in DOMAIN gates : Open(i)' = Dependencies(i)
    BY <1>2, <1>4 DEF Open
  <2>6. ReadyInv'
    <3>1. Members(ready') = S
      BY <2>3 DEF Members
    <3>2. \A i \in DOMAIN gates : i \in S <=> Dependencies(i) = {}
      BY <2>2 DEF S, WaitsFor
    <3>. QED  BY <1>2, <1>4, <2>4, <2>5, <3>1, <3>2 DEF ReadyInv
  <2>7. WaitInv'
    BY <1>4, <2>1, <2>5 DEF WaitInv
  <2>8. TypeOK'
    BY <1>1, <1>4, <2>1, <2>2, <2>3 DEF TypeOK, cpuVars
  <2>. QED
    BY <1>1, <1>2, <1>3, <1>4, <1>6, <2>1, <2>6, <2>7, <2>8
       DEF IInv, DriverInv, ProgramInv, PassInv, RejectInv, Running
<1>. QED  BY <1>5, <1>6

-----------------------------------------------------------------------------
(* The order *)

LEMMA EmitGatePreserves == IInv /\ EmitGate => IInv'
<1> SUFFICES ASSUME IInv, EmitGate  PROVE IInv'
  OBVIOUS
<1>0. PICK h \in DOMAIN gates : h = Head(ready)
  BY DEF IInv, TypeOK, EmitGate
<1> DEFINE Waiting == {j \in DOMAIN gates : h \in Dependencies(j)}
           S == {j \in Waiting : pending[j] = 1}
<1>1. /\ pc = "order" /\ pc' = "order" /\ ready # <<>> /\ UNCHANGED <<circuit, program, cpuVars>>
      /\ TypeOK /\ FlopInv /\ ~MultipleDrivers /\ ~FloatingInput
      /\ WaitInv /\ ReadyInv /\ OrderInv /\ NoLoopInv
  BY DEF IInv, EmitGate, DriverInv
<1>2. PICK level \in NewLevels(h) : levels' = [levels EXCEPT ![gates[h].out] = level]
  BY <1>0 DEF EmitGate
<1>3. PICK new \in Ascending(S) : ready' = Joined(Tail(ready), new)
  BY <1>0 DEF EmitGate
<1>4. /\ ordered' = Append(ordered, h)
      /\ pending' = [j \in DOMAIN gates |-> IF j \in Waiting THEN pending[j] - 1 ELSE pending[j]]
  BY <1>0 DEF EmitGate
<1>5. /\ gates' = gates /\ flops' = flops
      /\ \A i : Dependencies(i)' = Dependencies(i)
      /\ MultipleDrivers' = MultipleDrivers /\ FloatingInput' = FloatingInput
      /\ DOMAIN gates = 1 .. Len(gates) /\ Len(gates) \in Nat
      /\ \A i \in DOMAIN gates : /\ gates[i].out \in Nets /\ InputsOf(i) \subseteq Nets
                                 /\ Dependencies(i) \subseteq DOMAIN gates
                                 /\ IsFiniteSet(Dependencies(i))
  BY <1>1, CircuitUnchanged, GateTypes
<1>6. h \in DOMAIN gates /\ h \in Members(ready) /\ ready \in Seq(DOMAIN gates)
  BY <1>0, <1>1 DEF TypeOK, Members
<1>7. h \notin Emitted /\ Open(h) = {} /\ Dependencies(h) \subseteq Emitted
  BY <1>1, <1>6 DEF ReadyInv, Open
<1>8. /\ ordered \in Seq(DOMAIN gates) /\ ordered' \in Seq(DOMAIN gates)
      /\ Len(ordered) \in Nat
      /\ DOMAIN ordered = 1 .. Len(ordered) /\ DOMAIN ordered' = 1 .. Len(ordered) + 1
      /\ \A k \in 1 .. Len(ordered) : ordered'[k] = ordered[k]
      /\ ordered'[Len(ordered) + 1] = h
  BY <1>1, <1>4, <1>6 DEF TypeOK
<1>9. Emitted' = Emitted \cup {h} /\ Emitted \subseteq DOMAIN gates
  <2>1. \A x \in Emitted' : x \in Emitted \cup {h}
    BY <1>8 DEF Emitted, Members
  <2>2. \A x \in Emitted : x \in Emitted'
    BY <1>8 DEF Emitted, Members
  <2>3. h \in Emitted'
    BY <1>8 DEF Emitted, Members
  <2>4. Emitted \subseteq DOMAIN gates
    BY <1>8 DEF Emitted, Members
  <2>. QED  BY <2>1, <2>2, <2>3, <2>4
<1>10. \A i \in DOMAIN gates : Open(i)' = Open(i) \ {h}
  BY <1>5, <1>9 DEF Open
<1>11. \A i \in DOMAIN gates : h \in Open(i) <=> i \in Waiting
  BY <1>7 DEF Open
<1>12. \A i \in DOMAIN gates :
          /\ IsFiniteSet(Open(i)) /\ Cardinality(Open(i)) \in Nat
          /\ Cardinality(Open(i)) = 0 <=> Open(i) = {}
          /\ Cardinality(Open(i) \ {h}) = IF h \in Open(i) THEN Cardinality(Open(i)) - 1
                                          ELSE Cardinality(Open(i))
          /\ IsFiniteSet(Open(i) \ {h}) /\ Cardinality(Open(i) \ {h}) \in Nat
          /\ Cardinality(Open(i) \ {h}) = 0 <=> Open(i) \ {h} = {}
  <2> SUFFICES ASSUME NEW i \in DOMAIN gates
               PROVE  /\ IsFiniteSet(Open(i)) /\ IsFiniteSet(Open(i) \ {h})
    BY FS_CardinalityType, FS_EmptySet, FS_RemoveElement
  <2>. QED  BY <1>5, FS_Subset DEF Open
<1>13. WaitInv'
  BY <1>1, <1>4, <1>5, <1>10, <1>11, <1>12 DEF WaitInv
<1>14. pending' \in [DOMAIN gates -> Nat]
  <2>1. \A i \in DOMAIN gates : pending'[i] = Cardinality(Open(i) \ {h})
    BY <1>1, <1>4, <1>11, <1>12 DEF WaitInv
  <2>. QED  BY <1>4, <1>12, <2>1
<1>15. /\ S \cap Members(ready) = {} /\ S \subseteq DOMAIN gates /\ S \subseteq Nat
       /\ Cardinality(S) \in Nat
  <2>1. \A i \in S : Open(i) # {}
    BY <1>11
  <2>2. S \subseteq DOMAIN gates /\ S \subseteq Nat
    <3>1. S \subseteq DOMAIN gates
      OBVIOUS
    <3> HIDE DEF S
    <3>. QED  BY <1>5, <3>1
  <2>3. IsFiniteSet(S) /\ Cardinality(S) \in Nat
    <3> HIDE DEF S
    <3>1. IsFiniteSet(DOMAIN gates)
      BY <1>5, FS_Interval
    <3>. QED  BY <2>2, <3>1, FS_Subset, FS_CardinalityType
  <2>4. \A i \in DOMAIN gates : i \in Members(ready) => Open(i) = {}
    BY <1>1 DEF ReadyInv
  <2> HIDE DEF S
  <2>. QED  BY <2>1, <2>2, <2>3, <2>4
<1> HIDE DEF S, Waiting
<1>16. /\ ready' \in Seq(DOMAIN gates)
       /\ NoRepeat(ready')
       /\ Members(ready') = (Members(ready) \ {h}) \cup S
  BY <1>1, <1>3, <1>6, <1>0, <1>15, Joining DEF ReadyInv
<1>17. ReadyInv'
  <2> SUFFICES ASSUME NEW i \in DOMAIN gates
               PROVE  i \in Members(ready') <=> i \notin Emitted' /\ Open(i)' = {}
    BY <1>5, <1>16 DEF ReadyInv
  <2>1. i \in Members(ready) <=> i \notin Emitted /\ Open(i) = {}
    BY <1>1 DEF ReadyInv
  <2>2. i \in S <=> h \in Open(i) /\ Cardinality(Open(i)) = 1
    BY <1>1, <1>11 DEF S, Waiting, WaitInv
  <2>3. i \in S <=> h \in Open(i) /\ Open(i) \ {h} = {}
    <3> DEFINE c == Cardinality(Open(i))
               d == Cardinality(Open(i) \ {h})
    <3>1. c \in Nat /\ (d = 0 <=> Open(i) \ {h} = {}) /\ (h \in Open(i) => d = c - 1)
      BY <1>12
    <3> HIDE DEF c, d
    <3>2. h \in Open(i) => (c = 1 <=> Open(i) \ {h} = {})
      BY <3>1
    <3>. QED  BY <2>2, <3>2 DEF c
  <2>4. i \in Emitted => Open(i) = {}
    BY <1>1 DEF OrderInv, Open
  <2>5. Open(i)' = Open(i) \ {h} /\ (i \in Emitted' <=> i \in Emitted \/ i = h)
    BY <1>9, <1>10
  <2>6. i \in Members(ready') <=> (i \in Members(ready) /\ i # h) \/ i \in S
    BY <1>16
  <2>. QED  BY <1>7, <2>1, <2>3, <2>4, <2>5, <2>6
<1>18. OrderInv'
  <2>1. NoRepeat(ordered')
    <3>1. \A k \in 1 .. Len(ordered) : ordered[k] # h
      BY <1>7, <1>8 DEF Emitted, Members
    <3>2. NoRepeat(ordered)
      BY <1>1 DEF OrderInv
    <3>. QED  BY <1>8, <3>1, <3>2 DEF NoRepeat
  <2>2. \A j \in DOMAIN gates : j # h => LevelOf(j)' = LevelOf(j)
    BY <1>1, <1>2, <1>5, <1>6, SingleDriver DEF LevelOf, TypeOK
  <2>3. LevelOf(h)' = level
    BY <1>1, <1>2, <1>5, <1>6 DEF LevelOf, TypeOK
  <2>4. \A j \in Dependencies(h) : LevelOf(j) < level
    BY <1>2 DEF NewLevels, Dependencies, LevelOf
  <2> SUFFICES ASSUME NEW i \in Emitted \cup {h}
               PROVE  /\ Dependencies(i) \subseteq Emitted
                      /\ \A j \in Dependencies(i) : LevelOf(j)' < LevelOf(i)'
    BY <1>5, <1>9, <2>1 DEF OrderInv
  <2>5. CASE i = h
    <3>1. \A j \in Dependencies(h) : j # h /\ j \in DOMAIN gates
      BY <1>5, <1>6, <1>7
    <3>. QED  BY <1>7, <2>2, <2>3, <2>4, <2>5, <3>1
  <2>6. CASE i \in Emitted
    <3>1. Dependencies(i) \subseteq Emitted /\ \A j \in Dependencies(i) : LevelOf(j) < LevelOf(i)
      BY <1>1, <2>6 DEF OrderInv
    <3>2. i # h /\ \A j \in Dependencies(i) : j # h /\ j \in DOMAIN gates
      BY <1>7, <1>9, <2>6, <3>1
    <3>. QED  BY <1>9, <2>2, <2>6, <3>1, <3>2
  <2>. QED  BY <2>5, <2>6
<1>19. NoLoopInv'
  <2> SUFFICES ASSUME NEW T \in SUBSET (Emitted \cup {h}), T # {}
               PROVE  \E i \in T : Dependencies(i) \cap T = {}
    BY <1>5, <1>9 DEF NoLoopInv
  <2>1. CASE T \ {h} = {}
    BY <1>7, <2>1
  <2>2. CASE T \ {h} # {}
    <3>1. PICK i \in T \ {h} : Dependencies(i) \cap (T \ {h}) = {}
      BY <1>1, <2>2 DEF NoLoopInv
    <3>2. h \notin Dependencies(i)
      BY <1>1, <1>7, <3>1 DEF OrderInv
    <3>. QED  BY <3>1, <3>2
  <2>. QED  BY <2>1, <2>2
<1>20. levels' \in [Nets -> Nat]
  BY <1>1, <1>2, <1>5, <1>6 DEF TypeOK, NewLevels
<1>21. TypeOK'
  BY <1>1, <1>5, <1>8, <1>14, <1>16, <1>20 DEF TypeOK, cpuVars
<1>22. FlopInv'
  BY <1>1, <1>5 DEF FlopInv
<1>. QED
  BY <1>1, <1>5, <1>13, <1>17, <1>18, <1>19, <1>21, <1>22
     DEF IInv, DriverInv, ProgramInv, PassInv, RejectInv, Running

\* When the queue is empty, gates that are left wait for each other, and a
\* list of all gates is in order after sorting as well.
LEMMA FinishOrderPreserves == IInv /\ FinishOrder => IInv'
<1> SUFFICES ASSUME IInv, FinishOrder  PROVE IInv'
  OBVIOUS
<1>1. /\ pc = "order" /\ ready = <<>> /\ UNCHANGED <<circuit, queueVars, at, second>>
      /\ TypeOK /\ FlopInv /\ ~MultipleDrivers /\ ~FloatingInput
      /\ ReadyInv /\ OrderInv /\ NoLoopInv
  BY DEF IInv, FinishOrder, DriverInv
<1>2. /\ gates' = gates /\ flops' = flops /\ ordered' = ordered /\ levels' = levels
      /\ pending' = pending /\ ready' = ready
      /\ \A i : Dependencies(i)' = Dependencies(i)
      /\ MultipleDrivers' = MultipleDrivers /\ FloatingInput' = FloatingInput
      /\ FloatingResult' = FloatingResult /\ Bad' = Bad
      /\ DOMAIN gates = 1 .. Len(gates) /\ Len(gates) \in Nat
      /\ \A i \in DOMAIN gates : Dependencies(i) \subseteq DOMAIN gates
  BY <1>1, CircuitUnchanged, GateTypes DEF queueVars
<1>3. /\ ordered \in Seq(DOMAIN gates) /\ Len(ordered) \in Nat
      /\ ordered \in [1 .. Len(ordered) -> DOMAIN gates]
      /\ DOMAIN ordered = Positions
      /\ Emitted \subseteq DOMAIN gates
  BY <1>1 DEF TypeOK, Emitted, Members, Positions
<1>4. Emitted' = Emitted /\ \A i : LevelOf(i)' = LevelOf(i)
  BY <1>2 DEF Emitted, LevelOf
<1>5. (FlopInv /\ OrderInv /\ NoLoopInv)'
  <2>1. FlopInv'
    BY <1>1, <1>2 DEF FlopInv
  <2>2. OrderInv'
    BY <1>1, <1>2, <1>4 DEF OrderInv
  <2>3. NoLoopInv'
    BY <1>1, <1>2, <1>4 DEF NoLoopInv
  <2>. QED  BY <2>1, <2>2, <2>3
<1>6. CASE Len(ordered) # Len(gates) \/ FloatingResult
  <2>1. pc' = "rejected" /\ UNCHANGED <<program, nets>>
    BY <1>6 DEF FinishOrder
  <2>2. TypeOK'
    BY <1>1, <1>2, <2>1 DEF TypeOK
  <2>3. Bad
    <3>1. CASE FloatingResult
      BY <3>1 DEF Bad
    <3>2. CASE Len(ordered) # Len(gates)
      <4>1. Emitted # DOMAIN gates
        BY <1>1, <1>2, <1>3, <3>2, OneToOneLength DEF OrderInv, Emitted
      <4> DEFINE S == DOMAIN gates \ Emitted
      <4>2. S # {} /\ S \in SUBSET DOMAIN gates
        BY <1>3, <4>1
      <4>3. \A i \in S : Dependencies(i) \cap S # {}
        <5> SUFFICES ASSUME NEW i \in S  PROVE Open(i) # {}
          BY <1>2 DEF Open
        <5>1. i \notin Members(ready)
          BY <1>1 DEF Members
        <5>. QED  BY <1>1, <5>1 DEF ReadyInv
      <4> HIDE DEF S
      <4>4. Loop
        BY <4>2, <4>3, Zenon DEF Loop
      <4>. QED  BY <4>4 DEF Bad
    <3>. QED  BY <1>6, <3>1, <3>2
  <2>. QED
    BY <1>2, <1>5, <2>1, <2>2, <2>3
       DEF IInv, DriverInv, WaitInv, ReadyInv, ProgramInv, PassInv, RejectInv, Running
<1>7. CASE ~(Len(ordered) # Len(gates) \/ FloatingResult)
  <2>1. pc' = "drive" /\ nets' \in PowerOn
    BY <1>7 DEF FinishOrder
  <2>2. PICK p \in ByLevel : program' = [k \in Positions |-> ordered[p[k]]]
    BY <1>7 DEF FinishOrder
  <2>3. Emitted = DOMAIN gates
    BY <1>1, <1>2, <1>3, <1>7, OneToOneOnto DEF OrderInv, Emitted
  <2>4. /\ p \in [Positions -> Positions]
        /\ \A j, k \in Positions :
              j < k => \/ LevelOf(ordered[p[j]]) < LevelOf(ordered[p[k]])
                       \/ LevelOf(ordered[p[j]]) = LevelOf(ordered[p[k]]) /\ p[j] < p[k]
    BY Zenon DEF ByLevel
  <2>5. \A i \in DOMAIN gates : LevelOf(i) \in Nat
    BY <1>1, GateTypes DEF LevelOf, TypeOK
  <2>6. \A j, k \in Positions : j < k => p[j] # p[k]
    <3> SUFFICES ASSUME NEW j \in Positions, NEW k \in Positions, j < k, p[j] = p[k]  PROVE FALSE
      OBVIOUS
    <3>1. p[k] \in Positions /\ p[k] \in Nat
      BY <2>4 DEF Positions
    <3>2. LevelOf(ordered[p[k]]) \in Nat
      BY <1>3, <2>5, <3>1
    <3>. QED  BY <2>4, <3>1, <3>2
  <2>7. NoRepeat(p) /\ Members(p) = Positions
    <3>1. NoRepeat(p)
      BY <1>3, <2>4, <2>6 DEF NoRepeat, Positions
    <3>. QED  BY <1>3, <2>4, <3>1, OneToOneOnto DEF Positions
  <2>8. /\ program' \in [Positions -> DOMAIN gates]
        /\ program' \in Seq(DOMAIN gates) /\ DOMAIN program' = Positions
        /\ \A k \in Positions : program'[k] = ordered[p[k]] /\ p[k] \in Positions
    <3>1. /\ program' \in [Positions -> DOMAIN gates]
          /\ \A k \in Positions : program'[k] = ordered[p[k]] /\ p[k] \in Positions
      BY <1>3, <2>2, <2>4
    <3>. QED  BY <1>3, <3>1 DEF Positions
  <2>9. NoRepeat(program')
    BY <1>1, <1>3, <2>7, <2>8, <2>4 DEF NoRepeat, OrderInv
  <2>10. Members(program') = DOMAIN gates
    <3>1. \A i \in DOMAIN gates : \E k \in Positions : program'[k] = i
      <4> SUFFICES ASSUME NEW i \in DOMAIN gates  PROVE \E k \in Positions : program'[k] = i
        OBVIOUS
      <4>1. PICK j \in Positions : ordered[j] = i
        BY <1>3, <2>3 DEF Emitted, Members
      <4>2. PICK k \in Positions : p[k] = j
        BY <2>4, <2>7 DEF Members
      <4>. QED  BY <2>8, <4>1, <4>2
    <3>. QED  BY <2>8, <3>1 DEF Members
  <2>11. ASSUME NEW k \in DOMAIN program', NEW j \in Dependencies(program'[k])
         PROVE  \E l \in DOMAIN program' : l < k /\ program'[l] = j
    <3>1. program'[k] \in DOMAIN gates /\ j \in DOMAIN gates
      BY <1>2, <2>8
    <3>2. LevelOf(j) < LevelOf(program'[k])
      BY <1>1, <2>3, <3>1 DEF OrderInv
    <3>3. PICK l \in Positions : program'[l] = j
      BY <2>8, <2>10, <3>1 DEF Members
    <3>4. l # k
      BY <2>5, <3>1, <3>2, <3>3
    <3>5. ~(k < l)
      <4> SUFFICES ASSUME k < l  PROVE FALSE
        OBVIOUS
      <4>0. k \in Positions /\ program'[k] = ordered[p[k]] /\ j = ordered[p[l]]
        BY <2>8, <3>3
      <4>1. LevelOf(program'[k]) <= LevelOf(j)
        <5>1. \/ LevelOf(ordered[p[k]]) < LevelOf(ordered[p[l]])
              \/ LevelOf(ordered[p[k]]) = LevelOf(ordered[p[l]])
          BY <2>4, <3>3, <4>0
        <5>2. \/ LevelOf(program'[k]) < LevelOf(j)
              \/ LevelOf(program'[k]) = LevelOf(j)
          BY <4>0, <5>1, Zenon
        <5>. QED  BY <2>5, <3>1, <5>2
      <4>. QED  BY <2>5, <3>1, <3>2, <4>1
    <3>6. l < k
      BY <1>3, <2>8, <3>4, <3>5 DEF Positions
    <3>. QED  BY <2>8, <3>3, <3>6
  <2>12. ProgramInv'
    BY <1>2, <1>4, <1>7, <2>3, <2>9, <2>10, <2>11 DEF ProgramInv
  <2>13. nets' \in [Nets -> Bit]
    BY <2>1 DEF PowerOn, Bit
  <2>14. TypeOK'
    BY <1>1, <1>2, <2>1, <2>8, <2>13 DEF TypeOK
  <2>. QED
    BY <1>1, <1>2, <1>5, <2>1, <2>12, <2>14
       DEF IInv, DriverInv, WaitInv, ReadyInv, PassInv, RejectInv, Running
<1>. QED  BY <1>6, <1>7

-----------------------------------------------------------------------------
(* The processor *)

\* Steps of the processor leave the netlist and its order alone.
LEMMA CircuitKept ==
    ASSUME IInv, UNCHANGED <<circuit, queueVars, program>>, pc \in Running, pc' \in Running,
           nets' \in [Nets -> Bit], at' \in Nat \ {0}, second' \in BOOLEAN, PassInv'
    PROVE  IInv'
<1>1. /\ gates' = gates /\ flops' = flops /\ ordered' = ordered /\ levels' = levels
      /\ pending' = pending /\ ready' = ready /\ program' = program
      /\ \A i : Dependencies(i)' = Dependencies(i)
      /\ MultipleDrivers' = MultipleDrivers /\ FloatingInput' = FloatingInput
      /\ FloatingResult' = FloatingResult
  BY CircuitUnchanged DEF queueVars
<1>2. TypeOK /\ FlopInv /\ DriverInv /\ OrderInv /\ NoLoopInv /\ ProgramInv
  BY DEF IInv
<1>3. Emitted' = Emitted /\ \A i : LevelOf(i)' = LevelOf(i)
  BY <1>1 DEF Emitted, LevelOf
<1>4. TypeOK'
  BY <1>1, <1>2 DEF TypeOK, Running
<1>5. FlopInv' /\ DriverInv'
  BY <1>1, <1>2 DEF FlopInv, DriverInv, Running
<1>6. OrderInv' /\ NoLoopInv'
  BY <1>1, <1>2, <1>3 DEF OrderInv, NoLoopInv
<1>7. ProgramInv'
  BY <1>1, <1>2, <1>3 DEF ProgramInv
<1>. QED
  BY <1>4, <1>5, <1>6, <1>7 DEF IInv, WaitInv, ReadyInv, RejectInv, Running

LEMMA DrivePreserves == IInv /\ Drive => IInv'
<1> SUFFICES ASSUME IInv, Drive  PROVE IInv'
  OBVIOUS
<1>1. nets' \in [Nets -> Bit]
  BY DEF IInv, TypeOK, Drive, Bit
<1>2. pc = "drive" /\ pc' = "evaluate" /\ at' = 1 /\ UNCHANGED <<circuit, queueVars, program, second>>
  BY DEF Drive
<1>3. PassInv'
  BY <1>2 DEF IInv, TypeOK, PassInv
<1>4. second' \in BOOLEAN
  BY <1>2 DEF IInv, TypeOK
<1>. QED  BY <1>1, <1>2, <1>3, <1>4, CircuitKept DEF Running

LEMMA AnswerType ==
    ASSUME TypeOK, NEW i \in DOMAIN gates
    PROVE  Answer(i) \in Bit
<1>1. /\ gates[i] \in Gates /\ gates[i].in \in Seq(Nets)
  BY GateTypes
<1>2. [k \in DOMAIN gates[i].in |-> nets[gates[i].in[k]]] \in [DOMAIN gates[i].in -> Bit]
  BY <1>1 DEF TypeOK
<1>. QED  BY <1>1, <1>2, NetlistAssumption DEF Answer

\* The gate that answers drives neither the inputs nor the output of a gate
\* that has answered before it.
LEMMA EvaluateGatePreserves == IInv /\ EvaluateGate => IInv'
<1> SUFFICES ASSUME IInv, EvaluateGate  PROVE IInv'
  OBVIOUS
<1>1. /\ pc = "evaluate" /\ pc' = "evaluate" /\ at <= Len(program) /\ at' = at + 1
      /\ UNCHANGED <<circuit, queueVars, program, second>> /\ gates' = gates /\ program' = program
      /\ TypeOK /\ ProgramInv /\ PassInv /\ ~MultipleDrivers
  BY DEF IInv, EvaluateGate, circuit, DriverInv, Running
<1>2. at \in DOMAIN program /\ at \in Nat \ {0} /\ DOMAIN program \subseteq Nat
  BY <1>1 DEF TypeOK
<1>3. PICK h \in DOMAIN gates : h = program[at]
  BY <1>1, <1>2 DEF TypeOK
<1>4. nets' = [nets EXCEPT ![gates[h].out] = Answer(h)]
  BY <1>3 DEF EvaluateGate
<1>5. gates[h].out \in Nets /\ Answer(h) \in Bit /\ nets \in [Nets -> Bit]
  BY <1>1, GateTypes, AnswerType DEF TypeOK
<1>6. nets' \in [Nets -> Bit] /\ nets'[gates[h].out] = Answer(h)
      /\ \A n \in Nets : n # gates[h].out => nets'[n] = nets[n]
  BY <1>4, <1>5
<1>7. \A k \in DOMAIN program : k <= at => h \notin Dependencies(program[k])
  <2> SUFFICES ASSUME NEW k \in DOMAIN program, k <= at, h \in Dependencies(program[k])  PROVE FALSE
    OBVIOUS
  <2>1. PICK l \in DOMAIN program : l < k /\ program[l] = h
    BY <1>1 DEF ProgramInv, Running
  <2>2. l = at
    BY <1>1, <1>2, <1>3, <2>1 DEF ProgramInv, Running, NoRepeat
  <2>. QED  BY <1>2, <2>1, <2>2
<1>8. \A k \in DOMAIN program : k <= at => Answer(program[k])' = Answer(program[k])
  <2> SUFFICES ASSUME NEW k \in DOMAIN program, k <= at, NEW i \in DOMAIN gates, i = program[k]
               PROVE  Answer(i)' = Answer(i)
    BY <1>1 DEF TypeOK
  <2>1. gates[h].out \notin InputsOf(i)
    BY <1>3, <1>7 DEF Dependencies
  <2>2. \A m \in DOMAIN gates[i].in : gates[i].in[m] \in Nets /\ gates[i].in[m] # gates[h].out
    BY <1>1, <2>1, GateTypes DEF InputsOf
  <2>. QED  BY <1>1, <1>6, <2>2 DEF Answer
<1>9. PassInv'
  <2> SUFFICES ASSUME NEW k \in DOMAIN program, k < at + 1
               PROVE  nets'[gates[program[k]].out] = Answer(program[k])'
    BY <1>1 DEF PassInv
  <2>1. k <= at
    BY <1>2
  <2>2. CASE k = at
    BY <1>3, <1>6, <1>8, <2>1, <2>2
  <2>3. CASE k < at
    <3>1. PICK i \in DOMAIN gates : i = program[k]
      BY <1>1 DEF TypeOK
    <3>2. i # h
      BY <1>1, <1>2, <1>3, <2>3, <3>1 DEF ProgramInv, Running, NoRepeat
    <3>3. gates[i].out # gates[h].out /\ gates[i].out \in Nets
      BY <1>1, <3>2, SingleDriver, GateTypes
    <3>4. nets[gates[i].out] = Answer(i)
      BY <1>1, <2>3, <3>1 DEF PassInv
    <3>. QED  BY <1>6, <1>8, <2>1, <3>1, <3>3, <3>4
  <2>. QED  BY <1>2, <2>1, <2>2, <2>3
<1>10. at' \in Nat \ {0} /\ second' \in BOOLEAN
  BY <1>1, <1>2 DEF TypeOK
<1>. QED  BY <1>1, <1>6, <1>9, <1>10, CircuitKept DEF Running

LEMMA PassedIsSettled ==
    ASSUME IInv, pc = "evaluate", at > Len(program)
    PROVE  Settled
<1> SUFFICES ASSUME NEW i \in DOMAIN gates  PROVE nets[gates[i].out] = Answer(i)
  BY DEF Settled
<1>1. PICK k \in DOMAIN program : program[k] = i
  BY DEF IInv, ProgramInv, Running, Members
<1>2. k < at
  BY DEF IInv, TypeOK
<1>. QED  BY <1>1, <1>2 DEF IInv, PassInv

LEMMA EndPassPreserves == IInv /\ EndPass => IInv'
<1> SUFFICES ASSUME IInv, EndPass  PROVE IInv'
  OBVIOUS
<1>1. /\ pc = "evaluate" /\ at > Len(program) /\ pc' \in {"drive", "edge"}
      /\ UNCHANGED <<circuit, queueVars, program, nets, at>> /\ gates' = gates
  BY DEF EndPass, circuit
<1>2. Settled'
  BY <1>1, PassedIsSettled DEF Settled, Answer
<1>3. PassInv'
  BY <1>1, <1>2 DEF PassInv
<1>4. nets' \in [Nets -> Bit] /\ at' \in Nat \ {0}
  BY <1>1 DEF IInv, TypeOK
<1>5. second' \in BOOLEAN
  BY Zenon DEF EndPass
<1>. QED  BY <1>1, <1>3, <1>4, <1>5, CircuitKept DEF Running

\* After the edge a net has what was on the input of a flip-flop that drives
\* it, or what it had.
LEMMA ClockedFrom ==
    ASSUME NEW n \in Nets
    PROVE  \/ /\ \A i \in DOMAIN flops : flops[i].q # n
              /\ Clocked(n) = nets[n]
           \/ \E i \in DOMAIN flops : flops[i].q = n /\ Clocked(n) = nets[flops[i].d]
<1>1. CASE \A i \in DOMAIN flops : flops[i].q # n
  BY <1>1, Zenon DEF Clocked
<1>2. CASE \E i \in DOMAIN flops : flops[i].q = n
  <2>1. PICK c : c = CHOOSE i \in DOMAIN flops : flops[i].q = n
    OBVIOUS
  <2>2. c \in DOMAIN flops /\ flops[c].q = n
    BY <1>2, <2>1, Zenon
  <2>3. Clocked(n) = nets[flops[c].d]
    BY <1>2, <2>1, Zenon DEF Clocked
  <2>. QED  BY <2>2, <2>3
<1>. QED  BY <1>1, <1>2

LEMMA EdgePreserves == IInv /\ Edge => IInv'
<1> SUFFICES ASSUME IInv, Edge  PROVE IInv'
  OBVIOUS
<1>1. /\ pc = "edge" /\ pc' = "drive" /\ nets' = [n \in Nets |-> Clocked(n)]
      /\ UNCHANGED <<circuit, queueVars, program, at, second>> /\ TypeOK
  BY DEF IInv, Edge
<1>2. \A n \in Nets : Clocked(n) \in Bit
  <2>1. \A i \in DOMAIN flops : flops[i].d \in Nets
    <3>1. \A i \in DOMAIN flops : flops[i] \in Flops
      BY <1>1 DEF TypeOK
    <3>. QED  BY <3>1, NetlistAssumption
  <2>2. \A n \in Nets : nets[n] \in Bit
    BY <1>1 DEF TypeOK
  <2>. QED  BY <2>1, <2>2, ClockedFrom
<1>3. PassInv'
  BY <1>1 DEF PassInv
<1>4. nets' \in [Nets -> Bit] /\ at' \in Nat \ {0} /\ second' \in BOOLEAN
  BY <1>1, <1>2 DEF TypeOK
<1>. QED  BY <1>1, <1>3, <1>4, CircuitKept DEF Running

LEMMA StutterPreserves == IInv /\ UNCHANGED vars => IInv'
<1> SUFFICES ASSUME IInv, UNCHANGED vars  PROVE IInv'
  OBVIOUS
<1>1. /\ gates' = gates /\ flops' = flops /\ ordered' = ordered /\ levels' = levels
      /\ pending' = pending /\ ready' = ready /\ program' = program
      /\ pc' = pc /\ nets' = nets /\ at' = at /\ second' = second
      /\ UNCHANGED circuit
  BY DEF vars, circuit, queueVars, cpuVars
<1>2. /\ \A i : Dependencies(i)' = Dependencies(i)
      /\ MultipleDrivers' = MultipleDrivers /\ FloatingInput' = FloatingInput
      /\ FloatingResult' = FloatingResult /\ Bad' = Bad
  BY <1>1, CircuitUnchanged
<1>3. Emitted' = Emitted /\ (\A i : LevelOf(i)' = LevelOf(i)) /\ (\A i : Answer(i)' = Answer(i))
  BY <1>1 DEF Emitted, LevelOf, Answer
<1>4. \A i : Open(i)' = Open(i)
  BY <1>2, <1>3 DEF Open
<1>5. Settled' = Settled
  BY <1>1, <1>3 DEF Settled
<1>6. TypeOK'
  BY <1>1 DEF IInv, TypeOK
<1>7. FlopInv' /\ DriverInv' /\ RejectInv'
  BY <1>1, <1>2 DEF IInv, FlopInv, DriverInv, RejectInv, Running
<1>8. WaitInv' /\ ReadyInv'
  BY <1>1, <1>3, <1>4 DEF IInv, WaitInv, ReadyInv
<1>9. OrderInv' /\ NoLoopInv'
  BY <1>1, <1>2, <1>3 DEF IInv, OrderInv, NoLoopInv
<1>10. ProgramInv'
  BY <1>1, <1>2, <1>3 DEF IInv, ProgramInv, Running
<1>11. PassInv'
  BY <1>1, <1>3, <1>5 DEF IInv, PassInv
<1>. QED  BY <1>6, <1>7, <1>8, <1>9, <1>10, <1>11 DEF IInv

-----------------------------------------------------------------------------
(* The levels of the queue *)

TopLevel == IF ordered = <<>> THEN 0 ELSE LevelOf(ordered[Len(ordered)])

\* The queue holds gates of one level and, after them, of the next.
LevelInv ==
    /\ SortKeepsOrder
    /\ \A n \in Nets : levels[n] <= TopLevel
    /\ pc = "order" =>
          \A k \in DOMAIN ready : \A l \in NewLevels(ready[k]) :
              /\ TopLevel <= l /\ l <= TopLevel + 1
              /\ \A j \in DOMAIN ready : j < k => \A m \in NewLevels(ready[j]) : m <= l

LEMMA StartOrderLevels == IInv /\ LevelInv /\ StartOrder => LevelInv'
<1> SUFFICES ASSUME IInv, LevelInv, StartOrder  PROVE LevelInv'
  OBVIOUS
<1>1. ordered = <<>> /\ UNCHANGED <<circuit, ordered, levels>> /\ levels \in [Nets -> Nat] /\ TypeOK
  BY DEF IInv, DriverInv, StartOrder, TypeOK
<1>2. TopLevel = 0 /\ TopLevel' = 0
  BY <1>1 DEF TopLevel
<1>3. \A n \in Nets : levels[n] = 0
  BY <1>1, <1>2 DEF LevelInv
<1>4. ready' \in Seq(DOMAIN gates) /\ gates' = gates
  <2>1. TypeOK' /\ gates' = gates
    BY StartOrderPreserves, <1>1 DEF IInv, circuit
  <2>. QED  BY <2>1 DEF TypeOK
<1>5. \A i \in DOMAIN gates : \A l \in NewLevels(i)' : l = 1
  BY <1>1, <1>3, GateTypes, CircuitUnchanged DEF NewLevels
<1>6. SortKeepsOrder'
  BY <1>1 DEF SortKeepsOrder
<1>. QED  BY <1>1, <1>2, <1>3, <1>4, <1>5, <1>6 DEF LevelInv

\* What Append does to a sequence.
LEMMA OneMore ==
    ASSUME NEW D, NEW s \in Seq(D), NEW x \in D, NEW t, t = Append(s, x)
    PROVE  /\ DOMAIN t = 1 .. Len(s) + 1 /\ Len(s) \in Nat
           /\ Len(t) = Len(s) + 1 /\ t # <<>>
           /\ \A k \in 1 .. Len(s) : t[k] = s[k] /\ s[k] \in D
           /\ t[Len(s) + 1] = x
  OBVIOUS

LEMMA EmitGateLevels == IInv /\ LevelInv /\ EmitGate => LevelInv'
<1> SUFFICES ASSUME IInv, LevelInv, EmitGate  PROVE LevelInv'
  OBVIOUS
<1>0. PICK h \in DOMAIN gates : h = Head(ready)
  BY DEF IInv, TypeOK, EmitGate
<1> DEFINE Waiting == {j \in DOMAIN gates : h \in Dependencies(j)}
           S == {j \in Waiting : pending[j] = 1}
<1>1. /\ pc = "order" /\ pc' = "order" /\ ready # <<>> /\ UNCHANGED circuit
      /\ TypeOK /\ ~MultipleDrivers /\ ReadyInv
  BY DEF IInv, EmitGate, DriverInv
<1>2. PICK level \in NewLevels(h) : levels' = [levels EXCEPT ![gates[h].out] = level]
  BY <1>0 DEF EmitGate
<1>3. PICK new \in Ascending(S) : ready' = Joined(Tail(ready), new)
  BY <1>0 DEF EmitGate
<1>4. ordered' = Append(ordered, h)
  BY <1>0 DEF EmitGate
<1>5. /\ gates' = gates
      /\ \A i : InputsOf(i)' = InputsOf(i)
      /\ DOMAIN gates = 1 .. Len(gates) /\ Len(gates) \in Nat
      /\ \A i \in DOMAIN gates : gates[i].out \in Nets /\ InputsOf(i) \subseteq Nets
      /\ levels \in [Nets -> Nat] /\ ready \in Seq(DOMAIN gates) /\ ordered \in Seq(DOMAIN gates)
  BY <1>1, CircuitUnchanged, GateTypes DEF TypeOK
<1>6. S \subseteq DOMAIN gates /\ Cardinality(S) \in Nat
  <2>1. S \subseteq DOMAIN gates
    OBVIOUS
  <2>2. IsFiniteSet(DOMAIN gates)
    BY <1>5, FS_Interval
  <2> HIDE DEF S
  <2>. QED  BY <2>1, <2>2, FS_Subset, FS_CardinalityType
<1>7. \A i \in S : gates[h].out \in InputsOf(i)
  BY DEF Dependencies
<1> HIDE DEF S, Waiting
\* The level of the gate.
<1>8. level \in Nat /\ TopLevel <= level /\ level <= TopLevel + 1 /\ TopLevel \in Nat
  <2>1. 1 \in DOMAIN ready /\ h = ready[1]
    BY <1>0, <1>1, <1>5
  <2>2. level \in Nat
    BY <1>2, <1>5 DEF NewLevels
  <2>3. TopLevel \in Nat
    BY <1>1, <1>5 DEF TopLevel, LevelOf
  <2>. QED  BY <1>1, <1>2, <2>1, <2>2, <2>3 DEF LevelInv
<1>9. levels'[gates[h].out] = level /\ \A n \in Nets : n # gates[h].out => levels'[n] = levels[n]
  BY <1>2, <1>5
<1>10. /\ DOMAIN ordered' = 1 .. Len(ordered) + 1 /\ Len(ordered) \in Nat
       /\ Len(ordered') = Len(ordered) + 1 /\ ordered' # <<>>
       /\ \A k \in 1 .. Len(ordered) : ordered'[k] = ordered[k] /\ ordered[k] \in DOMAIN gates
       /\ ordered'[Len(ordered) + 1] = h
  <2>1. ordered \in Seq(DOMAIN gates) /\ h \in DOMAIN gates
    BY <1>0, <1>5
  <2> HIDE DEF S, Waiting
  <2>. QED  BY <1>4, <2>1, OneMore
<1>11. TopLevel' = level
  BY <1>5, <1>9, <1>10 DEF TopLevel, LevelOf
<1>12. \A n \in Nets : levels[n] <= TopLevel /\ levels[n] \in Nat
  BY <1>5 DEF LevelInv
<1>13. \A n \in Nets : levels'[n] <= level
  BY <1>8, <1>9, <1>12
<1>14. SortKeepsOrder'
  <2>1. h \notin Emitted
    <3>1. h \in Members(ready)
      BY <1>0, <1>1, <1>5 DEF Members
    <3>. QED  BY <1>1, <3>1 DEF ReadyInv
  <2>2. \A k \in 1 .. Len(ordered) : ordered[k] # h
    BY <2>1, <1>5 DEF Emitted, Members
  <2>3. \A k \in 1 .. Len(ordered) : LevelOf(ordered[k])' = LevelOf(ordered[k]) /\ LevelOf(ordered[k]) \in Nat
    <3> SUFFICES ASSUME NEW k \in 1 .. Len(ordered)
                 PROVE  LevelOf(ordered[k])' = LevelOf(ordered[k]) /\ LevelOf(ordered[k]) \in Nat
      OBVIOUS
    <3>1. ordered[k] # h /\ ordered[k] \in DOMAIN gates /\ ordered'[k] = ordered[k]
      BY <1>10, <2>2
    <3>2. gates[ordered[k]].out # gates[h].out
      BY <1>1, <3>1, SingleDriver
    <3>. QED  BY <1>5, <1>9, <3>1, <3>2 DEF LevelOf
  <2> SUFFICES ASSUME NEW j \in DOMAIN ordered', NEW k \in DOMAIN ordered', j < k
               PROVE  LevelOf(ordered[j])' <= LevelOf(ordered[k])'
    BY DEF SortKeepsOrder
  <2>4. CASE k = Len(ordered) + 1
    <3>1. LevelOf(ordered[k])' = level
      BY <1>5, <1>9, <1>10, <2>4 DEF LevelOf
    <3>2. ordered'[j] = ordered[j] /\ gates[ordered[j]].out \in Nets
      BY <1>5, <1>10, <2>4
    <3>3. LevelOf(ordered[j])' <= level
      BY <1>5, <1>13, <3>2 DEF LevelOf
    <3>. QED  BY <3>1, <3>3
  <2>5. CASE k # Len(ordered) + 1
    <3>1. j \in 1 .. Len(ordered) /\ k \in 1 .. Len(ordered) /\ DOMAIN ordered = 1 .. Len(ordered)
      BY <1>5, <1>10, <2>5
    <3>2. LevelOf(ordered[j]) <= LevelOf(ordered[k])
      BY <3>1 DEF LevelInv, SortKeepsOrder
    <3>. QED  BY <2>3, <3>1, <3>2
  <2>. QED  BY <2>4, <2>5
\* The levels of the gates in the queue.
<1>15. \A i \in S : \A l \in NewLevels(i)' : l = level + 1
  <2> SUFFICES ASSUME NEW i \in S, NEW l \in NewLevels(i)'  PROVE l = level + 1
    OBVIOUS
  <2>1. PICK n \in InputsOf(i) : l = levels'[n] + 1
    BY <1>5 DEF NewLevels
  <2>2. levels'[gates[h].out] < l
    BY <1>5, <1>7 DEF NewLevels
  <2>3. n \in Nets /\ levels'[n] \in Nat
    BY <1>5, <1>6, <1>8, <1>9, <2>1
  <2>. QED  BY <1>8, <1>9, <1>13, <2>1, <2>2, <2>3
<1>16. \A i \in Members(ready) : i # h => NewLevels(i)' = NewLevels(i)
  <2> SUFFICES ASSUME NEW i \in Members(ready), i # h  PROVE NewLevels(i)' = NewLevels(i)
    OBVIOUS
  <2>1. i \in DOMAIN gates /\ Open(i) = {} /\ h \notin Emitted
    <3>1. Members(ready) \subseteq DOMAIN gates /\ h \in Members(ready)
      BY <1>0, <1>1, <1>5 DEF Members
    <3>. QED  BY <1>1, <3>1 DEF ReadyInv
  <2>2. gates[h].out \notin InputsOf(i)
    BY <1>0, <2>1 DEF Open, Dependencies
  <2>3. \A n \in InputsOf(i) : levels'[n] = levels[n]
    BY <1>5, <1>9, <2>1, <2>2
  <2>. QED  BY <1>5, <2>3 DEF NewLevels
<1>17. \A k \in DOMAIN ready : k # 1 => ready[k] # h
  BY <1>0, <1>1, <1>5 DEF ReadyInv, NoRepeat
<1>18. \A k \in DOMAIN ready : k # 1 => \A l \in NewLevels(ready[k]) :
          /\ l \in Nat /\ level <= l /\ l <= level + 1
          /\ \A j \in DOMAIN ready : j < k => \A m \in NewLevels(ready[j]) : m <= l
  <2> SUFFICES ASSUME NEW k \in DOMAIN ready, k # 1, NEW l \in NewLevels(ready[k])
               PROVE  /\ l \in Nat /\ level <= l /\ l <= level + 1
                      /\ \A j \in DOMAIN ready : j < k => \A m \in NewLevels(ready[j]) : m <= l
    OBVIOUS
  <2>1. ready[k] \in DOMAIN gates /\ 1 \in DOMAIN ready /\ 1 < k /\ h = ready[1]
    BY <1>0, <1>1, <1>5
  <2>2. l \in Nat
    BY <1>5, <2>1 DEF NewLevels
  <2>. QED  BY <1>1, <1>2, <1>8, <2>1, <2>2 DEF LevelInv
<1>19. \A i, k : i = ready'[k] => NewLevels(ready[k])' = NewLevels(i)'
  BY DEF NewLevels, InputsOf
<1>20. \A k \in DOMAIN ready' :
          /\ k \in Nat \ {0}
          /\ k < Len(ready) => k + 1 \in DOMAIN ready /\ ready'[k] = ready[k + 1]
          /\ k >= Len(ready) => ready'[k] \in S
  BY <1>1, <1>3, <1>5, <1>6, JoinedPlaces
<1>21. ASSUME NEW k \in DOMAIN ready'
       PROVE  /\ k < Len(ready) => k + 1 \in DOMAIN ready /\ k + 1 # 1
                                   /\ NewLevels(ready[k])' = NewLevels(ready[k + 1])
              /\ k >= Len(ready) => \A l \in NewLevels(ready[k])' : l = level + 1
  <2>1. CASE k < Len(ready)
    <3>1. k \in Nat /\ k + 1 \in DOMAIN ready /\ ready'[k] = ready[k + 1]
      BY <1>20, <2>1
    <3>2. k + 1 # 1
      BY <1>20, <3>1
    <3>3. NewLevels(ready[k])' = NewLevels(ready[k + 1])
      BY <1>16, <1>17, <1>19, <3>1, <3>2 DEF Members
    <3>. QED  BY <2>1, <3>1, <3>2, <3>3
  <2>2. CASE k >= Len(ready)
    BY <1>15, <1>19, <1>20, <2>2
  <2>. QED  BY <1>5, <1>20, <2>1, <2>2
<1>22. ASSUME NEW k \in DOMAIN ready', NEW l \in NewLevels(ready[k])'
       PROVE  /\ level <= l /\ l <= level + 1
              /\ \A j \in DOMAIN ready' : j < k => \A m \in NewLevels(ready[j])' : m <= l
  <2>1. CASE k < Len(ready)
    <3>1. k + 1 \in DOMAIN ready /\ k + 1 # 1 /\ l \in NewLevels(ready[k + 1])
      BY <1>21, <2>1
    <3>2. level <= l /\ l <= level + 1
      BY <1>18, <3>1
    <3>3. ASSUME NEW j \in DOMAIN ready', j < k, NEW m \in NewLevels(ready[j])'  PROVE m <= l
      <4>1. j < Len(ready) /\ j + 1 < k + 1
        BY <1>5, <1>20, <2>1, <3>3
      <4>2. j + 1 \in DOMAIN ready /\ m \in NewLevels(ready[j + 1])
        BY <1>21, <3>3, <4>1
      <4>. QED  BY <1>18, <3>1, <4>1, <4>2
    <3>. QED  BY <3>2, <3>3
  <2>2. CASE k >= Len(ready)
    <3>1. l = level + 1
      BY <1>21, <2>2
    <3>2. ASSUME NEW j \in DOMAIN ready', NEW m \in NewLevels(ready[j])'  PROVE m <= level + 1
      <4>1. CASE j < Len(ready)
        BY <1>18, <1>21, <3>2, <4>1
      <4>2. CASE j >= Len(ready)
        BY <1>8, <1>21, <3>2, <4>2
      <4>. QED  BY <1>5, <1>20, <4>1, <4>2
    <3>. QED  BY <1>8, <3>1, <3>2
  <2>. QED  BY <1>5, <1>20, <2>1, <2>2
<1>. QED
  BY <1>1, <1>11, <1>13, <1>14, <1>22 DEF LevelInv

LEMMA LevelsInductive == IInv /\ LevelInv /\ [Next]_vars => LevelInv'
<1> SUFFICES ASSUME IInv, LevelInv, [Next]_vars  PROVE LevelInv'
  OBVIOUS
<1>1. CASE ReadGate \/ ReadFlop
  <2>1. pc = "cells" /\ ordered = <<>> /\ UNCHANGED queueVars /\ pc' # "order"
    BY <1>1 DEF IInv, DriverInv, ReadGate, ReadFlop
  <2>2. TopLevel' = TopLevel /\ SortKeepsOrder'
    BY <2>1 DEF queueVars, TopLevel, SortKeepsOrder
  <2>. QED  BY <2>1, <2>2 DEF queueVars, LevelInv
<1>2. CASE FinishOrder \/ Simulate \/ Rejected \/ UNCHANGED vars
  <2>1. UNCHANGED <<circuit, queueVars>> /\ (pc' = "order" => pc = "order")
    BY <1>2 DEF FinishOrder, Simulate, Drive, EvaluateGate, EndPass, Edge, Rejected, vars
  <2>2. /\ UNCHANGED <<gates, ordered, levels, ready>>
        /\ \A i : InputsOf(i)' = InputsOf(i)
    BY <2>1, CircuitUnchanged DEF circuit, queueVars
  <2>3. TopLevel' = TopLevel /\ SortKeepsOrder' = SortKeepsOrder
    BY <2>2 DEF TopLevel, SortKeepsOrder, LevelOf
  <2>4. \A k : NewLevels(ready[k])' = NewLevels(ready[k])
    BY <2>2 DEF NewLevels, InputsOf
  <2>. QED  BY <2>1, <2>2, <2>3, <2>4 DEF LevelInv
<1>. QED
  BY <1>1, <1>2, StartOrderLevels, EmitGateLevels DEF Next, Translate

-----------------------------------------------------------------------------
(* The theorems *)

LEMMA Inductive == IInv /\ [Next]_vars => IInv'
<1> SUFFICES ASSUME IInv, [Next]_vars  PROVE IInv'
  OBVIOUS
<1>1. CASE Translate
  BY <1>1, ReadGatePreserves, ReadFlopPreserves, StartOrderPreserves, EmitGatePreserves,
     FinishOrderPreserves DEF Translate
<1>2. CASE Simulate
  BY <1>2, DrivePreserves, EvaluateGatePreserves, EndPassPreserves, EdgePreserves DEF Simulate
<1>3. CASE Rejected
  BY <1>3, StutterPreserves DEF Rejected
<1>4. CASE UNCHANGED vars
  BY <1>4, StutterPreserves
<1>. QED  BY <1>1, <1>2, <1>3, <1>4 DEF Next

LEMMA Invariant == Spec => []IInv
<1>. QED  BY InitEstablishes, Inductive, PTL DEF Spec

\* Every variable has its type in every reachable state, for every netlist.
THEOREM NetlistTypeOK == Spec => []TypeOK
<1>1. IInv => TypeOK
  BY DEF IInv
<1>. QED  BY <1>1, Invariant, PTL

\* netlist.translate rejects exactly the netlists in which a net has two
\* drivers or none, or in which gates wait for each other.
THEOREM TranslatorExact == Spec => []VerdictExact
<1>1. IInv => VerdictExact
  <2> SUFFICES ASSUME IInv  PROVE VerdictExact
    OBVIOUS
  <2>1. pc = "rejected" => Bad
    BY DEF IInv, RejectInv
  <2>2. ASSUME pc \in Running  PROVE ~Bad
    <3>1. pc # "rejected" /\ Emitted = DOMAIN gates /\ ~FloatingResult
      BY <2>2 DEF IInv, ProgramInv, Running
    <3>2. ~MultipleDrivers /\ ~FloatingInput
      BY <2>2 DEF IInv, DriverInv
    <3>3. ~TwoDrivers
      BY <3>1, <3>2 DEF IInv, FlopInv, TwoDrivers
    <3>4. ~Loop
      BY <3>1 DEF IInv, NoLoopInv, Loop
    <3>. QED  BY <3>1, <3>2, <3>3, <3>4 DEF Bad
  <2>. QED  BY <2>1, <2>2 DEF VerdictExact, Running
<1>. QED  BY <1>1, Invariant, PTL

\* One pass of CPU::evaluate settles the circuit, whatever the gates answer.
THEOREM OnePassSettles == Spec => []PassSettles
<1>1. IInv => PassSettles
  BY PassedIsSettled DEF PassSettles
<1>. QED  BY <1>1, Invariant, PTL

\* The queue of netlist.translate emits the gates of each level before those of
\* the next, so that sorting them by level changes nothing.
THEOREM QueueIsByLevel == Spec => []SortKeepsOrder
<1>1. Init => LevelInv
  BY DEF Init, LevelInv, SortKeepsOrder, TopLevel
<1>2. LevelInv => SortKeepsOrder
  BY DEF LevelInv
<1>. QED  BY <1>1, <1>2, Invariant, LevelsInductive, PTL DEF Spec

\* CPU::edge moves every register at once, from a settled circuit, and leaves
\* all other wires alone.
THEOREM EdgeIsAtOnce == Spec => ClockEdge
<1> DEFINE Moves == pc = "edge" =>
        /\ Settled
        /\ \A i \in DOMAIN flops : nets'[flops[i].q] = nets[flops[i].d]
        /\ \A n \in Nets \ {flops[i].q : i \in DOMAIN flops} : nets'[n] = nets[n]
<1>1. IInv /\ [Next]_vars => [Moves]_vars
  <2> SUFFICES ASSUME IInv, Next, pc = "edge"
               PROVE  /\ Settled
                      /\ \A i \in DOMAIN flops : nets'[flops[i].q] = nets[flops[i].d]
                      /\ \A n \in Nets \ {flops[i].q : i \in DOMAIN flops} : nets'[n] = nets[n]
    BY Zenon
  <2>1. Edge
    BY DEF Next, Translate, Simulate, Rejected, ReadGate, ReadFlop, StartOrder, EmitGate,
       FinishOrder, Drive, EvaluateGate, EndPass
  <2>2. \A n \in Nets : nets'[n] = Clocked(n)
    BY <2>1 DEF Edge
  <2>3. Settled
    BY DEF IInv, PassInv
  <2>4. ASSUME NEW i \in DOMAIN flops  PROVE nets'[flops[i].q] = nets[flops[i].d]
    <3>1. flops[i] \in Flops
      BY DEF IInv, TypeOK
    <3>2. flops[i].q \in Nets
      BY <3>1, NetlistAssumption
    <3>3. PICK j \in DOMAIN flops : flops[j].q = flops[i].q /\ Clocked(flops[i].q) = nets[flops[j].d]
      BY <3>2, ClockedFrom
    <3>4. j = i
      BY <3>3 DEF IInv, FlopInv
    <3>. QED  BY <2>2, <3>2, <3>3, <3>4
  <2>5. ASSUME NEW n \in Nets \ {flops[i].q : i \in DOMAIN flops}  PROVE nets'[n] = nets[n]
    BY <2>2, ClockedFrom
  <2>. QED  BY <2>3, <2>4, <2>5
<1>. QED  BY <1>1, Invariant, PTL DEF Spec, ClockEdge

-----------------------------------------------------------------------------
(* The value of a circuit *)

\* Any values on the wires, in place of what CPU::evaluate has left on them.
AnswerTo(wires, i) == Table[[k \in DOMAIN gates[i].in |-> wires[gates[i].in[k]]]]

Solves(wires) == \A i \in DOMAIN gates : wires[gates[i].out] = AnswerTo(wires, i)

SameSources(v, w) == \A n \in Driven : v[n] = w[n]

\* The constants, the ports and the registers decide all other wires; the order
\* of the gates, and what a wire held before, do not matter.
OneValue ==
    pc \in Running =>
        \A v, w \in [Nets -> Bit] :
            Solves(v) /\ Solves(w) /\ SameSources(v, w)
                => \A n \in Driven \cup Produced : v[n] = w[n]

\* Whatever is on them, there are values for the other wires that fit.
SomeValue ==
    pc \in Running =>
        \A v \in [Nets -> Bit] :
            \E w \in [Nets -> Bit] : Solves(w) /\ SameSources(v, w)

\* What a pass of CPU::evaluate has computed at its end.
PassComputes ==
    pc = "evaluate" /\ at > Len(program) =>
        \A w \in [Nets -> Bit] :
            Solves(w) /\ SameSources(w, nets)
                => \A n \in Driven \cup Produced : nets[n] = w[n]

\* A gate that answers differently reads another one that does.
LEMMA OneSolution == IInv => OneValue
<1> SUFFICES ASSUME IInv, pc \in Running,
                    NEW v \in [Nets -> Bit], NEW w \in [Nets -> Bit],
                    Solves(v), Solves(w), SameSources(v, w)
             PROVE  \A n \in Driven \cup Produced : v[n] = w[n]
  BY DEF OneValue
<1> DEFINE Differ == {i \in DOMAIN gates : v[gates[i].out] # w[gates[i].out]}
<1>1. Emitted = DOMAIN gates /\ ~FloatingInput /\ TypeOK
  BY DEF IInv, ProgramInv, DriverInv
<1>2. ASSUME NEW i \in Differ  PROVE Dependencies(i) \cap Differ # {}
  <2>1. /\ i \in DOMAIN gates
        /\ InputsOf(i) \subseteq Driven \cup Produced
    BY <1>1 DEF FloatingInput
  <2>2. SUFFICES ASSUME Dependencies(i) \cap Differ = {}
                 PROVE  FALSE
    OBVIOUS
  <2>3. ASSUME NEW k \in DOMAIN gates[i].in  PROVE v[gates[i].in[k]] = w[gates[i].in[k]]
    <3>1. gates[i].in[k] \in InputsOf(i)
      BY DEF InputsOf
    <3>2. CASE gates[i].in[k] \in Driven
      BY <3>2 DEF SameSources
    <3>3. CASE gates[i].in[k] \in Produced
      <4>1. PICK j \in DOMAIN gates : gates[j].out = gates[i].in[k]
        BY <3>3 DEF Produced
      <4>2. j \in Dependencies(i)
        BY <3>1, <4>1 DEF Dependencies
      <4>. QED  BY <2>2, <4>1, <4>2
    <3>. QED  BY <2>1, <3>1, <3>2, <3>3
  <2>4. [k \in DOMAIN gates[i].in |-> v[gates[i].in[k]]]
          = [k \in DOMAIN gates[i].in |-> w[gates[i].in[k]]]
    BY <2>3
  <2>5. AnswerTo(v, i) = AnswerTo(w, i)
    BY <2>4, Zenon DEF AnswerTo
  <2>. QED  BY <2>1, <2>5 DEF Solves
<1>3. Differ = {}
  <2>1. Differ \in SUBSET Emitted
    BY <1>1
  <2> HIDE DEF Differ
  <2>. QED  BY <1>2, <2>1 DEF IInv, NoLoopInv
<1>4. ASSUME NEW n \in Produced  PROVE v[n] = w[n]
  <2>1. PICK i \in DOMAIN gates : gates[i].out = n
    BY DEF Produced
  <2>. QED  BY <1>3, <2>1
<1>. QED  BY <1>4 DEF SameSources

\* Values that fit the gates up to the k-th of the list.
SolvesUpto(wires, k) ==
    \A l \in DOMAIN program :
        l <= k => wires[gates[program[l]].out] = AnswerTo(wires, program[l])

\* The next gate of the list drives no wire that a gate before it has read.
LEMMA OneGateMore ==
    ASSUME IInv, pc \in Running, NEW k \in DOMAIN program,
           NEW v \in [Nets -> Bit], SolvesUpto(v, k - 1)
    PROVE  \E w \in [Nets -> Bit] : SolvesUpto(w, k) /\ SameSources(v, w)
<1> DEFINE g == program[k]
           w == [v EXCEPT ![gates[g].out] = AnswerTo(v, g)]
<1>1. /\ TypeOK /\ ~MultipleDrivers
      /\ NoRepeat(program)
      /\ \A l \in DOMAIN program :
            /\ l \in Nat /\ program[l] \in DOMAIN gates
            /\ \A j \in Dependencies(program[l]) :
                   \E m \in DOMAIN program : m < l /\ program[m] = j
  BY DEF IInv, TypeOK, DriverInv, ProgramInv
<1>2. gates[g] \in Gates /\ gates[g].out \in Nets /\ gates[g].in \in Seq(Nets)
  BY <1>1, GateTypes
<1>3. AnswerTo(v, g) \in Bit
  <2>1. [l \in DOMAIN gates[g].in |-> v[gates[g].in[l]]] \in [DOMAIN gates[g].in -> Bit]
    BY <1>2
  <2>. QED  BY <1>2, <2>1, NetlistAssumption DEF AnswerTo
<1>4. w \in [Nets -> Bit]
  BY <1>3
<1>5. SameSources(v, w)
  <2>1. gates[g].out \notin Driven
    BY <1>1 DEF MultipleDrivers
  <2>. QED  BY <2>1 DEF SameSources
<1>6. ASSUME NEW l \in DOMAIN program, l <= k
      PROVE  w[gates[program[l]].out] = AnswerTo(w, program[l])
  <2>1. g \notin Dependencies(program[l])
    <3>1. ASSUME NEW m \in DOMAIN program, m < l, program[m] = program[k]  PROVE FALSE
      <4>1. m = k
        BY <1>1, <3>1 DEF NoRepeat
      <4>. QED  BY <1>1, <1>6, <3>1, <4>1
    <3>. QED  BY <1>1, <3>1
  <2>2. gates[g].out \notin InputsOf(program[l])
    BY <1>1, <2>1 DEF Dependencies
  <2>3. \A m \in DOMAIN gates[program[l]].in :
            w[gates[program[l]].in[m]] = v[gates[program[l]].in[m]]
    BY <2>2 DEF InputsOf
  <2>4. [m \in DOMAIN gates[program[l]].in |-> w[gates[program[l]].in[m]]]
          = [m \in DOMAIN gates[program[l]].in |-> v[gates[program[l]].in[m]]]
    BY <2>3
  <2>5. AnswerTo(w, program[l]) = AnswerTo(v, program[l])
    BY <2>4, Zenon DEF AnswerTo
  <2>6. CASE l = k
    BY <1>2, <2>5, <2>6
  <2>7. CASE l # k
    <3>1. program[l] # g
      BY <2>7, <1>1 DEF NoRepeat
    <3>2. gates[program[l]].out # gates[g].out
      BY <1>1, <3>1, SingleDriver
    <3>3. w[gates[program[l]].out] = v[gates[program[l]].out]
      BY <3>2
    <3>4. v[gates[program[l]].out] = AnswerTo(v, program[l])
      BY <1>1, <1>6, <2>7 DEF SolvesUpto
    <3>. QED  BY <2>5, <3>3, <3>4
  <2>. QED  BY <2>6, <2>7
<1>. QED  BY <1>4, <1>5, <1>6 DEF SolvesUpto

LEMMA Solution == IInv => SomeValue
<1> SUFFICES ASSUME IInv, pc \in Running, NEW v \in [Nets -> Bit]
             PROVE  \E w \in [Nets -> Bit] : Solves(w) /\ SameSources(v, w)
  BY DEF SomeValue
<1> DEFINE Fits(k) == \E w \in [Nets -> Bit] : SolvesUpto(w, k) /\ SameSources(v, w)
           Fail == {k \in 1 .. Len(program) : ~Fits(k)}
<1>1. /\ DOMAIN program = 1 .. Len(program) /\ Len(program) \in Nat
      /\ Members(program) = DOMAIN gates
  BY DEF IInv, TypeOK, ProgramInv
<1>2. Fits(0)
  BY <1>1 DEF SolvesUpto, SameSources
<1>3. ASSUME NEW k \in 1 .. Len(program), Fits(k - 1)  PROVE Fits(k)
  <2>1. PICK u \in [Nets -> Bit] : SolvesUpto(u, k - 1) /\ SameSources(v, u)
    BY <1>3
  <2>2. PICK w \in [Nets -> Bit] : SolvesUpto(w, k) /\ SameSources(u, w)
    BY <1>1, <2>1, OneGateMore
  <2>. QED  BY <2>1, <2>2 DEF SameSources
<1>4. Fail = {}
  <2> SUFFICES ASSUME Fail # {}  PROVE FALSE
    OBVIOUS
  <2>1. Fail \in SUBSET (1 .. Len(program))
    OBVIOUS
  <2>2. PICK k \in Fail : \A j \in Fail : k <= j
    <3> HIDE DEF Fail
    <3>. QED  BY <1>1, <2>1, FirstPlace
  <2>3. k \in 1 .. Len(program) /\ ~Fits(k)
    OBVIOUS
  <2>4. ~Fits(k - 1)
    BY <1>3, <2>3
  <2>5. k # 1
    BY <1>2, <2>4
  <2>6. k - 1 \in Fail
    BY <1>1, <2>3, <2>4, <2>5
  <2>7. k <= k - 1
    BY <2>2, <2>6
  <2>. QED  BY <1>1, <2>3, <2>7
<1>5. Fits(Len(program))
  <2>1. CASE Len(program) = 0
    BY <1>2, <2>1
  <2>2. CASE Len(program) # 0
    <3>1. Len(program) \in 1 .. Len(program)
      BY <1>1, <2>2
    <3>. QED  BY <1>4, <3>1
  <2>. QED  BY <2>1, <2>2
<1>6. PICK w \in [Nets -> Bit] : SolvesUpto(w, Len(program)) /\ SameSources(v, w)
  BY <1>5
<1>7. Solves(w)
  BY <1>1, <1>6 DEF SolvesUpto, Solves, Members
<1>. QED  BY <1>6, <1>7

\* netlist.translate accepts circuits that have one value for each value of
\* their sources, and CPU::evaluate computes it: the result of a pass is a
\* function of the constants, the ports and the registers alone, for any gates
\* in any order of the file.
THEOREM CircuitIsFunction == Spec => [](OneValue /\ SomeValue /\ PassComputes)
<1>1. IInv => PassComputes
  <2> SUFFICES ASSUME IInv, pc = "evaluate", at > Len(program),
                      NEW w \in [Nets -> Bit], Solves(w), SameSources(w, nets)
               PROVE  \A n \in Driven \cup Produced : nets[n] = w[n]
    BY DEF PassComputes
  <2>1. Settled
    BY PassedIsSettled DEF PassSettles
  <2>2. Solves(nets)
    BY <2>1 DEF Settled, Solves, Answer, AnswerTo
  <2>3. nets \in [Nets -> Bit] /\ pc \in Running
    BY DEF IInv, TypeOK, Running
  <2>. QED  BY <2>2, <2>3, OneSolution DEF OneValue
<1>. QED  BY <1>1, OneSolution, Solution, Invariant, PTL
=============================================================================
