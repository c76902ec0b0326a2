------------------------------- MODULE Netlist -------------------------------
(***************************************************************************)
(* The translation of the synthesized processor (netlist.translate) and    *)
(* the simulator that runs its result (the class CPU of sim.cpp).          *)
(*                                                                         *)
(* translate reads gates and flip-flops in the order of the file, checks   *)
(* that each net has one driver, orders the gates so that each comes after *)
(* the gates it reads, and sorts them by level.  CPU::evaluate then goes   *)
(* through this list once, and what it leaves on the wires is taken for    *)
(* the value of the circuit.                                               *)
(*                                                                         *)
(* A gate is its list of input nets and its output; the bits 0, x and z of *)
(* the file are net 0, the bit 1 is net 1.  What a gate answers comes from *)
(* the language model, so that Table may be any function.                  *)
(***************************************************************************)
EXTENDS Naturals, Sequences, FiniteSets

CONSTANTS
    Nets,       \* 0 and 1 are the constants
    Ports,      \* nets of the input ports
    Outputs,    \* nets of the output ports
    Gates,      \* the gates a cell of the file may be
    Flops,      \* the flip-flops a cell of the file may be
    MaxGates,
    MaxFlops,
    Table       \* the answer to each list of input bits

Bit == {0, 1}

ASSUME NetlistAssumption ==
    /\ {0, 1} \cup Ports \cup Outputs \subseteq Nets
    /\ Gates \subseteq [in : Seq(Nets) \ {<<>>}, out : Nets]
    /\ Flops \subseteq [d : Nets, q : Nets]
    /\ MaxGates \in Nat /\ MaxFlops \in Nat
    /\ \A g \in Gates : \A bits \in [DOMAIN g.in -> Bit] : Table[bits] \in Bit

VARIABLES
    pc,
    \* translate
    gates, flops,
    pending,     \* gates whose output a gate still waits for
    ready,       \* the queue of gates that wait for none
    ordered,     \* gates in the order they left the queue
    levels,      \* of each net
    program,     \* ordered, sorted by level: GATES of the C++ header
    \* CPU
    nets,
    at,          \* the gate that is evaluated next
    second       \* the second of the two passes of a cycle

circuit == <<gates, flops>>
queueVars == <<pending, ready, ordered, levels>>
cpuVars == <<nets, at, second>>
vars == <<pc, circuit, queueVars, program, cpuVars>>

Init ==
    /\ pc = "cells"
    /\ gates = <<>> /\ flops = <<>>
    /\ pending = <<>> /\ ready = <<>> /\ ordered = <<>>
    /\ levels = [n \in Nets |-> 0]
    /\ program = <<>>
    /\ nets = [n \in Nets |-> 0] /\ at = 1 /\ second = FALSE

-----------------------------------------------------------------------------
(* translate: reading the cells and the drivers of the nets *)

InputsOf(i) == {gates[i].in[k] : k \in DOMAIN gates[i].in}

Driven == {0, 1} \cup Ports \cup {flops[i].q : i \in DOMAIN flops}
Produced == {gates[i].out : i \in DOMAIN gates}

\* The gates whose output gate i reads, each once.
Dependencies(i) == {j \in DOMAIN gates : gates[j].out \in InputsOf(i)}

ReadGate ==
    /\ pc = "cells"
    /\ Len(gates) < MaxGates
    /\ \E g \in Gates : gates' = Append(gates, g)
    /\ UNCHANGED <<pc, flops, queueVars, program, cpuVars>>

\* A second driver is an error; the flip-flop is recorded to say which.
ReadFlop ==
    /\ pc = "cells"
    /\ Len(flops) < MaxFlops
    /\ \E f \in Flops :
          /\ flops' = Append(flops, f)
          /\ pc' = IF f.q \in Driven THEN "rejected" ELSE "cells"
    /\ UNCHANGED <<gates, queueVars, program, cpuVars>>

MultipleDrivers ==
    \E i \in DOMAIN gates :
        \/ gates[i].out \in Driven
        \/ \E j \in DOMAIN gates : j # i /\ gates[j].out = gates[i].out

FloatingInput ==
    \E i \in DOMAIN gates : ~ InputsOf(i) \subseteq Driven \cup Produced

\* The members of S in ascending order.
Ascending(S) ==
    {q \in [1 .. Cardinality(S) -> S] :
        /\ \A j, k \in 1 .. Cardinality(S) : j < k => q[j] < q[k]
        /\ \A s \in S : \E k \in 1 .. Cardinality(S) : q[k] = s}

\* Faulty variants of WaitsFor: an input that is read twice is counted twice;
\* a gate waits for one other gate at most.
WaitsForInputs(i) ==
    Cardinality({k \in DOMAIN gates[i].in : gates[i].in[k] \in Produced})

WaitsForOne(i) == IF Dependencies(i) = {} THEN 0 ELSE 1

WaitsFor(i) == Cardinality(Dependencies(i))

\* Two gates or a gate and a flip-flop that drive one net, and a gate that
\* reads a net without a driver, are errors.
StartOrder ==
    /\ pc = "cells"
    /\ IF MultipleDrivers \/ FloatingInput
       THEN pc' = "rejected" /\ UNCHANGED <<pending, ready>>
       ELSE /\ pc' = "order"
            /\ pending' = [i \in DOMAIN gates |-> WaitsFor(i)]
            /\ ready' \in Ascending({i \in DOMAIN gates : WaitsFor(i) = 0})
    /\ UNCHANGED <<circuit, ordered, levels, program, cpuVars>>

-----------------------------------------------------------------------------
(* translate: the order *)

\* Faulty variant of Joined: the queue is used as a stack.
JoinedInFront(rest, new) == new \o rest

\* The queue after gates have joined it.
Joined(rest, new) == rest \o new

\* Faulty variant of NewLevels: the lowest input counts.
NewLevelsLowest(i) ==
    {l \in {levels[n] + 1 : n \in InputsOf(i)} :
        \A n \in InputsOf(i) : l <= levels[n] + 1}

\* One above the highest input of gate i.
NewLevels(i) ==
    {l \in {levels[n] + 1 : n \in InputsOf(i)} :
        \A n \in InputsOf(i) : levels[n] < l}

\* One gate leaves the queue; those that waited for it alone join.
EmitGate ==
    /\ pc = "order"
    /\ ready # <<>>
    /\ LET i == Head(ready)
           Waiting == {j \in DOMAIN gates : i \in Dependencies(j)}
       IN  /\ ordered' = Append(ordered, i)
           /\ \E level \in NewLevels(i) :
                 levels' = [levels EXCEPT ![gates[i].out] = level]
           /\ pending' = [j \in DOMAIN gates |->
                             IF j \in Waiting THEN pending[j] - 1 ELSE pending[j]]
           /\ \E new \in Ascending({j \in Waiting : pending[j] = 1}) :
                 ready' = Joined(Tail(ready), new)
    /\ UNCHANGED <<pc, circuit, program, cpuVars>>

LevelOf(i) == levels[gates[i].out]

\* The positions in ordered, by level and then as they are: sorted() is stable.
Positions == 1 .. Len(ordered)
ByLevel ==
    {p \in [Positions -> Positions] :
        \A j, k \in Positions :
            j < k => \/ LevelOf(ordered[p[j]]) < LevelOf(ordered[p[k]])
                     \/ LevelOf(ordered[p[j]]) = LevelOf(ordered[p[k]]) /\ p[j] < p[k]}

\* An output or a flip-flop that reads a net without a driver.
FloatingResult ==
    ~ Outputs \cup {flops[i].d : i \in DOMAIN flops} \subseteq Driven \cup Produced

\* The values with which a processor starts: the file may give any wire an
\* initial value, and all others are 0.  Only those of the registers outlive the
\* first pass.
PowerOn ==
    {[n \in Nets |-> IF n = 1 \/ n \in on THEN 1 ELSE 0] :
        on \in SUBSET ((Driven \cup Produced) \ {0, 1})}

FinishOrder ==
    /\ pc = "order"
    /\ ready = <<>>
    /\ IF Len(ordered) # Len(gates) \/ FloatingResult
       THEN pc' = "rejected" /\ UNCHANGED <<program, nets>>
       ELSE /\ pc' = "drive"
            /\ \E p \in ByLevel : program' = [k \in Positions |-> ordered[p[k]]]
            /\ nets' \in PowerOn
    /\ UNCHANGED <<circuit, queueVars, at, second>>

Translate == ReadGate \/ ReadFlop \/ StartOrder \/ EmitGate \/ FinishOrder

-----------------------------------------------------------------------------
(* CPU: each cycle drives the ports and evaluates, lets the bus answer and  *)
(* evaluates again, and ends with a clock edge                              *)

\* CPU::write, from main.
Drive ==
    /\ pc = "drive"
    /\ \E high \in SUBSET Ports :
          nets' = [n \in Nets |-> IF n \in Ports
                                  THEN IF n \in high THEN 1 ELSE 0
                                  ELSE nets[n]]
    /\ pc' = "evaluate"
    /\ at' = 1
    /\ UNCHANGED <<circuit, queueVars, program, second>>

\* What gate i answers to the bits on its inputs.
Answer(i) == Table[[k \in DOMAIN gates[i].in |-> nets[gates[i].in[k]]]]

\* CPU::evaluate, one gate.
EvaluateGate ==
    /\ pc = "evaluate"
    /\ at <= Len(program)
    /\ nets' = [nets EXCEPT ![gates[program[at]].out] = Answer(program[at])]
    /\ at' = at + 1
    /\ UNCHANGED <<pc, circuit, queueVars, program, second>>

\* The end of a pass; only after the second one there is an edge.
EndPass ==
    /\ pc = "evaluate"
    /\ at > Len(program)
    /\ pc' = IF second THEN "edge" ELSE "drive"
    /\ second' = ~second
    /\ UNCHANGED <<circuit, queueVars, program, nets, at>>

\* Faulty variant of Clocked: the flip-flops of the list are updated in order.
ClockedInOrder(n) ==
    LET Moved[i \in 0 .. Len(flops)] ==
            IF i = 0 THEN nets
            ELSE [Moved[i - 1] EXCEPT ![flops[i].q] = Moved[i - 1][flops[i].d]]
    IN  Moved[Len(flops)][n]

\* What an edge leaves on net n: next is filled before any q is written.
Clocked(n) ==
    IF \E i \in DOMAIN flops : flops[i].q = n
    THEN nets[flops[CHOOSE i \in DOMAIN flops : flops[i].q = n].d]
    ELSE nets[n]

\* CPU::edge
Edge ==
    /\ pc = "edge"
    /\ nets' = [n \in Nets |-> Clocked(n)]
    /\ pc' = "drive"
    /\ UNCHANGED <<circuit, queueVars, program, at, second>>

Simulate == Drive \/ EvaluateGate \/ EndPass \/ Edge

Rejected == pc = "rejected" /\ UNCHANGED vars

Next == Translate \/ Simulate \/ Rejected

Spec == Init /\ [][Next]_vars

-----------------------------------------------------------------------------
(* Properties *)

\* Every variable has its type.
TypeOK ==
    /\ pc \in {"cells", "order", "rejected", "drive", "evaluate", "edge"}
    /\ gates \in Seq(Gates) /\ flops \in Seq(Flops)
    /\ pc = "order" => pending \in [DOMAIN gates -> Nat]
    /\ ready \in Seq(DOMAIN gates)
    /\ ordered \in Seq(DOMAIN gates)
    /\ levels \in [Nets -> Nat]
    /\ program \in Seq(DOMAIN gates)
    /\ nets \in [Nets -> Bit]
    /\ at \in Nat \ {0}
    /\ second \in BOOLEAN

\* What is wrong with a netlist, without an order: a net with two drivers, one
\* with none, or gates that wait for each other.
TwoDrivers ==
    \/ MultipleDrivers
    \/ \E i \in DOMAIN flops :
          \/ flops[i].q \in {0, 1} \cup Ports
          \/ \E j \in DOMAIN flops : j # i /\ flops[j].q = flops[i].q

Loop ==
    \E S \in SUBSET DOMAIN gates :
        S # {} /\ \A i \in S : Dependencies(i) \cap S # {}

Bad == TwoDrivers \/ FloatingInput \/ FloatingResult \/ Loop

\* The translator rejects exactly the netlists that do not make sense; the
\* counters of netlist.py find every loop, and take nothing else for one.
VerdictExact ==
    /\ pc = "rejected" => Bad
    /\ pc \in {"drive", "evaluate", "edge"} => ~Bad

\* The queue of netlist.py emits the gates level by level already, so that the
\* list the page draws is the order in which they were found ready.
SortKeepsOrder ==
    \A j, k \in DOMAIN ordered :
        j < k => LevelOf(ordered[j]) <= LevelOf(ordered[k])

\* One pass over the list settles the circuit: no gate has answered to a wire
\* that changed after it was read, whatever the gates answer.
Settled == \A i \in DOMAIN gates : nets[gates[i].out] = Answer(i)
PassSettles == pc = "evaluate" /\ at > Len(program) => Settled

\* A clock edge moves every register at once, from a settled circuit (the
\* comment in CPU::edge), and no wire but the registers.
ClockEdge ==
    [][pc = "edge" =>
          /\ Settled
          /\ \A i \in DOMAIN flops : nets'[flops[i].q] = nets[flops[i].d]
          /\ \A n \in Nets \ {flops[i].q : i \in DOMAIN flops} : nets'[n] = nets[n]]_vars
=============================================================================
