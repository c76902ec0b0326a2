------------------------------ MODULE MCNetlist ------------------------------
(***************************************************************************)
(* Netlists of one port, one output, three gates and two flip-flops.  Nets *)
(* 2 to 6: a port, three that a gate or flip-flop may drive, and one that  *)
(* nothing drives.                                                         *)
(***************************************************************************)
EXTENDS Netlist

MCNets == 0 .. 6
MCPorts == {2}
MCOutputs == {5}

\* Inputs in ascending order: what is left out are gates with inputs swapped.
MCInputs ==
    {<<n>> : n \in {2, 3, 4, 5}} \cup {<<1, 5>>, <<4, 6>>}
        \cup {<<3, 3>>, <<2, 4>>, <<3, 4>>, <<3, 5>>, <<4, 5>>}

MCGates == [in : MCInputs, out : {3, 4, 5}]
MCFlops == {[d |-> 5, q |-> 3], [d |-> 3, q |-> 4], [d |-> 6, q |-> 4],
            [d |-> 2, q |-> 2]}

\* Answers in which every input counts.
MCTable ==
    [bits \in [1 .. 1 -> Bit] \cup [1 .. 2 -> Bit] |->
        IF Len(bits) = 1 \/ bits[1] = bits[2] THEN 1 - bits[1] ELSE 0]
=============================================================================
