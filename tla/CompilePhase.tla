---------------------------- MODULE CompilePhase ----------------------------
(***************************************************************************)
(* What the rest of a run sees of the compiler: the run waits, compiles,   *)
(* and is simulated or over, and Stop may come at any time.  Compiler does *)
(* it with a lock, tools and files, RunSession in one step; both are shown *)
(* to implement it, so that they mean the same compiler.                   *)
(***************************************************************************)
VARIABLES
    stage,       \* "queued", "compile", "simulate" or "over"
    cancelled    \* the visitor has pressed Stop

vars == <<stage, cancelled>>

\* A program that comes with the server needs no compiler.
Init ==
    /\ stage \in {"queued", "compile"}
    /\ cancelled = FALSE

Goto(next) == stage' = next /\ UNCHANGED cancelled

Begin == stage = "queued" /\ ~cancelled /\ Goto("compile")

Skip == stage = "queued" /\ cancelled /\ Goto("over")

Simulate == stage = "compile" /\ ~cancelled /\ Goto("simulate")

\* It was stopped, or it could not be compiled.
Fail == stage = "compile" /\ Goto("over")

Finish == stage = "simulate" /\ Goto("over")

Stop == cancelled' = TRUE /\ UNCHANGED stage

Next == Begin \/ Skip \/ Simulate \/ Fail \/ Finish \/ Stop

Spec == Init /\ [][Next]_vars
=============================================================================
