---------------------------- MODULE MCRunSession -----------------------------
(***************************************************************************)
(* RunSession for TLC: what holds of a run under stronger assumptions on   *)
(* its surroundings, and what the repository says of a run and the code    *)
(* does not do.                                                            *)
(***************************************************************************)
EXTENDS RunSession

\* The child is a loop bounded by MAX_CYCLES: it keeps going while it is fed.
ChildComputes == WF_vars(Child)

\* A run ends even when Stop or the deadline comes before the server can see
\* the child (Popen in Simulation.run has not returned yet), because the child
\* then writes a line or ends.
EveryRunEnds == ChildComputes => <>done

-----------------------------------------------------------------------------
(* What comments and tests say of the program, and the code does not do *)

\* engine.py classify: "A daemon I/O worker lets Stop/the hard deadline
\* release the simulator even if the remote connection stalls."
StopReachesSimulation == cancelled /\ wpc = "classify" => stopped

\* tests/test_web.py test_infinite_loop_is_terminated: a program the deadline
\* kills ends in the state "limit".
DeadlineReported ==
    done /\ timedOut /\ proc = "killed" /\ ~cancelled => runState = "limit"

=============================================================================
