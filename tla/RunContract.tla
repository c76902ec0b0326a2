----------------------------- MODULE RunContract -----------------------------
(***************************************************************************)
(* What the server promises the visitor about one run, whatever threads,   *)
(* processes and clocks it takes: how many instructions the commands have  *)
(* paid for, which events end the execution for good, and which verdict    *)
(* the run may report.  RunSession is shown to implement it.               *)
(***************************************************************************)
EXTENDS Naturals

VARIABLES
    pace,       \* "free" after Run, "metered" after Step or Pause
    allowed,    \* instructions paid for, meaningful while metered
    executed,   \* instructions the CPU has executed
    cancelled,  \* the visitor pressed Stop, or a pause was abandoned
    expired,    \* the five minutes of execution are used up
    passed,     \* the program halted with exit code zero
    verdict,    \* the state the "done" event reports
    over        \* the "done" event is published

vars == <<pace, allowed, executed, cancelled, expired, passed, verdict, over>>

Undecided == "undecided"
\* "running" is no verdict, but it is what the code reports when the reply of
\* the classifier makes work() die of an exception it does not expect.
Verdicts == {"complete", "stopped", "limit", "error", "running"}

Init ==
    /\ \/ pace = "free"    /\ allowed = 0
       \/ pace = "metered" /\ allowed = 1
    /\ executed = 0
    /\ cancelled = FALSE
    /\ expired = FALSE
    /\ passed = FALSE
    /\ verdict = Undecided
    /\ over = FALSE

-----------------------------------------------------------------------------

Run ==
    /\ ~over
    /\ pace' = "free"
    /\ UNCHANGED <<allowed, executed, cancelled, expired, passed, verdict, over>>

\* Pause takes back every instruction that has not been executed yet.
Pause ==
    /\ ~over
    /\ pace' = "metered"
    /\ allowed' = executed
    /\ UNCHANGED <<executed, cancelled, expired, passed, verdict, over>>

\* Each Step pays for one more instruction.
Step ==
    /\ ~over
    /\ pace' = "metered"
    /\ allowed' = (IF pace = "free" THEN executed ELSE allowed) + 1
    /\ UNCHANGED <<executed, cancelled, expired, passed, verdict, over>>

Cancel ==
    /\ ~over
    /\ cancelled' = TRUE
    /\ UNCHANGED <<pace, allowed, executed, expired, passed, verdict, over>>

Expire ==
    /\ expired' = TRUE
    /\ UNCHANGED <<pace, allowed, executed, cancelled, passed, verdict, over>>

\* One instruction may already be on its way to the CPU when a Pause comes,
\* so a metered run may be one ahead of what is paid for, never two.  Nothing
\* executes after a Stop or after the deadline.
Execute ==
    /\ verdict = Undecided
    /\ ~cancelled /\ ~expired /\ ~passed
    /\ pace = "metered" => executed <= allowed
    /\ executed' = executed + 1
    /\ UNCHANGED <<pace, allowed, cancelled, expired, passed, verdict, over>>

Pass ==
    /\ verdict = Undecided
    /\ passed' = TRUE
    /\ UNCHANGED <<pace, allowed, executed, cancelled, expired, verdict, over>>

\* "stopped" is reported exactly when the run was cancelled.  "complete" needs
\* a program that passed, or a deadline that struck between the two reads of
\* Simulation.check.
Decide(v) ==
    /\ verdict = Undecided
    /\ cancelled <=> v = "stopped"
    /\ v = "complete" => passed \/ expired
    /\ v = "running" => executed = 0
    /\ verdict' = v
    /\ UNCHANGED <<pace, allowed, executed, cancelled, expired, passed, over>>

Publish ==
    /\ verdict # Undecided
    /\ over' = TRUE
    /\ UNCHANGED <<pace, allowed, executed, cancelled, expired, passed, verdict>>

Next ==
    \/ Run \/ Pause \/ Step \/ Cancel \/ Expire \/ Execute \/ Pass
    \/ \E v \in Verdicts : Decide(v)
    \/ Publish

Spec == Init /\ [][Next]_vars

-----------------------------------------------------------------------------
(* What a visitor can conclude from the promise *)

\* A verdict tells the truth: a run is only called stopped if it was, complete
\* if its program passed or its time was up, and a run that dies unexpectedly
\* has executed nothing.  A metered run is one instruction ahead at most.
Truthful ==
    /\ verdict \in Verdicts \cup {Undecided}
    /\ verdict = "stopped" => cancelled
    /\ verdict = "complete" => passed \/ expired
    /\ verdict = "running" => executed = 0
    /\ over => verdict # Undecided
    /\ pace = "metered" => executed <= allowed + 1

Final ==
    /\ cancelled \/ expired \/ passed \/ verdict # Undecided => executed' = executed
    /\ verdict # Undecided => verdict' = verdict
    /\ over => over' /\ UNCHANGED <<pace, allowed, cancelled>>
    /\ cancelled => cancelled'
    /\ expired => expired'

\* What ends a run ends it for good: nothing executes later, and the verdict,
\* the "done" event and a Stop are not taken back.
ForGood == [][Final]_vars
=============================================================================
