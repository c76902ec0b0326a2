---------------------------- MODULE SharedTables -----------------------------
(***************************************************************************)
(* The lookup tables as the runs should see them: one cell on disk that is *)
(* always a complete answer of the classifier, taken by the runs that      *)
(* accept cached tables and replaced at once by those that do not.  A run  *)
(* may be out at any time before it has tables, and then leaves no trace.  *)
(***************************************************************************)
CONSTANTS
    Runs,
    Fresh,     \* the runs started with "Fresh Jev"
    Old,       \* an answer to the current prompt from an earlier server
    Other,     \* an answer to another prompt or model
    None

VARIABLES
    cell,      \* what the cache file holds
    tables,    \* the answer each run has got
    out        \* the runs that get none any more

vars == <<cell, tables, out>>

Usable == Runs \cup {Old}

Init ==
    /\ cell \in {None, Old, Other}
    /\ tables = [r \in Runs |-> None]
    /\ out = {}

Take(r) ==
    /\ r \notin Fresh
    /\ r \notin out /\ tables[r] = None
    /\ cell \in Usable
    /\ tables' = [tables EXCEPT ![r] = cell]
    /\ UNCHANGED <<cell, out>>

\* Runs that accept cached tables fill an empty cell only, so concurrent cache
\* misses share one fill.
Fill(r) ==
    /\ r \notin out /\ tables[r] = None
    /\ r \in Fresh \/ cell \notin Usable
    /\ cell' = r
    /\ tables' = [tables EXCEPT ![r] = r]
    /\ UNCHANGED out

\* Stop, the deadline, a failure, or the crash of a process, which ends many.
Leave ==
    /\ \E runs \in SUBSET {r \in Runs : tables[r] = None} : out' = out \cup runs
    /\ UNCHANGED <<cell, tables>>

Next == Leave \/ \E r \in Runs : Take(r) \/ Fill(r)

Spec == Init /\ [][Next]_vars

-----------------------------------------------------------------------------
(* What the runs can conclude from the promise *)

\* A run that accepts cached tables and had to ask has asked for all of them:
\* nobody had tables before, and whoever gets some later gets its own, or those
\* of a run that did not accept them.
OneFill ==
    \A r \in Runs \ Fresh : tables[r] = r =>
        \A q \in Runs : tables[q] \in Fresh \cup {r, None}

\* Whose answer a run has, has the answer, and it was usable.
Traceable ==
    \A q \in Runs :
        /\ tables[q] \in Usable \cup {None}
        /\ tables[q] \in Runs => tables[tables[q]] = tables[q]

\* A run that is out has no tables, its answer has not been kept, and nobody
\* else has it.
NoTrace == \A r \in out : tables[r] = None /\ cell # r /\ \A q \in Runs : tables[q] # r

Handed ==
    /\ out \subseteq out'
    /\ \A r \in Runs : tables[r] # None => cell' \in Usable /\ tables'[r] = tables[r]

\* The tables of a run are not exchanged, there are tables for the others for
\* good, and who is out stays out.
HandedForGood == [][Handed]_vars
=============================================================================
