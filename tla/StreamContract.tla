---------------------------- MODULE StreamContract ----------------------------
(***************************************************************************)
(* What the server promises the page about the events of one run, whatever *)
(* connections and generators it takes to bring them there: they come in   *)
(* blocks, each newer than all before it and without a gap but for events  *)
(* that are too old to be kept.  EventStream is shown to implement it.     *)
(***************************************************************************)
EXTENDS Naturals

CONSTANTS
    Capacity,     \* events that are kept
    MaxEvents     \* events of a run at most

VARIABLES
    newest,       \* number of the last event of the run
    over,         \* that event was "done"
    remembered,   \* the server still knows the run
    seen,         \* the events the page has
    upto,         \* number of the last of them
    page          \* whether the page still expects events

vars == <<newest, over, remembered, seen, upto, page>>

Kept(n) == newest < n + Capacity

Init ==
    /\ newest = 0
    /\ over = FALSE
    /\ remembered = TRUE
    /\ seen = {}
    /\ upto = 0
    /\ page = "expects"

\* The next event of the run; a run that is not over has one left for "done".
Publish ==
    /\ ~over
    /\ newest < MaxEvents
    /\ newest' = newest + 1
    /\ over' \in BOOLEAN
    /\ over' \/ newest' < MaxEvents
    /\ UNCHANGED <<remembered, seen, upto, page>>

Forget ==
    /\ over
    /\ remembered' = FALSE
    /\ UNCHANGED <<newest, over, seen, upto, page>>

\* Everything after `upto`, up to some event, that is still kept, and perhaps
\* more; the "done" event is the last the page gets.
Learn ==
    /\ page = "expects"
    /\ \E last \in upto + 1 .. newest, block \in SUBSET (upto + 1 .. newest) :
          /\ last \in block
          /\ \A n \in block : n <= last
          /\ \A n \in upto + 1 .. last : Kept(n) => n \in block
          /\ seen' = seen \cup block
          /\ upto' = last
          /\ page' = IF over /\ last = newest THEN "complete" ELSE "expects"
    /\ UNCHANGED <<newest, over, remembered>>

\* A page that comes back to a run that is forgotten.
Lose ==
    /\ page = "expects"
    /\ ~remembered
    /\ page' = "lost"
    /\ UNCHANGED <<newest, over, remembered, seen, upto>>

Next == Publish \/ Forget \/ Learn \/ Lose

Spec == Init /\ [][Next]_vars

-----------------------------------------------------------------------------
(* What the page can conclude from the promise *)

\* The page misses nothing but events that are too old to be kept, has
\* everything when it is complete, and is lost only after the end of the run.
Informed ==
    /\ seen \subseteq 1 .. upto /\ upto <= newest
    /\ \A n \in 1 .. upto : Kept(n) => n \in seen
    /\ page = "complete" => over /\ upto = newest
    /\ page = "lost" => over /\ ~remembered

Later ==
    /\ seen \subseteq seen' /\ upto <= upto'
    /\ seen' \cap (1 .. upto) = seen
    /\ page # "expects" => UNCHANGED <<newest, over, seen, upto, page>>

\* What the page has is never taken back or filled in later, so that it can
\* count an event when it comes; after the last event nothing comes.
NothingLate == [][Later]_vars
=============================================================================
