-------------------------------- MODULE Page --------------------------------
(***************************************************************************)
(* The page of one visitor: start and reset of app.js, which wait for the  *)
(* server in the middle, with generation, runId, starting and terminal.    *)
(*                                                                         *)
(* JavaScript runs one piece of code at a time, from one await to the next,*)
(* and each piece is an action.  A press of Run or Step that calls start   *)
(* has a number, and the run that the server creates for it has the same.  *)
(* The server is external: it creates a run or refuses it, and ends it;    *)
(* requests and their answers may get lost.  Presses that only send a      *)
(* control request change nothing in the page and are left out, and so is  *)
(* the cooldown, which only keeps the buttons disabled for longer.         *)
(***************************************************************************)
EXTENDS Naturals, FiniteSets

CONSTANTS
    Programs,
    MaxStarts,
    MaxGenerations,
    MaxLost

ASSUME PageAssumption == {MaxStarts, MaxGenerations, MaxLost} \subseteq Nat

Starts == 1 .. MaxStarts
None == 0

VARIABLES
    \* the page
    generation, runId, starting, terminal,
    program,     \* the program of the tab
    stream,      \* the EventSource of the variable of that name
    sources,     \* those that are open
    \* the calls of start
    pc,
    token,       \* the generation in which a call has asked for its run
    oldRun,      \* the run whose stop a call waits for
    ran,         \* the program a call has asked for
    tabs,        \* tabs whose handlers wait for a stop
    \* the server and the requests to it
    server,      \* what has become of each run
    request,     \* POST /api/runs
    stop,        \* POST /api/runs/<id>/control, with stop
    lost,        \* runs that a lost message was about
    \* history
    races        \* what the page does not expect, and in which generation it was

page == <<generation, runId, starting, terminal, program, stream, sources>>
calls == <<pc, token, oldRun, ran, tabs>>
network == <<server, request, stop, lost>>
vars == <<page, calls, network, races>>

Init ==
    /\ generation = 0 /\ runId = None /\ starting = FALSE /\ terminal = FALSE
    /\ program \in Programs
    /\ stream = None /\ sources = {}
    /\ pc = [i \in Starts |-> "none"]
    /\ token = [i \in Starts |-> 0]
    /\ oldRun = [i \in Starts |-> None]
    /\ ran \in [Starts -> {program}]
    /\ tabs = {}
    /\ server = [i \in Starts |-> "none"]
    /\ request = [i \in Starts |-> "none"]
    /\ stop = [i \in Starts |-> "none"]
    /\ lost = {}
    /\ races = {}

-----------------------------------------------------------------------------
(* reset and start *)

NextGeneration == generation + 1

\* Faulty variant of HasRun: the stop is posted and awaited without a look.
HasRunAlways == TRUE

\* "if (oldRun)"
HasRun == runId # None

\* reset, up to its await.
Clear ==
    /\ generation < MaxGenerations
    /\ generation' = NextGeneration
    /\ runId' = None
    /\ stream' = None /\ sources' = sources \ {stream}
    /\ terminal' = FALSE
    /\ stop' = IF HasRun THEN [stop EXCEPT ![runId] = "sent"] ELSE stop

\* The Reset button.  How the stop ends changes nothing.
Reset ==
    /\ Clear
    /\ starting' = FALSE
    /\ UNCHANGED <<program, calls, server, request, lost, races>>

\* Another program is chosen: reset comes first, and its stop is waited for.
ChooseTab(p) ==
    /\ p # program
    /\ Clear
    /\ starting' = FALSE
    /\ IF HasRun THEN tabs' = tabs \cup {[to |-> p, run |-> runId]} /\ UNCHANGED program
                 ELSE program' = p /\ UNCHANGED tabs
    /\ UNCHANGED <<pc, token, oldRun, ran, server, request, lost, races>>

\* A stop that fails ends the handler.
AfterTab(tab) ==
    /\ \/ stop[tab.run] = "answered" /\ program' = tab.to
       \/ stop[tab.run] = "failed" /\ UNCHANGED program
    /\ tabs' = tabs \ {tab}
    /\ UNCHANGED <<generation, runId, starting, terminal, stream, sources,
                   pc, token, oldRun, ran, network, races>>

\* Call i is the next.
Fresh(i) == pc[i] = "none" /\ \A j \in Starts : j < i => pc[j] # "none"

\* What call i comes across when it asks for a run in generation g: another one
\* that waits for its reset and will ask as well, or a tab that waits for its.
Twice(i, g) == IF \E j \in Starts \ {i} : pc[j] = "reset" THEN {<<"twice", g>>} ELSE {}
Between(g) == IF tabs # {} THEN {<<"tab", g>>} ELSE {}

\* Call i asks for a run, in generation g.
Begin(i, g) ==
    /\ pc' = [pc EXCEPT ![i] = "post"]
    /\ token' = [token EXCEPT ![i] = g]
    /\ ran' = [ran EXCEPT ![i] = program]
    /\ request' = [request EXCEPT ![i] = "sent"]
    /\ starting' = TRUE
    /\ terminal' = FALSE
    /\ races' = races \cup Twice(i, g) \cup Between(g)

\* The page has no run: start asks for one.
PressStart(i) ==
    /\ ~starting /\ ~terminal /\ runId = None
    /\ Fresh(i)
    /\ Begin(i, generation)
    /\ UNCHANGED <<generation, runId, program, stream, sources, oldRun, tabs, server, stop, lost>>

\* The page has a run that is over: start resets first.  After a start that
\* failed there is no run to stop, and nothing to wait for.
PressRestart(i) ==
    /\ ~starting /\ terminal
    /\ Fresh(i)
    /\ Clear
    /\ IF HasRun
       THEN /\ pc' = [pc EXCEPT ![i] = "reset"]
            /\ oldRun' = [oldRun EXCEPT ![i] = runId]
            /\ starting' = FALSE
            /\ UNCHANGED <<token, ran, request, races>>
       ELSE Begin(i, NextGeneration) /\ UNCHANGED oldRun
    /\ UNCHANGED <<program, tabs, server, lost>>

\* The stop of the old run has been answered.  If it failed, so does start; if
\* the page has another run by now, it is told to go on.
AfterReset(i) ==
    /\ pc[i] = "reset"
    /\ \/ /\ stop[oldRun[i]] = "failed" \/ (stop[oldRun[i]] = "answered" /\ runId # None)
          /\ pc' = [pc EXCEPT ![i] = "over"]
          /\ UNCHANGED <<token, ran, request, starting, terminal, races>>
       \/ /\ stop[oldRun[i]] = "answered" /\ runId = None
          /\ Begin(i, generation)
    /\ UNCHANGED <<generation, runId, program, stream, sources, oldRun, tabs, server, stop, lost>>

\* Faulty variant of Current: the generation is not looked at.
CurrentAlways(i) == TRUE

\* No reset has come since call i asked for its run.
Current(i) == token[i] = generation

\* A call that is late has to do with a page that is used for something else.
Late(i) ==
    IF token[i] # generation /\ (starting \/ runId # None) THEN {<<"late", generation>>} ELSE {}

\* The run is the run of the page.
Take(i) ==
    /\ pc[i] = "post" /\ request[i] = "created"
    /\ Current(i)
    /\ runId' = i
    /\ stream' = i /\ sources' = sources \cup {i}
    /\ starting' = FALSE
    /\ pc' = [pc EXCEPT ![i] = "over"]
    /\ UNCHANGED <<generation, terminal, program, token, oldRun, ran, tabs, network, races>>

\* There was a reset: the run is not wanted any more.
Discard(i) ==
    /\ pc[i] = "post" /\ request[i] = "created"
    /\ ~Current(i)
    /\ stop' = [stop EXCEPT ![i] = "sent"]
    /\ pc' = [pc EXCEPT ![i] = "stop"]
    /\ UNCHANGED <<page, token, oldRun, ran, tabs, server, request, lost, races>>

\* Faulty variant of Settled: the flag is cleared in the try block only.
SettledInTry(i) == UNCHANGED starting

\* The finally clause of start.
Settled(i) == starting' = FALSE

\* The catch clause of start, after either request; it does not look at the
\* generation, and neither does the finally clause.
Fail(i) ==
    /\ \/ pc[i] = "post" /\ request[i] = "failed"
       \/ pc[i] = "stop" /\ stop[i] = "failed"
    /\ terminal' = TRUE
    /\ Settled(i)
    /\ pc' = [pc EXCEPT ![i] = "over"]
    /\ races' = races \cup Late(i)
    /\ UNCHANGED <<generation, runId, program, stream, sources, token, oldRun, ran, tabs, network>>

Discarded(i) ==
    /\ pc[i] = "stop" /\ stop[i] = "answered"
    /\ Settled(i)
    /\ pc' = [pc EXCEPT ![i] = "over"]
    /\ races' = races \cup Late(i)
    /\ UNCHANGED <<generation, runId, terminal, program, stream, sources, token, oldRun, ran, tabs,
                   network>>

\* accept, with the event done of run i.  Whichever run it was, the EventSource
\* that is closed is that of the variable.
Done(i) ==
    /\ i \in sources /\ server[i] = "over"
    /\ token[i] = generation
    /\ terminal' = TRUE
    /\ stream' = None /\ sources' = sources \ {stream}
    /\ UNCHANGED <<generation, runId, starting, program, calls, network, races>>

-----------------------------------------------------------------------------
(* The server and the network *)

\* A run is created or refused, and the page is told.
Serve(i) ==
    /\ request[i] = "sent"
    /\ \/ server' = [server EXCEPT ![i] = "live"] /\ request' = [request EXCEPT ![i] = "created"]
       \/ request' = [request EXCEPT ![i] = "failed"] /\ UNCHANGED server
    /\ UNCHANGED <<page, calls, stop, lost, races>>

\* A run that has ended long ago is not known any more, and cannot be stopped.
ServeStop(i) ==
    /\ stop[i] = "sent"
    /\ \/ /\ server' = [server EXCEPT ![i] = IF @ = "live" THEN "stopping" ELSE @]
          /\ stop' = [stop EXCEPT ![i] = "answered"]
       \/ /\ server[i] = "over"
          /\ stop' = [stop EXCEPT ![i] = "failed"]
          /\ UNCHANGED server
    /\ UNCHANGED <<page, calls, request, lost, races>>

\* A request does not arrive, or its answer.
Lose(i) ==
    /\ Cardinality(lost) < MaxLost
    /\ \/ /\ request[i] = "sent"
          /\ request' = [request EXCEPT ![i] = "failed"]
          /\ server' \in {server, [server EXCEPT ![i] = "live"]}
          /\ UNCHANGED stop
       \/ /\ stop[i] = "sent"
          /\ stop' = [stop EXCEPT ![i] = "failed"]
          /\ server' \in {server, [server EXCEPT ![i] = IF @ = "live" THEN "stopping" ELSE @]}
          /\ UNCHANGED request
    /\ lost' = lost \cup {i}
    /\ UNCHANGED <<page, calls, races>>

RunEnds(i) ==
    /\ server[i] \in {"live", "stopping"}
    /\ server' = [server EXCEPT ![i] = "over"]
    /\ UNCHANGED <<page, calls, request, stop, lost, races>>

-----------------------------------------------------------------------------

Call(i) ==
    PressStart(i) \/ PressRestart(i) \/ AfterReset(i) \/ Take(i) \/ Discard(i)
    \/ Fail(i) \/ Discarded(i)

World(i) == Done(i) \/ Serve(i) \/ ServeStop(i) \/ Lose(i) \/ RunEnds(i)

Next ==
    \/ Reset
    \/ \E p \in Programs : ChooseTab(p)
    \/ \E tab \in tabs : AfterTab(tab)
    \/ \E i \in Starts : Call(i) \/ World(i)

Spec == Init /\ [][Next]_vars

-----------------------------------------------------------------------------
(* Properties *)

\* Every variable has its type.
TypeOK ==
    /\ generation \in Nat
    /\ runId \in Starts \cup {None} /\ stream \in Starts \cup {None}
    /\ starting \in BOOLEAN /\ terminal \in BOOLEAN
    /\ program \in Programs
    /\ sources \subseteq Starts
    /\ pc \in [Starts -> {"none", "reset", "post", "stop", "over"}]
    /\ token \in [Starts -> Nat]
    /\ oldRun \in [Starts -> Starts \cup {None}]
    /\ ran \in [Starts -> Programs]
    /\ tabs \subseteq [to : Programs, run : Starts]
    /\ server \in [Starts -> {"none", "live", "stopping", "over"}]
    /\ request \in [Starts -> {"none", "sent", "created", "failed"}]
    /\ stop \in [Starts -> {"none", "sent", "answered", "failed"}]
    /\ lost \subseteq Starts
    /\ races \subseteq {"twice", "late", "tab"} \X Nat

\* Two calls have asked for a run in one generation.
Doubled(i) == \E j \in Starts \ {i} : request[j] # "none" /\ token[j] = token[i]

\* In generation g a call has finished that was older, or two have asked.
Raced(g) == <<"twice", g>> \in races \/ <<"late", g>> \in races

\* A run that goes on is the run of the page, or about to be, or its stop is
\* under way, unless a message about it got lost.  Only in a generation of one
\* of the two cases of Raced are there two calls, of which the page forgets a
\* run; a reset ends it.
NoOrphan ==
    \A i \in Starts : server[i] = "live" =>
        \/ runId = i
        \/ pc[i] = "post"
        \/ stop[i] = "sent"
        \/ i \in lost
        \/ Doubled(i) /\ Raced(token[i])

\* The page takes its run for ended only if it has, keeps its buttons disabled
\* only while it waits for the run of this generation, and shows the program of
\* its run.  The first fails in the cases of Raced, the last if the run was
\* started between a tab and its reset; neither outlives the next reset.
PageTruthful ==
    /\ terminal /\ runId # None => server[runId] = "over" \/ Raced(generation)
    /\ starting => \E i \in Starts : pc[i] = "post" /\ token[i] = generation
    /\ runId # None => ran[runId] = program \/ <<"tab", generation>> \in races
=============================================================================
