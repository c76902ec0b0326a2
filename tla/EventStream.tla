----------------------------- MODULE EventStream -----------------------------
(***************************************************************************)
(* The events of one run on their way to the page: Run.emit with its       *)
(* bounded history, the generator of the route events, the connection, and *)
(* the EventSource of app.js with accept.                                  *)
(*                                                                         *)
(* An event is its sequence number.  Fetch and halt events bring a         *)
(* waveform; the dictionary of an event is shared by the history and by    *)
(* the batches of the generators, and emit takes the waveform out of it    *)
(* when a newer one comes, so "waves" says which events have theirs now.   *)
(* The last event of a run is "done", and done is set with it.             *)
(***************************************************************************)
EXTENDS Naturals, SequencesExt, FiniteSetsExt, Subsequences

CONSTANTS
    Capacity,     \* maxlen of the history, 12000 events
    MaxEvents,    \* events a run emits at most
    MaxDrops      \* connections that are lost

ASSUME StreamAssumption ==
    /\ Capacity \in Nat \ {0}
    /\ MaxEvents \in Nat \ {0}
    /\ MaxDrops \in Nat

VARIABLES
    \* Run, under Run.condition
    events,       \* the history
    sequence,     \* number of the last event
    waves,        \* events whose dictionary has a waveform
    lastWave,     \* last_wave_event, 0 for None
    done,
    known,        \* the run is in jobs
    \* the generator of the current connection
    generator,    \* where it is
    after,        \* the last event it has sent
    batch,        \* the events of the iteration, read under the lock
    batchDone,    \* done, read under the lock
    \* the connection
    wire,         \* messages on their way to the page
    drops,
    \* the page
    source,       \* its EventSource
    lastEventId,
    log,          \* every event accept has seen
    shown         \* the event whose waveform is on the screen

runVars == <<events, sequence, waves, lastWave, done, known>>
genVars == <<generator, after, batch, batchDone>>
netVars == <<wire, drops>>
pageVars == <<source, lastEventId, log, shown>>
vars == <<runVars, genVars, netVars, pageVars>>

Init ==
    /\ events = <<>> /\ sequence = 0 /\ waves = {} /\ lastWave = 0
    /\ done = FALSE /\ known = TRUE
    /\ generator = "none" /\ after = 0 /\ batch = <<>> /\ batchDone = FALSE
    /\ wire = <<>> /\ drops = 0
    /\ source = "connecting" /\ lastEventId = 0 /\ log = <<>> /\ shown = 0

-----------------------------------------------------------------------------
(* The run *)

\* Faulty variant of TakeWaveform: every event takes the last waveform away.
TakeWaveformAlways(n, hasWave) ==
    /\ waves' = (waves \ {lastWave}) \cup (IF hasWave THEN {n} ELSE {})
    /\ lastWave' = IF hasWave THEN n ELSE lastWave

\* Only the newest waveform is kept.
TakeWaveform(n, hasWave) ==
    IF hasWave
    THEN waves' = (waves \ {lastWave}) \cup {n} /\ lastWave' = n
    ELSE UNCHANGED <<waves, lastWave>>

\* Faulty variants of Record: the history has no bound; a full history refuses
\* the event.
RecordUnbounded(n) == events' = Append(events, n)

RecordIfRoom(n) ==
    events' = IF Len(events) < Capacity THEN Append(events, n) ELSE events

\* A full history loses its oldest event.
Record(n) ==
    events' = IF Len(events) < Capacity
              THEN Append(events, n)
              ELSE Append(Tail(events), n)

\* Run.emit; notify_all makes waiting generators look again, see Wake.
Emit ==
    /\ ~done
    /\ sequence < MaxEvents - 1
    /\ \E hasWave \in BOOLEAN :
          /\ sequence' = sequence + 1
          /\ TakeWaveform(sequence', hasWave)
          /\ Record(sequence')
    /\ UNCHANGED <<done, known, genVars, netVars, pageVars>>

\* The end of Run.work: the event and the flag in one critical section.
EmitDone ==
    /\ ~done
    /\ sequence' = sequence + 1
    /\ TakeWaveform(sequence', FALSE)
    /\ Record(sequence')
    /\ done' = TRUE
    /\ UNCHANGED <<known, genVars, netVars, pageVars>>

\* start_run deletes ended runs when there are 24.
Forget ==
    /\ done
    /\ known
    /\ known' = FALSE
    /\ UNCHANGED <<events, sequence, waves, lastWave, done, genVars, netVars, pageVars>>

-----------------------------------------------------------------------------
(* The route events *)

\* Faulty variant of Connect: the header names the next event.
ConnectAfterNext ==
    /\ source = "connecting"
    /\ known
    /\ source' = "open"
    /\ generator' = "read"
    /\ after' = IF lastEventId = 0 THEN 0 ELSE lastEventId + 1
    /\ batch' = <<>> /\ batchDone' = FALSE
    /\ UNCHANGED <<runVars, netVars, lastEventId, log, shown>>

\* A new generator starts after the Last-Event-ID of the request.
Connect ==
    /\ source = "connecting"
    /\ known
    /\ source' = "open"
    /\ generator' = "read"
    /\ after' = lastEventId
    /\ batch' = <<>> /\ batchDone' = FALSE
    /\ UNCHANGED <<runVars, netVars, lastEventId, log, shown>>

\* 404 ends the EventSource for good.
ConnectRefused ==
    /\ source = "connecting"
    /\ ~known
    /\ source' = "failed"
    /\ UNCHANGED <<runVars, genVars, netVars, lastEventId, log, shown>>

\* Faulty variant of Newer: a full history means nothing was sent before.
NewerOrAll(last) ==
    IF Len(events) = Capacity THEN events ELSE SelectSeq(events, LAMBDA n : n > last)

\* The events of the history after the event "last", in their order.
Newer(last) == At(events, {i \in DOMAIN events : events[i] > last})

\* One look at the history under the lock.
Read ==
    /\ generator = "read"
    /\ IF Newer(after) = <<>> /\ ~done
       THEN generator' = "wait" /\ UNCHANGED <<batch, batchDone>>
       ELSE generator' = "send" /\ batch' = Newer(after) /\ batchDone' = done
    /\ UNCHANGED <<after, runVars, netVars, pageVars>>

\* Notified, or the timeout of 10 seconds.
Wake ==
    /\ generator = "wait"
    /\ generator' = "read"
    /\ UNCHANGED <<after, batch, batchDone, runVars, netVars, pageVars>>

Put(message) ==
    IF message = <<>>
    THEN UNCHANGED <<after, wire>>
    ELSE /\ after' = Last(message)
         /\ wire' = Append(wire, [ids |-> message, waves |-> waves \cap ToSet(message)])

\* Faulty variant of Send: done is read after the lock has been released.
SendReadingDone ==
    /\ generator = "send"
    /\ Put(batch)
    /\ generator' = IF done THEN "ended" ELSE "read"
    /\ UNCHANGED <<batch, batchDone, drops, runVars, pageVars>>

\* Outside the lock: the events are encoded with the waveforms they have now.
\* A generator that has read done returns; its page has closed the connection
\* by then, see EndsComplete.
Send ==
    /\ generator = "send"
    /\ Put(batch)
    /\ generator' = IF batchDone THEN "ended" ELSE "read"
    /\ UNCHANGED <<batch, batchDone, drops, runVars, pageVars>>

-----------------------------------------------------------------------------
(* The connection and the page *)

\* onmessage and accept; the "done" event closes the EventSource.
Deliver ==
    /\ source = "open"
    /\ wire # <<>>
    /\ LET message == Head(wire) IN
       /\ wire' = Tail(wire)
       /\ lastEventId' = Last(message.ids)
       /\ log' = log \o message.ids
       /\ shown' = IF message.waves = {} THEN shown ELSE Max(message.waves)
       /\ source' = IF done /\ Last(message.ids) = sequence THEN "closed" ELSE "open"
    /\ UNCHANGED <<drops, runVars, genVars>>

\* A lost connection loses what is on the wire; the EventSource connects again.
Drop ==
    /\ source = "open"
    /\ drops < MaxDrops
    /\ drops' = drops + 1
    /\ source' = "connecting"
    /\ wire' = <<>>
    /\ generator' = "none"
    /\ UNCHANGED <<after, batch, batchDone, runVars, lastEventId, log, shown>>

Generator == Read \/ Wake \/ Send

Page == Connect \/ ConnectRefused \/ Deliver

\* The response has ended and the page has all of it.
Terminated ==
    /\ source # "connecting"
    /\ generator \in {"ended", "none"}
    /\ wire = <<>>
    /\ UNCHANGED vars

Next ==
    \/ Emit \/ EmitDone \/ Forget \/ Generator \/ Page \/ Drop \/ Terminated

Spec == Init /\ [][Next]_vars

\* The threads of the server and the browser run.  How a run comes to its
\* "done" event is RunSession's business; connections are lost finitely often.
Fairness ==
    /\ WF_vars(Generator)
    /\ WF_vars(Page)

FairSpec == Spec /\ Fairness

-----------------------------------------------------------------------------
(* What the page is promised *)

PageKnows ==
    IF source = "closed" THEN "complete" ELSE IF source = "failed" THEN "lost" ELSE "expects"

Contract == INSTANCE StreamContract WITH
    newest     <- sequence,
    over       <- done,
    remembered <- known,
    seen       <- ToSet(log),
    upto       <- lastEventId,
    page       <- PageKnows

\* The history, the generators, the connections and the waveforms are
\* invisible: a page sees blocks of events that leave out nothing that is kept.
StreamSpec == Contract!Spec

-----------------------------------------------------------------------------
(* Properties *)

Ids == 1 .. MaxEvents
Messages == [ids : Seq(Ids) \ {<<>>}, waves : SUBSET Ids]

\* Every variable has its type.
TypeOK ==
    /\ events \in Seq(Ids) /\ Len(events) <= Capacity
    /\ sequence \in 0 .. MaxEvents
    /\ waves \subseteq Ids
    /\ lastWave \in 0 .. MaxEvents
    /\ done \in BOOLEAN /\ known \in BOOLEAN
    /\ generator \in {"none", "read", "wait", "send", "ended"}
    /\ after \in 0 .. MaxEvents
    /\ batch \in Seq(Ids)
    /\ batchDone \in BOOLEAN
    /\ wire \in Seq(Messages)
    /\ drops \in 0 .. MaxDrops
    /\ source \in {"connecting", "open", "closed", "failed"}
    /\ lastEventId \in 0 .. MaxEvents
    /\ log \in Seq(Ids)
    /\ shown \in 0 .. MaxEvents

\* The page sees no event twice and none late, through any number of lost
\* connections (Last-Event-ID against "seq > after").
InOrderOnce ==
    \A i, j \in DOMAIN log : i < j => log[i] < log[j]

\* The page misses no event but those that had already left the history.
Evicted(n) == n + Capacity <= sequence
OnlyEvictionLoses ==
    \A n \in 1 .. lastEventId : n \in ToSet(log) \/ Evicted(n)

\* A generator returns only when everything there was to send is sent,
\* although it sends after it has released the lock.
EndsComplete == generator = "ended" => done /\ after = sequence

\* When the page has seen "done", it shows the last waveform of the run: emit
\* takes waveforms out of events that generators hold, but the event that
\* replaces them comes to the page as well, unless it is evicted.
FinalWaveform ==
    source = "closed" => shown = lastWave \/ Evicted(lastWave)

\* A page whose connection keeps coming back learns that its run has ended,
\* as long as the server remembers the run.
PageLearnsEnd == done ~> source = "closed" \/ ~known
=============================================================================
