-------------------------- MODULE RunSessionProofs ---------------------------
(***************************************************************************)
(* Theorems about RunSession, for every deadline, pause limit, program     *)
(* length and number of commands.  IInv is the inductive invariant; each   *)
(* conjunct names the part of the design it records.                       *)
(***************************************************************************)
EXTENDS RunSession, TLAPS

-----------------------------------------------------------------------------
(* The inductive invariant *)

Early == {"queued", "compile", "ready", "create"}
Lookup == {"cache", "classify", "reply", "tables"}
Looping == {"read", "line", "perm", "blocked", "granted", "go", "eof", "reap"}
Over == {"final", "finish", "ended"}

\* A pause is the time between blocking and waking.
ClockInv ==
    /\ pauseAge # Unpaused <=> wpc = "blocked"
    /\ pauseAge # Unpaused => pauseAge <= age

\* Who exists when: the simulation, the child, and the lock.
LifeInv ==
    /\ wpc \in Early => ~simulation
    /\ ~simulation => /\ proc = "none" /\ ~visible /\ ~stopped /\ wd = "off"
                      /\ wpc \in Early \cup Over
    /\ proc = "none" => out = <<>> /\ stdin = "empty" /\ executed = 0 /\ ~visible
    /\ wpc \in Early \cup Lookup \cup {"lock", "spawn", "popen"} => proc = "none"
    /\ wpc \in Looping \cup {"assign"} => proc # "none"
    /\ wpc \in Looping => visible
    /\ proc \in Alive => visible \/ wpc = "assign"
    /\ wpc = "assign" => ~visible
    /\ wpc \in Over => proc \notin Alive
    /\ done => wpc = "ended"
    /\ holding => wpc \in Lookup
    /\ checked => wpc \in CheckSites

\* Signals are sent by Stop only, so a killed child means a stopped run.
TornInv ==
    /\ (\E i \in DOMAIN out : out[i] = "torn") \/ line = "torn" => stopped
    /\ line # "none" => wpc \in {"line", "eof", "close"} \cup Over
    /\ wpc = "eof" /\ line # "none" => stopped
    /\ proc = "killed" => stopped
    /\ outcome # "malformed"
    /\ stopped /\ wpc \notin {"close"} \cup Over => cancelled \/ timedOut
    /\ timedOut => stopped

\* Nothing is on its way to the CPU of a run that is cancelled or stopped.
RevokedInv ==
    /\ stdin = "go" => proc \notin {"run", "exec"}
    /\ stdin = "go" /\ proc \in Alive => visible /\ ~cancelled /\ ~stopped
    /\ wpc \in {"perm", "blocked", "granted", "go"} /\ stopped => proc \notin Alive
    /\ wpc \in {"granted", "go"} /\ cancelled => proc \notin Alive
    /\ wpc = "eof" => stopped \/ cancelled \/ proc \notin Alive
    /\ stdin = "closed" => cancelled \/ proc \notin Alive

\* One instruction that has its permission but is not executed yet.
InFlight ==
    IF wpc \in {"granted", "go"} \/ (stdin = "go" /\ proc = "wait") THEN 1 ELSE 0

BudgetInv ==
    /\ mode = "run" => credits = 0
    /\ mode # "run" => executed + credits + InFlight <= allowed + 1

\* What the outcome of Simulation.run says about the run.
OutcomeInv ==
    /\ wpc \notin {"finish", "ended"} =>
          runState \in {"compiling", "running", "paused"}
    /\ outcome = "none" /\ wpc \in {"close"} \cup Over => cancelled
    /\ wpc \notin {"close"} \cup Over => outcome = "none"
    /\ outcome = "return" => cancelled \/ timedOut \/ proc = "exit0"
    /\ outcome = "crash" => proc = "none" /\ runState \in {"running", "stopped"}
    /\ wpc \in Lookup \cup {"lock", "spawn"} => runState = "running"

IInv ==
    /\ TypeOK /\ ClockInv /\ LifeInv /\ TornInv /\ OneUnanswered /\ RevokedInv
    /\ BudgetInv /\ OutcomeInv

USE BoundsAssumption DEF Unpaused, Alive, Replies, CheckSites, Early, Lookup, Looping, Over

-----------------------------------------------------------------------------
(* The pipe *)

LEMMA AppendLine ==
    ASSUME NEW s \in Seq(Lines), NEW e \in Lines
    PROVE  /\ Append(s, e) \in Seq(Lines)
           /\ DOMAIN Append(s, e) = DOMAIN s \cup {Len(s) + 1}
           /\ Len(s) + 1 \notin DOMAIN s
           /\ \A i \in DOMAIN s : Append(s, e)[i] = s[i]
           /\ Append(s, e)[Len(s) + 1] = e
OBVIOUS

LEMMA TailLine ==
    ASSUME NEW s \in Seq(Lines), s # <<>>
    PROVE  /\ Head(s) \in Lines /\ Tail(s) \in Seq(Lines)
           /\ 1 \in DOMAIN s /\ s[1] = Head(s)
           /\ \A i \in DOMAIN Tail(s) : /\ i \in Nat \ {0}
                                        /\ i + 1 \in DOMAIN s
                                        /\ Tail(s)[i] = s[i + 1]
OBVIOUS

LEMMA KillKeepsFetches ==
    ASSUME out \in Seq(Lines), OneFetchInPipe, KillChild
    PROVE  /\ out' \in Seq(Lines)
           /\ OneFetchInPipe'
           /\ FetchInPipe' => FetchInPipe
           /\ proc' \in {proc, "killed"}
<1>1. CASE out' = out
  BY <1>1 DEF OneFetchInPipe, FetchInPipe, KillChild
<1>2. CASE out' = Append(out, "torn")
  BY <1>2, AppendLine DEF OneFetchInPipe, FetchInPipe, KillChild, Lines
<1> QED BY <1>1, <1>2 DEF KillChild

LEMMA ReadTakesFetch ==
    ASSUME out \in Seq(Lines), OneFetchInPipe, out # <<>>, out' = Tail(out)
    PROVE  /\ out' \in Seq(Lines)
           /\ Head(out) \in Lines
           /\ OneFetchInPipe'
           /\ FetchInPipe' => FetchInPipe
           /\ Head(out) = "fetch" => FetchInPipe /\ ~FetchInPipe'
           /\ (\E i \in DOMAIN out' : out'[i] = "torn") => (\E i \in DOMAIN out : out[i] = "torn")
BY TailLine DEF OneFetchInPipe, FetchInPipe

LEMMA WriteAddsFetch ==
    ASSUME out \in Seq(Lines), OneFetchInPipe, NEW e \in Lines, out' = Append(out, e)
    PROVE  /\ out' \in Seq(Lines)
           /\ e # "fetch" => OneFetchInPipe' /\ (FetchInPipe' => FetchInPipe)
           /\ ~FetchInPipe => OneFetchInPipe'
           /\ e # "torn" /\ (\E i \in DOMAIN out' : out'[i] = "torn") => (\E i \in DOMAIN out : out[i] = "torn")
BY AppendLine DEF OneFetchInPipe, FetchInPipe

LEMMA PreparePreserves == ASSUME IInv, Prepare PROVE IInv'
<1>0. FlagsOK
  BY DEF IInv, TypeOK
<1> USE DEF IInv, vars, userVars, clockVars, childVars, simVars, ctlVars, dataVars,
  Prepare, AcquireCompiler, Compile, ReadCancelled, CreateSimulation, Goto
<1>1. FlagsOK'
  BY <1>0, Zenon DEF FlagsOK
<1>2. TypeOK'
  BY <1>1 DEF TypeOK, ClockInv
<1>3. ClockInv'
  BY DEF ClockInv, TypeOK
<1>4. LifeInv'
  BY DEF LifeInv, TypeOK
<1>5. TornInv'
  BY DEF TornInv, TypeOK, LifeInv
<1>6. OneUnanswered'
  BY DEF OneUnanswered, OneFetchInPipe, FetchInHand, FetchInPipe, TypeOK, LifeInv
<1>7. RevokedInv'
  BY DEF RevokedInv, LifeInv, TornInv, OneUnanswered, FetchInHand
<1>8. BudgetInv'
  BY DEF BudgetInv, InFlight, TypeOK, LifeInv, OneUnanswered, FetchInHand, RevokedInv
<1>9. OutcomeInv'
  BY DEF OutcomeInv, TypeOK, LifeInv, TornInv, RevokedInv
<1> QED BY <1>1, <1>2, <1>3, <1>4, <1>5, <1>6, <1>7, <1>8, <1>9

LEMMA CheckPreserves == ASSUME IInv, Check PROVE IInv'
<1>0. FlagsOK
  BY DEF IInv, TypeOK
<1> USE DEF IInv, vars, userVars, clockVars, childVars, simVars, ctlVars, dataVars,
  Check, CheckDeadline, CheckStopped, Goto, Leave, TimeUp, Elapsed
<1>1. FlagsOK'
  BY <1>0, Zenon DEF FlagsOK
<1>2. TypeOK'
  BY <1>1 DEF TypeOK, ClockInv
<1>3. ClockInv'
  BY DEF ClockInv, TypeOK
<1>4. LifeInv'
  BY DEF LifeInv, TypeOK
<1>5. TornInv'
  BY DEF TornInv, TypeOK, LifeInv
<1>6. OneUnanswered'
  BY DEF OneUnanswered, OneFetchInPipe, FetchInHand, FetchInPipe, TypeOK, LifeInv
<1>7. RevokedInv'
  BY DEF RevokedInv, LifeInv, TornInv, OneUnanswered, FetchInHand
<1>8. BudgetInv'
  BY DEF BudgetInv, InFlight, TypeOK, LifeInv, OneUnanswered, FetchInHand, RevokedInv
<1>9. OutcomeInv'
  BY DEF OutcomeInv, TypeOK, LifeInv, TornInv, RevokedInv
<1> QED BY <1>1, <1>2, <1>3, <1>4, <1>5, <1>6, <1>7, <1>8, <1>9

LEMMA LookupTablesFlags == ASSUME FlagsOK, LookupTables PROVE FlagsOK'
<1>1. /\ UNCHANGED <<cancelled, simulation, visible, stopped, timedOut, done>>
      /\ checked' \in {checked, FALSE} /\ holding' \in {holding, TRUE, FALSE}
  BY DEF userVars, simVars, dataVars, LookupTables, AcquireClassifier,
     RetryClassifier, ReadCache, PollReply, TakeReply, UseReply, ReturnTables, Goto, Leave
<1>. QED  BY <1>1, Zenon DEF FlagsOK

LEMMA LookupTablesPreserves == ASSUME IInv, LookupTables PROVE IInv'
<1>1. FlagsOK'
  BY LookupTablesFlags DEF IInv, TypeOK
<1> USE DEF IInv, vars, userVars, clockVars, childVars, simVars, ctlVars, dataVars,
  LookupTables, AcquireClassifier, RetryClassifier, ReadCache, PollReply, TakeReply, UseReply, ReturnTables, Goto, Leave, Passes
<1>2. TypeOK'
  BY <1>1 DEF TypeOK, ClockInv
<1>3. ClockInv'
  BY DEF ClockInv, TypeOK
<1>4. LifeInv'
  BY DEF LifeInv, TypeOK
<1>5. TornInv'
  BY DEF TornInv, TypeOK, LifeInv
<1>6. OneUnanswered'
  BY DEF OneUnanswered, OneFetchInPipe, FetchInHand, FetchInPipe, TypeOK, LifeInv
<1>7. RevokedInv'
  BY DEF RevokedInv, LifeInv, TornInv, OneUnanswered, FetchInHand
<1>8. BudgetInv'
  BY DEF BudgetInv, InFlight, TypeOK, LifeInv, OneUnanswered, FetchInHand, RevokedInv
<1>9. OutcomeInv'
  BY DEF OutcomeInv, TypeOK, LifeInv, TornInv, RevokedInv
<1> QED BY <1>1, <1>2, <1>3, <1>4, <1>5, <1>6, <1>7, <1>8, <1>9

LEMMA LaunchPreserves == ASSUME IInv, Launch PROVE IInv'
<1>0. FlagsOK
  BY DEF IInv, TypeOK
<1> USE DEF IInv, vars, userVars, clockVars, childVars, simVars, ctlVars, dataVars,
  Launch, WriteTables, Spawn, AssignProcess, Goto, Leave, Passes
<1>1. FlagsOK'
  BY <1>0, Zenon DEF FlagsOK
<1>2. TypeOK'
  BY <1>1 DEF TypeOK, ClockInv
<1>3. ClockInv'
  BY DEF ClockInv, TypeOK
<1>4. LifeInv'
  BY DEF LifeInv, TypeOK
<1>5. TornInv'
  BY DEF TornInv, TypeOK, LifeInv
<1>6. OneUnanswered'
  BY DEF OneUnanswered, OneFetchInPipe, FetchInHand, FetchInPipe, TypeOK, LifeInv
<1>7. RevokedInv'
  BY DEF RevokedInv, LifeInv, TornInv, OneUnanswered, FetchInHand
<1>8. BudgetInv'
  BY DEF BudgetInv, InFlight, TypeOK, LifeInv, OneUnanswered, FetchInHand, RevokedInv
<1>9. OutcomeInv'
  BY DEF OutcomeInv, TypeOK, LifeInv, TornInv, RevokedInv
<1> QED BY <1>1, <1>2, <1>3, <1>4, <1>5, <1>6, <1>7, <1>8, <1>9

LEMMA ReadOutputPreserves == ASSUME IInv, ReadOutput PROVE IInv'
<1>0. FlagsOK
  BY DEF IInv, TypeOK
<1> USE DEF IInv, vars, userVars, clockVars, childVars, simVars, ctlVars, dataVars,
  ReadOutput, ReadLine, ReadEof, HandleLine, Goto, Leave, Passes
<1>1. FlagsOK'
  BY <1>0, Zenon DEF FlagsOK
<1>2. TypeOK'
  <2>1. CASE ReadLine
    BY <1>1, <2>1, ReadTakesFetch DEF TypeOK, ClockInv, OneUnanswered, Lines
  <2>2. CASE ReadEof
    BY <1>1, <2>2 DEF TypeOK, ClockInv
  <2>3. CASE HandleLine
    BY <1>1, <2>3 DEF TypeOK, ClockInv, Lines
  <2> QED BY <2>1, <2>2, <2>3
<1>3. ClockInv'
  BY DEF ClockInv, TypeOK
<1>4. LifeInv'
  BY DEF LifeInv, TypeOK
<1>5. TornInv'
  BY DEF TornInv, TypeOK, LifeInv
<1>6. OneUnanswered'
  <2>1. CASE ReadLine
    <3>1. ~FetchInHand
      BY <2>1 DEF FetchInHand
    <3>2. OneFetchInPipe' /\ (FetchInPipe' => FetchInPipe)
      BY <2>1, ReadTakesFetch DEF TypeOK, OneUnanswered
    <3>3. FetchInHand' => FetchInPipe /\ ~FetchInPipe'
      BY <2>1, ReadTakesFetch DEF TypeOK, OneUnanswered, FetchInHand
    <3> QED BY <2>1, <3>1, <3>2, <3>3 DEF OneUnanswered
  <2>2. CASE ReadEof
    BY <2>2 DEF OneUnanswered, OneFetchInPipe, FetchInHand, FetchInPipe
  <2>3. CASE HandleLine
    BY <2>3 DEF OneUnanswered, OneFetchInPipe, FetchInHand, FetchInPipe
  <2> QED BY <2>1, <2>2, <2>3
<1>7. RevokedInv'
  BY DEF RevokedInv, LifeInv, TornInv, OneUnanswered, FetchInHand
<1>8. BudgetInv'
  BY DEF BudgetInv, InFlight, TypeOK, LifeInv, OneUnanswered, FetchInHand, RevokedInv
<1>9. OutcomeInv'
  BY DEF OutcomeInv, TypeOK, LifeInv, TornInv, RevokedInv
<1> QED BY <1>1, <1>2, <1>3, <1>4, <1>5, <1>6, <1>7, <1>8, <1>9

LEMMA AskPermissionFlags == ASSUME FlagsOK, AskPermission PROVE FlagsOK'
<1>1. /\ UNCHANGED <<simulation, visible, stopped, timedOut, done>>
      /\ cancelled' \in {cancelled, TRUE, FALSE} /\ checked' = FALSE /\ holding' \in {holding, FALSE}
  BY DEF userVars, simVars, dataVars, AskPermission, BlockAtFetch, PassFetch, WakeAtFetch,
     ConfirmFetch, WriteGo, Goto, Leave, ResumeClock, Admit
<1>. QED  BY <1>1, Zenon DEF FlagsOK

LEMMA AskPermissionPreserves == ASSUME IInv, AskPermission PROVE IInv'
<1>1. FlagsOK'
  BY AskPermissionFlags DEF IInv, TypeOK
<1> USE DEF IInv, vars, userVars, clockVars, childVars, simVars, ctlVars, dataVars,
  AskPermission, BlockAtFetch, PassFetch, WakeAtFetch, ConfirmFetch, WriteGo, Goto, Leave, Passes, MustWait, ResumeClock, Admit, Woken
<1>2. TypeOK'
  BY <1>1 DEF TypeOK, ClockInv
<1>3. ClockInv'
  BY DEF ClockInv, TypeOK
<1>4. LifeInv'
  BY DEF LifeInv, TypeOK
<1>5. TornInv'
  <2>1. CASE PassFetch \/ WakeAtFetch
    <3>1. cancelled => cancelled'
      BY <2>1, Zenon
    <3> QED BY <2>1, <3>1 DEF TornInv
  <2>2. CASE BlockAtFetch \/ ConfirmFetch \/ WriteGo
    BY <2>2 DEF TornInv, LifeInv
  <2> QED BY <2>1, <2>2
<1>6. OneUnanswered'
  BY DEF OneUnanswered, OneFetchInPipe, FetchInHand, FetchInPipe, TypeOK, LifeInv
<1>7. RevokedInv'
  <2>1. CASE BlockAtFetch
    BY <2>1 DEF RevokedInv
  <2>2. CASE PassFetch
    BY <2>2 DEF RevokedInv, OneUnanswered, FetchInHand
  <2>3. CASE WakeAtFetch
    BY <2>3 DEF RevokedInv, OneUnanswered, FetchInHand
  <2>4. CASE ConfirmFetch
    BY <2>4 DEF RevokedInv
  <2>5. CASE WriteGo
    BY <2>5 DEF RevokedInv, LifeInv, OneUnanswered, FetchInHand
  <2> QED BY <2>1, <2>2, <2>3, <2>4, <2>5
<1>8. BudgetInv'
  BY DEF BudgetInv, InFlight, TypeOK, LifeInv, OneUnanswered, FetchInHand, RevokedInv
<1>9. OutcomeInv'
  BY DEF OutcomeInv, TypeOK, LifeInv, TornInv, RevokedInv
<1> QED BY <1>1, <1>2, <1>3, <1>4, <1>5, <1>6, <1>7, <1>8, <1>9

LEMMA EndRunFlags == ASSUME FlagsOK, EndRun PROVE FlagsOK'
<1>1. /\ UNCHANGED <<cancelled, simulation, visible, timedOut>>
      /\ stopped' \in {stopped, TRUE} /\ done' \in {done, TRUE}
      /\ checked' \in {checked, FALSE} /\ holding' \in {holding, FALSE}
  BY DEF userVars, simVars, dataVars, EndRun, CloseStdin, Reap, Close, Conclude, PublishDone,
     Goto, Leave, Stop
<1>. QED  BY <1>1, Zenon DEF FlagsOK

LEMMA EndRunPreserves == ASSUME IInv, EndRun PROVE IInv'
<1>1. FlagsOK'
  BY EndRunFlags DEF IInv, TypeOK
<1> USE DEF IInv, vars, userVars, clockVars, childVars, simVars, ctlVars, dataVars,
  EndRun, CloseStdin, Reap, Close, Conclude, PublishDone, Goto, Leave, Passes, Stop, KillChild, Woken, Verdict
<1>2. TypeOK'
  <2>1. CASE Close
    <3>1. out' \in Seq(Lines) /\ proc' \in {proc, "killed"}
      BY <2>1, KillKeepsFetches DEF TypeOK, OneUnanswered
    <3> QED BY <1>1, <2>1, <3>1 DEF TypeOK
  <2>2. CASE CloseStdin \/ Reap \/ Conclude \/ PublishDone
    BY <1>1, <2>2 DEF TypeOK
  <2> QED BY <2>1, <2>2
<1>3. ClockInv'
  BY DEF ClockInv, TypeOK
<1>4. LifeInv'
  BY DEF LifeInv, TypeOK
<1>5. TornInv'
  BY DEF TornInv, TypeOK, LifeInv
<1>6. OneUnanswered'
  <2>1. CASE Close
    <3>1. /\ OneFetchInPipe' /\ (FetchInPipe' => FetchInPipe)
          /\ proc' \in {proc, "killed"}
      BY <2>1, KillKeepsFetches DEF TypeOK, OneUnanswered
    <3> QED BY <2>1, <3>1 DEF OneUnanswered, FetchInHand
  <2>2. CASE CloseStdin \/ Reap \/ Conclude \/ PublishDone
    BY <2>2 DEF OneUnanswered, OneFetchInPipe, FetchInHand, FetchInPipe
  <2> QED BY <2>1, <2>2
<1>7. RevokedInv'
  BY DEF RevokedInv, LifeInv, TornInv, OneUnanswered, FetchInHand
<1>8. BudgetInv'
  BY DEF BudgetInv, InFlight, TypeOK, LifeInv, OneUnanswered, FetchInHand, RevokedInv
<1>9. OutcomeInv'
  BY DEF OutcomeInv, TypeOK, LifeInv, TornInv, RevokedInv
<1> QED BY <1>1, <1>2, <1>3, <1>4, <1>5, <1>6, <1>7, <1>8, <1>9

LEMMA ControlPreserves == ASSUME IInv, Control PROVE IInv'
<1>0. FlagsOK
  BY DEF IInv, TypeOK
<1> USE DEF IInv, vars, userVars, clockVars, childVars, simVars, ctlVars, dataVars,
  Control, ControlRun, ControlPause, ControlStep, ControlStop, Command, Stop, KillChild, Woken
<1>1. FlagsOK'
  BY <1>0, Zenon DEF FlagsOK
<1>2. TypeOK'
  <2>1. CASE ControlStop
    <3>1. out' \in Seq(Lines) /\ proc' \in {proc, "killed"}
      BY <2>1, KillKeepsFetches DEF TypeOK, OneUnanswered
    <3> QED BY <1>1, <2>1, <3>1 DEF TypeOK
  <2>2. CASE ControlRun \/ ControlPause \/ ControlStep
    BY <1>1, <2>2 DEF TypeOK
  <2> QED BY <2>1, <2>2
<1>3. ClockInv'
  BY DEF ClockInv, TypeOK
<1>4. LifeInv'
  BY DEF LifeInv, TypeOK
<1>5. TornInv'
  BY DEF TornInv, TypeOK, LifeInv
<1>6. OneUnanswered'
  <2>1. CASE ControlStop
    <3>1. /\ OneFetchInPipe' /\ (FetchInPipe' => FetchInPipe)
          /\ proc' \in {proc, "killed"}
      BY <2>1, KillKeepsFetches DEF TypeOK, OneUnanswered, OneFetchInPipe, FetchInPipe
    <3> QED BY <2>1, <3>1 DEF OneUnanswered, FetchInHand
  <2>2. CASE ControlRun \/ ControlPause \/ ControlStep
    BY <2>2 DEF OneUnanswered, OneFetchInPipe, FetchInHand, FetchInPipe
  <2> QED BY <2>1, <2>2
<1>7. RevokedInv'
  BY DEF RevokedInv, LifeInv, TornInv, OneUnanswered, FetchInHand
<1>8. BudgetInv'
  <2>1. CASE ControlStop
    BY <2>1 DEF BudgetInv, InFlight, TypeOK
  <2>2. CASE ControlRun \/ ControlPause
    BY <2>2 DEF BudgetInv, InFlight, TypeOK
  <2>3. CASE ControlStep
    BY <2>3 DEF BudgetInv, InFlight, TypeOK
  <2> QED BY <2>1, <2>2, <2>3
<1>9. OutcomeInv'
  BY DEF OutcomeInv, TypeOK, LifeInv, TornInv, RevokedInv
<1> QED BY <1>1, <1>2, <1>3, <1>4, <1>5, <1>6, <1>7, <1>8, <1>9

LEMMA WatchdogPreserves == ASSUME IInv, Watchdog PROVE IInv'
<1>0. FlagsOK
  BY DEF IInv, TypeOK
<1> USE DEF IInv, vars, userVars, clockVars, childVars, simVars, ctlVars, dataVars,
  Watchdog, WatchdogExpires, WatchdogWaits, WatchdogWakes, Stop, KillChild, Elapsed
<1>1. FlagsOK'
  BY <1>0, Zenon DEF FlagsOK
<1>2. TypeOK'
  <2>1. CASE WatchdogExpires
    <3>1. out' \in Seq(Lines) /\ proc' \in {proc, "killed"}
      BY <2>1, KillKeepsFetches DEF TypeOK, OneUnanswered
    <3> QED BY <1>1, <2>1, <3>1 DEF TypeOK
  <2>2. CASE WatchdogWaits \/ WatchdogWakes
    BY <1>1, <2>2 DEF TypeOK
  <2> QED BY <2>1, <2>2
<1>3. ClockInv'
  BY DEF ClockInv, TypeOK
<1>4. LifeInv'
  BY DEF LifeInv, TypeOK
<1>5. TornInv'
  BY DEF TornInv, TypeOK, LifeInv
<1>6. OneUnanswered'
  <2>1. CASE WatchdogExpires
    <3>1. /\ OneFetchInPipe' /\ (FetchInPipe' => FetchInPipe)
          /\ proc' \in {proc, "killed"}
      BY <2>1, KillKeepsFetches DEF TypeOK, OneUnanswered
    <3> QED BY <2>1, <3>1 DEF OneUnanswered, FetchInHand
  <2>2. CASE WatchdogWaits \/ WatchdogWakes
    BY <2>2 DEF OneUnanswered, OneFetchInPipe, FetchInHand, FetchInPipe
  <2> QED BY <2>1, <2>2
<1>7. RevokedInv'
  BY DEF RevokedInv, LifeInv, TornInv, OneUnanswered, FetchInHand
<1>8. BudgetInv'
  BY DEF BudgetInv, InFlight, TypeOK, LifeInv, OneUnanswered, FetchInHand, RevokedInv
<1>9. OutcomeInv'
  BY DEF OutcomeInv, TypeOK, LifeInv, TornInv, RevokedInv
<1> QED BY <1>1, <1>2, <1>3, <1>4, <1>5, <1>6, <1>7, <1>8, <1>9

LEMMA RemoteRepliesPreserves == ASSUME IInv, RemoteReplies PROVE IInv'
<1>0. FlagsOK
  BY DEF IInv, TypeOK
<1> USE DEF IInv, vars, userVars, clockVars, childVars, simVars, ctlVars, dataVars,
  RemoteReplies
<1>1. FlagsOK'
  BY <1>0, Zenon DEF FlagsOK
<1>2. TypeOK'
  BY <1>1 DEF TypeOK, ClockInv
<1>3. ClockInv'
  BY DEF ClockInv, TypeOK
<1>4. LifeInv'
  BY DEF LifeInv, TypeOK
<1>5. TornInv'
  BY DEF TornInv, TypeOK, LifeInv
<1>6. OneUnanswered'
  BY DEF OneUnanswered, OneFetchInPipe, FetchInHand, FetchInPipe, TypeOK, LifeInv
<1>7. RevokedInv'
  BY DEF RevokedInv, LifeInv, TornInv, OneUnanswered, FetchInHand
<1>8. BudgetInv'
  BY DEF BudgetInv, InFlight, TypeOK, LifeInv, OneUnanswered, FetchInHand, RevokedInv
<1>9. OutcomeInv'
  BY DEF OutcomeInv, TypeOK, LifeInv, TornInv, RevokedInv
<1> QED BY <1>1, <1>2, <1>3, <1>4, <1>5, <1>6, <1>7, <1>8, <1>9

LEMMA TickPreserves == ASSUME IInv, Tick PROVE IInv'
<1>0. FlagsOK
  BY DEF IInv, TypeOK
<1> USE DEF IInv, vars, userVars, clockVars, childVars, simVars, ctlVars, dataVars,
  Tick
<1>1. FlagsOK'
  BY <1>0, Zenon DEF FlagsOK
<1>2. TypeOK'
  BY <1>1 DEF TypeOK, ClockInv
<1>3. ClockInv'
  BY DEF ClockInv, TypeOK
<1>4. LifeInv'
  BY DEF LifeInv, TypeOK
<1>5. TornInv'
  BY DEF TornInv, TypeOK, LifeInv
<1>6. OneUnanswered'
  BY DEF OneUnanswered, OneFetchInPipe, FetchInHand, FetchInPipe, TypeOK, LifeInv
<1>7. RevokedInv'
  BY DEF RevokedInv, LifeInv, TornInv, OneUnanswered, FetchInHand
<1>8. BudgetInv'
  BY DEF BudgetInv, InFlight, TypeOK, LifeInv, OneUnanswered, FetchInHand, RevokedInv
<1>9. OutcomeInv'
  BY DEF OutcomeInv, TypeOK, LifeInv, TornInv, RevokedInv
<1> QED BY <1>1, <1>2, <1>3, <1>4, <1>5, <1>6, <1>7, <1>8, <1>9

LEMMA ChildPreserves == ASSUME IInv, Child PROVE IInv'
<1>0. FlagsOK
  BY DEF IInv, TypeOK
<1> USE DEF IInv, vars, userVars, clockVars, childVars, simVars, ctlVars, dataVars,
  Child, ChildFetches, ChildGetsGo, ChildGetsEof, ChildOutputs, ChildHalts, ChildFails
<1>1. FlagsOK'
  BY <1>0, Zenon DEF FlagsOK
<1>2. TypeOK'
  <2>1. CASE ChildFetches \/ ChildOutputs \/ ChildHalts
    <3>1. out' \in Seq(Lines)
      BY <2>1, AppendLine DEF TypeOK, Lines
    <3> QED BY <1>1, <2>1, <3>1 DEF TypeOK
  <2>2. CASE ChildGetsGo \/ ChildGetsEof \/ ChildFails
    BY <1>1, <2>2 DEF TypeOK
  <2> QED BY <2>1, <2>2
<1>3. ClockInv'
  BY DEF ClockInv, TypeOK
<1>4. LifeInv'
  BY DEF LifeInv, TypeOK
<1>5. TornInv'
  BY DEF TornInv, TypeOK, LifeInv
<1>6. OneUnanswered'
  <2>1. CASE ChildFetches
    <3>1. ~FetchInHand /\ ~FetchInPipe
      BY <2>1 DEF OneUnanswered
    <3>2. OneFetchInPipe'
      BY <2>1, <3>1, WriteAddsFetch DEF TypeOK, OneUnanswered, Lines
    <3>3. ~FetchInHand' /\ stdin' # "go"
      BY <2>1, <3>1 DEF FetchInHand, RevokedInv
    <3> QED BY <2>1, <3>2, <3>3 DEF OneUnanswered
  <2>2. CASE ChildOutputs \/ ChildHalts
    <3>1. ~FetchInHand /\ ~FetchInPipe
      BY <2>2 DEF OneUnanswered
    <3>2. OneFetchInPipe' /\ ~FetchInPipe'
      BY <2>2, <3>1, WriteAddsFetch DEF TypeOK, OneUnanswered, Lines
    <3> QED BY <2>2, <3>1, <3>2 DEF OneUnanswered, FetchInHand
  <2>3. CASE ChildGetsGo \/ ChildGetsEof \/ ChildFails
    BY <2>3 DEF OneUnanswered, OneFetchInPipe, FetchInHand, FetchInPipe
  <2> QED BY <2>1, <2>2, <2>3
<1>7. RevokedInv'
  BY DEF RevokedInv, LifeInv, TornInv, OneUnanswered, FetchInHand
<1>8. BudgetInv'
  <2>1. CASE ChildFetches
    BY <2>1 DEF BudgetInv, InFlight, TypeOK, RevokedInv
  <2>2. CASE ChildGetsGo
    BY <2>2 DEF BudgetInv, InFlight, TypeOK, OneUnanswered, FetchInHand
  <2>3. CASE ChildGetsEof \/ ChildOutputs \/ ChildHalts \/ ChildFails
    BY <2>3 DEF BudgetInv, InFlight, TypeOK
  <2> QED BY <2>1, <2>2, <2>3
<1>9. OutcomeInv'
  BY DEF OutcomeInv, TypeOK, LifeInv, TornInv, RevokedInv
<1> QED BY <1>1, <1>2, <1>3, <1>4, <1>5, <1>6, <1>7, <1>8, <1>9

-----------------------------------------------------------------------------
(* The theorems *)

LEMMA Initially == Init => IInv
<1> SUFFICES ASSUME Init PROVE IInv
  OBVIOUS
<1> USE DEF Init
<1>1. FlagsOK
  BY DEF FlagsOK
<1>2. TypeOK
  BY <1>1 DEF TypeOK
<1>3. ClockInv /\ LifeInv /\ TornInv /\ RevokedInv /\ OutcomeInv
  BY DEF ClockInv, LifeInv, TornInv, RevokedInv, OutcomeInv
<1>4. OneUnanswered
  BY DEF OneUnanswered, OneFetchInPipe, FetchInHand, FetchInPipe
<1>5. BudgetInv
  BY DEF BudgetInv, InFlight
<1> QED BY <1>2, <1>3, <1>4, <1>5 DEF IInv

LEMMA Stuttering == ASSUME IInv, UNCHANGED vars PROVE IInv'
<1> USE DEF vars, userVars, clockVars, childVars, simVars, ctlVars, dataVars
<1>1. TypeOK'
  BY DEF IInv, TypeOK, FlagsOK
<1>2. ClockInv' /\ LifeInv' /\ TornInv' /\ RevokedInv' /\ OutcomeInv'
  BY DEF IInv, ClockInv, LifeInv, TornInv, RevokedInv, OutcomeInv
<1>3. OneUnanswered'
  BY DEF IInv, OneUnanswered, OneFetchInPipe, FetchInHand, FetchInPipe
<1>4. BudgetInv'
  BY DEF IInv, BudgetInv, InFlight
<1> QED BY <1>1, <1>2, <1>3, <1>4 DEF IInv

\* The inductive invariant holds in every reachable state of Run.work,
\* Run.control, Simulation.watchdog and serv_sim.
THEOREM Invariance == Spec => []IInv
<1>1. Init => IInv
  BY Initially
<1>2. IInv /\ [Next]_vars => IInv'
  <2> SUFFICES ASSUME IInv, [Next]_vars PROVE IInv'
    OBVIOUS
  <2>1. CASE Worker
    BY <2>1, PreparePreserves, CheckPreserves, LookupTablesPreserves,
       LaunchPreserves, ReadOutputPreserves, AskPermissionPreserves,
       EndRunPreserves DEF Worker
  <2>2. CASE Control
    BY <2>2, ControlPreserves
  <2>3. CASE Watchdog
    BY <2>3, WatchdogPreserves
  <2>4. CASE RemoteReplies
    BY <2>4, RemoteRepliesPreserves
  <2>5. CASE Tick
    BY <2>5, TickPreserves
  <2>6. CASE Child
    BY <2>6, ChildPreserves
  <2>7. CASE Terminated \/ UNCHANGED vars
    BY <2>7, Stuttering DEF Terminated
  <2> QED BY <2>1, <2>2, <2>3, <2>4, <2>5, <2>6, <2>7 DEF Next
<1> QED BY <1>1, <1>2, PTL DEF Spec

\* Every variable of the run keeps its type; in particular Run.credits never
\* goes below zero and the clock of Simulation never runs backwards past zero.
THEOREM TypeCorrect == Spec => []TypeOK
<1>1. IInv => TypeOK
  BY DEF IInv
<1> QED BY <1>1, Invariance, PTL

\* app.py wait_for_permission and engine.py elapsed: while the clock of the
\* run stands still, so do the worker and the CPU.
THEOREM PauseIsIdle == Spec => []FreeTimeIsIdle
<1>1. IInv => FreeTimeIsIdle
  BY DEF IInv, ClockInv, OneUnanswered, FetchInHand, FreeTimeIsIdle
<1> QED BY <1>1, Invariance, PTL

\* engine.py Simulation.run: check() keeps incomplete lines from json.loads.
THEOREM NoTornLine == Spec => []TornNeverParsed
<1>1. IInv => TornNeverParsed
  BY DEF IInv, TornInv, TornNeverParsed
<1> QED BY <1>1, Invariance, PTL

\* engine.py and app.py, the finally clauses: a finished run leaves no process
\* behind and does not keep the classifier lock.
THEOREM RunCleansUp == Spec => []ChildReaped
<1>1. IInv => ChildReaped
  BY DEF IInv, LifeInv, ChildReaped
<1> QED BY <1>1, Invariance, PTL

\* app.py control and wait_for_permission: whatever the order of Run, Pause
\* and Step, a metered run is at most one instruction ahead of what was paid.
THEOREM StepsArePaid == Spec => []StepBudget
<1>1. IInv => StepBudget
  <2> SUFFICES ASSUME IInv, mode # "run" PROVE executed <= allowed + 1
    BY DEF StepBudget
  <2>1. InFlight \in {0, 1}
    BY DEF InFlight
  <2>2. executed + credits + InFlight <= allowed + 1
    BY DEF IInv, BudgetInv
  <2> QED BY <2>1, <2>2 DEF IInv, TypeOK
<1> QED BY <1>1, Invariance, PTL

\* engine.py elapsed and pause: a pause is never charged, and charged time is
\* never lost.
THEOREM ClockIsHonest == Spec => ClockCharges
<1>1. IInv /\ [Next]_vars =>
        [\/ Elapsed' = Elapsed
         \/ /\ Elapsed' = Elapsed + 1
            /\ pauseAge = Unpaused /\ pauseAge' = Unpaused]_vars
  <2> SUFFICES ASSUME IInv, [Next]_vars
               PROVE  \/ Elapsed' = Elapsed
                      \/ /\ Elapsed' = Elapsed + 1
                         /\ pauseAge = Unpaused /\ pauseAge' = Unpaused
    OBVIOUS
  <2>1. CASE UNCHANGED clockVars
    BY <2>1 DEF clockVars, Elapsed
  <2>2. CASE BlockAtFetch
    BY <2>2 DEF BlockAtFetch, Elapsed, IInv, TypeOK, ClockInv
  <2>3. CASE WakeAtFetch
    BY <2>3 DEF WakeAtFetch, ResumeClock, Elapsed, IInv, TypeOK, ClockInv
  <2>4. CASE Tick
    BY <2>4 DEF Tick, Elapsed, IInv, TypeOK, ClockInv
  <2>5. Next => UNCHANGED clockVars \/ BlockAtFetch \/ WakeAtFetch \/ Tick
    BY DEF Next, Worker, Prepare, AcquireCompiler, Compile, ReadCancelled,
       CreateSimulation, Check, CheckDeadline, CheckStopped, LookupTables,
       AcquireClassifier, RetryClassifier, ReadCache, PollReply, TakeReply,
       UseReply, ReturnTables, Launch, WriteTables, Spawn, AssignProcess,
       ReadOutput, ReadLine, ReadEof, HandleLine, AskPermission, PassFetch,
       ConfirmFetch, WriteGo, EndRun, CloseStdin, Reap, Close, Conclude,
       PublishDone, Control, ControlRun, ControlPause, ControlStep, ControlStop,
       Watchdog, WatchdogExpires, WatchdogWaits, WatchdogWakes, RemoteReplies,
       Child, Terminated, vars
  <2> QED BY <2>1, <2>2, <2>3, <2>4, <2>5 DEF vars
<1> QED BY <1>1, Invariance, PTL DEF Spec, ClockCharges

-----------------------------------------------------------------------------
(* Nobody waits for somebody who waits too *)

\* Where the watchdog waits.  It waits without a timeout only in a pause, with
\* one only while the clock runs, and never after Stop; it ends with Stop only.
WatchdogArmed ==
    /\ wd = "off" => ~simulation
    /\ wd = "gone" => stopped
    /\ wd = "block" => pauseAge # Unpaused /\ ~stopped
    /\ wd = "sleep" => pauseAge = Unpaused /\ ~stopped

LiveInv == NoFetchLost /\ WatchdogArmed

\* A line that is not the fetch leaves the fetch in the pipe.
LEMMA ReadKeepsFetch ==
    ASSUME out \in Seq(Lines), FetchInPipe, out # <<>>, Head(out) # "fetch", out' = Tail(out)
    PROVE  FetchInPipe'
<1>1. PICK i \in DOMAIN out : out[i] = "fetch"
  BY DEF FetchInPipe
<1>2. i # 1
  BY <1>1
<1>3. i - 1 \in DOMAIN Tail(out) /\ Tail(out)[i - 1] = out[i]
  BY <1>2
<1> QED BY <1>1, <1>3 DEF FetchInPipe

LEMMA LiveInitially == Init => LiveInv
BY DEF Init, LiveInv, NoFetchLost, WatchdogArmed

LEMMA WorkerKeepsFetch == ASSUME IInv, NoFetchLost, Worker PROVE NoFetchLost'
<1> USE DEF vars, userVars, clockVars, childVars, simVars, ctlVars, dataVars, Goto, Leave, Passes
<1>1. TypeOK /\ LifeInv /\ RevokedInv /\ OneUnanswered
  BY DEF IInv
<1>2. CASE Prepare \/ Launch
  BY <1>1, <1>2 DEF Prepare, AcquireCompiler, Compile, ReadCancelled, CreateSimulation,
     Launch, WriteTables, Spawn, AssignProcess, NoFetchLost, LifeInv,
     FetchInHand, FetchInPipe, LoopLeft
<1>3. CASE Check
  BY <1>1, <1>3 DEF Check, CheckDeadline, CheckStopped, NoFetchLost, LifeInv,
     FetchInHand, FetchInPipe, LoopLeft
<1>4. CASE LookupTables
  BY <1>1, <1>4 DEF LookupTables, AcquireClassifier, RetryClassifier, ReadCache, PollReply,
     TakeReply, UseReply, ReturnTables, NoFetchLost, LifeInv,
     FetchInHand, FetchInPipe, LoopLeft
<1>5. CASE ReadLine
  <2> SUFFICES ASSUME proc = "wait", stdin # "go", ~LoopLeft
               PROVE  FetchInHand' \/ FetchInPipe'
    BY <1>5 DEF ReadLine, NoFetchLost, LoopLeft
  <2>1. FetchInPipe
    BY <1>5 DEF ReadLine, NoFetchLost, FetchInHand
  <2>2. CASE Head(out) = "fetch"
    BY <1>5, <2>2 DEF ReadLine, FetchInHand
  <2>3. CASE Head(out) # "fetch"
    BY <1>1, <1>5, <2>1, <2>3, ReadKeepsFetch DEF ReadLine, TypeOK
  <2> QED BY <2>2, <2>3
<1>6. CASE ReadEof \/ HandleLine
  BY <1>1, <1>6 DEF ReadEof, HandleLine, NoFetchLost, FetchInHand, FetchInPipe, LoopLeft
<1>7. CASE AskPermission
  BY <1>1, <1>7 DEF AskPermission, BlockAtFetch, PassFetch, WakeAtFetch, ConfirmFetch,
     WriteGo, Admit, NoFetchLost, FetchInHand, FetchInPipe, LoopLeft
<1>8. CASE CloseStdin \/ Reap \/ Conclude \/ PublishDone
  BY <1>1, <1>8 DEF CloseStdin, Reap, Conclude, PublishDone, NoFetchLost, LifeInv,
     FetchInHand, FetchInPipe, LoopLeft
<1>9. CASE Close
  <2>1. proc' # "wait"
    BY <1>1, <1>9 DEF Close, Stop, KillChild, LifeInv
  <2> QED BY <2>1 DEF NoFetchLost
<1> QED BY <1>2, <1>3, <1>4, <1>5, <1>6, <1>7, <1>8, <1>9 DEF Worker, ReadOutput, EndRun

LEMMA OthersKeepFetch ==
    ASSUME IInv, NoFetchLost, Control \/ Watchdog \/ RemoteReplies \/ Tick \/ UNCHANGED vars
    PROVE  NoFetchLost'
<1> USE DEF vars, userVars, clockVars, childVars, simVars, ctlVars, dataVars
<1>1. wpc' = wpc /\ line' = line /\ stdin' = stdin
  BY DEF Control, ControlRun, ControlPause, ControlStep, ControlStop, Watchdog,
     WatchdogExpires, WatchdogWaits, WatchdogWakes, RemoteReplies, Tick
<1>2. UNCHANGED <<proc, out>> \/ KillChild
  BY DEF Control, ControlRun, ControlPause, ControlStep, ControlStop, Watchdog,
     WatchdogExpires, WatchdogWaits, WatchdogWakes, RemoteReplies, Tick, Stop
<1>3. proc' # "wait" \/ (proc' = proc /\ out' = out)
  BY <1>2 DEF KillChild
<1> QED BY <1>1, <1>3 DEF NoFetchLost, FetchInHand, FetchInPipe, LoopLeft

LEMMA ChildKeepsFetch == ASSUME IInv, NoFetchLost, Child PROVE NoFetchLost'
<1> USE DEF vars, userVars, clockVars, childVars, simVars, ctlVars, dataVars
<1>1. CASE ChildFetches
  <2>1. out \in Seq(Lines) /\ "fetch" \in Lines
    BY DEF IInv, TypeOK, Lines
  <2>2. FetchInPipe'
    BY <1>1, <2>1, AppendLine DEF ChildFetches, FetchInPipe
  <2> QED BY <2>2 DEF NoFetchLost
<1>2. CASE ChildGetsGo \/ ChildGetsEof \/ ChildOutputs \/ ChildHalts \/ ChildFails
  BY <1>2 DEF ChildGetsGo, ChildGetsEof, ChildOutputs, ChildHalts, ChildFails, NoFetchLost
<1> QED BY <1>1, <1>2 DEF Child

LEMMA WatchdogStaysArmed == ASSUME IInv, WatchdogArmed, [Next]_vars PROVE WatchdogArmed'
<1> USE DEF vars, userVars, clockVars, childVars, simVars, ctlVars, dataVars, Woken
<1>1. TypeOK /\ ClockInv /\ LifeInv
  BY DEF IInv
<1>2. CASE UNCHANGED <<wd, stopped, simulation>> /\ (pauseAge' = Unpaused <=> pauseAge = Unpaused)
  BY <1>2 DEF WatchdogArmed
<1>3. CASE CreateSimulation
  BY <1>3 DEF CreateSimulation, WatchdogArmed
<1>4. CASE BlockAtFetch \/ WakeAtFetch
  BY <1>1, <1>4 DEF BlockAtFetch, WakeAtFetch, ResumeClock, WatchdogArmed, TypeOK, ClockInv
<1>5. CASE Close \/ ControlStop
  BY <1>1, <1>5 DEF Close, ControlStop, Stop, WatchdogArmed, TypeOK, LifeInv
<1>6. CASE Watchdog
  BY <1>1, <1>6 DEF Watchdog, WatchdogExpires, WatchdogWaits, WatchdogWakes, Stop,
     WatchdogArmed, TypeOK
<1>7. CASE Tick
  BY <1>1, <1>7 DEF Tick, WatchdogArmed, TypeOK
<1>8. Next => \/ UNCHANGED <<wd, stopped, simulation, pauseAge>>
              \/ CreateSimulation \/ BlockAtFetch \/ WakeAtFetch \/ Close \/ ControlStop
              \/ Watchdog \/ Tick
  BY DEF Next, Worker, Prepare, AcquireCompiler, Compile, ReadCancelled,
     Check, CheckDeadline, CheckStopped, LookupTables,
     AcquireClassifier, RetryClassifier, ReadCache, PollReply, TakeReply,
     UseReply, ReturnTables, Launch, WriteTables, Spawn, AssignProcess,
     ReadOutput, ReadLine, ReadEof, HandleLine, AskPermission, PassFetch,
     ConfirmFetch, WriteGo, EndRun, CloseStdin, Reap, Conclude,
     PublishDone, Control, ControlRun, ControlPause, ControlStep,
     RemoteReplies, Child, Terminated
<1> QED BY <1>2, <1>3, <1>4, <1>5, <1>6, <1>7, <1>8

LEMMA LiveInvariance == Spec => []LiveInv
<1>1. IInv /\ LiveInv /\ [Next]_vars => LiveInv'
  <2> SUFFICES ASSUME IInv, LiveInv, [Next]_vars PROVE LiveInv'
    OBVIOUS
  <2>1. NoFetchLost'
    BY WorkerKeepsFetch, OthersKeepFetch, ChildKeepsFetch DEF LiveInv, Next, Terminated
  <2>2. WatchdogArmed'
    BY WatchdogStaysArmed DEF LiveInv
  <2> QED BY <2>1, <2>2 DEF LiveInv
<1> QED BY <1>1, LiveInitially, Invariance, PTL DEF Spec

\* engine.py 181-190 and sim.cpp 173-181: server and CPU stay in lockstep, and
\* never wait for each other.
THEOREM PipesInLockstep == Spec => []Lockstep
<1>1. IInv /\ LiveInv => Lockstep
  BY DEF IInv, LiveInv, Lockstep
<1> QED BY <1>1, Invariance, LiveInvariance, PTL

\* Simulation.watchdog: as long as a simulation that exists has not been
\* stopped, something that ends it is under way.  Its watchdog is about to
\* look at the clock, or sleeps until the clock has run up to the deadline, or
\* the worker is in a pause, which has a limit; no wake-up of Simulation.pause
\* or Simulation.stop gets lost.
DeadlineComes ==
    simulation /\ ~stopped =>
        \/ wd = "look"
        \/ wd = "sleep" /\ pauseAge = Unpaused
        \/ wd = "block" /\ wpc = "blocked"

THEOREM WatchdogWatches == Spec => [](WatchdogArmed /\ DeadlineComes)
<1>1. IInv /\ LiveInv => WatchdogArmed /\ DeadlineComes
  BY DEF IInv, LiveInv, WatchdogArmed, DeadlineComes, TypeOK, ClockInv
<1> QED BY <1>1, Invariance, LiveInvariance, PTL

\* What the worker waits for, if it waits: a line of the child, a command in a
\* pause that may still last.  Everywhere else it can take a step.
Waits ==
    \/ wpc = "read" /\ out = <<>> /\ proc \in Alive
    \/ wpc = "blocked" /\ MustWait /\ pauseAge <= PauseLimit

\* Run.work, Simulation.run and serv_sim: a worker that waits for a line waits
\* for a CPU that computes or has its "go"; a worker that waits for a command
\* is in a pause that time ends.
WaitsForOthers ==
    Waits => \/ proc \in {"run", "exec"} \/ (proc = "wait" /\ stdin = "go")
             \/ pauseAge # Unpaused

THEOREM NoDeadlock == Spec => []WaitsForOthers
<1>1. IInv /\ LiveInv => WaitsForOthers
  BY DEF IInv, ClockInv, LiveInv, NoFetchLost, LoopLeft, FetchInHand, FetchInPipe,
     WaitsForOthers, Waits
<1> QED BY <1>1, Invariance, LiveInvariance, PTL

-----------------------------------------------------------------------------
(* Stop *)

\* How far it is from a line of the worker to its end, in lines of the program.
\* The loops of the program are left out: a stopped run never takes one again.
Distance(p) ==
    CASE p = "queued"   -> 23
      [] p = "compile"  -> 22
      [] p = "ready"    -> 21
      [] p = "create"   -> 20
      [] p = "lock"     -> 19
      [] p = "cache"    -> 18
      [] p = "classify" -> 17
      [] p = "reply"    -> 16
      [] p = "tables"   -> 15
      [] p = "spawn"    -> 14
      [] p = "popen"    -> 13
      [] p = "assign"   -> 12
      [] p = "perm"     -> 11
      [] p = "blocked"  -> 10
      [] p = "granted"  -> 9
      [] p = "go"       -> 8
      [] p = "read"     -> 7
      [] p = "line"     -> 6
      [] p = "eof"      -> 5
      [] p = "reap"     -> 4
      [] p = "close"    -> 3
      [] p = "final"    -> 2
      [] p = "finish"   -> 1
      [] OTHER          -> 0

\* Simulation.check is one line and two steps.
StepsLeft == 2 * Distance(wpc) - (IF checked THEN 1 ELSE 0)

\* Once Simulation.stop was called the worker has at most 38 steps to its end.
FewSteps == stopped => StepsLeft \in 0 .. 38 /\ (StepsLeft = 0 <=> wpc = "ended")

\* Each of its steps leaves fewer, and nobody else's step more.
Slides ==
    stopped =>
        /\ stopped'
        /\ StepsLeft' <= StepsLeft
        /\ Worker => StepsLeft' < StepsLeft

\* Where a stopped run can still wait: for a CPU that Stop could not see yet,
\* which computes and asks for nothing, or in a pause it entered although the
\* watchdog had stopped it, which PauseLimit ends.
StoppedWaits ==
    stopped /\ Waits =>
        \/ wpc = "read" /\ proc \in {"run", "exec"}
        \/ wpc = "blocked" /\ timedOut /\ ~cancelled

WorkerLines ==
    {"queued", "compile", "ready", "create", "lock", "cache", "classify", "reply", "tables",
     "spawn", "popen", "assign", "perm", "blocked", "granted", "go", "read", "line", "eof",
     "reap", "close", "final", "finish", "ended"}

LEMMA DistanceFacts ==
    ASSUME NEW p \in WorkerLines
    PROVE  /\ Distance(p) \in 0 .. 23
           /\ Distance(p) = 0 <=> p = "ended"
           /\ p \notin Early => Distance(p) <= 19
           /\ p \in CheckSites => Distance(p) > 0
           /\ p \notin {"close"} \cup Over => Distance(p) > Distance("close")
<1> USE DEF WorkerLines, Distance
<1>1. Distance(p) \in 0 .. 23
  OBVIOUS
<1>2. Distance(p) = 0 <=> p = "ended"
  OBVIOUS
<1>3. p \notin Early => Distance(p) <= 19
  BY DEF Early
<1>4. p \in CheckSites => Distance(p) > 0
  BY DEF CheckSites
<1>5. p \notin {"close"} \cup Over => Distance(p) > Distance("close")
  BY DEF Over
<1>. QED  BY <1>1, <1>2, <1>3, <1>4, <1>5

LEMMA StepFacts ==
    ASSUME IInv
    PROVE  /\ wpc \in WorkerLines /\ checked \in BOOLEAN
           /\ checked => wpc \in CheckSites
           /\ StepsLeft \in Int
<1>1. wpc \in WorkerLines /\ (checked => wpc \in CheckSites)
  BY DEF IInv, TypeOK, LifeInv, WorkerLines, CheckSites
<1>2. checked \in BOOLEAN
  BY DEF IInv, TypeOK, FlagsOK
<1>. QED  BY <1>1, <1>2, DistanceFacts DEF StepsLeft

\* The worker of a stopped run goes on to a later line, or checked the clock.
Onward ==
    \/ Distance(wpc') < Distance(wpc)
    \/ wpc' = wpc /\ ~checked /\ checked'

LEMMA WorkerSlides ==
    ASSUME IInv, stopped, Worker
    PROVE  stopped' /\ Onward
<1>1. stopped'
  BY DEF Worker, Prepare, AcquireCompiler, Compile, ReadCancelled, CreateSimulation, Check, CheckDeadline,
     CheckStopped, LookupTables, AcquireClassifier, RetryClassifier, ReadCache, PollReply,
     TakeReply, UseReply, ReturnTables, Launch, WriteTables, Spawn, AssignProcess, ReadOutput,
     ReadLine, ReadEof, HandleLine, AskPermission, BlockAtFetch, PassFetch, WakeAtFetch,
     ConfirmFetch, WriteGo, EndRun, CloseStdin, Reap, Close, Stop, Conclude, PublishDone, simVars
<1> SUFFICES Onward
  BY <1>1
<1>2. wpc \notin Early
  BY DEF IInv, LifeInv
<1>3. CASE Prepare
  BY <1>2, <1>3 DEF Prepare, AcquireCompiler, Compile, ReadCancelled, CreateSimulation, Early
<1>4. CASE CheckDeadline
  <2>1. wpc \notin {"close"} \cup Over /\ wpc \in WorkerLines
    BY <1>4, StepFacts DEF CheckDeadline, CheckSites, Over
  <2>. QED  BY <1>4, <2>1, DistanceFacts DEF CheckDeadline, Leave, Onward
<1>5. CASE CheckStopped
  <2>1. wpc \notin {"close"} \cup Over /\ wpc \in WorkerLines
    BY <1>5, StepFacts DEF CheckStopped, CheckSites, Over
  <2>2. CASE wpc \in {"line", "granted"}
    BY <1>5, <2>2 DEF CheckStopped, Goto, Onward, Distance
  <2>3. CASE wpc \notin {"line", "granted"}
    BY <1>5, <2>1, <2>3, DistanceFacts DEF CheckStopped, Leave, Onward
  <2>. QED  BY <2>2, <2>3
<1>6. CASE LookupTables
  <2>1. \/ wpc = "lock" /\ wpc' = "cache"
        \/ wpc = "tables" /\ wpc' \in {"spawn", "close"}
    BY <1>6 DEF LookupTables, AcquireClassifier, RetryClassifier, ReadCache, PollReply,
       TakeReply, UseReply, ReturnTables, Passes, Leave
  <2>. QED  BY <2>1 DEF Onward, Distance
<1>7. CASE Launch
  <2>1. \/ wpc = "popen" /\ wpc' \in {"assign", "close"}
        \/ wpc = "assign" /\ wpc' = "read"
    BY <1>7 DEF Launch, WriteTables, Spawn, AssignProcess, Passes, Goto, Leave
  <2>. QED  BY <2>1 DEF Onward, Distance
<1>8. CASE ReadOutput
  <2>1. wpc = "read" /\ wpc' \in {"line", "eof"}
    BY <1>8 DEF ReadOutput, ReadLine, ReadEof, HandleLine, Passes, Goto
  <2>. QED  BY <2>1 DEF Onward, Distance
<1>9. CASE AskPermission
  <2>1. \/ wpc = "perm" /\ wpc' \in {"blocked", "granted", "eof"}
        \/ wpc = "blocked" /\ wpc' \in {"granted", "eof"}
        \/ wpc = "go" /\ wpc' \in {"read", "close"}
    BY <1>9 DEF AskPermission, BlockAtFetch, PassFetch, WakeAtFetch, Admit, ConfirmFetch,
       WriteGo, Passes, Goto, Leave
  <2>. QED  BY <2>1 DEF Onward, Distance
<1>10. CASE EndRun
  <2>1. \/ wpc = "reap" /\ wpc' = "close"
        \/ wpc = "close" /\ wpc' = "final"
        \/ wpc = "final" /\ wpc' = "finish"
        \/ wpc = "finish" /\ wpc' = "ended"
    BY <1>10 DEF EndRun, CloseStdin, Reap, Close, Conclude, PublishDone, Passes, Goto, Leave
  <2>. QED  BY <2>1 DEF Onward, Distance
<1>. QED  BY <1>3, <1>4, <1>5, <1>6, <1>7, <1>8, <1>9, <1>10 DEF Worker, Check

\* Run.control, Simulation.stop and Simulation.check: what is left of a stopped
\* run is a bounded number of the worker's own steps, which nothing adds to, and
\* there are two places only at which the worker may have to wait before one.
THEOREM StopEndsRun == Spec => [](FewSteps /\ StoppedWaits) /\ [][Slides]_vars
<1>1. IInv => FewSteps
  <2> SUFFICES ASSUME IInv, stopped
               PROVE  StepsLeft \in 0 .. 38 /\ (StepsLeft = 0 <=> wpc = "ended")
    BY DEF FewSteps
  <2>1. wpc \notin Early
    BY DEF IInv, LifeInv
  <2>2. Distance(wpc) \in 0 .. 19 /\ (Distance(wpc) = 0 <=> wpc = "ended")
        /\ (checked => Distance(wpc) > 0)
    BY <2>1, StepFacts, DistanceFacts
  <2>. QED  BY <2>2 DEF StepsLeft
<1>2. IInv /\ LiveInv => StoppedWaits
  <2> SUFFICES ASSUME IInv, LiveInv, stopped, Waits
               PROVE  \/ wpc = "read" /\ proc \in {"run", "exec"}
                      \/ wpc = "blocked" /\ timedOut /\ ~cancelled
    BY DEF StoppedWaits
  <2>1. CASE wpc = "read" /\ out = <<>> /\ proc \in Alive
    BY <2>1 DEF IInv, LiveInv, NoFetchLost, LoopLeft, FetchInHand, FetchInPipe, RevokedInv, Alive
  <2>2. CASE wpc = "blocked" /\ MustWait
    BY <2>2 DEF IInv, TornInv, MustWait, Over
  <2>. QED  BY <2>1, <2>2 DEF Waits
<1>3. IInv /\ IInv' /\ [Next]_vars => [Slides]_vars
  <2> SUFFICES ASSUME IInv, IInv', Next, stopped
               PROVE  stopped' /\ StepsLeft' <= StepsLeft /\ (Worker => StepsLeft' < StepsLeft)
    BY DEF Slides
  <2>1. CASE Worker
    <3>1. stopped' /\ Onward
      BY <2>1, WorkerSlides
    <3>2. wpc' \in WorkerLines
      BY DEF IInv, TypeOK, WorkerLines, CheckSites
    <3>3. Distance(wpc) \in 0 .. 23 /\ Distance(wpc') \in 0 .. 23
      BY <3>2, StepFacts, DistanceFacts
    <3>. QED  BY <3>1, <3>3 DEF Onward, StepsLeft
  <2>2. CASE ~Worker
    <3>1. wpc' = wpc /\ checked' = checked /\ stopped'
      BY <2>2 DEF Next, Control, ControlRun, ControlPause, ControlStep, ControlStop, Stop,
         Watchdog, WatchdogExpires, WatchdogWaits, WatchdogWakes, RemoteReplies, Tick, Child,
         Terminated, vars, ctlVars, simVars
    <3>. QED  BY <2>2, <3>1, StepFacts DEF StepsLeft
  <2>. QED  BY <2>1, <2>2
<1>. QED  BY <1>1, <1>2, <1>3, Invariance, LiveInvariance, PTL DEF Spec

-----------------------------------------------------------------------------
(* The refinement *)

Decided == wpc \in {"finish", "ended"}

LEMMA ContractInitially == Init => Contract!Init
BY DEF Init, Contract!Init, Contract!Undecided

\* What the visitor cannot see: nothing the contract speaks of changes.
Hidden ==
    /\ UNCHANGED <<mode, allowed, executed, cancelled, timedOut, done>>
    /\ proc' = "exit0" <=> proc = "exit0"
    /\ ~Decided /\ ~Decided'

LEMMA HiddenStutters == ASSUME Hidden PROVE UNCHANGED Contract!vars
BY DEF Hidden, Decided, Contract!vars

LEMMA WorkerRefines ==
    ASSUME IInv, Worker
    PROVE  Contract!Next \/ UNCHANGED Contract!vars
<1> USE DEF vars, userVars, clockVars, childVars, simVars, ctlVars, dataVars
<1>1. CASE Prepare
  <2>1. Hidden
    BY <1>1 DEF Hidden, Decided, Prepare, AcquireCompiler, Compile,
       ReadCancelled, CreateSimulation, Goto
  <2> QED BY <2>1, HiddenStutters
<1>2. CASE Check
  <2>1. Hidden
    BY <1>2 DEF Hidden, Decided, Check, CheckDeadline, CheckStopped, Goto, Leave
  <2> QED BY <2>1, HiddenStutters
<1>3. CASE LookupTables
  <2>1. Hidden
    BY <1>3 DEF Hidden, Decided, LookupTables, AcquireClassifier,
       RetryClassifier, ReadCache, PollReply, TakeReply, UseReply, ReturnTables,
       Goto, Leave, Passes
  <2> QED BY <2>1, HiddenStutters
<1>4. CASE Launch
  <2>1. Hidden
    BY <1>4 DEF Hidden, Decided, Launch, WriteTables, Spawn, AssignProcess,
       Goto, Leave, Passes, IInv, LifeInv
  <2> QED BY <2>1, HiddenStutters
<1>5. CASE ReadOutput
  <2>1. Hidden
    BY <1>5 DEF Hidden, Decided, ReadOutput, ReadLine, ReadEof, HandleLine,
       Goto, Leave, Passes
  <2> QED BY <2>1, HiddenStutters
<1>6. CASE BlockAtFetch \/ PassFetch \/ ConfirmFetch \/ WriteGo
  <2>1. Hidden
    BY <1>6 DEF Hidden, Decided, BlockAtFetch, PassFetch, ConfirmFetch, WriteGo,
       Goto, Leave, Passes, Admit
  <2> QED BY <2>1, HiddenStutters
<1>7. CASE WakeAtFetch
  <2>1. CASE cancelled' = cancelled
    <3>1. Hidden
      BY <1>7, <2>1 DEF Hidden, Decided, WakeAtFetch, Goto, Admit
    <3> QED BY <3>1, HiddenStutters
  <2>2. CASE cancelled' # cancelled
    <3>1. cancelled' = TRUE
      BY <1>7, <2>2 DEF WakeAtFetch, Admit, IInv, TypeOK, FlagsOK
    <3>2. Contract!Cancel
      BY <1>7, <3>1 DEF Contract!Cancel, WakeAtFetch, Goto, Admit, IInv, LifeInv
    <3> QED BY <3>2 DEF Contract!Next
  <2> QED BY <2>1, <2>2
<1>8. CASE CloseStdin \/ Reap \/ Close
  <2>1. Hidden
    BY <1>8 DEF Hidden, Decided, CloseStdin, Reap, Close, Goto, Leave, Passes,
       Stop, KillChild
  <2> QED BY <2>1, HiddenStutters
<1>9. CASE Conclude
  <2>1. /\ cancelled <=> runState' = "stopped"
        /\ runState' = "complete" => proc = "exit0" \/ timedOut
        /\ runState' = "running" => executed = 0
        /\ runState' \in Contract!Verdicts
    BY <1>9 DEF Conclude, Verdict, IInv, LifeInv, TornInv, OutcomeInv, TypeOK,
       Contract!Verdicts
  <2>2. Contract!Decide(runState')
    BY <1>9, <2>1 DEF Contract!Decide, Contract!Undecided, Conclude, Goto
  <2> QED BY <2>1, <2>2 DEF Contract!Next
<1>10. CASE PublishDone
  <2>1. runState # "undecided"
    BY DEF IInv, TypeOK
  <2>2. Contract!Publish
    BY <1>10, <2>1 DEF Contract!Publish, Contract!Undecided, PublishDone, Goto
  <2> QED BY <2>2 DEF Contract!Next
<1> QED
  BY <1>1, <1>2, <1>3, <1>4, <1>5, <1>6, <1>7, <1>8, <1>9, <1>10
  DEF Worker, AskPermission, EndRun

LEMMA ControlRefines ==
    ASSUME IInv, Control
    PROVE  Contract!Next \/ UNCHANGED Contract!vars
<1> USE DEF userVars, clockVars, childVars, simVars, ctlVars, dataVars, Command
<1>1. CASE ControlRun
  <2>1. Contract!Run
    BY <1>1 DEF ControlRun, Contract!Run
  <2> QED BY <2>1 DEF Contract!Next
<1>2. CASE ControlPause
  <2>1. Contract!Pause
    BY <1>2 DEF ControlPause, Contract!Pause
  <2> QED BY <2>1 DEF Contract!Next
<1>3. CASE ControlStep
  <2>1. Contract!Step
    BY <1>3 DEF ControlStep, Contract!Step
  <2> QED BY <2>1 DEF Contract!Next
<1>4. CASE ControlStop
  <2>1. proc' = "exit0" <=> proc = "exit0"
    BY <1>4 DEF ControlStop, Stop, KillChild
  <2>2. Contract!Cancel
    BY <1>4, <2>1 DEF ControlStop, Contract!Cancel
  <2> QED BY <2>2 DEF Contract!Next
<1> QED BY <1>1, <1>2, <1>3, <1>4 DEF Control

LEMMA WatchdogRefines ==
    ASSUME IInv, Watchdog
    PROVE  Contract!Next \/ UNCHANGED Contract!vars
<1> USE DEF userVars, clockVars, childVars, simVars, ctlVars, dataVars
<1>1. CASE WatchdogExpires
  <2>1. proc' = "exit0" <=> proc = "exit0"
    BY <1>1 DEF WatchdogExpires, Stop, KillChild
  <2>2. Contract!Expire
    BY <1>1, <2>1 DEF WatchdogExpires, Contract!Expire
  <2> QED BY <2>2 DEF Contract!Next
<1>2. CASE WatchdogWaits \/ WatchdogWakes
  BY <1>2 DEF WatchdogWaits, WatchdogWakes, Contract!vars
<1> QED BY <1>1, <1>2 DEF Watchdog

LEMMA ChildRefines ==
    ASSUME IInv, Child
    PROVE  Contract!Next \/ UNCHANGED Contract!vars
<1> USE DEF Child, userVars, clockVars, childVars, simVars, ctlVars, dataVars
<1>1. proc \in Alive => ~Decided
  BY DEF Decided, IInv, LifeInv
<1>2. CASE ChildGetsGo
  <2>1. ~Decided /\ ~cancelled /\ ~timedOut
    BY <1>1, <1>2 DEF ChildGetsGo, IInv, RevokedInv, TornInv
  <2>2. mode # "run" => executed <= allowed
    BY <1>2 DEF ChildGetsGo, IInv, TypeOK, BudgetInv, InFlight
  <2>3. Contract!Execute
    BY <1>2, <2>1, <2>2 DEF ChildGetsGo, Decided, Contract!Execute,
       Contract!Undecided
  <2> QED BY <2>3 DEF Contract!Next
<1>3. CASE ChildFetches \/ ChildOutputs \/ ChildGetsEof \/ ChildHalts \/ ChildFails
  <2>1. UNCHANGED <<executed, stdin>> /\ ~Decided /\ proc # "exit0"
    BY <1>1, <1>3 DEF ChildFetches, ChildOutputs, ChildGetsEof, ChildHalts,
       ChildFails
  <2>2. CASE proc' = "exit0"
    <3>1. Contract!Pass
      BY <2>1, <2>2 DEF Contract!Pass, Contract!Undecided, Decided
    <3> QED BY <3>1 DEF Contract!Next
  <2>3. CASE proc' # "exit0"
    BY <2>1, <2>3 DEF Contract!vars, Decided
  <2> QED BY <2>2, <2>3
<1> QED BY <1>2, <1>3

\* Every behaviour of the threads, the pipes and the child is one the promise
\* to the visitor allows: nothing executes unpaid, after Stop or after the
\* deadline, and the verdict of Run.work agrees with what happened.
THEOREM KeepsContract == Spec => ContractSpec
<1>1. Init => Contract!Init
  BY ContractInitially
<1>2. IInv /\ [Next]_vars => [Contract!Next]_(Contract!vars)
  <2> SUFFICES ASSUME IInv, [Next]_vars
               PROVE  Contract!Next \/ UNCHANGED Contract!vars
    OBVIOUS
  <2>1. CASE RemoteReplies \/ Tick \/ Terminated \/ UNCHANGED vars
    BY <2>1 DEF RemoteReplies, Tick, Terminated, Contract!vars, vars, userVars,
       clockVars, childVars, simVars, ctlVars, dataVars
  <2> QED
    BY <2>1, WorkerRefines, ControlRefines, WatchdogRefines, ChildRefines
    DEF Next
<1> QED BY <1>1, <1>2, Invariance, PTL DEF Spec, ContractSpec, Contract!Spec

-----------------------------------------------------------------------------
(* What follows from the contract *)

LEMMA PromiseInductive ==
    /\ Contract!Init => Contract!Truthful /\ executed \in Nat /\ allowed \in Nat
    /\ Contract!Truthful /\ executed \in Nat /\ allowed \in Nat
          /\ [Contract!Next]_(Contract!vars)
       => (Contract!Truthful /\ executed \in Nat /\ allowed \in Nat)'
<1> USE DEF Contract!Truthful, Contract!Verdicts, Contract!Undecided
<1>1. Contract!Init => Contract!Truthful /\ executed \in Nat /\ allowed \in Nat
  BY DEF Contract!Init
<1>2. ASSUME Contract!Truthful, executed \in Nat, allowed \in Nat,
             [Contract!Next]_(Contract!vars)
      PROVE  (Contract!Truthful /\ executed \in Nat /\ allowed \in Nat)'
  <2>1. CASE Contract!Run \/ Contract!Pause \/ Contract!Step
    BY <1>2, <2>1 DEF Contract!Run, Contract!Pause, Contract!Step
  <2>2. CASE Contract!Cancel \/ Contract!Expire \/ Contract!Pass \/ Contract!Publish
    BY <1>2, <2>2 DEF Contract!Cancel, Contract!Expire, Contract!Pass, Contract!Publish
  <2>3. CASE Contract!Execute
    BY <1>2, <2>3 DEF Contract!Execute
  <2>4. ASSUME NEW v \in Contract!Verdicts, Contract!Decide(v)
        PROVE  (Contract!Truthful /\ executed \in Nat /\ allowed \in Nat)'
    BY <1>2, <2>4 DEF Contract!Decide
  <2>5. CASE UNCHANGED Contract!vars
    BY <1>2, <2>5 DEF Contract!vars
  <2> QED BY <1>2, <2>1, <2>2, <2>3, <2>4, <2>5 DEF Contract!Next
<1> QED BY <1>1, <1>2

\* What the visitor is told about a run, by Run.work and the "done" event, is
\* true of every program that keeps RunContract.
THEOREM PromiseTruthful == ContractSpec => []Contract!Truthful
BY PromiseInductive, PTL DEF ContractSpec, Contract!Spec

\* In a program that keeps RunContract a Stop, the deadline and a verdict are
\* final, and so is what the program has executed by then.
THEOREM PromiseForGood == ContractSpec => Contract!ForGood
<1> USE DEF Contract!Final, Contract!Undecided, Contract!Verdicts
<1>1. Contract!Next => Contract!Final
  <2>1. CASE Contract!Run \/ Contract!Pause \/ Contract!Step
    BY <2>1 DEF Contract!Run, Contract!Pause, Contract!Step
  <2>2. CASE Contract!Cancel \/ Contract!Expire \/ Contract!Pass \/ Contract!Publish
    BY <2>2 DEF Contract!Cancel, Contract!Expire, Contract!Pass, Contract!Publish
  <2>3. CASE Contract!Execute
    BY <2>3 DEF Contract!Execute
  <2>4. ASSUME NEW v \in Contract!Verdicts, Contract!Decide(v)
        PROVE  Contract!Final
    BY <2>4 DEF Contract!Decide
  <2> QED BY <2>1, <2>2, <2>3, <2>4 DEF Contract!Next
<1>2. [Contract!Next]_(Contract!vars) => [Contract!Final]_(Contract!vars)
  BY <1>1
<1> QED BY <1>2, PTL DEF ContractSpec, Contract!Spec, Contract!ForGood

\* The two together, for the code: app.py and engine.py keep the promise.
THEOREM RunIsTruthful == Spec => []Contract!Truthful /\ Contract!ForGood
BY KeepsContract, PromiseTruthful, PromiseForGood, PTL

-----------------------------------------------------------------------------
(* The compiler in one step *)

LEMMA PhaseHidden ==
    ASSUME UNCHANGED <<Stage, cancelled>>
    PROVE  UNCHANGED Phase!vars
BY DEF Phase!vars

\* The part of Run.work that is Compiler's business.
LEMMA PrepareKeepsPhase == ASSUME Prepare PROVE Phase!Next \/ UNCHANGED Phase!vars
<1> USE DEF Goto, Stage, userVars, Phase!Next, Phase!Goto
<1>1. CASE AcquireCompiler
  BY <1>1 DEF AcquireCompiler, Phase!Begin, Phase!Skip
<1>2. CASE Compile
  BY <1>2 DEF Compile, Phase!Fail, Phase!vars
<1>3. CASE ReadCancelled
  BY <1>3 DEF ReadCancelled, Phase!Simulate, Phase!Fail
<1>4. CASE CreateSimulation
  BY <1>4 DEF CreateSimulation, Phase!vars
<1> QED BY <1>1, <1>2, <1>3, <1>4 DEF Prepare

\* A step of the simulation, of the clean-up or of the verdict.
LEMMA WorkKeepsPhase ==
    ASSUME IInv, Check \/ LookupTables \/ Launch \/ ReadOutput \/ EndRun
    PROVE  Phase!Next \/ UNCHANGED Phase!vars
<1>1. UNCHANGED cancelled
  <2>1. CASE Check \/ LookupTables
    BY <2>1 DEF Check, CheckDeadline, CheckStopped, LookupTables, AcquireClassifier,
       RetryClassifier, ReadCache, PollReply, TakeReply, UseReply, ReturnTables, userVars
  <2>2. CASE Launch \/ ReadOutput
    BY <2>2 DEF Launch, WriteTables, Spawn, AssignProcess, ReadOutput, ReadLine, ReadEof,
       HandleLine, userVars
  <2>3. CASE EndRun
    BY <2>3 DEF EndRun, CloseStdin, Reap, Close, Conclude, PublishDone, userVars
  <2> QED BY <2>1, <2>2, <2>3
<1>2. \/ Stage = "simulate" /\ Stage' \in {"simulate", "over"}
      \/ Stage = "over" /\ Stage' = "over"
  <2> USE DEF Stage, Goto, Leave, CheckSites, Passes
  <2>1. CASE Check
    BY <2>1 DEF Check, CheckDeadline, CheckStopped
  <2>2. CASE LookupTables
    BY <2>2 DEF LookupTables, AcquireClassifier, RetryClassifier, ReadCache, PollReply,
       TakeReply, UseReply, ReturnTables
  <2>3. CASE Launch
    BY <2>3 DEF Launch, WriteTables, Spawn, AssignProcess
  <2>4. CASE ReadOutput
    BY <2>4 DEF ReadOutput, ReadLine, ReadEof, HandleLine
  <2>5. CASE EndRun
    BY <2>5 DEF EndRun, CloseStdin, Reap, Close, Conclude, PublishDone
  <2> QED BY <2>1, <2>2, <2>3, <2>4, <2>5
<1>3. CASE Stage' = Stage
  BY <1>1, <1>3, PhaseHidden
<1>4. CASE Stage' # Stage
  <2>1. Phase!Finish
    BY <1>1, <1>2, <1>4 DEF Phase!Finish, Phase!Goto
  <2> QED BY <2>1 DEF Phase!Next
<1> QED BY <1>3, <1>4

\* wait_for_permission may stop the run, when it has paused for too long.
LEMMA PermissionKeepsPhase ==
    ASSUME IInv, AskPermission
    PROVE  Phase!Next \/ UNCHANGED Phase!vars
<1>1. UNCHANGED Stage
  BY DEF AskPermission, BlockAtFetch, PassFetch, WakeAtFetch, ConfirmFetch, WriteGo, Stage,
     Goto, Admit, Leave, Passes, ctlVars
<1>2. cancelled \in BOOLEAN
  BY Zenon DEF IInv, TypeOK, FlagsOK
<1>3. cancelled' = TRUE \/ UNCHANGED cancelled
  <2>1. CASE BlockAtFetch \/ PassFetch \/ ConfirmFetch \/ WriteGo
    BY <2>1 DEF BlockAtFetch, PassFetch, ConfirmFetch, WriteGo, Admit, userVars
  <2>2. CASE WakeAtFetch
    <3>1. cancelled' = (cancelled \/ pauseAge > PauseLimit)
      BY <2>2 DEF WakeAtFetch, Admit
    <3> QED BY <1>2, <3>1
  <2> QED BY <2>1, <2>2 DEF AskPermission
<1> QED BY <1>1, <1>3, PhaseHidden DEF Phase!Next, Phase!Stop

\* Up to its simulation a run is what Compiler says as well, see RunsKeepPhase
\* there: nothing that happens between queue and simulation is left out here
\* but what a run never sees.
THEOREM KeepsPhase == Spec => PhaseSpec
<1>1. Init => Phase!Init
  BY DEF Init, Phase!Init, Stage
<1>2. IInv /\ [Next]_vars => [Phase!Next]_(Phase!vars)
  <2> SUFFICES ASSUME IInv, [Next]_vars
               PROVE  Phase!Next \/ UNCHANGED Phase!vars
    OBVIOUS
  <2>1. CASE Worker
    BY <2>1, PrepareKeepsPhase, WorkKeepsPhase, PermissionKeepsPhase DEF Worker
  <2>2. CASE Control
    <3>1. UNCHANGED Stage /\ (cancelled' = TRUE \/ UNCHANGED cancelled)
      BY <2>2 DEF Control, ControlRun, ControlPause, ControlStep, ControlStop, ctlVars, Stage
    <3> QED BY <3>1, PhaseHidden DEF Phase!Next, Phase!Stop
  <2>3. CASE Watchdog \/ RemoteReplies \/ Tick
    <3>1. UNCHANGED <<Stage, cancelled>>
      BY <2>3 DEF Watchdog, WatchdogExpires, WatchdogWaits, WatchdogWakes, RemoteReplies, Tick,
         ctlVars, userVars, Stage
    <3> QED BY <3>1, PhaseHidden
  <2>4. CASE Child
    <3>1. UNCHANGED <<Stage, cancelled>>
      BY <2>4 DEF Child, ChildFetches, ChildGetsGo, ChildOutputs, ChildGetsEof, ChildHalts,
         ChildFails, ctlVars, userVars, Stage
    <3> QED BY <3>1, PhaseHidden
  <2>5. CASE Terminated \/ UNCHANGED vars
    <3>1. UNCHANGED <<Stage, cancelled>>
      BY <2>5 DEF Terminated, vars, ctlVars, userVars, Stage
    <3> QED BY <3>1, PhaseHidden
  <2> QED BY <2>1, <2>2, <2>3, <2>4, <2>5 DEF Next
<1> QED BY <1>1, <1>2, Invariance, PTL DEF Spec, PhaseSpec, Phase!Spec
=============================================================================
