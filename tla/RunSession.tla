----------------------------- MODULE RunSession ------------------------------
(***************************************************************************)
(* One run of the web server: app.Run and engine.Simulation with the four  *)
(* threads and the child process that share them.                          *)
(*                                                                         *)
(*   worker    the thread of Run.work, through Simulation.run              *)
(*   control   the HTTP threads that call Run.control                      *)
(*   watchdog  the thread of Simulation.watchdog                           *)
(*   remote    the thread Simulation.classify starts to query the API      *)
(*   child     the serv_sim process, connected by two pipes                *)
(*                                                                         *)
(* A critical section of Run.condition or Simulation.changed is one        *)
(* action.  Everything the worker does outside them that another thread    *)
(* can see is an action of its own; in particular Simulation.check reads   *)
(* the deadline and the stop flag in two steps.  Run.condition is always   *)
(* taken before Simulation.changed.                                        *)
(*                                                                         *)
(* The classifier lock and the compiler lock are held by other runs for    *)
(* as long as they like: acquiring them is a step that may happen at any   *)
(* time.  Events are not recorded: only the worker emits them.             *)
(***************************************************************************)
EXTENDS Integers, Sequences

CONSTANTS
    Deadline,     \* ticks of MAX_SECONDS
    PauseLimit,   \* ticks of the 1200 seconds a pause may last
    MaxFetches,   \* instructions the program fetches at most
    MaxCommands   \* control requests sent to the run

ASSUME BoundsAssumption ==
    /\ Deadline \in Nat \ {0}
    /\ PauseLimit \in Nat
    /\ MaxFetches \in Nat
    /\ MaxCommands \in Nat

VARIABLES
    \* Run, written under Run.condition
    mode,        \* "run", "pause" or "step"
    credits,     \* instructions that may pass in step mode
    cancelled,
    commands,    \* number of control requests handled so far
    \* Simulation's clock
    age,         \* now - started - paused_seconds
    pauseAge,    \* now - pause_started, or Unpaused
    \* the child process and its pipes
    proc,        \* what the child is doing, or how it ended
    out,         \* lines written to stdout and not read yet
    stdin,       \* the child's stdin: "empty", "go" or "closed"
    executed,    \* fetches acknowledged by the CPU
    \* Simulation, shared by worker, control and watchdog
    simulation,  \* Run.simulation is set
    visible,     \* Simulation.process is set
    stopped,
    timedOut,
    wd,          \* the watchdog thread
    \* the worker
    wpc,
    checked,     \* inside check(): the deadline was read, stopped was not
    outcome,     \* how Simulation.run, or what precedes it, ended
    holding,     \* the worker holds classifier_lock
    line,        \* the line of the child being handled
    fetch,       \* the API request and its reply
    runState,    \* Run.state
    done,
    \* history: the instructions the commands have paid for
    allowed

userVars   == <<mode, credits, cancelled, commands, allowed>>
clockVars  == <<age, pauseAge>>
childVars  == <<proc, out, stdin, executed>>
simVars    == <<simulation, visible, stopped, timedOut, wd>>
ctlVars    == <<wpc, checked, outcome, holding>>
dataVars   == <<line, fetch, runState, done>>
vars == <<userVars, clockVars, childVars, simVars, ctlVars, dataVars>>

-----------------------------------------------------------------------------
(* Helpers *)

Unpaused == -1
Alive == {"run", "exec", "wait"}
Replies == {"good", "overspent", "refused", "nullUsage"}

Elapsed == IF pauseAge = Unpaused THEN age ELSE age - pauseAge

TimeUp == timedOut \/ Elapsed >= Deadline

\* notify_all on Simulation.changed: the watchdog looks again.
Woken == IF wd \in {"sleep", "block"} THEN "look" ELSE wd

\* process.terminate() if the process is known and alive.  A signal that
\* arrives while the child writes leaves an incomplete line in the pipe.
KillChild ==
    IF visible /\ proc \in Alive
    THEN /\ proc' = "killed"
         /\ \/ out' = out
            \/ proc # "wait" /\ out' = Append(out, "torn")
    ELSE UNCHANGED <<proc, out>>

\* Faulty variant of Stop: the child is left alone.
StopFlagOnly ==
    /\ stopped' = TRUE
    /\ UNCHANGED <<proc, out>>

\* Simulation.stop, but for notify_all.  Stop and the deadline take effect when
\* the signal is sent.  The flags are set a few lines before; in between a child
\* that has its "go" may execute that instruction.
Stop ==
    /\ stopped' = TRUE
    /\ KillChild

Goto(p) ==
    /\ wpc' = p
    /\ checked' = FALSE
    /\ UNCHANGED <<outcome, holding>>

\* Faulty variant of Leave: an early return forgets the classifier lock.
LeaveKeepingLock(o) ==
    /\ wpc' = "close"
    /\ checked' = FALSE
    /\ outcome' = o
    /\ UNCHANGED holding

\* Leave Simulation.run or the part of work before it; the finally clause of
\* lookup_tables releases the classifier lock.
Leave(o) ==
    /\ wpc' = "close"
    /\ checked' = FALSE
    /\ outcome' = o
    /\ holding' = FALSE

-----------------------------------------------------------------------------

Init ==
    /\ mode \in {"run", "step"}
    /\ credits = (IF mode = "step" THEN 1 ELSE 0)
    /\ allowed = credits
    /\ cancelled = FALSE
    /\ commands = 0
    /\ age = 0 /\ pauseAge = Unpaused
    /\ proc = "none" /\ out = <<>> /\ stdin = "empty" /\ executed = 0
    /\ simulation = FALSE /\ visible = FALSE
    /\ stopped = FALSE /\ timedOut = FALSE /\ wd = "off"
    /\ \/ wpc = "queued" /\ runState = "compiling"
       \/ wpc = "ready" /\ runState = "running"
    /\ checked = FALSE /\ outcome = "none" /\ holding = FALSE
    /\ line = "none" /\ fetch = "none" /\ done = FALSE

-----------------------------------------------------------------------------
(* The worker: Run.work up to the simulation *)

\* "with compiler_lock: if self.cancelled: return"
AcquireCompiler ==
    /\ wpc = "queued"
    /\ Goto(IF cancelled THEN "final" ELSE "compile")
    /\ UNCHANGED <<userVars, clockVars, childVars, simVars, dataVars>>

Compile ==
    /\ wpc = "compile"
    /\ \/ Goto("ready")
       \/ wpc' = "final" /\ outcome' = "error" /\ UNCHANGED <<checked, holding>>
    /\ UNCHANGED <<userVars, clockVars, childVars, simVars, dataVars>>

ReadCancelled ==
    /\ wpc = "ready"
    /\ Goto(IF cancelled THEN "final" ELSE "create")
    /\ UNCHANGED <<userVars, clockVars, childVars, simVars, dataVars>>

\* Create the simulation, start its clock and its watchdog.
CreateSimulation ==
    /\ wpc = "create"
    /\ simulation' = TRUE
    /\ wd' = "look"
    /\ runState' = "running"
    /\ Goto("lock")
    /\ UNCHANGED <<userVars, clockVars, childVars, visible, stopped, timedOut,
                   line, fetch, done>>

-----------------------------------------------------------------------------
(* The worker: Simulation.check, called at these points of the program *)

CheckSites ==
    {"lock", "cache", "classify", "reply", "spawn", "line", "granted", "eof"}

\* First half: the deadline; a run out of time raises ExecutionTimeout.
CheckDeadline ==
    /\ wpc \in CheckSites
    /\ ~checked
    /\ IF TimeUp
       THEN Leave("limit")
       ELSE checked' = TRUE /\ UNCHANGED <<wpc, outcome, holding>>
    /\ UNCHANGED <<userVars, clockVars, childVars, simVars, dataVars>>

\* Second half: the stop flag.  The read loop breaks to the check after it;
\* everywhere else the caller returns.
CheckStopped ==
    /\ wpc \in CheckSites
    /\ checked
    /\ stopped
    /\ IF wpc \in {"line", "granted"} THEN Goto("eof") ELSE Leave("return")
    /\ UNCHANGED <<userVars, clockVars, childVars, simVars, dataVars>>

Passes(site) == wpc = site /\ checked /\ ~stopped

-----------------------------------------------------------------------------
(* The worker: Simulation.lookup_tables and classify *)

\* acquire(timeout=0.025) succeeds, or gives way to another check().
AcquireClassifier ==
    /\ wpc = "lock"
    /\ ~checked
    /\ wpc' = "cache"
    /\ holding' = TRUE
    /\ UNCHANGED <<checked, outcome>>
    /\ UNCHANGED <<userVars, clockVars, childVars, simVars, dataVars>>

RetryClassifier ==
    /\ Passes("lock")
    /\ Goto("lock")
    /\ UNCHANGED <<userVars, clockVars, childVars, simVars, dataVars>>

\* The cache has the tables, cannot be read, or has to be filled; a request
\* over the reserved budget is not sent.  A record that is no JSON object, or
\* has no answers in it, raises AttributeError.
ReadCache ==
    /\ Passes("cache")
    /\ \/ Goto("tables") /\ UNCHANGED fetch
       \/ Leave("error") /\ UNCHANGED fetch
       \/ Leave("crash") /\ UNCHANGED fetch
       \/ Leave("limit") /\ UNCHANGED fetch
       \/ Goto("classify") /\ fetch' = "flight"
    /\ UNCHANGED <<userVars, clockVars, childVars, simVars, line, runState, done>>

\* replies.get(timeout=...) times out: call check() again.
PollReply ==
    /\ Passes("classify")
    /\ fetch = "flight"
    /\ Goto("classify")
    /\ UNCHANGED <<userVars, clockVars, childVars, simVars, dataVars>>

TakeReply ==
    /\ Passes("classify")
    /\ fetch \in Replies
    /\ Goto("reply")
    /\ UNCHANGED <<userVars, clockVars, childVars, simVars, dataVars>>

\* A reply that is an error, has no usage or no Boolean choice raises
\* JevError, and so does a cache that cannot be written; a null usage (or
\* null answers) raises AttributeError, which work() does not expect.
UseReply ==
    /\ Passes("reply")
    /\ \/ fetch = "refused"   /\ Leave("error")
       \/ fetch = "nullUsage" /\ Leave("crash")
       \/ fetch \in {"good", "overspent"} /\ (Goto("tables") \/ Leave("error"))
    /\ UNCHANGED <<userVars, clockVars, childVars, simVars, dataVars>>

\* The usage of this run's own request may exceed the budget.
ReturnTables ==
    /\ wpc = "tables"
    /\ IF fetch = "overspent"
       THEN Leave("limit")
       ELSE wpc' = "spawn" /\ holding' = FALSE /\ UNCHANGED <<checked, outcome>>
    /\ UNCHANGED <<userVars, clockVars, childVars, simVars, dataVars>>

-----------------------------------------------------------------------------
(* The worker: the child process and the loop over its output *)

WriteTables ==
    /\ Passes("spawn")
    /\ Goto("popen")
    /\ UNCHANGED <<userVars, clockVars, childVars, simVars, dataVars>>

Spawn ==
    /\ wpc = "popen"
    /\ \/ proc' = "run" /\ Goto("assign")
       \/ Leave("error") /\ UNCHANGED proc
    /\ UNCHANGED <<userVars, clockVars, out, stdin, executed, simVars, dataVars>>

\* Popen has returned; only now do stop and the watchdog see the process.
AssignProcess ==
    /\ wpc = "assign"
    /\ visible' = TRUE
    /\ Goto("read")
    /\ UNCHANGED <<userVars, clockVars, childVars, simulation, stopped, timedOut,
                   wd, dataVars>>

ReadLine ==
    /\ wpc = "read"
    /\ out # <<>>
    /\ line' = Head(out)
    /\ out' = Tail(out)
    /\ Goto("line")
    /\ UNCHANGED <<userVars, clockVars, proc, stdin, executed, simVars, fetch,
                   runState, done>>

ReadEof ==
    /\ wpc = "read"
    /\ out = <<>>
    /\ proc \notin Alive
    /\ Goto("eof")
    /\ UNCHANGED <<userVars, clockVars, childVars, simVars, dataVars>>

\* Faulty variants of HandleLine: a line is parsed before check() is called;
\* every line is answered with "go".
HandleLineUnchecked ==
    /\ wpc = "line"
    /\ \/ line = "torn" /\ Leave("malformed")
       \/ line = "fetch" /\ Goto("perm")
       \/ line \in {"output", "halt"} /\ Goto("read")
    /\ line' = "none"
    /\ UNCHANGED <<userVars, clockVars, childVars, simVars, fetch, runState, done>>

HandleEveryLineAsFetch ==
    /\ Passes("line")
    /\ IF line = "torn" THEN Leave("malformed") ELSE Goto("perm")
    /\ line' = "none"
    /\ UNCHANGED <<userVars, clockVars, childVars, simVars, fetch, runState, done>>

\* json.loads and emit.
HandleLine ==
    /\ Passes("line")
    /\ \/ line = "torn" /\ Leave("malformed")
       \/ line = "fetch" /\ Goto("perm")
       \/ line \in {"output", "halt"} /\ Goto("read")
    /\ line' = "none"
    /\ UNCHANGED <<userVars, clockVars, childVars, simVars, fetch, runState, done>>

-----------------------------------------------------------------------------
(* The worker: Run.wait_for_permission, with Simulation.pause *)

MustWait == ~cancelled /\ mode # "run" /\ credits = 0

BlockAtFetch ==
    /\ wpc = "perm"
    /\ MustWait
    /\ pauseAge' = 0
    /\ wd' = Woken
    /\ runState' = "paused"
    /\ Goto("blocked")
    /\ UNCHANGED <<userVars, age, childVars, simulation, visible, stopped,
                   timedOut, line, fetch, done>>

\* Faulty variants of ResumeClock: the pause is charged; the watchdog is not
\* notified; the simulation is never told that the pause is over.
ResumeChargingPause ==
    /\ pauseAge' = Unpaused
    /\ wd' = Woken
    /\ UNCHANGED age

ResumeSilently ==
    /\ age' = age - pauseAge
    /\ pauseAge' = Unpaused
    /\ UNCHANGED wd

ResumeNot == UNCHANGED <<clockVars, wd>>

\* Simulation.pause(False)
ResumeClock ==
    /\ age' = age - pauseAge
    /\ pauseAge' = Unpaused
    /\ wd' = Woken

\* Faulty variant of Admit: "if self.credits" is missing.
AdmitAlwaysCharging(quit) ==
    /\ cancelled' = quit
    /\ IF quit
       THEN Goto("eof") /\ UNCHANGED <<credits, runState>>
       ELSE /\ Goto("granted")
            /\ credits' = credits - 1
            /\ runState' = "running"

\* The end of wait_for_permission once the loop is left; quit is the value of
\* cancelled it sees.
Admit(quit) ==
    /\ cancelled' = quit
    /\ IF quit
       THEN Goto("eof") /\ UNCHANGED <<credits, runState>>
       ELSE /\ Goto("granted")
            /\ credits' = IF credits = 0 THEN 0 ELSE credits - 1
            /\ runState' = "running"

PassFetch ==
    /\ wpc = "perm"
    /\ ~MustWait
    /\ Admit(cancelled)
    /\ UNCHANGED <<mode, commands, allowed, clockVars, childVars, simVars, line,
                   fetch, done>>

\* Faulty variant of WakeAtFetch: a pause may last forever.
WakeOnlyByCommand ==
    /\ wpc = "blocked"
    /\ \/ /\ ~MustWait
          /\ ResumeClock
          /\ Admit(cancelled)
          /\ UNCHANGED <<mode, commands, allowed, childVars, simulation, visible,
                         stopped, timedOut, line, fetch, done>>
       \/ MustWait /\ UNCHANGED vars

\* The waiting worker is notified, or its 30 seconds are over.
WakeAtFetch ==
    /\ wpc = "blocked"
    /\ ~MustWait \/ pauseAge > PauseLimit
    /\ ResumeClock
    /\ Admit(cancelled \/ pauseAge > PauseLimit)
    /\ UNCHANGED <<mode, commands, allowed, childVars, simulation, visible,
                   stopped, timedOut, line, fetch, done>>

\* "or not self.check()" after permission
ConfirmFetch ==
    /\ Passes("granted")
    /\ Goto("go")
    /\ UNCHANGED <<userVars, clockVars, childVars, simVars, dataVars>>

\* Writing to a child that is gone raises BrokenPipeError.
WriteGo ==
    /\ wpc = "go"
    /\ IF proc \in Alive
       THEN stdin' = "go" /\ Goto("read")
       ELSE Leave("error") /\ UNCHANGED stdin
    /\ UNCHANGED <<userVars, clockVars, proc, out, executed, simVars, dataVars>>

-----------------------------------------------------------------------------
(* The worker: the end of Simulation.run and of Run.work *)

CloseStdin ==
    /\ Passes("eof")
    /\ stdin' = "closed"
    /\ Goto("reap")
    /\ UNCHANGED <<userVars, clockVars, proc, out, executed, simVars, dataVars>>

\* wait(timeout=1) and the exit code; a live child may exhaust the timeout.
Reap ==
    /\ wpc = "reap"
    /\ \/ proc = "exit0" /\ Leave("return")
       \/ proc = "exit2" /\ Leave("limit")
       \/ proc \notin {"exit0", "exit2"} /\ Leave("error")
    /\ UNCHANGED <<userVars, clockVars, childVars, simVars, dataVars>>

\* Faulty variant of Close: self.stop() is missing.
CloseWithoutStop ==
    /\ wpc = "close"
    /\ wpc' = "final"
    /\ UNCHANGED <<userVars, clockVars, childVars, simVars, checked, outcome,
                   holding, dataVars>>

\* The finally clause of Simulation.run.  Closing stdin may raise
\* BrokenPipeError, but only after a "go" that did, so the outcome is the same.
Close ==
    /\ wpc = "close"
    /\ Stop
    /\ wd' = Woken
    /\ wpc' = "final"
    /\ UNCHANGED <<userVars, clockVars, stdin, executed, simulation, visible,
                   timedOut, checked, outcome, holding, dataVars>>

\* The except and finally clauses of Run.work up to the "done" event.
Verdict(v) ==
    \/ cancelled /\ v = "stopped"
    \/ /\ ~cancelled
       /\ \/ outcome = "return" /\ v = "complete"
          \/ outcome = "limit" /\ v = "limit"
          \/ outcome \in {"error", "malformed"} /\ v = "error"
          \/ outcome \in {"none", "crash"} /\ v = runState

\* The file of a compiled program is removed here too; what happens when that
\* fails is in Compiler.
Conclude ==
    /\ wpc = "final"
    /\ Verdict(runState')
    /\ Goto("finish")
    /\ UNCHANGED <<userVars, clockVars, childVars, simVars, line, fetch, done>>

PublishDone ==
    /\ wpc = "finish"
    /\ done' = TRUE
    /\ Goto("ended")
    /\ UNCHANGED <<userVars, clockVars, childVars, simVars, line, fetch, runState>>

Prepare == AcquireCompiler \/ Compile \/ ReadCancelled \/ CreateSimulation

Check == CheckDeadline \/ CheckStopped

LookupTables ==
    \/ AcquireClassifier \/ RetryClassifier \/ ReadCache
    \/ PollReply \/ TakeReply \/ UseReply \/ ReturnTables

Launch == WriteTables \/ Spawn \/ AssignProcess

ReadOutput == ReadLine \/ ReadEof \/ HandleLine

AskPermission ==
    \/ BlockAtFetch \/ PassFetch \/ WakeAtFetch \/ ConfirmFetch \/ WriteGo

EndRun == CloseStdin \/ Reap \/ Close \/ Conclude \/ PublishDone

Worker ==
    \/ Prepare \/ Check \/ LookupTables \/ Launch \/ ReadOutput
    \/ AskPermission \/ EndRun

-----------------------------------------------------------------------------
(* Run.control *)

Command ==
    /\ ~done
    /\ commands < MaxCommands
    /\ commands' = commands + 1

ControlRun ==
    /\ Command
    /\ mode' = "run"
    /\ credits' = 0
    /\ UNCHANGED <<cancelled, allowed, clockVars, childVars, simVars, ctlVars, dataVars>>

\* Faulty variant of ControlPause: unspent steps survive the pause.
ControlPauseKeepingCredits ==
    /\ Command
    /\ mode' = "pause"
    /\ allowed' = executed
    /\ UNCHANGED <<credits, cancelled, clockVars, childVars, simVars, ctlVars, dataVars>>

ControlPause ==
    /\ Command
    /\ mode' = "pause"
    /\ credits' = 0
    /\ allowed' = executed
    /\ UNCHANGED <<cancelled, clockVars, childVars, simVars, ctlVars, dataVars>>

ControlStep ==
    /\ Command
    /\ mode' = "step"
    /\ credits' = credits + 1
    /\ allowed' = (IF mode = "run" THEN executed ELSE allowed) + 1
    /\ UNCHANGED <<cancelled, clockVars, childVars, simVars, ctlVars, dataVars>>

ControlStop ==
    /\ Command
    /\ cancelled' = TRUE
    /\ IF simulation
       THEN Stop /\ wd' = Woken
       ELSE UNCHANGED <<stopped, proc, out, wd>>
    /\ UNCHANGED <<mode, credits, allowed, clockVars, stdin, executed, simulation,
                   visible, timedOut, ctlVars, dataVars>>

Control == ControlRun \/ ControlPause \/ ControlStep \/ ControlStop

-----------------------------------------------------------------------------
(* Simulation.watchdog *)

WatchdogExpires ==
    /\ wd = "look"
    /\ ~stopped
    /\ pauseAge = Unpaused
    /\ Elapsed >= Deadline
    /\ timedOut' = TRUE
    /\ Stop
    /\ wd' = "gone"
    /\ UNCHANGED <<userVars, clockVars, stdin, executed, simulation, visible,
                   ctlVars, dataVars>>

\* Without a pause it waits for what is left of the deadline, in a pause for
\* as long as the pause lasts.
WatchdogWaits ==
    /\ wd = "look"
    /\ IF stopped
       THEN wd' = "gone"
       ELSE /\ pauseAge # Unpaused \/ Elapsed < Deadline
            /\ wd' = IF pauseAge = Unpaused THEN "sleep" ELSE "block"
    /\ UNCHANGED <<userVars, clockVars, childVars, simulation, visible, stopped,
                   timedOut, ctlVars, dataVars>>

\* The timeout of its wait.  A pause wakes it at once, so the time it sleeps
\* is the time the clock is charged.
WatchdogWakes ==
    /\ wd = "sleep"
    /\ Elapsed >= Deadline
    /\ wd' = "look"
    /\ UNCHANGED <<userVars, clockVars, childVars, simulation, visible, stopped,
                   timedOut, ctlVars, dataVars>>

Watchdog == WatchdogExpires \/ WatchdogWaits \/ WatchdogWakes

-----------------------------------------------------------------------------
(* The request thread, time, and the child process *)

RemoteReplies ==
    /\ fetch = "flight"
    /\ fetch' \in Replies
    /\ UNCHANGED <<userVars, clockVars, childVars, simVars, ctlVars, line,
                   runState, done>>

\* finished_at stops the clock.  Time past the deadline, or past the limit of
\* a pause, changes nothing more.
Tick ==
    /\ simulation
    /\ wpc \notin {"final", "finish", "ended"}
    /\ age' = age + 1
    /\ IF pauseAge = Unpaused
       THEN age < Deadline /\ UNCHANGED pauseAge
       ELSE pauseAge <= PauseLimit /\ pauseAge' = pauseAge + 1
    /\ UNCHANGED <<userVars, childVars, simVars, ctlVars, dataVars>>

\* The next instruction fetch; the CPU is held until the reply.
ChildFetches ==
    /\ proc \in {"run", "exec"}
    /\ executed < MaxFetches
    /\ out' = Append(out, "fetch")
    /\ proc' = "wait"
    /\ UNCHANGED <<stdin, executed>>

ChildGetsGo ==
    /\ proc = "wait"
    /\ stdin = "go"
    /\ stdin' = "empty"
    /\ executed' = executed + 1
    /\ proc' = "exec"
    /\ UNCHANGED out

ChildGetsEof ==
    /\ proc = "wait"
    /\ stdin = "closed"
    /\ proc' = "exit0"
    /\ UNCHANGED <<out, stdin, executed>>

\* An instruction makes at most one store: to the console,
ChildOutputs ==
    /\ proc = "exec"
    /\ out' = Append(out, "output")
    /\ proc' = "run"
    /\ UNCHANGED <<stdin, executed>>

\* or to the exit register.
ChildHalts ==
    /\ proc = "exec"
    /\ out' = Append(out, "halt")
    /\ proc' \in {"exit0", "exit1"}
    /\ UNCHANGED <<stdin, executed>>

\* A C++ exception (1) or the cycle limit (2).
ChildFails ==
    /\ proc \in {"run", "exec"}
    /\ proc' \in {"exit1", "exit2"}
    /\ UNCHANGED <<out, stdin, executed>>

Child ==
    /\ \/ ChildFetches \/ ChildGetsGo \/ ChildGetsEof
       \/ ChildOutputs \/ ChildHalts \/ ChildFails
    /\ UNCHANGED <<userVars, clockVars, simVars, ctlVars, dataVars>>

\* The run is over and every thread has ended.
Terminated ==
    /\ done
    /\ UNCHANGED vars

Next ==
    \/ Worker \/ Control \/ Watchdog \/ RemoteReplies \/ Tick \/ Child
    \/ Terminated

Spec == Init /\ [][Next]_vars

\* The operating system runs the threads of the server and its clock.  The
\* API may never answer, another run may keep the classifier lock, and the
\* child may compute without ever writing a line.
Fairness ==
    /\ WF_vars(Worker)
    /\ WF_vars(Watchdog)
    /\ WF_vars(Tick)

FairSpec == Spec /\ Fairness

-----------------------------------------------------------------------------
(* Properties *)

Lines == {"fetch", "output", "halt", "torn"}

\* Every variable has its type; the flags apart, for the proofs' sake.
FlagsOK ==
    /\ cancelled \in BOOLEAN /\ simulation \in BOOLEAN /\ visible \in BOOLEAN
    /\ stopped \in BOOLEAN /\ timedOut \in BOOLEAN
    /\ checked \in BOOLEAN /\ holding \in BOOLEAN /\ done \in BOOLEAN

TypeOK ==
    /\ FlagsOK
    /\ mode \in {"run", "pause", "step"}
    /\ credits \in Nat /\ allowed \in Nat /\ commands \in Nat
    /\ age \in Nat /\ pauseAge \in Nat \cup {Unpaused}
    /\ proc \in Alive \cup {"none", "exit0", "exit1", "exit2", "killed"}
    /\ out \in Seq(Lines)
    /\ stdin \in {"empty", "go", "closed"}
    /\ executed \in Nat
    /\ wd \in {"off", "look", "sleep", "block", "gone"}
    /\ wpc \in CheckSites \cup
          {"queued", "compile", "ready", "create", "tables", "popen", "assign",
           "read", "perm", "blocked", "go", "reap", "close", "final", "finish",
           "ended"}
    /\ outcome \in {"none", "return", "limit", "error", "malformed", "crash"}
    /\ line \in Lines \cup {"none"}
    /\ fetch \in {"none", "flight"} \cup Replies
    /\ runState \in {"compiling", "running", "paused", "complete", "stopped",
                     "limit", "error"}

\* The clock that is held against the five minutes never jumps: pausing and
\* resuming (app.py wait_for_permission, Simulation.pause) neither charge a
\* pause nor lose time that was charged.
ClockCharges ==
    [][\/ Elapsed' = Elapsed
       \/ /\ Elapsed' = Elapsed + 1
          /\ pauseAge = Unpaused /\ pauseAge' = Unpaused]_vars

\* Time that is not charged buys nothing: while the clock is paused the worker
\* waits for a command and the CPU waits at a fetch for "go".
FreeTimeIsIdle ==
    pauseAge # Unpaused =>
        /\ wpc = "blocked"
        /\ proc \notin {"run", "exec"}
        /\ stdin # "go"

\* An incomplete last line of a killed child is never parsed: the check at the
\* head of the read loop always comes first (engine.py, Simulation.run).
TornNeverParsed == outcome # "malformed"

\* Whatever path a run takes, when "done" is published its child is dead and
\* other runs can have the classifier.
ChildReaped == done => proc \notin Alive /\ ~holding

\* Fetch events the worker has not answered yet.
FetchInHand ==
    \/ wpc = "line" /\ line = "fetch"
    \/ wpc \in {"perm", "blocked", "granted", "go"}
FetchInPipe == \E i \in DOMAIN out : out[i] = "fetch"

OneFetchInPipe ==
    \A i, j \in DOMAIN out : out[i] = "fetch" /\ out[j] = "fetch" => i = j

OneUnanswered ==
    /\ OneFetchInPipe
    /\ FetchInHand => ~FetchInPipe
    /\ FetchInHand \/ FetchInPipe => stdin # "go" /\ proc \notin {"run", "exec"}

\* The loop over the output is left, or about to be.
LoopLeft == wpc \in {"eof", "reap", "close"}

NoFetchLost ==
    proc = "wait" => FetchInHand \/ FetchInPipe \/ stdin = "go" \/ LoopLeft

\* The pipes keep server and CPU in lockstep: at most one fetch is unanswered,
\* a "go" answers exactly one fetch, and an unanswered fetch holds the CPU; and
\* the CPU and the worker never wait for each other, because a CPU that waits
\* has its fetch or its "go" on the way for as long as the worker reads.
Lockstep == OneUnanswered /\ NoFetchLost

\* k Steps after a Pause let at most k instructions through, and the one that
\* had its permission before the Pause (Run.control and wait_for_permission).
StepBudget == mode # "run" => executed <= allowed + 1

\* The run implements the promise made to the visitor.
Contract == INSTANCE RunContract WITH
    pace    <- IF mode = "run" THEN "free" ELSE "metered",
    expired <- timedOut,
    passed  <- proc = "exit0",
    verdict <- IF wpc \in {"finish", "ended"} THEN runState ELSE "undecided",
    over    <- done
ContractSpec == Contract!Spec

Stage ==
    IF wpc = "queued" THEN "queued"
    ELSE IF wpc \in {"compile", "ready"} THEN "compile"
    ELSE IF wpc \in {"final", "finish", "ended"} THEN "over"
    ELSE "simulate"

\* The compiler that is one step here is the one Compiler has, see there.
Phase == INSTANCE CompilePhase WITH stage <- Stage, cancelled <- cancelled
PhaseSpec == Phase!Spec

\* Once the child can be seen, the run ends, whatever the child, the API and
\* the visitor do: the watchdog is woken by every end of a pause, and a pause
\* does not last forever.
LaunchedRunEnds == visible /\ ~stopped ~> done

\* The classifier lock is given back although the API never answers
\* (the comment at the head of Simulation.classify).
StalledApiReleased == holding ~> ~holding
=============================================================================
