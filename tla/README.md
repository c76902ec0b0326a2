# A verification of the RISC-jeV server

RISC-jeV runs RV32I programs on a gate-level simulation of the SERV processor
whose Boolean gates are answered by a language model. A web page starts a run,
watches its instructions, and steps, pauses and stops it. This directory holds
TLA+ models of the parts of the program in which threads, processes, files,
connections and clocks meet, and of the translation of the processor, the TLC
configurations that check them on small instances, and proofs that TLAPS checks
for all instances.

## The system

| Part | Source | State | Operations | Talks to |
| --- | --- | --- | --- | --- |
| Run | `app.py` `Run` | mode, credits, cancelled, pause, state, done | `work`, `control`, `wait_for_permission`, `emit` | simulation, page |
| Simulation | `engine.py` | clock, stop flag, deadline flag, child process | `run`, `lookup_tables`, `classify`, `check`, `pause`, `stop`, `watchdog` | API, cache, child |
| CPU simulator | `sim.cpp` | registers, RAM, waveform ring | one cycle; fetch, wait for `go`, store, halt | its two pipes |
| Classifier cache | `jev.py`, `engine.py` | the file with the answers, its temporary file, `classifier_lock` | `load_cache`, `save_cache`, `request` | API, disk |
| Event stream | `app.py` `emit`, `events`; `app.js` `accept` | history of 12000 events, generators, page log | emit, read, send, accept, reconnect | HTTP |
| Admission | `app.py` `start_run`, `compilation_delay`, `limits` | jobs, rate tables | start, refuse, evict | Run |
| Page | `app.js` | `runId`, `stream`, `generation`, `starting`, `terminal`, `program` | `start`, `reset`, the tabs, `accept` | control, stream |
| Server threads | gunicorn, one process with 12 or 16 threads | busy threads | one request each | all routes |
| Netlist translator | `netlist.py` | none (a function) | check drivers, order gates, sort by level | `sim.cpp`, through a header |
| Compiler, sandbox | `compiler.py`, `sandbox.c` | temporary directories, `custom-<id>.bin`, `compiler_lock` (in `app.py`) | compile a visitor's C | Run, gcc, objcopy, objdump |
| Command line | `run.py` | none | `run`, `classify`, `netlist` | cache, simulation |

A run is served by four threads and one process: the worker (`Run.work`), the
HTTP threads that handle control requests, the watchdog of the deadline, a
thread that waits for the API, and the child `serv_sim`, which stops at every
instruction fetch until it reads `go`. `Run.condition` is always taken before
`Simulation.changed`; the flags that `Simulation.check` and `Run.work` read are
read without a lock.

What is hard here, and what makes each part correct:

- *Run and simulation.* Stop, the deadline, pause expiry and the end of the
  program race. A run must end, with its child dead and the shared lock
  released; a Step must let exactly one instruction through; pauses must not be
  charged; the verdict must match what happened.
- *Cache.* Several runs, requests that come back late, a crash between write
  and rename. The file must always be a complete record and misses must share
  one fill.
- *Stream.* Batches are encoded outside the lock while `emit` changes the
  events in them; connections drop. The page must see each event once, in
  order, and the last one.
- *Admission.* Sliding windows, two waiting times at once, tables that are
  thrown away, eviction among running jobs.
- *Page.* `start` and `reset` wait for the server, and anything can happen to
  the page meanwhile. A run that goes on must be the page's run or on its way
  to be stopped; the page must not take a running program for ended, and must
  not leave its buttons disabled.
- *Compiler.* Tools fail or hang, a visitor stops the run, the disk fails. One
  compiler at a time, nothing left behind, and everybody gets a turn.
- *Netlist.* The simulator evaluates each gate once per pass and takes what it
  finds for the value of the circuit. The order must be right for every
  circuit that is accepted, and the wrong ones must be rejected.

`PROJECT.json` lists each of these hazards at its line with the properties that
cover it.

## The modules

| Module | What it is |
| --- | --- |
| `RunSession` | one run: worker, control, watchdog, request thread, child, time |
| `RunContract` | what the server promises about a run; `RunSession` implements it |
| `CompilePhase` | what the rest of a run sees of the compiler; `Compiler` and `RunSession` implement it |
| `MCRunSession` | liveness under stronger assumptions; statements of docs and tests the code does not keep |
| `RunSessionProofs` | the inductive invariant of `RunSession`, theorems, both refinements, what Stop leaves of a run |
| `TableCache` | `lookup_tables` of several runs, the cache on disk, crashes, processes |
| `SharedTables` | one atomic cell; `TableCache` implements it |
| `MCTableCache` | a server alone, a server with a command line run beside it |
| `TableCacheProofs` | for any number of runs and crashes of one server: the cache is one atomic cell |
| `EventStream` | `emit`, the generator of the events route, the connection, the page's EventSource |
| `StreamContract` | what the server promises the page about the events of a run; `EventStream` implements it |
| `EventStreamProofs` | for any history and any number of events and lost connections: what the page sees, and the refinement |
| `Admission` | `start_run`, `compilation_delay`, `limits`, the list of jobs |
| `MCAdmission` | symmetry of the visitors |
| `AdmissionProofs` | for any visitors, limits and windows: every limit holds |
| `Subsequences` | what a list comprehension with a condition returns, for `EventStream` and `Admission` |
| `SubsequenceProofs` | its order and its elements, and how many of them are of a kind |
| `Netlist` | `translate`, and the class `CPU` that runs its result |
| `MCNetlist` | the nets, gates and flip-flops of the small circuits |
| `NetlistProofs` | for every circuit: what is rejected, that one pass settles, and that the circuit is a function |
| `Compiler` | `compile_source` and `Run.work` around it |
| `CompilerProofs` | for any number of runs and faults: one compiler, nothing left behind, everybody gets a turn |
| `Page` | `start`, `reset` and the tabs of `app.js`, the server, lost messages |
| `PageProofs` | for any number of presses: which runs the page can forget, and that no call is stuck |

### RunSession

A critical section is one action; outside of them, everything another thread
can see is an action of its own. `wpc` is the line of the worker; `CheckSites`
are the calls of `Simulation.check`, which is two actions because it reads the
deadline and then the stop flag. `checked` says the worker is between the two.
The variables follow the attributes of the code: `mode`, `credits`, `cancelled`,
`runState`, `done` of `Run`; `stopped`, `timedOut`, `visible` (`process` is
set) of `Simulation`. The clock is kept as the code computes it:
`age` is now - started - paused, `pauseAge` is now - pause_started, and
`Elapsed` is what `Simulation.elapsed` returns. The pipe to the worker is the
sequence `out` of lines, the other one holds at most one word. `KillChild`
leaves an incomplete line when the signal comes while the child writes.
`Stop` sets its flags and terminates the child in one action, which stands for
the moment of `terminate`: the flags are set a little before, under no lock the
CPU knows of, and a CPU that has its `go` by then may still execute that one
instruction. `allowed` is a history variable: how many instructions the commands have paid
for. It is there for `StepBudget` and for the contract.

Abstracted: the content of lines, tables and requests (an API reply is good,
over budget, refused, or has a null usage), events (only the worker emits
them), and the other runs, which hold the classifier lock as long as they
like. The compiler, with the wait for its lock, succeeds or fails. A record of
the cache that `load_cache` cannot take apart ends the run as an unexpected
exception does (`Leave("crash")`). An `unlink` that fails before `done` is in
`Compiler`, not here; a second broken pipe when the child's pipes are closed
changes no outcome and is left out.

### TableCache

Files are inodes, so that a name that is renamed and a writer that still has
the old inode open are different things. Answers are named after the run that
asked, which lets `SharedTables` say that a run gets what is on disk or what it
wrote there itself. `Stop` is `Simulation.stop`, by a visitor or by the
watchdog, and may come at any line from which a `check` is still to come
(`Checked`); from then on the run can only `GiveUp`, also with a reply in its
hands. After the last `check` of `classify` nobody looks any more, and the reply
is saved. In `SharedTables` a stopped run is `out`, so a late reply that is used
or saved has no step there. A crash takes the runs, locks, open files and
requests of a process and leaves the disk; runs that have not begun belong to
the process that comes after it.

### EventStream

An event is its number; `waves` is the set of events whose dictionary has its
waveform now, since the history and the batches share the dictionaries. `Read`
is the critical section of the generator and `Send` the encoding after it,
with the waveforms that are left by then. A lost connection loses what is on
the wire; the next one starts after `lastEventId`. Generators of lost
connections only read and are left out. `Newer` is the list comprehension of
the generator, written with `At`, which picks the elements of a list at some
places and keeps their order. `SelectSeq` says the same by recursion, which the
proofs could not use.

### Admission

A request is one action (it holds `jobs_lock`). Times are kept as ages, which
`compilation_delay` compares with a minute at most, so older ones are one value
and the model needs no bound on time, nor, with identifiers reused, on the
number of runs. `starts`, `compiles` and `promise` are history. `Recent` and
`Evict` are lists with elements left out, as in the code, and use `At` too.

### Netlist

A gate is the list of nets it reads and the net it drives; names and kinds of
cells are left out, because what a gate answers comes from the language model
and may be anything (`Table`). The first part goes through `translate`: cells
in any order, `producers`, `pending` and `ready` as in the code, one action for
each gate that leaves the queue. `Ascending` is the order in which Python puts
a set of numbers into a list by index. The second part is the main loop of
`sim.cpp` seen from the wires: two passes of `evaluate` in a cycle, with what
the host writes to the ports before each, and an edge. `Table`, `Ports` and the
initial values are arbitrary (any wire with a driver may have one, of a register
or not), so the proofs are about every processor, not
about SERV.

### Compiler

One action for each operation of the system in `compile_source`, because each
may fail: `failed` remembers which did. A tool is a process that runs and then
has ended well or badly until it is reaped; `program` is what the directory
holds. `Expire` and `Kill` are the twelve seconds. The simulation is one step,
since `RunSession` has it, and `RunSession` takes the compiler for one step in
turn. Both are shown to implement `CompilePhase`, in which a run waits, compiles and is
simulated or over, and Stop may come at any time; lock, tools, files and faults
are invisible there. Only here a thread can die before it publishes `done`.
In `pc`, "stuck" is a thread that died in the finally clause of `work`.

### Page

The code from one `await` to the next is one action. A press that calls `start`
has a number, its request and its run have the same. `ran` is the program it
has asked for. Whether a button is enabled is in the guards of `PressStart` and
`PressRestart`: both need `starting` to be false. `races` is history: it
records the three things that happen to the page between an `await` and what
follows it, which the code does not expect ("twice", "late", "tab", see
below), each with the generation in which it happens. The properties allow for
it in that generation only: what went wrong must not outlive the next reset. The server may refuse or create a run, ends it when it likes, forgets
ended runs, and any message or its answer may get lost.

"Faulty variant" operators, each before the definition it varies, are not used
by the specifications. Substituted for that definition they make the property
named in `PROJECT.json` fail, which shows that the property watches that code.

## What is checked

| Run | Shows | Distinct states |
| --- | --- | --- |
| `run_session` | safety of a run and `RunContract`: deadline 2, pause limit 1, 3 fetches, 3 commands | 329,194 |
| `run_session_live` | every run ends; a stalled API does not keep the lock: 2 fetches, 2 commands | 118,460 |
| `table_cache` | 3 runs (one fresh), one crash: `SharedTables`, complete records, no starvation | 58,663 |
| `event_stream` | `StreamContract` and liveness: 5 events, history of 3, 2 lost connections | 25,058 |
| `admission` | 2 visitors, 2 active of 2 remembered runs, 2 starts and 2 compiles a window | 1,037,112 |
| `netlist` | 3 gates of 33, 2 flip-flops of 4, in every order of the file; 7 nets | 970,658 |
| `compiler` | 2 runs, 3 faults | 45,096 |
| `page` | 3 starts, 3 resets or tabs, 2 programs, 1 lost message | 1,575,186 |
| `run_stop_reaches_simulation` | a Stop that is lost before the simulation exists | violation |
| `run_deadline_reported` | a run killed at the deadline that reports `error` | violation |
| `run_final_state` | a null usage ends a run in the state `running` | violation |
| `table_cache_two_processes` | server and command line share the temporary file | violation |

The properties, in words:

- `FreeTimeIsIdle`, `ClockCharges`: while the clock stands, the worker waits at
  a fetch and the CPU waits for `go`; the clock moves by time alone, never by a
  pause or a resume.
- `StepBudget`: after a Pause, k Steps let at most k instructions through, and
  the one that already had its permission.
- `Lockstep`, `TornNeverParsed`: one unanswered fetch at most, a `go` for each
  fetch only, no fetch is lost while the CPU waits for its `go` (so server and
  CPU never wait for each other), and no incomplete line is parsed.
- `ChildReaped`: with `done`, the child is dead and the lock is free.
- `ContractSpec`: `RunContract` is implemented. Nothing executes after Stop or
  after the deadline has struck; `stopped` is reported exactly for cancelled
  runs; `complete` needs a program that passed, or a deadline that fell between
  the two reads of `check`.
- `LaunchedRunEnds`, `EveryRunEnds`, `StalledApiReleased`: see the table.
- `CacheReadable`, `TablesOnDisk`, `EveryRunServed`: the cache file, and that
  nobody waits for ever.
- `SharedSpec`: `SharedTables` is implemented. A cell is read and replaced at
  once, runs that miss it together ask once, and a run that was stopped gets
  nothing and leaves no answer, however late its reply comes.
- `StreamSpec`: `StreamContract` is implemented. Batches, generators, the wire
  and lost connections come down to blocks of events without a gap but for
  those the history has dropped; `done` is the last.
- `InOrderOnce`, `EndsComplete`, `FinalWaveform`, `PageLearnsEnd`: the page's
  log on top of that.
- `ActiveBounded`, `StartsBounded`, `CompilesBounded`, `CooldownKept`,
  `RetrySuffices`: admission; eviction never forgets a run that is active.
- `VerdictExact`: `translate` rejects a netlist exactly if a net has two
  drivers or none, or gates form a loop, although it only counts.
- `PassSettles`, `ClockEdge`: after one pass no gate disagrees with its inputs,
  whatever the gates answer and whatever the wires held before; an edge comes
  only after that, and registers that feed each other swap.
- `SortKeepsOrder`: the queue already emits by level, so that the sort at the
  end moves nothing.
- `OneCompiler`, `NothingLeftBehind`, `CompileEnds`: one tool at a time, also
  after a kill; what a run leaves on the disk and why; a queue of runs drains
  although tools hang.
- `NoOrphan`, `PageTruthful`: the page, with the exceptions below, each for the
  generation or the run it happens to and no other.

### Bounds

A deadline of two ticks lets it strike before, in and after a pause, and a
pause limit of one tick lets a pause end by command, by expiry, or by both at
once. Three fetches and three commands allow a Step, a Pause and another
command around one instruction in flight; the proofs remove these bounds.
Five events in a history of three lose two of them; two lost connections let
the second interrupt the recovery from the first. In `Admission` the cooldown
is not a whole number of seconds, so the rounding of Retry-After matters, and
tables of two visitors overflow, which stands for 10000. Two jobs are
remembered and two may be active, so eviction meets a full list with one job
running. Three gates make a loop of two beside a good gate, a chain of three
levels, and a gate that reads two others; the gates of `MCNetlist` also read a
constant, a net twice, a net nobody drives. Three faults let one run lose
everything it may lose and the other still meet one. In `Page` the
races between calls of `start` take three of them. What TLC checks within these
bounds the proofs show without them, but for liveness.

### Fairness

`RunSession`: weak fairness of the worker's steps (a waiting worker wakes up
every 30 seconds at the latest, every other wait of its has a timeout or ends
with the child), of the watchdog, and of time. None for the API or for control
requests. The worker gets the compiler lock in the end, because other runs give
it back: `CompileEnds` of `Compiler` shows that, tools that hang included. It need not
get the classifier lock, which it tries for 25 ms at a time with a `check` in
between; it gets it or gives up. The child need not make progress in
`LaunchedRunEnds`; `EveryRunEnds` assumes that it does (`ChildComputes`),
because a run that is stopped while `Popen` runs waits for the child's next
line or its end. `MAX_CYCLES` bounds the child's loop.

`TableCache`: weak fairness of each run's steps, of giving up once it has been
stopped, and of the `Stop` of a run that waits for the API, which is what the
deadline does (`StalledApiReleased`). Nobody has to press Stop, and the API may
never answer.

`EventStream`: weak fairness of the generator and of the page; connections are
lost finitely often, and a run the server has deleted is an exception of
`PageLearnsEnd`.

`Compiler`: weak fairness of each worker's thread. It justifies the timeout,
since `process.wait` returns after twelve seconds at the latest; nothing makes
a tool end, and the lock is fair to nobody. Each run compiles once, so a run
that waits is passed by finitely many others. That `process.wait()` returns
after SIGKILL is part of `Kill`.

`Admission`, `Page` and `Netlist` state safety only.

## What is proved

`RunSessionProofs` proves, for every deadline, pause limit, program length and
number of commands: type correctness, `FreeTimeIsIdle`, `TornNeverParsed`,
`ChildReaped`, `Lockstep`, `StepBudget` as invariants, `ClockCharges` as an
action property, and `Spec => ContractSpec`. The only assumption is
`BoundsAssumption`: the constants are natural numbers and the deadline is not
zero.

None of the properties is inductive alone. `IInv` adds to them:

- `ClockInv`: a pause lasts exactly as long as the worker is blocked, and is
  part of the age;
- `LifeInv`: which of simulation, child and lock exist at which line;
- `TornInv`: only `Stop` kills, so an incomplete line implies the stop flag,
  and before the end the stop flag implies a cancelled or expired run;
- `RevokedInv`: no permission is on its way to a child of a run that is
  cancelled or stopped (why nothing executes after Stop);
- `BudgetInv`: executed + credits + in flight is at most allowed + 1;
- `OutcomeInv`: what each way out of `Simulation.run` says about the run, which
  the verdict is made from.

There is a lemma for each group of actions (`PreparePreserves`,
`CheckPreserves`, ...), with one step for each conjunct. `KeepsContract` maps
each action to an action of `RunContract` or to a stutter (`WorkerRefines`,
`ControlRefines`, `WatchdogRefines`, `ChildRefines`). What a reader of
`RunContract` can conclude is proved from the contract alone, so it holds of
whatever implements it: a verdict agrees with what happened to the run
(`PromiseTruthful`), and Stop, the deadline, the verdict and the end are for
good, with no instruction after them (`PromiseForGood`). `RunIsTruthful` carries
both over to `RunSession`. `KeepsPhase` is the refinement of `CompilePhase`.

Who waits for whom needs a second invariant, `LiveInv`: the fetch of a waiting
CPU is in the pipe or in the hands of the worker, unless the loop is left
(`NoFetchLost`, the second half of `Lockstep`), and the watchdog waits without a
timeout only in a pause (`WatchdogArmed`). From it follow `WatchdogWatches` (no
wake-up of `pause` or `stop` is lost, so a simulation always has something under
way that ends it) and `NoDeadlock` (server and CPU never wait for each other).
`StopEndsRun` says what is left of a run after `Simulation.stop`: at most 38
steps of the worker, of which each takes one or more away and nothing gives one
back, because the loops of the program all pass a `check`. It also names the
two places where such a worker may still have to wait: for the output of a CPU
that was started while Stop came, and in a pause that began after the watchdog
had struck, since `wait_for_permission` looks at `cancelled` only; `PauseLimit`
ends that one.

`NetlistProofs` proves type correctness, `VerdictExact`, `PassSettles`,
`SortKeepsOrder` and `ClockEdge` for every circuit. `IInv` says what the
counters mean: `pending[i]` is the number of gates that `i` reads and that have
not been emitted (`WaitInv`), and the queue holds exactly the gates with none
left (`ReadyInv`). With it, an emitted gate comes after its inputs and above
their levels (`OrderInv`), no set of emitted gates is a loop (`NoLoopInv`), and
if the queue runs empty early, the gates that are left are one. Sorting by
level keeps a gate behind its inputs (`ProgramInv`), so a pass never changes a
wire that a gate before has read (`PassInv`). The assumption is
`NetlistAssumption`: gates read at least one net, and the table answers with
bits. `LevelInv`, on top of it, says that the queue holds gates of one level
followed by gates of the next, which is why the sort moves nothing.
`CircuitIsFunction` says what `PassSettles` is for: the constants, ports and
registers leave exactly one value to every other net (`OneValue` by the absence
of loops, `SomeValue` by building the values along the order), and a pass
computes it, whatever the nets held before. The lemmas
about sequences without repetition count by the pigeonhole facts of
`FiniteSetTheorems`.

`CompilerProofs` proves type correctness, `OneCompiler` and
`NothingLeftBehind` for any runs and any number of faults, and that what is
simulated is a whole program (`SimulatesWhole`). The invariant ties the lock to
the lines under it, a process to the wait, the directory and the file to the
lines where they exist or to the fault that left them, and the file to the tool
that has completed it (`ToolInv`). `LockIsPassedOn` adds that as long as a run
is not over some run can take a step, and `RunsComeToAnEnd` that a run has 26 of
them at most, however its tools end and whatever fails. `RunsKeepPhase` shows
that each run implements `CompilePhase`.

`PageProofs` proves type correctness, `NoOrphan` and `PageTruthful` for any
number of presses, resets, tabs and lost messages. The invariant says what is
under way in the page's generation (`Expected`: at most one call that has asked, none that
waits for its reset besides, and the page knows of it, unless the generation is
`Raced`; `AskingExpected` and `AskingAlone` are the two ways to ask), that a call which stops its run is of an older
generation (`CallInv`), what the page's run and its streams are (`RunInv`), for
which calls the server has a run (`ServerInv`), and whose program it is
(`TabInv`). `EveryCallGoesOn` says that what a call or a tab awaits is on its
way, has come or has failed (`SentInv`), and that buttons are disabled only
while a request for a run is under way.

`TableCacheProofs` proves type correctness for any processes and, under
`OneServer` (all runs belong to one server), `CacheReadable`, `TablesOnDisk` and
`Spec => SharedSpec`. The run `table_cache_two_processes` shows that the
assumption is needed. Under the lock there is one run at most (`LockInv`); the
file it writes is not the one the name of the cache refers to, and has been
written when it is renamed (`FileInv`); and what a run has loaded or has found
missing is still what is on the disk (`ViewInv`), because nobody else renames
while it holds the lock. There is always a free inode, by counting
(`NewInodeFree`). `StepRefines` maps `LoadHit` and `Rename` to the steps of the
cell, whatever ends or stops runs to `Leave` (`LeftGrows`, `StepOfLeave`), crashes
too, and everything else to stutters (`NextRefines`). From
`SharedTables` alone follow what the runs rely on (`PromiseShares`): runs that
accept cached tables ask for them once among them all, a run's answer can be
traced to who asked, a run that was stopped or failed leaves no trace, and tables
are for good; `RunsShareTables` carries this over to
`TableCache`. `LockIsPassedOn` and `LookupsComeToAnEnd` (eight steps at most) are
proved for any processes, without `OneServer`.

`EventStreamProofs` proves type correctness, `InOrderOnce`, `OnlyEvictionLoses`,
`EndsComplete` and `FinalWaveform` for any capacity, number of events and of
lost connections, and `Spec => StreamSpec`. The history is an interval of numbers (`HistoryInv`).
`Carries(s, from, newest)` says that a message takes a page that has seen all up
to `from` to the last of `s`, and that what is missing has left the history. The
messages on the wire form a chain of these from `lastEventId` to `after`, where
the batch in the hands of the generator goes on (`WireInv`, `BatchInv`), `log`
is what came before (`LogInv`), and an event that has the newest waveform still
has it when it is put on the wire (`WaveInv`). `KeepsContract` maps a delivery to
the one step `Learn` of `StreamContract`, and generators, sends and lost
connections to stutters. From the contract alone follow `Informed` and
`NothingLate` (`PromiseInforms`): the page misses dropped events only, is
complete only with the last, and never gets an event late. `NeverLeftWaiting`
says that a page which expects something has somebody who will bring it, and
`EndComesNearer` that after `done` every step, lost connections too, lowers a
natural number.

`AdmissionProofs` proves type correctness, `ActiveBounded`, `StartsBounded`,
`CompilesBounded`, `CooldownKept` and `RetrySuffices` for any visitors, limits,
windows and table sizes. The assumption, `AdmissionAssumption`, is that the
limits are positive, that no more runs may be active than are remembered and
that the cooldown is no longer than the window. The argument counts: for every
age below the window, a visitor has at least as many stamps in `rate_limits` as
runs that are no older, and `compile_times` has as many as there are compiles
(`StartsInv`, `CompilesInv`), and the lists have a bound. Eviction makes room
because a full list of different runs (`JobsInv`) holds one that is done when
fewer than `MaxActive` go on (`RoomFacts`). What `compile_limits` remembers of a
visitor is never older than a compile of the visitor (`CooldownInv`). The time a
visitor is told to wait covers both delays, and each tick takes one from each
that is left (`PromiseInv`, `TickDelays`): while no stamp leaves the window the
oldest stays first, and when one leaves there are fewer than `MaxCompiles`.

Only model-checked is liveness, which needs fairness and ENABLED:
`LaunchedRunEnds`, `EveryRunEnds`, `StalledApiReleased`, `EveryRunServed`,
`PageLearnsEnd` and `CompileEnds`. The safety half of the argument for each is
proved, for all constants: whoever waits, waits for somebody who can go on
(`WatchdogWatches` and `NoDeadlock`, `LockIsPassedOn` twice, `NeverLeftWaiting`),
and what is left gets less with every step (`StopEndsRun`, `LookupsComeToAnEnd`,
`EndComesNearer`, `RunsComeToAnEnd`). What remains with TLC is that "can go on"
in these theorems means ENABLED, and that fair threads then do. The proofs take `At` as it is defined; that
a comprehension of Python does the same is by reading.

## Where code and documents disagree

Four runs expect a violation; `PROJECT.json` quotes the lines.

1. A Stop between the last read of `cancelled` and the creation of the
   simulation does not stop it; the run still queries the API.
2. A run killed at the deadline can report `error`, through the broken pipe (the
   trace of the run), or `complete`, when the watchdog acts between the two reads
   of `check` (by the same property, in another trace).
3. `"usage": null` in a reply ends the run with `done` in the state `running`.
4. `run.py run --fresh` beside a server can leave a half-written cache.

Properties of the other modules name cases in which the code does less than one
would like. No document promises more, so they are exceptions in the property
rather than violations. The property states what they cost and to whom: the page
is wrong until its next reset and not longer, a lost message costs the run it is
about, a failing operation leaves the one thing it was to remove.

- *Run pressed twice on an ended run* ("twice", `app.js:201`). The first press
  waits for the stop of the old run inside `reset`, with `starting` false. A
  second one starts a run; when the first goes on before that run has an id, it
  starts another in the same generation, and the page forgets one of the two.
- *A late end of a start* ("late", `app.js:218-219`). After Reset and a new
  start, the catch and finally clauses of the old one set `terminal` and clear
  `starting` for the new one, without a look at the generation.
- *Run pressed while a tab waits for its reset* ("tab", `app.js:231`). The old
  program runs, and the page then shows the new one.
- *A stop that is lost* (`app.js:198`). The page has forgotten the run already,
  and nobody tries again.
- *Operations that fail in a finally clause.* If `rmtree` fails
  (`compiler.py:76`), the directory stays, the compiled program is thrown away
  and `custom-<id>.bin` remains. If `unlink` fails (`app.py:179`), `done` is
  never published and the run counts among the six for good; the runs behind it
  get their turn (`CompileEnds`).
- *Tables of more than 10000 visitors* (`app.py:240`, `app.py:251`). They are
  thrown away with the starts and cooldowns in them, and `StartsBounded` and
  `CooldownKept` count from there; `CompilesBounded` holds across it.
- *A page that comes back after its run was deleted* (`app.py:245`) gets 404 and
  stays on Reconnecting, the exception of `PageLearnsEnd`.
- *A pause that expires while Run is pressed* (`app.py:129`). If the worker reads
  the clock before it sees the permission, the run is cancelled. What follows is
  then what `ContractSpec` promises of a cancelled run.

## Not modelled

- `sim.cpp`: memory, bus addresses and the waveform ring; what SERV computes.
- `netlist.py`: checks of cell names and clocks, conflicting initial values, the
  text of the header, and the trace signals.
- `sandbox.c`, `compiler_root.py`: limits of the operating system, and the
  preparation of the image. A crash of the server while it compiles: directory
  and file stay, since nothing looks for them at the next start, and in the
  chroot variant the tools are not tied to the server's life.
- The thread pool of gunicorn. Each stream holds a thread, and a generator that
  waits does not notice that its page is gone; enough pages on paused runs take
  all of them. How many there are is a matter of the deployment.
- `app.js`: cooldown, editor, pause and step of a run (their server side is in
  `RunSession`), and drawing. `state` matters to the labels and to which of
  pause and run a press sends.
- Validation of requests, headers, templates; `run.py netlist` and `classify`;
  firmware, tests, `share_card.py`; `uv`, Docker and Railway files.

## Plan

Done, in this order: `RunSession`, `RunContract` and their proofs;
`TableCache`, `SharedTables`; `EventStream`, `Admission`; `Netlist`,
`Compiler`, `Page` with their proofs; the proofs of `TableCache`, `EventStream`
and `Admission`; `StreamContract`, `CompilePhase`, what follows from the
contracts, and who waits for whom. What is left:

1. `ServerThreads`: streams, their orphans and control requests on a bounded
   pool, with paused runs. Property: a control request is served in the end.
2. `Simulator`: the waveform ring and the memory of `sim.cpp`.
3. The editor and the cooldown of the page, against `Admission`.
4. `Admission` with times instead of ages, shown to implement the one with ages.
