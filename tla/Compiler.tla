------------------------------ MODULE Compiler ------------------------------
(***************************************************************************)
(* Runs with a program of the visitor: Run.work with compiler_lock around  *)
(* compiler.compile_source, which has three tools run in a sandbox, and    *)
(* what they leave on the disk.                                            *)
(*                                                                         *)
(* The tools are external: a tool ends well or badly or not at all.  What  *)
(* the system is asked to do with files and processes may fail, MaxFaults  *)
(* times in all.  The simulation is one step here; RunSession has it.      *)
(***************************************************************************)
EXTENDS Naturals, FiniteSets

CONSTANTS
    Runs,
    None,
    MaxFaults

ASSUME CompilerAssumption == None \notin Runs /\ MaxFaults \in Nat

VARIABLES
    pc,
    lock,        \* compiler_lock
    cancelled,
    tool,        \* which tool compile_source is at
    child,       \* the process of the tool
    directory,   \* there is a temporary directory
    program,     \* what the tools have left in it
    custom,      \* the file custom-<id>.bin
    named,       \* self.binary is custom-<id>.bin
    failed       \* what went wrong on the side of the system, of each run

files == <<directory, program, custom>>
vars == <<pc, lock, cancelled, tool, child, files, named, failed>>

Tools == {"gcc", "objcopy", "objdump"}
Operations ==
    {"mkdtemp", "stage", "Popen", "read", "write", "rmtree", "stat", "unlink"}

Init ==
    /\ pc = [r \in Runs |-> "queued"]
    /\ lock = None
    /\ cancelled = [r \in Runs |-> FALSE]
    /\ tool = [r \in Runs |-> "gcc"]
    /\ child = [r \in Runs |-> "none"]
    /\ directory = [r \in Runs |-> FALSE]
    /\ program = [r \in Runs |-> "none"]
    /\ custom = [r \in Runs |-> "none"]
    /\ named = [r \in Runs |-> FALSE]
    /\ failed = [r \in Runs |-> {}]

Faults == Cardinality({f \in Runs \X Operations : f[2] \in failed[f[1]]})

\* An operation of run r fails.
Fault(r, op) ==
    /\ Faults < MaxFaults
    /\ failed' = [failed EXCEPT ![r] = @ \cup {op}]

Goto(r, next) == pc' = [pc EXCEPT ![r] = next]

-----------------------------------------------------------------------------
(* work *)

\* The lock is taken.
Locks(r) == lock = None /\ lock' = r

\* Faulty variant of Unlocks: an exception leaves the lock locked.
UnlocksUnlessError(r) == lock' = IF failed[r] = {} THEN None ELSE r

\* The end of the with statement.
Unlocks(r) == lock' = None

TakeLock(r) ==
    /\ pc[r] = "queued"
    /\ Locks(r)
    /\ Goto(r, "look")
    /\ UNCHANGED <<cancelled, tool, child, files, named, failed>>

\* A run that was stopped while it waited compiles nothing.
Look(r) ==
    /\ pc[r] = "look"
    /\ IF cancelled[r] THEN Goto(r, "finish") /\ Unlocks(r)
                       ELSE Goto(r, "create") /\ UNCHANGED lock
    /\ UNCHANGED <<cancelled, tool, child, files, named, failed>>

\* The size of the file is reported; a run that was stopped meanwhile is not
\* simulated.
Compiled(r) ==
    /\ pc[r] = "compiled"
    /\ \/ Goto(r, IF cancelled[r] THEN "finish" ELSE "simulate") /\ UNCHANGED failed
       \/ Goto(r, "finish") /\ Fault(r, "stat")
    /\ UNCHANGED <<lock, cancelled, tool, child, files, named>>

\* However the simulation ends.
Simulated(r) ==
    /\ pc[r] = "simulate"
    /\ Goto(r, "finish")
    /\ UNCHANGED <<lock, cancelled, tool, child, files, named, failed>>

\* Faulty variant of Unlinked: a stopped run returns without it.
UnlinkedUnlessStopped(r) == named[r] /\ ~cancelled[r]

\* Whether the finally clause removes the file.
Unlinked(r) == named[r]

\* The finally clause of work.  If unlink fails, the run is never done.
Finish(r) ==
    /\ pc[r] = "finish"
    /\ \/ /\ custom' = IF Unlinked(r) THEN [custom EXCEPT ![r] = "none"] ELSE custom
          /\ Goto(r, "done")
          /\ UNCHANGED failed
       \/ /\ Unlinked(r)
          /\ Fault(r, "unlink")
          /\ Goto(r, "stuck")
          /\ UNCHANGED custom
    /\ UNCHANGED <<lock, cancelled, tool, child, directory, program, named>>

Over == {"done", "stuck"}

\* control, with Stop
Stop(r) ==
    /\ pc[r] # "done"
    /\ ~cancelled[r]
    /\ cancelled' = [cancelled EXCEPT ![r] = TRUE]
    /\ UNCHANGED <<pc, lock, tool, child, files, named, failed>>

-----------------------------------------------------------------------------
(* compile_source *)

\* mkdtemp is before the try: if it fails, there is nothing to remove.
Create(r) ==
    /\ pc[r] = "create"
    /\ \/ /\ directory' = [directory EXCEPT ![r] = TRUE]
          /\ Goto(r, "stage")
          /\ UNCHANGED <<lock, failed>>
       \/ /\ Fault(r, "mkdtemp")
          /\ Goto(r, "finish") /\ Unlocks(r)
          /\ UNCHANGED directory
    /\ UNCHANGED <<cancelled, tool, child, program, custom, named>>

\* The source and the start code are copied; the sandbox must be available.
Stage(r) ==
    /\ pc[r] = "stage"
    /\ \/ Goto(r, "spawn") /\ UNCHANGED failed
       \/ Goto(r, "cleanup") /\ Fault(r, "stage")
    /\ UNCHANGED <<lock, cancelled, tool, child, files, named>>

\* execute, up to Popen.
Spawn(r) ==
    /\ pc[r] = "spawn"
    /\ \/ /\ child' = [child EXCEPT ![r] = "runs"]
          /\ Goto(r, "wait")
          /\ UNCHANGED failed
       \/ /\ Fault(r, "Popen")
          /\ Goto(r, "cleanup")
          /\ UNCHANGED child
    /\ UNCHANGED <<lock, cancelled, tool, files, named>>

\* What a tool that ends well leaves in the directory.
Made(r) ==
    CASE tool[r] = "gcc" -> "elf"
      [] tool[r] = "objcopy" -> "bin"
      [] tool[r] = "objdump" -> program[r]

Ruined(r) == IF tool[r] = "objdump" THEN program[r] ELSE "torn"

\* The process of the tool ends by itself, and waits to be reaped.
ToolEnds(r) ==
    /\ child[r] = "runs"
    /\ \/ /\ child' = [child EXCEPT ![r] = "ended"]
          /\ program' = [program EXCEPT ![r] = Made(r)]
       \/ /\ child' = [child EXCEPT ![r] = "failed"]
          /\ program' = [program EXCEPT ![r] = Ruined(r)]
    /\ UNCHANGED <<pc, lock, cancelled, tool, directory, custom, named, failed>>

\* A tool that has failed, or was stopped by a limit of the sandbox, has an exit
\* code other than 0.
Succeeded(r) == child[r] = "ended"

\* process.wait returns, and the output is read.
Reap(r) ==
    /\ pc[r] = "wait"
    /\ child[r] \in {"ended", "failed"}
    /\ child' = [child EXCEPT ![r] = "none"]
    /\ \/ /\ Succeeded(r)
          /\ tool' = [tool EXCEPT ![r] = CASE @ = "gcc" -> "objcopy"
                                           [] @ = "objcopy" -> "objdump"
                                           [] @ = "objdump" -> "gcc"]
          /\ Goto(r, IF tool[r] = "objdump" THEN "read" ELSE "spawn")
          /\ UNCHANGED failed
       \/ ~Succeeded(r) /\ Goto(r, "cleanup") /\ UNCHANGED <<tool, failed>>
       \/ Fault(r, "read") /\ Goto(r, "cleanup") /\ UNCHANGED tool
    /\ UNCHANGED <<lock, cancelled, files, named>>

\* process.wait has not returned for twelve seconds.
Expire(r) ==
    /\ pc[r] = "wait"
    /\ Goto(r, "kill")
    /\ UNCHANGED <<lock, cancelled, tool, child, files, named, failed>>

\* Faulty variants of Killed: the process is left to itself; it is not waited
\* for again.
KilledNever(r) == child[r]

KilledUnreaped(r) == "killed"

\* The process after killpg; it may have ended before.
Killed(r) == "none"

\* killpg and the second process.wait.
Kill(r) ==
    /\ pc[r] = "kill"
    /\ child' = [child EXCEPT ![r] = Killed(r)]
    /\ program' = [program EXCEPT ![r] = IF child[r] = "runs" THEN Ruined(r) ELSE @]
    /\ Goto(r, "cleanup")
    /\ UNCHANGED <<lock, cancelled, tool, directory, custom, named, failed>>

\* The binary may be empty or too large.
ReadBinary(r) ==
    /\ pc[r] = "read"
    /\ \/ Goto(r, "write") /\ UNCHANGED failed
       \/ Goto(r, "cleanup") /\ UNCHANGED failed
       \/ Goto(r, "cleanup") /\ Fault(r, "read")
    /\ UNCHANGED <<lock, cancelled, tool, child, files, named>>

\* A write_bytes that fails may have written a part.
WriteBinary(r) ==
    /\ pc[r] = "write"
    /\ \/ /\ custom' = [custom EXCEPT ![r] = program[r]]
          /\ Goto(r, "return")
          /\ UNCHANGED failed
       \/ /\ \E part \in {"none", "torn"} : custom' = [custom EXCEPT ![r] = part]
          /\ Goto(r, "cleanup")
          /\ Fault(r, "write")
    /\ UNCHANGED <<lock, cancelled, tool, child, directory, program, named>>

\* The finally clause of compile_source, after an error ("cleanup") or with a
\* result; if rmtree fails, its exception takes the place of both.  work names
\* the result under the lock.
RemoveTree(r) ==
    /\ pc[r] \in {"cleanup", "return"}
    /\ \/ /\ directory' = [directory EXCEPT ![r] = FALSE]
          /\ program' = [program EXCEPT ![r] = "none"]
          /\ named' = [named EXCEPT ![r] = pc[r] = "return"]
          /\ Goto(r, IF pc[r] = "return" THEN "compiled" ELSE "finish")
          /\ UNCHANGED failed
       \/ /\ Fault(r, "rmtree")
          /\ Goto(r, "finish")
          /\ UNCHANGED <<directory, program, named>>
    /\ Unlocks(r)
    /\ UNCHANGED <<cancelled, tool, child, custom>>

-----------------------------------------------------------------------------

Work(r) == TakeLock(r) \/ Look(r) \/ Compiled(r) \/ Simulated(r) \/ Finish(r)

CompileSource(r) ==
    \/ Create(r) \/ Stage(r) \/ Spawn(r) \/ Reap(r) \/ Expire(r) \/ Kill(r)
    \/ ReadBinary(r) \/ WriteBinary(r) \/ RemoveTree(r)

AllOver == (\A r \in Runs : pc[r] \in Over) /\ UNCHANGED vars

Next ==
    \/ \E r \in Runs : Work(r) \/ CompileSource(r) \/ ToolEnds(r) \/ Stop(r)
    \/ AllOver

\* A thread that can go on does.  Twelve seconds pass, but nothing makes a tool
\* end; the lock is fair to nobody.
Fairness == \A r \in Runs : WF_vars(Work(r) \/ CompileSource(r))

Spec == Init /\ [][Next]_vars /\ Fairness

-----------------------------------------------------------------------------
(* What a run is for RunSession *)

StageOf(r) ==
    IF pc[r] \in {"queued", "look"} THEN "queued"
    ELSE IF pc[r] = "simulate" THEN "simulate"
    ELSE IF pc[r] \in {"finish"} \cup Over THEN "over"
    ELSE "compile"

Phase(r) == INSTANCE CompilePhase WITH stage <- StageOf(r), cancelled <- cancelled[r]

\* The lock, the tools, their files and the faults are invisible: a run waits,
\* compiles, and is simulated if nobody has stopped it.
PhaseSpec(r) == Phase(r)!Spec

-----------------------------------------------------------------------------
(* Properties *)

\* Every variable has its type.
TypeOK ==
    /\ pc \in [Runs -> {"queued", "look", "create", "stage", "spawn", "wait", "kill",
                        "read", "write", "cleanup", "return", "compiled", "simulate",
                        "finish", "done", "stuck"}]
    /\ lock \in Runs \cup {None}
    /\ cancelled \in [Runs -> BOOLEAN]
    /\ tool \in [Runs -> Tools]
    /\ child \in [Runs -> {"none", "runs", "ended", "failed"}]
    /\ directory \in [Runs -> BOOLEAN]
    /\ program \in [Runs -> {"none", "torn", "elf", "bin"}]
    /\ custom \in [Runs -> {"none", "torn", "elf", "bin"}]
    /\ named \in [Runs -> BOOLEAN]
    /\ failed \in [Runs -> SUBSET Operations]

\* The server has one active compiler (docs/architecture.md:17), also after a
\* tool that had to be killed, a failure of the system or a Stop.
OneCompiler ==
    \A r, s \in Runs : child[r] # "none" /\ child[s] # "none" => r = s

\* What a run leaves behind when it ends: no process; a directory only if it
\* could not be removed; custom-<id>.bin only if it could not be removed either,
\* or if compile_source failed after it had begun to write the file.
NothingLeftBehind ==
    \A r \in Runs : pc[r] \in Over =>
        /\ child[r] = "none"
        /\ directory[r] => "rmtree" \in failed[r]
        /\ custom[r] # "none" => failed[r] \cap {"write", "rmtree", "unlink"} # {}

\* Every run with a program of the visitor gets its turn and ends, stopped or
\* not, although a tool may hang; unless unlink fails in the finally clause.
CompileEnds == \A r \in Runs : <>(pc[r] = "done" \/ "unlink" \in failed[r])
=============================================================================
