--------------------------- MODULE CompilerProofs ---------------------------
(***************************************************************************)
(* Proofs about Compiler, for any number of runs and of faults: there is   *)
(* one compiler at a time, what is simulated is whole, and a run leaves on *)
(* the disk only what the system did not let it remove.                    *)
(***************************************************************************)
EXTENDS Compiler, TLAPS

-----------------------------------------------------------------------------
(* The inductive invariant *)

\* Where a run holds compiler_lock, and where it has a directory.
Compiling ==
    {"look", "create", "stage", "spawn", "wait", "kill", "read", "write", "cleanup", "return"}

Inside == Compiling \ {"look", "create"}

LockInv == \A r \in Runs : pc[r] \in Compiling => lock = r

ChildInv == \A r \in Runs : child[r] # "none" => pc[r] \in {"wait", "kill"}

DirectoryInv ==
    \A r \in Runs : directory[r] => pc[r] \in Inside \/ "rmtree" \in failed[r]

\* A file that is there has a name, is about to get one, or is left behind.
CustomInv ==
    \A r \in Runs : custom[r] # "none" =>
        \/ pc[r] = "return"
        \/ pc[r] \in {"compiled", "simulate", "finish"} /\ named[r]
        \/ failed[r] \cap {"write", "rmtree", "unlink"} # {}

\* How far the tools have come.
ToolInv ==
    \A r \in Runs :
        /\ pc[r] \in {"queued", "look", "create", "stage"} => tool[r] = "gcc"
        /\ pc[r] \in {"spawn", "wait"} /\ tool[r] = "objdump" => program[r] = "bin"
        /\ pc[r] = "wait" /\ tool[r] = "objcopy" /\ child[r] = "ended" => program[r] = "bin"
        /\ pc[r] \in {"read", "write"} => program[r] = "bin"
        /\ pc[r] \in {"return", "compiled", "simulate"} => custom[r] = "bin"

IInv ==
    TypeOK /\ LockInv /\ ChildInv /\ DirectoryInv /\ CustomInv /\ ToolInv

-----------------------------------------------------------------------------

LEMMA InitEstablishes == Init => IInv
<1> SUFFICES ASSUME Init  PROVE IInv
  OBVIOUS
<1>1. TypeOK
  <2>1. cancelled \in [Runs -> BOOLEAN] /\ directory \in [Runs -> BOOLEAN] /\ named \in [Runs -> BOOLEAN]
    BY Zenon DEF Init
  <2>. QED  BY <2>1 DEF Init, TypeOK, Tools, Operations
<1>. QED
  BY <1>1 DEF Init, IInv, LockInv, ChildInv, DirectoryInv, CustomInv, ToolInv, Compiling, Inside

-----------------------------------------------------------------------------
(* Each step of a run keeps the invariant *)

LEMMA TakeLockPreserves == \A r \in Runs : IInv /\ TakeLock(r) => IInv'
<1> SUFFICES ASSUME NEW r \in Runs, IInv, TakeLock(r)  PROVE IInv'
  OBVIOUS
<1>1. TypeOK /\ LockInv /\ ChildInv /\ DirectoryInv /\ CustomInv /\ ToolInv
  BY DEF IInv
<1>2. cancelled' \in [Runs -> BOOLEAN] /\ directory' \in [Runs -> BOOLEAN] /\ named' \in [Runs -> BOOLEAN]
  BY <1>1, Zenon DEF TypeOK, TakeLock, files
<1>3. TypeOK'
  BY <1>1, <1>2 DEF TypeOK, TakeLock, files, Tools, Operations, Locks, Goto
<1>4. LockInv'
  BY <1>1, CompilerAssumption DEF TypeOK, LockInv, TakeLock, files, Compiling, Locks, Goto
<1>5. ChildInv'
  BY <1>1 DEF TypeOK, ChildInv, TakeLock, files, Locks, Goto
<1>6. DirectoryInv'
  BY <1>1 DEF TypeOK, DirectoryInv, TakeLock, files, Compiling, Inside, Operations, Locks, Goto
<1>7. CustomInv'
  BY <1>1 DEF TypeOK, CustomInv, TakeLock, files, Operations, Locks, Goto
<1>8. ToolInv'
  BY <1>1 DEF TypeOK, ToolInv, ChildInv, TakeLock, files, Tools, Locks, Goto
<1>. QED  BY <1>3, <1>4, <1>5, <1>6, <1>7, <1>8 DEF IInv

LEMMA LookPreserves == \A r \in Runs : IInv /\ Look(r) => IInv'
<1> SUFFICES ASSUME NEW r \in Runs, IInv, Look(r)  PROVE IInv'
  OBVIOUS
<1>1. TypeOK /\ LockInv /\ ChildInv /\ DirectoryInv /\ CustomInv /\ ToolInv
  BY DEF IInv
<1>2. cancelled' \in [Runs -> BOOLEAN] /\ directory' \in [Runs -> BOOLEAN] /\ named' \in [Runs -> BOOLEAN]
  BY <1>1, Zenon DEF TypeOK, Look, files
<1>3. TypeOK'
  BY <1>1, <1>2 DEF TypeOK, Look, files, Tools, Operations, Unlocks, Goto
<1>4. LockInv'
  BY <1>1 DEF TypeOK, LockInv, Look, files, Compiling, Unlocks, Goto
<1>5. ChildInv'
  BY <1>1 DEF TypeOK, ChildInv, Look, files, Unlocks, Goto
<1>6. DirectoryInv'
  BY <1>1 DEF TypeOK, DirectoryInv, Look, files, Compiling, Inside, Operations, Unlocks, Goto
<1>7. CustomInv'
  BY <1>1 DEF TypeOK, CustomInv, Look, files, Operations, Unlocks, Goto
<1>8. ToolInv'
  BY <1>1 DEF TypeOK, ToolInv, ChildInv, Look, files, Tools, Unlocks, Goto
<1>. QED  BY <1>3, <1>4, <1>5, <1>6, <1>7, <1>8 DEF IInv

LEMMA CompiledPreserves == \A r \in Runs : IInv /\ Compiled(r) => IInv'
<1> SUFFICES ASSUME NEW r \in Runs, IInv, Compiled(r)  PROVE IInv'
  OBVIOUS
<1>1. TypeOK /\ LockInv /\ ChildInv /\ DirectoryInv /\ CustomInv /\ ToolInv
  BY DEF IInv
<1>2. cancelled' \in [Runs -> BOOLEAN] /\ directory' \in [Runs -> BOOLEAN] /\ named' \in [Runs -> BOOLEAN]
  BY <1>1, Zenon DEF TypeOK, Compiled, files
<1>3. TypeOK'
  BY <1>1, <1>2 DEF TypeOK, Compiled, files, Tools, Operations, Goto, Fault
<1>4. LockInv'
  BY <1>1 DEF TypeOK, LockInv, Compiled, files, Compiling, Goto, Fault
<1>5. ChildInv'
  BY <1>1 DEF TypeOK, ChildInv, Compiled, files, Goto, Fault
<1>6. DirectoryInv'
  BY <1>1 DEF TypeOK, DirectoryInv, Compiled, files, Compiling, Inside, Operations, Goto, Fault
<1>7. CustomInv'
  BY <1>1 DEF TypeOK, CustomInv, Compiled, files, Operations, Goto, Fault
<1>8. ToolInv'
  BY <1>1 DEF TypeOK, ToolInv, ChildInv, Compiled, files, Tools, Goto, Fault
<1>. QED  BY <1>3, <1>4, <1>5, <1>6, <1>7, <1>8 DEF IInv

LEMMA SimulatedPreserves == \A r \in Runs : IInv /\ Simulated(r) => IInv'
<1> SUFFICES ASSUME NEW r \in Runs, IInv, Simulated(r)  PROVE IInv'
  OBVIOUS
<1>1. TypeOK /\ LockInv /\ ChildInv /\ DirectoryInv /\ CustomInv /\ ToolInv
  BY DEF IInv
<1>2. cancelled' \in [Runs -> BOOLEAN] /\ directory' \in [Runs -> BOOLEAN] /\ named' \in [Runs -> BOOLEAN]
  BY <1>1, Zenon DEF TypeOK, Simulated, files
<1>3. TypeOK'
  BY <1>1, <1>2 DEF TypeOK, Simulated, files, Tools, Operations, Goto
<1>4. LockInv'
  BY <1>1 DEF TypeOK, LockInv, Simulated, files, Compiling, Goto
<1>5. ChildInv'
  BY <1>1 DEF TypeOK, ChildInv, Simulated, files, Goto
<1>6. DirectoryInv'
  BY <1>1 DEF TypeOK, DirectoryInv, Simulated, files, Compiling, Inside, Operations, Goto
<1>7. CustomInv'
  BY <1>1 DEF TypeOK, CustomInv, Simulated, files, Operations, Goto
<1>8. ToolInv'
  BY <1>1 DEF TypeOK, ToolInv, ChildInv, Simulated, files, Tools, Goto
<1>. QED  BY <1>3, <1>4, <1>5, <1>6, <1>7, <1>8 DEF IInv

LEMMA FinishPreserves == \A r \in Runs : IInv /\ Finish(r) => IInv'
<1> SUFFICES ASSUME NEW r \in Runs, IInv, Finish(r)  PROVE IInv'
  OBVIOUS
<1>1. TypeOK /\ LockInv /\ ChildInv /\ DirectoryInv /\ CustomInv /\ ToolInv
  BY DEF IInv
<1>2. cancelled' \in [Runs -> BOOLEAN] /\ directory' \in [Runs -> BOOLEAN] /\ named' \in [Runs -> BOOLEAN]
  BY <1>1, Zenon DEF TypeOK, Finish
<1>3. TypeOK'
  BY <1>1, <1>2 DEF TypeOK, Finish, Tools, Operations, Goto, Fault, Unlinked
<1>4. LockInv'
  BY <1>1 DEF TypeOK, LockInv, Finish, Compiling, Goto, Fault, Unlinked
<1>5. ChildInv'
  BY <1>1 DEF TypeOK, ChildInv, Finish, Goto, Fault, Unlinked
<1>6. DirectoryInv'
  BY <1>1 DEF TypeOK, DirectoryInv, Finish, Compiling, Inside, Operations, Goto, Fault, Unlinked
<1>7. CustomInv'
  <2>1. CASE /\ custom' = IF Unlinked(r) THEN [custom EXCEPT ![r] = "none"] ELSE custom
             /\ Goto(r, "done")
             /\ UNCHANGED failed
    <3>1. ASSUME NEW s \in Runs, s # r, custom'[s] # "none"
          PROVE  custom[s] # "none" /\ pc'[s] = pc[s] /\ named'[s] = named[s] /\ failed'[s] = failed[s]
      BY <1>1, <2>1, <3>1 DEF TypeOK, Finish, Goto
    <3>2. custom'[r] # "none" => failed'[r] \cap {"write", "rmtree", "unlink"} # {}
      BY <1>1, <2>1 DEF TypeOK, CustomInv, Finish, Unlinked
    <3>. QED  BY <1>1, <3>1, <3>2 DEF CustomInv
  <2>2. CASE Fault(r, "unlink") /\ Goto(r, "stuck") /\ UNCHANGED custom
    <3>1. ASSUME NEW s \in Runs, s # r
          PROVE  pc'[s] = pc[s] /\ named'[s] = named[s] /\ failed'[s] = failed[s]
      BY <1>1, <2>2, <3>1 DEF TypeOK, Finish, Goto, Fault
    <3>2. "unlink" \in failed'[r]
      BY <1>1, <2>2 DEF TypeOK, Fault, Operations
    <3>. QED  BY <1>1, <2>2, <3>1, <3>2 DEF CustomInv
  <2>. QED  BY <2>1, <2>2 DEF Finish
<1>8. ToolInv'
  BY <1>1 DEF TypeOK, ToolInv, ChildInv, Finish, Tools, Goto, Fault, Unlinked
<1>. QED  BY <1>3, <1>4, <1>5, <1>6, <1>7, <1>8 DEF IInv

\* Stop may come at any time, as may the end of a tool.
LEMMA StopPreserves == \A r \in Runs : IInv /\ Stop(r) => IInv'
<1> SUFFICES ASSUME NEW r \in Runs, IInv, Stop(r)  PROVE IInv'
  OBVIOUS
<1>1. TypeOK /\ LockInv /\ ChildInv /\ DirectoryInv /\ CustomInv /\ ToolInv
  BY DEF IInv
<1>2. cancelled' \in [Runs -> BOOLEAN] /\ directory' \in [Runs -> BOOLEAN] /\ named' \in [Runs -> BOOLEAN]
  BY <1>1, Zenon DEF TypeOK, Stop, files
<1>3. TypeOK'
  BY <1>1, <1>2 DEF TypeOK, Stop, files, Tools, Operations
<1>4. LockInv'
  BY <1>1 DEF TypeOK, LockInv, Stop, files, Compiling
<1>5. ChildInv'
  BY <1>1 DEF TypeOK, ChildInv, Stop, files
<1>6. DirectoryInv'
  BY <1>1 DEF TypeOK, DirectoryInv, Stop, files, Compiling, Inside, Operations
<1>7. CustomInv'
  BY <1>1 DEF TypeOK, CustomInv, Stop, files, Operations
<1>8. ToolInv'
  BY <1>1 DEF TypeOK, ToolInv, ChildInv, Stop, files, Tools
<1>. QED  BY <1>3, <1>4, <1>5, <1>6, <1>7, <1>8 DEF IInv

\* compile_source
LEMMA CreatePreserves == \A r \in Runs : IInv /\ Create(r) => IInv'
<1> SUFFICES ASSUME NEW r \in Runs, IInv, Create(r)  PROVE IInv'
  OBVIOUS
<1>1. TypeOK /\ LockInv /\ ChildInv /\ DirectoryInv /\ CustomInv /\ ToolInv
  BY DEF IInv
<1>2. cancelled' \in [Runs -> BOOLEAN] /\ directory' \in [Runs -> BOOLEAN] /\ named' \in [Runs -> BOOLEAN]
  BY <1>1, Zenon DEF TypeOK, Create
<1>3. TypeOK'
  BY <1>1, <1>2 DEF TypeOK, Create, Tools, Operations, Goto, Fault, Unlocks
<1>4. LockInv'
  BY <1>1 DEF TypeOK, LockInv, Create, Compiling, Goto, Fault, Unlocks
<1>5. ChildInv'
  BY <1>1 DEF TypeOK, ChildInv, Create, Goto, Fault, Unlocks
<1>6. DirectoryInv'
  BY <1>1 DEF TypeOK, DirectoryInv, Create, Compiling, Inside, Operations, Goto, Fault, Unlocks
<1>7. CustomInv'
  BY <1>1 DEF TypeOK, CustomInv, Create, Operations, Goto, Fault, Unlocks
<1>8. ToolInv'
  BY <1>1 DEF TypeOK, ToolInv, ChildInv, Create, Tools, Goto, Fault, Unlocks
<1>. QED  BY <1>3, <1>4, <1>5, <1>6, <1>7, <1>8 DEF IInv

LEMMA StagePreserves == \A r \in Runs : IInv /\ Stage(r) => IInv'
<1> SUFFICES ASSUME NEW r \in Runs, IInv, Stage(r)  PROVE IInv'
  OBVIOUS
<1>1. TypeOK /\ LockInv /\ ChildInv /\ DirectoryInv /\ CustomInv /\ ToolInv
  BY DEF IInv
<1>2. cancelled' \in [Runs -> BOOLEAN] /\ directory' \in [Runs -> BOOLEAN] /\ named' \in [Runs -> BOOLEAN]
  BY <1>1, Zenon DEF TypeOK, Stage, files
<1>3. TypeOK'
  BY <1>1, <1>2 DEF TypeOK, Stage, files, Tools, Operations, Goto, Fault
<1>4. LockInv'
  BY <1>1 DEF TypeOK, LockInv, Stage, files, Compiling, Goto, Fault
<1>5. ChildInv'
  BY <1>1 DEF TypeOK, ChildInv, Stage, files, Goto, Fault
<1>6. DirectoryInv'
  BY <1>1 DEF TypeOK, DirectoryInv, Stage, files, Compiling, Inside, Operations, Goto, Fault
<1>7. CustomInv'
  BY <1>1 DEF TypeOK, CustomInv, Stage, files, Operations, Goto, Fault
<1>8. ToolInv'
  BY <1>1 DEF TypeOK, ToolInv, ChildInv, Stage, files, Tools, Goto, Fault
<1>. QED  BY <1>3, <1>4, <1>5, <1>6, <1>7, <1>8 DEF IInv

LEMMA SpawnPreserves == \A r \in Runs : IInv /\ Spawn(r) => IInv'
<1> SUFFICES ASSUME NEW r \in Runs, IInv, Spawn(r)  PROVE IInv'
  OBVIOUS
<1>1. TypeOK /\ LockInv /\ ChildInv /\ DirectoryInv /\ CustomInv /\ ToolInv
  BY DEF IInv
<1>2. cancelled' \in [Runs -> BOOLEAN] /\ directory' \in [Runs -> BOOLEAN] /\ named' \in [Runs -> BOOLEAN]
  BY <1>1, Zenon DEF TypeOK, Spawn, files
<1>3. TypeOK'
  BY <1>1, <1>2 DEF TypeOK, Spawn, files, Tools, Operations, Goto, Fault
<1>4. LockInv'
  BY <1>1 DEF TypeOK, LockInv, Spawn, files, Compiling, Goto, Fault
<1>5. ChildInv'
  BY <1>1 DEF TypeOK, ChildInv, Spawn, files, Goto, Fault
<1>6. DirectoryInv'
  BY <1>1 DEF TypeOK, DirectoryInv, Spawn, files, Compiling, Inside, Operations, Goto, Fault
<1>7. CustomInv'
  BY <1>1 DEF TypeOK, CustomInv, Spawn, files, Operations, Goto, Fault
<1>8. ToolInv'
  BY <1>1 DEF TypeOK, ToolInv, ChildInv, Spawn, files, Tools, Goto, Fault
<1>. QED  BY <1>3, <1>4, <1>5, <1>6, <1>7, <1>8 DEF IInv

LEMMA ToolEndsPreserves == \A r \in Runs : IInv /\ ToolEnds(r) => IInv'
<1> SUFFICES ASSUME NEW r \in Runs, IInv, ToolEnds(r)  PROVE IInv'
  OBVIOUS
<1>1. TypeOK /\ LockInv /\ ChildInv /\ DirectoryInv /\ CustomInv /\ ToolInv
  BY DEF IInv
<1>2. cancelled' \in [Runs -> BOOLEAN] /\ directory' \in [Runs -> BOOLEAN] /\ named' \in [Runs -> BOOLEAN]
  BY <1>1, Zenon DEF TypeOK, ToolEnds
<1>3. TypeOK'
  BY <1>1, <1>2 DEF TypeOK, ToolEnds, Tools, Operations, Made, Ruined
<1>4. LockInv'
  BY <1>1 DEF TypeOK, LockInv, ToolEnds, Compiling, Made, Ruined
<1>5. ChildInv'
  BY <1>1 DEF TypeOK, ChildInv, ToolEnds, Made, Ruined
<1>6. DirectoryInv'
  BY <1>1 DEF TypeOK, DirectoryInv, ToolEnds, Compiling, Inside, Operations, Made, Ruined
<1>7. CustomInv'
  BY <1>1 DEF TypeOK, CustomInv, ToolEnds, Operations, Made, Ruined
<1>8. ToolInv'
  BY <1>1 DEF TypeOK, ToolInv, ChildInv, ToolEnds, Tools, Made, Ruined
<1>. QED  BY <1>3, <1>4, <1>5, <1>6, <1>7, <1>8 DEF IInv

LEMMA ReapPreserves == \A r \in Runs : IInv /\ Reap(r) => IInv'
<1> SUFFICES ASSUME NEW r \in Runs, IInv, Reap(r)  PROVE IInv'
  OBVIOUS
<1>1. TypeOK /\ LockInv /\ ChildInv /\ DirectoryInv /\ CustomInv /\ ToolInv
  BY DEF IInv
<1>2. cancelled' \in [Runs -> BOOLEAN] /\ directory' \in [Runs -> BOOLEAN] /\ named' \in [Runs -> BOOLEAN]
  BY <1>1, Zenon DEF TypeOK, Reap, files
<1>3. TypeOK'
  BY <1>1, <1>2 DEF TypeOK, Reap, files, Tools, Operations, Goto, Fault, Succeeded
<1>4. LockInv'
  BY <1>1 DEF TypeOK, LockInv, Reap, files, Compiling, Goto, Fault, Succeeded
<1>5. ChildInv'
  BY <1>1 DEF TypeOK, ChildInv, Reap, files, Goto, Fault, Succeeded
<1>6. DirectoryInv'
  BY <1>1 DEF TypeOK, DirectoryInv, Reap, files, Compiling, Inside, Operations, Goto, Fault, Succeeded
<1>7. CustomInv'
  BY <1>1 DEF TypeOK, CustomInv, Reap, files, Operations, Goto, Fault, Succeeded
<1>8. ToolInv'
  BY <1>1 DEF TypeOK, ToolInv, ChildInv, Reap, files, Tools, Goto, Fault, Succeeded
<1>. QED  BY <1>3, <1>4, <1>5, <1>6, <1>7, <1>8 DEF IInv

LEMMA ExpirePreserves == \A r \in Runs : IInv /\ Expire(r) => IInv'
<1> SUFFICES ASSUME NEW r \in Runs, IInv, Expire(r)  PROVE IInv'
  OBVIOUS
<1>1. TypeOK /\ LockInv /\ ChildInv /\ DirectoryInv /\ CustomInv /\ ToolInv
  BY DEF IInv
<1>2. cancelled' \in [Runs -> BOOLEAN] /\ directory' \in [Runs -> BOOLEAN] /\ named' \in [Runs -> BOOLEAN]
  BY <1>1, Zenon DEF TypeOK, Expire, files
<1>3. TypeOK'
  BY <1>1, <1>2 DEF TypeOK, Expire, files, Tools, Operations, Goto
<1>4. LockInv'
  BY <1>1 DEF TypeOK, LockInv, Expire, files, Compiling, Goto
<1>5. ChildInv'
  BY <1>1 DEF TypeOK, ChildInv, Expire, files, Goto
<1>6. DirectoryInv'
  BY <1>1 DEF TypeOK, DirectoryInv, Expire, files, Compiling, Inside, Operations, Goto
<1>7. CustomInv'
  BY <1>1 DEF TypeOK, CustomInv, Expire, files, Operations, Goto
<1>8. ToolInv'
  BY <1>1 DEF TypeOK, ToolInv, ChildInv, Expire, files, Tools, Goto
<1>. QED  BY <1>3, <1>4, <1>5, <1>6, <1>7, <1>8 DEF IInv

LEMMA KillPreserves == \A r \in Runs : IInv /\ Kill(r) => IInv'
<1> SUFFICES ASSUME NEW r \in Runs, IInv, Kill(r)  PROVE IInv'
  OBVIOUS
<1>1. TypeOK /\ LockInv /\ ChildInv /\ DirectoryInv /\ CustomInv /\ ToolInv
  BY DEF IInv
<1>2. cancelled' \in [Runs -> BOOLEAN] /\ directory' \in [Runs -> BOOLEAN] /\ named' \in [Runs -> BOOLEAN]
  BY <1>1, Zenon DEF TypeOK, Kill
<1>3. TypeOK'
  BY <1>1, <1>2 DEF TypeOK, Kill, Tools, Operations, Goto, Killed, Ruined
<1>4. LockInv'
  BY <1>1 DEF TypeOK, LockInv, Kill, Compiling, Goto, Killed, Ruined
<1>5. ChildInv'
  BY <1>1 DEF TypeOK, ChildInv, Kill, Goto, Killed, Ruined
<1>6. DirectoryInv'
  BY <1>1 DEF TypeOK, DirectoryInv, Kill, Compiling, Inside, Operations, Goto, Killed, Ruined
<1>7. CustomInv'
  BY <1>1 DEF TypeOK, CustomInv, Kill, Operations, Goto, Killed, Ruined
<1>8. ToolInv'
  BY <1>1 DEF TypeOK, ToolInv, ChildInv, Kill, Tools, Goto, Killed, Ruined
<1>. QED  BY <1>3, <1>4, <1>5, <1>6, <1>7, <1>8 DEF IInv

LEMMA ReadBinaryPreserves == \A r \in Runs : IInv /\ ReadBinary(r) => IInv'
<1> SUFFICES ASSUME NEW r \in Runs, IInv, ReadBinary(r)  PROVE IInv'
  OBVIOUS
<1>1. TypeOK /\ LockInv /\ ChildInv /\ DirectoryInv /\ CustomInv /\ ToolInv
  BY DEF IInv
<1>2. cancelled' \in [Runs -> BOOLEAN] /\ directory' \in [Runs -> BOOLEAN] /\ named' \in [Runs -> BOOLEAN]
  BY <1>1, Zenon DEF TypeOK, ReadBinary, files
<1>3. TypeOK'
  BY <1>1, <1>2 DEF TypeOK, ReadBinary, files, Tools, Operations, Goto, Fault
<1>4. LockInv'
  BY <1>1 DEF TypeOK, LockInv, ReadBinary, files, Compiling, Goto, Fault
<1>5. ChildInv'
  BY <1>1 DEF TypeOK, ChildInv, ReadBinary, files, Goto, Fault
<1>6. DirectoryInv'
  BY <1>1 DEF TypeOK, DirectoryInv, ReadBinary, files, Compiling, Inside, Operations, Goto, Fault
<1>7. CustomInv'
  BY <1>1 DEF TypeOK, CustomInv, ReadBinary, files, Operations, Goto, Fault
<1>8. ToolInv'
  BY <1>1 DEF TypeOK, ToolInv, ChildInv, ReadBinary, files, Tools, Goto, Fault
<1>. QED  BY <1>3, <1>4, <1>5, <1>6, <1>7, <1>8 DEF IInv

LEMMA WriteBinaryPreserves == \A r \in Runs : IInv /\ WriteBinary(r) => IInv'
<1> SUFFICES ASSUME NEW r \in Runs, IInv, WriteBinary(r)  PROVE IInv'
  OBVIOUS
<1>1. TypeOK /\ LockInv /\ ChildInv /\ DirectoryInv /\ CustomInv /\ ToolInv
  BY DEF IInv
<1>2. cancelled' \in [Runs -> BOOLEAN] /\ directory' \in [Runs -> BOOLEAN] /\ named' \in [Runs -> BOOLEAN]
  BY <1>1, Zenon DEF TypeOK, WriteBinary
<1>3. TypeOK'
  BY <1>1, <1>2 DEF TypeOK, WriteBinary, Tools, Operations, Goto, Fault
<1>4. LockInv'
  BY <1>1 DEF TypeOK, LockInv, WriteBinary, Compiling, Goto, Fault
<1>5. ChildInv'
  BY <1>1 DEF TypeOK, ChildInv, WriteBinary, Goto, Fault
<1>6. DirectoryInv'
  BY <1>1 DEF TypeOK, DirectoryInv, WriteBinary, Compiling, Inside, Operations, Goto, Fault
<1>7. CustomInv'
  BY <1>1 DEF TypeOK, CustomInv, WriteBinary, Operations, Goto, Fault
<1>8. ToolInv'
  BY <1>1 DEF TypeOK, ToolInv, ChildInv, WriteBinary, Tools, Goto, Fault
<1>. QED  BY <1>3, <1>4, <1>5, <1>6, <1>7, <1>8 DEF IInv

LEMMA RemoveTreePreserves == \A r \in Runs : IInv /\ RemoveTree(r) => IInv'
<1> SUFFICES ASSUME NEW r \in Runs, IInv, RemoveTree(r)  PROVE IInv'
  OBVIOUS
<1>1. TypeOK /\ LockInv /\ ChildInv /\ DirectoryInv /\ CustomInv /\ ToolInv
  BY DEF IInv
<1>2. cancelled' \in [Runs -> BOOLEAN] /\ directory' \in [Runs -> BOOLEAN] /\ named' \in [Runs -> BOOLEAN]
  BY <1>1, Zenon DEF TypeOK, RemoveTree
<1>3. TypeOK'
  BY <1>1, <1>2 DEF TypeOK, RemoveTree, Tools, Operations, Goto, Fault, Unlocks
<1>4. LockInv'
  BY <1>1 DEF TypeOK, LockInv, RemoveTree, Compiling, Goto, Fault, Unlocks
<1>5. ChildInv'
  BY <1>1 DEF TypeOK, ChildInv, RemoveTree, Goto, Fault, Unlocks
<1>6. DirectoryInv'
  BY <1>1 DEF TypeOK, DirectoryInv, RemoveTree, Compiling, Inside, Operations, Goto, Fault, Unlocks
<1>7. CustomInv'
  <2>1. /\ custom' = custom
        /\ pc[r] \in {"return", "cleanup"}
        /\ \A s \in Runs : s # r => named'[s] = named[s] /\ pc'[s] = pc[s] /\ failed'[s] = failed[s]
    BY <1>1 DEF TypeOK, RemoveTree, Goto, Fault
  <2>2. failed[r] \subseteq failed'[r]
    BY <1>1 DEF TypeOK, RemoveTree, Fault
  <2>3. \/ "rmtree" \in failed'[r]
        \/ /\ named' = [named EXCEPT ![r] = pc[r] = "return"]
           /\ pc[r] = "return" => pc'[r] = "compiled"
    BY <1>1 DEF TypeOK, RemoveTree, Goto, Fault, Operations
  <2>4. "rmtree" \in failed'[r] \/ (pc[r] = "return" => named'[r] /\ pc'[r] = "compiled")
    BY <1>1, <2>3, Zenon DEF TypeOK
  <2>. QED  BY <1>1, <2>1, <2>2, <2>4 DEF CustomInv
<1>8. ToolInv'
  BY <1>1 DEF TypeOK, ToolInv, ChildInv, RemoveTree, Tools, Goto, Fault, Unlocks
<1>. QED  BY <1>3, <1>4, <1>5, <1>6, <1>7, <1>8 DEF IInv

-----------------------------------------------------------------------------
(* The theorems *)

LEMMA Inductive == IInv /\ [Next]_vars => IInv'
<1> SUFFICES ASSUME IInv, [Next]_vars  PROVE IInv'
  OBVIOUS
<1>1. ASSUME NEW r \in Runs, Work(r)  PROVE IInv'
  BY <1>1, TakeLockPreserves, LookPreserves, CompiledPreserves, SimulatedPreserves,
     FinishPreserves DEF Work
<1>2. ASSUME NEW r \in Runs, CompileSource(r)  PROVE IInv'
  BY <1>2, CreatePreserves, StagePreserves, SpawnPreserves, ReapPreserves, ExpirePreserves,
     KillPreserves, ReadBinaryPreserves, WriteBinaryPreserves, RemoveTreePreserves DEF CompileSource
<1>3. CASE UNCHANGED vars
  <2>1. /\ pc' = pc /\ lock' = lock /\ cancelled' = cancelled /\ tool' = tool /\ child' = child
        /\ directory' = directory /\ program' = program /\ custom' = custom /\ named' = named
        /\ failed' = failed
    BY <1>3 DEF vars, files
  <2>. QED
    BY <2>1 DEF IInv, TypeOK, LockInv, ChildInv, DirectoryInv, CustomInv, ToolInv
<1>. QED
  BY <1>1, <1>2, <1>3, ToolEndsPreserves, StopPreserves DEF Next, AllOver

LEMMA Invariant == Spec => []IInv
<1>. QED  BY InitEstablishes, Inductive, PTL DEF Spec

\* Every variable has its type in every reachable state.
THEOREM CompilerTypeOK == Spec => []TypeOK
<1>1. IInv => TypeOK
  BY DEF IInv
<1>. QED  BY <1>1, Invariant, PTL

\* However many visitors compile, the server has one active compiler, also
\* after a timeout, a failure of the system or a Stop: a run has a process only
\* while it holds compiler_lock.
THEOREM OneCompilerAtATime == Spec => []OneCompiler
<1>1. IInv => OneCompiler
  <2> SUFFICES ASSUME IInv, NEW r \in Runs, NEW s \in Runs, child[r] # "none", child[s] # "none"
               PROVE  r = s
    BY DEF OneCompiler
  <2>1. pc[r] \in Compiling /\ pc[s] \in Compiling
    BY DEF IInv, ChildInv, Compiling
  <2>. QED  BY <2>1 DEF IInv, LockInv
<1>. QED  BY <1>1, Invariant, PTL

\* A run that is over has no process, no directory and no file, but for those
\* the system did not let it remove or write.
THEOREM NothingStays == Spec => []NothingLeftBehind
<1>1. IInv => NothingLeftBehind
  BY DEF IInv, ChildInv, DirectoryInv, CustomInv, Inside, Compiling, Over, NothingLeftBehind
<1>. QED  BY <1>1, Invariant, PTL

\* Only what all three tools have made is simulated, and the file is still
\* there when the simulation starts.
SimulatesWhole == \A r \in Runs : pc[r] = "simulate" => custom[r] = "bin"

\* Only what all three tools have made is simulated.
THEOREM WholeIsSimulated == Spec => []SimulatesWhole
<1>1. IInv => SimulatesWhole
  BY DEF IInv, ToolInv, SimulatesWhole
<1>. QED  BY <1>1, Invariant, PTL

-----------------------------------------------------------------------------
(* A run is what RunSession takes it for *)

LEMMA PhaseInitially == ASSUME NEW r \in Runs, Init  PROVE Phase(r)!Init
BY DEF Init, Phase!Init, StageOf

\* Its own steps.
LEMMA PhaseStep ==
    ASSUME TypeOK, NEW r \in Runs, Work(r) \/ CompileSource(r) \/ ToolEnds(r) \/ Stop(r)
    PROVE  Phase(r)!Next \/ UNCHANGED <<StageOf(r), cancelled[r]>>
<1> USE DEF TypeOK, Goto, StageOf, Over, Phase!Next, Phase!Goto
<1>1. CASE Work(r)
  BY <1>1 DEF Work, TakeLock, Look, Compiled, Simulated, Finish, Phase!Begin, Phase!Skip,
     Phase!Simulate, Phase!Fail, Phase!Finish
<1>2. CASE CompileSource(r)
  BY <1>2 DEF CompileSource, Create, Stage, Spawn, Reap, Expire, Kill, ReadBinary, WriteBinary,
     RemoveTree, Phase!Fail
<1>3. CASE ToolEnds(r)
  BY <1>3 DEF ToolEnds
<1>4. CASE Stop(r)
  BY <1>4 DEF Stop, Phase!Stop
<1>. QED  BY <1>1, <1>2, <1>3, <1>4

\* Those of the others.
LEMMA PhaseKept ==
    ASSUME TypeOK, NEW r \in Runs, NEW s \in Runs \ {r},
           Work(s) \/ CompileSource(s) \/ ToolEnds(s) \/ Stop(s)
    PROVE  UNCHANGED <<StageOf(r), cancelled[r]>>
<1>1. UNCHANGED <<pc[r], cancelled[r]>>
  <2> USE DEF TypeOK, Goto
  <2>1. CASE Work(s)
    BY <2>1 DEF Work, TakeLock, Look, Compiled, Simulated, Finish
  <2>2. CASE CompileSource(s)
    BY <2>2 DEF CompileSource, Create, Stage, Spawn, Reap, Expire, Kill, ReadBinary, WriteBinary,
       RemoveTree
  <2>3. CASE ToolEnds(s) \/ Stop(s)
    BY <2>3 DEF ToolEnds, Stop
  <2>. QED  BY <2>1, <2>2, <2>3
<1>. QED  BY <1>1 DEF StageOf

\* Whatever other runs do with the lock and the disk, each run is queued,
\* compiles, and is simulated only if nobody has stopped it by then: the one
\* step that RunSession has for the compiler stands for all of compile_source.
THEOREM RunsKeepPhase == ASSUME NEW r \in Runs  PROVE Spec => PhaseSpec(r)
<1>1. ASSUME TypeOK, [Next]_vars
      PROVE  Phase(r)!Next \/ UNCHANGED <<StageOf(r), cancelled[r]>>
  <2>1. ASSUME NEW s \in Runs, Work(s) \/ CompileSource(s) \/ ToolEnds(s) \/ Stop(s)
        PROVE  Phase(r)!Next \/ UNCHANGED <<StageOf(r), cancelled[r]>>
    BY <1>1, <2>1, PhaseStep, PhaseKept
  <2>2. CASE UNCHANGED vars
    BY <2>2 DEF vars, StageOf
  <2>. QED  BY <1>1, <2>1, <2>2 DEF Next, AllOver
<1>2. TypeOK /\ [Next]_vars => [Phase(r)!Next]_(Phase(r)!vars)
  BY <1>1 DEF Phase!vars
<1>3. Init => Phase(r)!Init
  BY PhaseInitially
<1>. QED  BY <1>2, <1>3, CompilerTypeOK, PTL DEF Spec, PhaseSpec, Phase!Spec

-----------------------------------------------------------------------------
(* Nobody waits for ever *)

\* The lock is only locked while a run is under it: no way out of the with
\* statement, by an exception either, leaves it locked.
HolderInv == lock # None => lock \in Runs /\ pc[lock] \in Compiling

\* A run that is not over and does not wait for the lock can take a step: at
\* process.wait it is the timeout, if it is nothing else.
CanGoOn(r) == pc[r] \notin Over /\ (pc[r] = "queued" => lock = None)

\* As long as a run is not over, one can go on.
SomeoneGoesOn ==
    (\E r \in Runs : pc[r] \notin Over) => \E r \in Runs : CanGoOn(r)

LEMMA HolderInductive == TypeOK /\ HolderInv /\ [Next]_vars => HolderInv'
<1> SUFFICES ASSUME TypeOK, HolderInv, [Next]_vars  PROVE HolderInv'
  OBVIOUS
<1> USE DEF HolderInv, TypeOK, Compiling, Goto, Locks, Unlocks
<1>1. ASSUME NEW r \in Runs, TakeLock(r)  PROVE HolderInv'
  BY <1>1 DEF TakeLock
<1>2. ASSUME NEW r \in Runs, Look(r) \/ Create(r) \/ RemoveTree(r)  PROVE HolderInv'
  BY <1>2 DEF Look, Create, RemoveTree
<1>3. ASSUME NEW r \in Runs, Compiled(r) \/ Simulated(r) \/ Finish(r)  PROVE HolderInv'
  BY <1>3 DEF Compiled, Simulated, Finish
<1>4. ASSUME NEW r \in Runs,
             Stage(r) \/ Spawn(r) \/ Reap(r) \/ Expire(r) \/ Kill(r) \/ ReadBinary(r) \/ WriteBinary(r)
      PROVE  HolderInv'
  BY <1>4 DEF Stage, Spawn, Reap, Expire, Kill, ReadBinary, WriteBinary
<1>5. ASSUME NEW r \in Runs, ToolEnds(r) \/ Stop(r)  PROVE HolderInv'
  BY <1>5 DEF ToolEnds, Stop
<1>6. CASE UNCHANGED vars
  BY <1>6 DEF vars
<1>. QED  BY <1>1, <1>2, <1>3, <1>4, <1>5, <1>6 DEF Next, Work, CompileSource, AllOver

\* compiler_lock cannot leave the server without a run that goes on: whoever
\* waits, waits for a run that is under the lock and can leave it.
THEOREM LockIsPassedOn == Spec => [](HolderInv /\ SomeoneGoesOn)
<1>1. Init => HolderInv
  BY DEF Init, HolderInv
<1>2. HolderInv => SomeoneGoesOn
  BY DEF HolderInv, SomeoneGoesOn, CanGoOn, Compiling, Over
<1>. QED  BY <1>1, <1>2, HolderInductive, CompilerTypeOK, PTL DEF Spec

\* How many steps a run has before it at most, from where it is and the tool it
\* is at.
ToolsLeft(t) == CASE t = "gcc" -> 3 [] t = "objcopy" -> 2 [] t = "objdump" -> 1

Rank(p, t) ==
    CASE p = "queued"   -> 26
      [] p = "look"     -> 25
      [] p = "create"   -> 24
      [] p = "stage"    -> 23
      [] p = "spawn"    -> 10 + 4 * ToolsLeft(t)
      [] p = "wait"     -> 9 + 4 * ToolsLeft(t)
      [] p = "kill"     -> 8 + 4 * ToolsLeft(t)
      [] p = "read"     -> 9
      [] p = "write"    -> 8
      [] p = "return"   -> 7
      [] p = "cleanup"  -> 6
      [] p = "compiled" -> 5
      [] p = "simulate" -> 4
      [] p = "finish"   -> 3
      [] OTHER          -> 0

StepsLeft(r) == Rank(pc[r], tool[r])

FewSteps ==
    \A r \in Runs : StepsLeft(r) \in 0 .. 26 /\ (StepsLeft(r) = 0 <=> pc[r] \in Over)

\* Whatever happens to a run, what is left of it only gets less, and less with
\* each step of its own thread.
Descends ==
    /\ \A r \in Runs : StepsLeft(r)' <= StepsLeft(r)
    /\ \A r \in Runs : Work(r) \/ CompileSource(r) => StepsLeft(r)' < StepsLeft(r)

Lines ==
    {"queued", "look", "create", "stage", "spawn", "wait", "kill", "read", "write", "cleanup",
     "return", "compiled", "simulate", "finish", "done", "stuck"}

LEMMA RankFacts ==
    ASSUME NEW p \in Lines, NEW t \in Tools
    PROVE  /\ Rank(p, t) \in 0 .. 26
           /\ Rank(p, t) = 0 <=> p \in Over
<1>1. ToolsLeft(t) \in 1 .. 3
  BY DEF ToolsLeft, Tools
<1>. QED  BY <1>1 DEF Rank, Over, Lines

LEMMA ThreadDescends ==
    ASSUME TypeOK, NEW r \in Runs, Work(r) \/ CompileSource(r)
    PROVE  /\ StepsLeft(r)' < StepsLeft(r)
           /\ \A s \in Runs \ {r} : pc'[s] = pc[s] /\ tool'[s] = tool[s]
<1> USE DEF TypeOK, Goto, StepsLeft, Rank
<1>1. CASE Work(r)
  BY <1>1 DEF Work, TakeLock, Look, Compiled, Simulated, Finish
<1>2. CASE Create(r) \/ Stage(r) \/ ReadBinary(r) \/ WriteBinary(r) \/ RemoveTree(r)
  <2>1. ToolsLeft(tool[r]) \in 1 .. 3
    BY DEF ToolsLeft, Tools
  <2>. QED  BY <1>2, <2>1 DEF Create, Stage, ReadBinary, WriteBinary, RemoveTree
<1>3. CASE Spawn(r) \/ Expire(r) \/ Kill(r)
  <2>1. ToolsLeft(tool[r]) \in 1 .. 3
    BY DEF ToolsLeft, Tools
  <2>. QED  BY <1>3, <2>1 DEF Spawn, Expire, Kill
<1>4. CASE Reap(r)
  BY <1>4 DEF Reap, Tools, ToolsLeft
<1>. QED  BY <1>1, <1>2, <1>3, <1>4 DEF CompileSource

\* Run.work and compile_source: a run takes 26 steps at most from its queue to
\* its end, however its tools end and whatever fails.  With LockIsPassedOn,
\* this is why a queue of runs drains.
THEOREM RunsComeToAnEnd ==
    Spec => []FewSteps /\ [][Descends]_vars
<1>1. TypeOK => FewSteps
  BY RankFacts DEF FewSteps, TypeOK, StepsLeft, Lines
<1>2. TypeOK /\ TypeOK' /\ [Next]_vars => [Descends]_vars
  <2> SUFFICES ASSUME TypeOK, TypeOK', Next  PROVE Descends
    OBVIOUS
  <2>1. \A r \in Runs : Work(r) \/ CompileSource(r) => StepsLeft(r)' < StepsLeft(r)
    BY ThreadDescends
  <2>2. ASSUME NEW r \in Runs  PROVE StepsLeft(r) \in Nat /\ StepsLeft(r)' \in Nat
    <3>1. pc[r] \in Lines /\ tool[r] \in Tools /\ pc'[r] \in Lines /\ tool'[r] \in Tools
      BY DEF TypeOK, Lines
    <3>2. Rank(pc[r], tool[r]) \in Nat /\ Rank(pc'[r], tool'[r]) \in Nat
      BY <3>1, RankFacts
    <3>. QED  BY <3>2 DEF StepsLeft
  <2>3. ASSUME NEW s \in Runs  PROVE StepsLeft(s)' <= StepsLeft(s)
    <3>1. CASE pc'[s] = pc[s] /\ tool'[s] = tool[s]
      BY <2>2, <3>1 DEF StepsLeft
    <3>2. ASSUME NEW r \in Runs, Work(r) \/ CompileSource(r)
          PROVE  StepsLeft(s)' <= StepsLeft(s)
      <4>1. StepsLeft(r)' < StepsLeft(r) /\ (s # r => pc'[s] = pc[s] /\ tool'[s] = tool[s])
        BY <3>2, ThreadDescends
      <4>. QED  BY <2>2, <3>1, <4>1
    <3>3. (\E r \in Runs : ToolEnds(r) \/ Stop(r)) \/ AllOver => pc' = pc /\ tool' = tool
      BY DEF ToolEnds, Stop, AllOver, vars
    <3>. QED  BY <3>1, <3>2, <3>3 DEF Next
  <2>. QED  BY <2>1, <2>3 DEF Descends
<1>. QED  BY <1>1, <1>2, CompilerTypeOK, PTL DEF Spec
=============================================================================
