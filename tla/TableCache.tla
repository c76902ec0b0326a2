----------------------------- MODULE TableCache ------------------------------
(***************************************************************************)
(* The lookup tables of all runs: engine.Simulation.lookup_tables with its *)
(* lock, the cache file of jev.load_cache and jev.save_cache, requests     *)
(* that outlive the run that sent them, and processes that die.            *)
(*                                                                         *)
(* Files are inodes: a name (the cache, the temporary file next to it)     *)
(* points to an inode, and a writer keeps the inode it has opened.  An     *)
(* answer is named after the run that asked for it.  One run is one pass   *)
(* through lookup_tables.  Where Stop and the deadline come from is        *)
(* RunSession's business; here either is the flag stopped, which is looked *)
(* at where the code calls Simulation.check.                               *)
(***************************************************************************)
EXTENDS Naturals, FiniteSets

CONSTANTS
    Runs,
    Fresh,       \* the runs started with "Fresh Jev"
    Processes,   \* the server and command line runs
    Home,        \* the process of each run
    MaxCrashes,  \* how often processes die
    Old,         \* an answer to the current prompt from an earlier process
    Other,       \* an answer to another prompt or model
    Torn,        \* a file whose writing has begun but not ended
    None

ASSUME TableAssumption ==
    /\ IsFiniteSet(Runs)
    /\ Fresh \subseteq Runs
    /\ Home \in [Runs -> Processes]
    /\ MaxCrashes \in Nat
    /\ Cardinality({Old, Other, Torn, None}) = 4
    /\ {Old, Other, Torn, None} \cap Runs = {}
    /\ None \notin Nat

VARIABLES
    pc,        \* where each run is in lookup_tables
    request,   \* the API request of each run, which may outlive the run
    tables,    \* the tables each run has got
    stopped,   \* Stop or the deadline has come for the run
    lock,      \* classifier_lock of each process
    fd,        \* the inode each run has open for writing
    cache,     \* the inode of jev_truth_tables.json, or None
    temp,      \* the inode of jev_truth_tables.tmp, or None
    content,   \* what each inode holds
    crashes

vars == <<pc, request, tables, stopped, lock, fd, cache, temp, content, crashes>>
files == <<fd, cache, temp, content>>

\* Two leftovers and one inode for each writer are always enough.
Inodes == 1 .. Cardinality(Runs) + 2

Usable == Runs \cup {Old}
Ended == {"run", "over", "dead"}

\* The lines from which a call of check is still to come.
Checked == {"want", "load", "ask", "reply"}

\* The names on disk when the first process starts: an earlier process may
\* have left a temporary file behind.
Init ==
    /\ pc = [r \in Runs |-> "want"]
    /\ request = [r \in Runs |-> "none"]
    /\ tables = [r \in Runs |-> None]
    /\ stopped = [r \in Runs |-> FALSE]
    /\ lock = [p \in Processes |-> None]
    /\ fd = [r \in Runs |-> None]
    /\ cache \in {None, 1}
    /\ temp \in {None, 2}
    /\ content \in {[i \in Inodes |-> IF i = 1 THEN c ELSE Torn] : c \in {Old, Other}}
    /\ crashes = 0

-----------------------------------------------------------------------------
(* Helpers *)

Goto(r, p) == pc' = [pc EXCEPT ![r] = p]

\* The finally clause of lookup_tables.
Release(r) == lock' = [p \in Processes |-> IF lock[p] = r THEN None ELSE lock[p]]

\* Faulty variant of End: an exception leaves the lock taken.
EndKeepingLock(r) ==
    /\ Goto(r, "over")
    /\ fd' = [fd EXCEPT ![r] = None]
    /\ UNCHANGED <<lock, request, tables, cache, temp, content, stopped, crashes>>

\* lookup_tables returns None or raises.
End(r) ==
    /\ Goto(r, "over")
    /\ Release(r)
    /\ fd' = [fd EXCEPT ![r] = None]
    /\ UNCHANGED <<request, tables, cache, temp, content, stopped, crashes>>

OnDisk == IF cache = None THEN None ELSE content[cache]

\* An inode no name and no writer refers to.
NewInode ==
    CHOOSE i \in Inodes : i \notin {cache, temp} \cup {fd[r] : r \in Runs}

-----------------------------------------------------------------------------
(* lookup_tables *)

\* Faulty variant of Acquire: nobody waits for the lock.
AcquireAtOnce(r) ==
    /\ pc[r] = "want"
    /\ lock' = [lock EXCEPT ![Home[r]] = r]
    /\ Goto(r, "load")
    /\ UNCHANGED <<request, tables, files, stopped, crashes>>

Acquire(r) ==
    /\ pc[r] = "want"
    /\ lock[Home[r]] = None
    /\ lock' = [lock EXCEPT ![Home[r]] = r]
    /\ Goto(r, "load")
    /\ UNCHANGED <<request, tables, files, stopped, crashes>>

\* Simulation.stop, by a visitor or by the watchdog.  Once the reply is used
\* lookup_tables does not look at it any more.
Stop(r) ==
    /\ pc[r] \in Checked
    /\ ~stopped[r]
    /\ stopped' = [stopped EXCEPT ![r] = TRUE]
    /\ UNCHANGED <<pc, request, tables, lock, files, crashes>>

\* A call of check() that sees it.
GiveUp(r) ==
    /\ pc[r] \in Checked
    /\ stopped[r]
    /\ End(r)

\* Faulty variant of LoadHit: the fingerprint of the record is not compared.
LoadAnything(r) ==
    /\ pc[r] = "load" /\ ~stopped[r]
    /\ r \notin Fresh
    /\ OnDisk # None
    /\ tables' = [tables EXCEPT ![r] = OnDisk]
    /\ Goto(r, "have")
    /\ UNCHANGED <<request, lock, files, stopped, crashes>>

\* A record of the current prompt, model and gates.
LoadHit(r) ==
    /\ pc[r] = "load" /\ ~stopped[r]
    /\ r \notin Fresh
    /\ OnDisk \in Usable
    /\ tables' = [tables EXCEPT ![r] = OnDisk]
    /\ Goto(r, "have")
    /\ UNCHANGED <<request, lock, files, stopped, crashes>>

\* Faulty variant of LoadMiss: cached tables are ignored.
LoadMissAlways(r) ==
    /\ pc[r] = "load" /\ ~stopped[r]
    /\ OnDisk # Torn
    /\ request' = [request EXCEPT ![r] = "flight"]
    /\ Goto(r, "ask")
    /\ UNCHANGED <<tables, lock, files, stopped, crashes>>

\* No record, or one of another prompt: send a request.
LoadMiss(r) ==
    /\ pc[r] = "load" /\ ~stopped[r]
    /\ r \in Fresh \/ OnDisk \in {None, Other}
    /\ request' = [request EXCEPT ![r] = "flight"]
    /\ Goto(r, "ask")
    /\ UNCHANGED <<tables, lock, files, stopped, crashes>>

\* JevError for a record that cannot be read, CostLimit for a request that
\* would exceed the budget.
LoadFails(r) ==
    /\ pc[r] = "load" /\ ~stopped[r]
    /\ r \in Fresh \/ OnDisk \notin Usable
    /\ End(r)

\* The API answers, perhaps after the run has gone.
Answer(r) ==
    /\ request[r] = "flight"
    /\ \E reply \in {"answered", "refused"} :
          request' = [request EXCEPT ![r] = reply]
    /\ UNCHANGED <<pc, tables, lock, files, stopped, crashes>>

TakeReply(r) ==
    /\ pc[r] = "ask"
    /\ request[r] \in {"answered", "refused"}
    /\ Goto(r, "reply")
    /\ UNCHANGED <<request, tables, lock, files, stopped, crashes>>

\* Faulty variant of UseReply: a reply is used without another check.
UseReplyLate(r) ==
    /\ pc[r] = "reply"
    /\ IF request[r] = "refused"
       THEN End(r)
       ELSE Goto(r, "open") /\ UNCHANGED <<request, tables, lock, files, stopped, crashes>>

\* Late replies never drive wires, and are not saved.
UseReply(r) ==
    /\ pc[r] = "reply" /\ ~stopped[r]
    /\ IF request[r] = "refused"
       THEN End(r)
       ELSE Goto(r, "open") /\ UNCHANGED <<request, tables, lock, files, stopped, crashes>>

-----------------------------------------------------------------------------
(* save_cache *)

\* Faulty variant of OpenTemporary: the cache is written in place.
OpenCache(r) ==
    /\ pc[r] = "open"
    /\ LET i == IF cache = None THEN NewInode ELSE cache IN
       /\ cache' = i
       /\ fd' = [fd EXCEPT ![r] = i]
       /\ content' = [content EXCEPT ![i] = Torn]
       /\ temp' = i
    /\ Goto(r, "write")
    /\ UNCHANGED <<request, tables, lock, stopped, crashes>>

\* write_text opens the temporary file, a new one or the old one truncated.
OpenTemporary(r) ==
    /\ pc[r] = "open"
    /\ LET i == IF temp = None THEN NewInode ELSE temp IN
       /\ temp' = i
       /\ fd' = [fd EXCEPT ![r] = i]
       /\ content' = [content EXCEPT ![i] = Torn]
    /\ Goto(r, "write")
    /\ UNCHANGED <<request, tables, lock, cache, stopped, crashes>>

WriteTemporary(r) ==
    /\ pc[r] = "write"
    /\ content' = [content EXCEPT ![fd[r]] = r]
    /\ fd' = [fd EXCEPT ![r] = None]
    /\ Goto(r, "rename")
    /\ UNCHANGED <<request, tables, lock, cache, temp, stopped, crashes>>

\* A full disk, or another process renamed the file first.
SaveFails(r) ==
    /\ \/ pc[r] \in {"open", "write"}
       \/ pc[r] = "rename" /\ temp = None
    /\ End(r)

Rename(r) ==
    /\ pc[r] = "rename"
    /\ temp # None
    /\ cache' = temp
    /\ temp' = None
    /\ tables' = [tables EXCEPT ![r] = r]
    /\ Goto(r, "have")
    /\ UNCHANGED <<request, lock, fd, content, stopped, crashes>>

\* A request that cost more than the budget is saved, and ends its run.
Overspent(r) ==
    /\ pc[r] = "have"
    /\ tables[r] = r
    /\ End(r)

ReturnTables(r) ==
    /\ pc[r] = "have"
    /\ Goto(r, "run")
    /\ Release(r)
    /\ UNCHANGED <<request, tables, files, stopped, crashes>>

\* The runs that die with process p.  Those that have not begun belong to the
\* process that comes after it.
Lost(p) ==
    {r \in Runs : /\ Home[r] = p /\ pc[r] \notin Ended
                  /\ pc[r] # "want" \/ stopped[r]}

\* A process dies with its lock, its open files and its requests; what it has
\* on disk stays.
Crash(p) ==
    /\ crashes < MaxCrashes
    /\ crashes' = crashes + 1
    /\ Lost(p) # {}
    /\ pc' = [r \in Runs |-> IF r \in Lost(p) THEN "dead" ELSE pc[r]]
    /\ fd' = [r \in Runs |-> IF r \in Lost(p) THEN None ELSE fd[r]]
    /\ request' = [r \in Runs |-> IF Home[r] = p THEN "none" ELSE request[r]]
    /\ lock' = [lock EXCEPT ![p] = None]
    /\ UNCHANGED <<tables, stopped, cache, temp, content>>

Step(r) ==
    \/ Acquire(r) \/ LoadHit(r) \/ LoadMiss(r) \/ LoadFails(r)
    \/ TakeReply(r) \/ UseReply(r)
    \/ OpenTemporary(r) \/ WriteTemporary(r) \/ SaveFails(r) \/ Rename(r)
    \/ Overspent(r) \/ ReturnTables(r)

Terminated ==
    /\ \A r \in Runs : pc[r] \in Ended
    /\ UNCHANGED vars

Next ==
    \/ \E r \in Runs : Step(r) \/ Stop(r) \/ GiveUp(r) \/ Answer(r)
    \/ \E p \in Processes : Crash(p)
    \/ Terminated

Spec == Init /\ [][Next]_vars

\* Threads run, and the deadline ends every wait for the API
\* (StalledApiReleased of RunSession); the API itself promises nothing, and
\* nobody has to press Stop.
Fairness ==
    \A r \in Runs :
        /\ WF_vars(Step(r)) /\ WF_vars(GiveUp(r))
        /\ WF_vars(pc[r] = "ask" /\ Stop(r))

FairSpec == Spec /\ Fairness

-----------------------------------------------------------------------------
(* Properties *)

TypeOK ==
    /\ pc \in [Runs -> {"want", "load", "ask", "reply", "open", "write",
                        "rename", "have"} \cup Ended]
    /\ request \in [Runs -> {"none", "flight", "answered", "refused"}]
    /\ tables \in [Runs -> Usable \cup {None}]
    /\ stopped \in [Runs -> BOOLEAN]
    /\ lock \in [Processes -> Runs \cup {None}]
    /\ fd \in [Runs -> Inodes \cup {None}]
    /\ cache \in Inodes \cup {None}
    /\ temp \in Inodes \cup {None}
    /\ content \in [Inodes -> Usable \cup {Other, Torn}]
    /\ crashes \in 0 .. MaxCrashes

\* Whenever a process dies, the cache file is a complete record: save_cache
\* writes beside it and renames.
CacheReadable == OnDisk # Torn

\* Tables are handed to a run while they are the ones on disk.
TablesOnDisk ==
    \A r \in Runs : pc[r] = "have" => tables[r] = OnDisk

\* Runs that get no tables any more.
Left == {r \in Runs : stopped[r] \/ (pc[r] \in {"over", "dead"} /\ tables[r] = None)}

\* The file and its readers behave like one cell that is replaced at once,
\* cache misses share one fill, and a reply that comes after Stop or after the
\* deadline is neither used nor saved.
Tables == INSTANCE SharedTables WITH cell <- OnDisk, out <- Left
SharedSpec == Tables!Spec

\* Nobody waits for the classifier lock for ever.
EveryRunServed == \A r \in Runs : pc[r] = "want" ~> pc[r] \in Ended
=============================================================================
