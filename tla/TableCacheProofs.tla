--------------------------- MODULE TableCacheProofs ---------------------------
(***************************************************************************)
(* Proofs about TableCache, for any runs and any number of crashes.  What  *)
(* the cache file holds is only safe with one process: a second one writes *)
(* the same temporary file, see the run of TableCacheTwoProcesses.         *)
(***************************************************************************)
EXTENDS TableCache, FiniteSetTheorems, TLAPS

-----------------------------------------------------------------------------
(* Type correctness *)

\* The four values that are no answer of a run differ from each other.
LEMMA Distinct ==
    /\ Old # Other /\ Old # Torn /\ Old # None
    /\ Other # Torn /\ Other # None /\ Torn # None
<1>1. \A a, b, c : IsFiniteSet({a, b, c}) /\ Cardinality({a, b, c}) <= 3
  <2> SUFFICES ASSUME NEW a, NEW b, NEW c
               PROVE  IsFiniteSet({a, b, c}) /\ Cardinality({a, b, c}) <= 3
    OBVIOUS
  <2>1. IsFiniteSet({a}) /\ Cardinality({a}) = 1
    BY FS_Singleton
  <2>2. IsFiniteSet({a, b}) /\ Cardinality({a, b}) \in Nat /\ Cardinality({a, b}) <= 2
    <3>1. {a, b} = {a} \cup {b}
      OBVIOUS
    <3>. QED  BY <2>1, <3>1, FS_AddElement
  <2>3. {a, b, c} = {a, b} \cup {c}
    OBVIOUS
  <2>. QED  BY <2>2, <2>3, FS_AddElement
<1>2. Cardinality({Old, Other, Torn, None}) = 4
  BY TableAssumption
<1>3. ASSUME NEW a, NEW b, NEW c, {Old, Other, Torn, None} = {a, b, c}
      PROVE  FALSE
  <2>1. Cardinality({Old, Other, Torn, None}) <= 3
    BY <1>1, <1>3
  <2>. QED  BY <1>2, <2>1
<1>4. CASE Old = Other
  BY <1>3, <1>4, {Old, Other, Torn, None} = {Old, Torn, None}
<1>5. CASE Old = Torn
  BY <1>3, <1>5, {Old, Other, Torn, None} = {Old, Other, None}
<1>6. CASE Old = None
  BY <1>3, <1>6, {Old, Other, Torn, None} = {Old, Other, Torn}
<1>7. CASE Other = Torn
  BY <1>3, <1>7, {Old, Other, Torn, None} = {Old, Other, None}
<1>8. CASE Other = None
  BY <1>3, <1>8, {Old, Other, Torn, None} = {Old, Other, Torn}
<1>9. CASE Torn = None
  BY <1>3, <1>9, {Old, Other, Torn, None} = {Old, Other, Torn}
<1>. QED  BY <1>4, <1>5, <1>6, <1>7, <1>8, <1>9

LEMMA InodesFacts ==
    /\ Cardinality(Runs) \in Nat
    /\ IsFiniteSet(Inodes) /\ Cardinality(Inodes) = Cardinality(Runs) + 2
    /\ 1 \in Inodes /\ 2 \in Inodes /\ None \notin Inodes
<1>1. Cardinality(Runs) \in Nat
  BY TableAssumption, FS_CardinalityType
<1>2. Cardinality(Runs) + 2 \in Int /\ 1 \in Int /\ 1 <= Cardinality(Runs) + 2
  BY <1>1
<1>3. IsFiniteSet(Inodes) /\ Cardinality(Inodes) = Cardinality(Runs) + 2
  BY <1>1, <1>2, FS_Interval DEF Inodes
<1>. QED  BY <1>1, <1>3, TableAssumption DEF Inodes

\* There is an inode left for a new temporary file: one name and the writers
\* refer to fewer than there are.
LEMMA NewInodeFree ==
    ASSUME TypeOK, temp = None
    PROVE  NewInode \in Inodes /\ NewInode \notin {cache, temp} \cup {fd[r] : r \in Runs}
<1> DEFINE open == {fd[r] : r \in Runs}
           taken == (open \cup {cache}) \cap Inodes
<1>1. IsFiniteSet(open) /\ Cardinality(open) \in Nat /\ Cardinality(open) <= Cardinality(Runs)
  <2>1. fd \in [Runs -> Inodes \cup {None}]
    BY DEF TypeOK
  <2>2. fd \in Surjection(Runs, open)
    BY <2>1 DEF Surjection
  <2>. QED  BY <2>2, TableAssumption, FS_Surjection, FS_CardinalityType
<1>2. IsFiniteSet(open \cup {cache}) /\ Cardinality(open \cup {cache}) <= Cardinality(Runs) + 1
      /\ Cardinality(open \cup {cache}) \in Nat
  <2> HIDE DEF open
  <2>1. /\ IsFiniteSet(open \cup {cache})
        /\ \/ Cardinality(open \cup {cache}) = Cardinality(open)
           \/ Cardinality(open \cup {cache}) = Cardinality(open) + 1
    BY <1>1, FS_AddElement
  <2>. QED  BY <1>1, <2>1, InodesFacts
<1>3. IsFiniteSet(taken) /\ Cardinality(taken) <= Cardinality(Runs) + 1
  <2>1. taken \in SUBSET (open \cup {cache})
    OBVIOUS
  <2>2. IsFiniteSet(taken) /\ Cardinality(taken) <= Cardinality(open \cup {cache})
        /\ Cardinality(taken) \in Nat
    BY <1>2, <2>1, FS_Subset, FS_CardinalityType
  <2>. QED  BY <1>2, <2>2, InodesFacts
<1>4. taken # Inodes
  BY <1>3, InodesFacts
<1>5. \E i \in Inodes : i \notin {cache, temp} \cup {fd[r] : r \in Runs}
  <2>1. PICK i \in Inodes : i \notin taken
    BY <1>4
  <2>. QED  BY <2>1, InodesFacts
<1>. QED  BY <1>5 DEF NewInode

LEMMA InitTypeOK == Init => TypeOK
<1> USE Distinct, InodesFacts, TableAssumption
<1> SUFFICES ASSUME Init PROVE TypeOK
  OBVIOUS
<1>1. content \in [Inodes -> Usable \cup {Other, Torn}]
  BY DEF Init, Usable
<1>. QED  BY <1>1 DEF Init, TypeOK, Usable, Ended

LEMMA EndTypeOK ==
    ASSUME TypeOK, NEW r \in Runs, End(r)
    PROVE  TypeOK'
BY DEF TypeOK, End, Goto, Release, Usable, Ended

LEMMA StepTypeOK ==
    ASSUME TypeOK, NEW r \in Runs, Step(r)
    PROVE  TypeOK'
<1>1. CASE Acquire(r)
  BY <1>1, TableAssumption DEF TypeOK, Acquire, Goto, files, Usable, Ended
<1>2. CASE LoadHit(r)
  BY <1>2 DEF TypeOK, LoadHit, Goto, files, Usable, Ended
<1>3. CASE LoadMiss(r)
  BY <1>3 DEF TypeOK, LoadMiss, Goto, files, Usable, Ended
<1>4. CASE TakeReply(r)
  BY <1>4 DEF TypeOK, TakeReply, Goto, files, Usable, Ended
<1>5. CASE UseReply(r)
  <2>1. CASE request[r] = "refused"
    BY <1>5, <2>1, EndTypeOK DEF UseReply
  <2>2. CASE request[r] # "refused"
    BY <1>5, <2>2 DEF TypeOK, UseReply, Goto, files, Usable, Ended
  <2>. QED  BY <2>1, <2>2
<1>6. CASE OpenTemporary(r)
  <2> DEFINE i == IF temp = None THEN NewInode ELSE temp
  <2>1. i \in Inodes
    BY NewInodeFree DEF TypeOK
  <2>2. /\ temp' = i
        /\ fd' = [fd EXCEPT ![r] = i]
        /\ content' = [content EXCEPT ![i] = Torn]
        /\ Goto(r, "write")
        /\ UNCHANGED <<request, tables, stopped, lock, cache, crashes>>
    BY <1>6 DEF OpenTemporary
  <2> HIDE DEF i
  <2>. QED  BY <2>1, <2>2 DEF TypeOK, Goto, Usable, Ended
<1>7. CASE WriteTemporary(r)
  BY <1>7 DEF TypeOK, WriteTemporary, Goto, Usable, Ended
<1>8. CASE Rename(r)
  BY <1>8 DEF TypeOK, Rename, Goto, Usable, Ended
<1>9. CASE ReturnTables(r)
  BY <1>9 DEF TypeOK, ReturnTables, Release, Goto, files, Usable, Ended
<1>10. CASE LoadFails(r) \/ SaveFails(r) \/ Overspent(r)
  BY <1>10, EndTypeOK DEF LoadFails, SaveFails, Overspent
<1>. QED  BY <1>1, <1>2, <1>3, <1>4, <1>5, <1>6, <1>7, <1>8, <1>9, <1>10 DEF Step

LEMMA CrashTypeOK ==
    ASSUME TypeOK, NEW p \in Processes, Crash(p)
    PROVE  TypeOK'
<1>1. pc' \in [Runs -> {"want", "load", "ask", "reply", "open", "write",
                        "rename", "have"} \cup Ended]
  BY DEF TypeOK, Crash, Ended
<1>2. fd' \in [Runs -> Inodes \cup {None}]
  BY DEF TypeOK, Crash
<1>3. request' \in [Runs -> {"none", "flight", "answered", "refused"}]
  BY DEF TypeOK, Crash
<1>4. lock' \in [Processes -> Runs \cup {None}] /\ crashes' \in 0 .. MaxCrashes
  BY TableAssumption DEF TypeOK, Crash
<1>. QED  BY <1>1, <1>2, <1>3, <1>4 DEF TypeOK, Crash

LEMMA NextTypeOK == TypeOK /\ [Next]_vars => TypeOK'
<1> SUFFICES ASSUME TypeOK, [Next]_vars PROVE TypeOK'
  OBVIOUS
<1>1. ASSUME NEW r \in Runs, Step(r) PROVE TypeOK'
  BY <1>1, StepTypeOK
<1>2. ASSUME NEW r \in Runs, GiveUp(r) PROVE TypeOK'
  BY <1>2, EndTypeOK DEF GiveUp
<1>3. ASSUME NEW r \in Runs, Answer(r) PROVE TypeOK'
  BY <1>3 DEF TypeOK, Answer, files
<1>4. ASSUME NEW p \in Processes, Crash(p) PROVE TypeOK'
  BY <1>4, CrashTypeOK
<1>5. CASE UNCHANGED vars
  BY <1>5 DEF TypeOK, vars
<1>6. ASSUME NEW r \in Runs, Stop(r) PROVE TypeOK'
  BY <1>6 DEF TypeOK, Stop, files
<1>. QED  BY <1>1, <1>2, <1>3, <1>4, <1>5, <1>6 DEF Next, Terminated

\* Every variable has its type, with any number of processes.
THEOREM TypeCorrect == Spec => []TypeOK
BY InitTypeOK, NextTypeOK, PTL DEF Spec

-----------------------------------------------------------------------------
(* The inductive invariant of one server *)

OneServer == \A r, s \in Runs : Home[r] = Home[s]

\* A run before it has tables, and after a miss.
Missed == {"ask", "reply", "open", "write", "rename"}

\* Only the holder of the lock is under it.
LockInv ==
    \A r \in Runs : pc[r] \in {"load", "have"} \cup Missed => lock[Home[r]] = r

\* The writer has the temporary file open, and it is not the cache.
FileInv ==
    /\ cache # None => cache # temp /\ content[cache] # Torn
    /\ \A r \in Runs :
          /\ fd[r] # None => pc[r] = "write"
          /\ pc[r] = "write" => fd[r] = temp /\ temp # None
          /\ pc[r] = "rename" => temp # None /\ content[temp] = r

\* What a run knows of the cache while it holds the lock; one that was stopped
\* in time gets no tables.
ViewInv ==
    \A r \in Runs :
        /\ pc[r] \in {"want", "load"} \cup Missed => tables[r] = None
        /\ pc[r] \in Missed /\ r \notin Fresh => OnDisk \notin Usable
        /\ pc[r] = "have" => tables[r] = OnDisk
        /\ stopped[r] => tables[r] = None /\ pc[r] \in Checked \cup {"over", "dead"}

IInv == TypeOK /\ LockInv /\ FileInv /\ ViewInv

LEMMA InitIInv == Init => IInv
<1> SUFFICES ASSUME Init PROVE IInv
  OBVIOUS
<1>1. TypeOK
  BY InitTypeOK
<1>2. LockInv
  BY DEF Init, LockInv, Missed
<1>3. FileInv
  BY Distinct, InodesFacts, TableAssumption DEF Init, FileInv
<1>4. ViewInv
  BY DEF Init, ViewInv, Missed
<1>. QED  BY <1>1, <1>2, <1>3, <1>4 DEF IInv

\* A run that ends changes nothing on disk.
LEMMA EndIInv ==
    ASSUME IInv, NEW r \in Runs, End(r)
    PROVE  IInv'
<1> USE DEF IInv
<1>1. TypeOK'
  BY EndTypeOK
<1>2. pc' = [pc EXCEPT ![r] = "over"] /\ fd' = [fd EXCEPT ![r] = None]
      /\ UNCHANGED <<tables, stopped, cache, temp, content>>
  BY DEF End, Goto
<1>3. \A s \in Runs \ {r} : pc'[s] = pc[s] /\ fd'[s] = fd[s]
  BY <1>2 DEF TypeOK
<1>4. pc'[r] = "over" /\ fd'[r] = None
  BY <1>2 DEF TypeOK
<1>5. \A p \in Processes : lock[p] # r => lock'[p] = lock[p]
  BY DEF End, Release
<1>6. LockInv'
  BY <1>3, <1>4, <1>5, TableAssumption DEF LockInv, Missed
<1>7. FileInv'
  BY <1>2, <1>3, <1>4 DEF FileInv
<1>8. OnDisk' = OnDisk
  BY <1>2 DEF OnDisk
<1>9. ViewInv'
  BY <1>2, <1>3, <1>4, <1>8 DEF ViewInv, Missed, Checked
<1>. QED  BY <1>1, <1>6, <1>7, <1>9

\* With one server, no two runs are under the lock.
LEMMA Alone ==
    ASSUME IInv, OneServer, NEW r \in Runs, NEW s \in Runs,
           pc[r] \in {"load", "have"} \cup Missed, pc[s] \in {"load", "have"} \cup Missed
    PROVE  r = s
<1>1. lock[Home[r]] = r /\ lock[Home[s]] = s /\ Home[r] = Home[s]
  BY DEF IInv, LockInv, OneServer
<1>. QED  BY <1>1

LEMMA StepIInv ==
    ASSUME IInv, OneServer, NEW r \in Runs, Step(r)
    PROVE  IInv'
<1> USE DEF IInv
<1>1. TypeOK'
  BY StepTypeOK
<1>a. Home[r] \in Processes /\ r # None
  BY TableAssumption
<1>2. CASE Acquire(r)
  <2>1. LockInv'
    BY <1>2, <1>a, TableAssumption DEF Acquire, Goto, LockInv, Missed, TypeOK
  <2>2. FileInv'
    BY <1>2 DEF Acquire, Goto, FileInv, TypeOK, files
  <2>3. ViewInv'
    BY <1>2 DEF Acquire, Goto, ViewInv, TypeOK, files, OnDisk, Missed, Checked
  <2>. QED  BY <1>1, <2>1, <2>2, <2>3
<1>3. CASE LoadHit(r)
  <2>1. LockInv'
    BY <1>3 DEF LoadHit, Goto, LockInv, Missed, TypeOK
  <2>2. FileInv'
    BY <1>3 DEF LoadHit, Goto, FileInv, TypeOK, files
  <2>3. ViewInv'
    BY <1>3 DEF LoadHit, Goto, ViewInv, TypeOK, files, OnDisk, Missed, Checked
  <2>. QED  BY <1>1, <2>1, <2>2, <2>3
<1>4. CASE LoadMiss(r)
  <2>1. LockInv'
    BY <1>4 DEF LoadMiss, Goto, LockInv, Missed, TypeOK
  <2>2. FileInv'
    BY <1>4 DEF LoadMiss, Goto, FileInv, TypeOK, files
  <2>3. OnDisk' = OnDisk /\ (r \notin Fresh => OnDisk \notin Usable)
    BY <1>4, Distinct, TableAssumption DEF LoadMiss, files, OnDisk, Usable
  <2>4. ViewInv'
    BY <1>4, <2>3 DEF LoadMiss, Goto, ViewInv, TypeOK, files, Missed, Checked
  <2>. QED  BY <1>1, <2>1, <2>2, <2>4
<1>5. CASE TakeReply(r)
  <2>1. LockInv'
    BY <1>5 DEF TakeReply, Goto, LockInv, Missed, TypeOK
  <2>2. FileInv'
    BY <1>5 DEF TakeReply, Goto, FileInv, TypeOK, files
  <2>3. ViewInv'
    BY <1>5 DEF TakeReply, Goto, ViewInv, TypeOK, files, OnDisk, Missed, Checked
  <2>. QED  BY <1>1, <2>1, <2>2, <2>3
<1>6. CASE UseReply(r)
  <2>1. CASE request[r] = "refused"
    BY <1>6, <2>1, EndIInv DEF UseReply
  <2>2. CASE request[r] # "refused"
    <3>1. LockInv'
      BY <1>6, <2>2 DEF UseReply, Goto, LockInv, Missed, TypeOK
    <3>2. FileInv'
      BY <1>6, <2>2 DEF UseReply, Goto, FileInv, TypeOK, files
    <3>3. ViewInv'
      BY <1>6, <2>2 DEF UseReply, Goto, ViewInv, TypeOK, files, OnDisk, Missed, Checked
    <3>. QED  BY <1>1, <3>1, <3>2, <3>3
  <2>. QED  BY <2>1, <2>2
<1>7. CASE OpenTemporary(r)
  <2> DEFINE i == IF temp = None THEN NewInode ELSE temp
  <2>1. i \in Inodes /\ i # cache
    BY NewInodeFree, InodesFacts DEF TypeOK, FileInv
  <2>2. /\ pc[r] = "open"
        /\ temp' = i
        /\ fd' = [fd EXCEPT ![r] = i]
        /\ content' = [content EXCEPT ![i] = Torn]
        /\ pc' = [pc EXCEPT ![r] = "write"]
        /\ UNCHANGED <<tables, stopped, lock, cache>>
    BY <1>7 DEF OpenTemporary, Goto
  <2> HIDE DEF i
  <2>3. LockInv'
    BY <2>2 DEF LockInv, Missed, TypeOK
  <2>4. \A s \in Runs \ {r} : pc[s] \notin {"write", "rename"} /\ fd[s] = None
    BY <2>2, Alone DEF Missed, FileInv
  <2>5. OnDisk' = OnDisk
    BY <2>1, <2>2 DEF OnDisk, TypeOK
  <2>6. FileInv'
    <3>1. cache' # None => cache' # temp' /\ content'[cache'] # Torn
      BY <2>1, <2>2 DEF FileInv, TypeOK
    <3>2. ASSUME NEW s \in Runs, s # r
          PROVE  /\ pc'[s] \notin {"write", "rename"} /\ fd'[s] = None
      BY <2>2, <2>4, <3>2 DEF TypeOK
    <3>3. pc'[r] = "write" /\ fd'[r] = temp' /\ temp' # None
      BY <2>1, <2>2, InodesFacts DEF TypeOK
    <3>. QED  BY <3>1, <3>2, <3>3 DEF FileInv
  <2>7. ViewInv'
    BY <2>2, <2>5 DEF ViewInv, Missed, Checked, TypeOK
  <2>. QED  BY <1>1, <2>3, <2>6, <2>7
<1>8. CASE WriteTemporary(r)
  <2>1. /\ pc[r] = "write" /\ fd[r] = temp /\ temp # None /\ temp # cache
        /\ content' = [content EXCEPT ![temp] = r]
        /\ fd' = [fd EXCEPT ![r] = None]
        /\ pc' = [pc EXCEPT ![r] = "rename"]
        /\ UNCHANGED <<tables, stopped, lock, cache, temp>>
    BY <1>8 DEF WriteTemporary, Goto, FileInv
  <2>2. LockInv'
    BY <2>1 DEF LockInv, Missed, TypeOK
  <2>3. \A s \in Runs \ {r} : pc[s] \notin {"write", "rename"} /\ fd[s] = None
    BY <2>1, Alone DEF Missed, FileInv
  <2>4. OnDisk' = OnDisk
    BY <2>1 DEF OnDisk, TypeOK
  <2>5. FileInv'
    <3>1. cache' # None => cache' # temp' /\ content'[cache'] # Torn
      BY <2>1 DEF FileInv, TypeOK
    <3>2. ASSUME NEW s \in Runs, s # r
          PROVE  /\ pc'[s] \notin {"write", "rename"} /\ fd'[s] = None
      BY <2>1, <2>3, <3>2 DEF TypeOK
    <3>3. pc'[r] = "rename" /\ fd'[r] = None /\ temp' # None /\ content'[temp'] = r
      BY <2>1 DEF TypeOK
    <3>. QED  BY <3>1, <3>2, <3>3 DEF FileInv
  <2>6. ViewInv'
    BY <2>1, <2>4 DEF ViewInv, Missed, Checked, TypeOK
  <2>. QED  BY <1>1, <2>2, <2>5, <2>6
<1>9. CASE Rename(r)
  <2>1. /\ pc[r] = "rename" /\ temp # None /\ content[temp] = r
        /\ cache' = temp /\ temp' = None
        /\ tables' = [tables EXCEPT ![r] = r]
        /\ pc' = [pc EXCEPT ![r] = "have"]
        /\ UNCHANGED <<stopped, lock, fd, content>>
    BY <1>9 DEF Rename, Goto, FileInv
  <2>2. LockInv'
    BY <2>1 DEF LockInv, Missed, TypeOK
  <2>3. \A s \in Runs \ {r} : pc[s] \notin {"load", "have"} \cup Missed
    BY <2>1, Alone DEF Missed
  <2>4. OnDisk' = r /\ r # Torn
    BY <2>1, TableAssumption DEF OnDisk, TypeOK
  <2>5. FileInv'
    <3>1. cache' # None => cache' # temp' /\ content'[cache'] # Torn
      BY <2>1, <2>4 DEF FileInv, TypeOK
    <3>2. ASSUME NEW s \in Runs
          PROVE  /\ pc'[s] \notin {"write", "rename"} /\ fd'[s] = None
      BY <2>1, <2>3 DEF TypeOK, Missed, FileInv
    <3>. QED  BY <3>1, <3>2 DEF FileInv
  <2>6. ViewInv'
    BY <2>1, <2>3, <2>4 DEF ViewInv, Missed, Checked, TypeOK
  <2>. QED  BY <1>1, <2>2, <2>5, <2>6
<1>10. CASE ReturnTables(r)
  <2>1. /\ pc[r] = "have" /\ pc' = [pc EXCEPT ![r] = "run"]
        /\ UNCHANGED <<tables, stopped, fd, cache, temp, content>>
    BY <1>10 DEF ReturnTables, Goto, files
  <2>2. LockInv'
    <3>1. ASSUME NEW s \in Runs, pc'[s] \in {"load", "have"} \cup Missed
          PROVE  lock'[Home[s]] = s
      <4>1. s # r /\ pc[s] \in {"load", "have"} \cup Missed
        BY <2>1, <3>1 DEF TypeOK, Missed
      <4>2. lock[Home[s]] = s
        BY <4>1 DEF LockInv
      <4>. QED  BY <1>10, <4>1, <4>2, TableAssumption DEF ReturnTables, Release
    <3>. QED  BY <3>1 DEF LockInv
  <2>3. FileInv'
    BY <2>1 DEF FileInv, TypeOK
  <2>4. ViewInv'
    BY <2>1 DEF ViewInv, TypeOK, OnDisk, Missed, Checked
  <2>. QED  BY <1>1, <2>2, <2>3, <2>4
<1>11. CASE LoadFails(r) \/ SaveFails(r) \/ Overspent(r)
  BY <1>11, EndIInv DEF LoadFails, SaveFails, Overspent
<1>. QED  BY <1>2, <1>3, <1>4, <1>5, <1>6, <1>7, <1>8, <1>9, <1>10, <1>11 DEF Step

LEMMA CrashIInv ==
    ASSUME IInv, NEW p \in Processes, Crash(p)
    PROVE  IInv'
<1> USE DEF IInv
<1>1. TypeOK'
  BY CrashTypeOK
<1>2. /\ pc' = [r \in Runs |-> IF r \in Lost(p) THEN "dead" ELSE pc[r]]
      /\ fd' = [r \in Runs |-> IF r \in Lost(p) THEN None ELSE fd[r]]
      /\ lock' = [lock EXCEPT ![p] = None]
      /\ UNCHANGED <<tables, stopped, cache, temp, content>>
  BY DEF Crash
<1>3. \A r \in Runs :
         \/ pc'[r] = "dead" /\ fd'[r] = None
         \/ pc'[r] = pc[r] /\ fd'[r] = fd[r]
            /\ (pc[r] \in {"load", "have"} \cup Missed => Home[r] # p)
  BY <1>2 DEF Lost, Missed, Ended
<1>4. LockInv'
  BY <1>2, <1>3, TableAssumption DEF LockInv, TypeOK, Missed
<1>5. FileInv'
  BY <1>2, <1>3 DEF FileInv
<1>6. OnDisk' = OnDisk
  BY <1>2 DEF OnDisk
<1>7. ViewInv'
  BY <1>2, <1>3, <1>6 DEF ViewInv, Missed, Checked
<1>. QED  BY <1>1, <1>4, <1>5, <1>7

LEMMA NextIInv == OneServer /\ IInv /\ [Next]_vars => IInv'
<1> SUFFICES ASSUME OneServer, IInv, [Next]_vars PROVE IInv'
  OBVIOUS
<1>1. ASSUME NEW r \in Runs, Step(r) PROVE IInv'
  BY <1>1, StepIInv
<1>2. ASSUME NEW r \in Runs, GiveUp(r) PROVE IInv'
  BY <1>2, EndIInv DEF GiveUp
<1>3. ASSUME NEW r \in Runs, Answer(r) PROVE IInv'
  <2>1. TypeOK'
    BY <1>3, NextTypeOK DEF Next, IInv
  <2>2. UNCHANGED <<pc, tables, lock, files>>
    BY <1>3 DEF Answer
  <2>. QED  BY <1>3, <2>1, <2>2 DEF Answer, IInv, LockInv, FileInv, ViewInv, OnDisk, files
<1>4. ASSUME NEW p \in Processes, Crash(p) PROVE IInv'
  BY <1>4, CrashIInv
<1>5. CASE UNCHANGED vars
  BY <1>5 DEF IInv, TypeOK, LockInv, FileInv, ViewInv, OnDisk, vars
<1>6. ASSUME NEW r \in Runs, Stop(r) PROVE IInv'
  <2>1. TypeOK'
    BY <1>6, NextTypeOK DEF Next, IInv
  <2>2. UNCHANGED <<pc, tables, lock, files>>
    BY <1>6 DEF Stop
  <2>3. ViewInv'
    BY <1>6, <2>2 DEF Stop, IInv, TypeOK, ViewInv, OnDisk, files, Checked, Missed
  <2>. QED  BY <2>1, <2>2, <2>3 DEF IInv, LockInv, FileInv, files
<1>. QED  BY <1>1, <1>2, <1>3, <1>4, <1>5, <1>6 DEF Next, Terminated

\* With one server, whenever it dies, the cache is a complete record.
THEOREM CacheAlwaysReadable == ASSUME OneServer PROVE Spec => []CacheReadable
<1>1. IInv => CacheReadable
  BY Distinct DEF IInv, FileInv, CacheReadable, OnDisk
<1>2. IInv /\ [Next]_vars => IInv'
  BY NextIInv
<1>. QED  BY <1>1, <1>2, InitIInv, PTL DEF Spec

\* With one server, a run is handed the tables that are on disk.
THEOREM HandedTablesOnDisk == ASSUME OneServer PROVE Spec => []TablesOnDisk
<1>1. IInv => TablesOnDisk
  BY DEF IInv, ViewInv, TablesOnDisk
<1>2. IInv /\ [Next]_vars => IInv'
  BY NextIInv
<1>. QED  BY <1>1, <1>2, InitIInv, PTL DEF Spec

-----------------------------------------------------------------------------
(* The refinement *)

LEMMA InitRefines == Init => Tables!Init
BY Distinct, InodesFacts DEF Init, Tables!Init, OnDisk, Left

\* Who is out stays out: no step takes a stop or an end back.
LEMMA LeftGrows ==
    ASSUME IInv, Next
    PROVE  Left \subseteq Left'
<1> USE DEF IInv, TypeOK
<1>1. ASSUME NEW r \in Runs, stopped[r] PROVE stopped'[r]
  BY <1>1 DEF Next, Step, Stop, GiveUp, Answer, Crash, Terminated, vars, End, Acquire, LoadHit,
     LoadMiss, LoadFails, TakeReply, UseReply, OpenTemporary, WriteTemporary, SaveFails, Rename,
     Overspent, ReturnTables
<1>2. ASSUME NEW r \in Runs, pc[r] \in {"over", "dead"}
      PROVE  pc'[r] = pc[r] /\ tables'[r] = tables[r]
  <2>1. ASSUME NEW q \in Runs, Step(q) \/ GiveUp(q)
        PROVE  pc'[r] = pc[r] /\ tables'[r] = tables[r]
    BY <1>2, <2>1 DEF Step, GiveUp, End, Goto, Acquire, LoadHit, LoadMiss, LoadFails, TakeReply,
       UseReply, OpenTemporary, WriteTemporary, SaveFails, Rename, Overspent, ReturnTables, Checked
  <2>2. CASE \E q \in Runs : Stop(q) \/ Answer(q)
    BY <2>2 DEF Stop, Answer
  <2>3. CASE \E p \in Processes : Crash(p)
    BY <1>2, <2>3 DEF Crash, Lost, Ended
  <2>. QED  BY <2>1, <2>2, <2>3 DEF Next, Terminated, vars
<1>. QED  BY <1>1, <1>2 DEF Left

\* Runs that end, are stopped or die without tables.
LEMMA StepOfLeave ==
    ASSUME IInv, IInv', Next, UNCHANGED <<OnDisk, tables>>
    PROVE  [Tables!Next]_(Tables!vars)
<1>1. Left \subseteq Left'
  BY LeftGrows
<1>2. Left' \subseteq {r \in Runs : tables[r] = None}
  BY DEF IInv, ViewInv, Left
<1>3. Tables!Leave
  <2>1. Left' = Left \cup Left'
    BY <1>1
  <2>. QED  BY <1>2, <2>1 DEF Tables!Leave
<1>. QED  BY <1>3 DEF Tables!Next

LEMMA StepRefines ==
    ASSUME IInv, IInv', OneServer, NEW r \in Runs, Step(r)
    PROVE  [Tables!Next]_(Tables!vars)
<1> USE DEF IInv
<1>0. Next
  BY DEF Next
<1>1. CASE LoadHit(r)
  <2>1. /\ ~stopped[r] /\ pc[r] = "load" /\ pc' = [pc EXCEPT ![r] = "have"]
        /\ tables[r] = None /\ OnDisk \in Usable /\ r \notin Fresh
        /\ tables' = [tables EXCEPT ![r] = OnDisk] /\ UNCHANGED <<OnDisk, stopped>>
    BY <1>1 DEF LoadHit, Goto, ViewInv, OnDisk, files
  <2>2. r \notin Left /\ Left' = Left
    BY <2>1 DEF Left, TypeOK
  <2>3. Tables!Take(r)
    BY <2>1, <2>2 DEF Tables!Take, Tables!Usable, Usable
  <2>. QED  BY <2>3 DEF Tables!Next
<1>2. CASE Rename(r)
  <2>1. /\ pc[r] = "rename" /\ pc' = [pc EXCEPT ![r] = "have"]
        /\ tables[r] = None /\ (r \in Fresh \/ OnDisk \notin Usable)
        /\ tables' = [tables EXCEPT ![r] = r] /\ UNCHANGED stopped
    BY <1>2 DEF Rename, Goto, ViewInv, Missed
  <2>2. ~stopped[r]
    BY <2>1 DEF ViewInv, Checked
  <2>3. OnDisk' = r
    BY <1>2 DEF Rename, FileInv, OnDisk
  <2>4. r \notin Left /\ Left' = Left
    BY <2>1, <2>2 DEF Left, TypeOK
  <2>5. Tables!Fill(r)
    BY <2>1, <2>3, <2>4 DEF Tables!Fill, Tables!Usable, Usable
  <2>. QED  BY <2>5 DEF Tables!Next
<1>3. CASE OpenTemporary(r)
  <2> DEFINE i == IF temp = None THEN NewInode ELSE temp
  <2>1. i # cache
    BY NewInodeFree, InodesFacts DEF TypeOK, FileInv
  <2>2. content' = [content EXCEPT ![i] = Torn] /\ UNCHANGED <<tables, cache>>
    BY <1>3 DEF OpenTemporary
  <2> HIDE DEF i
  <2>3. UNCHANGED <<OnDisk, tables>>
    BY <2>1, <2>2 DEF OnDisk, TypeOK
  <2>. QED  BY <1>0, <2>3, StepOfLeave
<1>4. CASE WriteTemporary(r)
  <2>1. UNCHANGED <<OnDisk, tables>>
    BY <1>4 DEF WriteTemporary, FileInv, OnDisk, TypeOK
  <2>. QED  BY <1>0, <2>1, StepOfLeave
<1>5. CASE \/ Acquire(r) \/ LoadMiss(r) \/ LoadFails(r) \/ TakeReply(r) \/ UseReply(r)
           \/ SaveFails(r) \/ Overspent(r) \/ ReturnTables(r)
  <2>1. UNCHANGED <<OnDisk, tables>>
    BY <1>5 DEF Acquire, LoadMiss, LoadFails, TakeReply, UseReply, SaveFails, Overspent,
       ReturnTables, End, OnDisk, files
  <2>. QED  BY <1>0, <2>1, StepOfLeave
<1>. QED  BY <1>1, <1>2, <1>3, <1>4, <1>5 DEF Step

LEMMA NextRefines ==
    OneServer /\ IInv /\ IInv' /\ [Next]_vars => [Tables!Next]_(Tables!vars)
<1> SUFFICES ASSUME OneServer, IInv, IInv', [Next]_vars PROVE [Tables!Next]_(Tables!vars)
  OBVIOUS
<1>1. ASSUME NEW r \in Runs, Step(r) PROVE [Tables!Next]_(Tables!vars)
  BY <1>1, StepRefines
<1>2. CASE \/ \E r \in Runs : Stop(r) \/ GiveUp(r) \/ Answer(r)
           \/ \E p \in Processes : Crash(p)
  <2>1. UNCHANGED <<OnDisk, tables>>
    BY <1>2 DEF Stop, GiveUp, End, Answer, Crash, files, OnDisk
  <2>. QED  BY <1>2, <2>1, StepOfLeave DEF Next
<1>3. CASE UNCHANGED vars
  BY <1>3 DEF vars, OnDisk, Left, Tables!vars
<1>. QED  BY <1>1, <1>2, <1>3 DEF Next, Terminated

\* With one server, the lock, the files and the crashes are one cell that is
\* replaced at once and filled once by runs that miss it together.
THEOREM ImplementsSharedTables == ASSUME OneServer PROVE Spec => SharedSpec
<1>1. IInv /\ [Next]_vars => IInv' /\ [Tables!Next]_(Tables!vars)
  BY NextIInv, NextRefines
<1>. QED  BY <1>1, InitIInv, InitRefines, PTL DEF Spec, SharedSpec, Tables!Spec

\* The tables of the runs come from the cell or went into it.
FillInv ==
    /\ tables \in [Runs -> Usable \cup {None}]
    /\ \A r \in Runs : tables[r] # None => OnDisk \in Usable
    /\ OnDisk \in Runs => tables[OnDisk] = OnDisk
    /\ \A r \in Runs \ Fresh : tables[r] = r =>
           /\ OnDisk \in Fresh \cup {r}
           /\ \A q \in Runs : tables[q] \in Fresh \cup {r, None}
    /\ Tables!Traceable
    /\ Tables!NoTrace

LEMMA FillStep ==
    ASSUME FillInv, [Tables!Next]_(Tables!vars)
    PROVE  FillInv' /\ [Tables!Handed]_(Tables!vars)
<1>0. Old # None /\ Old \notin Runs /\ None \notin Runs
  BY Distinct, TableAssumption
<1> USE <1>0 DEF FillInv, Usable, Tables!Usable, Tables!Traceable, Tables!Handed
<1>1. ASSUME NEW r \in Runs, Tables!Take(r)  PROVE FillInv' /\ Tables!Handed
  <2>1. /\ r \notin Fresh /\ tables[r] = None /\ OnDisk \in Usable
        /\ tables' = [tables EXCEPT ![r] = OnDisk] /\ UNCHANGED <<OnDisk, Left>>
        /\ r \notin Left
    BY <1>1 DEF Tables!Take
  <2>2. Tables!Handed
    BY <2>1
  <2>5. Tables!NoTrace'
    BY <2>1 DEF Tables!NoTrace
  <2>0. OnDisk \in Runs => OnDisk # r /\ tables[OnDisk] = OnDisk
    BY <2>1
  <2>4. ASSUME NEW q \in Runs
        PROVE  /\ tables'[q] \in Usable \cup {None}
               /\ tables'[q] \in Runs => tables'[tables'[q]] = tables'[q]
    <3>1. CASE q = r
      BY <2>0, <2>1, <3>1
    <3>2. CASE q # r
      <4>1. tables'[q] = tables[q] /\ (tables[q] \in Runs => tables[q] # r)
        BY <2>1, <3>2
      <4>. QED  BY <2>1, <4>1
    <3>. QED  BY <3>1, <3>2
  <2>3. ASSUME NEW s \in Runs \ Fresh, tables'[s] = s
        PROVE  /\ OnDisk' \in Fresh \cup {s}
               /\ \A q \in Runs : tables'[q] \in Fresh \cup {s, None}
    <3>1. tables[s] = s
      BY <2>0, <2>1, <2>3
    <3>. QED  BY <2>1, <3>1
  <2>. QED  BY <2>0, <2>1, <2>2, <2>3, <2>4, <2>5
<1>2. ASSUME NEW r \in Runs, Tables!Fill(r)  PROVE FillInv' /\ Tables!Handed
  <2>1. /\ tables[r] = None /\ (r \in Fresh \/ OnDisk \notin Usable)
        /\ OnDisk' = r /\ tables' = [tables EXCEPT ![r] = r]
        /\ r \notin Left /\ UNCHANGED Left
    BY <1>2 DEF Tables!Fill
  <2>5. Tables!NoTrace'
    BY <2>1 DEF Tables!NoTrace
  <2>2. Tables!Traceable' /\ Tables!Handed
    BY <2>1
  <2>3. ASSUME NEW s \in Runs \ Fresh, tables'[s] = s
        PROVE  /\ OnDisk' \in Fresh \cup {s}
               /\ \A q \in Runs : tables'[q] \in Fresh \cup {s, None}
    <3>1. CASE r \in Fresh
      <4>1. tables[s] = s
        BY <2>1, <2>3, <3>1
      <4>. QED  BY <2>1, <3>1, <4>1
    <3>2. CASE r \notin Fresh
      <4>1. \A q \in Runs : tables[q] = None
        BY <2>1, <3>2
      <4>2. s = r
        BY <2>1, <2>3, <4>1
      <4>. QED  BY <2>1, <4>1, <4>2
    <3>. QED  BY <3>1, <3>2
  <2>. QED  BY <2>1, <2>2, <2>3, <2>5
<1>3. CASE UNCHANGED Tables!vars
  <2>1. UNCHANGED <<OnDisk, tables, Left>>
    BY <1>3 DEF Tables!vars
  <2>. QED  BY <1>3, <2>1 DEF Tables!NoTrace
<1>4. CASE Tables!Leave
  <2>1. PICK runs \in SUBSET {r \in Runs : tables[r] = None} :
           Left' = Left \cup runs /\ UNCHANGED <<OnDisk, tables>>
    BY <1>4 DEF Tables!Leave
  <2>2. Tables!NoTrace'
    BY <2>1 DEF Tables!NoTrace
  <2>3. Tables!Handed
    BY <2>1
  <2>. QED  BY <2>1, <2>2, <2>3
<1>. QED  BY <1>1, <1>2, <1>3, <1>4 DEF Tables!Next

LEMMA FillHolds == SharedSpec => []FillInv /\ Tables!HandedForGood
<1>1. Tables!Init => FillInv
  <2> SUFFICES ASSUME Tables!Init  PROVE FillInv
    OBVIOUS
  <2>1. Old \notin Runs /\ Other \notin Runs /\ None \notin Runs
    BY TableAssumption
  <2>2. OnDisk \in {None, Old, Other} /\ tables = [r \in Runs |-> None] /\ Left = {}
    BY DEF Tables!Init
  <2>. QED  BY <2>1, <2>2 DEF FillInv, Tables!Traceable, Tables!NoTrace
<1>2. FillInv /\ [Tables!Next]_(Tables!vars) => FillInv' /\ [Tables!Handed]_(Tables!vars)
  BY FillStep
<1>. QED  BY <1>1, <1>2, PTL DEF SharedSpec, Tables!Spec, Tables!HandedForGood

\* One answer of the classifier serves all runs that accept cached tables, and
\* no run is handed the tables of one that has not kept them or was stopped
\* before: this is so in every program that keeps SharedTables.
THEOREM PromiseShares ==
    SharedSpec =>
        /\ []Tables!OneFill /\ []Tables!Traceable /\ []Tables!NoTrace
        /\ Tables!HandedForGood
<1>1. FillInv => Tables!OneFill /\ Tables!Traceable /\ Tables!NoTrace
  BY DEF FillInv, Tables!OneFill
<1>. QED  BY <1>1, FillHolds, PTL

\* The two together, for lookup_tables, save_cache and crashes of one server.
THEOREM RunsShareTables ==
    ASSUME OneServer
    PROVE  Spec =>
               /\ []Tables!OneFill /\ []Tables!Traceable /\ []Tables!NoTrace
               /\ Tables!HandedForGood
BY ImplementsSharedTables, PromiseShares, PTL

-----------------------------------------------------------------------------
(* Nobody waits for ever, with any processes *)

Locked == {"load", "ask", "reply", "open", "write", "rename", "have"}

\* A lock that is taken is held by a run of its process that is under it: no
\* return and no exception of lookup_tables leaves it taken, and the locks of a
\* process die with it and no others.
HolderInv ==
    \A p \in Processes : lock[p] # None =>
        lock[p] \in Runs /\ Home[lock[p]] = p /\ pc[lock[p]] \in Locked

\* A run that is not over and does not wait for the lock can take a step: at
\* "ask" the deadline, at "rename" an exception, if it is nothing else.
CanGoOn(r) == pc[r] \notin Ended /\ (pc[r] = "want" => lock[Home[r]] = None)

\* As long as a process has a run that is not over, it has one that can go on.
SomeoneGoesOn ==
    \A p \in Processes :
        (\E r \in Runs : Home[r] = p /\ pc[r] \notin Ended)
            => \E r \in Runs : Home[r] = p /\ CanGoOn(r)

LEMMA StepHolder ==
    ASSUME TypeOK, HolderInv, NEW r \in Runs, Step(r) \/ Stop(r) \/ GiveUp(r) \/ Answer(r)
    PROVE  HolderInv'
<1> USE TableAssumption DEF HolderInv, TypeOK, Locked, Goto
<1>1. CASE Acquire(r)
  BY <1>1 DEF Acquire
<1>2. CASE End(r) \/ ReturnTables(r)
  BY <1>2 DEF End, ReturnTables, Release
<1>3. CASE /\ pc[r] \in Locked /\ lock' = lock
           /\ \/ pc' = pc
              \/ \E l \in Locked : pc' = [pc EXCEPT ![r] = l]
  BY <1>3
<1>4. CASE Stop(r) \/ Answer(r)
  BY <1>4 DEF Stop, Answer
<1>. QED
  BY <1>1, <1>2, <1>3, <1>4
  DEF Step, GiveUp, LoadHit, LoadMiss, LoadFails, TakeReply, UseReply, OpenTemporary,
      WriteTemporary, SaveFails, Rename, Overspent

LEMMA CrashHolder ==
    ASSUME TypeOK, HolderInv, NEW p \in Processes, Crash(p)
    PROVE  HolderInv'
<1> SUFFICES ASSUME NEW q \in Processes, lock'[q] # None
             PROVE  lock'[q] \in Runs /\ Home[lock'[q]] = q /\ pc'[lock'[q]] \in Locked
  BY DEF HolderInv
<1>1. q # p /\ lock'[q] = lock[q]
  BY DEF Crash, TypeOK
<1>2. lock[q] \in Runs /\ Home[lock[q]] = q /\ pc[lock[q]] \in Locked
  BY <1>1 DEF HolderInv
<1>3. pc'[lock[q]] = pc[lock[q]]
  BY <1>1, <1>2 DEF Crash, Lost
<1>. QED  BY <1>1, <1>2, <1>3

\* engine.lookup_tables: its lock cannot get lost, whatever the API, the disk
\* and other processes do and whenever a process dies.  No assumption about the
\* number of processes.
THEOREM LockIsPassedOn == Spec => [](HolderInv /\ SomeoneGoesOn)
<1>1. Init => HolderInv
  BY DEF Init, HolderInv
<1>2. TypeOK /\ HolderInv /\ [Next]_vars => HolderInv'
  <2> SUFFICES ASSUME TypeOK, HolderInv, [Next]_vars  PROVE HolderInv'
    OBVIOUS
  <2>1. CASE UNCHANGED vars
    BY <2>1 DEF vars, HolderInv
  <2>. QED  BY <2>1, StepHolder, CrashHolder DEF Next, Terminated
<1>3. TypeOK /\ HolderInv => SomeoneGoesOn
  BY TableAssumption DEF TypeOK, HolderInv, SomeoneGoesOn, CanGoOn, Locked, Ended
<1>. QED  BY <1>1, <1>2, <1>3, TypeCorrect, PTL DEF Spec

\* How many steps lookup_tables has before it at most.
Rank(line) ==
    CASE line = "want"   -> 8
      [] line = "load"   -> 7
      [] line = "ask"    -> 6
      [] line = "reply"  -> 5
      [] line = "open"   -> 4
      [] line = "write"  -> 3
      [] line = "rename" -> 2
      [] line = "have"   -> 1
      [] OTHER           -> 0

\* Nothing takes a run back, and every step of its own takes it on; a run
\* therefore asks the API once at most.
Descends ==
    /\ \A r \in Runs : Rank(pc'[r]) <= Rank(pc[r])
    /\ \A r \in Runs : Step(r) \/ GiveUp(r) => Rank(pc'[r]) < Rank(pc[r])

LEMMA StepDescends ==
    ASSUME TypeOK, NEW r \in Runs, Step(r) \/ GiveUp(r)
    PROVE  /\ Rank(pc'[r]) < Rank(pc[r])
           /\ \A s \in Runs \ {r} : pc'[s] = pc[s]
BY DEF TypeOK, Rank, Ended, Goto, End, Step, GiveUp, Acquire, LoadHit, LoadMiss, LoadFails,
   TakeReply, UseReply, OpenTemporary, WriteTemporary, SaveFails, Rename, Overspent, ReturnTables, Checked

\* engine.lookup_tables takes eight steps at most under any answers, failures
\* and crashes.  With LockIsPassedOn, this is why the runs that wait for the
\* classifier get their turn.
THEOREM LookupsComeToAnEnd == Spec => [][Descends]_vars
<1>1. \A line : Rank(line) \in 0 .. 8
  BY DEF Rank
<1>2. TypeOK /\ [Next]_vars => [Descends]_vars
  <2> SUFFICES ASSUME TypeOK, Next  PROVE Descends
    OBVIOUS
  <2>1. ASSUME NEW s \in Runs  PROVE Rank(pc'[s]) <= Rank(pc[s])
    <3>1. CASE pc'[s] = pc[s]
      BY <1>1, <3>1
    <3>2. CASE pc'[s] = "dead"
      BY <1>1, <3>2 DEF Rank
    <3>3. ASSUME NEW r \in Runs, Step(r) \/ GiveUp(r)  PROVE Rank(pc'[s]) <= Rank(pc[s])
      BY <1>1, <3>1, <3>3, StepDescends
    <3>. QED  BY <3>1, <3>2, <3>3 DEF Next, Terminated, Stop, Answer, Crash, vars
  <2>. QED  BY <2>1, StepDescends DEF Descends
<1>. QED  BY <1>2, TypeCorrect, PTL DEF Spec
=============================================================================
