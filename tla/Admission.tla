------------------------------ MODULE Admission ------------------------------
(***************************************************************************)
(* Which runs the server starts: app.start_run with its tables, the        *)
(* cooldowns of compilation_delay, and the list of jobs.                   *)
(*                                                                         *)
(* One request is one action, for jobs_lock covers it; runs end outside    *)
(* the lock, but an ended run stays ended, so a run that ends while        *)
(* start_run counts makes no difference.  Time passes in ticks, fractions  *)
(* of a second, and the server answers in whole seconds.                   *)
(*                                                                         *)
(* A time the code remembers is kept as its age, now - time: the code uses *)
(* nothing else.  It compares ages with a minute at most, so those of a    *)
(* minute and more are one, and neither time nor the number of runs needs  *)
(* a bound.                                                                *)
(***************************************************************************)
EXTENDS Integers, SequencesExt, FiniteSetsExt, Subsequences

CONSTANTS
    Visitors,
    MaxActive,     \* 6 runs at once
    MaxJobs,       \* 24 runs remembered
    MaxStarts,     \* 12 starts of a visitor in a window
    MaxCompiles,   \* COMPILES_PER_MINUTE, 20
    Second,        \* ticks
    Cooldown,      \* ticks of the 30 seconds of COMPILE_COOLDOWN
    Window,        \* ticks of a minute
    TableSize      \* 10000 visitors in rate_limits and compile_limits

ASSUME AdmissionAssumption ==
    /\ {MaxActive, MaxJobs, MaxStarts, MaxCompiles} \subseteq Nat \ {0}
    /\ {Second, Cooldown, Window} \subseteq Nat \ {0}
    /\ TableSize \in Nat
    /\ MaxActive <= MaxJobs
    /\ Cooldown <= Window

VARIABLES
    jobs,            \* the runs the server remembers, oldest first
    active,          \* runs that are not done
    rateLimits,      \* the starts of each visitor, <<>> if not in the table
    compileLimits,   \* the last compile of each visitor, Never if not in it
    compileTimes,    \* the last compiles of all visitors
    \* history
    starts,          \* runs of each visitor since its stamps were thrown away
    compiles,        \* all compiles: visitor, age, kept in compileLimits
    promise          \* the visitor told last when to try again, and the time left

tables == <<rateLimits, compileLimits, compileTimes>>
history == <<starts, compiles, promise>>
vars == <<jobs, active, tables, history>>

Never == -1
NoPromise == [left |-> Never]

\* Enough identifiers for every run that is active or remembered.
Runs == 1 .. MaxActive + MaxJobs

Init ==
    /\ jobs = <<>> /\ active = {}
    /\ rateLimits = [v \in Visitors |-> <<>>]
    /\ compileLimits = [v \in Visitors |-> Never]
    /\ compileTimes = <<>>
    /\ starts = [v \in Visitors |-> <<>>]
    /\ compiles = <<>>
    /\ promise = NoPromise

-----------------------------------------------------------------------------
(* compilation_delay *)

\* Faulty variant of Recent: stamps are dropped after the cooldown.
RecentTooShort(ages) == SelectSeq(ages, LAMBDA age : age < Cooldown)

\* The stamps of the last minute.
Recent(ages) == At(ages, {i \in DOMAIN ages : ages[i] < Window})

Seconds(ticks) == (ticks + Second - 1) \div Second

OwnDelay(v) ==
    IF compileLimits[v] = Never THEN 0 ELSE Max({0, Cooldown - compileLimits[v]})

SharedDelay ==
    LET times == Recent(compileTimes) IN
    IF Len(times) >= MaxCompiles THEN Window - Head(times) ELSE 0

\* Faulty variants of CompilationDelay: only the visitor's own compiles count;
\* only the server's do; a full server makes the visitor's own irrelevant.
CompilationDelayOwn(v) == Seconds(OwnDelay(v))

CompilationDelayShared(v) == Seconds(SharedDelay)

CompilationDelayLast(v) ==
    Seconds(IF SharedDelay > 0 THEN SharedDelay ELSE OwnDelay(v))

CompilationDelay(v) == Seconds(Max({OwnDelay(v), SharedDelay}))

\* The visitor is told how long to wait.
Tell(v) ==
    /\ compileTimes' = Recent(compileTimes)
    /\ promise' = [visitor |-> v, left |-> CompilationDelay(v) * Second]
    /\ UNCHANGED <<jobs, active, rateLimits, compileLimits, starts, compiles>>

-----------------------------------------------------------------------------
(* start_run *)

RefuseCompile(v) == CompilationDelay(v) > 0 /\ Tell(v)

\* compilation_delay drops the old stamps of compile_times on its way.
Admissible(v, custom) == custom => CompilationDelay(v) = 0

Prune(custom) == IF custom THEN Recent(compileTimes) ELSE compileTimes

RefuseRate(v, custom) ==
    /\ Admissible(v, custom)
    /\ Len(Recent(rateLimits[v])) >= MaxStarts
    /\ compileTimes' = Prune(custom)
    /\ UNCHANGED <<jobs, active, rateLimits, compileLimits, history>>

RatesFull == Quantify(Visitors, LAMBDA w : rateLimits[w] # <<>>) > TableSize

\* The start counts, whether or not a run comes of it.  A table of more than
\* TableSize visitors is thrown away first.
CountStart(v) ==
    /\ Len(Recent(rateLimits[v])) < MaxStarts
    /\ rateLimits' = [w \in Visitors |->
           IF w = v THEN Append(Recent(rateLimits[v]), 0)
           ELSE IF RatesFull THEN <<>> ELSE rateLimits[w]]

\* The history of visitor w when v starts: v keeps its own stamps.
Remembered(v, w) == IF RatesFull /\ w # v THEN <<>> ELSE starts[w]

Busy == Quantify(ToSet(jobs), LAMBDA run : run \in active) >= MaxActive

RefuseActive(v, custom) ==
    /\ Admissible(v, custom)
    /\ CountStart(v)
    /\ Busy
    /\ starts' = [w \in Visitors |-> Remembered(v, w)]
    /\ compileTimes' = Prune(custom)
    /\ UNCHANGED <<jobs, active, compileLimits, compiles, promise>>

\* Faulty variants of Evict: room is made only when there is too little; the
\* oldest jobs go, done or not.
EvictLate ==
    IF Len(jobs) > MaxJobs THEN SelectSeq(jobs, LAMBDA run : run \in active) ELSE jobs

EvictOldest == SubSeq(jobs, Max({1, Len(jobs) - MaxJobs + 2}), Len(jobs))

\* The oldest runs that are done go until there is room for one more.
Evict ==
    LET excess == Len(jobs) - MaxJobs + 1
        ended == {i \in DOMAIN jobs : jobs[i] \notin active}
        gone == {i \in ended : Rank(ended, i) <= excess}
    IN  At(jobs, DOMAIN jobs \ gone)

CompilesFull == Quantify(Visitors, LAMBDA w : compileLimits[w] # Never) > TableSize

CountCompile(v) ==
    /\ compileLimits' = [w \in Visitors |->
           IF w = v THEN 0 ELSE IF CompilesFull THEN Never ELSE compileLimits[w]]
    /\ compileTimes' = Append(Recent(compileTimes), 0)
    /\ compiles' =
           Append([i \in DOMAIN compiles |->
                      [compiles[i] EXCEPT !.kept = @ /\ ~CompilesFull]],
                  [visitor |-> v, age |-> 0, kept |-> TRUE])
    /\ promise' = NoPromise

CreateRun(v, custom) ==
    /\ Admissible(v, custom)
    /\ CountStart(v)
    /\ ~Busy
    /\ LET run == CHOOSE r \in Runs : r \notin ToSet(jobs) \cup active IN
       /\ jobs' = Append(Evict, run)
       /\ active' = active \cup {run}
    /\ starts' = [w \in Visitors |->
           IF w = v THEN Append(starts[v], 0) ELSE Remembered(v, w)]
    /\ IF custom THEN CountCompile(v)
       ELSE UNCHANGED <<compileLimits, compileTimes, compiles, promise>>

StartRun(v) ==
    \/ RefuseCompile(v)
    \/ \E custom \in BOOLEAN :
          RefuseRate(v, custom) \/ RefuseActive(v, custom) \/ CreateRun(v, custom)

-----------------------------------------------------------------------------

\* The route limits, which the page asks when it is loaded.
AskLimits(v) == Tell(v)

EndRun(run) ==
    /\ run \in active
    /\ active' = active \ {run}
    /\ UNCHANGED <<jobs, tables, history>>

Older(age) == IF age \in 0 .. Window - 1 THEN age + 1 ELSE age

\* A tick; what has left the last minute leaves the history.
Tick ==
    LET older(ages) == [i \in DOMAIN ages |-> Older(ages[i])]
        last(ages) == At(ages, {i \in DOMAIN ages : ages[i] < Window})
        aged == [i \in DOMAIN compiles |-> [compiles[i] EXCEPT !.age = Older(@)]]
    IN
    /\ rateLimits' = [v \in Visitors |-> older(rateLimits[v])]
    /\ compileLimits' = [v \in Visitors |-> Older(compileLimits[v])]
    /\ compileTimes' = older(compileTimes)
    /\ starts' = [v \in Visitors |-> last(older(starts[v]))]
    /\ compiles' = At(aged, {i \in DOMAIN compiles : aged[i].age < Window})
    /\ promise' = IF promise.left > 0 THEN [promise EXCEPT !.left = @ - 1] ELSE promise
    /\ UNCHANGED <<jobs, active>>

Next ==
    \/ \E v \in Visitors : StartRun(v) \/ AskLimits(v)
    \/ \E run \in Runs : EndRun(run)
    \/ Tick

Spec == Init /\ [][Next]_vars

-----------------------------------------------------------------------------
(* Properties *)

Ages == 0 .. Window
Stamps == [visitor : Visitors, age : Ages, kept : BOOLEAN]

\* Every variable has its type; the server keeps no more jobs and no more
\* stamps than it says.
TypeOK ==
    /\ jobs \in Seq(Runs) /\ Len(jobs) <= MaxJobs
    /\ active \subseteq Runs
    /\ rateLimits \in [Visitors -> Seq(Ages)]
    /\ \A v \in Visitors : Len(rateLimits[v]) <= MaxStarts
    /\ compileLimits \in [Visitors -> Ages \cup {Never}]
    /\ compileTimes \in Seq(Ages) /\ Len(compileTimes) <= MaxCompiles
    /\ starts \in [Visitors -> Seq(Ages)]
    /\ compiles \in Seq(Stamps)
    /\ promise \in {NoPromise} \cup [visitor : Visitors, left : Nat]

\* "The server allows six concurrent runs": it remembers each of them, for a
\* run that made room while it goes on would not count, and nobody could stop it.
ActiveBounded == Cardinality(active) <= MaxActive /\ active \subseteq ToSet(jobs)

\* "12 starts per IP per minute": in any minute, not only in those the clock
\* shows, as long as the visitor's stamps are not thrown away with the table.
StartsBounded == \A v \in Visitors : Len(starts[v]) <= MaxStarts

\* "a shared limit of 20 per minute across the server"
CompilesBounded == Len(compiles) <= MaxCompiles

\* "a 30-second per-IP cooldown", as long as the table is not thrown away.
CooldownKept ==
    \A i, j \in DOMAIN compiles :
        (/\ compiles[i].visitor = compiles[j].visitor
         /\ compiles[i].kept /\ compiles[i].age < Cooldown
         /\ compiles[j].kept /\ compiles[j].age < Cooldown) => i = j

\* A visitor who waits as long as Retry-After or the page says is not told to
\* wait again, unless somebody has compiled meanwhile.
RetrySuffices == promise.left = 0 => CompilationDelay(promise.visitor) = 0
=============================================================================
