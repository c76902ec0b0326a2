--------------------------- MODULE AdmissionProofs ---------------------------
(***************************************************************************)
(* Proofs about Admission, for any visitors, limits and windows.           *)
(***************************************************************************)
EXTENDS Admission, SubsequenceProofs, TLAPS

-----------------------------------------------------------------------------
(* Ages and delays *)

LEMMA Constants ==
    /\ {MaxActive, MaxJobs, MaxStarts, MaxCompiles, Second, Cooldown, Window} \subseteq Nat \ {0}
    /\ TableSize \in Nat /\ MaxActive <= MaxJobs /\ Cooldown <= Window
BY AdmissionAssumption

LEMMA MaxTwo == \A a, b \in Int : Max({a, b}) = IF a >= b THEN a ELSE b
<1> SUFFICES ASSUME NEW a \in Int, NEW b \in Int
             PROVE  Max({a, b}) = IF a >= b THEN a ELSE b
  OBVIOUS
<1> DEFINE m == IF a >= b THEN a ELSE b
<1>1. m \in {a, b} /\ \A y \in {a, b} : m >= y
  OBVIOUS
<1>2. \A x \in {a, b} : (\A y \in {a, b} : x >= y) => x = m
  OBVIOUS
<1>. QED  BY <1>1, <1>2 DEF Max

\* Ticks are rounded up to seconds.
LEMMA SecondsFacts ==
    ASSUME NEW t \in Nat
    PROVE  Seconds(t) \in Nat /\ (Seconds(t) = 0 <=> t = 0) /\ Seconds(t) * Second >= t
<1> DEFINE n == t + Second - 1
           q == n \div Second
<1>1. Second \in Nat \ {0} /\ n \in Nat
  BY Constants
<1>2. q \in Nat /\ Second * q <= n /\ n < Second * q + Second
  <2> HIDE DEF n
  <2>. QED  BY <1>1
<1>3. Seconds(t) = q
  BY DEF Seconds
<1> HIDE DEF q
<1>4. Second * q >= t /\ q * Second = Second * q /\ Second * q \in Nat
  BY <1>1, <1>2
<1>5. q = 0 => t = 0
  BY <1>1, <1>4
<1>6. q # 0 => Second * q >= Second
  <2>1. q # 0 => \E p \in Nat : q = p + 1
    <3>1. q # 0 => q - 1 \in Nat /\ q = (q - 1) + 1
      BY <1>2
    <3>. QED  BY <3>1
  <2>2. \A p \in Nat : Second * (p + 1) = Second * p + Second /\ Second * p \in Nat
    BY <1>1
  <2>. QED  BY <1>1, <2>1, <2>2
<1>7. t = 0 => q = 0
  BY <1>1, <1>2, <1>6
<1>. QED  BY <1>2, <1>3, <1>4, <1>5, <1>7

LEMMA OlderFacts ==
    /\ \A age \in Ages : Older(age) \in Ages /\ Older(age) >= age
    /\ \A age \in Ages : age < Window => Older(age) = age + 1
    /\ Older(Never) = Never
    /\ \A age \in Ages : \A a \in 0 .. Window - 1 : Older(age) \in 0 .. a <=> age \in 0 .. a - 1
BY Constants DEF Older, Ages, Never

LEMMA RecentFacts ==
    ASSUME NEW s \in Seq(Ages)
    PROVE  /\ Recent(s) \in Seq(Ages)
           /\ Len(Recent(s)) <= Len(s)
           /\ \A i \in DOMAIN Recent(s) : Recent(s)[i] < Window
           /\ \A a \in 0 .. Window - 1 : Number(Recent(s), 0 .. a) = Number(s, 0 .. a)
           /\ Recent(Recent(s)) = Recent(s)
<1> DEFINE P == {i \in DOMAIN s : s[i] < Window}
           t == At(s, P)
<1>0. Recent(s) = t
  BY DEF Recent
<1>1. P \in SUBSET DOMAIN s
  OBVIOUS
<1>2. /\ t \in Seq(Ages) /\ Len(t) <= Len(s)
      /\ \A k \in 1 .. Len(t) : Place(P, k) \in P /\ t[k] = s[Place(P, k)]
  BY <1>1, AtFacts
<1>3. \A i \in DOMAIN t : t[i] < Window
  <2> HIDE DEF t
  <2> TAKE i \in DOMAIN t
  <2>1. i \in 1 .. Len(t)
    BY <1>2
  <2>2. Place(P, i) \in P /\ t[i] = s[Place(P, i)]
    BY <1>2, <2>1
  <2>. QED  BY <2>2
<1>4. ASSUME NEW a \in 0 .. Window - 1
      PROVE  Number(t, 0 .. a) = Number(s, 0 .. a)
  <2>1. \A i \in DOMAIN s : s[i] \in 0 .. a => i \in P
    BY <1>0, Constants
  <2> HIDE DEF P
  <2>. QED  BY <1>1, <2>1, NumberAt
<1>5. Recent(t) = t
  <2> HIDE DEF t
  <2>1. {i \in DOMAIN t : t[i] < Window} = DOMAIN t
    BY <1>3
  <2>2. At(t, DOMAIN t) = t
    BY <1>2, AtAll
  <2>. QED  BY <2>1, <2>2 DEF Recent
<1>. QED  BY <1>0, <1>2, <1>3, <1>4, <1>5

LEMMA DelayFacts ==
    ASSUME TypeOK, NEW v \in Visitors
    PROVE  /\ OwnDelay(v) \in Nat /\ SharedDelay \in Nat /\ CompilationDelay(v) \in Nat
           /\ OwnDelay(v) = IF compileLimits[v] = Never \/ compileLimits[v] >= Cooldown
                            THEN 0 ELSE Cooldown - compileLimits[v]
           /\ CompilationDelay(v) = 0 <=> OwnDelay(v) = 0 /\ SharedDelay = 0
           /\ OwnDelay(v) <= CompilationDelay(v) * Second
           /\ SharedDelay <= CompilationDelay(v) * Second
           /\ SharedDelay = 0 <=> Len(Recent(compileTimes)) < MaxCompiles
<1>1. /\ OwnDelay(v) \in Nat
      /\ OwnDelay(v) = IF compileLimits[v] = Never \/ compileLimits[v] >= Cooldown
                       THEN 0 ELSE Cooldown - compileLimits[v]
  <2>1. compileLimits[v] \in Ages \cup {Never} /\ 0 \in Int
    BY DEF TypeOK
  <2>2. CASE compileLimits[v] = Never
    BY <2>2 DEF OwnDelay
  <2>3. CASE compileLimits[v] # Never
    <3>1. compileLimits[v] \in Nat /\ Cooldown \in Nat /\ Cooldown - compileLimits[v] \in Int
      BY <2>1, <2>3, Constants DEF Ages
    <3>2. OwnDelay(v) = Max({0, Cooldown - compileLimits[v]})
      BY <2>3 DEF OwnDelay
    <3>3. OwnDelay(v) = IF 0 >= Cooldown - compileLimits[v] THEN 0 ELSE Cooldown - compileLimits[v]
      BY <2>1, <3>1, <3>2, MaxTwo
    <3>. QED  BY <2>3, <3>1, <3>3
  <2>. QED  BY <2>2, <2>3
<1>2. /\ SharedDelay \in Nat
      /\ SharedDelay = 0 <=> Len(Recent(compileTimes)) < MaxCompiles
  <2> DEFINE times == Recent(compileTimes)
  <2>1. times \in Seq(Ages) /\ \A i \in DOMAIN times : times[i] < Window
    BY RecentFacts DEF TypeOK
  <2>2. SharedDelay = IF Len(times) >= MaxCompiles THEN Window - Head(times) ELSE 0
    BY DEF SharedDelay
  <2> HIDE DEF times
  <2>3. MaxCompiles \in Nat \ {0} /\ Window \in Nat /\ Len(times) \in Nat
    BY <2>1, Constants
  <2>4. CASE Len(times) >= MaxCompiles
    <3>1. 1 \in DOMAIN times /\ Head(times) = times[1]
      BY <2>1, <2>3, <2>4
    <3>2. Head(times) \in Nat /\ Head(times) < Window
      BY <2>1, <2>3, <3>1 DEF Ages
    <3>. QED  BY <2>2, <2>3, <2>4, <3>2 DEF times
  <2>5. CASE ~(Len(times) >= MaxCompiles)
    BY <2>2, <2>3, <2>5 DEF times
  <2>. QED  BY <2>4, <2>5
<1>3. /\ CompilationDelay(v) \in Nat
      /\ CompilationDelay(v) = 0 <=> OwnDelay(v) = 0 /\ SharedDelay = 0
      /\ OwnDelay(v) <= CompilationDelay(v) * Second
      /\ SharedDelay <= CompilationDelay(v) * Second
  <2> DEFINE m == IF OwnDelay(v) >= SharedDelay THEN OwnDelay(v) ELSE SharedDelay
  <2>1. OwnDelay(v) \in Nat /\ SharedDelay \in Nat
    BY <1>1, <1>2
  <2>2. m \in Nat /\ m >= OwnDelay(v) /\ m >= SharedDelay
        /\ (m = 0 <=> OwnDelay(v) = 0 /\ SharedDelay = 0)
    BY <2>1
  <2>3. CompilationDelay(v) = Seconds(m)
    <3>1. Max({OwnDelay(v), SharedDelay}) = m
      BY <2>1, MaxTwo
    <3>. QED  BY <3>1 DEF CompilationDelay
  <2> HIDE DEF m
  <2>4. Seconds(m) \in Nat /\ (Seconds(m) = 0 <=> m = 0) /\ Seconds(m) * Second >= m
        /\ Seconds(m) * Second \in Nat
    BY <2>2, SecondsFacts, Constants
  <2>. QED  BY <2>1, <2>2, <2>3, <2>4
<1>. QED  BY <1>1, <1>2, <1>3

-----------------------------------------------------------------------------
(* The inductive invariant *)

\* The server remembers the runs that go on, each of them once.
JobsInv ==
    /\ \A i, j \in DOMAIN jobs : jobs[i] = jobs[j] => i = j
    /\ ActiveBounded

\* The runs of a visitor have their stamps in rate_limits.
StartsInv ==
    \A v \in Visitors :
        /\ \A i \in DOMAIN starts[v] : starts[v][i] < Window
        /\ \A a \in 0 .. Window - 1 :
              Number(starts[v], 0 .. a) <= Number(rateLimits[v], 0 .. a)

Upto(a) == {stamp \in Stamps : stamp.age <= a}

\* The compiles have their stamps in compile_times.
CompilesInv ==
    /\ \A i \in DOMAIN compiles : compiles[i].age < Window
    /\ \A a \in 0 .. Window - 1 :
          Number(compiles, Upto(a)) <= Number(compileTimes, 0 .. a)

\* What compile_limits remembers of a visitor is the last compile.
CooldownInv ==
    /\ CooldownKept
    /\ \A i \in DOMAIN compiles :
          compiles[i].kept => compileLimits[compiles[i].visitor] \in 0 .. compiles[i].age

\* The time a visitor has been told to wait covers both delays.
PromiseInv ==
    promise # NoPromise =>
        /\ OwnDelay(promise.visitor) <= promise.left
        /\ SharedDelay <= promise.left

IInv == TypeOK /\ JobsInv /\ StartsInv /\ CompilesInv /\ CooldownInv /\ PromiseInv

LEMMA EmptyFacts ==
    /\ \A S : <<>> \in Seq(S)
    /\ Len(<<>>) = 0 /\ DOMAIN <<>> = {}
    /\ \A Q : Number(<<>>, Q) = 0
<1>1. \A Q : {i \in DOMAIN <<>> : <<>>[i] \in Q} = {}
  OBVIOUS
<1>2. \A Q : Number(<<>>, Q) = 0
  BY <1>1, FS_EmptySet DEF Number
<1>. QED  BY <1>2

LEMMA InitIInv == Init => IInv
<1> SUFFICES ASSUME Init PROVE IInv
  OBVIOUS
<1>1. TypeOK
  <2>1. jobs \in Seq(Runs) /\ compileTimes \in Seq(Ages) /\ compiles \in Seq(Stamps)
    BY EmptyFacts, Zenon DEF Init
  <2>2. starts \in [Visitors -> Seq(Ages)] /\ rateLimits \in [Visitors -> Seq(Ages)]
    BY EmptyFacts DEF Init
  <2>3. /\ Len(jobs) <= MaxJobs /\ Len(compileTimes) <= MaxCompiles
        /\ \A v \in Visitors : Len(rateLimits[v]) <= MaxStarts
    BY EmptyFacts, Constants DEF Init
  <2>. QED  BY <2>1, <2>2, <2>3 DEF Init, TypeOK
<1>2. JobsInv
  <2>1. Cardinality(active) <= MaxActive
    BY Constants, FS_EmptySet DEF Init
  <2>. QED  BY <2>1, EmptyFacts DEF Init, JobsInv, ActiveBounded
<1>3. StartsInv
  <2>1. \A v \in Visitors : starts[v] = <<>> /\ rateLimits[v] = <<>>
    BY DEF Init
  <2>. QED  BY <2>1, EmptyFacts DEF StartsInv
<1>4. CompilesInv
  BY EmptyFacts DEF Init, CompilesInv
<1>5. CooldownInv /\ PromiseInv
  BY EmptyFacts DEF Init, CooldownInv, CooldownKept, PromiseInv
<1>. QED  BY <1>1, <1>2, <1>3, <1>4, <1>5 DEF IInv

-----------------------------------------------------------------------------
(* Tables *)

\* The old stamps of compile_times go.
LEMMA PruneIInv ==
    ASSUME IInv,
           compileTimes' \in {compileTimes, Recent(compileTimes)},
           UNCHANGED <<compileLimits, compiles>>
    PROVE  /\ compileTimes' \in Seq(Ages) /\ Len(compileTimes') <= MaxCompiles
           /\ Recent(compileTimes') = Recent(compileTimes)
           /\ SharedDelay' = SharedDelay
           /\ \A v \in Visitors : OwnDelay(v)' = OwnDelay(v)
           /\ CompilesInv' /\ CooldownInv'
<1>0. compileTimes \in Seq(Ages) /\ Len(compileTimes) <= MaxCompiles /\ MaxCompiles \in Nat
  BY Constants DEF IInv, TypeOK
<1>1. /\ Recent(compileTimes) \in Seq(Ages) /\ Len(Recent(compileTimes)) <= Len(compileTimes)
      /\ Recent(Recent(compileTimes)) = Recent(compileTimes)
      /\ \A a \in 0 .. Window - 1 :
            Number(Recent(compileTimes), 0 .. a) = Number(compileTimes, 0 .. a)
  BY <1>0, RecentFacts
<1>2. /\ compileTimes' \in Seq(Ages) /\ Len(compileTimes') <= MaxCompiles
      /\ Recent(compileTimes') = Recent(compileTimes)
      /\ \A a \in 0 .. Window - 1 : Number(compileTimes', 0 .. a) = Number(compileTimes, 0 .. a)
  <2>1. CASE compileTimes' = compileTimes
    BY <1>0, <2>1
  <2>2. CASE compileTimes' = Recent(compileTimes)
    BY <1>0, <1>1, <2>2
  <2>. QED  BY <2>1, <2>2
<1>3. SharedDelay' = SharedDelay
  BY <1>2 DEF SharedDelay
<1>4. \A v \in Visitors : OwnDelay(v)' = OwnDelay(v)
  BY DEF OwnDelay
<1>5. CompilesInv'
  BY <1>2 DEF IInv, CompilesInv
<1>6. CooldownInv'
  BY DEF IInv, CooldownInv, CooldownKept
<1>. QED  BY <1>2, <1>3, <1>4, <1>5, <1>6

LEMMA TellIInv ==
    ASSUME IInv, NEW v \in Visitors, Tell(v)
    PROVE  IInv'
<1> USE DEF IInv
<1>1. /\ compileTimes' = Recent(compileTimes)
      /\ promise' = [visitor |-> v, left |-> CompilationDelay(v) * Second]
      /\ UNCHANGED <<jobs, active, rateLimits, compileLimits, starts, compiles>>
  BY DEF Tell
<1>2. /\ compileTimes' \in Seq(Ages) /\ Len(compileTimes') <= MaxCompiles
      /\ SharedDelay' = SharedDelay
      /\ OwnDelay(v)' = OwnDelay(v)
      /\ CompilesInv' /\ CooldownInv'
  BY <1>1, PruneIInv
<1>3. CompilationDelay(v) * Second \in Nat
  BY DelayFacts, Constants
<1>4. TypeOK'
  BY <1>1, <1>2, <1>3 DEF TypeOK
<1>5. PromiseInv'
  <2>1. promise'.visitor = v /\ promise'.left = CompilationDelay(v) * Second
    BY <1>1
  <2>2. OwnDelay(v)' <= promise'.left /\ SharedDelay' <= promise'.left
    BY <1>2, <2>1, DelayFacts
  <2>3. OwnDelay(promise.visitor)' = OwnDelay(v)'
    BY <2>1 DEF OwnDelay
  <2>. QED  BY <2>2, <2>3 DEF PromiseInv
<1>. QED  BY <1>1, <1>2, <1>4, <1>5 DEF JobsInv, ActiveBounded, StartsInv

\* The start of v in rate_limits, and in the history the runs of v that go
\* into it: at most as many.
LEMMA CountStartFacts ==
    ASSUME IInv, NEW v \in Visitors, CountStart(v),
           NEW mine \in {starts[v], Append(starts[v], 0)},
           starts' = [w \in Visitors |-> IF w = v THEN mine ELSE Remembered(v, w)]
    PROVE  /\ starts' \in [Visitors -> Seq(Ages)]
           /\ rateLimits' \in [Visitors -> Seq(Ages)]
           /\ \A w \in Visitors : Len(rateLimits'[w]) <= MaxStarts
           /\ StartsInv'
<1> USE DEF IInv
<1> DEFINE recent == Recent(rateLimits[v])
<1>0. /\ rateLimits \in [Visitors -> Seq(Ages)] /\ starts \in [Visitors -> Seq(Ages)]
      /\ 0 \in Ages /\ 0 < Window /\ MaxStarts \in Nat /\ MaxStarts >= 0
      /\ \A w \in Visitors : Len(rateLimits[w]) <= MaxStarts
  BY Constants DEF TypeOK, Ages
<1>1. /\ recent \in Seq(Ages) /\ Len(recent) < MaxStarts
      /\ \A a \in 0 .. Window - 1 : Number(recent, 0 .. a) = Number(rateLimits[v], 0 .. a)
  BY <1>0, RecentFacts DEF CountStart
<1>2. rateLimits' = [w \in Visitors |-> IF w = v THEN Append(recent, 0)
                                         ELSE IF RatesFull THEN <<>> ELSE rateLimits[w]]
  BY DEF CountStart
<1> HIDE DEF recent
<1>3. Append(recent, 0) \in Seq(Ages) /\ Len(Append(recent, 0)) <= MaxStarts
  BY <1>0, <1>1
<1>4. mine \in Seq(Ages) /\ \A i \in DOMAIN mine : mine[i] < Window
  <2>1. starts[v] \in Seq(Ages) /\ \A i \in DOMAIN starts[v] : starts[v][i] < Window
    BY <1>0 DEF StartsInv
  <2>2. CASE mine = starts[v]
    BY <2>1, <2>2
  <2>3. CASE mine = Append(starts[v], 0)
    BY <1>0, <2>1, <2>3
  <2>. QED  BY <2>2, <2>3
<1>5. ASSUME NEW a \in 0 .. Window - 1
      PROVE  Number(mine, 0 .. a) <= Number(Append(recent, 0), 0 .. a)
  <2>1. Number(Append(recent, 0), 0 .. a) = Number(recent, 0 .. a) + 1
    BY <1>0, <1>1, NumberAppend
  <2>2. Number(starts[v], 0 .. a) <= Number(recent, 0 .. a)
    BY <1>1 DEF StartsInv
  <2>3. /\ Number(starts[v], 0 .. a) \in Nat /\ Number(recent, 0 .. a) \in Nat
    BY <1>0, <1>1, NumberType
  <2>4. CASE mine = starts[v]
    BY <2>1, <2>2, <2>3, <2>4
  <2>5. CASE mine = Append(starts[v], 0)
    <3>1. Number(mine, 0 .. a) = Number(starts[v], 0 .. a) + 1
      BY <1>0, <2>5, NumberAppend
    <3>. QED  BY <2>1, <2>2, <2>3, <3>1
  <2>. QED  BY <2>4, <2>5
<1>6. \A w \in Visitors \ {v} :
         \/ starts'[w] = <<>> /\ rateLimits'[w] = <<>>
         \/ starts'[w] = starts[w] /\ rateLimits'[w] = rateLimits[w]
  BY <1>2 DEF Remembered
<1>7. starts'[v] = mine /\ rateLimits'[v] = Append(recent, 0)
  BY <1>2
<1>8. /\ starts' \in [Visitors -> Seq(Ages)] /\ rateLimits' \in [Visitors -> Seq(Ages)]
      /\ \A w \in Visitors : Len(rateLimits'[w]) <= MaxStarts
  <2>1. \A w \in Visitors : starts'[w] \in Seq(Ages) /\ rateLimits'[w] \in Seq(Ages)
                            /\ Len(rateLimits'[w]) <= MaxStarts
    BY <1>0, <1>3, <1>4, <1>6, <1>7, EmptyFacts
  <2>. QED  BY <1>2, <2>1
<1>9. StartsInv'
  <2>1. ASSUME NEW w \in Visitors, w # v
        PROVE  /\ \A i \in DOMAIN starts'[w] : starts'[w][i] < Window
               /\ \A a \in 0 .. Window - 1 :
                     Number(starts'[w], 0 .. a) <= Number(rateLimits'[w], 0 .. a)
    <3>1. CASE starts'[w] = <<>> /\ rateLimits'[w] = <<>>
      BY <3>1, EmptyFacts
    <3>2. CASE starts'[w] = starts[w] /\ rateLimits'[w] = rateLimits[w]
      BY <3>2 DEF StartsInv
    <3>. QED  BY <1>6, <2>1, <3>1, <3>2
  <2>. QED  BY <1>4, <1>5, <1>7, <2>1 DEF StartsInv
<1>. QED  BY <1>8, <1>9

LEMMA RefuseIInv ==
    ASSUME IInv, NEW v \in Visitors, NEW custom \in BOOLEAN,
           RefuseRate(v, custom) \/ RefuseActive(v, custom)
    PROVE  IInv'
<1> USE DEF IInv
<1>1. /\ compileTimes' \in {compileTimes, Recent(compileTimes)}
      /\ UNCHANGED <<jobs, active, compileLimits, compiles, promise>>
  BY DEF RefuseRate, RefuseActive, Prune, history
<1>2. /\ compileTimes' \in Seq(Ages) /\ Len(compileTimes') <= MaxCompiles
      /\ SharedDelay' = SharedDelay
      /\ \A w \in Visitors : OwnDelay(w)' = OwnDelay(w)
      /\ CompilesInv' /\ CooldownInv'
  BY <1>1, PruneIInv
<1>3. /\ starts' \in [Visitors -> Seq(Ages)] /\ rateLimits' \in [Visitors -> Seq(Ages)]
      /\ \A w \in Visitors : Len(rateLimits'[w]) <= MaxStarts
      /\ StartsInv'
  <2>1. CASE RefuseRate(v, custom)
    <3>1. UNCHANGED <<rateLimits, starts>>
      BY <2>1 DEF RefuseRate, history
    <3>. QED  BY <3>1 DEF TypeOK, StartsInv
  <2>2. CASE RefuseActive(v, custom)
    <3>1. CountStart(v)
          /\ starts' = [w \in Visitors |-> IF w = v THEN starts[v] ELSE Remembered(v, w)]
      BY <2>2 DEF RefuseActive, Remembered
    <3>. QED  BY <3>1, CountStartFacts
  <2>. QED  BY <2>1, <2>2
<1>4. TypeOK'
  BY <1>1, <1>2, <1>3 DEF TypeOK
<1>5. PromiseInv'
  <2>1. promise # NoPromise => promise.visitor \in Visitors
    BY DEF TypeOK
  <2>2. promise # NoPromise => OwnDelay(promise.visitor)' = OwnDelay(promise.visitor)
    BY <1>1, <2>1 DEF OwnDelay
  <2>. QED  BY <1>1, <1>2, <2>1, <2>2 DEF PromiseInv
<1>. QED  BY <1>1, <1>2, <1>3, <1>4, <1>5 DEF JobsInv, ActiveBounded
-----------------------------------------------------------------------------
(* A run starts *)

LEMMA DomainFacts ==
    ASSUME NEW S, NEW s \in Seq(S)
    PROVE  /\ DOMAIN s = 1 .. Len(s) /\ Len(s) \in Nat
           /\ IsFiniteSet(DOMAIN s) /\ Cardinality(DOMAIN s) = Len(s)
<1>1. DOMAIN s = 1 .. Len(s) /\ Len(s) \in Nat
  OBVIOUS
<1>2. IsFiniteSet(1 .. Len(s)) /\ Cardinality(1 .. Len(s)) = Len(s)
  BY <1>1, FS_Interval
<1>. QED  BY <1>1, <1>2

\* There is room for one more run, and an identifier.
LEMMA RoomFacts ==
    ASSUME TypeOK, JobsInv, ~Busy
    PROVE  /\ IsFiniteSet(active) /\ Cardinality(active) < MaxActive
           /\ \E r \in Runs : r \notin ToSet(jobs) \cup active
           /\ Len(jobs) = MaxJobs => \E i \in DOMAIN jobs : jobs[i] \notin active
<1>0. /\ {MaxActive, MaxJobs} \subseteq Nat \ {0} /\ MaxActive <= MaxJobs
      /\ jobs \in Seq(Runs) /\ Len(jobs) \in Nat /\ Len(jobs) <= MaxJobs
      /\ active \subseteq ToSet(jobs) /\ DOMAIN jobs = 1 .. Len(jobs)
      /\ \A i, j \in DOMAIN jobs : jobs[i] = jobs[j] => i = j
  BY Constants DEF TypeOK, JobsInv, ActiveBounded
<1>1. IsFiniteSet(Runs) /\ Cardinality(Runs) = MaxActive + MaxJobs
  BY <1>0, FS_Interval DEF Runs
<1>2. IsFiniteSet(DOMAIN jobs) /\ Cardinality(DOMAIN jobs) = Len(jobs)
  BY <1>0, DomainFacts
<1>3. IsFiniteSet(ToSet(jobs)) /\ Cardinality(ToSet(jobs)) <= Len(jobs)
      /\ Cardinality(ToSet(jobs)) \in Nat
  <2> DEFINE f == [i \in DOMAIN jobs |-> jobs[i]]
  <2>1. f \in Surjection(DOMAIN jobs, ToSet(jobs))
    BY DEF Surjection, ToSet
  <2>. QED  BY <1>2, <2>1, FS_Surjection, FS_CardinalityType
<1>4. IsFiniteSet(active) /\ Cardinality(active) \in Nat /\ Cardinality(active) < MaxActive
  <2>1. {run \in ToSet(jobs) : run \in active} = active
    BY <1>0
  <2>2. ~(Cardinality(active) >= MaxActive)
    BY <2>1 DEF Busy, Quantify
  <2>. QED  BY <1>0, <1>3, <2>2, FS_Subset, FS_CardinalityType
<1>5. ASSUME Runs \subseteq ToSet(jobs) \cup active
      PROVE  FALSE
  <2>1. Runs \subseteq ToSet(jobs)
    BY <1>0, <1>5
  <2>2. Cardinality(Runs) <= Cardinality(ToSet(jobs))
    BY <1>3, <2>1, FS_Subset
  <2>. QED  BY <1>0, <1>1, <1>3, <2>2
<1>6. ASSUME Len(jobs) = MaxJobs, \A i \in DOMAIN jobs : jobs[i] \in active
      PROVE  FALSE
  <2> DEFINE f == [i \in DOMAIN jobs |-> jobs[i]]
  <2>1. f \in Injection(DOMAIN jobs, active)
    BY <1>0, <1>6 DEF Injection, IsInjective
  <2>2. Cardinality(DOMAIN jobs) <= Cardinality(active)
    BY <1>4, <2>1, FS_Injection
  <2>. QED  BY <1>0, <1>2, <1>4, <1>6, <2>2
<1>. QED  BY <1>4, <1>5, <1>6

\* Evict makes room, keeps the order and the runs that go on.
LEMMA EvictFacts ==
    ASSUME TypeOK, JobsInv, ~Busy
    PROVE  /\ Evict \in Seq(Runs) /\ Len(Evict) < MaxJobs
           /\ \A i, j \in DOMAIN Evict : Evict[i] = Evict[j] => i = j
           /\ active \subseteq ToSet(Evict) /\ ToSet(Evict) \subseteq ToSet(jobs)
<1> DEFINE excess == Len(jobs) - MaxJobs + 1
           ended == {i \in DOMAIN jobs : jobs[i] \notin active}
           gone == {i \in ended : Rank(ended, i) <= excess}
           keep == DOMAIN jobs \ gone
           kept == At(jobs, keep)
<1>0. /\ MaxJobs \in Nat /\ jobs \in Seq(Runs) /\ Len(jobs) \in Nat /\ Len(jobs) <= MaxJobs
      /\ active \subseteq ToSet(jobs) /\ DOMAIN jobs = 1 .. Len(jobs)
      /\ \A i, j \in DOMAIN jobs : jobs[i] = jobs[j] => i = j
  BY Constants DEF TypeOK, JobsInv, ActiveBounded
<1>1. Evict = kept
  BY DEF Evict
<1>2. keep \in SUBSET DOMAIN jobs /\ ended \in SUBSET DOMAIN jobs
  OBVIOUS
<1>3. /\ kept \in Seq(Runs) /\ Len(kept) = Cardinality(keep) /\ Len(kept) <= Len(jobs)
      /\ \A k \in 1 .. Len(kept) : Place(keep, k) \in keep /\ kept[k] = jobs[Place(keep, k)]
      /\ \A j, k \in 1 .. Len(kept) : j < k <=> Place(keep, j) < Place(keep, k)
      /\ \A i \in keep : Rank(keep, i) \in 1 .. Len(kept) /\ kept[Rank(keep, i)] = jobs[i]
  <2> HIDE DEF keep
  <2>. QED  BY <1>0, <1>2, AtFacts
<1>4. ASSUME Len(jobs) = MaxJobs
      PROVE  Len(kept) < MaxJobs
  <2> DEFINE x == Place(ended, 1)
  <2>1. excess = 1 /\ ended # {}
    BY <1>0, <1>4, RoomFacts
  <2>2. x \in ended /\ Rank(ended, x) = 1
    <3> HIDE DEF ended
    <3>1. ended \in SUBSET (1 .. Len(jobs))
      BY <1>0, <1>2
    <3>2. IsFiniteSet(ended) /\ Cardinality(ended) \in Nat
      BY <1>0, <3>1, RankFacts
    <3>3. Cardinality(ended) # 0
      BY <2>1, <3>2, FS_EmptySet
    <3>4. 1 \in 1 .. Cardinality(ended)
      BY <3>2, <3>3
    <3>. QED  BY <1>0, <3>1, <3>4, PlaceFacts
  <2> HIDE DEF x
  <2>3. x \in gone
    BY <2>1, <2>2
  <2>4. keep \subseteq DOMAIN jobs \ {x} /\ x \in DOMAIN jobs
    BY <2>2, <2>3
  <2> HIDE DEF keep, gone, ended, excess, kept
  <2>5. IsFiniteSet(DOMAIN jobs) /\ Cardinality(DOMAIN jobs) = Len(jobs)
    BY <1>0, DomainFacts
  <2>6. IsFiniteSet(DOMAIN jobs \ {x}) /\ Cardinality(DOMAIN jobs \ {x}) = Len(jobs) - 1
    BY <2>4, <2>5, FS_RemoveElement
  <2>7. Cardinality(keep) <= Len(jobs) - 1
    BY <2>4, <2>6, FS_Subset
  <2>. QED  BY <1>0, <1>3, <1>4, <2>7
<1>5. \A j, k \in 1 .. Len(kept) : kept[j] = kept[k] => j = k
  <2> HIDE DEF keep, kept
  <2> SUFFICES ASSUME NEW j \in 1 .. Len(kept), NEW k \in 1 .. Len(kept), kept[j] = kept[k]
               PROVE  j = k
    OBVIOUS
  <2>1. Place(keep, j) = Place(keep, k) /\ Place(keep, j) \in Nat
    BY <1>0, <1>2, <1>3
  <2>. QED  BY <1>3, <2>1
<1>6. active \subseteq ToSet(kept)
  <2> SUFFICES ASSUME NEW r \in active
               PROVE  r \in ToSet(kept)
    OBVIOUS
  <2>1. PICK i \in DOMAIN jobs : jobs[i] = r
    BY <1>0 DEF ToSet
  <2>2. i \in keep
    BY <2>1
  <2> HIDE DEF keep, kept
  <2>3. Rank(keep, i) \in DOMAIN kept /\ kept[Rank(keep, i)] = r
    BY <1>3, <2>1, <2>2
  <2>. QED  BY <2>3 DEF ToSet
<1>7. ToSet(kept) \subseteq ToSet(jobs)
  <2> HIDE DEF keep, kept
  <2>1. \A k \in DOMAIN kept : kept[k] = jobs[Place(keep, k)] /\ Place(keep, k) \in DOMAIN jobs
    BY <1>2, <1>3
  <2>. QED  BY <2>1 DEF ToSet
<1> HIDE DEF keep, kept
<1>8. Len(kept) < MaxJobs /\ DOMAIN kept = 1 .. Len(kept)
  <2>1. Len(kept) \in Nat /\ DOMAIN kept = 1 .. Len(kept) /\ Len(kept) <= Len(jobs)
    BY <1>3, DomainFacts
  <2>2. CASE Len(jobs) = MaxJobs
    BY <1>4, <2>1, <2>2
  <2>3. CASE Len(jobs) # MaxJobs
    <3>1. Len(jobs) \in Nat /\ MaxJobs \in Nat /\ Len(jobs) <= MaxJobs
      BY <1>0
    <3>2. Len(jobs) < MaxJobs
      BY <2>3, <3>1
    <3>. QED  BY <2>1, <3>1, <3>2
  <2>. QED  BY <2>1, <2>2, <2>3
<1>. QED  BY <1>1, <1>3, <1>5, <1>6, <1>7, <1>8

\* A compile is in the history, in compile_times and in compile_limits.
LEMMA CountCompileFacts ==
    ASSUME IInv, NEW v \in Visitors, CompilationDelay(v) = 0, CountCompile(v)
    PROVE  /\ compileLimits' \in [Visitors -> Ages \cup {Never}]
           /\ compileTimes' \in Seq(Ages) /\ Len(compileTimes') <= MaxCompiles
           /\ compiles' \in Seq(Stamps)
           /\ promise' = NoPromise
           /\ CompilesInv' /\ CooldownInv'
<1> DEFINE recent == Recent(compileTimes)
           old == [i \in DOMAIN compiles |->
                      [compiles[i] EXCEPT !.kept = @ /\ ~CompilesFull]]
           new == [visitor |-> v, age |-> 0, kept |-> TRUE]
<1>0. /\ compileLimits \in [Visitors -> Ages \cup {Never}]
      /\ compileTimes \in Seq(Ages) /\ compiles \in Seq(Stamps)
      /\ {MaxCompiles, Cooldown, Window} \subseteq Nat \ {0} /\ Never \notin Nat
      /\ 0 \in Ages /\ Ages \subseteq Nat
  BY Constants DEF IInv, TypeOK, Ages, Never
<1>1. /\ compileLimits' = [w \in Visitors |->
             IF w = v THEN 0 ELSE IF CompilesFull THEN Never ELSE compileLimits[w]]
      /\ compileTimes' = Append(recent, 0)
      /\ compiles' = Append(old, new)
      /\ promise' = NoPromise
  BY DEF CountCompile
<1>2. /\ Len(recent) < MaxCompiles
      /\ compileLimits[v] = Never \/ compileLimits[v] >= Cooldown
  <2>1. /\ OwnDelay(v) = 0 /\ SharedDelay = 0
        /\ SharedDelay = 0 <=> Len(Recent(compileTimes)) < MaxCompiles
        /\ OwnDelay(v) = IF compileLimits[v] = Never \/ compileLimits[v] >= Cooldown
                         THEN 0 ELSE Cooldown - compileLimits[v]
    BY DelayFacts DEF IInv
  <2>2. compileLimits[v] \in Ages \cup {Never}
    BY <1>0
  <2>3. Len(recent) < MaxCompiles
    BY <2>1
  <2> HIDE DEF recent
  <2>4. compileLimits[v] = Never \/ compileLimits[v] >= Cooldown
    <3>1. compileLimits[v] # Never => compileLimits[v] \in Nat /\ Cooldown \in Nat
      BY <1>0, <2>2
    <3>. QED  BY <2>1, <3>1
  <2>. QED  BY <2>3, <2>4
<1>3. /\ recent \in Seq(Ages) /\ Len(recent) \in Nat
      /\ \A a \in 0 .. Window - 1 : Number(recent, 0 .. a) = Number(compileTimes, 0 .. a)
  BY <1>0, RecentFacts
<1>4. /\ old \in Seq(Stamps) /\ DOMAIN old = DOMAIN compiles /\ Len(old) \in Nat
      /\ DOMAIN old = 1 .. Len(old)
      /\ \A i \in DOMAIN compiles :
            /\ compiles[i].visitor \in Visitors /\ compiles[i].age \in Nat
            /\ old[i].visitor = compiles[i].visitor /\ old[i].age = compiles[i].age
            /\ old[i].kept => compiles[i].kept /\ ~CompilesFull
      /\ \A i \in DOMAIN compiles : compiles[i] \in Stamps /\ old[i] \in Stamps
  <2>1. \A i \in DOMAIN compiles : compiles[i] \in Stamps
    BY <1>0
  <2>2. \A i \in DOMAIN compiles : old[i] \in Stamps
    BY <2>1 DEF Stamps
  <2>3. DOMAIN compiles = 1 .. Len(compiles) /\ Len(compiles) \in Nat
    BY <1>0
  <2>4. old \in Seq(Stamps)
    BY <2>2, <2>3
  <2>5. \A i \in DOMAIN compiles :
            /\ compiles[i].visitor \in Visitors /\ compiles[i].age \in Nat
            /\ old[i].visitor = compiles[i].visitor /\ old[i].age = compiles[i].age
            /\ old[i].kept => compiles[i].kept /\ ~CompilesFull
    BY <1>0, <2>1 DEF Stamps
  <2>6. DOMAIN old = DOMAIN compiles
    OBVIOUS
  <2> HIDE DEF old
  <2>. QED  BY <2>1, <2>2, <2>3, <2>4, <2>5, <2>6
<1>5. new \in Stamps /\ new.visitor = v /\ new.age = 0 /\ new.kept
  BY <1>0 DEF Stamps
<1> HIDE DEF recent, old, new
<1>6. /\ compileTimes' \in Seq(Ages) /\ Len(compileTimes') <= MaxCompiles
      /\ compiles' \in Seq(Stamps)
  BY <1>0, <1>1, <1>2, <1>3, <1>4, <1>5
<1>7. compileLimits' \in [Visitors -> Ages \cup {Never}]
  BY <1>0, <1>1
<1>8. /\ DOMAIN compiles' = 1 .. Len(old) + 1
      /\ compiles'[Len(old) + 1] = new
      /\ \A i \in DOMAIN compiles : i \in DOMAIN compiles' /\ compiles'[i] = old[i]
  BY <1>1, <1>4, <1>5
<1>9. \A i \in DOMAIN compiles' : i = Len(old) + 1 \/ i \in DOMAIN compiles
  BY <1>4, <1>8
<1>10. CompilesInv'
  <2>1. \A i \in DOMAIN compiles' : compiles'[i].age < Window
    BY <1>0, <1>4, <1>5, <1>8, <1>9 DEF IInv, CompilesInv
  <2>2. ASSUME NEW a \in 0 .. Window - 1
        PROVE  Number(compiles', Upto(a)) <= Number(compileTimes', 0 .. a)
    <3>1. a \in Nat /\ 0 \in 0 .. a /\ new \in Upto(a)
      BY <1>0, <1>5 DEF Upto
    <3>2. Number(compiles', Upto(a)) = Number(old, Upto(a)) + 1
      BY <1>1, <1>4, <1>5, <3>1, NumberAppend
    <3>3. Number(compileTimes', 0 .. a) = Number(recent, 0 .. a) + 1
      BY <1>0, <1>1, <1>3, <3>1, NumberAppend
    <3>4. Number(old, Upto(a)) = Number(compiles, Upto(a))
      <4>1. \A i \in DOMAIN compiles : old[i] \in Upto(a) <=> compiles[i] \in Upto(a)
        BY <1>4 DEF Upto
      <4>2. DOMAIN old = DOMAIN compiles
        BY <1>4
      <4>3. \A i \in DOMAIN old : old[i] \in Upto(a) <=> compiles[i] \in Upto(a)
        BY <4>1, <4>2
      <4>. QED  BY <4>2, <4>3, NumberSame
    <3>5. /\ Number(old, Upto(a)) \in Nat /\ Number(compileTimes, 0 .. a) \in Nat
      BY <1>0, <1>4, NumberType
    <3>6. Number(compiles, Upto(a)) <= Number(compileTimes, 0 .. a)
      BY DEF IInv, CompilesInv
    <3>. QED  BY <1>3, <3>2, <3>3, <3>4, <3>5, <3>6
  <2>. QED  BY <2>1, <2>2 DEF CompilesInv
<1>11. \A i \in DOMAIN compiles' :
          compiles'[i].kept => compileLimits'[compiles'[i].visitor] \in 0 .. compiles'[i].age
  <2> SUFFICES ASSUME NEW i \in DOMAIN compiles', compiles'[i].kept
               PROVE  compileLimits'[compiles'[i].visitor] \in 0 .. compiles'[i].age
    OBVIOUS
  <2>1. CASE i = Len(old) + 1
    BY <1>1, <1>5, <1>8, <2>1
  <2>2. CASE i \in DOMAIN compiles
    <3>1. /\ compiles[i].visitor \in Visitors /\ compiles[i].age \in Nat
          /\ compiles'[i].visitor = compiles[i].visitor /\ compiles'[i].age = compiles[i].age
          /\ compiles[i].kept /\ ~CompilesFull
      BY <1>4, <1>8, <2>2
    <3>2. compileLimits[compiles[i].visitor] \in 0 .. compiles[i].age
      BY <2>2, <3>1 DEF IInv, CooldownInv
    <3>. QED  BY <1>1, <3>1, <3>2
  <2>. QED  BY <1>9, <2>1, <2>2
<1>12. CooldownKept'
  <2> DEFINE recently(i) == compiles'[i].kept /\ compiles'[i].age < Cooldown
  <2>1. ASSUME NEW i \in DOMAIN compiles, recently(i), compiles'[i].visitor = v
        PROVE  FALSE
    <3>1. /\ compiles[i].visitor = v /\ compiles[i].kept
          /\ compiles[i].age \in Nat /\ compiles[i].age < Cooldown
      BY <1>4, <1>8, <2>1
    <3>2. compileLimits[v] \in 0 .. compiles[i].age
      BY <3>1 DEF IInv, CooldownInv
    <3>. QED  BY <1>0, <1>2, <3>1, <3>2
  <2>2. ASSUME NEW i \in DOMAIN compiles, NEW j \in DOMAIN compiles,
               compiles'[i].visitor = compiles'[j].visitor, recently(i), recently(j)
        PROVE  i = j
    <3>1. \A k \in {i, j} : /\ compiles[k].visitor = compiles'[k].visitor
                            /\ compiles[k].age = compiles'[k].age
                            /\ compiles'[k].kept => compiles[k].kept
      BY <1>4, <1>8
    <3>. QED  BY <2>2, <3>1 DEF IInv, CooldownInv, CooldownKept
  <2>3. ASSUME NEW i \in DOMAIN compiles', NEW j \in DOMAIN compiles',
               compiles'[i].visitor = compiles'[j].visitor, recently(i), recently(j)
        PROVE  i = j
    <3>1. \A k \in {i, j} : k = Len(old) + 1 => compiles'[k].visitor = v
      BY <1>5, <1>8
    <3>. QED  BY <1>9, <2>1, <2>2, <2>3, <3>1
  <2>. QED  BY <2>3 DEF CooldownKept
<1>. QED  BY <1>1, <1>6, <1>7, <1>10, <1>11, <1>12 DEF CooldownInv

LEMMA CreateIInv ==
    ASSUME IInv, NEW v \in Visitors, NEW custom \in BOOLEAN, CreateRun(v, custom)
    PROVE  IInv'
<1> DEFINE run == CHOOSE r \in Runs : r \notin ToSet(jobs) \cup active
<1>0. TypeOK /\ JobsInv /\ StartsInv /\ CompilesInv /\ CooldownInv /\ PromiseInv
  BY DEF IInv
<1>1. /\ CountStart(v) /\ ~Busy
      /\ jobs' = Append(Evict, run) /\ active' = active \cup {run}
      /\ starts' = [w \in Visitors |-> IF w = v THEN Append(starts[v], 0) ELSE Remembered(v, w)]
  BY DEF CreateRun
<1>2. run \in Runs /\ run \notin ToSet(jobs) \cup active
  BY <1>0, <1>1, RoomFacts
<1> HIDE DEF run
<1>3. /\ Evict \in Seq(Runs) /\ Len(Evict) \in Nat /\ Len(Evict) < MaxJobs
      /\ \A i, j \in DOMAIN Evict : Evict[i] = Evict[j] => i = j
      /\ active \subseteq ToSet(Evict) /\ run \notin ToSet(Evict)
      /\ MaxJobs \in Nat /\ MaxActive \in Nat
      /\ DOMAIN Evict = 1 .. Len(Evict)
  BY <1>0, <1>1, <1>2, EvictFacts, DomainFacts, Constants
<1>4. /\ jobs' \in Seq(Runs) /\ Len(jobs') = Len(Evict) + 1
      /\ DOMAIN jobs' = 1 .. Len(Evict) + 1
      /\ jobs'[Len(Evict) + 1] = run
      /\ \A i \in DOMAIN Evict : i \in DOMAIN jobs' /\ jobs'[i] = Evict[i]
  BY <1>1, <1>2, <1>3
<1>5. \A i \in DOMAIN jobs' : i = Len(Evict) + 1 \/ i \in DOMAIN Evict
  BY <1>3, <1>4
<1>6. JobsInv'
  <2>1. \A i, j \in DOMAIN jobs' : jobs'[i] = jobs'[j] => i = j
    <3>1. \A i \in DOMAIN Evict : jobs'[i] # run
      BY <1>3, <1>4 DEF ToSet
    <3>2. \A i, j \in DOMAIN Evict : jobs'[i] = jobs'[j] => i = j
      BY <1>3, <1>4
    <3>. QED  BY <1>4, <1>5, <3>1, <3>2
  <2>2. Cardinality(active') <= MaxActive
    <3>1. IsFiniteSet(active) /\ Cardinality(active) < MaxActive
      BY <1>0, <1>1, RoomFacts
    <3>2. Cardinality(active') = Cardinality(active) + 1 /\ Cardinality(active) \in Nat
      BY <1>1, <1>2, <3>1, FS_AddElement, FS_CardinalityType
    <3>. QED  BY <1>3, <3>1, <3>2
  <2>3. active' \subseteq ToSet(jobs')
    <3>1. \A r \in active : \E i \in DOMAIN Evict : Evict[i] = r
      BY <1>3 DEF ToSet
    <3>2. \A r \in active' : \E i \in DOMAIN jobs' : jobs'[i] = r
      BY <1>1, <1>3, <1>4, <3>1
    <3>. QED  BY <3>2 DEF ToSet
  <2>. QED  BY <2>1, <2>2, <2>3 DEF JobsInv, ActiveBounded
<1>7. /\ starts' \in [Visitors -> Seq(Ages)] /\ rateLimits' \in [Visitors -> Seq(Ages)]
      /\ \A w \in Visitors : Len(rateLimits'[w]) <= MaxStarts
      /\ StartsInv'
  BY <1>1, CountStartFacts
<1>8. /\ compileLimits' \in [Visitors -> Ages \cup {Never}]
      /\ compileTimes' \in Seq(Ages) /\ Len(compileTimes') <= MaxCompiles
      /\ compiles' \in Seq(Stamps)
      /\ promise' \in {NoPromise} \cup [visitor : Visitors, left : Nat]
      /\ CompilesInv' /\ CooldownInv' /\ PromiseInv'
  <2>1. CASE custom
    <3>1. CompilationDelay(v) = 0 /\ CountCompile(v)
      BY <2>1 DEF CreateRun, Admissible
    <3>2. /\ compileLimits' \in [Visitors -> Ages \cup {Never}]
          /\ compileTimes' \in Seq(Ages) /\ Len(compileTimes') <= MaxCompiles
          /\ compiles' \in Seq(Stamps)
          /\ promise' = NoPromise
          /\ CompilesInv' /\ CooldownInv'
      BY <3>1, CountCompileFacts
    <3>. QED  BY <3>2 DEF PromiseInv
  <2>2. CASE ~custom
    <3>1. UNCHANGED <<compileLimits, compileTimes, compiles, promise>>
      BY <2>2 DEF CreateRun
    <3>2. SharedDelay' = SharedDelay
      BY <3>1 DEF SharedDelay
    <3>3. OwnDelay(promise.visitor)' = OwnDelay(promise.visitor)
      BY <3>1 DEF OwnDelay
    <3>4. CompilesInv' /\ CooldownInv'
      BY <1>0, <3>1 DEF CompilesInv, CooldownInv, CooldownKept
    <3>5. PromiseInv'
      BY <1>0, <3>1, <3>2, <3>3 DEF PromiseInv
    <3>. QED  BY <1>0, <3>1, <3>4, <3>5 DEF TypeOK
  <2>. QED  BY <2>1, <2>2
<1>9. TypeOK'
  <2>1. active' \subseteq Runs /\ Len(jobs') <= MaxJobs
    BY <1>0, <1>1, <1>2, <1>3, <1>4 DEF TypeOK
  <2>. QED  BY <1>4, <1>7, <1>8, <2>1 DEF TypeOK
<1>. QED  BY <1>6, <1>7, <1>8, <1>9 DEF IInv

LEMMA EndIInv ==
    ASSUME IInv, NEW run \in Runs, EndRun(run)
    PROVE  IInv'
<1>1. /\ active' = active \ {run}
      /\ UNCHANGED <<jobs, rateLimits, compileLimits, compileTimes, starts, compiles, promise>>
  BY DEF EndRun, tables, history
<1>2. IsFiniteSet(active) /\ Cardinality(active) <= MaxActive /\ active \subseteq ToSet(jobs)
  <2>1. IsFiniteSet(Runs)
    BY Constants, FS_Interval DEF Runs
  <2>. QED  BY <2>1, FS_Subset DEF IInv, TypeOK, JobsInv, ActiveBounded
<1>3. Cardinality(active') <= MaxActive
  <2>1. Cardinality(active') <= Cardinality(active)
    BY <1>1, <1>2, FS_Subset
  <2>2. Cardinality(active') \in Nat /\ Cardinality(active) \in Nat /\ MaxActive \in Nat
    BY <1>1, <1>2, FS_Subset, FS_CardinalityType, Constants
  <2>. QED  BY <1>2, <2>1, <2>2
<1>4. TypeOK' /\ JobsInv'
  BY <1>1, <1>2, <1>3 DEF IInv, TypeOK, JobsInv, ActiveBounded
<1>5. StartsInv' /\ CompilesInv' /\ CooldownInv'
  BY <1>1 DEF IInv, StartsInv, CompilesInv, CooldownInv, CooldownKept
<1>6. PromiseInv'
  <2>1. SharedDelay' = SharedDelay
    BY <1>1 DEF SharedDelay
  <2>2. OwnDelay(promise.visitor)' = OwnDelay(promise.visitor)
    BY <1>1 DEF OwnDelay
  <2>. QED  BY <1>1, <2>1, <2>2 DEF IInv, PromiseInv
<1>. QED  BY <1>4, <1>5, <1>6 DEF IInv

-----------------------------------------------------------------------------
(* A tick *)

LEMMA NoneFacts ==
    ASSUME NEW s, NEW Q, \A i \in DOMAIN s : s[i] \notin Q
    PROVE  Number(s, Q) = 0
<1>1. {i \in DOMAIN s : s[i] \in Q} = {}
  OBVIOUS
<1>. QED  BY <1>1, FS_EmptySet DEF Number

OlderAll(s) == [i \in DOMAIN s |-> Older(s[i])]

LEMMA OlderAllFacts ==
    ASSUME NEW s \in Seq(Ages)
    PROVE  /\ OlderAll(s) \in Seq(Ages) /\ Len(OlderAll(s)) = Len(s)
           /\ DOMAIN OlderAll(s) = DOMAIN s
           /\ \A i \in DOMAIN s : OlderAll(s)[i] = Older(s[i])
           /\ \A a \in 0 .. Window - 1 :
                 Number(OlderAll(s), 0 .. a) = Number(s, 0 .. a - 1)
<1> DEFINE t == OlderAll(s)
<1>1. DOMAIN s = 1 .. Len(s) /\ Len(s) \in Nat /\ \A i \in DOMAIN s : s[i] \in Ages
  OBVIOUS
<1>2. DOMAIN t = DOMAIN s /\ \A i \in DOMAIN s : t[i] = Older(s[i])
  BY DEF OlderAll
<1>3. \A i \in DOMAIN s : t[i] \in Ages
  BY <1>1, <1>2, OlderFacts
<1>4. t \in Seq(Ages) /\ Len(t) = Len(s)
  <2>1. t = [i \in 1 .. Len(s) |-> Older(s[i])]
    BY <1>1 DEF OlderAll
  <2> HIDE DEF t
  <2>. QED  BY <1>1, <1>2, <1>3, <2>1
<1> HIDE DEF t
<1>5. ASSUME NEW a \in 0 .. Window - 1
      PROVE  Number(t, 0 .. a) = Number(s, 0 .. a - 1)
  <2>1. \A i \in DOMAIN t : t[i] \in 0 .. a <=> s[i] \in 0 .. a - 1
    BY <1>1, <1>2, OlderFacts
  <2>. QED  BY <1>2, <2>1, NumberSame
<1>. QED  BY <1>2, <1>4, <1>5 DEF t

Aged == [i \in DOMAIN compiles |-> [compiles[i] EXCEPT !.age = Older(@)]]

LEMMA TickStep ==
    ASSUME Tick
    PROVE  /\ rateLimits' = [v \in Visitors |-> OlderAll(rateLimits[v])]
           /\ compileLimits' = [v \in Visitors |-> Older(compileLimits[v])]
           /\ compileTimes' = OlderAll(compileTimes)
           /\ starts' = [v \in Visitors |-> Recent(OlderAll(starts[v]))]
           /\ compiles' = At(Aged, {i \in DOMAIN compiles : Aged[i].age < Window})
           /\ promise' = IF promise.left > 0 THEN [promise EXCEPT !.left = @ - 1] ELSE promise
           /\ UNCHANGED <<jobs, active>>
BY DEF Tick, OlderAll, Aged, Recent

LEMMA TickStarts ==
    ASSUME IInv, Tick
    PROVE  /\ starts' \in [Visitors -> Seq(Ages)] /\ rateLimits' \in [Visitors -> Seq(Ages)]
           /\ \A w \in Visitors : Len(rateLimits'[w]) <= MaxStarts
           /\ StartsInv'
<1>0. /\ rateLimits \in [Visitors -> Seq(Ages)] /\ starts \in [Visitors -> Seq(Ages)]
      /\ \A w \in Visitors : Len(rateLimits[w]) <= MaxStarts
      /\ Window \in Nat
  BY Constants DEF IInv, TypeOK
<1>1. /\ rateLimits' = [v \in Visitors |-> OlderAll(rateLimits[v])]
      /\ starts' = [v \in Visitors |-> Recent(OlderAll(starts[v]))]
  BY TickStep
<1>2. ASSUME NEW v \in Visitors
      PROVE  /\ rateLimits'[v] \in Seq(Ages) /\ Len(rateLimits'[v]) <= MaxStarts
             /\ starts'[v] \in Seq(Ages)
             /\ \A i \in DOMAIN starts'[v] : starts'[v][i] < Window
             /\ \A a \in 0 .. Window - 1 :
                   Number(starts'[v], 0 .. a) <= Number(rateLimits'[v], 0 .. a)
  <2> DEFINE s == OlderAll(starts[v])
             r == OlderAll(rateLimits[v])
  <2>1. starts[v] \in Seq(Ages) /\ rateLimits[v] \in Seq(Ages)
    BY <1>0
  <2>2. /\ s \in Seq(Ages)
        /\ \A a \in 0 .. Window - 1 : Number(s, 0 .. a) = Number(starts[v], 0 .. a - 1)
    BY <2>1, OlderAllFacts
  <2>3. /\ r \in Seq(Ages) /\ Len(r) = Len(rateLimits[v])
        /\ \A a \in 0 .. Window - 1 : Number(r, 0 .. a) = Number(rateLimits[v], 0 .. a - 1)
    BY <2>1, OlderAllFacts
  <2> HIDE DEF s, r
  <2>4. /\ Recent(s) \in Seq(Ages)
        /\ \A i \in DOMAIN Recent(s) : Recent(s)[i] < Window
        /\ \A a \in 0 .. Window - 1 : Number(Recent(s), 0 .. a) = Number(s, 0 .. a)
    BY <2>2, RecentFacts
  <2>5. rateLimits'[v] = r /\ starts'[v] = Recent(s)
    BY <1>1 DEF s, r
  <2>6. ASSUME NEW a \in 0 .. Window - 1
        PROVE  Number(starts[v], 0 .. a - 1) <= Number(rateLimits[v], 0 .. a - 1)
    <3>1. CASE a = 0
      <4>1. 0 .. a - 1 = {}
        BY <3>1
      <4>2. Number(starts[v], {}) = 0 /\ Number(rateLimits[v], {}) = 0
        BY NoneFacts
      <4>. QED  BY <4>1, <4>2
    <3>2. CASE a # 0
      <4>1. a - 1 \in 0 .. Window - 1
        BY <1>0, <3>2
      <4>. QED  BY <4>1 DEF IInv, StartsInv
    <3>. QED  BY <3>1, <3>2
  <2>. QED  BY <1>0, <2>2, <2>3, <2>4, <2>5, <2>6
<1>. QED  BY <1>1, <1>2 DEF StartsInv

LEMMA TickCompiles ==
    ASSUME IInv, Tick
    PROVE  /\ compileLimits' \in [Visitors -> Ages \cup {Never}]
           /\ compileTimes' \in Seq(Ages) /\ Len(compileTimes') <= MaxCompiles
           /\ compiles' \in Seq(Stamps)
           /\ CompilesInv' /\ CooldownInv'
<1> DEFINE P == {i \in DOMAIN compiles : Aged[i].age < Window}
<1>0. /\ compileLimits \in [Visitors -> Ages \cup {Never}]
      /\ compileTimes \in Seq(Ages) /\ Len(compileTimes) <= MaxCompiles
      /\ compiles \in Seq(Stamps) /\ Window \in Nat /\ Ages = 0 .. Window
      /\ Never \notin Nat
  BY Constants DEF IInv, TypeOK, Ages, Never
<1>1. /\ compileLimits' = [v \in Visitors |-> Older(compileLimits[v])]
      /\ compileTimes' = OlderAll(compileTimes)
      /\ compiles' = At(Aged, P)
  BY TickStep
<1>2. compileLimits' \in [Visitors -> Ages \cup {Never}]
  BY <1>0, <1>1, OlderFacts
<1>3. /\ compileTimes' \in Seq(Ages) /\ Len(compileTimes') <= MaxCompiles
      /\ \A a \in 0 .. Window - 1 :
            Number(compileTimes', 0 .. a) = Number(compileTimes, 0 .. a - 1)
  BY <1>0, <1>1, OlderAllFacts
<1>4. \A i \in DOMAIN compiles :
         /\ compiles[i].visitor \in Visitors /\ compiles[i].age \in Ages
         /\ compiles[i].kept \in BOOLEAN /\ compiles[i] \in Stamps /\ Aged[i] \in Stamps
         /\ Aged[i].visitor = compiles[i].visitor /\ Aged[i].kept = compiles[i].kept
         /\ Aged[i].age = Older(compiles[i].age) /\ Aged[i].age \in Ages
  <2> TAKE i \in DOMAIN compiles
  <2>1. compiles[i] \in Stamps
    BY <1>0
  <2>2. compiles[i].age \in Ages /\ Older(compiles[i].age) \in Ages
    BY <2>1, OlderFacts DEF Stamps
  <2>3. Aged[i] = [compiles[i] EXCEPT !.age = Older(@)]
    BY DEF Aged
  <2>. QED  BY <2>1, <2>2, <2>3 DEF Stamps
<1>5. Aged \in Seq(Stamps) /\ DOMAIN Aged = DOMAIN compiles
  <2>1. DOMAIN compiles = 1 .. Len(compiles) /\ Len(compiles) \in Nat
    BY <1>0
  <2>2. DOMAIN Aged = DOMAIN compiles /\ Aged = [i \in 1 .. Len(compiles) |-> Aged[i]]
    BY <2>1 DEF Aged
  <2>. QED  BY <1>4, <2>1, <2>2
<1>6. P \in SUBSET DOMAIN Aged
  BY <1>5
<1>7. /\ compiles' \in Seq(Stamps) /\ DOMAIN compiles' = 1 .. Len(compiles')
      /\ \A k \in DOMAIN compiles' : Place(P, k) \in P /\ compiles'[k] = Aged[Place(P, k)]
      /\ \A j, k \in DOMAIN compiles' : Place(P, j) = Place(P, k) => j = k
  <2> HIDE DEF P
  <2>1. /\ compiles' \in Seq(Stamps)
        /\ \A k \in 1 .. Len(compiles') :
              Place(P, k) \in P /\ compiles'[k] = Aged[Place(P, k)]
        /\ \A j, k \in 1 .. Len(compiles') : j < k <=> Place(P, j) < Place(P, k)
    BY <1>1, <1>5, <1>6, AtFacts
  <2>2. DOMAIN compiles' = 1 .. Len(compiles') /\ Len(compiles') \in Nat
    BY <2>1
  <2>. QED  BY <2>1, <2>2
<1>8. \A k \in DOMAIN compiles' :
         LET i == Place(P, k) IN
         /\ i \in DOMAIN compiles /\ compiles'[k].age < Window
         /\ compiles'[k].visitor = compiles[i].visitor /\ compiles'[k].kept = compiles[i].kept
         /\ compiles'[k].age = Older(compiles[i].age)
  BY <1>4, <1>7
<1>9. CompilesInv'
  <2>1. ASSUME NEW a \in 0 .. Window - 1
        PROVE  Number(compiles', Upto(a)) <= Number(compileTimes', 0 .. a)
    <3>1. Number(compiles', Upto(a)) = Number(Aged, Upto(a))
      <4>1. \A i \in DOMAIN Aged : Aged[i] \in Upto(a) => i \in P
        BY <1>0, <1>4, <1>5 DEF Upto
      <4> HIDE DEF P
      <4>. QED  BY <1>1, <1>5, <1>6, <4>1, NumberAt
    <3>2. Number(Aged, Upto(a)) = Number(compiles, Upto(a - 1))
      <4>1. \A i \in DOMAIN compiles : Aged[i].age <= a <=> compiles[i].age <= a - 1
        <5> TAKE i \in DOMAIN compiles
        <5>1. Aged[i].age \in 0 .. a <=> compiles[i].age \in 0 .. a - 1
          BY <1>4, OlderFacts
        <5>. QED  BY <1>0, <1>4, <5>1
      <4>2. \A i \in DOMAIN Aged : Aged[i] \in Upto(a) <=> compiles[i] \in Upto(a - 1)
        BY <1>4, <1>5, <4>1 DEF Upto
      <4>. QED  BY <1>5, <4>2, NumberSame
    <3>3. Number(compiles, Upto(a - 1)) <= Number(compileTimes, 0 .. a - 1)
      <4>1. CASE a = 0
        <5>1. \A i \in DOMAIN compiles : compiles[i] \notin Upto(a - 1)
          BY <1>0, <1>4, <4>1 DEF Upto
        <5>2. \A i \in DOMAIN compileTimes : compileTimes[i] \notin 0 .. a - 1
          BY <4>1
        <5>3. Number(compiles, Upto(a - 1)) = 0 /\ Number(compileTimes, 0 .. a - 1) = 0
          BY <5>1, <5>2, NoneFacts
        <5>. QED  BY <5>3
      <4>2. CASE a # 0
        <5>1. a - 1 \in 0 .. Window - 1
          BY <1>0, <4>2
        <5>. QED  BY <5>1 DEF IInv, CompilesInv
      <4>. QED  BY <4>1, <4>2
    <3>. QED  BY <1>3, <3>1, <3>2, <3>3
  <2>. QED  BY <1>8, <2>1 DEF CompilesInv
<1>10. CooldownKept'
  <2> SUFFICES ASSUME NEW j \in DOMAIN compiles', NEW k \in DOMAIN compiles',
                      compiles'[j].visitor = compiles'[k].visitor,
                      compiles'[j].kept, compiles'[j].age < Cooldown,
                      compiles'[k].kept, compiles'[k].age < Cooldown
               PROVE  j = k
    BY DEF CooldownKept
  <2> DEFINE p == Place(P, j)
             q == Place(P, k)
  <2>1. /\ p \in DOMAIN compiles /\ q \in DOMAIN compiles
        /\ compiles[p].visitor = compiles[q].visitor
        /\ compiles[p].kept /\ compiles[q].kept
        /\ Older(compiles[p].age) < Cooldown /\ Older(compiles[q].age) < Cooldown
    BY <1>8
  <2> HIDE DEF p, q, P
  <2>2. \A i \in {p, q} : /\ compiles[i].age \in Nat /\ Older(compiles[i].age) \in Nat
                          /\ Older(compiles[i].age) >= compiles[i].age
    BY <1>0, <1>4, <2>1, OlderFacts
  <2>3. compiles[p].age < Cooldown /\ compiles[q].age < Cooldown
    BY <2>1, <2>2, Constants
  <2>4. p = q
    BY <2>1, <2>3 DEF IInv, CooldownInv, CooldownKept
  <2>. QED  BY <1>7, <2>4 DEF p, q
<1>11. \A k \in DOMAIN compiles' :
          compiles'[k].kept => compileLimits'[compiles'[k].visitor] \in 0 .. compiles'[k].age
  <2> SUFFICES ASSUME NEW k \in DOMAIN compiles', compiles'[k].kept
               PROVE  compileLimits'[compiles'[k].visitor] \in 0 .. compiles'[k].age
    OBVIOUS
  <2> DEFINE p == Place(P, k)
             v == compiles[p].visitor
             c == compileLimits[v]
             age == compiles[p].age
  <2>1. /\ p \in DOMAIN compiles /\ compiles[p].kept /\ v \in Visitors
        /\ compiles'[k].visitor = v /\ compiles'[k].age = Older(age) /\ age \in Ages
    BY <1>4, <1>8
  <2> HIDE DEF p, P
  <2>2. c \in 0 .. age /\ age < Window
    BY <2>1 DEF IInv, CooldownInv, CompilesInv
  <2> HIDE DEF c, age, v
  <2>3. /\ c \in Ages /\ c < Window /\ c \in Nat /\ age \in Nat
    BY <1>0, <2>1, <2>2
  <2>4. Older(c) = c + 1 /\ Older(age) = age + 1
    BY <2>1, <2>2, <2>3, OlderFacts
  <2>5. compileLimits'[v] = Older(c)
    BY <1>1, <2>1 DEF c
  <2>. QED  BY <2>1, <2>2, <2>3, <2>4, <2>5
<1>. QED  BY <1>2, <1>3, <1>7, <1>9, <1>10, <1>11 DEF CooldownInv

\* A second less to wait in each delay that is left.
LEMMA TickDelays ==
    ASSUME IInv, Tick
    PROVE  /\ SharedDelay' \in Int
           /\ SharedDelay' <= IF SharedDelay > 0 THEN SharedDelay - 1 ELSE 0
           /\ \A v \in Visitors :
                 /\ OwnDelay(v)' \in Int
                 /\ OwnDelay(v)' <= IF OwnDelay(v) > 0 THEN OwnDelay(v) - 1 ELSE 0
<1>0. /\ compileLimits \in [Visitors -> Ages \cup {Never}]
      /\ compileTimes \in Seq(Ages) /\ Len(compileTimes) <= MaxCompiles
      /\ {MaxCompiles, Cooldown, Window} \subseteq Nat \ {0} /\ Cooldown <= Window
      /\ Ages = 0 .. Window /\ Never \notin Nat /\ TypeOK
  BY Constants DEF IInv, TypeOK, Ages, Never
<1>1. /\ compileLimits' = [v \in Visitors |-> Older(compileLimits[v])]
      /\ compileTimes' = OlderAll(compileTimes)
  BY TickStep
<1>2. SharedDelay' \in Int /\ SharedDelay' <= IF SharedDelay > 0 THEN SharedDelay - 1 ELSE 0
  <2> DEFINE s == compileTimes
             t == OlderAll(compileTimes)
             P == {i \in DOMAIN t : t[i] < Window}
             Q == {i \in DOMAIN s : s[i] < Window}
  <2>1. /\ s \in Seq(Ages) /\ Len(s) \in Nat /\ DOMAIN s = 1 .. Len(s)
        /\ t \in Seq(Ages) /\ Len(t) = Len(s) /\ DOMAIN t = DOMAIN s
        /\ \A i \in DOMAIN s : t[i] = Older(s[i])
    BY <1>0, OlderAllFacts
  <2>2. Recent(compileTimes)' = At(t, P) /\ Recent(compileTimes) = At(s, Q)
    BY <1>1 DEF Recent
  <2> HIDE DEF s, t
  <2>3. /\ P \in SUBSET DOMAIN t
        /\ At(t, P) \in Seq(Ages) /\ Len(At(t, P)) = Cardinality(P) /\ Cardinality(P) \in Nat
    <3>1. P \in SUBSET DOMAIN t
      OBVIOUS
    <3> HIDE DEF P
    <3>. QED  BY <2>1, <3>1, AtFacts
  <2>4. /\ SharedDelay' = IF Len(At(t, P)) >= MaxCompiles
                          THEN Window - Head(At(t, P)) ELSE 0
        /\ SharedDelay = IF Len(At(s, Q)) >= MaxCompiles
                         THEN Window - Head(At(s, Q)) ELSE 0
    BY <2>2 DEF SharedDelay
  <2>5. SharedDelay \in Nat
    <3>1. CASE Visitors = {}
      <4>1. \A i \in DOMAIN At(s, Q) : At(s, Q)[i] \in Ages
        BY <2>1, <2>2, RecentFacts DEF s
      <4>2. At(s, Q) \in Seq(Ages)
        BY <2>1, <2>2, RecentFacts DEF s
      <4>3. Len(At(s, Q)) >= MaxCompiles => Head(At(s, Q)) = At(s, Q)[1] /\ 1 \in DOMAIN At(s, Q)
        BY <1>0, <4>2
      <4>. QED  BY <1>0, <2>4, <4>1, <4>3
    <3>2. CASE Visitors # {}
      BY <1>0, <3>2, DelayFacts
    <3>. QED  BY <3>1, <3>2
  <2>6. CASE Len(At(t, P)) >= MaxCompiles
    <3>1. P = DOMAIN t
      <4> HIDE DEF P
      <4>1. /\ IsFiniteSet(DOMAIN t) /\ Cardinality(DOMAIN t) = Len(t)
        BY <2>1, DomainFacts
      <4>2. Cardinality(P) <= Len(t) /\ Cardinality(P) >= MaxCompiles /\ Len(t) <= MaxCompiles
        BY <1>0, <2>1, <2>3, <2>6, <4>1, FS_Subset DEF s
      <4>3. Cardinality(P) = Len(t)
        BY <1>0, <2>1, <2>3, <4>2
      <4>. QED  BY <2>3, <4>1, <4>3, FS_Subset
    <3>2. At(t, P) = t
      BY <2>1, <3>1, AtAll
    <3>3. \A i \in DOMAIN s : s[i] \in Ages /\ Older(s[i]) < Window
      BY <2>1, <3>1
    <3>4. \A i \in DOMAIN s : s[i] < Window /\ Older(s[i]) = s[i] + 1
      <4> TAKE i \in DOMAIN s
      <4>1. s[i] \in Ages /\ Older(s[i]) \in Ages /\ Older(s[i]) >= s[i]
        BY <3>3, OlderFacts
      <4>2. s[i] < Window
        BY <1>0, <3>3, <4>1
      <4>. QED  BY <4>1, <4>2, OlderFacts
    <3>5. Q = DOMAIN s /\ At(s, Q) = s
      BY <2>1, <3>4, AtAll
    <3>6. 1 \in DOMAIN s /\ Head(s) = s[1] /\ Head(t) = t[1] /\ Len(s) >= MaxCompiles
      BY <1>0, <2>1, <2>6, <3>2
    <3>7. SharedDelay' = Window - (s[1] + 1) /\ SharedDelay = Window - s[1]
      BY <2>1, <2>4, <2>6, <3>2, <3>4, <3>5, <3>6
    <3>8. s[1] \in Nat /\ s[1] < Window
      BY <1>0, <3>3, <3>4, <3>6
    <3>. QED  BY <1>0, <3>7, <3>8
  <2>7. CASE ~(Len(At(t, P)) >= MaxCompiles)
    BY <2>4, <2>5, <2>7
  <2>. QED  BY <2>6, <2>7
<1>3. ASSUME NEW v \in Visitors
      PROVE  OwnDelay(v)' \in Int /\ OwnDelay(v)' <= IF OwnDelay(v) > 0 THEN OwnDelay(v) - 1 ELSE 0
  <2> DEFINE c == compileLimits[v]
  <2>1. c \in Ages \cup {Never} /\ compileLimits'[v] = Older(c)
    BY <1>0, <1>1
  <2>2. OwnDelay(v)' = IF Older(c) = Never THEN 0 ELSE Max({0, Cooldown - Older(c)})
    BY <2>1 DEF OwnDelay
  <2>3. OwnDelay(v) = IF c = Never \/ c >= Cooldown THEN 0 ELSE Cooldown - c
    BY <1>0, DelayFacts
  <2> HIDE DEF c
  <2>4. CASE c = Never
    BY <2>2, <2>3, <2>4, OlderFacts
  <2>5. CASE c \in Ages
    <3>1. /\ Older(c) \in Nat /\ Older(c) >= c /\ c \in Nat
          /\ c < Window => Older(c) = c + 1
      BY <1>0, <2>5, OlderFacts
    <3>2. /\ Older(c) # Never /\ c # Never
          /\ Cooldown - Older(c) \in Int /\ Cooldown - c \in Int
      BY <1>0, <3>1
    <3>3. OwnDelay(v)' = IF 0 >= Cooldown - Older(c) THEN 0 ELSE Cooldown - Older(c)
      BY <2>2, <3>2, MaxTwo
    <3>. QED  BY <1>0, <2>3, <3>1, <3>2, <3>3
  <2>. QED  BY <2>1, <2>4, <2>5
<1>. QED  BY <1>2, <1>3

LEMMA TickIInv ==
    ASSUME IInv, Tick
    PROVE  IInv'
<1>1. /\ UNCHANGED <<jobs, active>>
      /\ promise' = IF promise.left > 0 THEN [promise EXCEPT !.left = @ - 1] ELSE promise
  BY TickStep
<1>2. promise = NoPromise \/ promise \in [visitor : Visitors, left : Nat]
  BY DEF IInv, TypeOK
<1>3. CASE promise = NoPromise
  <2>1. promise' = NoPromise
    BY <1>1, <1>3 DEF NoPromise, Never
  <2>2. PromiseInv'
    BY <2>1 DEF PromiseInv
  <2>3. TypeOK'
    BY <1>1, <2>1, TickStarts, TickCompiles DEF IInv, TypeOK
  <2>. QED  BY <1>1, <2>2, <2>3, TickStarts, TickCompiles DEF IInv, JobsInv, ActiveBounded
<1>4. CASE promise \in [visitor : Visitors, left : Nat]
  <2>2. PICK v \in Visitors, n \in Nat : promise.visitor = v /\ promise.left = n
    BY <1>4
  <2> DEFINE m == IF n > 0 THEN n - 1 ELSE n
  <2>1. promise' \in [visitor : Visitors, left : Nat] /\ promise'.visitor = v /\ promise'.left = m
    BY <1>1, <1>4, <2>2
  <2>3. PromiseInv'
    <3>1. promise # NoPromise
      BY <2>2 DEF NoPromise, Never
    <3>2. OwnDelay(v) <= n /\ SharedDelay <= n
      BY <2>2, <3>1 DEF IInv, PromiseInv
    <3>3. OwnDelay(v) \in Nat /\ SharedDelay \in Nat
      BY <2>2, DelayFacts DEF IInv
    <3>4. OwnDelay(v)' \in Int /\ OwnDelay(v)' <= IF OwnDelay(v) > 0 THEN OwnDelay(v) - 1 ELSE 0
      BY <2>2, TickDelays
    <3>5. SharedDelay' \in Int /\ SharedDelay' <= IF SharedDelay > 0 THEN SharedDelay - 1 ELSE 0
      BY TickDelays
    <3>6. OwnDelay(v)' <= m /\ SharedDelay' <= m
      BY <2>2, <3>2, <3>3, <3>4, <3>5
    <3>7. OwnDelay(promise.visitor)' = OwnDelay(v)'
      BY <2>1 DEF OwnDelay
    <3>. QED  BY <2>1, <3>6, <3>7 DEF PromiseInv
  <2>4. TypeOK'
    BY <1>1, <2>1, TickStarts, TickCompiles DEF IInv, TypeOK
  <2>. QED  BY <1>1, <2>3, <2>4, TickStarts, TickCompiles DEF IInv, JobsInv, ActiveBounded
<1>. QED  BY <1>2, <1>3, <1>4

LEMMA NextIInv == IInv /\ [Next]_vars => IInv'
<1> SUFFICES ASSUME IInv, [Next]_vars PROVE IInv'
  OBVIOUS
<1>1. ASSUME NEW v \in Visitors, StartRun(v) \/ AskLimits(v)
      PROVE  IInv'
  <2>1. CASE RefuseCompile(v) \/ AskLimits(v)
    <3>1. Tell(v)
      BY <2>1 DEF RefuseCompile, AskLimits
    <3>. QED  BY <3>1, TellIInv
  <2>2. ASSUME NEW custom \in BOOLEAN, RefuseRate(v, custom) \/ RefuseActive(v, custom)
        PROVE  IInv'
    BY <2>2, RefuseIInv
  <2>3. ASSUME NEW custom \in BOOLEAN, CreateRun(v, custom)
        PROVE  IInv'
    BY <2>3, CreateIInv
  <2>. QED  BY <1>1, <2>1, <2>2, <2>3 DEF StartRun
<1>2. ASSUME NEW run \in Runs, EndRun(run)
      PROVE  IInv'
  BY <1>2, EndIInv
<1>3. CASE Tick
  BY <1>3, TickIInv
<1>4. CASE UNCHANGED vars
  <2>1. UNCHANGED <<jobs, active, rateLimits, compileLimits, compileTimes,
                    starts, compiles, promise>>
    BY <1>4 DEF vars, tables, history
  <2>2. TypeOK' /\ JobsInv' /\ StartsInv' /\ CompilesInv' /\ CooldownInv'
    BY <2>1 DEF IInv, TypeOK, JobsInv, ActiveBounded, StartsInv, CompilesInv,
                CooldownInv, CooldownKept
  <2>3. SharedDelay' = SharedDelay
    BY <2>1 DEF SharedDelay
  <2>4. OwnDelay(promise.visitor)' = OwnDelay(promise.visitor)
    BY <2>1 DEF OwnDelay
  <2>5. PromiseInv'
    BY <2>1, <2>3, <2>4 DEF IInv, PromiseInv
  <2>. QED  BY <2>2, <2>5 DEF IInv
<1>. QED  BY <1>1, <1>2, <1>3, <1>4 DEF Next

LEMMA Invariant == Spec => []IInv
<1>1. Init => IInv
  BY InitIInv
<1>2. IInv /\ [Next]_vars => IInv'
  BY NextIInv
<1>. QED  BY <1>1, <1>2, PTL DEF Spec

-----------------------------------------------------------------------------
(* What a request can count on *)

\* The tables and the list of jobs keep their types and their sizes.
THEOREM TypeCorrect == Spec => []TypeOK
<1>1. IInv => TypeOK
  BY DEF IInv
<1>. QED  BY <1>1, Invariant, PTL

\* No more than MaxActive runs go on, and the server remembers each of them:
\* room is made of runs that are done, and there is always enough of those.
THEOREM FewActive == Spec => []ActiveBounded
<1>1. IInv => ActiveBounded
  BY DEF IInv, JobsInv
<1>. QED  BY <1>1, Invariant, PTL

\* A visitor starts no more than MaxStarts runs in any minute: each of them
\* has a stamp in rate_limits, which holds no more.
THEOREM FewStarts == Spec => []StartsBounded
<1>1. ASSUME IInv PROVE StartsBounded
  <2> SUFFICES ASSUME NEW v \in Visitors
               PROVE  Len(starts[v]) <= MaxStarts
    BY DEF StartsBounded
  <2>1. /\ starts[v] \in Seq(Ages) /\ rateLimits[v] \in Seq(Ages)
        /\ Len(rateLimits[v]) <= MaxStarts /\ MaxStarts \in Nat /\ Window \in Nat \ {0}
    BY <1>1, Constants DEF IInv, TypeOK
  <2>2. \A i \in DOMAIN starts[v] : starts[v][i] \in 0 .. Window - 1
    <3>1. \A i \in DOMAIN starts[v] : starts[v][i] \in Ages /\ starts[v][i] < Window
      BY <1>1, <2>1 DEF IInv, StartsInv
    <3>. QED  BY <2>1, <3>1 DEF Ages
  <2>3. Number(starts[v], 0 .. Window - 1) = Len(starts[v])
    BY <2>1, <2>2, NumberType
  <2>4. Number(starts[v], 0 .. Window - 1) <= Number(rateLimits[v], 0 .. Window - 1)
    <3>1. Window - 1 \in 0 .. Window - 1
      BY <2>1
    <3>. QED  BY <1>1, <3>1 DEF IInv, StartsInv
  <2>5. /\ Number(rateLimits[v], 0 .. Window - 1) <= Len(rateLimits[v])
        /\ Number(rateLimits[v], 0 .. Window - 1) \in Nat
    BY <2>1, NumberType
  <2>6. Len(starts[v]) \in Nat /\ Len(rateLimits[v]) \in Nat
    BY <2>1
  <2>. QED  BY <2>1, <2>3, <2>4, <2>5, <2>6
<1>. QED  BY <1>1, Invariant, PTL

\* The server compiles no more than MaxCompiles times in any minute.
THEOREM FewCompiles == Spec => []CompilesBounded
<1>1. ASSUME IInv PROVE CompilesBounded
  <2>1. /\ compiles \in Seq(Stamps) /\ compileTimes \in Seq(Ages)
        /\ Len(compileTimes) <= MaxCompiles /\ MaxCompiles \in Nat /\ Window \in Nat \ {0}
    BY <1>1, Constants DEF IInv, TypeOK
  <2>2. \A i \in DOMAIN compiles : compiles[i] \in Upto(Window - 1)
    <3>1. \A i \in DOMAIN compiles :
             compiles[i] \in Stamps /\ compiles[i].age \in Nat /\ compiles[i].age < Window
      <4> TAKE i \in DOMAIN compiles
      <4>1. compiles[i] \in Stamps
        BY <2>1
      <4>2. compiles[i].age \in Nat
        BY <2>1, <4>1 DEF Stamps, Ages
      <4>. QED  BY <1>1, <4>1, <4>2 DEF IInv, CompilesInv
    <3>. QED  BY <2>1, <3>1 DEF Upto
  <2>3. Number(compiles, Upto(Window - 1)) = Len(compiles)
    BY <2>1, <2>2, NumberType
  <2>4. Number(compiles, Upto(Window - 1)) <= Number(compileTimes, 0 .. Window - 1)
    <3>1. Window - 1 \in 0 .. Window - 1
      BY <2>1
    <3>. QED  BY <1>1, <3>1 DEF IInv, CompilesInv
  <2>5. /\ Number(compileTimes, 0 .. Window - 1) <= Len(compileTimes)
        /\ Number(compileTimes, 0 .. Window - 1) \in Nat
    BY <2>1, NumberType
  <2>6. Len(compiles) \in Nat /\ Len(compileTimes) \in Nat
    BY <2>1
  <2>. QED  BY <2>1, <2>3, <2>4, <2>5, <2>6 DEF CompilesBounded
<1>. QED  BY <1>1, Invariant, PTL

\* Between two compiles of a visitor the cooldown passes.
THEOREM OneCompileAtATime == Spec => []CooldownKept
<1>1. IInv => CooldownKept
  BY DEF IInv, CooldownInv
<1>. QED  BY <1>1, Invariant, PTL

\* The time a refused visitor is told to wait, in whole seconds, is enough.
THEOREM WaitIsEnough == Spec => []RetrySuffices
<1>1. ASSUME IInv PROVE RetrySuffices
  <2> SUFFICES ASSUME promise.left = 0
               PROVE  CompilationDelay(promise.visitor) = 0
    BY DEF RetrySuffices
  <2>1. promise # NoPromise /\ promise.visitor \in Visitors
    BY <1>1 DEF IInv, TypeOK, NoPromise, Never
  <2>2. OwnDelay(promise.visitor) <= 0 /\ SharedDelay <= 0
    BY <1>1, <2>1 DEF IInv, PromiseInv
  <2>3. OwnDelay(promise.visitor) \in Nat /\ SharedDelay \in Nat
    BY <1>1, <2>1, DelayFacts DEF IInv
  <2>4. OwnDelay(promise.visitor) = 0 /\ SharedDelay = 0
    BY <2>2, <2>3
  <2>. QED  BY <1>1, <2>1, <2>4, DelayFacts DEF IInv
<1>. QED  BY <1>1, Invariant, PTL
=============================================================================
