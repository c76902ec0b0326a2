----------------------------- MODULE PageProofs -----------------------------
(***************************************************************************)
(* Proofs about Page, for any number of presses, resets and lost messages: *)
(* which runs the page can forget, and when it can be wrong about its run. *)
(***************************************************************************)
EXTENDS Page, TLAPS

-----------------------------------------------------------------------------
(* The inductive invariant *)

\* Call i has asked for a run in the generation of the page.
Asked(i) == request[i] # "none" /\ token[i] = generation

\* A generation that is not raced has at most one call that has asked, none that
\* waits for its reset besides, and the page knows of the one that has asked.
Expected ==
    /\ \A i, j \in Starts :
          request[i] # "none" /\ request[j] # "none" /\ token[i] = token[j] =>
              i = j \/ Raced(token[i])
    /\ \A i, j \in Starts :
          pc[i] = "reset" /\ Asked(j) => Raced(generation)
    /\ ~Raced(generation) => \A i \in Starts : Asked(i) =>
          /\ (pc[i] = "post" /\ starting) \/ runId = i \/ terminal
          /\ pc[i] = "post" => ~terminal

CallInv ==
    \A i \in Starts :
        /\ pc[i] \in {"none", "reset"} => request[i] = "none"
        /\ pc[i] \in {"post", "stop"} => request[i] # "none"
        /\ request[i] = "sent" => pc[i] = "post"
        /\ request[i] # "none" => token[i] <= generation
        /\ pc[i] = "stop" => token[i] # generation

RunInv ==
    /\ runId # None => Asked(runId) /\ pc[runId] = "over"
    /\ \A i \in sources : request[i] # "none" /\ pc[i] = "over"
    /\ starting => \E i \in Starts : pc[i] = "post" /\ token[i] = generation

\* The server has a run only for a call that has asked, and the call has been
\* told unless its answer got lost.
ServerInv ==
    \A i \in Starts :
        /\ server[i] # "none" => request[i] \in {"created", "failed"}
        /\ server[i] = "live" /\ request[i] = "failed" => i \in lost

\* A call asks for the program of the tab, and while the page is between a tab
\* and its reset, none has asked yet.
TabInv ==
    <<"tab", generation>> \notin races =>
        /\ \A i \in Starts : Asked(i) => ran[i] = program
        /\ tabs # {} => \A i \in Starts : ~Asked(i)

IInv == TypeOK /\ Expected /\ CallInv /\ RunInv /\ ServerInv /\ TabInv /\ NoOrphan /\ PageTruthful

-----------------------------------------------------------------------------

LEMMA InitEstablishes == Init => IInv
<1> SUFFICES ASSUME Init  PROVE IInv
  OBVIOUS
<1>1. starting \in BOOLEAN /\ terminal \in BOOLEAN
  BY Zenon DEF Init
<1>2. TypeOK
  BY <1>1 DEF Init, TypeOK
<1>. QED
  BY <1>2 DEF Init, IInv, Expected, Asked, CallInv, RunInv, ServerInv, TabInv, NoOrphan,
     PageTruthful

-----------------------------------------------------------------------------
(* Each step keeps the invariant *)

LEMMA RacesNamed ==
    ASSUME NEW i \in Starts, NEW g \in Nat
    PROVE  Twice(i, g) \cup Between(g) \subseteq {"twice", "late", "tab"} \X Nat
BY DEF Twice, Between

\* A call that asks in the generation of the page is the only one to do so, and
\* none waits for its reset, or it is recorded.
LEMMA AskingExpected ==
    ASSUME NEW c \in Starts, TypeOK, Expected, CallInv, request[c] = "none",
           \A i \in Starts : Asked(i) => Raced(generation),
           Begin(c, generation), runId = None, UNCHANGED <<generation, runId>>
    PROVE  Expected'
<1>1. races \subseteq races'
  BY DEF Begin
<1>2. \A i \in Starts : Asked(i)' => i = c \/ Raced(generation)'
  BY <1>1 DEF TypeOK, Asked, Raced, Begin
<1>3. ASSUME NEW i \in Starts, NEW j \in Starts, i # j,
             request'[i] # "none", request'[j] # "none", token'[i] = token'[j]
      PROVE  <<"twice", token'[i]>> \in races' \/ <<"late", token'[i]>> \in races'
  <2>1. CASE i # c /\ j # c
    BY <1>1, <1>3, <2>1 DEF TypeOK, Expected, Raced, Begin
  <2>2. CASE i = c \/ j = c
    <3>1. token'[i] = generation /\ token'[j] = generation
      BY <1>3, <2>2 DEF TypeOK, Begin
    <3>. QED  BY <1>2, <1>3, <3>1 DEF Asked, Raced
  <2>. QED  BY <2>1, <2>2
<1>4. ASSUME NEW i \in Starts, pc'[i] = "reset"  PROVE Raced(generation)'
  <2>1. i # c /\ pc[i] = "reset"
    BY <1>4 DEF TypeOK, Begin
  <2>. QED  BY <2>1 DEF Begin, Twice, Raced
<1>5. (pc[c] = "post" /\ starting /\ ~terminal)'
  BY DEF TypeOK, Begin
<1>. QED  BY <1>2, <1>3, <1>4, <1>5 DEF Expected, Raced, Asked

\* The same for a call that asks in a new generation.
LEMMA AskingAlone ==
    ASSUME NEW c \in Starts, TypeOK, Expected, CallInv, generation' \in Nat,
           \A i \in Starts : request[i] # "none" => token[i] < generation',
           Begin(c, generation')
    PROVE  Expected'
<1>1. races \subseteq races'
  BY DEF Begin
<1>2. \A i \in Starts : Asked(i)' => i = c
  BY DEF TypeOK, Asked, Begin
<1>3. ASSUME NEW i \in Starts, NEW j \in Starts, i # j,
             request'[i] # "none", request'[j] # "none", token'[i] = token'[j]
      PROVE  <<"twice", token'[i]>> \in races' \/ <<"late", token'[i]>> \in races'
  <2>1. i # c /\ j # c
    BY <1>2, <1>3 DEF TypeOK, Asked, Begin
  <2>. QED  BY <1>1, <1>3, <2>1 DEF TypeOK, Expected, Raced, Begin
<1>4. ASSUME NEW i \in Starts, pc'[i] = "reset"  PROVE Raced(generation)'
  <2>1. i # c /\ pc[i] = "reset"
    BY <1>4 DEF TypeOK, Begin
  <2>. QED  BY <2>1 DEF Begin, Twice, Raced
<1>5. (pc[c] = "post" /\ starting /\ ~terminal)'
  BY DEF TypeOK, Begin
<1>. QED  BY <1>2, <1>3, <1>4, <1>5 DEF Expected, Raced, Asked

\* A step in which nobody asks, and nobody starts to wait for a reset, keeps what
\* is expected if the page goes on knowing of the call that has asked.
LEMMA NoneAsksExpected ==
    ASSUME Expected, races \subseteq races', UNCHANGED <<generation, token>>,
           \A i \in Starts : request'[i] # "none" => request[i] # "none",
           \A i \in Starts : pc'[i] = "reset" => pc[i] = "reset",
           \A i \in Starts : Asked(i) /\ ~Raced(generation) =>
              /\ (pc'[i] = "post" /\ starting') \/ runId' = i \/ terminal'
              /\ pc'[i] = "post" => ~terminal'
    PROVE  Expected'
<1>1. \A i \in Starts : Asked(i)' => Asked(i)
  BY DEF Asked
<1>2. \A i \in Starts : Raced(token[i]) => Raced(token[i])'
  BY DEF Raced
<1>3. Raced(generation) => Raced(generation)'
  BY DEF Raced
<1>. QED  BY <1>1, <1>2, <1>3 DEF Expected, Asked

LEMMA ResetPreserves == IInv /\ Reset => IInv'
<1> SUFFICES ASSUME IInv, Reset  PROVE IInv'
  OBVIOUS
<1>1. TypeOK /\ Expected /\ CallInv /\ RunInv /\ ServerInv /\ TabInv /\ NoOrphan /\ PageTruthful
  BY DEF IInv
<1>0. None \notin Starts
  BY DEF None, Starts
<1> USE <1>0 DEF page, calls, network
<1>2. TypeOK'
  <2>1. starting' \in BOOLEAN /\ terminal' \in BOOLEAN
    BY <1>1, Zenon DEF TypeOK, Reset, Clear, HasRun, NextGeneration
  <2>2. stop' \in [Starts -> {"none", "sent", "answered", "failed"}] /\ sources' \subseteq Starts
    BY <1>1 DEF TypeOK, Reset, Clear, HasRun, NextGeneration
  <2>. QED  BY <1>1, <2>1, <2>2 DEF TypeOK, Reset, Clear, HasRun, NextGeneration
<1>3. Expected'
  BY <1>1 DEF TypeOK, Expected, Raced, Asked, CallInv, RunInv, Reset, Clear, HasRun,
     NextGeneration
<1>4. CallInv'
  BY <1>1 DEF TypeOK, CallInv, Reset, Clear, HasRun, NextGeneration
<1>5. RunInv'
  BY <1>1 DEF TypeOK, Expected, Raced, CallInv, RunInv, Asked, Reset, Clear, HasRun,
     NextGeneration
<1>6. ServerInv'
  BY <1>1 DEF TypeOK, ServerInv, CallInv, Reset, Clear, HasRun, NextGeneration
<1>7. TabInv'
  BY <1>1 DEF TypeOK, TabInv, Asked, CallInv, Reset, Clear, HasRun, NextGeneration
<1>8. NoOrphan'
  BY <1>1 DEF TypeOK, NoOrphan, Doubled, Expected, Raced, Asked, CallInv, RunInv,
     ServerInv, Reset, Clear, HasRun, NextGeneration
<1>9. PageTruthful'
  BY <1>1, <1>7 DEF TypeOK, PageTruthful, Expected, Raced, Asked, CallInv, RunInv,
     TabInv, ServerInv, Reset, Clear, HasRun, NextGeneration
<1>. QED  BY <1>2, <1>3, <1>4, <1>5, <1>6, <1>7, <1>8, <1>9 DEF IInv

LEMMA ChooseTabPreserves == \A p \in Programs : IInv /\ ChooseTab(p) => IInv'
<1> SUFFICES ASSUME NEW p \in Programs, IInv, ChooseTab(p)  PROVE IInv'
  OBVIOUS
<1>1. TypeOK /\ Expected /\ CallInv /\ RunInv /\ ServerInv /\ TabInv /\ NoOrphan /\ PageTruthful
  BY DEF IInv
<1>0. None \notin Starts
  BY DEF None, Starts
<1> USE <1>0 DEF page, calls, network
<1>2. TypeOK'
  <2>1. starting' \in BOOLEAN /\ terminal' \in BOOLEAN
    BY <1>1, Zenon DEF TypeOK, ChooseTab, Clear, HasRun, NextGeneration
  <2>2. stop' \in [Starts -> {"none", "sent", "answered", "failed"}] /\ sources' \subseteq Starts
    BY <1>1 DEF TypeOK, ChooseTab, Clear, HasRun, NextGeneration
  <2>. QED  BY <1>1, <2>1, <2>2 DEF TypeOK, ChooseTab, Clear, HasRun, NextGeneration
<1>3. Expected'
  BY <1>1 DEF TypeOK, Expected, Raced, Asked, CallInv, RunInv, ChooseTab, Clear, HasRun,
     NextGeneration
<1>4. CallInv'
  BY <1>1 DEF TypeOK, CallInv, ChooseTab, Clear, HasRun, NextGeneration
<1>5. RunInv'
  BY <1>1 DEF TypeOK, Expected, Raced, CallInv, RunInv, Asked, ChooseTab, Clear, HasRun,
     NextGeneration
<1>6. ServerInv'
  BY <1>1 DEF TypeOK, ServerInv, CallInv, ChooseTab, Clear, HasRun, NextGeneration
<1>7. TabInv'
  BY <1>1 DEF TypeOK, TabInv, Asked, CallInv, ChooseTab, Clear, HasRun, NextGeneration
<1>8. NoOrphan'
  BY <1>1 DEF TypeOK, NoOrphan, Doubled, Expected, Raced, Asked, CallInv, RunInv,
     ServerInv, ChooseTab, Clear, HasRun, NextGeneration
<1>9. PageTruthful'
  BY <1>1, <1>7 DEF TypeOK, PageTruthful, Expected, Raced, Asked, CallInv, RunInv,
     TabInv, ServerInv, ChooseTab, Clear, HasRun, NextGeneration
<1>. QED  BY <1>2, <1>3, <1>4, <1>5, <1>6, <1>7, <1>8, <1>9 DEF IInv

LEMMA AfterTabPreserves == \A tab \in tabs : IInv /\ AfterTab(tab) => IInv'
<1> SUFFICES ASSUME NEW tab \in tabs, IInv, AfterTab(tab)  PROVE IInv'
  OBVIOUS
<1>1. TypeOK /\ Expected /\ CallInv /\ RunInv /\ ServerInv /\ TabInv /\ NoOrphan /\ PageTruthful
  BY DEF IInv
<1>0. None \notin Starts
  BY DEF None, Starts
<1> USE <1>0 DEF page, calls, network
<1>2. TypeOK'
  BY <1>1 DEF TypeOK, AfterTab
<1>3. Expected'
  <2>1. \A i \in Starts : Asked(i) /\ ~Raced(generation) =>
           /\ (pc'[i] = "post" /\ starting') \/ runId' = i \/ terminal'
           /\ pc'[i] = "post" => ~terminal'
    BY <1>1 DEF TypeOK, Expected, Asked, AfterTab
  <2>. QED  BY <1>1, <2>1, NoneAsksExpected DEF TypeOK, AfterTab
<1>4. CallInv'
  BY <1>1 DEF TypeOK, CallInv, AfterTab
<1>5. RunInv'
  BY <1>1 DEF TypeOK, Expected, Raced, CallInv, RunInv, Asked, AfterTab
<1>6. ServerInv'
  BY <1>1 DEF TypeOK, ServerInv, CallInv, AfterTab
<1>7. TabInv'
  BY <1>1 DEF TypeOK, TabInv, Asked, CallInv, AfterTab
<1>8. NoOrphan'
  BY <1>1 DEF TypeOK, NoOrphan, Doubled, Expected, Raced, Asked, CallInv, RunInv,
     ServerInv, AfterTab
<1>9. PageTruthful'
  BY <1>1, <1>7 DEF TypeOK, PageTruthful, Expected, Raced, Asked, CallInv, RunInv,
     TabInv, ServerInv, AfterTab
<1>. QED  BY <1>2, <1>3, <1>4, <1>5, <1>6, <1>7, <1>8, <1>9 DEF IInv

LEMMA PressStartPreserves == \A c \in Starts : IInv /\ PressStart(c) => IInv'
<1> SUFFICES ASSUME NEW c \in Starts, IInv, PressStart(c)  PROVE IInv'
  OBVIOUS
<1>1. TypeOK /\ Expected /\ CallInv /\ RunInv /\ ServerInv /\ TabInv /\ NoOrphan /\ PageTruthful
  BY DEF IInv
<1>0. None \notin Starts
  BY DEF None, Starts
<1> USE <1>0 DEF page, calls, network
<1>2. TypeOK'
  <2>1. races' \subseteq {"twice", "late", "tab"} \X Nat
    <3>1. \A g \in Nat : Twice(c, g) \cup Between(g) \subseteq {"twice", "late", "tab"} \X Nat
      BY RacesNamed
    <3>. QED  BY <1>1, <3>1 DEF TypeOK, PressStart, Begin
  <2>. QED  BY <1>1, <2>1 DEF TypeOK, PressStart, Begin, Fresh
<1>3. Expected'
  <2>1. request[c] = "none"
    BY <1>1 DEF CallInv, PressStart, Fresh
  <2>2. \A i \in Starts : Asked(i) => Raced(generation)
    BY <1>1 DEF TypeOK, Expected, Asked, PressStart, RunInv
  <2>. QED  BY <1>1, <2>1, <2>2, AskingExpected DEF PressStart
<1>4. CallInv'
  BY <1>1 DEF TypeOK, CallInv, PressStart, Begin, Fresh, Twice, Between
<1>5. RunInv'
  BY <1>1 DEF TypeOK, Expected, Raced, CallInv, RunInv, Asked, PressStart, Begin, Fresh,
     Twice, Between
<1>6. ServerInv'
  BY <1>1 DEF TypeOK, ServerInv, CallInv, PressStart, Begin, Fresh, Twice, Between
<1>7. TabInv'
  BY <1>1 DEF TypeOK, TabInv, Asked, CallInv, PressStart, Begin, Fresh, Twice, Between
<1>8. NoOrphan'
  BY <1>1 DEF TypeOK, NoOrphan, Doubled, Expected, Raced, Asked, CallInv, RunInv,
     ServerInv, PressStart, Begin, Fresh, Twice, Between
<1>9. PageTruthful'
  BY <1>1, <1>7 DEF TypeOK, PageTruthful, Expected, Raced, Asked, CallInv, RunInv,
     TabInv, ServerInv, PressStart, Begin, Fresh, Twice, Between
<1>. QED  BY <1>2, <1>3, <1>4, <1>5, <1>6, <1>7, <1>8, <1>9 DEF IInv

LEMMA PressRestartPreserves == \A c \in Starts : IInv /\ PressRestart(c) => IInv'
<1> SUFFICES ASSUME NEW c \in Starts, IInv, PressRestart(c)  PROVE IInv'
  OBVIOUS
<1>1. TypeOK /\ Expected /\ CallInv /\ RunInv /\ ServerInv /\ TabInv /\ NoOrphan /\ PageTruthful
  BY DEF IInv
<1>0. None \notin Starts
  BY DEF None, Starts
<1> USE <1>0 DEF page, calls, network
<1>2. TypeOK'
  <2>1. starting' \in BOOLEAN /\ terminal' \in BOOLEAN
    BY <1>1, Zenon DEF TypeOK, PressRestart, Clear, HasRun, Begin, Fresh, NextGeneration, Twice,
       Between
  <2>2. stop' \in [Starts -> {"none", "sent", "answered", "failed"}] /\ sources' \subseteq Starts
    BY <1>1 DEF TypeOK, PressRestart, Clear, HasRun, Begin, Fresh, NextGeneration, Twice, Between
  <2>3. races' \subseteq {"twice", "late", "tab"} \X Nat
    <3>1. \A g \in Nat : Twice(c, g) \cup Between(g) \subseteq {"twice", "late", "tab"} \X Nat
      BY RacesNamed
    <3>2. NextGeneration \in Nat
      BY <1>1 DEF TypeOK, NextGeneration
    <3>. QED  BY <1>1, <3>1, <3>2 DEF TypeOK, PressRestart, Begin
  <2>4. ran' \in [Starts -> Programs] /\ token' \in [Starts -> Nat]
    BY <1>1 DEF TypeOK, PressRestart, Clear, HasRun, Begin, Fresh, NextGeneration, Twice, Between
  <2>5. pc' \in [Starts -> {"none", "reset", "post", "stop", "over"}] /\ oldRun' \in [Starts -> Starts \cup {None}]
    BY <1>1 DEF TypeOK, PressRestart, Clear, HasRun, Begin, Fresh, NextGeneration, Twice, Between
  <2>6. request' \in [Starts -> {"none", "sent", "created", "failed"}]
    BY <1>1 DEF TypeOK, PressRestart, Clear, HasRun, Begin, Fresh, NextGeneration, Twice, Between
  <2>7. generation' \in Nat /\ runId' \in Starts \cup {None} /\ stream' \in Starts \cup {None}
    BY <1>1 DEF TypeOK, PressRestart, Clear, HasRun, Begin, Fresh, NextGeneration, Twice, Between
  <2>8. program' \in Programs /\ tabs' \subseteq [to : Programs, run : Starts] /\ lost' \subseteq Starts
    BY <1>1 DEF TypeOK, PressRestart
  <2>9. server' \in [Starts -> {"none", "live", "stopping", "over"}]
    BY <1>1 DEF TypeOK, PressRestart
  <2>. QED  BY <2>1, <2>2, <2>3, <2>4, <2>5, <2>6, <2>7, <2>8, <2>9, Zenon DEF TypeOK
<1>3. Expected'
  <2>1. CASE runId = None
    <3>1. \A i \in Starts : request[i] # "none" => token[i] < generation'
      BY <1>1 DEF TypeOK, CallInv, PressRestart, Clear, NextGeneration
    <3>2. Begin(c, generation')
      BY <2>1 DEF PressRestart, Clear, HasRun
    <3>3. generation' \in Nat
      BY <1>1 DEF TypeOK, PressRestart, Clear, NextGeneration
    <3>. QED  BY <1>1, <3>1, <3>2, <3>3, AskingAlone
  <2>2. CASE runId # None
    BY <1>1, <2>2 DEF TypeOK, Expected, Raced, Asked, CallInv, RunInv, PressRestart,
       Clear, HasRun, Fresh, NextGeneration, Twice
  <2>. QED  BY <2>1, <2>2
<1>4. CallInv'
  BY <1>1 DEF TypeOK, CallInv, PressRestart, Clear, HasRun, Begin, Fresh, NextGeneration, Twice,
     Between
<1>5. RunInv'
  BY <1>1 DEF TypeOK, Expected, Raced, CallInv, RunInv, Asked, PressRestart, Clear, HasRun,
     Begin, Fresh, NextGeneration, Twice, Between
<1>6. ServerInv'
  BY <1>1 DEF TypeOK, ServerInv, CallInv, PressRestart, Clear, HasRun, Begin, Fresh,
     NextGeneration, Twice, Between
<1>7. TabInv'
  BY <1>1 DEF TypeOK, TabInv, Asked, CallInv, PressRestart, Clear, HasRun, Begin, Fresh,
     NextGeneration, Twice, Between
<1>8. NoOrphan'
  BY <1>1 DEF TypeOK, NoOrphan, Doubled, Expected, Raced, Asked, CallInv, RunInv,
     ServerInv, PressRestart, Clear, HasRun, Begin, Fresh, NextGeneration, Twice, Between
<1>9. PageTruthful'
  BY <1>1, <1>7 DEF TypeOK, PageTruthful, Expected, Raced, Asked, CallInv, RunInv,
     TabInv, ServerInv, PressRestart, Clear, HasRun, Begin, Fresh, NextGeneration, Twice,
     Between
<1>. QED  BY <1>2, <1>3, <1>4, <1>5, <1>6, <1>7, <1>8, <1>9 DEF IInv

LEMMA AfterResetPreserves == \A c \in Starts : IInv /\ AfterReset(c) => IInv'
<1> SUFFICES ASSUME NEW c \in Starts, IInv, AfterReset(c)  PROVE IInv'
  OBVIOUS
<1>1. TypeOK /\ Expected /\ CallInv /\ RunInv /\ ServerInv /\ TabInv /\ NoOrphan /\ PageTruthful
  BY DEF IInv
<1>0. None \notin Starts
  BY DEF None, Starts
<1> USE <1>0 DEF page, calls, network
<1>2. TypeOK'
  <2>1. starting' \in BOOLEAN /\ terminal' \in BOOLEAN
    BY <1>1, Zenon DEF TypeOK, AfterReset, Begin, Between
  <2>2. stop' \in [Starts -> {"none", "sent", "answered", "failed"}] /\ sources' \subseteq Starts
    BY <1>1 DEF TypeOK, AfterReset, Begin, Between
  <2>3. races' \subseteq {"twice", "late", "tab"} \X Nat
    <3>1. \A g \in Nat : Twice(c, g) \cup Between(g) \subseteq {"twice", "late", "tab"} \X Nat
      BY RacesNamed
    <3>. QED  BY <1>1, <3>1 DEF TypeOK, AfterReset, Begin
  <2>4. ran' \in [Starts -> Programs] /\ token' \in [Starts -> Nat]
    BY <1>1 DEF TypeOK, AfterReset, Begin, Between
  <2>5. pc' \in [Starts -> {"none", "reset", "post", "stop", "over"}] /\ oldRun' \in [Starts -> Starts \cup {None}]
    BY <1>1 DEF TypeOK, AfterReset, Begin, Between
  <2>6. request' \in [Starts -> {"none", "sent", "created", "failed"}]
    BY <1>1 DEF TypeOK, AfterReset, Begin, Between
  <2>7. generation' \in Nat /\ runId' \in Starts \cup {None} /\ stream' \in Starts \cup {None}
    BY <1>1 DEF TypeOK, AfterReset, Begin, Between
  <2>8. program' \in Programs /\ tabs' \subseteq [to : Programs, run : Starts] /\ lost' \subseteq Starts
    BY <1>1 DEF TypeOK, AfterReset
  <2>9. server' \in [Starts -> {"none", "live", "stopping", "over"}]
    BY <1>1 DEF TypeOK, AfterReset
  <2>. QED  BY <2>1, <2>2, <2>3, <2>4, <2>5, <2>6, <2>7, <2>8, <2>9, Zenon DEF TypeOK
<1>3. Expected'
  <2>1. CASE pc' = [pc EXCEPT ![c] = "over"] /\ UNCHANGED <<token, ran, request, starting, terminal, races>>
    BY <1>1, <2>1 DEF TypeOK, Expected, Raced, Asked, CallInv, RunInv, AfterReset
  <2>2. CASE runId = None /\ Begin(c, generation)
    <3>1. request[c] = "none"
      BY <1>1 DEF CallInv, AfterReset
    <3>2. \A i \in Starts : Asked(i) => Raced(generation)
      BY <1>1 DEF Expected, AfterReset
    <3>. QED  BY <1>1, <2>2, <3>1, <3>2, AskingExpected DEF AfterReset
  <2>. QED  BY <2>1, <2>2 DEF AfterReset
<1>4. CallInv'
  BY <1>1 DEF TypeOK, CallInv, AfterReset, Begin, Between
<1>5. RunInv'
  BY <1>1 DEF TypeOK, Expected, Raced, CallInv, RunInv, Asked, AfterReset, Begin, Between
<1>6. ServerInv'
  BY <1>1 DEF TypeOK, ServerInv, CallInv, AfterReset, Begin, Between
<1>7. TabInv'
  BY <1>1 DEF TypeOK, TabInv, Asked, CallInv, AfterReset, Begin, Between
<1>8. NoOrphan'
  <2>1. races \subseteq races'
    BY DEF AfterReset, Begin
  <2>2. server[c] # "live"
    BY <1>1 DEF ServerInv, CallInv, AfterReset
  <2>3. \A i \in Starts \ {c} : Doubled(i) => Doubled(i)'
    BY <1>1 DEF TypeOK, Doubled, CallInv, AfterReset, Begin
  <2>4. \A i \in Starts \ {c} : token'[i] = token[i] /\ pc'[i] = pc[i]
    BY <1>1 DEF TypeOK, AfterReset, Begin
  <2>. QED  BY <1>1, <2>1, <2>2, <2>3, <2>4 DEF NoOrphan, Raced, AfterReset
<1>9. PageTruthful'
  BY <1>1, <1>7 DEF TypeOK, PageTruthful, Expected, Raced, Asked, CallInv, RunInv,
     TabInv, ServerInv, AfterReset, Begin, Between
<1>. QED  BY <1>2, <1>3, <1>4, <1>5, <1>6, <1>7, <1>8, <1>9 DEF IInv

LEMMA TakePreserves == \A c \in Starts : IInv /\ Take(c) => IInv'
<1> SUFFICES ASSUME NEW c \in Starts, IInv, Take(c)  PROVE IInv'
  OBVIOUS
<1>1. TypeOK /\ Expected /\ CallInv /\ RunInv /\ ServerInv /\ TabInv /\ NoOrphan /\ PageTruthful
  BY DEF IInv
<1>0. None \notin Starts
  BY DEF None, Starts
<1> USE <1>0 DEF page, calls, network
<1>2. TypeOK'
  BY <1>1 DEF TypeOK, Take, Current
<1>3. Expected'
  <2>1. \A i \in Starts : Asked(i) /\ ~Raced(generation) =>
           /\ (pc'[i] = "post" /\ starting') \/ runId' = i \/ terminal'
           /\ pc'[i] = "post" => ~terminal'
    BY <1>1 DEF TypeOK, Expected, Asked, Take, Current
  <2>. QED  BY <1>1, <2>1, NoneAsksExpected DEF TypeOK, Take
<1>4. CallInv'
  BY <1>1 DEF TypeOK, CallInv, Take, Current
<1>5. RunInv'
  BY <1>1 DEF TypeOK, Expected, Raced, CallInv, RunInv, Asked, Take, Current
<1>6. ServerInv'
  BY <1>1 DEF TypeOK, ServerInv, CallInv, Take, Current
<1>7. TabInv'
  BY <1>1 DEF TypeOK, TabInv, Asked, CallInv, Take, Current
<1>8. NoOrphan'
  BY <1>1 DEF TypeOK, NoOrphan, Doubled, Expected, Raced, Asked, CallInv, RunInv,
     ServerInv, Take, Current
<1>9. PageTruthful'
  BY <1>1, <1>7 DEF TypeOK, PageTruthful, Expected, Raced, Asked, CallInv, RunInv,
     TabInv, ServerInv, Take, Current
<1>. QED  BY <1>2, <1>3, <1>4, <1>5, <1>6, <1>7, <1>8, <1>9 DEF IInv

LEMMA DiscardPreserves == \A c \in Starts : IInv /\ Discard(c) => IInv'
<1> SUFFICES ASSUME NEW c \in Starts, IInv, Discard(c)  PROVE IInv'
  OBVIOUS
<1>1. TypeOK /\ Expected /\ CallInv /\ RunInv /\ ServerInv /\ TabInv /\ NoOrphan /\ PageTruthful
  BY DEF IInv
<1>0. None \notin Starts
  BY DEF None, Starts
<1> USE <1>0 DEF page, calls, network
<1>2. TypeOK'
  BY <1>1 DEF TypeOK, Discard, Current
<1>3. Expected'
  BY <1>1 DEF TypeOK, Expected, Raced, Asked, CallInv, RunInv, Discard, Current
<1>4. CallInv'
  BY <1>1 DEF TypeOK, CallInv, Discard, Current
<1>5. RunInv'
  BY <1>1 DEF TypeOK, Expected, Raced, CallInv, RunInv, Asked, Discard, Current
<1>6. ServerInv'
  BY <1>1 DEF TypeOK, ServerInv, CallInv, Discard, Current
<1>7. TabInv'
  BY <1>1 DEF TypeOK, TabInv, Asked, CallInv, Discard, Current
<1>8. NoOrphan'
  BY <1>1 DEF TypeOK, NoOrphan, Doubled, Expected, Raced, Asked, CallInv, RunInv,
     ServerInv, Discard, Current
<1>9. PageTruthful'
  BY <1>1, <1>7 DEF TypeOK, PageTruthful, Expected, Raced, Asked, CallInv, RunInv,
     TabInv, ServerInv, Discard, Current
<1>. QED  BY <1>2, <1>3, <1>4, <1>5, <1>6, <1>7, <1>8, <1>9 DEF IInv

LEMMA FailPreserves == \A c \in Starts : IInv /\ Fail(c) => IInv'
<1> SUFFICES ASSUME NEW c \in Starts, IInv, Fail(c)  PROVE IInv'
  OBVIOUS
<1>1. TypeOK /\ Expected /\ CallInv /\ RunInv /\ ServerInv /\ TabInv /\ NoOrphan /\ PageTruthful
  BY DEF IInv
<1>0. None \notin Starts
  BY DEF None, Starts
<1> USE <1>0 DEF page, calls, network
<1>2. TypeOK'
  <2>1. races' \subseteq {"twice", "late", "tab"} \X Nat
    BY <1>1 DEF TypeOK, Fail, Late
  <2>. QED  BY <1>1, <2>1 DEF TypeOK, Fail, Settled
<1>3. Expected'
  BY <1>1 DEF TypeOK, Expected, Raced, Asked, CallInv, RunInv, Fail, Settled, Late
<1>4. CallInv'
  BY <1>1 DEF TypeOK, CallInv, Fail, Settled, Late
<1>5. RunInv'
  BY <1>1 DEF TypeOK, Expected, Raced, CallInv, RunInv, Asked, Fail, Settled, Late
<1>6. ServerInv'
  BY <1>1 DEF TypeOK, ServerInv, CallInv, Fail, Settled, Late
<1>7. TabInv'
  BY <1>1 DEF TypeOK, TabInv, Asked, CallInv, Fail, Settled, Late
<1>8. NoOrphan'
  BY <1>1 DEF TypeOK, NoOrphan, Doubled, Expected, Raced, Asked, CallInv, RunInv,
     ServerInv, Fail, Settled, Late
<1>9. PageTruthful'
  BY <1>1, <1>7 DEF TypeOK, PageTruthful, Expected, Raced, Asked, CallInv, RunInv,
     TabInv, ServerInv, Fail, Settled, Late
<1>. QED  BY <1>2, <1>3, <1>4, <1>5, <1>6, <1>7, <1>8, <1>9 DEF IInv

LEMMA DiscardedPreserves == \A c \in Starts : IInv /\ Discarded(c) => IInv'
<1> SUFFICES ASSUME NEW c \in Starts, IInv, Discarded(c)  PROVE IInv'
  OBVIOUS
<1>1. TypeOK /\ Expected /\ CallInv /\ RunInv /\ ServerInv /\ TabInv /\ NoOrphan /\ PageTruthful
  BY DEF IInv
<1>0. None \notin Starts
  BY DEF None, Starts
<1> USE <1>0 DEF page, calls, network
<1>2. TypeOK'
  <2>1. races' \subseteq {"twice", "late", "tab"} \X Nat
    BY <1>1 DEF TypeOK, Discarded, Late
  <2>. QED  BY <1>1, <2>1 DEF TypeOK, Discarded, Settled
<1>3. Expected'
  BY <1>1 DEF TypeOK, Expected, Raced, Asked, CallInv, RunInv, Discarded, Settled, Late
<1>4. CallInv'
  BY <1>1 DEF TypeOK, CallInv, Discarded, Settled, Late
<1>5. RunInv'
  BY <1>1 DEF TypeOK, Expected, Raced, CallInv, RunInv, Asked, Discarded, Settled, Late
<1>6. ServerInv'
  BY <1>1 DEF TypeOK, ServerInv, CallInv, Discarded, Settled, Late
<1>7. TabInv'
  BY <1>1 DEF TypeOK, TabInv, Asked, CallInv, Discarded, Settled, Late
<1>8. NoOrphan'
  BY <1>1 DEF TypeOK, NoOrphan, Doubled, Expected, Raced, Asked, CallInv, RunInv,
     ServerInv, Discarded, Settled, Late
<1>9. PageTruthful'
  BY <1>1, <1>7 DEF TypeOK, PageTruthful, Expected, Raced, Asked, CallInv, RunInv,
     TabInv, ServerInv, Discarded, Settled, Late
<1>. QED  BY <1>2, <1>3, <1>4, <1>5, <1>6, <1>7, <1>8, <1>9 DEF IInv

LEMMA DonePreserves == \A c \in Starts : IInv /\ Done(c) => IInv'
<1> SUFFICES ASSUME NEW c \in Starts, IInv, Done(c)  PROVE IInv'
  OBVIOUS
<1>1. TypeOK /\ Expected /\ CallInv /\ RunInv /\ ServerInv /\ TabInv /\ NoOrphan /\ PageTruthful
  BY DEF IInv
<1>0. None \notin Starts
  BY DEF None, Starts
<1> USE <1>0 DEF page, calls, network
<1>2. TypeOK'
  BY <1>1 DEF TypeOK, Done
<1>3. Expected'
  BY <1>1 DEF TypeOK, Expected, Raced, Asked, CallInv, RunInv, Done
<1>4. CallInv'
  BY <1>1 DEF TypeOK, CallInv, Done
<1>5. RunInv'
  BY <1>1 DEF TypeOK, Expected, Raced, CallInv, RunInv, Asked, Done
<1>6. ServerInv'
  BY <1>1 DEF TypeOK, ServerInv, CallInv, Done
<1>7. TabInv'
  BY <1>1 DEF TypeOK, TabInv, Asked, CallInv, Done
<1>8. NoOrphan'
  BY <1>1 DEF TypeOK, NoOrphan, Doubled, Expected, Raced, Asked, CallInv, RunInv,
     ServerInv, Done
<1>9. PageTruthful'
  BY <1>1, <1>7 DEF TypeOK, PageTruthful, Expected, Raced, Asked, CallInv, RunInv,
     TabInv, ServerInv, Done
<1>. QED  BY <1>2, <1>3, <1>4, <1>5, <1>6, <1>7, <1>8, <1>9 DEF IInv

LEMMA ServePreserves == \A c \in Starts : IInv /\ Serve(c) => IInv'
<1> SUFFICES ASSUME NEW c \in Starts, IInv, Serve(c)  PROVE IInv'
  OBVIOUS
<1>1. TypeOK /\ Expected /\ CallInv /\ RunInv /\ ServerInv /\ TabInv /\ NoOrphan /\ PageTruthful
  BY DEF IInv
<1>0. None \notin Starts
  BY DEF None, Starts
<1> USE <1>0 DEF page, calls, network
<1>2. TypeOK'
  BY <1>1 DEF TypeOK, Serve
<1>3. Expected'
  <2>1. \A i \in Starts : Asked(i) /\ ~Raced(generation) =>
           /\ (pc'[i] = "post" /\ starting') \/ runId' = i \/ terminal'
           /\ pc'[i] = "post" => ~terminal'
    BY <1>1 DEF TypeOK, Expected, Asked, Serve
  <2>. QED  BY <1>1, <2>1, NoneAsksExpected DEF TypeOK, Serve
<1>4. CallInv'
  BY <1>1 DEF TypeOK, CallInv, Serve
<1>5. RunInv'
  BY <1>1 DEF TypeOK, Expected, Raced, CallInv, RunInv, Asked, Serve
<1>6. ServerInv'
  BY <1>1 DEF TypeOK, ServerInv, CallInv, Serve
<1>7. TabInv'
  BY <1>1 DEF TypeOK, TabInv, Asked, CallInv, Serve
<1>8. NoOrphan'
  BY <1>1 DEF TypeOK, NoOrphan, Doubled, Expected, Raced, Asked, CallInv, RunInv,
     ServerInv, Serve
<1>9. PageTruthful'
  BY <1>1, <1>7 DEF TypeOK, PageTruthful, Expected, Raced, Asked, CallInv, RunInv,
     TabInv, ServerInv, Serve
<1>. QED  BY <1>2, <1>3, <1>4, <1>5, <1>6, <1>7, <1>8, <1>9 DEF IInv

LEMMA ServeStopPreserves == \A c \in Starts : IInv /\ ServeStop(c) => IInv'
<1> SUFFICES ASSUME NEW c \in Starts, IInv, ServeStop(c)  PROVE IInv'
  OBVIOUS
<1>1. TypeOK /\ Expected /\ CallInv /\ RunInv /\ ServerInv /\ TabInv /\ NoOrphan /\ PageTruthful
  BY DEF IInv
<1>0. None \notin Starts
  BY DEF None, Starts
<1> USE <1>0 DEF page, calls, network
<1>2. TypeOK'
  BY <1>1 DEF TypeOK, ServeStop
<1>3. Expected'
  BY <1>1 DEF TypeOK, Expected, Raced, Asked, CallInv, RunInv, ServeStop
<1>4. CallInv'
  BY <1>1 DEF TypeOK, CallInv, ServeStop
<1>5. RunInv'
  BY <1>1 DEF TypeOK, Expected, Raced, CallInv, RunInv, Asked, ServeStop
<1>6. ServerInv'
  BY <1>1 DEF TypeOK, ServerInv, CallInv, ServeStop
<1>7. TabInv'
  BY <1>1 DEF TypeOK, TabInv, Asked, CallInv, ServeStop
<1>8. NoOrphan'
  BY <1>1 DEF TypeOK, NoOrphan, Doubled, Expected, Raced, Asked, CallInv, RunInv,
     ServerInv, ServeStop
<1>9. PageTruthful'
  BY <1>1, <1>7 DEF TypeOK, PageTruthful, Expected, Raced, Asked, CallInv, RunInv,
     TabInv, ServerInv, ServeStop
<1>. QED  BY <1>2, <1>3, <1>4, <1>5, <1>6, <1>7, <1>8, <1>9 DEF IInv

LEMMA LosePreserves == \A c \in Starts : IInv /\ Lose(c) => IInv'
<1> SUFFICES ASSUME NEW c \in Starts, IInv, Lose(c)  PROVE IInv'
  OBVIOUS
<1>1. TypeOK /\ Expected /\ CallInv /\ RunInv /\ ServerInv /\ TabInv /\ NoOrphan /\ PageTruthful
  BY DEF IInv
<1>0. None \notin Starts
  BY DEF None, Starts
<1> USE <1>0 DEF page, calls, network
<1>2. TypeOK'
  BY <1>1 DEF TypeOK, Lose
<1>3. Expected'
  BY <1>1 DEF TypeOK, Expected, Raced, Asked, CallInv, RunInv, Lose
<1>4. CallInv'
  BY <1>1 DEF TypeOK, CallInv, Lose
<1>5. RunInv'
  BY <1>1 DEF TypeOK, Expected, Raced, CallInv, RunInv, Asked, Lose
<1>6. ServerInv'
  BY <1>1 DEF TypeOK, ServerInv, CallInv, Lose
<1>7. TabInv'
  BY <1>1 DEF TypeOK, TabInv, Asked, CallInv, Lose
<1>8. NoOrphan'
  BY <1>1 DEF TypeOK, NoOrphan, Doubled, Expected, Raced, Asked, CallInv, RunInv,
     ServerInv, Lose
<1>9. PageTruthful'
  BY <1>1, <1>7 DEF TypeOK, PageTruthful, Expected, Raced, Asked, CallInv, RunInv,
     TabInv, ServerInv, Lose
<1>. QED  BY <1>2, <1>3, <1>4, <1>5, <1>6, <1>7, <1>8, <1>9 DEF IInv

LEMMA RunEndsPreserves == \A c \in Starts : IInv /\ RunEnds(c) => IInv'
<1> SUFFICES ASSUME NEW c \in Starts, IInv, RunEnds(c)  PROVE IInv'
  OBVIOUS
<1>1. TypeOK /\ Expected /\ CallInv /\ RunInv /\ ServerInv /\ TabInv /\ NoOrphan /\ PageTruthful
  BY DEF IInv
<1>0. None \notin Starts
  BY DEF None, Starts
<1> USE <1>0 DEF page, calls, network
<1>2. TypeOK'
  BY <1>1 DEF TypeOK, RunEnds
<1>3. Expected'
  BY <1>1 DEF TypeOK, Expected, Raced, Asked, CallInv, RunInv, RunEnds
<1>4. CallInv'
  BY <1>1 DEF TypeOK, CallInv, RunEnds
<1>5. RunInv'
  BY <1>1 DEF TypeOK, Expected, Raced, CallInv, RunInv, Asked, RunEnds
<1>6. ServerInv'
  BY <1>1 DEF TypeOK, ServerInv, CallInv, RunEnds
<1>7. TabInv'
  BY <1>1 DEF TypeOK, TabInv, Asked, CallInv, RunEnds
<1>8. NoOrphan'
  BY <1>1 DEF TypeOK, NoOrphan, Doubled, Expected, Raced, Asked, CallInv, RunInv,
     ServerInv, RunEnds
<1>9. PageTruthful'
  BY <1>1, <1>7 DEF TypeOK, PageTruthful, Expected, Raced, Asked, CallInv, RunInv,
     TabInv, ServerInv, RunEnds
<1>. QED  BY <1>2, <1>3, <1>4, <1>5, <1>6, <1>7, <1>8, <1>9 DEF IInv

-----------------------------------------------------------------------------
(* The theorems *)

LEMMA Inductive == IInv /\ [Next]_vars => IInv'
<1> SUFFICES ASSUME IInv, [Next]_vars  PROVE IInv'
  OBVIOUS
<1>1. ASSUME NEW p \in Programs, ChooseTab(p)  PROVE IInv'
  BY <1>1, ChooseTabPreserves
<1>2. ASSUME NEW tab \in tabs, AfterTab(tab)  PROVE IInv'
  BY <1>2, AfterTabPreserves
<1>3. ASSUME NEW i \in Starts, Call(i)  PROVE IInv'
  BY <1>3, PressStartPreserves, PressRestartPreserves, AfterResetPreserves, TakePreserves,
     DiscardPreserves, FailPreserves, DiscardedPreserves DEF Call
<1>4. ASSUME NEW i \in Starts, World(i)  PROVE IInv'
  BY <1>4, DonePreserves, ServePreserves, ServeStopPreserves, LosePreserves,
     RunEndsPreserves
     DEF World
<1>5. CASE UNCHANGED vars
  <2>1. TypeOK' /\ CallInv' /\ RunInv' /\ ServerInv'
    BY <1>5 DEF vars, page, calls, network, IInv, TypeOK, Asked, CallInv, RunInv, ServerInv
  <2>2. Expected' /\ TabInv' /\ NoOrphan' /\ PageTruthful'
    BY <1>5 DEF vars, page, calls, network, IInv, Expected, Raced, Asked, TabInv, NoOrphan,
       Doubled, PageTruthful
  <2>. QED  BY <2>1, <2>2 DEF IInv
<1>. QED  BY <1>1, <1>2, <1>3, <1>4, <1>5, ResetPreserves DEF Next

LEMMA Invariant == Spec => []IInv
<1>. QED  BY InitEstablishes, Inductive, PTL DEF Spec

\* Every variable has its type in every reachable state.
THEOREM PageTypeOK == Spec => []TypeOK
<1>1. IInv => TypeOK
  BY DEF IInv
<1>. QED  BY <1>1, Invariant, PTL

\* However often the visitor presses the buttons and whatever gets lost, start
\* and reset forget a run that goes on only if two calls have asked in its
\* generation, in one of the two cases of Raced; the runs of every other
\* generation are accounted for.
THEOREM RunsAccountedFor == Spec => []NoOrphan
<1>1. IInv => NoOrphan
  BY DEF IInv
<1>. QED  BY <1>1, Invariant, PTL

\* The page is wrong about the end of its run only in a generation of one of the
\* two cases of Raced and about its program only in one in which start has come
\* between a tab and its reset, and is right again with the next reset; its
\* buttons are never disabled unless a request of this generation is under way.
THEOREM PageIsRight == Spec => []PageTruthful
<1>1. IInv => PageTruthful
  BY DEF IInv
<1>. QED  BY <1>1, Invariant, PTL

-----------------------------------------------------------------------------
(* No call waits for nothing *)

\* What a call of start or a tab awaits has been sent.
SentInv ==
    /\ runId # None => pc[runId] = "over"
    /\ \A i \in Starts :
          /\ pc[i] = "post" => request[i] # "none"
          /\ pc[i] = "stop" => stop[i] # "none"
          /\ pc[i] = "reset" => oldRun[i] \in Starts /\ stop[oldRun[i]] # "none"
    /\ \A tab \in tabs : stop[tab.run] # "none"

\* A request is on its way for the call, or the call can go on: its answer is
\* there, or it knows that it will not come.
CanGoOn(i) ==
    /\ pc[i] = "post" => request[i] \in {"sent", "created", "failed"}
    /\ pc[i] = "stop" => stop[i] \in {"sent", "answered", "failed"}
    /\ pc[i] = "reset" => stop[oldRun[i]] \in {"sent", "answered", "failed"}

NoCallStuck ==
    /\ \A i \in Starts : CanGoOn(i)
    /\ \A tab \in tabs : stop[tab.run] \in {"sent", "answered", "failed"}
    /\ starting => \E i \in Starts : pc[i] = "post" /\ request[i] # "none"

LEMMA SentStep == IInv /\ SentInv /\ [Next]_vars => SentInv'
<1> SUFFICES ASSUME IInv, SentInv, [Next]_vars  PROVE SentInv'
  OBVIOUS
<1>0. None \notin Starts /\ TypeOK
  BY DEF None, Starts, IInv
<1> USE <1>0 DEF SentInv, TypeOK, page, calls, network
<1>1. CASE Reset
  BY <1>1 DEF Reset, Clear, HasRun
<1>2. ASSUME NEW p \in Programs, ChooseTab(p)  PROVE SentInv'
  BY <1>2 DEF ChooseTab, Clear, HasRun
<1>3. ASSUME NEW tab \in tabs, AfterTab(tab)  PROVE SentInv'
  BY <1>3 DEF AfterTab
<1>4. ASSUME NEW i \in Starts, PressStart(i)  PROVE SentInv'
  BY <1>4 DEF PressStart, Begin, Fresh
<1>5. ASSUME NEW i \in Starts, PressRestart(i)  PROVE SentInv'
  <2>1. CASE runId = None
    BY <1>5, <2>1 DEF PressRestart, Begin, Clear, HasRun, Fresh
  <2>2. CASE runId # None
    BY <1>5, <2>2 DEF PressRestart, Clear, HasRun, Fresh
  <2>. QED  BY <2>1, <2>2
<1>6. ASSUME NEW i \in Starts, AfterReset(i)  PROVE SentInv'
  BY <1>6 DEF AfterReset, Begin
<1>7. ASSUME NEW i \in Starts, Take(i) \/ Discard(i)  PROVE SentInv'
  BY <1>7 DEF Take, Discard
<1>8. ASSUME NEW i \in Starts, Fail(i) \/ Discarded(i)  PROVE SentInv'
  BY <1>8 DEF Fail, Discarded
<1>9. ASSUME NEW i \in Starts, Done(i) \/ RunEnds(i)  PROVE SentInv'
  BY <1>9 DEF Done, RunEnds
<1>10. ASSUME NEW i \in Starts, Serve(i) \/ ServeStop(i) \/ Lose(i)  PROVE SentInv'
  BY <1>10 DEF Serve, ServeStop, Lose
<1>11. CASE UNCHANGED vars
  BY <1>11 DEF vars
<1>. QED  BY <1>1, <1>2, <1>3, <1>4, <1>5, <1>6, <1>7, <1>8, <1>9, <1>10, <1>11
          DEF Next, Call, World

\* Whatever gets lost and in whatever order start, reset and the tabs are
\* called, what they await is on its way, has come or has failed; buttons are
\* disabled only while a request for a run is.
THEOREM EveryCallGoesOn == Spec => []NoCallStuck
<1>1. Init => SentInv
  BY DEF Init, SentInv, None, Starts
<1>2. IInv /\ SentInv => NoCallStuck
  <2> SUFFICES ASSUME IInv, SentInv  PROVE NoCallStuck
    OBVIOUS
  <2>1. \A i \in Starts : CanGoOn(i)
    BY DEF IInv, TypeOK, SentInv, CanGoOn
  <2>2. ASSUME NEW tab \in tabs  PROVE stop[tab.run] \in {"sent", "answered", "failed"}
    <3>1. tab.run \in Starts
      BY DEF IInv, TypeOK
    <3>. QED  BY <3>1 DEF IInv, TypeOK, SentInv
  <2>3. starting => \E i \in Starts : pc[i] = "post" /\ request[i] # "none"
    BY DEF IInv, RunInv, SentInv
  <2>. QED  BY <2>1, <2>2, <2>3 DEF NoCallStuck
<1>. QED  BY <1>1, <1>2, SentStep, Invariant, PTL DEF Spec
=============================================================================
