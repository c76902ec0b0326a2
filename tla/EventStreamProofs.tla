-------------------------- MODULE EventStreamProofs --------------------------
(***************************************************************************)
(* Proofs about EventStream, for any history, any number of events and any *)
(* number of lost connections.                                             *)
(***************************************************************************)
EXTENDS EventStream, SubsequenceProofs, TLAPS

-----------------------------------------------------------------------------
(* The inductive invariant *)

\* The history is the last events, without a gap.
HistoryInv ==
    /\ Len(events) = IF sequence < Capacity THEN sequence ELSE Capacity
    /\ \A i \in DOMAIN events : events[i] = sequence - Len(events) + i
    /\ ~done => sequence < MaxEvents

Ascends(s) == \A i, j \in DOMAIN s : i < j => s[i] < s[j]

\* The events of s take a page that has seen those up to `from` to the last of
\* s; what is missing has left the history of a run whose last event is newest.
Carries(s, from, newest) ==
    /\ s # <<>>
    /\ Ascends(s)
    /\ \A k \in DOMAIN s : from < s[k] /\ s[k] <= newest
    /\ \A n \in from + 1 .. Last(s) : n \in ToSet(s) \/ n + Capacity <= newest

\* Where the page will be when it has got the first i messages on the wire.
Reached(i) == IF i = 0 THEN lastEventId ELSE Last(wire[i].ids)

\* What the page has, what is on the wire and where the generator is fit
\* together; there is a wire and a generator while there is a connection.
WireInv ==
    /\ \A i \in DOMAIN wire : Carries(wire[i].ids, Reached(i - 1), sequence)
    /\ source \in {"open", "closed"} => after = Reached(Len(wire)) /\ generator # "none"
    /\ source \in {"connecting", "failed"} => wire = <<>> /\ generator = "none"
    /\ source = "closed" => done /\ lastEventId = sequence
    /\ after <= sequence

\* A batch goes on where the generator is, and to the end if it was read after
\* the end.
BatchInv ==
    /\ generator = "send" =>
          /\ batch # <<>> => Carries(batch, after, sequence)
          /\ batchDone => done /\ sequence = IF batch = <<>> THEN after ELSE Last(batch)
    /\ generator = "ended" => done /\ after = sequence

\* The page has seen what its Last-Event-ID says.
LogInv ==
    /\ Ascends(log)
    /\ \A k \in DOMAIN log : log[k] <= lastEventId
    /\ OnlyEvictionLoses
    /\ lastEventId <= sequence

\* The last waveform is with its event, wherever that is.
WaveInv ==
    /\ waves = IF lastWave = 0 THEN {} ELSE {lastWave}
    /\ lastWave <= sequence
    /\ shown <= lastWave
    /\ lastWave \in ToSet(log) => shown = lastWave
    /\ \A i \in DOMAIN wire :
          /\ wire[i].waves \subseteq ToSet(wire[i].ids)
          /\ \E w \in 0 .. lastWave : wire[i].waves \subseteq {w}
          /\ lastWave \in ToSet(wire[i].ids) => wire[i].waves = {lastWave}

IInv == TypeOK /\ HistoryInv /\ WireInv /\ BatchInv /\ LogInv /\ WaveInv

-----------------------------------------------------------------------------
(* Sequences of events *)

LEMMA EmptyFacts ==
    /\ \A S : <<>> \in Seq(S)
    /\ Len(<<>>) = 0 /\ DOMAIN <<>> = {} /\ ToSet(<<>>) = {}
    /\ Ascends(<<>>)
BY DEF ToSet, Ascends

LEMMA IdsNat == Ids \subseteq Nat \ {0}
BY StreamAssumption DEF Ids

LEMMA LastFacts ==
    ASSUME NEW S, NEW s \in Seq(S), s # <<>>
    PROVE  Len(s) \in DOMAIN s /\ Last(s) = s[Len(s)] /\ Last(s) \in S /\ Last(s) \in ToSet(s)
BY DEF Last, ToSet

\* A message stays good while the run goes on.
LEMMA CarriesGrows ==
    ASSUME NEW s \in Seq(Ids), NEW from \in Nat, NEW m \in Nat, NEW n \in Nat, m <= n,
           Carries(s, from, m)
    PROVE  Carries(s, from, n)
<1>1. s # <<>> /\ Ascends(s)
  BY DEF Carries
<1>2. \A k \in DOMAIN s : s[k] \in Nat /\ from < s[k] /\ s[k] <= n
  <2> TAKE k \in DOMAIN s
  <2>1. s[k] \in Ids
    OBVIOUS
  <2>2. from < s[k] /\ s[k] <= m
    BY DEF Carries
  <2>3. s[k] \in Nat
    BY <2>1, IdsNat
  <2>. QED  BY <2>2, <2>3
<1>3. \A k \in from + 1 .. Last(s) : k \in ToSet(s) \/ k + Capacity <= n
  <2>1. Last(s) \in Nat
    BY <1>1, IdsNat, LastFacts
  <2>. QED  BY <2>1, StreamAssumption DEF Carries
<1>. QED  BY <1>1, <1>2, <1>3 DEF Carries

\* An interval of numbers in their order is a message.
LEMMA IntervalCarries ==
    ASSUME NEW s \in Seq(Ids), NEW from \in Nat, NEW low \in Nat, NEW newest \in Nat,
           s # <<>>, \A k \in DOMAIN s : s[k] = low + k,
           from <= low, low + Len(s) = newest,
           low = from \/ low + Capacity <= newest
    PROVE  Carries(s, from, newest) /\ Last(s) = newest
<1>1. Len(s) \in Nat /\ Len(s) >= 1 /\ DOMAIN s = 1 .. Len(s)
  OBVIOUS
<1>2. Last(s) = newest
  BY <1>1 DEF Last
<1>3. Ascends(s)
  BY <1>1 DEF Ascends
<1>4. \A k \in DOMAIN s : from < s[k] /\ s[k] <= newest
  BY <1>1
<1>5. ASSUME NEW n \in from + 1 .. Last(s), n + Capacity > newest
      PROVE  n \in ToSet(s)
  <2>1. n \in Nat /\ low < n /\ n <= newest
    BY <1>2, <1>5, StreamAssumption
  <2>2. n - low \in 1 .. Len(s) /\ low + (n - low) = n
    BY <1>1, <2>1
  <2>3. n - low \in DOMAIN s /\ s[n - low] = n
    BY <1>1, <2>2
  <2>. QED  BY <2>3 DEF ToSet
<1>6. \A n \in from + 1 .. Last(s) : n \in ToSet(s) \/ n + Capacity <= newest
  BY <1>2, <1>5, StreamAssumption
<1>. QED  BY <1>2, <1>3, <1>4, <1>6 DEF Carries

\* What Newer returns: everything after `last` that is still there.
LEMMA NewerFacts ==
    ASSUME TypeOK, HistoryInv, NEW last \in Nat, last <= sequence
    PROVE  /\ Newer(last) \in Seq(Ids)
           /\ Newer(last) = <<>> => last = sequence
           /\ Newer(last) # <<>> =>
                 Carries(Newer(last), last, sequence) /\ Last(Newer(last)) = sequence
<1> DEFINE L == Len(events)
           base == sequence - L
           skip == IF last > base THEN last - base ELSE 0
           places == {i \in DOMAIN events : events[i] > last}
           s == Newer(last)
<1>1. /\ events \in Seq(Ids) /\ sequence \in Nat /\ Capacity \in Nat \ {0}
      /\ L = (IF sequence < Capacity THEN sequence ELSE Capacity)
      /\ \A i \in DOMAIN events : events[i] = base + i
  BY StreamAssumption DEF TypeOK, HistoryInv
<1>2. /\ L \in Nat /\ DOMAIN events = 1 .. L
      /\ base \in Nat /\ base + L = sequence
      /\ skip \in Nat /\ skip <= L
      /\ last <= base + skip /\ (skip > 0 => last = base + skip)
      /\ (base > 0 => L = Capacity)
  BY <1>1
<1>3. places = skip + 1 .. L
  BY <1>1, <1>2
<1> HIDE DEF L, base, skip
<1>4. /\ Newer(last) = At(events, skip + 1 .. L)
      /\ At(events, skip + 1 .. L) \in Seq(Ids)
  <2>1. Newer(last) = At(events, places)
    BY DEF Newer
  <2>2. At(events, places) \in Seq(Ids)
    BY <1>1, AtFacts
  <2> HIDE DEF places
  <2>. QED  BY <1>3, <2>1, <2>2
<1>5. /\ Len(At(events, skip + 1 .. L)) = L - skip
      /\ \A k \in 1 .. L - skip : At(events, skip + 1 .. L)[k] = events[skip + k]
  BY <1>1, <1>2, AtSuffix DEF L
<1>6. /\ s \in Seq(Ids) /\ Len(s) = L - skip /\ DOMAIN s = 1 .. L - skip
      /\ \A k \in 1 .. L - skip : s[k] = events[skip + k]
  <2> HIDE DEF places
  <2>. QED  BY <1>4, <1>5
<1>7. \A k \in DOMAIN s : s[k] = (base + skip) + k
  <2> TAKE k \in DOMAIN s
  <2>1. k \in 1 .. L - skip /\ s[k] = events[skip + k]
    BY <1>6
  <2>2. skip + k \in DOMAIN events
    BY <1>2, <2>1
  <2>3. events[skip + k] = base + (skip + k)
    BY <1>1, <2>2
  <2>. QED  BY <1>2, <2>1, <2>3
<1>8. base + skip + (L - skip) = sequence /\ last <= base + skip
       /\ (last = base + skip \/ base + skip + Capacity <= sequence)
  BY <1>1, <1>2 DEF skip
<1>9. s = <<>> => last = sequence
  BY <1>1, <1>2, <1>6, <1>8
<1>10. s # <<>> => Carries(s, last, sequence) /\ Last(s) = sequence
  <2> HIDE DEF s
  <2> DEFINE low == base + skip
  <2>1. low \in Nat /\ last <= low /\ low + Len(s) = sequence
        /\ (low = last \/ low + Capacity <= sequence)
    BY <1>2, <1>6, <1>8
  <2>2. \A k \in DOMAIN s : s[k] = low + k
    BY <1>7
  <2>3. s \in Seq(Ids) /\ sequence \in Nat
    BY <1>1, <1>6
  <2> HIDE DEF low
  <2>. QED  BY <2>1, <2>2, <2>3, IntervalCarries
<1>. QED  BY <1>6, <1>9, <1>10

-----------------------------------------------------------------------------
(* The steps *)

LEMMA NumberTypes ==
    ASSUME TypeOK
    PROVE  /\ {sequence, after, lastEventId, lastWave, shown} \subseteq Nat
           /\ \A i \in DOMAIN wire :
                 wire[i].ids \in Seq(Ids) /\ wire[i].ids # <<>> /\ wire[i].waves \subseteq Ids
           /\ \A i \in 0 .. Len(wire) : Reached(i) \in Nat
<1>1. {sequence, after, lastEventId, lastWave, shown} \subseteq Nat
  BY StreamAssumption DEF TypeOK
<1>2. ASSUME NEW i \in DOMAIN wire
      PROVE  /\ wire[i].ids \in Seq(Ids) /\ wire[i].ids # <<>> /\ wire[i].waves \subseteq Ids
             /\ Last(wire[i].ids) \in Ids
  <2>1. wire[i] \in Messages
    BY DEF TypeOK
  <2>. QED  BY <2>1, LastFacts DEF Messages
<1>3. ASSUME NEW i \in 0 .. Len(wire) PROVE Reached(i) \in Nat
  <2>1. CASE i = 0
    BY <1>1, <2>1 DEF Reached
  <2>2. CASE i # 0
    <3>1. i \in DOMAIN wire
      BY <2>2 DEF TypeOK
    <3>2. Last(wire[i].ids) \in Nat
      BY <1>2, <3>1, IdsNat
    <3>. QED  BY <2>2, <3>2 DEF Reached
  <2>. QED  BY <2>1, <2>2
<1>. QED  BY <1>1, <1>2, <1>3

LEMMA InitIInv == Init => IInv
<1> SUFFICES ASSUME Init PROVE IInv
  OBVIOUS
<1>0. Capacity \in Nat \ {0} /\ MaxEvents \in Nat \ {0} /\ MaxDrops \in Nat
  BY StreamAssumption
<1>1. TypeOK
  <2>1. wire \in Seq(Messages)
    BY EmptyFacts, Zenon DEF Init
  <2>2. events \in Seq(Ids) /\ batch \in Seq(Ids) /\ log \in Seq(Ids) /\ Len(events) = 0
    BY EmptyFacts DEF Init
  <2>3. /\ sequence \in 0 .. MaxEvents /\ lastWave \in 0 .. MaxEvents
        /\ after \in 0 .. MaxEvents /\ lastEventId \in 0 .. MaxEvents
        /\ shown \in 0 .. MaxEvents /\ drops \in 0 .. MaxDrops /\ Len(events) <= Capacity
    BY <1>0, <2>2 DEF Init
  <2>4. /\ waves \subseteq Ids /\ done \in BOOLEAN /\ known \in BOOLEAN /\ batchDone \in BOOLEAN
        /\ generator \in {"none", "read", "wait", "send", "ended"}
        /\ source \in {"connecting", "open", "closed", "failed"}
    BY DEF Init
  <2>. QED  BY <2>1, <2>2, <2>3, <2>4 DEF TypeOK
<1>2. HistoryInv
  BY <1>0 DEF Init, HistoryInv
<1>3. WireInv /\ BatchInv
  BY DEF Init, WireInv, BatchInv
<1>4. LogInv
  BY EmptyFacts DEF Init, LogInv, OnlyEvictionLoses
<1>5. WaveInv
  BY EmptyFacts DEF Init, WaveInv
<1>. QED  BY <1>1, <1>2, <1>3, <1>4, <1>5 DEF IInv

\* A new event: Emit, or the end of the run.
LEMMA Publishes ==
    ASSUME IInv, ~done, NEW hasWave \in BOOLEAN,
           sequence' = sequence + 1, sequence < MaxEvents,
           done' \in BOOLEAN, done' \/ sequence' < MaxEvents,
           TakeWaveform(sequence', hasWave), Record(sequence'),
           UNCHANGED <<known, genVars, netVars, pageVars>>
    PROVE  IInv'
<1> USE DEF IInv
<1>0. Capacity \in Nat \ {0} /\ MaxEvents \in Nat \ {0}
  BY StreamAssumption
<1>1. /\ sequence \in Nat /\ sequence' \in Nat /\ sequence <= sequence'
      /\ sequence' \in Ids /\ sequence' \in 0 .. MaxEvents
  BY <1>0, NumberTypes DEF Ids
<1>2. events' \in Seq(Ids) /\ Len(events') <= Capacity /\ HistoryInv'
  <2>0. events \in Seq(Ids) /\ Len(events) <= Capacity
        /\ Len(events) = (IF sequence < Capacity THEN sequence ELSE Capacity)
        /\ \A i \in DOMAIN events : events[i] = sequence - Len(events) + i
    BY DEF TypeOK, HistoryInv
  <2>1. CASE Len(events) < Capacity
    <3>1. events' = Append(events, sequence')
      BY <2>1 DEF Record
    <3>2. /\ events' \in Seq(Ids) /\ Len(events') = Len(events) + 1
          /\ \A i \in 1 .. Len(events) : events'[i] = events[i]
          /\ events'[Len(events) + 1] = sequence'
      BY <1>1, <2>0, <3>1
    <3>3. /\ Len(events) \in Nat /\ DOMAIN events = 1 .. Len(events)
          /\ DOMAIN events' = 1 .. Len(events')
      BY <2>0, <3>2
    <3>4. sequence < Capacity /\ Len(events) = sequence
      BY <1>0, <1>1, <2>0, <2>1
    <3>. QED  BY <1>0, <1>1, <2>0, <3>2, <3>3, <3>4 DEF HistoryInv
  <2>2. CASE ~(Len(events) < Capacity)
    <3> DEFINE rest == Tail(events)
    <3>1. events' = Append(rest, sequence')
      BY <2>2 DEF Record
    <3>2. Len(events) = Capacity /\ sequence >= Capacity
      BY <1>0, <1>1, <2>0, <2>2
    <3>3. /\ rest \in Seq(Ids) /\ Len(rest) = Capacity - 1
          /\ \A i \in 1 .. Capacity - 1 : rest[i] = events[i + 1]
      BY <1>0, <2>0, <3>2
    <3>4. \A i \in 1 .. Capacity - 1 : rest[i] = sequence - Capacity + (i + 1)
      <4> TAKE i \in 1 .. Capacity - 1
      <4>1. i + 1 \in DOMAIN events
        BY <1>0, <2>0, <3>2
      <4>. QED  BY <2>0, <3>2, <3>3, <4>1
    <3> HIDE DEF rest
    <3>5. /\ events' \in Seq(Ids) /\ Len(events') = Capacity
          /\ \A i \in 1 .. Capacity - 1 : events'[i] = rest[i]
          /\ events'[Capacity] = sequence'
      BY <1>0, <1>1, <3>1, <3>3
    <3>. QED  BY <1>0, <1>1, <3>2, <3>4, <3>5 DEF HistoryInv
  <2>. QED  BY <2>1, <2>2
<1>3. UNCHANGED <<known, generator, after, batch, batchDone, wire, drops, source,
                  lastEventId, log, shown>>
  BY DEF genVars, netVars, pageVars
<1>4. /\ hasWave => waves' = (waves \ {lastWave}) \cup {sequence'} /\ lastWave' = sequence'
      /\ ~hasWave => waves' = waves /\ lastWave' = lastWave
  BY DEF TakeWaveform
<1>5. TypeOK'
  <2>1. waves' \subseteq Ids /\ lastWave' \in 0 .. MaxEvents
    BY <1>1, <1>4 DEF TypeOK
  <2>. QED  BY <1>1, <1>2, <1>3, <2>1 DEF TypeOK
<1>6. WireInv'
  <2>1. source # "closed"
    BY DEF WireInv
  <2>2. ASSUME NEW i \in DOMAIN wire
        PROVE  Carries(wire[i].ids, Reached(i - 1), sequence')
    <3>1. i - 1 \in 0 .. Len(wire)
      BY DEF TypeOK
    <3>2. Reached(i - 1) \in Nat /\ wire[i].ids \in Seq(Ids)
      BY <3>1, NumberTypes
    <3>3. Carries(wire[i].ids, Reached(i - 1), sequence)
      BY DEF WireInv
    <3>. QED  BY <1>1, <3>2, <3>3, CarriesGrows
  <2>3. after <= sequence'
    BY <1>1, NumberTypes DEF WireInv
  <2>. QED  BY <1>3, <2>1, <2>2, <2>3 DEF WireInv, Reached
<1>7. BatchInv'
  <2>1. generator # "ended" /\ (generator = "send" => ~batchDone)
    BY DEF BatchInv
  <2>2. ASSUME generator = "send", batch # <<>>
        PROVE  Carries(batch, after, sequence')
    <3>1. Carries(batch, after, sequence) /\ batch \in Seq(Ids) /\ after \in Nat
      BY <2>2, NumberTypes DEF BatchInv, TypeOK
    <3>. QED  BY <1>1, <3>1, CarriesGrows
  <2>. QED  BY <1>3, <2>1, <2>2 DEF BatchInv
<1>8. LogInv'
  <2>1. lastEventId \in Nat /\ lastEventId <= sequence'
    BY <1>1, NumberTypes DEF LogInv
  <2>2. ASSUME NEW n \in 1 .. lastEventId, n \notin ToSet(log)
        PROVE  n + Capacity <= sequence'
    <3>1. n + Capacity <= sequence
      BY <2>2 DEF LogInv, OnlyEvictionLoses, Evicted
    <3>. QED  BY <1>0, <1>1, <2>1, <3>1
  <2>. QED  BY <1>3, <2>1, <2>2 DEF LogInv, OnlyEvictionLoses, Evicted
<1>9. WaveInv'
  <2>0. lastWave \in Nat /\ lastWave <= sequence /\ shown \in Nat /\ shown <= lastWave
    BY NumberTypes DEF WaveInv
  <2>1. CASE ~hasWave
    BY <1>1, <1>3, <1>4, <2>0, <2>1 DEF WaveInv
  <2>2. CASE hasWave
    <3>1. waves' = {sequence'} /\ lastWave' = sequence' /\ sequence' # 0
      BY <1>1, <1>4, <2>2 DEF WaveInv
    <3>2. sequence' \notin ToSet(log)
      <4>1. \A k \in DOMAIN log : log[k] \in Nat /\ log[k] <= lastEventId
        <5> TAKE k \in DOMAIN log
        <5>1. log[k] \in Ids
          BY DEF TypeOK
        <5>. QED  BY <5>1, IdsNat DEF LogInv
      <4>2. lastEventId \in Nat /\ lastEventId <= sequence
        BY NumberTypes DEF LogInv
      <4>. QED  BY <1>1, <4>1, <4>2 DEF ToSet
    <3>3. ASSUME NEW i \in DOMAIN wire
          PROVE  /\ sequence' \notin ToSet(wire[i].ids)
                 /\ wire[i].waves \subseteq ToSet(wire[i].ids)
                 /\ \E w \in 0 .. sequence' : wire[i].waves \subseteq {w}
      <4>1. \A k \in DOMAIN wire[i].ids : wire[i].ids[k] <= sequence
        BY DEF WireInv, Carries
      <4>2. sequence' \notin ToSet(wire[i].ids)
        BY <1>1, <4>1 DEF ToSet
      <4>3. PICK w \in 0 .. lastWave : wire[i].waves \subseteq {w}
        BY DEF WaveInv
      <4>4. w \in 0 .. sequence'
        BY <1>1, <2>0
      <4>. QED  BY <4>2, <4>3, <4>4 DEF WaveInv
    <3>. QED  BY <1>1, <1>3, <2>0, <3>1, <3>2, <3>3 DEF WaveInv
  <2>. QED  BY <2>1, <2>2
<1>. QED  BY <1>2, <1>5, <1>6, <1>7, <1>8, <1>9

LEMMA ConnectIInv == IInv /\ Connect => IInv'
<1> SUFFICES ASSUME IInv, Connect PROVE IInv'
  OBVIOUS
<1> USE DEF IInv
<1>1. /\ source = "connecting" /\ source' = "open" /\ generator' = "read"
      /\ after' = lastEventId /\ batch' = <<>> /\ batchDone' = FALSE
      /\ UNCHANGED <<events, sequence, waves, lastWave, done, known, wire, drops,
                     lastEventId, log, shown>>
  BY DEF Connect, runVars, netVars
<1>2. wire = <<>> /\ lastEventId <= sequence
  BY <1>1 DEF WireInv, LogInv
<1>3. TypeOK'
  BY <1>1, EmptyFacts DEF TypeOK
<1>4. WireInv'
  BY <1>1, <1>2 DEF WireInv, Reached
<1>. QED  BY <1>1, <1>3, <1>4
          DEF HistoryInv, BatchInv, LogInv, OnlyEvictionLoses, Evicted, WaveInv

LEMMA ReadIInv == IInv /\ Read => IInv'
<1> SUFFICES ASSUME IInv, Read PROVE IInv'
  OBVIOUS
<1> USE DEF IInv
<1>1. /\ generator = "read" /\ source' = source /\ after' = after
      /\ UNCHANGED <<events, sequence, waves, lastWave, done, known, wire, drops,
                     lastEventId, log, shown>>
  BY DEF Read, runVars, netVars, pageVars
<1>2. /\ Newer(after) \in Seq(Ids)
      /\ Newer(after) = <<>> => after = sequence
      /\ Newer(after) # <<>> =>
            Carries(Newer(after), after, sequence) /\ Last(Newer(after)) = sequence
  BY NewerFacts, NumberTypes DEF WireInv
<1>3. generator' \in {"wait", "send"} /\ batch' \in Seq(Ids) /\ batchDone' \in BOOLEAN
  BY <1>2 DEF Read, TypeOK
<1>4. TypeOK'
  BY <1>1, <1>3 DEF TypeOK
<1>5. WireInv'
  BY <1>1, <1>3 DEF WireInv, Reached
<1>6. BatchInv'
  <2>1. generator' = "send" => batch' = Newer(after) /\ batchDone' = done
    BY DEF Read
  <2> HIDE DEF IInv
  <2>. QED  BY <1>1, <1>2, <1>3, <2>1 DEF BatchInv
<1>. QED  BY <1>1, <1>4, <1>5, <1>6
          DEF HistoryInv, LogInv, OnlyEvictionLoses, Evicted, WaveInv

LEMMA SendIInv == IInv /\ Send => IInv'
<1> SUFFICES ASSUME IInv, Send PROVE IInv'
  OBVIOUS
<1> USE DEF IInv
<1>1. /\ generator = "send" /\ generator' = (IF batchDone THEN "ended" ELSE "read")
      /\ UNCHANGED <<events, sequence, waves, lastWave, done, known, batch, batchDone,
                     drops, source, lastEventId, log, shown>>
  BY DEF Send, runVars, pageVars
<1>2. source \in {"open", "closed"} /\ after = Reached(Len(wire)) /\ wire \in Seq(Messages)
  BY <1>1 DEF WireInv, TypeOK
<1>3. CASE batch = <<>>
  <2>1. after' = after /\ wire' = wire
    BY <1>3 DEF Send, Put
  <2>2. TypeOK'
    BY <1>1, <2>1 DEF TypeOK
  <2>3. WireInv'
    BY <1>1, <2>1 DEF WireInv, Reached
  <2>4. BatchInv'
    BY <1>1, <1>3, <2>1 DEF BatchInv
  <2>. QED  BY <1>1, <2>1, <2>2, <2>3, <2>4
            DEF HistoryInv, LogInv, OnlyEvictionLoses, Evicted, WaveInv
<1>4. CASE batch # <<>>
  <2> DEFINE m == [ids |-> batch, waves |-> waves \cap ToSet(batch)]
             n == Len(wire)
  <2>1. after' = Last(batch) /\ wire' = Append(wire, m)
    BY <1>4 DEF Send, Put
  <2>2. batch \in Seq(Ids) /\ Carries(batch, after, sequence) /\ Last(batch) \in Ids
        /\ Last(batch) <= sequence
    <3>1. batch \in Seq(Ids) /\ Carries(batch, after, sequence)
      BY <1>1, <1>4 DEF BatchInv, TypeOK
    <3>2. Len(batch) \in DOMAIN batch /\ Last(batch) = batch[Len(batch)] /\ Last(batch) \in Ids
      BY <1>4, <3>1, LastFacts
    <3>3. Last(batch) <= sequence
      BY <3>1, <3>2 DEF Carries
    <3>. QED  BY <3>1, <3>2, <3>3
  <2>3. m \in Messages /\ m.ids = batch
        /\ m.waves = waves \cap ToSet(batch)
    BY <1>4, <2>2 DEF TypeOK, Messages
  <2> HIDE DEF m
  <2>4. /\ wire' \in Seq(Messages)
        /\ n \in Nat /\ Len(wire') = n + 1 /\ DOMAIN wire' = 1 .. n + 1
        /\ DOMAIN wire = 1 .. n
        /\ \A i \in 1 .. n : wire'[i] = wire[i]
        /\ wire'[n + 1] = m
    BY <1>2, <2>1, <2>3
  <2> HIDE DEF n
  <2>5. TypeOK'
    <3>1. after' \in 0 .. MaxEvents
      BY <2>1, <2>2, StreamAssumption DEF Ids
    <3>. QED  BY <1>1, <2>4, <3>1 DEF TypeOK
  <2>6. \A i \in 0 .. n : Reached(i)' = Reached(i)
    BY <1>1, <2>4 DEF Reached
  <2>7. WireInv'
    <3>1. ASSUME NEW i \in DOMAIN wire'
          PROVE  Carries(wire'[i].ids, Reached(i - 1)', sequence')
      <4>1. CASE i \in 1 .. n
        <5>1. Carries(wire[i].ids, Reached(i - 1), sequence)
          BY <2>4, <4>1 DEF WireInv
        <5>2. Reached(i - 1)' = Reached(i - 1) /\ wire'[i] = wire[i]
          BY <2>4, <2>6, <4>1
        <5>. QED  BY <1>1, <5>1, <5>2
      <4>2. CASE i = n + 1
        <5>1. i - 1 = n /\ wire'[i].ids = batch
          BY <2>3, <2>4, <4>2
        <5>2. Reached(i - 1)' = Reached(i - 1)
          BY <2>4, <2>6, <5>1
        <5>3. Reached(i - 1) = after
          BY <1>2, <5>1 DEF n
        <5>. QED  BY <1>1, <2>2, <5>1, <5>2, <5>3
      <4>. QED  BY <2>4, <3>1, <4>1, <4>2
    <3>2. after' = Reached(Len(wire))'
      BY <2>1, <2>3, <2>4 DEF Reached
    <3>. QED  BY <1>1, <1>2, <2>1, <2>2, <3>1, <3>2 DEF WireInv
  <2>8. BatchInv'
    BY <1>1, <1>4, <2>1 DEF BatchInv
  <2>9. WaveInv'
    <3>1. ASSUME NEW i \in DOMAIN wire'
          PROVE  /\ wire'[i].waves \subseteq ToSet(wire'[i].ids)
                 /\ \E w \in 0 .. lastWave : wire'[i].waves \subseteq {w}
                 /\ lastWave \in ToSet(wire'[i].ids) => wire'[i].waves = {lastWave}
      <4>1. CASE i \in 1 .. n
        BY <2>4, <4>1 DEF WaveInv
      <4>2. CASE i = n + 1
        <5>1. wire'[i].ids = batch /\ wire'[i].waves = waves \cap ToSet(batch)
          BY <2>3, <2>4, <4>2
        <5>2. lastWave \in ToSet(batch) => lastWave # 0
          BY <2>2, IdsNat DEF ToSet
        <5>3. lastWave \in 0 .. lastWave
          BY NumberTypes
        <5>4. lastWave # 0 => waves = {lastWave}
          BY DEF WaveInv
        <5>5. lastWave = 0 => waves = {}
          BY DEF WaveInv
        <5> DEFINE kept == waves \cap ToSet(batch)
        <5>6. kept \subseteq ToSet(batch) /\ kept \subseteq {lastWave}
          BY <5>4, <5>5
        <5>7. lastWave \in ToSet(batch) => kept = {lastWave}
          BY <5>2, <5>4
        <5>8. wire'[i].ids = batch /\ wire'[i].waves = kept
          BY <5>1
        <5> HIDE DEF kept
        <5>. QED  BY <5>3, <5>6, <5>7, <5>8
      <4>. QED  BY <2>4, <3>1, <4>1, <4>2
    <3>. QED  BY <1>1, <3>1 DEF WaveInv
  <2>. QED  BY <1>1, <2>5, <2>7, <2>8, <2>9
            DEF HistoryInv, LogInv, OnlyEvictionLoses, Evicted
<1>. QED  BY <1>3, <1>4

\* The first message on the wire goes on where the page is.
LEMMA HeadCarries ==
    ASSUME IInv, wire # <<>>
    PROVE  /\ Len(wire) \in Nat \ {0} /\ 1 \in DOMAIN wire /\ Head(wire) = wire[1]
           /\ Head(wire).ids \in Seq(Ids) /\ Head(wire).ids # <<>>
           /\ Carries(Head(wire).ids, lastEventId, sequence)
<1>1. Len(wire) \in Nat \ {0} /\ 1 \in DOMAIN wire /\ Head(wire) = wire[1]
  BY DEF IInv, TypeOK
<1>2. Head(wire).ids \in Seq(Ids) /\ Head(wire).ids # <<>>
  BY <1>1, NumberTypes DEF IInv
<1>3. Reached(1 - 1) = lastEventId
  BY DEF Reached
<1>4. Carries(wire[1].ids, Reached(1 - 1), sequence)
  BY <1>1 DEF IInv, WireInv
<1>. QED  BY <1>1, <1>2, <1>3, <1>4

LEMMA ToSetConcat ==
    ASSUME NEW S, NEW s \in Seq(S), NEW t \in Seq(S)
    PROVE  ToSet(s \o t) = ToSet(s) \cup ToSet(t)
<1> DEFINE u == s \o t
<1>1. /\ Len(s) \in Nat /\ Len(t) \in Nat
      /\ DOMAIN s = 1 .. Len(s) /\ DOMAIN t = 1 .. Len(t) /\ DOMAIN u = 1 .. Len(s) + Len(t)
      /\ \A k \in 1 .. Len(s) : u[k] = s[k]
      /\ \A k \in 1 .. Len(t) : u[Len(s) + k] = t[k]
  OBVIOUS
<1> HIDE DEF u
<1>2. ASSUME NEW k \in DOMAIN u  PROVE u[k] \in ToSet(s) \cup ToSet(t)
  <2>1. CASE k \in 1 .. Len(s)
    BY <1>1, <2>1 DEF ToSet
  <2>2. CASE k \notin 1 .. Len(s)
    <3>1. k - Len(s) \in 1 .. Len(t) /\ Len(s) + (k - Len(s)) = k
      BY <1>1, <1>2, <2>2
    <3>2. u[k] = t[k - Len(s)]
      BY <1>1, <3>1
    <3>. QED  BY <1>1, <3>1, <3>2 DEF ToSet
  <2>. QED  BY <2>1, <2>2
<1>3. ASSUME NEW k \in DOMAIN s  PROVE s[k] \in ToSet(u)
  <2>1. k \in DOMAIN u /\ u[k] = s[k]
    BY <1>1
  <2>. QED  BY <2>1 DEF ToSet
<1>4. ASSUME NEW k \in DOMAIN t  PROVE t[k] \in ToSet(u)
  <2>1. Len(s) + k \in DOMAIN u /\ u[Len(s) + k] = t[k]
    BY <1>1
  <2>. QED  BY <2>1 DEF ToSet
<1>5. ToSet(u) = ToSet(s) \cup ToSet(t)
  BY <1>2, <1>3, <1>4 DEF ToSet
<1>. QED  BY <1>5 DEF u

LEMMA DeliverIInv == IInv /\ Deliver => IInv'
<1> SUFFICES ASSUME IInv, Deliver PROVE IInv'
  OBVIOUS
<1> USE DEF IInv
<1> DEFINE ids == Head(wire).ids
           new == Head(wire).waves
           n == Len(wire)
<1>1. /\ source = "open" /\ wire # <<>>
      /\ wire' = Tail(wire)
      /\ lastEventId' = Last(ids)
      /\ log' = log \o ids
      /\ shown' = IF new = {} THEN shown ELSE Max(new)
      /\ source' = IF done /\ Last(ids) = sequence THEN "closed" ELSE "open"
      /\ UNCHANGED <<events, sequence, waves, lastWave, done, known,
                     generator, after, batch, batchDone, drops>>
  BY DEF Deliver, runVars, genVars
<1>2. /\ n \in Nat \ {0} /\ 1 \in DOMAIN wire /\ Head(wire) = wire[1] /\ DOMAIN wire = 1 .. n
      /\ wire' \in Seq(Messages)
      /\ Len(wire') = n - 1 /\ DOMAIN wire' = 1 .. n - 1
      /\ \A i \in 1 .. n - 1 : wire'[i] = wire[i + 1]
  BY <1>1 DEF TypeOK
<1>3. ids \in Seq(Ids) /\ ids # <<>> /\ new \subseteq Ids /\ ids = wire[1].ids /\ new = wire[1].waves
  BY <1>2, NumberTypes
<1>4. Carries(ids, lastEventId, sequence)
  BY <1>1, HeadCarries
<1>5. /\ new \subseteq ToSet(ids)
      /\ \E w \in 0 .. lastWave : new \subseteq {w}
      /\ lastWave \in ToSet(ids) => new = {lastWave}
  BY <1>2, <1>3 DEF WaveInv
<1>6. /\ Len(ids) \in DOMAIN ids /\ Last(ids) = ids[Len(ids)] /\ Last(ids) \in Ids
      /\ Last(ids) \in Nat /\ lastEventId < Last(ids) /\ Last(ids) <= sequence
      /\ \A k \in DOMAIN ids : ids[k] \in Nat /\ lastEventId < ids[k] /\ ids[k] <= Last(ids)
  <2>1. Len(ids) \in DOMAIN ids /\ Last(ids) = ids[Len(ids)] /\ Last(ids) \in Ids
    BY <1>3, LastFacts
  <2>2. Last(ids) \in Nat /\ lastEventId < Last(ids) /\ Last(ids) <= sequence
    BY <1>4, <2>1, IdsNat DEF Carries
  <2>3. ASSUME NEW k \in DOMAIN ids
        PROVE  ids[k] \in Nat /\ lastEventId < ids[k] /\ ids[k] <= Last(ids)
    <3>1. ids[k] \in Ids /\ k \in 1 .. Len(ids)
      BY <1>3
    <3>2. ids[k] \in Nat /\ lastEventId < ids[k]
      BY <1>4, <3>1, IdsNat DEF Carries
    <3>3. k < Len(ids) => ids[k] < ids[Len(ids)]
      BY <1>4, <2>1 DEF Carries, Ascends
    <3>. QED  BY <2>1, <2>2, <3>1, <3>2, <3>3
  <2>. QED  BY <2>1, <2>2, <2>3
<1> HIDE DEF ids, new, n
<1>7. /\ log' \in Seq(Ids) /\ Len(log') = Len(log) + Len(ids) /\ Len(log) \in Nat
      /\ Len(ids) \in Nat
      /\ DOMAIN log = 1 .. Len(log) /\ DOMAIN ids = 1 .. Len(ids)
      /\ DOMAIN log' = 1 .. Len(log) + Len(ids)
      /\ \A k \in 1 .. Len(log) : log'[k] = log[k]
      /\ \A k \in 1 .. Len(ids) : log'[Len(log) + k] = ids[k]
  <2>1. log \in Seq(Ids)
    BY DEF TypeOK
  <2>. QED  BY <1>1, <1>3, <2>1
<1>8. \A k \in DOMAIN log : log[k] \in Nat /\ log[k] <= lastEventId
  <2> TAKE k \in DOMAIN log
  <2>1. log[k] \in Ids
    BY DEF TypeOK
  <2>. QED  BY <2>1, IdsNat DEF LogInv
<1>9. lastEventId \in Nat /\ lastWave \in Nat /\ shown \in Nat /\ sequence \in Nat
  BY NumberTypes
<1>10. shown' \in Nat /\ shown' <= lastWave
       /\ (new # {} => shown' \in new /\ new = {shown'})
  <2>1. CASE new = {}
    BY <1>1, <1>9, <2>1 DEF WaveInv
  <2>2. CASE new # {}
    <3>1. PICK w \in 0 .. lastWave : new = {w}
      BY <1>5, <2>2
    <3>2. Max({w}) = w
      BY <1>9 DEF Max
    <3>3. shown' = w
      BY <1>1, <2>2, <3>1, <3>2
    <3>. QED  BY <1>9, <3>1, <3>3
  <2>. QED  BY <2>1, <2>2
<1>11. ToSet(log') = ToSet(log) \cup ToSet(ids)
  BY <1>1, <1>3, ToSetConcat DEF TypeOK
<1>12. LogInv'
  <2>1. ASSUME NEW i \in DOMAIN log', NEW j \in DOMAIN log', i < j
        PROVE  log'[i] < log'[j]
    <3>0. i \in Nat /\ j \in Nat /\ i <= Len(log) + Len(ids) /\ j <= Len(log) + Len(ids) /\ 1 <= i
      BY <1>7
    <3>1. CASE j <= Len(log)
      <4>1. i \in DOMAIN log /\ j \in DOMAIN log /\ log'[i] = log[i] /\ log'[j] = log[j]
        BY <1>7, <2>1, <3>0, <3>1
      <4>. QED  BY <2>1, <4>1 DEF LogInv, Ascends
    <3>2. CASE i <= Len(log) /\ j > Len(log)
      <4>1. i \in DOMAIN log /\ log'[i] = log[i]
        BY <1>7, <3>0, <3>2
      <4>2. j - Len(log) \in 1 .. Len(ids) /\ Len(log) + (j - Len(log)) = j
        BY <1>7, <3>0, <3>2
      <4>3. log'[j] = ids[j - Len(log)] /\ j - Len(log) \in DOMAIN ids
        BY <1>7, <4>2
      <4>. QED  BY <1>6, <1>8, <1>9, <4>1, <4>3
    <3>3. CASE i > Len(log)
      <4>0. Len(log) \in Nat /\ Len(ids) \in Nat /\ j > Len(log)
        BY <1>7, <2>1, <3>0, <3>3
      <4>1. i - Len(log) \in 1 .. Len(ids) /\ Len(log) + (i - Len(log)) = i
            /\ j - Len(log) \in 1 .. Len(ids) /\ Len(log) + (j - Len(log)) = j
            /\ i - Len(log) < j - Len(log)
        BY <2>1, <3>0, <3>3, <4>0
      <4>2. log'[i] = ids[i - Len(log)] /\ log'[j] = ids[j - Len(log)]
        BY <1>7, <4>1
      <4>3. Ascends(ids)
        BY <1>4 DEF Carries
      <4>. QED  BY <1>7, <4>1, <4>2, <4>3 DEF Ascends
    <3>. QED  BY <1>7, <3>0, <3>1, <3>2, <3>3
  <2>2. ASSUME NEW k \in DOMAIN log' PROVE log'[k] <= Last(ids)
    <3>1. log'[k] \in ToSet(log) \cup ToSet(ids)
      BY <1>11 DEF ToSet
    <3>. QED  BY <1>6, <1>8, <1>9, <3>1 DEF ToSet
  <2>3. ASSUME NEW m \in 1 .. Last(ids), m \notin ToSet(log')
        PROVE  m + Capacity <= sequence
    <3>1. CASE m <= lastEventId
      BY <1>6, <1>9, <1>11, <2>3, <3>1 DEF LogInv, OnlyEvictionLoses, Evicted
    <3>2. CASE m > lastEventId
      <4>1. m \in lastEventId + 1 .. Last(ids) /\ m \notin ToSet(ids)
        BY <1>6, <1>9, <1>11, <2>3, <3>2
      <4>. QED  BY <1>4, <4>1 DEF Carries
    <3>. QED  BY <1>6, <1>9, <3>1, <3>2
  <2>. QED  BY <1>1, <1>6, <2>1, <2>2, <2>3 DEF LogInv, Ascends, OnlyEvictionLoses, Evicted
<1>13. TypeOK'
  <2>1. lastEventId' \in 0 .. MaxEvents /\ shown' \in 0 .. MaxEvents
    <3>1. MaxEvents \in Nat /\ lastWave <= MaxEvents /\ sequence <= MaxEvents
      BY StreamAssumption DEF TypeOK
    <3>. QED  BY <1>1, <1>6, <1>9, <1>10, <3>1
  <2>. QED  BY <1>1, <1>2, <1>7, <2>1 DEF TypeOK
<1>14. \A i \in 0 .. n - 1 : Reached(i)' = Reached(i + 1)
  <2> TAKE i \in 0 .. n - 1
  <2>1. CASE i = 0
    BY <1>1, <1>3, <2>1 DEF Reached
  <2>2. CASE i # 0
    <3>1. i \in 1 .. n - 1 /\ i + 1 # 0
      BY <1>2, <2>2
    <3>2. wire'[i] = wire[i + 1]
      BY <1>2, <3>1
    <3>. QED  BY <2>2, <3>1, <3>2 DEF Reached
  <2>. QED  BY <2>1, <2>2
<1>15. WireInv'
  <2>1. ASSUME NEW i \in DOMAIN wire'
        PROVE  Carries(wire'[i].ids, Reached(i - 1)', sequence)
    <3>1. i + 1 \in DOMAIN wire /\ wire'[i] = wire[i + 1] /\ i - 1 \in 0 .. n - 1
          /\ (i + 1) - 1 = i /\ (i - 1) + 1 = i
      BY <1>2
    <3>2. Reached(i - 1)' = Reached((i - 1) + 1)
      BY <1>14, <3>1
    <3>3. Carries(wire[i + 1].ids, Reached((i + 1) - 1), sequence)
      BY <3>1 DEF WireInv
    <3>. QED  BY <3>1, <3>2, <3>3
  <2>2. after' = Reached(Len(wire))'
    <3>1. after = Reached(n)
      BY <1>1 DEF WireInv, n
    <3>2. PICK m \in 0 .. n - 1 : m = n - 1 /\ m = Len(wire') /\ m + 1 = n
      BY <1>2
    <3>3. Reached(m)' = Reached(n)
      BY <1>14, <3>2
    <3>4. Reached(Len(wire))' = Reached(m)'
      BY <3>2 DEF Reached
    <3>. QED  BY <1>1, <3>1, <3>3, <3>4
  <2>. QED  BY <1>1, <2>1, <2>2 DEF WireInv
<1>16. WaveInv'
  <2>1. ASSUME lastWave \in ToSet(log') PROVE shown' = lastWave
    <3>1. CASE lastWave \in ToSet(ids)
      BY <1>5, <1>10, <3>1
    <3>2. CASE lastWave \notin ToSet(ids)
      <4>1. lastWave \in ToSet(log)
        BY <1>11, <2>1, <3>2
      <4>2. lastWave <= lastEventId
        BY <1>8, <4>1 DEF ToSet
      <4>3. ASSUME new # {} PROVE FALSE
        <5>1. shown' \in ToSet(ids)
          BY <1>5, <1>10, <4>3
        <5>2. lastEventId < shown'
          BY <1>6, <5>1 DEF ToSet
        <5>. QED  BY <1>9, <1>10, <4>2, <5>2
      <4>. QED  BY <1>1, <4>1, <4>3 DEF WaveInv
    <3>. QED  BY <3>1, <3>2
  <2>2. ASSUME NEW i \in DOMAIN wire'
        PROVE  i + 1 \in DOMAIN wire /\ wire'[i] = wire[i + 1]
    BY <1>2
  <2>. QED  BY <1>1, <1>10, <2>1, <2>2 DEF WaveInv
<1>17. HistoryInv' /\ BatchInv'
  BY <1>1 DEF HistoryInv, BatchInv
<1>. QED  BY <1>12, <1>13, <1>15, <1>16, <1>17

LEMMA NextIInv == IInv /\ [Next]_vars => IInv'
<1> SUFFICES ASSUME IInv, [Next]_vars PROVE IInv'
  OBVIOUS
<1> USE DEF IInv
<1>1. CASE Emit
  <2>1. PICK hasWave \in BOOLEAN : TakeWaveform(sequence', hasWave) /\ Record(sequence')
    BY <1>1 DEF Emit
  <2>2. sequence' = sequence + 1
    BY <1>1 DEF Emit
  <2>3. sequence < MaxEvents /\ sequence' < MaxEvents
    BY <1>1, <2>2, StreamAssumption DEF Emit, TypeOK
  <2>4. ~done /\ done' = done /\ UNCHANGED <<known, genVars, netVars, pageVars>>
    BY <1>1 DEF Emit
  <2>5. done' \in BOOLEAN
    BY <2>4 DEF TypeOK
  <2>. QED  BY <2>1, <2>2, <2>3, <2>4, <2>5, Publishes
<1>2. CASE EmitDone
  <2>1. /\ ~done /\ sequence' = sequence + 1 /\ done' = TRUE
        /\ TakeWaveform(sequence', FALSE) /\ Record(sequence')
        /\ UNCHANGED <<known, genVars, netVars, pageVars>>
    BY <1>2 DEF EmitDone
  <2>2. sequence < MaxEvents
    BY <2>1 DEF HistoryInv
  <2>. QED  BY <2>1, <2>2, Publishes
<1>3. CASE Forget
  BY <1>3 DEF Forget, genVars, netVars, pageVars, TypeOK, HistoryInv, WireInv, Reached,
              BatchInv, LogInv, OnlyEvictionLoses, Evicted, WaveInv
<1>4. CASE Connect
  BY <1>4, ConnectIInv
<1>5. CASE ConnectRefused
  BY <1>5 DEF ConnectRefused, runVars, genVars, netVars, TypeOK, HistoryInv, WireInv, Reached,
              BatchInv, LogInv, OnlyEvictionLoses, Evicted, WaveInv
<1>6. CASE Read
  BY <1>6, ReadIInv
<1>7. CASE Wake
  BY <1>7 DEF Wake, runVars, netVars, pageVars, TypeOK, HistoryInv, WireInv, Reached,
              BatchInv, LogInv, OnlyEvictionLoses, Evicted, WaveInv
<1>8. CASE Send
  BY <1>8, SendIInv
<1>9. CASE Deliver
  BY <1>9, DeliverIInv
<1>10. CASE Drop
  <2>1. /\ drops' = drops + 1 /\ drops < MaxDrops
        /\ source' = "connecting" /\ wire' = <<>> /\ generator' = "none"
        /\ UNCHANGED <<after, batch, batchDone, events, sequence, waves, lastWave, done, known,
                       lastEventId, log, shown>>
    BY <1>10 DEF Drop, runVars
  <2>2. TypeOK'
    <3>1. wire' \in Seq(Messages)
      BY <2>1, EmptyFacts, Zenon
    <3>2. drops' \in 0 .. MaxDrops
      BY <2>1, StreamAssumption DEF TypeOK
    <3>. QED  BY <2>1, <3>1, <3>2 DEF TypeOK
  <2>3. WireInv' /\ WaveInv'
    BY <2>1, EmptyFacts DEF WireInv, WaveInv
  <2>. QED  BY <2>1, <2>2, <2>3
            DEF HistoryInv, BatchInv, LogInv, OnlyEvictionLoses, Evicted
<1>11. CASE UNCHANGED vars
  <2>1. UNCHANGED <<events, sequence, waves, lastWave, done, known, generator, after, batch,
                    batchDone, wire, drops, source, lastEventId, log, shown>>
    BY <1>11 DEF vars, runVars, genVars, netVars, pageVars
  <2>2. TypeOK' /\ HistoryInv'
    BY <2>1 DEF TypeOK, HistoryInv
  <2>3. WireInv' /\ BatchInv'
    BY <2>1 DEF WireInv, Reached, BatchInv
  <2>4. LogInv' /\ WaveInv'
    BY <2>1 DEF LogInv, OnlyEvictionLoses, Evicted, WaveInv
  <2>. QED  BY <2>2, <2>3, <2>4
<1> HIDE DEF IInv
<1>12. \/ Emit \/ EmitDone \/ Forget \/ Connect \/ ConnectRefused \/ Read \/ Wake \/ Send
       \/ Deliver \/ Drop \/ UNCHANGED vars
  BY Zenon DEF Next, Generator, Page, Terminated
<1>. QED  BY <1>1, <1>2, <1>3, <1>4, <1>5, <1>6, <1>7, <1>8, <1>9, <1>10, <1>11, <1>12, Zenon

-----------------------------------------------------------------------------
(* The theorems *)

\* Every variable has its type.
THEOREM TypeCorrect == Spec => []TypeOK
<1>1. IInv => TypeOK
  BY DEF IInv
<1>. QED  BY <1>1, InitIInv, NextIInv, PTL DEF Spec

\* The page sees no event twice and none late.
THEOREM SeenInOrder == Spec => []InOrderOnce
<1>1. IInv => InOrderOnce
  BY DEF IInv, LogInv, Ascends, InOrderOnce
<1>. QED  BY <1>1, InitIInv, NextIInv, PTL DEF Spec

\* The page misses no event but those that had left the history.
THEOREM LostByEvictionOnly == Spec => []OnlyEvictionLoses
<1>1. IInv => OnlyEvictionLoses
  BY DEF IInv, LogInv
<1>. QED  BY <1>1, InitIInv, NextIInv, PTL DEF Spec

\* A generator that has returned has sent everything.
THEOREM EndsWithAll == Spec => []EndsComplete
<1>1. IInv => EndsComplete
  BY DEF IInv, BatchInv, EndsComplete
<1>. QED  BY <1>1, InitIInv, NextIInv, PTL DEF Spec

\* A page that has closed its stream shows the last waveform of the run.
THEOREM ShowsFinalWaveform == Spec => []FinalWaveform
<1>1. ASSUME IInv, source = "closed" PROVE shown = lastWave \/ Evicted(lastWave)
  <2>1. lastEventId = sequence /\ lastWave \in Nat /\ shown \in Nat
        /\ lastWave <= sequence /\ shown <= lastWave
    BY <1>1, NumberTypes DEF IInv, WireInv, WaveInv
  <2>2. CASE lastWave = 0
    BY <2>1, <2>2
  <2>3. CASE lastWave # 0
    <3>1. lastWave \in 1 .. lastEventId
      BY <2>1, <2>3
    <3>. QED  BY <1>1, <3>1 DEF IInv, LogInv, OnlyEvictionLoses, WaveInv
  <2>. QED  BY <2>2, <2>3
<1>2. IInv => FinalWaveform
  BY <1>1 DEF FinalWaveform
<1>. QED  BY <1>2, InitIInv, NextIInv, PTL DEF Spec

-----------------------------------------------------------------------------
(* The stream keeps its promise *)

\* Steps the page does not see.
Unseen == UNCHANGED <<sequence, done, known, log, lastEventId, PageKnows>>

LEMMA UnseenStutters == ASSUME Unseen PROVE UNCHANGED Contract!vars
BY DEF Unseen, Contract!vars

LEMMA NoneSeen == ToSet(<<>>) = {}
BY DEF ToSet

LEMMA PromiseInitially == Init => Contract!Init
BY NoneSeen DEF Init, Contract!Init, PageKnows

\* A message that is taken from the wire is a block the page may learn.
LEMMA DeliverLearns == ASSUME IInv, Deliver PROVE Contract!Learn
<1> DEFINE ids == Head(wire).ids
           block == ToSet(ids)
           last == Last(ids)
<1>1. /\ source = "open" /\ wire # <<>>
      /\ lastEventId' = last
      /\ log' = log \o ids
      /\ source' = IF done /\ last = sequence THEN "closed" ELSE "open"
      /\ UNCHANGED <<sequence, done, known>>
  BY DEF Deliver, runVars
<1>2. /\ ids \in Seq(Ids) /\ ids # <<>> /\ Carries(ids, lastEventId, sequence)
  BY <1>1, HeadCarries
<1>3. /\ sequence \in Nat /\ lastEventId \in Nat /\ log \in Seq(Ids)
      /\ Capacity \in Nat \ {0}
  BY StreamAssumption, NumberTypes DEF IInv, TypeOK
<1> HIDE DEF ids
<1>4. /\ last \in block /\ last \in Nat
      /\ Len(ids) \in DOMAIN ids /\ last = ids[Len(ids)]
  BY <1>2, LastFacts, IdsNat
<1>5. \A k \in DOMAIN ids : ids[k] \in lastEventId + 1 .. sequence /\ ids[k] <= last
  <2> TAKE k \in DOMAIN ids
  <2>1. ids[k] \in Nat /\ lastEventId < ids[k] /\ ids[k] <= sequence
    <3>1. ids[k] \in Ids
      BY <1>2
    <3>. QED  BY <1>2, <3>1, IdsNat DEF Carries
  <2>2. k = Len(ids) \/ k < Len(ids)
    BY <1>2
  <2>3. k < Len(ids) => ids[k] < ids[Len(ids)]
    BY <1>2, <1>4 DEF Carries, Ascends
  <2>. QED  BY <1>3, <1>4, <2>1, <2>2, <2>3
<1>6. \A n \in block : n \in lastEventId + 1 .. sequence /\ n <= last
  BY <1>5 DEF ToSet
<1>7. \A n \in lastEventId + 1 .. last : Contract!Kept(n) => n \in block
  <2>1. \A n \in lastEventId + 1 .. last : n \in block \/ n + Capacity <= sequence
    BY <1>2 DEF Carries
  <2>. QED  BY <1>3, <1>4, <2>1 DEF Contract!Kept
<1>8. ToSet(log') = ToSet(log) \cup block
  BY <1>1, <1>2, <1>3, ToSetConcat
<1>9. PageKnows = "expects" /\ PageKnows' = IF done /\ last = sequence THEN "complete" ELSE "expects"
  BY <1>1 DEF PageKnows
<1>10. last \in lastEventId + 1 .. sequence /\ block \in SUBSET (lastEventId + 1 .. sequence)
  BY <1>4, <1>6
<1> HIDE DEF block, last
<1>. QED  BY <1>1, <1>4, <1>6, <1>7, <1>8, <1>9, <1>10 DEF Contract!Learn

LEMMA StepKeepsPromise ==
    ASSUME IInv, [Next]_vars
    PROVE  Contract!Next \/ UNCHANGED Contract!vars
<1>1. CASE Emit \/ EmitDone
  <2>1. /\ ~done /\ sequence' = sequence + 1 /\ sequence < MaxEvents
        /\ done' \in BOOLEAN /\ (done' \/ sequence' < MaxEvents)
    <3>1. CASE Emit
      BY <3>1, StreamAssumption DEF Emit, IInv, TypeOK
    <3>2. CASE EmitDone
      BY <3>2 DEF EmitDone, IInv, HistoryInv
    <3>. QED  BY <1>1, <3>1, <3>2
  <2>2. UNCHANGED <<known, log, lastEventId, PageKnows>>
    BY <1>1 DEF Emit, EmitDone, pageVars, PageKnows
  <2>3. Contract!Publish
    BY <2>1, <2>2 DEF Contract!Publish
  <2>. QED  BY <2>3 DEF Contract!Next
<1>2. CASE Forget
  <2>1. /\ done /\ known' = FALSE /\ UNCHANGED <<sequence, done, log, lastEventId, PageKnows>>
    BY <1>2 DEF Forget, pageVars, PageKnows
  <2>2. Contract!Forget
    BY <2>1 DEF Contract!Forget
  <2>. QED  BY <2>2 DEF Contract!Next
<1>3. CASE Deliver
  BY <1>3, DeliverLearns DEF Contract!Next
<1>4. CASE ConnectRefused
  <2>1. /\ PageKnows = "expects" /\ PageKnows' = "lost" /\ ~known
        /\ UNCHANGED <<sequence, done, known, log, lastEventId>>
    BY <1>4 DEF ConnectRefused, runVars, PageKnows
  <2>2. Contract!Lose
    BY <2>1 DEF Contract!Lose
  <2>. QED  BY <2>2 DEF Contract!Next
<1>5. CASE Connect \/ Drop
  <2>1. Unseen
    BY <1>5 DEF Connect, Drop, runVars, Unseen, PageKnows
  <2>. QED  BY <2>1, UnseenStutters
<1>6. CASE Generator
  <2>1. UNCHANGED <<runVars, pageVars>>
    BY <1>6 DEF Generator, Read, Wake, Send
  <2>2. Unseen
    BY <2>1 DEF runVars, pageVars, Unseen, PageKnows
  <2>. QED  BY <2>2, UnseenStutters
<1>7. CASE UNCHANGED vars
  <2>1. Unseen
    BY <1>7 DEF vars, runVars, pageVars, Unseen, PageKnows
  <2>. QED  BY <2>1, UnseenStutters
<1>8. \/ Emit \/ EmitDone \/ Forget \/ Connect \/ ConnectRefused \/ Deliver \/ Drop
      \/ Generator \/ UNCHANGED vars
  BY Zenon DEF Next, Page, Terminated
<1>. QED  BY <1>1, <1>2, <1>3, <1>4, <1>5, <1>6, <1>7, <1>8, Zenon

\* The history, the generators and the connections together behave as
\* StreamContract says: the page gets blocks of events, each newer than all
\* before it and without a gap but for evicted events.
THEOREM KeepsContract == Spec => StreamSpec
<1>1. IInv /\ [Next]_vars => [Contract!Next]_(Contract!vars)
  BY StepKeepsPromise
<1>. QED  BY <1>1, PromiseInitially, InitIInv, NextIInv, PTL
          DEF Spec, StreamSpec, Contract!Spec

\* What the promise says about its own variables.
PromiseInv ==
    /\ sequence \in Nat /\ lastEventId \in Nat /\ ToSet(log) \subseteq Nat
    /\ done \in BOOLEAN /\ known \in BOOLEAN
    /\ PageKnows \in {"expects", "complete", "lost"}
    /\ known \/ done
    /\ Contract!Informed

LEMMA PromiseStep ==
    ASSUME PromiseInv, [Contract!Next]_(Contract!vars)
    PROVE  PromiseInv' /\ [Contract!Later]_(Contract!vars)
<1> USE DEF PromiseInv, Contract!Informed, Contract!Later, Contract!Kept
<1>0. Capacity \in Nat \ {0} /\ MaxEvents \in Nat
  BY StreamAssumption
<1>1. CASE Contract!Publish
  <2>1. /\ ~done /\ sequence' = sequence + 1 /\ done' \in BOOLEAN
        /\ UNCHANGED <<known, ToSet(log), lastEventId, PageKnows>>
    BY <1>1 DEF Contract!Publish
  <2>2. PageKnows = "expects" /\ known /\ known'
    BY <2>1
  <2>3. \A n \in 1 .. lastEventId : Contract!Kept(n)' => Contract!Kept(n)
    BY <1>0, <2>1
  <2>4. PromiseInv'
    BY <2>1, <2>2, <2>3
  <2>5. ToSet(log) \cap (1 .. lastEventId) = ToSet(log)
    OBVIOUS
  <2>. QED  BY <2>1, <2>2, <2>4, <2>5
<1>2. CASE Contract!Forget
  <2>1. /\ done /\ known' = FALSE
        /\ UNCHANGED <<sequence, done, ToSet(log), lastEventId, PageKnows>>
    BY <1>2 DEF Contract!Forget
  <2>2. PromiseInv'
    BY <2>1
  <2>3. ToSet(log) \cap (1 .. lastEventId) = ToSet(log)
    OBVIOUS
  <2>. QED  BY <2>1, <2>2, <2>3
<1>3. CASE Contract!Learn
  <2>1. PICK last \in lastEventId + 1 .. sequence,
             block \in SUBSET (lastEventId + 1 .. sequence) :
               /\ last \in block
               /\ \A n \in block : n <= last
               /\ \A n \in lastEventId + 1 .. last : Contract!Kept(n) => n \in block
               /\ ToSet(log)' = ToSet(log) \cup block
               /\ lastEventId' = last
               /\ PageKnows' = IF done /\ last = sequence THEN "complete" ELSE "expects"
    BY <1>3 DEF Contract!Learn
  <2>2. PageKnows = "expects" /\ UNCHANGED <<sequence, done, known>>
    BY <1>3 DEF Contract!Learn
  <2>3. last \in Nat /\ lastEventId < last /\ last <= sequence
    BY <2>1
  <2>4. ToSet(log)' \subseteq 1 .. last
    <3>1. ToSet(log) \subseteq 1 .. last
      BY <2>3
    <3>2. block \subseteq 1 .. last
      BY <2>1, <2>3
    <3>. QED  BY <2>1, <3>1, <3>2
  <2>5. \A n \in 1 .. last : Contract!Kept(n) => n \in ToSet(log)'
    BY <1>0, <2>1, <2>3
  <2>6. ToSet(log)' \cap (1 .. lastEventId) = ToSet(log)
    BY <2>1, <2>3
  <2>7. PromiseInv'
    BY <1>0, <2>1, <2>2, <2>3, <2>4, <2>5
  <2>. QED  BY <2>1, <2>2, <2>3, <2>6, <2>7
<1>4. CASE Contract!Lose
  <2>1. /\ PageKnows = "expects" /\ ~known /\ PageKnows' = "lost"
        /\ UNCHANGED <<sequence, done, known, ToSet(log), lastEventId>>
    BY <1>4 DEF Contract!Lose
  <2>. QED  BY <1>0, <2>1
<1>5. CASE UNCHANGED Contract!vars
  <2>1. UNCHANGED <<sequence, done, known, ToSet(log), lastEventId, PageKnows>>
    BY <1>5 DEF Contract!vars
  <2>2. PromiseInv'
    BY <2>1
  <2>. QED  BY <1>5, <2>2
<1>. QED  BY <1>1, <1>2, <1>3, <1>4, <1>5 DEF Contract!Next

LEMMA PromiseHolds == StreamSpec => []PromiseInv /\ Contract!NothingLate
<1>1. Contract!Init => PromiseInv
  <2> SUFFICES ASSUME Contract!Init PROVE PromiseInv
    OBVIOUS
  <2>1. /\ sequence = 0 /\ done = FALSE /\ known = TRUE /\ ToSet(log) = {}
        /\ lastEventId = 0 /\ PageKnows = "expects"
    BY DEF Contract!Init
  <2>2. ToSet(log) \subseteq 1 .. lastEventId /\ \A n \in 1 .. lastEventId : n \in ToSet(log)
    BY <2>1
  <2>3. Contract!Informed
    BY <2>1, <2>2 DEF Contract!Informed
  <2>. QED  BY <2>1, <2>3 DEF PromiseInv
<1>2. PromiseInv /\ [Contract!Next]_(Contract!vars)
        => PromiseInv' /\ [Contract!Later]_(Contract!vars)
  BY PromiseStep
<1>. QED  BY <1>1, <1>2, PTL DEF StreamSpec, Contract!Spec, Contract!NothingLate

\* In every program that keeps StreamContract the page misses only events that
\* are too old, has all when it is complete and gets nothing late.
THEOREM PromiseInforms == StreamSpec => []Contract!Informed /\ Contract!NothingLate
<1>1. PromiseInv => Contract!Informed
  BY DEF PromiseInv
<1>. QED  BY <1>1, PromiseHolds, PTL

\* The two together, for the code: emit, the route events and accept.
THEOREM PageIsInformed == Spec => []Contract!Informed /\ Contract!NothingLate
BY KeepsContract, PromiseInforms, PTL

-----------------------------------------------------------------------------
(* The end comes to the page *)

\* A page that waits for an ended run has not got the last event yet.
StillToCome ==
    done /\ source \in {"connecting", "open"} => lastEventId < sequence

LEMMA StillToComeStep == IInv /\ StillToCome /\ [Next]_vars => StillToCome'
<1> SUFFICES ASSUME IInv, StillToCome, [Next]_vars PROVE StillToCome'
  OBVIOUS
<1>1. lastEventId \in Nat /\ sequence \in Nat /\ lastEventId <= sequence
  BY NumberTypes DEF IInv, LogInv
<1>2. CASE Emit \/ EmitDone
  <2>1. sequence' = sequence + 1 /\ lastEventId' = lastEventId
    BY <1>2 DEF Emit, EmitDone, pageVars
  <2>. QED  BY <1>1, <2>1 DEF StillToCome
<1>3. CASE Forget
  BY <1>3 DEF Forget, pageVars, StillToCome
<1>4. CASE Connect \/ ConnectRefused \/ Drop
  <2>1. UNCHANGED <<sequence, done, lastEventId>> /\ source \in {"connecting", "open"}
    BY <1>4 DEF Connect, ConnectRefused, Drop, runVars
  <2>. QED  BY <2>1 DEF StillToCome
<1>5. CASE Generator
  <2>1. UNCHANGED <<runVars, pageVars>>
    BY <1>5 DEF Generator, Read, Wake, Send
  <2>. QED  BY <2>1 DEF runVars, pageVars, StillToCome
<1>6. CASE Deliver
  <2> DEFINE last == Last(Head(wire).ids)
  <2>1. /\ lastEventId' = last /\ UNCHANGED <<done, sequence>>
        /\ source' = IF done /\ last = sequence THEN "closed" ELSE "open"
    BY <1>6 DEF Deliver, runVars
  <2>2. IInv'
    BY <1>6, DeliverIInv
  <2>3. lastEventId' \in Nat /\ lastEventId' <= sequence'
    BY <2>2, NumberTypes DEF IInv, LogInv, TypeOK
  <2> HIDE DEF last
  <2>. QED  BY <1>1, <2>1, <2>3 DEF StillToCome
<1>7. CASE UNCHANGED vars
  BY <1>7 DEF vars, runVars, pageVars, StillToCome
<1>8. \/ Emit \/ EmitDone \/ Forget \/ Connect \/ ConnectRefused \/ Deliver \/ Drop
      \/ Generator \/ UNCHANGED vars
  BY Zenon DEF Next, Page, Terminated
<1>. QED  BY <1>2, <1>3, <1>4, <1>5, <1>6, <1>7, <1>8, Zenon

\* A page that waits can connect, has a message on the wire, or has a generator
\* that has not ended.
SomeoneGoesOn ==
    source \in {"connecting", "open"} =>
        \/ source = "connecting"
        \/ wire # <<>>
        \/ generator \in {"read", "wait", "send"}

\* A page that shows a run as going on is never left without anyone who will
\* tell it of the end: a generator only ends behind its last message, and the
\* page closes the stream with that one.
THEOREM NeverLeftWaiting == Spec => [](StillToCome /\ SomeoneGoesOn)
<1>1. Init => StillToCome
  BY DEF Init, StillToCome
<1>2. IInv /\ StillToCome => SomeoneGoesOn
  <2> SUFFICES ASSUME IInv, StillToCome, source = "open", wire = <<>>,
                      generator \notin {"read", "wait", "send"}
               PROVE  FALSE
    BY DEF SomeoneGoesOn
  <2>1. generator = "ended"
    BY DEF IInv, TypeOK, WireInv
  <2>2. done /\ after = sequence
    BY <2>1 DEF IInv, BatchInv
  <2>3. Len(wire) = 0
    BY EmptyFacts
  <2>4. after = lastEventId
    BY <2>3 DEF IInv, WireInv, Reached
  <2>. QED  BY <2>2, <2>4, NumberTypes DEF StillToCome, IInv
<1>. QED  BY <1>1, <1>2, StillToComeStep, InitIInv, NextIInv, PTL DEF Spec

\* How far the last batch is from the page: a connection, a look at the
\* history, perhaps a batch that was read before the end, the last one.
Stage ==
    IF source = "failed" THEN 0
    ELSE IF source = "connecting" THEN 5
    ELSE IF generator = "wait" \/ (generator = "send" /\ ~batchDone) THEN 4
    ELSE IF generator = "read" THEN 3
    ELSE IF generator = "send" THEN 2
    ELSE 1

\* Each stage may bring a message, each lost connection starts again.
StepsLeft ==
    10 * (MaxDrops - drops) + 2 * Stage + Len(wire) + (IF known THEN 1 ELSE 0)

Nearer == done => StepsLeft' < StepsLeft

LEMMA StepsLeftType == IInv => StepsLeft \in Nat
<1> SUFFICES ASSUME IInv PROVE StepsLeft \in Nat
  OBVIOUS
<1>1. MaxDrops - drops \in Nat /\ Len(wire) \in Nat
  BY StreamAssumption DEF IInv, TypeOK
<1>2. Stage \in 0 .. 5
  BY DEF Stage
<1>. QED  BY <1>1, <1>2 DEF StepsLeft

LEMMA StepNearer == ASSUME IInv, Next, done  PROVE StepsLeft' < StepsLeft \/ UNCHANGED vars
<1>0. /\ drops \in Nat /\ MaxDrops - drops \in Nat /\ Len(wire) \in Nat
      /\ Stage \in Nat /\ known \in BOOLEAN
  BY StreamAssumption DEF IInv, TypeOK, Stage
<1>1. CASE Forget
  <2>1. /\ known /\ ~known' /\ UNCHANGED <<drops, wire>> /\ Stage' = Stage
    BY <1>1 DEF Forget, genVars, netVars, pageVars, Stage
  <2>. QED  BY <1>0, <2>1 DEF StepsLeft
<1>2. CASE Connect
  <2>1. UNCHANGED <<drops, wire, known>> /\ Stage = 5 /\ Stage' = 3
    BY <1>2 DEF Connect, runVars, netVars, Stage
  <2>. QED  BY <1>0, <2>1 DEF StepsLeft
<1>3. CASE ConnectRefused
  <2>1. UNCHANGED <<drops, wire, known>> /\ Stage = 5 /\ Stage' = 0
    BY <1>3 DEF ConnectRefused, runVars, netVars, Stage
  <2>. QED  BY <1>0, <2>1 DEF StepsLeft
<1>4. CASE Read
  <2>1. source \in {"open", "closed"}
    BY <1>4 DEF Read, IInv, TypeOK, WireInv
  <2>2. UNCHANGED <<drops, wire, known, source>> /\ generator = "read"
        /\ generator' = "send" /\ batchDone'
    BY <1>4 DEF Read, runVars, netVars, pageVars
  <2>3. Stage = 3 /\ Stage' = 2
    BY <2>1, <2>2 DEF Stage
  <2>. QED  BY <1>0, <2>2, <2>3 DEF StepsLeft
<1>5. CASE Wake
  <2>1. source \in {"open", "closed"}
    BY <1>5 DEF Wake, IInv, TypeOK, WireInv
  <2>2. UNCHANGED <<drops, wire, known>> /\ Stage = 4 /\ Stage' = 3
    BY <1>5, <2>1 DEF Wake, runVars, netVars, pageVars, Stage
  <2>. QED  BY <1>0, <2>2 DEF StepsLeft
<1>6. CASE Send
  <2>1. source \in {"open", "closed"}
    BY <1>6 DEF Send, IInv, TypeOK, WireInv
  <2>2. /\ UNCHANGED <<drops, known>>
        /\ (Stage = 4 /\ Stage' = 3) \/ (Stage = 2 /\ Stage' = 1)
    BY <1>6, <2>1 DEF Send, runVars, pageVars, Stage
  <2>3. Len(wire') \in Nat /\ Len(wire') <= Len(wire) + 1
    BY <1>0, <1>6 DEF Send, Put, IInv, TypeOK
  <2>4. CASE Stage = 4
    BY <1>0, <2>2, <2>3, <2>4 DEF StepsLeft
  <2>5. CASE Stage = 2
    BY <1>0, <2>2, <2>3, <2>5 DEF StepsLeft
  <2>. QED  BY <2>2, <2>4, <2>5
<1>7. CASE Deliver
  <2>1. UNCHANGED <<drops, known>> /\ Stage' = Stage
    BY <1>7 DEF Deliver, runVars, genVars, Stage
  <2>2. Len(wire') = Len(wire) - 1
    BY <1>7 DEF Deliver, IInv, TypeOK
  <2>. QED  BY <1>0, <2>1, <2>2 DEF StepsLeft
<1>8. CASE Drop
  <2>1. /\ drops' = drops + 1 /\ UNCHANGED known /\ wire' = <<>> /\ source = "open"
        /\ source' = "connecting"
    BY <1>8 DEF Drop, runVars
  <2>2. Stage >= 1 /\ Stage' = 5 /\ Len(wire') = 0
    BY <2>1, EmptyFacts DEF Stage
  <2>. QED  BY <1>0, <2>1, <2>2, StreamAssumption DEF StepsLeft
<1>9. ~Emit /\ ~EmitDone
  BY DEF Emit, EmitDone
<1>10. \/ Emit \/ EmitDone \/ Forget \/ Connect \/ ConnectRefused \/ Read \/ Wake
       \/ Send \/ Deliver \/ Drop \/ UNCHANGED vars
  BY Zenon DEF Next, Generator, Page, Terminated
<1>. QED  BY <1>1, <1>2, <1>3, <1>4, <1>5, <1>6, <1>7, <1>8, <1>9, <1>10, Zenon

\* When the run has ended, every step of a generator, of the connection or of
\* the page brings the page nearer to the end of its stream: the stream cannot
\* go round in circles, and with NeverLeftWaiting it cannot stop either.
THEOREM EndComesNearer == Spec => [](StepsLeft \in Nat) /\ [][Nearer]_vars
<1>1. IInv /\ [Next]_vars => [Nearer]_vars
  BY StepNearer DEF Nearer
<1>. QED  BY <1>1, StepsLeftType, InitIInv, NextIInv, PTL DEF Spec
=============================================================================
