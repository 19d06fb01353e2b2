--------------------------- MODULE RecorderProofs ---------------------------
(***************************************************************************)
(* For any number of stop calls, events, sessions and faults: the types of *)
(* the recorder, that no event is lost unseen, and that a session is ended *)
(* only after its last flush was answered.                                 *)
(***************************************************************************)
EXTENDS Recorder, FiniteSetTheorems, WellFoundedInduction, TLAPS

-----------------------------------------------------------------------------
(* Sequences of events as sets. *)

LEMMA ElementsOfEmpty == Elements(<<>>) = {}
BY DEF Elements

LEMMA ElementsOfAppend ==
  ASSUME NEW S, NEW q \in Seq(S), NEW e \in S
  PROVE  Elements(Append(q, e)) = Elements(q) \cup {e}
<1>1. DOMAIN Append(q, e) = 1 .. Len(q) + 1 /\ DOMAIN q = 1 .. Len(q) /\ Len(q) \in Nat
  OBVIOUS
<1>2. \A i \in 1 .. Len(q) : Append(q, e)[i] = q[i]
  OBVIOUS
<1>3. Append(q, e)[Len(q) + 1] = e
  OBVIOUS
<1>4. QED
  BY <1>1, <1>2, <1>3 DEF Elements

LEMMA ElementsOfConcat ==
  ASSUME NEW S, NEW p \in Seq(S), NEW q \in Seq(S)
  PROVE  Elements(p \o q) = Elements(p) \cup Elements(q)
<1>1. /\ DOMAIN (p \o q) = 1 .. Len(p) + Len(q)
      /\ DOMAIN p = 1 .. Len(p) /\ DOMAIN q = 1 .. Len(q)
      /\ Len(p) \in Nat /\ Len(q) \in Nat
  OBVIOUS
<1>2. \A i \in 1 .. Len(p) : (p \o q)[i] = p[i]
  OBVIOUS
<1>3. \A i \in 1 .. Len(q) : (p \o q)[Len(p) + i] = q[i]
  OBVIOUS
<1>4. \A i \in 1 .. Len(p) + Len(q) :
        i \in 1 .. Len(p) \/ (i - Len(p) \in 1 .. Len(q) /\ i = Len(p) + (i - Len(p)))
  BY <1>1
<1>5. \A i \in 1 .. Len(q) : Len(p) + i \in 1 .. Len(p) + Len(q)
  BY <1>1
<1>6. Elements(p \o q) \subseteq Elements(p) \cup Elements(q)
  <2>1. ASSUME NEW i \in 1 .. Len(p) + Len(q)
        PROVE  (p \o q)[i] \in Elements(p) \cup Elements(q)
    <3>1. CASE i \in 1 .. Len(p)
      BY <1>1, <1>2, <3>1 DEF Elements
    <3>2. CASE i - Len(p) \in 1 .. Len(q) /\ i = Len(p) + (i - Len(p))
      <4>1. (p \o q)[i] = q[i - Len(p)]
        BY <1>3, <3>2
      <4>2. QED
        BY <1>1, <3>2, <4>1 DEF Elements
    <3>3. QED
      BY <1>4, <3>1, <3>2
  <2>2. QED
    BY <1>1, <2>1 DEF Elements
<1>7. Elements(p) \subseteq Elements(p \o q)
  BY <1>1, <1>2 DEF Elements
<1>8. Elements(q) \subseteq Elements(p \o q)
  <2>1. ASSUME NEW i \in 1 .. Len(q) PROVE q[i] \in Elements(p \o q)
    <3>1. q[i] = (p \o q)[Len(p) + i] /\ Len(p) + i \in DOMAIN (p \o q)
      BY <1>1, <1>3, <1>5
    <3>2. QED
      BY <3>1 DEF Elements
  <2>2. QED
    BY <1>1, <2>1 DEF Elements
<1>9. QED
  BY <1>6, <1>7, <1>8

LEMMA ElementsType ==
  ASSUME NEW S, NEW q \in Seq(S)
  PROVE  Elements(q) \subseteq S
BY DEF Elements

-----------------------------------------------------------------------------
(* Type correctness. *)

LEMMA InitRecorderType == RecorderInit => RecorderTypeOK
<1> SUFFICES ASSUME RecorderInit PROVE RecorderTypeOK
  OBVIOUS
<1>1. stop \in [Stoppers -> StopState]
  <2>1. Idle \in StopState
    BY DEF Idle, StopState
  <2>2. QED
    BY <2>1 DEF RecorderInit
<1>2. status \in [SessionIds -> {"none", "recording", "completed"}]
  BY DEF RecorderInit
<1>3. buffer \in Seq(Event)
  BY DEF RecorderInit
<1>4. QED
  BY <1>1, <1>2, <1>3 DEF RecorderInit, RecorderTypeOK

\* Every shape flushBatch gives a call is that of a batch.
LEMMA SendBufferType ==
  ASSUME RecorderTypeOK, session # 0, NEW k \in {0} \cup Stoppers, SendBuffer(k)
  PROVE  batches' \subseteq Batch /\ buffer' \in Seq(Event)
<1>1. [to |-> session, events |-> buffer, by |-> k, served |-> FALSE, orphan |-> FALSE] \in Batch
  BY DEF RecorderTypeOK, Batch
<1>2. batches' \subseteq Batch
  BY <1>1 DEF SendBuffer, RecorderTypeOK
<1>3. buffer' \in Seq(Event)
  BY DEF SendBuffer
<1>4. QED
  BY <1>2, <1>3

LEMMA StoppingType ==
  ASSUME RecorderTypeOK, NEW k \in Stoppers, NEW at \in {"flush", "end"}, Stopping(k, at)
  PROVE  stop' \in [Stoppers -> StopState]
<1>1. Elements(buffer) \subseteq Event /\ session \in Nat
  BY ElementsType DEF RecorderTypeOK, SessionIds
<1>2. [at |-> at, session |-> session, due |-> Elements(buffer), failed |-> FALSE] \in StopState
  BY <1>1 DEF StopState
<1>3. QED
  BY <1>2 DEF Stopping, RecorderTypeOK

LEMMA ResumeType ==
  ASSUME RecorderTypeOK, NEW b \in batches, NEW f \in BOOLEAN, Resume(b, f)
  PROVE  stop' \in [Stoppers -> StopState]
<1>1. ASSUME NEW k \in Stoppers
      PROVE  [stop[k] EXCEPT !.at = "end", !.session = session, !.failed = f] \in StopState
  <2>1. session \in Nat
    BY DEF RecorderTypeOK, SessionIds
  <2>2. QED
    BY <2>1 DEF RecorderTypeOK, StopState
<1>2. QED
  BY <1>1 DEF Resume, RecorderTypeOK

LEMMA NextRecorderType == RecorderTypeOK /\ [RecorderNext]_vars => RecorderTypeOK'
<1> SUFFICES ASSUME RecorderTypeOK, [RecorderNext]_vars PROVE RecorderTypeOK'
  OBVIOUS
<1> USE RecorderBounds
<1>0. IsFiniteSet({}) /\ SessionIds \subseteq Nat
  BY FS_EmptySet DEF SessionIds
<1>1. CASE AskStart
  BY <1>1 DEF AskStart, RecorderTypeOK, ghostVars, serverVars
<1>2. ASSUME NEW s \in SessionIds, StartAnswered(s) PROVE RecorderTypeOK'
  <2>1. status' \in [SessionIds -> {"none", "recording", "completed"}]
    BY <1>2 DEF StartAnswered, NewSession, RecorderTypeOK
  <2>2. starting' \in Nat /\ timers' \in Nat /\ timers' > 0
    BY <1>2 DEF StartAnswered, RecorderTypeOK
  <2>3. QED
    BY <1>2, <2>1, <2>2 DEF StartAnswered, RecorderTypeOK, ghostVars
<1>3. CASE StartFailed
  <2>1. status' \in [SessionIds -> {"none", "recording", "completed"}]
    BY <1>3 DEF StartFailed, NewSession, RecorderTypeOK
  <2>2. starting' \in Nat /\ faults' \in Nat
    BY <1>3 DEF StartFailed, RecorderTypeOK
  <2>3. QED
    BY <1>3, <2>1, <2>2 DEF StartFailed, RecorderTypeOK
<1>4. ASSUME NEW n \in 1 .. MaxEvents, Capture(n) PROVE RecorderTypeOK'
  <2>1. [id |-> n, num |-> counter, in |-> session] \in Event
    BY <1>0 DEF RecorderTypeOK, Event
  <2>2. buffer' \in Seq(Event) /\ captured' \subseteq Event /\ counter' \in Nat
    BY <1>4, <2>1 DEF Capture, RecorderTypeOK
  <2>3. QED
    BY <1>4, <2>2 DEF Capture, RecorderTypeOK, serverVars
<1>5. CASE OpenPanel
  BY <1>5 DEF OpenPanel, RecorderTypeOK, workerVars, serverVars, ghostVars
<1>6. CASE FlushTick
  BY <1>6, SendBufferType DEF FlushTick, RecorderTypeOK, serverVars, ghostVars
<1>7. ASSUME NEW b \in batches, BatchServed(b) PROVE RecorderTypeOK'
  <2>1. b \in Batch
    BY DEF RecorderTypeOK
  <2>2. [b EXCEPT !.served = TRUE] \in Batch
    BY <2>1 DEF Batch
  <2>3. \A i \in DOMAIN b.events : [to |-> b.to, event |-> b.events[i]]
                                     \in [to : SessionIds, event : Event]
    BY <2>1 DEF Batch
  <2>4. NewRows(b) \subseteq DOMAIN b.events
    BY DEF NewRows
  <2>5. /\ stored' \subseteq [to : SessionIds, event : Event]
        /\ skipped' \subseteq [to : SessionIds, event : Event]
    BY <1>7, <2>3, <2>4 DEF BatchServed, RecorderTypeOK
  <2>6. batches' \subseteq Batch
    BY <1>7, <2>2 DEF BatchServed, RecorderTypeOK
  <2>7. QED
    BY <1>7, <2>5, <2>6 DEF BatchServed, RecorderTypeOK, workerVars
<1>8. ASSUME NEW b \in batches, BatchAnswered(b) PROVE RecorderTypeOK'
  BY <1>8, ResumeType DEF BatchAnswered, RecorderTypeOK, serverVars, ghostVars
<1>9. ASSUME NEW b \in batches, BatchRefused(b) PROVE RecorderTypeOK'
  <2>1. Elements(b.events) \subseteq Event
    BY ElementsType DEF RecorderTypeOK, Batch
  <2>2. lost' \subseteq Event /\ faults' \in Nat /\ batches' \subseteq Batch
    BY <1>9, <2>1 DEF BatchRefused, RecorderTypeOK
  <2>3. stop' \in [Stoppers -> StopState]
    BY <1>9, ResumeType DEF BatchRefused
  <2>4. QED
    BY <1>9, <2>2, <2>3 DEF BatchRefused, RecorderTypeOK, serverVars
<1>10. ASSUME NEW b \in batches, BatchThrows(b) PROVE RecorderTypeOK'
  <2>1. b.events \in Seq(Event) /\ Elements(b.events) \subseteq Event
    BY ElementsType DEF RecorderTypeOK, Batch
  <2>2. buffer' \in Seq(Event) /\ lost' \subseteq Event /\ faults' \in Nat
    BY <1>10, <2>1 DEF BatchThrows, RecorderTypeOK
  <2>3. QED
    BY <1>10, <2>2, ResumeType DEF BatchThrows, RecorderTypeOK, serverVars
<1>11. ASSUME NEW k \in Stoppers, AskStop(k) PROVE RecorderTypeOK'
  <2>1. stop' \in [Stoppers -> StopState]
    BY <1>11, StoppingType DEF AskStop
  <2>2. batches' \subseteq Batch /\ buffer' \in Seq(Event)
    BY <1>11, SendBufferType DEF AskStop, RecorderTypeOK
  <2>3. timers' \in Nat /\ handle' = FALSE
    BY <1>11 DEF AskStop, StopTimer, RecorderTypeOK
  <2>4. QED
    BY <1>11, <2>1, <2>2, <2>3 DEF AskStop, RecorderTypeOK, serverVars, ghostVars
<1>12. ASSUME NEW k \in Stoppers, EndServed(k) PROVE RecorderTypeOK'
  BY <1>12 DEF EndServed, RecorderTypeOK, workerVars, ghostVars
<1>13. ASSUME NEW k \in Stoppers, EndAnswered(k) PROVE RecorderTypeOK'
  <2>1. Idle \in StopState
    BY <1>0 DEF Idle, StopState
  <2>2. stop' \in [Stoppers -> StopState] /\ faults' \in Nat
    BY <1>13, <2>1 DEF EndAnswered, RecorderTypeOK
  <2>3. QED
    BY <1>13, <2>2 DEF EndAnswered, RecorderTypeOK, serverVars
<1>14. CASE WorkerKilled
  <2>1. stop' \in [Stoppers -> StopState]
    BY <1>14 DEF WorkerKilled, Idle, StopState
  <2>2. \A b \in Batch : [b EXCEPT !.orphan = TRUE] \in Batch
    BY DEF Batch
  <2>3. batches' \subseteq Batch
    BY <1>14, <2>2 DEF WorkerKilled, RecorderTypeOK
  <2>4. status' \in [SessionIds -> {"none", "recording", "completed"}]
    BY <1>14 DEF WorkerKilled, RecorderTypeOK
  <2>5. buffer' \in Seq(Event) /\ lost' \subseteq Event /\ faults' \in Nat
    BY <1>14, ElementsType DEF WorkerKilled, RecorderTypeOK
  <2>6. QED
    BY <1>14, <2>1, <2>3, <2>4, <2>5 DEF WorkerKilled, RecorderTypeOK
<1>15. CASE UNCHANGED vars
  BY <1>15 DEF vars, workerVars, serverVars, ghostVars, RecorderTypeOK
<1>16. QED
  BY <1>1, <1>2, <1>3, <1>4, <1>5, <1>6, <1>7, <1>8, <1>9, <1>10, <1>11, <1>12,
     <1>13, <1>14, <1>15 DEF RecorderNext

\* Every variable keeps its type, for any number of calls, events and faults;
\* a batch is always addressed to a session, and a timer that can be cleared
\* is one that runs.
THEOREM RecorderTypeCorrect == RecorderSpec => []RecorderTypeOK
<1>1. RecorderInit => RecorderTypeOK
  BY InitRecorderType
<1>2. RecorderTypeOK /\ [RecorderNext]_vars => RecorderTypeOK'
  BY NextRecorderType
<1>3. QED
  BY <1>1, <1>2, PTL DEF RecorderSpec

-----------------------------------------------------------------------------
(* Nothing is lost silently. *)

\* A session numbers its own events one after the other.
Numbered ==
  /\ session # 0 => session \in Created
  /\ \A e \in captured : e.in # 0 => e.in \in Created
  /\ \A e \in captured : session # 0 /\ e.in = session => e.num < counter
  /\ \A e, f \in captured : e.in # 0 /\ e.in = f.in /\ e.num = f.num => e = f

\* Whatever is moved about was captured.
Known ==
  /\ Elements(buffer) \subseteq captured
  /\ InFlight \subseteq captured
  /\ StoredEvents \subseteq captured

\* A batch the backend has served is in the table, but for what it displaced.
Accounted ==
  \A b \in batches : b.served =>
    \A e \in Elements(b.events) : e \in StoredEvents \/ Displaced(e)

RecorderLossInv ==
  RecorderTypeOK /\ Numbered /\ Known /\ Accounted /\ NothingLostSilently

LEMMA BatchesType ==
  ASSUME RecorderTypeOK, NEW b \in batches
  PROVE  /\ b \in Batch /\ b.events \in Seq(Event)
         /\ b.to \in SessionIds /\ b.by \in {0} \cup Stoppers
         /\ b.served \in BOOLEAN /\ b.orphan \in BOOLEAN
         /\ Elements(b.events) \subseteq InFlight
BY DEF RecorderTypeOK, Batch, InFlight

\* A flush moves the buffer, as it is, into a call.
LEMMA SendBufferMoves ==
  ASSUME NEW k, SendBuffer(k)
  PROVE  /\ Elements(buffer') = {}
         /\ InFlight' = InFlight \cup Elements(buffer)
<1>1. Elements(buffer') = {}
  BY ElementsOfEmpty DEF SendBuffer
<1>2. InFlight' = InFlight \cup Elements(buffer)
  <2> DEFINE n == [to |-> session, events |-> buffer, by |-> k,
                   served |-> FALSE, orphan |-> FALSE]
  <2>1. n.events = buffer /\ batches' = batches \cup {n}
    BY DEF SendBuffer
  <2> HIDE DEF n
  <2>2. UNION {Elements(b.events) : b \in batches \cup {n}} = InFlight \cup Elements(n.events)
    BY DEF InFlight
  <2>3. QED
    BY <2>1, <2>2 DEF InFlight
<1>3. QED
  BY <1>1, <1>2

\* A batch that goes takes only its own events along.
LEMMA BatchLeaves ==
  ASSUME NEW b \in batches, batches' = batches \ {b}
  PROVE  InFlight' \subseteq InFlight /\ InFlight \subseteq InFlight' \cup Elements(b.events)
BY DEF InFlight

\* What was displaced stays so: the table only grows.
LEMMA DisplacedStays ==
  ASSUME stored \subseteq stored', skipped \subseteq skipped', NEW e
  PROVE  /\ Displaced(e) => Displaced(e)'
         /\ e \in StoredEvents => e \in StoredEvents'
BY DEF Displaced, StoredEvents

\* A step that moves events between the places, and takes what leaves them
\* from a served batch or to the lost ones, loses nothing.
LEMMA MovesLoseNothing ==
  ASSUME RecorderLossInv, captured' = captured, stored' = stored, skipped' = skipped,
         Elements(buffer') \subseteq captured, InFlight' \subseteq captured,
         \A e \in Elements(buffer) \cup InFlight \cup lost :
           \/ e \in Elements(buffer') \cup InFlight' \cup lost'
           \/ e \in StoredEvents \/ Displaced(e)
  PROVE  Known' /\ NothingLostSilently'
<1>1. Known'
  BY DEF RecorderLossInv, Known, StoredEvents
<1>2. ASSUME NEW e \in captured
      PROVE  \/ e \in Elements(buffer') \cup InFlight' \cup StoredEvents' \cup lost'
             \/ Displaced(e)'
  <2>1. (Displaced(e) => Displaced(e)') /\ (e \in StoredEvents => e \in StoredEvents')
    BY DisplacedStays
  <2>2. e \in Elements(buffer) \cup InFlight \cup StoredEvents \cup lost \/ Displaced(e)
    BY DEF RecorderLossInv, NothingLostSilently
  <2>3. QED
    BY <2>1, <2>2
<1>3. NothingLostSilently'
  BY <1>2 DEF NothingLostSilently
<1>4. QED
  BY <1>1, <1>3

\* The batches that stay, or are sent by somebody else, stay accounted for.
LEMMA AccountedStays ==
  ASSUME Accounted, stored' = stored, skipped' = skipped,
         \A b \in batches' : b.served =>
           \E c \in batches : c.served /\ c.events = b.events
  PROVE  Accounted'
<1> SUFFICES ASSUME NEW b \in batches', b.served, NEW e \in Elements(b.events)
             PROVE  e \in StoredEvents' \/ Displaced(e)'
  BY DEF Accounted
<1>1. e \in StoredEvents \/ Displaced(e)
  BY DEF Accounted
<1>2. QED
  BY <1>1, DisplacedStays

LEMMA NumberedStays ==
  ASSUME RecorderTypeOK, Numbered, captured' = captured,
         \/ session' = 0
         \/ session' = session /\ counter' = counter,
         Created \subseteq Created'
  PROVE  Numbered'
BY DEF Numbered

LEMMA CreatedGrows ==
  ASSUME NEW s, NewSession(s), RecorderTypeOK
  PROVE  Created \subseteq Created' /\ s \in Created' /\ s \notin Created /\ s \in Nat \ {0}
<1>1. s \in SessionIds \ Created /\ status' = [status EXCEPT ![s] = "recording"]
  BY DEF NewSession
<1>2. s \in Nat \ {0}
  BY <1>1, RecorderBounds DEF SessionIds
<1>3. QED
  BY <1>1, <1>2 DEF Created, RecorderTypeOK

\* In a set of positions there is a first one.
LEMMA FirstPosition ==
  ASSUME NEW N \in Nat, NEW T, T \subseteq 1 .. N, T # {}
  PROVE  \E m \in T : \A k \in T : m <= k
<1> DEFINE F == {1 .. t : t \in T}
<1>1. IsFiniteSet(1 .. N)
  BY FS_Interval
<1>2. IsWellFoundedOn(StrictSubsetOrdering(1 .. N), FiniteSubsetsOf(1 .. N))
  BY FS_StrictSubsetOrderingWellFounded
<1>3. F \subseteq FiniteSubsetsOf(1 .. N) /\ F # {}
  <2>1. \A t \in T : (1 .. t) \in SUBSET (1 .. N)
    OBVIOUS
  <2>2. FiniteSubsetsOf(1 .. N) = SUBSET (1 .. N)
    BY <1>1, FS_FiniteSubsetsOfFinite
  <2>3. QED
    BY <2>1, <2>2, Zenon
<1>4. PICK x \in F : \A y \in F : ~ (<<y, x>> \in StrictSubsetOrdering(1 .. N))
  <2> HIDE DEF F
  <2> QED BY <1>2, <1>3, WFMin
<1>5. PICK m \in T : x = 1 .. m
  BY <1>4
<1>6. ASSUME NEW k \in T PROVE m <= k
  <2>1. ~ (<<1 .. k, 1 .. m>> \in StrictSubsetOrdering(1 .. N))
    BY <1>4, <1>5
  <2>2. (1 .. k) \in SUBSET (1 .. N) /\ (1 .. m) \in SUBSET (1 .. N)
    OBVIOUS
  <2>3. ~ (1 .. k \subseteq 1 .. m /\ 1 .. k # 1 .. m)
    BY <2>1, <2>2 DEF StrictSubsetOrdering
  <2>4. k < m => m \in 1 .. m /\ m \notin 1 .. k
    OBVIOUS
  <2>5. QED
    BY <2>3, <2>4
<1>7. QED
  BY <1>6

\* What INSERT ... ON CONFLICT DO NOTHING does to an event of a batch: it is
\* stored, or its number is, in that session, of an event that was there first.
LEMMA InsertAccounts ==
  ASSUME RecorderTypeOK, Known, Numbered, NEW b \in batches, BatchServed(b),
         NEW e \in Elements(b.events)
  PROVE  e \in StoredEvents' \/ Displaced(e)'
<1>1. PICK i \in DOMAIN b.events : e = b.events[i]
  BY DEF Elements
<1>2. /\ b.events \in Seq(Event) /\ DOMAIN b.events = 1 .. Len(b.events)
      /\ Len(b.events) \in Nat /\ b.to \in SessionIds /\ b.to # 0
  BY BatchesType, RecorderBounds DEF SessionIds
<1>3. \A j \in DOMAIN b.events : b.events[j] \in captured
  BY BatchesType DEF Known, Elements
<1>4. CASE i \in NewRows(b)
  <2>1. [to |-> b.to, event |-> e] \in stored'
    BY <1>1, <1>4 DEF BatchServed
  <2>2. QED
    BY <2>1 DEF StoredEvents
<1>5. CASE i \notin NewRows(b)
  \* The row that has the number, once the batch is in.
  <2>1. \E r \in stored' : r.to = b.to /\ r.event.num = e.num /\ r.event \in captured
    <3>1. CASE \E r \in stored : r.to = b.to /\ r.event.num = e.num
      <4>1. stored \subseteq stored' /\ \A r \in stored : r.event \in captured
        BY DEF BatchServed, Known, StoredEvents
      <4>2. QED
        BY <3>1, <4>1
    <3>2. CASE \A r \in stored : r.to = b.to => r.event.num # e.num
      <4> DEFINE T == {j \in 1 .. Len(b.events) : b.events[j].num = e.num}
      <4>1. T \subseteq 1 .. Len(b.events) /\ T # {}
        BY <1>1, <1>2
      <4>2. PICK m \in T : \A j \in T : m <= j
        <5> HIDE DEF T
        <5> QED BY <1>2, <4>1, FirstPosition
      <4>3. m \in DOMAIN b.events /\ b.events[m].num = e.num
        BY <1>2
      <4>4. \A j \in 1 .. m - 1 : b.events[j].num # b.events[m].num
        <5>1. ASSUME NEW j \in 1 .. m - 1, b.events[j].num = e.num PROVE FALSE
          <6>1. j \in 1 .. Len(b.events) /\ ~(m <= j)
            BY <1>2, <4>3
          <6>2. QED
            BY <4>2, <5>1, <6>1
        <5>2. QED
          BY <4>3, <5>1
      <4>5. m \in NewRows(b)
        BY <3>2, <4>3, <4>4 DEF NewRows
      <4>6. [to |-> b.to, event |-> b.events[m]] \in stored'
        BY <4>5 DEF BatchServed
      <4>7. QED
        BY <1>3, <4>3, <4>6
    <3>3. QED
      BY <3>1, <3>2
  <2>2. PICK r \in stored' : r.to = b.to /\ r.event.num = e.num /\ r.event \in captured
    BY <2>1
  <2>3. [to |-> b.to, event |-> e] \in skipped'
    BY <1>1, <1>5 DEF BatchServed
  <2>4. CASE r.event = e
    BY <2>2, <2>4 DEF StoredEvents
  <2>5. CASE r.event # e
    <3>1. r.event.in # r.to \/ e.in # r.to
      BY <1>1, <1>2, <1>3, <2>2, <2>5 DEF Numbered
    <3>2. QED
      BY <2>2, <2>3, <2>5, <3>1 DEF Displaced
  <2>6. QED
    BY <2>4, <2>5
<1>6. QED
  BY <1>4, <1>5

LEMMA InitLoss == RecorderInit => RecorderLossInv
<1> SUFFICES ASSUME RecorderInit PROVE RecorderLossInv
  OBVIOUS
<1>1. Elements(buffer) = {} /\ InFlight = {} /\ StoredEvents = {}
  BY ElementsOfEmpty DEF RecorderInit, InFlight, StoredEvents
<1>2. Numbered /\ Known /\ Accounted /\ NothingLostSilently
  BY <1>1 DEF RecorderInit, Numbered, Known, Accounted, NothingLostSilently
<1>3. QED
  BY <1>2, InitRecorderType DEF RecorderLossInv

LEMMA NextLoss == RecorderLossInv /\ [RecorderNext]_vars => RecorderLossInv'
<1> SUFFICES ASSUME RecorderLossInv, [RecorderNext]_vars PROVE RecorderLossInv'
  OBVIOUS
<1> USE DEF RecorderLossInv
<1>0. RecorderTypeOK'
  BY NextRecorderType
<1> DEFINE Goal == Numbered' /\ Known' /\ Accounted' /\ NothingLostSilently'
<1>1. CASE AskStart \/ OpenPanel \/ UNCHANGED vars
  <2>1. /\ UNCHANGED <<session, counter, buffer, batches, status, stored, captured, lost, skipped>>
    BY <1>1 DEF AskStart, OpenPanel, vars, workerVars, serverVars, ghostVars
  <2>2. QED
    BY <1>0, <2>1 DEF Numbered, Known, Accounted, NothingLostSilently, Created, InFlight,
       StoredEvents, Displaced
<1>2. ASSUME NEW s \in SessionIds, StartAnswered(s) PROVE Goal
  <2>1. UNCHANGED <<buffer, batches, stored, captured, lost, skipped>> /\ session' = s /\ counter' = 0
    BY <1>2 DEF StartAnswered, ghostVars
  <2>2. Created \subseteq Created' /\ s \in Created' /\ s \notin Created /\ s \in Nat \ {0}
    BY <1>2, CreatedGrows DEF StartAnswered
  <2>3. Numbered'
    BY <2>1, <2>2 DEF Numbered
  <2>4. QED
    BY <2>1, <2>3 DEF Known, Accounted, NothingLostSilently, InFlight, StoredEvents, Displaced
<1>3. CASE StartFailed
  <2>1. UNCHANGED <<session, counter, buffer, batches, stored, captured, lost, skipped>>
    BY <1>3 DEF StartFailed
  <2>2. Created \subseteq Created'
    BY <1>3, CreatedGrows DEF StartFailed, Created
  <2>3. Numbered'
    BY <2>1, <2>2, NumberedStays
  <2>4. QED
    BY <1>0, <2>1, <2>3 DEF Known, Accounted, NothingLostSilently, InFlight, StoredEvents,
       Displaced
<1>4. ASSUME NEW n \in 1 .. MaxEvents, Capture(n) PROVE Goal
  <2> DEFINE e == [id |-> n, num |-> counter, in |-> session]
  <2>1. /\ captured' = captured \cup {e} /\ buffer' = Append(buffer, e)
        /\ counter' = counter + 1 /\ e \in Event
        /\ UNCHANGED <<session, batches, status, stored, lost, skipped>>
    <3>1. e \in Event
      BY RecorderBounds DEF Event, RecorderTypeOK, SessionIds
    <3>2. QED
      BY <1>4, <3>1 DEF Capture, serverVars
  <2>2. Elements(buffer') = Elements(buffer) \cup {e}
    BY <2>1, ElementsOfAppend DEF RecorderTypeOK
  <2>3. Numbered'
    <3>1. \A f \in captured : f.num \in Nat /\ (session # 0 /\ f.in = session => f.num < counter)
      BY DEF RecorderTypeOK, Event, Numbered
    <3>2. e.num = counter /\ e.in = session /\ counter \in Nat
      BY DEF RecorderTypeOK
    <3> HIDE DEF e
    <3>3. \A f \in captured' : session # 0 /\ f.in = session => f.num < counter + 1
      BY <2>1, <3>1, <3>2
    <3>4. \A f \in captured : f.in # 0 /\ f.in = e.in => f.num # e.num
      BY <3>1, <3>2
    <3>5. Created' = Created
      BY <2>1 DEF Created
    <3>6. QED
      BY <2>1, <3>2, <3>3, <3>4, <3>5 DEF Numbered
  <2>4. Known' /\ Accounted'
    BY <2>1, <2>2 DEF Known, Accounted, InFlight, StoredEvents, Displaced
  <2>5. NothingLostSilently'
    BY <2>1, <2>2 DEF NothingLostSilently, InFlight, StoredEvents, Displaced
  <2>6. QED
    BY <2>3, <2>4, <2>5
<1>5. ASSUME NEW k \in {0} \cup Stoppers, SendBuffer(k),
             UNCHANGED <<session, counter, serverVars, captured, lost, skipped>>
      PROVE  Goal
  <2>1. Elements(buffer') = {} /\ InFlight' = InFlight \cup Elements(buffer)
    BY <1>5, SendBufferMoves
  <2>2. Numbered'
    BY <1>5, NumberedStays DEF serverVars, Created
  <2>3. Accounted'
    BY <1>5, AccountedStays DEF SendBuffer, serverVars
  <2>4. Known' /\ NothingLostSilently'
    BY <1>5, <2>1, MovesLoseNothing DEF serverVars, Known
  <2>5. QED
    BY <2>2, <2>3, <2>4
<1>6. CASE FlushTick
  BY <1>0, <1>5, <1>6 DEF FlushTick, ghostVars
<1>7. ASSUME NEW b \in batches, BatchServed(b) PROVE Goal
  <2>1. /\ UNCHANGED <<session, counter, buffer, status, captured, lost>>
        /\ batches' = (batches \ {b}) \cup {[b EXCEPT !.served = TRUE]}
        /\ stored \subseteq stored' /\ skipped \subseteq skipped'
    BY <1>7 DEF BatchServed, workerVars
  <2>2. /\ [b EXCEPT !.served = TRUE].events = b.events
        /\ InFlight' = InFlight
    <3>1. [b EXCEPT !.served = TRUE].events = b.events
      BY BatchesType DEF Batch
    <3>2. QED
      BY <2>1, <3>1 DEF InFlight
  <2>3. Numbered'
    BY <2>1, NumberedStays DEF Created
  <2>4. Known'
    <3>1. \A i \in DOMAIN b.events : b.events[i] \in captured
      BY BatchesType DEF Known, Elements
    <3>2. StoredEvents' \subseteq captured
      BY <1>7, <3>1 DEF BatchServed, NewRows, StoredEvents, Known
    <3>3. QED
      BY <2>1, <2>2, <3>2 DEF Known
  <2>5. Accounted'
    <3>1. ASSUME NEW c \in batches', c.served, NEW e \in Elements(c.events)
          PROVE  e \in StoredEvents' \/ Displaced(e)'
      <4>1. CASE c \in batches
        BY <2>1, <3>1, <4>1, DisplacedStays DEF Accounted
      <4>2. CASE c = [b EXCEPT !.served = TRUE]
        BY <1>7, <2>2, <3>1, <4>2, InsertAccounts
      <4>3. QED
        BY <2>1, <4>1, <4>2
    <3>2. QED
      BY <3>1 DEF Accounted
  <2>6. NothingLostSilently'
    <3>1. ASSUME NEW e \in captured
          PROVE  \/ e \in Elements(buffer') \cup InFlight' \cup StoredEvents' \cup lost'
                 \/ Displaced(e)'
      <4>1. (Displaced(e) => Displaced(e)') /\ (e \in StoredEvents => e \in StoredEvents')
        BY <2>1, DisplacedStays
      <4>2. QED
        BY <2>1, <2>2, <4>1 DEF NothingLostSilently
    <3>2. QED
      BY <2>1, <3>1 DEF NothingLostSilently
  <2>7. QED
    BY <2>3, <2>4, <2>5, <2>6
<1>8. ASSUME NEW b \in batches, BatchAnswered(b) \/ BatchRefused(b) \/ BatchThrows(b) PROVE Goal
  <2>1. /\ UNCHANGED <<session, counter, status, captured, stored, skipped>>
        /\ batches' = batches \ {b}
    BY <1>8 DEF BatchAnswered, BatchRefused, BatchThrows, serverVars, ghostVars
  <2>2. /\ InFlight' \subseteq InFlight /\ InFlight \subseteq InFlight' \cup Elements(b.events)
        /\ Elements(b.events) \subseteq InFlight
    BY <2>1, BatchLeaves, BatchesType
  <2>3. Numbered'
    BY <2>1, NumberedStays DEF Created
  <2>4. Accounted'
    BY <2>1, AccountedStays
  <2>5. /\ Elements(buffer') \subseteq Elements(buffer) \cup Elements(b.events)
        /\ Elements(buffer) \cup lost \subseteq Elements(buffer') \cup lost'
        /\ \A e \in Elements(b.events) :
             e \in Elements(buffer') \cup lost' \/ e \in StoredEvents \/ Displaced(e)
    <3>1. CASE BatchAnswered(b)
      BY <3>1 DEF BatchAnswered, ghostVars, Accounted
    <3>2. CASE BatchRefused(b)
      BY <3>2 DEF BatchRefused
    <3>3. CASE BatchThrows(b) /\ b.orphan
      BY <3>3 DEF BatchThrows
    <3>4. CASE BatchThrows(b) /\ ~b.orphan
      <4>1. Elements(b.events \o buffer) = Elements(b.events) \cup Elements(buffer)
        BY BatchesType, ElementsOfConcat DEF RecorderTypeOK
      <4>2. QED
        BY <3>4, <4>1 DEF BatchThrows
    <3>5. QED
      BY <1>8, <3>1, <3>2, <3>3, <3>4
  <2>6. Known' /\ NothingLostSilently'
    <3>1. Elements(buffer') \subseteq captured /\ InFlight' \subseteq captured
      BY <2>2, <2>5 DEF Known
    <3>2. \A e \in Elements(buffer) \cup InFlight \cup lost :
             \/ e \in Elements(buffer') \cup InFlight' \cup lost'
             \/ e \in StoredEvents \/ Displaced(e)
      BY <2>2, <2>5
    <3>3. QED
      BY <2>1, <3>1, <3>2, MovesLoseNothing
  <2>7. QED
    BY <2>3, <2>4, <2>6
<1>9. ASSUME NEW k \in Stoppers, AskStop(k) PROVE Goal
  <2>1. UNCHANGED <<session, counter, serverVars, captured, lost, skipped>>
    BY <1>9 DEF AskStop, ghostVars
  <2>2. CASE UNCHANGED <<buffer, batches>>
    BY <2>1, <2>2 DEF Numbered, Known, Accounted, NothingLostSilently, Created, InFlight,
       StoredEvents, Displaced, serverVars
  <2>3. CASE SendBuffer(k)
    BY <1>5, <2>1, <2>3
  <2>4. QED
    BY <1>9, <2>2, <2>3 DEF AskStop
<1>10. ASSUME NEW k \in Stoppers, EndServed(k) \/ EndAnswered(k) PROVE Goal
  <2>1. /\ UNCHANGED <<counter, buffer, batches, stored, captured, lost, skipped>>
        /\ session' = session \/ session' = 0
    BY <1>10 DEF EndServed, EndAnswered, workerVars, serverVars, ghostVars
  <2>2. Created \subseteq Created'
    BY <1>10 DEF EndServed, EndAnswered, serverVars, Created, RecorderTypeOK
  <2>3. Numbered'
    BY <2>1, <2>2, NumberedStays
  <2>4. QED
    BY <2>1, <2>3 DEF Known, Accounted, NothingLostSilently, InFlight, StoredEvents, Displaced
<1>11. CASE WorkerKilled
  <2>1. /\ UNCHANGED <<stored, captured, skipped>> /\ session' = 0 /\ buffer' = <<>>
        /\ batches' = {[b EXCEPT !.orphan = TRUE] : b \in batches}
        /\ lost' = lost \cup Elements(buffer)
    BY <1>11 DEF WorkerKilled
  <2>2. \A b \in batches : /\ [b EXCEPT !.orphan = TRUE].events = b.events
                           /\ [b EXCEPT !.orphan = TRUE].served = b.served
    BY BatchesType DEF Batch
  <2>3. InFlight' = InFlight /\ Elements(buffer') = {}
    <3>1. \A b \in batches' : \E c \in batches : b.events = c.events
      BY <2>1, <2>2
    <3>2. \A c \in batches : \E b \in batches' : b.events = c.events
      BY <2>1, <2>2
    <3>3. InFlight' = InFlight
      BY <3>1, <3>2 DEF InFlight
    <3>4. QED
      BY <2>1, <3>3, ElementsOfEmpty
  <2>4. Created \subseteq Created'
    BY <1>11 DEF WorkerKilled, Created
  <2>5. Numbered'
    BY <2>1, <2>4, NumberedStays
  <2>6. Accounted'
    BY <2>1, <2>2, AccountedStays
  <2>7. Known' /\ NothingLostSilently'
    BY <2>1, <2>3, MovesLoseNothing DEF Known
  <2>8. QED
    BY <1>0, <2>5, <2>6, <2>7
<1>12. QED
  BY <1>0, <1>1, <1>2, <1>3, <1>4, <1>6, <1>7, <1>8, <1>9, <1>10, <1>11 DEF RecorderNext

\* However often a recording is started, stopped or cut off: an event is in the
\* buffer, under way, in the table, taken along by a failure, or displaced by
\* an event that belongs to another session.
THEOREM RecorderLosesNothingSilently == RecorderSpec => []NothingLostSilently
<1>1. RecorderInit => RecorderLossInv
  BY InitLoss
<1>2. RecorderLossInv /\ [RecorderNext]_vars => RecorderLossInv'
  BY NextLoss
<1>3. RecorderLossInv => NothingLostSilently
  BY DEF RecorderLossInv
<1>4. QED
  BY <1>1, <1>2, <1>3, PTL DEF RecorderSpec

-----------------------------------------------------------------------------
(* The last flush comes before the end. *)

\* An event is in one place: in the buffer or in one call.
OnePlace ==
  /\ Elements(buffer) \cap InFlight = {}
  /\ \A b, c \in batches : b # c => Elements(b.events) \cap Elements(c.events) = {}

\* The call a stopSession awaits holds what it found in the buffer.
OwnFlush ==
  /\ \A b \in batches, k \in Stoppers :
       b.by = k /\ ~b.orphan => stop[k].at = "flush" /\ stop[k].due = Elements(b.events)
  /\ \A b, c \in batches :
       b.by \in Stoppers /\ b.by = c.by /\ ~b.orphan /\ ~c.orphan => b = c

\* While it awaits it, those events are in no other place.
DueIsApart ==
  \A k \in Stoppers : stop[k].at = "flush" =>
    /\ stop[k].due \cap Elements(buffer) = {}
    /\ \A b \in batches : stop[k].due \cap Elements(b.events) # {} =>
                            b.by = k /\ ~b.orphan

DueIsKnown == \A k \in Stoppers : stop[k].due \subseteq captured

RecorderFlushInv ==
  /\ RecorderTypeOK /\ Known
  /\ OnePlace /\ OwnFlush /\ DueIsApart /\ DueIsKnown /\ FinalFlushFirst

LEMMA InitFlush == RecorderInit => RecorderFlushInv
<1> SUFFICES ASSUME RecorderInit PROVE RecorderFlushInv
  OBVIOUS
<1>1. Elements(buffer) = {} /\ InFlight = {} /\ batches = {}
  BY ElementsOfEmpty DEF RecorderInit, InFlight
<1>2. \A k \in Stoppers : stop[k].due = {} /\ stop[k].at = "idle"
  BY DEF RecorderInit, Idle
<1>3. OnePlace /\ OwnFlush /\ DueIsApart /\ DueIsKnown /\ FinalFlushFirst
  BY <1>1, <1>2 DEF OnePlace, OwnFlush, DueIsApart, DueIsKnown, FinalFlushFirst
<1>4. QED
  BY <1>3, InitRecorderType, InitLoss DEF RecorderFlushInv, RecorderLossInv

\* Where the events are, and what the stop calls wait for.
FlushParts == OnePlace /\ OwnFlush /\ DueIsApart /\ DueIsKnown /\ FinalFlushFirst

\* A stop call that becomes idle waits for nothing; the others stand as before.
LEMMA FlushStays ==
  ASSUME RecorderFlushInv, UNCHANGED <<buffer, batches, captured>>,
         \A k \in Stoppers :
           \/ stop'[k] = stop[k]
           \/ stop'[k] = Idle /\ stop[k].at = "end"
  PROVE  FlushParts'
<1>1. InFlight' = InFlight
  BY DEF InFlight
<1>2. Idle.at = "idle" /\ Idle.due = {}
  BY DEF Idle
<1>3. OnePlace'
  BY <1>1 DEF RecorderFlushInv, OnePlace
<1>4. OwnFlush'
  BY DEF RecorderFlushInv, OwnFlush
<1>5. DueIsApart' /\ DueIsKnown'
  BY <1>2 DEF RecorderFlushInv, DueIsApart, DueIsKnown
<1>6. FinalFlushFirst'
  BY <1>1, <1>2 DEF RecorderFlushInv, FinalFlushFirst
<1>7. QED
  BY <1>3, <1>4, <1>5, <1>6 DEF FlushParts

\* A batch that leaves, with Resume: the stop call that awaited it has nothing
\* left in the buffer or under way, unless the call threw.
LEMMA FlushResumes ==
  ASSUME RecorderFlushInv, NEW b \in batches, NEW f \in BOOLEAN, Resume(b, f),
         batches' = batches \ {b}, captured' = captured,
         \/ Elements(buffer') = Elements(buffer)
         \/ f /\ ~b.orphan /\ Elements(buffer') = Elements(buffer) \cup Elements(b.events)
  PROVE  FlushParts'
<1> USE DEF RecorderFlushInv
<1>1. /\ InFlight' \subseteq InFlight
      /\ Elements(b.events) \subseteq InFlight /\ Elements(b.events) \cap InFlight' = {}
  <2>1. InFlight' \subseteq InFlight /\ Elements(b.events) \subseteq InFlight
    BY BatchLeaves, BatchesType
  <2>2. \A c \in batches' : Elements(b.events) \cap Elements(c.events) = {}
    BY DEF OnePlace
  <2>3. Elements(b.events) \cap InFlight' = {}
    BY <2>2 DEF InFlight
  <2>4. QED
    BY <2>1, <2>3
<1>2. Elements(buffer') \subseteq Elements(buffer) \cup Elements(b.events)
  OBVIOUS
<1>3. ASSUME NEW k \in Stoppers
      PROVE  /\ stop'[k].due = stop[k].due
             /\ IF k = b.by /\ ~b.orphan
                THEN stop'[k].at = "end" /\ stop'[k].failed = f
                ELSE stop'[k] = stop[k]
  BY DEF Resume, RecorderTypeOK, StopState
<1>4. OnePlace'
  <2>1. Elements(buffer') \cap InFlight' = {}
    BY <1>1, <1>2 DEF OnePlace
  <2>2. QED
    BY <2>1 DEF OnePlace
<1>5. OwnFlush'
  <2>1. ASSUME NEW c \in batches', NEW k \in Stoppers, c.by = k, ~c.orphan
        PROVE  stop'[k].at = "flush" /\ stop'[k].due = Elements(c.events)
    <3>1. c \in batches /\ c # b
      OBVIOUS
    <3>2. ~(k = b.by /\ ~b.orphan)
      BY <2>1, <3>1 DEF OwnFlush
    <3>3. QED
      BY <1>3, <2>1, <3>1, <3>2 DEF OwnFlush
  <2>2. QED
    BY <2>1 DEF OwnFlush
<1>6. DueIsApart'
  <2> SUFFICES ASSUME NEW k \in Stoppers, stop'[k].at = "flush"
               PROVE  /\ stop'[k].due \cap Elements(buffer') = {}
                      /\ \A c \in batches' : stop'[k].due \cap Elements(c.events) # {} =>
                                               c.by = k /\ ~c.orphan
    BY DEF DueIsApart
  <2>1. stop'[k] = stop[k] /\ ~(k = b.by /\ ~b.orphan)
    BY <1>3
  <2>2. stop[k].due \cap Elements(b.events) = {}
    BY <2>1 DEF DueIsApart
  <2>3. QED
    BY <1>2, <2>1, <2>2 DEF DueIsApart
<1>7. DueIsKnown'
  BY <1>3 DEF DueIsKnown
<1>8. FinalFlushFirst'
  <2> SUFFICES ASSUME NEW k \in Stoppers, stop'[k].at = "end", ~stop'[k].failed
               PROVE  stop'[k].due \cap (Elements(buffer') \cup InFlight') = {}
    BY DEF FinalFlushFirst
  <2>1. CASE k = b.by /\ ~b.orphan
    <3>1. stop'[k].due = Elements(b.events) /\ ~f
      BY <1>3, <2>1 DEF OwnFlush
    <3>2. QED
      BY <1>1, <3>1 DEF OnePlace
  <2>2. CASE ~(k = b.by /\ ~b.orphan)
    <3>1. stop'[k] = stop[k] /\ stop[k].due \cap (Elements(buffer) \cup InFlight) = {}
      BY <1>3, <2>2 DEF FinalFlushFirst
    <3>2. QED
      BY <1>1, <1>2, <3>1
  <2>3. QED
    BY <2>1, <2>2
<1>9. QED
  BY <1>4, <1>5, <1>6, <1>7, <1>8 DEF FlushParts

\* The buffer moves into a call: of the timer, which leaves the stop calls
\* alone, or of a stop call that was idle and from now on waits for it.
LEMMA FlushSends ==
  ASSUME RecorderFlushInv, NEW k \in {0} \cup Stoppers, SendBuffer(k), captured' = captured,
         \/ k = 0 /\ stop' = stop
         \/ k # 0 /\ stop[k].at = "idle" /\ Stopping(k, "flush")
  PROVE  FlushParts'
<1> USE DEF RecorderFlushInv
<1> DEFINE n == [to |-> session, events |-> buffer, by |-> k,
                 served |-> FALSE, orphan |-> FALSE]
<1>1. /\ n.events = buffer /\ n.by = k /\ n.orphan = FALSE
      /\ batches' = batches \cup {n}
  BY DEF SendBuffer
<1> HIDE DEF n
<1>2. Elements(buffer') = {} /\ InFlight' = InFlight \cup Elements(buffer)
  BY SendBufferMoves
<1>3. \A j \in Stoppers : j # k => stop'[j] = stop[j]
  BY DEF Stopping, RecorderTypeOK
<1>4. k \in Stoppers => /\ k # 0 /\ stop[k].at = "idle"
                        /\ stop'[k].at = "flush" /\ stop'[k].due = Elements(buffer)
  BY StoppersAssumption DEF Stopping, RecorderTypeOK
<1>5. \A b \in batches : Elements(b.events) \cap Elements(buffer) = {}
  BY BatchesType DEF OnePlace
<1>6. OnePlace'
  BY <1>1, <1>2, <1>5 DEF OnePlace
<1>7. OwnFlush'
  <2>1. \A b \in batches, j \in Stoppers : b.by = j /\ ~b.orphan => j # k
    BY <1>4 DEF OwnFlush
  <2>2. \A b \in batches', j \in Stoppers :
          b.by = j /\ ~b.orphan => stop'[j].at = "flush" /\ stop'[j].due = Elements(b.events)
    BY <1>1, <1>3, <1>4, <2>1 DEF OwnFlush
  <2>3. \A b, c \in batches' :
          b.by \in Stoppers /\ b.by = c.by /\ ~b.orphan /\ ~c.orphan => b = c
    BY <1>1, <2>1 DEF OwnFlush
  <2>4. QED
    BY <2>2, <2>3 DEF OwnFlush
<1>8. DueIsApart'
  <2> SUFFICES ASSUME NEW j \in Stoppers, stop'[j].at = "flush"
               PROVE  /\ stop'[j].due \cap Elements(buffer') = {}
                      /\ \A c \in batches' : stop'[j].due \cap Elements(c.events) # {} =>
                                               c.by = j /\ ~c.orphan
    BY DEF DueIsApart
  <2>1. CASE j = k
    BY <1>1, <1>2, <1>4, <1>5, <2>1
  <2>2. CASE j # k
    BY <1>1, <1>2, <1>3, <2>2 DEF DueIsApart
  <2>3. QED
    BY <2>1, <2>2
<1>9. DueIsKnown'
  BY <1>3, <1>4 DEF DueIsKnown, Known
<1>10. FinalFlushFirst'
  BY <1>2, <1>3, <1>4 DEF FinalFlushFirst
<1>11. QED
  BY <1>6, <1>7, <1>8, <1>9, <1>10 DEF FlushParts

LEMMA NextFlush ==
  RecorderFlushInv /\ Known' /\ [RecorderNext]_vars => RecorderFlushInv'
<1> SUFFICES ASSUME RecorderFlushInv, Known', [RecorderNext]_vars PROVE RecorderFlushInv'
  OBVIOUS
<1>0. SUFFICES FlushParts'
  BY NextRecorderType DEF RecorderFlushInv, FlushParts
<1>1. CASE AskStart \/ StartFailed \/ OpenPanel \/ UNCHANGED vars
  <2>1. UNCHANGED <<buffer, batches, captured, stop>>
    BY <1>1 DEF AskStart, StartFailed, OpenPanel, vars, workerVars, ghostVars
  <2>2. QED
    BY <2>1, FlushStays
<1>2. ASSUME NEW s \in SessionIds, StartAnswered(s) PROVE FlushParts'
  BY <1>2, FlushStays DEF StartAnswered, ghostVars
<1>3. ASSUME NEW n \in 1 .. MaxEvents, Capture(n) PROVE FlushParts'
  <2> DEFINE e == [id |-> n, num |-> counter, in |-> session]
  <2>1. /\ buffer' = Append(buffer, e) /\ captured' = captured \cup {e}
        /\ e.id = n /\ n \notin {f.id : f \in captured}
        /\ UNCHANGED <<stop, batches>>
    BY <1>3 DEF Capture
  <2>2. e \in Event
    BY RecorderBounds DEF Event, RecorderFlushInv, RecorderTypeOK, SessionIds
  <2> HIDE DEF e
  <2>3. e \notin captured
    BY <2>1
  <2>4. Elements(buffer') = Elements(buffer) \cup {e}
    BY <2>1, <2>2, ElementsOfAppend DEF RecorderFlushInv, RecorderTypeOK
  <2>5. InFlight' = InFlight /\ e \notin InFlight
    BY <2>1, <2>3 DEF RecorderFlushInv, Known, InFlight
  <2>6. \A k \in Stoppers : e \notin stop[k].due
    BY <2>3 DEF RecorderFlushInv, DueIsKnown
  <2>7. OnePlace' /\ OwnFlush'
    BY <2>1, <2>4, <2>5 DEF RecorderFlushInv, OnePlace, OwnFlush
  <2>8. DueIsApart' /\ DueIsKnown' /\ FinalFlushFirst'
    BY <2>1, <2>4, <2>5, <2>6 DEF RecorderFlushInv, DueIsApart, DueIsKnown, FinalFlushFirst
  <2>9. QED
    BY <2>7, <2>8 DEF FlushParts
<1>4. CASE FlushTick
  BY <1>4, FlushSends DEF FlushTick, ghostVars
<1>5. ASSUME NEW b \in batches, BatchServed(b) PROVE FlushParts'
  <2> DEFINE d == [b EXCEPT !.served = TRUE]
  <2>1. batches' = (batches \ {b}) \cup {d} /\ UNCHANGED <<buffer, captured, stop>>
    BY <1>5 DEF BatchServed, workerVars
  <2>2. d.events = b.events /\ d.by = b.by /\ d.orphan = b.orphan
    BY BatchesType DEF Batch, RecorderFlushInv
  <2> HIDE DEF d
  <2>3. InFlight' = InFlight
    BY <2>1, <2>2 DEF InFlight
  <2>4. OnePlace'
    BY <2>1, <2>2, <2>3 DEF RecorderFlushInv, OnePlace
  <2>5. OwnFlush'
    BY <2>1, <2>2 DEF RecorderFlushInv, OwnFlush
  <2>6. DueIsApart' /\ DueIsKnown'
    BY <2>1, <2>2 DEF RecorderFlushInv, DueIsApart, DueIsKnown
  <2>7. FinalFlushFirst'
    BY <2>1, <2>3 DEF RecorderFlushInv, FinalFlushFirst
  <2>8. QED
    BY <2>4, <2>5, <2>6, <2>7 DEF FlushParts
<1>6. ASSUME NEW b \in batches, BatchAnswered(b) \/ BatchRefused(b) PROVE FlushParts'
  BY <1>6, FlushResumes DEF BatchAnswered, BatchRefused, ghostVars
<1>7. ASSUME NEW b \in batches, BatchThrows(b) PROVE FlushParts'
  <2>1. CASE b.orphan
    BY <1>7, <2>1, FlushResumes DEF BatchThrows
  <2>2. CASE ~b.orphan
    <3>1. Elements(buffer') = Elements(buffer) \cup Elements(b.events)
      BY <1>7, <2>2, BatchesType, ElementsOfConcat
         DEF BatchThrows, RecorderFlushInv, RecorderTypeOK
    <3>2. QED
      BY <1>7, <2>2, <3>1, FlushResumes DEF BatchThrows
  <2>3. QED
    BY <2>1, <2>2
<1>8. ASSUME NEW k \in Stoppers, AskStop(k) PROVE FlushParts'
  <2>1. captured' = captured /\ stop[k].at = "idle" /\ k # 0
    BY <1>8, StoppersAssumption DEF AskStop, ghostVars
  <2>2. CASE buffer # <<>> /\ Stopping(k, "flush") /\ SendBuffer(k)
    BY <2>1, <2>2, FlushSends
  <2>3. CASE buffer = <<>> /\ Stopping(k, "end") /\ UNCHANGED <<buffer, batches>>
    <3>1. Elements(buffer) = {} /\ InFlight' = InFlight
      BY <2>3, ElementsOfEmpty DEF InFlight
    <3>2. /\ stop'[k].at = "end" /\ stop'[k].due = {}
          /\ \A j \in Stoppers : j # k => stop'[j] = stop[j]
      BY <2>3, <3>1 DEF Stopping, RecorderFlushInv, RecorderTypeOK
    <3>3. OnePlace'
      BY <2>3, <3>1 DEF RecorderFlushInv, OnePlace
    <3>4. OwnFlush'
      BY <2>1, <2>3, <3>2 DEF RecorderFlushInv, OwnFlush
    <3>5. DueIsApart' /\ DueIsKnown' /\ FinalFlushFirst'
      BY <2>1, <2>3, <3>1, <3>2
         DEF RecorderFlushInv, DueIsApart, DueIsKnown, FinalFlushFirst
    <3>6. QED
      BY <3>3, <3>4, <3>5 DEF FlushParts
  <2>4. QED
    BY <1>8, <2>2, <2>3 DEF AskStop
<1>9. ASSUME NEW k \in Stoppers, EndServed(k) PROVE FlushParts'
  BY <1>9, FlushStays DEF EndServed, workerVars, ghostVars
<1>10. ASSUME NEW k \in Stoppers, EndAnswered(k) PROVE FlushParts'
  <2>1. /\ UNCHANGED <<buffer, batches, captured>>
        /\ stop[k].at = "end" /\ stop' = [stop EXCEPT ![k] = Idle]
    BY <1>10 DEF EndAnswered
  <2>2. QED
    BY <2>1, FlushStays DEF RecorderFlushInv, RecorderTypeOK
<1>11. CASE WorkerKilled
  <2>1. /\ buffer' = <<>> /\ captured' = captured
        /\ batches' = {[b EXCEPT !.orphan = TRUE] : b \in batches}
        /\ \A k \in Stoppers : stop'[k] = Idle
    BY <1>11 DEF WorkerKilled
  <2>2. \A b \in batches : /\ [b EXCEPT !.orphan = TRUE].events = b.events
                           /\ [b EXCEPT !.orphan = TRUE].orphan
    BY BatchesType DEF Batch, RecorderFlushInv
  <2>3. Idle.at = "idle" /\ Idle.due = {}
    BY DEF Idle
  <2>4. Elements(buffer') = {}
    BY <2>1, ElementsOfEmpty
  <2>5. OnePlace'
    <3>1. \A c \in batches' : \E b \in batches :
            c = [b EXCEPT !.orphan = TRUE] /\ c.events = b.events
      BY <2>1, <2>2
    <3>2. \A c, d \in batches' : c # d => Elements(c.events) \cap Elements(d.events) = {}
      BY <3>1 DEF RecorderFlushInv, OnePlace
    <3>3. QED
      BY <2>4, <3>2 DEF OnePlace
  <2>6. OwnFlush'
    BY <2>1, <2>2 DEF OwnFlush
  <2>7. DueIsApart' /\ DueIsKnown' /\ FinalFlushFirst'
    BY <2>1, <2>3 DEF DueIsApart, DueIsKnown, FinalFlushFirst
  <2>8. QED
    BY <2>5, <2>6, <2>7 DEF FlushParts
<1>12. QED
  BY <1>1, <1>2, <1>3, <1>4, <1>5, <1>6, <1>7, <1>8, <1>9, <1>10, <1>11 DEF RecorderNext

\* However the calls, the timer and the failures interleave: a stop that did
\* not see its own flush throw ends the session after every event it found in
\* the buffer was answered.
THEOREM RecorderFlushesFirst == RecorderSpec => []FinalFlushFirst
<1>1. RecorderInit => RecorderLossInv /\ RecorderFlushInv
  BY InitLoss, InitFlush
<1>2. RecorderLossInv /\ RecorderFlushInv /\ [RecorderNext]_vars =>
        RecorderLossInv' /\ RecorderFlushInv'
  BY NextLoss, NextFlush DEF RecorderLossInv
<1>3. RecorderFlushInv => FinalFlushFirst
  BY DEF RecorderFlushInv
<1>4. QED
  BY <1>1, <1>2, <1>3, PTL DEF RecorderSpec
=============================================================================
