------------------------- MODULE SessionPageProofs -------------------------
(***************************************************************************)
(* For any number of connections, changes, entries and faults: what the    *)
(* page and its calls hold, and that none of it was made up.               *)
(***************************************************************************)
EXTENDS SessionPage, TLAPS

\* A row, a status or an entry that the page shows, that an answer carries or
\* that an event tells of is one the database has had.
NothingInvented ==
  /\ session # NoSession => session.status <= db.status /\ session.row <= db.row
  /\ \A s \in Slots : call[s] # Idle =>
       call[s].body.status <= db.status /\ call[s].body.row <= db.row
  /\ \A s \in Slots : masterCall[s] # Idle => masterCall[s].body <= entries
  /\ \A n \in DOMAIN master : master[n] <= entries
  /\ \A n \in DOMAIN queue :
       /\ queue[n].kind = "row" => queue[n].value <= db.row
       /\ queue[n].kind = "entry" => queue[n].value \in 1 .. entries

\* The agent sends an entry that it has persisted, and never persists too many.
AgentInStep ==
  /\ agent = "persist" => entries < MaxEntries
  /\ agent = "send" => entries > 0
  /\ agent = "done" => entries = MaxEntries

\* Events are got from a stream that is open.
QueueIsOpen == sse # "open" => queue = <<>>

\* When the master node is done and no event got lost, no entry comes any more
\* without the event behind it that says so.
EntriesBeforeTheEnd ==
  agent = "done" /\ ~missed =>
    \A n \in DOMAIN queue : queue[n].kind = "entry" =>
      \E m \in DOMAIN queue : m > n /\ queue[m].kind = "terminal"

\* ... and the panel has all of it, or an answer that has all of it will be
\* kept, or the page is about to ask, or it has still to hear of the end.
TheEndIsNotLost ==
  agent = "done" /\ ~missed /\ session # NoSession =>
    \/ \E n \in DOMAIN queue : queue[n].kind = "terminal"
    \/ masterWanted
    \/ newest # 0 /\ masterCall[newest].body = MaxEntries
    \/ newest = 0 /\ master = Upto(MaxEntries)

PageInv ==
  /\ PageTypeOK /\ NothingInvented /\ AgentInStep
  /\ QueueIsOpen /\ EntriesBeforeTheEnd /\ TheEndIsNotLost

-----------------------------------------------------------------------------
(* What the variables hold. *)

LEMMA ShownFacts ==
  /\ NoSession \notin Snapshot
  /\ \A s \in Shown : s # NoSession => s \in Snapshot
  /\ \A s \in Shown : s.status = NoSession.status <=> s = NoSession
  /\ \A s, t \in Shown : s.status = t.status => (s = NoSession <=> t = NoSession)
BY PageBounds DEF Shown, Snapshot, NoSession

LEMMA CallFacts ==
  ASSUME PageTypeOK, NEW s \in Slots
  PROVE  /\ call[s].at = "answered" => call[s] # Idle
         /\ call[s] # Idle => call[s].body \in Snapshot
         /\ masterCall[s].at = "answered" => masterCall[s] # Idle
         /\ masterCall[s] # Idle => masterCall[s].body \in 0 .. MaxEntries
<1>1. /\ call[s] \in {Idle} \cup {Got(x) : x \in Snapshot}
      /\ masterCall[s] \in {Idle} \cup {Got(n) : n \in 0 .. MaxEntries}
  BY DEF PageTypeOK
<1>2. QED
  BY <1>1 DEF Idle, Got

LEMMA GotIs == \A x : Got(x) # Idle /\ Got(x).body = x
BY DEF Got, Idle

LEMMA EmptyIs == \A S : <<>> \in Seq(S)
OBVIOUS

LEMMA Elements ==
  ASSUME NEW S, NEW q \in Seq(S)
  PROVE  \A n \in DOMAIN q : q[n] \in S
OBVIOUS

LEMMA UptoIs ==
  ASSUME NEW n \in 0 .. MaxEntries
  PROVE  Upto(n) \in Seq(1 .. MaxEntries) /\ \A k \in DOMAIN Upto(n) : Upto(n)[k] <= n
<1> DEFINE f == Upto(n)
<1>1. n \in Nat /\ f \in [1 .. n -> 1 .. MaxEntries]
  BY PageBounds DEF Upto
<1>2. \A k \in 1 .. n : f[k] = k
  BY DEF Upto
<1> HIDE DEF f
<1>3. DOMAIN f = 1 .. n /\ \A S : f \in [1 .. n -> S] => f \in Seq(S)
  BY <1>1
<1>4. f \in Seq(1 .. MaxEntries) /\ \A k \in DOMAIN f : f[k] <= n
  <2>1. f \in Seq(1 .. MaxEntries)
    BY <1>1, <1>3, Zenon
  <2>2. QED
    BY <1>1, <1>2, <1>3, <2>1
<1>5. QED
  BY <1>4 DEF f

\* An event that is added comes last.
LEMMA AddedIs ==
  ASSUME NEW S, NEW q \in Seq(S), NEW e \in S
  PROVE  LET a == Append(q, e)
         IN  /\ a \in Seq(S) /\ Len(q) + 1 \in DOMAIN a /\ a[Len(q) + 1] = e
             /\ \A n \in DOMAIN q : n \in DOMAIN a /\ a[n] = q[n] /\ n < Len(q) + 1
             /\ \A n \in DOMAIN a : n = Len(q) + 1 \/ (n \in DOMAIN q /\ a[n] = q[n])
OBVIOUS

LEMMA HandledIs ==
  ASSUME NEW S, NEW q \in Seq(S), q # <<>>
  PROVE  LET a == Tail(q)
         IN  /\ a \in Seq(S) /\ Head(q) = q[1] /\ 1 \in DOMAIN q /\ Head(q) \in S
             /\ \A n \in DOMAIN a : n + 1 \in DOMAIN q /\ a[n] = q[n + 1] /\ n \in Nat
             /\ \A n \in DOMAIN q : n \in Nat /\ (n > 1 => n - 1 \in DOMAIN a /\ a[n - 1] = q[n])
OBVIOUS

\* What an event that is published does to the queue.
LEMMA PublishIs ==
  ASSUME PageTypeOK, QueueIsOpen, NEW e \in Event, Publish(e)
  PROVE  /\ queue' \in Seq(Event) /\ missed' \in BOOLEAN
         /\ \A n \in DOMAIN queue' :
              queue'[n] = e \/ (n \in DOMAIN queue /\ queue'[n] = queue[n])
         /\ sse # "open" => queue' = <<>>
         /\ ~missed' => /\ ~missed
                        /\ \A n \in DOMAIN queue : n \in DOMAIN queue' /\ queue'[n] = queue[n]
                        /\ \E m \in DOMAIN queue' : /\ queue'[m] = e
                                                    /\ \A n \in DOMAIN queue : m > n
                                                    /\ \A n \in DOMAIN queue' : n = m \/ n \in DOMAIN queue
<1>1. queue \in Seq(Event) /\ missed \in BOOLEAN
  BY DEF PageTypeOK
<1>2. CASE sse = "open"
  <2>1. queue' = Append(queue, e) /\ missed' = missed
    BY <1>2 DEF Publish
  <2> DEFINE a == Append(queue, e)
             l == Len(queue) + 1
  <2>2. /\ a \in Seq(Event) /\ l \in DOMAIN a /\ a[l] = e
        /\ \A n \in DOMAIN queue : n \in DOMAIN a /\ a[n] = queue[n] /\ n < l /\ n \in Nat
        /\ \A n \in DOMAIN a : n = l \/ (n \in DOMAIN queue /\ a[n] = queue[n])
        /\ l \in Nat
    BY <1>1, AddedIs
  <2>3. queue' = a
    BY <2>1
  <2> HIDE DEF a, l
  <2>4. \A n \in DOMAIN queue : l > n
    BY <2>2
  <2>5. QED
    BY <1>1, <1>2, <2>1, <2>2, <2>3, <2>4
<1>3. CASE sse # "open"
  BY <1>1, <1>3 DEF Publish, QueueIsOpen
<1>4. QED
  BY <1>2, <1>3

-----------------------------------------------------------------------------
(* The backend. *)

LEMMA ChangeStatusIs == PageInv /\ ChangeStatus => PageInv'
<1> SUFFICES ASSUME PageInv, ChangeStatus PROVE PageInv'
  OBVIOUS
<1> DEFINE e == [kind |-> "fetch", value |-> db.status + 1]
<1>1. /\ PageTypeOK /\ NothingInvented /\ AgentInStep
      /\ QueueIsOpen /\ EntriesBeforeTheEnd /\ TheEndIsNotLost
  BY DEF PageInv
<1>2. /\ db \in Snapshot /\ db.status \in Nat /\ db.row \in Nat /\ db.status < MaxStatus
      /\ db' = [status |-> db.status + 1, row |-> db.row] /\ db' \in Snapshot
  BY <1>1, PageBounds DEF ChangeStatus, PageTypeOK, Snapshot
<1>3. e \in Event /\ e.kind = "fetch" /\ Publish(e)
  BY <1>2 DEF Event, EventKinds, ChangeStatus
<1> HIDE DEF e
<1>4. /\ queue' \in Seq(Event) /\ missed' \in BOOLEAN
      /\ \A n \in DOMAIN queue' : queue'[n] = e \/ (n \in DOMAIN queue /\ queue'[n] = queue[n])
      /\ sse # "open" => queue' = <<>>
      /\ ~missed' => ~missed /\ \A n \in DOMAIN queue : n \in DOMAIN queue' /\ queue'[n] = queue[n]
  BY <1>1, <1>3, PublishIs
<1>5. UNCHANGED <<entries, agent, session, wanted, call, master, masterWanted, masterCall, newest,
                  sse, polling, faults>>
  BY DEF ChangeStatus, sessionVars, masterVars
<1>6. PageTypeOK'
  BY <1>1, <1>2, <1>4, <1>5 DEF PageTypeOK
<1>7. NothingInvented'
  <2>1. \A s \in Snapshot : s.status \in Nat /\ s.row \in Nat
    BY PageBounds DEF Snapshot
  <2>2. session # NoSession => session.status <= db'.status /\ session.row <= db'.row
    BY <1>1, <1>2, <2>1, ShownFacts DEF PageTypeOK, NothingInvented
  <2>3. \A s \in Slots : call[s] # Idle => call[s].body.status <= db'.status /\ call[s].body.row <= db'.row
    BY <1>1, <1>2, <2>1, CallFacts DEF NothingInvented
  <2>4. \A n \in DOMAIN queue' : /\ queue'[n].kind = "row" => queue'[n].value <= db'.row
                                 /\ queue'[n].kind = "entry" => queue'[n].value \in 1 .. entries
    BY <1>1, <1>2, <1>3, <1>4 DEF NothingInvented
  <2>5. QED
    BY <1>1, <1>5, <2>2, <2>3, <2>4 DEF NothingInvented, NoSession, Idle
<1>8. AgentInStep' /\ QueueIsOpen'
  BY <1>1, <1>4, <1>5 DEF AgentInStep, QueueIsOpen
<1>9. EntriesBeforeTheEnd'
  BY <1>1, <1>3, <1>4, <1>5 DEF EntriesBeforeTheEnd
<1>10. TheEndIsNotLost'
  BY <1>1, <1>4, <1>5 DEF TheEndIsNotLost, NoSession, Upto
<1>11. QED
  BY <1>6, <1>7, <1>8, <1>9, <1>10 DEF PageInv

LEMMA ChangeRowIs == PageInv /\ ChangeRow => PageInv'
<1> SUFFICES ASSUME PageInv, ChangeRow PROVE PageInv'
  OBVIOUS
<1> DEFINE e == [kind |-> "row", value |-> db.row + 1]
<1>1. /\ PageTypeOK /\ NothingInvented /\ AgentInStep
      /\ QueueIsOpen /\ EntriesBeforeTheEnd /\ TheEndIsNotLost
  BY DEF PageInv
<1>2. /\ db \in Snapshot /\ db.status \in Nat /\ db.row \in Nat /\ db.row < MaxRow
      /\ db' = [status |-> db.status, row |-> db.row + 1] /\ db' \in Snapshot
  BY <1>1, PageBounds DEF ChangeRow, PageTypeOK, Snapshot
<1>3. e \in Event /\ e.kind = "row" /\ e.value = db'.row /\ Publish(e)
  BY <1>2 DEF Event, EventKinds, ChangeRow
<1> HIDE DEF e
<1>4. /\ queue' \in Seq(Event) /\ missed' \in BOOLEAN
      /\ \A n \in DOMAIN queue' : queue'[n] = e \/ (n \in DOMAIN queue /\ queue'[n] = queue[n])
      /\ sse # "open" => queue' = <<>>
      /\ ~missed' => ~missed /\ \A n \in DOMAIN queue : n \in DOMAIN queue' /\ queue'[n] = queue[n]
  BY <1>1, <1>3, PublishIs
<1>5. UNCHANGED <<entries, agent, session, wanted, call, master, masterWanted, masterCall, newest,
                  sse, polling, faults>>
  BY DEF ChangeRow, sessionVars, masterVars
<1>6. PageTypeOK'
  BY <1>1, <1>2, <1>4, <1>5 DEF PageTypeOK
<1>7. NothingInvented'
  <2>1. \A s \in Snapshot : s.status \in Nat /\ s.row \in Nat
    BY PageBounds DEF Snapshot
  <2>2. session # NoSession => session.status <= db'.status /\ session.row <= db'.row
    BY <1>1, <1>2, <2>1, ShownFacts DEF PageTypeOK, NothingInvented
  <2>3. \A s \in Slots : call[s] # Idle => call[s].body.status <= db'.status /\ call[s].body.row <= db'.row
    BY <1>1, <1>2, <2>1, CallFacts DEF NothingInvented
  <2>4. \A n \in DOMAIN queue' : /\ queue'[n].kind = "row" => queue'[n].value <= db'.row
                                 /\ queue'[n].kind = "entry" => queue'[n].value \in 1 .. entries
    <3>1. queue \in Seq(Event)
      BY <1>1 DEF PageTypeOK
    <3>2. \A n \in DOMAIN queue : queue[n] \in Event
      BY <3>1, Elements
    <3>3. \A n \in DOMAIN queue : queue[n].value \in Nat
      BY <3>2 DEF Event
    <3>4. QED
      BY <1>1, <1>2, <1>3, <1>4, <3>3 DEF NothingInvented
  <2>5. QED
    BY <1>1, <1>5, <2>2, <2>3, <2>4 DEF NothingInvented, NoSession, Idle
<1>8. AgentInStep' /\ QueueIsOpen'
  BY <1>1, <1>4, <1>5 DEF AgentInStep, QueueIsOpen
<1>9. EntriesBeforeTheEnd'
  BY <1>1, <1>3, <1>4, <1>5 DEF EntriesBeforeTheEnd
<1>10. TheEndIsNotLost'
  BY <1>1, <1>4, <1>5 DEF TheEndIsNotLost, NoSession, Upto
<1>11. QED
  BY <1>6, <1>7, <1>8, <1>9, <1>10 DEF PageInv

LEMMA AgentStepsIs == PageInv /\ AgentSteps => PageInv'
<1> SUFFICES ASSUME PageInv, AgentSteps PROVE PageInv'
  OBVIOUS
<1>1. /\ PageTypeOK /\ NothingInvented /\ AgentInStep
      /\ QueueIsOpen /\ EntriesBeforeTheEnd /\ TheEndIsNotLost
  BY DEF PageInv
<1>2. UNCHANGED <<db, session, wanted, call, master, masterWanted, masterCall, newest,
                  sse, polling, faults>>
  BY DEF AgentSteps, sessionVars, masterVars
<1>3. entries \in Nat /\ entries <= MaxEntries /\ MaxEntries \in Nat
  BY <1>1, PageBounds DEF PageTypeOK
<1>4. CASE agent = "persist" /\ agent' = "send" /\ entries' = entries + 1 /\ UNCHANGED <<queue, missed>>
  <2>1. entries' \in 0 .. MaxEntries /\ entries' > 0
    BY <1>1, <1>3, <1>4 DEF AgentInStep
  <2>2. PageTypeOK'
    BY <1>1, <1>2, <1>4, <2>1 DEF PageTypeOK
  <2>3. NothingInvented'
    <3>1. \A s \in Slots : masterCall[s] # Idle => masterCall[s].body <= entries'
      BY <1>1, <1>3, <1>4, CallFacts DEF NothingInvented
    <3>2. \A n \in DOMAIN master : master[n] <= entries'
      <4>1. \A n \in DOMAIN master : master[n] \in 1 .. MaxEntries
        BY <1>1, Elements DEF PageTypeOK
      <4>2. QED
        BY <1>1, <1>3, <1>4, <4>1 DEF NothingInvented
    <3>3. \A n \in DOMAIN queue : queue[n].kind = "entry" => queue[n].value \in 1 .. entries'
      BY <1>1, <1>3, <1>4 DEF NothingInvented
    <3>4. QED
      BY <1>1, <1>2, <1>4, <3>1, <3>2, <3>3 DEF NothingInvented, NoSession, Idle
  <2>4. AgentInStep' /\ QueueIsOpen' /\ EntriesBeforeTheEnd' /\ TheEndIsNotLost'
    BY <1>1, <1>2, <1>4, <2>1 DEF AgentInStep, QueueIsOpen, EntriesBeforeTheEnd, TheEndIsNotLost
  <2>5. QED
    BY <2>2, <2>3, <2>4 DEF PageInv
<1>5. CASE \E k \in {"stop", "entry", "terminal"} :
             /\ k = "stop" => agent = "stop" /\ entries < MaxEntries /\ agent' = "persist"
             /\ k = "entry" => agent = "send" /\ agent' = "stop"
             /\ k = "terminal" => agent = "stop" /\ entries = MaxEntries /\ agent' = "done"
             /\ Publish([kind |-> k, value |-> entries])
             /\ UNCHANGED entries
  <2>1. PICK k \in {"stop", "entry", "terminal"} :
             /\ k = "stop" => agent = "stop" /\ entries < MaxEntries /\ agent' = "persist"
             /\ k = "entry" => agent = "send" /\ agent' = "stop"
             /\ k = "terminal" => agent = "stop" /\ entries = MaxEntries /\ agent' = "done"
             /\ Publish([kind |-> k, value |-> entries])
             /\ entries' = entries
    BY <1>5
  <2> DEFINE e == [kind |-> k, value |-> entries]
  <2>2. e \in Event /\ e.kind = k /\ e.value = entries /\ Publish(e)
    BY <1>3, <2>1 DEF Event, EventKinds
  <2> HIDE DEF e
  <2>3. /\ queue' \in Seq(Event) /\ missed' \in BOOLEAN
        /\ \A n \in DOMAIN queue' : queue'[n] = e \/ (n \in DOMAIN queue /\ queue'[n] = queue[n])
        /\ sse # "open" => queue' = <<>>
        /\ ~missed' => /\ ~missed
                       /\ \A n \in DOMAIN queue : n \in DOMAIN queue' /\ queue'[n] = queue[n]
                       /\ \E m \in DOMAIN queue' : /\ queue'[m] = e
                                                   /\ \A n \in DOMAIN queue : m > n
                                                   /\ \A n \in DOMAIN queue' : n = m \/ n \in DOMAIN queue
    BY <1>1, <2>2, PublishIs
  <2>4. PageTypeOK'
    BY <1>1, <1>2, <2>1, <2>3 DEF PageTypeOK
  <2>5. NothingInvented'
    <3>1. \A n \in DOMAIN queue' : /\ queue'[n].kind = "row" => queue'[n].value <= db.row
                                   /\ queue'[n].kind = "entry" => queue'[n].value \in 1 .. entries
      BY <1>1, <1>3, <2>1, <2>2, <2>3 DEF NothingInvented, AgentInStep
    <3>2. QED
      BY <1>1, <1>2, <2>1, <3>1 DEF NothingInvented, NoSession, Idle
  <2>6. AgentInStep' /\ QueueIsOpen'
    BY <1>1, <1>2, <2>1, <2>3 DEF AgentInStep, QueueIsOpen
  <2>7. EntriesBeforeTheEnd'
    <3> SUFFICES ASSUME agent' = "done", ~missed', NEW n \in DOMAIN queue', queue'[n].kind = "entry"
                 PROVE  \E m \in DOMAIN queue' : m > n /\ queue'[m].kind = "terminal"
      BY DEF EntriesBeforeTheEnd
    <3>1. k = "terminal"
      BY <2>1
    <3>2. QED
      BY <2>2, <2>3, <3>1
  <2>8. TheEndIsNotLost'
    <3> SUFFICES ASSUME agent' = "done", ~missed'
                 PROVE  \E n \in DOMAIN queue' : queue'[n].kind = "terminal"
      BY DEF TheEndIsNotLost
    <3>1. k = "terminal"
      BY <2>1
    <3>2. QED
      BY <2>2, <2>3, <3>1
  <2>9. QED
    BY <2>4, <2>5, <2>6, <2>7, <2>8 DEF PageInv
<1>6. QED
  BY <1>4, <1>5 DEF AgentSteps

-----------------------------------------------------------------------------
(* The panel of the master node. *)

LEMMA ServeMasterCallIs == ASSUME PageInv, NEW s \in Slots, ServeMasterCall(s) PROVE PageInv'
<1>1. /\ PageTypeOK /\ NothingInvented /\ AgentInStep
      /\ QueueIsOpen /\ EntriesBeforeTheEnd /\ TheEndIsNotLost
  BY DEF PageInv
<1>2. /\ masterCall' = [masterCall EXCEPT ![s] = Got(entries)] /\ masterWanted' = FALSE /\ newest' = s
      /\ UNCHANGED <<db, entries, agent, session, wanted, call, master, sse, queue, polling, missed>>
  BY DEF ServeMasterCall, serverVars, sessionVars, streamVars
<1>3. /\ masterCall \in [Slots -> {Idle} \cup {Got(n) : n \in 0 .. MaxEntries}]
      /\ entries \in 0 .. MaxEntries
  BY <1>1 DEF PageTypeOK
<1>4. /\ masterCall' \in [Slots -> {Idle} \cup {Got(n) : n \in 0 .. MaxEntries}]
      /\ masterCall'[s] = Got(entries) /\ \A t \in Slots \ {s} : masterCall'[t] = masterCall[t]
  BY <1>2, <1>3
<1>5. masterCall'[s] # Idle /\ masterCall'[s].body = entries
  BY <1>4, GotIs
<1>6. PageTypeOK'
  BY <1>1, <1>2, <1>4, <1>5 DEF PageTypeOK, Idle
<1>7. NothingInvented'
  BY <1>1, <1>2, <1>3, <1>4, <1>5 DEF NothingInvented, NoSession, Idle
<1>8. AgentInStep' /\ QueueIsOpen' /\ EntriesBeforeTheEnd'
  BY <1>1, <1>2 DEF AgentInStep, QueueIsOpen, EntriesBeforeTheEnd
<1>9. TheEndIsNotLost'
  <2>1. s # 0
    BY SlotsAssumption
  <2>2. QED
    BY <1>1, <1>2, <1>5, <2>1 DEF TheEndIsNotLost, AgentInStep
<1>10. QED
  BY <1>6, <1>7, <1>8, <1>9 DEF PageInv

\* An answer is taken or the call fails.
LEMMA MasterCallEnds ==
  ASSUME PageInv, NEW s \in Slots, MasterAnswer(s) \/ MasterCallFails(s) PROVE PageInv'
<1>1. /\ PageTypeOK /\ NothingInvented /\ AgentInStep
      /\ QueueIsOpen /\ EntriesBeforeTheEnd /\ TheEndIsNotLost
  BY DEF PageInv
<1>2. /\ masterCall[s] # Idle /\ masterCall' = [masterCall EXCEPT ![s] = Idle]
      /\ UNCHANGED <<db, entries, agent, session, wanted, call, masterWanted, sse, queue, polling>>
      /\ \/ s # newest /\ UNCHANGED <<master, newest, missed>>
         \/ s = newest /\ newest' = 0 /\ master' = Upto(masterCall[s].body) /\ missed' = missed
         \/ s = newest /\ newest' = 0 /\ master' = <<>> /\ missed' = TRUE
  BY <1>1, CallFacts DEF MasterAnswer, MasterCallFails, Latest, serverVars, sessionVars, streamVars
<1>3. masterCall \in [Slots -> {Idle} \cup {Got(n) : n \in 0 .. MaxEntries}]
  BY <1>1 DEF PageTypeOK
<1>4. /\ masterCall' \in [Slots -> {Idle} \cup {Got(n) : n \in 0 .. MaxEntries}]
      /\ masterCall'[s] = Idle /\ \A t \in Slots \ {s} : masterCall'[t] = masterCall[t]
  BY <1>2, <1>3
<1>5. masterCall[s].body \in 0 .. MaxEntries /\ masterCall[s].body <= entries
  BY <1>1, <1>2, CallFacts DEF NothingInvented
<1>6. /\ master' \in Seq(1 .. MaxEntries) /\ \A n \in DOMAIN master' : master'[n] <= entries
      /\ missed' \in BOOLEAN
  <2>1. CASE s # newest /\ UNCHANGED <<master, newest, missed>>
    BY <1>1, <2>1 DEF PageTypeOK, NothingInvented
  <2>2. CASE s = newest /\ newest' = 0 /\ master' = Upto(masterCall[s].body) /\ missed' = missed
    <3> DEFINE m == masterCall[s].body
               f == Upto(m)
    <3>1. f \in Seq(1 .. MaxEntries) /\ \A k \in DOMAIN f : f[k] <= m
      BY <1>5, UptoIs
    <3>2. \A k \in DOMAIN f : f[k] \in 1 .. MaxEntries
      BY <3>1, Elements
    <3>3. m \in Nat /\ entries \in Nat /\ m <= entries /\ MaxEntries \in Nat
      BY <1>1, <1>5, PageBounds DEF PageTypeOK
    <3>4. master' = f
      BY <2>2
    <3> HIDE DEF f, m
    <3>5. QED
      BY <1>1, <2>2, <3>1, <3>2, <3>3, <3>4 DEF PageTypeOK
  <2>3. CASE s = newest /\ newest' = 0 /\ master' = <<>> /\ missed' = TRUE
    BY <2>3
  <2>4. QED
    BY <1>2, <2>1, <2>2, <2>3
<1>7. newest' \in {0} \cup Slots /\ (newest' # 0 => masterCall'[newest'] # Idle)
  BY <1>1, <1>2, <1>4 DEF PageTypeOK
<1>8. PageTypeOK'
  BY <1>1, <1>2, <1>4, <1>6, <1>7 DEF PageTypeOK, Idle
<1>9. NothingInvented'
  BY <1>1, <1>2, <1>4, <1>6 DEF NothingInvented, NoSession, Idle
<1>10. AgentInStep' /\ QueueIsOpen' /\ EntriesBeforeTheEnd'
  BY <1>1, <1>2 DEF AgentInStep, QueueIsOpen, EntriesBeforeTheEnd
<1>11. TheEndIsNotLost'
  <2>1. newest \in {0} \cup Slots /\ 0 \notin Slots
    BY <1>1, SlotsAssumption DEF PageTypeOK
  <2>2. newest # 0 /\ s # newest => masterCall'[newest] = masterCall[newest]
    BY <1>4, <2>1
  <2>3. SUFFICES ASSUME agent' = "done", ~missed', session' # NoSession
        PROVE  \/ \E n \in DOMAIN queue' : queue'[n].kind = "terminal"
               \/ masterWanted'
               \/ newest' # 0 /\ masterCall'[newest'].body = MaxEntries
               \/ newest' = 0 /\ master' = Upto(MaxEntries)
    BY DEF TheEndIsNotLost, Upto
  <2>4. /\ agent = "done" /\ ~missed /\ session # NoSession
        /\ queue' = queue /\ masterWanted' = masterWanted
    BY <1>1, <1>2, <1>6, <2>3 DEF PageTypeOK
  <2>5. \/ \E n \in DOMAIN queue : queue[n].kind = "terminal"
        \/ masterWanted
        \/ newest # 0 /\ masterCall[newest].body = MaxEntries
        \/ newest = 0 /\ master = Upto(MaxEntries)
    BY <1>1, <2>4 DEF TheEndIsNotLost
  <2>6. QED
    BY <1>2, <2>1, <2>2, <2>3, <2>4, <2>5
<1>12. QED
  BY <1>8, <1>9, <1>10, <1>11 DEF PageInv

-----------------------------------------------------------------------------
(* The stream. *)

\* The stream is closed, in error, reopened or open, and its queue is lost or
\* kept; the session is the same.
StreamMoves ==
  /\ UNCHANGED <<db, entries, agent, session, call, master, masterWanted, masterCall, newest>>
  /\ wanted' \in BOOLEAN
  /\ sse' \in {"connecting", "open", "error"} /\ session # NoSession
  /\ polling' = (sse' = "error")
  /\ \/ queue' = <<>> /\ missed' = (missed \/ queue # <<>>)
     \/ sse' = "open" /\ queue' = queue /\ missed' = missed

LEMMA StreamMovesIs == ASSUME PageInv, StreamMoves PROVE PageInv'
<1>1. /\ PageTypeOK /\ NothingInvented /\ AgentInStep
      /\ QueueIsOpen /\ EntriesBeforeTheEnd /\ TheEndIsNotLost
  BY DEF PageInv
<1>2. /\ UNCHANGED <<db, entries, agent, session, call, master, masterWanted, masterCall, newest>>
      /\ wanted' \in BOOLEAN
      /\ sse' \in {"connecting", "open", "error"} /\ session # NoSession
      /\ polling' = (sse' = "error")
      /\ missed' \in BOOLEAN
      /\ queue' = <<>> \/ queue' = queue
      /\ sse' # "open" => queue' = <<>>
      /\ ~missed' => ~missed /\ queue' = queue
  BY <1>1 DEF StreamMoves, PageTypeOK
<1>3. queue' \in Seq(Event)
  <2>1. queue \in Seq(Event)
    BY <1>1 DEF PageTypeOK
  <2>2. QED
    BY <1>2, <2>1, EmptyIs
<1>4. PageTypeOK'
  BY <1>1, <1>2, <1>3 DEF PageTypeOK, NoSession
<1>5. NothingInvented'
  <2>1. \A n \in DOMAIN queue' : n \in DOMAIN queue /\ queue'[n] = queue[n]
    BY <1>2
  <2>2. QED
    BY <1>1, <1>2, <2>1 DEF NothingInvented, NoSession, Idle
<1>6. AgentInStep' /\ QueueIsOpen' /\ EntriesBeforeTheEnd'
  BY <1>1, <1>2 DEF AgentInStep, QueueIsOpen, EntriesBeforeTheEnd
<1>7. TheEndIsNotLost'
  BY <1>1, <1>2 DEF TheEndIsNotLost, Upto, NoSession
<1>8. QED
  BY <1>4, <1>5, <1>6, <1>7 DEF PageInv

LEMMA StreamActionsAre ==
  ASSUME PageInv, StreamOpens \/ StreamFails \/ SelectNode \/ Tick PROVE PageInv'
<1>1. PageTypeOK /\ QueueIsOpen
  BY DEF PageInv
<1>2. CASE StreamOpens
  <2>1. StreamMoves
    BY <1>1, <1>2 DEF StreamOpens, StreamMoves, PageTypeOK, QueueIsOpen, serverVars, masterVars
  <2>2. QED
    BY <2>1, StreamMovesIs
<1>3. CASE StreamFails
  <2>1. StreamMoves
    BY <1>1, <1>3 DEF StreamFails, StreamMoves, PageTypeOK, serverVars, sessionVars, masterVars
  <2>2. QED
    BY <2>1, StreamMovesIs
<1>4. CASE SelectNode
  <2>1. StreamMoves
    BY <1>1, <1>4 DEF SelectNode, Reopen, StreamMoves, PageTypeOK, serverVars, sessionVars, masterVars
  <2>2. QED
    BY <2>1, StreamMovesIs
<1>5. CASE Tick
  <2>1. /\ wanted' = TRUE
        /\ UNCHANGED <<db, entries, agent, session, call, master, masterWanted, masterCall, newest,
                       sse, queue, polling, missed>>
    BY <1>5 DEF Tick, serverVars, masterVars, streamVars
  <2>2. PageTypeOK'
    BY <1>1, <2>1 DEF PageTypeOK
  <2>3. QED
    BY <2>1, <2>2 DEF PageInv, NothingInvented, AgentInStep, QueueIsOpen, EntriesBeforeTheEnd, TheEndIsNotLost
<1>6. QED
  BY <1>2, <1>3, <1>4, <1>5

-----------------------------------------------------------------------------
(* The session. *)

LEMMA ServeCallIs == ASSUME PageInv, NEW s \in Slots, ServeCall(s) PROVE PageInv'
<1>1. /\ PageTypeOK /\ NothingInvented /\ AgentInStep
      /\ QueueIsOpen /\ EntriesBeforeTheEnd /\ TheEndIsNotLost
  BY DEF PageInv
<1>2. /\ call' = [call EXCEPT ![s] = Got(db)] /\ wanted' = FALSE
      /\ UNCHANGED <<db, entries, agent, session, master, masterWanted, masterCall, newest,
                     sse, queue, polling, missed>>
  BY DEF ServeCall, serverVars, masterVars, streamVars
<1>3. /\ call \in [Slots -> {Idle} \cup {Got(x) : x \in Snapshot}] /\ db \in Snapshot
      /\ db.status <= db.status /\ db.row <= db.row
  BY <1>1, PageBounds DEF PageTypeOK, Snapshot
<1>4. /\ call' \in [Slots -> {Idle} \cup {Got(x) : x \in Snapshot}]
      /\ call'[s] = Got(db) /\ \A t \in Slots \ {s} : call'[t] = call[t]
  BY <1>2, <1>3
<1>5. call'[s].body = db
  BY <1>4, GotIs
<1>6. PageTypeOK'
  BY <1>1, <1>2, <1>4 DEF PageTypeOK, Idle
<1>7. NothingInvented'
  BY <1>1, <1>2, <1>3, <1>4, <1>5 DEF NothingInvented, NoSession, Idle
<1>8. AgentInStep' /\ QueueIsOpen' /\ EntriesBeforeTheEnd' /\ TheEndIsNotLost'
  BY <1>1, <1>2 DEF AgentInStep, QueueIsOpen, EntriesBeforeTheEnd, TheEndIsNotLost
<1>9. QED
  BY <1>6, <1>7, <1>8 DEF PageInv

\* The page shows what an answer carries, or gives the session up.
LEMMA CallEnds ==
  ASSUME PageInv, NEW s \in Slots, Answer(s) \/ CallFails(s) PROVE PageInv'
<1>1. /\ PageTypeOK /\ NothingInvented /\ AgentInStep
      /\ QueueIsOpen /\ EntriesBeforeTheEnd /\ TheEndIsNotLost
  BY DEF PageInv
<1>2. PICK shown \in Shown :
        /\ ShowSession(shown) /\ call' = [call EXCEPT ![s] = Idle]
        /\ shown # NoSession => shown.status <= db.status /\ shown.row <= db.row
        /\ UNCHANGED <<db, entries, agent, wanted, masterCall>>
  <2>1. call[s] # Idle => call[s].body \in Shown /\ call[s].body.status <= db.status /\ call[s].body.row <= db.row
    BY <1>1, CallFacts DEF NothingInvented, Shown
  <2>2. NoSession \in Shown
    BY DEF Shown
  <2>3. CASE Answer(s)
    BY <1>1, <2>1, <2>3, CallFacts DEF Answer, serverVars
  <2>4. CASE CallFails(s)
    BY <2>2, <2>4 DEF CallFails, serverVars
  <2>5. QED
    BY <2>3, <2>4
<1>3. /\ call' \in [Slots -> {Idle} \cup {Got(x) : x \in Snapshot}]
      /\ call'[s] = Idle /\ \A t \in Slots \ {s} : call'[t] = call[t]
  BY <1>1, <1>2 DEF PageTypeOK
<1>4. session' = shown /\ session \in Shown
  BY <1>1, <1>2 DEF ShowSession, PageTypeOK
\* The stream goes on, or is closed or opened again.
<1>5. /\ sse' \in {"closed", "connecting", "open", "error"} /\ (sse' = "closed" <=> shown = NoSession)
      /\ polling' <=> sse' = "error"
      /\ missed' \in BOOLEAN
      /\ queue' = <<>> \/ queue' = queue
      /\ sse' # "open" => queue' = <<>>
      /\ ~missed' => ~missed /\ queue' = queue
  <2>1. CASE shown.status = session.status
    <3>1. shown = NoSession <=> session = NoSession
      BY <1>4, <2>1, ShownFacts
    <3>2. UNCHANGED <<sse, queue, polling, missed>>
      BY <1>2, <2>1 DEF ShowSession, streamVars
    <3>3. QED
      BY <1>1, <3>1, <3>2 DEF PageTypeOK, QueueIsOpen
  <2>2. CASE shown.status # session.status
    BY <1>1, <1>2, <2>2 DEF ShowSession, Reopen, PageTypeOK
  <2>3. QED
    BY <2>1, <2>2
\* The panel is emptied with the session, or asked for when it is new.
<1>6. /\ master' \in {master, <<>>} /\ masterWanted' \in BOOLEAN
      /\ newest' \in {newest, 0}
      /\ shown # NoSession => \/ masterWanted' = TRUE
                              \/ /\ session # NoSession
                                 /\ master' = master /\ masterWanted' = masterWanted /\ newest' = newest
  BY <1>1, <1>2 DEF ShowSession, CallMaster, PageTypeOK
<1>7. master' \in Seq(1 .. MaxEntries) /\ queue' \in Seq(Event)
  <2>1. master \in Seq(1 .. MaxEntries) /\ queue \in Seq(Event)
    BY <1>1 DEF PageTypeOK
  <2>2. QED
    BY <1>5, <1>6, <2>1, EmptyIs
<1>8. PageTypeOK'
  BY <1>1, <1>2, <1>3, <1>4, <1>5, <1>6, <1>7 DEF PageTypeOK, NoSession, Idle
<1>9. NothingInvented'
  <2>1. \A n \in DOMAIN queue' : n \in DOMAIN queue /\ queue'[n] = queue[n]
    BY <1>5
  <2>2. \A n \in DOMAIN master' : n \in DOMAIN master /\ master'[n] = master[n]
    BY <1>6
  <2>3. QED
    BY <1>1, <1>2, <1>3, <1>4, <2>1, <2>2 DEF NothingInvented, NoSession, Idle
<1>10. AgentInStep' /\ QueueIsOpen' /\ EntriesBeforeTheEnd'
  BY <1>1, <1>2, <1>5 DEF AgentInStep, QueueIsOpen, EntriesBeforeTheEnd
<1>11. TheEndIsNotLost'
  BY <1>1, <1>2, <1>4, <1>5, <1>6 DEF TheEndIsNotLost, Upto, NoSession
<1>12. QED
  BY <1>8, <1>9, <1>10, <1>11 DEF PageInv

LEMMA HandleEventIs == ASSUME PageInv, HandleEvent PROVE PageInv'
<1> DEFINE e == Head(queue)
           rest == Tail(queue)
<1>1. /\ PageTypeOK /\ NothingInvented /\ AgentInStep
      /\ QueueIsOpen /\ EntriesBeforeTheEnd /\ TheEndIsNotLost
  BY DEF PageInv
<1>2. /\ rest \in Seq(Event) /\ e = queue[1] /\ 1 \in DOMAIN queue /\ e \in Event
      /\ \A n \in DOMAIN rest : n + 1 \in DOMAIN queue /\ rest[n] = queue[n + 1] /\ n \in Nat
      /\ \A n \in DOMAIN queue : n \in Nat /\ (n > 1 => n - 1 \in DOMAIN rest /\ rest[n - 1] = queue[n])
  BY <1>1, HandledIs DEF HandleEvent, PageTypeOK
<1>3. /\ sse = "open" /\ queue' = rest
      /\ session' = IF e.kind = "row" /\ session # NoSession
                    THEN [session EXCEPT !.row = e.value] ELSE session
      /\ wanted' = (wanted \/ e.kind \in {"fetch", "terminal"})
      /\ IF e.kind \in {"stop", "terminal"} THEN masterWanted' = TRUE /\ newest' = 0
         ELSE UNCHANGED <<masterWanted, newest>>
      /\ master' = IF e.kind = "entry" THEN Append(master, e.value) ELSE master
      /\ UNCHANGED <<db, entries, agent, call, masterCall, sse, polling, missed>>
  BY DEF HandleEvent, Refetches, CallMaster, serverVars
<1> HIDE DEF e, rest
<1>4. /\ e.kind = "row" => e.value <= db.row /\ e.value \in Nat
      /\ e.kind = "entry" => e.value \in 1 .. entries
  BY <1>1, <1>2 DEF NothingInvented, Event
<1>5. /\ session' \in Shown /\ (session' = NoSession <=> session = NoSession)
      /\ session' # NoSession => session'.status <= db.status /\ session'.row <= db.row
  <2>1. CASE e.kind = "row" /\ session # NoSession
    <3>1. session \in Snapshot /\ db \in Snapshot /\ session.status <= db.status
      BY <1>1, <2>1, ShownFacts DEF PageTypeOK, NothingInvented
    <3>2. session' = [status |-> session.status, row |-> e.value] /\ e.value \in 0 .. MaxRow
      BY <1>3, <1>4, <2>1, <3>1, PageBounds DEF Snapshot
    <3>3. session' \in Snapshot
      BY <3>1, <3>2 DEF Snapshot
    <3>4. QED
      BY <1>4, <2>1, <3>1, <3>2, <3>3, ShownFacts DEF Shown
  <2>2. CASE ~ (e.kind = "row" /\ session # NoSession)
    BY <1>1, <1>3, <2>2 DEF PageTypeOK, NothingInvented
  <2>3. QED
    BY <2>1, <2>2
<1>6. master' \in Seq(1 .. MaxEntries) /\ \A n \in DOMAIN master' : master'[n] <= entries
  <2>1. CASE e.kind = "entry"
    <3>1. e.value \in 1 .. MaxEntries /\ e.value <= entries
      BY <1>1, <1>4, <2>1, PageBounds DEF PageTypeOK
    <3>2. master \in Seq(1 .. MaxEntries) /\ \A n \in DOMAIN master : master[n] <= entries
      BY <1>1 DEF PageTypeOK, NothingInvented
    <3> DEFINE a == Append(master, e.value)
    <3>3. /\ a \in Seq(1 .. MaxEntries) /\ a[Len(master) + 1] = e.value
          /\ \A n \in DOMAIN a : n = Len(master) + 1 \/ (n \in DOMAIN master /\ a[n] = master[n])
      BY <3>1, <3>2, AddedIs
    <3>4. master' = a
      BY <1>3, <2>1
    <3> HIDE DEF a
    <3>5. QED
      BY <3>1, <3>2, <3>3, <3>4
  <2>2. CASE e.kind # "entry"
    BY <1>1, <1>3, <2>2 DEF PageTypeOK, NothingInvented
  <2>3. QED
    BY <2>1, <2>2
<1>7. PageTypeOK'
  BY <1>1, <1>2, <1>3, <1>5, <1>6 DEF PageTypeOK, NoSession, Idle
<1>8. NothingInvented'
  <2>1. \A n \in DOMAIN queue' : /\ queue'[n].kind = "row" => queue'[n].value <= db.row
                                 /\ queue'[n].kind = "entry" => queue'[n].value \in 1 .. entries
    BY <1>1, <1>2, <1>3 DEF NothingInvented
  <2>2. QED
    BY <1>1, <1>3, <1>5, <1>6, <2>1 DEF NothingInvented, NoSession, Idle
<1>9. AgentInStep' /\ QueueIsOpen'
  BY <1>1, <1>3 DEF AgentInStep, QueueIsOpen
<1>10. EntriesBeforeTheEnd'
  <2> SUFFICES ASSUME agent = "done", ~missed, NEW n \in DOMAIN rest, rest[n].kind = "entry"
               PROVE  \E m \in DOMAIN rest : m > n /\ rest[m].kind = "terminal"
    BY <1>3 DEF EntriesBeforeTheEnd
  <2>1. n + 1 \in DOMAIN queue /\ queue[n + 1].kind = "entry" /\ n \in Nat
    BY <1>2
  <2>2. PICK m \in DOMAIN queue : m > n + 1 /\ queue[m].kind = "terminal"
    BY <1>1, <2>1 DEF EntriesBeforeTheEnd
  <2>3. m \in Nat /\ m > 1 /\ m - 1 > n
    BY <1>2, <2>1, <2>2
  <2>4. m - 1 \in DOMAIN rest /\ rest[m - 1].kind = "terminal"
    BY <1>2, <2>2, <2>3
  <2>5. QED
    BY <2>3, <2>4
<1>11. TheEndIsNotLost'
  <2> SUFFICES ASSUME agent = "done", ~missed, session # NoSession
               PROVE  \/ \E n \in DOMAIN rest : rest[n].kind = "terminal"
                      \/ masterWanted'
                      \/ newest' # 0 /\ masterCall[newest'].body = MaxEntries
                      \/ newest' = 0 /\ master' = Upto(MaxEntries)
    BY <1>3, <1>5 DEF TheEndIsNotLost, NoSession, Upto
  <2>1. CASE e.kind \in {"stop", "terminal"}
    BY <1>3, <2>1
  <2>2. CASE e.kind \notin {"stop", "terminal"}
    <3>1. CASE \E n \in DOMAIN queue : queue[n].kind = "terminal"
      <4>1. PICK n \in DOMAIN queue : queue[n].kind = "terminal"
        BY <3>1
      <4>2. n > 1 /\ n \in Nat
        <5>1. n # 1
          BY <1>2, <2>2, <4>1
        <5>2. DOMAIN queue = 1 .. Len(queue)
          BY <1>1 DEF PageTypeOK
        <5>3. QED
          BY <5>1, <5>2
      <4>3. QED
        BY <1>2, <4>1, <4>2
    <3>2. CASE ~ \E n \in DOMAIN queue : queue[n].kind = "terminal"
      <4>1. e.kind # "entry"
        BY <1>1, <1>2, <3>2 DEF EntriesBeforeTheEnd
      <4>2. UNCHANGED <<masterWanted, newest, master>>
        BY <1>3, <2>2, <4>1
      <4>3. QED
        BY <1>1, <3>2, <4>2 DEF TheEndIsNotLost
    <3>3. QED
      BY <3>1, <3>2
  <2>3. QED
    BY <2>1, <2>2
<1>12. QED
  BY <1>7, <1>8, <1>9, <1>10, <1>11 DEF PageInv

-----------------------------------------------------------------------------
(* The theorems. *)

LEMMA PageStarts == PageInit => PageInv
<1> SUFFICES ASSUME PageInit PROVE PageInv
  OBVIOUS
<1>1. /\ db = [status |-> 0, row |-> 0] /\ entries = 0 /\ agent = "stop"
      /\ session = NoSession /\ wanted = TRUE /\ call = [s \in Slots |-> Idle]
      /\ master = <<>> /\ masterWanted = FALSE /\ masterCall = [s \in Slots |-> Idle]
      /\ newest = 0 /\ sse = "closed" /\ queue = <<>> /\ polling = FALSE /\ missed = FALSE
  BY DEF PageInit
<1>2. db \in Snapshot /\ session \in Shown
  BY <1>1, PageBounds DEF Snapshot, Shown
<1>3. PageTypeOK
  <2>1. /\ [s \in Slots |-> Idle] \in [Slots -> {Idle} \cup {Got(x) : x \in Snapshot}]
        /\ [s \in Slots |-> Idle] \in [Slots -> {Idle} \cup {Got(n) : n \in 0 .. MaxEntries}]
    OBVIOUS
  <2>2. master \in Seq(1 .. MaxEntries) /\ queue \in Seq(Event)
    BY <1>1, EmptyIs
  <2>3. entries \in 0 .. MaxEntries
    BY <1>1, PageBounds
  <2>4. QED
    BY <1>1, <1>2, <2>1, <2>2, <2>3 DEF PageTypeOK
<1>4. NothingInvented
  BY <1>1 DEF NothingInvented
<1>5. AgentInStep /\ QueueIsOpen /\ EntriesBeforeTheEnd /\ TheEndIsNotLost
  BY <1>1 DEF AgentInStep, QueueIsOpen, EntriesBeforeTheEnd, TheEndIsNotLost
<1>6. QED
  BY <1>3, <1>4, <1>5 DEF PageInv

LEMMA PageStays == PageInv /\ [PageNext]_vars => PageInv'
<1> SUFFICES ASSUME PageInv, [PageNext]_vars PROVE PageInv'
  OBVIOUS
<1>1. CASE UNCHANGED vars
  BY <1>1 DEF vars, serverVars, sessionVars, masterVars, streamVars, PageInv, PageTypeOK,
     NothingInvented, AgentInStep, QueueIsOpen, EntriesBeforeTheEnd, TheEndIsNotLost
<1>2. ASSUME NEW s \in Slots,
             \/ ServeMasterCall(s) \/ MasterAnswer(s) \/ MasterCallFails(s)
             \/ ServeCall(s) \/ Answer(s) \/ CallFails(s)
      PROVE  PageInv'
  BY <1>2, ServeMasterCallIs, MasterCallEnds, ServeCallIs, CallEnds
<1>3. CASE ChangeStatus \/ ChangeRow \/ AgentSteps
  BY <1>3, ChangeStatusIs, ChangeRowIs, AgentStepsIs
<1>4. CASE StreamOpens \/ StreamFails \/ SelectNode \/ Tick
  BY <1>4, StreamActionsAre
<1>5. CASE HandleEvent
  BY <1>5, HandleEventIs
<1>6. QED
  BY <1>1, <1>2, <1>3, <1>4, <1>5 DEF PageNext

LEMMA PageInvariant == PageSpec => []PageInv
<1>1. QED
  BY PageStarts, PageStays, PTL DEF PageSpec

\* The page holds what the backend can have sent it: among others, it polls
\* exactly while its stream is in error, has no stream without a session, and
\* the answer it will keep is on its way.
THEOREM PageTypes == PageSpec => []PageTypeOK
<1>1. PageInv => PageTypeOK
  BY DEF PageInv
<1>2. QED
  BY <1>1, PageInvariant, PTL

\* What the page shows, and what is on its way to it, the database has had:
\* no order of answers and events makes it show a state that never was.
THEOREM PageShowsWhatWas == PageSpec => []NothingInvented
<1>1. PageInv => NothingInvented
  BY DEF PageInv
<1>2. QED
  BY <1>1, PageInvariant, PTL

\* When the master node is done and no event passed the page by, its panel is
\* complete or will still be: a later event or answer completes it, whichever
\* answers overtake each other.
THEOREM TheEndOfTheMasterIsNotLost == PageSpec => []TheEndIsNotLost
<1>1. PageInv => TheEndIsNotLost
  BY DEF PageInv
<1>2. QED
  BY <1>1, PageInvariant, PTL
=============================================================================
