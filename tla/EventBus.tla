------------------------------ MODULE EventBus ------------------------------
(***************************************************************************)
(* The event bus of one session (src/backend/src/session.rs), the SSE      *)
(* stream over it (execution_events_sse in src/backend/src/routes.rs) and  *)
(* the page that shows the session in a browser.                           *)
(*                                                                         *)
(* A map under a read-write lock holds the channel of the session.  Who    *)
(* finds none creates one, but looks first and creates later, so a channel *)
(* can be replaced by another, and the completion of the session removes   *)
(* it.  A receiver of a channel nobody holds any more is told that it is   *)
(* closed.  The database is a version number here: a sender writes, then   *)
(* tells the bus, and a page that hears of an event reads it again.        *)
(***************************************************************************)
EXTENDS Naturals, Sequences, FiniteSets

CONSTANTS
  Senders,    \* tasks and handlers that change the session and send events
  Browsers,   \* pages that show the session
  Capacity,   \* BROADCAST_CAPACITY, 1024 in the code
  Channels,   \* the channel objects there are memory for
  MaxWrites,  \* bound of the model: changes of the session
  MaxDrops    \* bound of the model: connections lost on the way

ASSUME BoundsAssumption ==
  /\ Capacity \in Nat \ {0}
  /\ MaxWrites \in Nat
  /\ MaxDrops \in Nat

\* Memory for the channel of the map, and one for everybody who may hold one.
ASSUME ChannelsAssumption ==
  /\ 0 \notin Channels
  /\ IsFiniteSet(Channels) /\ IsFiniteSet(Senders) /\ IsFiniteSet(Browsers)
  /\ Cardinality(Channels) > Cardinality(Senders) + Cardinality(Browsers) + 1

VARIABLES
  version,   \* what the database holds
  current,   \* the channel in the map, 0 if there is none
  seq,       \* the last number given out, per channel
  sendAt,    \* where a sender stands
  sendTo,    \* the channel it holds
  guard,     \* it holds the read lock
  number,    \* the number of its event
  final,     \* its event is session_completed
  ensuring,  \* a handler found no channel and is about to create one
  pageAt,    \* where a page and its SSE handler stand
  stream,    \* the channel of its receiver
  queue,     \* the numbers of the events its receiver holds
  lagged,    \* its receiver lost events
  view,      \* the version the page shows
  drops      \* connections lost so far

mapVars  == <<version, current, seq, ensuring>>
sendVars == <<sendAt, sendTo, guard, number, final>>
pageVars == <<pageAt, stream, queue, lagged, view, drops>>
busVars  == <<mapVars, sendVars, pageVars>>

\* "check": has written, and looks for the channel; "cleanup": its event was
\* the last one of the session.
SendState == {"idle", "check", "create", "number", "publish", "cleanup"}

\* "open": subscribed, the response not yet seen by the page.
PageState == {"off", "create", "join", "open", "listen"}

Subscribed == {b \in Browsers : pageAt[b] \in {"open", "listen"}}

\* Mutant of Alive: a stream keeps its own channel alive.
AliveWhileWatched(c) ==
  \/ c = current
  \/ \E s \in Senders : sendAt[s] \in {"number", "publish"} /\ sendTo[s] = c
  \/ \E b \in Browsers : pageAt[b] \in {"join", "open", "listen"} /\ stream[b] = c

\* An Arc to the channel is left: in the map, or with somebody between two steps.
Alive(c) ==
  \/ c = current
  \/ \E s \in Senders : sendAt[s] \in {"number", "publish"} /\ sendTo[s] = c
  \/ \E b \in Browsers : pageAt[b] = "join" /\ stream[b] = c

\* The memory of a channel is reused when no receiver refers to it either.
FreeChannel(c) == ~Alive(c) /\ \A b \in Subscribed : stream[b] # c

NewChannel == CHOOSE c \in Channels : FreeChannel(c)

ReadLocked == \E s \in Senders : guard[s]

\* create_channel: it replaces whatever the map holds by now.
CreateChannel ==
  /\ ~ReadLocked
  /\ current' = NewChannel
  /\ seq' = [seq EXCEPT ![NewChannel] = 0]

BusInit ==
  /\ version = 0
  /\ current = 0
  /\ seq = [c \in Channels |-> 0]
  /\ sendAt = [s \in Senders |-> "idle"]
  /\ sendTo = [s \in Senders |-> 0]
  /\ guard = [s \in Senders |-> FALSE]
  /\ number = [s \in Senders |-> 0]
  /\ final = [s \in Senders |-> FALSE]
  /\ ensuring = FALSE
  /\ pageAt = [b \in Browsers |-> "off"]
  /\ stream = [b \in Browsers |-> 0]
  /\ queue = [b \in Browsers |-> <<>>]
  /\ lagged = [b \in Browsers |-> FALSE]
  /\ view = [b \in Browsers |-> 0]
  /\ drops = 0

-----------------------------------------------------------------------------
(* ensure_channel, from the handlers that create and approve a session. *)

EnsureLook ==
  /\ ~ensuring
  /\ ensuring' = (current = 0)
  /\ UNCHANGED <<version, current, seq, sendVars, pageVars>>

EnsureCreate ==
  /\ ensuring
  /\ CreateChannel
  /\ ensuring' = FALSE
  /\ UNCHANGED <<version, sendVars, pageVars>>

-----------------------------------------------------------------------------
(* A sender: the write to the database, send, and cleanup after the last    *)
(* event of the session.                                                    *)

Write(s, isFinal) ==
  /\ sendAt[s] = "idle"
  /\ version < MaxWrites
  /\ version' = version + 1
  /\ sendAt' = [sendAt EXCEPT ![s] = "check"]
  /\ final' = [final EXCEPT ![s] = isFinal]
  /\ UNCHANGED <<current, seq, ensuring, sendTo, guard, number, pageVars>>

\* The read lock is kept while the event is numbered and published.
LookUp(s) ==
  /\ sendAt[s] = "check"
  /\ sendAt' = [sendAt EXCEPT ![s] = IF current = 0 THEN "create" ELSE "number"]
  /\ guard' = [guard EXCEPT ![s] = (current # 0)]
  /\ sendTo' = [sendTo EXCEPT ![s] = current]
  /\ UNCHANGED <<mapVars, number, final, pageVars>>

CreateToSend(s) ==
  /\ sendAt[s] = "create"
  /\ CreateChannel
  /\ sendTo' = [sendTo EXCEPT ![s] = NewChannel]
  /\ sendAt' = [sendAt EXCEPT ![s] = "number"]
  /\ UNCHANGED <<version, ensuring, guard, number, final, pageVars>>

\* fetch_add
TakeNumber(s) ==
  /\ sendAt[s] = "number"
  /\ seq' = [seq EXCEPT ![sendTo[s]] = @ + 1]
  /\ number' = [number EXCEPT ![s] = seq[sendTo[s]] + 1]
  /\ sendAt' = [sendAt EXCEPT ![s] = "publish"]
  /\ UNCHANGED <<version, current, ensuring, sendTo, guard, final, pageVars>>

\* Mutant of Pushed: nothing is ever forgotten.
PushedUnbounded(q, e) == Append(q, e)

\* What a receiver holds after event e: it forgets the oldest when it is full.
Pushed(q, e) == IF Len(q) = Capacity THEN Append(Tail(q), e) ELSE Append(q, e)

\* tx.send: to every receiver of this channel object.
Publish(s) ==
  LET hears == {b \in Subscribed : stream[b] = sendTo[s]} IN
  /\ sendAt[s] = "publish"
  /\ queue' = [b \in Browsers |-> IF b \in hears THEN Pushed(queue[b], number[s])
                                  ELSE queue[b]]
  /\ lagged' = [b \in Browsers |-> lagged[b] \/ (b \in hears /\ Len(queue[b]) = Capacity)]
  /\ sendAt' = [sendAt EXCEPT ![s] = IF final[s] THEN "cleanup" ELSE "idle"]
  /\ guard' = [guard EXCEPT ![s] = FALSE]
  /\ sendTo' = [sendTo EXCEPT ![s] = 0]
  /\ number' = [number EXCEPT ![s] = 0]
  /\ final' = [final EXCEPT ![s] = FALSE]
  /\ UNCHANGED <<mapVars, pageAt, stream, view, drops>>

\* cleanup: whatever channel the map holds by now.
Cleanup(s) ==
  /\ sendAt[s] = "cleanup"
  /\ ~ReadLocked
  /\ current' = 0
  /\ sendAt' = [sendAt EXCEPT ![s] = "idle"]
  /\ UNCHANGED <<version, seq, ensuring, sendTo, guard, number, final, pageVars>>

-----------------------------------------------------------------------------
(* A page, its EventSource and the SSE handler it talks to. *)

\* subscribe, with the channel found in the map: one step under the read lock.
Subscribe(b) ==
  /\ pageAt[b] = "off"
  /\ pageAt' = [pageAt EXCEPT ![b] = IF current = 0 THEN "create" ELSE "open"]
  /\ stream' = [stream EXCEPT ![b] = current]
  /\ UNCHANGED <<mapVars, sendVars, queue, lagged, view, drops>>

CreateToSubscribe(b) ==
  /\ pageAt[b] = "create"
  /\ CreateChannel
  /\ stream' = [stream EXCEPT ![b] = NewChannel]
  /\ pageAt' = [pageAt EXCEPT ![b] = "join"]
  /\ UNCHANGED <<version, ensuring, sendVars, queue, lagged, view, drops>>

\* The receiver is made from the channel that was created, current or not.
Join(b) ==
  /\ pageAt[b] = "join"
  /\ pageAt' = [pageAt EXCEPT ![b] = "open"]
  /\ UNCHANGED <<mapVars, sendVars, stream, queue, lagged, view, drops>>

\* Mutant of OnOpen: the page trusts the stream alone.
OnOpenKeepView(b) ==
  /\ pageAt[b] = "open"
  /\ pageAt' = [pageAt EXCEPT ![b] = "listen"]
  /\ UNCHANGED <<mapVars, sendVars, stream, queue, lagged, view, drops>>

\* es.onopen: the session is fetched, behind the subscription.
OnOpen(b) ==
  /\ pageAt[b] = "open"
  /\ pageAt' = [pageAt EXCEPT ![b] = "listen"]
  /\ view' = [view EXCEPT ![b] = version]
  /\ UNCHANGED <<mapVars, sendVars, stream, queue, lagged, drops>>

\* es.onmessage, for an event or for the resync the handler sends instead of
\* the events that were lost.
Receive(b) ==
  /\ pageAt[b] = "listen"
  /\ \/ /\ lagged[b]
        /\ lagged' = [lagged EXCEPT ![b] = FALSE]
        /\ UNCHANGED queue
     \/ /\ ~lagged[b] /\ queue[b] # <<>>
        /\ queue' = [queue EXCEPT ![b] = Tail(@)]
        /\ UNCHANGED lagged
  /\ view' = [view EXCEPT ![b] = version]
  /\ UNCHANGED <<mapVars, sendVars, pageAt, stream, drops>>

\* The receiver is empty and its channel gone: the stream ends, and the
\* EventSource connects again.
StreamEnds(b) ==
  /\ pageAt[b] = "listen"
  /\ queue[b] = <<>> /\ ~lagged[b]
  /\ ~Alive(stream[b])
  /\ pageAt' = [pageAt EXCEPT ![b] = "off"]
  /\ stream' = [stream EXCEPT ![b] = 0]
  /\ UNCHANGED <<mapVars, sendVars, queue, lagged, view, drops>>

\* The connection is lost.
Drop(b) ==
  /\ b \in Subscribed
  /\ drops < MaxDrops
  /\ drops' = drops + 1
  /\ pageAt' = [pageAt EXCEPT ![b] = "off"]
  /\ stream' = [stream EXCEPT ![b] = 0]
  /\ queue' = [queue EXCEPT ![b] = <<>>]
  /\ lagged' = [lagged EXCEPT ![b] = FALSE]
  /\ UNCHANGED <<mapVars, sendVars, view>>

-----------------------------------------------------------------------------
SendStep(s) ==
  \/ LookUp(s)
  \/ CreateToSend(s)
  \/ TakeNumber(s)
  \/ Publish(s)
  \/ Cleanup(s)

PageStep(b) ==
  \/ Subscribe(b)
  \/ CreateToSubscribe(b)
  \/ Join(b)
  \/ OnOpen(b)
  \/ Receive(b)
  \/ StreamEnds(b)

BusNext ==
  \/ EnsureLook
  \/ EnsureCreate
  \/ \E s \in Senders : SendStep(s) \/ \E f \in BOOLEAN : Write(s, f)
  \/ \E b \in Browsers : PageStep(b) \/ Drop(b)

BusSpec == BusInit /\ [][BusNext]_busVars

\* Tasks run on, and a page that stays open keeps its EventSource going.
BusFairness ==
  /\ WF_busVars(EnsureCreate)
  /\ \A s \in Senders : WF_busVars(SendStep(s))
  /\ \A b \in Browsers : WF_busVars(PageStep(b))

FairBusSpec == BusSpec /\ BusFairness

-----------------------------------------------------------------------------
(* Correctness. *)

BusTypeOK ==
  /\ version \in 0 .. MaxWrites
  /\ current \in Channels \cup {0}
  /\ seq \in [Channels -> 0 .. MaxWrites]
  /\ sendAt \in [Senders -> SendState]
  /\ sendTo \in [Senders -> Channels \cup {0}]
  /\ guard \in [Senders -> BOOLEAN]
  /\ number \in [Senders -> 0 .. MaxWrites]
  /\ final \in [Senders -> BOOLEAN]
  /\ ensuring \in BOOLEAN
  /\ pageAt \in [Browsers -> PageState]
  /\ stream \in [Browsers -> Channels \cup {0}]
  /\ queue \in [Browsers -> Seq(1 .. MaxWrites)]
  /\ \A b \in Browsers : Len(queue[b]) <= Capacity
  /\ lagged \in [Browsers -> BOOLEAN]
  /\ view \in [Browsers -> 0 .. MaxWrites]
  /\ drops \in 0 .. MaxDrops

\* A page that shows an old session will hear of it: an event is waiting, or on
\* its way to the channel of the page, or that channel was replaced or removed,
\* so that the page has to connect, and fetch, again.
NoSilentLoss ==
  \A b \in Browsers :
    (pageAt[b] = "listen" /\ view[b] < version) =>
      \/ queue[b] # <<>> \/ lagged[b]
      \/ stream[b] # current
      \/ \E s \in Senders :
           \/ sendAt[s] \in {"check", "create"}
           \/ sendAt[s] \in {"number", "publish"} /\ sendTo[s] = stream[b]

\* The numbers a receiver gets are distinct, whoever sends at the same time.
DistinctNumbers ==
  \A b \in Browsers :
    /\ \A i, j \in DOMAIN queue[b] : queue[b][i] = queue[b][j] => i = j
    /\ b \in Subscribed =>
         \A s \in Senders : (sendAt[s] = "publish" /\ sendTo[s] = stream[b]) =>
           \A i \in DOMAIN queue[b] : queue[b][i] # number[s]

\* What a page gets has no event twice, and what it does not get it will hear
\* of: senders that number and publish at the same time, a channel that two of
\* them create, one that is removed under them, a buffer that overflows.
StreamsCanBeTrusted == NoSilentLoss /\ DistinctNumbers

\* Every open page comes to show what the database holds, whichever channels
\* were replaced, removed, overrun or cut off meanwhile.
BrowserCatchesUp ==
  \A b \in Browsers : view[b] < version ~> view[b] = version
=============================================================================
