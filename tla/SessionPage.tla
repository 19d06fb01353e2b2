---------------------------- MODULE SessionPage ----------------------------
(***************************************************************************)
(* The page of one session in the browser                                  *)
(* (frontend/src/app/execute/[session_id]/page.tsx): how it fetches the    *)
(* session and the stream of its master node, follows the events of the    *)
(* SSE stream and falls back to polling.  EventBus shows that the stream   *)
(* tells a page of every change or cuts it off; here the stream may be cut *)
(* off at any time, and answers come in any order.                         *)
(*                                                                         *)
(* The session is its status and the row of one node, each a number that   *)
(* grows with every change; the stream of the master node is the entries   *)
(* 1, 2, ... in the order in which the agent persists them.                *)
(***************************************************************************)
EXTENDS Naturals, Sequences, FiniteSets

CONSTANTS
  Slots,        \* connections: calls of one kind under way at once
  MaxStatus,    \* changes of the status; 0 is "planning"
  MaxRow,       \* bound of the model: changes of the node
  MaxEntries,   \* bound of the model: entries of the master stream
  MaxFaults     \* bound of the model: times the stream is cut off or reopened
                \* and fetches that fail

ASSUME SlotsAssumption == Slots \subseteq Nat \ {0} /\ Slots # {} /\ IsFiniteSet(Slots)

ASSUME PageBounds ==
  /\ MaxStatus \in Nat /\ MaxRow \in Nat /\ MaxEntries \in Nat /\ MaxFaults \in Nat

VARIABLES
  db,           \* the session as the database holds it
  entries,      \* entries of the master stream in the database
  agent,        \* where the agent of the master node stands
  session,      \* what the page shows, or NoSession
  wanted,       \* fetchSession is called and the backend has not read the session
  call,         \* answers of fetchSession on their way
  master,       \* what the panel of the master node shows
  masterWanted, \* fetchMasterStream is called and not served
  masterCall,   \* answers of fetchMasterStream on their way
  newest,       \* the answer that carries masterFetchSeq, 0 if none does
  sse,          \* the EventSource
  queue,        \* events the browser has got and the page not handled
  polling,      \* pollTimer of the SSE effect
  missed,       \* an event has passed the page by, or the master stream
  faults

serverVars  == <<db, entries, agent>>
sessionVars == <<session, wanted, call>>
masterVars  == <<master, masterWanted, masterCall, newest>>
streamVars  == <<sse, queue, polling, missed>>
vars == <<serverVars, sessionVars, masterVars, streamVars, faults>>

Snapshot == [status : 0 .. MaxStatus, row : 0 .. MaxRow]

NoSession == [status |-> MaxStatus + 1, row |-> 0]

Shown == Snapshot \cup {NoSession}

\* "row": node_updated or node_status_changed, which carry the new value;
\* "fetch": plan_ready, node_started and others that make the page fetch;
\* "entry": an entry of the master stream; "stop": message_stop;
\* "terminal": the master node is done.
EventKinds == {"row", "fetch", "entry", "stop", "terminal"}

Event == [kind : EventKinds, value : Nat]

Idle   == [at |-> "idle"]
Got(s) == [at |-> "answered", body |-> s]

\* The connection a new answer takes; which one it is makes no difference.
FirstIdle(s, calls) == calls[s] = Idle /\ \A t \in Slots : t < s => calls[t] # Idle

Upto(n) == [i \in 1 .. n |-> i]

PageInit ==
  /\ db = [status |-> 0, row |-> 0]
  /\ entries = 0
  /\ agent = "stop"
  /\ session = NoSession
  /\ wanted = TRUE
  /\ call = [s \in Slots |-> Idle]
  /\ master = <<>>
  /\ masterWanted = FALSE
  /\ masterCall = [s \in Slots |-> Idle]
  /\ newest = 0
  /\ sse = "closed"
  /\ queue = <<>>
  /\ polling = FALSE
  /\ missed = FALSE
  /\ faults = 0

-----------------------------------------------------------------------------
(* The backend: a change and its event.  The queue delays the event.        *)

\* The bus gives an event to a stream that is open; others never hear of it.
Publish(e) ==
  IF sse = "open" THEN queue' = Append(queue, e) /\ UNCHANGED missed
  ELSE queue' = queue /\ missed' = TRUE

ChangeStatus ==
  /\ db.status < MaxStatus
  /\ db' = [db EXCEPT !.status = @ + 1]
  /\ Publish([kind |-> "fetch", value |-> db.status + 1])
  /\ UNCHANGED <<entries, agent, sessionVars, masterVars, sse, polling, faults>>

ChangeRow ==
  /\ db.row < MaxRow
  /\ db' = [db EXCEPT !.row = @ + 1]
  /\ Publish([kind |-> "row", value |-> db.row + 1])
  /\ UNCHANGED <<entries, agent, sessionVars, masterVars, sse, polling, faults>>

\* The agent forwards message_stop, then persists the message, then sends it;
\* after the last one the node is completed.
AgentSteps ==
  /\ \/ /\ agent = "stop" /\ entries < MaxEntries
        /\ agent' = "persist"
        /\ Publish([kind |-> "stop", value |-> entries])
        /\ UNCHANGED entries
     \/ /\ agent = "persist"
        /\ agent' = "send"
        /\ entries' = entries + 1
        /\ UNCHANGED <<queue, missed>>
     \/ /\ agent = "send"
        /\ agent' = "stop"
        /\ Publish([kind |-> "entry", value |-> entries])
        /\ UNCHANGED entries
     \/ /\ agent = "stop" /\ entries = MaxEntries
        /\ agent' = "done"
        /\ Publish([kind |-> "terminal", value |-> entries])
        /\ UNCHANGED entries
  /\ UNCHANGED <<db, sessionVars, masterVars, sse, polling, faults>>

-----------------------------------------------------------------------------
(* fetchMasterStream: only the answer of the latest call is kept. *)

CallMaster == masterWanted' = TRUE /\ newest' = 0

\* Calls that are not served yet are one: only the last of them counts.
ServeMasterCall(s) ==
  /\ masterWanted
  /\ FirstIdle(s, masterCall)
  /\ masterCall' = [masterCall EXCEPT ![s] = Got(entries)]
  /\ masterWanted' = FALSE
  /\ newest' = s
  /\ UNCHANGED <<serverVars, sessionVars, master, streamVars, faults>>

\* Mutant of Latest: masterFetchSeq is not compared.
LatestOrOlder(s) == s \in Slots

Latest(s) == s = newest

\* An entry that came by the stream since the answer was read is overwritten.
MasterAnswer(s) ==
  /\ masterCall[s].at = "answered"
  /\ masterCall' = [masterCall EXCEPT ![s] = Idle]
  /\ IF Latest(s) THEN master' = Upto(masterCall[s].body) /\ newest' = 0
     ELSE UNCHANGED <<master, newest>>
  /\ UNCHANGED <<serverVars, sessionVars, masterWanted, streamVars, faults>>

\* An error or no answer empties the panel, and nothing asks again.
MasterCallFails(s) ==
  /\ masterCall[s] # Idle
  /\ faults < MaxFaults
  /\ faults' = faults + 1
  /\ masterCall' = [masterCall EXCEPT ![s] = Idle]
  /\ IF Latest(s) THEN master' = <<>> /\ newest' = 0 /\ missed' = TRUE
     ELSE UNCHANGED <<master, newest, missed>>
  /\ UNCHANGED <<serverVars, sessionVars, masterWanted, sse, queue, polling>>

-----------------------------------------------------------------------------
(* The SSE effect, which depends on the status of the session the page      *)
(* shows: the stream is closed and opened again whenever that changes.      *)

Reopen(shown) ==
  /\ sse' = IF shown = NoSession THEN "closed" ELSE "connecting"
  /\ queue' = <<>>
  /\ polling' = FALSE
  /\ missed' = (missed \/ queue # <<>>)

\* setSession, and the effects that look at it: the master node is known with
\* the session, and its panel is emptied without one.
ShowSession(shown) ==
  /\ session' = shown
  /\ IF shown.status = session.status THEN UNCHANGED streamVars ELSE Reopen(shown)
  /\ IF session = NoSession /\ shown # NoSession THEN CallMaster /\ UNCHANGED master
     ELSE /\ master' = IF shown = NoSession THEN <<>> ELSE master
          /\ UNCHANGED <<masterWanted, newest>>

\* Mutant of StreamOpens: the fallback goes on beside the stream.
StreamOpensStillPolling ==
  /\ sse \in {"connecting", "error"}
  /\ sse' = "open"
  /\ wanted' = TRUE
  /\ UNCHANGED <<serverVars, session, call, masterVars, queue, polling, missed, faults>>

\* onopen: what happened before is fetched, the stream of the master is not.
StreamOpens ==
  /\ sse \in {"connecting", "error"}
  /\ sse' = "open"
  /\ polling' = FALSE
  /\ wanted' = TRUE
  /\ UNCHANGED <<serverVars, session, call, masterVars, queue, missed, faults>>

\* onerror; EventSource tries again by itself.
StreamFails ==
  /\ sse \in {"connecting", "open"}
  /\ faults < MaxFaults
  /\ faults' = faults + 1
  /\ sse' = "error"
  /\ polling' = TRUE
  /\ queue' = <<>>
  /\ missed' = (missed \/ queue # <<>>)
  /\ UNCHANGED <<serverVars, sessionVars, masterVars>>

\* The effect depends on fetchNodeStream too, and so on the selected node.
SelectNode ==
  /\ session # NoSession
  /\ faults < MaxFaults
  /\ faults' = faults + 1
  /\ Reopen(session)
  /\ UNCHANGED <<serverVars, sessionVars, masterVars>>

-----------------------------------------------------------------------------
(* fetchSession: calls are not numbered. *)

ServeCall(s) ==
  /\ wanted
  /\ FirstIdle(s, call)
  /\ call' = [call EXCEPT ![s] = Got(db)]
  /\ wanted' = FALSE
  /\ UNCHANGED <<serverVars, session, masterVars, streamVars, faults>>

Answer(s) ==
  /\ call[s].at = "answered"
  /\ call' = [call EXCEPT ![s] = Idle]
  /\ ShowSession(call[s].body)
  /\ UNCHANGED <<serverVars, wanted, masterCall, faults>>

\* An error or no answer: setSession(null).
CallFails(s) ==
  /\ call[s] # Idle
  /\ faults < MaxFaults
  /\ faults' = faults + 1
  /\ call' = [call EXCEPT ![s] = Idle]
  /\ ShowSession(NoSession)
  /\ UNCHANGED <<serverVars, wanted, masterCall>>

\* Mutant of Reconciles: only the fallback of a stream in error polls.
ReconcilesOnError == polling

\* An interval runs: the reconciliation of a page with a session, the poll of
\* one that is planning, or the fallback of the SSE effect.
Reconciles == session # NoSession \/ polling

Tick ==
  /\ Reconciles
  /\ ~wanted
  /\ wanted' = TRUE
  /\ UNCHANGED <<serverVars, session, call, masterVars, streamVars, faults>>

-----------------------------------------------------------------------------
(* onmessage *)

\* The master stream is fetched again when the node is done, and after a stop.
Refetches(e) == e.kind \in {"stop", "terminal"}

HandleEvent ==
  /\ sse = "open"
  /\ queue # <<>>
  /\ queue' = Tail(queue)
  /\ LET e == Head(queue)
     IN /\ session' = IF e.kind = "row" /\ session # NoSession
                      THEN [session EXCEPT !.row = e.value] ELSE session
        /\ wanted' = (wanted \/ e.kind \in {"fetch", "terminal"})
        /\ IF Refetches(e) THEN CallMaster ELSE UNCHANGED <<masterWanted, newest>>
        /\ master' = IF e.kind = "entry" THEN Append(master, e.value) ELSE master
  /\ UNCHANGED <<serverVars, call, masterCall, sse, polling, missed, faults>>

PageNext ==
  \/ ChangeStatus
  \/ ChangeRow
  \/ AgentSteps
  \/ \E s \in Slots : \/ ServeMasterCall(s) \/ MasterAnswer(s) \/ MasterCallFails(s)
                      \/ ServeCall(s) \/ Answer(s) \/ CallFails(s)
  \/ StreamOpens
  \/ StreamFails
  \/ SelectNode
  \/ Tick
  \/ HandleEvent

PageSpec == PageInit /\ [][PageNext]_vars

\* Calls are served and answered, intervals fire, the browser connects
\* again, and the page handles its events.  The backend need not do anything.
PageFairness ==
  /\ \A s \in Slots : WF_vars(Answer(s)) /\ WF_vars(MasterAnswer(s))
  /\ WF_vars(\E s \in Slots : ServeCall(s))
  /\ WF_vars(\E s \in Slots : ServeMasterCall(s))
  /\ WF_vars(StreamOpens)
  /\ WF_vars(HandleEvent)
  /\ WF_vars(Tick)

FairPageSpec == PageSpec /\ PageFairness

-----------------------------------------------------------------------------
(* Properties *)

\* The page holds what the backend can have sent it.
PageTypeOK ==
  /\ db \in Snapshot
  /\ entries \in 0 .. MaxEntries
  /\ agent \in {"stop", "persist", "send", "done"}
  /\ session \in Shown
  /\ call \in [Slots -> {Idle} \cup {Got(s) : s \in Snapshot}]
  /\ master \in Seq(1 .. MaxEntries)
  /\ masterCall \in [Slots -> {Idle} \cup {Got(n) : n \in 0 .. MaxEntries}]
  /\ newest \in {0} \cup Slots
  /\ newest # 0 => masterCall[newest] # Idle
  /\ sse \in {"closed", "connecting", "open", "error"}
  /\ sse = "closed" <=> session = NoSession
  /\ queue \in Seq(Event)
  /\ polling <=> sse = "error"
  /\ wanted \in BOOLEAN /\ masterWanted \in BOOLEAN /\ missed \in BOOLEAN

\* The page comes to show what the database holds, although answers overtake
\* each other and events get lost, unless it has given the session up.
SessionCatchesUp == <>[](session = db \/ session = NoSession)

\* When the master node is done and no event got lost, the panel shows every
\* entry once and in order, although an answer overwrites entries that came by
\* the stream meanwhile and entries are appended to an answer that has them.
MasterCatchesUp ==
  <>[](agent = "done" /\ ~missed /\ session # NoSession => master = Upto(MaxEntries))

\* "Let EventSource auto-reconnect on transient errors. Fall back to polling if
\* the connection stays down." (page.tsx:779-780): a page that polls because its
\* stream is in error is connected again, also when a poll fails.
PollingSurvives == polling ~> sse = "open"
=============================================================================
