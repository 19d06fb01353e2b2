------------------------------ MODULE Recorder ------------------------------
(***************************************************************************)
(* The browser extension that records what an expert does: the background  *)
(* worker (extension/src/background.ts), the side panel with its one       *)
(* button, the content script, and the handlers of the backend that the    *)
(* worker calls (observe_session_* in src/backend/src/routes.rs).          *)
(*                                                                         *)
(* The worker is one thread: an action is what it does between two awaits. *)
(* While it waits for an answer it handles other messages, so a recording  *)
(* can be started twice, stopped twice, or started while it is stopped.    *)
(* Screenshots, the narrator and the pipelines behind the end of a session *)
(* are left out: they carry no number and nothing here waits for them.     *)
(***************************************************************************)
EXTENDS Naturals, Sequences

CONSTANTS
  Stoppers,     \* the calls of stopSession that can be under way at once
  MaxEvents,    \* bound of the model: events captured
  MaxSessions,  \* bound of the model: sessions the backend creates
  MaxFaults     \* bound of the model: calls that fail, workers that are killed

ASSUME RecorderBounds == MaxEvents \in Nat /\ MaxSessions \in Nat /\ MaxFaults \in Nat

ASSUME StoppersAssumption == Stoppers \subseteq Nat \ {0}

VARIABLES
  session,   \* state.sessionId, 0 for null; isRecording goes with it
  counter,   \* state.sequenceCounter
  buffer,    \* state.eventBuffer
  timers,    \* intervals that call flushBatch
  handle,    \* flushTimer is not null
  starting,  \* calls of session/start under way
  batches,   \* calls of session/:id/events under way
  stop,      \* where each stopSession stands
  panel,     \* what the side panel shows: recording or not
  status,    \* the sessions of the backend
  stored,    \* action_events
  captured,  \* every event captured so far
  lost,      \* those a refused batch or a killed worker took along
  skipped,   \* those the backend did not store in a session: number taken
  faults     \* calls that failed and workers that were killed

workerVars == <<session, counter, buffer, timers, handle, starting, stop>>
serverVars == <<status, stored>>
ghostVars  == <<captured, lost, skipped, faults>>
vars == <<workerVars, batches, panel, serverVars, ghostVars>>

SessionIds == 1 .. MaxSessions

\* An event with its number, and the session it was captured in, 0 for none.
Event == [id : Nat, num : Nat, in : Nat]

\* "sent": on its way; "served": the backend has stored it, the worker does
\* not know.  by: the stopSession that awaits it, 0 for a flush of the timer.
\* orphan: the worker that sent it is gone.
Batch == [to : SessionIds, events : Seq(Event), by : {0} \cup Stoppers,
          served : BOOLEAN, orphan : BOOLEAN]

\* "flush": awaits the last flush; "end": awaits session/:id/end.
StopState == [at : {"idle", "flush", "end"}, session : Nat,
              due : SUBSET Event, failed : BOOLEAN]

Idle == [at |-> "idle", session |-> 0, due |-> {}, failed |-> FALSE]

Elements(s) == {s[i] : i \in DOMAIN s}

Created == {s \in SessionIds : status[s] # "none"}

InFlight == UNION {Elements(b.events) : b \in batches}

RecorderInit ==
  /\ session = 0
  /\ counter = 0
  /\ buffer = <<>>
  /\ timers = 0
  /\ handle = FALSE
  /\ starting = 0
  /\ batches = {}
  /\ stop = [k \in Stoppers |-> Idle]
  /\ panel = FALSE
  /\ status = [s \in SessionIds |-> "none"]
  /\ stored = {}
  /\ captured = {}
  /\ lost = {}
  /\ skipped = {}
  /\ faults = 0

-----------------------------------------------------------------------------
(* The messages: START_RECORDING and its answer, CAPTURED_EVENT, GET_STATE. *)

\* The panel offers Record as long as nobody told it that a session started.
AskStart ==
  /\ ~panel
  /\ starting < MaxSessions
  /\ starting' = starting + 1
  /\ UNCHANGED <<session, counter, buffer, timers, handle, stop, batches, panel,
                 serverVars, ghostVars>>

NewSession(s) ==
  /\ s \in SessionIds \ Created
  /\ \A r \in SessionIds \ Created : s <= r
  /\ status' = [status EXCEPT ![s] = "recording"]

\* Mutant of StartAnswered: the timer is not started.
StartAnsweredWithoutTimer(s) ==
  /\ starting > 0
  /\ NewSession(s)
  /\ starting' = starting - 1
  /\ session' = s
  /\ counter' = 0
  /\ panel' = TRUE
  /\ UNCHANGED <<buffer, timers, handle, stop, batches, stored, ghostVars>>

\* The buffer is kept, and the interval of an earlier start goes on.
StartAnswered(s) ==
  /\ starting > 0
  /\ NewSession(s)
  /\ starting' = starting - 1
  /\ session' = s
  /\ counter' = 0
  /\ timers' = timers + 1
  /\ handle' = TRUE
  /\ panel' = TRUE
  /\ UNCHANGED <<buffer, stop, batches, stored, ghostVars>>

\* An error, or an answer that is lost after the session was created.
StartFailed ==
  /\ starting > 0
  /\ faults < MaxFaults
  /\ starting' = starting - 1
  /\ faults' = faults + 1
  /\ \/ UNCHANGED status
     \/ \E s \in SessionIds : NewSession(s)
  /\ UNCHANGED <<session, counter, buffer, timers, handle, stop, batches, panel,
                 stored, captured, lost, skipped>>

\* Mutant of Capture: the number is the length of the buffer.
CaptureNumberedByBuffer(n) ==
  LET e == [id |-> n, num |-> Len(buffer), in |-> session]
  IN /\ n \notin {f.id : f \in captured}
     /\ \A m \in 1 .. n - 1 : m \in {f.id : f \in captured}
     /\ counter' = counter + 1
     /\ buffer' = Append(buffer, e)
     /\ captured' = captured \cup {e}
     /\ UNCHANGED <<session, timers, handle, starting, stop, batches, panel,
                    serverVars, lost, skipped, faults>>

\* Whether a session is recorded or not makes no difference.
Capture(n) ==
  LET e == [id |-> n, num |-> counter, in |-> session]
  IN /\ n \notin {f.id : f \in captured}
     /\ \A m \in 1 .. n - 1 : m \in {f.id : f \in captured}
     /\ counter' = counter + 1
     /\ buffer' = Append(buffer, e)
     /\ captured' = captured \cup {e}
     /\ UNCHANGED <<session, timers, handle, starting, stop, batches, panel,
                    serverVars, lost, skipped, faults>>

OpenPanel ==
  /\ panel' = (session # 0)
  /\ UNCHANGED <<workerVars, batches, serverVars, ghostVars>>

-----------------------------------------------------------------------------
(* flushBatch: the buffer goes out as one call. *)

SendBuffer(k) ==
  /\ buffer' = <<>>
  /\ batches' = batches \cup {[to |-> session, events |-> buffer, by |-> k,
                               served |-> FALSE, orphan |-> FALSE]}

\* Mutant of FlushTick: nobody looks whether there is a session.
FlushTickAlways ==
  /\ timers > 0
  /\ buffer # <<>>
  /\ SendBuffer(0)
  /\ UNCHANGED <<session, counter, timers, handle, starting, stop, panel,
                 serverVars, ghostVars>>

FlushTick ==
  /\ timers > 0
  /\ session # 0
  /\ buffer # <<>>
  /\ SendBuffer(0)
  /\ UNCHANGED <<session, counter, timers, handle, starting, stop, panel,
                 serverVars, ghostVars>>

\* The rows of a batch that INSERT ... ON CONFLICT DO NOTHING accepts: a
\* number that is taken, in the table or earlier in the batch, is skipped.
NewRows(b) ==
  {i \in DOMAIN b.events :
     /\ \A r \in stored : r.to = b.to => r.event.num # b.events[i].num
     /\ \A j \in 1 .. i - 1 : b.events[j].num # b.events[i].num}

\* observe_session_events does not look at the status of the session.
BatchServed(b) ==
  /\ b \in batches
  /\ ~b.served
  /\ stored' = stored \cup {[to |-> b.to, event |-> b.events[i]] : i \in NewRows(b)}
  /\ skipped' = skipped \cup {[to |-> b.to, event |-> b.events[i]] :
                                i \in DOMAIN b.events \ NewRows(b)}
  /\ batches' = (batches \ {b}) \cup {[b EXCEPT !.served = TRUE]}
  /\ UNCHANGED <<workerVars, panel, status, captured, lost, faults>>

\* A stopSession that waited for this flush goes on: it ends the session the
\* worker is in by now.
Resume(b, failed) ==
  stop' = [k \in Stoppers |->
             IF k = b.by /\ ~b.orphan
             THEN [stop[k] EXCEPT !.at = "end", !.session = session, !.failed = failed]
             ELSE stop[k]]

BatchAnswered(b) ==
  /\ b \in batches
  /\ b.served
  /\ batches' = batches \ {b}
  /\ Resume(b, FALSE)
  /\ UNCHANGED <<session, counter, buffer, timers, handle, starting, panel,
                 serverVars, ghostVars>>

\* The backend answers with an error: fetch does not throw, and nobody looks.
BatchRefused(b) ==
  /\ b \in batches
  /\ ~b.served
  /\ faults < MaxFaults
  /\ faults' = faults + 1
  /\ batches' = batches \ {b}
  /\ lost' = lost \cup Elements(b.events)
  /\ Resume(b, FALSE)
  /\ UNCHANGED <<session, counter, buffer, timers, handle, starting, panel,
                 serverVars, captured, skipped>>

\* fetch throws, before the backend got the call or after: the events go back
\* to the front of the buffer, if the worker is still there.
BatchThrows(b) ==
  /\ b \in batches
  /\ faults < MaxFaults
  /\ faults' = faults + 1
  /\ batches' = batches \ {b}
  /\ buffer' = IF b.orphan THEN buffer ELSE b.events \o buffer
  /\ lost' = IF b.orphan THEN lost \cup Elements(b.events) ELSE lost
  /\ Resume(b, TRUE)
  /\ UNCHANGED <<session, counter, timers, handle, starting, panel,
                 serverVars, captured, skipped>>

-----------------------------------------------------------------------------
(* stopSession *)

StopTimer ==
  /\ timers' = IF handle THEN timers - 1 ELSE timers
  /\ handle' = FALSE

Stopping(k, at) ==
  stop' = [stop EXCEPT ![k] = [at |-> at, session |-> session,
                               due |-> Elements(buffer), failed |-> FALSE]]

\* Mutant of AskStop: the flush is sent and not awaited.
AskStopAtOnce(k) ==
  /\ panel
  /\ stop[k].at = "idle"
  /\ session # 0
  /\ StopTimer
  /\ Stopping(k, "end")
  /\ \/ buffer = <<>> /\ UNCHANGED <<buffer, batches>>
     \/ buffer # <<>> /\ SendBuffer(0)
  /\ UNCHANGED <<session, counter, starting, panel, serverVars, ghostVars>>

\* STOP_RECORDING: with nothing to flush the session is ended right away.
AskStop(k) ==
  /\ panel
  /\ stop[k].at = "idle"
  /\ session # 0
  /\ StopTimer
  /\ \/ buffer = <<>> /\ Stopping(k, "end") /\ UNCHANGED <<buffer, batches>>
     \/ buffer # <<>> /\ Stopping(k, "flush") /\ SendBuffer(k)
  /\ UNCHANGED <<session, counter, starting, panel, serverVars, ghostVars>>

\* observe_session_end, which may already have ended it.  The id is "null"
\* when another stopSession was faster: the backend refuses it.
EndServed(k) ==
  /\ stop[k].at = "end"
  /\ stop[k].session \in SessionIds
  /\ status[stop[k].session] = "recording"
  /\ status' = [status EXCEPT ![stop[k].session] = "completed"]
  /\ UNCHANGED <<workerVars, batches, panel, stored, ghostVars>>

\* The answer of session/:id/end, or its failure: the worker forgets the
\* session it is in by now.
EndAnswered(k) ==
  /\ stop[k].at = "end"
  /\ \/ stop[k].session = 0 /\ UNCHANGED faults
     \/ stop[k].session # 0 /\ status[stop[k].session] = "completed" /\ UNCHANGED faults
     \/ faults < MaxFaults /\ faults' = faults + 1
  /\ stop' = [stop EXCEPT ![k] = Idle]
  /\ session' = 0
  /\ panel' = FALSE
  /\ UNCHANGED <<counter, buffer, timers, handle, starting, batches, serverVars,
                 captured, lost, skipped>>

-----------------------------------------------------------------------------
(* Chrome stops the worker: its state is gone, and so is the session for it. *)
(* A session/:id/end on its way may have been served before.                 *)

WorkerKilled ==
  /\ faults < MaxFaults
  /\ faults' = faults + 1
  /\ session' = 0
  /\ counter' = 0
  /\ buffer' = <<>>
  /\ timers' = 0
  /\ handle' = FALSE
  /\ starting' = 0
  /\ stop' = [k \in Stoppers |-> Idle]
  /\ batches' = {[b EXCEPT !.orphan = TRUE] : b \in batches}
  /\ lost' = lost \cup Elements(buffer)
  /\ \E done \in SUBSET {stop[k].session : k \in {j \in Stoppers : stop[j].at = "end"}} :
       status' = [s \in SessionIds |-> IF s \in done THEN "completed" ELSE status[s]]
  /\ UNCHANGED <<panel, stored, captured, skipped>>

RecorderNext ==
  \/ AskStart
  \/ \E s \in SessionIds : StartAnswered(s)
  \/ StartFailed
  \/ \E n \in 1 .. MaxEvents : Capture(n)
  \/ OpenPanel
  \/ FlushTick
  \/ \E b \in batches : \/ BatchServed(b)
                        \/ BatchAnswered(b)
                        \/ BatchRefused(b)
                        \/ BatchThrows(b)
  \/ \E k \in Stoppers : AskStop(k) \/ EndServed(k) \/ EndAnswered(k)
  \/ WorkerKilled

RecorderSpec == RecorderInit /\ [][RecorderNext]_vars

\* setInterval fires, and a call is served and answered in the end.  Nothing
\* makes the user act, and nothing makes a call fail.
RecorderFairness ==
  /\ WF_vars(FlushTick)
  /\ WF_vars(\E b \in batches : BatchServed(b))
  /\ WF_vars(\E b \in batches : BatchAnswered(b))
  /\ \A k \in Stoppers : WF_vars(EndServed(k)) /\ WF_vars(EndAnswered(k))

FairRecorderSpec == RecorderSpec /\ RecorderFairness

-----------------------------------------------------------------------------
(* Properties *)

StoredEvents == {r.event : r \in stored}

\* e was sent to a session where its number is taken by another event, and one
\* of the two was not captured in that session.
Displaced(e) ==
  \E x \in skipped, r \in stored :
    /\ x.event = e /\ r.to = x.to
    /\ r.event # e /\ r.event.num = e.num
    /\ r.event.in # r.to \/ e.in # r.to

\* The variables hold what background.ts and the backend can put there.
RecorderTypeOK ==
  /\ session \in {0} \cup SessionIds
  /\ counter \in Nat
  /\ buffer \in Seq(Event)
  /\ timers \in Nat
  /\ handle \in BOOLEAN
  /\ handle => timers > 0
  /\ starting \in Nat
  /\ batches \subseteq Batch
  /\ stop \in [Stoppers -> StopState]
  /\ panel \in BOOLEAN
  /\ status \in [SessionIds -> {"none", "recording", "completed"}]
  /\ stored \subseteq [to : SessionIds, event : Event]
  /\ captured \subseteq Event
  /\ lost \subseteq Event
  /\ skipped \subseteq [to : SessionIds, event : Event]
  /\ faults \in Nat

\* No event disappears between two flushes, in a failed call, in a stop or in
\* a second start: it is in the buffer, on its way, in the table, taken along
\* by a refused batch or a killed worker, or displaced, which happens only when
\* an event of another session, or of no session, is sent to this one.
NothingLostSilently ==
  \A e \in captured :
    \/ e \in Elements(buffer) \cup InFlight \cup StoredEvents \cup lost
    \/ Displaced(e)

\* stopSession awaits its flush: when it asks the backend to end the session,
\* which starts the extraction, every event that was in the buffer when the
\* user pressed Stop has been answered, unless that very flush threw.
FinalFlushFirst ==
  \A k \in Stoppers :
    stop[k].at = "end" /\ ~stop[k].failed =>
      stop[k].due \cap (Elements(buffer) \cup InFlight) = {}

\* While the recording goes on, what is in the buffer gets out: a batch that
\* throws is sent again, until the backend has answered for each event.
EventsGetOut ==
  \A n \in 1 .. MaxEvents :
    (\E e \in Elements(buffer) : e.id = n /\ session # 0)
      ~> \/ \A e \in Elements(buffer) \cup InFlight : e.id # n
         \/ session = 0
=============================================================================
