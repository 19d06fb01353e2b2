----------------------------- MODULE NodeReply -----------------------------
(***************************************************************************)
(* The work queue together with the replies of a user to its nodes:        *)
(* execution_node_reply (src/backend/src/routes.rs) for nodes without      *)
(* children, and AgentRunner::resume_with_reply.                           *)
(*                                                                         *)
(* A reply is handled outside the worker loop, by a task of its own: it    *)
(* marks the row "running" without touching started_at or attempt_count,   *)
(* and neither that update nor the one that writes its result looks at the *)
(* status again.  The worker loop does not know of it, so its batch may be *)
(* done, its sweep run and its claim succeed while a reply is processed.   *)
(***************************************************************************)
EXTENDS WorkQueue

CONSTANTS
  Replies,  \* bound of the model: the calls users make
  NoNode    \* the node of a call that is not in progress

ASSUME NoNodeAssumption == NoNode \notin Nodes

VARIABLES
  conv,      \* conversation_state IS NOT NULL, per node
  replyTo,   \* the node a call in progress is about
  replyAt,   \* where the handler or the task of a call stands
  trampled   \* history: a reply and another writer met on one row

replyVars == <<conv, replyTo, replyAt, trampled>>
allVars   == <<vars, replyVars>>

\* "mark": the handler has read the row and is about to set it running.
ReplyState == TaskState \cup {"unsent", "mark"}

ReplyOn(n, at) == \E c \in Replies : replyTo[c] = n /\ replyAt[c] \in at

\* The tasks that execute node n at the moment.
RunnersOf(n) ==
  {c \in Replies : replyTo[c] = n /\ replyAt[c] = "run"}
    \cup (IF task[n] = "run" THEN {n} ELSE {})

\* Call c goes on to s, or is over.
Goes(c, s) ==
  /\ replyAt' = [replyAt EXCEPT ![c] = s]
  /\ replyTo' = IF s = "none" THEN [replyTo EXCEPT ![c] = NoNode] ELSE replyTo

ReplyInit ==
  /\ Init
  /\ conv = [n \in Nodes |-> FALSE]
  /\ replyTo = [c \in Replies |-> NoNode]
  /\ replyAt = [c \in Replies |-> "unsent"]
  /\ trampled = FALSE

-----------------------------------------------------------------------------
(* The reply handler and its task. *)

\* The first statement: refused with 409 only if the node has no conversation
\* and is pending or ready.
ReplyRefused(n) == ~conv[n] /\ status[n] \in {"pending", "ready"}

CheckReply(c, n) ==
  /\ replyAt[c] = "unsent"
  /\ IF ReplyRefused(n) THEN Goes(c, "none")
     ELSE /\ replyAt' = [replyAt EXCEPT ![c] = "mark"]
          /\ replyTo' = [replyTo EXCEPT ![c] = n]
  /\ UNCHANGED <<vars, conv, trampled>>

\* Mutant of MarkRunning: the row is handed to the work queue instead.
MarkReady(c) ==
  LET n == replyTo[c] IN
  /\ replyAt[c] = "mark"
  /\ status' = [status EXCEPT ![n] = "ready"]
  /\ Goes(c, "run")
  /\ trampled' = (trampled \/ status[n] # "awaiting_reply")
  /\ UNCHANGED <<session, attempts, breakpoint, stale, task, calls, faults, conv>>

\* The update that sets the row running, and the spawn of the task.
MarkRunning(c) ==
  LET n == replyTo[c] IN
  /\ replyAt[c] = "mark"
  /\ status' = [status EXCEPT ![n] = "running"]
  /\ Goes(c, "run")
  /\ trampled' = (trampled \/ status[n] # "awaiting_reply")
  /\ UNCHANGED <<session, attempts, breakpoint, stale, task, calls, faults, conv>>

\* resume_with_reply ends; without a conversation it fails at once.
ResumeOutcomes(n) ==
  IF conv[n] THEN {"passed", "failed", "awaiting_reply"} ELSE {"failed"}

\* Mutant of PersistReply's follow-up: a resumed node that passes goes straight
\* to the completion check.
AfterReplyNoUnblock(r) ==
  CASE r = "passed" -> "count" [] r = "failed" -> "skip" [] OTHER -> "none"

AfterReply(r) == AfterPersist(r)

PersistReply(c, r) ==
  LET n == replyTo[c] IN
  /\ replyAt[c] = "run"
  /\ r \in ResumeOutcomes(n)
  /\ status' = [status EXCEPT ![n] = r]
  /\ Goes(c, AfterReply(r))
  /\ UNCHANGED <<session, attempts, breakpoint, stale, task, calls, faults,
                 conv, trampled>>

\* Mutant of UnblockAfterReply: one passed requirement is enough.
UnblockAnyAfterReply(c) ==
  /\ replyAt[c] = "unblock"
  /\ status' = SetAll({m \in Blocked : replyTo[c] \in Requires[m]}, "ready")
  /\ Goes(c, "count")
  /\ UNCHANGED <<session, attempts, breakpoint, stale, task, calls, faults,
                 conv, trampled>>

UnblockAfterReply(c) ==
  /\ replyAt[c] = "unblock"
  /\ status' = SetAll(Unblockable(replyTo[c]), "ready")
  /\ Goes(c, "count")
  /\ UNCHANGED <<session, attempts, breakpoint, stale, task, calls, faults,
                 conv, trampled>>

SkipAfterReply(c) ==
  /\ replyAt[c] = "skip"
  /\ status' = SetAll(Downstream(replyTo[c]), "skipped")
  /\ Goes(c, "count")
  /\ UNCHANGED <<session, attempts, breakpoint, stale, task, calls, faults,
                 conv, trampled>>

\* Mutant of CountAfterReply: the completion check is left out.
NoCountAfterReply(c) ==
  /\ replyAt[c] = "count"
  /\ Goes(c, "none")
  /\ UNCHANGED <<vars, conv, trampled>>

CountAfterReply(c) ==
  /\ replyAt[c] = "count"
  /\ Goes(c, IF AllSettled THEN "complete" ELSE "none")
  /\ UNCHANGED <<vars, conv, trampled>>

\* Mutant of CompleteAfterReply: a session with a failed node is marked failed.
FailAfterReply(c) ==
  /\ replyAt[c] = "complete"
  /\ session' = IF \E m \in Nodes : status[m] = "failed" THEN "failed" ELSE "completed"
  /\ Goes(c, "none")
  /\ UNCHANGED <<rows, task, calls, faults, conv, trampled>>

CompleteAfterReply(c) ==
  /\ replyAt[c] = "complete"
  /\ session' = "completed"
  /\ Goes(c, "none")
  /\ UNCHANGED <<rows, task, calls, faults, conv, trampled>>

-----------------------------------------------------------------------------
(* The steps of the work queue next to it. *)

Beside(A) == A /\ UNCHANGED replyVars

\* The executor saves its conversation before its result is persisted; a run
\* that fails before the first call of the model has none.
PersistWithConversation(n, r) ==
  /\ Persist(n, r)
  /\ \E saved \in BOOLEAN :
       /\ saved => n \notin Manual
       /\ r \in {"passed", "awaiting_reply"} /\ n \notin Manual => saved
       /\ conv' = [conv EXCEPT ![n] = conv[n] \/ saved]
  /\ UNCHANGED <<replyTo, replyAt, trampled>>

\* The sweep looks at started_at, which dates from the claim.
SweepBesideReplies ==
  /\ Sweep
  /\ trampled' = (trampled \/ \E n \in Stuck : ReplyOn(n, {"run"}))
  /\ UNCHANGED <<conv, replyTo, replyAt>>

\* A statement of a reply fails.  The handler answers 500; its task goes on as
\* if nothing had happened, even when it was the result that was not written.
ReplyStatementFails(c) ==
  /\ faults < MaxFaults
  /\ faults' = faults + 1
  /\ \/ /\ replyAt[c] \in {"mark", "count", "complete"}
        /\ Goes(c, "none")
     \/ /\ replyAt[c] \in {"unblock", "skip"}
        /\ Goes(c, "count")
     \/ /\ replyAt[c] = "run"
        /\ \E r \in ResumeOutcomes(replyTo[c]) :
             Goes(c, AfterReply(r))
  /\ UNCHANGED <<session, rows, task, calls, conv, trampled>>

CrashWithReplies ==
  /\ Crash
  /\ replyAt' = [c \in Replies |-> IF replyAt[c] = "unsent" THEN "unsent" ELSE "none"]
  /\ replyTo' = [c \in Replies |-> NoNode]
  /\ UNCHANGED <<conv, trampled>>

ReplyStep(c) ==
  \/ MarkRunning(c)
  \/ \E r \in NodeStatus : PersistReply(c, r)
  \/ UnblockAfterReply(c)
  \/ SkipAfterReply(c)
  \/ CountAfterReply(c)
  \/ CompleteAfterReply(c)

QueueTaskStep(n) ==
  \/ \E r \in NodeStatus : PersistWithConversation(n, r)
  \/ Beside(Unblock(n))
  \/ Beside(Skip(n))
  \/ Beside(CountSettled(n))
  \/ Beside(Complete(n))

QueuePoll == SweepBesideReplies \/ \E S \in SUBSET Nodes : Beside(Claim(S))

ReplyNext ==
  \/ Beside(ApproveSession)
  \/ Beside(ApproveNodes)
  \/ Beside(StopSession)
  \/ Beside(StopNodes)
  \/ QueuePoll
  \/ CrashWithReplies
  \/ \E n \in Nodes :
       \/ Beside(Release(n))
       \/ Beside(GrowStale(n))
       \/ QueueTaskStep(n)
       \/ Beside(StatementFails(n))
  \/ \E c \in Replies :
       \/ ReplyStep(c)
       \/ ReplyStatementFails(c)
       \/ \E n \in Nodes : CheckReply(c, n)

ReplySpec == ReplyInit /\ [][ReplyNext]_allVars

\* As in WorkQueue; a reply that was accepted is carried to its end.
ReplyFairness ==
  /\ WF_allVars(QueuePoll)
  /\ WF_allVars(Beside(ApproveNodes))
  /\ WF_allVars(Beside(StopNodes))
  /\ \A n \in Nodes : WF_allVars(QueueTaskStep(n))
  /\ \A c \in Replies : WF_allVars(ReplyStep(c))

FairReplySpec == ReplySpec /\ ReplyFairness

-----------------------------------------------------------------------------
(* Correctness, as long as replies meet paused rows and finish before the   *)
(* row counts as stale: the code relies on its clients for the first and on *)
(* nothing for the second.                                                  *)

ReplyTypeOK ==
  /\ TypeOK
  /\ conv \in [Nodes -> BOOLEAN]
  /\ replyTo \in [Replies -> Nodes \cup {NoNode}]
  /\ replyAt \in [Replies -> ReplyState]
  /\ trampled \in BOOLEAN

\* One node is executed by one task.
SingleRunner == \A n \in Nodes : Cardinality(RunnersOf(n)) <= 1

SingleRunnerUnlessTrampled == ~trampled => SingleRunner

\* Replies keep the order of the dependencies.
DependenciesPassedUnlessTrampled == ~trampled => DependenciesPassed

\* The wake-up of the dependents of a node that passes after a reply is not
\* lost either, whichever of two tasks, a worker's and a reply's, is last.
WakeupsWithReplies ==
  (faults = 0 /\ ~trampled) =>
    \A n \in Blocked :
      (Requires[n] # {} /\ \A d \in Requires[n] : status[d] = "passed") =>
        \E d \in Requires[n] : task[d] = "unblock" \/ ReplyOn(d, {"unblock"})

\* The session settles with replies as it does without.
ExecutionSettlesWithReplies ==
  session = "executing" ~>
    \/ session # "executing"
    \/ \E n \in Nodes : status[n] = "awaiting_reply"
    \/ \E n \in Nodes : breakpoint[n] /\ status[n] = "ready"
    \/ faults > 0
    \/ trampled
=============================================================================
