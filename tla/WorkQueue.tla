----------------------------- MODULE WorkQueue -----------------------------
(***************************************************************************)
(* The work queue of the backend (src/backend/src/work_queue.rs) and the   *)
(* three session handlers that share its rows: approve, stop and release   *)
(* (src/backend/src/routes.rs).                                            *)
(*                                                                         *)
(* One execution session is a set of node rows with a dependency array     *)
(* each.  One worker loop claims the ready rows, runs a tokio task for     *)
(* every claimed row and waits for the whole batch before it polls again.  *)
(* Every SQL statement of the code autocommits, so every statement is an   *)
(* atomic step here and anything may happen between two statements of the  *)
(* same handler, a crash of the process included.                          *)
(***************************************************************************)
EXTENDS Naturals, FiniteSets

CONSTANTS
  Nodes,        \* the rows of execution_nodes of the session
  Requires,     \* Requires[n]: the column "requires" of row n
  Manual,       \* the nodes whose execution_mode is "manual"
  MaxAttempts,  \* MAX_ATTEMPTS, 3 in the code
  ClaimLimit,   \* MAX_CONCURRENT_NODES, 8 in the code
  MaxFaults     \* bound of the model: crashes and failed statements

ASSUME RequiresAssumption == Requires \in [Nodes -> SUBSET Nodes]

ASSUME ManualAssumption == Manual \subseteq Nodes

ASSUME LimitsAssumption ==
  /\ MaxAttempts \in Nat \ {0}
  /\ ClaimLimit \in Nat \ {0}
  /\ MaxFaults \in Nat

VARIABLES
  session,     \* execution_sessions.status
  status,      \* execution_nodes.status, per node
  attempts,    \* attempt_count, per node
  breakpoint,  \* breakpoint, per node
  stale,       \* started_at is NULL or older than STALE_NODE_TIMEOUT
  task,        \* where the tokio task of a claimed node stands
  approving,   \* an approve handler stands between its two updates
  stopping,    \* a stop handler stands between its two updates
  faults       \* crashes and failed statements so far

rows  == <<status, attempts, breakpoint, stale>>
calls == <<approving, stopping>>
vars  == <<session, rows, task, calls, faults>>

SessionStatus == {"awaiting_approval", "executing", "completed", "cancelled"}

NodeStatus == {"pending", "waiting", "ready", "running", "awaiting_reply",
               "passed", "failed", "skipped", "cancelled"}

\* "run" is the agent loop; the others are the statements that follow it.
TaskState == {"none", "run", "unblock", "skip", "count", "complete"}

-----------------------------------------------------------------------------
(* What the SQL statements select. *)

Blocked == {n \in Nodes : status[n] \in {"pending", "waiting"}}

\* The statuses check_session_completion counts as terminal ("preview" rows
\* belong to the orchestrator and are not part of this module).
Settled == {"passed", "failed", "skipped", "cancelled", "awaiting_reply"}

\* Mutant of AllSettled: blocked nodes are forgotten.
NoneActive == \A n \in Nodes : status[n] \notin {"ready", "running"}

AllSettled == \A n \in Nodes : status[n] \in Settled

Claimable == {n \in Nodes : /\ status[n] = "ready"
                            /\ attempts[n] < MaxAttempts
                            /\ ~breakpoint[n]}

Stuck == {n \in Nodes : status[n] = "running" /\ stale[n]}

\* Mutants of Unblockable: one passed requirement is enough; only "waiting"
\* dependents are looked at.
UnblockableByAny(n) == {m \in Blocked : n \in Requires[m]}

UnblockableWaiting(n) ==
  {m \in Blocked : /\ n \in Requires[m]
                   /\ status[m] = "waiting"
                   /\ \A d \in Requires[m] : status[d] = "passed"}

\* The rows unblock_downstream(n) turns ready.
Unblockable(n) ==
  {m \in Blocked : /\ n \in Requires[m]
                   /\ \A d \in Requires[m] : status[d] = "passed"}

\* The recursive CTE of skip_downstream(n): the least set of blocked rows
\* that holds the dependents of n and the dependents of its own members.
ClosedUnder(n, S) ==
  \A m \in Blocked : Requires[m] \cap (S \cup {n}) # {} => m \in S

\* Mutant of Downstream: the CTE is not recursive.
DirectDependents(n) == {m \in Blocked : n \in Requires[m]}

Downstream(n) ==
  {m \in Blocked : \A S \in SUBSET Blocked : ClosedUnder(n, S) => m \in S}

\* The column "status" after the rows of S were set to s.
SetAll(S, s) == [n \in Nodes |-> IF n \in S THEN s ELSE status[n]]

\* No task of the current batch is alive: the worker loop is at its tick.
BatchDone == \A n \in Nodes : task[n] = "none"

-----------------------------------------------------------------------------
(* The planner writes roots "pending" and the other nodes "waiting"; a     *)
(* session created from Slack has every node "pending".  A breakpoint may  *)
(* have been set on any node while the plan was under review.              *)

Init ==
  /\ session = "awaiting_approval"
  /\ \/ status = [n \in Nodes |-> IF Requires[n] = {} THEN "pending" ELSE "waiting"]
     \/ status = [n \in Nodes |-> "pending"]
  /\ attempts = [n \in Nodes |-> 0]
  /\ breakpoint \in [Nodes -> BOOLEAN]
  /\ stale = [n \in Nodes |-> TRUE]
  /\ task = [n \in Nodes |-> "none"]
  /\ approving = FALSE
  /\ stopping = FALSE
  /\ faults = 0

-----------------------------------------------------------------------------
(* The session handlers. *)

\* execution_approve, first update (the preflight only reads).
ApproveSession ==
  /\ ~approving
  /\ approving' = TRUE
  /\ session' = IF session = "awaiting_approval" THEN "executing" ELSE session
  /\ UNCHANGED <<rows, task, stopping, faults>>

\* execution_approve, second update: it does not look at the session again.
ApproveNodes ==
  /\ approving
  /\ approving' = FALSE
  /\ status' = SetAll({n \in Nodes : status[n] = "pending" /\ Requires[n] = {}}, "ready")
  /\ UNCHANGED <<session, attempts, breakpoint, stale, task, stopping, faults>>

\* execution_stop, first update.
StopSession ==
  /\ ~stopping
  /\ stopping' = TRUE
  /\ session' = IF session \in {"executing", "awaiting_approval"}
                THEN "cancelled" ELSE session
  /\ UNCHANGED <<rows, task, approving, faults>>

\* execution_stop, second update: running and paused nodes are left alone.
StopNodes ==
  /\ stopping
  /\ stopping' = FALSE
  /\ status' = SetAll({n \in Nodes : status[n] \in {"pending", "waiting", "ready"}},
                      "cancelled")
  /\ UNCHANGED <<session, attempts, breakpoint, stale, task, approving, faults>>

\* execution_node_release.
Release(n) ==
  /\ breakpoint[n]
  /\ status[n] \in {"ready", "waiting", "pending"}
  /\ breakpoint' = [breakpoint EXCEPT ![n] = FALSE]
  /\ UNCHANGED <<session, status, attempts, stale, task, calls, faults>>

-----------------------------------------------------------------------------
(* The worker loop. *)

\* Mutant of Claim: the claim does not join the session.
ClaimAnySession(S) ==
  /\ BatchDone
  /\ S # {}
  /\ S \subseteq Claimable
  /\ Cardinality(S) <= ClaimLimit
  /\ status' = SetAll(S, "running")
  /\ attempts' = [n \in Nodes |-> IF n \in S THEN attempts[n] + 1 ELSE attempts[n]]
  /\ stale' = [n \in Nodes |-> IF n \in S THEN FALSE ELSE stale[n]]
  /\ task' = [n \in Nodes |-> IF n \in S THEN "run" ELSE task[n]]
  /\ UNCHANGED <<session, breakpoint, calls, faults>>

\* claim_ready_nodes and the spawn of one task per claimed row.
Claim(S) ==
  /\ BatchDone
  /\ session = "executing"
  /\ S # {}
  /\ S \subseteq Claimable
  /\ Cardinality(S) <= ClaimLimit
  /\ Cardinality(S) = ClaimLimit \/ S = Claimable
  /\ status' = SetAll(S, "running")
  /\ attempts' = [n \in Nodes |-> IF n \in S THEN attempts[n] + 1 ELSE attempts[n]]
  /\ stale' = [n \in Nodes |-> IF n \in S THEN FALSE ELSE stale[n]]
  /\ task' = [n \in Nodes |-> IF n \in S THEN "run" ELSE task[n]]
  /\ UNCHANGED <<session, breakpoint, calls, faults>>

\* recover_stale_nodes, at start-up and every 30th tick.
Sweep ==
  /\ BatchDone
  /\ Stuck # {}
  /\ status' = [n \in Nodes |->
       IF n \notin Stuck THEN status[n]
       ELSE IF attempts[n] >= MaxAttempts THEN "failed" ELSE "ready"]
  /\ UNCHANGED <<session, attempts, breakpoint, stale, task, calls, faults>>

\* Ten minutes pass since the row was claimed (it matters to running rows only).
GrowStale(n) ==
  /\ status[n] = "running"
  /\ ~stale[n]
  /\ stale' = [stale EXCEPT ![n] = TRUE]
  /\ UNCHANGED <<session, status, attempts, breakpoint, task, calls, faults>>

-----------------------------------------------------------------------------
(* The task of one claimed node: execute_node. *)

\* A manual step is handed to the user; the agent loop may end three ways.
Outcomes(n) ==
  IF n \in Manual THEN {"awaiting_reply"} ELSE {"passed", "failed", "awaiting_reply"}

\* Mutant of AfterPersist: a failure goes straight to the completion check.
AfterPersistNoSkip(r) ==
  CASE r = "passed" -> "unblock" [] r = "failed" -> "count" [] OTHER -> "none"

AfterPersist(r) ==
  CASE r = "passed" -> "unblock" [] r = "failed" -> "skip" [] OTHER -> "none"

\* The agent loop ends and persist_node_result writes the row, or a manual
\* node is set to awaiting_reply and its task returns.
Persist(n, r) ==
  /\ task[n] = "run"
  /\ r \in Outcomes(n)
  /\ status' = [status EXCEPT ![n] = r]
  /\ task' = [task EXCEPT ![n] = AfterPersist(r)]
  /\ UNCHANGED <<session, attempts, breakpoint, stale, calls, faults>>

\* unblock_downstream.
Unblock(n) ==
  /\ task[n] = "unblock"
  /\ status' = SetAll(Unblockable(n), "ready")
  /\ task' = [task EXCEPT ![n] = "count"]
  /\ UNCHANGED <<session, attempts, breakpoint, stale, calls, faults>>

\* Mutant of Skip: the task returns without the completion check.
SkipAndReturn(n) ==
  /\ task[n] = "skip"
  /\ status' = SetAll(Downstream(n), "skipped")
  /\ task' = [task EXCEPT ![n] = "none"]
  /\ UNCHANGED <<session, attempts, breakpoint, stale, calls, faults>>

\* skip_downstream.
Skip(n) ==
  /\ task[n] = "skip"
  /\ status' = SetAll(Downstream(n), "skipped")
  /\ task' = [task EXCEPT ![n] = "count"]
  /\ UNCHANGED <<session, attempts, breakpoint, stale, calls, faults>>

\* check_session_completion, the count.
CountSettled(n) ==
  /\ task[n] = "count"
  /\ task' = [task EXCEPT ![n] = IF AllSettled THEN "complete" ELSE "none"]
  /\ UNCHANGED <<session, rows, calls, faults>>

\* Mutant of Complete: a session with a failed node is marked failed.
CompleteAsFailed(n) ==
  /\ task[n] = "complete"
  /\ session' = IF \E m \in Nodes : status[m] = "failed" THEN "failed" ELSE "completed"
  /\ task' = [task EXCEPT ![n] = "none"]
  /\ UNCHANGED <<rows, calls, faults>>

\* check_session_completion, the update: WHERE status != 'completed'.
Complete(n) ==
  /\ task[n] = "complete"
  /\ session' = "completed"
  /\ task' = [task EXCEPT ![n] = "none"]
  /\ UNCHANGED <<rows, calls, faults>>

-----------------------------------------------------------------------------
(* Faults. *)

\* The statement a task is about to run fails: the error is logged, and the
\* task returns, except that a failed unblock or skip is followed by the count.
StatementFails(n) ==
  /\ faults < MaxFaults
  /\ faults' = faults + 1
  /\ task[n] # "none"
  /\ task' = [task EXCEPT ![n] = IF task[n] \in {"unblock", "skip"} THEN "count" ELSE "none"]
  /\ UNCHANGED <<session, rows, calls>>

\* The process dies and is started again: tasks and handlers are gone, the
\* rows stay.  Also a graceful shutdown, which does not wait for the tasks.
Crash ==
  /\ faults < MaxFaults
  /\ faults' = faults + 1
  /\ task' = [n \in Nodes |-> "none"]
  /\ approving' = FALSE
  /\ stopping' = FALSE
  /\ UNCHANGED <<session, rows>>

-----------------------------------------------------------------------------
TaskStep(n) ==
  \/ \E r \in NodeStatus : Persist(n, r)
  \/ Unblock(n)
  \/ Skip(n)
  \/ CountSettled(n)
  \/ Complete(n)

WorkerPoll == Sweep \/ \E S \in SUBSET Nodes : Claim(S)

Next ==
  \/ ApproveSession
  \/ ApproveNodes
  \/ StopSession
  \/ StopNodes
  \/ WorkerPoll
  \/ Crash
  \/ \E n \in Nodes : Release(n) \/ GrowStale(n) \/ TaskStep(n) \/ StatementFails(n)

Spec == Init /\ [][Next]_vars

\* The loop ticks for ever, tokio polls every task, time passes, and an
\* approve or stop handler that did its first update runs on to its second.
\* Nothing obliges a user to approve, to stop or to release a breakpoint.
Fairness ==
  /\ WF_vars(WorkerPoll)
  /\ WF_vars(ApproveNodes)
  /\ WF_vars(StopNodes)
  /\ \A n \in Nodes : WF_vars(TaskStep(n)) /\ WF_vars(GrowStale(n))

FairSpec == Spec /\ Fairness

-----------------------------------------------------------------------------
(* Correctness. *)

TypeOK ==
  /\ session \in SessionStatus
  /\ status \in [Nodes -> NodeStatus]
  /\ attempts \in [Nodes -> 0 .. MaxAttempts]
  /\ breakpoint \in [Nodes -> BOOLEAN]
  /\ stale \in [Nodes -> BOOLEAN]
  /\ task \in [Nodes -> TaskState]
  /\ approving \in BOOLEAN
  /\ stopping \in BOOLEAN
  /\ faults \in 0 .. MaxFaults

\* A node that was made ready, or went further, has all its requirements
\* passed: unblock_downstream, the claim, the retry of the sweep and the
\* approval together never let a node start early, whatever crashes between.
DependenciesPassed ==
  \A n \in Nodes :
    status[n] \in {"ready", "running", "awaiting_reply", "passed", "failed"} =>
      \A d \in Requires[n] : status[d] = "passed"

\* While no statement failed and no process died, a blocked node whose last
\* requirement has passed is about to be unblocked: two tasks that finish
\* together cannot each leave the wake-up to the other.
NoLostWakeup ==
  faults = 0 =>
    \A n \in Blocked :
      (Requires[n] # {} /\ \A d \in Requires[n] : status[d] = "passed") =>
        \E d \in Requires[n] : task[d] = "unblock"

\* Under the same condition a blocked node that can no longer run, because a
\* requirement failed or was skipped, is in reach of a pending skip_downstream.
DoomedAreSkipped ==
  faults = 0 =>
    \A n \in Blocked :
      (\E d \in Requires[n] : status[d] \in {"failed", "skipped"}) =>
        \E f \in Nodes : task[f] = "skip" /\ n \in Downstream(f)

\* A node is skipped only because of a requirement that failed or was skipped.
SkippedHasCause ==
  \A n \in Nodes :
    status[n] = "skipped" =>
      \E d \in Requires[n] : status[d] \in {"failed", "skipped"}

\* skip_downstream races with every unblock, and still skips what can no longer
\* run and nothing else.
SkipsAreExact == DoomedAreSkipped /\ SkippedHasCause

\* check_session_completion counts in one statement and completes in another:
\* nothing that happens between them reopens a session that is completed.
CompletedIsSettled ==
  session = "completed" =>
    \A n \in Nodes : status[n] \notin {"pending", "waiting", "ready", "running"}

\* The sweep never leaves a row ready that the claim will not take: a node out
\* of attempts is failed, not left to wait in front of the claim for ever.
ReadyHasAttempts ==
  \A n \in Nodes : status[n] = "ready" => attempts[n] < MaxAttempts

\* At most one process step away: a live task works on a row that still says
\* so; no sweep, stop or second claim takes the row from under it.
TaskOwnsRow ==
  \A n \in Nodes :
    /\ task[n] = "run" => status[n] = "running"
    /\ task[n] = "unblock" => status[n] = "passed"
    /\ task[n] = "skip" => status[n] = "failed"

\* What a node ended with is never rewritten: not by the sweep after a crash
\* between persist and unblock, not by a stop, not by a skip from elsewhere.
FinalStatusStays ==
  [][\A n \in Nodes : status[n] \in {"passed", "failed", "skipped", "cancelled"}
                        => status'[n] = status[n]]_vars

\* An executing session settles, unless a user has to act: a node waits for a
\* reply, or is held by a breakpoint.  A fault between two statements of a task
\* can lose a wake-up for good, so the promise is for runs without one.
ExecutionSettles ==
  session = "executing" ~>
    \/ session # "executing"
    \/ \E n \in Nodes : status[n] = "awaiting_reply"
    \/ \E n \in Nodes : breakpoint[n] /\ status[n] = "ready"
    \/ faults > 0

\* The failure of a node reaches every node that depends on it.
FailureReachesDependents ==
  \A n, m \in Nodes :
    (n \in Requires[m] /\ status[n] = "failed") ~>
      (status[m] \in {"skipped", "cancelled"} \/ faults > 0)

-----------------------------------------------------------------------------
(* What the documents say and the code does not do. *)

\* docs/mcp-system-design.md:113 and routes.rs:907-908 say that a stop cancels
\* the session.  Once the handler has returned, the completion update of a task
\* that was running makes a "completed" session of it.
CancelledSessionStays ==
  [][session = "cancelled" /\ ~stopping => session' = "cancelled"]_vars
=============================================================================
