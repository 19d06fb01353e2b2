---------------------------- MODULE Orchestrator ----------------------------
(***************************************************************************)
(* An orchestrated session: one master row and the child rows of its plan. *)
(* AgentRunner::run_orchestrated_plan and run_child                        *)
(* (src/backend/src/agent_runner.rs), the worker loop around them, a stop  *)
(* of the session, and the replies of execution_node_reply                 *)
(* (src/backend/src/routes.rs), which go from the master to a paused child *)
(* and from a finished child back to the master.                           *)
(*                                                                         *)
(* Rows are numbered in the order of created_at.  The plan's rows are      *)
(* "preview" until the master's task claims them one by one; it inserts a  *)
(* row where it finds no preview.  The task keeps its plan in memory, the  *)
(* rows can be changed under it, and a crash loses the one and not the     *)
(* other.                                                                  *)
(***************************************************************************)
EXTENDS Naturals, FiniteSets

CONSTANTS
  Planned,      \* number of children in the plan that was approved
  MaxRow,       \* bound of the model: child rows there can be
  Agents,       \* agent slugs a plan can name
  Catalog,      \* the slugs the agent catalog knows
  MaxAttempts,  \* MAX_ATTEMPTS, 3 in the code
  Replies,      \* bound of the model: the replies users send
  MaxFaults     \* bound of the model: crashes and failed statements

ASSUME PlanAssumption ==
  /\ Planned \in Nat \ {0}
  /\ MaxRow \in Nat
  /\ Planned <= MaxRow

ASSUME CatalogAssumption == Catalog \subseteq Agents

ASSUME OrchestratorLimits == MaxAttempts \in Nat \ {0} /\ MaxFaults \in Nat

Master == 0
Rows   == 1..MaxRow
Nodes  == {Master} \cup Rows
NoRow  == MaxRow + 1  \* the row of a step whose child could not be created

VARIABLES
  session,   \* execution_sessions.status
  stopping,  \* a stop handler stands between its two updates
  status,    \* execution_nodes.status, "absent" before the INSERT
  slug,      \* agent_slug of a child row
  started,   \* started_at: "null", "recent", or "old" (STALE_NODE_TIMEOUT)
  attempts,  \* attempt_count
  conv,      \* conversation_state IS NOT NULL
  task,      \* where the task of a row the worker loop claimed stands
  at,        \* where the plan of the master's task stands
  todo,      \* preview_children not done yet: the least one is the step
  retried,   \* the step is in its retry
  row,       \* the row run_child took for the step
  result,    \* the status in the JSON run_child returned
  got,       \* step_results: row and final status of every step done
  target,    \* the node a reply in progress runs
  sentTo,    \* the node the user sent it to
  replyAt,   \* where its handler or task stands
  answer,    \* the status its resumed node ended with
  faults,    \* crashes and failed statements so far
  direct,    \* history: a reply was sent to a child itself
  trampled   \* history: a reply and another writer met on one row

rowVars   == <<status, slug, started, attempts, conv>>
planVars  == <<at, todo, retried, row, result, got>>
replyVars == <<target, sentTo, replyAt, answer>>
history   == <<direct, trampled>>
vars == <<session, stopping, rowVars, task, planVars, replyVars, faults, history>>

Ends == {"passed", "failed", "awaiting_reply"}

RowStatus == {"absent", "preview", "ready", "running", "cancelled"} \cup Ends

\* What the master counts a step as; "unknown": the JSON has no status,
\* "empty": passed without structured output.
StepResult == Ends \cup {"unknown", "empty"}

PlanState == {"none", "load", "claim", "run", "check", "reset", "close", "free"}

ReplyState == {"unsent", "route", "mark", "run", "parent", "finish",
               "count", "complete", "none"}

-----------------------------------------------------------------------------
(* What the SQL statements select. *)

Least(S) == CHOOSE n \in S : \A m \in S : n <= m

Greatest(S) == CHOOSE n \in S : \A m \in S : m <= n

WithStatus(S) == {n \in Nodes : status[n] \in S}

Previews(s) == {n \in Rows : status[n] = "preview" /\ slug[n] = s}

Unused == {n \in Rows : status[n] = "absent"}

\* Mutant of Stuck: children are left to their master.
StuckTopLevel ==
  {n \in WithStatus({"running"}) : n = Master /\ started[n] \in {"null", "old"}}

Stuck == {n \in WithStatus({"running"}) : started[n] \in {"null", "old"}}

\* check_session_completion: previews and paused rows count as terminal.
AllSettled == WithStatus({"ready", "running"}) = {}

PausedChildren == {n \in Rows : status[n] = "awaiting_reply"}

BatchDone == \A n \in Nodes : task[n] = "none"

Step == Least(todo)

ReplyOn(n, where) == \E c \in Replies : target[c] = n /\ replyAt[c] \in where

-----------------------------------------------------------------------------
(* The plan was approved: the master is ready, its children are previews.   *)

Init ==
  /\ session = "executing"
  /\ stopping = FALSE
  /\ status = [n \in Nodes |-> IF n = Master THEN "ready"
                               ELSE IF n <= Planned THEN "preview" ELSE "absent"]
  /\ \E plan \in [1..Planned -> Agents] :
       slug = [n \in Rows |-> IF n <= Planned THEN plan[n] ELSE plan[1]]
  /\ started = [n \in Nodes |-> "null"]
  /\ attempts = [n \in Nodes |-> 0]
  /\ conv = [n \in Nodes |-> FALSE]
  /\ task = [n \in Nodes |-> "none"]
  /\ at = "none" /\ todo = {} /\ retried = FALSE
  /\ row = NoRow /\ result = "unknown" /\ got = [n \in {} |-> NoRow]
  /\ target = [c \in Replies |-> Master]
  /\ sentTo = [c \in Replies |-> Master]
  /\ replyAt = [c \in Replies |-> "unsent"]
  /\ answer = [c \in Replies |-> "failed"]
  /\ faults = 0 /\ direct = FALSE /\ trampled = FALSE

-----------------------------------------------------------------------------
(* The worker loop and a stop, as in WorkQueue; no row requires another.    *)

\* claim_ready_nodes (a session has fewer rows than the batch has places).
Claim ==
  LET S == {n \in WithStatus({"ready"}) : attempts[n] < MaxAttempts} IN
  /\ BatchDone
  /\ session = "executing"
  /\ S # {}
  /\ status' = [n \in Nodes |-> IF n \in S THEN "running" ELSE status[n]]
  /\ attempts' = [n \in Nodes |-> IF n \in S THEN attempts[n] + 1 ELSE attempts[n]]
  /\ started' = [n \in Nodes |-> IF n \in S THEN "recent" ELSE started[n]]
  /\ task' = [n \in Nodes |-> IF n \in S THEN "run" ELSE "none"]
  /\ at' = IF Master \in S THEN "load" ELSE at
  /\ UNCHANGED <<session, stopping, slug, conv, todo, retried, row, result, got,
                 replyVars, faults, history>>

\* recover_stale_nodes.
Sweep ==
  /\ BatchDone
  /\ Stuck # {}
  /\ status' = [n \in Nodes |->
       IF n \notin Stuck THEN status[n]
       ELSE IF attempts[n] >= MaxAttempts THEN "failed" ELSE "ready"]
  /\ started' = [n \in Nodes |-> IF n \in Stuck THEN "null" ELSE started[n]]
  /\ trampled' = (trampled \/ \E n \in Stuck : ReplyOn(n, {"run"}))
  /\ UNCHANGED <<session, stopping, slug, attempts, conv, task, planVars,
                 replyVars, faults, direct>>

\* Ten minutes pass since started_at (only the sweep looks at it, and the sweep
\* waits for the batch).
GrowOld(n) ==
  /\ BatchDone
  /\ status[n] = "running"
  /\ started[n] = "recent"
  /\ started' = [started EXCEPT ![n] = "old"]
  /\ UNCHANGED <<session, stopping, status, slug, attempts, conv, task, planVars,
                 replyVars, faults, history>>

\* execution_stop, its two updates.
StopSession ==
  /\ ~stopping
  /\ stopping' = TRUE
  /\ session' = IF session = "executing" THEN "cancelled" ELSE session
  /\ UNCHANGED <<rowVars, task, planVars, replyVars, faults, history>>

StopNodes ==
  /\ stopping
  /\ stopping' = FALSE
  /\ status' = [n \in Nodes |-> IF status[n] \in {"ready", "preview"}
                                THEN "cancelled" ELSE status[n]]
  /\ UNCHANGED <<session, slug, started, attempts, conv, task, planVars,
                 replyVars, faults, history>>

\* A row ends with r; what was saved of its conversation on the way.
RowEnds(n, r) ==
  /\ status' = [status EXCEPT ![n] = r]
  /\ \E saved \in BOOLEAN :
       /\ r \in {"passed", "awaiting_reply"} => saved
       /\ conv' = [conv EXCEPT ![n] = conv[n] \/ saved]

\* execute_node for a child row that came to the worker loop through the sweep;
\* only here is a manual row left to the user without being run.
RunSweptChild(n, r) ==
  /\ n # Master
  /\ task[n] = "run"
  /\ \/ RowEnds(n, r)
     \/ /\ r = "awaiting_reply"
        /\ status' = [status EXCEPT ![n] = r]
        /\ UNCHANGED conv
  /\ task' = [task EXCEPT ![n] = IF r = "awaiting_reply" THEN "none" ELSE "count"]
  /\ UNCHANGED <<session, stopping, slug, started, attempts, planVars, replyVars,
                 faults, history>>

\* check_session_completion, the count and the update.
CountSettled(n) ==
  /\ task[n] = "count"
  /\ task' = [task EXCEPT ![n] = IF AllSettled THEN "complete" ELSE "none"]
  /\ UNCHANGED <<session, stopping, rowVars, planVars, replyVars, faults, history>>

Complete(n) ==
  /\ task[n] = "complete"
  /\ session' = "completed"
  /\ task' = [task EXCEPT ![n] = "none"]
  /\ UNCHANGED <<stopping, rowVars, planVars, replyVars, faults, history>>

-----------------------------------------------------------------------------
(* The master's task: run_orchestrated_plan.  The enrichment in front of    *)
(* each step and the synthesis behind the last only add text; their errors  *)
(* are survived.                                                            *)

Unplanned == <<session, stopping, task, replyVars, history>>

\* load_preview_plan; without a plan the model runs with spawn_agent as a tool.
LoadPlan ==
  /\ at = "load"
  /\ todo' = {n \in Rows : status[n] = "preview"}
  /\ at' = IF todo' = {} THEN "free" ELSE "claim"
  /\ UNCHANGED <<Unplanned, rowVars, retried, row, result, got, faults>>

\* run_child up to the agent's run: it claims row r with started_at NOW() ...
TakePreview(r, s) ==
  /\ status' = [status EXCEPT ![r] = "running"]
  /\ started' = [started EXCEPT ![r] = "recent"]
  /\ row' = r
  /\ at' = "run"
  /\ UNCHANGED <<slug, attempts, conv>>

\* Mutant of InsertRow: the row is inserted for the work queue.
InsertPending(s) ==
  LET r == Least(Unused) IN
  /\ Unused # {}
  /\ status' = [status EXCEPT ![r] = "pending"]
  /\ slug' = [slug EXCEPT ![r] = s]
  /\ row' = r
  /\ at' = "run"
  /\ UNCHANGED <<started, attempts, conv>>

\* ... or inserts it, without a started_at.
InsertRow(s) ==
  LET r == Least(Unused) IN
  /\ Unused # {}
  /\ status' = [status EXCEPT ![r] = "running"]
  /\ slug' = [slug EXCEPT ![r] = s]
  /\ row' = r
  /\ at' = "run"
  /\ UNCHANGED <<started, attempts, conv>>

ChildStarts(s) ==
  IF Previews(s) # {} THEN TakePreview(Least(Previews(s)), s) ELSE InsertRow(s)

\* A step whose agent the catalog does not know is over at once.
ClaimChild ==
  /\ at = "claim"
  /\ \/ /\ slug[Step] \in Catalog
        /\ ChildStarts(slug[Step])
        /\ UNCHANGED <<result, faults>>
     \/ /\ slug[Step] \notin Catalog
        /\ row' = NoRow /\ result' = "unknown" /\ at' = "check"
        /\ UNCHANGED <<rowVars, faults>>
  /\ UNCHANGED <<Unplanned, todo, retried, got>>

\* spawn_agent in the open loop.
SpawnAgent(s) ==
  /\ at = "free"
  /\ s \in Catalog
  /\ ChildStarts(s)
  /\ UNCHANGED <<Unplanned, todo, retried, result, got, faults>>

\* run_child from the agent's run on.
FinishChild(r) ==
  /\ at = "run"
  /\ RowEnds(row, r)
  /\ result' = r
  /\ at' = "check"
  /\ UNCHANGED <<Unplanned, slug, started, attempts, todo, retried, row, got, faults>>

\* What the master may make of a result: URLs that do not answer fail a first
\* run that passed, and a pass without structured output does not count.
Verdicts ==
  CASE result = "passed" -> {"passed", "empty"} \cup (IF retried THEN {} ELSE {"failed"})
    [] OTHER -> {result}

\* The step is done: the next one, or the synthesis.
Record(v) ==
  /\ got' = [n \in DOMAIN got \cup {Step} |->
               IF n = Step THEN [row |-> row, is |-> v] ELSE got[n]]
  /\ todo' = todo \ {Step}
  /\ retried' = FALSE
  /\ at' = IF todo' = {} THEN "close" ELSE "claim"
  /\ UNCHANGED <<row, result>>

CheckChild(v) ==
  /\ at = "check"
  /\ \/ /\ todo = {}
        /\ at' = "free"
        /\ UNCHANGED <<todo, retried, row, result, got>>
     \/ /\ todo # {} /\ v \in Verdicts
        /\ v = "failed" /\ ~retried
        /\ at' = "reset"
        /\ UNCHANGED <<todo, retried, row, result, got>>
     \/ /\ todo # {} /\ v \in Verdicts
        /\ v # "failed" \/ retried
        /\ Record(v)
  /\ UNCHANGED <<Unplanned, rowVars, faults>>

\* Mutant of ResetChild: the row is left as it is.
RetryWithoutReset ==
  /\ at = "reset"
  /\ retried' = TRUE
  /\ at' = "claim"
  /\ UNCHANGED <<Unplanned, rowVars, todo, row, result, got, faults>>

\* The failed row becomes a preview again, so that the retry claims it.
ResetChild ==
  /\ at = "reset"
  /\ status' = [status EXCEPT ![row] = "preview"]
  /\ started' = [started EXCEPT ![row] = "null"]
  /\ retried' = TRUE
  /\ at' = "claim"
  /\ UNCHANGED <<Unplanned, slug, attempts, conv, todo, row, result, got, faults>>

\* The master's own result.
AllPassed == \A n \in DOMAIN got : got[n].is \in {"passed", "awaiting_reply"}

\* Mutant of PlanOutcome: the last step decides.
LastStepOutcome ==
  LET last == got[Greatest(DOMAIN got)].is IN
  IF last \in Ends THEN last ELSE "failed"

PlanOutcome ==
  IF ~AllPassed THEN "failed"
  ELSE IF \E n \in DOMAIN got : got[n].is = "awaiting_reply" THEN "awaiting_reply"
  ELSE "passed"

\* A credential is missing before the start, the plan ends, or the open loop
\* does; persist_node_result.
FinishMaster(r) ==
  /\ \/ at = "load" /\ r = "failed"
     \/ at = "close" /\ r = PlanOutcome
     \/ at = "free"
  /\ RowEnds(Master, r)
  /\ at = "load" => conv' = conv
  /\ at = "close" => conv'[Master]
  /\ at' = "none"
  /\ got' = [n \in {} |-> NoRow]
  /\ row' = NoRow
  /\ result' = "unknown"
  /\ task' = [task EXCEPT ![Master] = IF r = "awaiting_reply" THEN "none" ELSE "count"]
  /\ UNCHANGED <<session, stopping, slug, started, attempts, todo, retried,
                 replyVars, faults, history>>

-----------------------------------------------------------------------------
(* Replies: execution_node_reply.                                           *)

Here == <<session, stopping, slug, started, attempts, task, planVars, faults>>

\* Call c goes on to w, or is over.
Goes(c, w) ==
  /\ replyAt' = [replyAt EXCEPT ![c] = w]
  /\ IF w = "none"
     THEN /\ target' = [target EXCEPT ![c] = Master]
          /\ sentTo' = [sentTo EXCEPT ![c] = Master]
          /\ answer' = [answer EXCEPT ![c] = "failed"]
     ELSE UNCHANGED <<target, sentTo, answer>>

\* The first statement; refused with 409 if the node has not started.
CheckReply(c, n) ==
  /\ replyAt[c] = "unsent"
  /\ status[n] # "absent"
  /\ IF ~conv[n] /\ status[n] \in {"ready", "preview"}
     THEN Goes(c, "none") /\ UNCHANGED direct
     ELSE /\ replyAt' = [replyAt EXCEPT ![c] =
                           IF status[n] = "awaiting_reply" THEN "route" ELSE "mark"]
          /\ sentTo' = [sentTo EXCEPT ![c] = n]
          /\ target' = [target EXCEPT ![c] = n]
          /\ direct' = (direct \/ n # Master)
          /\ UNCHANGED answer
  /\ UNCHANGED <<Here, status, conv, trampled>>

\* The second: the newest paused child with a conversation answers for it.
RouteReply(c) ==
  LET paused == {n \in PausedChildren : conv[n]} IN
  /\ replyAt[c] = "route"
  /\ replyAt' = [replyAt EXCEPT ![c] = "mark"]
  /\ target' = [target EXCEPT ![c] =
                  IF sentTo[c] = Master /\ paused # {} THEN Greatest(paused) ELSE @]
  /\ UNCHANGED <<Here, status, conv, sentTo, answer, history>>

MarkRunning(c) ==
  /\ replyAt[c] = "mark"
  /\ status' = [status EXCEPT ![target[c]] = "running"]
  /\ trampled' = (trampled \/ status[target[c]] # "awaiting_reply")
  /\ Goes(c, "run")
  /\ UNCHANGED <<Here, conv, direct>>

\* A child that ended turns to its master first, every other node to the
\* completion check.
AfterReply(c, r) ==
  IF r = "awaiting_reply" THEN "none"
  ELSE IF target[c] # sentTo[c] THEN "parent" ELSE "count"

\* resume_with_reply ends and its result is written.
PersistReply(c, r) ==
  LET n == target[c] IN
  /\ replyAt[c] = "run"
  /\ r = "failed" \/ (r \in Ends /\ conv[n])
  /\ status' = [status EXCEPT ![n] = r]
  /\ IF r = "awaiting_reply" THEN Goes(c, "none")
     ELSE /\ replyAt' = [replyAt EXCEPT ![c] = AfterReply(c, r)]
          /\ answer' = [answer EXCEPT ![c] = r]
          /\ UNCHANGED <<target, sentTo>>
  /\ UNCHANGED <<Here, conv, history>>

\* Mutant of CountPaused: the answered child itself is still counted.
CountPausedTooMany(c) ==
  /\ replyAt[c] = "parent"
  /\ Goes(c, IF PausedChildren \cup {target[c]} = {} THEN "finish" ELSE "count")
  /\ UNCHANGED <<Here, status, conv, history>>

\* The SELECT that counts the children still awaiting a reply.
CountPaused(c) ==
  /\ replyAt[c] = "parent"
  /\ Goes(c, IF PausedChildren = {} THEN "finish" ELSE "count")
  /\ UNCHANGED <<Here, status, conv, history>>

\* The master takes the status of the child that was answered last.
FinishParent(c) ==
  /\ replyAt[c] = "finish"
  /\ status' = [status EXCEPT ![Master] = answer[c]]
  /\ trampled' = (trampled \/ status[Master] # "awaiting_reply")
  /\ Goes(c, "count")
  /\ UNCHANGED <<Here, conv, direct>>

\* Mutant of CountAfterReply: the completion check is left out.
NoCountAfterReply(c) ==
  /\ replyAt[c] = "count"
  /\ Goes(c, "none")
  /\ UNCHANGED <<Here, status, conv, history>>

CountAfterReply(c) ==
  /\ replyAt[c] = "count"
  /\ Goes(c, IF AllSettled THEN "complete" ELSE "none")
  /\ UNCHANGED <<Here, status, conv, history>>

CompleteAfterReply(c) ==
  /\ replyAt[c] = "complete"
  /\ session' = "completed"
  /\ Goes(c, "none")
  /\ UNCHANGED <<stopping, rowVars, task, planVars, faults, history>>

-----------------------------------------------------------------------------
(* Faults. *)

Fault == faults < MaxFaults /\ faults' = faults + 1

\* The agent run_child is called with.
Wanted ==
  Catalog \cap (CASE at = "claim" -> {slug[Step]}
                  [] at = "free"  -> Agents
                  [] OTHER        -> {})

\* An error of the database is logged or dropped and the task goes on: no plan
\* is found, the claim inserts a row, the insertion has a result without a
\* status, the result of a child or its reset is not written.
PlanStatementFails ==
  /\ Fault
  /\ \/ /\ at = "load"
        /\ at' = "free"
        /\ UNCHANGED <<rowVars, retried, row, result>>
     \/ /\ \E s \in Wanted : InsertRow(s)
        /\ UNCHANGED <<retried, result>>
     \/ /\ \E s \in Wanted : Previews(s) = {}
        /\ row' = NoRow /\ result' = "unknown" /\ at' = "check"
        /\ UNCHANGED <<rowVars, retried>>
     \/ /\ at = "run"
        /\ result' \in Ends /\ at' = "check"
        /\ UNCHANGED <<rowVars, retried, row>>
     \/ /\ at = "reset"
        /\ retried' = TRUE /\ at' = "claim"
        /\ UNCHANGED <<rowVars, row, result>>
  /\ UNCHANGED <<Unplanned, todo, got>>

\* So is an error in persist_node_result or the completion check.
TaskStatementFails(n) ==
  /\ Fault
  /\ task' = [task EXCEPT ![n] = "none"]
  /\ \/ /\ task[n] \in {"count", "complete"} \/ (task[n] = "run" /\ n # Master)
        /\ UNCHANGED planVars
     \/ /\ n = Master /\ at \in {"load", "close", "free"}
        /\ at' = "none" /\ got' = [m \in {} |-> NoRow]
        /\ row' = NoRow /\ result' = "unknown"
        /\ UNCHANGED <<todo, retried>>
  /\ UNCHANGED <<session, stopping, rowVars, replyVars, history>>

\* A reply: the handler answers 500, except that a failed SELECT of the paused
\* children means there are none; its task drops every error.
ReplyStatementFails(c) ==
  /\ Fault
  /\ \/ replyAt[c] \in {"mark", "count", "complete"} /\ Goes(c, "none")
     \/ replyAt[c] = "route" /\ Goes(c, "mark")
     \/ replyAt[c] = "parent" /\ Goes(c, "finish")
     \/ replyAt[c] = "finish" /\ Goes(c, "count")
     \/ /\ replyAt[c] = "run"
        /\ \E r \in {"passed", "failed"} :
             /\ replyAt' = [replyAt EXCEPT ![c] = AfterReply(c, r)]
             /\ answer' = [answer EXCEPT ![c] = r]
             /\ UNCHANGED <<target, sentTo>>
     \/ replyAt[c] = "run" /\ Goes(c, "none")
  /\ UNCHANGED <<session, stopping, rowVars, task, planVars, history>>

\* The process is killed and started again; the rows stay.
Crash ==
  /\ Fault
  /\ stopping' = FALSE
  /\ task' = [n \in Nodes |-> "none"]
  /\ at' = "none" /\ todo' = {} /\ retried' = FALSE
  /\ row' = NoRow /\ result' = "unknown" /\ got' = [n \in {} |-> NoRow]
  /\ target' = [c \in Replies |-> Master]
  /\ sentTo' = [c \in Replies |-> Master]
  /\ replyAt' = [c \in Replies |-> IF replyAt[c] = "unsent" THEN "unsent" ELSE "none"]
  /\ answer' = [c \in Replies |-> "failed"]
  /\ UNCHANGED <<session, rowVars, history>>

-----------------------------------------------------------------------------
WorkerPoll == Sweep \/ Claim

PlanStep ==
  \/ LoadPlan
  \/ ClaimChild
  \/ \E s \in Agents : SpawnAgent(s)
  \/ \E r \in Ends : FinishChild(r)
  \/ \E v \in StepResult : CheckChild(v)
  \/ ResetChild
  \/ \E r \in Ends : FinishMaster(r)

RowTask(n) ==
  \/ \E r \in Ends : RunSweptChild(n, r)
  \/ CountSettled(n)
  \/ Complete(n)

ReplyStep(c) ==
  \/ RouteReply(c)
  \/ MarkRunning(c)
  \/ \E r \in Ends : PersistReply(c, r)
  \/ CountPaused(c)
  \/ FinishParent(c)
  \/ CountAfterReply(c)
  \/ CompleteAfterReply(c)

Next ==
  \/ WorkerPoll
  \/ PlanStep
  \/ StopSession
  \/ StopNodes
  \/ PlanStatementFails
  \/ Crash
  \/ \E n \in Nodes : RowTask(n) \/ GrowOld(n) \/ TaskStatementFails(n)
  \/ \E c \in Replies :
       ReplyStep(c) \/ ReplyStatementFails(c) \/ \E n \in Nodes : CheckReply(c, n)

Spec == Init /\ [][Next]_vars

\* The worker loop ticks, spawned tasks and accepted requests run to their end,
\* and time passes.
Fairness ==
  /\ WF_vars(WorkerPoll)
  /\ WF_vars(PlanStep)
  /\ WF_vars(StopNodes)
  /\ \A n \in Nodes : WF_vars(RowTask(n)) /\ WF_vars(GrowOld(n))
  /\ \A c \in Replies : WF_vars(ReplyStep(c))

FairSpec == Spec /\ Fairness

-----------------------------------------------------------------------------
(* Correctness. *)

TypeOK ==
  /\ session \in {"executing", "cancelled", "completed"}
  /\ stopping \in BOOLEAN
  /\ status \in [Nodes -> RowStatus]
  /\ slug \in [Rows -> Agents]
  /\ started \in [Nodes -> {"null", "recent", "old"}]
  /\ attempts \in [Nodes -> 0..MaxAttempts]
  /\ conv \in [Nodes -> BOOLEAN]
  /\ task \in [Nodes -> {"none", "run", "count", "complete"}]
  /\ at \in PlanState
  /\ todo \subseteq Rows
  /\ retried \in BOOLEAN
  /\ row \in Rows \cup {NoRow}
  /\ result \in Ends \cup {"unknown"}
  /\ DOMAIN got \subseteq Rows
  /\ \A n \in DOMAIN got : got[n] \in [row : Rows \cup {NoRow}, is : StepResult]
  /\ target \in [Replies -> Nodes]
  /\ sentTo \in [Replies -> Nodes]
  /\ replyAt \in [Replies -> ReplyState]
  /\ answer \in [Replies -> Ends]
  /\ faults \in 0..MaxFaults
  /\ direct \in BOOLEAN
  /\ trampled \in BOOLEAN

\* run_child picks a row by its agent, not by its uid: with one agent in two
\* steps, retries, a stop and failed statements, no step ever gets the row of
\* a step that is done.
StepsHaveTheirOwnRows ==
  /\ \A m, n \in DOMAIN got :
       m # n /\ got[m].row # NoRow => got[m].row # got[n].row
  /\ at = "run" => \A n \in DOMAIN got : got[n].row # row

NoneCancelled == WithStatus({"cancelled"}) = {}

\* agent_runner.rs:1936: a retry reclaims "the same DB row instead of inserting
\* a duplicate".  A plan nobody stopped is carried out in its own rows.
RetryReusesRow ==
  (faults = 0 /\ ~trampled /\ NoneCancelled) =>
    \A n \in Rows : n > Planned => status[n] = "absent"

\* The rows of a plan are its steps: no two steps share one, and no step of an
\* undisturbed plan, retried or not, is given a second one.
RowsAreTheSteps == StepsHaveTheirOwnRows /\ RetryReusesRow

\* A plan that passes has passed in every step: whatever was retried, reset,
\* cancelled or answered on the way, each planned step was carried out and the
\* row it was carried out in says so.
PassIsEarned ==
  [][(/\ faults = 0 /\ ~trampled
      /\ at = "close" /\ at' = "none" /\ status'[Master] = "passed")
       => \A n \in 1..Planned :
            n \in DOMAIN got /\ got[n].row \in Rows
              /\ status[got[n].row] = "passed"]_vars

\* A master that waits for its children, and is only answered through the
\* master's own conversation, is not forgotten: some child is still paused, or
\* a reply to the last one is on its way back.
PausedMasterHasPausedChild ==
  (/\ faults = 0 /\ ~trampled /\ ~direct /\ NoneCancelled
   /\ status[Master] = "awaiting_reply") =>
    \/ PausedChildren # {}
    \/ \E c \in Replies : replyAt[c] \in {"route", "mark", "run", "parent", "finish"}

\* Whoever runs a row and however it dies, the row does not stay "running":
\* neither the master's nor a child's.
NoRowStaysRunning ==
  \A n \in Nodes : status[n] = "running" ~> status[n] # "running" \/ trampled

\* The session of an approved plan settles, unless it waits for a user.
PlanSettles ==
  session = "executing" ~>
    \/ session # "executing"
    \/ WithStatus({"awaiting_reply"}) # {}
    \/ faults > 0
    \/ trampled
=============================================================================
