---------------------------- MODULE DagExecution ----------------------------
(***************************************************************************)
(* What the work queue promises to the user of a session: every node of    *)
(* the plan runs after the nodes it requires, is started a bounded number  *)
(* of times, is given up only for a reason, and the session is closed when *)
(* nothing is left to do.  There are no queues, tasks, statements or       *)
(* crashes here: a step is what a user could see happen.                   *)
(***************************************************************************)
EXTENDS Naturals

CONSTANTS Nodes, Requires, MaxAttempts

VARIABLES
  phase,    \* phase[n]: what became of node n
  starts,   \* starts[n]: how often n was started
  verdict   \* the state of the session

dagVars == <<phase, starts, verdict>>

Phases == {"idle", "running", "paused", "passed", "failed", "dropped"}

Verdicts == {"planned", "open", "stopped", "closed"}

InPhase(p) == {n \in Nodes : phase[n] = p}

DagInit ==
  /\ phase = [n \in Nodes |-> "idle"]
  /\ starts = [n \in Nodes |-> 0]
  /\ verdict = "planned"

Approve ==
  /\ verdict = "planned"
  /\ verdict' = "open"
  /\ UNCHANGED <<phase, starts>>

Stop ==
  /\ verdict \in {"planned", "open"}
  /\ verdict' = "stopped"
  /\ UNCHANGED <<phase, starts>>

\* Only an open session starts nodes, and only nodes that have all they need.
Start(S) ==
  /\ verdict = "open"
  /\ S \subseteq InPhase("idle")
  /\ \A n \in S : /\ Requires[n] \subseteq InPhase("passed")
                  /\ starts[n] < MaxAttempts
  /\ phase' = [n \in Nodes |-> IF n \in S THEN "running" ELSE phase[n]]
  /\ starts' = [n \in Nodes |-> IF n \in S THEN starts[n] + 1 ELSE starts[n]]
  /\ UNCHANGED verdict

Finish(n) ==
  /\ phase[n] = "running"
  /\ \E r \in {"passed", "failed", "paused"} : phase' = [phase EXCEPT ![n] = r]
  /\ UNCHANGED <<starts, verdict>>

\* Runs that were lost are given back, or are failures when they were the last.
GiveBack(S) ==
  /\ S \subseteq InPhase("running")
  /\ phase' = [n \in Nodes |-> IF n \notin S THEN phase[n]
                               ELSE IF starts[n] = MaxAttempts THEN "failed" ELSE "idle"]
  /\ UNCHANGED <<starts, verdict>>

\* A node that has not started is given up because of a requirement that did
\* not pass, or because the session was stopped.
Drop(S) ==
  /\ S \subseteq InPhase("idle")
  /\ phase' = [n \in Nodes |-> IF n \in S THEN "dropped" ELSE phase[n]]
  /\ \/ verdict = "stopped"
     \/ \A n \in S : \E m \in Requires[n] : phase'[m] \in {"failed", "dropped"}
  /\ UNCHANGED <<starts, verdict>>

Close ==
  /\ verdict # "closed"
  /\ InPhase("idle") \cup InPhase("running") = {}
  /\ verdict' = "closed"
  /\ UNCHANGED <<phase, starts>>

DagNext ==
  \/ Approve
  \/ Stop
  \/ Close
  \/ \E n \in Nodes : Finish(n)
  \/ \E S \in SUBSET Nodes : Start(S) \/ GiveBack(S) \/ Drop(S)

DagSpec == DagInit /\ [][DagNext]_dagVars
=============================================================================
