------------------------- MODULE WorkQueueRefinement -------------------------
(* The work queue implements DagExecution. *)
EXTENDS WorkQueue

PhaseOf(s) ==
  CASE s \in {"pending", "waiting", "ready"} -> "idle"
    [] s = "awaiting_reply"                  -> "paused"
    [] s \in {"skipped", "cancelled"}        -> "dropped"
    [] OTHER                                 -> s

VerdictOf(s) ==
  CASE s = "awaiting_approval" -> "planned"
    [] s = "executing"         -> "open"
    [] s = "cancelled"         -> "stopped"
    [] s = "completed"         -> "closed"

Dag == INSTANCE DagExecution WITH
         phase   <- [n \in Nodes |-> PhaseOf(status[n])],
         starts  <- attempts,
         verdict <- VerdictOf(session)

\* Every step of the handlers, of the worker loop, of its tasks and of a crash
\* is a step of the abstract execution or changes nothing a user can see.
ImplementsDagExecution == Dag!DagSpec
=============================================================================
