---------------------------- MODULE MCNodeReply ----------------------------
(* Small instances of NodeReply for TLC. *)
EXTENDS NodeReply, TLC

CONSTANTS a, b, c

Join == (a :> {}) @@ (b :> {}) @@ (c :> {a, b})

(* A plan of the planner with a breakpoint on the last node: WorkQueue's own  *)
(* runs have all breakpoints and sessions from Slack.                         *)
Planned ==
  \A n \in Nodes : /\ breakpoint[n] = (Requires[n] # {})
                   /\ Requires[n] # {} => status[n] = "waiting"

(* A plan is approved once and stopped while it is executing, and a breakpoint *)
(* is released when the node has come to it: repeated and misplaced calls are  *)
(* explored by WorkQueue's own runs.  An ACTION_CONSTRAINT of the run: it cuts *)
(* steps no fairness condition asks for.                                      *)
FewCalls ==
  /\ approving' => approving \/ session = "awaiting_approval"
  /\ stopping' => stopping \/ session = "executing"
  /\ \A n \in Nodes : breakpoint'[n] # breakpoint[n] => status[n] = "ready"

(* Every property is a promise up to the first trampled row: no behaviour     *)
(* beyond one is explored.  (A behaviour that could only go on with such a     *)
(* step satisfies every one of them by taking it.)                            *)
UpToTrampling == ~trampled'

MCInit == ReplyInit /\ Planned

MCSpec == MCInit /\ [][ReplyNext]_allVars /\ ReplyFairness
=============================================================================
