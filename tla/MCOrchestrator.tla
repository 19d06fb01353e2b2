--------------------------- MODULE MCOrchestrator ---------------------------
(* Small instances of Orchestrator for TLC. *)
EXTENDS Orchestrator

CONSTANTS r1, r2

(* Nothing is explored behind a trampled row, as in MCNodeReply.              *)
UpToTrampling == ~trampled'

(* The session is stopped once, while it is executing: every other stop finds *)
(* fewer rows to cancel, and each could cost the plan one more row.           *)
FewCalls == stopping' => stopping \/ session = "executing"

(* A child that fails under its master has saved a conversation: whether it    *)
(* has makes a difference to replies behind a trampled row only.               *)
FailuresSave ==
  \A n \in Nodes :
    status'[n] = "failed" => conv'[n] \/ attempts[n] >= MaxAttempts \/ at' = "none"

(* At most two of: faults, replies and the stop; no fault with a stop.         *)
Sent == {c \in Replies : replyAt[c] # "unsent"}

Stopped == IF session = "cancelled" \/ WithStatus({"cancelled"}) # {} THEN 1 ELSE 0

TwoDisturbances ==
  /\ faults' + Cardinality(Sent') + Stopped' <= 2
  /\ faults' + Stopped' <= 1

(* The replies are interchangeable: r1 is the first.                           *)
InTurn == replyAt'[r2] # "unsent" => replyAt'[r1] # "unsent"
=============================================================================
