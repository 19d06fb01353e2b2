---------------------------- MODULE MCKnowledge ----------------------------
(* A small instance of Knowledge for TLC. *)
EXTENDS Knowledge, TLC

CONSTANTS w1, w2
=============================================================================
