-------------------------- MODULE MCInvestorSwipe --------------------------
(* Small instances of InvestorSwipe for TLC. *)
EXTENDS InvestorSwipe, TLC

CONSTANTS b1, b2, p, q, t1, t2, t3
=============================================================================
