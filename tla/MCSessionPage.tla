--------------------------- MODULE MCSessionPage ---------------------------
(* Small instances of SessionPage for TLC. *)
EXTENDS SessionPage, TLC

TwoSlots == {1, 2}

OneSlot == {1}
=============================================================================
