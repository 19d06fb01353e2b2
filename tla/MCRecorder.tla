----------------------------- MODULE MCRecorder -----------------------------
(* A small instance of Recorder for TLC: two presses of Stop can overlap.   *)
EXTENDS Recorder, TLC

TwoStops == {1, 2}
=============================================================================
