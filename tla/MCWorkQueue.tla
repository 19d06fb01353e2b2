---------------------------- MODULE MCWorkQueue ----------------------------
(* Small instances of WorkQueue for TLC: a diamond, whose join has two      *)
(* requirements that can finish together, and a chain.                      *)
EXTENDS WorkQueueRefinement, TLC

CONSTANTS a, b, c, d

Diamond == (a :> {}) @@ (b :> {a}) @@ (c :> {a}) @@ (d :> {b, c})

Chain == (a :> {}) @@ (b :> {a}) @@ (c :> {b})

Join == (a :> {}) @@ (b :> {}) @@ (c :> {a, b})
=============================================================================
