---------------------------- MODULE MCPlanner ----------------------------
(* Small instances of Planner for TLC: three agents of different phases and *)
(* one the catalog does not know.                                           *)
EXTENDS Planner, TLC

CONSTANTS notion, n8n, dashboard, ghost

PhaseOfAgent == (notion :> 0) @@ (n8n :> 1) @@ (ghost :> 2) @@ (dashboard :> 3)

Entries(n) == [agent : Agents, deps : SUBSET (1 .. n)]

(* Any answer of at most three nodes, references to the node itself and to  *)
(* later ones included.                                                     *)
ShortAnswers == UNION {[1 .. n -> Entries(n)] : n \in 1 .. 3}

(* Answers of four nodes that refer to earlier nodes only: long enough for   *)
(* four phases in any order, and for two pairs of duplicates.                *)
LongAnswers ==
  {[i \in 1 .. 4 |-> [agent |-> names[i], deps |-> refs[i]]] :
     names \in [1 .. 4 -> Agents],
     refs \in {<<{}, d2, d3, d4>> : d2 \in SUBSET (1 .. 1), d3 \in SUBSET (1 .. 2),
                                   d4 \in SUBSET (1 .. 3)}}

AllAnswers == ShortAnswers \cup LongAnswers
=============================================================================
