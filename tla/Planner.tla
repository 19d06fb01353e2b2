------------------------------ MODULE Planner ------------------------------
(***************************************************************************)
(* The planner (src/backend/src/planner.rs): a language model answers a    *)
(* request with an array of nodes, each an agent and the indices of the    *)
(* nodes it depends on; the code then drops impossible dependencies,       *)
(* merges the nodes of one agent, sorts the plan into its canonical order  *)
(* and makes execution nodes of it.                                        *)
(*                                                                         *)
(* An answer is any array the parser accepts, whatever the prompt asked    *)
(* for.  Indices start at 1 here and at 0 in the code.  depends_on is a    *)
(* set: its order and repetitions are lost in "requires".                  *)
(***************************************************************************)
EXTENDS Naturals, Sequences, FiniteSets

CONSTANTS
  Agents,   \* the agent slugs an answer may hold
  Catalog,  \* those the catalog knows
  Phase,    \* Phase[a]: agent_phase(a), the place of agent a in a project
  Answers,  \* the answers considered, sequences of [agent, deps]
  MaxTries  \* the token limits tried in turn, 2 in the code

ASSUME CatalogAssumption == Catalog \subseteq Agents

ASSUME PhaseAssumption == Phase \in [Agents -> Nat]

ASSUME AnswersAssumption ==
  Answers \subseteq Seq([agent : Agents, deps : SUBSET (Nat \ {0})])

ASSUME MaxTriesAssumption == MaxTries \in Nat \ {0}

VARIABLES
  route,    \* who asks: the chat and Slack, or the onboarding from a document
  tries,    \* calls of the language model so far
  answer,   \* what the model answered (the properties refer to it)
  plan,     \* the plan as it stands
  todo,     \* the steps still to do
  outcome   \* what became of the request

plannerVars == <<route, tries, answer, plan, todo, outcome>>

\* plan_execution, and what plan_onboarding_from_sow_text does after it.
Refine == <<"sanitize", "deduplicate", "reorder">>

StepsOf(r) ==
  <<"ask">> \o Refine
    \o (IF r = "onboarding" THEN <<"filter">> \o Refine ELSE <<>>)
    \o <<"build">>

-----------------------------------------------------------------------------
(* The passes over a plan. *)

\* sanitize_depends_on: only references to earlier nodes stay.
Sanitized(p) ==
  [i \in DOMAIN p |-> [p[i] EXCEPT !.deps = {d \in p[i].deps : d < i}]]

\* remap[i]: the first node of the same agent.
FirstOf(p, i) ==
  CHOOSE j \in DOMAIN p : /\ p[j].agent = p[i].agent
                          /\ \A k \in 1 .. (j - 1) : p[k].agent # p[i].agent

\* The place of node i in the subsequence of p with the indices of S.
RankIn(S, i) == Cardinality({k \in S : k <= i})

\* Mutant of Deduplicated: the dependencies of the duplicates are forgotten.
DeduplicatedFirstOnly(p) ==
  LET kept    == {i \in DOMAIN p : FirstOf(p, i) = i}
      place(i) == RankIn(kept, FirstOf(p, i))
      node(f) == [agent |-> p[f].agent,
                  deps  |-> {place(d) : d \in p[f].deps} \ {place(f)}]
  IN [k \in 1 .. Cardinality(kept) |-> node(CHOOSE f \in kept : place(f) = k)]

\* deduplicate_nodes: the first node of an agent takes over the dependencies
\* of the others.
Deduplicated(p) ==
  LET kept    == {i \in DOMAIN p : FirstOf(p, i) = i}
      place(i) == RankIn(kept, FirstOf(p, i))
      node(f) == [agent |-> p[f].agent,
                  deps  |-> {place(d) : d \in UNION {p[i].deps :
                               i \in {j \in DOMAIN p : FirstOf(p, j) = f}}} \ {place(f)}]
  IN [k \in 1 .. Cardinality(kept) |-> node(CHOOSE f \in kept : place(f) = k)]

\* Mutant of FirstInHeap: the phase is not looked at.
FirstByIndex(p, S) == CHOOSE i \in S : p[i].agent \in Agents /\ \A j \in S : i <= j

\* The node the heap gives first: lowest phase, then lowest index.
FirstInHeap(p, S) ==
  CHOOSE i \in S : \A j \in S :
    \/ Phase[p[i].agent] < Phase[p[j].agent]
    \/ Phase[p[i].agent] = Phase[p[j].agent] /\ i <= j

\* One more node is taken from the heap; none when only cycles are left.
Extended(p, order) ==
  LET done == {order[j] : j \in DOMAIN order}
      free == {i \in DOMAIN p \ done : p[i].deps \subseteq done}
  IN IF free = {} THEN order ELSE Append(order, FirstInHeap(p, free))

\* Kahn's algorithm: the order after k rounds.
Kahn(p) ==
  LET upTo[k \in 0 .. Len(p)] == IF k = 0 THEN <<>> ELSE Extended(p, upTo[k - 1])
  IN upTo

KahnOrder(p) == Kahn(p)[Len(p)]

\* enforce_canonical_ordering: a plan with a cycle is left as it is.
Reordered(p) ==
  LET order    == KahnOrder(p)
      place(i) == CHOOSE k \in DOMAIN order : order[k] = i
  IN IF Len(order) # Len(p) THEN p
     ELSE Sanitized([k \in DOMAIN p |->
            [agent |-> p[order[k]].agent,
             deps  |-> {place(d) : d \in p[order[k]].deps}]])

\* filter_planned_nodes_to_catalog: nodes of unknown agents are dropped.
Filtered(p) ==
  LET known   == {i \in DOMAIN p : p[i].agent \in Catalog}
      place(i) == RankIn(known, i)
      node(i) == [agent |-> p[i].agent,
                  deps  |-> {d \in {place(e) : e \in p[i].deps \cap known} : d < place(i)}]
  IN [k \in 1 .. Cardinality(known) |-> node(CHOOSE i \in known : place(i) = k)]

-----------------------------------------------------------------------------
PlannerInit ==
  /\ route \in {"chat", "onboarding"}
  /\ tries = 0
  /\ answer = <<>>
  /\ plan = <<>>
  /\ todo = StepsOf(route)
  /\ outcome = "planning"

Doing(step) == outcome = "planning" /\ Head(todo) = step

\* The model answers with an array.
ReceiveAnswer ==
  /\ Doing("ask")
  /\ answer' \in Answers \ {<<>>}
  /\ plan' = answer'
  /\ tries' = tries + 1
  /\ todo' = Tail(todo)
  /\ UNCHANGED <<route, outcome>>

\* Mutant of ReceiveGarbage: one call too many.
ReceiveGarbageOnceMore ==
  /\ Doing("ask")
  /\ tries' = tries + 1
  /\ outcome' = IF tries' <= MaxTries THEN "planning" ELSE "rejected"
  /\ UNCHANGED <<route, answer, plan, todo>>

\* The text is no JSON: the next call may use more tokens, after the last one
\* the request fails.
ReceiveGarbage ==
  /\ Doing("ask")
  /\ tries' = tries + 1
  /\ outcome' = IF tries' < MaxTries THEN "planning" ELSE "rejected"
  /\ UNCHANGED <<route, answer, plan, todo>>

\* The call fails, or the answer is empty: no second try.
GiveUp ==
  /\ Doing("ask")
  /\ tries' = tries + 1
  /\ outcome' = "rejected"
  /\ UNCHANGED <<route, answer, plan, todo>>

Pass(step, p) ==
  /\ Doing(step)
  /\ plan' = p
  /\ todo' = Tail(todo)
  /\ UNCHANGED <<route, tries, answer, outcome>>

Sanitize == Pass("sanitize", Sanitized(plan))

Deduplicate == Pass("deduplicate", Deduplicated(plan))

Reorder == Pass("reorder", Reordered(plan))

FilterToCatalog ==
  \/ Filtered(plan) # <<>> /\ Pass("filter", Filtered(plan))
  \/ /\ Doing("filter")
     /\ Filtered(plan) = <<>>
     /\ outcome' = "rejected"
     /\ UNCHANGED <<route, tries, answer, plan, todo>>

\* build_execution_nodes: a single unknown agent fails the whole plan.
Build ==
  /\ Doing("build")
  /\ outcome' = IF \A i \in DOMAIN plan : plan[i].agent \in Catalog
                THEN "built" ELSE "rejected"
  /\ todo' = <<>>
  /\ UNCHANGED <<route, tries, answer, plan>>

PlannerNext ==
  \/ ReceiveAnswer
  \/ ReceiveGarbage
  \/ GiveUp
  \/ Sanitize
  \/ Deduplicate
  \/ Reorder
  \/ FilterToCatalog
  \/ Build

PlannerSpec == PlannerInit /\ [][PlannerNext]_plannerVars

-----------------------------------------------------------------------------
(* Correctness.  The passes renumber the nodes three times over, so what    *)
(* they should keep is stated in terms of agents.                           *)

\* <<x, y>>: agent x asked for the result of agent y.
Wishes(p) ==
  {w \in Agents \X Agents :
     /\ w[1] # w[2]
     /\ \E i \in DOMAIN p : \E j \in p[i].deps \cap (1 .. (i - 1)) :
          w = <<p[i].agent, p[j].agent>>}

AcyclicOn(S, R) ==
  \A T \in (SUBSET S) \ {{}} : \E x \in T : \A y \in T : <<x, y>> \notin R

\* The agents, taken as a whole, do not wait for each other.
Orderly == AcyclicOn(Agents, Wishes(answer))

PlannerTypeOK ==
  /\ route \in {"chat", "onboarding"}
  /\ tries \in 0 .. MaxTries
  /\ answer \in Answers \cup {<<>>}
  /\ \A i \in DOMAIN plan :
       plan[i] \in [agent : Agents, deps : SUBSET (Nat \ {0})]
  /\ outcome \in {"planning", "built", "rejected"}

\* deduplicate_nodes: an agent has one node in a plan that is executed.
AgentsOnce ==
  outcome = "built" =>
    \A i, j \in DOMAIN plan : plan[i].agent = plan[j].agent => i = j

\* What the answer made an agent wait for, the built plan makes it wait for:
\* no merge, sort or filter loses a dependency between two agents that stay.
DependenciesKept ==
  (outcome = "built" /\ Orderly) =>
    \A w \in Wishes(answer) \cap (Catalog \X Catalog) :
      \E i, j \in DOMAIN plan : /\ <<plan[i].agent, plan[j].agent>> = w
                                /\ j \in plan[i].deps

\* No renumbering attaches a node to another node than the answer did.
NothingInvented ==
  outcome = "built" =>
    \A i \in DOMAIN plan : \A j \in plan[i].deps :
      j \in DOMAIN plan /\ <<plan[i].agent, plan[j].agent>> \in Wishes(answer)

\* Through every merge, sort, filter and renumbering a built plan says what the
\* answer said, agent by agent: each once, its dependencies and no others.
PlanMatchesAnswer == AgentsOnce /\ DependenciesKept /\ NothingInvented

\* A plan is built so that a node only depends on earlier nodes, which is what
\* lets the work queue reach all of them; an onboarding plan is so whatever the
\* answer, because the filter drops references to later nodes once more.
DependenciesPointBack ==
  (outcome = "built" /\ (Orderly \/ route = "onboarding")) =>
    \A i \in DOMAIN plan : plan[i].deps \subseteq 1 .. (i - 1)

\* enforce_canonical_ordering: a node stands behind one of a later phase only
\* because something at or after that place has to come first.
CanonicalOrder ==
  (outcome = "built" /\ Orderly) =>
    \A i, k \in DOMAIN plan :
      (i < k /\ Phase[plan[k].agent] < Phase[plan[i].agent]) =>
        \E d \in plan[k].deps : d >= i

\* The order of a built plan serves the work queue, and otherwise the phases.
PlanIsInOrder == DependenciesPointBack /\ CanonicalOrder
=============================================================================
