------------------------- MODULE OrchestratorProofs -------------------------
(***************************************************************************)
(* For every plan, every catalog, every limit and any number of rows,      *)
(* replies and faults: the types of an orchestrated session, that the rows *)
(* of a plan are its steps, that a plan that passes has passed in every    *)
(* step, and that a master that waits for its children is not forgotten.   *)
(***************************************************************************)
EXTENDS Orchestrator, FiniteSetTheorems, TLAPS

-----------------------------------------------------------------------------
(* The inductive invariant, part by part.                                  *)

\* run_child has taken a row for the step, or found none.
Taken == at \in {"run", "check", "reset"}

\* Whatever happens: only rows that are absent or a preview are given to a
\* step, the rows of the steps done are neither, and only the row of the step
\* at hand becomes a preview again.
OwnRows ==
  /\ at \in {"claim", "reset"} => todo # {}
  /\ at = "run" => row \in Rows
  /\ \A n \in DOMAIN got : got[n].row # NoRow => status[got[n].row] \notin {"absent", "preview"}
  /\ Taken /\ row # NoRow =>
       /\ status[row] \notin {"absent", "preview"}
       /\ \A n \in DOMAIN got : got[n].row # row
  /\ \A m, n \in DOMAIN got : m # n /\ got[m].row # NoRow => got[m].row # got[n].row

\* A reply that turns to the master brings the answer of a child that ended.
AnswersEnded ==
  \A c \in Replies : replyAt[c] \in {"parent", "finish"} => answer[c] \in {"passed", "failed"}

Undisturbed == faults = 0 /\ ~trampled

\* Without a fault and a trampled row: the plan runs the master and the row of
\* its step, the worker loop runs nothing else ...
PlanOwnsRow ==
  /\ (at # "none") <=> (task[Master] = "run")
  /\ at # "none" => status[Master] = "running"
  /\ \A n \in Rows : task[n] = "none" /\ status[n] # "ready"
  /\ at = "run" => status[row] = "running"
  /\ at \in {"check", "reset"} /\ result \in {"passed", "failed"} =>
       row \in Rows /\ status[row] = result
  /\ at = "reset" => result \in {"passed", "failed"}

\* ... a reply runs a row that nobody else runs ...
ReplyOwnsRow ==
  \A c \in Replies : replyAt[c] = "run" =>
    /\ status[target[c]] = "running"
    /\ target[c] = Master => at = "none"
    /\ at = "run" => target[c] # row
    /\ \A e \in Replies : replyAt[e] = "run" /\ target[e] = target[c] => e = c

\* ... and there is no other row that runs.
RunningIsOwned ==
  \A n \in Nodes : status[n] = "running" =>
    \/ ReplyOn(n, {"run"})
    \/ n = Master /\ at # "none"
    \/ at = "run" /\ n = row

RowsOwned == PlanOwnsRow /\ ReplyOwnsRow /\ RunningIsOwned

\* Without a fault and a trampled row: the plan is loaded once, from all of its
\* previews or from none, and what a step passed in stays passed.
StepsCounted ==
  /\ at \in {"none", "load", "close", "free"} => todo = {}
  /\ at \in {"none", "load"} => DOMAIN got = {}
  /\ todo # {} \/ at = "close" => DOMAIN got \cup todo = 1..Planned
  /\ status[Master] = "ready" \/ at = "load" =>
       {n \in Rows : status[n] = "preview"} \in {{}, 1..Planned}
  /\ \A n \in DOMAIN got : got[n].is = "passed" =>
       got[n].row \in Rows /\ status[got[n].row] = "passed"

\* The previews that can be claimed are the rows S.
PreviewsAre(S) ==
  \A n \in Rows : slug[n] \in Catalog => (status[n] = "preview" <=> n \in S)

\* If no row was cancelled either: a step is carried out in its own row.
StepsInTheirRows ==
  /\ \A n \in Rows : n > Planned => status[n] = "absent"
  /\ at # "free"
  /\ status[Master] = "ready" \/ at = "load" => \A n \in 1..Planned : status[n] = "preview"
  /\ at = "claim" => PreviewsAre(todo)
  /\ Taken => todo # {} /\ PreviewsAre(todo \ {Step})
  /\ at \in {"run", "reset"} => row = Step
  /\ at = "check" => row = Step \/ result = "unknown"

\* If no reply was sent to a child itself: children are answered only after
\* the plan has ended, and until then a paused step is paused.
PausesCounted ==
  /\ \A c \in Replies : sentTo[c] = Master
  /\ \A c \in Replies : replyAt[c] = "route" \/ target[c] \in Rows =>
       at = "none" /\ status[Master] # "ready"
  /\ \A n \in DOMAIN got : got[n].is = "awaiting_reply" =>
       got[n].row \in Rows /\ status[got[n].row] = "awaiting_reply"
  /\ at = "check" /\ result = "awaiting_reply" =>
       row \in Rows /\ status[row] = "awaiting_reply"

\* The plan has ended and the master waits, or is run by a reply.
MasterWaits ==
  \/ status[Master] = "awaiting_reply"
  \/ status[Master] = "running" /\ at = "none"

\* Then a child is paused, or the reply to one has not come back yet.
ChildrenWait ==
  MasterWaits =>
    \/ PausedChildren # {}
    \/ \E c \in Replies : replyAt[c] \in {"run", "parent", "finish"} /\ target[c] \in Rows

OrchestratorInv ==
  /\ TypeOK
  /\ OwnRows
  /\ AnswersEnded
  /\ Undisturbed => RowsOwned /\ StepsCounted
  /\ Undisturbed /\ NoneCancelled => StepsInTheirRows
  /\ Undisturbed /\ ~direct => PausesCounted
  /\ Undisturbed /\ ~direct /\ NoneCancelled => ChildrenWait

-----------------------------------------------------------------------------
(* Rows, and what the operators of the module do to them.                  *)

LEMMA NodeFacts ==
  /\ Master \in Nodes /\ Rows \subseteq Nodes /\ Master \notin Rows /\ Nodes = {Master} \cup Rows
  /\ NoRow \notin Nodes
  /\ 1..Planned \subseteq Rows /\ 1..Planned # {}
  /\ \A n \in Rows : n \in 1..Planned <=> ~(n > Planned)
<1>1. MaxRow \in Nat /\ Planned \in Nat \ {0} /\ Planned <= MaxRow
  BY PlanAssumption
<1>2. NoRow \notin Nodes /\ Master \notin Rows
  BY <1>1 DEF NoRow, Nodes, Rows, Master
<1>3. 1..Planned \subseteq Rows /\ 1 \in 1..Planned
  BY <1>1 DEF Rows
<1>4. \A n \in Rows : n \in 1..Planned <=> ~(n > Planned)
  BY <1>1 DEF Rows
<1>5. QED
  BY <1>2, <1>3, <1>4 DEF Nodes

\* In a set of rows there is a first one.
LEMMA FirstRow ==
  ASSUME NEW T \in SUBSET Rows, T # {}
  PROVE  \E m \in T : \A k \in T : m <= k
<1> DEFINE N == MaxRow
           F == {1 .. t : t \in T}
<1>0. N \in Nat /\ T \subseteq 1 .. N
  BY PlanAssumption DEF Rows
<1> HIDE DEF N
<1>1. IsFiniteSet(1 .. N)
  BY <1>0, FS_Interval
<1>2. IsWellFoundedOn(StrictSubsetOrdering(1 .. N), FiniteSubsetsOf(1 .. N))
  BY <1>1, FS_StrictSubsetOrderingWellFounded
<1>3. F \subseteq FiniteSubsetsOf(1 .. N) /\ F # {}
  <2>1. \A t \in T : (1 .. t) \in SUBSET (1 .. N)
    BY <1>0
  <2>2. FiniteSubsetsOf(1 .. N) = SUBSET (1 .. N)
    BY <1>1, FS_FiniteSubsetsOfFinite
  <2>3. \A x \in F : x \in SUBSET (1 .. N)
    BY <2>1
  <2>4. F # {}
    OBVIOUS
  <2>5. QED
    BY <2>2, <2>3, <2>4, Zenon
<1>4. PICK x \in F : \A y \in F : ~ (<<y, x>> \in StrictSubsetOrdering(1 .. N))
  <2> HIDE DEF F
  <2> QED BY <1>2, <1>3, WFMin
<1>5. PICK m \in T : x = 1 .. m
  BY <1>4
<1>6. ASSUME NEW k \in T PROVE m <= k
  <2>1. ~ (<<1 .. k, 1 .. m>> \in StrictSubsetOrdering(1 .. N))
    BY <1>4, <1>5
  <2>2. (1 .. k) \in SUBSET (1 .. N) /\ (1 .. m) \in SUBSET (1 .. N)
    BY <1>0
  <2>3. ~ (1 .. k \subseteq 1 .. m /\ 1 .. k # 1 .. m)
    BY <2>1, <2>2 DEF StrictSubsetOrdering
  <2>4. m \in Nat /\ k \in Nat /\ m >= 1 /\ k >= 1
    BY <1>0
  <2>5. k < m => m \in 1 .. m /\ m \notin 1 .. k
    BY <2>4
  <2>6. QED
    BY <2>3, <2>4, <2>5
<1>7. QED
  BY <1>6

LEMMA LeastRow ==
  ASSUME NEW S \in SUBSET Rows, S # {}
  PROVE  Least(S) \in S /\ \A k \in S : Least(S) <= k
BY FirstRow DEF Least

\* The same from the other end, by looking at what is behind every row.
LEMMA GreatestRow ==
  ASSUME NEW S \in SUBSET Rows, S # {}
  PROVE  Greatest(S) \in S
<1> DEFINE T == {m \in Rows : \A k \in S : k <= m}
<1>0. MaxRow \in Nat /\ Rows = 1..MaxRow
  BY PlanAssumption DEF Rows
<1>1. PICK u \in S : TRUE
  OBVIOUS
<1>2. T \in SUBSET Rows /\ MaxRow \in T
  BY <1>0, <1>1
<1>3. PICK m \in T : \A k \in T : m <= k
  <2> HIDE DEF T
  <2> QED BY <1>2, FirstRow
<1>4. m \in S
  <2> SUFFICES ASSUME m \notin S PROVE FALSE
    OBVIOUS
  <2>1. \A k \in S : k \in 1..MaxRow /\ k <= m /\ k # m /\ m \in 1..MaxRow
    BY <1>0, <1>3
  <2>2. m - 1 \in Rows /\ \A k \in S : k <= m - 1
    BY <1>0, <1>1, <2>1
  <2>3. m - 1 \in T /\ ~(m <= m - 1)
    BY <1>0, <1>3, <2>2
  <2>4. QED
    BY <1>3, <2>3
<1>5. QED
  BY <1>3, <1>4 DEF Greatest

\* A row ends, whichever it is.
LEMMA RowEndsEffect ==
  ASSUME TypeOK, NEW n \in Nodes, NEW r \in Ends, RowEnds(n, r)
  PROVE  /\ status' \in [Nodes -> RowStatus] /\ conv' \in [Nodes -> BOOLEAN]
         /\ status'[n] = r /\ \A m \in Nodes \ {n} : status'[m] = status[m]
<1>1. PICK saved \in BOOLEAN : conv' = [conv EXCEPT ![n] = conv[n] \/ saved]
  BY DEF RowEnds
<1>2. conv' \in [Nodes -> BOOLEAN]
  BY <1>1 DEF TypeOK
<1>3. status' = [status EXCEPT ![n] = r] /\ r \in RowStatus
  BY DEF RowEnds, RowStatus
<1>4. QED
  BY <1>2, <1>3 DEF TypeOK

\* run_child has started a child in row r.
StartedIn(r) ==
  /\ r \in Rows /\ status[r] \in {"absent", "preview"}
  /\ status'[r] = "running" /\ \A m \in Nodes \ {r} : status'[m] = status[m]
  /\ row' = r /\ at' = "run"
  /\ status' \in [Nodes -> RowStatus] /\ slug' \in [Rows -> Agents]
  /\ started' \in [Nodes -> {"null", "recent", "old"}]
  /\ UNCHANGED <<attempts, conv>>

LEMMA InsertRowEffect ==
  ASSUME TypeOK, NEW s \in Agents, InsertRow(s)
  PROVE  \E r \in Rows : StartedIn(r)
<1>1. PICK r : r = Least(Unused)
  OBVIOUS
<1>2. r \in Rows /\ status[r] = "absent"
  BY <1>1, LeastRow DEF InsertRow, Unused
<1>3. status' = [status EXCEPT ![r] = "running"] /\ slug' = [slug EXCEPT ![r] = s]
  BY <1>1 DEF InsertRow
<1>4. UNCHANGED <<started, attempts, conv>> /\ row' = r /\ at' = "run"
  BY <1>1 DEF InsertRow
<1>5. QED
  BY <1>2, <1>3, <1>4, NodeFacts DEF StartedIn, TypeOK, RowStatus

LEMMA TakePreviewEffect ==
  ASSUME TypeOK, NEW r \in Rows, NEW s, status[r] = "preview", TakePreview(r, s)
  PROVE  StartedIn(r) /\ slug' = slug
BY NodeFacts DEF TakePreview, StartedIn, TypeOK, RowStatus

LEMMA ChildStartsEffect ==
  ASSUME TypeOK, NEW s \in Agents, ChildStarts(s)
  PROVE  /\ \E r \in Rows : StartedIn(r)
         /\ Previews(s) # {} => StartedIn(Least(Previews(s))) /\ slug' = slug
<1>1. CASE Previews(s) = {}
  BY <1>1, InsertRowEffect DEF ChildStarts
<1>2. CASE Previews(s) # {}
  <2>1. PICK r : r = Least(Previews(s))
    OBVIOUS
  <2>2. r \in Rows /\ status[r] = "preview"
    BY <1>2, <2>1, LeastRow DEF Previews
  <2>3. TakePreview(r, s)
    BY <1>2, <2>1 DEF ChildStarts
  <2>4. StartedIn(r) /\ slug' = slug
    BY <2>2, <2>3, TakePreviewEffect
  <2>5. QED
    BY <2>1, <2>2, <2>4
<1>3. QED
  BY <1>1, <1>2

LEMMA GoesType ==
  ASSUME TypeOK, NEW c \in Replies, NEW w \in ReplyState, Goes(c, w)
  PROVE  /\ target' \in [Replies -> Nodes] /\ sentTo' \in [Replies -> Nodes]
         /\ replyAt' \in [Replies -> ReplyState] /\ answer' \in [Replies -> Ends]
BY NodeFacts DEF Goes, TypeOK, Ends

-----------------------------------------------------------------------------
(* Type correctness.  The variables in three groups.                        *)

QueueTypes ==
  /\ session \in {"executing", "cancelled", "completed"} /\ stopping \in BOOLEAN
  /\ status \in [Nodes -> RowStatus]
  /\ slug \in [Rows -> Agents]
  /\ started \in [Nodes -> {"null", "recent", "old"}]
  /\ attempts \in [Nodes -> 0..MaxAttempts]
  /\ conv \in [Nodes -> BOOLEAN]
  /\ task \in [Nodes -> {"none", "run", "count", "complete"}]
  /\ faults \in 0..MaxFaults /\ direct \in BOOLEAN /\ trampled \in BOOLEAN

PlanTypes ==
  /\ at \in PlanState /\ todo \subseteq Rows /\ retried \in BOOLEAN
  /\ row \in Rows \cup {NoRow} /\ result \in Ends \cup {"unknown"}
  /\ DOMAIN got \subseteq Rows
  /\ \A n \in DOMAIN got : got[n] \in [row : Rows \cup {NoRow}, is : StepResult]

ReplyTypes ==
  /\ target \in [Replies -> Nodes] /\ sentTo \in [Replies -> Nodes]
  /\ replyAt \in [Replies -> ReplyState] /\ answer \in [Replies -> Ends]

Types == QueueTypes /\ PlanTypes /\ ReplyTypes

LEMMA TypesSplit == (TypeOK <=> Types) /\ (TypeOK' <=> Types')
BY DEF Types, TypeOK, QueueTypes, PlanTypes, ReplyTypes

LEMMA PlanTypesStay == PlanTypes /\ UNCHANGED planVars => PlanTypes'
BY DEF PlanTypes, planVars

LEMMA ReplyTypesStay == ReplyTypes /\ UNCHANGED replyVars => ReplyTypes'
BY DEF ReplyTypes, replyVars

\* A step of the plan needs a step to do, and a run a row.
LEMMA TypesKept ==
  ASSUME TypeOK, [Next]_vars,
         at \in {"claim", "reset"} => todo # {},
         at = "run" => row \in Rows
  PROVE  TypeOK'
<1> SUFFICES Types'
  BY TypesSplit
<1>0. TypeOK /\ QueueTypes /\ PlanTypes /\ ReplyTypes
  BY TypesSplit DEF Types
<1>s. ASSUME todo # {} PROVE Step \in todo /\ Step \in Rows
  BY <1>0, <1>s, LeastRow DEF PlanTypes, Step
<1>e. QueueTypes' /\ PlanTypes' /\ ReplyTypes' => Types'
  BY DEF Types
<1> USE NodeFacts, OrchestratorLimits, CatalogAssumption DEF rowVars, history
<1>1. CASE Sweep
  <2>0. trampled' \in BOOLEAN
    BY <1>0, <1>1, Zenon DEF Sweep, QueueTypes
  <2>s. status' \in [Nodes -> RowStatus] /\ started' \in [Nodes -> {"null", "recent", "old"}]
    BY <1>0, <1>1 DEF Sweep, QueueTypes, RowStatus, Ends
  <2>1. QueueTypes'
    BY <1>0, <1>1, <2>0, <2>s DEF Sweep, QueueTypes
  <2>2. PlanTypes'
    BY <1>0, <1>1, PlanTypesStay DEF Sweep
  <2>3. ReplyTypes'
    BY <1>0, <1>1, ReplyTypesStay DEF Sweep
  <2>4. QED
    BY <1>e, <2>1, <2>2, <2>3
<1>2. CASE Claim
  <2>a. attempts' \in [Nodes -> 0..MaxAttempts]
    BY <1>0, <1>2 DEF Claim, QueueTypes, WithStatus
  <2>b. status' \in [Nodes -> RowStatus] /\ started' \in [Nodes -> {"null", "recent", "old"}]
        /\ task' \in [Nodes -> {"none", "run", "count", "complete"}]
    BY <1>0, <1>2 DEF Claim, QueueTypes, RowStatus
  <2>1. QueueTypes'
    BY <1>0, <1>2, <2>a, <2>b DEF Claim, QueueTypes
  <2>2. PlanTypes'
    BY <1>0, <1>2 DEF Claim, PlanTypes, PlanState
  <2>3. ReplyTypes'
    BY <1>0, <1>2, ReplyTypesStay DEF Claim
  <2>4. QED
    BY <1>e, <2>1, <2>2, <2>3
<1>3. CASE LoadPlan
  <2>1. QueueTypes'
    BY <1>0, <1>3 DEF LoadPlan, Unplanned, QueueTypes
  <2>2. PlanTypes'
    BY <1>0, <1>3 DEF LoadPlan, PlanTypes, PlanState
  <2>3. ReplyTypes'
    BY <1>0, <1>3, ReplyTypesStay DEF LoadPlan, Unplanned
  <2>4. QED
    BY <1>e, <2>1, <2>2, <2>3
<1>4. CASE ClaimChild
  <2>1. QueueTypes' /\ PlanTypes'
    <3>1. CASE slug[Step] \in Catalog /\ ChildStarts(slug[Step]) /\ UNCHANGED <<result, faults>>
      <4>1. PICK r \in Rows : StartedIn(r)
        BY <1>0, <3>1, ChildStartsEffect
      <4>2. QueueTypes'
        BY <1>0, <1>4, <3>1, <4>1 DEF ClaimChild, Unplanned, StartedIn, QueueTypes
      <4>3. PlanTypes'
        BY <1>0, <1>4, <3>1, <4>1 DEF ClaimChild, StartedIn, PlanTypes, PlanState
      <4>4. QED
        BY <4>2, <4>3
    <3>2. CASE row' = NoRow /\ result' = "unknown" /\ at' = "check" /\ UNCHANGED <<rowVars, faults>>
      <4>1. QueueTypes'
        BY <1>0, <1>4, <3>2 DEF ClaimChild, Unplanned, QueueTypes
      <4>2. PlanTypes'
        BY <1>0, <1>4, <3>2 DEF ClaimChild, PlanTypes, PlanState
      <4>3. QED
        BY <4>1, <4>2
    <3>3. QED
      BY <1>4, <3>1, <3>2, Zenon DEF ClaimChild
  <2>3. ReplyTypes'
    BY <1>0, <1>4, ReplyTypesStay DEF ClaimChild, Unplanned
  <2>4. QED
    BY <1>e, <2>1, <2>3
<1>5. ASSUME NEW s \in Agents, SpawnAgent(s) PROVE Types'
  <2>0. PICK r \in Rows : StartedIn(r)
    BY <1>0, <1>5, ChildStartsEffect DEF SpawnAgent
  <2>1. QueueTypes'
    BY <1>0, <1>5, <2>0 DEF SpawnAgent, Unplanned, StartedIn, QueueTypes
  <2>2. PlanTypes'
    BY <1>0, <1>5, <2>0 DEF SpawnAgent, StartedIn, PlanTypes, PlanState
  <2>3. ReplyTypes'
    BY <1>0, <1>5, ReplyTypesStay DEF SpawnAgent, Unplanned
  <2>4. QED
    BY <1>e, <2>1, <2>2, <2>3
<1>6. ASSUME NEW r \in Ends, FinishChild(r) PROVE Types'
  <2>0. status' \in [Nodes -> RowStatus] /\ conv' \in [Nodes -> BOOLEAN]
    BY <1>0, <1>6, RowEndsEffect DEF FinishChild
  <2>1. QueueTypes'
    BY <1>0, <1>6, <2>0 DEF FinishChild, Unplanned, QueueTypes
  <2>2. PlanTypes'
    BY <1>0, <1>6 DEF FinishChild, PlanTypes, PlanState
  <2>3. ReplyTypes'
    BY <1>0, <1>6, ReplyTypesStay DEF FinishChild, Unplanned
  <2>4. QED
    BY <1>e, <2>1, <2>2, <2>3
<1>7. ASSUME NEW v \in StepResult, CheckChild(v) PROVE Types'
  <2>1. QueueTypes'
    BY <1>0, <1>7 DEF CheckChild, Unplanned, QueueTypes
  <2>2. PlanTypes'
    <3>1. CASE Record(v) /\ todo # {}
      <4>1. todo' \subseteq Rows /\ at' \in PlanState /\ retried' \in BOOLEAN /\ UNCHANGED <<row, result>>
        BY <1>0, <3>1 DEF Record, PlanTypes, PlanState
      <4>2. DOMAIN got' = DOMAIN got \cup {Step} /\ \A n \in DOMAIN got' :
              got'[n] = IF n = Step THEN [row |-> row, is |-> v] ELSE got[n]
        BY <3>1 DEF Record
      <4>3. DOMAIN got' \subseteq Rows
        BY <1>0, <1>s, <3>1, <4>2 DEF PlanTypes
      <4>4. \A n \in DOMAIN got' : got'[n] \in [row : Rows \cup {NoRow}, is : StepResult]
        BY <1>0, <4>2 DEF PlanTypes
      <4>5. QED
        BY <1>0, <4>1, <4>3, <4>4 DEF PlanTypes
    <3>2. CASE at' \in {"free", "reset"} /\ UNCHANGED <<todo, retried, row, result, got>>
      BY <1>0, <3>2 DEF PlanTypes, PlanState
    <3>3. QED
      BY <1>7, <3>1, <3>2 DEF CheckChild
  <2>3. ReplyTypes'
    BY <1>0, <1>7, ReplyTypesStay DEF CheckChild, Unplanned
  <2>4. QED
    BY <1>e, <2>1, <2>2, <2>3
<1>8. CASE ResetChild
  <2>1. QueueTypes'
    BY <1>0, <1>8 DEF ResetChild, Unplanned, QueueTypes, RowStatus
  <2>2. PlanTypes'
    BY <1>0, <1>8 DEF ResetChild, PlanTypes, PlanState
  <2>3. ReplyTypes'
    BY <1>0, <1>8, ReplyTypesStay DEF ResetChild, Unplanned
  <2>4. QED
    BY <1>e, <2>1, <2>2, <2>3
<1>9. ASSUME NEW r \in Ends, FinishMaster(r) PROVE Types'
  <2>0. status' \in [Nodes -> RowStatus] /\ conv' \in [Nodes -> BOOLEAN]
    BY <1>0, <1>9, RowEndsEffect DEF FinishMaster
  <2>1. QueueTypes'
    BY <1>0, <1>9, <2>0 DEF FinishMaster, QueueTypes
  <2>2. PlanTypes'
    BY <1>0, <1>9 DEF FinishMaster, PlanTypes, PlanState
  <2>3. ReplyTypes'
    BY <1>0, <1>9, ReplyTypesStay DEF FinishMaster
  <2>4. QED
    BY <1>e, <2>1, <2>2, <2>3
<1>10. CASE StopSession
  <2>1. QueueTypes'
    BY <1>0, <1>10 DEF StopSession, QueueTypes
  <2>2. PlanTypes'
    BY <1>0, <1>10, PlanTypesStay DEF StopSession
  <2>3. ReplyTypes'
    BY <1>0, <1>10, ReplyTypesStay DEF StopSession
  <2>4. QED
    BY <1>e, <2>1, <2>2, <2>3
<1>11. CASE StopNodes
  <2>1. QueueTypes'
    BY <1>0, <1>11 DEF StopNodes, QueueTypes, RowStatus
  <2>2. PlanTypes'
    BY <1>0, <1>11, PlanTypesStay DEF StopNodes
  <2>3. ReplyTypes'
    BY <1>0, <1>11, ReplyTypesStay DEF StopNodes
  <2>4. QED
    BY <1>e, <2>1, <2>2, <2>3
<1>12. CASE PlanStatementFails
  <2>f. faults' \in 0..MaxFaults
    BY <1>0, <1>12 DEF PlanStatementFails, Fault, QueueTypes
  <2>i. ASSUME NEW s \in Wanted, InsertRow(s), UNCHANGED <<retried, result, todo, got>>
        PROVE  /\ status' \in [Nodes -> RowStatus] /\ slug' \in [Rows -> Agents]
               /\ started' \in [Nodes -> {"null", "recent", "old"}]
               /\ UNCHANGED <<attempts, conv>> /\ PlanTypes'
    <3>1. s \in Agents
      BY DEF Wanted
    <3>2. PICK r \in Rows : StartedIn(r)
      BY <1>0, <2>i, <3>1, InsertRowEffect
    <3>3. QED
      BY <1>0, <2>i, <3>2 DEF StartedIn, PlanTypes, PlanState
  <2>1. QueueTypes'
    BY <1>0, <1>12, <2>f, <2>i DEF PlanStatementFails, Unplanned, QueueTypes
  <2>2. PlanTypes'
    BY <1>0, <1>12, <2>i DEF PlanStatementFails, PlanTypes, PlanState
  <2>3. ReplyTypes'
    BY <1>0, <1>12, ReplyTypesStay DEF PlanStatementFails, Unplanned
  <2>4. QED
    BY <1>e, <2>1, <2>2, <2>3
<1>13. CASE Crash
  <2>f. faults' \in 0..MaxFaults /\ task' \in [Nodes -> {"none", "run", "count", "complete"}]
    BY <1>0, <1>13 DEF Crash, Fault, QueueTypes
  <2>s. stopping' \in BOOLEAN
    BY <1>13, Zenon DEF Crash
  <2>u. UNCHANGED <<session, status, slug, started, attempts, conv, direct, trampled>>
    BY <1>13 DEF Crash
  <2>1. QueueTypes'
    BY <1>0, <2>f, <2>s, <2>u DEF QueueTypes
  <2>2. PlanTypes'
    BY <1>0, <1>13 DEF Crash, PlanTypes, PlanState
  <2>3. ReplyTypes'
    BY <1>0, <1>13 DEF Crash, ReplyTypes, ReplyState, Ends
  <2>4. QED
    BY <1>e, <2>1, <2>2, <2>3
<1>14. ASSUME NEW n \in Nodes, NEW r \in Ends, RunSweptChild(n, r) PROVE Types'
  <2>0. status' \in [Nodes -> RowStatus] /\ conv' \in [Nodes -> BOOLEAN]
    BY <1>0, <1>14, RowEndsEffect DEF RunSweptChild, QueueTypes, RowStatus
  <2>1. QueueTypes'
    BY <1>0, <1>14, <2>0 DEF RunSweptChild, QueueTypes
  <2>2. PlanTypes'
    BY <1>0, <1>14, PlanTypesStay DEF RunSweptChild
  <2>3. ReplyTypes'
    BY <1>0, <1>14, ReplyTypesStay DEF RunSweptChild
  <2>4. QED
    BY <1>e, <2>1, <2>2, <2>3
<1>15. ASSUME NEW n \in Nodes, CountSettled(n) PROVE Types'
  <2>1. QueueTypes'
    BY <1>0, <1>15 DEF CountSettled, QueueTypes
  <2>2. PlanTypes'
    BY <1>0, <1>15, PlanTypesStay DEF CountSettled
  <2>3. ReplyTypes'
    BY <1>0, <1>15, ReplyTypesStay DEF CountSettled
  <2>4. QED
    BY <1>e, <2>1, <2>2, <2>3
<1>16. ASSUME NEW n \in Nodes, Complete(n) PROVE Types'
  <2>1. QueueTypes'
    BY <1>0, <1>16 DEF Complete, QueueTypes
  <2>2. PlanTypes'
    BY <1>0, <1>16, PlanTypesStay DEF Complete
  <2>3. ReplyTypes'
    BY <1>0, <1>16, ReplyTypesStay DEF Complete
  <2>4. QED
    BY <1>e, <2>1, <2>2, <2>3
<1>17. ASSUME NEW n \in Nodes, GrowOld(n) PROVE Types'
  <2>1. QueueTypes'
    BY <1>0, <1>17 DEF GrowOld, QueueTypes
  <2>2. PlanTypes'
    BY <1>0, <1>17, PlanTypesStay DEF GrowOld
  <2>3. ReplyTypes'
    BY <1>0, <1>17, ReplyTypesStay DEF GrowOld
  <2>4. QED
    BY <1>e, <2>1, <2>2, <2>3
<1>18. ASSUME NEW n \in Nodes, TaskStatementFails(n) PROVE Types'
  <2>1. QueueTypes'
    BY <1>0, <1>18 DEF TaskStatementFails, Fault, QueueTypes
  <2>2. PlanTypes'
    BY <1>0, <1>18, PlanTypesStay DEF TaskStatementFails, PlanTypes, PlanState
  <2>3. ReplyTypes'
    BY <1>0, <1>18, ReplyTypesStay DEF TaskStatementFails
  <2>4. QED
    BY <1>e, <2>1, <2>2, <2>3
<1>19. ASSUME NEW c \in Replies, RouteReply(c) PROVE Types'
  <2>1. QueueTypes'
    BY <1>0, <1>19 DEF RouteReply, Here, QueueTypes
  <2>2. PlanTypes'
    BY <1>0, <1>19, PlanTypesStay DEF RouteReply, Here
  <2>3. ReplyTypes'
    <3>0. PICK S : S = {m \in PausedChildren : conv[m]}
      OBVIOUS
    <3>1. PICK n : n = IF sentTo[c] = Master /\ S # {} THEN Greatest(S) ELSE target[c]
      OBVIOUS
    <3>a. target' = [target EXCEPT ![c] = n] /\ S \in SUBSET Rows
      BY <1>19, <3>0, <3>1 DEF RouteReply, PausedChildren
    <3>2. n \in Nodes
      BY <1>0, <3>1, <3>a, GreatestRow DEF ReplyTypes
    <3>3. QED
      BY <1>0, <1>19, <3>a, <3>2 DEF RouteReply, ReplyTypes, ReplyState
  <2>4. QED
    BY <1>e, <2>1, <2>2, <2>3
<1>20. ASSUME NEW c \in Replies, MarkRunning(c) PROVE Types'
  <2>t. trampled' \in BOOLEAN
    BY <1>0, <1>20, Zenon DEF MarkRunning, QueueTypes
  <2>s. status' \in [Nodes -> RowStatus]
    BY <1>0, <1>20 DEF MarkRunning, QueueTypes, ReplyTypes, RowStatus
  <2>1. QueueTypes'
    BY <1>0, <1>20, <2>s, <2>t DEF MarkRunning, Here, QueueTypes
  <2>2. PlanTypes'
    BY <1>0, <1>20, PlanTypesStay DEF MarkRunning, Here
  <2>3. ReplyTypes'
    BY <1>0, <1>20, GoesType DEF MarkRunning, ReplyTypes, ReplyState
  <2>4. QED
    BY <1>e, <2>1, <2>2, <2>3
<1>21. ASSUME NEW c \in Replies, NEW r \in Ends, PersistReply(c, r) PROVE Types'
  <2>1. QueueTypes'
    BY <1>0, <1>21 DEF PersistReply, Here, QueueTypes, RowStatus
  <2>2. PlanTypes'
    BY <1>0, <1>21, PlanTypesStay DEF PersistReply, Here
  <2>3. ReplyTypes'
    BY <1>0, <1>21, GoesType DEF PersistReply, AfterReply, ReplyTypes, ReplyState
  <2>4. QED
    BY <1>e, <2>1, <2>2, <2>3
<1>22. ASSUME NEW c \in Replies, CountPaused(c) PROVE Types'
  <2>1. QueueTypes'
    BY <1>0, <1>22 DEF CountPaused, Here, QueueTypes
  <2>2. PlanTypes'
    BY <1>0, <1>22, PlanTypesStay DEF CountPaused, Here
  <2>3. ReplyTypes'
    BY <1>0, <1>22, GoesType DEF CountPaused, ReplyTypes, ReplyState
  <2>4. QED
    BY <1>e, <2>1, <2>2, <2>3
<1>23. ASSUME NEW c \in Replies, FinishParent(c) PROVE Types'
  <2>t. trampled' \in BOOLEAN
    BY <1>0, <1>23, Zenon DEF FinishParent, QueueTypes
  <2>s. status' \in [Nodes -> RowStatus]
    BY <1>0, <1>23 DEF FinishParent, QueueTypes, ReplyTypes, RowStatus
  <2>1. QueueTypes'
    BY <1>0, <1>23, <2>s, <2>t DEF FinishParent, Here, QueueTypes
  <2>2. PlanTypes'
    BY <1>0, <1>23, PlanTypesStay DEF FinishParent, Here
  <2>3. ReplyTypes'
    BY <1>0, <1>23, GoesType DEF FinishParent, ReplyTypes, ReplyState
  <2>4. QED
    BY <1>e, <2>1, <2>2, <2>3
<1>24. ASSUME NEW c \in Replies, CountAfterReply(c) PROVE Types'
  <2>1. QueueTypes'
    BY <1>0, <1>24 DEF CountAfterReply, Here, QueueTypes
  <2>2. PlanTypes'
    BY <1>0, <1>24, PlanTypesStay DEF CountAfterReply, Here
  <2>3. ReplyTypes'
    BY <1>0, <1>24, GoesType DEF CountAfterReply, ReplyTypes, ReplyState
  <2>4. QED
    BY <1>e, <2>1, <2>2, <2>3
<1>25. ASSUME NEW c \in Replies, CompleteAfterReply(c) PROVE Types'
  <2>1. QueueTypes'
    BY <1>0, <1>25 DEF CompleteAfterReply, QueueTypes
  <2>2. PlanTypes'
    BY <1>0, <1>25, PlanTypesStay DEF CompleteAfterReply
  <2>3. ReplyTypes'
    BY <1>0, <1>25, GoesType DEF CompleteAfterReply, ReplyTypes, ReplyState
  <2>4. QED
    BY <1>e, <2>1, <2>2, <2>3
<1>26. ASSUME NEW c \in Replies, ReplyStatementFails(c) PROVE Types'
  <2>1. QueueTypes'
    BY <1>0, <1>26 DEF ReplyStatementFails, Fault, QueueTypes
  <2>2. PlanTypes'
    BY <1>0, <1>26, PlanTypesStay DEF ReplyStatementFails
  <2>3. ReplyTypes'
    <3>1. CASE \E w \in ReplyState : Goes(c, w)
      BY <1>0, <3>1, GoesType DEF ReplyTypes
    <3>2. ASSUME NEW r \in {"passed", "failed"}, replyAt' = [replyAt EXCEPT ![c] = AfterReply(c, r)],
                 answer' = [answer EXCEPT ![c] = r], UNCHANGED <<target, sentTo>>
          PROVE  ReplyTypes'
      BY <1>0, <3>2 DEF AfterReply, ReplyTypes, ReplyState, Ends
    <3>3. QED
      BY <1>26, <3>1, <3>2 DEF ReplyStatementFails, ReplyState
  <2>4. QED
    BY <1>e, <2>1, <2>2, <2>3
<1>27. ASSUME NEW c \in Replies, NEW n \in Nodes, CheckReply(c, n) PROVE Types'
  <2>d. direct' \in BOOLEAN
    BY <1>0, <1>27, Zenon DEF CheckReply, QueueTypes
  <2>1. QueueTypes'
    BY <1>0, <1>27, <2>d DEF CheckReply, Here, QueueTypes
  <2>2. PlanTypes'
    BY <1>0, <1>27, PlanTypesStay DEF CheckReply, Here
  <2>3. ReplyTypes'
    BY <1>0, <1>27, GoesType DEF CheckReply, ReplyTypes, ReplyState
  <2>4. QED
    BY <1>e, <2>1, <2>2, <2>3
<1>28. CASE UNCHANGED vars
  BY <1>0, <1>28 DEF vars, planVars, replyVars, Types, QueueTypes, PlanTypes, ReplyTypes
<1>29. QED
  BY <1>1, <1>2, <1>3, <1>4, <1>5, <1>6, <1>7, <1>8, <1>9, <1>10, <1>11,
     <1>12, <1>13, <1>14, <1>15, <1>16, <1>17, <1>18, <1>19, <1>20, <1>21, <1>22,
     <1>23, <1>24, <1>25, <1>26, <1>27, <1>28
     DEF Next, WorkerPoll, PlanStep, RowTask, ReplyStep

-----------------------------------------------------------------------------
(* What every step keeps: rows in use, and the answers of children.        *)

InUse(x) == x \notin {"absent", "preview"}

\* Only the reset of a failed child takes a row out of use.
LEMMA UsedStay ==
  ASSUME TypeOK, OwnRows, [Next]_vars
  PROVE  ResetChild \/ \A n \in Nodes : InUse(status[n]) => InUse(status'[n])
<1> DEFINE Stay == \A n \in Nodes : InUse(status[n]) => InUse(status'[n])
<1> SUFFICES ResetChild \/ Stay
  OBVIOUS
<1>s. ASSUME TypeOK, todo # {} PROVE Step \in Rows /\ slug[Step] \in Agents
  BY <1>s, LeastRow DEF TypeOK, Step
<1>r. ASSUME NEW r \in Rows, StartedIn(r) PROVE Stay
  BY <1>r DEF StartedIn, InUse
<1>u. status' = status => Stay
  BY DEF InUse
<1> USE NodeFacts DEF rowVars, history
<1>1. CASE Sweep
  BY <1>1 DEF Sweep, InUse, TypeOK, Ends
<1>2. CASE Claim
  BY <1>2 DEF Claim, InUse, TypeOK, Ends
<1>3. CASE LoadPlan
  BY <1>u, <1>3 DEF LoadPlan, rowVars
<1>4. CASE ClaimChild
  <2>1. CASE ChildStarts(slug[Step])
    BY <1>r, <1>s, <1>4, <2>1, ChildStartsEffect DEF ClaimChild, OwnRows
  <2>2. QED
    BY <1>u, <1>4, <2>1 DEF ClaimChild
<1>5. ASSUME NEW s \in Agents, SpawnAgent(s) PROVE Stay
  BY <1>r, <1>5, ChildStartsEffect DEF SpawnAgent
<1>6. ASSUME NEW r \in Ends, FinishChild(r) PROVE Stay
  <2>1. row \in Nodes
    BY <1>6 DEF FinishChild, OwnRows
  <2>2. status'[row] = r /\ \A m \in Nodes \ {row} : status'[m] = status[m]
    BY <1>6, <2>1, RowEndsEffect DEF FinishChild
  <2>3. QED
    BY <2>2 DEF InUse, Ends
<1>7. ASSUME NEW v \in StepResult, CheckChild(v) PROVE Stay
  BY <1>u, <1>7 DEF CheckChild, rowVars
<1>8. CASE ResetChild
  BY <1>8
<1>9. ASSUME NEW r \in Ends, FinishMaster(r) PROVE Stay
  <2>1. status'[Master] = r /\ \A m \in Nodes \ {Master} : status'[m] = status[m]
    BY <1>9, RowEndsEffect DEF FinishMaster
  <2>2. QED
    BY <2>1 DEF InUse, Ends
<1>10. CASE StopSession
  BY <1>u, <1>10 DEF StopSession, rowVars
<1>11. CASE StopNodes
  BY <1>11 DEF StopNodes, InUse, TypeOK, Ends
<1>12. CASE PlanStatementFails
  <2>1. ASSUME NEW t \in Wanted, InsertRow(t) PROVE Stay
    <3>1. t \in Agents
      BY CatalogAssumption DEF Wanted
    <3>2. QED
      BY <1>r, <2>1, <3>1, InsertRowEffect
  <2>2. QED
    BY <1>u, <1>12, <2>1 DEF PlanStatementFails
<1>13. CASE Crash
  BY <1>u, <1>13 DEF Crash, rowVars
<1>14. ASSUME NEW n \in Nodes, NEW r \in Ends, RunSweptChild(n, r) PROVE Stay
  <2>1. status'[n] = r /\ \A m \in Nodes \ {n} : status'[m] = status[m]
    BY <1>14, RowEndsEffect DEF RunSweptChild, TypeOK
  <2>2. QED
    BY <2>1 DEF InUse, Ends
<1>15. ASSUME NEW n \in Nodes, CountSettled(n) PROVE Stay
  BY <1>u, <1>15 DEF CountSettled, rowVars
<1>16. ASSUME NEW n \in Nodes, Complete(n) PROVE Stay
  BY <1>u, <1>16 DEF Complete, rowVars
<1>17. ASSUME NEW n \in Nodes, GrowOld(n) PROVE Stay
  BY <1>u, <1>17 DEF GrowOld, rowVars
<1>18. ASSUME NEW n \in Nodes, TaskStatementFails(n) PROVE Stay
  BY <1>u, <1>18 DEF TaskStatementFails, rowVars
<1>19. ASSUME NEW c \in Replies, RouteReply(c) PROVE Stay
  BY <1>u, <1>19 DEF RouteReply, rowVars
<1>20. ASSUME NEW c \in Replies, MarkRunning(c) PROVE Stay
  BY <1>20 DEF MarkRunning, InUse, TypeOK, Ends
<1>21. ASSUME NEW c \in Replies, NEW r \in Ends, PersistReply(c, r) PROVE Stay
  BY <1>21 DEF PersistReply, InUse, TypeOK, Ends
<1>22. ASSUME NEW c \in Replies, CountPaused(c) PROVE Stay
  BY <1>u, <1>22 DEF CountPaused, rowVars
<1>23. ASSUME NEW c \in Replies, FinishParent(c) PROVE Stay
  BY <1>23 DEF FinishParent, InUse, TypeOK, Ends
<1>24. ASSUME NEW c \in Replies, CountAfterReply(c) PROVE Stay
  BY <1>u, <1>24 DEF CountAfterReply, rowVars
<1>25. ASSUME NEW c \in Replies, CompleteAfterReply(c) PROVE Stay
  BY <1>u, <1>25 DEF CompleteAfterReply, rowVars
<1>26. ASSUME NEW c \in Replies, ReplyStatementFails(c) PROVE Stay
  BY <1>u, <1>26 DEF ReplyStatementFails, rowVars
<1>27. ASSUME NEW c \in Replies, NEW n \in Nodes, CheckReply(c, n) PROVE Stay
  BY <1>u, <1>27 DEF CheckReply, rowVars
<1>28. CASE UNCHANGED vars
  BY <1>u, <1>28 DEF vars
<1>29. QED
  BY <1>1, <1>2, <1>3, <1>4, <1>5, <1>6, <1>7, <1>8, <1>9, <1>10, <1>11,
     <1>12, <1>13, <1>14, <1>15, <1>16, <1>17, <1>18, <1>19, <1>20, <1>21, <1>22,
     <1>23, <1>24, <1>25, <1>26, <1>27, <1>28
     DEF Next, WorkerPoll, PlanStep, RowTask, ReplyStep

\* Most steps leave the plan alone.
LEMMA PlanUntouched ==
  [Next]_vars =>
    \/ UNCHANGED planVars
    \/ Claim \/ PlanStep \/ PlanStatementFails \/ Crash
    \/ \E n \in Nodes : TaskStatementFails(n)
BY DEF Next, WorkerPoll, Sweep, StopSession, StopNodes, RowTask, RunSweptChild,
  CountSettled, Complete, GrowOld, ReplyStep, RouteReply, MarkRunning, PersistReply,
  CountPaused, FinishParent, CountAfterReply, CompleteAfterReply, Here,
  ReplyStatementFails, CheckReply, vars

LEMMA OwnRowsKept ==
  ASSUME TypeOK, OwnRows, [Next]_vars, TypeOK'
  PROVE  OwnRows'
<1> DEFINE Stay == \A n \in Nodes : InUse(status[n]) => InUse(status'[n])
<1>u. ResetChild \/ Stay
  BY UsedStay
<1>t. /\ \A n \in DOMAIN got : got[n].row \in Rows \cup {NoRow}
      /\ row \in Rows \cup {NoRow} /\ todo \subseteq Rows
      /\ status \in [Nodes -> RowStatus] /\ slug \in [Rows -> Agents]
  BY DEF TypeOK
<1>s. todo # {} => Step \in todo /\ Step \in Rows
  BY <1>t, LeastRow DEF Step
<1>o. Stay =>
      \A n \in DOMAIN got : got[n].row # NoRow => InUse(status'[got[n].row])
  <2>1. \A n \in DOMAIN got : got[n].row # NoRow => InUse(status[got[n].row])
    BY DEF OwnRows, InUse
  <2>2. QED
    BY <1>t, <2>1, NodeFacts DEF InUse
<1>r. ASSUME NEW r \in Rows, StartedIn(r), UNCHANGED <<todo, got>> PROVE OwnRows'
  <2>1. \A n \in DOMAIN got : got[n].row # NoRow => got[n].row # r /\ InUse(status'[got[n].row])
    <3>1. \A n \in DOMAIN got : got[n].row # NoRow => got[n].row # r
      BY <1>r DEF OwnRows, StartedIn
    <3>2. QED
      BY <1>r, <1>t, <3>1, NodeFacts DEF OwnRows, StartedIn, InUse
  <2>2. InUse(status'[r]) /\ row' = r /\ at' = "run" /\ r # NoRow
    BY <1>r, NodeFacts DEF StartedIn, InUse
  <2>3. QED
    BY <1>r, <2>1, <2>2 DEF OwnRows, Taken, InUse
<1>g. ASSUME Stay, UNCHANGED <<row, got>>, Taken' => Taken, at' \in {"claim", "reset"} => todo' # {},
             at' = "run" => at = "run"
      PROVE  OwnRows'
  <2>1. Taken /\ row # NoRow => InUse(status'[row])
    <3>1. Taken /\ row # NoRow => InUse(status[row]) /\ row \in Nodes
      BY <1>t, NodeFacts DEF OwnRows, InUse
    <3>2. QED
      BY <1>g, <3>1
  <2>2. QED
    BY <1>g, <1>o, <2>1 DEF OwnRows, InUse
<1>e. ASSUME Stay, got' = [n \in {} |-> NoRow], at' = "none" PROVE OwnRows'
  BY <1>e DEF OwnRows, Taken
<1>1. CASE UNCHANGED planVars
  <2>1. ~ResetChild
    BY <1>1 DEF ResetChild, planVars
  <2>2. QED
    BY <1>1, <1>g, <1>u, <2>1 DEF planVars, Taken, OwnRows
<1>2. CASE Claim
  <2>1. Stay
    BY <1>2, <1>t DEF Claim, InUse
  <2>2. UNCHANGED <<todo, row, got>> /\ (at' = at \/ at' = "load")
    BY <1>2 DEF Claim
  <2>3. QED
    BY <1>g, <2>1, <2>2 DEF OwnRows, Taken
<1>3. CASE LoadPlan
  <2>1. Stay
    BY <1>3 DEF LoadPlan, rowVars, InUse
  <2>2. UNCHANGED <<row, got>> /\ at' \in {"claim", "free"} /\ (at' = "claim" => todo' # {})
    BY <1>3 DEF LoadPlan
  <2>3. QED
    BY <1>g, <2>1, <2>2 DEF Taken
<1>4. CASE ClaimChild
  <2>1. CASE ChildStarts(slug[Step])
    <3>1. todo # {} /\ UNCHANGED <<todo, got>>
      BY <1>4 DEF ClaimChild, OwnRows
    <3>2. PICK r \in Rows : StartedIn(r)
      BY <1>s, <1>t, <2>1, <3>1, ChildStartsEffect
    <3>3. QED
      BY <1>r, <3>1, <3>2
  <2>2. CASE row' = NoRow /\ at' = "check" /\ UNCHANGED rowVars
    <3>1. Stay /\ UNCHANGED got
      BY <1>4, <2>2 DEF ClaimChild, rowVars, InUse
    <3>2. QED
      BY <2>2, <3>1, <1>o DEF OwnRows, Taken, InUse
  <2>3. QED
    BY <1>4, <2>1, <2>2 DEF ClaimChild
<1>5. ASSUME NEW s \in Agents, SpawnAgent(s) PROVE OwnRows'
  <2>1. PICK r \in Rows : StartedIn(r)
    BY <1>5, ChildStartsEffect DEF SpawnAgent
  <2>2. QED
    BY <1>5, <1>r, <2>1 DEF SpawnAgent
<1>6. ASSUME NEW r \in Ends, FinishChild(r) PROVE OwnRows'
  <2>1. Stay
    BY <1>6, <1>u DEF FinishChild, ResetChild
  <2>2. UNCHANGED <<row, got>> /\ at' = "check" /\ Taken
    BY <1>6 DEF FinishChild, Taken
  <2>3. QED
    BY <1>g, <2>1, <2>2
<1>7. ASSUME NEW v \in StepResult, CheckChild(v) PROVE OwnRows'
  <2>1. Stay /\ Taken
    BY <1>7 DEF CheckChild, InUse, rowVars, Taken
  <2>2. CASE at' \in {"free", "reset"} /\ (at' = "reset" => todo # {}) /\ UNCHANGED <<todo, row, got>>
    BY <1>g, <2>1, <2>2
  <2>3. CASE todo # {} /\ Record(v)
    <3>1. DOMAIN got' = DOMAIN got \cup {Step} /\ \A n \in DOMAIN got' :
            got'[n].row = IF n = Step THEN row ELSE got[n].row
      BY <2>3 DEF Record
    <3>2. row # NoRow => InUse(status'[row]) /\ \A n \in DOMAIN got : got[n].row # row
      BY <1>t, <2>1, NodeFacts DEF OwnRows, InUse
    <3>3. at' \in {"claim", "close"} /\ (at' = "claim" => todo' # {})
      BY <2>3 DEF Record
    <3>4. \A n \in DOMAIN got' : got'[n].row # NoRow => InUse(status'[got'[n].row])
      BY <1>o, <2>1, <3>1, <3>2 DEF InUse
    <3>5. \A m, n \in DOMAIN got' : m # n /\ got'[m].row # NoRow => got'[m].row # got'[n].row
      BY <3>1, <3>2 DEF OwnRows
    <3>6. QED
      BY <3>3, <3>4, <3>5 DEF OwnRows, Taken, InUse
  <2>4. QED
    BY <1>7, <2>2, <2>3 DEF CheckChild
<1>8. CASE ResetChild
  <2>1. \A n \in DOMAIN got : got[n].row # NoRow => got[n].row # row
    BY <1>8 DEF ResetChild, OwnRows, Taken
  <2>2. status' = [status EXCEPT ![row] = "preview"] /\ at' = "claim" /\ todo # {} /\ UNCHANGED <<todo, got>>
    BY <1>8 DEF ResetChild, OwnRows
  <2>3. QED
    BY <1>t, <2>1, <2>2 DEF OwnRows, Taken
<1>9. ASSUME NEW r \in Ends, FinishMaster(r) PROVE OwnRows'
  BY <1>9, <1>e, <1>u DEF FinishMaster, ResetChild
<1>10. CASE PlanStatementFails
  <2>1. Stay /\ UNCHANGED <<todo, got>>
    BY <1>10, <1>u DEF PlanStatementFails, Fault, ResetChild, InsertRow, rowVars, InUse
  <2>2. ASSUME NEW w \in Wanted, InsertRow(w) PROVE OwnRows'
    <3>1. w \in Agents
      BY CatalogAssumption DEF Wanted
    <3>2. QED
      BY <1>r, <2>1, <2>2, <3>1, InsertRowEffect
  <2>3. CASE row' = NoRow /\ at' = "check"
    BY <1>o, <2>1, <2>3 DEF OwnRows, Taken, InUse
  <2>4. CASE row' = row /\ (at' = "free" \/ (at = "run" /\ at' = "check") \/ (at = "reset" /\ at' = "claim"))
    BY <1>g, <2>1, <2>4 DEF OwnRows, Taken
  <2>5. \/ \E w \in Wanted : InsertRow(w)
        \/ row' = NoRow /\ at' = "check"
        \/ row' = row /\ (at' = "free" \/ (at = "run" /\ at' = "check") \/ (at = "reset" /\ at' = "claim"))
    BY <1>10 DEF PlanStatementFails
  <2>6. QED
    BY <2>2, <2>3, <2>4, <2>5
<1>11. CASE Crash
  <2>1. Stay
    BY <1>11 DEF Crash, rowVars, InUse
  <2>2. QED
    BY <1>11, <1>e, <2>1 DEF Crash
<1>12. ASSUME NEW n \in Nodes, TaskStatementFails(n) PROVE OwnRows'
  <2>1. Stay
    BY <1>12 DEF TaskStatementFails, rowVars, InUse
  <2>2. QED
    BY <1>1, <1>12, <1>e, <2>1 DEF TaskStatementFails
<1>13. QED
  BY <1>1, <1>2, <1>3, <1>4, <1>5, <1>6, <1>7, <1>8, <1>9, <1>10, <1>11, <1>12,
     PlanUntouched DEF PlanStep

LEMMA RepliesUntouched ==
  [Next]_vars =>
    \/ UNCHANGED replyVars
    \/ Crash
    \/ \E c \in Replies :
         ReplyStep(c) \/ ReplyStatementFails(c) \/ \E n \in Nodes : CheckReply(c, n)
BY DEF Next, WorkerPoll, Sweep, Claim, PlanStep, LoadPlan, ClaimChild, SpawnAgent, FinishChild,
  CheckChild, ResetChild, FinishMaster, Unplanned, StopSession, StopNodes, RowTask, RunSweptChild,
  CountSettled, Complete, GrowOld, PlanStatementFails, TaskStatementFails, vars

\* A step of reply c that goes on to w.
LEMMA GoesEffect ==
  ASSUME TypeOK, NEW c \in Replies, NEW w \in ReplyState, Goes(c, w)
  PROVE  /\ replyAt'[c] = w
         /\ \A e \in Replies \ {c} : /\ replyAt'[e] = replyAt[e] /\ target'[e] = target[e]
                                     /\ sentTo'[e] = sentTo[e] /\ answer'[e] = answer[e]
         /\ IF w = "none" THEN target'[c] = Master /\ sentTo'[c] = Master /\ answer'[c] = "failed"
            ELSE target'[c] = target[c] /\ sentTo'[c] = sentTo[c] /\ answer'[c] = answer[c]
BY DEF Goes, TypeOK

LEMMA AnswersEndedKept ==
  ASSUME TypeOK, AnswersEnded, [Next]_vars
  PROVE  AnswersEnded'
<1>1. CASE UNCHANGED replyVars
  BY <1>1 DEF AnswersEnded, replyVars
<1>2. CASE Crash
  BY <1>2 DEF Crash, AnswersEnded
<1>3. ASSUME NEW c \in Replies, NEW w \in ReplyState, Goes(c, w),
             w \in {"parent", "finish"} => replyAt[c] \in {"parent", "finish"}
      PROVE  AnswersEnded'
  BY <1>3, GoesEffect DEF AnswersEnded
<1>4. ASSUME NEW c \in Replies, NEW r \in {"passed", "failed"}, NEW w,
             replyAt' = [replyAt EXCEPT ![c] = w], answer' = [answer EXCEPT ![c] = r]
      PROVE  AnswersEnded'
  BY <1>4 DEF AnswersEnded, TypeOK
<1>5. ASSUME NEW c \in Replies, ReplyStep(c) PROVE AnswersEnded'
  <2>1. CASE RouteReply(c)
    BY <2>1 DEF RouteReply, AnswersEnded, TypeOK
  <2>2. ASSUME NEW r \in Ends, PersistReply(c, r) PROVE AnswersEnded'
    BY <1>3, <1>4, <2>2 DEF PersistReply, Ends, ReplyState
  <2>3. CASE FinishParent(c)
    BY <1>3, <2>3 DEF FinishParent, ReplyState
  <2>4. QED
    BY <1>3, <1>5, <2>1, <2>2, <2>3 DEF ReplyStep, MarkRunning, CountPaused, CountAfterReply,
       CompleteAfterReply, ReplyState
<1>6. ASSUME NEW c \in Replies, ReplyStatementFails(c) PROVE AnswersEnded'
  BY <1>3, <1>4, <1>6 DEF ReplyStatementFails, ReplyState
<1>7. ASSUME NEW c \in Replies, NEW n \in Nodes, CheckReply(c, n) PROVE AnswersEnded'
  <2>1. \A e \in Replies : replyAt'[e] \in {"parent", "finish"} => replyAt[e] \in {"parent", "finish"} /\ e # c
    BY <1>7 DEF CheckReply, Goes, TypeOK
  <2>2. \A e \in Replies : e # c => answer'[e] = answer[e]
    BY <1>7 DEF CheckReply, Goes, TypeOK
  <2>3. QED
    BY <2>1, <2>2 DEF AnswersEnded
<1>8. QED
  BY <1>1, <1>2, <1>3, <1>5, <1>6, <1>7, RepliesUntouched

-----------------------------------------------------------------------------
(* The steps of an undisturbed session: the sweep finds nothing and the     *)
(* worker loop runs the master only.                                        *)

\* Nothing happens to the rows, the plan or a reply.
Quiet ==
  /\ UNCHANGED <<status, slug, planVars, replyVars, direct>>
  /\ \A n \in Nodes : task'[n] # task[n] => task[n] # "none" /\ "run" \notin {task[n], task'[n]}

MasterStarts ==
  /\ at = "none" /\ status[Master] = "ready"
  /\ status'[Master] = "running" /\ \A n \in Rows : status'[n] = status[n]
  /\ task'[Master] = "run" /\ \A n \in Rows : task'[n] = "none"
  /\ at' = "load"
  /\ UNCHANGED <<slug, todo, retried, row, result, got, replyVars, direct>>

ChildStarted(r) ==
  /\ at \in {"claim", "free"}
  /\ StartedIn(r)
  /\ at = "claim" /\ Previews(slug[Step]) # {} => r = Least(Previews(slug[Step])) /\ slug' = slug
  /\ at = "claim" => slug[Step] \in Catalog
  /\ UNCHANGED <<task, todo, retried, result, got, replyVars, direct>>

ChildUnknown ==
  /\ at = "claim" /\ slug[Step] \notin Catalog
  /\ row' = NoRow /\ result' = "unknown" /\ at' = "check"
  /\ UNCHANGED <<status, slug, task, todo, retried, got, replyVars, direct>>

MarkPaused(c) == MarkRunning(c) /\ status[target[c]] = "awaiting_reply"

FinishPaused(c) == FinishParent(c) /\ status[Master] = "awaiting_reply"

ReplyMoves(c, w) ==
  /\ replyAt[c] \in {"parent", "count", "complete"}
  /\ w \in {"finish", "count", "complete", "none"}
  /\ IF replyAt[c] = "parent"
     THEN w = IF PausedChildren = {} THEN "finish" ELSE "count"
     ELSE w # "finish"
  /\ Goes(c, w)
  /\ UNCHANGED <<status, slug, task, planVars, direct>>

CalmStep ==
  \/ Quiet
  \/ MasterStarts
  \/ LoadPlan
  \/ \E r \in Rows : ChildStarted(r)
  \/ ChildUnknown
  \/ \E r \in Ends : FinishChild(r)
  \/ \E v \in StepResult : CheckChild(v)
  \/ ResetChild
  \/ \E r \in Ends : FinishMaster(r)
  \/ StopNodes
  \/ \E c \in Replies :
       \/ RouteReply(c)
       \/ MarkPaused(c)
       \/ \E r \in Ends : PersistReply(c, r)
       \/ \E w \in ReplyState : ReplyMoves(c, w)
       \/ FinishPaused(c)
       \/ \E n \in Nodes : CheckReply(c, n)

\* A session once disturbed stays so.
LEMMA DisturbedOnce ==
  ASSUME TypeOK, [Next]_vars
  PROVE  (trampled => trampled') /\ (direct => direct') /\ (faults # 0 => faults' # 0)
<1> DEFINE Mono == (trampled => trampled') /\ (direct => direct') /\ (faults # 0 => faults' # 0)
<1>u. UNCHANGED <<history, faults>> => Mono
  BY DEF history
<1>f. Fault /\ UNCHANGED history => Mono
  BY DEF Fault, history, TypeOK
<1>1. CASE Sweep
  <2>1. (trampled => trampled') /\ (direct => direct') /\ faults' = faults
    BY <1>1 DEF Sweep, Here
  <2>2. QED
    BY <2>1
<1>2. CASE Claim
  BY <1>u, <1>2 DEF Claim, Unplanned, Here
<1>3. CASE LoadPlan
  BY <1>u, <1>3 DEF LoadPlan, Unplanned, Here
<1>4. CASE ClaimChild
  BY <1>u, <1>4 DEF ClaimChild, Unplanned, Here
<1>5. ASSUME NEW s \in Agents, SpawnAgent(s) PROVE Mono
  BY <1>u, <1>5 DEF SpawnAgent, Unplanned, Here
<1>6. ASSUME NEW r \in Ends, FinishChild(r) PROVE Mono
  BY <1>u, <1>6 DEF FinishChild, Unplanned, Here
<1>7. ASSUME NEW v \in StepResult, CheckChild(v) PROVE Mono
  BY <1>u, <1>7 DEF CheckChild, Unplanned, Here
<1>8. CASE ResetChild
  BY <1>u, <1>8 DEF ResetChild, Unplanned, Here
<1>9. ASSUME NEW r \in Ends, FinishMaster(r) PROVE Mono
  BY <1>u, <1>9 DEF FinishMaster, Unplanned, Here
<1>10. CASE StopSession
  BY <1>u, <1>10 DEF StopSession, Unplanned, Here
<1>11. CASE StopNodes
  BY <1>u, <1>11 DEF StopNodes, Unplanned, Here
<1>12. CASE PlanStatementFails
  BY <1>f, <1>12 DEF PlanStatementFails, Unplanned
<1>13. CASE Crash
  BY <1>f, <1>13 DEF Crash, Unplanned
<1>14. ASSUME NEW n \in Nodes, NEW r \in Ends, RunSweptChild(n, r) PROVE Mono
  BY <1>u, <1>14 DEF RunSweptChild, Unplanned, Here
<1>15. ASSUME NEW n \in Nodes, CountSettled(n) PROVE Mono
  BY <1>u, <1>15 DEF CountSettled, Unplanned, Here
<1>16. ASSUME NEW n \in Nodes, Complete(n) PROVE Mono
  BY <1>u, <1>16 DEF Complete, Unplanned, Here
<1>17. ASSUME NEW n \in Nodes, GrowOld(n) PROVE Mono
  BY <1>u, <1>17 DEF GrowOld, Unplanned, Here
<1>18. ASSUME NEW n \in Nodes, TaskStatementFails(n) PROVE Mono
  BY <1>f, <1>18 DEF TaskStatementFails, Unplanned
<1>19. ASSUME NEW c \in Replies, RouteReply(c) PROVE Mono
  BY <1>u, <1>19 DEF RouteReply, Unplanned, Here
<1>20. ASSUME NEW c \in Replies, MarkRunning(c) PROVE Mono
  <2>1. (trampled => trampled') /\ (direct => direct') /\ faults' = faults
    BY <1>20 DEF MarkRunning, Here
  <2>2. QED
    BY <2>1
<1>21. ASSUME NEW c \in Replies, NEW r \in Ends, PersistReply(c, r) PROVE Mono
  BY <1>u, <1>21 DEF PersistReply, Unplanned, Here
<1>22. ASSUME NEW c \in Replies, CountPaused(c) PROVE Mono
  BY <1>u, <1>22 DEF CountPaused, Unplanned, Here
<1>23. ASSUME NEW c \in Replies, FinishParent(c) PROVE Mono
  <2>1. (trampled => trampled') /\ (direct => direct') /\ faults' = faults
    BY <1>23 DEF FinishParent, Here
  <2>2. QED
    BY <2>1
<1>24. ASSUME NEW c \in Replies, CountAfterReply(c) PROVE Mono
  BY <1>u, <1>24 DEF CountAfterReply, Unplanned, Here
<1>25. ASSUME NEW c \in Replies, CompleteAfterReply(c) PROVE Mono
  BY <1>u, <1>25 DEF CompleteAfterReply, Unplanned, Here
<1>26. ASSUME NEW c \in Replies, ReplyStatementFails(c) PROVE Mono
  BY <1>f, <1>26 DEF ReplyStatementFails, Unplanned
<1>27. ASSUME NEW c \in Replies, NEW n \in Nodes, CheckReply(c, n) PROVE Mono
  <2>1. (trampled => trampled') /\ (direct => direct') /\ faults' = faults
    BY <1>27 DEF CheckReply, Here
  <2>2. QED
    BY <2>1
<1>28. CASE UNCHANGED vars
  BY <1>u, <1>28 DEF vars, history
<1>29. QED
  BY <1>1, <1>2, <1>3, <1>4, <1>5, <1>6, <1>7, <1>8, <1>9, <1>10, <1>11,
     <1>12, <1>13, <1>14, <1>15, <1>16, <1>17, <1>18, <1>19, <1>20, <1>21, <1>22,
     <1>23, <1>24, <1>25, <1>26, <1>27, <1>28
     DEF Next, WorkerPoll, PlanStep, RowTask, ReplyStep

LEMMA CalmSteps ==
  ASSUME OrchestratorInv, [Next]_vars, Undisturbed'
  PROVE  Undisturbed /\ CalmStep
<1>n. TypeOK /\ OwnRows
  BY DEF OrchestratorInv
<1>f. ~Fault
  BY <1>n DEF Fault, Undisturbed, TypeOK
<1>0. Undisturbed
  BY <1>n, DisturbedOnce DEF Undisturbed
<1> SUFFICES CalmStep
  BY <1>0
<1>i. RowsOwned
  BY <1>0 DEF OrchestratorInv
<1> USE NodeFacts
<1>1. CASE Sweep
  <2>1. PICK n \in Stuck : TRUE
    BY <1>1 DEF Sweep
  <2>2. n \in Nodes /\ status[n] = "running"
    BY DEF Stuck, WithStatus
  <2>3. at = "none"
    BY <1>i, <1>1 DEF Sweep, BatchDone, RowsOwned, PlanOwnsRow, RunningIsOwned
  <2>4. ReplyOn(n, {"run"})
    BY <1>i, <2>2, <2>3 DEF RowsOwned, PlanOwnsRow, RunningIsOwned
  <2>5. trampled'
    BY <1>1, <2>4 DEF Sweep
  <2>6. QED
    BY <2>5 DEF Undisturbed
<1>2. CASE Claim
  <2>1. {n \in WithStatus({"ready"}) : attempts[n] < MaxAttempts} = {Master}
    BY <1>i, <1>2 DEF Claim, WithStatus, RowsOwned, PlanOwnsRow, RunningIsOwned
  <2>2. status[Master] = "ready" /\ at = "none"
    BY <1>i, <1>2, <2>1 DEF Claim, WithStatus, RowsOwned, PlanOwnsRow, RunningIsOwned, BatchDone
  <2>3. MasterStarts
    BY <1>2, <2>1, <2>2 DEF Claim, MasterStarts, history
  <2>4. QED
    BY <2>3 DEF CalmStep
<1>3. CASE LoadPlan
  BY <1>3 DEF CalmStep
<1>4. CASE ClaimChild
  <2>s. Step \in Rows /\ slug[Step] \in Agents
    BY <1>n, <1>4, LeastRow DEF ClaimChild, OwnRows, TypeOK, Step
  <2>1. CASE ChildUnknown
    BY <2>1 DEF CalmStep
  <2>2. CASE slug[Step] \in Catalog /\ ChildStarts(slug[Step]) /\ UNCHANGED result
    <3>1. PICK r \in Rows : StartedIn(r) /\ (Previews(slug[Step]) # {} => r = Least(Previews(slug[Step])) /\ slug' = slug)
      <4>1. CASE Previews(slug[Step]) = {}
        BY <1>n, <2>s, <2>2, <4>1, ChildStartsEffect
      <4>2. CASE Previews(slug[Step]) # {}
        <5>1. StartedIn(Least(Previews(slug[Step]))) /\ slug' = slug
          BY <1>n, <2>s, <2>2, <4>2, ChildStartsEffect
        <5>2. QED
          BY <5>1 DEF StartedIn
      <4>3. QED
        BY <4>1, <4>2
    <3>2. ChildStarted(r)
      BY <1>4, <2>2, <3>1 DEF ClaimChild, ChildStarted, Unplanned, history
    <3>3. QED
      BY <3>2 DEF CalmStep
  <2>3. QED
    BY <1>4, <2>1, <2>2 DEF ClaimChild, ChildUnknown, Unplanned, rowVars, history
<1>5. ASSUME NEW s \in Agents, SpawnAgent(s) PROVE CalmStep
  <2>1. PICK r \in Rows : StartedIn(r)
    BY <1>n, <1>5, ChildStartsEffect DEF SpawnAgent
  <2>2. ChildStarted(r)
    BY <1>5, <2>1 DEF SpawnAgent, ChildStarted, Unplanned, history
  <2>3. QED
    BY <2>2 DEF CalmStep
<1>6. ASSUME NEW r \in Ends, FinishChild(r) PROVE CalmStep
  BY <1>6 DEF CalmStep
<1>7. ASSUME NEW v \in StepResult, CheckChild(v) PROVE CalmStep
  BY <1>7 DEF CalmStep
<1>8. CASE ResetChild
  BY <1>8 DEF CalmStep
<1>9. ASSUME NEW r \in Ends, FinishMaster(r) PROVE CalmStep
  BY <1>9 DEF CalmStep
<1>10. CASE StopSession
  <2>1. Quiet
    BY <1>n, <1>10 DEF StopSession, Quiet, rowVars, history, TypeOK
  <2>2. QED
    BY <2>1 DEF CalmStep
<1>11. CASE StopNodes
  BY <1>11 DEF CalmStep
<1>12. CASE PlanStatementFails
  BY <1>f, <1>12 DEF PlanStatementFails
<1>13. CASE Crash
  BY <1>f, <1>13 DEF Crash
<1>14. ASSUME NEW n \in Nodes, NEW r \in Ends, RunSweptChild(n, r) PROVE CalmStep
  BY <1>i, <1>14 DEF RunSweptChild, RowsOwned, PlanOwnsRow, RunningIsOwned
<1>15. ASSUME NEW n \in Nodes, CountSettled(n) PROVE CalmStep
  <2>1. Quiet
    BY <1>n, <1>15 DEF CountSettled, Quiet, rowVars, history, TypeOK
  <2>2. QED
    BY <2>1 DEF CalmStep
<1>16. ASSUME NEW n \in Nodes, Complete(n) PROVE CalmStep
  <2>1. Quiet
    BY <1>n, <1>16 DEF Complete, Quiet, rowVars, history, TypeOK
  <2>2. QED
    BY <2>1 DEF CalmStep
<1>17. ASSUME NEW n \in Nodes, GrowOld(n) PROVE CalmStep
  <2>1. Quiet
    BY <1>n, <1>17 DEF GrowOld, Quiet, rowVars, history, TypeOK
  <2>2. QED
    BY <2>1 DEF CalmStep
<1>18. ASSUME NEW n \in Nodes, TaskStatementFails(n) PROVE CalmStep
  BY <1>f, <1>18 DEF TaskStatementFails
<1>19. ASSUME NEW c \in Replies, RouteReply(c) PROVE CalmStep
  BY <1>19 DEF CalmStep
<1>20. ASSUME NEW c \in Replies, MarkRunning(c) PROVE CalmStep
  <2>1. MarkPaused(c)
    BY <1>20 DEF MarkRunning, MarkPaused, Undisturbed
  <2>2. QED
    BY <2>1 DEF CalmStep
<1>21. ASSUME NEW c \in Replies, NEW r \in Ends, PersistReply(c, r) PROVE CalmStep
  BY <1>21 DEF CalmStep
<1>22. ASSUME NEW c \in Replies, CountPaused(c) PROVE CalmStep
  <2>1. ReplyMoves(c, IF PausedChildren = {} THEN "finish" ELSE "count")
    BY <1>22 DEF CountPaused, ReplyMoves, Here, rowVars, history
  <2>2. QED
    BY <2>1 DEF CalmStep, ReplyState
<1>23. ASSUME NEW c \in Replies, FinishParent(c) PROVE CalmStep
  <2>1. FinishPaused(c)
    BY <1>23 DEF FinishParent, FinishPaused, Undisturbed
  <2>2. QED
    BY <2>1 DEF CalmStep
<1>24. ASSUME NEW c \in Replies, CountAfterReply(c) PROVE CalmStep
  <2>1. ReplyMoves(c, IF AllSettled THEN "complete" ELSE "none")
    BY <1>24 DEF CountAfterReply, ReplyMoves, Here, rowVars, history
  <2>2. QED
    BY <2>1 DEF CalmStep, ReplyState
<1>25. ASSUME NEW c \in Replies, CompleteAfterReply(c) PROVE CalmStep
  <2>1. ReplyMoves(c, "none")
    BY <1>25 DEF CompleteAfterReply, ReplyMoves, Here, rowVars, history
  <2>2. QED
    BY <2>1 DEF CalmStep, ReplyState
<1>26. ASSUME NEW c \in Replies, ReplyStatementFails(c) PROVE CalmStep
  BY <1>f, <1>26 DEF ReplyStatementFails
<1>27. ASSUME NEW c \in Replies, NEW n \in Nodes, CheckReply(c, n) PROVE CalmStep
  BY <1>27 DEF CalmStep
<1>28. CASE UNCHANGED vars
  <2>1. Quiet
    BY <1>28 DEF Quiet, vars, rowVars, history
  <2>2. QED
    BY <2>1 DEF CalmStep
<1>29. QED
  BY <1>1, <1>2, <1>3, <1>4, <1>5, <1>6, <1>7, <1>8, <1>9, <1>10, <1>11,
     <1>12, <1>13, <1>14, <1>15, <1>16, <1>17, <1>18, <1>19, <1>20, <1>21, <1>22,
     <1>23, <1>24, <1>25, <1>26, <1>27, <1>28
     DEF Next, WorkerPoll, PlanStep, RowTask, ReplyStep

-----------------------------------------------------------------------------
(* What these steps write.                                                 *)

\* One row is written.
Writes(n, x) == n \in Nodes /\ status'[n] = x /\ \A m \in Nodes \ {n} : status'[m] = status[m]

\* A step of reply c leaves the others and the plan alone.
ReplyAlone(c) ==
  /\ \A e \in Replies \ {c} :
       replyAt'[e] = replyAt[e] /\ target'[e] = target[e] /\ sentTo'[e] = sentTo[e]
  /\ UNCHANGED <<slug, task, planVars>>

\* The call is where it was sent and answered from, or it is over.
OverOrSame(c) ==
  IF replyAt'[c] = "none" THEN target'[c] = Master /\ sentTo'[c] = Master
  ELSE target'[c] = target[c] /\ sentTo'[c] = sentTo[c]

LEMMA FinishChildEffect ==
  ASSUME TypeOK, OwnRows, NEW r \in Ends, FinishChild(r)
  PROVE  Writes(row, r) /\ row \in Rows
BY RowEndsEffect, NodeFacts DEF FinishChild, OwnRows, Writes

LEMMA FinishMasterEffect ==
  ASSUME TypeOK, NEW r \in Ends, FinishMaster(r)
  PROVE  /\ Writes(Master, r) /\ task'[Master] # "run" /\ \A n \in Rows : task'[n] = task[n]
BY RowEndsEffect, NodeFacts DEF FinishMaster, Writes, TypeOK

LEMMA ResetChildEffect ==
  ASSUME TypeOK, row \in Rows, ResetChild
  PROVE  Writes(row, "preview")
BY NodeFacts DEF ResetChild, Writes, TypeOK

LEMMA RouteReplyEffect ==
  ASSUME TypeOK, NEW c \in Replies, RouteReply(c)
  PROVE  /\ ReplyAlone(c) /\ status' = status
         /\ replyAt[c] = "route" /\ replyAt'[c] = "mark" /\ sentTo'[c] = sentTo[c]
<1>1. PICK n : target' = [target EXCEPT ![c] = n]
  BY DEF RouteReply
<1>2. QED
  BY <1>1 DEF RouteReply, ReplyAlone, Here, TypeOK

LEMMA MarkPausedEffect ==
  ASSUME TypeOK, NEW c \in Replies, MarkPaused(c)
  PROVE  /\ Writes(target[c], "running") /\ status[target[c]] = "awaiting_reply"
         /\ ReplyAlone(c) /\ OverOrSame(c)
         /\ replyAt[c] = "mark" /\ replyAt'[c] = "run"
<1>1. replyAt'[c] = "run" /\ OverOrSame(c) /\ \A e \in Replies \ {c} :
        replyAt'[e] = replyAt[e] /\ target'[e] = target[e] /\ sentTo'[e] = sentTo[e]
  BY GoesEffect DEF MarkPaused, MarkRunning, OverOrSame, ReplyState
<1>2. Writes(target[c], "running") /\ UNCHANGED <<slug, task, planVars>>
  BY DEF MarkPaused, MarkRunning, Writes, Here, TypeOK
<1>3. QED
  BY <1>1, <1>2 DEF MarkPaused, MarkRunning, ReplyAlone

LEMMA PersistReplyEffect ==
  ASSUME TypeOK, NEW c \in Replies, NEW r \in Ends, PersistReply(c, r)
  PROVE  /\ Writes(target[c], r) /\ ReplyAlone(c) /\ OverOrSame(c)
         /\ replyAt[c] = "run" /\ replyAt'[c] = AfterReply(c, r)
<1>1. Writes(target[c], r) /\ UNCHANGED <<slug, task, planVars>>
  BY DEF PersistReply, Writes, Here, TypeOK
<1>2. CASE r = "awaiting_reply"
  <2>1. replyAt'[c] = "none" /\ OverOrSame(c) /\ \A e \in Replies \ {c} :
          replyAt'[e] = replyAt[e] /\ target'[e] = target[e] /\ sentTo'[e] = sentTo[e]
    BY <1>2, GoesEffect DEF PersistReply, OverOrSame, ReplyState
  <2>2. QED
    BY <1>1, <1>2, <2>1 DEF PersistReply, ReplyAlone, AfterReply
<1>3. CASE r # "awaiting_reply"
  <2>1. /\ replyAt' = [replyAt EXCEPT ![c] = AfterReply(c, r)] /\ replyAt[c] = "run"
        /\ UNCHANGED <<target, sentTo>>
    BY <1>3 DEF PersistReply
  <2>2. AfterReply(c, r) # "none"
    BY <1>3 DEF AfterReply
  <2>3. QED
    BY <1>1, <2>1, <2>2 DEF ReplyAlone, OverOrSame, TypeOK
<1>4. QED
  BY <1>2, <1>3

LEMMA ReplyMovesEffect ==
  ASSUME TypeOK, NEW c \in Replies, NEW w \in ReplyState, ReplyMoves(c, w)
  PROVE  ReplyAlone(c) /\ OverOrSame(c) /\ replyAt'[c] = w
BY GoesEffect DEF ReplyMoves, ReplyAlone, OverOrSame

LEMMA FinishPausedEffect ==
  ASSUME TypeOK, NEW c \in Replies, FinishPaused(c)
  PROVE  /\ Writes(Master, answer[c]) /\ status[Master] = "awaiting_reply"
         /\ ReplyAlone(c) /\ OverOrSame(c)
         /\ replyAt[c] = "finish" /\ replyAt'[c] = "count"
<1>1. replyAt'[c] = "count" /\ OverOrSame(c) /\ \A e \in Replies \ {c} :
        replyAt'[e] = replyAt[e] /\ target'[e] = target[e] /\ sentTo'[e] = sentTo[e]
  BY GoesEffect DEF FinishPaused, FinishParent, OverOrSame, ReplyState
<1>2. Writes(Master, answer[c]) /\ UNCHANGED <<slug, task, planVars>>
  BY NodeFacts DEF FinishPaused, FinishParent, Writes, Here, TypeOK
<1>3. QED
  BY <1>1, <1>2 DEF FinishPaused, FinishParent, ReplyAlone

LEMMA CheckReplyEffect ==
  ASSUME TypeOK, NEW c \in Replies, NEW n \in Nodes, CheckReply(c, n)
  PROVE  /\ ReplyAlone(c) /\ status' = status
         /\ replyAt[c] = "unsent" /\ replyAt'[c] \in {"none", "route", "mark"}
         /\ IF replyAt'[c] = "none" THEN target'[c] = Master /\ sentTo'[c] = Master
            ELSE target'[c] = n /\ sentTo'[c] = n /\ (n # Master => direct')
         /\ replyAt'[c] = "route" => status[n] = "awaiting_reply"
<1>1. replyAt[c] = "unsent" /\ status' = status /\ UNCHANGED <<slug, task, planVars>>
  BY DEF CheckReply, Here
<1>2. CASE Goes(c, "none")
  BY <1>1, <1>2, GoesEffect DEF ReplyAlone, ReplyState
<1>3. CASE ~Goes(c, "none")
  <2>1. /\ replyAt' = [replyAt EXCEPT ![c] = IF status[n] = "awaiting_reply" THEN "route" ELSE "mark"]
        /\ sentTo' = [sentTo EXCEPT ![c] = n]
        /\ target' = [target EXCEPT ![c] = n]
        /\ n # Master => direct'
    BY <1>3 DEF CheckReply
  <2>2. QED
    BY <1>1, <2>1 DEF ReplyAlone, TypeOK
<1>4. QED
  BY <1>2, <1>3

-----------------------------------------------------------------------------
(* Whose a running row is.                                                 *)

LEMMA RowsOwnedKept ==
  ASSUME TypeOK, TypeOK', OwnRows, RowsOwned, CalmStep
  PROVE  RowsOwned'
<1> USE NodeFacts
<1>t. /\ target \in [Replies -> Nodes] /\ row \in Rows \cup {NoRow}
      /\ status \in [Nodes -> RowStatus] /\ task \in [Nodes -> {"none", "run", "count", "complete"}]
      /\ at = "run" => row \in Rows
  BY DEF TypeOK, OwnRows
<1>1. CASE Quiet
  BY <1>t, <1>1
     DEF Quiet, planVars, replyVars, RowsOwned, PlanOwnsRow, ReplyOwnsRow, RunningIsOwned, ReplyOn
<1>2. CASE MasterStarts
  BY <1>t, <1>2
     DEF MasterStarts, replyVars, RowsOwned, PlanOwnsRow, ReplyOwnsRow, RunningIsOwned, ReplyOn
<1>3. CASE LoadPlan
  <2>1. at = "load" /\ at' \in {"claim", "free"} /\ UNCHANGED <<status, task, row, result, replyVars>>
    BY <1>3 DEF LoadPlan, Unplanned, rowVars
  <2>2. QED
    BY <1>t, <2>1 DEF replyVars, RowsOwned, PlanOwnsRow, ReplyOwnsRow, RunningIsOwned, ReplyOn
<1>4. ASSUME NEW r \in Rows, ChildStarted(r) PROVE RowsOwned'
  BY <1>t, <1>4
     DEF ChildStarted, StartedIn, replyVars, RowsOwned, PlanOwnsRow, ReplyOwnsRow, RunningIsOwned, ReplyOn
<1>5. CASE ChildUnknown
  BY <1>t, <1>5
     DEF ChildUnknown, replyVars, RowsOwned, PlanOwnsRow, ReplyOwnsRow, RunningIsOwned, ReplyOn
<1>6. ASSUME NEW r \in Ends, FinishChild(r) PROVE RowsOwned'
  <2>1. Writes(row, r) /\ row \in Rows
    BY <1>6, FinishChildEffect
  <2>2. at = "run" /\ at' = "check" /\ result' = r /\ UNCHANGED <<task, row, replyVars>>
    BY <1>6 DEF FinishChild, Unplanned
  <2>3. QED
    BY <1>t, <2>1, <2>2
       DEF Writes, Ends, replyVars, RowsOwned, PlanOwnsRow, ReplyOwnsRow, RunningIsOwned, ReplyOn
<1>7. ASSUME NEW v \in StepResult, CheckChild(v) PROVE RowsOwned'
  <2>1. at = "check" /\ UNCHANGED <<status, task, row, result, replyVars>>
    BY <1>7 DEF CheckChild, Record, Unplanned, rowVars
  <2>2. at' \in {"free", "reset", "claim", "close"} /\ (at' = "reset" => result \in {"passed", "failed"})
    BY <1>7 DEF CheckChild, Record, Verdicts
  <2>3. QED
    BY <1>t, <2>1, <2>2
       DEF replyVars, RowsOwned, PlanOwnsRow, ReplyOwnsRow, RunningIsOwned, ReplyOn
<1>8. CASE ResetChild
  <2>1. row \in Rows /\ status[row] \in {"passed", "failed"}
    BY <1>8 DEF ResetChild, RowsOwned, PlanOwnsRow
  <2>2. Writes(row, "preview")
    BY <1>8, <2>1, ResetChildEffect
  <2>3. at = "reset" /\ at' = "claim" /\ UNCHANGED <<task, replyVars>>
    BY <1>8 DEF ResetChild, Unplanned
  <2>4. QED
    BY <1>t, <2>1, <2>2, <2>3
       DEF Writes, replyVars, RowsOwned, PlanOwnsRow, ReplyOwnsRow, RunningIsOwned, ReplyOn
<1>9. ASSUME NEW r \in Ends, FinishMaster(r) PROVE RowsOwned'
  <2>1. Writes(Master, r) /\ task'[Master] # "run" /\ \A n \in Rows : task'[n] = task[n]
    BY <1>9, FinishMasterEffect
  <2>2. at \in {"load", "close", "free"} /\ at' = "none" /\ UNCHANGED replyVars
    BY <1>9 DEF FinishMaster
  <2>3. QED
    BY <1>t, <2>1, <2>2
       DEF Writes, Ends, replyVars, RowsOwned, PlanOwnsRow, ReplyOwnsRow, RunningIsOwned, ReplyOn
<1>10. CASE StopNodes
  <2>1. UNCHANGED <<task, planVars, replyVars>> /\ \A n \in Nodes :
          status'[n] = IF status[n] \in {"ready", "preview"} THEN "cancelled" ELSE status[n]
    BY <1>10 DEF StopNodes
  <2>2. QED
    BY <1>t, <2>1
       DEF planVars, replyVars, RowsOwned, PlanOwnsRow, ReplyOwnsRow, RunningIsOwned, ReplyOn
<1>11. ASSUME NEW c \in Replies, RouteReply(c) PROVE RowsOwned'
  <2>1. ReplyAlone(c) /\ status' = status /\ replyAt[c] # "run" /\ replyAt'[c] # "run"
    BY <1>11, RouteReplyEffect
  <2>2. QED
    BY <1>t, <2>1
       DEF ReplyAlone, planVars, RowsOwned, PlanOwnsRow, ReplyOwnsRow, RunningIsOwned, ReplyOn
<1>12. ASSUME NEW c \in Replies, MarkPaused(c) PROVE RowsOwned'
  <2>1. /\ Writes(target[c], "running") /\ status[target[c]] = "awaiting_reply"
        /\ ReplyAlone(c) /\ target'[c] = target[c] /\ replyAt[c] = "mark" /\ replyAt'[c] = "run"
    BY <1>12, MarkPausedEffect DEF OverOrSame
  <2>2. PlanOwnsRow'
    BY <1>t, <2>1 DEF Writes, ReplyAlone, planVars, RowsOwned, PlanOwnsRow, ReplyOwnsRow
  <2>3. ReplyOwnsRow'
    BY <1>t, <2>1 DEF Writes, ReplyAlone, planVars, RowsOwned, PlanOwnsRow, ReplyOwnsRow
  <2>4. RunningIsOwned'
    BY <1>t, <2>1
       DEF Writes, ReplyAlone, planVars, RowsOwned, RunningIsOwned, ReplyOwnsRow, ReplyOn
  <2>5. QED
    BY <2>2, <2>3, <2>4 DEF RowsOwned
<1>13. ASSUME NEW c \in Replies, NEW r \in Ends, PersistReply(c, r) PROVE RowsOwned'
  <2>1. Writes(target[c], r) /\ ReplyAlone(c) /\ replyAt[c] = "run" /\ replyAt'[c] # "run"
    BY <1>13, PersistReplyEffect DEF AfterReply
  <2>2. PlanOwnsRow'
    BY <1>t, <2>1 DEF Writes, Ends, ReplyAlone, planVars, RowsOwned, PlanOwnsRow, ReplyOwnsRow
  <2>3. ReplyOwnsRow'
    BY <1>t, <2>1 DEF Writes, Ends, ReplyAlone, planVars, RowsOwned, PlanOwnsRow, ReplyOwnsRow
  <2>4. RunningIsOwned'
    BY <1>t, <2>1
       DEF Writes, Ends, ReplyAlone, planVars, RowsOwned, RunningIsOwned, ReplyOwnsRow, ReplyOn
  <2>5. QED
    BY <2>2, <2>3, <2>4 DEF RowsOwned
<1>14. ASSUME NEW c \in Replies, NEW w \in ReplyState, ReplyMoves(c, w) PROVE RowsOwned'
  <2>1. ReplyAlone(c) /\ status' = status /\ replyAt[c] # "run" /\ replyAt'[c] # "run"
    BY <1>14, ReplyMovesEffect DEF ReplyMoves
  <2>2. QED
    BY <1>t, <2>1
       DEF ReplyAlone, planVars, RowsOwned, PlanOwnsRow, ReplyOwnsRow, RunningIsOwned, ReplyOn
<1>15. ASSUME NEW c \in Replies, FinishPaused(c) PROVE RowsOwned'
  <2>1. /\ Writes(Master, answer[c]) /\ status[Master] = "awaiting_reply" /\ answer[c] \in Ends
        /\ ReplyAlone(c) /\ replyAt[c] = "finish" /\ replyAt'[c] = "count"
    BY <1>15, FinishPausedEffect DEF TypeOK
  <2>2. PlanOwnsRow'
    BY <1>t, <2>1 DEF Writes, Ends, ReplyAlone, planVars, RowsOwned, PlanOwnsRow, ReplyOwnsRow
  <2>3. ReplyOwnsRow'
    BY <1>t, <2>1 DEF Writes, Ends, ReplyAlone, planVars, RowsOwned, PlanOwnsRow, ReplyOwnsRow
  <2>4. RunningIsOwned'
    BY <1>t, <2>1
       DEF Writes, Ends, ReplyAlone, planVars, RowsOwned, RunningIsOwned, ReplyOwnsRow, ReplyOn
  <2>5. QED
    BY <2>2, <2>3, <2>4 DEF RowsOwned
<1>16. ASSUME NEW c \in Replies, NEW n \in Nodes, CheckReply(c, n) PROVE RowsOwned'
  <2>1. ReplyAlone(c) /\ status' = status /\ replyAt[c] # "run" /\ replyAt'[c] # "run"
    BY <1>16, CheckReplyEffect
  <2>2. QED
    BY <1>t, <2>1
       DEF ReplyAlone, planVars, RowsOwned, PlanOwnsRow, ReplyOwnsRow, RunningIsOwned, ReplyOn
<1>17. QED
  BY <1>1, <1>2, <1>3, <1>4, <1>5, <1>6, <1>7, <1>8, <1>9, <1>10, <1>11,
     <1>12, <1>13, <1>14, <1>15, <1>16 DEF CalmStep

-----------------------------------------------------------------------------
(* The steps of the plan, counted.                                         *)

LEMMA StepsCountedKept ==
  ASSUME TypeOK, TypeOK', OwnRows, RowsOwned, StepsCounted, CalmStep
  PROVE  StepsCounted'
<1> DEFINE PreviewRows == {n \in Rows : status[n] = "preview"}
<1> USE NodeFacts
<1>t. /\ row \in Rows \cup {NoRow} /\ todo \subseteq Rows /\ \A c \in Replies : target[c] \in Nodes
      /\ at \in {"claim", "reset"} => todo # {}
      /\ at = "run" => row \in Rows /\ status[row] = "running"
      /\ at # "none" => status[Master] = "running"
  BY DEF TypeOK, OwnRows, RowsOwned, PlanOwnsRow
<1>s. todo # {} => Step \in todo
  BY <1>t, LeastRow DEF Step
\* A step that leaves the plan, writes no preview and no passed row.
<1>w. ASSUME UNCHANGED planVars, NEW n \in Nodes, NEW x, Writes(n, x),
             x \notin {"preview", "ready"}, status[n] \notin {"preview", "passed", "ready"}
      PROVE  StepsCounted'
  <2>1. PreviewRows' = PreviewRows
    BY <1>w DEF Writes
  <2>2. status'[Master] = "ready" => status[Master] = "ready"
    BY <1>w DEF Writes
  <2>3. \A m \in Rows : status[m] = "passed" => status'[m] = "passed"
    BY <1>w DEF Writes
  <2>4. UNCHANGED <<at, todo, got>>
    BY <1>w DEF planVars
  <2>5. QED
    BY <2>1, <2>2, <2>3, <2>4 DEF StepsCounted
<1>k. ASSUME UNCHANGED <<status, planVars>> PROVE StepsCounted'
  BY <1>k DEF StepsCounted, planVars
<1>1. CASE Quiet
  BY <1>k, <1>1 DEF Quiet
<1>2. CASE MasterStarts
  <2>1. PreviewRows' = PreviewRows /\ \A n \in Rows : status'[n] = status[n]
    BY <1>2 DEF MasterStarts
  <2>2. at = "none" /\ at' = "load" /\ status[Master] = "ready" /\ UNCHANGED <<todo, got>>
    BY <1>2 DEF MasterStarts
  <2>3. QED
    BY <2>1, <2>2 DEF StepsCounted
<1>3. CASE LoadPlan
  <2>1. at = "load" /\ todo' = PreviewRows /\ at' = (IF todo' = {} THEN "free" ELSE "claim")
        /\ UNCHANGED <<status, got>>
    BY <1>3 DEF LoadPlan, rowVars
  <2>2. DOMAIN got = {} /\ PreviewRows \in {{}, 1..Planned}
    BY <2>1 DEF StepsCounted
  <2>3. status'[Master] # "ready"
    BY <1>t, <2>1
  <2>4. QED
    BY <2>1, <2>2, <2>3 DEF StepsCounted
<1>4. ASSUME NEW r \in Rows, ChildStarted(r) PROVE StepsCounted'
  <2>1. at \in {"claim", "free"} /\ at' = "run" /\ UNCHANGED <<todo, got>> /\ status'[Master] # "ready"
        /\ \A n \in Rows : status[n] = "passed" => status'[n] = "passed"
    BY <1>t, <1>4 DEF ChildStarted, StartedIn
  <2>2. QED
    BY <2>1 DEF StepsCounted
<1>5. CASE ChildUnknown
  <2>1. at = "claim" /\ at' = "check" /\ UNCHANGED <<status, todo, got>>
    BY <1>5 DEF ChildUnknown
  <2>2. QED
    BY <1>t, <2>1 DEF StepsCounted
<1>6. ASSUME NEW r \in Ends, FinishChild(r) PROVE StepsCounted'
  <2>1. at = "run" /\ at' = "check" /\ UNCHANGED <<todo, got>>
    BY <1>6 DEF FinishChild
  <2>2. Writes(row, r)
    BY <1>6, FinishChildEffect
  <2>3. \A n \in Rows : status[n] = "passed" => status'[n] = "passed"
    BY <1>t, <2>1, <2>2 DEF Writes
  <2>4. status'[Master] # "ready"
    BY <1>t, <2>1, <2>2 DEF Writes
  <2>5. QED
    BY <2>1, <2>3, <2>4 DEF StepsCounted
<1>7. ASSUME NEW v \in StepResult, CheckChild(v) PROVE StepsCounted'
  <2>1. at = "check" /\ status' = status /\ status[Master] = "running"
    BY <1>t, <1>7 DEF CheckChild, rowVars
  <2>2. CASE \/ todo = {} /\ at' = "free" /\ UNCHANGED <<todo, got>>
             \/ at' = "reset" /\ UNCHANGED <<todo, got>>
    BY <2>1, <2>2 DEF StepsCounted
  <2>3. CASE todo # {} /\ v \in Verdicts /\ Record(v)
    <3>1. DOMAIN got' = DOMAIN got \cup {Step} /\ todo' = todo \ {Step}
          /\ at' = (IF todo' = {} THEN "close" ELSE "claim")
      BY <2>3 DEF Record
    <3>2. DOMAIN got' \cup todo' = 1..Planned
      BY <1>s, <2>3, <3>1 DEF StepsCounted
    <3>3. v = "passed" => row \in Rows /\ status[row] = "passed"
      <4>1. v = "passed" => result = "passed"
        BY <2>3 DEF Verdicts
      <4>2. QED
        BY <2>1, <4>1 DEF RowsOwned, PlanOwnsRow
    <3>4. \A n \in DOMAIN got' : got'[n].is = "passed" => got'[n].row \in Rows /\ status'[got'[n].row] = "passed"
      <4>1. \A n \in DOMAIN got' : got'[n] = IF n = Step THEN [row |-> row, is |-> v] ELSE got[n]
        BY <2>3 DEF Record
      <4>2. QED
        BY <2>1, <3>1, <3>3, <4>1 DEF StepsCounted
    <3>5. QED
      BY <2>1, <3>1, <3>2, <3>4 DEF StepsCounted
  <2>4. QED
    BY <1>7, <2>2, <2>3 DEF CheckChild
<1>8. CASE ResetChild
  <2>1. at = "reset" /\ at' = "claim" /\ UNCHANGED <<todo, got>> /\ row \in Rows
    BY <1>8 DEF ResetChild, RowsOwned, PlanOwnsRow
  <2>2. Writes(row, "preview")
    BY <1>8, <2>1, ResetChildEffect
  <2>3. \A n \in DOMAIN got : got[n].row # row
    BY <2>1 DEF OwnRows, Taken
  <2>4. \A n \in DOMAIN got : got[n].is = "passed" => got[n].row \in Rows /\ status'[got[n].row] = "passed"
    BY <2>2, <2>3 DEF StepsCounted, Writes
  <2>5. status'[Master] # "ready"
    BY <1>t, <2>1, <2>2 DEF Writes
  <2>6. QED
    BY <1>t, <2>1, <2>4, <2>5 DEF StepsCounted
<1>9. ASSUME NEW r \in Ends, FinishMaster(r) PROVE StepsCounted'
  <2>1. at \in {"load", "close", "free"} /\ at' = "none" /\ todo' = todo /\ DOMAIN got' = {}
    BY <1>9 DEF FinishMaster
  <2>2. status'[Master] # "ready"
    BY <1>9, FinishMasterEffect DEF Writes, Ends
  <2>3. QED
    BY <2>1, <2>2 DEF StepsCounted
<1>10. CASE StopNodes
  <2>1. UNCHANGED <<at, todo, got>> /\ \A n \in Nodes :
          status'[n] = IF status[n] \in {"ready", "preview"} THEN "cancelled" ELSE status[n]
    BY <1>10 DEF StopNodes, planVars
  <2>2. PreviewRows' = {}
    BY <2>1
  <2>3. \A n \in Rows : status[n] = "passed" => status'[n] = "passed"
    BY <2>1
  <2>4. QED
    BY <2>1, <2>2, <2>3 DEF StepsCounted
<1>11. ASSUME NEW c \in Replies, RouteReply(c) PROVE StepsCounted'
  BY <1>k, <1>11, RouteReplyEffect DEF ReplyAlone
<1>12. ASSUME NEW c \in Replies, MarkPaused(c) PROVE StepsCounted'
  BY <1>t, <1>w, <1>12, MarkPausedEffect DEF ReplyAlone
<1>13. ASSUME NEW c \in Replies, NEW r \in Ends, PersistReply(c, r) PROVE StepsCounted'
  <2>1. status[target[c]] = "running"
    BY <1>13, PersistReplyEffect DEF RowsOwned, ReplyOwnsRow
  <2>2. QED
    BY <1>t, <1>w, <1>13, <2>1, PersistReplyEffect DEF ReplyAlone, Ends
<1>14. ASSUME NEW c \in Replies, NEW w \in ReplyState, ReplyMoves(c, w) PROVE StepsCounted'
  BY <1>k, <1>14 DEF ReplyMoves
<1>15. ASSUME NEW c \in Replies, FinishPaused(c) PROVE StepsCounted'
  <2>1. answer[c] \in Ends
    BY DEF TypeOK
  <2>2. QED
    BY <1>w, <1>15, <2>1, FinishPausedEffect DEF ReplyAlone, Ends
<1>16. ASSUME NEW c \in Replies, NEW n \in Nodes, CheckReply(c, n) PROVE StepsCounted'
  BY <1>k, <1>16, CheckReplyEffect DEF ReplyAlone
<1>17. QED
  BY <1>1, <1>2, <1>3, <1>4, <1>5, <1>6, <1>7, <1>8, <1>9, <1>10, <1>11,
     <1>12, <1>13, <1>14, <1>15, <1>16 DEF CalmStep

-----------------------------------------------------------------------------
(* No row was cancelled: every step in its own row.                        *)

\* The rows that are written are not cancelled ones, and the stop cancels
\* every row that is ready or a preview.
LEMMA NoneWasCancelled ==
  ASSUME TypeOK, OwnRows, RowsOwned, CalmStep, NoneCancelled'
  PROVE  NoneCancelled /\ (StopNodes => status' = status)
<1>g. (\A n \in Nodes : status[n] = "cancelled" => status'[n] = "cancelled") => NoneCancelled
  BY DEF NoneCancelled, WithStatus
<1>w. ASSUME NEW n \in Nodes, NEW x, Writes(n, x), status[n] # "cancelled" PROVE NoneCancelled
  BY <1>g, <1>w DEF Writes
<1>k. status' = status => NoneCancelled
  BY <1>g
<1>x. at # "none" => status[Master] = "running"
  BY DEF RowsOwned, PlanOwnsRow
<1>s. ASSUME StopNodes PROVE status' = status
  <2>1. status' = [n \in Nodes |-> IF status[n] \in {"ready", "preview"} THEN "cancelled" ELSE status[n]]
    BY <1>s DEF StopNodes
  <2>2. \A n \in Nodes : status[n] \notin {"ready", "preview"}
    BY <2>1 DEF NoneCancelled, WithStatus
  <2>3. QED
    BY <2>1, <2>2 DEF TypeOK
<1> SUFFICES NoneCancelled
  BY <1>s
<1> USE NodeFacts
<1>1. CASE Quiet
  BY <1>k, <1>1 DEF Quiet, rowVars
<1>2. CASE MasterStarts
  BY <1>g, <1>2 DEF MasterStarts
<1>3. CASE LoadPlan
  BY <1>k, <1>3 DEF LoadPlan, rowVars
<1>4. ASSUME NEW r \in Rows, ChildStarted(r) PROVE NoneCancelled
  BY <1>g, <1>4 DEF ChildStarted, StartedIn
<1>5. CASE ChildUnknown
  BY <1>k, <1>5 DEF ChildUnknown, rowVars
<1>6. ASSUME NEW r \in Ends, FinishChild(r) PROVE NoneCancelled
  <2>1. status[row] = "running"
    BY <1>6 DEF FinishChild, RowsOwned, PlanOwnsRow
  <2>2. QED
    BY <1>w, <1>6, <2>1, FinishChildEffect
<1>7. ASSUME NEW v \in StepResult, CheckChild(v) PROVE NoneCancelled
  BY <1>k, <1>7 DEF CheckChild, rowVars
<1>8. CASE ResetChild
  <2>1. row \in Rows /\ status[row] \in {"passed", "failed"}
    BY <1>8 DEF ResetChild, RowsOwned, PlanOwnsRow
  <2>2. QED
    BY <1>w, <1>8, <2>1, ResetChildEffect
<1>9. ASSUME NEW r \in Ends, FinishMaster(r) PROVE NoneCancelled
  <2>1. status[Master] = "running"
    BY <1>x, <1>9 DEF FinishMaster
  <2>2. QED
    BY <1>w, <1>9, <2>1, FinishMasterEffect
<1>10. CASE StopNodes
  BY <1>k, <1>s, <1>10
<1>11. ASSUME NEW c \in Replies, RouteReply(c) PROVE NoneCancelled
  BY <1>k, <1>11, RouteReplyEffect
<1>12. ASSUME NEW c \in Replies, MarkPaused(c) PROVE NoneCancelled
  BY <1>w, <1>12, MarkPausedEffect DEF TypeOK
<1>13. ASSUME NEW c \in Replies, NEW r \in Ends, PersistReply(c, r) PROVE NoneCancelled
  <2>1. status[target[c]] = "running"
    BY <1>13, PersistReplyEffect DEF RowsOwned, ReplyOwnsRow
  <2>2. QED
    BY <1>w, <1>13, <2>1, PersistReplyEffect DEF TypeOK
<1>14. ASSUME NEW c \in Replies, NEW w \in ReplyState, ReplyMoves(c, w) PROVE NoneCancelled
  BY <1>k, <1>14 DEF ReplyMoves, rowVars
<1>15. ASSUME NEW c \in Replies, FinishPaused(c) PROVE NoneCancelled
  BY <1>w, <1>15, FinishPausedEffect
<1>16. ASSUME NEW c \in Replies, NEW n \in Nodes, CheckReply(c, n) PROVE NoneCancelled
  BY <1>k, <1>16, CheckReplyEffect
<1>17. QED
  BY <1>1, <1>2, <1>3, <1>4, <1>5, <1>6, <1>7, <1>8, <1>9, <1>10, <1>11,
     <1>12, <1>13, <1>14, <1>15, <1>16 DEF CalmStep

LEMMA StepsInTheirRowsKept ==
  ASSUME TypeOK, TypeOK', OwnRows, RowsOwned, StepsCounted, StepsInTheirRows, CalmStep,
         NoneCancelled'
  PROVE  StepsInTheirRows'
<1> USE NodeFacts
<1>t. /\ row \in Rows \cup {NoRow} /\ todo \subseteq Rows /\ \A c \in Replies : target[c] \in Nodes
      /\ at \in {"claim", "reset"} => todo # {}
      /\ at = "run" => row \in Rows /\ status[row] = "running"
      /\ at # "none" => status[Master] = "running"
  BY DEF TypeOK, OwnRows, RowsOwned, PlanOwnsRow
<1>s. todo # {} => Step \in todo /\ Step \in Rows /\ Step \in 1..Planned
  <2>1. todo # {} => Step \in todo
    BY <1>t, LeastRow DEF Step
  <2>2. QED
    BY <1>t, <2>1 DEF StepsCounted
<1>k. ASSUME UNCHANGED <<status, slug, planVars>> PROVE StepsInTheirRows'
  BY <1>k DEF StepsInTheirRows, planVars, Taken, PreviewsAre, Step
\* A step that leaves the plan and writes no preview and no absent row.
<1>w. ASSUME UNCHANGED <<slug, planVars>>, NEW n \in Nodes, NEW x, Writes(n, x),
             x \notin {"preview", "ready"}, status[n] \notin {"preview", "absent", "ready"}
      PROVE  StepsInTheirRows'
  <2>1. \A m \in Rows : /\ status'[m] = "preview" <=> status[m] = "preview"
                        /\ status[m] = "absent" => status'[m] = "absent"
    BY <1>w DEF Writes
  <2>2. status'[Master] = "ready" => status[Master] = "ready"
    BY <1>w DEF Writes
  <2>3. UNCHANGED <<at, todo, row, result, slug>>
    BY <1>w DEF planVars
  <2>4. /\ PreviewsAre(todo) => PreviewsAre(todo)'
        /\ PreviewsAre(todo \ {Step}) => PreviewsAre(todo \ {Step})'
    BY <2>1, <2>3 DEF PreviewsAre, Step
  <2>5. Taken' = Taken /\ Step' = Step
    BY <2>3 DEF Taken, Step
  <2>6. /\ \A m \in Rows : m > Planned => status'[m] = "absent"
        /\ at' # "free"
        /\ status'[Master] = "ready" \/ at' = "load" => \A m \in 1..Planned : status'[m] = "preview"
    BY <2>1, <2>2, <2>3 DEF StepsInTheirRows
  <2>7. QED
    BY <2>3, <2>4, <2>5, <2>6 DEF StepsInTheirRows
<1>1. CASE Quiet
  BY <1>k, <1>1 DEF Quiet
<1>2. CASE MasterStarts
  <2>1. at' = "load" /\ status[Master] = "ready" /\ \A n \in Rows : status'[n] = status[n]
    BY <1>2 DEF MasterStarts
  <2>2. QED
    BY <2>1 DEF StepsInTheirRows, Taken
<1>3. CASE LoadPlan
  <2>1. at = "load" /\ todo' = {n \in Rows : status[n] = "preview"} /\ UNCHANGED <<status, slug>>
        /\ at' = (IF todo' = {} THEN "free" ELSE "claim")
    BY <1>3 DEF LoadPlan, rowVars
  <2>2. todo' # {}
    BY <2>1 DEF StepsInTheirRows
  <2>3. PreviewsAre(todo)' /\ at' = "claim" /\ status'[Master] # "ready"
    BY <1>t, <2>1, <2>2 DEF PreviewsAre
  <2>4. QED
    BY <2>1, <2>3 DEF StepsInTheirRows, Taken
<1>4. ASSUME NEW r \in Rows, ChildStarted(r) PROVE StepsInTheirRows'
  <2>1. at = "claim" /\ slug[Step] \in Catalog /\ StartedIn(r) /\ at' = "run" /\ row' = r /\ UNCHANGED todo
    BY <1>4 DEF ChildStarted, StartedIn, StepsInTheirRows
  <2>2. PreviewsAre(todo) /\ Step \in todo /\ Step \in Rows /\ Step \in 1..Planned
    BY <1>s, <1>t, <2>1 DEF StepsInTheirRows
  <2>3. Step \in Previews(slug[Step])
    BY <2>1, <2>2 DEF PreviewsAre, Previews
  <2>4. r = Least(Previews(slug[Step])) /\ slug' = slug
    BY <1>4, <2>1, <2>3 DEF ChildStarted
  <2>5. Previews(slug[Step]) \subseteq todo
    BY <2>1, <2>2 DEF PreviewsAre, Previews
  <2>6. r = Step
    <3>1. r \in Previews(slug[Step]) /\ r <= Step
      <4>1. Previews(slug[Step]) \in SUBSET Rows
        BY DEF Previews
      <4>2. QED
        BY <2>3, <2>4, <4>1, LeastRow
    <3>2. Step <= r
      BY <1>t, <2>5, <3>1, LeastRow DEF Step
    <3>3. Step \in Nat /\ r \in Nat
      BY <2>2 DEF Rows
    <3>4. QED
      BY <3>1, <3>2, <3>3
  <2>7. PreviewsAre(todo \ {Step})' /\ Step' = Step
    BY <2>1, <2>2, <2>4, <2>6 DEF PreviewsAre, StartedIn, Step
  <2>8. /\ \A n \in Rows : n > Planned => status'[n] = "absent"
        /\ status'[Master] # "ready"
    BY <1>t, <2>1, <2>2, <2>6 DEF StepsInTheirRows, StartedIn
  <2>9. QED
    BY <2>1, <2>2, <2>6, <2>7, <2>8 DEF StepsInTheirRows
<1>5. CASE ChildUnknown
  <2>1. at = "claim" /\ slug[Step] \notin Catalog /\ at' = "check" /\ result' = "unknown"
        /\ UNCHANGED <<status, slug, todo>>
    BY <1>5 DEF ChildUnknown
  <2>2. PreviewsAre(todo) /\ Step \in todo /\ Step' = Step
    BY <1>s, <1>t, <2>1 DEF StepsInTheirRows, Step
  <2>3. PreviewsAre(todo \ {Step})'
    BY <2>1, <2>2 DEF PreviewsAre
  <2>4. QED
    BY <1>t, <2>1, <2>2, <2>3 DEF StepsInTheirRows
<1>6. ASSUME NEW r \in Ends, FinishChild(r) PROVE StepsInTheirRows'
  <2>1. at = "run" /\ at' = "check" /\ UNCHANGED <<slug, todo, row>> /\ Writes(row, r) /\ row \in Rows
    BY <1>6, FinishChildEffect DEF FinishChild
  <2>2. todo # {} /\ PreviewsAre(todo \ {Step}) /\ row = Step /\ Step' = Step
    BY <2>1 DEF StepsInTheirRows, Taken, Step
  <2>3. PreviewsAre(todo \ {Step})'
    BY <2>1, <2>2 DEF PreviewsAre, Writes, Ends
  <2>4. /\ \A n \in Rows : n > Planned => status'[n] = "absent"
        /\ status'[Master] # "ready"
    BY <1>s, <1>t, <2>1, <2>2 DEF StepsInTheirRows, Writes
  <2>5. QED
    BY <2>1, <2>2, <2>3, <2>4 DEF StepsInTheirRows
<1>7. ASSUME NEW v \in StepResult, CheckChild(v) PROVE StepsInTheirRows'
  <2>1. at = "check" /\ UNCHANGED <<status, slug>> /\ todo # {} /\ PreviewsAre(todo \ {Step})
        /\ status[Master] = "running"
    BY <1>t, <1>7 DEF CheckChild, rowVars, StepsInTheirRows, Taken
  <2>2. CASE at' = "reset" /\ "failed" \in Verdicts /\ UNCHANGED <<todo, row>>
    <3>1. result # "unknown"
      BY <2>2 DEF Verdicts
    <3>2. row = Step /\ Step' = Step
      BY <2>1, <2>2, <3>1 DEF StepsInTheirRows, Step
    <3>3. PreviewsAre(todo \ {Step})'
      BY <2>1, <2>2, <3>2 DEF PreviewsAre
    <3>4. QED
      BY <2>1, <2>2, <3>2, <3>3 DEF StepsInTheirRows
  <2>3. CASE Record(v)
    <3>1. todo' = todo \ {Step} /\ at' \in {"close", "claim"}
      BY <2>3 DEF Record
    <3>2. PreviewsAre(todo)'
      BY <2>1, <3>1 DEF PreviewsAre
    <3>3. QED
      BY <2>1, <3>1, <3>2 DEF StepsInTheirRows, Taken
  <2>4. QED
    BY <1>7, <2>1, <2>2, <2>3 DEF CheckChild
<1>8. CASE ResetChild
  <2>1. at = "reset" /\ at' = "claim" /\ UNCHANGED <<slug, todo>> /\ row = Step
        /\ PreviewsAre(todo \ {Step})
    BY <1>8 DEF ResetChild, StepsInTheirRows, Taken
  <2>2. Writes(Step, "preview") /\ Step \in todo /\ Step \in 1..Planned
    BY <1>8, <1>s, <1>t, <2>1, ResetChildEffect
  <2>3. PreviewsAre(todo)'
    BY <1>t, <2>1, <2>2 DEF PreviewsAre, Writes
  <2>4. /\ \A n \in Rows : n > Planned => status'[n] = "absent"
        /\ status'[Master] # "ready"
    BY <1>t, <2>1, <2>2 DEF StepsInTheirRows, Writes
  <2>5. QED
    BY <2>1, <2>3, <2>4 DEF StepsInTheirRows, Taken
<1>9. ASSUME NEW r \in Ends, FinishMaster(r) PROVE StepsInTheirRows'
  <2>1. at' = "none" /\ Writes(Master, r)
    BY <1>9, FinishMasterEffect DEF FinishMaster
  <2>2. QED
    BY <2>1 DEF StepsInTheirRows, Taken, Writes, Ends
<1>10. CASE StopNodes
  BY <1>k, <1>10, NoneWasCancelled DEF StopNodes
<1>11. ASSUME NEW c \in Replies, RouteReply(c) PROVE StepsInTheirRows'
  BY <1>k, <1>11, RouteReplyEffect DEF ReplyAlone
<1>12. ASSUME NEW c \in Replies, MarkPaused(c) PROVE StepsInTheirRows'
  BY <1>t, <1>w, <1>12, MarkPausedEffect DEF ReplyAlone
<1>13. ASSUME NEW c \in Replies, NEW r \in Ends, PersistReply(c, r) PROVE StepsInTheirRows'
  <2>1. status[target[c]] = "running"
    BY <1>13, PersistReplyEffect DEF RowsOwned, ReplyOwnsRow
  <2>2. QED
    BY <1>t, <1>w, <1>13, <2>1, PersistReplyEffect DEF ReplyAlone, Ends
<1>14. ASSUME NEW c \in Replies, NEW w \in ReplyState, ReplyMoves(c, w) PROVE StepsInTheirRows'
  BY <1>k, <1>14 DEF ReplyMoves
<1>15. ASSUME NEW c \in Replies, FinishPaused(c) PROVE StepsInTheirRows'
  <2>1. answer[c] \in Ends
    BY DEF TypeOK
  <2>2. QED
    BY <1>w, <1>15, <2>1, FinishPausedEffect DEF ReplyAlone, Ends
<1>16. ASSUME NEW c \in Replies, NEW n \in Nodes, CheckReply(c, n) PROVE StepsInTheirRows'
  BY <1>k, <1>16, CheckReplyEffect DEF ReplyAlone
<1>17. QED
  BY <1>1, <1>2, <1>3, <1>4, <1>5, <1>6, <1>7, <1>8, <1>9, <1>10, <1>11,
     <1>12, <1>13, <1>14, <1>15, <1>16 DEF CalmStep

-----------------------------------------------------------------------------
(* No reply was sent to a child: who is paused, and who will be answered.  *)

LEMMA PausesCountedKept ==
  ASSUME TypeOK, TypeOK', OwnRows, RowsOwned, StepsCounted, PausesCounted, CalmStep, ~direct'
  PROVE  PausesCounted'
<1> USE NodeFacts
<1>t. /\ row \in Rows \cup {NoRow} /\ \A c \in Replies : target[c] \in Nodes
      /\ at \in {"claim", "reset"} => todo # {}
      /\ at = "run" => row \in Rows /\ status[row] = "running"
      /\ at # "none" => status[Master] = "running"
      /\ at = "none" => DOMAIN got = {}
  BY DEF TypeOK, OwnRows, RowsOwned, PlanOwnsRow, StepsCounted
\* While the plan stands somewhere, no reply is on its way to a child.
<1>p. ASSUME at # "none", UNCHANGED replyVars PROVE
        \A c \in Replies : /\ sentTo'[c] = Master
                           /\ ~(replyAt'[c] = "route" \/ target'[c] \in Rows)
  BY <1>p DEF PausesCounted, replyVars
\* A step of a reply while the plan does not.
<1>r. ASSUME NEW c \in Replies, at = "none", UNCHANGED planVars,
             status[Master] # "ready" => status'[Master] # "ready",
             \A e \in Replies : sentTo'[e] = Master,
             \A e \in Replies : replyAt'[e] = "route" \/ target'[e] \in Rows =>
               replyAt[e] = "route" \/ target[e] \in Rows \/ status[Master] # "ready"
      PROVE  PausesCounted'
  BY <1>r, <1>t DEF PausesCounted, planVars
<1>1. CASE Quiet
  BY <1>1 DEF Quiet, PausesCounted, planVars, replyVars
<1>2. CASE MasterStarts
  <2>1. DOMAIN got' = {} /\ at' = "load" /\ UNCHANGED replyVars /\ status[Master] = "ready"
    BY <1>t, <1>2 DEF MasterStarts
  <2>2. QED
    BY <2>1 DEF PausesCounted, replyVars
<1>3. CASE LoadPlan
  <2>1. at = "load" /\ at' \in {"free", "claim"} /\ UNCHANGED <<status, got, replyVars>>
    BY <1>3 DEF LoadPlan, Unplanned, rowVars
  <2>2. QED
    BY <1>p, <2>1 DEF PausesCounted
<1>4. ASSUME NEW r \in Rows, ChildStarted(r) PROVE PausesCounted'
  <2>1. at # "none" /\ at' = "run" /\ UNCHANGED <<got, replyVars>>
        /\ \A n \in Rows : status[n] = "awaiting_reply" => status'[n] = "awaiting_reply"
    BY <1>4 DEF ChildStarted, StartedIn
  <2>2. QED
    BY <1>p, <2>1 DEF PausesCounted
<1>5. CASE ChildUnknown
  <2>1. at = "claim" /\ at' = "check" /\ result' = "unknown" /\ UNCHANGED <<status, got, replyVars>>
    BY <1>5 DEF ChildUnknown
  <2>2. QED
    BY <1>p, <2>1 DEF PausesCounted
<1>6. ASSUME NEW r \in Ends, FinishChild(r) PROVE PausesCounted'
  <2>1. at = "run" /\ at' = "check" /\ result' = r /\ UNCHANGED <<row, got, replyVars>>
    BY <1>6 DEF FinishChild, Unplanned
  <2>2. Writes(row, r) /\ row \in Rows
    BY <1>6, FinishChildEffect
  <2>3. \A n \in Rows : status[n] = "awaiting_reply" => status'[n] = "awaiting_reply"
    BY <1>t, <2>1, <2>2 DEF Writes
  <2>4. status'[row] = r
    BY <2>2 DEF Writes
  <2>5. QED
    BY <1>p, <2>1, <2>2, <2>3, <2>4 DEF PausesCounted
<1>7. ASSUME NEW v \in StepResult, CheckChild(v) PROVE PausesCounted'
  <2>1. at = "check" /\ at' \in {"free", "reset", "claim", "close"} /\ UNCHANGED <<status, replyVars>>
    BY <1>7 DEF CheckChild, Record, Unplanned, rowVars
  <2>2. CASE UNCHANGED got
    BY <1>p, <2>1, <2>2 DEF PausesCounted
  <2>3. CASE Record(v) /\ v \in Verdicts
    <3>1. v = "awaiting_reply" => row \in Rows /\ status[row] = "awaiting_reply"
      BY <2>1, <2>3 DEF Verdicts, PausesCounted
    <3>2. \A n \in DOMAIN got' : got'[n] = IF n = Step THEN [row |-> row, is |-> v] ELSE got[n]
      BY <2>3 DEF Record
    <3>3. \A n \in DOMAIN got' : n = Step \/ n \in DOMAIN got
      BY <2>3 DEF Record
    <3>4. \A n \in DOMAIN got' : got'[n].is = "awaiting_reply" =>
            got'[n].row \in Rows /\ status'[got'[n].row] = "awaiting_reply"
      BY <2>1, <3>1, <3>2, <3>3 DEF PausesCounted
    <3>5. QED
      BY <1>p, <2>1, <3>4 DEF PausesCounted
  <2>4. QED
    BY <1>7, <2>2, <2>3 DEF CheckChild
<1>8. CASE ResetChild
  <2>1. at = "reset" /\ at' = "claim" /\ UNCHANGED <<got, replyVars>> /\ row \in Rows
    BY <1>8 DEF ResetChild, Unplanned, RowsOwned, PlanOwnsRow
  <2>2. Writes(row, "preview")
    BY <1>8, <2>1, ResetChildEffect
  <2>3. \A n \in DOMAIN got : got[n].row # row
    BY <2>1 DEF OwnRows, Taken
  <2>4. \A n \in DOMAIN got : got[n].is = "awaiting_reply" => got[n].row \in Rows /\ status'[got[n].row] = "awaiting_reply"
    BY <2>2, <2>3 DEF PausesCounted, Writes
  <2>5. QED
    BY <1>p, <2>1, <2>4 DEF PausesCounted
<1>9. ASSUME NEW r \in Ends, FinishMaster(r) PROVE PausesCounted'
  <2>1. at # "none" /\ at' = "none" /\ DOMAIN got' = {} /\ UNCHANGED replyVars
    BY <1>9 DEF FinishMaster
  <2>2. QED
    BY <1>p, <2>1 DEF PausesCounted
<1>10. CASE StopNodes
  <2>1. UNCHANGED <<planVars, replyVars>> /\ \A n \in Nodes :
          status'[n] = IF status[n] \in {"ready", "preview"} THEN "cancelled" ELSE status[n]
    BY <1>10 DEF StopNodes
  <2>2. /\ status'[Master] = "ready" => status[Master] = "ready"
        /\ \A n \in Rows : status[n] = "awaiting_reply" => status'[n] = "awaiting_reply"
    BY <2>1
  <2>3. QED
    BY <2>1, <2>2 DEF PausesCounted, planVars, replyVars
<1>11. ASSUME NEW c \in Replies, RouteReply(c) PROVE PausesCounted'
  <2>1. ReplyAlone(c) /\ status' = status /\ replyAt[c] = "route" /\ sentTo'[c] = sentTo[c]
    BY <1>11, RouteReplyEffect
  <2>2. at = "none" /\ status[Master] # "ready"
    BY <2>1 DEF PausesCounted
  <2>3. \A e \in Replies : sentTo'[e] = Master
    BY <2>1 DEF ReplyAlone, PausesCounted
  <2>4. QED
    BY <1>r, <2>1, <2>2, <2>3 DEF ReplyAlone
<1>12. ASSUME NEW c \in Replies, MarkPaused(c) PROVE PausesCounted'
  <2>1. /\ Writes(target[c], "running") /\ status[target[c]] = "awaiting_reply"
        /\ ReplyAlone(c) /\ OverOrSame(c) /\ replyAt'[c] = "run"
    BY <1>12, MarkPausedEffect
  <2>2. at = "none"
    BY <1>t, <2>1 DEF PausesCounted
  <2>3. \A e \in Replies : sentTo'[e] = Master
    BY <2>1 DEF ReplyAlone, OverOrSame, PausesCounted
  <2>4. \A e \in Replies : replyAt'[e] = "route" \/ target'[e] \in Rows => replyAt[e] = "route" \/ target[e] \in Rows
    BY <2>1 DEF ReplyAlone, OverOrSame
  <2>5. status'[Master] = "ready" => status[Master] = "ready"
    BY <2>1 DEF Writes
  <2>6. QED
    BY <1>r, <2>1, <2>2, <2>3, <2>4, <2>5 DEF ReplyAlone
<1>13. ASSUME NEW c \in Replies, NEW r \in Ends, PersistReply(c, r) PROVE PausesCounted'
  <2>1. /\ Writes(target[c], r) /\ ReplyAlone(c) /\ OverOrSame(c)
        /\ replyAt[c] = "run" /\ replyAt'[c] # "route"
    BY <1>13, PersistReplyEffect DEF AfterReply
  <2>2. at = "none"
    BY <1>t, <2>1 DEF PausesCounted, RowsOwned, ReplyOwnsRow
  <2>3. \A e \in Replies : sentTo'[e] = Master
    BY <2>1 DEF ReplyAlone, OverOrSame, PausesCounted
  <2>4. \A e \in Replies : replyAt'[e] = "route" \/ target'[e] \in Rows => replyAt[e] = "route" \/ target[e] \in Rows
    BY <2>1 DEF ReplyAlone, OverOrSame
  <2>5. status'[Master] = "ready" => status[Master] = "ready"
    BY <2>1 DEF Writes, Ends
  <2>6. QED
    BY <1>r, <2>1, <2>2, <2>3, <2>4, <2>5 DEF ReplyAlone
<1>14. ASSUME NEW c \in Replies, NEW w \in ReplyState, ReplyMoves(c, w) PROVE PausesCounted'
  <2>1. ReplyAlone(c) /\ OverOrSame(c) /\ replyAt'[c] # "route" /\ status' = status
    BY <1>14, ReplyMovesEffect DEF ReplyMoves
  <2>2. \A e \in Replies : sentTo'[e] = Master
    BY <2>1 DEF ReplyAlone, OverOrSame, PausesCounted
  <2>3. \A e \in Replies : replyAt'[e] = "route" \/ target'[e] \in Rows => replyAt[e] = "route" \/ target[e] \in Rows
    BY <2>1 DEF ReplyAlone, OverOrSame
  <2>4. QED
    BY <2>1, <2>2, <2>3 DEF ReplyAlone, PausesCounted, planVars
<1>15. ASSUME NEW c \in Replies, FinishPaused(c) PROVE PausesCounted'
  <2>1. /\ Writes(Master, answer[c]) /\ status[Master] = "awaiting_reply"
        /\ ReplyAlone(c) /\ OverOrSame(c) /\ replyAt'[c] = "count" /\ answer[c] \in Ends
    BY <1>15, FinishPausedEffect DEF TypeOK
  <2>2. at = "none"
    BY <1>t, <2>1
  <2>3. \A e \in Replies : sentTo'[e] = Master
    BY <2>1 DEF ReplyAlone, OverOrSame, PausesCounted
  <2>4. \A e \in Replies : replyAt'[e] = "route" \/ target'[e] \in Rows => replyAt[e] = "route" \/ target[e] \in Rows
    BY <2>1 DEF ReplyAlone, OverOrSame
  <2>5. status'[Master] # "ready"
    BY <2>1 DEF Writes, Ends
  <2>6. QED
    BY <1>r, <2>1, <2>2, <2>3, <2>4, <2>5 DEF ReplyAlone
<1>16. ASSUME NEW c \in Replies, NEW n \in Nodes, CheckReply(c, n) PROVE PausesCounted'
  <2>1. /\ ReplyAlone(c) /\ status' = status /\ target'[c] = Master /\ sentTo'[c] = Master
        /\ replyAt'[c] = "route" => status[Master] = "awaiting_reply"
    BY <1>16, CheckReplyEffect
  <2>2. \A e \in Replies : sentTo'[e] = Master
    BY <2>1 DEF ReplyAlone, PausesCounted
  <2>3. \A e \in Replies : replyAt'[e] = "route" \/ target'[e] \in Rows => at = "none" /\ status[Master] # "ready"
    BY <1>t, <2>1 DEF ReplyAlone, PausesCounted
  <2>4. QED
    BY <2>1, <2>2, <2>3 DEF ReplyAlone, PausesCounted, planVars
<1>17. QED
  BY <1>1, <1>2, <1>3, <1>4, <1>5, <1>6, <1>7, <1>8, <1>9, <1>10, <1>11,
     <1>12, <1>13, <1>14, <1>15, <1>16 DEF CalmStep

LEMMA ChildrenWaitKept ==
  ASSUME TypeOK, TypeOK', OwnRows, AnswersEnded, RowsOwned, RowsOwned', StepsInTheirRows,
         PausesCounted, ChildrenWait, CalmStep, NoneCancelled'
  PROVE  ChildrenWait'
<1> DEFINE Waiting == \/ \E n \in Rows : status[n] = "awaiting_reply"
                      \/ \E c \in Replies : replyAt[c] \in {"run", "parent", "finish"} /\ target[c] \in Rows
<1> SUFFICES ASSUME MasterWaits' PROVE Waiting'
  BY DEF ChildrenWait, PausedChildren
<1> USE NodeFacts
<1>a. at' = "none"
  BY DEF MasterWaits, RowsOwned, PlanOwnsRow
<1>w. MasterWaits => Waiting
  BY DEF ChildrenWait, PausedChildren
<1>1. CASE Quiet
  BY <1>w, <1>1 DEF Quiet, planVars, replyVars, MasterWaits
<1>2. CASE MasterStarts
  BY <1>a, <1>2 DEF MasterStarts
<1>3. CASE LoadPlan
  <2>1. at' # "none"
    BY <1>3 DEF LoadPlan
  <2>2. QED
    BY <1>a, <2>1
<1>4. ASSUME NEW r \in Rows, ChildStarted(r) PROVE Waiting'
  BY <1>a, <1>4 DEF ChildStarted, StartedIn
<1>5. CASE ChildUnknown
  BY <1>a, <1>5 DEF ChildUnknown
<1>6. ASSUME NEW r \in Ends, FinishChild(r) PROVE Waiting'
  BY <1>a, <1>6 DEF FinishChild
<1>7. ASSUME NEW v \in StepResult, CheckChild(v) PROVE Waiting'
  <2>1. at' # "none"
    BY <1>7 DEF CheckChild, Record
  <2>2. QED
    BY <1>a, <2>1
<1>8. CASE ResetChild
  BY <1>a, <1>8 DEF ResetChild
<1>9. ASSUME NEW r \in Ends, FinishMaster(r) PROVE Waiting'
  <2>1. Writes(Master, r)
    BY <1>9, FinishMasterEffect
  <2>2. r = "awaiting_reply"
    BY <2>1 DEF MasterWaits, Writes, Ends
  <2>3. at = "close" /\ r = PlanOutcome
    BY <1>9, <2>2 DEF FinishMaster, StepsInTheirRows
  <2>4. PICK n \in DOMAIN got : got[n].is = "awaiting_reply"
    BY <2>2, <2>3 DEF PlanOutcome
  <2>5. got[n].row \in Rows /\ status[got[n].row] = "awaiting_reply"
    BY <2>4 DEF PausesCounted
  <2>6. QED
    BY <2>1, <2>5 DEF Writes
<1>10. CASE StopNodes
  <2>1. status' = status /\ UNCHANGED <<at, replyVars>>
    BY <1>10, NoneWasCancelled DEF StopNodes, planVars
  <2>2. QED
    BY <1>w, <2>1 DEF replyVars, MasterWaits
<1>11. ASSUME NEW c \in Replies, RouteReply(c) PROVE Waiting'
  <2>1. ReplyAlone(c) /\ status' = status /\ replyAt[c] = "route"
    BY <1>11, RouteReplyEffect
  <2>2. Waiting
    BY <1>w, <2>1 DEF ReplyAlone, planVars, MasterWaits
  <2>3. QED
    BY <2>1, <2>2 DEF ReplyAlone
<1>12. ASSUME NEW c \in Replies, MarkPaused(c) PROVE Waiting'
  <2>1. /\ Writes(target[c], "running") /\ status[target[c]] = "awaiting_reply"
        /\ ReplyAlone(c) /\ target'[c] = target[c] /\ replyAt[c] = "mark" /\ replyAt'[c] = "run"
    BY <1>12, MarkPausedEffect DEF OverOrSame
  <2>2. CASE target[c] \in Rows
    BY <2>1, <2>2
  <2>3. CASE target[c] = Master
    <3>1. Waiting
      BY <1>w, <2>1, <2>3 DEF MasterWaits
    <3>2. QED
      BY <2>1, <2>3, <3>1 DEF Writes, ReplyAlone
  <2>4. QED
    BY <2>2, <2>3 DEF TypeOK
<1>13. ASSUME NEW c \in Replies, NEW r \in Ends, PersistReply(c, r) PROVE Waiting'
  <2>1. /\ Writes(target[c], r) /\ ReplyAlone(c) /\ OverOrSame(c)
        /\ replyAt[c] = "run" /\ replyAt'[c] = AfterReply(c, r)
    BY <1>13, PersistReplyEffect
  <2>2. CASE target[c] \in Rows /\ r = "awaiting_reply"
    BY <2>1, <2>2 DEF Writes
  <2>3. CASE target[c] \in Rows /\ r # "awaiting_reply"
    <3>1. sentTo[c] = Master
      BY DEF PausesCounted
    <3>2. replyAt'[c] = "parent" /\ target'[c] = target[c]
      BY <2>1, <2>3, <3>1 DEF AfterReply, OverOrSame
    <3>3. QED
      BY <2>3, <3>2
  <2>4. CASE target[c] = Master
    <3>1. Waiting
      BY <1>w, <2>1, <2>4 DEF RowsOwned, ReplyOwnsRow, MasterWaits
    <3>2. QED
      BY <2>1, <2>4, <3>1 DEF Writes, ReplyAlone
  <2>5. QED
    BY <2>2, <2>3, <2>4 DEF TypeOK
<1>14. ASSUME NEW c \in Replies, NEW w \in ReplyState, ReplyMoves(c, w) PROVE Waiting'
  <2>1. ReplyAlone(c) /\ OverOrSame(c) /\ replyAt'[c] = w /\ status' = status
    BY <1>14, ReplyMovesEffect DEF ReplyMoves
  <2>2. Waiting
    BY <1>w, <2>1 DEF ReplyAlone, planVars, MasterWaits
  <2>3. CASE replyAt[c] = "parent" /\ PausedChildren # {}
    BY <2>1, <2>3 DEF PausedChildren
  <2>4. CASE replyAt[c] = "parent" /\ PausedChildren = {}
    <3>1. replyAt'[c] = "finish" /\ target'[c] = target[c]
      BY <1>14, <2>1, <2>4 DEF ReplyMoves, OverOrSame
    <3>2. QED
      BY <2>1, <2>2, <3>1 DEF ReplyAlone
  <2>5. CASE replyAt[c] # "parent"
    <3>1. replyAt[c] \in {"count", "complete"}
      BY <1>14, <2>5 DEF ReplyMoves
    <3>2. QED
      BY <2>1, <2>2, <3>1 DEF ReplyAlone
  <2>6. QED
    BY <2>3, <2>4, <2>5
<1>15. ASSUME NEW c \in Replies, FinishPaused(c) PROVE Waiting'
  <2>1. Writes(Master, answer[c]) /\ replyAt[c] = "finish"
    BY <1>15, FinishPausedEffect
  <2>2. answer[c] \in {"passed", "failed"}
    BY <2>1 DEF AnswersEnded
  <2>3. QED
    BY <2>1, <2>2 DEF MasterWaits, Writes
<1>16. ASSUME NEW c \in Replies, NEW n \in Nodes, CheckReply(c, n) PROVE Waiting'
  <2>1. ReplyAlone(c) /\ status' = status /\ replyAt[c] = "unsent"
    BY <1>16, CheckReplyEffect
  <2>2. Waiting
    BY <1>w, <2>1 DEF ReplyAlone, planVars, MasterWaits
  <2>3. QED
    BY <2>1, <2>2 DEF ReplyAlone
<1>17. QED
  BY <1>1, <1>2, <1>3, <1>4, <1>5, <1>6, <1>7, <1>8, <1>9, <1>10, <1>11,
     <1>12, <1>13, <1>14, <1>15, <1>16 DEF CalmStep

-----------------------------------------------------------------------------
(* The invariant, and the properties that follow from it.                  *)

LEMMA OrchestratorInvInit == Init => OrchestratorInv
<1> SUFFICES ASSUME Init PROVE OrchestratorInv
  OBVIOUS
<1> USE NodeFacts
<1>1. PICK plan \in [1..Planned -> Agents] : slug = [n \in Rows |-> IF n <= Planned THEN plan[n] ELSE plan[1]]
  BY DEF Init
<1>2. slug \in [Rows -> Agents]
  <2>1. \A n \in Rows : n <= Planned => n \in 1..Planned
    BY DEF Rows
  <2>2. 1 \in 1..Planned
    BY PlanAssumption
  <2>3. QED
    BY <1>1, <2>1, <2>2
<1>3. /\ status = [n \in Nodes |-> IF n = Master THEN "ready" ELSE IF n <= Planned THEN "preview" ELSE "absent"]
      /\ task = [n \in Nodes |-> "none"] /\ at = "none" /\ todo = {}
      /\ DOMAIN got = {}
      /\ target = [c \in Replies |-> Master] /\ sentTo = [c \in Replies |-> Master]
      /\ replyAt = [c \in Replies |-> "unsent"]
  BY DEF Init
<1>4. TypeOK
  <2>1. QueueTypes
    <3>1. attempts \in [Nodes -> 0..MaxAttempts] /\ faults \in 0..MaxFaults
      BY OrchestratorLimits DEF Init
    <3>2. conv \in [Nodes -> BOOLEAN] /\ started \in [Nodes -> {"null", "recent", "old"}]
      BY DEF Init
    <3>3. /\ session = "executing" /\ stopping \in BOOLEAN /\ direct \in BOOLEAN /\ trampled \in BOOLEAN
      BY Zenon DEF Init
    <3>4. status \in [Nodes -> RowStatus] /\ task \in [Nodes -> {"none", "run", "count", "complete"}]
      BY <1>3 DEF RowStatus
    <3>5. QED
      BY <1>2, <3>1, <3>2, <3>3, <3>4 DEF QueueTypes
  <2>2. PlanTypes
    BY <1>3 DEF Init, PlanTypes, PlanState
  <2>3. ReplyTypes
    BY <1>3 DEF Init, ReplyTypes, ReplyState, Ends
  <2>4. QED
    BY <2>1, <2>2, <2>3, TypesSplit DEF Types
<1>5. OwnRows /\ AnswersEnded
  BY <1>3 DEF OwnRows, AnswersEnded, Taken
<1>6. /\ status[Master] = "ready"
      /\ \A n \in Rows : status[n] = IF n <= Planned THEN "preview" ELSE "absent"
  BY <1>3
<1>7. RowsOwned
  BY <1>3, <1>6 DEF RowsOwned, PlanOwnsRow, ReplyOwnsRow, RunningIsOwned
<1>8. \A n \in Rows : n <= Planned <=> n \in 1..Planned
  BY PlanAssumption DEF Rows
<1>9. StepsCounted
  <2>1. {n \in Rows : status[n] = "preview"} = 1..Planned
    BY <1>6, <1>8
  <2>2. QED
    BY <1>3, <2>1 DEF StepsCounted
<1>10. StepsInTheirRows
  BY <1>3, <1>6, <1>8 DEF StepsInTheirRows, Taken
<1>11. PausesCounted /\ ChildrenWait
  BY <1>3, <1>6 DEF PausesCounted, ChildrenWait, MasterWaits
<1>12. QED
  BY <1>4, <1>5, <1>7, <1>9, <1>10, <1>11 DEF OrchestratorInv

LEMMA OrchestratorInvKept == OrchestratorInv /\ [Next]_vars => OrchestratorInv'
<1> SUFFICES ASSUME OrchestratorInv, [Next]_vars PROVE OrchestratorInv'
  OBVIOUS
<1>0. TypeOK /\ OwnRows /\ AnswersEnded
  BY DEF OrchestratorInv
<1>1. TypeOK'
  BY <1>0, TypesKept DEF OwnRows
<1>2. OwnRows' /\ AnswersEnded'
  BY <1>0, <1>1, OwnRowsKept, AnswersEndedKept
<1>3. ASSUME Undisturbed' PROVE /\ Undisturbed /\ CalmStep /\ RowsOwned /\ StepsCounted
                                /\ RowsOwned' /\ StepsCounted'
  <2>1. Undisturbed /\ CalmStep
    BY <1>3, CalmSteps
  <2>2. RowsOwned /\ StepsCounted
    BY <2>1 DEF OrchestratorInv
  <2>3. QED
    BY <1>0, <1>1, <2>1, <2>2, RowsOwnedKept, StepsCountedKept
<1>4. ASSUME Undisturbed', NoneCancelled' PROVE StepsInTheirRows /\ StepsInTheirRows'
  <2>1. NoneCancelled
    BY <1>0, <1>3, <1>4, NoneWasCancelled
  <2>2. StepsInTheirRows
    BY <1>3, <1>4, <2>1 DEF OrchestratorInv
  <2>3. QED
    BY <1>0, <1>1, <1>3, <1>4, <2>2, StepsInTheirRowsKept
<1>5. ASSUME Undisturbed', ~direct' PROVE ~direct /\ PausesCounted /\ PausesCounted'
  <2>1. ~direct
    BY <1>0, <1>5, DisturbedOnce
  <2>2. PausesCounted
    BY <1>3, <1>5, <2>1 DEF OrchestratorInv
  <2>3. QED
    BY <1>0, <1>1, <1>3, <1>5, <2>1, <2>2, PausesCountedKept
<1>6. ASSUME Undisturbed', ~direct', NoneCancelled' PROVE ChildrenWait'
  <2>1. NoneCancelled
    BY <1>0, <1>3, <1>6, NoneWasCancelled
  <2>2. ChildrenWait
    BY <1>3, <1>5, <1>6, <2>1 DEF OrchestratorInv
  <2>3. QED
    BY <1>0, <1>1, <1>3, <1>4, <1>5, <1>6, <2>2, ChildrenWaitKept
<1>7. QED
  BY <1>1, <1>2, <1>3, <1>4, <1>5, <1>6 DEF OrchestratorInv

LEMMA OrchestratorInvHolds == Spec => []OrchestratorInv
BY OrchestratorInvInit, OrchestratorInvKept, PTL DEF Spec

\* Every variable of an orchestrated session keeps its type, whatever crashes,
\* is swept, stopped, retried or answered: no row is claimed more than
\* MAX_ATTEMPTS times (claim_ready_nodes), and what the master's task knows of
\* its steps is about rows and results there are (run_orchestrated_plan).
THEOREM OrchestratorTypeCorrect == Spec => []TypeOK
<1>1. OrchestratorInv => TypeOK
  BY DEF OrchestratorInv
<1>2. QED
  BY <1>1, OrchestratorInvHolds, PTL

\* The rows of a plan are its steps (run_child, reset_preview_child): no two
\* steps that are done or at hand share a row, and a plan that no fault, stop or
\* stray reply disturbed is carried out in the rows it was approved with,
\* however often its steps were retried.
THEOREM RowsAreSteps == Spec => []RowsAreTheSteps
<1>1. OrchestratorInv => RowsAreTheSteps
  <2> SUFFICES ASSUME OrchestratorInv PROVE RowsAreTheSteps
    OBVIOUS
  <2>1. TypeOK /\ OwnRows
    BY DEF OrchestratorInv
  <2>2. StepsHaveTheirOwnRows
    <3>1. at = "run" => row # NoRow
      BY <2>1, NodeFacts DEF OwnRows
    <3>2. QED
      BY <2>1, <3>1 DEF StepsHaveTheirOwnRows, OwnRows, Taken
  <2>3. RetryReusesRow
    BY DEF RetryReusesRow, OrchestratorInv, Undisturbed, StepsInTheirRows
  <2>4. QED
    BY <2>2, <2>3 DEF RowsAreTheSteps
<1>2. QED
  BY <1>1, OrchestratorInvHolds, PTL

\* A master that waits for its children is not forgotten (execution_node_reply):
\* as long as users answer through the master, a child is still paused or the
\* reply to one is on its way back.
THEOREM PausedMastersWait == Spec => []PausedMasterHasPausedChild
<1>1. OrchestratorInv => PausedMasterHasPausedChild
  BY DEF OrchestratorInv, Undisturbed, ChildrenWait, MasterWaits, PausedMasterHasPausedChild
<1>2. QED
  BY <1>1, OrchestratorInvHolds, PTL

\* A plan that passes has passed in every step (run_orchestrated_plan): when the
\* master's task writes "passed", every planned step has a row, and the row says
\* "passed".
THEOREM PassesAreEarned == Spec => PassIsEarned
<1> DEFINE Earned == \A n \in 1..Planned :
             n \in DOMAIN got /\ got[n].row \in Rows /\ status[got[n].row] = "passed"
           Passes == /\ faults = 0 /\ ~trampled
                     /\ at = "close" /\ at' = "none" /\ status'[Master] = "passed"
<1>1. OrchestratorInv /\ OrchestratorInv' /\ [Next]_vars => [Passes => Earned]_vars
  <2> SUFFICES ASSUME OrchestratorInv, OrchestratorInv', [Next]_vars, Passes PROVE Earned
    OBVIOUS
  <2>1. TypeOK /\ OwnRows /\ RowsOwned /\ StepsCounted
    BY DEF OrchestratorInv, Undisturbed
  <2>2. status[Master] = "running"
    BY <2>1 DEF RowsOwned, PlanOwnsRow
  <2>3. ASSUME NEW r \in Ends, FinishMaster(r) PROVE Earned
    <3>1. r = "passed" /\ PlanOutcome = "passed"
      BY <2>1, <2>3, FinishMasterEffect DEF FinishMaster, Writes
    <3>2. \A n \in DOMAIN got : got[n].is = "passed"
      BY <3>1 DEF PlanOutcome, AllPassed
    <3>3. DOMAIN got = 1..Planned
      BY <2>1 DEF StepsCounted
    <3>4. QED
      BY <2>1, <3>2, <3>3 DEF StepsCounted
  <2>4. \E r \in Ends : FinishMaster(r)
    <3>1. UNCHANGED planVars \/ Claim \/ PlanStep \/ PlanStatementFails \/ Crash
            \/ \E n \in Nodes : TaskStatementFails(n)
      BY PlanUntouched
    <3>2. status' # status /\ at' # at
      BY <2>2
    <3>3. ~Claim /\ ~PlanStatementFails /\ ~Crash /\ ~UNCHANGED planVars
      <4>1. ~Claim /\ ~Crash /\ ~UNCHANGED planVars
        BY <3>2 DEF Claim, Crash, rowVars, planVars
      <4>2. ~PlanStatementFails
        BY DEF PlanStatementFails, InsertRow
      <4>3. QED
        BY <4>1, <4>2
    <3>4. ~ \E n \in Nodes : TaskStatementFails(n)
      BY <3>2 DEF TaskStatementFails, rowVars
    <3>5. PlanStep
      BY <3>1, <3>3, <3>4
    <3>6. QED
      BY <3>5
         DEF PlanStep, LoadPlan, ClaimChild, SpawnAgent, FinishChild, CheckChild, ResetChild
  <2>5. QED
    BY <2>3, <2>4
<1>2. QED
  BY <1>1, OrchestratorInvHolds, PTL DEF Spec, PassIsEarned
=============================================================================
