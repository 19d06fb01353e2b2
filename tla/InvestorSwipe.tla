--------------------------- MODULE InvestorSwipe ---------------------------
(***************************************************************************)
(* The investor swipe app at the root of the repository: the page that     *)
(* swipes (app/page.tsx), the page of the kept ones (app/kept/page.tsx),   *)
(* the storage they share (lib/storage.ts) and the route behind it         *)
(* (app/api/state/route.ts), which keeps one table for everybody.  Each    *)
(* browser keeps its own decisions and queues in localStorage too and      *)
(* sends them to the table again, in the background, when it loads the     *)
(* page and its flag does not say that this was done.                      *)
(*                                                                         *)
(* A chain of awaits is a task: the steps it has still to do.  Its first   *)
(* step is the request on its way; when it is answered the page goes on    *)
(* with the next one.  A task does not know of other tasks.                *)
(***************************************************************************)
EXTENDS Naturals, FiniteSets, SequencesExt

CONSTANTS
  Browsers,      \* browsers, one tab with the swipe page each
  Ids,           \* investors
  Linked,        \* those with a valid LinkedIn profile
  Tasks,         \* names for the chains of awaits under way
  MaxDecisions,  \* bound of the model: swipes and decisions on the kept page
  MaxVisits,     \* bound of the model: times a page is loaded
  MaxFaults      \* bound of the model: requests that fail

ASSUME IdsAssumption == IsFiniteSet(Ids) /\ Linked \subseteq Ids

ASSUME SwipeBounds == MaxDecisions \in Nat /\ MaxVisits \in Nat /\ MaxFaults \in Nat

VARIABLES
  table,      \* investor_swipe_state: decisions, queues, lgm_synced
  lgm,        \* the investors La Growth Machine was given
  local,      \* the localStorage of a browser: decisions and queues
  migrated,   \* LEGACY_MIGRATED_KEY is set
  page,       \* what the tab shows
  task,       \* the chains of awaits under way
  mixed,      \* investors about whom two tasks or two writers met
  unsaved,    \* investors with a write to the table that failed
  decisions, visits, faults

state  == <<table, lgm, local, migrated, page, task>>
ghosts == <<mixed, unsaved, decisions, visits, faults>>
vars   == <<state, ghosts>>

\* "skip" is like "cut" for everything that follows.
Decision == {"keep", "cut", "more"}

Kinds == {"lgm", "missing", "more"}

Content == [decision : [Ids -> Decision \cup {"none"}], queue : [Ids -> SUBSET Kinds]]

Step == [op : {"swipe"}, id : Ids, value : Decision]
          \cup [op : {"decision"}, id : Ids, value : Decision]
          \cup [op : {"queue"}, id : Ids, value : Kinds]
          \cup [op : {"push", "mark"}, id : Ids, value : {"none"}]
          \cup [op : {"clear"}, id : {"all"}, value : {"none"}]

\* from "nobody": a request whose tab was closed, kept alive by the browser.
Task == [by : Browsers, from : {"decide", "kept", "migrate", "sync", "reset", "nobody"},
         todo : Seq(Step)]

Free == [from |-> "free"]

Busy == {t \in Tasks : task[t] # Free}

Empty == [decision |-> [i \in Ids |-> "none"], queue |-> [i \in Ids |-> {}]]

\* persistDecision: the queue that goes with a decision.
QueueOf(i, d) ==
  IF d = "keep" THEN IF i \in Linked THEN {"lgm"} ELSE {"missing"}
  ELSE IF d = "more" THEN {"more"} ELSE {}

\* Mutant of Swiped: the investor stays in the queues it is in.
SwipedNotMoved(c, i, d) ==
  [decision |-> [c.decision EXCEPT ![i] = d],
   queue |-> [c.queue EXCEPT ![i] = @ \cup QueueOf(i, d)]]

\* The page and localStorage move the investor to its one queue.
Swiped(c, i, d) ==
  [decision |-> [c.decision EXCEPT ![i] = d], queue |-> [c.queue EXCEPT ![i] = QueueOf(i, d)]]

StepOf(op, i, v) == [op |-> op, id |-> i, value |-> v]

\* A task under way is about this investor; a clear is about all of them.
Touched(i) == \E t \in Busy : \E n \in DOMAIN task[t].todo :
                task[t].todo[n].op = "clear" \/ task[t].todo[n].id = i

\* A browser remembers the investor, or its page shows a decision.
Knows(b, i) == local[b].decision[i] # "none" \/ page[b].show.decision[i] # "none"

TaskOf(b, from) == {t \in Busy : task[t].by = b /\ task[t].from = from}

SwipeInit ==
  /\ table = [decision |-> Empty.decision, queue |-> Empty.queue, synced |-> {}]
  /\ lgm = {}
  /\ local = [b \in Browsers |-> Empty]
  /\ migrated = [b \in Browsers |-> FALSE]
  /\ page = [b \in Browsers |-> [open |-> FALSE, show |-> Empty]]
  /\ task = [t \in Tasks |-> Free]
  /\ mixed = {}
  /\ unsaved = {}
  /\ decisions = 0
  /\ visits = 0
  /\ faults = 0

-----------------------------------------------------------------------------
(* The writes. *)

\* saveSwipe is one transaction; markSynced is two statements.
Served(c, s) ==
  CASE s.op = "swipe" -> [c EXCEPT !.decision[s.id] = s.value,
                                   !.queue[s.id] = QueueOf(s.id, s.value)]
    [] s.op = "decision" -> [c EXCEPT !.decision[s.id] = s.value]
    [] s.op = "queue" -> [c EXCEPT !.queue[s.id] = @ \cup {s.value}]
    [] s.op = "mark" -> [c EXCEPT !.synced = @ \cup {s.id}, !.queue[s.id] = @ \ {"lgm"}]
    [] s.op = "clear" -> [decision |-> Empty.decision, queue |-> Empty.queue, synced |-> {}]
    [] OTHER -> c

\* What a request does, to the table or to La Growth Machine.
Effect(s) ==
  /\ table' = Served(table, s)
  /\ lgm' = IF s.op = "push" THEN lgm \cup {s.id} ELSE lgm

\* saveDecision and queueFor... write to localStorage before they ask the
\* route; saveLegacyQueueItem removes nothing from another queue.
LocalWrite(c, s) ==
  CASE s.op = "decision" -> [c EXCEPT !.decision[s.id] = s.value]
    [] s.op = "queue" -> [c EXCEPT !.queue[s.id] = @ \cup {s.value}]
    [] OTHER -> c

\* migrateLegacyState, from what localStorage held when the page was loaded.
MigrationSteps(b) ==
  LET Decided   == {i \in Ids : local[b].decision[i] # "none"}
      Queued(k) == SetToSeq({StepOf("queue", i, k) : i \in {j \in Ids : k \in local[b].queue[j]}})
  IN SetToSeq({StepOf("decision", i, local[b].decision[i]) : i \in Decided})
       \o Queued("lgm") \o Queued("missing") \o Queued("more")

\* mergeState: decisions of the table win, queues are united.
Merged(c) ==
  LET decided == [i \in Ids |-> IF table.decision[i] # "none"
                                THEN table.decision[i] ELSE c.decision[i]]
  IN [decision |-> decided,
      queue |-> [i \in Ids |-> c.queue[i] \cup table.queue[i]
                                 \cup (IF decided[i] = "more" THEN {"more"} ELSE {})]]

-----------------------------------------------------------------------------
(* The pages. *)

\* A tab goes away: its requests are kept alive, nothing follows on them.
Left(b) ==
  [t \in Tasks |-> IF t \in Busy /\ task[t].by = b /\ task[t].from # "kept"
                   THEN [task[t] EXCEPT !.from = "nobody", !.todo = <<Head(task[t].todo)>>]
                   ELSE task[t]]

\* loadRemoteState: the migration is started and not awaited.  What is still
\* on its way from an earlier tab meets it.
Load(b) ==
  /\ visits < MaxVisits
  /\ visits' = visits + 1
  /\ page' = [page EXCEPT ![b] = [open |-> TRUE, show |-> Merged(local[b])]]
  /\ LET steps == MigrationSteps(b)
     IN IF steps # <<>> /\ ~migrated[b]
        THEN /\ local' = [local EXCEPT ![b] = LocalWrite(@, Head(steps))]
             /\ \E t \in Tasks \ Busy :
                  task' = [Left(b) EXCEPT ![t] = [by |-> b, from |-> "migrate", todo |-> steps]]
        ELSE task' = Left(b) /\ UNCHANGED local
  /\ mixed' = mixed \cup {i \in Ids : Touched(i)}
  /\ UNCHANGED <<table, lgm, migrated, unsaved, decisions, faults>>

\* The route does not answer: the page shows what the browser remembers.
LoadFailed(b) ==
  /\ visits < MaxVisits
  /\ faults < MaxFaults
  /\ visits' = visits + 1
  /\ faults' = faults + 1
  /\ page' = [page EXCEPT ![b] = [open |-> TRUE, show |-> local[b]]]
  /\ task' = Left(b)
  /\ mixed' = mixed \cup {i \in Ids : Touched(i)}
  /\ UNCHANGED <<table, lgm, local, migrated, unsaved, decisions>>

\* Another task is about this investor, or about everything this browser
\* knows, or another browser knows the investor too.
Meets(b, i) ==
  \/ Touched(i)
  \/ TaskOf(b, "migrate") # {}
  \/ \E o \in Browsers \ {b} : Knows(o, i)

\* Mutant of FlagGone: saveLegacyDecision leaves the flag alone.
FlagKept(b) == migrated' = migrated

\* Every write of saveSwipeDecision to localStorage removes the flag.
FlagGone(b) == migrated' = [migrated EXCEPT ![b] = FALSE]

\* Mutant of DecideSteps: every kept investor is pushed.
DecideStepsUnlinked(i, d) ==
  <<StepOf("swipe", i, d)>> \o
    IF d = "keep" THEN <<StepOf("push", i, "none"), StepOf("mark", i, "none")>> ELSE <<>>

\* The save, and what follows when it succeeded.
DecideSteps(i, d) ==
  <<StepOf("swipe", i, d)>> \o
    IF d = "keep" /\ i \in Linked
    THEN <<StepOf("push", i, "none"), StepOf("mark", i, "none")>> ELSE <<>>

\* decide: the page and localStorage first, then the table, then the push.
Decide(b, i, d) ==
  /\ page[b].open
  /\ decisions < MaxDecisions
  /\ decisions' = decisions + 1
  /\ page' = [page EXCEPT ![b].show = Swiped(@, i, d)]
  /\ local' = [local EXCEPT ![b] = Swiped(@, i, d)]
  /\ FlagGone(b)
  /\ \E t \in Tasks \ Busy :
       task' = [task EXCEPT ![t] = [by |-> b, from |-> "decide", todo |-> DecideSteps(i, d)]]
  /\ mixed' = IF Meets(b, i) THEN mixed \cup {i} ELSE mixed
  /\ UNCHANGED <<table, lgm, unsaved, visits, faults>>

\* crossOff on the page of the kept investors: only the table hears of it.
CrossOff(b, i) ==
  /\ table.decision[i] = "keep"
  /\ decisions < MaxDecisions
  /\ decisions' = decisions + 1
  /\ \E t \in Tasks \ Busy :
       task' = [task EXCEPT ![t] = [by |-> b, from |-> "kept",
                                    todo |-> <<StepOf("swipe", i, "cut")>>]]
  /\ mixed' = IF Touched(i) \/ \E o \in Browsers : Knows(o, i)
              THEN mixed \cup {i} ELSE mixed
  /\ UNCHANGED <<table, lgm, local, migrated, page, unsaved, visits, faults>>

\* syncLGMQueue: one push after the other; the button is off meanwhile.
SyncLGM(b) ==
  LET queued == SetToSeq({i \in Linked : "lgm" \in page[b].show.queue[i]})
  IN /\ page[b].open
     /\ TaskOf(b, "sync") = {}
     /\ queued # <<>>
     /\ \E t \in Tasks \ Busy :
          task' = [task EXCEPT ![t] =
            [by |-> b, from |-> "sync",
             todo |-> [n \in 1 .. 2 * Len(queued) |->
                         StepOf(IF n % 2 = 1 THEN "push" ELSE "mark",
                                queued[(n + 1) \div 2], "none")]]]
     /\ mixed' = mixed \cup {i \in Ids : Touched(i) /\ \E n \in DOMAIN queued : queued[n] = i}
     /\ UNCHANGED <<table, lgm, local, migrated, page, unsaved, decisions, visits, faults>>

\* onReset: localStorage first, the page when the table is cleared.
Reset(b) ==
  /\ page[b].open
  /\ TaskOf(b, "reset") = {}
  /\ decisions < MaxDecisions
  /\ decisions' = decisions + 1
  /\ local' = [local EXCEPT ![b] = Empty]
  /\ FlagGone(b)
  /\ \E t \in Tasks \ Busy :
       task' = [task EXCEPT ![t] = [by |-> b, from |-> "reset",
                                    todo |-> <<StepOf("clear", "all", "none")>>]]
  /\ mixed' = mixed \cup {i \in Ids : Touched(i) \/ \E o \in Browsers \ {b} : Knows(o, i)}
  /\ UNCHANGED <<table, lgm, page, unsaved, visits, faults>>

-----------------------------------------------------------------------------
(* The requests. *)

\* What the tab of a task, unless it is closed, shows after the first step.
Shown(t, s) ==
  CASE s.op = "mark" /\ task[t].from # "nobody" ->
         [page EXCEPT ![task[t].by].show.queue[s.id] = @ \ {"lgm"}]
    [] s.op = "clear" /\ task[t].from # "nobody" ->
         [page EXCEPT ![task[t].by].show = Empty]
    [] OTHER -> page

\* The request is answered, and the task goes on; a migration that comes to its
\* end sets the flag, whatever happened to localStorage since it began.
Answered(t) ==
  /\ t \in Busy
  /\ LET s == Head(task[t].todo)
         rest == Tail(task[t].todo)
         b == task[t].by
     IN /\ Effect(s)
        /\ page' = Shown(t, s)
        /\ task' = [task EXCEPT ![t] = IF rest = <<>> THEN Free ELSE [@ EXCEPT !.todo = rest]]
        /\ local' = IF task[t].from = "migrate" /\ rest # <<>>
                    THEN [local EXCEPT ![b] = LocalWrite(@, Head(rest))] ELSE local
        /\ migrated' = IF task[t].from = "migrate" THEN [migrated EXCEPT ![b] = rest = <<>>]
                       ELSE migrated
  /\ UNCHANGED ghosts

\* Mutant of AfterRefusal: the investor is marked all the same.
AfterRefusalMark(todo) == Tail(todo)

\* syncLGMQueue counts a refused push and goes on to the next investor.
AfterRefusal(todo) == Tail(Tail(todo))

\* A request fails before it was served or after; of the two statements of
\* markSynced the first may be done.  The task ends with it, but a sync goes on
\* to the next investor when a push was refused.
Failed(t) ==
  /\ t \in Busy
  /\ faults < MaxFaults
  /\ faults' = faults + 1
  /\ LET s == Head(task[t].todo)
     IN /\ \/ Effect(s)
           \/ UNCHANGED <<table, lgm>>
           \/ /\ s.op = "mark"
              /\ table' = [table EXCEPT !.synced = @ \cup {s.id}]
              /\ UNCHANGED lgm
        /\ unsaved' = unsaved \cup (IF s.op = "clear" THEN Ids
                                   ELSE IF s.op \in {"push", "mark"} THEN {} ELSE {s.id})
        /\ \/ task' = [task EXCEPT ![t] = Free]
           \/ /\ task[t].from = "sync" /\ s.op = "push"
              /\ AfterRefusal(task[t].todo) # <<>>
              /\ task' = [task EXCEPT ![t].todo = AfterRefusal(@)]
  /\ UNCHANGED <<local, migrated, page, mixed, decisions, visits>>

SwipeNext ==
  \/ \E b \in Browsers :
       \/ Load(b)
       \/ LoadFailed(b)
       \/ \E i \in Ids, d \in Decision : Decide(b, i, d)
       \/ \E i \in Ids : CrossOff(b, i)
       \/ SyncLGM(b)
       \/ Reset(b)
  \/ \E t \in Tasks : Answered(t) \/ Failed(t)

SwipeSpec == SwipeInit /\ [][SwipeNext]_vars

-----------------------------------------------------------------------------
(* Properties *)

\* The variables hold what the pages, the route and localStorage can hold.
SwipeTypeOK ==
  /\ table \in [decision : [Ids -> Decision \cup {"none"}], queue : [Ids -> SUBSET Kinds],
                synced : SUBSET Ids]
  /\ lgm \subseteq Linked
  /\ local \in [Browsers -> Content]
  /\ migrated \in [Browsers -> BOOLEAN]
  /\ page \in [Browsers -> [open : BOOLEAN, show : Content]]
  /\ task \in [Tasks -> Task \cup {Free}]
  /\ \A t \in Busy : task[t].todo # <<>>
  /\ mixed \subseteq Ids /\ unsaved \subseteq Ids

\* A browser that says it is migrated has nothing the table does not have:
\* whatever request failed, the next load sends everything again.
FlagIsHonest ==
  \A b \in Browsers, i \in Ids \ mixed :
    migrated[b] /\ local[b].decision[i] # "none" =>
      /\ table.decision[i] = local[b].decision[i]
      /\ local[b].queue[i] \subseteq table.queue[i]
           \cup (IF i \in lgm THEN {"lgm"} ELSE {})

\* An investor that the table and a browser keep, and who can be pushed, is not
\* forgotten: in the queue of the table, given to La Growth Machine, or queued
\* by the browser, which still has to tell the table.
KeptIsQueuedOrPushed ==
  \A b \in Browsers, i \in Linked \ mixed :
    table.decision[i] = "keep" /\ local[b].decision[i] = "keep" =>
      \/ "lgm" \in table.queue[i]
      \/ i \in lgm
      \/ ~migrated[b] /\ "lgm" \in local[b].queue[i]

\* Who is given to La Growth Machine is kept by the table, or unknown to it
\* because the save failed.
OnlyKeptArePushed ==
  [][\A i \in lgm' \ lgm : i \notin mixed \cup unsaved => table.decision[i] = "keep"]_vars
=============================================================================
