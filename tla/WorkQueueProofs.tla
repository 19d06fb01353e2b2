-------------------------- MODULE WorkQueueProofs --------------------------
(***************************************************************************)
(* For every set of nodes, every dependency relation, every limit and any  *)
(* number of faults: the types of the rows, the ownership of a row by its  *)
(* task, the safety of the dependency order, the cause of a skip and the   *)
(* reach of a failure, what a completed session leaves behind, and that    *)
(* the work queue implements DagExecution.  Then the queue with any number *)
(* of replies of users: that one node is executed by one task, that        *)
(* replies keep the order of the dependencies and that they lose no        *)
(* wake-up.                                                                *)
(***************************************************************************)
EXTENDS WorkQueueRefinement, NodeReply, FiniteSetTheorems, TLAPS

-----------------------------------------------------------------------------
(* Type correctness. *)

LEMMA InitTypeOK == Init => TypeOK
<1> SUFFICES ASSUME Init PROVE TypeOK
  OBVIOUS
<1>1. session \in SessionStatus /\ status \in [Nodes -> NodeStatus]
  BY DEF Init, SessionStatus, NodeStatus
<1>2. attempts \in [Nodes -> 0 .. MaxAttempts] /\ faults \in 0 .. MaxFaults
  BY LimitsAssumption DEF Init
<1>3. stale \in [Nodes -> BOOLEAN] /\ task \in [Nodes -> TaskState]
  BY DEF Init, TaskState
<1>4. approving \in BOOLEAN /\ stopping \in BOOLEAN /\ breakpoint \in [Nodes -> BOOLEAN]
  BY Zenon DEF Init
<1>5. QED
  BY <1>1, <1>2, <1>3, <1>4 DEF TypeOK

LEMMA SetAllType ==
  ASSUME TypeOK, NEW S, NEW s \in NodeStatus
  PROVE  SetAll(S, s) \in [Nodes -> NodeStatus]
BY DEF TypeOK, SetAll

LEMMA NextTypeOK == TypeOK /\ [Next]_vars => TypeOK'
<1> SUFFICES ASSUME TypeOK, [Next]_vars PROVE TypeOK'
  OBVIOUS
<1> USE LimitsAssumption DEF TypeOK
<1>1. CASE ApproveSession
  BY <1>1 DEF ApproveSession, rows, SessionStatus
<1>2. CASE ApproveNodes
  BY <1>2, SetAllType DEF ApproveNodes, NodeStatus
<1>3. CASE StopSession
  BY <1>3 DEF StopSession, rows, SessionStatus
<1>4. CASE StopNodes
  BY <1>4, SetAllType DEF StopNodes, NodeStatus
<1>5. CASE Sweep
  BY <1>5 DEF Sweep, calls, NodeStatus
<1>6. ASSUME NEW S \in SUBSET Nodes, Claim(S) PROVE TypeOK'
  <2>1. status' \in [Nodes -> NodeStatus]
    BY <1>6, SetAllType DEF Claim, NodeStatus
  <2>2. attempts' \in [Nodes -> 0 .. MaxAttempts]
    BY <1>6 DEF Claim, Claimable
  <2>3. stale' \in [Nodes -> BOOLEAN] /\ task' \in [Nodes -> TaskState]
    BY <1>6 DEF Claim, TaskState
  <2>4. QED
    BY <1>6, <2>1, <2>2, <2>3 DEF Claim, calls
<1>7. CASE Crash
  <2>1. approving' \in BOOLEAN /\ stopping' \in BOOLEAN
    BY <1>7, Zenon DEF Crash
  <2>2. task' \in [Nodes -> TaskState] /\ faults' \in 0 .. MaxFaults
    BY <1>7 DEF Crash, TaskState
  <2>3. UNCHANGED <<session, rows>>
    BY <1>7 DEF Crash
  <2>4. QED
    BY <2>1, <2>2, <2>3 DEF rows
<1>8. ASSUME NEW n \in Nodes, Release(n) PROVE TypeOK'
  BY <1>8 DEF Release, calls
<1>9. ASSUME NEW n \in Nodes, GrowStale(n) PROVE TypeOK'
  BY <1>9 DEF GrowStale, calls
<1>10. ASSUME NEW n \in Nodes, StatementFails(n) PROVE TypeOK'
  BY <1>10 DEF StatementFails, rows, calls, TaskState
<1>11. ASSUME NEW n \in Nodes, NEW r \in NodeStatus, Persist(n, r) PROVE TypeOK'
  BY <1>11 DEF Persist, AfterPersist, calls, TaskState
<1>12. ASSUME NEW n \in Nodes, Unblock(n) PROVE TypeOK'
  BY <1>12, SetAllType DEF Unblock, calls, NodeStatus, TaskState
<1>13. ASSUME NEW n \in Nodes, Skip(n) PROVE TypeOK'
  BY <1>13, SetAllType DEF Skip, calls, NodeStatus, TaskState
<1>14. ASSUME NEW n \in Nodes, CountSettled(n) PROVE TypeOK'
  BY <1>14 DEF CountSettled, rows, calls, TaskState
<1>15. ASSUME NEW n \in Nodes, Complete(n) PROVE TypeOK'
  BY <1>15 DEF Complete, rows, calls, TaskState, SessionStatus
<1>16. CASE UNCHANGED vars
  BY <1>16 DEF vars, rows, calls
<1>17. QED
  BY <1>1, <1>2, <1>3, <1>4, <1>5, <1>6, <1>7, <1>8, <1>9, <1>10, <1>11, <1>12,
     <1>13, <1>14, <1>15, <1>16 DEF Next, WorkerPoll, TaskStep

\* Every variable keeps its type; in particular attempt_count never passes
\* MAX_ATTEMPTS, however often nodes are lost and claimed again.
THEOREM TypeCorrect == Spec => []TypeOK
<1>1. Init => TypeOK
  BY InitTypeOK
<1>2. TypeOK /\ [Next]_vars => TypeOK'
  BY NextTypeOK
<1>3. QED
  BY <1>1, <1>2, PTL DEF Spec

-----------------------------------------------------------------------------
(* The order of the dependencies.  DependenciesPassed is not inductive by   *)
(* itself: a task that writes its result must be known to write over a     *)
(* "running" row, or it could overwrite a "passed" one.                    *)

OrderInv == TypeOK /\ TaskOwnsRow /\ DependenciesPassed

LEMMA InitOrderInv == Init => OrderInv
<1> SUFFICES ASSUME Init PROVE OrderInv
  OBVIOUS
<1>1. TypeOK
  BY InitTypeOK
<1>2. \A n \in Nodes : status[n] \in {"pending", "waiting"}
  BY DEF Init
<1>3. QED
  BY <1>1, <1>2 DEF Init, OrderInv, TaskOwnsRow, DependenciesPassed

\* A step keeps the order if it keeps every passed row passed, and a row that
\* it makes ready, or moves further, has its requirements passed.
LEMMA OrderKept ==
  ASSUME TypeOK, DependenciesPassed,
         \A n \in Nodes : status[n] = "passed" => status'[n] = "passed",
         \A n \in Nodes :
           status'[n] \in {"ready", "running", "awaiting_reply", "passed", "failed"} =>
             \/ status[n] \in {"ready", "running", "awaiting_reply", "passed", "failed"}
             \/ \A d \in Requires[n] : status[d] = "passed"
  PROVE  DependenciesPassed'
BY RequiresAssumption DEF DependenciesPassed

LEMMA NextOrderInv == OrderInv /\ [Next]_vars => OrderInv'
<1> SUFFICES ASSUME OrderInv, [Next]_vars PROVE OrderInv'
  OBVIOUS
<1>0. TypeOK'
  BY NextTypeOK DEF OrderInv
<1> SUFFICES TaskOwnsRow' /\ DependenciesPassed'
  BY <1>0 DEF OrderInv
<1> USE DEF OrderInv
<1>1. CASE ApproveSession
  BY <1>1 DEF ApproveSession, rows, TaskOwnsRow, DependenciesPassed
<1>2. CASE ApproveNodes
  <2>1. TaskOwnsRow'
    BY <1>2 DEF ApproveNodes, SetAll, TaskOwnsRow
  <2>2. DependenciesPassed'
    BY <1>2, OrderKept DEF ApproveNodes, SetAll
  <2>3. QED
    BY <2>1, <2>2
<1>3. CASE StopSession
  BY <1>3 DEF StopSession, rows, TaskOwnsRow, DependenciesPassed
<1>4. CASE StopNodes
  <2>1. TaskOwnsRow'
    BY <1>4 DEF StopNodes, SetAll, TaskOwnsRow
  <2>2. DependenciesPassed'
    BY <1>4, OrderKept DEF StopNodes, SetAll
  <2>3. QED
    BY <2>1, <2>2
<1>5. CASE Sweep
  <2>1. TaskOwnsRow'
    BY <1>5 DEF Sweep, BatchDone, TaskOwnsRow
  <2>2. DependenciesPassed'
    BY <1>5, OrderKept DEF Sweep, Stuck
  <2>3. QED
    BY <2>1, <2>2
<1>6. ASSUME NEW S \in SUBSET Nodes, Claim(S) PROVE TaskOwnsRow' /\ DependenciesPassed'
  <2>1. TaskOwnsRow'
    BY <1>6 DEF Claim, BatchDone, SetAll, TaskOwnsRow
  <2>2. DependenciesPassed'
    BY <1>6, OrderKept DEF Claim, Claimable, SetAll
  <2>3. QED
    BY <2>1, <2>2
<1>7. CASE Crash
  BY <1>7 DEF Crash, rows, TaskOwnsRow, DependenciesPassed
<1>8. ASSUME NEW n \in Nodes, Release(n) PROVE TaskOwnsRow' /\ DependenciesPassed'
  BY <1>8 DEF Release, TaskOwnsRow, DependenciesPassed
<1>9. ASSUME NEW n \in Nodes, GrowStale(n) PROVE TaskOwnsRow' /\ DependenciesPassed'
  BY <1>9 DEF GrowStale, TaskOwnsRow, DependenciesPassed
<1>10. ASSUME NEW n \in Nodes, StatementFails(n) PROVE TaskOwnsRow' /\ DependenciesPassed'
  BY <1>10 DEF StatementFails, rows, TaskOwnsRow, DependenciesPassed, TypeOK
<1>11. ASSUME NEW n \in Nodes, NEW r \in NodeStatus, Persist(n, r)
       PROVE  TaskOwnsRow' /\ DependenciesPassed'
  <2>1. status[n] = "running"
    BY <1>11 DEF Persist, TaskOwnsRow
  <2>2. TaskOwnsRow'
    BY <1>11 DEF Persist, AfterPersist, TaskOwnsRow, TypeOK
  <2>3. DependenciesPassed'
    BY <1>11, <2>1, OrderKept DEF Persist, TypeOK
  <2>4. QED
    BY <2>2, <2>3
<1>12. ASSUME NEW n \in Nodes, Unblock(n) PROVE TaskOwnsRow' /\ DependenciesPassed'
  <2>1. TaskOwnsRow'
    BY <1>12 DEF Unblock, Unblockable, Blocked, SetAll, TaskOwnsRow, TypeOK
  <2>2. DependenciesPassed'
    BY <1>12, OrderKept DEF Unblock, Unblockable, Blocked, SetAll
  <2>3. QED
    BY <2>1, <2>2
<1>13. ASSUME NEW n \in Nodes, Skip(n) PROVE TaskOwnsRow' /\ DependenciesPassed'
  <2>1. Downstream(n) \subseteq Blocked
    BY DEF Downstream
  <2>2. TaskOwnsRow'
    BY <1>13, <2>1 DEF Skip, Blocked, SetAll, TaskOwnsRow, TypeOK
  <2>3. DependenciesPassed'
    BY <1>13, <2>1, OrderKept DEF Skip, Blocked, SetAll
  <2>4. QED
    BY <2>2, <2>3
<1>14. ASSUME NEW n \in Nodes, CountSettled(n) PROVE TaskOwnsRow' /\ DependenciesPassed'
  BY <1>14 DEF CountSettled, rows, TaskOwnsRow, DependenciesPassed, TypeOK
<1>15. ASSUME NEW n \in Nodes, Complete(n) PROVE TaskOwnsRow' /\ DependenciesPassed'
  BY <1>15 DEF Complete, rows, TaskOwnsRow, DependenciesPassed, TypeOK
<1>16. CASE UNCHANGED vars
  BY <1>16 DEF vars, rows, TaskOwnsRow, DependenciesPassed
<1>17. QED
  BY <1>1, <1>2, <1>3, <1>4, <1>5, <1>6, <1>7, <1>8, <1>9, <1>10, <1>11, <1>12,
     <1>13, <1>14, <1>15, <1>16 DEF Next, WorkerPoll, TaskStep

LEMMA OrderInvariant == Spec => []OrderInv
<1>1. OrderInv /\ [Next]_vars => OrderInv'
  BY NextOrderInv
<1>2. QED
  BY InitOrderInv, <1>1, PTL DEF Spec

\* No node is ready, runs or has run before everything it requires has passed.
THEOREM DependenciesRespected == Spec => []DependenciesPassed
<1>1. OrderInv => DependenciesPassed
  BY DEF OrderInv
<1>2. QED
  BY OrderInvariant, <1>1, PTL

\* A live task always finds its row in the state it left it in.
THEOREM TasksOwnTheirRows == Spec => []TaskOwnsRow
<1>1. OrderInv => TaskOwnsRow
  BY DEF OrderInv
<1>2. QED
  BY OrderInvariant, <1>1, PTL

\* A final status is never rewritten, with crashes and stops included.
THEOREM FinalStatusKept == Spec => FinalStatusStays
<1> DEFINE Kept == \A n \in Nodes : status[n] \in {"passed", "failed", "skipped", "cancelled"}
                                     => status'[n] = status[n]
<1>1. OrderInv /\ [Next]_vars => [Kept]_vars
  <2> SUFFICES ASSUME OrderInv, [Next]_vars PROVE [Kept]_vars
    OBVIOUS
  <2> USE DEF OrderInv, TypeOK
  <2>1. CASE ApproveSession \/ StopSession \/ Crash
    BY <2>1 DEF ApproveSession, StopSession, Crash, rows
  <2>2. CASE ApproveNodes \/ StopNodes
    BY <2>2 DEF ApproveNodes, StopNodes, SetAll
  <2>3. CASE WorkerPoll
    BY <2>3 DEF WorkerPoll, Sweep, Stuck, Claim, Claimable, SetAll
  <2>4. ASSUME NEW n \in Nodes, Release(n) \/ GrowStale(n) \/ StatementFails(n) PROVE Kept
    BY <2>4 DEF Release, GrowStale, StatementFails, rows
  <2>5. ASSUME NEW n \in Nodes, NEW r \in NodeStatus, Persist(n, r) PROVE Kept
    BY <2>5 DEF Persist, TaskOwnsRow
  <2>6. ASSUME NEW n \in Nodes, Unblock(n) PROVE Kept
    BY <2>6 DEF Unblock, Unblockable, Blocked, SetAll
  <2>7. ASSUME NEW n \in Nodes, Skip(n) PROVE Kept
    BY <2>7 DEF Skip, Downstream, Blocked, SetAll
  <2>8. ASSUME NEW n \in Nodes, CountSettled(n) \/ Complete(n) PROVE Kept
    BY <2>8 DEF CountSettled, Complete, rows
  <2>9. CASE UNCHANGED vars
    BY <2>9
  <2>10. QED
    BY <2>1, <2>2, <2>3, <2>4, <2>5, <2>6, <2>7, <2>8, <2>9 DEF Next, TaskStep
<1>2. QED
  BY OrderInvariant, <1>1, PTL DEF Spec, FinalStatusStays

-----------------------------------------------------------------------------
(* Wake-ups.  The rows a step may turn into a waiter without a waker are   *)
(* those whose last requirement passes in that step; its task is then at   *)
(* unblock_downstream.                                                     *)

WakeInv == OrderInv /\ NoLostWakeup

LEMMA InitWakeInv == Init => WakeInv
<1> SUFFICES ASSUME Init PROVE WakeInv
  OBVIOUS
<1>1. OrderInv
  BY InitOrderInv
<1>2. \A n \in Nodes : status[n] # "passed"
  BY DEF Init
<1>3. QED
  BY <1>1, <1>2, RequiresAssumption DEF WakeInv, NoLostWakeup, Blocked

\* A step keeps the wake-ups if no row passes in it, no row becomes blocked,
\* and no task leaves unblock_downstream.
LEMMA WakeupsKept ==
  ASSUME NoLostWakeup, faults' = 0 => faults = 0,
         \A n \in Nodes : status'[n] = "passed" => status[n] = "passed",
         Blocked' \subseteq Blocked,
         faults' = 0 => \A n \in Nodes : task[n] = "unblock" => task'[n] = "unblock"
  PROVE  NoLostWakeup'
BY RequiresAssumption DEF NoLostWakeup, Blocked

LEMMA NextWakeInv == WakeInv /\ [Next]_vars => WakeInv'
<1> SUFFICES ASSUME WakeInv, [Next]_vars PROVE WakeInv'
  OBVIOUS
<1>0. OrderInv'
  BY NextOrderInv DEF WakeInv
<1> SUFFICES NoLostWakeup'
  BY <1>0 DEF WakeInv
<1> USE DEF WakeInv, OrderInv, TypeOK
<1>1. CASE ApproveSession \/ StopSession
  BY <1>1, WakeupsKept DEF ApproveSession, StopSession, rows, Blocked
<1>2. CASE ApproveNodes
  BY <1>2, WakeupsKept DEF ApproveNodes, SetAll, Blocked
<1>3. CASE StopNodes
  BY <1>3, WakeupsKept DEF StopNodes, SetAll, Blocked
<1>4. CASE Sweep
  BY <1>4, WakeupsKept DEF Sweep, Stuck, Blocked
<1>5. ASSUME NEW S \in SUBSET Nodes, Claim(S) PROVE NoLostWakeup'
  BY <1>5, WakeupsKept DEF Claim, BatchDone, SetAll, Blocked
<1>6. ASSUME faults' # 0 PROVE NoLostWakeup'
  BY <1>6 DEF NoLostWakeup
<1>7. CASE Crash
  BY <1>6, <1>7 DEF Crash
<1>8. ASSUME NEW n \in Nodes, StatementFails(n) PROVE NoLostWakeup'
  BY <1>6, <1>8 DEF StatementFails
<1>9. ASSUME NEW n \in Nodes, Release(n) \/ GrowStale(n) PROVE NoLostWakeup'
  BY <1>9, WakeupsKept DEF Release, GrowStale, Blocked
<1>10. ASSUME NEW n \in Nodes, NEW r \in NodeStatus, Persist(n, r) PROVE NoLostWakeup'
  <2>1. status[n] = "running" /\ task[n] = "run"
    BY <1>10 DEF Persist, TaskOwnsRow
  <2>2. CASE r = "passed"
    <3> SUFFICES ASSUME faults' = 0, NEW m \in Blocked', Requires[m] # {},
                        \A d \in Requires[m] : status'[d] = "passed"
                 PROVE  \E d \in Requires[m] : task'[d] = "unblock"
      BY DEF NoLostWakeup
    <3>1. m \in Blocked /\ faults = 0
      BY <1>10, <2>1, <2>2 DEF Persist, Blocked
    <3>2. CASE n \in Requires[m]
      BY <1>10, <2>2, <3>2 DEF Persist, AfterPersist
    <3>3. CASE n \notin Requires[m]
      <4>1. \A d \in Requires[m] : status[d] = "passed"
        BY <1>10, <3>1, <3>3, RequiresAssumption DEF Persist, Blocked
      <4>2. PICK d \in Requires[m] : task[d] = "unblock"
        BY <3>1, <4>1 DEF NoLostWakeup
      <4>3. task'[d] = "unblock"
        BY <1>10, <2>1, <4>2, <3>1, RequiresAssumption DEF Persist, Blocked
      <4>4. QED
        BY <4>3
    <3>4. QED
      BY <3>2, <3>3
  <2>3. CASE r # "passed"
    <3>1. \A m \in Nodes : status'[m] = "passed" => status[m] = "passed"
      BY <1>10, <2>3 DEF Persist
    <3>2. Blocked' \subseteq Blocked
      BY <1>10 DEF Persist, Blocked, Outcomes
    <3>3. \A m \in Nodes : task[m] = "unblock" => task'[m] = "unblock"
      BY <1>10, <2>1 DEF Persist
    <3>4. QED
      BY <1>10, <3>1, <3>2, <3>3, WakeupsKept DEF Persist
  <2>4. QED
    BY <2>2, <2>3
<1>11. ASSUME NEW n \in Nodes, Unblock(n) PROVE NoLostWakeup'
  <2> SUFFICES ASSUME faults' = 0, NEW m \in Blocked', Requires[m] # {},
                      \A d \in Requires[m] : status'[d] = "passed"
               PROVE  \E d \in Requires[m] : task'[d] = "unblock"
    BY DEF NoLostWakeup
  <2>1. m \in Blocked /\ m \notin Unblockable(n) /\ faults = 0
    BY <1>11 DEF Unblock, SetAll, Blocked
  <2>2. \A d \in Requires[m] : d \in Nodes /\ status[d] = "passed"
    BY <1>11, <2>1, RequiresAssumption DEF Unblock, SetAll, Blocked
  <2>3. n \notin Requires[m]
    BY <2>1, <2>2 DEF Unblockable
  <2>4. PICK d \in Requires[m] : task[d] = "unblock"
    BY <2>1, <2>2 DEF NoLostWakeup
  <2>5. task'[d] = "unblock"
    BY <1>11, <2>2, <2>3, <2>4 DEF Unblock
  <2>6. QED
    BY <2>5
<1>12. ASSUME NEW n \in Nodes, Skip(n) PROVE NoLostWakeup'
  <2>1. \A m \in Nodes : status'[m] = "passed" => status[m] = "passed"
    BY <1>12 DEF Skip, SetAll
  <2>2. Blocked' \subseteq Blocked
    BY <1>12 DEF Skip, SetAll, Blocked
  <2>3. \A m \in Nodes : task[m] = "unblock" => task'[m] = "unblock"
    BY <1>12 DEF Skip
  <2>4. QED
    BY <1>12, <2>1, <2>2, <2>3, WakeupsKept DEF Skip
<1>13. ASSUME NEW n \in Nodes, CountSettled(n) \/ Complete(n) PROVE NoLostWakeup'
  <2>1. status' = status /\ faults' = faults
    BY <1>13 DEF CountSettled, Complete, rows
  <2>2. \A m \in Nodes : task[m] = "unblock" => task'[m] = "unblock"
    BY <1>13 DEF CountSettled, Complete
  <2>3. QED
    BY <2>1, <2>2, WakeupsKept DEF Blocked
<1>14. CASE UNCHANGED vars
  BY <1>14, WakeupsKept DEF vars, rows, Blocked
<1>15. QED
  BY <1>1, <1>2, <1>3, <1>4, <1>5, <1>7, <1>8, <1>9, <1>10, <1>11, <1>12, <1>13,
     <1>14 DEF Next, WorkerPoll, TaskStep

\* Without a fault no wake-up is lost: a blocked node whose requirements have
\* all passed has a requirement whose task is about to unblock it.
THEOREM WakeupsArrive == Spec => []NoLostWakeup
<1>1. WakeInv /\ [Next]_vars => WakeInv'
  BY NextWakeInv
<1>2. WakeInv => NoLostWakeup
  BY DEF WakeInv
<1>3. QED
  BY InitWakeInv, <1>1, <1>2, PTL DEF Spec

-----------------------------------------------------------------------------
(* The least set of skip_downstream. *)

LEMMA DownstreamClosed ==
  ASSUME NEW f \in Nodes
  PROVE  ClosedUnder(f, Downstream(f)) /\ Downstream(f) \subseteq Blocked
BY DEF Downstream, ClosedUnder

\* Every member depends on the failed node or on another member.
LEMMA DownstreamHasCause ==
  ASSUME NEW f \in Nodes, NEW m \in Downstream(f)
  PROVE  \E r \in Requires[m] : r = f \/ r \in Downstream(f)
<1> SUFFICES ASSUME \A r \in Requires[m] : r # f /\ r \notin Downstream(f)
             PROVE  FALSE
  OBVIOUS
<1> DEFINE S == Downstream(f) \ {m}
<1>1. S \in SUBSET Blocked
  BY DownstreamClosed
<1>2. ClosedUnder(f, S)
  BY DownstreamClosed DEF ClosedUnder
<1>3. m \in S
  BY <1>1, <1>2 DEF Downstream
<1>4. QED
  BY <1>3

\* A step that takes rows out of Blocked keeps a member that stays blocked, if
\* with a member it takes all the members that require it.
LEMMA DownstreamKept ==
  ASSUME NEW f \in Nodes, NEW m \in Downstream(f), m \in Blocked',
         Blocked' \subseteq Blocked,
         \A x \in Downstream(f) :
           (\E y \in Requires[x] : y \in Downstream(f) /\ y \notin Blocked')
             => x \notin Blocked'
  PROVE  m \in Downstream(f)'
<1> SUFFICES ASSUME NEW T \in SUBSET Blocked', ClosedUnder(f, T)' PROVE m \in T
  BY DEF Downstream
<1> DEFINE S == {x \in Downstream(f) : x \in T \/ x \notin Blocked'}
<1>1. S \in SUBSET Blocked
  BY DownstreamClosed
<1>2. ClosedUnder(f, S)
  <2> SUFFICES ASSUME NEW x \in Blocked, Requires[x] \cap (S \cup {f}) # {}
               PROVE  x \in S
    BY DEF ClosedUnder
  <2>1. x \in Downstream(f)
    BY DownstreamClosed DEF ClosedUnder
  <2>2. CASE x \notin Blocked'
    BY <2>1, <2>2
  <2>3. CASE x \in Blocked'
    <3>1. PICK y \in Requires[x] : y \in S \/ y = f
      OBVIOUS
    <3>2. y \in T \/ y = f
      BY <2>1, <2>3, <3>1
    <3>3. x \in T
      BY <2>3, <3>2 DEF ClosedUnder
    <3>4. QED
      BY <2>1, <3>3
  <2>4. QED
    BY <2>2, <2>3
<1>3. m \in S
  BY <1>1, <1>2 DEF Downstream
<1>4. QED
  BY <1>3

-----------------------------------------------------------------------------
(* The cause of a skip.  Nothing else is needed than that the task which   *)
(* skips has failed its own row, and that a final status stays.            *)

CauseInv == OrderInv /\ SkippedHasCause

LEMMA InitCauseInv == Init => CauseInv
<1> SUFFICES ASSUME Init PROVE CauseInv
  OBVIOUS
<1>1. OrderInv
  BY InitOrderInv
<1>2. SkippedHasCause
  BY DEF Init, SkippedHasCause
<1>3. QED
  BY <1>1, <1>2 DEF CauseInv

\* A step keeps the causes if failed and skipped rows stay so and no row is
\* skipped.
LEMMA CausesKept ==
  ASSUME SkippedHasCause,
         \A n \in Nodes : status[n] \in {"failed", "skipped"} => status'[n] = status[n],
         \A n \in Nodes : status'[n] = "skipped" => status[n] = "skipped"
  PROVE  SkippedHasCause'
BY RequiresAssumption DEF SkippedHasCause

LEMMA NextCauseInv == CauseInv /\ [Next]_vars => CauseInv'
<1> SUFFICES ASSUME CauseInv, [Next]_vars PROVE CauseInv'
  OBVIOUS
<1>0. OrderInv'
  BY NextOrderInv DEF CauseInv
<1> SUFFICES SkippedHasCause'
  BY <1>0 DEF CauseInv
<1> USE DEF CauseInv, OrderInv, TypeOK
<1>1. CASE ApproveSession \/ StopSession \/ Crash
  BY <1>1, CausesKept DEF ApproveSession, StopSession, Crash, rows
<1>2. CASE ApproveNodes \/ StopNodes
  BY <1>2, CausesKept DEF ApproveNodes, StopNodes, SetAll
<1>3. CASE WorkerPoll
  BY <1>3, CausesKept DEF WorkerPoll, Sweep, Stuck, Claim, Claimable, SetAll
<1>4. ASSUME NEW n \in Nodes, Release(n) \/ GrowStale(n) \/ StatementFails(n)
      PROVE  SkippedHasCause'
  BY <1>4, CausesKept DEF Release, GrowStale, StatementFails, rows
<1>5. ASSUME NEW n \in Nodes, NEW r \in NodeStatus, Persist(n, r) PROVE SkippedHasCause'
  BY <1>5, CausesKept DEF Persist, Outcomes, TaskOwnsRow
<1>6. ASSUME NEW n \in Nodes, Unblock(n) PROVE SkippedHasCause'
  BY <1>6, CausesKept DEF Unblock, Unblockable, Blocked, SetAll
<1>7. ASSUME NEW n \in Nodes, Skip(n) PROVE SkippedHasCause'
  <2> SUFFICES ASSUME NEW m \in Nodes, status'[m] = "skipped"
               PROVE  \E d \in Requires[m] : status'[d] \in {"failed", "skipped"}
    BY DEF SkippedHasCause
  <2>1. status[n] = "failed" /\ n \notin Downstream(n)
    BY <1>7, DownstreamClosed DEF Skip, TaskOwnsRow, Blocked
  <2>2. status'[n] = "failed"
    BY <1>7, <2>1 DEF Skip, SetAll
  <2>3. CASE m \in Downstream(n)
    <3>1. PICK r \in Requires[m] : r = n \/ r \in Downstream(n)
      BY <2>3, DownstreamHasCause
    <3>2. r \in Downstream(n) => status'[r] = "skipped"
      BY <1>7, RequiresAssumption DEF Skip, SetAll
    <3>3. QED
      BY <2>2, <3>1, <3>2
  <2>4. CASE m \notin Downstream(n)
    <3>1. PICK d \in Requires[m] : status[d] \in {"failed", "skipped"}
      BY <1>7, <2>4 DEF Skip, SetAll, SkippedHasCause
    <3>2. d \in Nodes /\ d \notin Downstream(n)
      BY <3>1, DownstreamClosed, RequiresAssumption DEF Blocked
    <3>3. QED
      BY <1>7, <3>1, <3>2 DEF Skip, SetAll
  <2>5. QED
    BY <2>3, <2>4
<1>8. ASSUME NEW n \in Nodes, CountSettled(n) \/ Complete(n) PROVE SkippedHasCause'
  BY <1>8, CausesKept DEF CountSettled, Complete, rows
<1>9. CASE UNCHANGED vars
  BY <1>9, CausesKept DEF vars, rows
<1>10. QED
  BY <1>1, <1>2, <1>3, <1>4, <1>5, <1>6, <1>7, <1>8, <1>9 DEF Next, TaskStep

\* Whatever crashes or is stopped, a node is skipped only because a requirement
\* of it failed or was skipped.
THEOREM SkipsHaveCauses == Spec => []SkippedHasCause
<1>1. CauseInv /\ [Next]_vars => CauseInv'
  BY NextCauseInv
<1>2. CauseInv => SkippedHasCause
  BY DEF CauseInv
<1>3. QED
  BY InitCauseInv, <1>1, <1>2, PTL DEF Spec

-----------------------------------------------------------------------------
(* Attempts.  A row that was never ready has not used any, and the sweep   *)
(* gives back only rows with attempts left.                                *)

Untried == \A n \in Blocked : attempts[n] = 0

AttemptsInv == TypeOK /\ Untried /\ ReadyHasAttempts

LEMMA InitAttemptsInv == Init => AttemptsInv
<1> SUFFICES ASSUME Init PROVE AttemptsInv
  OBVIOUS
<1>1. TypeOK
  BY InitTypeOK
<1>2. \A n \in Nodes : attempts[n] = 0 /\ status[n] # "ready"
  BY DEF Init
<1>3. QED
  BY <1>1, <1>2 DEF AttemptsInv, Untried, ReadyHasAttempts, Blocked

LEMMA NextAttemptsInv == AttemptsInv /\ [Next]_vars => AttemptsInv'
<1> SUFFICES ASSUME AttemptsInv, [Next]_vars PROVE AttemptsInv'
  OBVIOUS
<1>0. TypeOK'
  BY NextTypeOK DEF AttemptsInv
<1> SUFFICES Untried' /\ ReadyHasAttempts'
  BY <1>0 DEF AttemptsInv
<1> USE LimitsAssumption DEF AttemptsInv, TypeOK, Untried, ReadyHasAttempts, Blocked
<1>1. CASE ApproveSession \/ StopSession \/ Crash
  BY <1>1 DEF ApproveSession, StopSession, Crash, rows
<1>2. CASE ApproveNodes \/ StopNodes
  BY <1>2 DEF ApproveNodes, StopNodes, SetAll
<1>3. CASE Sweep
  BY <1>3 DEF Sweep, Stuck
<1>4. ASSUME NEW S \in SUBSET Nodes, Claim(S) PROVE Untried' /\ ReadyHasAttempts'
  BY <1>4 DEF Claim, SetAll
<1>5. ASSUME NEW n \in Nodes, Release(n) \/ GrowStale(n) \/ StatementFails(n)
      PROVE  Untried' /\ ReadyHasAttempts'
  BY <1>5 DEF Release, GrowStale, StatementFails, rows
<1>6. ASSUME NEW n \in Nodes, NEW r \in NodeStatus, Persist(n, r)
      PROVE  Untried' /\ ReadyHasAttempts'
  BY <1>6 DEF Persist, Outcomes
<1>7. ASSUME NEW n \in Nodes, Unblock(n) PROVE Untried' /\ ReadyHasAttempts'
  BY <1>7 DEF Unblock, Unblockable, SetAll
<1>8. ASSUME NEW n \in Nodes, Skip(n) PROVE Untried' /\ ReadyHasAttempts'
  BY <1>8 DEF Skip, SetAll
<1>9. ASSUME NEW n \in Nodes, CountSettled(n) \/ Complete(n)
      PROVE  Untried' /\ ReadyHasAttempts'
  BY <1>9 DEF CountSettled, Complete, rows
<1>10. CASE UNCHANGED vars
  BY <1>10 DEF vars, rows
<1>11. QED
  BY <1>1, <1>2, <1>3, <1>4, <1>5, <1>6, <1>7, <1>8, <1>9, <1>10
     DEF Next, WorkerPoll, TaskStep

\* A ready row is one the claim can take: the sweep leaves none without attempts.
THEOREM ReadyRowsCanBeClaimed == Spec => []ReadyHasAttempts
<1>1. AttemptsInv /\ [Next]_vars => AttemptsInv'
  BY NextAttemptsInv
<1>2. AttemptsInv => ReadyHasAttempts
  BY DEF AttemptsInv
<1>3. QED
  BY InitAttemptsInv, <1>1, <1>2, PTL DEF Spec

-----------------------------------------------------------------------------
(* Completion.  The count and the update are two statements; what makes    *)
(* them safe is that rows which are all settled cannot be unsettled: no    *)
(* task runs, nothing is blocked, and there is nothing to sweep or claim.  *)

ClosingInv ==
  /\ OrderInv
  /\ (session = "completed" \/ \E n \in Nodes : task[n] = "complete") => AllSettled

LEMMA InitClosingInv == Init => ClosingInv
BY InitOrderInv DEF Init, ClosingInv

\* Nothing happens to the rows of a session whose rows are all settled.
LEMMA SettledForGood ==
  ASSUME OrderInv, AllSettled, [Next]_vars
  PROVE  AllSettled' /\ status' = status
<1> SUFFICES status' = status
  BY DEF AllSettled
<1> USE DEF OrderInv, TypeOK, AllSettled, Settled
<1>1. CASE ApproveSession \/ StopSession \/ Crash
  BY <1>1 DEF ApproveSession, StopSession, Crash, rows
<1>2. CASE ApproveNodes \/ StopNodes
  BY <1>2 DEF ApproveNodes, StopNodes, SetAll
<1>3. CASE WorkerPoll
  BY <1>3 DEF WorkerPoll, Sweep, Stuck, Claim, Claimable, SetAll
<1>4. ASSUME NEW n \in Nodes, Release(n) \/ GrowStale(n) \/ StatementFails(n)
      PROVE  status' = status
  BY <1>4 DEF Release, GrowStale, StatementFails, rows
<1>5. ASSUME NEW n \in Nodes, NEW r \in NodeStatus, Persist(n, r) PROVE status' = status
  BY <1>5 DEF Persist, TaskOwnsRow
<1>6. ASSUME NEW n \in Nodes, Unblock(n) PROVE status' = status
  BY <1>6 DEF Unblock, Unblockable, Blocked, SetAll
<1>7. ASSUME NEW n \in Nodes, Skip(n) PROVE status' = status
  BY <1>7, DownstreamClosed DEF Skip, Blocked, SetAll
<1>8. ASSUME NEW n \in Nodes, CountSettled(n) \/ Complete(n) PROVE status' = status
  BY <1>8 DEF CountSettled, Complete, rows
<1>9. CASE UNCHANGED vars
  BY <1>9 DEF vars, rows
<1>10. QED
  BY <1>1, <1>2, <1>3, <1>4, <1>5, <1>6, <1>7, <1>8, <1>9 DEF Next, TaskStep

LEMMA NextClosingInv == ClosingInv /\ [Next]_vars => ClosingInv'
<1> SUFFICES ASSUME ClosingInv, [Next]_vars PROVE ClosingInv'
  OBVIOUS
<1>0. OrderInv'
  BY NextOrderInv DEF ClosingInv
<1>1. CASE AllSettled
  BY <1>0, <1>1, SettledForGood DEF ClosingInv
<1>2. CASE ~AllSettled
  <2>1. session # "completed" /\ \A n \in Nodes : task[n] # "complete"
    BY <1>2 DEF ClosingInv
  <2> SUFFICES session' # "completed" /\ \A n \in Nodes : task'[n] # "complete"
    BY <1>0 DEF ClosingInv
  <2> USE DEF ClosingInv, OrderInv, TypeOK
  <2>2. CASE ApproveSession \/ StopSession \/ ApproveNodes \/ StopNodes
    BY <2>1, <2>2 DEF ApproveSession, StopSession, ApproveNodes, StopNodes
  <2>3. CASE WorkerPoll
    BY <2>1, <2>3 DEF WorkerPoll, Sweep, Claim
  <2>4. CASE Crash
    BY <2>1, <2>4 DEF Crash
  <2>5. ASSUME NEW n \in Nodes, Release(n) \/ GrowStale(n) \/ StatementFails(n)
        PROVE  session' # "completed" /\ \A m \in Nodes : task'[m] # "complete"
    BY <2>1, <2>5 DEF Release, GrowStale, StatementFails
  <2>6. ASSUME NEW n \in Nodes, NEW r \in NodeStatus, Persist(n, r)
        PROVE  session' # "completed" /\ \A m \in Nodes : task'[m] # "complete"
    BY <2>1, <2>6 DEF Persist, AfterPersist
  <2>7. ASSUME NEW n \in Nodes, Unblock(n) \/ Skip(n) \/ CountSettled(n) \/ Complete(n)
        PROVE  session' # "completed" /\ \A m \in Nodes : task'[m] # "complete"
    BY <1>2, <2>1, <2>7 DEF Unblock, Skip, CountSettled, Complete
  <2>8. CASE UNCHANGED vars
    BY <2>1, <2>8 DEF vars
  <2>9. QED
    BY <2>2, <2>3, <2>4, <2>5, <2>6, <2>7, <2>8 DEF Next, TaskStep
<1>3. QED
  BY <1>1, <1>2

LEMMA ClosingInvariant == Spec => []ClosingInv
<1>1. ClosingInv /\ [Next]_vars => ClosingInv'
  BY NextClosingInv
<1>2. QED
  BY InitClosingInv, <1>1, PTL DEF Spec

\* A completed session has nothing blocked, ready or running, and never again.
THEOREM CompletedSessionsAreSettled == Spec => []CompletedIsSettled
<1>1. ClosingInv => CompletedIsSettled
  BY DEF ClosingInv, AllSettled, Settled, CompletedIsSettled
<1>2. QED
  BY ClosingInvariant, <1>1, PTL

-----------------------------------------------------------------------------
(* The reach of a failure.  Without a fault a running row has its task, so *)
(* the sweep finds nothing, and a blocked node behind a failure stays in   *)
(* the least set of the task that will skip it until it is skipped.        *)

RunnersLive == faults = 0 => \A n \in Nodes : status[n] = "running" => task[n] = "run"

DoomInv == OrderInv /\ RunnersLive /\ DoomedAreSkipped

LEMMA InitDoomInv == Init => DoomInv
<1> SUFFICES ASSUME Init PROVE DoomInv
  OBVIOUS
<1>1. OrderInv
  BY InitOrderInv
<1>2. \A n \in Nodes : status[n] \in {"pending", "waiting"}
  BY DEF Init
<1>3. QED
  BY <1>1, <1>2, RequiresAssumption DEF DoomInv, RunnersLive, DoomedAreSkipped, Blocked

LEMMA NextRunnersLive == OrderInv /\ RunnersLive /\ [Next]_vars => RunnersLive'
<1> SUFFICES ASSUME OrderInv, RunnersLive, [Next]_vars PROVE RunnersLive'
  OBVIOUS
<1> USE LimitsAssumption DEF OrderInv, TypeOK, RunnersLive
<1>1. CASE ApproveSession \/ StopSession
  BY <1>1 DEF ApproveSession, StopSession, rows
<1>2. CASE ApproveNodes \/ StopNodes
  BY <1>2 DEF ApproveNodes, StopNodes, SetAll
<1>3. CASE WorkerPoll
  BY <1>3 DEF WorkerPoll, Sweep, Claim, SetAll
<1>4. CASE Crash
  BY <1>4 DEF Crash
<1>5. ASSUME NEW n \in Nodes, Release(n) \/ GrowStale(n) \/ StatementFails(n)
      PROVE  RunnersLive'
  BY <1>5 DEF Release, GrowStale, StatementFails
<1>6. ASSUME NEW n \in Nodes, NEW r \in NodeStatus, Persist(n, r) PROVE RunnersLive'
  BY <1>6 DEF Persist, Outcomes
<1>7. ASSUME NEW n \in Nodes, Unblock(n) PROVE RunnersLive'
  BY <1>7 DEF Unblock, SetAll
<1>8. ASSUME NEW n \in Nodes, Skip(n) PROVE RunnersLive'
  BY <1>8 DEF Skip, SetAll
<1>9. ASSUME NEW n \in Nodes, CountSettled(n) \/ Complete(n) PROVE RunnersLive'
  BY <1>9 DEF CountSettled, Complete, rows
<1>10. CASE UNCHANGED vars
  BY <1>10 DEF vars, rows
<1>11. QED
  BY <1>1, <1>2, <1>3, <1>4, <1>5, <1>6, <1>7, <1>8, <1>9, <1>10 DEF Next, TaskStep

\* A step keeps the reach of failures if nothing fails or is skipped in it, no
\* task leaves skip_downstream, and the rows that leave Blocked are in the reach
\* of no failure.
LEMMA ReachKept ==
  ASSUME DoomedAreSkipped, faults' = 0 => faults = 0,
         \A n \in Nodes : status'[n] \in {"failed", "skipped"} => status[n] \in {"failed", "skipped"},
         Blocked' \subseteq Blocked,
         faults' = 0 => \A f \in Nodes : task[f] = "skip" => task'[f] = "skip",
         \A f \in Nodes : task[f] = "skip" => Downstream(f) \subseteq Blocked'
  PROVE  DoomedAreSkipped'
<1> SUFFICES ASSUME faults' = 0, NEW n \in Blocked',
                    NEW d \in Requires[n], status'[d] \in {"failed", "skipped"}
             PROVE  \E f \in Nodes : task'[f] = "skip" /\ n \in Downstream(f)'
  BY DEF DoomedAreSkipped
<1>1. n \in Blocked /\ d \in Nodes /\ status[d] \in {"failed", "skipped"}
  BY RequiresAssumption DEF Blocked
<1>2. PICK f \in Nodes : task[f] = "skip" /\ n \in Downstream(f)
  BY <1>1 DEF DoomedAreSkipped
<1>3. n \in Downstream(f)'
  BY <1>2, DownstreamKept
<1>4. QED
  BY <1>2, <1>3

LEMMA NextDoomInv == DoomInv /\ [Next]_vars => DoomInv'
<1> SUFFICES ASSUME DoomInv, [Next]_vars PROVE DoomInv'
  OBVIOUS
<1>0. OrderInv' /\ RunnersLive'
  BY NextOrderInv, NextRunnersLive DEF DoomInv
<1> SUFFICES DoomedAreSkipped'
  BY <1>0 DEF DoomInv
<1> USE DEF DoomInv, OrderInv, TypeOK
<1>1. \A f \in Nodes : Downstream(f) \subseteq Blocked
  BY DownstreamClosed
<1>2. CASE ApproveSession \/ StopSession
  BY <1>1, <1>2, ReachKept DEF ApproveSession, StopSession, rows, Blocked
<1>3. CASE ApproveNodes
  <2>1. \A f \in Nodes : \A m \in Downstream(f) : Requires[m] # {}
    BY DownstreamHasCause
  <2>2. \A f \in Nodes : Downstream(f) \subseteq Blocked'
    BY <1>1, <1>3, <2>1 DEF ApproveNodes, SetAll, Blocked
  <2>3. QED
    BY <1>3, <2>2, ReachKept DEF ApproveNodes, SetAll, Blocked
<1>4. CASE StopNodes
  BY <1>4 DEF StopNodes, SetAll, Blocked, DoomedAreSkipped
<1>5. CASE Sweep
  <2>1. faults' # 0
    BY <1>5 DEF Sweep, Stuck, BatchDone, RunnersLive
  <2>2. QED
    BY <2>1 DEF DoomedAreSkipped
<1>6. ASSUME NEW S \in SUBSET Nodes, Claim(S) PROVE DoomedAreSkipped'
  <2>1. status' = SetAll(S, "running") /\ faults' = faults
    BY <1>6 DEF Claim
  <2>2. Blocked' = Blocked
    BY <1>6, <2>1 DEF Claim, Claimable, SetAll, Blocked
  <2>3. \A f \in Nodes : task[f] # "skip"
    BY <1>6 DEF Claim, BatchDone
  <2>4. QED
    BY <2>1, <2>2, <2>3, ReachKept DEF SetAll
<1>7. CASE Crash
  BY <1>7 DEF Crash, DoomedAreSkipped
<1>8. ASSUME NEW n \in Nodes, Release(n) \/ GrowStale(n) PROVE DoomedAreSkipped'
  BY <1>1, <1>8, ReachKept DEF Release, GrowStale, Blocked
<1>9. ASSUME NEW n \in Nodes, StatementFails(n) PROVE DoomedAreSkipped'
  BY <1>9 DEF StatementFails, DoomedAreSkipped
<1>10. ASSUME NEW g \in Nodes, NEW r \in NodeStatus, Persist(g, r)
       PROVE  DoomedAreSkipped'
  <2>1. status[g] = "running" /\ task[g] = "run"
    BY <1>10 DEF Persist, TaskOwnsRow
  <2>2. Blocked' = Blocked /\ faults' = faults
    BY <1>10, <2>1 DEF Persist, Outcomes, Blocked
  <2>3. \A f \in Nodes : task[f] = "skip" => task'[f] = "skip"
    BY <1>10, <2>1 DEF Persist
  <2>4. CASE r # "failed"
    <3>1. \A n \in Nodes : status'[n] \in {"failed", "skipped"}
                             => status[n] \in {"failed", "skipped"}
      BY <1>10, <2>4 DEF Persist, Outcomes
    <3>2. QED
      BY <1>1, <2>2, <2>3, <3>1, ReachKept
  <2>5. CASE r = "failed"
    <3> SUFFICES ASSUME faults' = 0, NEW n \in Blocked',
                        NEW d \in Requires[n], status'[d] \in {"failed", "skipped"}
                 PROVE  \E f \in Nodes : task'[f] = "skip" /\ n \in Downstream(f)'
      BY DEF DoomedAreSkipped
    <3>1. n \in Blocked /\ n \in Nodes /\ d \in Nodes
      BY <2>2, RequiresAssumption DEF Blocked
    <3>2. CASE d = g
      <4>1. task'[g] = "skip"
        BY <1>10, <2>5 DEF Persist, AfterPersist
      <4>2. n \in Downstream(g)
        BY <3>1, <3>2, DownstreamClosed DEF ClosedUnder
      <4>3. n \in Downstream(g)'
        BY <1>1, <2>2, <4>2, DownstreamKept
      <4>4. QED
        BY <4>1, <4>3
    <3>3. CASE d # g
      <4>1. status[d] \in {"failed", "skipped"}
        BY <1>10, <3>1, <3>3 DEF Persist
      <4>2. PICK f \in Nodes : task[f] = "skip" /\ n \in Downstream(f)
        BY <2>2, <3>1, <4>1 DEF DoomedAreSkipped
      <4>3. n \in Downstream(f)'
        BY <1>1, <2>2, <4>2, DownstreamKept
      <4>4. QED
        BY <2>3, <4>2, <4>3
    <3>4. QED
      BY <3>2, <3>3
  <2>6. QED
    BY <2>4, <2>5
<1>11. ASSUME NEW g \in Nodes, Unblock(g) PROVE DoomedAreSkipped'
  <2>1. Blocked' = Blocked \ Unblockable(g)
    BY <1>11 DEF Unblock, SetAll, Blocked, Unblockable
  <2>2. ASSUME NEW f \in Nodes, task[f] = "skip" PROVE Downstream(f) \subseteq Blocked'
    <3> SUFFICES ASSUME NEW m \in Downstream(f) PROVE m \notin Unblockable(g)
      BY <1>1, <2>1
    <3>1. PICK r \in Requires[m] : r = f \/ r \in Downstream(f)
      BY DownstreamHasCause
    <3>2. status[r] # "passed"
      BY <1>1, <2>2, <3>1 DEF TaskOwnsRow, Blocked
    <3>3. QED
      BY <3>1, <3>2 DEF Unblockable
  <2>3. \A f \in Nodes : task[f] = "skip" => task'[f] = "skip"
    BY <1>11 DEF Unblock
  <2>4. \A n \in Nodes : status'[n] \in {"failed", "skipped"}
                           => status[n] \in {"failed", "skipped"}
    BY <1>11 DEF Unblock, SetAll
  <2>5. faults' = faults
    BY <1>11 DEF Unblock
  <2>6. QED
    BY <2>1, <2>2, <2>3, <2>4, <2>5, ReachKept
<1>12. ASSUME NEW g \in Nodes, Skip(g) PROVE DoomedAreSkipped'
  <2> SUFFICES ASSUME faults' = 0, NEW n \in Blocked',
                      NEW d \in Requires[n], status'[d] \in {"failed", "skipped"}
               PROVE  \E f \in Nodes : task'[f] = "skip" /\ n \in Downstream(f)'
    BY DEF DoomedAreSkipped
  <2>1. Blocked' = Blocked \ Downstream(g) /\ faults = 0
    BY <1>12 DEF Skip, SetAll, Blocked
  <2>2. n \in Blocked /\ n \notin Downstream(g) /\ d \in Nodes
    BY <2>1, RequiresAssumption DEF Blocked
  <2>3. d \notin Downstream(g)
    BY <2>2, DownstreamClosed DEF ClosedUnder
  <2>4. status[d] \in {"failed", "skipped"}
    BY <1>12, <2>2, <2>3 DEF Skip, SetAll
  <2>5. PICK f \in Nodes : task[f] = "skip" /\ n \in Downstream(f)
    BY <2>1, <2>2, <2>4 DEF DoomedAreSkipped
  <2>6. task'[f] = "skip"
    BY <1>12, <2>2, <2>5 DEF Skip
  <2>7. ASSUME NEW x \in Downstream(f), NEW y \in Requires[x],
               y \in Downstream(f), y \notin Blocked'
        PROVE  x \notin Blocked'
    <3>1. x \in Blocked /\ y \in Downstream(g)
      BY <1>1, <2>1, <2>7
    <3>2. x \in Downstream(g)
      BY <3>1, DownstreamClosed DEF ClosedUnder
    <3>3. QED
      BY <2>1, <3>2
  <2>8. n \in Downstream(f)'
    BY <2>1, <2>5, <2>7, DownstreamKept
  <2>9. QED
    BY <2>6, <2>8
<1>13. ASSUME NEW g \in Nodes, CountSettled(g) \/ Complete(g) PROVE DoomedAreSkipped'
  <2>1. status' = status /\ faults' = faults
    BY <1>13 DEF CountSettled, Complete, rows
  <2>2. \A f \in Nodes : task[f] = "skip" => task'[f] = "skip"
    BY <1>13 DEF CountSettled, Complete
  <2>3. QED
    BY <1>1, <2>1, <2>2, ReachKept DEF Blocked
<1>14. CASE UNCHANGED vars
  BY <1>1, <1>14, ReachKept DEF vars, rows, Blocked
<1>15. QED
  BY <1>2, <1>3, <1>4, <1>5, <1>6, <1>7, <1>8, <1>9, <1>10, <1>11, <1>12, <1>13,
     <1>14 DEF Next, WorkerPoll, TaskStep

\* Without a fault every blocked node behind a failure is in the reach of a task
\* that is about to skip it.
THEOREM FailuresReach == Spec => []DoomedAreSkipped
<1>1. DoomInv /\ [Next]_vars => DoomInv'
  BY NextDoomInv
<1>2. DoomInv => DoomedAreSkipped
  BY DEF DoomInv
<1>3. QED
  BY InitDoomInv, <1>1, <1>2, PTL DEF Spec

\* Both directions at once: what a failure reaches is skipped or about to be, and
\* nothing else is.
THEOREM SkipsReachExactly == Spec => []SkipsAreExact
<1>1. DoomedAreSkipped /\ SkippedHasCause <=> SkipsAreExact
  BY DEF SkipsAreExact
<1>2. QED
  BY FailuresReach, SkipsHaveCauses, <1>1, PTL

-----------------------------------------------------------------------------
(* The work queue implements DagExecution.  The invariant the step needs is  *)
(* that of completion, and that a session being stopped is stopped (or was   *)
(* completed since): only this makes the drop of its rows a legal one.       *)

StopInv == stopping => session \in {"cancelled", "completed"}

ImplInv == ClosingInv /\ StopInv

LEMMA NextStopInv == TypeOK /\ StopInv /\ [Next]_vars => StopInv'
<1> SUFFICES ASSUME TypeOK, StopInv, [Next]_vars PROVE StopInv'
  OBVIOUS
<1> USE DEF TypeOK, StopInv
<1>1. CASE ApproveSession \/ ApproveNodes \/ StopNodes
  BY <1>1 DEF ApproveSession, ApproveNodes, StopNodes
<1>2. CASE StopSession
  BY <1>2 DEF StopSession, SessionStatus
<1>3. CASE WorkerPoll \/ Crash
  BY <1>3 DEF WorkerPoll, Sweep, Claim, Crash, calls
<1>4. ASSUME NEW n \in Nodes, Release(n) \/ GrowStale(n) \/ StatementFails(n)
      PROVE  StopInv'
  BY <1>4 DEF Release, GrowStale, StatementFails, calls
<1>5. ASSUME NEW n \in Nodes, TaskStep(n) PROVE StopInv'
  BY <1>5 DEF TaskStep, Persist, Unblock, Skip, CountSettled, Complete, calls
<1>6. CASE UNCHANGED vars
  BY <1>6 DEF vars, calls
<1>7. QED
  BY <1>1, <1>2, <1>3, <1>4, <1>5, <1>6 DEF Next

LEMMA ImplInvariant == Spec => []ImplInv
<1>1. Init => ImplInv
  BY InitClosingInv DEF Init, ImplInv, StopInv
<1>2. ImplInv /\ [Next]_vars => ImplInv'
  BY NextClosingInv, NextStopInv DEF ImplInv, ClosingInv, OrderInv
<1>3. QED
  BY <1>1, <1>2, PTL DEF Spec

LEMMA InitImplements == Init => Dag!DagInit
BY DEF Init, Dag!DagInit, PhaseOf, VerdictOf

\* Steps that keep the mapped state.
LEMMA Unseen ==
  ASSUME attempts' = attempts, session' = session,
         \A n \in Nodes : PhaseOf(status[n])' = PhaseOf(status[n])
  PROVE  UNCHANGED Dag!dagVars
BY DEF Dag!dagVars

LEMMA NextImplements == ImplInv /\ [Next]_vars => [Dag!DagNext]_(Dag!dagVars)
<1> SUFFICES ASSUME ImplInv, [Next]_vars PROVE Dag!DagNext \/ UNCHANGED Dag!dagVars
  OBVIOUS
<1> USE DEF ImplInv, ClosingInv, OrderInv, TypeOK
<1>1. CASE ApproveSession
  BY <1>1 DEF ApproveSession, rows, Dag!DagNext, Dag!Approve, Dag!dagVars, VerdictOf
<1>2. CASE ApproveNodes
  BY <1>2, Unseen DEF ApproveNodes, SetAll, PhaseOf
<1>3. CASE StopSession
  BY <1>3 DEF StopSession, rows, Dag!DagNext, Dag!Stop, Dag!dagVars, VerdictOf
<1>4. CASE StopNodes
  <2> DEFINE S == {n \in Nodes : status[n] \in {"pending", "waiting", "ready"}}
  <2>1. CASE session = "completed"
    BY <1>4, <2>1, Unseen DEF StopNodes, SetAll, AllSettled, Settled
  <2>2. CASE session = "cancelled"
    <3>1. Dag!Drop(S)
      BY <1>4, <2>2 DEF StopNodes, SetAll, Dag!Drop, Dag!InPhase, PhaseOf, VerdictOf
    <3>2. QED
      BY <3>1 DEF Dag!DagNext
  <2>3. QED
    BY <1>4, <2>1, <2>2 DEF StopNodes, StopInv
<1>5. CASE Sweep
  <2>1. Dag!GiveBack(Stuck)
    <3>1. \A n \in Nodes : attempts[n] >= MaxAttempts <=> attempts[n] = MaxAttempts
      BY LimitsAssumption
    <3>2. \A n \in Nodes :
            status'[n] = IF n \notin Stuck THEN status[n]
                         ELSE IF attempts[n] = MaxAttempts THEN "failed" ELSE "ready"
      BY <1>5, <3>1 DEF Sweep
    <3>3. Stuck \subseteq Dag!InPhase("running")
      BY DEF Stuck, Dag!InPhase, PhaseOf
    <3>4. QED
      BY <1>5, <3>2, <3>3 DEF Sweep, Dag!GiveBack, PhaseOf, VerdictOf
  <2>2. QED
    BY <2>1 DEF Dag!DagNext, Stuck
<1>6. ASSUME NEW S \in SUBSET Nodes, Claim(S) PROVE Dag!DagNext
  <2>1. \A n \in S : Requires[n] \subseteq Dag!InPhase("passed")
    BY <1>6, RequiresAssumption
       DEF Claim, Claimable, DependenciesPassed, Dag!InPhase, PhaseOf
  <2>2. Dag!Start(S)
    BY <1>6, <2>1 DEF Claim, Claimable, SetAll, Dag!Start, Dag!InPhase, PhaseOf, VerdictOf
  <2>3. QED
    BY <2>2 DEF Dag!DagNext
<1>7. CASE Crash
  BY <1>7, Unseen DEF Crash, rows
<1>8. ASSUME NEW n \in Nodes, Release(n) \/ GrowStale(n) \/ StatementFails(n)
      PROVE  UNCHANGED Dag!dagVars
  BY <1>8, Unseen DEF Release, GrowStale, StatementFails, rows
<1>9. ASSUME NEW n \in Nodes, NEW r \in NodeStatus, Persist(n, r) PROVE Dag!DagNext
  <2>1. Dag!Finish(n)
    BY <1>9 DEF Persist, Outcomes, TaskOwnsRow, Dag!Finish, PhaseOf
  <2>2. QED
    BY <2>1 DEF Dag!DagNext
<1>10. ASSUME NEW n \in Nodes, Unblock(n) PROVE UNCHANGED Dag!dagVars
  BY <1>10, Unseen DEF Unblock, Unblockable, Blocked, SetAll, PhaseOf
<1>11. ASSUME NEW n \in Nodes, Skip(n) PROVE Dag!DagNext
  <2>1. Downstream(n) \subseteq Blocked /\ status[n] = "failed"
    BY <1>11, DownstreamClosed DEF Skip, TaskOwnsRow
  <2>2. ASSUME NEW m \in Downstream(n)
        PROVE  \E r \in Requires[m] : PhaseOf(status[r])' \in {"failed", "dropped"}
    <3>1. PICK r \in Requires[m] : r = n \/ r \in Downstream(n)
      BY DownstreamHasCause
    <3>2. r \in Nodes
      BY <2>1, <3>1 DEF Blocked
    <3>3. status'[r] \in {"failed", "skipped"}
      BY <1>11, <2>1, <3>1, <3>2 DEF Skip, SetAll, Blocked
    <3>4. QED
      BY <3>1, <3>3 DEF PhaseOf
  <2>3. Dag!Drop(Downstream(n))
    BY <1>11, <2>1, <2>2, RequiresAssumption
       DEF Skip, Blocked, SetAll, Dag!Drop, Dag!InPhase, PhaseOf
  <2>4. QED
    BY <2>1, <2>3 DEF Dag!DagNext, Blocked
<1>12. ASSUME NEW n \in Nodes, CountSettled(n) PROVE UNCHANGED Dag!dagVars
  BY <1>12, Unseen DEF CountSettled, rows
<1>13. ASSUME NEW n \in Nodes, Complete(n) PROVE Dag!DagNext \/ UNCHANGED Dag!dagVars
  <2>1. AllSettled
    BY <1>13 DEF Complete
  <2>2. CASE session = "completed"
    BY <1>13, <2>2, Unseen DEF Complete, rows
  <2>3. CASE session # "completed"
    <3>1. Dag!Close
      BY <1>13, <2>1, <2>3 DEF Complete, rows, AllSettled, Settled, SessionStatus,
         Dag!Close, Dag!InPhase, PhaseOf, VerdictOf
    <3>2. QED
      BY <3>1 DEF Dag!DagNext
  <2>4. QED
    BY <2>2, <2>3
<1>14. CASE UNCHANGED vars
  BY <1>14, Unseen DEF vars, rows
<1>15. QED
  BY <1>1, <1>2, <1>3, <1>4, <1>5, <1>6, <1>7, <1>8, <1>9, <1>10, <1>11, <1>12,
     <1>13, <1>14 DEF Next, WorkerPoll, TaskStep

\* What the work queue does with its rows, tasks, crashes and stops is, to its
\* user, an execution of the plan as DagExecution promises it.
THEOREM QueueImplementsDag == Spec => ImplementsDagExecution
<1>1. Init => Dag!DagInit
  BY InitImplements
<1>2. ImplInv /\ [Next]_vars => [Dag!DagNext]_(Dag!dagVars)
  BY NextImplements
<1>3. QED
  BY ImplInvariant, <1>1, <1>2, PTL DEF Spec, ImplementsDagExecution, Dag!DagSpec

-----------------------------------------------------------------------------
(* The queue with replies. *)

\* A reply executes a row that says "running" and that no task of the queue
\* executes, nor another reply.
RepliesOwnTheirRows ==
  \A c \in Replies : replyAt[c] = "run" =>
    /\ status[replyTo[c]] = "running" /\ task[replyTo[c]] # "run"
    /\ \A e \in Replies : replyAt[e] = "run" /\ replyTo[e] = replyTo[c] => e = c

\* A call that has read its row, and is not over, is about a node.
CallsHaveNodes ==
  \A c \in Replies : replyAt[c] \notin {"unsent", "none"} => replyTo[c] \in Nodes

ReplyInv ==
  /\ ReplyTypeOK
  /\ CallsHaveNodes
  /\ ~trampled => TaskOwnsRow /\ DependenciesPassed /\ RepliesOwnTheirRows
  /\ WakeupsWithReplies

-----------------------------------------------------------------------------
(* The steps of the queue as a reply sees them: the sweep and a crash apart, *)
(* they leave a row alone that is running without a task of theirs.          *)

QueueStep ==
  \/ ApproveSession \/ ApproveNodes \/ StopSession \/ StopNodes
  \/ \E S \in SUBSET Nodes : Claim(S)
  \/ \E n \in Nodes : Release(n) \/ GrowStale(n) \/ TaskStep(n) \/ StatementFails(n)

QueueStepBeside ==
  QueueStep /\ conv' \in [Nodes -> BOOLEAN] /\ UNCHANGED <<replyTo, replyAt, trampled>>

LEMMA QueueStepIsNext == QueueStep => Next
BY DEF QueueStep, Next, WorkerPoll

LEMMA ReplyNextCases ==
  ASSUME ReplyTypeOK, ReplyNext
  PROVE  \/ QueueStepBeside
         \/ SweepBesideReplies
         \/ CrashWithReplies
         \/ \E c \in Replies : \/ ReplyStep(c)
                               \/ ReplyStatementFails(c)
                               \/ \E n \in Nodes : CheckReply(c, n)
<1> DEFINE Quiet == conv' \in [Nodes -> BOOLEAN] /\ UNCHANGED <<replyTo, replyAt, trampled>>
<1>1. ASSUME UNCHANGED replyVars PROVE Quiet
  BY <1>1 DEF replyVars, ReplyTypeOK
<1>2. ASSUME NEW n \in Nodes, NEW r \in NodeStatus, PersistWithConversation(n, r)
      PROVE  QueueStepBeside
  <2>1. Persist(n, r) /\ UNCHANGED <<replyTo, replyAt, trampled>>
    BY <1>2 DEF PersistWithConversation
  <2>2. PICK saved \in BOOLEAN : conv' = [conv EXCEPT ![n] = conv[n] \/ saved]
    BY <1>2 DEF PersistWithConversation
  <2>3. conv' \in [Nodes -> BOOLEAN]
    BY <2>2 DEF ReplyTypeOK
  <2>4. QED
    BY <2>1, <2>3 DEF QueueStepBeside, QueueStep, TaskStep
<1>3. CASE Beside(ApproveSession) \/ Beside(ApproveNodes) \/ Beside(StopSession) \/ Beside(StopNodes)
  BY <1>1, <1>3 DEF Beside, QueueStepBeside, QueueStep
<1>4. CASE QueuePoll
  BY <1>1, <1>4 DEF QueuePoll, Beside, QueueStepBeside, QueueStep
<1>5. ASSUME NEW n \in Nodes, Beside(Release(n)) \/ Beside(GrowStale(n)) \/ Beside(StatementFails(n))
      PROVE  QueueStepBeside
  BY <1>1, <1>5 DEF Beside, QueueStepBeside, QueueStep
<1>6. ASSUME NEW n \in Nodes, QueueTaskStep(n) PROVE QueueStepBeside
  BY <1>1, <1>2, <1>6 DEF QueueTaskStep, Beside, QueueStepBeside, QueueStep, TaskStep
<1>7. QED
  BY <1>3, <1>4, <1>5, <1>6 DEF ReplyNext

LEMMA RunningLeftAlone ==
  ASSUME TypeOK, QueueStep, NEW m \in Nodes, status[m] = "running", task[m] # "run"
  PROVE  status'[m] = "running" /\ task'[m] # "run"
<1> USE DEF TypeOK
<1>1. CASE ApproveSession \/ StopSession
  BY <1>1 DEF ApproveSession, StopSession, rows
<1>2. CASE ApproveNodes \/ StopNodes
  BY <1>2 DEF ApproveNodes, StopNodes, SetAll
<1>3. ASSUME NEW S \in SUBSET Nodes, Claim(S) PROVE status'[m] = "running" /\ task'[m] # "run"
  BY <1>3 DEF Claim, Claimable, SetAll
<1>4. ASSUME NEW n \in Nodes, Release(n) \/ GrowStale(n) PROVE status'[m] = "running" /\ task'[m] # "run"
  BY <1>4 DEF Release, GrowStale
<1>5. ASSUME NEW n \in Nodes, StatementFails(n) PROVE status'[m] = "running" /\ task'[m] # "run"
  BY <1>5 DEF StatementFails, rows
<1>6. ASSUME NEW n \in Nodes, NEW r \in NodeStatus, Persist(n, r)
      PROVE  status'[m] = "running" /\ task'[m] # "run"
  BY <1>6 DEF Persist
<1>7. ASSUME NEW n \in Nodes, Unblock(n) PROVE status'[m] = "running" /\ task'[m] # "run"
  BY <1>7 DEF Unblock, Unblockable, Blocked, SetAll
<1>8. ASSUME NEW n \in Nodes, Skip(n) PROVE status'[m] = "running" /\ task'[m] # "run"
  BY <1>8 DEF Skip, Downstream, Blocked, SetAll
<1>9. ASSUME NEW n \in Nodes, CountSettled(n) \/ Complete(n)
      PROVE  status'[m] = "running" /\ task'[m] # "run"
  BY <1>9 DEF CountSettled, Complete, rows
<1>10. QED
  BY <1>1, <1>2, <1>3, <1>4, <1>5, <1>6, <1>7, <1>8, <1>9 DEF QueueStep, TaskStep

-----------------------------------------------------------------------------
(* Types. *)

LEMMA InitReplyInv == ReplyInit => ReplyInv
<1> SUFFICES ASSUME ReplyInit PROVE ReplyInv
  OBVIOUS
<1>0. Init
  BY DEF ReplyInit
<1>1. OrderInv
  BY <1>0, InitOrderInv
<1>2. replyTo \in [Replies -> Nodes \cup {NoNode}] /\ replyAt \in [Replies -> ReplyState]
  BY DEF ReplyInit, ReplyState
<1>3. conv \in [Nodes -> BOOLEAN] /\ trampled \in BOOLEAN
  BY Zenon DEF ReplyInit
<1>4. ReplyTypeOK
  BY <1>1, <1>2, <1>3 DEF ReplyTypeOK, OrderInv
<1>5. CallsHaveNodes /\ RepliesOwnTheirRows
  BY DEF ReplyInit, CallsHaveNodes, RepliesOwnTheirRows
<1>6. WakeupsWithReplies
  <2>1. \A n \in Nodes : status[n] # "passed"
    BY <1>0 DEF Init
  <2>2. QED
    BY <2>1, RequiresAssumption DEF WakeupsWithReplies, Blocked
<1>7. QED
  BY <1>1, <1>4, <1>5, <1>6 DEF ReplyInv, OrderInv

\* Where a call goes, its node stays or is given up.
LEMMA GoesType ==
  ASSUME ReplyTypeOK, CallsHaveNodes, NEW c \in Replies, NEW at \in ReplyState, Goes(c, at),
         at # "none" => replyTo[c] \in Nodes
  PROVE  /\ replyTo' \in [Replies -> Nodes \cup {NoNode}] /\ replyAt' \in [Replies -> ReplyState]
         /\ CallsHaveNodes'
         /\ replyAt'[c] = at /\ (at # "none" => replyTo'[c] = replyTo[c])
         /\ \A e \in Replies \ {c} : replyAt'[e] = replyAt[e] /\ replyTo'[e] = replyTo[e]
BY DEF Goes, ReplyTypeOK, CallsHaveNodes

LEMMA AfterReplyType ==
  ASSUME NEW r PROVE AfterReply(r) \in ReplyState
BY DEF AfterReply, AfterPersist, ReplyState, TaskState

\* A call of which one more step is made.
LEMMA ReplyTypesKept ==
  ASSUME ReplyTypeOK, CallsHaveNodes, [ReplyNext]_allVars
  PROVE  ReplyTypeOK' /\ CallsHaveNodes'
<1> USE LimitsAssumption
<1>0. TypeOK
  BY DEF ReplyTypeOK
<1>q. ASSUME [Next]_vars PROVE TypeOK'
  BY <1>0, <1>q, NextTypeOK
<1>1. CASE QueueStepBeside
  <2>1. TypeOK'
    BY <1>1, <1>q, QueueStepIsNext DEF QueueStepBeside
  <2>2. ReplyTypeOK'
    BY <1>1, <2>1 DEF QueueStepBeside, ReplyTypeOK
  <2>3. QED
    BY <1>1, <2>2 DEF QueueStepBeside, CallsHaveNodes
<1>2. CASE SweepBesideReplies
  <2>1. TypeOK'
    BY <1>2, <1>q DEF SweepBesideReplies, Next, WorkerPoll
  <2>2. trampled' \in BOOLEAN
    BY <1>2, Zenon DEF SweepBesideReplies, ReplyTypeOK
  <2>3. QED
    BY <1>2, <2>1, <2>2 DEF SweepBesideReplies, ReplyTypeOK, CallsHaveNodes
<1>3. CASE CrashWithReplies
  <2>1. TypeOK'
    BY <1>3, <1>q DEF CrashWithReplies, Next
  <2>2. replyAt' \in [Replies -> ReplyState] /\ replyTo' \in [Replies -> Nodes \cup {NoNode}]
    BY <1>3 DEF CrashWithReplies, ReplyState, TaskState
  <2>3. ReplyTypeOK'
    BY <1>3, <2>1, <2>2, Zenon DEF CrashWithReplies, ReplyTypeOK
  <2>4. CallsHaveNodes'
    BY <1>3 DEF CrashWithReplies, CallsHaveNodes
  <2>5. QED
    BY <2>3, <2>4
<1>4. ASSUME NEW c \in Replies, NEW n \in Nodes, CheckReply(c, n) PROVE ReplyTypeOK' /\ CallsHaveNodes'
  <2>1. TypeOK' /\ UNCHANGED <<conv, trampled>>
    BY <1>4, <1>q DEF CheckReply
  <2>2. CASE ReplyRefused(n)
    BY <1>4, <2>1, <2>2 DEF CheckReply, Goes, ReplyTypeOK, CallsHaveNodes, ReplyState, TaskState
  <2>3. CASE ~ReplyRefused(n)
    BY <1>4, <2>1, <2>3 DEF CheckReply, ReplyTypeOK, CallsHaveNodes, ReplyState
  <2>4. QED
    BY <2>2, <2>3
<1> DEFINE Goes1(c) == \E at \in ReplyState : Goes(c, at) /\ (at # "none" => replyTo[c] \in Nodes)
<1>5. ASSUME NEW c \in Replies, Goes1(c), TypeOK', trampled' \in BOOLEAN, UNCHANGED conv
      PROVE  ReplyTypeOK' /\ CallsHaveNodes'
  <2>1. PICK at \in ReplyState : Goes(c, at) /\ (at # "none" => replyTo[c] \in Nodes)
    BY <1>5
  <2>2. /\ replyTo' \in [Replies -> Nodes \cup {NoNode}] /\ replyAt' \in [Replies -> ReplyState]
        /\ CallsHaveNodes'
    BY <2>1, GoesType
  <2>3. QED
    BY <1>5, <2>2 DEF ReplyTypeOK
<1>6. ASSUME NEW c \in Replies, MarkRunning(c) PROVE ReplyTypeOK' /\ CallsHaveNodes'
  <2>1. replyTo[c] \in Nodes
    BY <1>6 DEF MarkRunning, CallsHaveNodes
  <2>2. TypeOK'
    BY <1>0, <1>6, <2>1 DEF MarkRunning, TypeOK, NodeStatus, calls
  <2>3. trampled' \in BOOLEAN
    BY <1>6, Zenon DEF MarkRunning, ReplyTypeOK
  <2>4. Goes1(c)
    BY <1>6, <2>1 DEF MarkRunning, ReplyState, TaskState
  <2>5. UNCHANGED conv
    BY <1>6 DEF MarkRunning
  <2>6. QED
    BY <1>5, <2>2, <2>3, <2>4, <2>5
<1>7. ASSUME NEW c \in Replies, NEW r \in NodeStatus, PersistReply(c, r)
      PROVE  ReplyTypeOK' /\ CallsHaveNodes'
  <2>1. replyTo[c] \in Nodes
    BY <1>7 DEF PersistReply, CallsHaveNodes
  <2>2. TypeOK'
    BY <1>0, <1>7, <2>1 DEF PersistReply, TypeOK, calls
  <2>3. Goes1(c)
    BY <1>7, <2>1, AfterReplyType DEF PersistReply
  <2>4. trampled' \in BOOLEAN /\ UNCHANGED conv
    BY <1>7 DEF PersistReply, ReplyTypeOK
  <2>5. QED
    BY <1>5, <2>2, <2>3, <2>4
<1>8. ASSUME NEW c \in Replies, UnblockAfterReply(c) \/ SkipAfterReply(c)
      PROVE  ReplyTypeOK' /\ CallsHaveNodes'
  <2>1. replyTo[c] \in Nodes
    BY <1>8 DEF UnblockAfterReply, SkipAfterReply, CallsHaveNodes
  <2>2. status' \in [Nodes -> NodeStatus]
    BY <1>0, <1>8, SetAllType DEF UnblockAfterReply, SkipAfterReply, NodeStatus
  <2>3. TypeOK'
    BY <1>0, <1>8, <2>2 DEF UnblockAfterReply, SkipAfterReply, TypeOK, calls
  <2>4. Goes1(c)
    BY <1>8, <2>1 DEF UnblockAfterReply, SkipAfterReply, ReplyState, TaskState
  <2>5. trampled' \in BOOLEAN /\ UNCHANGED conv
    BY <1>8 DEF UnblockAfterReply, SkipAfterReply, ReplyTypeOK
  <2>6. QED
    BY <1>5, <2>3, <2>4, <2>5
<1>9. ASSUME NEW c \in Replies, CountAfterReply(c) \/ CompleteAfterReply(c)
      PROVE  ReplyTypeOK' /\ CallsHaveNodes'
  <2>1. replyTo[c] \in Nodes
    BY <1>9 DEF CountAfterReply, CompleteAfterReply, CallsHaveNodes
  <2>2. TypeOK'
    BY <1>0, <1>9 DEF CountAfterReply, CompleteAfterReply, TypeOK, SessionStatus, vars, rows, calls
  <2>3. Goes1(c)
    BY <1>9, <2>1 DEF CountAfterReply, CompleteAfterReply, ReplyState, TaskState
  <2>4. trampled' \in BOOLEAN /\ UNCHANGED conv
    BY <1>9 DEF CountAfterReply, CompleteAfterReply, ReplyTypeOK
  <2>5. QED
    BY <1>5, <2>2, <2>3, <2>4
<1>10. ASSUME NEW c \in Replies, ReplyStatementFails(c) PROVE ReplyTypeOK' /\ CallsHaveNodes'
  <2>1. replyTo[c] \in Nodes
    BY <1>10 DEF ReplyStatementFails, CallsHaveNodes
  <2>2. TypeOK'
    BY <1>0, <1>10 DEF ReplyStatementFails, TypeOK, rows, calls
  <2>3. Goes1(c)
    BY <1>10, <2>1, AfterReplyType DEF ReplyStatementFails, ReplyState, TaskState
  <2>4. trampled' \in BOOLEAN /\ UNCHANGED conv
    BY <1>10 DEF ReplyStatementFails, ReplyTypeOK
  <2>5. QED
    BY <1>5, <2>2, <2>3, <2>4
<1>11. CASE UNCHANGED allVars
  BY <1>0, <1>11 DEF allVars, vars, rows, calls, replyVars, ReplyTypeOK, TypeOK, CallsHaveNodes
<1>12. QED
  BY <1>1, <1>2, <1>3, <1>4, <1>6, <1>7, <1>8, <1>9, <1>10, <1>11, ReplyNextCases DEF ReplyStep

-----------------------------------------------------------------------------
(* One runner, and the order of the dependencies, up to the first trampled   *)
(* row.  A step that tramples on a row ends the promise, so only the others  *)
(* count: none of them makes trampled false again.                           *)

RowsInv == TaskOwnsRow /\ DependenciesPassed /\ RepliesOwnTheirRows

\* What was proved of the steps of the queue holds beside replies.
LEMMA QueueKeepsOrder ==
  ASSUME TypeOK, RowsInv, [Next]_vars
  PROVE  TaskOwnsRow' /\ DependenciesPassed'
BY NextOrderInv DEF OrderInv, RowsInv

\* A step that only moves replies on keeps what the rows promise.
LEMMA RowsUntouched ==
  ASSUME RowsInv, CallsHaveNodes, UNCHANGED <<status, task>>,
         \A c \in Replies : replyAt'[c] = "run" => replyAt[c] = "run" /\ replyTo'[c] = replyTo[c]
  PROVE  RowsInv'
BY DEF RowsInv, TaskOwnsRow, DependenciesPassed, RepliesOwnTheirRows

LEMMA RowsKept ==
  ASSUME ReplyTypeOK, CallsHaveNodes, ~trampled => RowsInv, [ReplyNext]_allVars, ~trampled'
  PROVE  RowsInv'
<1>0. TypeOK /\ trampled \in BOOLEAN
  BY DEF ReplyTypeOK
<1>1. CASE QueueStepBeside
  <2>1. RowsInv /\ QueueStep
    BY <1>1 DEF QueueStepBeside
  <2>2. TaskOwnsRow' /\ DependenciesPassed'
    BY <1>0, <2>1, QueueKeepsOrder, QueueStepIsNext
  <2>3. \A m \in Nodes : status[m] = "running" /\ task[m] # "run" => status'[m] = "running" /\ task'[m] # "run"
    BY <1>0, <2>1, RunningLeftAlone
  <2>4. RepliesOwnTheirRows'
    BY <1>1, <2>1, <2>3 DEF QueueStepBeside, RowsInv, RepliesOwnTheirRows, CallsHaveNodes
  <2>5. QED
    BY <2>2, <2>4 DEF RowsInv
<1>2. CASE SweepBesideReplies
  <2>1. RowsInv /\ Sweep /\ UNCHANGED <<replyTo, replyAt>>
    BY <1>2, Zenon DEF SweepBesideReplies
  <2>2. TaskOwnsRow' /\ DependenciesPassed'
    BY <1>0, <2>1, QueueKeepsOrder DEF Next, WorkerPoll
  <2>3. \A n \in Stuck : ~ReplyOn(n, {"run"})
    BY <1>2, Zenon DEF SweepBesideReplies
  <2>4. \A c \in Replies : replyAt[c] = "run" => replyTo[c] \in Nodes \ Stuck
    BY <2>3 DEF CallsHaveNodes, ReplyOn
  <2>5. RepliesOwnTheirRows'
    BY <2>1, <2>4 DEF Sweep, RowsInv, RepliesOwnTheirRows
  <2>6. QED
    BY <2>2, <2>5 DEF RowsInv
<1>3. CASE CrashWithReplies
  <2>1. RowsInv /\ \A c \in Replies : replyAt'[c] # "run"
    BY <1>3 DEF CrashWithReplies
  <2>2. TaskOwnsRow' /\ DependenciesPassed'
    BY <1>0, <1>3, <2>1, QueueKeepsOrder DEF CrashWithReplies, Next
  <2>3. QED
    BY <2>1, <2>2 DEF RowsInv, RepliesOwnTheirRows
<1>4. ASSUME NEW c \in Replies, NEW n \in Nodes, CheckReply(c, n) PROVE RowsInv'
  <2>1. RowsInv /\ UNCHANGED <<status, task>>
    BY <1>4 DEF CheckReply, vars, rows
  <2>2. \A e \in Replies : replyAt'[e] = "run" => replyAt[e] = "run" /\ replyTo'[e] = replyTo[e]
    BY <1>4 DEF CheckReply, Goes, ReplyTypeOK
  <2>3. QED
    BY <2>1, <2>2, RowsUntouched
<1>5. ASSUME NEW c \in Replies, MarkRunning(c) PROVE RowsInv'
  <2> DEFINE n == replyTo[c]
  <2>1. n \in Nodes /\ replyAt[c] = "mark"
    BY <1>5 DEF MarkRunning, CallsHaveNodes
  <2>2. ~trampled /\ status[n] = "awaiting_reply"
    BY <1>5, Zenon DEF MarkRunning
  <2>3. RowsInv
    BY <2>2
  <2>4. task[n] \notin {"run", "unblock", "skip"} /\ task' = task
    BY <1>5, <2>1, <2>2, <2>3 DEF MarkRunning, RowsInv, TaskOwnsRow
  <2>5. status' = [status EXCEPT ![n] = "running"]
    BY <1>5 DEF MarkRunning
  <2>6. TaskOwnsRow'
    BY <1>0, <2>1, <2>3, <2>4, <2>5 DEF RowsInv, TaskOwnsRow, TypeOK
  <2>7. DependenciesPassed'
    BY <1>0, <2>1, <2>2, <2>3, <2>5, OrderKept DEF RowsInv, TypeOK
  <2>8. /\ replyAt'[c] = "run" /\ replyTo' = replyTo
        /\ \A e \in Replies \ {c} : replyAt'[e] = replyAt[e]
    BY <1>5 DEF MarkRunning, Goes, ReplyTypeOK
  <2>9. \A e \in Replies : replyAt[e] = "run" => replyTo[e] # n
    BY <2>2, <2>3 DEF RowsInv, RepliesOwnTheirRows
  <2>10. RepliesOwnTheirRows'
    BY <1>0, <2>1, <2>3, <2>4, <2>5, <2>8, <2>9 DEF RowsInv, RepliesOwnTheirRows, CallsHaveNodes, TypeOK
  <2>11. QED
    BY <2>6, <2>7, <2>10 DEF RowsInv
<1>6. ASSUME NEW c \in Replies, NEW r \in NodeStatus, PersistReply(c, r) PROVE RowsInv'
  <2> DEFINE n == replyTo[c]
  <2>1. n \in Nodes /\ replyAt[c] = "run" /\ RowsInv
    BY <1>6 DEF PersistReply, CallsHaveNodes
  <2>2. status[n] = "running" /\ task[n] # "run" /\ task' = task
    BY <1>6, <2>1 DEF PersistReply, RowsInv, RepliesOwnTheirRows
  <2>3. status' = [status EXCEPT ![n] = r]
    BY <1>6 DEF PersistReply
  <2>4. TaskOwnsRow'
    BY <1>0, <2>1, <2>2, <2>3 DEF RowsInv, TaskOwnsRow, TypeOK
  <2>5. DependenciesPassed'
    BY <1>0, <2>1, <2>2, <2>3, OrderKept DEF RowsInv, TypeOK
  <2>6. /\ replyAt'[c] # "run"
        /\ \A e \in Replies \ {c} : replyAt'[e] = replyAt[e] /\ replyTo'[e] = replyTo[e]
    BY <1>6 DEF PersistReply, Goes, AfterReply, AfterPersist, ReplyTypeOK
  <2>7. RepliesOwnTheirRows'
    BY <1>0, <2>1, <2>2, <2>3, <2>6 DEF RowsInv, RepliesOwnTheirRows, CallsHaveNodes, TypeOK
  <2>8. QED
    BY <2>4, <2>5, <2>7 DEF RowsInv
<1>7. ASSUME NEW c \in Replies, UnblockAfterReply(c) \/ SkipAfterReply(c) PROVE RowsInv'
  <2>1. replyTo[c] \in Nodes /\ RowsInv /\ task' = task
    BY <1>7 DEF UnblockAfterReply, SkipAfterReply, CallsHaveNodes
  <2>2. \A m \in Nodes \ Blocked : status'[m] = status[m]
    BY <1>7 DEF UnblockAfterReply, SkipAfterReply, SetAll, Unblockable, Downstream
  <2>3. \A m \in Blocked : \/ status'[m] = status[m]
                           \/ status'[m] = "skipped"
                           \/ status'[m] = "ready" /\ \A d \in Requires[m] : status[d] = "passed"
    BY <1>7 DEF UnblockAfterReply, SkipAfterReply, SetAll, Unblockable, Blocked
  <2>4. TaskOwnsRow'
    BY <2>1, <2>2 DEF RowsInv, TaskOwnsRow, Blocked
  <2>5. DependenciesPassed'
    BY <1>0, <2>1, <2>2, <2>3, OrderKept DEF RowsInv, Blocked
  <2>6. /\ replyAt'[c] # "run"
        /\ \A e \in Replies \ {c} : replyAt'[e] = replyAt[e] /\ replyTo'[e] = replyTo[e]
    BY <1>7 DEF UnblockAfterReply, SkipAfterReply, Goes, ReplyTypeOK
  <2>7. RepliesOwnTheirRows'
    BY <2>1, <2>2, <2>6 DEF RowsInv, RepliesOwnTheirRows, CallsHaveNodes, Blocked
  <2>8. QED
    BY <2>4, <2>5, <2>7 DEF RowsInv
<1>8. ASSUME NEW c \in Replies, CountAfterReply(c) \/ CompleteAfterReply(c) \/ ReplyStatementFails(c)
      PROVE  RowsInv'
  <2>1. RowsInv /\ UNCHANGED <<status, task>>
    BY <1>8 DEF CountAfterReply, CompleteAfterReply, ReplyStatementFails, vars, rows
  <2>2. \E at : Goes(c, at) /\ at # "run"
    BY <1>8 DEF CountAfterReply, CompleteAfterReply, ReplyStatementFails, AfterReply, AfterPersist
  <2>3. \A e \in Replies : replyAt'[e] = "run" => replyAt[e] = "run" /\ replyTo'[e] = replyTo[e]
    BY <2>2 DEF Goes, ReplyTypeOK
  <2>4. QED
    BY <2>1, <2>3, RowsUntouched
<1>9. CASE UNCHANGED allVars
  BY <1>9, RowsUntouched DEF allVars, vars, rows, replyVars
<1>10. QED
  BY <1>1, <1>2, <1>3, <1>4, <1>5, <1>6, <1>7, <1>8, <1>9, ReplyNextCases DEF ReplyStep

-----------------------------------------------------------------------------
(* Wake-ups.                                                               *)

\* The task of node n, or of a reply to it, is about to unblock its dependents.
Wakes(n) == task[n] = "unblock" \/ ReplyOn(n, {"unblock"})

\* All that the blocked row m requires has passed.
Woken(m) == Requires[m] # {} /\ \A d \in Requires[m] : status[d] = "passed"

\* A step keeps the wake-ups if a row that passes in it has a task that wakes
\* its dependents, no row becomes blocked, and a task stops waking only when
\* no dependent of its row waits any more.
LEMMA WakersKept ==
  ASSUME WakeupsWithReplies, faults' = 0 => faults = 0, ~trampled' => ~trampled,
         \A n \in Nodes : status'[n] = "passed" => status[n] = "passed" \/ Wakes(n)',
         Blocked' \subseteq Blocked,
         \A n \in Nodes : faults' = 0 /\ Wakes(n) =>
           Wakes(n)' \/ \A m \in Blocked' : n \in Requires[m] => ~Woken(m)'
  PROVE  WakeupsWithReplies'
<1> SUFFICES ASSUME faults' = 0, ~trampled', NEW m \in Blocked', Woken(m)'
             PROVE  \E d \in Requires[m] : Wakes(d)'
  BY Zenon DEF WakeupsWithReplies, Woken, Wakes
<1>1. m \in Blocked /\ Requires[m] \subseteq Nodes
  BY RequiresAssumption DEF Blocked
<1>2. CASE \E d \in Requires[m] : status[d] # "passed"
  BY <1>1, <1>2 DEF Woken
<1>3. CASE \A d \in Requires[m] : status[d] = "passed"
  <2>1. PICK d \in Requires[m] : Wakes(d)
    BY <1>1, <1>3 DEF WakeupsWithReplies, Woken, Wakes
  <2>2. QED
    BY <1>1, <2>1
<1>4. QED
  BY <1>2, <1>3

\* As WakersKept, for the steps that leave the calls of the users alone.
LEMMA QueueKeepsWakers ==
  ASSUME ReplyTypeOK, WakeupsWithReplies, QueueStepBeside, faults' = 0
  PROVE  WakeupsWithReplies'
<1>0. TypeOK /\ QueueStep /\ UNCHANGED <<replyTo, replyAt, trampled>>
  BY DEF ReplyTypeOK, QueueStepBeside
<1> DEFINE Quiet == /\ \A n \in Nodes : status'[n] = "passed" => status[n] = "passed"
                    /\ Blocked' \subseteq Blocked
                    /\ \A n \in Nodes : task[n] = "unblock" => task'[n] = "unblock"
                    /\ faults = 0
<1>1. ASSUME Quiet PROVE WakeupsWithReplies'
  BY <1>0, <1>1, WakersKept DEF Wakes, ReplyOn
<1> USE <1>0 DEF TypeOK
<1>2. CASE ApproveSession \/ StopSession
  BY <1>1, <1>2 DEF ApproveSession, StopSession, rows, Blocked
<1>3. CASE ApproveNodes \/ StopNodes
  BY <1>1, <1>3 DEF ApproveNodes, StopNodes, SetAll, Blocked
<1>4. ASSUME NEW S \in SUBSET Nodes, Claim(S) PROVE WakeupsWithReplies'
  BY <1>1, <1>4 DEF Claim, BatchDone, SetAll, Blocked
<1>5. ASSUME NEW n \in Nodes, Release(n) \/ GrowStale(n) PROVE WakeupsWithReplies'
  BY <1>1, <1>5 DEF Release, GrowStale, Blocked
<1>6. ASSUME NEW n \in Nodes, StatementFails(n) PROVE WakeupsWithReplies'
  BY <1>6, LimitsAssumption DEF StatementFails
<1>7. ASSUME NEW n \in Nodes, NEW r \in NodeStatus, Persist(n, r) PROVE WakeupsWithReplies'
  <2>1. /\ \A m \in Nodes \ {n} : status'[m] = status[m] /\ task'[m] = task[m]
        /\ status'[n] = r /\ r \in {"passed", "failed", "awaiting_reply"}
        /\ (r = "passed" => task'[n] = "unblock") /\ task[n] = "run" /\ faults' = faults
    BY <1>7 DEF Persist, AfterPersist, Outcomes
  <2>2. \A m \in Nodes : status'[m] = "passed" => status[m] = "passed" \/ task'[m] = "unblock"
    BY <2>1
  <2>3. Blocked' \subseteq Blocked /\ \A m \in Nodes : task[m] = "unblock" => task'[m] = "unblock"
    BY <2>1 DEF Blocked
  <2>4. QED
    BY <2>1, <2>2, <2>3, WakersKept DEF Wakes, ReplyOn
<1>8. ASSUME NEW n \in Nodes, Unblock(n) PROVE WakeupsWithReplies'
  <2>1. /\ \A m \in Nodes : status'[m] = "passed" => status[m] = "passed"
        /\ Blocked' \subseteq Blocked /\ faults' = faults
        /\ \A m \in Nodes \ {n} : task'[m] = task[m]
    BY <1>8 DEF Unblock, SetAll, Blocked
  <2>2. \A m \in Blocked' : n \in Requires[m] => ~Woken(m)'
    <3> SUFFICES ASSUME NEW m \in Blocked', n \in Requires[m], Woken(m)' PROVE FALSE
      OBVIOUS
    <3>1. m \in Blocked /\ m \notin Unblockable(n)
      BY <1>8 DEF Unblock, SetAll, Blocked
    <3>2. \A d \in Requires[m] : d \in Nodes /\ status'[d] = "passed"
      BY <3>1, RequiresAssumption DEF Woken, Blocked
    <3>3. QED
      BY <2>1, <3>1, <3>2 DEF Unblockable
  <2>3. QED
    BY <2>1, <2>2, WakersKept DEF Wakes, ReplyOn
<1>9. ASSUME NEW n \in Nodes, Skip(n) PROVE WakeupsWithReplies'
  BY <1>1, <1>9 DEF Skip, SetAll, Blocked
<1>10. ASSUME NEW n \in Nodes, CountSettled(n) \/ Complete(n) PROVE WakeupsWithReplies'
  BY <1>1, <1>10 DEF CountSettled, Complete, rows, Blocked
<1>11. QED
  BY <1>2, <1>3, <1>4, <1>5, <1>6, <1>7, <1>8, <1>9, <1>10 DEF QueueStep, TaskStep

LEMMA WakeupsKeptWithReplies ==
  ASSUME ReplyTypeOK, CallsHaveNodes, WakeupsWithReplies, [ReplyNext]_allVars,
         faults' = 0, ~trampled'
  PROVE  WakeupsWithReplies'
<1>0. TypeOK /\ trampled \in BOOLEAN
  BY DEF ReplyTypeOK
<1> USE DEF TypeOK
<1>1. CASE QueueStepBeside
  BY <1>1, QueueKeepsWakers
<1>2. CASE SweepBesideReplies
  <2>1. /\ \A n \in Nodes : status'[n] = "passed" => status[n] = "passed"
        /\ Blocked' \subseteq Blocked
        /\ UNCHANGED <<task, faults, replyTo, replyAt>>
    BY <1>0, <1>2 DEF SweepBesideReplies, Sweep, Stuck, Blocked
  <2>2. ~trampled
    BY <1>2, Zenon DEF SweepBesideReplies
  <2>3. QED
    BY <2>1, <2>2, WakersKept DEF Wakes, ReplyOn
<1>3. CASE CrashWithReplies
  BY <1>0, <1>3, LimitsAssumption DEF CrashWithReplies, Crash
<1>4. ASSUME NEW c \in Replies, NEW n \in Nodes, CheckReply(c, n) PROVE WakeupsWithReplies'
  <2>1. UNCHANGED <<status, task, faults, trampled>>
    BY <1>4 DEF CheckReply, vars, rows
  <2>2. \A m : ReplyOn(m, {"unblock"}) => ReplyOn(m, {"unblock"})'
    BY <1>4 DEF CheckReply, Goes, ReplyOn, ReplyTypeOK
  <2>3. QED
    BY <2>1, <2>2, WakersKept DEF Wakes, Blocked
<1>5. ASSUME NEW c \in Replies, MarkRunning(c) PROVE WakeupsWithReplies'
  <2>1. replyTo[c] \in Nodes
    BY <1>5 DEF MarkRunning, CallsHaveNodes
  <2>2. ~trampled
    BY <1>5, Zenon DEF MarkRunning
  <2>3. /\ \A n \in Nodes : status'[n] = "passed" => status[n] = "passed"
        /\ Blocked' \subseteq Blocked /\ UNCHANGED <<task, faults>>
    BY <1>0, <1>5, <2>1 DEF MarkRunning, Blocked
  <2>4. \A m : ReplyOn(m, {"unblock"}) => ReplyOn(m, {"unblock"})'
    BY <1>5 DEF MarkRunning, Goes, ReplyOn, ReplyTypeOK
  <2>5. QED
    BY <2>2, <2>3, <2>4, WakersKept DEF Wakes
<1>6. ASSUME NEW c \in Replies, NEW r \in NodeStatus, PersistReply(c, r) PROVE WakeupsWithReplies'
  <2> DEFINE n == replyTo[c]
  <2>1. n \in Nodes /\ replyAt[c] = "run" /\ r \in {"passed", "failed", "awaiting_reply"}
    BY <1>6 DEF PersistReply, CallsHaveNodes, ResumeOutcomes
  <2>2. /\ status'[n] = r /\ \A m \in Nodes \ {n} : status'[m] = status[m]
        /\ UNCHANGED <<task, faults, trampled>>
    BY <1>0, <1>6, <2>1 DEF PersistReply
  <2>3. \A m : ReplyOn(m, {"unblock"}) => ReplyOn(m, {"unblock"})'
    BY <1>6 DEF PersistReply, Goes, ReplyOn, ReplyTypeOK
  <2>4. \A m \in Nodes : m = n /\ r = "passed" => ReplyOn(m, {"unblock"})'
    BY <1>6 DEF PersistReply, Goes, ReplyOn, ReplyTypeOK, AfterReply, AfterPersist
  <2>5. Blocked' \subseteq Blocked
    BY <2>1, <2>2 DEF Blocked
  <2>6. \A m \in Nodes : status'[m] = "passed" => status[m] = "passed" \/ Wakes(m)'
    BY <2>2, <2>4 DEF Wakes
  <2>7. QED
    BY <2>2, <2>3, <2>5, <2>6, WakersKept DEF Wakes
<1>7. ASSUME NEW c \in Replies, UnblockAfterReply(c) PROVE WakeupsWithReplies'
  <2> DEFINE n == replyTo[c]
  <2>1. /\ \A m \in Nodes : status'[m] = "passed" => status[m] = "passed"
        /\ Blocked' \subseteq Blocked /\ UNCHANGED <<task, faults, trampled>>
    BY <1>7 DEF UnblockAfterReply, SetAll, Blocked
  <2>2. \A m : ReplyOn(m, {"unblock"}) => m = n \/ ReplyOn(m, {"unblock"})'
    BY <1>7 DEF UnblockAfterReply, Goes, ReplyOn, ReplyTypeOK
  <2>3. \A m \in Blocked' : n \in Requires[m] => ~Woken(m)'
    <3> SUFFICES ASSUME NEW m \in Blocked', n \in Requires[m], Woken(m)' PROVE FALSE
      OBVIOUS
    <3>1. m \in Blocked /\ m \notin Unblockable(n)
      BY <1>7 DEF UnblockAfterReply, SetAll, Blocked
    <3>2. \A d \in Requires[m] : d \in Nodes /\ status'[d] = "passed"
      BY <3>1, RequiresAssumption DEF Woken, Blocked
    <3>3. QED
      BY <2>1, <3>1, <3>2 DEF Unblockable
  <2>4. QED
    BY <2>1, <2>2, <2>3, WakersKept DEF Wakes
<1>8. ASSUME NEW c \in Replies, SkipAfterReply(c) PROVE WakeupsWithReplies'
  <2>1. /\ \A n \in Nodes : status'[n] = "passed" => status[n] = "passed"
        /\ Blocked' \subseteq Blocked /\ UNCHANGED <<task, faults, trampled>>
    BY <1>8 DEF SkipAfterReply, SetAll, Blocked
  <2>2. \A m : ReplyOn(m, {"unblock"}) => ReplyOn(m, {"unblock"})'
    BY <1>8 DEF SkipAfterReply, Goes, ReplyOn, ReplyTypeOK
  <2>3. QED
    BY <2>1, <2>2, WakersKept DEF Wakes
<1>9. ASSUME NEW c \in Replies, CountAfterReply(c) \/ CompleteAfterReply(c) PROVE WakeupsWithReplies'
  <2>1. UNCHANGED <<status, task, faults, trampled>>
    BY <1>9 DEF CountAfterReply, CompleteAfterReply, vars, rows
  <2>2. \A m : ReplyOn(m, {"unblock"}) => ReplyOn(m, {"unblock"})'
    BY <1>9 DEF CountAfterReply, CompleteAfterReply, Goes, ReplyOn, ReplyTypeOK
  <2>3. QED
    BY <2>1, <2>2, WakersKept DEF Wakes, Blocked
<1>10. ASSUME NEW c \in Replies, ReplyStatementFails(c) PROVE WakeupsWithReplies'
  BY <1>0, <1>10, LimitsAssumption DEF ReplyStatementFails
<1>11. CASE UNCHANGED allVars
  BY <1>11, WakersKept DEF allVars, vars, rows, replyVars, Wakes, ReplyOn, Blocked
<1>12. QED
  BY <1>1, <1>2, <1>3, <1>4, <1>5, <1>6, <1>7, <1>8, <1>9, <1>10, <1>11, ReplyNextCases DEF ReplyStep

-----------------------------------------------------------------------------
(* The theorems. *)

LEMMA ReplyInvKept == ReplyInv /\ [ReplyNext]_allVars => ReplyInv'
<1> SUFFICES ASSUME ReplyInv, [ReplyNext]_allVars PROVE ReplyInv'
  OBVIOUS
<1>0. ReplyTypeOK /\ CallsHaveNodes /\ WakeupsWithReplies /\ (~trampled => RowsInv)
  BY Zenon DEF ReplyInv, RowsInv
<1>1. ReplyTypeOK' /\ CallsHaveNodes'
  BY <1>0, ReplyTypesKept
<1>2. ~trampled' => RowsInv'
  BY <1>0, RowsKept
<1>3. WakeupsWithReplies'
  <2>1. CASE faults' = 0 /\ ~trampled'
    BY <1>0, <2>1, WakeupsKeptWithReplies
  <2>2. CASE ~(faults' = 0 /\ ~trampled')
    BY <2>2, Zenon DEF WakeupsWithReplies
  <2>3. QED
    BY <2>1, <2>2
<1>4. QED
  BY <1>1, <1>2, <1>3, Zenon DEF ReplyInv, RowsInv

LEMMA ReplyInvAlways == ReplySpec => []ReplyInv
BY InitReplyInv, ReplyInvKept, PTL DEF ReplySpec

\* Whatever replies come when (execution_node_reply), and whatever fails, the
\* rows, the tasks and the calls stay in their domains.
THEOREM ReplyTypeCorrect == ReplySpec => []ReplyTypeOK
<1>1. ReplyInv => ReplyTypeOK
  BY DEF ReplyInv
<1>2. QED
  BY <1>1, ReplyInvAlways, PTL

\* A set that has at most one element counts as none or one.
LEMMA AtMostOne ==
  ASSUME NEW S, \A x, y \in S : x = y
  PROVE  Cardinality(S) <= 1
<1>1. CASE S = {}
  BY <1>1, FS_EmptySet
<1>2. ASSUME NEW x \in S PROVE Cardinality(S) <= 1
  <2>1. S = {x}
    BY <1>2
  <2>2. QED
    BY <2>1, FS_Singleton
<1>3. QED
  BY <1>1, <1>2

\* The worker loop and the tasks of replies do not know of each other; still
\* one task at a time executes a node, as long as every reply met a row that
\* was "awaiting_reply" and no sweep met a row that a reply executes.
THEOREM OneRunner == ReplySpec => []SingleRunnerUnlessTrampled
<1>1. ReplyInv => SingleRunnerUnlessTrampled
  <2> SUFFICES ASSUME ReplyInv, ~trampled, NEW n \in Nodes PROVE Cardinality(RunnersOf(n)) <= 1
    BY Zenon DEF SingleRunnerUnlessTrampled, SingleRunner
  <2>1. RepliesOwnTheirRows
    BY Zenon DEF ReplyInv
  <2>2. \A x, y \in RunnersOf(n) : x = y
    BY <2>1 DEF RunnersOf, RepliesOwnTheirRows
  <2>3. QED
    BY <2>2, AtMostOne
<1>2. QED
  BY <1>1, ReplyInvAlways, PTL

\* Under the same condition a reply rewrites no row that others were started
\* for: MarkRunning, resume_with_reply and what follows keep the dependencies.
THEOREM RepliesKeepTheOrder == ReplySpec => []DependenciesPassedUnlessTrampled
<1>1. ReplyInv => DependenciesPassedUnlessTrampled
  BY Zenon DEF ReplyInv, DependenciesPassedUnlessTrampled
<1>2. QED
  BY <1>1, ReplyInvAlways, PTL

\* unblock_downstream is called by the tasks of the worker and by those of
\* replies: whichever is last wakes the dependents, if no statement failed.
THEOREM RepliesLoseNoWakeup == ReplySpec => []WakeupsWithReplies
<1>1. ReplyInv => WakeupsWithReplies
  BY DEF ReplyInv
<1>2. QED
  BY <1>1, ReplyInvAlways, PTL
=============================================================================
