------------------------ MODULE InvestorSwipeProofs ------------------------
(***************************************************************************)
(* For any number of browsers, investors and tasks: the flag of a browser, *)
(* the queue of the kept ones and the pushes agree with the table, but for *)
(* the investors about whom two tasks or two writers met.                  *)
(***************************************************************************)
EXTENDS InvestorSwipe, FiniteSetTheorems, TLAPS

-----------------------------------------------------------------------------
(* The invariant. *)

\* Task t is about investor i.
About(t, i) ==
  \E n \in DOMAIN task[t].todo : task[t].todo[n].op = "clear" \/ task[t].todo[n].id = i

\* Task t has still to do this step.
Has(t, s) == \E n \in DOMAIN task[t].todo : task[t].todo[n] = s

Pending(i, d) == \E t \in Busy : Head(task[t].todo) = StepOf("swipe", i, d)

Clearing == \E t \in Busy : Head(task[t].todo).op = "clear"

Clean == Ids \ mixed
Saved == Ids \ (mixed \cup unsaved)

\* The steps of a task follow on each other.
ShapeOf(x) ==
  \A n \in DOMAIN x.todo :
    LET s == x.todo[n]
    IN  /\ s.op \in {"decision", "queue"} => x.from \in {"migrate", "nobody"}
        /\ s.op \in {"swipe", "clear"} => n = 1
        /\ s.op = "clear" => x.from \in {"reset", "nobody"} /\ Len(x.todo) = 1
        /\ s.op \in {"push", "mark"} => s.id \in Linked /\ x.from \in {"decide", "sync", "nobody"}
        /\ s.op = "mark" => IF n = 1 THEN s.id \in lgm
                            ELSE x.todo[n - 1] = StepOf("push", s.id, "none")
        /\ s.op = "push" /\ x.from = "sync" => n < Len(x.todo) /\ x.todo[n + 1].op = "mark"
        /\ s.op = "push" =>
             IF x.todo[1].op = "swipe" THEN x.todo[1] = StepOf("swipe", s.id, "keep")
             ELSE s.id \in Saved => table.decision[s.id] = "keep"

Shaped == \A t \in Busy : ShapeOf(task[t])

\* Two tasks are not about the same investor, and none of a tab that is closed
\* is, but for those whom this makes mixed.
Apart ==
  \A t \in Busy, i \in Clean : About(t, i) =>
    /\ task[t].from # "nobody"
    /\ \A u \in Busy : About(u, i) => u = t

\* One browser at most remembers a decision, with the queue that goes with it.
Remembered ==
  \A b \in Browsers, i \in Clean :
    /\ local[b].queue[i] = QueueOf(i, local[b].decision[i])
    /\ local[b].decision[i] # "none" =>
         \A o \in Browsers : local[o].decision[i] # "none" => o = b

\* While a decision is on its way, it is the only one that anybody knows of,
\* and the browser that remembers it does not migrate.
Deciding ==
  \A t \in Busy, i \in Clean, d \in Decision :
    Head(task[t].todo) = StepOf("swipe", i, d) =>
      \A b \in Browsers :
        /\ local[b].decision[i] # "none" =>
             local[b].decision[i] = d /\ ~migrated[b] /\ TaskOf(b, "migrate") = {}
        /\ page[b].show.decision[i] \in {"none", d}

\* While the table is about to be cleared, nobody remembers anything.
Resetting ==
  \A t \in Busy, i \in Clean :
    Head(task[t].todo).op = "clear" =>
      \A b \in Browsers : /\ local[b].decision[i] = "none"
                          /\ b # task[t].by => page[b].show.decision[i] = "none"

\* A migration tells the table what the browser remembers, and all of it.
Migrating ==
  \A t \in Busy, i \in Clean : task[t].from = "migrate" =>
    LET c == local[task[t].by]
    IN  /\ \A d \in Decision :
             /\ Has(t, StepOf("decision", i, d)) => c.decision[i] = d
             /\ c.decision[i] = d => table.decision[i] = d \/ Has(t, StepOf("decision", i, d))
        /\ \A k \in Kinds :
             /\ Has(t, StepOf("queue", i, k)) => k \in c.queue[i]
             /\ k \in c.queue[i] => \/ k \in table.queue[i]
                                    \/ k = "lgm" /\ i \in lgm
                                    \/ Has(t, StepOf("queue", i, k))

\* What a browser remembers or shows, the table knows or is about to be told.
Known ==
  /\ \A i \in Saved : table.queue[i] \subseteq QueueOf(i, table.decision[i])
  /\ \A b \in Browsers, i \in Saved :
       /\ \A d \in Decision :
            /\ local[b].decision[i] = d => table.decision[i] = d \/ Pending(i, d)
            /\ page[b].show.decision[i] = d =>
                 table.decision[i] = d \/ Pending(i, d) \/ Clearing
       /\ page[b].show.queue[i] \subseteq QueueOf(i, page[b].show.decision[i])

SwipeInv ==
  /\ SwipeTypeOK /\ Shaped /\ Apart /\ Remembered /\ Deciding /\ Resetting
  /\ Migrating /\ FlagIsHonest /\ Known

-----------------------------------------------------------------------------
(* Lists of the members of a set. *)

\* x is one of the list.
In(x, s) == \E n \in DOMAIN s : s[n] = x

LEMMA ValuesAreFinite ==
  ASSUME NEW S, IsFiniteSet(S), NEW f, f = [x \in S |-> f[x]]
  PROVE  IsFiniteSet({f[x] : x \in S})
<1> DEFINE T == {f[x] : x \in S}
<1>1. f \in [S -> T] /\ \A y \in T : \E x \in S : f[x] = y
  OBVIOUS
<1> HIDE DEF T
<1>2. f \in Surjection(S, T)
  BY <1>1 DEF Surjection
<1>3. QED
  BY <1>2, FS_Surjection DEF T

LEMMA ListOfSet ==
  ASSUME NEW S, IsFiniteSet(S)
  PROVE  /\ SetToSeq(S) \in Seq(S)
         /\ \A x : In(x, SetToSeq(S)) <=> x \in S
<1> DEFINE n == Cardinality(S)
           f == SetToSeq(S)
<1>1. n \in Nat /\ IsFiniteSet(1 .. n) /\ Cardinality(1 .. n) = n
  BY FS_CardinalityType, FS_Interval
<1>2. PICK g : g \in Bijection(1 .. n, S)
  BY <1>1, FS_SameCardinalityBij DEF ExistsBijection
<1>3. g \in [1 .. n -> S] /\ IsInjective(g)
  BY <1>2 DEF Bijection, Injection
<1>4. f \in [1 .. n -> S] /\ IsInjective(f)
  BY <1>3 DEF SetToSeq
<1> HIDE DEF f, n
<1>5. f \in Injection(1 .. n, S)
  BY <1>4 DEF Injection
<1>6. f \in Surjection(1 .. n, S)
  BY <1>1, <1>5, FS_Injection DEF n
<1>7. \A x \in S : \E k \in 1 .. n : f[k] = x
  BY <1>6 DEF Surjection
<1>8. DOMAIN f = 1 .. n /\ \A k \in 1 .. n : f[k] \in S
  BY <1>4
<1>9. f \in Seq(S)
  BY <1>1, <1>4
<1>10. QED
  BY <1>7, <1>8, <1>9 DEF In, f

LEMMA Joined ==
  ASSUME NEW S, NEW a \in Seq(S), NEW b \in Seq(S)
  PROVE  LET c == a \o b
         IN  /\ c \in Seq(S) /\ Len(c) = Len(a) + Len(b)
             /\ \A n \in 1 .. Len(a) : c[n] = a[n]
             /\ \A n \in Len(a) + 1 .. Len(a) + Len(b) : c[n] = b[n - Len(a)]
OBVIOUS

LEMMA ListOfBoth ==
  ASSUME NEW S, NEW a \in Seq(S), NEW b \in Seq(S)
  PROVE  a \o b \in Seq(S) /\ \A x : In(x, a \o b) <=> In(x, a) \/ In(x, b)
<1> DEFINE c == a \o b
<1>1. /\ c \in Seq(S) /\ Len(c) = Len(a) + Len(b) /\ Len(a) \in Nat /\ Len(b) \in Nat
      /\ DOMAIN a = 1 .. Len(a) /\ DOMAIN b = 1 .. Len(b) /\ DOMAIN c = 1 .. Len(c)
      /\ \A n \in 1 .. Len(a) : c[n] = a[n]
      /\ \A n \in Len(a) + 1 .. Len(a) + Len(b) : c[n] = b[n - Len(a)]
  BY Joined
<1> HIDE DEF c
<1>2. ASSUME NEW x, In(x, a) PROVE In(x, c)
  BY <1>1, <1>2 DEF In
<1>3. ASSUME NEW x, In(x, b) PROVE In(x, c)
  <2>1. PICK n \in 1 .. Len(b) : b[n] = x
    BY <1>1, <1>3 DEF In
  <2>2. Len(a) + n \in Len(a) + 1 .. Len(a) + Len(b) /\ (Len(a) + n) - Len(a) = n
    BY <1>1
  <2>3. c[Len(a) + n] = x
    BY <1>1, <2>1, <2>2
  <2>4. Len(a) + n \in DOMAIN c
    BY <1>1, <2>2
  <2>5. QED
    BY <2>3, <2>4 DEF In
<1>4. ASSUME NEW x, In(x, c) PROVE In(x, a) \/ In(x, b)
  <2>1. PICK n \in 1 .. Len(c) : c[n] = x
    BY <1>1, <1>4 DEF In
  <2>2. CASE n <= Len(a)
    BY <1>1, <2>1, <2>2 DEF In
  <2>3. CASE ~ (n <= Len(a))
    <3>1. n \in Len(a) + 1 .. Len(a) + Len(b) /\ n - Len(a) \in 1 .. Len(b)
      BY <1>1, <2>3
    <3>2. QED
      BY <1>1, <2>1, <3>1 DEF In
  <2>4. QED
    BY <2>2, <2>3
<1>5. QED
  BY <1>1, <1>2, <1>3, <1>4 DEF c

-----------------------------------------------------------------------------
(* The steps of a migration. *)

LEMMA StepFacts ==
  /\ \A i \in Ids, d \in Decision : StepOf("swipe", i, d) \in Step /\ StepOf("decision", i, d) \in Step
  /\ \A i \in Ids, k \in Kinds : StepOf("queue", i, k) \in Step
  /\ \A i \in Ids : StepOf("push", i, "none") \in Step /\ StepOf("mark", i, "none") \in Step
  /\ StepOf("clear", "all", "none") \in Step
  /\ \A o, i, v : LET s == StepOf(o, i, v) IN s.op = o /\ s.id = i /\ s.value = v
BY DEF StepOf, Step

\* Of one step it is known what it is.
LEMMA StepIs ==
  ASSUME NEW s \in Step
  PROVE  /\ s = StepOf(s.op, s.id, s.value)
         /\ s.op \in {"swipe", "decision", "queue", "push", "mark", "clear"}
         /\ s.op \in {"swipe", "decision"} => s.id \in Ids /\ s.value \in Decision
         /\ s.op = "queue" => s.id \in Ids /\ s.value \in Kinds
         /\ s.op \in {"push", "mark"} => s.id \in Ids /\ s.value = "none"
BY DEF StepOf, Step

LEMMA MigrationIs ==
  ASSUME SwipeTypeOK, NEW b \in Browsers
  PROVE  /\ MigrationSteps(b) \in Seq(Step)
         /\ \A s : In(s, MigrationSteps(b)) <=>
              \/ \E i \in Ids : /\ local[b].decision[i] # "none"
                                /\ s = StepOf("decision", i, local[b].decision[i])
              \/ \E i \in Ids : \E k \in local[b].queue[i] : s = StepOf("queue", i, k)
<1> DEFINE D == {i \in Ids : local[b].decision[i] # "none"}
           ds == {StepOf("decision", i, local[b].decision[i]) : i \in D}
           Q(k) == {i \in Ids : k \in local[b].queue[i]}
           qs(k) == {StepOf("queue", i, k) : i \in Q(k)}
<1>1. /\ \A i \in Ids : local[b].decision[i] \in Decision \cup {"none"}
      /\ \A i \in Ids : local[b].queue[i] \in SUBSET Kinds
  BY DEF SwipeTypeOK, Content
<1>2. IsFiniteSet(ds) /\ ds \in SUBSET Step
  <2>1. IsFiniteSet(D)
    BY IdsAssumption, FS_Subset
  <2>2. IsFiniteSet(ds)
    <3> DEFINE f == [i \in D |-> StepOf("decision", i, local[b].decision[i])]
    <3>1. ds = {f[i] : i \in D} /\ f = [i \in D |-> f[i]] /\ DOMAIN f = D
      OBVIOUS
    <3> HIDE DEF f, ds, D
    <3>2. QED
      BY <2>1, <3>1, ValuesAreFinite
  <2>3. ds \in SUBSET Step
    BY <1>1, StepFacts
  <2>4. QED
    BY <2>2, <2>3
<1>3. ASSUME NEW k \in Kinds PROVE IsFiniteSet(qs(k)) /\ qs(k) \in SUBSET Step
  <2>1. IsFiniteSet(Q(k))
    BY IdsAssumption, FS_Subset
  <2>2. IsFiniteSet(qs(k))
    <3> DEFINE f == [i \in Q(k) |-> StepOf("queue", i, k)]
    <3>1. qs(k) = {f[i] : i \in Q(k)} /\ f = [i \in Q(k) |-> f[i]] /\ DOMAIN f = Q(k)
      OBVIOUS
    <3> HIDE DEF f, qs, Q
    <3>2. QED
      BY <2>1, <3>1, ValuesAreFinite
  <2>3. qs(k) \in SUBSET Step
    BY StepFacts
  <2>4. QED
    BY <2>2, <2>3
<1>4. "lgm" \in Kinds /\ "missing" \in Kinds /\ "more" \in Kinds
  BY DEF Kinds
<1>5. MigrationSteps(b) = SetToSeq(ds) \o SetToSeq(qs("lgm")) \o SetToSeq(qs("missing"))
                            \o SetToSeq(qs("more"))
  BY Zenon DEF MigrationSteps
<1> HIDE DEF ds, qs
<1>6. /\ SetToSeq(ds) \in Seq(Step) /\ \A x : In(x, SetToSeq(ds)) <=> x \in ds
  BY <1>2, ListOfSet
<1>7. \A k \in Kinds : /\ SetToSeq(qs(k)) \in Seq(Step)
                       /\ \A x : In(x, SetToSeq(qs(k))) <=> x \in qs(k)
  BY <1>3, ListOfSet
<1> DEFINE a == SetToSeq(ds)
           l == SetToSeq(qs("lgm"))
           m == SetToSeq(qs("missing"))
           e == SetToSeq(qs("more"))
<1>8. a \in Seq(Step) /\ l \in Seq(Step) /\ m \in Seq(Step) /\ e \in Seq(Step)
  BY <1>4, <1>6, <1>7
<1> HIDE DEF a, l, m, e
<1>9. a \o l \in Seq(Step) /\ \A x : In(x, a \o l) <=> In(x, a) \/ In(x, l)
  BY <1>8, ListOfBoth
<1>10. /\ (a \o l) \o m \in Seq(Step)
       /\ \A x : In(x, (a \o l) \o m) <=> In(x, a \o l) \/ In(x, m)
  BY <1>8, <1>9, ListOfBoth
<1> DEFINE u == (a \o l) \o m
<1>11. /\ u \o e \in Seq(Step)
       /\ \A x : In(x, u \o e) <=> In(x, u) \/ In(x, e)
  <2>1. u \in Seq(Step)
    BY <1>10
  <2> HIDE DEF u
  <2>2. QED
    BY <1>8, <2>1, ListOfBoth
<1>12. \A x : In(x, MigrationSteps(b)) <=> In(x, a) \/ In(x, l) \/ In(x, m) \/ In(x, e)
  BY <1>5, <1>9, <1>10, <1>11 DEF a, l, m, e
<1>13. /\ \A x : In(x, a) <=> x \in ds
       /\ \A x : In(x, l) <=> x \in qs("lgm")
       /\ \A x : In(x, m) <=> x \in qs("missing")
       /\ \A x : In(x, e) <=> x \in qs("more")
  BY <1>4, <1>6, <1>7 DEF a, l, m, e
<1>14. \A x : x \in ds <=> \E i \in Ids : /\ local[b].decision[i] # "none"
                                          /\ x = StepOf("decision", i, local[b].decision[i])
  BY DEF ds
<1>15. \A x, k : x \in qs(k) <=> \E i \in Ids : k \in local[b].queue[i] /\ x = StepOf("queue", i, k)
  BY DEF qs
<1>16. \A i \in Ids : local[b].queue[i] \subseteq {"lgm", "missing", "more"}
  BY <1>1 DEF Kinds
<1>17. ASSUME NEW x
       PROVE  (x \in qs("lgm") \/ x \in qs("missing") \/ x \in qs("more"))
                <=> \E i \in Ids : \E k \in local[b].queue[i] : x = StepOf("queue", i, k)
  BY <1>15, <1>16
<1>18. MigrationSteps(b) \in Seq(Step)
  BY <1>5, <1>11 DEF a, l, m, e
<1>19. QED
  BY <1>12, <1>13, <1>14, <1>17, <1>18

-----------------------------------------------------------------------------
(* What is in the variables. *)

LEMMA ContentFacts ==
  ASSUME SwipeTypeOK
  PROVE  /\ \A i \in Ids : /\ table.decision[i] \in Decision \cup {"none"}
                           /\ table.queue[i] \in SUBSET Kinds
         /\ \A b \in Browsers, i \in Ids :
              /\ local[b].decision[i] \in Decision \cup {"none"}
              /\ local[b].queue[i] \in SUBSET Kinds
              /\ page[b].show.decision[i] \in Decision \cup {"none"}
              /\ page[b].show.queue[i] \in SUBSET Kinds
         /\ \A b \in Browsers : local[b] \in Content /\ page[b].show \in Content
         /\ "none" \notin Decision
<1>1. table.decision \in [Ids -> Decision \cup {"none"}] /\ table.queue \in [Ids -> SUBSET Kinds]
  BY DEF SwipeTypeOK
<1>2. \A b \in Browsers : local[b] \in Content /\ page[b].show \in Content
  BY DEF SwipeTypeOK
<1>3. \A c \in Content, i \in Ids : c.decision[i] \in Decision \cup {"none"} /\ c.queue[i] \in SUBSET Kinds
  BY DEF Content
<1>4. QED
  BY <1>1, <1>2, <1>3 DEF Decision

LEMMA TaskFacts ==
  ASSUME SwipeTypeOK, NEW t \in Busy
  PROVE  LET x == task[t]
         IN  /\ t \in Tasks /\ x \in Task /\ x.by \in Browsers /\ x.todo \in Seq(Step)
             /\ x.from \in {"decide", "kept", "migrate", "sync", "reset", "nobody"}
             /\ Len(x.todo) \in Nat /\ Len(x.todo) > 0 /\ DOMAIN x.todo = 1 .. Len(x.todo)
             /\ Head(x.todo) = x.todo[1] /\ Head(x.todo) \in Step
             /\ \A n \in DOMAIN x.todo : x.todo[n] \in Step
<1>1. t \in Tasks /\ task[t] \in Task /\ task[t].todo # <<>>
  BY DEF SwipeTypeOK, Busy
<1>2. /\ task[t].by \in Browsers /\ task[t].todo \in Seq(Step)
      /\ task[t].from \in {"decide", "kept", "migrate", "sync", "reset", "nobody"}
  BY <1>1 DEF Task
<1>3. ASSUME NEW s \in Seq(Step), s # <<>>
      PROVE  /\ Len(s) \in Nat /\ Len(s) > 0 /\ DOMAIN s = 1 .. Len(s)
             /\ Head(s) = s[1] /\ Head(s) \in Step /\ \A n \in DOMAIN s : s[n] \in Step
  BY <1>3
<1>4. QED
  BY <1>1, <1>2, <1>3

LEMMA TaskIsBusy == \A k \in Task : k # Free
BY DEF Task, Free

-----------------------------------------------------------------------------
(* What a request does to the table. *)

DecisionAfter(s, i) ==
  IF s.op = "clear" THEN "none"
  ELSE IF s.op \in {"swipe", "decision"} /\ s.id = i THEN s.value ELSE table.decision[i]

QueueAfter(s, i) ==
  IF s.op = "clear" THEN {}
  ELSE IF s.id # i THEN table.queue[i]
  ELSE IF s.op = "swipe" THEN QueueOf(i, s.value)
  ELSE IF s.op = "queue" THEN table.queue[i] \cup {s.value}
  ELSE IF s.op = "mark" THEN table.queue[i] \ {"lgm"} ELSE table.queue[i]

TableType ==
  [decision : [Ids -> Decision \cup {"none"}], queue : [Ids -> SUBSET Kinds], synced : SUBSET Ids]

LEMMA QueueOfType ==
  \A i, d : QueueOf(i, d) \in SUBSET Kinds
BY DEF QueueOf, Kinds

LEMMA ServedIs ==
  ASSUME SwipeTypeOK, NEW s \in Step
  PROVE  /\ Served(table, s) \in TableType
         /\ \A i \in Ids : /\ Served(table, s).decision[i] = DecisionAfter(s, i)
                           /\ Served(table, s).queue[i] = QueueAfter(s, i)
<1>1. table \in TableType
  BY DEF SwipeTypeOK, TableType
<1>2. CASE s.op = "swipe"
  <2>1. s.id \in Ids /\ s.value \in Decision /\ QueueOf(s.id, s.value) \in SUBSET Kinds
    BY <1>2, StepIs, QueueOfType
  <2>2. Served(table, s) = [decision |-> [table.decision EXCEPT ![s.id] = s.value],
                            queue    |-> [table.queue EXCEPT ![s.id] = QueueOf(s.id, s.value)],
                            synced   |-> table.synced]
    BY <1>1, <1>2 DEF Served, TableType
  <2> DEFINE q == QueueOf(s.id, s.value)
  <2>3. \A i \in Ids : s.id = i => QueueOf(i, s.value) = q
    OBVIOUS
  <2> HIDE DEF q
  <2>4. QED
    BY <1>1, <1>2, <2>1, <2>2, <2>3 DEF TableType, DecisionAfter, QueueAfter, q
<1>3. CASE s.op = "decision"
  <2>1. s.id \in Ids /\ s.value \in Decision
    BY <1>3, StepIs
  <2>2. Served(table, s) = [table EXCEPT !.decision[s.id] = s.value]
    BY <1>3 DEF Served
  <2>3. QED
    BY <1>1, <1>3, <2>1, <2>2 DEF TableType, DecisionAfter, QueueAfter
<1>4. CASE s.op = "queue"
  <2>1. s.id \in Ids /\ s.value \in Kinds
    BY <1>4, StepIs
  <2>2. Served(table, s) = [table EXCEPT !.queue[s.id] = table.queue[s.id] \cup {s.value}]
    BY <1>1, <1>4 DEF Served
  <2>3. QED
    BY <1>1, <1>4, <2>1, <2>2 DEF TableType, DecisionAfter, QueueAfter
<1>5. CASE s.op = "mark"
  <2>1. s.id \in Ids
    BY <1>5, StepIs
  <2>2. Served(table, s) = [decision |-> table.decision,
                            queue    |-> [table.queue EXCEPT ![s.id] = table.queue[s.id] \ {"lgm"}],
                            synced   |-> table.synced \cup {s.id}]
    BY <1>1, <1>5 DEF Served, TableType
  <2>3. QED
    BY <1>1, <1>5, <2>1, <2>2 DEF TableType, DecisionAfter, QueueAfter
<1>6. CASE s.op = "clear"
  BY <1>1, <1>6 DEF Served, Empty, TableType, DecisionAfter, QueueAfter
<1>7. CASE s.op = "push"
  BY <1>1, <1>7 DEF Served, TableType, DecisionAfter, QueueAfter
<1>8. QED
  BY <1>2, <1>3, <1>4, <1>5, <1>6, <1>7, StepIs

\* A request is served, or not, or of the two statements of a mark the first.
Request(s) ==
  \/ Effect(s)
  \/ UNCHANGED <<table, lgm>>
  \/ /\ s.op = "mark"
     /\ table' = [table EXCEPT !.synced = @ \cup {s.id}]
     /\ UNCHANGED lgm

LEMMA RequestIs ==
  ASSUME SwipeInv, NEW t \in Busy, NEW s, s = Head(task[t].todo), Request(s)
  PROVE  /\ table' \in TableType
         /\ lgm \subseteq lgm' /\ lgm' \subseteq Linked
         /\ \A i \in lgm' \ lgm : s = StepOf("push", i, "none")
         /\ \A i \in Ids : \/ /\ table'.decision[i] = table.decision[i]
                              /\ table'.queue[i] = table.queue[i]
                           \/ /\ table'.decision[i] = DecisionAfter(s, i)
                              /\ table'.queue[i] = QueueAfter(s, i)
<1>1. SwipeTypeOK /\ Shaped /\ table \in TableType /\ lgm \subseteq Linked
  BY DEF SwipeInv, SwipeTypeOK, TableType
<1>2. s \in Step /\ s = task[t].todo[1] /\ 1 \in DOMAIN task[t].todo
  BY <1>1, TaskFacts
<1>3. s.op = "push" => s.id \in Linked /\ s = StepOf("push", s.id, "none")
  BY <1>1, <1>2, StepIs DEF Shaped, ShapeOf
<1>4. CASE Effect(s)
  <2>1. table' = Served(table, s) /\ lgm' = IF s.op = "push" THEN lgm \cup {s.id} ELSE lgm
    BY <1>4 DEF Effect
  <2>2. QED
    BY <1>1, <1>2, <1>3, <2>1, ServedIs
<1>5. CASE UNCHANGED <<table, lgm>>
  BY <1>1, <1>5
<1>6. CASE s.op = "mark" /\ table' = [table EXCEPT !.synced = @ \cup {s.id}] /\ UNCHANGED lgm
  <2>1. s.id \in Ids
    BY <1>2, <1>6, StepIs
  <2>2. QED
    BY <1>1, <1>6, <2>1 DEF TableType
<1>7. QED
  BY <1>4, <1>5, <1>6 DEF Request

\* What a request that is under way says of an investor who is not mixed.
LEMMA HeadFacts ==
  ASSUME SwipeInv, NEW t \in Busy, NEW s, s = Head(task[t].todo), NEW i \in Clean,
         s.op = "clear" \/ s.id = i
  PROVE  /\ About(t, i) /\ task[t].from # "nobody"
         /\ \A u \in Busy : About(u, i) => u = t
         /\ s.op = "swipe" => s = StepOf("swipe", i, s.value) /\ s.value \in Decision
         /\ s.op = "decision" => /\ task[t].from = "migrate" /\ s.value \in Decision
                                 /\ Has(t, StepOf("decision", i, s.value))
                                 /\ local[task[t].by].decision[i] = s.value
         /\ s.op = "queue" => /\ task[t].from = "migrate" /\ s.value \in Kinds
                              /\ Has(t, StepOf("queue", i, s.value))
                              /\ s.value \in local[task[t].by].queue[i]
         /\ s.op = "mark" => i \in lgm
<1>1. SwipeTypeOK /\ Shaped /\ Apart /\ Migrating /\ i \in Ids
  BY DEF SwipeInv, Clean
<1>2. s \in Step /\ s = task[t].todo[1] /\ 1 \in DOMAIN task[t].todo
  BY <1>1, TaskFacts
<1>3. About(t, i)
  BY <1>2 DEF About
<1>4. task[t].from # "nobody" /\ \A u \in Busy : About(u, i) => u = t
  BY <1>1, <1>3 DEF Apart
<1>5. s.op \in {"decision", "queue"} => task[t].from = "migrate"
  BY <1>1, <1>2, <1>4 DEF Shaped, ShapeOf
<1>6. s = StepOf(s.op, s.id, s.value) /\ Has(t, s)
  BY <1>2, StepIs DEF Has
<1>7. s.op # "clear" => s.id = i
  OBVIOUS
<1>8. s.op = "swipe" => s = StepOf("swipe", i, s.value) /\ s.value \in Decision
  BY <1>2, <1>6, <1>7, StepIs
<1>9. s.op = "decision" => s.value \in Decision /\ Has(t, StepOf("decision", i, s.value))
  BY <1>2, <1>6, <1>7, StepIs
<1>10. s.op = "queue" => s.value \in Kinds /\ Has(t, StepOf("queue", i, s.value))
  BY <1>2, <1>6, <1>7, StepIs
<1>11. s.op = "mark" => i \in lgm
  BY <1>1, <1>2, <1>7 DEF Shaped, ShapeOf
<1>12. s.op = "decision" => local[task[t].by].decision[i] = s.value
  BY <1>1, <1>5, <1>9 DEF Migrating
<1>13. s.op = "queue" => s.value \in local[task[t].by].queue[i]
  BY <1>1, <1>5, <1>10 DEF Migrating
<1>14. QED
  BY <1>3, <1>4, <1>5, <1>8, <1>9, <1>10, <1>11, <1>12, <1>13

\* No request makes the table forget what a browser has told it, once the
\* browser migrates or has migrated.
LEMMA ToldStays ==
  ASSUME SwipeInv, NEW t \in Busy, NEW s, s = Head(task[t].todo), Request(s),
         NEW b \in Browsers, NEW i \in Clean, local[b].decision[i] # "none",
         migrated[b] \/ TaskOf(b, "migrate") # {}
  PROVE  /\ table.decision[i] = local[b].decision[i] => table'.decision[i] = local[b].decision[i]
         /\ \A k \in local[b].queue[i] : k \in table.queue[i] \/ (k = "lgm" /\ i \in lgm) =>
              k \in table'.queue[i] \/ (k = "lgm" /\ i \in lgm')
<1>1. SwipeTypeOK /\ Remembered /\ Deciding /\ Resetting /\ i \in Ids
  BY DEF SwipeInv, Clean
<1>2. s \in Step /\ task[t].by \in Browsers
  BY <1>1, TaskFacts
<1>3. /\ lgm \subseteq lgm'
      /\ \/ table'.decision[i] = table.decision[i] /\ table'.queue[i] = table.queue[i]
         \/ table'.decision[i] = DecisionAfter(s, i) /\ table'.queue[i] = QueueAfter(s, i)
  BY <1>1, RequestIs
<1>4. CASE s.op # "clear" /\ s.id # i
  BY <1>3, <1>4 DEF DecisionAfter, QueueAfter
<1>5. CASE s.op = "clear"
  BY <1>1, <1>5 DEF Resetting
<1>6. CASE s.op = "swipe" /\ s.id = i
  BY <1>1, <1>6, HeadFacts DEF Deciding
<1>7. CASE s.op = "decision" /\ s.id = i
  <2>1. local[task[t].by].decision[i] = s.value /\ s.value # "none"
    BY <1>1, <1>7, HeadFacts, ContentFacts
  <2>2. local[b].decision[i] = s.value
    BY <1>1, <1>2, <2>1 DEF Remembered
  <2>3. QED
    BY <1>3, <1>7, <2>2 DEF DecisionAfter, QueueAfter
<1>8. CASE s.op = "queue" /\ s.id = i
  BY <1>3, <1>8 DEF DecisionAfter, QueueAfter
<1>9. CASE s.op = "mark" /\ s.id = i
  <2>1. i \in lgm
    BY <1>9, HeadFacts
  <2>2. QED
    BY <1>3, <1>9, <2>1 DEF DecisionAfter, QueueAfter
<1>10. CASE s.op = "push" /\ s.id = i
  BY <1>3, <1>10 DEF DecisionAfter, QueueAfter
<1>11. QED
  BY <1>2, <1>4, <1>5, <1>6, <1>7, <1>8, <1>9, <1>10, StepIs

\* A migration tells nothing new of an investor whose decision was saved.
LEMMA NothingNew ==
  ASSUME SwipeInv, NEW t \in Busy, NEW s, s = Head(task[t].todo), NEW i \in Saved, s.id = i
  PROVE  /\ s.op = "decision" => table.decision[i] = s.value
         /\ s.op = "queue" => s.value \in QueueOf(i, table.decision[i])
<1>1. SwipeTypeOK /\ Remembered /\ Known /\ i \in Ids /\ i \in Clean
  BY DEF SwipeInv, Clean, Saved
<1>2. task[t].by \in Browsers
  BY <1>1, TaskFacts
<1> DEFINE c == local[task[t].by]
<1>3. s.op = "decision" => c.decision[i] = s.value /\ s.value # "none"
  BY <1>1, HeadFacts, ContentFacts
<1>4. s.op = "queue" => s.value \in c.queue[i] /\ c.queue[i] = QueueOf(i, c.decision[i])
  BY <1>1, <1>2, HeadFacts DEF Remembered
<1>5. QueueOf(i, "none") = {}
  BY DEF QueueOf
<1>6. ASSUME s.op \in {"decision", "queue"} PROVE table.decision[i] = c.decision[i]
  <2>1. c.decision[i] # "none"
    BY <1>3, <1>4, <1>5, <1>6
  <2>2. SUFFICES ASSUME Pending(i, c.decision[i]) PROVE FALSE
    BY <1>1, <1>2, <2>1, ContentFacts DEF Known
  <2>3. PICK u \in Busy : Head(task[u].todo) = StepOf("swipe", i, c.decision[i])
    BY <2>2 DEF Pending
  <2>4. Head(task[u].todo).id = i /\ Head(task[u].todo).op = "swipe"
    BY <2>3, StepFacts
  <2>5. About(u, i) /\ About(t, i)
    BY <1>1, <2>4, HeadFacts
  <2>6. u = t
    BY <1>1, <2>5, HeadFacts
  <2>7. QED
    BY <1>6, <2>4, <2>6
<1>7. QED
  BY <1>3, <1>4, <1>6

-----------------------------------------------------------------------------
(* A task goes on. *)

\* Task t has done its first k steps, or it has ended; the others are as they
\* were.
Onward(t, k) ==
  /\ task' \in [Tasks -> Task \cup {Free}]
  /\ Busy' \in {Busy, Busy \ {t}}
  /\ \A u \in Busy \ {t} : task'[u] = task[u]
  /\ t \in Busy' =>
       LET old == task[t].todo
           new == task'[t].todo
       IN  /\ task'[t].by = task[t].by /\ task'[t].from = task[t].from
           /\ new # <<>> /\ Len(new) = Len(old) - k
           /\ \A n \in DOMAIN new : n + k \in DOMAIN old /\ new[n] = old[n + k]

LEMMA TaskEnds ==
  ASSUME SwipeTypeOK, NEW t \in Busy, NEW k, task' = [task EXCEPT ![t] = Free]
  PROVE  Onward(t, k) /\ t \notin Busy'
<1>1. t \in Tasks /\ task \in [Tasks -> Task \cup {Free}]
  BY TaskFacts DEF SwipeTypeOK
<1>2. task' \in [Tasks -> Task \cup {Free}] /\ task'[t] = Free
  BY <1>1
<1>3. \A u \in Tasks \ {t} : task'[u] = task[u]
  BY <1>1
<1>4. Busy' = Busy \ {t}
  BY <1>2, <1>3 DEF Busy
<1>5. \A u \in Busy \ {t} : task'[u] = task[u]
  BY <1>3 DEF Busy
<1>6. QED
  BY <1>2, <1>4, <1>5 DEF Onward

LEMMA TaskGoes ==
  ASSUME SwipeTypeOK, NEW t \in Busy, NEW k \in Nat, NEW r \in Seq(Step), r # <<>>,
         Len(r) = Len(task[t].todo) - k,
         \A n \in DOMAIN r : r[n] = task[t].todo[n + k],
         task' = [task EXCEPT ![t] = [task[t] EXCEPT !.todo = r]]
  PROVE  Onward(t, k) /\ t \in Busy'
<1>1. /\ t \in Tasks /\ task \in [Tasks -> Task \cup {Free}] /\ task[t] \in Task
      /\ Len(task[t].todo) \in Nat /\ DOMAIN task[t].todo = 1 .. Len(task[t].todo)
  BY TaskFacts DEF SwipeTypeOK
<1> DEFINE x == [task[t] EXCEPT !.todo = r]
<1>3. x \in Task /\ x.todo = r /\ x.by = task[t].by /\ x.from = task[t].from
  BY <1>1 DEF Task
<1>4. x # Free
  BY <1>3, TaskIsBusy
<1> HIDE DEF x
<1>5. task' \in [Tasks -> Task \cup {Free}] /\ task'[t] = x
  BY <1>1, <1>3 DEF x
<1>6. \A u \in Tasks \ {t} : task'[u] = task[u]
  BY <1>1
<1>7. Busy' = Busy
  BY <1>1, <1>4, <1>5, <1>6 DEF Busy
<1>8. \A u \in Busy \ {t} : task'[u] = task[u]
  BY <1>6 DEF Busy
<1>9. DOMAIN r = 1 .. Len(r) /\ Len(r) \in Nat
  OBVIOUS
<1>10. \A n \in DOMAIN r : n + k \in DOMAIN task[t].todo
  BY <1>1, <1>9
<1>11. QED
  BY <1>3, <1>5, <1>7, <1>8, <1>10 DEF Onward

\* What is left of a task was there before.
LEMMA OnwardFacts ==
  ASSUME SwipeTypeOK, NEW t \in Busy, NEW k \in Nat, Onward(t, k)
  PROVE  /\ Busy' \subseteq Busy
         /\ \A u \in Busy' : /\ task'[u].by = task[u].by /\ task'[u].from = task[u].from
                             /\ task'[u].todo # <<>>
                             /\ \A i : About(u, i)' => About(u, i)
                             /\ \A s : Has(u, s)' => Has(u, s)
         /\ \A b, f : TaskOf(b, f)' \subseteq TaskOf(b, f)
<1>1. Busy' \subseteq Busy
  BY DEF Onward
<1>2. ASSUME NEW u \in Busy'
      PROVE  /\ task'[u].by = task[u].by /\ task'[u].from = task[u].from
             /\ task'[u].todo # <<>>
             /\ \A n \in DOMAIN task'[u].todo : \E m \in DOMAIN task[u].todo :
                  task'[u].todo[n] = task[u].todo[m]
  <2>1. CASE u = t
    BY <2>1 DEF Onward
  <2>2. CASE u # t
    <3>1. task'[u] = task[u] /\ task[u].todo # <<>>
      BY <1>1, <2>2, TaskFacts DEF Onward, SwipeTypeOK
    <3>2. QED
      BY <3>1
  <2>3. QED
    BY <2>1, <2>2
<1>3. ASSUME NEW u \in Busy', NEW i, About(u, i)' PROVE About(u, i)
  BY <1>2, <1>3 DEF About
<1>4. ASSUME NEW u \in Busy', NEW s, Has(u, s)' PROVE Has(u, s)
  BY <1>2, <1>4 DEF Has
<1>5. \A b, f : TaskOf(b, f)' \subseteq TaskOf(b, f)
  BY <1>1, <1>2 DEF TaskOf
<1>6. QED
  BY <1>1, <1>2, <1>3, <1>4, <1>5

-----------------------------------------------------------------------------
(* A request of a task is answered or fails. *)

\* What both have in common.  A request that is served without the task going
\* on is one whose failure is remembered, or it changes no decision.
Carried(t, s, k) ==
  /\ s = Head(task[t].todo) /\ Request(s) /\ Onward(t, k)
  /\ k = 2 => task[t].from = "sync" /\ s.op = "push"
  /\ t \in Busy' /\ k = 1 => Effect(s)
  /\ mixed' = mixed /\ unsaved \subseteq unsaved'
  /\ \/ Effect(s) \/ s.op \in {"push", "mark"}
     \/ \A i \in Ids : s.op = "clear" \/ s.id = i => i \in unsaved'
  /\ \A b \in Browsers, i \in Clean :
       local'[b].decision[i] = local[b].decision[i] /\ local'[b].queue[i] = local[b].queue[i]
  /\ \A b \in Browsers : migrated'[b] =>
       migrated[b] \/ (b = task[t].by /\ task[t].from = "migrate" /\ t \notin Busy'
                       /\ Len(task[t].todo) = 1 /\ Effect(s))
  /\ \A b \in Browsers, i \in Ids :
       \/ /\ page'[b].show.decision[i] = page[b].show.decision[i]
          /\ page'[b].show.queue[i] \subseteq page[b].show.queue[i]
       \/ page'[b].show.decision[i] = "none" /\ page'[b].show.queue[i] = {}
  /\ s.op = "clear" /\ task[t].from # "nobody" =>
       \A i \in Ids : i \in unsaved' \/ page'[task[t].by].show.decision[i] = "none"

LEMMA ApartCarried ==
  ASSUME SwipeInv, NEW t \in Busy, NEW s, NEW k \in {1, 2}, Carried(t, s, k)
  PROVE  Apart'
<1>1. SwipeTypeOK /\ Apart /\ Onward(t, k) /\ Clean' = Clean
  BY DEF SwipeInv, Carried, Clean
<1>2. /\ Busy' \subseteq Busy
      /\ \A u \in Busy' : /\ task'[u].from = task[u].from
                          /\ \A i : About(u, i)' => About(u, i)
  BY <1>1, OnwardFacts
<1>3. QED
  BY <1>1, <1>2 DEF Apart

LEMMA RememberedCarried ==
  ASSUME SwipeInv, NEW t \in Busy, NEW s, NEW k \in {1, 2}, Carried(t, s, k)
  PROVE  Remembered'
<1>1. Remembered /\ Clean' = Clean
  BY DEF SwipeInv, Carried, Clean
<1>2. \A b \in Browsers, i \in Clean :
        local'[b].decision[i] = local[b].decision[i] /\ local'[b].queue[i] = local[b].queue[i]
  BY DEF Carried
<1>3. QED
  BY <1>1, <1>2 DEF Remembered, QueueOf

\* The first step of a task is the one it was, or one behind it.
LEMMA HeadCarried ==
  ASSUME SwipeInv, NEW t \in Busy, NEW s, NEW k \in {1, 2}, Carried(t, s, k), NEW u \in Busy'
  PROVE  /\ u \in Busy /\ task'[u].by = task[u].by
         /\ u # t => Head(task'[u].todo) = Head(task[u].todo)
         /\ u = t => Head(task'[u].todo).op \notin {"swipe", "clear"}
<1>1. SwipeTypeOK /\ Shaped /\ Onward(t, k)
  BY DEF SwipeInv, Carried
<1>2. u \in Busy /\ task'[u].by = task[u].by
  BY <1>1, OnwardFacts
<1>3. u # t => task'[u] = task[u]
  BY <1>1, <1>2 DEF Onward
<1>4. ASSUME u = t PROVE Head(task'[u].todo).op \notin {"swipe", "clear"}
  <2> DEFINE new == task'[t].todo
             old == task[t].todo
  <2>1. new # <<>> /\ Len(new) = Len(old) - k /\ new \in Seq(Step)
    <3>1. task'[t] \in Task
      BY <1>1, <1>2, <1>4 DEF Onward, Busy
    <3>2. QED
      BY <1>1, <1>4, <3>1 DEF Onward, Task
  <2>2. \A n \in DOMAIN new : n + k \in DOMAIN old /\ new[n] = old[n + k]
    BY <1>1, <1>4 DEF Onward
  <2> HIDE DEF new
  <2>3. 1 \in DOMAIN new /\ Head(new) = new[1]
    BY <2>1
  <2>4. Head(new) = old[1 + k] /\ 1 + k \in DOMAIN old /\ 1 + k # 1
    BY <2>2, <2>3
  <2>5. old[1 + k].op \notin {"swipe", "clear"}
    BY <1>1, <2>4 DEF Shaped, ShapeOf
  <2>6. QED
    BY <1>4, <2>4, <2>5 DEF new
<1>5. QED
  BY <1>2, <1>3, <1>4

LEMMA DecidingCarried ==
  ASSUME SwipeInv, NEW t \in Busy, NEW s, NEW k \in {1, 2}, Carried(t, s, k)
  PROVE  Deciding'
<1>1. SwipeTypeOK /\ Deciding /\ Onward(t, k) /\ Clean' = Clean
  BY DEF SwipeInv, Carried, Clean
<1> SUFFICES ASSUME NEW u \in Busy', NEW i \in Clean, NEW d \in Decision,
                    Head(task'[u].todo) = StepOf("swipe", i, d), NEW b \in Browsers
             PROVE  /\ local'[b].decision[i] # "none" =>
                         local'[b].decision[i] = d /\ ~migrated'[b] /\ TaskOf(b, "migrate")' = {}
                    /\ page'[b].show.decision[i] \in {"none", d}
  BY <1>1 DEF Deciding, StepOf
<1>2. Head(task'[u].todo).op = "swipe"
  BY StepFacts
<1>3. u \in Busy /\ Head(task[u].todo) = StepOf("swipe", i, d)
  BY <1>2, HeadCarried
<1>4. local[b].decision[i] # "none" =>
        local[b].decision[i] = d /\ ~migrated[b] /\ TaskOf(b, "migrate") = {}
  BY <1>1, <1>3 DEF Deciding
<1>5. page[b].show.decision[i] \in {"none", d}
  BY <1>1, <1>3 DEF Deciding
<1>6. local'[b].decision[i] = local[b].decision[i] /\ i \in Ids
  BY DEF Carried, Clean
<1>7. page'[b].show.decision[i] \in {"none", d}
  BY <1>5, <1>6 DEF Carried
<1>8. TaskOf(b, "migrate") = {} => TaskOf(b, "migrate")' = {}
  BY <1>1, OnwardFacts
<1>9. TaskOf(b, "migrate") = {} /\ ~migrated[b] => ~migrated'[b]
  BY DEF Carried, TaskOf
<1>10. QED
  BY <1>4, <1>6, <1>7, <1>8, <1>9

LEMMA ResettingCarried ==
  ASSUME SwipeInv, NEW t \in Busy, NEW s, NEW k \in {1, 2}, Carried(t, s, k)
  PROVE  Resetting'
<1>1. SwipeTypeOK /\ Resetting /\ Clean' = Clean
  BY DEF SwipeInv, Carried, Clean
<1> SUFFICES ASSUME NEW u \in Busy', NEW i \in Clean, Head(task'[u].todo).op = "clear",
                    NEW b \in Browsers
             PROVE  /\ local'[b].decision[i] = "none"
                    /\ b # task'[u].by => page'[b].show.decision[i] = "none"
  BY <1>1 DEF Resetting
<1>2. u \in Busy /\ task'[u].by = task[u].by /\ Head(task[u].todo).op = "clear"
  BY HeadCarried
<1>3. local[b].decision[i] = "none" /\ (b # task[u].by => page[b].show.decision[i] = "none")
  BY <1>1, <1>2 DEF Resetting
<1>4. local'[b].decision[i] = local[b].decision[i] /\ i \in Ids
  BY DEF Carried, Clean
<1>5. page'[b].show.decision[i] \in {page[b].show.decision[i], "none"}
  BY <1>4 DEF Carried
<1>6. QED
  BY <1>2, <1>3, <1>4, <1>5

LEMMA FlagCarried ==
  ASSUME SwipeInv, NEW t \in Busy, NEW s, NEW k \in {1, 2}, Carried(t, s, k)
  PROVE  FlagIsHonest'
<1>1. SwipeTypeOK /\ FlagIsHonest /\ Migrating /\ Clean' = Clean /\ s = Head(task[t].todo) /\ Request(s)
  BY DEF SwipeInv, Carried, Clean
<1> SUFFICES ASSUME NEW b \in Browsers, NEW i \in Clean, migrated'[b], local'[b].decision[i] # "none"
             PROVE  /\ table'.decision[i] = local'[b].decision[i]
                    /\ local'[b].queue[i] \subseteq table'.queue[i]
                         \cup (IF i \in lgm' THEN {"lgm"} ELSE {})
  BY <1>1 DEF FlagIsHonest, Clean
<1>2. local'[b].decision[i] = local[b].decision[i] /\ local'[b].queue[i] = local[b].queue[i]
  BY DEF Carried
<1>3. CASE migrated[b]
  <2>1. /\ table.decision[i] = local[b].decision[i]
        /\ \A x \in local[b].queue[i] : x \in table.queue[i] \/ (x = "lgm" /\ i \in lgm)
    BY <1>1, <1>2, <1>3 DEF FlagIsHonest, Clean
  <2>2. /\ table'.decision[i] = local[b].decision[i]
        /\ \A x \in local[b].queue[i] : x \in table'.queue[i] \/ (x = "lgm" /\ i \in lgm')
    BY <1>1, <1>2, <1>3, <2>1, ToldStays
  <2>3. QED
    BY <1>2, <2>2
<1>4. CASE ~ migrated[b]
  <2>1. /\ b = task[t].by /\ task[t].from = "migrate" /\ Len(task[t].todo) = 1
        /\ table' = Served(table, s)
    BY <1>4 DEF Carried, Effect
  <2>2. i \in Ids /\ s \in Step /\ \A x : Has(t, x) => x = s
    BY <1>1, <2>1, TaskFacts DEF Has, Clean
  <2>3. table'.decision[i] = DecisionAfter(s, i) /\ table'.queue[i] = QueueAfter(s, i)
    BY <1>1, <2>1, <2>2, ServedIs
  <2>4. TaskOf(b, "migrate") # {}
    BY <2>1 DEF TaskOf
  <2>5. table'.decision[i] = local[b].decision[i]
    <3>1. CASE table.decision[i] = local[b].decision[i]
      BY <1>1, <1>2, <2>4, <3>1, ToldStays
    <3>2. CASE Has(t, StepOf("decision", i, local[b].decision[i]))
      <4>1. s.op = "decision" /\ s.id = i /\ s.value = local[b].decision[i]
        BY <2>2, <3>2, StepFacts
      <4>2. QED
        BY <2>3, <4>1 DEF DecisionAfter
    <3>3. local[b].decision[i] \in Decision
      BY <1>1, <1>2, <2>2, ContentFacts
    <3>4. QED
      BY <1>1, <2>1, <3>1, <3>2, <3>3 DEF Migrating
  <2>6. ASSUME NEW x \in local[b].queue[i]
        PROVE  x \in table'.queue[i] \/ (x = "lgm" /\ i \in lgm')
    <3>1. CASE x \in table.queue[i] \/ (x = "lgm" /\ i \in lgm)
      BY <1>1, <1>2, <2>4, <3>1, ToldStays
    <3>2. CASE Has(t, StepOf("queue", i, x))
      <4>1. s.op = "queue" /\ s.id = i /\ s.value = x
        BY <2>2, <3>2, StepFacts
      <4>2. QED
        BY <2>3, <4>1 DEF QueueAfter
    <3>3. x \in Kinds
      BY <1>1, <2>2, ContentFacts
    <3>4. QED
      BY <1>1, <2>1, <3>1, <3>2, <3>3 DEF Migrating
  <2>7. QED
    BY <1>2, <2>5, <2>6
<1>5. QED
  BY <1>3, <1>4

\* A step that is still to do stays, or it is the one that was served.
LEMMA HasCarried ==
  ASSUME SwipeInv, NEW t \in Busy, NEW s, NEW k \in {1, 2}, Carried(t, s, k),
         NEW u \in Busy', task[u].from = "migrate", NEW x, Has(u, x)
  PROVE  Has(u, x)' \/ (u = t /\ x = s /\ Effect(s))
<1>1. SwipeTypeOK /\ Onward(t, k) /\ u \in Busy /\ s = Head(task[t].todo)
  BY OnwardFacts DEF SwipeInv, Carried
<1>2. CASE u # t
  <2>1. task'[u] = task[u]
    BY <1>1, <1>2 DEF Onward
  <2>2. QED
    BY <2>1 DEF Has
<1>3. CASE u = t
  <2> DEFINE new == task'[t].todo
             old == task[t].todo
  <2>1. k = 1 /\ Effect(s)
    BY <1>3 DEF Carried
  <2>2. PICK n \in DOMAIN old : old[n] = x
    BY <1>3 DEF Has
  <2>3. CASE n = 1
    BY <1>1, <1>3, <2>1, <2>2, <2>3, TaskFacts
  <2>4. CASE n # 1
    <3>1. Len(old) \in Nat /\ DOMAIN old = 1 .. Len(old)
      BY <1>1, TaskFacts
    <3>2. new \in Seq(Step) /\ Len(new) = Len(old) - 1
      <4>1. task'[t] \in Task
        BY <1>1, <1>3 DEF Onward, Busy
      <4>2. QED
        BY <1>1, <1>3, <2>1, <4>1 DEF Onward, Task
    <3>3. \A m \in DOMAIN new : new[m] = old[m + 1]
      BY <1>1, <1>3, <2>1 DEF Onward
    <3> HIDE DEF new
    <3>4. n - 1 \in DOMAIN new /\ (n - 1) + 1 = n
      BY <2>4, <3>1, <3>2
    <3>5. new[n - 1] = x
      BY <2>2, <3>3, <3>4
    <3>6. QED
      BY <1>3, <3>4, <3>5 DEF Has, new
  <2>5. QED
    BY <2>3, <2>4
<1>4. QED
  BY <1>2, <1>3

LEMMA MigratingCarried ==
  ASSUME SwipeInv, NEW t \in Busy, NEW s, NEW k \in {1, 2}, Carried(t, s, k)
  PROVE  Migrating'
<1>1. /\ SwipeTypeOK /\ Migrating /\ Onward(t, k) /\ Clean' = Clean
      /\ s = Head(task[t].todo) /\ Request(s)
  BY DEF SwipeInv, Carried, Clean
<1> SUFFICES ASSUME NEW u \in Busy', NEW i \in Clean, task'[u].from = "migrate"
             PROVE  LET c == local'[task'[u].by]
                    IN  /\ \A d \in Decision :
                             /\ Has(u, StepOf("decision", i, d))' => c.decision[i] = d
                             /\ c.decision[i] = d =>
                                  table'.decision[i] = d \/ Has(u, StepOf("decision", i, d))'
                        /\ \A x \in Kinds :
                             /\ Has(u, StepOf("queue", i, x))' => x \in c.queue[i]
                             /\ x \in c.queue[i] => \/ x \in table'.queue[i]
                                                    \/ x = "lgm" /\ i \in lgm'
                                                    \/ Has(u, StepOf("queue", i, x))'
  BY <1>1 DEF Migrating
<1> DEFINE b == task[u].by
<1>2. /\ u \in Busy /\ task'[u].by = b /\ task[u].from = "migrate"
      /\ \A x : Has(u, x)' => Has(u, x)
  BY <1>1, OnwardFacts
<1>3. b \in Browsers /\ i \in Ids /\ s \in Step /\ TaskOf(b, "migrate") # {}
  BY <1>1, <1>2, TaskFacts DEF Clean, TaskOf
<1>4. /\ \A d \in Decision :
           /\ Has(u, StepOf("decision", i, d)) => local[b].decision[i] = d
           /\ local[b].decision[i] = d =>
                table.decision[i] = d \/ Has(u, StepOf("decision", i, d))
      /\ \A x \in Kinds :
           /\ Has(u, StepOf("queue", i, x)) => x \in local[b].queue[i]
           /\ x \in local[b].queue[i] => \/ x \in table.queue[i]
                                         \/ x = "lgm" /\ i \in lgm
                                         \/ Has(u, StepOf("queue", i, x))
  BY <1>1, <1>2 DEF Migrating
<1> HIDE DEF b
<1>5. local'[b].decision[i] = local[b].decision[i] /\ local'[b].queue[i] = local[b].queue[i]
  BY <1>3 DEF Carried
<1>6. Effect(s) => table'.decision[i] = DecisionAfter(s, i) /\ table'.queue[i] = QueueAfter(s, i)
  BY <1>1, <1>3, ServedIs DEF Effect
<1>7. ASSUME NEW d \in Decision, local[b].decision[i] = d
      PROVE  table'.decision[i] = d \/ Has(u, StepOf("decision", i, d))'
  <2>1. CASE table.decision[i] = local[b].decision[i]
    <3>1. local[b].decision[i] # "none"
      BY <1>1, <1>7, ContentFacts
    <3>2. QED
      BY <1>1, <1>3, <1>7, <2>1, <3>1, ToldStays
  <2>2. CASE Has(u, StepOf("decision", i, d))
    <3> DEFINE x == StepOf("decision", i, d)
    <3>1. Has(u, x)' \/ (x = s /\ Effect(s))
      BY <1>2, <2>2, HasCarried
    <3>2. x = s /\ Effect(s) => table'.decision[i] = d
      BY <1>6, StepFacts DEF DecisionAfter
    <3>3. QED
      BY <3>1, <3>2
  <2>3. QED
    BY <1>4, <1>7, <2>1, <2>2
<1>8. ASSUME NEW z \in Kinds, z \in local[b].queue[i]
      PROVE  z \in table'.queue[i] \/ (z = "lgm" /\ i \in lgm') \/ Has(u, StepOf("queue", i, z))'
  <2>1. CASE z \in table.queue[i] \/ (z = "lgm" /\ i \in lgm)
    <3>1. local[b].decision[i] # "none"
      BY <1>3, <1>8 DEF SwipeInv, Remembered, QueueOf
    <3>2. QED
      BY <1>1, <1>3, <1>8, <2>1, <3>1, ToldStays
  <2>2. CASE Has(u, StepOf("queue", i, z))
    <3> DEFINE x == StepOf("queue", i, z)
    <3>1. Has(u, x)' \/ (x = s /\ Effect(s))
      BY <1>2, <2>2, HasCarried
    <3>2. x = s /\ Effect(s) => z \in table'.queue[i]
      BY <1>6, StepFacts DEF QueueAfter
    <3>3. QED
      BY <3>1, <3>2
  <2>3. QED
    BY <1>4, <1>8, <2>1, <2>2
<1>9. \A x : Has(u, x)' => Has(u, x)
  BY <1>2
<1>10. QED
  BY <1>2, <1>4, <1>5, <1>7, <1>8, <1>9

\* A decision that is on its way still is, or it was served.
LEMMA PendingCarried ==
  ASSUME SwipeInv, NEW t \in Busy, NEW s, NEW k \in {1, 2}, Carried(t, s, k),
         NEW i \in Saved, i \notin unsaved', NEW d \in Decision, Pending(i, d)
  PROVE  Pending(i, d)' \/ table'.decision[i] = d
<1>1. SwipeTypeOK /\ Onward(t, k) /\ s = Head(task[t].todo) /\ i \in Ids
  BY DEF SwipeInv, Carried, Saved
<1>2. PICK u \in Busy : Head(task[u].todo) = StepOf("swipe", i, d)
  BY DEF Pending
<1>3. CASE u = t
  <2>1. s.op = "swipe" /\ s.id = i /\ s.value = d /\ s \in Step
    BY <1>1, <1>2, <1>3, StepFacts
  <2>2. table' = Served(table, s)
    BY <1>1, <2>1 DEF Carried, Effect
  <2>3. QED
    BY <1>1, <2>1, <2>2, ServedIs DEF DecisionAfter
<1>4. CASE u # t
  <2>1. u \in Busy' /\ task'[u] = task[u]
    BY <1>1, <1>4 DEF Onward
  <2>2. QED
    BY <1>2, <2>1 DEF Pending
<1>5. QED
  BY <1>3, <1>4

\* For a saved investor a request changes the decision of the table only when
\* it is the decision that is on its way, or the table is cleared.
LEMMA DecisionCarried ==
  ASSUME SwipeInv, NEW t \in Busy, NEW s, NEW k \in {1, 2}, Carried(t, s, k), NEW i \in Saved
  PROVE  \/ table'.decision[i] = table.decision[i]
         \/ s.op = "swipe" /\ s.id = i /\ table'.decision[i] = s.value
         \/ s.op = "clear"
<1>1. SwipeTypeOK /\ s = Head(task[t].todo) /\ Request(s) /\ i \in Ids
  BY DEF SwipeInv, Carried, Saved
<1>2. table'.decision[i] = table.decision[i] \/ table'.decision[i] = DecisionAfter(s, i)
  BY <1>1, RequestIs
<1>3. s.op = "decision" /\ s.id = i => table.decision[i] = s.value
  BY <1>1, NothingNew
<1>4. QED
  BY <1>2, <1>3 DEF DecisionAfter

LEMMA KnownCarried ==
  ASSUME SwipeInv, NEW t \in Busy, NEW s, NEW k \in {1, 2}, Carried(t, s, k)
  PROVE  Known'
<1>1. /\ SwipeTypeOK /\ Known /\ Deciding /\ Resetting /\ Onward(t, k)
      /\ s = Head(task[t].todo) /\ Request(s)
  BY DEF SwipeInv, Carried
<1>2. \A i \in Saved' : i \in Saved /\ i \in Clean /\ i \in Ids /\ i \notin unsaved'
  BY DEF Carried, Saved, Clean
<1>3. ASSUME NEW i \in Saved'
      PROVE  table'.queue[i] \subseteq QueueOf(i, table'.decision[i])
  <2>1. i \in Saved /\ i \in Clean /\ i \in Ids
    BY <1>2
  <2>2. table.queue[i] \subseteq QueueOf(i, table.decision[i])
    BY <1>1, <2>1 DEF Known
  <2>3. \/ table'.decision[i] = table.decision[i] /\ table'.queue[i] = table.queue[i]
        \/ table'.decision[i] = DecisionAfter(s, i) /\ table'.queue[i] = QueueAfter(s, i)
    BY <1>1, <2>1, RequestIs
  <2>4. /\ s.op = "decision" /\ s.id = i => table.decision[i] = s.value
        /\ s.op = "queue" /\ s.id = i => s.value \in QueueOf(i, table.decision[i])
    BY <1>1, <2>1, NothingNew
  <2>5. CASE s.op = "swipe" /\ s.id = i
    BY <2>2, <2>3, <2>5 DEF DecisionAfter, QueueAfter
  <2>6. CASE s.op = "clear"
    BY <2>2, <2>3, <2>6 DEF DecisionAfter, QueueAfter
  <2>7. CASE ~ (s.op = "swipe" /\ s.id = i) /\ s.op # "clear"
    <3>1. table'.decision[i] = table.decision[i]
      BY <2>3, <2>4, <2>7 DEF DecisionAfter
    <3>2. table'.queue[i] \subseteq QueueOf(i, table.decision[i])
      <4> HIDE DEF QueueOf
      <4>1. QueueAfter(s, i) \subseteq QueueOf(i, table.decision[i])
        BY <2>2, <2>4, <2>7 DEF QueueAfter
      <4>2. QED
        BY <2>2, <2>3, <4>1
    <3>3. QED
      BY <3>1, <3>2
  <2>8. QED
    BY <2>5, <2>6, <2>7
<1>4. ASSUME NEW b \in Browsers, NEW i \in Saved', NEW d \in Decision, local'[b].decision[i] = d
      PROVE  table'.decision[i] = d \/ Pending(i, d)'
  <2>1. i \in Saved /\ i \in Clean /\ i \in Ids /\ i \notin unsaved'
    BY <1>2
  <2>2. local[b].decision[i] = d /\ d # "none"
    BY <1>1, <1>4, <2>1, ContentFacts DEF Carried
  <2>3. CASE Pending(i, d)
    BY <2>1, <2>3, PendingCarried
  <2>4. CASE table.decision[i] = d
    <3>1. s.op = "swipe" /\ s.id = i => s.value = d
      BY <1>1, <2>1, <2>2, HeadFacts DEF Deciding
    <3>2. s.op # "clear"
      BY <1>1, <2>1, <2>2 DEF Resetting
    <3>3. QED
      BY <2>1, <2>4, <3>1, <3>2, DecisionCarried
  <2>5. QED
    BY <1>1, <2>1, <2>2, <2>3, <2>4 DEF Known
<1>5. ASSUME NEW b \in Browsers, NEW i \in Saved', NEW d \in Decision,
             page'[b].show.decision[i] = d
      PROVE  table'.decision[i] = d \/ Pending(i, d)' \/ Clearing'
  <2>1. i \in Saved /\ i \in Clean /\ i \in Ids /\ i \notin unsaved'
    BY <1>2
  <2>2. d # "none"
    BY <1>1, ContentFacts
  <2>3. page[b].show.decision[i] = d
    BY <1>5, <2>1, <2>2 DEF Carried
  <2>4. s.op # "clear"
    <3> SUFFICES ASSUME s.op = "clear" PROVE FALSE
      OBVIOUS
    <3>1. task[t].from # "nobody"
      BY <1>1, <2>1, HeadFacts
    <3>2. b # task[t].by
      BY <1>5, <2>1, <2>2, <3>1 DEF Carried
    <3>3. QED
      BY <1>1, <2>1, <2>2, <2>3, <3>2 DEF Resetting
  <2>5. CASE Pending(i, d)
    BY <2>1, <2>5, PendingCarried
  <2>6. CASE table.decision[i] = d
    <3>1. s.op = "swipe" /\ s.id = i => s.value = d
      BY <1>1, <2>1, <2>2, <2>3, HeadFacts DEF Deciding
    <3>2. QED
      BY <2>1, <2>4, <2>6, <3>1, DecisionCarried
  <2>7. CASE Clearing
    <3>1. PICK u \in Busy : Head(task[u].todo).op = "clear"
      BY <2>7 DEF Clearing
    <3>2. u # t
      BY <1>1, <2>4, <3>1
    <3>3. u \in Busy' /\ task'[u] = task[u]
      BY <1>1, <3>2 DEF Onward
    <3>4. QED
      BY <3>1, <3>3 DEF Clearing
  <2>8. QED
    BY <1>1, <2>1, <2>3, <2>5, <2>6, <2>7 DEF Known
<1>6. ASSUME NEW b \in Browsers, NEW i \in Saved'
      PROVE  page'[b].show.queue[i] \subseteq QueueOf(i, page'[b].show.decision[i])
  <2>1. i \in Saved /\ i \in Ids
    BY <1>2
  <2>2. page[b].show.queue[i] \subseteq QueueOf(i, page[b].show.decision[i])
    BY <1>1, <2>1 DEF Known
  <2>3. \/ /\ page'[b].show.decision[i] = page[b].show.decision[i]
           /\ page'[b].show.queue[i] \subseteq page[b].show.queue[i]
        \/ page'[b].show.queue[i] = {}
    BY <2>1 DEF Carried
  <2>4. QED
    BY <2>2, <2>3
<1>7. \A i, d : QueueOf(i, d)' = QueueOf(i, d)
  BY DEF QueueOf
<1>8. QED
  BY <1>3, <1>4, <1>5, <1>6 DEF Known, QueueOf

\* A push that is still to do, and has no save before it, is of one whom the
\* table still keeps.
LEMMA KeepCarried ==
  ASSUME SwipeInv, NEW t \in Busy, NEW s, NEW k \in {1, 2}, Carried(t, s, k),
         NEW u \in Busy, NEW n \in DOMAIN task[u].todo, task[u].todo[n].op = "push",
         NEW i \in Saved, task[u].todo[n].id = i, table.decision[i] = "keep",
         s.op \in {"swipe", "clear"} => u # t
  PROVE  table'.decision[i] = "keep"
<1>1. About(u, i) /\ i \in Clean /\ s = Head(task[t].todo)
  BY DEF About, Saved, Clean, Carried
<1>2. ASSUME s.op = "clear" \/ s.id = i PROVE u = t
  BY <1>1, <1>2, HeadFacts
<1>3. QED
  BY <1>1, <1>2, DecisionCarried

LEMMA ShapedCarried ==
  ASSUME SwipeInv, NEW t \in Busy, NEW s, NEW k \in {1, 2}, Carried(t, s, k)
  PROVE  Shaped'
<1>1. /\ SwipeTypeOK /\ Shaped /\ Onward(t, k) /\ s = Head(task[t].todo) /\ Request(s)
      /\ lgm \subseteq lgm' /\ Saved' \subseteq Saved
  <2>1. SwipeTypeOK /\ Shaped /\ Onward(t, k) /\ s = Head(task[t].todo) /\ Request(s)
    BY DEF SwipeInv, Carried
  <2>2. lgm \subseteq lgm'
    BY <2>1, RequestIs
  <2>3. Saved' \subseteq Saved
    BY DEF Carried, Saved
  <2>4. QED
    BY <2>1, <2>2, <2>3
<1> SUFFICES ASSUME NEW u \in Busy', NEW n \in DOMAIN task'[u].todo
             PROVE  LET x == task'[u].todo[n]
                    IN  /\ x.op \in {"decision", "queue"} => task'[u].from \in {"migrate", "nobody"}
                        /\ x.op \in {"swipe", "clear"} => n = 1
                        /\ x.op = "clear" => /\ task'[u].from \in {"reset", "nobody"}
                                             /\ Len(task'[u].todo) = 1
                        /\ x.op \in {"push", "mark"} =>
                             x.id \in Linked /\ task'[u].from \in {"decide", "sync", "nobody"}
                        /\ x.op = "mark" => IF n = 1 THEN x.id \in lgm'
                                            ELSE task'[u].todo[n - 1] = StepOf("push", x.id, "none")
                        /\ x.op = "push" /\ task'[u].from = "sync" =>
                             n < Len(task'[u].todo) /\ task'[u].todo[n + 1].op = "mark"
                        /\ x.op = "push" =>
                             IF task'[u].todo[1].op = "swipe"
                             THEN task'[u].todo[1] = StepOf("swipe", x.id, "keep")
                             ELSE x.id \in Saved' => table'.decision[x.id] = "keep"
  BY DEF Shaped, ShapeOf, StepOf
<1>2. u \in Busy
  BY <1>1, OnwardFacts
<1>3. CASE u # t
  <2>1. task'[u] = task[u]
    BY <1>1, <1>2, <1>3 DEF Onward
  <2> DEFINE x == task[u].todo[n]
  <2>2. /\ x.op \in {"decision", "queue"} => task[u].from \in {"migrate", "nobody"}
        /\ x.op \in {"swipe", "clear"} => n = 1
        /\ x.op = "clear" => task[u].from \in {"reset", "nobody"} /\ Len(task[u].todo) = 1
        /\ x.op \in {"push", "mark"} => x.id \in Linked /\ task[u].from \in {"decide", "sync", "nobody"}
        /\ x.op = "mark" => IF n = 1 THEN x.id \in lgm
                            ELSE task[u].todo[n - 1] = StepOf("push", x.id, "none")
        /\ x.op = "push" /\ task[u].from = "sync" =>
             n < Len(task[u].todo) /\ task[u].todo[n + 1].op = "mark"
        /\ x.op = "push" =>
             IF task[u].todo[1].op = "swipe" THEN task[u].todo[1] = StepOf("swipe", x.id, "keep")
             ELSE x.id \in Saved => table.decision[x.id] = "keep"
    BY <1>1, <1>2, <2>1 DEF Shaped, ShapeOf
  <2>3. ASSUME x.op = "push", x.id \in Saved', table.decision[x.id] = "keep"
        PROVE  table'.decision[x.id] = "keep"
    BY <1>1, <1>2, <1>3, <2>1, <2>3, KeepCarried
  <2> HIDE DEF x
  <2>4. QED
    BY <1>1, <2>1, <2>2, <2>3 DEF x
<1>4. CASE u = t
  <2> DEFINE old == task[t].todo
             new == task'[t].todo
             m == n + k
             x == old[m]
  <2>1. /\ task'[t].from = task[t].from /\ Len(new) = Len(old) - k
        /\ \A j \in DOMAIN new : j + k \in DOMAIN old /\ new[j] = old[j + k]
    BY <1>1, <1>4 DEF Onward
  <2>2. new \in Seq(Step) /\ Len(old) \in Nat /\ DOMAIN old = 1 .. Len(old)
    <3>1. task'[t] \in Task
      BY <1>1, <1>2, <1>4 DEF Onward, Busy
    <3>2. QED
      BY <1>1, <3>1, TaskFacts DEF Task
  <2>3. /\ m \in DOMAIN old /\ new[n] = x /\ n \in Nat /\ n > 0 /\ m # 1
        /\ DOMAIN new = 1 .. Len(new) /\ 1 \in DOMAIN new /\ new[1] = old[1 + k]
        /\ n # 1 => m - 1 \in DOMAIN old /\ new[n - 1] = old[m - 1]
        /\ m < Len(old) => n < Len(new) /\ new[n + 1] = old[m + 1]
    <3> HIDE DEF new, old
    <3>1. DOMAIN new = 1 .. Len(new) /\ n \in 1 .. Len(new) /\ Len(new) \in Nat
      BY <1>4, <2>2 DEF new
    <3>2. n # 1 => n - 1 \in DOMAIN new /\ (n - 1) + k = m - 1
      BY <3>1
    <3>3. m < Len(old) => n + 1 \in DOMAIN new /\ (n + 1) + k = m + 1
      BY <2>1, <2>2, <3>1
    <3>4. m \in DOMAIN old /\ new[n] = old[m] /\ n \in Nat /\ n > 0 /\ m # 1 /\ 1 \in DOMAIN new
      BY <2>1, <2>2, <3>1
    <3>5. new[1] = old[1 + k]
      BY <2>1, <3>4
    <3>6. n # 1 => m - 1 \in DOMAIN old /\ new[n - 1] = old[m - 1]
      BY <2>1, <3>2
    <3>7. m < Len(old) => n < Len(new) /\ new[n + 1] = old[m + 1]
      BY <2>1, <2>2, <3>1, <3>3
    <3>8. QED
      BY <3>1, <3>4, <3>5, <3>6, <3>7
  <2>4. /\ x.op \in {"decision", "queue"} => task[t].from \in {"migrate", "nobody"}
        /\ x.op \notin {"swipe", "clear"}
        /\ x.op \in {"push", "mark"} => x.id \in Linked /\ task[t].from \in {"decide", "sync", "nobody"}
        /\ x.op = "mark" => old[m - 1] = StepOf("push", x.id, "none")
        /\ x.op = "push" /\ task[t].from = "sync" => m < Len(old) /\ old[m + 1].op = "mark"
        /\ x.op = "push" =>
             IF old[1].op = "swipe" THEN old[1] = StepOf("swipe", x.id, "keep")
             ELSE x.id \in Saved => table.decision[x.id] = "keep"
    BY <1>1, <2>3 DEF Shaped, ShapeOf
  <2>5. s = old[1] /\ 1 \in DOMAIN old /\ s \in Step
    BY <1>1, TaskFacts
  <2>6. ASSUME n = 1, x.op = "mark" PROVE x.id \in lgm'
    <3>1. CASE k = 1
      <4>1. s = StepOf("push", x.id, "none")
        BY <2>4, <2>5, <2>6, <3>1
      <4>2. lgm' = lgm \cup {s.id} /\ s.id = x.id
        BY <1>4, <3>1, <4>1, StepFacts DEF Carried, Effect
      <4>3. QED
        BY <4>2
    <3>2. CASE k = 2
      <4>1. task[t].from = "sync" /\ s.op = "push"
        BY <3>2 DEF Carried
      <4>2. old[1 + 1].op = "mark"
        BY <1>1, <2>5, <4>1 DEF Shaped, ShapeOf
      <4>3. old[2].op = "push"
        BY <2>4, <2>6, <3>2, StepFacts
      <4>4. QED
        BY <4>2, <4>3
    <3>3. QED
      BY <3>1, <3>2
  <2>7. new[1].op \notin {"swipe", "clear"}
    <3>1. 1 + k \in DOMAIN old /\ 1 + k # 1
      BY <2>1, <2>3
    <3>2. QED
      BY <1>1, <2>3, <3>1 DEF Shaped, ShapeOf
  <2>8. ASSUME x.op = "push", x.id \in Saved' PROVE table'.decision[x.id] = "keep"
    <3>1. x.id \in Ids /\ x.id \in Saved
      BY <1>1, <2>8 DEF Saved
    <3>2. CASE s.op = "swipe"
      <4>1. s = StepOf("swipe", x.id, "keep")
        BY <2>4, <2>5, <2>8, <3>2
      <4>2. k = 1
        BY <3>2 DEF Carried
      <4>3. table' = Served(table, s)
        BY <1>4, <4>2 DEF Carried, Effect
      <4>4. QED
        BY <1>1, <2>5, <3>1, <4>1, <4>3, ServedIs, StepFacts DEF DecisionAfter
    <3>3. CASE s.op # "swipe"
      <4>1. table.decision[x.id] = "keep"
        BY <2>4, <2>5, <2>8, <3>1, <3>3
      <4>2. s.op # "clear"
        BY <1>1, <2>2, <2>3, <2>5 DEF Shaped, ShapeOf
      <4>3. QED
        BY <2>3, <2>8, <3>1, <3>3, <4>1, <4>2, KeepCarried
    <3>4. QED
      BY <3>2, <3>3
  <2> HIDE DEF new, old, x, m
  <2>9. QED
    BY <1>4, <2>1, <2>3, <2>4, <2>6, <2>7, <2>8 DEF new
<1>5. QED
  BY <1>3, <1>4

LEMMA LocalWriteIs ==
  ASSUME NEW c \in Content, NEW s \in Step
  PROVE  /\ LocalWrite(c, s) \in Content
         /\ \A i \in Ids :
              /\ LocalWrite(c, s).decision[i] =
                   IF s.op = "decision" /\ s.id = i THEN s.value ELSE c.decision[i]
              /\ LocalWrite(c, s).queue[i] =
                   IF s.op = "queue" /\ s.id = i THEN c.queue[i] \cup {s.value} ELSE c.queue[i]
<1>1. CASE s.op = "decision"
  <2>1. s.id \in Ids /\ s.value \in Decision
    BY <1>1, StepIs
  <2>2. LocalWrite(c, s) = [c EXCEPT !.decision[s.id] = s.value]
    BY <1>1 DEF LocalWrite
  <2>3. QED
    BY <1>1, <2>1, <2>2 DEF Content
<1>2. CASE s.op = "queue"
  <2>1. s.id \in Ids /\ s.value \in Kinds
    BY <1>2, StepIs
  <2>2. LocalWrite(c, s) = [c EXCEPT !.queue[s.id] = c.queue[s.id] \cup {s.value}]
    BY <1>2 DEF LocalWrite, Content
  <2>3. QED
    BY <1>2, <2>1, <2>2 DEF Content
<1>3. CASE s.op \notin {"decision", "queue"}
  BY <1>3 DEF LocalWrite
<1>4. QED
  BY <1>1, <1>2, <1>3

LEMMA EmptyIs == Empty \in Content /\ \A i \in Ids : Empty.decision[i] = "none" /\ Empty.queue[i] = {}
BY DEF Empty, Content

LEMMA ShownIs ==
  ASSUME SwipeTypeOK, NEW t \in Busy, NEW s \in Step
  PROVE  /\ Shown(t, s) \in [Browsers -> [open : BOOLEAN, show : Content]]
         /\ \A b \in Browsers, i \in Ids :
              \/ /\ Shown(t, s)[b].show.decision[i] = page[b].show.decision[i]
                 /\ Shown(t, s)[b].show.queue[i] \subseteq page[b].show.queue[i]
              \/ Shown(t, s)[b].show.decision[i] = "none" /\ Shown(t, s)[b].show.queue[i] = {}
         /\ s.op = "clear" /\ task[t].from # "nobody" =>
              \A i \in Ids : Shown(t, s)[task[t].by].show.decision[i] = "none"
<1> DEFINE b == task[t].by
           Page == [open : BOOLEAN, show : Content]
<1>1. page \in [Browsers -> Page] /\ b \in Browsers
  BY TaskFacts DEF SwipeTypeOK
<1>2. page[b] \in Page /\ page[b].show \in Content
  BY <1>1
<1> HIDE DEF b
<1>3. CASE task[t].from = "nobody"
  <2>1. Shown(t, s) = page
    BY <1>3 DEF Shown
  <2>2. QED
    BY <1>1, <1>3, <2>1
<1>4. CASE task[t].from # "nobody" /\ s.op = "mark"
  <2> DEFINE c == [page[b].show EXCEPT !.queue[s.id] = page[b].show.queue[s.id] \ {"lgm"}]
  <2>1. /\ c \in Content
        /\ \A i \in Ids : c.decision[i] = page[b].show.decision[i] /\ c.queue[i] \subseteq page[b].show.queue[i]
    <3>1. s.id \in Ids
      BY <1>4, StepIs
    <3>2. QED
      BY <1>2, <3>1 DEF Content
  <2>2. Shown(t, s) = [page EXCEPT ![b] = [page[b] EXCEPT !.show = c]]
    BY <1>1, <1>2, <1>4 DEF Shown, b, Content
  <2> HIDE DEF c
  <2>3. QED
    BY <1>1, <1>2, <1>4, <2>1, <2>2
<1>5. CASE task[t].from # "nobody" /\ s.op = "clear"
  <2>1. Shown(t, s) = [page EXCEPT ![b] = [page[b] EXCEPT !.show = Empty]]
    BY <1>1, <1>2, <1>5 DEF Shown, b
  <2>2. QED
    BY <1>1, <1>2, <1>5, <2>1, EmptyIs DEF b
<1>6. CASE task[t].from # "nobody" /\ s.op \notin {"mark", "clear"}
  <2>1. Shown(t, s) = page
    BY <1>6 DEF Shown
  <2>2. QED
    BY <1>1, <1>6, <2>1
<1>7. QED
  BY <1>3, <1>4, <1>5, <1>6

LEMMA AllCarried ==
  ASSUME SwipeInv, NEW t \in Busy, NEW s, NEW k \in {1, 2}, Carried(t, s, k), SwipeTypeOK'
  PROVE  SwipeInv'
BY ShapedCarried, ApartCarried, RememberedCarried, DecidingCarried, ResettingCarried,
   MigratingCarried, FlagCarried, KnownCarried DEF SwipeInv

\* A step is behind another in a list that does not change.
LEMMA TailIs ==
  ASSUME NEW r \in Seq(Step), r # <<>>
  PROVE  LET a == Tail(r)
         IN  /\ a \in Seq(Step) /\ Len(a) = Len(r) - 1 /\ Len(r) \in Nat
             /\ DOMAIN a = 1 .. Len(a)
             /\ \A n \in DOMAIN a : a[n] = r[n + 1] /\ n + 1 \in DOMAIN r
             /\ a # <<>> => Head(a) = r[2] /\ 2 \in DOMAIN r /\ Head(a) \in Step
             /\ a = <<>> <=> Len(r) = 1
OBVIOUS

LEMMA AnsweredIs ==
  ASSUME SwipeInv, NEW t \in Tasks, Answered(t)
  PROVE  SwipeInv'
<1> DEFINE x == task[t]
           s == Head(x.todo)
           rest == Tail(x.todo)
           b == x.by
<1>1. SwipeTypeOK /\ Shaped /\ Migrating /\ t \in Busy
  BY DEF SwipeInv, Answered
<1>2. /\ x \in Task /\ b \in Browsers /\ x.todo \in Seq(Step) /\ x.todo # <<>> /\ s \in Step
      /\ t \in Tasks
  BY <1>1, TaskFacts DEF SwipeTypeOK
<1>3. /\ Effect(s)
      /\ page' = Shown(t, s)
      /\ task' = [task EXCEPT ![t] = IF rest = <<>> THEN Free ELSE [x EXCEPT !.todo = rest]]
      /\ local' = IF x.from = "migrate" /\ rest # <<>>
                  THEN [local EXCEPT ![b] = LocalWrite(local[b], Head(rest))] ELSE local
      /\ migrated' = IF x.from = "migrate" THEN [migrated EXCEPT ![b] = rest = <<>>] ELSE migrated
      /\ mixed' = mixed /\ unsaved' = unsaved
  BY Zenon, <1>1 DEF Answered, ghosts, SwipeTypeOK
<1>4. /\ rest \in Seq(Step) /\ Len(rest) = Len(x.todo) - 1
      /\ \A n \in DOMAIN rest : rest[n] = x.todo[n + 1] /\ n + 1 \in DOMAIN x.todo
      /\ rest # <<>> => Head(rest) = x.todo[2] /\ 2 \in DOMAIN x.todo /\ Head(rest) \in Step
      /\ rest = <<>> <=> Len(x.todo) = 1
  BY <1>2, TailIs
<1> HIDE DEF x, s, rest, b
<1>5. /\ Onward(t, 1)
      /\ t \in Busy' <=> rest # <<>>
  <2>1. CASE rest = <<>>
    <3>1. task' = [task EXCEPT ![t] = Free]
      BY <1>3, <2>1
    <3>2. QED
      BY <1>1, <2>1, <3>1, TaskEnds
  <2>2. CASE rest # <<>>
    <3>1. task' = [task EXCEPT ![t] = [task[t] EXCEPT !.todo = rest]]
      BY <1>3, <2>2 DEF x
    <3>2. \A n \in DOMAIN rest : rest[n] = task[t].todo[n + 1]
      BY <1>4 DEF x
    <3>3. Len(rest) = Len(task[t].todo) - 1
      BY <1>4 DEF x
    <3>4. Onward(t, 1) /\ t \in Busy'
      BY <1>1, <1>4, <2>2, <3>1, <3>2, <3>3, TaskGoes
    <3>5. QED
      BY <2>2, <3>4
  <2>3. QED
    BY <2>1, <2>2
<1>6. s = Head(task[t].todo) /\ Request(s)
  BY <1>3 DEF s, x, Request
<1>7. local' \in [Browsers -> Content]
  <2>1. local \in [Browsers -> Content]
    BY <1>1 DEF SwipeTypeOK
  <2>2. rest # <<>> => LocalWrite(local[b], Head(rest)) \in Content
    BY <1>2, <1>4, <2>1, LocalWriteIs
  <2>3. QED
    BY <1>2, <1>3, <2>1, <2>2
<1>8. \A o \in Browsers, i \in Clean :
        local'[o].decision[i] = local[o].decision[i] /\ local'[o].queue[i] = local[o].queue[i]
  <2> SUFFICES ASSUME NEW i \in Clean, x.from = "migrate", rest # <<>>
               PROVE  /\ local'[b].decision[i] = local[b].decision[i]
                      /\ local'[b].queue[i] = local[b].queue[i]
    BY <1>1, <1>2, <1>3 DEF SwipeTypeOK
  <2> DEFINE e == Head(rest)
  <2>1. local[b] \in Content /\ local \in [Browsers -> Content]
    BY <1>1, <1>2 DEF SwipeTypeOK
  <2>2. e \in Step /\ Has(t, e)
    BY <1>4 DEF Has, x
  <2>3. local'[b] = LocalWrite(local[b], e)
    BY <1>2, <1>3, <2>1
  <2> HIDE DEF e
  <2>4. e = StepOf(e.op, e.id, e.value)
    BY <2>2, StepIs
  <2>5. e.op = "decision" /\ e.id = i => local[b].decision[i] = e.value
    <3> SUFFICES ASSUME e.op = "decision", e.id = i PROVE local[b].decision[i] = e.value
      OBVIOUS
    <3>1. e.value \in Decision /\ Has(t, StepOf("decision", i, e.value))
      BY <2>2, <2>4, StepIs
    <3>2. QED
      BY <1>1, <3>1 DEF Migrating, x, b
  <2>6. e.op = "queue" /\ e.id = i => e.value \in local[b].queue[i]
    <3> SUFFICES ASSUME e.op = "queue", e.id = i PROVE e.value \in local[b].queue[i]
      OBVIOUS
    <3>1. e.value \in Kinds /\ Has(t, StepOf("queue", i, e.value))
      BY <2>2, <2>4, StepIs
    <3>2. QED
      BY <1>1, <3>1 DEF Migrating, x, b
  <2>7. i \in Ids
    BY DEF Clean
  <2>8. /\ LocalWrite(local[b], e).decision[i] =
             IF e.op = "decision" /\ e.id = i THEN e.value ELSE local[b].decision[i]
        /\ LocalWrite(local[b], e).queue[i] =
             IF e.op = "queue" /\ e.id = i THEN local[b].queue[i] \cup {e.value} ELSE local[b].queue[i]
    BY <2>1, <2>2, <2>7, LocalWriteIs
  <2>9. LocalWrite(local[b], e).decision[i] = local[b].decision[i]
    BY <2>5, <2>8
  <2>10. LocalWrite(local[b], e).queue[i] = local[b].queue[i]
    BY <2>6, <2>8
  <2>11. QED
    BY <2>3, <2>9, <2>10
<1>9. \A o \in Browsers : migrated'[o] =>
        migrated[o] \/ (o = task[t].by /\ task[t].from = "migrate" /\ t \notin Busy'
                        /\ Len(task[t].todo) = 1 /\ Effect(s))
  <2>1. migrated \in [Browsers -> BOOLEAN]
    BY <1>1 DEF SwipeTypeOK
  <2>2. \A o \in Browsers : o # b => migrated'[o] = migrated[o]
    BY <1>3, <2>1
  <2>3. x.from = "migrate" => migrated'[b] = (rest = <<>>)
    BY <1>2, <1>3, <2>1
  <2>4. x.from # "migrate" => migrated' = migrated
    BY <1>3
  <2>5. QED
    BY <1>3, <1>4, <1>5, <2>2, <2>3, <2>4 DEF x, b
<1>10. Carried(t, s, 1)
  <2>1. /\ \A o \in Browsers, i \in Ids :
              \/ /\ page'[o].show.decision[i] = page[o].show.decision[i]
                 /\ page'[o].show.queue[i] \subseteq page[o].show.queue[i]
              \/ page'[o].show.decision[i] = "none" /\ page'[o].show.queue[i] = {}
        /\ s.op = "clear" /\ task[t].from # "nobody" =>
              \A i \in Ids : page'[task[t].by].show.decision[i] = "none"
    <3> DEFINE pp == Shown(t, s)
    <3>1. /\ \A o \in Browsers, i \in Ids :
                \/ /\ pp[o].show.decision[i] = page[o].show.decision[i]
                   /\ pp[o].show.queue[i] \subseteq page[o].show.queue[i]
                \/ pp[o].show.decision[i] = "none" /\ pp[o].show.queue[i] = {}
          /\ s.op = "clear" /\ task[t].from # "nobody" =>
                \A i \in Ids : pp[task[t].by].show.decision[i] = "none"
      BY <1>1, <1>2, ShownIs
    <3>2. page' = pp
      BY <1>3
    <3> HIDE DEF pp
    <3>3. QED
      BY <3>1, <3>2
  <2>2. QED
    BY <1>3, <1>5, <1>6, <1>8, <1>9, <2>1 DEF Carried
<1>11. SwipeTypeOK'
  <2>1. table' \in TableType /\ lgm' \subseteq Linked
    BY <1>1, <1>6, RequestIs
  <2>2. page' \in [Browsers -> [open : BOOLEAN, show : Content]]
    BY <1>1, <1>2, <1>3, ShownIs
  <2>3. migrated' \in [Browsers -> BOOLEAN]
    BY <1>1, <1>2, <1>3 DEF SwipeTypeOK
  <2>4. task' \in [Tasks -> Task \cup {Free}] /\ \A u \in Busy' : task'[u].todo # <<>>
    BY <1>1, <1>5, OnwardFacts DEF Onward
  <2>5. mixed' \subseteq Ids /\ unsaved' \subseteq Ids
    BY <1>1, <1>3 DEF SwipeTypeOK
  <2>6. QED
    BY <1>7, <2>1, <2>2, <2>3, <2>4, <2>5 DEF SwipeTypeOK, TableType, Content
<1>12. QED
  BY <1>1, <1>10, <1>11, AllCarried

LEMMA FailedIs ==
  ASSUME SwipeInv, NEW t \in Tasks, Failed(t)
  PROVE  SwipeInv'
<1> DEFINE x == task[t]
           s == Head(x.todo)
           rest == AfterRefusal(x.todo)
<1>1. SwipeTypeOK /\ t \in Busy
  BY DEF SwipeInv, Failed
<1>2. /\ x \in Task /\ x.todo \in Seq(Step) /\ x.todo # <<>> /\ s \in Step
      /\ s.op \in {"swipe", "decision", "queue", "push", "mark", "clear"}
  BY <1>1, TaskFacts, StepIs DEF SwipeTypeOK
<1>3. /\ Request(s)
      /\ UNCHANGED <<local, migrated, page, mixed>>
      /\ unsaved' = unsaved \cup (IF s.op = "clear" THEN Ids
                                  ELSE IF s.op \in {"push", "mark"} THEN {} ELSE {s.id})
      /\ \/ task' = [task EXCEPT ![t] = Free]
         \/ /\ x.from = "sync" /\ s.op = "push" /\ rest # <<>>
            /\ task' = [task EXCEPT ![t].todo = AfterRefusal(@)]
  BY DEF Failed, Request
<1>4. PICK k \in {1, 2} :
        /\ Onward(t, k)
        /\ k = 2 => x.from = "sync" /\ s.op = "push"
        /\ t \in Busy' => k = 2
  <2>1. CASE task' = [task EXCEPT ![t] = Free]
    <3>1. Onward(t, 1) /\ t \notin Busy'
      BY <1>1, <2>1, TaskEnds
    <3>2. QED
      BY <3>1
  <2>2. CASE /\ x.from = "sync" /\ s.op = "push" /\ rest # <<>>
             /\ task' = [task EXCEPT ![t].todo = AfterRefusal(@)]
    <3>1. task' = [task EXCEPT ![t] = [task[t] EXCEPT !.todo = rest]]
      BY <1>1, <2>2 DEF SwipeTypeOK
    <3>2. /\ rest \in Seq(Step) /\ Len(rest) = Len(task[t].todo) - 2
          /\ \A n \in DOMAIN rest : rest[n] = task[t].todo[n + 2]
      <4> DEFINE a == Tail(x.todo)
      <4>1. /\ a \in Seq(Step) /\ Len(a) = Len(x.todo) - 1 /\ Len(x.todo) \in Nat
            /\ \A n \in DOMAIN a : a[n] = x.todo[n + 1]
        BY <1>2, TailIs
      <4>2. rest = Tail(a)
        BY DEF AfterRefusal
      <4>3. a # <<>>
        <5>1. 1 \in DOMAIN x.todo /\ s = x.todo[1] /\ 1 < Len(x.todo)
          BY <1>1, <1>2, <2>2, TaskFacts DEF SwipeInv, Shaped, ShapeOf
        <5>2. QED
          BY <4>1, <5>1
      <4> HIDE DEF a
      <4>4. /\ rest \in Seq(Step) /\ Len(rest) = Len(a) - 1
            /\ \A n \in DOMAIN rest : rest[n] = a[n + 1] /\ n + 1 \in DOMAIN a
            /\ DOMAIN rest = 1 .. Len(rest)
        BY <4>1, <4>2, <4>3, TailIs
      <4>5. \A n \in DOMAIN rest : (n + 1) + 1 = n + 2
        BY <4>4
      <4> HIDE DEF rest
      <4>6. QED
        BY <4>1, <4>4, <4>5
    <3> HIDE DEF rest, s
    <3>3. Onward(t, 2)
      BY <1>1, <2>2, <3>1, <3>2, TaskGoes
    <3>4. QED
      BY <2>2, <3>3
  <2>3. QED
    BY <1>3, <2>1, <2>2
<1>5. Carried(t, s, k)
  <2>1. \A i \in Ids : s.op = "clear" \/ s.id = i => s.op \in {"push", "mark"} \/ i \in unsaved'
    BY <1>3
  <2>2. \A i \in Ids : s.op = "clear" => i \in unsaved'
    BY <1>3
  <2>3. unsaved \subseteq unsaved'
    BY <1>3
  <2>4. s = Head(task[t].todo) /\ Request(s) /\ Onward(t, k)
    BY <1>3, <1>4
  <2>5. (k = 2 => task[t].from = "sync" /\ s.op = "push") /\ ~ (t \in Busy' /\ k = 1)
    BY <1>4
  <2> HIDE DEF s, rest
  <2>6. QED
    BY <1>3, <2>1, <2>2, <2>3, <2>4, <2>5 DEF Carried
<1>6. SwipeTypeOK'
  <2>1. table' \in TableType /\ lgm' \subseteq Linked
    BY <1>1, <1>3, RequestIs
  <2>2. task' \in [Tasks -> Task \cup {Free}] /\ \A u \in Busy' : task'[u].todo # <<>>
    BY <1>1, <1>4, OnwardFacts DEF Onward
  <2>3. mixed' \subseteq Ids /\ unsaved' \subseteq Ids
    BY <1>1, <1>2, <1>3, StepIs DEF SwipeTypeOK
  <2>4. /\ local' \in [Browsers -> Content] /\ migrated' \in [Browsers -> BOOLEAN]
        /\ page' \in [Browsers -> [open : BOOLEAN, show : Content]]
    BY <1>1, <1>3 DEF SwipeTypeOK
  <2>5. QED
    BY <2>1, <2>2, <2>3, <2>4 DEF SwipeTypeOK, TableType, Content
<1>7. QED
  BY <1>1, <1>5, <1>6, AllCarried

-----------------------------------------------------------------------------
(* A task begins. *)

LEMMA TouchedIs ==
  /\ \A i : Touched(i) <=> \E t \in Busy : About(t, i)
  /\ SwipeTypeOK => \A t \in Busy : \A i :
       Head(task[t].todo).op = "clear" \/ Head(task[t].todo).id = i => About(t, i)
<1>1. \A i : Touched(i) <=> \E t \in Busy : About(t, i)
  BY DEF Touched, About
<1>2. ASSUME SwipeTypeOK, NEW t \in Busy, NEW i,
             Head(task[t].todo).op = "clear" \/ Head(task[t].todo).id = i
      PROVE  About(t, i)
  <2>1. Head(task[t].todo) = task[t].todo[1] /\ 1 \in DOMAIN task[t].todo
    BY <1>2, TaskFacts
  <2>2. QED
    BY <1>2, <2>1 DEF About
<1>3. QED
  BY <1>1, <1>2

\* The invariant says nothing more of an investor whom an action moves than
\* that no task is about it and that who remembers it does not migrate.
Moved(i, s) ==
  /\ ~Touched(i)
  /\ \A b \in Browsers :
       /\ local'[b].queue[i] = QueueOf(i, local'[b].decision[i])
       /\ local'[b].decision[i] # "none" =>
            /\ ~migrated'[b] /\ TaskOf(b, "migrate") = {}
            /\ \A o \in Browsers : local'[o].decision[i] # "none" => o = b
       /\ \A d \in Decision : /\ local'[b].decision[i] = d => s = StepOf("swipe", i, d)
                              /\ page'[b].show.decision[i] = d => s \in {StepOf("swipe", i, d), StepOf("clear", "all", "none")}
       /\ i \in Saved => page'[b].show.queue[i] \subseteq QueueOf(i, page'[b].show.decision[i])

Unmoved(i) ==
  \A b \in Browsers :
    /\ local'[b].decision[i] = local[b].decision[i] /\ local'[b].queue[i] = local[b].queue[i]
    /\ page'[b].show.decision[i] = page[b].show.decision[i]
    /\ page'[b].show.queue[i] = page[b].show.queue[i]

\* What the actions have in common that begin a task which is no migration.
Begun(t, x) ==
  /\ t \in Tasks \ Busy /\ x \in Task /\ x.todo # <<>> /\ x.from \notin {"migrate", "nobody"}
  /\ task' = [task EXCEPT ![t] = x]
  /\ table' = table /\ lgm' = lgm /\ unsaved' = unsaved /\ mixed \subseteq mixed'
  /\ \A b \in Browsers : migrated'[b] => migrated[b]
  /\ \A i \in Clean' : Unmoved(i) \/ Moved(i, Head(x.todo))
  /\ \A i \in Clean', n \in DOMAIN x.todo : x.todo[n].op = "clear" \/ x.todo[n].id = i => ~Touched(i)
  /\ \A i \in Clean', d \in Decision, b \in Browsers : Head(x.todo) = StepOf("swipe", i, d) =>
       /\ local'[b].decision[i] # "none" =>
            local'[b].decision[i] = d /\ ~migrated'[b] /\ TaskOf(b, "migrate") = {}
       /\ page'[b].show.decision[i] \in {"none", d}
  /\ \A i \in Clean', b \in Browsers : Head(x.todo).op = "clear" =>
       /\ local'[b].decision[i] = "none"
       /\ b # x.by => page'[b].show.decision[i] = "none"

LEMMA TaskBegins ==
  ASSUME SwipeTypeOK, NEW t \in Tasks \ Busy, NEW x \in Task, x.todo # <<>>,
         task' = [task EXCEPT ![t] = x]
  PROVE  /\ task' \in [Tasks -> Task \cup {Free}]
         /\ Busy' = Busy \cup {t} /\ t \notin Busy /\ task'[t] = x
         /\ \A u \in Busy : task'[u] = task[u] /\ u # t
         /\ \A u \in Busy' : task'[u].todo # <<>>
<1>1. task \in [Tasks -> Task \cup {Free}] /\ x # Free /\ \A u \in Busy : task[u].todo # <<>>
  BY TaskIsBusy DEF SwipeTypeOK
<1>2. task' \in [Tasks -> Task \cup {Free}] /\ task'[t] = x /\ \A u \in Tasks \ {t} : task'[u] = task[u]
  BY <1>1
<1>3. Busy' = Busy \cup {t}
  BY <1>1, <1>2 DEF Busy
<1>4. \A u \in Busy : u \in Tasks \ {t}
  BY DEF Busy
<1>5. QED
  BY <1>1, <1>2, <1>3, <1>4

LEMMA BegunIs ==
  ASSUME SwipeInv, NEW t, NEW x, Begun(t, x), ShapeOf(x)', SwipeTypeOK'
  PROVE  SwipeInv'
<1> DEFINE s == Head(x.todo)
<1>1. /\ SwipeTypeOK /\ Shaped /\ Apart /\ Remembered /\ Deciding /\ Resetting
      /\ Migrating /\ FlagIsHonest /\ Known
  BY DEF SwipeInv
<1>2. /\ Busy' = Busy \cup {t} /\ t \notin Busy /\ task'[t] = x
      /\ \A u \in Busy : task'[u] = task[u] /\ u # t
      /\ \A u \in Busy' : task'[u].todo # <<>>
  <2>1. /\ t \in Tasks \ Busy /\ x \in Task /\ x.todo # <<>> /\ task' = [task EXCEPT ![t] = x]
    BY DEF Begun
  <2>2. QED
    BY <1>1, <2>1, TaskBegins
<1>3. /\ table' = table /\ lgm' = lgm /\ unsaved' = unsaved
      /\ Clean' \subseteq Clean /\ Clean \subseteq Ids
      /\ Saved' \subseteq Saved /\ Saved' \subseteq Clean' /\ Saved \subseteq Clean
      /\ \A i \in Clean' : Unmoved(i) \/ Moved(i, s)
      /\ \A b \in Browsers : migrated'[b] => migrated[b]
      /\ x.from \notin {"migrate", "nobody"}
  BY DEF Begun, Clean, Saved
<1>4. \A u \in Busy : \A i : (About(u, i)' <=> About(u, i)) /\ \A e : Has(u, e)' <=> Has(u, e)
  BY <1>2 DEF About, Has
<1>5. \A i \in Clean' : About(t, i)' => ~Touched(i)
  BY <1>2 DEF Begun, About
<1>6. \A b : TaskOf(b, "migrate")' = TaskOf(b, "migrate")
  BY <1>2, <1>3 DEF TaskOf
<1>7. /\ \A u \in Busy : \A i : About(u, i) => Touched(i)
      /\ \A u \in Busy : \A i :
           Head(task[u].todo).op = "clear" \/ Head(task[u].todo).id = i => About(u, i)
  BY <1>1, TouchedIs
<1> HIDE DEF s
<1>8. Shaped'
  <2>1. ASSUME NEW u \in Busy PROVE ShapeOf(task[u])'
    <3>1. ShapeOf(task[u]) /\ task'[u] = task[u]
      BY <1>1, <1>2 DEF Shaped
    <3>2. QED
      BY <1>3, <3>1 DEF ShapeOf, StepOf
  <2>2. ShapeOf(task[t])'
    BY <1>2, <1>3 DEF ShapeOf, StepOf
  <2>3. QED
    BY <1>2, <2>1, <2>2 DEF Shaped
<1>9. Apart'
  <2>1. ASSUME NEW u \in Busy', NEW i \in Clean', About(u, i)'
        PROVE  task'[u].from # "nobody" /\ \A v \in Busy' : About(v, i)' => v = u
    BY <1>1, <1>2, <1>3, <1>4, <1>5, <1>7, <2>1 DEF Apart
  <2>2. QED
    BY <2>1 DEF Apart
<1>10. Remembered'
  <2>1. ASSUME NEW b \in Browsers, NEW i \in Clean'
        PROVE  /\ local'[b].queue[i] = QueueOf(i, local'[b].decision[i])
               /\ local'[b].decision[i] # "none" =>
                    \A o \in Browsers : local'[o].decision[i] # "none" => o = b
    <3>1. CASE Unmoved(i)
      BY <1>1, <1>3, <3>1 DEF Remembered, Unmoved
    <3>2. CASE Moved(i, s)
      BY <3>2 DEF Moved
    <3>3. QED
      BY <1>3, <3>1, <3>2
  <2>2. QED
    BY <2>1 DEF Remembered, QueueOf
<1>11. Deciding'
  <2>1. ASSUME NEW u \in Busy', NEW i \in Clean', NEW d \in Decision, NEW b \in Browsers,
               Head(task'[u].todo) = StepOf("swipe", i, d)
        PROVE  /\ local'[b].decision[i] # "none" =>
                    local'[b].decision[i] = d /\ ~migrated'[b] /\ TaskOf(b, "migrate")' = {}
               /\ page'[b].show.decision[i] \in {"none", d}
    <3>1. CASE u = t
      BY <1>2, <1>6, <2>1, <3>1 DEF Begun
    <3>2. CASE u \in Busy
      <4>1. Head(task[u].todo) = StepOf("swipe", i, d) /\ Touched(i)
        BY <1>2, <1>7, <2>1, <3>2, StepFacts
      <4>2. Unmoved(i)
        BY <1>3, <4>1 DEF Moved
      <4>3. QED
        BY <1>1, <1>3, <1>6, <3>2, <4>1, <4>2 DEF Deciding, Unmoved
    <3>3. QED
      BY <1>2, <3>1, <3>2
  <2>2. QED
    BY <2>1 DEF Deciding, StepOf
<1>12. Resetting'
  <2>1. ASSUME NEW u \in Busy', NEW i \in Clean', NEW b \in Browsers, Head(task'[u].todo).op = "clear"
        PROVE  /\ local'[b].decision[i] = "none"
               /\ b # task'[u].by => page'[b].show.decision[i] = "none"
    <3>1. CASE u = t
      BY <1>2, <2>1, <3>1 DEF Begun
    <3>2. CASE u \in Busy
      <4>1. Head(task[u].todo).op = "clear" /\ Touched(i)
        BY <1>2, <1>7, <2>1, <3>2
      <4>2. Unmoved(i)
        BY <1>3, <4>1 DEF Moved
      <4>3. QED
        BY <1>1, <1>2, <1>3, <3>2, <4>1, <4>2 DEF Resetting, Unmoved
    <3>3. QED
      BY <1>2, <3>1, <3>2
  <2>2. QED
    BY <2>1 DEF Resetting
<1>13. Migrating'
  <2>1. ASSUME NEW u \in Busy', NEW i \in Clean', task'[u].from = "migrate"
        PROVE  LET c == local'[task'[u].by]
               IN  /\ \A d \in Decision :
                        /\ Has(u, StepOf("decision", i, d))' => c.decision[i] = d
                        /\ c.decision[i] = d =>
                             table'.decision[i] = d \/ Has(u, StepOf("decision", i, d))'
                   /\ \A k \in Kinds :
                        /\ Has(u, StepOf("queue", i, k))' => k \in c.queue[i]
                        /\ k \in c.queue[i] => \/ k \in table'.queue[i]
                                               \/ k = "lgm" /\ i \in lgm'
                                               \/ Has(u, StepOf("queue", i, k))'
    <3>1. u \in Busy /\ task'[u] = task[u] /\ task[u].by \in Browsers
      BY <1>1, <1>2, <1>3, <2>1, TaskFacts
    <3>2. CASE Unmoved(i)
      <4>1. \A o, v : Has(u, StepOf(o, i, v))' <=> Has(u, StepOf(o, i, v))
        BY <3>1 DEF Has, StepOf
      <4>2. /\ i \in Clean /\ local'[task'[u].by].decision[i] = local[task[u].by].decision[i]
            /\ local'[task'[u].by].queue[i] = local[task[u].by].queue[i]
            /\ task[u].from = "migrate"
        BY <1>3, <2>1, <3>1, <3>2 DEF Unmoved
      <4>3. LET c == local[task[u].by]
            IN  /\ \A d \in Decision :
                     /\ Has(u, StepOf("decision", i, d)) => c.decision[i] = d
                     /\ c.decision[i] = d => table.decision[i] = d \/ Has(u, StepOf("decision", i, d))
                /\ \A k \in Kinds :
                     /\ Has(u, StepOf("queue", i, k)) => k \in c.queue[i]
                     /\ k \in c.queue[i] => \/ k \in table.queue[i]
                                            \/ k = "lgm" /\ i \in lgm
                                            \/ Has(u, StepOf("queue", i, k))
        BY <1>1, <3>1, <4>2 DEF Migrating
      <4>4. QED
        BY <1>3, <4>1, <4>2, <4>3
    <3>3. CASE Moved(i, s)
      <4>1. u \in TaskOf(task[u].by, "migrate")
        BY <2>1, <3>1 DEF TaskOf
      <4>2. local'[task[u].by].decision[i] = "none"
        BY <3>1, <3>3, <4>1 DEF Moved
      <4>3. local'[task[u].by].queue[i] = {}
        BY <3>1, <3>3, <4>2 DEF Moved, QueueOf
      <4>4. ~About(u, i)
        BY <1>7, <3>1, <3>3 DEF Moved
      <4>5. \A o, v : ~Has(u, StepOf(o, i, v))'
        BY <1>4, <3>1, <4>4, StepFacts DEF Has, About
      <4>6. "none" \notin Decision
        BY DEF Decision
      <4>7. QED
        BY <3>1, <4>2, <4>3, <4>5, <4>6 DEF StepOf
    <3>4. QED
      BY <1>3, <3>2, <3>3
  <2>2. QED
    BY <2>1 DEF Migrating, StepOf
<1>14. FlagIsHonest'
  <2>1. ASSUME NEW b \in Browsers, NEW i \in Clean', migrated'[b], local'[b].decision[i] # "none"
        PROVE  /\ table'.decision[i] = local'[b].decision[i]
               /\ local'[b].queue[i] \subseteq table'.queue[i] \cup (IF i \in lgm' THEN {"lgm"} ELSE {})
    <3>1. Unmoved(i)
      BY <1>3, <2>1 DEF Moved
    <3>2. QED
      BY <1>1, <1>3, <2>1, <3>1 DEF FlagIsHonest, Unmoved, Clean
  <2>2. QED
    BY <2>1 DEF FlagIsHonest, Clean
<1>15. \A i, d : Pending(i, d) => Pending(i, d)'
  BY <1>2 DEF Pending, StepOf
<1>16. Clearing => Clearing'
  BY <1>2 DEF Clearing
<1>17. /\ \A i, d : s = StepOf("swipe", i, d) => Pending(i, d)'
       /\ s = StepOf("clear", "all", "none") => Clearing'
  BY <1>2, StepFacts DEF Pending, Clearing, s, StepOf
<1>18. Known'
  <2>1. ASSUME NEW i \in Saved' PROVE table'.queue[i] \subseteq QueueOf(i, table'.decision[i])
    BY <1>1, <1>3 DEF Known
  <2>2. ASSUME NEW b \in Browsers, NEW i \in Saved', NEW d \in Decision
        PROVE  /\ local'[b].decision[i] = d => table'.decision[i] = d \/ Pending(i, d)'
               /\ page'[b].show.decision[i] = d =>
                    table'.decision[i] = d \/ Pending(i, d)' \/ Clearing'
    <3>1. i \in Clean' /\ i \in Saved
      BY <1>3
    <3>2. CASE Unmoved(i)
      BY <1>1, <1>3, <1>15, <1>16, <3>1, <3>2 DEF Known, Unmoved
    <3>3. CASE Moved(i, s)
      BY <1>17, <3>3 DEF Moved
    <3>4. QED
      BY <1>3, <3>1, <3>2, <3>3
  <2>3. ASSUME NEW b \in Browsers, NEW i \in Saved'
        PROVE  page'[b].show.queue[i] \subseteq QueueOf(i, page'[b].show.decision[i])
    <3>1. i \in Clean' /\ i \in Saved
      BY <1>3
    <3>2. CASE Unmoved(i)
      BY <1>1, <3>1, <3>2 DEF Known, Unmoved
    <3>3. CASE Moved(i, s)
      BY <3>1, <3>3 DEF Moved
    <3>4. QED
      BY <1>3, <3>1, <3>2, <3>3
  <2>4. QED
    BY <2>1, <2>2, <2>3 DEF Known, QueueOf
<1>19. QED
  BY <1>8, <1>9, <1>10, <1>11, <1>12, <1>13, <1>14, <1>18 DEF SwipeInv

LEMMA SwipedIs ==
  ASSUME NEW c \in Content, NEW i \in Ids, NEW d \in Decision
  PROVE  /\ Swiped(c, i, d) \in Content
         /\ Swiped(c, i, d).decision[i] = d /\ Swiped(c, i, d).queue[i] = QueueOf(i, d)
         /\ \A j \in Ids \ {i} : /\ Swiped(c, i, d).decision[j] = c.decision[j]
                                 /\ Swiped(c, i, d).queue[j] = c.queue[j]
<1>1. QueueOf(i, d) \in SUBSET Kinds
  BY QueueOfType
<1>2. QED
  BY <1>1 DEF Swiped, Content

LEMMA DecideIs ==
  ASSUME SwipeInv, NEW b \in Browsers, NEW j \in Ids, NEW e \in Decision, Decide(b, j, e)
  PROVE  SwipeInv'
<1> DEFINE s == StepOf("swipe", j, e)
<1>0. PICK x : x = [by |-> b, from |-> "decide", todo |-> DecideSteps(j, e)]
  OBVIOUS
<1>1. SwipeTypeOK /\ Known
  BY DEF SwipeInv
<1>2. PICK t \in Tasks \ Busy : task' = [task EXCEPT ![t] = x]
  BY <1>0 DEF Decide
<1>3. /\ page' = [page EXCEPT ![b].show = Swiped(@, j, e)]
      /\ local' = [local EXCEPT ![b] = Swiped(@, j, e)]
      /\ migrated' = [migrated EXCEPT ![b] = FALSE]
      /\ mixed' = IF Meets(b, j) THEN mixed \cup {j} ELSE mixed
      /\ table' = table /\ lgm' = lgm /\ unsaved' = unsaved
  BY DEF Decide, FlagGone
<1>4. /\ DecideSteps(j, e) \in Seq(Step) /\ DecideSteps(j, e) # <<>>
      /\ Head(DecideSteps(j, e)) = s
      /\ DecideSteps(j, e)[1] = s
      /\ \/ Len(DecideSteps(j, e)) = 1
         \/ /\ Len(DecideSteps(j, e)) = 3 /\ e = "keep" /\ j \in Linked
            /\ DecideSteps(j, e)[2] = StepOf("push", j, "none")
            /\ DecideSteps(j, e)[3] = StepOf("mark", j, "none")
  <2> DEFINE push == StepOf("push", j, "none")
             mark == StepOf("mark", j, "none")
  <2>1. s \in Step /\ push \in Step /\ mark \in Step
    BY StepFacts
  <2>2. DecideSteps(j, e) = <<s>> \o IF e = "keep" /\ j \in Linked THEN <<push, mark>> ELSE <<>>
    BY DEF DecideSteps
  <2> HIDE DEF s, push, mark
  <2>3. CASE e = "keep" /\ j \in Linked
    <3>1. DecideSteps(j, e) = <<s>> \o <<push, mark>>
      BY <2>2, <2>3
    <3> DEFINE u == <<s>>
               v == <<push, mark>>
               c == u \o v
    <3>2. /\ u \in Seq(Step) /\ Len(u) = 1 /\ u[1] = s
          /\ v \in Seq(Step) /\ Len(v) = 2 /\ v[1] = push /\ v[2] = mark
      BY <2>1
    <3> HIDE DEF u, v
    <3>3. /\ c \in Seq(Step) /\ Len(c) = Len(u) + Len(v)
          /\ \A n \in 1 .. Len(u) : c[n] = u[n]
          /\ \A n \in Len(u) + 1 .. Len(u) + Len(v) : c[n] = v[n - Len(u)]
      BY <3>2, Joined
    <3>4. c # <<>> /\ Len(c) = 3 /\ Head(c) = c[1] /\ c[1] = u[1] /\ c[2] = v[1] /\ c[3] = v[2]
      <4> HIDE DEF c
      <4>1. QED
        BY <3>2, <3>3
    <3>5. DecideSteps(j, e) = c
      BY <3>1 DEF u, v
    <3> HIDE DEF c
    <3>6. QED
      BY <2>3, <3>2, <3>3, <3>4, <3>5 DEF push, mark
  <2>4. CASE ~ (e = "keep" /\ j \in Linked)
    <3>1. DecideSteps(j, e) = <<s>> \o <<>>
      BY <2>2, <2>4
    <3>2. <<s>> \o <<>> = <<s>>
      BY <2>1
    <3>3. QED
      BY <2>1, <3>1, <3>2
  <2>5. QED
    BY <2>3, <2>4
<1>5. x \in Task /\ x.todo # <<>> /\ Head(x.todo) = s
  BY <1>0, <1>4 DEF Task
<1>6. ShapeOf(x)'
  <2> DEFINE r == DecideSteps(j, e)
             push == StepOf("push", j, "none")
             mark == StepOf("mark", j, "none")
  <2>1. s.op = "swipe" /\ push.op = "push" /\ push.id = j /\ mark.op = "mark" /\ mark.id = j
    BY StepFacts
  <2>2. \/ DOMAIN r = {1} /\ r[1] = s
        \/ /\ DOMAIN r = {1, 2, 3} /\ Len(r) = 3 /\ r[1] = s /\ r[2] = push /\ r[3] = mark
           /\ e = "keep" /\ j \in Linked
    BY <1>4
  <2>3. x.todo = r /\ x.from = "decide"
    BY <1>0
  <2>4. push = StepOf("push", mark.id, "none") /\ s = StepOf("swipe", push.id, e)
    BY <2>1
  <2> HIDE DEF r, s, push, mark
  <2>5. CASE DOMAIN r = {1} /\ r[1] = s
    BY <2>1, <2>3, <2>5 DEF ShapeOf
  <2>6. CASE /\ DOMAIN r = {1, 2, 3} /\ Len(r) = 3 /\ r[1] = s /\ r[2] = push /\ r[3] = mark
             /\ e = "keep" /\ j \in Linked
    <3> SUFFICES ASSUME NEW n \in {1, 2, 3}
                 PROVE  LET a == r[n]
                        IN  /\ a.op \notin {"decision", "queue", "clear"}
                            /\ a.op = "swipe" => n = 1
                            /\ a.op \in {"push", "mark"} => a.id \in Linked
                            /\ a.op = "mark" => n # 1 /\ r[n - 1] = StepOf("push", a.id, "none")
                            /\ a.op = "push" => r[1].op = "swipe" /\ r[1] = StepOf("swipe", a.id, "keep")
      BY <2>3, <2>6 DEF ShapeOf
    <3>1. CASE n = 1
      BY <2>1, <2>6, <3>1
    <3>2. CASE n = 2
      BY <2>1, <2>4, <2>6, <3>2
    <3>3. CASE n = 3
      BY <2>1, <2>4, <2>6, <3>3
    <3>4. QED
      BY <3>1, <3>2, <3>3
  <2>7. QED
    BY <2>2, <2>5, <2>6
<1>7. /\ local \in [Browsers -> Content] /\ page \in [Browsers -> [open : BOOLEAN, show : Content]]
      /\ migrated \in [Browsers -> BOOLEAN]
  BY <1>1 DEF SwipeTypeOK
<1>8. /\ local'[b] = Swiped(local[b], j, e) /\ page'[b].show = Swiped(page[b].show, j, e)
      /\ \A o \in Browsers \ {b} : local'[o] = local[o] /\ page'[o] = page[o] /\ migrated'[o] = migrated[o]
      /\ migrated'[b] = FALSE
  BY <1>3, <1>7
<1>9. local[b] \in Content /\ page[b].show \in Content
  BY <1>7
<1>10. \A i \in Ids \ {j} : Unmoved(i)
  BY <1>8, <1>9, SwipedIs DEF Unmoved
<1>11. ASSUME j \in Clean'
       PROVE  /\ Moved(j, s) /\ ~Touched(j) /\ TaskOf(b, "migrate") = {}
              /\ \A o \in Browsers : /\ local'[o].decision[j] = (IF o = b THEN e ELSE "none")
                                     /\ page'[o].show.decision[j] = (IF o = b THEN e ELSE "none")
  <2>1. ~Touched(j) /\ TaskOf(b, "migrate") = {} /\ \A o \in Browsers \ {b} : ~Knows(o, j)
    BY <1>3, <1>11 DEF Clean, Meets
  <2>2. \A o \in Browsers : /\ local'[o].decision[j] = (IF o = b THEN e ELSE "none")
                            /\ page'[o].show.decision[j] = (IF o = b THEN e ELSE "none")
    BY <1>8, <1>9, <2>1, SwipedIs DEF Knows
  <2>3. /\ local'[b].queue[j] = QueueOf(j, e) /\ page'[b].show.queue[j] = QueueOf(j, e)
    BY <1>8, <1>9, SwipedIs
  <2>4. \A o \in Browsers \ {b} : local'[o].queue[j] = QueueOf(j, "none")
    <3>1. mixed' = mixed /\ j \in Clean
      BY <1>3, <1>11 DEF Clean
    <3>2. QED
      BY <1>8, <2>1, <3>1 DEF SwipeInv, Remembered, Knows
  <2>5. \A o \in Browsers \ {b} : j \in Saved => page'[o].show.queue[j] \subseteq QueueOf(j, "none")
    BY <1>1, <1>8, <2>1 DEF Known, Knows
  <2>6. "none" \notin Decision /\ e # "none"
    BY DEF Decision
  <2> HIDE DEF s
  <2>7. Moved(j, s)
    <3> SUFFICES ASSUME NEW o \in Browsers
                 PROVE  /\ local'[o].queue[j] = QueueOf(j, local'[o].decision[j])
                        /\ local'[o].decision[j] # "none" =>
                             /\ ~migrated'[o] /\ TaskOf(o, "migrate") = {}
                             /\ \A a \in Browsers : local'[a].decision[j] # "none" => a = o
                        /\ \A d \in Decision :
                             /\ local'[o].decision[j] = d => s = StepOf("swipe", j, d)
                             /\ page'[o].show.decision[j] = d =>
                                  s \in {StepOf("swipe", j, d), StepOf("clear", "all", "none")}
                        /\ j \in Saved => page'[o].show.queue[j] \subseteq QueueOf(j, page'[o].show.decision[j])
      BY <2>1 DEF Moved
    <3>1. CASE o = b
      BY <1>8, <2>1, <2>2, <2>3, <2>6, <3>1 DEF s
    <3>2. CASE o # b
      BY <2>2, <2>4, <2>5, <2>6, <3>2
    <3>3. QED
      BY <3>1, <3>2
  <2>8. QED
    BY <2>1, <2>2, <2>7
<1>12. Begun(t, x)
  <2>1. \A n \in DOMAIN x.todo : x.todo[n].op # "clear" /\ x.todo[n].id = j
    <3>1. DOMAIN x.todo = 1 .. Len(DecideSteps(j, e)) /\ x.todo = DecideSteps(j, e)
      BY <1>0, <1>4
    <3>2. s.op = "swipe" /\ s.id = j
      BY StepFacts
    <3> HIDE DEF s
    <3>3. QED
      BY <1>4, <3>1, <3>2, StepFacts
  <2>2. \A i, d : s = StepOf("swipe", i, d) => i = j /\ d = e
    BY DEF StepOf
  <2>3. s.op = "swipe"
    BY StepFacts
  <2>4. \A i \in Clean' : i \in Ids
    BY DEF Clean
  <2>5. mixed \subseteq mixed'
    BY <1>3
  <2>6. \A o \in Browsers : migrated'[o] => migrated[o]
    BY <1>8
  <2>7. \A i \in Clean' : Unmoved(i) \/ Moved(i, s)
    BY <1>10, <1>11, <2>4
  <2>8. \A i \in Clean', n \in DOMAIN x.todo : x.todo[n].op = "clear" \/ x.todo[n].id = i => ~Touched(i)
    BY <1>11, <2>1
  <2>9. \A i \in Clean', d \in Decision, o \in Browsers : s = StepOf("swipe", i, d) =>
          /\ local'[o].decision[i] # "none" =>
               local'[o].decision[i] = d /\ ~migrated'[o] /\ TaskOf(o, "migrate") = {}
          /\ page'[o].show.decision[i] \in {"none", d}
    BY <1>8, <1>11, <2>2
  <2>10. x.from = "decide"
    BY <1>0
  <2> HIDE DEF s
  <2>11. QED
    BY <1>2, <1>3, <1>5, <2>3, <2>5, <2>6, <2>7, <2>8, <2>9, <2>10 DEF Begun
<1>13. SwipeTypeOK'
  <2>1. Swiped(local[b], j, e) \in Content /\ Swiped(page[b].show, j, e) \in Content
    BY <1>9, SwipedIs
  <2>2. local' \in [Browsers -> Content]
    BY <1>3, <1>7, <2>1
  <2>3. page' \in [Browsers -> [open : BOOLEAN, show : Content]]
    BY <1>3, <1>7, <2>1
  <2>4. migrated' \in [Browsers -> BOOLEAN]
    BY <1>3, <1>7
  <2>5. task' \in [Tasks -> Task \cup {Free}] /\ \A u \in Busy' : task'[u].todo # <<>>
    BY <1>1, <1>2, <1>5, TaskBegins
  <2>6. mixed' \subseteq Ids /\ unsaved' \subseteq Ids
    BY <1>1, <1>3 DEF SwipeTypeOK
  <2>7. table' \in TableType /\ lgm' \subseteq Linked
    BY <1>1, <1>3 DEF SwipeTypeOK, TableType
  <2>8. QED
    BY <2>2, <2>3, <2>4, <2>5, <2>6, <2>7 DEF SwipeTypeOK, TableType, Content
<1>14. QED
  BY <1>6, <1>12, <1>13, BegunIs

LEMMA CrossOffIs ==
  ASSUME SwipeInv, NEW b \in Browsers, NEW j \in Ids, CrossOff(b, j)
  PROVE  SwipeInv'
<1> DEFINE s == StepOf("swipe", j, "cut")
<1>0. PICK x : x = [by |-> b, from |-> "kept", todo |-> <<s>>]
  OBVIOUS
<1>1. SwipeTypeOK
  BY DEF SwipeInv
<1>2. PICK t \in Tasks \ Busy : task' = [task EXCEPT ![t] = x]
  BY <1>0 DEF CrossOff
<1>3. /\ mixed' = IF Touched(j) \/ \E o \in Browsers : Knows(o, j) THEN mixed \cup {j} ELSE mixed
      /\ UNCHANGED <<table, lgm, local, migrated, page, unsaved>>
  BY DEF CrossOff
<1>4. s \in Step /\ s.op = "swipe" /\ s.id = j /\ \A i, d : s = StepOf("swipe", i, d) => i = j
  BY StepFacts DEF Decision
<1>5. j \in Clean' => ~Touched(j) /\ \A o \in Browsers : /\ local[o].decision[j] = "none"
                                                        /\ page[o].show.decision[j] = "none"
  BY <1>3 DEF Clean, Knows
<1> HIDE DEF s
<1>6. /\ x \in Task /\ x.todo # <<>> /\ Head(x.todo) = s /\ x.from = "kept"
      /\ DOMAIN x.todo = {1} /\ x.todo[1] = s
  BY <1>0, <1>4 DEF Task
<1>7. ShapeOf(x)'
  BY <1>4, <1>6 DEF ShapeOf
<1>8. Begun(t, x)
  BY <1>2, <1>3, <1>4, <1>5, <1>6 DEF Begun, Unmoved
<1>9. SwipeTypeOK'
  <2>1. task' \in [Tasks -> Task \cup {Free}] /\ \A u \in Busy' : task'[u].todo # <<>>
    BY <1>1, <1>2, <1>6, TaskBegins
  <2>2. mixed' \subseteq Ids
    BY <1>1, <1>3 DEF SwipeTypeOK
  <2>3. QED
    BY <1>1, <1>3, <2>1, <2>2 DEF SwipeTypeOK, Content
<1>10. QED
  BY <1>7, <1>8, <1>9, BegunIs

LEMMA ResetIs ==
  ASSUME SwipeInv, NEW b \in Browsers, Reset(b)
  PROVE  SwipeInv'
<1> DEFINE s == StepOf("clear", "all", "none")
<1>0. PICK x : x = [by |-> b, from |-> "reset", todo |-> <<s>>]
  OBVIOUS
<1>1. SwipeTypeOK /\ Remembered /\ Known
  BY DEF SwipeInv
<1>2. PICK t \in Tasks \ Busy : task' = [task EXCEPT ![t] = x]
  BY <1>0 DEF Reset
<1>3. /\ local' = [local EXCEPT ![b] = Empty]
      /\ migrated' = [migrated EXCEPT ![b] = FALSE]
      /\ mixed' = mixed \cup {i \in Ids : Touched(i) \/ \E o \in Browsers \ {b} : Knows(o, i)}
      /\ UNCHANGED <<table, lgm, page, unsaved>>
  BY DEF Reset, FlagGone
<1>4. s \in Step /\ s.op = "clear" /\ \A i, d : s # StepOf("swipe", i, d)
  BY StepFacts
<1>5. /\ local \in [Browsers -> Content] /\ migrated \in [Browsers -> BOOLEAN]
      /\ local' \in [Browsers -> Content] /\ migrated' \in [Browsers -> BOOLEAN]
      /\ local'[b] = Empty /\ migrated'[b] = FALSE
      /\ \A o \in Browsers \ {b} : local'[o] = local[o] /\ migrated'[o] = migrated[o]
  BY <1>1, <1>3, EmptyIs DEF SwipeTypeOK
<1>6. ASSUME NEW i \in Clean'
      PROVE  /\ ~Touched(i) /\ i \in Ids /\ i \in Clean
             /\ \A o \in Browsers \ {b} : /\ local[o].decision[i] = "none"
                                          /\ page[o].show.decision[i] = "none"
             /\ \A o \in Browsers : local'[o].decision[i] = "none"
  <2>1. ~Touched(i) /\ i \in Ids /\ i \in Clean /\ \A o \in Browsers \ {b} : ~Knows(o, i)
    BY <1>3 DEF Clean
  <2>2. QED
    BY <1>5, <2>1, EmptyIs DEF Knows
<1> HIDE DEF s
<1>7. ASSUME NEW i \in Clean' PROVE Moved(i, s)
  <2>1. ASSUME NEW o \in Browsers PROVE local'[o].queue[i] = QueueOf(i, local'[o].decision[i])
    <3>1. QueueOf(i, "none") = {}
      BY DEF QueueOf
    <3>2. CASE o = b
      BY <1>5, <1>6, <3>1, <3>2, EmptyIs
    <3>3. CASE o # b
      BY <1>1, <1>5, <1>6, <3>3 DEF Remembered
    <3>4. QED
      BY <3>2, <3>3
  <2>2. "none" \notin Decision
    BY DEF Decision
  <2>3. \A o \in Browsers : i \in Saved => page'[o].show.queue[i] \subseteq QueueOf(i, page'[o].show.decision[i])
    BY <1>1, <1>3 DEF Known
  <2>4. QED
    BY <1>6, <2>1, <2>2, <2>3 DEF Moved, s
<1>8. /\ x \in Task /\ x.todo # <<>> /\ Head(x.todo) = s /\ x.from = "reset" /\ x.by = b
      /\ DOMAIN x.todo = {1} /\ x.todo[1] = s /\ Len(x.todo) = 1
  BY <1>0, <1>4 DEF Task
<1>9. ShapeOf(x)'
  BY <1>4, <1>8 DEF ShapeOf
<1>10. Begun(t, x)
  <2>1. \A o \in Browsers : migrated'[o] => migrated[o]
    BY <1>5
  <2>2. mixed \subseteq mixed'
    BY <1>3
  <2>3. QED
    BY <1>2, <1>3, <1>4, <1>6, <1>7, <1>8, <2>1, <2>2 DEF Begun
<1>11. SwipeTypeOK'
  <2>1. task' \in [Tasks -> Task \cup {Free}] /\ \A u \in Busy' : task'[u].todo # <<>>
    BY <1>1, <1>2, <1>8, TaskBegins
  <2>2. mixed' \subseteq Ids
    BY <1>1, <1>3 DEF SwipeTypeOK
  <2>3. QED
    BY <1>1, <1>3, <1>5, <2>1, <2>2 DEF SwipeTypeOK, Content
<1>12. QED
  BY <1>9, <1>10, <1>11, BegunIs

LEMMA Halves ==
  ASSUME NEW L \in Nat, NEW n \in Nat, n # 0, n <= 2 * L
  PROVE  /\ (n + 1) \div 2 \in 1 .. L
         /\ n % 2 = 1 => n < 2 * L /\ n + 1 \in 1 .. 2 * L /\ (n + 1) % 2 # 1
         /\ n % 2 # 1 => /\ n # 1 /\ n - 1 \in 1 .. 2 * L /\ (n - 1) % 2 = 1
                         /\ ((n - 1) + 1) \div 2 = (n + 1) \div 2
<1>1. (n + 1) \div 2 \in 1 .. L
  OBVIOUS
<1>2. n % 2 \in {0, 1} /\ (n - 1) + 1 = n
  OBVIOUS
<1>3. n % 2 = 1 => n < 2 * L /\ n + 1 \in 1 .. 2 * L
  OBVIOUS
<1>4. n % 2 = 1 => (n + 1) % 2 = 0
  OBVIOUS
<1>5. n % 2 = 0 => n # 1 /\ n - 1 \in 1 .. 2 * L
  OBVIOUS
<1>6. n % 2 = 0 => (n - 1) % 2 = 1
  OBVIOUS
<1>7. n % 2 = 0 => n \div 2 = (n + 1) \div 2
  OBVIOUS
<1>8. QED
  BY <1>1, <1>2, <1>3, <1>4, <1>5, <1>6, <1>7

\* The steps of a sync: a push and a mark for each of the list.
SyncTodo(q) ==
  [n \in 1 .. 2 * Len(q) |->
     StepOf(IF n % 2 = 1 THEN "push" ELSE "mark", q[(n + 1) \div 2], "none")]

LEMMA SyncIs ==
  ASSUME NEW q \in Seq(Ids), q # <<>>, NEW r, r = SyncTodo(q)
  PROVE  /\ r \in Seq(Step) /\ r # <<>> /\ DOMAIN r = 1 .. Len(r) /\ Head(r) = r[1]
         /\ r[1].op = "push"
         /\ \A n \in DOMAIN r :
              /\ r[n].op \in {"push", "mark"} /\ In(r[n].id, q)
              /\ r[n].op = "push" => n < Len(r) /\ r[n + 1].op = "mark"
              /\ r[n].op = "mark" => n # 1 /\ r[n - 1] = StepOf("push", r[n].id, "none")
<1> DEFINE L == Len(q)
           Op(n) == IF n % 2 = 1 THEN "push" ELSE "mark"
           At(n) == (n + 1) \div 2
<1>1. L \in Nat /\ L > 0 /\ DOMAIN q = 1 .. L /\ \A m \in 1 .. L : q[m] \in Ids
  OBVIOUS
<1>2. /\ DOMAIN r = 1 .. 2 * L
      /\ \A n \in 1 .. 2 * L : r[n] = StepOf(Op(n), q[At(n)], "none")
  BY DEF SyncTodo
<1> HIDE DEF L
<1>3. ASSUME NEW n \in 1 .. 2 * L
      PROVE  /\ At(n) \in 1 .. L
             /\ n % 2 = 1 => n < 2 * L /\ n + 1 \in 1 .. 2 * L /\ (n + 1) % 2 # 1
             /\ n % 2 # 1 => /\ n # 1 /\ n - 1 \in 1 .. 2 * L /\ (n - 1) % 2 = 1
                             /\ At(n - 1) = At(n)
  <2>1. n \in Nat /\ n # 0 /\ n <= 2 * L
    BY <1>1
  <2>2. QED
    BY <1>1, <2>1, Halves
<1>4. 1 \in 1 .. 2 * L /\ 1 % 2 = 1 /\ 2 * L \in Nat
  BY <1>1
<1>5. \A n \in 1 .. 2 * L : r[n] \in Step /\ r[n].op = Op(n) /\ r[n].id = q[At(n)]
  BY <1>1, <1>2, <1>3, StepFacts
<1>6. r \in Seq(Step) /\ Len(r) = 2 * L
  <2>1. r = [n \in 1 .. 2 * L |-> r[n]]
    BY <1>2 DEF SyncTodo
  <2>2. r \in [1 .. 2 * L -> Step]
    BY <1>5, <2>1
  <2> DEFINE N == 2 * L
  <2>3. N \in Nat /\ r \in [1 .. N -> Step]
    BY <1>4, <2>2
  <2> HIDE DEF N
  <2>4. r \in Seq(Step) /\ Len(r) = N
    BY <2>3
  <2>5. QED
    BY <2>4 DEF N
<1>7. r # <<>> /\ Head(r) = r[1]
  BY <1>1, <1>6
<1>8. r[1].op = "push"
  BY <1>4, <1>5
<1> HIDE DEF At
<1>9. ASSUME NEW n \in 1 .. 2 * L
      PROVE  /\ r[n].op \in {"push", "mark"} /\ In(r[n].id, q)
             /\ r[n].op = "push" => n < 2 * L /\ r[n + 1].op = "mark"
             /\ r[n].op = "mark" => n # 1 /\ r[n - 1] = StepOf("push", r[n].id, "none")
  <2>1. In(r[n].id, q)
    BY <1>1, <1>3, <1>5 DEF In
  <2>2. ASSUME r[n].op = "push" PROVE n < 2 * L /\ r[n + 1].op = "mark"
    <3>1. n % 2 = 1
      <4>1. Op(n) = "push"
        BY <1>5, <2>2
      <4>2. QED
        BY <4>1
    <3>2. n < 2 * L /\ n + 1 \in 1 .. 2 * L /\ Op(n + 1) = "mark"
      BY <1>3, <3>1
    <3> HIDE DEF Op
    <3>3. QED
      BY <1>5, <3>2
  <2>3. ASSUME r[n].op = "mark" PROVE n # 1 /\ r[n - 1] = StepOf("push", r[n].id, "none")
    <3>1. n % 2 # 1
      <4>1. Op(n) = "mark"
        BY <1>5, <2>3
      <4>2. QED
        BY <4>1
    <3>2. n # 1 /\ n - 1 \in 1 .. 2 * L /\ Op(n - 1) = "push" /\ At(n - 1) = At(n)
      BY <1>3, <3>1
    <3> HIDE DEF Op
    <3>3. r[n - 1] = StepOf("push", q[At(n)], "none") /\ r[n].id = q[At(n)]
      BY <1>2, <1>5, <3>2
    <3>4. QED
      BY <3>2, <3>3
  <2>4. QED
    BY <1>5, <2>1, <2>2, <2>3
<1>10. QED
  BY <1>2, <1>6, <1>7, <1>8, <1>9

LEMMA SyncLGMIs ==
  ASSUME SwipeInv, NEW b \in Browsers, SyncLGM(b)
  PROVE  SwipeInv'
<1> DEFINE Q == {i \in Linked : "lgm" \in page[b].show.queue[i]}
<1>1. SwipeTypeOK /\ Known
  BY DEF SwipeInv
<1>2. PICK q : q = SetToSeq(Q)
  OBVIOUS
<1>3. PICK r : r = SyncTodo(q)
  OBVIOUS
<1>4. PICK x : x = [by |-> b, from |-> "sync", todo |-> r]
  OBVIOUS
<1>5. /\ q # <<>>
      /\ \E t \in Tasks \ Busy : task' = [task EXCEPT ![t] = x]
      /\ mixed' = mixed \cup {i \in Ids : Touched(i) /\ \E n \in DOMAIN q : q[n] = i}
      /\ UNCHANGED <<table, lgm, local, migrated, page, unsaved>>
  BY <1>2, <1>3, <1>4 DEF SyncLGM, SyncTodo
<1>6. PICK t \in Tasks \ Busy : task' = [task EXCEPT ![t] = x]
  BY <1>5
<1>7. q \in Seq(Ids) /\ \A i : In(i, q) <=> i \in Q
  <2>1. Q \subseteq Ids /\ IsFiniteSet(Q)
    BY IdsAssumption, FS_Subset
  <2> HIDE DEF Q
  <2>2. SetToSeq(Q) \in Seq(Q) /\ \A i : In(i, SetToSeq(Q)) <=> i \in Q
    BY <2>1, ListOfSet
  <2>3. q \in Seq(Ids)
    BY <1>2, <2>1, <2>2
  <2>4. QED
    BY <1>2, <2>2, <2>3
<1>8. /\ r \in Seq(Step) /\ r # <<>> /\ DOMAIN r = 1 .. Len(r) /\ Head(r) = r[1]
      /\ r[1].op = "push"
      /\ \A n \in DOMAIN r :
           /\ r[n].op \in {"push", "mark"} /\ In(r[n].id, q)
           /\ r[n].op = "push" => n < Len(r) /\ r[n + 1].op = "mark"
           /\ r[n].op = "mark" => n # 1 /\ r[n - 1] = StepOf("push", r[n].id, "none")
  <2>1. q \in Seq(Ids) /\ q # <<>>
    BY <1>5, <1>7
  <2>2. QED
    BY <1>3, <2>1, SyncIs
<1>9. x \in Task /\ x.todo = r /\ x.from = "sync"
  BY <1>4, <1>8 DEF Task
<1>10. ASSUME NEW i \in Clean', In(i, q) PROVE ~Touched(i)
  BY <1>5, <1>10 DEF Clean, In
<1>11. ASSUME NEW i \in Saved', In(i, q) PROVE table.decision[i] = "keep"
  <2>1. ~Touched(i) /\ i \in Saved
    BY <1>5, <1>10, <1>11 DEF Saved, Clean
  <2>2. "lgm" \in page[b].show.queue[i]
    BY <1>7, <1>11
  <2>3. "lgm" \in QueueOf(i, page[b].show.decision[i])
    BY <1>1, <2>1, <2>2 DEF Known
  <2>4. page[b].show.decision[i] = "keep"
    BY <2>3 DEF QueueOf
  <2>5. "keep" \in Decision
    BY DEF Decision
  <2>6. ~Pending(i, "keep") /\ ~Clearing
    BY <1>1, <2>1, TouchedIs, StepFacts DEF Pending, Clearing
  <2>7. QED
    BY <1>1, <2>1, <2>4, <2>5, <2>6 DEF Known
<1>12. ShapeOf(x)'
  <2> SUFFICES ASSUME NEW n \in DOMAIN r
               PROVE  LET a == r[n]
                      IN  /\ a.op \notin {"decision", "queue", "swipe", "clear"}
                          /\ a.id \in Linked
                          /\ a.op = "mark" => n # 1 /\ r[n - 1] = StepOf("push", a.id, "none")
                          /\ a.op = "push" => n < Len(r) /\ r[n + 1].op = "mark"
                          /\ a.id \in Saved' => table'.decision[a.id] = "keep"
    BY <1>8, <1>9 DEF ShapeOf, StepOf
  <2>1. r[n].op \in {"push", "mark"} /\ In(r[n].id, q)
    BY <1>8
  <2>2. r[n].id \in Linked
    BY <1>7, <2>1
  <2>3. r[n].id \in Saved' => table'.decision[r[n].id] = "keep"
    BY <1>5, <1>11, <2>1
  <2>4. QED
    BY <1>8, <2>1, <2>2, <2>3
<1>13. Begun(t, x)
  <2>1. Head(x.todo).op = "push" /\ x.todo # <<>>
    BY <1>8, <1>9
  <2>2. \A i, d : Head(x.todo) # StepOf("swipe", i, d)
    BY <2>1, StepFacts
  <2>3. \A i \in Clean', n \in DOMAIN x.todo : x.todo[n].op = "clear" \/ x.todo[n].id = i => ~Touched(i)
    BY <1>8, <1>9, <1>10
  <2>4. \A i \in Clean' : Unmoved(i)
    BY <1>5 DEF Unmoved
  <2>5. mixed \subseteq mixed' /\ table' = table /\ lgm' = lgm /\ unsaved' = unsaved /\ migrated' = migrated
    BY <1>5
  <2>6. QED
    BY <1>6, <1>9, <2>1, <2>2, <2>3, <2>4, <2>5 DEF Begun
<1>14. SwipeTypeOK'
  <2>1. task' \in [Tasks -> Task \cup {Free}] /\ \A u \in Busy' : task'[u].todo # <<>>
    BY <1>1, <1>6, <1>8, <1>9, TaskBegins
  <2>2. mixed' \subseteq Ids
    BY <1>1, <1>5 DEF SwipeTypeOK
  <2>3. QED
    BY <1>1, <1>5, <2>1, <2>2 DEF SwipeTypeOK, Content
<1>15. QED
  BY <1>12, <1>13, <1>14, BegunIs

-----------------------------------------------------------------------------
(* A page is loaded. *)

LEMMA LeftIs ==
  ASSUME SwipeTypeOK, NEW b
  PROVE  /\ Left(b) \in [Tasks -> Task \cup {Free}]
         /\ \A u \in Tasks : Left(b)[u] # Free <=> u \in Busy
         /\ \A u \in Busy : LET x == Left(b)[u]
                            IN  /\ x \in Task /\ x.by = task[u].by /\ x.todo # <<>>
                                /\ \/ x = task[u]
                                   \/ /\ x.from = "nobody" /\ Len(x.todo) = 1 /\ DOMAIN x.todo = {1}
                                      /\ x.todo[1] = task[u].todo[1] /\ 1 \in DOMAIN task[u].todo
<1> DEFINE Cut(u) == [task[u] EXCEPT !.from = "nobody", !.todo = <<Head(task[u].todo)>>]
<1>1. Left(b) = [u \in Tasks |-> IF u \in Busy /\ task[u].by = b /\ task[u].from # "kept"
                                 THEN Cut(u) ELSE task[u]]
  BY DEF Left
<1>2. \A u \in Tasks : task[u] \in Task \cup {Free}
  BY DEF SwipeTypeOK
<1>3. ASSUME NEW u \in Busy
      PROVE  /\ Cut(u) \in Task /\ Cut(u).by = task[u].by /\ Cut(u).from = "nobody"
             /\ Len(Cut(u).todo) = 1 /\ DOMAIN Cut(u).todo = {1} /\ Cut(u).todo # <<>>
             /\ Cut(u).todo[1] = task[u].todo[1] /\ 1 \in DOMAIN task[u].todo
             /\ task[u] \in Task /\ task[u].todo # <<>> /\ u \in Tasks
  <2>1. /\ task[u] \in Task /\ Head(task[u].todo) \in Step /\ Head(task[u].todo) = task[u].todo[1]
        /\ 1 \in DOMAIN task[u].todo /\ task[u].todo # <<>> /\ u \in Tasks
    BY TaskFacts DEF SwipeTypeOK
  <2> DEFINE h == Head(task[u].todo)
             r == <<h>>
  <2>2. r \in Seq(Step) /\ r # <<>> /\ Len(r) = 1 /\ DOMAIN r = {1} /\ r[1] = h
    BY <2>1
  <2>3. Cut(u) = [task[u] EXCEPT !.from = "nobody", !.todo = r]
    OBVIOUS
  <2> HIDE DEF Cut, h, r
  <2>4. Cut(u) = [by |-> task[u].by, from |-> "nobody", todo |-> r] /\ task[u].by \in Browsers
    BY <2>1, <2>3 DEF Task
  <2>5. QED
    BY <2>1, <2>2, <2>4 DEF Task, h
<1> HIDE DEF Cut
<1>4. \A u \in Tasks \ Busy : task[u] = Free
  BY DEF Busy
<1>5. ASSUME NEW u \in Busy
      PROVE  LET x == Left(b)[u]
             IN  /\ x \in Task /\ x.by = task[u].by /\ x.todo # <<>>
                 /\ \/ x = task[u]
                    \/ /\ x.from = "nobody" /\ Len(x.todo) = 1 /\ DOMAIN x.todo = {1}
                       /\ x.todo[1] = task[u].todo[1] /\ 1 \in DOMAIN task[u].todo
  <2>1. Left(b)[u] \in {Cut(u), task[u]}
    BY <1>1, <1>3
  <2>2. QED
    BY <1>3, <2>1
<1>6. \A u \in Tasks : Left(b)[u] # Free <=> u \in Busy
  <2>1. \A u \in Busy : Left(b)[u] # Free
    BY <1>5, TaskIsBusy
  <2>2. QED
    BY <1>1, <1>4, <2>1
<1>7. Left(b) \in [Tasks -> Task \cup {Free}]
  BY <1>1, <1>2, <1>3
<1>8. QED
  BY <1>5, <1>6, <1>7

LEMMA MergedIs ==
  ASSUME SwipeTypeOK, NEW c \in Content
  PROVE  /\ Merged(c) \in Content
         /\ \A i \in Ids :
              LET d == IF table.decision[i] # "none" THEN table.decision[i] ELSE c.decision[i]
              IN  /\ Merged(c).decision[i] = d
                  /\ Merged(c).queue[i] = c.queue[i] \cup table.queue[i]
                                            \cup (IF d = "more" THEN {"more"} ELSE {})
<1>1. \A i \in Ids : /\ table.decision[i] \in Decision \cup {"none"} /\ table.queue[i] \in SUBSET Kinds
                     /\ c.decision[i] \in Decision \cup {"none"} /\ c.queue[i] \in SUBSET Kinds
  BY ContentFacts DEF Content
<1>2. "more" \in Kinds
  BY DEF Kinds
<1>3. QED
  BY <1>1, <1>2 DEF Merged, Content

\* What the two have in common that load a page.  The investors who are not
\* mixed afterwards had no task about them.
Reloaded(b) ==
  /\ table' = table /\ lgm' = lgm /\ unsaved' = unsaved /\ migrated' = migrated
  /\ mixed' = mixed \cup {i \in Ids : Touched(i)}
  /\ local' \in [Browsers -> Content]
  /\ \A o \in Browsers, i \in Ids :
       local'[o].decision[i] = local[o].decision[i] /\ local'[o].queue[i] = local[o].queue[i]
  /\ \A o \in Browsers \ {b} : page'[o] = page[o]
  /\ page'[b].show \in {Merged(local[b]), local[b]}
  /\ task' \in [Tasks -> Task \cup {Free}]
  /\ \A u \in Busy : task'[u] = Left(b)[u]
  /\ \/ Busy' = Busy
     \/ \E t \in Tasks \ Busy :
          /\ Busy' = Busy \cup {t} /\ task'[t].by = b /\ task'[t].from = "migrate"
          /\ task'[t].todo = MigrationSteps(b) /\ task'[t].todo # <<>>

LEMMA ReloadedIs ==
  ASSUME SwipeInv, NEW b \in Browsers, Reloaded(b), SwipeTypeOK'
  PROVE  SwipeInv'
<1>1. /\ SwipeTypeOK /\ Shaped /\ Apart /\ Remembered /\ Deciding /\ Resetting
      /\ Migrating /\ FlagIsHonest /\ Known
  BY DEF SwipeInv
<1>2. /\ table' = table /\ lgm' = lgm /\ unsaved' = unsaved /\ migrated' = migrated
      /\ \A o \in Browsers, i \in Ids :
           local'[o].decision[i] = local[o].decision[i] /\ local'[o].queue[i] = local[o].queue[i]
      /\ \A u \in Busy : task'[u] = Left(b)[u]
  BY DEF Reloaded
<1>3. /\ Clean' \subseteq Clean /\ Clean \subseteq Ids /\ Saved' \subseteq Saved /\ Saved' \subseteq Clean'
      /\ Saved \subseteq Clean
      /\ \A i \in Clean' : ~Touched(i)
  BY DEF Reloaded, Clean, Saved
<1>4. PICK new \in SUBSET (Tasks \ Busy) :
        /\ Busy' = Busy \cup new /\ \A t, u \in new : t = u
        /\ \A t \in new : /\ task'[t].by = b /\ task'[t].from = "migrate"
                          /\ task'[t].todo = MigrationSteps(b) /\ task'[t].todo # <<>>
  <2>1. CASE Busy' = Busy
    BY <2>1
  <2>2. CASE \E t \in Tasks \ Busy :
               /\ Busy' = Busy \cup {t} /\ task'[t].by = b /\ task'[t].from = "migrate"
               /\ task'[t].todo = MigrationSteps(b) /\ task'[t].todo # <<>>
    BY <2>2
  <2>3. QED
    BY <2>1, <2>2 DEF Reloaded
<1>5. ASSUME NEW u \in Busy
      PROVE  LET x == task'[u]
             IN  /\ x \in Task /\ x.by = task[u].by /\ x.todo # <<>>
                 /\ \/ x = task[u]
                    \/ /\ x.from = "nobody" /\ Len(x.todo) = 1 /\ DOMAIN x.todo = {1}
                       /\ x.todo[1] = task[u].todo[1] /\ 1 \in DOMAIN task[u].todo
  BY <1>1, <1>2, LeftIs
<1>6. ASSUME NEW u \in Busy, NEW i \in Clean' PROVE ~About(u, i)'
  <2>1. \A n \in DOMAIN task'[u].todo : \E m \in DOMAIN task[u].todo : task'[u].todo[n] = task[u].todo[m]
    BY <1>5
  <2>2. ~About(u, i)
    BY <1>3, TouchedIs
  <2>3. QED
    BY <2>1, <2>2 DEF About
\* The steps of the migration that begins.
<1>7. ASSUME NEW t \in new
      PROVE  /\ \A s : Has(t, s)' <=>
                   \/ \E i \in Ids : /\ local[b].decision[i] # "none"
                                     /\ s = StepOf("decision", i, local[b].decision[i])
                   \/ \E i \in Ids : \E k \in local[b].queue[i] : s = StepOf("queue", i, k)
             /\ \A n \in DOMAIN task'[t].todo : task'[t].todo[n].op \in {"decision", "queue"}
             /\ Head(task'[t].todo).op \in {"decision", "queue"}
  <2>1. task'[t].todo = MigrationSteps(b) /\ task'[t].todo # <<>>
    BY <1>4
  <2>2. /\ MigrationSteps(b) \in Seq(Step)
        /\ \A s : In(s, MigrationSteps(b)) <=>
              \/ \E i \in Ids : /\ local[b].decision[i] # "none"
                                /\ s = StepOf("decision", i, local[b].decision[i])
              \/ \E i \in Ids : \E k \in local[b].queue[i] : s = StepOf("queue", i, k)
    BY <1>1, MigrationIs
  <2>3. \A s : Has(t, s)' <=> In(s, MigrationSteps(b))
    BY <2>1 DEF Has, In
  <2>4. \A s : In(s, MigrationSteps(b)) => s.op \in {"decision", "queue"}
    BY <2>2, StepFacts
  <2>5. \A n \in DOMAIN task'[t].todo : task'[t].todo[n].op \in {"decision", "queue"}
    BY <2>1, <2>4 DEF In
  <2>6. 1 \in DOMAIN task'[t].todo /\ Head(task'[t].todo) = task'[t].todo[1]
    BY <2>1, <2>2
  <2>7. QED
    BY <2>2, <2>3, <2>5, <2>6
<1>8. ASSUME NEW u \in Busy', NEW i \in Clean', Head(task'[u].todo).op \in {"swipe", "clear"}
      PROVE  Head(task'[u].todo).op # "clear" /\ Head(task'[u].todo).id # i
  <2>1. u \in Busy
    BY <1>4, <1>7, <1>8
  <2>2. Head(task'[u].todo) = task'[u].todo[1] /\ 1 \in DOMAIN task'[u].todo
    BY <1>5, <2>1 DEF Task
  <2>3. QED
    BY <1>6, <2>1, <2>2 DEF About
<1>9. ASSUME NEW i \in Clean' PROVE (\A d : ~Pending(i, d)) /\ ~Clearing
  BY <1>1, <1>3, TouchedIs, StepFacts DEF Pending, Clearing
<1>10. Shaped'
  <2>1. ASSUME NEW u \in Busy PROVE ShapeOf(task[u])'
    <3>1. ShapeOf(task[u])
      BY <1>1 DEF Shaped
    <3>2. CASE task'[u] = task[u]
      BY <1>2, <1>3, <3>1, <3>2 DEF ShapeOf, StepOf
    <3>3. CASE /\ task'[u].from = "nobody" /\ Len(task'[u].todo) = 1 /\ DOMAIN task'[u].todo = {1}
               /\ task'[u].todo[1] = task[u].todo[1] /\ 1 \in DOMAIN task[u].todo
      BY <1>2, <1>3, <3>1, <3>3 DEF ShapeOf
    <3>4. QED
      BY <1>5, <3>2, <3>3
  <2>2. ASSUME NEW t \in new PROVE ShapeOf(task[t])'
    BY <1>4, <1>7 DEF ShapeOf
  <2>3. QED
    BY <1>4, <2>1, <2>2 DEF Shaped
<1>11. Apart'
  BY <1>4, <1>6 DEF Apart
<1>12. Remembered'
  BY <1>1, <1>2, <1>3 DEF Remembered, QueueOf
<1>13. Deciding'
  <2>1. \A u \in Busy', i \in Clean', d \in Decision : Head(task'[u].todo) # StepOf("swipe", i, d)
    BY <1>8, StepFacts
  <2>2. QED
    BY <2>1 DEF Deciding, StepOf
<1>14. Resetting'
  BY <1>8 DEF Resetting
<1>15. Migrating'
  <2>1. ASSUME NEW u \in Busy', NEW i \in Clean', task'[u].from = "migrate"
        PROVE  LET c == local[task'[u].by]
               IN  /\ task'[u].by \in Browsers
                   /\ \A d \in Decision :
                        /\ Has(u, StepOf("decision", i, d))' => c.decision[i] = d
                        /\ c.decision[i] = d => table.decision[i] = d \/ Has(u, StepOf("decision", i, d))'
                   /\ \A k \in Kinds :
                        /\ Has(u, StepOf("queue", i, k))' => k \in c.queue[i]
                        /\ k \in c.queue[i] => \/ k \in table.queue[i]
                                               \/ k = "lgm" /\ i \in lgm
                                               \/ Has(u, StepOf("queue", i, k))'
    <3>1. CASE u \in Busy
      <4>1. task'[u] = task[u] /\ task[u].by \in Browsers /\ i \in Clean
        BY <1>1, <1>3, <1>5, <2>1, <3>1, TaskFacts
      <4>2. \A o, v : Has(u, StepOf(o, i, v))' <=> Has(u, StepOf(o, i, v))
        BY <4>1 DEF Has, StepOf
      <4>3. LET c == local[task[u].by]
            IN  /\ \A d \in Decision :
                     /\ Has(u, StepOf("decision", i, d)) => c.decision[i] = d
                     /\ c.decision[i] = d => table.decision[i] = d \/ Has(u, StepOf("decision", i, d))
                /\ \A k \in Kinds :
                     /\ Has(u, StepOf("queue", i, k)) => k \in c.queue[i]
                     /\ k \in c.queue[i] => \/ k \in table.queue[i]
                                            \/ k = "lgm" /\ i \in lgm
                                            \/ Has(u, StepOf("queue", i, k))
        BY <1>1, <2>1, <3>1, <4>1 DEF Migrating
      <4>4. QED
        BY <4>1, <4>2, <4>3
    <3>2. CASE u \in new
      <4>1. task'[u].by = b
        BY <1>4, <3>2
      <4>2. /\ \A d \in Decision : Has(u, StepOf("decision", i, d))' <=> local[b].decision[i] = d
            /\ \A k \in Kinds : Has(u, StepOf("queue", i, k))' <=> k \in local[b].queue[i]
        <5>1. "none" \notin Decision /\ i \in Ids
          BY <1>3 DEF Decision
        <5>2. \A j, v, k, w : /\ StepOf("decision", j, v) # StepOf("queue", k, w)
                              /\ StepOf("decision", j, v) = StepOf("decision", k, w) => j = k /\ v = w
                              /\ StepOf("queue", j, v) = StepOf("queue", k, w) => j = k /\ v = w
          BY StepFacts
        <5>3. \A o, v : Has(u, StepOf(o, i, v))' <=>
                   \/ \E j \in Ids : /\ local[b].decision[j] # "none"
                                     /\ StepOf(o, i, v) = StepOf("decision", j, local[b].decision[j])
                   \/ \E j \in Ids : \E k \in local[b].queue[j] : StepOf(o, i, v) = StepOf("queue", j, k)
          BY <1>7, <3>2 DEF StepOf
        <5>4. QED
          BY <5>1, <5>2, <5>3
      <4>3. QED
        BY <4>1, <4>2
    <3>3. QED
      BY <1>4, <3>1, <3>2
  <2>2. QED
    BY <1>2, <1>3, <2>1 DEF Migrating, StepOf
<1>16. FlagIsHonest'
  <2>1. \A o \in Browsers, i \in Clean' : migrated[o] /\ local[o].decision[i] # "none" =>
          /\ table.decision[i] = local[o].decision[i]
          /\ local[o].queue[i] \subseteq table.queue[i] \cup (IF i \in lgm THEN {"lgm"} ELSE {})
    BY <1>1, <1>3 DEF FlagIsHonest, Clean
  <2>2. QED
    BY <1>2, <1>3, <2>1 DEF FlagIsHonest, Clean
<1>17. Known'
  <2>1. ASSUME NEW i \in Saved'
        PROVE  /\ i \in Ids /\ i \in Clean /\ i \in Saved
               /\ table.queue[i] \subseteq QueueOf(i, table.decision[i])
               /\ \A o \in Browsers :
                    /\ local[o].decision[i] # "none" => table.decision[i] = local[o].decision[i]
                    /\ page[o].show.decision[i] # "none" => table.decision[i] = page[o].show.decision[i]
                    /\ local[o].queue[i] = QueueOf(i, local[o].decision[i])
                    /\ page[o].show.queue[i] \subseteq QueueOf(i, page[o].show.decision[i])
    <3>1. i \in Ids /\ i \in Clean /\ i \in Saved /\ (\A d : ~Pending(i, d)) /\ ~Clearing
      BY <1>3, <1>9
    <3>2. QED
      BY <1>1, <3>1, ContentFacts DEF Known, Remembered
  <2>2. ASSUME NEW i \in Saved', NEW c \in {Merged(local[b]), local[b]}
        PROVE  /\ c.decision[i] # "none" => table.decision[i] = c.decision[i]
               /\ c.queue[i] \subseteq QueueOf(i, c.decision[i])
    <3>1. CASE c = local[b]
      BY <2>1, <3>1
    <3>2. CASE c = Merged(local[b])
      <4> DEFINE d == IF table.decision[i] # "none" THEN table.decision[i] ELSE local[b].decision[i]
      <4>1. /\ c.decision[i] = d
            /\ c.queue[i] = local[b].queue[i] \cup table.queue[i] \cup (IF d = "more" THEN {"more"} ELSE {})
        BY <1>1, <2>1, <3>2, MergedIs, ContentFacts
      <4>2. QueueOf(i, "none") = {} /\ QueueOf(i, "more") = {"more"}
        BY DEF QueueOf
      <4>3. d = table.decision[i]
        BY <2>1
      <4>4. local[b].queue[i] \subseteq QueueOf(i, table.decision[i])
        BY <2>1, <4>2
      <4> HIDE DEF d
      <4>5. QED
        BY <2>1, <4>1, <4>2, <4>3, <4>4
    <3>3. QED
      BY <3>1, <3>2
  <2>3. ASSUME NEW i \in Saved', NEW o \in Browsers
        PROVE  /\ page'[o].show.decision[i] # "none" => table.decision[i] = page'[o].show.decision[i]
               /\ page'[o].show.queue[i] \subseteq QueueOf(i, page'[o].show.decision[i])
    BY <2>1, <2>2 DEF Reloaded
  <2>4. "none" \notin Decision
    BY DEF Decision
  <2>5. /\ \A i \in Saved' : table'.queue[i] \subseteq QueueOf(i, table'.decision[i])
        /\ \A o \in Browsers, i \in Saved' :
             /\ \A d \in Decision : /\ local'[o].decision[i] = d => table'.decision[i] = d
                                    /\ page'[o].show.decision[i] = d => table'.decision[i] = d
             /\ page'[o].show.queue[i] \subseteq QueueOf(i, page'[o].show.decision[i])
    BY <1>2, <2>1, <2>3, <2>4
  <2>6. QED
    BY <2>5 DEF Known, QueueOf
<1>18. QED
  BY <1>10, <1>11, <1>12, <1>13, <1>14, <1>15, <1>16, <1>17 DEF SwipeInv

LEMMA LoadIs ==
  ASSUME SwipeInv, NEW b \in Browsers, Load(b)
  PROVE  SwipeInv'
<1> DEFINE steps == MigrationSteps(b)
           moves == steps # <<>> /\ ~migrated[b]
<1>1. SwipeTypeOK /\ local \in [Browsers -> Content] /\ page \in [Browsers -> [open : BOOLEAN, show : Content]]
      /\ local[b] \in Content
  BY DEF SwipeInv, SwipeTypeOK
<1>2. /\ page' = [page EXCEPT ![b] = [open |-> TRUE, show |-> Merged(local[b])]]
      /\ mixed' = mixed \cup {i \in Ids : Touched(i)}
      /\ UNCHANGED <<table, lgm, migrated, unsaved>>
      /\ moves => /\ local' = [local EXCEPT ![b] = LocalWrite(@, Head(steps))]
                  /\ \E t \in Tasks \ Busy :
                       task' = [Left(b) EXCEPT ![t] = [by |-> b, from |-> "migrate", todo |-> steps]]
      /\ ~moves => task' = Left(b) /\ local' = local
  BY DEF Load
<1>3. /\ steps \in Seq(Step)
      /\ \A s : In(s, steps) <=>
           \/ \E i \in Ids : /\ local[b].decision[i] # "none"
                             /\ s = StepOf("decision", i, local[b].decision[i])
           \/ \E i \in Ids : \E k \in local[b].queue[i] : s = StepOf("queue", i, k)
  BY <1>1, MigrationIs
<1> HIDE DEF steps
<1>4. /\ local' \in [Browsers -> Content]
      /\ \A o \in Browsers, i \in Ids :
           local'[o].decision[i] = local[o].decision[i] /\ local'[o].queue[i] = local[o].queue[i]
  <2>1. CASE ~moves
    BY <1>1, <1>2, <2>1
  <2>2. CASE moves
    <3> DEFINE s == Head(steps)
    <3>1. 1 \in DOMAIN steps /\ s = steps[1] /\ s \in Step
      BY <1>3, <2>2
    <3>2. In(s, steps)
      BY <3>1 DEF In
    <3> HIDE DEF s
    <3>3. \/ \E i \in Ids : s = StepOf("decision", i, local[b].decision[i])
          \/ \E i \in Ids : \E k \in local[b].queue[i] : s = StepOf("queue", i, k)
      BY <1>3, <3>2
    <3>4. /\ s.op = "decision" => local[b].decision[s.id] = s.value
          /\ s.op = "queue" => s.value \in local[b].queue[s.id]
      BY <3>3, StepFacts
    <3>5. /\ LocalWrite(local[b], s) \in Content
          /\ \A i \in Ids :
               /\ LocalWrite(local[b], s).decision[i] =
                    IF s.op = "decision" /\ s.id = i THEN s.value ELSE local[b].decision[i]
               /\ LocalWrite(local[b], s).queue[i] =
                    IF s.op = "queue" /\ s.id = i THEN local[b].queue[i] \cup {s.value}
                    ELSE local[b].queue[i]
      BY <1>1, <3>1, LocalWriteIs
    <3> DEFINE c == LocalWrite(local[b], s)
    <3>6. local' = [local EXCEPT ![b] = c]
      BY <1>1, <1>2, <2>2 DEF s
    <3>7. c \in Content /\ \A i \in Ids : c.decision[i] = local[b].decision[i] /\ c.queue[i] = local[b].queue[i]
      BY <3>4, <3>5
    <3> HIDE DEF c
    <3>8. QED
      BY <1>1, <3>6, <3>7
  <2>3. QED
    BY <2>1, <2>2
<1>5. /\ task' \in [Tasks -> Task \cup {Free}]
      /\ \A u \in Busy : task'[u] = Left(b)[u]
      /\ \/ Busy' = Busy
         \/ \E t \in Tasks \ Busy :
              /\ Busy' = Busy \cup {t} /\ task'[t].by = b /\ task'[t].from = "migrate"
              /\ task'[t].todo = steps /\ task'[t].todo # <<>>
  <2>1. /\ Left(b) \in [Tasks -> Task \cup {Free}]
        /\ \A u \in Tasks : Left(b)[u] # Free <=> u \in Busy
    BY <1>1, LeftIs
  <2>2. CASE ~moves
    <3>1. task' = Left(b)
      BY <1>2, <2>2
    <3>2. Busy' = Busy
      BY <2>1, <3>1 DEF Busy
    <3>3. QED
      BY <2>1, <3>1, <3>2
  <2>3. CASE moves
    <3>1. PICK t \in Tasks \ Busy :
            task' = [Left(b) EXCEPT ![t] = [by |-> b, from |-> "migrate", todo |-> steps]]
      BY <1>2, <2>3
    <3> DEFINE x == [by |-> b, from |-> "migrate", todo |-> steps]
    <3>2. x \in Task /\ x # Free
      BY <1>3, TaskIsBusy DEF Task
    <3>3. x.by = b /\ x.from = "migrate" /\ x.todo = steps /\ steps # <<>>
      BY <2>3
    <3> HIDE DEF x
    <3>4. /\ task' \in [Tasks -> Task \cup {Free}] /\ task'[t] = x
          /\ \A u \in Tasks \ {t} : task'[u] = Left(b)[u]
      BY <2>1, <3>1, <3>2 DEF x
    <3>5. Busy' = Busy \cup {t}
      BY <2>1, <3>2, <3>4 DEF Busy
    <3>6. \A u \in Busy : u \in Tasks \ {t}
      BY DEF Busy
    <3>7. QED
      BY <3>3, <3>4, <3>5, <3>6
  <2>4. QED
    BY <2>2, <2>3
<1>6. Merged(local[b]) \in Content
  BY <1>1, MergedIs
<1>7. /\ page' \in [Browsers -> [open : BOOLEAN, show : Content]]
      /\ page'[b].show = Merged(local[b]) /\ \A o \in Browsers \ {b} : page'[o] = page[o]
  BY <1>1, <1>2, <1>6
<1>8. Reloaded(b)
  BY <1>2, <1>4, <1>5, <1>7 DEF Reloaded, steps
<1>9. SwipeTypeOK'
  <2>1. \A u \in Busy' : task'[u].todo # <<>>
    BY <1>1, <1>5, LeftIs
  <2>2. mixed' \subseteq Ids /\ unsaved' \subseteq Ids
    BY <1>1, <1>2 DEF SwipeTypeOK
  <2>3. /\ table' \in TableType /\ lgm' \subseteq Linked /\ migrated' \in [Browsers -> BOOLEAN]
    BY <1>1, <1>2 DEF SwipeTypeOK, TableType
  <2>4. QED
    BY <1>4, <1>5, <1>7, <2>1, <2>2, <2>3 DEF SwipeTypeOK, TableType, Content
<1>10. QED
  BY <1>8, <1>9, ReloadedIs

LEMMA LoadFailedIs ==
  ASSUME SwipeInv, NEW b \in Browsers, LoadFailed(b)
  PROVE  SwipeInv'
<1>1. SwipeTypeOK /\ local \in [Browsers -> Content] /\ page \in [Browsers -> [open : BOOLEAN, show : Content]]
      /\ local[b] \in Content
  BY DEF SwipeInv, SwipeTypeOK
<1>2. /\ page' = [page EXCEPT ![b] = [open |-> TRUE, show |-> local[b]]]
      /\ task' = Left(b)
      /\ mixed' = mixed \cup {i \in Ids : Touched(i)}
      /\ UNCHANGED <<table, lgm, local, migrated, unsaved>>
  BY DEF LoadFailed
<1>3. /\ Left(b) \in [Tasks -> Task \cup {Free}]
      /\ \A u \in Tasks : Left(b)[u] # Free <=> u \in Busy
      /\ \A u \in Busy : Left(b)[u].todo # <<>>
  BY <1>1, LeftIs
<1>4. Busy' = Busy
  BY <1>2, <1>3 DEF Busy
<1>5. /\ page' \in [Browsers -> [open : BOOLEAN, show : Content]]
      /\ page'[b].show = local[b] /\ \A o \in Browsers \ {b} : page'[o] = page[o]
  BY <1>1, <1>2
<1>6. Reloaded(b)
  BY <1>1, <1>2, <1>3, <1>4, <1>5 DEF Reloaded
<1>7. SwipeTypeOK'
  <2>1. \A u \in Busy' : task'[u].todo # <<>>
    BY <1>2, <1>3, <1>4
  <2>2. mixed' \subseteq Ids /\ unsaved' \subseteq Ids
    BY <1>1, <1>2 DEF SwipeTypeOK
  <2>3. /\ table' \in TableType /\ lgm' \subseteq Linked /\ migrated' \in [Browsers -> BOOLEAN]
        /\ local' \in [Browsers -> Content] /\ task' \in [Tasks -> Task \cup {Free}]
    BY <1>1, <1>2, <1>3 DEF SwipeTypeOK, TableType
  <2>4. QED
    BY <1>5, <2>1, <2>2, <2>3 DEF SwipeTypeOK, TableType, Content
<1>8. QED
  BY <1>6, <1>7, ReloadedIs

-----------------------------------------------------------------------------
(* The theorems. *)

LEMMA SwipeStarts == SwipeInit => SwipeInv
<1> SUFFICES ASSUME SwipeInit PROVE SwipeInv
  OBVIOUS
<1>1. /\ table = [decision |-> Empty.decision, queue |-> Empty.queue, synced |-> {}]
      /\ lgm = {} /\ mixed = {} /\ unsaved = {}
      /\ local = [b \in Browsers |-> Empty] /\ migrated = [b \in Browsers |-> FALSE]
      /\ page = [b \in Browsers |-> [open |-> FALSE, show |-> Empty]]
      /\ task = [t \in Tasks |-> Free]
  BY DEF SwipeInit
<1>2. Busy = {}
  BY <1>1 DEF Busy
<1>3. /\ Empty \in Content
      /\ \A i \in Ids : Empty.decision[i] = "none" /\ Empty.queue[i] = {}
  BY EmptyIs
<1>4. Empty.decision \in [Ids -> Decision \cup {"none"}] /\ Empty.queue \in [Ids -> SUBSET Kinds]
  BY DEF Empty
<1>5. SwipeTypeOK
  BY <1>1, <1>2, <1>3, <1>4 DEF SwipeTypeOK
<1>6. /\ \A b \in Browsers, i \in Ids :
           /\ local[b].decision[i] = "none" /\ local[b].queue[i] = {}
           /\ page[b].show.decision[i] = "none" /\ page[b].show.queue[i] = {}
      /\ \A i \in Ids : table.queue[i] = {}
      /\ Clean \subseteq Ids /\ Saved \subseteq Ids /\ "none" \notin Decision
      /\ \A i : QueueOf(i, "none") = {}
  BY <1>1, <1>3 DEF Clean, Saved, Decision, QueueOf
<1>7. Shaped /\ Apart /\ Deciding /\ Resetting /\ Migrating
  BY <1>2 DEF Shaped, Apart, Deciding, Resetting, Migrating
<1>8. Remembered
  BY <1>6 DEF Remembered
<1>9. FlagIsHonest
  BY <1>6 DEF FlagIsHonest
<1>10. Known
  <2> HIDE DEF QueueOf
  <2>1. QED
    BY <1>6 DEF Known
<1>11. QED
  BY <1>5, <1>7, <1>8, <1>9, <1>10 DEF SwipeInv

LEMMA SwipeStays == SwipeInv /\ [SwipeNext]_vars => SwipeInv'
<1> SUFFICES ASSUME SwipeInv, [SwipeNext]_vars PROVE SwipeInv'
  OBVIOUS
<1>1. CASE UNCHANGED vars
  BY <1>1 DEF vars, state, ghosts, SwipeInv, SwipeTypeOK, Shaped, ShapeOf, Apart, Remembered, Deciding,
     Resetting, Migrating, FlagIsHonest, Known, About, Has, Pending, Clearing, Clean, Saved, Busy,
     TaskOf
<1>2. ASSUME NEW b \in Browsers,
             \/ Load(b) \/ LoadFailed(b)
             \/ \E i \in Ids, d \in Decision : Decide(b, i, d)
             \/ \E i \in Ids : CrossOff(b, i)
             \/ SyncLGM(b) \/ Reset(b)
      PROVE  SwipeInv'
  BY <1>2, LoadIs, LoadFailedIs, DecideIs, CrossOffIs, SyncLGMIs, ResetIs
<1>3. ASSUME NEW t \in Tasks, Answered(t) \/ Failed(t) PROVE SwipeInv'
  BY <1>3, AnsweredIs, FailedIs
<1>4. QED
  BY <1>1, <1>2, <1>3 DEF SwipeNext

\* The parts of the invariant hold together, however the requests of any number
\* of tabs, migrations, syncs and resets interleave and fail.
THEOREM SwipeInvariant == SwipeSpec => []SwipeInv
<1>1. SwipeInit => SwipeInv
  BY SwipeStarts
<1>2. SwipeInv /\ [SwipeNext]_vars => SwipeInv'
  BY SwipeStays
<1>3. QED
  BY <1>1, <1>2, PTL DEF SwipeSpec

\* The table, the browsers and the tasks hold what they can hold: only those
\* with a LinkedIn profile are given to La Growth Machine, and no task that is
\* under way has nothing left to do.
THEOREM SwipeTypes == SwipeSpec => []SwipeTypeOK
<1>1. SwipeInv => SwipeTypeOK
  BY DEF SwipeInv
<1>2. QED
  BY <1>1, SwipeInvariant, PTL

\* The flag of a browser is set only when the table has what it remembers, and
\* whatever request fails does not make it a lie.
THEOREM TheFlagIsHonest == SwipeSpec => []FlagIsHonest
<1>1. SwipeInv => FlagIsHonest
  BY DEF SwipeInv
<1>2. QED
  BY <1>1, SwipeInvariant, PTL

\* Who is kept is not lost between the decision and the push: a queue has them
\* or they were pushed.
THEOREM TheKeptAreNotLost == SwipeSpec => []KeptIsQueuedOrPushed
<1>1. SwipeInv => KeptIsQueuedOrPushed
  <2> SUFFICES ASSUME SwipeInv, NEW b \in Browsers, NEW i \in Linked \ mixed,
                      local[b].decision[i] = "keep"
               PROVE  \/ "lgm" \in table.queue[i]
                      \/ i \in lgm
                      \/ ~migrated[b] /\ "lgm" \in local[b].queue[i]
    BY DEF KeptIsQueuedOrPushed
  <2>1. i \in Clean /\ i \in Ids
    BY IdsAssumption DEF Clean
  <2>2. local[b].queue[i] = {"lgm"}
    <3>1. local[b].queue[i] = QueueOf(i, "keep")
      BY <2>1 DEF SwipeInv, Remembered
    <3>2. QED
      BY <3>1 DEF QueueOf
  <2>3. migrated[b] => "lgm" \in table.queue[i] \/ i \in lgm
    BY <2>1, <2>2 DEF SwipeInv, FlagIsHonest, Clean
  <2>4. QED
    BY <2>2, <2>3
<1>2. QED
  BY <1>1, SwipeInvariant, PTL

\* A push follows on a save that said keep, or on a page that showed what the
\* table says: nobody else is given to La Growth Machine.
THEOREM OnlyTheKeptArePushed == SwipeSpec => OnlyKeptArePushed
<1> DEFINE Pushes == \A i \in lgm' \ lgm : i \notin mixed \cup unsaved => table.decision[i] = "keep"
<1>1. SwipeInv /\ [SwipeNext]_vars => [Pushes]_vars
  <2> SUFFICES ASSUME SwipeInv, [SwipeNext]_vars,
                      NEW i \in lgm' \ lgm, i \notin mixed \cup unsaved
               PROVE  table.decision[i] = "keep"
    OBVIOUS
  <2>1. PICK t \in Tasks : Answered(t) \/ Failed(t)
    BY DEF SwipeNext, vars, state, Load, LoadFailed, Decide, CrossOff, SyncLGM, Reset
  <2>2. t \in Busy /\ Request(Head(task[t].todo))
    BY <2>1 DEF Answered, Failed, Request
  <2>3. Head(task[t].todo) = StepOf("push", i, "none") /\ i \in Ids
    BY <2>2, RequestIs, IdsAssumption
  <2>4. Head(task[t].todo) = task[t].todo[1] /\ 1 \in DOMAIN task[t].todo
    BY <2>2, TaskFacts DEF SwipeInv
  <2>5. i \in Saved /\ task[t].todo[1].op = "push" /\ task[t].todo[1].id = i
    BY <2>3, <2>4, StepFacts DEF Saved
  <2>6. QED
    BY <2>2, <2>4, <2>5 DEF SwipeInv, Shaped, ShapeOf
<1>2. QED
  BY <1>1, SwipeInvariant, PTL DEF SwipeSpec, OnlyKeptArePushed
=============================================================================
