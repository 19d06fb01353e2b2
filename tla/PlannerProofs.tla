--------------------------- MODULE PlannerProofs ---------------------------
(***************************************************************************)
(* For every answer of the model, every catalog and every phase of the     *)
(* agents: the passes over a plan keep exactly the dependencies between    *)
(* agents that the answer had, and leave them in the canonical order.      *)
(*                                                                         *)
(* Nothing is counted by an induction principle here: a claim about all    *)
(* numbers is proved by looking at the least number it fails for.          *)
(***************************************************************************)
EXTENDS Planner, FiniteSetTheorems, TLAPS

-----------------------------------------------------------------------------
(* Numbers. *)

\* A set of numbers has a least one.
LEMMA LeastNumber ==
  ASSUME NEW T \in SUBSET Nat, T # {}
  PROVE  \E m \in T : \A k \in T : m <= k
<1> DEFINE F == {0 .. t : t \in T}
<1>1. IsWellFoundedOn(StrictSubsetOrdering(Nat), FiniteSubsetsOf(Nat))
  BY FS_StrictSubsetOrderingWellFounded
<1>2. F \subseteq FiniteSubsetsOf(Nat) /\ F # {}
  <2>1. \A t \in T : (0 .. t) \in SUBSET Nat /\ IsFiniteSet(0 .. t)
    BY FS_Interval
  <2>2. \A x \in F : x \in SUBSET Nat /\ IsFiniteSet(x)
    BY <2>1
  <2>3. F # {}
    OBVIOUS
  <2>4. QED
    BY <2>2, <2>3 DEF FiniteSubsetsOf
<1>3. PICK x \in F : \A y \in F : ~ (<<y, x>> \in StrictSubsetOrdering(Nat))
  <2> HIDE DEF F
  <2> QED BY <1>1, <1>2, WFMin
<1>4. PICK m \in T : x = 0 .. m
  BY <1>3
<1>5. ASSUME NEW k \in T PROVE m <= k
  <2>1. ~ (<<0 .. k, 0 .. m>> \in StrictSubsetOrdering(Nat))
    BY <1>3, <1>4
  <2>2. (0 .. k) \in SUBSET Nat /\ (0 .. m) \in SUBSET Nat
    OBVIOUS
  <2>3. ~ (0 .. k \subseteq 0 .. m /\ 0 .. k # 0 .. m)
    BY <2>1, <2>2 DEF StrictSubsetOrdering
  <2>4. m \in Nat /\ k \in Nat
    OBVIOUS
  <2>5. k < m => m \in 0 .. m /\ m \notin 0 .. k
    BY <2>4
  <2>6. QED
    BY <2>3, <2>4, <2>5
<1>6. QED
  BY <1>5

\* What holds at 0, and never stops holding up to n, holds up to n.
LEMMA HoldsUpTo ==
  ASSUME NEW n \in Nat, NEW T, 0 \in T, \A k \in 1 .. n : k - 1 \in T => k \in T
  PROVE  0 .. n \subseteq T
<1> DEFINE U == {k \in 0 .. n : k \notin T}
<1> SUFFICES ASSUME U # {} PROVE FALSE
  OBVIOUS
<1>1. PICK m \in U : \A k \in U : m <= k
  <2> U \in SUBSET Nat
    OBVIOUS
  <2> HIDE DEF U
  <2> QED BY LeastNumber
<1>2. m # 0 /\ m \in 1 .. n
  OBVIOUS
<1>3. m - 1 \notin U
  BY <1>1, <1>2
<1>4. m - 1 \in T
  BY <1>2, <1>3
<1>5. QED
  BY <1>2, <1>4

LEMMA IntervalSize ==
  ASSUME NEW n \in Nat
  PROVE  IsFiniteSet(1 .. n) /\ Cardinality(1 .. n) = n
<1>1. IsFiniteSet(1 .. n) /\ Cardinality(1 .. n) = IF 1 > n THEN 0 ELSE n - 1 + 1
  BY FS_Interval
<1>2. QED
  BY <1>1

-----------------------------------------------------------------------------
(* The places of the members of a set in their order. *)

LEMMA RankProperties ==
  ASSUME NEW n \in Nat, NEW S \in SUBSET (1 .. n)
  PROVE  /\ Cardinality(S) \in Nat
         /\ \A i \in S : RankIn(S, i) \in 1 .. Cardinality(S)
         /\ \A i, j \in S : i < j => RankIn(S, i) < RankIn(S, j)
         /\ \A k \in 1 .. Cardinality(S) : \E i \in S : RankIn(S, i) = k
<1> DEFINE upTo(i) == {k \in S : k <= i}
           N == Cardinality(S)
<1>1. IsFiniteSet(S)
  <2>1. IsFiniteSet(1 .. n)
    BY FS_Interval
  <2>2. QED
    BY <2>1, FS_Subset
<1>2. N \in Nat
  BY <1>1, FS_CardinalityType
<1>3. \A i \in S : IsFiniteSet(upTo(i)) /\ Cardinality(upTo(i)) \in Nat /\ Cardinality(upTo(i)) <= N
  <2> TAKE i \in S
  <2>1. upTo(i) \in SUBSET S
    OBVIOUS
  <2> HIDE DEF upTo
  <2>2. QED
    BY <1>1, <2>1, FS_Subset, FS_CardinalityType
<1>4. \A i \in S : Cardinality(upTo(i)) # 0
  <2> TAKE i \in S
  <2>1. i \in upTo(i)
    OBVIOUS
  <2> HIDE DEF upTo
  <2>2. QED
    BY <1>3, <2>1, FS_EmptySet
<1>5. \A i \in S : RankIn(S, i) \in 1 .. N
  BY <1>2, <1>3, <1>4 DEF RankIn
<1>6. ASSUME NEW i \in S, NEW j \in S, i < j
      PROVE  RankIn(S, i) < RankIn(S, j)
  <2>0. i \in Nat /\ j \in Nat /\ \A k \in S : k \in Nat
    OBVIOUS
  <2>a. \A k \in S : k <= i => k <= j
    BY <1>6, <2>0
  <2>b. j <= j /\ ~(j <= i)
    BY <1>6, <2>0
  <2>1. upTo(i) \in SUBSET upTo(j) /\ j \in upTo(j) /\ j \notin upTo(i)
    BY <2>a, <2>b
  <2>2. IsFiniteSet(upTo(j)) /\ Cardinality(upTo(i)) \in Nat /\ Cardinality(upTo(j)) \in Nat
    BY <1>3
  <2>3. RankIn(S, i) = Cardinality(upTo(i)) /\ RankIn(S, j) = Cardinality(upTo(j))
    BY DEF RankIn
  <2> HIDE DEF upTo
  <2>4. Cardinality(upTo(i)) <= Cardinality(upTo(j)) /\ Cardinality(upTo(i)) # Cardinality(upTo(j))
    BY <2>1, <2>2, FS_Subset
  <2>5. QED
    BY <2>2, <2>3, <2>4
<1>7. ASSUME NEW k \in 1 .. N PROVE \E i \in S : RankIn(S, i) = k
  <2> DEFINE f == [i \in S |-> RankIn(S, i)]
  <2>1. f \in [S -> 1 .. N]
    BY <1>5
  <2>2. \A i, j \in S : f[i] = f[j] => i = j
    <3> TAKE i, j \in S
    <3>1. i \in Nat /\ j \in Nat /\ f[i] \in Nat /\ f[j] \in Nat
      BY <2>1
    <3>2. i < j => f[i] < f[j]
      BY <1>6
    <3>3. j < i => f[j] < f[i]
      BY <1>6
    <3> HIDE DEF f
    <3>4. QED
      BY <3>1, <3>2, <3>3
  <2> HIDE DEF f
  <2>3. f \in Injection(S, 1 .. N)
    BY <2>1, <2>2 DEF Injection, IsInjective
  <2>4. IsFiniteSet(1 .. N) /\ Cardinality(1 .. N) = N
    BY <1>2, FS_Interval
  <2>5. f \in Surjection(S, 1 .. N)
    BY <2>3, <2>4, FS_Injection
  <2>6. \E i \in S : f[i] = k
    BY <2>5 DEF Surjection
  <2>7. QED
    BY <2>6 DEF f
<1>8. QED
  BY <1>2, <1>5, <1>6, <1>7

-----------------------------------------------------------------------------
(* Plans. *)

Node == [agent : Agents, deps : SUBSET (Nat \ {0})]

\* Every node depends on earlier nodes only.
PointsBack(p) == \A i \in DOMAIN p : p[i].deps \subseteq 1 .. (i - 1)

\* Every node depends on other nodes of the plan only.
Closed(p) == \A i \in DOMAIN p : p[i].deps \subseteq DOMAIN p \ {i}

\* An agent has one node.
Once(p) == \A i, j \in DOMAIN p : p[i].agent = p[j].agent => i = j

\* <<x, y>>: a node of agent x depends on a node of agent y.
Edges(p) ==
  {w \in Agents \X Agents :
     \E i \in DOMAIN p : \E j \in p[i].deps : w = <<p[i].agent, p[j].agent>>}

\* Node i comes before node k in the heap.
Before(p, i, k) ==
  \/ Phase[p[i].agent] < Phase[p[k].agent]
  \/ Phase[p[i].agent] = Phase[p[k].agent] /\ i <= k

\* A node stands behind one of a later phase only because of a dependency.
Canonical(p) ==
  \A i, k \in DOMAIN p :
    (i < k /\ Phase[p[k].agent] < Phase[p[i].agent]) => \E d \in p[k].deps : d >= i

LEMMA PlanFacts ==
  ASSUME NEW p \in Seq(Node)
  PROVE  /\ Len(p) \in Nat /\ DOMAIN p = 1 .. Len(p)
         /\ \A i \in DOMAIN p : /\ p[i] \in Node /\ p[i].agent \in Agents
                                /\ p[i].deps \in SUBSET (Nat \ {0})
                                /\ Phase[p[i].agent] \in Nat
<1>1. Len(p) \in Nat /\ DOMAIN p = 1 .. Len(p)
  OBVIOUS
<1>2. \A i \in DOMAIN p : p[i] \in Node
  OBVIOUS
<1>3. \A x \in Node : x.agent \in Agents /\ x.deps \in SUBSET (Nat \ {0}) /\ Phase[x.agent] \in Nat
  BY PhaseAssumption DEF Node
<1>4. QED
  BY <1>1, <1>2, <1>3

\* A plan that points back is closed.
LEMMA BackIsClosed ==
  ASSUME NEW p \in Seq(Node), PointsBack(p)
  PROVE  Closed(p)
BY PlanFacts DEF PointsBack, Closed

\* The agents of such a plan do not wait for each other: of any of them, the
\* one with the first node waits for none of the others.
LEMMA BackIsAcyclic ==
  ASSUME NEW p \in Seq(Node), PointsBack(p), Once(p)
  PROVE  AcyclicOn(Agents, Edges(p))
<1> SUFFICES ASSUME NEW T \in SUBSET Agents, T # {}
             PROVE  \E x \in T : \A y \in T : <<x, y>> \notin Edges(p)
  BY DEF AcyclicOn
<1> DEFINE M == {i \in DOMAIN p : p[i].agent \in T}
<1>1. CASE M = {}
  <2>1. PICK x \in T : TRUE
    OBVIOUS
  <2>2. \A y \in T : <<x, y>> \notin Edges(p)
    BY <1>1, <2>1 DEF Edges
  <2>3. QED
    BY <2>2
<1>2. CASE M # {}
  <2>1. PICK m \in M : \A k \in M : m <= k
    <3>1. M \in SUBSET Nat
      BY PlanFacts
    <3> HIDE DEF M
    <3>2. QED
      BY <1>2, <3>1, LeastNumber
  <2>2. ASSUME NEW y \in T, <<p[m].agent, y>> \in Edges(p)
        PROVE  FALSE
    <3>0. PICK i \in DOMAIN p : \E j \in p[i].deps : <<p[m].agent, y>> = <<p[i].agent, p[j].agent>>
      BY <2>2 DEF Edges
    <3>1. PICK j \in p[i].deps : p[m].agent = p[i].agent /\ y = p[j].agent
      BY <3>0
    <3>2. i = m
      BY <3>1 DEF Once
    <3>3. j \in DOMAIN p /\ j < m
      BY <3>1, <3>2, PlanFacts DEF PointsBack
    <3>4. j \in M /\ m \in Nat /\ j \in Nat
      BY <3>1, <3>3, PlanFacts
    <3>5. QED
      BY <2>1, <3>3, <3>4
  <2>3. QED
    BY <2>2
<1>3. QED
  BY <1>1, <1>2

-----------------------------------------------------------------------------
(* Kahn's algorithm. *)

LEMMA FirstInHeapIsFirst ==
  ASSUME NEW p \in Seq(Node), NEW S \in SUBSET DOMAIN p, S # {}
  PROVE  FirstInHeap(p, S) \in S /\ \A k \in S : Before(p, FirstInHeap(p, S), k)
<1> DEFINE phase(i) == Phase[p[i].agent]
           phases == {phase(i) : i \in S}
<1>1. S \in SUBSET Nat /\ \A i \in S : phase(i) \in Nat
  BY PlanFacts
<1>2. PICK f \in phases : \A x \in phases : f <= x
  <2>1. phases \in SUBSET Nat /\ phases # {}
    BY <1>1
  <2> HIDE DEF phases
  <2>2. QED
    BY <2>1, LeastNumber
<1> DEFINE first == {i \in S : phase(i) = f}
<1>3. PICK m \in first : \A k \in first : m <= k
  <2>1. first \in SUBSET Nat /\ first # {}
    BY <1>1
  <2> HIDE DEF first
  <2>2. QED
    BY <2>1, LeastNumber
<1>4. m \in S /\ \A k \in S : Before(p, m, k)
  <2>1. ASSUME NEW k \in S PROVE Before(p, m, k)
    <3>1. phase(m) = f /\ phase(k) \in Nat /\ f \in Nat /\ f <= phase(k)
      BY <1>1, <1>2
    <3>2. phase(k) = f => m <= k
      BY <1>3
    <3>3. QED
      BY <3>1, <3>2 DEF Before
  <2>2. QED
    BY <2>1
<1>5. FirstInHeap(p, S) = CHOOSE i \in S : \A k \in S : Before(p, i, k)
  BY DEF FirstInHeap, Before
<1>6. QED
  BY <1>4, <1>5

\* The nodes an order has, and the nodes that can be taken after it.
Done(order) == {order[j] : j \in DOMAIN order}
Free(p, order) == {i \in DOMAIN p \ Done(order) : p[i].deps \subseteq Done(order)}

LEMMA ExtendedBy ==
  ASSUME NEW p \in Seq(Node), NEW s \in Seq(DOMAIN p)
  PROVE  /\ Extended(p, s) \in Seq(DOMAIN p)
         /\ Free(p, s) = {} => Extended(p, s) = s
         /\ Free(p, s) # {} =>
              LET f == FirstInHeap(p, Free(p, s))
              IN  /\ Extended(p, s) = Append(s, f) /\ f \in Free(p, s)
                  /\ \A k \in Free(p, s) : Before(p, f, k)
<1>1. Extended(p, s) = IF Free(p, s) = {} THEN s ELSE Append(s, FirstInHeap(p, Free(p, s)))
  BY DEF Extended, Free, Done
<1>2. Free(p, s) \in SUBSET DOMAIN p
  BY DEF Free
<1>3. CASE Free(p, s) = {}
  BY <1>1, <1>3
<1>4. CASE Free(p, s) # {}
  <2> DEFINE f == FirstInHeap(p, Free(p, s))
  <2>1. f \in Free(p, s) /\ \A k \in Free(p, s) : Before(p, f, k)
    BY <1>2, <1>4, FirstInHeapIsFirst
  <2>2. f \in DOMAIN p
    BY <1>2, <2>1
  <2>3. Extended(p, s) = Append(s, f)
    BY <1>1, <1>4
  <2> HIDE DEF f
  <2>4. Append(s, f) \in Seq(DOMAIN p)
    BY <2>2
  <2>5. QED
    BY <1>4, <2>1, <2>3, <2>4 DEF f
<1>5. QED
  BY <1>3, <1>4

\* The function Kahn stands for exists: what a round does is defined by the
\* round before it.
LEMMA KahnRounds ==
  ASSUME NEW p \in Seq(Node)
  PROVE  /\ Kahn(p) \in [0 .. Len(p) -> Seq(DOMAIN p)]
         /\ Kahn(p)[0] = <<>>
         /\ \A k \in 1 .. Len(p) : Kahn(p)[k] = Extended(p, Kahn(p)[k - 1])
<1> DEFINE N == Len(p)
           Orders == Seq(DOMAIN p)
           Rounds(n) == {g \in [0 .. n -> Orders] :
                           g[0] = <<>> /\ \A k \in 1 .. n : g[k] = Extended(p, g[k - 1])}
           T == {n \in Nat : \E g : g \in Rounds(n)}
<1>0. N \in Nat
  BY PlanFacts
<1>1. 0 \in T
  <2> DEFINE g == [k \in 0 .. 0 |-> <<>>]
  <2>1. g \in [0 .. 0 -> Orders] /\ g[0] = <<>> /\ 1 .. 0 = {}
    OBVIOUS
  <2>2. g \in Rounds(0)
    BY <2>1
  <2>3. QED
    BY <2>2
<1>2. ASSUME NEW n \in 1 .. N, n - 1 \in T
      PROVE  n \in T
  <2>1. n \in Nat /\ n - 1 \in Nat
    BY <1>0
  <2>2. PICK g : g \in Rounds(n - 1)
    BY <1>2
  <2> DEFINE h == [k \in 0 .. n |-> IF k = n THEN Extended(p, g[n - 1]) ELSE g[k]]
  <2>3. g \in [0 .. n - 1 -> Orders] /\ g[0] = <<>>
    BY <2>2
  <2>4. Extended(p, g[n - 1]) \in Orders
    <3>1. g[n - 1] \in Orders
      BY <2>1, <2>3
    <3>2. QED
      BY <3>1, ExtendedBy
  <2>5. h \in [0 .. n -> Orders]
    BY <2>1, <2>3, <2>4
  <2>6. h[0] = <<>>
    BY <2>1, <2>3
  <2>7. ASSUME NEW k \in 1 .. n PROVE h[k] = Extended(p, h[k - 1])
    <3>1. h[k - 1] = g[k - 1]
      BY <2>1
    <3>2. CASE k = n
      BY <2>1, <3>1, <3>2
    <3>3. CASE k # n
      <4>1. k \in 1 .. n - 1 /\ h[k] = g[k]
        BY <2>1, <3>3
      <4>2. QED
        BY <2>2, <3>1, <4>1
    <3>4. QED
      BY <3>2, <3>3
  <2>8. h \in Rounds(n)
    <3> HIDE DEF h
    <3> QED BY <2>5, <2>6, <2>7
  <2>9. QED
    BY <2>1, <2>8
<1>3. N \in T
  <2>1. 0 .. N \subseteq T
    <3> HIDE DEF T, N
    <3> QED BY <1>0, <1>1, <1>2, HoldsUpTo
  <2>2. QED
    BY <1>0, <2>1
<1>4. PICK g : g \in Rounds(N)
  BY <1>3
<1> DEFINE Fits(h) == h = [k \in 0 .. N |-> IF k = 0 THEN <<>> ELSE Extended(p, h[k - 1])]
<1>5. Fits(g)
  <2>1. g = [k \in 0 .. N |-> g[k]]
    BY <1>4
  <2>2. \A k \in 0 .. N : g[k] = IF k = 0 THEN <<>> ELSE Extended(p, g[k - 1])
    BY <1>0, <1>4
  <2>3. [k \in 0 .. N |-> g[k]] = [k \in 0 .. N |-> IF k = 0 THEN <<>> ELSE Extended(p, g[k - 1])]
    BY <2>2
  <2>4. QED
    BY <2>1, <2>3
<1>6. Kahn(p) = CHOOSE h : Fits(h)
  BY Zenon DEF Kahn
<1>7. Fits(Kahn(p))
  <2> HIDE DEF Fits
  <2> QED BY <1>5, <1>6, Zenon
<1> DEFINE K == Kahn(p)
<1>8. DOMAIN K = 0 .. N /\ \A k \in 0 .. N : K[k] = IF k = 0 THEN <<>> ELSE Extended(p, K[k - 1])
  <2> HIDE DEF K
  <2>1. K = [k \in 0 .. N |-> IF k = 0 THEN <<>> ELSE Extended(p, K[k - 1])]
    BY <1>7 DEF K
  <2>2. QED
    BY <2>1
<1> HIDE DEF K
<1>9. 0 .. N \subseteq {k \in 0 .. N : K[k] \in Orders}
  <2> DEFINE U == {k \in 0 .. N : K[k] \in Orders}
  <2>1. 0 \in U
    <3>1. 0 \in 0 .. N /\ <<>> \in Orders
      BY <1>0
    <3>2. K[0] = <<>>
      BY <1>8, <3>1
    <3>3. QED
      BY <3>1, <3>2
  <2>2. ASSUME NEW k \in 1 .. N, k - 1 \in U PROVE k \in U
    <3>1. k \in 0 .. N /\ k # 0 /\ K[k - 1] \in Orders
      BY <1>0, <2>2
    <3>2. K[k] = Extended(p, K[k - 1])
      BY <1>8, <3>1
    <3>3. K[k] \in Orders
      BY <3>1, <3>2, ExtendedBy
    <3>4. QED
      BY <3>1, <3>3
  <2> HIDE DEF U
  <2>3. QED
    BY <1>0, <2>1, <2>2, HoldsUpTo DEF U
<1>10. K \in [0 .. N -> Orders]
  <2>1. K = [k \in 0 .. N |-> K[k]]
    <3>1. K = [k \in 0 .. N |-> IF k = 0 THEN <<>> ELSE Extended(p, K[k - 1])]
      BY <1>7 DEF K
    <3>2. QED
      BY <3>1
  <2>2. QED
    BY <1>9, <2>1
<1>11. QED
  BY <1>0, <1>8, <1>10 DEF K

\* The order after k rounds: nobody twice, everybody after what it depends on,
\* everybody first of those that could be taken; it is as long as there were
\* rounds or as it will get.
Sorted(p, s) ==
  /\ s \in Seq(DOMAIN p)
  /\ \A i, j \in DOMAIN s : s[i] = s[j] => i = j
  /\ \A j \in DOMAIN s : \A d \in p[s[j]].deps : \E i \in 1 .. (j - 1) : s[i] = d
  /\ \A j \in DOMAIN s : \A x \in DOMAIN p :
       \/ \E i \in 1 .. (j - 1) : s[i] = x
       \/ \E d \in p[x].deps : \A i \in 1 .. (j - 1) : s[i] # d
       \/ Before(p, s[j], x)

LEMMA SortedAfterRound ==
  ASSUME NEW p \in Seq(Node), NEW s, Sorted(p, s), Free(p, s) # {}
  PROVE  Sorted(p, Extended(p, s)) /\ Len(Extended(p, s)) = Len(s) + 1
<1> DEFINE f == FirstInHeap(p, Free(p, s))
           n == Len(s)
           t == Append(s, f)
<1>1. s \in Seq(DOMAIN p) /\ n \in Nat /\ DOMAIN s = 1 .. n
  BY DEF Sorted
<1>2. /\ Extended(p, s) = t /\ t \in Seq(DOMAIN p)
      /\ f \in Free(p, s) /\ \A k \in Free(p, s) : Before(p, f, k)
  BY <1>1, ExtendedBy
<1> HIDE DEF f
<1>3. /\ f \in DOMAIN p /\ \A i \in 1 .. n : s[i] # f
      /\ \A d \in p[f].deps : \E i \in 1 .. n : s[i] = d
  BY <1>1, <1>2 DEF Free, Done
<1>4. /\ Len(t) = n + 1 /\ DOMAIN t = 1 .. (n + 1)
      /\ t[n + 1] = f /\ \A i \in 1 .. n : t[i] = s[i]
  BY <1>1
<1> HIDE DEF t
<1>5. \A i, j \in DOMAIN t : t[i] = t[j] => i = j
  <2> TAKE i, j \in DOMAIN t
  <2>1. i \in 1 .. n \/ i = n + 1
    BY <1>1, <1>4
  <2>2. j \in 1 .. n \/ j = n + 1
    BY <1>1, <1>4
  <2>3. QED
    BY <1>1, <1>3, <1>4, <2>1, <2>2 DEF Sorted
<1>6. ASSUME NEW j \in DOMAIN t
      PROVE  /\ \A d \in p[t[j]].deps : \E i \in 1 .. (j - 1) : t[i] = d
             /\ \A x \in DOMAIN p :
                  \/ \E i \in 1 .. (j - 1) : t[i] = x
                  \/ \E d \in p[x].deps : \A i \in 1 .. (j - 1) : t[i] # d
                  \/ Before(p, t[j], x)
  <2>1. CASE j \in 1 .. n
    <3>1. t[j] = s[j] /\ j \in DOMAIN s /\ \A i \in 1 .. (j - 1) : i \in 1 .. n /\ t[i] = s[i]
      BY <1>1, <1>4, <2>1
    <3>2. \A d \in p[s[j]].deps : \E i \in 1 .. (j - 1) : s[i] = d
      BY <3>1 DEF Sorted
    <3>3. \A x \in DOMAIN p :
            \/ \E i \in 1 .. (j - 1) : s[i] = x
            \/ \E d \in p[x].deps : \A i \in 1 .. (j - 1) : s[i] # d
            \/ Before(p, s[j], x)
      BY <3>1 DEF Sorted
    <3>4. QED
      BY <3>1, <3>2, <3>3
  <2>2. CASE j = n + 1
    <3>1. j - 1 = n /\ t[j] = f
      BY <1>1, <1>4, <2>2
    <3>2. ASSUME NEW x \in DOMAIN p, \A i \in 1 .. n : t[i] # x,
                 \A d \in p[x].deps : \E i \in 1 .. n : t[i] = d
          PROVE  Before(p, f, x)
      <4>1. x \in Free(p, s)
        BY <1>1, <1>4, <3>2 DEF Free, Done
      <4>2. QED
        BY <1>2, <4>1
    <3>3. \A d \in p[f].deps : \E i \in 1 .. n : t[i] = d
      BY <1>3, <1>4
    <3>4. QED
      BY <3>1, <3>2, <3>3
  <2>3. QED
    BY <1>1, <1>4, <2>1, <2>2
<1>7. Sorted(p, t)
  BY <1>2, <1>5, <1>6, Zenon DEF Sorted
<1>8. QED
  BY <1>2, <1>4, <1>7

LEMMA KahnSorts ==
  ASSUME NEW p \in Seq(Node)
  PROVE  /\ Sorted(p, KahnOrder(p))
         /\ Len(KahnOrder(p)) = Len(p) \/ Free(p, KahnOrder(p)) = {}
<1> DEFINE N == Len(p)
           K == Kahn(p)
           Fine(k) == Sorted(p, K[k]) /\ (Len(K[k]) = k \/ Free(p, K[k]) = {})
           T == {k \in 0 .. N : Fine(k)}
<1>1. N \in Nat
  BY PlanFacts
<1>2. K[0] = <<>> /\ \A k \in 1 .. N : K[k] = Extended(p, K[k - 1])
  BY KahnRounds
<1> HIDE DEF K
<1>3. 0 \in T
  <2>1. Sorted(p, <<>>)
    BY DEF Sorted
  <2>2. Fine(0)
    BY <1>2, <2>1
  <2>3. QED
    BY <1>1, <2>2
<1>4. ASSUME NEW k \in 1 .. N, k - 1 \in T
      PROVE  k \in T
  <2> DEFINE s == K[k - 1]
  <2>1. Sorted(p, s) /\ (Len(s) = k - 1 \/ Free(p, s) = {}) /\ K[k] = Extended(p, s)
    BY <1>2, <1>4
  <2> HIDE DEF s
  <2>2. CASE Free(p, s) = {}
    <3>1. Extended(p, s) = s
      BY <2>1, <2>2, ExtendedBy DEF Sorted
    <3>2. Fine(k)
      BY <2>1, <2>2, <3>1
    <3>3. QED
      BY <1>1, <3>2
  <2>3. CASE Free(p, s) # {}
    <3>1. Sorted(p, K[k]) /\ Len(K[k]) = k
      BY <1>1, <2>1, <2>3, SortedAfterRound
    <3>2. QED
      BY <1>1, <3>1
  <2>4. QED
    BY <2>2, <2>3
<1>5. 0 .. N \subseteq T
  <2> HIDE DEF T
  <2> QED BY <1>1, <1>3, <1>4, HoldsUpTo
<1>6. Fine(N)
  BY <1>1, <1>5
<1>7. QED
  BY <1>6 DEF K, KahnOrder

\* The order has all nodes, or those it does not have wait for each other.
LEMMA KahnIsComplete ==
  ASSUME NEW p \in Seq(Node), Closed(p)
  PROVE  LET s == KahnOrder(p)
         IN  \/ /\ Len(s) = Len(p)
                /\ \A x \in DOMAIN p : \E i \in DOMAIN s : s[i] = x
             \/ Len(s) # Len(p) /\ ~AcyclicOn(Agents, Edges(p))
<1> DEFINE s == KahnOrder(p)
           N == Len(p)
<1>1. Sorted(p, s) /\ (Len(s) = N \/ Free(p, s) = {})
  BY KahnSorts
<1> HIDE DEF s
<1>2. /\ N \in Nat /\ DOMAIN p = 1 .. N
      /\ s \in Seq(1 .. N) /\ Len(s) \in Nat /\ DOMAIN s = 1 .. Len(s)
  <2>1. N \in Nat /\ DOMAIN p = 1 .. N
    BY PlanFacts
  <2>2. s \in Seq(1 .. N)
    BY <1>1, <2>1 DEF Sorted
  <2>3. QED
    BY <2>1, <2>2
<1> HIDE DEF N
<1>3. s \in Injection(1 .. Len(s), 1 .. N)
  <2>1. \A i, j \in 1 .. Len(s) : s[i] = s[j] => i = j
    BY <1>1, <1>2 DEF Sorted
  <2>2. s \in [1 .. Len(s) -> 1 .. N]
    BY <1>2
  <2>3. QED
    BY <2>1, <2>2 DEF Injection, IsInjective
<1>4. /\ IsFiniteSet(1 .. N) /\ Cardinality(1 .. N) = N
      /\ Cardinality(1 .. Len(s)) = Len(s)
  BY <1>2, IntervalSize
<1>5. Len(s) = N <=> s \in Surjection(1 .. Len(s), 1 .. N)
  BY <1>3, <1>4, FS_Injection
<1>6. CASE Len(s) = N
  <2>1. s \in Surjection(1 .. Len(s), 1 .. N)
    BY <1>5, <1>6
  <2>2. \A x \in 1 .. N : \E i \in 1 .. Len(s) : s[i] = x
    BY <2>1 DEF Surjection
  <2>3. QED
    BY <1>2, <1>6, <2>2 DEF s, N
<1>7. CASE Len(s) # N
  <2> DEFINE T == DOMAIN p \ Done(s)
             A == {p[i].agent : i \in T}
  <2>1. T # {}
    <3>1. s \in [1 .. Len(s) -> 1 .. N]
      BY <1>2
    <3>2. PICK x \in 1 .. N : \A i \in 1 .. Len(s) : s[i] # x
      BY <1>5, <1>7, <3>1 DEF Surjection
    <3>3. QED
      BY <1>2, <3>2 DEF Done
  <2>2. \A i \in T : \E d \in p[i].deps : d \in T
    <3>1. Free(p, s) = {}
      BY <1>1, <1>7
    <3>2. QED
      BY <3>1 DEF Free, Closed
  <2>3. A \in (SUBSET Agents) \ {{}}
    <3>1. \A i \in T : p[i].agent \in Agents
      BY PlanFacts
    <3>2. A \subseteq Agents /\ A # {}
      BY <2>1, <3>1
    <3>3. QED
      BY <3>2
  <2>4. \A x \in A : \E y \in A : <<x, y>> \in Edges(p)
    <3> TAKE x \in A
    <3>1. PICK i \in T : x = p[i].agent
      OBVIOUS
    <3>2. PICK d \in p[i].deps : d \in T
      BY <2>2
    <3>3. <<x, p[d].agent>> \in Edges(p)
      BY <3>1, <3>2, PlanFacts DEF Edges
    <3>4. QED
      BY <3>2, <3>3
  <2>5. ~AcyclicOn(Agents, Edges(p))
    <3> HIDE DEF A
    <3> QED BY <2>3, <2>4 DEF AcyclicOn
  <2>6. QED
    BY <1>7, <2>5 DEF s, N
<1>8. QED
  BY <1>6, <1>7

-----------------------------------------------------------------------------
(* A pass that renumbers a plan. *)

\* Node i of p became node h[i] of q, with its agent and its dependencies on
\* other nodes; nothing else is in q.
Renumbered(p, q, h) ==
  /\ h \in [DOMAIN p -> DOMAIN q]
  /\ \A k \in DOMAIN q : \E i \in DOMAIN p : h[i] = k
  /\ \A i \in DOMAIN p : q[h[i]].agent = p[i].agent
  /\ \A k \in DOMAIN q : q[k].deps =
       {l \in DOMAIN q \ {k} : \E i \in DOMAIN p : h[i] = k /\ \E d \in p[i].deps : l = h[d]}

LEMMA RenumberedEdges ==
  ASSUME NEW p \in Seq(Node), NEW q \in Seq(Node), NEW h, Renumbered(p, q, h),
         \A i \in DOMAIN p : p[i].deps \subseteq DOMAIN p,
         Once(q)
  PROVE  Closed(q) /\ Edges(q) = {w \in Edges(p) : w[1] # w[2]}
<1>1. Closed(q)
  BY DEF Closed, Renumbered
<1>2. ASSUME NEW w \in Edges(q)
      PROVE  w \in Edges(p) /\ w[1] # w[2]
  <2>1. PICK k \in DOMAIN q : \E l \in q[k].deps : w = <<q[k].agent, q[l].agent>>
    BY DEF Edges
  <2>2. PICK l \in q[k].deps : w = <<q[k].agent, q[l].agent>>
    BY <2>1
  <2>3. l \in DOMAIN q \ {k}
    BY <1>1 DEF Closed
  <2>4. PICK i \in DOMAIN p : h[i] = k /\ \E d \in p[i].deps : l = h[d]
    BY <2>2 DEF Renumbered
  <2>5. PICK d \in p[i].deps : l = h[d]
    BY <2>4
  <2>6. d \in DOMAIN p /\ q[k].agent = p[i].agent /\ q[l].agent = p[d].agent
    BY <2>4, <2>5 DEF Renumbered
  <2>7. w = <<p[i].agent, p[d].agent>> /\ w \in Agents \X Agents
    BY <2>2, <2>6, PlanFacts
  <2>8. q[k].agent # q[l].agent
    BY <2>3 DEF Once
  <2>9. QED
    BY <2>2, <2>5, <2>7, <2>8 DEF Edges
<1>3. ASSUME NEW w \in Edges(p), w[1] # w[2]
      PROVE  w \in Edges(q)
  <2>1. PICK i \in DOMAIN p : \E d \in p[i].deps : w = <<p[i].agent, p[d].agent>>
    BY DEF Edges
  <2>2. PICK d \in p[i].deps : w = <<p[i].agent, p[d].agent>>
    BY <2>1
  <2> DEFINE k == h[i]
             l == h[d]
  <2>3. d \in DOMAIN p /\ k \in DOMAIN q /\ l \in DOMAIN q
    BY DEF Renumbered
  <2>4. q[k].agent = p[i].agent /\ q[l].agent = p[d].agent
    BY <2>3 DEF Renumbered
  <2>5. l # k
    BY <1>3, <2>2, <2>4
  <2>6. l \in q[k].deps
    BY <2>3, <2>5 DEF Renumbered
  <2>7. w \in Agents \X Agents /\ w = <<q[k].agent, q[l].agent>>
    BY <2>2, <2>4 DEF Edges
  <2>8. QED
    BY <2>3, <2>6, <2>7 DEF Edges
<1>4. QED
  BY <1>1, <1>2, <1>3

LEMMA NoSelfEdges ==
  ASSUME NEW p \in Seq(Node), Once(p), Closed(p)
  PROVE  \A w \in Edges(p) : w[1] # w[2]
<1> SUFFICES ASSUME NEW w \in Edges(p) PROVE w[1] # w[2]
  OBVIOUS
<1>1. PICK i \in DOMAIN p : \E d \in p[i].deps : w = <<p[i].agent, p[d].agent>>
  BY DEF Edges
<1>2. PICK d \in p[i].deps : w = <<p[i].agent, p[d].agent>>
  BY <1>1
<1>3. d \in DOMAIN p \ {i}
  BY DEF Closed
<1>4. QED
  BY <1>2, <1>3 DEF Once

-----------------------------------------------------------------------------
(* sanitize_depends_on. *)

LEMMA SanitizedFacts ==
  ASSUME NEW p \in Seq(Node)
  PROVE  /\ Sanitized(p) \in Seq(Node)
         /\ DOMAIN Sanitized(p) = DOMAIN p
         /\ \A i \in DOMAIN p : /\ Sanitized(p)[i].agent = p[i].agent
                                /\ Sanitized(p)[i].deps = p[i].deps \cap (1 .. (i - 1))
         /\ PointsBack(Sanitized(p))
<1> DEFINE q == Sanitized(p)
           N == Len(p)
<1>1. N \in Nat /\ DOMAIN p = 1 .. N
  BY PlanFacts
<1>2. DOMAIN q = DOMAIN p
  BY DEF Sanitized
<1>3. ASSUME NEW i \in DOMAIN p
      PROVE  /\ q[i] \in Node
             /\ q[i].agent = p[i].agent
             /\ q[i].deps = p[i].deps \cap (1 .. (i - 1))
  <2>1. q[i] = [p[i] EXCEPT !.deps = {d \in p[i].deps : d < i}]
    BY DEF Sanitized
  <2>2. {d \in p[i].deps : d < i} = p[i].deps \cap (1 .. (i - 1))
    BY <1>1, PlanFacts
  <2>3. p[i] \in Node /\ p[i].deps \in SUBSET (Nat \ {0})
    BY PlanFacts
  <2>4. {d \in p[i].deps : d < i} \in SUBSET (Nat \ {0})
    BY <2>3
  <2>5. QED
    BY <2>1, <2>2, <2>3, <2>4 DEF Node
<1>4. q = [i \in 1 .. N |-> q[i]]
  BY <1>1 DEF Sanitized
<1>5. q \in [1 .. N -> Node]
  <2> HIDE DEF q
  <2> QED BY <1>1, <1>3, <1>4
<1>6. q \in Seq(Node)
  <2> HIDE DEF q
  <2> QED BY <1>1, <1>5
<1>7. QED
  BY <1>2, <1>3, <1>6 DEF PointsBack

\* It changes nothing of a plan that points back.
LEMMA SanitizedSame ==
  ASSUME NEW p \in Seq(Node), PointsBack(p)
  PROVE  Sanitized(p) = p
<1> DEFINE q == Sanitized(p)
<1>1. p = [i \in DOMAIN p |-> p[i]] /\ q = [i \in DOMAIN p |-> q[i]]
  BY DEF Sanitized
<1>2. ASSUME NEW i \in DOMAIN p PROVE q[i] = p[i]
  <2>1. p[i].deps \subseteq 1 .. (i - 1) /\ p[i] \in Node /\ i \in Nat
    BY PlanFacts DEF PointsBack
  <2>2. {d \in p[i].deps : d < i} = p[i].deps
    BY <2>1
  <2>3. q[i] = [p[i] EXCEPT !.deps = p[i].deps]
    BY <2>2 DEF Sanitized
  <2>4. QED
    BY <2>1, <2>3 DEF Node
<1> HIDE DEF q
<1>3. QED
  BY <1>1, <1>2 DEF q

\* What is left of the answer are its wishes.
LEMMA SanitizedEdges ==
  ASSUME NEW p \in Seq(Node)
  PROVE  {w \in Edges(Sanitized(p)) : w[1] # w[2]} = Wishes(p)
<1> DEFINE q == Sanitized(p)
<1>1. /\ q \in Seq(Node) /\ DOMAIN q = DOMAIN p
      /\ \A i \in DOMAIN p : q[i].agent = p[i].agent /\ q[i].deps = p[i].deps \cap (1 .. (i - 1))
  BY SanitizedFacts
<1> HIDE DEF q
<1>2. \A i \in DOMAIN p : \A j \in p[i].deps \cap (1 .. (i - 1)) : j \in DOMAIN p
  BY PlanFacts
<1>3. \A w \in Agents \X Agents : \A i \in DOMAIN p :
        (\E j \in q[i].deps : w = <<q[i].agent, q[j].agent>>)
          <=> (\E j \in p[i].deps \cap (1 .. (i - 1)) : w = <<p[i].agent, p[j].agent>>)
  BY <1>1, <1>2
<1>4. \A w \in Agents \X Agents :
        w \in Edges(q) <=> \E i \in DOMAIN p : \E j \in q[i].deps : w = <<q[i].agent, q[j].agent>>
  BY <1>1 DEF Edges
<1>5. \A w \in Agents \X Agents :
        w \in Wishes(p) <=>
          w[1] # w[2] /\ \E i \in DOMAIN p : \E j \in p[i].deps \cap (1 .. (i - 1)) :
                           w = <<p[i].agent, p[j].agent>>
  BY DEF Wishes
<1>6. \A w \in Agents \X Agents : w \in Wishes(p) <=> w \in Edges(q) /\ w[1] # w[2]
  BY <1>3, <1>4, <1>5, Zenon
<1>7. Edges(q) \subseteq Agents \X Agents /\ Wishes(p) \subseteq Agents \X Agents
  BY DEF Edges, Wishes
<1>8. QED
  BY <1>6, <1>7 DEF q

-----------------------------------------------------------------------------
(* enforce_canonical_ordering. *)

\* A plan in Kahn's order: a node went where the order has it.
LEMMA InKahnOrder ==
  ASSUME NEW p \in Seq(Node), Closed(p), Once(p),
         Len(KahnOrder(p)) = Len(p)
  PROVE  /\ Reordered(p) \in Seq(Node)
         /\ Once(Reordered(p)) /\ PointsBack(Reordered(p)) /\ Canonical(Reordered(p))
         /\ \E h : Renumbered(p, Reordered(p), h)
<1> DEFINE s == KahnOrder(p)
           N == Len(p)
           place(x) == CHOOSE k \in DOMAIN s : s[k] = x
           raw == [k \in DOMAIN p |-> [agent |-> p[s[k]].agent,
                                      deps  |-> {place(d) : d \in p[s[k]].deps}]]
<1>1. /\ N \in Nat /\ DOMAIN p = 1 .. N
      /\ Sorted(p, s) /\ Len(s) = N
      /\ \A x \in DOMAIN p : \E i \in DOMAIN s : s[i] = x
  BY KahnIsComplete, KahnSorts, PlanFacts
<1>2. Reordered(p) = Sanitized(raw)
  BY DEF Reordered
<1> HIDE DEF s, N
<1>3. DOMAIN s = 1 .. N /\ \A k \in 1 .. N : s[k] \in DOMAIN p
  BY <1>1 DEF Sorted
<1>4. \A x \in DOMAIN p : place(x) \in 1 .. N /\ s[place(x)] = x
  BY <1>1, <1>3
<1>5. \A k \in 1 .. N : place(s[k]) = k
  <2> TAKE k \in 1 .. N
  <2>1. place(s[k]) \in DOMAIN s /\ s[place(s[k])] = s[k]
    BY <1>3, <1>4
  <2> HIDE DEF place
  <2>2. QED
    BY <1>1, <1>3, <2>1 DEF Sorted
<1> HIDE DEF place
<1>6. ASSUME NEW k \in 1 .. N
      PROVE  /\ raw[k].agent = p[s[k]].agent /\ raw[k].deps = {place(d) : d \in p[s[k]].deps}
             /\ raw[k].deps \subseteq 1 .. (k - 1)
             /\ raw[k] \in Node
  <2>1. raw[k] = [agent |-> p[s[k]].agent, deps |-> {place(d) : d \in p[s[k]].deps}]
    BY <1>1
  <2>2. ASSUME NEW d \in p[s[k]].deps PROVE place(d) \in 1 .. (k - 1)
    <3>1. PICK i \in 1 .. (k - 1) : s[i] = d
      BY <1>1, <1>3 DEF Sorted
    <3>2. i \in 1 .. N
      BY <1>1
    <3>3. QED
      BY <1>5, <3>1, <3>2
  <2>3. p[s[k]].agent \in Agents
    BY <1>3, PlanFacts
  <2> DEFINE D == {place(d) : d \in p[s[k]].deps}
  <2>4. D \subseteq 1 .. (k - 1) /\ D \in SUBSET (Nat \ {0})
    BY <2>2
  <2>5. raw[k] = [agent |-> p[s[k]].agent, deps |-> D]
    BY <2>1
  <2> HIDE DEF D, raw
  <2>6. raw[k].agent = p[s[k]].agent /\ raw[k].deps = D /\ raw[k] \in Node
    BY <2>3, <2>4, <2>5 DEF Node
  <2>7. QED
    BY <2>4, <2>6 DEF D
<1>7. DOMAIN raw = 1 .. N /\ raw = [k \in 1 .. N |-> raw[k]]
  BY <1>1
<1> HIDE DEF raw
<1>8. raw \in Seq(Node)
  BY <1>1, <1>6, <1>7
<1>9. PointsBack(raw)
  BY <1>6, <1>7 DEF PointsBack
<1>10. Reordered(p) = raw
  BY <1>2, <1>8, <1>9, SanitizedSame
<1>11. Once(raw)
  <2> SUFFICES ASSUME NEW i \in 1 .. N, NEW j \in 1 .. N, raw[i].agent = raw[j].agent
               PROVE  i = j
    BY <1>7 DEF Once
  <2>1. s[i] = s[j]
    BY <1>3, <1>6 DEF Once
  <2>2. QED
    BY <1>5, <2>1
<1>12. Canonical(raw)
  <2> SUFFICES ASSUME NEW i \in 1 .. N, NEW k \in 1 .. N, i < k,
                      Phase[raw[k].agent] < Phase[raw[i].agent],
                      \A d \in raw[k].deps : ~(d >= i)
               PROVE  FALSE
    BY <1>7 DEF Canonical
  <2> DEFINE x == s[k]
  <2>1. x \in DOMAIN p /\ s[i] \in DOMAIN p /\ i \in DOMAIN s
    BY <1>3
  <2>2. \A m \in 1 .. (i - 1) : s[m] # x
    BY <1>1, <1>5
  <2>3. \A d \in p[x].deps : \E m \in 1 .. (i - 1) : s[m] = d
    <3> TAKE d \in p[x].deps
    <3>1. d \in DOMAIN p /\ place(d) \in raw[k].deps
      BY <1>6, <2>1 DEF Closed
    <3>2. place(d) \in 1 .. N /\ s[place(d)] = d
      BY <1>4, <3>1
    <3>3. place(d) \in 1 .. (i - 1)
      BY <1>1, <3>1, <3>2
    <3>4. QED
      BY <3>2, <3>3
  <2>4. Before(p, s[i], x)
    BY <1>1, <2>1, <2>2, <2>3 DEF Sorted
  <2>5. raw[k].agent = p[x].agent /\ raw[i].agent = p[s[i]].agent
    BY <1>6
  <2>6. Phase[p[x].agent] \in Nat /\ Phase[p[s[i]].agent] \in Nat
    BY <2>1, PlanFacts
  <2> HIDE DEF x
  <2>7. QED
    BY <2>4, <2>5, <2>6 DEF Before
<1>13. Renumbered(p, raw, [x \in DOMAIN p |-> place(x)])
  <2> DEFINE h == [x \in DOMAIN p |-> place(x)]
  <2>1. h \in [DOMAIN p -> DOMAIN raw]
    BY <1>4, <1>7
  <2>2. \A k \in 1 .. N : s[k] \in DOMAIN p /\ h[s[k]] = k
    BY <1>3, <1>5
  <2>3. \A x \in DOMAIN p : s[h[x]] = x /\ h[x] \in 1 .. N
    BY <1>4
  <2>4. \A x \in DOMAIN p : raw[h[x]].agent = p[x].agent
    BY <1>6, <2>3
  <2>5. \A x \in DOMAIN p : h[x] = place(x)
    OBVIOUS
  <2> HIDE DEF h
  <2>6. ASSUME NEW k \in 1 .. N
        PROVE  raw[k].deps =
                 {l \in (1 .. N) \ {k} :
                    \E i \in DOMAIN p : h[i] = k /\ \E d \in p[i].deps : l = h[d]}
    <3>1. raw[k].deps = {place(d) : d \in p[s[k]].deps} /\ raw[k].deps \subseteq 1 .. (k - 1)
      BY <1>6
    <3>2. \A d \in p[s[k]].deps : d \in DOMAIN p /\ place(d) = h[d]
      BY <2>2, <2>5 DEF Closed
    <3>3. \A i \in DOMAIN p : h[i] = k <=> i = s[k]
      BY <2>2, <2>3
    <3>4. \A l : l \in raw[k].deps => l \in (1 .. N) \ {k}
      BY <1>1, <3>1
    <3>5. \A l : l \in raw[k].deps <=> \E d \in p[s[k]].deps : l = h[d]
      BY <3>1, <3>2
    <3>6. s[k] \in DOMAIN p
      BY <2>2
    <3>7. QED
      BY <3>3, <3>4, <3>5, <3>6
  <2>7. \A k \in DOMAIN raw : \E i \in DOMAIN p : h[i] = k
    BY <1>7, <2>2
  <2>8. QED
    BY <1>7, <2>1, <2>4, <2>6, <2>7 DEF Renumbered, h
<1>14. QED
  BY <1>8, <1>9, <1>10, <1>11, <1>12, <1>13

LEMMA ReorderedFacts ==
  ASSUME NEW p \in Seq(Node), Closed(p), Once(p)
  PROVE  /\ Reordered(p) \in Seq(Node) /\ Closed(Reordered(p)) /\ Once(Reordered(p))
         /\ Edges(Reordered(p)) = Edges(p)
         /\ AcyclicOn(Agents, Edges(p)) => PointsBack(Reordered(p)) /\ Canonical(Reordered(p))
<1>1. CASE Len(KahnOrder(p)) = Len(p)
  <2>1. PICK h : Renumbered(p, Reordered(p), h)
    BY <1>1, InKahnOrder
  <2>2. /\ Reordered(p) \in Seq(Node)
        /\ Once(Reordered(p)) /\ PointsBack(Reordered(p)) /\ Canonical(Reordered(p))
    BY <1>1, InKahnOrder
  <2>3. \A i \in DOMAIN p : p[i].deps \subseteq DOMAIN p
    BY DEF Closed
  <2>4. Closed(Reordered(p)) /\ Edges(Reordered(p)) = {w \in Edges(p) : w[1] # w[2]}
    BY <2>1, <2>2, <2>3, RenumberedEdges
  <2>5. Edges(Reordered(p)) = Edges(p)
    BY <2>4, NoSelfEdges
  <2>6. QED
    BY <2>2, <2>4, <2>5
<1>2. CASE Len(KahnOrder(p)) # Len(p)
  <2>1. Reordered(p) = p
    BY <1>2 DEF Reordered
  <2>2. ~AcyclicOn(Agents, Edges(p))
    BY <1>2, KahnIsComplete
  <2>3. QED
    BY <2>1, <2>2
<1>3. QED
  BY <1>1, <1>2

-----------------------------------------------------------------------------
(* deduplicate_nodes. *)

LEMMA FirstOfAgent ==
  ASSUME NEW p \in Seq(Node)
  PROVE  /\ \A i \in DOMAIN p : FirstOf(p, i) \in DOMAIN p /\ p[FirstOf(p, i)].agent = p[i].agent
         /\ \A i, j \in DOMAIN p : p[i].agent = p[j].agent => FirstOf(p, i) = FirstOf(p, j)
<1>1. ASSUME NEW i \in DOMAIN p
      PROVE  \E j \in DOMAIN p : p[j].agent = p[i].agent /\ \A k \in 1 .. (j - 1) : p[k].agent # p[i].agent
  <2> DEFINE S == {j \in DOMAIN p : p[j].agent = p[i].agent}
  <2>1. S \in SUBSET Nat /\ S # {}
    BY PlanFacts
  <2>2. PICK m \in S : \A k \in S : m <= k
    <3> HIDE DEF S
    <3> QED BY <2>1, LeastNumber
  <2>3. ASSUME NEW k \in 1 .. (m - 1), p[k].agent = p[i].agent PROVE FALSE
    <3>1. k \in S /\ ~(m <= k)
      BY <2>3, PlanFacts
    <3>2. QED
      BY <2>2, <3>1
  <2>4. QED
    BY <2>3
<1>2. \A i \in DOMAIN p : FirstOf(p, i) \in DOMAIN p /\ p[FirstOf(p, i)].agent = p[i].agent
  BY <1>1 DEF FirstOf
<1>3. \A i, j \in DOMAIN p : p[i].agent = p[j].agent => FirstOf(p, i) = FirstOf(p, j)
  BY DEF FirstOf
<1>4. QED
  BY <1>2, <1>3

LEMMA DeduplicatedFacts ==
  ASSUME NEW p \in Seq(Node), PointsBack(p)
  PROVE  /\ Deduplicated(p) \in Seq(Node) /\ Closed(Deduplicated(p)) /\ Once(Deduplicated(p))
         /\ Edges(Deduplicated(p)) = {w \in Edges(p) : w[1] # w[2]}
<1> DEFINE q       == Deduplicated(p)
           N       == Len(p)
           F(i)    == FirstOf(p, i)
           kept    == {i \in DOMAIN p : F(i) = i}
           M       == Cardinality(kept)
           place(i) == RankIn(kept, F(i))
           merged(f) == UNION {p[i].deps : i \in {j \in DOMAIN p : F(j) = f}}
           node(f) == [agent |-> p[f].agent,
                       deps  |-> {place(d) : d \in merged(f)} \ {place(f)}]
           at(k)   == CHOOSE f \in kept : place(f) = k
           h       == [i \in DOMAIN p |-> place(i)]
<1>1. q = [k \in 1 .. M |-> node(at(k))]
  BY Zenon DEF Deduplicated
<1>2. N \in Nat /\ DOMAIN p = 1 .. N /\ \A i \in DOMAIN p : p[i].deps \subseteq DOMAIN p
  BY PlanFacts DEF PointsBack
<1>3. /\ \A i \in DOMAIN p : F(i) \in kept /\ p[F(i)].agent = p[i].agent
      /\ \A f \in kept : f \in DOMAIN p /\ F(f) = f
      /\ \A f, g \in kept : p[f].agent = p[g].agent => f = g
  BY FirstOfAgent
<1>4. kept \in SUBSET (1 .. N)
  BY <1>2
<1> HIDE DEF F, kept, N
<1>5. /\ M \in Nat
      /\ \A i \in kept : RankIn(kept, i) \in 1 .. M
      /\ \A i, j \in kept : i < j => RankIn(kept, i) < RankIn(kept, j)
      /\ \A k \in 1 .. M : \E i \in kept : RankIn(kept, i) = k
  BY <1>2, <1>4, RankProperties
<1>6. \A i, j \in kept : RankIn(kept, i) = RankIn(kept, j) => i = j
  <2> TAKE i, j \in kept
  <2>1. i \in Nat /\ j \in Nat /\ RankIn(kept, i) \in Nat /\ RankIn(kept, j) \in Nat
    BY <1>4, <1>5
  <2>2. QED
    BY <1>5, <2>1
<1>7. \A f \in kept : place(f) = RankIn(kept, f)
  BY <1>3
<1>8. \A i \in DOMAIN p : place(i) \in 1 .. M /\ place(i) = place(F(i))
  BY <1>3, <1>5, <1>7
<1>9. \A k \in 1 .. M : at(k) \in kept /\ place(at(k)) = k
  BY <1>5, <1>7
<1>10. \A f \in kept : at(place(f)) = f
  <2> TAKE f \in kept
  <2>1. place(f) \in 1 .. M
    BY <1>5, <1>7
  <2>2. at(place(f)) \in kept /\ place(at(place(f))) = place(f)
    BY <1>9, <2>1
  <2> HIDE DEF at
  <2>3. QED
    BY <1>6, <1>7, <2>2
<1> HIDE DEF place, at, M
<1>11. ASSUME NEW k \in 1 .. M
       PROVE  /\ q[k].agent = p[at(k)].agent
              /\ q[k].deps = {place(d) : d \in merged(at(k))} \ {k}
              /\ q[k].deps \subseteq 1 .. M
              /\ q[k] \in Node
  <2> DEFINE D == {place(d) : d \in merged(at(k))} \ {k}
  <2>1. at(k) \in DOMAIN p /\ p[at(k)].agent \in Agents
    BY <1>3, <1>9, PlanFacts
  <2>2. merged(at(k)) \subseteq DOMAIN p
    BY <1>2
  <2>3. D \subseteq 1 .. M
    BY <1>8, <2>2
  <2>4. D \in SUBSET (Nat \ {0})
    BY <1>5, <2>3
  <2>5. q[k] = [agent |-> p[at(k)].agent, deps |-> D]
    BY <1>1, <1>9
  <2> HIDE DEF D, q
  <2>6. q[k].agent = p[at(k)].agent /\ q[k].deps = D /\ q[k] \in Node
    BY <2>1, <2>4, <2>5 DEF Node
  <2>7. QED
    BY <2>3, <2>6 DEF D
<1>12. DOMAIN q = 1 .. M /\ q = [k \in 1 .. M |-> q[k]]
  BY <1>1
<1> HIDE DEF q, node
<1>13. q \in Seq(Node)
  BY <1>5, <1>11, <1>12
<1>14. Once(q)
  <2> SUFFICES ASSUME NEW i \in 1 .. M, NEW j \in 1 .. M, q[i].agent = q[j].agent
               PROVE  i = j
    BY <1>12 DEF Once
  <2>1. at(i) = at(j)
    BY <1>3, <1>9, <1>11
  <2>2. QED
    BY <1>9, <2>1
<1>15. Renumbered(p, q, h)
  <2>1. h \in [DOMAIN p -> DOMAIN q]
    BY <1>8, <1>12
  <2>2. \A i \in DOMAIN p : h[i] = place(i) /\ at(h[i]) = F(i) /\ h[i] \in 1 .. M
    BY <1>3, <1>8, <1>10
  <2> HIDE DEF h
  <2>3. \A k \in DOMAIN q : \E i \in DOMAIN p : h[i] = k
    BY <1>3, <1>9, <1>12, <2>2
  <2>4. \A i \in DOMAIN p : q[h[i]].agent = p[i].agent
    BY <1>3, <1>11, <2>2
  <2>5. ASSUME NEW k \in 1 .. M
        PROVE  q[k].deps =
                 {l \in (1 .. M) \ {k} :
                    \E i \in DOMAIN p : h[i] = k /\ \E d \in p[i].deps : l = h[d]}
    <3>1. \A i \in DOMAIN p : h[i] = k <=> F(i) = at(k)
      BY <1>8, <1>9, <2>2
    <3>2. \A l : l \in q[k].deps <=> l # k /\ \E d \in merged(at(k)) : l = place(d)
      BY <1>11
    <3>3. \A d : d \in merged(at(k)) <=> \E i \in DOMAIN p : h[i] = k /\ d \in p[i].deps
      BY <3>1
    <3>4. \A i \in DOMAIN p : \A d \in p[i].deps : place(d) = h[d]
      BY <1>2, <2>2
    <3> HIDE DEF merged
    <3>5. \A l : l \in q[k].deps <=>
                   l # k /\ \E i \in DOMAIN p : h[i] = k /\ \E d \in p[i].deps : l = h[d]
      BY <3>2, <3>3, <3>4
    <3>6. q[k].deps \subseteq 1 .. M
      BY <1>11
    <3>7. QED
      BY <3>5, <3>6
  <2>6. QED
    BY <1>12, <2>1, <2>3, <2>4, <2>5 DEF Renumbered
<1>16. Closed(q) /\ Edges(q) = {w \in Edges(p) : w[1] # w[2]}
  BY <1>2, <1>13, <1>14, <1>15, RenumberedEdges
<1>17. QED
  BY <1>13, <1>14, <1>16 DEF q

-----------------------------------------------------------------------------
(* filter_planned_nodes_to_catalog. *)

LEMMA FilteredFacts ==
  ASSUME NEW p \in Seq(Node), Closed(p), Once(p)
  PROVE  /\ Filtered(p) \in Seq(Node) /\ Once(Filtered(p)) /\ PointsBack(Filtered(p))
         /\ Edges(Filtered(p)) \subseteq Edges(p)
         /\ PointsBack(p) => Edges(p) \cap (Catalog \X Catalog) \subseteq Edges(Filtered(p))
<1> DEFINE q        == Filtered(p)
           N        == Len(p)
           known    == {i \in DOMAIN p : p[i].agent \in Catalog}
           M        == Cardinality(known)
           place(i) == RankIn(known, i)
           back(i)  == {d \in {place(e) : e \in p[i].deps \cap known} : d < place(i)}
           node(i)  == [agent |-> p[i].agent, deps |-> back(i)]
           at(k)    == CHOOSE i \in known : place(i) = k
<1>1. q = [k \in 1 .. M |-> node(at(k))]
  BY Zenon DEF Filtered
<1>2. N \in Nat /\ DOMAIN p = 1 .. N /\ known \in SUBSET (1 .. N)
  BY PlanFacts
<1>3. known \subseteq DOMAIN p /\ \A i \in DOMAIN p : p[i].agent \in Catalog <=> i \in known
  OBVIOUS
<1> HIDE DEF known, N
<1>4. /\ M \in Nat
      /\ \A i \in known : place(i) \in 1 .. M
      /\ \A i, j \in known : i < j => place(i) < place(j)
      /\ \A k \in 1 .. M : \E i \in known : place(i) = k
  BY <1>2, RankProperties
<1>5. \A i, j \in known : place(i) = place(j) => i = j
  <2> TAKE i, j \in known
  <2>1. i \in Nat /\ j \in Nat /\ place(i) \in Nat /\ place(j) \in Nat
    BY <1>2, <1>4
  <2> HIDE DEF place
  <2>2. QED
    BY <1>4, <2>1
<1> HIDE DEF place, M
<1>6. \A k \in 1 .. M : at(k) \in known /\ place(at(k)) = k
  BY <1>4
<1>7. \A i \in known : at(place(i)) = i /\ place(i) \in 1 .. M
  <2> TAKE i \in known
  <2>1. place(i) \in 1 .. M
    BY <1>4
  <2>2. at(place(i)) \in known /\ place(at(place(i))) = place(i)
    BY <1>6, <2>1
  <2> HIDE DEF at
  <2>3. QED
    BY <1>5, <2>1, <2>2
<1> HIDE DEF at
<1>8. ASSUME NEW k \in 1 .. M
      PROVE  /\ q[k].agent = p[at(k)].agent /\ q[k].deps = back(at(k))
             /\ q[k].deps \subseteq 1 .. (k - 1)
             /\ q[k] \in Node
  <2>1. at(k) \in DOMAIN p /\ p[at(k)].agent \in Agents /\ place(at(k)) = k
    BY <1>3, <1>6, PlanFacts
  <2>2. back(at(k)) \subseteq 1 .. (k - 1)
    <3> SUFFICES ASSUME NEW e \in p[at(k)].deps \cap known, place(e) < k
                 PROVE  place(e) \in 1 .. (k - 1)
      BY <2>1
    <3>1. place(e) \in 1 .. M /\ k \in 1 .. M
      BY <1>4
    <3>2. QED
      BY <1>4, <3>1
  <2>3. q[k] = [agent |-> p[at(k)].agent, deps |-> back(at(k))]
    BY <1>1
  <2> HIDE DEF back, q
  <2>4. back(at(k)) \in SUBSET (Nat \ {0})
    BY <2>2
  <2>5. q[k].agent = p[at(k)].agent /\ q[k].deps = back(at(k)) /\ q[k] \in Node
    BY <2>1, <2>3, <2>4 DEF Node
  <2>6. QED
    BY <2>2, <2>5
<1>9. DOMAIN q = 1 .. M /\ q = [k \in 1 .. M |-> q[k]]
  BY <1>1
<1> HIDE DEF q, node
<1>10. q \in Seq(Node)
  BY <1>4, <1>8, <1>9
<1>11. PointsBack(q)
  BY <1>8, <1>9 DEF PointsBack
<1>12. Once(q)
  <2> SUFFICES ASSUME NEW i \in 1 .. M, NEW j \in 1 .. M, q[i].agent = q[j].agent
               PROVE  i = j
    BY <1>9 DEF Once
  <2>1. at(i) = at(j)
    BY <1>3, <1>6, <1>8 DEF Once
  <2>2. QED
    BY <1>6, <2>1
<1>13. ASSUME NEW w \in Edges(q)
       PROVE  w \in Edges(p)
  <2>1. PICK k \in DOMAIN q : \E l \in q[k].deps : w = <<q[k].agent, q[l].agent>>
    BY DEF Edges
  <2>2. PICK l \in q[k].deps : w = <<q[k].agent, q[l].agent>>
    BY <2>1
  <2>3. k \in 1 .. M /\ l \in back(at(k))
    BY <1>8, <1>9, <2>2
  <2>4. PICK e \in p[at(k)].deps \cap known : l = place(e)
    BY <2>3
  <2>5. at(k) \in DOMAIN p /\ l \in 1 .. M /\ at(l) = e
    BY <1>3, <1>6, <1>7, <2>3, <2>4
  <2>6. w = <<p[at(k)].agent, p[e].agent>>
    BY <1>8, <2>2, <2>3, <2>5
  <2>7. w \in Agents \X Agents
    BY DEF Edges
  <2> HIDE DEF back
  <2>8. QED
    BY <2>4, <2>5, <2>6, <2>7 DEF Edges
<1>14. ASSUME PointsBack(p), NEW w \in Edges(p) \cap (Catalog \X Catalog)
       PROVE  w \in Edges(q)
  <2>1. PICK i \in DOMAIN p : \E d \in p[i].deps : w = <<p[i].agent, p[d].agent>>
    BY DEF Edges
  <2>2. PICK d \in p[i].deps : w = <<p[i].agent, p[d].agent>>
    BY <2>1
  <2>3. d \in DOMAIN p /\ d < i
    BY <1>2, <1>14, PlanFacts DEF PointsBack
  <2>4. p[i].agent \in Catalog /\ p[d].agent \in Catalog
    BY <2>2
  <2>5. i \in known /\ d \in known
    BY <1>3, <2>3, <2>4
  <2>6. place(d) < place(i) /\ place(i) \in 1 .. M /\ place(d) \in 1 .. M
    BY <1>4, <2>3, <2>5
  <2>7. at(place(i)) = i /\ at(place(d)) = d
    BY <1>7, <2>5
  <2>8. place(d) \in back(at(place(i)))
    BY <2>2, <2>5, <2>6, <2>7
  <2> HIDE DEF back
  <2>9. q[place(i)].agent = p[i].agent /\ q[place(d)].agent = p[d].agent
        /\ place(d) \in q[place(i)].deps /\ place(i) \in DOMAIN q
    BY <1>8, <1>9, <2>6, <2>7, <2>8
  <2>10. w \in Agents \X Agents
    BY DEF Edges
  <2>11. QED
    BY <2>2, <2>9, <2>10 DEF Edges
<1>15. QED
  BY <1>10, <1>11, <1>12, <1>13, <1>14 DEF q

-----------------------------------------------------------------------------
(* The steps of a request. *)

\* The request has come to its k-th step.
At(k) == todo = SubSeq(StepsOf(route), k, Len(StepsOf(route)))

LEMMA FromPlace ==
  ASSUME NEW S, NEW s \in Seq(S), NEW k \in 1 .. Len(s)
  PROVE  /\ Head(SubSeq(s, k, Len(s))) = s[k]
         /\ Tail(SubSeq(s, k, Len(s))) = SubSeq(s, k + 1, Len(s))
<1> DEFINE n == Len(s)
           t == SubSeq(s, k, n)
           u == SubSeq(s, k + 1, n)
<1>1. n \in Nat /\ k \in 1 .. n /\ \A i \in 1 .. n : s[i] \in S
  OBVIOUS
<1>2. t \in Seq(S) /\ Len(t) = n - k + 1 /\ \A i \in 1 .. (n - k + 1) : t[i] = s[k + i - 1]
  BY <1>1
<1>3. u \in Seq(S) /\ Len(u) = n - k /\ \A i \in 1 .. (n - k) : u[i] = s[k + i]
  BY <1>1
<1> HIDE DEF n, t, u
<1>4. t # <<>> /\ Head(t) = s[k]
  BY <1>1, <1>2
<1>5. Tail(t) \in Seq(S) /\ Len(Tail(t)) = n - k /\ \A i \in 1 .. (n - k) : Tail(t)[i] = t[i + 1]
  BY <1>1, <1>2, <1>4
<1>6. \A i \in 1 .. (n - k) : Tail(t)[i] = u[i]
  BY <1>1, <1>2, <1>3, <1>5
<1>7. Tail(t) = u
  BY <1>3, <1>5, <1>6
<1>8. QED
  BY <1>4, <1>7 DEF n, t, u

\* The steps, one by one.
LEMMA StepsAre ==
  ASSUME NEW r \in {"chat", "onboarding"}, NEW s, s = StepsOf(r)
  PROVE  /\ \E S : s \in Seq(S)
         /\ s[1] = "ask" /\ s[2] = "sanitize" /\ s[3] = "deduplicate" /\ s[4] = "reorder"
         /\ r # "onboarding" => Len(s) = 5 /\ s[5] = "build"
         /\ r = "onboarding" => /\ Len(s) = 9
                                /\ s[5] = "filter" /\ s[6] = "sanitize"
                                /\ s[7] = "deduplicate" /\ s[8] = "reorder"
                                /\ s[9] = "build"
<1> DEFINE a == "ask"
           b == "sanitize"
           c == "deduplicate"
           d == "reorder"
           e == "build"
           f == "filter"
           S == {a, b, c, d, e, f}
<1>1. CASE r # "onboarding"
  <2>1. s = <<a>> \o <<b, c, d>> \o <<>> \o <<e>>
    BY <1>1, Zenon DEF StepsOf, Refine
  <2> HIDE DEF a, b, c, d, e, f
  <2>2. /\ s \in Seq(S) /\ Len(s) = 5
        /\ s[1] = a /\ s[2] = b /\ s[3] = c /\ s[4] = d /\ s[5] = e
    BY <2>1
  <2> HIDE DEF S
  <2>3. QED
    BY <1>1, <2>2, Zenon DEF a, b, c, d, e
<1>2. CASE r = "onboarding"
  <2>1. s = <<a>> \o <<b, c, d>> \o (<<f>> \o <<b, c, d>>) \o <<e>>
    BY <1>2, Zenon DEF StepsOf, Refine
  <2> HIDE DEF a, b, c, d, e, f
  <2>2. /\ s \in Seq(S) /\ Len(s) = 9
        /\ s[1] = a /\ s[2] = b /\ s[3] = c /\ s[4] = d /\ s[5] = f
        /\ s[6] = b /\ s[7] = c /\ s[8] = d /\ s[9] = e
    BY <2>1
  <2> HIDE DEF S
  <2>3. QED
    BY <1>2, <2>2, Zenon DEF a, b, c, d, e, f
<1>3. QED
  BY <1>1, <1>2

-----------------------------------------------------------------------------
(* The invariant: what the plan is between two passes, in terms of agents. *)

\* Behind the first sanitize: but for the nodes of one agent, as asked for.
Pointed == PointsBack(plan) /\ {w \in Edges(plan) : w[1] # w[2]} = Wishes(answer)

\* Behind the first deduplicate: exactly as asked for.
Unified == Once(plan) /\ Closed(plan) /\ Edges(plan) = Wishes(answer)

InOrder == Orderly => PointsBack(plan) /\ Canonical(plan)

\* Behind the filter: nothing more, and nothing less about known agents.
Trimmed ==
  /\ Once(plan) /\ Closed(plan)
  /\ Edges(plan) \subseteq Wishes(answer)
  /\ Orderly => Wishes(answer) \cap (Catalog \X Catalog) \subseteq Edges(plan)

Settled == Trimmed /\ InOrder /\ (route = "onboarding" => PointsBack(plan))

Planning ==
  \/ At(1) /\ tries < MaxTries
  \/ At(2) /\ plan = answer
  \/ At(3) /\ Pointed
  \/ At(4) /\ Unified
  \/ At(5) /\ Unified /\ InOrder
  \/ route = "onboarding" /\ (At(6) \/ At(7)) /\ Trimmed /\ PointsBack(plan)
  \/ route = "onboarding" /\ At(8) /\ Trimmed /\ AcyclicOn(Agents, Edges(plan))
  \/ route = "onboarding" /\ At(9) /\ Settled

PlannerInv ==
  /\ PlannerTypeOK
  /\ plan \in Seq(Node)
  /\ outcome = "planning" => Planning
  /\ outcome = "built" => Settled

\* Which step is done where.
LEMMA Doings ==
  ASSUME PlannerInv, outcome = "planning"
  PROVE  /\ Doing("ask") => At(1) /\ tries < MaxTries
         /\ Doing("sanitize") => \/ At(2) /\ plan = answer
                                 \/ route = "onboarding" /\ At(6) /\ Trimmed /\ PointsBack(plan)
         /\ Doing("deduplicate") => \/ At(3) /\ Pointed
                                    \/ route = "onboarding" /\ At(7) /\ Trimmed /\ PointsBack(plan)
         /\ Doing("reorder") => \/ At(4) /\ Unified
                                \/ route = "onboarding" /\ At(8) /\ Trimmed
                                   /\ AcyclicOn(Agents, Edges(plan))
         /\ Doing("filter") => route = "onboarding" /\ At(5) /\ Unified /\ InOrder
         /\ Doing("build") => \/ route = "chat" /\ At(5) /\ Unified /\ InOrder
                              \/ route = "onboarding" /\ At(9) /\ Settled
<1> DEFINE s == StepsOf(route)
<1>1. /\ s[1] = "ask" /\ s[2] = "sanitize" /\ s[3] = "deduplicate" /\ s[4] = "reorder"
      /\ route # "onboarding" => Len(s) = 5 /\ s[5] = "build"
      /\ route = "onboarding" => /\ Len(s) = 9
                                 /\ s[5] = "filter" /\ s[6] = "sanitize"
                                 /\ s[7] = "deduplicate" /\ s[8] = "reorder"
                                 /\ s[9] = "build"
  BY StepsAre DEF PlannerInv, PlannerTypeOK
<1>2. PICK S : s \in Seq(S)
  BY StepsAre DEF PlannerInv, PlannerTypeOK
<1>3. route \in {"chat", "onboarding"} /\ (Len(s) = 5 \/ Len(s) = 9)
  BY <1>1 DEF PlannerInv, PlannerTypeOK
<1> HIDE DEF s
<1>4. \A k \in 1 .. Len(s) : At(k) => Head(todo) = s[k]
  BY <1>2, FromPlace DEF At, s
<1>5. \A k \in 1 .. 5 : At(k) => Head(todo) = s[k]
  BY <1>3, <1>4
<1>6. route = "onboarding" => \A k \in 1 .. 9 : At(k) => Head(todo) = s[k]
  BY <1>1, <1>4
<1>7. /\ At(1) => Head(todo) = "ask"
      /\ At(2) => Head(todo) = "sanitize"
      /\ At(3) => Head(todo) = "deduplicate"
      /\ At(4) => Head(todo) = "reorder"
      /\ At(5) => Head(todo) = IF route = "onboarding" THEN "filter" ELSE "build"
  BY <1>1, <1>5
<1>8. route = "onboarding" => /\ At(6) => Head(todo) = "sanitize"
                              /\ At(7) => Head(todo) = "deduplicate"
                              /\ At(8) => Head(todo) = "reorder"
                              /\ At(9) => Head(todo) = "build"
  BY <1>1, <1>6
<1>9. Planning
  BY DEF PlannerInv
<1>10. QED
  BY <1>3, <1>7, <1>8, <1>9 DEF Planning, Doing

\* The next step.
LEMMA NextAt ==
  ASSUME route \in {"chat", "onboarding"}, route' = route, todo' = Tail(todo),
         NEW k \in 1 .. 8, k > 4 => route = "onboarding", At(k)
  PROVE  At(k + 1)'
<1> DEFINE s == StepsOf(route)
<1>1. PICK S : s \in Seq(S)
  BY StepsAre
<1>2. Len(s) = 5 \/ (route = "onboarding" /\ Len(s) = 9)
  BY StepsAre
<1>3. k \in 1 .. Len(s)
  BY <1>2, StepsAre
<1>4. StepsOf(route)' = s
  BY DEF StepsOf, Refine
<1> HIDE DEF s
<1>5. QED
  BY <1>1, <1>3, <1>4, FromPlace DEF At, s

\* What is said of a plan depends on the plan, the answer and the route only.
LEMMA SamePlan ==
  ASSUME route' = route, answer' = answer, plan' = plan
  PROVE  /\ AcyclicOn(Agents, Edges(plan)) = AcyclicOn(Agents, Edges(plan))'
         /\ PointsBack(plan) = PointsBack(plan)'
         /\ Trimmed = Trimmed' /\ InOrder = InOrder' /\ Pointed = Pointed'
         /\ Unified = Unified' /\ Settled = Settled'
<1>1. (Wishes(answer) = Wishes(answer)') /\ (Edges(plan) = Edges(plan)')
  BY DEF Wishes, Edges
<1>2. Orderly = Orderly'
  BY <1>1 DEF Orderly, AcyclicOn
<1>3. /\ Once(plan) = Once(plan)' /\ Closed(plan) = Closed(plan)'
      /\ PointsBack(plan) = PointsBack(plan)' /\ Canonical(plan) = Canonical(plan)'
      /\ AcyclicOn(Agents, Edges(plan)) = AcyclicOn(Agents, Edges(plan))'
  BY <1>1 DEF Once, Closed, PointsBack, Canonical, AcyclicOn
<1>4. Trimmed = Trimmed' /\ InOrder = InOrder' /\ Pointed = Pointed' /\ Unified = Unified'
  BY <1>1, <1>2, <1>3 DEF Trimmed, InOrder, Pointed, Unified
<1>5. Settled = Settled'
  BY <1>3, <1>4 DEF Settled
<1>6. QED
  BY <1>3, <1>4, <1>5

\* A plan that stays in order and complete through one more set of passes.
LEMMA TrimmedStays ==
  ASSUME PlannerInv, plan' \in Seq(Node), answer' = answer, Trimmed,
         Once(plan'), Closed(plan'), Edges(plan') = Edges(plan)
  PROVE  Trimmed'
<1>1. Wishes(answer)' = Wishes(answer) /\ Orderly' = Orderly
  BY DEF Wishes, Orderly, AcyclicOn
<1>2. /\ Once(plan)' = Once(plan') /\ Closed(plan)' = Closed(plan') /\ Edges(plan)' = Edges(plan')
  BY DEF Once, Closed, Edges
<1>3. QED
  BY <1>1, <1>2 DEF Trimmed

LEMMA InitPlanner ==
  ASSUME PlannerInit
  PROVE  PlannerInv
<1>1. PlannerTypeOK
  BY MaxTriesAssumption DEF PlannerInit, PlannerTypeOK
<1>2. plan \in Seq(Node)
  BY DEF PlannerInit
<1>3. At(1)
  <2> DEFINE s == StepsOf(route)
  <2>1. PICK S : s \in Seq(S)
    BY StepsAre DEF PlannerInit
  <2>2. todo = s
    BY DEF PlannerInit
  <2> HIDE DEF s
  <2>3. SubSeq(s, 1, Len(s)) = s
    BY <2>1
  <2>4. QED
    BY <2>2, <2>3 DEF At, s
<1>4. Planning
  BY <1>3, MaxTriesAssumption DEF Planning, PlannerInit
<1>5. QED
  BY <1>1, <1>2, <1>4 DEF PlannerInit, PlannerInv

\* A step of the request that changes the plan and goes on.
LEMMA AfterPass ==
  ASSUME PlannerInv, NEW step, NEW p \in Seq(Node), Pass(step, p)
  PROVE  /\ outcome = "planning" /\ Doing(step)
         /\ route' = route /\ answer' = answer /\ plan' = p /\ todo' = Tail(todo)
         /\ Wishes(answer)' = Wishes(answer) /\ Orderly' = Orderly
         /\ Planning' => PlannerInv'
<1>1. /\ outcome = "planning" /\ Doing(step) /\ outcome' = outcome
      /\ route' = route /\ answer' = answer /\ plan' = p /\ todo' = Tail(todo) /\ tries' = tries
  BY DEF Pass, Doing
<1>2. Wishes(answer)' = Wishes(answer) /\ Orderly' = Orderly
  BY <1>1 DEF Wishes, Orderly, AcyclicOn
<1>3. PlannerTypeOK'
  <2>1. \A i \in DOMAIN p : p[i] \in Node
    BY PlanFacts
  <2>2. QED
    BY <1>1, <2>1 DEF PlannerTypeOK, PlannerInv, Node
<1>4. QED
  BY <1>1, <1>2, <1>3 DEF PlannerInv

LEMMA SanitizeStep ==
  ASSUME PlannerInv, Sanitize
  PROVE  PlannerInv'
<1> DEFINE q == Sanitized(plan)
<1>1. plan \in Seq(Node) /\ route \in {"chat", "onboarding"}
  BY DEF PlannerInv, PlannerTypeOK
<1>2. q \in Seq(Node) /\ PointsBack(q)
  BY <1>1, SanitizedFacts
<1>3. Pass("sanitize", q)
  BY DEF Sanitize
<1>4. /\ outcome = "planning" /\ Doing("sanitize")
      /\ route' = route /\ answer' = answer /\ plan' = q /\ todo' = Tail(todo)
      /\ Wishes(answer)' = Wishes(answer) /\ Orderly' = Orderly
      /\ Planning' => PlannerInv'
  <2> HIDE DEF q
  <2> QED BY <1>2, <1>3, AfterPass
<1>5. CASE At(2) /\ plan = answer
  <2>1. {w \in Edges(q) : w[1] # w[2]} = Wishes(answer)
    BY <1>1, <1>5, SanitizedEdges
  <2> HIDE DEF q
  <2>2. At(3)'
    BY <1>1, <1>4, <1>5, NextAt
  <2>3. Pointed'
    BY <1>2, <1>4, <2>1 DEF Pointed, PointsBack, Edges
  <2>4. QED
    BY <1>4, <2>2, <2>3 DEF Planning
<1>6. CASE route = "onboarding" /\ At(6) /\ Trimmed /\ PointsBack(plan)
  <2>1. q = plan
    BY <1>1, <1>6, SanitizedSame
  <2> HIDE DEF q
  <2>2. At(7)'
    BY <1>1, <1>4, <1>6, NextAt
  <2>3. Trimmed'
    BY <1>1, <1>4, <1>6, <2>1, TrimmedStays DEF Trimmed
  <2>4. PointsBack(plan)'
    BY <1>4, <1>6, <2>1 DEF PointsBack
  <2>5. QED
    BY <1>4, <1>6, <2>2, <2>3, <2>4 DEF Planning
<1>7. QED
  BY <1>4, <1>5, <1>6, Doings

LEMMA DeduplicateStep ==
  ASSUME PlannerInv, Deduplicate
  PROVE  PlannerInv'
<1> DEFINE q == Deduplicated(plan)
<1>1. plan \in Seq(Node) /\ route \in {"chat", "onboarding"}
  BY DEF PlannerInv, PlannerTypeOK
<1>2. Pass("deduplicate", q)
  BY DEF Deduplicate
<1>3. outcome = "planning" /\ Doing("deduplicate")
  BY <1>2 DEF Pass, Doing
<1>4. \/ At(3) /\ Pointed
      \/ route = "onboarding" /\ At(7) /\ Trimmed /\ PointsBack(plan)
  BY <1>3, Doings
<1>5. PointsBack(plan)
  BY <1>4 DEF Pointed
<1>6. q \in Seq(Node) /\ Closed(q) /\ Once(q) /\ Edges(q) = {w \in Edges(plan) : w[1] # w[2]}
  BY <1>1, <1>5, DeduplicatedFacts
<1> HIDE DEF q
<1>7. /\ route' = route /\ answer' = answer /\ plan' = q /\ todo' = Tail(todo)
      /\ Wishes(answer)' = Wishes(answer) /\ Orderly' = Orderly
      /\ Planning' => PlannerInv'
  BY <1>2, <1>6, AfterPass
<1>8. CASE At(3) /\ Pointed
  <2>1. At(4)'
    BY <1>1, <1>7, <1>8, NextAt
  <2>2. Edges(q) = Wishes(answer)
    BY <1>6, <1>8 DEF Pointed
  <2>3. Unified'
    BY <1>6, <1>7, <2>2 DEF Unified, Once, Closed, Edges
  <2>4. QED
    BY <1>7, <2>1, <2>3 DEF Planning
<1>9. CASE route = "onboarding" /\ At(7) /\ Trimmed /\ PointsBack(plan)
  <2>1. At(8)'
    BY <1>1, <1>7, <1>9, NextAt
  <2>2. \A w \in Edges(plan) : w[1] # w[2]
    BY <1>1, <1>9, NoSelfEdges DEF Trimmed
  <2>3. Edges(q) = Edges(plan)
    BY <1>6, <2>2
  <2>4. AcyclicOn(Agents, Edges(plan))
    BY <1>1, <1>9, BackIsAcyclic DEF Trimmed
  <2>5. Trimmed'
    BY <1>6, <1>7, <1>9, <2>3, TrimmedStays
  <2>6. AcyclicOn(Agents, Edges(plan))'
    <3>1. Edges(plan)' = Edges(plan)
      BY <1>7, <2>3 DEF Edges
    <3>2. QED
      BY <2>4, <3>1 DEF AcyclicOn
  <2>7. QED
    BY <1>7, <1>9, <2>1, <2>5, <2>6 DEF Planning
<1>10. QED
  BY <1>4, <1>8, <1>9

LEMMA ReorderStep ==
  ASSUME PlannerInv, Reorder
  PROVE  PlannerInv'
<1> DEFINE q == Reordered(plan)
<1>1. plan \in Seq(Node) /\ route \in {"chat", "onboarding"}
  BY DEF PlannerInv, PlannerTypeOK
<1>2. Pass("reorder", q)
  BY DEF Reorder
<1>3. outcome = "planning" /\ Doing("reorder")
  BY <1>2 DEF Pass, Doing
<1>4. \/ At(4) /\ Unified
      \/ route = "onboarding" /\ At(8) /\ Trimmed /\ AcyclicOn(Agents, Edges(plan))
  BY <1>3, Doings
<1>5. Closed(plan) /\ Once(plan)
  BY <1>4 DEF Unified, Trimmed
<1>6. /\ q \in Seq(Node) /\ Closed(q) /\ Once(q) /\ Edges(q) = Edges(plan)
      /\ AcyclicOn(Agents, Edges(plan)) => PointsBack(q) /\ Canonical(q)
  BY <1>1, <1>5, ReorderedFacts
<1> HIDE DEF q
<1>7. /\ route' = route /\ answer' = answer /\ plan' = q /\ todo' = Tail(todo)
      /\ Wishes(answer)' = Wishes(answer) /\ Orderly' = Orderly
      /\ Planning' => PlannerInv'
  BY <1>2, <1>6, AfterPass
<1>8. CASE At(4) /\ Unified
  <2>1. At(5)'
    BY <1>1, <1>7, <1>8, NextAt
  <2>2. Edges(plan) = Wishes(answer)
    BY <1>8 DEF Unified
  <2>3. Unified'
    BY <1>6, <1>7, <2>2 DEF Unified, Once, Closed, Edges
  <2>4. Orderly => PointsBack(q) /\ Canonical(q)
    BY <1>6, <2>2 DEF Orderly
  <2>5. InOrder'
    BY <1>7, <2>4 DEF InOrder, PointsBack, Canonical
  <2>6. QED
    BY <1>7, <2>1, <2>3, <2>5 DEF Planning
<1>9. CASE route = "onboarding" /\ At(8) /\ Trimmed /\ AcyclicOn(Agents, Edges(plan))
  <2>1. At(9)'
    BY <1>1, <1>7, <1>9, NextAt
  <2>2. Trimmed'
    BY <1>6, <1>7, <1>9, TrimmedStays
  <2>3. PointsBack(plan)' /\ Canonical(plan)'
    BY <1>6, <1>7, <1>9 DEF PointsBack, Canonical
  <2>4. Settled'
    BY <2>2, <2>3 DEF Settled, InOrder
  <2>5. QED
    BY <1>7, <1>9, <2>1, <2>4 DEF Planning
<1>10. QED
  BY <1>4, <1>8, <1>9

LEMMA FilterStep ==
  ASSUME PlannerInv, FilterToCatalog
  PROVE  PlannerInv'
<1> DEFINE q == Filtered(plan)
<1>1. plan \in Seq(Node) /\ route \in {"chat", "onboarding"}
  BY DEF PlannerInv, PlannerTypeOK
<1>2. CASE q # <<>> /\ Pass("filter", q)
  <2>1. outcome = "planning" /\ Doing("filter")
    BY <1>2 DEF Pass, Doing
  <2>2. route = "onboarding" /\ At(5) /\ Unified /\ InOrder
    BY <2>1, Doings
  <2>3. Closed(plan) /\ Once(plan) /\ Edges(plan) = Wishes(answer)
    BY <2>2 DEF Unified
  <2>4. /\ q \in Seq(Node) /\ Once(q) /\ PointsBack(q)
        /\ Edges(q) \subseteq Edges(plan)
        /\ PointsBack(plan) => Edges(plan) \cap (Catalog \X Catalog) \subseteq Edges(q)
    BY <1>1, <2>3, FilteredFacts
  <2> HIDE DEF q
  <2>5. Closed(q)
    BY <2>4, BackIsClosed
  <2>6. /\ route' = route /\ answer' = answer /\ plan' = q /\ todo' = Tail(todo)
        /\ Wishes(answer)' = Wishes(answer) /\ Orderly' = Orderly
        /\ Planning' => PlannerInv'
    BY <1>2, <2>4, AfterPass
  <2>7. Orderly => Wishes(answer) \cap (Catalog \X Catalog) \subseteq Edges(q)
    BY <2>2, <2>3, <2>4 DEF InOrder
  <2>8. Edges(plan)' = Edges(q)
    BY <2>6 DEF Edges
  <2>9. Once(plan)' /\ Closed(plan)' /\ PointsBack(plan)'
    BY <2>4, <2>5, <2>6 DEF Once, Closed, PointsBack
  <2>10. Trimmed'
    BY <2>3, <2>4, <2>6, <2>7, <2>8, <2>9 DEF Trimmed
  <2>11. At(6)'
    BY <1>1, <2>2, <2>6, NextAt
  <2>12. QED
    BY <2>2, <2>6, <2>9, <2>10, <2>11 DEF Planning
<1>3. CASE outcome' = "rejected" /\ UNCHANGED <<route, tries, answer, plan, todo>>
  BY <1>3 DEF PlannerInv, PlannerTypeOK
<1>4. QED
  BY <1>2, <1>3 DEF FilterToCatalog

LEMMA BuildStep ==
  ASSUME PlannerInv, Build
  PROVE  PlannerInv'
<1>1. plan \in Seq(Node) /\ route \in {"chat", "onboarding"}
  BY DEF PlannerInv, PlannerTypeOK
<1>2. /\ outcome = "planning" /\ Doing("build") /\ outcome' \in {"built", "rejected"}
      /\ UNCHANGED <<route, tries, answer, plan>>
  BY DEF Build, Doing
<1>3. \/ route = "chat" /\ At(5) /\ Unified /\ InOrder
      \/ route = "onboarding" /\ At(9) /\ Settled
  BY <1>2, Doings
<1>4. Settled
  <2>1. CASE route = "chat" /\ Unified /\ InOrder
    BY <2>1 DEF Settled, Trimmed, Unified
  <2>2. QED
    BY <1>3, <2>1
<1>5. Settled'
  BY <1>2, <1>4, SamePlan
<1>6. PlannerTypeOK'
  BY <1>2 DEF PlannerInv, PlannerTypeOK
<1>7. QED
  BY <1>1, <1>2, <1>5, <1>6 DEF PlannerInv

LEMMA AskStep ==
  ASSUME PlannerInv, ReceiveAnswer \/ ReceiveGarbage \/ GiveUp
  PROVE  PlannerInv'
<1>1. plan \in Seq(Node) /\ route \in {"chat", "onboarding"} /\ tries \in 0 .. MaxTries
  BY DEF PlannerInv, PlannerTypeOK
<1>2. outcome = "planning" /\ Doing("ask")
  BY DEF ReceiveAnswer, ReceiveGarbage, GiveUp, Doing
<1>3. At(1) /\ tries < MaxTries
  BY <1>2, Doings
<1>4. tries + 1 \in 0 .. MaxTries
  BY <1>1, <1>3, MaxTriesAssumption
<1>5. CASE ReceiveAnswer
  <2>1. /\ answer' \in Answers /\ plan' = answer' /\ todo' = Tail(todo) /\ tries' = tries + 1
        /\ route' = route /\ outcome' = outcome
    BY <1>5 DEF ReceiveAnswer
  <2>2. plan' \in Seq(Node)
    BY <2>1, AnswersAssumption DEF Node
  <2>3. PlannerTypeOK'
    <3>1. \A i \in DOMAIN plan' : plan'[i] \in Node
      BY <2>2, PlanFacts
    <3>2. QED
      BY <1>1, <1>2, <1>4, <2>1, <3>1 DEF PlannerTypeOK, Node
  <2>4. At(2)'
    BY <1>1, <1>3, <2>1, NextAt
  <2>5. QED
    BY <1>2, <2>1, <2>2, <2>3, <2>4 DEF Planning, PlannerInv
<1>6. CASE ReceiveGarbage
  <2>1. /\ UNCHANGED <<route, answer, plan, todo>> /\ tries' = tries + 1
        /\ outcome' = IF tries' < MaxTries THEN "planning" ELSE "rejected"
    BY <1>6 DEF ReceiveGarbage
  <2>2. PlannerTypeOK'
    BY <1>4, <2>1 DEF PlannerInv, PlannerTypeOK
  <2>3. At(1)'
    BY <1>3, <2>1 DEF At, StepsOf
  <2>4. outcome' = "planning" => Planning'
    BY <2>1, <2>3 DEF Planning
  <2>5. QED
    BY <1>1, <2>1, <2>2, <2>4 DEF PlannerInv
<1>7. CASE GiveUp
  <2>1. /\ UNCHANGED <<route, answer, plan, todo>> /\ tries' = tries + 1 /\ outcome' = "rejected"
    BY <1>7 DEF GiveUp
  <2>2. PlannerTypeOK'
    BY <1>4, <2>1 DEF PlannerInv, PlannerTypeOK
  <2>3. QED
    BY <1>1, <2>1, <2>2 DEF PlannerInv
<1>8. QED
  BY <1>5, <1>6, <1>7

LEMMA PlannerStep ==
  ASSUME PlannerInv, [PlannerNext]_plannerVars
  PROVE  PlannerInv'
<1>1. CASE PlannerNext
  BY <1>1, AskStep, SanitizeStep, DeduplicateStep, ReorderStep, FilterStep, BuildStep
     DEF PlannerNext
<1>2. CASE UNCHANGED plannerVars
  <2>1. /\ route' = route /\ tries' = tries /\ answer' = answer /\ plan' = plan
        /\ todo' = todo /\ outcome' = outcome
    BY <1>2 DEF plannerVars
  <2>2. /\ AcyclicOn(Agents, Edges(plan)) = AcyclicOn(Agents, Edges(plan))'
        /\ PointsBack(plan) = PointsBack(plan)'
        /\ Trimmed = Trimmed' /\ InOrder = InOrder' /\ Pointed = Pointed'
        /\ Unified = Unified' /\ Settled = Settled'
    BY <2>1, SamePlan
  <2>3. \A k \in 1 .. 9 : At(k) = At(k)'
    BY <2>1 DEF At, StepsOf, Refine
  <2>4. Planning => Planning'
    BY <2>1, <2>2, <2>3 DEF Planning
  <2>5. PlannerTypeOK'
    BY <2>1 DEF PlannerInv, PlannerTypeOK
  <2>6. QED
    BY <2>1, <2>2, <2>4, <2>5 DEF PlannerInv
<1>3. QED
  BY <1>1, <1>2

-----------------------------------------------------------------------------
(* The theorems. *)

THEOREM PlannerInvariant == PlannerSpec => []PlannerInv
<1>1. PlannerInit => PlannerInv
  BY InitPlanner
<1>2. PlannerInv /\ [PlannerNext]_plannerVars => PlannerInv'
  BY PlannerStep
<1>3. QED
  BY <1>1, <1>2, PTL DEF PlannerSpec

\* Every variable keeps its type; in particular the model is never asked more
\* often than there are token limits to try.
THEOREM PlannerTypes == PlannerSpec => []PlannerTypeOK
<1>1. PlannerInv => PlannerTypeOK
  BY DEF PlannerInv
<1>2. QED
  BY <1>1, PlannerInvariant, PTL

\* Whatever the model answers: a built plan has a node for an agent at most
\* once, no dependency the answer did not have, and, unless the answer makes
\* agents wait for each other, all it had between agents of the catalog.
THEOREM PlanIsTheAnswer == PlannerSpec => []PlanMatchesAnswer
<1>1. ASSUME PlannerInv PROVE PlanMatchesAnswer
  <2> SUFFICES ASSUME outcome = "built" PROVE PlanMatchesAnswer
    BY DEF PlanMatchesAnswer, AgentsOnce, DependenciesKept, NothingInvented
  <2>1. Trimmed /\ plan \in Seq(Node)
    BY <1>1 DEF PlannerInv, Settled
  <2>2. AgentsOnce
    BY <2>1 DEF AgentsOnce, Trimmed, Once
  <2>3. DependenciesKept
    <3> SUFFICES ASSUME Orderly, NEW w \in Wishes(answer) \cap (Catalog \X Catalog)
                 PROVE  \E i, j \in DOMAIN plan : <<plan[i].agent, plan[j].agent>> = w
                                                  /\ j \in plan[i].deps
      BY DEF DependenciesKept
    <3>1. w \in Edges(plan)
      BY <2>1 DEF Trimmed
    <3>2. PICK i \in DOMAIN plan : \E j \in plan[i].deps : w = <<plan[i].agent, plan[j].agent>>
      BY <3>1 DEF Edges
    <3>3. PICK j \in plan[i].deps : w = <<plan[i].agent, plan[j].agent>>
      BY <3>2
    <3>4. j \in DOMAIN plan
      BY <2>1 DEF Trimmed, Closed
    <3>5. QED
      BY <3>3, <3>4
  <2>4. NothingInvented
    <3> SUFFICES ASSUME NEW i \in DOMAIN plan, NEW j \in plan[i].deps
                 PROVE  j \in DOMAIN plan /\ <<plan[i].agent, plan[j].agent>> \in Wishes(answer)
      BY DEF NothingInvented
    <3>1. j \in DOMAIN plan
      BY <2>1 DEF Trimmed, Closed
    <3>2. plan[i].agent \in Agents /\ plan[j].agent \in Agents
      BY <2>1, <3>1, PlanFacts
    <3>3. <<plan[i].agent, plan[j].agent>> \in Edges(plan)
      BY <3>2 DEF Edges
    <3>4. QED
      BY <2>1, <3>1, <3>3 DEF Trimmed
  <2>5. QED
    BY <2>2, <2>3, <2>4 DEF PlanMatchesAnswer
<1>2. QED
  BY <1>1, PlannerInvariant, PTL

\* Whatever the model answers: a built plan only points back, so that the work
\* queue reaches every node of it, and is in the canonical order of the phases
\* but for its dependencies, unless the answer makes agents wait for each other
\* (and points back even then when it was made from a document).
THEOREM PlanIsReachable == PlannerSpec => []PlanIsInOrder
<1>1. ASSUME PlannerInv PROVE PlanIsInOrder
  <2> SUFFICES ASSUME outcome = "built" PROVE PlanIsInOrder
    BY DEF PlanIsInOrder, DependenciesPointBack, CanonicalOrder
  <2>1. InOrder /\ (route = "onboarding" => PointsBack(plan))
    BY <1>1 DEF PlannerInv, Settled
  <2>2. DependenciesPointBack
    BY <2>1 DEF DependenciesPointBack, InOrder, PointsBack
  <2>3. CanonicalOrder
    BY <2>1 DEF CanonicalOrder, InOrder, Canonical
  <2>4. QED
    BY <2>2, <2>3 DEF PlanIsInOrder
<1>2. QED
  BY <1>1, PlannerInvariant, PTL
=============================================================================
