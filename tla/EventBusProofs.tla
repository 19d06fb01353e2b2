--------------------------- MODULE EventBusProofs ---------------------------
(***************************************************************************)
(* For any number of senders, pages, channels, writes and lost             *)
(* connections, and any capacity: the types of the event bus, and that a   *)
(* stream can be trusted: it has no event twice, and a page that is behind *)
(* the database will hear of it.                                           *)
(***************************************************************************)
EXTENDS EventBus, FiniteSetTheorems, TLAPS

\* Who is about to number or publish an event holds a channel, and so does a
\* page from the creation of one to the end of its stream; without a
\* subscription there is no receiver that could hold events.
Holding ==
  /\ \A s \in Senders : sendAt[s] \in {"number", "publish"} => sendTo[s] # 0
  /\ \A b \in Browsers : pageAt[b] \in {"join", "open", "listen"} => stream[b] # 0
  /\ \A b \in Browsers \ Subscribed : queue[b] = <<>>

\* The events that are written and have no number yet.
Unnumbered == {s \in Senders : sendAt[s] \in {"check", "create", "number"}}

\* No number without a write.
NumbersCounted == \A c \in Channels : seq[c] + Cardinality(Unnumbered) <= version

\* A channel has given out every number that is to be published on it or is
\* held by a receiver of it, and each once.
NumbersGivenOut ==
  /\ \A s \in Senders : sendAt[s] = "publish" => number[s] \in 1 .. seq[sendTo[s]]
  /\ \A s, t \in Senders :
       sendAt[s] = "publish" /\ sendAt[t] = "publish" /\ sendTo[s] = sendTo[t] /\ s # t
         => number[s] # number[t]
  /\ \A b \in Subscribed : \A i \in DOMAIN queue[b] : queue[b][i] <= seq[stream[b]]

-----------------------------------------------------------------------------
(* A channel that is created is new to everybody. *)

\* The channels that anybody can refer to.
InUse == {current} \cup {sendTo[s] : s \in Senders} \cup {stream[b] : b \in Browsers}

LEMMA FewInUse ==
  ASSUME BusTypeOK
  PROVE  IsFiniteSet(InUse) /\ Cardinality(InUse) < Cardinality(Channels)
<1> DEFINE S == {sendTo[s] : s \in Senders}
           B == {stream[b] : b \in Browsers}
<1>1. IsFiniteSet(S) /\ Cardinality(S) <= Cardinality(Senders)
  <2>1. sendTo \in Surjection(Senders, S)
    BY DEF Surjection, BusTypeOK
  <2>2. QED
    BY <2>1, FS_Surjection, ChannelsAssumption
<1>2. IsFiniteSet(B) /\ Cardinality(B) <= Cardinality(Browsers)
  <2>1. stream \in Surjection(Browsers, B)
    BY DEF Surjection, BusTypeOK
  <2>2. QED
    BY <2>1, FS_Surjection, ChannelsAssumption
<1>3. /\ IsFiniteSet(S \cup B)
      /\ Cardinality(S \cup B) <= Cardinality(S) + Cardinality(B)
  <2> HIDE DEF S, B
  <2>1. IsFiniteSet(S \cap B) /\ IsFiniteSet(S \cup B)
    BY <1>1, <1>2, FS_Intersection, FS_Union
  <2>2. Cardinality(S \cup B) = Cardinality(S) + Cardinality(B) - Cardinality(S \cap B)
    BY <1>1, <1>2, FS_Union
  <2>3. /\ Cardinality(S) \in Nat /\ Cardinality(B) \in Nat
        /\ Cardinality(S \cap B) \in Nat
    BY <1>1, <1>2, <2>1, FS_CardinalityType
  <2>4. QED
    BY <2>1, <2>2, <2>3
<1>4. InUse = (S \cup B) \cup {current}
  BY DEF InUse
<1> HIDE DEF S, B
<1>5. IsFiniteSet(InUse) /\ Cardinality(InUse) <= Cardinality(S \cup B) + 1
  <2>1. /\ IsFiniteSet(InUse)
        /\ \/ Cardinality(InUse) = Cardinality(S \cup B)
           \/ Cardinality(InUse) = Cardinality(S \cup B) + 1
    BY <1>3, <1>4, FS_AddElement
  <2>2. Cardinality(S \cup B) \in Nat
    BY <1>3, FS_CardinalityType
  <2>3. QED
    BY <2>1, <2>2
<1>6. /\ Cardinality(S) \in Nat /\ Cardinality(B) \in Nat /\ Cardinality(InUse) \in Nat
      /\ Cardinality(S \cup B) \in Nat /\ Cardinality(Channels) \in Nat
      /\ Cardinality(Senders) \in Nat /\ Cardinality(Browsers) \in Nat
  BY <1>1, <1>2, <1>3, <1>5, FS_CardinalityType, ChannelsAssumption
<1>7. QED
  BY <1>1, <1>2, <1>3, <1>5, <1>6, ChannelsAssumption

\* There is always memory for one more channel.
LEMMA NewChannelIsFree ==
  ASSUME BusTypeOK, Holding
  PROVE  NewChannel \in Channels /\ FreeChannel(NewChannel)
<1>1. ~ (Channels \subseteq InUse)
  <2>1. Channels \subseteq InUse => Cardinality(Channels) <= Cardinality(InUse)
    BY FewInUse, FS_Subset
  <2>2. Cardinality(Channels) \in Nat /\ Cardinality(InUse) \in Nat
    BY FewInUse, FS_CardinalityType, ChannelsAssumption
  <2>3. QED
    BY <2>1, <2>2, FewInUse
<1>2. PICK c \in Channels : c \notin InUse
  BY <1>1
<1>3. FreeChannel(c)
  BY <1>2 DEF InUse, FreeChannel, Alive, Subscribed
<1>4. QED
  BY <1>3 DEF NewChannel

\* Nobody who holds a channel finds its numbers start again.
LEMMA CreatedIsNew ==
  ASSUME BusTypeOK, Holding, CreateChannel
  PROVE  /\ current' = NewChannel /\ NewChannel \in Channels /\ NewChannel # 0
         /\ NewChannel # current
         /\ seq' = [seq EXCEPT ![NewChannel] = 0]
         /\ \A s \in Senders :
              sendAt[s] \in {"number", "publish"} => sendTo[s] # NewChannel
         /\ \A b \in Browsers :
              pageAt[b] \in {"join", "open", "listen"} => stream[b] # NewChannel
BY NewChannelIsFree, ChannelsAssumption DEF CreateChannel, FreeChannel, Alive, Subscribed

-----------------------------------------------------------------------------
(* What a receiver holds. *)

\* A receiver that gets one more event holds it last, and what it held before,
\* without the oldest if there is no room.
LEMMA PushedProperties ==
  ASSUME NEW q \in Seq(1 .. MaxWrites), NEW e \in 1 .. MaxWrites,
         Len(q) <= Capacity
  PROVE  /\ Pushed(q, e) \in Seq(1 .. MaxWrites) /\ Pushed(q, e) # <<>>
         /\ Len(Pushed(q, e)) <= Capacity
         /\ Pushed(q, e)[Len(Pushed(q, e))] = e
         /\ \/ /\ Len(Pushed(q, e)) = Len(q) + 1
               /\ \A i \in 1 .. Len(q) : Pushed(q, e)[i] = q[i]
            \/ /\ Len(Pushed(q, e)) = Len(q)
               /\ \A i \in 1 .. Len(q) - 1 : Pushed(q, e)[i] = q[i + 1]
<1> USE BoundsAssumption
<1>1. CASE Len(q) = Capacity
  <2>1. q # <<>> /\ Tail(q) \in Seq(1 .. MaxWrites) /\ Len(Tail(q)) = Len(q) - 1
    BY <1>1
  <2>2. \A i \in 1 .. Len(q) - 1 : Tail(q)[i] = q[i + 1]
    BY <2>1
  <2>3. Pushed(q, e) = Append(Tail(q), e)
    BY <1>1 DEF Pushed
  <2>4. /\ Append(Tail(q), e) \in Seq(1 .. MaxWrites) /\ Len(Append(Tail(q), e)) = Len(q)
        /\ Append(Tail(q), e)[Len(q)] = e
        /\ \A i \in 1 .. Len(q) - 1 : Append(Tail(q), e)[i] = Tail(q)[i]
    BY <2>1
  <2>5. QED
    BY <1>1, <2>1, <2>2, <2>3, <2>4
<1>2. CASE Len(q) # Capacity
  <2>1. Pushed(q, e) = Append(q, e)
    BY <1>2 DEF Pushed
  <2>2. /\ Append(q, e) \in Seq(1 .. MaxWrites) /\ Len(Append(q, e)) = Len(q) + 1
        /\ Append(q, e)[Len(q) + 1] = e
        /\ \A i \in 1 .. Len(q) : Append(q, e)[i] = q[i]
    OBVIOUS
  <2>3. QED
    BY <1>2, <2>1, <2>2
<1>3. QED
  BY <1>1, <1>2

\* An event that is greater than, or at least none of, what is held.
LEMMA PushedDistinct ==
  ASSUME NEW q \in Seq(1 .. MaxWrites), NEW e \in 1 .. MaxWrites,
         Len(q) <= Capacity
  PROVE  (/\ \A i, j \in DOMAIN q : q[i] = q[j] => i = j
          /\ \A i \in DOMAIN q : q[i] # e)
         => \A i, j \in DOMAIN Pushed(q, e) : Pushed(q, e)[i] = Pushed(q, e)[j] => i = j
<1>1. PICK r : r = Pushed(q, e)
  OBVIOUS
<1>2. /\ r \in Seq(1 .. MaxWrites) /\ r[Len(r)] = e
      /\ \/ Len(r) = Len(q) + 1 /\ \A i \in 1 .. Len(q) : r[i] = q[i]
         \/ Len(r) = Len(q) /\ \A i \in 1 .. Len(q) - 1 : r[i] = q[i + 1]
  <2>1. /\ Pushed(q, e) \in Seq(1 .. MaxWrites) /\ Pushed(q, e)[Len(Pushed(q, e))] = e
        /\ \/ /\ Len(Pushed(q, e)) = Len(q) + 1
              /\ \A k \in 1 .. Len(q) : Pushed(q, e)[k] = q[k]
           \/ /\ Len(Pushed(q, e)) = Len(q)
              /\ \A k \in 1 .. Len(q) - 1 : Pushed(q, e)[k] = q[k + 1]
    BY PushedProperties, Zenon
  <2>2. QED
    BY <1>1, <2>1
<1>3. DOMAIN r = 1 .. Len(r) /\ DOMAIN q = 1 .. Len(q) /\ Len(q) \in Nat
  BY <1>2
<1>4. SUFFICES ASSUME \A i, j \in DOMAIN q : q[i] = q[j] => i = j,
                      \A i \in DOMAIN q : q[i] # e,
                      NEW i \in DOMAIN r, NEW j \in DOMAIN r, r[i] = r[j]
               PROVE  i = j
  BY <1>1
<1>5. CASE Len(r) = Len(q) + 1 /\ \A k \in 1 .. Len(q) : r[k] = q[k]
  <2>1. i \in DOMAIN q \/ i = Len(r)
    BY <1>3, <1>5
  <2>2. j \in DOMAIN q \/ j = Len(r)
    BY <1>3, <1>5
  <2>3. QED
    BY <1>2, <1>3, <1>4, <1>5, <2>1, <2>2
<1>6. CASE Len(r) = Len(q) /\ \A k \in 1 .. Len(q) - 1 : r[k] = q[k + 1]
  <2>1. i = Len(r) \/ (i \in 1 .. Len(q) - 1 /\ i + 1 \in DOMAIN q)
    BY <1>3, <1>6
  <2>2. j = Len(r) \/ (j \in 1 .. Len(q) - 1 /\ j + 1 \in DOMAIN q)
    BY <1>3, <1>6
  <2>3. i \in Nat /\ j \in Nat
    BY <1>3
  <2>4. QED
    BY <1>2, <1>4, <1>6, <2>1, <2>2, <2>3
<1>7. QED
  BY <1>2, <1>5, <1>6

\* Whatever holds of what is held and of the new event holds of the rest.
LEMMA PushedElements ==
  ASSUME NEW q \in Seq(1 .. MaxWrites), NEW e \in 1 .. MaxWrites,
         Len(q) <= Capacity, NEW i \in DOMAIN Pushed(q, e)
  PROVE  Pushed(q, e)[i] = e \/ \E j \in DOMAIN q : Pushed(q, e)[i] = q[j]
<1>1. PICK r : r = Pushed(q, e)
  OBVIOUS
<1>2. /\ r \in Seq(1 .. MaxWrites) /\ r[Len(r)] = e
      /\ \/ Len(r) = Len(q) + 1 /\ \A k \in 1 .. Len(q) : r[k] = q[k]
         \/ Len(r) = Len(q) /\ \A k \in 1 .. Len(q) - 1 : r[k] = q[k + 1]
  <2>1. /\ Pushed(q, e) \in Seq(1 .. MaxWrites) /\ Pushed(q, e)[Len(Pushed(q, e))] = e
        /\ \/ /\ Len(Pushed(q, e)) = Len(q) + 1
              /\ \A k \in 1 .. Len(q) : Pushed(q, e)[k] = q[k]
           \/ /\ Len(Pushed(q, e)) = Len(q)
              /\ \A k \in 1 .. Len(q) - 1 : Pushed(q, e)[k] = q[k + 1]
    BY PushedProperties, Zenon
  <2>2. QED
    BY <1>1, <2>1
<1>3. /\ DOMAIN r = 1 .. Len(r) /\ DOMAIN q = 1 .. Len(q) /\ Len(q) \in Nat
      /\ i \in DOMAIN r
  BY <1>1, <1>2
<1>4. i = Len(r) \/ i \in 1 .. Len(r) - 1
  BY <1>3
<1>5. CASE i = Len(r)
  BY <1>1, <1>2, <1>5
<1>6. CASE i \in 1 .. Len(r) - 1
  <2>1. \/ r[i] = q[i] /\ i \in DOMAIN q
        \/ r[i] = q[i + 1] /\ i + 1 \in DOMAIN q
    <3>1. CASE Len(r) = Len(q) + 1 /\ \A k \in 1 .. Len(q) : r[k] = q[k]
      BY <1>3, <1>6, <3>1
    <3>2. CASE Len(r) = Len(q) /\ \A k \in 1 .. Len(q) - 1 : r[k] = q[k + 1]
      <4>1. i \in 1 .. Len(q) - 1 /\ i + 1 \in 1 .. Len(q)
        BY <1>3, <1>6, <3>2
      <4>2. QED
        BY <1>3, <3>2, <4>1
    <3>3. QED
      BY <1>2, <3>1, <3>2
  <2>2. QED
    BY <1>1, <2>1
<1>7. QED
  BY <1>4, <1>5, <1>6

LEMMA TailProperties ==
  ASSUME NEW S, NEW q \in Seq(S), q # <<>>
  PROVE  /\ Tail(q) \in Seq(S) /\ Len(Tail(q)) = Len(q) - 1
         /\ \A i \in DOMAIN Tail(q) : i + 1 \in DOMAIN q /\ Tail(q)[i] = q[i + 1]
<1>1. Len(q) \in Nat \ {0} /\ DOMAIN q = 1 .. Len(q)
  OBVIOUS
<1>2. /\ Tail(q) \in Seq(S) /\ Len(Tail(q)) = Len(q) - 1
      /\ \A i \in 1 .. Len(q) - 1 : Tail(q)[i] = q[i + 1]
  BY <1>1
<1>3. QED
  BY <1>1, <1>2

-----------------------------------------------------------------------------
(* Type correctness. *)

BusInv ==
  /\ BusTypeOK
  /\ Holding
  /\ NumbersCounted
  /\ NumbersGivenOut
  /\ StreamsCanBeTrusted

LEMMA InitBusInv == BusInit => BusInv
<1> SUFFICES ASSUME BusInit PROVE BusInv
  OBVIOUS
<1> USE BoundsAssumption, ChannelsAssumption
<1>1. BusTypeOK
  <2>1. queue \in [Browsers -> Seq(1 .. MaxWrites)] /\ \A b \in Browsers : Len(queue[b]) <= Capacity
    BY DEF BusInit
  <2>2. /\ sendAt \in [Senders -> SendState] /\ sendTo \in [Senders -> Channels \cup {0}]
        /\ guard \in [Senders -> BOOLEAN] /\ final \in [Senders -> BOOLEAN]
        /\ pageAt \in [Browsers -> PageState] /\ stream \in [Browsers -> Channels \cup {0}]
        /\ lagged \in [Browsers -> BOOLEAN] /\ ensuring \in BOOLEAN
        /\ current \in Channels \cup {0}
    BY DEF BusInit, SendState, PageState
  <2>3. /\ seq \in [Channels -> 0 .. MaxWrites] /\ view \in [Browsers -> 0 .. MaxWrites]
        /\ number \in [Senders -> 0 .. MaxWrites]
        /\ version \in 0 .. MaxWrites /\ drops \in 0 .. MaxDrops
    BY DEF BusInit
  <2>4. QED
    BY <2>1, <2>2, <2>3 DEF BusTypeOK
<1>2. Holding
  BY DEF BusInit, Holding, Subscribed
<1>3. NumbersCounted
  <2>1. Unnumbered = {}
    BY DEF BusInit, Unnumbered
  <2>2. QED
    BY <2>1, FS_EmptySet DEF BusInit, NumbersCounted
<1>4. NumbersGivenOut
  BY DEF BusInit, NumbersGivenOut, Subscribed
<1>5. StreamsCanBeTrusted
  BY DEF BusInit, StreamsCanBeTrusted, NoSilentLoss, DistinctNumbers, Subscribed
<1>6. QED
  BY <1>1, <1>2, <1>3, <1>4, <1>5 DEF BusInv

\* A number is given out for a write, and there are no more than MaxWrites.
LEMMA NextNumberInRange ==
  ASSUME BusInv, NEW s \in Senders, sendAt[s] = "number"
  PROVE  /\ sendTo[s] \in Channels
         /\ seq[sendTo[s]] + 1 \in 1 .. MaxWrites
<1>1. sendTo[s] \in Channels
  BY DEF BusInv, BusTypeOK, Holding
<1>2. s \in Unnumbered /\ IsFiniteSet(Unnumbered)
  BY FS_Subset, ChannelsAssumption DEF Unnumbered
<1>3. Cardinality(Unnumbered) \in Nat \ {0}
  BY <1>2, FS_CardinalityType, FS_EmptySet
<1>4. seq[sendTo[s]] + Cardinality(Unnumbered) <= version
  BY <1>1 DEF BusInv, NumbersCounted
<1>5. version \in 0 .. MaxWrites /\ seq[sendTo[s]] \in 0 .. MaxWrites
  BY <1>1 DEF BusInv, BusTypeOK
<1>6. QED
  BY <1>1, <1>3, <1>4, <1>5, BoundsAssumption

LEMMA BusTypeKept == BusInv /\ [BusNext]_busVars => BusTypeOK'
<1> SUFFICES ASSUME BusInv, [BusNext]_busVars PROVE BusTypeOK'
  OBVIOUS
<1>0. BusTypeOK /\ Holding
  BY DEF BusInv
<1> USE BoundsAssumption DEF mapVars, sendVars, pageVars, SendState, PageState
<1>1. CASE EnsureLook
  BY <1>0, <1>1 DEF EnsureLook, BusTypeOK
<1> DEFINE Created == /\ current' \in Channels /\ current' = NewChannel
                      /\ seq' \in [Channels -> 0 .. MaxWrites]
<1>c. ASSUME CreateChannel PROVE Created
  <2>1. current' = NewChannel /\ NewChannel \in Channels /\ seq' = [seq EXCEPT ![NewChannel] = 0]
    BY <1>0, <1>c, CreatedIsNew
  <2>2. QED
    BY <1>0, <2>1 DEF BusTypeOK
<1> HIDE DEF Created
<1>2. CASE EnsureCreate
  <2>1. Created
    BY <1>2, <1>c DEF EnsureCreate
  <2>2. QED
    BY <1>0, <1>2, <2>1 DEF EnsureCreate, BusTypeOK, Created
<1>3. ASSUME NEW s \in Senders, NEW f \in BOOLEAN, Write(s, f) PROVE BusTypeOK'
  BY <1>0, <1>3 DEF Write, BusTypeOK
<1>4. ASSUME NEW s \in Senders, LookUp(s) PROVE BusTypeOK'
  BY <1>0, <1>4 DEF LookUp, BusTypeOK
<1>5. ASSUME NEW s \in Senders, CreateToSend(s) PROVE BusTypeOK'
  <2>1. Created
    BY <1>5, <1>c DEF CreateToSend
  <2>2. QED
    BY <1>0, <1>5, <2>1 DEF CreateToSend, BusTypeOK, Created
<1>6. ASSUME NEW s \in Senders, TakeNumber(s) PROVE BusTypeOK'
  BY <1>0, <1>6, NextNumberInRange DEF TakeNumber, BusTypeOK
<1>7. ASSUME NEW s \in Senders, Publish(s) PROVE BusTypeOK'
  <2>1. number[s] \in 1 .. MaxWrites
    BY <1>0, <1>7 DEF Publish, BusInv, NumbersGivenOut, BusTypeOK, Holding
  <2>2. ASSUME NEW b \in Browsers
        PROVE  queue'[b] \in Seq(1 .. MaxWrites) /\ Len(queue'[b]) <= Capacity
    BY <1>0, <1>7, <2>1, PushedProperties DEF Publish, BusTypeOK
  <2>3. QED
    BY <1>0, <1>7, <2>2 DEF Publish, BusTypeOK
<1>8. ASSUME NEW s \in Senders, Cleanup(s) PROVE BusTypeOK'
  BY <1>0, <1>8 DEF Cleanup, BusTypeOK
<1>9. ASSUME NEW b \in Browsers, Subscribe(b) PROVE BusTypeOK'
  BY <1>0, <1>9 DEF Subscribe, BusTypeOK
<1>10. ASSUME NEW b \in Browsers, CreateToSubscribe(b) PROVE BusTypeOK'
  <2>1. Created
    BY <1>10, <1>c DEF CreateToSubscribe
  <2>2. QED
    BY <1>0, <1>10, <2>1 DEF CreateToSubscribe, BusTypeOK, Created
<1>11. ASSUME NEW b \in Browsers, Join(b) PROVE BusTypeOK'
  BY <1>0, <1>11 DEF Join, BusTypeOK
<1>12. ASSUME NEW b \in Browsers, OnOpen(b) PROVE BusTypeOK'
  BY <1>0, <1>12 DEF OnOpen, BusTypeOK
<1>13. ASSUME NEW b \in Browsers, Receive(b) PROVE BusTypeOK'
  <2>1. CASE UNCHANGED queue
    BY <1>0, <1>13, <2>1 DEF Receive, BusTypeOK
  <2>2. CASE queue[b] # <<>> /\ queue' = [queue EXCEPT ![b] = Tail(@)]
    <3>1. Tail(queue[b]) \in Seq(1 .. MaxWrites) /\ Len(Tail(queue[b])) = Len(queue[b]) - 1
      BY <1>0, <2>2 DEF BusTypeOK
    <3>2. queue' \in [Browsers -> Seq(1 .. MaxWrites)]
      BY <1>0, <2>2, <3>1 DEF BusTypeOK
    <3>3. \A c \in Browsers : Len(queue'[c]) <= Capacity
      BY <1>0, <2>2, <3>1 DEF BusTypeOK
    <3>4. QED
      BY <1>0, <1>13, <3>2, <3>3 DEF Receive, BusTypeOK
  <2>3. QED
    BY <1>13, <2>1, <2>2 DEF Receive
<1>14. ASSUME NEW b \in Browsers, StreamEnds(b) PROVE BusTypeOK'
  BY <1>0, <1>14 DEF StreamEnds, BusTypeOK
<1>15. ASSUME NEW b \in Browsers, Drop(b) PROVE BusTypeOK'
  <2>1. queue' \in [Browsers -> Seq(1 .. MaxWrites)]
    BY <1>0, <1>15 DEF Drop, BusTypeOK
  <2>2. \A c \in Browsers : Len(queue'[c]) <= Capacity
    BY <1>0, <1>15 DEF Drop, BusTypeOK
  <2>3. drops' \in 0 .. MaxDrops
    BY <1>0, <1>15 DEF Drop, BusTypeOK
  <2>4. QED
    BY <1>0, <1>15, <2>1, <2>2, <2>3 DEF Drop, BusTypeOK
<1>16. CASE UNCHANGED busVars
  BY <1>0, <1>16 DEF busVars, BusTypeOK
<1>17. QED
  BY <1>1, <1>2, <1>3, <1>4, <1>5, <1>6, <1>7, <1>8, <1>9, <1>10, <1>11, <1>12, <1>13,
     <1>14, <1>15, <1>16 DEF BusNext, SendStep, PageStep

-----------------------------------------------------------------------------
(* Who holds a channel. *)

LEMMA HoldingKept == BusInv /\ [BusNext]_busVars => Holding'
<1> SUFFICES ASSUME BusInv, [BusNext]_busVars PROVE Holding'
  OBVIOUS
<1>0. BusTypeOK /\ Holding
  BY DEF BusInv
<1> USE DEF Holding, Subscribed, mapVars, sendVars, pageVars
<1>1. CASE EnsureLook
  BY <1>0, <1>1 DEF EnsureLook, BusTypeOK
<1>2. CASE EnsureCreate
  BY <1>0, <1>2 DEF EnsureCreate, BusTypeOK
<1>3. ASSUME NEW s \in Senders, NEW f \in BOOLEAN, Write(s, f) PROVE Holding'
  BY <1>0, <1>3 DEF Write, BusTypeOK
<1>4. ASSUME NEW s \in Senders, LookUp(s) PROVE Holding'
  BY <1>0, <1>4 DEF LookUp, BusTypeOK
<1>5. ASSUME NEW s \in Senders, CreateToSend(s) PROVE Holding'
  BY <1>0, <1>5, CreatedIsNew DEF CreateToSend, BusTypeOK
<1>6. ASSUME NEW s \in Senders, TakeNumber(s) PROVE Holding'
  BY <1>0, <1>6 DEF TakeNumber, BusTypeOK
<1>7. ASSUME NEW s \in Senders, Publish(s) PROVE Holding'
  BY <1>0, <1>7 DEF Publish, BusTypeOK
<1>8. ASSUME NEW s \in Senders, Cleanup(s) PROVE Holding'
  BY <1>0, <1>8 DEF Cleanup, BusTypeOK
<1>9. ASSUME NEW b \in Browsers, Subscribe(b) PROVE Holding'
  BY <1>0, <1>9 DEF Subscribe, BusTypeOK
<1>10. ASSUME NEW b \in Browsers, CreateToSubscribe(b) PROVE Holding'
  BY <1>0, <1>10, CreatedIsNew DEF CreateToSubscribe, BusTypeOK
<1>11. ASSUME NEW b \in Browsers, Join(b) PROVE Holding'
  BY <1>0, <1>11 DEF Join, BusTypeOK
<1>12. ASSUME NEW b \in Browsers, OnOpen(b) PROVE Holding'
  BY <1>0, <1>12 DEF OnOpen, BusTypeOK
<1>13. ASSUME NEW b \in Browsers, Receive(b) PROVE Holding'
  BY <1>0, <1>13 DEF Receive, BusTypeOK
<1>14. ASSUME NEW b \in Browsers, StreamEnds(b) PROVE Holding'
  BY <1>0, <1>14 DEF StreamEnds, BusTypeOK
<1>15. ASSUME NEW b \in Browsers, Drop(b) PROVE Holding'
  BY <1>0, <1>15 DEF Drop, BusTypeOK
<1>16. CASE UNCHANGED busVars
  BY <1>0, <1>16 DEF busVars, BusTypeOK
<1>17. QED
  BY <1>1, <1>2, <1>3, <1>4, <1>5, <1>6, <1>7, <1>8, <1>9,
     <1>10, <1>11, <1>12, <1>13, <1>14, <1>15, <1>16
     DEF BusNext, SendStep, PageStep

-----------------------------------------------------------------------------
(* Numbers and writes. *)

LEMMA CountedKept == BusInv /\ [BusNext]_busVars => NumbersCounted'
<1> SUFFICES ASSUME BusInv, [BusNext]_busVars PROVE NumbersCounted'
  OBVIOUS
<1>0. BusTypeOK /\ Holding /\ NumbersCounted
  BY DEF BusInv
<1> USE DEF mapVars, sendVars, pageVars
<1>a. IsFiniteSet(Unnumbered) /\ Cardinality(Unnumbered) \in Nat
  BY FS_Subset, FS_CardinalityType, ChannelsAssumption DEF Unnumbered
<1>b. version \in Nat /\ seq \in [Channels -> Nat]
  BY <1>0, BoundsAssumption DEF BusTypeOK
\* A step that writes nothing and numbers nothing.
<1>c. ASSUME Unnumbered' = Unnumbered, version' = version, UNCHANGED seq
      PROVE  NumbersCounted'
  BY <1>0, <1>c DEF NumbersCounted
<1>d. ASSUME Unnumbered' = Unnumbered, version' = version, CreateChannel
      PROVE  NumbersCounted'
  <2>1. NewChannel \in Channels /\ seq' = [seq EXCEPT ![NewChannel] = 0]
    BY <1>0, <1>d, CreatedIsNew
  <2>2. ASSUME NEW c \in Channels PROVE seq'[c] + Cardinality(Unnumbered) <= version
    <3>1. seq[c] + Cardinality(Unnumbered) <= version /\ seq'[c] \in 0 .. seq[c]
      BY <1>0, <1>b, <2>1 DEF NumbersCounted
    <3>2. QED
      BY <1>a, <1>b, <3>1
  <2>3. QED
    BY <1>d, <2>2 DEF NumbersCounted
<1>1. CASE EnsureLook
  BY <1>1, <1>c DEF EnsureLook, Unnumbered
<1>2. CASE EnsureCreate
  BY <1>2, <1>d DEF EnsureCreate, Unnumbered
<1>3. ASSUME NEW s \in Senders, NEW f \in BOOLEAN, Write(s, f) PROVE NumbersCounted'
  <2>1. Unnumbered' = Unnumbered \cup {s} /\ s \notin Unnumbered
    BY <1>0, <1>3 DEF Write, Unnumbered, BusTypeOK
  <2>2. Cardinality(Unnumbered') = Cardinality(Unnumbered) + 1
    BY <1>a, <2>1, FS_AddElement
  <2>3. ASSUME NEW c \in Channels PROVE seq'[c] + Cardinality(Unnumbered') <= version'
    <3>1. seq[c] + Cardinality(Unnumbered) <= version
      BY <1>0 DEF NumbersCounted
    <3>2. QED
      BY <1>3, <1>a, <1>b, <2>2, <3>1 DEF Write
  <2>4. QED
    BY <2>3 DEF NumbersCounted
<1>4. ASSUME NEW s \in Senders, LookUp(s) PROVE NumbersCounted'
  <2>1. Unnumbered' = Unnumbered
    BY <1>0, <1>4 DEF LookUp, Unnumbered, BusTypeOK
  <2>2. QED
    BY <1>4, <1>c, <2>1 DEF LookUp
<1>5. ASSUME NEW s \in Senders, CreateToSend(s) PROVE NumbersCounted'
  <2>1. Unnumbered' = Unnumbered
    BY <1>0, <1>5 DEF CreateToSend, Unnumbered, BusTypeOK
  <2>2. QED
    BY <1>5, <1>d, <2>1 DEF CreateToSend
<1>6. ASSUME NEW s \in Senders, TakeNumber(s) PROVE NumbersCounted'
  <2>1. Unnumbered' = Unnumbered \ {s} /\ s \in Unnumbered
    BY <1>0, <1>6 DEF TakeNumber, Unnumbered, BusTypeOK
  <2>2. Cardinality(Unnumbered') = Cardinality(Unnumbered) - 1
    BY <1>a, <2>1, FS_RemoveElement
  <2>3. ASSUME NEW c \in Channels PROVE seq'[c] + Cardinality(Unnumbered') <= version'
    <3>1. seq[c] + Cardinality(Unnumbered) <= version
      BY <1>0 DEF NumbersCounted
    <3>2. seq'[c] = seq[c] \/ seq'[c] = seq[c] + 1
      BY <1>6, <1>b DEF TakeNumber
    <3>3. QED
      BY <1>6, <1>a, <1>b, <2>2, <3>1, <3>2 DEF TakeNumber
  <2>4. QED
    BY <2>3 DEF NumbersCounted
<1>7. ASSUME NEW s \in Senders, Publish(s) PROVE NumbersCounted'
  <2>1. Unnumbered' = Unnumbered
    BY <1>0, <1>7 DEF Publish, Unnumbered, BusTypeOK
  <2>2. QED
    BY <1>7, <1>c, <2>1 DEF Publish
<1>8. ASSUME NEW s \in Senders, Cleanup(s) PROVE NumbersCounted'
  <2>1. Unnumbered' = Unnumbered
    BY <1>0, <1>8 DEF Cleanup, Unnumbered, BusTypeOK
  <2>2. QED
    BY <1>8, <1>c, <2>1 DEF Cleanup
<1>9. ASSUME NEW b \in Browsers, Subscribe(b) PROVE NumbersCounted'
  BY <1>9, <1>c DEF Subscribe, Unnumbered
<1>10. ASSUME NEW b \in Browsers, CreateToSubscribe(b) PROVE NumbersCounted'
  BY <1>10, <1>d DEF CreateToSubscribe, Unnumbered
<1>11. ASSUME NEW b \in Browsers, Join(b) PROVE NumbersCounted'
  BY <1>11, <1>c DEF Join, Unnumbered
<1>12. ASSUME NEW b \in Browsers, OnOpen(b) PROVE NumbersCounted'
  BY <1>12, <1>c DEF OnOpen, Unnumbered
<1>13. ASSUME NEW b \in Browsers, Receive(b) PROVE NumbersCounted'
  BY <1>13, <1>c DEF Receive, Unnumbered
<1>14. ASSUME NEW b \in Browsers, StreamEnds(b) PROVE NumbersCounted'
  BY <1>14, <1>c DEF StreamEnds, Unnumbered
<1>15. ASSUME NEW b \in Browsers, Drop(b) PROVE NumbersCounted'
  BY <1>15, <1>c DEF Drop, Unnumbered
<1>16. CASE UNCHANGED busVars
  BY <1>16, <1>c DEF busVars, Unnumbered
<1>17. QED
  BY <1>1, <1>2, <1>3, <1>4, <1>5, <1>6, <1>7, <1>8, <1>9,
     <1>10, <1>11, <1>12, <1>13, <1>14, <1>15, <1>16
     DEF BusNext, SendStep, PageStep

-----------------------------------------------------------------------------
(* Each number once. *)

LEMMA NumbersKept == BusInv /\ [BusNext]_busVars => (NumbersGivenOut /\ DistinctNumbers)'
<1> DEFINE Numbers == NumbersGivenOut /\ DistinctNumbers
<1> SUFFICES ASSUME BusInv, [BusNext]_busVars PROVE Numbers'
  OBVIOUS
<1>0. BusTypeOK /\ Holding /\ NumbersGivenOut /\ DistinctNumbers
  BY DEF BusInv, StreamsCanBeTrusted
<1> USE DEF mapVars, sendVars, pageVars, NumbersGivenOut, DistinctNumbers, Subscribed
<1>a. /\ seq \in [Channels -> Nat] /\ number \in [Senders -> Nat]
      /\ \A b \in Browsers : \A i \in DOMAIN queue[b] : queue[b][i] \in Nat
  BY <1>0, BoundsAssumption DEF BusTypeOK
<1>1. CASE EnsureLook
  BY <1>0, <1>a, <1>1, CreatedIsNew DEF EnsureLook, BusTypeOK, Holding
<1>2. CASE EnsureCreate
  BY <1>0, <1>a, <1>2, CreatedIsNew DEF EnsureCreate, BusTypeOK, Holding
<1>3. ASSUME NEW s \in Senders, NEW f \in BOOLEAN, Write(s, f) PROVE Numbers'
  BY <1>0, <1>a, <1>3, CreatedIsNew DEF Write, BusTypeOK, Holding
<1>4. ASSUME NEW s \in Senders, LookUp(s) PROVE Numbers'
  BY <1>0, <1>a, <1>4, CreatedIsNew DEF LookUp, BusTypeOK, Holding
<1>5. ASSUME NEW s \in Senders, CreateToSend(s) PROVE Numbers'
  BY <1>0, <1>a, <1>5, CreatedIsNew DEF CreateToSend, BusTypeOK, Holding
<1>6. ASSUME NEW s \in Senders, TakeNumber(s) PROVE Numbers'
  <2>1. sendTo[s] \in Channels
    BY <1>0, <1>6 DEF TakeNumber, BusTypeOK, Holding
  <2>2. \A c \in Channels : seq[c] <= seq'[c]
    BY <1>a, <1>6, <2>1 DEF TakeNumber
  <2>3. number'[s] = seq[sendTo[s]] + 1 /\ seq'[sendTo[s]] = seq[sendTo[s]] + 1
    BY <1>0, <1>a, <1>6, <2>1 DEF TakeNumber, BusTypeOK
  <2>4. QED
    BY <1>0, <1>a, <1>6, <2>1, <2>2, <2>3 DEF TakeNumber, BusTypeOK, Holding
<1>7. ASSUME NEW s \in Senders, Publish(s) PROVE Numbers'
  <2>1. ASSUME NEW t \in Senders, sendAt'[t] = "publish"
        PROVE  /\ t # s /\ sendAt[t] = "publish"
               /\ sendTo'[t] = sendTo[t] /\ number'[t] = number[t]
    BY <1>0, <1>7, <2>1 DEF Publish, BusTypeOK
  <2>2. sendTo[s] \in Channels /\ number[s] \in 1 .. MaxWrites /\ number[s] <= seq[sendTo[s]]
    BY <1>0, <1>a, <1>7 DEF Publish, BusTypeOK, Holding
  <2>3. ASSUME NEW b \in Browsers
        PROVE  /\ \A i, j \in DOMAIN queue'[b] : queue'[b][i] = queue'[b][j] => i = j
               /\ b \in Subscribed => \A i \in DOMAIN queue'[b] :
                    /\ queue'[b][i] <= seq[stream[b]]
                    /\ \A t \in Senders \ {s} :
                         sendAt[t] = "publish" /\ sendTo[t] = stream[b]
                           => queue'[b][i] # number[t]
    <3>1. CASE b \in Subscribed /\ stream[b] = sendTo[s]
      <4>1. queue'[b] = Pushed(queue[b], number[s])
        BY <1>0, <1>7, <3>1 DEF Publish
      <4>2. queue[b] \in Seq(1 .. MaxWrites) /\ Len(queue[b]) <= Capacity
        BY <1>0 DEF BusTypeOK
      <4>3. \A i \in DOMAIN queue[b] : queue[b][i] # number[s]
        BY <1>0, <1>7, <3>1 DEF Publish
      <4>4. \A i, j \in DOMAIN queue'[b] : queue'[b][i] = queue'[b][j] => i = j
        BY <1>0, <2>2, <4>1, <4>2, <4>3, PushedDistinct
      <4>5. ASSUME NEW i \in DOMAIN queue'[b]
            PROVE  queue'[b][i] = number[s] \/ \E j \in DOMAIN queue[b] : queue'[b][i] = queue[b][j]
        BY <2>2, <4>1, <4>2, PushedElements
      <4>6. ASSUME NEW i \in DOMAIN queue'[b]
            PROVE  /\ queue'[b][i] <= seq[stream[b]]
                   /\ \A t \in Senders \ {s} :
                        sendAt[t] = "publish" /\ sendTo[t] = stream[b]
                          => queue'[b][i] # number[t]
        <5>1. CASE queue'[b][i] = number[s]
          BY <1>0, <1>7, <2>2, <3>1, <5>1 DEF Publish
        <5>2. CASE \E j \in DOMAIN queue[b] : queue'[b][i] = queue[b][j]
          BY <1>0, <3>1, <5>2
        <5>3. QED
          BY <4>5, <5>1, <5>2
      <4>7. QED
        BY <4>4, <4>6
    <3>2. CASE ~ (b \in Subscribed /\ stream[b] = sendTo[s])
      <4>1. queue'[b] = queue[b]
        BY <1>0, <1>7, <3>2 DEF Publish
      <4>2. QED
        BY <1>0, <4>1
    <3>3. QED
      BY <3>1, <3>2
  <2>4. UNCHANGED <<seq, pageAt, stream>>
    BY <1>7 DEF Publish
  <2>5. NumbersGivenOut'
    BY <1>0, <2>1, <2>3, <2>4
  <2>6. DistinctNumbers'
    BY <2>1, <2>3, <2>4
  <2>7. QED
    BY <2>5, <2>6
<1>8. ASSUME NEW s \in Senders, Cleanup(s) PROVE Numbers'
  BY <1>0, <1>a, <1>8, CreatedIsNew DEF Cleanup, BusTypeOK, Holding
<1>9. ASSUME NEW b \in Browsers, Subscribe(b) PROVE Numbers'
  BY <1>0, <1>a, <1>9, CreatedIsNew DEF Subscribe, BusTypeOK, Holding
<1>10. ASSUME NEW b \in Browsers, CreateToSubscribe(b) PROVE Numbers'
  BY <1>0, <1>a, <1>10, CreatedIsNew DEF CreateToSubscribe, BusTypeOK, Holding
<1>11. ASSUME NEW b \in Browsers, Join(b) PROVE Numbers'
  BY <1>0, <1>a, <1>11, CreatedIsNew DEF Join, BusTypeOK, Holding
<1>12. ASSUME NEW b \in Browsers, OnOpen(b) PROVE Numbers'
  BY <1>0, <1>a, <1>12, CreatedIsNew DEF OnOpen, BusTypeOK, Holding
<1>13. ASSUME NEW b \in Browsers, Receive(b) PROVE Numbers'
  <2>1. CASE UNCHANGED queue
    BY <1>0, <1>13, <2>1 DEF Receive
  <2>2. CASE queue[b] # <<>> /\ queue' = [queue EXCEPT ![b] = Tail(@)]
    <3>1. queue[b] \in Seq(1 .. MaxWrites)
      BY <1>0 DEF BusTypeOK
    <3>2. \A i \in DOMAIN Tail(queue[b]) :
            i + 1 \in DOMAIN queue[b] /\ Tail(queue[b])[i] = queue[b][i + 1] /\ i \in Nat
      <4>1. \A i \in DOMAIN Tail(queue[b]) :
              i + 1 \in DOMAIN queue[b] /\ Tail(queue[b])[i] = queue[b][i + 1]
        BY <2>2, <3>1, TailProperties
      <4>2. Tail(queue[b]) \in Seq(1 .. MaxWrites)
        BY <2>2, <3>1, TailProperties
      <4>3. DOMAIN Tail(queue[b]) = 1 .. Len(Tail(queue[b]))
        BY <4>2
      <4>4. QED
        BY <4>1, <4>3
    <3>3. ASSUME NEW c \in Browsers, NEW i \in DOMAIN queue'[c]
          PROVE  \E k \in DOMAIN queue[c] :
                   queue'[c][i] = queue[c][k] /\ k = (IF c = b THEN i + 1 ELSE i)
      BY <1>0, <2>2, <3>2 DEF BusTypeOK
    <3>4. \A c \in Browsers : \A i \in DOMAIN queue'[c] : i \in Nat
      BY <1>0, <2>2, <3>2 DEF BusTypeOK
    <3>5. UNCHANGED <<seq, sendAt, sendTo, number, pageAt, stream>>
      BY <1>13 DEF Receive
    <3>6. NumbersGivenOut'
      BY <1>0, <3>3, <3>5
    <3>7. ASSUME NEW c \in Browsers
          PROVE  /\ \A i, j \in DOMAIN queue'[c] : queue'[c][i] = queue'[c][j] => i = j
                 /\ c \in Subscribed =>
                      \A t \in Senders : (sendAt[t] = "publish" /\ sendTo[t] = stream[c]) =>
                        \A i \in DOMAIN queue'[c] : queue'[c][i] # number[t]
      <4>1. ASSUME NEW i \in DOMAIN queue'[c], NEW j \in DOMAIN queue'[c],
                   queue'[c][i] = queue'[c][j]
            PROVE  i = j
        BY <1>0, <3>3, <3>4, <4>1
      <4>2. QED
        BY <1>0, <3>3, <4>1
    <3>8. QED
      BY <3>5, <3>6, <3>7
  <2>3. QED
    BY <1>13, <2>1, <2>2 DEF Receive
<1>14. ASSUME NEW b \in Browsers, StreamEnds(b) PROVE Numbers'
  BY <1>0, <1>a, <1>14, CreatedIsNew DEF StreamEnds, BusTypeOK, Holding
<1>15. ASSUME NEW b \in Browsers, Drop(b) PROVE Numbers'
  BY <1>0, <1>a, <1>15, CreatedIsNew DEF Drop, BusTypeOK, Holding
<1>16. CASE UNCHANGED busVars
  BY <1>0, <1>a, <1>16, CreatedIsNew DEF busVars, BusTypeOK, Holding
<1>17. QED
  BY <1>1, <1>2, <1>3, <1>4, <1>5, <1>6, <1>7, <1>8, <1>9,
     <1>10, <1>11, <1>12, <1>13, <1>14, <1>15, <1>16
     DEF BusNext, SendStep, PageStep

-----------------------------------------------------------------------------
(* A page that is behind will hear of it. *)

LEMMA NoSilentLossKept == BusInv /\ [BusNext]_busVars => NoSilentLoss'
<1> SUFFICES ASSUME BusInv, [BusNext]_busVars PROVE NoSilentLoss'
  OBVIOUS
<1>0. BusTypeOK /\ Holding /\ NoSilentLoss
  BY DEF BusInv, StreamsCanBeTrusted
<1> USE DEF mapVars, sendVars, pageVars, NoSilentLoss, Subscribed
<1>1. CASE EnsureLook
  BY <1>0, <1>1 DEF EnsureLook, BusTypeOK, Holding
<1>2. CASE EnsureCreate
  BY <1>0, <1>2, CreatedIsNew DEF EnsureCreate, BusTypeOK, Holding
<1>3. ASSUME NEW s \in Senders, NEW f \in BOOLEAN, Write(s, f) PROVE NoSilentLoss'
  BY <1>0, <1>3 DEF Write, BusTypeOK, Holding
<1>4. ASSUME NEW s \in Senders, LookUp(s) PROVE NoSilentLoss'
  BY <1>0, <1>4 DEF LookUp, BusTypeOK, Holding
<1>5. ASSUME NEW s \in Senders, CreateToSend(s) PROVE NoSilentLoss'
  BY <1>0, <1>5, CreatedIsNew DEF CreateToSend, BusTypeOK, Holding
<1>6. ASSUME NEW s \in Senders, TakeNumber(s) PROVE NoSilentLoss'
  BY <1>0, <1>6 DEF TakeNumber, BusTypeOK, Holding
<1>7. ASSUME NEW s \in Senders, Publish(s) PROVE NoSilentLoss'
  <2>1. SUFFICES ASSUME NEW b \in Browsers, pageAt[b] = "listen", view[b] < version,
                      queue'[b] = <<>>, ~lagged'[b], stream[b] = current
               PROVE  \E t \in Senders :
                        \/ sendAt'[t] \in {"check", "create"}
                        \/ sendAt'[t] \in {"number", "publish"} /\ sendTo'[t] = stream[b]
    BY <1>7 DEF Publish
  <2>2. number[s] \in 1 .. MaxWrites
    BY <1>0, <1>7 DEF Publish, BusInv, NumbersGivenOut, BusTypeOK, Holding
  <2>3. sendTo[s] # stream[b]
    <3>1. SUFFICES ASSUME sendTo[s] = stream[b] PROVE queue'[b] # <<>>
      BY <2>1
    <3>2. queue'[b] = Pushed(queue[b], number[s])
      BY <1>0, <1>7, <2>1, <3>1 DEF Publish
    <3>3. QED
      BY <1>0, <2>2, <3>2, PushedProperties DEF BusTypeOK
  <2>4. queue[b] = <<>> /\ ~lagged[b]
    BY <1>0, <1>7, <2>1, <2>3 DEF Publish, BusTypeOK
  <2>5. PICK t \in Senders :
          \/ sendAt[t] \in {"check", "create"}
          \/ sendAt[t] \in {"number", "publish"} /\ sendTo[t] = stream[b]
    BY <1>0, <2>1, <2>4
  <2>6. t # s
    BY <1>7, <2>3, <2>5 DEF Publish
  <2>7. QED
    BY <1>0, <1>7, <2>5, <2>6 DEF Publish, BusTypeOK
<1>8. ASSUME NEW s \in Senders, Cleanup(s) PROVE NoSilentLoss'
  BY <1>0, <1>8 DEF Cleanup, BusTypeOK, Holding
<1>9. ASSUME NEW b \in Browsers, Subscribe(b) PROVE NoSilentLoss'
  BY <1>0, <1>9 DEF Subscribe, BusTypeOK, Holding
<1>10. ASSUME NEW b \in Browsers, CreateToSubscribe(b) PROVE NoSilentLoss'
  BY <1>0, <1>10, CreatedIsNew DEF CreateToSubscribe, BusTypeOK, Holding
<1>11. ASSUME NEW b \in Browsers, Join(b) PROVE NoSilentLoss'
  BY <1>0, <1>11 DEF Join, BusTypeOK, Holding
<1>12. ASSUME NEW b \in Browsers, OnOpen(b) PROVE NoSilentLoss'
  BY <1>0, <1>12 DEF OnOpen, BusTypeOK, Holding
<1>13. ASSUME NEW b \in Browsers, Receive(b) PROVE NoSilentLoss'
  BY <1>0, <1>13 DEF Receive, BusTypeOK, Holding
<1>14. ASSUME NEW b \in Browsers, StreamEnds(b) PROVE NoSilentLoss'
  BY <1>0, <1>14 DEF StreamEnds, BusTypeOK, Holding
<1>15. ASSUME NEW b \in Browsers, Drop(b) PROVE NoSilentLoss'
  BY <1>0, <1>15 DEF Drop, BusTypeOK, Holding
<1>16. CASE UNCHANGED busVars
  BY <1>0, <1>16 DEF busVars, BusTypeOK, Holding
<1>17. QED
  BY <1>1, <1>2, <1>3, <1>4, <1>5, <1>6, <1>7, <1>8, <1>9,
     <1>10, <1>11, <1>12, <1>13, <1>14, <1>15, <1>16
     DEF BusNext, SendStep, PageStep

-----------------------------------------------------------------------------
LEMMA BusInvKept == BusInv /\ [BusNext]_busVars => BusInv'
BY BusTypeKept, HoldingKept, CountedKept, NumbersKept, NoSilentLossKept
   DEF BusInv, StreamsCanBeTrusted

LEMMA BusInvAlways == BusSpec => []BusInv
BY InitBusInv, BusInvKept, PTL DEF BusSpec

\* Every variable of the bus keeps its type: in particular no number is given
\* out that no write stands for, and no receiver of the channel (session.rs)
\* holds more than its capacity.
THEOREM BusTypeCorrect == BusSpec => []BusTypeOK
BY BusInvAlways, PTL DEF BusInv

\* No page gets an event twice, and none is left behind unheard, in
\* EventBus::send, subscribe, ensure_channel and cleanup with the pages
\* above them: whoever creates or removes the channel between two steps of the
\* others.
THEOREM StreamsTrusted == BusSpec => []StreamsCanBeTrusted
BY BusInvAlways, PTL DEF BusInv
=============================================================================
