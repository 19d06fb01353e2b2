-------------------------- MODULE KnowledgeProofs --------------------------
(***************************************************************************)
(* For any number of workers, documents, files, visits, polls and faults:  *)
(* the types of the knowledge corpus, that a document that is ready has    *)
(* its chunks once, and that a visit has at most one plan made from a      *)
(* document.                                                               *)
(***************************************************************************)
EXTENDS Knowledge, SequenceTheorems, TLAPS

\* A document nobody cut in on is processed by one worker, as long as it is
\* "processing" or was deleted under it; only an archive is extracted.
HeldOnce ==
  /\ \A w \in Workers : worker[w].doc # 0 /\ worker[w].doc \notin disturbed =>
       docs[worker[w].doc].status \in {"processing", "deleted"}
  /\ \A w, u \in Workers : worker[w].doc # 0 /\ worker[w].doc = worker[u].doc /\ w # u =>
       worker[w].doc \in disturbed
  /\ \A w \in Workers : worker[w].at = "extracted" => docs[worker[w].doc].zip

\* Until it is ready a document has no chunks, and between the two statements
\* of a reprocess, which nobody processes it meanwhile, it has none either.
ChunksSoFar ==
  \A n \in DOMAIN docs \ disturbed :
    /\ docs[n].status # "ready" => docs[n].chunks = 0
    /\ n \in resetting => docs[n].chunks = 0 /\ docs[n].status \in {"ready", "error", "deleted"}
    /\ docs[n].status = "ready" /\ n \notin resetting =>
         docs[n].chunks = IF docs[n].zip THEN 0 ELSE 1

\* A call for a plan is about a document that has none; a plan that was made
\* is remembered, or the answer that tells of it is on its way, or was lost.
PlansRemembered ==
  /\ \A v \in Visits : seed[v].at = "sent" => seed[v].doc \notin attempted[v]
  /\ \A v \in Visits, n \in Ids \ unheard :
       /\ plans[v][n] <= 1
       /\ plans[v][n] = 1 => n \in attempted[v] \/ (seed[v].at = "made" /\ seed[v].doc = n)

KnowledgeInv == KnowledgeTypeOK /\ HeldOnce /\ ChunksSoFar /\ PlansRemembered

-----------------------------------------------------------------------------
(* Types, those of the tables and those of the page.                       *)

CorpusTypes ==
  /\ docs \in Seq(Doc) /\ Len(docs) <= MaxDocs
  /\ worker \in [Workers -> {Free, Down} \cup [at : {"work", "extracted"}, doc : DOMAIN docs]]
  /\ resetting \subseteq DOMAIN docs
  /\ disturbed \cup dropped \cup unheard \subseteq DOMAIN docs

PageTypes ==
  /\ here \in 0 .. visits /\ visits \in 0 .. MaxVisits
  /\ tracking \in {0} \cup DOMAIN docs
  /\ tracking # 0 => here # 0
  /\ polls \in [Slots -> {NoPoll} \cup [visit : 1 .. visits, doc : DOMAIN docs, ready : BOOLEAN]]
  /\ attempted \in [Visits -> SUBSET DOMAIN docs]
  /\ seed \in [Visits -> {NoSeed} \cup [doc : DOMAIN docs, at : {"sent", "made", "refused"}]]
  /\ flow \in {"off", "sow", "done"}
  /\ plans \in [Visits -> [Ids -> Nat]]

LEMMA TypesSplit == KnowledgeTypeOK <=> CorpusTypes /\ PageTypes
BY DEF KnowledgeTypeOK, CorpusTypes, PageTypes

LEMMA DocFacts ==
  ASSUME CorpusTypes
  PROVE  /\ Len(docs) \in Nat /\ DOMAIN docs = 1 .. Len(docs) /\ DOMAIN docs \subseteq Ids
         /\ \A n \in DOMAIN docs : docs[n] \in Doc /\ n \in Nat /\ n # 0
<1>1. docs \in Seq(Doc) /\ Len(docs) <= MaxDocs
  BY DEF CorpusTypes
<1>2. Len(docs) \in Nat /\ DOMAIN docs = 1 .. Len(docs) /\ \A n \in DOMAIN docs : docs[n] \in Doc
  BY <1>1
<1>3. QED
  BY <1>1, <1>2, KnowledgeBounds DEF Ids

LEMMA WorkerFacts ==
  ASSUME CorpusTypes, NEW w \in Workers
  PROVE  /\ worker[w].doc \in DOMAIN docs \cup {0}
         /\ worker[w].at \in {"work", "extracted"} <=> worker[w].doc # 0
         /\ worker[w].doc # 0 <=> worker[w].doc \in DOMAIN docs
BY DocFacts DEF CorpusTypes, Free, Down

\* A sequence of documents of which some have changed.
LEMMA SameShape ==
  ASSUME NEW s \in Seq(Doc), NEW t, t = [n \in DOMAIN s |-> t[n]],
         \A n \in DOMAIN s : t[n] \in Doc
  PROVE  t \in Seq(Doc) /\ Len(t) = Len(s) /\ DOMAIN t = DOMAIN s
<1>1. DOMAIN s = 1 .. Len(s) /\ Len(s) \in Nat
  OBVIOUS
<1>2. DOMAIN t = 1 .. Len(s)
  BY <1>1
<1>3. t \in [1 .. Len(s) -> Doc]
  BY <1>1
<1>4. t \in Seq(Doc)
  BY <1>1, <1>3
<1>5. QED
  BY <1>1, <1>2, <1>4

\* What is left alone keeps its type when documents are added or changed.
LEMMA PageTypesKept ==
  ASSUME PageTypes, DOMAIN docs \subseteq DOMAIN docs', UNCHANGED <<pageVars, plans>>
  PROVE  PageTypes'
<1>1. /\ polls' \in [Slots -> {NoPoll} \cup [visit : 1 .. visits, doc : DOMAIN docs', ready : BOOLEAN]]
  BY DEF PageTypes, pageVars
<1>2. attempted' \in [Visits -> SUBSET DOMAIN docs']
  BY DEF PageTypes, pageVars
<1>3. seed' \in [Visits -> {NoSeed} \cup [doc : DOMAIN docs', at : {"sent", "made", "refused"}]]
  BY DEF PageTypes, pageVars
<1>4. QED
  BY <1>1, <1>2, <1>3 DEF PageTypes, pageVars

\* One document gets another status, and maybe other chunks.
LEMMA OneChanged ==
  ASSUME NEW s \in Seq(Doc), NEW n \in DOMAIN s, NEW t, NEW d \in Doc,
         t = [s EXCEPT ![n] = d]
  PROVE  /\ t \in Seq(Doc) /\ Len(t) = Len(s) /\ DOMAIN t = DOMAIN s
         /\ \A m \in DOMAIN s : t[m] = IF m = n THEN d ELSE s[m]
<1>1. \A m \in DOMAIN s : t[m] = IF m = n THEN d ELSE s[m]
  OBVIOUS
<1>2. \A m \in DOMAIN s : s[m] \in Doc
  OBVIOUS
<1>3. t = [m \in DOMAIN s |-> t[m]]
  OBVIOUS
<1>4. \A m \in DOMAIN s : t[m] \in Doc
  BY <1>1, <1>2
<1>5. QED
  BY <1>1, <1>3, <1>4, SameShape

-----------------------------------------------------------------------------
(* What the actions do to the documents. *)

\* Document n has status st and c chunks now; nothing else is new.
Changed(n, st, c) ==
  /\ docs' \in Seq(Doc) /\ Len(docs') = Len(docs) /\ DOMAIN docs' = DOMAIN docs
  /\ docs'[n].zip = docs[n].zip /\ docs'[n].status = st /\ docs'[n].chunks = c
  /\ \A m \in DOMAIN docs \ {n} : docs'[m] = docs[m]

\* Documents without chunks that wait for a worker are added.
Added ==
  /\ docs' \in Seq(Doc) /\ Len(docs') <= MaxDocs /\ DOMAIN docs \subseteq DOMAIN docs'
  /\ \A m \in DOMAIN docs : docs'[m] = docs[m]
  /\ \A m \in DOMAIN docs' \ DOMAIN docs : docs'[m].status = "pending" /\ docs'[m].chunks = 0

LEMMA ChangedBy ==
  ASSUME CorpusTypes, NEW n \in DOMAIN docs, NEW st \in Status, NEW c \in Nat,
         docs' = [docs EXCEPT ![n] = [@ EXCEPT !.status = st, !.chunks = c]]
  PROVE  Changed(n, st, c)
<1>1. docs \in Seq(Doc) /\ docs[n] \in Doc
  BY DocFacts DEF CorpusTypes
<1>2. PICK d : d = [docs[n] EXCEPT !.status = st, !.chunks = c]
  OBVIOUS
<1>3. d \in Doc /\ d.zip = docs[n].zip /\ d.status = st /\ d.chunks = c
  BY <1>1, <1>2 DEF Doc
<1>4. docs' = [docs EXCEPT ![n] = d]
  BY <1>2
<1>5. /\ docs' \in Seq(Doc) /\ Len(docs') = Len(docs) /\ DOMAIN docs' = DOMAIN docs
      /\ \A m \in DOMAIN docs : docs'[m] = IF m = n THEN d ELSE docs[m]
  BY <1>1, <1>3, <1>4, OneChanged
<1>6. QED
  BY <1>3, <1>5 DEF Changed

LEMMA NothingChanged ==
  ASSUME CorpusTypes, NEW n \in DOMAIN docs, docs' = docs
  PROVE  Changed(n, docs[n].status, docs[n].chunks)
BY DEF Changed, CorpusTypes

LEMMA StatusChanged ==
  ASSUME CorpusTypes, NEW n \in DOMAIN docs, NEW st \in Status,
         docs' = [docs EXCEPT ![n].status = st]
  PROVE  Changed(n, st, docs[n].chunks)
<1>1. docs[n] \in Doc
  BY DocFacts
<1>2. [docs[n] EXCEPT !.status = st] = [docs[n] EXCEPT !.status = st, !.chunks = docs[n].chunks]
  BY <1>1 DEF Doc
<1>3. docs[n].chunks \in Nat
  BY <1>1 DEF Doc
<1>4. docs' = [docs EXCEPT ![n] = [@ EXCEPT !.status = st, !.chunks = docs[n].chunks]]
  BY <1>2
<1>5. QED
  BY <1>3, <1>4, ChangedBy

LEMMA SetStatusEffect ==
  ASSUME CorpusTypes, NEW n \in DOMAIN docs, NEW st \in Status, SetStatus(n, st)
  PROVE  Changed(n, IF docs[n].status = "deleted" THEN "deleted" ELSE st, docs[n].chunks)
<1>1. CASE docs[n].status = "deleted"
  BY <1>1, NothingChanged DEF SetStatus
<1>2. CASE docs[n].status # "deleted"
  BY <1>2, StatusChanged DEF SetStatus
<1>3. QED
  BY <1>1, <1>2

LEMMA StoreChunksEffect ==
  ASSUME CorpusTypes, NEW w \in Workers, StoreChunks(w)
  PROVE  LET n == worker[w].doc
             gone == docs[n].status = "deleted"
         IN Changed(n, IF gone THEN "deleted" ELSE "ready",
                       IF gone THEN docs[n].chunks ELSE docs[n].chunks + 1)
<1> DEFINE n == worker[w].doc
<1>1. n \in DOMAIN docs
  BY WorkerFacts DEF StoreChunks
<1>2. CASE docs[n].status = "deleted"
  BY <1>1, <1>2, NothingChanged DEF StoreChunks
<1>3. CASE docs[n].status # "deleted"
  <2>1. docs[n].chunks + 1 \in Nat
    BY <1>1, DocFacts DEF Doc
  <2>2. docs' = [docs EXCEPT ![n] = [@ EXCEPT !.status = "ready", !.chunks = docs[n].chunks + 1]]
    BY <1>1, <1>3 DEF StoreChunks
  <2>3. QED
    BY <1>1, <1>3, <2>1, <2>2, ChangedBy DEF Status
<1>4. QED
  BY <1>2, <1>3

LEMMA DeleteChunksEffect ==
  ASSUME CorpusTypes, NEW n \in DOMAIN docs, DeleteChunks(n)
  PROVE  Changed(n, docs[n].status, 0)
<1>1. docs[n] \in Doc /\ docs[n].status \in Status
  BY DocFacts DEF Doc
<1>2. [docs[n] EXCEPT !.chunks = 0] = [docs[n] EXCEPT !.status = docs[n].status, !.chunks = 0]
  BY <1>1 DEF Doc
<1>3. docs' = [docs EXCEPT ![n] = [@ EXCEPT !.status = docs[n].status, !.chunks = 0]]
  BY <1>2 DEF DeleteChunks
<1>4. QED
  BY <1>1, <1>3, ChangedBy

LEMMA ResetStatusEffect ==
  ASSUME CorpusTypes, NEW n \in DOMAIN docs, ResetStatus(n)
  PROVE  Changed(n, IF docs[n].status \in {"ready", "error"} THEN "pending" ELSE docs[n].status,
                 docs[n].chunks)
<1>1. CASE docs[n].status \in {"ready", "error"}
  BY <1>1, StatusChanged DEF ResetStatus, Status
<1>2. CASE docs[n].status \notin {"ready", "error"}
  BY <1>2, NothingChanged DEF ResetStatus
<1>3. QED
  BY <1>1, <1>2

LEMMA StartWorkerEffect ==
  ASSUME CorpusTypes, NEW old \in SUBSET With({"processing"}),
         docs' = [n \in DOMAIN docs |-> IF n \in old THEN [docs[n] EXCEPT !.status = "pending"]
                                        ELSE docs[n]]
  PROVE  /\ docs' \in Seq(Doc) /\ Len(docs') = Len(docs) /\ DOMAIN docs' = DOMAIN docs
         /\ \A n \in DOMAIN docs : /\ docs'[n].zip = docs[n].zip
                                   /\ docs'[n].chunks = docs[n].chunks
                                   /\ n \in old => docs'[n].status = "pending"
                                   /\ n \notin old => docs'[n].status = docs[n].status
<1>1. \A n \in DOMAIN docs : docs[n] \in Doc
  BY DocFacts
<1>2. \A n \in DOMAIN docs : docs'[n] \in Doc
  BY <1>1 DEF Doc, Status
<1>3. docs' \in Seq(Doc) /\ Len(docs') = Len(docs) /\ DOMAIN docs' = DOMAIN docs
  BY <1>2, SameShape DEF CorpusTypes
<1>4. QED
  BY <1>1, <1>3 DEF Doc

LEMMA DeleteDocEffect ==
  ASSUME CorpusTypes, NEW n \in DOMAIN docs, DeleteDoc(n)
  PROVE  /\ docs' \in Seq(Doc) /\ Len(docs') = Len(docs) /\ DOMAIN docs' = DOMAIN docs
         /\ \A m \in DOMAIN docs :
              /\ docs'[m].zip = docs[m].zip
              /\ \/ docs'[m].status = "deleted" /\ docs'[m].chunks = 0
                 \/ docs'[m] = docs[m]
<1>1. \A m \in DOMAIN docs : docs[m] \in Doc
  BY DocFacts
<1>2. \A m \in DOMAIN docs : docs'[m] \in Doc
  BY <1>1 DEF Doc, Status, DeleteDoc
<1>3. docs' \in Seq(Doc) /\ Len(docs') = Len(docs) /\ DOMAIN docs' = DOMAIN docs
  BY <1>2, SameShape DEF CorpusTypes, DeleteDoc
<1>4. QED
  BY <1>1, <1>3 DEF Doc, DeleteDoc

LEMMA NewDocType ==
  ASSUME NEW z \in BOOLEAN, NEW p \in 0 .. MaxDocs
  PROVE  NewDoc(z, p) \in Doc
BY DEF NewDoc, Doc, Status

LEMMA ExtractZipEffect ==
  ASSUME CorpusTypes, NEW w \in Workers, ExtractZip(w)
  PROVE  Added
<1> DEFINE p == worker[w].doc
<1>1. p \in 0 .. MaxDocs
  BY WorkerFacts, DocFacts, KnowledgeBounds DEF ExtractZip, Ids
<1>2. PICK k \in 0 .. FilesIn : /\ Len(docs) + k <= MaxDocs
                               /\ docs' = docs \o [i \in 1 .. k |-> NewDoc(FALSE, p)]
  BY DEF ExtractZip
<1>3. k \in Nat
  BY KnowledgeBounds
<1>4. PICK q : q = [i \in 1 .. k |-> NewDoc(FALSE, p)]
  OBVIOUS
<1>5. q \in Seq(Doc) /\ Len(q) = k /\ DOMAIN q = 1 .. k
  <2>1. NewDoc(FALSE, p) \in Doc
    BY <1>1, NewDocType
  <2>2. q \in [1 .. k -> Doc]
    BY <1>4, <2>1
  <2>3. q \in Seq(Doc)
    BY <1>3, <2>2
  <2>4. QED
    BY <1>3, <2>2, <2>3
<1>6. \A i \in 1 .. k : q[i].status = "pending" /\ q[i].chunks = 0
  BY <1>4 DEF NewDoc
<1>7. docs \in Seq(Doc) /\ docs' = docs \o q
  BY <1>2, <1>4 DEF CorpusTypes
<1> HIDE DEF p
<1>8. /\ docs' \in Seq(Doc) /\ Len(docs') = Len(docs) + k
      /\ DOMAIN docs' = 1 .. Len(docs) + k /\ DOMAIN docs = 1 .. Len(docs) /\ Len(docs) \in Nat
  <2>1. Len(docs) \in Nat /\ DOMAIN docs = 1 .. Len(docs)
    BY <1>7
  <2>2. docs \o q \in Seq(Doc) /\ Len(docs \o q) = Len(docs) + Len(q)
    BY <1>5, <1>7, ConcatProperties
  <2>3. DOMAIN (docs \o q) = 1 .. Len(docs) + k
    BY <1>5, <2>1, <2>2
  <2>4. QED
    BY <1>5, <1>7, <2>1, <2>2, <2>3
<1>9. \A m \in 1 .. Len(docs) : docs'[m] = docs[m]
  BY <1>5, <1>7, <1>8
<1>10. \A m \in DOMAIN docs' \ DOMAIN docs : m - Len(docs) \in 1 .. k /\ docs'[m] = q[m - Len(docs)]
  BY <1>3, <1>5, <1>7, <1>8
<1>11. QED
  <2>1. DOMAIN docs \subseteq DOMAIN docs' /\ Len(docs') <= MaxDocs
    BY <1>2, <1>3, <1>8
  <2>2. \A m \in DOMAIN docs' \ DOMAIN docs : docs'[m].status = "pending" /\ docs'[m].chunks = 0
    BY <1>6, <1>10
  <2>3. QED
    BY <1>8, <1>9, <2>1, <2>2 DEF Added

LEMMA UploadEffect ==
  ASSUME CorpusTypes, Upload
  PROVE  Added /\ Len(docs') = Len(docs) + 1
<1>1. PICK z \in BOOLEAN : docs' = Append(docs, NewDoc(z, 0))
  BY DEF Upload
<1>2. NewDoc(z, 0) \in Doc /\ NewDoc(z, 0).status = "pending" /\ NewDoc(z, 0).chunks = 0
  BY NewDocType, KnowledgeBounds DEF NewDoc
<1>3. docs \in Seq(Doc) /\ Len(docs) < MaxDocs
  BY DEF CorpusTypes, Upload
<1>4. PICK d \in Doc : d = NewDoc(z, 0)
  BY <1>2
<1>5. docs' = Append(docs, d) /\ d.status = "pending" /\ d.chunks = 0
  BY <1>1, <1>2, <1>4
<1>6. /\ docs' \in Seq(Doc) /\ Len(docs') = Len(docs) + 1 /\ Len(docs) \in Nat
      /\ DOMAIN docs' = 1 .. Len(docs) + 1 /\ DOMAIN docs = 1 .. Len(docs)
      /\ \A m \in 1 .. Len(docs) : docs'[m] = docs[m]
      /\ docs'[Len(docs) + 1] = d
  BY <1>3, <1>5
<1>7. QED
  BY <1>3, <1>5, <1>6, KnowledgeBounds DEF Added

-----------------------------------------------------------------------------
(* Type correctness. *)

LEMMA InitKnowledgeInv == KnowledgeInit => KnowledgeInv
<1> SUFFICES ASSUME KnowledgeInit PROVE KnowledgeInv
  OBVIOUS
<1> USE KnowledgeBounds
<1>1. docs \in Seq(Doc) /\ Len(docs) = 0 /\ DOMAIN docs = {}
  BY DEF KnowledgeInit
<1>2. KnowledgeTypeOK
  BY <1>1 DEF KnowledgeInit, KnowledgeTypeOK
<1>3. HeldOnce
  BY DEF KnowledgeInit, HeldOnce, Free
<1>4. ChunksSoFar
  BY <1>1 DEF ChunksSoFar
<1>5. PlansRemembered
  BY DEF KnowledgeInit, PlansRemembered, NoSeed
<1>6. QED
  BY <1>2, <1>3, <1>4, <1>5 DEF KnowledgeInv

LEMMA TypesKept == KnowledgeInv /\ [KnowledgeNext]_vars => (CorpusTypes /\ PageTypes)'
<1> DEFINE Types == CorpusTypes /\ PageTypes
<1> SUFFICES ASSUME KnowledgeInv, [KnowledgeNext]_vars PROVE Types'
  OBVIOUS
<1>0. CorpusTypes /\ PageTypes
  BY TypesSplit DEF KnowledgeInv
<1> USE KnowledgeBounds DEF corpusVars, pageVars, ghostVars
<1>a. ASSUME CorpusTypes', DOMAIN docs \subseteq DOMAIN docs', UNCHANGED <<pageVars, plans>>
      PROVE  Types'
  BY <1>0, <1>a, PageTypesKept
<1>b. ASSUME PageTypes', UNCHANGED <<corpusVars, disturbed, dropped>>, unheard' \subseteq DOMAIN docs
      PROVE  Types'
  BY <1>0, <1>b DEF CorpusTypes
<1>1. ASSUME NEW w \in Workers, Claim(w) PROVE Types'
  <2>1. PICK n \in Claimable : /\ docs' = [docs EXCEPT ![n].status = "processing"]
                             /\ worker' = [worker EXCEPT ![w] = [at |-> "work", doc |-> n]]
    BY <1>1 DEF Claim
  <2>2. n \in DOMAIN docs
    BY DEF Claimable, With
  <2>3. Changed(n, "processing", docs[n].chunks)
    BY <1>0, <2>1, <2>2, StatusChanged DEF Status
  <2>4. CorpusTypes'
    BY <1>0, <1>1, <2>1, <2>2, <2>3 DEF Claim, CorpusTypes, Changed
  <2>5. QED
    BY <1>a, <1>1, <2>3, <2>4 DEF Claim, Changed
<1>2. ASSUME NEW w \in Workers, StoreChunks(w) PROVE Types'
  <2>1. worker[w].doc \in DOMAIN docs
    BY <1>0, <1>2, WorkerFacts DEF StoreChunks
  <2>2. \E st, c : Changed(worker[w].doc, st, c)
    BY <1>0, <1>2, StoreChunksEffect
  <2>3. CorpusTypes'
    BY <1>0, <1>2, <2>2 DEF StoreChunks, CorpusTypes, Changed
  <2>4. QED
    BY <1>a, <1>2, <2>2, <2>3 DEF StoreChunks, Changed
<1>3. ASSUME NEW w \in Workers, ExtractZip(w) PROVE Types'
  <2>1. Added
    BY <1>0, <1>3, ExtractZipEffect
  <2>2. worker[w] \in [at : {"work", "extracted"}, doc : DOMAIN docs]
    BY <1>0, <1>3 DEF ExtractZip, CorpusTypes, Free, Down
  <2>3. worker' \in [Workers -> {Free, Down} \cup [at : {"work", "extracted"}, doc : DOMAIN docs']]
    <3>1. [worker[w] EXCEPT !.at = "extracted"] \in [at : {"work", "extracted"}, doc : DOMAIN docs']
      BY <2>1, <2>2 DEF Added
    <3>2. QED
      BY <1>0, <1>3, <2>1, <3>1 DEF ExtractZip, CorpusTypes, Added
  <2>4. CorpusTypes'
    BY <1>0, <1>3, <2>1, <2>3 DEF ExtractZip, CorpusTypes, Added
  <2>5. QED
    BY <1>a, <1>3, <2>1, <2>4 DEF ExtractZip, Added
<1>4. ASSUME NEW w \in Workers, MarkZipReady(w) PROVE Types'
  <2>1. worker[w].doc \in DOMAIN docs
    BY <1>0, <1>4, WorkerFacts DEF MarkZipReady
  <2>2. \E st, c : Changed(worker[w].doc, st, c)
    BY <1>0, <1>4, <2>1, SetStatusEffect DEF MarkZipReady, Status
  <2>3. CorpusTypes'
    BY <1>0, <1>4, <2>2 DEF MarkZipReady, CorpusTypes, Changed
  <2>4. QED
    BY <1>a, <1>4, <2>2, <2>3 DEF MarkZipReady, Changed
<1>5. ASSUME NEW w \in Workers, WorkFails(w) PROVE Types'
  <2>1. worker[w].doc \in DOMAIN docs
    BY <1>0, <1>5, WorkerFacts DEF WorkFails
  <2>2. \E st, c : Changed(worker[w].doc, st, c)
    BY <1>0, <1>5, <2>1, SetStatusEffect DEF WorkFails, Status
  <2>3. CorpusTypes'
    BY <1>0, <1>5, <2>2 DEF WorkFails, CorpusTypes, Changed
  <2>4. QED
    BY <1>a, <1>5, <2>2, <2>3 DEF WorkFails, Changed
<1>6. ASSUME NEW w \in Workers, LoseWork(w) PROVE Types'
  <2>1. worker[w].doc \in DOMAIN docs
    BY <1>0, <1>6, WorkerFacts DEF LoseWork
  <2>2. CorpusTypes'
    BY <1>0, <1>6, <2>1 DEF LoseWork, CorpusTypes
  <2>3. QED
    BY <1>a, <1>6, <2>2 DEF LoseWork
<1>7. ASSUME NEW w \in Workers, StartWorker(w) PROVE Types'
  <2>1. PICK old \in SUBSET With({"processing"}) :
          /\ docs' = [n \in DOMAIN docs |-> IF n \in old THEN [docs[n] EXCEPT !.status = "pending"]
                                          ELSE docs[n]]
          /\ dropped' = dropped \ old
          /\ disturbed' = disturbed \cup {n \in old : HeldBy(n) # {}}
    BY <1>7 DEF StartWorker
  <2>2. docs' \in Seq(Doc) /\ Len(docs') = Len(docs) /\ DOMAIN docs' = DOMAIN docs
    BY <1>0, <2>1, StartWorkerEffect
  <2>3. old \subseteq DOMAIN docs
    BY DEF With
  <2>4. CorpusTypes'
    BY <1>0, <1>7, <2>1, <2>2, <2>3 DEF StartWorker, CorpusTypes
  <2>5. QED
    BY <1>a, <1>7, <2>2, <2>4 DEF StartWorker
<1>8. ASSUME NEW n \in DOMAIN docs, DeleteDoc(n) PROVE Types'
  <2>1. docs' \in Seq(Doc) /\ Len(docs') = Len(docs) /\ DOMAIN docs' = DOMAIN docs
    BY <1>0, <1>8, DeleteDocEffect
  <2>2. CorpusTypes'
    BY <1>0, <1>8, <2>1 DEF DeleteDoc, CorpusTypes
  <2>3. QED
    BY <1>a, <1>8, <2>1, <2>2 DEF DeleteDoc
<1>9. ASSUME NEW n \in DOMAIN docs, DeleteChunks(n) PROVE Types'
  <2>1. \E st, c : Changed(n, st, c)
    BY <1>0, <1>9, DeleteChunksEffect
  <2>2. CorpusTypes'
    BY <1>0, <1>9, <2>1 DEF DeleteChunks, CorpusTypes, Changed
  <2>3. QED
    BY <1>a, <1>9, <2>1, <2>2 DEF DeleteChunks, Changed
<1>10. ASSUME NEW n \in DOMAIN docs, ResetStatus(n) PROVE Types'
  <2>1. \E st, c : Changed(n, st, c)
    BY <1>0, <1>10, ResetStatusEffect
  <2>2. CorpusTypes'
    BY <1>0, <1>10, <2>1 DEF ResetStatus, CorpusTypes, Changed
  <2>3. QED
    BY <1>a, <1>10, <2>1, <2>2 DEF ResetStatus, Changed
<1>11. ASSUME NEW n \in DOMAIN docs, ReprocessCut(n) PROVE Types'
  <2>1. CorpusTypes'
    BY <1>0, <1>11 DEF ReprocessCut, CorpusTypes
  <2>2. QED
    BY <1>a, <1>11, <2>1 DEF ReprocessCut
<1>12. CASE Visit
  <2>1. visits' \in 0 .. MaxVisits /\ here' \in 0 .. visits' /\ 1 .. visits \subseteq 1 .. visits'
    BY <1>0, <1>12 DEF Visit, PageTypes
  <2>2. PageTypes'
    BY <1>0, <1>12, <2>1 DEF Visit, PageTypes
  <2>3. QED
    BY <1>0, <1>b, <1>12, <2>2 DEF Visit, CorpusTypes
<1>13. CASE Leave
  <2>1. PageTypes'
    BY <1>0, <1>13 DEF Leave, Unmount, PageTypes
  <2>2. QED
    BY <1>0, <1>b, <1>13, <2>1 DEF Leave, CorpusTypes
<1>14. CASE Upload
  <2>1. Added /\ Len(docs') = Len(docs) + 1
    BY <1>0, <1>14, UploadEffect
  <2>2. CorpusTypes'
    BY <1>0, <1>14, <2>1 DEF Upload, CorpusTypes, Added
  <2>3. tracking' \in DOMAIN docs' /\ DOMAIN docs \subseteq DOMAIN docs'
    BY <1>0, <1>14, <2>1, <2>2, DocFacts DEF Upload, CorpusTypes, Added
  <2>4. PageTypes'
    BY <1>0, <1>14, <2>3 DEF Upload, PageTypes
  <2>5. QED
    BY <2>2, <2>4
<1>15. CASE SeedNewest
  <2>1. PICK n \in With({"ready"}) : TrySeed(here, n)
    BY <1>15 DEF SeedNewest
  <2>2. here \in Visits /\ n \in DOMAIN docs
    BY <1>0, <1>15 DEF SeedNewest, PageTypes, Visits, With
  <2>3. seed' \in [Visits -> {NoSeed} \cup [doc : DOMAIN docs, at : {"sent", "made", "refused"}]]
    BY <1>0, <2>1, <2>2 DEF TrySeed, PageTypes
  <2>4. PageTypes'
    BY <1>0, <1>15, <2>3 DEF SeedNewest, PageTypes
  <2>5. QED
    BY <1>0, <1>b, <1>15, <2>4 DEF SeedNewest, CorpusTypes
<1>16. ASSUME NEW s \in Slots, Poll(s) PROVE Types'
  <2>1. here \in 1 .. visits /\ tracking \in DOMAIN docs
    BY <1>0, <1>16 DEF Poll, PageTypes
  <2>2. [visit |-> here, doc |-> tracking, ready |-> docs[tracking].status = "ready"]
          \in [visit : 1 .. visits, doc : DOMAIN docs, ready : BOOLEAN]
    BY <2>1
  <2>3. PageTypes'
    BY <1>0, <1>16, <2>2 DEF Poll, PageTypes
  <2>4. QED
    BY <1>0, <1>b, <1>16, <2>3 DEF Poll, CorpusTypes
<1>17. ASSUME NEW s \in Slots, PollAnswered(s) PROVE Types'
  <2>1. polls[s] \in [visit : 1 .. visits, doc : DOMAIN docs, ready : BOOLEAN]
    BY <1>0, <1>17 DEF PollAnswered, PageTypes
  <2>2. polls[s].visit \in Visits
    BY <1>0, <2>1 DEF PageTypes, Visits
  <2>3. seed' \in [Visits -> {NoSeed} \cup [doc : DOMAIN docs, at : {"sent", "made", "refused"}]]
    BY <1>0, <1>17, <2>1, <2>2 DEF PollAnswered, TrySeed, PageTypes
  <2>4. PageTypes'
    BY <1>0, <1>17, <2>3 DEF PollAnswered, PageTypes
  <2>5. QED
    BY <1>0, <1>b, <1>17, <2>4 DEF PollAnswered, CorpusTypes
<1>18. ASSUME NEW v \in Visits, ServeSeed(v) PROVE Types'
  <2>1. seed[v] \in [doc : DOMAIN docs, at : {"sent", "made", "refused"}]
    BY <1>0, <1>18 DEF ServeSeed, PageTypes, NoSeed
  <2>2. seed[v].doc \in Ids
    BY <1>0, <2>1, DocFacts
  <2>3. plans' \in [Visits -> [Ids -> Nat]]
    <3>1. CASE docs[seed[v].doc].status = "ready"
      <4>1. plans[v] \in [Ids -> Nat] /\ plans[v][seed[v].doc] + 1 \in Nat
        BY <1>0, <2>2 DEF PageTypes
      <4>2. [plans[v] EXCEPT ![seed[v].doc] = @ + 1] \in [Ids -> Nat]
        BY <2>2, <4>1
      <4>3. plans' = [plans EXCEPT ![v] = [plans[v] EXCEPT ![seed[v].doc] = @ + 1]]
        BY <1>18, <3>1 DEF ServeSeed
      <4>4. QED
        BY <1>0, <4>2, <4>3 DEF PageTypes
    <3>2. CASE docs[seed[v].doc].status # "ready"
      BY <1>0, <1>18, <3>2 DEF ServeSeed, PageTypes
    <3>3. QED
      BY <3>1, <3>2
  <2>4. seed' \in [Visits -> {NoSeed} \cup [doc : DOMAIN docs, at : {"sent", "made", "refused"}]]
    BY <1>0, <1>18, <2>1 DEF ServeSeed, PageTypes
  <2>5. PageTypes'
    BY <1>0, <1>18, <2>3, <2>4 DEF ServeSeed, PageTypes
  <2>6. QED
    BY <1>0, <1>b, <1>18, <2>5 DEF ServeSeed, CorpusTypes
<1>19. ASSUME NEW v \in Visits, SeedAnswered(v) PROVE Types'
  <2>1. seed[v].doc \in DOMAIN docs
    BY <1>0, <1>19 DEF SeedAnswered, PageTypes, NoSeed
  <2>2. PageTypes'
    BY <1>0, <1>19, <2>1 DEF SeedAnswered, MoveOn, Unmount, PageTypes
  <2>3. QED
    BY <1>0, <1>b, <1>19, <2>1, <2>2 DEF SeedAnswered, CorpusTypes
<1>20. ASSUME NEW v \in Visits, SeedFails(v) PROVE Types'
  <2>1. seed[v].doc \in DOMAIN docs
    BY <1>0, <1>20 DEF SeedFails, PageTypes, NoSeed
  <2>2. PageTypes'
    BY <1>0, <1>20, <2>1 DEF SeedFails, MoveOn, Unmount, PageTypes
  <2>3. QED
    BY <1>0, <1>b, <1>20, <2>1, <2>2 DEF SeedFails, CorpusTypes
<1>21. CASE UNCHANGED vars
  BY <1>0, <1>21 DEF vars, CorpusTypes, PageTypes
<1>22. QED
  BY <1>1, <1>2, <1>3, <1>4, <1>5, <1>6, <1>7, <1>8, <1>9, <1>10,
     <1>11, <1>12, <1>13, <1>14, <1>15, <1>16, <1>17, <1>18, <1>19, <1>20, <1>21
     DEF KnowledgeNext

-----------------------------------------------------------------------------
(* The chunks of a document.  HeldOnce and ChunksSoFar need each other: who   *)
(* stores chunks finds none because the document was processing, and it still *)
(* was because nobody else has it.                                            *)

CorpusInv == HeldOnce /\ ChunksSoFar

LEMMA DocumentsHeld ==
  ASSUME CorpusTypes
  PROVE  /\ \A w \in Workers : worker[w].doc # 0 => worker[w].doc \in DOMAIN docs
         /\ \A w \in Workers : worker[w].at = "extracted" => worker[w].doc # 0
BY WorkerFacts

LEMMA CorpusKept == KnowledgeInv /\ [KnowledgeNext]_vars => CorpusInv'
<1> SUFFICES ASSUME KnowledgeInv, [KnowledgeNext]_vars PROVE CorpusInv'
  OBVIOUS
<1>0. CorpusTypes /\ HeldOnce /\ ChunksSoFar
  BY TypesSplit DEF KnowledgeInv
<1>h. /\ \A w \in Workers : worker[w].doc # 0 => worker[w].doc \in DOMAIN docs
      /\ \A w \in Workers : worker[w].at = "extracted" => worker[w].doc # 0
      /\ 0 \notin DOMAIN docs
  BY <1>0, DocumentsHeld, DocFacts
<1>s. ASSUME UNCHANGED <<docs, worker, resetting, disturbed>> PROVE CorpusInv'
  BY <1>0, <1>s DEF CorpusInv, HeldOnce, ChunksSoFar
<1> USE DEF corpusVars, ghostVars
<1>1. ASSUME NEW w \in Workers, Claim(w) PROVE CorpusInv'
  <2>1. PICK n \in Claimable : /\ docs' = [docs EXCEPT ![n].status = "processing"]
                             /\ worker' = [worker EXCEPT ![w] = [at |-> "work", doc |-> n]]
    BY <1>1 DEF Claim
  <2>2. n \in DOMAIN docs /\ docs[n].status = "pending"
    BY DEF Claimable, With
  <2>3. Changed(n, "processing", docs[n].chunks)
    BY <1>0, <2>1, <2>2, StatusChanged DEF Status
  <2>4. /\ worker'[w].doc = n /\ worker'[w].at = "work"
        /\ \A u \in Workers \ {w} : worker'[u] = worker[u]
    BY <1>0, <2>1 DEF CorpusTypes
  <2>h. HeldOnce'
    BY <1>0, <1>h, <1>1, <2>2, <2>3, <2>4 DEF HeldOnce, Changed, Claim
  <2>c. ChunksSoFar'
    BY <1>0, <1>h, <1>1, <2>2, <2>3, <2>4 DEF HeldOnce, ChunksSoFar, Changed, Claim
  <2>q. QED
    BY <2>h, <2>c DEF CorpusInv
<1>2. ASSUME NEW w \in Workers, StoreChunks(w) PROVE CorpusInv'
  <2>1. worker[w].doc \in DOMAIN docs
    BY <1>0, <1>2, WorkerFacts DEF StoreChunks
  <2>2. Changed(worker[w].doc, IF docs[worker[w].doc].status = "deleted" THEN "deleted" ELSE "ready",
                 IF docs[worker[w].doc].status = "deleted" THEN docs[worker[w].doc].chunks
                 ELSE docs[worker[w].doc].chunks + 1)
    BY <1>0, <1>2, StoreChunksEffect
  <2>3. worker'[w] = Free /\ \A u \in Workers \ {w} : worker'[u] = worker[u]
    BY <1>0, <1>2 DEF StoreChunks, CorpusTypes
  <2>h. HeldOnce'
    BY <1>0, <1>h, <1>2, <2>1, <2>2, <2>3 DEF HeldOnce, Changed, StoreChunks, Free
  <2>c. ChunksSoFar'
    BY <1>0, <1>h, <1>2, <2>1, <2>2, <2>3 DEF HeldOnce, ChunksSoFar, Changed, StoreChunks, Free
  <2>q. QED
    BY <2>h, <2>c DEF CorpusInv
<1>3. ASSUME NEW w \in Workers, ExtractZip(w) PROVE CorpusInv'
  <2>1. Added
    BY <1>0, <1>3, ExtractZipEffect
  <2>2. /\ worker'[w].doc = worker[w].doc /\ docs[worker[w].doc].zip
        /\ \A u \in Workers \ {w} : worker'[u] = worker[u]
    BY <1>0, <1>3 DEF ExtractZip, CorpusTypes, Free, Down
  <2>3. resetting \subseteq DOMAIN docs /\ worker[w].doc # 0
    BY <1>0, <1>3, WorkerFacts DEF ExtractZip, CorpusTypes
  <2>4. UNCHANGED <<resetting, disturbed>>
    BY <1>3 DEF ExtractZip
  <2>h. HeldOnce'
    BY <1>0, <1>h, <2>1, <2>2, <2>3, <2>4 DEF HeldOnce, Added
  <2>c. ChunksSoFar'
    BY <1>0, <1>h, <2>1, <2>2, <2>3, <2>4 DEF HeldOnce, ChunksSoFar, Added
  <2>q. QED
    BY <2>h, <2>c DEF CorpusInv
<1>4. ASSUME NEW w \in Workers, MarkZipReady(w) PROVE CorpusInv'
  <2>1. worker[w].doc \in DOMAIN docs
    BY <1>0, <1>4, WorkerFacts DEF MarkZipReady
  <2>2. Changed(worker[w].doc, IF docs[worker[w].doc].status = "deleted" THEN "deleted" ELSE "ready",
                 docs[worker[w].doc].chunks)
    BY <1>0, <1>4, <2>1, SetStatusEffect DEF MarkZipReady, Status
  <2>3. worker'[w] = Free /\ \A u \in Workers \ {w} : worker'[u] = worker[u]
    BY <1>0, <1>4 DEF MarkZipReady, CorpusTypes
  <2>h. HeldOnce'
    BY <1>0, <1>h, <1>4, <2>1, <2>2, <2>3 DEF HeldOnce, Changed, MarkZipReady, Free
  <2>c. ChunksSoFar'
    BY <1>0, <1>h, <1>4, <2>1, <2>2, <2>3 DEF HeldOnce, ChunksSoFar, Changed, MarkZipReady, Free
  <2>q. QED
    BY <2>h, <2>c DEF CorpusInv
<1>5. ASSUME NEW w \in Workers, WorkFails(w) PROVE CorpusInv'
  <2>1. worker[w].doc \in DOMAIN docs
    BY <1>0, <1>5, WorkerFacts DEF WorkFails
  <2>2. Changed(worker[w].doc, IF docs[worker[w].doc].status = "deleted" THEN "deleted" ELSE "error",
                 docs[worker[w].doc].chunks)
    BY <1>0, <1>5, <2>1, SetStatusEffect DEF WorkFails, Status
  <2>3. worker'[w] = Free /\ \A u \in Workers \ {w} : worker'[u] = worker[u]
    BY <1>0, <1>5 DEF WorkFails, CorpusTypes
  <2>h. HeldOnce'
    BY <1>0, <1>h, <1>5, <2>1, <2>2, <2>3 DEF HeldOnce, Changed, WorkFails, Free
  <2>c. ChunksSoFar'
    BY <1>0, <1>h, <1>5, <2>1, <2>2, <2>3 DEF HeldOnce, ChunksSoFar, Changed, WorkFails, Free
  <2>q. QED
    BY <2>h, <2>c DEF CorpusInv
<1>6. ASSUME NEW w \in Workers, LoseWork(w) PROVE CorpusInv'
  <2>1. (worker'[w] = Free \/ worker'[w] = Down) /\ \A u \in Workers \ {w} : worker'[u] = worker[u]
    BY <1>0, <1>6 DEF LoseWork, CorpusTypes
  <2>h. HeldOnce'
    BY <1>0, <1>h, <1>6, <2>1 DEF HeldOnce, LoseWork, Free, Down
  <2>c. ChunksSoFar'
    BY <1>0, <1>h, <1>6, <2>1 DEF HeldOnce, ChunksSoFar, LoseWork, Free, Down
  <2>q. QED
    BY <2>h, <2>c DEF CorpusInv
<1>7. ASSUME NEW w \in Workers, StartWorker(w) PROVE CorpusInv'
  <2>1. PICK old \in SUBSET With({"processing"}) :
          /\ docs' = [n \in DOMAIN docs |-> IF n \in old THEN [docs[n] EXCEPT !.status = "pending"]
                                          ELSE docs[n]]
          /\ disturbed' = disturbed \cup {n \in old : HeldBy(n) # {}}
    BY <1>7 DEF StartWorker
  <2>2. /\ DOMAIN docs' = DOMAIN docs
        /\ \A n \in DOMAIN docs : /\ docs'[n].zip = docs[n].zip
                                  /\ docs'[n].chunks = docs[n].chunks
                                  /\ n \in old => docs'[n].status = "pending"
                                  /\ n \notin old => docs'[n].status = docs[n].status
    BY <1>0, <2>1, StartWorkerEffect
  <2>3. \A n \in old : docs[n].status = "processing"
    BY DEF With
  <2>4. worker'[w] = Free /\ \A u \in Workers \ {w} : worker'[u] = worker[u]
    BY <1>0, <1>7 DEF StartWorker, CorpusTypes
  <2>5. \A u \in Workers : worker[u].doc \in old => worker[u].doc \in disturbed'
    BY <2>1 DEF HeldBy
  <2>h. HeldOnce'
    BY <1>0, <1>h, <1>7, <2>1, <2>2, <2>3, <2>4, <2>5 DEF HeldOnce, StartWorker, Free
  <2>c. ChunksSoFar'
    BY <1>0, <1>h, <1>7, <2>1, <2>2, <2>3, <2>4, <2>5 DEF HeldOnce, ChunksSoFar, StartWorker, Free
  <2>q. QED
    BY <2>h, <2>c DEF CorpusInv
<1>8. ASSUME NEW n \in DOMAIN docs, DeleteDoc(n) PROVE CorpusInv'
  <2>1. /\ DOMAIN docs' = DOMAIN docs
        /\ \A m \in DOMAIN docs : /\ docs'[m].zip = docs[m].zip
                                  /\ \/ docs'[m].status = "deleted" /\ docs'[m].chunks = 0
                                     \/ docs'[m] = docs[m]
    BY <1>0, <1>8, DeleteDocEffect
  <2>2. UNCHANGED <<worker, resetting, disturbed>>
    BY <1>8 DEF DeleteDoc
  <2>h. HeldOnce'
    BY <1>0, <1>h, <2>1, <2>2 DEF HeldOnce
  <2>c. ChunksSoFar'
    BY <1>0, <1>h, <2>1, <2>2 DEF HeldOnce, ChunksSoFar
  <2>q. QED
    BY <2>h, <2>c DEF CorpusInv
<1>9. ASSUME NEW n \in DOMAIN docs, DeleteChunks(n) PROVE CorpusInv'
  <2>1. Changed(n, docs[n].status, 0)
    BY <1>0, <1>9, DeleteChunksEffect
  <2>2. docs[n].status \in Status
    BY <1>0, DocFacts DEF Doc
  <2>h. HeldOnce'
    BY <1>0, <1>h, <1>9, <2>1, <2>2 DEF HeldOnce, Changed, Status, DeleteChunks
  <2>c. ChunksSoFar'
    BY <1>0, <1>h, <1>9, <2>1, <2>2 DEF HeldOnce, ChunksSoFar, Changed, Status, DeleteChunks
  <2>q. QED
    BY <2>h, <2>c DEF CorpusInv
<1>10. ASSUME NEW n \in DOMAIN docs, ResetStatus(n) PROVE CorpusInv'
  <2>1. Changed(n, IF docs[n].status \in {"ready", "error"} THEN "pending" ELSE docs[n].status,
                docs[n].chunks)
    BY <1>0, <1>10, ResetStatusEffect
  <2>2. docs[n].status \in Status
    BY <1>0, DocFacts DEF Doc
  <2>h. HeldOnce'
    BY <1>0, <1>h, <1>10, <2>1, <2>2 DEF HeldOnce, Changed, Status, ResetStatus
  <2>c. ChunksSoFar'
    BY <1>0, <1>h, <1>10, <2>1, <2>2 DEF HeldOnce, ChunksSoFar, Changed, Status, ResetStatus
  <2>q. QED
    BY <2>h, <2>c DEF CorpusInv
<1>11. ASSUME NEW n \in DOMAIN docs, ReprocessCut(n) PROVE CorpusInv'
  <2>h. HeldOnce'
    BY <1>0, <1>h, <1>11, <1>0 DEF HeldOnce, ReprocessCut
  <2>c. ChunksSoFar'
    BY <1>0, <1>h, <1>11, <1>0 DEF HeldOnce, ChunksSoFar, ReprocessCut
  <2>q. QED
    BY <2>h, <2>c DEF CorpusInv
<1>12. CASE Visit
  BY <1>s, <1>12 DEF Visit
<1>13. CASE Leave
  BY <1>s, <1>13 DEF Leave
<1>14. CASE Upload
  <2>1. Added
    BY <1>0, <1>14, UploadEffect
  <2>2. resetting \subseteq DOMAIN docs
    BY <1>0 DEF CorpusTypes
  <2>h. HeldOnce'
    BY <1>0, <1>h, <1>14, <2>1, <2>2 DEF HeldOnce, Added, Upload
  <2>c. ChunksSoFar'
    BY <1>0, <1>h, <1>14, <2>1, <2>2 DEF HeldOnce, ChunksSoFar, Added, Upload
  <2>q. QED
    BY <2>h, <2>c DEF CorpusInv
<1>15. CASE SeedNewest
  BY <1>s, <1>15 DEF SeedNewest
<1>16. ASSUME NEW s \in Slots, Poll(s) PROVE CorpusInv'
  BY <1>s, <1>16 DEF Poll
<1>17. ASSUME NEW s \in Slots, PollAnswered(s) PROVE CorpusInv'
  BY <1>s, <1>17 DEF PollAnswered
<1>18. ASSUME NEW v \in Visits, ServeSeed(v) PROVE CorpusInv'
  BY <1>s, <1>18 DEF ServeSeed
<1>19. ASSUME NEW v \in Visits, SeedAnswered(v) PROVE CorpusInv'
  BY <1>s, <1>19 DEF SeedAnswered
<1>20. ASSUME NEW v \in Visits, SeedFails(v) PROVE CorpusInv'
  BY <1>s, <1>20 DEF SeedFails
<1>21. CASE UNCHANGED vars
  BY <1>s, <1>21 DEF vars
<1>22. QED
  BY <1>1, <1>2, <1>3, <1>4, <1>5, <1>6, <1>7, <1>8, <1>9, <1>10,
     <1>11, <1>12, <1>13, <1>14, <1>15, <1>16, <1>17, <1>18, <1>19, <1>20, <1>21
     DEF KnowledgeNext

-----------------------------------------------------------------------------
(* The plans of a visit.  Only the steps of a call for a plan matter.        *)

LEMMA PlansKept == KnowledgeInv /\ [KnowledgeNext]_vars => PlansRemembered'
<1> SUFFICES ASSUME KnowledgeInv, [KnowledgeNext]_vars PROVE PlansRemembered'
  OBVIOUS
<1>0. CorpusTypes /\ PageTypes /\ PlansRemembered
  BY TypesSplit DEF KnowledgeInv
<1>s. ASSUME UNCHANGED <<attempted, seed, plans, unheard>> PROVE PlansRemembered'
  BY <1>0, <1>s DEF PlansRemembered
<1>t. ASSUME NEW v \in Visits, NEW n, TrySeed(v, n), UNCHANGED <<attempted, plans, unheard>>
      PROVE  PlansRemembered'
  BY <1>0, <1>t DEF PlansRemembered, TrySeed, PageTypes, NoSeed
<1> USE KnowledgeBounds DEF pageVars, ghostVars
<1>1. ASSUME NEW w \in Workers, Claim(w) PROVE PlansRemembered'
  BY <1>s, <1>1 DEF Claim
<1>2. ASSUME NEW w \in Workers, StoreChunks(w) PROVE PlansRemembered'
  BY <1>s, <1>2 DEF StoreChunks
<1>3. ASSUME NEW w \in Workers, ExtractZip(w) PROVE PlansRemembered'
  BY <1>s, <1>3 DEF ExtractZip
<1>4. ASSUME NEW w \in Workers, MarkZipReady(w) PROVE PlansRemembered'
  BY <1>s, <1>4 DEF MarkZipReady
<1>5. ASSUME NEW w \in Workers, WorkFails(w) PROVE PlansRemembered'
  BY <1>s, <1>5 DEF WorkFails
<1>6. ASSUME NEW w \in Workers, LoseWork(w) PROVE PlansRemembered'
  BY <1>s, <1>6 DEF LoseWork
<1>7. ASSUME NEW w \in Workers, StartWorker(w) PROVE PlansRemembered'
  BY <1>s, <1>7 DEF StartWorker
<1>8. ASSUME NEW n \in DOMAIN docs, DeleteDoc(n) PROVE PlansRemembered'
  BY <1>s, <1>8 DEF DeleteDoc
<1>9. ASSUME NEW n \in DOMAIN docs, DeleteChunks(n) PROVE PlansRemembered'
  BY <1>s, <1>9 DEF DeleteChunks
<1>10. ASSUME NEW n \in DOMAIN docs, ResetStatus(n) PROVE PlansRemembered'
  BY <1>s, <1>10 DEF ResetStatus
<1>11. ASSUME NEW n \in DOMAIN docs, ReprocessCut(n) PROVE PlansRemembered'
  BY <1>s, <1>11 DEF ReprocessCut
<1>12. CASE Visit
  BY <1>s, <1>12 DEF Visit
<1>13. CASE Leave
  BY <1>s, <1>13 DEF Leave
<1>14. CASE Upload
  BY <1>s, <1>14 DEF Upload
<1>15. CASE SeedNewest
  <2>1. PICK n \in With({"ready"}) : TrySeed(here, n)
    BY <1>15 DEF SeedNewest
  <2>2. here \in Visits
    BY <1>0, <1>15 DEF SeedNewest, PageTypes, Visits
  <2>3. QED
    BY <1>t, <1>15, <2>1, <2>2 DEF SeedNewest
<1>16. ASSUME NEW s \in Slots, Poll(s) PROVE PlansRemembered'
  BY <1>s, <1>16 DEF Poll
<1>17. ASSUME NEW s \in Slots, PollAnswered(s) PROVE PlansRemembered'
  <2>1. polls[s].visit \in Visits
    BY <1>0, <1>17 DEF PollAnswered, PageTypes, Visits
  <2>2. QED
    BY <1>s, <1>t, <1>17, <2>1 DEF PollAnswered
<1>18. ASSUME NEW v \in Visits, ServeSeed(v) PROVE PlansRemembered'
  <2>1. seed[v].doc \in Ids /\ seed[v].doc \notin attempted[v] /\ seed[v].at = "sent"
    BY <1>0, <1>18, DocFacts DEF ServeSeed, PageTypes, NoSeed, PlansRemembered
  <2>2. /\ seed'[v].doc = seed[v].doc /\ seed'[v].at # "sent"
        /\ \A u \in Visits \ {v} : seed'[u] = seed[u]
    BY <1>0, <1>18 DEF ServeSeed, PageTypes, NoSeed
  <2>3. \A n \in Ids \ unheard : /\ plans[v][n] \in Nat /\ plans[v][n] <= 1
                                 /\ (plans[v][n] = 1 => n \in attempted[v])
    BY <1>0, <2>1 DEF PlansRemembered, PageTypes
  <2>4. CASE docs[seed[v].doc].status = "ready"
    <3>1. seed'[v].at = "made"
      BY <1>0, <1>18, <2>4 DEF ServeSeed, PageTypes, NoSeed
    <3>2. /\ \A u \in Visits \ {v} : plans'[u] = plans[u]
          /\ \A n \in Ids : plans'[v][n] = IF n = seed[v].doc THEN plans[v][n] + 1 ELSE plans[v][n]
      BY <1>0, <1>18, <2>1, <2>4 DEF ServeSeed, PageTypes
    <3>3. \A n \in Ids \ unheard : n = seed[v].doc => plans[v][n] = 0
      BY <2>1, <2>3
    <3>4. QED
      BY <1>0, <1>18, <2>1, <2>2, <2>3, <3>1, <3>2, <3>3 DEF ServeSeed, PlansRemembered
  <2>5. CASE docs[seed[v].doc].status # "ready"
    <3>1. plans' = plans
      BY <1>18, <2>5 DEF ServeSeed
    <3>2. QED
      BY <1>0, <1>18, <2>2, <2>3, <3>1 DEF ServeSeed, PlansRemembered
  <2>6. QED
    BY <2>4, <2>5
<1>19. ASSUME NEW v \in Visits, SeedAnswered(v) PROVE PlansRemembered'
  <2>1. seed'[v] = NoSeed /\ \A u \in Visits \ {v} : seed'[u] = seed[u]
    BY <1>0, <1>19 DEF SeedAnswered, PageTypes
  <2>2. /\ \A u \in Visits \ {v} : attempted'[u] = attempted[u]
        /\ attempted'[v] = IF seed[v].at = "made" THEN attempted[v] \cup {seed[v].doc} ELSE attempted[v]
    BY <1>0, <1>19 DEF SeedAnswered, PageTypes
  <2>3. QED
    BY <1>0, <1>19, <2>1, <2>2 DEF SeedAnswered, PlansRemembered, NoSeed
<1>20. ASSUME NEW v \in Visits, SeedFails(v) PROVE PlansRemembered'
  <2>1. seed'[v] = NoSeed /\ \A u \in Visits \ {v} : seed'[u] = seed[u]
    BY <1>0, <1>20 DEF SeedFails, PageTypes
  <2>2. QED
    BY <1>0, <1>20, <2>1 DEF SeedFails, PlansRemembered, NoSeed
<1>21. CASE UNCHANGED vars
  BY <1>s, <1>21 DEF vars
<1>22. QED
  BY <1>1, <1>2, <1>3, <1>4, <1>5, <1>6, <1>7, <1>8, <1>9, <1>10,
     <1>11, <1>12, <1>13, <1>14, <1>15, <1>16, <1>17, <1>18, <1>19, <1>20, <1>21
     DEF KnowledgeNext

-----------------------------------------------------------------------------
(* The theorems. *)

LEMMA KnowledgeInvKept == KnowledgeInv /\ [KnowledgeNext]_vars => KnowledgeInv'
<1> SUFFICES ASSUME KnowledgeInv, [KnowledgeNext]_vars PROVE KnowledgeInv'
  OBVIOUS
<1>1. CorpusTypes' /\ PageTypes'
  BY TypesKept
<1>2. KnowledgeTypeOK'
  BY <1>1 DEF KnowledgeTypeOK, CorpusTypes, PageTypes
<1>3. CorpusInv'
  BY CorpusKept
<1>4. PlansRemembered'
  BY PlansKept
<1>5. QED
  BY <1>2, <1>3, <1>4 DEF KnowledgeInv, CorpusInv

LEMMA KnowledgeInvAlways == KnowledgeSpec => []KnowledgeInv
BY InitKnowledgeInv, KnowledgeInvKept, PTL DEF KnowledgeSpec

\* Whatever the workers (ingestion/worker.py), the handlers of routes.rs and
\* the page (knowledge/page.tsx) do, the tables and the page hold only what they
\* can hold, and a page that has gone away polls nothing (stopPolling).
THEOREM KnowledgeTypeCorrect == KnowledgeSpec => []KnowledgeTypeOK
<1>1. KnowledgeInv => KnowledgeTypeOK
  BY DEF KnowledgeInv
<1>2. QED
  BY <1>1, KnowledgeInvAlways, PTL

\* store_chunks_and_mark_ready looks for no chunks before it stores its own;
\* claim_pending_document, recover_stuck_documents and the two statements of
\* knowledge_document_reprocess see to it that there are none.  A document that
\* is ready has its chunks once, unless it was disturbed: reprocessed while it
\* was processed, left halfway by a reprocess, or recovered from a slow worker.
THEOREM ChunksStoredOnce == KnowledgeSpec => []ChunksOnce
<1>1. KnowledgeInv => ChunksOnce
  BY DEF KnowledgeInv, ChunksSoFar, ChunksOnce, With
<1>2. QED
  BY <1>1, KnowledgeInvAlways, PTL

\* onboarding_seed_session_from_document makes a session at each call, and does
\* not know the earlier ones: onboardingSeedInFlight and
\* onboardingSeedAttempted, which the page keeps, let a visit have at most one
\* plan made from a document, unless an answer that told of one was lost.
THEOREM PlansMadeOnce == KnowledgeSpec => []OnePlanPerVisit
<1>1. KnowledgeInv => OnePlanPerVisit
  BY DEF KnowledgeInv, PlansRemembered, OnePlanPerVisit
<1>2. QED
  BY <1>1, KnowledgeInvAlways, PTL
=============================================================================
