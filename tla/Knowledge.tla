----------------------------- MODULE Knowledge -----------------------------
(***************************************************************************)
(* The knowledge corpus: the documents and their chunks, the workers that  *)
(* process them (ingestion/worker.py), the handlers that upload, delete    *)
(* and reprocess them (backend/src/routes.rs), and the page that uploads a *)
(* document, polls until it is processed and then has an execution plan    *)
(* made from it (frontend/src/app/knowledge/page.tsx).                     *)
(*                                                                         *)
(* A document is a number, in the order of created_at.  What is in it is   *)
(* left out: its chunks are counted in sets, one set for each time they    *)
(* are stored.  Learnings, search and folders of the page are left out.    *)
(***************************************************************************)
EXTENDS Naturals, Sequences

CONSTANTS
  Workers,       \* ingestion workers
  Slots,         \* polls of the page that can be under way at once
  FilesIn,       \* bound of the model: files in an archive
  MaxDocs,       \* bound of the model: documents
  MaxVisits,     \* bound of the model: times the page is opened
  MaxReprocess,  \* bound of the model: calls to reprocess a document
  MaxFaults      \* bound of the model: crashes and calls that fail

ASSUME KnowledgeBounds ==
  /\ FilesIn \in Nat /\ MaxDocs \in Nat /\ MaxVisits \in Nat
  /\ MaxReprocess \in Nat /\ MaxFaults \in Nat

VARIABLES
  docs,       \* knowledge_documents, with the chunks of each
  worker,     \* what each worker does
  resetting,  \* reprocess calls between their two statements
  here,       \* the visit that is on the screen, 0 if the page is not open
  visits,     \* visits so far
  tracking,   \* the document pollRef polls, 0 if it is null
  polls,      \* answers of polls on their way that end the polling
  attempted,  \* onboardingSeedAttempted of each visit
  seed,       \* the call for a plan under way, onboardingSeedInFlight
  flow,       \* the onboarding: "off", waiting for a document, or past that
  plans,      \* how many plans a visit had made from a document
  disturbed,  \* documents whose processing was cut in on
  dropped,    \* documents whose worker lost them
  unheard,    \* documents whose plan was made and the answer lost
  reprocessed, faults

corpusVars == <<docs, worker, resetting>>
pageVars   == <<here, visits, tracking, polls, attempted, seed, flow>>
ghostVars  == <<disturbed, dropped, unheard>>
vars == <<corpusVars, pageVars, plans, ghostVars, reprocessed, faults>>

Status == {"pending", "processing", "ready", "error", "deleted"}

\* zip: an archive, whose files become documents of their own; parent: the
\* archive it came out of, 0 for an upload.
Doc == [zip : BOOLEAN, parent : 0 .. MaxDocs, status : Status, chunks : Nat]

Ids == 1 .. MaxDocs

Visits == 1 .. MaxVisits

Free == [at |-> "idle", doc |-> 0]

Down == [at |-> "down", doc |-> 0]

NoPoll == [visit |-> 0, doc |-> 0, ready |-> FALSE]

NoSeed == [doc |-> 0, at |-> "none"]

NewDoc(isZip, p) == [zip |-> isZip, parent |-> p, status |-> "pending", chunks |-> 0]

With(S) == {n \in DOMAIN docs : docs[n].status \in S}

HeldBy(n) == {w \in Workers : worker[w].doc = n}

KnowledgeInit ==
  /\ docs = <<>>
  /\ worker = [w \in Workers |-> Free]
  /\ resetting = {}
  /\ here = 0
  /\ visits = 0
  /\ tracking = 0
  /\ polls = [s \in Slots |-> NoPoll]
  /\ attempted = [v \in Visits |-> {}]
  /\ seed = [v \in Visits |-> NoSeed]
  /\ flow \in {"off", "sow"}
  /\ plans = [v \in Visits |-> [n \in Ids |-> 0]]
  /\ disturbed = {} /\ dropped = {} /\ unheard = {}
  /\ reprocessed = 0
  /\ faults = 0

-----------------------------------------------------------------------------
(* The workers. *)

\* Mutant of Claimable: a document another worker has claimed is claimed too.
ClaimableTwice == With({"pending", "processing"})

Claimable == With({"pending"})

\* claim_pending_document: the oldest one, in one statement that skips rows
\* another worker has locked.
Claim(w) ==
  /\ worker[w] = Free
  /\ \E n \in Claimable :
       /\ \A m \in Claimable : n <= m
       /\ docs' = [docs EXCEPT ![n].status = "processing"]
       /\ worker' = [worker EXCEPT ![w] = [at |-> "work", doc |-> n]]
  /\ UNCHANGED <<resetting, pageVars, plans, ghostVars, reprocessed, faults>>

\* An UPDATE finds no row of a document that was deleted.
SetStatus(n, s) ==
  docs' = IF docs[n].status = "deleted" THEN docs ELSE [docs EXCEPT ![n].status = s]

\* store_chunks_and_mark_ready: one transaction; the chunks of a document that
\* was deleted are refused.  Nobody looks whether there are chunks already.
StoreChunks(w) ==
  /\ worker[w].at = "work"
  /\ LET n == worker[w].doc
     IN /\ ~docs[n].zip
        /\ docs' = IF docs[n].status = "deleted" THEN docs
                   ELSE [docs EXCEPT ![n].status = "ready", ![n].chunks = @ + 1]
  /\ worker' = [worker EXCEPT ![w] = Free]
  /\ UNCHANGED <<resetting, pageVars, plans, ghostVars, reprocessed, faults>>

\* handle_zip_archive: its files are committed before it is ready.  An archive
\* that cannot be read, or was deleted, gives no files.
ExtractZip(w) ==
  /\ worker[w].at = "work"
  /\ docs[worker[w].doc].zip
  /\ \E k \in 0 .. FilesIn :
       /\ Len(docs) + k <= MaxDocs
       /\ k > 0 => docs[worker[w].doc].status # "deleted"
       /\ docs' = docs \o [i \in 1 .. k |-> NewDoc(FALSE, worker[w].doc)]
  /\ worker' = [worker EXCEPT ![w].at = "extracted"]
  /\ UNCHANGED <<resetting, pageVars, plans, ghostVars, reprocessed, faults>>

MarkZipReady(w) ==
  /\ worker[w].at = "extracted"
  /\ SetStatus(worker[w].doc, "ready")
  /\ worker' = [worker EXCEPT ![w] = Free]
  /\ UNCHANGED <<resetting, pageVars, plans, ghostVars, reprocessed, faults>>

\* Mutant of WorkFails: the worker goes on without mark_error.
WorkFailsSilently(w) ==
  /\ worker[w].at \in {"work", "extracted"}
  /\ faults < MaxFaults
  /\ faults' = faults + 1
  /\ worker' = [worker EXCEPT ![w] = Free]
  /\ UNCHANGED <<docs, resetting, pageVars, plans, ghostVars, reprocessed>>

\* No text, no chunks, or an exception: rollback and mark_error.
WorkFails(w) ==
  /\ worker[w].at \in {"work", "extracted"}
  /\ faults < MaxFaults
  /\ faults' = faults + 1
  /\ SetStatus(worker[w].doc, "error")
  /\ worker' = [worker EXCEPT ![w] = Free]
  /\ UNCHANGED <<resetting, pageVars, plans, ghostVars, reprocessed>>

\* The connection is lost, so that mark_error fails too, or the worker crashes.
LoseWork(w) ==
  /\ worker[w].at \in {"work", "extracted"}
  /\ faults < MaxFaults
  /\ faults' = faults + 1
  /\ worker' = [worker EXCEPT ![w] = Free] \/ worker' = [worker EXCEPT ![w] = Down]
  /\ dropped' = dropped \cup {worker[w].doc}
  /\ UNCHANGED <<docs, resetting, pageVars, plans, disturbed, unheard, reprocessed>>

\* main: recover_stuck_documents, once.  It takes what has been processing for
\* ten minutes, whether a worker still has it or not.
StartWorker(w) ==
  /\ worker[w] = Down
  /\ worker' = [worker EXCEPT ![w] = Free]
  /\ \E old \in SUBSET With({"processing"}) :
       /\ docs' = [n \in DOMAIN docs |-> IF n \in old THEN [docs[n] EXCEPT !.status = "pending"]
                                         ELSE docs[n]]
       /\ dropped' = dropped \ old
       /\ disturbed' = disturbed \cup {n \in old : HeldBy(n) # {}}
  /\ UNCHANGED <<resetting, pageVars, plans, unheard, reprocessed, faults>>

-----------------------------------------------------------------------------
(* The handlers. *)

\* knowledge_document_delete: the chunks and the files of an archive go too.
DeleteDoc(n) ==
  /\ n \in With(Status \ {"deleted"})
  /\ docs' = [m \in DOMAIN docs |->
                IF m = n \/ docs[m].parent = n
                THEN [docs[m] EXCEPT !.status = "deleted", !.chunks = 0] ELSE docs[m]]
  /\ UNCHANGED <<worker, resetting, pageVars, plans, ghostVars, reprocessed, faults>>

\* knowledge_document_reprocess, first statement: the chunks go, whatever the
\* status of the document is.
DeleteChunks(n) ==
  /\ n \in DOMAIN docs \ resetting
  /\ reprocessed < MaxReprocess
  /\ reprocessed' = reprocessed + 1
  /\ docs' = [docs EXCEPT ![n].chunks = 0]
  /\ resetting' = resetting \cup {n}
  /\ disturbed' = IF docs[n].status \in {"pending", "processing"} THEN disturbed \cup {n}
                  ELSE disturbed
  /\ UNCHANGED <<worker, pageVars, plans, dropped, unheard, faults>>

\* Second statement: only a document that is ready or in error is reset.
ResetStatus(n) ==
  /\ n \in resetting
  /\ resetting' = resetting \ {n}
  /\ docs' = IF docs[n].status \in {"ready", "error"}
             THEN [docs EXCEPT ![n].status = "pending"] ELSE docs
  /\ UNCHANGED <<worker, pageVars, plans, ghostVars, reprocessed, faults>>

\* The backend dies, or the caller hangs up, between the two.
ReprocessCut(n) ==
  /\ n \in resetting
  /\ faults < MaxFaults
  /\ faults' = faults + 1
  /\ resetting' = resetting \ {n}
  /\ disturbed' = disturbed \cup {n}
  /\ UNCHANGED <<docs, worker, pageVars, plans, dropped, unheard, reprocessed>>

-----------------------------------------------------------------------------
(* The page. *)

Visit ==
  /\ here = 0
  /\ visits < MaxVisits
  /\ visits' = visits + 1
  /\ here' = visits + 1
  /\ UNCHANGED <<corpusVars, tracking, polls, attempted, seed, flow, plans, ghostVars,
                 reprocessed, faults>>

\* Mutant of Unmount: the interval is not cleared.
UnmountPolling == here' = 0 /\ UNCHANGED tracking

\* The page goes away and stops polling; its calls go on.
Unmount == here' = 0 /\ tracking' = 0

Leave ==
  /\ here # 0
  /\ Unmount
  /\ UNCHANGED <<corpusVars, visits, polls, attempted, seed, flow, plans, ghostVars,
                 reprocessed, faults>>

\* handleUploadFile and the handler; the page polls the latest upload only.
Upload ==
  /\ here # 0
  /\ Len(docs) < MaxDocs
  /\ \E isZip \in BOOLEAN : docs' = Append(docs, NewDoc(isZip, 0))
  /\ tracking' = Len(docs) + 1
  /\ UNCHANGED <<worker, resetting, here, visits, polls, attempted, seed, flow, plans,
                 ghostVars, reprocessed, faults>>

\* knowledge_document_progress: the document, and every file it gave, is done.
Done(n) ==
  /\ docs[n].status \in {"ready", "error"}
  /\ \A m \in DOMAIN docs : docs[m].parent = n => docs[m].status \in {"ready", "error", "deleted"}

\* A poll that reads anything else, or fails, changes nothing.
Poll(s) ==
  /\ tracking # 0
  /\ Done(tracking)
  /\ polls[s] = NoPoll
  /\ polls' = [polls EXCEPT ![s] = [visit |-> here, doc |-> tracking,
                                    ready |-> docs[tracking].status = "ready"]]
  /\ UNCHANGED <<corpusVars, here, visits, tracking, attempted, seed, flow, plans,
                 ghostVars, reprocessed, faults>>

\* Mutant of TrySeed: a call under way does not keep the page from another.
TrySeedAgain(v, n) ==
  seed' = IF n \in attempted[v] THEN seed
          ELSE [seed EXCEPT ![v] = [doc |-> n, at |-> "sent"]]

\* tryOnboardingSeedAfterDocReady: one call at a time, and none for a document
\* that has its plan.  A document that comes meanwhile is passed over.
TrySeed(v, n) ==
  seed' = IF n \in attempted[v] \/ seed[v] # NoSeed THEN seed
          ELSE [seed EXCEPT ![v] = [doc |-> n, at |-> "sent"]]

\* stopPolling stops whatever pollRef polls by now.
PollAnswered(s) ==
  /\ polls[s] # NoPoll
  /\ polls' = [polls EXCEPT ![s] = NoPoll]
  /\ IF polls[s].ready THEN TrySeed(polls[s].visit, polls[s].doc) ELSE UNCHANGED seed
  /\ tracking' = IF polls[s].visit = here THEN 0 ELSE tracking
  /\ UNCHANGED <<corpusVars, here, visits, attempted, flow, plans, ghostVars,
                 reprocessed, faults>>

\* The effect on the list of documents: while the onboarding waits for one, the
\* newest that is ready is tried.
SeedNewest ==
  /\ here # 0
  /\ flow = "sow"
  /\ \E n \in With({"ready"}) : /\ \A m \in With({"ready"}) : m <= n
                               /\ TrySeed(here, n)
  /\ UNCHANGED <<corpusVars, here, visits, tracking, polls, attempted, flow, plans,
                 ghostVars, reprocessed, faults>>

\* onboarding_seed_session_from_document: each call makes a session.
ServeSeed(v) ==
  LET n == seed[v].doc
  IN /\ seed[v].at = "sent"
     /\ IF docs[n].status = "ready"
        THEN /\ plans' = [plans EXCEPT ![v][n] = @ + 1]
             /\ seed' = [seed EXCEPT ![v].at = "made"]
        ELSE seed' = [seed EXCEPT ![v].at = "refused"] /\ UNCHANGED plans
     /\ UNCHANGED <<corpusVars, here, visits, tracking, polls, attempted, flow,
                    ghostVars, reprocessed, faults>>

\* The onboarding goes on to its next step, and the user to another page.
MoveOn ==
  /\ flow' = IF flow = "off" THEN "off" ELSE "done"
  /\ Unmount

SeedAnswered(v) ==
  /\ seed[v].at \in {"made", "refused"}
  /\ seed' = [seed EXCEPT ![v] = NoSeed]
  /\ attempted' = IF seed[v].at = "made" THEN [attempted EXCEPT ![v] = @ \cup {seed[v].doc}]
                  ELSE attempted
  /\ IF seed[v].at = "made" \/ flow # "off" THEN MoveOn ELSE UNCHANGED <<flow, here, tracking>>
  /\ UNCHANGED <<corpusVars, visits, polls, plans, ghostVars, reprocessed, faults>>

\* No answer: the plan may have been made.
SeedFails(v) ==
  /\ seed[v].at \in {"sent", "made"}
  /\ faults < MaxFaults
  /\ faults' = faults + 1
  /\ seed' = [seed EXCEPT ![v] = NoSeed]
  /\ unheard' = IF seed[v].at = "made" THEN unheard \cup {seed[v].doc} ELSE unheard
  /\ IF flow # "off" THEN MoveOn ELSE UNCHANGED <<flow, here, tracking>>
  /\ UNCHANGED <<corpusVars, visits, polls, attempted, plans, disturbed, dropped, reprocessed>>

KnowledgeNext ==
  \/ \E w \in Workers : \/ Claim(w) \/ StoreChunks(w) \/ ExtractZip(w) \/ MarkZipReady(w)
                        \/ WorkFails(w) \/ LoseWork(w) \/ StartWorker(w)
  \/ \E n \in DOMAIN docs : \/ DeleteDoc(n)
                            \/ DeleteChunks(n) \/ ResetStatus(n) \/ ReprocessCut(n)
  \/ Visit \/ Leave \/ Upload \/ SeedNewest
  \/ \E s \in Slots : Poll(s) \/ PollAnswered(s)
  \/ \E v \in Visits : ServeSeed(v) \/ SeedAnswered(v) \/ SeedFails(v)

KnowledgeSpec == KnowledgeInit /\ [][KnowledgeNext]_vars

\* A worker polls, and what it processes comes to an end; one that crashed is
\* started again.  Nothing makes the user act.
KnowledgeFairness ==
  \A w \in Workers : /\ WF_vars(Claim(w)) /\ WF_vars(StoreChunks(w))
                     /\ WF_vars(ExtractZip(w)) /\ WF_vars(MarkZipReady(w))
                     /\ WF_vars(StartWorker(w))

FairKnowledgeSpec == KnowledgeSpec /\ KnowledgeFairness

-----------------------------------------------------------------------------
(* Properties *)

\* The variables hold what the tables and the page can hold, and the page polls
\* only while it is on the screen.
KnowledgeTypeOK ==
  /\ docs \in Seq(Doc) /\ Len(docs) <= MaxDocs
  /\ worker \in [Workers -> {Free, Down} \cup [at : {"work", "extracted"}, doc : DOMAIN docs]]
  /\ resetting \subseteq DOMAIN docs
  /\ here \in 0 .. visits /\ visits \in 0 .. MaxVisits
  /\ tracking \in {0} \cup DOMAIN docs
  /\ tracking # 0 => here # 0
  /\ polls \in [Slots -> {NoPoll} \cup [visit : 1 .. visits, doc : DOMAIN docs, ready : BOOLEAN]]
  /\ attempted \in [Visits -> SUBSET DOMAIN docs]
  /\ seed \in [Visits -> {NoSeed} \cup [doc : DOMAIN docs, at : {"sent", "made", "refused"}]]
  /\ flow \in {"off", "sow", "done"}
  /\ plans \in [Visits -> [Ids -> Nat]]
  /\ disturbed \cup dropped \cup unheard \subseteq DOMAIN docs

\* A document that is ready has its chunks once, also after it was reprocessed,
\* lost by a worker, recovered and processed by another one: no set is missing
\* and none was stored twice.  Three things are known to break it: to reprocess
\* a document that is being processed, a reprocess that stops halfway, and to
\* recover a document whose worker is only slow.
ChunksOnce ==
  \A n \in With({"ready"}) \ (disturbed \cup resetting) :
    docs[n].chunks = IF docs[n].zip THEN 0 ELSE 1

\* Polls overlap, their answers come late, and the list of documents makes the
\* page try as well: still one visit has at most one plan made from a document,
\* as long as it hears of the plan.
OnePlanPerVisit == \A v \in Visits, n \in Ids \ unheard : plans[v][n] <= 1

\* Every document is processed in the end, or in error or deleted, unless its
\* worker lost it and no worker has recovered it since.
DocumentsSettle ==
  \A n \in Ids :
    <>[](n \in DOMAIN docs => docs[n].status \in {"ready", "error", "deleted"} \/ n \in dropped)
=============================================================================
