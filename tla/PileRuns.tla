------------------------------ MODULE PileRuns ------------------------------
(***************************************************************************)
(* Piles, the documents uploaded into them (piles_api.py, upload_api.py)   *)
(* and POST /runs/start (main.py): a start makes one run per document of   *)
(* the pile and one background task that executes them one after another.  *)
(* A handler is a coroutine: it gives the event loop up only where it      *)
(* reads a file of the request.  Of a run we keep its status; what happens *)
(* inside it is RunLifecycle.  Documents are numbered as they arrive,      *)
(* which is the order of pile_documents.added_at.  Names that RunStream     *)
(* has, too, are longer here, so that one module can extend both.          *)
(***************************************************************************)
EXTENDS Naturals, Sequences, FiniteSets

CONSTANTS
  Piles,      \* pile ids
  Uploads,    \* upload requests
  MaxFiles,   \* files in one request
  Starts,     \* requests to POST /runs/start that are answered with runs
  MaxDocs, MaxRuns, MaxFailures   \* bounds on documents, runs and failed transactions

ASSUME PileBounds == {MaxFiles, MaxDocs, MaxRuns, MaxFailures} \subseteq Nat

VARIABLES
  pile,      \* piles.status
  rows,      \* documents and their versions
  member,    \* pile_documents
  files,     \* documents whose file is in the upload directory
  nextDoc,
  at, into,  \* where an upload request is, and the pile it is for
  left,      \* files of the request still to be read
  session,   \* documents added to its database session
  told,      \* documents its answer names as uploaded
  runs,      \* rows of runs: the document, and in config_snapshot the list and overrides
  waiting,   \* runs the task of a start has still to execute
  busy,      \* the run it executes
  resumed,   \* runs being executed by a resume
  failures, crashed

documents == <<pile, rows, member, files, nextDoc>>
uploads   == <<at, into, left, session, told>>
tasks     == <<waiting, busy, resumed>>
pileVars  == <<documents, uploads, runs, tasks, failures, crashed>>

Settled == {"completed", "completed_with_persistence_gap", "failed", "cancelled"}
Docs    == 1..MaxDocs
\* sound: load_config accepts the config_overrides
Run     == [doc : Docs, listed : SUBSET Docs, sound : BOOLEAN,
            status : Settled \cup {"pending", "running", "paused", "deleted"}]

PileTypeOK ==
  /\ pile \in [Piles -> {"none", "active", "archived"}]
  /\ rows \subseteq Docs /\ files \subseteq Docs
  /\ member \in [Piles -> SUBSET Docs]
  /\ nextDoc \in 1..MaxDocs + 1
  /\ at \in [Uploads -> {"idle", "reading", "answered", "refused", "failed"}]
  /\ into \in [Uploads -> Piles \cup {"documents"}]
  /\ left \in [Uploads -> 0..MaxFiles]
  /\ session \in [Uploads -> SUBSET Docs] /\ told \in [Uploads -> SUBSET Docs]
  /\ runs \in Seq(Run)
  /\ waiting \in [Starts -> Seq(Nat)] /\ busy \in [Starts -> Nat]
  /\ resumed \subseteq DOMAIN runs
  /\ failures \in 0..MaxFailures /\ crashed \in BOOLEAN

PileInit ==
  /\ pile = [p \in Piles |-> "none"]
  /\ rows = {} /\ files = {} /\ member = [p \in Piles |-> {}] /\ nextDoc = 1
  /\ at = [u \in Uploads |-> "idle"] /\ into = [u \in Uploads |-> "documents"]
  /\ left = [u \in Uploads |-> 0]
  /\ session = [u \in Uploads |-> {}] /\ told = [u \in Uploads |-> {}]
  /\ runs = <<>>
  /\ waiting = [s \in Starts |-> <<>>] /\ busy = [s \in Starts |-> 0]
  /\ resumed = {}
  /\ failures = 0 /\ crashed = FALSE

Failure == failures < MaxFailures /\ failures' = failures + 1

-----------------------------------------------------------------------------
(* Piles and uploads *)

CreatePile(p) ==
  /\ pile[p] = "none" /\ pile' = [pile EXCEPT ![p] = "active"]
  /\ UNCHANGED <<rows, member, files, nextDoc, uploads, runs, tasks, failures, crashed>>

\* delete_pile archives; documents and runs stay, and so do uploads and starts
DeletePile(p) ==
  /\ pile[p] # "none" /\ pile' = [pile EXCEPT ![p] = "archived"]
  /\ UNCHANGED <<rows, member, files, nextDoc, uploads, runs, tasks, failures, crashed>>

\* upload_to_pile takes several files, upload_document one
BeginUpload(u, p, n) ==
  /\ at[u] = "idle"
  /\ IF p = "documents" THEN n = 1 ELSE pile[p] # "none"
  /\ at' = [at EXCEPT ![u] = "reading"] /\ into' = [into EXCEPT ![u] = p]
  /\ left' = [left EXCEPT ![u] = n]
  /\ UNCHANGED <<documents, session, told, runs, tasks, failures, crashed>>

\* a file that is stored: on disk, with its records in the session
Keep(u) ==
  /\ nextDoc \in Docs /\ nextDoc' = nextDoc + 1
  /\ files' = files \cup {nextDoc}
  /\ session' = [session EXCEPT ![u] = @ \cup {nextDoc}]
  /\ told' = [told EXCEPT ![u] = @ \cup {nextDoc}]
  /\ UNCHANGED at

\* one that is empty, of another type, or cannot be written: an error beside the
\* other files of a pile, the end of a single upload
Skip(u) ==
  /\ at' = IF into[u] = "documents" THEN [at EXCEPT ![u] = "refused"] ELSE at
  /\ UNCHANGED <<files, nextDoc, session, told>>

\* one that is too large ends the request: the session is rolled back, the
\* files of the request stay on disk
Refuse(u) ==
  /\ at' = [at EXCEPT ![u] = "refused"]
  /\ session' = [session EXCEPT ![u] = {}]
  /\ UNCHANGED <<files, nextDoc, told>>

\* mutant: one that is too large is an error beside the others
RefuseOne(u) ==
  /\ session' = [session EXCEPT ![u] = {}]
  /\ UNCHANGED <<at, files, nextDoc, told>>

TooLarge(u) == Refuse(u)

ReadFile(u) ==
  /\ at[u] = "reading" /\ left[u] > 0
  /\ left' = [left EXCEPT ![u] = @ - 1]
  /\ Keep(u) \/ Skip(u) \/ TooLarge(u)
  /\ UNCHANGED <<pile, rows, member, into, runs, tasks, failures, crashed>>

\* mutant: both kinds of upload clean up, also what others answered for
CleanAll(u) == files \cap rows

\* a single upload that cannot be recorded removes its file
Clean(u) == IF into[u] = "documents" THEN files \ session[u] ELSE files

CommitUpload(u) ==
  /\ at[u] = "reading" /\ left[u] = 0
  /\ \/ /\ rows' = rows \cup session[u]
        /\ member' = [p \in Piles |-> IF p = into[u] THEN member[p] \cup session[u]
                                      ELSE member[p]]
        /\ at' = [at EXCEPT ![u] = "answered"]
        /\ UNCHANGED <<files, failures>>
     \/ /\ Failure
        /\ files' = Clean(u)
        /\ at' = [at EXCEPT ![u] = "failed"]
        /\ UNCHANGED <<rows, member>>
  /\ UNCHANGED <<pile, nextDoc, into, left, session, told, runs, tasks, crashed>>

-----------------------------------------------------------------------------
(* Starts *)

\* the documents of a start, in the order they were added
InOrder(docs) ==
  {new \in [1..Cardinality(docs) -> docs] :
     \A i, j \in 1..Cardinality(docs) : i < j => new[i] < new[j]}

\* one run per document, in one transaction, then the background task
StartRuns(s, docs, listed) ==
  /\ busy[s] = 0 /\ waiting[s] = <<>> /\ Len(runs) + Cardinality(docs) <= MaxRuns
  /\ \E new \in InOrder(docs), ok \in BOOLEAN :
       runs' = runs \o [i \in 1..Cardinality(docs) |->
                  [doc |-> new[i], listed |-> listed, sound |-> ok, status |-> "pending"]]
  /\ waiting' = [waiting EXCEPT ![s] = [i \in 1..Cardinality(docs) |-> Len(runs) + i]]
  /\ UNCHANGED <<documents, uploads, busy, resumed, failures, crashed>>

\* an empty pile is refused; an archived one is not
StartPile(s, p) == pile[p] # "none" /\ member[p] # {} /\ StartRuns(s, member[p], member[p])

\* with an explicit document, of whatever pile, only that one is executed; the
\* list recorded is still that of the pile
StartDocument(s, d, p) ==
  /\ d \in rows
  /\ p \in Piles => (pile[p] # "none" /\ member[p] # {})
  /\ StartRuns(s, {d}, IF p \in Piles THEN member[p] ELSE {d})

-----------------------------------------------------------------------------
(* The background task *)

SetRun(r, new) == runs' = [runs EXCEPT ![r].status = new]

\* the task takes up its next run, or loses all of them
Proceed(s)  == waiting' = [waiting EXCEPT ![s] = Tail(@)]
Abandon(s)  == waiting' = [waiting EXCEPT ![s] = <<>>]

\* run_pipeline registers the run as running.  When load_config or the database
\* refuses, the handler's status "failed" is refused by the trigger of a pending
\* run, and this second exception ends the task.
Begin(s) ==
  LET r == Head(waiting[s])
  IN  /\ busy[s] = 0 /\ waiting[s] # <<>>
      /\ \/ /\ runs[r].sound /\ runs[r].status = "pending"
            /\ SetRun(r, "running") /\ Proceed(s) /\ UNCHANGED failures
            /\ busy' = [busy EXCEPT ![s] = r]
         \/ /\ runs[r].status = "pending" /\ Abandon(s)
            /\ IF runs[r].sound THEN Failure ELSE UNCHANGED failures
            /\ UNCHANGED <<runs, busy>>
         \/ /\ runs[r].status = "deleted" /\ Proceed(s)
            /\ UNCHANGED <<runs, busy, failures>>
      /\ UNCHANGED <<documents, uploads, resumed, crashed>>

\* mutant: the exception of a run ends the task
EndOrRaise(s) ==
  /\ busy[s] # 0 /\ busy' = [busy EXCEPT ![s] = 0]
  /\ \/ /\ runs[busy[s]].status = "running"
        /\ \E new \in Settled \cup {"paused"} : SetRun(busy[s], new)
        /\ UNCHANGED waiting
     \/ /\ runs[busy[s]].status = "running"
        /\ SetRun(busy[s], "failed") /\ Abandon(s)
     \/ /\ runs[busy[s]].status = "deleted"
        /\ UNCHANGED <<runs, waiting>>
  /\ UNCHANGED <<documents, uploads, resumed, failures, crashed>>

\* the run settles, is put on hold, or raises and is marked failed; if that
\* cannot be written either, the run is left as it is and the task ends
End(s) ==
  /\ busy[s] # 0 /\ busy' = [busy EXCEPT ![s] = 0]
  /\ \/ /\ runs[busy[s]].status = "running"
        /\ \E new \in Settled \cup {"paused"} : SetRun(busy[s], new)
        /\ UNCHANGED <<waiting, failures>>
     \/ /\ runs[busy[s]].status = "running" /\ Failure
        /\ Abandon(s) /\ UNCHANGED runs
     \/ /\ runs[busy[s]].status = "deleted"
        /\ UNCHANGED <<runs, waiting, failures>>
  /\ UNCHANGED <<documents, uploads, resumed, crashed>>

\* a paused run, or one left running by no task, goes on in a task of its own
ResumeRun(r) ==
  /\ r \notin resumed /\ \A s \in Starts : busy[s] # r
  /\ runs[r].status \in {"paused", "running"} /\ SetRun(r, "running")
  /\ resumed' = resumed \cup {r}
  /\ UNCHANGED <<documents, uploads, waiting, busy, failures, crashed>>

EndResume(r) ==
  /\ r \in resumed /\ resumed' = resumed \ {r}
  /\ \/ /\ runs[r].status = "running"
        /\ \E new \in Settled \cup {"paused"} : SetRun(r, new)
        /\ UNCHANGED failures
     \/ /\ runs[r].status = "running" /\ Failure /\ UNCHANGED runs
     \/ /\ runs[r].status = "deleted" /\ UNCHANGED <<runs, failures>>
  /\ UNCHANGED <<documents, uploads, waiting, busy, crashed>>

DeleteRun(r) ==
  /\ runs[r].status # "deleted" /\ SetRun(r, "deleted")
  /\ UNCHANGED <<documents, uploads, tasks, failures, crashed>>

\* the process dies with its tasks and the requests it was reading
Crash ==
  /\ ~crashed /\ crashed' = TRUE
  /\ at' = [u \in Uploads |-> IF at[u] = "reading" THEN "failed" ELSE at[u]]
  /\ waiting' = [s \in Starts |-> <<>>] /\ busy' = [s \in Starts |-> 0] /\ resumed' = {}
  /\ UNCHANGED <<documents, into, left, session, told, runs, failures>>

PileNext ==
  \/ \E p \in Piles : CreatePile(p) \/ DeletePile(p)
  \/ \E u \in Uploads : \/ \E p \in Piles \cup {"documents"}, n \in 1..MaxFiles :
                              BeginUpload(u, p, n)
                         \/ ReadFile(u) \/ CommitUpload(u)
  \/ \E s \in Starts : \/ \E p \in Piles : StartPile(s, p)
                       \/ \E p \in Piles \cup {"none"}, d \in Docs : StartDocument(s, d, p)
                       \/ Begin(s) \/ End(s)
  \/ \E r \in DOMAIN runs : ResumeRun(r) \/ EndResume(r) \/ DeleteRun(r)
  \/ Crash

PileSpec == PileInit /\ [][PileNext]_pileVars

(* the event loop runs the tasks, and every wait inside a run ends *)
FairPileSpec == PileSpec /\ \A s \in Starts : WF_pileVars(Begin(s)) /\ WF_pileVars(End(s))

-----------------------------------------------------------------------------
(* Properties *)

\* What an upload was answered to be stored, is: whatever went wrong with the
\* other files of the request or with other requests, its records are there, its
\* file is there, and it is in the pile.
AnsweredIsStored ==
  \A u \in Uploads : at[u] = "answered" =>
    /\ told[u] \subseteq rows \cap files
    /\ into[u] \in Piles => told[u] \subseteq member[into[u]]

\* Every recorded document, and so every document a run is to read, has its file,
\* although files are written before the records and some are removed again.
DocumentsHaveFiles ==
  /\ rows \subseteq files
  /\ \A r \in DOMAIN runs : runs[r].doc \in files

Pending(r) == r \in DOMAIN runs /\ runs[r].status = "pending"

\* Each run of a start gets its turn, however the ones before it end; only a
\* crash, a failing transaction or overrides load_config refuses can keep it.
EveryRunGetsItsTurn ==
  \A r \in 1..MaxRuns :
    Pending(r) ~> \/ ~Pending(r) \/ crashed \/ failures > 0
                  \/ \E q \in DOMAIN runs : ~runs[q].sound
=============================================================================
