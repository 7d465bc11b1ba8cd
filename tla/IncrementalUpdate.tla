-------------------------- MODULE IncrementalUpdate --------------------------
(***************************************************************************)
(* Documents that arrive after a run: the engine of incremental.py, driven *)
(* by the folder watcher (watcher.py), which keeps one deliverable in      *)
(* memory, and by POST /piles/{id}/incremental (incremental_api.py), which *)
(* rebuilds one from the report of the latest completed run.               *)
(* Of a claim we keep its fact (the field it is about), its value and its  *)
(* document; of a section its claims and the value of the last of them.    *)
(***************************************************************************)
EXTENDS Naturals

CONSTANTS
  Facts,        \* fields documents make claims about
  Values,       \* values they give, other than "not_found"
  Extractions,  \* what an extraction may find in a document
  Reports,      \* what the runs of the pile found, one after the other
  IdStyles,     \* how the claims of those runs are named
  FileCount,    \* names in the watched folder, in the order of sorted()
  Contents,     \* contents (and so hashes) a file may have
  Uploads       \* requests to the endpoint

Found  == Values \cup {"not_found"}
Silent == [said |-> {}, last |-> "none"]

\* what a document says about one fact: its values, and the last of them
Statement == {s \in [said : SUBSET Found, last : Found \cup {"none"}] :
                IF s.said = {} THEN s.last = "none" ELSE s.last \in s.said}

ASSUME ValuesAssumption      == {"not_found", "none"} \cap Values = {}
ASSUME ExtractionsAssumption == Extractions \subseteq [Facts -> Statement]
ASSUME ReportsAssumption     == Reports \in [DOMAIN Reports -> [Facts -> Found \cup {"none"}]]
                                /\ DOMAIN Reports \subseteq Nat \ {0}
ASSUME StylesAssumption      == IdStyles \subseteq {"typed", "numbered"}
ASSUME FilesAssumption       == FileCount \in Nat /\ {"none", "unreadable"} \cap Contents = {}
ASSUME WorkersAssumption     == "watcher" \notin Uploads

VARIABLES
  style,      \* how the runs of this pile name their claims
  latest,     \* the latest completed run, 0 before the first,
  subject,    \* and the document it was a run of
  folder,     \* the watched folder
  listing,    \* what the scan under way has still to look at
  file, hash, \* the file being processed and the hash computed of it
  processed,  \* _processed_hashes
  at,         \* where the watcher and each request are
  report,     \* the deliverable each of them works on,
  base,       \* and the document of the run it was rebuilt from
  doc, found, \* the new document: its id and what was extracted
  affected,   \* affected sections still to be processed
  handled,    \* documents whose update ended well
  queue,      \* conflict items, committed one by one
  nextDoc, crashed

vars == <<style, latest, subject, base, folder, listing, file, hash, processed, at, report, doc,
          found, affected, handled, queue, nextDoc, crashed>>

Workers == Uploads \cup {"watcher"}
Files   == 1..FileCount
Keys    == [style : {"typed", "numbered"}, fact : Facts]
Claim   == [doc : Nat, value : Found]
Section == [claims : SUBSET Claim, last : Found \cup {"none"}]
NoSection == [claims |-> {}, last |-> "none"]
Nothing   == [k \in Keys |-> NoSection]
Item      == [doc : Nat, fact : Facts, value : Values]
Places    == {"idle", "read", "next", "extract", "update", "audit",
              "answered", "refused", "failed"}

TypeOK ==
  /\ style \in IdStyles
  /\ latest \in DOMAIN Reports \cup {0}
  /\ subject \in Nat /\ base \in [Workers -> Nat]
  /\ folder \in [Files -> Contents \cup {"none", "unreadable"}]
  /\ listing \subseteq Files /\ file \in Files \cup {0}
  /\ hash \in Contents \cup {"none"}
  /\ processed \subseteq Contents
  /\ at \in [Workers -> Places]
  /\ report \in [Workers -> [Keys -> Section]]
  /\ doc \in [Workers -> Nat]
  /\ found \in [Workers -> [Facts -> Statement]]
  /\ affected \in [Workers -> SUBSET Facts]
  /\ handled \in [Workers -> SUBSET [doc : Nat, found : [Facts -> Statement]]]
  /\ queue \subseteq Item
  /\ nextDoc \in Nat /\ crashed \in BOOLEAN

\* typed: "loan_agreement.interest_rate_0", and the section is the field;
\* numbered: "loan_agreement-001", and the section is "generic." and the id
Key(s, f) == [style |-> s, fact |-> f]

\* The documents of the pile: those it began with, named 0, and what was uploaded.
\* The watcher's documents are not stored.
Pile == {0} \cup {doc[u] : u \in Uploads}

\* build_deliverable_from_state: the claims of a run are of the run's document;
\* add_claim creates the section it needs
Build(r, d) ==
  [k \in Keys |-> IF r = 0 \/ k.style # style \/ Reports[r][k.fact] = "none"
                    THEN NoSection
                    ELSE [claims |-> {[doc |-> d, value |-> Reports[r][k.fact]]},
                          last |-> Reports[r][k.fact]]]

Init ==
  /\ style \in IdStyles
  /\ latest = 0 /\ subject = 0 /\ base = [w \in Workers |-> 0]
  /\ folder = [f \in Files |-> "none"]
  /\ listing = {} /\ file = 0 /\ hash = "none" /\ processed = {}
  /\ at = [w \in Workers |-> "idle"]
  /\ \E r \in DOMAIN Reports \cup {0} :
       report = [w \in Workers |-> IF w = "watcher" THEN Build(r, 0) ELSE Nothing]
  /\ doc = [w \in Workers |-> 0]
  /\ found = [w \in Workers |-> [f \in Facts |-> Silent]]
  /\ affected = [w \in Workers |-> {}]
  /\ handled = [w \in Workers |-> {}]
  /\ queue = {} /\ nextDoc = 1 /\ crashed = FALSE

Move(w, from, to) == at[w] = from /\ at' = [at EXCEPT ![w] = to]

-----------------------------------------------------------------------------
(* The engine *)

\* mutant: a claim contradicts only if the section is sure of itself
ContradictionsOfSingle(section, statement) ==
  {v \in Values : /\ v \in statement.said
                  /\ section.last # "not_found"
                  /\ \E c \in section.claims : section.claims = {c} /\ c.value # v}

\* detect_conflicts: existing claims are indexed by type, the last one stays
Contradictions(section, statement) ==
  {v \in Values : /\ v \in statement.said
                  /\ section.last # "not_found" /\ v # section.last}

\* mutant: the new claims replace the section
MergeOver(section, statement, d) ==
  [claims |-> [doc : {d}, value : statement.said], last |-> statement.last]

\* _merge_claims, update_section
Merge(section, statement, d) ==
  [claims |-> {c \in section.claims : c.doc # d} \cup [doc : {d}, value : statement.said],
   last   |-> statement.last]

\* find_affected_sections: the new claims are about a section that is there
Affects(r, e) == {f \in Facts : e[f].said # {} /\ r[Key("typed", f)].claims # {}}

\* document_id, extract_claims, and the first statements of update()
Extract(w, to) ==
  \E e \in Extractions :
    /\ Move(w, to, "update")
    /\ found' = [found EXCEPT ![w] = e]
    /\ affected' = [affected EXCEPT ![w] = Affects(report[w], e)]

\* One affected section, in the order of a set: without a contradiction its
\* claims are merged, else an item is enqueued for each of them, and any of
\* these commits may fail and end the update.
UpdateSection(w, f) ==
  LET key  == Key("typed", f)
      said == found[w][f]
      new  == Contradictions(report[w][key], said)
  IN  /\ at[w] = "update" /\ f \in affected[w]
      /\ \/ /\ new = {}
            /\ report' = [report EXCEPT ![w][key] = Merge(@, said, doc[w])]
            /\ UNCHANGED <<queue, at>>
         \/ /\ new # {}
            /\ \E sent \in SUBSET new :
                 /\ queue' = queue \cup [doc : {doc[w]}, fact : {f}, value : sent]
                 /\ \/ sent = new /\ UNCHANGED at
                    \/ sent # new /\ Move(w, "update", "failed")
            /\ UNCHANGED report
      /\ affected' = [affected EXCEPT ![w] = @ \ {f}]
      /\ UNCHANGED <<style, latest, subject, base, folder, listing, file, hash, processed, doc, found,
                     handled, nextDoc, crashed>>

\* mutant: every section the document is about is written
NewSectionsOver(r, e, d) ==
  [k \in Keys |-> IF k.style = "typed" /\ e[k.fact].said # {}
                    THEN [claims |-> [doc : {d}, value : e[k.fact].said],
                          last   |-> e[k.fact].last]
                    ELSE r[k]]

\* the sections that were not there before
NewSections(r, e, d) ==
  [k \in Keys |-> IF k.style = "typed" /\ r[k].claims = {} /\ e[k.fact].said # {}
                    THEN [claims |-> [doc : {d}, value : e[k.fact].said],
                          last   |-> e[k.fact].last]
                    ELSE r[k]]

Finish(w) ==
  /\ Move(w, "update", "audit") /\ affected[w] = {}
  /\ report' = [report EXCEPT ![w] = NewSections(@, found[w], doc[w])]
  /\ handled' = [handled EXCEPT ![w] = @ \cup {[doc |-> doc[w], found |-> found[w]]}]
  /\ UNCHANGED <<style, latest, subject, base, folder, listing, file, hash, processed, doc, found,
                 affected, queue, nextDoc, crashed>>

-----------------------------------------------------------------------------
(* The watcher *)

\* files are written, replaced and removed, and may become unreadable, while a
\* scan is under way
Touch(f) ==
  /\ \E c \in Contents \cup {"none", "unreadable"} : folder' = [folder EXCEPT ![f] = c]
  /\ UNCHANGED <<style, latest, subject, base, listing, file, hash, processed, at, report, doc,
                 found, affected, handled, queue, nextDoc, crashed>>

Scan ==
  /\ Move("watcher", "idle", "next")
  /\ listing' = {f \in Files : folder[f] # "none"}
  /\ UNCHANGED <<style, latest, subject, base, folder, file, hash, processed, report, doc, found,
                 affected, handled, queue, nextDoc, crashed>>

\* _process_file: the file is read a second time
Take(f) == /\ folder[f] \in Contents \ processed
           /\ at' = [at EXCEPT !["watcher"] = "extract"]
           /\ file' = f /\ hash' = folder[f]
           /\ doc' = [doc EXCEPT !["watcher"] = nextDoc] /\ nextDoc' = nextDoc + 1

\* mutant: a known file ends the scan
NextUntilKnown ==
  /\ at["watcher"] = "next"
  /\ \E f \in listing :
       /\ \A g \in listing : f <= g
       /\ \/ Take(f) /\ listing' = listing \ {f}
          \/ /\ folder[f] = "none"
             /\ listing' = listing \ {f}
             /\ UNCHANGED <<at, file, hash, doc, nextDoc>>
          \/ /\ folder[f] \in processed \cup {"none", "unreadable"}
             /\ listing' = {} /\ at' = [at EXCEPT !["watcher"] = "idle"]
             /\ UNCHANGED <<file, hash, doc, nextDoc>>
  /\ UNCHANGED <<style, latest, subject, base, folder, processed, report, found, affected, handled,
                 queue, crashed>>

\* the next name of the listing; a file that is gone or known is passed over, one
\* that is gone after isfile or cannot be read raises out of the scan
NextFile ==
  /\ at["watcher"] = "next"
  /\ \E f \in listing :
       /\ \A g \in listing : f <= g
       /\ \/ Take(f) /\ listing' = listing \ {f}
          \/ /\ folder[f] = "none" \/ folder[f] \in processed
             /\ listing' = listing \ {f}
             /\ UNCHANGED <<at, file, hash, doc, nextDoc>>
          \/ /\ folder[f] \in {"none", "unreadable"}
             /\ listing' = {} /\ at' = [at EXCEPT !["watcher"] = "idle"]
             /\ UNCHANGED <<file, hash, doc, nextDoc>>
  /\ UNCHANGED <<style, latest, subject, base, folder, processed, report, found, affected, handled,
                 queue, crashed>>

EndScan ==
  /\ listing = {} /\ Move("watcher", "next", "idle")
  /\ UNCHANGED <<style, latest, subject, base, folder, listing, file, hash, processed, report, doc,
                 found, affected, handled, queue, nextDoc, crashed>>

\* process_single_file, called between scans
ProcessSingleFile(f) ==
  /\ at["watcher"] = "idle" /\ Take(f)
  /\ UNCHANGED <<style, latest, subject, base, folder, listing, processed, report, found, affected,
                 handled, queue, crashed>>

\* the extractor reads what the file holds by now, or raises
ExtractFile ==
  /\ at["watcher"] = "extract"
  /\ \/ folder[file] \in Contents /\ Extract("watcher", "extract")
     \/ Move("watcher", "extract", "failed") /\ UNCHANGED <<found, affected>>
  /\ UNCHANGED <<style, latest, subject, base, folder, listing, file, hash, processed, report, doc,
                 handled, queue, nextDoc, crashed>>

\* the event, and the hash whether or not the update went well
Event ==
  /\ Move("watcher", "audit", "next") \/ Move("watcher", "failed", "next")
  /\ processed' = processed \cup {hash}
  /\ UNCHANGED <<style, latest, subject, base, folder, listing, file, hash, report, doc, found,
                 affected, handled, queue, nextDoc, crashed>>

-----------------------------------------------------------------------------
(* The endpoint *)

\* another run of the pile completes: a run is of one document, which may be one
\* that was uploaded here
CompleteRun ==
  /\ latest + 1 \in DOMAIN Reports /\ latest' = latest + 1
  /\ subject' \in Pile
  /\ UNCHANGED <<style, base, folder, listing, file, hash, processed, at, report, doc, found,
                 affected, handled, queue, nextDoc, crashed>>

\* the pile, the latest completed run and its report, before the file is read
Find(u) ==
  /\ \/ Move(u, "idle", "refused") /\ UNCHANGED <<report, base>>
     \/ /\ latest # 0 /\ Move(u, "idle", "read")
        /\ report' = [report EXCEPT ![u] = Build(latest, subject)]
        /\ base' = [base EXCEPT ![u] = subject]
  /\ UNCHANGED <<style, latest, subject, folder, listing, file, hash, processed, doc, found,
                 affected, handled, queue, nextDoc, crashed>>

\* checks, the file and its rows, the text; a text that cannot be extracted is
\* refused after the document was stored
Store(u) ==
  /\ \/ \E end \in {"refused", "failed"} : Move(u, "read", end)
        /\ UNCHANGED <<doc, nextDoc>>
     \/ \E next \in {"extract", "refused"} : Move(u, "read", next)
        /\ doc' = [doc EXCEPT ![u] = nextDoc] /\ nextDoc' = nextDoc + 1
  /\ UNCHANGED <<style, latest, subject, base, folder, listing, file, hash, processed, report, found,
                 affected, handled, queue, crashed>>

\* classification and extraction fall back on patterns when the model fails
ExtractUpload(u) ==
  /\ Extract(u, "extract")
  /\ UNCHANGED <<style, latest, subject, base, folder, listing, file, hash, processed, report, doc,
                 handled, queue, nextDoc, crashed>>

\* the audit event, whose failure fails the request, and the answer
Audit(u) ==
  /\ Move(u, "audit", "answered") \/ Move(u, "audit", "failed")
  /\ UNCHANGED <<style, latest, subject, base, folder, listing, file, hash, processed, report, doc,
                 found, affected, handled, queue, nextDoc, crashed>>

-----------------------------------------------------------------------------
\* the process dies; a watcher started again has a deliverable given to it
Crash ==
  /\ ~crashed /\ crashed' = TRUE
  /\ at' = [w \in Workers |->
              IF w = "watcher" THEN "idle"
              ELSE IF at[w] \in {"idle", "answered", "refused"} THEN at[w] ELSE "failed"]
  /\ \E r \in DOMAIN Reports \cup {0}, d \in Pile :
       /\ report' = [report EXCEPT !["watcher"] = Build(r, d)]
       /\ base' = [base EXCEPT !["watcher"] = d]
  /\ handled' = [handled EXCEPT !["watcher"] = {}]
  /\ listing' = {} /\ processed' = {}
  /\ UNCHANGED <<style, latest, subject, folder, file, hash, doc, found, affected,
                 queue, nextDoc>>

Watch == \/ NextFile \/ EndScan \/ ExtractFile \/ Event \/ Finish("watcher")
         \/ \E f \in Facts : UpdateSection("watcher", f)
Serve(u) == \/ Find(u) \/ Store(u) \/ ExtractUpload(u) \/ Finish(u) \/ Audit(u)
            \/ \E f \in Facts : UpdateSection(u, f)

Next == \/ Watch \/ Scan \/ CompleteRun \/ Crash
        \/ \E f \in Files : Touch(f) \/ ProcessSingleFile(f)
        \/ \E u \in Uploads : Serve(u)

Spec == Init /\ [][Next]_vars

(* whoever owns the watcher scans again and again, and a scan gets on *)
FairSpec == Spec /\ WF_vars(Scan) /\ WF_vars(Watch)

-----------------------------------------------------------------------------
(* Properties *)

\* A section changes only by claims of the new document that agree with what
\* its last claim said; claims of other documents stay.  (The watcher's
\* deliverable is replaced when the process starts anew.)
OnlyAgreementIsMerged ==
  [][\A w \in Workers, k \in Keys :
       report'[w][k] # report[w][k] =>
         \/ crashed' # crashed \/ at[w] = "idle"
         \/ \E new \in SUBSET Found :
              /\ report'[w][k].claims = report[w][k].claims \cup [doc : {doc[w]}, value : new]
              /\ report[w][k].last \in Values =>
                   \A v \in new \cap Values : v = report[w][k].last]_vars

\* Of a document whose update ended well, every value is in a section of the
\* deliverable or was put to a reviewer, whatever failed, arrived or was
\* decided in between.
NothingSaidIsLost ==
  \A w \in Workers : \A h \in handled[w] : \A f \in Facts :
    \A v \in h.found[f].said \cap Values :
      \/ \E c \in report[w][Key("typed", f)].claims : c.value = v
      \/ [doc |-> h.doc, fact |-> f, value |-> v] \in queue

\* What was put to a reviewer as a contradiction is not in a deliverable,
\* whichever document, update or failure comes before or after: a section takes
\* all of a document's claims or none.  Only a deliverable rebuilt from a run of
\* that very document may have the value, and then as a claim of the run.
ConflictsAreNotApplied ==
  \A w \in Workers, i \in queue : \A c \in report[w][Key("typed", i.fact)].claims :
    c.doc = i.doc /\ c.value = i.value =>
      i.doc = base[w] /\ \E r \in DOMAIN Reports : Reports[r][i.fact] = i.value

\* A file that stays as it is, is taken up by some scan, whatever comes, changes
\* or fails.  Two things can keep every scan from it, each in a file whose name
\* comes before: one that cannot be read again and again, or one that is removed
\* again and again between the listing and the hash.
Removal(f) == \E g \in Files : g < f /\ folder[g] # "none" /\ folder'[g] = "none"
StableFileIsProcessed ==
  \A f \in Files, c \in Contents :
    <>[](folder[f] = c) =>
      \/ []<>(c \in processed)
      \/ []<>(\E g \in Files : g < f /\ folder[g] = "unreadable")
      \/ []<><<Removal(f)>>_vars

=============================================================================
