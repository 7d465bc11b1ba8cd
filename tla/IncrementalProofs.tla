------------------------- MODULE IncrementalProofs -------------------------
(***************************************************************************)
(* Proofs about IncrementalUpdate, for any facts, values, documents, runs, *)
(* files and uploads.  The argument: a document number is in the hands of  *)
(* one worker, so nothing else speaks of it; while its update is under way *)
(* the affected sections still to be processed say nothing of it either,   *)
(* and each of the others is settled, by its claims, by items, or by being *)
(* empty until the end.                                                    *)
(***************************************************************************)
EXTENDS IncrementalUpdate, TLAPS

Typed(f) == Key("typed", f)
Busy(w)  == at[w] \in {"extract", "update"}

\* A value of a document is in its section or in front of a reviewer.
Kept(w, d, f, v) ==
  \/ \E c \in report[w][Typed(f)].claims : c.value = v
  \/ [doc |-> d, fact |-> f, value |-> v] \in queue

\* Numbers of documents are drawn once and used by their worker alone.
DocsAreOwn ==
  /\ nextDoc \in Nat \ {0} /\ subject < nextDoc
  /\ \A w \in Workers : doc[w] < nextDoc /\ base[w] < nextDoc
  /\ \A w \in Workers : Busy(w) => doc[w] \in 1..nextDoc - 1 /\ base[w] # doc[w]
  /\ \A w, x \in Workers : Busy(w) /\ Busy(x) /\ doc[w] = doc[x] => w = x
  /\ \A w \in Workers, k \in Keys : \A c \in report[w][k].claims : c.doc < nextDoc
  /\ \A i \in queue : i.doc \in 1..nextDoc - 1

\* What was said of a document whose update is under way.
NotYetSaid(w) ==
  Busy(w) =>
    /\ \A i \in queue : i.doc = doc[w] =>
         /\ at[w] = "update" /\ i.fact \notin affected[w]
         /\ report[w][Typed(i.fact)].claims # {}
    /\ \A x \in Workers, k \in Keys : \A c \in report[x][k].claims :
         c.doc = doc[w] /\ base[x] # doc[w] => at[w] = "update" /\ k.fact \notin affected[w]

\* The sections an update has still to process, and those it has not.
Progress(w) ==
  at[w] = "update" =>
    /\ \A f \in affected[w] : report[w][Typed(f)].claims # {} /\ found[w][f].said # {}
    /\ \A f \in Facts \ affected[w] :
         \/ report[w][Typed(f)].claims = {}
         \/ \A v \in found[w][f].said \cap Values : Kept(w, doc[w], f, v)

\* A section that is there ends with the value of one of its claims.
SectionsAreWhole ==
  \A w \in Workers, k \in Keys :
    IF report[w][k].claims = {} THEN report[w][k].last = "none"
    ELSE \E c \in report[w][k].claims : c.value = report[w][k].last

\* What a deliverable has of the document it was rebuilt from is a run's.
BaseIsOfRuns ==
  \A w \in Workers, k \in Keys : \A c \in report[w][k].claims :
    c.doc = base[w] => \E r \in DOMAIN Reports : Reports[r][k.fact] = c.value

\* What was put to a reviewer is in no other deliverable.
ConflictsStayApart ==
  \A w \in Workers, i \in queue :
    i.doc # base[w] =>
      \A c \in report[w][Typed(i.fact)].claims : ~(c.doc = i.doc /\ c.value = i.value)

\* A request that has not begun has handled nothing.
OnePass == \A u \in Uploads : at[u] = "idle" => handled[u] = {}

\* The watcher works on a content: what it hashes was there.
HashIsReal ==
  at["watcher"] \in {"extract", "update", "audit", "failed"} => hash \in Contents

IncrementalInv ==
  /\ TypeOK /\ HashIsReal
  /\ DocsAreOwn
  /\ \A w \in Workers : NotYetSaid(w) /\ Progress(w)
  /\ SectionsAreWhole
  /\ OnePass
  /\ NothingSaidIsLost
  /\ BaseIsOfRuns
  /\ ConflictsStayApart
-----------------------------------------------------------------------------
(* Sections *)

\* Keys of different facts are different.
LEMMA KeysDiffer ==
  /\ \A f \in Facts : Typed(f) \in Keys /\ Typed(f).fact = f /\ Typed(f).style = "typed"
  /\ \A f, g \in Facts : Typed(f) = Typed(g) => f = g
  /\ \A k \in Keys : k.style = "typed" => k = Typed(k.fact) /\ k.fact \in Facts
BY DEF Typed, Key, Keys

\* "not_found" and "none" are no values of documents.
LEMMA NamesDiffer ==
  /\ "not_found" \notin Values /\ "none" \notin Values /\ "none" \notin Found
  /\ Values \subseteq Found
BY ValuesAssumption DEF Found

\* The claims of a statement are claims.
LEMMA StatementClaims ==
  ASSUME NEW s \in Statement, NEW d \in Nat
  PROVE  /\ s.said \subseteq Found /\ s.last \in Found \cup {"none"}
         /\ s.said = {} => s.last = "none"
         /\ s.said # {} => s.last \in s.said
         /\ [doc : {d}, value : s.said] \subseteq Claim
         /\ \A c \in [doc : {d}, value : s.said] : c.doc = d /\ c.value \in s.said
         /\ \A v \in s.said : \E c \in [doc : {d}, value : s.said] : c.value = v
<1>1. /\ s.said \subseteq Found /\ s.last \in Found \cup {"none"}
      /\ s.said = {} => s.last = "none"
      /\ s.said # {} => s.last \in s.said
  BY DEF Statement
<1>2. \A v \in s.said : [doc |-> d, value |-> v] \in [doc : {d}, value : s.said]
  OBVIOUS
<1> QED BY <1>1, <1>2 DEF Claim

\* What a run leaves is a deliverable whose claims are the run's, of its document.
LEMMA BuildIsWhole ==
  ASSUME NEW r \in DOMAIN Reports \cup {0}, NEW d \in Nat
  PROVE  /\ Build(r, d) \in [Keys -> Section]
         /\ \A k \in Keys : \A c \in Build(r, d)[k].claims :
              c.doc = d /\ \E q \in DOMAIN Reports : Reports[q][k.fact] = c.value
         /\ \A k \in Keys :
              IF Build(r, d)[k].claims = {} THEN Build(r, d)[k].last = "none"
              ELSE \E c \in Build(r, d)[k].claims : c.value = Build(r, d)[k].last
<1> SUFFICES ASSUME NEW k \in Keys
             PROVE  /\ Build(r, d)[k] \in Section
                    /\ \A c \in Build(r, d)[k].claims :
                         c.doc = d /\ \E q \in DOMAIN Reports : Reports[q][k.fact] = c.value
                    /\ IF Build(r, d)[k].claims = {} THEN Build(r, d)[k].last = "none"
                       ELSE \E c \in Build(r, d)[k].claims : c.value = Build(r, d)[k].last
  BY DEF Build
<1>1. CASE r = 0 \/ k.style # style \/ Reports[r][k.fact] = "none"
  <2>1. Build(r, d)[k] = NoSection BY <1>1 DEF Build
  <2> QED BY <2>1 DEF NoSection, Section
<1>2. CASE ~(r = 0 \/ k.style # style \/ Reports[r][k.fact] = "none")
  <2> DEFINE v == Reports[r][k.fact]
  <2>1. Build(r, d)[k] = [claims |-> {[doc |-> d, value |-> v]}, last |-> v]
    BY <1>2 DEF Build
  <2>2. v \in Found /\ \E q \in DOMAIN Reports : Reports[q][k.fact] = v
    <3>1. Reports[r] \in [Facts -> Found \cup {"none"}] BY <1>2, ReportsAssumption
    <3>2. k.fact \in Facts BY DEF Keys
    <3> QED BY <1>2, <3>1, <3>2
  <2> HIDE DEF v
  <2>3. [doc |-> d, value |-> v] \in Claim BY <2>2 DEF Claim
  <2>4. Build(r, d)[k] \in Section BY <2>1, <2>2, <2>3 DEF Section
  <2>5. Build(r, d)[k].claims = {[doc |-> d, value |-> v]} /\ Build(r, d)[k].last = v
    BY <2>1
  <2>6. [doc |-> d, value |-> v].doc = d /\ [doc |-> d, value |-> v].value = v OBVIOUS
  <2>7. \A c \in Build(r, d)[k].claims :
          c.doc = d /\ \E q \in DOMAIN Reports : Reports[q][k.fact] = c.value
    BY <2>2, <2>5, <2>6
  <2>8. \E c \in Build(r, d)[k].claims : c.value = Build(r, d)[k].last BY <2>5, <2>6
  <2>9. Build(r, d)[k].claims # {} BY <2>5
  <2> QED BY <2>4, <2>7, <2>8, <2>9
<1> QED BY <1>1, <1>2

\* Where nothing contradicts, merging only adds the claims of the document, and
\* they agree with what the section said last.
LEMMA MergeAdds ==
  ASSUME NEW section \in Section, NEW s \in Statement, NEW d \in Nat, s.said # {},
         \A c \in section.claims : c.doc # d
  PROVE  LET new == Merge(section, s, d)
         IN  /\ new \in Section
             /\ new.claims = section.claims \cup [doc : {d}, value : s.said]
             /\ \E c \in new.claims : c.value = new.last
             /\ \A v \in s.said : \E c \in new.claims : c.value = v
<1> DEFINE new == Merge(section, s, d)
<1>1. section.claims \subseteq Claim BY DEF Section
<1>2. {c \in section.claims : c.doc # d} = section.claims OBVIOUS
<1>3. new.claims = section.claims \cup [doc : {d}, value : s.said] /\ new.last = s.last
  BY <1>2 DEF Merge
<1>4. new.claims \subseteq Claim BY <1>1, <1>3, StatementClaims
<1>5. s.last \in s.said /\ s.said \subseteq Found BY StatementClaims
<1>6. new \in Section
  <2>1. new = [claims |-> new.claims, last |-> new.last] BY DEF Merge
  <2> QED BY <1>3, <1>4, <1>5, <2>1 DEF Section
<1>7. \A v \in s.said : \E c \in new.claims : c.value = v
  BY <1>3, StatementClaims
<1> QED BY <1>3, <1>5, <1>6, <1>7

\* A section of the end of an update: as it was, or made of the claims of the
\* document.
Made(r, e, d, new, k) ==
  \/ new[k] = r[k] /\ (k.style = "typed" /\ r[k].claims = {} => e[k.fact].said = {})
  \/ /\ k.style = "typed" /\ r[k].claims = {} /\ e[k.fact].said # {}
     /\ new[k] \in Section
     /\ new[k].claims = [doc : {d}, value : e[k.fact].said]
     /\ \E c \in new[k].claims : c.value = new[k].last
     /\ \A v \in e[k.fact].said : \E c \in new[k].claims : c.value = v

\* Each section of the end of an update is one of the two.
LEMMA NewSectionsAdd ==
  ASSUME NEW r \in [Keys -> Section], NEW e \in [Facts -> Statement], NEW d \in Nat,
         NEW k \in Keys
  PROVE  Made(r, e, d, NewSections(r, e, d), k)
<1> DEFINE new == NewSections(r, e, d)
<1>1. CASE ~(k.style = "typed" /\ r[k].claims = {} /\ e[k.fact].said # {})
  BY <1>1 DEF NewSections, Made
<1>2. CASE k.style = "typed" /\ r[k].claims = {} /\ e[k.fact].said # {}
  <2> DEFINE s == e[k.fact]
  <2>1. k.fact \in Facts /\ s \in Statement BY KeysDiffer, <1>2
  <2>2. new[k] = [claims |-> [doc : {d}, value : s.said], last |-> s.last]
    BY <1>2 DEF NewSections
  <2> HIDE DEF s
  <2>3. new[k].claims = [doc : {d}, value : s.said] /\ new[k].last = s.last
    <3> DEFINE all == [doc : {d}, value : s.said]
    <3>1. new[k] = [claims |-> all, last |-> s.last] BY <2>2
    <3> HIDE DEF all, new
    <3>2. new[k].claims = all /\ new[k].last = s.last BY <3>1
    <3> QED BY <3>2 DEF all
  <2>4. s.said # {} BY <1>2 DEF s
  <2>5. new[k] \in Section BY <2>1, <2>2, StatementClaims DEF Section
  <2>6. \A v \in s.said : \E c \in new[k].claims : c.value = v
    BY <2>1, <2>3, StatementClaims
  <2>7. s.last \in s.said BY <2>1, <2>4, StatementClaims
  <2> HIDE DEF new
  <2>8. /\ new[k].claims = [doc : {d}, value : e[k.fact].said]
        /\ \E c \in new[k].claims : c.value = new[k].last
        /\ \A v \in e[k.fact].said : \E c \in new[k].claims : c.value = v
    BY <2>3, <2>6, <2>7 DEF s
  <2>9. Made(r, e, d, new, k) BY <1>2, <2>5, <2>8 DEF Made
  <2> QED BY <2>9 DEF new
<1> QED BY <1>1, <1>2
-----------------------------------------------------------------------------
\* The invariant holds before the first document.
LEMMA InitInv == Init => IncrementalInv
<1> SUFFICES ASSUME Init PROVE IncrementalInv OBVIOUS
<1>1. PICK r \in DOMAIN Reports \cup {0} :
        report = [w \in Workers |-> IF w = "watcher" THEN Build(r, 0) ELSE Nothing]
  BY DEF Init
<1>2. Nothing \in [Keys -> Section] /\ \A k \in Keys : Nothing[k] = NoSection
  BY DEF Nothing, NoSection, Section
<1>3. NoSection.claims = {} /\ NoSection.last = "none" BY DEF NoSection
<1>4. /\ report \in [Workers -> [Keys -> Section]]
      /\ \A w \in Workers, k \in Keys : \A c \in report[w][k].claims : c.doc = 0
      /\ SectionsAreWhole /\ BaseIsOfRuns
  <2>1. "watcher" \in Workers /\ report["watcher"] = Build(r, 0)
        /\ \A w \in Workers : w # "watcher" => report[w] = Nothing
    BY <1>1 DEF Workers
  <2>2. /\ Build(r, 0) \in [Keys -> Section]
        /\ \A k \in Keys : \A c \in Build(r, 0)[k].claims :
             c.doc = 0 /\ \E q \in DOMAIN Reports : Reports[q][k.fact] = c.value
        /\ \A k \in Keys : IF Build(r, 0)[k].claims = {} THEN Build(r, 0)[k].last = "none"
                           ELSE \E c \in Build(r, 0)[k].claims : c.value = Build(r, 0)[k].last
    BY BuildIsWhole
  <2>3. report \in [Workers -> [Keys -> Section]]
    BY <1>1, <1>2, <2>2
  <2>4. \A w \in Workers : w # "watcher" =>
          \A k \in Keys : report[w][k].claims = {} /\ report[w][k].last = "none"
    BY <1>2, <1>3, <2>1
  <2>5. SectionsAreWhole BY <2>1, <2>2, <2>4 DEF SectionsAreWhole
  <2>6. BaseIsOfRuns BY <2>1, <2>2, <2>4 DEF BaseIsOfRuns
  <2> QED BY <2>1, <2>2, <2>3, <2>4, <2>5, <2>6
<1>5. TypeOK
  <2>1. Silent \in Statement BY DEF Silent, Statement
  <2>2. latest \in DOMAIN Reports \cup {0} BY DEF Init
  <2> QED BY <1>4, <2>1, <2>2 DEF Init, TypeOK, Places
<1>6. /\ \A w \in Workers : at[w] = "idle" /\ handled[w] = {} /\ doc[w] = 0 /\ base[w] = 0
      /\ queue = {} /\ nextDoc = 1 /\ subject = 0
  BY DEF Init, Workers
<1>7. DocsAreOwn BY <1>4, <1>6 DEF DocsAreOwn, Busy
<1>8. ASSUME NEW w \in Workers PROVE NotYetSaid(w) /\ Progress(w)
  BY <1>6 DEF NotYetSaid, Progress, Busy
<1>9. HashIsReal /\ OnePass /\ NothingSaidIsLost /\ ConflictsStayApart
  BY <1>6 DEF HashIsReal, OnePass, NothingSaidIsLost, ConflictsStayApart, Workers
<1> QED BY <1>4, <1>5, <1>7, <1>8, <1>9 DEF IncrementalInv

\* Moving a worker keeps places places.
LEMMA MoveTypes ==
  ASSUME TypeOK, NEW w \in Workers, NEW from, NEW to \in Places, Move(w, from, to)
  PROVE  /\ at' \in [Workers -> Places] /\ at[w] = from /\ at'[w] = to
         /\ \A x \in Workers : x # w => at'[x] = at[x]
BY DEF Move, TypeOK

\* Steps that change no deliverable, item, extraction or number: a worker that
\* is busy after them was so before.
LEMMA Frame ==
  ASSUME IncrementalInv, TypeOK', HashIsReal',
         UNCHANGED <<report, base, queue, handled, found, affected, doc, nextDoc>>,
         subject' \in Pile \cup {subject},
         \A w \in Workers : \/ at'[w] = at[w] \/ at'[w] \notin {"idle", "extract", "update"}
                            \/ w = "watcher" /\ at'[w] = "idle"
  PROVE  IncrementalInv'
<1> USE DEF IncrementalInv
<1>1. "watcher" \notin Uploads /\ \A u \in Uploads : u \in Workers
  BY WorkersAssumption DEF Workers
<1>2. SectionsAreWhole' /\ NothingSaidIsLost' /\ BaseIsOfRuns' /\ ConflictsStayApart'
  BY DEF SectionsAreWhole, NothingSaidIsLost, BaseIsOfRuns, ConflictsStayApart
<1>3. OnePass' BY <1>1 DEF OnePass
<1>4. \A w \in Workers : Busy(w)' => Busy(w) /\ at'[w] = at[w] BY DEF Busy
<1>5. DocsAreOwn'
  <2>1. subject' < nextDoc BY <1>1 DEF Pile, DocsAreOwn
  <2> QED BY <1>4, <2>1 DEF DocsAreOwn
<1>6. ASSUME NEW w \in Workers PROVE NotYetSaid(w)' /\ Progress(w)'
  <2>1. NotYetSaid(w)' BY <1>4 DEF NotYetSaid
  <2>2. at'[w] = "update" => at[w] = "update" OBVIOUS
  <2>3. Progress(w)' BY <2>2 DEF Progress, Kept
  <2> QED BY <2>1, <2>3
<1> QED BY <1>2, <1>3, <1>5, <1>6

\* Steps in which a worker draws a number, and starts with it or gives up.
LEMMA DrawFrame ==
  ASSUME IncrementalInv, TypeOK', HashIsReal',
         UNCHANGED <<report, subject, base, queue, handled, found, affected>>,
         NEW w \in Workers,
         nextDoc' = nextDoc + 1, doc' = [doc EXCEPT ![w] = nextDoc],
         \A x \in Workers \ {w} : at'[x] = at[x],
         at'[w] \notin {"idle", "update"}
  PROVE  IncrementalInv'
<1> USE DEF IncrementalInv
<1>1. /\ nextDoc \in Nat \ {0} /\ doc \in [Workers -> Nat] /\ "watcher" \notin Uploads
      /\ \A u \in Uploads : u \in Workers
  BY WorkersAssumption DEF DocsAreOwn, TypeOK, Workers
<1>2. SectionsAreWhole' /\ NothingSaidIsLost' /\ BaseIsOfRuns' /\ ConflictsStayApart'
  BY DEF SectionsAreWhole, NothingSaidIsLost, BaseIsOfRuns, ConflictsStayApart
<1>3. OnePass' BY <1>1 DEF OnePass
<1>4. doc'[w] = nextDoc /\ \A x \in Workers \ {w} : doc'[x] = doc[x] BY <1>1
<1>5. DocsAreOwn'
  <2>0. /\ subject' < nextDoc'
        /\ \A x \in Workers : doc'[x] < nextDoc' /\ base'[x] < nextDoc'
    <3>1. subject \in Nat /\ \A x \in Workers : base[x] \in Nat /\ doc[x] \in Nat
      BY DEF TypeOK
    <3> QED BY <1>1, <1>4, <3>1 DEF DocsAreOwn
  <2>1. \A x \in Workers : Busy(x)' => doc'[x] \in 1..nextDoc' - 1 /\ base'[x] # doc'[x]
    BY <1>1, <1>4 DEF Busy, DocsAreOwn
  <2>2. \A x, y \in Workers : Busy(x)' /\ Busy(y)' /\ doc'[x] = doc'[y] => x = y
    BY <1>1, <1>4 DEF Busy, DocsAreOwn
  <2>3. \A x \in Workers, k \in Keys : \A c \in report'[x][k].claims : c.doc < nextDoc'
    <3>1. \A x \in Workers, k \in Keys : \A c \in report[x][k].claims : c.doc \in Nat
      BY DEF TypeOK, Section, Claim
    <3> QED BY <1>1, <3>1 DEF DocsAreOwn
  <2>4. \A i \in queue' : i.doc \in 1..nextDoc' - 1 BY <1>1 DEF DocsAreOwn
  <2> QED BY <1>1, <2>0, <2>1, <2>2, <2>3, <2>4 DEF DocsAreOwn
<1>6. ASSUME NEW x \in Workers PROVE NotYetSaid(x)' /\ Progress(x)'
  <2>1. CASE x = w
    <3>1. \A i \in queue : i.doc # nextDoc BY <1>1 DEF DocsAreOwn
    <3>2. \A y \in Workers, k \in Keys : \A c \in report[y][k].claims : c.doc # nextDoc
      BY <1>1 DEF DocsAreOwn
    <3> QED BY <1>4, <2>1, <3>1, <3>2 DEF NotYetSaid, Progress
  <2>2. CASE x # w
    <3>1. at'[x] = at[x] /\ doc'[x] = doc[x] BY <1>4, <2>2
    <3> QED BY <3>1 DEF NotYetSaid, Progress, Busy, Kept
  <2> QED BY <2>1, <2>2
<1> QED BY <1>2, <1>3, <1>5, <1>6

\* The steps of the watcher and of a request outside the engine.
LEMMA QuietSteps ==
  ASSUME IncrementalInv,
         \/ \E f \in Files : Touch(f) \/ ProcessSingleFile(f)
         \/ Scan \/ NextFile \/ EndScan \/ Event \/ CompleteRun
         \/ \E u \in Uploads : Store(u) \/ Audit(u)
         \/ UNCHANGED vars
  PROVE  IncrementalInv'
<1> USE DEF IncrementalInv
<1>1. /\ TypeOK /\ "watcher" \in Workers /\ nextDoc \in Nat
      /\ \A u \in Uploads : u \in Workers /\ u # "watcher"
  BY WorkersAssumption DEF Workers, TypeOK
<1>2. ASSUME NEW f \in Files, Touch(f) PROVE IncrementalInv'
  <2>1. TypeOK' /\ HashIsReal' BY <1>1, <1>2 DEF Touch, TypeOK, HashIsReal
  <2>2. UNCHANGED <<at, report, subject, base, queue, handled, found, affected, doc, nextDoc>>
    BY <1>2 DEF Touch
  <2> QED BY <2>1, <2>2, Frame
<1>3. CASE Scan
  <2>1. /\ at' \in [Workers -> Places] /\ at'["watcher"] = "next"
        /\ \A x \in Workers : x # "watcher" => at'[x] = at[x]
    BY <1>1, <1>3, MoveTypes DEF Scan, Places
  <2>2. TypeOK' /\ HashIsReal' BY <1>1, <1>3, <2>1 DEF Scan, TypeOK, HashIsReal
  <2>3. UNCHANGED <<report, subject, base, queue, handled, found, affected, doc, nextDoc>>
    BY <1>3 DEF Scan
  <2> QED BY <2>1, <2>2, <2>3, Frame
<1>4. ASSUME NEW f \in Files, Take(f)
      PROVE  /\ at' \in [Workers -> Places] /\ at'["watcher"] = "extract"
             /\ \A x \in Workers \ {"watcher"} : at'[x] = at[x]
             /\ file' \in Files /\ hash' \in Contents
             /\ doc' = [doc EXCEPT !["watcher"] = nextDoc]
             /\ doc' \in [Workers -> Nat] /\ nextDoc' = nextDoc + 1
  BY <1>1, <1>4 DEF Take, TypeOK, Places
<1>5. ASSUME NEW f \in Files, ProcessSingleFile(f) PROVE IncrementalInv'
  <2>1. Take(f) BY <1>5 DEF ProcessSingleFile
  <2>2. UNCHANGED <<style, latest, subject, base, folder, listing, processed, report,
                    found, affected, handled, queue, crashed>>
    BY <1>5 DEF ProcessSingleFile
  <2>3. TypeOK' /\ HashIsReal' BY <1>1, <1>4, <2>1, <2>2 DEF TypeOK, HashIsReal
  <2>4. at'["watcher"] \notin {"idle", "update"} BY <1>4, <2>1
  <2> QED BY <1>1, <1>4, <2>1, <2>2, <2>3, <2>4, DrawFrame
<1>6. CASE NextFile
  <2>1. PICK f \in listing :
          \/ Take(f) /\ listing' = listing \ {f}
          \/ /\ listing' = listing \ {f}
             /\ UNCHANGED <<at, file, hash, doc, nextDoc>>
          \/ /\ listing' = {} /\ at' = [at EXCEPT !["watcher"] = "idle"]
             /\ UNCHANGED <<file, hash, doc, nextDoc>>
    BY <1>6 DEF NextFile
  <2>2. f \in Files BY <1>1 DEF TypeOK
  <2>3. UNCHANGED <<style, latest, subject, base, folder, processed, report, found,
                    affected, handled, queue, crashed>>
    BY <1>6 DEF NextFile
  <2>4. CASE Take(f) /\ listing' = listing \ {f}
    <3>1. TypeOK' /\ HashIsReal'
      BY <1>1, <1>4, <2>2, <2>3, <2>4 DEF TypeOK, HashIsReal
    <3>2. at'["watcher"] \notin {"idle", "update"} BY <1>4, <2>2, <2>4
    <3> QED BY <1>1, <1>4, <2>2, <2>3, <2>4, <3>1, <3>2, DrawFrame
  <2>5. CASE listing' = listing \ {f} /\ UNCHANGED <<at, file, hash, doc, nextDoc>>
    <3>1. TypeOK' /\ HashIsReal' BY <1>1, <2>3, <2>5 DEF TypeOK, HashIsReal
    <3> QED BY <2>3, <2>5, <3>1, Frame
  <2>6. CASE /\ listing' = {} /\ at' = [at EXCEPT !["watcher"] = "idle"]
             /\ UNCHANGED <<file, hash, doc, nextDoc>>
    <3>1. /\ at' \in [Workers -> Places] /\ at'["watcher"] = "idle"
          /\ \A x \in Workers : x # "watcher" => at'[x] = at[x]
      BY <1>1, <2>6 DEF TypeOK, Places
    <3>2. TypeOK' /\ HashIsReal' BY <1>1, <2>3, <2>6, <3>1 DEF TypeOK, HashIsReal
    <3> QED BY <2>3, <2>6, <3>1, <3>2, Frame
  <2> QED BY <2>1, <2>4, <2>5, <2>6
<1>7. CASE EndScan
  <2>1. /\ at' \in [Workers -> Places] /\ at'["watcher"] = "idle"
        /\ \A x \in Workers : x # "watcher" => at'[x] = at[x]
    BY <1>1, <1>7, MoveTypes DEF EndScan, Places
  <2>2. TypeOK' /\ HashIsReal' BY <1>1, <1>7, <2>1 DEF EndScan, TypeOK, HashIsReal
  <2>3. UNCHANGED <<report, subject, base, queue, handled, found, affected, doc, nextDoc>>
    BY <1>7 DEF EndScan
  <2> QED BY <2>1, <2>2, <2>3, Frame
<1>8. CASE Event
  <2>1. /\ at' \in [Workers -> Places] /\ at'["watcher"] = "next"
        /\ at["watcher"] \in {"audit", "failed"}
        /\ \A x \in Workers : x # "watcher" => at'[x] = at[x]
    BY <1>1, <1>8, MoveTypes DEF Event, Places
  <2>2. processed' \subseteq Contents BY <1>1, <1>8, <2>1 DEF Event, TypeOK, HashIsReal
  <2>3. TypeOK' /\ HashIsReal' BY <1>1, <1>8, <2>1, <2>2 DEF Event, TypeOK, HashIsReal
  <2>4. UNCHANGED <<report, subject, base, queue, handled, found, affected, doc, nextDoc>>
    BY <1>8 DEF Event
  <2> QED BY <2>1, <2>3, <2>4, Frame
<1>9. CASE CompleteRun
  <2>0. subject' \in Nat BY <1>1, <1>9 DEF CompleteRun, Pile, TypeOK
  <2>1. TypeOK' /\ HashIsReal' BY <1>1, <1>9, <2>0 DEF CompleteRun, TypeOK, HashIsReal
  <2>2. /\ UNCHANGED <<at, report, base, queue, handled, found, affected, doc, nextDoc>>
        /\ subject' \in Pile
    BY <1>9 DEF CompleteRun
  <2> QED BY <2>1, <2>2, Frame
<1>10. ASSUME NEW u \in Uploads, Store(u) PROVE IncrementalInv'
  <2> USE <1>1
  <2>1. UNCHANGED <<style, latest, subject, base, folder, listing, file, hash,
                    processed, report, found, affected, handled, queue, crashed>>
    BY <1>10 DEF Store
  <2>2. CASE \E end \in {"refused", "failed"} : Move(u, "read", end) /\ UNCHANGED <<doc, nextDoc>>
    <3>1. /\ at' \in [Workers -> Places] /\ at'[u] \in {"refused", "failed"}
          /\ \A x \in Workers : x # u => at'[x] = at[x]
      BY <2>2, MoveTypes DEF Places
    <3>2. TypeOK' /\ HashIsReal' BY <2>1, <2>2, <3>1 DEF TypeOK, HashIsReal
    <3> QED BY <2>1, <2>2, <3>1, <3>2, Frame
  <2>3. CASE /\ \E next \in {"extract", "refused"} : Move(u, "read", next)
             /\ doc' = [doc EXCEPT ![u] = nextDoc] /\ nextDoc' = nextDoc + 1
    <3>1. /\ at' \in [Workers -> Places] /\ at'[u] \in {"extract", "refused"}
          /\ \A x \in Workers \ {u} : at'[x] = at[x]
      BY <2>3, MoveTypes DEF Places
    <3>2. doc' \in [Workers -> Nat] BY <2>3 DEF TypeOK
    <3>3. TypeOK' /\ HashIsReal' BY <2>1, <2>3, <3>1, <3>2 DEF TypeOK, HashIsReal
    <3>4. at'[u] \notin {"idle", "update"} BY <3>1
    <3> QED BY <2>1, <2>3, <3>1, <3>3, <3>4, DrawFrame
  <2> QED BY <1>10, <2>2, <2>3 DEF Store
<1>11. ASSUME NEW u \in Uploads, Audit(u) PROVE IncrementalInv'
  <2>1. /\ at' \in [Workers -> Places] /\ at'[u] \in {"answered", "failed"}
        /\ \A x \in Workers : x # u => at'[x] = at[x]
    BY <1>1, <1>11, MoveTypes DEF Audit, Places
  <2>2. TypeOK' /\ HashIsReal' BY <1>1, <1>11, <2>1 DEF Audit, TypeOK, HashIsReal
  <2>3. UNCHANGED <<report, subject, base, queue, handled, found, affected, doc, nextDoc>>
    BY <1>11 DEF Audit
  <2> QED BY <1>1, <2>1, <2>2, <2>3, Frame
<1>12. CASE UNCHANGED vars
  <2>1. TypeOK' /\ HashIsReal' BY <1>1, <1>12 DEF vars, TypeOK, HashIsReal
  <2>2. UNCHANGED <<at, report, subject, base, queue, handled, found, affected, doc, nextDoc>>
    BY <1>12 DEF vars
  <2> QED BY <2>1, <2>2, Frame
<1> QED BY <1>2, <1>3, <1>5, <1>6, <1>7, <1>8, <1>9, <1>10, <1>11, <1>12
-----------------------------------------------------------------------------
(* The engine *)

\* What a step of worker w in its update leaves to the others: it adds claims
\* and items of its own document and nothing else.
Grown(w) ==
  /\ \A x \in Workers \ {w} :
       /\ at'[x] = at[x] /\ report'[x] = report[x] /\ found'[x] = found[x]
       /\ affected'[x] = affected[x] /\ handled'[x] = handled[x]
  /\ at[w] \in {"extract", "update"} /\ at'[w] \in {"update", "audit", "failed"}
  /\ UNCHANGED <<subject, base, doc, nextDoc>>
  /\ \A k \in Keys : \A c \in report[w][k].claims : c \in report'[w][k].claims
  /\ \A k \in Keys : \A c \in report'[w][k].claims :
       c \in report[w][k].claims \/ c.doc = doc[w]
  /\ \A i \in queue : i \in queue'
  /\ \A i \in queue' : i \in queue \/ i.doc = doc[w]
  /\ handled[w] \subseteq handled'[w]

\* The parts of the invariant that such a step cannot disturb.
LEMMA GrownFrame ==
  ASSUME IncrementalInv, NEW w \in Workers, Grown(w)
  PROVE  /\ DocsAreOwn' /\ OnePass' /\ BaseIsOfRuns'
         /\ \A x \in Workers \ {w} : NotYetSaid(x)' /\ Progress(x)'
         /\ \A x \in Workers : \A h \in handled[x] : \A f \in Facts :
              \A v \in h.found[f].said \cap Values : Kept(x, h.doc, f, v)'
<1> USE DEF IncrementalInv
<1>1. Busy(w) /\ doc[w] \in 1..nextDoc - 1 /\ base[w] # doc[w]
  BY DEF Grown, Busy, DocsAreOwn
<1>2. \A x \in Workers : Busy(x)' => Busy(x) BY DEF Grown, Busy
<1>3. DocsAreOwn'
  <2>1. nextDoc \in Nat BY DEF DocsAreOwn
  <2>2. \A x \in Workers, k \in Keys : \A c \in report'[x][k].claims : c.doc < nextDoc
    BY <1>1, <2>1 DEF Grown, DocsAreOwn
  <2>3. \A i \in queue' : i.doc \in 1..nextDoc - 1 BY <1>1 DEF Grown, DocsAreOwn
  <2> QED BY <1>2, <2>2, <2>3 DEF Grown, DocsAreOwn
<1>4. OnePass'
  <2> SUFFICES ASSUME NEW u \in Uploads, at'[u] = "idle" PROVE handled'[u] = {}
    BY DEF OnePass
  <2>1. u \in Workers BY DEF Workers
  <2>2. u # w BY DEF Grown
  <2> QED BY <2>1, <2>2 DEF Grown, OnePass
<1>5. ASSUME NEW x \in Workers \ {w} PROVE NotYetSaid(x)' /\ Progress(x)'
  <2>1. /\ at'[x] = at[x] /\ report'[x] = report[x] /\ found'[x] = found[x]
        /\ affected'[x] = affected[x] /\ doc' = doc
    BY DEF Grown
  <2>2. Busy(x) => doc[x] # doc[w] BY <1>1 DEF DocsAreOwn
  <2>3. NotYetSaid(x)'
    <3> SUFFICES ASSUME Busy(x) PROVE NotYetSaid(x)' BY <1>2 DEF NotYetSaid
    <3>1. \A i \in queue' : i.doc = doc[x] => i \in queue BY <2>2 DEF Grown
    <3>2. \A y \in Workers, k \in Keys : \A c \in report'[y][k].claims :
            c.doc = doc[x] => c \in report[y][k].claims /\ base' = base
      BY <2>2 DEF Grown
    <3> QED BY <2>1, <3>1, <3>2 DEF NotYetSaid, Busy
  <2>4. Progress(x)'
    <3>1. \A i \in queue : i \in queue' BY DEF Grown
    <3> QED BY <2>1, <3>1 DEF Progress, Kept
  <2> QED BY <2>3, <2>4
<1>6. ASSUME NEW x \in Workers, NEW h \in handled[x], NEW f \in Facts,
             NEW v \in h.found[f].said \cap Values
      PROVE  Kept(x, h.doc, f, v)'
  <2>1. Kept(x, h.doc, f, v) BY DEF NothingSaidIsLost, Typed, Kept
  <2>2. Typed(f) \in Keys BY KeysDiffer
  <2>3. \A c \in report[x][Typed(f)].claims : c \in report'[x][Typed(f)].claims
    BY <2>2 DEF Grown
  <2>4. \A i \in queue : i \in queue' BY DEF Grown
  <2> QED BY <2>1, <2>3, <2>4 DEF Kept
<1>7. BaseIsOfRuns'
  <2>1. \A x \in Workers, k \in Keys : \A c \in report'[x][k].claims :
          c.doc = base[x] => c \in report[x][k].claims
    BY <1>1 DEF Grown
  <2> QED BY <2>1 DEF Grown, BaseIsOfRuns
<1> QED BY <1>3, <1>4, <1>5, <1>6, <1>7

\* A document whose claims were extracted: its affected sections are there.
LEMMA ExtractStep ==
  ASSUME IncrementalInv, NEW w \in Workers,
         \/ Extract(w, "extract")
         \/ Move(w, "extract", "failed") /\ UNCHANGED <<found, affected>>,
         UNCHANGED <<style, latest, subject, base, folder, listing, file, hash,
                     processed, report, doc, handled, queue, nextDoc, crashed>>
  PROVE  IncrementalInv'
<1> USE DEF IncrementalInv
<1>1. /\ at' \in [Workers -> Places] /\ at[w] = "extract"
      /\ at'[w] \in {"update", "failed"}
      /\ \A x \in Workers : x # w => at'[x] = at[x]
  BY MoveTypes DEF Extract, Places
<1>2. /\ found' \in [Workers -> [Facts -> Statement]]
      /\ affected' \in [Workers -> SUBSET Facts]
      /\ \A x \in Workers \ {w} : found'[x] = found[x] /\ affected'[x] = affected[x]
      /\ at'[w] = "update" => affected'[w] = Affects(report[w], found'[w])
  <2>1. CASE Move(w, "extract", "failed") /\ UNCHANGED <<found, affected>>
    BY <2>1, MoveTypes DEF TypeOK, Places
  <2>2. CASE Extract(w, "extract")
    <3>1. PICK e \in Extractions :
            /\ found' = [found EXCEPT ![w] = e]
            /\ affected' = [affected EXCEPT ![w] = Affects(report[w], e)]
      BY <2>2 DEF Extract
    <3>2. e \in [Facts -> Statement] BY ExtractionsAssumption
    <3>3. Affects(report[w], e) \subseteq Facts BY DEF Affects
    <3> QED BY <3>1, <3>2, <3>3 DEF TypeOK
  <2> QED BY <2>1, <2>2
<1>3. TypeOK' BY <1>1, <1>2 DEF TypeOK
<1>4. HashIsReal' BY <1>1 DEF HashIsReal, Workers
<1>5. Grown(w) BY <1>1, <1>2 DEF Grown
<1>6. SectionsAreWhole' /\ NothingSaidIsLost' /\ ConflictsStayApart'
  BY DEF SectionsAreWhole, NothingSaidIsLost, ConflictsStayApart
<1>7. NotYetSaid(w)'
  <2>1. \A i \in queue : i.doc # doc[w] BY <1>1 DEF NotYetSaid, Busy
  <2>2. \A x \in Workers, k \in Keys : \A c \in report[x][k].claims :
          c.doc = doc[w] => base[x] = doc[w]
    BY <1>1 DEF NotYetSaid, Busy
  <2> QED BY <2>1, <2>2 DEF NotYetSaid
<1>8. Progress(w)'
  <2> SUFFICES ASSUME at'[w] = "update" PROVE Progress(w)' BY DEF Progress
  <2>1. affected'[w] = Affects(report[w], found'[w]) BY <1>2
  <2>2. \A f \in Facts \ affected'[w] :
          found'[w][f].said = {} \/ report[w][Typed(f)].claims = {}
    BY <2>1 DEF Affects, Typed
  <2>3. \A f \in affected'[w] :
          report[w][Typed(f)].claims # {} /\ found'[w][f].said # {}
    BY <2>1 DEF Affects, Typed
  <2> QED BY <2>2, <2>3 DEF Progress
<1> QED BY <1>3, <1>4, <1>5, <1>6, <1>7, <1>8, GrownFrame

\* One affected section: merged, or put to a reviewer.
LEMMA UpdateStep ==
  ASSUME IncrementalInv, NEW w \in Workers, NEW f \in Facts, UpdateSection(w, f)
  PROVE  IncrementalInv'
<1> DEFINE key     == Typed(f)
           section == report[w][key]
           said    == found[w][f]
           d       == doc[w]
           new     == Contradictions(section, said)
<1> USE DEF IncrementalInv
<1>1. /\ at[w] = "update" /\ f \in affected[w] /\ Busy(w)
      /\ affected' = [affected EXCEPT ![w] = @ \ {f}]
      /\ UNCHANGED <<style, latest, subject, base, folder, listing, file, hash,
                     processed, doc, found, handled, nextDoc, crashed>>
  BY DEF UpdateSection, Busy
<1>2. /\ key \in Keys /\ key.fact = f
      /\ section \in Section /\ said \in Statement /\ d \in Nat
      /\ \A g \in Facts : g # f => Typed(g) # key
  BY KeysDiffer DEF TypeOK
<1>3. section.claims # {} /\ said.said # {} BY <1>1 DEF Progress
<1>4. /\ \A x \in Workers : \A c \in report[x][key].claims : c.doc = d => base[x] = d
      /\ \A c \in section.claims : c.doc # d
      /\ \A i \in queue : i.doc = d => i.fact # f
  BY <1>1, <1>2 DEF NotYetSaid, DocsAreOwn
<1>5. /\ affected' \in [Workers -> SUBSET Facts] /\ affected'[w] = affected[w] \ {f}
      /\ \A x \in Workers \ {w} : affected'[x] = affected[x]
  BY <1>1 DEF TypeOK
<1>6. CASE /\ new = {} /\ report' = [report EXCEPT ![w][key] = Merge(@, said, d)]
           /\ UNCHANGED <<queue, at>>
  <2> DEFINE after == Merge(section, said, d)
  <2>1. /\ after \in Section
        /\ after.claims = section.claims \cup [doc : {d}, value : said.said]
        /\ \E c \in after.claims : c.value = after.last
        /\ \A v \in said.said : \E c \in after.claims : c.value = v
    BY <1>2, <1>3, <1>4, MergeAdds
  <2>2. \A c \in [doc : {d}, value : said.said] : c.doc = d OBVIOUS
  <2>3. /\ report' \in [Workers -> [Keys -> Section]] /\ report'[w][key] = after
        /\ \A k \in Keys : k # key => report'[w][k] = report[w][k]
        /\ \A x \in Workers \ {w} : report'[x] = report[x]
    <3> HIDE DEF after, key
    <3>1. report' = [report EXCEPT ![w][key] = after] BY <1>6 DEF after
    <3> QED BY <1>2, <2>1, <3>1 DEF TypeOK
  <2> HIDE DEF after, key
  <2>4. /\ \A k \in Keys : \A c \in report[w][k].claims : c \in report'[w][k].claims
        /\ \A k \in Keys : \A c \in report'[w][k].claims :
             c \in report[w][k].claims \/ (k = key /\ c.doc = d)
    <3>1. ASSUME NEW k \in Keys, k = key
          PROVE  /\ \A c \in report[w][k].claims : c \in report'[w][k].claims
                 /\ \A c \in report'[w][k].claims : c \in report[w][k].claims \/ c.doc = d
      BY <2>1, <2>2, <2>3, <3>1
    <3>2. ASSUME NEW k \in Keys, k # key PROVE report'[w][k] = report[w][k]
      BY <2>3, <3>2
    <3> QED BY <3>1, <3>2
  <2>5. TypeOK' BY <1>1, <1>5, <1>6, <2>3 DEF TypeOK
  <2>6. HashIsReal' BY <1>1, <1>6 DEF HashIsReal
  <2>7. Grown(w) BY <1>1, <1>5, <1>6, <2>3, <2>4 DEF Grown
  <2>8. SectionsAreWhole'
    <3> SUFFICES ASSUME NEW x \in Workers, NEW k \in Keys
                 PROVE  IF report'[x][k].claims = {} THEN report'[x][k].last = "none"
                        ELSE \E c \in report'[x][k].claims : c.value = report'[x][k].last
      BY DEF SectionsAreWhole
    <3>1. CASE x = w /\ k = key BY <2>1, <2>3, <3>1
    <3>2. CASE ~(x = w /\ k = key) BY <2>3, <3>2 DEF SectionsAreWhole
    <3> QED BY <3>1, <3>2
  <2>9. NothingSaidIsLost'
    BY <1>1, <2>7, GrownFrame DEF NothingSaidIsLost, Kept, Typed
  <2>10. ConflictsStayApart'
    <3> SUFFICES ASSUME NEW x \in Workers, NEW i \in queue,
                        NEW c \in report'[x][Typed(i.fact)].claims,
                        i.doc # base[x], c.doc = i.doc, c.value = i.value
                 PROVE  FALSE
      BY <1>1, <1>6 DEF ConflictsStayApart
    <3>1. i.fact \in Facts /\ Typed(i.fact) \in Keys /\ Typed(i.fact).fact = i.fact
      BY KeysDiffer DEF TypeOK, Item
    <3>2. c \notin report[x][Typed(i.fact)].claims
      BY DEF ConflictsStayApart
    <3>3. x = w /\ Typed(i.fact) = key /\ c.doc = d BY <2>3, <2>4, <3>1, <3>2
    <3> QED BY <1>2, <1>4, <3>1, <3>3
  <2>11. NotYetSaid(w)'
    <3>1. \A i \in queue : i.doc = d => i.fact \notin affected'[w] BY <1>1, <1>5 DEF NotYetSaid
    <3>2. \A i \in queue : i.doc = d => report'[w][Typed(i.fact)].claims # {}
      <4> SUFFICES ASSUME NEW i \in queue, i.doc = d
                   PROVE  report'[w][Typed(i.fact)].claims # {}
        OBVIOUS
      <4>1. Typed(i.fact) \in Keys BY KeysDiffer DEF TypeOK, Item
      <4>2. report[w][Typed(i.fact)].claims # {} BY <1>1 DEF NotYetSaid
      <4> QED BY <2>4, <4>1, <4>2
    <3>3. \A x \in Workers, k \in Keys : \A c \in report'[x][k].claims :
            c.doc = d /\ base[x] # d => k.fact \notin affected'[w]
      BY <1>1, <1>2, <1>5, <2>3, <2>4 DEF NotYetSaid
    <3> QED BY <1>1, <1>6, <3>1, <3>2, <3>3 DEF NotYetSaid
  <2>12. Progress(w)'
    <3>1. \A g \in Facts : g # f => report'[w][Typed(g)] = report[w][Typed(g)]
      BY <1>2, <2>3, KeysDiffer
    <3>2. \A g \in affected'[w] :
            report'[w][Typed(g)].claims # {} /\ found[w][g].said # {}
      <4>1. affected[w] \subseteq Facts BY DEF TypeOK
      <4>2. \A g \in affected[w] :
              report[w][Typed(g)].claims # {} /\ found[w][g].said # {}
        BY <1>1 DEF Progress
      <4> QED BY <1>5, <3>1, <4>1, <4>2
    <3>3. \A v \in found[w][f].said : \E c \in report'[w][Typed(f)].claims : c.value = v
      BY <2>1, <2>3 DEF key
    <3>4. \A g \in Facts \ affected'[w] : g # f =>
            \/ report'[w][Typed(g)].claims = {}
            \/ \A v \in found[w][g].said \cap Values : Kept(w, d, g, v)'
      BY <1>1, <1>5, <1>6, <3>1 DEF Progress, Kept
    <3>5. \A v \in found[w][f].said \cap Values : Kept(w, d, f, v)' BY <3>3 DEF Kept
    <3> QED BY <1>1, <3>2, <3>4, <3>5 DEF Progress, Kept
  <2> QED BY <2>5, <2>6, <2>7, <2>8, <2>9, <2>10, <2>11, <2>12, GrownFrame
<1>7. CASE /\ new # {} /\ report' = report
           /\ \E sent \in SUBSET new :
                /\ queue' = queue \cup [doc : {d}, fact : {f}, value : sent]
                /\ \/ sent = new /\ UNCHANGED at
                   \/ sent # new /\ Move(w, "update", "failed")
  <2>1. PICK sent \in SUBSET new :
          /\ queue' = queue \cup [doc : {d}, fact : {f}, value : sent]
          /\ \/ sent = new /\ UNCHANGED at
             \/ sent # new /\ Move(w, "update", "failed")
    BY <1>7, Zenon
  <2>2. /\ at' \in [Workers -> Places] /\ at'[w] \in {"update", "failed"}
        /\ \A x \in Workers : x # w => at'[x] = at[x]
        /\ at'[w] = "update" => sent = new
    BY <1>1, <2>1, MoveTypes DEF TypeOK, Places
  <2>3. new \subseteq Values /\ new \subseteq said.said BY DEF Contradictions
  <2> HIDE DEF new, key
  <2>4. \A i \in [doc : {d}, fact : {f}, value : sent] :
          i \in Item /\ i.doc = d /\ i.fact = f
    BY <1>2, <2>3 DEF Item
  <2>5. TypeOK' BY <1>1, <1>5, <1>7, <2>1, <2>2, <2>4 DEF TypeOK
  <2>6. HashIsReal' BY <1>1, <2>2 DEF HashIsReal, Workers
  <2>7. Grown(w) BY <1>1, <1>5, <1>7, <2>1, <2>2, <2>4 DEF Grown
  <2>8. SectionsAreWhole' BY <1>7 DEF SectionsAreWhole
  <2>9. NothingSaidIsLost'
    BY <1>1, <2>7, GrownFrame DEF NothingSaidIsLost, Kept, Typed
  <2>10. ConflictsStayApart'
    <3> SUFFICES ASSUME NEW x \in Workers, NEW i \in queue',
                        NEW c \in report[x][Typed(i.fact)].claims,
                        i.doc # base[x], c.doc = i.doc, c.value = i.value
                 PROVE  FALSE
      BY <1>1, <1>7 DEF ConflictsStayApart
    <3>1. CASE i \in queue BY <3>1 DEF ConflictsStayApart
    <3>2. CASE i \notin queue BY <1>4, <2>1, <2>4, <3>2 DEF key
    <3> QED BY <3>1, <3>2
  <2>11. NotYetSaid(w)'
    <3>1. ASSUME NEW i \in queue', i.doc = d
          PROVE  i.fact \notin affected'[w] /\ report[w][Typed(i.fact)].claims # {}
      <4>1. CASE i \in queue BY <1>1, <1>5, <3>1, <4>1 DEF NotYetSaid
      <4>2. CASE i \notin queue BY <1>3, <1>5, <2>1, <2>4, <4>2 DEF key
      <4> QED BY <4>1, <4>2
    <3>2. \A x \in Workers, k \in Keys : \A c \in report[x][k].claims :
            c.doc = d /\ base[x] # d => k.fact \notin affected'[w]
      BY <1>1, <1>5 DEF NotYetSaid
    <3> QED BY <1>1, <1>7, <2>2, <3>1, <3>2 DEF NotYetSaid, Busy
  <2>12. Progress(w)'
    <3> SUFFICES ASSUME at'[w] = "update" PROVE Progress(w)' BY DEF Progress
    <3>1. \A g \in affected'[w] :
            report[w][Typed(g)].claims # {} /\ found[w][g].said # {}
      BY <1>1, <1>5 DEF Progress
    <3>2. \A g \in Facts \ affected'[w] : g # f =>
            \/ report[w][Typed(g)].claims = {}
            \/ \A v \in found[w][g].said \cap Values : Kept(w, d, g, v)'
      BY <1>1, <1>5, <1>7, <2>1 DEF Progress, Kept
    <3>3. ASSUME NEW v \in said.said \cap Values PROVE Kept(w, d, f, v)'
      <4>1. CASE v \in new
        <5>1. [doc |-> d, fact |-> f, value |-> v] \in queue' BY <2>1, <2>2, <4>1
        <5> QED BY <1>1, <5>1 DEF Kept
      <4>2. CASE v \notin new
        <5>1. section.last # "not_found" BY <1>7 DEF new, Contradictions
        <5>2. v = section.last BY <3>3, <4>2, <5>1 DEF new, Contradictions
        <5>3. \E c \in section.claims : c.value = section.last
          BY <1>2, <1>3 DEF SectionsAreWhole
        <5> QED BY <1>7, <5>2, <5>3 DEF Kept, key
      <4> QED BY <4>1, <4>2
    <3> QED BY <1>1, <1>7, <3>1, <3>2, <3>3 DEF Progress, Kept
  <2> QED BY <2>5, <2>6, <2>7, <2>8, <2>9, <2>10, <2>11, <2>12, GrownFrame
<1> QED BY <1>6, <1>7 DEF UpdateSection, Typed

\* The end of an update: the sections that were not there are made.
LEMMA FinishStep ==
  ASSUME IncrementalInv, NEW w \in Workers, Finish(w)
  PROVE  IncrementalInv'
<1> DEFINE d   == doc[w]
           new == NewSections(report[w], found[w], d)
           h   == [doc |-> d, found |-> found[w]]
<1> USE DEF IncrementalInv
<1>1. /\ at[w] = "update" /\ Busy(w) /\ affected[w] = {}
      /\ at' \in [Workers -> Places] /\ at'[w] = "audit"
      /\ \A x \in Workers : x # w => at'[x] = at[x]
      /\ report' = [report EXCEPT ![w] = new]
      /\ handled' = [handled EXCEPT ![w] = @ \cup {h}]
      /\ UNCHANGED <<style, latest, subject, base, folder, listing, file, hash,
                     processed, doc, found, affected, queue, nextDoc, crashed>>
  BY MoveTypes DEF Finish, Places, Busy
<1>2. /\ report[w] \in [Keys -> Section] /\ found[w] \in [Facts -> Statement] /\ d \in Nat
      /\ report \in [Workers -> [Keys -> Section]]
  BY DEF TypeOK
<1>3. ASSUME NEW k \in Keys
      PROVE  \/ new[k] = report[w][k]
                /\ (k.style = "typed" /\ report[w][k].claims = {} => found[w][k.fact].said = {})
             \/ /\ k.style = "typed" /\ report[w][k].claims = {} /\ found[w][k.fact].said # {}
                /\ new[k] \in Section
                /\ new[k].claims = [doc : {d}, value : found[w][k.fact].said]
                /\ \E c \in new[k].claims : c.value = new[k].last
                /\ \A v \in found[w][k.fact].said : \E c \in new[k].claims : c.value = v
  <2>1. Made(report[w], found[w], d, new, k) BY <1>2, NewSectionsAdd
  <2> HIDE DEF new
  <2> QED BY <2>1 DEF Made
<1>4. new \in [Keys -> Section]
  <2>1. \A k \in Keys : new[k] \in Section BY <1>2, <1>3
  <2>2. new = [k \in Keys |-> new[k]] BY DEF NewSections
  <2> HIDE DEF new
  <2> QED BY <2>1, <2>2
<1>5. \A i \in queue : i.doc = d => report[w][Typed(i.fact)].claims # {}
  BY <1>1 DEF NotYetSaid
<1>6. \A k \in Keys : \A c \in [doc : {d}, value : found[w][k.fact].said] : c.doc = d
  OBVIOUS
<1> HIDE DEF new
<1>7. /\ report' \in [Workers -> [Keys -> Section]] /\ report'[w] = new
      /\ \A x \in Workers \ {w} : report'[x] = report[x]
  BY <1>1, <1>2, <1>4
<1>8. \A k \in Keys : \A c \in new[k].claims :
        c \in report[w][k].claims
        \/ (k.style = "typed" /\ report[w][k].claims = {} /\ c.doc = d)
  <2> SUFFICES ASSUME NEW k \in Keys, NEW c \in new[k].claims,
                      c \notin report[w][k].claims
               PROVE  k.style = "typed" /\ report[w][k].claims = {} /\ c.doc = d
    OBVIOUS
  <2>1. /\ k.style = "typed" /\ report[w][k].claims = {}
        /\ new[k].claims = [doc : {d}, value : found[w][k.fact].said]
    BY <1>3
  <2> QED BY <1>6, <2>1
<1>9. \A k \in Keys : \A c \in report[w][k].claims : c \in new[k].claims
  <2> SUFFICES ASSUME NEW k \in Keys, NEW c \in report[w][k].claims
               PROVE  c \in new[k].claims
    OBVIOUS
  <2>1. new[k] = report[w][k] BY <1>3
  <2> QED BY <2>1
<1>10. handled'[w] = handled[w] \cup {h} /\ \A x \in Workers \ {w} : handled'[x] = handled[x]
  BY <1>1 DEF TypeOK
<1>11. TypeOK'
  <2>1. h \in [doc : Nat, found : [Facts -> Statement]] BY <1>2
  <2>2. handled' \in [Workers -> SUBSET [doc : Nat, found : [Facts -> Statement]]]
    BY <1>1, <2>1 DEF TypeOK
  <2> QED BY <1>1, <1>7, <2>2 DEF TypeOK
<1>12. HashIsReal' BY <1>1 DEF HashIsReal, Workers
<1>13. Grown(w) BY <1>1, <1>7, <1>8, <1>9, <1>10 DEF Grown
<1>14. SectionsAreWhole'
  <2> SUFFICES ASSUME NEW x \in Workers, NEW k \in Keys
               PROVE  IF report'[x][k].claims = {} THEN report'[x][k].last = "none"
                      ELSE \E c \in report'[x][k].claims : c.value = report'[x][k].last
    BY DEF SectionsAreWhole
  <2>1. CASE x = w BY <1>3, <1>7, <2>1 DEF SectionsAreWhole
  <2>2. CASE x # w BY <1>7, <2>2 DEF SectionsAreWhole
  <2> QED BY <2>1, <2>2
<1>15. NothingSaidIsLost'
  <2> SUFFICES ASSUME NEW x \in Workers, NEW g \in handled'[x], NEW f \in Facts,
                      NEW v \in g.found[f].said \cap Values
               PROVE  Kept(x, g.doc, f, v)'
    BY DEF NothingSaidIsLost, Kept, Typed
  <2>1. CASE g \in handled[x] BY <1>13, <2>1, GrownFrame
  <2>2. CASE g \notin handled[x]
    <3>1. x = w /\ g = h BY <1>10, <2>2
    <3>2. g.doc = d /\ g.found = found[w] BY <3>1
    <3>3. Typed(f) \in Keys /\ Typed(f).style = "typed" /\ Typed(f).fact = f BY KeysDiffer
    <3>4. CASE report[w][Typed(f)].claims = {}
      <4>1. found[w][f].said # {} BY <3>2
      <4>2. \E c \in new[Typed(f)].claims : c.value = v
        BY <1>3, <3>2, <3>3, <3>4, <4>1
      <4> QED BY <1>7, <3>1, <4>2 DEF Kept
    <3>5. CASE report[w][Typed(f)].claims # {}
      <4>1. Kept(w, d, f, v) BY <1>1, <3>2, <3>5 DEF Progress
      <4> QED BY <1>1, <1>7, <1>9, <3>1, <3>2, <3>3, <4>1 DEF Kept
    <3> QED BY <3>4, <3>5
  <2> QED BY <2>1, <2>2
<1>16. ConflictsStayApart'
  <2> SUFFICES ASSUME NEW x \in Workers, NEW i \in queue,
                      NEW c \in report'[x][Typed(i.fact)].claims,
                      i.doc # base[x], c.doc = i.doc, c.value = i.value
               PROVE  FALSE
    BY <1>1 DEF ConflictsStayApart
  <2>1. Typed(i.fact) \in Keys BY KeysDiffer DEF TypeOK, Item
  <2>2. c \notin report[x][Typed(i.fact)].claims BY DEF ConflictsStayApart
  <2> QED BY <1>5, <1>7, <1>8, <2>1, <2>2
<1>17. NotYetSaid(w)' /\ Progress(w)' BY <1>1 DEF NotYetSaid, Progress, Busy
<1> QED BY <1>11, <1>12, <1>13, <1>14, <1>15, <1>16, <1>17, GrownFrame

\* A deliverable taken from a run: its claims are the run's, of its document.
LEMMA RebuildFrame ==
  ASSUME IncrementalInv, TypeOK', HashIsReal', OnePass', NEW w \in Workers,
         NEW r \in DOMAIN Reports \cup {0}, NEW d \in Nat, d < nextDoc,
         report' = [report EXCEPT ![w] = Build(r, d)], base' = [base EXCEPT ![w] = d],
         handled'[w] = {}, \A x \in Workers \ {w} : handled'[x] = handled[x],
         UNCHANGED <<subject, doc, found, affected, queue, nextDoc>>,
         \A x \in Workers : at'[x] = at[x] \/ at'[x] \notin {"extract", "update"},
         at'[w] \notin {"extract", "update"}
  PROVE  IncrementalInv'
<1> DEFINE B == Build(r, d)
<1>1. /\ \A k \in Keys : \A c \in B[k].claims :
           c.doc = d /\ \E q \in DOMAIN Reports : Reports[q][k.fact] = c.value
      /\ \A k \in Keys : IF B[k].claims = {} THEN B[k].last = "none"
                         ELSE \E c \in B[k].claims : c.value = B[k].last
  BY BuildIsWhole
<1> USE DEF IncrementalInv
<1> HIDE DEF B
<1>2. /\ report'[w] = B /\ \A x \in Workers \ {w} : report'[x] = report[x]
      /\ base'[w] = d /\ \A x \in Workers \ {w} : base'[x] = base[x]
  BY DEF TypeOK, B
<1>3. \A x \in Workers, k \in Keys : \A c \in report'[x][k].claims :
        \/ x = w /\ c.doc = d
        \/ x # w /\ c \in report[x][k].claims
  BY <1>1, <1>2
<1>4. \A x \in Workers : Busy(x)' => Busy(x) /\ at'[x] = at[x] /\ x # w BY DEF Busy
<1>5. DocsAreOwn'
  <2>1. \A x \in Workers, k \in Keys : \A c \in report'[x][k].claims : c.doc < nextDoc
    BY <1>3 DEF DocsAreOwn
  <2>2. \A x \in Workers : doc[x] < nextDoc /\ base'[x] < nextDoc
    BY <1>2 DEF DocsAreOwn
  <2> QED BY <1>2, <1>4, <2>1, <2>2 DEF DocsAreOwn
<1>6. SectionsAreWhole' BY <1>1, <1>2 DEF SectionsAreWhole
<1>7. ASSUME NEW x \in Workers PROVE NotYetSaid(x)' /\ Progress(x)'
  <2>2. NotYetSaid(x)' BY <1>2, <1>3, <1>4 DEF NotYetSaid
  <2>3. at'[x] = "update" => at[x] = "update" /\ x # w BY <1>4 DEF Busy
  <2>4. Progress(x)' BY <1>2, <2>3 DEF Progress, Kept
  <2> QED BY <2>2, <2>4
<1>8. NothingSaidIsLost' BY <1>2 DEF NothingSaidIsLost
<1>9. ConflictsStayApart'
  <2> SUFFICES ASSUME NEW x \in Workers, NEW i \in queue,
                      NEW c \in report'[x][Typed(i.fact)].claims,
                      i.doc # base'[x], c.doc = i.doc, c.value = i.value
               PROVE  FALSE
    BY DEF ConflictsStayApart
  <2>1. Typed(i.fact) \in Keys BY KeysDiffer DEF TypeOK, Item
  <2>3. x # w /\ base'[x] = base[x] /\ c \in report[x][Typed(i.fact)].claims
    BY <1>2, <1>3, <2>1
  <2> QED BY <2>3 DEF ConflictsStayApart
<1>10. BaseIsOfRuns' BY <1>1, <1>2 DEF BaseIsOfRuns
<1> QED BY <1>5, <1>6, <1>7, <1>8, <1>9, <1>10

\* The deliverable a request starts from.
LEMMA FindStep ==
  ASSUME IncrementalInv, NEW u \in Uploads, Find(u)
  PROVE  IncrementalInv'
<1> USE DEF IncrementalInv
<1>1. u \in Workers /\ u # "watcher" /\ "watcher" \in Workers
  BY WorkersAssumption DEF Workers
<1>2. UNCHANGED <<style, latest, subject, folder, listing, file, hash, processed, doc,
                  found, affected, handled, queue, nextDoc, crashed>>
  BY DEF Find
<1>3. /\ at' \in [Workers -> Places] /\ at[u] = "idle" /\ at'[u] \in {"refused", "read"}
      /\ \A x \in Workers : x # u => at'[x] = at[x]
  BY <1>1, MoveTypes DEF Find, Places
<1>4. CASE UNCHANGED <<report, base>>
  <2>1. TypeOK' /\ HashIsReal' BY <1>1, <1>2, <1>3, <1>4 DEF TypeOK, HashIsReal
  <2> QED BY <1>1, <1>2, <1>3, <1>4, <2>1, Frame
<1>5. CASE /\ report' = [report EXCEPT ![u] = Build(latest, subject)]
           /\ base' = [base EXCEPT ![u] = subject]
  <2>1. latest \in DOMAIN Reports \cup {0} /\ subject \in Nat /\ subject < nextDoc
    BY DEF TypeOK, DocsAreOwn
  <2>2. report' \in [Workers -> [Keys -> Section]] /\ base' \in [Workers -> Nat]
    BY <1>1, <1>5, <2>1, BuildIsWhole DEF TypeOK
  <2>3. TypeOK' /\ HashIsReal' BY <1>1, <1>2, <1>3, <2>2 DEF TypeOK, HashIsReal
  <2>4. handled[u] = {} BY <1>3 DEF OnePass
  <2>5. OnePass' BY <1>2, <1>3 DEF OnePass, Workers
  <2> QED BY <1>1, <1>2, <1>3, <1>5, <2>1, <2>3, <2>4, <2>5, RebuildFrame
<1> QED BY <1>4, <1>5 DEF Find

\* The process dies, and the watcher starts anew.
LEMMA CrashStep ==
  ASSUME IncrementalInv, Crash
  PROVE  IncrementalInv'
<1> USE DEF IncrementalInv
<1>1. PICK r \in DOMAIN Reports \cup {0}, d \in Pile :
        /\ report' = [report EXCEPT !["watcher"] = Build(r, d)]
        /\ base' = [base EXCEPT !["watcher"] = d]
  BY DEF Crash
<1>2. /\ UNCHANGED <<style, latest, subject, folder, file, hash, doc, found, affected,
                     queue, nextDoc>>
      /\ listing' = {} /\ processed' = {} /\ crashed' = TRUE
      /\ handled' = [handled EXCEPT !["watcher"] = {}]
  BY DEF Crash
<1>3. "watcher" \in Workers /\ "watcher" \notin Uploads /\ \A u \in Uploads : u \in Workers
  BY WorkersAssumption DEF Workers
<1>4. /\ at' \in [Workers -> Places] /\ at'["watcher"] = "idle"
      /\ \A u \in Uploads : \/ at'[u] \in {"idle", "answered", "refused"} /\ at'[u] = at[u]
                            \/ at'[u] = "failed"
  <2>1. at' = [w \in Workers |->
                IF w = "watcher" THEN "idle"
                ELSE IF at[w] \in {"idle", "answered", "refused"} THEN at[w] ELSE "failed"]
    BY DEF Crash
  <2> QED BY <1>3, <2>1 DEF Places
<1>5. \A x \in Workers : at'[x] \notin {"extract", "update"} BY <1>4 DEF Workers
<1>6. /\ handled' \in [Workers -> SUBSET [doc : Nat, found : [Facts -> Statement]]]
      /\ handled'["watcher"] = {} /\ \A x \in Workers \ {"watcher"} : handled'[x] = handled[x]
  BY <1>2, <1>3 DEF TypeOK
<1>7. d \in Nat /\ d < nextDoc BY <1>3 DEF Pile, TypeOK, DocsAreOwn
<1>11. report' \in [Workers -> [Keys -> Section]] /\ base' \in [Workers -> Nat]
  BY <1>1, <1>7, BuildIsWhole DEF TypeOK
<1>8. TypeOK' BY <1>2, <1>4, <1>6, <1>11 DEF TypeOK
<1>9. HashIsReal' BY <1>4 DEF HashIsReal
<1>10. OnePass' BY <1>3, <1>4, <1>6 DEF OnePass
<1> QED BY <1>1, <1>2, <1>3, <1>5, <1>6, <1>7, <1>8, <1>9, <1>10, RebuildFrame
-----------------------------------------------------------------------------
(* Theorems *)

\* Every step keeps the invariant.
LEMMA StepInv == IncrementalInv /\ [Next]_vars => IncrementalInv'
<1> SUFFICES ASSUME IncrementalInv, [Next]_vars PROVE IncrementalInv' OBVIOUS
<1>1. "watcher" \in Workers /\ \A u \in Uploads : u \in Workers BY DEF Workers
<1>2. CASE \/ \E f \in Files : Touch(f) \/ ProcessSingleFile(f)
           \/ Scan \/ NextFile \/ EndScan \/ Event \/ CompleteRun
           \/ \E u \in Uploads : Store(u) \/ Audit(u)
           \/ UNCHANGED vars
  BY <1>2, QuietSteps
<1>3. CASE ExtractFile BY <1>1, <1>3, ExtractStep DEF ExtractFile
<1>4. ASSUME NEW u \in Uploads, ExtractUpload(u) PROVE IncrementalInv'
  BY <1>1, <1>4, ExtractStep DEF ExtractUpload
<1>5. ASSUME NEW w \in Workers, NEW f \in Facts, UpdateSection(w, f) PROVE IncrementalInv'
  BY <1>5, UpdateStep
<1>6. ASSUME NEW w \in Workers, Finish(w) PROVE IncrementalInv' BY <1>6, FinishStep
<1>7. ASSUME NEW u \in Uploads, Find(u) PROVE IncrementalInv' BY <1>7, FindStep
<1>8. CASE Crash BY <1>8, CrashStep
<1> QED BY <1>1, <1>2, <1>3, <1>4, <1>5, <1>6, <1>7, <1>8 DEF Next, Watch, Serve

\* The inductive invariant holds of every behaviour.
THEOREM IncrementalInvariant == Spec => []IncrementalInv
BY InitInv, StepInv, PTL DEF Spec

\* The variables keep their types.
THEOREM IncrementalIsTyped == Spec => []TypeOK
<1>1. IncrementalInv => TypeOK BY DEF IncrementalInv
<1> QED BY <1>1, IncrementalInvariant, PTL

\* Whatever the documents, files, uploads and failures: each value of a document
\* whose update ended well is in a section or in front of a reviewer.
THEOREM EveryValueIsKept == Spec => []NothingSaidIsLost
<1>1. IncrementalInv => NothingSaidIsLost BY DEF IncrementalInv
<1> QED BY <1>1, IncrementalInvariant, PTL

\* What was put to a reviewer as a contradiction is in no deliverable, but for
\* what a run of the very document found.
THEOREM ConflictsStayOut == Spec => []ConflictsAreNotApplied
<1>1. ASSUME IncrementalInv PROVE ConflictsAreNotApplied
  <2> SUFFICES ASSUME NEW w \in Workers, NEW i \in queue,
                      NEW c \in report[w][Typed(i.fact)].claims,
                      c.doc = i.doc, c.value = i.value
               PROVE  i.doc = base[w] /\ \E r \in DOMAIN Reports : Reports[r][i.fact] = i.value
    BY DEF ConflictsAreNotApplied, Typed
  <2>1. i.doc = base[w] BY <1>1 DEF IncrementalInv, ConflictsStayApart
  <2>2. Typed(i.fact) \in Keys /\ Typed(i.fact).fact = i.fact
    BY <1>1, KeysDiffer DEF IncrementalInv, TypeOK, Item
  <2> QED BY <1>1, <2>1, <2>2 DEF IncrementalInv, BaseIsOfRuns
<1> QED BY <1>1, IncrementalInvariant, PTL

\* A section changes only by claims of the new document that agree with it.
THEOREM MergesAgree == Spec => OnlyAgreementIsMerged
<1> DEFINE Agrees(w, k) ==
      \/ crashed' # crashed \/ at[w] = "idle"
      \/ \E new \in SUBSET Found :
           /\ report'[w][k].claims = report[w][k].claims \cup [doc : {doc[w]}, value : new]
           /\ report[w][k].last \in Values => \A v \in new \cap Values : v = report[w][k].last
<1>1. ASSUME IncrementalInv, [Next]_vars, NEW w \in Workers, NEW k \in Keys,
             report'[w][k] # report[w][k]
      PROVE  Agrees(w, k)
  <2>1. TypeOK /\ SectionsAreWhole /\ DocsAreOwn /\ \A x \in Workers : NotYetSaid(x) /\ Progress(x)
    BY <1>1 DEF IncrementalInv
  <2>2. ASSUME NEW x \in Workers, NEW f \in Facts, UpdateSection(x, f) PROVE Agrees(w, k)
    <3> DEFINE section == report[x][Typed(f)]
               said    == found[x][f]
    <3>1. /\ f \in affected[x] /\ at[x] = "update"
          /\ Contradictions(section, said) = {}
          /\ report' = [report EXCEPT ![x][Typed(f)] = Merge(@, said, doc[x])]
      BY <1>1, <2>2 DEF UpdateSection, Typed
    <3>2. Typed(f) \in Keys /\ Typed(f).fact = f BY KeysDiffer
    <3>3. section \in Section /\ said \in Statement /\ doc[x] \in Nat
      BY <2>1, <3>2 DEF TypeOK
    <3>4. said.said # {} BY <2>1, <3>1 DEF Progress
    <3>5. \A c \in section.claims : c.doc # doc[x]
      BY <2>1, <3>1, <3>2 DEF NotYetSaid, DocsAreOwn, Busy
    <3>6. Merge(section, said, doc[x]).claims
            = section.claims \cup [doc : {doc[x]}, value : said.said]
      BY <3>3, <3>4, <3>5, MergeAdds
    <3>7. x = w /\ k = Typed(f) BY <1>1, <2>1, <3>1, <3>2 DEF TypeOK
    <3>8. report'[w][k] = Merge(section, said, doc[x]) BY <2>1, <3>1, <3>2, <3>7 DEF TypeOK
    <3>9. said.said \in SUBSET Found BY <3>3, StatementClaims
    <3>10. section.last \in Values => \A v \in said.said \cap Values : v = section.last
      BY <3>1, NamesDiffer DEF Contradictions
    <3> QED BY <3>6, <3>7, <3>8, <3>9, <3>10
  <2>3. ASSUME NEW x \in Workers, Finish(x) PROVE Agrees(w, k)
    <3>1. report' = [report EXCEPT ![x] = NewSections(@, found[x], doc[x])] BY <2>3 DEF Finish
    <3>2. x = w BY <1>1, <2>1, <3>1 DEF TypeOK
    <3>3. report'[w] = NewSections(report[w], found[w], doc[w])
      BY <2>1, <3>1, <3>2 DEF TypeOK
    <3>4. report[w] \in [Keys -> Section] /\ found[w] \in [Facts -> Statement] /\ doc[w] \in Nat
      BY <2>1 DEF TypeOK
    <3>5. /\ k.style = "typed" /\ report[w][k].claims = {}
          /\ report'[w][k].claims = [doc : {doc[w]}, value : found[w][k.fact].said]
      <4>1. Made(report[w], found[w], doc[w], report'[w], k) BY <3>3, <3>4, NewSectionsAdd
      <4> QED BY <1>1, <4>1 DEF Made
    <3>6. report[w][k].last = "none" BY <2>1, <3>5 DEF SectionsAreWhole
    <3>7. found[w][k.fact].said \in SUBSET Found
      BY <3>4, <3>5, KeysDiffer, StatementClaims
    <3> QED BY <3>5, <3>6, <3>7, NamesDiffer
  <2>4. ASSUME NEW u \in Uploads, Find(u) PROVE Agrees(w, k)
    <3>1. u \in Workers BY DEF Workers
    <3>2. at[u] = "idle" /\ report' = [report EXCEPT ![u] = Build(latest, subject)]
      BY <1>1, <2>4 DEF Find, Move
    <3>3. u = w BY <1>1, <2>1, <3>1, <3>2 DEF TypeOK
    <3> QED BY <3>2, <3>3
  <2>5. CASE Crash BY <2>5 DEF Crash
  <2>6. CASE \/ \E f \in Files : Touch(f) \/ ProcessSingleFile(f)
             \/ Scan \/ NextFile \/ EndScan \/ Event \/ CompleteRun
             \/ \E u \in Uploads : Store(u) \/ Audit(u) \/ ExtractUpload(u)
             \/ ExtractFile \/ UNCHANGED vars
    <3>1. report' = report
      BY <2>6 DEF Touch, ProcessSingleFile, Scan, NextFile, EndScan, Event, CompleteRun,
                  Store, Audit, ExtractUpload, ExtractFile, vars
    <3> QED BY <1>1, <3>1
  <2>7. "watcher" \in Workers /\ \A u \in Uploads : u \in Workers BY DEF Workers
  <2> QED BY <1>1, <2>2, <2>3, <2>4, <2>5, <2>6, <2>7 DEF Next, Watch, Serve
<1>2. IncrementalInv /\ [Next]_vars =>
        [\A w \in Workers, k \in Keys : report'[w][k] # report[w][k] => Agrees(w, k)]_vars
  BY <1>1
<1> QED BY <1>2, IncrementalInvariant, PTL DEF Spec, OnlyAgreementIsMerged
=============================================================================
