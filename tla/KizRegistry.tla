----------------------------- MODULE KizRegistry -----------------------------
(***************************************************************************)
(* Marking codes (kiz_withdrawals) on their way out of circulation.        *)
(*                                                                         *)
(* Collectors put sold codes into the register and note returns.  A press  *)
(* of the export button claims a batch of sold codes by one UPDATE, reads  *)
(* the batch page by page, builds a file of it and hands it out; when the  *)
(* file cannot be built, the batch goes back to the queue.  A batch can be *)
(* downloaded again as soon as its number is on somebody's screen.         *)
(*                                                                         *)
(* Every call to the database is a step.  The claim is one statement, but  *)
(* at READ COMMITTED its subquery reads what was committed when it started *)
(* and its rows are checked again as it locks them: two steps.             *)
(*                                                                         *)
(* A code's number stands for the date of its sale and for the code itself *)
(* in orderings.  What the sources and the catalogue say is arbitrary:     *)
(* they are late, partial and contradict each other.  Lists are written in *)
(* one piece.  Prices and the other columns are left out.                  *)
(***************************************************************************)
EXTENDS Integers, FiniteSets

CONSTANTS
    Codes,
    Entities,
    NoEntity,     \* legal_entity_id is null
    Presses,      \* each names its batch by a fresh uuid
    NoBatch,      \* batch_id is null
    Downloads,
    Collectors,
    Sources,      \* what they collect from
    Undated,      \* codes a source may list without the date of the sale
    Comeback,     \* codes a buyer may return
    Limit,        \* codes in a document
    PageSize      \* rows in an answer of the database

ASSUME CodesAreNumbers == Codes \subseteq Nat /\ IsFiniteSet(Codes)
ASSUME NullsApart == NoEntity \notin Entities /\ NoBatch \notin Presses
ASSUME SourcesKnown ==
    Sources \subseteq {"tasks", "sold_tasks", "sales", "report", "upload"}
ASSUME SomeOfTheCodes == Undated \subseteq Codes /\ Comeback \subseteq Codes
ASSUME SizesPositive == Limit \in Nat \ {0} /\ PageSize \in Nat \ {0}

VARIABLES
    kiz,          \* the register
    press,        \* POST /kiz/export
    download,     \* GET /kiz/export
    collector     \* the routes that fill the register

(* History, for the properties only.                                       *)
VARIABLES
    released,     \* batches put back into the queue
    files,        \* the documents handed out, but for released batches
    stirred,      \* batches whose order changed while they were being read
    met,          \* returned codes a collector has seen to be there
    noted         \* and has written down, but for those released since

history == <<released, files, stirred, met, noted>>
vars == <<kiz, press, download, collector, history>>

Statuses == {"none", "sold", "returned", "sent", "returned_after_sent",
             "fbw", "unknown", "withdrawn"}

Ready == [at |-> "idle", entity |-> NoEntity, picked |-> {}, from |-> 0, rows |-> {}]
Closed == [at |-> "idle", batch |-> NoBatch, from |-> 0, rows |-> {}]
Idle == [at |-> "idle", back |-> {}]

Init ==
    /\ kiz = [c \in Codes |-> [status |-> "none", owner |-> NoEntity,
                               batch |-> NoBatch, dated |-> FALSE]]
    /\ press = [p \in Presses |-> Ready]
    /\ download = [d \in Downloads |-> Closed]
    /\ collector = [k \in Collectors |-> Idle]
    /\ released = {} /\ files = {} /\ stirred = {}
    /\ met = [k \in Collectors |-> {}] /\ noted = {}

-----------------------------------------------------------------------------
(* Reading the register in order.                                          *)

(* order by sold_at nulls last, code                                       *)
Before(c, d) ==
    \/ kiz[c].dated /\ ~kiz[d].dated
    \/ kiz[c].dated = kiz[d].dated /\ c < d

(* n rows of S after the first m ones.                                     *)
Slice(S, m, n) ==
    {c \in S : Cardinality({d \in S : Before(d, c)}) \in m..(m + n - 1)}

Queue(e) == {c \in Codes : kiz[c].status = "sold" /\ kiz[c].owner = e}
Batch(b, e) == {c \in Codes : kiz[c].batch = b /\ kiz[c].owner = e}

(* Mutant: the first page is taken for everything.                         *)
OnePage(page) == TRUE

(* A short page is the last one.                                           *)
LastPage(page) == Cardinality(page) < PageSize

-----------------------------------------------------------------------------
(* POST /kiz/export                                                        *)

Mark(c, status, batch) ==
    [status |-> status, owner |-> kiz[c].owner, batch |-> batch,
     dated |-> kiz[c].dated]

(* kiz_claim_batch starts: its subquery picks the oldest codes.            *)
Claim(p, e) ==
    /\ press[p] = Ready
    /\ Queue(e) # {}
    /\ press' = [press EXCEPT ![p] =
                   [at |-> "mark", entity |-> e,
                    picked |-> Slice(Queue(e), 0, Limit), from |-> 0, rows |-> {}]]
    /\ UNCHANGED <<kiz, download, collector, history>>

PressTo(p, place) ==
    press' = [press EXCEPT ![p] =
                [at |-> place, entity |-> press[p].entity, picked |-> {},
                 from |-> 0, rows |-> {}]]

(* Mutant: the UPDATE does not look at the status of a row it has locked.  *)
AsPicked(p) == press[p].picked

Claimable(p) == press[p].picked \cap Queue(press[p].entity)

(* It marks what is still free, and commits.                               *)
ClaimRows(p) ==
    /\ press[p].at = "mark"
    /\ kiz' = [c \in Codes |-> IF c \in Claimable(p) THEN Mark(c, "sent", p)
                                                     ELSE kiz[c]]
    /\ PressTo(p, IF Claimable(p) = {} THEN "ended" ELSE "read")
    /\ UNCHANGED <<download, collector, history>>

(* One page of loadBatchRows().                                            *)
ReadPage(p) ==
    /\ press[p].at = "read"
    /\ LET e == press[p].entity
           page == Slice(Batch(p, e), press[p].from, PageSize)
           rows == press[p].rows \cup page
           done == LastPage(page)
       IN  press' = [press EXCEPT ![p] =
                       [at |-> IF ~done THEN "read"
                               ELSE IF rows = {} THEN "ended" ELSE "build",
                        entity |-> e, picked |-> {},
                        from |-> IF done THEN 0 ELSE press[p].from + PageSize,
                        rows |-> IF done /\ rows = {} THEN {} ELSE rows]]
    /\ UNCHANGED <<kiz, download, collector, history>>

Document(b, rows) ==
    /\ files' = IF b \in released THEN files
                                   ELSE files \cup {[batch |-> b, codes |-> rows]}
    /\ UNCHANGED <<released, stirred, met, noted>>

(* The file is built and arrives.                                          *)
HandOut(p) ==
    /\ press[p].at = "build"
    /\ Document(p, press[p].rows)
    /\ PressTo(p, "ended")
    /\ UNCHANGED <<kiz, download, collector>>

(* The file comes out wrong.                                               *)
BuildFails(p) ==
    /\ press[p].at = "build"
    /\ PressTo(p, "release")
    /\ UNCHANGED <<kiz, download, collector, history>>

(* Mutant: batch_id is not cleared.                                        *)
BackWithBatch(c) == Mark(c, "sold", kiz[c].batch)

Back(c) == Mark(c, "sold", NoBatch)

(* releaseBatch() puts the batch back, whatever has become of its codes.   *)
Release(p) ==
    /\ press[p].at = "release"
    /\ LET batch == Batch(p, press[p].entity)
       IN  /\ kiz' = [c \in Codes |-> IF c \in batch THEN Back(c) ELSE kiz[c]]
           /\ met' = [k \in Collectors |-> met[k] \ batch]
           /\ noted' = noted \ batch
    /\ released' = released \cup {p}
    /\ files' = {f \in files : f.batch # p}
    /\ PressTo(p, "ended")
    /\ UNCHANGED <<download, collector, stirred>>

(* A call fails, its answer or the file is lost, or the function dies.     *)
GiveUp(p) ==
    /\ press[p].at \in {"mark", "read", "build", "release"}
    /\ PressTo(p, "ended")
    /\ UNCHANGED <<kiz, download, collector, history>>

-----------------------------------------------------------------------------
(* GET /kiz/export?batch=...                                               *)

(* The number of a batch is on the screen while its codes are in it.       *)
Ask(d, b) ==
    /\ download[d] = Closed
    /\ Batch(b, press[b].entity) # {}
    /\ download' = [download EXCEPT ![d] =
                      [at |-> "read", batch |-> b, from |-> 0, rows |-> {}]]
    /\ UNCHANGED <<kiz, press, collector, history>>

DownloadPage(d) ==
    /\ download[d].at = "read"
    /\ LET asked == download[d].batch
           page == Slice(Batch(asked, press[asked].entity), download[d].from, PageSize)
           rows == download[d].rows \cup page
           done == LastPage(page)
       IN  download' = [download EXCEPT ![d] =
               IF done /\ rows = {} THEN Closed
               ELSE [at |-> IF done THEN "build" ELSE "read", batch |-> asked,
                     from |-> IF done THEN 0 ELSE download[d].from + PageSize,
                     rows |-> rows]]
    /\ UNCHANGED <<kiz, press, collector, history>>

DownloadFile(d) ==
    /\ download[d].at = "build"
    /\ Document(download[d].batch, download[d].rows)
    /\ download' = [download EXCEPT ![d] = Closed]
    /\ UNCHANGED <<kiz, press, collector>>

DownloadFails(d) ==
    /\ download[d].at # "idle"
    /\ download' = [download EXCEPT ![d] = Closed]
    /\ UNCHANGED <<kiz, press, collector, history>>

-----------------------------------------------------------------------------
(* The collectors.                                                         *)

(* What a source may say of a code it lists.                               *)
Said(kind) ==
    CASE kind = "tasks"      -> {"sold", "returned"}
      [] kind = "sold_tasks" -> {"sold"}
      [] kind = "sales"      -> {"sold", "returned", "fbw", "unknown"}
      [] kind = "report"     -> {"withdrawn", "returned", "fbw"}
      [] kind = "upload"     -> {"sold", "returned"}

(* Only the report on marked goods and the uploaded list of returns are    *)
(* applied to codes the register has already.                              *)
NotesReturns(kind) == kind \in {"report", "upload"}

(* The sources are read and new codes are inserted: upsert with            *)
(* ignoreDuplicates.  Nothing read before depends on the register.  Where  *)
(* returns are listed apart, a new code on that list is inserted as such.  *)
Collected(lines, dated) ==
    kiz' = [c \in Codes |->
              IF c \in DOMAIN lines /\ kiz[c].status = "none"
                THEN [status |-> lines[c], owner |-> NoEntity,
                      batch |-> NoBatch, dated |-> c \in dated]
                ELSE kiz[c]]

CollectorTo(k, place, back) ==
    collector' = [collector EXCEPT ![k] = [at |-> place, back |-> back]]
Finish(k) == CollectorTo(k, "attach", {})

Collect(k, kind, lines, dated, back) ==
    /\ collector[k] = Idle
    /\ DOMAIN lines \ dated \subseteq Undated
    /\ {c \in DOMAIN lines : lines[c] = "returned"} \cup back \subseteq Comeback
    /\ IF NotesReturns(kind)
         THEN \A c \in DOMAIN lines : lines[c] = "returned" <=> c \in back
         ELSE back = {}
    /\ Collected(lines, dated)
    /\ IF NotesReturns(kind) THEN CollectorTo(k, "pass1", back)
       ELSE IF kind = "tasks" THEN CollectorTo(k, "enrich", {})
       ELSE Finish(k)
    /\ UNCHANGED <<press, download, history>>

(* Nothing could be inserted.  The upload goes on, the others skip to      *)
(* their end.                                                              *)
CollectFails(k, kind, back) ==
    /\ collector[k] = Idle
    /\ back \subseteq Comeback
    /\ IF kind = "upload" THEN CollectorTo(k, "pass1", back)
                          ELSE back = {} /\ Finish(k)
    /\ UNCHANGED <<kiz, press, download, history>>

(* Mutant: the two updates in the other order.                             *)
SentFirst(n) == IF n = 1 THEN <<"sent", "returned_after_sent">>
                         ELSE <<"sold", "returned">>

(* The two updates that note a return: from what, to what.                 *)
Pass(n) == IF n = 1 THEN <<"sold", "returned">>
                    ELSE <<"sent", "returned_after_sent">>

Noting(k, n) ==
    kiz' = [c \in Codes |->
              IF c \in collector[k].back /\ kiz[c].status = Pass(n)[1]
                THEN Mark(c, Pass(n)[2], kiz[c].batch) ELSE kiz[c]]

NoteSold(k) ==
    /\ collector[k].at = "pass1"
    /\ Noting(k, 1)
    /\ met' = [met EXCEPT ![k] = {c \in collector[k].back : kiz[c].status # "none"}]
    /\ CollectorTo(k, "pass2", collector[k].back)
    /\ UNCHANGED <<press, download, released, files, stirred, noted>>

NoteSent(k) ==
    /\ collector[k].at = "pass2"
    /\ Noting(k, 2)
    /\ noted' = noted \cup met[k]
    /\ met' = [met EXCEPT ![k] = {}]
    /\ Finish(k)
    /\ UNCHANGED <<press, download, released, files, stirred>>

BeingRead(b) ==
    \/ press[b].at = "read" /\ press[b].from > 0
    \/ \E d \in Downloads : download[d].batch = b /\ download[d].from > 0

(* A missing date is filled in, whatever the status of the code.           *)
Enrich(k, c) ==
    /\ collector[k].at = "enrich"
    /\ kiz[c].status # "none" /\ ~kiz[c].dated
    /\ kiz' = [kiz EXCEPT ![c].dated = TRUE]
    /\ stirred' = stirred \cup {b \in Presses : b = kiz[c].batch /\ BeingRead(b)}
    /\ UNCHANGED <<press, download, collector, released, files, met, noted>>

(* The error of an update is ignored, and the next one made; dates are     *)
(* filled in as far as they are known.                                     *)
PassOver(k) ==
    /\ \/ /\ collector[k].at = "pass1"
          /\ CollectorTo(k, "pass2", collector[k].back)
       \/ collector[k].at \in {"pass2", "enrich"} /\ Finish(k)
    /\ met' = [met EXCEPT ![k] = {}]
    /\ UNCHANGED <<kiz, press, download, released, files, stirred, noted>>

(* Mutant: an owner is corrected whatever the status of the code.          *)
Anything == Statuses

(* A code that is in a document stays its owner's.                         *)
Movable == {"sold", "fbw", "unknown", "returned"}

(* kiz_attach_legal_entity: a code without an owner gets the one the       *)
(* catalogue names, and the owner of one not yet sent is corrected.        *)
Attach(k, says) ==
    /\ collector[k].at = "attach"
    /\ kiz' = [c \in Codes |->
                 IF /\ kiz[c].status # "none" /\ says[c] # NoEntity
                    /\ kiz[c].owner = NoEntity \/ kiz[c].status \in Movable
                   THEN [status |-> kiz[c].status, owner |-> says[c],
                         batch |-> kiz[c].batch, dated |-> kiz[c].dated]
                   ELSE kiz[c]]
    /\ collector' = [collector EXCEPT ![k] = Idle]
    /\ UNCHANGED <<press, download, history>>

(* The function dies, or its last call fails.                              *)
Quit(k) ==
    /\ collector[k].at # "idle"
    /\ collector' = [collector EXCEPT ![k] = Idle]
    /\ met' = [met EXCEPT ![k] = {}]
    /\ UNCHANGED <<kiz, press, download, released, files, stirred, noted>>

-----------------------------------------------------------------------------
Export(p) ==
    \/ \E e \in Entities : Claim(p, e)
    \/ ClaimRows(p) \/ ReadPage(p) \/ HandOut(p)
    \/ BuildFails(p) \/ Release(p) \/ GiveUp(p)

Again(d) ==
    \/ \E b \in Presses : Ask(d, b)
    \/ DownloadPage(d) \/ DownloadFile(d) \/ DownloadFails(d)

Collecting(k) ==
    \/ \E kind \in Sources, back \in SUBSET Codes, listed \in SUBSET Codes :
          \E lines \in [listed -> Said(kind)], dated \in SUBSET listed :
             Collect(k, kind, lines, dated, back)
    \/ \E kind \in Sources, back \in SUBSET Codes : CollectFails(k, kind, back)
    \/ NoteSold(k) \/ NoteSent(k)
    \/ \E c \in Codes : Enrich(k, c)
    \/ PassOver(k)
    \/ \E says \in [Codes -> Entities \cup {NoEntity}] : Attach(k, says)
    \/ Quit(k)

Next ==
    \/ \E p \in Presses : Export(p)
    \/ \E d \in Downloads : Again(d)
    \/ \E k \in Collectors : Collecting(k)

Spec == Init /\ [][Next]_vars

-----------------------------------------------------------------------------
(* Properties.                                                             *)

Row == [status : Statuses, owner : Entities \cup {NoEntity},
        batch : Presses \cup {NoBatch}, dated : BOOLEAN]
Press == [at : {"idle", "mark", "read", "build", "release", "ended"},
          entity : Entities \cup {NoEntity}, picked : SUBSET Codes,
          from : Nat, rows : SUBSET Codes]
Download == [at : {"idle", "read", "build"}, batch : Presses \cup {NoBatch},
             from : Nat, rows : SUBSET Codes]
Collector == [at : {"idle", "pass1", "pass2", "enrich", "attach"},
              back : SUBSET Codes]

BatchWhileSent ==
    \A c \in Codes :
        kiz[c].batch # NoBatch <=> kiz[c].status \in {"sent", "returned_after_sent"}

(* Types, and 202608240023: the batch is there to tell in which file a     *)
(* code went, so a code has one exactly while it is marked as sent.        *)
TypeOK ==
    /\ kiz \in [Codes -> Row]
    /\ press \in [Presses -> Press]
    /\ download \in [Downloads -> Download]
    /\ collector \in [Collectors -> Collector]
    /\ files \subseteq [batch : Presses, codes : SUBSET Codes]
    /\ released \subseteq Presses /\ stirred \subseteq Presses
    /\ met \in [Collectors -> SUBSET Codes] /\ noted \subseteq Codes
    /\ BatchWhileSent

(* export/route.ts, kiz_claim_batch: one code does not go out in two       *)
(* documents.  It does when a batch is downloaded while its own request is *)
(* still building the file, and this fails and releases the batch.         *)
OneDocument ==
    \A f, g \in files :
        f.batch # g.batch => f.codes \cap g.codes = {}

(* A return that a collector has found in the register and written down    *)
(* keeps the code from being sent, whatever is claimed meanwhile.  Only a  *)
(* release forgets it: it puts a batch back without looking at statuses.   *)
NotedStaysBack ==
    \A c \in noted : kiz[c].status \notin {"sold", "sent"}

(* loadBatchRows(): a document has all the codes marked as sent with it,   *)
(* however many pages they take.  A date filled in between two pages moves *)
(* a code across them, and it is in no document.                           *)
WholeBatch ==
    \A f \in files : f.batch \notin stirred =>
        f.codes = {c \in Codes : kiz[c].batch = f.batch}

(* 202608250031: the owner of a code does not change once the code is in a *)
(* document under that owner's INN.                                        *)
OwnerOfDocument ==
    \A c \in Codes : kiz[c].batch # NoBatch =>
        kiz[c].owner = press[kiz[c].batch].entity
=============================================================================
