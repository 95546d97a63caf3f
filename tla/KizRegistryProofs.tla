------------------------- MODULE KizRegistryProofs --------------------------
(***************************************************************************)
(* Theorems of KizRegistry, for every set of codes, entities, presses,     *)
(* downloads and collectors, every limit and every size of a page.         *)
(*                                                                         *)
(* The argument.  A press starts with no code in its batch (Begun); a code *)
(* enters a batch by the claim and leaves it by the release of the same    *)
(* press only.  So whatever was read of a batch, or handed out, is still   *)
(* in it (RowsHeld, DownloadsHeld, FilesHeld), and batches being disjoint, *)
(* so are documents.  Between its two updates a collector remembers what   *)
(* the first one found, and that is not for sale any more (MetNotSold).    *)
(* That documents are whole rests on the ranks of a finite ordered set: a  *)
(* page shorter than asked for is the last (ShortPageIsLast).              *)
(***************************************************************************)
EXTENDS KizRegistry, FiniteSetTheorems, TLAPS

Inserted == {"sold", "returned", "fbw", "unknown", "withdrawn"}

(* A press that has started has an entity.                                 *)
Claimed == \A p \in Presses : press[p].at # "idle" => press[p].entity \in Entities

(* Codes are in a batch from the COMMIT of its claim on.                   *)
Begun ==
    \A c \in Codes, p \in Presses :
        kiz[c].batch = p => press[p].at \notin {"idle", "mark"}

(* What has been read of a batch is in it.                                 *)
RowsHeld ==
    \A p \in Presses : \A c \in press[p].rows :
        press[p].at \in {"read", "build"} /\ kiz[c].batch = p
AskedFor ==
    \A d \in Downloads :
        IF download[d].at = "idle" THEN download[d].rows = {}
        ELSE download[d].batch \in Presses
DownloadsHeld ==
    \A d \in Downloads : \A c \in download[d].rows :
        download[d].batch \notin released => kiz[c].batch = download[d].batch
FilesHeld ==
    /\ \A f \in files : f.batch \notin released
    /\ \A f \in files : \A c \in f.codes : kiz[c].batch = f.batch

(* Between its two updates a collector remembers what the first one found. *)
MetAtPass2 ==
    \A k \in Collectors :
        /\ collector[k].at # "pass2" => met[k] = {}
        /\ met[k] \subseteq collector[k].back
MetNotSold ==
    \A k \in Collectors : \A c \in met[k] : kiz[c].status \notin {"none", "sold"}
NotedKnown == \A c \in noted : kiz[c].status # "none"

IInv ==
    /\ TypeOK /\ OwnerOfDocument /\ NotedStaysBack
    /\ Claimed /\ Begun /\ RowsHeld /\ AskedFor /\ DownloadsHeld /\ FilesHeld
    /\ MetAtPass2 /\ MetNotSold /\ NotedKnown

(* What is kept of codes is kept of codes.                                 *)
Ranges ==
    /\ \A c \in Codes : kiz[c].batch \in Presses \cup {NoBatch}
    /\ \A p \in Presses : press[p].rows \subseteq Codes
    /\ \A d \in Downloads : download[d].rows \subseteq Codes
    /\ \A f \in files : f.batch \in Presses /\ f.codes \subseteq Codes
    /\ \A k \in Collectors : collector[k].back \subseteq Codes /\ met[k] \subseteq Codes
    /\ noted \subseteq Codes

LEMMA RangesOf == IInv => Ranges /\ BatchWhileSent
  BY DEF IInv, TypeOK, Row, Press, Download, Collector, Ranges

-----------------------------------------------------------------------------
(* Every step preserves the invariant.                                     *)

LEMMA PressGoes ==
    ASSUME TypeOK, NEW p \in Presses, NEW place, PressTo(p, place),
           place \in {"read", "release", "ended"}
    PROVE  /\ press' \in [Presses -> Press]
           /\ press'[p].at = place /\ press'[p].rows = {}
           /\ press'[p].entity = press[p].entity
           /\ \A q \in Presses : q # p => press'[q] = press[q]
  BY DEF TypeOK, Press, PressTo

LEMMA CollectorGoes ==
    ASSUME TypeOK, NEW k \in Collectors, NEW place, NEW back \in SUBSET Codes,
           CollectorTo(k, place, back),
           place \in {"pass1", "pass2", "enrich", "attach"}
    PROVE  /\ collector' \in [Collectors -> Collector]
           /\ collector'[k].at = place /\ collector'[k].back = back
           /\ \A j \in Collectors : j # k => collector'[j] = collector[j]
  BY DEF TypeOK, Collector, CollectorTo

LEMMA IdleAt ==
    ASSUME NEW k \in Collectors, collector[k] = Idle
    PROVE  collector[k].at = "idle"
  BY DEF Idle

LEMMA RowTyped ==
    ASSUME NEW s \in Statuses, NEW t \in BOOLEAN
    PROVE  [status |-> s, owner |-> NoEntity, batch |-> NoBatch, dated |-> t] \in Row
  BY DEF Row

LEMMA ClaimInv ==
    ASSUME IInv, NEW p \in Presses, NEW e \in Entities, Claim(p, e)
    PROVE  IInv'
<1>1. /\ press[p].at = "idle"
      /\ press'[p].at = "mark" /\ press'[p].rows = {} /\ press'[p].entity = e
      /\ \A q \in Presses : q # p => press'[q] = press[q]
  BY DEF IInv, TypeOK, Press, Claim, Ready, Slice, Queue, history
<1>2. UNCHANGED <<kiz, download, collector, released, files, stirred, met, noted>>
  BY DEF Claim, Ready, Slice, Queue, history
<1>3. press' \in [Presses -> Press]
  BY DEF IInv, TypeOK, Press, Claim, Ready, Slice, Queue, history
<1>4. Claimed'
  BY <1>1, <1>2 DEF IInv, Claimed
<1>5. Begun'
  BY <1>1, <1>2 DEF IInv, Begun
<1>6. OwnerOfDocument'
  BY <1>1, <1>2, RangesOf, NullsApart DEF IInv, OwnerOfDocument, BatchWhileSent,
     Claimed, Begun, Ranges
<1>7. RowsHeld'
  BY <1>1, <1>2, RangesOf, NullsApart DEF IInv, RowsHeld, Begun, BatchWhileSent, Ranges
<1>8. /\ BatchWhileSent' /\ AskedFor' /\ DownloadsHeld' /\ FilesHeld' /\ MetAtPass2'
      /\ MetNotSold' /\ NotedKnown' /\ NotedStaysBack'
  BY <1>2 DEF IInv, TypeOK, BatchWhileSent, AskedFor, DownloadsHeld, FilesHeld,
     MetAtPass2, MetNotSold, NotedKnown, NotedStaysBack
<1>9. TypeOK'
  BY <1>2, <1>3, <1>8 DEF IInv, TypeOK
<1> QED
  BY <1>4, <1>5, <1>6, <1>7, <1>8, <1>9 DEF IInv

LEMMA ClaimRowsInv ==
    ASSUME IInv, NEW p \in Presses, ClaimRows(p)
    PROVE  IInv'
<1>1. /\ press[p].at = "mark"
      /\ press'[p].at \in {"read", "ended"} /\ press'[p].rows = {}
      /\ press'[p].entity = press[p].entity
      /\ \A q \in Presses : q # p => press'[q] = press[q]
      /\ \A x \in Codes : kiz'[x].owner = kiz[x].owner
      /\ \A x \in Codes : \/ kiz'[x] = kiz[x]
                        \/ /\ kiz[x].status = "sold" /\ kiz[x].owner = press[p].entity
                           /\ kiz'[x].status = "sent" /\ kiz'[x].batch = p
  BY DEF IInv, TypeOK, Press, Row, Statuses, ClaimRows, PressTo, Claimable, Queue,
     Mark, history
<1>2. UNCHANGED <<download, collector, released, files, stirred, met, noted>>
  BY DEF ClaimRows, PressTo, Claimable, Queue, Mark, history
<1>3. press' \in [Presses -> Press]
  BY DEF IInv, TypeOK, Press, ClaimRows, PressTo, Claimable, Queue, Mark, history
<1>4. kiz' \in [Codes -> Row]
  BY DEF IInv, TypeOK, Row, Statuses, ClaimRows, PressTo, Claimable, Queue, Mark,
     history
<1>5. /\ \A x \in Codes : kiz[x].batch # NoBatch => kiz'[x].batch = kiz[x].batch
  BY <1>1, RangesOf DEF BatchWhileSent
<1>6. BatchWhileSent'
  BY <1>1, <1>2, NullsApart DEF IInv, TypeOK, BatchWhileSent
<1>7. Claimed'
  BY <1>1, <1>2 DEF IInv, Claimed
<1>8. Begun'
  BY <1>1, <1>5, <1>2 DEF IInv, Begun
<1>9. OwnerOfDocument'
  <2>1. ASSUME NEW x \in Codes, kiz'[x] = kiz[x], kiz[x].batch # NoBatch
        PROVE  kiz[x].owner = press'[kiz[x].batch].entity
    BY <1>1, <2>1, RangesOf DEF IInv, OwnerOfDocument, Ranges
  <2> QED
    BY <1>1, <2>1 DEF OwnerOfDocument
<1>10. RowsHeld'
  <2> SUFFICES ASSUME NEW q \in Presses, NEW x \in press'[q].rows
               PROVE  press'[q].at \in {"read", "build"} /\ kiz'[x].batch = q
    BY DEF RowsHeld
  <2>1. q # p
    BY <1>1
  <2>2. x \in press[q].rows /\ x \in Codes /\ press'[q] = press[q]
    BY <1>1, <2>1, RangesOf DEF Ranges
  <2>3. kiz[x].batch = q /\ press[q].at \in {"read", "build"}
    BY <2>2 DEF IInv, RowsHeld
  <2> QED
    BY <1>5, <2>1, <2>2, <2>3, NullsApart
<1>11. DownloadsHeld'
  <2> SUFFICES ASSUME NEW d \in Downloads, NEW x \in download[d].rows,
                      download[d].batch \notin released
               PROVE  kiz'[x].batch = download[d].batch
    BY <1>2 DEF DownloadsHeld
  <2>1. x \in Codes /\ download[d].batch \in Presses
    BY RangesOf DEF Ranges, IInv, AskedFor
  <2>2. kiz[x].batch = download[d].batch
    BY DEF IInv, DownloadsHeld
  <2> QED
    BY <1>5, <2>1, <2>2, NullsApart
<1>12. FilesHeld'
  <2> SUFFICES ASSUME NEW f \in files, NEW x \in f.codes
               PROVE  kiz'[x].batch = f.batch
    BY <1>2 DEF IInv, FilesHeld
  <2>1. x \in Codes /\ f.batch \in Presses
    BY RangesOf DEF Ranges
  <2>2. kiz[x].batch = f.batch
    BY DEF IInv, FilesHeld
  <2> QED
    BY <1>5, <2>1, <2>2, NullsApart
<1>13. MetNotSold'
  BY <1>1, <1>2, RangesOf DEF IInv, MetNotSold, MetAtPass2, Ranges
<1>14. NotedKnown'
  BY <1>1, <1>2, RangesOf DEF IInv, NotedKnown, MetNotSold, Ranges
<1>15. NotedStaysBack'
  BY <1>1, <1>2, RangesOf DEF IInv, NotedStaysBack, NotedKnown, MetNotSold,
     MetAtPass2, Ranges
<1>16. AskedFor' /\ MetAtPass2'
  BY <1>2 DEF IInv, AskedFor, MetAtPass2
<1>17. TypeOK'
  BY <1>2, <1>3, <1>4, <1>6 DEF IInv, TypeOK
<1> QED
  BY <1>7, <1>8, <1>9, <1>10, <1>11, <1>12, <1>13, <1>14, <1>15, <1>16, <1>17 DEF IInv

LEMMA ReadPageInv ==
    ASSUME IInv, NEW p \in Presses, ReadPage(p)
    PROVE  IInv'
<1>1. /\ press[p].at = "read" /\ press'[p].at \in {"read", "build", "ended"}
      /\ \A x \in press'[p].rows : x \in press[p].rows \/ (x \in Codes /\ kiz[x].batch = p)
      /\ press'[p].at = "ended" => press'[p].rows = {}
      /\ press'[p].entity = press[p].entity
      /\ \A q \in Presses : q # p => press'[q] = press[q]
  <2> DEFINE e == press[p].entity
             page == Slice(Batch(p, e), press[p].from, PageSize)
             rows == press[p].rows \cup page
             done == LastPage(page)
  <2>1. \A x \in page : x \in Codes /\ kiz[x].batch = p
    BY DEF Slice, Batch
  <2>2. press[p].at = "read" /\ press[p].rows \subseteq Codes
    BY DEF IInv, TypeOK, Press, ReadPage
  <2> HIDE DEF page
  <2>3. press' = [press EXCEPT ![p] =
                    [at |-> IF ~done THEN "read"
                            ELSE IF rows = {} THEN "ended" ELSE "build",
                     entity |-> e, picked |-> {},
                     from |-> IF done THEN 0 ELSE press[p].from + PageSize,
                     rows |-> IF done /\ rows = {} THEN {} ELSE rows]]
    BY DEF ReadPage, page
  <2>4. press[p].from + PageSize \in Nat /\ press[p].entity \in Entities \cup {NoEntity}
    BY SizesPositive DEF IInv, TypeOK, Press
  <2> HIDE DEF done
  <2> DEFINE place == IF ~done THEN "read" ELSE IF rows = {} THEN "ended" ELSE "build"
             left == IF done /\ rows = {} THEN {} ELSE rows
  <2>5. press'[p].at = place /\ press'[p].rows = left /\ press'[p].entity = press[p].entity
    BY <2>3 DEF IInv, TypeOK
  <2>6. \A q \in Presses : q # p => press'[q] = press[q]
    BY <2>3 DEF IInv, TypeOK
  <2>7. left \subseteq rows /\ (place = "ended" => left = {})
    OBVIOUS
  <2>8. place \in {"read", "build", "ended"}
    OBVIOUS
  <2>9. \A x \in left : x \in press[p].rows \/ (x \in Codes /\ kiz[x].batch = p)
    BY <2>1, <2>7
  <2> HIDE DEF place, left
  <2> QED
    BY <2>2, <2>5, <2>6, <2>7, <2>8, <2>9
<1>2. UNCHANGED <<kiz, download, collector, released, files, stirred, met, noted>>
  BY DEF ReadPage, Slice, Batch, history
<1>3. press' \in [Presses -> Press]
  <2> DEFINE e == press[p].entity
             page == Slice(Batch(p, e), press[p].from, PageSize)
             rows == press[p].rows \cup page
             done == LastPage(page)
  <2>1. \A x \in page : x \in Codes /\ kiz[x].batch = p
    BY DEF Slice, Batch
  <2>2. press[p].at = "read" /\ press[p].rows \subseteq Codes
    BY DEF IInv, TypeOK, Press, ReadPage
  <2> HIDE DEF page
  <2>3. press' = [press EXCEPT ![p] =
                    [at |-> IF ~done THEN "read"
                            ELSE IF rows = {} THEN "ended" ELSE "build",
                     entity |-> e, picked |-> {},
                     from |-> IF done THEN 0 ELSE press[p].from + PageSize,
                     rows |-> IF done /\ rows = {} THEN {} ELSE rows]]
    BY DEF ReadPage, page
  <2>4. press[p].from + PageSize \in Nat /\ press[p].entity \in Entities \cup {NoEntity}
    BY SizesPositive DEF IInv, TypeOK, Press
  <2> HIDE DEF done
  <2> QED
    BY <2>1, <2>2, <2>3, <2>4 DEF IInv, TypeOK, Press
<1>4. Claimed'
  BY <1>1, <1>2 DEF IInv, Claimed
<1>5. Begun'
  BY <1>1, <1>2 DEF IInv, Begun
<1>6. OwnerOfDocument'
  BY <1>1, <1>2, RangesOf, NullsApart DEF IInv, OwnerOfDocument, BatchWhileSent,
     Claimed, Begun, Ranges
<1>7. RowsHeld'
  <2> SUFFICES ASSUME NEW q \in Presses, NEW x \in press'[q].rows
               PROVE  press'[q].at \in {"read", "build"} /\ kiz[x].batch = q
    BY <1>2 DEF RowsHeld
  <2>1. CASE q = p
    BY <1>1, <2>1 DEF IInv, RowsHeld
  <2>2. CASE q # p
    BY <1>1, <2>2 DEF IInv, RowsHeld
  <2> QED
    BY <2>1, <2>2
<1>8. /\ BatchWhileSent' /\ AskedFor' /\ DownloadsHeld' /\ FilesHeld' /\ MetAtPass2'
      /\ MetNotSold' /\ NotedKnown' /\ NotedStaysBack'
  BY <1>2 DEF IInv, TypeOK, BatchWhileSent, AskedFor, DownloadsHeld, FilesHeld,
     MetAtPass2, MetNotSold, NotedKnown, NotedStaysBack
<1>9. TypeOK'
  BY <1>2, <1>3, <1>8 DEF IInv, TypeOK
<1> QED
  BY <1>4, <1>5, <1>6, <1>7, <1>8, <1>9 DEF IInv

LEMMA HandOutInv ==
    ASSUME IInv, NEW p \in Presses, HandOut(p)
    PROVE  IInv'
<1>1. /\ press[p].at = "build"
      /\ press'[p].at = "ended" /\ press'[p].rows = {}
      /\ press'[p].entity = press[p].entity
      /\ \A q \in Presses : q # p => press'[q] = press[q]
      /\ files' = IF p \in released THEN files ELSE files \cup
                      {[batch |-> p, codes |-> press[p].rows]}
  BY DEF IInv, TypeOK, Press, HandOut, Document, PressTo
<1>2. UNCHANGED <<kiz, download, collector, released, stirred, met, noted>>
  BY DEF HandOut, Document, PressTo
<1>3. press' \in [Presses -> Press]
  BY DEF IInv, TypeOK, Press, HandOut, Document, PressTo
<1>4. /\ files' \subseteq [batch : Presses, codes : SUBSET Codes]
  BY RangesOf DEF IInv, TypeOK, Ranges, AskedFor, HandOut, Document, PressTo
<1>5. Claimed'
  BY <1>1, <1>2 DEF IInv, Claimed
<1>6. Begun'
  BY <1>1, <1>2 DEF IInv, Begun
<1>7. OwnerOfDocument'
  BY <1>1, <1>2, RangesOf, NullsApart DEF IInv, OwnerOfDocument, BatchWhileSent,
     Claimed, Begun, Ranges
<1>8. RowsHeld'
  BY <1>1, <1>2, RangesOf, NullsApart DEF IInv, RowsHeld, Begun, BatchWhileSent, Ranges
<1>9. FilesHeld'
  <2>1. ASSUME NEW f \in files', f \notin files
        PROVE  /\ f.batch \notin released
               /\ \A c \in f.codes : kiz[c].batch = f.batch
    BY <1>1, <2>1 DEF IInv, RowsHeld
  <2> QED
    BY <1>2, <2>1 DEF IInv, FilesHeld
<1>10. /\ BatchWhileSent' /\ AskedFor' /\ DownloadsHeld' /\ MetAtPass2' /\ MetNotSold'
       /\ NotedKnown' /\ NotedStaysBack'
  BY <1>2 DEF IInv, TypeOK, BatchWhileSent, AskedFor, DownloadsHeld, MetAtPass2,
     MetNotSold, NotedKnown, NotedStaysBack
<1>11. TypeOK'
  BY <1>2, <1>3, <1>4, <1>10 DEF IInv, TypeOK
<1> QED
  BY <1>5, <1>6, <1>7, <1>8, <1>9, <1>10, <1>11 DEF IInv

LEMMA BuildFailsInv ==
    ASSUME IInv, NEW p \in Presses, BuildFails(p)
    PROVE  IInv'
<1>1. /\ press[p].at = "build"
      /\ press'[p].at = "release" /\ press'[p].rows = {}
      /\ press'[p].entity = press[p].entity
      /\ \A q \in Presses : q # p => press'[q] = press[q]
  BY DEF IInv, TypeOK, Press, BuildFails, PressTo, history
<1>2. UNCHANGED <<kiz, download, collector, released, files, stirred, met, noted>>
  BY DEF BuildFails, PressTo, history
<1>3. press' \in [Presses -> Press]
  BY DEF IInv, TypeOK, Press, BuildFails, PressTo, history
<1>4. Claimed'
  BY <1>1, <1>2 DEF IInv, Claimed
<1>5. Begun'
  BY <1>1, <1>2 DEF IInv, Begun
<1>6. OwnerOfDocument'
  BY <1>1, <1>2, RangesOf, NullsApart DEF IInv, OwnerOfDocument, BatchWhileSent,
     Claimed, Begun, Ranges
<1>7. RowsHeld'
  BY <1>1, <1>2, RangesOf, NullsApart DEF IInv, RowsHeld, Begun, BatchWhileSent, Ranges
<1>8. /\ BatchWhileSent' /\ AskedFor' /\ DownloadsHeld' /\ FilesHeld' /\ MetAtPass2'
      /\ MetNotSold' /\ NotedKnown' /\ NotedStaysBack'
  BY <1>2 DEF IInv, TypeOK, BatchWhileSent, AskedFor, DownloadsHeld, FilesHeld,
     MetAtPass2, MetNotSold, NotedKnown, NotedStaysBack
<1>9. TypeOK'
  BY <1>2, <1>3, <1>8 DEF IInv, TypeOK
<1> QED
  BY <1>4, <1>5, <1>6, <1>7, <1>8, <1>9 DEF IInv

LEMMA ReleaseInv ==
    ASSUME IInv, NEW p \in Presses, Release(p)
    PROVE  IInv'
<1>1. /\ press[p].at = "release"
      /\ press'[p].at = "ended" /\ press'[p].rows = {}
      /\ press'[p].entity = press[p].entity
      /\ \A q \in Presses : q # p => press'[q] = press[q]
      /\ \A x \in Codes : kiz'[x].owner = kiz[x].owner
      /\ \A x \in Codes : IF x \in Batch(p, press[p].entity)
                        THEN kiz'[x].status = "sold" /\ kiz'[x].batch = NoBatch
                        ELSE kiz'[x] = kiz[x]
      /\ released' = released \cup {p} /\ files' = {f \in files : f.batch # p}
      /\ \A j \in Collectors : met'[j] = met[j] \ Batch(p, press[p].entity)
      /\ noted' = noted \ Batch(p, press[p].entity)
  BY DEF IInv, TypeOK, Collector, Press, Row, Statuses, Release, PressTo, Back, Mark
<1>2. download' = download /\ collector' = collector /\ stirred' = stirred
  BY DEF Release, PressTo, Back, Mark
<1>3. kiz' \in [Codes -> Row]
  BY DEF IInv, TypeOK, Row, Statuses, Release, PressTo, Back, Mark
<1>4. press' \in [Presses -> Press]
  BY DEF IInv, TypeOK, Press, Release, PressTo, Back, Mark
<1>5. met' \in [Collectors -> SUBSET Codes]
  BY DEF IInv, TypeOK, Collector, Release, PressTo, Back, Mark
<1>6. /\ released' \subseteq Presses
      /\ files' \subseteq [batch : Presses, codes : SUBSET Codes]
      /\ noted' \subseteq Codes
  BY RangesOf DEF IInv, TypeOK, Ranges, AskedFor, Release, PressTo, Back, Mark
<1>7. /\ \A x \in Codes : kiz[x].batch # p => kiz'[x].batch = kiz[x].batch
      /\ \A x \in Codes : kiz'[x].batch # NoBatch => kiz'[x].batch = kiz[x].batch
  BY <1>1 DEF Batch
<1>8. BatchWhileSent'
  BY <1>1, <1>2, NullsApart DEF IInv, TypeOK, BatchWhileSent, Batch
<1>9. Claimed'
  BY <1>1, <1>2 DEF IInv, Claimed, Batch
<1>10. Begun'
  <2> SUFFICES ASSUME NEW x \in Codes, NEW q \in Presses, kiz'[x].batch = q
               PROVE  press'[q].at \notin {"idle", "mark"}
    BY DEF Begun
  <2>1. kiz[x].batch = q
    BY <1>7, NullsApart
  <2> QED
    BY <1>1, <2>1 DEF IInv, Begun
<1>11. OwnerOfDocument'
  <2> SUFFICES ASSUME NEW x \in Codes, kiz'[x].batch # NoBatch
               PROVE  kiz'[x].owner = press'[kiz'[x].batch].entity
    BY DEF OwnerOfDocument
  <2>1. kiz'[x].batch = kiz[x].batch /\ kiz[x].batch \in Presses
    BY <1>7, RangesOf DEF Ranges
  <2> QED
    BY <1>1, <2>1 DEF IInv, OwnerOfDocument
<1>12. RowsHeld'
  <2> SUFFICES ASSUME NEW q \in Presses, NEW x \in press'[q].rows
               PROVE  press'[q].at \in {"read", "build"} /\ kiz'[x].batch = q
    BY DEF RowsHeld
  <2>1. q # p
    BY <1>1
  <2>2. x \in press[q].rows /\ x \in Codes /\ press'[q] = press[q]
    BY <1>1, <2>1, RangesOf DEF Ranges
  <2>3. kiz[x].batch = q /\ press[q].at \in {"read", "build"}
    BY <2>2 DEF IInv, RowsHeld
  <2> QED
    BY <1>7, <2>1, <2>2, <2>3, NullsApart
<1>13. DownloadsHeld'
  <2> SUFFICES ASSUME NEW d \in Downloads, NEW x \in download[d].rows,
                      download[d].batch \notin released'
               PROVE  kiz'[x].batch = download[d].batch
    BY <1>2 DEF DownloadsHeld
  <2>1. download[d].batch \notin released /\ download[d].batch # p
    BY <1>1
  <2>2. kiz[x].batch = download[d].batch /\ x \in Codes
    BY <2>1, RangesOf DEF IInv, DownloadsHeld, Ranges
  <2> QED
    BY <1>7, <2>1, <2>2
<1>14. FilesHeld'
  <2>1. ASSUME NEW f \in files', NEW x \in f.codes
        PROVE  kiz'[x].batch = f.batch
    <3>1. f \in files /\ f.batch # p
      BY <1>1
    <3>2. x \in Codes /\ kiz[x].batch = f.batch
      BY <3>1, RangesOf DEF Ranges, IInv, FilesHeld
    <3> QED
      BY <1>7, <3>1, <3>2
  <2>2. \A f \in files' : f.batch \notin released'
    BY <1>1 DEF IInv, FilesHeld
  <2> QED
    BY <2>1, <2>2 DEF FilesHeld
<1>15. MetAtPass2'
  BY <1>1, <1>2 DEF IInv, MetAtPass2, Batch
<1>16. MetNotSold'
  BY <1>1, <1>2, RangesOf DEF IInv, MetNotSold, MetAtPass2, Ranges, Batch
<1>17. NotedKnown'
  BY <1>1, <1>2, RangesOf DEF IInv, NotedKnown, MetNotSold, Ranges, Batch
<1>18. NotedStaysBack'
  BY <1>1, <1>2, RangesOf DEF IInv, NotedStaysBack, NotedKnown, MetNotSold,
     MetAtPass2, Ranges, Batch
<1>19. AskedFor'
  BY <1>2 DEF IInv, AskedFor
<1>20. TypeOK'
  BY <1>2, <1>3, <1>4, <1>5, <1>6, <1>8 DEF IInv, TypeOK
<1> QED
  BY <1>9, <1>10, <1>11, <1>12, <1>13, <1>14, <1>15, <1>16, <1>17, <1>18, <1>19,
     <1>20 DEF IInv

LEMMA GiveUpInv ==
    ASSUME IInv, NEW p \in Presses, GiveUp(p)
    PROVE  IInv'
<1>1. /\ press[p].at \notin {"idle"}
      /\ press'[p].at = "ended" /\ press'[p].rows = {}
      /\ press'[p].entity = press[p].entity
      /\ \A q \in Presses : q # p => press'[q] = press[q]
  BY DEF IInv, TypeOK, Press, GiveUp, PressTo, history
<1>2. UNCHANGED <<kiz, download, collector, released, files, stirred, met, noted>>
  BY DEF GiveUp, PressTo, history
<1>3. press' \in [Presses -> Press]
  BY DEF IInv, TypeOK, Press, GiveUp, PressTo, history
<1>4. Claimed'
  BY <1>1, <1>2 DEF IInv, Claimed
<1>5. Begun'
  BY <1>1, <1>2 DEF IInv, Begun
<1>6. OwnerOfDocument'
  BY <1>1, <1>2, RangesOf, NullsApart DEF IInv, OwnerOfDocument, BatchWhileSent,
     Claimed, Begun, Ranges
<1>7. RowsHeld'
  BY <1>1, <1>2, RangesOf, NullsApart DEF IInv, RowsHeld, Begun, BatchWhileSent, Ranges
<1>8. /\ BatchWhileSent' /\ AskedFor' /\ DownloadsHeld' /\ FilesHeld' /\ MetAtPass2'
      /\ MetNotSold' /\ NotedKnown' /\ NotedStaysBack'
  BY <1>2 DEF IInv, TypeOK, BatchWhileSent, AskedFor, DownloadsHeld, FilesHeld,
     MetAtPass2, MetNotSold, NotedKnown, NotedStaysBack
<1>9. TypeOK'
  BY <1>2, <1>3, <1>8 DEF IInv, TypeOK
<1> QED
  BY <1>4, <1>5, <1>6, <1>7, <1>8, <1>9 DEF IInv

LEMMA AskInv ==
    ASSUME IInv, NEW d \in Downloads, NEW b \in Presses, Ask(d, b)
    PROVE  IInv'
<1>1. /\ download'[d].at = "read" /\ download'[d].batch = b /\ download'[d].rows = {}
      /\ \A x \in Downloads : x # d => download'[x] = download[x]
  BY DEF IInv, TypeOK, Download, Ask, history
<1>2. UNCHANGED <<kiz, press, collector, released, files, stirred, met, noted>>
  BY DEF Ask, history
<1>3. download' \in [Downloads -> Download]
  BY DEF IInv, TypeOK, Download, Ask, history
<1>4. AskedFor'
  BY <1>1, <1>2 DEF IInv, AskedFor
<1>5. DownloadsHeld'
  BY <1>1, <1>2 DEF IInv, DownloadsHeld
<1>6. /\ BatchWhileSent' /\ Claimed' /\ Begun' /\ OwnerOfDocument' /\ RowsHeld'
      /\ FilesHeld' /\ MetAtPass2' /\ MetNotSold' /\ NotedKnown' /\ NotedStaysBack'
  BY <1>2 DEF IInv, TypeOK, BatchWhileSent, Claimed, Begun, OwnerOfDocument,
     RowsHeld, FilesHeld, MetAtPass2, MetNotSold, NotedKnown, NotedStaysBack
<1>7. TypeOK'
  BY <1>2, <1>3, <1>6 DEF IInv, TypeOK
<1> QED
  BY <1>4, <1>5, <1>6, <1>7 DEF IInv

LEMMA DownloadPageInv ==
    ASSUME IInv, NEW d \in Downloads, DownloadPage(d)
    PROVE  IInv'
<1>1. /\ download[d].at = "read"
      /\ download'[d].at = "idle" => download'[d].rows = {}
      /\ download'[d].at # "idle" => download'[d].batch = download[d].batch
      /\ \A x \in download'[d].rows :
            x \in download[d].rows \/ (x \in Codes /\ kiz[x].batch = download[d].batch)
      /\ \A x \in Downloads : x # d => download'[x] = download[x]
  <2> DEFINE b == download[d].batch
             page == Slice(Batch(b, press[b].entity), download[d].from, PageSize)
             rows == download[d].rows \cup page
             done == LastPage(page)
  <2>1. \A x \in page : x \in Codes /\ kiz[x].batch = b
    BY DEF Slice, Batch
  <2>2. download[d].at = "read" /\ download[d].rows \subseteq Codes
    BY DEF IInv, TypeOK, Download, DownloadPage
  <2> HIDE DEF page
  <2>3. download' = [download EXCEPT ![d] =
            IF done /\ rows = {} THEN Closed
            ELSE [at |-> IF done THEN "build" ELSE "read", batch |-> b,
                  from |-> IF done THEN 0 ELSE download[d].from + PageSize,
                  rows |-> rows]]
    BY DEF DownloadPage, page
  <2>4. download[d].from + PageSize \in Nat /\ b \in Presses \cup {NoBatch}
    BY SizesPositive DEF IInv, TypeOK, Download
  <2> HIDE DEF done
  <2>5. CASE done /\ rows = {}
    BY <2>2, <2>3, <2>5 DEF IInv, TypeOK, Closed
  <2>6. CASE ~(done /\ rows = {})
    <3>1. /\ download'[d].batch = b /\ download'[d].rows = rows
          /\ download'[d].at # "idle"
          /\ \A x \in Downloads : x # d => download'[x] = download[x]
      BY <2>3, <2>6 DEF IInv, TypeOK
    <3>2. \A x \in rows : x \in download[d].rows \/ (x \in Codes /\ kiz[x].batch = b)
      BY <2>1
    <3> QED
      BY <2>2, <3>1, <3>2
  <2> QED
    BY <2>5, <2>6
<1>2. UNCHANGED <<kiz, press, collector, released, files, stirred, met, noted>>
  BY DEF DownloadPage, Slice, Batch, Closed, history
<1>3. download' \in [Downloads -> Download]
  <2> DEFINE b == download[d].batch
             page == Slice(Batch(b, press[b].entity), download[d].from, PageSize)
             rows == download[d].rows \cup page
             done == LastPage(page)
  <2>1. \A x \in page : x \in Codes /\ kiz[x].batch = b
    BY DEF Slice, Batch
  <2>2. download[d].at = "read" /\ download[d].rows \subseteq Codes
    BY DEF IInv, TypeOK, Download, DownloadPage
  <2> HIDE DEF page
  <2>3. download' = [download EXCEPT ![d] =
            IF done /\ rows = {} THEN Closed
            ELSE [at |-> IF done THEN "build" ELSE "read", batch |-> b,
                  from |-> IF done THEN 0 ELSE download[d].from + PageSize,
                  rows |-> rows]]
    BY DEF DownloadPage, page
  <2>4. download[d].from + PageSize \in Nat /\ b \in Presses \cup {NoBatch}
    BY SizesPositive DEF IInv, TypeOK, Download
  <2> HIDE DEF done
  <2> QED
    BY <2>1, <2>2, <2>3, <2>4 DEF IInv, TypeOK, Download, Closed
<1>4. AskedFor'
  BY <1>1, <1>2 DEF IInv, AskedFor
<1>5. DownloadsHeld'
  <2> SUFFICES ASSUME NEW x \in Downloads, NEW c \in download'[x].rows,
                      download'[x].batch \notin released
               PROVE  kiz[c].batch = download'[x].batch
    BY <1>2 DEF DownloadsHeld
  <2>1. CASE x = d
    BY <1>1, <2>1 DEF IInv, DownloadsHeld
  <2>2. CASE x # d
    BY <1>1, <2>2 DEF IInv, DownloadsHeld
  <2> QED
    BY <2>1, <2>2
<1>6. /\ BatchWhileSent' /\ Claimed' /\ Begun' /\ OwnerOfDocument' /\ RowsHeld'
      /\ FilesHeld' /\ MetAtPass2' /\ MetNotSold' /\ NotedKnown' /\ NotedStaysBack'
  BY <1>2 DEF IInv, TypeOK, BatchWhileSent, Claimed, Begun, OwnerOfDocument,
     RowsHeld, FilesHeld, MetAtPass2, MetNotSold, NotedKnown, NotedStaysBack
<1>7. TypeOK'
  BY <1>2, <1>3, <1>6 DEF IInv, TypeOK
<1> QED
  BY <1>4, <1>5, <1>6, <1>7 DEF IInv

LEMMA DownloadFileInv ==
    ASSUME IInv, NEW d \in Downloads, DownloadFile(d)
    PROVE  IInv'
<1>1. /\ download[d].at = "build"
      /\ download'[d].at = "idle" /\ download'[d].rows = {}
      /\ \A x \in Downloads : x # d => download'[x] = download[x]
      /\ files' = IF download[d].batch \in released THEN files
                  ELSE files \cup {[batch |-> download[d].batch, codes |-> download[d].rows]}
  BY DEF IInv, TypeOK, Download, DownloadFile, Document, Closed
<1>2. UNCHANGED <<kiz, press, collector, released, stirred, met, noted>>
  BY DEF DownloadFile, Document, Closed
<1>3. download' \in [Downloads -> Download]
  BY DEF IInv, TypeOK, Download, DownloadFile, Document, Closed
<1>4. /\ files' \subseteq [batch : Presses, codes : SUBSET Codes]
  BY RangesOf DEF IInv, TypeOK, Ranges, AskedFor, DownloadFile, Document, Closed
<1>5. AskedFor'
  BY <1>1, <1>2 DEF IInv, AskedFor
<1>6. DownloadsHeld'
  BY <1>1, <1>2 DEF IInv, DownloadsHeld
<1>7. FilesHeld'
  <2>1. ASSUME NEW f \in files', f \notin files
        PROVE  /\ f.batch \notin released
               /\ \A c \in f.codes : kiz[c].batch = f.batch
    BY <1>1, <2>1 DEF IInv, DownloadsHeld
  <2> QED
    BY <1>2, <2>1 DEF IInv, FilesHeld
<1>8. /\ BatchWhileSent' /\ Claimed' /\ Begun' /\ OwnerOfDocument' /\ RowsHeld'
      /\ MetAtPass2' /\ MetNotSold' /\ NotedKnown' /\ NotedStaysBack'
  BY <1>2 DEF IInv, TypeOK, BatchWhileSent, Claimed, Begun, OwnerOfDocument,
     RowsHeld, MetAtPass2, MetNotSold, NotedKnown, NotedStaysBack
<1>9. TypeOK'
  BY <1>2, <1>3, <1>4, <1>8 DEF IInv, TypeOK
<1> QED
  BY <1>5, <1>6, <1>7, <1>8, <1>9 DEF IInv

LEMMA DownloadFailsInv ==
    ASSUME IInv, NEW d \in Downloads, DownloadFails(d)
    PROVE  IInv'
<1>1. /\ download'[d].at = "idle" /\ download'[d].rows = {}
      /\ \A x \in Downloads : x # d => download'[x] = download[x]
  BY DEF IInv, TypeOK, Download, DownloadFails, Closed, history
<1>2. UNCHANGED <<kiz, press, collector, released, files, stirred, met, noted>>
  BY DEF DownloadFails, Closed, history
<1>3. download' \in [Downloads -> Download]
  BY DEF IInv, TypeOK, Download, DownloadFails, Closed, history
<1>4. AskedFor'
  BY <1>1, <1>2 DEF IInv, AskedFor
<1>5. DownloadsHeld'
  BY <1>1, <1>2 DEF IInv, DownloadsHeld
<1>6. /\ BatchWhileSent' /\ Claimed' /\ Begun' /\ OwnerOfDocument' /\ RowsHeld'
      /\ FilesHeld' /\ MetAtPass2' /\ MetNotSold' /\ NotedKnown' /\ NotedStaysBack'
  BY <1>2 DEF IInv, TypeOK, BatchWhileSent, Claimed, Begun, OwnerOfDocument,
     RowsHeld, FilesHeld, MetAtPass2, MetNotSold, NotedKnown, NotedStaysBack
<1>7. TypeOK'
  BY <1>2, <1>3, <1>6 DEF IInv, TypeOK
<1> QED
  BY <1>4, <1>5, <1>6, <1>7 DEF IInv

LEMMA CollectInv ==
    ASSUME IInv, NEW k \in Collectors, NEW kind \in Sources, NEW listed \in SUBSET Codes,
           NEW lines \in [listed -> Said(kind)], NEW dated \in SUBSET listed,
           NEW back \in SUBSET Codes, Collect(k, kind, lines, dated, back)
    PROVE  IInv'
<1>1. /\ collector[k].at = "idle" /\ collector'[k].at # "pass2"
      /\ \A j \in Collectors : j # k => collector'[j] = collector[j]
      /\ \A x \in Codes : kiz'[x] = kiz[x] \/ (/\ kiz[x].status = "none" /\ kiz'[x].batch = NoBatch
                                        /\ kiz'[x].status \in Inserted)
  <2>1. PICK place \in {"pass1", "enrich", "attach"}, S \in SUBSET Codes :
                CollectorTo(k, place, S)
    BY DEF Collect, Finish
  <2>2. collector[k] = Idle
    BY DEF Collect
  <2>3. DOMAIN lines = listed /\ \A x \in listed : lines[x] \in Inserted
    BY SourcesKnown DEF Said, Inserted
  <2>4. \A x \in Codes :
            kiz'[x] = IF x \in DOMAIN lines /\ kiz[x].status = "none"
                        THEN [status |-> lines[x], owner |-> NoEntity,
                              batch |-> NoBatch, dated |-> x \in dated]
                        ELSE kiz[x]
    BY DEF Collect, Collected
  <2>5. ASSUME NEW x \in Codes, kiz'[x] # kiz[x]
        PROVE  kiz[x].status = "none" /\ kiz'[x].batch = NoBatch /\ kiz'[x].status \in Inserted
    <3>1. /\ kiz[x].status = "none" /\ lines[x] \in Inserted
          /\ kiz'[x] = [status |-> lines[x], owner |-> NoEntity,
                        batch |-> NoBatch, dated |-> x \in dated]
      BY <2>3, <2>4, <2>5, Zenon
    <3>2. kiz'[x].batch = NoBatch /\ kiz'[x].status = lines[x]
      BY <3>1
    <3> QED
      BY <3>1, <3>2
  <2>6. collector[k].at = "idle"
    BY <2>2, IdleAt
  <2>7. TypeOK
    BY DEF IInv
  <2>8. collector'[k].at # "pass2" /\ \A j \in Collectors : j # k => collector'[j] = collector[j]
    BY <2>1, <2>7, CollectorGoes
  <2> QED
    BY <2>5, <2>6, <2>8
<1>2. UNCHANGED <<press, download, released, files, stirred, met, noted>>
  BY DEF Collect, Idle, Collected, CollectorTo, Finish, Said, Inserted, history
<1>3. kiz' \in [Codes -> Row]
  <2>1. DOMAIN lines = listed /\ \A x \in listed : lines[x] \in Inserted
    BY SourcesKnown DEF Said, Inserted
  <2>2. Collected(lines, dated)
    BY DEF Collect
  <2>3. ASSUME NEW x \in Codes
        PROVE  x \in DOMAIN lines =>
                 [status |-> lines[x], owner |-> NoEntity, batch |-> NoBatch,
                  dated |-> x \in dated] \in Row
    <3> DEFINE s == lines[x]
               t == x \in dated
    <3>1. x \in DOMAIN lines => s \in Statuses
      BY <2>1 DEF Statuses, Inserted
    <3>2. t \in BOOLEAN
      OBVIOUS
    <3> HIDE DEF s, t
    <3>3. s \in Statuses =>
            [status |-> s, owner |-> NoEntity, batch |-> NoBatch, dated |-> t] \in Row
      BY <3>2, RowTyped
    <3> QED
      BY <3>1, <3>3 DEF s, t
  <2>4. \A x \in Codes : kiz[x] \in Row
    BY DEF IInv, TypeOK
  <2> QED
    BY <2>2, <2>3, <2>4 DEF Collected
<1>4. collector' \in [Collectors -> Collector]
  <2>1. PICK place \in {"pass1", "enrich", "attach"}, S \in SUBSET Codes :
                CollectorTo(k, place, S)
    BY DEF Collect, Finish
  <2> QED
    BY <2>1, CollectorGoes, IdleAt DEF IInv
<1>5. /\ \A x \in Codes : kiz[x].batch # NoBatch => kiz'[x].batch = kiz[x].batch
      /\ \A x \in Codes : kiz'[x].batch # NoBatch => kiz'[x].batch = kiz[x].batch
  BY <1>1, RangesOf DEF BatchWhileSent
<1>6. BatchWhileSent'
  BY <1>1, <1>2, NullsApart DEF IInv, TypeOK, BatchWhileSent, Inserted
<1>7. Begun'
  BY <1>2, <1>5, RangesOf, NullsApart DEF IInv, Begun, Ranges
<1>8. OwnerOfDocument'
  BY <1>1, <1>5, <1>2, RangesOf, NullsApart DEF IInv, OwnerOfDocument,
     BatchWhileSent, Claimed, Begun, Ranges, Inserted
<1>9. RowsHeld'
  BY <1>2, <1>5, RangesOf, NullsApart DEF IInv, RowsHeld, Ranges
<1>10. DownloadsHeld'
  BY <1>2, <1>5, RangesOf, NullsApart DEF IInv, DownloadsHeld, Ranges
<1>11. FilesHeld'
  BY <1>2, <1>5, RangesOf, NullsApart DEF IInv, FilesHeld, Ranges
<1>12. MetAtPass2'
  BY <1>1, <1>2 DEF IInv, MetAtPass2, Inserted
<1>13. MetNotSold'
  BY <1>1, <1>2, RangesOf DEF IInv, MetNotSold, MetAtPass2, Ranges, Inserted
<1>14. NotedKnown'
  BY <1>1, <1>2, RangesOf DEF IInv, NotedKnown, MetNotSold, Ranges, Inserted
<1>15. NotedStaysBack'
  BY <1>1, <1>2, RangesOf DEF IInv, NotedStaysBack, NotedKnown, MetNotSold,
     MetAtPass2, Ranges, Inserted
<1>16. Claimed' /\ AskedFor'
  BY <1>2 DEF IInv, Claimed, AskedFor
<1>17. TypeOK'
  BY <1>2, <1>3, <1>4, <1>6 DEF IInv, TypeOK
<1> QED
  BY <1>7, <1>8, <1>9, <1>10, <1>11, <1>12, <1>13, <1>14, <1>15, <1>16, <1>17 DEF IInv

LEMMA CollectFailsInv ==
    ASSUME IInv, NEW k \in Collectors, NEW kind \in Sources, NEW back \in SUBSET Codes,
           CollectFails(k, kind, back)
    PROVE  IInv'
<1>1. /\ collector[k].at = "idle" /\ collector'[k].at # "pass2"
      /\ \A j \in Collectors : j # k => collector'[j] = collector[j]
  <2>1. PICK place \in {"pass1", "enrich", "attach"}, S \in SUBSET Codes :
                CollectorTo(k, place, S)
    BY DEF CollectFails, Finish
  <2>2. collector[k] = Idle
    BY DEF CollectFails
  <2> QED
    BY <2>1, <2>2, CollectorGoes, IdleAt DEF IInv
<1>2. UNCHANGED <<kiz, press, download, released, files, stirred, met, noted>>
  BY DEF CollectFails, Idle, CollectorTo, Finish, history
<1>3. collector' \in [Collectors -> Collector]
  <2>1. PICK place \in {"pass1", "enrich", "attach"}, S \in SUBSET Codes :
                CollectorTo(k, place, S)
    BY DEF CollectFails, Finish
  <2> QED
    BY <2>1, CollectorGoes, IdleAt DEF IInv
<1>4. MetAtPass2'
  BY <1>1, <1>2 DEF IInv, MetAtPass2
<1>5. /\ BatchWhileSent' /\ Claimed' /\ Begun' /\ OwnerOfDocument' /\ RowsHeld'
      /\ AskedFor' /\ DownloadsHeld' /\ FilesHeld' /\ MetNotSold' /\ NotedKnown'
      /\ NotedStaysBack'
  BY <1>2 DEF IInv, TypeOK, BatchWhileSent, Claimed, Begun, OwnerOfDocument,
     RowsHeld, AskedFor, DownloadsHeld, FilesHeld, MetNotSold, NotedKnown,
     NotedStaysBack
<1>6. TypeOK'
  BY <1>2, <1>3, <1>5 DEF IInv, TypeOK
<1> QED
  BY <1>4, <1>5, <1>6 DEF IInv

LEMMA NoteSoldInv ==
    ASSUME IInv, NEW k \in Collectors, NoteSold(k)
    PROVE  IInv'
<1>1. /\ collector[k].at = "pass1" /\ collector'[k].at = "pass2"
      /\ collector'[k].back = collector[k].back
      /\ \A j \in Collectors : j # k => collector'[j] = collector[j]
      /\ \A x \in Codes : kiz'[x].batch = kiz[x].batch
      /\ \A x \in Codes : kiz'[x].owner = kiz[x].owner
      /\ \A x \in Codes : kiz'[x].status = IF x \in collector[k].back /\ kiz[x].status = "sold"
                                          THEN "returned" ELSE kiz[x].status
      /\ met'[k] = {c \in collector[k].back : kiz[c].status # "none"}
      /\ \A j \in Collectors : j # k => met'[j] = met[j]
  BY DEF IInv, TypeOK, Collector, Row, Statuses, NoteSold, Noting, Pass, Mark,
     CollectorTo
<1>2. UNCHANGED <<press, download, released, files, stirred, noted>>
  BY DEF NoteSold, Noting, Pass, Mark, CollectorTo
<1>3. kiz' \in [Codes -> Row]
  BY DEF IInv, TypeOK, Row, Statuses, NoteSold, Noting, Pass, Mark, CollectorTo
<1>4. collector' \in [Collectors -> Collector]
  BY DEF IInv, TypeOK, Collector, NoteSold, Noting, Pass, Mark, CollectorTo
<1>5. met' \in [Collectors -> SUBSET Codes]
  BY DEF IInv, TypeOK, Collector, NoteSold, Noting, Pass, Mark, CollectorTo
<1>6. /\ \A x \in Codes : kiz[x].batch # NoBatch => kiz'[x].batch = kiz[x].batch
      /\ \A x \in Codes : kiz'[x].batch # NoBatch => kiz'[x].batch = kiz[x].batch
  BY <1>1, RangesOf DEF BatchWhileSent
<1>7. BatchWhileSent'
  BY <1>1, <1>2, NullsApart DEF IInv, TypeOK, BatchWhileSent
<1>8. Begun'
  BY <1>2, <1>6, RangesOf, NullsApart DEF IInv, Begun, Ranges
<1>9. OwnerOfDocument'
  BY <1>1, <1>6, <1>2, RangesOf, NullsApart DEF IInv, OwnerOfDocument,
     BatchWhileSent, Claimed, Begun, Ranges
<1>10. RowsHeld'
  BY <1>2, <1>6, RangesOf, NullsApart DEF IInv, RowsHeld, Ranges
<1>11. DownloadsHeld'
  BY <1>2, <1>6, RangesOf, NullsApart DEF IInv, DownloadsHeld, Ranges
<1>12. FilesHeld'
  BY <1>2, <1>6, RangesOf, NullsApart DEF IInv, FilesHeld, Ranges
<1>13. MetAtPass2'
  BY <1>1, <1>2 DEF IInv, MetAtPass2
<1>14. MetNotSold'
  <2>1. \A c \in met'[k] : kiz'[c].status \notin {"none", "sold"}
    BY <1>1, RangesOf DEF Ranges
  <2>2. ASSUME NEW j \in Collectors, j # k, NEW c \in met'[j]
        PROVE  kiz'[c].status \notin {"none", "sold"}
    BY <1>1, <2>2, RangesOf DEF IInv, MetNotSold, Ranges
  <2> QED
    BY <2>1, <2>2 DEF MetNotSold
<1>15. NotedKnown'
  BY <1>1, <1>2, RangesOf DEF IInv, NotedKnown, MetNotSold, Ranges
<1>16. NotedStaysBack'
  BY <1>1, <1>2, RangesOf DEF IInv, NotedStaysBack, NotedKnown, MetNotSold,
     MetAtPass2, Ranges
<1>17. Claimed' /\ AskedFor'
  BY <1>2 DEF IInv, Claimed, AskedFor
<1>18. TypeOK'
  BY <1>2, <1>3, <1>4, <1>5, <1>7 DEF IInv, TypeOK
<1> QED
  BY <1>8, <1>9, <1>10, <1>11, <1>12, <1>13, <1>14, <1>15, <1>16, <1>17, <1>18 DEF IInv

LEMMA NoteSentInv ==
    ASSUME IInv, NEW k \in Collectors, NoteSent(k)
    PROVE  IInv'
<1>1. /\ collector'[k].at = "attach" /\ met'[k] = {}
      /\ \A j \in Collectors : j # k => collector'[j] = collector[j]
      /\ \A j \in Collectors : j # k => met'[j] = met[j]
      /\ \A x \in Codes : kiz'[x].batch = kiz[x].batch
      /\ \A x \in Codes : kiz'[x].owner = kiz[x].owner
      /\ \A x \in Codes : kiz'[x].status = IF x \in collector[k].back /\ kiz[x].status = "sent"
                                          THEN "returned_after_sent" ELSE kiz[x].status
      /\ noted' = noted \cup met[k]
  <2>1. CollectorTo(k, "attach", {}) /\ Noting(k, 2)
    BY DEF NoteSent, Finish
  <2>2. \A x \in Codes :
            kiz'[x] = IF x \in collector[k].back /\ kiz[x].status = "sent"
                        THEN [status |-> "returned_after_sent", owner |-> kiz[x].owner,
                              batch |-> kiz[x].batch, dated |-> kiz[x].dated]
                        ELSE kiz[x]
    <3>1. Pass(2)[1] = "sent" /\ Pass(2)[2] = "returned_after_sent"
      BY DEF Pass
    <3> QED
      BY <2>1, <3>1 DEF Noting, Mark
  <2>3. met' = [met EXCEPT ![k] = {}] /\ noted' = noted \cup met[k]
    BY DEF NoteSent
  <2>4. TypeOK
    BY DEF IInv
  <2>5. collector'[k].at = "attach" /\ \A j \in Collectors : j # k => collector'[j] = collector[j]
    <3>1. {} \in SUBSET Codes
      OBVIOUS
    <3> QED
      BY <2>1, <2>4, <3>1, CollectorGoes
  <2>6. met'[k] = {} /\ \A j \in Collectors : j # k => met'[j] = met[j]
    BY <2>3 DEF IInv, TypeOK
  <2>7. ASSUME NEW x \in Codes
        PROVE  /\ kiz'[x].batch = kiz[x].batch /\ kiz'[x].owner = kiz[x].owner
               /\ kiz'[x].status = IF x \in collector[k].back /\ kiz[x].status = "sent"
                                     THEN "returned_after_sent" ELSE kiz[x].status
    <3>1. CASE x \in collector[k].back /\ kiz[x].status = "sent"
      <4>1. kiz'[x] = [status |-> "returned_after_sent", owner |-> kiz[x].owner,
                       batch |-> kiz[x].batch, dated |-> kiz[x].dated]
        BY <2>2, <3>1, Zenon
      <4>2. kiz'[x].status = "returned_after_sent" /\ kiz'[x].owner = kiz[x].owner
            /\ kiz'[x].batch = kiz[x].batch
        BY <4>1
      <4> QED
        BY <3>1, <4>2
    <3>2. CASE ~(x \in collector[k].back /\ kiz[x].status = "sent")
      BY <2>2, <3>2
    <3> QED
      BY <3>1, <3>2
  <2> QED
    BY <2>3, <2>5, <2>6, <2>7
<1>2. UNCHANGED <<press, download, released, files, stirred>>
  BY DEF NoteSent, Noting, Pass, Mark, CollectorTo, Finish
<1>3. kiz' \in [Codes -> Row]
  BY DEF IInv, TypeOK, Row, Statuses, NoteSent, Noting, Pass, Mark, CollectorTo, Finish
<1>4. collector' \in [Collectors -> Collector]
  BY DEF IInv, TypeOK, Collector, NoteSent, Noting, Pass, Mark, CollectorTo, Finish
<1>5. met' \in [Collectors -> SUBSET Codes]
  BY DEF IInv, TypeOK, Collector, NoteSent, Noting, Pass, Mark, CollectorTo, Finish
<1>6. /\ noted' \subseteq Codes
  BY RangesOf DEF IInv, TypeOK, Ranges, AskedFor, NoteSent, Noting, Pass, Mark,
     CollectorTo, Finish
<1>7. /\ \A x \in Codes : kiz[x].batch # NoBatch => kiz'[x].batch = kiz[x].batch
      /\ \A x \in Codes : kiz'[x].batch # NoBatch => kiz'[x].batch = kiz[x].batch
  BY <1>1, RangesOf DEF BatchWhileSent
<1>8. BatchWhileSent'
  BY <1>1, <1>2, NullsApart DEF IInv, TypeOK, BatchWhileSent
<1>9. Begun'
  BY <1>2, <1>7, RangesOf, NullsApart DEF IInv, Begun, Ranges
<1>10. OwnerOfDocument'
  BY <1>1, <1>7, <1>2, RangesOf, NullsApart DEF IInv, OwnerOfDocument,
     BatchWhileSent, Claimed, Begun, Ranges
<1>11. RowsHeld'
  BY <1>2, <1>7, RangesOf, NullsApart DEF IInv, RowsHeld, Ranges
<1>12. DownloadsHeld'
  BY <1>2, <1>7, RangesOf, NullsApart DEF IInv, DownloadsHeld, Ranges
<1>13. FilesHeld'
  BY <1>2, <1>7, RangesOf, NullsApart DEF IInv, FilesHeld, Ranges
<1>14. MetAtPass2'
  BY <1>1, <1>2 DEF IInv, MetAtPass2
<1>15. MetNotSold'
  BY <1>1, <1>2, RangesOf DEF IInv, MetNotSold, MetAtPass2, Ranges
<1>16. NotedKnown'
  BY <1>1, <1>2, RangesOf DEF IInv, NotedKnown, MetNotSold, Ranges
<1>17. NotedStaysBack'
  BY <1>1, <1>2, RangesOf DEF IInv, NotedStaysBack, NotedKnown, MetNotSold,
     MetAtPass2, Ranges
<1>18. Claimed' /\ AskedFor'
  BY <1>2 DEF IInv, Claimed, AskedFor
<1>19. TypeOK'
  BY <1>2, <1>3, <1>4, <1>5, <1>6, <1>8 DEF IInv, TypeOK
<1> QED
  BY <1>9, <1>10, <1>11, <1>12, <1>13, <1>14, <1>15, <1>16, <1>17, <1>18, <1>19 DEF IInv

LEMMA EnrichInv ==
    ASSUME IInv, NEW k \in Collectors, NEW c \in Codes, Enrich(k, c)
    PROVE  IInv'
<1>1. /\ \A x \in Codes : kiz'[x].batch = kiz[x].batch
      /\ \A x \in Codes : kiz'[x].owner = kiz[x].owner
      /\ \A x \in Codes : kiz'[x].status = kiz[x].status
  BY DEF IInv, TypeOK, Row, Statuses, Enrich
<1>2. UNCHANGED <<press, download, collector, released, files, met, noted>>
  BY DEF Enrich
<1>3. kiz' \in [Codes -> Row]
  <2>1. [kiz[c] EXCEPT !.dated = TRUE] \in Row
    BY DEF IInv, TypeOK, Row
  <2>2. kiz' = [kiz EXCEPT ![c].dated = TRUE]
    BY DEF Enrich
  <2>3. kiz' = [x \in Codes |-> IF x = c THEN [kiz[c] EXCEPT !.dated = TRUE] ELSE kiz[x]]
    BY <2>2 DEF IInv, TypeOK
  <2> QED
    BY <2>1, <2>3 DEF IInv, TypeOK
<1>4. /\ stirred' \subseteq Presses
  BY RangesOf DEF IInv, TypeOK, Ranges, AskedFor, Enrich
<1>5. /\ \A x \in Codes : kiz[x].batch # NoBatch => kiz'[x].batch = kiz[x].batch
      /\ \A x \in Codes : kiz'[x].batch # NoBatch => kiz'[x].batch = kiz[x].batch
  BY <1>1, RangesOf DEF BatchWhileSent
<1>6. BatchWhileSent'
  BY <1>1, <1>2, NullsApart DEF IInv, TypeOK, BatchWhileSent
<1>7. Begun'
  BY <1>2, <1>5, RangesOf, NullsApart DEF IInv, Begun, Ranges
<1>8. OwnerOfDocument'
  BY <1>1, <1>5, <1>2, RangesOf, NullsApart DEF IInv, OwnerOfDocument,
     BatchWhileSent, Claimed, Begun, Ranges
<1>9. RowsHeld'
  BY <1>2, <1>5, RangesOf, NullsApart DEF IInv, RowsHeld, Ranges
<1>10. DownloadsHeld'
  BY <1>2, <1>5, RangesOf, NullsApart DEF IInv, DownloadsHeld, Ranges
<1>11. FilesHeld'
  BY <1>2, <1>5, RangesOf, NullsApart DEF IInv, FilesHeld, Ranges
<1>12. MetNotSold'
  BY <1>1, <1>2, RangesOf DEF IInv, MetNotSold, MetAtPass2, Ranges
<1>13. NotedKnown'
  BY <1>1, <1>2, RangesOf DEF IInv, NotedKnown, MetNotSold, Ranges
<1>14. NotedStaysBack'
  BY <1>1, <1>2, RangesOf DEF IInv, NotedStaysBack, NotedKnown, MetNotSold,
     MetAtPass2, Ranges
<1>15. Claimed' /\ AskedFor' /\ MetAtPass2'
  BY <1>2 DEF IInv, Claimed, AskedFor, MetAtPass2
<1>16. TypeOK'
  BY <1>2, <1>3, <1>4, <1>6 DEF IInv, TypeOK
<1> QED
  BY <1>7, <1>8, <1>9, <1>10, <1>11, <1>12, <1>13, <1>14, <1>15, <1>16 DEF IInv

LEMMA PassOverInv ==
    ASSUME IInv, NEW k \in Collectors, PassOver(k)
    PROVE  IInv'
<1>1. /\ met'[k] = {}
      /\ \A j \in Collectors : j # k => collector'[j] = collector[j]
      /\ \A j \in Collectors : j # k => met'[j] = met[j]
  BY DEF IInv, TypeOK, Collector, PassOver, CollectorTo, Finish
<1>2. UNCHANGED <<kiz, press, download, released, files, stirred, noted>>
  BY DEF PassOver, CollectorTo, Finish
<1>3. collector' \in [Collectors -> Collector]
  <2>1. PICK place \in {"pass2", "attach"}, S \in SUBSET Codes :
                CollectorTo(k, place, S)
    BY RangesOf DEF PassOver, Finish, Ranges
  <2> QED
    BY <2>1, CollectorGoes DEF IInv
<1>4. met' \in [Collectors -> SUBSET Codes]
  BY DEF IInv, TypeOK, Collector, PassOver, CollectorTo, Finish
<1>5. MetAtPass2'
  BY <1>1, <1>2 DEF IInv, MetAtPass2
<1>6. MetNotSold'
  BY <1>1, <1>2, RangesOf DEF IInv, MetNotSold, MetAtPass2, Ranges
<1>7. /\ BatchWhileSent' /\ Claimed' /\ Begun' /\ OwnerOfDocument' /\ RowsHeld'
      /\ AskedFor' /\ DownloadsHeld' /\ FilesHeld' /\ NotedKnown' /\ NotedStaysBack'
  BY <1>2 DEF IInv, TypeOK, BatchWhileSent, Claimed, Begun, OwnerOfDocument,
     RowsHeld, AskedFor, DownloadsHeld, FilesHeld, NotedKnown, NotedStaysBack
<1>8. TypeOK'
  BY <1>2, <1>3, <1>4, <1>7 DEF IInv, TypeOK
<1> QED
  BY <1>5, <1>6, <1>7, <1>8 DEF IInv

LEMMA AttachInv ==
    ASSUME IInv, NEW k \in Collectors, NEW says \in [Codes -> Entities \cup {NoEntity}],
           Attach(k, says)
    PROVE  IInv'
<1>1. /\ collector[k].at = "attach" /\ collector'[k].at = "idle"
      /\ collector'[k].back = {}
      /\ \A j \in Collectors : j # k => collector'[j] = collector[j]
      /\ \A x \in Codes : kiz'[x].batch = kiz[x].batch
      /\ \A x \in Codes : kiz'[x].status = kiz[x].status
      /\ \A x \in Codes : \/ kiz'[x].owner = kiz[x].owner
                        \/ kiz[x].owner = NoEntity \/ kiz[x].status \in Movable
  BY DEF IInv, TypeOK, Collector, Row, Statuses, Attach, Idle, history
<1>2. UNCHANGED <<press, download, released, files, stirred, met, noted>>
  BY DEF Attach, Idle, history
<1>3. kiz' \in [Codes -> Row]
  BY DEF IInv, TypeOK, Row, Statuses, Attach, Idle, history
<1>4. collector' \in [Collectors -> Collector]
  BY DEF IInv, TypeOK, Collector, Attach, Idle, history
<1>5. /\ \A x \in Codes : kiz[x].batch # NoBatch => kiz'[x].batch = kiz[x].batch
      /\ \A x \in Codes : kiz'[x].batch # NoBatch => kiz'[x].batch = kiz[x].batch
  BY <1>1, RangesOf DEF BatchWhileSent
<1>6. BatchWhileSent'
  BY <1>1, <1>2, NullsApart DEF IInv, TypeOK, BatchWhileSent, Movable
<1>7. Begun'
  BY <1>2, <1>5, RangesOf, NullsApart DEF IInv, Begun, Ranges
<1>8. OwnerOfDocument'
  <2> SUFFICES ASSUME NEW x \in Codes, kiz[x].batch # NoBatch
               PROVE  kiz'[x].owner = kiz[x].owner
    BY <1>1, <1>2 DEF IInv, OwnerOfDocument
  <2>1. kiz[x].status \notin Movable
    BY RangesOf DEF BatchWhileSent, Movable
  <2>2. kiz[x].owner # NoEntity
    BY RangesOf, NullsApart DEF Ranges, IInv, OwnerOfDocument, Claimed, Begun
  <2> QED
    BY <1>1, <2>1, <2>2
<1>9. RowsHeld'
  BY <1>2, <1>5, RangesOf, NullsApart DEF IInv, RowsHeld, Ranges
<1>10. DownloadsHeld'
  BY <1>2, <1>5, RangesOf, NullsApart DEF IInv, DownloadsHeld, Ranges
<1>11. FilesHeld'
  BY <1>2, <1>5, RangesOf, NullsApart DEF IInv, FilesHeld, Ranges
<1>12. MetAtPass2'
  BY <1>1, <1>2 DEF IInv, MetAtPass2, Movable
<1>13. MetNotSold'
  BY <1>1, <1>2, RangesOf DEF IInv, MetNotSold, MetAtPass2, Ranges, Movable
<1>14. NotedKnown'
  BY <1>1, <1>2, RangesOf DEF IInv, NotedKnown, MetNotSold, Ranges, Movable
<1>15. NotedStaysBack'
  BY <1>1, <1>2, RangesOf DEF IInv, NotedStaysBack, NotedKnown, MetNotSold,
     MetAtPass2, Ranges, Movable
<1>16. Claimed' /\ AskedFor'
  BY <1>2 DEF IInv, Claimed, AskedFor
<1>17. TypeOK'
  BY <1>2, <1>3, <1>4, <1>6 DEF IInv, TypeOK
<1> QED
  BY <1>7, <1>8, <1>9, <1>10, <1>11, <1>12, <1>13, <1>14, <1>15, <1>16, <1>17 DEF IInv

LEMMA QuitInv ==
    ASSUME IInv, NEW k \in Collectors, Quit(k)
    PROVE  IInv'
<1>1. /\ met'[k] = {}
      /\ \A j \in Collectors : j # k => collector'[j] = collector[j]
      /\ \A j \in Collectors : j # k => met'[j] = met[j]
  BY DEF IInv, TypeOK, Collector, Quit, Idle
<1>2. UNCHANGED <<kiz, press, download, released, files, stirred, noted>>
  BY DEF Quit, Idle
<1>3. collector' \in [Collectors -> Collector]
  BY DEF IInv, TypeOK, Collector, Quit, Idle
<1>4. met' \in [Collectors -> SUBSET Codes]
  BY DEF IInv, TypeOK, Collector, Quit, Idle
<1>5. MetAtPass2'
  BY <1>1, <1>2 DEF IInv, MetAtPass2
<1>6. MetNotSold'
  BY <1>1, <1>2, RangesOf DEF IInv, MetNotSold, MetAtPass2, Ranges
<1>7. /\ BatchWhileSent' /\ Claimed' /\ Begun' /\ OwnerOfDocument' /\ RowsHeld'
      /\ AskedFor' /\ DownloadsHeld' /\ FilesHeld' /\ NotedKnown' /\ NotedStaysBack'
  BY <1>2 DEF IInv, TypeOK, BatchWhileSent, Claimed, Begun, OwnerOfDocument,
     RowsHeld, AskedFor, DownloadsHeld, FilesHeld, NotedKnown, NotedStaysBack
<1>8. TypeOK'
  BY <1>2, <1>3, <1>4, <1>7 DEF IInv, TypeOK
<1> QED
  BY <1>5, <1>6, <1>7, <1>8 DEF IInv

LEMMA InitInv ==
    ASSUME Init
    PROVE  IInv
<1>1. TypeOK
  BY DEF Init, TypeOK, BatchWhileSent, Row, Press, Download, Collector, Statuses,
         Ready, Closed, Idle
<1>2. Claimed /\ RowsHeld
  BY DEF Init, Claimed, RowsHeld, Ready
<1>3. Begun /\ OwnerOfDocument
  BY NullsApart DEF Init, Begun, OwnerOfDocument
<1>4. AskedFor /\ DownloadsHeld
  BY DEF Init, AskedFor, DownloadsHeld, Closed
<1>5. MetAtPass2 /\ MetNotSold
  BY DEF Init, MetAtPass2, MetNotSold
<1>6. FilesHeld /\ NotedKnown /\ NotedStaysBack
  BY DEF Init, FilesHeld, NotedKnown, NotedStaysBack
<1> QED
  BY <1>1, <1>2, <1>3, <1>4, <1>5, <1>6 DEF IInv
LEMMA NextInv ==
    ASSUME IInv, [Next]_vars
    PROVE  IInv'
<1>1. ASSUME NEW p \in Presses, Export(p)
      PROVE  IInv'
  BY <1>1, ClaimInv, ClaimRowsInv, ReadPageInv, HandOutInv, BuildFailsInv, ReleaseInv,
     GiveUpInv DEF Export
<1>2. ASSUME NEW d \in Downloads, Again(d)
      PROVE  IInv'
  BY <1>2, AskInv, DownloadPageInv, DownloadFileInv, DownloadFailsInv DEF Again
<1>3. ASSUME NEW k \in Collectors, Collecting(k)
      PROVE  IInv'
  BY <1>3, CollectInv, CollectFailsInv, NoteSoldInv, NoteSentInv, EnrichInv,
     PassOverInv,
     AttachInv, QuitInv DEF Collecting
<1>4. CASE UNCHANGED vars
  BY <1>4 DEF vars, history, IInv, TypeOK, BatchWhileSent, OwnerOfDocument,
     NotedStaysBack, Claimed, Begun, RowsHeld, AskedFor, DownloadsHeld, FilesHeld,
     MetAtPass2, MetNotSold, NotedKnown
<1> QED
  BY <1>1, <1>2, <1>3, <1>4 DEF Next

-----------------------------------------------------------------------------
(* Pages.  A code's rank is the number of codes before it; the ranks of a  *)
(* finite set are 0, 1, 2, ... without a gap, so a short page is the last. *)

Rank(S, c) == Cardinality({d \in S : Before(d, c)})

LEMMA SliceIs ==
    ASSUME NEW S, NEW m, NEW n
    PROVE  Slice(S, m, n) = {c \in S : Rank(S, c) \in m..(m + n - 1)}
  BY DEF Slice, Rank

LEMMA CodesFinite ==
    ASSUME NEW S \in SUBSET Codes
    PROVE  IsFiniteSet(S) /\ Cardinality(S) \in Nat
  BY CodesAreNumbers, FS_Subset, FS_CardinalityType

LEMMA BeforeOrders ==
    ASSUME TypeOK, NEW c \in Codes, NEW d \in Codes
    PROVE  /\ ~Before(c, c)
           /\ c # d => Before(c, d) \/ Before(d, c)
           /\ \A e \in Codes : Before(e, c) /\ Before(c, d) => Before(e, d)
<1>1. \A e \in Codes : kiz[e].dated \in BOOLEAN /\ e \in Nat
  BY CodesAreNumbers DEF TypeOK, Row
<1> QED
  BY <1>1 DEF Before

LEMMA RankGrows ==
    ASSUME TypeOK, NEW S \in SUBSET Codes, NEW c \in S, NEW d \in S, Before(c, d)
    PROVE  Rank(S, c) \in Nat /\ Rank(S, d) \in Nat /\ Rank(S, c) < Rank(S, d)
<1> DEFINE C == {e \in S : Before(e, c)}
           D == {e \in S : Before(e, d)}
<1>1. C \subseteq D
  BY BeforeOrders
<1>2. c \in D /\ c \notin C
  BY BeforeOrders
<1>3. IsFiniteSet(C) /\ IsFiniteSet(D) /\ Cardinality(C) \in Nat /\ Cardinality(D) \in Nat
  BY CodesFinite
<1>4. Cardinality(C) <= Cardinality(D) /\ Cardinality(C) # Cardinality(D)
  BY <1>1, <1>2, <1>3, FS_Subset
<1> QED
  BY <1>3, <1>4 DEF Rank

LEMMA RankBounded ==
    ASSUME TypeOK, NEW S \in SUBSET Codes, NEW c \in S
    PROVE  Rank(S, c) \in 0..(Cardinality(S) - 1)
<1> DEFINE C == {e \in S : Before(e, c)}
<1>1. C \subseteq S /\ c \notin C
  BY BeforeOrders
<1>2. IsFiniteSet(S) /\ Cardinality(S) \in Nat /\ Cardinality(C) \in Nat
  BY CodesFinite
<1>3. Cardinality(C) <= Cardinality(S) /\ Cardinality(C) # Cardinality(S)
  BY <1>1, <1>2, FS_Subset
<1> QED
  BY <1>2, <1>3 DEF Rank

LEMMA EveryRank ==
    ASSUME TypeOK, NEW S \in SUBSET Codes, NEW i \in 0..(Cardinality(S) - 1)
    PROVE  \E c \in S : Rank(S, c) = i
<1> DEFINE N == Cardinality(S)
           T == 0..(N - 1)
           f == [c \in S |-> Rank(S, c)]
<1>1. IsFiniteSet(S) /\ N \in Nat
  BY CodesFinite
<1>2. f \in [S -> T]
  BY RankBounded
<1>3. \A c, d \in S : f[c] = f[d] => c = d
  <2> SUFFICES ASSUME NEW c \in S, NEW d \in S, c # d PROVE f[c] # f[d]
    OBVIOUS
  <2>1. CASE Before(c, d)
    BY <2>1, RankGrows
  <2>2. CASE Before(d, c)
    BY <2>2, RankGrows
  <2> QED
    BY <2>1, <2>2, BeforeOrders
<1>4. f \in Injection(S, T)
  BY <1>2, <1>3 DEF Injection, IsInjective
<1>5. IsFiniteSet(T) /\ Cardinality(T) = N
  BY <1>1, FS_Interval
<1>6. f \in Surjection(S, T)
  BY <1>4, <1>5, FS_Injection
<1> QED
  BY <1>6 DEF Surjection

LEMMA ShortPageIsLast ==
    ASSUME TypeOK, NEW S \in SUBSET Codes, NEW m \in Nat,
           LastPage(Slice(S, m, PageSize))
    PROVE  Slice(S, 0, m) \cup Slice(S, m, PageSize) = S
<1> DEFINE P == Slice(S, m, PageSize)
           T == m..(m + PageSize - 1)
           g == [c \in P |-> Rank(S, c)]
<1>1. IsFiniteSet(P) /\ Cardinality(P) \in Nat /\ Cardinality(P) < PageSize
  <2>1. P \in SUBSET Codes
    BY DEF Slice
  <2> QED
    BY <2>1, CodesFinite DEF LastPage
<1>2. SUFFICES ASSUME NEW c \in S, Rank(S, c) >= m + PageSize
               PROVE  FALSE
  <2>1. \A d \in S : Rank(S, d) \in Nat
    <3>1. Cardinality(S) \in Nat
      BY CodesFinite
    <3> QED
      BY <3>1, RankBounded
  <2>2. \A d \in S : Rank(S, d) < m + PageSize
    BY <1>2, <2>1, SizesPositive
  <2>3. \A d \in S : Rank(S, d) \in 0..(0 + m - 1) \/ Rank(S, d) \in m..(m + PageSize - 1)
    BY <2>1, <2>2, SizesPositive
  <2>4. /\ Slice(S, 0, m) = {d \in S : Rank(S, d) \in 0..(0 + m - 1)}
        /\ P = {d \in S : Rank(S, d) \in m..(m + PageSize - 1)}
    BY SliceIs
  <2> QED
    BY <2>3, <2>4
<1>3. \A i \in T : i \in 0..(Cardinality(S) - 1)
  BY <1>2, RankBounded, CodesFinite, SizesPositive
<1>4. \A i \in T : \E d \in P : g[d] = i
  BY <1>3, EveryRank, SliceIs
<1>5. g \in [P -> T]
  BY SliceIs
<1>6. g \in Surjection(P, T)
  BY <1>4, <1>5 DEF Surjection
<1>7. Cardinality(T) <= Cardinality(P)
  BY <1>1, <1>6, FS_Surjection
<1>8. Cardinality(T) = PageSize
  BY FS_Interval, SizesPositive
<1> QED
  BY <1>1, <1>7, <1>8, SizesPositive

LEMMA NextPage ==
    ASSUME TypeOK, NEW S \in SUBSET Codes, NEW m \in Nat
    PROVE  Slice(S, 0, m) \cup Slice(S, m, PageSize) = Slice(S, 0, m + PageSize)
<1>1. \A d \in S : Rank(S, d) \in Nat
  BY RankBounded, CodesFinite
<1> QED
  BY <1>1, SliceIs, SizesPositive

LEMMA NoPage ==
    ASSUME NEW S
    PROVE  Slice(S, 0, 0) = {}
  BY DEF Slice

-----------------------------------------------------------------------------
(* A document is whole.                                                    *)

BatchOf(q) == Batch(q, press[q].entity)

(* The first m codes of a batch in the order of its reading.               *)
Firsts(q) == [m \in Nat |-> Slice(BatchOf(q), 0, m)]

(* A reader has read the batch's first codes, then all of them.            *)
PressReads ==
    \A p \in Presses : p \notin stirred =>
        /\ press[p].at = "read" => press[p].rows = Firsts(p)[press[p].from]
        /\ press[p].at = "build" => press[p].rows = BatchOf(p)
DownloadReads ==
    \A d \in Downloads : download[d].batch \notin stirred \cup released =>
        /\ download[d].at = "read" =>
             download[d].rows = Firsts(download[d].batch)[download[d].from]
        /\ download[d].at = "build" => download[d].rows = BatchOf(download[d].batch)

(* Nobody has to do with a batch before it is claimed.                     *)
BegunAt(q) == press[q].at \notin {"idle", "mark"}
BatchesBegun ==
    /\ \A d \in Downloads : download[d].at # "idle" => BegunAt(download[d].batch)
    /\ \A f \in files : BegunAt(f.batch)

FilesWhole ==
    \A f \in files : f.batch \notin stirred => f.codes = BatchOf(f.batch)

WInv == PressReads /\ DownloadReads /\ BatchesBegun /\ FilesWhole

LEMMA BatchOfIs ==
    ASSUME IInv, NEW q \in Presses
    PROVE  BatchOf(q) = {c \in Codes : kiz[c].batch = q}
  BY NullsApart DEF IInv, OwnerOfDocument, BatchOf, Batch

LEMMA InvTypes ==
    ASSUME IInv
    PROVE  /\ TypeOK
           /\ \A p \in Presses : BatchOf(p) \in SUBSET Codes
  BY DEF IInv, BatchOf, Batch

LEMMA FirstsStay ==
    ASSUME NEW q \in Presses, BatchOf(q)' = BatchOf(q),
           \A c \in BatchOf(q) : kiz'[c].dated = kiz[c].dated
    PROVE  Firsts(q)' = Firsts(q)
<1> DEFINE S == BatchOf(q)
<1>1. \A c, d \in S : Before(d, c)' = Before(d, c)
  BY DEF Before
<1>2. \A c \in S : {d \in S : Before(d, c)'} = {d \in S : Before(d, c)}
  BY <1>1
<1>3. \A m \in Nat : {c \in S : Cardinality({d \in S : Before(d, c)'}) \in 0..(0 + m - 1)}
                   = {c \in S : Cardinality({d \in S : Before(d, c)}) \in 0..(0 + m - 1)}
  BY <1>2
<1> QED
  BY <1>3 DEF Firsts, Slice

Same(q) == BatchOf(q)' = BatchOf(q) /\ Firsts(q)' = Firsts(q)

LEMMA SameRegister ==
    ASSUME NEW q \in Presses, kiz' = kiz, press'[q].entity = press[q].entity
    PROVE  Same(q)
<1>1. BatchOf(q)' = BatchOf(q)
  BY DEF BatchOf, Batch
<1> QED
  BY <1>1, FirstsStay DEF Same

LEMMA SameBatch ==
    ASSUME IInv, IInv', NEW q \in Presses,
           \A c \in Codes : kiz[c].batch = q <=> kiz'[c].batch = q
    PROVE  BatchOf(q)' = BatchOf(q)
<1>1. BatchOf(q) = {c \in Codes : kiz[c].batch = q}
  BY BatchOfIs
<1>2. BatchOf(q)' = {c \in Codes : kiz'[c].batch = q}
  <2>1. \A c \in Codes : kiz'[c].batch = q => kiz'[c].owner = press'[q].entity
    BY NullsApart DEF IInv, OwnerOfDocument
  <2> QED
    BY <2>1 DEF BatchOf, Batch
<1> QED
  BY <1>1, <1>2

LEMMA SameCodes ==
    ASSUME IInv, IInv', NEW q \in Presses,
           \A c \in Codes : kiz[c].batch = q <=> kiz'[c].batch = q,
           \A c \in Codes : kiz[c].batch = q => kiz'[c].dated = kiz[c].dated
    PROVE  Same(q)
  BY SameBatch, BatchOfIs, FirstsStay DEF Same

LEMMA WFrame ==
    ASSUME IInv, WInv,
           press' = press, download' = download, files' = files,
           stirred' = stirred, released' = released,
           \A q \in Presses : BegunAt(q) => Same(q)
    PROVE  WInv'
<1>1. PressReads'
  BY DEF WInv, PressReads, BegunAt, Same
<1>2. DownloadReads'
  <2> SUFFICES ASSUME NEW d \in Downloads, download[d].at # "idle"
               PROVE  Same(download[d].batch)
    BY DEF WInv, DownloadReads, Same
  <2> QED
    BY DEF IInv, AskedFor, WInv, BatchesBegun
<1>3. BatchesBegun'
  BY DEF WInv, BatchesBegun, BegunAt
<1>4. FilesWhole'
  BY RangesOf DEF Ranges, WInv, BatchesBegun, FilesWhole, Same
<1> QED
  BY <1>1, <1>2, <1>3, <1>4 DEF WInv

LEMMA FirstsZero ==
    ASSUME NEW q
    PROVE  Firsts(q)[0] = {} /\ Firsts(q)'[0] = {}
  BY DEF Firsts, Slice

LEMMA FirstsNext ==
    ASSUME IInv, NEW q \in Presses, NEW m \in Nat
    PROVE  LET page == Slice(BatchOf(q), m, PageSize)
           IN  /\ Firsts(q)[m] \cup page = Firsts(q)[m + PageSize]
               /\ LastPage(page) => Firsts(q)[m] \cup page = BatchOf(q)
<1>1. m + PageSize \in Nat
  BY SizesPositive
<1> QED
  BY <1>1, InvTypes, NextPage, ShortPageIsLast DEF Firsts

(* A collector's step, but for dates filled in, leaves a batch as it is.   *)
LEMMA CodesStay ==
    ASSUME IInv, IInv', WInv, NEW q \in Presses,
           press' = press,
           \A x \in Codes : kiz[x].batch # NoBatch \/ kiz'[x].batch # NoBatch =>
               kiz'[x].batch = kiz[x].batch /\ kiz'[x].dated = kiz[x].dated
    PROVE  Same(q)
  BY SameCodes, NullsApart

LEMMA CollectWhole ==
    ASSUME IInv, IInv', WInv, NEW k \in Collectors, NEW kind \in Sources,
           NEW listed \in SUBSET Codes, NEW lines \in [listed -> Said(kind)],
           NEW dated \in SUBSET listed, NEW back \in SUBSET Codes,
           Collect(k, kind, lines, dated, back)
    PROVE  WInv'
<1>1. \A x \in Codes : kiz'[x] = kiz[x] \/ kiz[x].status = "none"
  BY DEF Collect, Collected
<1>2. \A x \in Codes : kiz[x].status = "none" =>
          kiz[x].batch = NoBatch /\ kiz'[x].batch = NoBatch
  <2>1. \A x \in Codes : kiz[x].status = "none" => kiz[x].batch = NoBatch
    BY RangesOf DEF BatchWhileSent
  <2>2. \A x \in Codes : x \in DOMAIN lines /\ kiz[x].status = "none" =>
            kiz'[x] = [status |-> lines[x], owner |-> NoEntity, batch |-> NoBatch,
                       dated |-> x \in dated]
    BY DEF Collect, Collected
  <2>3. \A x \in Codes : x \notin DOMAIN lines => kiz'[x] = kiz[x]
    BY DEF Collect, Collected
  <2>4. \A x \in Codes : x \in DOMAIN lines /\ kiz[x].status = "none" =>
            kiz'[x].batch = NoBatch
    <3> SUFFICES ASSUME NEW x \in Codes, x \in DOMAIN lines, kiz[x].status = "none"
                 PROVE  kiz'[x].batch = NoBatch
      OBVIOUS
    <3> DEFINE s == lines[x]
               t == x \in dated
    <3>1. kiz'[x] = [status |-> s, owner |-> NoEntity, batch |-> NoBatch, dated |-> t]
      BY <2>2
    <3> HIDE DEF s, t
    <3> QED
      BY <3>1
  <2> QED
    BY <2>1, <2>3, <2>4
<1>3. UNCHANGED <<press, download, history>>
  BY DEF Collect
<1>4. \A x \in Codes : kiz[x].batch # NoBatch \/ kiz'[x].batch # NoBatch =>
          kiz'[x].batch = kiz[x].batch /\ kiz'[x].dated = kiz[x].dated
  BY <1>1, <1>2
<1>5. \A q \in Presses : Same(q)
  BY <1>3, <1>4, CodesStay
<1> QED
  BY <1>3, <1>5, WFrame DEF history

LEMMA NoteWhole ==
    ASSUME IInv, IInv', WInv, NEW k \in Collectors, NoteSold(k) \/ NoteSent(k)
    PROVE  WInv'
<1>1. \A x \in Codes : kiz'[x].batch = kiz[x].batch /\ kiz'[x].dated = kiz[x].dated
  BY DEF NoteSold, NoteSent, Noting, Mark, IInv, TypeOK, Row
<1>2. UNCHANGED <<press, download, released, files, stirred>>
  BY DEF NoteSold, NoteSent
<1>3. \A q \in Presses : Same(q)
  BY <1>1, <1>2, CodesStay
<1> QED
  BY <1>2, <1>3, WFrame

LEMMA AttachWhole ==
    ASSUME IInv, IInv', WInv, NEW k \in Collectors,
           NEW says \in [Codes -> Entities \cup {NoEntity}], Attach(k, says)
    PROVE  WInv'
<1>1. \A x \in Codes : kiz'[x].batch = kiz[x].batch /\ kiz'[x].dated = kiz[x].dated
  BY DEF Attach, IInv, TypeOK, Row
<1>2. UNCHANGED <<press, download, history>>
  BY DEF Attach
<1>3. \A q \in Presses : Same(q)
  BY <1>1, <1>2, CodesStay
<1> QED
  BY <1>2, <1>3, WFrame DEF history

LEMMA KizStays ==
    ASSUME IInv, WInv, UNCHANGED <<kiz, press, download, released, files, stirred>>
    PROVE  WInv'
<1>1. \A q \in Presses : Same(q)
  BY SameRegister
<1> QED
  BY <1>1, WFrame

LEMMA EnrichWhole ==
    ASSUME IInv, IInv', WInv, NEW k \in Collectors, NEW c \in Codes, Enrich(k, c)
    PROVE  WInv'
<1>1. \A x \in Codes : kiz'[x].batch = kiz[x].batch /\ (x # c => kiz'[x] = kiz[x])
  BY DEF Enrich, IInv, TypeOK, Row
<1>2. /\ UNCHANGED <<press, download, released, files>>
      /\ stirred' = stirred \cup {b \in Presses : b = kiz[c].batch /\ BeingRead(b)}
  BY DEF Enrich
<1>3. \A q \in Presses : q # kiz[c].batch => Same(q)
  BY <1>1, SameCodes
<1>4. \A q \in Presses : BatchOf(q)' = BatchOf(q)
  BY <1>1, SameBatch
<1>5. \A q \in Presses : q \notin stirred' =>
          q \notin stirred /\ (Same(q) \/ (q = kiz[c].batch /\ ~BeingRead(q)))
  BY <1>2, <1>3
<1>6. PressReads'
  <2> SUFFICES ASSUME NEW p \in Presses, p \notin stirred'
               PROVE  /\ press[p].at = "read" => press[p].rows = Firsts(p)'[press[p].from]
                      /\ press[p].at = "build" => press[p].rows = BatchOf(p)'
    BY <1>2 DEF PressReads
  <2>1. /\ press[p].at = "read" => press[p].rows = Firsts(p)[press[p].from]
        /\ press[p].at = "build" => press[p].rows = BatchOf(p)
    BY <1>5 DEF WInv, PressReads
  <2>2. CASE Same(p)
    BY <2>1, <2>2 DEF Same
  <2>3. CASE ~BeingRead(p)
    <3>1. press[p].at = "read" => press[p].from = 0
      BY <2>3, InvTypes DEF BeingRead, TypeOK, Press
    <3>2. Firsts(p)[0] = {} /\ Firsts(p)'[0] = {}
      BY FirstsZero
    <3> QED
      BY <1>4, <2>1, <3>1, <3>2
  <2> QED
    BY <1>5, <2>2, <2>3
<1>7. DownloadReads'
  <2> SUFFICES ASSUME NEW d \in Downloads, download[d].at # "idle",
                      download[d].batch \notin stirred' \cup released
               PROVE  /\ download[d].at = "read" =>
                           download[d].rows = Firsts(download[d].batch)'[download[d].from]
                      /\ download[d].at = "build" =>
                           download[d].rows = BatchOf(download[d].batch)'
    BY <1>2 DEF DownloadReads
  <2> DEFINE b == download[d].batch
  <2>0. b \in Presses
    BY DEF IInv, AskedFor
  <2>1. /\ download[d].at = "read" => download[d].rows = Firsts(b)[download[d].from]
        /\ download[d].at = "build" => download[d].rows = BatchOf(b)
    BY <1>5, <2>0 DEF WInv, DownloadReads
  <2>2. CASE Same(b)
    BY <2>1, <2>2 DEF Same
  <2>3. CASE ~BeingRead(b)
    <3>1. download[d].from = 0
      BY <2>3, InvTypes DEF BeingRead, TypeOK, Download
    <3>2. Firsts(b)[0] = {} /\ Firsts(b)'[0] = {}
      BY FirstsZero
    <3>3. BatchOf(b)' = BatchOf(b)
      BY <1>2, <1>4, <2>0
    <3> QED
      BY <2>1, <3>1, <3>2, <3>3
  <2> QED
    BY <1>5, <2>0, <2>2, <2>3
<1>8. BatchesBegun'
  BY <1>2 DEF WInv, BatchesBegun, BegunAt
<1>9. FilesWhole'
  BY <1>2, <1>4, RangesOf DEF WInv, FilesWhole, Ranges
<1> QED
  BY <1>6, <1>7, <1>8, <1>9 DEF WInv

(* A press's step that leaves the register alone.                          *)
LEMMA PressWhole ==
    ASSUME IInv, IInv', WInv, NEW p \in Presses,
           UNCHANGED <<kiz, download, stirred, released>>,
           \A q \in Presses : q # p => press'[q] = press[q],
           \/ ~BegunAt(p) /\ press'[p].at = "mark"
           \/ press'[p].entity = press[p].entity /\ BegunAt(p) /\ BegunAt(p)',
           press'[p].at = "read" /\ p \notin stirred =>
               press'[p].rows = Firsts(p)[press'[p].from],
           press'[p].at = "build" /\ p \notin stirred => press'[p].rows = BatchOf(p),
           \A f \in files' : f \in files \/
               (f.batch \in Presses /\ BegunAt(f.batch) /\
                   (f.batch \notin stirred => f.codes = BatchOf(f.batch)))
    PROVE  WInv'
<1>1. \A q \in Presses : BegunAt(q) => Same(q) /\ BegunAt(q)'
  BY SameRegister DEF BegunAt
<1>2. PressReads'
  <2> SUFFICES ASSUME NEW q \in Presses, q \notin stirred
               PROVE  /\ press'[q].at = "read" => press'[q].rows = Firsts(q)'[press'[q].from]
                      /\ press'[q].at = "build" => press'[q].rows = BatchOf(q)'
    BY DEF PressReads
  <2>1. CASE q = p
    BY <1>1, <2>1 DEF Same
  <2>2. CASE q # p
    BY <1>1, <2>2 DEF WInv, PressReads, Same, BegunAt
  <2> QED
    BY <2>1, <2>2
<1>3. \A d \in Downloads : download[d].at # "idle" =>
          Same(download[d].batch) /\ BegunAt(download[d].batch)'
  BY <1>1 DEF IInv, AskedFor, WInv, BatchesBegun
<1>4. DownloadReads'
  BY <1>3 DEF WInv, DownloadReads, Same
<1>5. \A f \in files' : BegunAt(f.batch) /\ f.batch \in Presses
  BY RangesOf DEF Ranges, WInv, BatchesBegun
<1>6. BatchesBegun'
  BY <1>1, <1>3, <1>5 DEF BatchesBegun
<1>7. FilesWhole'
  BY <1>1, <1>5 DEF WInv, FilesWhole, Same
<1> QED
  BY <1>2, <1>4, <1>6, <1>7 DEF WInv

LEMMA ClaimWhole ==
    ASSUME IInv, IInv', WInv, NEW p \in Presses, NEW e \in Entities, Claim(p, e)
    PROVE  WInv'
<1>1. /\ press[p].at = "idle" /\ press'[p].at = "mark"
      /\ \A q \in Presses : q # p => press'[q] = press[q]
      /\ UNCHANGED <<kiz, download, stirred, released, files>>
  BY DEF Claim, Ready, history, IInv, TypeOK, Press
<1> QED
  BY <1>1, PressWhole DEF BegunAt

LEMMA ReadWhole ==
    ASSUME IInv, IInv', WInv, NEW p \in Presses, ReadPage(p)
    PROVE  WInv'
<1> DEFINE m == press[p].from
           page == Slice(BatchOf(p), m, PageSize)
           rows == press[p].rows \cup page
           done == LastPage(page)
<1>1. press[p].at = "read" /\ m \in Nat /\ press[p].entity = press[p].entity
  BY DEF ReadPage, IInv, TypeOK, Press
<1>2. p \notin stirred =>
          /\ rows = Firsts(p)[m + PageSize]
          /\ done => rows = BatchOf(p)
  BY <1>1, FirstsNext DEF WInv, PressReads
<1>3. /\ press' = [press EXCEPT ![p] =
                     [at |-> IF ~done THEN "read"
                             ELSE IF rows = {} THEN "ended" ELSE "build",
                      entity |-> press[p].entity, picked |-> {},
                      from |-> IF done THEN 0 ELSE m + PageSize,
                      rows |-> IF done /\ rows = {} THEN {} ELSE rows]]
      /\ UNCHANGED <<kiz, download, stirred, released, files>>
  BY DEF ReadPage, history, BatchOf
<1> HIDE DEF done, rows, m
<1>4. /\ press'[p].at = IF ~done THEN "read" ELSE IF rows = {} THEN "ended" ELSE "build"
      /\ press'[p].from = IF done THEN 0 ELSE m + PageSize
      /\ press'[p].rows = IF done /\ rows = {} THEN {} ELSE rows
      /\ press'[p].entity = press[p].entity
      /\ \A q \in Presses : q # p => press'[q] = press[q]
  BY <1>3 DEF IInv, TypeOK
<1>5. press'[p].at \in {"read", "build", "ended"}
  BY <1>4
<1>6. BegunAt(p) /\ BegunAt(p)'
  BY <1>1, <1>5 DEF BegunAt
<1>7. p \notin stirred =>
          /\ press'[p].at = "read" => press'[p].rows = Firsts(p)[press'[p].from]
          /\ press'[p].at = "build" => press'[p].rows = BatchOf(p)
  BY <1>2, <1>4
<1> QED
  BY <1>3, <1>4, <1>6, <1>7, PressWhole

LEMMA LeaveWhole ==
    ASSUME IInv, IInv', WInv, NEW p \in Presses, BuildFails(p) \/ GiveUp(p)
    PROVE  WInv'
<1>1. /\ press'[p].at \in {"release", "ended"}
      /\ press'[p].entity = press[p].entity
      /\ \A q \in Presses : q # p => press'[q] = press[q]
      /\ UNCHANGED <<kiz, download, stirred, released, files>>
  BY InvTypes, PressGoes DEF BuildFails, GiveUp, history
<1>2. CASE BegunAt(p)
  <2>1. BegunAt(p)'
    BY <1>1 DEF BegunAt
  <2> QED
    BY <1>1, <1>2, <2>1, PressWhole
<1>3. CASE ~BegunAt(p)
  <2>1. \A q \in Presses : Same(q)
    BY <1>1, SameRegister
  <2>2. PressReads'
    BY <1>1, <2>1 DEF WInv, PressReads, Same
  <2>3. DownloadReads'
    <3>1. \A d \in Downloads : download[d].at # "idle" => Same(download[d].batch)
      BY <2>1 DEF IInv, AskedFor
    <3> QED
      BY <1>1, <3>1 DEF WInv, DownloadReads, Same
  <2>4. FilesWhole'
    BY <1>1, <2>1, RangesOf DEF WInv, FilesWhole, Same, Ranges
  <2>5. BatchesBegun'
    <3>1. \A q \in Presses : BegunAt(q) => BegunAt(q)'
      BY <1>1 DEF BegunAt
    <3> QED
      BY <1>1, <3>1, RangesOf DEF WInv, BatchesBegun, Ranges, IInv, AskedFor
  <2> QED
    BY <2>2, <2>3, <2>4, <2>5 DEF WInv
<1> QED
  BY <1>2, <1>3

LEMMA HandOutWhole ==
    ASSUME IInv, IInv', WInv, NEW p \in Presses, HandOut(p)
    PROVE  WInv'
<1>1. /\ press[p].at = "build" /\ press'[p].at = "ended"
      /\ press'[p].entity = press[p].entity
      /\ \A q \in Presses : q # p => press'[q] = press[q]
      /\ UNCHANGED <<kiz, download, stirred, released>>
  BY InvTypes, PressGoes DEF HandOut, Document
<1>2. BegunAt(p) /\ BegunAt(p)'
  BY <1>1 DEF BegunAt
<1>3. \A f \in files' : f \in files \/ (f.batch = p /\ f.codes = press[p].rows)
  BY DEF HandOut, Document
<1>4. p \notin stirred => press[p].rows = BatchOf(p)
  BY <1>1 DEF WInv, PressReads
<1> QED
  BY <1>1, <1>2, <1>3, <1>4, PressWhole

(* The register changes under one press's batch only.                      *)
LEMMA OthersWhole ==
    ASSUME IInv, IInv', WInv, NEW p \in Presses,
           UNCHANGED <<download, stirred>>,
           \A q \in Presses : q # p => press'[q] = press[q],
           press'[p].at \notin {"idle", "mark", "build"},
           press'[p].at = "read" => press'[p].from = 0 /\ press'[p].rows = {},
           \A q \in Presses : q # p => Same(q),
           released \subseteq released', files' \subseteq files,
           BegunAt(p) => p \in released' /\ \A f \in files' : f.batch # p
    PROVE  WInv'
<1>1. PressReads'
  <2> SUFFICES ASSUME NEW q \in Presses, q \notin stirred
               PROVE  /\ press'[q].at = "read" => press'[q].rows = Firsts(q)'[press'[q].from]
                      /\ press'[q].at = "build" => press'[q].rows = BatchOf(q)'
    BY DEF PressReads
  <2>1. CASE q = p
    BY <2>1, FirstsZero
  <2>2. CASE q # p
    BY <2>2 DEF WInv, PressReads, Same
  <2> QED
    BY <2>1, <2>2
<1>2. \A d \in Downloads : download[d].at # "idle" =>
          /\ download[d].batch \in Presses /\ BegunAt(download[d].batch)
          /\ download[d].batch = p => p \in released'
  BY DEF IInv, AskedFor, WInv, BatchesBegun
<1>3. DownloadReads'
  <2>1. \A d \in Downloads : download[d].at # "idle" /\ download[d].batch \notin released' =>
            Same(download[d].batch) /\ download[d].batch \notin released
    BY <1>2
  <2> QED
    BY <2>1 DEF WInv, DownloadReads, Same
<1>4. \A q \in Presses : BegunAt(q) => BegunAt(q)'
  BY DEF BegunAt
<1>5. \A f \in files' : f \in files /\ f.batch \in Presses /\ BegunAt(f.batch) /\ f.batch # p
  BY RangesOf DEF Ranges, WInv, BatchesBegun
<1>6. BatchesBegun'
  BY <1>2, <1>4, <1>5 DEF BatchesBegun
<1>7. FilesWhole'
  BY <1>5 DEF WInv, FilesWhole, Same
<1> QED
  BY <1>1, <1>3, <1>6, <1>7 DEF WInv

LEMMA ClaimRowsWhole ==
    ASSUME IInv, IInv', WInv, NEW p \in Presses, ClaimRows(p)
    PROVE  WInv'
<1>1. /\ press[p].at = "mark" /\ press'[p].at \in {"read", "ended"}
      /\ press'[p].from = 0 /\ press'[p].rows = {}
      /\ \A q \in Presses : q # p => press'[q] = press[q]
      /\ UNCHANGED <<download, stirred, released, files>>
  BY DEF ClaimRows, PressTo, history, IInv, TypeOK, Press
<1>2. \A x \in Codes :
          \/ kiz'[x] = kiz[x]
          \/ kiz[x].status = "sold" /\ kiz'[x].batch = p /\ kiz'[x].dated = kiz[x].dated
  BY DEF ClaimRows, Claimable, Queue, Mark, IInv, TypeOK, Row
<1>3. \A x \in Codes : kiz[x].status = "sold" => kiz[x].batch = NoBatch
  BY RangesOf DEF BatchWhileSent
<1>4. ASSUME NEW q \in Presses, q # p
      PROVE  Same(q)
  <2>1. \A x \in Codes : kiz[x].batch = q <=> kiz'[x].batch = q
    BY <1>2, <1>3, <1>4, NullsApart
  <2>2. \A x \in Codes : kiz[x].batch = q => kiz'[x].dated = kiz[x].dated
    BY <1>2
  <2> QED
    BY <2>1, <2>2, SameCodes
<1>5. ~BegunAt(p)
  BY <1>1 DEF BegunAt
<1> QED
  BY <1>1, <1>4, <1>5, OthersWhole

LEMMA ReleaseWhole ==
    ASSUME IInv, IInv', WInv, NEW p \in Presses, Release(p)
    PROVE  WInv'
<1>1. /\ press'[p].at = "ended"
      /\ \A q \in Presses : q # p => press'[q] = press[q]
  BY InvTypes, PressGoes DEF Release
<1>2. /\ UNCHANGED <<download, stirred>>
      /\ released' = released \cup {p} /\ files' = {f \in files : f.batch # p}
  BY DEF Release
<1>3. \A x \in Codes :
          \/ kiz'[x] = kiz[x]
          \/ kiz[x].batch = p /\ kiz'[x].batch = NoBatch
  BY DEF Release, Batch, Back, Mark
<1>4. ASSUME NEW q \in Presses, q # p
      PROVE  Same(q)
  BY <1>3, <1>4, NullsApart, SameCodes
<1> QED
  BY <1>1, <1>2, <1>4, OthersWhole

(* A download's step.                                                      *)
LEMMA DownloadWhole ==
    ASSUME IInv, IInv', WInv, NEW d \in Downloads,
           UNCHANGED <<kiz, press, stirred, released>>,
           \A x \in Downloads : x # d => download'[x] = download[x],
           download'[d].at # "idle" =>
               BegunAt(download'[d].batch) /\ download'[d].batch \in Presses,
           download'[d].batch \notin stirred \cup released =>
               /\ download'[d].at = "read" =>
                    download'[d].rows = Firsts(download'[d].batch)[download'[d].from]
               /\ download'[d].at = "build" =>
                    download'[d].rows = BatchOf(download'[d].batch),
           \A f \in files' : f \in files \/
               (f.batch \in Presses /\ BegunAt(f.batch) /\
                   (f.batch \notin stirred => f.codes = BatchOf(f.batch)))
    PROVE  WInv'
<1>1. \A q \in Presses : Same(q) /\ (BegunAt(q) => BegunAt(q)')
  BY SameRegister DEF BegunAt
<1>2. PressReads'
  BY <1>1 DEF WInv, PressReads, Same
<1>3. \A x \in Downloads : download'[x].at # "idle" =>
          download'[x].batch \in Presses /\ BegunAt(download'[x].batch)
  BY DEF IInv, AskedFor, WInv, BatchesBegun
<1>4. DownloadReads'
  <2> SUFFICES ASSUME NEW x \in Downloads, download'[x].at # "idle",
                      download'[x].batch \notin stirred \cup released
               PROVE  /\ download'[x].at = "read" =>
                           download'[x].rows = Firsts(download[x].batch)'[download'[x].from]
                      /\ download'[x].at = "build" =>
                           download'[x].rows = BatchOf(download[x].batch)'
    BY DEF DownloadReads
  <2>1. BatchOf(download[x].batch)' = BatchOf(download'[x].batch)
    BY <1>1, <1>3 DEF BatchOf, Batch
  <2>2. Firsts(download[x].batch)' = Firsts(download'[x].batch)
    BY <2>1 DEF Firsts, Slice, Before
  <2>3. CASE x = d
    BY <2>1, <2>2, <2>3
  <2>4. CASE x # d
    BY <2>1, <2>2, <2>4 DEF WInv, DownloadReads
  <2> QED
    BY <2>3, <2>4
<1>5. BatchesBegun'
  <2>1. \A x \in Downloads : download'[x].at # "idle" => BegunAt(download[x].batch)'
    BY <1>3 DEF BegunAt
  <2>2. \A f \in files' : BegunAt(f.batch)'
    BY <1>1, RangesOf DEF Ranges, WInv, BatchesBegun
  <2> QED
    BY <2>1, <2>2 DEF BatchesBegun
<1>6. FilesWhole'
  BY <1>1, RangesOf DEF WInv, FilesWhole, Same, Ranges
<1> QED
  BY <1>2, <1>4, <1>5, <1>6 DEF WInv

LEMMA AskWhole ==
    ASSUME IInv, IInv', WInv, NEW d \in Downloads, NEW b \in Presses, Ask(d, b)
    PROVE  WInv'
<1>1. /\ download'[d] = [at |-> "read", batch |-> b, from |-> 0, rows |-> {}]
      /\ \A x \in Downloads : x # d => download'[x] = download[x]
      /\ UNCHANGED <<kiz, press, stirred, released, files>>
  BY DEF Ask, history, IInv, TypeOK
<1>2. BegunAt(b)
  BY DEF Ask, Batch, IInv, Begun, BegunAt
<1> QED
  BY <1>1, <1>2, FirstsZero, DownloadWhole

LEMMA DownloadPageWhole ==
    ASSUME IInv, IInv', WInv, NEW d \in Downloads, DownloadPage(d)
    PROVE  WInv'
<1> DEFINE b == download[d].batch
           m == download[d].from
           page == Slice(BatchOf(b), m, PageSize)
           rows == download[d].rows \cup page
           done == LastPage(page)
<1>1. download[d].at = "read" /\ m \in Nat /\ b \in Presses
  BY DEF DownloadPage, IInv, TypeOK, Download, AskedFor
<1>2. b \notin stirred \cup released =>
          /\ rows = Firsts(b)[m + PageSize]
          /\ done => rows = BatchOf(b)
  BY <1>1, FirstsNext DEF WInv, DownloadReads
<1>3. BegunAt(b)
  BY <1>1 DEF WInv, BatchesBegun
<1>4. /\ download' = [download EXCEPT ![d] =
             IF done /\ rows = {} THEN Closed
             ELSE [at |-> IF done THEN "build" ELSE "read", batch |-> b,
                   from |-> IF done THEN 0 ELSE m + PageSize, rows |-> rows]]
      /\ UNCHANGED <<kiz, press, stirred, released, files>>
  BY DEF DownloadPage, history, BatchOf
<1> HIDE DEF done, rows, m, b
<1>5. \A x \in Downloads : x # d => download'[x] = download[x]
  BY <1>4 DEF IInv, TypeOK
<1>6. CASE done /\ rows = {}
  <2>1. download'[d].at = "idle"
    BY <1>4, <1>6 DEF IInv, TypeOK, Closed
  <2> QED
    BY <1>4, <1>5, <2>1, DownloadWhole
<1>7. CASE ~(done /\ rows = {})
  <2>1. /\ download'[d].at = IF done THEN "build" ELSE "read"
        /\ download'[d].batch = b /\ download'[d].rows = rows
        /\ download'[d].from = IF done THEN 0 ELSE m + PageSize
    BY <1>4, <1>7 DEF IInv, TypeOK
  <2>2. download'[d].batch \notin stirred \cup released =>
            /\ download'[d].at = "read" =>
                 download'[d].rows = Firsts(download'[d].batch)[download'[d].from]
            /\ download'[d].at = "build" =>
                 download'[d].rows = BatchOf(download'[d].batch)
    BY <1>2, <2>1
  <2>3. b \in Presses
    BY <1>1 DEF b
  <2> QED
    BY <1>3, <1>4, <1>5, <2>1, <2>2, <2>3, DownloadWhole
<1> QED
  BY <1>6, <1>7

LEMMA DownloadEndWhole ==
    ASSUME IInv, IInv', WInv, NEW d \in Downloads, DownloadFile(d) \/ DownloadFails(d)
    PROVE  WInv'
<1>1. /\ download'[d].at = "idle"
      /\ \A x \in Downloads : x # d => download'[x] = download[x]
      /\ UNCHANGED <<kiz, press, stirred, released>>
  BY DEF DownloadFile, DownloadFails, Document, history, Closed, IInv, TypeOK
<1>2. \A f \in files' : f \in files \/
          (/\ download[d].at = "build"
           /\ f.batch = download[d].batch /\ f.codes = download[d].rows
           /\ f.batch \notin released)
  BY DEF DownloadFile, DownloadFails, Document, history
<1>3. download[d].at = "build" =>
          /\ download[d].batch \in Presses /\ BegunAt(download[d].batch)
          /\ download[d].batch \notin stirred \cup released =>
               download[d].rows = BatchOf(download[d].batch)
  BY DEF IInv, AskedFor, WInv, BatchesBegun, DownloadReads
<1> QED
  BY <1>1, <1>2, <1>3, DownloadWhole

LEMMA InitWhole ==
    ASSUME Init
    PROVE  WInv
  BY DEF Init, WInv, PressReads, DownloadReads, BatchesBegun, FilesWhole, Ready, Closed

-----------------------------------------------------------------------------
(* The theorems.                                                           *)

LEMMA NextWhole ==
    ASSUME IInv, IInv', WInv, [Next]_vars
    PROVE  WInv'
<1>1. ASSUME NEW p \in Presses, Export(p)
      PROVE  WInv'
  BY <1>1, ClaimWhole, ClaimRowsWhole, ReadWhole, HandOutWhole, LeaveWhole, ReleaseWhole
     DEF Export
<1>2. ASSUME NEW d \in Downloads, Again(d)
      PROVE  WInv'
  BY <1>2, AskWhole, DownloadPageWhole, DownloadEndWhole DEF Again
<1>3. ASSUME NEW k \in Collectors, Collecting(k)
      PROVE  WInv'
  <2>1. CASE \E kind \in Sources, back \in SUBSET Codes, listed \in SUBSET Codes :
                \E lines \in [listed -> Said(kind)], dated \in SUBSET listed :
                   Collect(k, kind, lines, dated, back)
    BY <2>1, CollectWhole
  <2>2. CASE \/ \E kind \in Sources, back \in SUBSET Codes : CollectFails(k, kind, back)
             \/ PassOver(k) \/ Quit(k)
    <3>1. UNCHANGED <<kiz, press, download, released, files, stirred>>
      BY <2>2 DEF CollectFails, PassOver, Quit, history
    <3> QED
      BY <3>1, KizStays
  <2>3. CASE NoteSold(k) \/ NoteSent(k)
    BY <2>3, NoteWhole
  <2>4. CASE \E c \in Codes : Enrich(k, c)
    BY <2>4, EnrichWhole
  <2>5. CASE \E says \in [Codes -> Entities \cup {NoEntity}] : Attach(k, says)
    BY <2>5, AttachWhole
  <2> QED
    BY <1>3, <2>1, <2>2, <2>3, <2>4, <2>5 DEF Collecting
<1>4. CASE UNCHANGED vars
  BY <1>4, KizStays DEF vars, history
<1> QED
  BY <1>1, <1>2, <1>3, <1>4 DEF Next

LEMMA WholeCorrect == WInv /\ IInv => WholeBatch
<1> SUFFICES ASSUME WInv, IInv, NEW f \in files, f.batch \notin stirred
             PROVE  f.codes = {c \in Codes : kiz[c].batch = f.batch}
  BY DEF WholeBatch
<1> QED
  BY RangesOf, BatchOfIs DEF Ranges, WInv, FilesWhole

LEMMA SpecInv == Spec => [](IInv /\ WInv)
<1>1. Init => IInv /\ WInv
  BY InitInv, InitWhole
<1>2. IInv /\ WInv /\ [Next]_vars => IInv' /\ WInv'
  BY NextInv, NextWhole
<1> QED
  BY <1>1, <1>2, PTL DEF Spec

(* The types, and: a code has a batch exactly while it is marked as sent.  *)
THEOREM TypeCorrect == Spec => []TypeOK
<1>1. IInv => TypeOK
  BY DEF IInv
<1> QED
  BY <1>1, SpecInv, PTL

(* kiz_claim_batch, releaseBatch(): no code is in two documents of batches *)
(* in force, however presses, downloads and releases meet.                 *)
THEOREM OneDocumentCorrect == Spec => []OneDocument
<1>1. IInv => OneDocument
  BY RangesOf DEF IInv, FilesHeld, OneDocument, Ranges
<1> QED
  BY <1>1, SpecInv, PTL

(* kiz/collect, kiz/route.ts: a return found and written down keeps its    *)
(* code from being sent until a release forgets it.                        *)
THEOREM NotedStaysBackCorrect == Spec => []NotedStaysBack
<1>1. IInv => NotedStaysBack
  BY DEF IInv
<1> QED
  BY <1>1, SpecInv, PTL

(* loadBatchRows(), loadAllSupabasePages(): pages of any size, read one    *)
(* after another, miss no code of a batch whose order does not change.     *)
THEOREM WholeBatchCorrect == Spec => []WholeBatch
  BY SpecInv, WholeCorrect, PTL

(* kiz_attach_legal_entity(): a code in a document keeps the owner the     *)
(* document was made for.                                                  *)
THEOREM OwnerOfDocumentCorrect == Spec => []OwnerOfDocument
<1>1. IInv => OwnerOfDocument
  BY DEF IInv
<1> QED
  BY <1>1, SpecInv, PTL
=============================================================================
