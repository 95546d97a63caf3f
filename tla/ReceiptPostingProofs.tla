------------------------ MODULE ReceiptPostingProofs ------------------------
(***************************************************************************)
(* Theorems of ReceiptPosting, for every number of lines, counters,        *)
(* posters and correctors: a line enters the register at most once, with   *)
(* its newest count if it was costed, corrections keep a posted line and   *)
(* the register in step, and the batch's total is what the register has    *)
(* received unless a line changed while the batch was posted.              *)
(*                                                                         *)
(* The first rests on the unique index on stock_batches.receipt_batch_id,  *)
(* the second on the row locks of the cost loop's UPDATEs, the third on    *)
(* SELECT ... FOR UPDATE.                                                  *)
(***************************************************************************)
EXTENDS ReceiptPosting, Sums

-----------------------------------------------------------------------------
(* The shape of the state: TypeOK without the totals, which come last.     *)

Shape ==
    /\ line \in [Lines -> Line]
    /\ moved \in [Lines -> Int \X Int]
    /\ receipts \in [Lines -> Nat]
    /\ rowLock \in [Lines -> Posters \cup Correctors \cup {NoOne}]
    /\ counter \in [Counters -> Counting]
    /\ corrector \in [Correctors -> Correction]
    /\ poster = [p \in Posters |-> poster[p]]
    /\ \A p \in Posters : /\ poster[p].done \in SUBSET Lines
                          /\ poster[p].costed \in SUBSET Lines
                          /\ poster[p].seen \in [Lines -> AnyCount]

LEMMA AnyCountIsPair == ASSUME NEW n \in AnyCount PROVE n \in Nat \X Nat
BY CountsArePossible DEF AnyCount, Nothing

LEMMA LineType ==
    ASSUME NEW status \in {"expected", "received"}, NEW count \in AnyCount,
           NEW posted \in BOOLEAN
    PROVE  [status |-> status, count |-> count, posted |-> posted] \in Line
BY DEF Line

(* A step of a poster that only moves that poster on.                      *)
PosterMoves(p) ==
    /\ poster' = [poster EXCEPT ![p] = poster'[p]]
    /\ poster'[p].done \in SUBSET Lines /\ poster'[p].costed \in SUBSET Lines
    /\ poster'[p].seen \in [Lines -> AnyCount]
    /\ UNCHANGED <<line, moved, receipts, counter, corrector>>
    /\ rowLock' \in [Lines -> Posters \cup Correctors \cup {NoOne}]

LEMMA PosterMovesShape ==
    ASSUME Shape, NEW p \in Posters, PosterMoves(p) PROVE Shape'
<1>1. poster' = [q \in Posters |-> IF q = p THEN poster'[p] ELSE poster[q]]
    BY DEF Shape, PosterMoves
<1>2. poster' = [q \in Posters |-> poster'[q]]
    BY <1>1
<1>3. \A q \in Posters : /\ poster'[q].done \in SUBSET Lines
                         /\ poster'[q].costed \in SUBSET Lines
                         /\ poster'[q].seen \in [Lines -> AnyCount]
    BY <1>1 DEF Shape, PosterMoves
<1> QED
    BY <1>2, <1>3 DEF PosterMoves, Shape

RowLockType == rowLock \in [Lines -> Posters \cup Correctors \cup {NoOne}]

LEMMA LockType ==
    ASSUME RowLockType, NEW a \in Posters \cup Correctors, NEW l \in Lines, Lock(a, l)
    PROVE  RowLockType'
BY DEF RowLockType, Lock

LEMMA UnlockType ==
    ASSUME RowLockType, NEW a \in Posters \cup Correctors, Unlock(a)
    PROVE  RowLockType'
BY DEF RowLockType, Unlock

LEMMA NoPostingType ==
    /\ NoPosting.done \in SUBSET Lines /\ NoPosting.costed \in SUBSET Lines
    /\ NoPosting.seen \in [Lines -> AnyCount]
BY DEF NoPosting, Zeros, AnyCount

LEMMA PostWithoutCommit ==
    ASSUME Shape, NEW p \in Posters, Post(p), ~PostCommit(p)
    PROVE  PosterMoves(p) /\ header' = header
<1>1. p \in DOMAIN poster /\ p \in Posters \cup Correctors
    BY DEF Shape
<1>2. poster[p].seen \in [Lines -> AnyCount] /\ poster[p].costed \in SUBSET Lines
    BY DEF Shape
<1>3. RowLockType
    BY DEF Shape, RowLockType
<1>4. CASE PostBegin(p)
    BY <1>1, <1>2, <1>3, <1>4 DEF PostBegin, PosterMoves, stock, RowLockType
<1>5. CASE PostPick(p)
    BY <1>1, <1>2, <1>3, <1>5 DEF PostPick, PosterMoves, stock, RowLockType
<1>6. CASE PostHeader(p)
    BY <1>1, <1>2, <1>3, <1>6 DEF PostHeader, PosterMoves, stock, RowLockType
<1>7. CASE PostSelect(p)
    <2>1. [l \in Lines |-> line[l].count] \in [Lines -> AnyCount]
        BY DEF Shape, Line
    <2> QED
        BY <1>1, <1>2, <1>3, <1>7, <2>1 DEF PostSelect, PosterMoves, stock, RowLockType
<1>8. ASSUME NEW l \in Lines, PostCost(p, l) PROVE PosterMoves(p) /\ header' = header
    <2>1. RowLockType'
        BY <1>1, <1>3, <1>8, LockType DEF PostCost, LockCosted
    <2> QED
        BY <1>1, <1>2, <1>8, <2>1 DEF PostCost, PosterMoves, stock, RowLockType
<1>9. ASSUME NEW l \in Lines, PostMove(p, l) PROVE PosterMoves(p) /\ header' = header
    <2>1. RowLockType'
        BY <1>1, <1>3, <1>9, LockType DEF PostMove
    <2>2. poster[p].done \cup {l} \in SUBSET Lines
        BY DEF Shape
    <2> QED
        BY <1>1, <1>2, <1>9, <2>1, <2>2 DEF PostMove, PosterMoves, stock, RowLockType
<1>10. CASE PostAborted(p)
    <2>1. RowLockType'
        BY <1>1, <1>3, <1>10, UnlockType DEF PostAborted
    <2> QED
        BY <1>1, <1>10, <2>1, NoPostingType DEF PostAborted, PosterMoves, stock, RowLockType
<1> QED
    BY <1>4, <1>5, <1>6, <1>7, <1>8, <1>9, <1>10 DEF Post

(* What a commit does to a line.                                           *)
LEMMA CommitEffect ==
    ASSUME Shape, NEW p \in Posters, PostCommit(p), NEW l \in Lines
    PROVE  /\ l \in poster[p].done =>
                  /\ line'[l].count = line[l].count
                  /\ line'[l].status = line[l].status
                  /\ line'[l].posted = TRUE
                  /\ moved'[l] = Plus(moved[l], poster[p].seen[l])
                  /\ receipts'[l] = receipts[l] + 1
           /\ l \notin poster[p].done =>
                  line'[l] = line[l] /\ moved'[l] = moved[l] /\ receipts'[l] = receipts[l]
BY DEF PostCommit, MarkPosted

LEMMA PlusType ==
    ASSUME NEW a \in Int \X Int, NEW b \in Int \X Int
    PROVE  Plus(a, b) \in Int \X Int /\ Minus(a, b) \in Int \X Int
BY DEF Plus, Minus

LEMMA CommitShape ==
    ASSUME Shape, NEW p \in Posters, PostCommit(p) PROVE Shape'
<1> DEFINE done == poster[p].done
<1>1. line' \in [Lines -> Line]
    <2>1. \A l \in Lines : [status |-> line[l].status, count |-> line[l].count,
                            posted |-> TRUE] \in Line
        BY LineType DEF Shape, Line
    <2> QED
        BY <2>1 DEF PostCommit, MarkPosted, Shape
<1>2. moved' \in [Lines -> Int \X Int]
    <2>1. \A l \in Lines : poster[p].seen[l] \in Int \X Int
        BY AnyCountIsPair DEF Shape
    <2>2. \A l \in Lines : Plus(moved[l], poster[p].seen[l]) \in Int \X Int
        BY <2>1, PlusType DEF Shape
    <2> QED
        BY <2>2 DEF PostCommit, Shape
<1>3. receipts' \in [Lines -> Nat]
    BY DEF PostCommit, Shape
<1>4. rowLock' \in [Lines -> Posters \cup Correctors \cup {NoOne}]
    BY UnlockType DEF PostCommit, RowLockType, Shape
<1>5. poster' = [q \in Posters |-> IF q = p THEN NoPosting ELSE poster[q]]
    BY DEF PostCommit, Shape
<1>6. poster' = [q \in Posters |-> poster'[q]]
    BY <1>5
<1>7. \A q \in Posters : /\ poster'[q].done \in SUBSET Lines
                         /\ poster'[q].costed \in SUBSET Lines
                         /\ poster'[q].seen \in [Lines -> AnyCount]
    BY <1>5, NoPostingType DEF Shape
<1> QED
    BY <1>1, <1>2, <1>3, <1>4, <1>6, <1>7 DEF PostCommit, Shape

(* A step of a counter: lines may become received, nothing else moves.     *)
LEMMA CountEffect ==
    ASSUME Shape, NEW c \in Counters, Count(c)
    PROVE  /\ UNCHANGED <<header, moved, receipts, rowLock, poster, corrector>>
           /\ line' \in [Lines -> Line]
           /\ counter' \in [Counters -> Counting]
           /\ \A l \in Lines :
                  \/ line'[l] = line[l]
                  \/ /\ line[l].status = "expected" /\ rowLock[l] = NoOne
                     /\ line'[l].status = "received" /\ line'[l].posted = FALSE
<1>1. ASSUME NEW counts \in [Lines -> Counts], CountRead(c, counts)
      PROVE  line' = line /\ counter' \in [Counters -> Counting]
    <2> DEFINE waiting == {l \in Lines : line[l].status = "expected"}
               r == [step |-> IF waiting = {} THEN "refused" ELSE "writing",
                     counts |-> counts, lines |-> waiting, todo |-> waiting, wrote |-> {}]
    <2>1. r \in Counting
        BY DEF Counting, AnyCount
    <2> QED
        BY <1>1, <2>1 DEF CountRead, Shape
<1>2. ASSUME NEW l \in Lines, CountWrite(c, l)
      PROVE  /\ line' \in [Lines -> Line] /\ counter' \in [Counters -> Counting]
             /\ \A m \in Lines :
                    \/ line'[m] = line[m]
                    \/ /\ line[m].status = "expected" /\ rowLock[m] = NoOne
                       /\ line'[m].status = "received" /\ line'[m].posted = FALSE
    <2>1. counter[c] \in Counting /\ counter[c].counts[l] \in AnyCount
        BY DEF Shape, Counting
    <2>2. [status |-> "received", posted |-> FALSE, count |-> counter[c].counts[l]] \in Line
        BY <2>1 DEF Line
    <2>3. line' \in [Lines -> Line]
        BY <1>2, <2>2 DEF CountWrite, Shape
    <2>4. [step |-> "writing", counts |-> counter[c].counts, lines |-> counter[c].lines,
           todo |-> counter[c].todo \ {l},
           wrote |-> counter[c].wrote \cup (IF Matched(l) THEN {l} ELSE {})] \in Counting
        BY <2>1 DEF Counting
    <2>5. counter' \in [Counters -> Counting]
        BY <1>2, <2>4 DEF CountWrite, Shape
    <2> QED
        BY <1>2, <2>3, <2>5 DEF CountWrite, Matched, Shape
<1>3. ASSUME CountSaved(c) \/ CountFailed(c)
      PROVE  line' = line /\ counter' \in [Counters -> Counting]
    <2>1. counter[c] \in Counting
        BY DEF Shape
    <2>2. \A step \in {"saved", "failed"} :
              [step |-> step, counts |-> counter[c].counts, lines |-> counter[c].lines,
               todo |-> counter[c].todo, wrote |-> counter[c].wrote] \in Counting
        BY <2>1 DEF Counting
    <2> QED
        BY <1>3, <2>2 DEF CountSaved, CountFailed, CounterTo, Shape
<1>4. UNCHANGED <<header, moved, receipts, rowLock, poster, corrector>>
    BY DEF Count, CountRead, CountWrite, CountSaved, CountFailed, stock
<1> QED
    BY <1>1, <1>2, <1>3, <1>4 DEF Count, Shape

LEMMA CountShape ==
    ASSUME Shape, NEW c \in Counters, Count(c) PROVE Shape'
BY CountEffect DEF Shape

(* A step of a corrector.                                                  *)
LEMMA CorrectEffect ==
    ASSUME Shape, NEW k \in Correctors, Correct(k)
    PROVE  /\ UNCHANGED <<receipts, counter, poster>>
           /\ header'.there = header.there
           /\ line' \in [Lines -> Line]
           /\ moved' \in [Lines -> Int \X Int]
           /\ rowLock' \in [Lines -> Posters \cup Correctors \cup {NoOne}]
           /\ corrector' \in [Correctors -> Correction]
           /\ \A l \in Lines : /\ line'[l].status = line[l].status
                               /\ line'[l].posted = line[l].posted
<1>1. k \in Posters \cup Correctors /\ RowLockType /\ NoCorrection \in Correction
    BY DEF Shape, RowLockType, NoCorrection, Correction, AnyCount
<1>2. ASSUME NEW l \in Lines, CorrectRead(k, l)
      PROVE  RowLockType' /\ corrector' \in [Correctors -> Correction]
    <2>1. [step |-> "locked", lines |-> {l}, saw |-> line[l].count,
           posted |-> line[l].posted] \in Correction
        BY DEF Shape, Line, Correction
    <2>2. RowLockType'
        BY <1>1, <1>2, LockType DEF CorrectRead, ForUpdate
    <2> QED
        BY <1>2, <2>1, <2>2 DEF CorrectRead, Shape
<1>3. ASSUME NEW l \in Lines, NEW count \in Counts, CorrectWrite(k, l, count)
      PROVE  /\ RowLockType' /\ corrector' \in [Correctors -> Correction]
             /\ line' \in [Lines -> Line] /\ moved' \in [Lines -> Int \X Int]
             /\ \A m \in Lines : /\ line'[m].status = line[m].status
                                 /\ line'[m].posted = line[m].posted
             /\ header'.there = header.there
    <2>1. RowLockType'
        BY <1>1, <1>3, UnlockType DEF CorrectWrite
    <2>2. corrector' \in [Correctors -> Correction]
        BY <1>1, <1>3 DEF CorrectWrite, Shape
    <2>3. [status |-> line[l].status, count |-> count, posted |-> line[l].posted] \in Line
        BY DEF Shape, Line, AnyCount
    <2>4. /\ line' \in [Lines -> Line]
          /\ \A m \in Lines : /\ line'[m].status = line[m].status
                              /\ line'[m].posted = line[m].posted
        BY <1>3, <2>3 DEF CorrectWrite, Shape
    <2>5. count \in Int \X Int /\ corrector[k].saw \in Int \X Int
        BY AnyCountIsPair DEF AnyCount, Shape, Correction
    <2>6. Plus(moved[l], Minus(count, corrector[k].saw)) \in Int \X Int
        BY <2>5, PlusType DEF Shape
    <2>7. moved' \in [Lines -> Int \X Int]
        BY <1>3, <2>6 DEF CorrectWrite, Shape
    <2>8. header'.there = header.there
        BY <1>3 DEF CorrectWrite, TotalPlus
    <2> QED
        BY <2>1, <2>2, <2>4, <2>7, <2>8
<1>4. CASE CorrectAborted(k)
    <2>1. RowLockType'
        BY <1>1, <1>4, UnlockType DEF CorrectAborted
    <2> QED
        BY <1>1, <1>4, <2>1 DEF CorrectAborted, Shape, stock, RowLockType
<1>5. ASSUME NEW l \in Lines, CorrectRead(k, l)
      PROVE  UNCHANGED <<line, stock, counter, poster>>
    BY <1>5 DEF CorrectRead
<1>6. ASSUME NEW l \in Lines, NEW count \in Counts, CorrectWrite(k, l, count)
      PROVE  UNCHANGED <<receipts, counter, poster>>
    BY <1>6 DEF CorrectWrite
<1> QED
    BY <1>2, <1>3, <1>4, <1>5, <1>6 DEF Correct, Shape, stock, RowLockType

LEMMA CorrectShape ==
    ASSUME Shape, NEW k \in Correctors, Correct(k) PROVE Shape'
BY CorrectEffect DEF Shape

(* A step of a poster short of its commit: what it may take and hold.      *)
Taken(p) == poster[p].done \cup poster[p].todo
Postable(l) == line[l].status = "received" /\ ~line[l].posted

LEMMA PosterEffect ==
    ASSUME Shape, NEW p \in Posters, Post(p), ~PostCommit(p)
    PROVE  /\ Headed(p)' => Headed(p) \/ (~header.there /\ \A q \in Posters : ~Headed(q))
           /\ \A l \in Lines :
                  /\ Headed(p)' /\ l \in Taken(p)' =>
                         (Headed(p) /\ l \in Taken(p)) \/ Postable(l)
                  /\ l \in poster'[p].done =>
                         \/ rowLock'[l] = p
                         \/ l \in poster[p].done /\ rowLock'[l] = rowLock[l]
                  /\ l \in poster'[p].costed =>
                         \/ rowLock'[l] = p
                         \/ l \in poster[p].costed /\ rowLock'[l] = rowLock[l]
                  /\ poster'[p].step = "moving" =>
                         \/ poster'[p].seen[l] = line[l].count
                         \/ /\ poster[p].step = "moving" /\ poster'[p].seen = poster[p].seen
                            /\ poster'[p].costed = poster[p].costed
                  /\ \/ rowLock'[l] = rowLock[l]
                     \/ CanLock(p, l)
<1> DEFINE Goal ==
        /\ Headed(p)' => Headed(p) \/ (~header.there /\ \A q \in Posters : ~Headed(q))
        /\ \A l \in Lines :
               /\ Headed(p)' /\ l \in Taken(p)' =>
                      (Headed(p) /\ l \in Taken(p)) \/ Postable(l)
               /\ l \in poster'[p].done =>
                      \/ rowLock'[l] = p
                      \/ l \in poster[p].done /\ rowLock'[l] = rowLock[l]
               /\ l \in poster'[p].costed =>
                      \/ rowLock'[l] = p
                      \/ l \in poster[p].costed /\ rowLock'[l] = rowLock[l]
               /\ poster'[p].step = "moving" =>
                      \/ poster'[p].seen[l] = line[l].count
                      \/ /\ poster[p].step = "moving" /\ poster'[p].seen = poster[p].seen
                         /\ poster'[p].costed = poster[p].costed
               /\ \/ rowLock'[l] = rowLock[l]
                  \/ CanLock(p, l)
<1>1. p \in DOMAIN poster
    BY DEF Shape
<1>2. CASE PostBegin(p)
    BY <1>1, <1>2 DEF PostBegin, Headed, Taken
<1>3. CASE PostPick(p)
    BY <1>1, <1>3 DEF PostPick, Headed, Taken
<1>4. CASE PostHeader(p)
    BY <1>1, <1>4 DEF PostHeader, Headed, Taken
<1>5. CASE PostSelect(p)
    BY <1>1, <1>5 DEF PostSelect, Headed, Taken, WaitingNonzero, Waiting, Postable
<1>6. ASSUME NEW l \in Lines, PostCost(p, l) PROVE Goal
    BY <1>1, <1>6 DEF PostCost, LockCosted, CanLock, Lock, Headed, Taken, Shape
<1>7. ASSUME NEW l \in Lines, PostMove(p, l) PROVE Goal
    BY <1>1, <1>7 DEF PostMove, CanLock, Lock, Headed, Taken, Shape
<1>8. CASE PostAborted(p)
    BY <1>1, <1>8 DEF PostAborted, Unlock, CanLock, NoPosting, Headed, Taken, Shape
<1> QED
    BY <1>2, <1>3, <1>4, <1>5, <1>6, <1>7, <1>8 DEF Post

-----------------------------------------------------------------------------
(* The batch has one header.  While it is being inserted no line has been  *)
(* received to stock, and one poster alone inserts it.                     *)
OneHeader ==
    /\ ~header.there => \A l \in Lines : receipts[l] = 0
    /\ \A p \in Posters : Headed(p) => ~header.there
    /\ \A p, q \in Posters : Headed(p) /\ Headed(q) => p = q

(* What the inserting poster took is still to be posted, and the rows it   *)
(* has marked are locked by it.                                            *)
PosterHolds ==
    \A p \in Posters, l \in Lines :
        /\ Headed(p) /\ l \in Taken(p) => Postable(l)
        /\ l \in poster[p].done => rowLock[l] = p

(* What a poster has costed is locked by it, and is still as it read it.   *)
CostedHolds ==
    \A p \in Posters, l \in Lines : l \in poster[p].costed =>
        /\ rowLock[l] = p
        /\ poster[p].step = "moving" => poster[p].seen[l] = line[l].count

(* A corrector that read a line holds it, and the line is as it was read.  *)
CorrectorHolds ==
    \A k \in Correctors, l \in Lines :
        corrector[k].step = "locked" /\ l \in corrector[k].lines =>
            /\ rowLock[l] = k
            /\ corrector[k].saw = line[l].count
            /\ corrector[k].posted = line[l].posted

PostedWereReceived == \A l \in Lines : line[l].posted => line[l].status = "received"

IInv ==
    /\ Shape
    /\ PostedOnce
    /\ OneHeader
    /\ PosterHolds
    /\ CostedHolds
    /\ CorrectorHolds
    /\ PostedWereReceived

LEMMA InitInv == Init => IInv
<1> SUFFICES ASSUME Init PROVE IInv
    OBVIOUS
<1>1. Shape
    <2>1. line \in [Lines -> Line]
        BY DEF Init, Line, AnyCount
    <2>2. moved \in [Lines -> Int \X Int] /\ receipts \in [Lines -> Nat]
        BY DEF Init, Zeros, Nothing
    <2>3. counter \in [Counters -> Counting]
        BY DEF Init, NoCount, Counting, Zeros, AnyCount
    <2>4. corrector \in [Correctors -> Correction]
        BY DEF Init, NoCorrection, Correction, AnyCount
    <2>5. rowLock \in [Lines -> Posters \cup Correctors \cup {NoOne}]
        BY DEF Init
    <2>6. /\ poster = [p \in Posters |-> poster[p]]
          /\ \A p \in Posters : /\ poster[p].done \in SUBSET Lines
                                /\ poster[p].costed \in SUBSET Lines
                                /\ poster[p].seen \in [Lines -> AnyCount]
        BY NoPostingType DEF Init
    <2> QED
        BY <2>1, <2>2, <2>3, <2>4, <2>5, <2>6 DEF Shape
<1>2. PostedOnce /\ OneHeader
    BY DEF Init, PostedOnce, OneHeader, NoHeader, Headed, NoPosting
<1>3. PosterHolds /\ CostedHolds
    BY DEF Init, PosterHolds, CostedHolds, NoPosting, Headed, Taken
<1>4. CorrectorHolds
    BY DEF Init, CorrectorHolds, NoCorrection
<1>5. PostedWereReceived
    BY DEF Init, PostedWereReceived
<1> QED
    BY <1>1, <1>2, <1>3, <1>4, <1>5 DEF IInv

LEMMA CountInv == ASSUME IInv, NEW c \in Counters, Count(c) PROVE IInv'
<1>1. Shape'
    BY CountShape DEF IInv
<1>2. PostedOnce' /\ OneHeader'
    BY CountEffect DEF IInv, PostedOnce, OneHeader, Headed
<1> DEFINE Same(l) == line'[l] = line[l]
<1>a. /\ UNCHANGED <<rowLock, poster, corrector>>
      /\ \A l \in Lines : Same(l) \/ (line[l].status = "expected" /\ rowLock[l] = NoOne)
    BY CountEffect DEF IInv
<1>3. PosterHolds'
    <2>1. ASSUME NEW p \in Posters, NEW l \in Lines
          PROVE  /\ Headed(p)' /\ l \in Taken(p)' => Postable(l)'
                 /\ l \in poster'[p].done => rowLock'[l] = p
        <3>1. Headed(p)' = Headed(p) /\ Taken(p)' = Taken(p)
            BY <1>a DEF Headed, Taken
        <3>2. Headed(p) /\ l \in Taken(p) => Postable(l)
            BY DEF IInv, PosterHolds
        <3>3. Postable(l) => Same(l)
            BY <1>a DEF Postable
        <3>4. Postable(l) => Postable(l)'
            BY <3>3 DEF Postable
        <3> QED
            BY <1>a, <3>1, <3>2, <3>4 DEF IInv, PosterHolds
    <2> QED
        BY <2>1 DEF PosterHolds
<1>b. CostedHolds'
    <2>1. ASSUME NEW p \in Posters, NEW l \in Lines, l \in poster[p].costed
          PROVE  rowLock[l] = p /\ Same(l)
        BY <1>a, <2>1, NoOneIsNobody DEF IInv, CostedHolds
    <2> QED
        BY <1>a, <2>1 DEF IInv, CostedHolds
<1>4. CorrectorHolds'
    <2>1. ASSUME NEW k \in Correctors, NEW l \in Lines,
                 corrector[k].step = "locked", l \in corrector[k].lines
          PROVE  rowLock[l] = k /\ Same(l)
        BY <1>a, <2>1, NoOneIsNobody DEF IInv, CorrectorHolds
    <2> QED
        BY <1>a, <2>1 DEF IInv, CorrectorHolds
<1>5. PostedWereReceived'
    BY CountEffect DEF IInv, PostedWereReceived
<1> QED
    BY <1>1, <1>2, <1>3, <1>b, <1>4, <1>5 DEF IInv

LEMMA PostInv == ASSUME IInv, NEW p \in Posters, Post(p), ~PostCommit(p) PROVE IInv'
<1>1. Shape' /\ PosterMoves(p) /\ header' = header
    BY PosterMovesShape, PostWithoutCommit DEF IInv
<1>2. \A q \in Posters : q # p => poster'[q] = poster[q]
    BY <1>1 DEF PosterMoves, IInv, Shape
<1>3. PostedOnce'
    BY <1>1 DEF IInv, PostedOnce, PosterMoves
<1>4. OneHeader'
    BY <1>1, <1>2, PosterEffect DEF IInv, OneHeader, PosterMoves, Headed
<1>5. PosterHolds'
    <2>1. ASSUME NEW l \in Lines PROVE Postable(l)' = Postable(l)
        BY <1>1 DEF PosterMoves, Postable
    <2>2. ASSUME NEW q \in Posters, NEW l \in Lines, q # p
          PROVE  /\ Headed(q)' /\ l \in Taken(q)' => Postable(l)'
                 /\ l \in poster'[q].done => rowLock'[l] = q
        BY <1>2, <2>1, <2>2, PosterEffect, NoOneIsNobody
           DEF IInv, PosterHolds, Headed, Taken, CanLock
    <2>3. ASSUME NEW l \in Lines
          PROVE  /\ Headed(p)' /\ l \in Taken(p)' => Postable(l)'
                 /\ l \in poster'[p].done => rowLock'[l] = p
        BY <2>1, PosterEffect DEF IInv, PosterHolds
    <2> QED
        BY <2>2, <2>3 DEF PosterHolds
<1>a. CostedHolds'
    <2>1. ASSUME NEW q \in Posters, NEW l \in Lines, q # p, l \in poster'[q].costed
          PROVE  /\ rowLock'[l] = q
                 /\ poster'[q].step = "moving" => poster'[q].seen[l] = line'[l].count
        <3>1. /\ rowLock[l] = q
              /\ poster[q].step = "moving" => poster[q].seen[l] = line[l].count
            BY <1>2, <2>1 DEF IInv, CostedHolds
        <3>2. rowLock'[l] = rowLock[l]
            BY <2>1, <3>1, PosterEffect, NoOneIsNobody DEF CanLock, IInv
        <3> QED
            BY <1>1, <1>2, <2>1, <3>1, <3>2 DEF PosterMoves
    <2>2. ASSUME NEW l \in Lines, l \in poster'[p].costed
          PROVE  /\ rowLock'[l] = p
                 /\ poster'[p].step = "moving" => poster'[p].seen[l] = line'[l].count
        BY <1>1, <2>2, PosterEffect DEF IInv, CostedHolds, PosterMoves
    <2> QED
        BY <2>1, <2>2 DEF CostedHolds
<1>6. CorrectorHolds'
    BY <1>1, PosterEffect, NoOneIsNobody, DifferentActors
       DEF IInv, CorrectorHolds, PosterMoves, CanLock
<1>7. PostedWereReceived'
    BY <1>1 DEF IInv, PostedWereReceived, PosterMoves
<1> QED
    BY <1>1, <1>3, <1>4, <1>5, <1>a, <1>6, <1>7 DEF IInv

LEMMA CommitInv == ASSUME IInv, NEW p \in Posters, PostCommit(p) PROVE IInv'
<1>1. Shape /\ Shape'
    BY CommitShape DEF IInv
<1>2. Headed(p) /\ header'.there = TRUE /\ UNCHANGED corrector
    BY DEF PostCommit, Headed
<1>3. \A q \in Posters : poster'[q] = IF q = p THEN NoPosting ELSE poster[q]
    BY <1>1 DEF PostCommit, Shape
<1>4. PostedOnce'
    <2>1. \A l \in Lines : receipts[l] = 0
        BY <1>2 DEF IInv, OneHeader
    <2>2. \A l \in Lines : receipts'[l] = 1 \/ receipts'[l] = 0
        BY <2>1 DEF PostCommit
    <2> QED
        BY <2>2 DEF PostedOnce
<1>5. \A q \in Posters : ~Headed(q)'
    BY <1>2, <1>3 DEF IInv, OneHeader, Headed, NoPosting
<1>6. OneHeader'
    BY <1>2, <1>5 DEF OneHeader
<1>7. \A l \in Lines : rowLock[l] # p => rowLock'[l] = rowLock[l]
    BY <1>1 DEF PostCommit, Unlock, Shape
<1>8. PosterHolds'
    <2>1. ASSUME NEW q \in Posters, NEW l \in Lines, l \in poster'[q].done
          PROVE  rowLock'[l] = q
        <3>1. q # p
            BY <1>3, <2>1 DEF NoPosting
        <3> QED
            BY <1>3, <1>7, <2>1, <3>1 DEF IInv, PosterHolds
    <2> QED
        BY <1>5, <2>1 DEF PosterHolds
<1>a. CostedHolds'
    <2>1. ASSUME NEW q \in Posters, NEW l \in Lines, l \in poster'[q].costed
          PROVE  /\ rowLock'[l] = q
                 /\ poster'[q].step = "moving" => poster'[q].seen[l] = line'[l].count
        <3>1. q # p
            BY <1>3, <2>1 DEF NoPosting
        <3>2. /\ rowLock[l] = q
              /\ poster[q].step = "moving" => poster[q].seen[l] = line[l].count
            BY <1>3, <2>1, <3>1 DEF IInv, CostedHolds
        <3>3. l \notin poster[p].done
            BY <3>1, <3>2 DEF IInv, PosterHolds
        <3> QED
            BY <1>1, <1>3, <1>7, <3>1, <3>2, <3>3, CommitEffect
    <2> QED
        BY <2>1 DEF CostedHolds
<1>9. CorrectorHolds'
    <2>1. ASSUME NEW k \in Correctors, NEW l \in Lines,
                 corrector[k].step = "locked", l \in corrector[k].lines
          PROVE  rowLock'[l] = k /\ line'[l] = line[l]
        <3>1. rowLock[l] = k /\ k # p
            BY <2>1, DifferentActors DEF IInv, CorrectorHolds
        <3>2. l \notin poster[p].done
            BY <3>1 DEF IInv, PosterHolds
        <3> QED
            BY <1>1, <1>7, <3>1, <3>2, CommitEffect
    <2> QED
        BY <1>2, <2>1 DEF IInv, CorrectorHolds
<1>10. PostedWereReceived'
    BY <1>1, <1>2, CommitEffect DEF IInv, PostedWereReceived, PosterHolds, Taken, Postable
<1> QED
    BY <1>1, <1>4, <1>6, <1>8, <1>a, <1>9, <1>10 DEF IInv

LEMMA CorrectInv == ASSUME IInv, NEW k \in Correctors, Correct(k) PROVE IInv'
<1>1. Shape /\ Shape'
    BY CorrectShape DEF IInv
<1>2. /\ UNCHANGED <<receipts, counter, poster>>
      /\ header'.there = header.there
      /\ \A l \in Lines : line'[l].status = line[l].status /\ line'[l].posted = line[l].posted
    BY <1>1, CorrectEffect
<1>3. PostedOnce' /\ OneHeader'
    BY <1>2 DEF IInv, PostedOnce, OneHeader, Headed
<1>4. \A l \in Lines :
          \/ rowLock'[l] = rowLock[l]
          \/ rowLock[l] \in {k, NoOne}
    BY <1>1 DEF Correct, CorrectRead, ForUpdate, CanLock, Lock, CorrectWrite, CorrectAborted,
               Unlock, Shape
<1>5. PosterHolds'
    <2>1. ASSUME NEW p \in Posters, NEW l \in Lines
          PROVE  /\ Headed(p)' /\ l \in Taken(p)' => Postable(l)'
                 /\ l \in poster'[p].done => rowLock'[l] = p
        <3>1. Headed(p)' = Headed(p) /\ Taken(p)' = Taken(p) /\ poster' = poster
            BY <1>2 DEF Headed, Taken
        <3>2. Postable(l)' = Postable(l)
            BY <1>2 DEF Postable
        <3>3. l \in poster[p].done => rowLock[l] = p
            BY DEF IInv, PosterHolds
        <3>4. rowLock[l] = p => rowLock'[l] = p
            BY <1>4, NoOneIsNobody, DifferentActors
        <3> QED
            BY <3>1, <3>2, <3>3, <3>4 DEF IInv, PosterHolds
    <2> QED
        BY <2>1 DEF PosterHolds
<1>6. PostedWereReceived'
    BY <1>2 DEF IInv, PostedWereReceived
<1>a. \A l \in Lines : line'[l].count = line[l].count \/ rowLock[l] \in {k, NoOne}
    BY <1>1 DEF Correct, CorrectRead, CorrectWrite, CorrectAborted, CanLock, Shape, stock
<1>b. CostedHolds'
    <2>1. ASSUME NEW p \in Posters, NEW l \in Lines, l \in poster[p].costed
          PROVE  rowLock[l] = p /\ rowLock'[l] = p /\ line'[l].count = line[l].count
        BY <1>4, <1>a, <2>1, NoOneIsNobody, DifferentActors DEF IInv, CostedHolds
    <2> QED
        BY <1>2, <2>1 DEF IInv, CostedHolds
<1>7. ASSUME NEW j \in Correctors, NEW l \in Lines, j # k,
             corrector'[j].step = "locked", l \in corrector'[j].lines
      PROVE  /\ rowLock'[l] = j
             /\ corrector'[j].saw = line'[l].count
             /\ corrector'[j].posted = line'[l].posted
    <2>1. corrector'[j] = corrector[j]
        BY <1>1, <1>7 DEF Correct, CorrectRead, CorrectWrite, CorrectAborted, Shape
    <2>2. rowLock[l] = j /\ corrector[j].saw = line[l].count
        BY <1>7, <2>1 DEF IInv, CorrectorHolds
    <2>3. rowLock'[l] = j
        BY <1>4, <1>7, <2>2, NoOneIsNobody
    <2>4. line'[l].count = line[l].count
        BY <1>a, <1>7, <2>2, NoOneIsNobody
    <2> QED
        BY <1>2, <1>7, <2>1, <2>2, <2>3, <2>4 DEF IInv, CorrectorHolds
<1>8. ASSUME NEW l \in Lines,
             corrector'[k].step = "locked", l \in corrector'[k].lines
      PROVE  /\ rowLock'[l] = k
             /\ corrector'[k].saw = line'[l].count
             /\ corrector'[k].posted = line'[l].posted
    <2>1. ASSUME NEW m \in Lines, CorrectRead(k, m)
          PROVE  /\ rowLock'[l] = k
                 /\ corrector'[k].saw = line'[l].count
                 /\ corrector'[k].posted = line'[l].posted
        BY <1>1, <1>8, <2>1 DEF CorrectRead, ForUpdate, Lock, Shape, stock
    <2>2. ASSUME corrector' = [corrector EXCEPT ![k] = NoCorrection] PROVE FALSE
        BY <1>1, <1>8, <2>2 DEF NoCorrection, Shape
    <2>3. ASSUME NEW m \in Lines, NEW count \in Counts, CorrectWrite(k, m, count)
          PROVE  FALSE
        BY <2>2, <2>3 DEF CorrectWrite
    <2>4. ~CorrectAborted(k)
        BY <2>2 DEF CorrectAborted
    <2> QED
        BY <1>8, <2>1, <2>3, <2>4 DEF Correct
<1> QED
    BY <1>1, <1>3, <1>5, <1>6, <1>b, <1>7, <1>8 DEF IInv, CorrectorHolds

LEMMA NextInv == ASSUME IInv, [Next]_vars PROVE IInv'
<1>1. ASSUME UNCHANGED vars PROVE IInv'
    BY <1>1 DEF vars, IInv, Shape, PostedOnce, OneHeader, PosterHolds, CostedHolds,
              CorrectorHolds, PostedWereReceived, Headed, Taken, Postable
<1> QED
    BY <1>1, CountInv, PostInv, CommitInv, CorrectInv DEF Next

LEMMA InvHolds == Spec => []IInv
BY InitInv, NextInv, PTL DEF Spec

(* A line of a batch enters the register at most once, however many        *)
(* postings of the batch run, fail and are tried again.                    *)
THEOREM PostedOnceCorrect == Spec => []PostedOnce
<1>1. IInv => PostedOnce
    BY DEF IInv
<1> QED
    BY <1>1, InvHolds, PTL

(* A posting enters the newest count of every line it has costed: nobody   *)
(* can change a costed line before the posting ends.                       *)
THEOREM PostsNewestCountCorrect == Spec => []PostsNewestCount
<1>1. IInv => PostsNewestCount
    BY DEF IInv, Shape, CostedHolds, PostsNewestCount
<1> QED
    BY <1>1, InvHolds, PTL

-----------------------------------------------------------------------------
(* The register and a posted line drift apart by no step.                  *)
LEMMA CorrectionCancels ==
    ASSUME NEW m \in Int \X Int, NEW n \in Int \X Int, NEW old \in Int \X Int
    PROVE  Minus(Plus(m, Minus(n, old)), n) = Minus(m, old)
BY DEF Plus, Minus

LEMMA StepKeepsDrift ==
    ASSUME IInv, Next, NEW l \in Lines, line[l].posted PROVE Drift(l)' = Drift(l)
<1>1. ASSUME NEW c \in Counters, Count(c) PROVE Drift(l)' = Drift(l)
    <2>1. line'[l] = line[l] /\ moved' = moved
        BY <1>1, CountEffect DEF IInv, PostedWereReceived
    <2> QED
        BY <2>1 DEF Drift
<1>2. ASSUME NEW p \in Posters, Post(p), ~PostCommit(p) PROVE Drift(l)' = Drift(l)
    BY <1>2, PostWithoutCommit DEF IInv, PosterMoves, Drift
<1>3. ASSUME NEW p \in Posters, PostCommit(p) PROVE Drift(l)' = Drift(l)
    <2>1. Headed(p)
        BY <1>3 DEF PostCommit, Headed
    <2>2. l \notin poster[p].done
        BY <2>1 DEF IInv, PosterHolds, Taken, Postable
    <2>3. line'[l] = line[l] /\ moved'[l] = moved[l]
        BY <1>3, <2>2, CommitEffect DEF IInv
    <2> QED
        BY <2>3 DEF Drift
<1>4. ASSUME NEW k \in Correctors, NEW n \in Lines, NEW count \in Counts,
             CorrectWrite(k, n, count)
      PROVE  Drift(l)' = Drift(l)
    <2>1. CASE n # l
        <3>1. line'[l] = line[l] /\ moved'[l] = moved[l]
            BY <1>4, <2>1 DEF CorrectWrite, IInv, Shape
        <3> QED
            BY <3>1 DEF Drift
    <2>2. CASE n = l
        <3>1. corrector[k].saw = line[l].count /\ corrector[k].posted
            BY <1>4, <2>2 DEF CorrectWrite, IInv, CorrectorHolds
        <3>2. /\ line'[l].count = count
              /\ moved'[l] = Plus(moved[l], Minus(count, line[l].count))
            BY <1>4, <2>2, <3>1 DEF CorrectWrite, IInv, Shape
        <3>3. /\ moved[l] \in Int \X Int /\ count \in Int \X Int
              /\ line[l].count \in Int \X Int
            BY AnyCountIsPair DEF AnyCount, IInv, Shape, Line
        <3> QED
            BY <3>2, <3>3, CorrectionCancels DEF Drift
    <2> QED
        BY <2>1, <2>2
<1>5. ASSUME NEW k \in Correctors, Correct(k),
             ~ \E n \in Lines, count \in Counts : CorrectWrite(k, n, count)
      PROVE  Drift(l)' = Drift(l)
    BY <1>5 DEF Correct, CorrectRead, CorrectAborted, stock, Drift
<1> QED
    BY <1>1, <1>2, <1>3, <1>4, <1>5 DEF Next

(* Once a line is posted, every correction of it changes the register and  *)
(* the line by the same amount: racing corrections lose no difference.     *)
THEOREM DriftFixedCorrect == Spec => DriftFixed
<1>1. IInv /\ [Next]_vars => [\A l \in Lines : line[l].posted => Drift(l)' = Drift(l)]_vars
    BY StepKeepsDrift
<1> QED
    BY <1>1, InvHolds, PTL DEF Spec, DriftFixed

-----------------------------------------------------------------------------
(* The totals.  What a posting announces is a sum over the waiting lines,  *)
(* and a correction of a posted batch keeps it from falling below zero.    *)

LEMMA WaitingQtyType == ASSUME Shape PROVE WaitingQty \in Nat
<1> DEFINE f == [l \in Waiting |-> line[l].count[1]]
<1>1. IsFiniteSet(Waiting)
    BY LinesAreFinite, FS_Subset DEF Waiting
<1>2. \A l \in Waiting : f[l] \in Nat
    BY AnyCountIsPair DEF Shape, Line, Waiting
<1>3. DOMAIN f = Waiting
    OBVIOUS
<1> HIDE DEF f
<1>4. SumFunctionOnSet(f, DOMAIN f) \in Nat
    BY <1>1, <1>2, <1>3, SumNat
<1> QED
    BY <1>4 DEF f, WaitingQty, SumFunction

Totals ==
    /\ header \in [there : BOOLEAN, qty : Nat]
    /\ poster \in [Posters -> Posting]

LEMMA NoPostingIsPosting == NoPosting \in Posting
BY DEF NoPosting, Posting, Zeros, AnyCount

LEMMA PostTotals ==
    ASSUME Shape, Totals, NEW p \in Posters, Post(p) PROVE Totals'
<1>1. poster[p] \in Posting
    BY DEF Totals
<1>2. WaitingNonzero \in SUBSET Lines
    BY DEF WaitingNonzero, Waiting
<1> DEFINE Step(new) == new \in Posting /\ poster' = [poster EXCEPT ![p] = new]
<1>3. ASSUME NEW new, Step(new), header' \in [there : BOOLEAN, qty : Nat] PROVE Totals'
    BY <1>3 DEF Totals
<1>4. header' = header => header' \in [there : BOOLEAN, qty : Nat]
    BY DEF Totals
<1>5. CASE PostBegin(p)
    <2> DEFINE new == [step |-> "totalled", qty |-> WaitingQty, todo |-> {}, costed |-> {},
                       seen |-> poster[p].seen, done |-> {}]
    <2>1. new \in Posting
        BY <1>1, WaitingQtyType DEF Posting
    <2>2. Step(new) /\ header' = header
        BY <1>5, <2>1 DEF PostBegin, stock
    <2> QED
        BY <1>3, <1>4, <2>2
<1>6. CASE PostPick(p)
    <2> DEFINE new == [step |-> "costing", qty |-> poster[p].qty, todo |-> WaitingNonzero,
                       costed |-> {}, seen |-> poster[p].seen, done |-> {}]
    <2>1. new \in Posting
        BY <1>1, <1>2 DEF Posting
    <2>2. Step(new) /\ header' = header
        BY <1>6, <2>1 DEF PostPick, stock
    <2> QED
        BY <1>3, <1>4, <2>2
<1>7. CASE PostHeader(p)
    <2> DEFINE new == [step |-> "headed", qty |-> poster[p].qty, todo |-> {},
                       costed |-> poster[p].costed, seen |-> poster[p].seen, done |-> {}]
    <2>1. new \in Posting
        BY <1>1 DEF Posting
    <2>2. Step(new) /\ header' = header
        BY <1>7, <2>1 DEF PostHeader, stock
    <2> QED
        BY <1>3, <1>4, <2>2
<1>8. CASE PostSelect(p)
    <2> DEFINE new == [step |-> "moving", qty |-> poster[p].qty, todo |-> WaitingNonzero,
                       costed |-> poster[p].costed,
                       seen |-> [l \in Lines |-> line[l].count], done |-> {}]
    <2>1. [l \in Lines |-> line[l].count] \in [Lines -> AnyCount]
        BY DEF Shape, Line
    <2>2. new \in Posting
        BY <1>1, <1>2, <2>1 DEF Posting
    <2>3. Step(new) /\ header' = header
        BY <1>8, <2>2 DEF PostSelect, stock
    <2> QED
        BY <1>3, <1>4, <2>3
<1>9. ASSUME NEW l \in Lines, PostCost(p, l) PROVE Totals'
    <2> DEFINE new == [step |-> "costing", qty |-> poster[p].qty, todo |-> poster[p].todo \ {l},
                       costed |-> poster[p].costed \cup {l}, seen |-> poster[p].seen,
                       done |-> {}]
    <2>1. new \in Posting
        BY <1>1 DEF Posting
    <2>2. Step(new) /\ header' = header
        BY <1>9, <2>1 DEF PostCost, stock
    <2> QED
        BY <1>3, <1>4, <2>2
<1>10. ASSUME NEW l \in Lines, PostMove(p, l) PROVE Totals'
    <2> DEFINE new == [step |-> "moving", qty |-> poster[p].qty, todo |-> poster[p].todo \ {l},
                       costed |-> poster[p].costed, seen |-> poster[p].seen,
                       done |-> poster[p].done \cup {l}]
    <2>1. new \in Posting
        BY <1>1 DEF Posting
    <2>2. Step(new) /\ header' = header
        BY <1>10, <2>1 DEF PostMove, stock
    <2> QED
        BY <1>3, <1>4, <2>2
<1>11. CASE PostCommit(p)
    <2>1. header' \in [there : BOOLEAN, qty : Nat]
        BY <1>1, <1>11 DEF PostCommit, Posting
    <2>2. Step(NoPosting)
        BY <1>11, NoPostingIsPosting DEF PostCommit
    <2> QED
        BY <1>3, <2>1, <2>2
<1>12. CASE PostAborted(p)
    <2>1. Step(NoPosting) /\ header' = header
        BY <1>12, NoPostingIsPosting DEF PostAborted, stock
    <2> QED
        BY <1>3, <1>4, <2>1
<1> QED
    BY <1>5, <1>6, <1>7, <1>8, <1>9, <1>10, <1>11, <1>12 DEF Post

LEMMA CorrectTotals ==
    ASSUME Shape, Totals, NEW k \in Correctors, Correct(k) PROVE Totals'
<1>1. poster' = poster
    BY DEF Correct, CorrectRead, CorrectWrite, CorrectAborted
<1>2. ASSUME NEW l \in Lines, NEW count \in Counts, CorrectWrite(k, l, count)
      PROVE  header' \in [there : BOOLEAN, qty : Nat]
    <2> DEFINE diff == Minus(count, corrector[k].saw)
    <2>1. diff[1] \in Int
        <3>1. count \in Nat \X Nat /\ corrector[k].saw \in Nat \X Nat
            BY AnyCountIsPair DEF Shape, Correction, AnyCount
        <3> QED
            BY <3>1 DEF Minus
    <2>2. header' = header \/ header' = [there |-> header.there,
                                         qty |-> AtLeastZero(header.qty + diff[1])]
        BY <1>2 DEF CorrectWrite, TotalPlus
    <2> HIDE DEF diff
    <2>3. AtLeastZero(header.qty + diff[1]) \in Nat
        BY <2>1 DEF AtLeastZero, Totals
    <2> QED
        BY <2>2, <2>3 DEF Totals
<1>3. CASE ~ \E l \in Lines, count \in Counts : CorrectWrite(k, l, count)
    BY <1>3 DEF Correct, CorrectRead, CorrectAborted, stock, Totals
<1> QED
    BY <1>1, <1>2, <1>3 DEF Totals

LEMMA TotalsHold == Spec => []Totals
<1>1. Init => Totals
    BY NoPostingIsPosting DEF Init, Totals, NoHeader
<1>2. ASSUME IInv, Totals, [Next]_vars PROVE Totals'
    <2>1. ASSUME NEW c \in Counters, Count(c) PROVE Totals'
        BY <1>2, <2>1, CountEffect DEF Totals, IInv
    <2>2. CASE UNCHANGED vars
        BY <1>2, <2>2 DEF vars, Totals
    <2> QED
        BY <1>2, <2>1, <2>2, PostTotals, CorrectTotals DEF Next, IInv
<1> QED
    BY <1>1, <1>2, InvHolds, PTL DEF Spec

-----------------------------------------------------------------------------
(* The total and the register.  Until the batch is posted nothing of it is *)
(* in the register, and a poster whose total is not outdated announces     *)
(* what is waiting and takes every line of it, as it is.  Afterwards,      *)
(* unless the total was outdated, the register has the counts of the       *)
(* posted lines and the header their sum.                                  *)

UpToDate(p) ==
    /\ poster[p].qty = WaitingQty
    /\ poster[p].step = "moving" =>
           /\ Taken(p) = WaitingNonzero
           /\ \A l \in Taken(p) : poster[p].seen[l] = line[l].count

BeforePosted ==
    ~header.there =>
        /\ \A l \in Lines : ~line[l].posted /\ moved[l] = Nothing
        /\ \A p \in Posters :
               poster[p].step # "idle" /\ p \notin outdated => UpToDate(p)

Entered(l) == moved[l] = IF line[l].posted THEN line[l].count ELSE Nothing

AfterPosted ==
    header.there /\ outdated = {} =>
        (\A l \in Lines : Entered(l)) /\ header.qty = Received

Agreed == outdated \in SUBSET Posters /\ BeforePosted /\ AfterPosted

(* What is waiting, and what is in the register, as sums over the lines.   *)
LEMMA SumsOverLines ==
    ASSUME Shape
    PROVE  LET count == [l \in Lines |-> line[l].count[1]]
               pieces == [l \in Lines |-> moved[l][1]]
           IN  /\ WaitingQty = SumFunctionOnSet(count, WaitingNonzero)
               /\ Received = SumFunctionOnSet(pieces, Lines)
               /\ \A l \in Lines : count[l] \in Nat /\ pieces[l] \in Int
<1> DEFINE count == [l \in Lines |-> line[l].count[1]]
           pieces == [l \in Lines |-> moved[l][1]]
           waited == [l \in Waiting |-> line[l].count[1]]
           rest == Waiting \ WaitingNonzero
<1>1. \A l \in Lines : count[l] \in Nat /\ pieces[l] \in Int
    BY AnyCountIsPair DEF Shape, Line
<1>2. Received = SumFunctionOnSet(pieces, Lines)
    <2>1. DOMAIN pieces = Lines
        OBVIOUS
    <2> QED
        BY <2>1, Zenon DEF Received, SumFunction
<1>3. /\ WaitingNonzero \in SUBSET Lines /\ rest \in SUBSET Lines
      /\ WaitingNonzero \cap rest = {} /\ WaitingNonzero \cup rest = Waiting
    BY DEF WaitingNonzero, Waiting
<1>4. IsFiniteSet(WaitingNonzero) /\ IsFiniteSet(rest) /\ IsFiniteSet(Waiting)
    BY <1>3, LinesAreFinite, FS_Subset, FS_Union
<1>5. \A l \in Waiting : waited[l] = count[l]
    BY <1>3
<1>6. \A l \in rest : count[l] = 0
    <2> SUFFICES ASSUME NEW l \in rest PROVE count[l] = 0
        OBVIOUS
    <2>1. l \in Lines /\ l \in Waiting /\ l \notin WaitingNonzero
        BY <1>3
    <2>2. ~(line[l].count[1] > 0)
        BY <2>1 DEF WaitingNonzero
    <2>3. count[l] = line[l].count[1] /\ count[l] \in Nat
        BY <1>1, <2>1
    <2> QED
        BY <2>2, <2>3
<1>7. WaitingQty = SumFunctionOnSet(waited, Waiting)
    <2>1. DOMAIN waited = Waiting
        OBVIOUS
    <2> QED
        BY <2>1, Zenon DEF WaitingQty, SumFunction
<1>8. \A l \in WaitingNonzero \cup rest : count[l] \in Int
    BY <1>1, <1>3
<1> HIDE DEF count, pieces, waited, rest
<1>9. SumFunctionOnSet(waited, Waiting) = SumFunctionOnSet(count, Waiting)
    BY <1>4, <1>5, SumSame
<1>10. SumFunctionOnSet(count, Waiting)
          = SumFunctionOnSet(count, WaitingNonzero) + SumFunctionOnSet(count, rest)
    BY <1>3, <1>4, <1>8, SumUnion
<1>11. SumFunctionOnSet(count, rest) = 0
    BY <1>4, <1>6, SumZero
<1>12. SumFunctionOnSet(count, WaitingNonzero) \in Int
    BY <1>4, <1>8, SumInt
<1>13. WaitingQty = SumFunctionOnSet(count, WaitingNonzero)
    BY <1>7, <1>9, <1>10, <1>11, <1>12
<1> QED
    BY <1>1, <1>2, <1>13 DEF count, pieces

(* A step of one poster that leaves the lines and the register alone.      *)
LEMMA PosterAgreed ==
    ASSUME Agreed, NEW p \in Posters, UNCHANGED <<line, moved, header>>,
           \A q \in Posters : q # p => poster'[q] = poster[q],
           outdated' \in SUBSET Posters,
           \A q \in Posters : q # p => (q \in outdated' <=> q \in outdated),
           header.there => outdated' = outdated,
           ~header.there /\ poster'[p].step # "idle" /\ p \notin outdated' => UpToDate(p)'
    PROVE  Agreed'
<1>1. WaitingQty' = WaitingQty /\ WaitingNonzero' = WaitingNonzero /\ Received' = Received
    BY DEF WaitingQty, WaitingNonzero, Waiting, Received
<1>2. ASSUME NEW q \in Posters, q # p PROVE UpToDate(q)' <=> UpToDate(q)
    BY <1>1, <1>2 DEF UpToDate, Taken
<1>3. BeforePosted'
    BY <1>2 DEF Agreed, BeforePosted
<1>4. AfterPosted'
    BY <1>1 DEF Agreed, AfterPosted, Entered
<1> QED
    BY <1>3, <1>4 DEF Agreed

LEMMA PostAgreed ==
    ASSUME Shape, Agreed, NEW p \in Posters, Post(p), ~PostCommit(p) PROVE Agreed'
<1>1. /\ UNCHANGED <<line, moved, header>> /\ p \in DOMAIN poster
      /\ \A q \in Posters : q # p => poster'[q] = poster[q]
    BY PostWithoutCommit DEF PosterMoves, Shape
<1>2. WaitingQty' = WaitingQty /\ WaitingNonzero' = WaitingNonzero
    BY <1>1 DEF WaitingQty, WaitingNonzero, Waiting
<1>3. CASE PostAborted(p)
    BY <1>1, <1>3, PosterAgreed DEF PostAborted, NoPosting, Agreed
<1>4. ASSUME UNCHANGED outdated, p \notin outdated /\ ~header.there => UpToDate(p)'
      PROVE  Agreed'
    BY <1>1, <1>4, PosterAgreed DEF Agreed
<1>5. p \notin outdated /\ ~header.there /\ poster[p].step # "idle" => UpToDate(p)
    BY DEF Agreed, BeforePosted
<1>6. CASE PostBegin(p)
    BY <1>1, <1>2, <1>4, <1>6 DEF PostBegin, UpToDate
<1>7. CASE PostPick(p)
    BY <1>1, <1>2, <1>4, <1>5, <1>7 DEF PostPick, UpToDate
<1>8. CASE PostHeader(p)
    BY <1>1, <1>2, <1>4, <1>5, <1>8 DEF PostHeader, UpToDate
<1>9. CASE PostSelect(p)
    <2>1. /\ poster'[p].qty = poster[p].qty /\ Taken(p)' = WaitingNonzero
          /\ \A l \in Lines : poster'[p].seen[l] = line[l].count
        BY <1>1, <1>9 DEF PostSelect, Taken
    <2>2. WaitingNonzero \in SUBSET Lines
        BY DEF WaitingNonzero, Waiting
    <2>3. p \notin outdated /\ ~header.there => UpToDate(p)'
        BY <1>1, <1>2, <1>5, <1>9, <2>1, <2>2 DEF UpToDate, PostSelect
    <2> QED
        BY <1>4, <1>9, <2>3 DEF PostSelect
<1>10. ASSUME NEW l \in Lines, PostCost(p, l) PROVE Agreed'
    BY <1>1, <1>2, <1>4, <1>5, <1>10 DEF PostCost, UpToDate
<1>11. ASSUME NEW l \in Lines, PostMove(p, l) PROVE Agreed'
    <2>1. /\ poster'[p].qty = poster[p].qty /\ poster'[p].seen = poster[p].seen
          /\ Taken(p)' = Taken(p)
        BY <1>1, <1>11 DEF PostMove, Taken
    <2>2. p \notin outdated /\ ~header.there => UpToDate(p)'
        BY <1>1, <1>2, <1>5, <1>11, <2>1 DEF UpToDate, PostMove
    <2> QED
        BY <1>4, <1>11, <2>2 DEF PostMove
<1> QED
    BY <1>3, <1>6, <1>7, <1>8, <1>9, <1>10, <1>11 DEF Post

(* The commit: what the poster took is all that was waiting, so the header *)
(* has the sum of what enters the register.                                *)
LEMMA CommitAgreed ==
    ASSUME IInv, Agreed, NEW p \in Posters, PostCommit(p) PROVE Agreed'
<1>1. /\ Headed(p) /\ poster[p].step = "moving" /\ poster[p].todo = {}
      /\ header' = [there |-> TRUE, qty |-> poster[p].qty]
      /\ outdated' = outdated \cap {p}
    BY DEF PostCommit, Headed
<1>2. ~header.there /\ Shape /\ Shape'
    BY <1>1, CommitShape DEF IInv, OneHeader
<1>3. outdated' \in SUBSET Posters /\ BeforePosted'
    BY <1>1 DEF BeforePosted
<1>4. ASSUME outdated' = {} PROVE (\A l \in Lines : Entered(l)') /\ header'.qty = Received'
    <2> DEFINE done == poster[p].done
               count == [l \in Lines |-> line[l].count[1]]
               pieces == [l \in Lines |-> moved'[l][1]]
               rest == Lines \ done
    <2>1. UpToDate(p) /\ \A l \in Lines : ~line[l].posted /\ moved[l] = Nothing
        BY <1>1, <1>2, <1>4 DEF Agreed, BeforePosted
    <2>2. /\ done = WaitingNonzero /\ done \in SUBSET Lines
          /\ \A l \in done : poster[p].seen[l] = line[l].count
        BY <1>1, <2>1 DEF UpToDate, Taken, WaitingNonzero, Waiting
    <2>3. ASSUME NEW l \in done
          PROVE  moved'[l] = line[l].count /\ line'[l].posted /\ line'[l].count = line[l].count
        <3>1. /\ moved'[l] = Plus(Nothing, line[l].count)
              /\ line'[l].posted = TRUE /\ line'[l].count = line[l].count
            <4>1. l \in Lines /\ l \in poster[p].done
                BY <2>2
            <4>2. moved[l] = Nothing /\ poster[p].seen[l] = line[l].count
                BY <2>1, <2>2, <4>1
            <4> QED
                BY <1>2, <4>1, <4>2, CommitEffect
        <3>2. line[l].count \in Nat \X Nat
            BY <1>2, <2>2, AnyCountIsPair DEF Shape, Line
        <3>3. Plus(Nothing, line[l].count) = line[l].count
            BY <3>2 DEF Plus, Nothing
        <3> QED
            BY <3>1, <3>3
    <2>4. ASSUME NEW l \in rest PROVE moved'[l] = Nothing /\ ~line'[l].posted
        BY <1>2, <2>1, CommitEffect
    <2>5. \A l \in Lines : Entered(l)'
        BY <2>3, <2>4 DEF Entered
    <2>6. /\ poster[p].qty = SumFunctionOnSet(count, done)
          /\ Received' = SumFunctionOnSet(pieces, Lines)
          /\ \A l \in Lines : pieces[l] \in Int /\ count[l] \in Nat
        <3>1. /\ WaitingQty = SumFunctionOnSet(count, WaitingNonzero)
              /\ \A l \in Lines : count[l] \in Nat
            BY <1>2, SumsOverLines
        <3>2. DOMAIN pieces = Lines
            OBVIOUS
        <3>3. Received' = SumFunctionOnSet(pieces, Lines)
            BY <3>2, Zenon DEF Received, SumFunction
        <3>4. \A l \in Lines : pieces[l] \in Int
            BY <1>2 DEF Shape
        <3> QED
            BY <2>1, <2>2, <3>1, <3>3, <3>4 DEF UpToDate
    <2>7. \A l \in done : pieces[l] = count[l]
        BY <2>2, <2>3
    <2>8. \A l \in rest : pieces[l] = 0
        BY <2>4 DEF Nothing
    <2>9. /\ IsFiniteSet(done) /\ IsFiniteSet(rest)
          /\ done \cap rest = {} /\ done \cup rest = Lines
        BY <2>2, LinesAreFinite, FS_Subset
    <2> HIDE DEF done, count, pieces, rest
    <2>10. SumFunctionOnSet(pieces, Lines)
              = SumFunctionOnSet(pieces, done) + SumFunctionOnSet(pieces, rest)
        BY <2>6, <2>9, SumUnion
    <2>11. SumFunctionOnSet(pieces, done) = SumFunctionOnSet(count, done)
        BY <2>7, <2>9, SumSame
    <2>12. SumFunctionOnSet(pieces, rest) = 0
        BY <2>8, <2>9, SumZero
    <2>13. SumFunctionOnSet(count, done) \in Int
        BY <2>6, <2>9, SumInt
    <2> QED
        BY <1>1, <2>5, <2>6, <2>10, <2>11, <2>12, <2>13
<1> QED
    BY <1>3, <1>4 DEF Agreed, AfterPosted

(* A line changes while nothing of the batch is in the register: whoever   *)
(* is posting it is outdated from now on.                                  *)
LEMMA OvertakenAgreed ==
    ASSUME Agreed, ~header.there, ~header'.there, Overtakes, UNCHANGED <<moved, poster>>,
           \A l \in Lines : ~line'[l].posted
    PROVE  Agreed'
BY DEF Agreed, BeforePosted, AfterPosted, Overtakes

LEMMA CountAgreed ==
    ASSUME IInv, Agreed, NEW c \in Counters, Count(c) PROVE Agreed'
<1>1. /\ UNCHANGED <<header, moved, poster>>
      /\ \A l \in Lines : \/ line'[l] = line[l]
                          \/ line[l].status = "expected" /\ line'[l].posted = FALSE
    BY CountEffect DEF IInv
<1>2. CASE UNCHANGED <<line, outdated>>
    <2>1. WaitingQty' = WaitingQty /\ WaitingNonzero' = WaitingNonzero /\ Received' = Received
        BY <1>1, <1>2 DEF WaitingQty, WaitingNonzero, Waiting, Received
    <2>2. \A p \in Posters : UpToDate(p)' <=> UpToDate(p)
        BY <1>1, <1>2, <2>1 DEF UpToDate, Taken
    <2> QED
        BY <1>1, <1>2, <2>1, <2>2 DEF Agreed, BeforePosted, AfterPosted, Entered
<1>3. CASE Overtakes
    <2>1. ASSUME NEW l \in Lines PROVE line'[l] = line[l] \/ (~line[l].posted /\ ~line'[l].posted)
        BY <1>1 DEF IInv, PostedWereReceived, Shape, Line
    <2>2. CASE ~header.there
        <3>1. \A l \in Lines : ~line'[l].posted
            BY <2>1, <2>2 DEF Agreed, BeforePosted
        <3> QED
            BY <1>1, <1>3, <2>2, <3>1, OvertakenAgreed
    <2>3. CASE header.there
        <3>1. outdated' = outdated /\ Received' = Received
            BY <1>1, <1>3, <2>3 DEF Overtakes, Received
        <3>2. ASSUME NEW l \in Lines, Entered(l) PROVE Entered(l)'
            BY <1>1, <2>1, <3>2 DEF Entered
        <3> QED
            BY <1>1, <2>3, <3>1, <3>2 DEF Agreed, BeforePosted, AfterPosted
    <2> QED
        BY <2>2, <2>3
<1> QED
    BY <1>2, <1>3 DEF Count, CountRead, CountWrite, CountSaved, CountFailed

(* A correction of a posted line: the header follows by as many pieces as  *)
(* the register, and a sum of counts needs no floor.                       *)
LEMMA CorrectedTotal ==
    ASSUME IInv, Agreed, NEW k \in Correctors, NEW l \in Lines, NEW count \in Counts,
           CorrectWrite(k, l, count), header.there, outdated = {}
    PROVE  (\A m \in Lines : Entered(m)') /\ header'.qty = Received'
<1> DEFINE diff == Minus(count, line[l].count)
           pieces == [m \in Lines |-> moved[m][1]]
           after == [m \in Lines |-> moved'[m][1]]
           rest == Lines \ {l}
<1>1. Shape /\ Shape' /\ (\A m \in Lines : Entered(m)) /\ header.qty = Received
    BY CorrectShape DEF IInv, Agreed, AfterPosted, Correct
<1>2. corrector[k].saw = line[l].count /\ corrector[k].posted = line[l].posted
    BY DEF CorrectWrite, IInv, CorrectorHolds
<1>3. /\ \A m \in Lines : m # l => line'[m] = line[m] /\ moved'[m] = moved[m]
      /\ line'[l].count = count /\ line'[l].posted = line[l].posted
    BY <1>1 DEF CorrectWrite, Shape
<1>4. count \in Nat \X Nat /\ line[l].count \in Nat \X Nat
    BY <1>1, AnyCountIsPair DEF Shape, Line, AnyCount
<1>5. CASE ~line[l].posted
    <2>1. moved' = moved /\ header' = header
        BY <1>2, <1>5 DEF CorrectWrite
    <2>2. Received' = Received
        BY <2>1 DEF Received
    <2>3. \A m \in Lines : Entered(m)'
        BY <1>1, <1>3, <1>5, <2>1 DEF Entered
    <2> QED
        BY <1>1, <2>1, <2>2, <2>3
<1>6. CASE line[l].posted
    <2>1. moved'[l] = Plus(line[l].count, diff) /\ header' = TotalPlus(diff)
        BY <1>1, <1>2, <1>6 DEF CorrectWrite, Entered, Shape
    <2>2. moved'[l] = count /\ moved[l] = line[l].count
        BY <1>1, <1>4, <1>6, <2>1 DEF Plus, Minus, Entered
    <2>3. \A m \in Lines : Entered(m)'
        BY <1>1, <1>3, <1>6, <2>2 DEF Entered
    <2>4. header'.qty = AtLeastZero(Received + (count[1] - line[l].count[1]))
        BY <1>1, <2>1 DEF TotalPlus, Minus
    <2>5. /\ Received = SumFunctionOnSet(pieces, Lines)
          /\ Received' = SumFunctionOnSet(after, Lines)
          /\ \A m \in Lines : pieces[m] \in Int /\ after[m] \in Nat
        <3>1. /\ Received = SumFunctionOnSet(pieces, Lines)
              /\ \A m \in Lines : pieces[m] \in Int
            BY <1>1, SumsOverLines
        <3>2. DOMAIN after = Lines
            OBVIOUS
        <3>3. Received' = SumFunctionOnSet(after, Lines)
            BY <3>2, Zenon DEF Received, SumFunction
        <3>4. \A m \in Lines : moved'[m] = line'[m].count \/ moved'[m] = Nothing
            BY <2>3 DEF Entered
        <3>5. \A m \in Lines : line'[m].count \in Nat \X Nat
            BY <1>1, AnyCountIsPair DEF Shape, Line
        <3>6. \A m \in Lines : after[m] \in Nat
            BY <3>4, <3>5 DEF Nothing
        <3> QED
            BY <3>1, <3>3, <3>6
    <2>6. /\ pieces[l] = line[l].count[1] /\ after[l] = count[1]
          /\ \A m \in rest : after[m] = pieces[m]
        BY <1>3, <2>2
    <2>7. IsFiniteSet(rest) /\ IsFiniteSet(Lines)
        BY LinesAreFinite, FS_Subset
    <2>8. count[1] \in Int /\ line[l].count[1] \in Int
        BY <1>4
    <2> HIDE DEF pieces, after
    <2>9. /\ Received = line[l].count[1] + SumFunctionOnSet(pieces, rest)
          /\ Received' = count[1] + SumFunctionOnSet(after, rest)
        BY <2>5, <2>6, <2>7, SumRemove
    <2>10. SumFunctionOnSet(after, rest) = SumFunctionOnSet(pieces, rest)
        BY <2>6, <2>7, SumSame
    <2>11. SumFunctionOnSet(pieces, rest) \in Int /\ Received' \in Nat
        BY <2>5, <2>7, SumInt, SumNat
    <2>12. Received + (count[1] - line[l].count[1]) = Received'
        BY <2>8, <2>9, <2>10, <2>11
    <2>13. AtLeastZero(Received') = Received'
        BY <2>11 DEF AtLeastZero
    <2> QED
        BY <2>3, <2>4, <2>12, <2>13
<1> QED
    BY <1>5, <1>6

LEMMA CorrectAgreed ==
    ASSUME IInv, Agreed, NEW k \in Correctors, Correct(k) PROVE Agreed'
<1>1. /\ UNCHANGED poster /\ header'.there = header.there
      /\ \A l \in Lines : line'[l].posted = line[l].posted
    BY CorrectEffect DEF IInv
<1>2. ASSUME NEW l \in Lines, NEW count \in Counts, CorrectWrite(k, l, count)
      PROVE  Agreed'
    <2>1. Overtakes
        BY <1>2 DEF CorrectWrite
    <2>2. CASE ~header.there
        <3>1. ~line[l].posted /\ \A m \in Lines : ~line'[m].posted
            BY <1>1, <2>2 DEF Agreed, BeforePosted
        <3>2. ~corrector[k].posted
            BY <1>2, <3>1 DEF CorrectWrite, IInv, CorrectorHolds
        <3>3. UNCHANGED moved
            BY <1>2, <3>2 DEF CorrectWrite
        <3> QED
            BY <1>1, <2>1, <2>2, <3>1, <3>3, OvertakenAgreed
    <2>3. CASE header.there
        BY <1>1, <1>2, <2>1, <2>3, CorrectedTotal
           DEF Overtakes, Agreed, BeforePosted, AfterPosted
    <2> QED
        BY <2>2, <2>3
<1>3. CASE UNCHANGED <<line, header, moved, outdated>>
    <2>1. WaitingQty' = WaitingQty /\ WaitingNonzero' = WaitingNonzero /\ Received' = Received
        BY <1>3 DEF WaitingQty, WaitingNonzero, Waiting, Received
    <2>2. \A p \in Posters : UpToDate(p)' <=> UpToDate(p)
        BY <1>1, <1>3, <2>1 DEF UpToDate, Taken
    <2> QED
        BY <1>1, <1>3, <2>1, <2>2 DEF Agreed, BeforePosted, AfterPosted, Entered
<1> QED
    BY <1>2, <1>3 DEF Correct, CorrectRead, CorrectAborted, stock

LEMMA AgreedHolds == Spec => []Agreed
<1>1. Init => Agreed
    <2> SUFFICES ASSUME Init PROVE Agreed
        OBVIOUS
    <2>1. outdated = {} /\ ~header.there
        BY DEF Init, NoHeader
    <2>2. \A l \in Lines : ~line[l].posted /\ moved[l] = Nothing
        BY DEF Init, Zeros
    <2>3. \A p \in Posters : poster[p].step = "idle"
        BY DEF Init, NoPosting
    <2> QED
        BY <2>1, <2>2, <2>3 DEF Agreed, BeforePosted, AfterPosted
<1>2. ASSUME IInv, Agreed, [Next]_vars PROVE Agreed'
    <2>1. CASE UNCHANGED vars
        <3>1. UNCHANGED <<line, header, moved, poster, outdated>>
            BY <2>1 DEF vars
        <3>2. WaitingQty' = WaitingQty /\ WaitingNonzero' = WaitingNonzero /\ Received' = Received
            BY <3>1 DEF WaitingQty, WaitingNonzero, Waiting, Received
        <3>3. \A p \in Posters : UpToDate(p)' <=> UpToDate(p)
            BY <3>1, <3>2 DEF UpToDate, Taken
        <3>4. BeforePosted'
            BY <1>2, <3>1, <3>3 DEF Agreed, BeforePosted
        <3>5. AfterPosted'
            BY <1>2, <3>1, <3>2 DEF Agreed, AfterPosted, Entered
        <3> QED
            BY <1>2, <3>1, <3>4, <3>5 DEF Agreed
    <2> QED
        BY <1>2, <2>1, CountAgreed, PostAgreed, CommitAgreed, CorrectAgreed DEF Next, IInv
<1> QED
    BY <1>1, <1>2, InvHolds, PTL DEF Spec

(* The total of a posted batch is what the register received of it, through*)
(* any number of corrections, unless a count or a correction came between  *)
(* the sum post_receipt_batch starts with and its commit.                  *)
THEOREM TotalCorrect == Spec => []TotalIsRegister
<1>1. Agreed => TotalIsRegister
    BY DEF Agreed, AfterPosted, TotalIsRegister
<1> QED
    BY <1>1, AgreedHolds, PTL

-----------------------------------------------------------------------------
(* Whatever is counted, posted and corrected at once, every record of a    *)
(* batch keeps its shape; in particular the batch's total is never         *)
(* negative.                                                               *)
THEOREM TypeCorrect == Spec => []TypeOK
<1>1. IInv /\ Totals /\ Agreed => TypeOK
    BY DEF IInv, Shape, Totals, Agreed, TypeOK
<1> QED
    BY <1>1, InvHolds, TotalsHold, AgreedHolds, PTL
=============================================================================
