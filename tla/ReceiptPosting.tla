--------------------------- MODULE ReceiptPosting ---------------------------
(***************************************************************************)
(* One batch of goods received: counted, posted to stock, corrected.       *)
(*                                                                         *)
(* Three kinds of actors touch the lines of the batch (purchase_receipts): *)
(*   counters    PATCH /warehouse/receipts, one UPDATE per line;           *)
(*   posters     post_receipt_batch, one transaction of many statements,   *)
(*               each of which sees what is committed when it starts;      *)
(*   correctors  correct_receipt_batch, which locks the line it corrects.  *)
(* A row lock taken by an UPDATE or a FOR UPDATE lasts to the end of the   *)
(* transaction; others that want to write the row wait for it.             *)
(*                                                                         *)
(* Left out: prices (StockCost), the warehouse, and other postings of the  *)
(* same sizes (StockPosting).                                              *)
(***************************************************************************)
EXTENDS Integers, FiniteSets, FiniteSetsExt

CONSTANTS
    Lines, Counters, Posters, Correctors,
    NoOne,      \* nobody locks the row
    Counts      \* the counts people enter: <<received, defective>>

ASSUME CountsArePossible ==
    \A n \in Counts : n \in Nat \X Nat /\ n[2] <= n[1]
ASSUME NoOneIsNobody == NoOne \notin Posters \cup Correctors
ASSUME LinesAreFinite == IsFiniteSet(Lines)
ASSUME DifferentActors == Posters \cap Correctors = {}

VARIABLES
    line,       \* purchase_receipts rows of the batch
    header,     \* the row of stock_batches: is it there, and its total_qty
    moved,      \* register: what committed moves of the line add up to
    receipts,   \* how many times the line entered the register
    rowLock,    \* who holds the row lock of a line
    counter, poster, corrector,
    outdated    \* ghost: posters whose total is older than some line; once the
                \* batch is posted, the one who posted it or nobody

vars == <<line, header, moved, receipts, rowLock, counter, poster, corrector, outdated>>
stock == <<header, moved, receipts>>

Nothing == <<0, 0>>
NoHeader == [there |-> FALSE, qty |-> 0]
Plus(a, b) == <<a[1] + b[1], a[2] + b[2]>>
Minus(a, b) == <<a[1] - b[1], a[2] - b[2]>>

Zeros == [l \in Lines |-> Nothing]
NoCount == [step |-> "idle", counts |-> Zeros, lines |-> {}, todo |-> {}, wrote |-> {}]
NoPosting == [step |-> "idle", qty |-> 0, todo |-> {}, costed |-> {}, seen |-> Zeros, done |-> {}]
NoCorrection == [step |-> "idle", lines |-> {}, saw |-> Nothing, posted |-> FALSE]

(* A batch not counted at all, or counted and not posted.                  *)
Init ==
    /\ line \in [Lines -> [status : {"received"}, count : Counts, posted : {FALSE}]]
           \cup [Lines -> [status : {"expected"}, count : {Nothing}, posted : {FALSE}]]
    /\ header = NoHeader
    /\ moved = Zeros
    /\ receipts = [l \in Lines |-> 0]
    /\ rowLock = [l \in Lines |-> NoOne]
    /\ counter = [c \in Counters |-> NoCount]
    /\ poster = [p \in Posters |-> NoPosting]
    /\ corrector = [k \in Correctors |-> NoCorrection]
    /\ outdated = {}

-----------------------------------------------------------------------------
(* Row locks.                                                              *)
CanLock(a, l) == rowLock[l] \in {a, NoOne}
Lock(a, l) == rowLock' = [rowLock EXCEPT ![l] = a]
Unlock(a) == rowLock' = [l \in Lines |-> IF rowLock[l] = a THEN NoOne ELSE rowLock[l]]

(* Counting: the handler reads the lines, then updates those still         *)
(* expected one by one; a count somebody else saved first stays.           *)
CountRead(c, counts) ==
    LET waiting == {l \in Lines : line[l].status = "expected"} IN
    /\ counter[c].step = "idle"
    /\ counter' = [counter EXCEPT ![c] =
           [step |-> IF waiting = {} THEN "refused" ELSE "writing",
            counts |-> counts, lines |-> waiting, todo |-> waiting, wrote |-> {}]]
    /\ UNCHANGED <<line, stock, outdated, rowLock, poster, corrector>>

Matched(l) == line[l].status = "expected"

(* A line changes: the totals that were summed before are old.             *)
Overtakes ==
    outdated' = IF header.there THEN outdated
                                ELSE {p \in Posters : poster[p].step # "idle"}

CountWrite(c, l) ==
    /\ counter[c].step = "writing" /\ l \in counter[c].todo
    /\ rowLock[l] = NoOne
    /\ line' = IF Matched(l)
                  THEN [line EXCEPT ![l] = [status |-> "received", posted |-> FALSE,
                                            count |-> counter[c].counts[l]]]
                  ELSE line
    /\ IF Matched(l) THEN Overtakes ELSE UNCHANGED outdated
    /\ counter' = [counter EXCEPT ![c] =
           [step |-> "writing", counts |-> @.counts, lines |-> @.lines,
            todo |-> @.todo \ {l}, wrote |-> @.wrote \cup (IF Matched(l) THEN {l} ELSE {})]]
    /\ UNCHANGED <<stock, rowLock, poster, corrector>>

CounterTo(c, step) ==
    counter' = [counter EXCEPT ![c] =
        [step |-> step, counts |-> @.counts, lines |-> @.lines, todo |-> @.todo,
         wrote |-> @.wrote]]

(* "saved: N" is the number of lines it set out to write.                  *)
CountSaved(c) ==
    /\ counter[c].step = "writing" /\ counter[c].todo = {}
    /\ CounterTo(c, "saved")
    /\ UNCHANGED <<line, stock, outdated, rowLock, poster, corrector>>

(* An UPDATE failed or the handler died: what was written stays.           *)
CountFailed(c) ==
    /\ counter[c].step = "writing"
    /\ CounterTo(c, "failed")
    /\ UNCHANGED <<line, stock, outdated, rowLock, poster, corrector>>

-----------------------------------------------------------------------------
(* Posting.  Lines received and not yet posted, as committed right now.    *)
Waiting == {l \in Lines : line[l].status = "received" /\ ~line[l].posted}
WaitingNonzero == {l \in Waiting : line[l].count[1] > 0}
WaitingQty == SumFunction([l \in Waiting |-> line[l].count[1]])

PostBegin(p) ==
    /\ poster[p].step = "idle"
    /\ WaitingQty > 0
    /\ poster' = [poster EXCEPT ![p] =
           [step |-> "totalled", qty |-> WaitingQty, todo |-> {}, costed |-> {}, seen |-> @.seen,
            done |-> {}]]
    /\ UNCHANGED <<line, stock, outdated, rowLock, counter, corrector>>

(* The cost loop: its SELECT, then an UPDATE of unit_cost per line.        *)
PostPick(p) ==
    /\ poster[p].step = "totalled"
    /\ poster' = [poster EXCEPT ![p] =
           [step |-> "costing", qty |-> @.qty, todo |-> WaitingNonzero, costed |-> {},
            seen |-> @.seen, done |-> {}]]
    /\ UNCHANGED <<line, stock, outdated, rowLock, counter, corrector>>

(* Mutant: the cost kept in a variable, the row neither written nor locked.*)
LockNothing(p, l) == UNCHANGED rowLock
LockCosted(p, l) == CanLock(p, l) /\ Lock(p, l)

PostCost(p, l) ==
    /\ poster[p].step = "costing" /\ l \in poster[p].todo
    /\ LockCosted(p, l)
    /\ poster' = [poster EXCEPT ![p] =
           [step |-> "costing", qty |-> @.qty, todo |-> @.todo \ {l}, costed |-> @.costed \cup {l},
            seen |-> @.seen, done |-> {}]]
    /\ UNCHANGED <<line, stock, outdated, counter, corrector>>

(* INSERT INTO stock_batches: receipt_batch_id is unique, so it waits for  *)
(* a poster that inserted and fails after one that committed.              *)
Headed(p) == poster[p].step \in {"headed", "moving"}

(* Mutant: ON CONFLICT DO NOTHING.                                         *)
PostHeaderUpsert(p) ==
    /\ poster[p].step = "costing" /\ poster[p].todo = {}
    /\ poster' = [poster EXCEPT ![p] =
           [step |-> "headed", qty |-> @.qty, todo |-> {}, costed |-> @.costed, seen |-> @.seen,
            done |-> {}]]
    /\ UNCHANGED <<line, stock, outdated, rowLock, counter, corrector>>

PostHeader(p) ==
    /\ poster[p].step = "costing" /\ poster[p].todo = {}
    /\ ~header.there
    /\ \A q \in Posters : ~Headed(q)
    /\ poster' = [poster EXCEPT ![p] =
           [step |-> "headed", qty |-> @.qty, todo |-> {}, costed |-> @.costed, seen |-> @.seen,
            done |-> {}]]
    /\ UNCHANGED <<line, stock, outdated, rowLock, counter, corrector>>

(* The move loop reads the lines again and inserts what it read.           *)
PostSelect(p) ==
    /\ poster[p].step = "headed"
    /\ poster' = [poster EXCEPT ![p] =
           [step |-> "moving", qty |-> @.qty, todo |-> WaitingNonzero, costed |-> @.costed,
            seen |-> [l \in Lines |-> line[l].count], done |-> {}]]
    /\ UNCHANGED <<line, stock, outdated, rowLock, counter, corrector>>

PostMove(p, l) ==
    /\ poster[p].step = "moving" /\ l \in poster[p].todo
    /\ CanLock(p, l) /\ Lock(p, l)
    /\ poster' = [poster EXCEPT ![p] =
           [step |-> "moving", qty |-> @.qty, todo |-> @.todo \ {l}, costed |-> @.costed,
            seen |-> @.seen, done |-> @.done \cup {l}]]
    /\ UNCHANGED <<line, stock, outdated, counter, corrector>>

MarkPosted(done) ==
    line' = [l \in Lines |->
                IF l \in done THEN [status |-> line[l].status, count |-> line[l].count,
                                    posted |-> TRUE]
                              ELSE line[l]]

PostCommit(p) ==
    LET done == poster[p].done IN
    /\ poster[p].step = "moving" /\ poster[p].todo = {}
    /\ MarkPosted(done)
    /\ moved' = [l \in Lines |-> IF l \in done THEN Plus(moved[l], poster[p].seen[l])
                                               ELSE moved[l]]
    /\ receipts' = [l \in Lines |-> IF l \in done THEN receipts[l] + 1 ELSE receipts[l]]
    /\ header' = [there |-> TRUE, qty |-> poster[p].qty]
    /\ Unlock(p)
    /\ poster' = [poster EXCEPT ![p] = NoPosting]
    /\ outdated' = outdated \cap {p}
    /\ UNCHANGED <<counter, corrector>>

PostAborted(p) ==
    /\ poster[p].step # "idle"
    /\ Unlock(p)
    /\ poster' = [poster EXCEPT ![p] = NoPosting]
    /\ outdated' = IF header.there THEN outdated ELSE outdated \ {p}
    /\ UNCHANGED <<line, stock, counter, corrector>>

-----------------------------------------------------------------------------
(* Correcting a line: SELECT ... FOR UPDATE, then the difference to the    *)
(* register if the line is posted, and the new count to the line.          *)
(* Mutant: no FOR UPDATE.                                                  *)
ReadOnly(k, l) == UNCHANGED rowLock
ForUpdate(k, l) == CanLock(k, l) /\ Lock(k, l)

CorrectRead(k, l) ==
    /\ corrector[k].step = "idle"
    /\ line[l].status = "received"
    /\ ForUpdate(k, l)
    /\ corrector' = [corrector EXCEPT ![k] =
           [step |-> "locked", lines |-> {l}, saw |-> line[l].count,
            posted |-> line[l].posted]]
    /\ UNCHANGED <<line, stock, outdated, counter, poster>>

(* A correction that takes more than the line has in stock is refused.     *)
Net(n) == n[1] - n[2]
(* Mutant: the total not floored at zero.                                  *)
NoFloor(n) == n
AtLeastZero(n) == IF n > 0 THEN n ELSE 0

(* The batch's total follows what its lines are corrected by.              *)
(* Mutant: the pieces that can be sold.                                    *)
TotalPlusSound(diff) == [there |-> header.there, qty |-> AtLeastZero(header.qty + Net(diff))]
TotalPlus(diff) == [there |-> header.there, qty |-> AtLeastZero(header.qty + diff[1])]

CorrectWrite(k, l, count) ==
    LET diff == Minus(count, corrector[k].saw) IN
    /\ corrector[k].step = "locked" /\ l \in corrector[k].lines
    /\ CanLock(k, l)
    /\ diff # Nothing
    /\ IF corrector[k].posted
          THEN /\ Net(diff) < 0 => Net(moved[l]) + Net(diff) >= 0
               /\ moved' = [moved EXCEPT ![l] = Plus(@, diff)]
               /\ header' = TotalPlus(diff)
          ELSE UNCHANGED <<moved, header>>
    /\ line' = [line EXCEPT ![l] =
           [status |-> @.status, count |-> count, posted |-> @.posted]]
    /\ Unlock(k)
    /\ Overtakes
    /\ corrector' = [corrector EXCEPT ![k] = NoCorrection]
    /\ UNCHANGED <<receipts, counter, poster>>

CorrectAborted(k) ==
    /\ corrector[k].step # "idle"
    /\ Unlock(k)
    /\ corrector' = [corrector EXCEPT ![k] = NoCorrection]
    /\ UNCHANGED <<line, stock, outdated, counter, poster>>

-----------------------------------------------------------------------------
Count(c) ==
    \/ \E counts \in [Lines -> Counts] : CountRead(c, counts)
    \/ \E l \in Lines : CountWrite(c, l)
    \/ CountSaved(c) \/ CountFailed(c)

Post(p) ==
    \/ PostBegin(p) \/ PostPick(p) \/ PostHeader(p) \/ PostSelect(p)
    \/ \E l \in Lines : PostCost(p, l) \/ PostMove(p, l)
    \/ PostCommit(p) \/ PostAborted(p)

Correct(k) ==
    \/ \E l \in Lines : CorrectRead(k, l)
    \/ \E l \in Lines, count \in Counts : CorrectWrite(k, l, count)
    \/ CorrectAborted(k)

Next ==
    \/ \E c \in Counters : Count(c)
    \/ \E p \in Posters : Post(p)
    \/ \E k \in Correctors : Correct(k)

Spec == Init /\ [][Next]_vars

-----------------------------------------------------------------------------
AnyCount == Counts \cup {Nothing}
Line == [status : {"expected", "received"}, count : AnyCount, posted : BOOLEAN]
Counting == [step : {"idle", "refused", "writing", "saved", "failed"},
             counts : [Lines -> AnyCount], lines : SUBSET Lines, todo : SUBSET Lines, wrote : SUBSET Lines]
Posting == [step : {"idle", "totalled", "costing", "headed", "moving"}, qty : Nat,
            todo : SUBSET Lines, costed : SUBSET Lines, seen : [Lines -> AnyCount], done : SUBSET Lines]
Correction == [step : {"idle", "locked"}, lines : SUBSET Lines, saw : AnyCount,
               posted : BOOLEAN]

TypeOK ==
    /\ line \in [Lines -> Line]
    /\ header \in [there : BOOLEAN, qty : Nat]
    /\ moved \in [Lines -> Int \X Int]
    /\ receipts \in [Lines -> Nat]
    /\ rowLock \in [Lines -> Posters \cup Correctors \cup {NoOne}]
    /\ counter \in [Counters -> Counting]
    /\ poster \in [Posters -> Posting]
    /\ corrector \in [Correctors -> Correction]
    /\ outdated \in SUBSET Posters

(* post_receipt_batch is idempotent: however often and however many at a   *)
(* time it is called, a line enters the register at most once.             *)
PostedOnce == \A l \in Lines : receipts[l] <= 1

(* How far the register is from what the line says was received.           *)
Drift(l) == Minus(moved[l], line[l].count)

(* Corrections of a posted line keep the register and the line in step:    *)
(* racing corrections never lose each other's difference.                  *)
DriftFixed == [][\A l \in Lines : line[l].posted => Drift(l)' = Drift(l)]_vars

(* What a posting is about to enter for a line it has costed is the newest *)
(* count of the line, however long ago it read the line.                   *)
PostsNewestCount ==
    \A p \in Posters :
        poster[p].step = "moving" =>
            \A l \in poster[p].costed : poster[p].seen[l] = line[l].count

(* The total of a batch "has to agree with the register" after every       *)
(* correction (correct_receipt_batch).  It is summed before the lines are  *)
(* read and entered: it agrees unless a count or a correction of the batch *)
(* came in between.                                                        *)
Received == SumFunction([l \in Lines |-> moved[l][1]])
TotalIsRegister == header.there /\ outdated = {} => header.qty = Received
=============================================================================
