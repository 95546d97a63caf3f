---------------------------- MODULE StockPosting ----------------------------
(***************************************************************************)
(* The posting functions of the warehouse, as concurrent transactions.     *)
(*                                                                         *)
(* Every function is one PostgreSQL transaction at READ COMMITTED.  Its    *)
(* reads (availability, history, "already reversed") are one step, its     *)
(* INSERTs, where the triggers and the unique index fire, another, and its *)
(* COMMIT a third: between them other transactions commit.  A function     *)
(* that raises leaves nothing behind, so raising is not doing the step.    *)
(*                                                                         *)
(* Code: post_shipment, post_transfer, post_return, post_writeoff,         *)
(* post_opening_balance, post_fbs_sales, post_doc_reversal, the closing of *)
(* a period and the archiving of a warehouse.  Receipts are ReceiptPosting,*)
(* shipment tasks ShipmentTasks.  A line's money is left out here.         *)
(***************************************************************************)
EXTENDS StockRegister

CONSTANTS
    Sessions,     \* database sessions running posting functions
    NoSession,    \* nobody holds the advisory lock
    SaleDay,      \* the day the marketplace dates each sale with
    Operations,   \* bound: what an instance of this module does
    MaxQty,       \* bound: pieces in one line
    MaxCalls      \* bound: posting functions ever called

ASSUME NoSessionIsNoSession == NoSession \notin Sessions
ASSUME SaleDayIsADay == SaleDay \in [Sales -> Days]
ASSUME BoundsAreNat == MaxQty \in Nat /\ MaxCalls \in Nat

VARIABLES
    register,   \* committed entries of stock_moves
    txn,        \* the transaction each session is in
    calls,      \* calls so far; also the source of gen_random_uuid()
    entityLock, \* holder of the advisory lock on the legal entity
    closed,     \* legal_entities.period_closed_through
    archived,   \* warehouses with is_active = false
    emptied     \* warehouses an archiving request found without stock

(* History, for the properties only.                                       *)
VARIABLES
    outdated,   \* sessions whose cells were drawn on since their check
    overtaken   \* sessions opening the stock after which another document came

vars == <<register, txn, calls, entityLock, closed, archived, emptied, outdated,
          overtaken>>
settings == <<closed, archived, emptied>>
history == <<outdated, overtaken>>

Steps == {"idle", "checked", "inserted"}
Idle == [step |-> "idle", entries |-> {}]

Init ==
    /\ register = {}
    /\ txn = [s \in Sessions |-> Idle]
    /\ calls = 0
    /\ entityLock = NoSession
    /\ closed = 0
    /\ archived = {}
    /\ emptied = {}
    /\ outdated = {}
    /\ overtaken = {}

-----------------------------------------------------------------------------
(* Checks.  A function that passed them has prepared its entries.          *)

EntryOf(doc, cab, type, day, src, delta) ==
    [call |-> calls, doc |-> doc, cab |-> cab, type |-> type, day |-> day,
     reverses |-> src, delta |-> delta]

Prepare(s, type, entries) ==
    /\ type \in Operations
    /\ txn[s].step = "idle"
    /\ calls < MaxCalls
    /\ calls' = calls + 1
    /\ txn' = [txn EXCEPT ![s] = [step |-> "checked", entries |-> entries]]
    /\ UNCHANGED <<register, settings, history>>

Active(w) == w \notin archived
(* Mutant: the stock of all warehouses together.                           *)
AvailableAnywhere(w, v) ==
    SumFunction([any \in Warehouses |-> Balance(register, <<any, v>>)])

Available(w, v) == Balance(register, <<w, v>>)
Total(qtys) == SumFunction(qtys)

(* post_shipment: lines of several cabinets are checked by their sum.      *)
(* Mutant: each line is checked by itself.                                 *)
EnoughForEachLine(w, v, qtys) ==
    \A cab \in Cabinets : Available(w, v) >= qtys[cab]

EnoughForAll(w, v, qtys) == Available(w, v) >= Total(qtys)

Shipment(s, w, v, qtys) ==
    LET shipped == {cab \in Cabinets : qtys[cab] > 0} IN
    /\ Active(w)
    /\ shipped # {}
    /\ EnoughForAll(w, v, qtys)
    /\ Prepare(s, "shipment",
           {EntryOf(calls, cab, "shipment", Today, NoDoc,
                    At(<<w, v>>, -qtys[cab])) : cab \in shipped})
    /\ UNCHANGED entityLock

(* post_transfer: minus at the source and plus at the target, one document;*)
(* only the target has to be active.                                       *)
Transfer(s, from, to, v, qty) ==
    /\ from # to
    /\ Active(to)
    /\ Available(from, v) >= qty
    /\ Prepare(s, "transfer",
           {EntryOf(calls, NoCabinet, "transfer", Today, NoDoc,
                    Plus(At(<<from, v>>, -qty), At(<<to, v>>, qty)))})
    /\ UNCHANGED entityLock

(* post_return: the defective part of a return is written off at once.     *)
Return(s, w, v, cab, qty, defect) ==
    /\ Active(w)
    /\ defect <= qty
    /\ Prepare(s, "return",
           {EntryOf(calls, cab, "return", Today, NoDoc,
                    At(<<w, v>>, qty - defect))})
    /\ UNCHANGED entityLock

(* Write-offs and opening balances may be dated back, and 24 hours ahead.  *)
(* Mutant: the guard dropped.                                              *)
AnyDate(day) == TRUE
NotAhead(day) == day <= Today + 1

(* post_writeoff.                                                          *)
Writeoff(s, w, v, qty, day) ==
    /\ Active(w)
    /\ NotAhead(day)
    /\ Available(w, v) >= qty
    /\ Prepare(s, "writeoff",
           {EntryOf(calls, NoCabinet, "writeoff", day, NoDoc, At(<<w, v>>, -qty))})
    /\ UNCHANGED entityLock

(* post_opening_balance: under an advisory lock on the legal entity, whose *)
(* register must be empty.                                                 *)
(* Mutants: no lock; only an earlier opening balance refused.              *)
NoEntityLock(s) == UNCHANGED entityLock
TakeEntityLock(s) == entityLock = NoSession /\ entityLock' = s

NoOpeningYet == ~\E e \in register : e.type = "opening_balance"
NoHistory == register = {}

Opening(s, w, v, qty, day) ==
    /\ txn[s].step = "idle"
    /\ TakeEntityLock(s)
    /\ Active(w)
    /\ NotAhead(day)
    /\ NoHistory
    /\ Prepare(s, "opening_balance",
           {EntryOf(calls, NoCabinet, "opening_balance", day, NoDoc,
                    At(<<w, v>>, qty))})

(* post_fbs_sales: writes each sale not written before, into the negative  *)
(* if need be, and into an archived warehouse too.                         *)
FbsSales(s, w, v, cab, batch) ==
    LET fresh == {sale \in batch : ~SaleTaken(register, sale)} IN
    /\ fresh # {}
    /\ Prepare(s, "fbs_sale",
           {EntryOf(sale, cab, "fbs_sale", SaleDay[sale], NoDoc, At(<<w, v>>, -1))
                : sale \in fresh})
    /\ UNCHANGED entityLock

(* post_doc_reversal of a document's part of a cabinet; p_cabinet_id null  *)
(* stands for the whole document.  It checks neither stock nor archive.    *)
InPart(e, cab) == cab = NoCabinet \/ e.cab = cab

(* The look-up also knows reversals from before documents had numbers, by  *)
(* the note; nothing writes such entries any more, and there are none here.*)
(* Mutant: the reversal is looked up by its own number.                    *)
ReversalNumbered(doc, cab) ==
    \E e \in register : e.type = "reversal" /\ e.doc = doc /\ InPart(e, cab)

AlreadyReversed(doc, cab) ==
    \E e \in register : e.type = "reversal" /\ e.reverses = doc /\ InPart(e, cab)

Reversal(s, doc, cab) ==
    LET lines == {e \in register : e.doc = doc /\ InPart(e, cab)} IN
    /\ ~AlreadyReversed(doc, cab)
    /\ lines # {}
    /\ Prepare(s, "reversal",
           {EntryOf(calls, e.cab, "reversal", Today, doc, Negated(e.delta))
                : e \in lines})
    /\ UNCHANGED entityLock

-----------------------------------------------------------------------------
(* The INSERTs: the period trigger, and for sales the unique index, which  *)
(* waits for a transaction that inserted the same sale and refuses one     *)
(* that is committed.                                                      *)
Inserting(sale) == \E s \in Sessions : /\ txn[s].step = "inserted"
                                       /\ SaleTaken(txn[s].entries, sale)
(* Mutant: an ordinary index.                                              *)
NotUnique(e) == TRUE
SaleFree(e) ==
    e.type = "fbs_sale" => ~SaleTaken(register, e.doc) /\ ~Inserting(e.doc)

Insert(s) ==
    /\ txn[s].step = "checked"
    /\ PeriodOpen(closed, txn[s].entries)
    /\ \A e \in txn[s].entries : SaleFree(e)
    /\ txn' = [txn EXCEPT ![s] = [step |-> "inserted", entries |-> @.entries]]
    /\ UNCHANGED <<register, calls, entityLock, settings, history>>

(* The locks of a transaction go when it ends.                             *)
DropLock(s) == entityLock' = IF entityLock = s THEN NoSession ELSE entityLock

DrawnOn(entries) == {c \in Cells : \E e \in entries : e.delta[c] < 0}
Opens(entries) == \E e \in entries : e.type = "opening_balance"

Commit(s) ==
    /\ txn[s].step = "inserted"
    /\ register' = register \cup txn[s].entries
    /\ txn' = [txn EXCEPT ![s] = Idle]
    /\ DropLock(s)
    /\ outdated' = (outdated \ {s}) \cup
           {t \in Sessions \ {s} :
                DrawnOn(txn[t].entries) \cap DrawnOn(txn[s].entries) # {}}
    /\ overtaken' = (overtaken \ {s}) \cup
           {t \in Sessions \ {s} : Opens(txn[t].entries) /\ ~Opens(txn[s].entries)}
    /\ UNCHANGED <<calls, settings>>

(* A raise, a lost connection or a database restart before the COMMIT.     *)
Abort(s) ==
    /\ txn[s].step # "idle"
    /\ txn' = [txn EXCEPT ![s] = Idle]
    /\ DropLock(s)
    /\ outdated' = outdated \ {s}
    /\ overtaken' = overtaken \ {s}
    /\ UNCHANGED <<register, calls, settings>>

-----------------------------------------------------------------------------
(* PATCH /warehouse/entities/[id]: any date may be set, null reopens.      *)
ClosePeriod(day) ==
    /\ "close" \in Operations
    /\ closed' = day
    /\ UNCHANGED <<register, txn, calls, entityLock, archived, emptied, history>>

(* PATCH /warehouse/warehouses/[id]: one request reads the balances, which *)
(* are kept per cabinet, and a later one archives the warehouse.           *)
CabinetBalance(cab, c) == Balance({e \in register : e.cab = cab}, c)

FindEmpty(w) ==
    /\ "archive" \in Operations
    /\ \A cab \in Cabinets \cup {NoCabinet}, v \in Variants :
           CabinetBalance(cab, <<w, v>>) = 0
    /\ emptied' = emptied \cup {w}
    /\ UNCHANGED <<register, txn, calls, entityLock, closed, archived, history>>

Archive(w) ==
    /\ w \in emptied
    /\ emptied' = emptied \ {w}
    /\ archived' = archived \cup {w}
    /\ UNCHANGED <<register, txn, calls, entityLock, closed, history>>

Unarchive(w) ==
    /\ w \in archived
    /\ archived' = archived \ {w}
    /\ UNCHANGED <<register, txn, calls, entityLock, closed, emptied, history>>

-----------------------------------------------------------------------------
Qtys == 1..MaxQty

CallAt(s, w, v) ==
    \/ \E qtys \in [Cabinets -> 0..MaxQty] : Shipment(s, w, v, qtys)
    \/ \E to \in Warehouses, qty \in Qtys : Transfer(s, w, to, v, qty)
    \/ \E cab \in Cabinets, qty \in Qtys, defect \in 0..MaxQty :
           Return(s, w, v, cab, qty, defect)
    \/ \E qty \in Qtys, day \in 1..(Today + 2) : Writeoff(s, w, v, qty, day)
    \/ \E qty \in Qtys, day \in 1..(Today + 2) : Opening(s, w, v, qty, day)
    \/ \E cab \in Cabinets, batch \in SUBSET Sales : FbsSales(s, w, v, cab, batch)

(* Sales are not in stock_docs, so nothing offers to reverse them.         *)
Reverse(s) ==
    \E e \in register : e.type # "fbs_sale" /\ Reversal(s, e.doc, e.cab)

Call(s) ==
    \/ \E w \in Warehouses, v \in Variants : CallAt(s, w, v)
    \/ Reverse(s)

Session(s) == Call(s) \/ Insert(s) \/ Commit(s) \/ Abort(s)

Setting ==
    \/ \E day \in {0} \cup Days : ClosePeriod(day)
    \/ \E w \in Warehouses : FindEmpty(w) \/ Archive(w) \/ Unarchive(w)

Next == Setting \/ \E s \in Sessions : Session(s)

Spec == Init /\ [][Next]_vars

-----------------------------------------------------------------------------
Txn == [step : Steps, entries : SUBSET Entry]

TypeOK ==
    /\ register \in SUBSET Entry
    /\ txn \in [Sessions -> Txn]
    /\ calls \in Nat
    /\ entityLock \in Sessions \cup {NoSession}
    /\ closed \in {0} \cup Days
    /\ archived \subseteq Warehouses
    /\ emptied \subseteq Warehouses
    /\ outdated \subseteq Sessions
    /\ overtaken \subseteq Sessions

(* A marketplace order is written off at most once, whichever sessions     *)
(* sync it and however their checks, inserts and commits interleave.       *)
SaleOnce ==
    \A e, f \in register :
        e.type = "fbs_sale" /\ f.type = "fbs_sale" /\ e.doc = f.doc => e = f

(* An entity's opening balance is entered at most once, though the check   *)
(* for an empty history and the insert are separate steps.                 *)
OpeningOnce ==
    \A e, f \in register :
        e.type = "opening_balance" /\ f.type = "opening_balance" => e = f

(* ... and into an empty history, "or it distorts the balance after the    *)
(* fact" (OpeningBalanceTab.tsx).  The lock keeps out other openings only: *)
(* another document may commit between the check and the COMMIT.  Nothing  *)
(* else does it: two openings never make one another late.                 *)
OpeningLateByRaceOnly ==
    [][\A s \in Sessions :
           Opens(txn[s].entries \cap register') /\ s \notin overtaken
               => register = {}]_vars

(* What a checked function takes, it takes from stock that was there: a    *)
(* shipment, transfer or write-off leaves no cell it draws on below zero.  *)
Checked == {"shipment", "transfer", "writeoff"}

Covered(entries) ==
    \A e \in entries : \A c \in Cells :
        e.type \in Checked /\ e.delta[c] < 0 => Balance(register', c) >= 0

NoOverdraft == [][Covered(register' \ register)]_vars

(* A check takes no lock, so two sessions at once may overdraw a cell.     *)
(* Nothing else does it: a checked transaction leaves a cell it draws on   *)
(* below zero only when another drew on its cells since its check.         *)
OverdrawnByRaceOnly ==
    [][\A s \in Sessions : s \notin outdated => Covered(txn[s].entries \cap register')]_vars

(* A reversal brings stock back to where it was: what the reversals of a   *)
(* document took from its part of a cabinet is nothing or all of it.       *)
Part(doc, cab) == {e \in register : e.doc = doc /\ e.cab = cab}
Undone(doc, cab) == {e \in register : e.reverses = doc /\ e.cab = cab}

ReversedOnce ==
    \A e \in register : \A c \in Cells :
        Balance(Undone(e.doc, e.cab), c)
            \in {0, -Balance(Part(e.doc, e.cab), c)}
=============================================================================
