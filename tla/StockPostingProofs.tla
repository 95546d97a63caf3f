------------------------- MODULE StockPostingProofs -------------------------
(***************************************************************************)
(* Theorems of StockPosting: the type invariant, one write-off per sale,   *)
(* one opening balance per entity, and no overdraft but by a race, for     *)
(* every number of sessions, documents, warehouses and sales; and, for     *)
(* sessions that do not overlap, an opening balance entered first, no      *)
(* overdraft, and each document undone once.                               *)
(*                                                                         *)
(* No guard of the checking step is used for SaleOnce: what the function   *)
(* read may be stale, the unique index alone carries the property.  For    *)
(* OpeningOnce it is the advisory lock, held from the check to the end of  *)
(* the transaction.  For the overdrafts it is that balances add up: what a *)
(* check saw stays enough until somebody draws on the same cells.          *)
(***************************************************************************)
EXTENDS StockPosting, Sums

-----------------------------------------------------------------------------
(* What a call leaves behind, whichever function it is.                    *)

IsSale(e) == e.type = "fbs_sale"
IsOpening(e) == e.type = "opening_balance"

OneEntryPerSale(entries) ==
    \A e, f \in entries : IsSale(e) /\ IsSale(f) /\ e.doc = f.doc => e = f

NotOpening(entries) == \A e \in entries : ~IsOpening(e)

Prepared(s, entries) ==
    /\ entries \in SUBSET Entry
    /\ txn' = [txn EXCEPT ![s] = [step |-> "checked", entries |-> entries]]
    /\ calls' = calls + 1
    /\ UNCHANGED <<register, closed, archived, emptied, outdated, overtaken>>
    /\ OneEntryPerSale(entries)

LocksNothing(s, entries) == NotOpening(entries) /\ UNCHANGED entityLock

LocksEntity(s, entries) ==
    /\ \E e \in entries : entries = {e}
    /\ entityLock = NoSession /\ entityLock' = s
    /\ register = {}

-----------------------------------------------------------------------------
(* Deltas and entries are well typed.                                      *)

LEMMA AtType ==
    ASSUME NEW c \in Cells, NEW n \in Int PROVE At(c, n) \in [Cells -> Int]
BY DEF At

LEMMA PlusType ==
    ASSUME NEW d1 \in [Cells -> Int], NEW d2 \in [Cells -> Int]
    PROVE  Plus(d1, d2) \in [Cells -> Int]
BY DEF Plus

LEMMA NegatedType ==
    ASSUME NEW d \in [Cells -> Int] PROVE Negated(d) \in [Cells -> Int]
BY DEF Negated

LEMMA EntryType ==
    ASSUME calls \in Nat,
           NEW doc \in DocIds, NEW cab \in Cabinets \cup {NoCabinet},
           NEW type \in DocTypes, NEW day \in Days,
           NEW src \in DocIds \cup {NoDoc}, NEW delta \in [Cells -> Int]
    PROVE  EntryOf(doc, cab, type, day, src, delta) \in Entry
BY DEF EntryOf, Entry

LEMMA PrepareOthers ==
    ASSUME NEW s, NEW type, NEW entries \in SUBSET Entry,
           Prepare(s, type, entries),
           \A e \in entries : ~IsSale(e) /\ ~IsOpening(e),
           UNCHANGED entityLock
    PROVE  Prepared(s, entries) /\ LocksNothing(s, entries)
BY DEF Prepare, Prepared, LocksNothing, NotOpening, OneEntryPerSale, settings, history

LEMMA CellType ==
    ASSUME NEW w \in Warehouses, NEW v \in Variants PROVE <<w, v>> \in Cells
BY DEF Cells

LEMMA DayFacts ==
    /\ Today \in Days
    /\ \A day \in 1..(Today + 2) : NotAhead(day) => day \in Days
BY TodayIsADay DEF Days, NotAhead

(* One lemma per function.                                                 *)
LEMMA ShipmentPrepares ==
    ASSUME TypeOK, NEW s \in Sessions, NEW w \in Warehouses, NEW v \in Variants,
           NEW qtys \in [Cabinets -> 0..MaxQty], Shipment(s, w, v, qtys)
    PROVE  \E entries : Prepared(s, entries) /\ LocksNothing(s, entries)
<1> DEFINE shipped == {cab \in Cabinets : qtys[cab] > 0}
           entry(cab) == EntryOf(calls, cab, "shipment", Today, NoDoc,
                                 At(<<w, v>>, -qtys[cab]))
           entries == {entry(cab) : cab \in shipped}
<1>1. ASSUME NEW cab \in Cabinets PROVE entry(cab) \in Entry
    <2>1. -qtys[cab] \in Int
        BY BoundsAreNat
    <2>2. At(<<w, v>>, -qtys[cab]) \in [Cells -> Int]
        BY <2>1, CellType, AtType
    <2> QED
        BY <2>2, EntryType, DayFacts DEF TypeOK, DocIds, DocTypes
<1>2. entries \in SUBSET Entry
    BY <1>1
<1>3. \A e \in entries : ~IsSale(e) /\ ~IsOpening(e)
    BY DEF EntryOf, IsSale, IsOpening
<1>4. Prepare(s, "shipment", entries) /\ UNCHANGED entityLock
    BY DEF Shipment
<1> HIDE DEF entries
<1> QED
    BY <1>2, <1>3, <1>4, PrepareOthers

LEMMA TransferPrepares ==
    ASSUME TypeOK, NEW s \in Sessions, NEW w \in Warehouses, NEW v \in Variants,
           NEW to \in Warehouses, NEW qty \in Qtys, Transfer(s, w, to, v, qty)
    PROVE  \E entries : Prepared(s, entries) /\ LocksNothing(s, entries)
<1> DEFINE delta == Plus(At(<<w, v>>, -qty), At(<<to, v>>, qty))
           entry == EntryOf(calls, NoCabinet, "transfer", Today, NoDoc, delta)
<1>1. qty \in Int /\ -qty \in Int
    BY BoundsAreNat DEF Qtys
<1>2. delta \in [Cells -> Int]
    <2>1. At(<<w, v>>, -qty) \in [Cells -> Int] /\ At(<<to, v>>, qty) \in [Cells -> Int]
        BY <1>1, CellType, AtType
    <2> QED
        BY <2>1, PlusType
<1>3. entry \in Entry
    BY <1>2, EntryType, DayFacts DEF TypeOK, DocIds, DocTypes
<1>4. ~IsSale(entry) /\ ~IsOpening(entry)
    BY DEF EntryOf, IsSale, IsOpening
<1>5. Prepare(s, "transfer", {entry}) /\ UNCHANGED entityLock
    BY DEF Transfer
<1> HIDE DEF entry
<1> QED
    BY <1>3, <1>4, <1>5, PrepareOthers

LEMMA ReturnPrepares ==
    ASSUME TypeOK, NEW s \in Sessions, NEW w \in Warehouses, NEW v \in Variants,
           NEW cab \in Cabinets, NEW qty \in Qtys, NEW defect \in 0..MaxQty,
           Return(s, w, v, cab, qty, defect)
    PROVE  \E entries : Prepared(s, entries) /\ LocksNothing(s, entries)
<1> DEFINE entry == EntryOf(calls, cab, "return", Today, NoDoc,
                            At(<<w, v>>, qty - defect))
<1>1. qty - defect \in Int
    BY BoundsAreNat DEF Qtys
<1>2. At(<<w, v>>, qty - defect) \in [Cells -> Int]
    BY <1>1, CellType, AtType
<1>3. entry \in Entry
    BY <1>2, EntryType, DayFacts DEF TypeOK, DocIds, DocTypes
<1>4. ~IsSale(entry) /\ ~IsOpening(entry)
    BY DEF EntryOf, IsSale, IsOpening
<1>5. Prepare(s, "return", {entry}) /\ UNCHANGED entityLock
    BY DEF Return
<1> HIDE DEF entry
<1> QED
    BY <1>3, <1>4, <1>5, PrepareOthers

LEMMA WriteoffPrepares ==
    ASSUME TypeOK, NEW s \in Sessions, NEW w \in Warehouses, NEW v \in Variants,
           NEW qty \in Qtys, NEW day \in 1..(Today + 2), Writeoff(s, w, v, qty, day)
    PROVE  \E entries : Prepared(s, entries) /\ LocksNothing(s, entries)
<1> DEFINE entry == EntryOf(calls, NoCabinet, "writeoff", day, NoDoc,
                            At(<<w, v>>, -qty))
<1>1. -qty \in Int /\ day \in Days
    BY BoundsAreNat, DayFacts DEF Qtys, Writeoff
<1>2. At(<<w, v>>, -qty) \in [Cells -> Int]
    BY <1>1, CellType, AtType
<1>3. entry \in Entry
    BY <1>1, <1>2, EntryType DEF TypeOK, DocIds, DocTypes
<1>4. ~IsSale(entry) /\ ~IsOpening(entry)
    BY DEF EntryOf, IsSale, IsOpening
<1>5. Prepare(s, "writeoff", {entry}) /\ UNCHANGED entityLock
    BY DEF Writeoff
<1> HIDE DEF entry
<1> QED
    BY <1>3, <1>4, <1>5, PrepareOthers

LEMMA ReversePrepares ==
    ASSUME TypeOK, NEW s \in Sessions, NEW src \in register,
           Reversal(s, src.doc, src.cab)
    PROVE  \E entries : Prepared(s, entries) /\ LocksNothing(s, entries)
<1> DEFINE lines == {e \in register : e.doc = src.doc /\ InPart(e, src.cab)}
           entry(e) == EntryOf(calls, e.cab, "reversal", Today, src.doc,
                               Negated(e.delta))
           entries == {entry(e) : e \in lines}
<1>1. src \in Entry
    BY DEF TypeOK
<1>2. ASSUME NEW e \in lines PROVE entry(e) \in Entry
    <2>1. e \in Entry
        BY DEF TypeOK
    <2>2. Negated(e.delta) \in [Cells -> Int]
        BY <2>1, NegatedType DEF Entry
    <2>3. src.doc \in DocIds /\ e.cab \in Cabinets \cup {NoCabinet}
        BY <1>1, <2>1 DEF Entry
    <2> QED
        BY <2>2, <2>3, EntryType, DayFacts DEF TypeOK, DocIds, DocTypes
<1>3. entries \in SUBSET Entry
    BY <1>2
<1>4. \A e \in entries : ~IsSale(e) /\ ~IsOpening(e)
    BY DEF EntryOf, IsSale, IsOpening
<1>5. Prepare(s, "reversal", entries) /\ UNCHANGED entityLock
    BY DEF Reversal
<1> HIDE DEF entries
<1> QED
    BY <1>3, <1>4, <1>5, PrepareOthers

LEMMA FbsSalesPrepares ==
    ASSUME TypeOK, NEW s \in Sessions, NEW w \in Warehouses, NEW v \in Variants,
           NEW cab \in Cabinets, NEW batch \in SUBSET Sales,
           FbsSales(s, w, v, cab, batch)
    PROVE  \E entries : Prepared(s, entries) /\ LocksNothing(s, entries)
<1> DEFINE fresh == {sale \in batch : ~SaleTaken(register, sale)}
           entry(sale) == EntryOf(sale, cab, "fbs_sale", SaleDay[sale], NoDoc,
                                  At(<<w, v>>, -1))
           entries == {entry(sale) : sale \in fresh}
<1>1. At(<<w, v>>, -1) \in [Cells -> Int]
    BY CellType, AtType
<1>2. ASSUME NEW sale \in fresh PROVE entry(sale) \in Entry
    <2>1. sale \in DocIds /\ SaleDay[sale] \in Days
        BY SaleDayIsADay DEF DocIds
    <2> QED
        BY <2>1, <1>1, EntryType DEF TypeOK, DocTypes
<1>3. entries \in SUBSET Entry
    BY <1>2
<1>4. OneEntryPerSale(entries) /\ NotOpening(entries)
    BY DEF EntryOf, OneEntryPerSale, NotOpening, IsOpening
<1>5. Prepare(s, "fbs_sale", entries) /\ UNCHANGED entityLock
    BY DEF FbsSales
<1> HIDE DEF entries
<1> QED
    BY <1>3, <1>4, <1>5 DEF Prepare, Prepared, LocksNothing, settings, history

LEMMA OpeningPrepares ==
    ASSUME TypeOK, NEW s \in Sessions, NEW w \in Warehouses, NEW v \in Variants,
           NEW qty \in Qtys, NEW day \in 1..(Today + 2), Opening(s, w, v, qty, day)
    PROVE  \E entries : Prepared(s, entries) /\ LocksEntity(s, entries)
<1> DEFINE entry == EntryOf(calls, NoCabinet, "opening_balance", day, NoDoc,
                            At(<<w, v>>, qty))
<1>1. qty \in Int /\ day \in Days
    BY BoundsAreNat, DayFacts DEF Qtys, Opening
<1>2. At(<<w, v>>, qty) \in [Cells -> Int]
    BY <1>1, CellType, AtType
<1>3. entry \in Entry
    BY <1>1, <1>2, EntryType DEF TypeOK, DocIds, DocTypes
<1>4. /\ Prepare(s, "opening_balance", {entry})
      /\ TakeEntityLock(s) /\ NoHistory
    BY DEF Opening
<1> HIDE DEF entry
<1> QED
    BY <1>3, <1>4 DEF Prepare, Prepared, LocksEntity, settings, history, TakeEntityLock,
                      NoHistory, OneEntryPerSale

LEMMA CallPrepares ==
    ASSUME TypeOK, NEW s \in Sessions, Call(s)
    PROVE  \E entries : /\ Prepared(s, entries)
                        /\ LocksNothing(s, entries) \/ LocksEntity(s, entries)
<1>1. CASE Reverse(s)
    BY <1>1, ReversePrepares DEF Reverse
<1>2. CASE \E w \in Warehouses, v \in Variants : CallAt(s, w, v)
    <2> PICK w \in Warehouses, v \in Variants : CallAt(s, w, v)
        BY <1>2
    <2> QED
        BY ShipmentPrepares, TransferPrepares, ReturnPrepares, WriteoffPrepares,
           OpeningPrepares, FbsSalesPrepares DEF CallAt
<1> QED
    BY <1>1, <1>2 DEF Call

-----------------------------------------------------------------------------
(* Type correctness.                                                       *)

LEMMA PreparedTypeOK ==
    ASSUME TypeOK, NEW s \in Sessions, NEW entries, Prepared(s, entries),
           entityLock' \in Sessions \cup {NoSession}
    PROVE  TypeOK'
<1>1. [step |-> "checked", entries |-> entries] \in Txn
    BY DEF Prepared, Txn, Steps
<1>2. txn' \in [Sessions -> Txn]
    BY <1>1 DEF Prepared, TypeOK
<1> QED
    BY <1>2 DEF Prepared, TypeOK

LEMMA IdleType == Idle \in Txn
BY DEF Idle, Txn, Steps

LEMMA TypeStep == ASSUME TypeOK, [Next]_vars PROVE TypeOK'
<1>1. CASE UNCHANGED vars
    BY <1>1 DEF vars, TypeOK
<1>2. ASSUME NEW s \in Sessions, Call(s) PROVE TypeOK'
    BY <1>2, CallPrepares, PreparedTypeOK DEF LocksNothing, LocksEntity, TypeOK
<1>3. ASSUME NEW s \in Sessions, Insert(s) PROVE TypeOK'
    <2>1. [step |-> "inserted", entries |-> txn[s].entries] \in Txn
        BY DEF TypeOK, Txn, Steps
    <2>2. txn' \in [Sessions -> Txn]
        BY <1>3, <2>1 DEF Insert, TypeOK
    <2> QED
        BY <1>3, <2>2 DEF Insert, settings, history, TypeOK
<1>4. ASSUME NEW s \in Sessions, Commit(s) PROVE TypeOK'
    <2>1. txn' \in [Sessions -> Txn]
        BY <1>4, IdleType DEF Commit, TypeOK
    <2>2. register' \in SUBSET Entry
        BY <1>4 DEF Commit, TypeOK, Txn
    <2>3. entityLock' \in Sessions \cup {NoSession}
        BY <1>4 DEF Commit, DropLock, TypeOK
    <2> QED
        BY <1>4, <2>1, <2>2, <2>3 DEF Commit, settings, history, TypeOK
<1>5. ASSUME NEW s \in Sessions, Abort(s) PROVE TypeOK'
    <2>1. txn' \in [Sessions -> Txn]
        BY <1>5, IdleType DEF Abort, TypeOK
    <2>2. entityLock' \in Sessions \cup {NoSession}
        BY <1>5 DEF Abort, DropLock, TypeOK
    <2> QED
        BY <1>5, <2>1, <2>2 DEF Abort, settings, history, TypeOK
<1>6. CASE Setting
    BY <1>6 DEF Setting, ClosePeriod, FindEmpty, Archive, Unarchive, history, TypeOK
<1> QED
    BY <1>1, <1>2, <1>3, <1>4, <1>5, <1>6 DEF Next, Session

(* Every reachable state is well typed: register entries are entries of    *)
(* known documents dated not ahead of today, the lock is free or held by a *)
(* session (StockPosting's Init and every step of its functions).          *)
THEOREM TypeCorrect == Spec => []TypeOK
<1>1. Init => TypeOK
    BY IdleType, TodayIsADay DEF Init, TypeOK
<1>2. TypeOK /\ [Next]_vars => TypeOK'
    BY TypeStep
<1> QED
    BY <1>1, <1>2, PTL DEF Spec

-----------------------------------------------------------------------------
(* One write-off per sale.                                                 *)

(* Strengthening: what a transaction has inserted is not in the register   *)
(* and not inserted by another one; a batch holds a sale once.             *)
Inserted(s) == txn[s].step = "inserted"

SalesApart ==
    /\ SaleOnce
    /\ \A s \in Sessions : OneEntryPerSale(txn[s].entries)
    /\ \A s \in Sessions : Inserted(s) =>
           \A e \in txn[s].entries : IsSale(e) => ~SaleTaken(register, e.doc)
    /\ \A s, t \in Sessions : s # t /\ Inserted(s) /\ Inserted(t) =>
           \A e \in txn[s].entries :
               IsSale(e) => ~SaleTaken(txn[t].entries, e.doc)

LEMMA SalesApartCall ==
    ASSUME TypeOK, SalesApart, NEW s \in Sessions, NEW entries, Prepared(s, entries)
    PROVE  SalesApart'
<1>1. txn'[s] = [step |-> "checked", entries |-> entries]
    BY DEF TypeOK, Prepared
<1>2. \A t \in Sessions : t # s => txn'[t] = txn[t]
    BY DEF TypeOK, Prepared
<1>3. register' = register /\ OneEntryPerSale(entries)
    BY DEF Prepared
<1>4. SaleOnce'
    BY <1>3 DEF SalesApart, SaleOnce
<1>5. \A t \in Sessions : OneEntryPerSale(txn'[t].entries)
    BY <1>1, <1>2, <1>3 DEF SalesApart
<1>6. \A t \in Sessions : txn'[t].step = "inserted" => t # s
    BY <1>1
<1> QED
    BY <1>2, <1>3, <1>4, <1>5, <1>6 DEF SalesApart, Inserted, OneEntryPerSale

LEMMA SalesApartInsert ==
    ASSUME TypeOK, SalesApart, NEW s \in Sessions, Insert(s)
    PROVE  SalesApart'
<1>1. txn'[s] = [step |-> "inserted", entries |-> txn[s].entries]
    BY DEF TypeOK, Insert
<1>2. \A t \in Sessions : t # s => txn'[t] = txn[t]
    BY DEF TypeOK, Insert
<1>3. register' = register
    BY DEF Insert
<1>4. SaleOnce'
    BY <1>3 DEF SalesApart, SaleOnce
<1>5. \A t \in Sessions : txn'[t].entries = txn[t].entries
    BY <1>1, <1>2
<1>6. \A t \in Sessions : OneEntryPerSale(txn'[t].entries)
    BY <1>5 DEF SalesApart
<1>7. \A e \in txn[s].entries : IsSale(e) =>
          /\ ~SaleTaken(register, e.doc)
          /\ \A t \in Sessions : Inserted(t) => ~SaleTaken(txn[t].entries, e.doc)
    BY DEF Insert, SaleFree, Inserting, IsSale, Inserted
<1>8. \A t \in Sessions : txn'[t].step = "inserted" =>
          \A e \in txn'[t].entries : IsSale(e) => ~SaleTaken(register, e.doc)
    BY <1>1, <1>2, <1>7 DEF SalesApart, Inserted
<1>9. ASSUME NEW t \in Sessions, NEW u \in Sessions, t # u,
             txn'[t].step = "inserted", txn'[u].step = "inserted",
             NEW e \in txn'[t].entries, IsSale(e)
      PROVE  ~SaleTaken(txn'[u].entries, e.doc)
    <2>1. CASE t = s
        BY <1>1, <1>2, <1>7, <1>9, <2>1 DEF Inserted
    <2>2. CASE u = s
        <3>1. Inserted(t) /\ e \in txn[t].entries
            BY <1>2, <1>9, <2>2 DEF Inserted
        <3>2. \A f \in txn[s].entries : IsSale(f) => ~SaleTaken(txn[t].entries, f.doc)
            BY <1>7, <3>1
        <3> QED
            BY <1>5, <1>9, <2>2, <3>1, <3>2 DEF SaleTaken, IsSale
    <2>3. CASE t # s /\ u # s
        BY <1>2, <1>9, <2>3 DEF SalesApart, Inserted
    <2> QED
        BY <2>1, <2>2, <2>3
<1> QED
    BY <1>3, <1>4, <1>6, <1>8, <1>9 DEF SalesApart, Inserted, OneEntryPerSale

LEMMA SalesApartCommit ==
    ASSUME TypeOK, SalesApart, NEW s \in Sessions, Commit(s)
    PROVE  SalesApart'
<1>1. txn'[s] = Idle
    BY DEF TypeOK, Commit
<1>2. \A t \in Sessions : t # s => txn'[t] = txn[t]
    BY DEF TypeOK, Commit
<1>3. register' = register \cup txn[s].entries
    BY DEF Commit
<1>4. Inserted(s)
    BY DEF Commit, Inserted
<1>5. SaleOnce'
    <2>1. OneEntryPerSale(txn[s].entries)
        BY DEF SalesApart
    <2>2. \A e \in txn[s].entries : IsSale(e) => ~SaleTaken(register, e.doc)
        BY <1>4 DEF SalesApart
    <2>3. \A e, f \in register : IsSale(e) /\ IsSale(f) /\ e.doc = f.doc => e = f
        BY DEF SalesApart, SaleOnce, IsSale
    <2> QED
        BY <1>3, <2>1, <2>2, <2>3 DEF SaleOnce, OneEntryPerSale, SaleTaken, IsSale
<1>6. \A t \in Sessions : OneEntryPerSale(txn'[t].entries)
    BY <1>1, <1>2 DEF SalesApart, Idle, OneEntryPerSale
<1>7. \A t \in Sessions : txn'[t].step = "inserted" =>
          t # s /\ Inserted(t) /\ txn'[t].entries = txn[t].entries
    BY <1>1, <1>2 DEF Idle, Inserted
<1>8. ASSUME NEW t \in Sessions, txn'[t].step = "inserted",
             NEW e \in txn'[t].entries, IsSale(e)
      PROVE  ~SaleTaken(register', e.doc)
    <2>1. t # s /\ Inserted(t) /\ e \in txn[t].entries
        BY <1>7, <1>8
    <2>2. ~SaleTaken(register, e.doc) /\ ~SaleTaken(txn[s].entries, e.doc)
        BY <1>4, <1>8, <2>1 DEF SalesApart
    <2> QED
        BY <1>3, <2>2 DEF SaleTaken
<1>9. ASSUME NEW t \in Sessions, NEW u \in Sessions, t # u,
             txn'[t].step = "inserted", txn'[u].step = "inserted",
             NEW e \in txn'[t].entries, IsSale(e)
      PROVE  ~SaleTaken(txn'[u].entries, e.doc)
    BY <1>7, <1>9 DEF SalesApart
<1> QED
    BY <1>5, <1>6, <1>8, <1>9 DEF SalesApart, Inserted, OneEntryPerSale

LEMMA SalesApartAbort ==
    ASSUME TypeOK, SalesApart, NEW s \in Sessions, Abort(s)
    PROVE  SalesApart'
<1>1. txn'[s] = Idle
    BY DEF TypeOK, Abort
<1>2. \A t \in Sessions : t # s => txn'[t] = txn[t]
    BY DEF TypeOK, Abort
<1>3. register' = register
    BY DEF Abort
<1>4. SaleOnce'
    BY <1>3 DEF SalesApart, SaleOnce
<1>5. \A t \in Sessions : OneEntryPerSale(txn'[t].entries)
    BY <1>1, <1>2 DEF SalesApart, Idle, OneEntryPerSale
<1>6. \A t \in Sessions : txn'[t].step = "inserted" => t # s
    BY <1>1 DEF Idle
<1> QED
    BY <1>2, <1>3, <1>4, <1>5, <1>6 DEF SalesApart, Inserted, OneEntryPerSale

LEMMA SalesApartStep == ASSUME TypeOK, SalesApart, [Next]_vars PROVE SalesApart'
<1>1. ASSUME UNCHANGED <<register, txn>> PROVE SalesApart'
    BY <1>1 DEF SalesApart, SaleOnce, Inserted, OneEntryPerSale
<1>2. CASE UNCHANGED vars
    BY <1>1, <1>2 DEF vars
<1>3. CASE Setting
    BY <1>1, <1>3 DEF Setting, ClosePeriod, FindEmpty, Archive, Unarchive
<1>4. ASSUME NEW s \in Sessions, Call(s) PROVE SalesApart'
    BY <1>4, CallPrepares, SalesApartCall
<1> QED
    BY <1>2, <1>3, <1>4, SalesApartInsert, SalesApartCommit, SalesApartAbort
       DEF Next, Session

(* A marketplace order is written off at most once, for every number of    *)
(* sessions running post_fbs_sales at the same time.                       *)
THEOREM SaleOnceCorrect == Spec => []SaleOnce
<1>1. Init => SalesApart
    BY DEF Init, SalesApart, SaleOnce, Inserted, Idle, OneEntryPerSale
<1>2. TypeOK /\ SalesApart /\ [Next]_vars => SalesApart'
    BY SalesApartStep
<1>3. SalesApart => SaleOnce
    BY DEF SalesApart
<1> QED
    BY <1>1, <1>2, <1>3, TypeCorrect, PTL DEF Spec

-----------------------------------------------------------------------------
(* One opening balance per entity.                                         *)

(* Strengthening: a transaction about to enter an opening balance holds    *)
(* the entity's lock, writes nothing else, and no other was entered.       *)
OpeningLocked ==
    /\ OpeningOnce
    /\ \A s \in Sessions : \A e \in txn[s].entries : IsOpening(e) =>
           /\ entityLock = s
           /\ txn[s].entries = {e}
           /\ NotOpening(register)

LEMMA OpeningLockedCall ==
    ASSUME TypeOK, OpeningLocked, NEW s \in Sessions, NEW entries,
           Prepared(s, entries), LocksNothing(s, entries) \/ LocksEntity(s, entries)
    PROVE  OpeningLocked'
<1>1. txn'[s].entries = entries /\ \A t \in Sessions : t # s => txn'[t] = txn[t]
    BY DEF TypeOK, Prepared
<1>2. register' = register
    BY DEF Prepared
<1>3. OpeningOnce'
    BY <1>2 DEF OpeningLocked, OpeningOnce
<1>4. CASE LocksNothing(s, entries)
    BY <1>1, <1>2, <1>3, <1>4 DEF OpeningLocked, LocksNothing, NotOpening
<1>5. CASE LocksEntity(s, entries)
    <2>1. \A t \in Sessions : NotOpening(txn[t].entries)
        BY <1>5, NoSessionIsNoSession DEF OpeningLocked, LocksEntity, NotOpening
    <2>2. PICK x \in entries : entries = {x}
        BY <1>5 DEF LocksEntity
    <2>3. NotOpening(register') /\ entityLock' = s
        BY <1>2, <1>5 DEF LocksEntity, NotOpening
    <2> QED
        BY <1>1, <1>3, <2>1, <2>2, <2>3 DEF OpeningLocked, NotOpening
<1> QED
    BY <1>4, <1>5

LEMMA OpeningLockedCommit ==
    ASSUME TypeOK, OpeningLocked, NEW s \in Sessions, Commit(s)
    PROVE  OpeningLocked'
<1>1. txn'[s].entries = {} /\ \A t \in Sessions : t # s => txn'[t] = txn[t]
    BY DEF TypeOK, Commit, Idle
<1>2. register' = register \cup txn[s].entries
    BY DEF Commit
<1>3. entityLock' = IF entityLock = s THEN NoSession ELSE entityLock
    BY DEF Commit, DropLock
<1>4. CASE NotOpening(txn[s].entries)
    <2>1. \A e \in register' : IsOpening(e) => e \in register
        BY <1>2, <1>4 DEF NotOpening
    <2>2. OpeningOnce'
        BY <2>1 DEF OpeningLocked, OpeningOnce, IsOpening
    <2>3. NotOpening(register) => NotOpening(register')
        BY <2>1 DEF NotOpening
    <2>4. \A t \in Sessions : \A e \in txn'[t].entries :
              IsOpening(e) => t # s /\ e \in txn[t].entries
        BY <1>1
    <2>5. \A t \in Sessions : \A e \in txn'[t].entries : IsOpening(e) =>
              entityLock' = t /\ txn'[t].entries = {e} /\ NotOpening(register')
        BY <1>1, <1>3, <2>3, <2>4 DEF OpeningLocked
    <2> QED
        BY <2>2, <2>5 DEF OpeningLocked, NotOpening
<1>5. CASE ~NotOpening(txn[s].entries)
    <2>1. PICK x \in txn[s].entries : IsOpening(x)
        BY <1>5 DEF NotOpening
    <2>2. entityLock = s /\ txn[s].entries = {x} /\ NotOpening(register)
        BY <2>1 DEF OpeningLocked
    <2>3. OpeningOnce'
        BY <1>2, <2>2 DEF OpeningOnce, NotOpening, IsOpening
    <2>4. \A t \in Sessions : t # s => NotOpening(txn[t].entries)
        BY <2>2 DEF OpeningLocked, NotOpening
    <2>5. \A t \in Sessions : NotOpening(txn'[t].entries)
        BY <1>1, <2>4 DEF NotOpening
    <2> QED
        BY <2>3, <2>5 DEF OpeningLocked, NotOpening
<1> QED
    BY <1>4, <1>5

LEMMA OpeningLockedAbort ==
    ASSUME TypeOK, OpeningLocked, NEW s \in Sessions, Abort(s)
    PROVE  OpeningLocked'
<1>1. txn'[s].entries = {} /\ \A t \in Sessions : t # s => txn'[t] = txn[t]
    BY DEF TypeOK, Abort, Idle
<1>2. register' = register
    BY DEF Abort
<1>3. entityLock' = IF entityLock = s THEN NoSession ELSE entityLock
    BY DEF Abort, DropLock
<1>4. OpeningOnce'
    BY <1>2 DEF OpeningLocked, OpeningOnce
<1>5. \A t \in Sessions : \A e \in txn'[t].entries :
          IsOpening(e) => t # s /\ e \in txn[t].entries
    BY <1>1
<1>6. \A t \in Sessions : \A e \in txn'[t].entries : IsOpening(e) =>
          entityLock' = t /\ txn'[t].entries = {e} /\ NotOpening(register')
    BY <1>1, <1>2, <1>3, <1>5 DEF OpeningLocked
<1> QED
    BY <1>4, <1>6 DEF OpeningLocked, NotOpening

LEMMA OpeningLockedInsert ==
    ASSUME TypeOK, OpeningLocked, NEW s \in Sessions, Insert(s)
    PROVE  OpeningLocked'
<1>1. \A t \in Sessions : txn'[t].entries = txn[t].entries
    BY DEF TypeOK, Insert
<1>2. register' = register /\ entityLock' = entityLock
    BY DEF Insert
<1> QED
    BY <1>1, <1>2 DEF OpeningLocked, OpeningOnce, NotOpening

LEMMA OpeningLockedStep ==
    ASSUME TypeOK, OpeningLocked, [Next]_vars PROVE OpeningLocked'
<1>1. ASSUME UNCHANGED <<register, txn, entityLock>> PROVE OpeningLocked'
    BY <1>1 DEF OpeningLocked, OpeningOnce, NotOpening
<1>2. CASE UNCHANGED vars
    BY <1>1, <1>2 DEF vars
<1>3. CASE Setting
    BY <1>1, <1>3 DEF Setting, ClosePeriod, FindEmpty, Archive, Unarchive
<1>4. ASSUME NEW s \in Sessions, Call(s) PROVE OpeningLocked'
    BY <1>4, CallPrepares, OpeningLockedCall
<1> QED
    BY <1>2, <1>3, <1>4, OpeningLockedInsert, OpeningLockedCommit,
       OpeningLockedAbort DEF Next, Session

(* An entity's opening balance is entered at most once: post_opening_      *)
(* balance holds its advisory lock from the check for an empty history to  *)
(* the end of the transaction.                                             *)
THEOREM OpeningOnceCorrect == Spec => []OpeningOnce
<1>1. Init => OpeningLocked
    BY DEF Init, OpeningLocked, OpeningOnce, Idle
<1>2. TypeOK /\ OpeningLocked /\ [Next]_vars => OpeningLocked'
    BY OpeningLockedStep
<1>3. OpeningLocked => OpeningOnce
    BY DEF OpeningLocked
<1> QED
    BY <1>1, <1>2, <1>3, TypeCorrect, PTL DEF Spec

-----------------------------------------------------------------------------
(* An opening balance under way has the register as empty as its check     *)
(* found it, until another document commits.  That document is never       *)
(* another opening balance: the lock has one holder.                       *)

OpeningFresh ==
    \A s \in Sessions :
        s \notin overtaken /\ ~NotOpening(txn[s].entries) => register = {}

LEMMA OpeningFreshCall ==
    ASSUME TypeOK, OpeningFresh, NEW s \in Sessions, NEW entries,
           Prepared(s, entries), LocksNothing(s, entries) \/ LocksEntity(s, entries)
    PROVE  OpeningFresh'
<1>1. txn'[s].entries = entries /\ \A t \in Sessions : t # s => txn'[t] = txn[t]
    BY DEF TypeOK, Prepared
<1>2. register' = register /\ overtaken' = overtaken
    BY DEF Prepared
<1>3. ~NotOpening(entries) => register = {}
    BY DEF LocksNothing, LocksEntity
<1> QED
    BY <1>1, <1>2, <1>3 DEF OpeningFresh, NotOpening

LEMMA OpeningFreshCommit ==
    ASSUME TypeOK, OpeningLocked, OpeningFresh, NEW s \in Sessions, Commit(s)
    PROVE  OpeningFresh'
<1>1. txn'[s].entries = {} /\ \A t \in Sessions : t # s => txn'[t] = txn[t]
    BY DEF TypeOK, Commit, Idle
<1>2. ASSUME NEW t \in Sessions, t \notin overtaken', ~NotOpening(txn'[t].entries)
      PROVE  FALSE
    <2>1. t # s /\ ~NotOpening(txn[t].entries)
        BY <1>1, <1>2 DEF NotOpening
    <2>2. Opens(txn[t].entries)
        BY <2>1 DEF Opens, NotOpening, IsOpening
    <2>3. Opens(txn[s].entries)
        BY <1>2, <2>1, <2>2 DEF Commit
    <2>4. entityLock = s /\ entityLock = t
        BY <2>2, <2>3 DEF OpeningLocked, Opens, IsOpening
    <2> QED
        BY <2>1, <2>4
<1> QED
    BY <1>2 DEF OpeningFresh

LEMMA OpeningFreshStep ==
    ASSUME TypeOK, OpeningLocked, OpeningFresh, [Next]_vars
    PROVE  OpeningFresh'
<1>1. ASSUME UNCHANGED <<register, txn, overtaken>> PROVE OpeningFresh'
    BY <1>1 DEF OpeningFresh, NotOpening
<1>2. CASE UNCHANGED vars
    BY <1>1, <1>2 DEF vars
<1>3. CASE Setting
    BY <1>1, <1>3 DEF Setting, ClosePeriod, FindEmpty, Archive, Unarchive, history
<1>4. ASSUME NEW s \in Sessions, Call(s) PROVE OpeningFresh'
    BY <1>4, CallPrepares, OpeningFreshCall
<1>5. ASSUME NEW s \in Sessions, Insert(s) PROVE OpeningFresh'
    <2>1. /\ register' = register /\ overtaken' = overtaken
          /\ \A t \in Sessions : txn'[t].entries = txn[t].entries
        BY <1>5 DEF TypeOK, Insert, history
    <2> QED
        BY <2>1 DEF OpeningFresh, NotOpening
<1>6. ASSUME NEW s \in Sessions, Abort(s) PROVE OpeningFresh'
    <2>1. /\ register' = register /\ overtaken' = overtaken \ {s}
          /\ txn'[s].entries = {} /\ \A t \in Sessions : t # s => txn'[t] = txn[t]
        BY <1>6 DEF TypeOK, Abort, Idle
    <2> QED
        BY <2>1 DEF OpeningFresh, NotOpening
<1> QED
    BY <1>2, <1>3, <1>4, <1>5, <1>6, OpeningFreshCommit DEF Next, Session

(* What enters the register is what a transaction had prepared.            *)
LEMMA OpeningEnters ==
    ASSUME TypeOK, OpeningLocked, OpeningFresh, [Next]_vars,
           NEW s \in Sessions, s \notin overtaken,
           Opens(txn[s].entries \cap register')
    PROVE  register = {}
<1>1. ~NotOpening(txn[s].entries)
    BY DEF Opens, NotOpening, IsOpening
<1> QED
    BY <1>1 DEF OpeningFresh

(* Whatever the sessions, an opening balance enters a register that was    *)
(* not empty only when a document of another kind committed between its    *)
(* check and its own COMMIT (post_opening_balance and everything else that *)
(* posts): two opening balances never make one another late.               *)
THEOREM OpeningLateByRaceCorrect == Spec => OpeningLateByRaceOnly
<1>1. Init => OpeningLocked /\ OpeningFresh
    BY DEF Init, OpeningLocked, OpeningOnce, OpeningFresh, NotOpening, Idle
<1>2. TypeOK /\ OpeningLocked /\ OpeningFresh /\ [Next]_vars
          => (OpeningLocked /\ OpeningFresh)'
    BY OpeningLockedStep, OpeningFreshStep
<1>3. TypeOK /\ OpeningLocked /\ OpeningFresh /\ [Next]_vars =>
          [\A s \in Sessions :
               Opens(txn[s].entries \cap register') /\ s \notin overtaken
                   => register = {}]_vars
    BY OpeningEnters
<1> QED
    BY <1>1, <1>2, <1>3, TypeCorrect, PTL DEF Spec, OpeningLateByRaceOnly

-----------------------------------------------------------------------------
(* Balances, as sums of one function of the entries.                       *)

Delta(c) == [e \in Entry |-> e.delta[c]]

LEMMA DeltaType == ASSUME NEW e \in Entry, NEW c \in Cells PROVE e.delta[c] \in Int
BY DEF Entry

LEMMA BalanceSum ==
    ASSUME NEW entries \in SUBSET Entry, IsFiniteSet(entries), NEW c \in Cells
    PROVE  /\ Balance(entries, c) = SumFunctionOnSet(Delta(c), entries)
           /\ Balance(entries, c) \in Int
<1> DEFINE f == [e \in entries |-> e.delta[c]]
<1>1. Balance(entries, c) = SumFunctionOnSet(f, entries)
    <2>1. DOMAIN f = entries
        OBVIOUS
    <2> QED
        BY <2>1, Zenon DEF Balance, SumFunction
<1>2. \A e \in entries : f[e] = Delta(c)[e] /\ Delta(c)[e] \in Int
    BY DeltaType DEF Delta
<1> HIDE DEF f
<1> QED
    BY <1>1, <1>2, SumSame, SumInt

LEMMA BalanceUnion ==
    ASSUME NEW entries \in SUBSET Entry, NEW more \in SUBSET Entry,
           IsFiniteSet(entries), IsFiniteSet(more), entries \cap more = {}, NEW c \in Cells
    PROVE  /\ Balance(entries \cup more, c) = Balance(entries, c) + Balance(more, c)
           /\ IsFiniteSet(entries \cup more)
<1>1. IsFiniteSet(entries \cup more) /\ entries \cup more \in SUBSET Entry
    BY FS_Union
<1>2. \A e \in entries \cup more : Delta(c)[e] \in Int
    BY DeltaType DEF Delta
<1>3. SumFunctionOnSet(Delta(c), entries \cup more)
        = SumFunctionOnSet(Delta(c), entries) + SumFunctionOnSet(Delta(c), more)
    BY <1>2, SumUnion
<1> QED
    BY <1>1, <1>3, BalanceSum

LEMMA BalanceSingle ==
    ASSUME NEW e \in Entry, NEW c \in Cells
    PROVE  Balance({e}, c) = e.delta[c] /\ IsFiniteSet({e})
<1>1. IsFiniteSet({e})
    BY FS_Singleton
<1>2. Delta(c)[e] = e.delta[c] /\ Delta(c)[e] \in Int
    BY DeltaType DEF Delta
<1> QED
    BY <1>1, <1>2, BalanceSum, SumSingleton

LEMMA BalanceGrows ==
    ASSUME NEW entries \in SUBSET Entry, IsFiniteSet(entries), NEW c \in Cells,
           \A e \in entries : e.delta[c] >= 0
    PROVE  Balance(entries, c) \in Nat
<1>1. \A e \in entries : Delta(c)[e] \in Nat
    BY DeltaType DEF Delta
<1> QED
    BY <1>1, SumNat, BalanceSum

-----------------------------------------------------------------------------
(* What a call checked.  Its entries are new, and where it draws on a cell *)
(* the stock it read covers all of them together.                          *)

Draws(entries, c) == \E e \in entries : e.type \in Checked /\ e.delta[c] < 0

Sufficient(entries) ==
    \A c \in Cells : Draws(entries, c) => Balance(register, c) + Balance(entries, c) >= 0

Vouched(entries) ==
    /\ IsFiniteSet(entries)
    /\ \A e \in entries : e.call = calls
    /\ Sufficient(entries)

(* The one cell a single entry draws on.                                   *)
LEMMA VouchedSingle ==
    ASSUME register \in SUBSET Entry, IsFiniteSet(register),
           NEW e \in Entry, e.call = calls,
           \A c \in Cells : e.type \in Checked /\ e.delta[c] < 0 =>
               Balance(register, c) + e.delta[c] >= 0
    PROVE  Vouched({e})
<1>1. ASSUME NEW c \in Cells, Draws({e}, c)
      PROVE  Balance(register, c) + Balance({e}, c) >= 0
    <2>1. e.type \in Checked /\ e.delta[c] < 0
        BY <1>1 DEF Draws
    <2>2. Balance({e}, c) = e.delta[c]
        BY BalanceSingle
    <2> QED
        BY <2>1, <2>2
<1>2. Sufficient({e})
    BY <1>1 DEF Sufficient
<1> QED
    BY <1>2, FS_Singleton DEF Vouched

(* A call whose entries no check has to cover.                             *)
LEMMA VouchedFree ==
    ASSUME NEW entries, IsFiniteSet(entries),
           \A e \in entries : e.call = calls /\ e.type \notin Checked
    PROVE  Vouched(entries)
BY DEF Vouched, Sufficient, Draws

(* What the checks of a call prepare is what its transaction holds.        *)
LEMMA PreparedEntries ==
    ASSUME TypeOK, NEW s \in Sessions, NEW type, NEW entries, Prepare(s, type, entries)
    PROVE  txn'[s].entries = entries
BY DEF Prepare, TypeOK

LEMMA AtFacts ==
    ASSUME NEW x \in Cells, NEW qty \in Int, NEW c \in Cells
    PROVE  At(x, qty)[c] = IF c = x THEN qty ELSE 0
BY DEF At

(* The lines of a shipment are new entries, one for each cabinet.          *)
LEMMA ShipmentVouched ==
    ASSUME TypeOK, IsFiniteSet(register), NEW s \in Sessions, NEW w \in Warehouses,
           NEW v \in Variants, NEW qtys \in [Cabinets -> 0..MaxQty],
           Shipment(s, w, v, qtys)
    PROVE  Vouched(txn'[s].entries)
<1> DEFINE x == <<w, v>>
           shipped == {cab \in Cabinets : qtys[cab] > 0}
           entry(cab) == EntryOf(calls, cab, "shipment", Today, NoDoc, At(x, -qtys[cab]))
           F == [cab \in shipped |-> entry(cab)]
           entries == {entry(cab) : cab \in shipped}
           drawn == [cab \in shipped |-> -qtys[cab]]
<1>1. x \in Cells /\ \A cab \in Cabinets : qtys[cab] \in Nat /\ -qtys[cab] \in Int
    BY BoundsAreNat, CellType
<1>2. ASSUME NEW cab \in Cabinets
      PROVE  /\ entry(cab) \in Entry
             /\ entry(cab).call = calls /\ entry(cab).cab = cab
             /\ \A c \in Cells : entry(cab).delta[c] = IF c = x THEN -qtys[cab] ELSE 0
    <2> HIDE DEF x
    <2>1. At(x, -qtys[cab]) \in [Cells -> Int]
        BY <1>1, AtType
    <2>2. entry(cab) \in Entry
        BY <2>1, EntryType, DayFacts DEF TypeOK, DocIds, DocTypes
    <2> QED
        BY <1>1, <2>2, AtFacts DEF EntryOf
<1>3. txn'[s].entries = entries
    BY PreparedEntries DEF Shipment
<1>4. entries = {F[cab] : cab \in shipped}
    OBVIOUS
<1>5. IsFiniteSet(shipped) /\ shipped \subseteq Cabinets
    BY CabinetsAreFinite, FS_Subset
<1>6. entries \in SUBSET Entry
    BY <1>2
<1>f. \A e \in entries : e.call = calls
    BY <1>2
<1>7. /\ IsFiniteSet(entries)
      /\ SumFunctionOnSet(Delta(x), entries) = SumFunctionOnSet(drawn, shipped)
    <2>1. \A a, b \in shipped : F[a] = F[b] => a = b
        BY <1>2
    <2>2. \A cab \in shipped : drawn[cab] \in Int /\ Delta(x)[F[cab]] = drawn[cab]
        BY <1>1, <1>2 DEF Delta
    <2> HIDE DEF x, F, drawn, shipped, entries
    <2> QED
        BY <1>4, <1>5, <2>1, <2>2, SumImage
<1>8. SumFunctionOnSet(drawn, shipped) = -SumFunctionOnSet(qtys, shipped)
    <2>1. \A cab \in shipped : qtys[cab] \in Int /\ drawn[cab] = -qtys[cab]
        BY <1>1
    <2> HIDE DEF drawn, shipped
    <2> QED
        BY <1>5, <2>1, SumNegated
<1>9. /\ Total(qtys) = SumFunctionOnSet(qtys, shipped)
      /\ Total(qtys) \in Int
    <2> DEFINE rest == Cabinets \ shipped
    <2>1. IsFiniteSet(rest)
        BY CabinetsAreFinite, FS_Subset
    <2>2. shipped \cup rest = Cabinets /\ shipped \cap rest = {}
        OBVIOUS
    <2>3. \A cab \in Cabinets : qtys[cab] \in Int
        BY <1>1
    <2>4. \A cab \in rest : qtys[cab] = 0
        BY <1>1
    <2>5. DOMAIN qtys = Cabinets
        OBVIOUS
    <2> HIDE DEF rest, shipped
    <2>6. SumFunctionOnSet(qtys, shipped \cup rest)
            = SumFunctionOnSet(qtys, shipped) + SumFunctionOnSet(qtys, rest)
        BY <1>5, <2>1, <2>2, <2>3, SumUnion
    <2>7. SumFunctionOnSet(qtys, rest) = 0
        BY <2>1, <2>4, SumZero
    <2>8. SumFunctionOnSet(qtys, shipped) \in Int
        BY <1>5, <2>3, SumInt
    <2>9. Total(qtys) = SumFunctionOnSet(qtys, Cabinets)
        BY <2>5, Zenon DEF Total, SumFunction
    <2> QED
        BY <2>2, <2>6, <2>7, <2>8, <2>9
<1>10. Balance(register, x) >= Total(qtys) /\ Balance(register, x) \in Int
    BY <1>1, BalanceSum DEF Shipment, EnoughForAll, Available, TypeOK
<1>11. Balance(entries, x) = -Total(qtys)
    <2> HIDE DEF x, entries, drawn, shipped
    <2> QED
        BY <1>1, <1>6, <1>7, <1>8, <1>9, BalanceSum
<1>12. Sufficient(entries)
    <2>1. ASSUME NEW c \in Cells, Draws(entries, c) PROVE c = x
        BY <1>2, <2>1 DEF Draws
    <2>2. Balance(register, x) + Balance(entries, x) >= 0
        BY <1>9, <1>10, <1>11
    <2> HIDE DEF x, entries
    <2> QED
        BY <2>1, <2>2 DEF Sufficient
<1> HIDE DEF entries
<1> QED
    BY <1>3, <1>f, <1>7, <1>12 DEF Vouched

LEMMA TransferVouched ==
    ASSUME TypeOK, IsFiniteSet(register), NEW s \in Sessions, NEW w \in Warehouses,
           NEW v \in Variants, NEW to \in Warehouses, NEW qty \in Qtys,
           Transfer(s, w, to, v, qty)
    PROVE  Vouched(txn'[s].entries)
<1> DEFINE x == <<w, v>>
           y == <<to, v>>
           delta == Plus(At(x, -qty), At(y, qty))
           entry == EntryOf(calls, NoCabinet, "transfer", Today, NoDoc, delta)
<1>1. /\ qty \in Int /\ -qty \in Int /\ qty >= 0 /\ x \in Cells /\ y \in Cells /\ x # y
      /\ Balance(register, x) >= qty
    BY BoundsAreNat, CellType DEF Qtys, Transfer, Available
<1>2. At(x, -qty) \in [Cells -> Int] /\ At(y, qty) \in [Cells -> Int]
    BY <1>1, AtType
<1>3. entry \in Entry
    BY <1>2, PlusType, EntryType, DayFacts DEF TypeOK, DocIds, DocTypes
<1>4. txn'[s].entries = {entry}
    BY PreparedEntries DEF Transfer
<1>5. ASSUME NEW c \in Cells, delta[c] < 0
      PROVE  Balance(register, c) + delta[c] >= 0
    <2> HIDE DEF x, y
    <2>1. delta[c] = At(x, -qty)[c] + At(y, qty)[c]
        BY DEF Plus
    <2>2. c = x /\ delta[c] = -qty
        BY <1>1, <1>5, <2>1, AtFacts
    <2>3. Balance(register, x) \in Int
        BY <1>1, BalanceSum DEF TypeOK
    <2> QED
        BY <1>1, <2>2, <2>3
<1>6. entry.call = calls /\ entry.delta = delta
    BY DEF EntryOf
<1> HIDE DEF entry, delta
<1>7. Vouched({entry})
    BY <1>3, <1>5, <1>6, VouchedSingle DEF TypeOK
<1> QED
    BY <1>4, <1>7

LEMMA WriteoffVouched ==
    ASSUME TypeOK, IsFiniteSet(register), NEW s \in Sessions, NEW w \in Warehouses,
           NEW v \in Variants, NEW qty \in Qtys, NEW day \in 1..(Today + 2),
           Writeoff(s, w, v, qty, day)
    PROVE  Vouched(txn'[s].entries)
<1> DEFINE x == <<w, v>>
           delta == At(x, -qty)
           entry == EntryOf(calls, NoCabinet, "writeoff", day, NoDoc, delta)
<1>1. /\ qty \in Int /\ -qty \in Int /\ qty >= 0 /\ x \in Cells /\ day \in Days
      /\ Balance(register, x) >= qty
    BY BoundsAreNat, CellType, DayFacts DEF Qtys, Writeoff, Available
<1>2. delta \in [Cells -> Int]
    BY <1>1, AtType
<1>3. entry \in Entry
    BY <1>1, <1>2, EntryType DEF TypeOK, DocIds, DocTypes
<1>4. txn'[s].entries = {entry}
    BY PreparedEntries DEF Writeoff
<1>5. ASSUME NEW c \in Cells, delta[c] < 0
      PROVE  Balance(register, c) + delta[c] >= 0
    <2> HIDE DEF x
    <2>1. c = x /\ delta[c] = -qty
        BY <1>1, <1>5, AtFacts
    <2>2. Balance(register, x) \in Int
        BY <1>1, BalanceSum DEF TypeOK
    <2> QED
        BY <1>1, <2>1, <2>2
<1>6. entry.call = calls /\ entry.delta = delta
    BY DEF EntryOf
<1> HIDE DEF entry, delta
<1>7. Vouched({entry})
    BY <1>3, <1>5, <1>6, VouchedSingle DEF TypeOK
<1> QED
    BY <1>4, <1>7

(* Returns, opening balances, sales and reversals check no stock.          *)
LEMMA UncheckedVouched ==
    ASSUME TypeOK, IsFiniteSet(register), NEW s \in Sessions, Call(s),
           ~\E w \in Warehouses, v \in Variants :
               \/ \E qtys \in [Cabinets -> 0..MaxQty] : Shipment(s, w, v, qtys)
               \/ \E to \in Warehouses, qty \in Qtys : Transfer(s, w, to, v, qty)
               \/ \E qty \in Qtys, day \in 1..(Today + 2) : Writeoff(s, w, v, qty, day)
    PROVE  Vouched(txn'[s].entries)
<1>1. ASSUME NEW e, txn'[s].entries = {e}, e.call = calls, e.type \notin Checked
      PROVE  Vouched(txn'[s].entries)
    BY <1>1, FS_Singleton, VouchedFree
<1>2. ASSUME NEW w \in Warehouses, NEW v \in Variants, NEW cab \in Cabinets,
             NEW qty \in Qtys, NEW defect \in 0..MaxQty, Return(s, w, v, cab, qty, defect)
      PROVE  Vouched(txn'[s].entries)
    <2> DEFINE entry == EntryOf(calls, cab, "return", Today, NoDoc, At(<<w, v>>, qty - defect))
    <2>1. txn'[s].entries = {entry}
        BY <1>2, PreparedEntries DEF Return
    <2>2. entry.call = calls /\ entry.type \notin Checked
        BY DEF EntryOf, Checked
    <2> QED
        BY <1>1, <2>1, <2>2
<1>3. ASSUME NEW w \in Warehouses, NEW v \in Variants, NEW qty \in Qtys,
             NEW day \in 1..(Today + 2), Opening(s, w, v, qty, day)
      PROVE  Vouched(txn'[s].entries)
    <2> DEFINE entry == EntryOf(calls, NoCabinet, "opening_balance", day, NoDoc,
                                At(<<w, v>>, qty))
    <2>1. txn'[s].entries = {entry}
        BY <1>3, PreparedEntries DEF Opening
    <2>2. entry.call = calls /\ entry.type \notin Checked
        BY DEF EntryOf, Checked
    <2> QED
        BY <1>1, <2>1, <2>2
<1>4. ASSUME NEW w \in Warehouses, NEW v \in Variants, NEW cab \in Cabinets,
             NEW batch \in SUBSET Sales, FbsSales(s, w, v, cab, batch)
      PROVE  Vouched(txn'[s].entries)
    <2> DEFINE fresh == {sale \in batch : ~SaleTaken(register, sale)}
               F == [sale \in fresh |->
                       EntryOf(sale, cab, "fbs_sale", SaleDay[sale], NoDoc, At(<<w, v>>, -1))]
               entries == {F[sale] : sale \in fresh}
    <2>1. txn'[s].entries = entries
        BY <1>4, PreparedEntries DEF FbsSales
    <2>2. IsFiniteSet(entries)
        <3>1. IsFiniteSet(fresh)
            BY SalesAreFinite, FS_Subset
        <3> HIDE DEF fresh, F
        <3> QED
            BY <3>1, ImageFinite
    <2>3. \A e \in entries : e.call = calls /\ e.type \notin Checked
        BY DEF EntryOf, Checked
    <2> HIDE DEF entries
    <2> QED
        BY <2>1, <2>2, <2>3, VouchedFree
<1>5. ASSUME NEW src \in register, Reversal(s, src.doc, src.cab)
      PROVE  Vouched(txn'[s].entries)
    <2> DEFINE lines == {e \in register : e.doc = src.doc /\ InPart(e, src.cab)}
               F == [e \in lines |-> EntryOf(calls, e.cab, "reversal", Today, src.doc,
                                             Negated(e.delta))]
               entries == {F[e] : e \in lines}
    <2>1. txn'[s].entries = entries
        BY <1>5, PreparedEntries DEF Reversal
    <2>2. IsFiniteSet(entries)
        <3>1. IsFiniteSet(lines)
            BY FS_Subset
        <3> HIDE DEF lines, F
        <3> QED
            BY <3>1, ImageFinite
    <2>3. \A e \in entries : e.call = calls /\ e.type \notin Checked
        BY DEF EntryOf, Checked
    <2> HIDE DEF entries
    <2> QED
        BY <2>1, <2>2, <2>3, VouchedFree
<1> QED
    BY <1>2, <1>3, <1>4, <1>5 DEF Call, CallAt, Reverse

LEMMA CallVouched ==
    ASSUME TypeOK, IsFiniteSet(register), NEW s \in Sessions, Call(s)
    PROVE  Vouched(txn'[s].entries)
BY ShipmentVouched, TransferVouched, WriteoffVouched, UncheckedVouched

-----------------------------------------------------------------------------
(* Overdrafts.                                                             *)

(* The register and what is about to enter it never share an entry, nor do *)
(* two transactions: every call has its own number.                        *)
Apart ==
    /\ \A e \in register : e.call < calls
    /\ \A s \in Sessions : \A e \in txn[s].entries :
           /\ e.call < calls
           /\ \A f \in register : f.call # e.call
           /\ \A t \in Sessions : \A f \in txn[t].entries : f.call = e.call => t = s

AllFinite == IsFiniteSet(register) /\ \A s \in Sessions : IsFiniteSet(txn[s].entries)

(* What a transaction's check found stays enough until another transaction *)
(* draws on one of its cells; then the transaction is outdated.            *)
Covers == \A s \in Sessions : s \notin outdated => Sufficient(txn[s].entries)

CoverInv == TypeOK /\ AllFinite /\ Apart /\ Covers

LEMMA CoverCall ==
    ASSUME CoverInv, NEW s \in Sessions, Call(s) PROVE CoverInv'
<1>1. TypeOK /\ TypeOK'
    BY TypeStep DEF CoverInv, Next, Session
<1>2. /\ txn' = [txn EXCEPT ![s] = txn'[s]] /\ calls' = calls + 1
      /\ UNCHANGED <<register, outdated>>
    <2>1. PICK entries : Prepared(s, entries)
        BY <1>1, CallPrepares
    <2> QED
        BY <1>1, <2>1 DEF Prepared, TypeOK
<1>3. \A t \in Sessions : t # s => txn'[t] = txn[t]
    BY <1>1, <1>2 DEF TypeOK
<1>4. Vouched(txn'[s].entries)
    BY <1>1, CallVouched DEF CoverInv, AllFinite
<1>5. AllFinite'
    BY <1>2, <1>3, <1>4 DEF CoverInv, AllFinite, Vouched
<1>6. Apart'
    <2>1. calls \in Int /\ \A e \in register : e.call \in Int
        BY <1>1 DEF TypeOK, Entry
    <2>2. \A t \in Sessions : \A e \in txn[t].entries : e.call \in Int /\ e.call < calls
        BY <1>1 DEF TypeOK, Txn, Entry, CoverInv, Apart
    <2>3. \A e \in register : e.call < calls
        BY DEF CoverInv, Apart
    <2>4. \A e \in txn'[s].entries : e.call = calls
        BY <1>4 DEF Vouched
    <2>5. \A e \in register' : e.call < calls'
        BY <1>2, <2>1, <2>3
    <2>6. ASSUME NEW t \in Sessions, NEW e \in txn'[t].entries
          PROVE  /\ e.call < calls'
                 /\ \A f \in register' : f.call # e.call
                 /\ \A u \in Sessions : \A f \in txn'[u].entries : f.call = e.call => u = t
        <3>1. CASE t = s
            BY <1>2, <1>3, <2>1, <2>2, <2>3, <2>4, <2>6, <3>1
        <3>2. CASE t # s
            <4>1. /\ e \in txn[t].entries /\ e.call < calls
                  /\ \A f \in register : f.call # e.call
                  /\ \A u \in Sessions : \A f \in txn[u].entries : f.call = e.call => u = t
                BY <1>3, <2>6, <3>2 DEF CoverInv, Apart
            <4>2. e.call \in Int
                BY <2>2, <4>1
            <4>3. \A f \in txn'[s].entries : f.call # e.call
                BY <2>1, <2>4, <4>1, <4>2
            <4> QED
                BY <1>2, <1>3, <2>1, <4>1, <4>2, <4>3
        <3> QED
            BY <3>1, <3>2
    <2> QED
        BY <2>5, <2>6 DEF Apart
<1>7. Covers'
    <2>1. \A t \in Sessions : t \notin outdated => Sufficient(txn'[t].entries)
        BY <1>3, <1>4 DEF CoverInv, Covers, Vouched
    <2> QED
        BY <1>2, <2>1 DEF Covers, Sufficient
<1> QED
    BY <1>1, <1>5, <1>6, <1>7 DEF CoverInv

(* A transaction that does not draw on a cell leaves at least as much on   *)
(* it for the others.                                                      *)
LEMMA CoverCommit ==
    ASSUME CoverInv, NEW s \in Sessions, Commit(s) PROVE CoverInv'
<1>1. TypeOK /\ TypeOK'
    BY TypeStep DEF CoverInv, Next, Session
<1>2. /\ txn'[s].entries = {} /\ \A t \in Sessions : t # s => txn'[t] = txn[t]
      /\ register' = register \cup txn[s].entries /\ calls' = calls
    BY <1>1 DEF Commit, Idle, TypeOK
<1>3. /\ register \in SUBSET Entry /\ txn[s].entries \in SUBSET Entry
      /\ IsFiniteSet(register) /\ IsFiniteSet(txn[s].entries)
      /\ register \cap txn[s].entries = {}
    BY <1>1 DEF CoverInv, AllFinite, Apart, TypeOK, Txn
<1>4. AllFinite'
    <2>1. IsFiniteSet({})
        BY FS_EmptySet
    <2>2. IsFiniteSet(register')
        BY <1>2, <1>3, FS_Union
    <2> QED
        BY <1>2, <2>1, <2>2 DEF CoverInv, AllFinite
<1>5. Apart'
    BY <1>2 DEF CoverInv, Apart
<1>6. ASSUME NEW t \in Sessions, t \notin outdated', NEW c \in Cells,
             Draws(txn'[t].entries, c)
      PROVE  Balance(register', c) + Balance(txn'[t].entries, c) >= 0
    <2>1. t # s /\ txn'[t].entries = txn[t].entries
        BY <1>2, <1>6 DEF Draws
    <2>2. /\ t \notin outdated
          /\ DrawnOn(txn[t].entries) \cap DrawnOn(txn[s].entries) = {}
        BY <1>6, <2>1 DEF Commit
    <2>3. c \in DrawnOn(txn[t].entries)
        BY <1>6, <2>1 DEF Draws, DrawnOn
    <2>4. c \notin DrawnOn(txn[s].entries)
        BY <2>2, <2>3
    <2>5. \A e \in txn[s].entries : e.delta[c] >= 0
        BY <1>3, <2>4, DeltaType DEF DrawnOn
    <2>6. Balance(txn[s].entries, c) \in Nat
        BY <1>3, <2>5, BalanceGrows
    <2>7. Balance(register', c) = Balance(register, c) + Balance(txn[s].entries, c)
        BY <1>2, <1>3, BalanceUnion
    <2>8. Balance(register, c) + Balance(txn[t].entries, c) >= 0
        BY <1>6, <2>1, <2>2 DEF CoverInv, Covers, Sufficient
    <2>9. Balance(register, c) \in Int /\ Balance(txn[t].entries, c) \in Int
        <3>1. txn[t].entries \in SUBSET Entry /\ IsFiniteSet(txn[t].entries)
            BY <1>1 DEF CoverInv, AllFinite, TypeOK, Txn
        <3> QED
            BY <1>3, <3>1, BalanceSum
    <2> QED
        BY <2>1, <2>6, <2>7, <2>8, <2>9
<1>7. Covers'
    BY <1>6 DEF Covers, Sufficient
<1> QED
    BY <1>1, <1>4, <1>5, <1>7 DEF CoverInv

(* A step that puts nothing into the register and checks nothing.          *)
LEMMA CoverQuiet ==
    ASSUME CoverInv, TypeOK', UNCHANGED <<register, calls>>,
           \A s \in Sessions :
               \/ txn'[s].entries = {}
               \/ txn'[s].entries = txn[s].entries /\ (s \in outdated => s \in outdated')
    PROVE  CoverInv'
<1>1. AllFinite'
    <2>1. IsFiniteSet({})
        BY FS_EmptySet
    <2> QED
        BY <2>1 DEF CoverInv, AllFinite
<1>2. Apart'
    BY DEF CoverInv, Apart
<1>3. Covers'
    BY DEF CoverInv, Covers, Sufficient, Draws
<1> QED
    BY <1>1, <1>2, <1>3 DEF CoverInv

LEMMA CoverStep == ASSUME CoverInv, [Next]_vars PROVE CoverInv'
<1>1. TypeOK /\ TypeOK'
    BY TypeStep DEF CoverInv
<1>2. CASE Setting \/ UNCHANGED vars
    BY <1>1, <1>2, CoverQuiet DEF Setting, ClosePeriod, FindEmpty, Archive, Unarchive, history, vars
<1>3. ASSUME NEW s \in Sessions, Insert(s) PROVE CoverInv'
    BY <1>1, <1>3, CoverQuiet DEF Insert, history, TypeOK
<1>4. ASSUME NEW s \in Sessions, Abort(s) PROVE CoverInv'
    BY <1>1, <1>4, CoverQuiet DEF Abort, Idle, TypeOK
<1> QED
    BY <1>2, <1>3, <1>4, CoverCall, CoverCommit DEF Next, Session

LEMMA CoverHolds == Spec => []CoverInv
<1>1. Init => CoverInv
    <2> SUFFICES ASSUME Init PROVE CoverInv
        OBVIOUS
    <2>1. TypeOK
        BY IdleType, TodayIsADay DEF Init, TypeOK
    <2>2. AllFinite
        BY FS_EmptySet DEF Init, AllFinite, Idle
    <2>3. Apart /\ Covers
        BY DEF Init, Apart, Covers, Sufficient, Draws, Idle
    <2> QED
        BY <2>1, <2>2, <2>3 DEF CoverInv
<1>2. CoverInv /\ [Next]_vars => CoverInv'
    BY CoverStep
<1> QED
    BY <1>1, <1>2, PTL DEF Spec

(* Entries of a transaction are in the register only once it commits.      *)
LEMMA EntersByCommit ==
    ASSUME CoverInv, [Next]_vars, NEW s \in Sessions, ~Commit(s)
    PROVE  txn[s].entries \cap register' = {}
<1>1. \A e \in txn[s].entries : \A f \in register : f # e
    BY DEF CoverInv, Apart
<1>2. CASE register' = register
    BY <1>1, <1>2
<1>3. ASSUME NEW t \in Sessions, Commit(t) PROVE txn[s].entries \cap register' = {}
    <2>1. t # s /\ register' = register \cup txn[t].entries
        BY <1>3 DEF Commit
    <2>2. \A e \in txn[s].entries : \A f \in txn[t].entries : f # e
        BY <2>1 DEF CoverInv, Apart
    <2> QED
        BY <1>1, <2>1, <2>2
<1>4. ASSUME NEW t \in Sessions, Call(t) PROVE register' = register
    BY <1>4, CallPrepares DEF CoverInv, Prepared
<1> QED
    BY <1>2, <1>3, <1>4 DEF Next, Session, Setting, ClosePeriod, FindEmpty, Archive, Unarchive,
                            Insert, Abort, vars

LEMMA CommitCovered ==
    ASSUME CoverInv, [Next]_vars, NEW s \in Sessions, s \notin outdated
    PROVE  Covered(txn[s].entries \cap register')
<1>1. CASE ~Commit(s)
    BY <1>1, EntersByCommit DEF Covered
<1>2. CASE Commit(s)
    <2>1. /\ register \in SUBSET Entry /\ txn[s].entries \in SUBSET Entry
          /\ IsFiniteSet(register) /\ IsFiniteSet(txn[s].entries)
          /\ register \cap txn[s].entries = {}
        BY DEF CoverInv, AllFinite, Apart, TypeOK, Txn
    <2>2. register' = register \cup txn[s].entries
        BY <1>2 DEF Commit
    <2>3. ASSUME NEW e \in txn[s].entries, NEW c \in Cells,
                 e.type \in Checked, e.delta[c] < 0
          PROVE  Balance(register', c) >= 0
        <3>1. Balance(register, c) + Balance(txn[s].entries, c) >= 0
            BY <2>3 DEF CoverInv, Covers, Sufficient, Draws
        <3>2. Balance(register', c) = Balance(register, c) + Balance(txn[s].entries, c)
            BY <2>1, <2>2, BalanceUnion
        <3> QED
            BY <3>1, <3>2
    <2> QED
        BY <2>3 DEF Covered
<1> QED
    BY <1>1, <1>2

(* A shipment, transfer or write-off leaves a cell it draws on below zero  *)
(* only when another transaction drew on its cells between its check and   *)
(* its commit: for every number of sessions, cells and cabinets, and with  *)
(* sales and reversals, which check nothing, among the others.             *)
THEOREM OverdrawnByRaceCorrect == Spec => OverdrawnByRaceOnly
<1>1. CoverInv /\ [Next]_vars =>
          [\A s \in Sessions : s \notin outdated => Covered(txn[s].entries \cap register')]_vars
    BY CommitCovered
<1> QED
    BY <1>1, CoverHolds, PTL DEF Spec, OverdrawnByRaceOnly

(* With one session at a time nobody draws in between, so the checks of    *)
(* post_shipment, post_transfer and post_writeoff mean what they say.      *)
THEOREM NoOverdraftCorrect ==
    ASSUME NEW only, Sessions = {only}
    PROVE  Spec => NoOverdraft
<1> DEFINE Current == outdated = {}
<1>1. Init => Current
    BY DEF Init
<1>2. CoverInv /\ Current /\ [Next]_vars => Current'
    <2> SUFFICES ASSUME CoverInv, Current, [Next]_vars PROVE Current'
        OBVIOUS
    <2>1. ASSUME NEW s \in Sessions, Call(s) PROVE outdated' = outdated
        BY <2>1, CallPrepares DEF CoverInv, Prepared
    <2> QED
        BY <2>1 DEF Next, Session, Setting, ClosePeriod, FindEmpty, Archive, Unarchive,
                    history, Insert, Commit, Abort, vars
<1>3. CoverInv /\ Current /\ [Next]_vars => [Covered(register' \ register)]_vars
    <2> SUFFICES ASSUME CoverInv, Current, Next PROVE Covered(register' \ register)
        OBVIOUS
    <2>1. CASE register' = register
        BY <2>1 DEF Covered
    <2>2. ASSUME NEW s \in Sessions, Commit(s) PROVE Covered(register' \ register)
        <3>1. Covered(txn[s].entries \cap register')
            BY CommitCovered
        <3>2. register' \ register \subseteq txn[s].entries \cap register'
            BY <2>2 DEF Commit
        <3> QED
            BY <3>1, <3>2 DEF Covered
    <2>3. ASSUME NEW s \in Sessions, Call(s) PROVE register' = register
        BY <2>3, CallPrepares DEF CoverInv, Prepared
    <2> QED
        BY <2>1, <2>2, <2>3 DEF Next, Session, Setting, ClosePeriod, FindEmpty, Archive, Unarchive,
                                Insert, Abort
<1> HIDE DEF Current
<1> QED
    BY <1>1, <1>2, <1>3, CoverHolds, PTL DEF Spec, NoOverdraft

-----------------------------------------------------------------------------
(* Reversals, one session at a time.                                       *)

(* A document is named by the call that wrote it, a sale by its order.     *)
OwnNumber(e) == IF IsSale(e) THEN e.doc \in Sales ELSE e.doc = e.call

Undoes(e, f) == f.doc = e.reverses /\ f.cab = e.cab /\ e.delta = Negated(f.delta)

SamePart(e, f) == e.doc = f.doc /\ e.cab = f.cab

(* What a call writes: one entry for a document and a cabinet; a reversal  *)
(* undoes an entry that is there and that no reversal undid.               *)
Filed(entries) ==
    /\ \A e \in entries : /\ OwnNumber(e) /\ e.call = calls
                          /\ IsSale(e) => ~SaleTaken(register, e.doc)
    /\ \A e, f \in entries : SamePart(e, f) => e = f
    /\ \A e \in entries : e.reverses # NoDoc =>
           /\ e.type = "reversal"
           /\ \E f \in register : Undoes(e, f)
           /\ \A r \in register :
                 ~(r.type = "reversal" /\ r.reverses = e.reverses /\ r.cab = e.cab)

LEMMA FiledSingle ==
    ASSUME NEW e, e.call = calls, e.doc = calls, ~IsSale(e), e.reverses = NoDoc
    PROVE  Filed({e})
BY DEF Filed, OwnNumber

(* Documents that reverse nothing.                                         *)
LEMMA ForwardFiled ==
    ASSUME TypeOK, NEW s \in Sessions, NEW w \in Warehouses, NEW v \in Variants,
           CallAt(s, w, v)
    PROVE  Filed(txn'[s].entries)
<1>1. ASSUME NEW e, txn'[s].entries = {e}, e.call = calls, e.doc = calls, ~IsSale(e),
             e.reverses = NoDoc
      PROVE  Filed(txn'[s].entries)
    BY <1>1, FiledSingle
<1>2. ASSUME NEW qtys \in [Cabinets -> 0..MaxQty], Shipment(s, w, v, qtys)
      PROVE  Filed(txn'[s].entries)
    <2> DEFINE shipped == {cab \in Cabinets : qtys[cab] > 0}
               entries == {EntryOf(calls, cab, "shipment", Today, NoDoc,
                                   At(<<w, v>>, -qtys[cab])) : cab \in shipped}
    <2>1. txn'[s].entries = entries
        BY <1>2, PreparedEntries DEF Shipment
    <2>2. Filed(entries)
        BY DEF Filed, EntryOf, OwnNumber, IsSale, SamePart
    <2> HIDE DEF entries
    <2> QED
        BY <2>1, <2>2
<1>3. ASSUME NEW to \in Warehouses, NEW qty \in Qtys, Transfer(s, w, to, v, qty)
      PROVE  Filed(txn'[s].entries)
    <2> DEFINE entry == EntryOf(calls, NoCabinet, "transfer", Today, NoDoc,
                                Plus(At(<<w, v>>, -qty), At(<<to, v>>, qty)))
    <2>1. txn'[s].entries = {entry}
        BY <1>3, PreparedEntries DEF Transfer
    <2>2. entry.call = calls /\ entry.doc = calls /\ ~IsSale(entry) /\ entry.reverses = NoDoc
        BY DEF EntryOf, IsSale
    <2> HIDE DEF entry
    <2> QED
        BY <1>1, <2>1, <2>2
<1>4. ASSUME NEW cab \in Cabinets, NEW qty \in Qtys, NEW defect \in 0..MaxQty,
             Return(s, w, v, cab, qty, defect)
      PROVE  Filed(txn'[s].entries)
    <2> DEFINE entry == EntryOf(calls, cab, "return", Today, NoDoc, At(<<w, v>>, qty - defect))
    <2>1. txn'[s].entries = {entry}
        BY <1>4, PreparedEntries DEF Return
    <2>2. entry.call = calls /\ entry.doc = calls /\ ~IsSale(entry) /\ entry.reverses = NoDoc
        BY DEF EntryOf, IsSale
    <2> HIDE DEF entry
    <2> QED
        BY <1>1, <2>1, <2>2
<1>5. ASSUME NEW qty \in Qtys, NEW day \in 1..(Today + 2), Writeoff(s, w, v, qty, day)
      PROVE  Filed(txn'[s].entries)
    <2> DEFINE entry == EntryOf(calls, NoCabinet, "writeoff", day, NoDoc, At(<<w, v>>, -qty))
    <2>1. txn'[s].entries = {entry}
        BY <1>5, PreparedEntries DEF Writeoff
    <2>2. entry.call = calls /\ entry.doc = calls /\ ~IsSale(entry) /\ entry.reverses = NoDoc
        BY DEF EntryOf, IsSale
    <2> HIDE DEF entry
    <2> QED
        BY <1>1, <2>1, <2>2
<1>6. ASSUME NEW qty \in Qtys, NEW day \in 1..(Today + 2), Opening(s, w, v, qty, day)
      PROVE  Filed(txn'[s].entries)
    <2> DEFINE entry == EntryOf(calls, NoCabinet, "opening_balance", day, NoDoc,
                                At(<<w, v>>, qty))
    <2>1. txn'[s].entries = {entry}
        BY <1>6, PreparedEntries DEF Opening
    <2>2. entry.call = calls /\ entry.doc = calls /\ ~IsSale(entry) /\ entry.reverses = NoDoc
        BY DEF EntryOf, IsSale
    <2> HIDE DEF entry
    <2> QED
        BY <1>1, <2>1, <2>2
<1>7. ASSUME NEW cab \in Cabinets, NEW batch \in SUBSET Sales, FbsSales(s, w, v, cab, batch)
      PROVE  Filed(txn'[s].entries)
    <2> DEFINE fresh == {sale \in batch : ~SaleTaken(register, sale)}
               entries == {EntryOf(sale, cab, "fbs_sale", SaleDay[sale], NoDoc,
                                   At(<<w, v>>, -1)) : sale \in fresh}
    <2>1. txn'[s].entries = entries
        BY <1>7, PreparedEntries DEF FbsSales
    <2>2. Filed(entries)
        BY DEF Filed, EntryOf, OwnNumber, IsSale, SamePart
    <2> HIDE DEF entries
    <2> QED
        BY <2>1, <2>2
<1> QED
    BY <1>2, <1>3, <1>4, <1>5, <1>6, <1>7 DEF CallAt

(* A reversal finds the lines of its part and refuses them if one of them  *)
(* was reversed, whichever part that reversal named.                       *)
LEMMA ReversalFiled ==
    ASSUME TypeOK, \A e, f \in register : SamePart(e, f) => e = f,
           NEW s \in Sessions, NEW src \in register, Reversal(s, src.doc, src.cab)
    PROVE  Filed(txn'[s].entries)
<1> DEFINE lines == {e \in register : e.doc = src.doc /\ InPart(e, src.cab)}
           entry(e) == EntryOf(calls, e.cab, "reversal", Today, src.doc, Negated(e.delta))
           entries == {entry(e) : e \in lines}
<1>1. txn'[s].entries = entries
    BY PreparedEntries DEF Reversal
<1>2. ASSUME NEW e \in lines
      PROVE  /\ entry(e).call = calls /\ entry(e).doc = calls /\ entry(e).type = "reversal"
             /\ entry(e).cab = e.cab /\ entry(e).reverses = src.doc
             /\ entry(e).delta = Negated(e.delta)
    BY DEF EntryOf
<1>3. \A x \in entries : OwnNumber(x) /\ x.call = calls /\ ~IsSale(x)
    BY <1>2 DEF OwnNumber, IsSale
<1>4. \A x, y \in entries : SamePart(x, y) => x = y
    <2>1. ASSUME NEW e \in lines, NEW f \in lines, entry(e).cab = entry(f).cab
          PROVE  e = f
        BY <1>2, <2>1 DEF SamePart
    <2> QED
        BY <2>1 DEF SamePart
<1>5. ASSUME NEW e \in lines, NEW r \in register,
             r.type = "reversal", r.reverses = src.doc, r.cab = e.cab
      PROVE  FALSE
    <2>1. InPart(r, src.cab)
        BY <1>5 DEF InPart
    <2> QED
        BY <1>5, <2>1 DEF Reversal, AlreadyReversed
<1>6. ASSUME NEW x \in entries
      PROVE  /\ x.type = "reversal"
             /\ \E f \in register : Undoes(x, f)
             /\ \A r \in register :
                   ~(r.type = "reversal" /\ r.reverses = x.reverses /\ r.cab = x.cab)
    <2>1. PICK e \in lines : x = entry(e)
        OBVIOUS
    <2>2. Undoes(x, e)
        BY <1>2, <2>1 DEF Undoes
    <2> HIDE DEF entry
    <2> QED
        BY <1>2, <1>5, <2>1, <2>2
<1> HIDE DEF entries
<1> QED
    BY <1>1, <1>3, <1>4, <1>6 DEF Filed

(* The register together with what its only session is about to enter.     *)
(* The witness of a reversal is in the register already, so that a         *)
(* transaction that fails takes nothing with it.                           *)
Ledger(s) == register \cup txn[s].entries

Reversible ==
    \A s \in Sessions :
        /\ txn[s].step = "idle" => txn[s].entries = {}
        /\ \A e \in Ledger(s) : OwnNumber(e)
        /\ \A e, f \in Ledger(s) : SamePart(e, f) => e = f
        /\ \A e \in Ledger(s) : e.reverses # NoDoc =>
               e.type = "reversal" /\ \E f \in register : Undoes(e, f)
        /\ \A e, f \in Ledger(s) :
               e.reverses # NoDoc /\ e.reverses = f.reverses /\ e.cab = f.cab => e = f

LEMMA ReversibleCall ==
    ASSUME CoverInv, Reversible, NEW s, Sessions = {s}, Call(s)
    PROVE  Reversible'
<1>1. TypeOK /\ register \in SUBSET Entry
    BY DEF CoverInv, TypeOK
<1>2. txn[s].step = "idle" /\ txn'[s].step = "checked" /\ register' = register
    <2>1. PICK entries : Prepared(s, entries)
        BY <1>1, CallPrepares
    <2>2. txn[s].step = "idle"
        <3>1. \A type, made : Prepare(s, type, made) => txn[s].step = "idle"
            BY DEF Prepare
        <3>2. ASSUME NEW w \in Warehouses, NEW v \in Variants, CallAt(s, w, v)
              PROVE  \E type, made : Prepare(s, type, made)
            BY <3>2, Zenon DEF CallAt, Shipment, Transfer, Return, Writeoff, Opening, FbsSales
        <3>3. Reverse(s) => \E type, made : Prepare(s, type, made)
            BY Zenon DEF Reverse, Reversal
        <3> QED
            BY <3>1, <3>2, <3>3 DEF Call
    <2> QED
        BY <1>1, <2>1, <2>2 DEF Prepared, TypeOK
<1>3. Ledger(s) = register
    BY <1>2 DEF Reversible, Ledger
<1> DEFINE new == txn'[s].entries
<1>4. Filed(new)
    BY <1>1, <1>3, ForwardFiled, ReversalFiled DEF Call, Reverse, Reversible
<1>5. \A e \in register : OwnNumber(e) /\ e.call \in Nat /\ e.call < calls
    BY <1>1, <1>3 DEF Reversible, CoverInv, Apart, Entry
<1>6. calls \in Nat
    BY <1>1 DEF TypeOK
<1> HIDE DEF new
<1>7. ASSUME NEW e \in register, NEW f \in new PROVE e.doc # f.doc
    <2>1. OwnNumber(f) /\ f.call = calls
        BY <1>4 DEF Filed
    <2>2. CASE IsSale(f)
        <3>1. f.doc \in Sales /\ ~SaleTaken(register, f.doc)
            BY <1>4, <2>1, <2>2 DEF Filed, OwnNumber
        <3>2. IsSale(e) => e.doc # f.doc
            BY <3>1 DEF SaleTaken, IsSale
        <3>3. ~IsSale(e) => e.doc \in Nat
            BY <1>5 DEF OwnNumber
        <3> QED
            BY <3>1, <3>2, <3>3, SalesAreNotNumbers
    <2>3. CASE ~IsSale(f)
        <3>1. f.doc = calls
            BY <2>1, <2>3 DEF OwnNumber
        <3>2. e.doc \in Sales \/ e.doc < calls
            BY <1>5 DEF OwnNumber
        <3> QED
            BY <1>6, <3>1, <3>2, SalesAreNotNumbers
    <2> QED
        BY <2>2, <2>3
<1>8. \A e \in new : e.reverses # NoDoc => e.type = "reversal" /\ e.doc = calls
    BY <1>4 DEF Filed, OwnNumber, IsSale
<1>9. ASSUME NEW e \in register \cup new PROVE OwnNumber(e)
    BY <1>4, <1>5 DEF Filed
<1>10. ASSUME NEW e \in register \cup new, NEW f \in register \cup new, SamePart(e, f)
       PROVE  e = f
    <2>1. CASE e \in register /\ f \in register
        BY <1>3, <1>10, <2>1 DEF Reversible
    <2>2. CASE e \in new /\ f \in new
        BY <1>4, <1>10, <2>2 DEF Filed
    <2>3. e.doc = f.doc
        BY <1>10 DEF SamePart
    <2> QED
        BY <1>7, <2>1, <2>2, <2>3
<1>11. ASSUME NEW e \in register \cup new, e.reverses # NoDoc
       PROVE  e.type = "reversal" /\ \E f \in register : Undoes(e, f)
    BY <1>3, <1>4, <1>11 DEF Reversible, Filed
<1>12. ASSUME NEW e \in register \cup new, NEW f \in register \cup new,
              e.reverses # NoDoc, e.reverses = f.reverses, e.cab = f.cab
       PROVE  e = f
    <2>1. CASE e \in register /\ f \in register
        BY <1>3, <1>12, <2>1 DEF Reversible
    <2>2. CASE e \in new /\ f \in new
        BY <1>4, <1>8, <1>12, <2>2 DEF Filed, SamePart
    <2>3. ASSUME NEW x \in register, NEW y \in new, y.reverses # NoDoc,
                 x.reverses = y.reverses, x.cab = y.cab
          PROVE  FALSE
        BY <1>4, <1>11, <2>3 DEF Filed
    <2> QED
        BY <1>12, <2>1, <2>2, <2>3
<1>13. (Ledger(s))' = register \cup new
    BY <1>2 DEF Ledger, new
<1> QED
    BY <1>2, <1>9, <1>10, <1>11, <1>12, <1>13 DEF Reversible

(* Everything else leaves the ledger as it is, or drops what was not       *)
(* entered.                                                                *)
LEMMA ReversibleKept ==
    ASSUME Reversible, NEW s, Sessions = {s},
           Ledger(s)' \subseteq Ledger(s), register \subseteq register',
           txn'[s].step = "idle" => txn'[s].entries = {}
    PROVE  Reversible'
BY DEF Reversible

LEMMA ReversibleStep ==
    ASSUME NEW s, Sessions = {s}, CoverInv, Reversible, [Next]_vars
    PROVE  Reversible'
<1>1. txn \in [Sessions -> Txn]
    BY DEF CoverInv, TypeOK
<1>2. CASE Setting \/ UNCHANGED vars
    <2>1. register' = register /\ txn' = txn
        BY <1>2 DEF Setting, ClosePeriod, FindEmpty, Archive, Unarchive, vars
    <2>2. Ledger(s)' \subseteq Ledger(s)
        BY <2>1 DEF Ledger
    <2> QED
        BY <2>1, <2>2, ReversibleKept DEF Reversible
<1>3. CASE Insert(s)
    <2>1. register' = register /\ txn'[s] = [step |-> "inserted", entries |-> txn[s].entries]
        BY <1>1, <1>3 DEF Insert
    <2>2. Ledger(s)' \subseteq Ledger(s)
        BY <2>1 DEF Ledger
    <2> QED
        BY <2>1, <2>2, ReversibleKept
<1>4. CASE Commit(s)
    <2>1. register' = register \cup txn[s].entries /\ txn'[s].entries = {}
        BY <1>1, <1>4 DEF Commit, Idle
    <2>2. Ledger(s)' \subseteq Ledger(s)
        BY <2>1 DEF Ledger
    <2> QED
        BY <2>1, <2>2, ReversibleKept
<1>5. CASE Abort(s)
    <2>1. register' = register /\ txn'[s].entries = {}
        BY <1>1, <1>5 DEF Abort, Idle
    <2>2. Ledger(s)' \subseteq Ledger(s)
        BY <2>1 DEF Ledger
    <2> QED
        BY <2>1, <2>2, ReversibleKept
<1> QED
    BY <1>2, <1>3, <1>4, <1>5, ReversibleCall DEF Next, Session

(* What was written for a part of a document is one entry, and so is what  *)
(* undid it.                                                               *)
LEMMA UndoneWhole ==
    ASSUME CoverInv, Reversible, NEW s, Sessions = {s}
    PROVE  ReversedOnce
<1> SUFFICES ASSUME NEW e \in register, NEW c \in Cells
             PROVE  Balance(Undone(e.doc, e.cab), c) \in {0, -Balance(Part(e.doc, e.cab), c)}
    BY DEF ReversedOnce
<1>1. register \in SUBSET Entry
    BY DEF CoverInv, TypeOK
<1>2. register \subseteq Ledger(s)
    BY DEF Ledger
<1>3. e.doc # NoDoc
    BY <1>1, NoDocIsNoDocument DEF Entry, DocIds
<1>4. CASE Undone(e.doc, e.cab) = {}
    <2>1. Balance({}, c) = 0
        <3>1. {} \in SUBSET Entry /\ IsFiniteSet({})
            BY FS_EmptySet
        <3> QED
            BY <3>1, BalanceSum, SumEmpty
    <2> QED
        BY <1>4, <2>1
<1>5. CASE Undone(e.doc, e.cab) # {}
    <2>1. PICK r \in register : r.reverses = e.doc /\ r.cab = e.cab
        BY <1>5 DEF Undone
    <2>2. Undone(e.doc, e.cab) = {r}
        <3>1. \A x \in Undone(e.doc, e.cab) : x = r
            BY <1>2, <1>3, <2>1 DEF Reversible, Undone
        <3> QED
            BY <2>1, <3>1 DEF Undone
    <2>3. Part(e.doc, e.cab) = {e}
        <3>1. \A x \in Part(e.doc, e.cab) : x = e
            BY <1>2 DEF Reversible, Part, SamePart
        <3> QED
            BY <3>1 DEF Part
    <2>4. PICK f \in register : Undoes(r, f)
        BY <1>2, <1>3, <2>1 DEF Reversible
    <2>5. f = e
        BY <2>1, <2>3, <2>4 DEF Undoes, Part
    <2>6. r.delta[c] = -e.delta[c]
        BY <2>4, <2>5 DEF Undoes, Negated
    <2>7. Balance({r}, c) = -Balance({e}, c)
        BY <1>1, <2>6, BalanceSingle
    <2> QED
        BY <2>2, <2>3, <2>7
<1> QED
    BY <1>4, <1>5

(* With one session at a time, what the reversals of a document took from  *)
(* its part of a cabinet is nothing or all of it, however documents and    *)
(* reversals, and reversals of reversals, follow each other.               *)
THEOREM ReversedOnceCorrect ==
    ASSUME NEW only, Sessions = {only}
    PROVE  Spec => []ReversedOnce
<1>1. Init => Reversible
    BY DEF Init, Reversible, Ledger, Idle
<1>2. CoverInv /\ Reversible /\ [Next]_vars => Reversible'
    BY ReversibleStep
<1>3. CoverInv /\ Reversible => ReversedOnce
    BY UndoneWhole
<1> QED
    BY <1>1, <1>2, <1>3, CoverHolds, PTL DEF Spec
=============================================================================
