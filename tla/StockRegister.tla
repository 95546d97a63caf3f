--------------------------- MODULE StockRegister ---------------------------
(***************************************************************************)
(* The warehouse register (table stock_moves) of one legal entity.         *)
(*                                                                         *)
(* The register only grows: a trigger refuses UPDATE and DELETE, and stock *)
(* is the sum of the moves.  An entry here is what one posting wrote for   *)
(* one document and one cabinet, its moves added up cell by cell; a cell   *)
(* is a warehouse and a size of a product.                                 *)
(*                                                                         *)
(* Code: migrations 202608230003 (table, trigger, balances), 202608240019  *)
(* (one sale per order) and 202609150002 (closed periods).                 *)
(***************************************************************************)
EXTENDS Integers, FiniteSets, FiniteSetsExt

CONSTANTS
    Warehouses, Variants, Cabinets,
    NoCabinet,   \* stock_moves.cabinet_id is null
    NoDoc,       \* stock_moves.reverses_doc_id is null
    Sales,       \* srids of marketplace orders
    Today        \* the day of now(); a move may be dated a day ahead

ASSUME SalesAreNotNumbers == Sales \cap Nat = {}
ASSUME NoDocIsNoDocument == NoDoc \notin Nat \cup Sales
ASSUME TodayIsADay == Today \in Nat \ {0}
ASSUME CabinetsAreFinite == IsFiniteSet(Cabinets)
ASSUME SalesAreFinite == IsFiniteSet(Sales)

Cells == Warehouses \X Variants
Days == 1..(Today + 1)

(* stock_moves.doc_type. *)
DocTypes == {"shipment", "transfer", "return", "writeoff", "fbs_sale",
             "opening_balance", "reversal"}

(* Documents are identified by a fresh uuid, sales by their srid.          *)
DocIds == Nat \cup Sales

(* `call' tells apart the entries that different calls wrote.              *)
Entry == [call : Nat, doc : DocIds, cab : Cabinets \cup {NoCabinet},
          type : DocTypes, day : Days, reverses : DocIds \cup {NoDoc},
          delta : [Cells -> Int]]

(* Stock of a cell: the sum of its moves.                                  *)
Balance(entries, c) == SumFunction([e \in entries |-> e.delta[c]])

(* What a document does to one cell, and to several.                       *)
At(c, qty) == [x \in Cells |-> IF x = c THEN qty ELSE 0]
Plus(d1, d2) == [x \in Cells |-> d1[x] + d2[x]]
Negated(delta) == [x \in Cells |-> -delta[x]]

(* The trigger stock_moves_period_guard: `closed' is the last closed day,  *)
(* 0 when no period was ever closed.                                       *)
PeriodOpen(closed, entries) == \A e \in entries : e.day > closed

(* The unique index stock_moves_fbs_sale_unique.                           *)
SaleTaken(entries, sale) ==
    \E e \in entries : e.type = "fbs_sale" /\ e.doc = sale
=============================================================================
