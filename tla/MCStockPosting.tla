--------------------------- MODULE MCStockPosting ---------------------------
(* StockPosting on small instances.  MCSaleDay dates the sales: one may be *)
(* older than the others, and so fall into a period that was closed since. *)
EXTENDS StockPosting, TLC

CONSTANT OldSales

MCSaleDay == [sale \in Sales |-> IF sale \in OldSales THEN 1 ELSE Today]

Symmetry ==
    Permutations(Sessions) \cup Permutations(Cabinets) \cup Permutations(Warehouses)
=============================================================================
