---------------------------- MODULE MCDocReversal ----------------------------
(* DocReversal on small instances: a shipment of two cabinets with a card  *)
(* for each, and a transfer.                                               *)
EXTENDS DocReversal, TLC

CONSTANTS a, b, shipment, transfer, r1, r2

TwoParts == [d \in Postings |-> IF d = shipment THEN {a, b} ELSE {NoCabinet}]

Interchangeable == Permutations({a, b}) \cup Permutations({r1, r2})
=============================================================================
