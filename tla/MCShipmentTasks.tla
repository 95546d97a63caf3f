--------------------------- MODULE MCShipmentTasks --------------------------
(* ShipmentTasks on small instances.                                       *)
EXTENDS ShipmentTasks, TLC

Symmetry == Permutations(Tasks) \cup Permutations(Variants)
                \cup Permutations(Requests)
=============================================================================
