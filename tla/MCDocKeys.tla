----------------------------- MODULE MCDocKeys -----------------------------
(* DocKeys on small instances.                                             *)
EXTENDS DocKeys, TLC

(* Presses, and the requests serving them, are interchangeable.            *)
Symmetry == Permutations(Keys) \cup Permutations(Requests)
=============================================================================
