---------------------------- MODULE MCKizRegistry ----------------------------
(* KizRegistry on small instances.                                         *)
EXTENDS KizRegistry, TLC

CONSTANTS a, b, p1, p2

Interchangeable == Permutations({a, b}) \cup Permutations({p1, p2})
=============================================================================
