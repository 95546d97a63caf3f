-------------------------- MODULE MCReceiptPosting --------------------------
(* ReceiptPosting on small instances.                                      *)
EXTENDS ReceiptPosting, TLC

(* Counts with at least one piece received, and counts that may be zero.   *)
NonzeroCounts == {<<1, 0>>, <<3, 0>>, <<3, 2>>}
AnyCounts == {<<0, 0>>, <<1, 0>>, <<2, 1>>}
FewCounts == {<<0, 0>>, <<2, 1>>}

Symmetry == Permutations(Lines) \cup Permutations(Counters)
    \cup Permutations(Posters) \cup Permutations(Correctors)
=============================================================================
