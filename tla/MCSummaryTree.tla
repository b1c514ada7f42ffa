--------------------------- MODULE MCSummaryTree ---------------------------
(* Rows of which the first fills a chunk and the others fill one by two.  *)
EXTENDS SummaryTree, TLC
CONSTANTS A, B
ThreeRows == 1..3
Sizes == <<2, 1, 1>>
TwoRows == 1..2
Big == <<2, 2>>
Instances == Permutations(Inst)
=============================================================================
