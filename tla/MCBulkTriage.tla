---------------------------- MODULE MCBulkTriage ----------------------------
(* Small instances of BulkTriage for TLC. *)
EXTENDS BulkRefinement, TLC

CONSTANTS p1, p2

mcBatches  == {<<p1>>, <<p1, p2>>, <<p2, p1>>}
mcSymmetry == Permutations(Txns) \cup Permutations(Keys)
=============================================================================
