------------------------------ MODULE MCBatching ------------------------------
(***************************************************************************)
(* Instances of Batching for TLC: three entries and a buffer of two, so    *)
(* that a full flush, a timed flush and their overlap all happen; two      *)
(* entries, in one flush or in two, for the liveness runs.                 *)
(***************************************************************************)
EXTENDS Batching, TLC

CONSTANTS l1, l2, l3

TwoLogs   == {l1, l2}
ThreeLogs == {l1, l2, l3}
Symmetry == Permutations(ThreeLogs)
=============================================================================
