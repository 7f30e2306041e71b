----------------------------- MODULE MCAnchoring -----------------------------
(***************************************************************************)
(* Instances of Anchoring for TLC.  All entries have a replyTo queue or    *)
(* none has, so the entries are interchangeable in safety runs.            *)
(***************************************************************************)
EXTENDS Anchoring, TLC

CONSTANTS l1, l2

TwoLogs == {l1, l2}
NoLogs  == {}
Symmetry == Permutations(TwoLogs)
=============================================================================
