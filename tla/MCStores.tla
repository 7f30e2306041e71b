------------------------------- MODULE MCStores -------------------------------
(***************************************************************************)
(* An instance of StoreReaders for TLC: four hashes and two submitters     *)
(* whose writes interleave, pages of two, so that an index fills less than *)
(* a page, exactly a page and more.                                        *)
(***************************************************************************)
EXTENDS StoreReaders, TLC

CONSTANTS h1, h2, h3, h4, s1, s2, q1

FourHashes == {h1, h2, h3, h4}
TwoSubmitters == {s1, s2}
OneSearch == {q1}
Symmetry == Permutations(FourHashes) \cup Permutations(TwoSubmitters)
=============================================================================
