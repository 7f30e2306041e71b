-------------------------------- MODULE Chains --------------------------------
(***************************************************************************)
(* One transaction on a chain, and what the anchors' checkTx reports of it.*)
(* Both chains are external: an Exonum block is final; an Ethereum receipt *)
(* can be undone until it is confirmationBlocks deep.                      *)
(*                                                                         *)
(*   pool      known to the nodes, in no block                             *)
(*   included  in a block with success, not yet final                      *)
(*   reverted  in a block with a failure receipt, not yet final            *)
(*   recorded  final: the contract or service holds the hash               *)
(*   rejected  final: executed with an error                               *)
(*   dropped   evicted from the pool                                       *)
(***************************************************************************)
EXTENDS Strategies

TxStates == {"pool", "included", "reverted", "recorded", "rejected", "dropped"}

\* The states the next block can leave a pooled transaction in; accepted says
\* whether the contract or service takes the write.  An Ethereum transaction
\* may run out of gas in any case.
Executions(chainName, accepted) ==
  IF chainName = "exonum" THEN {IF accepted THEN "recorded" ELSE "rejected"}
  ELSE (IF accepted THEN {"included"} ELSE {}) \cup {"reverted"}

Finalized(s) == IF s = "included" THEN "recorded" ELSE "rejected"

\* A faulty variant of CheckTx: a transaction the node knows is confirmed.
CheckTxKnown(chainName, s, faulty) ==
  IF s \in {"pool", "included", "recorded"} THEN {"confirmed"} ELSE {"pending"}

\* The answers of anchor.checkTx: Exonum reports a committed transaction as
\* confirmed whatever its execution status, Ethereum a failure receipt as
\* failed whatever its depth; an unreachable node, an unknown transaction and
\* a receipt that is not deep enough are pending.  An Exonum node that answers
\* with neither committed nor in-pool makes the transaction failed.
CheckTx(chainName, s, faulty) ==
  (IF faulty THEN {"pending"} ELSE {})
  \cup (IF faulty /\ chainName = "exonum" THEN {"failed"} ELSE {})
  \cup CASE s = "recorded" -> {"confirmed"}
         [] s = "rejected" /\ chainName = "exonum" -> {"confirmed"}
         [] s \in {"reverted", "rejected"} /\ chainName = "ethereum" -> {"failed"}
         [] OTHER -> {"pending"}
=============================================================================
