----------------------------- MODULE Strategies -----------------------------
(***************************************************************************)
(* The logging strategies and the routing facts src/queue/queues.ts        *)
(* derives from a strategy's name.  The string tests of the code           *)
(* (startsWith, endsWith, includes) are set memberships here.              *)
(***************************************************************************)

LogStrategy == {"database_only", "private_chain", "public_chain",
                "hybrid_private", "hybrid_private_batch",
                "hybrid_public", "hybrid_public_batch"}

DatabaseType == {"postgres", "mongo"}

\* strategy.startsWith('hybrid')
isHybrid(strategy) == strategy \in {"hybrid_private", "hybrid_private_batch",
                                    "hybrid_public", "hybrid_public_batch"}

\* strategy.endsWith('_batch')
isBatchStrategy(strategy) == strategy \in {"hybrid_private_batch",
                                           "hybrid_public_batch"}

\* "database_only" is the only strategy without a submit and a confirm queue.
isChainStrategy(strategy) == strategy # "database_only"

\* strategy.includes('public') decides the chain.
chainFor(strategy) ==
  IF strategy \in {"public_chain", "hybrid_public", "hybrid_public_batch"}
  THEN "ethereum" ELSE "exonum"
=============================================================================
