-------------------------------- MODULE Stores --------------------------------
(***************************************************************************)
(* One on-chain store: a contract of contracts/ or a service of            *)
(* exonum-logstore/backend.  A store holds one record per hash, an index   *)
(* of the hashes in insertion order, and per submitter a history chain.    *)
(* A transaction stands for its number; the number also stands for the     *)
(* block timestamp, which is never 0, and for the transaction's hash.      *)
(* sha256(prev, link) and the object hash of a list are taken as           *)
(* injective: a history hash stands for the sequence it commits to.        *)
(* Levels, previews, messages and batch summaries are payload, left out.   *)
(***************************************************************************)
EXTENDS Integers, Sequences

CONSTANTS
  Hashes,       \* the content hashes and Merkle roots written
  NotAHash,     \* a string that is not 32 bytes of hexadecimal
  Submitters,   \* wallets or Exonum keys
  NoSubmitter,  \* the zero address
  MaxLimit,     \* the longest page of a list endpoint, 200 in the code
  MaxTxs,       \* bound: transactions executed
  MaxReorgs     \* bound: chain reorganisations

Contracts == {"LogStore", "HashStore", "BatchStore"}
Services  == {"log-service", "hash-service", "batch-service"}

ASSUME StoresAssumption ==
  /\ NotAHash \notin Hashes
  /\ NoSubmitter \notin Submitters
  /\ MaxLimit \in Nat
  /\ MaxTxs \in Nat
  /\ MaxReorgs \in Nat

VARIABLES
  which,    \* the store looked at
  store,    \* its state
  final,    \* its state after the last final block (contracts)
  txs,      \* the number of transactions executed
  reorgs    \* the number of reorganisations

vars == <<which, store, final, txs, reorgs>>

-----------------------------------------------------------------------------
\* What a history chain links: content hashes in the contracts, transaction
\* hashes in the services.
Links == Hashes \cup (Nat \ {0})

Records == [at: Nat, submitter: Submitters \cup {NoSubmitter},
            historyLen: Nat, historyHash: Seq(Links)]

NoRecord == [at |-> 0, submitter |-> NoSubmitter, historyLen |-> 0, historyHash |-> << >>]

StoreStates == [records: [Hashes -> Records],
                ordered: Seq(Hashes),
                historyHash: [Submitters -> Seq(Links)],
                historyLen: [Submitters -> Nat],
                count: Nat]

EmptyStore == [records |-> [h \in Hashes |-> NoRecord],
               ordered |-> << >>,
               historyHash |-> [s \in Submitters |-> << >>],
               historyLen |-> [s \in Submitters |-> 0],
               count |-> 0]

\* require(...timestamp == 0) of the contracts, is_some() of the services.
Exists(st, h) == st.records[h].at # 0

\* A faulty variant of Recorded: the length is that of the whole index.
RecordedGlobal(st, s, h, link, t) ==
  LET newHistory == Append(st.historyHash[s], link)
      newLen     == st.count + 1
  IN [records     |-> [st.records EXCEPT ![h] =
                         [at |-> t, submitter |-> s,
                          historyLen |-> newLen, historyHash |-> newHistory]],
      ordered     |-> Append(st.ordered, h),
      historyHash |-> [st.historyHash EXCEPT ![s] = newHistory],
      historyLen  |-> [st.historyLen EXCEPT ![s] = newLen],
      count       |-> st.count + 1]

\* The state after the write of h by s in transaction t, when the history of s
\* is extended by link.  The services have the length of a list where the
\* contracts have a counter.
Recorded(st, s, h, link, t) ==
  LET newHistory == Append(st.historyHash[s], link)
      newLen     == st.historyLen[s] + 1
  IN [records     |-> [st.records EXCEPT ![h] =
                         [at |-> t, submitter |-> s,
                          historyLen |-> newLen, historyHash |-> newHistory]],
      ordered     |-> Append(st.ordered, h),
      historyHash |-> [st.historyHash EXCEPT ![s] = newHistory],
      historyLen  |-> [st.historyLen EXCEPT ![s] = newLen],
      count       |-> st.count + 1]

-----------------------------------------------------------------------------
Init ==
  /\ which \in Contracts \cup Services
  /\ store = EmptyStore
  /\ final = EmptyStore
  /\ txs = 0
  /\ reorgs = 0

Executed == txs < MaxTxs /\ txs' = txs + 1

\* A faulty variant of ContractWrite: without the require.
ContractWriteAlways(s, h) ==
  /\ Executed
  /\ store' = Recorded(store, s, h, h, txs')
  /\ UNCHANGED <<which, final, reorgs>>

\* write of the contracts: a known hash reverts the transaction.
ContractWrite(s, h) ==
  /\ Executed
  /\ \/ Exists(store, h) /\ UNCHANGED store
     \/ ~Exists(store, h) /\ store' = Recorded(store, s, h, h, txs')
  /\ UNCHANGED <<which, final, reorgs>>

\* Faulty variants of Accepted: without parse_hash, and without the lookup.
AcceptedUnparsed(h) == h = NotAHash \/ ~Exists(store, h)
AcceptedTwice(h)    == h # NotAHash

\* write of the services: a string that is no hash and a known hash end the
\* transaction with an error.
Accepted(h) == h # NotAHash /\ ~Exists(store, h)

ServiceWrite(s, h) ==
  /\ Executed
  /\ \/ ~Accepted(h) /\ UNCHANGED store
     \/ Accepted(h) /\ store' = Recorded(store, s, h, txs', txs')
  /\ UNCHANGED <<which, final, reorgs>>

\* The six write operations, which differ in their payload.
LogStoreWrite(s, h)   == which = "LogStore" /\ ContractWrite(s, h)
HashStoreWrite(s, h)  == which = "HashStore" /\ ContractWrite(s, h)
BatchStoreWrite(s, h) == which = "BatchStore" /\ ContractWrite(s, h)
WriteLog(s, h)        == which = "log-service" /\ ServiceWrite(s, h)
WriteHash(s, h)       == which = "hash-service" /\ ServiceWrite(s, h)
WriteBatch(s, h)      == which = "batch-service" /\ ServiceWrite(s, h)

\* An Ethereum block becomes final with all before it.
Finalize ==
  /\ which \in Contracts
  /\ final' = store
  /\ UNCHANGED <<which, store, txs, reorgs>>

\* The blocks that are not final are undone; their transactions may be
\* executed again, in any order.
Reorg ==
  /\ which \in Contracts
  /\ store # final
  /\ reorgs < MaxReorgs
  /\ store' = final
  /\ reorgs' = reorgs + 1
  /\ UNCHANGED <<which, final, txs>>

Write ==
  \E s \in Submitters :
    \/ \E h \in Hashes : LogStoreWrite(s, h) \/ HashStoreWrite(s, h) \/ BatchStoreWrite(s, h)
    \/ \E h \in Hashes \cup {NotAHash} : WriteLog(s, h) \/ WriteHash(s, h) \/ WriteBatch(s, h)

Next == Write \/ Finalize \/ Reorg

Spec == Init /\ [][Next]_vars

-----------------------------------------------------------------------------
(* Queries *)

\* getPage: the hashes from offset on, at most limit of them, oldest first.
GetPage(st, offset, limit) ==
  LET total == Len(st.ordered)
      end   == IF offset + limit > total THEN total ELSE offset + limit
  IN IF offset >= total THEN << >> ELSE SubSeq(st.ordered, offset + 1, end)

SaturatingSub(a, b) == IF a < b THEN 0 ELSE a - b

\* A faulty variant of List: the newest place is taken for index total.
ListOffByOne(st, offset, limit) ==
  LET end   == SaturatingSub(Len(st.ordered), offset + 1)
      start == SaturatingSub(end, IF limit > MaxLimit THEN MaxLimit ELSE limit)
  IN [i \in 1 .. (end - start) |-> st.ordered[end - i + 1]]

\* list: the hashes offset places from the newest, newest first.
List(st, offset, limit) ==
  LET end   == SaturatingSub(Len(st.ordered), offset)
      start == SaturatingSub(end, IF limit > MaxLimit THEN MaxLimit ELSE limit)
  IN [i \in 1 .. (end - start) |-> st.ordered[end - i + 1]]

-----------------------------------------------------------------------------
(* Properties *)

\* The types of the store, its final state and the counters, on either ledger.
TypeOK ==
  /\ which \in Contracts \cup Services
  /\ store \in StoreStates
  /\ final \in StoreStates
  /\ txs \in Nat
  /\ reorgs \in Nat

\* The index lists the recorded hashes, each once.
Indexed(st) ==
  /\ \A i \in 1 .. Len(st.ordered) : Exists(st, st.ordered[i])
  /\ \A h \in Hashes : Exists(st, h) => \E i \in 1 .. Len(st.ordered) : st.ordered[i] = h
  /\ \A i, j \in 1 .. Len(st.ordered) : st.ordered[i] = st.ordered[j] => i = j
  /\ st.count = Len(st.ordered)

\* The ordered index, the counter and the mapping are written by separate
\* statements of write: after duplicates, errors and reorganisations the index still
\* lists exactly the recorded hashes, once, and the counter is its length.
IndexListsRecords == Indexed(store)

\* The records of each submitter rebuild its history chain.
Chained(st) ==
  /\ \A s \in Submitters : st.historyLen[s] = Len(st.historyHash[s])
  /\ \A h \in Hashes : Exists(st, h) =>
       LET r == st.records[h]
       IN /\ r.submitter \in Submitters
          /\ r.historyLen \in 1 .. st.historyLen[r.submitter]
          /\ r.historyHash = SubSeq(st.historyHash[r.submitter], 1, r.historyLen)
          /\ r.historyHash[r.historyLen] = (IF which \in Contracts THEN h ELSE r.at)
  /\ \A g, h \in Hashes :
       /\ Exists(st, g) /\ Exists(st, h)
       /\ st.records[g].submitter = st.records[h].submitter
       /\ st.records[g].historyLen = st.records[h].historyLen
       => g = h
  /\ \A s \in Submitters : \A n \in 1 .. st.historyLen[s] :
       \E h \in Hashes : /\ Exists(st, h)
                         /\ st.records[h].submitter = s
                         /\ st.records[h].historyLen = n

\* write commits each record to its submitter's whole history: each length of a
\* submitter's chain belongs to one record, whose history hash is the prefix of that length
\* and ends with the record's own link, however the submitters interleave.
HistoryRebuilds == Chained(store)

\* A recorded hash is never recorded again and the index is only appended to
\* (the DuplicateRecord guard of write), but for a reorganisation, which never
\* reaches behind the final state.
OnlyAppends ==
  [][ \/ store' = final /\ reorgs' = reorgs + 1
      \/ /\ \A h \in Hashes : Exists(store, h) => store'.records[h] = store.records[h]
         /\ \E h \in Hashes : store'.ordered = Append(store.ordered, h)
    ]_store
=============================================================================
