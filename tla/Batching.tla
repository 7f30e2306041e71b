------------------------------- MODULE Batching -------------------------------
(***************************************************************************)
(* Batch write mode of a batched hybrid strategy: HTTP callers hand their  *)
(* entries to the strategy's BatchWriter; a full buffer or its timer starts*)
(* a flush, in which HybridStorage._writeBatch stores the leaves, the batch*)
(* record and the links, submits the Merkle root to the chain, and the     *)
(* batch is handed to the confirm queue.  Flushes overlap: the buffer fills*)
(* again while earlier flushes wait for the database or the chain.         *)
(*                                                                         *)
(* A batch is numbered by its flush; the number stands for its Merkle root.*)
(* GET /verify-batch reads the leaf and then its siblings, concurrently.   *)
(***************************************************************************)
EXTENDS Integers, Sequences, FiniteSets, Chains

CONSTANTS Logs,        \* log entries
          Strategy,    \* a batched hybrid strategy
          DB,          \* its database
          MaxSize,     \* maxSize of the BatchWriter (10 in server.ts)
          MqReady,     \* whether RabbitMQ was connected when the writer was made
          MaxCrashes,  \* bound on lost connections and process crashes
          DbFaults,    \* whether a database call may fail
          ChainFaults  \* whether a call to a chain node may fail

ASSUME BatchStrategyAssumption ==
  isHybrid(Strategy) /\ isBatchStrategy(Strategy) /\ DB \in DatabaseType
ASSUME BatchBoundsAssumption == MaxSize \in Nat \ {0} /\ MaxCrashes \in Nat
ASSUME BatchFaultsAssumption ==
  MqReady \in BOOLEAN /\ DbFaults \in BOOLEAN /\ ChainFaults \in BOOLEAN

VARIABLES
  server,    \* "up"; "cut": alive without its AMQP connection; "down"
  crashes,   \* how often the connection or the process was lost
  call,      \* what the caller of BatchWriter.write knows
  buffer,    \* BatchWriter.buffer
  timer,     \* whether BatchWriter.flushTimer is armed
  flushes,   \* the flushes so far, running or ended
  leaf,      \* logs_batched_*: stored, and batch_root and leaf_index
  batches,   \* batches_*: the anchor_status of each flush's record
  txs,       \* the state of each flush's transaction, "none" if not submitted
  confirmQ,  \* the batches handed to the confirm queue
  con,       \* the confirm handler, which works on the head of that queue
  expired,   \* auxiliary: batches the confirm handler ended without settling
  reader     \* a GET /verify-batch request

callers == <<call, reader>>
writer  == <<buffer, timer>>
confirm == <<confirmQ, con, expired>>
tables  == <<leaf, batches>>
vars == <<server, crashes, callers, writer, flushes, tables, txs, confirm>>

-----------------------------------------------------------------------------

Elements(s) == {s[i] : i \in 1..Len(s)}

\* ack: handled, and the acknowledgement not yet at the broker.
ConStates == [pc : {"idle", "poll", "update", "ack"},
              result : {"pending", "confirmed", "failed"}]
IdleCon == [pc |-> "idle", result |-> "pending"]

\* A flush: its entries in order, the leaf inserts not yet answered, how many
\* leaves are linked, and whether the chain took the transaction.
NewFlush(entries) == [pc |-> "insert", entries |-> entries,
                      todo |-> Elements(entries), linked |-> 0, ok |-> FALSE]

\* root 0 is a null batch_root.
NoLeaf == [stored |-> FALSE, root |-> 0, index |-> 0]

Batches == 1..Len(flushes)

At(b, pc) == flushes[b].pc = pc
Goto(b, pc) == flushes' = [flushes EXCEPT ![b].pc = pc]

\* What the callers of a flush learn: each promise resolves with the result.
Resolved(b, outcome) ==
  [l \in Logs |-> IF l \in Elements(flushes[b].entries) /\ call[l] = "waiting"
                  THEN outcome ELSE call[l]]

\* A faulty variant of GiveUp: the promises stay open.
GiveUpSilently(b) ==
  /\ Goto(b, "done")
  /\ UNCHANGED call

\* _writeBatch catches a failed step: success is false and there is no txId.
\* Leaf inserts still in flight are not cancelled.
GiveUp(b) ==
  /\ Goto(b, "done")
  /\ call' = Resolved(b, "failed")

-----------------------------------------------------------------------------
(***************************************************************************)
(* BatchWriter.write, flush and scheduleFlush.                             *)
(***************************************************************************)
\* A faulty variant of StartFlush: the buffer is copied, not emptied.
StartFlushCopy(entries) ==
  /\ buffer' = entries
  /\ timer' = TRUE
  /\ flushes' = Append(flushes, NewFlush(entries))
  /\ batches' = Append(batches, "absent")
  /\ txs' = Append(txs, "none")

StartFlush(entries) ==
  /\ buffer' = <<>>
  /\ timer' = FALSE
  /\ flushes' = Append(flushes, NewFlush(entries))
  /\ batches' = Append(batches, "absent")
  /\ txs' = Append(txs, "none")

Write(l) ==
  /\ server # "down" /\ call[l] = "new"
  /\ call' = [call EXCEPT ![l] = "waiting"]
  /\ LET filled == Append(buffer, l) IN
     IF Len(filled) >= MaxSize THEN StartFlush(filled)
     ELSE /\ buffer' = filled
          /\ timer' = TRUE
          /\ UNCHANGED <<flushes, batches, txs>>
  /\ UNCHANGED <<server, crashes, reader, leaf, confirm>>

TimerFires ==
  /\ timer
  /\ IF buffer = <<>> THEN timer' = FALSE /\ UNCHANGED <<buffer, flushes, batches, txs>>
     ELSE StartFlush(buffer)
  /\ UNCHANGED <<server, crashes, callers, leaf, confirm>>

-----------------------------------------------------------------------------
(***************************************************************************)
(* HybridStorage._writeBatch, one action per awaited call.                 *)
(***************************************************************************)
\* One of the concurrent inserts of Promise.all; the first failure rejects it.
InsertBatched(b, l) ==
  /\ l \in flushes[b].todo
  /\ LET left     == flushes[b].todo \ {l}
         answered == [flushes EXCEPT ![b].todo = left]
         inserted == [leaf EXCEPT ![l].stored = TRUE]
     IN \/ /\ leaf' = inserted
           /\ flushes' = IF left = {} /\ At(b, "insert")
                         THEN [answered EXCEPT ![b].pc = "record"] ELSE answered
           /\ UNCHANGED call
        \/ /\ DbFaults
           /\ leaf' \in {leaf, inserted}
           /\ flushes' = [answered EXCEPT ![b].pc = "done"]
           /\ call' = Resolved(b, "failed")
  /\ UNCHANGED <<server, crashes, reader, writer, batches, txs, confirm>>

\* A faulty variant of InsertBatchRecord: the root is sent before the links.
RecordThenAnchor(b) ==
  /\ At(b, "record")
  /\ batches' = [batches EXCEPT ![b] = "pending"]
  /\ Goto(b, "anchor")
  /\ UNCHANGED <<server, crashes, callers, writer, leaf, txs, confirm>>

InsertBatchRecord(b) ==
  /\ At(b, "record")
  /\ LET recorded == [batches EXCEPT ![b] = "pending"]
     IN \/ batches' = recorded /\ Goto(b, "link") /\ UNCHANGED call
        \/ DbFaults /\ batches' \in {batches, recorded} /\ GiveUp(b)
  /\ UNCHANGED <<server, crashes, reader, writer, leaf, txs, confirm>>

\* batch_root and leaf_index of the entries from first to last of flush b.
Linked(b, first, last) ==
  [l \in Logs |-> IF \E i \in first..last : flushes[b].entries[i] = l
                  THEN [leaf[l] EXCEPT !.root = b, !.index =
                          CHOOSE i \in first..last : flushes[b].entries[i] = l]
                  ELSE leaf[l]]

\* A faulty variant of LinkBatchLeaves: no transaction on PostgreSQL either.
LinkOneByOne(b) ==
  /\ At(b, "link")
  /\ LET to == flushes[b].linked + 1 IN
       /\ leaf' = Linked(b, to, to)
       /\ flushes' = [flushes EXCEPT ![b].linked = to, ![b].pc =
                         IF to = Len(flushes[b].entries) THEN "anchor" ELSE "link"]
  /\ UNCHANGED <<server, crashes, callers, writer, batches, txs, confirm>>

\* PostgreSQL links the leaves in one transaction, MongoDB one by one.
LinkBatchLeaves(b) ==
  /\ At(b, "link")
  /\ LET size == Len(flushes[b].entries)
         to   == IF DB = "postgres" THEN size ELSE flushes[b].linked + 1
         link == Linked(b, flushes[b].linked + 1, to)
     IN \/ /\ leaf' = link
           /\ flushes' = [flushes EXCEPT ![b].linked = to,
                            ![b].pc = IF to = size THEN "anchor" ELSE "link"]
           /\ UNCHANGED call
        \/ DbFaults /\ leaf' \in {leaf, link} /\ GiveUp(b)
  /\ UNCHANGED <<server, crashes, reader, writer, batches, txs, confirm>>

\* anchor.writeBatch(entries, { waitForConfirmation: false })
AnchorWriteBatch(b) ==
  /\ At(b, "anchor")
  /\ LET Took(ok) == flushes' = [flushes EXCEPT ![b].pc = "status", ![b].ok = ok]
         submitted == [txs EXCEPT ![b] = "pool"]
     IN \/ txs' = submitted /\ Took(TRUE)
        \/ \* refused, or taken with the answer lost
           ChainFaults /\ txs' \in {txs, submitted} /\ Took(FALSE)
  /\ UNCHANGED <<server, crashes, callers, writer, tables, confirm>>

\* Faulty variants of UpdateBatchAnchorStatus: success whatever the anchor said,
\* and an onFlush that hands off nothing.
StoredWhateverAnchored(b) ==
  /\ At(b, "status")
  /\ batches' = [batches EXCEPT ![b] = IF flushes[b].ok THEN "pending" ELSE "failed"]
  /\ Goto(b, "done")
  /\ call' = Resolved(b, "stored")
  /\ UNCHANGED <<server, crashes, reader, writer, leaf, txs, confirm>>
NeverHandedOff(b) ==
  /\ At(b, "status")
  /\ batches' = [batches EXCEPT ![b] = IF flushes[b].ok THEN "pending" ELSE "failed"]
  /\ Goto(b, "done")
  /\ call' = Resolved(b, IF flushes[b].ok THEN "stored" ELSE "failed")
  /\ UNCHANGED <<server, crashes, reader, writer, leaf, txs, confirm>>

\* The status update; on its answer the callers' promises resolve and onFlush
\* publishes the confirm message, unless the channel is closed: flush rejects
\* then, and its callers swallow the error.
UpdateBatchAnchorStatus(b) ==
  /\ At(b, "status")
  /\ LET updated == [batches EXCEPT ![b] =
                       IF flushes[b].ok THEN "pending" ELSE "failed"]
     IN \/ /\ batches' = updated
           /\ Goto(b, "done")
           /\ call' = Resolved(b, IF flushes[b].ok THEN "stored" ELSE "failed")
           /\ confirmQ' = IF flushes[b].ok /\ MqReady /\ server = "up"
                          THEN Append(confirmQ, b) ELSE confirmQ
        \/ /\ DbFaults
           /\ batches' \in {batches, updated}
           /\ GiveUp(b)
           /\ UNCHANGED confirmQ
  /\ UNCHANGED <<server, crashes, reader, writer, leaf, txs, con, expired>>

-----------------------------------------------------------------------------
(***************************************************************************)
(* The chain, and the confirm handler of batches_*: it takes a message,    *)
(* polls the chain, writes what the last poll said and acknowledges.  Until*)
(* the broker has the acknowledgement the message stays at the head of the *)
(* queue, and is delivered again if the connection or the process is lost. *)
(***************************************************************************)
TxMoves(b, from, to) ==
  /\ txs[b] \in from
  /\ txs' = [txs EXCEPT ![b] = to]
  /\ UNCHANGED <<server, crashes, callers, writer, flushes, tables, confirm>>

\* A Merkle root is new to the chain: every entry has its own id.
Include(b) == \E s \in Executions(chainFor(Strategy), TRUE) : TxMoves(b, {"pool"}, s)
Finalize(b) == TxMoves(b, {"included", "reverted"}, Finalized(txs[b]))
Reorg(b) == TxMoves(b, {"included", "reverted"}, "pool")
DropTx(b) == chainFor(Strategy) = "ethereum" /\ TxMoves(b, {"pool"}, "dropped")

ConBatch == Head(confirmQ)

TakeConfirm ==
  /\ server = "up" /\ con.pc = "idle" /\ confirmQ # <<>>
  /\ con' = [con EXCEPT !.pc = "poll"]
  /\ UNCHANGED <<server, crashes, callers, writer, flushes, tables, txs, confirmQ, expired>>

\* The polling loop: only its last answer matters here (its turns are those of
\* module Anchoring).
PollBatch ==
  /\ con.pc = "poll"
  /\ \E r \in CheckTx(chainFor(Strategy), txs[ConBatch], ChainFaults) :
       /\ con' = [pc |-> "update", result |-> r]
       /\ expired' = IF r = "pending" THEN expired \cup {ConBatch} ELSE expired
  /\ UNCHANGED <<server, crashes, callers, writer, flushes, tables, txs, confirmQ>>

\* A faulty variant of ConfirmBatch: a confirmation whatever the polls said.
ConfirmBatchAlways ==
  /\ con.pc = "update"
  /\ batches' = [batches EXCEPT ![ConBatch] = "confirmed"]
  /\ con' = [con EXCEPT !.pc = "ack"]
  /\ UNCHANGED <<server, crashes, callers, writer, flushes, leaf, txs, confirmQ, expired>>

\* The update writes over whatever the record says.
ConfirmBatch ==
  /\ con.pc = "update"
  /\ con' = [con EXCEPT !.pc = "ack"]
  /\ LET updated == [batches EXCEPT ![ConBatch] = con.result] IN
     \/ /\ batches' = updated
        /\ UNCHANGED expired
     \/ /\ DbFaults
        /\ batches' \in {batches, updated}
        /\ expired' = expired \cup {ConBatch}
  /\ UNCHANGED <<server, crashes, callers, writer, flushes, leaf, txs, confirmQ>>

AckConfirm ==
  /\ server = "up" /\ con.pc = "ack"
  /\ confirmQ' = Tail(confirmQ)
  /\ con' = IdleCon
  /\ UNCHANGED <<server, crashes, callers, writer, flushes, tables, txs, expired>>

-----------------------------------------------------------------------------
(***************************************************************************)
(* GET /verify-batch/:id (and the batched case of GET /verify/:id).        *)
(***************************************************************************)
ReadLeaf(l) ==
  /\ server # "down" /\ reader.pc # "siblings"
  /\ leaf[l].stored /\ leaf[l].root # 0
  /\ reader' = [pc |-> "siblings", root |-> leaf[l].root, match |-> TRUE]
  /\ UNCHANGED <<server, crashes, call, writer, flushes, tables, txs, confirm>>

\* The Merkle root of the stored leaves is the batch's root only if they are
\* the batch's entries, in order.
SiblingsAre(b, entries) ==
  /\ \A l \in Logs : leaf[l].root = b => l \in Elements(entries)
  /\ \A i \in 1..Len(entries) :
       leaf[entries[i]] = [stored |-> TRUE, root |-> b, index |-> i]

ReadSiblings ==
  /\ reader.pc = "siblings"
  /\ reader' = [reader EXCEPT !.pc = "answered",
                  !.match = SiblingsAre(reader.root, flushes[reader.root].entries)]
  /\ UNCHANGED <<server, crashes, call, writer, flushes, tables, txs, confirm>>

-----------------------------------------------------------------------------
(***************************************************************************)
(* Failures.  A lost connection loses the confirm messages the broker has  *)
(* not taken, never one it has delivered; a crash also loses the buffer and*)
(* the running flushes.  A confirm handler that ends on a closed channel   *)
(* throws in its finally block and ends the process, as in Anchoring.      *)
(***************************************************************************)
LoseMessages ==
  \E n \in (IF con.pc = "idle" THEN 0 ELSE 1)..Len(confirmQ) :
    confirmQ' = SubSeq(confirmQ, 1, n)

Disconnect ==
  /\ server = "up" /\ crashes < MaxCrashes
  /\ server' = "cut" /\ crashes' = crashes + 1
  /\ LoseMessages
  /\ UNCHANGED <<callers, writer, flushes, tables, txs, con, expired>>

Dies ==
  \/ server # "down" /\ crashes < MaxCrashes /\ crashes' = crashes + 1 /\ LoseMessages
  \/ server = "cut" /\ con.pc = "ack" /\ UNCHANGED <<crashes, confirmQ>>

Crash ==
  /\ Dies
  /\ server' = "down" /\ con' = IdleCon
  /\ call' = [l \in Logs |-> IF call[l] = "waiting" THEN "gone" ELSE call[l]]
  /\ buffer' = <<>> /\ timer' = FALSE
  /\ flushes' = [b \in Batches |-> [flushes[b] EXCEPT !.pc = "done", !.todo = {}]]
  /\ reader' = [reader EXCEPT !.pc = "idle"]
  /\ UNCHANGED <<tables, txs, expired>>

Restart ==
  /\ server = "down"
  /\ server' = "up"
  /\ UNCHANGED <<crashes, callers, writer, flushes, tables, txs, confirm>>

-----------------------------------------------------------------------------
Init ==
  /\ server = "up" /\ crashes = 0
  /\ call = [l \in Logs |-> "new"]
  /\ buffer = <<>> /\ timer = FALSE
  /\ flushes = <<>>
  /\ leaf = [l \in Logs |-> NoLeaf]
  /\ batches = <<>> /\ txs = <<>>
  /\ confirmQ = <<>> /\ con = IdleCon /\ expired = {}
  /\ reader = [pc |-> "idle", root |-> 0, match |-> TRUE]

FlushStep(b) ==
  \/ \E l \in Logs : InsertBatched(b, l)
  \/ InsertBatchRecord(b)
  \/ LinkBatchLeaves(b)
  \/ AnchorWriteBatch(b)
  \/ UpdateBatchAnchorStatus(b)

ConfirmHandler == TakeConfirm \/ PollBatch \/ ConfirmBatch \/ AckConfirm

ChainStep(b) == Include(b) \/ Finalize(b) \/ Reorg(b) \/ DropTx(b)

Next ==
  \/ \E l \in Logs : Write(l) \/ ReadLeaf(l)
  \/ TimerFires
  \/ \E b \in Batches : FlushStep(b) \/ ChainStep(b)
  \/ ConfirmHandler
  \/ ReadSiblings
  \/ Disconnect \/ Crash \/ Restart

Spec == Init /\ [][Next]_vars

\* The database and the chain nodes answer, timers fire, the chain keeps
\* producing blocks and the confirm handler runs while the connection lasts.
\* HTTP requests, failures and the operator are not fair.
Fairness ==
  /\ WF_vars(TimerFires)
  /\ \A b \in 1..Cardinality(Logs) : WF_vars(b \in Batches /\ FlushStep(b))
  /\ WF_vars(ConfirmHandler)
  /\ WF_vars(\E b \in Batches : Include(b) \/ Finalize(b))

FairSpec == Spec /\ Fairness

-----------------------------------------------------------------------------
(***************************************************************************)
(* Properties.                                                             *)
(***************************************************************************)

\* Overlapping flushes take each entry exactly once and forget none: a waiting
\* caller's entry is in the buffer or in one running flush, at one place, and a buffer
\* that holds entries is below the size that flushes it, with the timer that will
\* armed (buffer.splice; write, flush and scheduleFlush each touch the timer).
TakenOnce ==
  /\ buffer # <<>> => timer /\ Len(buffer) < MaxSize
  /\ \A l \in Logs :
       LET inBuffer  == {i \in 1..Len(buffer) : buffer[i] = l}
           inFlushes == {b \in Batches : l \in Elements(flushes[b].entries)}
       IN /\ Cardinality(inBuffer) + Cardinality(inFlushes) <= 1
          /\ call[l] = "waiting" =>
               inBuffer # {} \/ \E b \in inFlushes : ~ At(b, "done")

\* What the chain commits to can be rebuilt from the database: when a batch's
\* root has been sent to the chain, its record and all its leaves are stored
\* and linked in order (the order of steps of _writeBatch).
AnchoredBatchComplete ==
  \A b \in Batches : txs[b] # "none" =>
    batches[b] # "absent" /\ SiblingsAre(b, flushes[b].entries)

\* What callers and the database are told of a batch is so, whatever is lost and
\* delivered again: an entry whose write resolved with success is linked to a
\* batch that was sent to the chain (the resolve calls of BatchWriter.flush), and
\* a record that says confirmed is that of a root the chain has recorded, though
\* the confirm handler writes what it read before (a record that says failed may
\* be wrong: Ethereum reports a failure that a reorganisation can undo).
StoredIsSubmitted ==
  \A l \in Logs : call[l] = "stored" =>
    /\ leaf[l].stored /\ leaf[l].root \in Batches
    /\ txs[leaf[l].root] # "none"
ConfirmedIsRecorded ==
  \A b \in Batches : batches[b] = "confirmed" => txs[b] = "recorded"
ToldTruly == StoredIsSubmitted /\ ConfirmedIsRecorded

\* "verify merkle inclusion (only if batch assigned)": nothing here alters a
\* stored leaf, so a verification never reports a Merkle mismatch.
VerifyNeverFalse == reader.pc = "answered" => reader.match

\* Without a lost connection a batch record follows the row lifecycle, whatever
\* fails: stored before its root is sent, settled once, confirmed only if the root
\* is recorded.  After a loss a handled confirm message may be delivered again, and
\* what its second polling says is written over the settled record.
BatchIds == 1..Cardinality(Logs)
BatchStatus == [b \in BatchIds |-> IF b \in Batches THEN batches[b] ELSE "absent"]
Lifecycle == INSTANCE AnchorLifecycle WITH
  Logs     <- BatchIds,
  status   <- BatchStatus,
  recorded <- {b \in Batches : txs[b] = "recorded"}
ImplementsLifecycle == Lifecycle!Spec

\* The promise of every accepted write settles, whatever fails, unless the
\* process dies: each path of flush resolves or rejects its entries.
EveryWriteSettles ==
  \A l \in Logs : call[l] = "waiting" ~> call[l] # "waiting"

\* "After each flush, hand off the chain tx to the confirm queue ... so
\* anchor_status flips": when a caller is told success, its batch is settled in
\* the end, or the confirm handler has given up on it.
StoredIsFollowed ==
  \A l \in Logs : call[l] = "stored" ~>
    \E b \in Batches : /\ l \in Elements(flushes[b].entries)
                       /\ batches[b] \in {"confirmed", "failed"} \/ b \in expired
=============================================================================
