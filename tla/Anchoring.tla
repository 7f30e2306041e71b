------------------------------ MODULE Anchoring ------------------------------
(***************************************************************************)
(* The asynchronous write path of one chain strategy: a caller publishes a *)
(* log entry to the strategy's submit queue; the submit handler stores the *)
(* row, submits the transaction and hands it to the confirm queue; the     *)
(* confirm handler polls the chain and settles the row's anchor status.    *)
(*                                                                         *)
(* Both consumers run with prefetch 1, so the message a handler works on   *)
(* is the head of its queue: the broker removes it only when the           *)
(* acknowledgement arrives, and delivers it again after a lost connection. *)
(***************************************************************************)
EXTENDS Integers, Sequences, Chains

CONSTANTS Logs,        \* log entries; an entry stands for its id and its hash
          ReplyTo,     \* the entries published with a replyTo queue
          Strategy,    \* the chain strategy whose queues are modelled
          DB,          \* the database of a hybrid strategy
          MaxPolls,    \* MAX_RETRIES of the confirm handler
          MaxCrashes,  \* bound on lost connections and process crashes
          DbFaults,    \* whether a database call may fail
          ChainFaults  \* whether a call to a chain node may fail

ASSUME LogsAssumption == ReplyTo \subseteq Logs
ASSUME StrategyAssumption == /\ Strategy \in LogStrategy
                             /\ isChainStrategy(Strategy)
                             /\ DB \in DatabaseType
ASSUME BoundsAssumption == MaxPolls \in Nat \ {0} /\ MaxCrashes \in Nat
ASSUME FaultsAssumption == DbFaults \in BOOLEAN /\ ChainFaults \in BOOLEAN

VARIABLES
  server,          \* "up"; "cut": alive without its AMQP connection; "down"
  crashes,         \* how often the connection or the process was lost
  client,          \* what each caller knows of its entry
  outbox,          \* frames written to the channel, not yet at the broker
  submitQ,         \* logs.<strategy>: the entries of the submit messages
  submitUnacked,   \* whether its head is delivered and not acknowledged
  confirmQ,        \* confirm.<strategy>: [log, tx] of the confirm messages
  confirmUnacked,  \* whether its head is delivered and not acknowledged
  replies,         \* the results each caller's replyTo queue received
  sub,             \* the submit handler
  con,             \* the confirm handler
  expired,         \* auxiliary: entries a confirm handler ran out of polls on
  db,              \* the strategy's log table: a row's anchor_status and tx
  chain            \* the transactions, in submission order; tx 0 is undefined

callers  == <<client, replies>>
queues   == <<outbox, submitQ, submitUnacked, confirmQ, confirmUnacked>>
handlers == <<sub, con>>
vars == <<server, crashes, callers, queues, handlers, expired, db, chain>>

-----------------------------------------------------------------------------
Frames == [op : {"submit", "confirm", "reply", "ackSubmit", "ackConfirm"},
           log : Logs, tx : Nat, ok : BOOLEAN]
Frame(op, l, tx, ok) == [op |-> op, log |-> l, tx |-> tx, ok |-> ok]

ConfirmMsgs == [log : Logs, tx : Nat]
Results     == [ok : BOOLEAN, tx : Nat]

Rows == [status : {"absent", "pending", "confirmed", "failed"}, tx : Nat]
Row(status, tx) == [status |-> status, tx |-> tx]
Absent == Row("absent", 0)

SubStates == [pc : {"idle", "insert", "anchor", "status", "respond"},
              tx : Nat, ok : BOOLEAN]
ConStates == [pc : {"idle", "poll", "update", "respond"}, n : 0..MaxPolls,
              result : {"pending", "confirmed", "failed"}, err : BOOLEAN]

IdleSub == [pc |-> "idle", tx |-> 0, ok |-> FALSE]
IdleCon == [pc |-> "idle", n |-> 0, result |-> "pending", err |-> FALSE]

\* The entry, or the confirm message, the running handler works on.
SubLog == Head(submitQ)
ConMsg == Head(confirmQ)

\* The batched leaf table of PostgreSQL has no anchor_status column, so its
\* update raises an error; MongoDB sets the field on any document.
HasStatusColumn == ~ (isBatchStrategy(Strategy) /\ DB = "postgres")

-----------------------------------------------------------------------------
(***************************************************************************)
(* The chain.  A committed transaction may have failed: the stores refuse  *)
(* a hash they hold, and BatchService cannot decode the WriteHash bytes a  *)
(* single entry of a batch strategy is sent as.                            *)
(***************************************************************************)
Txs == [log : Logs, state : TxStates]

OnChain(l) == \E i \in 1..Len(chain) :
                /\ chain[i].log = l
                /\ chain[i].state \in {"included", "recorded"}

Undecodable == Strategy = "hybrid_private_batch"

\* ethers estimates gas first, so the node refuses a write that would revert.
Admits(l) == chainFor(Strategy) = "ethereum" => ~ OnChain(l)

ChainMoves(i, from, to) ==
  /\ chain[i].state \in from
  /\ chain' = [chain EXCEPT ![i].state = to]
  /\ UNCHANGED <<server, crashes, callers, queues, handlers, expired, db>>

Include(i) ==
  \E s \in Executions(chainFor(Strategy), ~ OnChain(chain[i].log) /\ ~ Undecodable) :
    ChainMoves(i, {"pool"}, s)
Finalize(i) == ChainMoves(i, {"included", "reverted"}, Finalized(chain[i].state))
Reorg(i) == ChainMoves(i, {"included", "reverted"}, "pool")
DropTx(i) == chainFor(Strategy) = "ethereum" /\ ChainMoves(i, {"pool"}, "dropped")

checkTx(i) == CheckTx(chainFor(Strategy), chain[i].state, ChainFaults)

-----------------------------------------------------------------------------
(***************************************************************************)
(* The caller: POST /log with writeMode async, or the benchmark engine.    *)
(* publish throws once the connection is lost, since the server keeps its  *)
(* closed channel and still believes mqReady.                              *)
(***************************************************************************)
PublishLog(l) ==
  /\ client[l] = "new"
  /\ server # "down"
  /\ IF server = "up"
     THEN /\ outbox' = Append(outbox, Frame("submit", l, 0, TRUE))
          /\ client' = [client EXCEPT ![l] = "accepted"]
     ELSE /\ client' = [client EXCEPT ![l] = "error"]
          /\ UNCHANGED outbox
  /\ UNCHANGED <<server, crashes, replies, submitQ, submitUnacked, confirmQ,
                 confirmUnacked, handlers, expired, db, chain>>

\* The broker takes the next frame of the channel.  A reply whose temporary
\* queue is gone is dropped.
BrokerTakes ==
  /\ outbox # <<>>
  /\ outbox' = Tail(outbox)
  /\ LET f == Head(outbox) IN
     \/ /\ f.op = "submit"
        /\ submitQ' = Append(submitQ, f.log)
        /\ UNCHANGED <<submitUnacked, confirmQ, confirmUnacked, replies>>
     \/ /\ f.op = "confirm"
        /\ confirmQ' = Append(confirmQ, [log |-> f.log, tx |-> f.tx])
        /\ UNCHANGED <<submitQ, submitUnacked, confirmUnacked, replies>>
     \/ /\ f.op = "reply"
        /\ replies' = IF client[f.log] = "accepted"
                      THEN [replies EXCEPT ![f.log] =
                              Append(@, [ok |-> f.ok, tx |-> f.tx])]
                      ELSE replies
        /\ UNCHANGED <<submitQ, submitUnacked, confirmQ, confirmUnacked>>
     \/ /\ f.op = "ackSubmit"
        /\ submitQ' = Tail(submitQ)
        /\ submitUnacked' = FALSE
        /\ UNCHANGED <<confirmQ, confirmUnacked, replies>>
     \/ /\ f.op = "ackConfirm"
        /\ confirmQ' = Tail(confirmQ)
        /\ confirmUnacked' = FALSE
        /\ UNCHANGED <<submitQ, submitUnacked, replies>>
  /\ UNCHANGED <<server, crashes, client, handlers, expired, db, chain>>

-----------------------------------------------------------------------------
(***************************************************************************)
(* The submit handler and, for hybrid strategies, HybridStorage.writeLog.  *)
(* A failed step of writeLog makes it return without a txId.               *)
(***************************************************************************)
\* A faulty variant of TakeSubmit: no prefetch limit.
TakeSubmitAny ==
  /\ server = "up" /\ submitQ # <<>>
  /\ submitUnacked' = TRUE
  /\ sub' = [IdleSub EXCEPT !.pc = IF isHybrid(Strategy) THEN "insert" ELSE "anchor"]
  /\ UNCHANGED <<server, crashes, callers, outbox, submitQ, confirmQ,
                 confirmUnacked, con, expired, db, chain>>

TakeSubmit ==
  /\ server = "up" /\ submitQ # <<>> /\ ~ submitUnacked
  /\ submitUnacked' = TRUE
  /\ sub' = [IdleSub EXCEPT !.pc = IF isHybrid(Strategy) THEN "insert" ELSE "anchor"]
  /\ UNCHANGED <<server, crashes, callers, outbox, submitQ, confirmQ,
                 confirmUnacked, con, expired, db, chain>>

\* A faulty variant of InsertAnchored: an upsert.
UpsertAnchored ==
  /\ sub.pc = "insert"
  /\ db' = [db EXCEPT ![SubLog] = Row("pending", 0)]
  /\ sub' = [sub EXCEPT !.pc = "anchor"]
  /\ UNCHANGED <<server, crashes, callers, queues, con, expired, chain>>

InsertAnchored ==
  /\ sub.pc = "insert"
  /\ LET inserted == [db EXCEPT ![SubLog] = Row("pending", 0)]
         fresh    == db[SubLog] = Absent
     IN \/ /\ fresh
           /\ db' = inserted
           /\ sub' = [sub EXCEPT !.pc = "anchor"]
        \/ \* the primary key, or the database, refuses the row
           /\ ~ fresh \/ DbFaults
           /\ db' = db
           /\ sub' = [sub EXCEPT !.pc = "respond"]
        \/ \* the row is written but the answer is lost
           /\ fresh /\ DbFaults
           /\ db' = inserted
           /\ sub' = [sub EXCEPT !.pc = "respond"]
  /\ UNCHANGED <<server, crashes, callers, queues, con, expired, chain>>

\* anchor.writeLog(entry, { waitForConfirmation: false })
AnchorWriteLog ==
  /\ sub.pc = "anchor"
  /\ LET next == IF isHybrid(Strategy) THEN "status" ELSE "respond"
         submitted == Append(chain, [log |-> SubLog, state |-> "pool"])
     IN \/ /\ Admits(SubLog)
           /\ chain' = submitted
           /\ sub' = [pc |-> next, tx |-> Len(submitted), ok |-> TRUE]
        \/ /\ ChainFaults \/ ~ Admits(SubLog)
           /\ chain' = chain
           /\ sub' = [pc |-> next, tx |-> 0, ok |-> FALSE]
        \/ \* the node takes the transaction but the answer is lost
           /\ ChainFaults /\ Admits(SubLog)
           /\ chain' = submitted
           /\ sub' = [pc |-> next, tx |-> 0, ok |-> FALSE]
  /\ UNCHANGED <<server, crashes, callers, queues, con, expired, db>>

UpdateAnchorStatus ==
  /\ sub.pc = "status"
  /\ LET updated == [db EXCEPT ![SubLog] =
                       Row(IF sub.ok THEN "pending" ELSE "failed", sub.tx)]
     IN \/ /\ HasStatusColumn
           /\ db' = updated
           /\ sub' = [sub EXCEPT !.pc = "respond"]
        \/ /\ DbFaults \/ ~ HasStatusColumn
           /\ db' = db \/ (HasStatusColumn /\ db' = updated)
           /\ sub' = [sub EXCEPT !.pc = "respond", !.tx = 0]
  /\ UNCHANGED <<server, crashes, callers, queues, con, expired, chain>>

\* Faulty variants of WithSubmitOutcome: a reply besides the confirm message,
\* and a confirm message only for callers that wait.
ReplyAtSubmit(frames) ==
  LET told == IF SubLog \in ReplyTo
              THEN Append(frames, Frame("reply", SubLog, 0, TRUE)) ELSE frames
  IN IF sub.tx # 0 THEN Append(told, Frame("confirm", SubLog, sub.tx, TRUE)) ELSE told
ConfirmIfAwaited(frames) ==
  IF SubLog \notin ReplyTo THEN frames
  ELSE IF sub.tx # 0 THEN Append(frames, Frame("confirm", SubLog, sub.tx, TRUE))
  ELSE Append(frames, Frame("reply", SubLog, 0, TRUE))

\* What the handler writes to the channel before the ack in its finally block:
\* the confirm message of a submitted transaction, else a successful reply,
\* whatever result.success says.  The catch block, which replies failure, is left
\* out: the storage adapters of a chain strategy return their errors in the result,
\* publishConfirm throws only once the channel is closed (DieOnClosedChannel), and
\* pickStorage finds no storage only if MongoDB was not reached at the start.
WithSubmitOutcome(frames) ==
  IF sub.tx # 0 THEN Append(frames, Frame("confirm", SubLog, sub.tx, TRUE))
  ELSE IF SubLog \in ReplyTo
  THEN Append(frames, Frame("reply", SubLog, 0, TRUE)) ELSE frames

FinishSubmit ==
  /\ server = "up" /\ sub.pc = "respond"
  /\ outbox' = Append(WithSubmitOutcome(outbox),
                      Frame("ackSubmit", SubLog, 0, TRUE))
  /\ sub' = IdleSub
  /\ UNCHANGED <<server, crashes, callers, submitQ, submitUnacked, confirmQ,
                 confirmUnacked, con, expired, db, chain>>

-----------------------------------------------------------------------------
(***************************************************************************)
(* The confirm handler.                                                    *)
(***************************************************************************)
TakeConfirm ==
  /\ server = "up" /\ confirmQ # <<>> /\ ~ confirmUnacked
  /\ confirmUnacked' = TRUE
  /\ con' = [IdleCon EXCEPT !.pc = "poll"]
  /\ UNCHANGED <<server, crashes, callers, outbox, submitQ, submitUnacked,
                 confirmQ, sub, expired, db, chain>>

\* A faulty variant of Poll: one turn too many.
PollOnceMore ==
  /\ con.pc = "poll"
  /\ \E r \in checkTx(ConMsg.tx) :
       /\ con' = [pc |-> IF r = "pending" /\ con.n < MaxPolls THEN "poll"
                         ELSE IF isHybrid(Strategy) THEN "update" ELSE "respond",
                  n |-> con.n + 1, result |-> r, err |-> FALSE]
       /\ UNCHANGED expired
  /\ UNCHANGED <<server, crashes, callers, queues, sub, db, chain>>

\* One turn of the polling loop, which ends on an answer or after MaxPolls.
Poll ==
  /\ con.pc = "poll"
  /\ \E r \in checkTx(ConMsg.tx) :
       /\ con' = [pc |-> IF r = "pending" /\ con.n + 1 < MaxPolls THEN "poll"
                         ELSE IF isHybrid(Strategy) THEN "update" ELSE "respond",
                  n |-> con.n + 1, result |-> r, err |-> FALSE]
       /\ expired' = IF r = "pending" /\ con.n + 1 = MaxPolls
                     THEN expired \cup {ConMsg.log} ELSE expired
  /\ UNCHANGED <<server, crashes, callers, queues, sub, db, chain>>

\* A faulty variant of ConfirmStatus: whatever the polls said is a confirmation.
ConfirmAlways ==
  /\ con.pc = "update"
  /\ db' = [db EXCEPT ![ConMsg.log] = Row("confirmed", ConMsg.tx)]
  /\ con' = [con EXCEPT !.pc = "respond"]
  /\ UNCHANGED <<server, crashes, callers, queues, sub, expired, chain>>

\* For a batch strategy the update addresses batches_*, which has no row keyed
\* by an entry's id; otherwise it overwrites the row's status.
ConfirmStatus ==
  /\ con.pc = "update"
  /\ LET updated == IF isBatchStrategy(Strategy) THEN db
                    ELSE [db EXCEPT ![ConMsg.log] = Row(con.result, ConMsg.tx)]
     IN \/ /\ db' = updated
           /\ con' = [con EXCEPT !.pc = "respond"]
        \/ /\ DbFaults
           /\ db' \in {db, updated}
           /\ con' = [con EXCEPT !.pc = "respond", !.err = TRUE]
  /\ UNCHANGED <<server, crashes, callers, queues, sub, expired, chain>>

\* A faulty variant of WithConfirmOutcome: only a confirmation is reported.
ReplyIfConfirmed(frames) ==
  IF ConMsg.log \in ReplyTo /\ con.result = "confirmed" /\ ~ con.err
  THEN Append(frames, Frame("reply", ConMsg.log, ConMsg.tx, TRUE)) ELSE frames

\* success is confirmed; the catch path replies failure, without the txHash.
WithConfirmOutcome(frames) ==
  IF ConMsg.log \notin ReplyTo THEN frames
  ELSE IF con.err THEN Append(frames, Frame("reply", ConMsg.log, 0, FALSE))
  ELSE Append(frames, Frame("reply", ConMsg.log, ConMsg.tx,
                            con.result = "confirmed"))

FinishConfirm ==
  /\ server = "up" /\ con.pc = "respond"
  /\ outbox' = Append(WithConfirmOutcome(outbox),
                      Frame("ackConfirm", ConMsg.log, 0, TRUE))
  /\ con' = IdleCon
  /\ UNCHANGED <<server, crashes, callers, submitQ, submitUnacked, confirmQ,
                 confirmUnacked, sub, expired, db, chain>>

-----------------------------------------------------------------------------
(***************************************************************************)
(* Failures.  A lost connection loses the frames not yet at the broker and *)
(* the callers' temporary queues, and requeues what was not acknowledged.  *)
(* The server does not reconnect: a handler that finishes on the closed    *)
(* channel throws in its finally block and again in nack, an unhandled     *)
(* rejection that ends the process.                                        *)
(***************************************************************************)
\* A faulty variant of LoseConnection: consumers without acknowledgements, so
\* that a delivered submit message is gone with the process.
LoseDelivered(to) ==
  /\ server' = to
  /\ outbox' = <<>>
  /\ submitQ' = IF submitUnacked /\ to = "down" THEN Tail(submitQ) ELSE submitQ
  /\ submitUnacked' = FALSE
  /\ confirmUnacked' = FALSE
  /\ client' = [l \in Logs |-> IF l \in ReplyTo /\ client[l] = "accepted"
                               THEN "gone" ELSE client[l]]
  /\ UNCHANGED <<confirmQ, replies, expired, db, chain>>

LoseConnection(to) ==
  /\ server' = to
  /\ outbox' = <<>>
  /\ submitUnacked' = FALSE
  /\ confirmUnacked' = FALSE
  /\ client' = [l \in Logs |-> IF l \in ReplyTo /\ client[l] = "accepted"
                               THEN "gone" ELSE client[l]]
  /\ UNCHANGED <<submitQ, confirmQ, replies, expired, db, chain>>

Disconnect ==
  /\ server = "up" /\ crashes < MaxCrashes
  /\ crashes' = crashes + 1
  /\ LoseConnection("cut")
  /\ UNCHANGED handlers

Crash ==
  /\ server # "down" /\ crashes < MaxCrashes
  /\ crashes' = crashes + 1
  /\ LoseConnection("down")
  /\ sub' = IdleSub /\ con' = IdleCon

DieOnClosedChannel ==
  /\ server = "cut" /\ "respond" \in {sub.pc, con.pc}
  /\ LoseConnection("down")
  /\ sub' = IdleSub /\ con' = IdleCon
  /\ UNCHANGED crashes

\* The operator starts the process (again): main() connects and subscribes.
Restart ==
  /\ server # "up"
  /\ server' = "up"
  /\ sub' = IdleSub /\ con' = IdleCon
  /\ UNCHANGED <<crashes, callers, queues, expired, db, chain>>

-----------------------------------------------------------------------------
Init ==
  /\ server = "up" /\ crashes = 0
  /\ client = [l \in Logs |-> "new"]
  /\ outbox = <<>>
  /\ submitQ = <<>> /\ submitUnacked = FALSE
  /\ confirmQ = <<>> /\ confirmUnacked = FALSE
  /\ replies = [l \in Logs |-> <<>>]
  /\ sub = IdleSub /\ con = IdleCon
  /\ expired = {}
  /\ db = [l \in Logs |-> Absent]
  /\ chain = <<>>

SubmitHandler  == TakeSubmit \/ InsertAnchored \/ AnchorWriteLog
                  \/ UpdateAnchorStatus \/ FinishSubmit
ConfirmHandler == TakeConfirm \/ Poll \/ ConfirmStatus \/ FinishConfirm
ChainStep(i)   == Include(i) \/ Finalize(i) \/ Reorg(i) \/ DropTx(i)

Next ==
  \/ \E l \in Logs : PublishLog(l)
  \/ BrokerTakes
  \/ SubmitHandler
  \/ ConfirmHandler
  \/ \E i \in 1..Len(chain) : ChainStep(i)
  \/ Disconnect \/ Crash \/ DieOnClosedChannel \/ Restart

Spec == Init /\ [][Next]_vars

\* Callbacks of a live process run, written frames reach the broker while the
\* connection lasts, and the chain keeps producing blocks.  Callers, failures
\* and the operator are not fair.
Fairness ==
  /\ WF_vars(BrokerTakes)
  /\ WF_vars(SubmitHandler)
  /\ WF_vars(ConfirmHandler)
  /\ WF_vars(DieOnClosedChannel)
  /\ WF_vars(\E i \in 1..Len(chain) : Include(i) \/ Finalize(i))

FairSpec == Spec /\ Fairness

-----------------------------------------------------------------------------
(***************************************************************************)
(* Properties.                                                             *)
(***************************************************************************)

\* The type invariant: message, handler, row and transaction shapes.
TypeOK ==
  /\ server \in {"up", "cut", "down"}
  /\ crashes \in 0..MaxCrashes
  /\ client \in [Logs -> {"new", "accepted", "gone", "error"}]
  /\ outbox \in Seq(Frames)
  /\ submitQ \in Seq(Logs) /\ submitUnacked \in BOOLEAN
  /\ confirmQ \in Seq(ConfirmMsgs) /\ confirmUnacked \in BOOLEAN
  /\ replies \in [Logs -> Seq(Results)]
  /\ sub \in SubStates /\ con \in ConStates
  /\ expired \subseteq Logs
  /\ db \in [Logs -> Rows]
  /\ chain \in Seq(Txs)

\* prefetch(1) with the ack in the finally block: while a handler runs, its
\* message is still the head of the queue and its ack is not yet written; an
\* ack on its way is the only one and finds its message at the head.
Carries(frames, op) == \E i \in 1..Len(frames) : frames[i].op = op
AcksOnce(frames) ==
  \A i, j \in 1..Len(frames) :
    frames[i].op = frames[j].op /\ frames[i].op \in {"ackSubmit", "ackConfirm"}
      => i = j
HandlersOwnHead ==
  /\ sub.pc # "idle" => /\ submitQ # <<>> /\ ~ Carries(outbox, "ackSubmit")
                        /\ submitUnacked \/ server = "cut"
  /\ con.pc # "idle" => /\ confirmQ # <<>> /\ ~ Carries(outbox, "ackConfirm")
                        /\ confirmUnacked \/ server = "cut"
  /\ Carries(outbox, "ackSubmit") => submitQ # <<>> /\ submitUnacked
  /\ Carries(outbox, "ackConfirm") => confirmQ # <<>> /\ confirmUnacked
  /\ AcksOnce(outbox)
  /\ server # "up" => outbox = <<>>
  /\ server = "down" => sub.pc = "idle" /\ con.pc = "idle"

\* A hybrid entry is sent to the chain at most once, however often its submit
\* message is redelivered: the row is inserted before the submission and its
\* primary key refuses the second run (HybridStorage.writeLog).
AnchoredOnce ==
  isHybrid(Strategy) =>
    \A i, j \in 1..Len(chain) : chain[i].log = chain[j].log => i = j

\* What a row says of its transaction is so: the transaction is the entry's
\* own, and a confirmed row has one that is final on the chain (checkTx and the
\* two writers of anchor_status).  A failed row promises nothing of the chain: its
\* failure receipt may be undone by a reorganisation.
StatusMatchesChain ==
  \A l \in Logs :
    /\ db[l].tx # 0 => db[l].tx \in 1..Len(chain) /\ chain[db[l].tx].log = l
    /\ db[l].status = "confirmed" => /\ db[l].tx # 0
                                     /\ chain[db[l].tx].state = "recorded"

\* A successful reply that names a transaction means the entry is recorded on
\* the chain (the reply of the confirm handler).
SuccessIsRecorded ==
  \A l \in Logs : \A k \in 1..Len(replies[l]) :
    (replies[l][k].ok /\ replies[l][k].tx # 0) =>
      \E i \in 1..Len(chain) : chain[i] = [log |-> l, state |-> "recorded"]

\* A caller never gets two results for one entry, so that the engine's count of
\* collected results is a count of entries in spite of redeliveries, and a result
\* that names a transaction is true of the chain: the transaction is the entry's
\* own, and success means that the entry is recorded (the replies of the confirm
\* handler, after crashes and faults).  Of a success without a transaction, which
\* the submit handler also sends for a failed submission, nothing is promised: that
\* it is not true of the chain is what SuccessIsSubmitted shows.
RepliedTrulyOnce ==
  /\ \A l \in Logs : Len(replies[l]) <= 1
  /\ \A l \in Logs : \A k \in 1..Len(replies[l]) :
       replies[l][k].tx # 0 => /\ replies[l][k].tx \in 1..Len(chain)
                               /\ chain[replies[l][k].tx].log = l
  /\ SuccessIsRecorded

\* Without a lost connection the pipeline of an anchored strategy implements
\* the row lifecycle: stored before anchored, settled once, confirmed only if
\* recorded (HybridStorage.writeLog and the confirm handler together).
Lifecycle == INSTANCE AnchorLifecycle WITH
  status   <- [l \in Logs |-> db[l].status],
  recorded <- {l \in Logs : \E i \in 1..Len(chain) :
                              chain[i] = [log |-> l, state |-> "recorded"]}
ImplementsLifecycle == Lifecycle!Spec

\* Every caller waiting on a replyTo queue gets its result, unless the queue
\* itself is lost: both handlers reply on every path that ends the message.
EveryCallerAnswered ==
  \A l \in ReplyTo :
    client[l] = "accepted" ~> (replies[l] # <<>> \/ client[l] = "gone")

\* While no connection is lost, every pending row whose transaction is known is
\* settled, or polled to the limit (the hand-off from the submit handler to the
\* confirm handler, the polling loop and its update).
PendingIsFollowed ==
  \A l \in Logs :
    (db[l].status = "pending" /\ db[l].tx # 0)
      ~> \/ db[l].status \in {"confirmed", "failed"}
         \/ l \in expired
         \/ crashes > 0

\* An entry the broker holds gets its row if the server eventually stays up,
\* whatever was lost before: queues are durable and acks come last.
QueuedIsStored ==
  <>[](server = "up") =>
    \A l \in Logs : (\E i \in 1..Len(submitQ) : submitQ[i] = l) ~> db[l] # Absent

\* "Submit-only on chain — confirmation is handled by the confirm queue": the
\* same across lost connections, for a server that eventually stays up.
PendingIsFollowedAfterRestart ==
  <>[](server = "up") =>
    \A l \in Logs :
      (db[l].status = "pending" /\ db[l].tx # 0)
        ~> (db[l].status \in {"confirmed", "failed"} \/ l \in expired)

\* "Already confirmed or no chain — reply directly": a successful reply of a
\* chain strategy means the entry has been sent to the chain.
SuccessIsSubmitted ==
  \A l \in Logs : \A k \in 1..Len(replies[l]) :
    replies[l][k].ok => \E i \in 1..Len(chain) : chain[i].log = l
=============================================================================
