--------------------------- MODULE AnchoringProofs ---------------------------
(***************************************************************************)
(* Proofs about the asynchronous write path, for every set of entries,     *)
(* strategy, database, poll budget, and any number of crashes and faults.  *)
(* First what is anchored and stored; then that what a row and what a      *)
(* reply says of an entry's transaction is so; last the refinement.        *)
(***************************************************************************)
EXTENDS Anchoring, Functions, TLAPS

\* A handler that still polls has polls left.
PollsLeft == con.pc = "poll" => con.n < MaxPolls

Shape == TypeOK /\ HandlersOwnHead /\ PollsLeft

\* The frames of an ack, of a confirm message and of a reply.
AckS(l) == Frame("ackSubmit", l, 0, TRUE)
AckC(l) == Frame("ackConfirm", l, 0, TRUE)

-----------------------------------------------------------------------------
\* Append and Tail keep the type of a sequence.
LEMMA AppendType ==
  ASSUME NEW S, NEW s \in Seq(S), NEW e \in S
  PROVE  Append(s, e) \in Seq(S)
  OBVIOUS

LEMMA TailType ==
  ASSUME NEW S, NEW s \in Seq(S), s # <<>>
  PROVE  Tail(s) \in Seq(S)
  OBVIOUS

\* Writing a frame adds its operation, and at most one ack of each kind stays.
LEMMA AppendFrame ==
  ASSUME NEW s \in Seq(Frames), NEW f \in Frames
  PROVE  /\ \A op : Carries(Append(s, f), op) <=> Carries(s, op) \/ f.op = op
         /\ AcksOnce(s) /\ (f.op \in {"ackSubmit", "ackConfirm"} => ~ Carries(s, f.op))
              => AcksOnce(Append(s, f))
  <1> DEFINE t == Append(s, f)
  <1>1. /\ Len(t) = Len(s) + 1 /\ Len(s) \in Nat
        /\ \A i \in 1..Len(s) : t[i] = s[i]
        /\ t[Len(s) + 1] = f
    OBVIOUS
  <1> HIDE DEF t
  <1>2. \A i \in 1..Len(t) : i \in 1..Len(s) \/ i = Len(s) + 1
    BY <1>1
  <1>3. ASSUME NEW op PROVE Carries(t, op) <=> Carries(s, op) \/ f.op = op
    <2>1. ASSUME Carries(s, op) PROVE Carries(t, op)
      <3>1. PICK i \in 1..Len(s) : s[i].op = op
        BY <2>1 DEF Carries
      <3>2. i \in 1..Len(t) /\ t[i].op = op
        BY <1>1, <3>1
      <3> QED BY <3>2 DEF Carries
    <2>2. ASSUME f.op = op PROVE Carries(t, op)
      <3>1. Len(s) + 1 \in 1..Len(t) /\ t[Len(s) + 1].op = op
        BY <1>1, <2>2
      <3> QED BY <3>1 DEF Carries
    <2>3. ASSUME Carries(t, op) PROVE Carries(s, op) \/ f.op = op
      BY <1>1, <1>2, <2>3 DEF Carries
    <2> QED BY <2>1, <2>2, <2>3
  <1>4. ASSUME AcksOnce(s), f.op \in {"ackSubmit", "ackConfirm"} => ~ Carries(s, f.op)
        PROVE  AcksOnce(t)
    <2> SUFFICES ASSUME NEW i \in 1..Len(t), NEW j \in 1..Len(t), t[i].op = t[j].op,
                        t[i].op \in {"ackSubmit", "ackConfirm"}
                 PROVE  i = j
      BY DEF AcksOnce
    <2>1. CASE i \in 1..Len(s) /\ j \in 1..Len(s)
      BY <1>1, <1>4, <2>1 DEF AcksOnce
    <2>2. CASE i = Len(s) + 1 /\ j \in 1..Len(s)
      BY <1>1, <1>4, <2>2 DEF Carries
    <2>3. CASE i \in 1..Len(s) /\ j = Len(s) + 1
      BY <1>1, <1>4, <2>3 DEF Carries
    <2> QED BY <1>2, <2>1, <2>2, <2>3
  <1> QED BY <1>3, <1>4 DEF t

\* Taking the first frame removes its operation if it is an ack.
LEMMA TailFrame ==
  ASSUME NEW s \in Seq(Frames), s # <<>>, AcksOnce(s)
  PROVE  /\ \A op : Carries(Tail(s), op) => Carries(s, op)
         /\ AcksOnce(Tail(s))
         /\ Carries(s, Head(s).op)
         /\ Head(s).op \in {"ackSubmit", "ackConfirm"} => ~ Carries(Tail(s), Head(s).op)
  <1> DEFINE t == Tail(s)
  <1>1. /\ Len(t) = Len(s) - 1 /\ Len(s) \in Nat \ {0}
        /\ \A i \in 1..Len(t) : t[i] = s[i + 1]
        /\ Head(s) = s[1]
    OBVIOUS
  <1> HIDE DEF t
  <1>2. \A i \in 1..Len(t) : i + 1 \in 1..Len(s)
    BY <1>1
  <1>3. \A op : Carries(t, op) => Carries(s, op)
    BY <1>1, <1>2 DEF Carries
  <1>4. AcksOnce(t)
    BY <1>1, <1>2 DEF AcksOnce
  <1>5. Carries(s, Head(s).op)
    BY <1>1 DEF Carries
  <1>6. ASSUME Head(s).op \in {"ackSubmit", "ackConfirm"}, Carries(t, Head(s).op)
        PROVE  FALSE
    <2>1. PICK i \in 1..Len(t) : t[i].op = s[1].op
      BY <1>1, <1>6 DEF Carries
    <2>2. 1 \in 1..Len(s) /\ i + 1 \in 1..Len(s) /\ s[i + 1].op = s[1].op
      BY <1>1, <1>2, <2>1
    <2> QED BY <1>1, <1>6, <2>2 DEF AcksOnce
  <1> QED BY <1>3, <1>4, <1>5, <1>6 DEF t

\* The message of a running handler.
LEMMA SubLogType ==
  ASSUME TypeOK, submitQ # <<>>
  PROVE  SubLog \in Logs
  BY DEF TypeOK, SubLog

LEMMA ConMsgType ==
  ASSUME TypeOK, confirmQ # <<>>
  PROVE  ConMsg.log \in Logs /\ ConMsg.tx \in Nat
  <1>1. ConMsg \in ConfirmMsgs
    BY DEF TypeOK, ConMsg
  <1> QED BY <1>1 DEF ConfirmMsgs

\* Whatever a finishing handler writes is some frame followed by its ack, or
\* the ack alone.
LEMMA SubmitWrites ==
  ASSUME TypeOK, FinishSubmit, submitQ # <<>>
  PROVE  \/ outbox' = Append(outbox, AckS(SubLog))
         \/ \E f \in Frames : /\ f.op \in {"confirm", "reply"}
                              /\ outbox' = Append(Append(outbox, f), AckS(SubLog))
  <1>1. SubLog \in Logs /\ sub.tx \in Nat
    BY SubLogType DEF TypeOK, SubStates
  <1>2. /\ Frame("confirm", SubLog, sub.tx, TRUE) \in Frames
        /\ Frame("reply", SubLog, 0, TRUE) \in Frames
        /\ Frame("confirm", SubLog, sub.tx, TRUE).op = "confirm"
        /\ Frame("reply", SubLog, 0, TRUE).op = "reply"
    BY <1>1 DEF Frame, Frames
  <1>3. outbox' = Append(WithSubmitOutcome(outbox), AckS(SubLog))
    BY DEF FinishSubmit, AckS
  <1> QED BY <1>2, <1>3 DEF WithSubmitOutcome

LEMMA ConfirmWrites ==
  ASSUME TypeOK, FinishConfirm, confirmQ # <<>>
  PROVE  \/ outbox' = Append(outbox, AckC(ConMsg.log))
         \/ \E f \in Frames : /\ f.op \in {"confirm", "reply"}
                              /\ outbox' = Append(Append(outbox, f), AckC(ConMsg.log))
  <1>1. ConMsg.log \in Logs /\ ConMsg.tx \in Nat
    BY ConMsgType
  <1>a. (con.result = "confirmed") \in BOOLEAN
    OBVIOUS
  <1>2. /\ Frame("reply", ConMsg.log, 0, FALSE) \in Frames
        /\ Frame("reply", ConMsg.log, ConMsg.tx, con.result = "confirmed") \in Frames
        /\ Frame("reply", ConMsg.log, 0, FALSE).op = "reply"
        /\ Frame("reply", ConMsg.log, ConMsg.tx, con.result = "confirmed").op = "reply"
    BY <1>1, <1>a DEF Frame, Frames
  <1>3. outbox' = Append(WithConfirmOutcome(outbox), AckC(ConMsg.log))
    BY DEF FinishConfirm, AckC
  <1> QED BY <1>2, <1>3 DEF WithConfirmOutcome

-----------------------------------------------------------------------------
\* Every action keeps the types, given that handlers own the heads of their
\* queues and a polling handler has polls left.
LEMMA TypeStep == Shape /\ [Next]_vars => TypeOK'
  <1> SUFFICES ASSUME Shape, [Next]_vars PROVE TypeOK'
    OBVIOUS
  <1> USE DEF Shape
  <1>a. /\ outbox \in Seq(Frames) /\ submitQ \in Seq(Logs)
        /\ confirmQ \in Seq(ConfirmMsgs) /\ replies \in [Logs -> Seq(Results)]
        /\ submitUnacked \in BOOLEAN /\ confirmUnacked \in BOOLEAN
        /\ chain \in Seq(Txs)
    BY DEF TypeOK
  <1>b. sub \in SubStates /\ con \in ConStates
    BY DEF TypeOK
  <1>1. CASE UNCHANGED vars
    BY <1>1 DEF TypeOK, vars, callers, queues, handlers
  <1>2. ASSUME NEW l \in Logs, PublishLog(l) PROVE TypeOK'
    <2>1. Frame("submit", l, 0, TRUE) \in Frames
      BY DEF Frame, Frames
    <2> HIDE DEF Shape
    <2>a. outbox' \in {outbox, Append(outbox, Frame("submit", l, 0, TRUE))}
      BY <1>2 DEF PublishLog
    <2>2. outbox' \in Seq(Frames)
      BY <1>a, <2>1, <2>a, AppendType
    <2> USE DEF Shape
    <2>3. client' \in [Logs -> {"new", "accepted", "gone", "error"}]
      BY <1>2 DEF PublishLog, TypeOK
    <2> QED BY <1>2, <2>2, <2>3 DEF PublishLog, TypeOK, handlers
  <1>3. CASE BrokerTakes
    <2> DEFINE f == Head(outbox)
    <2>1. f \in Frames /\ Tail(outbox) \in Seq(Frames)
      BY <1>3 DEF BrokerTakes, TypeOK
    <2>2. f.log \in Logs /\ f.tx \in Nat /\ f.ok \in BOOLEAN
      BY <2>1 DEF Frames
    <2>a. /\ [log |-> f.log, tx |-> f.tx] \in ConfirmMsgs
          /\ [ok |-> f.ok, tx |-> f.tx] \in Results
      BY <2>2 DEF ConfirmMsgs, Results
    <2>3. outbox' \in Seq(Frames)
      BY <1>3, <2>1 DEF BrokerTakes
    <2>4. f = outbox[1] /\ 1 \in 1..Len(outbox)
      BY <1>3 DEF BrokerTakes, TypeOK
    <2>5. f.op = "ackSubmit" => submitQ # <<>>
      BY <2>4 DEF HandlersOwnHead, Carries
    <2>6. f.op = "ackConfirm" => confirmQ # <<>>
      BY <2>4 DEF HandlersOwnHead, Carries
    <2> DEFINE g == [log |-> f.log, tx |-> f.tx]
               r == [ok |-> f.ok, tx |-> f.tx]
    <2>b. \/ submitQ' = submitQ
          \/ submitQ' = Append(submitQ, f.log)
          \/ f.op = "ackSubmit" /\ submitQ' = Tail(submitQ)
      BY <1>3 DEF BrokerTakes
    <2>c. \/ confirmQ' = confirmQ
          \/ confirmQ' = Append(confirmQ, g)
          \/ f.op = "ackConfirm" /\ confirmQ' = Tail(confirmQ)
      BY <1>3 DEF BrokerTakes
    <2>d. \/ replies' = replies
          \/ replies' = [replies EXCEPT ![f.log] = Append(@, r)]
      BY <1>3 DEF BrokerTakes
    <2>e. /\ submitUnacked' = submitUnacked \/ submitUnacked' = FALSE
          /\ confirmUnacked' = confirmUnacked \/ confirmUnacked' = FALSE
      BY <1>3 DEF BrokerTakes
    <2> HIDE DEF f, g, r, Shape
    <2>7. submitQ' \in Seq(Logs)
      BY <1>a, <2>2, <2>5, <2>b, AppendType, TailType
    <2>8. confirmQ' \in Seq(ConfirmMsgs)
      BY <1>a, <2>a, <2>6, <2>c, AppendType, TailType DEF g
    <2>9. replies' \in [Logs -> Seq(Results)]
      <3>1. Append(replies[f.log], r) \in Seq(Results)
        BY <1>a, <2>2, <2>a, AppendType DEF r
      <3> QED BY <1>a, <2>2, <2>d, <3>1
    <2>10. submitUnacked' \in BOOLEAN /\ confirmUnacked' \in BOOLEAN
      BY <1>a, <2>e
    <2> USE DEF Shape
    <2> QED BY <1>3, <2>3, <2>7, <2>8, <2>9, <2>10 DEF BrokerTakes, TypeOK, handlers
  <1>4. CASE TakeSubmit
    <2>1. sub' \in SubStates
      BY <1>4 DEF TakeSubmit, IdleSub, SubStates
    <2> QED BY <1>4, <2>1 DEF TakeSubmit, TypeOK, callers
  <1>5. CASE InsertAnchored
    <2>1. SubLog \in Logs
      BY <1>5, SubLogType DEF InsertAnchored, HandlersOwnHead
    <2>2. Row("pending", 0) \in Rows
      BY DEF Row, Rows
    <2>3. sub' \in SubStates
      BY <1>5, <1>b DEF InsertAnchored, SubStates
    <2>4. db' \in [Logs -> Rows]
      BY <1>5, <2>1, <2>2 DEF InsertAnchored, TypeOK
    <2> QED BY <1>5, <2>3, <2>4 DEF InsertAnchored, TypeOK, callers, queues
  <1>6. CASE AnchorWriteLog
    <2>1. SubLog \in Logs
      BY <1>6, SubLogType DEF AnchorWriteLog, HandlersOwnHead
    <2> DEFINE submitted == Append(chain, [log |-> SubLog, state |-> "pool"])
    <2>2. [log |-> SubLog, state |-> "pool"] \in Txs
      BY <2>1 DEF Txs, TxStates
    <2>3. submitted \in Seq(Txs) /\ Len(submitted) \in Nat
      BY <2>2 DEF TypeOK
    <2>4. chain' \in {chain, submitted}
      BY <1>6 DEF AnchorWriteLog
    <2>5. sub' \in SubStates
      <3> HIDE DEF submitted, Shape
      <3>1. \E t \in {0, Len(submitted)} : \E b \in BOOLEAN :
              sub' = [pc |-> IF isHybrid(Strategy) THEN "status" ELSE "respond",
                      tx |-> t, ok |-> b]
        BY <1>6 DEF AnchorWriteLog, submitted
      <3> QED BY <2>3, <3>1 DEF SubStates
    <2> QED BY <1>6, <2>3, <2>4, <2>5 DEF AnchorWriteLog, TypeOK, callers, queues
  <1>7. CASE UpdateAnchorStatus
    <2>1. SubLog \in Logs
      BY <1>7, SubLogType DEF UpdateAnchorStatus, HandlersOwnHead
    <2>2. Row(IF sub.ok THEN "pending" ELSE "failed", sub.tx) \in Rows
      BY DEF Row, Rows, TypeOK, SubStates
    <2>3. sub' \in SubStates
      <3> HIDE DEF Shape
      <3>1. \/ sub' = [sub EXCEPT !.pc = "respond"]
            \/ sub' = [sub EXCEPT !.pc = "respond", !.tx = 0]
        BY <1>7 DEF UpdateAnchorStatus
      <3>2. [sub EXCEPT !.pc = "respond"] \in SubStates
        BY <1>b DEF SubStates
      <3>3. [sub EXCEPT !.pc = "respond", !.tx = 0] \in SubStates
        BY <1>b DEF SubStates
      <3> QED BY <3>1, <3>2, <3>3
    <2>4. db' \in [Logs -> Rows]
      BY <1>7, <2>1, <2>2 DEF UpdateAnchorStatus, TypeOK
    <2> QED BY <1>7, <2>3, <2>4 DEF UpdateAnchorStatus, TypeOK, callers, queues
  <1>8. CASE FinishSubmit
    <2>1. submitQ # <<>>
      BY <1>8 DEF FinishSubmit, HandlersOwnHead
    <2>2. AckS(SubLog) \in Frames
      BY <2>1, SubLogType DEF AckS, Frame, Frames
    <2>3. outbox' \in Seq(Frames)
      BY <1>8, <1>a, <2>1, <2>2, SubmitWrites, AppendType
    <2>4. sub' \in SubStates
      BY <1>8 DEF FinishSubmit, IdleSub, SubStates
    <2> QED BY <1>8, <2>3, <2>4 DEF FinishSubmit, TypeOK, callers
  <1>9. CASE TakeConfirm
    <2>1. con' = [pc |-> "poll", n |-> 0, result |-> "pending", err |-> FALSE]
      BY <1>9 DEF TakeConfirm, IdleCon
    <2>2. con' \in ConStates
      <3> HIDE DEF Shape
      <3> QED BY <2>1, BoundsAssumption DEF ConStates
    <2> QED BY <1>9, <2>2 DEF TakeConfirm, TypeOK, callers
  <1>10. CASE Poll
    <2>1. ConMsg.log \in Logs
      BY <1>10, ConMsgType DEF Poll, HandlersOwnHead
    <2>2. con.n + 1 \in 0..MaxPolls
      BY <1>10, BoundsAssumption DEF Poll, PollsLeft, TypeOK, ConStates
    <2>3. PICK r \in checkTx(ConMsg.tx) :
            /\ con' = [pc |-> IF r = "pending" /\ con.n + 1 < MaxPolls THEN "poll"
                              ELSE IF isHybrid(Strategy) THEN "update" ELSE "respond",
                       n |-> con.n + 1, result |-> r, err |-> FALSE]
            /\ expired' = IF r = "pending" /\ con.n + 1 = MaxPolls
                          THEN expired \cup {ConMsg.log} ELSE expired
      BY <1>10 DEF Poll
    <2>4. r \in {"pending", "confirmed", "failed"}
      BY <2>3 DEF checkTx, CheckTx
    <2>5. con' \in ConStates
      <3> HIDE DEF Shape
      <3>1. \E pc \in {"poll", "update", "respond"} :
              con' = [pc |-> pc, n |-> con.n + 1, result |-> r, err |-> FALSE]
        BY <2>3
      <3> QED BY <2>2, <2>4, <3>1 DEF ConStates
    <2>6. expired' \subseteq Logs
      BY <2>1, <2>3 DEF TypeOK
    <2> QED BY <1>10, <2>5, <2>6 DEF Poll, TypeOK, callers, queues
  <1>11. CASE ConfirmStatus
    <2>1. ConMsg.log \in Logs /\ ConMsg.tx \in Nat
      BY <1>11, ConMsgType DEF ConfirmStatus, HandlersOwnHead
    <2>2. Row(con.result, ConMsg.tx) \in Rows
      BY <2>1 DEF Row, Rows, TypeOK, ConStates
    <2>3. con' \in ConStates
      BY <1>11, <1>b DEF ConfirmStatus, ConStates
    <2>4. db' \in [Logs -> Rows]
      BY <1>11, <2>1, <2>2 DEF ConfirmStatus, TypeOK
    <2> QED BY <1>11, <2>3, <2>4 DEF ConfirmStatus, TypeOK, callers, queues
  <1>12. CASE FinishConfirm
    <2>1. confirmQ # <<>>
      BY <1>12 DEF FinishConfirm, HandlersOwnHead
    <2>2. AckC(ConMsg.log) \in Frames
      BY <2>1, ConMsgType DEF AckC, Frame, Frames
    <2>3. outbox' \in Seq(Frames)
      BY <1>12, <1>a, <2>1, <2>2, ConfirmWrites, AppendType
    <2>4. con' \in ConStates
      BY <1>12, BoundsAssumption DEF FinishConfirm, IdleCon, ConStates
    <2> QED BY <1>12, <2>3, <2>4 DEF FinishConfirm, TypeOK, callers
  <1>13. ASSUME NEW i \in 1..Len(chain), ChainStep(i) PROVE TypeOK'
    <2>1. PICK s \in TxStates : chain' = [chain EXCEPT ![i].state = s]
      BY <1>13 DEF ChainStep, Include, Executions, Finalize, Finalized, Reorg, DropTx,
             ChainMoves, TxStates
    <2>2. UNCHANGED <<server, crashes, callers, queues, handlers, expired, db>>
      BY <1>13 DEF ChainStep, Include, Finalize, Reorg, DropTx, ChainMoves
    <2>a. chain[i] \in Txs
      BY <1>a
    <2>3. [chain[i] EXCEPT !.state = s] \in Txs
      BY <2>a DEF Txs
    <2>4. chain' = [chain EXCEPT ![i] = [chain[i] EXCEPT !.state = s]]
      BY <2>1
    <2>5. chain' \in Seq(Txs)
      BY <1>a, <2>3, <2>4
    <2> QED BY <2>2, <2>5 DEF TypeOK, callers, queues, handlers
  <1>14. ASSUME NEW to \in {"cut", "down"}, LoseConnection(to), crashes' \in 0..MaxCrashes,
                sub' \in SubStates, con' \in ConStates
         PROVE  TypeOK'
    <2>1. client' \in [Logs -> {"new", "accepted", "gone", "error"}]
      BY <1>14 DEF LoseConnection, TypeOK
    <2>2. <<>> \in Seq(Frames)
      OBVIOUS
    <2> QED BY <1>14, <2>1, <2>2 DEF LoseConnection, TypeOK
  <1>15. IdleSub \in SubStates /\ IdleCon \in ConStates
    BY BoundsAssumption DEF IdleSub, IdleCon, SubStates, ConStates
  <1>16. CASE Disconnect
    BY <1>14, <1>16, BoundsAssumption DEF Disconnect, TypeOK, handlers
  <1>17. CASE Crash
    BY <1>14, <1>15, <1>17, BoundsAssumption DEF Crash, TypeOK
  <1>18. CASE DieOnClosedChannel
    BY <1>14, <1>15, <1>18 DEF DieOnClosedChannel, TypeOK
  <1>19. CASE Restart
    BY <1>15, <1>19 DEF Restart, TypeOK, callers, queues
  <1> QED
    BY <1>1, <1>2, <1>3, <1>4, <1>5, <1>6, <1>7, <1>8, <1>9, <1>10, <1>11, <1>12,
       <1>13, <1>16, <1>17, <1>18, <1>19 DEF Next, SubmitHandler, ConfirmHandler

-----------------------------------------------------------------------------
\* A step of a handler that leaves the queues, the channel and the connection
\* alone, and starts nothing, keeps the ownership of the heads.
LEMMA QuietStep ==
  ASSUME HandlersOwnHead, UNCHANGED <<server, queues>>,
         sub'.pc # "idle" => sub.pc # "idle", con'.pc # "idle" => con.pc # "idle"
  PROVE  HandlersOwnHead'
  BY DEF HandlersOwnHead, queues, Carries, AcksOnce

\* So does a step that only writes a frame other than an ack.
LEMMA WriteStep ==
  ASSUME TypeOK, HandlersOwnHead, server = "up", NEW f \in Frames,
         f.op \notin {"ackSubmit", "ackConfirm"}, outbox' = Append(outbox, f),
         UNCHANGED <<server, submitQ, submitUnacked, confirmQ, confirmUnacked, sub, con>>
  PROVE  HandlersOwnHead'
  <1>a. outbox \in Seq(Frames)
    BY DEF TypeOK
  <1>1. /\ \A op : Carries(outbox', op) <=> Carries(outbox, op) \/ f.op = op
        /\ AcksOnce(outbox')
    BY <1>a, AppendFrame DEF HandlersOwnHead
  <1> QED BY <1>1 DEF HandlersOwnHead

\* A finishing handler writes a channel that carries its ack, once, and no new
\* ack of the other handler.
LEMMA AckStep ==
  ASSUME NEW s \in Seq(Frames), NEW t, NEW a \in Frames, AcksOnce(s),
         a.op \in {"ackSubmit", "ackConfirm"}, ~ Carries(s, a.op),
         \/ t = Append(s, a)
         \/ \E f \in Frames : /\ f.op \in {"confirm", "reply"}
                              /\ t = Append(Append(s, f), a)
  PROVE  /\ AcksOnce(t)
         /\ \A op \in {"ackSubmit", "ackConfirm"} :
              Carries(t, op) <=> Carries(s, op) \/ a.op = op
  <1>1. CASE t = Append(s, a)
    BY <1>1, AppendFrame
  <1>2. ASSUME NEW f \in Frames, f.op \in {"confirm", "reply"},
               t = Append(Append(s, f), a)
        PROVE  /\ AcksOnce(t)
               /\ \A op \in {"ackSubmit", "ackConfirm"} :
                    Carries(t, op) <=> Carries(s, op) \/ a.op = op
    <2> DEFINE u == Append(s, f)
    <2>1. u \in Seq(Frames)
      BY AppendType
    <2>2. /\ \A op : Carries(u, op) <=> Carries(s, op) \/ f.op = op
          /\ AcksOnce(u)
      BY <1>2, AppendFrame
    <2>3. t = Append(u, a)
      BY <1>2
    <2> HIDE DEF u
    <2>4. ~ Carries(u, a.op)
      BY <1>2, <2>2
    <2>5. /\ \A op : Carries(t, op) <=> Carries(u, op) \/ a.op = op
          /\ AcksOnce(t)
      BY <2>1, <2>2, <2>3, <2>4, AppendFrame
    <2> QED BY <1>2, <2>2, <2>5
  <1> QED BY <1>1, <1>2

LEMMA OwnStep == Shape /\ [Next]_vars => HandlersOwnHead'
  <1> SUFFICES ASSUME Shape, [Next]_vars PROVE HandlersOwnHead'
    OBVIOUS
  <1>a. TypeOK /\ HandlersOwnHead
    BY DEF Shape
  <1>b. outbox \in Seq(Frames)
    BY <1>a DEF TypeOK
  <1>c. \A op : ~ Carries(<<>>, op)
    BY DEF Carries
  <1>d. AcksOnce(<<>>)
    BY DEF AcksOnce
  <1>1. CASE UNCHANGED vars
    BY <1>a, <1>1, QuietStep DEF vars, handlers
  <1>2. ASSUME NEW l \in Logs, PublishLog(l) PROVE HandlersOwnHead'
    <2>1. /\ Frame("submit", l, 0, TRUE) \in Frames
          /\ Frame("submit", l, 0, TRUE).op = "submit"
      BY DEF Frame, Frames
    <2>2. CASE server = "up"
      <3>1. outbox' = Append(outbox, Frame("submit", l, 0, TRUE))
        BY <1>2, <2>2 DEF PublishLog
      <3>2. UNCHANGED <<server, submitQ, submitUnacked, confirmQ, confirmUnacked, sub, con>>
        BY <1>2 DEF PublishLog, handlers
      <3> QED BY <1>a, <2>1, <2>2, <3>1, <3>2, WriteStep
    <2>3. CASE server # "up"
      BY <1>a, <1>2, <2>3, QuietStep DEF PublishLog, queues, handlers
    <2> QED BY <2>2, <2>3
  <1>3. CASE BrokerTakes
    <2> DEFINE f == Head(outbox)
    <2>1. /\ \A op : Carries(outbox', op) => Carries(outbox, op)
          /\ AcksOnce(outbox')
          /\ Carries(outbox, f.op)
          /\ f.op \in {"ackSubmit", "ackConfirm"} => ~ Carries(outbox', f.op)
      BY <1>a, <1>b, <1>3, TailFrame DEF BrokerTakes, HandlersOwnHead
    <2>2. server = "up" /\ server' = "up" /\ sub' = sub /\ con' = con
      BY <1>a, <1>3 DEF BrokerTakes, HandlersOwnHead, handlers
    <2>3. \/ /\ f.op # "ackSubmit" /\ submitUnacked' = submitUnacked
             /\ submitQ' = submitQ \/ submitQ' = Append(submitQ, f.log)
          \/ f.op = "ackSubmit"
      BY <1>3 DEF BrokerTakes
    <2>4. \/ /\ f.op # "ackConfirm" /\ confirmUnacked' = confirmUnacked
             /\ \/ confirmQ' = confirmQ
                \/ confirmQ' = Append(confirmQ, [log |-> f.log, tx |-> f.tx])
          \/ f.op = "ackConfirm"
      BY <1>3 DEF BrokerTakes
    <2> HIDE DEF f
    <2>5. f.op # "ackSubmit" => (submitQ # <<>> => submitQ' # <<>>)
                                /\ submitUnacked' = submitUnacked
      BY <1>a, <2>3 DEF TypeOK
    <2>6. f.op # "ackConfirm" => (confirmQ # <<>> => confirmQ' # <<>>)
                                 /\ confirmUnacked' = confirmUnacked
      BY <1>a, <2>4 DEF TypeOK
    <2> QED BY <1>a, <2>1, <2>2, <2>5, <2>6 DEF HandlersOwnHead
  <1>4. CASE TakeSubmit
    <2>1. /\ server = "up" /\ submitQ # <<>> /\ submitUnacked'
          /\ ~ Carries(outbox, "ackSubmit")
          /\ UNCHANGED <<server, outbox, submitQ, confirmQ, confirmUnacked, con>>
      BY <1>a, <1>4 DEF TakeSubmit, HandlersOwnHead
    <2> QED BY <1>a, <2>1 DEF HandlersOwnHead
  <1>5. CASE InsertAnchored
    BY <1>a, <1>5, QuietStep DEF InsertAnchored, TypeOK, SubStates
  <1>6. CASE AnchorWriteLog
    BY <1>a, <1>6, QuietStep DEF AnchorWriteLog
  <1>7. CASE UpdateAnchorStatus
    BY <1>a, <1>7, QuietStep DEF UpdateAnchorStatus
  <1>8. CASE FinishSubmit
    <2>1. /\ server = "up" /\ server' = server /\ sub.pc # "idle" /\ sub' = IdleSub
          /\ UNCHANGED <<submitQ, submitUnacked, confirmQ, confirmUnacked, con>>
      BY <1>8 DEF FinishSubmit
    <2>2. submitQ # <<>> /\ ~ Carries(outbox, "ackSubmit") /\ submitUnacked
      BY <1>a, <2>1 DEF HandlersOwnHead
    <2>3. AckS(SubLog) \in Frames /\ AckS(SubLog).op = "ackSubmit"
      BY <1>a, <2>2, SubLogType DEF AckS, Frame, Frames
    <2>4. /\ AcksOnce(outbox')
          /\ Carries(outbox', "ackConfirm") => Carries(outbox, "ackConfirm")
      BY <1>a, <1>b, <1>8, <2>2, <2>3, SubmitWrites, AckStep DEF HandlersOwnHead
    <2>5. sub'.pc = "idle"
      BY <2>1 DEF IdleSub
    <2>6. con.pc # "idle" => ~ Carries(outbox', "ackConfirm")
      BY <1>a, <2>4 DEF HandlersOwnHead
    <2> QED BY <1>a, <2>1, <2>2, <2>4, <2>5, <2>6 DEF HandlersOwnHead
  <1>9. CASE TakeConfirm
    <2>1. /\ server = "up" /\ confirmQ # <<>> /\ confirmUnacked'
          /\ ~ Carries(outbox, "ackConfirm")
          /\ UNCHANGED <<server, outbox, submitQ, confirmQ, submitUnacked, sub>>
      BY <1>a, <1>9 DEF TakeConfirm, HandlersOwnHead
    <2> QED BY <1>a, <2>1 DEF HandlersOwnHead
  <1>10. CASE Poll
    BY <1>a, <1>10, QuietStep DEF Poll
  <1>11. CASE ConfirmStatus
    BY <1>a, <1>11, QuietStep DEF ConfirmStatus
  <1>12. CASE FinishConfirm
    <2>1. /\ server = "up" /\ server' = server /\ con.pc # "idle" /\ con' = IdleCon
          /\ UNCHANGED <<submitQ, submitUnacked, confirmQ, confirmUnacked, sub>>
      BY <1>12 DEF FinishConfirm
    <2>2. confirmQ # <<>> /\ ~ Carries(outbox, "ackConfirm") /\ confirmUnacked
      BY <1>a, <2>1 DEF HandlersOwnHead
    <2>3. AckC(ConMsg.log) \in Frames /\ AckC(ConMsg.log).op = "ackConfirm"
      BY <1>a, <2>2, ConMsgType DEF AckC, Frame, Frames
    <2>4. /\ AcksOnce(outbox')
          /\ Carries(outbox', "ackSubmit") => Carries(outbox, "ackSubmit")
      BY <1>a, <1>b, <1>12, <2>2, <2>3, ConfirmWrites, AckStep DEF HandlersOwnHead
    <2>5. con'.pc = "idle"
      BY <2>1 DEF IdleCon
    <2>6. sub.pc # "idle" => ~ Carries(outbox', "ackSubmit")
      BY <1>a, <2>4 DEF HandlersOwnHead
    <2> QED BY <1>a, <2>1, <2>2, <2>4, <2>5, <2>6 DEF HandlersOwnHead
  <1>13. ASSUME NEW i \in 1..Len(chain), ChainStep(i) PROVE HandlersOwnHead'
    BY <1>a, <1>13, QuietStep
       DEF ChainStep, Include, Finalize, Reorg, DropTx, ChainMoves, handlers
  <1>14. IdleSub.pc = "idle" /\ IdleCon.pc = "idle"
    BY DEF IdleSub, IdleCon
  <1>15. CASE Disconnect
    BY <1>a, <1>c, <1>d, <1>15 DEF Disconnect, LoseConnection, HandlersOwnHead, handlers
  <1>16. CASE Crash
    BY <1>c, <1>d, <1>14, <1>16 DEF Crash, LoseConnection, HandlersOwnHead
  <1>17. CASE DieOnClosedChannel
    BY <1>c, <1>d, <1>14, <1>17 DEF DieOnClosedChannel, LoseConnection, HandlersOwnHead
  <1>18. CASE Restart
    <2>1. outbox' = <<>> /\ sub' = IdleSub /\ con' = IdleCon /\ server' = "up"
      BY <1>a, <1>18 DEF Restart, queues, HandlersOwnHead
    <2> QED BY <1>c, <1>d, <1>14, <2>1 DEF HandlersOwnHead
  <1> QED
    BY <1>1, <1>2, <1>3, <1>4, <1>5, <1>6, <1>7, <1>8, <1>9, <1>10, <1>11, <1>12,
       <1>13, <1>15, <1>16, <1>17, <1>18 DEF Next, SubmitHandler, ConfirmHandler

\* Polling starts with polls left and goes on only while some are.
LEMMA PollsStep == Shape /\ [Next]_vars => PollsLeft'
  <1> SUFFICES ASSUME Shape, [Next]_vars PROVE PollsLeft'
    OBVIOUS
  <1>1. con \in ConStates /\ PollsLeft
    BY DEF Shape, TypeOK
  <1>2. CASE con' = con
    BY <1>1, <1>2 DEF PollsLeft
  <1>3. CASE con'.pc # "poll"
    BY <1>3 DEF PollsLeft
  <1>4. CASE TakeConfirm
    <2>1. con'.n = 0
      BY <1>4 DEF TakeConfirm, IdleCon
    <2> QED BY <2>1, BoundsAssumption DEF PollsLeft
  <1>5. CASE Poll
    BY <1>5 DEF Poll, PollsLeft
  <1>6. CASE ConfirmStatus
    <2>1. con.pc = "update"
      BY <1>6 DEF ConfirmStatus
    <2>2. con'.pc = "respond"
      BY <1>1, <1>6, <2>1 DEF ConfirmStatus, ConStates
    <2> QED BY <1>3, <2>2
  <1>7. CASE FinishConfirm \/ Crash \/ DieOnClosedChannel \/ Restart
    <2>1. con' = IdleCon
      BY <1>7 DEF FinishConfirm, Crash, DieOnClosedChannel, Restart
    <2> QED BY <1>3, <2>1 DEF IdleCon
  <1> QED
    BY <1>2, <1>4, <1>5, <1>6, <1>7
       DEF Next, vars, handlers, PublishLog, BrokerTakes, SubmitHandler, TakeSubmit,
           InsertAnchored, AnchorWriteLog, UpdateAnchorStatus, FinishSubmit,
           ConfirmHandler, ChainStep, Include, Finalize, Reorg, DropTx, ChainMoves,
           Disconnect, LoseConnection

LEMMA ShapeInit == Init => Shape
  <1> SUFFICES ASSUME Init PROVE Shape
    OBVIOUS
  <1>1. IdleSub \in SubStates /\ IdleCon \in ConStates
    BY BoundsAssumption DEF IdleSub, IdleCon, SubStates, ConStates
  <1>2. Absent \in Rows
    BY DEF Absent, Row, Rows
  <1>a. /\ <<>> \in Seq(Frames) /\ <<>> \in Seq(Logs) /\ <<>> \in Seq(ConfirmMsgs)
        /\ <<>> \in Seq(Results) /\ <<>> \in Seq(Txs)
    OBVIOUS
  <1>b. /\ client \in [Logs -> {"new", "accepted", "gone", "error"}]
        /\ replies \in [Logs -> Seq(Results)]
        /\ db \in [Logs -> Rows]
    BY <1>2, <1>a DEF Init
  <1>c. crashes \in 0..MaxCrashes
    BY BoundsAssumption DEF Init
  <1>3. TypeOK
    BY <1>1, <1>a, <1>b, <1>c DEF Init, TypeOK
  <1>4. HandlersOwnHead /\ PollsLeft
    BY DEF Init, HandlersOwnHead, Carries, AcksOnce, PollsLeft, IdleSub, IdleCon
  <1> QED BY <1>3, <1>4 DEF Shape

LEMMA ShapeAlways == Spec => []Shape
  <1>1. Shape /\ [Next]_vars => Shape'
    BY TypeStep, OwnStep, PollsStep DEF Shape
  <1> QED BY ShapeInit, <1>1, PTL DEF Spec

\* Type correctness: every state the pipeline reaches has the shapes the code
\* declares for its messages, handlers, rows and transactions.
THEOREM TypeCorrect == Spec => []TypeOK
  <1>1. Shape => TypeOK
    BY DEF Shape
  <1> QED BY ShapeAlways, <1>1, PTL

\* Prefetch 1 with the ack in the finally block, across any number of lost
\* connections: a running handler's message is the head of its queue, and at
\* most one ack is on its way, for that head.
THEOREM OwnHeads == Spec => []HandlersOwnHead
  <1>1. Shape => HandlersOwnHead
    BY DEF Shape
  <1> QED BY ShapeAlways, <1>1, PTL

-----------------------------------------------------------------------------
(***************************************************************************)
(* At most one transaction per hybrid entry.  AnchoredOnce is not          *)
(* inductive: it needs that a transaction's row is in the database, so     *)
(* that a redelivered message fails at the primary key, and that the row   *)
(* the handler has just inserted has no transaction yet.                   *)
(***************************************************************************)
Unsent(l) == \A i \in 1..Len(chain) : chain[i].log # l

AnchorInv ==
  /\ \A i \in 1..Len(chain) : db[chain[i].log] # Absent
  /\ sub.pc = "anchor" => db[SubLog] # Absent /\ Unsent(SubLog)
  /\ \A i, j \in 1..Len(chain) : chain[i].log = chain[j].log => i = j

\* The entry of a running handler does not change while it runs.
LEMMA SubLogStays ==
  ASSUME Shape, BrokerTakes, sub.pc # "idle"
  PROVE  SubLog' = SubLog
  <1> DEFINE f == Head(outbox)
  <1>1. submitQ \in Seq(Logs) /\ submitQ # <<>> /\ ~ Carries(outbox, "ackSubmit")
    BY DEF Shape, TypeOK, HandlersOwnHead
  <1>2. f.op # "ackSubmit"
    <2>1. f = outbox[1] /\ 1 \in 1..Len(outbox)
      BY DEF Shape, TypeOK, BrokerTakes
    <2> QED BY <1>1, <2>1 DEF Carries
  <1>3. submitQ' = submitQ \/ submitQ' = Append(submitQ, f.log)
    BY <1>2 DEF BrokerTakes
  <1> HIDE DEF f
  <1> QED BY <1>1, <1>3 DEF SubLog

\* A step that neither submits a transaction nor removes a row.
LEMMA NoSubmission ==
  ASSUME AnchorInv,
         Len(chain') = Len(chain) /\ \A i \in 1..Len(chain) : chain'[i].log = chain[i].log,
         \A i \in 1..Len(chain) : db'[chain[i].log] # Absent,
         sub'.pc = "anchor" => /\ db'[SubLog'] # Absent
                               /\ \A i \in 1..Len(chain) : chain[i].log # SubLog'
  PROVE  AnchorInv'
  <1>1. \A i \in 1..Len(chain') : db'[chain'[i].log] # Absent
    OBVIOUS
  <1>2. \A i, j \in 1..Len(chain') : chain'[i].log = chain'[j].log => i = j
    BY DEF AnchorInv
  <1>3. sub'.pc = "anchor" => Unsent(SubLog)'
    BY DEF Unsent
  <1> QED BY <1>1, <1>2, <1>3 DEF AnchorInv

\* The same for a step that touches neither the chain nor the table and does
\* not bring the handler to its submission.
LEMMA Elsewhere ==
  ASSUME AnchorInv, UNCHANGED <<chain, db>>,
         sub'.pc = "anchor" => sub.pc = "anchor" /\ SubLog' = SubLog
  PROVE  AnchorInv'
  BY DEF AnchorInv, Unsent

LEMMA AnchorStep == isHybrid(Strategy) /\ Shape /\ AnchorInv /\ [Next]_vars => AnchorInv'
  <1> SUFFICES ASSUME isHybrid(Strategy), Shape, AnchorInv, [Next]_vars PROVE AnchorInv'
    OBVIOUS
  <1>a. /\ chain \in Seq(Txs) /\ db \in [Logs -> Rows] /\ sub \in SubStates
        /\ con \in ConStates
    BY DEF Shape, TypeOK
  <1>b. sub.pc # "idle" => SubLog \in Logs
    BY SubLogType DEF Shape, HandlersOwnHead
  <1>c. con.pc # "idle" => ConMsg.log \in Logs /\ ConMsg.tx \in Nat
    BY ConMsgType DEF Shape, HandlersOwnHead
  <1>d. \A s, x : Row(s, x) = Absent => s = "absent"
    BY DEF Row, Absent
  <1>e. \A i \in 1..Len(chain) : chain[i].log \in Logs
    <2>1. \A i \in 1..Len(chain) : chain[i] \in Txs
      BY <1>a
    <2> QED BY <2>1 DEF Txs
  <1>1. CASE UNCHANGED vars
    BY <1>1, Elsewhere DEF vars, queues, handlers, SubLog
  <1>2. ASSUME NEW l \in Logs, PublishLog(l) PROVE AnchorInv'
    BY <1>2, Elsewhere DEF PublishLog, handlers, SubLog
  <1>3. CASE BrokerTakes
    <2>1. UNCHANGED <<chain, db, sub>>
      BY <1>3 DEF BrokerTakes, handlers
    <2>2. sub.pc = "anchor" => SubLog' = SubLog
      BY <1>3, SubLogStays
    <2> QED BY <2>1, <2>2, Elsewhere
  <1>4. CASE TakeSubmit
    <2>1. sub'.pc = "insert" /\ UNCHANGED <<chain, db>>
      BY <1>4 DEF TakeSubmit, IdleSub
    <2> QED BY <2>1, Elsewhere
  <1>5. CASE InsertAnchored
    <2>1. sub.pc = "insert" /\ SubLog \in Logs /\ SubLog' = SubLog /\ chain' = chain
      BY <1>b, <1>5 DEF InsertAnchored, queues, SubLog
    <2>2. db' = db \/ db' = [db EXCEPT ![SubLog] = Row("pending", 0)]
      BY <1>5 DEF InsertAnchored
    <2>3. \A l \in Logs : db[l] # Absent => db'[l] # Absent
      BY <1>a, <1>d, <2>1, <2>2
    <2>4. CASE sub'.pc = "anchor"
      <3>1. db[SubLog] = Absent /\ db' = [db EXCEPT ![SubLog] = Row("pending", 0)]
        BY <1>a, <1>5, <2>4 DEF InsertAnchored, SubStates
      <3>2. Unsent(SubLog)
        BY <3>1 DEF Unsent, AnchorInv
      <3>3. db'[SubLog] # Absent
        BY <1>a, <1>d, <2>1, <3>1
      <3> QED BY <1>e, <2>1, <2>3, <3>2, <3>3, NoSubmission DEF AnchorInv, Unsent
    <2>5. CASE sub'.pc # "anchor"
      BY <1>e, <2>1, <2>3, <2>5, NoSubmission DEF AnchorInv
    <2> QED BY <2>4, <2>5
  <1>6. CASE AnchorWriteLog
    <2> DEFINE tx == [log |-> SubLog, state |-> "pool"]
    <2>1. /\ sub.pc = "anchor" /\ SubLog \in Logs /\ SubLog' = SubLog /\ db' = db
          /\ chain' = chain \/ chain' = Append(chain, tx)
      BY <1>b, <1>6 DEF AnchorWriteLog, queues, SubLog
    <2>2. db[SubLog] # Absent /\ Unsent(SubLog)
      BY <2>1 DEF AnchorInv
    <2>3. sub'.pc # "anchor"
      BY <1>6 DEF AnchorWriteLog
    <2>4. CASE chain' = chain
      BY <2>1, <2>3, <2>4, Elsewhere
    <2>5. CASE chain' = Append(chain, tx)
      <3>1. tx.log = SubLog
        OBVIOUS
      <3>a. /\ Len(chain') = Len(chain) + 1 /\ Len(chain) \in Nat
            /\ \A i \in 1..Len(chain) : chain'[i] = chain[i]
            /\ chain'[Len(chain) + 1] = tx
        BY <1>a, <2>5
      <3> HIDE DEF tx
      <3>2. \A i \in 1..Len(chain') : i \in 1..Len(chain) \/ i = Len(chain) + 1
        BY <3>a
      <3>3. \A i \in 1..Len(chain') : db'[chain'[i].log] # Absent
        BY <2>1, <2>2, <3>1, <3>a, <3>2 DEF AnchorInv
      <3>4. ASSUME NEW i \in 1..Len(chain'), NEW j \in 1..Len(chain'),
                   chain'[i].log = chain'[j].log
            PROVE  i = j
        BY <2>2, <3>1, <3>a, <3>2, <3>4 DEF AnchorInv, Unsent
      <3> QED BY <2>3, <3>3, <3>4 DEF AnchorInv
    <2> QED BY <2>1, <2>4, <2>5
  <1>7. CASE UpdateAnchorStatus
    <2>1. /\ sub.pc = "status" /\ SubLog \in Logs /\ chain' = chain
          /\ \/ db' = db
             \/ \E s \in {"pending", "failed"} : db' = [db EXCEPT ![SubLog] = Row(s, sub.tx)]
      BY <1>b, <1>7 DEF UpdateAnchorStatus
    <2>2. sub'.pc = "respond"
      BY <1>a, <1>7, <2>1 DEF UpdateAnchorStatus, SubStates
    <2>3. \A l \in Logs : db[l] # Absent => db'[l] # Absent
      BY <1>a, <1>d, <2>1
    <2> QED BY <1>e, <2>1, <2>2, <2>3, NoSubmission DEF AnchorInv
  <1>8. CASE FinishSubmit
    <2>1. sub'.pc = "idle" /\ UNCHANGED <<chain, db>>
      BY <1>8 DEF FinishSubmit, IdleSub
    <2> QED BY <2>1, Elsewhere
  <1>9. CASE TakeConfirm
    BY <1>9, Elsewhere DEF TakeConfirm, SubLog
  <1>10. CASE Poll
    BY <1>10, Elsewhere DEF Poll, queues, SubLog
  <1>11. CASE ConfirmStatus
    <2>1. /\ con.pc = "update" /\ ConMsg.log \in Logs /\ SubLog' = SubLog
          /\ UNCHANGED <<chain, sub>>
          /\ db' = db \/ db' = [db EXCEPT ![ConMsg.log] = Row(con.result, ConMsg.tx)]
      BY <1>c, <1>11 DEF ConfirmStatus, queues, SubLog
    <2>2. con.result # "absent"
      BY <1>a DEF ConStates
    <2>3. \A l \in Logs : db[l] # Absent => db'[l] # Absent
      BY <1>a, <1>d, <2>1, <2>2
    <2>4. sub.pc = "anchor" => db'[SubLog] # Absent
      BY <1>b, <2>3 DEF AnchorInv
    <2>5. \A i \in 1..Len(chain) : db'[chain[i].log] # Absent
      BY <1>e, <2>3 DEF AnchorInv
    <2> QED BY <2>1, <2>4, <2>5, NoSubmission DEF AnchorInv, Unsent
  <1>12. CASE FinishConfirm
    BY <1>12, Elsewhere DEF FinishConfirm, SubLog
  <1>13. ASSUME NEW i \in 1..Len(chain), ChainStep(i) PROVE AnchorInv'
    <2>1. /\ UNCHANGED <<db, sub>> /\ SubLog' = SubLog
          /\ \E s : chain' = [chain EXCEPT ![i].state = s]
      BY <1>13 DEF ChainStep, Include, Finalize, Reorg, DropTx, ChainMoves, queues,
                   handlers, SubLog
    <2>2. /\ Len(chain') = Len(chain)
          /\ \A k \in 1..Len(chain) : chain'[k].log = chain[k].log
      <3>1. PICK s : chain' = [chain EXCEPT ![i] = [chain[i] EXCEPT !.state = s]]
        BY <2>1
      <3>2. chain[i] \in Txs
        BY <1>a
      <3>3. [chain[i] EXCEPT !.state = s].log = chain[i].log
        BY <3>2 DEF Txs
      <3> QED BY <1>a, <3>1, <3>3
    <2> QED BY <2>1, <2>2, NoSubmission DEF AnchorInv, Unsent
  <1>14. CASE Disconnect
    BY <1>14, Elsewhere DEF Disconnect, LoseConnection, handlers, SubLog
  <1>15. CASE Crash \/ DieOnClosedChannel
    <2>1. sub'.pc = "idle" /\ UNCHANGED <<chain, db>>
      BY <1>15 DEF Crash, DieOnClosedChannel, LoseConnection, IdleSub
    <2> QED BY <2>1, Elsewhere
  <1>16. CASE Restart
    <2>1. sub'.pc = "idle" /\ UNCHANGED <<chain, db>>
      BY <1>16 DEF Restart, IdleSub
    <2> QED BY <2>1, Elsewhere
  <1> QED
    BY <1>1, <1>2, <1>3, <1>4, <1>5, <1>6, <1>7, <1>8, <1>9, <1>10, <1>11, <1>12,
       <1>13, <1>14, <1>15, <1>16 DEF Next, SubmitHandler, ConfirmHandler

\* A hybrid entry reaches the chain at most once, however many connections and
\* processes are lost while its message is in the queues.
THEOREM AnchoredAtMostOnce == Spec => []AnchoredOnce
  <1>1. CASE ~ isHybrid(Strategy)
    <2>1. AnchoredOnce
      BY <1>1 DEF AnchoredOnce
    <2> QED BY <2>1, PTL
  <1>2. CASE isHybrid(Strategy)
    <2>1. Init => AnchorInv
      BY DEF Init, AnchorInv, IdleSub
    <2>2. Shape /\ AnchorInv /\ [Next]_vars => AnchorInv'
      BY <1>2, AnchorStep
    <2>3. AnchorInv => AnchoredOnce
      BY DEF AnchorInv, AnchoredOnce
    <2> QED BY <2>1, <2>2, <2>3, ShapeAlways, PTL DEF Spec
  <1> QED BY <1>1, <1>2

-----------------------------------------------------------------------------

\* Transaction t is one of entry l.
TxOf(t, l) == t \in 1..Len(chain) /\ chain[t].log = l

Recorded(l) ==
  \E i \in 1..Len(chain) : chain[i].log = l /\ chain[i].state = "recorded"

\* What "confirmed" tells of an entry: it is recorded, or nothing at all for the
\* strategy whose service rejects its transactions and whose checkTx ignores it.
Told(l) == Undecodable \/ Recorded(l)

TrueFrame(f) ==
  /\ f.op = "confirm" => TxOf(f.tx, f.log)
  /\ f.op = "reply" /\ f.tx # 0 => TxOf(f.tx, f.log) /\ (f.ok => Told(f.log))
TrueResult(l, r) == r.tx # 0 => TxOf(r.tx, l) /\ (r.ok => Told(l))
NamesItsOwn ==
  \A l \in Logs : \A k \in 1..Len(replies[l]) :
    replies[l][k].tx # 0 => TxOf(replies[l][k].tx, l)
TrueRow(l, row) ==
  /\ row.tx # 0 => TxOf(row.tx, l)
  /\ row.status = "confirmed" =>
       row.tx # 0 /\ isHybrid(Strategy) /\ ~ isBatchStrategy(Strategy) /\ Told(l)

FramesTrue   == \A f \in Range(outbox) : TrueFrame(f)
ConfirmsTrue == \A m \in Range(confirmQ) : TxOf(m.tx, m.log)
RepliesTrue  == \A l \in Logs : \A r \in Range(replies[l]) : TrueResult(l, r)
RowsTrue     == \A l \in Logs : TrueRow(l, db[l])
SubTrue      == sub.tx # 0 => sub.pc # "idle" /\ TxOf(sub.tx, SubLog)
ConTrue      == con.result = "confirmed" => con.pc # "idle" /\ Told(ConMsg.log)

\* Only the handlers of a hybrid strategy reach the steps that write rows.
RowsOfHybrids ==
  ~ isHybrid(Strategy) => sub.pc \notin {"insert", "status"} /\ con.pc # "update"

\* Exonum decides a transaction when it commits it, and rejects a decodable
\* write only because the entry is recorded already.
ExonumSettles ==
  chainFor(Strategy) = "exonum" /\ ~ Undecodable =>
    \A i \in 1..Len(chain) :
      /\ chain[i].state \in {"pool", "recorded", "rejected"}
      /\ chain[i].state = "rejected" => Recorded(chain[i].log)

TruthInv == /\ FramesTrue /\ ConfirmsTrue /\ RepliesTrue /\ RowsTrue
            /\ SubTrue /\ ConTrue /\ RowsOfHybrids /\ ExonumSettles

-----------------------------------------------------------------------------
\* What a queue holds after one element joins it or leaves it.
LEMMA RangeAppend ==
  ASSUME NEW S, NEW s \in Seq(S), NEW e
  PROVE  Range(Append(s, e)) = Range(s) \cup {e}
  <1> DEFINE t == Append(s, e)
  <1>1. /\ DOMAIN t = 1..(Len(s) + 1) /\ Len(s) \in Nat /\ DOMAIN s = 1..Len(s)
        /\ \A i \in 1..Len(s) : t[i] = s[i]
        /\ t[Len(s) + 1] = e
    OBVIOUS
  <1> HIDE DEF t
  <1>2. ASSUME NEW x \in Range(t) PROVE x \in Range(s) \cup {e}
    <2>1. PICK i \in 1..(Len(s) + 1) : x = t[i]
      BY <1>1 DEF Range
    <2>2. i \in 1..Len(s) \/ i = Len(s) + 1
      BY <1>1
    <2> QED BY <1>1, <2>1, <2>2 DEF Range
  <1>3. ASSUME NEW x \in Range(s) PROVE x \in Range(t)
    <2>1. PICK i \in 1..Len(s) : x = s[i]
      BY <1>1 DEF Range
    <2>2. i \in 1..(Len(s) + 1) /\ x = t[i]
      BY <1>1, <2>1
    <2> QED BY <1>1, <2>2 DEF Range
  <1>4. e \in Range(t)
    <2>1. Len(s) + 1 \in 1..(Len(s) + 1)
      BY <1>1
    <2> QED BY <1>1, <2>1 DEF Range
  <1> QED BY <1>2, <1>3, <1>4 DEF t

LEMMA RangeTail ==
  ASSUME NEW S, NEW s \in Seq(S), s # <<>>
  PROVE  Range(Tail(s)) \subseteq Range(s) /\ Head(s) \in Range(s)
  <1> DEFINE t == Tail(s)
  <1>1. /\ DOMAIN t = 1..(Len(s) - 1) /\ Len(s) \in Nat \ {0} /\ DOMAIN s = 1..Len(s)
        /\ \A i \in 1..(Len(s) - 1) : t[i] = s[i + 1]
        /\ Head(s) = s[1]
    OBVIOUS
  <1> HIDE DEF t
  <1>2. ASSUME NEW x \in Range(t) PROVE x \in Range(s)
    <2>1. PICK i \in 1..(Len(s) - 1) : x = t[i]
      BY <1>1 DEF Range
    <2>2. i + 1 \in 1..Len(s) /\ x = s[i + 1]
      BY <1>1, <2>1
    <2> QED BY <1>1, <2>2 DEF Range
  <1>3. 1 \in DOMAIN s
    BY <1>1
  <1> QED BY <1>1, <1>2, <1>3 DEF t, Range

LEMMA RangeType ==
  ASSUME NEW S, NEW s \in Seq(S)
  PROVE  Range(s) \subseteq S
  BY DEF Range

LEMMA RangeEmpty == Range(<<>>) = {}
  BY DEF Range

-----------------------------------------------------------------------------
\* The actions that write each part of the state.
LEMMA Writers ==
  ASSUME [Next]_vars
  PROVE  /\ \/ outbox' = outbox \/ outbox' = <<>> \/ BrokerTakes
            \/ FinishSubmit \/ FinishConfirm \/ \E l \in Logs : PublishLog(l)
         /\ confirmQ' = confirmQ \/ BrokerTakes
         /\ submitQ' = submitQ \/ BrokerTakes
         /\ replies' = replies \/ BrokerTakes
         /\ \/ sub' = sub \/ sub' = IdleSub \/ TakeSubmit \/ InsertAnchored
            \/ AnchorWriteLog \/ UpdateAnchorStatus
         /\ con' = con \/ con' = IdleCon \/ TakeConfirm \/ Poll \/ ConfirmStatus
         /\ db' = db \/ InsertAnchored \/ UpdateAnchorStatus \/ ConfirmStatus
         /\ chain' = chain \/ AnchorWriteLog \/ \E i \in 1..Len(chain) : ChainStep(i)
  <1>1. CASE UNCHANGED vars
    BY <1>1 DEF vars, callers, queues, handlers
  <1>2. CASE \E l \in Logs : PublishLog(l)
    BY <1>2 DEF PublishLog, callers, queues, handlers
  <1>3. CASE BrokerTakes
    BY <1>3 DEF BrokerTakes, handlers
  <1>4. CASE SubmitHandler
    BY <1>4 DEF SubmitHandler, TakeSubmit, InsertAnchored, AnchorWriteLog,
                UpdateAnchorStatus, FinishSubmit, callers, queues
  <1>5. CASE ConfirmHandler
    BY <1>5 DEF ConfirmHandler, TakeConfirm, Poll, ConfirmStatus, FinishConfirm,
                callers, queues
  <1>6. CASE \E i \in 1..Len(chain) : ChainStep(i)
    BY <1>6 DEF ChainStep, Include, Finalize, Reorg, DropTx, ChainMoves, callers,
                queues, handlers
  <1>7. CASE Disconnect \/ Crash \/ DieOnClosedChannel \/ Restart
    BY <1>7 DEF Disconnect, Crash, DieOnClosedChannel, Restart, LoseConnection,
                callers, queues, handlers
  <1> QED BY <1>1, <1>2, <1>3, <1>4, <1>5, <1>6, <1>7 DEF Next

\* A transaction keeps its entry and its place, and a recorded one its state.
Grows ==
  /\ Len(chain) \in Nat /\ Len(chain') \in Nat /\ Len(chain) <= Len(chain')
  /\ \A i \in 1..Len(chain) :
       /\ chain'[i].log = chain[i].log
       /\ chain[i].state = "recorded" => chain'[i].state = "recorded"

\* What one move of a transaction does to the chain.
LEMMA ChainStepShape ==
  ASSUME Shape, NEW i \in 1..Len(chain), ChainStep(i)
  PROVE  /\ Len(chain') = Len(chain) /\ Len(chain) \in Nat
         /\ \A k \in 1..Len(chain) : /\ chain'[k].log = chain[k].log
                                     /\ k # i => chain'[k].state = chain[k].state
         /\ \/ /\ chain[i].state = "pool" /\ chain'[i].state = "dropped"
               /\ chainFor(Strategy) = "ethereum"
            \/ /\ chain[i].state \in {"included", "reverted"}
               /\ chain'[i].state \in {"recorded", "rejected", "pool"}
            \/ /\ chain[i].state = "pool"
               /\ chain'[i].state \in Executions(chainFor(Strategy),
                                        ~ OnChain(chain[i].log) /\ ~ Undecodable)
  <1>1. chain \in Seq(Txs) /\ chain[i] \in Txs
    BY DEF Shape, TypeOK
  <1>2. PICK s :
          /\ chain' = [chain EXCEPT ![i].state = s]
          /\ \/ /\ chain[i].state = "pool" /\ s = "dropped"
                /\ chainFor(Strategy) = "ethereum"
             \/ /\ chain[i].state \in {"included", "reverted"}
                /\ s \in {"recorded", "rejected", "pool"}
             \/ /\ chain[i].state = "pool"
                /\ s \in Executions(chainFor(Strategy),
                                    ~ OnChain(chain[i].log) /\ ~ Undecodable)
    BY DEF ChainStep, Include, Finalize, Finalized, Reorg, DropTx, ChainMoves
  <1>3. /\ [chain[i] EXCEPT !.state = s].log = chain[i].log
        /\ [chain[i] EXCEPT !.state = s].state = s
    BY <1>1 DEF Txs
  <1>4. /\ Len(chain') = Len(chain) /\ Len(chain) \in Nat
        /\ \A k \in 1..Len(chain) : k # i => chain'[k] = chain[k]
        /\ chain'[i] = [chain[i] EXCEPT !.state = s]
    BY <1>1, <1>2
  <1> QED BY <1>2, <1>3, <1>4

\* What a submission does to the chain.
LEMMA SubmissionShape ==
  ASSUME Shape, AnchorWriteLog
  PROVE  /\ SubLog \in Logs
         /\ \/ chain' = chain
            \/ /\ Len(chain') = Len(chain) + 1 /\ Len(chain) \in Nat
               /\ \A i \in 1..Len(chain) : chain'[i] = chain[i]
               /\ chain'[Len(chain) + 1].log = SubLog
               /\ chain'[Len(chain) + 1].state = "pool"
  <1> DEFINE tx == [log |-> SubLog, state |-> "pool"]
  <1>1. chain \in Seq(Txs)
    BY DEF Shape, TypeOK
  <1>2. SubLog \in Logs
    BY SubLogType DEF Shape, HandlersOwnHead, AnchorWriteLog
  <1>3. chain' = chain \/ chain' = Append(chain, tx)
    BY DEF AnchorWriteLog
  <1>4. tx.log = SubLog /\ tx.state = "pool"
    OBVIOUS
  <1> HIDE DEF tx
  <1>5. ASSUME chain' = Append(chain, tx)
        PROVE  /\ Len(chain') = Len(chain) + 1 /\ Len(chain) \in Nat
               /\ \A i \in 1..Len(chain) : chain'[i] = chain[i]
               /\ chain'[Len(chain) + 1] = tx
    BY <1>1, <1>5
  <1> QED BY <1>2, <1>3, <1>4, <1>5

LEMMA ChainGrows == Shape /\ [Next]_vars => Grows
  <1> SUFFICES ASSUME Shape, [Next]_vars PROVE Grows
    OBVIOUS
  <1>1. chain \in Seq(Txs) /\ Len(chain) \in Nat
    BY DEF Shape, TypeOK
  <1>2. CASE chain' = chain
    BY <1>1, <1>2 DEF Grows
  <1>3. CASE AnchorWriteLog
    BY <1>2, <1>3, SubmissionShape DEF Grows
  <1>4. ASSUME NEW i \in 1..Len(chain), ChainStep(i) PROVE Grows
    <2>1. chain[i].state # "recorded"
      BY <1>4, ChainStepShape
    <2> QED BY <1>4, <2>1, ChainStepShape DEF Grows
  <1> QED BY <1>2, <1>3, <1>4, Writers

\* What was true of the chain stays true.
LEMMA TruthStays ==
  ASSUME Grows
  PROVE  /\ \A t, l : TxOf(t, l) => TxOf(t, l)'
         /\ \A l : Told(l) => Told(l)'
         /\ \A f : TrueFrame(f) => TrueFrame(f)'
         /\ \A l, r : TrueResult(l, r) => TrueResult(l, r)'
         /\ \A l, row : TrueRow(l, row) => TrueRow(l, row)'
  <1>1. \A t, l : TxOf(t, l) => TxOf(t, l)'
    BY DEF Grows, TxOf
  <1>2. \A l : Recorded(l) => Recorded(l)'
    BY DEF Grows, Recorded
  <1>3. \A l : Told(l) => Told(l)'
    BY <1>2 DEF Told, Undecodable
  <1>4. \A f : TrueFrame(f) => TrueFrame(f)'
    BY <1>1, <1>3 DEF TrueFrame
  <1>5. \A l, r : TrueResult(l, r) => TrueResult(l, r)'
    BY <1>1, <1>3 DEF TrueResult
  <1>6. \A l, row : TrueRow(l, row) => TrueRow(l, row)'
    BY <1>1, <1>3 DEF TrueRow
  <1> QED BY <1>1, <1>3, <1>4, <1>5, <1>6

-----------------------------------------------------------------------------
\* The message of a running handler stays the head of its queue.
LEMMA ConMsgStays ==
  ASSUME Shape, BrokerTakes, con.pc # "idle"
  PROVE  ConMsg' = ConMsg
  <1> DEFINE f == Head(outbox)
             m == [log |-> f.log, tx |-> f.tx]
  <1>1. confirmQ \in Seq(ConfirmMsgs) /\ confirmQ # <<>> /\ ~ Carries(outbox, "ackConfirm")
    BY DEF Shape, TypeOK, HandlersOwnHead
  <1>2. f.op # "ackConfirm"
    <2>1. f = outbox[1] /\ 1 \in 1..Len(outbox)
      BY DEF Shape, TypeOK, BrokerTakes
    <2> QED BY <1>1, <2>1 DEF Carries
  <1>3. confirmQ' = confirmQ \/ confirmQ' = Append(confirmQ, m)
    BY <1>2 DEF BrokerTakes
  <1> HIDE DEF f, m
  <1> QED BY <1>1, <1>3 DEF ConMsg

LEMMA HeadsStay ==
  ASSUME Shape, [Next]_vars
  PROVE  /\ sub.pc # "idle" => SubLog' = SubLog
         /\ con.pc # "idle" => ConMsg' = ConMsg
  <1>1. CASE BrokerTakes
    BY <1>1, SubLogStays, ConMsgStays
  <1>2. submitQ' = submitQ => SubLog' = SubLog
    BY DEF SubLog
  <1>3. confirmQ' = confirmQ => ConMsg' = ConMsg
    BY DEF ConMsg
  <1> QED BY <1>1, <1>2, <1>3, Writers

\* What the handlers of the two queues write when they finish: at most one
\* frame besides the ack, and which one.
ConfirmFrame == Frame("confirm", SubLog, sub.tx, TRUE)
EmptyReply   == Frame("reply", SubLog, 0, TRUE)
FailureReply == Frame("reply", ConMsg.log, 0, FALSE)
ResultReply  == Frame("reply", ConMsg.log, ConMsg.tx, con.result = "confirmed")

LEMMA SubmitFrames ==
  ASSUME Shape, FinishSubmit
  PROVE  /\ SubLog \in Logs /\ AckS(SubLog) \in Frames
         /\ \E w \in Seq(Frames) :
              /\ outbox' = Append(w, AckS(SubLog))
              /\ \/ w = outbox /\ sub.tx = 0 /\ SubLog \notin ReplyTo
                 \/ w = Append(outbox, ConfirmFrame) /\ sub.tx # 0
                 \/ w = Append(outbox, EmptyReply) /\ sub.tx = 0 /\ SubLog \in ReplyTo
  <1>1. SubLog \in Logs /\ sub.tx \in Nat
    BY SubLogType DEF Shape, TypeOK, HandlersOwnHead, FinishSubmit, SubStates
  <1>2. outbox \in Seq(Frames)
    BY DEF Shape, TypeOK
  <1>3. AckS(SubLog) \in Frames /\ ConfirmFrame \in Frames /\ EmptyReply \in Frames
    BY <1>1 DEF AckS, ConfirmFrame, EmptyReply, Frame, Frames
  <1> DEFINE w == WithSubmitOutcome(outbox)
  <1>4. outbox' = Append(w, AckS(SubLog))
    BY DEF FinishSubmit, AckS
  <1>5. \/ w = outbox /\ sub.tx = 0 /\ SubLog \notin ReplyTo
        \/ w = Append(outbox, ConfirmFrame) /\ sub.tx # 0
        \/ w = Append(outbox, EmptyReply) /\ sub.tx = 0 /\ SubLog \in ReplyTo
    BY DEF WithSubmitOutcome, ConfirmFrame, EmptyReply
  <1> HIDE DEF w
  <1>6. w \in Seq(Frames)
    BY <1>2, <1>3, <1>5, AppendType
  <1> QED BY <1>1, <1>3, <1>4, <1>5, <1>6

LEMMA ConfirmFrames ==
  ASSUME Shape, FinishConfirm
  PROVE  /\ ConMsg.log \in Logs /\ AckC(ConMsg.log) \in Frames
         /\ \E w \in Seq(Frames) :
              /\ outbox' = Append(w, AckC(ConMsg.log))
              /\ \/ w = outbox /\ ConMsg.log \notin ReplyTo
                 \/ w = Append(outbox, FailureReply) /\ ConMsg.log \in ReplyTo
                 \/ w = Append(outbox, ResultReply) /\ ConMsg.log \in ReplyTo
  <1>1. ConMsg.log \in Logs /\ ConMsg.tx \in Nat
    BY ConMsgType DEF Shape, HandlersOwnHead, FinishConfirm
  <1>2. outbox \in Seq(Frames) /\ (con.result = "confirmed") \in BOOLEAN
    BY DEF Shape, TypeOK
  <1>3. AckC(ConMsg.log) \in Frames /\ FailureReply \in Frames /\ ResultReply \in Frames
    BY <1>1, <1>2 DEF AckC, FailureReply, ResultReply, Frame, Frames
  <1> DEFINE w == WithConfirmOutcome(outbox)
  <1>4. outbox' = Append(w, AckC(ConMsg.log))
    BY DEF FinishConfirm, AckC
  <1>5. \/ w = outbox /\ ConMsg.log \notin ReplyTo
        \/ w = Append(outbox, FailureReply) /\ ConMsg.log \in ReplyTo
        \/ w = Append(outbox, ResultReply) /\ ConMsg.log \in ReplyTo
    BY DEF WithConfirmOutcome, FailureReply, ResultReply
  <1> HIDE DEF w
  <1>6. w \in Seq(Frames)
    BY <1>2, <1>3, <1>5, AppendType
  <1> QED BY <1>1, <1>3, <1>4, <1>5, <1>6

-----------------------------------------------------------------------------
(***************************************************************************)
(* One lemma per part of the invariant.                                    *)
(***************************************************************************)
LEMMA FramesStep == Shape /\ TruthInv /\ [Next]_vars => FramesTrue'
  <1> SUFFICES ASSUME Shape, TruthInv, [Next]_vars PROVE FramesTrue'
    OBVIOUS
  <1>1. outbox \in Seq(Frames)
    BY DEF Shape, TypeOK
  <1>2. \A f \in Range(outbox) : TrueFrame(f)'
    BY ChainGrows, TruthStays DEF TruthInv, FramesTrue
  <1>3. CASE outbox' = outbox \/ outbox' = <<>>
    BY <1>2, <1>3, RangeEmpty DEF FramesTrue
  <1>4. ASSUME NEW l \in Logs, PublishLog(l) PROVE FramesTrue'
    <2> DEFINE f == Frame("submit", l, 0, TRUE)
    <2>1. outbox' = outbox \/ outbox' = Append(outbox, f)
      BY <1>4 DEF PublishLog
    <2>2. TrueFrame(f)'
      BY DEF TrueFrame, Frame
    <2> HIDE DEF f
    <2>3. Range(Append(outbox, f)) = Range(outbox) \cup {f}
      BY <1>1, RangeAppend
    <2> QED BY <1>2, <2>1, <2>2, <2>3 DEF FramesTrue
  <1>5. CASE BrokerTakes
    <2>1. outbox # <<>> /\ outbox' = Tail(outbox)
      BY <1>5 DEF BrokerTakes
    <2>2. Range(Tail(outbox)) \subseteq Range(outbox)
      BY <1>1, <2>1, RangeTail
    <2> QED BY <1>2, <2>1, <2>2 DEF FramesTrue
  <1>6. ASSUME NEW w \in Seq(Frames), NEW a, outbox' = Append(w, a),
               \A f \in Range(w) : TrueFrame(f)', TrueFrame(a)'
        PROVE  FramesTrue'
    <2>1. Range(Append(w, a)) = Range(w) \cup {a}
      BY RangeAppend
    <2> QED BY <1>6, <2>1 DEF FramesTrue
  <1>7. ASSUME NEW w, NEW f, w = Append(outbox, f), TrueFrame(f)'
        PROVE  \A g \in Range(w) : TrueFrame(g)'
    <2>1. Range(Append(outbox, f)) = Range(outbox) \cup {f}
      BY <1>1, RangeAppend
    <2> QED BY <1>2, <1>7, <2>1
  <1>8. CASE FinishSubmit
    <2>1. PICK w, a, f :
            /\ w \in Seq(Frames) /\ a = AckS(SubLog) /\ outbox' = Append(w, a)
            /\ w = outbox \/ w = Append(outbox, f)
            /\ (f = ConfirmFrame /\ sub.tx # 0) \/ f = EmptyReply
      BY <1>8, SubmitFrames
    <2>2. TrueFrame(a)
      BY <2>1 DEF TrueFrame, AckS, Frame
    <2>3. sub.tx # 0 => TxOf(sub.tx, SubLog)
      BY DEF TruthInv, SubTrue
    <2>4. TrueFrame(f)
      BY <2>1, <2>3 DEF TrueFrame, ConfirmFrame, EmptyReply, Frame
    <2>5. TrueFrame(a)' /\ TrueFrame(f)'
      BY <2>2, <2>4, ChainGrows, TruthStays
    <2> QED BY <1>2, <1>6, <1>7, <2>1, <2>5
  <1>9. CASE FinishConfirm
    <2>1. PICK w, a, f :
            /\ w \in Seq(Frames) /\ a = AckC(ConMsg.log) /\ outbox' = Append(w, a)
            /\ w = outbox \/ w = Append(outbox, f)
            /\ f = FailureReply \/ f = ResultReply
      BY <1>9, ConfirmFrames
    <2>2. TrueFrame(a)
      BY <2>1 DEF TrueFrame, AckC, Frame
    <2>3. con.result = "confirmed" => Told(ConMsg.log)
      BY DEF TruthInv, ConTrue
    <2>a. f.op = "reply" /\ f.log = ConMsg.log /\ (f.ok => con.result = "confirmed")
      <3>1. f.op = "reply" /\ f.log = ConMsg.log
        BY <2>1 DEF FailureReply, ResultReply, Frame
      <3>2. FailureReply.ok = FALSE /\ ResultReply.ok = (con.result = "confirmed")
        BY DEF FailureReply, ResultReply, Frame
      <3> QED BY <2>1, <3>1, <3>2, Zenon
    <2>b. f.op # "confirm"
      BY <2>a
    <2>c. f.tx # 0 => TxOf(f.tx, f.log)
      <3>1. f.tx = 0 \/ f.tx = ConMsg.tx
        BY <2>1 DEF FailureReply, ResultReply, Frame
      <3>2. ConMsg \in Range(confirmQ)
        <4>1. confirmQ \in Seq(ConfirmMsgs) /\ confirmQ # <<>>
          BY <1>9 DEF Shape, TypeOK, HandlersOwnHead, FinishConfirm
        <4> QED BY <4>1, RangeTail DEF ConMsg
      <3> QED BY <2>a, <3>1, <3>2 DEF TruthInv, ConfirmsTrue
    <2>4. TrueFrame(f)
      BY <2>3, <2>a, <2>b, <2>c, Zenon DEF TrueFrame
    <2>5. TrueFrame(a)' /\ TrueFrame(f)'
      BY <2>2, <2>4, ChainGrows, TruthStays
    <2> QED BY <1>2, <1>6, <1>7, <2>1, <2>5
  <1> QED BY <1>3, <1>4, <1>5, <1>8, <1>9, Writers

LEMMA QueuesStep == Shape /\ TruthInv /\ [Next]_vars => ConfirmsTrue' /\ RepliesTrue'
  <1> SUFFICES ASSUME Shape, TruthInv, [Next]_vars PROVE ConfirmsTrue' /\ RepliesTrue'
    OBVIOUS
  <1>1. /\ confirmQ \in Seq(ConfirmMsgs) /\ outbox \in Seq(Frames)
        /\ replies \in [Logs -> Seq(Results)]
    BY DEF Shape, TypeOK
  <1>2. /\ \A m \in Range(confirmQ) : TxOf(m.tx, m.log)'
        /\ \A l \in Logs : \A r \in Range(replies[l]) : TrueResult(l, r)'
    BY ChainGrows, TruthStays DEF TruthInv, ConfirmsTrue, RepliesTrue
  <1>3. confirmQ' = confirmQ => ConfirmsTrue'
    BY <1>2 DEF ConfirmsTrue
  <1>4. replies' = replies => RepliesTrue'
    BY <1>2 DEF RepliesTrue
  <1>5. ASSUME BrokerTakes PROVE ConfirmsTrue' /\ RepliesTrue'
    <2>1. PICK f, m, r : /\ f = Head(outbox)
                         /\ m = [log |-> f.log, tx |-> f.tx]
                         /\ r = [ok |-> f.ok, tx |-> f.tx]
      OBVIOUS
    <2>2. outbox # <<>> /\ chain' = chain
      BY <1>5 DEF BrokerTakes
    <2>3. f \in Range(outbox)
      BY <1>1, <2>1, <2>2, RangeTail
    <2>4. f.log \in Logs
      <3>1. Range(outbox) \subseteq Frames
        BY <1>1, RangeType
      <3> QED BY <2>3, <3>1 DEF Frames
    <2>5. TrueFrame(f)'
      BY <2>3, ChainGrows, TruthStays DEF TruthInv, FramesTrue
    <2>6. f.op = "confirm" => TxOf(m.tx, m.log)'
      BY <2>1, <2>5 DEF TrueFrame
    <2>7. f.op = "reply" => TrueResult(f.log, r)'
      BY <2>1, <2>5 DEF TrueFrame, TrueResult
    <2>8. \/ confirmQ' = confirmQ
          \/ f.op = "confirm" /\ confirmQ' = Append(confirmQ, m)
          \/ f.op = "ackConfirm" /\ confirmQ' = Tail(confirmQ)
      BY <1>5, <2>1 DEF BrokerTakes
    <2>9. \/ replies' = replies
          \/ /\ f.op = "reply"
             /\ replies' = [replies EXCEPT ![f.log] = Append(replies[f.log], r)]
      BY <1>5, <2>1 DEF BrokerTakes
    <2>a. f.op = "ackConfirm" => confirmQ # <<>>
      <3>1. f = outbox[1] /\ 1 \in 1..Len(outbox)
        BY <1>1, <2>1, <2>2
      <3> QED BY <3>1 DEF Shape, HandlersOwnHead, Carries
    <2>10. ConfirmsTrue'
      <3>1. Range(Append(confirmQ, m)) = Range(confirmQ) \cup {m}
        BY <1>1, RangeAppend
      <3>2. confirmQ # <<>> => Range(Tail(confirmQ)) \subseteq Range(confirmQ)
        BY <1>1, RangeTail
      <3>3. CASE f.op = "confirm" /\ confirmQ' = Append(confirmQ, m)
        BY <1>2, <2>6, <3>1, <3>3 DEF ConfirmsTrue
      <3>4. CASE f.op = "ackConfirm" /\ confirmQ' = Tail(confirmQ)
        BY <1>2, <2>a, <3>2, <3>4 DEF ConfirmsTrue
      <3> QED BY <1>3, <2>8, <3>3, <3>4
    <2>11. RepliesTrue'
      <3>1. Range(Append(replies[f.log], r)) = Range(replies[f.log]) \cup {r}
        BY <1>1, <2>4, RangeAppend
      <3>2. CASE /\ f.op = "reply"
                 /\ replies' = [replies EXCEPT ![f.log] = Append(replies[f.log], r)]
        <4> SUFFICES ASSUME NEW l \in Logs, NEW x \in Range(replies'[l])
                     PROVE  TrueResult(l, x)'
          BY DEF RepliesTrue
        <4>1. CASE l = f.log
          BY <1>1, <1>2, <2>4, <2>7, <3>1, <3>2, <4>1
        <4>2. CASE l # f.log
          BY <1>1, <1>2, <3>2, <4>2
        <4> QED BY <4>1, <4>2
      <3> QED BY <1>4, <2>9, <3>2
    <2> QED BY <2>10, <2>11
  <1> QED BY <1>3, <1>4, <1>5, Writers

LEMMA HandlersStep ==
  Shape /\ TruthInv /\ [Next]_vars => SubTrue' /\ ConTrue' /\ RowsOfHybrids'
  <1> SUFFICES ASSUME Shape, TruthInv, [Next]_vars
               PROVE  SubTrue' /\ ConTrue' /\ RowsOfHybrids'
    OBVIOUS
  <1>1. sub \in SubStates /\ con \in ConStates /\ Grows
    BY ChainGrows DEF Shape, TypeOK
  <1>2. /\ sub.tx # 0 => sub.pc # "idle" /\ TxOf(sub.tx, SubLog)
        /\ con.result = "confirmed" => con.pc # "idle" /\ Told(ConMsg.log)
        /\ ~ isHybrid(Strategy) => sub.pc \notin {"insert", "status"} /\ con.pc # "update"
    BY DEF TruthInv, SubTrue, ConTrue, RowsOfHybrids
  <1>3. PICK l, m : l = SubLog /\ m = ConMsg
    OBVIOUS
  <1>4. /\ sub.pc # "idle" => SubLog' = l
        /\ con.pc # "idle" => ConMsg' = m
    BY <1>3, HeadsStay
  <1>5. /\ \A t : TxOf(t, l) => TxOf(t, l)'
        /\ Told(m.log) => Told(m.log)'
    BY <1>1, TruthStays
  <1>6. SubTrue'
    <2>1. CASE sub'.tx = 0
      BY <2>1 DEF SubTrue
    <2>2. ASSUME sub'.tx = sub.tx, sub'.pc # "idle", sub.pc # "idle" PROVE SubTrue'
      BY <1>2, <1>3, <1>4, <1>5, <2>2 DEF SubTrue
    <2>3. CASE sub' = sub
      BY <1>2, <2>1, <2>2, <2>3
    <2>4. CASE sub' = IdleSub \/ TakeSubmit
      BY <2>1, <2>4 DEF TakeSubmit, IdleSub
    <2>5. CASE InsertAnchored \/ UpdateAnchorStatus
      <3>1. sub.pc # "idle" /\ sub'.pc # "idle" /\ (sub'.tx = sub.tx \/ sub'.tx = 0)
        BY <1>1, <2>5 DEF InsertAnchored, UpdateAnchorStatus, SubStates
      <3> QED BY <2>1, <2>2, <3>1
    <2>6. CASE AnchorWriteLog
      <3>1. /\ sub.pc # "idle" /\ sub'.pc # "idle"
            /\ sub'.tx # 0 => /\ sub'.tx = Len(chain) + 1
                              /\ chain' # chain
        <4>1. sub.pc # "idle" /\ sub'.pc # "idle"
          BY <2>6 DEF AnchorWriteLog
        <4>2. ASSUME sub'.tx # 0 PROVE sub'.tx = Len(chain) + 1 /\ chain' # chain
          <5> DEFINE tx == [log |-> SubLog, state |-> "pool"]
          <5>1. chain' = Append(chain, tx) /\ sub'.tx = Len(chain')
            BY <2>6, <4>2 DEF AnchorWriteLog
          <5> HIDE DEF tx
          <5>2. chain \in Seq(Txs)
            BY DEF Shape, TypeOK
          <5>3. Len(chain') = Len(chain) + 1 /\ Len(chain) \in Nat
            BY <5>1, <5>2
          <5> QED BY <5>1, <5>3
        <4> QED BY <4>1, <4>2
      <3>2. ASSUME sub'.tx # 0
            PROVE  sub'.tx \in 1..Len(chain') /\ chain'[sub'.tx].log = l
        <4>1. /\ Len(chain') = Len(chain) + 1 /\ Len(chain) \in Nat
              /\ chain'[Len(chain) + 1].log = l
          BY <1>3, <2>6, <3>1, <3>2, SubmissionShape
        <4> QED BY <3>1, <3>2, <4>1
      <3> QED BY <1>4, <3>1, <3>2 DEF SubTrue, TxOf
    <2> QED BY <2>3, <2>4, <2>5, <2>6, Writers
  <1>7. ConTrue'
    <2>1. CASE con'.result # "confirmed"
      BY <2>1 DEF ConTrue
    <2>2. ASSUME con'.result = con.result, con'.pc # "idle", con.pc # "idle" PROVE ConTrue'
      BY <1>2, <1>3, <1>4, <1>5, <2>2 DEF ConTrue
    <2>3. CASE con' = con
      BY <1>2, <2>1, <2>2, <2>3
    <2>4. CASE con' = IdleCon \/ TakeConfirm
      BY <2>1, <2>4 DEF TakeConfirm, IdleCon
    <2>5. CASE ConfirmStatus
      <3>1. con.pc # "idle" /\ con'.pc # "idle" /\ con'.result = con.result
        BY <1>1, <2>5 DEF ConfirmStatus, ConStates
      <3> QED BY <2>2, <3>1
    <2>6. CASE Poll
      <3>1. /\ con.pc # "idle" /\ con'.pc # "idle" /\ con'.result \in checkTx(m.tx)
        BY <1>3, <2>6 DEF Poll
      <3>2. confirmQ \in Seq(ConfirmMsgs) /\ confirmQ # <<>>
        BY <3>1 DEF Shape, TypeOK, HandlersOwnHead
      <3>3. m \in Range(confirmQ)
        BY <1>3, <3>2, RangeTail DEF ConMsg
      <3>4. TxOf(m.tx, m.log)
        BY <3>3 DEF TruthInv, ConfirmsTrue
      <3>5. ASSUME con'.result = "confirmed" PROVE Told(m.log)
        <4>1. \/ chain[m.tx].state = "recorded"
              \/ chain[m.tx].state = "rejected" /\ chainFor(Strategy) = "exonum"
          BY <3>1, <3>5 DEF checkTx, CheckTx
        <4>2. CASE chain[m.tx].state = "recorded"
          BY <3>4, <4>2 DEF TxOf, Told, Recorded
        <4>3. CASE chain[m.tx].state = "rejected" /\ chainFor(Strategy) = "exonum"
          BY <3>4, <4>3 DEF TxOf, Told, TruthInv, ExonumSettles
        <4> QED BY <4>1, <4>2, <4>3
      <3> QED BY <1>3, <1>4, <1>5, <3>1, <3>5 DEF ConTrue
    <2> QED BY <2>3, <2>4, <2>5, <2>6, Writers
  <1>8. RowsOfHybrids'
    <2>1. ASSUME ~ isHybrid(Strategy) PROVE sub'.pc \notin {"insert", "status"}
      <3>2. CASE sub' = IdleSub \/ TakeSubmit \/ AnchorWriteLog
        BY <2>1, <3>2 DEF TakeSubmit, AnchorWriteLog, IdleSub
      <3>3. ~ InsertAnchored /\ ~ UpdateAnchorStatus
        BY <1>2, <2>1 DEF InsertAnchored, UpdateAnchorStatus
      <3> QED BY <1>2, <2>1, <3>2, <3>3, Writers
    <2>2. ASSUME ~ isHybrid(Strategy) PROVE con'.pc # "update"
      <3>1. CASE con' = IdleCon \/ TakeConfirm \/ Poll
        BY <2>2, <3>1 DEF TakeConfirm, Poll, IdleCon
      <3>2. ~ ConfirmStatus
        BY <1>2, <2>2 DEF ConfirmStatus
      <3> QED BY <1>2, <2>2, <3>1, <3>2, Writers
    <2> QED BY <2>1, <2>2 DEF RowsOfHybrids
  <1> QED BY <1>6, <1>7, <1>8

LEMMA RowsStep == Shape /\ TruthInv /\ [Next]_vars => RowsTrue'
  <1> SUFFICES ASSUME Shape, TruthInv, [Next]_vars PROVE RowsTrue'
    OBVIOUS
  <1>1. db \in [Logs -> Rows] /\ confirmQ \in Seq(ConfirmMsgs)
    BY DEF Shape, TypeOK
  <1>2. \A l \in Logs : TrueRow(l, db[l])
    BY DEF TruthInv, RowsTrue
  <1>3. \A l, row : TrueRow(l, row) => TrueRow(l, row)'
    BY ChainGrows, TruthStays
  <1>4. ASSUME NEW k \in Logs, NEW row, TrueRow(k, row),
               db' = db \/ db' = [db EXCEPT ![k] = row]
        PROVE  RowsTrue'
    <2> SUFFICES ASSUME NEW l \in Logs, NEW new, new = db'[l] PROVE TrueRow(l, new)'
      BY DEF RowsTrue
    <2>1. new = db[l] \/ (l = k /\ new = row)
      BY <1>1, <1>4
    <2> QED BY <1>2, <1>3, <1>4, <2>1
  <1>5. CASE db' = db
    BY <1>2, <1>3, <1>5 DEF RowsTrue
  <1>6. CASE InsertAnchored
    <2>1. SubLog \in Logs
      BY <1>6, SubLogType DEF InsertAnchored, Shape, HandlersOwnHead
    <2>2. db' = db \/ db' = [db EXCEPT ![SubLog] = Row("pending", 0)]
      BY <1>6 DEF InsertAnchored
    <2>3. TrueRow(SubLog, Row("pending", 0))
      BY DEF TrueRow, Row
    <2> QED BY <1>4, <2>1, <2>2, <2>3
  <1>7. CASE UpdateAnchorStatus
    <2>1. SubLog \in Logs
      BY <1>7, SubLogType DEF UpdateAnchorStatus, Shape, HandlersOwnHead
    <2>2. PICK s \in {"pending", "failed"} :
            db' = db \/ db' = [db EXCEPT ![SubLog] = Row(s, sub.tx)]
      BY <1>7 DEF UpdateAnchorStatus
    <2>3. TrueRow(SubLog, Row(s, sub.tx))
      BY DEF TrueRow, Row, TruthInv, SubTrue
    <2> QED BY <1>4, <2>1, <2>2, <2>3
  <1>8. CASE ConfirmStatus
    <2>1. con.pc = "update" /\ confirmQ # <<>> /\ ConMsg.log \in Logs
      BY <1>8, ConMsgType DEF ConfirmStatus, Shape, HandlersOwnHead
    <2>2. \/ db' = db
          \/ /\ ~ isBatchStrategy(Strategy)
             /\ db' = [db EXCEPT ![ConMsg.log] = Row(con.result, ConMsg.tx)]
      BY <1>8 DEF ConfirmStatus
    <2>3. TxOf(ConMsg.tx, ConMsg.log)
      <3>1. ConMsg \in Range(confirmQ)
        BY <1>1, <2>1, RangeTail DEF ConMsg
      <3> QED BY <3>1 DEF TruthInv, ConfirmsTrue
    <2>4. ConMsg.tx # 0 /\ isHybrid(Strategy)
      BY <2>1, <2>3 DEF TxOf, TruthInv, RowsOfHybrids
    <2>5. ASSUME ~ isBatchStrategy(Strategy)
          PROVE  TrueRow(ConMsg.log, Row(con.result, ConMsg.tx))
      BY <2>3, <2>4, <2>5 DEF TrueRow, Row, TruthInv, ConTrue
    <2> QED BY <1>4, <1>5, <2>1, <2>2, <2>5
  <1> QED BY <1>5, <1>6, <1>7, <1>8, Writers

LEMMA ExonumStep == Shape /\ TruthInv /\ [Next]_vars => ExonumSettles'
  <1> SUFFICES ASSUME Shape, TruthInv, [Next]_vars,
                      chainFor(Strategy) = "exonum", ~ Undecodable,
                      NEW i \in 1..Len(chain')
               PROVE  /\ chain'[i].state \in {"pool", "recorded", "rejected"}
                      /\ chain'[i].state = "rejected" =>
                           \E k \in 1..Len(chain') : /\ chain'[k].log = chain'[i].log
                                                     /\ chain'[k].state = "recorded"
    BY DEF ExonumSettles, Recorded, Undecodable
  <1>1. \A k \in 1..Len(chain) :
          /\ chain[k].state \in {"pool", "recorded", "rejected"}
          /\ chain[k].state = "rejected" => Recorded(chain[k].log)
    BY DEF TruthInv, ExonumSettles
  <1>2. Grows
    BY ChainGrows
  <1>3. ASSUME NEW l, Recorded(l), chain'[i].log = l
        PROVE  \E k \in 1..Len(chain') : /\ chain'[k].log = chain'[i].log
                                         /\ chain'[k].state = "recorded"
    BY <1>2, <1>3 DEF Recorded, Grows
  <1>4. CASE chain' = chain
    BY <1>1, <1>4 DEF Recorded
  <1>5. CASE AnchorWriteLog
    <2>1. CASE i \in 1..Len(chain) /\ chain'[i] = chain[i]
      BY <1>1, <1>3, <2>1
    <2>2. CASE chain'[i].state = "pool"
      BY <2>2
    <2>3. i \in 1..Len(chain) \/ i = Len(chain) + 1 \/ chain' = chain
      BY <1>5, SubmissionShape
    <2> QED BY <1>4, <1>5, <2>1, <2>2, <2>3, SubmissionShape
  <1>6. ASSUME NEW j \in 1..Len(chain), ChainStep(j)
        PROVE  /\ chain'[i].state \in {"pool", "recorded", "rejected"}
               /\ chain'[i].state = "rejected" => Recorded(chain[i].log)
               /\ chain'[i].log = chain[i].log
    <2>1. i \in 1..Len(chain) /\ chain'[i].log = chain[i].log
      BY <1>6, ChainStepShape
    <2>2. CASE i # j
      BY <1>1, <1>6, <2>1, <2>2, ChainStepShape
    <2>3. CASE i = j
      <3>1. chain'[i].state \in Executions("exonum", ~ OnChain(chain[i].log))
        <4>1. /\ chain[i].state \notin {"included", "reverted"}
              /\ chainFor(Strategy) # "ethereum"
          BY <1>1, <2>1
        <4>2. chain'[i].state \in Executions(chainFor(Strategy),
                                    ~ OnChain(chain[i].log) /\ ~ Undecodable)
          BY <1>6, <2>3, <4>1, ChainStepShape
        <4>3. (~ OnChain(chain[i].log) /\ ~ Undecodable) = ~ OnChain(chain[i].log)
          BY DEF OnChain
        <4> QED BY <4>2, <4>3
      <3>2. OnChain(chain[i].log) => Recorded(chain[i].log)
        BY <1>1 DEF OnChain, Recorded
      <3>3. CASE OnChain(chain[i].log)
        BY <2>1, <3>1, <3>2, <3>3 DEF Executions
      <3>4. CASE ~ OnChain(chain[i].log)
        BY <2>1, <3>1, <3>4 DEF Executions
      <3> QED BY <3>3, <3>4
    <2> QED BY <2>2, <2>3
  <1> QED BY <1>3, <1>4, <1>5, <1>6, Writers

LEMMA TruthAlways == Spec => []TruthInv
  <1>1. Init => TruthInv
    <2> SUFFICES ASSUME Init PROVE TruthInv
      OBVIOUS
    <2>1. /\ \A l \in Logs : db[l] = Absent
          /\ \A l \in Logs : replies[l] = <<>>
      BY DEF Init
    <2>2. \A l : TrueRow(l, Absent)
      BY DEF TrueRow, Absent, Row
    <2> QED BY <2>1, <2>2, RangeEmpty
            DEF Init, TruthInv, FramesTrue, ConfirmsTrue, RepliesTrue, RowsTrue, SubTrue,
                ConTrue, RowsOfHybrids, ExonumSettles, IdleSub, IdleCon
  <1>2. Shape /\ TruthInv /\ [Next]_vars => TruthInv'
    BY FramesStep, QueuesStep, HandlersStep, RowsStep, ExonumStep DEF TruthInv
  <1> QED BY <1>1, <1>2, ShapeAlways, PTL DEF Spec

\* A row that names a transaction names one of its own entry, and a confirmed row
\* one that the chain recorded, for every strategy, whatever was lost and however
\* often a message was redelivered.  A confirmed row's own transaction is the
\* recorded one because an entry has no other.  Of a failed row nothing more is
\* claimed: an Ethereum failure receipt makes a row failed whatever its depth, and
\* a reorganisation can undo the receipt.
THEOREM RowsMatchChain == Spec => []StatusMatchesChain
  <1>1. Shape /\ TruthInv /\ AnchoredOnce => StatusMatchesChain
    <2> SUFFICES ASSUME Shape, TruthInv, AnchoredOnce, NEW l \in Logs
                 PROVE  /\ db[l].tx # 0 => TxOf(db[l].tx, l)
                        /\ db[l].status = "confirmed" =>
                             db[l].tx # 0 /\ chain[db[l].tx].state = "recorded"
      BY DEF StatusMatchesChain, TxOf
    <2>1. TrueRow(l, db[l])
      BY DEF TruthInv, RowsTrue
    <2>2. ASSUME db[l].status = "confirmed"
          PROVE  db[l].tx # 0 /\ chain[db[l].tx].state = "recorded"
      <3>1. /\ db[l].tx # 0 /\ TxOf(db[l].tx, l) /\ Told(l)
            /\ isHybrid(Strategy) /\ ~ isBatchStrategy(Strategy)
        BY <2>1, <2>2 DEF TrueRow
      <3>2. Recorded(l)
        BY <3>1 DEF Told, Undecodable, isBatchStrategy
      <3> QED BY <3>1, <3>2 DEF Recorded, TxOf, AnchoredOnce
    <2> QED BY <2>1, <2>2 DEF TrueRow
  <1> QED BY <1>1, ShapeAlways, TruthAlways, AnchoredAtMostOnce, PTL

\* A reply names a transaction of its own entry, and a successful one that of a
\* recorded entry, for every strategy but the one whose service cannot decode its
\* transactions.
LEMMA SuccessTrue ==
  ASSUME Strategy # "hybrid_private_batch"
  PROVE  Spec => []SuccessIsRecorded /\ []NamesItsOwn
  <1>1. Shape /\ TruthInv => NamesItsOwn
    <2> SUFFICES ASSUME Shape, TruthInv, NEW l \in Logs, NEW k \in 1..Len(replies[l]),
                        replies[l][k].tx # 0
                 PROVE  TxOf(replies[l][k].tx, l)
      BY DEF NamesItsOwn
    <2>1. replies[l] \in Seq(Results)
      BY DEF Shape, TypeOK
    <2>2. replies[l][k] \in Range(replies[l])
      BY <2>1 DEF Range
    <2> QED BY <2>2 DEF TruthInv, RepliesTrue, TrueResult
  <1>2. Shape /\ TruthInv => SuccessIsRecorded
    <2> SUFFICES ASSUME Shape, TruthInv, NEW l \in Logs, NEW k \in 1..Len(replies[l]),
                        replies[l][k].ok, replies[l][k].tx # 0
                 PROVE  \E i \in 1..Len(chain) : chain[i] = [log |-> l, state |-> "recorded"]
      BY DEF SuccessIsRecorded
    <2>1. replies[l] \in Seq(Results) /\ chain \in Seq(Txs)
      BY DEF Shape, TypeOK
    <2>2. replies[l][k] \in Range(replies[l])
      BY <2>1 DEF Range
    <2>3. Told(l)
      BY <2>2 DEF TruthInv, RepliesTrue, TrueResult
    <2>4. PICK i \in 1..Len(chain) : chain[i].log = l /\ chain[i].state = "recorded"
      BY <2>3 DEF Told, Undecodable, Recorded
    <2>5. chain[i] \in Txs
      BY <2>1
    <2> QED BY <2>4, <2>5 DEF Txs
  <1> QED BY <1>1, <1>2, ShapeAlways, TruthAlways, PTL

-----------------------------------------------------------------------------
(***************************************************************************)
(* One result per caller.  Until its caller is answered, the single copy   *)
(* of an entry is a frame on the channel, a submit message, a confirm      *)
(* message or the answer.  A message whose ack is on the channel no longer *)
(* counts: the frames written before that ack have replaced it.  A lost    *)
(* connection brings such a message back, but then the reply queue of its  *)
(* caller is gone too.                                                     *)
(***************************************************************************)
Copy(f, l) == f.op \in {"submit", "confirm", "reply"} /\ f.log = l

Sent(s, l)     == \E i \in 1..Len(s) : Copy(s[i], l)
SentOnce(s, l) == \A i, j \in 1..Len(s) : Copy(s[i], l) /\ Copy(s[j], l) => i = j

\* Entry l is among the messages of a queue from place n on.
Held(q, n, l)     == \E i \in n..Len(q) : q[i] = l
HeldOnce(q, n, l) == \A i, j \in n..Len(q) : q[i] = l /\ q[j] = l => i = j

\* The first message of each queue that counts.
SubmitFrom  == IF Carries(outbox, "ackSubmit") THEN 2 ELSE 1
ConfirmFrom == IF Carries(outbox, "ackConfirm") THEN 2 ELSE 1

LogsOf(q)   == [i \in 1..Len(q) |-> q[i].log]
ConfirmLogs == LogsOf(confirmQ)

Untouched(l) ==
  /\ ~ Sent(outbox, l) /\ ~ Held(submitQ, 1, l) /\ ~ Held(ConfirmLogs, 1, l)
  /\ replies[l] = <<>>

Single(l) ==
  /\ SentOnce(outbox, l) /\ HeldOnce(submitQ, SubmitFrom, l)
  /\ HeldOnce(ConfirmLogs, ConfirmFrom, l)
  /\ Sent(outbox, l) => /\ ~ Held(submitQ, SubmitFrom, l) /\ replies[l] = <<>>
                        /\ ~ Held(ConfirmLogs, ConfirmFrom, l)
  /\ Held(submitQ, SubmitFrom, l) => /\ ~ Held(ConfirmLogs, ConfirmFrom, l)
                                     /\ replies[l] = <<>>
  /\ Held(ConfirmLogs, ConfirmFrom, l) => replies[l] = <<>>

NewUntouched   == \A l \in Logs : client[l] = "new" => Untouched(l)
WaitingSingle  ==
  \A l \in Logs : client[l] = "accepted" /\ (l \in ReplyTo \/ crashes = 0) => Single(l)
RepliesAwaited == \A f \in Range(outbox) : f.op = "reply" => f.log \in ReplyTo
AnsweredOnce   == \A l \in Logs : Len(replies[l]) <= 1
CutIsCrash     == crashes = 0 => server = "up"

ReplyInv == /\ NewUntouched /\ WaitingSingle /\ RepliesAwaited
            /\ AnsweredOnce /\ CutIsCrash

\* What joining and leaving a sequence does to the copies in it.
LEMMA AppendCopy ==
  ASSUME NEW s \in Seq(Frames), NEW f, NEW l
  PROVE  /\ Sent(Append(s, f), l) <=> Sent(s, l) \/ Copy(f, l)
         /\ SentOnce(s, l) /\ (Copy(f, l) => ~ Sent(s, l)) => SentOnce(Append(s, f), l)
  <1> DEFINE t == Append(s, f)
  <1>1. /\ Len(t) = Len(s) + 1 /\ Len(s) \in Nat
        /\ \A i \in 1..Len(s) : t[i] = s[i]
        /\ t[Len(s) + 1] = f
    OBVIOUS
  <1> HIDE DEF t
  <1>2. \A i \in 1..Len(t) : i \in 1..Len(s) \/ i = Len(s) + 1
    BY <1>1
  <1>3. ASSUME Sent(t, l) PROVE Sent(s, l) \/ Copy(f, l)
    <2>1. PICK i \in 1..Len(t) : Copy(t[i], l)
      BY <1>3 DEF Sent
    <2> QED BY <1>1, <1>2, <2>1 DEF Sent
  <1>4. ASSUME Sent(s, l) \/ Copy(f, l) PROVE Sent(t, l)
    <2>1. ASSUME NEW i \in 1..Len(s), Copy(s[i], l) PROVE i \in 1..Len(t) /\ Copy(t[i], l)
      BY <1>1, <2>1
    <2>2. ASSUME Copy(f, l) PROVE Len(s) + 1 \in 1..Len(t) /\ Copy(t[Len(s) + 1], l)
      BY <1>1, <2>2
    <2> QED BY <1>4, <2>1, <2>2 DEF Sent
  <1>5. ASSUME SentOnce(s, l), Copy(f, l) => ~ Sent(s, l) PROVE SentOnce(t, l)
    <2> SUFFICES ASSUME NEW i \in 1..Len(t), NEW j \in 1..Len(t),
                        Copy(t[i], l), Copy(t[j], l)
                 PROVE  i = j
      BY DEF SentOnce
    <2>1. CASE i \in 1..Len(s) /\ j \in 1..Len(s)
      BY <1>1, <1>5, <2>1 DEF SentOnce
    <2>2. CASE i = Len(s) + 1 /\ j \in 1..Len(s)
      BY <1>1, <1>5, <2>2 DEF Sent
    <2>3. CASE i \in 1..Len(s) /\ j = Len(s) + 1
      BY <1>1, <1>5, <2>3 DEF Sent
    <2> QED BY <1>2, <2>1, <2>2, <2>3
  <1> QED BY <1>3, <1>4, <1>5 DEF t

LEMMA TailCopy ==
  ASSUME NEW s \in Seq(Frames), s # <<>>, NEW l
  PROVE  /\ Sent(Tail(s), l) => Sent(s, l)
         /\ Copy(Head(s), l) => Sent(s, l)
         /\ SentOnce(s, l) => SentOnce(Tail(s), l)
         /\ SentOnce(s, l) /\ Copy(Head(s), l) => ~ Sent(Tail(s), l)
  <1> DEFINE t == Tail(s)
  <1>1. /\ Len(t) = Len(s) - 1 /\ Len(s) \in Nat \ {0}
        /\ \A i \in 1..Len(t) : t[i] = s[i + 1]
        /\ Head(s) = s[1]
    OBVIOUS
  <1> HIDE DEF t
  <1>2. /\ 1 \in 1..Len(s)
        /\ \A i \in 1..Len(t) : i + 1 \in 1..Len(s) /\ i + 1 # 1
    BY <1>1
  <1>3. Sent(t, l) => Sent(s, l)
    BY <1>1, <1>2 DEF Sent
  <1>4. Copy(Head(s), l) => Sent(s, l)
    BY <1>1, <1>2 DEF Sent
  <1>5. ASSUME SentOnce(s, l) PROVE SentOnce(t, l)
    <2> SUFFICES ASSUME NEW i \in 1..Len(t), NEW j \in 1..Len(t),
                        Copy(t[i], l), Copy(t[j], l)
                 PROVE  i = j
      BY DEF SentOnce
    <2>1. i + 1 = j + 1
      BY <1>1, <1>2, <1>5 DEF SentOnce
    <2> QED BY <2>1
  <1>6. ASSUME SentOnce(s, l), Copy(Head(s), l), Sent(t, l) PROVE FALSE
    <2>1. PICK i \in 1..Len(t) : Copy(t[i], l)
      BY <1>6 DEF Sent
    <2>2. i + 1 = 1
      BY <1>1, <1>2, <1>6, <2>1 DEF SentOnce
    <2> QED BY <1>2, <2>2
  <1> QED BY <1>3, <1>4, <1>5, <1>6 DEF t

LEMMA AppendHeld ==
  ASSUME NEW q \in Seq(Logs), NEW e, NEW l, NEW n \in {1, 2}, n = 2 => q # <<>>
  PROVE  /\ Held(Append(q, e), n, l) <=> Held(q, n, l) \/ e = l
         /\ HeldOnce(q, n, l) /\ (e = l => ~ Held(q, n, l)) => HeldOnce(Append(q, e), n, l)
  <1> DEFINE t == Append(q, e)
  <1>1. /\ Len(t) = Len(q) + 1 /\ Len(q) \in Nat /\ n <= Len(q) + 1
        /\ \A i \in 1..Len(q) : t[i] = q[i]
        /\ t[Len(q) + 1] = e
    OBVIOUS
  <1> HIDE DEF t
  <1>2. /\ \A i \in n..Len(t) : i \in n..Len(q) \/ i = Len(q) + 1
        /\ \A i \in n..Len(q) : i \in 1..Len(q) /\ i \in n..Len(t)
        /\ Len(q) + 1 \in n..Len(t)
    BY <1>1
  <1>3. ASSUME Held(t, n, l) PROVE Held(q, n, l) \/ e = l
    BY <1>1, <1>2, <1>3 DEF Held
  <1>4. ASSUME Held(q, n, l) \/ e = l PROVE Held(t, n, l)
    BY <1>1, <1>2, <1>4 DEF Held
  <1>5. ASSUME HeldOnce(q, n, l), e = l => ~ Held(q, n, l) PROVE HeldOnce(t, n, l)
    <2> SUFFICES ASSUME NEW i \in n..Len(t), NEW j \in n..Len(t), t[i] = l, t[j] = l
                 PROVE  i = j
      BY DEF HeldOnce
    <2>1. CASE i \in n..Len(q) /\ j \in n..Len(q)
      BY <1>1, <1>2, <1>5, <2>1 DEF HeldOnce
    <2>2. CASE i = Len(q) + 1 /\ j \in n..Len(q)
      BY <1>1, <1>2, <1>5, <2>2 DEF Held
    <2>3. CASE i \in n..Len(q) /\ j = Len(q) + 1
      BY <1>1, <1>2, <1>5, <2>3 DEF Held
    <2> QED BY <1>2, <2>1, <2>2, <2>3
  <1> QED BY <1>3, <1>4, <1>5 DEF t

LEMMA TailHeld ==
  ASSUME NEW q \in Seq(Logs), q # <<>>, NEW l
  PROVE  /\ Held(Tail(q), 1, l) <=> Held(q, 2, l)
         /\ HeldOnce(q, 2, l) => HeldOnce(Tail(q), 1, l)
         /\ Held(q, 2, l) => Held(q, 1, l)
         /\ Head(q) = l => Held(q, 1, l)
         /\ HeldOnce(q, 1, l) => HeldOnce(q, 2, l)
         /\ HeldOnce(q, 1, l) /\ Head(q) = l => ~ Held(q, 2, l)
  <1> DEFINE t == Tail(q)
  <1>1. /\ Len(t) = Len(q) - 1 /\ Len(q) \in Nat \ {0}
        /\ \A i \in 1..Len(t) : t[i] = q[i + 1]
        /\ Head(q) = q[1]
    OBVIOUS
  <1> HIDE DEF t
  <1>2. /\ \A i \in 1..Len(t) : i + 1 \in 2..Len(q)
        /\ \A i \in 2..Len(q) : i \in 1..Len(q) /\ i # 1
        /\ \A i \in 2..Len(q) : i - 1 \in 1..Len(t) /\ (i - 1) + 1 = i
        /\ 1 \in 1..Len(q)
    BY <1>1
  <1>3. ASSUME Held(t, 1, l) PROVE Held(q, 2, l)
    BY <1>1, <1>2, <1>3 DEF Held
  <1>4. ASSUME Held(q, 2, l) PROVE Held(t, 1, l)
    <2>1. PICK i \in 2..Len(q) : q[i] = l
      BY <1>4 DEF Held
    <2>2. i - 1 \in 1..Len(t) /\ t[i - 1] = l
      BY <1>1, <1>2, <2>1
    <2> QED BY <2>2 DEF Held
  <1>5. ASSUME HeldOnce(q, 2, l) PROVE HeldOnce(t, 1, l)
    <2> SUFFICES ASSUME NEW i \in 1..Len(t), NEW j \in 1..Len(t), t[i] = l, t[j] = l
                 PROVE  i = j
      BY DEF HeldOnce
    <2>1. i + 1 = j + 1
      BY <1>1, <1>2, <1>5 DEF HeldOnce
    <2> QED BY <2>1
  <1>6. Held(q, 2, l) => Held(q, 1, l)
    BY <1>2 DEF Held
  <1>7. Head(q) = l => Held(q, 1, l)
    BY <1>1, <1>2 DEF Held
  <1>8. HeldOnce(q, 1, l) => HeldOnce(q, 2, l)
    BY <1>2 DEF HeldOnce
  <1>9. HeldOnce(q, 1, l) /\ Head(q) = l => ~ Held(q, 2, l)
    BY <1>1, <1>2 DEF HeldOnce, Held
  <1> QED BY <1>3, <1>4, <1>5, <1>6, <1>7, <1>8, <1>9 DEF t

LEMMA LogsOfQueue ==
  ASSUME NEW q \in Seq(ConfirmMsgs)
  PROVE  /\ LogsOf(q) \in Seq(Logs)
         /\ q # <<>> => /\ LogsOf(q) # <<>> /\ Head(LogsOf(q)) = Head(q).log
                        /\ LogsOf(Tail(q)) = Tail(LogsOf(q))
         /\ \A m \in ConfirmMsgs : LogsOf(Append(q, m)) = Append(LogsOf(q), m.log)
  <1> DEFINE p == LogsOf(q)
  <1>1. /\ Len(q) \in Nat /\ \A i \in 1..Len(q) : q[i] \in ConfirmMsgs
    OBVIOUS
  <1>2. \A i \in 1..Len(q) : q[i].log \in Logs
    BY <1>1 DEF ConfirmMsgs
  <1>3. p = [i \in 1..Len(q) |-> q[i].log]
    BY DEF LogsOf
  <1>4. p \in Seq(Logs) /\ Len(p) = Len(q) /\ \A i \in 1..Len(q) : p[i] = q[i].log
    BY <1>1, <1>2, <1>3
  <1>5. ASSUME q # <<>>
        PROVE  p # <<>> /\ Head(p) = Head(q).log /\ LogsOf(Tail(q)) = Tail(p)
    <2> HIDE DEF p
    <2>1. /\ p # <<>> /\ Head(p) = p[1] /\ Head(q) = q[1] /\ 1 \in 1..Len(q)
      BY <1>1, <1>4, <1>5
    <2> DEFINE t == Tail(p)
               u == Tail(q)
    <2>2. Len(u) = Len(q) - 1 /\ \A i \in 1..(Len(q) - 1) : u[i] = q[i + 1]
      BY <1>1, <1>5
    <2>3. /\ t \in Seq(Logs) /\ DOMAIN t = 1..(Len(q) - 1)
          /\ \A i \in 1..(Len(q) - 1) : t[i] = p[i + 1]
      BY <1>4, <2>1
    <2> HIDE DEF t, u
    <2>4. \A i \in 1..(Len(q) - 1) : i + 1 \in 1..Len(q)
      BY <1>1
    <2>5. \A i \in 1..(Len(q) - 1) : t[i] = u[i].log
      BY <1>4, <2>2, <2>3, <2>4
    <2>6. t = [i \in DOMAIN t |-> t[i]]
      BY <2>3
    <2>7. t = [i \in 1..(Len(q) - 1) |-> u[i].log]
      BY <2>3, <2>5, <2>6
    <2>8. LogsOf(u) = [i \in 1..(Len(q) - 1) |-> u[i].log]
      BY <2>2 DEF LogsOf
    <2> QED BY <1>4, <2>1, <2>7, <2>8 DEF t, u
  <1>6. ASSUME NEW m \in ConfirmMsgs PROVE LogsOf(Append(q, m)) = Append(p, m.log)
    <2> HIDE DEF p
    <2> DEFINE t == Append(p, m.log)
               u == Append(q, m)
    <2>1. m.log \in Logs
      BY DEF ConfirmMsgs
    <2>2. /\ Len(u) = Len(q) + 1 /\ u[Len(q) + 1] = m
          /\ \A i \in 1..Len(q) : u[i] = q[i]
      BY <1>1
    <2>3. /\ Len(t) = Len(q) + 1 /\ DOMAIN t = 1..(Len(q) + 1) /\ t \in Seq(Logs)
          /\ t[Len(q) + 1] = m.log /\ \A i \in 1..Len(q) : t[i] = p[i]
      BY <1>1, <1>4, <2>1
    <2> HIDE DEF t, u
    <2>4. \A i \in 1..(Len(q) + 1) : i \in 1..Len(q) \/ i = Len(q) + 1
      BY <1>1
    <2>5. \A i \in 1..(Len(q) + 1) : t[i] = u[i].log
      BY <1>4, <2>2, <2>3, <2>4
    <2>6. t = [i \in DOMAIN t |-> t[i]]
      BY <2>3
    <2>7. t = [i \in 1..(Len(q) + 1) |-> u[i].log]
      BY <2>3, <2>5, <2>6
    <2>8. LogsOf(u) = [i \in 1..(Len(q) + 1) |-> u[i].log]
      BY <2>2 DEF LogsOf
    <2> QED BY <2>7, <2>8 DEF t, u
  <1> QED BY <1>4, <1>5, <1>6

LEMMA LiveFrom ==
  ASSUME Shape
  PROVE  /\ SubmitFrom \in {1, 2} /\ ConfirmFrom \in {1, 2}
         /\ SubmitFrom = 2 => submitQ # <<>>
         /\ ConfirmFrom = 2 => ConfirmLogs # <<>>
         /\ sub.pc # "idle" => SubmitFrom = 1 /\ submitQ # <<>>
         /\ con.pc # "idle" => ConfirmFrom = 1 /\ ConfirmLogs # <<>> /\ confirmQ # <<>>
         /\ submitQ \in Seq(Logs) /\ ConfirmLogs \in Seq(Logs)
         /\ confirmQ # <<>> => ConfirmLogs # <<>> /\ Head(ConfirmLogs) = ConMsg.log
  <1>1. submitQ \in Seq(Logs) /\ confirmQ \in Seq(ConfirmMsgs)
    BY DEF Shape, TypeOK
  <1>2. /\ ConfirmLogs \in Seq(Logs)
        /\ confirmQ # <<>> => ConfirmLogs # <<>> /\ Head(ConfirmLogs) = ConMsg.log
    BY <1>1, LogsOfQueue DEF ConfirmLogs, ConMsg
  <1>3. /\ Carries(outbox, "ackSubmit") => submitQ # <<>>
        /\ Carries(outbox, "ackConfirm") => confirmQ # <<>>
        /\ sub.pc # "idle" => submitQ # <<>> /\ ~ Carries(outbox, "ackSubmit")
        /\ con.pc # "idle" => confirmQ # <<>> /\ ~ Carries(outbox, "ackConfirm")
    BY DEF Shape, HandlersOwnHead
  <1> QED BY <1>1, <1>2, <1>3 DEF SubmitFrom, ConfirmFrom

\* A finishing handler puts at most one copy on the channel, one of its entry,
\* and stops counting its message.
LEMMA FinishCopies ==
  ASSUME Shape, NEW w \in Seq(Frames), NEW a, NEW f, NEW l, a.op \in {"ackSubmit", "ackConfirm"},
         outbox' = Append(w, a), w = outbox \/ w = Append(outbox, f)
  PROVE  /\ Sent(outbox', l) => Sent(outbox, l) \/ f.log = l
         /\ SentOnce(outbox, l) /\ (f.log = l => ~ Sent(outbox, l)) => SentOnce(outbox', l)
  <1>1. outbox \in Seq(Frames)
    BY DEF Shape, TypeOK
  <1>2. /\ Sent(w, l) => Sent(outbox, l) \/ f.log = l
        /\ SentOnce(outbox, l) /\ (f.log = l => ~ Sent(outbox, l)) => SentOnce(w, l)
    <2>1. /\ Sent(Append(outbox, f), l) <=> Sent(outbox, l) \/ Copy(f, l)
          /\ SentOnce(outbox, l) /\ (Copy(f, l) => ~ Sent(outbox, l))
               => SentOnce(Append(outbox, f), l)
      BY <1>1, AppendCopy
    <2>2. Copy(f, l) => f.log = l
      BY DEF Copy
    <2> QED BY <2>1, <2>2
  <1>3. ~ Copy(a, l)
    BY DEF Copy
  <1>4. /\ Sent(Append(w, a), l) <=> Sent(w, l) \/ Copy(a, l)
        /\ SentOnce(w, l) /\ (Copy(a, l) => ~ Sent(w, l)) => SentOnce(Append(w, a), l)
    BY AppendCopy
  <1> QED BY <1>2, <1>3, <1>4

\* Steps that move no message and tell no caller.
LEMMA ReplyQuiet ==
  ASSUME ReplyInv, UNCHANGED <<client, outbox, submitQ, confirmQ, replies, crashes>>,
         server' = server \/ server' = "up"
  PROVE  ReplyInv'
  <1>1. /\ SubmitFrom' = SubmitFrom /\ ConfirmFrom' = ConfirmFrom
        /\ ConfirmLogs' = ConfirmLogs
    BY DEF SubmitFrom, ConfirmFrom, ConfirmLogs
  <1>2. \A l : (Untouched(l)' <=> Untouched(l)) /\ (Single(l)' <=> Single(l))
    BY <1>1 DEF Untouched, Single
  <1> QED BY <1>2 DEF ReplyInv, NewUntouched, WaitingSingle, RepliesAwaited, AnsweredOnce,
                      CutIsCrash

\* A lost connection: the callers that wait for a reply are gone.
LEMMA ReplyLost ==
  ASSUME Shape, ReplyInv, NEW to, LoseConnection(to), crashes' # 0
  PROVE  ReplyInv'
  <1>1. outbox' = <<>> /\ UNCHANGED <<submitQ, confirmQ, replies>>
    BY DEF LoseConnection
  <1>2. \A l \in Logs : /\ client'[l] = "new" => client[l] = "new"
                        /\ client'[l] = "accepted" => l \notin ReplyTo
    BY DEF LoseConnection
  <1>3. ConfirmLogs' = ConfirmLogs
    BY <1>1 DEF ConfirmLogs
  <1>4. \A l : ~ Sent(<<>>, l)
    BY DEF Sent
  <1>5. NewUntouched'
    <2> SUFFICES ASSUME NEW l \in Logs, client'[l] = "new" PROVE Untouched(l)'
      BY DEF NewUntouched
    <2>a. client[l] = "new"
      BY <1>2
    <2>b. NewUntouched
      BY DEF ReplyInv
    <2>1. Untouched(l)
      BY <2>a, <2>b DEF NewUntouched
    <2>2. ~ Sent(outbox', l)
      BY <1>1, <1>4
    <2> QED BY <1>1, <1>3, <2>1, <2>2 DEF Untouched
  <1>6. WaitingSingle'
    BY <1>2 DEF WaitingSingle
  <1>7. RepliesAwaited'
    BY <1>1, RangeEmpty DEF RepliesAwaited
  <1> QED BY <1>1, <1>5, <1>6, <1>7 DEF ReplyInv, AnsweredOnce, CutIsCrash

\* The caller publishes: the only copy of its entry is the submit frame.
LEMMA ReplyPublish ==
  ASSUME Shape, ReplyInv, NEW k \in Logs, PublishLog(k)
  PROVE  ReplyInv'
  <1>1. /\ client[k] = "new" /\ outbox \in Seq(Frames)
        /\ client \in [Logs -> {"new", "accepted", "gone", "error"}]
        /\ UNCHANGED <<server, submitQ, confirmQ, replies, crashes>>
    BY DEF PublishLog, Shape, TypeOK
  <1>2. PICK f : f = Frame("submit", k, 0, TRUE)
    OBVIOUS
  <1>3. \/ outbox' = Append(outbox, f) /\ client' = [client EXCEPT ![k] = "accepted"]
        \/ outbox' = outbox /\ client' = [client EXCEPT ![k] = "error"]
    BY <1>2 DEF PublishLog
  <1>4. f.op = "submit" /\ f.log = k
    BY <1>2 DEF Frame
  <1>5. ASSUME NEW op \in {"ackSubmit", "ackConfirm"}
        PROVE  Carries(outbox', op) <=> Carries(outbox, op)
    <2>1. f \in Frames
      BY <1>2 DEF Frame, Frames
    <2>2. Carries(Append(outbox, f), op) <=> Carries(outbox, op) \/ f.op = op
      BY <1>1, <2>1, AppendFrame
    <2> QED BY <1>3, <1>4, <2>2
  <1>6. /\ SubmitFrom' = SubmitFrom /\ ConfirmFrom' = ConfirmFrom
        /\ ConfirmLogs' = ConfirmLogs
    BY <1>1, <1>5 DEF SubmitFrom, ConfirmFrom, ConfirmLogs
  <1>7. \A l \in Logs : l # k => /\ Sent(outbox', l) => Sent(outbox, l)
                                 /\ SentOnce(outbox, l) => SentOnce(outbox', l)
    <2> SUFFICES ASSUME NEW l \in Logs, l # k
                 PROVE  /\ Sent(outbox', l) => Sent(outbox, l)
                        /\ SentOnce(outbox, l) => SentOnce(outbox', l)
      OBVIOUS
    <2>1. ~ Copy(f, l)
      BY <1>4 DEF Copy
    <2>2. /\ Sent(Append(outbox, f), l) <=> Sent(outbox, l) \/ Copy(f, l)
          /\ SentOnce(outbox, l) /\ (Copy(f, l) => ~ Sent(outbox, l))
               => SentOnce(Append(outbox, f), l)
      BY <1>1, AppendCopy
    <2> QED BY <1>3, <2>1, <2>2
  <1>8. NewUntouched'
    <2> SUFFICES ASSUME NEW l \in Logs, client'[l] = "new" PROVE Untouched(l)'
      BY DEF NewUntouched
    <2>1. l # k /\ client[l] = "new"
      BY <1>1, <1>3
    <2>2. Untouched(l)
      BY <2>1 DEF ReplyInv, NewUntouched
    <2> QED BY <1>1, <1>6, <1>7, <2>1, <2>2, Zenon DEF Untouched
  <1>9. WaitingSingle'
    <2> SUFFICES ASSUME NEW l \in Logs, client'[l] = "accepted",
                        l \in ReplyTo \/ crashes' = 0
                 PROVE  Single(l)'
      BY DEF WaitingSingle
    <2>1. CASE l # k
      <3>1. client[l] = "accepted" /\ (l \in ReplyTo \/ crashes = 0)
        BY <1>1, <1>3, <2>1
      <3>2. Single(l)
        BY <3>1 DEF ReplyInv, WaitingSingle
      <3> QED BY <1>1, <1>6, <1>7, <2>1, <3>2, Zenon DEF Single
    <2>2. CASE l = k
      <3>1. ~ Sent(outbox, k) /\ Untouched(k)
        BY <1>1 DEF ReplyInv, NewUntouched, Untouched
      <3>2. SentOnce(outbox', k)
        <4>1. SentOnce(outbox, k)
          BY <3>1 DEF SentOnce, Sent
        <4>2. SentOnce(Append(outbox, f), k)
          BY <1>1, <3>1, <4>1, AppendCopy
        <4> QED BY <1>3, <4>1, <4>2
      <3>3. /\ \A n \in {1, 2} : ~ Held(submitQ, n, k) /\ HeldOnce(submitQ, n, k)
            /\ \A n \in {1, 2} : ~ Held(ConfirmLogs, n, k) /\ HeldOnce(ConfirmLogs, n, k)
        <4>1. ~ Held(submitQ, 1, k) /\ ~ Held(ConfirmLogs, 1, k)
          BY <3>1 DEF Untouched
        <4>2. Len(submitQ) \in Nat /\ Len(ConfirmLogs) \in Nat
          BY LiveFrom
        <4> QED BY <4>1, <4>2 DEF Held, HeldOnce
      <3>4. /\ ~ Held(submitQ, SubmitFrom, k) /\ HeldOnce(submitQ, SubmitFrom, k)
            /\ ~ Held(ConfirmLogs, ConfirmFrom, k)
            /\ HeldOnce(ConfirmLogs, ConfirmFrom, k)
        BY <3>3, LiveFrom, Zenon
      <3>5. replies[k] = <<>>
        BY <3>1 DEF Untouched
      <3> QED BY <1>1, <1>6, <2>2, <3>2, <3>4, <3>5, Zenon DEF Single
    <2> QED BY <2>1, <2>2
  <1>10. RepliesAwaited'
    <2>1. Range(Append(outbox, f)) = Range(outbox) \cup {f}
      BY <1>1, RangeAppend
    <2> QED BY <1>3, <1>4, <2>1 DEF ReplyInv, RepliesAwaited
  <1> QED BY <1>1, <1>8, <1>9, <1>10 DEF ReplyInv, AnsweredOnce, CutIsCrash

\* The submit handler finishes: its message becomes a confirm or a reply frame.
LEMMA ReplySubmitted ==
  ASSUME Shape, ReplyInv, FinishSubmit
  PROVE  ReplyInv'
  <1>1. /\ UNCHANGED <<server, client, submitQ, confirmQ, replies, crashes>>
        /\ outbox \in Seq(Frames)
    BY DEF FinishSubmit, callers, Shape, TypeOK
  <1>a. PICK k \in Logs, w \in Seq(Frames), a \in Frames :
          /\ k = SubLog /\ a.op = "ackSubmit" /\ outbox' = Append(w, a)
          /\ \/ w = outbox
             \/ w = Append(outbox, ConfirmFrame)
             \/ w = Append(outbox, EmptyReply) /\ k \in ReplyTo
    <2>1. AckS(SubLog).op = "ackSubmit"
      BY DEF AckS, Frame
    <2> QED BY <2>1, SubmitFrames
  <1>b. /\ ConfirmFrame.log = k /\ ConfirmFrame.op = "confirm" /\ ConfirmFrame \in Frames
        /\ EmptyReply.log = k /\ EmptyReply.op = "reply" /\ EmptyReply \in Frames
    BY <1>a DEF ConfirmFrame, EmptyReply, Frame, Frames, Shape, TypeOK, SubStates
  <1>2. PICK f \in Frames : /\ f.log = k /\ f.op \in {"confirm", "reply"}
                            /\ f.op = "reply" => k \in ReplyTo
                            /\ w = outbox \/ w = Append(outbox, f)
    BY <1>a, <1>b
  <1>3. SubmitFrom = 1 /\ submitQ # <<>> /\ submitQ \in Seq(Logs) /\ Head(submitQ) = k
    BY <1>a, LiveFrom DEF FinishSubmit, SubLog
  <1>4. /\ SubmitFrom' = 2 /\ ConfirmFrom' = ConfirmFrom /\ ConfirmLogs' = ConfirmLogs
    <2>1. \A op : /\ Carries(Append(outbox, f), op) <=> Carries(outbox, op) \/ f.op = op
                  /\ Carries(Append(w, a), op) <=> Carries(w, op) \/ a.op = op
      BY <1>1, AppendFrame
    <2>2. \A op \in {"ackSubmit", "ackConfirm"} :
            Carries(outbox', op) <=> Carries(outbox, op) \/ a.op = op
      BY <1>a, <1>2, <2>1
    <2> QED BY <1>1, <1>a, <2>2 DEF SubmitFrom, ConfirmFrom, ConfirmLogs
  <1>5. \A l \in Logs :
          /\ Sent(outbox', l) => Sent(outbox, l) \/ l = k
          /\ SentOnce(outbox, l) /\ (l = k => ~ Sent(outbox, l)) => SentOnce(outbox', l)
          /\ Held(submitQ, 2, l) => Held(submitQ, 1, l)
          /\ l = k => Held(submitQ, 1, l)
          /\ HeldOnce(submitQ, 1, l) => HeldOnce(submitQ, 2, l)
          /\ HeldOnce(submitQ, 1, l) /\ l = k => ~ Held(submitQ, 2, l)
    <2>1. \A l \in Logs :
            /\ Sent(outbox', l) => Sent(outbox, l) \/ l = k
            /\ SentOnce(outbox, l) /\ (l = k => ~ Sent(outbox, l)) => SentOnce(outbox', l)
      BY <1>a, <1>2, FinishCopies
    <2>2. \A l \in Logs :
            /\ Held(submitQ, 2, l) => Held(submitQ, 1, l)
            /\ l = k => Held(submitQ, 1, l)
            /\ HeldOnce(submitQ, 1, l) => HeldOnce(submitQ, 2, l)
            /\ HeldOnce(submitQ, 1, l) /\ l = k => ~ Held(submitQ, 2, l)
      BY <1>3, TailHeld
    <2> QED BY <2>1, <2>2
  <1>6. NewUntouched'
    <2> SUFFICES ASSUME NEW l \in Logs, client[l] = "new" PROVE Untouched(l)'
      BY <1>1 DEF NewUntouched
    <2>1. Untouched(l)
      BY DEF ReplyInv, NewUntouched
    <2> QED BY <1>1, <1>4, <1>5, <2>1 DEF Untouched
  <1>7. WaitingSingle'
    <2> SUFFICES ASSUME NEW l \in Logs, Single(l) PROVE Single(l)'
      BY <1>1 DEF ReplyInv, WaitingSingle
    <2> QED BY <1>1, <1>3, <1>4, <1>5 DEF Single
  <1>8. RepliesAwaited'
    <2>1. /\ Range(outbox') = Range(w) \cup {a}
          /\ Range(Append(outbox, f)) = Range(outbox) \cup {f}
      BY <1>1, <1>a, RangeAppend
    <2>2. \A g \in Range(outbox) : g.op = "reply" => g.log \in ReplyTo
      BY DEF ReplyInv, RepliesAwaited
    <2> SUFFICES ASSUME NEW g \in Range(outbox'), g.op = "reply" PROVE g.log \in ReplyTo
      BY DEF RepliesAwaited
    <2>3. g \in Range(outbox) \/ (w # outbox /\ g = f)
      BY <1>a, <1>2, <2>1
    <2> QED BY <1>2, <2>2, <2>3
  <1> QED BY <1>1, <1>6, <1>7, <1>8 DEF ReplyInv, AnsweredOnce, CutIsCrash

\* The confirm handler finishes: its message becomes a reply frame, if awaited.
LEMMA ReplyConfirmed ==
  ASSUME Shape, ReplyInv, FinishConfirm
  PROVE  ReplyInv'
  <1>1. /\ UNCHANGED <<server, client, submitQ, confirmQ, replies, crashes>>
        /\ outbox \in Seq(Frames)
    BY DEF FinishConfirm, callers, Shape, TypeOK
  <1>a. PICK k \in Logs, w \in Seq(Frames), a \in Frames :
          /\ k = ConMsg.log /\ a.op = "ackConfirm" /\ outbox' = Append(w, a)
          /\ \/ w = outbox
             \/ w = Append(outbox, FailureReply) /\ k \in ReplyTo
             \/ w = Append(outbox, ResultReply) /\ k \in ReplyTo
    <2>1. AckC(ConMsg.log).op = "ackConfirm"
      BY DEF AckC, Frame
    <2> QED BY <2>1, ConfirmFrames
  <1>b. /\ FailureReply.log = k /\ FailureReply.op = "reply" /\ FailureReply \in Frames
        /\ ResultReply.log = k /\ ResultReply.op = "reply" /\ ResultReply \in Frames
    <2>1. ConMsg.tx \in Nat /\ (con.result = "confirmed") \in BOOLEAN
      BY ConMsgType DEF Shape, HandlersOwnHead, FinishConfirm
    <2> QED BY <1>a, <2>1 DEF FailureReply, ResultReply, Frame, Frames
  <1>2. PICK f \in Frames : /\ f.log = k /\ f.op = "reply"
                            /\ w = outbox \/ (w = Append(outbox, f) /\ k \in ReplyTo)
    BY <1>a, <1>b
  <1>3. /\ ConfirmFrom = 1 /\ ConfirmLogs # <<>> /\ ConfirmLogs \in Seq(Logs)
        /\ Head(ConfirmLogs) = k
    BY <1>a, LiveFrom DEF FinishConfirm
  <1>4. /\ ConfirmFrom' = 2 /\ SubmitFrom' = SubmitFrom /\ ConfirmLogs' = ConfirmLogs
    <2>1. \A op : /\ Carries(Append(outbox, f), op) <=> Carries(outbox, op) \/ f.op = op
                  /\ Carries(Append(w, a), op) <=> Carries(w, op) \/ a.op = op
      BY <1>1, AppendFrame
    <2>2. \A op \in {"ackSubmit", "ackConfirm"} :
            Carries(outbox', op) <=> Carries(outbox, op) \/ a.op = op
      BY <1>a, <1>2, <2>1
    <2> QED BY <1>1, <1>a, <2>2 DEF SubmitFrom, ConfirmFrom, ConfirmLogs
  <1>5. \A l \in Logs :
          /\ Sent(outbox', l) => Sent(outbox, l) \/ l = k
          /\ SentOnce(outbox, l) /\ (l = k => ~ Sent(outbox, l)) => SentOnce(outbox', l)
          /\ Held(ConfirmLogs, 2, l) => Held(ConfirmLogs, 1, l)
          /\ l = k => Held(ConfirmLogs, 1, l)
          /\ HeldOnce(ConfirmLogs, 1, l) => HeldOnce(ConfirmLogs, 2, l)
          /\ HeldOnce(ConfirmLogs, 1, l) /\ l = k => ~ Held(ConfirmLogs, 2, l)
    <2>1. \A l \in Logs :
            /\ Sent(outbox', l) => Sent(outbox, l) \/ l = k
            /\ SentOnce(outbox, l) /\ (l = k => ~ Sent(outbox, l)) => SentOnce(outbox', l)
      BY <1>a, <1>2, FinishCopies
    <2>2. \A l \in Logs :
            /\ Held(ConfirmLogs, 2, l) => Held(ConfirmLogs, 1, l)
            /\ l = k => Held(ConfirmLogs, 1, l)
            /\ HeldOnce(ConfirmLogs, 1, l) => HeldOnce(ConfirmLogs, 2, l)
            /\ HeldOnce(ConfirmLogs, 1, l) /\ l = k => ~ Held(ConfirmLogs, 2, l)
      BY <1>3, TailHeld
    <2> QED BY <2>1, <2>2
  <1>6. NewUntouched'
    <2> SUFFICES ASSUME NEW l \in Logs, client[l] = "new" PROVE Untouched(l)'
      BY <1>1 DEF NewUntouched
    <2>1. Untouched(l)
      BY DEF ReplyInv, NewUntouched
    <2> QED BY <1>1, <1>4, <1>5, <2>1 DEF Untouched
  <1>7. WaitingSingle'
    <2> SUFFICES ASSUME NEW l \in Logs, Single(l) PROVE Single(l)'
      BY <1>1 DEF ReplyInv, WaitingSingle
    <2> QED BY <1>1, <1>3, <1>4, <1>5 DEF Single
  <1>8. RepliesAwaited'
    <2>1. /\ Range(outbox') = Range(w) \cup {a}
          /\ Range(Append(outbox, f)) = Range(outbox) \cup {f}
      BY <1>1, <1>a, RangeAppend
    <2>2. \A g \in Range(outbox) : g.op = "reply" => g.log \in ReplyTo
      BY DEF ReplyInv, RepliesAwaited
    <2> SUFFICES ASSUME NEW g \in Range(outbox'), g.op = "reply" PROVE g.log \in ReplyTo
      BY DEF RepliesAwaited
    <2>3. g \in Range(outbox) \/ (w # outbox /\ g = f)
      BY <1>a, <1>2, <2>1
    <2> QED BY <1>2, <2>2, <2>3
  <1> QED BY <1>1, <1>6, <1>7, <1>8 DEF ReplyInv, AnsweredOnce, CutIsCrash

\* The broker takes a frame: a message moves to its queue or to its caller, an
\* ack removes the head.
Taken(f, m, r, k) ==
  \/ /\ f.op = "submit" /\ submitQ' = Append(submitQ, k)
     /\ UNCHANGED <<confirmQ, replies>>
  \/ /\ f.op = "confirm" /\ confirmQ' = Append(confirmQ, m)
     /\ UNCHANGED <<submitQ, replies>>
  \/ /\ f.op = "reply" /\ UNCHANGED <<submitQ, confirmQ>>
     /\ replies' = IF client[k] = "accepted"
                   THEN [replies EXCEPT ![k] = Append(replies[k], r)]
                   ELSE replies
  \/ /\ f.op = "ackSubmit" /\ submitQ' = Tail(submitQ)
     /\ UNCHANGED <<confirmQ, replies>>
  \/ /\ f.op = "ackConfirm" /\ confirmQ' = Tail(confirmQ)
     /\ UNCHANGED <<submitQ, replies>>

LEMMA FrameTaken ==
  ASSUME Shape, BrokerTakes
  PROVE  \E f \in Frames, m \in ConfirmMsgs, r \in Results, k \in Logs :
           /\ f = Head(outbox) /\ f \in Range(outbox) /\ k = f.log /\ m.log = k
           /\ Taken(f, m, r, k)
           /\ \A op : op # f.op => (Carries(outbox', op) <=> Carries(outbox, op))
           /\ Carries(outbox, f.op)
           /\ f.op \in {"ackSubmit", "ackConfirm"} => ~ Carries(outbox', f.op)
  <1>1. outbox \in Seq(Frames) /\ outbox # <<>> /\ outbox' = Tail(outbox) /\ AcksOnce(outbox)
    BY DEF BrokerTakes, Shape, TypeOK, HandlersOwnHead
  <1>2. PICK f \in Frames : f = Head(outbox) /\ f \in Range(outbox)
    <2>1. Head(outbox) \in Frames
      BY <1>1
    <2> QED BY <1>1, <2>1, RangeTail
  <1>3. PICK m \in ConfirmMsgs, r \in Results, k \in Logs :
          k = f.log /\ m.log = k /\ Taken(f, m, r, k)
    <2>1. /\ [log |-> f.log, tx |-> f.tx] \in ConfirmMsgs
          /\ [ok |-> f.ok, tx |-> f.tx] \in Results /\ f.log \in Logs
          /\ [log |-> f.log, tx |-> f.tx].log = f.log
      BY <1>2 DEF Frames, ConfirmMsgs, Results
    <2> DEFINE m == [log |-> f.log, tx |-> f.tx]
               r == [ok |-> f.ok, tx |-> f.tx]
               k == f.log
    <2>2. Taken(f, m, r, k)
      BY <1>2 DEF BrokerTakes, Taken
    <2>3. /\ k = f.log /\ k \in Logs /\ m \in ConfirmMsgs /\ r \in Results /\ m.log = k
      BY <2>1
    <2> HIDE DEF m, r, k
    <2> QED BY <2>2, <2>3
  <1>4. /\ \A op : Carries(outbox', op) => Carries(outbox, op)
        /\ Carries(outbox, f.op)
        /\ f.op \in {"ackSubmit", "ackConfirm"} => ~ Carries(outbox', f.op)
    BY <1>1, <1>2, TailFrame
  <1>5. ASSUME NEW op, op # f.op PROVE Carries(outbox, op) => Carries(outbox', op)
    <2> SUFFICES ASSUME NEW i \in 1..Len(outbox), outbox[i].op = op
                 PROVE  \E j \in 1..Len(outbox') : outbox'[j].op = op
      BY DEF Carries
    <2>1. /\ Len(outbox') = Len(outbox) - 1 /\ Len(outbox) \in Nat \ {0}
          /\ \A j \in 1..Len(outbox') : outbox'[j] = outbox[j + 1]
          /\ f = outbox[1]
      BY <1>1, <1>2
    <2>2. i # 1
      BY <1>5, <2>1
    <2>3. i - 1 \in 1..Len(outbox') /\ (i - 1) + 1 = i
      BY <2>1, <2>2
    <2> QED BY <2>1, <2>3
  <1> QED BY <1>2, <1>3, <1>4, <1>5

\* A copy moves to where its frame takes it, and the message an ack removes no
\* longer counts.
LEMMA ReplyTaken ==
  ASSUME Shape, ReplyInv, BrokerTakes
  PROVE  ReplyInv'
  <1>1. /\ UNCHANGED <<server, client, crashes>>
        /\ outbox \in Seq(Frames) /\ outbox # <<>> /\ outbox' = Tail(outbox)
        /\ replies \in [Logs -> Seq(Results)] /\ AcksOnce(outbox)
        /\ submitQ \in Seq(Logs) /\ confirmQ \in Seq(ConfirmMsgs)
    BY DEF BrokerTakes, Shape, TypeOK, HandlersOwnHead
  <1>2. PICK f \in Frames, m \in ConfirmMsgs, r \in Results, k \in Logs :
          /\ f = Head(outbox) /\ f \in Range(outbox) /\ k = f.log /\ m.log = k
          /\ Taken(f, m, r, k)
          /\ \A op : op # f.op => (Carries(outbox', op) <=> Carries(outbox, op))
          /\ Carries(outbox, f.op)
          /\ f.op \in {"ackSubmit", "ackConfirm"} => ~ Carries(outbox', f.op)
    BY FrameTaken
  <1>3. /\ k = f.log /\ m.log = k
        /\ \/ /\ f.op = "submit" /\ submitQ' = Append(submitQ, k)
              /\ UNCHANGED <<confirmQ, replies>>
           \/ /\ f.op = "confirm" /\ confirmQ' = Append(confirmQ, m)
              /\ UNCHANGED <<submitQ, replies>>
           \/ /\ f.op = "reply" /\ UNCHANGED <<submitQ, confirmQ>>
              /\ replies' = IF client[k] = "accepted"
                            THEN [replies EXCEPT ![k] = Append(replies[k], r)]
                            ELSE replies
           \/ /\ f.op = "ackSubmit" /\ submitQ' = Tail(submitQ)
              /\ UNCHANGED <<confirmQ, replies>>
           \/ /\ f.op = "ackConfirm" /\ confirmQ' = Tail(confirmQ)
              /\ UNCHANGED <<submitQ, replies>>
    BY <1>2 DEF Taken
  <1>4. /\ Carries(outbox, f.op)
        /\ f.op \in {"ackSubmit", "ackConfirm"} => ~ Carries(outbox', f.op)
    BY <1>2
  <1>5. \A op : op # f.op => (Carries(outbox', op) <=> Carries(outbox, op))
    BY <1>2
  <1>6. \A l \in Logs : /\ Sent(outbox', l) => Sent(outbox, l)
                        /\ Copy(f, l) => Sent(outbox, l)
                        /\ SentOnce(outbox, l) => SentOnce(outbox', l)
                        /\ SentOnce(outbox, l) /\ Copy(f, l) => ~ Sent(outbox', l)
    BY <1>1, <1>2, TailCopy
  <1>7. RepliesAwaited'
    BY <1>1, RangeTail DEF ReplyInv, RepliesAwaited
  <1>8. CutIsCrash'
    BY <1>1 DEF ReplyInv, CutIsCrash
  <1>9. /\ SubmitFrom \in {1, 2} /\ ConfirmFrom \in {1, 2}
        /\ SubmitFrom = 2 => submitQ # <<>>
        /\ ConfirmFrom = 2 => ConfirmLogs # <<>>
        /\ ConfirmLogs \in Seq(Logs)
    BY LiveFrom
  <1>10. CASE f.op = "submit"
    <2>1. /\ submitQ' = Append(submitQ, k) /\ UNCHANGED <<confirmQ, replies>>
          /\ \A l : Copy(f, l) <=> l = k
      BY <1>3, <1>10 DEF Copy
    <2>2. /\ SubmitFrom' = SubmitFrom /\ ConfirmFrom' = ConfirmFrom
          /\ ConfirmLogs' = ConfirmLogs
      BY <1>4, <1>5, <1>10, <2>1 DEF SubmitFrom, ConfirmFrom, ConfirmLogs
    <2>3. \A l \in Logs : \A n \in {1, 2} : (n = 2 => submitQ # <<>>) =>
            /\ Held(submitQ', n, l) <=> Held(submitQ, n, l) \/ k = l
            /\ HeldOnce(submitQ, n, l) /\ (k = l => ~ Held(submitQ, n, l))
                 => HeldOnce(submitQ', n, l)
      BY <1>1, <2>1, AppendHeld
    <2>4. NewUntouched'
      <3> SUFFICES ASSUME NEW l \in Logs, Untouched(l) PROVE Untouched(l)'
        BY <1>1 DEF NewUntouched, ReplyInv
      <3> QED BY <1>6, <2>1, <2>2, <2>3 DEF Untouched
    <2>5. WaitingSingle'
      <3> SUFFICES ASSUME NEW l \in Logs, Single(l) PROVE Single(l)'
        BY <1>1 DEF WaitingSingle, ReplyInv
      <3>1. /\ Held(submitQ', SubmitFrom, l) <=> Held(submitQ, SubmitFrom, l) \/ k = l
            /\ HeldOnce(submitQ, SubmitFrom, l) /\ (k = l => ~ Held(submitQ, SubmitFrom, l))
                 => HeldOnce(submitQ', SubmitFrom, l)
        BY <1>9, <2>3, Zenon
      <3> QED BY <1>6, <2>1, <2>2, <3>1 DEF Single
    <2> QED BY <1>7, <1>8, <2>1, <2>4, <2>5 DEF ReplyInv, AnsweredOnce
  <1>11. CASE f.op = "confirm"
    <2>1. /\ UNCHANGED <<submitQ, replies>> /\ ConfirmLogs' = Append(ConfirmLogs, k)
          /\ \A l : Copy(f, l) <=> l = k
      <3>1. confirmQ' = Append(confirmQ, m) /\ UNCHANGED <<submitQ, replies>>
        BY <1>3, <1>11
      <3>2. LogsOf(Append(confirmQ, m)) = Append(LogsOf(confirmQ), m.log)
        BY <1>1, LogsOfQueue
      <3> QED BY <1>3, <1>11, <3>1, <3>2 DEF Copy, ConfirmLogs
    <2>2. /\ SubmitFrom' = SubmitFrom /\ ConfirmFrom' = ConfirmFrom
      BY <1>4, <1>5, <1>11, <2>1 DEF SubmitFrom, ConfirmFrom
    <2>3. \A l \in Logs : \A n \in {1, 2} : (n = 2 => ConfirmLogs # <<>>) =>
            /\ Held(ConfirmLogs', n, l) <=> Held(ConfirmLogs, n, l) \/ k = l
            /\ HeldOnce(ConfirmLogs, n, l) /\ (k = l => ~ Held(ConfirmLogs, n, l))
                 => HeldOnce(ConfirmLogs', n, l)
      BY <1>9, <2>1, AppendHeld
    <2>4. NewUntouched'
      <3> SUFFICES ASSUME NEW l \in Logs, Untouched(l) PROVE Untouched(l)'
        BY <1>1 DEF NewUntouched, ReplyInv
      <3> QED BY <1>6, <2>1, <2>2, <2>3 DEF Untouched
    <2>5. WaitingSingle'
      <3> SUFFICES ASSUME NEW l \in Logs, Single(l) PROVE Single(l)'
        BY <1>1 DEF WaitingSingle, ReplyInv
      <3>1. /\ Held(ConfirmLogs', ConfirmFrom, l)
                 <=> Held(ConfirmLogs, ConfirmFrom, l) \/ k = l
            /\ (/\ HeldOnce(ConfirmLogs, ConfirmFrom, l)
                /\ k = l => ~ Held(ConfirmLogs, ConfirmFrom, l))
                 => HeldOnce(ConfirmLogs', ConfirmFrom, l)
        BY <1>9, <2>3, Zenon
      <3> QED BY <1>6, <2>1, <2>2, <3>1 DEF Single
    <2> QED BY <1>7, <1>8, <2>1, <2>4, <2>5 DEF ReplyInv, AnsweredOnce
  <1>12. CASE f.op = "reply"
    <2>1. /\ UNCHANGED <<submitQ, confirmQ>> /\ ConfirmLogs' = ConfirmLogs
          /\ \A l : Copy(f, l) <=> l = k
          /\ replies' = IF client[k] = "accepted"
                        THEN [replies EXCEPT ![k] = Append(replies[k], r)] ELSE replies
      BY <1>3, <1>12 DEF Copy, ConfirmLogs
    <2>2. /\ SubmitFrom' = SubmitFrom /\ ConfirmFrom' = ConfirmFrom
      BY <1>4, <1>5, <1>12, <2>1 DEF SubmitFrom, ConfirmFrom
    <2>3. \A l \in Logs : l # k => replies'[l] = replies[l]
      BY <1>1, <2>1
    <2>4. Sent(outbox, k) /\ k \in ReplyTo
      BY <1>2, <1>3, <1>6, <1>12, <2>1 DEF ReplyInv, RepliesAwaited
    <2>5. client[k] = "accepted" => Single(k) /\ replies[k] = <<>>
      BY <2>4 DEF ReplyInv, WaitingSingle, Single
    <2>6. NewUntouched'
      <3> SUFFICES ASSUME NEW l \in Logs, client[l] = "new", Untouched(l) PROVE Untouched(l)'
        BY <1>1 DEF NewUntouched, ReplyInv
      <3>1. l # k
        BY <2>4 DEF Untouched
      <3> QED BY <1>6, <2>1, <2>3, <3>1 DEF Untouched
    <2>7. WaitingSingle'
      <3> SUFFICES ASSUME NEW l \in Logs, Single(l) PROVE Single(l)'
        BY <1>1 DEF WaitingSingle, ReplyInv
      <3>1. CASE l # k
        BY <1>6, <2>1, <2>2, <2>3, <3>1 DEF Single
      <3>2. CASE l = k
        <4>1. /\ ~ Held(submitQ, SubmitFrom, k) /\ ~ Held(ConfirmLogs, ConfirmFrom, k)
              /\ ~ Sent(outbox', k) /\ SentOnce(outbox', k)
          BY <1>6, <2>1, <2>4, <3>2 DEF Single
        <4> QED BY <2>1, <2>2, <3>2, <4>1 DEF Single
      <3> QED BY <3>1, <3>2
    <2>8. AnsweredOnce'
      <3> SUFFICES ASSUME NEW l \in Logs PROVE Len(replies'[l]) <= 1
        BY DEF AnsweredOnce
      <3>1. Len(replies[l]) <= 1
        BY DEF ReplyInv, AnsweredOnce
      <3>2. CASE l # k
        BY <2>3, <3>1, <3>2
      <3>3. CASE l = k /\ client[k] = "accepted"
        <4>1. replies'[k] = Append(<<>>, r)
          BY <1>1, <2>1, <2>5, <3>3
        <4> QED BY <3>3, <4>1
      <3>4. CASE l = k /\ client[k] # "accepted"
        BY <2>1, <3>1, <3>4
      <3> QED BY <3>2, <3>3, <3>4
    <2> QED BY <1>7, <1>8, <2>6, <2>7, <2>8 DEF ReplyInv
  <1>13. CASE f.op = "ackSubmit"
    <2>1. /\ submitQ' = Tail(submitQ) /\ UNCHANGED <<confirmQ, replies>>
          /\ \A l : ~ Copy(f, l)
      BY <1>3, <1>13 DEF Copy
    <2>2. /\ SubmitFrom = 2 /\ SubmitFrom' = 1 /\ ConfirmFrom' = ConfirmFrom
          /\ ConfirmLogs' = ConfirmLogs
      BY <1>4, <1>5, <1>13, <2>1 DEF SubmitFrom, ConfirmFrom, ConfirmLogs
    <2>3. \A l \in Logs :
            /\ Held(submitQ', 1, l) <=> Held(submitQ, 2, l)
            /\ HeldOnce(submitQ, 2, l) => HeldOnce(submitQ', 1, l)
            /\ Held(submitQ, 2, l) => Held(submitQ, 1, l)
      BY <1>1, <1>9, <2>1, <2>2, TailHeld
    <2>4. NewUntouched'
      <3> SUFFICES ASSUME NEW l \in Logs, Untouched(l) PROVE Untouched(l)'
        BY <1>1 DEF NewUntouched, ReplyInv
      <3> QED BY <1>6, <2>1, <2>2, <2>3 DEF Untouched
    <2>5. WaitingSingle'
      <3> SUFFICES ASSUME NEW l \in Logs, Single(l) PROVE Single(l)'
        BY <1>1 DEF WaitingSingle, ReplyInv
      <3> QED BY <1>6, <2>1, <2>2, <2>3 DEF Single
    <2> QED BY <1>7, <1>8, <2>1, <2>4, <2>5 DEF ReplyInv, AnsweredOnce
  <1>14. CASE f.op = "ackConfirm"
    <2>1. /\ confirmQ' = Tail(confirmQ) /\ UNCHANGED <<submitQ, replies>>
          /\ \A l : ~ Copy(f, l)
      BY <1>3, <1>14 DEF Copy
    <2>2. /\ ConfirmFrom = 2 /\ ConfirmFrom' = 1 /\ SubmitFrom' = SubmitFrom
      BY <1>4, <1>5, <1>14, <2>1 DEF SubmitFrom, ConfirmFrom
    <2>a. ConfirmLogs' = Tail(ConfirmLogs)
      <3>1. confirmQ # <<>>
        BY <1>4, <1>14 DEF Shape, HandlersOwnHead
      <3> QED BY <1>1, <2>1, <3>1, LogsOfQueue DEF ConfirmLogs
    <2>3. \A l \in Logs :
            /\ Held(ConfirmLogs', 1, l) <=> Held(ConfirmLogs, 2, l)
            /\ HeldOnce(ConfirmLogs, 2, l) => HeldOnce(ConfirmLogs', 1, l)
            /\ Held(ConfirmLogs, 2, l) => Held(ConfirmLogs, 1, l)
      BY <1>9, <2>a, <2>2, TailHeld
    <2>4. NewUntouched'
      <3> SUFFICES ASSUME NEW l \in Logs, Untouched(l) PROVE Untouched(l)'
        BY <1>1 DEF NewUntouched, ReplyInv
      <3> QED BY <1>6, <2>1, <2>2, <2>3 DEF Untouched
    <2>5. WaitingSingle'
      <3> SUFFICES ASSUME NEW l \in Logs, Single(l) PROVE Single(l)'
        BY <1>1 DEF WaitingSingle, ReplyInv
      <3> QED BY <1>6, <2>1, <2>2, <2>3 DEF Single
    <2> QED BY <1>7, <1>8, <2>1, <2>4, <2>5 DEF ReplyInv, AnsweredOnce
  <1> QED BY <1>3, <1>10, <1>11, <1>12, <1>13, <1>14

LEMMA ReplyAlways == Spec => []ReplyInv
  <1>1. Init => ReplyInv
    <2> SUFFICES ASSUME Init PROVE ReplyInv
      OBVIOUS
    <2>1. /\ outbox = <<>> /\ submitQ = <<>> /\ confirmQ = <<>> /\ server = "up"
          /\ client = [l \in Logs |-> "new"] /\ replies = [l \in Logs |-> <<>>]
      BY DEF Init
    <2>2. \A l \in Logs : client[l] = "new" /\ replies[l] = <<>>
      BY <2>1
    <2>3. \A l \in Logs : ~ Sent(outbox, l) /\ ~ Held(submitQ, 1, l)
      BY <2>1 DEF Sent, Held
    <2>4. \A l \in Logs : ~ Held(ConfirmLogs, 1, l)
      <3>1. Len(ConfirmLogs) = 0
        BY <2>1 DEF ConfirmLogs, LogsOf
      <3> QED BY <3>1 DEF Held
    <2>5. NewUntouched
      BY <2>2, <2>3, <2>4 DEF NewUntouched, Untouched
    <2>6. WaitingSingle /\ AnsweredOnce
      BY <2>2 DEF WaitingSingle, AnsweredOnce
    <2> QED BY <2>1, <2>5, <2>6, RangeEmpty DEF ReplyInv, RepliesAwaited, CutIsCrash
  <1>2. Shape /\ ReplyInv /\ [Next]_vars => ReplyInv'
    <2> SUFFICES ASSUME Shape, ReplyInv, [Next]_vars PROVE ReplyInv'
      OBVIOUS
    <2>1. CASE UNCHANGED vars
      BY <2>1, ReplyQuiet DEF vars, callers, queues
    <2>2. CASE \/ TakeSubmit \/ InsertAnchored \/ AnchorWriteLog \/ UpdateAnchorStatus
               \/ TakeConfirm \/ Poll \/ ConfirmStatus
      BY <2>2, ReplyQuiet DEF TakeSubmit, InsertAnchored, AnchorWriteLog,
             UpdateAnchorStatus, TakeConfirm, Poll, ConfirmStatus, callers, queues
    <2>3. CASE \E i \in 1..Len(chain) : ChainStep(i)
      BY <2>3, ReplyQuiet DEF ChainStep, Include, Finalize, Reorg, DropTx, ChainMoves,
             callers, queues
    <2>4. CASE Restart
      BY <2>4, ReplyQuiet DEF Restart, callers, queues
    <2>5. CASE Disconnect \/ Crash
      <3>1. crashes \in Nat /\ crashes' = crashes + 1
        BY <2>5, BoundsAssumption DEF Disconnect, Crash, Shape, TypeOK
      <3>2. crashes' # 0
        BY <3>1
      <3> QED BY <2>5, <3>2, ReplyLost DEF Disconnect, Crash
    <2>6. CASE DieOnClosedChannel
      <3>1. crashes' # 0
        BY <2>6 DEF DieOnClosedChannel, ReplyInv, CutIsCrash
      <3> QED BY <2>6, <3>1, ReplyLost DEF DieOnClosedChannel
    <2> QED
      BY <2>1, <2>2, <2>3, <2>4, <2>5, <2>6, ReplyPublish, ReplyTaken, ReplySubmitted,
         ReplyConfirmed DEF Next, SubmitHandler, ConfirmHandler
  <1> QED BY <1>1, <1>2, ShapeAlways, PTL DEF Spec

\* A caller never gets two results, and one that names a transaction names one of
\* its own entry and says success only if the chain recorded the entry, for every
\* strategy but hybrid_private_batch: there the service rejects what it is sent and
\* checkTx reports a rejected transaction as confirmed.  Nothing is said of a
\* success without a transaction, which the submit handler sends of a failure too.
THEOREM OneTrueReply ==
  ASSUME Strategy # "hybrid_private_batch"
  PROVE  Spec => []RepliedTrulyOnce
  <1>1. ReplyInv /\ SuccessIsRecorded /\ NamesItsOwn => RepliedTrulyOnce
    BY DEF ReplyInv, AnsweredOnce, RepliedTrulyOnce, NamesItsOwn, TxOf
  <1> QED BY <1>1, ReplyAlways, SuccessTrue, PTL

-----------------------------------------------------------------------------
(***************************************************************************)
(* The row lifecycle.  While no connection is lost, a hybrid entry's row   *)
(* is absent until the submit handler inserts it, and pending until the    *)
(* one confirm message of the entry is settled.  A handler that has used   *)
(* its message up no longer constrains it, and neither does an ack.        *)
(***************************************************************************)
IsAbsent(l)  == db[l].status = "absent"
IsPending(l) == db[l].status = "pending"

\* The first message of each queue whose row has not been written yet.
SubmitRun ==
  IF Carries(outbox, "ackSubmit") \/ sub.pc \in {"anchor", "status", "respond"}
  THEN 2 ELSE 1
ConfirmRun ==
  IF Carries(outbox, "ackConfirm") \/ con.pc = "respond" THEN 2 ELSE 1

RowsWhole == \A l \in Logs : IsAbsent(l) => db[l] = Absent
NewAbsent ==
  \A l \in Logs : /\ client[l] \in {"new", "accepted"}
                  /\ client[l] = "new" => IsAbsent(l)
FramesFit ==
  \A f \in Range(outbox) : /\ f.op = "submit" => IsAbsent(f.log)
                           /\ f.op = "confirm" => IsPending(f.log)
QueuedAbsent  == \A l \in Logs : Held(submitQ, SubmitRun, l) => IsAbsent(l)
HandedPending == \A l \in Logs : Held(ConfirmLogs, ConfirmRun, l) => IsPending(l)
SubFits ==
  /\ sub.pc = "insert" => sub.tx = 0
  /\ sub.pc \in {"anchor", "status"} \/ sub.tx # 0 => IsPending(SubLog)
  /\ sub.tx # 0 => sub.ok

LifeInv == /\ RowsWhole /\ NewAbsent /\ FramesFit
           /\ QueuedAbsent /\ HandedPending /\ SubFits

\* Nothing else refers to the entry a running handler works on.
LEMMA SubmitterAlone ==
  ASSUME Shape, ReplyInv, NewAbsent, crashes = 0, sub.pc # "idle"
  PROVE  /\ SubLog \in Logs /\ client[SubLog] # "new" /\ ~ Sent(outbox, SubLog)
         /\ ~ Held(submitQ, 2, SubLog) /\ Held(submitQ, 1, SubLog)
         /\ \A n \in {1, 2} : ConfirmFrom <= n => ~ Held(ConfirmLogs, n, SubLog)
         /\ con.pc # "idle" => SubLog # ConMsg.log
  <1>1. PICK k : k = SubLog
    OBVIOUS
  <1>2. /\ SubmitFrom = 1 /\ submitQ # <<>> /\ submitQ \in Seq(Logs)
        /\ ConfirmFrom \in {1, 2} /\ ConfirmLogs \in Seq(Logs)
        /\ con.pc # "idle" => /\ ConfirmFrom = 1 /\ ConfirmLogs # <<>>
                              /\ Head(ConfirmLogs) = ConMsg.log
    BY LiveFrom
  <1>3. k \in Logs /\ Head(submitQ) = k
    BY <1>1, <1>2, SubLogType DEF Shape, SubLog
  <1>4. Held(submitQ, 1, k)
    BY <1>2, <1>3, TailHeld
  <1>5. client[k] # "new"
    BY <1>3, <1>4 DEF ReplyInv, NewUntouched, Untouched
  <1>6. Single(k)
    BY <1>3, <1>5 DEF ReplyInv, NewAbsent, WaitingSingle
  <1>7. ~ Sent(outbox, k) /\ ~ Held(ConfirmLogs, ConfirmFrom, k) /\ HeldOnce(submitQ, 1, k)
    BY <1>2, <1>4, <1>6 DEF Single
  <1>8. ~ Held(submitQ, 2, k)
    BY <1>2, <1>3, <1>7, TailHeld
  <1>9. \A n \in {1, 2} : ConfirmFrom <= n => ~ Held(ConfirmLogs, n, k)
    BY <1>2, <1>7 DEF Held
  <1>10. con.pc # "idle" => k # ConMsg.log
    <2>1. ASSUME con.pc # "idle", k = ConMsg.log PROVE FALSE
      <3>1. Held(ConfirmLogs, 1, k)
        BY <1>2, <2>1, TailHeld
      <3> QED BY <1>2, <1>7, <2>1, <3>1
    <2> QED BY <2>1
  <1> QED BY <1>1, <1>3, <1>4, <1>5, <1>7, <1>8, <1>9, <1>10

LEMMA ConfirmerAlone ==
  ASSUME Shape, ReplyInv, NewAbsent, crashes = 0, con.pc # "idle"
  PROVE  /\ ConMsg.log \in Logs /\ client[ConMsg.log] # "new"
         /\ ~ Sent(outbox, ConMsg.log) /\ ~ Held(ConfirmLogs, 2, ConMsg.log)
         /\ Held(ConfirmLogs, 1, ConMsg.log)
         /\ \A n \in {1, 2} : SubmitFrom <= n => ~ Held(submitQ, n, ConMsg.log)
  <1>1. PICK k : k = ConMsg.log
    OBVIOUS
  <1>2. /\ ConfirmFrom = 1 /\ ConfirmLogs # <<>> /\ ConfirmLogs \in Seq(Logs)
        /\ SubmitFrom \in {1, 2} /\ submitQ \in Seq(Logs) /\ confirmQ # <<>>
        /\ Head(ConfirmLogs) = k
    BY <1>1, LiveFrom
  <1>3. k \in Logs
    BY <1>1, <1>2, ConMsgType DEF Shape
  <1>4. Held(ConfirmLogs, 1, k)
    BY <1>2, <1>3, TailHeld
  <1>5. client[k] # "new"
    BY <1>3, <1>4 DEF ReplyInv, NewUntouched, Untouched
  <1>6. Single(k)
    BY <1>3, <1>5 DEF ReplyInv, NewAbsent, WaitingSingle
  <1>7. ~ Sent(outbox, k) /\ ~ Held(submitQ, SubmitFrom, k) /\ HeldOnce(ConfirmLogs, 1, k)
    BY <1>2, <1>4, <1>6 DEF Single
  <1>8. ~ Held(ConfirmLogs, 2, k)
    BY <1>2, <1>3, <1>7, TailHeld
  <1>9. \A n \in {1, 2} : SubmitFrom <= n => ~ Held(submitQ, n, k)
    BY <1>2, <1>7 DEF Held
  <1> QED BY <1>1, <1>3, <1>4, <1>5, <1>7, <1>8, <1>9

\* A step of a handler that writes at most the row of entry k, to which nothing
\* else refers any more.
LEMMA RowMoves ==
  ASSUME Shape, LifeInv, NEW k \in Logs, UNCHANGED <<client, queues>>,
         \A l \in Logs : l # k => db'[l] = db[l],
         db'[k] = db[k] \/ (/\ db'[k].status # "absent" /\ client[k] # "new"
                            /\ ~ Sent(outbox, k) /\ ~ Held(submitQ, SubmitRun', k)
                            /\ ~ Held(ConfirmLogs, ConfirmRun', k)),
         SubmitRun <= SubmitRun', ConfirmRun <= ConfirmRun', SubFits'
  PROVE  LifeInv'
  <1>1. /\ outbox' = outbox /\ submitQ' = submitQ /\ ConfirmLogs' = ConfirmLogs
        /\ outbox \in Seq(Frames) /\ submitQ \in Seq(Logs) /\ ConfirmLogs \in Seq(Logs)
    BY LiveFrom DEF queues, ConfirmLogs, Shape, TypeOK
  <1>2. RowsWhole' /\ NewAbsent'
    BY DEF LifeInv, RowsWhole, NewAbsent, IsAbsent
  <1>3. FramesFit'
    <2> SUFFICES ASSUME NEW f \in Range(outbox)
                 PROVE  /\ f.op = "submit" => db'[f.log].status = "absent"
                        /\ f.op = "confirm" => db'[f.log].status = "pending"
      BY <1>1 DEF FramesFit, IsAbsent, IsPending
    <2>1. /\ f.op = "submit" => db[f.log].status = "absent"
          /\ f.op = "confirm" => db[f.log].status = "pending"
      BY DEF LifeInv, FramesFit, IsAbsent, IsPending
    <2>2. f.log \in Logs
      <3>1. Range(outbox) \subseteq Frames
        BY <1>1, RangeType
      <3> QED BY <3>1 DEF Frames
    <2>3. f.op \in {"submit", "confirm"} /\ f.log = k => Sent(outbox, k)
      BY <1>1 DEF Range, Sent, Copy
    <2> QED BY <2>1, <2>2, <2>3
  <1>4. /\ SubmitRun \in {1, 2} /\ SubmitRun' \in {1, 2}
        /\ ConfirmRun \in {1, 2} /\ ConfirmRun' \in {1, 2}
    BY DEF SubmitRun, ConfirmRun
  <1>5. QueuedAbsent'
    <2> SUFFICES ASSUME NEW l \in Logs, Held(submitQ, SubmitRun', l)
                 PROVE  db'[l].status = "absent"
      BY <1>1 DEF QueuedAbsent, IsAbsent
    <2>1. Held(submitQ, SubmitRun, l)
      BY <1>1, <1>4 DEF Held
    <2>2. db[l].status = "absent"
      BY <2>1 DEF LifeInv, QueuedAbsent, IsAbsent
    <2> QED BY <2>2
  <1>6. HandedPending'
    <2> SUFFICES ASSUME NEW l \in Logs, Held(ConfirmLogs, ConfirmRun', l)
                 PROVE  db'[l].status = "pending"
      BY <1>1 DEF HandedPending, IsPending
    <2>1. Held(ConfirmLogs, ConfirmRun, l)
      BY <1>1, <1>4 DEF Held
    <2>2. db[l].status = "pending"
      BY <2>1 DEF LifeInv, HandedPending, IsPending
    <2> QED BY <2>2
  <1> QED BY <1>2, <1>3, <1>5, <1>6 DEF LifeInv

\* The steps of the submit handler on its entry.
LEMMA LifeSubmits ==
  ASSUME Shape, ReplyInv, LifeInv, crashes = 0,
         InsertAnchored \/ AnchorWriteLog \/ UpdateAnchorStatus
  PROVE  LifeInv'
  <1>1. /\ sub \in SubStates /\ db \in [Logs -> Rows] /\ sub.pc # "idle"
        /\ UNCHANGED <<client, queues, con>> /\ SubLog' = SubLog
    BY DEF Shape, TypeOK, InsertAnchored, AnchorWriteLog, UpdateAnchorStatus, callers,
           queues, SubLog
  <1>2. /\ SubLog \in Logs /\ client[SubLog] # "new" /\ ~ Sent(outbox, SubLog)
        /\ ~ Held(submitQ, 2, SubLog) /\ Held(submitQ, 1, SubLog)
        /\ \A n \in {1, 2} : ConfirmFrom <= n => ~ Held(ConfirmLogs, n, SubLog)
    BY <1>1, SubmitterAlone DEF LifeInv
  <1>3. sub'.pc \in {"anchor", "status", "respond"}
    <2>1. InsertAnchored => sub'.pc \in {"anchor", "respond"}
      BY <1>1 DEF InsertAnchored, SubStates
    <2>2. AnchorWriteLog => sub'.pc \in {"status", "respond"}
      BY DEF AnchorWriteLog
    <2>3. UpdateAnchorStatus => sub'.pc = "respond"
      BY <1>1 DEF UpdateAnchorStatus, SubStates
    <2> QED BY <2>1, <2>2, <2>3
  <1>4. SubmitRun' = 2 /\ SubmitRun \in {1, 2} /\ ConfirmRun' = ConfirmRun
    BY <1>1, <1>3 DEF SubmitRun, ConfirmRun, queues
  <1>5. ConfirmRun \in {1, 2} /\ ConfirmFrom <= ConfirmRun
    BY DEF ConfirmRun, ConfirmFrom
  <1>6. ~ Held(ConfirmLogs, ConfirmRun', SubLog)
    BY <1>2, <1>4, <1>5
  <1>7. /\ sub.pc = "insert" => sub.tx = 0
        /\ sub.pc \in {"anchor", "status"} \/ sub.tx # 0 => IsPending(SubLog)
        /\ sub.tx # 0 => sub.ok
    BY DEF LifeInv, SubFits
  <1>8. PICK k \in Logs : k = SubLog
    BY <1>2
  <1>9. ASSUME \A l \in Logs : l # k => db'[l] = db[l],
               db'[k] = db[k] \/ db'[k].status # "absent",
               SubFits'
        PROVE  LifeInv'
    <2>1. \/ db'[k] = db[k]
          \/ /\ db'[k].status # "absent" /\ client[k] # "new"
             /\ ~ Sent(outbox, k) /\ ~ Held(submitQ, SubmitRun', k)
             /\ ~ Held(ConfirmLogs, ConfirmRun', k)
      BY <1>2, <1>4, <1>6, <1>8, <1>9
    <2>2. SubmitRun <= SubmitRun' /\ ConfirmRun <= ConfirmRun'
      BY <1>4, <1>5
    <2> QED BY <1>1, <1>9, <2>1, <2>2, RowMoves
  <1>10. CASE InsertAnchored
    <2>1. IsAbsent(k) /\ sub.pc = "insert" /\ sub.tx = 0
      <3>1. sub.pc = "insert" /\ ~ Carries(outbox, "ackSubmit")
        BY <1>10 DEF InsertAnchored, Shape, HandlersOwnHead
      <3>2. SubmitRun = 1
        BY <3>1 DEF SubmitRun
      <3> QED BY <1>2, <1>7, <1>8, <3>1, <3>2 DEF LifeInv, QueuedAbsent
    <2>2. db[k] = Absent
      BY <2>1 DEF LifeInv, RowsWhole
    <2>3. \/ /\ db' = [db EXCEPT ![k] = Row("pending", 0)]
             /\ sub' = [sub EXCEPT !.pc = "anchor"] \/ sub' = [sub EXCEPT !.pc = "respond"]
          \/ db' = db /\ sub' = [sub EXCEPT !.pc = "respond"]
      BY <1>8, <1>10, <2>2 DEF InsertAnchored
    <2>4. Row("pending", 0).status = "pending"
      BY DEF Row
    <2>5. /\ sub'.tx = 0 /\ sub'.pc \in {"anchor", "respond"}
          /\ sub'.pc = "anchor" => db'[k].status = "pending"
      BY <1>1, <2>1, <2>3, <2>4 DEF SubStates
    <2>6. SubFits'
      BY <1>1, <1>8, <2>5 DEF SubFits, IsPending
    <2>7. /\ \A l \in Logs : l # k => db'[l] = db[l]
          /\ db'[k] = db[k] \/ db'[k].status # "absent"
      BY <1>1, <2>3, <2>4
    <2> QED BY <1>9, <2>6, <2>7
  <1>11. CASE AnchorWriteLog
    <2>1. db' = db /\ sub.pc = "anchor"
      BY <1>11 DEF AnchorWriteLog
    <2>2. sub'.pc \in {"status", "respond"} /\ (sub'.tx # 0 => sub'.ok)
      BY <1>11 DEF AnchorWriteLog
    <2>3. SubFits'
      BY <1>1, <1>7, <2>1, <2>2 DEF SubFits, IsPending
    <2> QED BY <1>9, <2>1, <2>3
  <1>12. CASE UpdateAnchorStatus
    <2>1. sub.pc = "status" /\ IsPending(k)
      BY <1>7, <1>8, <1>12 DEF UpdateAnchorStatus
    <2>2. PICK s \in {"pending", "failed"} :
            /\ s = IF sub.ok THEN "pending" ELSE "failed"
            /\ \/ /\ db' = [db EXCEPT ![k] = Row(s, sub.tx)]
                  /\ sub' = [sub EXCEPT !.pc = "respond"]
               \/ /\ db' = db \/ db' = [db EXCEPT ![k] = Row(s, sub.tx)]
                  /\ sub' = [sub EXCEPT !.pc = "respond", !.tx = 0]
      BY <1>8, <1>12 DEF UpdateAnchorStatus
    <2>3. Row(s, sub.tx).status = s
      BY DEF Row
    <2>4. /\ sub'.pc = "respond" /\ sub'.ok = sub.ok
          /\ sub'.tx = sub.tx \/ sub'.tx = 0
      BY <1>1, <2>2 DEF SubStates
    <2>5. /\ \A l \in Logs : l # k => db'[l] = db[l]
          /\ db'[k] = db[k] \/ db'[k].status = s
      BY <1>1, <2>2, <2>3
    <2>6. SubFits'
      BY <1>1, <1>7, <1>8, <2>1, <2>2, <2>4, <2>5 DEF SubFits, IsPending
    <2> QED BY <1>9, <2>5, <2>6
  <1> QED BY <1>10, <1>11, <1>12

\* The steps of the confirm handler on its entry.
LEMMA LifeSettles ==
  ASSUME Shape, TruthInv, ReplyInv, LifeInv, crashes = 0, ConfirmStatus
  PROVE  /\ LifeInv' /\ IsPending(ConMsg.log)
  <1>1. /\ con \in ConStates /\ db \in [Logs -> Rows] /\ con.pc = "update"
        /\ UNCHANGED <<client, queues, sub>> /\ con'.pc = "respond"
    BY DEF Shape, TypeOK, ConfirmStatus, callers, ConStates
  <1>2. /\ ConMsg.log \in Logs /\ client[ConMsg.log] # "new"
        /\ ~ Sent(outbox, ConMsg.log) /\ ~ Held(ConfirmLogs, 2, ConMsg.log)
        /\ Held(ConfirmLogs, 1, ConMsg.log)
        /\ \A n \in {1, 2} : SubmitFrom <= n => ~ Held(submitQ, n, ConMsg.log)
    BY <1>1, ConfirmerAlone DEF LifeInv
  <1>3. PICK k \in Logs : k = ConMsg.log
    BY <1>2
  <1>4. SubmitRun' = SubmitRun /\ SubmitRun \in {1, 2} /\ SubmitFrom <= SubmitRun
    BY <1>1 DEF SubmitRun, SubmitFrom, queues
  <1>5. ConfirmRun = 1 /\ ConfirmRun' = 2
    <2>1. ~ Carries(outbox, "ackConfirm")
      BY <1>1 DEF Shape, HandlersOwnHead
    <2> QED BY <1>1, <2>1 DEF ConfirmRun
  <1>6. IsPending(k)
    BY <1>2, <1>3, <1>5 DEF LifeInv, HandedPending
  <1>7. PICK s \in {"pending", "confirmed", "failed"} :
          db' = db \/ db' = [db EXCEPT ![k] = Row(s, ConMsg.tx)]
    BY <1>1, <1>3 DEF ConfirmStatus, ConStates
  <1>8. Row(s, ConMsg.tx).status = s
    BY DEF Row
  <1>9. /\ \A l \in Logs : l # k => db'[l] = db[l]
        /\ db'[k] = db[k] \/ db'[k].status # "absent"
    BY <1>1, <1>7, <1>8
  <1>10. SubFits'
    <2>1. SubLog' = SubLog /\ SubFits
      BY <1>1 DEF SubLog, queues, LifeInv
    <2>2. ASSUME sub.pc # "idle" PROVE SubLog \in Logs /\ SubLog # k
      BY <1>1, <1>3, <2>2, SubmitterAlone DEF LifeInv
    <2>3. sub.tx # 0 => sub.pc # "idle"
      BY DEF TruthInv, SubTrue
    <2> QED BY <1>1, <1>9, <2>1, <2>2, <2>3 DEF SubFits, IsPending
  <1>11. \/ db'[k] = db[k]
         \/ /\ db'[k].status # "absent" /\ client[k] # "new"
            /\ ~ Sent(outbox, k) /\ ~ Held(submitQ, SubmitRun', k)
            /\ ~ Held(ConfirmLogs, ConfirmRun', k)
    BY <1>2, <1>3, <1>4, <1>5, <1>9
  <1>12. SubmitRun <= SubmitRun' /\ ConfirmRun <= ConfirmRun'
    BY <1>4, <1>5
  <1>13. LifeInv'
    BY <1>1, <1>9, <1>10, <1>11, <1>12, RowMoves
  <1> QED BY <1>3, <1>6, <1>13

\* The caller, the broker and the finishing handlers move a copy and write no
\* row: what they say of the entry's row is what was so already.
LEMMA LifeCarried ==
  ASSUME Shape, TruthInv, ReplyInv, LifeInv, crashes = 0,
         db' = db,
         (sub'.pc \in {"idle", "insert"} /\ sub'.tx = 0) \/ (sub' = sub /\ SubLog' = SubLog),
         \A l \in Logs : /\ client'[l] \in {"new", "accepted"}
                         /\ client'[l] = "new" => client[l] = "new",
         FramesFit', QueuedAbsent', HandedPending'
  PROVE  LifeInv'
  <1>1. RowsWhole' /\ NewAbsent'
    BY DEF LifeInv, RowsWhole, NewAbsent, IsAbsent
  <1>2. SubFits'
    BY DEF LifeInv, SubFits, IsPending
  <1> QED BY <1>1, <1>2 DEF LifeInv

LEMMA LifePublish ==
  ASSUME Shape, TruthInv, ReplyInv, LifeInv, crashes = 0, NEW k \in Logs, PublishLog(k)
  PROVE  LifeInv'
  <1>1. /\ client[k] = "new" /\ outbox \in Seq(Frames) /\ server = "up"
        /\ client \in [Logs -> {"new", "accepted", "gone", "error"}]
        /\ UNCHANGED <<db, sub, con, submitQ, confirmQ>>
    BY DEF PublishLog, Shape, TypeOK, handlers, ReplyInv, CutIsCrash
  <1>2. PICK f : f = Frame("submit", k, 0, TRUE)
    OBVIOUS
  <1>3. outbox' = Append(outbox, f) /\ client' = [client EXCEPT ![k] = "accepted"]
    BY <1>1, <1>2 DEF PublishLog
  <1>4. f.op = "submit" /\ f.log = k
    BY <1>2 DEF Frame
  <1>5. \A op : op # "submit" => (Carries(outbox', op) <=> Carries(outbox, op))
    <2>1. f \in Frames
      BY <1>2 DEF Frame, Frames
    <2>2. \A op : Carries(Append(outbox, f), op) <=> Carries(outbox, op) \/ f.op = op
      BY <1>1, <2>1, AppendFrame
    <2> QED BY <1>3, <1>4, <2>2
  <1>6. /\ SubmitRun' = SubmitRun /\ ConfirmRun' = ConfirmRun
        /\ ConfirmLogs' = ConfirmLogs /\ SubLog' = SubLog
    BY <1>1, <1>5 DEF SubmitRun, ConfirmRun, ConfirmLogs, SubLog
  <1>7. IsAbsent(k)
    BY <1>1 DEF LifeInv, NewAbsent
  <1>8. FramesFit'
    <2>1. Range(outbox') = Range(outbox) \cup {f}
      BY <1>1, <1>3, RangeAppend
    <2> QED BY <1>1, <1>4, <1>7, <2>1 DEF LifeInv, FramesFit, IsAbsent, IsPending
  <1>9. QueuedAbsent' /\ HandedPending'
    BY <1>1, <1>6 DEF LifeInv, QueuedAbsent, HandedPending, IsAbsent, IsPending
  <1>10. \A l \in Logs : /\ client'[l] \in {"new", "accepted"}
                         /\ client'[l] = "new" => client[l] = "new"
    BY <1>1, <1>3 DEF LifeInv, NewAbsent
  <1> QED BY <1>1, <1>6, <1>8, <1>9, <1>10, LifeCarried

LEMMA LifeSubmitted ==
  ASSUME Shape, TruthInv, ReplyInv, LifeInv, crashes = 0, FinishSubmit
  PROVE  LifeInv'
  <1>1. /\ UNCHANGED <<db, client, con, submitQ, confirmQ>> /\ sub.pc = "respond"
        /\ outbox \in Seq(Frames) /\ sub'.pc = "idle" /\ sub'.tx = 0
    BY DEF FinishSubmit, callers, Shape, TypeOK, IdleSub
  <1>2. PICK k \in Logs, w \in Seq(Frames), a \in Frames, f \in Frames :
          /\ k = SubLog /\ a.op = "ackSubmit" /\ outbox' = Append(w, a) /\ f.log = k
          /\ \/ w = outbox
             \/ w = Append(outbox, f) /\ f.op = "confirm" /\ sub.tx # 0
             \/ w = Append(outbox, f) /\ f.op = "reply"
    <2>1. SubLog \in Logs => ConfirmFrame \in Frames /\ EmptyReply \in Frames
      BY DEF ConfirmFrame, EmptyReply, Frame, Frames, Shape, TypeOK, SubStates
    <2>2. /\ AckS(SubLog).op = "ackSubmit"
          /\ ConfirmFrame.op = "confirm" /\ ConfirmFrame.log = SubLog
          /\ EmptyReply.op = "reply" /\ EmptyReply.log = SubLog
      BY DEF AckS, ConfirmFrame, EmptyReply, Frame
    <2>3. PICK w \in Seq(Frames) :
            /\ outbox' = Append(w, AckS(SubLog))
            /\ \/ w = outbox
               \/ w = Append(outbox, ConfirmFrame) /\ sub.tx # 0
               \/ w = Append(outbox, EmptyReply)
      BY SubmitFrames
    <2>4. SubLog \in Logs /\ AckS(SubLog) \in Frames
      BY SubmitFrames
    <2> QED BY <2>1, <2>2, <2>3, <2>4
  <1>3. \A op : /\ Carries(Append(outbox, f), op) <=> Carries(outbox, op) \/ f.op = op
                /\ Carries(Append(w, a), op) <=> Carries(w, op) \/ a.op = op
    BY <1>1, AppendFrame
  <1>4. /\ Carries(outbox', "ackSubmit")
        /\ Carries(outbox', "ackConfirm") <=> Carries(outbox, "ackConfirm")
    BY <1>2, <1>3
  <1>5. /\ SubmitRun = 2 /\ SubmitRun' = 2 /\ ConfirmRun' = ConfirmRun
        /\ ConfirmLogs' = ConfirmLogs
    BY <1>1, <1>4 DEF SubmitRun, ConfirmRun, ConfirmLogs
  <1>6. FramesFit'
    <2>1. /\ Range(outbox') = Range(w) \cup {a}
          /\ Range(Append(outbox, f)) = Range(outbox) \cup {f}
      BY <1>1, <1>2, RangeAppend
    <2>2. sub.tx # 0 => IsPending(k)
      BY <1>2 DEF LifeInv, SubFits
    <2> SUFFICES ASSUME NEW g \in Range(outbox')
                 PROVE  /\ g.op = "submit" => IsAbsent(g.log)
                        /\ g.op = "confirm" => IsPending(g.log)
      BY <1>1 DEF FramesFit, IsAbsent, IsPending
    <2>3. CASE g \in Range(outbox)
      BY <2>3 DEF LifeInv, FramesFit
    <2>4. CASE g \notin Range(outbox)
      <3>1. g = a \/ (g = f /\ w # outbox)
        BY <1>2, <2>1, <2>4
      <3> QED BY <1>2, <2>2, <3>1
    <2> QED BY <2>3, <2>4
  <1>7. QueuedAbsent' /\ HandedPending'
    BY <1>1, <1>5 DEF LifeInv, QueuedAbsent, HandedPending, IsAbsent, IsPending
  <1>8. \A l \in Logs : client[l] \in {"new", "accepted"}
    BY DEF LifeInv, NewAbsent
  <1> QED BY <1>1, <1>6, <1>7, <1>8, LifeCarried

LEMMA LifeConfirmed ==
  ASSUME Shape, TruthInv, ReplyInv, LifeInv, crashes = 0, FinishConfirm
  PROVE  LifeInv'
  <1>1. /\ UNCHANGED <<db, client, sub, submitQ, confirmQ>> /\ con.pc = "respond"
        /\ outbox \in Seq(Frames) /\ con'.pc = "idle"
    BY DEF FinishConfirm, callers, Shape, TypeOK, IdleCon
  <1>2. PICK w \in Seq(Frames), a \in Frames, f \in Frames :
          /\ a.op = "ackConfirm" /\ outbox' = Append(w, a) /\ f.op = "reply"
          /\ w = outbox \/ w = Append(outbox, f)
    <2>1. FailureReply \in Frames /\ ResultReply \in Frames
      <3>1. ConMsg.log \in Logs /\ ConMsg.tx \in Nat
        BY ConMsgType DEF Shape, HandlersOwnHead, FinishConfirm
      <3>2. (con.result = "confirmed") \in BOOLEAN
        OBVIOUS
      <3> QED BY <3>1, <3>2 DEF FailureReply, ResultReply, Frame, Frames
    <2>2. /\ AckC(ConMsg.log).op = "ackConfirm"
          /\ FailureReply.op = "reply" /\ ResultReply.op = "reply"
      BY DEF AckC, FailureReply, ResultReply, Frame
    <2>3. PICK w \in Seq(Frames) :
            /\ outbox' = Append(w, AckC(ConMsg.log))
            /\ \/ w = outbox
               \/ w = Append(outbox, FailureReply)
               \/ w = Append(outbox, ResultReply)
      BY ConfirmFrames
    <2>4. AckC(ConMsg.log) \in Frames
      BY ConfirmFrames
    <2> QED BY <2>1, <2>2, <2>3, <2>4
  <1>3. \A op : /\ Carries(Append(outbox, f), op) <=> Carries(outbox, op) \/ f.op = op
                /\ Carries(Append(w, a), op) <=> Carries(w, op) \/ a.op = op
    BY <1>1, <1>2, AppendFrame
  <1>4. /\ Carries(outbox', "ackConfirm")
        /\ Carries(outbox', "ackSubmit") <=> Carries(outbox, "ackSubmit")
    BY <1>2, <1>3
  <1>5. /\ ConfirmRun = 2 /\ ConfirmRun' = 2 /\ SubmitRun' = SubmitRun
        /\ ConfirmLogs' = ConfirmLogs /\ SubLog' = SubLog
    BY <1>1, <1>4 DEF SubmitRun, ConfirmRun, ConfirmLogs, SubLog
  <1>6. FramesFit'
    <2>1. /\ Range(outbox') = Range(w) \cup {a}
          /\ Range(Append(outbox, f)) = Range(outbox) \cup {f}
      BY <1>1, <1>2, RangeAppend
    <2> SUFFICES ASSUME NEW g \in Range(outbox')
                 PROVE  /\ g.op = "submit" => IsAbsent(g.log)
                        /\ g.op = "confirm" => IsPending(g.log)
      BY <1>1 DEF FramesFit, IsAbsent, IsPending
    <2>2. g \in Range(outbox) \/ g = a \/ g = f
      BY <1>2, <2>1
    <2> QED BY <1>2, <2>2 DEF LifeInv, FramesFit
  <1>7. QueuedAbsent' /\ HandedPending'
    BY <1>1, <1>5 DEF LifeInv, QueuedAbsent, HandedPending, IsAbsent, IsPending
  <1>8. \A l \in Logs : client[l] \in {"new", "accepted"}
    BY DEF LifeInv, NewAbsent
  <1> QED BY <1>1, <1>5, <1>6, <1>7, <1>8, LifeCarried

LEMMA LifeTaken ==
  ASSUME Shape, TruthInv, ReplyInv, LifeInv, crashes = 0, BrokerTakes
  PROVE  LifeInv'
  <1>1. /\ UNCHANGED <<db, client, sub, con>>
        /\ outbox \in Seq(Frames) /\ outbox # <<>> /\ outbox' = Tail(outbox)
        /\ submitQ \in Seq(Logs) /\ confirmQ \in Seq(ConfirmMsgs)
    BY DEF BrokerTakes, Shape, TypeOK, handlers
  <1>2. PICK f \in Frames, m \in ConfirmMsgs, r \in Results, k \in Logs :
          /\ f = Head(outbox) /\ f \in Range(outbox) /\ k = f.log /\ m.log = k
          /\ Taken(f, m, r, k)
          /\ \A op : op # f.op => (Carries(outbox', op) <=> Carries(outbox, op))
          /\ Carries(outbox, f.op)
          /\ f.op \in {"ackSubmit", "ackConfirm"} => ~ Carries(outbox', f.op)
    BY FrameTaken
  <1>3. FramesFit'
    <2>1. \A g \in Range(outbox') : g \in Range(outbox)
      BY <1>1, RangeTail
    <2> QED BY <1>1, <2>1 DEF LifeInv, FramesFit, IsAbsent, IsPending
  <1>4. /\ f.op = "submit" => IsAbsent(k)
        /\ f.op = "confirm" => IsPending(k)
    BY <1>2 DEF LifeInv, FramesFit
  <1>5. SubmitRun' = SubmitRun \/ f.op = "ackSubmit"
    BY <1>1, <1>2 DEF SubmitRun
  <1>6. ConfirmRun' = ConfirmRun \/ f.op = "ackConfirm"
    BY <1>1, <1>2 DEF ConfirmRun
  <1>7. /\ SubmitRun \in {1, 2} /\ (SubmitRun = 2 => submitQ # <<>>)
        /\ ConfirmRun \in {1, 2} /\ (ConfirmRun = 2 => ConfirmLogs # <<>>)
        /\ ConfirmLogs \in Seq(Logs)
    BY LiveFrom DEF SubmitRun, ConfirmRun, Shape, HandlersOwnHead
  <1>8. QueuedAbsent'
    <2>1. CASE f.op = "submit"
      <3>1. submitQ' = Append(submitQ, k) /\ SubmitRun' = SubmitRun
        BY <1>2, <1>5, <2>1 DEF Taken
      <3>2. \A l \in Logs : Held(submitQ', SubmitRun, l) <=> Held(submitQ, SubmitRun, l) \/ k = l
        BY <1>1, <1>7, <3>1, AppendHeld
      <3> QED BY <1>1, <1>4, <2>1, <3>1, <3>2 DEF LifeInv, QueuedAbsent, IsAbsent
    <2>2. CASE f.op = "ackSubmit"
      <3>1. submitQ' = Tail(submitQ) /\ submitQ # <<>>
        BY <1>2, <2>2 DEF Taken, Shape, HandlersOwnHead
      <3>2. sub.pc = "idle" /\ SubmitRun = 2 /\ SubmitRun' = 1
        BY <1>1, <1>2, <2>2 DEF SubmitRun, Shape, HandlersOwnHead
      <3>3. \A l \in Logs : Held(submitQ', 1, l) <=> Held(submitQ, 2, l)
        BY <1>1, <3>1, TailHeld
      <3> QED BY <1>1, <3>2, <3>3 DEF LifeInv, QueuedAbsent, IsAbsent
    <2>3. CASE f.op \notin {"submit", "ackSubmit"}
      <3>1. submitQ' = submitQ /\ SubmitRun' = SubmitRun
        BY <1>2, <1>5, <2>3 DEF Taken
      <3> QED BY <1>1, <3>1 DEF LifeInv, QueuedAbsent, IsAbsent
    <2> QED BY <2>1, <2>2, <2>3
  <1>9. HandedPending'
    <2>1. CASE f.op = "confirm"
      <3>1. ConfirmLogs' = Append(ConfirmLogs, k) /\ ConfirmRun' = ConfirmRun
        <4>1. confirmQ' = Append(confirmQ, m)
          BY <1>2, <2>1 DEF Taken
        <4>2. LogsOf(Append(confirmQ, m)) = Append(LogsOf(confirmQ), m.log)
          BY <1>1, LogsOfQueue
        <4> QED BY <1>2, <1>6, <2>1, <4>1, <4>2 DEF ConfirmLogs
      <3>2. \A l \in Logs : Held(ConfirmLogs', ConfirmRun, l)
                              <=> Held(ConfirmLogs, ConfirmRun, l) \/ k = l
        BY <1>7, <3>1, AppendHeld
      <3> QED BY <1>1, <1>4, <2>1, <3>1, <3>2 DEF LifeInv, HandedPending, IsPending
    <2>2. CASE f.op = "ackConfirm"
      <3>1. ConfirmLogs' = Tail(ConfirmLogs) /\ ConfirmLogs # <<>>
        <4>1. confirmQ' = Tail(confirmQ) /\ confirmQ # <<>>
          BY <1>2, <2>2 DEF Taken, Shape, HandlersOwnHead
        <4> QED BY <1>1, <4>1, LogsOfQueue DEF ConfirmLogs
      <3>2. con.pc = "idle" /\ ConfirmRun = 2 /\ ConfirmRun' = 1
        BY <1>1, <1>2, <2>2 DEF ConfirmRun, Shape, HandlersOwnHead
      <3>3. \A l \in Logs : Held(ConfirmLogs', 1, l) <=> Held(ConfirmLogs, 2, l)
        BY <1>7, <3>1, TailHeld
      <3> QED BY <1>1, <3>2, <3>3 DEF LifeInv, HandedPending, IsPending
    <2>3. CASE f.op \notin {"confirm", "ackConfirm"}
      <3>1. ConfirmLogs' = ConfirmLogs /\ ConfirmRun' = ConfirmRun
        BY <1>2, <1>6, <2>3 DEF Taken, ConfirmLogs
      <3> QED BY <1>1, <3>1 DEF LifeInv, HandedPending, IsPending
    <2> QED BY <2>1, <2>2, <2>3
  <1>10. (sub'.pc = "idle" /\ sub'.tx = 0) \/ SubLog' = SubLog
    <2>1. CASE sub.pc = "idle"
      BY <1>1, <2>1 DEF TruthInv, SubTrue
    <2>2. CASE sub.pc # "idle"
      <3>1. submitQ # <<>> /\ ~ Carries(outbox, "ackSubmit")
        BY <2>2 DEF Shape, HandlersOwnHead
      <3>2. f.op # "ackSubmit"
        BY <1>2, <3>1
      <3>3. submitQ' = submitQ \/ submitQ' = Append(submitQ, k)
        BY <1>2, <3>2 DEF Taken
      <3>4. Head(Append(submitQ, k)) = Head(submitQ)
        BY <1>1, <3>1
      <3> QED BY <3>3, <3>4 DEF SubLog
    <2> QED BY <2>1, <2>2
  <1>11. \A l \in Logs : client[l] \in {"new", "accepted"}
    BY DEF LifeInv, NewAbsent
  <1> QED BY <1>1, <1>3, <1>8, <1>9, <1>10, <1>11, LifeCarried

\* A handler takes a message or polls: the queues stay as they are.
LEMMA LifeTakes ==
  ASSUME isHybrid(Strategy), Shape, TruthInv, ReplyInv, LifeInv, crashes = 0,
         TakeSubmit \/ TakeConfirm \/ Poll
  PROVE  LifeInv'
  <1>1. /\ UNCHANGED <<db, client, outbox, submitQ, confirmQ>> /\ SubLog' = SubLog
        /\ ConfirmLogs' = ConfirmLogs
    BY DEF TakeSubmit, TakeConfirm, Poll, callers, queues, SubLog, ConfirmLogs
  <1>2. \/ sub' = sub
        \/ sub.pc = "idle" /\ sub'.pc = "insert" /\ sub'.tx = 0
    <2>1. TakeSubmit => sub.pc = "idle" /\ sub'.pc = "insert" /\ sub'.tx = 0
      <3>1. TakeSubmit => sub.pc = "idle"
        BY DEF TakeSubmit, Shape, HandlersOwnHead
      <3>2. TakeSubmit => sub'.pc = "insert" /\ sub'.tx = 0
        BY DEF TakeSubmit, IdleSub
      <3> QED BY <3>1, <3>2
    <2> QED BY <2>1 DEF TakeConfirm, Poll
  <1>3. \/ con' = con
        \/ con.pc \in {"idle", "poll"} /\ con'.pc \in {"poll", "update"}
    <2>1. TakeConfirm => con.pc = "idle" /\ con'.pc = "poll"
      <3>1. TakeConfirm => con.pc = "idle"
        BY DEF TakeConfirm, Shape, HandlersOwnHead
      <3>2. TakeConfirm => con'.pc = "poll"
        BY DEF TakeConfirm, IdleCon
      <3> QED BY <3>1, <3>2
    <2>2. Poll => con.pc = "poll" /\ con'.pc \in {"poll", "update"}
      BY DEF Poll
    <2> QED BY <2>1, <2>2 DEF TakeSubmit
  <1>4. SubmitRun' = SubmitRun /\ ConfirmRun' = ConfirmRun
    BY <1>1, <1>2, <1>3 DEF SubmitRun, ConfirmRun
  <1>5. FramesFit' /\ QueuedAbsent' /\ HandedPending'
    BY <1>1, <1>4 DEF LifeInv, FramesFit, QueuedAbsent, HandedPending, IsAbsent, IsPending
  <1>6. \A l \in Logs : client[l] \in {"new", "accepted"}
    BY DEF LifeInv, NewAbsent
  <1> QED BY <1>1, <1>2, <1>5, <1>6, LifeCarried

\* LifeInv holds as long as no connection is lost.
LEMMA LifeAlways ==
  ASSUME isHybrid(Strategy), MaxCrashes = 0
  PROVE  Spec => []LifeInv
  <1>1. Init => LifeInv
    <2> SUFFICES ASSUME Init PROVE LifeInv
      OBVIOUS
    <2>1. /\ outbox = <<>> /\ submitQ = <<>> /\ confirmQ = <<>> /\ sub = IdleSub
          /\ client = [l \in Logs |-> "new"] /\ db = [l \in Logs |-> Absent]
      BY DEF Init
    <2>2. \A l \in Logs : client[l] = "new" /\ db[l] = Absent /\ db[l].status = "absent"
      BY <2>1 DEF Absent, Row
    <2>3. \A l, n : n \in {1, 2} => ~ Held(submitQ, n, l) /\ ~ Held(ConfirmLogs, n, l)
      <3>1. Len(ConfirmLogs) = 0 /\ Len(submitQ) = 0
        BY <2>1 DEF ConfirmLogs, LogsOf
      <3> QED BY <3>1 DEF Held
    <2>4. SubmitRun \in {1, 2} /\ ConfirmRun \in {1, 2}
      BY DEF SubmitRun, ConfirmRun
    <2>5. QueuedAbsent /\ HandedPending
      BY <2>3, <2>4 DEF QueuedAbsent, HandedPending
    <2>6. RowsWhole /\ NewAbsent
      BY <2>2 DEF RowsWhole, NewAbsent, IsAbsent
    <2>7. FramesFit
      BY <2>1, RangeEmpty DEF FramesFit
    <2>8. SubFits
      BY <2>1 DEF SubFits, IdleSub
    <2> QED BY <2>5, <2>6, <2>7, <2>8 DEF LifeInv
  <1>2. Shape /\ TruthInv /\ ReplyInv /\ LifeInv /\ [Next]_vars => LifeInv'
    <2> SUFFICES ASSUME Shape, TruthInv, ReplyInv, LifeInv, [Next]_vars PROVE LifeInv'
      OBVIOUS
    <2>1. crashes = 0 /\ server = "up"
      BY DEF Shape, TypeOK, ReplyInv, CutIsCrash
    <2>2. ASSUME UNCHANGED <<db, client, outbox, submitQ, confirmQ, sub, con>>
          PROVE  LifeInv'
      <3>1. /\ SubmitRun' = SubmitRun /\ ConfirmRun' = ConfirmRun
            /\ SubLog' = SubLog /\ ConfirmLogs' = ConfirmLogs
        BY <2>2 DEF SubmitRun, ConfirmRun, SubLog, ConfirmLogs
      <3> QED BY <2>2, <3>1 DEF LifeInv, RowsWhole, NewAbsent, FramesFit, QueuedAbsent,
                   HandedPending, SubFits, IsAbsent, IsPending
    <2>3. CASE UNCHANGED vars
      BY <2>2, <2>3 DEF vars, callers, queues, handlers
    <2>4. CASE \E i \in 1..Len(chain) : ChainStep(i)
      BY <2>2, <2>4 DEF ChainStep, Include, Finalize, Reorg, DropTx, ChainMoves, callers,
             queues, handlers
    <2>5. ~ (Disconnect \/ Crash \/ DieOnClosedChannel \/ Restart)
      BY <2>1 DEF Disconnect, Crash, DieOnClosedChannel, Restart
    <2> QED BY <2>1, <2>3, <2>4, <2>5, LifePublish, LifeTaken, LifeTakes, LifeSubmits,
               LifeSubmitted, LifeSettles, LifeConfirmed
            DEF Next, SubmitHandler, ConfirmHandler
  <1> QED BY <1>1, <1>2, ShapeAlways, TruthAlways, ReplyAlways, PTL DEF Spec

-----------------------------------------------------------------------------
(***************************************************************************)
(* The refinement: what a step of the write path does to the statuses of   *)
(* the rows and to the set of recorded entries.                            *)
(***************************************************************************)
RowStatus   == [l \in Logs |-> db[l].status]
RecordedSet == {l \in Logs : \E i \in 1..Len(chain) :
                               chain[i] = [log |-> l, state |-> "recorded"]}

LEMMA RecordedOnes ==
  ASSUME Shape
  PROVE  RecordedSet = {l \in Logs : Recorded(l)}
  <1>1. \A i \in 1..Len(chain) : chain[i] \in Txs
    BY DEF Shape, TypeOK
  <1> QED BY <1>1 DEF RecordedSet, Recorded, Txs

\* A step that writes one row and leaves the set of recorded entries.
LEMMA RowStep ==
  ASSUME NEW k \in Logs, NEW to,
         \A l \in Logs : l # k => db'[l] = db[l],
         db'[k].status = to, RecordedSet' = RecordedSet
  PROVE  Lifecycle!Moves(k, db[k].status, to)
  <1>1. RowStatus[k] = db[k].status
    BY DEF RowStatus
  <1>2. RowStatus' = [RowStatus EXCEPT ![k] = to]
    BY DEF RowStatus
  <1> QED BY <1>1, <1>2 DEF Lifecycle!Moves, RowStatus, RecordedSet

\* A step that changes no status and no recorded entry is a stutter.
LEMMA QuietRows ==
  ASSUME \A l \in Logs : db'[l].status = db[l].status, RecordedSet' = RecordedSet
  PROVE  UNCHANGED Lifecycle!vars
  <1>1. RowStatus' = RowStatus
    BY DEF RowStatus
  <1> QED BY <1>1 DEF Lifecycle!vars, RowStatus, RecordedSet

\* Only the next block records an entry, and only one that is on the chain.
LEMMA RecordStep ==
  ASSUME Shape, Shape', AnchorInv, RowsWhole, NEW i \in 1..Len(chain), ChainStep(i)
  PROVE  [Lifecycle!Next]_(Lifecycle!vars)
  <1>1. db' = db /\ chain[i] \in Txs
    BY DEF Shape, TypeOK, ChainStep, Include, Finalize, Reorg, DropTx, ChainMoves
  <1>2. PICK k \in Logs : k = chain[i].log
    BY <1>1 DEF Txs
  <1>3. db[k].status # "absent"
    BY <1>2 DEF AnchorInv, RowsWhole, IsAbsent
  <1>4. /\ Len(chain') = Len(chain) /\ chain[i].state # "recorded"
        /\ \A n \in 1..Len(chain) : /\ chain'[n].log = chain[n].log
                                    /\ n # i => chain'[n].state = chain[n].state
    BY ChainStepShape
  <1>5. /\ RecordedSet = {l \in Logs : Recorded(l)}
        /\ RecordedSet' = {l \in Logs : Recorded(l)'}
    <2>1. RecordedSet = {l \in Logs : Recorded(l)}
      BY RecordedOnes
    <2>2. \A n \in 1..Len(chain') : chain'[n] \in Txs
      BY DEF Shape, TypeOK
    <2>3. RecordedSet' = {l \in Logs : Recorded(l)'}
      BY <2>2 DEF RecordedSet, Recorded, Txs
    <2> QED BY <2>1, <2>3
  <1>6. CASE chain'[i].state = "recorded"
    <2>1. \A l \in Logs : Recorded(l)' <=> Recorded(l) \/ l = k
      BY <1>2, <1>4, <1>6 DEF Recorded
    <2>2. RecordedSet' = RecordedSet \cup {k}
      BY <1>5, <2>1
    <2>3. RowStatus[k] # "absent" /\ RowStatus' = RowStatus
      BY <1>1, <1>3 DEF RowStatus
    <2>4. Lifecycle!Record(k)
      BY <2>2, <2>3 DEF Lifecycle!Record, RowStatus, RecordedSet
    <2> QED BY <2>4 DEF Lifecycle!Next
  <1>7. CASE chain'[i].state # "recorded"
    <2>1. \A l \in Logs : Recorded(l)' <=> Recorded(l)
      BY <1>4, <1>7 DEF Recorded
    <2>2. RecordedSet' = RecordedSet
      BY <1>5, <2>1
    <2> QED BY <1>1, <2>2, QuietRows
  <1> QED BY <1>6, <1>7

\* The steps of the submit handler: stored, or failed to be sent.
LEMMA SubmitRefines ==
  ASSUME Shape, ReplyInv, LifeInv, crashes = 0, RecordedSet' = RecordedSet,
         InsertAnchored \/ AnchorWriteLog \/ UpdateAnchorStatus
  PROVE  [Lifecycle!Next]_(Lifecycle!vars)
  <1>1. db \in [Logs -> Rows] /\ sub.pc # "idle"
    BY DEF Shape, TypeOK, InsertAnchored, AnchorWriteLog, UpdateAnchorStatus
  <1>2. PICK k \in Logs : k = SubLog
    BY <1>1, SubmitterAlone DEF LifeInv
  <1>3. CASE db' = db
    BY <1>3, QuietRows
  <1>4. CASE InsertAnchored /\ db' # db
    <2>1. db[k] = Absent /\ db' = [db EXCEPT ![k] = Row("pending", 0)]
      BY <1>2, <1>4 DEF InsertAnchored
    <2>2. /\ db[k].status = "absent" /\ db'[k].status = "pending"
          /\ \A l \in Logs : l # k => db'[l] = db[l]
      BY <1>1, <2>1 DEF Absent, Row
    <2>3. Lifecycle!Moves(k, "absent", "pending")
      BY <2>2, RowStep
    <2> QED BY <2>3 DEF Lifecycle!Next, Lifecycle!Store
  <1>5. CASE UpdateAnchorStatus /\ db' # db
    <2>1. IsPending(k)
      BY <1>2, <1>5 DEF LifeInv, SubFits, UpdateAnchorStatus
    <2>2. PICK s \in {"pending", "failed"} : db' = [db EXCEPT ![k] = Row(s, sub.tx)]
      BY <1>2, <1>5 DEF UpdateAnchorStatus
    <2>3. /\ db[k].status = "pending" /\ db'[k].status = s
          /\ \A l \in Logs : l # k => db'[l] = db[l]
      BY <1>1, <2>1, <2>2 DEF IsPending, Row
    <2>4. CASE s = "failed"
      <3>1. Lifecycle!Moves(k, "pending", "failed")
        BY <2>3, <2>4, RowStep
      <3> QED BY <3>1 DEF Lifecycle!Next, Lifecycle!Fail
    <2>5. CASE s = "pending"
      BY <2>3, <2>5, QuietRows
    <2> QED BY <2>4, <2>5
  <1>6. AnchorWriteLog => db' = db
    BY DEF AnchorWriteLog
  <1> QED BY <1>3, <1>4, <1>5, <1>6

\* The step of the confirm handler: confirmed, failed, or still pending.
LEMMA ConfirmRefines ==
  ASSUME Shape, TruthInv, ReplyInv, LifeInv, crashes = 0, RecordedSet' = RecordedSet,
         ConfirmStatus
  PROVE  [Lifecycle!Next]_(Lifecycle!vars)
  <1>1. db \in [Logs -> Rows] /\ con \in ConStates /\ con.pc = "update"
    BY DEF Shape, TypeOK, ConfirmStatus
  <1>2. PICK k \in Logs : k = ConMsg.log
    BY <1>1, ConfirmerAlone DEF LifeInv
  <1>3. db[k].status = "pending"
    BY <1>2, LifeSettles DEF IsPending
  <1>4. CASE db' = db
    BY <1>4, QuietRows
  <1>5. CASE db' # db
    <2>1. PICK s : /\ s = con.result /\ db' = [db EXCEPT ![k] = Row(s, ConMsg.tx)]
                   /\ ~ isBatchStrategy(Strategy)
      BY <1>2, <1>5 DEF ConfirmStatus
    <2>2. /\ db'[k].status = s /\ \A l \in Logs : l # k => db'[l] = db[l]
      BY <1>1, <2>1 DEF Row
    <2>3. s \in {"pending", "confirmed", "failed"}
      BY <1>1, <2>1 DEF ConStates
    <2>4. CASE s = "pending"
      BY <1>3, <2>2, <2>4, QuietRows
    <2>5. CASE s = "failed"
      <3>1. Lifecycle!Moves(k, "pending", "failed")
        BY <1>3, <2>2, <2>5, RowStep
      <3> QED BY <3>1 DEF Lifecycle!Next, Lifecycle!Fail
    <2>6. CASE s = "confirmed"
      <3>1. Told(k)
        BY <1>2, <2>1, <2>6 DEF TruthInv, ConTrue
      <3>2. Recorded(k)
        BY <2>1, <3>1 DEF Told, Undecodable, isBatchStrategy
      <3>3. k \in RecordedSet
        BY <3>2, RecordedOnes
      <3>4. Lifecycle!Moves(k, "pending", "confirmed")
        BY <1>3, <2>2, <2>6, RowStep
      <3>5. Lifecycle!Confirm(k)
        BY <3>3, <3>4 DEF Lifecycle!Confirm, RecordedSet
      <3> QED BY <3>5 DEF Lifecycle!Next
    <2> QED BY <2>3, <2>4, <2>5, <2>6
  <1> QED BY <1>4, <1>5

\* While no connection is lost, the write path of a hybrid strategy implements
\* the row lifecycle: a row is stored once and pending, settled once and for all,
\* and confirmed only when its entry is recorded on the chain.
THEOREM LifecycleImplemented ==
  ASSUME isHybrid(Strategy), MaxCrashes = 0
  PROVE  Spec => ImplementsLifecycle
  <1>1. Init => Lifecycle!Init
    <2> SUFFICES ASSUME Init PROVE Lifecycle!Init
      OBVIOUS
    <2>1. db = [l \in Logs |-> Absent] /\ chain = <<>>
      BY DEF Init
    <2>2. RowStatus = [l \in Logs |-> "absent"]
      BY <2>1 DEF RowStatus, Absent, Row
    <2>3. RecordedSet = {}
      BY <2>1 DEF RecordedSet
    <2> QED BY <2>2, <2>3 DEF Lifecycle!Init, RowStatus, RecordedSet
  <1>2. Shape /\ Shape' /\ AnchorInv /\ TruthInv /\ ReplyInv /\ LifeInv /\ [Next]_vars
          => [Lifecycle!Next]_(Lifecycle!vars)
    <2> SUFFICES ASSUME Shape, Shape', AnchorInv, TruthInv, ReplyInv, LifeInv, [Next]_vars
                 PROVE  [Lifecycle!Next]_(Lifecycle!vars)
      OBVIOUS
    <2>1. crashes = 0
      BY DEF Shape, TypeOK
    <2>2. RecordedSet' = RecordedSet \/ \E i \in 1..Len(chain) : ChainStep(i)
      <3>1. CASE chain' = chain
        BY <3>1 DEF RecordedSet
      <3>2. CASE AnchorWriteLog
        <4>1. PICK k : k = SubLog
          OBVIOUS
        <4>2. chain' = chain \/ chain' = Append(chain, [log |-> k, state |-> "pool"])
          BY <3>2, <4>1 DEF AnchorWriteLog
        <4>3. ASSUME chain' = Append(chain, [log |-> k, state |-> "pool"])
              PROVE  \A l : (\E i \in 1..Len(chain') :
                               chain'[i] = [log |-> l, state |-> "recorded"])
                         <=> (\E i \in 1..Len(chain) :
                               chain[i] = [log |-> l, state |-> "recorded"])
          <5>1. chain \in Seq(Txs)
            BY DEF Shape, TypeOK
          <5>2. /\ Len(chain') = Len(chain) + 1 /\ Len(chain) \in Nat
                /\ \A i \in 1..Len(chain) : chain'[i] = chain[i]
                /\ chain'[Len(chain) + 1].state = "pool"
            BY <4>3, <5>1
          <5> QED BY <5>2
        <4> QED BY <3>1, <4>2, <4>3 DEF RecordedSet
      <3> QED BY <3>1, <3>2, Writers
    <2>3. CASE \E i \in 1..Len(chain) : ChainStep(i)
      BY <2>3, RecordStep DEF LifeInv
    <2>4. CASE RecordedSet' = RecordedSet
      <3>1. \/ db' = db
            \/ InsertAnchored \/ AnchorWriteLog \/ UpdateAnchorStatus \/ ConfirmStatus
        BY Writers
      <3>2. CASE db' = db
        BY <2>4, <3>2, QuietRows
      <3> QED BY <2>1, <2>4, <3>1, <3>2, SubmitRefines, ConfirmRefines
    <2> QED BY <2>2, <2>3, <2>4
  <1>3. Init => AnchorInv
    BY DEF Init, AnchorInv, IdleSub
  <1>4. Shape /\ AnchorInv /\ [Next]_vars => AnchorInv'
    BY AnchorStep
  <1> QED BY <1>1, <1>2, <1>3, <1>4, ShapeAlways, TruthAlways, ReplyAlways, LifeAlways, PTL
          DEF Spec, ImplementsLifecycle, Lifecycle!Spec
=============================================================================
