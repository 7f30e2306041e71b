---------------------------- MODULE BatchingProofs ----------------------------
(***************************************************************************)
(* Proofs about batch write mode: overlapping flushes take every entry     *)
(* once and lose none, and what was sent to the chain can be rebuilt from  *)
(* the database, across failed calls, lost connections and crashes.        *)
(***************************************************************************)
EXTENDS Batching, FiniteSetTheorems, TLAPS

FlushRecords == [pc : {"insert", "record", "link", "anchor", "status", "done"},
                 entries : Seq(Logs), todo : SUBSET Logs, linked : Nat, ok : BOOLEAN]
Leaves == [stored : BOOLEAN, root : Nat, index : Nat]

Typed ==
  /\ call \in [Logs -> {"new", "waiting", "stored", "failed", "gone"}]
  /\ buffer \in Seq(Logs)
  /\ flushes \in Seq(FlushRecords)
  /\ leaf \in [Logs -> Leaves]
  /\ batches \in Seq({"absent", "pending", "confirmed", "failed"})
  /\ txs \in Seq(TxStates \cup {"none"})
  /\ Len(batches) = Len(flushes) /\ Len(txs) = Len(flushes)
  /\ confirmQ \in Seq(Nat) /\ \A i \in 1..Len(confirmQ) : confirmQ[i] \in Batches
  /\ con \in ConStates /\ (con.pc # "idle" => confirmQ # <<>>)
  /\ crashes \in 0..MaxCrashes

Entries(b) == Elements(flushes[b].entries)
Once(s) == \A i, j \in 1..Len(s) : s[i] = s[j] => i = j

\* Where an entry is: nowhere before it is written, then in the buffer, then in
\* one flush, which has not ended while the caller waits.
BufferTimed == buffer # <<>> => timer /\ Len(buffer) < MaxSize
BufferOnce  == Once(buffer)
FlushOnce   == \A b \in Batches : Once(flushes[b].entries)
BufferApart == \A b \in Batches : \A l \in Entries(b) : l \notin Elements(buffer)
Disjoint    == \A b, c \in Batches : \A l \in Entries(b) : l \in Entries(c) => b = c
NewNowhere  ==
  \A l \in Logs : call[l] = "new" =>
    l \notin Elements(buffer) /\ \A b \in Batches : l \notin Entries(b)
WaitingSomewhere ==
  \A l \in Logs : call[l] = "waiting" =>
    l \in Elements(buffer) \/ \E b \in Batches : l \in Entries(b) /\ ~ At(b, "done")

PlaceInv == /\ BufferTimed /\ BufferOnce /\ FlushOnce /\ BufferApart /\ Disjoint
            /\ NewNowhere /\ WaitingSomewhere

-----------------------------------------------------------------------------
\* Sequences by the set of their elements.
LEMMA ElementsAppend ==
  ASSUME NEW S, NEW s \in Seq(S), NEW x \in S
  PROVE  /\ Append(s, x) \in Seq(S)
         /\ Elements(Append(s, x)) = Elements(s) \cup {x}
         /\ Once(s) /\ x \notin Elements(s) => Once(Append(s, x))
         /\ Len(Append(s, x)) = Len(s) + 1
  <1> DEFINE t == Append(s, x)
  <1>1. /\ t \in Seq(S) /\ Len(s) \in Nat /\ Len(t) = Len(s) + 1
        /\ t[Len(s) + 1] = x /\ \A i \in 1..Len(s) : t[i] = s[i]
    OBVIOUS
  <1> HIDE DEF t
  <1>2. \A i : i \in 1..Len(t) <=> i \in 1..Len(s) \/ i = Len(s) + 1
    BY <1>1
  <1>3. Elements(t) = Elements(s) \cup {x}
    <2>1. ASSUME NEW y \in Elements(t) PROVE y \in Elements(s) \cup {x}
      BY <1>1, <1>2 DEF Elements
    <2>2. ASSUME NEW y \in Elements(s) \cup {x} PROVE y \in Elements(t)
      BY <1>1, <1>2 DEF Elements
    <2> QED BY <2>1, <2>2
  <1>4. ASSUME Once(s), x \notin Elements(s) PROVE Once(t)
    <2>1. \A i \in 1..Len(s) : s[i] # x
      BY <1>4 DEF Elements
    <2> SUFFICES ASSUME NEW i \in 1..Len(t), NEW j \in 1..Len(t), t[i] = t[j] PROVE i = j
      BY DEF Once
    <2>2. CASE i = Len(s) + 1 \/ j = Len(s) + 1
      BY <1>1, <1>2, <2>1, <2>2
    <2>3. CASE i \in 1..Len(s) /\ j \in 1..Len(s)
      BY <1>1, <1>4, <2>3 DEF Once
    <2> QED BY <1>2, <2>2, <2>3
  <1> QED BY <1>1, <1>3, <1>4 DEF t

LEMMA ElementsEmpty == Elements(<<>>) = {} /\ Once(<<>>) /\ Len(<<>>) = 0
  <1>1. Len(<<>>) = 0
    OBVIOUS
  <1>2. \A i : i \notin 1..Len(<<>>)
    BY <1>1
  <1> QED BY <1>1, <1>2 DEF Elements, Once

LEMMA ElementsType ==
  ASSUME NEW S, NEW s \in Seq(S)
  PROVE  Elements(s) \subseteq S
  BY DEF Elements

-----------------------------------------------------------------------------
\* A flush step moves the record of its flush, whose entries stay; it ends the
\* flush when it tells the callers.
Moves(b, r) ==
  /\ flushes' = [flushes EXCEPT ![b] = r]
  /\ r \in FlushRecords /\ r.entries = flushes[b].entries

Tells(b, r) ==
  \/ call' = call /\ (r.pc = "done" => At(b, "done"))
  \/ r.pc = "done" /\ call' = Resolved(b, "failed")
  \/ /\ r.pc = "done" /\ At(b, "status") /\ flushes[b].ok
     /\ call' = Resolved(b, "stored")

LEMMA RecordFields ==
  ASSUME NEW r \in FlushRecords
  PROVE  /\ r.pc \in {"insert", "record", "link", "anchor", "status", "done"}
         /\ r.entries \in Seq(Logs) /\ r.todo \subseteq Logs
         /\ r.linked \in Nat /\ r.ok \in BOOLEAN
  BY DEF FlushRecords

LEMMA Gives ==
  ASSUME Typed, NEW b \in Batches, GiveUp(b)
  PROVE  \E r : /\ Moves(b, r) /\ r.pc = "done" /\ call' = Resolved(b, "failed")
                /\ r.todo = flushes[b].todo /\ r.linked = flushes[b].linked
                /\ r.ok = flushes[b].ok
  <1>1. flushes[b] \in FlushRecords /\ flushes \in Seq(FlushRecords)
    BY DEF Typed, Batches
  <1>2. PICK r : r = [flushes[b] EXCEPT !.pc = "done"]
    OBVIOUS
  <1>3. /\ r \in FlushRecords /\ r.entries = flushes[b].entries /\ r.pc = "done"
        /\ r.todo = flushes[b].todo /\ r.linked = flushes[b].linked /\ r.ok = flushes[b].ok
    BY <1>1, <1>2 DEF FlushRecords
  <1>4. flushes' = [flushes EXCEPT ![b] = r] /\ call' = Resolved(b, "failed")
    BY <1>1, <1>2 DEF GiveUp, Goto, Batches
  <1> QED BY <1>3, <1>4 DEF Moves

LEMMA InsertEffect ==
  ASSUME Typed, NEW b \in Batches, NEW l \in Logs, InsertBatched(b, l)
  PROVE  \E r : /\ Moves(b, r) /\ Tells(b, r) /\ l \in flushes[b].todo
                /\ r.todo = flushes[b].todo \ {l}
                /\ r.linked = flushes[b].linked /\ r.ok = flushes[b].ok
                /\ \/ r.pc = "done"
                   \/ r.pc = flushes[b].pc
                   \/ At(b, "insert") /\ r.pc = "record" /\ r.todo = {}
                /\ leaf' \in {leaf, [leaf EXCEPT ![l].stored = TRUE]}
                /\ r.pc # "done" => leaf' = [leaf EXCEPT ![l].stored = TRUE]
  <1> DEFINE left == flushes[b].todo \ {l}
  <1>1. flushes[b] \in FlushRecords /\ flushes \in Seq(FlushRecords)
    BY DEF Typed, Batches
  <1>2. PICK r, q :
          /\ q = [flushes[b] EXCEPT !.todo = left]
          /\ \/ /\ r = q \/ (At(b, "insert") /\ left = {} /\ r = [q EXCEPT !.pc = "record"])
                /\ leaf' = [leaf EXCEPT ![l].stored = TRUE] /\ call' = call
             \/ /\ r = [q EXCEPT !.pc = "done"] /\ call' = Resolved(b, "failed")
                /\ leaf' \in {leaf, [leaf EXCEPT ![l].stored = TRUE]}
          /\ flushes' = [flushes EXCEPT ![b] = r]
    BY <1>1 DEF InsertBatched, Batches, At
  <1>3. /\ q \in FlushRecords /\ q.entries = flushes[b].entries /\ q.pc = flushes[b].pc
        /\ q.todo = left /\ q.linked = flushes[b].linked /\ q.ok = flushes[b].ok
    BY <1>1, <1>2 DEF FlushRecords
  <1>4. /\ r \in FlushRecords /\ r.entries = q.entries /\ r.todo = q.todo
        /\ r.linked = q.linked /\ r.ok = q.ok
    BY <1>2, <1>3 DEF FlushRecords
  <1>6. l \in flushes[b].todo
    BY DEF InsertBatched
  <1>7. CASE /\ r = q \/ (At(b, "insert") /\ left = {} /\ r = [q EXCEPT !.pc = "record"])
             /\ leaf' = [leaf EXCEPT ![l].stored = TRUE] /\ call' = call
    <2>1. r.pc = "record" \/ r = q
      BY <1>3, <1>7 DEF FlushRecords
    <2>2. Tells(b, r)
      BY <1>3, <1>7, <2>1 DEF Tells, At
    <2>3. r.pc = flushes[b].pc \/ (At(b, "insert") /\ r.pc = "record" /\ r.todo = {})
      BY <1>3, <1>4, <1>7, <2>1
    <2> QED BY <1>2, <1>3, <1>4, <1>6, <1>7, <2>2, <2>3 DEF Moves
  <1>8. CASE /\ r = [q EXCEPT !.pc = "done"] /\ call' = Resolved(b, "failed")
             /\ leaf' \in {leaf, [leaf EXCEPT ![l].stored = TRUE]}
    <2>1. r.pc = "done"
      BY <1>3, <1>8 DEF FlushRecords
    <2>2. Tells(b, r)
      BY <1>8, <2>1 DEF Tells
    <2> QED BY <1>2, <1>3, <1>4, <1>6, <1>8, <2>1, <2>2 DEF Moves
  <1> QED BY <1>2, <1>7, <1>8

LEMMA RecordEffect ==
  ASSUME Typed, NEW b \in Batches, InsertBatchRecord(b)
  PROVE  \E r : /\ Moves(b, r) /\ Tells(b, r) /\ At(b, "record")
                /\ r.todo = flushes[b].todo
                /\ r.linked = flushes[b].linked /\ r.ok = flushes[b].ok
                /\ \/ r.pc = "link" /\ batches' = [batches EXCEPT ![b] = "pending"]
                   \/ /\ r.pc = "done"
                      /\ batches' \in {batches, [batches EXCEPT ![b] = "pending"]}
  <1>1. flushes[b] \in FlushRecords /\ flushes \in Seq(FlushRecords) /\ At(b, "record")
    BY DEF Typed, Batches, InsertBatchRecord
  <1>2. CASE GiveUp(b) /\ batches' \in {batches, [batches EXCEPT ![b] = "pending"]}
    BY <1>1, <1>2, Gives DEF Tells
  <1>3. CASE /\ batches' = [batches EXCEPT ![b] = "pending"]
             /\ Goto(b, "link") /\ UNCHANGED call
    <2>1. PICK r : r = [flushes[b] EXCEPT !.pc = "link"]
      OBVIOUS
    <2>2. /\ r \in FlushRecords /\ r.entries = flushes[b].entries /\ r.pc = "link"
          /\ r.todo = flushes[b].todo /\ r.linked = flushes[b].linked
          /\ r.ok = flushes[b].ok
      BY <1>1, <2>1 DEF FlushRecords
    <2>3. flushes' = [flushes EXCEPT ![b] = r]
      BY <1>1, <1>3, <2>1 DEF Goto, Batches
    <2> QED BY <1>1, <1>3, <2>2, <2>3 DEF Moves, Tells
  <1> QED BY <1>2, <1>3 DEF InsertBatchRecord

\* Where the links of a step end.
LinkTo(b) == IF DB = "postgres" THEN Len(flushes[b].entries) ELSE flushes[b].linked + 1

LEMMA LinkEffect ==
  ASSUME Typed, NEW b \in Batches, LinkBatchLeaves(b)
  PROVE  \E r : /\ Moves(b, r) /\ Tells(b, r) /\ At(b, "link")
                /\ r.todo = flushes[b].todo /\ r.ok = flushes[b].ok
                /\ \/ /\ leaf' = Linked(b, flushes[b].linked + 1, LinkTo(b))
                      /\ r.linked = LinkTo(b)
                      /\ r.pc = IF LinkTo(b) = Len(flushes[b].entries)
                                THEN "anchor" ELSE "link"
                   \/ /\ leaf' \in {leaf, Linked(b, flushes[b].linked + 1, LinkTo(b))}
                      /\ r.linked = flushes[b].linked /\ r.pc = "done"
  <1>1. flushes[b] \in FlushRecords /\ flushes \in Seq(FlushRecords) /\ At(b, "link")
    BY DEF Typed, Batches, LinkBatchLeaves
  <1>2. PICK to, pc : to = LinkTo(b) /\ pc = IF to = Len(flushes[b].entries)
                                             THEN "anchor" ELSE "link"
    OBVIOUS
  <1>3. \/ /\ leaf' = Linked(b, flushes[b].linked + 1, to) /\ UNCHANGED call
           /\ flushes' = [flushes EXCEPT ![b].linked = to, ![b].pc = pc]
        \/ /\ leaf' \in {leaf, Linked(b, flushes[b].linked + 1, to)}
           /\ GiveUp(b)
    BY <1>2 DEF LinkBatchLeaves, LinkTo
  <1>4. CASE /\ leaf' = Linked(b, flushes[b].linked + 1, to) /\ UNCHANGED call
             /\ flushes' = [flushes EXCEPT ![b].linked = to, ![b].pc = pc]
    <2>1. PICK r : r = [flushes[b] EXCEPT !.linked = to, !.pc = pc]
      OBVIOUS
    <2>2. to \in Nat
      <3>1. flushes[b].entries \in Seq(Logs) /\ flushes[b].linked \in Nat
        BY <1>1, RecordFields
      <3> QED BY <1>2, <3>1 DEF LinkTo
    <2>3. /\ r \in FlushRecords /\ r.entries = flushes[b].entries /\ r.pc = pc
          /\ r.todo = flushes[b].todo /\ r.linked = to /\ r.ok = flushes[b].ok
      BY <1>1, <1>2, <2>1, <2>2 DEF FlushRecords
    <2>4. flushes' = [flushes EXCEPT ![b] = r]
      BY <1>1, <1>4, <2>1 DEF Batches
    <2>5. r.pc # "done"
      BY <1>2, <2>3
    <2> QED BY <1>1, <1>2, <1>4, <2>3, <2>4, <2>5 DEF Moves, Tells
  <1>5. CASE /\ leaf' \in {leaf, Linked(b, flushes[b].linked + 1, to)}
             /\ GiveUp(b)
    BY <1>1, <1>2, <1>5, Gives DEF Tells
  <1> QED BY <1>3, <1>4, <1>5

LEMMA AnchorEffect ==
  ASSUME Typed, NEW b \in Batches, AnchorWriteBatch(b)
  PROVE  \E r : /\ Moves(b, r) /\ Tells(b, r) /\ At(b, "anchor")
                /\ r.todo = flushes[b].todo /\ r.linked = flushes[b].linked
                /\ r.pc = "status"
                /\ txs' \in {txs, [txs EXCEPT ![b] = "pool"]}
                /\ r.ok => txs' = [txs EXCEPT ![b] = "pool"]
  <1>1. /\ flushes[b] \in FlushRecords /\ flushes \in Seq(FlushRecords)
        /\ At(b, "anchor") /\ call' = call
    BY DEF Typed, Batches, AnchorWriteBatch, callers
  <1>2. PICK ok \in BOOLEAN :
          /\ flushes' = [flushes EXCEPT ![b].pc = "status", ![b].ok = ok]
          /\ txs' \in {txs, [txs EXCEPT ![b] = "pool"]}
          /\ ok => txs' = [txs EXCEPT ![b] = "pool"]
    BY DEF AnchorWriteBatch
  <1>3. PICK r : r = [flushes[b] EXCEPT !.pc = "status", !.ok = ok]
    OBVIOUS
  <1>4. /\ r \in FlushRecords /\ r.entries = flushes[b].entries /\ r.pc = "status"
        /\ r.todo = flushes[b].todo /\ r.linked = flushes[b].linked /\ r.ok = ok
    BY <1>1, <1>3 DEF FlushRecords
  <1>5. flushes' = [flushes EXCEPT ![b] = r]
    BY <1>1, <1>2, <1>3 DEF Batches
  <1> QED BY <1>1, <1>2, <1>4, <1>5 DEF Moves, Tells

LEMMA StatusEffect ==
  ASSUME Typed, NEW b \in Batches, UpdateBatchAnchorStatus(b)
  PROVE  \E r, s : /\ Moves(b, r) /\ Tells(b, r) /\ At(b, "status")
                   /\ r.todo = flushes[b].todo /\ r.linked = flushes[b].linked
                   /\ r.ok = flushes[b].ok /\ r.pc = "done"
                   /\ s = IF r.ok THEN "pending" ELSE "failed"
                   /\ \/ /\ batches' = [batches EXCEPT ![b] = s]
                         /\ \/ confirmQ' = confirmQ
                            \/ r.ok /\ confirmQ' = Append(confirmQ, b)
                      \/ /\ batches' \in {batches, [batches EXCEPT ![b] = s]}
                         /\ confirmQ' = confirmQ
  <1>1. flushes[b] \in FlushRecords /\ flushes \in Seq(FlushRecords) /\ At(b, "status")
    BY DEF Typed, Batches, UpdateBatchAnchorStatus
  <1>2. PICK s : s = IF flushes[b].ok THEN "pending" ELSE "failed"
    OBVIOUS
  <1>3. CASE /\ batches' \in {batches, [batches EXCEPT ![b] = s]}
             /\ GiveUp(b) /\ UNCHANGED confirmQ
    <2>1. PICK r : /\ Moves(b, r) /\ r.pc = "done" /\ call' = Resolved(b, "failed")
                   /\ r.todo = flushes[b].todo /\ r.linked = flushes[b].linked
                   /\ r.ok = flushes[b].ok
      BY <1>3, Gives
    <2> QED BY <1>1, <1>2, <1>3, <2>1 DEF Tells
  <1>4. CASE /\ batches' = [batches EXCEPT ![b] = s] /\ Goto(b, "done")
             /\ call' = Resolved(b, IF flushes[b].ok THEN "stored" ELSE "failed")
             /\ confirmQ' = IF flushes[b].ok /\ MqReady /\ server = "up"
                            THEN Append(confirmQ, b) ELSE confirmQ
    <2>1. PICK r : r = [flushes[b] EXCEPT !.pc = "done"]
      OBVIOUS
    <2>2. /\ r \in FlushRecords /\ r.entries = flushes[b].entries /\ r.pc = "done"
          /\ r.todo = flushes[b].todo /\ r.linked = flushes[b].linked
          /\ r.ok = flushes[b].ok
      BY <1>1, <2>1 DEF FlushRecords
    <2>3. flushes' = [flushes EXCEPT ![b] = r]
      BY <1>1, <1>4, <2>1 DEF Goto, Batches
    <2>4. Moves(b, r)
      BY <2>2, <2>3 DEF Moves
    <2>5. Tells(b, r)
      BY <1>1, <1>4, <2>2 DEF Tells
    <2> QED BY <1>1, <1>2, <1>4, <2>2, <2>4, <2>5
  <1> QED BY <1>2, <1>3, <1>4 DEF UpdateBatchAnchorStatus

\* What every step of a flush does to its record and to the callers.
LEMMA FlushMoves ==
  ASSUME Typed, NEW b \in Batches, FlushStep(b)
  PROVE  /\ \E r : Moves(b, r) /\ Tells(b, r) /\ r.todo \subseteq flushes[b].todo
         /\ UNCHANGED <<reader, writer>>
  <1>1. UNCHANGED <<reader, writer>>
    BY DEF FlushStep, InsertBatched, InsertBatchRecord, LinkBatchLeaves, AnchorWriteBatch,
           UpdateBatchAnchorStatus, callers
  <1>2. \E r : Moves(b, r) /\ Tells(b, r) /\ r.todo \subseteq flushes[b].todo
    <2>1. CASE \E l \in Logs : InsertBatched(b, l)
      BY <2>1, InsertEffect
    <2>2. CASE InsertBatchRecord(b)
      BY <2>2, RecordEffect
    <2>3. CASE LinkBatchLeaves(b)
      BY <2>3, LinkEffect
    <2>4. CASE AnchorWriteBatch(b)
      BY <2>4, AnchorEffect
    <2>5. CASE UpdateBatchAnchorStatus(b)
      BY <2>5, StatusEffect
    <2> QED BY <2>1, <2>2, <2>3, <2>4, <2>5 DEF FlushStep
  <1> QED BY <1>1, <1>2

\* The steps that do not touch the record of any flush.
NoFlush == \/ \E l \in Logs : ReadLeaf(l)
           \/ \E b \in Batches : ChainStep(b)
           \/ ConfirmHandler \/ ReadSiblings \/ Disconnect \/ Restart

LEMMA Idles ==
  ASSUME [Next]_vars
  PROVE  \/ NoFlush \/ UNCHANGED vars
         \/ \E l \in Logs : Write(l)
         \/ TimerFires \/ Crash \/ \E b \in Batches : FlushStep(b)
  BY DEF Next, NoFlush

LEMMA NoFlushStays ==
  ASSUME NoFlush \/ UNCHANGED vars
  PROVE  UNCHANGED <<call, writer, flushes, leaf>>
  BY DEF NoFlush, ReadLeaf, ChainStep, Include, Finalize, Reorg, DropTx, TxMoves,
         ConfirmHandler, TakeConfirm, PollBatch,
       ConfirmBatch, AckConfirm,
         ReadSiblings, Disconnect, Restart, vars, callers, tables

\* A flush starts with the entries e: a new record, and nothing is buffered.
Starts(e) ==
  /\ StartFlush(e) /\ e \in Seq(Logs) /\ e # <<>>
  /\ NewFlush(e) \in FlushRecords

LEMMA WriteEffect ==
  ASSUME Typed, NEW l \in Logs, Write(l)
  PROVE  /\ call[l] = "new" /\ call' = [call EXCEPT ![l] = "waiting"]
         /\ UNCHANGED <<reader, leaf, confirmQ>>
         /\ \/ Starts(Append(buffer, l))
            \/ /\ buffer' = Append(buffer, l) /\ timer' /\ Len(buffer') < MaxSize
               /\ UNCHANGED <<flushes, batches, txs>>
  <1>1. PICK e : e = Append(buffer, l)
    OBVIOUS
  <1>2. e \in Seq(Logs) /\ e # <<>> /\ Len(e) \in Nat
    <2>1. PICK q \in Seq(Logs) : q = buffer
      BY DEF Typed
    <2>2. Append(q, l) \in Seq(Logs) /\ Append(q, l) # <<>> /\ Len(Append(q, l)) \in Nat
      OBVIOUS
    <2> QED BY <1>1, <2>1, <2>2, Zenon
  <1>3. NewFlush(e) \in FlushRecords
    BY <1>2, ElementsType DEF NewFlush, FlushRecords
  <1>4. \/ StartFlush(e)
        \/ /\ buffer' = e /\ timer' = TRUE /\ ~ (Len(e) >= MaxSize)
           /\ UNCHANGED <<flushes, batches, txs>>
    BY <1>1 DEF Write
  <1>5. Starts(e) \/ (/\ buffer' = e /\ timer' /\ Len(e) < MaxSize
                      /\ UNCHANGED <<flushes, batches, txs>>)
    BY <1>2, <1>3, <1>4, BatchBoundsAssumption DEF Starts
  <1> QED BY <1>1, <1>5 DEF Write, confirm

LEMMA TimerEffect ==
  ASSUME Typed, TimerFires
  PROVE  /\ UNCHANGED <<call, reader, leaf, confirmQ>>
         /\ \/ Starts(buffer)
            \/ buffer = <<>> /\ UNCHANGED <<buffer, flushes, batches, txs>>
  <1>1. buffer \in Seq(Logs)
    BY DEF Typed
  <1>2. NewFlush(buffer) \in FlushRecords
    BY <1>1, ElementsType DEF NewFlush, FlushRecords
  <1> QED BY <1>1, <1>2 DEF TimerFires, Starts, callers, confirm

LEMMA StartShape ==
  ASSUME Typed, NEW e, Starts(e)
  PROVE  /\ Len(flushes') = Len(flushes) + 1 /\ Len(flushes) \in Nat
         /\ \A b \in Batches : flushes'[b] = flushes[b]
         /\ flushes'[Len(flushes) + 1] = NewFlush(e)
         /\ flushes' \in Seq(FlushRecords)
         /\ batches' \in Seq({"absent", "pending", "confirmed", "failed"})
         /\ txs' \in Seq(TxStates \cup {"none"})
         /\ Len(batches') = Len(flushes') /\ Len(txs') = Len(flushes')
         /\ \A b \in Batches : batches'[b] = batches[b] /\ txs'[b] = txs[b]
         /\ batches'[Len(flushes) + 1] = "absent" /\ txs'[Len(flushes) + 1] = "none"
         /\ Batches' = Batches \cup {Len(flushes) + 1} /\ Len(flushes) + 1 \notin Batches
  <1>1. /\ flushes \in Seq(FlushRecords) /\ Len(flushes) \in Nat
        /\ batches \in Seq({"absent", "pending", "confirmed", "failed"})
        /\ txs \in Seq(TxStates \cup {"none"})
        /\ Len(batches) = Len(flushes) /\ Len(txs) = Len(flushes)
    BY DEF Typed
  <1>2. PICK f \in FlushRecords : f = NewFlush(e)
    BY DEF Starts
  <1>3. /\ flushes' = Append(flushes, f) /\ batches' = Append(batches, "absent")
        /\ txs' = Append(txs, "none")
    BY <1>2 DEF Starts, StartFlush
  <1>4. /\ Len(flushes') = Len(flushes) + 1 /\ flushes' \in Seq(FlushRecords)
        /\ \A b \in 1..Len(flushes) : flushes'[b] = flushes[b]
        /\ flushes'[Len(flushes) + 1] = f
    BY <1>1, <1>3
  <1>5. /\ Len(batches') = Len(flushes) + 1
        /\ batches' \in Seq({"absent", "pending", "confirmed", "failed"})
        /\ \A b \in 1..Len(flushes) : batches'[b] = batches[b]
        /\ batches'[Len(flushes) + 1] = "absent"
    BY <1>1, <1>3
  <1>6. /\ Len(txs') = Len(flushes) + 1 /\ txs' \in Seq(TxStates \cup {"none"})
        /\ \A b \in 1..Len(flushes) : txs'[b] = txs[b]
        /\ txs'[Len(flushes) + 1] = "none"
    BY <1>1, <1>3
  <1>7. Batches' = Batches \cup {Len(flushes) + 1} /\ Len(flushes) + 1 \notin Batches
    BY <1>1, <1>4 DEF Batches
  <1> QED BY <1>1, <1>2, <1>4, <1>5, <1>6, <1>7 DEF Batches

\* The record of one flush moves and all else of the flushes stays.
LEMMA MoveShape ==
  ASSUME Typed, NEW b \in Batches, NEW r, Moves(b, r)
  PROVE  /\ flushes' \in Seq(FlushRecords) /\ Len(flushes') = Len(flushes)
         /\ Batches' = Batches /\ flushes'[b] = r
         /\ \A c \in Batches : c # b => flushes'[c] = flushes[c]
         /\ \A c \in Batches : flushes'[c].entries = flushes[c].entries
         /\ \A c \in Batches : Entries(c)' = Entries(c)
  <1>1. flushes \in Seq(FlushRecords) /\ b \in 1..Len(flushes)
    BY DEF Typed, Batches
  <1>2. /\ flushes' = [flushes EXCEPT ![b] = r] /\ r \in FlushRecords
        /\ r.entries = flushes[b].entries
    BY DEF Moves
  <1>3. /\ flushes' \in Seq(FlushRecords) /\ Len(flushes') = Len(flushes)
        /\ flushes'[b] = r /\ \A c \in 1..Len(flushes) : c # b => flushes'[c] = flushes[c]
    BY <1>1, <1>2
  <1>4. \A c \in Batches : flushes'[c].entries = flushes[c].entries
    BY <1>2, <1>3 DEF Batches
  <1> QED BY <1>3, <1>4 DEF Batches, Entries

\* A crash ends every flush.
LEMMA CrashShape ==
  ASSUME Typed, Crash
  PROVE  /\ flushes' \in Seq(FlushRecords) /\ Len(flushes') = Len(flushes)
         /\ Batches' = Batches
         /\ \A b \in Batches : /\ flushes'[b].entries = flushes[b].entries
                               /\ flushes'[b].pc = "done" /\ flushes'[b].todo = {}
                               /\ flushes'[b].linked = flushes[b].linked
                               /\ flushes'[b].ok = flushes[b].ok
         /\ \A b \in Batches : Entries(b)' = Entries(b)
  <1>1. flushes \in Seq(FlushRecords) /\ Len(flushes) \in Nat
    BY DEF Typed
  <1>2. PICK f : /\ f = [b \in 1..Len(flushes) |->
                           [flushes[b] EXCEPT !.pc = "done", !.todo = {}]]
                 /\ flushes' = f
    BY DEF Crash, Batches
  <1>3. \A b \in 1..Len(flushes) :
          /\ f[b] \in FlushRecords /\ f[b].entries = flushes[b].entries
          /\ f[b].pc = "done" /\ f[b].todo = {} /\ f[b].linked = flushes[b].linked
          /\ f[b].ok = flushes[b].ok
    <2> SUFFICES ASSUME NEW b \in 1..Len(flushes)
                 PROVE  /\ f[b] \in FlushRecords /\ f[b].entries = flushes[b].entries
                        /\ f[b].pc = "done" /\ f[b].todo = {}
                        /\ f[b].linked = flushes[b].linked /\ f[b].ok = flushes[b].ok
      OBVIOUS
    <2>1. flushes[b] \in FlushRecords
      BY <1>1
    <2>2. f[b] = [flushes[b] EXCEPT !.pc = "done", !.todo = {}]
      BY <1>2
    <2> QED BY <2>1, <2>2 DEF FlushRecords
  <1>4. f \in Seq(FlushRecords) /\ Len(f) = Len(flushes)
    <2>1. f = [b \in 1..Len(flushes) |-> f[b]]
      BY <1>2
    <2>2. [b \in 1..Len(flushes) |-> f[b]] \in Seq(FlushRecords)
      BY <1>1, <1>3
    <2>3. Len([b \in 1..Len(flushes) |-> f[b]]) = Len(flushes)
      BY <1>1
    <2> QED BY <2>1, <2>2, <2>3
  <1> QED BY <1>2, <1>3, <1>4 DEF Batches, Entries

-----------------------------------------------------------------------------
(***************************************************************************)
(* Typing.                                                                 *)
(***************************************************************************)
Status == {"absent", "pending", "confirmed", "failed"}

LEMMA ResolvedType ==
  ASSUME Typed, NEW b, NEW o \in {"stored", "failed"}
  PROVE  /\ Resolved(b, o) \in [Logs -> {"new", "waiting", "stored", "failed", "gone"}]
         /\ \A l \in Logs :
              Resolved(b, o)[l] = IF l \in Entries(b) /\ call[l] = "waiting"
                                  THEN o ELSE call[l]
  BY DEF Typed, Resolved, Entries

LEMMA LinkedType ==
  ASSUME Typed, NEW b \in Batches, NEW m \in Nat, NEW n \in Nat
  PROVE  Linked(b, m, n) \in [Logs -> Leaves]
  <1> SUFFICES ASSUME NEW l \in Logs
               PROVE  (IF \E i \in m..n : flushes[b].entries[i] = l
                       THEN [leaf[l] EXCEPT !.root = b, !.index =
                               CHOOSE i \in m..n : flushes[b].entries[i] = l]
                       ELSE leaf[l]) \in Leaves
    BY DEF Linked
  <1>1. leaf[l] \in Leaves
    BY DEF Typed
  <1>2. CASE \E i \in m..n : flushes[b].entries[i] = l
    <2>1. PICK k : k = CHOOSE i \in m..n : flushes[b].entries[i] = l
      OBVIOUS
    <2>2. k \in m..n
      BY <1>2, <2>1
    <2>3. k \in Nat /\ b \in Nat
      BY <2>2 DEF Batches, Typed
    <2>4. [leaf[l] EXCEPT !.root = b, !.index = k] \in Leaves
      BY <1>1, <2>3 DEF Leaves
    <2> QED BY <1>2, <2>1, <2>4
  <1> QED BY <1>1, <1>2

\* Losses cut off the end of the confirm queue, and never the message under way.
LEMMA Losses ==
  ASSUME Typed, Crash \/ Disconnect
  PROVE  /\ \/ confirmQ' = confirmQ
            \/ \E n \in 0..Len(confirmQ) : confirmQ' = SubSeq(confirmQ, 1, n)
         /\ con'.pc # "idle" =>
              /\ con' = con /\ confirmQ # <<>>
              /\ confirmQ' # <<>> /\ Head(confirmQ') = Head(confirmQ)
         /\ con' \in ConStates /\ crashes' \in 0..MaxCrashes
         /\ crashes' # 0 \/ (server = "cut" /\ crashes' = crashes)
  <1>1. confirmQ \in Seq(Nat) /\ Len(confirmQ) \in Nat /\ con \in ConStates /\ crashes \in 0..MaxCrashes
    BY DEF Typed
  <1>2. ASSUME LoseMessages
        PROVE  \E n \in 0..Len(confirmQ) : /\ confirmQ' = SubSeq(confirmQ, 1, n)
                                           /\ con.pc # "idle" => n # 0
    BY <1>1, <1>2 DEF LoseMessages
  <1>3. CASE Crash
    <2>1. con' = IdleCon /\ IdleCon \in ConStates /\ IdleCon.pc = "idle"
      BY <1>3 DEF Crash, IdleCon, ConStates
    <2>2. \/ crashes' = crashes + 1 /\ LoseMessages /\ crashes < MaxCrashes
          \/ crashes' = crashes /\ confirmQ' = confirmQ /\ server = "cut"
      BY <1>3 DEF Crash, Dies
    <2>3. /\ crashes' \in 0..MaxCrashes
          /\ crashes' # 0 \/ (server = "cut" /\ crashes' = crashes)
      BY <1>1, <2>2, BatchBoundsAssumption
    <2> QED BY <1>1, <1>2, <2>1, <2>2, <2>3
  <1>4. CASE Disconnect
    <2>1. LoseMessages /\ con' = con /\ crashes' = crashes + 1 /\ crashes < MaxCrashes
      BY <1>4 DEF Disconnect
    <2>2. PICK n \in 0..Len(confirmQ) : /\ confirmQ' = SubSeq(confirmQ, 1, n)
                                        /\ con.pc # "idle" => n # 0
      BY <1>2, <2>1
    <2>3. n # 0 => confirmQ' # <<>> /\ Head(confirmQ') = Head(confirmQ)
      BY <1>1, <2>2
    <2>4. con.pc # "idle" => confirmQ # <<>>
      BY DEF Typed
    <2>5. crashes' \in 0..MaxCrashes /\ crashes' # 0
      BY <1>1, <2>1, BatchBoundsAssumption
    <2> QED BY <1>1, <2>1, <2>2, <2>3, <2>4, <2>5
  <1> QED BY <1>3, <1>4

\* What the confirm handler does to its queue.
LEMMA HandlerQueue ==
  ASSUME Typed, ConfirmHandler
  PROVE  /\ confirmQ # <<>> /\ con' \in ConStates /\ crashes' \in 0..MaxCrashes
         /\ \/ confirmQ' = confirmQ
            \/ AckConfirm /\ confirmQ' = Tail(confirmQ) /\ con' = IdleCon
  <1>1. con \in ConStates /\ (con.pc # "idle" => confirmQ # <<>>) /\ crashes \in 0..MaxCrashes
    BY DEF Typed
  <1>2. CASE TakeConfirm
    BY <1>1, <1>2 DEF TakeConfirm, ConStates
  <1>3. CASE PollBatch
    <2>1. PICK r \in CheckTx(chainFor(Strategy), txs[ConBatch], ChainFaults) :
            con' = [pc |-> "update", result |-> r]
      BY <1>3 DEF PollBatch
    <2>2. r \in {"pending", "confirmed", "failed"}
      BY DEF CheckTx
    <2> QED BY <1>1, <1>3, <2>1, <2>2 DEF PollBatch, ConStates
  <1>4. CASE ConfirmBatch
    BY <1>1, <1>4 DEF ConfirmBatch, ConStates
  <1>5. CASE AckConfirm
    BY <1>1, <1>5 DEF AckConfirm, ConStates, IdleCon
  <1> QED BY <1>2, <1>3, <1>4, <1>5 DEF ConfirmHandler

LEMMA FlushQueue ==
  ASSUME NEW b \in Batches, FlushStep(b)
  PROVE  /\ confirmQ' = confirmQ \/ confirmQ' = Append(confirmQ, b)
         /\ con' = con /\ crashes' = crashes /\ server' = server
  BY DEF FlushStep, InsertBatched, InsertBatchRecord, LinkBatchLeaves,
         AnchorWriteBatch, UpdateBatchAnchorStatus, confirm

\* The confirm queue only ever holds batches, whatever is lost of it.
LEMMA QueueTyped ==
  ASSUME Typed, [Next]_vars, Batches \subseteq Batches'
  PROVE  confirmQ' \in Seq(Nat) /\ \A i \in 1..Len(confirmQ') : confirmQ'[i] \in Batches'
  <1>1. /\ confirmQ \in Seq(Nat) /\ Len(confirmQ) \in Nat
        /\ \A i \in 1..Len(confirmQ) : confirmQ[i] \in Batches
    BY DEF Typed
  <1>2. \/ confirmQ' = confirmQ
        \/ confirmQ # <<>> /\ confirmQ' = Tail(confirmQ)
        \/ \E n \in 0..Len(confirmQ) : confirmQ' = SubSeq(confirmQ, 1, n)
        \/ \E b \in Batches : confirmQ' = Append(confirmQ, b)
    <2>1. ASSUME NEW b \in Batches, FlushStep(b)
          PROVE  confirmQ' = confirmQ \/ confirmQ' = Append(confirmQ, b)
      BY <2>1, FlushQueue
    <2>2. (\E l \in Logs : Write(l)) \/ TimerFires => confirmQ' = confirmQ
      BY DEF Write, TimerFires, confirm
    <2>3. Crash \/ Disconnect =>
            confirmQ' = confirmQ \/ \E n \in 0..Len(confirmQ) : confirmQ' = SubSeq(confirmQ, 1, n)
      BY <1>1, Losses
    <2>4. NoFlush \/ UNCHANGED vars =>
            \/ confirmQ' = confirmQ
            \/ confirmQ # <<>> /\ confirmQ' = Tail(confirmQ)
            \/ \E n \in 0..Len(confirmQ) : confirmQ' = SubSeq(confirmQ, 1, n)
      BY <1>1, <2>3, HandlerQueue
         DEF NoFlush, ReadLeaf, ChainStep, Include, Finalize, Reorg, DropTx, TxMoves,
             ReadSiblings, Restart, vars, confirm
    <2> QED BY <2>1, <2>2, <2>3, <2>4, Idles
  <1>3. CASE confirmQ # <<>> /\ confirmQ' = Tail(confirmQ)
    BY <1>1, <1>3
  <1>4. CASE \E n \in 0..Len(confirmQ) : confirmQ' = SubSeq(confirmQ, 1, n)
    <2>1. PICK n \in 0..Len(confirmQ) : confirmQ' = SubSeq(confirmQ, 1, n)
      BY <1>4
    <2>2. /\ confirmQ' \in Seq(Nat) /\ Len(confirmQ') = n
          /\ \A i \in 1..n : confirmQ'[i] = confirmQ[i] /\ i \in 1..Len(confirmQ)
      BY <1>1, <2>1
    <2> QED BY <1>1, <2>2
  <1>5. CASE \E b \in Batches : confirmQ' = Append(confirmQ, b)
    <2>1. PICK b \in Batches : confirmQ' = Append(confirmQ, b)
      BY <1>5
    <2>2. b \in Nat
      BY DEF Batches, Typed
    <2>3. /\ confirmQ' \in Seq(Nat) /\ Len(confirmQ') = Len(confirmQ) + 1
          /\ \A i \in 1..Len(confirmQ) : confirmQ'[i] = confirmQ[i]
          /\ confirmQ'[Len(confirmQ) + 1] = b
      BY <1>1, <2>1, <2>2
    <2>4. \A i \in 1..Len(confirmQ') : i \in 1..Len(confirmQ) \/ i = Len(confirmQ) + 1
      BY <1>1, <2>3
    <2> QED BY <1>1, <2>3, <2>4
  <1> QED BY <1>1, <1>2, <1>3, <1>4, <1>5

\* What a step writes to the records of the batches and of the transactions.
LEMMA RecordsMove ==
  ASSUME Typed, [Next]_vars, ~ \E e : Starts(e)
  PROVE  /\ \/ batches' = batches
            \/ \E b, s : /\ s \in {"pending", "confirmed", "failed"}
                         /\ batches' = [batches EXCEPT ![b] = s]
         /\ txs' = txs \/ \E b, s : s \in TxStates /\ txs' = [txs EXCEPT ![b] = s]
  <1>2. \/ batches' = batches
        \/ \E b, s : /\ s \in {"pending", "confirmed", "failed"}
                     /\ batches' = [batches EXCEPT ![b] = s]
    <2>1. ASSUME NEW b \in Batches, FlushStep(b)
          PROVE  \/ batches' = batches
                 \/ \E s \in {"pending", "failed"} : batches' = [batches EXCEPT ![b] = s]
      BY <2>1 DEF FlushStep, InsertBatched, InsertBatchRecord, LinkBatchLeaves,
             AnchorWriteBatch, UpdateBatchAnchorStatus, tables
    <2>2. ASSUME \E l \in Logs : Write(l) PROVE batches' = batches
      BY <2>2, WriteEffect
    <2>3. ASSUME TimerFires PROVE batches' = batches
      BY <2>3, TimerEffect
    <2>4. Crash => batches' = batches
      BY DEF Crash, tables
    <2>5. CASE ConfirmHandler
      <3>1. batches' \in {batches, [batches EXCEPT ![ConBatch] = con.result]}
        BY <2>5 DEF ConfirmHandler, TakeConfirm, PollBatch, ConfirmBatch, AckConfirm, tables
      <3>2. con.result \in {"pending", "confirmed", "failed"}
        BY DEF Typed, ConStates
      <3> QED BY <3>1, <3>2
    <2>6. (NoFlush /\ ~ ConfirmHandler) \/ UNCHANGED vars => batches' = batches
      BY DEF NoFlush, ReadLeaf, ChainStep, Include, Finalize, Reorg, DropTx, TxMoves,
             ReadSiblings, Disconnect, Restart, vars, tables
    <2> QED BY <2>1, <2>2, <2>3, <2>4, <2>5, <2>6, Idles
  <1>3. txs' = txs \/ \E b, s : s \in TxStates /\ txs' = [txs EXCEPT ![b] = s]
    <2>1. ASSUME NEW b \in Batches, FlushStep(b)
          PROVE  txs' = txs \/ txs' = [txs EXCEPT ![b] = "pool"]
      BY <2>1 DEF FlushStep, InsertBatched, InsertBatchRecord, LinkBatchLeaves,
             AnchorWriteBatch, UpdateBatchAnchorStatus
    <2>2. ASSUME \E l \in Logs : Write(l) PROVE txs' = txs
      BY <2>2, WriteEffect
    <2>3. ASSUME TimerFires PROVE txs' = txs
      BY <2>3, TimerEffect
    <2>4. Crash => txs' = txs
      BY DEF Crash
    <2>5. ASSUME NEW b \in Batches, ChainStep(b)
          PROVE  \E s \in TxStates : txs' = [txs EXCEPT ![b] = s]
      <3>1. CASE Include(b)
        <4>1. PICK s \in Executions(chainFor(Strategy), TRUE) : TxMoves(b, {"pool"}, s)
          BY <3>1 DEF Include
        <4>2. s \in TxStates
          BY DEF Executions, TxStates
        <4> QED BY <4>1, <4>2 DEF TxMoves
      <3> QED BY <2>5, <3>1 DEF ChainStep, Finalize, Finalized, Reorg, DropTx, TxMoves,
                 TxStates
    <2>6. (NoFlush /\ ~ \E b \in Batches : ChainStep(b)) \/ UNCHANGED vars => txs' = txs
      BY DEF NoFlush, ReadLeaf, ConfirmHandler, TakeConfirm, PollBatch,
       ConfirmBatch, AckConfirm,
             ReadSiblings, Disconnect, Restart, vars
    <2> QED BY <2>1, <2>2, <2>3, <2>4, <2>5, <2>6, Idles DEF TxStates
  <1> QED BY <1>2, <1>3

LEMMA RecordsTyped ==
  ASSUME Typed, [Next]_vars, flushes' = flushes \/ Len(flushes') = Len(flushes),
         ~ \E e : Starts(e)
  PROVE  /\ batches' \in Seq(Status) /\ txs' \in Seq(TxStates \cup {"none"})
         /\ Len(batches') = Len(flushes') /\ Len(txs') = Len(flushes')
  <1>1. /\ batches \in Seq(Status) /\ Len(batches) = Len(flushes)
        /\ txs \in Seq(TxStates \cup {"none"}) /\ Len(txs) = Len(flushes)
    BY DEF Typed, Status
  <1>2. batches' = batches \/ \E b, s : s \in Status /\ batches' = [batches EXCEPT ![b] = s]
    BY RecordsMove DEF Status
  <1>3. txs' = txs \/ \E b, s : s \in TxStates /\ txs' = [txs EXCEPT ![b] = s]
    BY RecordsMove
  <1>4. batches' \in Seq(Status) /\ Len(batches') = Len(batches)
    BY <1>1, <1>2
  <1>5. txs' \in Seq(TxStates \cup {"none"}) /\ Len(txs') = Len(txs)
    <2> DEFINE T == TxStates \cup {"none"}
    <2>1. \A s \in TxStates : s \in T
      OBVIOUS
    <2> HIDE DEF T
    <2> QED BY <1>1, <1>3, <2>1 DEF T
  <1> QED BY <1>1, <1>4, <1>5

LEMMA TypedStep == Typed /\ [Next]_vars => Typed'
  <1> SUFFICES ASSUME Typed, [Next]_vars PROVE Typed'
    OBVIOUS
  <1>1. /\ call \in [Logs -> {"new", "waiting", "stored", "failed", "gone"}]
        /\ buffer \in Seq(Logs) /\ flushes \in Seq(FlushRecords)
        /\ leaf \in [Logs -> Leaves] /\ Len(flushes) \in Nat
    BY DEF Typed
  <1>2. /\ flushes' \in Seq(FlushRecords)
        /\ \/ \E e : Starts(e)
           \/ Len(flushes') = Len(flushes) /\ ~ \E e : Starts(e)
    <2>1. ASSUME NEW e, Starts(e) PROVE flushes' \in Seq(FlushRecords)
      BY <2>1, StartShape
    <2>2. CASE ~ \E e : Starts(e)
      <3>1. ASSUME NEW l \in Logs, Write(l) PROVE flushes' = flushes
        BY <2>2, <3>1, WriteEffect
      <3>2. ASSUME TimerFires PROVE flushes' = flushes
        BY <2>2, <3>2, TimerEffect
      <3>3. ASSUME NEW b \in Batches, FlushStep(b)
            PROVE  flushes' \in Seq(FlushRecords) /\ Len(flushes') = Len(flushes)
        BY <3>3, FlushMoves, MoveShape
      <3> QED BY <1>1, <2>2, <3>1, <3>2, <3>3, Idles, NoFlushStays, CrashShape
    <2> QED BY <2>1, <2>2
  <1>3. /\ batches' \in Seq(Status) /\ txs' \in Seq(TxStates \cup {"none"})
        /\ Len(batches') = Len(flushes') /\ Len(txs') = Len(flushes')
        /\ Batches \subseteq Batches'
    <2>1. CASE \E e : Starts(e)
      BY <2>1, StartShape DEF Status
    <2>2. CASE Len(flushes') = Len(flushes) /\ ~ \E e : Starts(e)
      BY <2>2, RecordsTyped DEF Batches
    <2> QED BY <1>2, <2>1, <2>2
  <1>4. confirmQ' \in Seq(Nat) /\ \A i \in 1..Len(confirmQ') : confirmQ'[i] \in Batches'
    BY <1>3, QueueTyped
  <1>8. con' \in ConStates /\ (con'.pc # "idle" => confirmQ' # <<>>) /\ crashes' \in 0..MaxCrashes
    <2>1. confirmQ \in Seq(Nat) /\ con \in ConStates /\ crashes \in 0..MaxCrashes
          /\ (con.pc # "idle" => confirmQ # <<>>)
      BY DEF Typed
    <2>2. ASSUME NEW b \in Batches, FlushStep(b)
          PROVE  con' = con /\ crashes' = crashes /\ (confirmQ # <<>> => confirmQ' # <<>>)
      <3>1. b \in Nat
        BY DEF Batches, Typed
      <3>2. Append(confirmQ, b) # <<>>
        BY <2>1, <3>1
      <3> QED BY <2>2, <3>2, FlushQueue
    <2>3. CASE ConfirmHandler
      <3>1. IdleCon.pc = "idle"
        BY DEF IdleCon
      <3> QED BY <2>3, <3>1, HandlerQueue
    <2>4. CASE Crash \/ Disconnect
      BY <2>4, Losses
    <2>5. CASE \/ \E l \in Logs : Write(l) \/ ReadLeaf(l)
               \/ TimerFires \/ ReadSiblings \/ Restart \/ UNCHANGED vars
               \/ \E b \in Batches : ChainStep(b)
      BY <2>1, <2>5 DEF Write, ReadLeaf, TimerFires, ReadSiblings, Restart, vars, confirm,
         ChainStep, Include, Finalize, Reorg, DropTx, TxMoves
    <2> QED BY <2>1, <2>2, <2>3, <2>4, <2>5, Idles DEF NoFlush
  <1>5. call' \in [Logs -> {"new", "waiting", "stored", "failed", "gone"}]
    <2>1. ASSUME NEW l \in Logs, Write(l)
          PROVE  call' \in [Logs -> {"new", "waiting", "stored", "failed", "gone"}]
      BY <1>1, <2>1 DEF Write
    <2>2. TimerFires => call' = call
      BY DEF TimerFires, callers
    <2>3. ASSUME NEW b \in Batches, FlushStep(b)
          PROVE  call' \in [Logs -> {"new", "waiting", "stored", "failed", "gone"}]
      BY <1>1, <2>3, FlushMoves, ResolvedType DEF Tells
    <2>4. Crash => call' \in [Logs -> {"new", "waiting", "stored", "failed", "gone"}]
      BY <1>1 DEF Crash
    <2> QED BY <1>1, <2>1, <2>2, <2>3, <2>4, Idles, NoFlushStays
  <1>6. buffer' \in Seq(Logs)
    <2>1. ASSUME NEW l \in Logs, Write(l) PROVE buffer' = <<>> \/ buffer' = Append(buffer, l)
      BY <2>1, WriteEffect DEF Starts, StartFlush
    <2>2. TimerFires \/ Crash => buffer' = <<>> \/ buffer' = buffer
      BY TimerEffect DEF Starts, StartFlush, Crash
    <2>3. ASSUME NEW b \in Batches, FlushStep(b) PROVE buffer' = buffer
      BY <2>3, FlushMoves DEF writer
    <2>4. <<>> \in Seq(Logs) /\ \A l \in Logs : Append(buffer, l) \in Seq(Logs)
      BY <1>1
    <2> QED BY <1>1, <2>1, <2>2, <2>3, <2>4, Idles, NoFlushStays DEF writer
  <1>7. leaf' \in [Logs -> Leaves]
    <2>1. (\E l \in Logs : Write(l)) \/ TimerFires \/ Crash => leaf' = leaf
      BY DEF Write, TimerFires, Crash, tables
    <2>2. ASSUME NEW b \in Batches, FlushStep(b) PROVE leaf' \in [Logs -> Leaves]
      <3>1. CASE \E l \in Logs : InsertBatched(b, l)
        <4>1. PICK l \in Logs : leaf' \in {leaf, [leaf EXCEPT ![l].stored = TRUE]}
          BY <3>1 DEF InsertBatched
        <4>2. [leaf[l] EXCEPT !.stored = TRUE] \in Leaves
          BY <1>1 DEF Leaves
        <4> QED BY <1>1, <4>1, <4>2
      <3>2. CASE LinkBatchLeaves(b)
        <4>1. flushes[b].linked + 1 \in Nat /\ LinkTo(b) \in Nat
          <5>1. flushes[b] \in FlushRecords
            BY <1>1 DEF Batches
          <5>2. flushes[b].linked \in Nat /\ flushes[b].entries \in Seq(Logs)
            BY <5>1, RecordFields
          <5> QED BY <5>2 DEF LinkTo
        <4>2. leaf' \in {leaf, Linked(b, flushes[b].linked + 1, LinkTo(b))}
          BY <3>2, LinkEffect
        <4> QED BY <1>1, <4>1, <4>2, LinkedType
      <3>3. CASE InsertBatchRecord(b) \/ AnchorWriteBatch(b) \/ UpdateBatchAnchorStatus(b)
        BY <1>1, <3>3 DEF InsertBatchRecord, AnchorWriteBatch, UpdateBatchAnchorStatus, tables
      <3> QED BY <2>2, <3>1, <3>2, <3>3 DEF FlushStep
    <2> QED BY <1>1, <2>1, <2>2, Idles, NoFlushStays
  <1> QED BY <1>2, <1>3, <1>4, <1>5, <1>6, <1>7, <1>8 DEF Typed, Status

-----------------------------------------------------------------------------
(***************************************************************************)
(* Every entry in one place.                                               *)
(***************************************************************************)
\* A new flush takes what the buffer held, and the entry being written if it is
\* the one that fills it.
LEMMA PlaceStarts ==
  ASSUME Typed, PlaceInv, NEW e, Starts(e), Once(e),
         \A l \in Elements(e) : /\ call'[l] # "new" /\ l \in Logs
                                /\ \A b \in Batches : l \notin Entries(b),
         \A l \in Elements(buffer) : l \in Elements(e),
         \A l \in Logs : call'[l] = call[l] \/ (call[l] = "new" /\ l \in Elements(e))
  PROVE  PlaceInv'
  <1>0. PICK n : n = Len(flushes) + 1
    OBVIOUS
  <1>1. /\ n \notin Batches /\ Batches' = Batches \cup {n}
        /\ \A b \in Batches : flushes'[b] = flushes[b]
        /\ flushes'[n] = NewFlush(e)
    BY <1>0, StartShape
  <1>2. /\ NewFlush(e).entries = e /\ NewFlush(e).pc = "insert"
        /\ buffer' = <<>>
    BY DEF NewFlush, Starts, StartFlush
  <1>3. /\ \A b \in Batches : Entries(b)' = Entries(b)
        /\ Entries(n)' = Elements(e)
    BY <1>1, <1>2 DEF Entries
  <1>4. BufferTimed' /\ BufferOnce' /\ BufferApart'
    BY <1>2, ElementsEmpty DEF BufferTimed, BufferOnce, BufferApart
  <1>5. FlushOnce'
    BY <1>1, <1>2 DEF FlushOnce, PlaceInv
  <1>6. Disjoint'
    <2> SUFFICES ASSUME NEW b \in Batches', NEW c \in Batches', NEW l \in Entries(b)',
                        l \in Entries(c)'
                 PROVE  b = c
      BY DEF Disjoint
    <2>1. CASE b \in Batches /\ c \in Batches
      BY <1>3, <2>1 DEF PlaceInv, Disjoint
    <2>2. CASE b = n \/ c = n
      BY <1>1, <1>3, <2>2
    <2> QED BY <1>1, <2>1, <2>2
  <1>7. NewNowhere'
    <2> SUFFICES ASSUME NEW l \in Logs, call'[l] = "new"
                 PROVE  /\ l \notin Elements(buffer')
                        /\ \A b \in Batches' : l \notin Entries(b)'
      BY DEF NewNowhere
    <2>1. call[l] = "new" /\ l \notin Elements(e)
      OBVIOUS
    <2> QED BY <1>1, <1>2, <1>3, <2>1, ElementsEmpty DEF PlaceInv, NewNowhere
  <1>8. WaitingSomewhere'
    <2> SUFFICES ASSUME NEW l \in Logs, call'[l] = "waiting"
                 PROVE  \E b \in Batches' : l \in Entries(b)' /\ flushes'[b].pc # "done"
      BY DEF WaitingSomewhere, At
    <2>1. CASE l \in Elements(e)
      BY <1>1, <1>2, <1>3, <2>1
    <2>2. CASE l \notin Elements(e)
      <3>1. PICK b \in Batches : l \in Entries(b) /\ flushes[b].pc # "done"
        BY <2>2 DEF PlaceInv, WaitingSomewhere, At
      <3> QED BY <1>1, <1>3, <3>1
    <2> QED BY <2>1, <2>2
  <1> QED BY <1>4, <1>5, <1>6, <1>7, <1>8 DEF PlaceInv

\* Flushes keep their entries, and one that ends leaves no caller waiting.
LEMMA PlaceKept ==
  ASSUME Typed, PlaceInv, Batches' = Batches,
         \A b \in Batches : flushes'[b].entries = flushes[b].entries,
         UNCHANGED writer \/ buffer' = <<>>,
         \A l \in Logs : /\ call'[l] = "new" => call[l] = "new"
                         /\ call'[l] = "waiting" => call[l] = "waiting",
         \A l \in Logs : call'[l] = "waiting" =>
           /\ buffer' = buffer
           /\ \A b \in Batches : l \in Entries(b) /\ flushes'[b].pc = "done" => At(b, "done")
  PROVE  PlaceInv'
  <1>1. \A b \in Batches : Entries(b)' = Entries(b)
    BY DEF Entries
  <1>2. BufferTimed' /\ BufferOnce' /\ BufferApart'
    BY <1>1, ElementsEmpty DEF PlaceInv, BufferTimed, BufferOnce, BufferApart, writer
  <1>3. FlushOnce' /\ Disjoint'
    BY <1>1 DEF PlaceInv, FlushOnce, Disjoint
  <1>4. NewNowhere'
    <2>1. Elements(buffer') \subseteq Elements(buffer)
      BY ElementsEmpty DEF writer
    <2> QED BY <1>1, <2>1 DEF PlaceInv, NewNowhere
  <1>5. WaitingSomewhere'
    <2> SUFFICES ASSUME NEW l \in Logs, call'[l] = "waiting"
                 PROVE  \/ l \in Elements(buffer')
                        \/ \E b \in Batches' : l \in Entries(b)' /\ flushes'[b].pc # "done"
      BY DEF WaitingSomewhere, At
    <2>1. call[l] = "waiting" /\ buffer' = buffer
      OBVIOUS
    <2>2. CASE l \in Elements(buffer)
      BY <2>1, <2>2
    <2>3. CASE l \notin Elements(buffer)
      <3>1. PICK b \in Batches : l \in Entries(b) /\ flushes[b].pc # "done"
        BY <2>1, <2>3 DEF PlaceInv, WaitingSomewhere, At
      <3> QED BY <1>1, <3>1 DEF At
    <2> QED BY <2>2, <2>3
  <1> QED BY <1>2, <1>3, <1>4, <1>5 DEF PlaceInv

LEMMA PlaceWrites ==
  ASSUME Typed, PlaceInv, NEW k \in Logs, Write(k)
  PROVE  PlaceInv'
  <1>1. PICK e : e = Append(buffer, k)
    OBVIOUS
  <1>2. call[k] = "new" /\ call' = [call EXCEPT ![k] = "waiting"]
    BY WriteEffect
  <1>3. /\ \A l \in Logs : l # k => call'[l] = call[l]
        /\ call'[k] = "waiting"
    BY <1>2 DEF Typed
  <1>4. /\ Elements(e) = Elements(buffer) \cup {k} /\ Elements(buffer) \subseteq Logs
        /\ k \notin Elements(buffer) /\ \A b \in Batches : k \notin Entries(b)
        /\ Once(e)
    <2>1. buffer \in Seq(Logs)
      BY DEF Typed
    <2>2. k \notin Elements(buffer) /\ \A b \in Batches : k \notin Entries(b)
      BY <1>2 DEF PlaceInv, NewNowhere
    <2> QED BY <1>1, <2>1, <2>2, ElementsAppend, ElementsType DEF PlaceInv, BufferOnce
  <1>5. \A l \in Elements(e) : /\ call'[l] # "new" /\ l \in Logs
                               /\ \A b \in Batches : l \notin Entries(b)
    <2>1. \A l \in Elements(buffer) : call[l] # "new" /\ \A b \in Batches : l \notin Entries(b)
      BY <1>4 DEF PlaceInv, NewNowhere, BufferApart
    <2> QED BY <1>3, <1>4, <2>1
  <1>6. CASE Starts(e)
    <2>1. /\ \A l \in Elements(buffer) : l \in Elements(e)
          /\ \A l \in Logs : call'[l] = call[l] \/ (call[l] = "new" /\ l \in Elements(e))
      BY <1>2, <1>3, <1>4
    <2> QED BY <1>4, <1>5, <1>6, <2>1, PlaceStarts
  <1>7. CASE /\ buffer' = e /\ timer' /\ Len(buffer') < MaxSize
             /\ UNCHANGED flushes
    <2>1. Batches' = Batches /\ \A b \in Batches : Entries(b)' = Entries(b)
      BY <1>7 DEF Batches, Entries
    <2>2. BufferTimed' /\ BufferOnce'
      BY <1>4, <1>7 DEF BufferTimed, BufferOnce
    <2>3. BufferApart' /\ FlushOnce' /\ Disjoint'
      BY <1>4, <1>7, <2>1 DEF PlaceInv, BufferApart, FlushOnce, Disjoint
    <2>4. NewNowhere'
      BY <1>3, <1>4, <1>7, <2>1 DEF PlaceInv, NewNowhere
    <2>5. WaitingSomewhere'
      BY <1>3, <1>4, <1>7, <2>1 DEF PlaceInv, WaitingSomewhere, At
    <2> QED BY <2>2, <2>3, <2>4, <2>5 DEF PlaceInv
  <1> QED BY <1>1, <1>6, <1>7, WriteEffect

LEMMA PlaceStep == Typed /\ PlaceInv /\ [Next]_vars => PlaceInv'
  <1> SUFFICES ASSUME Typed, PlaceInv, [Next]_vars PROVE PlaceInv'
    OBVIOUS
  <1>1. CASE NoFlush \/ UNCHANGED vars
    <2>1. UNCHANGED <<call, writer, flushes>>
      BY <1>1, NoFlushStays
    <2> QED BY <2>1, PlaceKept DEF Batches, writer, At
  <1>2. CASE TimerFires
    <2>1. UNCHANGED call
      BY <1>2, TimerEffect
    <2>2. CASE Starts(buffer)
      <3>1. Elements(buffer) \subseteq Logs
        BY ElementsType DEF Typed
      <3>2. \A l \in Elements(buffer) : /\ call'[l] # "new" /\ l \in Logs
                                        /\ \A b \in Batches : l \notin Entries(b)
        BY <2>1, <3>1 DEF PlaceInv, NewNowhere, BufferApart
      <3> QED BY <2>1, <2>2, <3>2, PlaceStarts DEF PlaceInv, BufferOnce
    <2>3. CASE buffer = <<>> /\ UNCHANGED <<buffer, flushes>>
      BY <2>1, <2>3, PlaceKept DEF Batches, At
    <2> QED BY <1>2, <2>2, <2>3, TimerEffect
  <1>3. CASE Crash
    <2>1. /\ Batches' = Batches /\ buffer' = <<>>
          /\ \A b \in Batches : flushes'[b].entries = flushes[b].entries
      BY <1>3, CrashShape DEF Crash
    <2>2. \A l \in Logs : /\ call'[l] # "waiting"
                          /\ call'[l] = "new" => call[l] = "new"
      BY <1>3 DEF Crash
    <2> QED BY <2>1, <2>2, PlaceKept
  <1>4. ASSUME NEW b \in Batches, FlushStep(b) PROVE PlaceInv'
    <2>1. PICK r : Moves(b, r) /\ Tells(b, r)
      BY <1>4, FlushMoves
    <2>2. /\ Batches' = Batches /\ flushes'[b] = r /\ UNCHANGED writer
          /\ \A c \in Batches : c # b => flushes'[c] = flushes[c]
          /\ \A c \in Batches : flushes'[c].entries = flushes[c].entries
      BY <1>4, <2>1, FlushMoves, MoveShape
    <2>3. CASE call' = call /\ (r.pc = "done" => At(b, "done"))
      BY <2>2, <2>3, PlaceKept DEF writer, At
    <2>4. CASE \E o \in {"stored", "failed"} : call' = Resolved(b, o)
      <3>1. \A l \in Logs : /\ call'[l] = "new" => call[l] = "new"
                            /\ call'[l] = "waiting" => call[l] = "waiting" /\ l \notin Entries(b)
        BY <2>4, ResolvedType
      <3> QED BY <2>2, <3>1, PlaceKept DEF writer, At
    <2> QED BY <2>1, <2>3, <2>4 DEF Tells
  <1> QED BY <1>1, <1>2, <1>3, <1>4, PlaceWrites, Idles

LEMMA TypedAlways == Spec => []Typed
  <1>1. Init => Typed
    BY BatchBoundsAssumption DEF Init, Typed, Batches, NoLeaf, Leaves, IdleCon, ConStates
  <1> QED BY <1>1, TypedStep, PTL DEF Spec

LEMMA PlaceAlways == Spec => []PlaceInv
  <1>1. Init => PlaceInv
    <2> SUFFICES ASSUME Init PROVE PlaceInv
      OBVIOUS
    <2>1. buffer = <<>> /\ Batches = {} /\ \A l \in Logs : call[l] = "new"
      BY DEF Init, Batches
    <2> QED BY <2>1, ElementsEmpty DEF PlaceInv, BufferTimed, BufferOnce, FlushOnce,
               BufferApart, Disjoint, NewNowhere, WaitingSomewhere
  <1> QED BY <1>1, PlaceStep, TypedAlways, PTL DEF Spec

\* However many flushes overlap, an entry is in the buffer or in one of them and
\* at one place, and while its caller waits it is where a flush will resolve it.
THEOREM EntriesTakenOnce == Spec => []TakenOnce
  <1>1. PlaceInv => TakenOnce
    <2> SUFFICES ASSUME PlaceInv, NEW l \in Logs,
                        NEW inBuffer, inBuffer = {i \in 1..Len(buffer) : buffer[i] = l},
                        NEW inFlushes, inFlushes = {b \in Batches : l \in Entries(b)}
                 PROVE  /\ Cardinality(inBuffer) + Cardinality(inFlushes) <= 1
                        /\ call[l] = "waiting" =>
                             inBuffer # {} \/ \E b \in inFlushes : ~ At(b, "done")
      BY DEF TakenOnce, PlaceInv, BufferTimed, Entries
    <2>1. inBuffer # {} => inFlushes = {}
      BY DEF PlaceInv, BufferApart, Elements
    <2>2. inBuffer = {} \/ \E i : inBuffer = {i}
      <3> SUFFICES ASSUME inBuffer # {} PROVE \E i : inBuffer = {i}
        OBVIOUS
      <3>1. PICK i : i \in inBuffer
        OBVIOUS
      <3>2. \A j \in inBuffer : j = i
        BY <3>1 DEF PlaceInv, BufferOnce, Once
      <3>3. inBuffer = {i}
        BY <3>1, <3>2
      <3> QED BY <3>3
    <2>3. inFlushes = {} \/ \E b : inFlushes = {b}
      <3> SUFFICES ASSUME inFlushes # {} PROVE \E b : inFlushes = {b}
        OBVIOUS
      <3>1. PICK b : b \in inFlushes
        OBVIOUS
      <3>2. \A c \in inFlushes : c = b
        BY <3>1 DEF PlaceInv, Disjoint
      <3>3. inFlushes = {b}
        BY <3>1, <3>2
      <3> QED BY <3>3
    <2>4. Cardinality({}) = 0 /\ \A x : Cardinality({x}) = 1
      BY FS_EmptySet, FS_Singleton
    <2>5. Cardinality(inBuffer) + Cardinality(inFlushes) <= 1
      <3>1. Cardinality(inBuffer) = 0 \/ (Cardinality(inBuffer) = 1 /\ inBuffer # {})
        BY <2>2, <2>4, Zenon
      <3>2. Cardinality(inFlushes) = 0 \/ Cardinality(inFlushes) = 1
        BY <2>3, <2>4, Zenon
      <3>3. inBuffer # {} => Cardinality(inFlushes) = 0
        BY <2>1, <2>4, Zenon
      <3> QED BY <3>1, <3>2, <3>3, SMT
    <2>6. call[l] = "waiting" => inBuffer # {} \/ \E b \in inFlushes : ~ At(b, "done")
      BY DEF PlaceInv, WaitingSomewhere, Elements
    <2> QED BY <2>5, <2>6
  <1> QED BY <1>1, PlaceAlways, PTL

-----------------------------------------------------------------------------
(***************************************************************************)
(* Leaves.  A flush that has got past its inserts has stored its leaves;   *)
(* the first "linked" of them carry its root and their place.              *)
(***************************************************************************)
StoredBut ==
  \A b \in Batches :
    /\ flushes[b].todo \subseteq Entries(b)
    /\ ~ At(b, "done") => \A l \in Entries(b) : l \in flushes[b].todo \/ leaf[l].stored
    /\ ~ At(b, "done") /\ ~ At(b, "insert") => flushes[b].todo = {}
RootsIn ==
  \A l \in Logs : leaf[l].root # 0 =>
    leaf[l].root \in Batches /\ l \in Entries(leaf[l].root)
LinkedSo ==
  \A b \in Batches : \A i \in 1..flushes[b].linked :
    /\ i <= Len(flushes[b].entries)
    /\ leaf[flushes[b].entries[i]].root = b /\ leaf[flushes[b].entries[i]].index = i
Progress ==
  \A b \in Batches :
    /\ flushes[b].pc \in {"insert", "record"} =>
         flushes[b].linked = 0 /\ flushes[b].entries # <<>>
    /\ At(b, "link") => flushes[b].linked < Len(flushes[b].entries)
    /\ flushes[b].pc \in {"anchor", "status"} =>
         flushes[b].linked = Len(flushes[b].entries)

Complete(b) == SiblingsAre(b, flushes[b].entries)

\* On PostgreSQL the links of a batch appear together.
Atomic == DB = "postgres" => \A l \in Logs : leaf[l].root # 0 => Complete(leaf[l].root)

LeafInv == StoredBut /\ RootsIn /\ LinkedSo /\ Progress /\ Atomic

\* What a step never takes back from a leaf or a batch.
LeafGrows ==
  /\ \A l \in Logs : /\ leaf[l].stored => leaf'[l].stored
                     /\ leaf[l].root # 0 => leaf'[l].root = leaf[l].root
  /\ Batches \subseteq Batches'
  /\ \A b \in Batches : Complete(b) => Complete(b)'

\* A step that links no leaf and starts no flush.
LEMMA NoLink ==
  ASSUME Typed, LeafInv, Batches' = Batches,
         \A b \in Batches : /\ flushes'[b].entries = flushes[b].entries
                            /\ flushes'[b].linked = flushes[b].linked
                            /\ flushes'[b].todo \subseteq flushes[b].todo,
         \A b \in Batches : flushes'[b].pc # "done" =>
           /\ ~ At(b, "done")
           /\ \A l \in flushes[b].todo : l \in flushes'[b].todo \/ leaf'[l].stored
           /\ \/ flushes'[b].pc = flushes[b].pc
              \/ At(b, "insert") /\ flushes'[b].pc = "record" /\ flushes'[b].todo = {}
              \/ At(b, "record") /\ flushes'[b].pc = "link"
              \/ At(b, "anchor") /\ flushes'[b].pc = "status",
         leaf' \in [Logs -> Leaves],
         \A l \in Logs : /\ leaf[l].stored => leaf'[l].stored
                         /\ leaf'[l].root = leaf[l].root /\ leaf'[l].index = leaf[l].index
  PROVE  LeafInv' /\ LeafGrows
  <1>1. \A b \in Batches : Entries(b)' = Entries(b)
    BY DEF Entries
  <1>2. \A b \in Batches : /\ flushes[b] \in FlushRecords /\ flushes[b].entries \in Seq(Logs)
                           /\ flushes[b].todo \subseteq Logs /\ Entries(b) \subseteq Logs
                           /\ Len(flushes[b].entries) \in Nat
                           /\ \A i \in 1..Len(flushes[b].entries) : flushes[b].entries[i] \in Logs
    <2> SUFFICES ASSUME NEW b \in Batches
                 PROVE  /\ flushes[b] \in FlushRecords /\ flushes[b].entries \in Seq(Logs)
                        /\ flushes[b].todo \subseteq Logs /\ Entries(b) \subseteq Logs
                        /\ Len(flushes[b].entries) \in Nat
                        /\ \A i \in 1..Len(flushes[b].entries) : flushes[b].entries[i] \in Logs
      OBVIOUS
    <2>1. flushes[b] \in FlushRecords
      BY DEF Typed, Batches
    <2> QED BY <2>1, RecordFields, ElementsType DEF Entries
  <1>3. StoredBut'
    <2> SUFFICES ASSUME NEW b \in Batches
                 PROVE  /\ flushes'[b].todo \subseteq Entries(b)
                        /\ flushes'[b].pc # "done" =>
                             /\ \A l \in Entries(b) : l \in flushes'[b].todo \/ leaf'[l].stored
                             /\ flushes'[b].pc # "insert" => flushes'[b].todo = {}
      BY <1>1 DEF StoredBut, At
    <2> QED BY <1>2 DEF LeafInv, StoredBut, At
  <1>4. RootsIn'
    BY <1>1 DEF LeafInv, RootsIn
  <1>5. LinkedSo'
    BY <1>2 DEF LeafInv, LinkedSo
  <1>6. Progress'
    <2> SUFFICES ASSUME NEW b \in Batches
                 PROVE  /\ flushes'[b].pc \in {"insert", "record"} =>
                             flushes[b].linked = 0 /\ flushes[b].entries # <<>>
                        /\ flushes'[b].pc = "link" =>
                             flushes[b].linked < Len(flushes[b].entries)
                        /\ flushes'[b].pc \in {"anchor", "status"} =>
                             flushes[b].linked = Len(flushes[b].entries)
      BY DEF Progress, At
    <2> QED BY <1>2 DEF LeafInv, Progress, At
  <1>7. \A b \in Batches : Complete(b) => Complete(b)'
    <2> SUFFICES ASSUME NEW b \in Batches, Complete(b) PROVE Complete(b)'
      OBVIOUS
    <2>1. \A i \in 1..Len(flushes[b].entries) :
            leaf'[flushes[b].entries[i]] = [stored |-> TRUE, root |-> b, index |-> i]
      <3> SUFFICES ASSUME NEW i \in 1..Len(flushes[b].entries)
                   PROVE  leaf'[flushes[b].entries[i]]
                            = [stored |-> TRUE, root |-> b, index |-> i]
        OBVIOUS
      <3>1. PICK k \in Logs : k = flushes[b].entries[i]
        BY <1>2
      <3>2. leaf[k].stored /\ leaf[k].root = b /\ leaf[k].index = i
        <4>1. leaf[k] = [stored |-> TRUE, root |-> b, index |-> i]
          BY <3>1 DEF Complete, SiblingsAre
        <4> QED BY <4>1
      <3>3. leaf'[k].stored = TRUE /\ leaf'[k].root = b /\ leaf'[k].index = i
        BY <3>2 DEF Leaves
      <3> QED BY <3>1, <3>3 DEF Leaves
    <2>2. \A l \in Logs : leaf'[l].root = b => l \in Elements(flushes[b].entries)
      BY DEF Complete, SiblingsAre
    <2> QED BY <2>1, <2>2 DEF Complete, SiblingsAre
  <1>8. Atomic'
    BY <1>7 DEF LeafInv, Atomic, RootsIn
  <1> QED BY <1>3, <1>4, <1>5, <1>6, <1>7, <1>8 DEF LeafInv, LeafGrows

\* What linking the entries of flush b from place m to place n does to a leaf.
LEMMA LinkedLeaf ==
  ASSUME Typed, NEW b \in Batches, NEW e, e = flushes[b].entries, Once(e),
         NEW m, m \in Nat \ {0}, NEW n \in m..Len(e), NEW x, x = Linked(b, m, n)
  PROVE  /\ \A i \in m..n : /\ x[e[i]].stored = leaf[e[i]].stored
                            /\ x[e[i]].root = b /\ x[e[i]].index = i
         /\ \A l \in Logs : (\A i \in m..n : e[i] # l) => x[l] = leaf[l]
  <1>1. e \in Seq(Logs) /\ Len(e) \in Nat
    <2>1. flushes[b] \in FlushRecords
      BY DEF Typed, Batches
    <2> QED BY <2>1, RecordFields
  <1>2. PICK place : place = [l \in Logs |-> CHOOSE i \in m..n : e[i] = l]
    OBVIOUS
  <1>3. \A l \in Logs : x[l] = IF \E i \in m..n : e[i] = l
                               THEN [leaf[l] EXCEPT !.root = b, !.index = place[l]]
                               ELSE leaf[l]
    BY <1>2 DEF Linked
  <1>4. ASSUME NEW i \in m..n
        PROVE  x[e[i]].stored = leaf[e[i]].stored /\ x[e[i]].root = b /\ x[e[i]].index = i
    <2>0. i \in 1..Len(e) /\ leaf \in [Logs -> Leaves]
      BY <1>1 DEF Typed
    <2>1. i \in 1..Len(e) /\ e[i] \in Logs /\ leaf[e[i]] \in Leaves
      BY <1>1, <2>0
    <2>2. place[e[i]] \in m..n /\ e[place[e[i]]] = e[i]
      BY <1>2, <2>1
    <2>3. place[e[i]] = i
      BY <1>1, <2>1, <2>2 DEF Once
    <2>4. x[e[i]] = [leaf[e[i]] EXCEPT !.root = b, !.index = i]
      BY <1>3, <2>1, <2>3
    <2> QED BY <2>1, <2>4 DEF Leaves
  <1>5. ASSUME NEW l \in Logs, \A i \in m..n : e[i] # l PROVE x[l] = leaf[l]
    BY <1>3, <1>5
  <1> QED BY <1>4, <1>5

\* Leaves are linked to their own batch, after those linked before.
LEMMA LinkedLeaves ==
  ASSUME Typed, PlaceInv, LeafInv, NEW b \in Batches, At(b, "link"), NEW e,
         e = flushes[b].entries, NEW m, m = flushes[b].linked + 1,
         NEW n \in m..Len(e), leaf' = Linked(b, m, n)
  PROVE  /\ \A i \in m..n : leaf'[e[i]] = [stored |-> TRUE, root |-> b, index |-> i]
         /\ \A i \in 1..Len(e) : i \notin m..n => leaf'[e[i]] = leaf[e[i]]
         /\ \A l \in Logs : l \notin Entries(b) => leaf'[l] = leaf[l]
         /\ \A l \in Logs : leaf[l].stored => leaf'[l].stored
         /\ \A l \in Logs : leaf'[l].root = b \/ leaf'[l] = leaf[l]
         /\ \A l \in Entries(b) : leaf[l].stored
  <1>1. /\ e \in Seq(Logs) /\ Len(e) \in Nat /\ m \in Nat \ {0} /\ n \in Nat
        /\ \A i \in 1..Len(e) : e[i] \in Logs /\ e[i] \in Entries(b)
        /\ Entries(b) \subseteq Logs
    <2>1. flushes[b] \in FlushRecords
      BY DEF Typed, Batches
    <2> QED BY <2>1, RecordFields, ElementsType DEF Entries, Elements
  <1>2. Once(e)
    BY DEF PlaceInv, FlushOnce
  <1>3. /\ \A i \in m..n : /\ leaf'[e[i]].stored = leaf[e[i]].stored
                           /\ leaf'[e[i]].root = b /\ leaf'[e[i]].index = i
        /\ \A l \in Logs : (\A i \in m..n : e[i] # l) => leaf'[l] = leaf[l]
        /\ leaf' \in [Logs -> Leaves]
    <2>1. PICK x : x = leaf'
      OBVIOUS
    <2>2. x = Linked(b, m, n) /\ m \in Nat \ {0}
      BY <1>1, <2>1
    <2>3. /\ \A i \in m..n : /\ x[e[i]].stored = leaf[e[i]].stored
                             /\ x[e[i]].root = b /\ x[e[i]].index = i
          /\ \A l \in Logs : (\A i \in m..n : e[i] # l) => x[l] = leaf[l]
      BY <1>2, <2>2, LinkedLeaf
    <2>4. leaf' \in [Logs -> Leaves]
      BY <1>1, LinkedType
    <2>5. \A i \in m..n : /\ leaf'[e[i]].stored = leaf[e[i]].stored
                          /\ leaf'[e[i]].root = b /\ leaf'[e[i]].index = i
      <3> SUFFICES ASSUME NEW i \in m..n
                   PROVE  /\ leaf'[e[i]].stored = leaf[e[i]].stored
                          /\ leaf'[e[i]].root = b /\ leaf'[e[i]].index = i
        OBVIOUS
      <3>1. leaf'[e[i]] = x[e[i]]
        BY <2>1
      <3> QED BY <2>3, <3>1
    <2>6. \A l \in Logs : (\A i \in m..n : e[i] # l) => leaf'[l] = leaf[l]
      BY <2>1, <2>3
    <2> QED BY <2>4, <2>5, <2>6
  <1>4. \A l \in Entries(b) : leaf[l].stored /\ leaf[l] \in Leaves
    BY <1>1 DEF LeafInv, StoredBut, At, Typed
  <1>5. ASSUME NEW i \in m..n
        PROVE  leaf'[e[i]] = [stored |-> TRUE, root |-> b, index |-> i]
    <2>1. PICK k \in Entries(b) : k = e[i]
      BY <1>1
    <2>2. leaf[k].stored = TRUE /\ leaf'[k] \in Leaves
      BY <1>1, <1>3, <1>4 DEF Leaves
    <2>3. leaf'[k].stored = TRUE /\ leaf'[k].root = b /\ leaf'[k].index = i
      BY <1>3, <2>1, <2>2
    <2> QED BY <2>1, <2>2, <2>3 DEF Leaves
  <1>6. ASSUME NEW i \in 1..Len(e), i \notin m..n PROVE leaf'[e[i]] = leaf[e[i]]
    <2>1. \A j \in m..n : e[j] # e[i]
      BY <1>1, <1>2, <1>6 DEF Once
    <2> QED BY <1>1, <1>3, <2>1
  <1>7. \A l \in Logs : \/ leaf'[l] = leaf[l]
                        \/ /\ l \in Entries(b) /\ leaf'[l].root = b /\ leaf'[l].stored
    <2> SUFFICES ASSUME NEW l \in Logs, leaf'[l] # leaf[l]
                 PROVE  l \in Entries(b) /\ leaf'[l].root = b /\ leaf'[l].stored
      OBVIOUS
    <2>1. PICK i \in m..n : e[i] = l
      BY <1>3
    <2>2. leaf'[l] = [stored |-> TRUE, root |-> b, index |-> i] /\ i \in 1..Len(e)
      BY <1>1, <1>5, <2>1
    <2> QED BY <1>1, <2>1, <2>2
  <1> QED BY <1>4, <1>5, <1>6, <1>7

LEMMA LinkStep ==
  ASSUME Typed, PlaceInv, LeafInv, NEW b \in Batches, NEW r, Moves(b, r), At(b, "link"),
         r.todo = flushes[b].todo, NEW e, e = flushes[b].entries,
         NEW m, m = flushes[b].linked + 1, NEW n, n = LinkTo(b), leaf' = Linked(b, m, n),
         (r.linked = n /\ r.pc = (IF n = Len(e) THEN "anchor" ELSE "link"))
           \/ (r.linked = flushes[b].linked /\ r.pc = "done")
  PROVE  LeafInv' /\ LeafGrows
  <1>1. /\ e \in Seq(Logs) /\ Len(e) \in Nat /\ flushes[b].linked \in Nat
        /\ m \in Nat \ {0} /\ n \in m..Len(e)
        /\ \A i \in 1..Len(e) : e[i] \in Logs /\ e[i] \in Entries(b)
        /\ Entries(b) \subseteq Logs
    <2>1. flushes[b] \in FlushRecords
      BY DEF Typed, Batches
    <2>2. /\ e \in Seq(Logs) /\ Len(e) \in Nat /\ flushes[b].linked \in Nat
          /\ \A i \in 1..Len(e) : e[i] \in Logs /\ e[i] \in Entries(b)
          /\ Entries(b) \subseteq Logs
      BY <2>1, RecordFields, ElementsType DEF Entries, Elements
    <2>3. flushes[b].linked < Len(e)
      BY DEF LeafInv, Progress
    <2> QED BY <2>2, <2>3 DEF LinkTo
  <1>2. /\ Batches' = Batches /\ flushes'[b] = r /\ r.entries = e
        /\ \A c \in Batches : c # b => flushes'[c] = flushes[c]
        /\ \A c \in Batches : flushes'[c].entries = flushes[c].entries
        /\ \A c \in Batches : Entries(c)' = Entries(c)
    BY MoveShape DEF Moves
  <1>3. /\ \A i \in m..n : leaf'[e[i]] = [stored |-> TRUE, root |-> b, index |-> i]
        /\ \A i \in 1..Len(e) : i \notin m..n => leaf'[e[i]] = leaf[e[i]]
        /\ \A l \in Logs : l \notin Entries(b) => leaf'[l] = leaf[l]
        /\ \A l \in Logs : leaf[l].stored => leaf'[l].stored
        /\ \A l \in Logs : leaf'[l].root = b \/ leaf'[l] = leaf[l]
        /\ \A l \in Entries(b) : leaf[l].stored
    BY <1>1, LinkedLeaves
  <1>4. StoredBut'
    <2>1. \A c \in Batches :
            /\ flushes'[c].todo \subseteq Entries(c)
            /\ flushes'[c].pc # "done" =>
                 /\ flushes[c].pc # "done"
                 /\ flushes'[c].pc # "insert" => flushes'[c].todo = {}
            /\ flushes'[c].todo = flushes[c].todo
      BY <1>2 DEF LeafInv, StoredBut, At
    <2>2. ASSUME NEW c \in Batches, flushes'[c].pc # "done", NEW l \in Entries(c)
          PROVE  l \in flushes'[c].todo \/ leaf'[l].stored
      <3>1. l \in flushes[c].todo \/ leaf[l].stored
        BY <2>1, <2>2 DEF LeafInv, StoredBut, At
      <3>2. l \in Logs
        <4>1. flushes[c] \in FlushRecords
          BY DEF Typed, Batches
        <4> QED BY <4>1, RecordFields, ElementsType DEF Entries
      <3> QED BY <1>3, <2>1, <3>1, <3>2
    <2> QED BY <1>2, <2>1, <2>2 DEF StoredBut, At
  <1>5. \A c \in Batches : c # b => \A l \in Entries(c) : l \in Logs /\ leaf'[l] = leaf[l]
    <2> SUFFICES ASSUME NEW c \in Batches, c # b, NEW l \in Entries(c)
                 PROVE  l \in Logs /\ leaf'[l] = leaf[l]
      OBVIOUS
    <2>1. l \notin Entries(b)
      BY DEF PlaceInv, Disjoint
    <2>2. flushes[c] \in FlushRecords
      BY DEF Typed, Batches
    <2>3. l \in Logs
      BY <2>2, RecordFields, ElementsType DEF Entries
    <2> QED BY <1>3, <2>1, <2>3
  <1>6. RootsIn'
    <2> SUFFICES ASSUME NEW l \in Logs, leaf'[l].root # 0
                 PROVE  /\ leaf'[l].root \in Batches
                        /\ l \in Elements(flushes'[leaf'[l].root].entries)
      BY <1>2 DEF RootsIn, Entries
    <2>1. CASE leaf'[l] = leaf[l]
      <3>1. leaf[l].root \in Batches /\ l \in Entries(leaf[l].root)
        BY <2>1 DEF LeafInv, RootsIn
      <3> QED BY <1>2, <2>1, <3>1 DEF Entries
    <2>2. CASE leaf'[l] # leaf[l]
      <3>1. leaf'[l].root = b /\ l \in Entries(b)
        BY <1>3, <2>2
      <3> QED BY <1>2, <3>1 DEF Entries
    <2> QED BY <2>1, <2>2
  <1>7. LinkedSo'
    <2>1. ASSUME NEW c \in Batches, c # b, NEW i \in 1..flushes'[c].linked
          PROVE  /\ i <= Len(flushes'[c].entries)
                 /\ leaf'[flushes'[c].entries[i]].root = c
                 /\ leaf'[flushes'[c].entries[i]].index = i
      <3>1. /\ i <= Len(flushes[c].entries)
            /\ leaf[flushes[c].entries[i]].root = c /\ leaf[flushes[c].entries[i]].index = i
        BY <1>2, <2>1 DEF LeafInv, LinkedSo
      <3>2. flushes[c] \in FlushRecords
        BY DEF Typed, Batches
      <3>3. flushes[c].linked \in Nat /\ Len(flushes[c].entries) \in Nat
        BY <3>2, RecordFields
      <3>4. flushes[c].entries[i] \in Entries(c)
        BY <1>2, <2>1, <3>1, <3>3 DEF Entries, Elements
      <3> QED BY <1>2, <1>5, <2>1, <3>1, <3>4
    <2>2. ASSUME NEW i \in 1..r.linked
          PROVE  i <= Len(e) /\ leaf'[e[i]].root = b /\ leaf'[e[i]].index = i
      <3>1. i \in 1..Len(e) /\ (i < m \/ i \in m..n)
        BY <1>1
      <3>2. CASE i < m
        <4>1. leaf[e[i]].root = b /\ leaf[e[i]].index = i
          BY <1>1, <3>1, <3>2 DEF LeafInv, LinkedSo
        <4> QED BY <1>1, <1>3, <3>1, <3>2, <4>1
      <3>3. CASE i \in m..n
        <4>1. leaf'[e[i]] = [stored |-> TRUE, root |-> b, index |-> i]
          BY <1>3, <3>3
        <4> QED BY <1>1, <3>1, <4>1
      <3> QED BY <3>1, <3>2, <3>3
    <2> QED BY <1>2, <2>1, <2>2 DEF LinkedSo
  <1>8. Progress'
    <2>1. \A c \in Batches : c # b => flushes'[c] = flushes[c]
      BY <1>2
    <2>2. \/ r.linked = n /\ n = Len(e) /\ r.pc = "anchor"
          \/ r.linked = n /\ n < Len(e) /\ r.pc = "link"
          \/ r.pc = "done"
      BY <1>1
    <2> QED BY <1>2, <2>1, <2>2 DEF LeafInv, Progress, At
  <1>9. \A c \in Batches : Complete(c) => Complete(c)'
    <2> SUFFICES ASSUME NEW c \in Batches, Complete(c) PROVE Complete(c)'
      OBVIOUS
    <2>1. \A l \in Logs : leaf'[l].root = c => l \in Elements(flushes[c].entries)
      <3>1. \A l \in Logs : leaf[l].root = c => l \in Elements(flushes[c].entries)
        BY DEF Complete, SiblingsAre
      <3>2. \A l \in Logs : l \notin Entries(b) => leaf'[l] = leaf[l]
        BY <1>3
      <3> QED BY <1>3, <3>1, <3>2 DEF Entries
    <2>2. \A i \in 1..Len(flushes[c].entries) :
            leaf'[flushes[c].entries[i]] = [stored |-> TRUE, root |-> c, index |-> i]
      <3> SUFFICES ASSUME NEW i \in 1..Len(flushes[c].entries)
                   PROVE  leaf'[flushes[c].entries[i]]
                            = [stored |-> TRUE, root |-> c, index |-> i]
        OBVIOUS
      <3>1. leaf[flushes[c].entries[i]] = [stored |-> TRUE, root |-> c, index |-> i]
        BY DEF Complete, SiblingsAre
      <3>2. CASE c # b
        <4>1. flushes[c].entries[i] \in Entries(c)
          BY DEF Entries, Elements
        <4> QED BY <1>5, <3>1, <3>2, <4>1
      <3>3. CASE c = b
        <4>1. i \notin m..n => leaf'[e[i]] = leaf[e[i]]
          BY <1>3, <3>3
        <4>2. i \in m..n => leaf'[e[i]] = [stored |-> TRUE, root |-> b, index |-> i]
          BY <1>3
        <4> QED BY <3>1, <3>3, <4>1, <4>2
      <3> QED BY <3>2, <3>3
    <2> QED BY <1>2, <2>1, <2>2 DEF Complete, SiblingsAre
  <1>10. LeafGrows
    <2>1. ASSUME NEW l \in Logs, leaf[l].root # 0 PROVE leaf'[l].root = leaf[l].root
      <3>1. leaf[l].root \in Batches /\ l \in Entries(leaf[l].root)
        BY <2>1 DEF LeafInv, RootsIn
      <3>2. CASE leaf[l].root # b
        BY <1>5, <3>1, <3>2
      <3>3. CASE leaf[l].root = b
        BY <1>3, <3>3
      <3> QED BY <3>2, <3>3
    <2> QED BY <1>2, <1>3, <1>9, <2>1 DEF LeafGrows
  <1>11. Atomic'
    <2> SUFFICES ASSUME DB = "postgres", NEW l \in Logs, leaf'[l].root # 0,
                        NEW c, c = leaf'[l].root
                 PROVE  Complete(c)'
      BY DEF Atomic
    <2>1. c \in Batches
      BY <1>2, <1>6 DEF RootsIn
    <2>2. CASE leaf[l].root = c
      <3>1. Complete(c)
        BY <2>2 DEF LeafInv, Atomic
      <3> QED BY <1>9, <2>1, <3>1
    <2>3. CASE leaf[l].root # c
      <3>1. c = b
        BY <1>3, <2>3
      <3>2. \A i \in 1..Len(e) :
              leaf'[e[i]] = [stored |-> TRUE, root |-> b, index |-> i]
        <4> SUFFICES ASSUME NEW i \in 1..Len(e)
                     PROVE  leaf'[e[i]] = [stored |-> TRUE, root |-> b, index |-> i]
          OBVIOUS
        <4>1. n = Len(e)
          BY DEF LinkTo
        <4>2. CASE i \in m..n
          BY <1>3, <4>2
        <4>3. CASE i \notin m..n
          <5>1. i \in 1..flushes[b].linked
            BY <1>1, <4>1, <4>3
          <5>2. leaf[e[i]].root = b /\ leaf[e[i]].index = i
            BY <5>1 DEF LeafInv, LinkedSo
          <5>3. leaf[e[i]].stored /\ leaf[e[i]] \in Leaves
            BY <1>1, <1>3 DEF Typed
          <5>4. leaf[e[i]] = [stored |-> TRUE, root |-> b, index |-> i]
            BY <5>2, <5>3 DEF Leaves
          <5> QED BY <1>3, <4>3, <5>4
        <4> QED BY <4>2, <4>3
      <3>3. \A k \in Logs : leaf'[k].root = b => k \in Elements(e)
        <4> SUFFICES ASSUME NEW k \in Logs, leaf'[k].root = b PROVE k \in Elements(e)
          OBVIOUS
        <4>1. b # 0
          BY DEF Batches, Typed
        <4> QED BY <1>2, <1>6, <4>1 DEF RootsIn, Entries
      <3>4. flushes'[b].entries = e
        BY <1>2
      <3>5. Complete(b)'
        BY <3>2, <3>3, <3>4 DEF Complete, SiblingsAre
      <3> QED BY <3>1, <3>5
    <2> QED BY <2>2, <2>3
  <1> QED BY <1>4, <1>6, <1>7, <1>8, <1>10, <1>11 DEF LeafInv


\* A new flush has linked nothing and has all its leaves to store.
LEMMA LeafStarts ==
  ASSUME Typed, LeafInv, NEW e, Starts(e), leaf' = leaf
  PROVE  LeafInv' /\ LeafGrows
  <1>1. /\ \A b \in Batches : flushes'[b] = flushes[b]
        /\ Batches' = Batches \cup {Len(flushes) + 1} /\ Len(flushes) + 1 \notin Batches
        /\ flushes'[Len(flushes) + 1] = NewFlush(e)
    BY StartShape
  <1>2. PICK n, f : n = Len(flushes) + 1 /\ f = flushes'[n]
    OBVIOUS
  <1>3. /\ f.pc = "insert" /\ f.entries = e /\ f.todo = Elements(e) /\ f.linked = 0
        /\ e # <<>>
    BY <1>1, <1>2 DEF NewFlush, Starts
  <1>4. \A b \in Batches' : \/ b \in Batches /\ flushes'[b] = flushes[b]
                            \/ b = n /\ flushes'[b] = f
    BY <1>1, <1>2
  <1>5. \A b \in Batches : Entries(b)' = Entries(b) /\ flushes'[b] = flushes[b]
    BY <1>1 DEF Entries
  <1>6. StoredBut'
    BY <1>3, <1>4, <1>5 DEF LeafInv, StoredBut, At, Entries
  <1>7. RootsIn'
    BY <1>1, <1>5 DEF LeafInv, RootsIn
  <1>8. LinkedSo'
    BY <1>3, <1>4, <1>5 DEF LeafInv, LinkedSo
  <1>9. Progress'
    BY <1>3, <1>4, <1>5 DEF LeafInv, Progress, At
  <1>10. \A b \in Batches : Complete(b) => Complete(b)'
    BY <1>5 DEF Complete, SiblingsAre
  <1>11. Atomic'
    BY <1>10 DEF LeafInv, Atomic, RootsIn
  <1> QED BY <1>1, <1>6, <1>7, <1>8, <1>9, <1>10, <1>11 DEF LeafInv, LeafGrows

\* The step of one flush.
LEMMA LeafFlushes ==
  ASSUME Typed, PlaceInv, LeafInv, NEW b \in Batches, FlushStep(b)
  PROVE  LeafInv' /\ LeafGrows
  <1>1. leaf \in [Logs -> Leaves]
    BY DEF Typed
  <1>2. ASSUME NEW r, Moves(b, r), r.linked = flushes[b].linked,
               r.todo \subseteq flushes[b].todo,
               r.pc # "done" =>
                 /\ ~ At(b, "done")
                 /\ \A l \in flushes[b].todo : l \in r.todo \/ leaf'[l].stored
                 /\ \/ r.pc = flushes[b].pc
                    \/ At(b, "insert") /\ r.pc = "record" /\ r.todo = {}
                    \/ At(b, "record") /\ r.pc = "link"
                    \/ At(b, "anchor") /\ r.pc = "status",
               leaf' \in [Logs -> Leaves],
               \A l \in Logs : /\ leaf[l].stored => leaf'[l].stored
                               /\ leaf'[l].root = leaf[l].root
                               /\ leaf'[l].index = leaf[l].index
        PROVE  LeafInv' /\ LeafGrows
    <2>1. /\ Batches' = Batches /\ flushes'[b] = r
          /\ \A c \in Batches : c # b => flushes'[c] = flushes[c]
          /\ \A c \in Batches : flushes'[c].entries = flushes[c].entries
      BY <1>2, MoveShape
    <2>2. \A c \in Batches : /\ flushes'[c].linked = flushes[c].linked
                             /\ flushes'[c].todo \subseteq flushes[c].todo
      BY <1>2, <2>1
    <2>3. \A c \in Batches : flushes'[c].pc # "done" =>
            /\ ~ At(c, "done")
            /\ \A l \in flushes[c].todo : l \in flushes'[c].todo \/ leaf'[l].stored
            /\ \/ flushes'[c].pc = flushes[c].pc
               \/ At(c, "insert") /\ flushes'[c].pc = "record" /\ flushes'[c].todo = {}
               \/ At(c, "record") /\ flushes'[c].pc = "link"
               \/ At(c, "anchor") /\ flushes'[c].pc = "status"
      BY <1>2, <2>1 DEF At
    <2> QED BY <1>2, <2>1, <2>2, <2>3, NoLink
  <1>3. CASE leaf' = leaf /\ \E r : /\ Moves(b, r) /\ r.todo = flushes[b].todo
                                    /\ r.linked = flushes[b].linked
                                    /\ \/ r.pc = "done"
                                       \/ At(b, "record") /\ r.pc = "link"
                                       \/ At(b, "anchor") /\ r.pc = "status"
    BY <1>1, <1>2, <1>3 DEF At
  <1>4. CASE InsertBatchRecord(b)
    <2>1. leaf' = leaf
      BY <1>4 DEF InsertBatchRecord
    <2> QED BY <1>3, <1>4, <2>1, RecordEffect
  <1>5. CASE AnchorWriteBatch(b)
    <2>1. leaf' = leaf
      BY <1>5 DEF AnchorWriteBatch, tables
    <2> QED BY <1>3, <1>5, <2>1, AnchorEffect
  <1>6. CASE UpdateBatchAnchorStatus(b)
    <2>1. leaf' = leaf
      BY <1>6 DEF UpdateBatchAnchorStatus
    <2> QED BY <1>3, <1>6, <2>1, StatusEffect
  <1>7. CASE LinkBatchLeaves(b)
    <2>1. PICK r : /\ Moves(b, r) /\ At(b, "link") /\ r.todo = flushes[b].todo
                   /\ \/ /\ leaf' = Linked(b, flushes[b].linked + 1, LinkTo(b))
                         /\ r.linked = LinkTo(b)
                         /\ r.pc = IF LinkTo(b) = Len(flushes[b].entries)
                                   THEN "anchor" ELSE "link"
                      \/ /\ leaf' \in {leaf, Linked(b, flushes[b].linked + 1, LinkTo(b))}
                         /\ r.linked = flushes[b].linked /\ r.pc = "done"
      BY <1>7, LinkEffect
    <2>2. CASE leaf' = leaf /\ r.linked = flushes[b].linked /\ r.pc = "done"
      BY <1>3, <2>1, <2>2
    <2>3. CASE leaf' = Linked(b, flushes[b].linked + 1, LinkTo(b))
      <3>1. \/ /\ r.linked = LinkTo(b)
               /\ r.pc = IF LinkTo(b) = Len(flushes[b].entries) THEN "anchor" ELSE "link"
            \/ r.linked = flushes[b].linked /\ r.pc = "done"
        BY <2>1
      <3> QED BY <2>1, <2>3, <3>1, LinkStep
    <2> QED BY <2>1, <2>2, <2>3
  <1>8. CASE \E l \in Logs : InsertBatched(b, l)
    <2>1. PICK l \in Logs : InsertBatched(b, l)
      BY <1>8
    <2>2. PICK r : /\ Moves(b, r) /\ Tells(b, r) /\ l \in flushes[b].todo
                   /\ r.todo = flushes[b].todo \ {l} /\ r.linked = flushes[b].linked
                   /\ \/ r.pc = "done"
                      \/ r.pc = flushes[b].pc
                      \/ At(b, "insert") /\ r.pc = "record" /\ r.todo = {}
                   /\ leaf' \in {leaf, [leaf EXCEPT ![l].stored = TRUE]}
                   /\ r.pc # "done" => leaf' = [leaf EXCEPT ![l].stored = TRUE]
      BY <2>1, InsertEffect
    <2>3. PICK new : new = [leaf[l] EXCEPT !.stored = TRUE]
      OBVIOUS
    <2>4. leaf[l] \in Leaves
      BY <1>1
    <2>5. /\ new \in Leaves /\ new.stored /\ new.root = leaf[l].root
          /\ new.index = leaf[l].index
      BY <2>3, <2>4 DEF Leaves
    <2>6. PICK after : after = [leaf EXCEPT ![l].stored = TRUE]
      OBVIOUS
    <2>7. /\ after \in [Logs -> Leaves] /\ after[l] = new
          /\ \A k \in Logs : k # l => after[k] = leaf[k]
      BY <1>1, <2>3, <2>5, <2>6
    <2>8. leaf' \in {leaf, after} /\ (r.pc # "done" => leaf' = after)
      BY <2>2, <2>6
    <2>9. \A k \in Logs : /\ leaf[k].stored => after[k].stored
                          /\ after[k].root = leaf[k].root /\ after[k].index = leaf[k].index
      BY <2>5, <2>7
    <2>10. /\ leaf' \in [Logs -> Leaves]
           /\ \A k \in Logs : /\ leaf[k].stored => leaf'[k].stored
                              /\ leaf'[k].root = leaf[k].root /\ leaf'[k].index = leaf[k].index
      <3>1. CASE leaf' = leaf
        BY <1>1, <3>1
      <3>2. CASE leaf' = after
        BY <2>7, <2>9, <3>2
      <3> QED BY <2>8, <3>1, <3>2
    <2>11. r.pc # "done" => leaf'[l].stored
      BY <2>5, <2>7, <2>8
    <2>12. r.pc # "done" =>
            /\ ~ At(b, "done")
            /\ \A k \in flushes[b].todo : k \in r.todo \/ leaf'[k].stored
            /\ \/ r.pc = flushes[b].pc
               \/ At(b, "insert") /\ r.pc = "record" /\ r.todo = {}
      BY <2>2, <2>11 DEF At
    <2> QED BY <1>2, <2>2, <2>10, <2>12
  <1> QED BY <1>4, <1>5, <1>6, <1>7, <1>8 DEF FlushStep

LEMMA LeafStep == Typed /\ PlaceInv /\ LeafInv /\ [Next]_vars => LeafInv' /\ LeafGrows
  <1> SUFFICES ASSUME Typed, PlaceInv, LeafInv, [Next]_vars PROVE LeafInv' /\ LeafGrows
    OBVIOUS
  <1>1. leaf \in [Logs -> Leaves]
    BY DEF Typed
  <1>2. CASE UNCHANGED <<flushes, leaf>>
    <2>1. Batches' = Batches
      BY <1>2 DEF Batches
    <2> QED BY <1>1, <1>2, <2>1, NoLink DEF At
  <1>3. CASE NoFlush \/ UNCHANGED vars
    BY <1>2, <1>3, NoFlushStays
  <1>4. CASE \E l \in Logs : Write(l)
    BY <1>2, <1>4, WriteEffect, LeafStarts
  <1>5. CASE TimerFires
    BY <1>2, <1>5, TimerEffect, LeafStarts
  <1>6. CASE Crash
    <2>1. leaf' = leaf
      BY <1>6 DEF Crash, tables
    <2> QED BY <1>1, <1>6, <2>1, CrashShape, NoLink
  <1>7. CASE \E b \in Batches : FlushStep(b)
    BY <1>7, LeafFlushes
  <1> QED BY <1>3, <1>4, <1>5, <1>6, <1>7, Idles

LEMMA LeafAlways == Spec => [](Typed /\ LeafInv)
  <1>1. Init => LeafInv
    <2> SUFFICES ASSUME Init PROVE LeafInv
      OBVIOUS
    <2>1. Batches = {} /\ \A l \in Logs : leaf[l].root = 0
      BY DEF Init, Batches, NoLeaf
    <2> QED BY <2>1 DEF LeafInv, StoredBut, RootsIn, LinkedSo, Progress, Atomic
  <1> QED BY <1>1, LeafStep, TypedAlways, PlaceAlways, PTL DEF Spec


-----------------------------------------------------------------------------
(***************************************************************************)
(* What is sent to the chain.  A root goes out only when its record and    *)
(* all its leaves are stored, and neither is ever taken back.              *)
(***************************************************************************)
SentInv ==
  \A b \in Batches :
    /\ txs[b] # "none" => batches[b] # "absent" /\ Complete(b)
    /\ flushes[b].pc \in {"link", "anchor", "status"} => batches[b] # "absent"
    /\ flushes[b].ok => txs[b] # "none"

\* A flush that has linked its leaves has them all in the database.
LEMMA LinkedWhole ==
  ASSUME Typed, LeafInv, NEW b \in Batches, flushes[b].pc \in {"anchor", "status"}
  PROVE  Complete(b)
  <1>1. PICK e : e = flushes[b].entries
    OBVIOUS
  <1>2. /\ e \in Seq(Logs) /\ Len(e) \in Nat
        /\ \A i \in 1..Len(e) : e[i] \in Logs /\ e[i] \in Entries(b)
    <2>1. flushes[b] \in FlushRecords
      BY DEF Typed, Batches
    <2>2. e \in Seq(Logs)
      BY <1>1, <2>1, RecordFields
    <2> QED BY <1>1, <2>2 DEF Entries, Elements
  <1>3. flushes[b].linked = Len(e) /\ flushes[b].todo = {} /\ ~ At(b, "done")
    BY <1>1 DEF LeafInv, Progress, StoredBut, At
  <1>4. ASSUME NEW i \in 1..Len(e) PROVE leaf[e[i]] = [stored |-> TRUE, root |-> b, index |-> i]
    <2>1. leaf[e[i]].stored /\ leaf[e[i]] \in Leaves
      BY <1>2, <1>3 DEF LeafInv, StoredBut, Typed
    <2>2. leaf[e[i]].root = b /\ leaf[e[i]].index = i
      BY <1>1, <1>3 DEF LeafInv, LinkedSo
    <2> QED BY <2>1, <2>2 DEF Leaves
  <1>5. \A l \in Logs : leaf[l].root = b => l \in Elements(e)
    <2>1. b # 0
      BY DEF Batches, Typed
    <2> QED BY <1>1, <2>1 DEF LeafInv, RootsIn, Entries
  <1> QED BY <1>1, <1>4, <1>5 DEF Complete, SiblingsAre

LEMMA RecordsGrow ==
  ASSUME Typed, [Next]_vars, NEW b \in Batches
  PROVE  /\ batches[b] # "absent" => batches'[b] # "absent"
         /\ txs[b] # "none" => txs'[b] # "none"
  <1>1. CASE \E e : Starts(e)
    BY <1>1, StartShape
  <1>2. CASE ~ \E e : Starts(e)
    <2>1. /\ batches \in Seq(Status) /\ b \in 1..Len(batches)
          /\ txs \in Seq(TxStates \cup {"none"}) /\ b \in 1..Len(txs)
      BY DEF Typed, Batches, Status
    <2>2. batches[b] # "absent" => batches'[b] # "absent"
      BY <1>2, <2>1, RecordsMove
    <2>3. "none" \notin TxStates
      BY DEF TxStates
    <2>4. txs[b] # "none" => txs'[b] # "none"
      BY <1>2, <2>1, <2>3, RecordsMove
    <2> QED BY <2>2, <2>4
  <1> QED BY <1>1, <1>2

\* A step that starts no flush and sends no root but a complete batch's.
LEMMA SentKept ==
  ASSUME Typed, SentInv, [Next]_vars, LeafGrows, Batches' = Batches,
         \A b \in Batches :
           /\ txs[b] = "none" /\ txs'[b] # "none" =>
                flushes[b].pc = "anchor" /\ Complete(b)
           /\ flushes'[b].pc \in {"link", "anchor", "status"} =>
                flushes[b].pc \in {"link", "anchor", "status"} \/ batches'[b] # "absent"
           /\ flushes'[b].ok => flushes[b].ok \/ txs'[b] # "none"
  PROVE  SentInv'
  <1> SUFFICES ASSUME NEW b \in Batches
               PROVE  /\ txs'[b] # "none" => batches'[b] # "absent" /\ Complete(b)'
                      /\ flushes'[b].pc \in {"link", "anchor", "status"} =>
                           batches'[b] # "absent"
                      /\ flushes'[b].ok => txs'[b] # "none"
    BY DEF SentInv
  <1>1. /\ batches[b] # "absent" => batches'[b] # "absent"
        /\ txs[b] # "none" => txs'[b] # "none"
    BY RecordsGrow
  <1>2. Complete(b) => Complete(b)'
    BY DEF LeafGrows
  <1> QED BY <1>1, <1>2 DEF SentInv

LEMMA SentStarts ==
  ASSUME Typed, SentInv, [Next]_vars, LeafGrows, NEW e, Starts(e)
  PROVE  SentInv'
  <1>1. /\ \A b \in Batches : /\ flushes'[b] = flushes[b]
                              /\ batches'[b] = batches[b] /\ txs'[b] = txs[b]
        /\ Batches' = Batches \cup {Len(flushes) + 1}
        /\ flushes'[Len(flushes) + 1] = NewFlush(e) /\ txs'[Len(flushes) + 1] = "none"
    BY StartShape
  <1>2. PICK n : n = Len(flushes) + 1
    OBVIOUS
  <1>3. flushes'[n].pc = "insert" /\ flushes'[n].ok = FALSE /\ txs'[n] = "none"
    BY <1>1, <1>2 DEF NewFlush
  <1>4. \A b \in Batches : Complete(b) => Complete(b)'
    BY DEF LeafGrows
  <1>5. \A b \in Batches' : b \in Batches \/ b = n
    BY <1>1, <1>2
  <1> QED BY <1>1, <1>3, <1>4, <1>5 DEF SentInv

LEMMA SentFlushes ==
  ASSUME Typed, LeafInv, SentInv, [Next]_vars, LeafGrows, NEW b \in Batches, FlushStep(b)
  PROVE  SentInv'
  <1>1. txs \in Seq(TxStates \cup {"none"}) /\ b \in 1..Len(txs)
    BY DEF Typed, Batches
  <1>2. ASSUME NEW r, Moves(b, r),
               r.pc \in {"link", "anchor", "status"} =>
                 flushes[b].pc \in {"link", "anchor", "status"} \/ batches'[b] # "absent",
               r.ok => flushes[b].ok \/ txs'[b] # "none",
               txs' = txs \/ (At(b, "anchor") /\ txs' = [txs EXCEPT ![b] = "pool"])
        PROVE  SentInv'
    <2>1. /\ Batches' = Batches /\ flushes'[b] = r
          /\ \A c \in Batches : c # b => flushes'[c] = flushes[c]
      BY <1>2, MoveShape
    <2>2. At(b, "anchor") => Complete(b)
      BY LinkedWhole DEF At
    <2>3. \A c \in Batches : txs[c] = "none" /\ txs'[c] # "none" =>
            flushes[c].pc = "anchor" /\ Complete(c)
      BY <1>2, <1>1, <2>2 DEF At, Typed, Batches
    <2>4. \A c \in Batches :
            /\ flushes'[c].pc \in {"link", "anchor", "status"} =>
                 flushes[c].pc \in {"link", "anchor", "status"} \/ batches'[c] # "absent"
            /\ flushes'[c].ok => flushes[c].ok \/ txs'[c] # "none"
      BY <1>2, <2>1
    <2> QED BY <2>1, <2>3, <2>4, SentKept
  <1>3. batches \in Seq(Status) /\ b \in 1..Len(batches)
    BY DEF Typed, Batches, Status
  <1>4. CASE \E l \in Logs : InsertBatched(b, l)
    <2>1. PICK l \in Logs : InsertBatched(b, l)
      BY <1>4
    <2>2. PICK r : /\ Moves(b, r) /\ r.ok = flushes[b].ok
                   /\ r.pc \in {"done", "record", flushes[b].pc}
      BY <2>1, InsertEffect
    <2>3. txs' = txs
      BY <2>1 DEF InsertBatched
    <2> QED BY <1>2, <2>2, <2>3
  <1>5. CASE InsertBatchRecord(b)
    <2>1. PICK r : /\ Moves(b, r) /\ r.ok = flushes[b].ok
                   /\ \/ r.pc = "link" /\ batches' = [batches EXCEPT ![b] = "pending"]
                      \/ r.pc = "done"
      BY <1>5, RecordEffect
    <2>2. txs' = txs
      BY <1>5 DEF InsertBatchRecord
    <2>3. r.pc = "link" => batches'[b] = "pending"
      BY <1>3, <2>1
    <2> QED BY <1>2, <2>1, <2>2, <2>3
  <1>6. CASE LinkBatchLeaves(b)
    <2>1. PICK r : Moves(b, r) /\ r.ok = flushes[b].ok /\ At(b, "link")
      BY <1>6, LinkEffect
    <2>2. txs' = txs
      BY <1>6 DEF LinkBatchLeaves
    <2> QED BY <1>2, <2>1, <2>2 DEF At
  <1>7. CASE AnchorWriteBatch(b)
    <2>1. PICK r : /\ Moves(b, r) /\ At(b, "anchor")
                   /\ txs' \in {txs, [txs EXCEPT ![b] = "pool"]}
                   /\ r.ok => txs' = [txs EXCEPT ![b] = "pool"]
      BY <1>7, AnchorEffect
    <2>2. r.ok => txs'[b] = "pool"
      BY <1>1, <2>1
    <2> QED BY <1>2, <2>1, <2>2 DEF At
  <1>8. CASE UpdateBatchAnchorStatus(b)
    <2>1. PICK r : Moves(b, r) /\ r.ok = flushes[b].ok /\ r.pc = "done"
      BY <1>8, StatusEffect
    <2>2. txs' = txs
      BY <1>8 DEF UpdateBatchAnchorStatus
    <2> QED BY <1>2, <2>1, <2>2
  <1> QED BY <1>4, <1>5, <1>6, <1>7, <1>8 DEF FlushStep

LEMMA SentStep == Typed /\ LeafInv /\ SentInv /\ LeafGrows /\ [Next]_vars => SentInv'
  <1> SUFFICES ASSUME Typed, LeafInv, SentInv, LeafGrows, [Next]_vars PROVE SentInv'
    OBVIOUS
  <1>1. CASE UNCHANGED <<flushes, txs>>
    <2>1. Batches' = Batches
      BY <1>1 DEF Batches
    <2> QED BY <1>1, <2>1, SentKept
  <1>2. CASE \E b \in Batches : ChainStep(b)
    <2>1. PICK b \in Batches : ChainStep(b)
      BY <1>2
    <2>2. ASSUME NEW to, TxMoves(b, {"pool"}, to) \/ TxMoves(b, {"included", "reverted"}, to)
          PROVE  txs[b] # "none" /\ flushes' = flushes /\ txs' = [txs EXCEPT ![b] = to]
      BY <2>2 DEF TxMoves
    <2>3. txs[b] # "none" /\ flushes' = flushes /\ \E to : txs' = [txs EXCEPT ![b] = to]
      BY <2>1, <2>2 DEF ChainStep, Include, Finalize, Reorg, DropTx
    <2>4. Batches' = Batches
      BY <2>3 DEF Batches
    <2>5. \A c \in Batches : txs[c] = "none" => txs'[c] = "none"
      BY <2>3 DEF Typed, Batches
    <2> QED BY <2>3, <2>4, <2>5, SentKept
  <1>3. CASE (NoFlush /\ ~ \E b \in Batches : ChainStep(b)) \/ UNCHANGED vars
    BY <1>1, <1>3 DEF NoFlush, ReadLeaf, ConfirmHandler, TakeConfirm, PollBatch,
       ConfirmBatch, AckConfirm,
       ReadSiblings, Disconnect, Restart, vars
  <1>4. CASE \E l \in Logs : Write(l)
    BY <1>1, <1>4, WriteEffect, SentStarts
  <1>5. CASE TimerFires
    BY <1>1, <1>5, TimerEffect, SentStarts
  <1>6. CASE Crash
    <2>1. txs' = txs
      BY <1>6 DEF Crash
    <2> QED BY <1>6, <2>1, CrashShape, SentKept
  <1>7. CASE \E b \in Batches : FlushStep(b)
    BY <1>7, SentFlushes
  <1> QED BY <1>2, <1>3, <1>4, <1>5, <1>6, <1>7, Idles

LEMMA SentAlways == Spec => [](Typed /\ PlaceInv /\ LeafInv /\ SentInv)
  <1>1. Init => SentInv
    BY DEF Init, SentInv, Batches
  <1> QED BY <1>1, LeafStep, SentStep, TypedAlways, PlaceAlways, LeafAlways, PTL DEF Spec

\* A Merkle root is sent only after its record and every leaf under it are
\* stored and linked, and nothing that happens to them later undoes it: the
\* database can always rebuild what the chain committed to.
THEOREM ChainNeverAhead == Spec => []AnchoredBatchComplete
  <1>1. SentInv => AnchoredBatchComplete
    BY DEF SentInv, AnchoredBatchComplete, Complete
  <1> QED BY <1>1, SentAlways, PTL


-----------------------------------------------------------------------------
(***************************************************************************)
(* What callers and readers are told.                                      *)
(***************************************************************************)
Told ==
  \A l \in Logs : call[l] = "stored" =>
    \E b \in Batches : l \in Entries(b) /\ txs[b] # "none"

\* Who is told of success, and that entries stay in their batch.
LEMMA Tellings ==
  ASSUME Typed, [Next]_vars
  PROVE  /\ \A b \in Batches : b \in Batches' /\ Entries(b)' = Entries(b)
         /\ \A l \in Logs : call'[l] = "stored" =>
              \/ call[l] = "stored"
              \/ \E b \in Batches : l \in Entries(b) /\ flushes[b].ok
  <1>1. CASE UNCHANGED <<call, flushes>>
    BY <1>1 DEF Batches, Entries
  <1>2. CASE NoFlush \/ UNCHANGED vars
    BY <1>1, <1>2, NoFlushStays
  <1>3. ASSUME NEW e, Starts(e)
        PROVE  \A b \in Batches : b \in Batches' /\ Entries(b)' = Entries(b)
    BY <1>3, StartShape DEF Entries
  <1>4. CASE \E l \in Logs : Write(l)
    <2>1. \A b \in Batches : b \in Batches' /\ Entries(b)' = Entries(b)
      BY <1>3, <1>4, WriteEffect DEF Batches, Entries
    <2>2. \A l \in Logs : call'[l] = "stored" => call[l] = "stored"
      BY <1>4, WriteEffect DEF Typed
    <2> QED BY <2>1, <2>2
  <1>5. CASE TimerFires
    <2>1. \A b \in Batches : b \in Batches' /\ Entries(b)' = Entries(b)
      BY <1>3, <1>5, TimerEffect DEF Batches, Entries
    <2>2. call' = call
      BY <1>5, TimerEffect
    <2> QED BY <2>1, <2>2
  <1>6. CASE Crash
    <2>1. \A l \in Logs : call'[l] = "stored" => call[l] = "stored"
      BY <1>6 DEF Crash
    <2> QED BY <1>6, <2>1, CrashShape
  <1>7. CASE \E b \in Batches : FlushStep(b)
    <2>1. PICK b \in Batches : FlushStep(b)
      BY <1>7
    <2>2. PICK r : Moves(b, r) /\ Tells(b, r)
      BY <2>1, FlushMoves
    <2>3. Batches' = Batches /\ \A c \in Batches : Entries(c)' = Entries(c)
      BY <2>2, MoveShape
    <2>4. \A l \in Logs : call'[l] = "stored" =>
            call[l] = "stored" \/ (l \in Entries(b) /\ flushes[b].ok)
      BY <2>2, ResolvedType DEF Tells
    <2> QED BY <2>3, <2>4
  <1> QED BY <1>2, <1>4, <1>5, <1>6, <1>7, Idles

LEMMA ToldAlways == Spec => []Told
  <1>1. Init => Told
    BY DEF Init, Told
  <1>2. Typed /\ SentInv /\ Told /\ [Next]_vars => Told'
    <2> SUFFICES ASSUME Typed, SentInv, Told, [Next]_vars,
                        NEW l \in Logs, call'[l] = "stored"
                 PROVE  \E b \in Batches' : l \in Entries(b)' /\ txs'[b] # "none"
      BY DEF Told
    <2>1. PICK b \in Batches : l \in Entries(b) /\ txs[b] # "none"
      <3>1. CASE call[l] = "stored"
        BY <3>1 DEF Told
      <3>2. CASE \E b \in Batches : l \in Entries(b) /\ flushes[b].ok
        BY <3>2 DEF SentInv
      <3> QED BY <3>1, <3>2, Tellings
    <2>2. b \in Batches' /\ Entries(b)' = Entries(b) /\ txs'[b] # "none"
      BY <2>1, Tellings, RecordsGrow
    <2> QED BY <2>1, <2>2
  <1> QED BY <1>1, <1>2, SentAlways, PTL DEF Spec

\* No caller is told of success for an entry whose batch was not sent.
LEMMA SuccessIsSent == Spec => []StoredIsSubmitted
  <1>1. Typed /\ SentInv /\ Told => StoredIsSubmitted
    <2> SUFFICES ASSUME Typed, SentInv, Told, NEW l \in Logs, call[l] = "stored"
                 PROVE  /\ leaf[l].stored /\ leaf[l].root \in Batches
                        /\ txs[leaf[l].root] # "none"
      BY DEF StoredIsSubmitted
    <2>1. PICK b \in Batches : l \in Entries(b) /\ txs[b] # "none"
      BY DEF Told
    <2>2. PICK i \in 1..Len(flushes[b].entries) : l = flushes[b].entries[i]
      BY <2>1 DEF Entries, Elements
    <2>3. leaf[l] = [stored |-> TRUE, root |-> b, index |-> i]
      BY <2>1, <2>2 DEF SentInv, Complete, SiblingsAre
    <2>4. leaf[l].stored /\ leaf[l].root = b
      BY <2>3
    <2> QED BY <2>1, <2>4
  <1> QED BY <1>1, SentAlways, ToldAlways, PTL

Readers == [pc : {"idle", "siblings", "answered"}, root : Nat, match : BOOLEAN]
ReaderInv ==
  /\ reader \in Readers
  /\ reader.pc = "siblings" => reader.root \in Batches /\ Complete(reader.root)
  /\ reader.pc = "answered" => reader.match

LEMMA ReaderStep ==
  ASSUME DB = "postgres", Typed, LeafInv, ReaderInv, LeafGrows, [Next]_vars
  PROVE  ReaderInv'
  <1>1. CASE reader' = reader
    BY <1>1 DEF ReaderInv, LeafGrows
  <1>2. CASE \E l \in Logs : ReadLeaf(l)
    <2>1. PICK l \in Logs : ReadLeaf(l)
      BY <1>2
    <2>2. PICK b \in Batches : b = leaf[l].root /\ Complete(b)
      BY <2>1 DEF ReadLeaf, LeafInv, RootsIn, Atomic
    <2>3. b \in Nat
      BY DEF Batches, Typed
    <2>4. reader' = [pc |-> "siblings", root |-> b, match |-> TRUE]
      BY <2>1, <2>2 DEF ReadLeaf
    <2>5. reader' \in Readers /\ reader'.pc = "siblings" /\ reader'.root = b
      BY <2>3, <2>4 DEF Readers
    <2>6. b \in Batches' /\ Complete(b)'
      BY <2>2 DEF LeafGrows
    <2>7. \A c \in Batches' : c = b => Complete(c)'
      BY <2>6
    <2>8. reader'.root \in Batches' /\ Complete(reader.root)'
      BY <2>5, <2>6, <2>7
    <2> QED BY <2>5, <2>8 DEF ReaderInv
  <1>3. CASE ReadSiblings
    <2>1. PICK ok : ok = SiblingsAre(reader.root, flushes[reader.root].entries)
      OBVIOUS
    <2>2. reader' = [reader EXCEPT !.pc = "answered", !.match = ok]
      BY <1>3, <2>1 DEF ReadSiblings
    <2>3. ok = TRUE
      BY <1>3, <2>1, Zenon DEF ReadSiblings, ReaderInv, Complete
    <2>4. reader' \in Readers /\ reader'.pc = "answered" /\ reader'.match
      BY <2>2, <2>3 DEF ReaderInv, Readers
    <2> QED BY <2>4 DEF ReaderInv
  <1>4. CASE Crash
    <2>1. reader' = [reader EXCEPT !.pc = "idle"]
      BY <1>4 DEF Crash
    <2>2. reader' \in Readers /\ reader'.pc = "idle"
      BY <2>1 DEF ReaderInv, Readers
    <2> QED BY <2>2 DEF ReaderInv
  <1>5. CASE \E b \in Batches : FlushStep(b)
    BY <1>1, <1>5, FlushMoves
  <1>6. CASE (\E l \in Logs : Write(l)) \/ TimerFires
    BY <1>1, <1>6, WriteEffect, TimerEffect
  <1>7. CASE /\ NoFlush \/ UNCHANGED vars
             /\ ~ ReadSiblings /\ ~ \E l \in Logs : ReadLeaf(l)
    BY <1>1, <1>7 DEF NoFlush, ChainStep, Include, Finalize, Reorg, DropTx, TxMoves,
       ConfirmHandler, TakeConfirm, PollBatch,
       ConfirmBatch, AckConfirm,
       Disconnect, Restart, vars, callers
  <1> QED BY <1>2, <1>3, <1>4, <1>5, <1>6, <1>7, Idles

\* On PostgreSQL, whose links of a batch appear together, a verification that
\* reads the leaf and then its siblings finds the batch whole, whatever is
\* written between the two reads; on MongoDB it may find the links half made.
THEOREM PostgresVerifiesTruly ==
  ASSUME DB = "postgres"
  PROVE  Spec => []VerifyNeverFalse
  <1>1. Init => ReaderInv
    <2> SUFFICES ASSUME Init PROVE ReaderInv
      OBVIOUS
    <2>1. reader = [pc |-> "idle", root |-> 0, match |-> TRUE]
      BY DEF Init
    <2>2. reader \in Readers /\ reader.pc = "idle"
      BY <2>1 DEF Readers
    <2> QED BY <2>2 DEF ReaderInv
  <1>2. Typed /\ PlaceInv /\ LeafInv /\ ReaderInv /\ [Next]_vars => ReaderInv'
    BY LeafStep, ReaderStep
  <1>3. ReaderInv => VerifyNeverFalse
    BY DEF ReaderInv, VerifyNeverFalse
  <1> QED BY <1>1, <1>2, <1>3, SentAlways, PTL DEF Spec


-----------------------------------------------------------------------------
(***************************************************************************)
(* The lifecycle of a batch record.                                        *)
(***************************************************************************)
\* A flush fits the status of its record and the state of its transaction.
Fit(f, status, tx) ==
  /\ f.entries # <<>>
  /\ f.pc \in {"insert", "record"} => status = "absent"
  /\ f.pc \in {"link", "anchor", "status"} => status = "pending"
  /\ f.pc \in {"insert", "record", "link", "anchor"} => tx = "none"
  /\ chainFor(Strategy) = "exonum" => tx \in {"none", "pool", "recorded"}
RowsFit == \A b \in Batches : Fit(flushes[b], batches[b], txs[b])

\* A batch is handed to the confirm queue once, when its flush has ended.
QueueFits ==
  /\ Once(confirmQ)
  /\ \A b \in Elements(confirmQ) : At(b, "done")

LifeInv == RowsFit /\ QueueFits

\* What is left of a queue whose head is taken, or whose end is lost.
LEMMA Remains ==
  ASSUME NEW s \in Seq(Nat), Once(s)
  PROVE  /\ s # <<>> => /\ Once(Tail(s)) /\ Head(s) \in Elements(s)
                        /\ Elements(Tail(s)) \subseteq Elements(s) \ {Head(s)}
         /\ \A n \in 0..Len(s) : /\ Once(SubSeq(s, 1, n))
                                 /\ Elements(SubSeq(s, 1, n)) \subseteq Elements(s)
  <1>1. ASSUME s # <<>>
        PROVE  /\ Once(Tail(s)) /\ Head(s) \in Elements(s)
               /\ Elements(Tail(s)) \subseteq Elements(s) \ {Head(s)}
    <2>1. PICK t : t = Tail(s)
      OBVIOUS
    <2>2. /\ Len(s) \in Nat \ {0} /\ Len(t) = Len(s) - 1 /\ Head(s) = s[1]
          /\ \A i \in 1..Len(t) : t[i] = s[i + 1] /\ i + 1 \in 1..Len(s) /\ i + 1 # 1
      BY <1>1, <2>1
    <2>3. Once(t)
      <3> SUFFICES ASSUME NEW i \in 1..Len(t), NEW j \in 1..Len(t), t[i] = t[j] PROVE i = j
        BY DEF Once
      <3>1. s[i + 1] = s[j + 1] /\ i + 1 \in 1..Len(s) /\ j + 1 \in 1..Len(s)
        BY <2>2
      <3>2. i + 1 = j + 1
        BY <3>1 DEF Once
      <3> QED BY <2>2, <3>2
    <2>4. Head(s) \in Elements(s)
      BY <2>2 DEF Elements
    <2>5. ASSUME NEW x \in Elements(t) PROVE x \in Elements(s) /\ x # Head(s)
      <3>1. PICK i \in 1..Len(t) : x = t[i]
        BY DEF Elements
      <3>2. x = s[i + 1] /\ i + 1 \in 1..Len(s) /\ i + 1 # 1 /\ 1 \in 1..Len(s)
        BY <2>2, <3>1
      <3>3. s[i + 1] # s[1]
        BY <3>2 DEF Once
      <3> QED BY <2>2, <3>2, <3>3 DEF Elements
    <2> QED BY <2>1, <2>3, <2>4, <2>5
  <1>2. ASSUME NEW n \in 0..Len(s)
        PROVE  Once(SubSeq(s, 1, n)) /\ Elements(SubSeq(s, 1, n)) \subseteq Elements(s)
    <2>1. PICK t : t = SubSeq(s, 1, n)
      OBVIOUS
    <2>2. Len(t) = n /\ \A i \in 1..n : t[i] = s[i] /\ i \in 1..Len(s)
      BY <2>1
    <2>3. Once(t)
      BY <2>2 DEF Once
    <2>4. Elements(t) \subseteq Elements(s)
      BY <2>2 DEF Elements
    <2> QED BY <2>1, <2>3, <2>4
  <1> QED BY <1>1, <1>2

\* A step that leaves the queue as it is, or shorter, and ended flushes ended.
LEMMA QueueKept ==
  ASSUME Typed, LifeInv, Batches \subseteq Batches',
         \/ confirmQ' = confirmQ
         \/ \E n \in 0..Len(confirmQ) : confirmQ' = SubSeq(confirmQ, 1, n),
         \A b \in Batches : At(b, "done") => flushes'[b].pc = "done"
  PROVE  QueueFits'
  <1>1. confirmQ \in Seq(Nat) /\ \A b \in Elements(confirmQ) : b \in Batches
    BY DEF Typed, Elements
  <1>2. PICK q : q = confirmQ'
    OBVIOUS
  <1>3. Once(q) /\ Elements(q) \subseteq Elements(confirmQ)
    <2>1. Once(confirmQ)
      BY DEF LifeInv, QueueFits
    <2>2. CASE confirmQ' = confirmQ
      BY <1>2, <2>1, <2>2
    <2>3. CASE \E n \in 0..Len(confirmQ) : confirmQ' = SubSeq(confirmQ, 1, n)
      <3>1. PICK n \in 0..Len(confirmQ) : q = SubSeq(confirmQ, 1, n)
        BY <1>2, <2>3
      <3>2. /\ Once(SubSeq(confirmQ, 1, n))
            /\ Elements(SubSeq(confirmQ, 1, n)) \subseteq Elements(confirmQ)
        BY <1>1, <2>1, Remains
      <3> QED BY <3>1, <3>2
    <2> QED BY <2>2, <2>3
  <1>4. \A b \in Elements(q) : flushes'[b].pc = "done"
    BY <1>1, <1>3 DEF LifeInv, QueueFits
  <1> QED BY <1>2, <1>3, <1>4 DEF QueueFits, At

\* A step that starts no flush.
LEMMA RowsKept ==
  ASSUME RowsFit, Batches' = Batches,
         \A b \in Batches :
           \/ flushes'[b] = flushes[b] /\ batches'[b] = batches[b] /\ txs'[b] = txs[b]
           \/ Fit(flushes'[b], batches'[b], txs'[b])
  PROVE  RowsFit'
  BY DEF RowsFit

LEMMA LifeStarts ==
  ASSUME Typed, LifeInv, NEW e, Starts(e), confirmQ' = confirmQ
  PROVE  LifeInv'
  <1>1. /\ \A b \in Batches : /\ flushes'[b] = flushes[b]
                              /\ batches'[b] = batches[b] /\ txs'[b] = txs[b]
        /\ Batches' = Batches \cup {Len(flushes) + 1}
        /\ flushes'[Len(flushes) + 1] = NewFlush(e)
        /\ batches'[Len(flushes) + 1] = "absent" /\ txs'[Len(flushes) + 1] = "none"
    BY StartShape
  <1>2. PICK n, f : n = Len(flushes) + 1 /\ f = flushes'[n]
    OBVIOUS
  <1>3. f.pc = "insert" /\ f.entries = e /\ e # <<>> /\ batches'[n] = "absent" /\ txs'[n] = "none"
    BY <1>1, <1>2 DEF NewFlush, Starts
  <1>4. Fit(f, batches'[n], txs'[n])
    BY <1>3 DEF Fit
  <1>5. RowsFit'
    <2> SUFFICES ASSUME NEW b \in Batches' PROVE Fit(flushes'[b], batches'[b], txs'[b])
      BY DEF RowsFit
    <2>1. CASE b = n
      BY <1>2, <1>4, <2>1
    <2>2. CASE b \in Batches
      BY <1>1, <2>2 DEF LifeInv, RowsFit
    <2> QED BY <1>1, <1>2, <2>1, <2>2
  <1>6. QueueFits'
    BY <1>1, QueueKept DEF At
  <1> QED BY <1>5, <1>6 DEF LifeInv


\* The step of one flush.
LEMMA LifeFlushes ==
  ASSUME Typed, LifeInv, NEW b \in Batches, FlushStep(b)
  PROVE  LifeInv'
  <1>1. /\ txs \in Seq(TxStates \cup {"none"}) /\ b \in 1..Len(txs)
        /\ batches \in Seq(Status) /\ b \in 1..Len(batches)
        /\ Len(batches) = Len(flushes) /\ Len(txs) = Len(flushes)
    BY DEF Typed, Batches, Status
  <1>2. ASSUME NEW r, Moves(b, r),
               Fit(r, batches'[b], txs'[b]),
               batches' = batches \/ \E s : batches' = [batches EXCEPT ![b] = s],
               txs' = txs \/ \E s : txs' = [txs EXCEPT ![b] = s]
        PROVE  /\ RowsFit' /\ Batches' = Batches /\ flushes'[b] = r
               /\ \A c \in Batches : c # b => /\ flushes'[c] = flushes[c]
                                              /\ batches'[c] = batches[c] /\ txs'[c] = txs[c]
    <2>1. /\ Batches' = Batches /\ flushes'[b] = r
          /\ \A c \in Batches : c # b => flushes'[c] = flushes[c]
      BY <1>2, MoveShape
    <2>2. \A c \in Batches : c # b => batches'[c] = batches[c] /\ txs'[c] = txs[c]
      BY <1>1, <1>2 DEF Batches
    <2>3. RowsFit'
      BY <1>2, <2>1, <2>2, RowsKept DEF LifeInv
    <2> QED BY <2>1, <2>2, <2>3
  <1>3. ASSUME NEW r, Moves(b, r), confirmQ' = confirmQ,
               Fit(r, batches'[b], txs'[b]),
               batches' = batches \/ \E s : batches' = [batches EXCEPT ![b] = s],
               txs' = txs \/ \E s : txs' = [txs EXCEPT ![b] = s],
               At(b, "done") => r.pc = "done"
        PROVE  LifeInv'
    <2>1. /\ RowsFit' /\ Batches' = Batches /\ flushes'[b] = r
          /\ \A c \in Batches : c # b => /\ flushes'[c] = flushes[c]
                                         /\ batches'[c] = batches[c] /\ txs'[c] = txs[c]
      BY <1>2, <1>3
    <2>2. \A c \in Batches : At(c, "done") => flushes'[c].pc = "done"
      BY <1>3, <2>1 DEF At
    <2> QED BY <1>3, <2>1, <2>2, QueueKept DEF LifeInv
  <1>4. Fit(flushes[b], batches[b], txs[b])
    BY DEF LifeInv, RowsFit
  <1>5. CASE \E l \in Logs : InsertBatched(b, l)
    <2>1. PICK l \in Logs : InsertBatched(b, l)
      BY <1>5
    <2>2. PICK r : /\ Moves(b, r)
                   /\ \/ r.pc = "done"
                      \/ r.pc = flushes[b].pc
                      \/ At(b, "insert") /\ r.pc = "record"
      BY <2>1, InsertEffect
    <2>3. batches' = batches /\ txs' = txs /\ confirmQ' = confirmQ
      BY <2>1 DEF InsertBatched, confirm
    <2>4. Fit(r, batches[b], txs[b])
      BY <1>4, <2>2 DEF Fit, Moves, At
    <2>5. At(b, "done") => r.pc = "done"
      BY <2>2 DEF At
    <2> QED BY <1>3, <2>2, <2>3, <2>4, <2>5
  <1>6. CASE InsertBatchRecord(b)
    <2>1. PICK r : /\ Moves(b, r) /\ At(b, "record")
                   /\ \/ r.pc = "link" /\ batches' = [batches EXCEPT ![b] = "pending"]
                      \/ /\ r.pc = "done"
                         /\ batches' \in {batches, [batches EXCEPT ![b] = "pending"]}
      BY <1>6, RecordEffect
    <2>2. txs' = txs /\ confirmQ' = confirmQ
      BY <1>6 DEF InsertBatchRecord, confirm
    <2>3. r.pc = "link" => batches'[b] = "pending"
      BY <1>1, <2>1
    <2>4. Fit(r, batches'[b], txs[b])
      BY <1>4, <2>1, <2>3 DEF Fit, Moves, At
    <2>5. batches' = batches \/ \E s : batches' = [batches EXCEPT ![b] = s]
      BY <2>1
    <2> QED BY <1>3, <2>1, <2>2, <2>4, <2>5 DEF At
  <1>7. CASE LinkBatchLeaves(b)
    <2>1. PICK r : Moves(b, r) /\ At(b, "link") /\ r.pc \in {"anchor", "link", "done"}
      BY <1>7, LinkEffect
    <2>2. batches' = batches /\ txs' = txs /\ confirmQ' = confirmQ
      BY <1>7 DEF LinkBatchLeaves, confirm
    <2>3. Fit(r, batches[b], txs[b])
      BY <1>4, <2>1 DEF Fit, Moves, At
    <2> QED BY <1>3, <2>1, <2>2, <2>3 DEF At
  <1>8. CASE AnchorWriteBatch(b)
    <2>1. PICK r : /\ Moves(b, r) /\ At(b, "anchor") /\ r.pc = "status"
                   /\ txs' \in {txs, [txs EXCEPT ![b] = "pool"]}
      BY <1>8, AnchorEffect
    <2>2. batches' = batches /\ confirmQ' = confirmQ
      BY <1>8 DEF AnchorWriteBatch, tables, confirm
    <2>3. txs'[b] \in {txs[b], "pool"}
      BY <1>1, <2>1
    <2>4. Fit(r, batches[b], txs'[b])
      BY <1>4, <2>1, <2>3 DEF Fit, Moves, At
    <2>5. txs' = txs \/ \E s : txs' = [txs EXCEPT ![b] = s]
      BY <2>1
    <2> QED BY <1>3, <2>1, <2>2, <2>4, <2>5 DEF At
  <1>9. CASE UpdateBatchAnchorStatus(b)
    <2>1. PICK r, s : /\ Moves(b, r) /\ At(b, "status") /\ r.pc = "done"
                      /\ s = IF r.ok THEN "pending" ELSE "failed"
                      /\ \/ /\ batches' = [batches EXCEPT ![b] = s]
                            /\ \/ confirmQ' = confirmQ
                               \/ r.ok /\ confirmQ' = Append(confirmQ, b)
                         \/ /\ batches' \in {batches, [batches EXCEPT ![b] = s]}
                            /\ confirmQ' = confirmQ
      BY <1>9, StatusEffect
    <2>2. txs' = txs
      BY <1>9 DEF UpdateBatchAnchorStatus
    <2>3. Fit(r, batches'[b], txs[b])
      BY <1>4, <2>1 DEF Fit, Moves, At
    <2>4. batches' = batches \/ \E t : batches' = [batches EXCEPT ![b] = t]
      BY <2>1
    <2>5. CASE confirmQ' = confirmQ
      BY <1>3, <2>1, <2>2, <2>3, <2>4, <2>5 DEF At
    <2>6. CASE r.ok /\ confirmQ' = Append(confirmQ, b) /\ batches' = [batches EXCEPT ![b] = s]
      <3>1. /\ RowsFit' /\ flushes'[b] = r
            /\ \A c \in Batches : c # b => flushes'[c] = flushes[c] /\ batches'[c] = batches[c]
        BY <1>2, <2>1, <2>2, <2>3, <2>4
      <3>3. b \notin Elements(confirmQ) /\ Once(confirmQ)
        BY <2>1 DEF LifeInv, QueueFits, At
      <3>4. confirmQ \in Seq(Nat) /\ b \in Nat /\ \A c \in Elements(confirmQ) : c \in Batches
        BY DEF Typed, Batches, Elements
      <3>5. PICK q : q = Append(confirmQ, b)
        OBVIOUS
      <3>6. Once(q) /\ Elements(q) = Elements(confirmQ) \cup {b}
        BY <3>3, <3>4, <3>5, ElementsAppend
      <3>7. \A c \in Elements(q) : flushes'[c].pc = "done"
        BY <2>1, <3>1, <3>3, <3>4, <3>6 DEF LifeInv, QueueFits, At
      <3>8. confirmQ' = q
        BY <2>6, <3>5
      <3> QED BY <3>1, <3>6, <3>7, <3>8 DEF LifeInv, QueueFits, At
    <2> QED BY <2>1, <2>5, <2>6
  <1> QED BY <1>5, <1>6, <1>7, <1>8, <1>9 DEF FlushStep


\* The chain only moves what was sent; an Exonum block is final at once.
LEMMA ChainEffect ==
  ASSUME Typed, RowsFit, NEW b \in Batches, ChainStep(b)
  PROVE  \E to : /\ txs[b] \notin {"none", "recorded"} /\ to # "none"
                 /\ txs' = [txs EXCEPT ![b] = to] /\ txs'[b] = to
                 /\ chainFor(Strategy) = "exonum" => to = "recorded"
                 /\ UNCHANGED <<flushes, batches, confirmQ, con, server, crashes>>
  <1>1. txs \in Seq(TxStates \cup {"none"}) /\ b \in 1..Len(txs)
    BY DEF Typed, Batches
  <1>2. chainFor(Strategy) = "exonum" => txs[b] \in {"none", "pool", "recorded"}
    BY DEF RowsFit, Fit
  <1>3. ASSUME NEW from \in {{"pool"}, {"included", "reverted"}}, NEW to, TxMoves(b, from, to)
        PROVE  /\ txs[b] \in from /\ txs[b] \notin {"none", "recorded"}
               /\ txs' = [txs EXCEPT ![b] = to] /\ txs'[b] = to
               /\ UNCHANGED <<flushes, batches, confirmQ, con, server, crashes>>
    BY <1>1, <1>3 DEF TxMoves, tables, confirm
  <1>4. CASE Include(b)
    <2>1. PICK s \in Executions(chainFor(Strategy), TRUE) : TxMoves(b, {"pool"}, s)
      BY <1>4 DEF Include
    <2>2. s # "none" /\ (chainFor(Strategy) = "exonum" => s = "recorded")
      BY DEF Executions
    <2> QED BY <1>3, <2>1, <2>2
  <1>5. CASE Finalize(b)
    <2>1. PICK s : s = Finalized(txs[b]) /\ TxMoves(b, {"included", "reverted"}, s)
      BY <1>5 DEF Finalize
    <2>2. s # "none"
      BY <2>1 DEF Finalized
    <2> QED BY <1>2, <1>3, <2>1, <2>2
  <1>6. CASE Reorg(b)
    BY <1>2, <1>3, <1>6 DEF Reorg
  <1>7. CASE DropTx(b)
    BY <1>2, <1>3, <1>7 DEF DropTx
  <1> QED BY <1>4, <1>5, <1>6, <1>7 DEF ChainStep

LEMMA LifeStep == Typed /\ LifeInv /\ [Next]_vars => LifeInv'
  <1> SUFFICES ASSUME Typed, LifeInv, [Next]_vars PROVE LifeInv'
    OBVIOUS
  <1>1. /\ txs \in Seq(TxStates \cup {"none"}) /\ batches \in Seq(Status)
        /\ Len(batches) = Len(flushes) /\ Len(txs) = Len(flushes)
    BY DEF Typed, Status
  <1>2. CASE /\ UNCHANGED <<flushes, batches, txs>>
             /\ \/ confirmQ' = confirmQ
                \/ \E n \in 0..Len(confirmQ) : confirmQ' = SubSeq(confirmQ, 1, n)
    <2>1. Batches' = Batches
      BY <1>2 DEF Batches
    <2>2. RowsFit'
      BY <1>2, <2>1, RowsKept DEF LifeInv
    <2>3. QueueFits'
      BY <1>2, <2>1, QueueKept DEF At
    <2> QED BY <2>2, <2>3 DEF LifeInv
  <1>3. CASE \E b \in Batches : ChainStep(b)
    <2>1. PICK b \in Batches : ChainStep(b)
      BY <1>3
    <2>2. PICK to : /\ txs[b] # "none" /\ to # "none"
                    /\ txs' = [txs EXCEPT ![b] = to] /\ txs'[b] = to
                    /\ chainFor(Strategy) = "exonum" => to = "recorded"
                    /\ UNCHANGED <<flushes, batches, confirmQ>>
      BY <2>1, ChainEffect DEF LifeInv
    <2>3. Batches' = Batches
      BY <2>2 DEF Batches
    <2>4. Fit(flushes[b], batches[b], to)
      BY <2>2 DEF LifeInv, RowsFit, Fit
    <2>5. \A c \in Batches : c # b => txs'[c] = txs[c]
      BY <1>1, <2>2 DEF Batches
    <2>6. RowsFit'
      BY <2>2, <2>3, <2>4, <2>5, RowsKept DEF LifeInv
    <2>7. QueueFits'
      BY <2>2, <2>3, QueueKept DEF At
    <2> QED BY <2>6, <2>7 DEF LifeInv
  <1>4. CASE ConfirmHandler
    <2>1. batches' \in {batches, [batches EXCEPT ![ConBatch] = con.result]}
      BY <1>4 DEF ConfirmHandler, TakeConfirm, PollBatch, ConfirmBatch, AckConfirm, tables
    <2>2. flushes' = flushes /\ txs' = txs /\ (batches' = batches \/ ConfirmBatch)
      BY <1>4 DEF ConfirmHandler, TakeConfirm, PollBatch, ConfirmBatch, AckConfirm, tables
    <2>3. /\ Batches' = Batches
          /\ \A c \in Batches : c # ConBatch => batches'[c] = batches[c]
      BY <1>1, <2>1, <2>2 DEF Batches
    <2>4. /\ confirmQ \in Seq(Nat) /\ confirmQ # <<>> /\ \A c \in Elements(confirmQ) : c \in Batches
          /\ Once(confirmQ)
      BY <1>4, HandlerQueue DEF Typed, Elements, LifeInv, QueueFits
    <2>5. At(ConBatch, "done")
      BY <2>4, Remains DEF LifeInv, QueueFits, ConBatch
    <2>6. Fit(flushes[ConBatch], batches'[ConBatch], txs[ConBatch])
      <3>1. ConBatch \in Batches
        BY <2>4, Remains DEF ConBatch
      <3> QED BY <2>5, <3>1 DEF LifeInv, RowsFit, Fit, At
    <2>7. RowsFit'
      BY <2>2, <2>3, <2>6, RowsKept DEF LifeInv
    <2>8. PICK q : q = Tail(confirmQ)
      OBVIOUS
    <2>9. Once(q) /\ Elements(q) \subseteq Elements(confirmQ)
      BY <2>4, <2>8, Remains
    <2>10. CASE confirmQ' = confirmQ
      BY <2>2, <2>3, <2>7, <2>10, QueueKept DEF LifeInv, At
    <2>11. CASE confirmQ' = q
      BY <2>2, <2>7, <2>9, <2>11 DEF LifeInv, QueueFits, At
    <2> QED BY <1>4, <2>8, <2>10, <2>11, HandlerQueue
  <1>5. CASE \E l \in Logs : Write(l)
    BY <1>2, <1>5, WriteEffect, LifeStarts
  <1>6. CASE TimerFires
    BY <1>2, <1>6, TimerEffect, LifeStarts
  <1>7. CASE Crash
    <2>1. /\ batches' = batches /\ txs' = txs
          /\ \/ confirmQ' = confirmQ
             \/ \E n \in 0..Len(confirmQ) : confirmQ' = SubSeq(confirmQ, 1, n)
      BY <1>7, Losses DEF Crash, tables
    <2>2. /\ Batches' = Batches
          /\ \A b \in Batches : /\ flushes'[b].entries = flushes[b].entries
                                /\ flushes'[b].pc = "done"
      BY <1>7, CrashShape
    <2>3. \A b \in Batches : Fit(flushes'[b], batches'[b], txs'[b])
      BY <2>1, <2>2 DEF LifeInv, RowsFit, Fit
    <2>4. RowsFit'
      BY <2>2, <2>3, RowsKept DEF LifeInv
    <2>5. QueueFits'
      BY <2>1, <2>2, QueueKept
    <2> QED BY <2>4, <2>5 DEF LifeInv
  <1>8. CASE \E b \in Batches : FlushStep(b)
    BY <1>8, LifeFlushes
  <1>9. CASE /\ NoFlush \/ UNCHANGED vars
             /\ ~ ConfirmHandler /\ ~ \E b \in Batches : ChainStep(b)
    <2>1. CASE Disconnect
      BY <1>2, <2>1, Losses DEF Disconnect, tables
    <2> QED BY <1>2, <1>9, <2>1 DEF NoFlush, ReadLeaf, ReadSiblings, Restart, vars, tables, confirm
  <1> QED BY <1>3, <1>4, <1>5, <1>6, <1>7, <1>8, <1>9, Idles

LEMMA LifeAlways == Spec => []LifeInv
  <1>1. Init => LifeInv
    <2> SUFFICES ASSUME Init PROVE LifeInv
      OBVIOUS
    <2>1. Batches = {} /\ confirmQ = <<>>
      BY DEF Init, Batches
    <2> QED BY <2>1, ElementsEmpty DEF LifeInv, RowsFit, QueueFits
  <1> QED BY <1>1, LifeStep, TypedAlways, PTL DEF Spec

-----------------------------------------------------------------------------
(***************************************************************************)
(* What the confirm handler writes.                                        *)
(***************************************************************************)
\* Between the last poll and the update the handler holds what the chain said:
\* a recorded root stays recorded.  Until a connection or the process is lost, a
\* queued batch is pending but for the one whose update is done.
ReadTruly == con.pc = "update" /\ con.result = "confirmed" => txs[ConBatch] = "recorded"
Unsettled == \A b \in Elements(confirmQ) :
               batches[b] = "pending" \/ (con.pc = "ack" /\ b = ConBatch)
HandInv == /\ ConfirmedIsRecorded /\ ReadTruly
           /\ crashes = 0 => server = "up" /\ Unsettled

\* The batch whose message is under way.
LEMMA UnderWay ==
  ASSUME Typed, LifeInv, confirmQ # <<>>
  PROVE  /\ ConBatch \in Batches /\ ConBatch \in Elements(confirmQ) /\ At(ConBatch, "done")
         /\ Elements(Tail(confirmQ)) \subseteq Elements(confirmQ) \ {ConBatch}
         /\ \A b \in Elements(confirmQ) : b \in Batches /\ At(b, "done")
  <1>1. /\ confirmQ \in Seq(Nat) /\ \A c \in Elements(confirmQ) : c \in Batches
        /\ Once(confirmQ) /\ \A c \in Elements(confirmQ) : At(c, "done")
    BY DEF Typed, Elements, LifeInv, QueueFits
  <1> QED BY <1>1, Remains DEF ConBatch

\* A step that leaves the handler and its queue alone.
LEMMA HandKept ==
  ASSUME Typed, LifeInv, HandInv,
         UNCHANGED <<confirmQ, con, server, crashes>>,
         \A b \in Batches : txs[b] = "recorded" => txs'[b] = "recorded",
         \A b \in Batches' : batches'[b] # "confirmed"
                             \/ (b \in Batches /\ batches'[b] = batches[b]),
         \A b \in Batches : At(b, "done") => batches'[b] = batches[b]
  PROVE  HandInv'
  <1>1. ConfirmedIsRecorded'
    BY DEF HandInv, ConfirmedIsRecorded
  <1>2. con.pc # "idle" => confirmQ # <<>>
    BY DEF Typed
  <1>3. ConBatch' = ConBatch
    BY DEF ConBatch
  <1>4. ReadTruly'
    BY <1>2, <1>3, UnderWay DEF HandInv, ReadTruly
  <1>5. Unsettled => Unsettled'
    <2>1. \A b \in Elements(confirmQ) : b \in Batches /\ At(b, "done")
      BY DEF Typed, Elements, LifeInv, QueueFits
    <2> QED BY <1>3, <2>1 DEF Unsettled
  <1> QED BY <1>1, <1>4, <1>5 DEF HandInv

\* What the step of one flush writes.
LEMMA FlushWrites ==
  ASSUME Typed, NEW b \in Batches, FlushStep(b)
  PROVE  /\ txs' = txs \/ (At(b, "anchor") /\ txs' = [txs EXCEPT ![b] = "pool"])
         /\ \/ batches' = batches
            \/ /\ At(b, "record") \/ At(b, "status")
               /\ \E s \in {"pending", "failed"} : batches' = [batches EXCEPT ![b] = s]
         /\ \/ confirmQ' = confirmQ
            \/ /\ confirmQ' = Append(confirmQ, b) /\ At(b, "status")
               /\ batches' = [batches EXCEPT ![b] = "pending"]
  <1>1. CASE \E l \in Logs : InsertBatched(b, l)
    BY <1>1 DEF InsertBatched, confirm
  <1>2. CASE InsertBatchRecord(b)
    BY <1>2 DEF InsertBatchRecord, confirm
  <1>3. CASE LinkBatchLeaves(b)
    BY <1>3 DEF LinkBatchLeaves, confirm
  <1>4. CASE AnchorWriteBatch(b)
    BY <1>4 DEF AnchorWriteBatch, confirm, tables
  <1>5. CASE UpdateBatchAnchorStatus(b)
    BY <1>5 DEF UpdateBatchAnchorStatus
  <1> QED BY <1>1, <1>2, <1>3, <1>4, <1>5 DEF FlushStep

LEMMA FlushHand ==
  ASSUME Typed, LifeInv, HandInv, NEW b \in Batches, FlushStep(b)
  PROVE  HandInv'
  <1>1. /\ txs \in Seq(TxStates \cup {"none"}) /\ batches \in Seq(Status)
        /\ Len(batches) = Len(flushes) /\ Len(txs) = Len(flushes)
        /\ confirmQ \in Seq(Nat) /\ (con.pc # "idle" => confirmQ # <<>>)
    BY DEF Typed, Status
  <1>2. Batches' = Batches /\ con' = con /\ crashes' = crashes /\ server' = server
    BY FlushMoves, MoveShape, FlushQueue
  <1>3. Fit(flushes[b], batches[b], txs[b])
    BY DEF LifeInv, RowsFit
  <1>4. \A c \in Batches : txs[c] = "recorded" => txs'[c] = "recorded"
    <2>1. txs' = txs \/ (txs[b] = "none" /\ txs' = [txs EXCEPT ![b] = "pool"])
      BY <1>3, FlushWrites DEF Fit, At
    <2> QED BY <1>1, <2>1 DEF Batches
  <1>5. /\ \A c \in Batches' : batches'[c] # "confirmed" \/ batches'[c] = batches[c]
        /\ \A c \in Batches : At(c, "done") => batches'[c] = batches[c]
    <2>1. \/ batches' = batches
          \/ ~ At(b, "done") /\ \E s \in {"pending", "failed"} : batches' = [batches EXCEPT ![b] = s]
      BY FlushWrites DEF At
    <2> QED BY <1>1, <1>2, <2>1 DEF Batches
  <1>6. CASE confirmQ' = confirmQ
    BY <1>2, <1>4, <1>5, <1>6, HandKept
  <1>7. CASE /\ confirmQ' = Append(confirmQ, b) /\ At(b, "status")
             /\ batches' = [batches EXCEPT ![b] = "pending"]
    <2>1. ConfirmedIsRecorded'
      BY <1>2, <1>4, <1>5 DEF HandInv, ConfirmedIsRecorded
    <2>2. PICK q : q = Append(confirmQ, b)
      OBVIOUS
    <2>3. b \in Nat
      BY <1>1 DEF Batches
    <2>4. /\ confirmQ # <<>> => Head(q) = Head(confirmQ)
          /\ Elements(q) = Elements(confirmQ) \cup {b}
      BY <1>1, <2>2, <2>3, ElementsAppend
    <2>5. confirmQ # <<>> => ConBatch' = ConBatch
      BY <1>7, <2>2, <2>4 DEF ConBatch
    <2>6. ReadTruly'
      BY <1>1, <1>2, <1>4, <2>5, UnderWay DEF HandInv, ReadTruly
    <2>7. batches'[b] = "pending"
      BY <1>1, <1>7 DEF Batches
    <2>8. ASSUME Unsettled PROVE Unsettled'
      <3> SUFFICES ASSUME NEW c \in Elements(q)
                   PROVE  batches'[c] = "pending" \/ (con.pc = "ack" /\ c = ConBatch')
        BY <1>2, <1>7, <2>2 DEF Unsettled
      <3>1. CASE c = b
        BY <2>7, <3>1
      <3>2. CASE c \in Elements(confirmQ)
        <4>1. c \in Batches /\ At(c, "done")
          BY <3>2 DEF Typed, Elements, LifeInv, QueueFits
        <4>2. batches'[c] = batches[c]
          BY <1>5, <4>1
        <4> QED BY <1>1, <2>5, <2>8, <3>2, <4>2 DEF Unsettled
      <3> QED BY <2>4, <3>1, <3>2
    <2> QED BY <1>2, <2>1, <2>6, <2>8 DEF HandInv
  <1> QED BY <1>6, <1>7, FlushWrites

\* The handler reads the truth, and writes to the batch under way only.
LEMMA HandlerHand ==
  ASSUME Typed, LifeInv, HandInv, ConfirmHandler
  PROVE  HandInv'
  <1>1. /\ batches \in Seq(Status) /\ Len(batches) = Len(flushes) /\ confirmQ # <<>>
        /\ UNCHANGED <<flushes, txs, server, crashes>> /\ Batches' = Batches
    BY HandlerQueue DEF Typed, Status, ConfirmHandler, TakeConfirm, PollBatch, ConfirmBatch,
       AckConfirm, Batches
  <1>2. ConBatch \in Batches /\ \A b \in Elements(confirmQ) : b \in Batches
    BY <1>1, UnderWay
  <1>3. ConfirmedIsRecorded => (batches' = batches => ConfirmedIsRecorded')
    BY <1>1 DEF ConfirmedIsRecorded
  <1>4. CASE TakeConfirm
    <2>1. batches' = batches /\ confirmQ' = confirmQ /\ con'.pc = "poll" /\ con.pc = "idle"
      BY <1>4 DEF TakeConfirm, tables, Typed, ConStates
    <2> QED BY <1>1, <1>3, <2>1 DEF HandInv, ReadTruly, Unsettled
  <1>5. CASE PollBatch
    <2>1. PICK r \in CheckTx(chainFor(Strategy), txs[ConBatch], ChainFaults) :
            con' = [pc |-> "update", result |-> r]
      BY <1>5 DEF PollBatch
    <2>2. batches' = batches /\ confirmQ' = confirmQ /\ con.pc = "poll"
      BY <1>5 DEF PollBatch, tables
    <2>3. chainFor(Strategy) = "exonum" => txs[ConBatch] \in {"none", "pool", "recorded"}
      BY <1>2 DEF LifeInv, RowsFit, Fit
    <2>4. r = "confirmed" => txs[ConBatch] = "recorded"
      BY <2>1, <2>3 DEF CheckTx
    <2>5. ConBatch' = ConBatch /\ con'.pc = "update" /\ con'.result = r
      BY <2>1, <2>2 DEF ConBatch
    <2> QED BY <1>1, <1>3, <2>2, <2>4, <2>5 DEF HandInv, ReadTruly, Unsettled
  <1>6. CASE ConfirmBatch
    <2>1. /\ con.pc = "update" /\ con'.pc = "ack" /\ confirmQ' = confirmQ
          /\ batches' \in {batches, [batches EXCEPT ![ConBatch] = con.result]}
      BY <1>6 DEF ConfirmBatch, Typed, ConStates
    <2>2. ConBatch' = ConBatch
      BY <2>1 DEF ConBatch
    <2>3. /\ \A b \in Batches : b # ConBatch => batches'[b] = batches[b]
          /\ batches'[ConBatch] \in {batches[ConBatch], con.result}
      BY <1>1, <1>2, <2>1 DEF Batches
    <2>4. ConfirmedIsRecorded'
      BY <1>1, <2>1, <2>3 DEF HandInv, ConfirmedIsRecorded, ReadTruly
    <2>5. Unsettled => Unsettled'
      BY <1>2, <2>1, <2>2, <2>3 DEF Unsettled
    <2> QED BY <1>1, <2>1, <2>4, <2>5 DEF HandInv, ReadTruly
  <1>7. CASE AckConfirm
    <2>1. /\ con.pc = "ack" /\ con'.pc = "idle" /\ batches' = batches
          /\ confirmQ' = Tail(confirmQ)
      BY <1>7 DEF AckConfirm, IdleCon, tables
    <2>2. PICK q : q = Tail(confirmQ)
      OBVIOUS
    <2>3. \A b \in Elements(q) : b \in Elements(confirmQ) /\ b # ConBatch
      BY <1>1, <2>2, UnderWay
    <2>4. Unsettled => Unsettled'
      BY <2>1, <2>2, <2>3 DEF Unsettled
    <2> QED BY <1>1, <1>3, <2>1, <2>4 DEF HandInv, ReadTruly
  <1> QED BY <1>4, <1>5, <1>6, <1>7 DEF ConfirmHandler

LEMMA HandStep == Typed /\ LifeInv /\ HandInv /\ [Next]_vars => HandInv'
  <1> SUFFICES ASSUME Typed, LifeInv, HandInv, [Next]_vars PROVE HandInv'
    OBVIOUS
  <1>1. CASE /\ UNCHANGED <<confirmQ, con, server, crashes>>
             /\ \/ UNCHANGED <<flushes, batches, txs>>
                \/ \E e : Starts(e)
    <2>1. CASE UNCHANGED <<flushes, batches, txs>>
      BY <1>1, <2>1, HandKept DEF Batches
    <2>2. CASE \E e : Starts(e)
      <3>1. PICK n : n = Len(flushes) + 1
        OBVIOUS
      <3>2. /\ \A b \in Batches : batches'[b] = batches[b] /\ txs'[b] = txs[b]
            /\ Batches' = Batches \cup {n} /\ batches'[n] = "absent"
        BY <2>2, <3>1, StartShape
      <3> QED BY <1>1, <3>2, HandKept
    <2> QED BY <1>1, <2>1, <2>2
  <1>2. CASE \E l \in Logs : Write(l)
    BY <1>1, <1>2, WriteEffect DEF Write, confirm
  <1>3. CASE TimerFires
    BY <1>1, <1>3, TimerEffect DEF TimerFires, confirm
  <1>4. CASE \E b \in Batches : ChainStep(b)
    <2>1. PICK b \in Batches : ChainStep(b)
      BY <1>4
    <2>2. PICK to : /\ txs[b] # "recorded" /\ txs' = [txs EXCEPT ![b] = to]
                    /\ UNCHANGED <<flushes, batches, confirmQ, con, server, crashes>>
      BY <2>1, ChainEffect DEF LifeInv
    <2>3. \A c \in Batches : txs[c] = "recorded" => txs'[c] = "recorded"
      BY <2>2 DEF Typed, Batches
    <2> QED BY <2>2, <2>3, HandKept DEF Batches
  <1>5. CASE \E b \in Batches : FlushStep(b)
    BY <1>5, FlushHand
  <1>6. CASE ConfirmHandler
    BY <1>6, HandlerHand
  <1>7. CASE Crash \/ Disconnect
    <2>1. batches' = batches /\ txs' = txs /\ Batches' = Batches
      BY <1>7, CrashShape DEF Crash, Disconnect, tables, Batches
    <2>2. ConfirmedIsRecorded'
      BY <2>1 DEF HandInv, ConfirmedIsRecorded
    <2>3. crashes' # 0
      BY <1>7, Losses DEF HandInv
    <2>4. ReadTruly'
      BY <1>7, <2>1, Losses DEF HandInv, ReadTruly, ConBatch
    <2> QED BY <2>2, <2>3, <2>4 DEF HandInv
  <1>8. CASE Restart
    <2>1. /\ UNCHANGED <<flushes, batches, txs, confirmQ, con, crashes>> /\ crashes # 0
      BY <1>8 DEF Restart, tables, confirm, HandInv
    <2> QED BY <2>1 DEF HandInv, ConfirmedIsRecorded, ReadTruly, ConBatch, Batches
  <1>9. CASE \/ (\E l \in Logs : ReadLeaf(l)) \/ ReadSiblings \/ UNCHANGED vars
    BY <1>1, <1>9 DEF ReadLeaf, ReadSiblings, vars, tables, confirm
  <1> QED BY <1>2, <1>3, <1>4, <1>5, <1>6, <1>7, <1>8, <1>9, Idles DEF NoFlush

LEMMA HandAlways == Spec => []HandInv
  <1>1. Init => HandInv
    <2> SUFFICES ASSUME Init PROVE HandInv
      OBVIOUS
    <2>1. Batches = {} /\ confirmQ = <<>> /\ con.pc = "idle" /\ server = "up"
      BY DEF Init, Batches, IdleCon
    <2> QED BY <2>1, ElementsEmpty DEF HandInv, ConfirmedIsRecorded, ReadTruly, Unsettled
  <1> QED BY <1>1, HandStep, LifeAlways, TypedAlways, PTL DEF Spec

\* A caller told of success has its entry in a batch that was sent, and a record
\* that says confirmed is that of a recorded root, whatever fails, is lost or is
\* delivered again.
THEOREM BatchesToldTruly == Spec => []ToldTruly
  <1>1. HandInv /\ StoredIsSubmitted => ToldTruly
    BY DEF HandInv, ToldTruly
  <1> QED BY <1>1, HandAlways, SuccessIsSent, PTL


\* A batch has an entry of its own, so there are no more batches than entries.
LEMMA BatchesFit ==
  ASSUME Typed, PlaceInv, RowsFit, IsFiniteSet(Logs)
  PROVE  Batches \subseteq BatchIds
  <1>1. PICK f : f = [b \in Batches |-> flushes[b].entries[1]]
    OBVIOUS
  <1>2. ASSUME NEW b \in Batches PROVE f[b] \in Logs /\ f[b] \in Entries(b)
    <2>1. flushes[b] \in FlushRecords /\ flushes[b].entries # <<>>
      BY DEF Typed, Batches, RowsFit, Fit
    <2>2. PICK e : e = flushes[b].entries
      OBVIOUS
    <2>3. e \in Seq(Logs) /\ e # <<>>
      BY <2>1, <2>2, RecordFields
    <2>4. 1 \in 1..Len(e) /\ e[1] \in Logs
      BY <2>3
    <2> QED BY <1>1, <2>2, <2>4 DEF Entries, Elements
  <1>3. \A b, c \in Batches : f[b] = f[c] => b = c
    BY <1>2 DEF PlaceInv, Disjoint
  <1>4. f \in Injection(Batches, Logs)
    BY <1>1, <1>2, <1>3 DEF Injection, IsInjective
  <1>5. Cardinality(Batches) <= Cardinality(Logs)
    BY <1>4, FS_Injection
  <1>6. Len(flushes) \in Nat
    BY DEF Typed
  <1>7. Cardinality(Batches) = Len(flushes)
    <2>1. Cardinality(1..Len(flushes))
            = IF 1 > Len(flushes) THEN 0 ELSE Len(flushes) - 1 + 1
      <3>1. 1 \in Int /\ Len(flushes) \in Int
        BY <1>6
      <3> QED BY <3>1, FS_Interval, Zenon
    <2> QED BY <1>6, <2>1 DEF Batches
  <1>8. Cardinality(Logs) \in Nat
    BY FS_CardinalityType
  <1> QED BY <1>5, <1>6, <1>7, <1>8 DEF Batches, BatchIds

RecordedBatches == {b \in Batches : txs[b] = "recorded"}

\* A step that moves no record and records nothing.
LEMMA QuietBatches ==
  ASSUME \A b \in Batches : /\ b \in Batches' /\ batches'[b] = batches[b]
                            /\ txs'[b] = "recorded" <=> txs[b] = "recorded",
         \A b \in Batches' : b \in Batches \/ (batches'[b] = "absent" /\ txs'[b] = "none")
  PROVE  [Lifecycle!Next]_(Lifecycle!vars)
  <1>1. BatchStatus' = BatchStatus
    BY DEF BatchStatus, BatchIds
  <1>2. RecordedBatches' = RecordedBatches
    BY DEF RecordedBatches
  <1> QED BY <1>1, <1>2 DEF Lifecycle!vars, RecordedBatches

\* A step that moves the record of batch k.
LEMMA BatchMoves ==
  ASSUME NEW k \in Batches, Batches \subseteq BatchIds, Batches' = Batches, NEW to,
         batches'[k] = to, \A b \in Batches : b # k => batches'[b] = batches[b],
         txs' = txs
  PROVE  Lifecycle!Moves(k, batches[k], to)
  <1>1. BatchStatus[k] = batches[k]
    BY DEF BatchStatus
  <1>2. BatchStatus' = [BatchStatus EXCEPT ![k] = to]
    <2>1. PICK s, t : s = BatchStatus /\ t = BatchStatus'
      OBVIOUS
    <2>2. /\ s = [b \in BatchIds |-> IF b \in Batches THEN batches[b] ELSE "absent"]
          /\ t = [b \in BatchIds |-> IF b \in Batches THEN batches'[b] ELSE "absent"]
      BY <2>1 DEF BatchStatus, BatchIds
    <2>3. t = [s EXCEPT ![k] = to]
      BY <2>2
    <2> QED BY <2>1, <2>3
  <1>3. RecordedBatches' = RecordedBatches
    BY DEF RecordedBatches
  <1> QED BY <1>1, <1>2, <1>3 DEF Lifecycle!Moves, RecordedBatches


\* The steps of a flush store a record, or fail one whose root was not sent.
LEMMA FlushRefines ==
  ASSUME Typed, LifeInv, Batches \subseteq BatchIds, NEW b \in Batches, FlushStep(b)
  PROVE  [Lifecycle!Next]_(Lifecycle!vars)
  <1>1. /\ txs \in Seq(TxStates \cup {"none"}) /\ batches \in Seq(Status)
        /\ Len(batches) = Len(flushes) /\ Len(txs) = Len(flushes)
    BY DEF Typed, Status
  <1>2. Batches' = Batches
    BY FlushMoves, MoveShape
  <1>3. Fit(flushes[b], batches[b], txs[b])
    BY DEF LifeInv, RowsFit
  <1>4. CASE batches' = batches /\ txs' = txs
    BY <1>2, <1>4, QuietBatches
  <1>5. CASE \E l \in Logs : InsertBatched(b, l)
    BY <1>4, <1>5 DEF InsertBatched
  <1>6. CASE InsertBatchRecord(b)
    <2>1. /\ batches[b] = "absent" /\ txs' = txs
          /\ batches' \in {batches, [batches EXCEPT ![b] = "pending"]}
      BY <1>3, <1>6 DEF InsertBatchRecord, Fit, At
    <2>2. CASE batches' = [batches EXCEPT ![b] = "pending"]
      <3>1. /\ batches'[b] = "pending"
            /\ \A c \in Batches : c # b => batches'[c] = batches[c]
        BY <1>1, <2>2 DEF Batches
      <3>2. Lifecycle!Moves(b, "absent", "pending")
        BY <1>2, <2>1, <3>1, BatchMoves
      <3> QED BY <3>2 DEF Lifecycle!Next, Lifecycle!Store
    <2> QED BY <1>4, <2>1, <2>2
  <1>7. CASE LinkBatchLeaves(b)
    BY <1>4, <1>7 DEF LinkBatchLeaves
  <1>8. CASE AnchorWriteBatch(b)
    <2>1. batches' = batches /\ txs' \in {txs, [txs EXCEPT ![b] = "pool"]} /\ txs[b] = "none"
      BY <1>3, <1>8 DEF AnchorWriteBatch, tables, Fit, At
    <2>2. \A c \in Batches : txs'[c] = "recorded" <=> txs[c] = "recorded"
      BY <1>1, <2>1 DEF Batches
    <2> QED BY <1>2, <2>1, <2>2, QuietBatches
  <1>9. CASE UpdateBatchAnchorStatus(b)
    <2>1. PICK s \in {"pending", "failed"} :
            /\ batches[b] = "pending" /\ txs' = txs
            /\ batches' \in {batches, [batches EXCEPT ![b] = s]}
      BY <1>3, <1>9 DEF UpdateBatchAnchorStatus, Fit, At
    <2>2. CASE batches' = [batches EXCEPT ![b] = s] /\ s = "failed"
      <3>1. /\ batches'[b] = "failed"
            /\ \A c \in Batches : c # b => batches'[c] = batches[c]
        BY <1>1, <2>2 DEF Batches
      <3>2. Lifecycle!Moves(b, "pending", "failed")
        BY <1>2, <2>1, <3>1, BatchMoves
      <3> QED BY <3>2 DEF Lifecycle!Next, Lifecycle!Fail
    <2>3. CASE batches' = [batches EXCEPT ![b] = s] /\ s = "pending"
      <3>1. batches' = batches
        BY <1>1, <2>1, <2>3 DEF Batches
      <3> QED BY <1>4, <2>1, <3>1
    <2> QED BY <1>4, <2>1, <2>2, <2>3
  <1> QED BY <1>5, <1>6, <1>7, <1>8, <1>9 DEF FlushStep

LEMMA ConfirmRefines ==
  ASSUME Typed, LifeInv, HandInv, crashes = 0, Batches \subseteq BatchIds, ConfirmHandler
  PROVE  [Lifecycle!Next]_(Lifecycle!vars)
  <1>1. PICK b, r :
          /\ b \in Batches /\ (batches[b] = "pending" \/ batches' = batches)
          /\ r \in {"pending", "failed"} \/ (r = "confirmed" /\ txs[b] = "recorded")
             \/ batches' = batches
          /\ batches' \in {batches, [batches EXCEPT ![b] = r]}
          /\ flushes' = flushes /\ txs' = txs
    <2>1. /\ batches' \in {batches, [batches EXCEPT ![ConBatch] = con.result]}
          /\ flushes' = flushes /\ txs' = txs /\ (batches' = batches \/ con.pc = "update")
      BY DEF ConfirmHandler, TakeConfirm, PollBatch, ConfirmBatch, AckConfirm, tables
    <2>2. ConBatch \in Batches /\ ConBatch \in Elements(confirmQ)
      BY HandlerQueue, UnderWay
    <2>3. con.pc = "update" => batches[ConBatch] = "pending"
      BY <2>2 DEF HandInv, Unsettled
    <2>4. con.result \in {"pending", "failed", "confirmed"}
      BY DEF Typed, ConStates
    <2> QED BY <2>1, <2>2, <2>3, <2>4 DEF HandInv, ReadTruly
  <1>2. Batches' = Batches /\ batches \in Seq(Status) /\ Len(batches) = Len(flushes)
    BY <1>1 DEF Batches, Typed, Status
  <1>3. CASE batches' = batches
    BY <1>1, <1>2, <1>3, QuietBatches
  <1>4. CASE batches' = [batches EXCEPT ![b] = r]
    <2>1. batches'[b] = r /\ \A c \in Batches : c # b => batches'[c] = batches[c]
      BY <1>1, <1>2, <1>4 DEF Batches
    <2>2. batches' = batches \/ Lifecycle!Moves(b, "pending", r)
      BY <1>1, <1>2, <2>1, BatchMoves
    <2>3. CASE r = "pending"
      <3>1. batches' = batches
        BY <1>1, <1>2, <1>4, <2>3 DEF Batches
      <3> QED BY <1>3, <3>1
    <2>4. CASE r = "failed"
      <3>1. batches' = batches \/ (Lifecycle!Fail(b) /\ b \in BatchIds)
        BY <1>1, <2>2, <2>4 DEF Lifecycle!Fail
      <3> QED BY <1>3, <3>1 DEF Lifecycle!Next
    <2>5. CASE r = "confirmed" /\ txs[b] = "recorded"
      <3>1. b \in RecordedBatches
        BY <1>1, <2>5 DEF RecordedBatches
      <3>2. batches' = batches \/ (Lifecycle!Confirm(b) /\ b \in BatchIds)
        BY <1>1, <2>2, <2>5, <3>1 DEF Lifecycle!Confirm, RecordedBatches
      <3> QED BY <1>3, <3>2 DEF Lifecycle!Next
    <2> QED BY <1>1, <1>3, <2>3, <2>4, <2>5
  <1> QED BY <1>1, <1>3, <1>4

LEMMA ChainRefines ==
  ASSUME Typed, LifeInv, SentInv, Batches \subseteq BatchIds,
         NEW b \in Batches, ChainStep(b)
  PROVE  [Lifecycle!Next]_(Lifecycle!vars)
  <1>1. PICK to : /\ txs[b] \notin {"none", "recorded"}
                  /\ txs' = [txs EXCEPT ![b] = to] /\ txs'[b] = to
                  /\ UNCHANGED <<flushes, batches>>
    BY ChainEffect DEF LifeInv
  <1>2. Batches' = Batches /\ \A c \in Batches : c # b => txs'[c] = txs[c]
    BY <1>1 DEF Batches, Typed
  <1>3. CASE to # "recorded"
    <2>1. \A c \in Batches : txs'[c] = "recorded" <=> txs[c] = "recorded"
      BY <1>1, <1>2, <1>3
    <2> QED BY <1>1, <1>2, <2>1, QuietBatches
  <1>4. CASE to = "recorded"
    <2>1. RecordedBatches' = RecordedBatches \cup {b}
      BY <1>1, <1>2, <1>4 DEF RecordedBatches
    <2>2. BatchStatus[b] # "absent" /\ BatchStatus' = BatchStatus
      BY <1>1, <1>2 DEF SentInv, BatchStatus, BatchIds
    <2>3. Lifecycle!Record(b)
      BY <2>1, <2>2 DEF Lifecycle!Record, RecordedBatches
    <2> QED BY <2>3 DEF Lifecycle!Next
  <1> QED BY <1>3, <1>4

\* While no connection is lost every batch record follows the row lifecycle:
\* pending from the moment it is stored, settled once, and confirmed only when the
\* chain has recorded its root, whatever calls fail and however the chain moves
\* between the last poll and the update.  (After a loss a confirm message can be
\* handled twice, and a settled record written again.)
THEOREM BatchLifecycle ==
  ASSUME IsFiniteSet(Logs), MaxCrashes = 0
  PROVE  Spec => ImplementsLifecycle
  <1>1. Init => Lifecycle!Init
    <2> SUFFICES ASSUME Init PROVE Lifecycle!Init
      OBVIOUS
    <2>1. Batches = {}
      BY DEF Init, Batches
    <2>2. BatchStatus = [b \in BatchIds |-> "absent"] /\ RecordedBatches = {}
      BY <2>1 DEF BatchStatus, RecordedBatches
    <2> QED BY <2>2 DEF Lifecycle!Init, RecordedBatches
  <1>2. Typed /\ PlaceInv /\ SentInv /\ LifeInv /\ HandInv /\ [Next]_vars
          => [Lifecycle!Next]_(Lifecycle!vars)
    <2> SUFFICES ASSUME Typed, PlaceInv, SentInv, LifeInv, HandInv, [Next]_vars
                 PROVE  [Lifecycle!Next]_(Lifecycle!vars)
      OBVIOUS
    <2>0. crashes = 0
      BY DEF Typed
    <2>1. Batches \subseteq BatchIds
      BY BatchesFit DEF LifeInv
    <2>2. CASE UNCHANGED <<flushes, batches, txs>>
      <3>1. Batches' = Batches
        BY <2>2 DEF Batches
      <3> QED BY <2>2, <3>1, QuietBatches
    <2>3. CASE \E e : Starts(e)
      <3>1. PICK n : n = Len(flushes) + 1
        OBVIOUS
      <3>2. /\ \A b \in Batches : batches'[b] = batches[b] /\ txs'[b] = txs[b]
            /\ Batches' = Batches \cup {n}
            /\ batches'[n] = "absent" /\ txs'[n] = "none"
        BY <2>3, <3>1, StartShape
      <3> QED BY <3>2, QuietBatches
    <2>4. CASE (\E l \in Logs : Write(l)) \/ TimerFires
      BY <2>2, <2>3, <2>4, WriteEffect, TimerEffect
    <2>5. CASE Crash
      <3>1. Batches' = Batches /\ batches' = batches /\ txs' = txs
        BY <2>5, CrashShape DEF Crash, tables
      <3> QED BY <3>1, QuietBatches
    <2>6. CASE \E b \in Batches : FlushStep(b)
      BY <2>1, <2>6, FlushRefines
    <2>7. CASE \E b \in Batches : ChainStep(b)
      BY <2>1, <2>7, ChainRefines
    <2>8. CASE ConfirmHandler
      BY <2>0, <2>1, <2>8, ConfirmRefines
    <2>9. CASE /\ NoFlush \/ UNCHANGED vars
               /\ ~ ConfirmHandler /\ ~ \E b \in Batches : ChainStep(b)
      BY <2>2, <2>9 DEF NoFlush, ReadLeaf, ReadSiblings, Disconnect, Restart, vars, tables
    <2> QED BY <2>4, <2>5, <2>6, <2>7, <2>8, <2>9, Idles
  <1> QED BY <1>1, <1>2, SentAlways, LifeAlways, HandAlways, PTL
          DEF Spec, ImplementsLifecycle, Lifecycle!Spec
=============================================================================
