----------------------------- MODULE StoresProofs -----------------------------
(***************************************************************************)
(* Theorems about Stores and StoreReaders: the types, the ordered index,   *)
(* the history chains and what a step may do to a record; what a visitor   *)
(* of a list page has seen and what a search of the explorer shows.  They  *)
(* hold for any hashes, submitters and page sizes and any number of        *)
(* transactions, reorganisations, requests and overlapping searches.       *)
(***************************************************************************)
EXTENDS StoreReaders, FiniteSetTheorems, WellFoundedInduction, TLAPS

-----------------------------------------------------------------------------
(* Sequences and the fields of a store *)

\* Appending to a sequence: its type, length and elements.
LEMMA AppendFacts ==
  ASSUME NEW S, NEW q \in Seq(S), NEW e \in S
  PROVE  /\ Append(q, e) \in Seq(S)
         /\ Len(Append(q, e)) = Len(q) + 1
         /\ Len(q) \in Nat
         /\ Append(q, e)[Len(q) + 1] = e
         /\ \A i \in 1 .. Len(q) : Append(q, e)[i] = q[i] /\ q[i] \in S
  OBVIOUS

\* A prefix of a sequence is a prefix of the sequence after an append.
LEMMA AppendPrefix ==
  ASSUME NEW S, NEW q \in Seq(S), NEW e \in S
  PROVE  /\ \A n \in 1 .. Len(q) : SubSeq(Append(q, e), 1, n) = SubSeq(q, 1, n)
         /\ SubSeq(Append(q, e), 1, Len(q) + 1) = Append(q, e)
  OBVIOUS

\* The fields of a store state.
LEMMA StoreFields ==
  ASSUME NEW st \in StoreStates
  PROVE  /\ st.records \in [Hashes -> Records]
         /\ st.ordered \in Seq(Hashes)
         /\ st.historyHash \in [Submitters -> Seq(Links)]
         /\ st.historyLen \in [Submitters -> Nat]
         /\ st.count \in Nat
  BY DEF StoreStates

\* The fields of a record.
LEMMA RecordFields ==
  ASSUME NEW r \in Records
  PROVE  /\ r.at \in Nat /\ r.historyLen \in Nat
         /\ r.submitter \in Submitters \cup {NoSubmitter}
         /\ r.historyHash \in Seq(Links)
  BY DEF Records

\* The empty store has the type of a store.
LEMMA EmptyType == EmptyStore \in StoreStates
<1>1. NoRecord \in Records
  BY DEF NoRecord, Records
<1>2. [h \in Hashes |-> NoRecord] \in [Hashes -> Records]
  BY <1>1
<1> QED
  BY <1>2 DEF EmptyStore, StoreStates

\* A write keeps the type of the store.
LEMMA RecordedType ==
  ASSUME NEW st \in StoreStates, NEW s \in Submitters, NEW h \in Hashes,
         NEW link \in Links, NEW t \in Nat
  PROVE  Recorded(st, s, h, link, t) \in StoreStates
<1> DEFINE newHistory == Append(st.historyHash[s], link)
           newRecord  == [at |-> t, submitter |-> s, historyLen |-> st.historyLen[s] + 1,
                          historyHash |-> newHistory]
<1>1. newHistory \in Seq(Links)
  BY StoreFields, AppendFacts
<1>2. st.historyLen[s] + 1 \in Nat
  BY StoreFields
<1>3. newRecord \in Records
  BY <1>1, <1>2 DEF Records
<1>4. [st.records EXCEPT ![h] = newRecord] \in [Hashes -> Records]
  <2> HIDE DEF newRecord
  <2> QED BY <1>3, StoreFields
<1>5. Append(st.ordered, h) \in Seq(Hashes)
  BY StoreFields, AppendFacts
<1>6. [st.historyHash EXCEPT ![s] = newHistory] \in [Submitters -> Seq(Links)]
  <2> HIDE DEF newHistory
  <2> QED BY <1>1, StoreFields
<1>7. [st.historyLen EXCEPT ![s] = st.historyLen[s] + 1] \in [Submitters -> Nat]
  BY <1>2, StoreFields
<1>8. st.count + 1 \in Nat
  BY StoreFields
<1> QED
  BY <1>4, <1>5, <1>6, <1>7, <1>8 DEF Recorded, StoreStates

-----------------------------------------------------------------------------
(* The shape of a step *)

\* What a step does to the store: nothing, the write of a hash that is not
\* there, linked as the ledger does it, or the return to the final state.
Wrote(st, new, t) ==
  \E s \in Submitters, h \in Hashes :
    /\ ~Exists(st, h)
    /\ new = Recorded(st, s, h, IF which \in Contracts THEN h ELSE t, t)

LEMMA StepShape ==
  ASSUME TypeOK, Next
  PROVE  /\ which' = which
         /\ txs' \in Nat
         /\ \/ /\ UNCHANGED store
               /\ final' \in {store, final}
            \/ /\ txs' # 0
               /\ Wrote(store, store', txs')
               /\ UNCHANGED final
            \/ /\ store' = final
               /\ reorgs' = reorgs + 1
               /\ UNCHANGED final
<1>1. ASSUME NEW s \in Submitters, NEW h \in Hashes, which \in Contracts, ContractWrite(s, h)
      PROVE  /\ which' = which /\ txs' \in Nat /\ txs' # 0 /\ UNCHANGED final
             /\ UNCHANGED store \/ Wrote(store, store', txs')
  BY <1>1 DEF ContractWrite, Executed, Wrote, TypeOK
<1>2. ASSUME NEW s \in Submitters, NEW h \in Hashes \cup {NotAHash}, which \in Services,
             ServiceWrite(s, h)
      PROVE  /\ which' = which /\ txs' \in Nat /\ txs' # 0 /\ UNCHANGED final
             /\ UNCHANGED store \/ Wrote(store, store', txs')
  <2>1. which \notin Contracts
    BY <1>2 DEF Contracts, Services
  <2> QED
    BY <1>2, <2>1 DEF ServiceWrite, Executed, Accepted, Wrote, TypeOK
<1>3. CASE Write
  BY <1>1, <1>2, <1>3 DEF Write, LogStoreWrite, HashStoreWrite, BatchStoreWrite,
     WriteLog, WriteHash, WriteBatch, Contracts, Services
<1>4. CASE Finalize
  BY <1>4 DEF Finalize, TypeOK
<1>5. CASE Reorg
  BY <1>5 DEF Reorg, TypeOK
<1> QED
  BY <1>3, <1>4, <1>5 DEF Next

-----------------------------------------------------------------------------
(* Types *)

LEMMA TypeInit == Init => TypeOK
  BY EmptyType DEF Init, TypeOK

LEMMA TypeStep == TypeOK /\ [Next]_vars => TypeOK'
<1> SUFFICES ASSUME TypeOK, [Next]_vars PROVE TypeOK'
  OBVIOUS
<1>1. CASE UNCHANGED vars
  BY <1>1 DEF TypeOK, vars
<1>2. CASE Next
  <2>1. store' \in StoreStates
    <3>1. ASSUME Wrote(store, store', txs'), txs' \in Nat, txs' # 0
          PROVE  store' \in StoreStates
      <4>1. PICK s \in Submitters, h \in Hashes :
               store' = Recorded(store, s, h, IF which \in Contracts THEN h ELSE txs', txs')
        BY <3>1 DEF Wrote
      <4>2. (IF which \in Contracts THEN h ELSE txs') \in Links
        BY <3>1 DEF Links
      <4> QED
        BY <4>1, <4>2, <3>1, RecordedType DEF TypeOK
    <3> QED
      BY <1>2, <3>1, StepShape DEF TypeOK
  <2>2. final' \in StoreStates
    BY <1>2, StepShape DEF TypeOK
  <2>3. reorgs' \in Nat
    BY <1>2 DEF Next, Write, LogStoreWrite, HashStoreWrite, BatchStoreWrite, WriteLog, WriteHash,
       WriteBatch, ContractWrite, ServiceWrite, Finalize, Reorg, TypeOK
  <2> QED
    BY <1>2, <2>1, <2>2, <2>3, StepShape DEF TypeOK
<1> QED
  BY <1>1, <1>2

\* A store keeps its types, whichever store it is: what write builds is a
\* record, and the index holds hashes only.
THEOREM StoreTypes == Spec => []TypeOK
  BY TypeInit, TypeStep, PTL DEF Spec

-----------------------------------------------------------------------------
(* The ordered index *)

IndexInv == Indexed(store) /\ Indexed(final)

LEMMA EmptyIndexed == Indexed(EmptyStore)
<1>1. \A h \in Hashes : ~Exists(EmptyStore, h)
  BY DEF Exists, EmptyStore, NoRecord
<1>2. EmptyStore.ordered = << >> /\ EmptyStore.count = 0
  BY DEF EmptyStore
<1> QED
  BY <1>1, <1>2 DEF Indexed

\* After a write, what was recorded still is, and so is the hash written.
LEMMA RecordedExists ==
  ASSUME NEW st \in StoreStates, NEW s \in Submitters, NEW h \in Hashes,
         NEW link, NEW t \in Nat, t # 0
  PROVE  \A g \in Hashes : Exists(Recorded(st, s, h, link, t), g) <=> g = h \/ Exists(st, g)
<1> DEFINE rec == [at |-> t, submitter |-> s, historyLen |-> st.historyLen[s] + 1,
                   historyHash |-> Append(st.historyHash[s], link)]
<1>1. Recorded(st, s, h, link, t).records = [st.records EXCEPT ![h] = rec]
  BY DEF Recorded
<1>2. rec.at = t
  OBVIOUS
<1>3. st.records \in [Hashes -> Records]
  BY StoreFields
<1> HIDE DEF rec
<1> QED
  BY <1>1, <1>2, <1>3 DEF Exists

\* A write of a hash that is not recorded keeps the index.
LEMMA RecordedIndexed ==
  ASSUME NEW st \in StoreStates, NEW s \in Submitters, NEW h \in Hashes,
         NEW link, NEW t \in Nat, t # 0, Indexed(st), ~Exists(st, h)
  PROVE  Indexed(Recorded(st, s, h, link, t))
<1> DEFINE new == Recorded(st, s, h, link, t)
           n   == Len(st.ordered)
<1>1. st.ordered \in Seq(Hashes) /\ st.count \in Nat
  BY StoreFields
<1>2. new.ordered = Append(st.ordered, h) /\ new.count = st.count + 1
  BY DEF Recorded
<1>3. /\ Len(new.ordered) = n + 1 /\ n \in Nat
      /\ new.ordered[n + 1] = h
      /\ \A i \in 1 .. n : new.ordered[i] = st.ordered[i] /\ st.ordered[i] \in Hashes
  BY <1>1, <1>2, AppendFacts
<1>4. \A g \in Hashes : Exists(new, g) <=> g = h \/ Exists(st, g)
  BY RecordedExists
<1>5. /\ \A i \in 1 .. n : Exists(st, st.ordered[i])
      /\ \A g \in Hashes : Exists(st, g) => \E i \in 1 .. n : st.ordered[i] = g
      /\ \A i, j \in 1 .. n : st.ordered[i] = st.ordered[j] => i = j
      /\ st.count = n
  BY DEF Indexed
<1> HIDE DEF new, n
<1>6. \A i \in 1 .. n + 1 : i \in 1 .. n \/ i = n + 1
  BY <1>3
<1>7. \A i \in 1 .. n + 1 : Exists(new, new.ordered[i])
  BY <1>3, <1>4, <1>5, <1>6
<1>8. ASSUME NEW g \in Hashes, Exists(new, g)
      PROVE  \E i \in 1 .. n + 1 : new.ordered[i] = g
  <2>1. CASE g = h
    BY <1>3, <2>1
  <2>2. CASE Exists(st, g)
    BY <1>3, <1>5, <2>2
  <2> QED
    BY <1>4, <1>8, <2>1, <2>2
<1>9. ASSUME NEW i \in 1 .. n + 1, NEW j \in 1 .. n + 1, new.ordered[i] = new.ordered[j]
      PROVE  i = j
  <2>1. \A k \in 1 .. n : new.ordered[k] # h
    BY <1>3, <1>5
  <2> QED
    BY <1>3, <1>5, <1>6, <1>9, <2>1
<1>10. new.count = Len(new.ordered)
  BY <1>2, <1>3, <1>5
<1> QED
  BY <1>3, <1>7, <1>8, <1>9, <1>10 DEF Indexed, new

LEMMA IndexStep == TypeOK /\ IndexInv /\ [Next]_vars => IndexInv'
<1> SUFFICES ASSUME TypeOK, IndexInv, [Next]_vars PROVE IndexInv'
  OBVIOUS
<1>1. CASE UNCHANGED vars
  BY <1>1 DEF IndexInv, vars, Indexed, Exists
<1>2. CASE Next
  <2>1. ASSUME Wrote(store, store', txs'), txs' \in Nat, txs' # 0
        PROVE  Indexed(store')
    BY <2>1, RecordedIndexed DEF Wrote, TypeOK, IndexInv
  <2>2. Indexed(store') /\ Indexed(final')
    BY <1>2, <2>1, StepShape DEF IndexInv
  <2>3. Indexed(store') <=> Indexed(store)'
    BY DEF Indexed, Exists
  <2>4. Indexed(final') <=> Indexed(final)'
    BY DEF Indexed, Exists
  <2> QED
    BY <2>2, <2>3, <2>4 DEF IndexInv
<1> QED
  BY <1>1, <1>2

\* The ordered index of a store lists the recorded hashes, each once, and its
\* counter is the length of the index: duplicates, errors and reorganisations included.
THEOREM IndexCorrect == Spec => []IndexListsRecords
<1>1. Init => IndexInv
  BY EmptyIndexed DEF Init, IndexInv
<1>2. IndexInv => IndexListsRecords
  BY DEF IndexInv, IndexListsRecords
<1> QED
  BY <1>1, <1>2, TypeInit, TypeStep, IndexStep, PTL DEF Spec

-----------------------------------------------------------------------------
(* Records are written once *)

LEMMA AppendsStep ==
  ASSUME TypeOK, [Next]_vars, store' # store
  PROVE  \/ store' = final /\ reorgs' = reorgs + 1
         \/ /\ \A h \in Hashes : Exists(store, h) => store'.records[h] = store.records[h]
            /\ \E h \in Hashes : store'.ordered = Append(store.ordered, h)
<1>1. Next
  BY DEF vars
<1>2. ASSUME Wrote(store, store', txs')
      PROVE  /\ \A h \in Hashes : Exists(store, h) => store'.records[h] = store.records[h]
             /\ \E h \in Hashes : store'.ordered = Append(store.ordered, h)
  <2>1. PICK s \in Submitters, h \in Hashes :
           /\ ~Exists(store, h)
           /\ store' = Recorded(store, s, h, IF which \in Contracts THEN h ELSE txs', txs')
    BY <1>2 DEF Wrote
  <2>2. store'.ordered = Append(store.ordered, h)
    BY <2>1 DEF Recorded
  <2>3. PICK rec : store'.records = [store.records EXCEPT ![h] = rec]
    BY <2>1 DEF Recorded
  <2>4. store.records \in [Hashes -> Records]
    BY StoreFields DEF TypeOK
  <2>5. ASSUME NEW g \in Hashes, Exists(store, g)
        PROVE  store'.records[g] = store.records[g]
    <3>1. g # h
      BY <2>1, <2>5
    <3> QED
      BY <2>3, <2>4, <3>1
  <2> QED
    BY <2>2, <2>5
<1> QED
  BY <1>1, <1>2, StepShape

\* No step changes a record or takes a hash from the index, but the return to
\* the final state by a reorganisation: what the require of write promises.
THEOREM WrittenOnce == Spec => OnlyAppends
<1>1. TypeOK /\ [Next]_vars =>
        [ \/ store' = final /\ reorgs' = reorgs + 1
          \/ /\ \A h \in Hashes : Exists(store, h) => store'.records[h] = store.records[h]
             /\ \E h \in Hashes : store'.ordered = Append(store.ordered, h) ]_store
  BY AppendsStep
<1> QED
  BY <1>1, TypeInit, TypeStep, PTL DEF Spec, OnlyAppends

-----------------------------------------------------------------------------
(* The history chains *)

HistoryInv == Chained(store) /\ Chained(final)

LEMMA EmptyChained == Chained(EmptyStore)
<1>1. \A h \in Hashes : ~Exists(EmptyStore, h)
  BY DEF Exists, EmptyStore, NoRecord
<1>2. \A s \in Submitters : EmptyStore.historyLen[s] = 0 /\ EmptyStore.historyHash[s] = << >>
  BY DEF EmptyStore
<1> QED
  BY <1>1, <1>2 DEF Chained

\* A write of a hash that is not recorded extends its submitter's chain and
\* keeps the others.
LEMMA RecordedChained ==
  ASSUME NEW st \in StoreStates, NEW s \in Submitters, NEW h \in Hashes,
         NEW t \in Nat, t # 0, Chained(st), ~Exists(st, h)
  PROVE  Chained(Recorded(st, s, h, IF which \in Contracts THEN h ELSE t, t))
<1> DEFINE link == IF which \in Contracts THEN h ELSE t
           new  == Recorded(st, s, h, link, t)
           old  == st.historyHash[s]
           n    == st.historyLen[s]
           hist == Append(old, link)
           rec  == [at |-> t, submitter |-> s, historyLen |-> n + 1, historyHash |-> hist]
<1>1. link \in Links
  BY DEF Links
<1>2. /\ new.records = [st.records EXCEPT ![h] = rec]
      /\ new.historyHash = [st.historyHash EXCEPT ![s] = hist]
      /\ new.historyLen = [st.historyLen EXCEPT ![s] = n + 1]
  BY DEF Recorded
<1>3. rec.at = t /\ rec.submitter = s /\ rec.historyLen = n + 1 /\ rec.historyHash = hist
  OBVIOUS
<1>4. \A g \in Hashes : Exists(new, g) <=> g = h \/ Exists(st, g)
  BY RecordedExists
<1>5. old \in Seq(Links) /\ n = Len(old) /\ n \in Nat
  BY StoreFields DEF Chained
<1>6. /\ Len(hist) = n + 1 /\ hist[n + 1] = link
      /\ \A k \in 1 .. n : SubSeq(hist, 1, k) = SubSeq(old, 1, k)
      /\ SubSeq(hist, 1, n + 1) = hist
  BY <1>1, <1>5, AppendFacts, AppendPrefix
<1>7. new.records[h] = rec /\ \A g \in Hashes \ {h} : new.records[g] = st.records[g]
  <2> HIDE DEF rec, new
  <2> QED BY <1>2, StoreFields
<1>8. /\ new.historyHash[s] = hist /\ new.historyLen[s] = n + 1
      /\ \A u \in Submitters \ {s} : /\ new.historyHash[u] = st.historyHash[u]
                                   /\ new.historyLen[u] = st.historyLen[u]
  <2> HIDE DEF hist, new, n
  <2> QED BY <1>2, StoreFields
<1>9. \A u \in Submitters : st.historyLen[u] = Len(st.historyHash[u]) /\ st.historyLen[u] \in Nat
  BY StoreFields DEF Chained
<1>10. \A g \in Hashes : Exists(st, g) =>
         /\ g # h
         /\ st.records[g].submitter \in Submitters
         /\ st.records[g].historyLen \in 1 .. st.historyLen[st.records[g].submitter]
         /\ st.records[g].historyHash =
              SubSeq(st.historyHash[st.records[g].submitter], 1, st.records[g].historyLen)
         /\ st.records[g].historyHash[st.records[g].historyLen] =
              (IF which \in Contracts THEN g ELSE st.records[g].at)
  BY DEF Chained
<1>11. \A f, g \in Hashes :
         /\ Exists(st, f) /\ Exists(st, g)
         /\ st.records[f].submitter = st.records[g].submitter
         /\ st.records[f].historyLen = st.records[g].historyLen
         => f = g
  BY DEF Chained
<1>12. \A u \in Submitters : \A k \in 1 .. st.historyLen[u] :
         \E g \in Hashes : /\ Exists(st, g)
                           /\ st.records[g].submitter = u
                           /\ st.records[g].historyLen = k
  BY DEF Chained
<1>13. link = (IF which \in Contracts THEN h ELSE rec.at)
  BY <1>3
<1> HIDE DEF new, rec, hist, n, old, link
<1>14. ASSUME NEW u \in Submitters
       PROVE  new.historyLen[u] = Len(new.historyHash[u])
  BY <1>6, <1>8, <1>9
<1>15. ASSUME NEW g \in Hashes, Exists(new, g)
       PROVE  /\ new.records[g].submitter \in Submitters
              /\ new.records[g].historyLen \in 1 .. new.historyLen[new.records[g].submitter]
              /\ new.records[g].historyHash =
                   SubSeq(new.historyHash[new.records[g].submitter], 1, new.records[g].historyLen)
              /\ new.records[g].historyHash[new.records[g].historyLen] =
                   (IF which \in Contracts THEN g ELSE new.records[g].at)
  <2>1. CASE g = h
    BY <1>3, <1>5, <1>6, <1>7, <1>8, <1>13, <2>1
  <2>2. CASE g # h
    <3>1. Exists(st, g) /\ new.records[g] = st.records[g]
      BY <1>4, <1>7, <1>15, <2>2
    <3>2. CASE st.records[g].submitter = s
      <4>1. st.records[g].historyLen \in 1 .. n
        BY <1>10, <3>1, <3>2 DEF n
      <4>2. SubSeq(hist, 1, st.records[g].historyLen) = st.records[g].historyHash
        BY <1>6, <1>10, <3>1, <3>2, <4>1 DEF old
      <4> QED
        BY <1>5, <1>8, <1>10, <3>1, <3>2, <4>1, <4>2
    <3>3. CASE st.records[g].submitter # s
      <4> DEFINE u == st.records[g].submitter
      <4>1. u \in Submitters \ {s}
        BY <1>10, <3>1, <3>3
      <4>2. new.historyHash[u] = st.historyHash[u] /\ new.historyLen[u] = st.historyLen[u]
        BY <1>8, <4>1
      <4> QED
        BY <1>10, <3>1, <4>1, <4>2
    <3> QED
      BY <3>2, <3>3
  <2> QED
    BY <2>1, <2>2
<1>16. ASSUME NEW f \in Hashes, NEW g \in Hashes, Exists(new, f), Exists(new, g),
              new.records[f].submitter = new.records[g].submitter,
              new.records[f].historyLen = new.records[g].historyLen
       PROVE  f = g
  <2>1. ASSUME NEW k \in Hashes, k # h, Exists(new, k), new.records[k].submitter = s
        PROVE  new.records[k].historyLen # n + 1
    <3>1. Exists(st, k) /\ new.records[k] = st.records[k]
      BY <1>4, <1>7, <2>1
    <3>2. st.records[k].historyLen \in 1 .. n
      BY <1>10, <2>1, <3>1 DEF n
    <3> QED
      BY <1>5, <3>1, <3>2
  <2>2. CASE f # h /\ g # h
    BY <1>4, <1>7, <1>11, <1>16, <2>2
  <2>3. CASE f = h \/ g = h
    BY <1>3, <1>7, <1>16, <2>1, <2>3
  <2> QED
    BY <2>2, <2>3
<1>17. ASSUME NEW u \in Submitters, NEW k \in 1 .. new.historyLen[u]
       PROVE  \E g \in Hashes : /\ Exists(new, g)
                                /\ new.records[g].submitter = u
                                /\ new.records[g].historyLen = k
  <2>1. CASE u = s /\ k = n + 1
    BY <1>3, <1>4, <1>7, <2>1
  <2>2. CASE k \in 1 .. st.historyLen[u]
    <3>1. PICK g \in Hashes : /\ Exists(st, g)
                               /\ st.records[g].submitter = u
                               /\ st.records[g].historyLen = k
      BY <1>12, <2>2
    <3> QED
      BY <1>4, <1>7, <1>10, <3>1
  <2>3. (u = s /\ k = n + 1) \/ k \in 1 .. st.historyLen[u]
    BY <1>5, <1>8, <1>17 DEF n
  <2> QED
    BY <2>1, <2>2, <2>3
<1>18. Chained(new)
  BY <1>14, <1>15, <1>16, <1>17 DEF Chained
<1> QED
  BY <1>18 DEF new, link

LEMMA HistoryStep == TypeOK /\ HistoryInv /\ [Next]_vars => HistoryInv'
<1> SUFFICES ASSUME TypeOK, HistoryInv, [Next]_vars PROVE HistoryInv'
  OBVIOUS
<1>1. CASE UNCHANGED vars
  BY <1>1 DEF HistoryInv, vars, Chained, Exists
<1>2. CASE Next
  <2>1. ASSUME Wrote(store, store', txs'), txs' \in Nat, txs' # 0
        PROVE  Chained(store')
    BY <2>1, RecordedChained DEF Wrote, TypeOK, HistoryInv
  <2>2. Chained(store') /\ Chained(final')
    BY <1>2, <2>1, StepShape DEF HistoryInv
  <2>3. which' = which
    BY <1>2, StepShape
  <2>4. Chained(store)'
    BY <2>2, <2>3 DEF Chained, Exists
  <2>5. Chained(final)'
    BY <2>2, <2>3 DEF Chained, Exists
  <2> QED
    BY <2>4, <2>5 DEF HistoryInv
<1> QED
  BY <1>1, <1>2

\* Each submitter's records rebuild its history chain, in contracts that link
\* content hashes and in services that link transaction hashes.
THEOREM HistoryCorrect == Spec => []HistoryRebuilds
<1>1. Init => HistoryInv
  BY EmptyChained DEF Init, HistoryInv
<1>2. HistoryInv => HistoryRebuilds
  BY DEF HistoryInv, HistoryRebuilds
<1> QED
  BY <1>1, <1>2, TypeInit, TypeStep, HistoryStep, PTL DEF Spec

-----------------------------------------------------------------------------
(***************************************************************************)
(* The list page of a visitor who waits for every answer.  The places of   *)
(* the index are counted from the oldest record, so that new records leave *)
(* them alone: what the page has not shown of the records known at the     *)
(* first answer lies at or below a place that only the older pages lower.  *)
(***************************************************************************)
LoadRecords == [pc: {"sent", "answered", "done"}, offset: Nat, items: Seq(Hashes), total: Nat]

Views  == [offset: Nat, items: Seq(Hashes), total: Nat]
Visits == [known: SUBSET Hashes, seen: SUBSET Hashes, waited: BOOLEAN]

ReadersOK ==
  /\ loads \in Seq(LoadRecords)
  /\ view \in Views
  /\ visit \in Visits
  /\ loads # << >> => which \in Services

\* Every record known at the first answer, above place c of the index, is in S.
ShownAbove(c, S) ==
  \A i \in 1 .. Len(store.ordered) : store.ordered[i] \in visit.known /\ i > c => store.ordered[i] \in S

\* Only the last request is under way, and it is one for the page of the view.
OneAtATime ==
  LET n == Len(loads)
  IN  /\ \A k \in 1 .. n - 1 : loads[k].pc = "done"
      /\ n # 0 => loads[n].offset = view.offset
      /\ n = 0 => view.total = 0

\* What was shown before the request, or is once its answer is.
Shown ==
  LET n == Len(loads)
  IN  n # 0 =>
        /\ loads[n].pc = "sent" =>
             /\ n = 1 => visit.known = {} /\ view.offset = 0
             /\ ShownAbove(view.total - view.offset, visit.seen)
        /\ loads[n].pc = "answered" =>
             /\ loads[n].total <= Len(store.ordered)
             /\ ShownAbove(loads[n].total - view.offset - Limit, visit.seen \cup ToSet(loads[n].items))
        /\ loads[n].pc = "done" => ShownAbove(view.total - view.offset - Limit, visit.seen)

VisitInv ==
  /\ \A h \in visit.known : \E i \in 1 .. Len(store.ordered) : store.ordered[i] = h
  /\ loads = << >> => visit.known = {}
  /\ visit.waited => view.total <= Len(store.ordered) /\ OneAtATime /\ Shown


\* Of the readers' steps only those of the store change it.
LEMMA ReadersOnlyRead == [ReadNext]_readVars => [Next]_vars
  BY DEF ReadNext, readVars, vars, Explorer, StartSearch, FetchPage, FetchRecords, ShowCards, FailSearch,
         ListPage, Mounted, Newer, Older, Load, AnswerList, Arrive, FailLoad

\* The step of a store as the list page sees it.
LEMMA ServicesAppend ==
  ASSUME TypeOK, which \in Services, [Next]_vars
  PROVE  /\ which' = which
         /\ \/ store'.ordered = store.ordered
            \/ \E h \in Hashes : store'.ordered = Append(store.ordered, h)
  <1>1. which \notin Contracts
    BY DEF Contracts, Services
  <1>2. reorgs' # reorgs + 1
    <2>1. reorgs' = reorgs
      BY <1>1 DEF Next, vars, Write, LogStoreWrite, HashStoreWrite, BatchStoreWrite, WriteLog, WriteHash,
           WriteBatch, ContractWrite, ServiceWrite, Finalize, Reorg
    <2> QED BY <2>1 DEF TypeOK
  <1>3. which' = which
    BY DEF Next, vars, Write, LogStoreWrite, HashStoreWrite, BatchStoreWrite, WriteLog, WriteHash,
         WriteBatch, ContractWrite, ServiceWrite, Finalize, Reorg
  <1> QED BY <1>2, <1>3, AppendsStep

\* A page of the list endpoint: its type and the places it shows.
LEMMA ListFacts ==
  ASSUME NEW st \in StoreStates, NEW offset \in Nat, NEW limit \in Nat
  PROVE  /\ List(st, offset, limit) \in Seq(Hashes)
         /\ limit <= MaxLimit =>
              \A i \in 1 .. Len(st.ordered) :
                i > Len(st.ordered) - offset - limit /\ i <= Len(st.ordered) - offset =>
                  st.ordered[i] \in ToSet(List(st, offset, limit))
  <1> DEFINE n     == Len(st.ordered)
             end   == SaturatingSub(n, offset)
             start == SaturatingSub(end, IF limit > MaxLimit THEN MaxLimit ELSE limit)
             page  == [i \in 1 .. (end - start) |-> st.ordered[end - i + 1]]
  <1>1. st.ordered \in Seq(Hashes) /\ n \in Nat /\ MaxLimit \in Nat
    BY StoreFields, StoresAssumption
  <1>2. end \in 0 .. n /\ start \in 0 .. end
    <2>1. \A a, b \in Nat : SaturatingSub(a, b) \in 0 .. a
      BY DEF SaturatingSub
    <2>2. PICK most \in Nat : most = IF limit > MaxLimit THEN MaxLimit ELSE limit
      BY <1>1
    <2>3. end \in 0 .. n
      BY <2>1, <1>1
    <2> HIDE DEF end, n
    <2>4. start = SaturatingSub(end, most)
      BY <2>2, Zenon
    <2> HIDE DEF start
    <2> QED BY <2>1, <2>3, <2>4, <1>1
  <1>3. limit <= MaxLimit =>
          \A i \in 1 .. n : i > n - offset - limit /\ i <= n - offset => i \in start + 1 .. end
    BY <1>1 DEF SaturatingSub
  <1>4. List(st, offset, limit) = page
    BY DEF List
  <1> HIDE DEF end, start, n
  <1>5. \A i \in 1 .. (end - start) : end - i + 1 \in 1 .. n
    BY <1>1, <1>2
  <1>6. page \in Seq(Hashes)
    <2>1. \A i \in 1 .. (end - start) : st.ordered[end - i + 1] \in Hashes
      BY <1>1, <1>5 DEF n
    <2>2. end - start \in Nat
      BY <1>1, <1>2
    <2> QED BY <2>1, <2>2
  <1>7. \A i \in start + 1 .. end : st.ordered[i] \in ToSet(page)
    <2> TAKE i \in start + 1 .. end
    <2>1. end - i + 1 \in 1 .. (end - start) /\ end - (end - i + 1) + 1 = i
      BY <1>1, <1>2
    <2>2. page[end - i + 1] = st.ordered[i]
      BY <2>1
    <2>3. DOMAIN page = 1 .. (end - start)
      OBVIOUS
    <2> QED BY <2>1, <2>2, <2>3 DEF ToSet
  <1> QED BY <1>3, <1>4, <1>6, <1>7 DEF n

LEMMA ElementsType == \A q \in Seq(Hashes) : ToSet(q) \subseteq Hashes
  BY DEF ToSet

\* The fields of the list page's records, and records with some of them changed.
LEMMA LoadFields ==
  ASSUME NEW r \in LoadRecords
  PROVE  /\ r.pc \in {"sent", "answered", "done"} /\ r.offset \in Nat
         /\ r.items \in Seq(Hashes) /\ r.total \in Nat
         /\ \A pc \in {"sent", "answered", "done"} :
              LET new == [r EXCEPT !.pc = pc]
              IN  /\ new \in LoadRecords /\ new.pc = pc /\ new.offset = r.offset
                  /\ new.items = r.items /\ new.total = r.total
  BY DEF LoadRecords

LEMMA ViewFields ==
  ASSUME NEW v \in Views
  PROVE  /\ v.offset \in Nat /\ v.items \in Seq(Hashes) /\ v.total \in Nat
         /\ \A offset \in Nat :
              LET new == [v EXCEPT !.offset = offset]
              IN  new \in Views /\ new.offset = offset /\ new.items = v.items /\ new.total = v.total
  BY DEF Views

LEMMA VisitFields ==
  ASSUME NEW v \in Visits
  PROVE  /\ v.known \subseteq Hashes /\ v.seen \subseteq Hashes /\ v.waited \in BOOLEAN
         /\ \A set \in SUBSET Hashes :
              LET new == [v EXCEPT !.known = set]
              IN  new \in Visits /\ new.known = set /\ new.seen = v.seen /\ new.waited = v.waited
         /\ \A set \in SUBSET Hashes :
              LET new == [v EXCEPT !.seen = set]
              IN  new \in Visits /\ new.known = v.known /\ new.seen = set /\ new.waited = v.waited
         /\ \A w \in BOOLEAN :
              LET new == [v EXCEPT !.waited = w]
              IN  new \in Visits /\ new.known = v.known /\ new.seen = v.seen /\ new.waited = w
  BY DEF Visits

\* The operations of the page, field by field.
LEMMA LoadShape ==
  ASSUME ReadersOK, NEW offset \in Nat, Load(offset)
  PROVE  /\ UNCHANGED vars
         /\ loads' \in Seq(LoadRecords) /\ Len(loads') = Len(loads) + 1
         /\ \A k \in 1 .. Len(loads) : loads'[k] = loads[k]
         /\ loads'[Len(loads) + 1].pc = "sent" /\ loads'[Len(loads) + 1].offset = offset
         /\ view' \in Views /\ view'.offset = offset /\ view'.total = view.total
         /\ visit' \in Visits /\ visit'.known = visit.known /\ visit'.seen = visit.seen
         /\ visit'.waited => visit.waited /\ Outstanding = {}
  <1> DEFINE new == [pc |-> "sent", offset |-> offset, items |-> << >>, total |-> 0]
  <1>1. << >> \in Seq(Hashes)
    OBVIOUS
  <1>2. new \in LoadRecords /\ new.pc = "sent" /\ new.offset = offset
    BY <1>1 DEF LoadRecords
  <1>3. loads' = Append(loads, new)
    BY DEF Load
  <1> HIDE DEF new
  <1>4. /\ loads' \in Seq(LoadRecords) /\ Len(loads') = Len(loads) + 1
        /\ \A k \in 1 .. Len(loads) : loads'[k] = loads[k]
        /\ loads'[Len(loads) + 1] = new
    BY <1>2, <1>3, AppendFacts DEF ReadersOK
  <1>5. view' \in Views /\ view'.offset = offset /\ view'.total = view.total
    BY ViewFields DEF Load, ReadersOK
  <1>6. PICK w : w = (visit.waited /\ Outstanding = {})
    OBVIOUS
  <1>7. visit' = [visit EXCEPT !.waited = w] /\ w \in BOOLEAN
    BY <1>6 DEF Load
  <1>8. /\ visit' \in Visits /\ visit'.known = visit.known /\ visit'.seen = visit.seen
        /\ visit'.waited = w
    BY <1>7, VisitFields DEF ReadersOK
  <1> QED BY <1>2, <1>4, <1>5, <1>6, <1>8 DEF Load

LEMMA AnswerShape ==
  ASSUME TypeOK, ReadersOK, NEW n \in DOMAIN loads, AnswerList(n)
  PROVE  /\ UNCHANGED vars /\ UNCHANGED view /\ loads[n].pc = "sent"
         /\ loads' \in Seq(LoadRecords) /\ Len(loads') = Len(loads)
         /\ \A k \in 1 .. Len(loads) : k # n => loads'[k] = loads[k]
         /\ loads'[n].pc = "answered" /\ loads'[n].offset = loads[n].offset
         /\ loads'[n].items = List(store, loads[n].offset, Limit)
         /\ loads'[n].total = Len(store.ordered)
         /\ visit' \in Visits /\ visit'.seen = visit.seen /\ visit'.waited = visit.waited
         /\ visit'.known = IF n = 1 THEN ToSet(store.ordered) ELSE visit.known
  <1>1. loads[n] \in LoadRecords /\ store \in StoreStates /\ Limit \in Nat
    BY ReadersAssumption DEF ReadersOK, TypeOK
  <1>2. PICK items : items = List(store, loads[n].offset, Limit)
    OBVIOUS
  <1>3. PICK total : total = Len(store.ordered)
    OBVIOUS
  <1>4. items \in Seq(Hashes) /\ total \in Nat
    <2>1. loads[n].offset \in Nat
      BY <1>1, LoadFields
    <2>2. items \in Seq(Hashes)
      BY <1>1, <1>2, <2>1, ListFacts
    <2> QED BY <1>1, <1>3, <2>2, StoreFields
  <1>5. PICK new : new = [loads[n] EXCEPT !.pc = "answered", !.items = items, !.total = total]
    OBVIOUS
  <1>6. /\ new \in LoadRecords /\ new.pc = "answered" /\ new.offset = loads[n].offset
        /\ new.items = items /\ new.total = total
    <2>1. PICK r \in LoadRecords : r = loads[n]
      BY <1>1
    <2>2. new = [r EXCEPT !.pc = "answered", !.items = items, !.total = total]
      BY <1>5, <2>1
    <2> QED BY <1>4, <2>1, <2>2 DEF LoadRecords
  <1>7. loads' = [loads EXCEPT ![n] = new]
    BY <1>2, <1>3, <1>5 DEF AnswerList
  <1>8. /\ loads' \in Seq(LoadRecords) /\ Len(loads') = Len(loads)
        /\ \A k \in 1 .. Len(loads) : k # n => loads'[k] = loads[k]
        /\ loads'[n] = new
    BY <1>6, <1>7 DEF ReadersOK
  <1>9. PICK set : set = IF n = 1 THEN ToSet(store.ordered) ELSE visit.known
    OBVIOUS
  <1>10. set \subseteq Hashes
    <2>1. ToSet(store.ordered) \subseteq Hashes
      BY <1>1, StoreFields, ElementsType
    <2>2. visit.known \subseteq Hashes
      BY VisitFields DEF ReadersOK
    <2> QED BY <1>9, <2>1, <2>2
  <1>11. visit' = [visit EXCEPT !.known = set]
    BY <1>9 DEF AnswerList
  <1>12. /\ visit' \in Visits /\ visit'.seen = visit.seen /\ visit'.waited = visit.waited
         /\ visit'.known = set
    BY <1>10, <1>11, VisitFields DEF ReadersOK
  <1>13. UNCHANGED vars /\ UNCHANGED view /\ loads[n].pc = "sent"
    BY DEF AnswerList
  <1> QED BY <1>2, <1>3, <1>6, <1>8, <1>9, <1>12, <1>13

LEMMA ArriveShape ==
  ASSUME ReadersOK, NEW n \in DOMAIN loads, Arrive(n)
  PROVE  /\ UNCHANGED vars /\ loads[n].pc = "answered"
         /\ loads' \in Seq(LoadRecords) /\ Len(loads') = Len(loads)
         /\ \A k \in 1 .. Len(loads) : k # n => loads'[k] = loads[k]
         /\ loads'[n].pc = "done" /\ loads'[n].offset = loads[n].offset
         /\ view' \in Views /\ view'.offset = view.offset /\ view'.total = loads[n].total
         /\ visit' \in Visits /\ visit'.known = visit.known /\ visit'.waited = visit.waited
         /\ visit'.seen = visit.seen \cup ToSet(loads[n].items)
  <1>1. loads[n] \in LoadRecords
    BY DEF ReadersOK
  <1>2. PICK new : new = [loads[n] EXCEPT !.pc = "done"]
    OBVIOUS
  <1>3. new \in LoadRecords /\ new.pc = "done" /\ new.offset = loads[n].offset
    BY <1>1, <1>2, LoadFields
  <1>4. loads' = [loads EXCEPT ![n] = new]
    BY <1>2 DEF Arrive
  <1>5. /\ loads' \in Seq(LoadRecords) /\ Len(loads') = Len(loads)
        /\ \A k \in 1 .. Len(loads) : k # n => loads'[k] = loads[k]
        /\ loads'[n] = new
    BY <1>3, <1>4 DEF ReadersOK
  <1>6. loads[n].items \in Seq(Hashes) /\ loads[n].total \in Nat
    BY <1>1, LoadFields
  <1>7. view' = [view EXCEPT !.items = loads[n].items, !.total = loads[n].total]
    BY DEF Arrive
  <1>8. view' \in Views /\ view'.offset = view.offset /\ view'.total = loads[n].total
    <2>1. PICK items \in Seq(Hashes), total \in Nat : items = loads[n].items /\ total = loads[n].total
      BY <1>6
    <2>2. PICK v \in Views : v = view
      BY DEF ReadersOK
    <2>3. view' = [v EXCEPT !.items = items, !.total = total]
      BY <1>7, <2>1, <2>2
    <2> QED BY <2>1, <2>2, <2>3 DEF Views
  <1>9. PICK set : set = visit.seen \cup ToSet(loads[n].items)
    OBVIOUS
  <1>10. set \subseteq Hashes
    <2>1. ToSet(loads[n].items) \subseteq Hashes
      BY <1>6, ElementsType
    <2>2. visit.seen \subseteq Hashes
      BY VisitFields DEF ReadersOK
    <2> QED BY <1>9, <2>1, <2>2
  <1>11. visit' = [visit EXCEPT !.seen = set]
    BY <1>9 DEF Arrive
  <1>12. /\ visit' \in Visits /\ visit'.known = visit.known /\ visit'.waited = visit.waited
         /\ visit'.seen = set
    BY <1>10, <1>11, VisitFields DEF ReadersOK
  <1>13. UNCHANGED vars /\ loads[n].pc = "answered"
    BY DEF Arrive
  <1> QED BY <1>3, <1>5, <1>8, <1>9, <1>12, <1>13

LEMMA FailShape ==
  ASSUME ReadersOK, NEW n \in DOMAIN loads, FailLoad(n)
  PROVE  /\ UNCHANGED vars /\ UNCHANGED view
         /\ loads' \in Seq(LoadRecords) /\ Len(loads') = Len(loads)
         /\ visit' \in Visits /\ visit'.known = visit.known /\ ~ visit'.waited
  <1>1. loads[n] \in LoadRecords
    BY DEF ReadersOK
  <1>2. PICK new : new = [loads[n] EXCEPT !.pc = "done"]
    OBVIOUS
  <1>3. new \in LoadRecords
    BY <1>1, <1>2, LoadFields
  <1>4. loads' = [loads EXCEPT ![n] = new]
    BY <1>2 DEF FailLoad
  <1>5. loads' \in Seq(LoadRecords) /\ Len(loads') = Len(loads)
    BY <1>3, <1>4 DEF ReadersOK
  <1>6. visit' = [visit EXCEPT !.waited = FALSE]
    BY DEF FailLoad
  <1>7. visit' \in Visits /\ visit'.known = visit.known /\ ~ visit'.waited
    BY <1>6, VisitFields DEF ReadersOK
  <1> QED BY <1>5, <1>7 DEF FailLoad

\* What a request of the page is: one of three presses, none of which skips a record.
LEMMA RequestShape ==
  ASSUME ReadersOK, Mounted \/ Newer \/ Older
  PROVE  \E offset \in Nat : /\ Load(offset) /\ which \in Services
                             /\ loads = << >> => offset = 0
                             /\ offset <= view.offset + Limit
  <1>1. view.offset \in Nat /\ Limit \in Nat
    BY ViewFields, ReadersAssumption DEF ReadersOK
  <1>2. CASE Mounted
    BY <1>1, <1>2 DEF Mounted
  <1>3. CASE Newer
    BY <1>1, <1>3 DEF Newer, ReadersOK, SaturatingSub
  <1>4. CASE Older
    BY <1>1, <1>4 DEF Older, ReadersOK
  <1> QED BY <1>2, <1>3, <1>4

LEMMA ReadersInit == ReadInit => ReadersOK /\ VisitInv
  <1> SUFFICES ASSUME ReadInit
               PROVE  ReadersOK /\ VisitInv
    OBVIOUS
  <1>1. << >> \in Seq(Hashes) /\ << >> \in Seq(LoadRecords)
    OBVIOUS
  <1>2. view \in Views /\ visit \in Visits
    BY <1>1 DEF ReadInit, Views, Visits
  <1>3. Len(loads) = 0 /\ view.total = 0 /\ visit.known = {} /\ store.ordered = << >>
    BY DEF ReadInit, Init, EmptyStore
  <1> QED BY <1>1, <1>2, <1>3 DEF ReadInit, ReadersOK, VisitInv, OneAtATime, Shown

LEMMA ReadersStep == TypeOK /\ ReadersOK /\ [ReadNext]_readVars => ReadersOK'
  <1> SUFFICES ASSUME TypeOK, ReadersOK, [ReadNext]_readVars
               PROVE  ReadersOK'
    OBVIOUS
  <1>1. CASE UNCHANGED <<which, view, loads, visit>>
    BY <1>1 DEF ReadersOK
  <1>2. CASE Next /\ UNCHANGED readerVars
    BY <1>1, <1>2, StepShape DEF readerVars
  <1>3. CASE Explorer
    BY <1>3, <1>1 DEF Explorer, StartSearch, FetchPage, FetchRecords, ShowCards, FailSearch, vars
  <1>4. CASE UNCHANGED readVars
    BY <1>4, <1>1 DEF readVars, readerVars, vars
  <1>5. CASE Mounted \/ Newer \/ Older
    BY <1>5, RequestShape, LoadShape DEF ReadersOK, vars
  <1>6. ASSUME NEW n \in DOMAIN loads, AnswerList(n) \/ Arrive(n) \/ FailLoad(n)
        PROVE  ReadersOK'
    <2>1. loads # << >>
      OBVIOUS
    <2>2. which' = which /\ view' \in Views /\ visit' \in Visits /\ loads' \in Seq(LoadRecords)
      BY <1>6, AnswerShape, ArriveShape, FailShape DEF ReadersOK, vars
    <2> QED BY <2>1, <2>2 DEF ReadersOK
  <1> QED BY <1>2, <1>3, <1>4, <1>5, <1>6 DEF ReadNext, ListPage

\* A write leaves what was shown, and adds nothing to what was known.
LEMMA VisitKept ==
  ASSUME TypeOK, IndexListsRecords', ReadersOK, VisitInv, [Next]_vars, UNCHANGED <<view, loads, visit>>,
         TypeOK'
  PROVE  VisitInv'
  <1>1. CASE loads = << >>
    <2>1. visit.known = {} /\ (visit.waited => view.total = 0)
      BY <1>1 DEF VisitInv, OneAtATime
    <2>2. Len(store.ordered)' \in Nat
      BY StoreFields DEF TypeOK
    <2> QED BY <1>1, <2>1, <2>2 DEF VisitInv, OneAtATime, Shown
  <1>2. CASE loads # << >>
    <2> DEFINE o == store.ordered
               p == store'.ordered
    <2>1. p = o \/ \E h \in Hashes : p = Append(o, h)
      BY <1>2, ServicesAppend DEF ReadersOK
    <2>2. o \in Seq(Hashes)
      BY StoreFields DEF TypeOK
    <2>3. /\ Len(o) \in Nat /\ Len(p) \in {Len(o), Len(o) + 1}
          /\ \A i \in 1 .. Len(o) : p[i] = o[i]
      BY <2>1, <2>2, AppendFacts
    <2>4. \A i, j \in 1 .. Len(p) : p[i] = p[j] => i = j
      BY DEF IndexListsRecords, Indexed
    <2>5. \A h \in visit.known : \E i \in 1 .. Len(o) : o[i] = h
      BY DEF VisitInv
    <2> HIDE DEF o, p
    <2>6. \A h \in visit.known : \E i \in 1 .. Len(p) : p[i] = h
      BY <2>3, <2>5
    <2>7. \A i \in 1 .. Len(p) : p[i] \in visit.known => i \in 1 .. Len(o) /\ p[i] = o[i]
      BY <2>3, <2>4, <2>5
    <2>8. ASSUME NEW c, NEW S, ShownAbove(c, S)
          PROVE  \A i \in 1 .. Len(p) : p[i] \in visit.known /\ i > c => p[i] \in S
      BY <2>7, <2>8 DEF ShownAbove, o
    <2>9. (view.total <= Len(o)) => (view.total <= Len(p))
      BY <2>3, ViewFields DEF ReadersOK
    <2>10. ASSUME Shown, loads[Len(loads)] \in LoadRecords
           PROVE  Shown'
      <3>1. loads[Len(loads)].total <= Len(o) => loads[Len(loads)].total <= Len(p)
        <4>1. PICK t \in Nat : t = loads[Len(loads)].total
          BY <2>10, LoadFields
        <4> QED BY <2>3, <4>1
      <3> QED BY <2>8, <2>10, <3>1 DEF Shown, ShownAbove, o, p
    <2>11. loads[Len(loads)] \in LoadRecords
      BY <1>2 DEF ReadersOK
    <2> QED BY <1>2, <2>6, <2>9, <2>10, <2>11 DEF VisitInv, OneAtATime, o, p
  <1> QED BY <1>1, <1>2

\* A request: nothing above the page it asks for is left out.
LEMMA VisitRequest ==
  ASSUME TypeOK, ReadersOK, VisitInv, Mounted \/ Newer \/ Older
  PROVE  VisitInv'
  <1>1. PICK offset \in Nat : /\ Load(offset)
                              /\ loads = << >> => offset = 0
                              /\ offset <= view.offset + Limit
    BY RequestShape
  <1> DEFINE n == Len(loads)
  <1>2. /\ UNCHANGED vars
        /\ Len(loads') = n + 1 /\ n \in Nat
        /\ \A k \in 1 .. n : loads'[k] = loads[k]
        /\ loads'[n + 1].pc = "sent" /\ loads'[n + 1].offset = offset
        /\ view'.offset = offset /\ view'.total = view.total
        /\ visit'.known = visit.known /\ visit'.seen = visit.seen
        /\ visit'.waited => visit.waited /\ Outstanding = {}
    BY <1>1, LoadShape DEF ReadersOK
  <1>3. Limit \in Nat /\ view.offset \in Nat /\ view.total \in Nat
    BY ViewFields, ReadersAssumption DEF ReadersOK
  <1>4. loads' # << >> /\ UNCHANGED store
    BY <1>2 DEF vars
  <1>5. n = 0 <=> loads = << >>
    BY DEF ReadersOK
  <1> HIDE DEF n
  <1>6. ASSUME visit'.waited
        PROVE  (view.total <= Len(store.ordered) /\ OneAtATime /\ Shown)'
    <2>1. VisitInv /\ visit.waited /\ OneAtATime /\ Shown /\ view.total <= Len(store.ordered)
      BY <1>2, <1>6 DEF VisitInv
    <2>2. \A k \in 1 .. n : loads[k].pc = "done"
      <3>1. DOMAIN loads = 1 .. n
        BY DEF ReadersOK, n
      <3> QED BY <1>2, <1>6, <3>1 DEF Outstanding
    <2>3. OneAtATime'
      <3>1. \A k \in 1 .. n : loads'[k].pc = "done"
        BY <1>2, <2>2
      <3> QED BY <1>2, <3>1 DEF OneAtATime
    <2>4. ShownAbove(view.total - offset, visit.seen)
      <3>1. CASE n = 0
        <4>1. visit.known = {}
          BY <1>5, <3>1, <2>1 DEF VisitInv
        <4> QED BY <4>1 DEF ShownAbove
      <3>2. CASE n # 0
        <4>1. loads[n].pc = "done"
          BY <1>2, <2>2, <3>2
        <4>2. ShownAbove(view.total - view.offset - Limit, visit.seen)
          BY <2>1, <3>2, <4>1 DEF Shown, n
        <4>3. view.total - view.offset - Limit <= view.total - offset
          BY <1>1, <1>3
        <4>4. \A i \in 1 .. Len(store.ordered) :
                i > view.total - offset => i > view.total - view.offset - Limit
          BY <1>3, <4>3
        <4> QED BY <4>2, <4>4 DEF ShownAbove
      <3> QED BY <3>1, <3>2
    <2>5. ShownAbove(view.total - view.offset, visit.seen)'
      BY <1>2, <1>4, <2>4 DEF ShownAbove
    <2>6. n + 1 = 1 => visit'.known = {} /\ view'.offset = 0
      BY <1>1, <1>2, <1>5, <2>1 DEF VisitInv
    <2>7. Shown'
      BY <1>2, <2>5, <2>6 DEF Shown
    <2> QED BY <1>2, <1>4, <2>1, <2>3, <2>7
  <1> QED BY <1>2, <1>4, <1>6 DEF VisitInv

\* An answer: the page asked for, as the store has it now.
LEMMA VisitAnswered ==
  ASSUME TypeOK, ReadersOK, VisitInv, Limit <= MaxLimit, NEW n \in DOMAIN loads, AnswerList(n)
  PROVE  VisitInv'
  <1>1. /\ UNCHANGED vars /\ UNCHANGED view /\ loads[n].pc = "sent"
        /\ Len(loads') = Len(loads)
        /\ \A k \in 1 .. Len(loads) : k # n => loads'[k] = loads[k]
        /\ loads'[n].pc = "answered" /\ loads'[n].offset = loads[n].offset
        /\ loads'[n].items = List(store, loads[n].offset, Limit)
        /\ loads'[n].total = Len(store.ordered)
        /\ visit'.seen = visit.seen /\ visit'.waited = visit.waited
        /\ visit'.known = IF n = 1 THEN ToSet(store.ordered) ELSE visit.known
    BY AnswerShape
  <1>2. /\ Limit \in Nat /\ view.offset \in Nat /\ view.total \in Nat
        /\ store.ordered \in Seq(Hashes) /\ store \in StoreStates
    BY ViewFields, StoreFields, ReadersAssumption DEF ReadersOK, TypeOK
  <1>3. UNCHANGED store /\ n \in 1 .. Len(loads) /\ Len(loads) \in Nat /\ loads' # << >>
    BY <1>1, AnswerShape DEF vars, ReadersOK
  <1>4. \A h \in visit'.known : \E i \in 1 .. Len(store.ordered) : store.ordered[i] = h
    <2>1. \A h \in ToSet(store.ordered) : \E i \in 1 .. Len(store.ordered) : store.ordered[i] = h
      BY <1>2 DEF ToSet
    <2>2. \A h \in visit.known : \E i \in 1 .. Len(store.ordered) : store.ordered[i] = h
      BY DEF VisitInv
    <2> QED BY <1>1, <2>1, <2>2
  <1>5. ASSUME visit.waited
        PROVE  (view.total <= Len(store.ordered) /\ OneAtATime /\ Shown)'
    <2>1. VisitInv /\ OneAtATime /\ Shown /\ view.total <= Len(store.ordered)
      BY <1>5 DEF VisitInv
    <2>2. n = Len(loads)
      <3>1. \A k \in 1 .. Len(loads) - 1 : loads[k].pc = "done"
        BY <2>1 DEF OneAtATime
      <3>2. n \notin 1 .. Len(loads) - 1
        BY <1>1, <3>1
      <3> QED BY <1>3, <3>2
    <2>3. loads[n].offset = view.offset
      BY <1>3, <2>1, <2>2 DEF OneAtATime
    <2>4. OneAtATime'
      <3>1. \A k \in 1 .. Len(loads) - 1 : loads'[k].pc = "done"
        BY <1>1, <1>3, <2>1, <2>2 DEF OneAtATime
      <3> QED BY <1>1, <1>3, <2>2, <2>3, <3>1 DEF OneAtATime
    <2> DEFINE total == Len(store.ordered)
               page  == List(store, view.offset, Limit)
    <2>5. \A i \in 1 .. total : i > total - view.offset - Limit /\ i <= total - view.offset =>
            store.ordered[i] \in ToSet(page)
      BY <1>2, ListFacts
    <2>6. ASSUME NEW i \in 1 .. total, store.ordered[i] \in visit'.known, i > total - view.offset
          PROVE  store.ordered[i] \in visit.seen
      <3>1. ShownAbove(view.total - view.offset, visit.seen) /\ (n = 1 => view.offset = 0)
        BY <1>1, <1>3, <2>1, <2>2 DEF Shown
      <3>2. total \in Nat /\ view.total <= total
        BY <1>2, <2>1
      <3>3. n # 1
        BY <2>6, <3>1, <3>2
      <3>4. i > view.total - view.offset
        BY <1>2, <2>6, <3>2
      <3> QED BY <1>1, <2>6, <3>1, <3>3, <3>4 DEF ShownAbove
    <2>7. ASSUME NEW i \in 1 .. total, store.ordered[i] \in visit'.known, i > total - view.offset - Limit
          PROVE  store.ordered[i] \in visit.seen \cup ToSet(page)
      <3>1. total \in Nat
        BY <1>2
      <3>2. i <= total - view.offset \/ i > total - view.offset
        BY <1>2, <3>1
      <3> QED BY <2>5, <2>6, <2>7, <3>2
    <2>8. loads'[n].total = total /\ loads'[n].items = page
      BY <1>1, <2>3
    <2>9. Shown'
      <3>1. total <= total
        BY <1>2
      <3> HIDE DEF total, page
      <3>2. total = Len(store'.ordered) /\ store'.ordered = store.ordered
        BY <1>3 DEF total
      <3>3. ShownAbove(total - view.offset - Limit, visit.seen \cup ToSet(page))'
        <4>1. total' = total
          BY <1>3 DEF total
        <4>2. page' = page
          BY <1>1, <1>3 DEF page, List
        <4>3. visit'.seen = visit.seen /\ UNCHANGED view
          BY <1>1
        <4> QED BY <2>7, <3>2, <4>1, <4>2, <4>3 DEF ShownAbove
      <3>4. total' = total /\ page' = page /\ UNCHANGED view
        BY <1>1, <1>3 DEF total, page, List
      <3> QED BY <1>1, <1>3, <2>2, <2>8, <3>1, <3>2, <3>3, <3>4 DEF Shown
    <2> QED BY <1>1, <1>3, <2>1, <2>4, <2>9
  <1> QED BY <1>1, <1>3, <1>4, <1>5 DEF VisitInv

\* The answer reaches the page.
LEMMA VisitArrived ==
  ASSUME TypeOK, ReadersOK, VisitInv, NEW n \in DOMAIN loads, Arrive(n)
  PROVE  VisitInv'
  <1>1. /\ UNCHANGED vars /\ loads[n].pc = "answered"
        /\ Len(loads') = Len(loads)
        /\ \A k \in 1 .. Len(loads) : k # n => loads'[k] = loads[k]
        /\ loads'[n].pc = "done" /\ loads'[n].offset = loads[n].offset
        /\ view'.offset = view.offset /\ view'.total = loads[n].total
        /\ visit'.known = visit.known /\ visit'.waited = visit.waited
        /\ visit'.seen = visit.seen \cup ToSet(loads[n].items)
    BY ArriveShape
  <1>2. UNCHANGED store /\ n \in 1 .. Len(loads) /\ Len(loads) \in Nat /\ loads' # << >>
    BY <1>1, ArriveShape DEF vars, ReadersOK
  <1>3. ASSUME visit.waited
        PROVE  (view.total <= Len(store.ordered) /\ OneAtATime /\ Shown)'
    <2>1. OneAtATime /\ Shown
      BY <1>3 DEF VisitInv
    <2>2. n = Len(loads)
      <3>1. \A k \in 1 .. Len(loads) - 1 : loads[k].pc = "done"
        BY <2>1 DEF OneAtATime
      <3>2. n \notin 1 .. Len(loads) - 1
        BY <1>1, <3>1
      <3> QED BY <1>2, <3>2
    <2>3. /\ loads[n].total <= Len(store.ordered)
          /\ ShownAbove(loads[n].total - view.offset - Limit, visit.seen \cup ToSet(loads[n].items))
      BY <1>1, <1>2, <2>1, <2>2 DEF Shown
    <2>4. OneAtATime'
      <3>1. \A k \in 1 .. Len(loads) - 1 : loads'[k].pc = "done"
        BY <1>1, <1>2, <2>1, <2>2 DEF OneAtATime
      <3> QED BY <1>1, <1>2, <2>1, <2>2, <3>1 DEF OneAtATime
    <2>5. ShownAbove(view.total - view.offset - Limit, visit.seen)'
      BY <1>1, <1>2, <2>3 DEF ShownAbove
    <2>6. Shown'
      BY <1>1, <1>2, <2>2, <2>5 DEF Shown
    <2> QED BY <1>1, <1>2, <2>3, <2>4, <2>6
  <1> QED BY <1>1, <1>2, <1>3 DEF VisitInv

LEMMA VisitStep ==
  ASSUME Limit <= MaxLimit, TypeOK, TypeOK', IndexListsRecords', ReadersOK, VisitInv, [ReadNext]_readVars
  PROVE  VisitInv'
  <1>1. CASE UNCHANGED <<view, loads, visit>> /\ [Next]_vars
    BY <1>1, VisitKept
  <1>2. CASE Next /\ UNCHANGED readerVars
    BY <1>1, <1>2 DEF readerVars
  <1>3. CASE Explorer
    BY <1>3, <1>1 DEF Explorer, StartSearch, FetchPage, FetchRecords, ShowCards, FailSearch
  <1>4. CASE UNCHANGED readVars
    BY <1>4, <1>1 DEF readVars, readerVars
  <1>5. ASSUME NEW n \in DOMAIN loads, FailLoad(n)
        PROVE  VisitInv'
    <2>1. UNCHANGED vars /\ visit'.known = visit.known /\ ~ visit'.waited /\ loads # << >>
          /\ Len(loads') = Len(loads)
      BY <1>5, FailShape
    <2>2. loads' # << >>
      BY <1>5, <2>1, FailShape DEF ReadersOK
    <2> QED BY <2>1, <2>2 DEF VisitInv, vars
  <1> QED BY <1>2, <1>3, <1>4, <1>5, VisitRequest, VisitAnswered, VisitArrived DEF ReadNext, ListPage

LEMMA ReadersAlways == ReadSpec => [](TypeOK /\ IndexInv /\ ReadersOK)
  <1>1. ReadInit => TypeOK /\ IndexInv /\ ReadersOK
    <2>1. ReadInit => Init
      BY DEF ReadInit
    <2>2. Init => IndexInv
      BY EmptyIndexed DEF Init, IndexInv
    <2> QED BY <2>1, <2>2, TypeInit, ReadersInit
  <1>2. TypeOK /\ IndexInv /\ ReadersOK /\ [ReadNext]_readVars => (TypeOK /\ IndexInv /\ ReadersOK)'
    BY ReadersOnlyRead, TypeStep, IndexStep, ReadersStep
  <1> QED BY <1>1, <1>2, PTL DEF ReadSpec

\* A visitor of a list page who waits for every answer and steps to the oldest page has
\* seen every record there was at the first answer: a record written meanwhile moves
\* the others, but a page asked for by its distance from the newest begins no lower than
\* where the one before it ended.  A page must not be longer than the endpoint allows.
THEOREM VisitorMissesNothing ==
  ASSUME Limit <= MaxLimit
  PROVE  ReadSpec => []BrowsingMissesNothing
  <1>1. TypeOK /\ ReadersOK /\ VisitInv => BrowsingMissesNothing
    <2> SUFFICES ASSUME TypeOK, ReadersOK, VisitInv, loads # << >>, Outstanding = {}, visit.waited,
                        view.offset + Limit >= view.total, NEW h \in visit.known
                 PROVE  h \in visit.seen
      BY DEF BrowsingMissesNothing
    <2>1. PICK i \in 1 .. Len(store.ordered) : store.ordered[i] = h
      BY DEF VisitInv
    <2>2. Len(loads) \in 1 .. Len(loads) /\ Len(loads) # 0 /\ DOMAIN loads = 1 .. Len(loads)
      BY DEF ReadersOK
    <2>3. loads[Len(loads)].pc = "done"
      BY <2>2 DEF Outstanding
    <2>4. ShownAbove(view.total - view.offset - Limit, visit.seen)
      BY <2>2, <2>3 DEF VisitInv, Shown
    <2>5. i > view.total - view.offset - Limit
      <3>1. view.total \in Nat /\ view.offset \in Nat /\ Limit \in Nat /\ i \in Nat /\ i >= 1
        BY ViewFields, ReadersAssumption DEF ReadersOK
      <3> QED BY <3>1
    <2> QED BY <2>1, <2>4, <2>5 DEF ShownAbove
  <1>2. ReadInit => VisitInv
    BY ReadersInit
  <1>3. /\ TypeOK /\ TypeOK' /\ IndexInv' /\ ReadersOK /\ VisitInv /\ [ReadNext]_readVars
        => VisitInv'
    BY VisitStep DEF IndexInv, IndexListsRecords
  <1> QED BY <1>1, <1>2, <1>3, ReadersAlways, PTL DEF ReadSpec

-----------------------------------------------------------------------------
(* Induction, and what Selected returns *)

\* Counting up through a set reaches every natural number: induction, with a set in the
\* place of the predicate.  What the set misses up to some number has a least element.
LEMMA CountUp ==
  ASSUME NEW S, 0 \in S, \A n \in Nat : n \in S => n + 1 \in S
  PROVE  Nat \subseteq S
  <1> SUFFICES ASSUME NEW m \in Nat, m \notin S
               PROVE  FALSE
    OBVIOUS
  <1> DEFINE Missing == {k \in 0..m : k \notin S}
             Below == {0..k : k \in Missing}
             R == StrictSubsetOrdering(0..m)
  <1>1. IsWellFoundedOn(R, FiniteSubsetsOf(0..m))
    BY FS_StrictSubsetOrderingWellFounded
  <1>2. FiniteSubsetsOf(0..m) = SUBSET (0..m)
    <2>1. IsFiniteSet(0..m)
      BY FS_Interval
    <2> QED BY <2>1, FS_FiniteSubsetsOfFinite
  <1>3. Below \subseteq SUBSET (0..m)
    OBVIOUS
  <1>4. 0..m \in Below
    OBVIOUS
  <1> HIDE DEF R, Below
  <1>5. PICK x \in Below : \A y \in Below : <<y, x>> \notin R
    <2>1. IsWellFoundedOn(R, SUBSET (0..m)) /\ Below # {}
      BY <1>1, <1>2, <1>4
    <2> QED BY <2>1, <1>3, WFMin
  <1>6. PICK k \in Missing : x = 0..k
    BY <1>5 DEF Below
  <1>7. k - 1 \in Missing
    OBVIOUS
  <1>8. 0..(k - 1) \in Below
    BY <1>7 DEF Below
  <1>9. 0..(k - 1) \subseteq 0..k /\ 0..(k - 1) # 0..k
    <2>1. k \in Nat /\ k \in 0..k /\ k \notin 0..(k - 1)
      OBVIOUS
    <2> QED BY <2>1
  <1>10. <<0..(k - 1), 0..k>> \in R
    BY <1>9, <1>7, <1>3, <1>8, <1>6, <1>5 DEF R, StrictSubsetOrdering
  <1> QED BY <1>5, <1>6, <1>8, <1>10

\* The recursion that defines Selected has a solution.
LEMMA SelectedUpTo ==
  ASSUME NEW A, NEW s \in Seq(A), NEW S
  PROVE  \E f : /\ Selected(s, S) = f[Len(s)] /\ f[0] = << >>
                /\ \A n \in 1 .. Len(s) : f[n] = IF s[n] \in S THEN Append(f[n - 1], s[n]) ELSE f[n - 1]
  <1> DEFINE Next1(f, n) == IF s[n] \in S THEN Append(f[n - 1], s[n]) ELSE f[n - 1]
             Body(f, n) == IF n = 0 THEN << >> ELSE Next1(f, n)
             Solves(f, m) == f = [n \in 0 .. m |-> Body(f, n)]
             Done == {m \in Nat : m <= Len(s) => \E f : Solves(f, m)}
  <1>1. 0 \in Done
    <2>1. Solves([n \in 0 .. 0 |-> << >>], 0)
      OBVIOUS
    <2> QED BY <2>1
  <1>2. ASSUME NEW m \in Nat, m \in Done
        PROVE  m + 1 \in Done
    <2> SUFFICES ASSUME m + 1 <= Len(s)
                 PROVE  \E f : Solves(f, m + 1)
      OBVIOUS
    <2>1. PICK f : Solves(f, m)
      <3>1. m <= Len(s)
        OBVIOUS
      <3> HIDE DEF Solves
      <3> QED BY <1>2, <3>1
    <2> HIDE DEF Next1
    <2>2. PICK last : last = Next1(f, m + 1)
      OBVIOUS
    <2>3. PICK g : g = [n \in 0 .. m + 1 |-> IF n = m + 1 THEN last ELSE f[n]]
      OBVIOUS
    <2>4. \A n \in 0 .. m : g[n] = f[n]
      BY <2>3
    <2>5. \A n \in 1 .. m + 1 : Next1(g, n) = Next1(f, n)
      <3> SUFFICES ASSUME NEW n \in 1 .. m + 1
                   PROVE  Next1(g, n) = Next1(f, n)
        OBVIOUS
      <3>1. g[n - 1] = f[n - 1]
        BY <2>4
      <3> QED BY <3>1 DEF Next1
    <2>6. ASSUME NEW n \in 0 .. m + 1
          PROVE  g[n] = Body(g, n)
      <3>1. CASE n = m + 1
        BY <2>2, <2>3, <2>5, <3>1
      <3>2. CASE n # m + 1
        <4>1. n \in 0 .. m /\ g[n] = f[n]
          BY <2>4, <3>2
        <4>2. f[n] = Body(f, n)
          BY <2>1, <4>1
        <4> QED BY <2>5, <4>1, <4>2
      <3> QED BY <3>1, <3>2
    <2>7. g = [n \in 0 .. m + 1 |-> g[n]]
      BY <2>3
    <2> QED BY <2>6, <2>7
  <1>3. Len(s) \in Done
    <2> HIDE DEF Done
    <2>1. Nat \subseteq Done
      BY <1>1, <1>2, CountUp
    <2> QED BY <2>1
  <1> DEFINE n == Len(s)
  <1>4. n \in Nat /\ \E f : Solves(f, n)
    BY <1>3
  <1>5. PICK f : f = CHOOSE g : Solves(g, n)
    OBVIOUS
  <1>6. Selected(s, S) = f[n]
    BY <1>5, Zenon DEF Selected
  <1> HIDE DEF Solves, n
  <1>7. Solves(f, n)
    BY <1>4, <1>5, Zenon
  <1>8. f[0] = Body(f, 0) /\ \A k \in 1 .. n : f[k] = Body(f, k)
    <2> HIDE DEF Body
    <2>1. \A k \in 0 .. n : f[k] = Body(f, k)
      BY <1>7 DEF Solves
    <2> QED BY <1>4, <2>1
  <1>9. \A k \in 1 .. n : Body(f, k) = Next1(f, k)
    BY <1>4
  <1> QED BY <1>4, <1>6, <1>8, <1>9 DEF n

LEMMA SelectedType ==
  ASSUME NEW A, NEW s \in Seq(A), NEW S
  PROVE  Selected(s, S) \in Seq(A)
  <1>1. PICK f : /\ Selected(s, S) = f[Len(s)] /\ f[0] = << >>
                 /\ \A n \in 1 .. Len(s) : f[n] = IF s[n] \in S THEN Append(f[n - 1], s[n]) ELSE f[n - 1]
    BY SelectedUpTo
  <1> DEFINE Done == {m \in Nat : m <= Len(s) => f[m] \in Seq(A)}
  <1>2. 0 \in Done
    <2>1. << >> \in Seq(A)
      OBVIOUS
    <2> QED BY <1>1, <2>1
  <1>3. ASSUME NEW m \in Nat, m \in Done, m + 1 <= Len(s)
        PROVE  f[m + 1] \in Seq(A)
    <2>1. PICK x \in A : x = s[m + 1]
      BY <1>3
    <2>2. f[m] \in Seq(A) /\ Append(f[m], x) \in Seq(A)
      BY <1>3
    <2>3. f[m + 1] = IF x \in S THEN Append(f[m], x) ELSE f[m]
      BY <1>1, <1>3, <2>1
    <2> QED BY <2>2, <2>3
  <1>4. \A m \in Nat : m \in Done => m + 1 \in Done
    BY <1>3
  <1>5. Len(s) \in Nat
    OBVIOUS
  <1> HIDE DEF Done
  <1>6. Len(s) \in Done
    BY <1>2, <1>4, <1>5, CountUp
  <1> QED BY <1>1, <1>6 DEF Done

\* Selecting everything leaves the sequence.
LEMMA SelectedAll ==
  ASSUME NEW A, NEW s \in Seq(A), NEW S, \A i \in 1 .. Len(s) : s[i] \in S
  PROVE  Selected(s, S) = s
  <1>1. PICK f : /\ Selected(s, S) = f[Len(s)] /\ f[0] = << >>
                 /\ \A n \in 1 .. Len(s) : f[n] = IF s[n] \in S THEN Append(f[n - 1], s[n]) ELSE f[n - 1]
    BY SelectedUpTo
  <1> DEFINE Done == {m \in Nat : m <= Len(s) => f[m] = SubSeq(s, 1, m)}
  <1>2. 0 \in Done
    <2>1. SubSeq(s, 1, 0) = << >>
      OBVIOUS
    <2> QED BY <1>1, <2>1
  <1>3. ASSUME NEW m \in Nat, m \in Done, m + 1 <= Len(s)
        PROVE  f[m + 1] = SubSeq(s, 1, m + 1)
    <2>1. f[m] = SubSeq(s, 1, m)
      BY <1>3
    <2>2. PICK x \in A : x = s[m + 1] /\ x \in S
      BY <1>3
    <2>3. f[m + 1] = IF x \in S THEN Append(f[m], x) ELSE f[m]
      <3>1. m + 1 \in 1 .. Len(s) /\ (m + 1) - 1 = m
        BY <1>3
      <3> HIDE DEF Done
      <3> QED BY <1>1, <2>2, <3>1
    <2>4. SubSeq(s, 1, m + 1) = Append(SubSeq(s, 1, m), x)
      BY <1>3, <2>2
    <2> QED BY <2>1, <2>2, <2>3, <2>4
  <1>4. \A m \in Nat : m \in Done => m + 1 \in Done
    BY <1>3
  <1>5. Len(s) \in Nat /\ s = SubSeq(s, 1, Len(s))
    OBVIOUS
  <1> HIDE DEF Done
  <1>6. Len(s) \in Done
    BY <1>2, <1>4, <1>5, CountUp
  <1> QED BY <1>1, <1>5, <1>6 DEF Done

\* What is selected depends only on which of the elements are in the set.
LEMMA SelectedSame ==
  ASSUME NEW A, NEW s \in Seq(A), NEW S, NEW T, \A i \in 1 .. Len(s) : s[i] \in S <=> s[i] \in T
  PROVE  Selected(s, S) = Selected(s, T)
  <1>1. PICK f : /\ Selected(s, S) = f[Len(s)] /\ f[0] = << >>
                 /\ \A n \in 1 .. Len(s) : f[n] = IF s[n] \in S THEN Append(f[n - 1], s[n]) ELSE f[n - 1]
    BY SelectedUpTo
  <1>2. PICK g : /\ Selected(s, T) = g[Len(s)] /\ g[0] = << >>
                 /\ \A n \in 1 .. Len(s) : g[n] = IF s[n] \in T THEN Append(g[n - 1], s[n]) ELSE g[n - 1]
    BY SelectedUpTo
  <1> DEFINE Done == {m \in Nat : m <= Len(s) => f[m] = g[m]}
  <1>3. 0 \in Done
    BY <1>1, <1>2
  <1>4. ASSUME NEW m \in Nat, m \in Done, m + 1 <= Len(s)
        PROVE  f[m + 1] = g[m + 1]
    <2>1. f[m] = g[m] /\ (s[m + 1] \in S <=> s[m + 1] \in T)
      BY <1>4
    <2> QED BY <1>1, <1>2, <1>4, <2>1
  <1>5. \A m \in Nat : m \in Done => m + 1 \in Done
    BY <1>4
  <1>6. Len(s) \in Nat
    OBVIOUS
  <1> HIDE DEF Done
  <1>7. Len(s) \in Done
    BY <1>3, <1>5, <1>6, CountUp
  <1> QED BY <1>1, <1>2, <1>7 DEF Done

\* Selecting records and taking their hashes is selecting hashes.
HashesOf(q) == [i \in DOMAIN q |-> q[i].hash]

LEMMA SelectedHashes ==
  ASSUME NEW A, NEW s \in Seq(A), NEW S, NEW B, NEW r \in Seq(B), NEW R, Len(r) = Len(s),
         \A i \in 1 .. Len(s) : r[i].hash = s[i] /\ (r[i] \in R <=> s[i] \in S)
  PROVE  HashesOf(Selected(r, R)) = Selected(s, S)
  <1>1. PICK f : /\ Selected(s, S) = f[Len(s)] /\ f[0] = << >>
                 /\ \A n \in 1 .. Len(s) : f[n] = IF s[n] \in S THEN Append(f[n - 1], s[n]) ELSE f[n - 1]
    BY SelectedUpTo
  <1>2. PICK g : /\ Selected(r, R) = g[Len(s)] /\ g[0] = << >>
                 /\ \A n \in 1 .. Len(s) : g[n] = IF r[n] \in R THEN Append(g[n - 1], r[n]) ELSE g[n - 1]
    BY SelectedUpTo
  <1> DEFINE Done == {m \in Nat : m <= Len(s) => f[m] \in Seq(A) /\ g[m] \in Seq(B) /\ HashesOf(g[m]) = f[m]}
  <1>3. 0 \in Done
    <2>1. << >> \in Seq(A) /\ << >> \in Seq(B) /\ HashesOf(<< >>) = << >>
      BY DEF HashesOf
    <2> QED BY <1>1, <1>2, <2>1
  <1>4. ASSUME NEW m \in Nat, m \in Done, m + 1 <= Len(s)
        PROVE  f[m + 1] \in Seq(A) /\ g[m + 1] \in Seq(B) /\ HashesOf(g[m + 1]) = f[m + 1]
    <2>1. f[m] \in Seq(A) /\ g[m] \in Seq(B) /\ HashesOf(g[m]) = f[m]
      BY <1>4
    <2>2. PICK x \in A, y \in B : x = s[m + 1] /\ y = r[m + 1] /\ y.hash = x /\ (y \in R <=> x \in S)
      BY <1>4
    <2>3. /\ f[m + 1] = IF x \in S THEN Append(f[m], x) ELSE f[m]
          /\ g[m + 1] = IF y \in R THEN Append(g[m], y) ELSE g[m]
      BY <1>1, <1>2, <1>4, <2>2
    <2>4. Append(f[m], x) \in Seq(A) /\ Append(g[m], y) \in Seq(B)
      BY <2>1
    <2>5. HashesOf(Append(g[m], y)) = Append(f[m], x)
      <3>1. PICK v \in Seq(B) : v = g[m]
        BY <2>1
      <3>2. PICK u \in Seq(A) : u = f[m]
        BY <2>1
      <3>3. u = [i \in 1 .. Len(v) |-> v[i].hash]
        <4>1. DOMAIN v = 1 .. Len(v)
          OBVIOUS
        <4>2. u = HashesOf(v)
          BY <2>1, <3>1, <3>2
        <4> QED BY <4>1, <4>2, Zenon DEF HashesOf
      <3>4. Len(u) = Len(v) /\ \A i \in 1 .. Len(v) : u[i] = v[i].hash
        BY <3>3
      <3>5. /\ DOMAIN Append(v, y) = 1 .. Len(v) + 1 /\ DOMAIN Append(u, x) = 1 .. Len(v) + 1
            /\ \A i \in 1 .. Len(v) + 1 : Append(v, y)[i].hash = Append(u, x)[i]
        <4>1. \A i \in 1 .. Len(v) + 1 : i \in 1 .. Len(v) \/ i = Len(v) + 1
          <5>1. \A n \in Nat : \A i \in 1 .. n + 1 : i \in 1 .. n \/ i = n + 1
            OBVIOUS
          <5>2. Len(v) \in Nat
            OBVIOUS
          <5> QED BY <5>1, <5>2, Zenon
        <4>2. PICK w, c : w = Append(v, y) /\ c = Append(u, x)
          OBVIOUS
        <4>3. DOMAIN w = 1 .. Len(v) + 1 /\ w[Len(v) + 1] = y /\ \A i \in 1 .. Len(v) : w[i] = v[i]
          BY <4>2
        <4>4. DOMAIN c = 1 .. Len(v) + 1 /\ c[Len(v) + 1] = x /\ \A i \in 1 .. Len(v) : c[i] = u[i]
          BY <3>4, <4>2
        <4>5. \A i \in 1 .. Len(v) + 1 : w[i].hash = c[i]
          BY <2>2, <3>4, <4>1, <4>3, <4>4
        <4> QED BY <4>2, <4>3, <4>4, <4>5
      <3>6. Append(u, x) = [i \in 1 .. Len(v) + 1 |-> Append(u, x)[i]]
        <4>1. \A q \in Seq(A) : q = [i \in DOMAIN q |-> q[i]]
          OBVIOUS
        <4>2. Append(u, x) \in Seq(A)
          OBVIOUS
        <4> QED BY <3>5, <4>1, <4>2, Zenon
      <3>7. HashesOf(Append(v, y)) = [i \in 1 .. Len(v) + 1 |-> Append(u, x)[i]]
        BY <3>5, Zenon DEF HashesOf
      <3> QED BY <3>1, <3>2, <3>6, <3>7
    <2> QED BY <2>1, <2>2, <2>3, <2>4, <2>5
  <1>5. \A m \in Nat : m \in Done => m + 1 \in Done
    BY <1>4
  <1>6. Len(s) \in Nat
    OBVIOUS
  <1> HIDE DEF Done
  <1>7. Len(s) \in Done
    BY <1>3, <1>5, <1>6, CountUp
  <1> QED BY <1>1, <1>2, <1>7 DEF Done

-----------------------------------------------------------------------------
(***************************************************************************)
(* The explorer.  Until blocks are undone, the hashes a search has read    *)
(* are the oldest of the index, all of them once it fetches records, and   *)
(* the records it has fetched are those of the first of these hashes,      *)
(* unless a call failed.                                                   *)
(***************************************************************************)
Founds == [hash: Hashes, by: Submitters \cup {NoSubmitter}]
SearchRecords ==
  [pc: {"pages", "records", "done"}, filter: Submitters \cup {NoSubmitter}, hashes: Seq(Hashes),
   offset: Nat, fetched: Nat, records: Seq(Founds), missed: BOOLEAN, known: Seq(Hashes), reorgsThen: Nat]

SearchesOK ==
  /\ search \in [Searches -> SearchRecords \cup {NoSearch}]
  /\ cards.by # "none" => cards.by \in Searches /\ search[cards.by].pc = "done"

Current(s) == s.reorgsThen = reorgs

Walked(s) ==
  /\ s.offset = Len(s.hashes)
  /\ s.reorgsThen <= reorgs
  /\ Current(s) =>
       /\ Len(s.hashes) <= Len(store.ordered) /\ Len(s.known) <= Len(store.ordered)
       /\ \A i \in 1 .. Len(s.hashes) : s.hashes[i] = store.ordered[i]
       /\ s.pc = "records" => Len(s.known) <= Len(s.hashes)

Fetched(s) ==
  /\ s.fetched <= Len(s.hashes)
  /\ s.pc = "pages" => s.fetched = 0 /\ s.records = << >>
  /\ Current(s) /\ ~s.missed =>
       /\ Len(s.records) = s.fetched
       /\ \A i \in 1 .. s.fetched :
            s.records[i] = [hash |-> s.hashes[i], by |-> store.records[s.hashes[i]].submitter]

ExplorerInv ==
  /\ \A q \in Searches : search[q].pc # "idle" => Walked(search[q]) /\ Fetched(search[q])
  /\ SearchIsComplete

LEMMA SearchFields ==
  ASSUME NEW s \in SearchRecords
  PROVE  /\ s.pc \in {"pages", "records", "done"} /\ s.filter \in Submitters \cup {NoSubmitter}
         /\ s.hashes \in Seq(Hashes) /\ s.offset \in Nat /\ s.fetched \in Nat
         /\ s.records \in Seq(Founds) /\ s.missed \in BOOLEAN /\ s.known \in Seq(Hashes)
         /\ s.reorgsThen \in Nat
  BY DEF SearchRecords

\* One sequence after another.
LEMMA ConcatFacts ==
  ASSUME NEW S, NEW p \in Seq(S), NEW q \in Seq(S)
  PROVE  /\ p \o q \in Seq(S) /\ Len(p \o q) = Len(p) + Len(q)
         /\ \A i \in 1 .. Len(p) : (p \o q)[i] = p[i]
         /\ \A i \in 1 .. Len(q) : (p \o q)[Len(p) + i] = q[i]
  <1>1. /\ p \o q \in Seq(S) /\ Len(p \o q) = Len(p) + Len(q) /\ Len(p) \in Nat /\ Len(q) \in Nat
        /\ \A i \in 1 .. Len(p) : (p \o q)[i] = p[i]
    OBVIOUS
  <1>2. ASSUME NEW i \in 1 .. Len(q)
        PROVE  (p \o q)[Len(p) + i] = q[i]
    <2>1. Len(p) + i \in 1 .. Len(p) + Len(q) /\ Len(p) + i > Len(p) /\ (Len(p) + i) - Len(p) = i
      BY <1>1
    <2> QED BY <2>1
  <1> QED BY <1>1, <1>2

\* A part of a sequence, element by element.
LEMMA SubSeqFacts ==
  ASSUME NEW S, NEW q \in Seq(S), NEW m \in Nat, NEW n \in Nat, m <= n, n <= Len(q)
  PROVE  /\ SubSeq(q, m + 1, n) \in Seq(S) /\ Len(SubSeq(q, m + 1, n)) = n - m
         /\ \A i \in 1 .. n - m : SubSeq(q, m + 1, n)[i] = q[m + i]
  <1>1. PICK part : part = SubSeq(q, m + 1, n)
    OBVIOUS
  <1>2. part = [i \in 1 .. n - m |-> q[m + i]]
    <2>1. part = [i \in 1 .. n - (m + 1) + 1 |-> q[m + 1 + i - 1]]
      BY <1>1
    <2>2. n - (m + 1) + 1 = n - m /\ \A i \in 1 .. n - m : m + 1 + i - 1 = m + i
      OBVIOUS
    <2> QED BY <2>1, <2>2
  <1>3. n - m \in Nat /\ \A i \in 1 .. n - m : q[m + i] \in S
    OBVIOUS
  <1> QED BY <1>1, <1>2, <1>3

LEMMA PrefixFacts ==
  ASSUME NEW S, NEW q \in Seq(S), NEW n \in Nat, n <= Len(q)
  PROVE  /\ SubSeq(q, 1, n) \in Seq(S) /\ Len(SubSeq(q, 1, n)) = n
         /\ \A i \in 1 .. n : SubSeq(q, 1, n)[i] = q[i]
  <1>1. PICK part : part = SubSeq(q, 0 + 1, n)
    OBVIOUS
  <1>2. 0 \in Nat /\ 0 <= n /\ n - 0 = n /\ 0 + 1 = 1 /\ \A i \in 1 .. n : 0 + i = i
    OBVIOUS
  <1>3. part \in Seq(S) /\ Len(part) = n - 0 /\ \A i \in 1 .. n - 0 : part[i] = q[0 + i]
    BY <1>1, <1>2, SubSeqFacts
  <1> QED BY <1>1, <1>2, <1>3

\* A page of getPage, and how one knows that it is the last.
LEMMA PageFacts ==
  ASSUME NEW st \in StoreStates, NEW offset \in Nat, NEW limit \in Nat \ {0}
  PROVE  LET page == GetPage(st, offset, limit)
         IN  /\ page \in Seq(Hashes)
             /\ \A i \in 1 .. Len(page) : page[i] = st.ordered[offset + i]
             /\ offset <= Len(st.ordered) => offset + Len(page) <= Len(st.ordered)
             /\ Len(page) < limit => Len(st.ordered) <= offset + Len(page)
  <1> DEFINE total == Len(st.ordered)
             end   == IF offset + limit > total THEN total ELSE offset + limit
             page  == GetPage(st, offset, limit)
  <1>1. st.ordered \in Seq(Hashes) /\ total \in Nat
    BY StoreFields
  <1>2. CASE offset >= total
    <2>1. page = << >>
      BY <1>2 DEF GetPage
    <2>2. page \in Seq(Hashes) /\ Len(page) = 0
      BY <2>1
    <2> HIDE DEF page, total
    <2>3. total <= offset
      BY <1>1, <1>2
    <2>4. offset + Len(page) = offset
      BY <2>2
    <2> QED BY <1>1, <2>2, <2>3, <2>4 DEF page, total
  <1>3. CASE offset < total
    <2>1. page = SubSeq(st.ordered, offset + 1, end)
      BY <1>1, <1>3 DEF GetPage
    <2>2. end \in offset + 1 .. total
      BY <1>1, <1>3
    <2>3. end = total \/ end = offset + limit
      OBVIOUS
    <2> HIDE DEF end, page, total
    <2>4. /\ page \in Seq(Hashes) /\ Len(page) = end - offset
          /\ \A i \in 1 .. end - offset : page[i] = st.ordered[offset + i]
      <3>1. st.ordered \in Seq(Hashes) /\ end \in Nat /\ offset <= end /\ end <= Len(st.ordered)
        BY <1>1, <2>2 DEF total
      <3> QED BY <2>1, <3>1, SubSeqFacts
    <2>5. offset + Len(page) = end
      BY <1>1, <2>2, <2>4
    <2>6. Len(page) < limit => end = total
      BY <1>1, <2>2, <2>3, <2>5
    <2>7. end <= total
      BY <1>1, <2>2
    <2> QED BY <1>1, <2>4, <2>5, <2>6, <2>7 DEF page, total
  <1> QED BY <1>1, <1>2, <1>3

LEMMA SearchOf ==
  ASSUME SearchesOK, NEW q \in Searches, search[q].pc # "idle"
  PROVE  search[q] \in SearchRecords
  BY DEF SearchesOK, NoSearch

\* A page of the index extends what the search has read.
LEMMA PageRead ==
  ASSUME TypeOK, SearchesOK, NEW q \in Searches, FetchPage(q), Walked(search[q]), Fetched(search[q])
  PROVE  \E new \in SearchRecords :
           /\ search' = [search EXCEPT ![q] = new]
           /\ new.pc \in {"pages", "records"} /\ Walked(new) /\ Fetched(new)
  <1>1. search[q].pc = "pages" /\ search[q] \in SearchRecords
    BY SearchOf DEF FetchPage
  <1>2. PICK s \in SearchRecords : s = search[q]
    BY <1>1
  <1>3. PICK page : page = GetPage(store, s.offset, PageSize)
    OBVIOUS
  <1>4. PICK pc \in {"pages", "records"} : pc = IF Len(page) < PageSize THEN "records" ELSE "pages"
    OBVIOUS
  <1>5. PICK hashes : hashes = s.hashes \o page
    OBVIOUS
  <1>6. PICK offset : offset = s.offset + Len(page)
    OBVIOUS
  <1>7. PICK new : new = [s EXCEPT !.hashes = hashes, !.offset = offset, !.pc = pc]
    OBVIOUS
  <1>8. search' = [search EXCEPT ![q] = new]
    BY <1>2, <1>3, <1>4, <1>5, <1>6, <1>7 DEF FetchPage
  <1>9. s.hashes \in Seq(Hashes) /\ s.offset \in Nat /\ s.fetched \in Nat /\ s.known \in Seq(Hashes)
    BY SearchFields
  <1>10. store \in StoreStates /\ PageSize \in Nat \ {0} /\ store.ordered \in Seq(Hashes)
    BY StoreFields, ReadersAssumption DEF TypeOK
  <1>11. /\ page \in Seq(Hashes)
         /\ \A i \in 1 .. Len(page) : page[i] = store.ordered[s.offset + i]
         /\ s.offset <= Len(store.ordered) => s.offset + Len(page) <= Len(store.ordered)
         /\ Len(page) < PageSize => Len(store.ordered) <= s.offset + Len(page)
    BY <1>3, <1>9, <1>10, PageFacts
  <1>12. /\ hashes \in Seq(Hashes) /\ Len(hashes) = Len(s.hashes) + Len(page)
         /\ \A i \in 1 .. Len(s.hashes) : hashes[i] = s.hashes[i]
         /\ \A i \in Len(s.hashes) + 1 .. Len(hashes) : hashes[i] = page[i - Len(s.hashes)]
    BY <1>5, <1>9, <1>11
  <1>13. offset \in Nat
    BY <1>6, <1>9, <1>11
  <1>14. /\ new \in SearchRecords /\ new.hashes = hashes /\ new.offset = offset /\ new.pc = pc
         /\ new.fetched = s.fetched /\ new.records = s.records /\ new.missed = s.missed
         /\ new.known = s.known /\ new.reorgsThen = s.reorgsThen
    BY <1>7, <1>12, <1>13 DEF SearchRecords
  <1>15. /\ s.offset = Len(s.hashes) /\ s.reorgsThen <= reorgs
         /\ s.fetched = 0 /\ s.records = << >>
    BY <1>1, <1>2 DEF Walked, Fetched
  <1>16. ASSUME Current(s)
         PROVE  /\ Len(hashes) <= Len(store.ordered) /\ Len(s.known) <= Len(store.ordered)
                /\ \A i \in 1 .. Len(hashes) : hashes[i] = store.ordered[i]
                /\ pc = "records" => Len(s.known) <= Len(hashes)
    <2>1. /\ Len(s.hashes) <= Len(store.ordered) /\ Len(s.known) <= Len(store.ordered)
          /\ \A i \in 1 .. Len(s.hashes) : s.hashes[i] = store.ordered[i]
      BY <1>2, <1>16 DEF Walked
    <2>2. Len(hashes) <= Len(store.ordered)
      BY <1>11, <1>12, <1>15, <2>1
    <2>3. ASSUME NEW i \in 1 .. Len(hashes)
          PROVE  hashes[i] = store.ordered[i]
      <3>1. CASE i <= Len(s.hashes)
        BY <1>9, <1>12, <2>1, <3>1
      <3>2. CASE i > Len(s.hashes)
        <4>1. PICK k \in 1 .. Len(page) : k = i - Len(s.hashes) /\ s.offset + k = i
          <5>1. PICK m \in Nat, n \in Nat : m = Len(s.hashes) /\ n = Len(page)
            BY <1>9, <1>11
          <5>2. i - m \in 1 .. n /\ m + (i - m) = i
            BY <1>12, <3>2, <5>1
          <5> QED BY <1>15, <5>1, <5>2
        <4>2. hashes[i] = page[k]
          BY <1>9, <1>12, <3>2, <4>1
        <4> QED BY <1>11, <4>1, <4>2
      <3> QED BY <1>9, <3>1, <3>2
    <2>4. pc = "records" => Len(store.ordered) <= Len(hashes)
      BY <1>4, <1>11, <1>12, <1>15
    <2>5. pc = "records" => Len(s.known) <= Len(hashes)
      <3>1. Len(s.known) \in Nat /\ Len(hashes) \in Nat /\ Len(store.ordered) \in Nat
        BY <1>9, <1>10, <1>12
      <3> QED BY <2>1, <2>4, <3>1
    <2> QED BY <2>1, <2>2, <2>3, <2>5
  <1>17. Walked(new)
    <2>1. offset = Len(hashes)
      BY <1>6, <1>12, <1>15
    <2> QED BY <1>14, <1>15, <1>16, <2>1 DEF Walked, Current
  <1>18. Fetched(new)
    <2>1. 0 <= Len(hashes) /\ Len(<< >>) = 0
      BY <1>12
    <2> QED BY <1>14, <1>15, <2>1 DEF Fetched
  <1> QED BY <1>8, <1>14, <1>17, <1>18

\* A batch of records: with no call lost, that of every hash, since what the index
\* lists is recorded.
LEMMA RecordsRead ==
  ASSUME TypeOK, IndexListsRecords, SearchesOK, NEW q \in Searches, FetchRecords(q),
         Walked(search[q]), Fetched(search[q])
  PROVE  \E new \in SearchRecords :
           /\ search' = [search EXCEPT ![q] = new]
           /\ new.pc = "records" /\ Walked(new) /\ Fetched(new)
  <1>1. search[q].pc = "records" /\ search[q] \in SearchRecords /\ search[q].fetched < Len(search[q].hashes)
    BY SearchOf DEF FetchRecords
  <1>2. PICK s \in SearchRecords : s = search[q]
    BY <1>1
  <1>3. /\ s.hashes \in Seq(Hashes) /\ s.offset \in Nat /\ s.fetched \in Nat /\ s.known \in Seq(Hashes)
        /\ s.records \in Seq(Founds) /\ s.missed \in BOOLEAN /\ s.reorgsThen \in Nat
        /\ s.fetched < Len(s.hashes) /\ s.pc = "records" /\ Len(s.hashes) \in Nat
    BY <1>1, <1>2, SearchFields
  <1>4. PICK end : end = Min({Len(s.hashes), s.fetched + FetchSize})
    OBVIOUS
  <1>5. end \in s.fetched + 1 .. Len(s.hashes)
    <2>1. FetchSize \in Nat \ {0}
      BY ReadersAssumption
    <2>2. PICK a \in Nat, b \in Nat : a = Len(s.hashes) /\ b = s.fetched + FetchSize
      BY <1>3, <2>1
    <2>3. \E x \in {a, b} : \A y \in {a, b} : x <= y
      OBVIOUS
    <2>4. end \in {a, b} /\ end <= a /\ end <= b
      BY <1>4, <2>2, <2>3 DEF Min
    <2> QED BY <1>3, <2>1, <2>2, <2>4
  <1>6. PICK batch : batch = SubSeq(s.hashes, s.fetched + 1, end)
    OBVIOUS
  <1>7. /\ batch \in Seq(Hashes) /\ Len(batch) = end - s.fetched
        /\ \A i \in 1 .. Len(batch) : batch[i] = s.hashes[s.fetched + i]
    <2>1. end \in Nat /\ s.fetched <= end /\ end <= Len(s.hashes)
      BY <1>3, <1>5
    <2>2. PICK m \in Nat : m = s.fetched
      BY <1>3
    <2>3. PICK hashes \in Seq(Hashes) : hashes = s.hashes
      BY <1>3
    <2>4. batch = SubSeq(hashes, m + 1, end) /\ m <= end /\ end <= Len(hashes)
      BY <1>6, <2>1, <2>2, <2>3
    <2>5. /\ batch \in Seq(Hashes) /\ Len(batch) = end - m
          /\ \A i \in 1 .. end - m : batch[i] = hashes[m + i]
      BY <2>1, <2>4, SubSeqFacts
    <2> QED BY <2>2, <2>3, <2>5
  <1> DEFINE End         == Min({Len(search[q].hashes), search[q].fetched + FetchSize})
             Batch       == SubSeq(search[q].hashes, search[q].fetched + 1, End)
             Found(lost) == Selected(Batch, {h \in Hashes \ lost : Exists(store, h)})
             More(lost)  == [i \in DOMAIN Found(lost) |->
                               [hash |-> Found(lost)[i], by |-> store.records[Found(lost)[i]].submitter]]
  <1>8. PICK lost : search' = [search EXCEPT ![q].records = @ \o More(lost),
                                             ![q].missed = @ \/ lost # {}, ![q].fetched = End]
    BY Zenon DEF FetchRecords
  <1>9. end = End /\ batch = Batch
    BY <1>2, <1>4, <1>6, Zenon
  <1>10. PICK found : found = Selected(batch, {h \in Hashes \ lost : Exists(store, h)})
    OBVIOUS
  <1>11. PICK more : more = [i \in DOMAIN found |->
                               [hash |-> found[i], by |-> store.records[found[i]].submitter]]
    OBVIOUS
  <1>12. more = More(lost)
    BY <1>9, <1>10, <1>11, Zenon
  <1> HIDE DEF End, Batch, Found, More
  <1>13. PICK records : records = s.records \o more
    OBVIOUS
  <1>14. PICK missed : missed = (s.missed \/ lost # {})
    OBVIOUS
  <1>15. PICK new : new = [s EXCEPT !.records = records, !.missed = missed, !.fetched = end]
    OBVIOUS
  <1>16. search' = [search EXCEPT ![q] = new]
    BY <1>2, <1>8, <1>9, <1>12, <1>13, <1>14, <1>15
  <1>17. found \in Seq(Hashes) /\ more \in Seq(Founds) /\ Len(more) = Len(found)
    <2>1. found \in Seq(Hashes)
      BY <1>7, <1>10, SelectedType
    <2>2. store.records \in [Hashes -> Records]
      BY StoreFields DEF TypeOK
    <2>3. \A i \in 1 .. Len(found) :
            [hash |-> found[i], by |-> store.records[found[i]].submitter] \in Founds
      <3> SUFFICES ASSUME NEW i \in 1 .. Len(found)
                   PROVE  [hash |-> found[i], by |-> store.records[found[i]].submitter] \in Founds
        OBVIOUS
      <3>1. PICK h \in Hashes : h = found[i]
        BY <2>1
      <3>2. store.records[h].submitter \in Submitters \cup {NoSubmitter}
        BY <2>2, RecordFields
      <3> QED BY <3>1, <3>2 DEF Founds
    <2>4. DOMAIN found = 1 .. Len(found) /\ Len(found) \in Nat
      BY <2>1
    <2> QED BY <1>11, <2>1, <2>3, <2>4
  <1>18. /\ records \in Seq(Founds) /\ Len(records) = Len(s.records) + Len(more)
         /\ \A i \in 1 .. Len(s.records) : records[i] = s.records[i]
         /\ \A i \in 1 .. Len(more) : records[Len(s.records) + i] = more[i]
    <2>1. PICK old \in Seq(Founds) : old = s.records
      BY <1>3
    <2>2. records = old \o more
      BY <1>13, <2>1
    <2>3. PICK A : A = Founds
      OBVIOUS
    <2>4. old \in Seq(A) /\ more \in Seq(A)
      BY <1>17, <2>1, <2>3
    <2>5. /\ records \in Seq(A) /\ Len(records) = Len(old) + Len(more)
          /\ \A i \in 1 .. Len(old) : records[i] = old[i]
          /\ \A i \in 1 .. Len(more) : records[Len(old) + i] = more[i]
      BY <2>2, <2>4, ConcatFacts
    <2> QED BY <2>1, <2>3, <2>5
  <1>19. missed \in BOOLEAN /\ end \in Nat
    BY <1>3, <1>5, <1>14
  <1>20. /\ new \in SearchRecords /\ new.hashes = s.hashes /\ new.offset = s.offset /\ new.pc = s.pc
         /\ new.fetched = end /\ new.records = records /\ new.missed = missed
         /\ new.known = s.known /\ new.reorgsThen = s.reorgsThen
    BY <1>15, <1>18, <1>19 DEF SearchRecords
  <1>21. Walked(new)
    BY <1>2, <1>20 DEF Walked, Current
  <1>22. ASSUME Current(s), ~missed
         PROVE  /\ Len(records) = end
                /\ \A i \in 1 .. end :
                     records[i] = [hash |-> s.hashes[i], by |-> store.records[s.hashes[i]].submitter]
    <2>1. /\ ~s.missed /\ lost = {} /\ Len(s.records) = s.fetched
          /\ \A i \in 1 .. s.fetched :
               s.records[i] = [hash |-> s.hashes[i], by |-> store.records[s.hashes[i]].submitter]
      BY <1>2, <1>14, <1>22 DEF Fetched
    <2>2. \A i \in 1 .. Len(s.hashes) : Exists(store, s.hashes[i])
      <3>1. /\ Len(s.hashes) <= Len(store.ordered)
            /\ \A i \in 1 .. Len(s.hashes) : s.hashes[i] = store.ordered[i]
        BY <1>2, <1>22 DEF Walked
      <3>2. \A i \in 1 .. Len(store.ordered) : Exists(store, store.ordered[i])
        BY DEF IndexListsRecords, Indexed
      <3>3. Len(store.ordered) \in Nat
        BY StoreFields DEF TypeOK
      <3> QED BY <1>3, <3>1, <3>2, <3>3
    <2>3. found = batch
      <3>1. \A i \in 1 .. Len(batch) : batch[i] \in {h \in Hashes \ lost : Exists(store, h)}
        <4> SUFFICES ASSUME NEW i \in 1 .. Len(batch)
                     PROVE  batch[i] \in Hashes /\ Exists(store, batch[i])
          BY <2>1
        <4>1. s.fetched + i \in 1 .. Len(s.hashes)
          BY <1>3, <1>5, <1>7
        <4> QED BY <1>7, <2>2, <4>1
      <3> QED BY <1>7, <1>10, <3>1, SelectedAll
    <2>4. Len(more) = end - s.fetched
      BY <1>7, <1>17, <2>3
    <2>5. ASSUME NEW i \in 1 .. end
          PROVE  records[i] = [hash |-> s.hashes[i], by |-> store.records[s.hashes[i]].submitter]
      <3>1. CASE i <= s.fetched
        BY <1>3, <1>18, <2>1, <3>1
      <3>2. CASE i > s.fetched
        <4>1. PICK k \in 1 .. Len(more) : s.fetched + k = i
          <5>1. i - s.fetched \in 1 .. Len(more) /\ s.fetched + (i - s.fetched) = i
            BY <1>3, <1>5, <2>4, <3>2
          <5> QED BY <5>1
        <4>2. records[i] = more[k]
          BY <1>18, <2>1, <4>1
        <4>3. found[k] = s.hashes[i] /\ k \in DOMAIN found
          BY <1>7, <1>17, <2>3, <4>1
        <4> QED BY <1>11, <4>2, <4>3
      <3> QED BY <1>3, <1>5, <3>1, <3>2
    <2>6. Len(records) = end
      BY <1>3, <1>5, <1>18, <2>1, <2>4
    <2> QED BY <2>5, <2>6
  <1>23. Fetched(new)
    <2>1. end <= Len(s.hashes)
      BY <1>3, <1>5
    <2> QED BY <1>3, <1>20, <1>22, <2>1 DEF Fetched, Current
  <1> QED BY <1>3, <1>16, <1>20, <1>21, <1>23

\* What a search is for, among the records it has and among all hashes; list is an
\* answer to search s.
Wanted(s) == {r \in ToSet(s.records) : s.filter = NoSubmitter \/ r.by = s.filter}
Matching(s) == {h \in Hashes : s.filter = NoSubmitter \/ store.records[h].submitter = s.filter}
Answers(s, list) ==
  ~s.missed /\ Current(s) =>
    \E n \in Len(s.known) .. Len(store.ordered) :
      list = Reverse(Selected(SubSeq(store.ordered, 1, n), Matching(s)))

LEMMA CompleteAnswers == SearchIsComplete <=> (cards.by # "none" => Answers(search[cards.by], cards.hashes))
  BY DEF SearchIsComplete, Answers, Matching, Current

\* When a search is through with the records, the list it shows is an answer.
LEMMA ShownAnswers ==
  ASSUME TypeOK, NEW s \in SearchRecords, Walked(s), Fetched(s), s.pc = "records", s.fetched = Len(s.hashes),
         NEW filtered,
         filtered = Selected(s.records, Wanted(s))
  PROVE  Answers(s, Reverse(HashesOf(filtered)))
  <1> SUFFICES ASSUME ~s.missed, Current(s)
               PROVE  \E n \in Len(s.known) .. Len(store.ordered) :
                        Reverse(HashesOf(filtered)) =
                          Reverse(Selected(SubSeq(store.ordered, 1, n), Matching(s)))
    BY DEF Answers
  <1>1. /\ s.hashes \in Seq(Hashes) /\ s.known \in Seq(Hashes) /\ s.records \in Seq(Founds)
        /\ store.ordered \in Seq(Hashes)
    BY SearchFields, StoreFields DEF TypeOK
  <1>2. PICK n \in Nat : n = Len(s.hashes)
    BY <1>1
  <1>3. /\ n <= Len(store.ordered) /\ Len(s.known) <= n
        /\ \A i \in 1 .. n : s.hashes[i] = store.ordered[i]
    BY <1>2 DEF Walked
  <1>4. /\ Len(s.records) = n
        /\ \A i \in 1 .. n :
             s.records[i] = [hash |-> s.hashes[i], by |-> store.records[s.hashes[i]].submitter]
    BY <1>2 DEF Fetched
  <1>5. SubSeq(store.ordered, 1, n) = s.hashes
    <2>1. PICK part : part = SubSeq(store.ordered, 1, n)
      OBVIOUS
    <2>2. part \in Seq(Hashes) /\ Len(part) = n /\ \A i \in 1 .. n : part[i] = store.ordered[i]
      BY <1>1, <1>3, <2>1, PrefixFacts
    <2>3. PICK read \in Seq(Hashes) : read = s.hashes
      BY <1>1
    <2>4. Len(read) = n /\ \A i \in 1 .. n : part[i] = read[i]
      BY <1>2, <1>3, <2>2, <2>3
    <2>5. part = read
      BY <2>2, <2>4
    <2> QED BY <2>1, <2>3, <2>5
  <1>6. \A i \in 1 .. n :
          /\ s.records[i].hash = s.hashes[i]
          /\ s.records[i] \in Wanted(s) <=> s.hashes[i] \in Matching(s)
    <2> SUFFICES ASSUME NEW i \in 1 .. n
                 PROVE  /\ s.records[i].hash = s.hashes[i]
                        /\ s.records[i] \in Wanted(s) <=> s.hashes[i] \in Matching(s)
      OBVIOUS
    <2>1. /\ s.records[i].hash = s.hashes[i]
          /\ s.records[i].by = store.records[s.hashes[i]].submitter
      <3>1. PICK h, b : h = s.hashes[i] /\ b = store.records[h].submitter
        OBVIOUS
      <3>2. s.records[i] = [hash |-> h, by |-> b]
        BY <1>4, <3>1
      <3> QED BY <3>1, <3>2
    <2>2. s.records[i] \in ToSet(s.records)
      BY <1>1, <1>2, <1>4 DEF ToSet
    <2>3. s.hashes[i] \in Hashes
      BY <1>1, <1>2
    <2> QED BY <2>1, <2>2, <2>3 DEF Matching, Wanted
  <1>7. HashesOf(filtered) = Selected(s.hashes, Matching(s))
    <2>1. PICK R : R = Wanted(s)
      OBVIOUS
    <2>2. \A i \in 1 .. Len(s.hashes) :
            s.records[i].hash = s.hashes[i] /\ (s.records[i] \in R <=> s.hashes[i] \in Matching(s))
      BY <1>2, <1>6, <2>1
    <2>3. filtered = Selected(s.records, R)
      BY <2>1
    <2> QED BY <1>1, <1>2, <1>4, <2>2, <2>3, SelectedHashes
  <1>8. n \in Len(s.known) .. Len(store.ordered)
    BY <1>1, <1>2, <1>3
  <1> QED BY <1>5, <1>7, <1>8

\* The operations of the explorer that are not reading.
LEMMA Started ==
  ASSUME TypeOK, SearchesOK, NEW q \in Searches, NEW f \in Submitters \cup {NoSubmitter}, StartSearch(q, f)
  PROVE  /\ \E new \in SearchRecords :
              search' = [search EXCEPT ![q] = new] /\ Walked(new) /\ Fetched(new)
         /\ cards'.by = "none"
  <1>1. PICK new : new = NewSearch(f)
    OBVIOUS
  <1>2. store.ordered \in Seq(Hashes) /\ reorgs \in Nat
    BY StoreFields DEF TypeOK
  <1>3. << >> \in Seq(Hashes) /\ << >> \in Seq(Founds) /\ Len(<< >>) = 0
    OBVIOUS
  <1>4. new \in SearchRecords
    BY <1>1, <1>2, <1>3 DEF NewSearch, SearchRecords
  <1>5. /\ new.pc = "pages" /\ new.hashes = << >> /\ new.offset = 0 /\ new.fetched = 0 /\ new.records = << >>
        /\ new.known = store.ordered /\ new.reorgsThen = reorgs
    BY <1>1 DEF NewSearch
  <1>6. Walked(new) /\ Fetched(new)
    BY <1>2, <1>3, <1>5 DEF Walked, Fetched, Current
  <1>7. cards'.by = "none"
    BY DEF StartSearch, NoCards
  <1> QED BY <1>1, <1>4, <1>6, <1>7 DEF StartSearch

LEMMA Ended ==
  ASSUME SearchesOK, NEW q \in Searches, search[q].pc \in {"pages", "records"},
         search' = [search EXCEPT ![q].pc = "done"], Walked(search[q]), Fetched(search[q])
  PROVE  \E new \in SearchRecords :
           /\ search' = [search EXCEPT ![q] = new]
           /\ new = [search[q] EXCEPT !.pc = "done"]
           /\ new.pc = "done" /\ Walked(new) /\ Fetched(new)
  <1>1. PICK s \in SearchRecords : s = search[q]
    BY SearchOf
  <1>2. PICK new : new = [s EXCEPT !.pc = "done"]
    OBVIOUS
  <1>3. /\ new \in SearchRecords /\ new.hashes = s.hashes /\ new.offset = s.offset /\ new.pc = "done"
        /\ new.fetched = s.fetched /\ new.records = s.records /\ new.missed = s.missed
        /\ new.known = s.known /\ new.reorgsThen = s.reorgsThen
    BY <1>2 DEF SearchRecords
  <1>4. Walked(new) /\ Fetched(new)
    BY <1>1, <1>3 DEF Walked, Fetched, Current
  <1> QED BY <1>1, <1>2, <1>3, <1>4

\* What a step of the store leaves of the index and the records.
LEMMA StoreGrows ==
  ASSUME TypeOK, [Next]_vars, reorgs' # reorgs + 1
  PROVE  /\ reorgs' = reorgs
         /\ Len(store.ordered) \in Nat /\ Len(store'.ordered) \in Nat
         /\ Len(store.ordered) <= Len(store'.ordered)
         /\ \A i \in 1 .. Len(store.ordered) : store'.ordered[i] = store.ordered[i]
         /\ \A h \in Hashes : Exists(store, h) => store'.records[h] = store.records[h]
  <1>1. reorgs' = reorgs
    BY DEF Next, vars, Write, LogStoreWrite, HashStoreWrite, BatchStoreWrite, WriteLog, WriteHash,
       WriteBatch, ContractWrite, ServiceWrite, Finalize, Reorg
  <1>2. store.ordered \in Seq(Hashes) /\ Len(store.ordered) \in Nat
    BY StoreFields DEF TypeOK
  <1>3. CASE store' = store
    BY <1>1, <1>2, <1>3
  <1>4. CASE store' # store
    <2>1. /\ \A h \in Hashes : Exists(store, h) => store'.records[h] = store.records[h]
          /\ \E h \in Hashes : store'.ordered = Append(store.ordered, h)
      BY <1>4, AppendsStep
    <2> QED BY <1>1, <1>2, <2>1, AppendFacts
  <1> QED BY <1>3, <1>4

\* A step of the store leaves what a search has read, and the answers it gave.
LEMMA ReadKept ==
  ASSUME TypeOK, TypeOK', IndexListsRecords, [Next]_vars, NEW s \in SearchRecords, Walked(s), Fetched(s)
  PROVE  /\ Walked(s)' /\ Fetched(s)'
         /\ \A list : Answers(s, list) => Answers(s, list)'
  <1>1. /\ s.hashes \in Seq(Hashes) /\ s.known \in Seq(Hashes) /\ s.reorgsThen \in Nat /\ reorgs \in Nat
        /\ s.fetched \in Nat /\ Len(s.hashes) \in Nat /\ Len(s.known) \in Nat
    BY SearchFields DEF TypeOK
  <1>2. s.reorgsThen <= reorgs
    BY DEF Walked
  <1>3. CASE reorgs' = reorgs + 1
    <2>1. s.reorgsThen <= reorgs' /\ s.reorgsThen # reorgs'
      BY <1>1, <1>2, <1>3
    <2> QED BY <2>1 DEF Walked, Fetched, Answers, Current
  <1>4. CASE reorgs' # reorgs + 1
    <2> DEFINE o == store.ordered
               p == store'.ordered
    <2>1. /\ reorgs' = reorgs /\ Len(o) \in Nat /\ Len(p) \in Nat /\ Len(o) <= Len(p)
          /\ \A i \in 1 .. Len(o) : p[i] = o[i]
          /\ \A h \in Hashes : Exists(store, h) => store'.records[h] = store.records[h]
      BY <1>4, StoreGrows
    <2>2. \A i \in 1 .. Len(o) : Exists(store, o[i]) /\ o[i] \in Hashes
      <3>1. o \in Seq(Hashes)
        BY StoreFields DEF TypeOK
      <3> QED BY <3>1 DEF IndexListsRecords, Indexed
    <2>3. o \in Seq(Hashes) /\ p \in Seq(Hashes)
      BY StoreFields DEF TypeOK
    <2>4. Walked(s)'
      <3>1. ASSUME Current(s)
            PROVE  /\ Len(s.hashes) <= Len(p) /\ Len(s.known) <= Len(p)
                   /\ \A i \in 1 .. Len(s.hashes) : s.hashes[i] = p[i]
        <4>1. /\ Len(s.hashes) <= Len(o) /\ Len(s.known) <= Len(o)
              /\ \A i \in 1 .. Len(s.hashes) : s.hashes[i] = o[i]
          BY <3>1 DEF Walked
        <4> HIDE DEF o, p
        <4>2. \A i \in 1 .. Len(s.hashes) : i \in 1 .. Len(o)
          BY <1>1, <2>1, <4>1
        <4> QED BY <1>1, <2>1, <4>1, <4>2
      <3> QED BY <2>1, <3>1 DEF Walked, Current
    <2>5. Fetched(s)'
      <3>1. ASSUME Current(s), NEW i \in 1 .. s.fetched
            PROVE  store'.records[s.hashes[i]] = store.records[s.hashes[i]]
        <4>1. /\ Len(s.hashes) <= Len(o) /\ \A k \in 1 .. Len(s.hashes) : s.hashes[k] = o[k]
              /\ s.fetched <= Len(s.hashes)
          BY <3>1 DEF Walked, Fetched
        <4> HIDE DEF o, p
        <4>2. i \in 1 .. Len(o) /\ i \in 1 .. Len(s.hashes)
          BY <1>1, <2>1, <4>1
        <4> QED BY <2>1, <2>2, <4>1, <4>2
      <3>2. Current(s)' <=> Current(s)
        BY <2>1 DEF Current
      <3> QED BY <3>1, <3>2 DEF Fetched
    <2>6. ASSUME NEW list, Answers(s, list)
          PROVE  Answers(s, list)'
      <3> SUFFICES ASSUME ~s.missed, Current(s)
                   PROVE  \E n \in Len(s.known) .. Len(p) :
                            list = Reverse(Selected(SubSeq(p, 1, n), Matching(s)'))
        BY <2>1 DEF Answers, Current
      <3>1. PICK n \in Len(s.known) .. Len(o) : list = Reverse(Selected(SubSeq(o, 1, n), Matching(s)))
        BY <2>6 DEF Answers
      <3> HIDE DEF o, p
      <3>2. n \in Nat /\ n <= Len(o) /\ n <= Len(p) /\ n \in Len(s.known) .. Len(p)
        BY <1>1, <2>1
      <3>3. PICK part : part = SubSeq(o, 1, n)
        OBVIOUS
      <3>4. part \in Seq(Hashes) /\ Len(part) = n /\ \A i \in 1 .. n : part[i] = o[i]
        BY <2>3, <3>2, <3>3, PrefixFacts
      <3>5. SubSeq(p, 1, n) = part
        <4>1. PICK q : q = SubSeq(p, 1, n)
          OBVIOUS
        <4>2. q \in Seq(Hashes) /\ Len(q) = n /\ \A i \in 1 .. n : q[i] = p[i]
          BY <2>3, <3>2, <4>1, PrefixFacts
        <4>3. \A i \in 1 .. n : q[i] = part[i]
          BY <2>1, <3>2, <3>4, <4>2
        <4>4. q = part
          BY <3>4, <4>2, <4>3
        <4> QED BY <4>1, <4>4
      <3>6. \A i \in 1 .. Len(part) : part[i] \in Matching(s) <=> part[i] \in Matching(s)'
        <4> SUFFICES ASSUME NEW i \in 1 .. n
                     PROVE  part[i] \in Matching(s) <=> part[i] \in Matching(s)'
          BY <3>4
        <4>1. i \in 1 .. Len(o)
          BY <2>1, <3>2
        <4>2. part[i] \in Hashes /\ store'.records[part[i]] = store.records[part[i]]
          BY <2>1, <2>2, <3>4, <4>1
        <4> QED BY <4>2 DEF Matching
      <3>7. Selected(part, Matching(s)) = Selected(part, Matching(s)')
        <4>1. PICK S, T : S = Matching(s) /\ T = Matching(s)'
          OBVIOUS
        <4>2. \A i \in 1 .. Len(part) : part[i] \in S <=> part[i] \in T
          BY <3>6, <4>1
        <4>3. Selected(part, S) = Selected(part, T)
          BY <3>4, <4>2, SelectedSame
        <4> QED BY <4>1, <4>3
      <3> QED BY <3>1, <3>2, <3>3, <3>5, <3>7
    <2> QED BY <2>4, <2>5, <2>6
  <1> QED BY <1>3, <1>4


\* An operation on one search leaves the others, and an answer that was given.
LEMMA OthersKept ==
  ASSUME SearchesOK, ExplorerInv, UNCHANGED vars, NEW q \in Searches, NEW new \in SearchRecords,
         search' = [search EXCEPT ![q] = new], Walked(new), Fetched(new),
         cards'.by = "none" \/ (cards' = cards /\ search[q].pc # "done")
                            \/ (cards'.by = q /\ new.pc = "done" /\ Answers(new, cards'.hashes))
  PROVE  SearchesOK' /\ ExplorerInv'
  <1>1. /\ search'[q] = new /\ \A other \in Searches \ {q} : search'[other] = search[other]
        /\ search' \in [Searches -> SearchRecords \cup {NoSearch}]
    BY DEF SearchesOK
  <1>2. store' = store /\ reorgs' = reorgs
    BY DEF vars
  <1>3. \A s, list : /\ Walked(s)' <=> Walked(s)
                     /\ Fetched(s)' <=> Fetched(s)
                     /\ Answers(s, list)' <=> Answers(s, list)
    BY <1>2 DEF Walked, Fetched, Answers, Matching, Current
  <1>4. SearchesOK'
    BY <1>1 DEF SearchesOK
  <1>5. ASSUME NEW other \in Searches, search'[other].pc # "idle"
        PROVE  Walked(search[other])' /\ Fetched(search[other])'
    <2>1. PICK s : s = search'[other]
      OBVIOUS
    <2>2. Walked(s) /\ Fetched(s)
      BY <1>1, <1>5, <2>1 DEF ExplorerInv
    <2>3. Walked(s)' /\ Fetched(s)'
      BY <1>3, <2>2
    <2> QED BY <2>1, <2>3 DEF Walked, Fetched, Current
  <1>6. SearchIsComplete'
    <2> SUFFICES ASSUME cards'.by # "none"
                 PROVE  SearchIsComplete'
      BY DEF SearchIsComplete
    <2>1. PICK s, list : s = search'[cards'.by] /\ list = cards'.hashes
      OBVIOUS
    <2>2. Answers(s, list)
      <3>1. CASE cards' = cards /\ search[q].pc # "done"
        BY <1>1, <2>1, <3>1, CompleteAnswers DEF ExplorerInv, SearchesOK
      <3>2. CASE cards'.by = q /\ new.pc = "done" /\ Answers(new, cards'.hashes)
        BY <1>1, <2>1, <3>2
      <3> QED BY <3>1, <3>2
    <2>3. Answers(s, list)'
      BY <1>3, <2>2
    <2> QED BY <2>1, <2>3 DEF SearchIsComplete, Answers, Matching, Current
  <1> QED BY <1>4, <1>5, <1>6 DEF ExplorerInv


LEMMA StoreStep ==
  ASSUME TypeOK, TypeOK', IndexListsRecords, SearchesOK, ExplorerInv, [Next]_vars, UNCHANGED <<search, cards>>
  PROVE  SearchesOK' /\ ExplorerInv'
  <1>1. SearchesOK'
    BY DEF SearchesOK
  <1>2. ASSUME NEW q \in Searches, search'[q].pc # "idle"
        PROVE  Walked(search[q])' /\ Fetched(search[q])'
    <2>1. PICK s \in SearchRecords : s = search[q]
      BY <1>2, SearchOf
    <2>2. Walked(s) /\ Fetched(s)
      BY <1>2, <2>1 DEF ExplorerInv
    <2>3. Walked(s)' /\ Fetched(s)'
      BY <2>2, ReadKept
    <2> QED BY <2>1, <2>3 DEF Walked, Fetched, Current
  <1>3. SearchIsComplete'
    <2> SUFFICES ASSUME cards'.by # "none"
                 PROVE  SearchIsComplete'
      BY DEF SearchIsComplete
    <2>1. cards.by \in Searches /\ search[cards.by].pc = "done"
      BY DEF SearchesOK
    <2>2. PICK s \in SearchRecords : s = search[cards.by]
      BY <2>1, SearchOf
    <2>3. PICK list : list = cards.hashes
      OBVIOUS
    <2>4. Walked(s) /\ Fetched(s) /\ Answers(s, list)
      BY <2>1, <2>2, <2>3, CompleteAnswers DEF ExplorerInv
    <2>5. Answers(s, list)'
      BY <2>4, ReadKept
    <2> QED BY <2>2, <2>3, <2>5 DEF SearchIsComplete, Answers, Matching, Current
  <1> QED BY <1>1, <1>2, <1>3 DEF ExplorerInv

LEMMA ExplorerStep ==
  ASSUME TypeOK, TypeOK', IndexListsRecords, SearchesOK, ExplorerInv, [ReadNext]_readVars
  PROVE  SearchesOK' /\ ExplorerInv'
  <1>1. CASE UNCHANGED <<search, cards>>
    BY <1>1, ReadersOnlyRead, StoreStep
  <1>2. CASE Next /\ UNCHANGED readerVars
    BY <1>1, <1>2 DEF readerVars
  <1>3. CASE ListPage
    BY <1>1, <1>3 DEF ListPage, Mounted, Newer, Older, Load, AnswerList, Arrive, FailLoad
  <1>4. CASE UNCHANGED readVars
    BY <1>1, <1>4 DEF readVars, readerVars
  <1>5. ASSUME NEW q \in Searches, NEW f \in Submitters \cup {NoSubmitter}, StartSearch(q, f)
        PROVE  SearchesOK' /\ ExplorerInv'
    <2>1. UNCHANGED vars
      BY <1>5 DEF StartSearch
    <2> QED BY <1>5, <2>1, Started, OthersKept
  <1>6. ASSUME NEW q \in Searches, FetchPage(q) \/ FetchRecords(q)
        PROVE  SearchesOK' /\ ExplorerInv'
    <2>1. /\ UNCHANGED vars /\ cards' = cards
          /\ search[q].pc # "done" /\ search[q].pc # "idle"
      BY <1>6 DEF FetchPage, FetchRecords
    <2>2. Walked(search[q]) /\ Fetched(search[q])
      BY <2>1 DEF ExplorerInv
    <2>3. \E new \in SearchRecords : search' = [search EXCEPT ![q] = new] /\ Walked(new) /\ Fetched(new)
      BY <1>6, <2>2, PageRead, RecordsRead
    <2> QED BY <2>1, <2>3, OthersKept
  <1>7. ASSUME NEW q \in Searches, ShowCards(q)
        PROVE  SearchesOK' /\ ExplorerInv'
    <2>1. /\ UNCHANGED vars
          /\ search[q].pc = "records" /\ search[q].fetched = Len(search[q].hashes)
          /\ search' = [search EXCEPT ![q].pc = "done"]
      BY <1>7 DEF ShowCards
    <2>2. Walked(search[q]) /\ Fetched(search[q])
      BY <2>1 DEF ExplorerInv
    <2>3. PICK s \in SearchRecords : s = search[q]
      BY <2>1, SearchOf
    <2>4. PICK filtered :
            filtered = Selected(s.records, Wanted(s))
      OBVIOUS
    <2>5. cards' = [by |-> q, hashes |-> Reverse(HashesOf(filtered))]
      BY <1>7, <2>3, <2>4 DEF ShowCards, HashesOf, Wanted
    <2>6. Answers(s, Reverse(HashesOf(filtered)))
      BY <2>1, <2>2, <2>3, <2>4, ShownAnswers
    <2>7. PICK new \in SearchRecords :
            /\ search' = [search EXCEPT ![q] = new]
            /\ new = [s EXCEPT !.pc = "done"]
            /\ new.pc = "done" /\ Walked(new) /\ Fetched(new)
      BY <2>1, <2>2, <2>3, Ended
    <2>8. /\ new.filter = s.filter /\ new.missed = s.missed /\ new.known = s.known
          /\ new.reorgsThen = s.reorgsThen
      BY <2>7 DEF SearchRecords
    <2>9. Answers(new, cards'.hashes)
      BY <2>5, <2>6, <2>8 DEF Answers, Matching, Current
    <2>10. cards'.by = q
      BY <2>5
    <2> QED BY <2>1, <2>7, <2>9, <2>10, OthersKept
  <1>8. ASSUME NEW q \in Searches, FailSearch(q)
        PROVE  SearchesOK' /\ ExplorerInv'
    <2>1. /\ UNCHANGED vars /\ cards'.by = "none" /\ search[q].pc = "pages"
          /\ search' = [search EXCEPT ![q].pc = "done"]
      BY <1>8 DEF FailSearch, NoCards
    <2>2. Walked(search[q]) /\ Fetched(search[q])
      BY <2>1 DEF ExplorerInv
    <2>3. \E new \in SearchRecords : search' = [search EXCEPT ![q] = new] /\ Walked(new) /\ Fetched(new)
      BY <2>1, <2>2, Ended
    <2> QED BY <2>1, <2>3, OthersKept
  <1> QED BY <1>2, <1>3, <1>4, <1>5, <1>6, <1>7, <1>8 DEF ReadNext, Explorer

\* What the explorer shows is complete: the pages it walks are those of one growing
\* index, whose records are all there and are those their writers gave, and a search
\* that overlaps another works on its own state.
THEOREM ExplorerShowsAll == ReadSpec => []SearchIsComplete
  <1>1. ReadInit => SearchesOK /\ ExplorerInv
    BY DEF ReadInit, NoSearch, NoCards, SearchesOK, ExplorerInv, SearchIsComplete
  <1>2. /\ TypeOK /\ TypeOK' /\ IndexInv /\ SearchesOK /\ ExplorerInv /\ [ReadNext]_readVars
        => (SearchesOK /\ ExplorerInv)'
    BY ExplorerStep DEF IndexInv, IndexListsRecords
  <1>3. ExplorerInv => SearchIsComplete
    BY DEF ExplorerInv
  <1> QED BY <1>1, <1>2, <1>3, ReadersAlways, PTL DEF ReadSpec
=============================================================================
