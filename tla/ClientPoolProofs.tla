--------------------------- MODULE ClientPoolProofs ---------------------------
(***************************************************************************)
(* Proofs about the client's connection pool, for every finite set of      *)
(* calls, every limit and every choice of what may go wrong.               *)
(***************************************************************************)
EXTENDS ClientPool, FiniteSetTheorems, TLAPS

CallRecords == [st : CallStates, conn : Calls \cup {NoConn}]
Openings == {"none", "connect", "handshake"}

\* States that stand for a permit, and states of a call that never had its own connection.
Busy == {"connect", "handshake", "holding", "reading"}
Unborn == {"new", "called", "connect", "handshake", "waiting"}

\* Permits, of any calls and openers.
PermitsOf(cl, op) ==
  {<<"call", c>> : c \in {d \in Calls : cl[d].st \in Busy}}
    \cup {<<"opener", c>> : c \in {d \in Calls : op[d] # "none"}}
Weight(b) == IF b THEN 1 ELSE 0

-----------------------------------------------------------------------------
\* What a call or an opener becomes changes the number of permits by what it was and is.
LEMMA PermitCounts ==
  ASSUME NEW cl \in [Calls -> CallRecords], NEW op \in [Calls -> Openings], NEW c \in Calls,
         NEW r \in CallRecords, NEW o \in Openings
  PROVE  /\ Cardinality(PermitsOf(cl, op)) \in Nat
         /\ Cardinality(PermitsOf([cl EXCEPT ![c] = r], [op EXCEPT ![c] = o])) \in Nat
         /\ Cardinality(PermitsOf([cl EXCEPT ![c] = r], [op EXCEPT ![c] = o])) =
              Cardinality(PermitsOf(cl, op)) + Weight(r.st \in Busy) - Weight(cl[c].st \in Busy)
                + Weight(o # "none") - Weight(op[c] # "none")
  <1> DEFINE cl1 == [cl EXCEPT ![c] = r]
             op1 == [op EXCEPT ![c] = o]
  <1>0. cl1 \in [Calls -> CallRecords] /\ op1 \in [Calls -> Openings] OBVIOUS
  <1>1. ASSUME NEW cl2 \in [Calls -> CallRecords], NEW op2 \in [Calls -> Openings]
        PROVE  IsFiniteSet(PermitsOf(cl2, op2)) /\ Cardinality(PermitsOf(cl2, op2)) \in Nat
    <2>1. IsFiniteSet({"call", "opener"})
      <3>1. IsFiniteSet({"call"}) /\ {"call", "opener"} = {"call"} \cup {"opener"}
        BY FS_Singleton
      <3> QED BY <3>1, FS_AddElement
    <2>2. IsFiniteSet({"call", "opener"} \X Calls) BY <2>1, FS_Product, PoolCallsAssumption
    <2>3. PermitsOf(cl2, op2) \subseteq {"call", "opener"} \X Calls BY DEF PermitsOf
    <2> QED BY <2>2, <2>3, FS_Subset, FS_CardinalityType
  <1>2. Cardinality(PermitsOf(cl1, op)) =
          Cardinality(PermitsOf(cl, op)) + (IF r.st \in Busy THEN 1 ELSE 0)
            - (IF cl[c].st \in Busy THEN 1 ELSE 0)
    <2> DEFINE Old == PermitsOf(cl, op)
               New == PermitsOf(cl1, op)
    <2>1. <<"call", c>> \in Old <=> cl[c].st \in Busy BY DEF PermitsOf
    <2>2. New = IF r.st \in Busy THEN Old \cup {<<"call", c>>} ELSE Old \ {<<"call", c>>}
      BY DEF PermitsOf
    <2>3. IsFiniteSet(Old) /\ Cardinality(Old) \in Nat BY <1>0, <1>1
    <2> HIDE DEF Old, New
    <2>4. r.st \in Busy /\ cl[c].st \in Busy => New = Old BY <2>1, <2>2
    <2>5. r.st \notin Busy /\ cl[c].st \notin Busy => New = Old BY <2>1, <2>2
    <2>6. r.st \in Busy /\ cl[c].st \notin Busy => Cardinality(New) = Cardinality(Old) + 1
      BY <2>1, <2>2, <2>3, FS_AddElement
    <2>7. r.st \notin Busy /\ cl[c].st \in Busy => Cardinality(New) = Cardinality(Old) - 1
      BY <2>1, <2>2, <2>3, FS_RemoveElement
    <2>8. Cardinality(New) = Cardinality(Old) + (IF r.st \in Busy THEN 1 ELSE 0)
            - (IF cl[c].st \in Busy THEN 1 ELSE 0)
      BY <2>3, <2>4, <2>5, <2>6, <2>7
    <2> QED BY <2>8 DEF Old, New
  <1>3. Cardinality(PermitsOf(cl1, op1)) =
          Cardinality(PermitsOf(cl1, op)) + (IF o # "none" THEN 1 ELSE 0)
            - (IF op[c] # "none" THEN 1 ELSE 0)
    <2> DEFINE Old == PermitsOf(cl1, op)
               New == PermitsOf(cl1, op1)
    <2>1. <<"opener", c>> \in Old <=> op[c] # "none" BY DEF PermitsOf
    <2>2. New = IF o # "none" THEN Old \cup {<<"opener", c>>} ELSE Old \ {<<"opener", c>>}
      BY DEF PermitsOf
    <2>3. IsFiniteSet(Old) /\ Cardinality(Old) \in Nat BY <1>0, <1>1
    <2> HIDE DEF Old, New
    <2>4. o # "none" /\ op[c] # "none" => New = Old BY <2>1, <2>2
    <2>5. o = "none" /\ op[c] = "none" => New = Old BY <2>1, <2>2
    <2>6. o # "none" /\ op[c] = "none" => Cardinality(New) = Cardinality(Old) + 1
      BY <2>1, <2>2, <2>3, FS_AddElement
    <2>7. o = "none" /\ op[c] # "none" => Cardinality(New) = Cardinality(Old) - 1
      BY <2>1, <2>2, <2>3, FS_RemoveElement
    <2>8. Cardinality(New) = Cardinality(Old) + (IF o # "none" THEN 1 ELSE 0)
            - (IF op[c] # "none" THEN 1 ELSE 0)
      BY <2>3, <2>4, <2>5, <2>6, <2>7
    <2> QED BY <2>8 DEF Old, New
  <1>4. Cardinality(PermitsOf(cl, op)) \in Nat /\ Cardinality(PermitsOf(cl1, op1)) \in Nat
        /\ Cardinality(PermitsOf(cl1, op)) \in Nat
    BY <1>0, <1>1
  <1> HIDE DEF cl1, op1
  <1>5. Cardinality(PermitsOf(cl1, op1)) =
          Cardinality(PermitsOf(cl, op)) + Weight(r.st \in Busy) - Weight(cl[c].st \in Busy)
            + Weight(o # "none") - Weight(op[c] # "none")
    BY <1>2, <1>3, <1>4 DEF Weight
  <1> QED BY <1>4, <1>5 DEF cl1, op1

-----------------------------------------------------------------------------
\* Where connections are: a call holds one of its key or none, an idle one is of the key
\* it is listed under, and no connection is in two places.  A call whose own connection
\* was never opened has none to find.
HeldOfKey(cl) ==
  \A c \in Calls : cl[c].conn # NoConn => KeyOf[cl[c].conn] = KeyOf[c] /\ cl[c].st \in {"holding", "reading"}
ListedByKey(av) == \A key \in Keys : \A n \in 1..Len(av[key]) : KeyOf[av[key][n]] = key
ListedOnce(av) == \A key \in Keys : \A n, m \in 1..Len(av[key]) : av[key][n] = av[key][m] => n = m
HeldOnce(cl) == \A c, d \in Calls : cl[c].conn = cl[d].conn /\ cl[c].conn # NoConn => c = d
IdleNotHeld(cl, av) == \A c \in Calls, key \in Keys : \A n \in 1..Len(av[key]) : av[key][n] # cl[c].conn
UnbornNowhere(cl, av) ==
  \A c \in Calls : cl[c].st \in Unborn =>
    /\ \A d \in Calls : cl[d].conn # c
    /\ \A key \in Keys : \A n \in 1..Len(av[key]) : av[key][n] # c
OneHolder(cl, av) ==
  /\ HeldOfKey(cl) /\ ListedByKey(av) /\ ListedOnce(av) /\ HeldOnce(cl)
  /\ IdleNotHeld(cl, av) /\ UnbornNowhere(cl, av)

\* No call is the mark of a call without a connection, and what is idle is named after calls.
LEMMA IdleAreCalls ==
  ASSUME NEW av \in [Keys -> Seq(Calls)]
  PROVE  NoConn \notin Calls /\ \A key \in Keys : \A n \in 1..Len(av[key]) : av[key][n] \in Calls
  <1>1. NoConn \notin Calls BY PoolCallsAssumption DEF NoConn
  <1>2. ASSUME NEW key \in Keys, NEW n \in 1..Len(av[key])
        PROVE  av[key][n] \in Calls
    <2>1. av[key] \in Seq(Calls) OBVIOUS
    <2> QED BY <2>1
  <1> QED BY <1>1, <1>2

\* A call that gives up its connection, or moves on with what it has.
LEMMA HolderMoves ==
  ASSUME NEW cl \in [Calls -> CallRecords], NEW av \in [Keys -> Seq(Calls)], NEW c \in Calls,
         NEW r \in CallRecords, OneHolder(cl, av),
         r.conn = NoConn \/ (r.conn = cl[c].conn /\ r.st \in {"holding", "reading"}),
         r.st \in Unborn => cl[c].st \in Unborn
  PROVE  OneHolder([cl EXCEPT ![c] = r], av)
  <1> DEFINE cl2 == [cl EXCEPT ![c] = r]
  <1>1. cl2[c] = r /\ \A d \in Calls : d # c => cl2[d] = cl[d] OBVIOUS
  <1>2. NoConn \notin Calls /\ \A key \in Keys : \A n \in 1..Len(av[key]) : av[key][n] \in Calls
    BY IdleAreCalls
  <1> HIDE DEF cl2
  <1>3. \A d \in Calls : cl2[d].conn # NoConn => KeyOf[cl2[d].conn] = KeyOf[d] /\ cl2[d].st \in {"holding", "reading"}
    BY <1>1 DEF OneHolder, HeldOfKey
  <1>4. \A d, e \in Calls : cl2[d].conn = cl2[e].conn /\ cl2[d].conn # NoConn => d = e
    BY <1>1 DEF OneHolder, HeldOnce
  <1>5. \A d \in Calls, key \in Keys : \A n \in 1..Len(av[key]) : av[key][n] # cl2[d].conn
    BY <1>1, <1>2 DEF OneHolder, IdleNotHeld
  <1>6. \A d \in Calls : cl2[d].st \in Unborn => \A e \in Calls : cl2[e].conn # d
    BY <1>1, <1>2 DEF OneHolder, UnbornNowhere
  <1>7. \A d \in Calls : cl2[d].st \in Unborn =>
          \A key \in Keys : \A n \in 1..Len(av[key]) : av[key][n] # d
    BY <1>1 DEF OneHolder, UnbornNowhere
  <1>8. OneHolder(cl2, av) BY <1>3, <1>4, <1>5, <1>6, <1>7
       DEF OneHolder, HeldOfKey, ListedByKey, ListedOnce, HeldOnce, IdleNotHeld, UnbornNowhere
  <1> QED BY <1>8 DEF cl2

\* A connection goes back to the end of the list of its key.
LEMMA HolderReturns ==
  ASSUME NEW cl \in [Calls -> CallRecords], NEW av \in [Keys -> Seq(Calls)], NEW c \in Calls,
         NEW r \in CallRecords, OneHolder(cl, av),
         r.conn = NoConn, r.st \notin Unborn, cl[c].conn # NoConn
  PROVE  OneHolder([cl EXCEPT ![c] = r], [av EXCEPT ![KeyOf[cl[c].conn]] = Append(@, cl[c].conn)])
  <1> DEFINE k == cl[c].conn
             cl2 == [cl EXCEPT ![c] = r]
             av2 == [av EXCEPT ![KeyOf[k]] = Append(@, k)]
             l == Len(av[KeyOf[k]])
  <1>1. k \in Calls /\ KeyOf[k] = KeyOf[c] /\ KeyOf[k] \in Keys /\ cl[c].st \notin Unborn
    BY DEF CallRecords, OneHolder, HeldOfKey, UnbornNowhere, Keys, Unborn
  <1>2. /\ \A key \in Keys : key # KeyOf[k] => av2[key] = av[key]
        /\ l \in Nat /\ Len(av2[KeyOf[k]]) = l + 1
        /\ \A n \in 1..l : av2[KeyOf[k]][n] = av[KeyOf[k]][n]
        /\ av2[KeyOf[k]][l + 1] = k
    BY <1>1
  <1>3. cl2[c] = r /\ \A d \in Calls : d # c => cl2[d] = cl[d]
    OBVIOUS
  <1>4. \A n \in 1..l : av[KeyOf[k]][n] # k BY <1>1 DEF OneHolder, IdleNotHeld
  <1>5. \A d \in Calls : d # c => cl[d].conn # k BY <1>1 DEF OneHolder, HeldOnce
  <1>6. cl[k].st \notin Unborn BY <1>1 DEF OneHolder, UnbornNowhere
  <1>7. NoConn \notin Calls /\ \A key \in Keys : \A n \in 1..Len(av[key]) : av[key][n] \in Calls
    BY IdleAreCalls
  <1> HIDE DEF cl2, av2, k
  \* An idle connection is k, at the end of its list, or was idle before.
  <1>8. \A key \in Keys : \A n \in 1..Len(av2[key]) :
          \/ key = KeyOf[k] /\ n = l + 1 /\ av2[key][n] = k
          \/ n \in 1..Len(av[key]) /\ av2[key][n] = av[key][n]
    <2> SUFFICES ASSUME NEW key \in Keys, NEW n \in 1..Len(av2[key])
                 PROVE  \/ key = KeyOf[k] /\ n = l + 1 /\ av2[key][n] = k
                        \/ n \in 1..Len(av[key]) /\ av2[key][n] = av[key][n]
      OBVIOUS
    <2>1. CASE key # KeyOf[k] BY <2>1, <1>2
    <2>2. CASE key = KeyOf[k]
      <3>1. n = l + 1 \/ n \in 1..l BY <2>2, <1>2
      <3> QED BY <2>2, <3>1, <1>2
    <2> QED BY <2>1, <2>2
  <1> HIDE DEF l
  <1>9. \A d \in Calls : cl2[d].conn # NoConn => KeyOf[cl2[d].conn] = KeyOf[d] /\ cl2[d].st \in {"holding", "reading"}
    BY <1>3 DEF OneHolder, HeldOfKey
  <1>10. \A key \in Keys : \A n \in 1..Len(av2[key]) : KeyOf[av2[key][n]] = key
    <2> SUFFICES ASSUME NEW key \in Keys, NEW n \in 1..Len(av2[key])
                 PROVE  KeyOf[av2[key][n]] = key
      OBVIOUS
    <2>1. CASE n \in 1..Len(av[key]) /\ av2[key][n] = av[key][n]
      BY <2>1 DEF OneHolder, ListedByKey
    <2> QED BY <2>1, <1>8
  <1>11. \A key \in Keys : \A n, m \in 1..Len(av2[key]) : av2[key][n] = av2[key][m] => n = m
    <2> SUFFICES ASSUME NEW key \in Keys, NEW n \in 1..Len(av2[key]), NEW m \in 1..Len(av2[key]),
                        av2[key][n] = av2[key][m]
                 PROVE  n = m
      OBVIOUS
    <2>1. \/ key = KeyOf[k] /\ n = l + 1 /\ av2[key][n] = k
          \/ n \in 1..Len(av[key]) /\ av2[key][n] = av[key][n]
      BY <1>8
    <2>2. \/ key = KeyOf[k] /\ m = l + 1 /\ av2[key][m] = k
          \/ m \in 1..Len(av[key]) /\ av2[key][m] = av[key][m]
      BY <1>8
    <2>3. \A i \in 1..Len(av[key]) : key = KeyOf[k] => av[key][i] # k BY <1>4 DEF l
    <2> QED BY <2>1, <2>2, <2>3 DEF OneHolder, ListedOnce
  <1>12. \A d, e \in Calls : cl2[d].conn = cl2[e].conn /\ cl2[d].conn # NoConn => d = e
    BY <1>3 DEF OneHolder, HeldOnce
  <1>13. \A d \in Calls, key \in Keys : \A n \in 1..Len(av2[key]) : av2[key][n] # cl2[d].conn
    <2> SUFFICES ASSUME NEW d \in Calls, NEW key \in Keys, NEW n \in 1..Len(av2[key])
                 PROVE  av2[key][n] # cl2[d].conn
      OBVIOUS
    <2>1. av2[key][n] \in Calls BY <1>1, <1>7, <1>8
    <2>2. CASE d = c BY <2>1, <2>2, <1>3, <1>7
    <2>3. CASE d # c
      <3>1. cl2[d] = cl[d] BY <2>3, <1>3
      <3>2. CASE av2[key][n] = k BY <2>3, <3>1, <3>2, <1>5
      <3>3. CASE n \in 1..Len(av[key]) /\ av2[key][n] = av[key][n]
        <4>1. av[key][n] # cl[d].conn BY <3>3 DEF OneHolder, IdleNotHeld
        <4> QED BY <3>1, <3>3, <4>1
      <3> QED BY <3>2, <3>3, <1>8
    <2> QED BY <2>2, <2>3
  <1>14. \A d \in Calls : cl2[d].st \in Unborn => d # c /\ d # k /\ cl[d].st \in Unborn
    BY <1>3, <1>6
  <1>15. \A d \in Calls : cl2[d].st \in Unborn => \A e \in Calls : cl2[e].conn # d
    BY <1>3, <1>7, <1>14 DEF OneHolder, UnbornNowhere
  <1>16. \A d \in Calls : cl2[d].st \in Unborn => \A key \in Keys : \A n \in 1..Len(av2[key]) : av2[key][n] # d
    <2> SUFFICES ASSUME NEW d \in Calls, cl2[d].st \in Unborn, NEW key \in Keys, NEW n \in 1..Len(av2[key])
                 PROVE  av2[key][n] # d
      OBVIOUS
    <2>1. d # k /\ cl[d].st \in Unborn BY <1>14
    <2>2. \A m \in 1..Len(av[key]) : av[key][m] # d BY <2>1 DEF OneHolder, UnbornNowhere
    <2> QED BY <2>1, <2>2, <1>8
  <1>17. OneHolder(cl2, av2)
    BY <1>9, <1>10, <1>11, <1>12, <1>13, <1>15, <1>16
       DEF OneHolder, HeldOfKey, ListedByKey, ListedOnce, HeldOnce, IdleNotHeld, UnbornNowhere
  <1> QED BY <1>17 DEF cl2, av2, k

\* Lists are cut, and a call may get the connection at which its list was cut.
LEMMA HolderTakes ==
  ASSUME NEW cl \in [Calls -> CallRecords], NEW av \in [Keys -> Seq(Calls)], NEW c \in Calls,
         OneHolder(cl, av), cl[c].conn = NoConn, NEW j \in 0..Len(av[KeyOf[c]]),
         NEW r \in CallRecords,
         IF j = 0 THEN r.conn = NoConn /\ (r.st \in Unborn => cl[c].st \in Unborn)
                  ELSE r.conn = av[KeyOf[c]][j] /\ r.st = "holding"
  PROVE  OneHolder([cl EXCEPT ![c] = r], [av EXCEPT ![KeyOf[c]] = SubSeq(@, 1, j - 1)])
  <1> DEFINE cl2 == [cl EXCEPT ![c] = r]
             key2 == KeyOf[c]
             av2 == [av EXCEPT ![key2] = SubSeq(@, 1, j - 1)]
  <1>1. cl2[c] = r /\ \A d \in Calls : d # c => cl2[d] = cl[d] OBVIOUS
  <1>2. key2 \in Keys BY DEF Keys
  <1>3. NoConn \notin Calls /\ \A key \in Keys : \A n \in 1..Len(av[key]) : av[key][n] \in Calls
    BY IdleAreCalls
  <1>4. /\ \A key \in Keys : key # key2 => av2[key] = av[key]
        /\ \A n \in 1..Len(av2[key2]) : n \in 1..Len(av[key2]) /\ n < j /\ av2[key2][n] = av[key2][n]
    <2>1. av2[key2] = SubSeq(av[key2], 1, j - 1) BY <1>2
    <2>2. av[key2] \in Seq(Calls) /\ j - 1 \in Int /\ j - 1 < Len(av[key2]) /\ j \in Int /\ Len(av[key2]) \in Nat
      BY <1>2
    <2>3. Len(av2[key2]) = (IF 1 <= j - 1 THEN j - 1 ELSE 0) BY <2>1, <2>2
    <2>4. \A n \in 1..Len(av2[key2]) : av2[key2][n] = av[key2][n] BY <2>1, <2>2, <2>3
    <2> QED BY <2>2, <2>3, <2>4
  <1> HIDE DEF cl2, av2, key2
  \* What is still idle was idle before, and is not what the call got.
  <1>5. \A key \in Keys : \A n \in 1..Len(av2[key]) :
          n \in 1..Len(av[key]) /\ av2[key][n] = av[key][n] /\ (j # 0 => av[key][n] # r.conn)
    <2> SUFFICES ASSUME NEW key \in Keys, NEW n \in 1..Len(av2[key])
                 PROVE  n \in 1..Len(av[key]) /\ av2[key][n] = av[key][n] /\ (j # 0 => av[key][n] # r.conn)
      OBVIOUS
    <2>1. CASE key # key2
      <3>1. n \in 1..Len(av[key]) /\ av2[key][n] = av[key][n] BY <2>1, <1>4
      <3>2. KeyOf[av[key][n]] = key BY <3>1 DEF OneHolder, ListedByKey
      <3>3. j # 0 => KeyOf[r.conn] = key2 BY <1>2 DEF OneHolder, ListedByKey, key2
      <3> QED BY <2>1, <3>1, <3>2, <3>3
    <2>2. CASE key = key2
      <3>1. n \in 1..Len(av[key]) /\ n < j /\ av2[key][n] = av[key][n] BY <2>2, <1>4
      <3>2. j \in 1..Len(av[key]) /\ r.conn = av[key][j] BY <2>2, <3>1 DEF key2
      <3>3. av[key][n] = av[key][j] => n = j BY <3>1, <3>2 DEF OneHolder, ListedOnce
      <3> QED BY <3>1, <3>2, <3>3
    <2> QED BY <2>1, <2>2
  <1>6. j # 0 => /\ r.conn \in Calls /\ KeyOf[r.conn] = KeyOf[c] /\ cl[r.conn].st \notin Unborn
                 /\ \A d \in Calls : cl[d].conn # r.conn
    <2> SUFFICES ASSUME j # 0
                 PROVE  /\ r.conn \in Calls /\ KeyOf[r.conn] = KeyOf[c] /\ cl[r.conn].st \notin Unborn
                        /\ \A d \in Calls : cl[d].conn # r.conn
      OBVIOUS
    <2>1. j \in 1..Len(av[key2]) /\ r.conn = av[key2][j] BY DEF key2
    <2>2. r.conn \in Calls BY <2>1, <1>2, <1>3
    <2>3. KeyOf[r.conn] = KeyOf[c] BY <2>1, <1>2 DEF OneHolder, ListedByKey, key2
    <2>4. \A d \in Calls : cl[d].conn # r.conn BY <2>1, <1>2 DEF OneHolder, IdleNotHeld
    <2>5. cl[r.conn].st \notin Unborn BY <2>1, <2>2, <1>2 DEF OneHolder, UnbornNowhere
    <2> QED BY <2>2, <2>3, <2>4, <2>5
  <1>7. \A d \in Calls : cl2[d].conn # NoConn => KeyOf[cl2[d].conn] = KeyOf[d] /\ cl2[d].st \in {"holding", "reading"}
    BY <1>1, <1>6 DEF OneHolder, HeldOfKey
  <1>8. \A key \in Keys : \A n \in 1..Len(av2[key]) : KeyOf[av2[key][n]] = key
    <2> SUFFICES ASSUME NEW key \in Keys, NEW n \in 1..Len(av2[key])
                 PROVE  KeyOf[av2[key][n]] = key
      OBVIOUS
    <2>1. n \in 1..Len(av[key]) /\ av2[key][n] = av[key][n] BY <1>5
    <2> QED BY <2>1 DEF OneHolder, ListedByKey
  <1>9. \A key \in Keys : \A n, m \in 1..Len(av2[key]) : av2[key][n] = av2[key][m] => n = m
    <2> SUFFICES ASSUME NEW key \in Keys, NEW n \in 1..Len(av2[key]), NEW m \in 1..Len(av2[key]),
                        av2[key][n] = av2[key][m]
                 PROVE  n = m
      OBVIOUS
    <2>1. n \in 1..Len(av[key]) /\ m \in 1..Len(av[key]) /\ av[key][n] = av[key][m] BY <1>5
    <2> QED BY <2>1 DEF OneHolder, ListedOnce
  <1>10. \A d, e \in Calls : cl2[d].conn = cl2[e].conn /\ cl2[d].conn # NoConn => d = e
    BY <1>1, <1>6 DEF OneHolder, HeldOnce
  <1>11. \A d \in Calls, key \in Keys : \A n \in 1..Len(av2[key]) : av2[key][n] # cl2[d].conn
    BY <1>1, <1>3, <1>5 DEF OneHolder, IdleNotHeld
  <1>12. \A d \in Calls : cl2[d].st \in Unborn => cl[d].st \in Unborn
    BY <1>1 DEF Unborn
  <1>13. \A d \in Calls : cl2[d].st \in Unborn => \A e \in Calls : cl2[e].conn # d
    BY <1>1, <1>3, <1>6, <1>12 DEF OneHolder, UnbornNowhere
  <1>14. \A d \in Calls : cl2[d].st \in Unborn => \A key \in Keys : \A n \in 1..Len(av2[key]) : av2[key][n] # d
    BY <1>5, <1>12 DEF OneHolder, UnbornNowhere
  <1>15. OneHolder(cl2, av2)
    BY <1>7, <1>8, <1>9, <1>10, <1>11, <1>13, <1>14
       DEF OneHolder, HeldOfKey, ListedByKey, ListedOnce, HeldOnce, IdleNotHeld, UnbornNowhere
  <1> QED BY <1>15 DEF cl2, av2, key2

\* A call's own connection opens.
LEMMA HolderIsBorn ==
  ASSUME NEW cl \in [Calls -> CallRecords], NEW av \in [Keys -> Seq(Calls)], NEW c \in Calls,
         OneHolder(cl, av), cl[c].st \in Unborn
  PROVE  OneHolder([cl EXCEPT ![c] = [st |-> "holding", conn |-> c]], av)
  <1> DEFINE cl2 == [cl EXCEPT ![c] = [st |-> "holding", conn |-> c]]
  <1>1. /\ cl2[c].st = "holding" /\ cl2[c].conn = c /\ "holding" \notin Unborn
        /\ \A d \in Calls : d # c => cl2[d] = cl[d]
    BY DEF Unborn
  <1>2. /\ \A d \in Calls : cl[d].conn # c
        /\ \A key \in Keys : \A n \in 1..Len(av[key]) : av[key][n] # c
    BY DEF OneHolder, UnbornNowhere
  <1> HIDE DEF cl2
  <1>3. \A d \in Calls : cl2[d].conn # NoConn => KeyOf[cl2[d].conn] = KeyOf[d] /\ cl2[d].st \in {"holding", "reading"}
    BY <1>1 DEF OneHolder, HeldOfKey
  <1>4. \A d, e \in Calls : cl2[d].conn = cl2[e].conn /\ cl2[d].conn # NoConn => d = e
    BY <1>1, <1>2 DEF OneHolder, HeldOnce
  <1>5. \A d \in Calls, key \in Keys : \A n \in 1..Len(av[key]) : av[key][n] # cl2[d].conn
    BY <1>1, <1>2 DEF OneHolder, IdleNotHeld
  <1>6. \A d \in Calls : cl2[d].st \in Unborn =>
          /\ \A e \in Calls : cl2[e].conn # d
          /\ \A key \in Keys : \A n \in 1..Len(av[key]) : av[key][n] # d
    BY <1>1 DEF OneHolder, UnbornNowhere
  <1>7. OneHolder(cl2, av) BY <1>3, <1>4, <1>5, <1>6
       DEF OneHolder, HeldOfKey, ListedByKey, ListedOnce, HeldOnce, IdleNotHeld, UnbornNowhere
  <1> QED BY <1>7 DEF cl2

-----------------------------------------------------------------------------
\* Both ways to leave the queue keep the others, each once.
LEMMA QueueRemovals ==
  ASSUME NEW q \in Seq(Calls), \A n, m \in 1..Len(q) : q[n] = q[m] => n = m
  PROVE  /\ q # <<>> =>
              /\ SwapRemoved(q) \in Seq(Calls)
              /\ \A n \in 1..Len(SwapRemoved(q)) :
                   \E i \in 1..Len(q) : SwapRemoved(q)[n] = q[i] /\ q[i] # Head(q)
              /\ \A n, m \in 1..Len(SwapRemoved(q)) : SwapRemoved(q)[n] = SwapRemoved(q)[m] => n = m
         /\ \A c \in Calls :
              /\ ShiftRemoved(q, c) \in Seq(Calls)
              /\ \A n \in 1..Len(ShiftRemoved(q, c)) :
                   \E i \in 1..Len(q) : ShiftRemoved(q, c)[n] = q[i] /\ q[i] # c
              /\ \A n, m \in 1..Len(ShiftRemoved(q, c)) : ShiftRemoved(q, c)[n] = ShiftRemoved(q, c)[m] => n = m
  <1> DEFINE l == Len(q)
  <1>0. l \in Nat /\ \A i \in 1..l : q[i] \in Calls OBVIOUS
  <1>1. ASSUME q # <<>>
        PROVE  /\ SwapRemoved(q) \in Seq(Calls)
               /\ \A n \in 1..Len(SwapRemoved(q)) :
                    \E i \in 1..l : SwapRemoved(q)[n] = q[i] /\ q[i] # Head(q)
               /\ \A n, m \in 1..Len(SwapRemoved(q)) : SwapRemoved(q)[n] = SwapRemoved(q)[m] => n = m
    <2> DEFINE w == SwapRemoved(q)
    <2>1. l > 0 /\ Head(q) = q[1] BY <1>1
    <2>2. \A n \in 1..(l - 1) : (IF n = 1 THEN q[l] ELSE q[n]) \in Calls BY <1>0, <2>1
    <2>3. w \in Seq(Calls) /\ Len(w) = l - 1 /\ \A n \in 1..(l - 1) : w[n] = IF n = 1 THEN q[l] ELSE q[n]
      BY <1>0, <2>1, <2>2 DEF SwapRemoved
    <2> HIDE DEF w
    <2>4. \A n \in 1..Len(w) : \E i \in 1..l : w[n] = q[i] /\ q[i] # Head(q)
      BY <1>0, <2>1, <2>3
    <2>5. \A n, m \in 1..Len(w) : w[n] = w[m] => n = m
      BY <1>0, <2>1, <2>3
    <2> QED BY <2>3, <2>4, <2>5 DEF w
  <1>2. ASSUME NEW c \in Calls
        PROVE  /\ ShiftRemoved(q, c) \in Seq(Calls)
               /\ \A n \in 1..Len(ShiftRemoved(q, c)) :
                    \E i \in 1..l : ShiftRemoved(q, c)[n] = q[i] /\ q[i] # c
               /\ \A n, m \in 1..Len(ShiftRemoved(q, c)) : ShiftRemoved(q, c)[n] = ShiftRemoved(q, c)[m] => n = m
    <2>1. CASE \A n \in 1..l : q[n] # c
      BY <2>1 DEF ShiftRemoved
    <2>2. CASE \E n \in 1..l : q[n] = c
      <3> DEFINE p == Place(q, c)
                 w == ShiftRemoved(q, c)
      <3>1. p \in 1..l /\ q[p] = c BY <2>2 DEF Place
      <3> HIDE DEF p
      <3>2. \A n \in 1..(l - 1) : (IF n < p THEN q[n] ELSE q[n + 1]) \in Calls BY <1>0, <3>1
      <3>3. w = [n \in 1..(l - 1) |-> IF n < p THEN q[n] ELSE q[n + 1]] BY <2>2 DEF ShiftRemoved, p
      <3>4. w \in Seq(Calls) /\ Len(w) = l - 1 /\ \A n \in 1..(l - 1) : w[n] = IF n < p THEN q[n] ELSE q[n + 1]
        BY <1>0, <3>1, <3>2, <3>3
      <3> HIDE DEF w
      <3>5. \A n \in 1..Len(w) : \E i \in 1..l : w[n] = q[i] /\ q[i] # c
        <4> SUFFICES ASSUME NEW n \in 1..Len(w) PROVE \E i \in 1..l : w[n] = q[i] /\ q[i] # c
          OBVIOUS
        <4>1. n \in 1..(l - 1) /\ n \in 1..l /\ n + 1 \in 1..l BY <1>0, <3>1, <3>4
        <4>2. CASE n < p
          <5>1. w[n] = q[n] /\ n # p BY <3>4, <4>1, <4>2
          <5> QED BY <1>0, <3>1, <4>1, <5>1
        <4>3. CASE ~(n < p)
          <5>1. w[n] = q[n + 1] /\ n + 1 # p BY <3>1, <3>4, <4>1, <4>3
          <5> QED BY <1>0, <3>1, <4>1, <5>1
        <4> QED BY <4>2, <4>3
      <3>6. \A n, m \in 1..Len(w) : w[n] = w[m] => n = m
        BY <1>0, <3>1, <3>4
      <3> QED BY <3>4, <3>5, <3>6 DEF w
    <2> QED BY <2>1, <2>2
  <1> QED BY <1>1, <1>2

-----------------------------------------------------------------------------
\* The queue holds waiting calls, each once, for which no opener runs; a call that was
\* not queued yet has no opener.
Queued ==
  /\ \A n \in 1..Len(queue) : call[queue[n]].st = "waiting" /\ opener[queue[n]] = "none"
  /\ \A n, m \in 1..Len(queue) : queue[n] = queue[m] => n = m
  /\ \A c \in Calls : call[c].st \in {"new", "called"} => opener[c] = "none"

\* The inductive invariant.
PoolInv ==
  /\ PoolTypeOK
  /\ Queued
  /\ OneHolder(call, available)
  /\ \A c \in Calls : call[c].st \in {"holding", "reading"} => call[c].conn # NoConn
  /\ acquired = Cardinality(PermitsOf(call, opener)) + lost
  /\ Limit > 0 => acquired <= Limit

\* What a step does: one call becomes r, its opener o, ...
Becomes(c, r, o) ==
  /\ r \in CallRecords /\ o \in Openings
  /\ call' = [call EXCEPT ![c] = r] /\ opener' = [opener EXCEPT ![c] = o]
  /\ r.st \in {"holding", "reading"} => r.conn # NoConn
  /\ lost' \in Nat /\ dropped' \in BOOLEAN /\ support' \in BOOLEAN
  /\ conn' \in [Calls -> {"fresh", "stale", "noisy", "broken"}]
\* ... permits move with it or are lost, a new one only below the limit, ...
Counts(c, r, o) ==
  /\ acquired' = acquired + lost' - lost + Weight(r.st \in Busy) - Weight(call[c].st \in Busy)
                           + Weight(o # "none") - Weight(opener[c] # "none")
  /\ acquired' <= acquired \/ (acquired' = acquired + 1 /\ ~Full)
\* ... its connection goes or comes, ...
Holds(c, r) ==
  \/ /\ available' = available
     /\ r.conn = NoConn \/ (r.conn = call[c].conn /\ r.st \in {"holding", "reading"})
     /\ r.st \in Unborn => call[c].st \in Unborn
  \/ /\ available' = [available EXCEPT ![KeyOf[call[c].conn]] = Append(@, call[c].conn)]
     /\ r.conn = NoConn /\ r.st \notin Unborn /\ call[c].conn # NoConn
  \/ /\ call[c].conn = NoConn
     /\ \E j \in 0..Len(available[KeyOf[c]]) :
          /\ available' = [available EXCEPT ![KeyOf[c]] = SubSeq(@, 1, j - 1)]
          /\ IF j = 0 THEN r.conn = NoConn /\ (r.st \in Unborn => call[c].st \in Unborn)
                      ELSE r.conn = available[KeyOf[c]][j] /\ r.st = "holding"
  \/ /\ available' = available
     /\ call[c].st \in Unborn /\ r = [st |-> "holding", conn |-> c]
\* ... and it enters or leaves the queue.
Queues(c, r, o) ==
  /\ \/ /\ queue' = queue
        /\ \/ r.st = call[c].st /\ o = opener[c]
           \/ opener[c] # "none" \/ call[c].st # "waiting"
     \/ queue' = Append(queue, c) /\ call[c].st # "waiting" /\ r.st = "waiting" /\ o = "none"
     \/ queue # <<>> /\ c = Head(queue) /\ queue' = SwapRemoved(queue)
     \/ queue' = ShiftRemoved(queue, c)
  /\ r.st \in {"new", "called"} => call[c].st \in {"new", "called"} /\ o = opener[c]

StepOf(c, r, o) == Becomes(c, r, o) /\ Counts(c, r, o) /\ Holds(c, r) /\ Queues(c, r, o)

\* A step of that shape keeps the invariant.
LEMMA StepsKeepInv ==
  ASSUME PoolInv, NEW c \in Calls, NEW r, NEW o, StepOf(c, r, o)
  PROVE  PoolInv'
  <1> USE DEF StepOf
  <1>1. /\ call \in [Calls -> CallRecords] /\ opener \in [Calls -> Openings] /\ queue \in Seq(Calls)
        /\ available \in [Keys -> Seq(Calls)] /\ acquired \in Nat /\ lost \in Nat /\ lost' \in Nat
        /\ r \in CallRecords /\ o \in Openings
        /\ call' = [call EXCEPT ![c] = r] /\ opener' = [opener EXCEPT ![c] = o]
    <2>1. r \in CallRecords /\ o \in Openings /\ lost' \in Nat
          /\ call' = [call EXCEPT ![c] = r] /\ opener' = [opener EXCEPT ![c] = o]
      BY DEF Becomes
    <2>2. call \in [Calls -> CallRecords] /\ opener \in [Calls -> Openings]
      BY DEF PoolInv, PoolTypeOK, CallRecords, Openings
    <2>3. /\ queue \in Seq(Calls) /\ available \in [Keys -> Seq(Calls)]
          /\ acquired \in Nat /\ lost \in Nat
      BY DEF PoolInv, PoolTypeOK
    <2> QED BY <2>1, <2>2, <2>3
  <1>2. /\ call'[c] = r /\ opener'[c] = o
        /\ \A d \in Calls : d # c => call'[d] = call[d] /\ opener'[d] = opener[d]
        /\ call' \in [Calls -> CallRecords] /\ opener' \in [Calls -> Openings]
    <2>1. call \in [Calls -> CallRecords] /\ r \in CallRecords /\ call' = [call EXCEPT ![c] = r] BY <1>1
    <2>2. opener \in [Calls -> Openings] /\ o \in Openings /\ opener' = [opener EXCEPT ![c] = o] BY <1>1
    <2>3. call'[c] = r /\ call' \in [Calls -> CallRecords] /\ \A d \in Calls : d # c => call'[d] = call[d]
      BY <2>1
    <2>4. opener'[c] = o /\ opener' \in [Calls -> Openings] /\ \A d \in Calls : d # c => opener'[d] = opener[d]
      BY <2>2
    <2> QED BY <2>3, <2>4
  <1>3. OneHolder(call', available') /\ available' \in [Keys -> Seq(Calls)]
    <2>0. KeyOf[c] \in Keys /\ OneHolder(call, available) BY DEF Keys, PoolInv
    <2>1. CASE /\ available' = available
               /\ r.conn = NoConn \/ (r.conn = call[c].conn /\ r.st \in {"holding", "reading"})
               /\ r.st \in Unborn => call[c].st \in Unborn
      BY <2>0, <2>1, <1>1, HolderMoves
    <2>2. CASE /\ available' = [available EXCEPT ![KeyOf[call[c].conn]] = Append(@, call[c].conn)]
               /\ r.conn = NoConn /\ r.st \notin Unborn /\ call[c].conn # NoConn
      <3>1. OneHolder(call', available') BY <2>0, <2>2, <1>1, HolderReturns
      <3>2. call[c].conn \in Calls BY <2>2, <1>1 DEF CallRecords
      <3>3. KeyOf[call[c].conn] \in Keys BY <3>2 DEF Keys
      <3>4. Append(available[KeyOf[call[c].conn]], call[c].conn) \in Seq(Calls)
        BY <3>2, <3>3, <1>1
      <3> QED BY <3>1, <3>4, <2>2, <1>1
    <2>3. ASSUME call[c].conn = NoConn,
                 NEW j \in 0..Len(available[KeyOf[c]]),
                 available' = [available EXCEPT ![KeyOf[c]] = SubSeq(@, 1, j - 1)],
                 IF j = 0 THEN r.conn = NoConn /\ (r.st \in Unborn => call[c].st \in Unborn)
                          ELSE r.conn = available[KeyOf[c]][j] /\ r.st = "holding"
          PROVE  OneHolder(call', available') /\ available' \in [Keys -> Seq(Calls)]
      <3>1. OneHolder(call', available') BY <2>0, <2>3, <1>1, HolderTakes
      <3>2. SubSeq(available[KeyOf[c]], 1, j - 1) \in Seq(Calls)
        <4>1. available[KeyOf[c]] \in Seq(Calls) BY <2>0, <1>1
        <4> QED BY <4>1
      <3> QED BY <3>1, <3>2, <2>3, <1>1
    <2>4. CASE /\ available' = available
               /\ call[c].st \in Unborn /\ r = [st |-> "holding", conn |-> c]
      BY <2>0, <2>4, <1>1, HolderIsBorn
    <2> QED BY <2>1, <2>2, <2>3, <2>4 DEF Holds
  <1>4. /\ acquired' = Cardinality(PermitsOf(call', opener')) + lost'
        /\ acquired' \in Nat
    <2>0. /\ call \in [Calls -> CallRecords] /\ opener \in [Calls -> Openings]
          /\ r \in CallRecords /\ o \in Openings
      BY <1>1
    <2>1. /\ Cardinality(PermitsOf(call, opener)) \in Nat
          /\ Cardinality(PermitsOf([call EXCEPT ![c] = r], [opener EXCEPT ![c] = o])) \in Nat
          /\ Cardinality(PermitsOf([call EXCEPT ![c] = r], [opener EXCEPT ![c] = o])) =
               Cardinality(PermitsOf(call, opener)) + Weight(r.st \in Busy) - Weight(call[c].st \in Busy)
                 + Weight(o # "none") - Weight(opener[c] # "none")
      BY <2>0, PermitCounts, Zenon
    <2>2. call' = [call EXCEPT ![c] = r] /\ opener' = [opener EXCEPT ![c] = o]
      BY <1>1
    <2>3. /\ Cardinality(PermitsOf(call', opener')) \in Nat /\ Cardinality(PermitsOf(call, opener)) \in Nat
          /\ Cardinality(PermitsOf(call', opener')) =
               Cardinality(PermitsOf(call, opener)) + Weight(r.st \in Busy) - Weight(call[c].st \in Busy)
                 + Weight(o # "none") - Weight(opener[c] # "none")
      BY <2>1, <2>2
    <2>4. acquired' = acquired + lost' - lost + Weight(r.st \in Busy) - Weight(call[c].st \in Busy)
                                + Weight(o # "none") - Weight(opener[c] # "none")
          /\ (acquired' <= acquired \/ acquired' = acquired + 1)
      BY DEF Counts
    <2>5. acquired = Cardinality(PermitsOf(call, opener)) + lost BY DEF PoolInv
    <2>6. acquired \in Nat /\ lost \in Nat /\ lost' \in Nat BY <1>1
    <2>7. acquired' = Cardinality(PermitsOf(call', opener')) + lost'
      BY <2>3, <2>4, <2>5, <2>6 DEF Weight
    <2> QED BY <2>3, <2>6, <2>7
  <1>5. Limit > 0 => acquired' <= Limit
    <2>1. acquired \in Nat /\ acquired' \in Nat /\ Limit \in Nat BY <1>1, <1>4, PoolLimitAssumption
    <2>2. Limit > 0 => acquired <= Limit BY DEF PoolInv
    <2>3. acquired' <= acquired \/ (acquired' = acquired + 1 /\ ~(Limit > 0 /\ acquired >= Limit)) BY DEF Counts, Full
    <2> QED BY <2>1, <2>2, <2>3
  <1>6. Queued' /\ queue' \in Seq(Calls)
    <2>0. /\ \A n \in 1..Len(queue) : call[queue[n]].st = "waiting" /\ opener[queue[n]] = "none"
          /\ \A n, m \in 1..Len(queue) : queue[n] = queue[m] => n = m
          /\ \A d \in Calls : call[d].st \in {"new", "called"} => opener[d] = "none"
          /\ \A n \in 1..Len(queue) : queue[n] \in Calls
      BY <1>1 DEF PoolInv, Queued
    <2>1. \A d \in Calls : call'[d].st \in {"new", "called"} => opener'[d] = "none"
      BY <1>2, <2>0 DEF Queues
    <2>2. CASE /\ queue' = queue
               /\ \/ r.st = call[c].st /\ o = opener[c]
                  \/ opener[c] # "none" \/ call[c].st # "waiting"
      BY <2>0, <2>1, <2>2, <1>1, <1>2 DEF Queued
    <2>3. CASE queue' = Append(queue, c) /\ call[c].st # "waiting" /\ r.st = "waiting" /\ o = "none"
      <3>1. /\ queue' \in Seq(Calls) /\ Len(queue) \in Nat /\ Len(queue') = Len(queue) + 1
            /\ queue'[Len(queue) + 1] = c /\ \A n \in 1..Len(queue) : queue'[n] = queue[n]
        BY <2>3, <1>1
      <3>2. \A n \in 1..Len(queue) : queue[n] # c BY <2>0, <2>3
      <3>3. \A n \in 1..Len(queue') : n \in 1..Len(queue) \/ n = Len(queue) + 1 BY <3>1
      <3>4. \A n \in 1..Len(queue') : call'[queue'[n]].st = "waiting" /\ opener'[queue'[n]] = "none"
        BY <3>1, <3>2, <3>3, <2>0, <2>3, <1>2
      <3>5. \A n, m \in 1..Len(queue') : queue'[n] = queue'[m] => n = m
        BY <3>1, <3>2, <3>3, <2>0
      <3> QED BY <3>1, <3>4, <3>5, <2>1 DEF Queued
    <2>4. ASSUME NEW w \in Seq(Calls), queue' = w,
                 \A n \in 1..Len(w) : \E i \in 1..Len(queue) : w[n] = queue[i] /\ queue[i] # c,
                 \A n, m \in 1..Len(w) : w[n] = w[m] => n = m
          PROVE  Queued' /\ queue' \in Seq(Calls)
      <3>1. \A n \in 1..Len(queue') : call'[queue'[n]].st = "waiting" /\ opener'[queue'[n]] = "none"
        <4> SUFFICES ASSUME NEW n \in 1..Len(w)
                     PROVE  call'[w[n]].st = "waiting" /\ opener'[w[n]] = "none"
          BY <2>4
        <4>1. PICK i \in 1..Len(queue) : w[n] = queue[i] /\ queue[i] # c BY <2>4
        <4>2. queue[i] \in Calls /\ call[queue[i]].st = "waiting" /\ opener[queue[i]] = "none" BY <2>0
        <4> QED BY <4>1, <4>2, <1>2
      <3> QED BY <3>1, <2>1, <2>4 DEF Queued
    <2>5. CASE queue # <<>> /\ c = Head(queue) /\ queue' = SwapRemoved(queue)
      <3> DEFINE w == SwapRemoved(queue)
      <3>1. /\ w \in Seq(Calls)
            /\ \A n \in 1..Len(w) : \E i \in 1..Len(queue) : w[n] = queue[i] /\ queue[i] # c
            /\ \A n, m \in 1..Len(w) : w[n] = w[m] => n = m
        <4>1. queue # <<>> /\ c = Head(queue) BY <2>5
        <4>2. /\ w \in Seq(Calls)
              /\ \A n \in 1..Len(w) : \E i \in 1..Len(queue) : w[n] = queue[i] /\ queue[i] # Head(queue)
              /\ \A n, m \in 1..Len(w) : w[n] = w[m] => n = m
          BY <4>1, <2>0, <1>1, QueueRemovals
        <4> HIDE DEF w
        <4> QED BY <4>1, <4>2
      <3> HIDE DEF w
      <3> QED BY <3>1, <2>4, <2>5 DEF w
    <2>6. CASE queue' = ShiftRemoved(queue, c)
      <3> DEFINE w == ShiftRemoved(queue, c)
      <3>1. /\ w \in Seq(Calls)
            /\ \A n \in 1..Len(w) : \E i \in 1..Len(queue) : w[n] = queue[i] /\ queue[i] # c
            /\ \A n, m \in 1..Len(w) : w[n] = w[m] => n = m
        BY <2>0, <1>1, QueueRemovals
      <3> HIDE DEF w
      <3> QED BY <3>1, <2>4, <2>6 DEF w
    <2> QED BY <2>2, <2>3, <2>5, <2>6 DEF Queues
  <1>7. \A d \in Calls : call'[d].st \in {"holding", "reading"} => call'[d].conn # NoConn
    BY <1>2 DEF PoolInv, Becomes
  <1>8. PoolTypeOK'
    BY <1>2, <1>3, <1>4, <1>6 DEF PoolTypeOK, Becomes, CallRecords, Openings
  <1> QED BY <1>3, <1>4, <1>5, <1>6, <1>7, <1>8 DEF PoolInv

-----------------------------------------------------------------------------
\* The connection acquire takes is one of the idle ones.
LEMMA NewestIsIdle ==
  ASSUME NEW idle \in Seq(Calls)
  PROVE  Newest(idle) \in 0..Len(idle)
  <1> DEFINE good == {n \in 1..Len(idle) : Usable(idle[n])}
             l == Len(idle)
             back == {l - n : n \in good}
  <1>1. l \in Nat /\ good \subseteq 1..l OBVIOUS
  <1>2. CASE good = {}
    BY <1>1, <1>2 DEF Newest
  <1>3. CASE good # {}
    <2> HIDE DEF good, l
    <2>1. back \subseteq Nat /\ back # {}
      <3>1. \A n \in good : n \in Int /\ 1 <= n /\ n <= l BY <1>1
      <3>2. \A n \in good : l - n \in Nat BY <3>1, <1>1
      <3>3. back \subseteq Nat BY <3>2
      <3>4. back # {} BY <1>3
      <3> QED BY <3>3, <3>4
    <2>2. \E x \in back : \A y \in back : ~(<<y, x>> \in OpToRel(<, Nat))
      BY <2>1, NatLessThanWellFounded, WFMin
    <2>3. PICK x \in back : \A y \in back : ~(<<y, x>> \in OpToRel(<, Nat)) BY <2>2
    <2>4. \A y \in back : ~(y < x)
      BY <2>1, <2>3 DEF OpToRel
    <2>5. PICK m \in good : x = l - m BY <2>3
    <2>6. ASSUME NEW n \in good PROVE n <= m
      <3>1. n \in 1..l /\ m \in 1..l BY <2>5, <1>1
      <3>2. ~(l - n < l - m) BY <2>4, <2>5
      <3> HIDE DEF back
      <3> QED BY <3>1, <3>2, <1>1
    <2>7. (CHOOSE n \in good : \A i \in good : i <= n) \in good BY <2>5, <2>6
    <2>8. Newest(idle) \in good BY <1>3, <2>7 DEF Newest, good
    <2>9. Newest(idle) \in 1..l BY <2>8, <1>1
    <2> HIDE DEF back
    <2> QED BY <2>9, <1>1 DEF l
  <1> QED BY <1>2, <1>3

\* Every step has the shape, but that of a support task with nothing to do.
LEMMA StepShape ==
  ASSUME PoolInv, PoolNext
  PROVE  \/ \E c \in Calls, r \in CallRecords, o \in Openings : StepOf(c, r, o)
         \/ /\ UNCHANGED <<acquired, available, queue, call, opener, conn, lost, dropped>>
            /\ support' \in BOOLEAN
  <1>1. /\ call \in [Calls -> CallRecords] /\ opener \in [Calls -> Openings] /\ queue \in Seq(Calls)
        /\ available \in [Keys -> Seq(Calls)] /\ acquired \in Nat /\ lost \in Nat
        /\ dropped \in BOOLEAN /\ support \in BOOLEAN /\ conn \in [Calls -> {"fresh", "stale", "noisy", "broken"}]
    BY DEF PoolInv, PoolTypeOK, CallRecords, Openings
  <1>2. /\ \A d \in Calls : call[d].conn # NoConn => call[d].st \in {"holding", "reading"}
        /\ \A d \in Calls : call[d].st \in {"holding", "reading"} => call[d].conn # NoConn
        /\ \A d \in Calls : call[d].st \in {"new", "called"} => opener[d] = "none"
        /\ \A d \in Calls : KeyOf[d] \in Keys
    BY DEF PoolInv, OneHolder, HeldOfKey, Queued, Keys
  <1>3. ASSUME NEW d \in Calls
        PROVE  /\ call[d] \in CallRecords /\ call[d].st \in CallStates /\ opener[d] \in Openings
               /\ call = [call EXCEPT ![d] = call[d]] /\ opener = [opener EXCEPT ![d] = opener[d]]
               /\ \A st \in CallStates :
                    /\ Moved(d, st) = [call EXCEPT ![d] = [st |-> st, conn |-> call[d].conn]]
                    /\ [st |-> st, conn |-> call[d].conn] \in CallRecords
                    /\ [st |-> st, conn |-> NoConn] \in CallRecords
               /\ [st |-> "holding", conn |-> d] \in CallRecords
    <2>1. call[d] \in CallRecords /\ call[d].st \in CallStates /\ opener[d] \in Openings /\ call[d].conn \in Calls \cup {NoConn}
      BY <1>1 DEF CallRecords
    <2>2. call = [call EXCEPT ![d] = call[d]] /\ opener = [opener EXCEPT ![d] = opener[d]] BY <1>1
    <2>3. ASSUME NEW st \in CallStates
          PROVE  /\ Moved(d, st) = [call EXCEPT ![d] = [st |-> st, conn |-> call[d].conn]]
                 /\ [st |-> st, conn |-> call[d].conn] \in CallRecords
                 /\ [st |-> st, conn |-> NoConn] \in CallRecords
      <3>1. [st |-> st, conn |-> call[d].conn] \in CallRecords /\ [st |-> st, conn |-> NoConn] \in CallRecords
        BY <2>1 DEF CallRecords
      <3>2. [call[d] EXCEPT !.st = st] = [st |-> st, conn |-> call[d].conn] BY <2>1 DEF CallRecords
      <3> QED BY <3>1, <3>2 DEF Moved
    <2>4. [st |-> "holding", conn |-> d] \in CallRecords BY DEF CallRecords, CallStates
    <2> QED BY <2>1, <2>2, <2>3, <2>4
  <1>4. \A q, n : Wakes(q, n) => support' \in BOOLEAN BY DEF Wakes
  <1>5. NoConn \notin Calls /\ \A key \in Keys : \A n \in 1..Len(available[key]) : available[key][n] \in Calls
    BY <1>1, IdleAreCalls
  \* A call that has no connection takes what acquire finds.
  <1>6. ASSUME NEW c \in Calls
        PROVE  Found(KeyOf[c]) \in Calls \cup {NoConn}
    <2>1. KeyOf[c] \in Keys /\ available[KeyOf[c]] \in Seq(Calls) BY <1>1, <1>2
    <2>2. Newest(available[KeyOf[c]]) \in 0..Len(available[KeyOf[c]]) BY <2>1, NewestIsIdle
    <2> QED BY <2>1, <2>2, <1>5 DEF Found
  <1>7. ASSUME NEW c \in Calls, NEW r \in CallRecords, call[c].conn = NoConn,
               available' = Without(KeyOf[c]),
               IF Found(KeyOf[c]) = NoConn
               THEN r.conn = NoConn /\ (r.st \in Unborn => call[c].st \in Unborn)
               ELSE r.conn = Found(KeyOf[c]) /\ r.st = "holding"
        PROVE  Holds(c, r)
    <2> DEFINE j == Newest(available[KeyOf[c]])
    <2>1. KeyOf[c] \in Keys /\ available[KeyOf[c]] \in Seq(Calls) BY <1>1, <1>2
    <2>2. j \in 0..Len(available[KeyOf[c]]) BY <2>1, NewestIsIdle
    <2>3. available' = [available EXCEPT ![KeyOf[c]] = SubSeq(@, 1, j - 1)] BY <1>7 DEF Without
    <2>4. IF j = 0 THEN Found(KeyOf[c]) = NoConn
                   ELSE Found(KeyOf[c]) = available[KeyOf[c]][j] /\ Found(KeyOf[c]) # NoConn
      BY <2>1, <2>2, <1>5 DEF Found
    <2> HIDE DEF j
    <2>5. IF j = 0 THEN r.conn = NoConn /\ (r.st \in Unborn => call[c].st \in Unborn)
                   ELSE r.conn = available[KeyOf[c]][j] /\ r.st = "holding"
      BY <1>7, <2>4
    <2> QED BY <1>7, <2>2, <2>3, <2>5 DEF Holds
  <1>a. /\ \A k : Release(k) => acquired' = acquired - 1
        /\ ReleaseClose => acquired' = acquired - 1
        /\ DropsPermit => acquired' = acquired - 1
    BY DEF Release, ReleaseClose, DropsPermit
  <1>8. ASSUME NEW c \in Calls, CallPool(c)
        PROVE  \E r \in CallRecords, o \in Openings : StepOf(c, r, o)
    <2> DEFINE r == [st |-> "called", conn |-> call[c].conn]
               o == opener[c]
    <2>1. call[c].st = "new" /\ call[c].conn = NoConn
      BY <1>2, <1>8 DEF CallPool, In
    <2>2. r \in CallRecords /\ o \in Openings BY <1>3 DEF CallStates, Openings
    <2>3. call' = [call EXCEPT ![c] = r] /\ opener' = [opener EXCEPT ![c] = o]
      BY <1>3, <1>8, <2>1 DEF CallPool, CallStates
    <2>4. Becomes(c, r, o) BY <2>1, <2>2, <2>3, <1>1, <1>5, <1>8 DEF Becomes, CallPool
    <2>5. Counts(c, r, o) BY <1>1, <2>1, <1>8 DEF CallPool, Counts, Weight, Busy
    <2>6. Holds(c, r) BY <1>2, <2>1, <1>8 DEF CallPool, Holds, Unborn
    <2>7. Queues(c, r, o) BY <1>2, <2>1, <1>8 DEF CallPool, Queues
    <2> QED BY <2>2, <2>4, <2>5, <2>6, <2>7 DEF StepOf
  <1>9. ASSUME NEW c \in Calls, AcquireConn(c)
        PROVE  \E r \in CallRecords, o \in Openings : StepOf(c, r, o)
    <2> DEFINE o == opener[c]
    <2>1. call[c].st = "called" /\ call[c].conn = NoConn /\ opener[c] = "none"
      BY <1>2, <1>9 DEF AcquireConn, In
    <2>2. o \in Openings /\ opener' = [opener EXCEPT ![c] = o] BY <1>3, <1>9 DEF AcquireConn
    <2>3. CASE Full
      <3> DEFINE r == [st |-> "waiting", conn |-> call[c].conn]
      <3>1. r \in CallRecords /\ call' = [call EXCEPT ![c] = r]
        BY <1>3, <1>9, <2>3 DEF AcquireConn, CallStates
      <3>2. Becomes(c, r, o) BY <3>1, <2>2, <1>1, <1>9 DEF Becomes, AcquireConn
      <3>3. Counts(c, r, o) BY <1>1, <2>1, <2>3, <1>9 DEF AcquireConn, Counts, Weight, Busy
      <3>4. Holds(c, r) BY <2>1, <2>3, <1>9 DEF AcquireConn, Holds, Unborn
      <3>5. Queues(c, r, o) BY <2>1, <2>3, <1>9 DEF AcquireConn, Queues
      <3> QED BY <2>2, <3>1, <3>2, <3>3, <3>4, <3>5 DEF StepOf
    <2>4. CASE ~Full
      <3> DEFINE r == IF Found(KeyOf[c]) = NoConn THEN [st |-> "connect", conn |-> call[c].conn]
                      ELSE [st |-> "holding", conn |-> Found(KeyOf[c])]
      <3>1. [st |-> "holding", conn |-> Found(KeyOf[c])] \in CallRecords
        BY <1>6 DEF CallRecords, CallStates
      <3>2. r \in CallRecords /\ call' = [call EXCEPT ![c] = r]
        BY <1>3, <1>9, <2>4, <3>1 DEF AcquireConn, CallStates, Given
      <3>3. Becomes(c, r, o) BY <3>2, <2>2, <1>1, <1>9 DEF Becomes, AcquireConn
      <3>4. Counts(c, r, o) BY <1>1, <2>1, <2>4, <1>9 DEF AcquireConn, Counts, Weight, Busy
      <3>5. available' = Without(KeyOf[c]) /\ queue' = queue BY <2>4, <1>9 DEF AcquireConn
      <3>6. Holds(c, r) BY <2>1, <3>2, <3>5, <1>7 DEF Unborn
      <3>7. Queues(c, r, o) BY <2>1, <3>5 DEF Queues
      <3> QED BY <2>2, <3>2, <3>3, <3>4, <3>6, <3>7 DEF StepOf
    <2> QED BY <2>3, <2>4
  <1>10. ASSUME NEW c \in Calls, Connected(c)
        PROVE  \E r \in CallRecords, o \in Openings : StepOf(c, r, o)
    <2> DEFINE r == IF IsH2(c) THEN [st |-> "handshake", conn |-> call[c].conn] ELSE [st |-> "holding", conn |-> c]
               o == opener[c]
    <2>1. call[c].st = "connect" /\ call[c].conn = NoConn
      BY <1>2, <1>10 DEF Connected, In
    <2>2. r \in CallRecords /\ o \in Openings BY <1>3 DEF CallStates, Openings
    <2>3. call' = [call EXCEPT ![c] = r] /\ opener' = [opener EXCEPT ![c] = o]
      BY <1>3, <1>10, <2>1 DEF Connected, CallStates, Given
    <2>4. Becomes(c, r, o) BY <2>1, <2>2, <2>3, <1>1, <1>5, <1>10 DEF Becomes, Connected
    <2>5. Counts(c, r, o) BY <1>1, <2>1, <1>10 DEF Connected, Counts, Weight, Busy
    <2>6. Holds(c, r) BY <1>2, <2>1, <1>10 DEF Connected, Holds, Unborn
    <2>7. Queues(c, r, o) BY <1>2, <2>1, <1>10 DEF Connected, Queues
    <2> QED BY <2>2, <2>4, <2>5, <2>6, <2>7 DEF StepOf
  <1>11. ASSUME NEW c \in Calls, ConnectFails(c)
        PROVE  \E r \in CallRecords, o \in Openings : StepOf(c, r, o)
    <2> DEFINE r == [st |-> "failed", conn |-> call[c].conn]
               o == opener[c]
    <2>1. call[c].st = "connect" /\ call[c].conn = NoConn
      BY <1>2, <1>11 DEF ConnectFails, In
    <2>2. r \in CallRecords /\ o \in Openings BY <1>3 DEF CallStates, Openings
    <2>3. call' = [call EXCEPT ![c] = r] /\ opener' = [opener EXCEPT ![c] = o]
      BY <1>3, <1>11, <2>1 DEF ConnectFails, CallStates
    <2>4. Becomes(c, r, o) BY <2>1, <2>2, <2>3, <1>1, <1>5, <1>11 DEF Becomes, ConnectFails
    <2>5. Counts(c, r, o) BY <1>1, <2>1, <1>11 DEF ConnectFails, Counts, Weight, Busy
    <2>6. Holds(c, r) BY <1>2, <2>1, <1>11 DEF ConnectFails, Holds, Unborn
    <2>7. Queues(c, r, o) BY <1>2, <2>1, <1>11 DEF ConnectFails, Queues
    <2> QED BY <2>2, <2>4, <2>5, <2>6, <2>7 DEF StepOf
  <1>12. ASSUME NEW c \in Calls, Handshaken(c)
        PROVE  \E r \in CallRecords, o \in Openings : StepOf(c, r, o)
    <2> DEFINE r == [st |-> "holding", conn |-> c]
               o == opener[c]
    <2>1. call[c].st = "handshake" /\ call[c].conn = NoConn
      BY <1>2, <1>12 DEF Handshaken, In
    <2>2. r \in CallRecords /\ o \in Openings BY <1>3 DEF CallStates, Openings
    <2>3. call' = [call EXCEPT ![c] = r] /\ opener' = [opener EXCEPT ![c] = o]
      BY <1>3, <1>12, <2>1 DEF Handshaken, CallStates, Given
    <2>4. Becomes(c, r, o) BY <2>1, <2>2, <2>3, <1>1, <1>4, <1>5, <1>12 DEF Becomes, Handshaken
    <2>5. Counts(c, r, o) BY <1>1, <2>1, <1>12 DEF Handshaken, Counts, Weight, Busy
    <2>6. Holds(c, r) BY <1>2, <2>1, <1>12 DEF Handshaken, Holds, Unborn
    <2>7. Queues(c, r, o) BY <1>2, <2>1, <1>12 DEF Handshaken, Queues
    <2> QED BY <2>2, <2>4, <2>5, <2>6, <2>7 DEF StepOf
  <1>13. ASSUME NEW c \in Calls, HandshakeFails(c)
        PROVE  \E r \in CallRecords, o \in Openings : StepOf(c, r, o)
    <2> DEFINE r == [st |-> "failed", conn |-> call[c].conn]
               o == opener[c]
    <2>1. call[c].st = "handshake" /\ call[c].conn = NoConn
      BY <1>2, <1>13 DEF HandshakeFails, In
    <2>2. r \in CallRecords /\ o \in Openings BY <1>3 DEF CallStates, Openings
    <2>3. call' = [call EXCEPT ![c] = r] /\ opener' = [opener EXCEPT ![c] = o]
      BY <1>3, <1>13, <2>1 DEF HandshakeFails, CallStates
    <2>4. Becomes(c, r, o) BY <2>1, <2>2, <2>3, <1>1, <1>4, <1>5, <1>13 DEF Becomes, HandshakeFails
    <2>5. Counts(c, r, o) BY <1>1, <2>1, <1>13 DEF HandshakeFails, Counts, Weight, Busy
    <2>6. Holds(c, r) BY <1>2, <2>1, <1>13 DEF HandshakeFails, Holds, Unborn
    <2>7. Queues(c, r, o) BY <1>2, <2>1, <1>13 DEF HandshakeFails, Queues
    <2> QED BY <2>2, <2>4, <2>5, <2>6, <2>7 DEF StepOf
  <1>14. ASSUME NEW c \in Calls, OpenerConnects(c)
        PROVE  \E r \in CallRecords, o \in Openings : StepOf(c, r, o)
    <2>1. opener[c] # "none" /\ available' = available /\ queue' = queue
      BY <1>14 DEF OpenerConnects
    <2>2. call[c].conn # NoConn => call[c].st \in {"holding", "reading"} BY <1>2
    <2>3. /\ call[c].st \notin {"new", "called"} /\ lost' = lost /\ dropped' \in BOOLEAN
          /\ support' \in BOOLEAN /\ conn' \in [Calls -> {"fresh", "stale", "noisy", "broken"}]
      BY <1>1, <1>2, <2>1, <1>14 DEF OpenerConnects, DropsPermit
    <2>4. CASE opener' = [opener EXCEPT ![c] = "handshake"] /\ acquired' = acquired /\ call' = call
      <3> DEFINE r == call[c]
                 o == "handshake"
      <3>1. Becomes(c, r, o) BY <1>1, <1>2, <1>3, <2>3, <2>4 DEF Becomes, Openings
      <3>2. Counts(c, r, o) BY <1>1, <2>1, <2>3, <2>4 DEF Counts, Weight
      <3>3. Holds(c, r) BY <2>1, <2>2 DEF Holds
      <3>4. Queues(c, r, o) BY <2>1, <2>3 DEF Queues
      <3> QED BY <3>1, <3>2, <3>3, <3>4 DEF StepOf, Becomes
    <2>5. CASE /\ opener' = [opener EXCEPT ![c] = "none"] /\ acquired' = acquired
               /\ In(c, "waiting") /\ call' = Given(c, c)
      <3> DEFINE r == [st |-> "holding", conn |-> c]
                 o == "none"
      <3>1. Becomes(c, r, o) BY <1>1, <1>3, <1>5, <2>3, <2>5 DEF Becomes, Openings, Given
      <3>2. Counts(c, r, o) BY <1>1, <2>1, <2>3, <2>5 DEF Counts, Weight, Busy, In
      <3>3. Holds(c, r) BY <2>1, <2>5 DEF Holds, Unborn, In
      <3>4. Queues(c, r, o) BY <2>1 DEF Queues
      <3> QED BY <3>1, <3>2, <3>3, <3>4 DEF StepOf, Becomes
    <2>6. CASE opener' = [opener EXCEPT ![c] = "none"] /\ DropsPermit /\ call' = call
      <3> DEFINE r == call[c]
                 o == "none"
      <3>1. Becomes(c, r, o) BY <1>1, <1>2, <1>3, <2>3, <2>6 DEF Becomes, Openings
      <3>2. Counts(c, r, o) BY <1>1, <2>1, <2>3, <2>6 DEF Counts, Weight, DropsPermit
      <3>3. Holds(c, r) BY <2>1, <2>2 DEF Holds
      <3>4. Queues(c, r, o) BY <2>1, <2>3 DEF Queues
      <3> QED BY <3>1, <3>2, <3>3, <3>4 DEF StepOf, Becomes
    <2> QED BY <1>14, <2>4, <2>5, <2>6 DEF OpenerConnects
  <1>15. ASSUME NEW c \in Calls, OpenerFails(c)
        PROVE  \E r \in CallRecords, o \in Openings : StepOf(c, r, o)
    <2>1. /\ opener[c] # "none" /\ opener' = [opener EXCEPT ![c] = "none"]
          /\ acquired' = acquired /\ lost' = lost + 1
          /\ available' = available /\ queue' = queue
      BY <1>15 DEF OpenerFails
    <2>2. /\ call[c].conn # NoConn => call[c].st \in {"holding", "reading"}
          /\ call[c].st \notin {"new", "called"}
      BY <1>2, <2>1
    <2>3. /\ dropped' \in BOOLEAN /\ support' \in BOOLEAN /\ lost' \in Nat
          /\ conn' \in [Calls -> {"fresh", "stale", "noisy", "broken"}]
      BY <1>1, <2>1, <1>15 DEF OpenerFails
    <2>4. CASE In(c, "waiting")
      <3> DEFINE r == [st |-> "failed", conn |-> call[c].conn]
                 o == "none"
      <3>1. r \in CallRecords /\ call' = [call EXCEPT ![c] = r]
        BY <1>3, <2>4, <1>15 DEF OpenerFails, CallStates
      <3>2. call[c].st = "waiting" /\ call[c].conn = NoConn BY <2>2, <2>4 DEF In
      <3>3. Becomes(c, r, o) BY <1>1, <2>1, <2>3, <3>1 DEF Becomes, Openings
      <3>4. Counts(c, r, o) BY <1>1, <2>1, <3>2 DEF Counts, Weight, Busy
      <3>5. Holds(c, r) BY <2>1, <3>2 DEF Holds, Unborn
      <3>6. Queues(c, r, o) BY <2>1 DEF Queues
      <3> QED BY <3>3, <3>4, <3>5, <3>6 DEF StepOf, Becomes
    <2>5. CASE ~In(c, "waiting")
      <3> DEFINE r == call[c]
                 o == "none"
      <3>1. call' = call BY <2>5, <1>15 DEF OpenerFails
      <3>2. Becomes(c, r, o) BY <1>1, <1>2, <1>3, <2>1, <2>3, <3>1 DEF Becomes, Openings
      <3>3. Counts(c, r, o) BY <1>1, <2>1 DEF Counts, Weight
      <3>4. Holds(c, r) BY <2>1, <2>2 DEF Holds
      <3>5. Queues(c, r, o) BY <2>1, <2>2 DEF Queues
      <3> QED BY <3>2, <3>3, <3>4, <3>5 DEF StepOf, Becomes
    <2> QED BY <2>4, <2>5
  <1>16. ASSUME NEW c \in Calls, H1Respond(c)
        PROVE  \E r \in CallRecords, o \in Openings : StepOf(c, r, o)
    <2> DEFINE o == opener[c]
    <2>1. call[c].st = "holding" /\ call[c].conn # NoConn BY <1>2, <1>16 DEF H1Respond, In
    <2>2. o \in Openings /\ opener' = [opener EXCEPT ![c] = o] /\ queue' = queue
      BY <1>3, <1>16 DEF H1Respond
    <2>3. CASE call' = Moved(c, "reading") /\ UNCHANGED <<acquired, available, support>>
      <3> DEFINE r == [st |-> "reading", conn |-> call[c].conn]
      <3>1. r \in CallRecords /\ call' = [call EXCEPT ![c] = r] BY <1>3, <2>3 DEF CallStates
      <3>2. Becomes(c, r, o) BY <3>1, <2>1, <2>2, <2>3, <1>1, <1>16 DEF Becomes, H1Respond
      <3>3. Counts(c, r, o) BY <1>1, <2>1, <2>3, <1>16 DEF H1Respond, Counts, Weight, Busy
      <3>4. Holds(c, r) BY <2>1, <2>3 DEF Holds, Unborn
      <3>5. Queues(c, r, o) BY <2>1, <2>2 DEF Queues
      <3> QED BY <3>1, <2>2, <3>2, <3>3, <3>4, <3>5 DEF StepOf
    <2>4. CASE call' = Left(c, "done") /\ (Release(call[c].conn) \/ ReleaseClose)
      <3> DEFINE r == [st |-> "done", conn |-> NoConn]
      <3>1. r \in CallRecords /\ call' = [call EXCEPT ![c] = r] BY <1>3, <2>4 DEF CallStates, Left
      <3>2. support' \in BOOLEAN BY <1>4, <2>4 DEF Release, ReleaseClose
      <3>3. Becomes(c, r, o) BY <3>1, <3>2, <2>2, <1>1, <1>16 DEF Becomes, H1Respond
      <3>4. Counts(c, r, o)
        <4>1. acquired' = acquired - 1 /\ lost' = lost BY <1>a, <2>4, <1>16 DEF H1Respond
        <4>2. Weight(r.st \in Busy) = 0 /\ Weight(call[c].st \in Busy) = 1 BY <2>1 DEF Weight, Busy
        <4>3. Weight(o # "none") = Weight(opener[c] # "none") /\ Weight(o # "none") \in {0, 1} BY DEF Weight
        <4>4. acquired \in Nat /\ lost \in Nat BY <1>1
        <4> HIDE DEF r, o
        <4>5. acquired' = acquired + lost' - lost + 0 - 1 + Weight(o # "none") - Weight(opener[c] # "none")
          BY <4>1, <4>3, <4>4
        <4>6. acquired' <= acquired BY <4>1, <4>4
        <4> QED BY <4>2, <4>5, <4>6, Zenon DEF Counts
      <3>5. Holds(c, r) BY <2>1, <2>4 DEF Holds, Unborn, Release, ReleaseClose
      <3>6. Queues(c, r, o) BY <2>1, <2>2 DEF Queues
      <3> QED BY <3>1, <2>2, <3>3, <3>4, <3>5, <3>6 DEF StepOf
    <2> QED BY <1>16, <2>3, <2>4 DEF H1Respond
  <1>17. ASSUME NEW c \in Calls, H1BodyEnds(c)
        PROVE  \E r \in CallRecords, o \in Openings : StepOf(c, r, o)
    <2> DEFINE r == [st |-> "done", conn |-> NoConn]
               o == opener[c]
    <2>1. call[c].st = "reading" /\ call[c].conn # NoConn
      BY <1>2, <1>17 DEF H1BodyEnds, In
    <2>2. r \in CallRecords /\ o \in Openings BY <1>3 DEF CallStates, Openings
    <2>3. call' = [call EXCEPT ![c] = r] /\ opener' = [opener EXCEPT ![c] = o]
      BY <1>3, <1>17, <2>1 DEF H1BodyEnds, CallStates, Left
    <2>a. support' \in BOOLEAN BY <1>4, <1>17 DEF H1BodyEnds, Release, ReleaseClose
    <2>4. Becomes(c, r, o) BY <2>1, <2>2, <2>3, <2>a, <1>1, <1>5, <1>17 DEF Becomes, H1BodyEnds
    <2>5. Counts(c, r, o)
      <3>1. acquired' = acquired - 1 /\ lost' = lost BY <1>a, <1>17 DEF H1BodyEnds
      <3>2. Weight(r.st \in Busy) = 0 /\ Weight(call[c].st \in Busy) = 1 BY <2>1 DEF Weight, Busy
      <3>3. Weight(o # "none") = Weight(opener[c] # "none") /\ Weight(o # "none") \in {0, 1} BY DEF Weight
      <3>4. acquired \in Nat /\ lost \in Nat BY <1>1
      <3> HIDE DEF r, o
      <3>5. acquired' = acquired + lost' - lost + 0 - 1 + Weight(o # "none") - Weight(opener[c] # "none")
        BY <3>1, <3>3, <3>4
      <3>6. acquired' <= acquired BY <3>1, <3>4
      <3> QED BY <3>2, <3>5, <3>6, Zenon DEF Counts
    <2>6. Holds(c, r) BY <1>2, <2>1, <1>17 DEF H1BodyEnds, Holds, Unborn, Release, ReleaseClose
    <2>7. Queues(c, r, o) BY <1>2, <2>1, <1>17 DEF H1BodyEnds, Queues
    <2> QED BY <2>2, <2>4, <2>5, <2>6, <2>7 DEF StepOf
  <1>18. ASSUME NEW c \in Calls, H1Breaks(c)
        PROVE  \E r \in CallRecords, o \in Openings : StepOf(c, r, o)
    <2> DEFINE r == [st |-> IF In(c, "reading") THEN "done" ELSE "failed", conn |-> NoConn]
               o == opener[c]
    <2>1. call[c].st \in {"holding", "reading"} /\ call[c].conn # NoConn
      BY <1>2, <1>18 DEF H1Breaks, In
    <2>2. r \in CallRecords /\ o \in Openings BY <1>3 DEF CallStates, Openings
    <2>3. call' = [call EXCEPT ![c] = r] /\ opener' = [opener EXCEPT ![c] = o]
      BY <1>3, <1>18, <2>1 DEF H1Breaks, CallStates, Left
    <2>4. Becomes(c, r, o) BY <2>1, <2>2, <2>3, <1>1, <1>5, <1>18 DEF Becomes, H1Breaks, DropsPermit
    <2>5. Counts(c, r, o)
      <3>1. acquired' = acquired - 1 /\ lost' = lost BY <1>a, <1>18 DEF H1Breaks
      <3>2. Weight(r.st \in Busy) = 0 /\ Weight(call[c].st \in Busy) = 1 BY <2>1 DEF Weight, Busy
      <3>3. Weight(o # "none") = Weight(opener[c] # "none") /\ Weight(o # "none") \in {0, 1} BY DEF Weight
      <3>4. acquired \in Nat /\ lost \in Nat BY <1>1
      <3> HIDE DEF r, o
      <3>5. acquired' = acquired + lost' - lost + 0 - 1 + Weight(o # "none") - Weight(opener[c] # "none")
        BY <3>1, <3>3, <3>4
      <3>6. acquired' <= acquired BY <3>1, <3>4
      <3> QED BY <3>2, <3>5, <3>6, Zenon DEF Counts
    <2>6. Holds(c, r) BY <1>2, <2>1, <1>18 DEF H1Breaks, Holds, Unborn, DropsPermit
    <2>7. Queues(c, r, o) BY <1>2, <2>1, <1>18 DEF H1Breaks, Queues
    <2> QED BY <2>2, <2>4, <2>5, <2>6, <2>7 DEF StepOf
  <1>19. ASSUME NEW c \in Calls, OpenTunnel(c)
        PROVE  \E r \in CallRecords, o \in Openings : StepOf(c, r, o)
    <2> DEFINE o == opener[c]
    <2>1. call[c].st = "holding" /\ call[c].conn # NoConn BY <1>2, <1>19 DEF OpenTunnel, In
    <2>2. o \in Openings /\ opener' = [opener EXCEPT ![c] = o] /\ queue' = queue
      BY <1>3, <1>19 DEF OpenTunnel
    <2>3. PICK st \in {"done", "failed"} : call' = Left(c, st)
      BY <1>19 DEF OpenTunnel
    <2> DEFINE r == [st |-> st, conn |-> NoConn]
    <2>4. r \in CallRecords /\ call' = [call EXCEPT ![c] = r] BY <1>3, <2>3 DEF CallStates, Left
    <2>5. support' \in BOOLEAN /\ dropped' \in BOOLEAN
      BY <1>1, <1>4, <1>19 DEF OpenTunnel, Release, DropsPermit
    <2>6. Becomes(c, r, o) BY <2>2, <2>4, <2>5, <1>1, <1>19 DEF Becomes, OpenTunnel
    <2>7. Counts(c, r, o)
      <3>1. acquired' = acquired - 1 /\ lost' = lost BY <1>a, <1>19 DEF OpenTunnel
      <3>2. Weight(r.st \in Busy) = 0 /\ Weight(call[c].st \in Busy) = 1 BY <2>1 DEF Weight, Busy
      <3>3. Weight(o # "none") = Weight(opener[c] # "none") /\ Weight(o # "none") \in {0, 1} BY DEF Weight
      <3>4. acquired \in Nat /\ lost \in Nat BY <1>1
      <3> HIDE DEF r, o
      <3>5. acquired' = acquired + lost' - lost + 0 - 1 + Weight(o # "none") - Weight(opener[c] # "none")
        BY <3>1, <3>3, <3>4
      <3>6. acquired' <= acquired BY <3>1, <3>4
      <3> QED BY <3>2, <3>5, <3>6, Zenon DEF Counts
    <2>8. Holds(c, r) BY <2>1, <1>19 DEF OpenTunnel, Holds, Unborn, Release
    <2>9. Queues(c, r, o) BY <2>1, <2>2 DEF Queues
    <2> QED BY <2>2, <2>4, <2>6, <2>7, <2>8, <2>9 DEF StepOf
  <1>20. ASSUME NEW c \in Calls, H2Send(c)
        PROVE  \E r \in CallRecords, o \in Openings : StepOf(c, r, o)
    <2> DEFINE o == opener[c]
    <2>1. call[c].st = "holding" /\ call[c].conn # NoConn BY <1>2, <1>20 DEF H2Send, In
    <2>2. o \in Openings /\ opener' = [opener EXCEPT ![c] = o] /\ queue' = queue
      BY <1>3, <1>20 DEF H2Send
    <2>3. PICK st \in {"streaming", "failed"} : call' = Left(c, st)
      BY <1>20 DEF H2Send
    <2> DEFINE r == [st |-> st, conn |-> NoConn]
    <2>4. r \in CallRecords /\ call' = [call EXCEPT ![c] = r] BY <1>3, <2>3 DEF CallStates, Left
    <2>5. support' \in BOOLEAN /\ dropped' \in BOOLEAN
      BY <1>1, <1>4, <1>20 DEF H2Send, Release, ReleaseClose
    <2>6. Becomes(c, r, o) BY <2>2, <2>4, <2>5, <1>1, <1>20 DEF Becomes, H2Send
    <2>7. Counts(c, r, o)
      <3>1. acquired' = acquired - 1 /\ lost' = lost BY <1>a, <1>20 DEF H2Send
      <3>2. Weight(r.st \in Busy) = 0 /\ Weight(call[c].st \in Busy) = 1 BY <2>1 DEF Weight, Busy
      <3>3. Weight(o # "none") = Weight(opener[c] # "none") /\ Weight(o # "none") \in {0, 1} BY DEF Weight
      <3>4. acquired \in Nat /\ lost \in Nat BY <1>1
      <3> HIDE DEF r, o
      <3>5. acquired' = acquired + lost' - lost + 0 - 1 + Weight(o # "none") - Weight(opener[c] # "none")
        BY <3>1, <3>3, <3>4
      <3>6. acquired' <= acquired BY <3>1, <3>4
      <3> QED BY <3>2, <3>5, <3>6, Zenon DEF Counts
    <2>8. Holds(c, r) BY <2>1, <1>20 DEF H2Send, Holds, Unborn, Release, ReleaseClose
    <2>9. Queues(c, r, o) BY <2>1, <2>2 DEF Queues
    <2> QED BY <2>2, <2>4, <2>6, <2>7, <2>8, <2>9 DEF StepOf
  <1>21. ASSUME NEW c \in Calls, H2Respond(c)
        PROVE  \E r \in CallRecords, o \in Openings : StepOf(c, r, o)
    <2> DEFINE r == [st |-> "done", conn |-> NoConn]
               o == opener[c]
    <2>1. call[c].st = "streaming" /\ call[c].conn = NoConn
      BY <1>2, <1>21 DEF H2Respond, In
    <2>2. r \in CallRecords /\ o \in Openings BY <1>3 DEF CallStates, Openings
    <2>3. call' = [call EXCEPT ![c] = r] /\ opener' = [opener EXCEPT ![c] = o]
      BY <1>3, <1>21, <2>1 DEF H2Respond, CallStates, Left
    <2>4. Becomes(c, r, o) BY <2>1, <2>2, <2>3, <1>1, <1>5, <1>21 DEF Becomes, H2Respond
    <2>5. Counts(c, r, o) BY <1>1, <2>1, <1>21 DEF H2Respond, Counts, Weight, Busy
    <2>6. Holds(c, r) BY <1>2, <2>1, <1>21 DEF H2Respond, Holds, Unborn
    <2>7. Queues(c, r, o) BY <1>2, <2>1, <1>21 DEF H2Respond, Queues
    <2> QED BY <2>2, <2>4, <2>5, <2>6, <2>7 DEF StepOf
  <1>22. ASSUME NEW c \in Calls, Cancel(c)
        PROVE  \E r \in CallRecords, o \in Openings : StepOf(c, r, o)
    <2> DEFINE r == [st |-> "gone", conn |-> NoConn]
               o == opener[c]
    <2>1. /\ r \in CallRecords /\ call' = [call EXCEPT ![c] = r]
          /\ o \in Openings /\ opener' = [opener EXCEPT ![c] = o]
          /\ available' = available /\ conn' = conn
      BY <1>3, <1>22 DEF Cancel, CallStates, Left
    <2>2. \/ /\ call[c].st \in {"called", "streaming"}
             /\ UNCHANGED <<acquired, queue, support, lost, dropped>>
          \/ /\ call[c].st = "connect" /\ lost' = lost + 1
             /\ UNCHANGED <<acquired, queue, support, dropped>>
          \/ /\ call[c].st = "handshake" /\ acquired' = acquired - 1 /\ support' \in BOOLEAN
             /\ UNCHANGED <<queue, lost, dropped>>
          \/ /\ call[c].st = "waiting" /\ queue' = ShiftRemoved(queue, c) /\ support' \in BOOLEAN
             /\ UNCHANGED <<acquired, lost, dropped>>
          \/ /\ call[c].st \in {"holding", "reading"} /\ acquired' = acquired - 1 /\ dropped' = TRUE
             /\ UNCHANGED <<queue, support, lost>>
      BY <1>4, <1>22 DEF Cancel, In, DropsPermit
    <2>3. Becomes(c, r, o)
      <3>1. lost' \in Nat BY <1>1, <2>2
      <3>2. support' \in BOOLEAN /\ dropped' \in BOOLEAN BY <1>1, <2>2
      <3> QED BY <2>1, <3>1, <3>2, <1>1 DEF Becomes
    <2>4. Counts(c, r, o)
      <3>1. r.st \notin Busy BY DEF Busy
      <3>2. /\ acquired' = acquired + lost' - lost - (IF call[c].st \in Busy THEN 1 ELSE 0)
            /\ acquired' <= acquired /\ acquired' \in Int /\ lost' \in Int
        BY <1>1, <2>2 DEF Busy
      <3> HIDE DEF r
      <3>3. acquired' = acquired + lost' - lost + Weight(r.st \in Busy) - Weight(call[c].st \in Busy)
                           + Weight(o # "none") - Weight(opener[c] # "none")
        <4>1. acquired' = acquired + lost' - lost + 0 - Weight(call[c].st \in Busy)
          BY <1>1, <3>2 DEF Weight
        <4>2. Weight(r.st \in Busy) = 0 BY <3>1 DEF Weight
        <4>3. Weight(o # "none") = Weight(opener[c] # "none") /\ Weight(o # "none") \in {0, 1} BY DEF Weight
        <4> QED BY <1>1, <4>1, <4>2, <4>3, <3>2 DEF Weight
      <3> QED BY <3>2, <3>3 DEF Counts
    <2>5. Holds(c, r) BY <2>1 DEF Holds, Unborn
    <2>6. Queues(c, r, o)
      <3>1. queue' = ShiftRemoved(queue, c) \/ (queue' = queue /\ call[c].st # "waiting") BY <2>2
      <3> QED BY <3>1 DEF Queues
    <2> QED BY <2>1, <2>3, <2>4, <2>5, <2>6 DEF StepOf
  <1>23. ASSUME NEW c \in Calls, Decays(c)
        PROVE  \E r \in CallRecords, o \in Openings : StepOf(c, r, o)
    <2> DEFINE r == call[c]
               o == opener[c]
    <2>1. call[c].conn # NoConn => call[c].st \in {"holding", "reading"} BY <1>2
    <2>2. conn' \in [Calls -> {"fresh", "stale", "noisy", "broken"}]
      <3>1. PICK how \in {"stale", "broken", "noisy"} : conn' = [conn EXCEPT ![c] = how]
        BY <1>23 DEF Decays
      <3> QED BY <3>1, <1>1
    <2>3. Becomes(c, r, o) BY <1>1, <1>2, <1>3, <2>2, <1>23 DEF Becomes, Decays
    <2>4. Counts(c, r, o)
      <3>1. acquired' = acquired /\ lost' = lost BY <1>23 DEF Decays
      <3> QED BY <1>1, <3>1 DEF Counts, Weight
    <2>5. Holds(c, r) BY <2>1, <1>23 DEF Decays, Holds
    <2>6. Queues(c, r, o) BY <1>23 DEF Decays, Queues
    <2> QED BY <1>3, <2>3, <2>4, <2>5, <2>6 DEF StepOf
  <1>24. ASSUME Support
        PROVE  \/ \E c \in Calls, r \in CallRecords, o \in Openings : StepOf(c, r, o)
               \/ /\ UNCHANGED <<acquired, available, queue, call, opener, conn, lost, dropped>>
                  /\ support' \in BOOLEAN
    <2>1. CASE queue = <<>> \/ Full BY <2>1, <1>24 DEF Support
    <2>2. CASE queue # <<>> /\ ~Full
      <3> DEFINE c == Head(queue)
                 k == Found(KeyOf[c])
                 r == IF k = NoConn THEN call[c] ELSE [st |-> "holding", conn |-> k]
                 o == IF k = NoConn THEN "connect" ELSE opener[c]
      <3>1. c \in Calls /\ call[c].st = "waiting" /\ opener[c] = "none"
        <4>1. 1 \in 1..Len(queue) /\ c = queue[1] /\ c \in Calls BY <1>1, <2>2
        <4> QED BY <4>1 DEF PoolInv, Queued
      <3>2. call[c].conn = NoConn BY <1>2, <3>1
      <3>3. /\ acquired' = acquired + 1 /\ available' = Without(KeyOf[c])
            /\ queue' = SwapRemoved(queue) /\ UNCHANGED <<support, conn, lost, dropped>>
            /\ call' = IF k = NoConn THEN call ELSE Given(c, k)
            /\ opener' = IF k = NoConn THEN [opener EXCEPT ![c] = "connect"] ELSE opener
        BY <2>2, <1>24 DEF Support
      <3> HIDE DEF c
      <3>4. k \in Calls \cup {NoConn} BY <1>6, <3>1
      <3> HIDE DEF k
      <3>5. r \in CallRecords /\ o \in Openings
        <4>1. [st |-> "holding", conn |-> k] \in CallRecords BY <3>4 DEF CallRecords, CallStates
        <4> QED BY <4>1, <1>3, <3>1 DEF Openings
      <3>6. call' = [call EXCEPT ![c] = r] /\ opener' = [opener EXCEPT ![c] = o]
        BY <1>3, <3>1, <3>3 DEF Given
      <3>7. Becomes(c, r, o) BY <1>1, <3>1, <3>3, <3>5, <3>6 DEF Becomes
      <3>8. Counts(c, r, o) BY <1>1, <2>2, <3>1, <3>3 DEF Counts, Weight, Busy
      <3>9. Holds(c, r) BY <1>7, <3>1, <3>2, <3>3, <3>5 DEF k
      <3>10. Queues(c, r, o) BY <2>2, <3>1, <3>3 DEF Queues, c
      <3> QED BY <3>1, <3>5, <3>7, <3>8, <3>9, <3>10 DEF StepOf
    <2> QED BY <2>1, <2>2
  <1> QED
    BY <1>8, <1>9, <1>10, <1>11, <1>12, <1>13, <1>14, <1>15, <1>16, <1>17, <1>18, <1>19, <1>20, <1>21, <1>22, <1>23, <1>24 DEF PoolNext, Uses, Fails

-----------------------------------------------------------------------------
\* One holder: a connection is in the pool once or with one call, never more.
LEMMA CopiesBound ==
  ASSUME NEW cl \in [Calls -> CallRecords], NEW av \in [Keys -> Seq(Calls)], OneHolder(cl, av),
         NEW k \in Calls
  PROVE  Cardinality({n \in 1..Len(av[KeyOf[k]]) : av[KeyOf[k]][n] = k})
           + Cardinality({c \in Calls : cl[c].conn = k}) <= 1
  <1> DEFINE copies == {n \in 1..Len(av[KeyOf[k]]) : av[KeyOf[k]][n] = k}
             users == {c \in Calls : cl[c].conn = k}
  <1>1. KeyOf[k] \in Keys /\ NoConn \notin Calls BY PoolCallsAssumption DEF Keys, NoConn
  <1>2. \A n, m \in copies : n = m BY <1>1 DEF OneHolder, ListedOnce
  <1>3. \A c, d \in users : c = d BY <1>1 DEF OneHolder, HeldOnce
  <1>4. copies = {} \/ users = {} BY <1>1 DEF OneHolder, IdleNotHeld
  <1> HIDE DEF copies, users
  <1>5. Cardinality({}) = 0 BY FS_EmptySet
  <1>6. copies = {} \/ \E n \in copies : copies = {n} BY <1>2
  <1>7. users = {} \/ \E c \in users : users = {c} BY <1>3
  <1>8. copies # {} => Cardinality(copies) = 1 BY <1>6, FS_Singleton
  <1>9. users # {} => Cardinality(users) = 1 BY <1>7, FS_Singleton
  <1>10. Cardinality(copies) + Cardinality(users) <= 1
    <2>1. CASE copies = {}
      <3>1. Cardinality(copies) = 0 /\ Cardinality(users) \in {0, 1} BY <2>1, <1>5, <1>9
      <3> QED BY <3>1
    <2>2. CASE copies # {}
      <3>1. Cardinality(copies) = 1 /\ Cardinality(users) = 0 BY <2>2, <1>4, <1>5, <1>8
      <3> QED BY <3>1
    <2> QED BY <2>1, <2>2
  <1> QED BY <1>10 DEF copies, users

\* The permits of the pool are exactly those in use, up to those lost, they stay within
\* the limit, and no HTTP/1 connection is used by two calls (Inner.acquired, release and
\* the guards of client/pool.rs), whatever the calls, the limit and the faults.
THEOREM PermitsCorrect == PoolSpec => []PermitsMatchUse
  <1>1. PoolInit => PoolInv
    <2> SUFFICES ASSUME PoolInit PROVE PoolInv OBVIOUS
    <2>1. /\ call = [c \in Calls |-> [st |-> "new", conn |-> NoConn]]
          /\ opener = [c \in Calls |-> "none"] /\ available = [k \in Keys |-> <<>>]
          /\ queue = <<>> /\ acquired = 0 /\ lost = 0
      BY DEF PoolInit
    <2>2. \A key \in Keys : available[key] = <<>> /\ Len(available[key]) = 0 BY <2>1
    <2>3. PoolTypeOK
      <3>1. <<>> \in Seq(Calls) OBVIOUS
      <3>2. available \in [Keys -> Seq(Calls)] /\ queue \in Seq(Calls) BY <2>1, <3>1
      <3>3. call \in [Calls -> [st : CallStates, conn : Calls \cup {NoConn}]] BY <2>1 DEF CallStates
      <3>4. /\ acquired \in Nat /\ lost \in Nat /\ dropped \in BOOLEAN /\ support \in BOOLEAN
            /\ opener \in [Calls -> {"none", "connect", "handshake"}]
            /\ conn \in [Calls -> {"fresh", "stale", "noisy", "broken"}]
        BY DEF PoolInit
      <3> QED BY <3>2, <3>3, <3>4 DEF PoolTypeOK
    <2>4. Queued BY <2>1 DEF Queued
    <2>5. OneHolder(call, available)
      <3>1. \A c \in Calls : call[c].conn = NoConn /\ c # NoConn
        BY <2>1, PoolCallsAssumption DEF NoConn
      <3> QED BY <2>2, <3>1
              DEF OneHolder, HeldOfKey, ListedByKey, ListedOnce, HeldOnce, IdleNotHeld, UnbornNowhere
    <2>6. PermitsOf(call, opener) = {} BY <2>1 DEF PermitsOf, Busy
    <2>7. acquired = Cardinality(PermitsOf(call, opener)) + lost 
      <3>1. Cardinality(PermitsOf(call, opener)) = 0 BY <2>6, FS_EmptySet
      <3>2. acquired = 0 /\ lost = 0 BY <2>1
      <3> QED BY <3>1, <3>2
    <2>8. \A c \in Calls : call[c].st \in {"holding", "reading"} => call[c].conn # NoConn BY <2>1
    <2>9. Limit > 0 => acquired <= Limit BY <2>1, PoolLimitAssumption
    <2> QED BY <2>3, <2>4, <2>5, <2>7, <2>8, <2>9 DEF PoolInv
  <1>2. PoolInv /\ [PoolNext]_pool => PoolInv'
    <2> SUFFICES ASSUME PoolInv, [PoolNext]_pool PROVE PoolInv' OBVIOUS
    <2>1. CASE /\ UNCHANGED <<acquired, available, queue, call, opener, conn, lost, dropped>>
               /\ support' \in BOOLEAN
      <3>1. PoolTypeOK' BY <2>1 DEF PoolInv, PoolTypeOK
      <3>2. Queued' BY <2>1 DEF PoolInv, Queued
      <3> QED BY <2>1, <3>1, <3>2 DEF PoolInv
    <2>2. CASE UNCHANGED pool
      <3>1. support' \in BOOLEAN BY <2>2 DEF pool, PoolInv, PoolTypeOK
      <3> QED BY <2>1, <2>2, <3>1 DEF pool
    <2>3. CASE PoolNext BY <2>1, <2>3, StepShape, StepsKeepInv
    <2> QED BY <2>2, <2>3
  <1>3. PoolInv => PermitsMatchUse
    <2> SUFFICES ASSUME PoolInv PROVE PermitsMatchUse OBVIOUS
    <2>1. call \in [Calls -> CallRecords] /\ available \in [Keys -> Seq(Calls)]
      BY DEF PoolInv, PoolTypeOK, CallRecords
    <2>2. Permits = PermitsOf(call, opener) BY DEF Permits, PermitsOf, Busy
    <2>3. ASSUME NEW k \in Calls
          PROVE  Cardinality({n \in 1..Len(available[KeyOf[k]]) : available[KeyOf[k]][n] = k})
                   + Cardinality({c \in Calls : call[c].conn = k}) <= 1
      BY <2>1, CopiesBound DEF PoolInv
    <2> QED BY <2>2, <2>3 DEF PermitsMatchUse, PoolInv
  <1> QED BY <1>1, <1>2, <1>3, PTL DEF PoolSpec
=============================================================================
