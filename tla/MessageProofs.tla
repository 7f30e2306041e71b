------------------------------ MODULE MessageProofs ------------------------------
(***************************************************************************)
(* The header map for every set of names and values and any number of      *)
(* values of a name; HeadsAreFresh of MessageHeads for any number of       *)
(* messages, finitely many places that hold them and pools of any size;    *)
(* CookiesArrive of CookieJar for any names of cookies and any operations; *)
(* CodingIsTransparent of ContentCoding for any chunks of any length;      *)
(* FramesAreMessages of WebSocket for messages of any length and any masks.*)
(***************************************************************************)
EXTENDS HeaderMap, MessageHeads, CookieJar, ContentCoding, WebSocket, FiniteSetTheorems, SequenceTheorems, WellFoundedInduction, TLAPS

-----------------------------------------------------------------------------
(* HeaderMap *)

\* What ReplaceFirst makes of the values a name was given.
SecondReplaced(s, v) == IF Len(s) = 1 THEN <<v>> ELSE [s EXCEPT ![2] = v]

\* What the operations do to the values of one name, as they were given (s) and as the
\* map has them.
LEMMA ValuesOfOneName ==
  ASSUME NEW s \in Seq(HeaderValues), NEW v \in HeaderValues
  PROVE  /\ SwappedFirst(s) \in Seq(HeaderValues) /\ Len(SwappedFirst(s)) = Len(s)
         /\ SwappedFirst(<<>>) = <<>> /\ SwappedFirst(<<v>>) = <<v>>
         /\ AppendValue(SwappedFirst(s), v) = SwappedFirst(Append(s, v))
         /\ s # <<>> =>
              /\ SecondReplaced(s, v) \in Seq(HeaderValues)
              /\ [SwappedFirst(s) EXCEPT ![1] = v] = SwappedFirst(SecondReplaced(s, v))
  <1>1. ASSUME NEW u \in Seq(HeaderValues)
        PROVE  /\ SwappedFirst(u) \in Seq(HeaderValues) /\ Len(SwappedFirst(u)) = Len(u)
               /\ \A i \in 1..Len(u) : SwappedFirst(u)[i] = IF Len(u) >= 2 /\ i <= 2 THEN u[3 - i] ELSE u[i]
    <2>1. Len(u) \in Nat /\ \A i \in 1..Len(u) : u[i] \in HeaderValues BY ElementOfSeq, LenProperties
    <2>2. \A i \in 1..Len(u) : (IF Len(u) >= 2 /\ i <= 2 THEN u[3 - i] ELSE u[i]) \in HeaderValues BY <2>1
    <2> QED BY <2>1, <2>2 DEF SwappedFirst
  <1>2. <<>> \in Seq(HeaderValues) /\ <<v>> \in Seq(HeaderValues) /\ Len(<<>>) = 0 /\ Len(<<v>>) = 1 OBVIOUS
  <1>3. SwappedFirst(<<>>) = <<>>
    <2>1. SwappedFirst(<<>>) \in Seq(HeaderValues) /\ Len(SwappedFirst(<<>>)) = 0 BY <1>1, <1>2
    <2> QED BY <1>2, <2>1, EmptySeq
  <1>4. SwappedFirst(<<v>>) = <<v>>
    <2> DEFINE u == <<v>>
    <2>1. u \in Seq(HeaderValues) /\ Len(u) = 1 BY <1>2
    <2> HIDE DEF u
    <2>2. /\ SwappedFirst(u) \in Seq(HeaderValues) /\ Len(SwappedFirst(u)) = 1
          /\ \A i \in 1..1 : SwappedFirst(u)[i] = u[i]
      BY <1>1, <2>1
    <2>3. SwappedFirst(u) = u BY <2>1, <2>2, SeqEqual
    <2> QED BY <2>3 DEF u
  <1>5. AppendValue(SwappedFirst(s), v) = SwappedFirst(Append(s, v))
    <2> DEFINE w == SwappedFirst(s)
               a == Append(s, v)
               b == SwappedFirst(a)
    <2>1. /\ a \in Seq(HeaderValues) /\ Len(s) \in Nat /\ Len(a) = Len(s) + 1 /\ a[Len(s) + 1] = v
          /\ \A i \in 1..Len(s) : a[i] = s[i]
      OBVIOUS
    <2>2. /\ b \in Seq(HeaderValues) /\ Len(b) = Len(s) + 1
          /\ \A i \in 1..Len(s) + 1 : b[i] = IF Len(s) + 1 >= 2 /\ i <= 2 THEN a[3 - i] ELSE a[i]
      BY <1>1, <2>1
    <2>3. /\ w \in Seq(HeaderValues) /\ Len(w) = Len(s)
          /\ \A i \in 1..Len(s) : w[i] = IF Len(s) >= 2 /\ i <= 2 THEN s[3 - i] ELSE s[i]
      BY <1>1
    <2> HIDE DEF w, a, b
    <2>4. CASE Len(s) = 0
      <3>1. b[1] = v BY <2>1, <2>2, <2>4
      <3>2. AppendValue(w, v) = <<v>> BY <2>3, <2>4 DEF AppendValue
      <3> QED BY <1>2, <2>2, <2>4, <3>1, <3>2, SeqEqual DEF w, a, b
    <2>5. CASE Len(s) = 1
      <3>1. b[1] = v /\ b[2] = s[1] /\ w[1] = s[1] /\ s[1] \in HeaderValues BY <2>1, <2>2, <2>3, <2>5, ElementOfSeq
      <3>2. AppendValue(w, v) = <<v, s[1]>> BY <2>3, <2>5, <3>1 DEF AppendValue
      <3>3. /\ <<v, s[1]>> \in Seq(HeaderValues) /\ Len(<<v, s[1]>>) = 2
            /\ \A i \in 1..2 : <<v, s[1]>>[i] = b[i]
        BY <3>1
      <3> QED BY <2>2, <2>5, <3>2, <3>3, SeqEqual DEF w, a, b
    <2>6. CASE Len(s) >= 2
      <3>1. AppendValue(w, v) = Append(w, v) BY <2>1, <2>3, <2>6 DEF AppendValue
      <3>2. /\ Append(w, v) \in Seq(HeaderValues) /\ Len(Append(w, v)) = Len(s) + 1
            /\ Append(w, v)[Len(s) + 1] = v /\ \A i \in 1..Len(s) : Append(w, v)[i] = w[i]
        BY <2>3
      <3>3. \A i \in 1..Len(s) + 1 : Append(w, v)[i] = b[i]
        BY <2>1, <2>2, <2>3, <2>6, <3>2
      <3> QED BY <2>2, <3>1, <3>2, <3>3, SeqEqual DEF w, a, b
    <2>7. Len(s) = 0 \/ Len(s) = 1 \/ Len(s) >= 2
      <3>1. PICK l \in Nat : l = Len(s) BY <2>1
      <3>2. l = 0 \/ l = 1 \/ l >= 2 OBVIOUS
      <3> QED BY <3>1, <3>2
    <2> QED BY <2>4, <2>5, <2>6, <2>7
  <1>6. ASSUME s # <<>>
        PROVE  /\ SecondReplaced(s, v) \in Seq(HeaderValues)
               /\ [SwappedFirst(s) EXCEPT ![1] = v] = SwappedFirst(SecondReplaced(s, v))
    <2> DEFINE t == SecondReplaced(s, v)
               w == SwappedFirst(s)
               e == [w EXCEPT ![1] = v]
               b == SwappedFirst(t)
    <2>1. Len(s) \in Nat /\ Len(s) # 0 BY <1>6, EmptySeq
    <2>2. /\ w \in Seq(HeaderValues) /\ Len(w) = Len(s)
          /\ \A i \in 1..Len(s) : w[i] = IF Len(s) >= 2 /\ i <= 2 THEN s[3 - i] ELSE s[i]
      BY <1>1
    <2>3. /\ t \in Seq(HeaderValues) /\ Len(t) = Len(s)
          /\ \A i \in 1..Len(s) : t[i] = IF (Len(s) = 1 /\ i = 1) \/ (Len(s) # 1 /\ i = 2) THEN v ELSE s[i]
      <3>1. CASE Len(s) = 1 BY <3>1, <1>2 DEF SecondReplaced
      <3>2. CASE Len(s) # 1
        <4> HIDE DEF t
        <4>1. Len(s) >= 2
          <5>1. PICK l \in Nat : l = Len(s) BY <2>1
          <5>2. l # 0 /\ l # 1 BY <2>1, <3>2, <5>1
          <5>3. l >= 2 BY <5>2
          <5> QED BY <5>1, <5>3
        <4>2. 2 \in 1..Len(s) BY <2>1, <4>1
        <4>3. t = [s EXCEPT ![2] = v] BY <3>2 DEF t, SecondReplaced
        <4> QED BY <3>2, <4>2, <4>3, ExceptSeq
      <3> QED BY <3>1, <3>2
    <2> HIDE DEF t, w
    <2>4. /\ e \in Seq(HeaderValues) /\ Len(e) = Len(s)
          /\ \A i \in 1..Len(s) : e[i] = IF i = 1 THEN v ELSE w[i]
      <3>1. 1 \in 1..Len(w) BY <2>1, <2>2
      <3> QED BY <2>2, <3>1, ExceptSeq
    <2>5. /\ b \in Seq(HeaderValues) /\ Len(b) = Len(s)
          /\ \A i \in 1..Len(s) : b[i] = IF Len(s) >= 2 /\ i <= 2 THEN t[3 - i] ELSE t[i]
      BY <1>1, <2>3
    <2> HIDE DEF e, b
    <2>6. ASSUME NEW i \in 1..Len(s) PROVE e[i] = b[i]
      <3>1. CASE Len(s) = 1
        <4>1. i = 1 /\ e[i] = v /\ t[i] = v BY <2>3, <2>4, <3>1
        <4> QED BY <2>5, <3>1, <4>1
      <3>2. CASE Len(s) # 1 /\ i = 1
        <4>1. 2 \in 1..Len(s) /\ t[2] = v BY <2>1, <2>3, <3>2
        <4> QED BY <2>1, <2>4, <2>5, <3>2, <4>1
      <3>3. CASE Len(s) # 1 /\ i = 2
        <4>1. 1 \in 1..Len(s) /\ t[1] = s[1] /\ w[2] = s[1] BY <2>1, <2>2, <2>3, <3>3
        <4> QED BY <2>1, <2>4, <2>5, <3>3, <4>1
      <3>4. CASE Len(s) # 1 /\ i # 1 /\ i # 2
        BY <2>1, <2>2, <2>3, <2>4, <2>5, <3>4
      <3> QED BY <3>1, <3>2, <3>3, <3>4
    <2>7. e = b BY <2>4, <2>5, <2>6, SeqEqual
    <2>8. t \in Seq(HeaderValues) /\ [w EXCEPT ![1] = v] = SwappedFirst(t) BY <2>3, <2>7 DEF e, b
    <2> QED BY <2>8 DEF t, w
  <1> QED BY <1>1, <1>3, <1>4, <1>5, <1>6

\* The inductive invariant.
HeaderInv ==
  /\ headers \in [HeaderNames -> Seq(HeaderValues)]
  /\ wrote \in [HeaderNames -> Seq(HeaderValues)]
  /\ \A n \in HeaderNames : headers[n] = SwappedFirst(wrote[n])

\* However often a name is appended to, inserted, replaced and removed, and with however
\* many values, the map (Value::append and its callers) keeps every value once, in order
\* but for the first two, which are exchanged.
THEOREM HeadersCorrect == HeaderSpec => []HeadersAreMultimap
  <1>1. HeaderInit => HeaderInv
    <2>1. <<>> \in Seq(HeaderValues) OBVIOUS
    <2>2. SwappedFirst(<<>>) = <<>> BY DEF SwappedFirst
    <2> QED BY <2>1, <2>2 DEF HeaderInit, HeaderInv
  <1>2. HeaderInv /\ [HeaderNext]_headermap => HeaderInv'
    <2> SUFFICES ASSUME HeaderInv, [HeaderNext]_headermap PROVE HeaderInv' OBVIOUS
    <2>0. /\ headers \in [HeaderNames -> Seq(HeaderValues)] /\ wrote \in [HeaderNames -> Seq(HeaderValues)]
          /\ \A n \in HeaderNames : headers[n] = SwappedFirst(wrote[n])
          /\ <<>> \in Seq(HeaderValues) /\ SwappedFirst(<<>>) = <<>>
      BY DEF HeaderInv, SwappedFirst
    \* A name gets new values, and the others keep theirs.
    <2>1. ASSUME NEW n \in HeaderNames, NEW t \in Seq(HeaderValues), NEW u \in Seq(HeaderValues),
                 u = SwappedFirst(t),
                 headers' = [headers EXCEPT ![n] = u], wrote' = [wrote EXCEPT ![n] = t]
          PROVE  HeaderInv'
      <3>1. \A m \in HeaderNames : headers'[m] = SwappedFirst(wrote'[m]) BY <2>0, <2>1
      <3> QED BY <2>0, <2>1, <3>1 DEF HeaderInv
    <2>2. CASE ClearHeaders BY <2>0, <2>2 DEF ClearHeaders, HeaderInv
    <2>3. ASSUME NEW n \in HeaderNames, RemoveHeader(n) PROVE HeaderInv'
      BY <2>0, <2>1, <2>3 DEF RemoveHeader
    <2>4. ASSUME NEW n \in HeaderNames, NEW v \in HeaderValues, AppendHeader(n, v) PROVE HeaderInv'
      <3> DEFINE t == Append(wrote[n], v)
                 u == AppendValue(headers[n], v)
      <3>1. t \in Seq(HeaderValues) /\ u = SwappedFirst(t) /\ SwappedFirst(t) \in Seq(HeaderValues)
        <4>1. wrote[n] \in Seq(HeaderValues) /\ headers[n] = SwappedFirst(wrote[n]) BY <2>0
        <4>2. t \in Seq(HeaderValues) BY <4>1
        <4>3. u = SwappedFirst(t) /\ SwappedFirst(t) \in Seq(HeaderValues)
          BY <4>1, <4>2, ValuesOfOneName
        <4> QED BY <4>2, <4>3
      <3>2. headers' = [headers EXCEPT ![n] = u] /\ wrote' = [wrote EXCEPT ![n] = t]
        BY <2>4 DEF AppendHeader
      <3> HIDE DEF t, u
      <3> QED BY <3>1, <3>2, <2>1
    <2>5. ASSUME NEW n \in HeaderNames, NEW v \in HeaderValues, InsertHeader(n, v) PROVE HeaderInv'
      <3>1. <<v>> \in Seq(HeaderValues) /\ SwappedFirst(<<v>>) = <<v>> 
        BY <2>0, ValuesOfOneName
      <3> QED BY <2>1, <2>5, <3>1 DEF InsertHeader
    <2>6. ASSUME NEW n \in HeaderNames, NEW v \in HeaderValues, ReplaceFirst(n, v) PROVE HeaderInv'
      <3> DEFINE t == SecondReplaced(wrote[n], v)
                 u == [headers[n] EXCEPT ![1] = v]
      <3>1. wrote[n] \in Seq(HeaderValues) /\ headers[n] = SwappedFirst(wrote[n]) /\ wrote[n] # <<>>
        BY <2>0, <2>6 DEF ReplaceFirst
      <3>2. t \in Seq(HeaderValues) /\ u = SwappedFirst(t) BY <3>1, ValuesOfOneName
      <3>3. SwappedFirst(t) \in Seq(HeaderValues) BY <3>2, ValuesOfOneName
      <3>4. headers' = [headers EXCEPT ![n] = u] /\ wrote' = [wrote EXCEPT ![n] = t]
        BY <2>0, <2>6 DEF ReplaceFirst, SecondReplaced
      <3> HIDE DEF t, u
      <3> QED BY <3>2, <3>3, <3>4, <2>1
    <2>7. CASE UNCHANGED headermap BY <2>0, <2>7 DEF headermap, HeaderInv
    <2> QED BY <2>2, <2>3, <2>4, <2>5, <2>6, <2>7 DEF HeaderNext
  <1>3. HeaderInv => HeadersAreMultimap BY DEF HeaderInv, HeadersAreMultimap, GetAll
  <1> QED BY <1>1, <1>2, <1>3, PTL DEF HeaderSpec

-----------------------------------------------------------------------------
(* MessageHeads *)

Flags == (ConnectionTypes \cup {"close"}) \X Nat
HeadRecords ==
  [line: Nat, version: Nat, peer: Nat, headers: SUBSET Nat, flags: SUBSET Flags, extensions: SUBSET Nat, holds: Nat]
Holders == [head: Nat, tag: Nat, by: Takers \cup {""}]
Types(hd, places, pool, dropped) ==
  /\ hd \in [Heads -> HeadRecords] /\ places \in [Handles -> Holders]
  /\ pool \in Seq(Heads) /\ dropped \in Heads \cup {NoHead}
  /\ \A n \in Heads : hd[n].holds \in Heads \cup {NoHead}
  /\ \A h \in Handles : IF places[h].head = NoHead THEN places[h] = Empty
                        ELSE places[h].head \in Heads /\ places[h].by \in Takers

\* Somebody owns m: a place, the extensions of a message, or the one that is dropping it.
Owned(m, hd, places, dropped) ==
  \/ \E h \in Handles : places[h].head = m
  \/ \E n \in Heads : hd[n].holds = m
  \/ dropped = m

\* The pool's heads are nobody's, each is there once, and a response gave up its extensions.
PoolOK(hd, places, pool, dropped) ==
  /\ IsInjective(pool)
  /\ \A i \in DOMAIN pool :
       /\ ~Owned(pool[i], hd, places, dropped)
       /\ family = "response" => hd[pool[i]].extensions = {} /\ hd[pool[i]].holds = NoHead

\* The head of a response has one owner.
OneOwner(hd, places, dropped) ==
  \A m \in Heads : family = "response" =>
    /\ \A h, g \in Handles : places[h].head = m /\ places[g].head = m => h = g
    /\ \A n, k \in Heads : hd[n].holds = m /\ hd[k].holds = m => n = k
    /\ \A h \in Handles, n \in Heads : ~(places[h].head = m /\ hd[n].holds = m)
    /\ dropped = m => (\A h \in Handles : places[h].head # m) /\ (\A n \in Heads : hd[n].holds # m)

\* What a message shows, taken for the exchange tag.
Fresh(r, tag, by) ==
  /\ r.headers \subseteq {tag} /\ r.extensions \subseteq {tag} /\ \A f \in r.flags : f[2] = tag
  /\ by # "new" => r.line = tag
  /\ by = "dispatcher" => r.peer = tag
Shows(hd, places) ==
  \A h \in Handles : places[h].head # NoHead => Fresh(hd[places[h].head], places[h].tag, places[h].by)

Panics(why, hd) ==
  /\ why = "copies" => family = "request"
  /\ why = "borrowed" => \E m \in Heads : hd[m].holds # NoHead

HeadsInv ==
  /\ exchanges \in Seq(Takers) /\ taken \in Nat
  /\ Types(head, holder, headpool, dropping) /\ PoolOK(head, holder, headpool, dropping)
  /\ OneOwner(head, holder, dropping) /\ Shows(head, holder) /\ Panics(panicked, head)
  /\ exchanges = << >> => headpool = << >> /\ panicked = "" /\ \A h \in Handles : holder[h] = Empty

-----------------------------------------------------------------------------
(* Owners *)

LEMMA HeadsFacts ==
  ASSUME HeadsInv
  PROVE  /\ Heads \subseteq Nat \ {0} /\ NoHead \notin Heads /\ IsFiniteSet(Heads) /\ IsFiniteSet(Handles)
         /\ \A tag \in Heads : tag \in Nat /\ exchanges[tag] \in Takers
         /\ Heads # {} => exchanges # << >>
  <1>1. exchanges \in Seq(Takers) /\ Heads = 1 .. Len(exchanges) /\ Len(exchanges) \in Nat
    <2>1. exchanges \in Seq(Takers)
      BY DEF HeadsInv
    <2> QED BY <2>1 DEF Heads
  <1>2. IsFiniteSet(Heads)
    BY <1>1, FS_Interval
  <1>3. \A tag \in Heads : tag \in Nat /\ exchanges[tag] \in Takers
    BY <1>1
  <1>4. Heads # {} => exchanges # << >>
    BY <1>1
  <1> QED BY <1>1, <1>2, <1>3, <1>4, HeadsAssumption DEF NoHead

\* Rc::strong_count is 0 when nobody owns the head, and 1 when only one does.
LEMMA CountFacts ==
  ASSUME HeadsInv, NEW m \in Heads
  PROVE  /\ Count(m) = 0 <=> ~Owned(m, head, holder, dropping)
         /\ Count(m) <= 1 => \A h, g \in Handles : holder[h].head = m /\ holder[g].head = m => h = g
         /\ Count(m) = 1 /\ dropping = m => /\ \A h \in Handles : holder[h].head # m
                                            /\ \A n \in Heads : head[n].holds # m
         /\ family = "response" => Count(m) <= 1
         /\ Count(m) \in Nat
  <1> DEFINE A == {h \in Handles : holder[h].head = m}
             B == {n \in Heads : head[n].holds = m}
  <1>1. PICK a, b, d : a = Cardinality(A) /\ b = Cardinality(B) /\ d = (IF dropping = m THEN 1 ELSE 0)
    OBVIOUS
  <1>2. IsFiniteSet(A) /\ IsFiniteSet(B)
    BY HeadsFacts, FS_Subset
  <1>3. Count(m) = a + b + d
    BY <1>1 DEF Count
  <1> HIDE DEF A, B
  <1>4. a \in Nat /\ b \in Nat /\ d \in {0, 1} /\ (d = 0 <=> dropping # m)
    BY <1>1, <1>2, FS_CardinalityType
  <1>5. (a = 0 <=> A = {}) /\ (b = 0 <=> B = {})
    BY <1>1, <1>2, FS_EmptySet
  <1>6. (a = 1 => \E x : A = {x}) /\ (b = 1 => \E x : B = {x})
    BY <1>1, <1>2, FS_Singleton
  <1>7. (\E x : A = {x}) => a = 1
    BY <1>1, <1>2, FS_Singleton
  <1>8. (\E x : B = {x}) => b = 1
    BY <1>1, <1>2, FS_Singleton
  <1>9. Owned(m, head, holder, dropping) <=> A # {} \/ B # {} \/ dropping = m
    BY DEF Owned, A, B
  <1>10. Count(m) = 0 <=> ~Owned(m, head, holder, dropping)
    BY <1>3, <1>4, <1>5, <1>9
  <1>11. Count(m) <= 1 => \A h, g \in Handles : holder[h].head = m /\ holder[g].head = m => h = g
    <2> SUFFICES ASSUME Count(m) <= 1, NEW h \in Handles, NEW g \in Handles, holder[h].head = m, holder[g].head = m
                 PROVE  h = g
      OBVIOUS
    <2>1. h \in A /\ g \in A
      BY DEF A
    <2>2. a = 1
      BY <1>3, <1>4, <1>5, <2>1
    <2> QED BY <1>6, <2>1, <2>2
  <1>12. Count(m) = 1 /\ dropping = m => A = {} /\ B = {}
    BY <1>3, <1>4, <1>5
  <1>13. family = "response" => Count(m) <= 1
    <2> SUFFICES ASSUME family = "response"
                 PROVE  a + b + d <= 1
      BY <1>3
    <2>1. /\ \A h, g \in Handles : holder[h].head = m /\ holder[g].head = m => h = g
          /\ \A n, k \in Heads : head[n].holds = m /\ head[k].holds = m => n = k
          /\ \A h \in Handles, n \in Heads : ~(holder[h].head = m /\ head[n].holds = m)
          /\ dropping = m => (\A h \in Handles : holder[h].head # m) /\ (\A n \in Heads : head[n].holds # m)
      BY DEF HeadsInv, OneOwner
    <2>2. ASSUME NEW x \in A
          PROVE  A = {x}
      BY <2>1 DEF A
    <2>3. ASSUME NEW x \in B
          PROVE  B = {x}
      BY <2>1 DEF B
    <2>4. ~(A # {} /\ B # {})
      BY <2>1 DEF A, B
    <2>5. dropping = m => A = {} /\ B = {}
      BY <2>1 DEF A, B
    <2>6. a <= 1 /\ b <= 1
      BY <1>4, <1>5, <1>7, <1>8, <2>2, <2>3
    <2> QED BY <1>4, <1>5, <2>4, <2>5, <2>6
  <1> QED BY <1>3, <1>4, <1>10, <1>11, <1>12, <1>13 DEF A, B

-----------------------------------------------------------------------------
(* Steps *)

\* What is left to show of a step of the messages.
LEMMA HeadsKept ==
  ASSUME HeadsInv, exchanges' = exchanges, exchanges # << >>, taken' \in Nat,
         NEW hd, NEW places, NEW pool, NEW dropped, NEW why,
         head' = hd, holder' = places, headpool' = pool, dropping' = dropped, panicked' = why,
         Types(hd, places, pool, dropped), PoolOK(hd, places, pool, dropped), OneOwner(hd, places, dropped),
         Shows(hd, places), Panics(why, hd)
  PROVE  HeadsInv'
  <1>1. Types(hd, places, pool, dropped)' /\ PoolOK(hd, places, pool, dropped)' /\ OneOwner(hd, places, dropped)'
    BY DEF Types, PoolOK, OneOwner, Heads, family, Owned
  <1>2. Shows(hd, places)' /\ Panics(why, hd)'
    BY DEF Panics, Shows, Heads, family
  <1> QED BY <1>1, <1>2 DEF HeadsInv

\* The pool stays as it is when nothing of it gets an owner or is written.
LEMMA PoolKept ==
  ASSUME HeadsInv, NEW hd, NEW places, NEW dropped,
         \A i \in DOMAIN headpool :
           /\ Owned(headpool[i], hd, places, dropped) => Owned(headpool[i], head, holder, dropping)
           /\ hd[headpool[i]].extensions = head[headpool[i]].extensions
           /\ hd[headpool[i]].holds = head[headpool[i]].holds
  PROVE  PoolOK(hd, places, headpool, dropped)
  BY DEF HeadsInv, PoolOK

LEMMA Pooled ==
  ASSUME HeadsInv, NEW i \in DOMAIN headpool
  PROVE  headpool[i] \in Heads /\ ~Owned(headpool[i], head, holder, dropping)
  <1>1. headpool \in Seq(Heads) /\ PoolOK(head, holder, headpool, dropping)
    BY DEF HeadsInv, Types
  <1>2. headpool[i] \in Heads
    BY <1>1
  <1> QED BY <1>1, <1>2 DEF PoolOK

\* A step that writes the head of one place that alone holds it.
LEMMA WriteStep ==
  ASSUME HeadsInv, exchanges' = exchanges, taken' = taken, holder' = holder, headpool' = headpool,
         dropping' = dropping, panicked' = panicked,
         NEW h \in Handles, NEW r \in HeadRecords, holder[h].head # NoHead,
         \A g \in Handles : holder[g].head = holder[h].head => g = h,
         head' = [head EXCEPT ![holder[h].head] = r], r.holds = head[holder[h].head].holds,
         Fresh(r, holder[h].tag, holder[h].by)
  PROVE  HeadsInv'
  <1>1. PICK m : m = holder[h].head
    OBVIOUS
  <1>2. m \in Heads /\ exchanges # << >> /\ head \in [Heads -> HeadRecords] /\ m # NoHead
    BY <1>1, HeadsFacts DEF HeadsInv, Types
  <1>3. PICK hd : hd = [head EXCEPT ![m] = r]
    OBVIOUS
  <1>4. /\ hd \in [Heads -> HeadRecords] /\ hd[m] = r /\ \A n \in Heads \ {m} : hd[n] = head[n]
        /\ \A n \in Heads : hd[n].holds = head[n].holds
    BY <1>1, <1>2, <1>3
  <1>5. Types(hd, holder, headpool, dropping)
    BY <1>4 DEF HeadsInv, Types
  <1>6. PoolOK(hd, holder, headpool, dropping)
    <2>1. ASSUME NEW i \in DOMAIN headpool
          PROVE  /\ Owned(headpool[i], hd, holder, dropping) => Owned(headpool[i], head, holder, dropping)
                 /\ hd[headpool[i]] = head[headpool[i]]
      <3>1. headpool[i] \in Heads \ {m}
        BY <1>1, Pooled DEF Owned
      <3> QED BY <1>4, <3>1 DEF Owned
    <2> QED BY <2>1, PoolKept
  <1>7. OneOwner(hd, holder, dropping)
    <2>1. OneOwner(head, holder, dropping)
      BY DEF HeadsInv
    <2> QED BY <1>4, <2>1 DEF OneOwner
  <1>8. Shows(hd, holder)
    <2>1. ASSUME NEW g \in Handles, holder[g].head # NoHead
          PROVE  Fresh(hd[holder[g].head], holder[g].tag, holder[g].by)
      <3>1. CASE g = h
        BY <1>1, <1>4, <3>1
      <3>2. CASE g # h
        <4>1. holder[g].head \in Heads \ {m}
          BY <1>1, <2>1, <3>2 DEF HeadsInv, Types
        <4>2. Fresh(head[holder[g].head], holder[g].tag, holder[g].by)
          BY <2>1 DEF HeadsInv, Shows
        <4> QED BY <1>4, <4>1, <4>2
      <3> QED BY <3>1, <3>2
    <2> QED BY <2>1 DEF Shows
  <1>9. Panics(panicked, hd)
    BY <1>4 DEF HeadsInv, Panics
  <1>10. taken' \in Nat /\ head' = hd
    BY <1>1, <1>3 DEF HeadsInv
  <1> QED BY <1>2, <1>5, <1>6, <1>7, <1>8, <1>9, <1>10, HeadsKept

LEMMA SetConnectionTypeStep ==
  ASSUME HeadsInv, NEW h \in Handles, NEW type \in ConnectionTypes, SetConnectionType(h, type)
  PROVE  HeadsInv'
  <1>1. PICK m, tag : m = holder[h].head /\ tag = holder[h].tag
    OBVIOUS
  <1>2. /\ exchanges # << >> /\ holder[h] # Empty /\ exchanges' = exchanges /\ taken' = taken /\ holder' = holder
        /\ headpool' = headpool /\ dropping' = dropping
    BY DEF SetConnectionType, Quiet
  <1>3. m # NoHead /\ m \in Heads /\ tag \in Nat
    BY <1>1, <1>2 DEF HeadsInv, Types, Holders
  <1>4. CASE Count(m) > 1
    <2>1. panicked' = "copies" /\ head' = head
      BY <1>1, <1>4 DEF SetConnectionType
    <2>2. family = "request"
      <3>1. family # "response"
        BY <1>3, <1>4, CountFacts
      <3> QED BY <3>1 DEF family
    <2>3. Panics("copies", head)
      BY <2>2 DEF Panics
    <2> QED BY <1>2, <2>1, <2>3, HeadsKept DEF HeadsInv
  <1>5. CASE ~(Count(m) > 1)
    <2>1. panicked' = panicked /\ head' = [head EXCEPT ![m].flags = @ \cup {<<type, tag>>}]
      BY <1>1, <1>5 DEF SetConnectionType
    <2>2. PICK old \in HeadRecords : old = head[m] /\ Fresh(old, tag, holder[h].by)
      BY <1>1, <1>3 DEF HeadsInv, Types, Shows
    <2>3. <<type, tag>> \in Flags
      BY <1>3 DEF Flags
    <2>4. PICK r : r = [old EXCEPT !.flags = @ \cup {<<type, tag>>}]
      OBVIOUS
    <2>5. /\ r \in HeadRecords /\ r.holds = old.holds /\ r.flags = old.flags \cup {<<type, tag>>}
          /\ r.headers = old.headers /\ r.extensions = old.extensions /\ r.line = old.line /\ r.peer = old.peer
      BY <2>3, <2>4 DEF HeadRecords
    <2>6. Fresh(r, tag, holder[h].by)
      BY <2>2, <2>5 DEF Fresh
    <2>7. head' = [head EXCEPT ![m] = r]
      BY <1>3, <2>1, <2>2, <2>4 DEF HeadsInv, Types
    <2>8. Count(m) <= 1
      BY <1>3, <1>5, CountFacts
    <2>9. \A g \in Handles : holder[g].head = m => g = h
      BY <1>1, <1>3, <2>8, CountFacts
    <2>10. /\ r.holds = head[holder[h].head].holds /\ Fresh(r, holder[h].tag, holder[h].by)
           /\ head' = [head EXCEPT ![holder[h].head] = r] /\ holder[h].head # NoHead
           /\ \A g \in Handles : holder[g].head = holder[h].head => g = h
      BY <1>1, <1>3, <2>2, <2>5, <2>6, <2>7, <2>9
    <2> QED BY <1>2, <2>1, <2>5, <2>10, WriteStep
  <1> QED BY <1>4, <1>5

LEMMA WriteVersionStep ==
  ASSUME HeadsInv, NEW h \in Handles, WriteVersion(h)
  PROVE  HeadsInv'
  <1>1. PICK m, tag : m = holder[h].head /\ tag = holder[h].tag
    OBVIOUS
  <1>2. /\ exchanges # << >> /\ holder[h] # Empty /\ exchanges' = exchanges /\ taken' = taken /\ holder' = holder
        /\ headpool' = headpool /\ dropping' = dropping /\ panicked' = panicked /\ family = "response"
        /\ head' = [head EXCEPT ![m].version = tag]
    BY <1>1 DEF WriteVersion, Quiet
  <1>3. m # NoHead /\ m \in Heads /\ tag \in Nat
    BY <1>1, <1>2 DEF HeadsInv, Types, Holders
  <1>4. PICK old \in HeadRecords : old = head[m] /\ Fresh(old, tag, holder[h].by)
    BY <1>1, <1>3 DEF HeadsInv, Types, Shows
  <1>5. PICK r : r = [old EXCEPT !.version = tag]
    OBVIOUS
  <1>6. /\ r \in HeadRecords /\ r.holds = old.holds /\ r.flags = old.flags
        /\ r.headers = old.headers /\ r.extensions = old.extensions /\ r.line = old.line /\ r.peer = old.peer
    BY <1>3, <1>5 DEF HeadRecords
  <1>7. Fresh(r, tag, holder[h].by)
    BY <1>4, <1>6 DEF Fresh
  <1>8. head' = [head EXCEPT ![m] = r]
    BY <1>2, <1>3, <1>4, <1>5 DEF HeadsInv, Types
  <1>9. \A g \in Handles : holder[g].head = m => g = h
    BY <1>1, <1>2, <1>3 DEF HeadsInv, OneOwner
  <1> QED BY <1>1, <1>2, <1>3, <1>4, <1>6, <1>7, <1>8, <1>9, WriteStep, ZenonT(60)

\* Message::clone: a second place for a head that has one.
LEMMA CloneStep ==
  ASSUME HeadsInv, NEW h \in Handles, NEW g \in Handles, CloneMessage(h, g)
  PROVE  HeadsInv'
  <1>1. /\ exchanges # << >> /\ holder[h] # Empty /\ exchanges' = exchanges /\ taken' = taken /\ head' = head
        /\ headpool' = headpool /\ dropping' = dropping /\ panicked' = panicked /\ family = "request"
        /\ holder[g] = Empty /\ holder' = [holder EXCEPT ![g] = holder[h]]
    BY DEF CloneMessage, Quiet
  <1>2. PICK places : places = [holder EXCEPT ![g] = holder[h]]
    OBVIOUS
  <1>3. /\ places \in [Handles -> Holders] /\ places[g] = holder[h]
        /\ \A x \in Handles \ {g} : places[x] = holder[x]
    BY <1>2 DEF HeadsInv, Types
  <1>4. Types(head, places, headpool, dropping)
    BY <1>3, ZenonT(60) DEF HeadsInv, Types
  <1>5. PoolOK(head, places, headpool, dropping)
    <2>1. \A m : Owned(m, head, places, dropping) => Owned(m, head, holder, dropping)
      BY <1>3 DEF Owned
    <2> QED BY <2>1, PoolKept
  <1>6. OneOwner(head, places, dropping)
    BY <1>1 DEF OneOwner
  <1>7. Shows(head, places)
    BY <1>3 DEF HeadsInv, Shows
  <1>8. taken' \in Nat /\ holder' = places /\ Panics(panicked, head)
    BY <1>1, <1>2 DEF HeadsInv
  <1> QED BY <1>1, <1>4, <1>5, <1>6, <1>7, <1>8, HeadsKept

\* A place gives up what it holds.
LEMMA Given ==
  ASSUME HeadsInv, NEW g \in Handles, NEW places, places = [holder EXCEPT ![g] = Empty]
  PROVE  /\ places \in [Handles -> Holders] /\ places[g] = Empty /\ places[g].head = NoHead
         /\ \A x \in Handles \ {g} : places[x] = holder[x]
         /\ \A x \in Handles : IF places[x].head = NoHead THEN places[x] = Empty
                               ELSE places[x].head \in Heads /\ places[x].by \in Takers
  <1>1. Empty \in Holders /\ Empty.head = NoHead
    BY DEF Empty, Holders, NoHead
  <1>2. holder \in [Handles -> Holders]
    BY DEF HeadsInv, Types
  <1>3. /\ places \in [Handles -> Holders] /\ places[g] = Empty /\ places[g].head = NoHead
        /\ \A x \in Handles \ {g} : places[x] = holder[x]
    BY <1>1, <1>2
  <1>4. \A x \in Handles : IF holder[x].head = NoHead THEN holder[x] = Empty
                           ELSE holder[x].head \in Heads /\ holder[x].by \in Takers
    BY DEF HeadsInv, Types
  <1> QED BY <1>3, <1>4

LEMMA DropHandleStep ==
  ASSUME HeadsInv, NEW h \in Handles, DropHandle(h)
  PROVE  HeadsInv'
  <1>1. PICK m : m = holder[h].head
    OBVIOUS
  <1>2. /\ exchanges # << >> /\ holder[h] # Empty /\ exchanges' = exchanges /\ taken' = taken /\ head' = head
        /\ headpool' = headpool /\ dropping' = m /\ panicked' = panicked /\ dropping = NoHead
        /\ holder' = [holder EXCEPT ![h] = Empty]
    BY <1>1 DEF DropHandle, Quiet
  <1>3. m # NoHead /\ m \in Heads
    BY <1>1, <1>2 DEF HeadsInv, Types
  <1>4. PICK places : places = [holder EXCEPT ![h] = Empty]
    OBVIOUS
  <1>5. Types(head, places, headpool, m)
    BY <1>3, <1>4, Given DEF HeadsInv, Types
  <1>6. PoolOK(head, places, headpool, m)
    <2>1. \A n \in Heads : Owned(n, head, places, m) => Owned(n, head, holder, dropping)
      BY <1>1, <1>3, <1>4, Given, HeadsFacts DEF Owned
    <2> QED BY <2>1, Pooled, PoolKept
  <1>7. OneOwner(head, places, m)
    <2>1. /\ OneOwner(head, holder, dropping) /\ places[h].head = NoHead
          /\ \A x \in Handles \ {h} : places[x] = holder[x]
      BY <1>4, Given, ZenonT(60) DEF HeadsInv
    <2>2. \A n \in Heads, x \in Handles : places[x].head = n => x # h /\ holder[x].head = n
      BY <2>1, HeadsFacts
    <2> QED BY <1>1, <1>3, <2>1, <2>2 DEF OneOwner
  <1>8. Shows(head, places)
    BY <1>4, Given DEF HeadsInv, Shows
  <1>9. taken' \in Nat /\ holder' = places /\ Panics(panicked, head)
    BY <1>2, <1>4 DEF HeadsInv
  <1> QED BY <1>2, <1>5, <1>6, <1>7, <1>8, <1>9, HeadsKept

LEMMA InsertExtensionStep ==
  ASSUME HeadsInv, NEW h \in Handles, NEW g \in Handles, InsertExtension(h, g)
  PROVE  HeadsInv'
  <1>1. PICK m, p, q : m = holder[h].head /\ p = holder[g].head /\ q = head[m].holds
    OBVIOUS
  <1>2. /\ exchanges # << >> /\ h # g /\ holder[h] # Empty /\ holder[g] # Empty /\ exchanges' = exchanges
        /\ taken' = taken /\ head' = [head EXCEPT ![m].holds = p] /\ dropping = NoHead
        /\ headpool' = headpool /\ dropping' = q /\ panicked' = panicked
        /\ holder' = [holder EXCEPT ![g] = Empty]
    BY <1>1 DEF InsertExtension, Quiet
  <1>3. m # NoHead /\ m \in Heads /\ p # NoHead /\ p \in Heads /\ p \in Nat /\ q \in Heads \cup {NoHead}
    BY <1>1, <1>2, HeadsFacts DEF HeadsInv, Types
  <1>4. PICK old \in HeadRecords : old = head[m]
    BY <1>3 DEF HeadsInv, Types
  <1>5. PICK r : r = [old EXCEPT !.holds = p]
    OBVIOUS
  <1>6. /\ r \in HeadRecords /\ r.holds = p /\ r.flags = old.flags
        /\ r.headers = old.headers /\ r.extensions = old.extensions /\ r.line = old.line /\ r.peer = old.peer
    BY <1>3, <1>5 DEF HeadRecords
  <1>7. PICK hd : hd = [head EXCEPT ![m] = r]
    OBVIOUS
  <1>8. hd \in [Heads -> HeadRecords] /\ hd[m] = r /\ \A n \in Heads \ {m} : hd[n] = head[n]
    BY <1>3, <1>6, <1>7 DEF HeadsInv, Types
  <1>9. head' = hd
    BY <1>2, <1>3, <1>4, <1>5, <1>7 DEF HeadsInv, Types
  <1>10. PICK places : places = [holder EXCEPT ![g] = Empty]
    OBVIOUS
  <1>11. Types(hd, places, headpool, q)
    <2>1. \A n \in Heads : hd[n].holds \in Heads \cup {NoHead}
      BY <1>3, <1>6, <1>8 DEF HeadsInv, Types
    <2> QED BY <1>3, <1>8, <1>10, <2>1, Given DEF HeadsInv, Types
  <1>12. PoolOK(hd, places, headpool, q)
    <2>1. ASSUME NEW n \in Heads, Owned(n, hd, places, q)
          PROVE  Owned(n, head, holder, dropping)
      <3>1. CASE \E x \in Handles : places[x].head = n
        BY <1>10, <3>1, <2>1, Given, HeadsFacts DEF Owned
      <3>2. CASE \E k \in Heads : hd[k].holds = n
        BY <1>1, <1>6, <1>8, <3>2 DEF Owned
      <3>3. CASE q = n
        BY <1>1, <1>3, <3>3 DEF Owned
      <3> QED BY <2>1, <3>1, <3>2, <3>3 DEF Owned
    <2>2. ASSUME NEW i \in DOMAIN headpool
          PROVE  hd[headpool[i]] = head[headpool[i]]
      <3>1. headpool[i] \in Heads \ {m}
        BY <1>1, Pooled DEF Owned
      <3> QED BY <1>8, <3>1
    <2> QED BY <2>1, <2>2, Pooled, PoolKept
  <1>13. OneOwner(hd, places, q)
    <2>1. /\ OneOwner(head, holder, dropping) /\ places[g].head = NoHead
          /\ \A x \in Handles \ {g} : places[x] = holder[x]
      BY <1>10, Given, ZenonT(60) DEF HeadsInv
    <2> SUFFICES ASSUME NEW n \in Heads, family = "response"
                 PROVE  /\ \A x, y \in Handles : places[x].head = n /\ places[y].head = n => x = y
                        /\ \A x, y \in Heads : hd[x].holds = n /\ hd[y].holds = n => x = y
                        /\ \A x \in Handles, y \in Heads : ~(places[x].head = n /\ hd[y].holds = n)
                        /\ q = n => (\A x \in Handles : places[x].head # n) /\ (\A y \in Heads : hd[y].holds # n)
      BY DEF OneOwner
    <2>2. /\ \A x, y \in Handles : holder[x].head = n /\ holder[y].head = n => x = y
          /\ \A x, y \in Heads : head[x].holds = n /\ head[y].holds = n => x = y
          /\ \A x \in Handles, y \in Heads : ~(holder[x].head = n /\ head[y].holds = n)
      BY <2>1 DEF OneOwner
    <2>3. \A x \in Handles : places[x].head = n => x # g /\ holder[x].head = n
      BY <2>1, HeadsFacts
    <2>4. \A y \in Heads : hd[y].holds = n => IF y = m THEN p = n ELSE head[y].holds = n
      BY <1>6, <1>8
    <2>5. \A x, y \in Handles : places[x].head = n /\ places[y].head = n => x = y
      BY <2>2, <2>3
    <2>6. \A x, y \in Heads : hd[x].holds = n /\ hd[y].holds = n => x = y
      BY <1>1, <2>2, <2>4
    <2>7. \A x \in Handles, y \in Heads : ~(places[x].head = n /\ hd[y].holds = n)
      BY <1>1, <2>2, <2>3, <2>4
    <2>8. q = n => (\A x \in Handles : places[x].head # n) /\ (\A y \in Heads : hd[y].holds # n)
      BY <1>1, <1>3, <2>2, <2>3, <2>4
    <2> QED BY <2>5, <2>6, <2>7, <2>8
  <1>14. Shows(hd, places)
    <2>1. ASSUME NEW x \in Handles, places[x].head # NoHead
          PROVE  Fresh(hd[places[x].head], places[x].tag, places[x].by)
      <3>1. places[x] = holder[x] /\ holder[x].head # NoHead /\ holder[x].head \in Heads
        BY <1>10, <2>1, Given DEF HeadsInv, Types
      <3>2. Fresh(head[holder[x].head], holder[x].tag, holder[x].by)
        BY <3>1 DEF HeadsInv, Shows
      <3>3. CASE holder[x].head = m
        BY <1>4, <1>6, <1>8, <3>1, <3>2, <3>3 DEF Fresh
      <3>4. CASE holder[x].head # m
        BY <1>8, <3>1, <3>2, <3>4
      <3> QED BY <3>3, <3>4
    <2> QED BY <2>1 DEF Shows
  <1>15. Panics(panicked, hd) /\ taken' \in Nat /\ holder' = places
    <2>1. hd[m].holds # NoHead
      BY <1>3, <1>6, <1>8
    <2> QED BY <1>2, <1>3, <1>10, <2>1 DEF HeadsInv, Panics
  <1> QED BY <1>2, <1>9, <1>11, <1>12, <1>13, <1>14, <1>15, HeadsKept

\* What is written into a head that was cleared.
LEMMA FilledFacts ==
  ASSUME NEW f \in HeadRecords, f.headers = {}, f.flags = {}, f.extensions = {}, NEW tag \in Nat, NEW by \in Takers
  PROVE  Filled(f, tag, by) \in HeadRecords /\ Filled(f, tag, by).holds = f.holds /\ Fresh(Filled(f, tag, by), tag, by)
  <1>1. PICK r : r = Filled(f, tag, by)
    OBVIOUS
  <1>2. <<"close", tag>> \in Flags
    BY DEF Flags
  <1>3. PICK flags \in SUBSET Flags : flags = {<<"close", tag>>} /\ \A x \in flags : x[2] = tag
    <2>1. {<<"close", tag>>} \in SUBSET Flags /\ \A x \in {<<"close", tag>>} : x[2] = tag
      BY <1>2
    <2> QED BY <2>1
  <1>4. f.flags \cup {<<"close", tag>>} = flags /\ f.extensions \cup {tag} = {tag} /\ {tag} \in SUBSET Nat
    BY <1>3
  <1>5. CASE by = "dispatcher"
    <2>1. r = [f EXCEPT !.line = tag, !.headers = {tag}, !.flags = flags, !.peer = tag, !.extensions = {tag}]
      BY <1>1, <1>4, <1>5 DEF Filled
    <2>2. /\ r \in HeadRecords /\ r.holds = f.holds /\ r.line = tag /\ r.headers = {tag} /\ r.flags = flags
          /\ r.peer = tag /\ r.extensions = {tag}
      BY <1>4, <2>1 DEF HeadRecords
    <2> QED BY <1>1, <1>3, <2>2 DEF Fresh
  <1>6. CASE by = "one request"
    <2>1. r = [f EXCEPT !.line = tag, !.headers = {tag}, !.flags = flags]
      BY <1>1, <1>4, <1>6 DEF Filled
    <2>2. /\ r \in HeadRecords /\ r.holds = f.holds /\ r.line = tag /\ r.headers = {tag} /\ r.flags = flags
          /\ r.extensions = {}
      BY <1>4, <2>1 DEF HeadRecords
    <2> QED BY <1>1, <1>3, <1>6, <2>2 DEF Fresh
  <1>7. CASE by = "new"
    <2>1. r = f
      BY <1>1, <1>7 DEF Filled
    <2> QED BY <1>1, <1>7, <2>1 DEF Fresh
  <1>8. CASE by = "response"
    <2>1. r = [f EXCEPT !.line = tag]
      BY <1>1, <1>8 DEF Filled
    <2>2. r \in HeadRecords /\ r.holds = f.holds /\ r.line = tag /\ r.headers = {} /\ r.flags = {} /\ r.extensions = {}
      BY <2>1 DEF HeadRecords
    <2> QED BY <1>1, <1>8, <2>2 DEF Fresh
  <1> QED BY <1>5, <1>6, <1>7, <1>8 DEF Takers

LEMMA DefaultFacts ==
  /\ Default \in HeadRecords /\ Default.headers = {} /\ Default.flags = {} /\ Default.extensions = {}
  /\ Default.holds = NoHead
  BY DEF Default, HeadRecords, NoHead

\* A place takes a head m that nobody owns; of the pool, at most m is gone.
LEMMA TakenOK ==
  ASSUME HeadsInv, exchanges' = exchanges, exchanges # << >>, NEW h \in Handles, NEW m \in Heads, NEW tag \in Nat,
         NEW by \in Takers, holder[h] = Empty, ~Owned(m, head, holder, dropping), dropping = NoHead,
         NEW r \in HeadRecords, r.holds = NoHead, Fresh(r, tag, by),
         NEW pool \in Seq(Heads), IsInjective(pool),
         \A i \in DOMAIN pool : pool[i] # m /\ \E j \in DOMAIN headpool : pool[i] = headpool[j],
         head' = [head EXCEPT ![m] = r], holder' = [holder EXCEPT ![h] = [head |-> m, tag |-> tag, by |-> by]],
         headpool' = pool, taken' = tag, dropping' = dropping, panicked' = panicked, panicked = ""
  PROVE  HeadsInv'
  <1>1. PICK hd, places, p : /\ hd = [head EXCEPT ![m] = r] /\ places = [holder EXCEPT ![h] = p]
                             /\ p = [head |-> m, tag |-> tag, by |-> by]
    OBVIOUS
  <1>2. p \in Holders /\ p.head = m /\ p.tag = tag /\ p.by = by /\ m # NoHead
    BY <1>1, HeadsFacts DEF Holders
  <1>3. /\ hd \in [Heads -> HeadRecords] /\ hd[m] = r /\ \A n \in Heads \ {m} : hd[n] = head[n]
    BY <1>1 DEF HeadsInv, Types
  <1>4. places \in [Handles -> Holders] /\ places[h] = p /\ \A x \in Handles \ {h} : places[x] = holder[x]
    BY <1>1, <1>2 DEF HeadsInv, Types
  <1>5. \A n \in Heads : hd[n].holds = IF n = m THEN NoHead ELSE head[n].holds
    BY <1>3
  <1>6. \A x \in Handles : places[x].head = IF x = h THEN m ELSE holder[x].head
    BY <1>2, <1>4
  <1>7. holder[h].head = NoHead
    <2>1. Empty.head = NoHead
      BY DEF Empty
    <2> QED BY <2>1
  <1>8. \A n \in Heads \ {m} : Owned(n, hd, places, dropping) => Owned(n, head, holder, dropping)
    BY <1>5, <1>6, HeadsFacts DEF Owned
  <1>9. Types(hd, places, pool, dropping)
    <2>1. \A n \in Heads : hd[n].holds \in Heads \cup {NoHead}
      BY <1>5 DEF HeadsInv, Types
    <2>2. \A x \in Handles : IF places[x].head = NoHead THEN places[x] = Empty
                             ELSE places[x].head \in Heads /\ places[x].by \in Takers
      <3>1. \A x \in Handles : IF holder[x].head = NoHead THEN holder[x] = Empty
                               ELSE holder[x].head \in Heads /\ holder[x].by \in Takers
        BY DEF HeadsInv, Types
      <3> QED BY <1>2, <1>4, <3>1
    <2> QED BY <1>3, <1>4, <2>1, <2>2 DEF Types, HeadsInv
  <1>10. PoolOK(hd, places, pool, dropping)
    <2>1. ASSUME NEW i \in DOMAIN pool
          PROVE  /\ ~Owned(pool[i], hd, places, dropping)
                 /\ family = "response" => hd[pool[i]].extensions = {} /\ hd[pool[i]].holds = NoHead
      <3>1. PICK j \in DOMAIN headpool : pool[i] = headpool[j] /\ pool[i] # m
        OBVIOUS
      <3>2. /\ headpool[j] \in Heads \ {m} /\ ~Owned(headpool[j], head, holder, dropping)
            /\ family = "response" => head[headpool[j]].extensions = {} /\ head[headpool[j]].holds = NoHead
        BY <3>1, Pooled DEF HeadsInv, PoolOK
      <3> QED BY <1>3, <1>8, <3>1, <3>2
    <2> QED BY <2>1 DEF PoolOK
  <1>11. OneOwner(hd, places, dropping)
    <2> SUFFICES ASSUME NEW n \in Heads, family = "response"
                 PROVE  /\ \A x, y \in Handles : places[x].head = n /\ places[y].head = n => x = y
                        /\ \A x, y \in Heads : hd[x].holds = n /\ hd[y].holds = n => x = y
                        /\ \A x \in Handles, y \in Heads : ~(places[x].head = n /\ hd[y].holds = n)
                        /\ dropping = n => /\ \A x \in Handles : places[x].head # n
                                           /\ \A y \in Heads : hd[y].holds # n
      BY DEF OneOwner
    <2>1. /\ \A x, y \in Handles : holder[x].head = n /\ holder[y].head = n => x = y
          /\ \A x, y \in Heads : head[x].holds = n /\ head[y].holds = n => x = y
          /\ \A x \in Handles, y \in Heads : ~(holder[x].head = n /\ head[y].holds = n)
          /\ dropping # n /\ n # NoHead
      BY HeadsFacts DEF HeadsInv, OneOwner
    <2>2. (\A x \in Handles : holder[x].head # m) /\ (\A y \in Heads : head[y].holds # m)
      BY DEF Owned
    <2>3. \A x \in Handles : places[x].head = n => IF x = h THEN n = m ELSE holder[x].head = n
      BY <1>6
    <2>4. \A y \in Heads : hd[y].holds = n => head[y].holds = n
      BY <1>5, <2>1
    <2> QED BY <2>1, <2>2, <2>3, <2>4, ZenonT(60)
  <1>12. Shows(hd, places)
    <2>1. ASSUME NEW x \in Handles, places[x].head # NoHead
          PROVE  Fresh(hd[places[x].head], places[x].tag, places[x].by)
      <3>1. CASE x = h
        BY <1>2, <1>3, <1>4, <3>1
      <3>2. CASE x # h
        <4>1. /\ places[x] = holder[x] /\ holder[x].head # NoHead /\ holder[x].head \in Heads
              /\ holder[x].head # m
          BY <1>4, <2>1, <3>2 DEF HeadsInv, Types, Owned
        <4>2. Fresh(head[holder[x].head], holder[x].tag, holder[x].by)
          BY <4>1 DEF HeadsInv, Shows
        <4> QED BY <1>3, <4>1, <4>2
      <3> QED BY <3>1, <3>2
    <2> QED BY <2>1 DEF Shows
  <1>13. Panics(panicked, hd)
    BY DEF Panics
  <1> QED BY <1>1, <1>9, <1>10, <1>11, <1>12, <1>13, HeadsKept

\* The head that get_message makes is the first that is not in use.
LEMMA SmallestOf ==
  ASSUME NEW S \in SUBSET Nat, S # {}
  PROVE  \E x \in S : \A y \in S : x <= y
  <1>1. PICK R : R = OpToRel(<, Nat) /\ IsWellFoundedOn(R, Nat)
    BY NatLessThanWellFounded
  <1>2. PICK x \in S : \A y \in S : <<y, x>> \notin R
    BY <1>1, WFMin
  <1>3. \A y \in S : ~(y < x)
    BY <1>1, <1>2 DEF OpToRel
  <1> QED BY <1>3

\* get_message.
LEMMA TakeStep ==
  ASSUME HeadsInv, NEW h \in Handles, NEW tag \in Heads, Take(h, tag, exchanges[tag])
  PROVE  HeadsInv'
  <1>1. PICK by \in Takers : by = exchanges[tag]
    BY HeadsFacts
  <1>2. /\ exchanges # << >> /\ holder[h] = Empty /\ exchanges' = exchanges /\ taken' = tag /\ tag \in Nat
        /\ dropping = NoHead /\ dropping' = dropping /\ panicked = ""
    BY HeadsFacts DEF Take, Quiet
  <1>3. headpool \in Seq(Heads) /\ IsInjective(headpool)
    BY DEF HeadsInv, Types, PoolOK
  <1>4. CASE headpool = << >>
    <2>1. PICK m : m = CHOOSE x \in Unused : \A y \in Unused : x <= y
      OBVIOUS
    <2>2. /\ Unused # {} /\ head' = [head EXCEPT ![m] = Filled(Default, tag, by)]
          /\ holder' = [holder EXCEPT ![h] = [head |-> m, tag |-> tag, by |-> by]]
          /\ headpool' = headpool /\ panicked' = panicked
      BY <1>1, <1>4, <2>1 DEF Take
    <2>3. m \in Unused
      <3>1. Unused \subseteq Nat
        BY HeadsFacts DEF Unused
      <3>2. \E x \in Unused : \A y \in Unused : x <= y
        BY <2>2, <3>1, SmallestOf
      <3> QED BY <2>1, <3>2
    <2>4. m \in Heads /\ ~Owned(m, head, holder, dropping)
      BY <2>3, CountFacts DEF Unused
    <2>5. PICK r \in HeadRecords : r = Filled(Default, tag, by) /\ r.holds = NoHead /\ Fresh(r, tag, by)
      BY <1>2, DefaultFacts, FilledFacts
    <2>6. \A i \in DOMAIN headpool : headpool[i] # m /\ \E j \in DOMAIN headpool : headpool[i] = headpool[j]
      BY <1>4
    <2> QED BY <1>2, <1>3, <2>2, <2>4, <2>5, <2>6, TakenOK
  <1>5. CASE headpool # << >>
    <2>1. PICK m : m = Last(headpool)
      OBVIOUS
    <2>2. Len(headpool) \in DOMAIN headpool /\ Len(headpool) \in Nat /\ m = headpool[Len(headpool)]
      BY <1>3, <1>5, <2>1 DEF Last
    <2>3. m \in Heads /\ ~Owned(m, head, holder, dropping)
      BY <2>2, Pooled
    <2>4. CASE head[m].holds # NoHead /\ Count(head[m].holds) = 1
      <3>1. panicked' = "borrowed" /\ head' = head /\ holder' = holder /\ headpool' = headpool
        BY <1>5, <2>1, <2>4 DEF Take
      <3>2. Panics("borrowed", head)
        BY <2>3, <2>4 DEF Panics
      <3>3. /\ Types(head, holder, headpool, dropping) /\ PoolOK(head, holder, headpool, dropping)
            /\ OneOwner(head, holder, dropping) /\ Shows(head, holder)
        BY DEF HeadsInv
      <3> QED BY <1>2, <3>1, <3>2, <3>3, HeadsKept
    <2>5. CASE ~(head[m].holds # NoHead /\ Count(head[m].holds) = 1)
      <3>1. /\ headpool' = Front(headpool) /\ head' = [head EXCEPT ![m] = Filled(Clear(m), tag, by)]
            /\ holder' = [holder EXCEPT ![h] = [head |-> m, tag |-> tag, by |-> by]] /\ panicked' = panicked
        BY <1>1, <1>5, <2>1, <2>5 DEF Take
      <3>2. PICK old \in HeadRecords : /\ old = head[m]
                                       /\ family = "response" => old.extensions = {} /\ old.holds = NoHead
        BY <2>2, <2>3 DEF HeadsInv, Types, PoolOK
      <3>3. PICK f : f = Clear(m)
        OBVIOUS
      <3>4. f \in HeadRecords /\ f.headers = {} /\ f.flags = {} /\ f.extensions = {} /\ f.holds = NoHead
        <4>1. CASE family = "request"
          <5>1. f = [old EXCEPT !.headers = {}, !.flags = {}, !.extensions = {}, !.holds = NoHead]
            BY <3>2, <3>3, <4>1 DEF Clear
          <5> QED BY <5>1 DEF HeadRecords, NoHead
        <4>2. CASE family # "request"
          <5>1. f = [old EXCEPT !.headers = {}, !.flags = {}] /\ family = "response"
            BY <3>2, <3>3, <4>2 DEF Clear, family
          <5> QED BY <3>2, <5>1 DEF HeadRecords
        <4> QED BY <4>1, <4>2
      <3>5. PICK r \in HeadRecords : r = Filled(Clear(m), tag, by) /\ r.holds = NoHead /\ Fresh(r, tag, by)
        BY <1>2, <3>3, <3>4, FilledFacts
      <3>6. PICK pool : pool = Front(headpool)
        OBVIOUS
      <3>7. /\ pool \in Seq(Heads) /\ Len(pool) = Len(headpool) - 1
            /\ \A i \in 1 .. Len(headpool) - 1 : pool[i] = headpool[i]
        <4>1. pool = SubSeq(headpool, 1, Len(headpool) - 1)
          BY <3>6 DEF Front
        <4>2. PICK n \in Nat : n = Len(headpool) - 1
          BY <1>3, <2>2
        <4>3. PICK s \in Seq(Heads) : s = headpool
          BY <1>3
        <4>4. n <= Len(s)
          BY <4>2, <4>3
        <4>5. /\ SubSeq(s, 1, n) \in Seq(Heads) /\ Len(SubSeq(s, 1, n)) = n
              /\ \A i \in 1 .. n : SubSeq(s, 1, n)[i] = s[i]
          BY <4>4
        <4> QED BY <4>1, <4>2, <4>3, <4>5
      <3>8. DOMAIN pool = 1 .. Len(headpool) - 1 /\ DOMAIN headpool = 1 .. Len(headpool)
        BY <1>3, <3>7
      <3>9. \A i, j \in DOMAIN headpool : headpool[i] = headpool[j] => i = j
        BY <1>3 DEF IsInjective
      <3>10. IsInjective(pool)
        BY <2>2, <3>7, <3>8, <3>9 DEF IsInjective
      <3>11. \A i \in DOMAIN pool : pool[i] # m /\ \E j \in DOMAIN headpool : pool[i] = headpool[j]
        BY <2>2, <3>7, <3>8, <3>9
      <3> QED BY <1>2, <2>3, <3>1, <3>5, <3>6, <3>7, <3>10, <3>11, TakenOK, ZenonT(60)
    <2> QED BY <2>4, <2>5
  <1> QED BY <1>4, <1>5

\* Whoever owns something after Drop owned it before: the head that is put back or freed
\* has no other owner.
LEMMA DropStep ==
  ASSUME HeadsInv, Drop
  PROVE  HeadsInv'
  <1>1. PICK m, held : m = dropping /\ held = head[m].holds
    OBVIOUS
  <1>2. /\ m # NoHead /\ exchanges' = exchanges /\ taken' = taken /\ holder' = holder /\ panicked = ""
    BY <1>1 DEF Drop
  <1>3. m \in Heads /\ exchanges # << >> /\ taken' \in Nat /\ held \in Heads \cup {NoHead}
    BY <1>1, <1>2, HeadsFacts DEF HeadsInv, Types
  <1>4. /\ Types(head, holder, headpool, dropping) /\ PoolOK(head, holder, headpool, dropping)
        /\ OneOwner(head, holder, dropping) /\ Shows(head, holder)
    BY DEF HeadsInv
  <1>5. PICK old \in HeadRecords : old = head[m]
    BY <1>3, <1>4 DEF Types
  <1>6. \A n \in Heads : Owned(n, head, holder, NoHead) => Owned(n, head, holder, dropping)
    BY HeadsFacts DEF Owned
  <1>7. OneOwner(head, holder, NoHead)
    BY <1>4, HeadsFacts DEF OneOwner
  <1>8. ASSUME dropping' = NoHead, head' = head, headpool' = headpool, panicked' \in {"", "borrowed"},
               panicked' = "borrowed" => held # NoHead
        PROVE  HeadsInv'
    <2>1. PoolOK(head, holder, headpool, NoHead)
      BY <1>6, Pooled, PoolKept
    <2>2. Types(head, holder, headpool, NoHead)
      BY <1>4 DEF Types
    <2>3. PICK why : why = panicked'
      OBVIOUS
    <2>4. Panics(why, head)
      BY <1>1, <1>3, <1>8, <2>3 DEF Panics
    <2> QED BY <1>2, <1>3, <1>4, <1>7, <1>8, <2>1, <2>2, <2>3, <2>4, HeadsKept
  <1>9. ASSUME Count(m) = 1
        PROVE  /\ \A h \in Handles : holder[h].head # m
               /\ \A n \in Heads : head[n].holds # m
               /\ ~Owned(m, head, holder, NoHead)
    BY <1>1, <1>2, <1>3, <1>9, CountFacts DEF Owned
  <1>10. ASSUME Count(m) = 1, dropping' = NoHead, headpool' = Append(headpool, m), panicked' = panicked,
                NEW r \in HeadRecords, r.holds = old.holds, head' = [head EXCEPT ![m] = r],
                family = "response" => r.extensions = {} /\ r.holds = NoHead
         PROVE  HeadsInv'
    <2>1. PICK hd : hd = [head EXCEPT ![m] = r]
      OBVIOUS
    <2>2. /\ hd \in [Heads -> HeadRecords] /\ hd[m] = r /\ \A n \in Heads \ {m} : hd[n] = head[n]
          /\ \A n \in Heads : hd[n].holds = head[n].holds
      BY <1>3, <1>4, <1>5, <1>10, <2>1 DEF Types
    <2>3. PICK s \in Seq(Heads) : s = headpool
      BY <1>4 DEF Types
    <2>4. PICK pool : pool = Append(s, m)
      OBVIOUS
    <2>5. /\ pool \in Seq(Heads) /\ DOMAIN pool = 1 .. Len(s) + 1 /\ DOMAIN s = 1 .. Len(s) /\ Len(s) \in Nat
          /\ pool[Len(s) + 1] = m /\ \A i \in 1 .. Len(s) : pool[i] = s[i]
      BY <1>3, <2>4
    <2>6. \A i \in 1 .. Len(s) : s[i] # m /\ s[i] \in Heads
      BY <1>1, <2>3, <2>5, Pooled DEF Owned
    <2>7. Types(hd, holder, pool, NoHead)
      BY <1>4, <2>2, <2>5 DEF Types
    <2>8. PoolOK(hd, holder, pool, NoHead)
      <3>1. \A i, j \in 1 .. Len(s) : s[i] = s[j] => i = j
        BY <1>4, <2>3, <2>5 DEF PoolOK, IsInjective
      <3>2. IsInjective(pool)
        BY <2>5, <2>6, <3>1 DEF IsInjective
      <3>3. ASSUME NEW n \in Heads
            PROVE  Owned(n, hd, holder, NoHead) <=> Owned(n, head, holder, NoHead)
        BY <2>2 DEF Owned
      <3>4. ASSUME NEW i \in DOMAIN pool
            PROVE  /\ ~Owned(pool[i], hd, holder, NoHead)
                   /\ family = "response" => hd[pool[i]].extensions = {} /\ hd[pool[i]].holds = NoHead
        <4>1. CASE i = Len(s) + 1
          BY <1>3, <1>9, <1>10, <2>2, <2>5, <3>3, <4>1
        <4>2. CASE i # Len(s) + 1
          <5>1. i \in DOMAIN headpool /\ pool[i] = headpool[i] /\ headpool[i] \in Heads \ {m}
            BY <2>3, <2>5, <2>6, <4>2
          <5>2. /\ ~Owned(headpool[i], head, holder, NoHead)
                /\ family = "response" => head[headpool[i]].extensions = {} /\ head[headpool[i]].holds = NoHead
            BY <1>4, <1>6, <5>1 DEF PoolOK
          <5> QED BY <2>2, <3>3, <5>1, <5>2
        <4> QED BY <4>1, <4>2
      <3> QED BY <3>2, <3>4 DEF PoolOK
    <2>9. OneOwner(hd, holder, NoHead)
      BY <1>7, <2>2 DEF OneOwner
    <2>10. Shows(hd, holder)
      <3>1. \A h \in Handles : holder[h].head # NoHead => hd[holder[h].head] = head[holder[h].head]
        BY <1>4, <1>9, <1>10, <2>2 DEF Types
      <3> QED BY <1>4, <3>1 DEF Shows
    <2>11. Panics("", hd) /\ panicked' = "" /\ head' = hd /\ headpool' = pool
      BY <1>2, <1>10, <2>1, <2>3, <2>4 DEF Panics
    <2> QED BY <1>2, <1>3, <1>10, <2>7, <2>8, <2>9, <2>10, <2>11, HeadsKept
  <1>11. ASSUME Count(m) = 1, dropping' = held, headpool' = headpool, panicked' = panicked,
                head' = [head EXCEPT ![m] = Default]
         PROVE  HeadsInv'
    <2>1. PICK hd : hd = [head EXCEPT ![m] = Default]
      OBVIOUS
    <2>2. /\ hd \in [Heads -> HeadRecords] /\ hd[m] = Default /\ \A n \in Heads \ {m} : hd[n] = head[n]
          /\ \A n \in Heads : hd[n].holds = IF n = m THEN NoHead ELSE head[n].holds
      BY <1>3, <1>4, <2>1, DefaultFacts DEF Types
    <2>3. Types(hd, holder, headpool, held)
      BY <1>3, <1>4, <2>2 DEF Types
    <2>4. PoolOK(hd, holder, headpool, held)
      <3>1. ASSUME NEW n \in Heads, Owned(n, hd, holder, held)
            PROVE  Owned(n, head, holder, dropping)
        BY <1>1, <1>3, <2>2, <3>1, HeadsFacts DEF Owned
      <3>2. \A i \in DOMAIN headpool : headpool[i] \in Heads \ {m}
        BY <1>1, Pooled DEF Owned
      <3>3. \A i \in DOMAIN headpool : hd[headpool[i]] = head[headpool[i]]
        BY <2>2, <3>2
      <3> QED BY <3>1, <3>2, <3>3, PoolKept
    <2>5. OneOwner(hd, holder, held)
      <3> SUFFICES ASSUME NEW n \in Heads, family = "response"
                   PROVE  /\ \A x, y \in Handles : holder[x].head = n /\ holder[y].head = n => x = y
                          /\ \A x, y \in Heads : hd[x].holds = n /\ hd[y].holds = n => x = y
                          /\ \A x \in Handles, y \in Heads : ~(holder[x].head = n /\ hd[y].holds = n)
                          /\ held = n => /\ \A x \in Handles : holder[x].head # n
                                         /\ \A y \in Heads : hd[y].holds # n
        BY DEF OneOwner
      <3>1. /\ \A x, y \in Handles : holder[x].head = n /\ holder[y].head = n => x = y
            /\ \A x, y \in Heads : head[x].holds = n /\ head[y].holds = n => x = y
            /\ \A x \in Handles, y \in Heads : ~(holder[x].head = n /\ head[y].holds = n)
            /\ n # NoHead
        BY <1>4, HeadsFacts DEF OneOwner
      <3>2. \A y \in Heads : hd[y].holds = n => y # m /\ head[y].holds = n
        BY <2>2, <3>1
      <3> QED BY <1>1, <1>3, <3>1, <3>2
    <2>6. Shows(hd, holder)
      <3>1. \A h \in Handles : holder[h].head # NoHead => hd[holder[h].head] = head[holder[h].head]
        BY <1>4, <1>9, <1>11, <2>2 DEF Types
      <3> QED BY <1>4, <3>1 DEF Shows
    <2>7. Panics("", hd) /\ panicked' = "" /\ head' = hd
      BY <1>2, <1>11, <2>1 DEF Panics
    <2> QED BY <1>2, <1>3, <1>11, <2>3, <2>4, <2>5, <2>6, <2>7, HeadsKept
  <1>12. CASE Count(m) > 1 /\ dropping' = NoHead /\ UNCHANGED <<head, headpool, panicked>>
    BY <1>2, <1>8, <1>12
  <1>13. CASE /\ Count(m) = 1 /\ headpool' = Append(headpool, m) /\ dropping' = NoHead /\ UNCHANGED <<head, panicked>>
              /\ family = "request"
    <2>1. head' = [head EXCEPT ![m] = old] /\ family # "response"
      BY <1>3, <1>4, <1>5, <1>13 DEF Types
    <2> QED BY <1>10, <1>13, <2>1
  <1>14. CASE held # NoHead /\ panicked' = "borrowed" /\ UNCHANGED <<head, headpool>> /\ dropping' = NoHead
    BY <1>8, <1>14
  <1>15. CASE /\ Count(m) = 1 /\ held = NoHead /\ headpool' = Append(headpool, m)
              /\ head' = [head EXCEPT ![m].extensions = {}] /\ UNCHANGED panicked /\ dropping' = NoHead
    <2>1. PICK r : r = [old EXCEPT !.extensions = {}]
      OBVIOUS
    <2>2. r \in HeadRecords /\ r.holds = old.holds /\ r.extensions = {}
      BY <2>1 DEF HeadRecords
    <2>3. head' = [head EXCEPT ![m] = r] /\ old.holds = NoHead
      BY <1>1, <1>3, <1>4, <1>5, <1>15, <2>1 DEF Types
    <2> QED BY <1>10, <1>15, <2>2, <2>3
  <1>16. CASE /\ Count(m) = 1 /\ head' = [head EXCEPT ![m] = Default] /\ dropping' = held
              /\ UNCHANGED <<headpool, panicked>>
    BY <1>11, <1>16
  <1> QED BY <1>1, <1>12, <1>13, <1>14, <1>15, <1>16 DEF Drop

LEMMA NoMessages ==
  << >> \in Seq(Heads) /\ IsInjective(<< >>) /\ \A i \in DOMAIN << >> : FALSE
  <1>1. << >> \in Seq(Heads)
    OBVIOUS
  <1>2. \A i \in DOMAIN << >> : FALSE
    OBVIOUS
  <1> QED BY <1>1, <1>2 DEF IsInjective

LEMMA EmptyFacts ==
  Empty \in Holders /\ Empty.head = NoHead
  BY DEF Empty, Holders, NoHead

LEMMA CreateStep ==
  ASSUME HeadsInv, NEW s \in Exchanges, Create(s)
  PROVE  HeadsInv'
  <1>1. /\ exchanges = << >> /\ exchanges' = s /\ head' = [m \in DOMAIN s |-> Default] /\ taken' = taken
        /\ holder' = holder /\ headpool' = headpool /\ dropping' = dropping /\ panicked' = panicked
    BY DEF Create
  <1>2. /\ headpool' = << >> /\ panicked' = "" /\ \A h \in Handles : holder'[h] = Empty
        /\ taken' \in Nat /\ holder' \in [Handles -> Holders] /\ dropping \in Heads \cup {NoHead}
    BY <1>1 DEF HeadsInv, Types
  <1>3. dropping' = NoHead
    BY <1>1, <1>2, HeadsFacts
  <1>4. s \in Seq(Takers) /\ Heads' = DOMAIN s /\ NoHead \notin Heads'
    <2>1. s \in Seq(Takers)
      BY ExchangesAssumption
    <2>2. DOMAIN s = 1 .. Len(s) /\ 0 \notin 1 .. Len(s)
      BY <2>1
    <2> QED BY <1>1, <2>1, <2>2 DEF Heads, NoHead
  <1>5. \A h \in Handles : holder'[h].head = NoHead
    BY <1>2, EmptyFacts
  <1>6. head' \in [Heads' -> HeadRecords] /\ \A m \in Heads' : head'[m].holds = NoHead
    BY <1>1, <1>4, DefaultFacts
  <1>7. << >> \in Seq(Heads') /\ \A i \in DOMAIN << >> : FALSE
    BY NoMessages
  <1>8. Types(head, holder, headpool, dropping)'
    BY <1>2, <1>3, <1>5, <1>6, <1>7 DEF Types
  <1>9. PoolOK(head, holder, headpool, dropping)'
    BY <1>2, NoMessages DEF PoolOK
  <1>10. OneOwner(head, holder, dropping)'
    BY <1>3, <1>4, <1>5, <1>6 DEF OneOwner
  <1>11. Shows(head, holder)' /\ Panics(panicked, head)'
    BY <1>2, <1>5 DEF Shows, Panics
  <1> QED BY <1>1, <1>2, <1>4, <1>8, <1>9, <1>10, <1>11 DEF HeadsInv

LEMMA HeadsStart ==
  HeadsInit => HeadsInv
  <1> SUFFICES ASSUME HeadsInit
               PROVE  HeadsInv
    OBVIOUS
  <1>1. /\ exchanges = << >> /\ taken = 0 /\ head = << >> /\ holder = [h \in Handles |-> Empty]
        /\ headpool = << >> /\ dropping = NoHead /\ panicked = ""
    BY DEF HeadsInit
  <1>2. exchanges \in Seq(Takers) /\ Heads = {}
    <2>1. << >> \in Seq(Takers)
      OBVIOUS
    <2> QED BY <1>1, <2>1, NoMessages DEF Heads
  <1>3. head \in [Heads -> HeadRecords]
    <2>1. << >> = [m \in {} |-> Default]
      OBVIOUS
    <2> QED BY <1>1, <1>2, <2>1
  <1>4. Types(head, holder, headpool, dropping)
    BY <1>1, <1>2, <1>3, EmptyFacts, NoMessages DEF Types
  <1>5. PoolOK(head, holder, headpool, dropping)
    BY <1>1, NoMessages DEF PoolOK
  <1>6. OneOwner(head, holder, dropping)
    BY <1>2 DEF OneOwner
  <1>7. Shows(head, holder) /\ Panics(panicked, head)
    BY <1>1, EmptyFacts DEF Shows, Panics
  <1> QED BY <1>1, <1>2, <1>4, <1>5, <1>6, <1>7 DEF HeadsInv

LEMMA HeadsStepKeeps ==
  ASSUME HeadsInv, [HeadsNext]_heads
  PROVE  HeadsInv'
  <1>1. ASSUME NEW s \in Exchanges, Create(s)
        PROVE  HeadsInv'
    BY <1>1, CreateStep
  <1>2. ASSUME NEW h \in Handles, NEW tag \in Heads, Take(h, tag, exchanges[tag])
        PROVE  HeadsInv'
    BY <1>2, TakeStep
  <1>3. ASSUME NEW h \in Handles, NEW g \in Handles, CloneMessage(h, g)
        PROVE  HeadsInv'
    BY <1>3, CloneStep
  <1>4. ASSUME NEW h \in Handles, NEW g \in Handles, InsertExtension(h, g)
        PROVE  HeadsInv'
    BY <1>4, InsertExtensionStep
  <1>5. ASSUME NEW h \in Handles, NEW type \in ConnectionTypes, SetConnectionType(h, type)
        PROVE  HeadsInv'
    BY <1>5, SetConnectionTypeStep
  <1>6. ASSUME NEW h \in Handles, WriteVersion(h)
        PROVE  HeadsInv'
    BY <1>6, WriteVersionStep
  <1>7. ASSUME NEW h \in Handles, DropHandle(h)
        PROVE  HeadsInv'
    BY <1>7, DropHandleStep
  <1>8. CASE Drop
    BY <1>8, DropStep
  <1>9. CASE UNCHANGED heads
    <2>1. /\ exchanges' = exchanges /\ taken' = taken /\ head' = head /\ holder' = holder /\ headpool' = headpool
          /\ dropping' = dropping /\ panicked' = panicked
      BY <1>9 DEF heads
    <2>2. Types(head, holder, headpool, dropping)' /\ PoolOK(head, holder, headpool, dropping)'
      BY <2>1 DEF HeadsInv, Types, PoolOK, Heads, family, Owned
    <2>3. OneOwner(head, holder, dropping)'
      <3>1. OneOwner(head, holder, dropping)
        BY DEF HeadsInv
      <3>2. family' = family /\ Heads' = Heads
        BY <2>1 DEF family, Heads
      <3> QED BY <2>1, <3>1, <3>2 DEF OneOwner
    <2>4. Shows(head, holder)' /\ Panics(panicked, head)'
      <3>1. Shows(head, holder) /\ Panics(panicked, head)
        BY DEF HeadsInv
      <3>2. Shows(head, holder)'
        BY <2>1, <3>1 DEF Shows
      <3> QED BY <2>1, <3>1, <3>2 DEF Panics, Heads, family
    <2> QED BY <2>1, <2>2, <2>3, <2>4 DEF HeadsInv
  <1> QED BY <1>1, <1>2, <1>3, <1>4, <1>5, <1>6, <1>7, <1>8, <1>9 DEF HeadsNext

\* Whatever is taken, cloned, put into extensions and dropped, of any number of exchanges,
\* a head in the pool (MessagePool, BoxedResponsePool) is nobody's and is there once, a
\* message shows what belongs to its own exchange, and a panic of a pool has one of
\* the two causes named in HeadsAreFresh.
THEOREM HeadsStayFresh == HeadsSpec => []HeadsAreFresh
  <1>1. HeadsInv => HeadsAreFresh
    <2> SUFFICES ASSUME HeadsInv
                 PROVE  HeadsAreFresh
      OBVIOUS
    <2>1. IsInjective(headpool)
      BY DEF HeadsInv, PoolOK
    <2>2. \A i \in DOMAIN headpool : Count(headpool[i]) = 0
      BY Pooled, CountFacts
    <2>3. ASSUME NEW h \in Handles, holder[h] # Empty
          PROVE  LET m == head[holder[h].head]
                     own == {holder[h].tag}
                 IN  /\ m.headers \subseteq own /\ m.extensions \subseteq own /\ {f[2] : f \in m.flags} \subseteq own
                     /\ holder[h].by # "new" => m.line = holder[h].tag
                     /\ holder[h].by = "dispatcher" => m.peer = holder[h].tag
                     /\ m.flags = {} => ConnectionType(holder[h].head) = "by version"
      <3>1. holder[h].head # NoHead
        BY <2>3 DEF HeadsInv, Types
      <3>2. Fresh(head[holder[h].head], holder[h].tag, holder[h].by)
        BY <3>1 DEF HeadsInv, Shows
      <3>3. head[holder[h].head].flags = {} => ConnectionType(holder[h].head) = "by version"
        BY DEF ConnectionType
      <3> QED BY <3>2, <3>3 DEF Fresh
    <2>4. /\ panicked = "copies" => family = "request"
          /\ panicked = "borrowed" => \E m \in Heads : head[m].holds # NoHead
      BY DEF HeadsInv, Panics
    <2> QED BY <2>1, <2>2, <2>3, <2>4 DEF HeadsAreFresh
  <1> QED BY <1>1, HeadsStart, HeadsStepKeeps, PTL DEF HeadsSpec

-----------------------------------------------------------------------------
(* CookieJar *)

\* Induction over the numbers, stated for the set of those it is shown for.
LEMMA CountUp ==
  ASSUME NEW S, 0 \in S, \A n \in Nat : n \in S => n + 1 \in S
  PROVE  Nat \subseteq S
  <1> SUFFICES ASSUME NEW m \in Nat, m \notin S
               PROVE  FALSE
    OBVIOUS
  <1> DEFINE Missing == {k \in 0..m : k \notin S}
             Below == {0..k : k \in Missing}
             R == StrictSubsetOrdering(0..m)
  <1>1. IsWellFoundedOn(R, FiniteSubsetsOf(0..m))
    BY FS_StrictSubsetOrderingWellFounded
  <1>2. FiniteSubsetsOf(0..m) = SUBSET (0..m)
    <2>1. IsFiniteSet(0..m)
      BY FS_Interval
    <2> QED BY <2>1, FS_FiniteSubsetsOfFinite
  <1>3. Below \subseteq SUBSET (0..m)
    OBVIOUS
  <1>4. 0..m \in Below
    OBVIOUS
  <1> HIDE DEF R, Below
  <1>5. PICK x \in Below : \A y \in Below : <<y, x>> \notin R
    <2>1. IsWellFoundedOn(R, SUBSET (0..m)) /\ Below # {}
      BY <1>1, <1>2, <1>4
    <2> QED BY <2>1, <1>3, WFMin
  <1>6. PICK k \in Missing : x = 0..k
    BY <1>5 DEF Below
  <1>7. k - 1 \in Missing
    OBVIOUS
  <1>8. 0..(k - 1) \in Below
    BY <1>7 DEF Below
  <1>9. 0..(k - 1) \subseteq 0..k /\ 0..(k - 1) # 0..k
    <2>1. k \in Nat /\ k \in 0..k /\ k \notin 0..(k - 1)
      OBVIOUS
    <2> QED BY <2>1
  <1>10. <<0..(k - 1), 0..k>> \in R
    BY <1>9, <1>7, <1>3, <1>8, <1>6, <1>5 DEF R, StrictSubsetOrdering
  <1> QED BY <1>5, <1>6, <1>8, <1>10

\* The only header of a name in a list, and a name without one.
Absent(list, n)  == \A k \in 1..Len(list) : list[k].name # n
Only(list, n, d) ==
  \E k \in 1..Len(list) :
    list[k] = d /\ d.name = n /\ \A j \in 1..Len(list) : list[j].name = n => j = k
Once(list, n) == Absent(list, n) \/ \E d : Only(list, n, d)

\* List l has the headers of list v and header d; once list l, for every name.
Has(list, d) == \E j \in 1..Len(list) : list[j] = d
Added1(v, d, l) ==
  /\ Len(l) = Len(v) + 1
  /\ \A e : Has(v, e) \/ e = d => Has(l, e)
  /\ \A n : Absent(l, n) => Absent(v, n) /\ d.name # n
  /\ \A n : Absent(v, n) /\ d.name # n => Absent(l, n)
  /\ \A n, e : Only(l, n, e) => (Only(v, n, e) /\ d.name # n) \/ (Absent(v, n) /\ d.name = n /\ e = d)

\* Places of l and of v correspond, but for the place a of d.
Placed(v, d, l, a, f) ==
  /\ Len(v) \in Nat /\ Len(l) = Len(v) + 1 /\ a \in 1..Len(l) /\ l[a] = d
  /\ \A k \in 1..Len(v) : f[k] \in 1..Len(l) /\ f[k] # a /\ l[f[k]] = v[k]
  /\ \A k, m \in 1..Len(v) : f[k] = f[m] => k = m
  /\ \A j \in 1..Len(l) : j = a \/ \E k \in 1..Len(v) : f[k] = j

LEMMA PlacedAdded ==
  ASSUME NEW v, NEW d, NEW l, NEW a, NEW f, Placed(v, d, l, a, f)
  PROVE  Added1(v, d, l)
  <1>1. ASSUME NEW j \in 1..Len(l)
        PROVE  l[j] = d \/ \E k \in 1..Len(v) : l[j] = v[k]
    <2>1. CASE j = a
      BY <2>1 DEF Placed
    <2>2. CASE j # a
      <3>1. PICK k \in 1..Len(v) : f[k] = j
        BY <2>2 DEF Placed
      <3>2. l[f[k]] = v[k]
        BY DEF Placed
      <3> QED BY <3>1, <3>2
    <2> QED BY <2>1, <2>2
  <1>2. ASSUME NEW n, Absent(l, n)
        PROVE  Absent(v, n) /\ d.name # n
    BY <1>2 DEF Placed, Absent
  <1>3. ASSUME NEW n, Absent(v, n), d.name # n
        PROVE  Absent(l, n)
    BY <1>1, <1>3 DEF Absent
  <1>4. ASSUME NEW n, NEW e, Only(l, n, e)
        PROVE  (Only(v, n, e) /\ d.name # n) \/ (Absent(v, n) /\ d.name = n /\ e = d)
    <2>1. PICK p \in 1..Len(l) : l[p] = e /\ e.name = n /\ \A j \in 1..Len(l) : l[j].name = n => j = p
      BY <1>4 DEF Only
    <2>2. CASE p = a
      <3>1. e = d
        BY <2>1, <2>2 DEF Placed
      <3>2. ASSUME NEW k \in 1..Len(v)
            PROVE  v[k].name # n
        BY <2>1, <2>2 DEF Placed
      <3> QED BY <2>1, <3>1, <3>2 DEF Absent
    <2>3. CASE p # a
      <3>1. d.name # n
        BY <2>1, <2>3 DEF Placed
      <3>2. PICK k \in 1..Len(v) : f[k] = p
        BY <2>3 DEF Placed
      <3>3. v[k] = e
        BY <2>1, <3>2 DEF Placed
      <3>4. ASSUME NEW m \in 1..Len(v), v[m].name = n
            PROVE  m = k
        <4>1. l[f[m]].name = n /\ f[m] \in 1..Len(l)
          BY <3>4 DEF Placed
        <4>2. f[m] = f[k]
          BY <2>1, <3>2, <4>1
        <4> QED BY <4>2 DEF Placed
      <3>5. Only(v, n, e)
        BY <2>1, <3>3, <3>4 DEF Only
      <3> QED BY <3>1, <3>5
    <2> QED BY <2>2, <2>3
  <1>5. ASSUME NEW e, Has(v, e) \/ e = d
        PROVE  Has(l, e)
    BY <1>5 DEF Has, Placed
  <1> QED BY <1>2, <1>3, <1>4, <1>5 DEF Added1, Placed

LEMMA AppendValueAdds ==
  ASSUME NEW A, NEW v \in Seq(A), NEW d \in A
  PROVE  AppendValue(v, d) \in Seq(A) /\ Added1(v, d, AppendValue(v, d))
  <1>1. PICK n \in Nat : n = Len(v)
    OBVIOUS
  <1>2. PICK l : l = AppendValue(v, d)
    OBVIOUS
  <1>3. CASE n = 0
    <2>1. l = <<d>>
      BY <1>1, <1>2, <1>3 DEF AppendValue
    <2>2. l \in Seq(A) /\ Len(l) = 1 /\ l[1] = d
      BY <2>1
    <2>3. Placed(v, d, l, 1, << >>)
      BY <1>1, <1>3, <2>2 DEF Placed
    <2> QED BY <1>2, <2>2, <2>3, PlacedAdded
  <1>4. CASE n = 1
    <2>1. l = <<d, v[1]>>
      BY <1>1, <1>2, <1>4 DEF AppendValue
    <2>2. v[1] \in A
      <3>1. 1 \in 1..Len(v)
        BY <1>1, <1>4
      <3> QED BY <3>1
    <2>3. l \in Seq(A) /\ Len(l) = 2 /\ l[1] = d /\ l[2] = v[1]
      BY <2>1, <2>2
    <2>4. Placed(v, d, l, 1, [k \in 1..1 |-> 2])
      BY <1>1, <1>4, <2>3 DEF Placed
    <2> QED BY <1>2, <2>3, <2>4, PlacedAdded
  <1>5. CASE n > 1
    <2>1. l = Append(v, d)
      BY <1>1, <1>2, <1>5 DEF AppendValue
    <2>2. /\ l \in Seq(A) /\ Len(l) = n + 1 /\ l[n + 1] = d /\ \A k \in 1..n : l[k] = v[k]
      BY <1>1, <2>1
    <2>3. Placed(v, d, l, n + 1, [k \in 1..n |-> k])
      BY <1>1, <2>2 DEF Placed
    <2> QED BY <1>2, <2>2, <2>3, PlacedAdded
  <1> QED BY <1>3, <1>4, <1>5

\* The recursion that defines AppendExcept has a solution.
Appends(list, s, G, n, f) ==
  /\ AppendExcept(list, s, G) = f[n] /\ f[0] = list
  /\ \A i \in 1..n : f[i] = IF s[i] \in G THEN f[i - 1] ELSE AppendValue(f[i - 1], s[i])

LEMMA AppendsUpTo ==
  ASSUME NEW list, NEW s, NEW G, NEW n \in Nat, n = Len(s)
  PROVE  \E f : Appends(list, s, G, n, f)
  <1> DEFINE T(x, i) == IF s[i] \in G THEN x ELSE AppendValue(x, s[i])
             Body(f, i) == IF i = 0 THEN list ELSE IF s[i] \in G THEN f[i - 1] ELSE AppendValue(f[i - 1], s[i])
             Solves(f, m) == f = [i \in 0..m |-> Body(f, i)]
             Built == {m \in Nat : m <= n => \E f : Solves(f, m)}
  <1>0. \A f, i : i # 0 => Body(f, i) = T(f[i - 1], i)
    OBVIOUS
  <1>1. 0 \in Built
    <2>1. Solves([i \in 0..0 |-> list], 0)
      OBVIOUS
    <2> QED BY <2>1
  <1>2. ASSUME NEW m \in Nat, m \in Built
        PROVE  m + 1 \in Built
    <2>1. m + 1 \in Nat
      OBVIOUS
    <2> SUFFICES ASSUME m + 1 <= n
                 PROVE  \E f : Solves(f, m + 1)
      BY <2>1, Zenon
    <2>2. PICK f : Solves(f, m)
      <3>1. m <= n
        OBVIOUS
      <3> HIDE DEF Solves
      <3> QED BY <1>2, <3>1
    <2> HIDE DEF T
    <2>3. PICK last : last = T(f[m], m + 1)
      OBVIOUS
    <2>4. PICK g : g = [i \in 0..m + 1 |-> IF i = m + 1 THEN last ELSE f[i]]
      OBVIOUS
    <2>5. \A i \in 0..m : g[i] = f[i]
      BY <2>4
    <2>6. ASSUME NEW i \in 0..m + 1
          PROVE  g[i] = Body(g, i)
      <3>1. CASE i = m + 1
        <4>1. g[i] = last /\ i # 0 /\ i - 1 = m /\ g[i - 1] = f[m]
          BY <2>4, <2>5, <3>1
        <4> HIDE DEF Body
        <4>2. Body(g, i) = T(g[i - 1], i)
          BY <1>0, <4>1
        <4> QED BY <2>3, <3>1, <4>1, <4>2, Zenon
      <3>2. CASE i # m + 1
        <4>1. i \in 0..m /\ g[i] = f[i]
          BY <2>5, <3>2
        <4>2. f[i] = Body(f, i)
          BY <2>2, <4>1
        <4>3. i # 0 => g[i - 1] = f[i - 1]
          BY <2>5, <4>1
        <4> QED BY <4>1, <4>2, <4>3, Zenon
      <3> QED BY <3>1, <3>2
    <2>7. g = [i \in 0..m + 1 |-> g[i]]
      BY <2>4
    <2> QED BY <2>6, <2>7
  <1>3. n \in Built
    <2> HIDE DEF Built
    <2>1. Nat \subseteq Built
      BY <1>1, <1>2, CountUp
    <2> QED BY <2>1
  <1>4. \E f : Solves(f, n)
    BY <1>3
  <1>5. PICK f : f = CHOOSE g : Solves(g, n)
    OBVIOUS
  <1>6. AppendExcept(list, s, G) = f[n]
    BY <1>5, Zenon DEF AppendExcept
  <1> HIDE DEF Solves
  <1>7. Solves(f, n)
    BY <1>4, <1>5, Zenon
  <1>8. f[0] = Body(f, 0) /\ \A k \in 1..n : f[k] = Body(f, k)
    <2> HIDE DEF Body
    <2>1. \A k \in 0..n : f[k] = Body(f, k)
      BY <1>7 DEF Solves
    <2> QED BY <2>1
  <1>9. \A k \in 1..n : Body(f, k) = T(f[k - 1], k)
    BY <1>0
  <1> QED BY <1>6, <1>8, <1>9, Zenon DEF Appends

\* List v has the headers of list and the first m of s, but for those in G.
Before(s, m, G, n)    == \A k \in 1..m : s[k].name = n => s[k] \in G
OnlyTo(s, m, G, n, e) ==
  \E k \in 1..m : s[k] = e /\ e \notin G /\ e.name = n /\ \A j \in 1..m : s[j].name = n /\ s[j] \notin G => j = k
HasTo(s, m, G, e)     == e \notin G /\ \E k \in 1..m : s[k] = e
Merged(list, s, m, G, v) ==
  /\ \A n : Absent(v, n) => Absent(list, n) /\ Before(s, m, G, n)
  /\ \A n, e : Only(v, n, e) =>
       (Only(list, n, e) /\ Before(s, m, G, n)) \/ (Absent(list, n) /\ OnlyTo(s, m, G, n, e))
  /\ \A n : Absent(list, n) /\ Before(s, m, G, n) => Absent(v, n)
  /\ \A e : Has(list, e) \/ HasTo(s, m, G, e) => Has(v, e)

LEMMA MergedNext ==
  ASSUME NEW list, NEW s, NEW m \in Nat, NEW G, NEW v, Merged(list, s, m, G, v), NEW k, k = m + 1,
         NEW l, (s[k] \in G /\ l = v) \/ (s[k] \notin G /\ Added1(v, s[k], l))
  PROVE  Merged(list, s, k, G, l)
  <1>0. k \in 1..k /\ (\A j \in 1..k : j # k => j \in 1..m) /\ \A j \in 1..m : j \in 1..k /\ j # k
    OBVIOUS
  <1>1. ASSUME NEW n, Before(s, m, G, n), s[k].name # n \/ s[k] \in G
        PROVE  Before(s, k, G, n)
    BY <1>0, <1>1 DEF Before
  <1>2. ASSUME NEW n, NEW e, OnlyTo(s, m, G, n, e), s[k].name # n \/ s[k] \in G
        PROVE  OnlyTo(s, k, G, n, e)
    BY <1>0, <1>2 DEF OnlyTo
  <1>3. ASSUME NEW n, NEW e, Before(s, m, G, n), e = s[k], e.name = n, e \notin G
        PROVE  OnlyTo(s, k, G, n, e)
    BY <1>0, <1>3 DEF OnlyTo, Before
  <1>4. ASSUME NEW n, Before(s, k, G, n)
        PROVE  Before(s, m, G, n) /\ (s[k].name # n \/ s[k] \in G)
    BY <1>0, <1>4 DEF Before
  <1>5. ASSUME NEW e, HasTo(s, k, G, e)
        PROVE  HasTo(s, m, G, e) \/ (e = s[k] /\ e \notin G)
    BY <1>0, <1>5 DEF HasTo
  <1>6. CASE s[k] \in G /\ l = v
    <2>1. ASSUME NEW n, Absent(l, n)
          PROVE  Absent(list, n) /\ Before(s, k, G, n)
      BY <1>1, <1>6, <2>1 DEF Merged
    <2>2. ASSUME NEW n, NEW e, Only(l, n, e)
          PROVE  (Only(list, n, e) /\ Before(s, k, G, n)) \/ (Absent(list, n) /\ OnlyTo(s, k, G, n, e))
      BY <1>1, <1>2, <1>6, <2>2 DEF Merged
    <2>3. \A n : Absent(list, n) /\ Before(s, k, G, n) => Absent(l, n)
      BY <1>4, <1>6 DEF Merged
    <2>4. \A e : Has(list, e) \/ HasTo(s, k, G, e) => Has(l, e)
      BY <1>5, <1>6 DEF Merged
    <2> QED BY <2>1, <2>2, <2>3, <2>4 DEF Merged
  <1>7. CASE s[k] \notin G /\ Added1(v, s[k], l)
    <2>1. ASSUME NEW n, Absent(l, n)
          PROVE  Absent(list, n) /\ Before(s, k, G, n)
      BY <1>1, <1>7, <2>1 DEF Merged, Added1
    <2>2. ASSUME NEW n, NEW e, Only(l, n, e)
          PROVE  (Only(list, n, e) /\ Before(s, k, G, n)) \/ (Absent(list, n) /\ OnlyTo(s, k, G, n, e))
      <3>1. CASE Only(v, n, e) /\ s[k].name # n
        BY <1>1, <1>2, <3>1 DEF Merged
      <3>2. CASE Absent(v, n) /\ s[k].name = n /\ e = s[k]
        <4>1. Absent(list, n) /\ Before(s, m, G, n)
          BY <3>2 DEF Merged
        <4> QED BY <1>3, <1>7, <3>2, <4>1
      <3> QED BY <1>7, <2>2, <3>1, <3>2 DEF Added1
    <2>3. ASSUME NEW n, Absent(list, n), Before(s, k, G, n)
          PROVE  Absent(l, n)
      <3>1. Absent(v, n) /\ s[k].name # n
        BY <1>4, <1>7, <2>3 DEF Merged
      <3> QED BY <1>7, <3>1 DEF Added1
    <2>4. ASSUME NEW e, Has(list, e) \/ HasTo(s, k, G, e)
          PROVE  Has(l, e)
      <3>1. Has(v, e) \/ e = s[k]
        BY <1>5, <2>4 DEF Merged
      <3> QED BY <1>7, <3>1 DEF Added1
    <2> QED BY <2>1, <2>2, <2>3, <2>4 DEF Merged
  <1> QED BY <1>6, <1>7

\* What AppendExcept makes of a list.
LEMMA AppendExceptFacts ==
  ASSUME NEW A, NEW list \in Seq(A), NEW s \in Seq(A), NEW G
  PROVE  AppendExcept(list, s, G) \in Seq(A) /\ Merged(list, s, Len(s), G, AppendExcept(list, s, G))
  <1>1. PICK n \in Nat : n = Len(s)
    OBVIOUS
  <1>2. PICK f : Appends(list, s, G, n, f)
    BY <1>1, AppendsUpTo
  <1> DEFINE Built == {m \in Nat : m <= n => f[m] \in Seq(A) /\ Merged(list, s, m, G, f[m])}
  <1>3. 0 \in Built
    <2>1. (\A i : Before(s, 0, G, i)) /\ \A e : ~HasTo(s, 0, G, e)
      BY DEF Before, HasTo
    <2>2. Merged(list, s, 0, G, list)
      BY <2>1 DEF Merged
    <2> QED BY <1>2, <2>2 DEF Appends
  <1>4. ASSUME NEW m \in Nat, m \in Built
        PROVE  m + 1 \in Built
    <2> SUFFICES ASSUME m + 1 <= n
                 PROVE  f[m + 1] \in Seq(A) /\ Merged(list, s, m + 1, G, f[m + 1])
      OBVIOUS
    <2>1. PICK v \in Seq(A) : v = f[m] /\ Merged(list, s, m, G, v)
      BY <1>4
    <2>2. PICK k \in 1..n : k = m + 1 /\ k - 1 = m
      OBVIOUS
    <2>3. PICK d \in A : d = s[k]
      BY <1>1, <2>2
    <2>4. PICK l : l = f[k]
      OBVIOUS
    <2>5. l = IF d \in G THEN v ELSE AppendValue(v, d)
      BY <1>2, <2>1, <2>2, <2>3, <2>4, Zenon DEF Appends
    <2>6. l \in Seq(A) /\ ((d \in G /\ l = v) \/ (d \notin G /\ Added1(v, d, l)))
      BY <2>5, AppendValueAdds
    <2>7. Merged(list, s, k, G, l)
      BY <2>1, <2>2, <2>3, <2>6, MergedNext
    <2> QED BY <2>2, <2>4, <2>6, <2>7
  <1>5. n \in Built
    <2> HIDE DEF Built
    <2>1. Nat \subseteq Built
      BY <1>3, <1>4, CountUp
    <2> QED BY <2>1
  <1> QED BY <1>1, <1>2, <1>5 DEF Appends

-----------------------------------------------------------------------------
\* A cookie that a handler was given is what its how says: a signed one whose digest
\* fits, and a private one, were written so.
Genuine(c) ==
  /\ c.how = "signed" => c.mac # "decoded" /\ (c.mac = c.v => <<"signed", c.v>> \in CookieWrites)
  /\ c.how = "private" => <<"private", c.v>> \in CookieWrites

Texts == {"none", "text", "percent", "undecodable", "accented", "control", "decoded"}
Cookies ==
  {c \in [how : {"none", "plain", "signed", "private"}, key : 0..2, mac : Texts, v : Texts] : Genuine(c)}
SetCookies == {d \in [name : CookieNames, removed : BOOLEAN, c : Cookies] : d.removed => d.c = NoCookie}

\* A jar has one cookie of a name.
OneEach(set) == \A d, e \in set : d.name = e.name => d = e

LEMMA CookieFacts ==
  /\ NoCookie \in Cookies /\ Decode64(NoCookie) = NoCookie
  /\ \A c \in Cookies : Decode64(c) \in Cookies /\ Decode64(Decode64(c)) = Decode64(c)
  <1>1. NoCookie \in Cookies /\ Decode64(NoCookie) = NoCookie
    BY DEF NoCookie, Cookies, Genuine, Texts, Decode64
  <1>2. ASSUME NEW c \in Cookies
        PROVE  Decode64(c) \in Cookies /\ Decode64(Decode64(c)) = Decode64(c)
    <2>1. CASE c.v = "percent" /\ c.how # "private"
      <3>1. PICK e : e = Decode64(c) /\ e = [c EXCEPT !.v = "decoded"]
        BY <2>1 DEF Decode64
      <3>2. e = [how |-> c.how, key |-> c.key, mac |-> c.mac, v |-> "decoded"]
        BY <3>1 DEF Cookies
      <3>3. e \in Cookies
        <4>1. e \in [how : {"none", "plain", "signed", "private"}, key : 0..2, mac : Texts, v : Texts]
          BY <3>2 DEF Cookies, Texts
        <4>2. Genuine(e)
          BY <2>1, <3>2 DEF Cookies, Genuine
        <4> QED BY <4>1, <4>2 DEF Cookies
      <3>4. Decode64(e) = e
        BY <3>2 DEF Decode64
      <3> QED BY <3>1, <3>3, <3>4
    <2>2. CASE ~(c.v = "percent" /\ c.how # "private")
      BY <2>2 DEF Decode64
    <2> QED BY <2>1, <2>2
  <1> QED BY <1>1, <1>2

LEMMA HeaderFacts ==
  ASSUME NEW n \in CookieNames
  PROVE  /\ Removal(n) \in SetCookies /\ Removal(n).name = n /\ Removal(n).c = NoCookie
         /\ \A c \in Cookies :
              Added(n, c) \in SetCookies /\ Added(n, c).name = n /\ Added(n, c).c = c
  BY CookieFacts DEF Removal, Added, SetCookies

LEMMA MadeFacts ==
  ASSUME NEW w \in CookieWrites \cup {<<"plain", "text">>}, NEW k \in 1..2, k = jarKey
  PROVE  Made(w[1], w[2]) \in Cookies
  <1>1. PICK h \in {"plain", "signed", "private"}, v \in {"text", "percent", "undecodable", "accented", "control"} :
          w = <<h, v>>
    BY CookieWritesAssumption
  <1>2. PICK c : c = Made(w[1], w[2]) /\ c = [how |-> h, key |-> IF h = "plain" THEN 0 ELSE k,
                                             mac |-> IF h = "signed" THEN v ELSE "none", v |-> v]
    BY <1>1 DEF Made
  <1>3. c \in [how : {"none", "plain", "signed", "private"}, key : 0..2, mac : Texts, v : Texts]
    BY <1>2 DEF Texts
  <1>4. Genuine(c)
    <2>1. h # "plain" => <<h, v>> \in CookieWrites
      BY <1>1
    <2> QED BY <1>2, <2>1 DEF Genuine
  <1> QED BY <1>2, <1>3, <1>4 DEF Cookies

\* What a jar with these cookies shows of a name.
Got(orig, delta, n) ==
  LET d == IF Named(delta, n) # {} THEN Named(delta, n) ELSE Named(orig, n)
  IN  IF \E e \in d : ~e.removed THEN (CHOOSE e \in d : TRUE).c ELSE NoCookie

LEMMA GotFacts ==
  ASSUME NEW orig \in SUBSET SetCookies, NEW delta \in SUBSET SetCookies, OneEach(orig), OneEach(delta), NEW n
  PROVE  /\ \A e \in delta : e.name = n => Got(orig, delta, n) = e.c
         /\ Named(delta, n) = {} => \A e \in orig : e.name = n => Got(orig, delta, n) = e.c
         /\ Named(delta, n) = {} /\ Named(orig, n) = {} => Got(orig, delta, n) = NoCookie
         /\ Got(orig, delta, n) \in Cookies
  <1>1. ASSUME NEW set \in SUBSET SetCookies, OneEach(set), NEW e \in set, e.name = n,
               NEW c, c = IF \E a \in Named(set, n) : ~a.removed THEN (CHOOSE a \in Named(set, n) : TRUE).c ELSE NoCookie
        PROVE  c = e.c /\ e \in Named(set, n)
    <2>1. e \in Named(set, n) /\ \A a \in Named(set, n) : a = e
      BY <1>1 DEF Named, OneEach
    <2>2. (CHOOSE a \in Named(set, n) : TRUE) = e
      BY <2>1
    <2>3. e.removed => e.c = NoCookie
      BY <1>1 DEF SetCookies
    <2> QED BY <1>1, <2>1, <2>2, <2>3
  <1>2. ASSUME NEW e \in delta, e.name = n
        PROVE  Got(orig, delta, n) = e.c
    <2>1. e \in Named(delta, n)
      BY <1>2 DEF Named
    <2> QED BY <1>1, <1>2, <2>1 DEF Got
  <1>3. ASSUME Named(delta, n) = {}, NEW e \in orig, e.name = n
        PROVE  Got(orig, delta, n) = e.c
    BY <1>1, <1>3 DEF Got
  <1>4. Named(delta, n) = {} /\ Named(orig, n) = {} => Got(orig, delta, n) = NoCookie
    BY DEF Got
  <1>5. Got(orig, delta, n) \in Cookies
    <2>1. \A e \in orig \cup delta : e.c \in Cookies
      BY DEF SetCookies
    <2>2. CASE \E e \in delta : e.name = n
      BY <1>2, <2>1, <2>2
    <2>3. CASE Named(delta, n) = {} /\ \E e \in orig : e.name = n
      BY <1>3, <2>1, <2>3
    <2>4. CASE Named(delta, n) = {} /\ Named(orig, n) = {}
      BY <1>4, <2>4, CookieFacts
    <2> QED BY <2>2, <2>3, <2>4 DEF Named
  <1> QED BY <1>2, <1>3, <1>4, <1>5

\* What a browser with these cookies holds of a name after a list of headers.
Heard(held, list, n) ==
  IF LastOf(list, n) = {} THEN held[n] ELSE list[CHOOSE k \in LastOf(list, n) : TRUE].c

LEMMA HeardFacts ==
  ASSUME NEW held \in [CookieNames -> Cookies], NEW list \in Seq(SetCookies), NEW n \in CookieNames
  PROVE  /\ Absent(list, n) => Heard(held, list, n) = held[n]
         /\ \A d : Only(list, n, d) => Heard(held, list, n) = d.c /\ d \in SetCookies
         /\ Heard(held, list, n) \in Cookies
  <1>1. ASSUME Absent(list, n)
        PROVE  Heard(held, list, n) = held[n]
    <2>1. LastOf(list, n) = {}
      BY <1>1 DEF LastOf, Absent
    <2> QED BY <2>1 DEF Heard
  <1>2. ASSUME NEW d, Only(list, n, d)
        PROVE  Heard(held, list, n) = d.c /\ d \in SetCookies
    <2>1. PICK k \in 1..Len(list) :
            list[k] = d /\ d.name = n /\ \A j \in 1..Len(list) : list[j].name = n => j = k
      BY <1>2 DEF Only
    <2>2. \A j \in (k + 1)..Len(list) : j \in 1..Len(list) /\ j # k
      OBVIOUS
    <2>3. LastOf(list, n) = {k}
      BY <2>1, <2>2 DEF LastOf
    <2> QED BY <2>1, <2>3 DEF Heard
  <1>3. Heard(held, list, n) \in Cookies
    <2>1. CASE LastOf(list, n) = {}
      BY <2>1 DEF Heard
    <2>2. CASE LastOf(list, n) # {}
      <3>1. PICK k : k = (CHOOSE i \in LastOf(list, n) : TRUE) /\ k \in LastOf(list, n)
        BY <2>2
      <3>2. list[k] \in SetCookies
        BY <3>1 DEF LastOf
      <3> QED BY <2>2, <3>1, <3>2 DEF Heard, SetCookies
    <2> QED BY <2>1, <2>2
  <1> QED BY <1>1, <1>2, <1>3

\* Headers in some order have each cookie of the delta.
LEMMA OrderFacts ==
  ASSUME NEW A, NEW set \in SUBSET A, IsFiniteSet(set), NEW s \in Orders(set)
  PROVE  s \in Seq(A) /\ (\A d \in set : \E k \in 1..Len(s) : s[k] = d) /\ \A k \in 1..Len(s) : s[k] \in set
  <1>1. PICK n \in Nat : n = Cardinality(set)
    BY FS_CardinalityType
  <1>2. s \in [1..n -> set] /\ \A i, j \in 1..n : i # j => s[i] # s[j]
    BY <1>1 DEF Orders
  <1>3. s \in Injection(1..n, set)
    BY <1>2 DEF Injection, IsInjective
  <1>4. IsFiniteSet(1..n) /\ Cardinality(1..n) = n
    BY FS_Interval
  <1>5. s \in Surjection(1..n, set)
    BY <1>1, <1>3, <1>4, FS_Injection
  <1>6. \A d \in set : \E k \in 1..n : s[k] = d
    BY <1>5 DEF Surjection
  <1>7. s \in Seq(A) /\ Len(s) = n
    BY <1>2
  <1> QED BY <1>2, <1>6, <1>7

-----------------------------------------------------------------------------
\* The types of a browser's cookies b, a jar's originals o and delta d, a response's
\* headers s, the phase p, the key k, the cookies that are wanted w, and the counts j.
JarCounts == [n : Int, twice : BOOLEAN, blind : BOOLEAN, unheard : SUBSET CookieNames]
CookieTyped(b, o, d, s, p, k, w, j) ==
  /\ b \in [CookieNames -> Cookies] /\ w \in [CookieNames -> Cookies]
  /\ o \in SUBSET SetCookies /\ d \in SUBSET SetCookies /\ IsFiniteSet(d) /\ OneEach(o) /\ OneEach(d)
  /\ s \in Seq(SetCookies) /\ p \in {"idle", "building", "built"} /\ k \in 1..2
  /\ j \in JarCounts

\* What the browser will hold of n is c, as far as the decoding tells.
Alike(c, e) == Decode64(c) = Decode64(e)

\* The browser will hold what is wanted, unless n is set twice in the response.
Comes(b, d, s, p, w, n) ==
  /\ p = "idle" => Alike(b[n], w[n])
  /\ p = "built" /\ Once(s, n) => Alike(Heard(b, s, n), w[n])
  /\ p = "building" /\ Once(s, n) =>
       /\ \A e \in d : e.name = n => Alike(e.c, w[n])
       /\ Named(d, n) = {} => Alike(Heard(b, s, n), w[n])

\* A jar that has forgotten nothing knows every cookie of the browser.
Recalls(b, o, s, p, j) ==
  p = "building" /\ ~j.blind => s = << >> /\ \A n \in CookieNames : Named(o, n) = {} => b[n] = NoCookie
Recalled(o, d, p, w, j, n) == p = "building" /\ ~j.blind => Got(o, d, n) = w[n]

\* No other removal goes unheard.
Noticed(s, n) == \E k \in 1..Len(s) : s[k].name = n /\ Unreadable(s[k].c)
Excused(s, j) == \A n \in j.unheard : j.blind \/ Noticed(s, n)

CookieOK(b, o, d, s, p, k, w, j) ==
  /\ CookieTyped(b, o, d, s, p, k, w, j) /\ Recalls(b, o, s, p, j) /\ Excused(s, j)
  /\ ~j.twice => \A n \in CookieNames :
       (n \notin j.unheard => Comes(b, d, s, p, w, n)) /\ Recalled(o, d, p, w, j, n)

CookieInv == CookieOK(browser, jarOrig, jarDelta, setCookie, phase, jarKey, wanted, jarOps)

\* Delta e is delta d but for name n, which the cookies of set x have there.
Swaps(d, e, n, x) ==
  /\ e \in SUBSET SetCookies /\ OneEach(e) /\ IsFiniteSet(e) /\ Named(e, n) = x
  /\ \A m : m # n => Named(e, m) = Named(d, m)

LEMMA ReplacedSwaps ==
  ASSUME NEW d \in SUBSET SetCookies, OneEach(d), IsFiniteSet(d), NEW a \in SetCookies, NEW n, n = a.name
  PROVE  Swaps(d, Replaced(d, a), n, {a})
  <1>1. PICK e : e = Replaced(d, a) /\ e = Others(d, n) \cup {a}
    BY DEF Replaced
  <1>2. Others(d, n) \in SUBSET d
    BY DEF Others
  <1>3. IsFiniteSet(e)
    BY <1>1, <1>2, FS_Subset, FS_AddElement
  <1>4. OneEach(e)
    BY <1>1 DEF OneEach, Others
  <1>5. \A m : m # n => Named(e, m) = Named(d, m)
    BY <1>1 DEF Named, Others
  <1>6. Named(e, n) = {a}
    BY <1>1 DEF Named, Others
  <1>7. Swaps(d, e, n, {a})
    BY <1>1, <1>2, <1>3, <1>4, <1>5, <1>6 DEF Swaps
  <1> QED BY <1>1, <1>7

LEMMA OthersSwap ==
  ASSUME NEW d \in SUBSET SetCookies, OneEach(d), IsFiniteSet(d), NEW n \in CookieNames
  PROVE  Swaps(d, Others(d, n), n, {})
  <1>1. PICK e : e = Others(d, n)
    OBVIOUS
  <1>2. e \in SUBSET d
    BY <1>1 DEF Others
  <1>3. IsFiniteSet(e)
    BY <1>2, FS_Subset
  <1>4. OneEach(e)
    BY <1>2 DEF OneEach
  <1>5. \A m : m # n => Named(e, m) = Named(d, m)
    BY <1>1 DEF Named, Others
  <1>6. Named(e, n) = {}
    BY <1>1 DEF Named, Others
  <1>7. Swaps(d, e, n, {})
    BY <1>2, <1>3, <1>4, <1>5, <1>6 DEF Swaps
  <1> QED BY <1>1, <1>7

\* A jar's parts that name n alike show the same.
LEMMA SameGot ==
  ASSUME NEW o, NEW d, NEW f, NEW e, NEW n, Named(o, n) = Named(f, n), Named(d, n) = Named(e, n)
  PROVE  Got(o, d, n) = Got(f, e, n)
  BY DEF Got

LEMMA SameComes ==
  ASSUME NEW b, NEW d, NEW e, NEW s, NEW p, NEW w, NEW v, NEW n, Comes(b, d, s, p, w, n),
         Named(d, n) = Named(e, n), v[n] = w[n]
  PROVE  Comes(b, e, s, p, v, n)
  BY DEF Comes, Named

\* An operation on name n counted: j becomes i, the jar forgets its originals if f, and
\* the names whose removal goes unheard are u.
Counts(j, i, f, u) ==
  /\ i \in JarCounts /\ (i.twice <=> j.twice) /\ i.unheard = u
  /\ i.blind <=> (j.blind \/ f)
Aside(u, x, n) == \A m : m # n => (m \in u <=> m \in x)

LEMMA CountedFacts ==
  ASSUME jarOps \in JarCounts, NEW f \in BOOLEAN, NEW u \in SUBSET CookieNames
  PROVE  Counts(jarOps, Counted(f, u), f, u)
  BY DEF Counted, Counts, JarCounts

\* The handler's wishes w become v, with c for n.
Wishes(w, v, n, c) == v = [w EXCEPT ![n] = c]

\* What an operation on name n of a jar comes to.
Kept(o, f, n) == f \in SUBSET SetCookies /\ OneEach(f) /\ \A m \in CookieNames : m # n => Named(o, m) = Named(f, m)
Meant(b, o, s, f, e, i, x, n, c) ==
  /\ c \in Cookies
  /\ ~i.blind => (Named(f, n) = {} => Named(o, n) = {}) /\ Got(f, e, n) = c
  /\ n \in i.unheard => i.blind
  /\ n \notin i.unheard => (\A a \in x : a.c = c) /\ (x = {} => c = Heard(b, s, n))

LEMMA JarStep ==
  ASSUME NEW b, NEW o, NEW d, NEW s, NEW k, NEW w, NEW j, CookieOK(b, o, d, s, "building", k, w, j),
         NEW n \in CookieNames, NEW f, Kept(o, f, n), NEW e, NEW x, Swaps(d, e, n, x),
         NEW c, NEW v, Wishes(w, v, n, c), NEW i, NEW g, NEW u, Counts(j, i, g, u), Aside(j.unheard, u, n),
         Meant(b, o, s, f, e, i, x, n, c)
  PROVE  CookieOK(b, f, e, s, "building", k, v, i)
  <1>1. v \in [CookieNames -> Cookies] /\ v[n] = c /\ \A m \in CookieNames : m # n => v[m] = w[m]
    BY DEF CookieOK, CookieTyped, Wishes, Meant
  <1>2. CookieTyped(b, f, e, s, "building", k, v, i)
    BY <1>1 DEF CookieOK, CookieTyped, Kept, Swaps, Counts
  <1>3. Recalls(b, f, s, "building", i)
    <2>1. ~i.blind => ~j.blind
      BY DEF Counts
    <2>2. ASSUME ~i.blind, NEW m \in CookieNames, Named(f, m) = {}
          PROVE  Named(o, m) = {}
      <3>1. m # n => Named(o, m) = Named(f, m)
        BY DEF Kept
      <3>2. m = n => Named(o, m) = {}
        BY <2>2 DEF Meant
      <3> QED BY <2>2, <3>1, <3>2
    <2>3. Recalls(b, o, s, "building", j)
      BY DEF CookieOK
    <2> QED BY <2>1, <2>2, <2>3 DEF Recalls
  <1>4. ASSUME ~i.twice, NEW m \in CookieNames
        PROVE  (m \notin i.unheard => Comes(b, e, s, "building", v, m)) /\ Recalled(f, e, "building", v, i, m)
    <2>1. (m \notin j.unheard => Comes(b, d, s, "building", w, m)) /\ Recalled(o, d, "building", w, j, m)
      BY <1>4 DEF CookieOK, Counts
    <2>2. CASE m = n
      <3>1. Recalled(f, e, "building", v, i, m)
        BY <1>1, <2>2 DEF Recalled, Meant
      <3> SUFFICES ASSUME m \notin i.unheard
                   PROVE  Comes(b, e, s, "building", v, m)
        BY <3>1
      <3>2. \A a \in e : a.name = n => a \in x
        BY DEF Swaps, Named
      <3>3. \A a \in e : a.name = m => a.c = v[m]
        BY <1>1, <2>2, <3>2 DEF Meant
      <3>4. Named(e, m) = {} => v[m] = Heard(b, s, m)
        BY <1>1, <2>2 DEF Meant, Swaps
      <3>5. Comes(b, e, s, "building", v, m)
        BY <3>3, <3>4 DEF Comes, Alike
      <3> QED BY <3>5
    <2>3. CASE m # n
      <3>1. Named(o, m) = Named(f, m) /\ Named(d, m) = Named(e, m) /\ v[m] = w[m]
        BY <1>1, <2>3 DEF Kept, Swaps
      <3>2. m \notin i.unheard => Comes(b, e, s, "building", v, m)
        <4>1. m \in i.unheard <=> m \in j.unheard
          BY <2>3 DEF Counts, Aside
        <4> QED BY <2>1, <3>1, <4>1, SameComes
      <3>3. Got(f, e, m) = Got(o, d, m)
        BY <3>1, SameGot
      <3>4. ~i.blind => ~j.blind
        BY DEF Counts
      <3> QED BY <2>1, <3>1, <3>2, <3>3, <3>4 DEF Recalled
    <2> QED BY <2>2, <2>3
  <1>5. Excused(s, i)
    <2>1. ASSUME NEW m \in i.unheard
          PROVE  i.blind \/ Noticed(s, m)
      <3>1. CASE m = n
        BY <2>1, <3>1 DEF Meant
      <3>2. CASE m # n
        <4>1. m \in j.unheard
          BY <2>1, <3>2 DEF Counts, Aside
        <4> QED BY <4>1 DEF CookieOK, Excused, Counts
      <3> QED BY <3>1, <3>2
    <2> QED BY <2>1 DEF Excused
  <1> QED BY <1>2, <1>3, <1>4, <1>5 DEF CookieOK

\* The three ways in which an operation changes a jar: it adds, removes or forgets n.
LEMMA AddedStep ==
  ASSUME NEW b, NEW o, NEW d, NEW s, NEW k, NEW w, NEW j, CookieOK(b, o, d, s, "building", k, w, j),
         NEW n \in CookieNames, NEW c \in Cookies, NEW v, Wishes(w, v, n, c), NEW i, Counts(j, i, FALSE, j.unheard \ {n})
  PROVE  CookieOK(b, o, Replaced(d, Added(n, c)), s, "building", k, v, i)
  <1>1. CookieTyped(b, o, d, s, "building", k, w, j)
    BY DEF CookieOK
  <1>2. PICK a \in SetCookies : a = Added(n, c) /\ n = a.name /\ a.c = c
    BY HeaderFacts
  <1>3. PICK e : e = Replaced(d, a)
    OBVIOUS
  <1>4. Swaps(d, e, n, {a})
    BY <1>1, <1>2, <1>3, ReplacedSwaps DEF CookieTyped
  <1>5. Kept(o, o, n)
    BY <1>1 DEF Kept, CookieTyped
  <1>6. Got(o, e, n) = c
    <2>1. a \in e /\ e \in SUBSET SetCookies /\ OneEach(e)
      BY <1>4 DEF Swaps, Named
    <2> QED BY <1>1, <1>2, <2>1, GotFacts DEF CookieTyped
  <1>7. Meant(b, o, s, o, e, i, {a}, n, c)
    BY <1>2, <1>6 DEF Meant, Counts
  <1>8. CookieOK(b, o, e, s, "building", k, v, i)
    <2>1. Aside(j.unheard, j.unheard \ {n}, n)
      BY DEF Aside
    <2> QED BY <1>4, <1>5, <1>7, <2>1, JarStep
  <1> QED BY <1>2, <1>3, <1>8

LEMMA RemovedStep ==
  ASSUME NEW b, NEW o, NEW d, NEW s, NEW k, NEW w, NEW j, CookieOK(b, o, d, s, "building", k, w, j),
         NEW n \in CookieNames, NEW f, Kept(o, f, n), Named(f, n) # {},
         NEW v, Wishes(w, v, n, NoCookie), NEW i, Counts(j, i, FALSE, j.unheard \ {n})
  PROVE  CookieOK(b, f, Replaced(d, Removal(n)), s, "building", k, v, i)
  <1>1. CookieTyped(b, o, d, s, "building", k, w, j)
    BY DEF CookieOK
  <1>2. PICK a \in SetCookies : a = Removal(n) /\ n = a.name /\ a.c = NoCookie
    BY HeaderFacts
  <1>3. PICK e : e = Replaced(d, a)
    OBVIOUS
  <1>4. Swaps(d, e, n, {a})
    BY <1>1, <1>2, <1>3, ReplacedSwaps DEF CookieTyped
  <1>5. Got(f, e, n) = NoCookie
    <2>1. a \in e /\ e \in SUBSET SetCookies /\ OneEach(e)
      BY <1>4 DEF Swaps, Named
    <2>2. f \in SUBSET SetCookies /\ OneEach(f)
      BY DEF Kept
    <2> QED BY <1>2, <2>1, <2>2, GotFacts
  <1>6. Meant(b, o, s, f, e, i, {a}, n, NoCookie)
    BY <1>2, <1>5, CookieFacts DEF Meant, Counts
  <1>7. CookieOK(b, f, e, s, "building", k, v, i)
    <2>1. Aside(j.unheard, j.unheard \ {n}, n)
      BY DEF Aside
    <2> QED BY <1>4, <1>6, <2>1, JarStep
  <1> QED BY <1>2, <1>3, <1>7

Unsaid(b, s, n, c, u) == (c = NoCookie \/ c = Heard(b, s, n)) /\ (n \in u <=> c # Heard(b, s, n))

LEMMA ForgottenStep ==
  ASSUME NEW b, NEW o, NEW d, NEW s, NEW k, NEW w, NEW j, CookieOK(b, o, d, s, "building", k, w, j),
         NEW n \in CookieNames, NEW f, Kept(o, f, n), Named(f, n) = {},
         NEW c, NEW v, Wishes(w, v, n, c),
         NEW i, NEW g, NEW u, Counts(j, i, g, u), Aside(j.unheard, u, n), g \/ Named(o, n) = {},
         Unsaid(b, s, n, c, u)
  PROVE  CookieOK(b, f, Others(d, n), s, "building", k, v, i)
  <1>1. CookieTyped(b, o, d, s, "building", k, w, j)
    BY DEF CookieOK
  <1>2. PICK e : e = Others(d, n)
    OBVIOUS
  <1>3. Swaps(d, e, n, {})
    BY <1>1, <1>2, OthersSwap DEF CookieTyped
  <1>4. c \in Cookies
    BY <1>1, HeardFacts, CookieFacts DEF CookieTyped, Unsaid
  <1>5. ASSUME ~i.blind
        PROVE  Heard(b, s, n) = NoCookie
    <2>1. s = << >> /\ b[n] = NoCookie
      BY <1>5 DEF CookieOK, Recalls, Counts
    <2>2. Absent(s, n)
      BY <2>1 DEF Absent
    <2> QED BY <1>1, <2>1, <2>2, HeardFacts, ZenonT(60) DEF CookieTyped
  <1>6. Got(f, e, n) = NoCookie
    BY <1>3, GotFacts DEF Kept, Swaps
  <1>7. ~i.blind => Named(o, n) = {}
    BY DEF Counts
  <1>8. Meant(b, o, s, f, e, i, {}, n, c)
    BY <1>4, <1>5, <1>6, <1>7 DEF Meant, Counts, Unsaid
  <1>9. CookieOK(b, f, e, s, "building", k, v, i)
    BY <1>3, <1>8, JarStep
  <1> QED BY <1>2, <1>9

\* The operations on a jar.
LEMMA AddToJarStep ==
  ASSUME CookieInv, NEW n \in CookieNames, NEW w \in CookieWrites, AddToJar(n, w)
  PROVE  CookieInv'
  <1>1. CookieOK(browser, jarOrig, jarDelta, setCookie, "building", jarKey, wanted, jarOps)
    BY DEF AddToJar, MayOperate, CookieInv
  <1>2. PICK c \in Cookies : c = Made(w[1], w[2])
    BY <1>1, MadeFacts DEF CookieOK, CookieTyped
  <1>3. Counts(jarOps, jarOps', FALSE, jarOps.unheard \ {n})
    <2>1. jarOps \in JarCounts /\ jarOps.unheard \ {n} \in SUBSET CookieNames
      BY <1>1 DEF CookieOK, CookieTyped, JarCounts
    <2> QED BY <2>1, CountedFacts DEF AddToJar
  <1>4. Wishes(wanted, wanted', n, c)
    BY <1>2 DEF Wishes, AddToJar
  <1>5. CookieOK(browser, jarOrig, Replaced(jarDelta, Added(n, c)), setCookie, "building", jarKey, wanted', jarOps')
    BY <1>1, <1>3, <1>4, AddedStep
  <1> QED BY <1>2, <1>5 DEF AddToJar, MayOperate, CookieInv

LEMMA RemoveFromJarStep ==
  ASSUME CookieInv, NEW n \in CookieNames, RemoveFromJar(n)
  PROVE  CookieInv'
  <1>1. CookieOK(browser, jarOrig, jarDelta, setCookie, "building", jarKey, wanted, jarOps)
    BY DEF RemoveFromJar, MayOperate, CookieInv
  <1>2. PICK u \in SUBSET CookieNames :
          /\ u = IF Named(jarOrig, n) = {} /\ Applied(setCookie)[n] # NoCookie
                 THEN jarOps.unheard \cup {n} ELSE jarOps.unheard \ {n}
          /\ Counts(jarOps, jarOps', FALSE, u)
    <2>1. jarOps \in JarCounts /\ jarOps.unheard \in SUBSET CookieNames
      BY <1>1 DEF CookieOK, CookieTyped, JarCounts
    <2>2. PICK u : u = IF Named(jarOrig, n) = {} /\ Applied(setCookie)[n] # NoCookie
                       THEN jarOps.unheard \cup {n} ELSE jarOps.unheard \ {n}
      OBVIOUS
    <2>3. u \in SUBSET CookieNames
      BY <2>1, <2>2
    <2>4. Counts(jarOps, jarOps', FALSE, u)
      BY <2>1, <2>2, <2>3, CountedFacts DEF RemoveFromJar
    <2> QED BY <2>2, <2>3, <2>4
  <1>3. Kept(jarOrig, jarOrig, n)
    BY <1>1 DEF Kept, CookieOK, CookieTyped
  <1>4. Wishes(wanted, wanted', n, NoCookie)
    BY DEF Wishes, RemoveFromJar
  <1>5. CASE Named(jarOrig, n) # {}
    <2>1. CookieOK(browser, jarOrig, Replaced(jarDelta, Removal(n)), setCookie, "building", jarKey, wanted', jarOps')
      BY <1>1, <1>2, <1>3, <1>4, <1>5, RemovedStep
    <2> QED BY <1>5, <2>1 DEF RemoveFromJar, JarRemoved, MayOperate, CookieInv
  <1>6. CASE Named(jarOrig, n) = {}
    <2>1. Applied(setCookie)[n] # NoCookie => u = jarOps.unheard \cup {n}
      BY <1>2, <1>6
    <2>2. Applied(setCookie)[n] = NoCookie => u = jarOps.unheard \ {n}
      BY <1>2
    <2>3. Aside(jarOps.unheard, u, n) /\ (n \in u <=> Applied(setCookie)[n] # NoCookie)
      BY <2>1, <2>2 DEF Aside
    <2>4. Unsaid(browser, setCookie, n, NoCookie, u)
      BY <2>3 DEF Applied, Heard, Unsaid
    <2>5. CookieOK(browser, jarOrig, Others(jarDelta, n), setCookie, "building", jarKey, wanted', jarOps')
      BY <1>1, <1>2, <1>3, <1>4, <1>6, <2>3, <2>4, ForgottenStep
    <2> QED BY <1>6, <2>5 DEF RemoveFromJar, JarRemoved, MayOperate, CookieInv
  <1> QED BY <1>5, <1>6

LEMMA DelCookieStep ==
  ASSUME CookieInv, NEW n \in CookieNames, DelCookie(n)
  PROVE  CookieInv'
  <1>1. CookieOK(browser, jarOrig, jarDelta, setCookie, "building", jarKey, wanted, jarOps)
    BY DEF DelCookie, MayOperate, CookieInv
  <1>2. Counts(jarOps, jarOps', FALSE, jarOps.unheard \ {n})
    <2>1. jarOps \in JarCounts /\ jarOps.unheard \ {n} \in SUBSET CookieNames
      BY <1>1 DEF CookieOK, CookieTyped, JarCounts
    <2> QED BY <2>1, CountedFacts DEF DelCookie
  <1>3. Kept(jarOrig, jarOrig', n) /\ Named(jarOrig', n) # {}
    <2>1. PICK a \in SetCookies : a = Added(n, NoCookie) /\ n = a.name
      BY HeaderFacts, CookieFacts
    <2>2. jarOrig \in SUBSET SetCookies /\ OneEach(jarOrig)
      BY <1>1 DEF CookieOK, CookieTyped
    <2>3. PICK f : f = jarOrig' /\ f = Others(jarOrig, n) \cup {a}
      BY <2>1 DEF DelCookie, Replaced
    <2>4. f \in SUBSET SetCookies /\ OneEach(f)
      BY <2>1, <2>2, <2>3 DEF Others, OneEach
    <2>5. \A m \in CookieNames : m # n => Named(jarOrig, m) = Named(f, m)
      BY <2>1, <2>3 DEF Others, Named
    <2>6. a \in Named(f, n)
      BY <2>1, <2>3 DEF Named
    <2>7. Kept(jarOrig, f, n) /\ Named(f, n) # {}
      BY <2>4, <2>5, <2>6 DEF Kept
    <2> QED BY <2>3, <2>7
  <1>4. Wishes(wanted, wanted', n, NoCookie)
    BY DEF Wishes, DelCookie
  <1>5. CookieOK(browser, jarOrig', Replaced(jarDelta, Removal(n)), setCookie, "building", jarKey, wanted', jarOps')
    BY <1>1, <1>2, <1>3, <1>4, RemovedStep
  <1> QED BY <1>3, <1>5 DEF DelCookie, JarRemoved, MayOperate, CookieInv

LEMMA ForceRemoveStep ==
  ASSUME CookieInv, NEW n \in CookieNames, ForceRemove(n)
  PROVE  CookieInv'
  <1>1. CookieOK(browser, jarOrig, jarDelta, setCookie, "building", jarKey, wanted, jarOps)
    BY DEF ForceRemove, MayOperate, CookieInv
  <1>2. Counts(jarOps, jarOps', TRUE, jarOps.unheard \ {n})
    <2>1. jarOps \in JarCounts /\ jarOps.unheard \ {n} \in SUBSET CookieNames
      BY <1>1 DEF CookieOK, CookieTyped, JarCounts
    <2> QED BY <2>1, CountedFacts DEF ForceRemove
  <1>3. Kept(jarOrig, jarOrig', n) /\ Named(jarOrig', n) = {}
    <2>1. PICK f : f = jarOrig' /\ f = Others(jarOrig, n)
      BY DEF ForceRemove
    <2>2. jarOrig \in SUBSET SetCookies /\ OneEach(jarOrig)
      BY <1>1 DEF CookieOK, CookieTyped
    <2>3. f \in SUBSET SetCookies /\ OneEach(f)
      BY <2>1, <2>2 DEF Others, OneEach
    <2>4. \A m \in CookieNames : m # n => Named(jarOrig, m) = Named(f, m)
      BY <2>1 DEF Others, Named
    <2>5. Named(f, n) = {}
      BY <2>1 DEF Others, Named
    <2>6. Kept(jarOrig, f, n)
      BY <2>3, <2>4 DEF Kept
    <2> QED BY <2>1, <2>5, <2>6
  <1>4. Wishes(wanted, wanted', n, Heard(browser, setCookie, n))
    BY DEF Wishes, ForceRemove, Applied, Heard
  <1>5. CookieOK(browser, jarOrig', Others(jarDelta, n), setCookie, "building", jarKey, wanted', jarOps')
    <2>1. /\ Aside(jarOps.unheard, jarOps.unheard \ {n}, n)
          /\ Unsaid(browser, setCookie, n, Heard(browser, setCookie, n), jarOps.unheard \ {n})
      BY DEF Aside, Unsaid
    <2> QED BY <1>1, <1>2, <1>3, <1>4, <2>1, ForgottenStep
  <1> QED BY <1>5 DEF ForceRemove, MayOperate, CookieInv

LEMMA ClearJarStep ==
  ASSUME CookieInv, ClearJar
  PROVE  CookieInv'
  <1>1. CookieTyped(browser, jarOrig, jarDelta, setCookie, "building", jarKey, wanted, jarOps)
    BY DEF ClearJar, MayOperate, CookieInv, CookieOK
  <1>2. PICK u \in SUBSET CookieNames :
          u = {n \in CookieNames : Heard(browser, setCookie, n) # NoCookie} /\ Counts(jarOps, jarOps', TRUE, u)
    <2>1. PICK u \in SUBSET CookieNames : u = {n \in CookieNames : Applied(setCookie)[n] # NoCookie}
      OBVIOUS
    <2>2. Counts(jarOps, jarOps', TRUE, u)
      BY <1>1, <2>1, CountedFacts DEF CookieTyped, ClearJar
    <2>3. u = {n \in CookieNames : Heard(browser, setCookie, n) # NoCookie}
      BY <2>1 DEF Applied, Heard
    <2> QED BY <2>2, <2>3
  <1>3. PICK v : v = wanted' /\ v \in [CookieNames -> Cookies] /\ \A n \in CookieNames : v[n] = NoCookie
    BY CookieFacts DEF ClearJar
  <1>4. CookieTyped(browser, {}, {}, setCookie, "building", jarKey, v, jarOps')
    <2>1. IsFiniteSet({})
      BY FS_EmptySet
    <2> QED BY <1>1, <1>2, <1>3, <2>1 DEF CookieTyped, Counts, OneEach
  <1>5. jarOps'.blind /\ jarOps'.unheard = u
    BY <1>2 DEF Counts
  <1>6. \A n \in CookieNames : n \notin u => Comes(browser, {}, setCookie, "building", v, n)
    BY <1>2, <1>3 DEF Comes, Alike
  <1>7. CookieOK(browser, {}, {}, setCookie, "building", jarKey, v, jarOps')
    BY <1>4, <1>5, <1>6 DEF CookieOK, Recalls, Recalled, Excused
  <1> QED BY <1>3, <1>7 DEF ClearJar, MayOperate, CookieInv

\* A name whose headers in list l are those of list s.
LEMMA KeptHeader ==
  ASSUME NEW b \in [CookieNames -> Cookies], NEW s \in Seq(SetCookies), NEW l \in Seq(SetCookies), NEW n \in CookieNames,
         Absent(l, n) => Absent(s, n), \A e : Only(l, n, e) => Only(s, n, e), Once(l, n)
  PROVE  Once(s, n) /\ Heard(b, l, n) = Heard(b, s, n)
  <1>1. CASE Absent(l, n)
    <2>1. Heard(b, l, n) = b[n] /\ Heard(b, s, n) = b[n]
      BY <1>1, HeardFacts
    <2> QED BY <1>1, <2>1 DEF Once
  <1>2. ASSUME NEW e, Only(l, n, e)
        PROVE  Once(s, n) /\ Heard(b, l, n) = Heard(b, s, n)
    <2>1. Only(s, n, e)
      BY <1>2
    <2>2. Heard(b, l, n) = e.c /\ Heard(b, s, n) = e.c
      BY <1>2, <2>1, HeardFacts
    <2> QED BY <2>1, <2>2 DEF Once
  <1> QED BY <1>1, <1>2 DEF Once

\* The headers that a response is left with when it is built, and when they are
\* appended anew but for those of some names.
LEMMA BuiltHeaders ==
  ASSUME NEW b \in [CookieNames -> Cookies], NEW s \in Seq(SetCookies), NEW d \in SUBSET SetCookies, IsFiniteSet(d),
         NEW o \in Orders(d), NEW l, l = AppendAll(s, o)
  PROVE  /\ l \in Seq(SetCookies) /\ \A n : Noticed(s, n) => Noticed(l, n)
         /\ \A n \in CookieNames : Once(l, n) =>
              /\ Once(s, n)
              /\ \/ Named(d, n) = {} /\ Heard(b, l, n) = Heard(b, s, n)
                 \/ \E e \in d : e.name = n /\ Heard(b, l, n) = e.c
  <1>1. o \in Seq(SetCookies) /\ (\A e \in d : \E k \in 1..Len(o) : o[k] = e) /\ \A k \in 1..Len(o) : o[k] \in d
    BY OrderFacts
  <1>2. l \in Seq(SetCookies) /\ Merged(s, o, Len(o), {}, l)
    BY <1>1, AppendExceptFacts DEF AppendAll
  <1>3. ASSUME NEW n \in CookieNames, Before(o, Len(o), {}, n)
        PROVE  Named(d, n) = {}
    BY <1>1, <1>3 DEF Before, Named
  <1>4. ASSUME NEW n \in CookieNames, Once(l, n)
        PROVE  /\ Once(s, n)
               /\ \/ Named(d, n) = {} /\ Heard(b, l, n) = Heard(b, s, n)
                  \/ \E e \in d : e.name = n /\ Heard(b, l, n) = e.c
    <2>1. CASE Absent(l, n)
      <3>1. Absent(s, n) /\ Before(o, Len(o), {}, n)
        BY <1>2, <2>1 DEF Merged
      <3>2. Heard(b, l, n) = b[n] /\ Heard(b, s, n) = b[n]
        BY <1>2, <2>1, <3>1, HeardFacts
      <3> QED BY <1>3, <3>1, <3>2 DEF Once
    <2>2. ASSUME NEW e, Only(l, n, e)
          PROVE  /\ Once(s, n)
                 /\ \/ Named(d, n) = {} /\ Heard(b, l, n) = Heard(b, s, n)
                    \/ \E a \in d : a.name = n /\ Heard(b, l, n) = a.c
      <3>1. Heard(b, l, n) = e.c
        BY <1>2, <2>2, HeardFacts
      <3>2. (Only(s, n, e) /\ Before(o, Len(o), {}, n)) \/ (Absent(s, n) /\ OnlyTo(o, Len(o), {}, n, e))
        BY <1>2, <2>2 DEF Merged
      <3>3. CASE Only(s, n, e) /\ Before(o, Len(o), {}, n)
        <4>1. Heard(b, s, n) = e.c
          BY <3>3, HeardFacts
        <4> QED BY <1>3, <3>1, <3>3, <4>1 DEF Once
      <3>4. CASE Absent(s, n) /\ OnlyTo(o, Len(o), {}, n, e)
        <4>1. e \in d /\ e.name = n
          BY <1>1, <3>4 DEF OnlyTo
        <4> QED BY <3>1, <3>4, <4>1 DEF Once
      <3> QED BY <3>2, <3>3, <3>4
    <2> QED BY <1>4, <2>1, <2>2 DEF Once
  <1>5. ASSUME NEW n, Noticed(s, n)
        PROVE  Noticed(l, n)
    <2>1. PICK e : Has(s, e) /\ e.name = n /\ Unreadable(e.c)
      BY <1>5 DEF Noticed, Has
    <2>2. Has(l, e)
      BY <1>2, <2>1 DEF Merged
    <2> QED BY <2>1, <2>2 DEF Noticed, Has
  <1> QED BY <1>2, <1>4, <1>5

LEMMA RewrittenHeaders ==
  ASSUME NEW b \in [CookieNames -> Cookies], NEW s \in Seq(SetCookies), NEW G, NEW l, l = AppendExcept(<< >>, s, G)
  PROVE  /\ l \in Seq(SetCookies)
         /\ \A n : (\A e \in G : ~Unreadable(e.c)) /\ Noticed(s, n) => Noticed(l, n)
         /\ \A n : Before(s, Len(s), G, n) => Absent(l, n)
         /\ \A n \in CookieNames : (\A e \in G : e.name # n) /\ Once(l, n) =>
              Once(s, n) /\ Heard(b, l, n) = Heard(b, s, n)
  <1>1. << >> \in Seq(SetCookies) /\ (\A n : Absent(<< >>, n)) /\ \A n, e : ~Only(<< >>, n, e)
    BY DEF Absent, Only
  <1>2. l \in Seq(SetCookies) /\ Merged(<< >>, s, Len(s), G, l)
    BY <1>1, AppendExceptFacts
  <1>3. \A n : Before(s, Len(s), G, n) => Absent(l, n)
    BY <1>1, <1>2 DEF Merged
  <1>4. ASSUME NEW n \in CookieNames, \A e \in G : e.name # n, Once(l, n)
        PROVE  Once(s, n) /\ Heard(b, l, n) = Heard(b, s, n)
    <2>1. Absent(l, n) => Absent(s, n)
      BY <1>2, <1>4 DEF Merged, Before, Absent
    <2>2. \A e : Only(l, n, e) => Only(s, n, e)
      <3>1. ASSUME NEW e, Only(l, n, e)
            PROVE  OnlyTo(s, Len(s), G, n, e)
        BY <1>1, <1>2, <3>1 DEF Merged
      <3> QED BY <1>4, <3>1 DEF OnlyTo, Only
    <2> QED BY <1>2, <1>4, <2>1, <2>2, KeptHeader
  <1>5. ASSUME NEW n, \A e \in G : ~Unreadable(e.c), Noticed(s, n)
        PROVE  Noticed(l, n)
    <2>1. PICK e : HasTo(s, Len(s), G, e) /\ e.name = n /\ Unreadable(e.c)
      BY <1>5 DEF Noticed, HasTo
    <2>2. Has(l, e)
      BY <1>2, <2>1 DEF Merged
    <2> QED BY <2>1, <2>2 DEF Noticed, Has
  <1> QED BY <1>2, <1>3, <1>4, <1>5

\* The response is built, changed, taken apart again and delivered.
LEMMA SendCookiesStep ==
  ASSUME CookieInv, SendCookies
  PROVE  CookieInv'
  <1>1. CookieTyped(browser, jarOrig, jarDelta, setCookie, "idle", jarKey, wanted, jarOps)
    BY DEF SendCookies, CookieInv, CookieOK
  <1>2. PICK v : v = wanted' /\ v = [n \in CookieNames |-> Decode64(browser[n])]
    BY DEF SendCookies
  <1>3. PICK unread \in BOOLEAN, sent \in SUBSET CookieNames :
          /\ sent = IF unread THEN {} ELSE {n \in CookieNames : browser[n] # NoCookie}
          /\ jarOrig' = {Added(n, Decode64(browser[n])) : n \in sent}
          /\ jarOps' = [n |-> jarOps.n, twice |-> FALSE, blind |-> unread, unheard |-> {}]
    <2>1. PICK unread \in BOOLEAN : unread = \E n \in CookieNames : Undecodable(browser[n])
      OBVIOUS
    <2>2. PICK sent \in SUBSET CookieNames : sent = IF unread THEN {} ELSE {n \in CookieNames : browser[n] # NoCookie}
      OBVIOUS
    <2> QED BY <2>1, <2>2 DEF SendCookies
  <1>4. PICK o : o = jarOrig' /\ o = {Added(n, Decode64(browser[n])) : n \in sent}
    BY <1>3
  <1>5. PICK i : i = jarOps' /\ i \in JarCounts /\ i.unheard = {} /\ (i.blind <=> unread)
    <2>1. PICK i : i = jarOps' /\ i = [n |-> jarOps.n, twice |-> FALSE, blind |-> unread, unheard |-> {}]
      BY <1>3
    <2>2. i \in JarCounts
      BY <1>1, <2>1 DEF CookieTyped, JarCounts
    <2>3. i.unheard = {} /\ (i.blind <=> unread)
      BY <2>1
    <2> QED BY <2>1, <2>2, <2>3
  <1>6. v \in [CookieNames -> Cookies] /\ \A n \in CookieNames : v[n] = Decode64(browser[n]) /\ Decode64(v[n]) = v[n]
    BY <1>1, <1>2, CookieFacts DEF CookieTyped
  <1>7. /\ o \in SUBSET SetCookies /\ OneEach(o)
        /\ \A n \in sent : \E a \in o : a.name = n /\ a.c = v[n]
        /\ \A n \in CookieNames : n \notin sent => Named(o, n) = {}
    <2>1. ASSUME NEW a \in o
          PROVE  a \in SetCookies /\ a.name \in sent /\ a = Added(a.name, v[a.name])
      <3>1. PICK n \in sent : a = Added(n, v[n])
        BY <1>4, <1>6
      <3> QED BY <1>6, <3>1, HeaderFacts
    <2>2. ASSUME NEW n \in sent
          PROVE  \E a \in o : a.name = n /\ a.c = v[n]
      <3>1. Added(n, v[n]) \in o
        BY <1>4, <1>6
      <3> QED BY <1>6, <3>1, HeaderFacts
    <2>3. OneEach(o)
      BY <2>1 DEF OneEach
    <2>4. \A n \in CookieNames : n \notin sent => Named(o, n) = {}
      BY <2>1 DEF Named
    <2> QED BY <2>1, <2>2, <2>3, <2>4
  <1>8. CookieTyped(browser, o, {}, << >>, "building", jarKey, v, i)
    <2>1. IsFiniteSet({}) /\ OneEach({}) /\ << >> \in Seq(SetCookies)
      BY FS_EmptySet DEF OneEach
    <2> QED BY <1>1, <1>5, <1>6, <1>7, <2>1 DEF CookieTyped
  <1>9. ~unread => \A n \in CookieNames : n \notin sent => browser[n] = NoCookie
    BY <1>3
  <1>10. Recalls(browser, o, << >>, "building", i)
    <2>1. ~unread => \A n \in CookieNames : Named(o, n) = {} => browser[n] = NoCookie
      BY <1>7, <1>9 DEF Named
    <2> QED BY <1>5, <2>1 DEF Recalls
  <1>11. ASSUME NEW n \in CookieNames
         PROVE  Comes(browser, {}, << >>, "building", v, n) /\ Recalled(o, {}, "building", v, i, n)
    <2>1. Heard(browser, << >>, n) = browser[n]
      <3>1. Absent(<< >>, n) /\ << >> \in Seq(SetCookies)
        BY DEF Absent
      <3> QED BY <1>8, <3>1, HeardFacts DEF CookieTyped
    <2>2. Comes(browser, {}, << >>, "building", v, n)
      BY <1>6, <2>1 DEF Comes, Alike
    <2>3. ~unread => Got(o, {}, n) = v[n]
      <3>1. OneEach({}) /\ {} \in SUBSET SetCookies /\ Named({}, n) = {}
        BY DEF OneEach, Named
      <3>2. CASE n \in sent
        <4>1. PICK a \in o : a.name = n /\ a.c = v[n]
          BY <1>7, <3>2
        <4> QED BY <1>7, <3>1, <4>1, GotFacts
      <3>3. CASE n \notin sent /\ ~unread
        <4>1. v[n] = NoCookie /\ Named(o, n) = {}
          BY <1>6, <1>7, <1>9, <3>3, CookieFacts
        <4> QED BY <1>7, <3>1, <4>1, GotFacts
      <3> QED BY <3>2, <3>3
    <2> QED BY <1>5, <2>2, <2>3 DEF Recalled
  <1>12. CookieOK(browser, o, {}, << >>, "building", jarKey, v, i)
    BY <1>5, <1>8, <1>10, <1>11 DEF CookieOK, Excused
  <1> QED BY <1>2, <1>4, <1>5, <1>12 DEF SendCookies, CookieInv

LEMMA BuildResponseStep ==
  ASSUME CookieInv, BuildResponse
  PROVE  CookieInv'
  <1>1. CookieOK(browser, jarOrig, jarDelta, setCookie, "building", jarKey, wanted, jarOps)
    BY DEF BuildResponse, CookieInv
  <1>2. CookieTyped(browser, jarOrig, jarDelta, setCookie, "building", jarKey, wanted, jarOps) /\ Excused(setCookie, jarOps)
    BY <1>1 DEF CookieOK
  <1>3. PICK s \in Orders(jarDelta) : setCookie' = IF Unprintable THEN << >> ELSE AppendAll(setCookie, s)
    BY DEF BuildResponse
  <1>4. ASSUME NEW l \in Seq(SetCookies), NEW v \in [CookieNames -> Cookies], NEW i \in JarCounts, Excused(l, i),
               \A n \in CookieNames : ~i.twice /\ n \notin i.unheard /\ Once(l, n) => Alike(Heard(browser, l, n), v[n])
        PROVE  CookieOK(browser, jarOrig, jarDelta, l, "built", jarKey, v, i)
    <2>1. CookieTyped(browser, jarOrig, jarDelta, l, "built", jarKey, v, i)
      BY <1>2, <1>4 DEF CookieTyped
    <2>2. \A n \in CookieNames : ~i.twice /\ n \notin i.unheard => Comes(browser, jarDelta, l, "built", v, n)
      BY <1>4 DEF Comes
    <2> QED BY <1>4, <2>1, <2>2 DEF CookieOK, Recalls, Recalled
  <1>5. CASE Unprintable
    <2>1. \A n \in CookieNames : Heard(browser, << >>, n) = browser[n]
      <3>1. \A n : Absent(<< >>, n) /\ << >> \in Seq(SetCookies)
        BY DEF Absent
      <3> QED BY <1>2, <3>1, HeardFacts DEF CookieTyped
    <2>2. PICK i : i = jarOps' /\ i \in JarCounts /\ i.unheard = {}
      <3>1. PICK i : i = jarOps' /\ i = [jarOps EXCEPT !.unheard = {}]
        BY <1>5 DEF BuildResponse
      <3>2. i \in JarCounts /\ i.unheard = {}
        BY <1>2, <3>1 DEF CookieTyped, JarCounts
      <3> QED BY <3>1, <3>2
    <2>3. /\ << >> \in Seq(SetCookies) /\ browser \in [CookieNames -> Cookies] /\ Excused(<< >>, i)
          /\ \A n \in CookieNames : Alike(Heard(browser, << >>, n), browser[n])
      BY <1>2, <2>1, <2>2 DEF CookieTyped, Alike, Excused
    <2>4. CookieOK(browser, jarOrig, jarDelta, << >>, "built", jarKey, browser, i)
      BY <1>4, <2>2, <2>3, Zenon
    <2> QED BY <1>3, <1>5, <2>2, <2>4 DEF BuildResponse, CookieInv
  <1>6. CASE ~Unprintable
    <2>1. PICK l : l = setCookie' /\ l = AppendAll(setCookie, s)
      BY <1>3, <1>6
    <2>2. /\ l \in Seq(SetCookies) /\ \A n : Noticed(setCookie, n) => Noticed(l, n)
          /\ \A n \in CookieNames : Once(l, n) =>
               /\ Once(setCookie, n)
               /\ \/ Named(jarDelta, n) = {} /\ Heard(browser, l, n) = Heard(browser, setCookie, n)
                  \/ \E e \in jarDelta : e.name = n /\ Heard(browser, l, n) = e.c
      BY <1>2, <2>1, BuiltHeaders DEF CookieTyped
    <2>3. ASSUME NEW n \in CookieNames, ~jarOps.twice, n \notin jarOps.unheard, Once(l, n)
          PROVE  Alike(Heard(browser, l, n), wanted[n])
      <3>1. Comes(browser, jarDelta, setCookie, "building", wanted, n)
        BY <1>1, <2>3 DEF CookieOK
      <3> QED BY <2>2, <2>3, <3>1 DEF Comes
    <2>4. Excused(l, jarOps)
      BY <1>2, <2>2 DEF Excused
    <2>5. CookieOK(browser, jarOrig, jarDelta, l, "built", jarKey, wanted, jarOps)
      BY <1>2, <1>4, <2>2, <2>3, <2>4 DEF CookieTyped
    <2> QED BY <1>6, <2>1, <2>5 DEF BuildResponse, CookieInv
  <1> QED BY <1>5, <1>6

\* A change of name n in a response that is built: list s becomes l, which has c for n,
\* or headers of n that nobody can read if n is in u.
Changes(b, s, l, n, c, u) ==
  /\ l \in Seq(SetCookies) /\ (n \notin u /\ Once(l, n) => Heard(b, l, n) = c) /\ (n \in u => Noticed(l, n))
  /\ \A m \in CookieNames : m # n =>
       /\ Noticed(s, m) => Noticed(l, m)
       /\ Once(l, m) => Once(s, m) /\ Heard(b, l, m) = Heard(b, s, m)

LEMMA BuiltStep ==
  ASSUME NEW b, NEW o, NEW d, NEW s, NEW k, NEW w, NEW j, CookieOK(b, o, d, s, "built", k, w, j),
         NEW n \in CookieNames, NEW c \in Cookies, NEW v, Wishes(w, v, n, c),
         NEW i, NEW u, Counts(j, i, FALSE, u), Aside(j.unheard, u, n), NEW l, Changes(b, s, l, n, c, u)
  PROVE  CookieOK(b, o, d, l, "built", k, v, i)
  <1>1. v \in [CookieNames -> Cookies] /\ v[n] = c /\ \A m \in CookieNames : m # n => v[m] = w[m]
    BY DEF CookieOK, CookieTyped, Wishes
  <1>2. CookieTyped(b, o, d, l, "built", k, v, i)
    BY <1>1 DEF CookieOK, CookieTyped, Counts, Changes
  <1>3. i.unheard = u /\ \A m \in CookieNames : m # n => (m \in u <=> m \in j.unheard)
    BY DEF Counts, Aside
  <1>4. ASSUME ~i.twice, NEW m \in CookieNames, m \notin i.unheard
        PROVE  Comes(b, d, l, "built", v, m)
    <2>1. m # n => Comes(b, d, s, "built", w, m)
      BY <1>3, <1>4 DEF CookieOK, Counts
    <2>2. Once(l, m) => Alike(Heard(b, l, m), v[m])
      <3>1. CASE m = n
        BY <1>1, <1>3, <1>4, <3>1 DEF Alike, Changes
      <3>2. CASE m # n
        BY <1>1, <2>1, <3>2 DEF Comes, Changes
      <3> QED BY <3>1, <3>2
    <2> QED BY <2>2 DEF Comes
  <1>5. Excused(l, i)
    <2>1. ASSUME NEW m \in i.unheard
          PROVE  i.blind \/ Noticed(l, m)
      <3>1. m \in CookieNames
        BY <1>2, <2>1 DEF CookieTyped, JarCounts
      <3>2. CASE m = n
        BY <1>3, <2>1, <3>2 DEF Changes
      <3>3. CASE m # n
        <4>1. j.blind \/ Noticed(s, m)
          BY <1>3, <2>1, <3>1, <3>3 DEF CookieOK, Excused
        <4> QED BY <3>1, <3>3, <4>1 DEF Changes, Counts
      <3> QED BY <3>2, <3>3
    <2> QED BY <2>1 DEF Excused
  <1> QED BY <1>2, <1>4, <1>5 DEF CookieOK, Recalls, Recalled

LEMMA AddToResponseStep ==
  ASSUME CookieInv, NEW n \in CookieNames, AddToResponse(n)
  PROVE  CookieInv'
  <1>1. CookieOK(browser, jarOrig, jarDelta, setCookie, "built", jarKey, wanted, jarOps)
    BY DEF AddToResponse, MayOperate, CookieInv
  <1>2. CookieTyped(browser, jarOrig, jarDelta, setCookie, "built", jarKey, wanted, jarOps)
    BY <1>1 DEF CookieOK
  <1>3. Counts(jarOps, jarOps', FALSE, jarOps.unheard \ {n})
    <2>1. jarOps \in JarCounts /\ jarOps.unheard \ {n} \in SUBSET CookieNames
      BY <1>2 DEF CookieTyped, JarCounts
    <2> QED BY <2>1, CountedFacts DEF AddToResponse
  <1>4. PICK c \in Cookies : c = Made("plain", "text")
    <2>1. PICK u \in {<<"plain", "text">>} : u[1] = "plain" /\ u[2] = "text"
      OBVIOUS
    <2>2. Made(u[1], u[2]) \in Cookies
      BY <1>2, <2>1, MadeFacts DEF CookieTyped
    <2> QED BY <2>1, <2>2
  <1>5. PICK a \in SetCookies : a = Added(n, c) /\ a.name = n /\ a.c = c
    BY HeaderFacts
  <1>6. PICK l : l = setCookie' /\ l = AppendValue(setCookie, a)
    BY <1>4, <1>5 DEF AddToResponse
  <1>7. l \in Seq(SetCookies) /\ Added1(setCookie, a, l)
    BY <1>2, <1>6, AppendValueAdds DEF CookieTyped
  <1>8. Wishes(wanted, wanted', n, c)
    BY <1>4 DEF Wishes, AddToResponse
  <1>9. Once(l, n) => Heard(browser, l, n) = c
    <2>1. ~Absent(l, n)
      BY <1>5, <1>7 DEF Added1
    <2>2. ASSUME NEW e, Only(l, n, e)
          PROVE  Heard(browser, l, n) = c
      <3>1. e = a
        BY <1>5, <1>7, <2>2 DEF Added1
      <3> QED BY <1>2, <1>5, <1>7, <2>2, <3>1, HeardFacts DEF CookieTyped
    <2> QED BY <2>1, <2>2 DEF Once
  <1>10. ASSUME NEW m \in CookieNames, m # n, Once(l, m)
         PROVE  Once(setCookie, m) /\ Heard(browser, l, m) = Heard(browser, setCookie, m)
    <2>1. Absent(l, m) => Absent(setCookie, m)
      BY <1>7 DEF Added1
    <2>2. \A e : Only(l, m, e) => Only(setCookie, m, e)
      BY <1>5, <1>7, <1>10 DEF Added1
    <2> QED BY <1>2, <1>7, <1>10, <2>1, <2>2, KeptHeader DEF CookieTyped
  <1>11. CookieOK(browser, jarOrig, jarDelta, l, "built", jarKey, wanted', jarOps')
    <2>1. \A m : Noticed(setCookie, m) => Noticed(l, m)
      <3>1. \A e : Has(setCookie, e) => Has(l, e)
        BY <1>7 DEF Added1
      <3> QED BY <3>1 DEF Noticed, Has
    <2>2. Changes(browser, setCookie, l, n, c, jarOps.unheard \ {n})
      BY <1>7, <1>9, <1>10, <2>1 DEF Changes
    <2>3. Aside(jarOps.unheard, jarOps.unheard \ {n}, n)
      BY DEF Aside
    <2> QED BY <1>1, <1>3, <1>8, <2>2, <2>3, BuiltStep
  <1> QED BY <1>6, <1>11 DEF AddToResponse, MayOperate, CookieInv

LEMMA DelFromResponseStep ==
  ASSUME CookieInv, NEW n \in CookieNames, DelFromResponse(n)
  PROVE  CookieInv'
  <1>1. CookieOK(browser, jarOrig, jarDelta, setCookie, "built", jarKey, wanted, jarOps)
    BY DEF DelFromResponse, MayOperate, CookieInv
  <1>2. CookieTyped(browser, jarOrig, jarDelta, setCookie, "built", jarKey, wanted, jarOps)
    BY <1>1 DEF CookieOK
  <1>3. Range(setCookie) \in SUBSET SetCookies /\ \A k \in 1..Len(setCookie) : setCookie[k] \in Range(setCookie)
    BY <1>2 DEF CookieTyped, Range
  <1>4. PICK u \in SUBSET CookieNames :
          /\ u = IF Noticed(setCookie, n) THEN jarOps.unheard \cup {n} ELSE jarOps.unheard \ {n}
          /\ Counts(jarOps, jarOps', FALSE, u)
    <2>1. jarOps \in JarCounts /\ jarOps.unheard \in SUBSET CookieNames
      BY <1>2 DEF CookieTyped, JarCounts
    <2>2. PICK u : u = IF \E d \in Range(setCookie) : d.name = n /\ Unreadable(d.c)
                       THEN jarOps.unheard \cup {n} ELSE jarOps.unheard \ {n}
      OBVIOUS
    <2>3. (\E d \in Range(setCookie) : d.name = n /\ Unreadable(d.c)) <=> Noticed(setCookie, n)
      BY <1>2, <1>3 DEF CookieTyped, Range, Noticed
    <2>4. u \in SUBSET CookieNames
      BY <2>1, <2>2
    <2>5. Counts(jarOps, jarOps', FALSE, u)
      BY <2>1, <2>2, <2>4, CountedFacts DEF DelFromResponse
    <2> QED BY <2>2, <2>3, <2>4, <2>5
  <1>5. PICK G : G = {d \in Range(setCookie) : d.name = n /\ ~Unreadable(d.c)}
    OBVIOUS
  <1>6. PICK l : l = setCookie' /\ l = AppendExcept(<< >>, setCookie, G)
    BY <1>5 DEF DelFromResponse
  <1>7. /\ l \in Seq(SetCookies) /\ (\A m : Noticed(setCookie, m) => Noticed(l, m))
        /\ (Before(setCookie, Len(setCookie), G, n) => Absent(l, n))
        /\ \A m \in CookieNames : m # n /\ Once(l, m) =>
             Once(setCookie, m) /\ Heard(browser, l, m) = Heard(browser, setCookie, m)
    <2>1. (\A e \in G : ~Unreadable(e.c)) /\ \A m : m # n => \A e \in G : e.name # m
      BY <1>5
    <2>2. PICK b \in [CookieNames -> Cookies], s \in Seq(SetCookies) : b = browser /\ s = setCookie
      BY <1>2 DEF CookieTyped
    <2>3. l = AppendExcept(<< >>, s, G)
      BY <1>6, <2>2
    <2>4. /\ l \in Seq(SetCookies)
          /\ \A m : (\A e \in G : ~Unreadable(e.c)) /\ Noticed(s, m) => Noticed(l, m)
          /\ \A m : Before(s, Len(s), G, m) => Absent(l, m)
          /\ \A m \in CookieNames : (\A e \in G : e.name # m) /\ Once(l, m) =>
               Once(s, m) /\ Heard(b, l, m) = Heard(b, s, m)
      BY <2>3, RewrittenHeaders
    <2>5. \A m \in CookieNames : m # n => \A e \in G : e.name # m
      BY <2>1
    <2> QED BY <2>1, <2>2, <2>4, <2>5
  <1>8. PICK c \in Cookies : c = browser[n]
    BY <1>2 DEF CookieTyped
  <1>9. Wishes(wanted, wanted', n, c)
    BY <1>8 DEF Wishes, DelFromResponse
  <1>10. ASSUME n \notin u
         PROVE  Heard(browser, l, n) = c
    <2>1. ~Noticed(setCookie, n)
      BY <1>4, <1>10
    <2>2. Before(setCookie, Len(setCookie), G, n)
      BY <1>3, <1>5, <2>1 DEF Before, Noticed
    <2> QED BY <1>2, <1>7, <1>8, <2>2, HeardFacts DEF CookieTyped
  <1>11. CookieOK(browser, jarOrig, jarDelta, l, "built", jarKey, wanted', jarOps')
    <2>1. n \in u => Noticed(l, n)
      BY <1>4, <1>7
    <2>2. Changes(browser, setCookie, l, n, c, u)
      BY <1>7, <1>10, <2>1 DEF Changes
    <2>3. Aside(jarOps.unheard, u, n)
      BY <1>4 DEF Aside
    <2> QED BY <1>1, <1>4, <1>9, <2>2, <2>3, BuiltStep
  <1> QED BY <1>6, <1>11 DEF DelFromResponse, MayOperate, CookieInv

LEMMA RebuildResponseStep ==
  ASSUME CookieInv, RebuildResponse
  PROVE  CookieInv'
  <1>1. CookieOK(browser, jarOrig, jarDelta, setCookie, "built", jarKey, wanted, jarOps)
    BY DEF RebuildResponse, MayOperate, CookieInv
  <1>2. CookieTyped(browser, jarOrig, jarDelta, setCookie, "built", jarKey, wanted, jarOps)
    BY <1>1 DEF CookieOK
  <1>3. Counts(jarOps, jarOps', TRUE, jarOps.unheard)
    BY <1>2, CountedFacts DEF CookieTyped, RebuildResponse, JarCounts
  <1>4. PICK last : last = {i \in Listed(setCookie) : \A j \in Listed(setCookie) : j > i => setCookie[j].name # setCookie[i].name}
    OBVIOUS
  <1>5. PICK o : o = jarOrig' /\ o = {Added(setCookie[k].name, Decode64(setCookie[k].c)) : k \in last}
    BY <1>4 DEF RebuildResponse
  <1>6. o \in SUBSET SetCookies /\ OneEach(o)
    <2>1. ASSUME NEW k \in last
          PROVE  /\ k \in Listed(setCookie) /\ k \in Int /\ setCookie[k].name \in CookieNames
                 /\ Decode64(setCookie[k].c) \in Cookies
      <3>1. k \in Listed(setCookie) /\ k \in 1..Len(setCookie)
        BY <1>4 DEF Listed
      <3>2. setCookie[k] \in SetCookies
        BY <1>2, <3>1 DEF CookieTyped
      <3>3. setCookie[k].name \in CookieNames /\ setCookie[k].c \in Cookies
        BY <3>2 DEF SetCookies
      <3> QED BY <3>1, <3>3, CookieFacts
    <2>2. ASSUME NEW a \in o
          PROVE  \E k \in last : a \in SetCookies /\ a.name = setCookie[k].name /\ a = Added(a.name, Decode64(setCookie[k].c))
      <3>1. PICK k \in last : a = Added(setCookie[k].name, Decode64(setCookie[k].c))
        BY <1>5
      <3>2. PICK n \in CookieNames, c \in Cookies : n = setCookie[k].name /\ c = Decode64(setCookie[k].c)
        BY <2>1
      <3>3. a \in SetCookies /\ a.name = n
        BY <3>1, <3>2, HeaderFacts
      <3> QED BY <3>1, <3>2, <3>3
    <2>3. ASSUME NEW k \in last, NEW m \in last, setCookie[k].name = setCookie[m].name
          PROVE  k = m
      <3>1. ~(k > m) /\ ~(m > k)
        BY <1>4, <2>1, <2>3
      <3> QED BY <2>1, <3>1
    <2>4. OneEach(o)
      <3>1. ASSUME NEW a \in o, NEW e \in o, a.name = e.name
            PROVE  a = e
        <4>1. PICK k \in last : a.name = setCookie[k].name /\ a = Added(a.name, Decode64(setCookie[k].c))
          BY <2>2
        <4>2. PICK m \in last : e.name = setCookie[m].name /\ e = Added(e.name, Decode64(setCookie[m].c))
          BY <2>2
        <4>3. k = m
          BY <2>3, <3>1, <4>1, <4>2
        <4> QED BY <3>1, <4>1, <4>2, <4>3
      <3> QED BY <3>1 DEF OneEach
    <2> QED BY <2>2, <2>4
  <1>7. PICK l : l = setCookie' /\ l \in Seq(SetCookies)
                 /\ \A n \in CookieNames : Once(l, n) => Once(setCookie, n) /\ Heard(browser, l, n) = Heard(browser, setCookie, n)
    <2>1. CASE setCookie' = setCookie
      BY <1>2, <2>1 DEF CookieTyped
    <2>2. CASE setCookie' = AppendAll(<< >>, setCookie)
      <3>1. PICK l : l = setCookie' /\ l = AppendExcept(<< >>, setCookie, {})
        BY <2>2 DEF AppendAll
      <3> QED BY <1>2, <3>1, RewrittenHeaders DEF CookieTyped
    <2> QED BY <2>1, <2>2 DEF RebuildResponse
  <1>8. CookieTyped(browser, o, {}, l, "building", jarKey, wanted, jarOps')
    <2>1. IsFiniteSet({}) /\ OneEach({})
      BY FS_EmptySet DEF OneEach
    <2> QED BY <1>2, <1>3, <1>6, <1>7, <2>1 DEF CookieTyped, Counts
  <1>9. jarOps'.blind /\ (jarOps'.twice <=> jarOps.twice) /\ jarOps'.unheard = jarOps.unheard
    BY <1>3 DEF Counts
  <1>10. ASSUME NEW n \in CookieNames, ~jarOps.twice, n \notin jarOps.unheard
         PROVE  Comes(browser, {}, l, "building", wanted, n)
    <2>1. Comes(browser, jarDelta, setCookie, "built", wanted, n)
      BY <1>1, <1>10 DEF CookieOK
    <2> QED BY <1>7, <2>1 DEF Comes
  <1>11. CookieOK(browser, o, {}, l, "building", jarKey, wanted, jarOps')
    BY <1>8, <1>9, <1>10 DEF CookieOK, Recalls, Recalled, Excused
  <1> QED BY <1>5, <1>7, <1>11 DEF RebuildResponse, CookieInv

LEMMA DeliverStep ==
  ASSUME CookieInv, Deliver
  PROVE  CookieInv'
  <1>1. CookieOK(browser, jarOrig, jarDelta, setCookie, "built", jarKey, wanted, jarOps)
    BY DEF Deliver, CookieInv
  <1>2. CookieTyped(browser, jarOrig, jarDelta, setCookie, "built", jarKey, wanted, jarOps)
    BY <1>1 DEF CookieOK
  <1>3. PICK b : b = browser' /\ b = [n \in CookieNames |-> Heard(browser, setCookie, n)]
    BY DEF Deliver, Applied, Heard
  <1>4. b \in [CookieNames -> Cookies] /\ \A n \in CookieNames : b[n] = Heard(browser, setCookie, n)
    BY <1>2, <1>3, HeardFacts DEF CookieTyped
  <1>5. PICK i : /\ i = jarOps' /\ i \in JarCounts /\ i.unheard = jarOps.unheard /\ (i.blind <=> jarOps.blind)
                 /\ (i.twice <=> (jarOps.twice \/ SetTwice(setCookie)))
    <2>1. PICK t \in BOOLEAN : t = (jarOps.twice \/ SetTwice(setCookie))
      BY <1>2 DEF CookieTyped
    <2>2. PICK i : i = jarOps' /\ i = [jarOps EXCEPT !.twice = t]
      BY <2>1 DEF Deliver
    <2>3. i \in JarCounts /\ i.unheard = jarOps.unheard /\ (i.blind <=> jarOps.blind) /\ i.twice = t
      BY <1>2, <2>2 DEF CookieTyped, JarCounts
    <2>4. i.twice <=> (jarOps.twice \/ SetTwice(setCookie))
      BY <2>1, <2>3, Zenon
    <2> QED BY <2>2, <2>3, <2>4, Zenon
  <1>6. ASSUME ~SetTwice(setCookie), NEW n
        PROVE  Once(setCookie, n)
    <2>1. CASE \E k \in 1..Len(setCookie) : setCookie[k].name = n
      <3>1. PICK k \in 1..Len(setCookie) : setCookie[k].name = n
        BY <2>1
      <3>2. \A m \in 1..Len(setCookie) : setCookie[m].name = n => m = k
        BY <1>6, <3>1 DEF SetTwice
      <3> QED BY <3>1, <3>2 DEF Once, Only
    <2>2. CASE ~\E k \in 1..Len(setCookie) : setCookie[k].name = n
      BY <2>2 DEF Once, Absent
    <2> QED BY <2>1, <2>2
  <1>7. CookieTyped(b, jarOrig, jarDelta, setCookie, "idle", jarKey, wanted, i)
    BY <1>2, <1>4, <1>5 DEF CookieTyped
  <1>8. ASSUME ~i.twice, NEW n \in CookieNames, n \notin i.unheard
        PROVE  Comes(b, jarDelta, setCookie, "idle", wanted, n)
    <2>1. Comes(browser, jarDelta, setCookie, "built", wanted, n)
      BY <1>1, <1>5, <1>8 DEF CookieOK
    <2> QED BY <1>4, <1>5, <1>6, <1>8, <2>1 DEF Comes
  <1>9. CookieOK(b, jarOrig, jarDelta, setCookie, "idle", jarKey, wanted, i)
    <2>1. Excused(setCookie, i)
      BY <1>1, <1>5 DEF CookieOK, Excused
    <2> QED BY <1>7, <1>8, <2>1 DEF CookieOK, Recalls, Recalled
  <1> QED BY <1>3, <1>5, <1>9 DEF Deliver, CookieInv

LEMMA CookieInitOK == CookieInit => CookieInv
  <1> SUFFICES ASSUME CookieInit
               PROVE  CookieInv
    OBVIOUS
  <1>1. jarOps \in JarCounts /\ jarOps.unheard = {} /\ browser \in [CookieNames -> Cookies]
    BY CookieFacts DEF CookieInit, JarCounts
  <1>2. IsFiniteSet({}) /\ OneEach({}) /\ << >> \in Seq(SetCookies)
    BY FS_EmptySet DEF OneEach
  <1>3. CookieTyped(browser, {}, {}, << >>, "idle", 1, browser, jarOps)
    BY <1>1, <1>2 DEF CookieTyped
  <1>4. CookieOK(browser, {}, {}, << >>, "idle", 1, browser, jarOps)
    BY <1>1, <1>3 DEF CookieOK, Recalls, Recalled, Comes, Alike, Excused
  <1> QED BY <1>4 DEF CookieInit, CookieInv

LEMMA CookieInvStep == CookieInv /\ [CookieNext]_cookies => CookieInv'
  <1> SUFFICES ASSUME CookieInv, [CookieNext]_cookies
               PROVE  CookieInv'
    OBVIOUS
  <1>1. CASE UNCHANGED cookies
    BY <1>1 DEF cookies, CookieInv
  <1>2. CASE NewKey
    <2>1. CookieOK(browser, jarOrig, jarDelta, setCookie, phase, 2, wanted, jarOps)
      BY DEF CookieInv, CookieOK, CookieTyped
    <2> QED BY <1>2, <2>1 DEF NewKey, CookieInv
  <1>3. CASE SendCookies \/ ClearJar \/ BuildResponse \/ RebuildResponse \/ Deliver
    BY <1>3, SendCookiesStep, ClearJarStep, BuildResponseStep, RebuildResponseStep, DeliverStep
  <1>4. ASSUME NEW n \in CookieNames,
               RemoveFromJar(n) \/ DelCookie(n) \/ ForceRemove(n) \/ AddToResponse(n) \/ DelFromResponse(n)
        PROVE  CookieInv'
    BY <1>4, RemoveFromJarStep, DelCookieStep, ForceRemoveStep, AddToResponseStep, DelFromResponseStep
  <1>5. ASSUME NEW n \in CookieNames, NEW w \in CookieWrites, AddToJar(n, w)
        PROVE  CookieInv'
    BY <1>5, AddToJarStep
  <1> QED BY <1>1, <1>2, <1>3, <1>4, <1>5 DEF CookieNext

\* What a child makes of a cookie that the jar shows is genuine.
LEMMA CookieInvArrives == CookieInv => CookiesArrive
  <1> SUFFICES ASSUME CookieInv
               PROVE  CookiesArrive
    OBVIOUS
  <1>1. CookieTyped(browser, jarOrig, jarDelta, setCookie, phase, jarKey, wanted, jarOps)
    BY DEF CookieInv, CookieOK
  <1>2. \A n : JarGet(n) = Got(jarOrig, jarDelta, n)
    BY DEF JarGet, Got
  <1>3. ASSUME ~jarOps.twice, NEW n \in CookieNames
        PROVE  /\ phase = "idle" /\ n \notin jarOps.unheard => Decode64(browser[n]) = Decode64(wanted[n])
               /\ phase = "building" /\ ~jarOps.blind => JarGet(n) = wanted[n]
    BY <1>2, <1>3 DEF CookieInv, CookieOK, Comes, Alike, Recalled
  <1>4. ASSUME NEW n \in CookieNames, NEW how \in {"signed", "private"}, ChildGet(n, how) # "none"
        PROVE  JarGet(n).key = jarKey /\ <<how, ChildGet(n, how)>> \in CookieWrites
    <2>1. PICK c \in Cookies : c = JarGet(n)
      BY <1>1, <1>2, GotFacts DEF CookieTyped
    <2>2. ChildGet(n, how) = IF c.how # how \/ c.key # jarKey \/ (how = "signed" /\ c.mac # c.v) THEN "none" ELSE c.v
      BY <2>1 DEF ChildGet
    <2>3. c.how = how /\ c.key = jarKey /\ (how = "signed" => c.mac = c.v) /\ ChildGet(n, how) = c.v
      BY <1>4, <2>2
    <2> QED BY <2>1, <2>3 DEF Cookies, Genuine
  <1>5. ASSUME NEW n \in jarOps.unheard, ~jarOps.blind
        PROVE  \E d \in Range(setCookie) : d.name = n /\ Unreadable(d.c)
    <2>1. Noticed(setCookie, n)
      BY <1>5 DEF CookieInv, CookieOK, Excused
    <2> QED BY <1>1, <2>1 DEF Noticed, Range, CookieTyped
  <1> QED BY <1>3, <1>4, <1>5 DEF CookiesArrive

\* Whatever handlers do with a jar and with a built response that becomes a builder again
\* (add_cookie, del_cookie, force_remove, clear, ResponseBuilder::from), a browser that applies
\* the Set-Cookie headers in their order holds what they last wanted of every name, unless one
\* response sets it twice or a removal went unheard because the jar did not know the cookie or
\* del_cookie could not read it; and a signed or private child shows only what was written
\* under its key.
THEOREM CookiesDoArrive == CookieSpec => []CookiesArrive
  <1>1. CookieSpec => []CookieInv
    BY CookieInitOK, CookieInvStep, PTL DEF CookieSpec
  <1> QED BY <1>1, CookieInvArrives, PTL

-----------------------------------------------------------------------------
(* ContentCoding *)

\* The part of a sequence behind position a and up to b.
Stretch(s, a, b) == [k \in 1..(b - a) |-> s[a + k]]

Stretches(x, s, a, b) == Len(x) = b - a /\ \A k \in 1..(b - a) : x[k] = s[a + k]

LEMMA SameStretch ==
  ASSUME NEW A, NEW x \in Seq(A), NEW s, NEW a, NEW b, Stretches(x, s, a, b)
  PROVE  x = Stretch(s, a, b)
  <1>1. PICK n : n = b - a
    OBVIOUS
  <1>2. x = [k \in 1..Len(x) |-> x[k]]
    OBVIOUS
  <1>3. Len(x) = n /\ \A k \in 1..n : x[k] = s[a + k]
    BY <1>1 DEF Stretches
  <1>4. x = [k \in 1..n |-> s[a + k]]
    BY <1>2, <1>3
  <1> QED BY <1>1, <1>4 DEF Stretch

LEMMA StretchFacts ==
  ASSUME NEW A, NEW s \in Seq(A), NEW a \in Nat, NEW b \in Nat, a <= b, b <= Len(s)
  PROVE  Stretch(s, a, b) \in Seq(A) /\ Stretches(Stretch(s, a, b), s, a, b)
  <1>1. PICK n \in Nat : n = b - a
    OBVIOUS
  <1>2. \A k \in 1..n : a + k \in 1..Len(s)
    BY <1>1
  <1>3. \A k \in 1..n : s[a + k] \in A
    BY <1>2
  <1>4. PICK y : y = [k \in 1..n |-> s[a + k]]
    OBVIOUS
  <1>5. y \in Seq(A) /\ Len(y) = n /\ \A k \in 1..n : y[k] = s[a + k]
    BY <1>3, <1>4
  <1> QED BY <1>1, <1>4, <1>5 DEF Stretch, Stretches

LEMMA StretchJoin ==
  ASSUME NEW A, NEW s \in Seq(A), NEW a \in Nat, NEW b \in Nat, NEW c \in Nat, a <= b, b <= c, c <= Len(s)
  PROVE  Stretch(s, a, b) \o Stretch(s, b, c) = Stretch(s, a, c)
  <1>1. PICK x, y, n, m : x = Stretch(s, a, b) /\ y = Stretch(s, b, c) /\ n = b - a /\ m = c - b
    OBVIOUS
  <1>2. x \in Seq(A) /\ Stretches(x, s, a, b)
    BY <1>1, StretchFacts
  <1>3. b <= Len(s) /\ y \in Seq(A) /\ Stretches(y, s, b, c)
    BY <1>1, StretchFacts
  <1>4. n \in Nat /\ m \in Nat /\ n + m = c - a /\ Len(x) = n /\ Len(y) = m
    BY <1>1, <1>2, <1>3 DEF Stretches
  <1>5. PICK u \in Seq(A) : /\ u = x \o y /\ Len(u) = n + m
                            /\ \A k \in 1..(n + m) : u[k] = IF k <= n THEN x[k] ELSE y[k - n]
    <2>1. x \in Seq(A) /\ y \in Seq(A)
      BY <1>2, <1>3
    <2>2. /\ x \o y \in Seq(A) /\ Len(x \o y) = Len(x) + Len(y)
          /\ \A k \in 1..(Len(x) + Len(y)) : (x \o y)[k] = IF k <= Len(x) THEN x[k] ELSE y[k - Len(x)]
      BY <2>1, ConcatProperties
    <2>3. /\ x \o y \in Seq(A) /\ Len(x \o y) = n + m
          /\ \A k \in 1..(n + m) : (x \o y)[k] = IF k <= n THEN x[k] ELSE y[k - n]
      BY <1>4, <2>2
    <2> QED BY <2>3, Zenon
  <1>6. ASSUME NEW k \in 1..(n + m)
        PROVE  u[k] = s[a + k]
    <2>1. CASE k <= n
      <3>1. k \in 1..n /\ u[k] = x[k]
        BY <1>5, <2>1
      <3> QED BY <1>1, <1>2, <3>1 DEF Stretches
    <2>2. CASE k > n
      <3>1. PICK i \in 1..m : i = k - n
        BY <1>4, <2>2
      <3>2. ~(k <= n) /\ b + i = a + k
        BY <1>1, <1>4, <2>2, <3>1
      <3>3. u[k] = y[k - n]
        BY <1>5, <3>2
      <3> QED BY <1>1, <1>3, <3>1, <3>2, <3>3 DEF Stretches
    <2> QED BY <1>4, <2>1, <2>2
  <1>7. Stretches(u, s, a, c)
    BY <1>4, <1>5, <1>6 DEF Stretches
  <1>8. u = Stretch(s, a, c)
    <2>1. u \in Seq(A)
      BY <1>5
    <2>2. Stretches(u, s, a, c)
      BY <1>7
    <2> QED BY <2>1, <2>2, SameStretch
  <1> QED BY <1>1, <1>5, <1>8

LEMMA StretchLength ==
  ASSUME NEW A, NEW s \in Seq(A), NEW a \in Nat, NEW b \in Nat, a <= b, b <= Len(s)
  PROVE  Len(Stretch(s, a, b)) = b - a
  <1>1. Stretches(Stretch(s, a, b), s, a, b)
    BY StretchFacts
  <1> QED BY <1>1 DEF Stretches

LEMMA StretchCut ==
  ASSUME NEW A, NEW s \in Seq(A), NEW a \in Nat, NEW b \in Nat, a <= b, b <= Len(s), NEW k \in 0..(b - a),
         NEW x, x = Stretch(s, a, b)
  PROVE  SubSeq(x, 1, k) = Stretch(s, a, a + k) /\ SubSeq(x, k + 1, Len(x)) = Stretch(s, a + k, b)
  <1>1. x \in Seq(A) /\ Stretches(x, s, a, b)
    BY StretchFacts
  <1>2. PICK n \in Nat : n = b - a /\ Len(x) = n /\ \A i \in 1..n : x[i] = s[a + i]
    BY <1>1 DEF Stretches
  <1>3. PICK c \in Nat : c = a + k /\ a <= c /\ c <= b /\ c - a = k /\ b - c = n - k
    BY <1>2
  <1>4. PICK u \in Seq(A) : u = SubSeq(x, 1, k) /\ Len(u) = k /\ \A i \in 1..k : u[i] = x[i]
    <2>1. /\ SubSeq(x, 1, k) \in Seq(A) /\ Len(SubSeq(x, 1, k)) = k
          /\ \A i \in 1..k : SubSeq(x, 1, k)[i] = x[i]
      BY <1>1, <1>2
    <2> QED BY <2>1, Zenon
  <1>5. PICK v \in Seq(A) : v = SubSeq(x, k + 1, n) /\ Len(v) = n - k /\ \A i \in 1..(n - k) : v[i] = x[k + i]
    <2>1. PICK p : p = k + 1 /\ p \in 1..(n + 1)
      BY <1>2
    <2>2. PICK v \in Seq(A) : v = SubSeq(x, p, n) /\ Len(v) = n - p + 1 /\ \A i \in 1..(n - p + 1) : v[i] = x[p + i - 1]
      <3>1. \A i \in p..n : x[i] \in A
        BY <1>1, <1>2, <2>1
      <3>2. p \in Int /\ n \in Int /\ (IF p <= n THEN n - p + 1 ELSE 0) = n - p + 1
        BY <1>2, <2>1
      <3>3. /\ SubSeq(x, p, n) \in Seq(A) /\ Len(SubSeq(x, p, n)) = n - p + 1
            /\ \A i \in 1..(n - p + 1) : SubSeq(x, p, n)[i] = x[p + i - 1]
        BY <3>1, <3>2, SubSeqProperties
      <3> QED BY <3>3, Zenon
    <2>3. n - p + 1 = n - k /\ \A i \in 1..(n - k) : p + i - 1 = k + i
      BY <1>2, <2>1
    <2>4. \A i \in 1..(n - k) : v[i] = x[k + i]
      BY <2>2, <2>3
    <2>5. v = SubSeq(x, k + 1, n) /\ Len(v) = n - k
      BY <2>1, <2>2, <2>3
    <2> QED BY <2>4, <2>5
  <1>6. Stretches(u, s, a, c)
    BY <1>2, <1>3, <1>4 DEF Stretches
  <1>7. Stretches(v, s, c, b)
    <2>1. \A i \in 1..(n - k) : k + i \in 1..n /\ a + (k + i) = c + i
      <3> SUFFICES ASSUME NEW i \in 1..(n - k)
                   PROVE  k + i \in 1..n /\ a + (k + i) = c + i
        OBVIOUS
      <3>1. i \in Nat /\ k \in Nat /\ 1 <= i /\ i <= n - k
        BY <1>2
      <3>2. k + i \in 1..n
        BY <3>1
      <3> QED BY <1>3, <3>1, <3>2
    <2>2. \A i \in 1..(n - k) : v[i] = s[c + i]
      BY <1>2, <1>5, <2>1
    <2> QED BY <1>3, <1>5, <2>2 DEF Stretches
  <1>8. u = Stretch(s, a, c)
    <2>1. u \in Seq(A)
      BY <1>4
    <2>2. Stretches(u, s, a, c)
      BY <1>6
    <2> QED BY <2>1, <2>2, SameStretch
  <1>9. v = Stretch(s, c, b)
    <2>1. v \in Seq(A)
      BY <1>5
    <2>2. Stretches(v, s, c, b)
      BY <1>7
    <2> QED BY <2>1, <2>2, SameStretch
  <1> QED BY <1>2, <1>3, <1>4, <1>5, <1>8, <1>9

LEMMA StretchWhole ==
  ASSUME NEW A, NEW s \in Seq(A)
  PROVE  Stretch(s, 0, Len(s)) = s
  <1>1. Stretches(s, s, 0, Len(s))
    BY DEF Stretches
  <1> QED BY <1>1, SameStretch

\* Where the parts of a sequence of sequences lie in it when it is flattened.
Laid(B, S, off) ==
  /\ off \in [0..Len(B) -> Nat] /\ off[0] = 0 /\ off[Len(B)] = Len(S)
  /\ \A i \in 1..Len(B) :
       off[i - 1] <= off[i] /\ off[i] <= Len(S) /\ Len(B[i]) = off[i] - off[i - 1] /\ B[i] = Stretch(S, off[i - 1], off[i])

\* The recursion that defines FlattenSeq has a solution.
Flattens(B, n, f) ==
  FlattenSeq(B) = f[n] /\ f[1] = B[1] /\ \A i \in 2..n : f[i] = f[i - 1] \o B[i]

LEMMA FlattensUpTo ==
  ASSUME NEW B, NEW n \in Nat \ {0}, n = Len(B)
  PROVE  \E f : Flattens(B, n, f)
  <1> DEFINE Body(f, i) == IF i = 1 THEN B[i] ELSE f[i - 1] \o B[i]
             Solves(f, m) == f = [i \in 1..m |-> Body(f, i)]
             Built == {m \in Nat : m + 1 <= n => \E f : Solves(f, m + 1)}
  <1>1. 0 \in Built
    <2>1. PICK f : f = [i \in 1..1 |-> B[i]]
      OBVIOUS
    <2>2. [i \in 1..1 |-> Body(f, i)] = [i \in 1..1 |-> B[i]]
      OBVIOUS
    <2>3. Solves(f, 1)
      BY <2>1, <2>2
    <2> HIDE DEF Solves
    <2> QED BY <2>3
  <1>2. ASSUME NEW m \in Nat, m \in Built
        PROVE  m + 1 \in Built
    <2>0. PICK p \in Nat : p = m + 1 /\ p >= 1
      OBVIOUS
    <2> SUFFICES ASSUME p + 1 <= n
                 PROVE  \E f : Solves(f, p + 1)
      BY <2>0, Zenon
    <2>2. PICK f : Solves(f, p)
      <3>1. p <= n
        BY <2>0
      <3> HIDE DEF Solves
      <3> QED BY <1>2, <2>0, <3>1
    <2>3. PICK last : last = f[p] \o B[p + 1]
      OBVIOUS
    <2>4. PICK g : g = [i \in 1..p + 1 |-> IF i = p + 1 THEN last ELSE f[i]]
      OBVIOUS
    <2>5. \A i \in 1..p : g[i] = f[i]
      BY <2>4
    <2>6. ASSUME NEW i \in 1..p + 1
          PROVE  g[i] = Body(g, i)
      <3>1. CASE i = p + 1
        <4>1. g[i] = last /\ i # 1 /\ i - 1 = p /\ g[i - 1] = f[p]
          BY <2>0, <2>4, <2>5, <3>1
        <4>2. Body(g, i) = g[i - 1] \o B[i]
          BY <4>1, Zenon
        <4> HIDE DEF Body
        <4> QED BY <2>3, <3>1, <4>1, <4>2, Zenon
      <3>2. CASE i # p + 1
        <4>1. i \in 1..p /\ g[i] = f[i]
          BY <2>5, <3>2
        <4>2. f[i] = Body(f, i)
          BY <2>2, <4>1
        <4>3. i # 1 => g[i - 1] = f[i - 1]
          BY <2>5, <4>1
        <4> QED BY <4>1, <4>2, <4>3, Zenon
      <3> QED BY <3>1, <3>2
    <2>7. g = [i \in 1..p + 1 |-> g[i]]
      BY <2>4
    <2>8. Solves(g, p + 1)
      BY <2>6, <2>7
    <2> HIDE DEF Solves
    <2> QED BY <2>8
  <1>3. PICK k \in Nat : k + 1 = n
    OBVIOUS
  <1>4. \E f : Solves(f, n)
    <2> HIDE DEF Built
    <2>1. k \in Built
      <3>1. Nat \subseteq Built
        BY <1>1, <1>2, CountUp
      <3> QED BY <3>1
    <2> HIDE DEF Solves
    <2> QED BY <1>3, <2>1 DEF Built
  <1>5. PICK f : f = CHOOSE g : Solves(g, n)
    OBVIOUS
  <1>6. FlattenSeq(B) = f[n]
    <2>1. Len(B) # 0
      OBVIOUS
    <2> QED BY <1>5, <2>1, Zenon DEF FlattenSeq
  <1> HIDE DEF Solves
  <1>7. Solves(f, n)
    BY <1>4, <1>5, Zenon
  <1>8. \A i \in 1..n : f[i] = Body(f, i)
    <2> HIDE DEF Body
    <2> QED BY <1>7 DEF Solves
  <1>9. f[1] = B[1]
    <2>1. 1 \in 1..n
      OBVIOUS
    <2> QED BY <1>8, <2>1
  <1>10. \A i \in 2..n : f[i] = f[i - 1] \o B[i]
    <2>1. \A i \in 2..n : i \in 1..n /\ i # 1
      OBVIOUS
    <2> QED BY <1>8, <2>1, Zenon
  <1> QED BY <1>6, <1>9, <1>10, Zenon DEF Flattens

\* The parts up to i lie so in the sequence t.
LaidTo(B, off, i, t) == \A k \in 1..i : off[k] <= Len(t) /\ B[k] = Stretch(t, off[k - 1], off[k])

Extends(u, t, b) ==
  /\ Len(u) = Len(t) + Len(b) /\ b = Stretch(u, Len(t), Len(u))
  /\ \A i, j \in 0..Len(t) : Stretch(u, i, j) = Stretch(t, i, j)

LEMMA LaidNext ==
  ASSUME NEW A, NEW t \in Seq(A), NEW b \in Seq(A), NEW u, u = t \o b
  PROVE  Extends(u, t, b) /\ u \in Seq(A)
  <1>1. /\ u \in Seq(A) /\ Len(u) = Len(t) + Len(b)
        /\ \A k \in 1..(Len(t) + Len(b)) : u[k] = IF k <= Len(t) THEN t[k] ELSE b[k - Len(t)]
    BY ConcatProperties
  <1>2. PICK n \in Nat, m \in Nat : n = Len(t) /\ m = Len(b)
    OBVIOUS
  <1>3. b = Stretch(u, n, n + m)
    <2>1. \A k \in 1..m : n + k \in 1..(n + m) /\ ~(n + k <= n) /\ (n + k) - n = k
      BY <1>2
    <2>2. \A k \in 1..m : b[k] = u[n + k]
      BY <1>1, <1>2, <2>1
    <2>3. (n + m) - n = m
      BY <1>2
    <2>4. Stretches(b, u, n, n + m)
      BY <1>2, <2>2, <2>3 DEF Stretches
    <2> QED BY <2>4, SameStretch
  <1>4. ASSUME NEW i \in 0..n, NEW j \in 0..n
        PROVE  Stretch(u, i, j) = Stretch(t, i, j)
    <2>1. \A k \in 1..(j - i) : i + k \in 1..n
      BY <1>2
    <2>2. \A k \in 1..(j - i) : u[i + k] = t[i + k]
      BY <1>1, <1>2, <2>1
    <2> QED BY <2>2 DEF Stretch
  <1> QED BY <1>1, <1>2, <1>3, <1>4 DEF Extends

LEMMA FlattenFacts ==
  ASSUME NEW A, NEW B \in Seq(Seq(A))
  PROVE  FlattenSeq(B) \in Seq(A) /\ \E off : Laid(B, FlattenSeq(B), off)
  <1>1. PICK n \in Nat : n = Len(B)
    OBVIOUS
  <1>2. CASE n = 0
    <2>1. B = << >>
      BY <1>1, <1>2, EmptySeq
    <2>2. FlattenSeq(B) = << >>
      <3>1. Len(B) = 0
        BY <1>1, <1>2
      <3> QED BY <2>1, <3>1, Zenon DEF FlattenSeq
    <2>3. PICK off : off = [i \in 0..0 |-> 0]
      OBVIOUS
    <2>4. Len(B) = 0 /\ off \in [0..0 -> Nat] /\ off[0] = 0
      BY <1>1, <1>2, <2>3
    <2>5. Laid(B, << >>, off)
      BY <2>4 DEF Laid
    <2>6. << >> \in Seq(A)
      OBVIOUS
    <2> QED BY <2>2, <2>5, <2>6, Zenon
  <1>3. CASE n # 0
    <2>1. PICK f : Flattens(B, n, f)
      BY <1>1, <1>3, FlattensUpTo
    <2>2. \A i \in 1..n : B[i] \in Seq(A)
      BY <1>1
    <2>3. \A i \in 1..n : f[i] \in Seq(A)
      <3> DEFINE Built == {m \in Nat : m + 1 <= n => f[m + 1] \in Seq(A)}
      <3>1. 0 \in Built
        BY <1>3, <2>1, <2>2 DEF Flattens
      <3>2. ASSUME NEW m \in Nat, m \in Built
            PROVE  m + 1 \in Built
        <4> SUFFICES ASSUME (m + 1) + 1 <= n
                     PROVE  f[(m + 1) + 1] \in Seq(A)
          OBVIOUS
        <4>1. PICK q \in 2..n : q = (m + 1) + 1 /\ q - 1 = m + 1
          OBVIOUS
        <4>2. PICK t \in Seq(A), b \in Seq(A) : t = f[m + 1] /\ b = B[q]
          BY <2>2, <3>2, <4>1
        <4>3. f[q] = t \o b
          BY <2>1, <4>1, <4>2 DEF Flattens
        <4> QED BY <4>1, <4>3, ConcatProperties
      <3>3. Nat \subseteq Built
        <4> HIDE DEF Built
        <4> QED BY <3>1, <3>2, CountUp
      <3>4. ASSUME NEW i \in 1..n
            PROVE  f[i] \in Seq(A)
        <4>1. PICK m \in Nat : m + 1 = i
          <5>1. i - 1 \in Nat /\ (i - 1) + 1 = i
            OBVIOUS
          <5> QED BY <5>1
        <4>2. m \in Built /\ m + 1 <= n
          BY <3>3, <4>1
        <4> QED BY <4>1, <4>2
      <3> QED BY <3>4
    <2>4. PICK off : off = [i \in 0..n |-> IF i = 0 THEN 0 ELSE Len(f[i])]
      OBVIOUS
    <2>5. off[0] = 0 /\ \A i \in 1..n : off[i] = Len(f[i]) /\ off[i] \in Nat
      BY <2>3, <2>4
    <2>6. off \in [0..n -> Nat]
      BY <2>3, <2>4
    <2>7. \A i \in 1..n : off[i] = off[i - 1] + Len(B[i])
      <3>1. ASSUME NEW i \in 2..n
            PROVE  off[i] = off[i - 1] + Len(B[i])
        <4>1. PICK k \in 1..n : k = i - 1
          OBVIOUS
        <4>2. PICK t \in Seq(A), b \in Seq(A) : t = f[k] /\ b = B[i]
          BY <2>2, <2>3
        <4>3. f[i] = t \o b
          BY <2>1, <4>1, <4>2 DEF Flattens
        <4>4. Len(f[i]) = Len(t) + Len(b)
          BY <4>3, ConcatProperties
        <4>5. i \in 1..n
          OBVIOUS
        <4> QED BY <2>5, <4>1, <4>2, <4>4, <4>5
      <3>2. off[1] = off[0] + Len(B[1])
        <4>1. PICK b \in Seq(A) : b = B[1] /\ b = f[1] /\ 1 \in 1..n
          BY <1>3, <2>1, <2>2 DEF Flattens
        <4> QED BY <2>5, <4>1
      <3>3. \A i \in 1..n : i = 1 \/ i \in 2..n
        OBVIOUS
      <3> QED BY <3>1, <3>2, <3>3
    <2> DEFINE Built == {m \in Nat : m + 1 <= n => LaidTo(B, off, m + 1, f[m + 1])}
    <2>8. 0 \in Built
      <3>1. PICK t \in Seq(A) : t = B[1] /\ t = f[1]
        BY <1>3, <2>1, <2>2 DEF Flattens
      <3>2. t = Stretch(t, 0, Len(t)) /\ off[1] = Len(t)
        BY <1>3, <2>5, <3>1, StretchWhole
      <3>3. \A k \in 1..1 : k = 1 /\ k - 1 = 0
        OBVIOUS
      <3>4. off[1] <= Len(t) /\ B[1] = Stretch(t, off[0], off[1])
        BY <2>5, <3>1, <3>2
      <3>5. \A k \in 1..1 : off[k] <= Len(t) /\ B[k] = Stretch(t, off[k - 1], off[k])
        BY <3>3, <3>4
      <3>6. LaidTo(B, off, 1, t)
        BY <3>5 DEF LaidTo
      <3> QED BY <3>1, <3>6
    <2>9. ASSUME NEW m \in Nat, m \in Built
          PROVE  m + 1 \in Built
      <3>1. PICK p \in Nat \ {0} : p = m + 1
        OBVIOUS
      <3> SUFFICES ASSUME p + 1 <= n
                   PROVE  LaidTo(B, off, p + 1, f[p + 1])
        BY <3>1
      <3>2. PICK q \in 2..n : q = p + 1 /\ q - 1 = p
        BY <3>1
      <3>3. PICK t \in Seq(A) : t = f[p]
        BY <2>3, <3>1
      <3>4. LaidTo(B, off, p, t) /\ off[p] = Len(t)
        BY <2>5, <2>9, <3>1, <3>3
      <3>5. PICK b \in Seq(A) : b = B[q]
        BY <2>2, <3>2
      <3>6. PICK u : u = f[q] /\ u = t \o b
        BY <2>1, <3>2, <3>3, <3>5 DEF Flattens
      <3>7. Extends(u, t, b) /\ u \in Seq(A)
        <4>1. t \in Seq(A) /\ b \in Seq(A)
          OBVIOUS
        <4>2. Extends(t \o b, t, b) /\ t \o b \in Seq(A)
          BY <4>1, LaidNext
        <4> QED BY <3>6, <4>2
      <3>8. ASSUME NEW k \in 1..q
            PROVE  off[k] <= Len(u) /\ B[k] = Stretch(u, off[k - 1], off[k])
        <4>1. CASE k = q
          <5>1. q \in 1..n
            BY <3>2
          <5>2. off[q] = Len(u) /\ off[q - 1] = Len(t)
            BY <2>5, <3>2, <3>4, <3>6, <5>1
          <5>3. off[q] <= Len(u)
            BY <3>7, <5>2
          <5> QED BY <3>5, <3>7, <4>1, <5>2, <5>3 DEF Extends
        <4>2. CASE k # q
          <5>1. k \in 1..p
            BY <3>2, <4>2
          <5>2. off[k] <= Len(t) /\ B[k] = Stretch(t, off[k - 1], off[k])
            BY <3>4, <5>1 DEF LaidTo
          <5>3. off[k] \in 0..Len(t) /\ off[k - 1] \in 0..Len(t)
            <6>1. k \in 1..n /\ k \in 0..n /\ k - 1 \in 0..n
              BY <3>2
            <6>2. off[k] = off[k - 1] + Len(B[k])
              BY <2>7, <6>1
            <6>3. off[k - 1] \in Nat /\ off[k] \in Nat
              BY <2>6, <6>1
            <6>4. Len(B[k]) \in Nat
              BY <2>2, <6>1
            <6>5. off[k - 1] <= off[k]
              BY <6>2, <6>3, <6>4
            <6> QED BY <5>2, <6>3, <6>5
          <5> QED BY <3>7, <5>2, <5>3 DEF Extends
        <4> QED BY <4>1, <4>2
      <3>9. LaidTo(B, off, q, u)
        BY <3>8 DEF LaidTo
      <3> QED BY <3>2, <3>6, <3>9
    <2>10. PICK S \in Seq(A) : S = f[n] /\ S = FlattenSeq(B)
      <3>1. n \in 1..n
        BY <1>3
      <3> QED BY <2>1, <2>3, <3>1 DEF Flattens
    <2>11. LaidTo(B, off, n, S)
      <3>1. PICK m \in Nat : m + 1 = n
        BY <1>3
      <3>2. Nat \subseteq Built
        <4> HIDE DEF Built
        <4> QED BY <2>8, <2>9, CountUp
      <3>3. m \in Built /\ m + 1 <= n
        BY <3>1, <3>2
      <3> QED BY <2>10, <3>1, <3>3
    <2>12. off[n] = Len(S)
      <3>1. n \in 1..n
        BY <1>3
      <3> QED BY <2>5, <2>10, <3>1
    <2>13. ASSUME NEW i \in 1..n
           PROVE  off[i - 1] <= off[i] /\ off[i] <= Len(S) /\ Len(B[i]) = off[i] - off[i - 1]
                    /\ B[i] = Stretch(S, off[i - 1], off[i])
      <3>1. off[i] = off[i - 1] + Len(B[i]) /\ off[i - 1] \in Nat /\ Len(B[i]) \in Nat
        BY <2>2, <2>6, <2>7
      <3>2. off[i] <= Len(S) /\ B[i] = Stretch(S, off[i - 1], off[i])
        BY <2>11 DEF LaidTo
      <3> QED BY <3>1, <3>2
    <2>14. Laid(B, S, off)
      BY <1>1, <2>5, <2>6, <2>12, <2>13 DEF Laid
    <2> QED BY <2>10, <2>14
  <1> QED BY <1>2, <1>3

-----------------------------------------------------------------------------
Bytes == [z : BOOLEAN, v : Nat]
Encoded(j) == IsCompression(HeaderOf(j))

\* What a chunk is when it is compressed.
Squeeze(chunk) == Packed([k \in 1..Len(chunk) |-> chunk[k].v])

\* The bytes w that are sent for the content p.
Wire(e, p, w) ==
  /\ p \in Seq(Nat \ {0}) /\ w \in Seq(Bytes) /\ Len(w) = Len(p) + (IF e THEN 1 ELSE 0)
  /\ \A k \in 1..Len(p) : w[k] = Byte(e, p[k])
  /\ e => w[Len(p) + 1] = Trailer

\* Where the chunks b of a body lie in what is sent for it, up to end.
ChunksLie(b, w, off, end, squeezed) ==
  /\ off \in [0..Len(b) -> Nat] /\ off[0] = 0 /\ off[Len(b)] = end /\ end <= Len(w)
  /\ \A i \in 1..Len(b) :
       /\ off[i - 1] <= off[i] /\ off[i] <= end
       /\ Stretch(w, off[i - 1], off[i]) = IF squeezed THEN Squeeze(b[i]) ELSE b[i]

\* Job j: content p, bytes w, chunks b at off.
IsJob(j, p, w, b, off) ==
  /\ p = Content(j) /\ b = BodyChunks(j) /\ Wire(Encoded(j), p, w) /\ b \in Seq(Seq(Bytes))
  /\ ChunksLie(b, w, off, IF CanEncode(j) THEN Len(p) ELSE Len(w), CanEncode(j))

\* The bytes of a part s of the content, from a to b, are a part of the bytes that are sent.
BytesLie(e, s, w, a, b) ==
  /\ [k \in 1..Len(s) |-> Byte(e, s[k])] = Stretch(w, a, b)
  /\ e => Squeeze(Plain(s)) = Stretch(w, a, b)
  /\ Plain(s) \in Seq(Bytes) /\ Packed(s) \in Seq(Bytes)

LEMMA StretchOfBytes ==
  ASSUME NEW e \in BOOLEAN, NEW p, NEW w, Wire(e, p, w), NEW a \in Nat, NEW b \in Nat, a <= b, b <= Len(p),
         NEW s, s = Stretch(p, a, b)
  PROVE  BytesLie(e, s, w, a, b)
  <1>1. p \in Seq(Nat \ {0})
    BY DEF Wire
  <1>2. s \in Seq(Nat \ {0}) /\ Stretches(s, p, a, b)
    BY <1>1, StretchFacts
  <1>3. PICK n \in Nat : n = b - a /\ Len(s) = n /\ \A k \in 1..n : s[k] = p[a + k] /\ a + k \in 1..Len(p)
    <2>1. PICK n \in Nat : n = b - a
      OBVIOUS
    <2>2. Len(s) = n /\ \A k \in 1..n : s[k] = p[a + k]
      BY <1>2, <2>1 DEF Stretches
    <2>3. PICK m \in Nat : m = Len(p) /\ b <= m
      BY <1>1
    <2>4. \A k \in 1..n : a + k \in 1..m
      BY <2>1, <2>3
    <2> QED BY <2>1, <2>2, <2>3, <2>4
  <1>4. \A k \in 1..n : w[a + k] = Byte(e, s[k])
    BY <1>3 DEF Wire
  <1>5. [k \in 1..n |-> Byte(e, s[k])] = Stretch(w, a, b)
    BY <1>3, <1>4 DEF Stretch
  <1>6. PICK q : q = Plain(s) /\ q = [k \in 1..n |-> Byte(FALSE, s[k])]
    BY <1>3 DEF Plain
  <1>7. \A k \in 1..n : s[k] \in Nat
    BY <1>2, <1>3
  <1>8. q \in Seq(Bytes) /\ Len(q) = n /\ \A k \in 1..n : q[k].v = s[k]
    BY <1>6, <1>7 DEF Bytes, Byte
  <1>9. PICK r : r = [k \in 1..Len(q) |-> q[k].v] /\ r = [k \in 1..n |-> s[k]]
    BY <1>8
  <1>10. Len(r) = n /\ \A k \in 1..n : r[k] = s[k]
    BY <1>9
  <1>11. Squeeze(q) = [k \in 1..n |-> Byte(TRUE, s[k])]
    BY <1>9, <1>10 DEF Squeeze, Packed
  <1>12. Packed(s) \in Seq(Bytes)
    BY <1>3, <1>7 DEF Bytes, Byte, Packed
  <1> QED BY <1>3, <1>5, <1>6, <1>8, <1>11, <1>12 DEF BytesLie

LEMMA WireOf ==
  ASSUME NEW e \in BOOLEAN, NEW p \in Seq(Nat \ {0})
  PROVE  \E w : Wire(e, p, w)
  <1>1. PICK n \in Nat : n = Len(p)
    OBVIOUS
  <1>2. PICK m \in Nat : m = n + (IF e THEN 1 ELSE 0)
    BY <1>1
  <1>3. PICK w : w = [k \in 1..m |-> IF k <= n THEN Byte(e, p[k]) ELSE Trailer]
    OBVIOUS
  <1>4. \A k \in 1..m : (IF k <= n THEN Byte(e, p[k]) ELSE Trailer) \in Bytes
    <2>1. \A k \in 1..n : p[k] \in Nat
      BY <1>1
    <2> QED BY <1>2, <2>1 DEF Byte, Trailer, Bytes
  <1>5. w \in Seq(Bytes) /\ Len(w) = m
    BY <1>3, <1>4
  <1>6. \A k \in 1..n : w[k] = Byte(e, p[k])
    BY <1>2, <1>3
  <1>7. e => w[n + 1] = Trailer
    <2>1. e => n + 1 \in 1..m /\ ~(n + 1 <= n)
      BY <1>2
    <2> QED BY <1>3, <2>1, Zenon
  <1> QED BY <1>1, <1>2, <1>5, <1>6, <1>7 DEF Wire

LEMMA AsTheyAre ==
  ASSUME NEW j, NEW p, NEW w, NEW b, NEW off, ~CanEncode(j),
         p = Content(j), b = BodyChunks(j), NEW e, e = Encoded(j), Wire(e, p, w), b \in Seq(Seq(Bytes)),
         ChunksLie(b, w, off, Len(w), FALSE)
  PROVE  IsJob(j, p, w, b, off)
  <1>1. CanEncode(j) = FALSE
    BY DEF CanEncode
  <1>2. (IF CanEncode(j) THEN Len(p) ELSE Len(w)) = Len(w)
    BY <1>1
  <1>3. ChunksLie(b, w, off, IF CanEncode(j) THEN Len(p) ELSE Len(w), CanEncode(j))
    BY <1>1, <1>2, Zenon
  <1> QED BY <1>3, Zenon DEF IsJob

LEMMA JobFacts ==
  ASSUME NEW j, IsCodingJob(j), ~j.lies
  PROVE  \E p, w, b, off : IsJob(j, p, w, b, off)
  <1>1. PICK c \in Seq(Seq(Nat \ {0})) : c = j.chunks
    BY DEF IsCodingJob
  <1>2. PICK p \in Seq(Nat \ {0}) : p = Content(j) /\ \E off : Laid(c, p, off)
    BY <1>1, FlattenFacts DEF Content
  <1>3. PICK e \in BOOLEAN : e = Encoded(j)
    <2>1. Encoded(j) \in BOOLEAN
      BY DEF Encoded, IsCompression
    <2> QED BY <2>1, Zenon
  <1>4. PICK w : Wire(e, p, w)
    BY WireOf
  <1>5. PICK off : Laid(c, p, off)
    BY <1>2
  <1>6. PICK n \in Nat : n = Len(c)
    OBVIOUS
  <1>7. ASSUME NEW i \in 1..n
        PROVE  /\ off[i - 1] \in Nat /\ off[i] \in Nat /\ off[i - 1] <= off[i] /\ off[i] <= Len(p)
               /\ c[i] = Stretch(p, off[i - 1], off[i])
    <2>1. i - 1 \in 0..n /\ i \in 0..n
      OBVIOUS
    <2>2. off[i - 1] \in Nat /\ off[i] \in Nat
      BY <1>5, <1>6, <2>1 DEF Laid
    <2> QED BY <1>5, <1>6, <2>2 DEF Laid
  <1>8. ASSUME NEW i \in 1..n
        PROVE  /\ [k \in 1..Len(c[i]) |-> Byte(e, c[i][k])] = Stretch(w, off[i - 1], off[i])
               /\ e => Squeeze(Plain(c[i])) = Stretch(w, off[i - 1], off[i])
               /\ Plain(c[i]) \in Seq(Bytes) /\ Packed(c[i]) \in Seq(Bytes)
    <2>1. PICK a \in Nat, b \in Nat : a = off[i - 1] /\ b = off[i]
      BY <1>7
    <2>2. PICK s : s = c[i]
      OBVIOUS
    <2>3. a <= b /\ b <= Len(p) /\ s = Stretch(p, a, b)
      BY <1>7, <2>1, <2>2
    <2>4. BytesLie(e, s, w, a, b)
      BY <1>4, <2>3, StretchOfBytes
    <2>5. BytesLie(e, c[i], w, off[i - 1], off[i])
      BY <2>1, <2>2, <2>4, Zenon
    <2> QED BY <2>5, Zenon DEF BytesLie
  <1>9. off \in [0..n -> Nat] /\ off[0] = 0 /\ off[n] = Len(p)
    BY <1>5, <1>6 DEF Laid
  <1>10. Len(p) \in Nat /\ Len(w) \in Nat /\ w \in Seq(Bytes) /\ Len(w) = Len(p) + (IF e THEN 1 ELSE 0)
    BY <1>4 DEF Wire
  <1>11. CASE ~IsCompression(j.header)
    <2>1. PICK b : b = BodyChunks(j) /\ b = [k \in 1..n |-> Plain(c[k])]
      BY <1>1, <1>6, <1>11 DEF BodyChunks
    <2>2. b \in Seq(Seq(Bytes)) /\ Len(b) = n /\ \A i \in 1..n : b[i] = Plain(c[i])
      <3>1. \A k \in 1..n : Plain(c[k]) \in Seq(Bytes)
        BY <1>8
      <3>2. [k \in 1..n |-> Plain(c[k])] \in Seq(Seq(Bytes))
        BY <3>1
      <3> QED BY <2>1, <3>2
    <2>3. CanEncode(j) <=> e
      BY <1>3, <1>11 DEF Encoded, HeaderOf, CanEncode, IsCompression
    <2>4. CASE e
      <3>1. ChunksLie(b, w, off, Len(p), TRUE)
        <4>1. ASSUME NEW i \in 1..n
              PROVE  off[i - 1] <= off[i] /\ off[i] <= Len(p) /\ Stretch(w, off[i - 1], off[i]) = Squeeze(b[i])
          BY <1>7, <1>8, <2>2, <2>4
        <4>2. Len(p) <= Len(w)
          BY <1>10
        <4> QED BY <1>9, <2>2, <4>1, <4>2 DEF ChunksLie
      <3>2. IsJob(j, p, w, b, off)
        BY <1>2, <1>3, <1>4, <2>1, <2>2, <2>3, <2>4, <3>1 DEF IsJob
      <3> QED BY <3>2
    <2>5. CASE ~e
      <3>1. \A i \in 1..n : Plain(c[i]) = Stretch(w, off[i - 1], off[i])
        BY <1>8, <2>5 DEF Plain
      <3>2. Len(w) = Len(p)
        BY <1>10, <2>5
      <3>3. ChunksLie(b, w, off, Len(w), FALSE)
        <4>1. ASSUME NEW i \in 1..n
              PROVE  off[i - 1] <= off[i] /\ off[i] <= Len(w) /\ Stretch(w, off[i - 1], off[i]) = b[i]
          BY <1>7, <2>2, <3>1, <3>2
        <4>2. Len(w) <= Len(w)
          BY <1>10
        <4> QED BY <1>9, <2>2, <3>2, <4>1, <4>2 DEF ChunksLie
      <3>4. ~CanEncode(j)
        BY <2>3, <2>5
      <3>5. IsJob(j, p, w, b, off)
        BY <1>2, <1>3, <1>4, <2>1, <2>2, <3>3, <3>4, AsTheyAre
      <3> QED BY <3>5
    <2> QED BY <2>4, <2>5
  <1>12. CASE IsCompression(j.header)
    <2>1. e /\ ~CanEncode(j)
      BY <1>3, <1>12 DEF Encoded, HeaderOf, CanEncode, IsCompression
    <2>2. PICK q : q = [k \in 1..n |-> Packed(c[k])]
      OBVIOUS
    <2>3. q \in Seq(Seq(Bytes)) /\ Len(q) = n /\ \A i \in 1..n : q[i] = Packed(c[i])
      <3>1. \A k \in 1..n : Packed(c[k]) \in Seq(Bytes)
        BY <1>8
      <3>2. [k \in 1..n |-> Packed(c[k])] \in Seq(Seq(Bytes))
        BY <3>1
      <3> QED BY <2>2, <3>2
    <2>4. PICK t : t = <<Trailer>>
      OBVIOUS
    <2>5. t \in Seq(Bytes) /\ Len(t) = 1 /\ t[1] = Trailer
      BY <2>4 DEF Trailer, Byte, Bytes
    <2>6. PICK b : b = BodyChunks(j) /\ b = q \o <<t>>
      BY <1>1, <1>6, <1>12, <2>2, <2>4 DEF BodyChunks
    <2>7. b = Append(q, t)
      BY <2>3, <2>5, <2>6
    <2>8. PICK m \in Nat : m = n + 1
      OBVIOUS
    <2>9. b \in Seq(Seq(Bytes)) /\ Len(b) = m /\ (\A i \in 1..n : b[i] = Packed(c[i])) /\ b[m] = t
      <3>1. /\ Append(q, t) \in Seq(Seq(Bytes)) /\ Len(Append(q, t)) = n + 1
            /\ (\A i \in 1..n : Append(q, t)[i] = q[i]) /\ Append(q, t)[n + 1] = t
        BY <2>3, <2>5, AppendProperties
      <3> QED BY <2>3, <2>7, <2>8, <3>1, Zenon
    <2>10. PICK lie : lie = [i \in 0..m |-> IF i <= n THEN off[i] ELSE Len(p) + 1]
      OBVIOUS
    <2>11. lie \in [0..m -> Nat] /\ lie[0] = 0 /\ lie[m] = Len(w) /\ \A i \in 0..n : lie[i] = off[i]
      BY <1>9, <1>10, <2>1, <2>8, <2>10
    <2>12. ASSUME NEW i \in 1..m
           PROVE  lie[i - 1] <= lie[i] /\ lie[i] <= Len(w) /\ Stretch(w, lie[i - 1], lie[i]) = b[i]
      <3>1. CASE i \in 1..n
        <4>1. i \in 0..n /\ i - 1 \in 0..n
          BY <3>1
        <4>2. lie[i] = off[i] /\ lie[i - 1] = off[i - 1]
          BY <2>11, <4>1
        <4>3. Packed(c[i]) = Stretch(w, off[i - 1], off[i])
          BY <1>8, <2>1, <3>1 DEF Packed
        <4> QED BY <1>7, <1>10, <2>1, <2>9, <3>1, <4>2, <4>3
      <3>2. CASE i = m
        <4>1. n \in 0..n /\ i - 1 = n
          BY <2>8, <3>2
        <4>2. lie[i - 1] = Len(p) /\ lie[i] = Len(w) /\ Len(w) = Len(p) + 1
          BY <1>9, <1>10, <2>1, <2>11, <3>2, <4>1
        <4>3. Stretches(t, w, Len(p), Len(w))
          <5>1. Len(w) - Len(p) = 1 /\ t[1] = w[Len(p) + 1]
            BY <1>4, <1>10, <2>1, <2>5, <4>2 DEF Wire
          <5> QED BY <2>5, <5>1 DEF Stretches
        <4>4. t = Stretch(w, Len(p), Len(w))
          BY <2>5, <4>3, SameStretch
        <4> QED BY <1>10, <2>9, <3>2, <4>2, <4>4
      <3> QED BY <2>8, <3>1, <3>2
    <2>13. ChunksLie(b, w, lie, Len(w), FALSE)
      BY <1>10, <2>9, <2>11, <2>12 DEF ChunksLie
    <2>14. IsJob(j, p, w, b, lie)
      BY <1>2, <1>3, <1>4, <2>1, <2>6, <2>9, <2>13, AsTheyAre
    <2> QED BY <2>14
  <1> QED BY <1>11, <1>12

-----------------------------------------------------------------------------
\* What a decoder makes of the bytes of a part of what is sent.

\* A chunk s of compressed bytes, from a to c of w, for the content p.
Read(p, a) == Stretch(p, 0, IF a <= Len(p) THEN a ELSE Len(p))
Decompressed(p, w, s, a, c) ==
  /\ \A k \in 1..Len(s) : s[k].z /\ ~(s[k] = Trailer /\ k < Len(s))
  /\ (Trailer \in ToSet(s)) <=> c = Len(w)
  /\ Unpacked(s) = Stretch(p, a, IF c <= Len(p) THEN c ELSE Len(p))
  /\ a <= Len(p)

LEMMA CompressedChunk ==
  ASSUME NEW p, NEW w, Wire(TRUE, p, w), NEW a \in Nat, NEW c \in Nat, a < c, c <= Len(w),
         NEW s, s = Stretch(w, a, c)
  PROVE  Decompressed(p, w, s, a, c)
  <1>1. PICK n \in Nat : n = Len(p)
    BY DEF Wire
  <1>2. p \in Seq(Nat \ {0}) /\ w \in Seq(Bytes) /\ Len(w) = n + 1 /\ (\A k \in 1..n : w[k] = Byte(TRUE, p[k])) /\ w[n + 1] = Trailer
    BY <1>1 DEF Wire
  <1>3. s \in Seq(Bytes) /\ Stretches(s, w, a, c)
    BY <1>2, StretchFacts
  <1>4. PICK m \in Nat : m = c - a /\ Len(s) = m /\ m > 0
    BY <1>3 DEF Stretches
  <1>5. \A k \in 1..m : s[k] = w[a + k] /\ a + k \in 1..(n + 1)
    BY <1>2, <1>3, <1>4 DEF Stretches
  <1>6. \A k \in 1..n : p[k] \in Nat /\ p[k] # 0
    BY <1>1, <1>2
  <1>7. ASSUME NEW k \in 1..(n + 1)
        PROVE  w[k].z /\ ((w[k] = Trailer) <=> k = n + 1)
    <2>1. CASE k = n + 1
      BY <1>2, <2>1 DEF Trailer, Byte
    <2>2. CASE k # n + 1
      <3>1. k \in 1..n
        BY <2>2
      <3>2. w[k] = [z |-> TRUE, v |-> p[k]] /\ p[k] # 0
        BY <1>2, <1>6, <3>1 DEF Byte
      <3> QED BY <2>2, <3>2 DEF Trailer, Byte
    <2> QED BY <2>1, <2>2
  <1>8. ASSUME NEW k \in 1..m
        PROVE  s[k].z /\ ((s[k] = Trailer) <=> a + k = n + 1)
    BY <1>5, <1>7
  <1>9. \A k \in 1..m : s[k].z /\ ~(s[k] = Trailer /\ k < m)
    BY <1>2, <1>4, <1>8
  <1>10. (Trailer \in ToSet(s)) <=> c = n + 1
    <2>1. ToSet(s) = {s[k] : k \in 1..m}
      BY <1>4 DEF ToSet
    <2>2. (Trailer \in ToSet(s)) <=> \E k \in 1..m : s[k] = Trailer
      BY <2>1
    <2>3. (\E k \in 1..m : s[k] = Trailer) <=> \E k \in 1..m : a + k = n + 1
      BY <1>8
    <2>4. (\E k \in 1..m : a + k = n + 1) <=> c = n + 1
      BY <1>2, <1>4
    <2> QED BY <2>2, <2>3, <2>4
  <1>11. PICK e \in Nat : e = IF c <= n THEN c ELSE n
    OBVIOUS
  <1>12. m - (IF Trailer \in ToSet(s) THEN 1 ELSE 0) = e - a
    <2>1. CASE c = n + 1
      BY <1>4, <1>10, <1>11, <2>1
    <2>2. CASE c # n + 1
      BY <1>2, <1>4, <1>10, <1>11, <2>2
    <2> QED BY <2>1, <2>2
  <1>13. \A k \in 1..(e - a) : s[k].v = p[a + k]
    <2>1. ASSUME NEW k \in 1..(e - a)
          PROVE  s[k].v = p[a + k]
      <3>1. k \in 1..m /\ a + k \in 1..n
        BY <1>2, <1>4, <1>11
      <3>2. s[k] = [z |-> TRUE, v |-> p[a + k]]
        BY <1>2, <1>5, <3>1 DEF Byte
      <3> QED BY <3>2
    <2> QED BY <2>1
  <1>14. Unpacked(s) = [k \in 1..(e - a) |-> s[k].v]
    BY <1>4, <1>12 DEF Unpacked
  <1>15. Unpacked(s) = Stretch(p, a, e)
    BY <1>13, <1>14 DEF Stretch
  <1>16. \A k \in 1..Len(s) : s[k].z /\ ~(s[k] = Trailer /\ k < Len(s))
    BY <1>4, <1>9
  <1>17. Unpacked(s) = Stretch(p, a, IF c <= Len(p) THEN c ELSE Len(p))
    BY <1>1, <1>11, <1>15
  <1>18. a <= Len(p) /\ ((Trailer \in ToSet(s)) <=> c = Len(w))
    BY <1>1, <1>2, <1>10
  <1> QED BY <1>16, <1>17, <1>18, Zenon DEF Decompressed

\* A chunk of bytes that nothing compressed.
PassedBytes(p, w, s, a, c) == [k \in 1..(c - a) |-> s[k].v] = Stretch(p, a, c) /\ Len(w) = Len(p)
LEMMA PlainChunk ==
  ASSUME NEW p, NEW w, Wire(FALSE, p, w), NEW a \in Nat, NEW c \in Nat, a <= c, c <= Len(w),
         NEW s, s = Stretch(w, a, c)
  PROVE  PassedBytes(p, w, s, a, c)
  <1>1. p \in Seq(Nat \ {0}) /\ w \in Seq(Bytes) /\ Len(w) = Len(p) /\ \A k \in 1..Len(p) : w[k] = [z |-> FALSE, v |-> p[k]]
    BY DEF Wire, Byte
  <1>2. Stretches(s, w, a, c)
    BY <1>1, StretchFacts
  <1>3. \A k \in 1..(c - a) : a + k \in 1..Len(p) /\ s[k] = w[a + k]
    BY <1>1, <1>2 DEF Stretches
  <1>4. ASSUME NEW k \in 1..(c - a)
        PROVE  s[k].v = p[a + k]
    <2>1. PICK q : q = a + k /\ q \in 1..Len(p) /\ s[k] = w[q]
      BY <1>3
    <2>2. w[q] = [z |-> FALSE, v |-> p[q]]
      BY <1>1, <2>1
    <2> QED BY <2>1, <2>2
  <1>5. [k \in 1..(c - a) |-> s[k].v] = Stretch(p, a, c)
    BY <1>4 DEF Stretch
  <1> QED BY <1>1, <1>5 DEF PassedBytes

-----------------------------------------------------------------------------
\* The states of the two sides.
Decoders ==
  [coder : {"here", "away", "none"}, work : {"none", "running", "ready"}, chunk : Seq(Bytes),
   eof : BOOLEAN, ended : BOOLEAN, done : {"no", "end", "error"}]
Encoders ==
  [left : Seq(Seq(Bytes)), coder : {"here", "away", "none"}, held : Seq(Bytes), work : {"none", "running", "ready"},
   chunk : Seq(Bytes), eof : BOOLEAN, done : {"no", "end", "error"}]

\* A decoder has decoded a bytes of w and taken c of them.
Decodes(w, i, a, c) ==
  /\ i.ended <=> a = Len(w)
  /\ \/ i.coder = "here" /\ i.work = "none" /\ a = c
     \/ i.coder = "away" /\ i.work \in {"running", "ready"} /\ i.chunk = Stretch(w, a, c) /\ a < c

\* Of the bytes w, a are read, c are taken and t were sent and not lost.
Receives(j, p, w, i, tr, g, lost, a, c, t) ==
  /\ a <= c /\ c <= t /\ t <= Len(w)
  /\ tr = Stretch(w, c, t) /\ g = Stretch(p, 0, IF a <= Len(p) THEN a ELSE Len(p))
  /\ i \in Decoders
  /\ i.done = "no" =>
       /\ ~i.eof
       /\ Encoded(j) => Decodes(w, i, a, c)
       /\ ~Encoded(j) => i.coder = "none" /\ i.work = "none" /\ a = c
  /\ i.done # "no" => i.work = "none"
  /\ i.done = "end" => a = Len(w) \/ (lost /\ HeaderOf(j) # "gzip")
  /\ i.done = "error" => lost

\* An encoder that was given the bytes up to o and put out those up to t.
Encodes(w, d, o, t) ==
  \/ d.eof /\ d.work = "none" /\ t = Len(w)
  \/ ~d.eof /\ d.coder = "here" /\ d.work = "none" /\ t <= o /\ d.held = Stretch(w, t, o)
  \/ /\ ~d.eof /\ d.coder = "away" /\ d.work = "running"
     /\ \E h \in Nat : t <= h /\ h <= o /\ d.held = Stretch(w, t, h) /\ Squeeze(d.chunk) = Stretch(w, h, o)
  \/ /\ ~d.eof /\ d.coder = "away" /\ d.work = "ready"
     /\ \E h \in Nat : t <= h /\ h <= o /\ d.chunk = Stretch(w, t, h) /\ d.held = Stretch(w, h, o)

\* Of the chunks b, n are taken, and t bytes were sent for them.
Sends(j, b, off, w, d, n, t) ==
  /\ n \in 0..Len(b) /\ t \in Nat /\ d \in Encoders /\ d.left = Stretch(b, n, Len(b))
  /\ d.done # "error"
  /\ d.done = "end" => t = Len(w) /\ d.work = "none"
  /\ d.done = "no" /\ CanEncode(j) => Encodes(w, d, off[n], t)
  /\ d.done = "no" /\ ~CanEncode(j) => d.coder = "none" /\ d.work = "none" /\ ~d.eof /\ t = off[n]

Transparent(cd, d, tr, i, g) ==
  \E p, w, b, off :
    /\ IsJob(cd.job, p, w, b, off)
    /\ \E a, c, t \in Nat :
         /\ Receives(cd.job, p, w, i, tr, g, cd.lost, a, c, t)
         /\ ~cd.lost => \E n \in Nat : Sends(cd.job, b, off, w, d, n, t)

CodingOK(cd, d, tr, i, g) ==
  /\ cd.job = NoResponse =>
       /\ cd = [job |-> NoResponse, lost |-> FALSE]
       /\ d = BodyEncoder(<<>>, FALSE) /\ i = BodyDecoder(FALSE) /\ tr = <<>> /\ g = <<>>
  /\ cd.job # NoResponse =>
       /\ cd \in [job : CodingJobs, lost : BOOLEAN]
       /\ ~cd.job.lies => Transparent(cd, d, tr, i, g)

CodingInv == CodingOK(coded, deflate, transit, inflate, gotten)

LEMMA JobParts ==
  ASSUME NEW j, NEW p, NEW w, NEW b, NEW off, IsJob(j, p, w, b, off)
  PROVE  /\ p \in Seq(Nat \ {0}) /\ w \in Seq(Bytes) /\ b \in Seq(Seq(Bytes))
         /\ p = Content(j) /\ b = BodyChunks(j)
         /\ Encoded(j) \in BOOLEAN /\ Wire(Encoded(j), p, w) /\ (CanEncode(j) => Encoded(j))
         /\ Len(p) <= Len(w) /\ (Encoded(j) => Len(w) = Len(p) + 1 /\ w[Len(w)] = Trailer) /\ (~Encoded(j) => Len(w) = Len(p))
         /\ off[0] = 0 /\ (CanEncode(j) => off[Len(b)] = Len(p)) /\ (~CanEncode(j) => off[Len(b)] = Len(w))
         /\ \A i \in 0..Len(b) : off[i] \in Nat
         /\ \A i \in 1..Len(b) :
              /\ off[i - 1] <= off[i] /\ off[i] <= Len(w)
              /\ CanEncode(j) => Stretch(w, off[i - 1], off[i]) = Squeeze(b[i])
              /\ ~CanEncode(j) => Stretch(w, off[i - 1], off[i]) = b[i]
  <1>1. Encoded(j) \in BOOLEAN /\ CanEncode(j) \in BOOLEAN /\ (CanEncode(j) => Encoded(j))
    BY DEF Encoded, IsCompression, CanEncode, HeaderOf
  <1>2. /\ p = Content(j) /\ b = BodyChunks(j) /\ Wire(Encoded(j), p, w) /\ b \in Seq(Seq(Bytes))
        /\ ChunksLie(b, w, off, IF CanEncode(j) THEN Len(p) ELSE Len(w), CanEncode(j))
    BY DEF IsJob
  <1>3. /\ p \in Seq(Nat \ {0}) /\ w \in Seq(Bytes) /\ Len(p) <= Len(w)
        /\ (Encoded(j) => Len(w) = Len(p) + 1 /\ w[Len(w)] = Trailer) /\ (~Encoded(j) => Len(w) = Len(p))
    BY <1>1, <1>2 DEF Wire
  <1>4. PICK end \in Nat : end = (IF CanEncode(j) THEN Len(p) ELSE Len(w)) /\ end <= Len(w)
    BY <1>3
  <1>5. ChunksLie(b, w, off, end, CanEncode(j))
    BY <1>2, <1>4
  <1>6. off \in [0..Len(b) -> Nat] /\ off[0] = 0 /\ off[Len(b)] = end
    BY <1>5 DEF ChunksLie
  <1>7. ASSUME NEW i \in 1..Len(b)
        PROVE  /\ off[i - 1] <= off[i] /\ off[i] <= Len(w)
               /\ CanEncode(j) => Stretch(w, off[i - 1], off[i]) = Squeeze(b[i])
               /\ ~CanEncode(j) => Stretch(w, off[i - 1], off[i]) = b[i]
    <2>1. /\ off[i - 1] <= off[i] /\ off[i] <= end
          /\ Stretch(w, off[i - 1], off[i]) = IF CanEncode(j) THEN Squeeze(b[i]) ELSE b[i]
      BY <1>5 DEF ChunksLie
    <2>2. off[i] \in Nat
      BY <1>6
    <2> QED BY <1>3, <1>4, <2>1, <2>2
  <1>8. (CanEncode(j) => off[Len(b)] = Len(p)) /\ (~CanEncode(j) => off[Len(b)] = Len(w))
    BY <1>4, <1>6
  <1>9. \A i \in 0..Len(b) : off[i] \in Nat
    BY <1>6
  <1> QED BY <1>1, <1>2, <1>3, <1>6, <1>7, <1>8, <1>9

\* More is sent, or less arrives than was sent.
LEMMA MoreSent ==
  ASSUME NEW j, NEW p, NEW w \in Seq(Bytes), NEW i, NEW tr, NEW g, NEW lost, NEW a \in Nat, NEW c \in Nat, NEW t \in Nat,
         Receives(j, p, w, i, tr, g, lost, a, c, t), NEW u \in Nat, t <= u, u <= Len(w), NEW x, x = Stretch(w, t, u)
  PROVE  Receives(j, p, w, i, tr \o x, g, lost, a, c, u)
  <1>1. a <= c /\ c <= t /\ t <= Len(w) /\ tr = Stretch(w, c, t)
    BY DEF Receives
  <1>2. tr \o x = Stretch(w, c, u)
    BY <1>1, StretchJoin
  <1>3. PICK y : y = tr \o x
    OBVIOUS
  <1>4. y = Stretch(w, c, u) /\ a <= c /\ c <= u /\ u <= Len(w)
    BY <1>1, <1>2, <1>3
  <1>5. Receives(j, p, w, i, y, g, lost, a, c, u)
    BY <1>4, Zenon DEF Receives
  <1> QED BY <1>3, <1>5, Zenon

LEMMA LessArrives ==
  ASSUME NEW j, NEW p, NEW w \in Seq(Bytes), NEW i, NEW tr, NEW g, NEW lost, NEW a \in Nat, NEW c \in Nat, NEW t \in Nat,
         Receives(j, p, w, i, tr, g, lost, a, c, t), NEW k \in 0..Len(tr)
  PROVE  \E u \in Nat : Receives(j, p, w, i, SubSeq(tr, 1, k), g, TRUE, a, c, u)
  <1>1. a <= c /\ c <= t /\ t <= Len(w) /\ tr = Stretch(w, c, t)
    BY DEF Receives
  <1>2. Len(tr) = t - c
    BY <1>1, StretchFacts DEF Stretches
  <1>3. PICK u \in Nat : u = c + k /\ k \in 0..(t - c)
    BY <1>2
  <1>4. SubSeq(tr, 1, k) = Stretch(w, c, u)
    BY <1>1, <1>3, StretchCut
  <1>5. PICK y : y = SubSeq(tr, 1, k) /\ y = Stretch(w, c, u)
    BY <1>4
  <1>6. a <= c /\ c <= u /\ u <= Len(w)
    BY <1>1, <1>3
  <1>7. Receives(j, p, w, i, y, g, TRUE, a, c, u)
    BY <1>5, <1>6, Zenon DEF Receives
  <1> QED BY <1>5, <1>7, Zenon

\* Encoder d, which had sent up to t, becomes e and puts out x.
Sent(j, b, off, w, e, t, x) ==
  \E u \in Nat : t <= u /\ u <= Len(w) /\ x = Stretch(w, t, u) /\ \E m \in Nat : Sends(j, b, off, w, e, m, u)
SentOn(j, d, e, x) ==
  \A p, w, b, off : IsJob(j, p, w, b, off) =>
    \A n \in Nat, t \in Nat : t <= Len(w) /\ Sends(j, b, off, w, d, n, t) => Sent(j, b, off, w, e, t, x)

LEMMA SendingOn ==
  ASSUME NEW cd, NEW d, NEW tr, NEW i, NEW g, CodingOK(cd, d, tr, i, g), cd.job # NoResponse, cd.lost = FALSE,
         NEW e, NEW x, SentOn(cd.job, d, e, x)
  PROVE  CodingOK(cd, e, tr \o x, i, g)
  <1>1. cd \in [job : CodingJobs, lost : BOOLEAN] /\ (~cd.job.lies => Transparent(cd, d, tr, i, g))
    BY DEF CodingOK
  <1>2. ASSUME ~cd.job.lies
        PROVE  Transparent(cd, e, tr \o x, i, g)
    <2>1. PICK p, w, b, off : IsJob(cd.job, p, w, b, off) /\
             \E a, c, t \in Nat : Receives(cd.job, p, w, i, tr, g, cd.lost, a, c, t) /\ (~cd.lost => \E n \in Nat : Sends(cd.job, b, off, w, d, n, t))
      BY <1>1, <1>2, Zenon DEF Transparent
    <2>2. PICK a \in Nat, c \in Nat, t \in Nat : Receives(cd.job, p, w, i, tr, g, cd.lost, a, c, t) /\ (~cd.lost => \E n \in Nat : Sends(cd.job, b, off, w, d, n, t))
      BY <2>1, Zenon
    <2>3. ~cd.lost
      OBVIOUS
    <2>4. PICK n \in Nat : Sends(cd.job, b, off, w, d, n, t)
      BY <2>2, <2>3, Zenon
    <2>5. t <= Len(w)
      BY <2>2, Zenon DEF Receives
    <2>6. Sent(cd.job, b, off, w, e, t, x)
      BY <2>1, <2>4, <2>5, Zenon DEF SentOn
    <2>7. PICK u \in Nat : t <= u /\ u <= Len(w) /\ x = Stretch(w, t, u) /\ \E m \in Nat : Sends(cd.job, b, off, w, e, m, u)
      BY <2>6, Zenon DEF Sent
    <2>8. w \in Seq(Bytes)
      BY <2>1, JobParts, Zenon
    <2>9. Receives(cd.job, p, w, i, tr, g, cd.lost, a, c, t) /\ t <= u /\ u <= Len(w) /\ x = Stretch(w, t, u)
      BY <2>2, <2>7, Zenon
    <2>10. Receives(cd.job, p, w, i, tr \o x, g, cd.lost, a, c, u)
      BY <2>8, <2>9, MoreSent, Zenon
    <2> QED BY <2>1, <2>7, <2>10, Zenon DEF Transparent
  <1> QED BY <1>1, <1>2, Zenon DEF CodingOK

\* The next chunk of a body.
LEMMA StretchHead ==
  ASSUME NEW A, NEW b \in Seq(A), NEW n \in 0..Len(b), NEW s, s = Stretch(b, n, Len(b)), s # <<>>
  PROVE  n + 1 \in 1..Len(b) /\ Head(s) = b[n + 1] /\ Tail(s) = Stretch(b, n + 1, Len(b))
  <1>1. PICK m \in Nat : m = Len(b)
    OBVIOUS
  <1>2. s \in Seq(A) /\ Len(s) = m - n /\ \A k \in 1..(m - n) : s[k] = b[n + k]
    <2>1. n \in Nat /\ n <= m /\ m <= Len(b)
      BY <1>1
    <2>2. s \in Seq(A) /\ Stretches(s, b, n, m)
      BY <1>1, <2>1, StretchFacts
    <2> QED BY <2>2 DEF Stretches
  <1>3. Len(s) # 0
    BY <1>2, EmptySeq
  <1>4. n < m
    BY <1>1, <1>2, <1>3
  <1>5. Head(s) = b[n + 1]
    BY <1>2, <1>4
  <1>6. Tail(s) \in Seq(A) /\ Len(Tail(s)) = m - n - 1 /\ \A k \in 1..(m - n - 1) : Tail(s)[k] = s[k + 1]
    BY <1>2, <1>3, <1>4
  <1>7. \A k \in 1..(m - n - 1) : Tail(s)[k] = b[n + 1 + k]
    <2>1. ASSUME NEW k \in 1..(m - n - 1)
          PROVE  Tail(s)[k] = b[n + 1 + k]
      <3>1. k + 1 \in 1..(m - n) /\ n + (k + 1) = n + 1 + k
        BY <1>4
      <3> QED BY <1>2, <1>6, <3>1
    <2> QED BY <2>1
  <1>8. PICK r \in Seq(A) : r = Tail(s)
    BY <1>6
  <1>9. Stretches(r, b, n + 1, m)
    BY <1>6, <1>7, <1>8 DEF Stretches
  <1>10. r = Stretch(b, n + 1, m)
    BY <1>9, SameStretch
  <1> QED BY <1>1, <1>4, <1>5, <1>8, <1>10

\* What an encoder may be given next: chunk k of the body, which lies between o and q.
NextGiven(j, b, off, w, d, n, t, m, o, q) ==
  /\ m = n + 1 /\ m \in 1..Len(b) /\ Head(d.left) = b[m] /\ Tail(d.left) = Stretch(b, m, Len(b))
  /\ b[m] \in Seq(Bytes) /\ o = off[n] /\ q = off[m] /\ o <= q /\ q <= Len(w)
  /\ CanEncode(j) => /\ d.coder = "here" /\ t <= o /\ d.held = Stretch(w, t, o)
                     /\ Squeeze(b[m]) = Stretch(w, o, q)
  /\ ~CanEncode(j) => d.coder = "none" /\ t = o /\ b[m] = Stretch(w, o, q)

LEMMA NextChunk ==
  ASSUME NEW j, NEW p, NEW w, NEW b, NEW off, IsJob(j, p, w, b, off), NEW d, NEW n, NEW t, Sends(j, b, off, w, d, n, t),
         d.done = "no", ~d.eof, d.work = "none", d.left # <<>>
  PROVE  \E m, o, q \in Nat : NextGiven(j, b, off, w, d, n, t, m, o, q)
  <1>1. /\ b \in Seq(Seq(Bytes)) /\ \A i \in 0..Len(b) : off[i] \in Nat
        /\ \A i \in 1..Len(b) :
              /\ off[i - 1] <= off[i] /\ off[i] <= Len(w)
              /\ CanEncode(j) => Stretch(w, off[i - 1], off[i]) = Squeeze(b[i])
              /\ ~CanEncode(j) => Stretch(w, off[i - 1], off[i]) = b[i]
    BY JobParts
  <1>2. n \in 0..Len(b) /\ d.left = Stretch(b, n, Len(b)) /\ t \in Nat
    BY DEF Sends
  <1>3. n + 1 \in 1..Len(b) /\ Head(d.left) = b[n + 1] /\ Tail(d.left) = Stretch(b, n + 1, Len(b))
    BY <1>1, <1>2, StretchHead
  <1>4. PICK m \in Nat : m = n + 1 /\ m \in 1..Len(b) /\ m - 1 = n /\ m \in 0..Len(b)
    BY <1>2, <1>3
  <1>5. PICK o \in Nat : o = off[n]
    BY <1>1, <1>2
  <1>6. PICK q \in Nat : q = off[m]
    BY <1>1, <1>4
  <1>7. o <= q /\ q <= Len(w) /\ (CanEncode(j) => Stretch(w, o, q) = Squeeze(b[m])) /\ (~CanEncode(j) => Stretch(w, o, q) = b[m])
    BY <1>1, <1>4, <1>5, <1>6
  <1>8. CanEncode(j) => d.coder = "here" /\ t <= o /\ d.held = Stretch(w, t, o)
    <2>1. CanEncode(j) => Encodes(w, d, o, t)
      BY <1>5 DEF Sends
    <2> QED BY <2>1 DEF Encodes
  <1>9. ~CanEncode(j) => d.coder = "none" /\ t = o
    BY <1>5 DEF Sends
  <1>10. b[m] \in Seq(Bytes)
    BY <1>1, <1>4
  <1>11. NextGiven(j, b, off, w, d, n, t, m, o, q)
    BY <1>3, <1>4, <1>5, <1>6, <1>7, <1>8, <1>9, <1>10 DEF NextGiven
  <1> QED BY <1>11

\* A chunk that is passed on, and one that is compressed in place or handed to a thread.
LEMMA PassedOn ==
  ASSUME NEW j, NEW d, d.done = "no", ~d.eof, d.work = "none", d.left # <<>>, d.coder = "none",
         NEW e, e = [d EXCEPT !.left = Tail(d.left)], NEW x, x = Head(d.left)
  PROVE  SentOn(j, d, e, x)
  <1> SUFFICES ASSUME NEW p, NEW w, NEW b, NEW off, IsJob(j, p, w, b, off), NEW n \in Nat, NEW t \in Nat,
                      t <= Len(w), Sends(j, b, off, w, d, n, t)
               PROVE  Sent(j, b, off, w, e, t, x)
    BY DEF SentOn
  <1>1. PICK m, o, q \in Nat : NextGiven(j, b, off, w, d, n, t, m, o, q)
    BY NextChunk
  <1>2. d \in Encoders
    BY DEF Sends
  <1>3. ~CanEncode(j)
    BY <1>1 DEF NextGiven
  <1>4. t <= q /\ q <= Len(w) /\ x = Stretch(w, t, q) /\ m \in 0..Len(b)
    BY <1>1, <1>3 DEF NextGiven
  <1>5. b \in Seq(Seq(Bytes)) /\ Stretch(b, m, Len(b)) \in Seq(Seq(Bytes))
    <2>1. b \in Seq(Seq(Bytes))
      BY JobParts
    <2>2. m \in Nat /\ Len(b) \in Nat /\ m <= Len(b) /\ Len(b) <= Len(b)
      BY <1>4, <2>1
    <2> QED BY <2>1, <2>2, StretchFacts
  <1>6. e \in Encoders /\ e.left = Stretch(b, m, Len(b)) /\ e.done = "no" /\ e.coder = "none" /\ e.work = "none" /\ ~e.eof
    BY <1>1, <1>2, <1>5 DEF NextGiven, Encoders
  <1>7. Sends(j, b, off, w, e, m, q)
    BY <1>1, <1>3, <1>4, <1>6 DEF Sends, NextGiven
  <1> QED BY <1>1, <1>4, <1>7 DEF Sent

LEMMA HandedOver ==
  ASSUME NEW j, NEW d, d.done = "no", ~d.eof, d.work = "none", d.left # <<>>, d.coder = "here",
         NEW f, f = [d EXCEPT !.left = Tail(d.left)],
         NEW e, e = [f EXCEPT !.coder = "away", !.work = "running", !.chunk = Head(d.left)]
  PROVE  SentOn(j, d, e, <<>>)
  <1> SUFFICES ASSUME NEW p, NEW w, NEW b, NEW off, IsJob(j, p, w, b, off), NEW n \in Nat, NEW t \in Nat,
                      t <= Len(w), Sends(j, b, off, w, d, n, t)
               PROVE  Sent(j, b, off, w, e, t, <<>>)
    BY DEF SentOn
  <1>1. PICK m, o, q \in Nat : NextGiven(j, b, off, w, d, n, t, m, o, q)
    BY NextChunk
  <1>2. d \in Encoders
    BY DEF Sends
  <1>3. CanEncode(j)
    BY <1>1 DEF NextGiven
  <1>4. t <= o /\ o <= q /\ d.held = Stretch(w, t, o) /\ Squeeze(b[m]) = Stretch(w, o, q) /\ m \in 0..Len(b)
    BY <1>1, <1>3 DEF NextGiven
  <1>5. b \in Seq(Seq(Bytes)) /\ Stretch(b, m, Len(b)) \in Seq(Seq(Bytes))
    <2>1. b \in Seq(Seq(Bytes))
      BY JobParts
    <2>2. m \in Nat /\ Len(b) \in Nat /\ m <= Len(b) /\ Len(b) <= Len(b)
      BY <1>4, <2>1
    <2> QED BY <2>1, <2>2, StretchFacts
  <1>6. /\ e \in Encoders /\ e.left = Stretch(b, m, Len(b)) /\ e.done = "no" /\ e.coder = "away" /\ e.work = "running" /\ ~e.eof
        /\ e.held = d.held /\ e.chunk = b[m]
    <2>1. /\ f \in Encoders /\ f.left = Stretch(b, m, Len(b)) /\ f.done = "no" /\ ~f.eof /\ f.held = d.held
      BY <1>1, <1>2, <1>5 DEF NextGiven, Encoders
    <2>2. Head(d.left) = b[m] /\ b[m] \in Seq(Bytes)
      BY <1>1 DEF NextGiven
    <2>3. PICK h : h = Head(d.left) /\ h = b[m] /\ h \in Seq(Bytes)
      BY <2>2
    <2>4. e = [f EXCEPT !.coder = "away", !.work = "running", !.chunk = h]
      BY <2>3
    <2>5. e \in Encoders
      BY <2>1, <2>3, <2>4, ZenonT(60) DEF Encoders
    <2>6. /\ e.left = f.left /\ e.done = f.done /\ e.eof = f.eof /\ e.held = f.held
          /\ e.coder = "away" /\ e.work = "running" /\ e.chunk = h
      BY <2>1, <2>4 DEF Encoders
    <2> QED BY <2>1, <2>3, <2>5, <2>6
  <1>7. Encodes(w, e, q, t)
    BY <1>4, <1>6 DEF Encodes
  <1>8. Sends(j, b, off, w, e, m, t)
    BY <1>1, <1>3, <1>4, <1>6, <1>7 DEF Sends, NextGiven
  <1>9. <<>> = Stretch(w, t, t)
    BY DEF Stretch
  <1> QED BY <1>8, <1>9 DEF Sent

\* A compressor that holds the bytes of w up to h is given those up to o and puts out x.
LEMMA SplitsOfStretch ==
  ASSUME NEW w \in Seq(Bytes), NEW t \in Nat, NEW h \in Nat, NEW o \in Nat, t <= h, h <= o, o <= Len(w),
         NEW y, y = Stretch(w, t, h), NEW z, z = Stretch(w, h, o), NEW s \in Splits(y \o z)
  PROVE  \E u \in Nat : t <= u /\ u <= o /\ s.out = Stretch(w, t, u) /\ s.held = Stretch(w, u, o)
  <1>1. PICK x : x = y \o z /\ x = Stretch(w, t, o)
    BY StretchJoin
  <1>2. Len(x) = o - t
    <2>1. t <= o
      OBVIOUS
    <2>2. Len(Stretch(w, t, o)) = o - t
      BY <2>1, StretchLength
    <2> QED BY <1>1, <2>2
  <1>3. PICK k \in 0..Len(x) : s = [out |-> SubSeq(x, 1, k), held |-> SubSeq(x, k + 1, Len(x))]
    BY <1>1 DEF Splits
  <1>4. PICK u \in Nat : u = t + k /\ t <= u /\ u <= o /\ k \in 0..(o - t)
    BY <1>2, <1>3
  <1>5. t <= o
    OBVIOUS
  <1>6. SubSeq(x, 1, k) = Stretch(w, t, u) /\ SubSeq(x, k + 1, Len(x)) = Stretch(w, u, o)
    BY <1>1, <1>4, <1>5, StretchCut
  <1> QED BY <1>3, <1>4, <1>6

LEMMA CompressedInPlace ==
  ASSUME NEW j, NEW d, d.done = "no", ~d.eof, d.work = "none", d.left # <<>>, d.coder = "here",
         NEW f, f = [d EXCEPT !.left = Tail(d.left)], NEW s, s \in Squeezed(d.held, Head(d.left)),
         NEW e, e = [f EXCEPT !.held = s.held]
  PROVE  SentOn(j, d, e, s.out)
  <1> SUFFICES ASSUME NEW p, NEW w, NEW b, NEW off, IsJob(j, p, w, b, off), NEW n \in Nat, NEW t \in Nat,
                      t <= Len(w), Sends(j, b, off, w, d, n, t)
               PROVE  Sent(j, b, off, w, e, t, s.out)
    BY DEF SentOn
  <1>1. PICK m, o, q \in Nat : NextGiven(j, b, off, w, d, n, t, m, o, q)
    BY NextChunk
  <1>2. d \in Encoders
    BY DEF Sends
  <1>3. CanEncode(j)
    BY <1>1 DEF NextGiven
  <1>4. t <= o /\ o <= q /\ q <= Len(w) /\ d.held = Stretch(w, t, o) /\ Squeeze(b[m]) = Stretch(w, o, q) /\ m \in 0..Len(b)
    BY <1>1, <1>3 DEF NextGiven
  <1>5. b \in Seq(Seq(Bytes)) /\ Stretch(b, m, Len(b)) \in Seq(Seq(Bytes))
    <2>1. b \in Seq(Seq(Bytes))
      BY JobParts
    <2>2. m \in Nat /\ Len(b) \in Nat /\ m <= Len(b) /\ Len(b) <= Len(b)
      BY <1>4, <2>1
    <2> QED BY <2>1, <2>2, StretchFacts
  <1>6. w \in Seq(Bytes)
    BY JobParts
  <1>7. PICK y : y = d.held /\ y = Stretch(w, t, o)
    BY <1>4
  <1>8. PICK z : z = Squeeze(Head(d.left)) /\ z = Stretch(w, o, q)
    BY <1>1, <1>4 DEF NextGiven
  <1>9. s \in Splits(y \o z)
    BY <1>7, <1>8 DEF Squeezed, Squeeze
  <1>10. PICK u \in Nat : t <= u /\ u <= q /\ s.out = Stretch(w, t, u) /\ s.held = Stretch(w, u, q)
    BY <1>4, <1>6, <1>7, <1>8, <1>9, SplitsOfStretch
  <1>11. Stretch(w, u, q) \in Seq(Bytes)
    BY <1>4, <1>6, <1>10, StretchFacts
  <1>12. /\ e \in Encoders /\ e.left = Stretch(b, m, Len(b)) /\ e.done = "no" /\ e.coder = "here" /\ e.work = "none" /\ ~e.eof
         /\ e.held = Stretch(w, u, q)
    <2>1. /\ f \in Encoders /\ f.left = Stretch(b, m, Len(b)) /\ f.done = "no" /\ f.coder = "here" /\ f.work = "none" /\ ~f.eof
      BY <1>1, <1>2, <1>5 DEF NextGiven, Encoders
    <2> QED BY <1>10, <1>11, <2>1 DEF Encoders
  <1>13. Encodes(w, e, q, u)
    BY <1>10, <1>12 DEF Encodes
  <1>14. Sends(j, b, off, w, e, m, u)
    BY <1>1, <1>3, <1>4, <1>12, <1>13 DEF Sends, NextGiven
  <1>15. u <= Len(w)
    BY <1>4, <1>6, <1>10
  <1> QED BY <1>10, <1>14, <1>15 DEF Sent

\* A thread compresses; its result is put out.
LEMMA Compressed ==
  ASSUME NEW j, NEW d, d.work = "running", NEW s, s \in Squeezed(d.held, d.chunk),
         NEW e, e = [d EXCEPT !.work = "ready", !.held = s.held, !.chunk = s.out]
  PROVE  SentOn(j, d, e, <<>>)
  <1> SUFFICES ASSUME NEW p, NEW w, NEW b, NEW off, IsJob(j, p, w, b, off), NEW n \in Nat, NEW t \in Nat,
                      t <= Len(w), Sends(j, b, off, w, d, n, t)
               PROVE  Sent(j, b, off, w, e, t, <<>>)
    BY DEF SentOn
  <1>1. n \in 0..Len(b) /\ d \in Encoders /\ d.left = Stretch(b, n, Len(b)) /\ d.done = "no"
    BY DEF Sends, Encoders
  <1>2. CanEncode(j)
    BY <1>1 DEF Sends
  <1>3. /\ b \in Seq(Seq(Bytes)) /\ w \in Seq(Bytes) /\ off[n] \in Nat /\ off[n] <= Len(w)
    <2>1. /\ b \in Seq(Seq(Bytes)) /\ w \in Seq(Bytes) /\ off[n] \in Nat /\ off[0] = 0 /\ n \in 0..Len(b)
          /\ \A i \in 1..Len(b) : off[i] <= Len(w)
      BY <1>1, JobParts
    <2>2. n = 0 \/ n \in 1..Len(b)
      BY <2>1
    <2> QED BY <2>1, <2>2
  <1>4. PICK o \in Nat : o = off[n] /\ o <= Len(w)
    BY <1>3
  <1>5. Encodes(w, d, o, t)
    BY <1>1, <1>2, <1>4 DEF Sends
  <1>6. PICK h \in Nat : t <= h /\ h <= o /\ d.held = Stretch(w, t, h) /\ Squeeze(d.chunk) = Stretch(w, h, o) /\ ~d.eof /\ d.coder = "away"
    BY <1>5 DEF Encodes
  <1>7. PICK y : y = d.held /\ y = Stretch(w, t, h)
    BY <1>6
  <1>8. PICK z : z = Squeeze(d.chunk) /\ z = Stretch(w, h, o)
    BY <1>6
  <1>9. s \in Splits(y \o z)
    BY <1>7, <1>8 DEF Squeezed, Squeeze
  <1>10. PICK u \in Nat : t <= u /\ u <= o /\ s.out = Stretch(w, t, u) /\ s.held = Stretch(w, u, o)
    BY <1>3, <1>4, <1>6, <1>7, <1>8, <1>9, SplitsOfStretch
  <1>11. s.out \in Seq(Bytes) /\ s.held \in Seq(Bytes)
    BY <1>3, <1>4, <1>10, StretchFacts
  <1>12. /\ e \in Encoders /\ e.left = Stretch(b, n, Len(b)) /\ e.done = "no" /\ e.coder = "away" /\ e.work = "ready" /\ ~e.eof
         /\ e.held = s.held /\ e.chunk = s.out
    BY <1>1, <1>6, <1>11 DEF Encoders
  <1>13. Encodes(w, e, o, t)
    BY <1>10, <1>12 DEF Encodes
  <1>14. Sends(j, b, off, w, e, n, t)
    BY <1>1, <1>2, <1>4, <1>12, <1>13 DEF Sends
  <1>15. <<>> = Stretch(w, t, t)
    BY DEF Stretch
  <1> QED BY <1>14, <1>15 DEF Sent

LEMMA ResultPutOut ==
  ASSUME NEW j, NEW d, d.done = "no", d.work = "ready",
         NEW e, e = [d EXCEPT !.coder = "here", !.work = "none", !.chunk = <<>>]
  PROVE  SentOn(j, d, e, d.chunk)
  <1> SUFFICES ASSUME NEW p, NEW w, NEW b, NEW off, IsJob(j, p, w, b, off), NEW n \in Nat, NEW t \in Nat,
                      t <= Len(w), Sends(j, b, off, w, d, n, t)
               PROVE  Sent(j, b, off, w, e, t, d.chunk)
    BY DEF SentOn
  <1>1. n \in 0..Len(b) /\ d \in Encoders /\ d.left = Stretch(b, n, Len(b))
    BY DEF Sends
  <1>2. CanEncode(j)
    BY DEF Sends
  <1>3. /\ b \in Seq(Seq(Bytes)) /\ w \in Seq(Bytes) /\ off[n] \in Nat /\ off[n] <= Len(w)
    <2>1. /\ b \in Seq(Seq(Bytes)) /\ w \in Seq(Bytes) /\ off[n] \in Nat /\ off[0] = 0 /\ n \in 0..Len(b)
          /\ \A i \in 1..Len(b) : off[i] <= Len(w)
      BY <1>1, JobParts
    <2>2. n = 0 \/ n \in 1..Len(b)
      BY <2>1
    <2> QED BY <2>1, <2>2
  <1>4. PICK o \in Nat : o = off[n] /\ o <= Len(w)
    BY <1>3
  <1>5. Encodes(w, d, o, t)
    BY <1>2, <1>4 DEF Sends
  <1>6. PICK h \in Nat : t <= h /\ h <= o /\ d.chunk = Stretch(w, t, h) /\ d.held = Stretch(w, h, o) /\ ~d.eof
    BY <1>5 DEF Encodes
  <1>7. /\ e \in Encoders /\ e.left = Stretch(b, n, Len(b)) /\ e.done = "no" /\ e.coder = "here" /\ e.work = "none" /\ ~e.eof
        /\ e.held = Stretch(w, h, o)
    <2>1. <<>> \in Seq(Bytes)
      OBVIOUS
    <2>2. e \in Encoders
      BY <1>1, <2>1 DEF Encoders
    <2> QED BY <1>1, <1>6, <2>2 DEF Encoders
  <1>8. Encodes(w, e, o, h)
    BY <1>6, <1>7 DEF Encodes
  <1>9. Sends(j, b, off, w, e, n, h)
    BY <1>1, <1>2, <1>4, <1>7, <1>8 DEF Sends
  <1>10. h <= Len(w)
    BY <1>3, <1>4, <1>6
  <1> QED BY <1>6, <1>9, <1>10 DEF Sent

\* The compressor is finished, and the end is passed on.
LEMMA Finished ==
  ASSUME NEW j, NEW d, d.done = "no", ~d.eof, d.work = "none", d.left = <<>>, d.coder = "here",
         NEW e, e = [d EXCEPT !.coder = "none", !.held = <<>>, !.eof = TRUE]
  PROVE  SentOn(j, d, e, Append(d.held, Trailer))
  <1> SUFFICES ASSUME NEW p, NEW w, NEW b, NEW off, IsJob(j, p, w, b, off), NEW n \in Nat, NEW t \in Nat,
                      t <= Len(w), Sends(j, b, off, w, d, n, t)
               PROVE  Sent(j, b, off, w, e, t, Append(d.held, Trailer))
    BY DEF SentOn
  <1>1. n \in 0..Len(b) /\ d \in Encoders /\ d.left = Stretch(b, n, Len(b))
    BY DEF Sends
  <1>2. CanEncode(j)
    BY DEF Sends
  <1>3. /\ b \in Seq(Seq(Bytes)) /\ w \in Seq(Bytes) /\ p \in Seq(Nat \ {0}) /\ Len(w) = Len(p) + 1 /\ w[Len(w)] = Trailer
        /\ off[Len(b)] = Len(p)
    BY <1>2, JobParts
  <1>4. n = Len(b)
    <2>1. n \in Nat /\ Len(b) \in Nat /\ n <= Len(b) /\ Len(b) <= Len(b)
      BY <1>1, <1>3
    <2>2. Len(Stretch(b, n, Len(b))) = Len(b) - n
      BY <1>3, <2>1, StretchLength
    <2>3. Len(Stretch(b, n, Len(b))) = 0
      BY <1>1
    <2> QED BY <2>1, <2>2, <2>3
  <1>5. PICK o \in Nat : o = Len(p) /\ o = off[n] /\ Len(w) = o + 1
    BY <1>3, <1>4
  <1>6. Encodes(w, d, o, t)
    BY <1>2, <1>5 DEF Sends
  <1>7. t <= o /\ d.held = Stretch(w, t, o)
    BY <1>6 DEF Encodes
  <1>8. PICK y : y = d.held /\ y \in Seq(Bytes) /\ Stretches(y, w, t, o)
    BY <1>3, <1>5, <1>7, StretchFacts
  <1>9. Trailer \in Bytes
    BY DEF Trailer, Byte, Bytes
  <1>10. PICK x \in Seq(Bytes) : x = Append(y, Trailer) /\ Len(x) = Len(y) + 1 /\ (\A k \in 1..Len(y) : x[k] = y[k]) /\ x[Len(y) + 1] = Trailer
    <2>1. Append(y, Trailer) \in Seq(Bytes)
      BY <1>8, <1>9
    <2>2. /\ Len(Append(y, Trailer)) = Len(y) + 1 /\ (\A k \in 1..Len(y) : Append(y, Trailer)[k] = y[k])
          /\ Append(y, Trailer)[Len(y) + 1] = Trailer
      BY <1>8, <1>9, AppendProperties
    <2> QED BY <2>1, <2>2, Zenon
  <1>11. Stretches(x, w, t, o + 1)
    <2>1. Len(y) = o - t /\ \A k \in 1..(o - t) : y[k] = w[t + k]
      BY <1>8 DEF Stretches
    <2>2. ASSUME NEW k \in 1..(o + 1 - t)
          PROVE  x[k] = w[t + k]
      <3>1. CASE k = o + 1 - t
        <4>1. PICK l \in Nat : l = o - t /\ l = Len(y)
          BY <1>7, <2>1
        <4>2. l + 1 = k
          BY <3>1, <4>1
        <4>3. t + k = Len(w)
          BY <1>5, <3>1
        <4>4. x[l + 1] = Trailer
          BY <1>10, <4>1, Zenon
        <4>5. w[t + k] = Trailer
          BY <1>3, <4>3, Zenon
        <4> QED BY <4>2, <4>4, <4>5, Zenon
      <3>2. CASE k # o + 1 - t
        <4>1. k \in 1..(o - t)
          BY <1>7, <3>2
        <4> QED BY <1>10, <2>1, <4>1
      <3> QED BY <3>1, <3>2
    <2>3. Len(x) = o + 1 - t
      BY <1>7, <1>10, <2>1
    <2> QED BY <2>2, <2>3 DEF Stretches
  <1>12. x = Stretch(w, t, Len(w))
    <2>1. PICK r : r = o + 1 /\ r = Len(w)
      BY <1>5
    <2>2. x \in Seq(Bytes) /\ Stretches(x, w, t, r)
      BY <1>11, <2>1
    <2>3. x = Stretch(w, t, r)
      BY <2>2, SameStretch
    <2> QED BY <2>1, <2>3
  <1>13. /\ e \in Encoders /\ e.left = d.left /\ e.done = "no" /\ e.work = "none" /\ e.eof
    <2>1. <<>> \in Seq(Bytes)
      OBVIOUS
    <2> QED BY <1>1, <2>1 DEF Encoders
  <1>14. Encodes(w, e, o, Len(w))
    BY <1>13 DEF Encodes
  <1>15. Len(w) \in Nat
    BY <1>3
  <1>16. Sends(j, b, off, w, e, n, Len(w))
    BY <1>1, <1>2, <1>5, <1>13, <1>14, <1>15 DEF Sends
  <1>17. Sent(j, b, off, w, e, t, x)
    BY <1>12, <1>15, <1>16 DEF Sent
  <1> QED BY <1>8, <1>10, <1>17, Zenon

LEMMA EndPassedOn ==
  ASSUME NEW j, NEW d, d.done = "no", d.eof \/ (d.work = "none" /\ d.left = <<>> /\ d.coder # "here"),
         NEW e, e = [d EXCEPT !.done = "end"]
  PROVE  SentOn(j, d, e, <<>>)
  <1> SUFFICES ASSUME NEW p, NEW w, NEW b, NEW off, IsJob(j, p, w, b, off), NEW n \in Nat, NEW t \in Nat,
                      t <= Len(w), Sends(j, b, off, w, d, n, t)
               PROVE  Sent(j, b, off, w, e, t, <<>>)
    BY DEF SentOn
  <1>1. n \in 0..Len(b) /\ d \in Encoders /\ d.left = Stretch(b, n, Len(b))
    BY DEF Sends
  <1>2. d.work = "none" /\ t = Len(w)
    <2>1. CASE CanEncode(j)
      <3>1. Encodes(w, d, off[n], t)
        BY <2>1 DEF Sends
      <3> QED BY <3>1 DEF Encodes
    <2>2. CASE ~CanEncode(j)
      <3>1. d.work = "none" /\ t = off[n] /\ d.left = <<>>
        BY <2>2 DEF Sends
      <3>2. b \in Seq(Seq(Bytes)) /\ off[Len(b)] = Len(w)
        BY <2>2, JobParts
      <3>3. n = Len(b)
        <4>1. n \in Nat /\ Len(b) \in Nat /\ n <= Len(b) /\ Len(b) <= Len(b)
          BY <1>1, <3>2
        <4>2. Len(Stretch(b, n, Len(b))) = Len(b) - n
          BY <3>2, <4>1, StretchFacts DEF Stretches
        <4>3. Len(Stretch(b, n, Len(b))) = 0
          BY <1>1, <3>1
        <4> QED BY <4>1, <4>2, <4>3
      <3> QED BY <3>1, <3>2, <3>3
    <2> QED BY <2>1, <2>2
  <1>3. e \in Encoders /\ e.left = d.left /\ e.done = "end" /\ e.work = "none"
    BY <1>1, <1>2 DEF Encoders
  <1>4. Sends(j, b, off, w, e, n, t)
    BY <1>1, <1>2, <1>3 DEF Sends
  <1>5. <<>> = Stretch(w, t, t)
    BY DEF Stretch
  <1> QED BY <1>4, <1>5 DEF Sent

-----------------------------------------------------------------------------
\* Every operation preserves the invariant.
LEMMA EncoderRuns ==
  ASSUME CodingInv, EncoderMayRun
  PROVE  /\ CodingOK(coded, deflate, transit, inflate, gotten) /\ coded.job # NoResponse /\ coded.lost = FALSE /\ deflate.done = "no"
         /\ coded \in [job : CodingJobs, lost : BOOLEAN]
  BY DEF CodingInv, CodingOK, EncoderMayRun

\* An encoder that puts out x.
LEMMA EncoderStep ==
  ASSUME CodingInv, EncoderMayRun, NEW e, NEW x, SentOn(coded.job, deflate, e, x), Return(e, x), UNCHANGED <<coded, inflate, gotten>>
  PROVE  CodingInv'
  <1>1. CodingOK(coded, e, transit \o x, inflate, gotten)
    BY EncoderRuns, SendingOn
  <1>2. deflate' = e /\ transit' = transit \o x /\ coded' = coded /\ inflate' = inflate /\ gotten' = gotten
    BY DEF Return
  <1>3. CodingOK(coded', deflate', transit', inflate', gotten')
    BY <1>1, <1>2, Zenon
  <1> QED BY <1>3 DEF CodingInv

\* A thread's work changes an encoder and puts out nothing; what an encoder does after its
\* connection was lost makes no difference.
LEMMA WorkingOn ==
  ASSUME NEW cd, NEW d, NEW tr, NEW i, NEW g, CodingOK(cd, d, tr, i, g), cd.job # NoResponse,
         NEW e, SentOn(cd.job, d, e, <<>>)
  PROVE  CodingOK(cd, e, tr, i, g)
  <1>1. cd \in [job : CodingJobs, lost : BOOLEAN] /\ (~cd.job.lies => Transparent(cd, d, tr, i, g))
    BY DEF CodingOK
  <1>2. ASSUME ~cd.job.lies
        PROVE  Transparent(cd, e, tr, i, g)
    <2>1. PICK p, w, b, off : IsJob(cd.job, p, w, b, off) /\
             \E a, c, t \in Nat : Receives(cd.job, p, w, i, tr, g, cd.lost, a, c, t) /\ (~cd.lost => \E n \in Nat : Sends(cd.job, b, off, w, d, n, t))
      BY <1>1, <1>2, Zenon DEF Transparent
    <2>2. PICK a \in Nat, c \in Nat, t \in Nat : Receives(cd.job, p, w, i, tr, g, cd.lost, a, c, t) /\ (~cd.lost => \E n \in Nat : Sends(cd.job, b, off, w, d, n, t))
      BY <2>1, Zenon
    <2>3. CASE cd.lost
      BY <2>1, <2>2, <2>3, Zenon DEF Transparent
    <2>4. CASE ~cd.lost
      <3>1. PICK n \in Nat : Sends(cd.job, b, off, w, d, n, t)
        BY <2>2, <2>4, Zenon
      <3>2. c <= t /\ t <= Len(w) /\ tr = Stretch(w, c, t)
        BY <2>2, Zenon DEF Receives
      <3>3. Sent(cd.job, b, off, w, e, t, <<>>)
        BY <2>1, <3>1, <3>2, Zenon DEF SentOn
      <3>4. PICK u \in Nat : t <= u /\ u <= Len(w) /\ <<>> = Stretch(w, t, u) /\ \E m \in Nat : Sends(cd.job, b, off, w, e, m, u)
        BY <3>3, Zenon DEF Sent
      <3>5. w \in Seq(Bytes)
        BY <2>1, JobParts, Zenon
      <3>6. u = t
        <4>1. Len(Stretch(w, t, u)) = u - t
          BY <3>4, <3>5, StretchFacts DEF Stretches
        <4>2. Len(Stretch(w, t, u)) = 0
          BY <3>4
        <4> QED BY <4>1, <4>2
      <3> QED BY <2>1, <2>2, <3>4, <3>6, Zenon DEF Transparent
    <2> QED BY <2>3, <2>4
  <1> QED BY <1>1, <1>2, Zenon DEF CodingOK

LEMMA CompressWorkStep == CodingInv /\ CompressWork => CodingInv'
  <1> SUFFICES ASSUME CodingInv, CompressWork
               PROVE  CodingInv'
    OBVIOUS
  <1>1. deflate.work = "running" /\ UNCHANGED <<coded, transit, inflate, gotten>>
    BY DEF CompressWork
  <1>2. CodingOK(coded, deflate, transit, inflate, gotten)
    BY DEF CodingInv
  <1>3. coded.job # NoResponse
    <2>1. BodyEncoder(<<>>, FALSE).work = "none"
      BY DEF BodyEncoder
    <2> QED BY <1>1, <1>2, <2>1 DEF CodingOK
  <1>4. PICK s \in Squeezed(deflate.held, deflate.chunk) : deflate' = [deflate EXCEPT !.work = "ready", !.held = s.held, !.chunk = s.out]
    BY Zenon DEF CompressWork
  <1>5. PICK e : e = [deflate EXCEPT !.work = "ready", !.held = s.held, !.chunk = s.out] /\ deflate' = e
    BY <1>4
  <1>6. SentOn(coded.job, deflate, e, <<>>)
    BY <1>1, <1>5, Compressed
  <1>7. CodingOK(coded, e, transit, inflate, gotten)
    BY <1>2, <1>3, <1>6, WorkingOn
  <1>8. CodingOK(coded', deflate', transit', inflate', gotten')
    BY <1>1, <1>5, <1>7, Zenon
  <1> QED BY <1>8 DEF CodingInv

\* A connection is lost with a part of what is on its way.
LEMMA LosesSome ==
  ASSUME NEW cd, NEW d, NEW tr, NEW i, NEW g, CodingOK(cd, d, tr, i, g), cd.job # NoResponse,
         NEW ce, ce = [cd EXCEPT !.lost = TRUE], NEW e, NEW k \in 0..Len(tr)
  PROVE  CodingOK(ce, e, SubSeq(tr, 1, k), i, g)
  <1>1. cd \in [job : CodingJobs, lost : BOOLEAN] /\ (~cd.job.lies => Transparent(cd, d, tr, i, g))
    BY DEF CodingOK
  <1>2. ce \in [job : CodingJobs, lost : BOOLEAN] /\ ce.job = cd.job /\ ce.lost = TRUE /\ ce.job # NoResponse
    BY <1>1
  <1>3. ASSUME ~cd.job.lies
        PROVE  Transparent(ce, e, SubSeq(tr, 1, k), i, g)
    <2>1. PICK p, w, b, off : IsJob(cd.job, p, w, b, off) /\
             \E a, c, t \in Nat : Receives(cd.job, p, w, i, tr, g, cd.lost, a, c, t) /\ (~cd.lost => \E n \in Nat : Sends(cd.job, b, off, w, d, n, t))
      BY <1>1, <1>3, Zenon DEF Transparent
    <2>2. PICK a \in Nat, c \in Nat, t \in Nat : Receives(cd.job, p, w, i, tr, g, cd.lost, a, c, t)
      BY <2>1, Zenon
    <2>3. w \in Seq(Bytes)
      BY <2>1, JobParts, Zenon
    <2>4. PICK u \in Nat : Receives(cd.job, p, w, i, SubSeq(tr, 1, k), g, TRUE, a, c, u)
      BY <2>2, <2>3, LessArrives, Zenon
    <2>5. Receives(ce.job, p, w, i, SubSeq(tr, 1, k), g, ce.lost, a, c, u) /\ IsJob(ce.job, p, w, b, off)
      BY <1>2, <2>1, <2>4, Zenon
    <2> QED BY <1>2, <2>5, Zenon DEF Transparent
  <1>4. ~ce.job.lies => Transparent(ce, e, SubSeq(tr, 1, k), i, g)
    BY <1>2, <1>3, Zenon
  <1> QED BY <1>2, <1>4, Zenon DEF CodingOK

LEMMA CompressFailsStep == CodingInv /\ CompressFails => CodingInv'
  <1> SUFFICES ASSUME CodingInv, CompressFails
               PROVE  CodingInv'
    OBVIOUS
  <1>1. EncoderMayRun /\ inflate' = inflate /\ gotten' = gotten
    BY DEF CompressFails
  <1>2. PICK k \in 0..Len(transit) : transit' = SubSeq(transit, 1, k)
    BY Zenon DEF CompressFails
  <1>3. PICK ce : ce = [coded EXCEPT !.lost = TRUE] /\ coded' = ce
    BY DEF CompressFails
  <1>4. PICK e : deflate' = e
    OBVIOUS
  <1>5. CodingOK(ce, e, SubSeq(transit, 1, k), inflate, gotten)
    BY <1>1, <1>3, EncoderRuns, LosesSome
  <1>6. CodingOK(coded', deflate', transit', inflate', gotten')
    BY <1>1, <1>2, <1>3, <1>4, <1>5, Zenon
  <1> QED BY <1>6 DEF CodingInv

LEMMA LoseStep == CodingInv /\ Lose => CodingInv'
  <1> SUFFICES ASSUME CodingInv, Lose
               PROVE  CodingInv'
    OBVIOUS
  <1>1. (EncoderMayRun \/ transit # <<>>) /\ inflate' = inflate /\ gotten' = gotten /\ deflate' = deflate
    BY DEF Lose
  <1>2. PICK k \in 0..Len(transit) : transit' = SubSeq(transit, 1, k)
    BY Zenon DEF Lose
  <1>3. PICK ce : ce = [coded EXCEPT !.lost = TRUE] /\ coded' = ce
    BY DEF Lose
  <1>4. CodingOK(coded, deflate, transit, inflate, gotten)
    BY DEF CodingInv
  <1>5. coded.job # NoResponse
    BY <1>1, <1>4 DEF CodingOK, EncoderMayRun
  <1>6. CodingOK(ce, deflate, SubSeq(transit, 1, k), inflate, gotten)
    BY <1>3, <1>4, <1>5, LosesSome
  <1>7. CodingOK(coded', deflate', transit', inflate', gotten')
    BY <1>1, <1>2, <1>3, <1>6, Zenon
  <1> QED BY <1>7 DEF CodingInv

LEMMA CompressChunkStep == CodingInv /\ CompressChunk => CodingInv'
  <1> SUFFICES ASSUME CodingInv, CompressChunk
               PROVE  CodingInv'
    OBVIOUS
  <1>1. EncoderMayRun /\ deflate.done = "no" /\ ~deflate.eof /\ deflate.work = "none" /\ deflate.left # <<>> /\ UNCHANGED <<coded, inflate, gotten>>
    BY DEF CompressChunk, EncoderMayRun
  <1>2. PICK f : f = [deflate EXCEPT !.left = Tail(deflate.left)]
    OBVIOUS
  <1>3. PICK chunk : chunk = Head(deflate.left)
    OBVIOUS
  <1>4. \/ deflate.coder = "none" /\ Return(f, chunk)
        \/ /\ deflate.coder = "here"
           /\ \E s \in Squeezed(deflate.held, chunk) : Return([f EXCEPT !.held = s.held], s.out)
        \/ /\ deflate.coder = "here"
           /\ Return([f EXCEPT !.coder = "away", !.work = "running", !.chunk = chunk], <<>>)
    BY <1>2, <1>3, Zenon DEF CompressChunk
  <1>5. CASE deflate.coder = "none" /\ Return(f, chunk)
    <2>1. SentOn(coded.job, deflate, f, chunk)
      BY <1>1, <1>2, <1>3, <1>5, PassedOn
    <2> QED BY <1>1, <1>5, <2>1, EncoderStep
  <1>6. ASSUME deflate.coder = "here", NEW s \in Squeezed(deflate.held, chunk), Return([f EXCEPT !.held = s.held], s.out)
        PROVE  CodingInv'
    <2>1. PICK e : e = [f EXCEPT !.held = s.held]
      OBVIOUS
    <2>2. SentOn(coded.job, deflate, e, s.out)
      BY <1>1, <1>2, <1>3, <1>6, <2>1, CompressedInPlace
    <2>3. Return(e, s.out)
      BY <1>6, <2>1, Zenon
    <2> QED BY <1>1, <2>2, <2>3, EncoderStep
  <1>7. ASSUME deflate.coder = "here", Return([f EXCEPT !.coder = "away", !.work = "running", !.chunk = chunk], <<>>)
        PROVE  CodingInv'
    <2>1. PICK e : e = [f EXCEPT !.coder = "away", !.work = "running", !.chunk = chunk]
      OBVIOUS
    <2>2. SentOn(coded.job, deflate, e, <<>>)
      BY <1>1, <1>2, <1>3, <1>7, <2>1, HandedOver
    <2>3. Return(e, <<>>)
      BY <1>7, <2>1, Zenon
    <2> QED BY <1>1, <2>2, <2>3, EncoderStep
  <1> QED BY <1>4, <1>5, <1>6, <1>7

LEMMA CompressResultStep == CodingInv /\ CompressResult => CodingInv'
  <1> SUFFICES ASSUME CodingInv, CompressResult
               PROVE  CodingInv'
    OBVIOUS
  <1>1. EncoderMayRun /\ deflate.done = "no" /\ deflate.work = "ready" /\ UNCHANGED <<coded, inflate, gotten>>
    BY DEF CompressResult, EncoderMayRun
  <1>2. PICK e : e = [deflate EXCEPT !.coder = "here", !.work = "none", !.chunk = <<>>]
    OBVIOUS
  <1>3. Return(e, deflate.chunk)
    BY <1>2, Zenon DEF CompressResult
  <1>4. SentOn(coded.job, deflate, e, deflate.chunk)
    BY <1>1, <1>2, ResultPutOut
  <1> QED BY <1>1, <1>3, <1>4, EncoderStep

LEMMA CompressFinishStep == CodingInv /\ CompressFinish => CodingInv'
  <1> SUFFICES ASSUME CodingInv, CompressFinish
               PROVE  CodingInv'
    OBVIOUS
  <1>1. EncoderMayRun /\ deflate.done = "no" /\ ~deflate.eof /\ deflate.work = "none" /\ deflate.left = <<>> /\ UNCHANGED <<coded, inflate, gotten>>
    BY DEF CompressFinish, EncoderMayRun
  <1>2. CASE deflate.coder = "here"
    <2>1. PICK e : e = [deflate EXCEPT !.coder = "none", !.held = <<>>, !.eof = TRUE]
      OBVIOUS
    <2>2. PICK x : x = Append(deflate.held, Trailer)
      OBVIOUS
    <2>3. Return(e, x)
      BY <1>2, <2>1, <2>2, Zenon DEF CompressFinish
    <2>4. SentOn(coded.job, deflate, e, Append(deflate.held, Trailer))
      BY <1>1, <1>2, <2>1, Finished
    <2>5. SentOn(coded.job, deflate, e, x)
      BY <2>2, <2>4, Zenon
    <2> QED BY <1>1, <2>3, <2>5, EncoderStep
  <1>3. CASE deflate.coder # "here"
    <2>1. PICK e : e = [deflate EXCEPT !.done = "end"]
      OBVIOUS
    <2>2. Return(e, <<>>)
      BY <1>3, <2>1, Zenon DEF CompressFinish
    <2>3. SentOn(coded.job, deflate, e, <<>>)
      BY <1>1, <1>3, <2>1, EndPassedOn
    <2> QED BY <1>1, <2>2, <2>3, EncoderStep
  <1> QED BY <1>2, <1>3

LEMMA CompressEofStep == CodingInv /\ CompressEof => CodingInv'
  <1> SUFFICES ASSUME CodingInv, CompressEof
               PROVE  CodingInv'
    OBVIOUS
  <1>1. EncoderMayRun /\ deflate.done = "no" /\ deflate.eof /\ UNCHANGED <<coded, inflate, gotten>>
    BY DEF CompressEof, EncoderMayRun
  <1>2. PICK e : e = [deflate EXCEPT !.done = "end"]
    OBVIOUS
  <1>3. Return(e, <<>>)
    BY <1>2, Zenon DEF CompressEof
  <1>4. SentOn(coded.job, deflate, e, <<>>)
    BY <1>1, <1>2, EndPassedOn
  <1> QED BY <1>1, <1>3, <1>4, EncoderStep

\* What a decoder does with the bytes that arrive.
ReadOn(j, d, lost, i, tr, g, i1, tr1, g1) ==
  \A p, w, b, off : IsJob(j, p, w, b, off) =>
    \A a \in Nat, c \in Nat, t \in Nat :
      Receives(j, p, w, i, tr, g, lost, a, c, t) /\ (~lost /\ d.done = "end" => t = Len(w)) =>
        \E e, f \in Nat : Receives(j, p, w, i1, tr1, g1, lost, e, f, t)

LEMMA ReadingOn ==
  ASSUME NEW cd, NEW d, NEW tr, NEW i, NEW g, CodingOK(cd, d, tr, i, g), cd.job # NoResponse,
         NEW tr1, NEW i1, NEW g1, ReadOn(cd.job, d, cd.lost, i, tr, g, i1, tr1, g1)
  PROVE  CodingOK(cd, d, tr1, i1, g1)
  <1>1. cd \in [job : CodingJobs, lost : BOOLEAN] /\ (~cd.job.lies => Transparent(cd, d, tr, i, g))
    BY DEF CodingOK
  <1>2. ASSUME ~cd.job.lies
        PROVE  Transparent(cd, d, tr1, i1, g1)
    <2>1. PICK p, w, b, off : IsJob(cd.job, p, w, b, off) /\
             \E a, c, t \in Nat : Receives(cd.job, p, w, i, tr, g, cd.lost, a, c, t) /\ (~cd.lost => \E n \in Nat : Sends(cd.job, b, off, w, d, n, t))
      BY <1>1, <1>2, Zenon DEF Transparent
    <2>2. PICK a \in Nat, c \in Nat, t \in Nat : Receives(cd.job, p, w, i, tr, g, cd.lost, a, c, t) /\ (~cd.lost => \E n \in Nat : Sends(cd.job, b, off, w, d, n, t))
      BY <2>1, Zenon
    <2>3. ~cd.lost /\ d.done = "end" => t = Len(w)
      BY <2>2, Zenon DEF Sends
    <2>4. PICK e \in Nat, f \in Nat : Receives(cd.job, p, w, i1, tr1, g1, cd.lost, e, f, t)
      BY <2>1, <2>2, <2>3, Zenon DEF ReadOn
    <2> QED BY <2>1, <2>2, <2>4, Zenon DEF Transparent
  <1> QED BY <1>1, <1>2, Zenon DEF CodingOK

LEMMA ReadChunk ==
  ASSUME NEW p, NEW w, NEW e, e = TRUE, Wire(e, p, w), NEW a \in Nat, NEW c \in Nat, a < c, c <= Len(w)
  PROVE  Read(p, a) \o Unpacked(Stretch(w, a, c)) = Read(p, c)
  <1>0. PICK s : s = Stretch(w, a, c) /\ Wire(TRUE, p, w)
    BY Zenon
  <1>1. PICK m \in Nat : m = (IF c <= Len(p) THEN c ELSE Len(p)) /\ Unpacked(s) = Stretch(p, a, m) /\ a <= Len(p) /\ a <= m /\ m <= Len(p)
    <2>1. Unpacked(s) = Stretch(p, a, IF c <= Len(p) THEN c ELSE Len(p)) /\ a <= Len(p)
      <3>1. Decompressed(p, w, s, a, c)
        BY <1>0, CompressedChunk
      <3> QED BY <3>1, Zenon DEF Decompressed
    <2>2. p \in Seq(Nat \ {0})
      BY <1>0 DEF Wire
    <2>3. Len(p) \in Nat
      BY <2>2
    <2> QED BY <2>1, <2>3
  <1>2. Read(p, a) = Stretch(p, 0, a)
    BY <1>1 DEF Read
  <1>3. p \in Seq(Nat \ {0}) /\ 0 <= a
    <2>1. p \in Seq(Nat \ {0})
      BY <1>0, Zenon DEF Wire
    <2>2. 0 <= a
      OBVIOUS
    <2> QED BY <2>1, <2>2, Zenon
  <1>4. Stretch(p, 0, a) \o Stretch(p, a, m) = Stretch(p, 0, m)
    <2>1. 0 \in Nat /\ a \in Nat /\ m \in Nat /\ 0 <= a /\ a <= m /\ m <= Len(p)
      BY <1>1, <1>3
    <2> QED BY <1>3, <2>1, StretchJoin, Zenon
  <1>5. Read(p, a) \o Unpacked(s) = Read(p, c)
    BY <1>1, <1>2, <1>4 DEF Read
  <1> QED BY <1>0, <1>5, Zenon

\* The first k bytes on the way reach up to f.
Arrived(w, tr, k, c, t, f) ==
  /\ f = c + k /\ c < f /\ f <= t /\ t <= Len(w)
  /\ SubSeq(tr, 1, k) = Stretch(w, c, f) /\ SubSeq(tr, k + 1, Len(tr)) = Stretch(w, f, t)

LEMMA Taken ==
  ASSUME NEW j, NEW p, NEW w \in Seq(Bytes), NEW i, NEW tr, NEW g, NEW lost, NEW a \in Nat, NEW c \in Nat, NEW t \in Nat,
         Receives(j, p, w, i, tr, g, lost, a, c, t), NEW k \in 1..Len(tr)
  PROVE  \E f \in Nat : Arrived(w, tr, k, c, t, f)
  <1>1. a <= c /\ c <= t /\ t <= Len(w) /\ tr = Stretch(w, c, t)
    BY DEF Receives
  <1>2. Len(tr) = t - c
    BY <1>1, StretchFacts DEF Stretches
  <1>3. PICK f \in Nat : f = c + k /\ k \in 0..(t - c) /\ c < f /\ f <= t
    BY <1>2
  <1>4. SubSeq(tr, 1, k) = Stretch(w, c, f) /\ SubSeq(tr, k + 1, Len(tr)) = Stretch(w, f, t)
    BY <1>1, <1>3, StretchCut
  <1> QED BY <1>1, <1>3, <1>4 DEF Arrived

\* A chunk that nothing compressed is read.
LEMMA PlainRead ==
  ASSUME NEW j, NEW d, NEW lost, NEW i, NEW tr, NEW g, i.done = "no", i.work = "none", i.coder = "none",
         NEW k \in 1..Len(tr), NEW s, s = SubSeq(tr, 1, k)
  PROVE  ReadOn(j, d, lost, i, tr, g, i, SubSeq(tr, k + 1, Len(tr)), g \o [n \in 1..k |-> s[n].v])
  <1> SUFFICES ASSUME NEW p, NEW w, NEW b, NEW off, IsJob(j, p, w, b, off), NEW a \in Nat, NEW c \in Nat, NEW t \in Nat,
                      Receives(j, p, w, i, tr, g, lost, a, c, t)
               PROVE  \E e, f \in Nat : Receives(j, p, w, i, SubSeq(tr, k + 1, Len(tr)), g \o [n \in 1..k |-> s[n].v], lost, e, f, t)
    BY DEF ReadOn
  <1>1. w \in Seq(Bytes) /\ Encoded(j) \in BOOLEAN /\ Wire(Encoded(j), p, w) /\ p \in Seq(Nat \ {0})
    BY JobParts
  <1>2. ~Encoded(j) /\ a = c /\ ~i.eof /\ i \in Decoders
    BY <1>1 DEF Receives, Decodes
  <1>3. PICK f \in Nat : /\ f = c + k /\ c < f /\ f <= t /\ t <= Len(w)
                         /\ SubSeq(tr, 1, k) = Stretch(w, c, f) /\ SubSeq(tr, k + 1, Len(tr)) = Stretch(w, f, t)
    <2>1. PICK f \in Nat : Arrived(w, tr, k, c, t, f)
      BY <1>1, Taken
    <2> QED BY <2>1 DEF Arrived
  <1>4. Wire(FALSE, p, w)
    <2>1. Encoded(j) = FALSE
      BY <1>1, <1>2
    <2> QED BY <1>1, <2>1, Zenon
  <1>5. f <= Len(w) /\ c <= f /\ f - c = k
    BY <1>1, <1>3
  <1>6. [n \in 1..k |-> s[n].v] = Stretch(p, c, f) /\ Len(w) = Len(p)
    <2>1. s = Stretch(w, c, f)
      BY <1>3
    <2>2. PassedBytes(p, w, s, c, f)
      BY <1>4, <1>5, <2>1, PlainChunk
    <2>3. [n \in 1..(f - c) |-> s[n].v] = Stretch(p, c, f) /\ Len(w) = Len(p)
      BY <2>2 DEF PassedBytes
    <2> QED BY <1>5, <2>3
  <1>7. g = Stretch(p, 0, c)
    <2>1. g = Stretch(p, 0, IF a <= Len(p) THEN a ELSE Len(p))
      BY DEF Receives
    <2>2. c <= Len(p)
      BY <1>1, <1>5, <1>6
    <2> QED BY <1>2, <2>1, <2>2
  <1>8. g \o [n \in 1..k |-> s[n].v] = Stretch(p, 0, f)
    <2>1. f <= Len(p) /\ 0 <= c /\ c <= f
      BY <1>5, <1>6
    <2>2. Stretch(p, 0, c) \o Stretch(p, c, f) = Stretch(p, 0, f)
      BY <1>1, <2>1, StretchJoin, ZenonT(60)
    <2> QED BY <1>6, <1>7, <2>2
  <1>9. PICK y, x : y = g \o [n \in 1..k |-> s[n].v] /\ x = SubSeq(tr, k + 1, Len(tr))
    OBVIOUS
  <1>10. y = Stretch(p, 0, IF f <= Len(p) THEN f ELSE Len(p)) /\ x = Stretch(w, f, t)
    BY <1>3, <1>5, <1>6, <1>8, <1>9
  <1>11. Receives(j, p, w, i, x, y, lost, f, f, t)
    BY <1>2, <1>3, <1>10 DEF Receives
  <1> QED BY <1>9, <1>11, Zenon

\* A chunk that is compressed is decompressed in place or handed to a thread.
TakesCompressed(j, p, w, i, tr, g, a, c, t, k) ==
  /\ Encoded(j) /\ a = c /\ ~i.eof /\ ~i.ended /\ i \in Decoders /\ Wire(TRUE, p, w) /\ w \in Seq(Bytes) /\ g = Read(p, a)
  /\ \E f \in Nat : Arrived(w, tr, k, c, t, f)

LEMMA TakenCompressed ==
  ASSUME NEW j, NEW p, NEW w, NEW b, NEW off, IsJob(j, p, w, b, off), NEW i, NEW tr, NEW g, NEW lost,
         NEW a \in Nat, NEW c \in Nat, NEW t \in Nat, Receives(j, p, w, i, tr, g, lost, a, c, t),
         i.done = "no", i.work = "none", i.coder = "here", NEW k \in 1..Len(tr)
  PROVE  TakesCompressed(j, p, w, i, tr, g, a, c, t, k)
  <1>1. w \in Seq(Bytes) /\ Encoded(j) \in BOOLEAN /\ Wire(Encoded(j), p, w)
    BY JobParts
  <1>2. PICK f \in Nat : Arrived(w, tr, k, c, t, f)
    BY <1>1, Taken
  <1>3. Encoded(j) /\ i \in Decoders /\ ~i.eof
    BY DEF Receives
  <1>4. (i.ended <=> a = Len(w)) /\ a = c
    BY <1>3 DEF Receives, Decodes
  <1>5. a # Len(w)
    <2>1. c < f /\ f <= t /\ t <= Len(w)
      BY <1>2 DEF Arrived
    <2>2. Len(w) \in Nat
      BY <1>1
    <2> QED BY <1>4, <2>1, <2>2
  <1>6. Wire(TRUE, p, w)
    <2>1. Encoded(j) = TRUE
      BY <1>1, <1>3
    <2> QED BY <1>1, <2>1, Zenon
  <1>7. g = Read(p, a)
    BY DEF Receives, Read
  <1> QED BY <1>1, <1>2, <1>3, <1>4, <1>5, <1>6, <1>7 DEF TakesCompressed

LEMMA HandedToThread ==
  ASSUME NEW j, NEW d, NEW lost, NEW i, NEW tr, NEW g, i.done = "no", i.work = "none", i.coder = "here",
         NEW k \in 1..Len(tr), NEW s, s = SubSeq(tr, 1, k),
         NEW i1, i1 = [i EXCEPT !.coder = "away", !.work = "running", !.chunk = s]
  PROVE  ReadOn(j, d, lost, i, tr, g, i1, SubSeq(tr, k + 1, Len(tr)), g)
  <1> SUFFICES ASSUME NEW p, NEW w, NEW b, NEW off, IsJob(j, p, w, b, off), NEW a \in Nat, NEW c \in Nat, NEW t \in Nat,
                      Receives(j, p, w, i, tr, g, lost, a, c, t)
               PROVE  \E e, f \in Nat : Receives(j, p, w, i1, SubSeq(tr, k + 1, Len(tr)), g, lost, e, f, t)
    BY DEF ReadOn
  <1>1. /\ Encoded(j) /\ a = c /\ ~i.eof /\ ~i.ended /\ i \in Decoders /\ Wire(TRUE, p, w) /\ w \in Seq(Bytes) /\ g = Read(p, a)
        /\ \E f \in Nat : Arrived(w, tr, k, c, t, f)
    <2>1. TakesCompressed(j, p, w, i, tr, g, a, c, t, k)
      BY TakenCompressed
    <2> QED BY <2>1, Zenon DEF TakesCompressed
  <1>2. PICK f \in Nat : Arrived(w, tr, k, c, t, f)
    BY <1>1
  <1>3. c < f /\ f <= t /\ t <= Len(w) /\ s = Stretch(w, c, f)
    BY <1>2 DEF Arrived
  <1>4. Len(w) \in Nat /\ c <= f /\ f <= Len(w)
    BY <1>1, <1>3
  <1>5. s \in Seq(Bytes)
    BY <1>1, <1>3, <1>4, StretchFacts
  <1>6. i1 \in Decoders /\ i1.coder = "away" /\ i1.work = "running" /\ i1.chunk = s /\ i1.done = "no" /\ ~i1.eof /\ ~i1.ended
    BY <1>1, <1>5 DEF Decoders
  <1>7. Decodes(w, i1, a, f)
    BY <1>1, <1>3, <1>4, <1>6 DEF Decodes
  <1>8. PICK x : x = SubSeq(tr, k + 1, Len(tr)) /\ x = Stretch(w, f, t)
    BY <1>2 DEF Arrived
  <1>9. a <= f /\ f <= t /\ t <= Len(w) /\ g = Stretch(p, 0, IF a <= Len(p) THEN a ELSE Len(p))
    BY <1>1, <1>3, <1>4 DEF Read
  <1>10. Receives(j, p, w, i1, x, g, lost, a, f, t)
    BY <1>1, <1>6, <1>7, <1>8, <1>9 DEF Receives
  <1> QED BY <1>8, <1>10, Zenon

\* The decoder has decompressed chunk s, from a to c.
LEMMA Decoded ==
  ASSUME NEW j, NEW p, NEW w, Wire(TRUE, p, w), NEW a \in Nat, NEW c \in Nat, NEW t \in Nat, a < c, c <= t, t <= Len(w),
         NEW s, s = Stretch(w, a, c), NEW g, g = Read(p, a), Encoded(j), NEW lost,
         NEW i1 \in Decoders, i1.coder = "here", i1.work = "none", i1.done = "no", ~i1.eof,
         i1.ended <=> (Trailer \in ToSet(s)), NEW x, x = Stretch(w, c, t)
  PROVE  Receives(j, p, w, i1, x, g \o Unpacked(s), lost, c, c, t)
  <1>1. c <= Len(w)
    <2>1. Len(w) \in Nat
      BY DEF Wire
    <2> QED BY <2>1
  <1>2. Decompressed(p, w, s, a, c)
    BY <1>1, CompressedChunk
  <1>3. i1.ended <=> c = Len(w)
    BY <1>2 DEF Decompressed
  <1>4. PICK y : y = g \o Unpacked(s) /\ y = Read(p, c)
    <2>1. PICK e : e = TRUE /\ Wire(e, p, w)
      BY Zenon
    <2>2. Read(p, a) \o Unpacked(Stretch(w, a, c)) = Read(p, c)
      BY <1>1, <2>1, ReadChunk
    <2> QED BY <2>2
  <1>5. Decodes(w, i1, c, c)
    BY <1>3 DEF Decodes
  <1>6. Receives(j, p, w, i1, x, y, lost, c, c, t)
    BY <1>4, <1>5 DEF Receives, Read
  <1> QED BY <1>4, <1>6, Zenon

\* A chunk of a body that arrives as it was sent is fed without an error.
LEMMA FedWell ==
  ASSUME NEW p, NEW w, NEW s, NEW a, NEW c, Decompressed(p, w, s, a, c), ~inflate.ended, Yield(s)
  PROVE  /\ Fed(inflate, s) = [inflate EXCEPT !.ended = Trailer \in ToSet(s), !.coder = "here"]
         /\ gotten' = gotten \o Unpacked(s)
  <1>1. ~Bad(s)
    BY DEF Bad, Decompressed
  <1> QED BY <1>1 DEF Fed, Yield

LEMMA MemberOrNot ==
  ASSUME NEW s, NEW x
  PROVE  \E z \in BOOLEAN : z = (x \in s)
  <1>1. (x \in s) \in BOOLEAN
    BY SMT
  <1> QED BY <1>1, Zenon

LEMMA DecompressChunkStep == CodingInv /\ DecompressChunk => CodingInv'
  <1> SUFFICES ASSUME CodingInv, DecompressChunk
               PROVE  CodingInv'
    OBVIOUS
  <1>1. coded.job # NoResponse /\ inflate.done = "no" /\ inflate.work = "none" /\ coded' = coded /\ deflate' = deflate
    BY DEF DecompressChunk, DecoderMayRun
  <1>2. CodingOK(coded, deflate, transit, inflate, gotten)
    BY DEF CodingInv
  <1>3. PICK k \in 1..Len(transit) :
          LET chunk == SubSeq(transit, 1, k)
          IN  /\ transit' = SubSeq(transit, k + 1, Len(transit))
              /\ \/ /\ inflate.coder = "none"
                    /\ inflate' = inflate /\ gotten' = gotten \o [i \in 1..k |-> chunk[i].v]
                 \/ /\ inflate.coder = "here" /\ k < DecodeInPlace
                    /\ inflate' = Fed(inflate, chunk) /\ Yield(chunk)
                 \/ /\ inflate.coder = "here" /\ k >= DecodeInPlace
                    /\ inflate' = [inflate EXCEPT !.coder = "away", !.work = "running", !.chunk = chunk]
                    /\ UNCHANGED gotten
    BY Zenon DEF DecompressChunk
  <1>4. PICK s : s = SubSeq(transit, 1, k)
    OBVIOUS
  <1>5. PICK x : x = SubSeq(transit, k + 1, Len(transit)) /\ transit' = x
    BY <1>3
  <1>6. \/ /\ inflate.coder = "none"
           /\ inflate' = inflate /\ gotten' = gotten \o [i \in 1..k |-> s[i].v]
        \/ inflate.coder = "here" /\ inflate' = Fed(inflate, s) /\ Yield(s)
        \/ /\ inflate.coder = "here" /\ gotten' = gotten
           /\ inflate' = [inflate EXCEPT !.coder = "away", !.work = "running", !.chunk = s]
    BY <1>3, <1>4, Zenon
  <1>7. ASSUME NEW i1, NEW g1, i1 = inflate', g1 = gotten', ReadOn(coded.job, deflate, coded.lost, inflate, transit, gotten, i1, x, g1)
        PROVE  CodingInv'
    <2>1. CodingOK(coded, deflate, x, i1, g1)
      BY <1>1, <1>2, <1>7, ReadingOn
    <2>2. CodingOK(coded', deflate', transit', inflate', gotten')
      BY <1>1, <1>5, <1>7, <2>1, Zenon
    <2> QED BY <2>2 DEF CodingInv
  <1>8. PICK i1, g1 : i1 = inflate' /\ g1 = gotten'
    OBVIOUS
  <1>9. CASE inflate.coder = "none" /\ inflate' = inflate /\ gotten' = gotten \o [i \in 1..k |-> s[i].v]
    <2>1. ReadOn(coded.job, deflate, coded.lost, inflate, transit, gotten, inflate, SubSeq(transit, k + 1, Len(transit)), gotten \o [i \in 1..k |-> s[i].v])
      BY <1>1, <1>4, <1>9, PlainRead, ZenonT(60)
    <2>2. ReadOn(coded.job, deflate, coded.lost, inflate, transit, gotten, i1, x, g1)
      BY <1>5, <1>8, <1>9, <2>1, Zenon
    <2> QED BY <1>7, <1>8, <2>2
  <1>10. CASE inflate.coder = "here" /\ gotten' = gotten /\ inflate' = [inflate EXCEPT !.coder = "away", !.work = "running", !.chunk = s]
    <2>1. i1 = [inflate EXCEPT !.coder = "away", !.work = "running", !.chunk = s]
      BY <1>8, <1>10
    <2>2. ReadOn(coded.job, deflate, coded.lost, inflate, transit, gotten, i1, SubSeq(transit, k + 1, Len(transit)), gotten)
      BY <1>1, <1>4, <1>10, <2>1, HandedToThread
    <2>3. ReadOn(coded.job, deflate, coded.lost, inflate, transit, gotten, i1, x, g1)
      BY <1>5, <1>8, <1>10, <2>2, Zenon
    <2> QED BY <1>7, <1>8, <2>3
  <1>11. CASE inflate.coder = "here" /\ inflate' = Fed(inflate, s) /\ Yield(s)
    <2>1. ASSUME NEW p, NEW w, NEW b, NEW off, IsJob(coded.job, p, w, b, off), NEW a \in Nat, NEW c \in Nat, NEW t \in Nat,
                 Receives(coded.job, p, w, inflate, transit, gotten, coded.lost, a, c, t)
          PROVE  \E e, f \in Nat : Receives(coded.job, p, w, i1, x, g1, coded.lost, e, f, t)
      <3>1. TakesCompressed(coded.job, p, w, inflate, transit, gotten, a, c, t, k)
        BY <1>1, <1>11, <2>1, TakenCompressed
      <3>2. /\ Encoded(coded.job) /\ a = c /\ ~inflate.eof /\ ~inflate.ended /\ inflate \in Decoders /\ Wire(TRUE, p, w) /\ gotten = Read(p, a)
            /\ w \in Seq(Bytes)
        BY <3>1, Zenon DEF TakesCompressed
      <3>3. PICK f \in Nat : Arrived(w, transit, k, c, t, f)
        BY <3>1, Zenon DEF TakesCompressed
      <3>4. a < f /\ f <= t /\ t <= Len(w) /\ s = Stretch(w, a, f) /\ x = Stretch(w, f, t)
        BY <1>4, <1>5, <3>2, <3>3 DEF Arrived
      <3>5. Len(w) \in Nat /\ f <= Len(w)
        BY <3>2, <3>4
      <3>6. Decompressed(p, w, s, a, f)
        BY <3>2, <3>4, <3>5, CompressedChunk
      <3>7. /\ Fed(inflate, s) = [inflate EXCEPT !.ended = Trailer \in ToSet(s), !.coder = "here"]
            /\ gotten' = gotten \o Unpacked(s)
        BY <1>11, <3>2, <3>6, FedWell
      <3>8. PICK z \in BOOLEAN : z = (Trailer \in ToSet(s))
        BY MemberOrNot, Zenon
      <3>9. i1 = [inflate EXCEPT !.ended = z, !.coder = "here"]
        BY <1>8, <1>11, <3>7, <3>8
      <3>10. i1 \in Decoders /\ i1.coder = "here" /\ i1.work = "none" /\ i1.done = "no" /\ ~i1.eof /\ i1.ended = z
        BY <1>1, <3>2, <3>9 DEF Decoders
      <3>11. i1.ended <=> (Trailer \in ToSet(s))
        BY <3>8, <3>10
      <3>12. Receives(coded.job, p, w, i1, x, gotten \o Unpacked(s), coded.lost, f, f, t)
        BY <3>2, <3>4, <3>10, <3>11, Decoded
      <3>13. Receives(coded.job, p, w, i1, x, g1, coded.lost, f, f, t)
        BY <1>8, <3>7, <3>12, Zenon
      <3> QED BY <3>13, Zenon
    <2>2. ReadOn(coded.job, deflate, coded.lost, inflate, transit, gotten, i1, x, g1)
      BY <2>1, Zenon DEF ReadOn
    <2> QED BY <1>7, <1>8, <2>2
  <1> QED BY <1>6, <1>9, <1>10, <1>11

\* A thread has decompressed a chunk, and its result is read.
Away(j, p, w, i, tr, g, a, c, t) ==
  /\ Encoded(j) /\ i.done = "no" /\ ~i.eof /\ i \in Decoders /\ ~i.ended
  /\ i.coder = "away" /\ i.chunk = Stretch(w, a, c) /\ a < c
  /\ Wire(TRUE, p, w) /\ Len(w) \in Nat /\ c <= t /\ t <= Len(w) /\ c <= Len(w) /\ g = Read(p, a) /\ tr = Stretch(w, c, t)

LEMMA AwayFacts ==
  ASSUME NEW j, NEW p, NEW w, NEW b, NEW off, IsJob(j, p, w, b, off), NEW i, NEW tr, NEW g, NEW lost,
         NEW a \in Nat, NEW c \in Nat, NEW t \in Nat, Receives(j, p, w, i, tr, g, lost, a, c, t), i.work # "none"
  PROVE  Away(j, p, w, i, tr, g, a, c, t)
  <1>1. w \in Seq(Bytes) /\ Encoded(j) \in BOOLEAN /\ Wire(Encoded(j), p, w)
    BY JobParts
  <1>2. i.done = "no" /\ i \in Decoders /\ c <= t /\ t <= Len(w) /\ tr = Stretch(w, c, t) /\ g = Read(p, a)
    BY DEF Receives, Read
  <1>3. Encoded(j) /\ ~i.eof /\ Decodes(w, i, a, c)
    BY <1>2 DEF Receives
  <1>4. i.coder = "away" /\ i.chunk = Stretch(w, a, c) /\ a < c /\ (i.ended <=> a = Len(w))
    BY <1>3 DEF Decodes
  <1>5. Len(w) \in Nat
    BY <1>1
  <1>6. c <= Len(w) /\ a # Len(w)
    BY <1>2, <1>4, <1>5
  <1>7. Wire(TRUE, p, w)
    <2>1. Encoded(j) = TRUE
      BY <1>1, <1>3
    <2> QED BY <1>1, <2>1, Zenon
  <1> QED BY <1>2, <1>3, <1>4, <1>5, <1>6, <1>7 DEF Away

LEMMA DecompressWorkStep == CodingInv /\ DecompressWork => CodingInv'
  <1> SUFFICES ASSUME CodingInv, DecompressWork
               PROVE  CodingInv'
    OBVIOUS
  <1>1. inflate.work = "running" /\ UNCHANGED <<coded, deflate, transit, gotten>>
    BY DEF DecompressWork
  <1>2. CodingOK(coded, deflate, transit, inflate, gotten)
    BY DEF CodingInv
  <1>3. coded.job # NoResponse
    <2>1. BodyDecoder(FALSE).work = "none"
      BY DEF BodyDecoder
    <2> QED BY <1>1, <1>2, <2>1 DEF CodingOK
  <1>4. PICK i1 : i1 = [inflate EXCEPT !.work = "ready"] /\ inflate' = i1
    BY DEF DecompressWork
  <1>5. ASSUME NEW p, NEW w, NEW b, NEW off, IsJob(coded.job, p, w, b, off), NEW a \in Nat, NEW c \in Nat, NEW t \in Nat,
               Receives(coded.job, p, w, inflate, transit, gotten, coded.lost, a, c, t)
        PROVE  \E e, f \in Nat : Receives(coded.job, p, w, i1, transit, gotten, coded.lost, e, f, t)
    <2>1. /\ Encoded(coded.job) /\ inflate.done = "no" /\ ~inflate.eof /\ inflate \in Decoders /\ ~inflate.ended
          /\ inflate.coder = "away" /\ inflate.chunk = Stretch(w, a, c) /\ a < c /\ Len(w) \in Nat /\ c <= Len(w)
      <3>1. Away(coded.job, p, w, inflate, transit, gotten, a, c, t)
        BY <1>1, <1>5, AwayFacts
      <3> QED BY <3>1 DEF Away
    <2>2. /\ i1 \in Decoders /\ i1.coder = "away" /\ i1.work = "ready" /\ i1.chunk = inflate.chunk /\ i1.done = "no" /\ ~i1.eof
          /\ ~i1.ended
      BY <1>4, <2>1 DEF Decoders
    <2>3. Decodes(w, i1, a, c)
      BY <2>1, <2>2 DEF Decodes
    <2>4. Receives(coded.job, p, w, i1, transit, gotten, coded.lost, a, c, t)
      BY <1>5, <2>1, <2>2, <2>3 DEF Receives
    <2> QED BY <2>4
  <1>6. ReadOn(coded.job, deflate, coded.lost, inflate, transit, gotten, i1, transit, gotten)
    BY <1>5, Zenon DEF ReadOn
  <1>7. CodingOK(coded, deflate, transit, i1, gotten)
    BY <1>2, <1>3, <1>6, ReadingOn
  <1>8. CodingOK(coded', deflate', transit', inflate', gotten')
    BY <1>1, <1>4, <1>7, Zenon
  <1> QED BY <1>8 DEF CodingInv

LEMMA DecompressResultStep == CodingInv /\ DecompressResult => CodingInv'
  <1> SUFFICES ASSUME CodingInv, DecompressResult
               PROVE  CodingInv'
    OBVIOUS
  <1>1. /\ coded.job # NoResponse /\ inflate.done = "no" /\ inflate.work = "ready" /\ UNCHANGED <<coded, deflate, transit>>
        /\ inflate' = [Fed(inflate, inflate.chunk) EXCEPT !.work = "none", !.chunk = <<>>] /\ Yield(inflate.chunk)
    BY DEF DecompressResult, DecoderMayRun
  <1>2. CodingOK(coded, deflate, transit, inflate, gotten)
    BY DEF CodingInv
  <1>3. PICK s : s = inflate.chunk
    OBVIOUS
  <1>4. PICK i1, g1 : i1 = inflate' /\ g1 = gotten'
    OBVIOUS
  <1>5. ASSUME NEW p, NEW w, NEW b, NEW off, IsJob(coded.job, p, w, b, off), NEW a \in Nat, NEW c \in Nat, NEW t \in Nat,
               Receives(coded.job, p, w, inflate, transit, gotten, coded.lost, a, c, t)
        PROVE  \E e, f \in Nat : Receives(coded.job, p, w, i1, transit, g1, coded.lost, e, f, t)
    <2>1. /\ Encoded(coded.job) /\ ~inflate.eof /\ inflate \in Decoders /\ ~inflate.ended
          /\ s = Stretch(w, a, c) /\ a < c /\ Wire(TRUE, p, w) /\ c <= t /\ t <= Len(w) /\ c <= Len(w) /\ gotten = Read(p, a)
          /\ transit = Stretch(w, c, t)
      <3>1. Away(coded.job, p, w, inflate, transit, gotten, a, c, t)
        BY <1>1, <1>5, AwayFacts
      <3> QED BY <1>3, <3>1 DEF Away
    <2>2. Decompressed(p, w, s, a, c)
      BY <2>1, CompressedChunk
    <2>3. /\ Fed(inflate, s) = [inflate EXCEPT !.ended = Trailer \in ToSet(s), !.coder = "here"]
          /\ gotten' = gotten \o Unpacked(s)
      <3>1. Yield(s)
        BY <1>1, <1>3, Zenon
      <3> QED BY <2>1, <2>2, <3>1, FedWell
    <2>4. PICK z \in BOOLEAN : z = (Trailer \in ToSet(s))
      BY MemberOrNot, Zenon
    <2>5. PICK f : f = Fed(inflate, s) /\ f = [inflate EXCEPT !.ended = z, !.coder = "here"]
      BY <2>3, <2>4
    <2>6. f \in Decoders /\ f.coder = "here" /\ f.done = "no" /\ ~f.eof /\ f.ended = z
      BY <1>1, <2>1, <2>5 DEF Decoders
    <2>7. i1 = [f EXCEPT !.work = "none", !.chunk = <<>>]
      BY <1>1, <1>3, <1>4, <2>5, Zenon
    <2>8. i1 \in Decoders /\ i1.coder = "here" /\ i1.work = "none" /\ i1.done = "no" /\ ~i1.eof /\ i1.ended = z
      <3>1. <<>> \in Seq(Bytes)
        OBVIOUS
      <3> QED BY <2>6, <2>7, <3>1 DEF Decoders
    <2>9. i1.ended <=> (Trailer \in ToSet(s))
      BY <2>4, <2>8
    <2>10. Receives(coded.job, p, w, i1, transit, gotten \o Unpacked(s), coded.lost, c, c, t)
      BY <2>1, <2>8, <2>9, Decoded
    <2>11. Receives(coded.job, p, w, i1, transit, g1, coded.lost, c, c, t)
      BY <1>4, <2>3, <2>10, Zenon
    <2> QED BY <2>11, Zenon
  <1>6. ReadOn(coded.job, deflate, coded.lost, inflate, transit, gotten, i1, transit, g1)
    BY <1>5, Zenon DEF ReadOn
  <1>7. CodingOK(coded, deflate, transit, i1, g1)
    BY <1>1, <1>2, <1>6, ReadingOn
  <1>8. CodingOK(coded', deflate', transit', inflate', gotten')
    BY <1>1, <1>4, <1>7, Zenon
  <1> QED BY <1>8 DEF CodingInv

\* The payload ends.
LEMMA EndRead ==
  ASSUME NEW cd, NEW e, NEW i, NEW g, i.done = "no", i.work = "none", e.done = "end" \/ cd.lost,
         NEW d \in {"end", "error"}, i.coder = "none" \/ i.ended => d = "end",
         i.coder = "here" /\ ~i.ended /\ HeaderOf(cd.job) = "gzip" => d = "error",
         NEW i1, i1 = [i EXCEPT !.eof = TRUE, !.coder = "none", !.done = d]
  PROVE  ReadOn(cd.job, e, cd.lost, i, <<>>, g, i1, <<>>, g)
  <1> SUFFICES ASSUME NEW p, NEW w, NEW b, NEW off, IsJob(cd.job, p, w, b, off), NEW a \in Nat, NEW c \in Nat, NEW t \in Nat,
                      Receives(cd.job, p, w, i, <<>>, g, cd.lost, a, c, t), ~cd.lost /\ e.done = "end" => t = Len(w)
               PROVE  Receives(cd.job, p, w, i1, <<>>, g, cd.lost, a, c, t)
    BY DEF ReadOn
  <1>1. w \in Seq(Bytes) /\ Encoded(cd.job) \in BOOLEAN
    BY JobParts
  <1>2. i \in Decoders /\ ~i.eof /\ a <= c /\ c <= t /\ t <= Len(w) /\ <<>> = Stretch(w, c, t)
    BY DEF Receives
  <1>3. c = t
    <2>1. Len(Stretch(w, c, t)) = t - c
      BY <1>1, <1>2, StretchFacts DEF Stretches
    <2>2. Len(Stretch(w, c, t)) = 0
      BY <1>2
    <2> QED BY <2>1, <2>2
  <1>4. a = c /\ (Encoded(cd.job) => i.coder = "here" /\ (i.ended <=> a = Len(w))) /\ (~Encoded(cd.job) => i.coder = "none")
    BY <1>1 DEF Receives, Decodes
  <1>5. i1 \in Decoders /\ i1.work = "none" /\ i1.done = d
    BY <1>2 DEF Decoders
  <1>6. ~cd.lost => a = Len(w)
    BY <1>3, <1>4
  <1>7. d = "error" => cd.lost
    BY <1>4, <1>6
  <1>8. HeaderOf(cd.job) = "gzip" => Encoded(cd.job)
    BY DEF Encoded, IsCompression
  <1>9. d = "end" => a = Len(w) \/ (cd.lost /\ HeaderOf(cd.job) # "gzip")
    BY <1>4, <1>6, <1>8
  <1> QED BY <1>5, <1>7, <1>9 DEF Receives

LEMMA DecompressEndStep == CodingInv /\ DecompressEnd => CodingInv'
  <1> SUFFICES ASSUME CodingInv, DecompressEnd
               PROVE  CodingInv'
    OBVIOUS
  <1>1. /\ coded.job # NoResponse /\ inflate.done = "no" /\ inflate.work = "none" /\ transit = <<>>
        /\ (deflate.done = "end" \/ coded.lost) /\ UNCHANGED <<coded, deflate, transit, gotten>>
    BY DEF DecompressEnd, DecoderMayRun
  <1>2. CodingOK(coded, deflate, <<>>, inflate, gotten)
    BY <1>1 DEF CodingInv
  <1>3. PICK d \in {"end", "error"} :
          /\ inflate.coder = "none" \/ inflate.ended => d = "end"
          /\ inflate.coder = "here" /\ ~inflate.ended /\ HeaderOf(coded.job) = "gzip" => d = "error"
          /\ inflate' = [inflate EXCEPT !.eof = TRUE, !.coder = "none", !.done = d]
    BY Zenon DEF DecompressEnd
  <1>4. PICK i1 : i1 = [inflate EXCEPT !.eof = TRUE, !.coder = "none", !.done = d] /\ inflate' = i1
    BY <1>3, Zenon
  <1>5. ReadOn(coded.job, deflate, coded.lost, inflate, <<>>, gotten, i1, <<>>, gotten)
    BY <1>1, <1>3, <1>4, EndRead
  <1>6. CodingOK(coded, deflate, <<>>, i1, gotten)
    BY <1>1, <1>2, <1>5, ReadingOn
  <1>7. CodingOK(coded', deflate', transit', inflate', gotten')
    BY <1>1, <1>4, <1>6, Zenon
  <1> QED BY <1>7 DEF CodingInv

LEMMA NoResponseFacts ==
  /\ IsCodingJob(NoResponse) /\ ~NoResponse.lies /\ BodyChunks(NoResponse) = <<>> /\ CanEncode(NoResponse) = FALSE
  /\ IsCompression(HeaderOf(NoResponse)) = FALSE
  <1>1. <<>> \in Seq(Seq(Nat \ {0}))
    OBVIOUS
  <1>2. IsCodingJob(NoResponse) /\ ~NoResponse.lies
    BY <1>1 DEF IsCodingJob, NoResponse, Codings
  <1>3. CanEncode(NoResponse) = FALSE
    BY DEF CanEncode, IsCompression, NoResponse
  <1>4. HeaderOf(NoResponse) = "none"
    BY <1>3 DEF HeaderOf, NoResponse
  <1>5. ~IsCompression(NoResponse.header) /\ NoResponse.chunks = <<>>
    BY DEF NoResponse, IsCompression
  <1>6. BodyChunks(NoResponse) = [k \in 1..Len(NoResponse.chunks) |-> Plain(NoResponse.chunks[k])]
    BY <1>5, Zenon DEF BodyChunks
  <1>7. BodyChunks(NoResponse) = <<>>
    BY <1>5, <1>6
  <1>8. IsCompression(HeaderOf(NoResponse)) = FALSE
    BY <1>4 DEF IsCompression
  <1> QED BY <1>2, <1>3, <1>7, <1>8

\* A response that starts: nothing is sent or read.
LEMMA Starts ==
  ASSUME NEW j, IsCodingJob(j), ~j.lies, NEW lost
  PROVE  \E p, w, b, off :
           /\ IsJob(j, p, w, b, off)
           /\ Receives(j, p, w, BodyDecoder(IsCompression(HeaderOf(j))), <<>>, <<>>, lost, 0, 0, 0)
           /\ Sends(j, b, off, w, BodyEncoder(BodyChunks(j), CanEncode(j)), 0, 0)
  <1>1. PICK p, w, b, off : IsJob(j, p, w, b, off)
    BY JobFacts
  <1>2. /\ p \in Seq(Nat \ {0}) /\ w \in Seq(Bytes) /\ b \in Seq(Seq(Bytes)) /\ b = BodyChunks(j)
        /\ Encoded(j) \in BOOLEAN /\ (Encoded(j) => Len(w) = Len(p) + 1) /\ off[0] = 0
    BY <1>1, JobParts
  <1>3. CanEncode(j) \in BOOLEAN /\ <<>> \in Seq(Bytes)
    BY DEF CanEncode
  <1>4. \A s : Stretch(s, 0, 0) = <<>>
    BY DEF Stretch
  <1>5. PICK i : i = BodyDecoder(Encoded(j)) /\ i = BodyDecoder(IsCompression(HeaderOf(j)))
    BY DEF Encoded
  <1>6. /\ i \in Decoders /\ i.done = "no" /\ ~i.eof /\ ~i.ended /\ i.work = "none"
        /\ (Encoded(j) => i.coder = "here") /\ (~Encoded(j) => i.coder = "none")
    BY <1>2, <1>3, <1>5 DEF BodyDecoder, Decoders
  <1>7. Len(w) \in Nat /\ Len(p) \in Nat /\ (Encoded(j) => 0 # Len(w))
    BY <1>2
  <1>8. Encoded(j) => Decodes(w, i, 0, 0)
    BY <1>6, <1>7 DEF Decodes
  <1>9. <<>> = Stretch(w, 0, 0) /\ <<>> = Stretch(p, 0, IF 0 <= Len(p) THEN 0 ELSE Len(p))
    BY <1>4, <1>7
  <1>10. Receives(j, p, w, i, <<>>, <<>>, lost, 0, 0, 0)
    BY <1>6, <1>7, <1>8, <1>9 DEF Receives
  <1>11. PICK d : d = BodyEncoder(b, CanEncode(j))
    OBVIOUS
  <1>12. /\ d \in Encoders /\ d.done = "no" /\ ~d.eof /\ d.work = "none" /\ d.held = <<>> /\ d.left = b
         /\ (CanEncode(j) => d.coder = "here") /\ (~CanEncode(j) => d.coder = "none")
    BY <1>2, <1>3, <1>11 DEF BodyEncoder, Encoders
  <1>13. b = Stretch(b, 0, Len(b)) /\ 0 \in 0..Len(b)
    BY <1>2, StretchWhole
  <1>14. CanEncode(j) => Encodes(w, d, off[0], 0)
    BY <1>2, <1>9, <1>12 DEF Encodes
  <1>15. Sends(j, b, off, w, d, 0, 0)
    BY <1>2, <1>12, <1>13, <1>14 DEF Sends
  <1> QED BY <1>1, <1>2, <1>5, <1>10, <1>11, <1>15, Zenon

LEMMA StartResponseStep ==
  ASSUME CodingInv, NEW j \in CodingJobs, StartResponse(j)
  PROVE  CodingInv'
  <1>1. coded.job = NoResponse /\ transit = <<>> /\ gotten = <<>>
    BY DEF CodingInv, CodingOK, StartResponse
  <1>2. PICK cd : cd = [job |-> j, lost |-> FALSE] /\ coded' = cd
    BY DEF StartResponse
  <1>3. PICK d : d = BodyEncoder(BodyChunks(j), CanEncode(j)) /\ deflate' = d
    BY DEF StartResponse
  <1>4. PICK i : i = BodyDecoder(IsCompression(HeaderOf(j))) /\ inflate' = i
    BY DEF StartResponse
  <1>5. transit' = <<>> /\ gotten' = <<>>
    BY <1>1 DEF StartResponse
  <1>6. CodingOK(cd, d, <<>>, i, <<>>)
    <2>1. CASE j = NoResponse
      <3>1. d = BodyEncoder(<<>>, FALSE) /\ i = BodyDecoder(FALSE)
        BY <1>3, <1>4, <2>1, NoResponseFacts, Zenon
      <3> QED BY <1>2, <2>1, <3>1 DEF CodingOK
    <2>2. CASE j # NoResponse
      <3>1. cd.job = j /\ cd.lost = FALSE /\ cd \in [job : CodingJobs, lost : BOOLEAN]
        BY <1>2
      <3>2. ASSUME ~j.lies
            PROVE  Transparent(cd, d, <<>>, i, <<>>)
        <4>1. IsCodingJob(j)
          BY CodingJobsAssumption
        <4>2. PICK p, w, b, off :
                /\ IsJob(j, p, w, b, off)
                /\ Receives(j, p, w, BodyDecoder(IsCompression(HeaderOf(j))), <<>>, <<>>, FALSE, 0, 0, 0)
                /\ Sends(j, b, off, w, BodyEncoder(BodyChunks(j), CanEncode(j)), 0, 0)
          BY <3>2, <4>1, Starts
        <4>3. IsJob(cd.job, p, w, b, off) /\ Receives(cd.job, p, w, i, <<>>, <<>>, cd.lost, 0, 0, 0) /\ Sends(cd.job, b, off, w, d, 0, 0)
          BY <1>3, <1>4, <3>1, <4>2, Zenon
        <4>4. 0 \in Nat
          OBVIOUS
        <4> QED BY <4>3, <4>4, Zenon DEF Transparent
      <3> QED BY <2>2, <3>1, <3>2, Zenon DEF CodingOK
    <2> QED BY <2>1, <2>2
  <1>7. CodingOK(coded', deflate', transit', inflate', gotten')
    BY <1>2, <1>3, <1>4, <1>5, <1>6, Zenon
  <1> QED BY <1>7 DEF CodingInv

LEMMA CodingInvStep == CodingInv /\ [CodingNext]_contentcoding => CodingInv'
  <1> SUFFICES ASSUME CodingInv, [CodingNext]_contentcoding
               PROVE  CodingInv'
    OBVIOUS
  <1>1. CASE UNCHANGED contentcoding
    <2>1. coded' = coded /\ deflate' = deflate /\ transit' = transit /\ inflate' = inflate /\ gotten' = gotten
      BY <1>1 DEF contentcoding
    <2>2. CodingOK(coded', deflate', transit', inflate', gotten')
      BY <2>1, Zenon DEF CodingInv
    <2> QED BY <2>2 DEF CodingInv
  <1>2. CASE \E j \in CodingJobs : StartResponse(j)
    BY <1>2, StartResponseStep
  <1>3. CASE \/ CompressChunk \/ CompressWork \/ CompressResult \/ CompressFinish \/ CompressEof \/ CompressFails \/ Lose
    BY <1>3, CompressChunkStep, CompressWorkStep, CompressResultStep, CompressFinishStep, CompressEofStep, CompressFailsStep, LoseStep
  <1>4. CASE \/ DecompressChunk \/ DecompressWork \/ DecompressResult \/ DecompressEnd
    BY <1>4, DecompressChunkStep, DecompressWorkStep, DecompressResultStep, DecompressEndStep
  <1> QED BY <1>1, <1>2, <1>3, <1>4, Zenon DEF CodingNext

LEMMA FirstPart ==
  ASSUME NEW A, NEW s \in Seq(A), NEW m \in Nat, m <= Len(s)
  PROVE  SubSeq(s, 1, m) = Stretch(s, 0, m)
  <1>1. SubSeq(s, 1, m) \in Seq(A) /\ Len(SubSeq(s, 1, m)) = m /\ \A i \in 1..m : SubSeq(s, 1, m)[i] = s[i]
    OBVIOUS
  <1>2. PICK x \in Seq(A) : x = SubSeq(s, 1, m) /\ Len(x) = m /\ \A i \in 1..m : x[i] = s[i]
    BY <1>1, Zenon
  <1>3. Stretches(x, s, 0, m)
    BY <1>2 DEF Stretches
  <1>4. x = Stretch(s, 0, m)
    BY <1>3, SameStretch
  <1> QED BY <1>2, <1>4

\* What is read is a first part of the content.
LEMMA ReadIsPrefix ==
  ASSUME NEW p \in Seq(Nat \ {0}), NEW a \in Nat
  PROVE  IsPrefix(Read(p, a), p)
  <1>1. PICK n \in Nat : n = Len(p)
    OBVIOUS
  <1>2. PICK m \in Nat : m = (IF a <= n THEN a ELSE n) /\ m <= n
    BY <1>1
  <1>3. PICK x : x = Stretch(p, 0, m) /\ x = Read(p, a)
    BY <1>1, <1>2 DEF Read
  <1>4. Len(x) = m /\ 0 <= m
    <2>1. 0 \in Nat /\ 0 <= m /\ m <= Len(p)
      BY <1>1, <1>2
    <2>2. Stretches(x, p, 0, m)
      BY <1>3, <2>1, StretchFacts
    <2>3. Len(x) = m - 0
      BY <2>2 DEF Stretches
    <2> QED BY <2>1, <2>3
  <1>5. SubSeq(x, 1, m) = x
    <2>1. m \in 0..(m - 0) /\ 0 <= m /\ m <= Len(p) /\ 0 + m = m
      BY <1>1, <1>2
    <2>2. SubSeq(x, 1, m) = Stretch(p, 0, 0 + m)
      BY <1>3, <2>1, StretchCut
    <2> QED BY <1>3, <2>1, <2>2
  <1>6. SubSeq(p, 1, m) = x
    BY <1>1, <1>2, <1>3, FirstPart
  <1> QED BY <1>1, <1>2, <1>3, <1>4, <1>5, <1>6 DEF IsPrefix

LEMMA CodingInvTransparent == CodingInv => CodingIsTransparent
  <1> SUFFICES ASSUME CodingInv
               PROVE  CodingIsTransparent
    OBVIOUS
  <1>1. PICK j : j = coded.job
    OBVIOUS
  <1>2. CodingOK(coded, deflate, transit, inflate, gotten)
    BY DEF CodingInv
  <1>3. ASSUME ~j.lies
        PROVE  \E p, w, b, off : IsJob(j, p, w, b, off) /\ \E a, c, t \in Nat : Receives(j, p, w, inflate, transit, gotten, coded.lost, a, c, t)
    <2>1. CASE j = NoResponse
      <3>1. PICK p, w, b, off :
              /\ IsJob(j, p, w, b, off)
              /\ Receives(j, p, w, BodyDecoder(IsCompression(HeaderOf(j))), <<>>, <<>>, coded.lost, 0, 0, 0)
        BY <2>1, NoResponseFacts, Starts
      <3>2. inflate = BodyDecoder(FALSE) /\ transit = <<>> /\ gotten = <<>>
        BY <1>1, <1>2, <2>1, Zenon DEF CodingOK
      <3>3. BodyDecoder(IsCompression(HeaderOf(j))) = BodyDecoder(FALSE)
        BY <2>1, NoResponseFacts, Zenon
      <3>4. 0 \in Nat
        OBVIOUS
      <3> QED BY <3>1, <3>2, <3>3, <3>4, Zenon
    <2>2. CASE j # NoResponse
      <3>1. Transparent(coded, deflate, transit, inflate, gotten)
        BY <1>1, <1>2, <1>3, <2>2, Zenon DEF CodingOK
      <3> QED BY <1>1, <3>1, Zenon DEF Transparent
    <2> QED BY <2>1, <2>2
  <1>4. ASSUME ~j.lies
        PROVE  /\ IsPrefix(gotten, Content(j))
               /\ inflate.done = "end" /\ (~coded.lost \/ HeaderOf(j) = "gzip") => gotten = Content(j)
               /\ inflate.done = "error" => coded.lost
    <2>1. PICK p, w, b, off : IsJob(j, p, w, b, off) /\ \E a, c, t \in Nat : Receives(j, p, w, inflate, transit, gotten, coded.lost, a, c, t)
      BY <1>3, <1>4, Zenon
    <2>2. PICK a \in Nat, c \in Nat, t \in Nat : Receives(j, p, w, inflate, transit, gotten, coded.lost, a, c, t)
      BY <2>1, Zenon
    <2>3. p = Content(j) /\ p \in Seq(Nat \ {0}) /\ w \in Seq(Bytes) /\ Len(p) <= Len(w)
      BY <2>1, JobParts
    <2>4. gotten = Read(p, a)
      BY <2>2 DEF Receives, Read
    <2>5. IsPrefix(gotten, Content(j))
      BY <2>3, <2>4, ReadIsPrefix
    <2>6. inflate.done = "error" => coded.lost
      BY <2>2 DEF Receives
    <2>7. inflate.done = "end" => a = Len(w) \/ (coded.lost /\ HeaderOf(j) # "gzip")
      BY <2>2 DEF Receives
    <2>8. a = Len(w) => gotten = p
      <3>1. Stretch(p, 0, Len(p)) = p /\ Len(p) \in Nat /\ Len(w) \in Nat
        BY <2>3, StretchWhole
      <3>2. a = Len(w) => (IF a <= Len(p) THEN a ELSE Len(p)) = Len(p)
        BY <2>3, <3>1
      <3> QED BY <2>4, <3>1, <3>2 DEF Read
    <2> QED BY <2>3, <2>5, <2>6, <2>7, <2>8
  <1> QED BY <1>1, <1>4 DEF CodingIsTransparent

LEMMA CodingInitOK == CodingInit => CodingInv
  BY DEF CodingInit, CodingInv, CodingOK

\* Whatever chunks a body comes in, whichever of them Encoder::poll_next and Decoder::poll_next give
\* to threads and however the network cuts the bytes, the payload that a decoder yields is a first
\* part of what the handler's body was, all of it when nothing was lost, and an error only after a loss.
THEOREM CodingStaysTransparent == CodingSpec => []CodingIsTransparent
  <1>1. CodingSpec => []CodingInv
    BY CodingInitOK, CodingInvStep, PTL DEF CodingSpec
  <1> QED BY <1>1, CodingInvTransparent, PTL

-----------------------------------------------------------------------------
(* WebSocket: the numbers and the mask of a frame. *)

LEMMA Divided ==
  ASSUME NEW n \in Nat
  PROVE  /\ n \div Base \in Nat /\ n % Base \in WsBytes
         /\ (n \div Base) * Base + (n % Base) = n
  <1>1. Base \in Nat /\ Base > 0
    BY WsSizesAssumption
  <1>2. n \div Base \in Nat
    BY <1>1, Z3
  <1>3. n % Base \in 0..Base - 1
    BY <1>1
  <1>4. (n \div Base) * Base + (n % Base) = n
    BY <1>1
  <1> QED BY <1>2, <1>3, <1>4 DEF WsBytes

\* The recursion that defines Shifted has a solution.
LEMMA ShiftedFacts ==
  ASSUME NEW n \in Nat, NEW width \in Nat
  PROVE  \E f \in [0..width -> Nat] : f = Shifted(n, width) /\ f[0] = n /\ \A k \in 1..width : f[k] = f[k - 1] \div Base
  <1> DEFINE Body(f, k) == IF k = 0 THEN n ELSE f[k - 1] \div Base
             Solves(f, m) == f = [k \in 0..m |-> Body(f, k)]
             Built == {m \in Nat : \E f : Solves(f, m)}
  <1>1. 0 \in Built
    <2>1. PICK f : f = [k \in 0..0 |-> n]
      OBVIOUS
    <2>2. [k \in 0..0 |-> Body(f, k)] = [k \in 0..0 |-> n]
      OBVIOUS
    <2>3. Solves(f, 0)
      BY <2>1, <2>2
    <2> HIDE DEF Solves
    <2> QED BY <2>3
  <1>2. ASSUME NEW m \in Nat, m \in Built
        PROVE  m + 1 \in Built
    <2>1. PICK f : Solves(f, m)
      BY <1>2
    <2>2. PICK last : last = f[m] \div Base
      OBVIOUS
    <2>3. PICK g : g = [k \in 0..(m + 1) |-> IF k <= m THEN f[k] ELSE last]
      OBVIOUS
    <2>4. ASSUME NEW k \in 0..(m + 1)
          PROVE  g[k] = Body(g, k)
      <3>1. CASE k = 0
        <4>1. f[0] = n
          <5>1. 0 \in 0..m
            OBVIOUS
          <5> QED BY <2>1, <5>1
        <4> QED BY <2>3, <3>1, <4>1
      <3>2. CASE k # 0 /\ k <= m
        <4>1. k \in 0..m /\ k - 1 \in 0..m /\ k - 1 <= m
          BY <3>2
        <4>2. f[k] = f[k - 1] \div Base
          BY <2>1, <3>2, <4>1
        <4>3. g[k] = f[k] /\ g[k - 1] = f[k - 1]
          BY <2>3, <4>1
        <4> QED BY <3>2, <4>2, <4>3
      <3>3. CASE k # 0 /\ ~(k <= m)
        <4>1. k = m + 1 /\ k - 1 = m /\ m \in 0..(m + 1) /\ m <= m
          BY <3>3
        <4>2. g[k] = last /\ g[k - 1] = f[m]
          BY <2>3, <3>3, <4>1
        <4> QED BY <2>2, <3>3, <4>2
      <3> QED BY <3>1, <3>2, <3>3
    <2>5. Solves(g, m + 1)
      <3> HIDE DEF Body
      <3>1. g = [k \in 0..(m + 1) |-> g[k]]
        BY <2>3
      <3> QED BY <2>4, <3>1
    <2> HIDE DEF Solves
    <2> QED BY <2>5
  <1>3. width \in Built
    <2> HIDE DEF Built
    <2> QED BY <1>1, <1>2, CountUp
  <1>4. PICK f : f = CHOOSE g : Solves(g, width)
    OBVIOUS
  <1>5. Shifted(n, width) = f
    BY <1>4, Zenon DEF Shifted
  <1>6. Solves(f, width)
    <2> HIDE DEF Solves
    <2> QED BY <1>3, <1>4, Zenon
  <1>7. f[0] = n /\ \A k \in 1..width : f[k] = f[k - 1] \div Base
    <2>1. 0 \in 0..width /\ \A k \in 1..width : k \in 0..width /\ k # 0
      OBVIOUS
    <2> QED BY <1>6, <2>1
  <1>8. \A k \in 0..width : f[k] \in Nat
    <2> DEFINE Good == {m \in Nat : m <= width => f[m] \in Nat}
    <2>1. 0 \in Good
      BY <1>7
    <2>2. ASSUME NEW m \in Nat, m \in Good
          PROVE  m + 1 \in Good
      <3> SUFFICES ASSUME m + 1 <= width
                   PROVE  f[m + 1] \in Nat
        OBVIOUS
      <3>1. m + 1 \in 1..width /\ (m + 1) - 1 = m /\ f[m] \in Nat
        BY <2>2
      <3>2. f[m + 1] = f[m] \div Base
        BY <1>7, <3>1
      <3> QED BY <3>1, <3>2, Divided
    <2>3. Nat \subseteq Good
      <3> HIDE DEF Good
      <3> QED BY <2>1, <2>2, CountUp
    <2> QED BY <2>3
  <1>9. f \in [0..width -> Nat]
    <2>1. f = [k \in 0..width |-> f[k]]
      BY <1>6
    <2> QED BY <1>8, <2>1
  <1> QED BY <1>5, <1>7, <1>9

\* The recursion that defines Number has a solution.
Sums(f, s, n) == Number(s) = f[n] /\ f[0] = 0 /\ \A k \in 1..n : f[k] = f[k - 1] * Base + s[k]

LEMMA NumberFacts ==
  ASSUME NEW s \in Seq(WsBytes), NEW n, n = Len(s)
  PROVE  \E f : Sums(f, s, n)
  <1> DEFINE Body(f, k) == IF k = 0 THEN 0 ELSE f[k - 1] * Base + s[k]
             Solves(f, m) == f = [k \in 0..m |-> Body(f, k)]
             Built == {m \in Nat : \E f : Solves(f, m)}
  <1>0. n \in Nat
    OBVIOUS
  <1>1. 0 \in Built
    <2>1. PICK f : f = [k \in 0..0 |-> 0]
      OBVIOUS
    <2>2. [k \in 0..0 |-> Body(f, k)] = [k \in 0..0 |-> 0]
      OBVIOUS
    <2>3. Solves(f, 0)
      BY <2>1, <2>2
    <2> HIDE DEF Solves
    <2> QED BY <2>3
  <1>2. ASSUME NEW m \in Nat, m \in Built
        PROVE  m + 1 \in Built
    <2>1. PICK f : Solves(f, m)
      BY <1>2
    <2>2. PICK last : last = f[m] * Base + s[m + 1]
      OBVIOUS
    <2>3. PICK g : g = [k \in 0..(m + 1) |-> IF k <= m THEN f[k] ELSE last]
      OBVIOUS
    <2>4. ASSUME NEW k \in 0..(m + 1)
          PROVE  g[k] = Body(g, k)
      <3>1. CASE k = 0
        <4>1. f[0] = 0
          <5>1. 0 \in 0..m
            OBVIOUS
          <5> QED BY <2>1, <5>1
        <4> QED BY <2>3, <3>1, <4>1
      <3>2. CASE k # 0 /\ k <= m
        <4>1. k \in 0..m /\ k - 1 \in 0..m /\ k - 1 <= m
          BY <3>2
        <4>2. f[k] = f[k - 1] * Base + s[k]
          BY <2>1, <3>2, <4>1
        <4>3. g[k] = f[k] /\ g[k - 1] = f[k - 1]
          BY <2>3, <4>1
        <4> QED BY <3>2, <4>2, <4>3
      <3>3. CASE k # 0 /\ ~(k <= m)
        <4>1. k = m + 1 /\ k - 1 = m /\ m \in 0..(m + 1) /\ m <= m
          BY <3>3
        <4>2. g[k] = last /\ g[k - 1] = f[m]
          BY <2>3, <3>3, <4>1
        <4> QED BY <2>2, <3>3, <4>1, <4>2
      <3> QED BY <3>1, <3>2, <3>3
    <2>5. Solves(g, m + 1)
      <3> HIDE DEF Body
      <3>1. g = [k \in 0..(m + 1) |-> g[k]]
        BY <2>3
      <3> QED BY <2>4, <3>1
    <2> HIDE DEF Solves
    <2> QED BY <2>5
  <1>3. n \in Built
    <2> HIDE DEF Built
    <2> QED BY <1>0, <1>1, <1>2, CountUp
  <1>4. PICK f : f = CHOOSE g : Solves(g, n)
    OBVIOUS
  <1>5. Number(s) = f[n]
    BY <1>4, Zenon DEF Number
  <1>6. Solves(f, n)
    <2> HIDE DEF Solves
    <2> QED BY <1>3, <1>4, Zenon
  <1>7. f[0] = 0 /\ \A k \in 1..n : f[k] = f[k - 1] * Base + s[k]
    <2>1. 0 \in 0..n /\ \A k \in 1..n : k \in 0..n /\ k # 0
      BY <1>0
    <2> QED BY <1>6, <2>1
  <1> QED BY <1>5, <1>7 DEF Sums

\* What Parser::write_message writes of a length, parse_metadata reads.
LEMMA LengthIsRead ==
  ASSUME NEW n \in Nat, NEW width \in Nat, Fits(n, width)
  PROVE  /\ BigEndian(n, width) \in Seq(WsBytes) /\ Len(BigEndian(n, width)) = width
         /\ Number(BigEndian(n, width)) = n
  <1>1. PICK f \in [0..width -> Nat] : f = Shifted(n, width) /\ f[0] = n /\ \A k \in 1..width : f[k] = f[k - 1] \div Base
    BY ShiftedFacts
  <1>2. f[width] = 0
    BY <1>1 DEF Fits
  <1>3. BigEndian(n, width) = [k \in 1..width |-> f[width - k] % Base]
    BY <1>1 DEF BigEndian
  <1>4. \A k \in 1..width : f[width - k] % Base \in WsBytes
    <2> TAKE k \in 1..width
    <2>1. width - k \in 0..width
      OBVIOUS
    <2>2. f[width - k] \in Nat
      BY <2>1
    <2> QED BY <2>2, Divided
  <1>5. PICK s : s = [k \in 1..width |-> f[width - k] % Base]
    OBVIOUS
  <1>6. s \in Seq(WsBytes) /\ Len(s) = width /\ \A k \in 1..width : s[k] = f[width - k] % Base
    BY <1>4, <1>5
  <1>7. PICK g : Number(s) = g[width] /\ g[0] = 0 /\ \A k \in 1..width : g[k] = g[k - 1] * Base + s[k]
    <2>0. PICK g : Sums(g, s, width)
      <3>1. s \in Seq(WsBytes) /\ width = Len(s)
        BY <1>6
      <3> QED BY <3>1, NumberFacts
    <2> QED BY <2>0 DEF Sums
  <1> DEFINE Good == {m \in Nat : m <= width => g[m] = f[width - m]}
  <1>8. 0 \in Good
    BY <1>2, <1>7
  <1>9. ASSUME NEW m \in Nat, m \in Good
        PROVE  m + 1 \in Good
    <2> SUFFICES ASSUME m + 1 <= width
                 PROVE  g[m + 1] = f[width - (m + 1)]
      OBVIOUS
    <2>1. PICK q \in Nat, r \in 1..width : q = width - (m + 1) /\ r = width - m /\ r - 1 = q
      OBVIOUS
    <2>2. m + 1 \in 1..width /\ (m + 1) - 1 = m /\ q \in 0..width
      BY <2>1
    <2>3. g[m] = f[r]
      BY <1>9, <2>1
    <2>4. f[r] = f[q] \div Base
      BY <1>1, <2>1
    <2>5. s[m + 1] = f[q] % Base
      BY <1>6, <2>1, <2>2
    <2>6. g[m + 1] = (f[q] \div Base) * Base + (f[q] % Base)
      <3>1. g[m + 1] = g[m] * Base + s[m + 1]
        BY <1>7, <2>2
      <3> QED BY <2>3, <2>4, <2>5, <3>1
    <2>7. f[q] \in Nat
      BY <2>2
    <2> QED BY <2>1, <2>6, <2>7, Divided
  <1>10. width \in Good
    <2> HIDE DEF Good
    <2> QED BY <1>8, <1>9, CountUp
  <1>11. Number(s) = n
    <2>1. width - width = 0
      OBVIOUS
    <2> QED BY <1>1, <1>7, <1>10, <2>1
  <1> QED BY <1>3, <1>5, <1>6, <1>11

\* Position k of a buffer meets byte MaskAt(k) of the mask.
MaskAt(k) == ((k - 1) % 4) + 1
Keys == [1..4 -> WsBytes]

\* However a buffer is aligned, apply_mask applies the mask from its first byte on.
Masked(r, buf, mask) ==
  /\ r \in Seq(WsBytes) /\ Len(r) = Len(buf)
  /\ \A k \in 1..Len(buf) : r[k] = Xor(buf[k], mask[MaskAt(k)])

LEMMA MaskIndex ==
  ASSUME NEW h \in Nat, NEW k \in Nat, k > h
  PROVE  ((h + (((k - h - 1) % 8) + 1) - 1) % 4) + 1 = MaskAt(k)
  BY DEF MaskAt

LEMMA ApplyMaskFacts ==
  ASSUME NEW buf \in Seq(WsBytes), NEW mask \in Keys, NEW start \in Alignments
  PROVE  Masked(ApplyMask(buf, mask, start), buf, mask)
  <1>1. PICK n \in Nat : n = Len(buf)
    OBVIOUS
  <1>2. PICK h \in Nat : h = HeadLength(n, start)
    <2>1. (8 - start) % 8 \in Nat
      BY DEF Alignments
    <2> QED BY <2>1 DEF HeadLength
  <1>3. PICK rotated : rotated = [k \in 1..8 |-> mask[((h + k - 1) % 4) + 1]]
    OBVIOUS
  <1>4. ApplyMask(buf, mask, start) =
          [k \in 1..n |-> IF k <= h THEN Xor(buf[k], mask[((k - 1) % 4) + 1])
                          ELSE Xor(buf[k], rotated[((k - h - 1) % 8) + 1])]
    BY <1>1, <1>2, <1>3 DEF ApplyMask
  <1>5. \A k \in 1..n : (IF k <= h THEN Xor(buf[k], mask[((k - 1) % 4) + 1])
                         ELSE Xor(buf[k], rotated[((k - h - 1) % 8) + 1])) = Xor(buf[k], mask[MaskAt(k)])
    <2> TAKE k \in 1..n
    <2>1. CASE k <= h
      BY <2>1 DEF MaskAt
    <2>2. CASE ~(k <= h)
      <3>1. PICK i \in 1..8 : i = ((k - h - 1) % 8) + 1
        BY <2>2
      <3>2. rotated[i] = mask[((h + i - 1) % 4) + 1]
        BY <1>3
      <3>3. ((h + i - 1) % 4) + 1 = MaskAt(k)
        BY <2>2, <3>1, MaskIndex
      <3> QED BY <2>2, <3>1, <3>2, <3>3
    <2> QED BY <2>1, <2>2
  <1>6. ApplyMask(buf, mask, start) = [k \in 1..n |-> Xor(buf[k], mask[MaskAt(k)])]
    BY <1>4, <1>5
  <1>7. \A k \in 1..n : Xor(buf[k], mask[MaskAt(k)]) \in WsBytes
    <2> TAKE k \in 1..n
    <2>1. MaskAt(k) \in 1..4
      BY DEF MaskAt
    <2>2. buf[k] \in WsBytes /\ mask[MaskAt(k)] \in WsBytes
      BY <1>1, <2>1 DEF Keys
    <2> QED BY <2>2, XorAssumption
  <1>8. PICK r : r = [k \in 1..n |-> Xor(buf[k], mask[MaskAt(k)])]
    OBVIOUS
  <1>9. r \in Seq(WsBytes) /\ Len(r) = n /\ \A k \in 1..n : r[k] = Xor(buf[k], mask[MaskAt(k)])
    BY <1>7, <1>8
  <1> QED BY <1>1, <1>6, <1>8, <1>9 DEF Masked

\* What one side masks, the other reads.
LEMMA UnmaskedAgain ==
  ASSUME NEW buf \in Seq(WsBytes), NEW mask \in Keys, NEW r, Masked(r, buf, mask), NEW start \in Alignments
  PROVE  ApplyMask(r, mask, start) = buf
  <1>1. r \in Seq(WsBytes) /\ Len(r) = Len(buf) /\ \A k \in 1..Len(buf) : r[k] = Xor(buf[k], mask[MaskAt(k)])
    BY DEF Masked
  <1>2. PICK u : u = ApplyMask(r, mask, start) /\ Masked(u, r, mask)
    BY <1>1, ApplyMaskFacts
  <1>3. u \in Seq(WsBytes) /\ Len(u) = Len(r) /\ \A k \in 1..Len(r) : u[k] = Xor(r[k], mask[MaskAt(k)])
    BY <1>2 DEF Masked
  <1>4. ASSUME NEW k \in 1..Len(buf)
        PROVE  u[k] = buf[k]
    <2>1. MaskAt(k) \in 1..4
      BY DEF MaskAt
    <2>2. PICK a \in WsBytes, b \in WsBytes : a = buf[k] /\ b = mask[MaskAt(k)]
      BY <2>1 DEF Keys
    <2>3. Xor(Xor(a, b), b) = a
      BY XorAssumption
    <2> QED BY <1>1, <1>3, <2>2, <2>3
  <1>5. u = buf
    BY <1>1, <1>3, <1>4, SeqEqual
  <1> QED BY <1>2, <1>5

-----------------------------------------------------------------------------
(* A frame on the wire. *)

FlagBytes == [fin : BOOLEAN, op : OpCodes \cup {"Bad"}]
LengthBytes == [masked : BOOLEAN, len : Nat]
Octets == WsBytes \cup FlagBytes \cup LengthBytes
KeyLength(masked) == IF masked THEN 4 ELSE 0

\* The second byte of a frame of n bytes, and how many bytes follow it for the length.
Coded(n, code, wide) ==
  \/ wide = 0 /\ code = n /\ n < Short
  \/ wide = 2 /\ code = Short /\ n >= Short /\ Fits(n, 2)
  \/ wide = 8 /\ code = Short + 1 /\ n >= Short /\ Fits(n, 8)

\* Sequence y is the part of x behind position a.
Follows(y, x, a) == \A k \in 1..Len(y) : x[a + k] = y[k]

Begins(y, x) == \A k \in 1..Len(y) : x[k] = y[k]

Joins(x, s, t, A) == x \in Seq(A) /\ Len(x) = Len(s) + Len(t) /\ Begins(s, x) /\ Follows(t, x, Len(s))

\* Where the parts of frame c lie on the wire x: two bytes, wide bytes of length, the key and
\* the payload r, masked or not.
Layout(x, c, code, wide, key, r) ==
  /\ x \in Seq(Octets) /\ c \in WsFrames /\ Coded(Len(c.pl), code, wide) /\ key \in Keys /\ r \in Seq(WsBytes)
  /\ Len(r) = Len(c.pl) /\ Len(x) = 2 + wide + KeyLength(c.masked) + Len(c.pl)
  /\ x[1] = [fin |-> c.fin, op |-> c.op] /\ x[2] = [masked |-> c.masked, len |-> code]
  /\ wide # 0 => Follows(BigEndian(Len(c.pl), wide), x, 2)
  /\ c.masked => Follows(key, x, 2 + wide) /\ Masked(r, c.pl, key)
  /\ ~c.masked => r = c.pl
  /\ Follows(r, x, 2 + wide + KeyLength(c.masked))

LEMMA Joined ==
  ASSUME NEW A, NEW s \in Seq(A), NEW t \in Seq(A)
  PROVE  Joins(s \o t, s, t, A)
  <1>0. PICK x : x = s \o t
    OBVIOUS
  <1>1. /\ x \in Seq(A) /\ Len(x) = Len(s) + Len(t)
        /\ \A k \in 1..(Len(s) + Len(t)) : x[k] = IF k <= Len(s) THEN s[k] ELSE t[k - Len(s)]
    BY <1>0, ConcatProperties
  <1>2. PICK n \in Nat, m \in Nat : n = Len(s) /\ m = Len(t)
    OBVIOUS
  <1>3. \A k \in 1..n : x[k] = s[k]
    <2>1. \A k \in 1..n : k \in 1..(n + m) /\ k <= n
      OBVIOUS
    <2> QED BY <1>1, <1>2, <2>1
  <1>4. \A k \in 1..m : x[n + k] = t[k]
    <2>1. \A k \in 1..m : n + k \in 1..(n + m) /\ ~(n + k <= n) /\ (n + k) - n = k
      OBVIOUS
    <2> QED BY <1>1, <1>2, <2>1
  <1> QED BY <1>0, <1>1, <1>2, <1>3, <1>4 DEF Follows, Begins, Joins

\* WriteMessage in its parts.
Parts(c, key, start, n, code, lead, len, body) ==
  /\ n = Len(c.pl) /\ code = (IF n < Short THEN n ELSE IF Fits(n, 2) THEN Short ELSE Short + 1)
  /\ lead = <<[fin |-> c.fin, op |-> c.op], [masked |-> c.masked, len |-> code]>>
  /\ len = (IF code = Short THEN BigEndian(n, 2) ELSE IF code > Short THEN BigEndian(n, 8) ELSE <<>>)
  /\ body = (IF c.masked THEN key \o ApplyMask(c.pl, key, start) ELSE c.pl)

LEMMA Written ==
  ASSUME NEW c, NEW key, NEW start, NEW n, NEW code, NEW lead, NEW len, NEW body, Parts(c, key, start, n, code, lead, len, body)
  PROVE  WriteMessage(c.pl, c.op, c.fin, c.masked, key, start) = lead \o len \o body
  BY Zenon DEF WriteMessage, Parts

LEMMA KeyIsSeq ==
  ASSUME NEW key \in Keys
  PROVE  key \in Seq(WsBytes) /\ Len(key) = 4
  <1>1. key = [k \in 1..4 |-> key[k]] /\ \A k \in 1..4 : key[k] \in WsBytes
    BY DEF Keys
  <1> QED BY <1>1

LEMMA WrittenFrame ==
  ASSUME NEW c \in WsFrames, Fits(Len(c.pl), 8), NEW key \in Keys, NEW start \in Alignments,
         NEW x, x = WriteMessage(c.pl, c.op, c.fin, c.masked, key, start)
  PROVE  \E code, wide, r : code \in Nat /\ wide \in Nat /\ Layout(x, c, code, wide, key, r)
  <1>1. PICK pl \in Seq(WsBytes), n \in Nat : pl = c.pl /\ n = Len(pl)
    BY DEF WsFrames
  <1>2. c.fin \in BOOLEAN /\ c.masked \in BOOLEAN /\ c.op \in OpCodes \cup {"Bad"}
    BY DEF WsFrames
  <1>3. Short \in Nat
    BY WsSizesAssumption
  <1>4. PICK code \in Nat : code = (IF n < Short THEN n ELSE IF Fits(n, 2) THEN Short ELSE Short + 1)
    BY <1>3
  <1>5. PICK wide \in Nat : wide = (IF code = Short THEN 2 ELSE IF code > Short THEN 8 ELSE 0)
    OBVIOUS
  <1>6. Coded(n, code, wide)
    BY <1>1, <1>3, <1>4, <1>5 DEF Coded
  <1>7. PICK lead : lead = <<[fin |-> c.fin, op |-> c.op], [masked |-> c.masked, len |-> code]>>
    OBVIOUS
  <1>8. PICK len : len = (IF code = Short THEN BigEndian(n, 2) ELSE IF code > Short THEN BigEndian(n, 8) ELSE <<>>)
    OBVIOUS
  <1>9. len \in Seq(WsBytes) /\ Len(len) = wide /\ (wide # 0 => len = BigEndian(n, wide))
    <2>1. CASE wide = 0
      <3>1. len = <<>>
        BY <1>3, <1>5, <1>8, <2>1
      <3> QED BY <2>1, <3>1
    <2>2. CASE wide # 0
      <3>1. Fits(n, wide)
        BY <1>6, <2>2 DEF Coded
      <3>2. len = BigEndian(n, wide)
        BY <1>3, <1>5, <1>8, <2>2
      <3> QED BY <2>2, <3>1, <3>2, LengthIsRead
    <2> QED BY <2>1, <2>2
  <1>10. PICK r : r = IF c.masked THEN ApplyMask(pl, key, start) ELSE pl
    OBVIOUS
  <1>11. r \in Seq(WsBytes) /\ Len(r) = n /\ (c.masked => Masked(r, pl, key)) /\ (~c.masked => r = pl)
    <2>1. CASE c.masked
      <3>1. Masked(r, pl, key)
        BY <1>10, <2>1, ApplyMaskFacts
      <3> QED BY <1>1, <2>1, <3>1 DEF Masked
    <2>2. CASE ~c.masked
      BY <1>1, <1>10, <2>2
    <2> QED BY <2>1, <2>2
  <1>12. PICK body : body = (IF c.masked THEN key \o ApplyMask(pl, key, start) ELSE pl)
    OBVIOUS
  <1>13. PICK kl \in Nat : kl = KeyLength(c.masked)
    BY DEF KeyLength
  <1>14. body \in Seq(WsBytes) /\ Len(body) = kl + n /\ (c.masked => Follows(key, body, 0)) /\ Follows(r, body, kl)
    <2>1. CASE c.masked
      <3>1. key \in Seq(WsBytes) /\ Len(key) = 4
        BY KeyIsSeq
      <3>2. body = key \o r
        BY <1>10, <1>12, <2>1
      <3>3. body \in Seq(WsBytes) /\ Len(body) = Len(key) + Len(r) /\ Begins(key, body) /\ Follows(r, body, Len(key))
        <4>1. key \in Seq(WsBytes) /\ r \in Seq(WsBytes)
          BY <1>11, <3>1
        <4>2. Joins(key \o r, key, r, WsBytes)
          BY <4>1, Joined
        <4> QED BY <3>2, <4>2, Zenon DEF Joins
      <3>4. Follows(key, body, 0)
        BY <3>1, <3>3 DEF Follows, Begins
      <3>5. kl = 4
        BY <1>13, <2>1 DEF KeyLength
      <3> QED BY <1>11, <3>1, <3>3, <3>4, <3>5
    <2>2. CASE ~c.masked
      <3>1. body = pl /\ r = pl /\ kl = 0
        BY <1>11, <1>12, <1>13, <2>2 DEF KeyLength
      <3>2. \A k \in 1..Len(pl) : 0 + k = k
        OBVIOUS
      <3> QED BY <1>1, <2>2, <3>1, <3>2 DEF Follows
    <2> QED BY <2>1, <2>2
  <1>15. x = lead \o len \o body
    <2>2. Parts(c, key, start, n, code, lead, len, body)
      BY <1>1, <1>4, <1>7, <1>8, <1>12, Zenon DEF Parts
    <2>3. WriteMessage(c.pl, c.op, c.fin, c.masked, key, start) = lead \o len \o body
      BY <2>2, Written
    <2> QED BY <2>3, Zenon
  <1>16. lead \in Seq(Octets) /\ Len(lead) = 2 /\ lead[1] = [fin |-> c.fin, op |-> c.op] /\ lead[2] = [masked |-> c.masked, len |-> code]
    <2>1. [fin |-> c.fin, op |-> c.op] \in Octets
      BY <1>2 DEF Octets, FlagBytes
    <2>2. [masked |-> c.masked, len |-> code] \in Octets
      BY <1>2 DEF Octets, LengthBytes
    <2> QED BY <1>7, <2>1, <2>2
  <1>17. len \in Seq(Octets) /\ body \in Seq(Octets)
    <2>1. WsBytes \subseteq Octets
      BY DEF Octets
    <2> QED BY <1>9, <1>14, <2>1, SeqMonotonic
  <1>18. PICK y : y = lead \o len
    OBVIOUS
  <1>19. y \in Seq(Octets) /\ Len(y) = 2 + wide /\ (\A k \in 1..2 : y[k] = lead[k]) /\ Follows(len, y, 2)
    <2>1. y \in Seq(Octets) /\ Len(y) = Len(lead) + Len(len) /\ Begins(lead, y) /\ Follows(len, y, Len(lead))
      <3>1. lead \in Seq(Octets) /\ len \in Seq(Octets)
        BY <1>16, <1>17
      <3>2. Joins(lead \o len, lead, len, Octets)
        BY <3>1, Joined
      <3> QED BY <1>18, <3>2, Zenon DEF Joins
    <2> QED BY <1>9, <1>16, <2>1 DEF Begins
  <1>20. x \in Seq(Octets) /\ Len(x) = (2 + wide) + (kl + n) /\ (\A k \in 1..(2 + wide) : x[k] = y[k]) /\ Follows(body, x, 2 + wide)
    <2>1. x = y \o body
      BY <1>15, <1>18
    <2>2. x \in Seq(Octets) /\ Len(x) = Len(y) + Len(body) /\ Begins(y, x) /\ Follows(body, x, Len(y))
      <3>1. y \in Seq(Octets) /\ body \in Seq(Octets)
        BY <1>17, <1>19
      <3>2. Joins(y \o body, y, body, Octets)
        BY <3>1, Joined
      <3> QED BY <2>1, <3>2, Zenon DEF Joins
    <2> QED BY <1>14, <1>19, <2>2 DEF Begins
  <1>21. x[1] = [fin |-> c.fin, op |-> c.op] /\ x[2] = [masked |-> c.masked, len |-> code]
    <2>1. 1 \in 1..(2 + wide) /\ 2 \in 1..(2 + wide) /\ 1 \in 1..2 /\ 2 \in 1..2
      OBVIOUS
    <2>2. x[1] = lead[1] /\ x[2] = lead[2]
      BY <1>19, <1>20, <2>1
    <2> QED BY <1>16, <2>2
  <1>22. Follows(len, x, 2)
    <2>1. \A k \in 1..wide : 2 + k \in 1..(2 + wide)
      OBVIOUS
    <2> QED BY <1>9, <1>19, <1>20, <2>1 DEF Follows
  <1>23. c.masked => Follows(key, x, 2 + wide)
    <2> SUFFICES ASSUME c.masked
                 PROVE  Follows(key, x, 2 + wide)
      OBVIOUS
    <2>1. kl = 4 /\ Len(key) = 4
      BY <1>13, KeyIsSeq DEF KeyLength
    <2>2. \A k \in 1..4 : k \in 1..Len(body) /\ 0 + k = k
      BY <1>14, <2>1
    <2>3. \A k \in 1..4 : body[k] = key[k]
      BY <1>14, <2>1, <2>2 DEF Follows
    <2> QED BY <1>20, <2>1, <2>2, <2>3 DEF Follows
  <1>24. Follows(r, x, (2 + wide) + kl)
    <2>1. \A k \in 1..n : kl + k \in 1..Len(body) /\ (2 + wide) + (kl + k) = ((2 + wide) + kl) + k
      BY <1>14
    <2>2. \A k \in 1..n : body[kl + k] = r[k]
      BY <1>11, <1>14 DEF Follows
    <2>3. \A k \in 1..n : x[(2 + wide) + (kl + k)] = body[kl + k]
      BY <1>20, <2>1 DEF Follows
    <2> QED BY <1>11, <2>1, <2>2, <2>3 DEF Follows
  <1>25. Len(x) = 2 + wide + kl + n
    BY <1>20
  <1>26. wide # 0 => Follows(BigEndian(Len(c.pl), wide), x, 2)
    BY <1>1, <1>9, <1>22
  <1>27. Layout(x, c, code, wide, key, r)
    BY <1>1, <1>6, <1>11, <1>13, <1>20, <1>21, <1>23, <1>24, <1>25, <1>26 DEF Layout
  <1> QED BY <1>27

-----------------------------------------------------------------------------
(* What the decoder makes of the first bytes of a frame. *)

LEMMA Within ==
  ASSUME NEW A, NEW s \in Seq(A), NEW y \in Seq(A), NEW a \in Nat, NEW n \in Nat, n = Len(y), a + n <= Len(s), Follows(y, s, a)
  PROVE  SubSeq(s, a + 1, a + n) = y
  <1>1. PICK p \in Nat, q \in Nat : p = a + 1 /\ q = a + n
    <2>1. a + 1 \in Nat /\ a + n \in Nat
      OBVIOUS
    <2> QED BY <2>1, Zenon
  <1>2. \A i \in p..q : s[i] \in A
    BY <1>1
  <1>3. p \in Int /\ q \in Int /\ (IF p <= q THEN q - p + 1 ELSE 0) = n
    BY <1>1
  <1>4. PICK v \in Seq(A) : v = SubSeq(s, p, q) /\ Len(v) = n /\ \A i \in 1..n : v[i] = s[p + i - 1]
    <2>1. /\ SubSeq(s, p, q) \in Seq(A) /\ Len(SubSeq(s, p, q)) = n
          /\ \A i \in 1..n : SubSeq(s, p, q)[i] = s[p + i - 1]
      BY <1>2, <1>3, SubSeqProperties
    <2> QED BY <2>1, Zenon
  <1>5. \A i \in 1..n : v[i] = y[i]
    <2>1. \A i \in 1..n : p + i - 1 = a + i
      BY <1>1
    <2> QED BY <1>4, <2>1 DEF Follows
  <1>6. v = y
    BY <1>4, <1>5, SeqEqual
  <1> QED BY <1>1, <1>4, <1>6

\* ParseMetadata in its parts.
Meta(src, server, code, wide, len, total) ==
  /\ code = src[2].len /\ wide = (IF code = Short THEN 2 ELSE IF code > Short THEN 8 ELSE 0)
  /\ len = (IF wide = 0 THEN code ELSE Number(SubSeq(src, 3, 2 + wide)))
  /\ total = 2 + wide + (IF server THEN 4 ELSE 0)

MetaOf(src, server, wide, len, total) ==
  IF Len(src) < 2 THEN NeedMore
  ELSE IF ~src[2].masked /\ server THEN Err("UnmaskedFrame")
  ELSE IF src[2].masked /\ ~server THEN Err("MaskedFrame")
  ELSE IF src[1].op = "Bad" THEN Err("InvalidOpcode")
  ELSE IF Len(src) < 2 + wide THEN NeedMore
  ELSE IF len > MaxSize THEN Err("Overflow")
  ELSE IF Len(src) < total THEN NeedMore
  ELSE [tag |-> "metadata", idx |-> total, fin |-> src[1].fin, op |-> src[1].op,
        len |-> len, key |-> SubSeq(src, 3 + wide, total)]

LEMMA MetaParts ==
  ASSUME NEW src, NEW server, NEW code, NEW wide, NEW len, NEW total, Meta(src, server, code, wide, len, total)
  PROVE  ParseMetadata(src, server) = MetaOf(src, server, wide, len, total)
  BY Zenon DEF ParseMetadata, MetaOf, Meta

\* The metadata m of the first bytes of a frame c that is q bytes long, for the peer that is the server or not.
Known(m, src, q, c, server, wide, key) ==
  \/ m.tag = "more" /\ Len(src) < q
  \/ m.tag = "error" /\ m.error # "none" /\ (c.masked = server /\ c.op # "Bad" => Len(c.pl) > MaxSize)
  \/ /\ m.tag = "metadata" /\ m.idx = 2 + wide + KeyLength(c.masked) /\ m.fin = c.fin /\ m.op = c.op /\ m.len = Len(c.pl)
     /\ c.masked = server /\ c.op # "Bad" /\ m.idx <= Len(src) /\ (server => m.key = key)

Agrees(src, x) == src \in Seq(Octets) /\ Len(src) <= Len(x) /\ Begins(src, x)

PartOf(src, a, n, y) == SubSeq(src, a + 1, a + n) = y
Lies(y, a, n, src) == y \in Seq(WsBytes) /\ n = Len(y) /\ a + n <= Len(src)

LEMMA FollowsAgreed ==
  ASSUME NEW src, NEW x \in Seq(Octets), Agrees(src, x), NEW y, NEW a \in Nat, NEW n \in Nat, Lies(y, a, n, src), Follows(y, x, a)
  PROVE  PartOf(src, a, n, y)
  <1>0. y \in Seq(WsBytes) /\ n = Len(y) /\ a + n <= Len(src)
    BY DEF Lies
  <1>1. src \in Seq(Octets) /\ Len(src) <= Len(x) /\ \A k \in 1..Len(src) : x[k] = src[k]
    BY DEF Agrees, Begins
  <1>2. y \in Seq(Octets)
    <2>1. WsBytes \subseteq Octets
      BY DEF Octets
    <2> QED BY <1>0, <2>1, SeqMonotonic
  <1>3. \A k \in 1..n : a + k \in 1..Len(src)
    BY <1>0, <1>1
  <1>4. Follows(y, src, a)
    BY <1>0, <1>1, <1>3 DEF Follows
  <1>5. SubSeq(src, a + 1, a + n) = y
    BY <1>0, <1>1, <1>2, <1>4, Within
  <1> QED BY <1>5 DEF PartOf

LEMMA MetadataKnown ==
  ASSUME NEW src, NEW x, NEW c, NEW code \in Nat, NEW wide \in Nat, NEW key, NEW r, Layout(x, c, code, wide, key, r),
         Agrees(src, x), NEW server \in BOOLEAN
  PROVE  Known(ParseMetadata(src, server), src, Len(x), c, server, wide, key)
  <1>1. /\ x \in Seq(Octets) /\ c \in WsFrames /\ key \in Keys
        /\ x[1] = [fin |-> c.fin, op |-> c.op] /\ x[2] = [masked |-> c.masked, len |-> code]
    BY DEF Layout
  <1>2. PICK n \in Nat, kl \in Nat : n = Len(c.pl) /\ kl = KeyLength(c.masked) /\ Len(x) = 2 + wide + kl + n
    <2>1. Len(c.pl) \in Nat /\ KeyLength(c.masked) \in Nat
      BY <1>1 DEF WsFrames, KeyLength
    <2> QED BY <2>1 DEF Layout
  <1>3. Coded(n, code, wide)
    BY <1>2 DEF Layout
  <1>4. src \in Seq(Octets) /\ Len(src) \in Nat /\ Len(src) <= Len(x) /\ \A k \in 1..Len(src) : x[k] = src[k]
    BY DEF Agrees, Begins
  <1>5. PICK m, cd, w, len, total : m = ParseMetadata(src, server) /\ Meta(src, server, cd, w, len, total)
    BY DEF Meta
  <1>6. m = MetaOf(src, server, w, len, total)
    BY <1>5, MetaParts
  <1>7. CASE Len(src) < 2
    <2>1. m = NeedMore
      BY <1>6, <1>7 DEF MetaOf
    <2>2. Len(src) < Len(x)
      BY <1>2, <1>7
    <2> QED BY <1>5, <2>1, <2>2 DEF NeedMore, Known
  <1>8. CASE Len(src) >= 2
    <2>1. src[1] = x[1] /\ src[2] = x[2]
      BY <1>4, <1>8
    <2>2. src[1].fin = c.fin /\ src[1].op = c.op /\ src[2].masked = c.masked /\ src[2].len = code
      BY <1>1, <2>1
    <2>3. cd = code /\ w = wide /\ total = 2 + wide + (IF server THEN 4 ELSE 0)
      <3>1. cd = code /\ w = (IF code = Short THEN 2 ELSE IF code > Short THEN 8 ELSE 0)
        BY <1>5, <2>2 DEF Meta
      <3>2. w = wide
        BY <1>2, <1>3, <3>1, WsSizesAssumption DEF Coded
      <3> QED BY <1>5, <3>1, <3>2 DEF Meta
    <2>4. CASE c.masked # server
      <3>1. (~src[2].masked /\ server) \/ (src[2].masked /\ ~server)
        BY <1>1, <2>2, <2>4 DEF WsFrames
      <3>2. m = Err("UnmaskedFrame") \/ m = Err("MaskedFrame")
        BY <1>6, <1>8, <3>1 DEF MetaOf
      <3>3. m.tag = "error" /\ m.error # "none"
        BY <3>2 DEF Err
      <3> QED BY <1>5, <2>4, <3>3 DEF Known
    <2>5. CASE c.masked = server /\ c.op = "Bad"
      <3>1. m = Err("InvalidOpcode")
        BY <1>6, <1>8, <2>2, <2>5 DEF MetaOf
      <3>2. m.tag = "error" /\ m.error # "none"
        BY <3>1 DEF Err
      <3> QED BY <1>5, <2>5, <3>2 DEF Known
    <2>6. CASE c.masked = server /\ c.op # "Bad"
      <3>1. m = (IF Len(src) < 2 + wide THEN NeedMore ELSE IF len > MaxSize THEN Err("Overflow") ELSE IF Len(src) < total THEN NeedMore
                 ELSE [tag |-> "metadata", idx |-> total, fin |-> src[1].fin, op |-> src[1].op,
                       len |-> len, key |-> SubSeq(src, 3 + wide, total)])
        BY <1>6, <1>8, <2>2, <2>3, <2>6 DEF MetaOf
      <3>2. total = 2 + wide + kl
        BY <1>2, <2>3, <2>6 DEF KeyLength
      <3>3. CASE Len(src) < 2 + wide
        <4>1. m = NeedMore
          BY <3>1, <3>3
        <4>2. Len(src) < Len(x)
          BY <1>2, <1>4, <3>3
        <4> QED BY <1>5, <4>1, <4>2 DEF NeedMore, Known
      <3>4. CASE ~(Len(src) < 2 + wide)
        <4>1. len = n
          <5>1. CASE wide = 0
            <6>1. len = cd
              BY <1>5, <2>3, <5>1 DEF Meta
            <6> QED BY <1>3, <2>3, <5>1, <6>1 DEF Coded
          <5>2. CASE wide # 0
            <6>1. Fits(n, wide)
              BY <1>3, <5>2 DEF Coded
            <6>2. PICK b : b = BigEndian(n, wide) /\ b \in Seq(WsBytes) /\ Len(b) = wide /\ Number(b) = n
              BY <6>1, LengthIsRead
            <6>3. Follows(b, x, 2)
              BY <1>2, <5>2, <6>2 DEF Layout
            <6>4. SubSeq(src, 2 + 1, 2 + wide) = b
              <7>1. Lies(b, 2, wide, src)
                BY <1>4, <3>4, <6>2 DEF Lies
              <7>2. PartOf(src, 2, wide, b)
                BY <1>1, <6>3, <7>1, FollowsAgreed
              <7> QED BY <7>2 DEF PartOf
            <6>5. len = Number(SubSeq(src, 3, 2 + wide))
              BY <1>5, <2>3, <5>2 DEF Meta
            <6>6. 2 + 1 = 3
              OBVIOUS
            <6> QED BY <6>2, <6>4, <6>5, <6>6
          <5> QED BY <5>1, <5>2
        <4>2. CASE n > MaxSize
          <5>1. m = Err("Overflow")
            BY <3>1, <3>4, <4>1, <4>2
          <5>2. m.tag = "error" /\ m.error # "none"
            BY <5>1 DEF Err
          <5> QED BY <1>2, <1>5, <4>2, <5>2 DEF Known
        <4>3. CASE ~(n > MaxSize) /\ Len(src) < total
          <5>1. m = NeedMore
            BY <3>1, <3>4, <4>1, <4>3
          <5>2. Len(src) < Len(x)
            BY <1>2, <1>4, <3>2, <4>3
          <5> QED BY <1>5, <5>1, <5>2 DEF NeedMore, Known
        <4>4. CASE ~(n > MaxSize) /\ ~(Len(src) < total)
          <5>1. m = [tag |-> "metadata", idx |-> total, fin |-> src[1].fin, op |-> src[1].op,
                     len |-> len, key |-> SubSeq(src, 3 + wide, total)]
            BY <3>1, <3>4, <4>1, <4>4
          <5>2. m.tag = "metadata" /\ m.idx = total /\ m.fin = c.fin /\ m.op = c.op /\ m.len = n /\ m.key = SubSeq(src, 3 + wide, total)
            BY <2>2, <4>1, <5>1
          <5>3. total <= Len(src)
            BY <1>4, <3>2, <4>4
          <5>4. server => m.key = key
            <6> SUFFICES ASSUME server
                         PROVE  m.key = key
              OBVIOUS
            <6>1. key \in Seq(WsBytes) /\ Len(key) = 4
              BY <1>1, KeyIsSeq
            <6>2. Follows(key, x, 2 + wide)
              BY <2>6 DEF Layout
            <6>3. kl = 4
              BY <1>2, <2>6 DEF KeyLength
            <6>4. PICK e \in Nat : e = 2 + wide
              OBVIOUS
            <6>5. SubSeq(src, e + 1, e + 4) = key /\ e + 1 = 3 + wide /\ e + 4 = total
              <7>1. e + 4 <= Len(src) /\ e + 1 = 3 + wide /\ e + 4 = total
                BY <3>2, <5>3, <6>3, <6>4
              <7>2. Follows(key, x, e)
                BY <6>2, <6>4
              <7>3. PICK l \in Nat : l = 4
                OBVIOUS
              <7>4. Lies(key, e, l, src)
                BY <6>1, <7>1, <7>3 DEF Lies
              <7>5. PartOf(src, e, l, key)
                BY <1>1, <7>2, <7>4, FollowsAgreed
              <7> QED BY <7>1, <7>3, <7>5 DEF PartOf
            <6> QED BY <5>2, <6>5
          <5> QED BY <1>2, <1>5, <2>6, <3>2, <5>2, <5>3, <5>4 DEF Known
        <4>5. n > MaxSize \/ ~(n > MaxSize)
          OBVIOUS
        <4> QED BY <4>2, <4>3, <4>4
      <3> QED BY <3>3, <3>4
    <2> QED BY <2>4, <2>5, <2>6
  <1> QED BY <1>4, <1>7, <1>8

\* Parse in its parts.
ParseParts(src, server, start, m, data, frame) ==
  /\ m = ParseMetadata(src, server) /\ data = SubSeq(src, m.idx + 1, m.idx + m.len)
  /\ frame = [tag |-> "frame", fin |-> m.fin, op |-> m.op, used |-> m.idx + m.len,
              pl |-> IF server THEN ApplyMask(data, m.key, start) ELSE data]

ParsedOf(src, m, frame) ==
  IF m.tag # "metadata" THEN m
  ELSE IF Len(src) < m.idx + m.len THEN NeedMore
  ELSE IF m.len >= Short /\ m.op \in {"Ping", "Pong"} THEN Err("InvalidLength")
  ELSE IF m.len >= Short /\ m.op = "Close" THEN [frame EXCEPT !.fin = TRUE, !.pl = <<>>]
  ELSE frame

LEMMA ParseIs ==
  ASSUME NEW src, NEW server, NEW start, NEW m, NEW data, NEW frame, ParseParts(src, server, start, m, data, frame)
  PROVE  Parse(src, server, start) = ParsedOf(src, m, frame)
  BY Zenon DEF Parse, ParsedOf, ParseParts

\* A frame the decoder refuses although it expects its mask and knows its kind.
LongFrame(c) == Len(c.pl) > MaxSize \/ (Len(c.pl) >= Short /\ c.op \in {"Ping", "Pong"})
Stripped(c) == c.op = "Close" /\ Len(c.pl) >= Short

\* The result p for the first bytes src of a frame c of q bytes.
Parsed(p, src, q, c, server) ==
  \/ p.tag = "more" /\ Len(src) < q
  \/ p.tag = "error" /\ p.error # "none" /\ (c.masked = server /\ c.op # "Bad" => LongFrame(c))
  \/ /\ p.tag = "frame" /\ Len(src) = q /\ p.used = q /\ c.op # "Bad" /\ p.op = c.op
     /\ p.fin = (Stripped(c) \/ c.fin) /\ p.pl = (IF Stripped(c) THEN <<>> ELSE c.pl)

LEMMA FrameParsed ==
  ASSUME NEW src, NEW x, NEW c, NEW code \in Nat, NEW wide \in Nat, NEW key, NEW r, Layout(x, c, code, wide, key, r),
         Agrees(src, x), NEW server \in BOOLEAN, NEW start \in Alignments
  PROVE  Parsed(Parse(src, server, start), src, Len(x), c, server)
  <1>1. /\ x \in Seq(Octets) /\ c \in WsFrames /\ key \in Keys /\ r \in Seq(WsBytes)
        /\ Follows(r, x, 2 + wide + KeyLength(c.masked)) /\ Len(r) = Len(c.pl)
    BY DEF Layout
  <1>2. PICK n \in Nat, i \in Nat : n = Len(c.pl) /\ i = 2 + wide + KeyLength(c.masked) /\ Len(x) = i + n
    <2>1. Len(c.pl) \in Nat /\ KeyLength(c.masked) \in Nat
      BY <1>1 DEF WsFrames, KeyLength
    <2> QED BY <2>1 DEF Layout
  <1>3. src \in Seq(Octets) /\ Len(src) \in Nat /\ Len(src) <= Len(x)
    BY DEF Agrees
  <1>4. PICK m, data, frame, p : ParseParts(src, server, start, m, data, frame) /\ p = Parse(src, server, start)
    BY DEF ParseParts
  <1>5. p = ParsedOf(src, m, frame)
    BY <1>4, ParseIs
  <1>6. Known(m, src, Len(x), c, server, wide, key)
    <2>1. m = ParseMetadata(src, server)
      BY <1>4, Zenon DEF ParseParts
    <2> QED BY <2>1, MetadataKnown
  <1>7. CASE m.tag = "more" /\ Len(src) < Len(x)
    <2>1. p = m
      BY <1>5, <1>7 DEF ParsedOf
    <2> QED BY <1>4, <1>7, <2>1 DEF Parsed
  <1>8. CASE m.tag = "error" /\ m.error # "none" /\ (c.masked = server /\ c.op # "Bad" => Len(c.pl) > MaxSize)
    <2>1. p = m
      BY <1>5, <1>8 DEF ParsedOf
    <2> QED BY <1>4, <1>8, <2>1 DEF Parsed, LongFrame
  <1>9. CASE /\ m.tag = "metadata" /\ m.idx = 2 + wide + KeyLength(c.masked) /\ m.fin = c.fin /\ m.op = c.op /\ m.len = Len(c.pl)
             /\ c.masked = server /\ c.op # "Bad" /\ m.idx <= Len(src) /\ (server => m.key = key)
    <2>1. m.idx = i /\ m.len = n
      BY <1>2, <1>9
    <2>2. CASE Len(src) < i + n
      <3>1. p = NeedMore
        BY <1>5, <1>9, <2>1, <2>2 DEF ParsedOf
      <3> QED BY <1>2, <1>4, <2>2, <3>1 DEF NeedMore, Parsed
    <2>3. CASE ~(Len(src) < i + n) /\ n >= Short /\ c.op \in {"Ping", "Pong"}
      <3>1. p = Err("InvalidLength")
        BY <1>5, <1>9, <2>1, <2>3 DEF ParsedOf
      <3>2. p.tag = "error" /\ p.error # "none"
        BY <3>1 DEF Err
      <3>3. LongFrame(c)
        BY <1>2, <2>3 DEF LongFrame
      <3> QED BY <1>4, <3>2, <3>3 DEF Parsed
    <2>4. CASE ~(Len(src) < i + n) /\ ~(n >= Short /\ c.op \in {"Ping", "Pong"})
      <3>1. Len(src) = i + n
        BY <1>2, <1>3, <2>4
      <3>2. data = r
        <4>1. Lies(r, i, n, src)
          BY <1>1, <1>2, <3>1 DEF Lies
        <4>2. Follows(r, x, i)
          BY <1>1, <1>2
        <4>3. PartOf(src, i, n, r)
          BY <1>1, <4>1, <4>2, FollowsAgreed
        <4>4. data = SubSeq(src, i + 1, i + n)
          BY <1>4, <2>1 DEF ParseParts
        <4> QED BY <4>3, <4>4 DEF PartOf
      <3>3. PICK pl : pl = (IF server THEN ApplyMask(data, m.key, start) ELSE data)
        OBVIOUS
      <3>4. pl = c.pl
        <4>1. CASE server
          <5>1. Masked(r, c.pl, key) /\ c.pl \in Seq(WsBytes)
            BY <1>1, <1>9, <4>1 DEF Layout, WsFrames
          <5>2. ApplyMask(r, key, start) = c.pl
            BY <1>1, <5>1, UnmaskedAgain
          <5> QED BY <1>9, <3>2, <3>3, <4>1, <5>2
        <4>2. CASE ~server
          <5>1. r = c.pl
            BY <1>9, <4>2 DEF Layout
          <5> QED BY <3>2, <3>3, <4>2, <5>1
        <4> QED BY <4>1, <4>2
      <3>5. frame = [tag |-> "frame", fin |-> m.fin, op |-> m.op, used |-> m.idx + m.len, pl |-> pl]
        BY <1>4, <3>3, Zenon DEF ParseParts
      <3>6. frame = [tag |-> "frame", fin |-> c.fin, op |-> c.op, used |-> i + n, pl |-> c.pl]
        BY <1>9, <2>1, <3>4, <3>5
      <3>7. CASE Stripped(c)
        <4>1. p = [frame EXCEPT !.fin = TRUE, !.pl = <<>>]
          BY <1>2, <1>5, <1>9, <2>1, <2>4, <3>7 DEF ParsedOf, Stripped
        <4>2. p = [tag |-> "frame", fin |-> TRUE, op |-> c.op, used |-> i + n, pl |-> <<>>]
          BY <3>6, <4>1
        <4>3. p.tag = "frame" /\ p.used = i + n /\ p.op = c.op /\ p.fin = TRUE /\ p.pl = <<>>
          BY <4>2
        <4>4. p.fin = (Stripped(c) \/ c.fin) /\ p.pl = (IF Stripped(c) THEN <<>> ELSE c.pl)
          BY <3>7, <4>3
        <4> QED BY <1>2, <1>4, <1>9, <3>1, <4>3, <4>4 DEF Parsed
      <3>8. CASE ~Stripped(c)
        <4>1. p = frame
          BY <1>2, <1>5, <1>9, <2>1, <2>4, <3>8 DEF ParsedOf, Stripped
        <4>2. p.tag = "frame" /\ p.used = i + n /\ p.op = c.op /\ p.fin = c.fin /\ p.pl = c.pl
          BY <3>6, <4>1
        <4>3. c.fin \in BOOLEAN
          BY <1>1 DEF WsFrames
        <4>4. p.fin = (Stripped(c) \/ c.fin) /\ p.pl = (IF Stripped(c) THEN <<>> ELSE c.pl)
          BY <3>8, <4>2, <4>3
        <4> QED BY <1>2, <1>4, <1>9, <3>1, <4>2, <4>4 DEF Parsed
      <3> QED BY <3>7, <3>8
    <2> QED BY <2>2, <2>3, <2>4
  <1> QED BY <1>6, <1>7, <1>8, <1>9 DEF Known

-----------------------------------------------------------------------------
(* Messages and fragments. *)

Kinds == (OpCodes \ {"Continue"}) \cup {"FirstText", "FirstBinary", "Next", "Last", "Nop"}
Firsts == {"FirstText", "FirstBinary"}

\* Message m goes as frame c when the flag was b, and the flag becomes a.
EncodedAs(m, c, b, a, mask) ==
  /\ m \in WsMessages /\ c \in WsFrames /\ b \in BOOLEAN /\ a \in BOOLEAN
  /\ Encode(m.msg, b) = Goes(c.op, c.fin, a) /\ c.pl = m.pl /\ c.masked = mask

\* What Codec::encode does with each kind of message.
EncodesAs(msg, b, e) ==
  \/ msg \in {"Text", "Binary", "Ping", "Pong", "Close"} /\ e = Goes(msg, TRUE, b)
  \/ msg = "FirstText" /\ ~b /\ e = Goes("Binary", FALSE, TRUE)
  \/ msg = "FirstBinary" /\ ~b /\ e = Goes("Text", FALSE, TRUE)
  \/ msg = "Next" /\ b /\ e = Goes("Continue", FALSE, TRUE)
  \/ msg = "Last" /\ b /\ e = Goes("Continue", TRUE, FALSE)
  \/ e.tag \in {"error", "nothing"}

LEMMA EncodeFacts ==
  ASSUME NEW msg \in Kinds, NEW b \in BOOLEAN
  PROVE  EncodesAs(msg, b, Encode(msg, b))
  <1>1. CASE msg \in {"Text", "Binary", "Ping", "Pong", "Close"}
    BY <1>1 DEF Encode, EncodesAs
  <1>2. CASE msg = "FirstText"
    BY <1>2 DEF Encode, EncodesAs, Err
  <1>3. CASE msg = "FirstBinary"
    BY <1>3 DEF Encode, EncodesAs, Err
  <1>4. CASE msg = "Next"
    BY <1>4 DEF Encode, EncodesAs, Err
  <1>5. CASE msg = "Last"
    BY <1>5 DEF Encode, EncodesAs, Err
  <1>6. CASE msg = "Nop"
    BY <1>6 DEF Encode, EncodesAs
  <1> QED BY <1>1, <1>2, <1>3, <1>4, <1>5, <1>6 DEF Kinds, OpCodes

\* What Codec::decode does with a frame while the flag is b.
ClassifiedAs(r, b) ==
  \/ r.tag = "error" /\ r.error # "none"
  \/ /\ r.tag = "message" /\ r.msg \in Kinds /\ r.cont \in BOOLEAN
     /\ (r.msg \in Firsts => ~b) /\ (r.msg \in {"Next", "Last"} => b)
     /\ r.cont = (r.msg \in Firsts \/ (b /\ r.msg # "Last"))

Told(r, msg) == r.tag = "message" /\ r.msg = msg

LEMMA ErrFacts ==
  ASSUME NEW r, NEW e, r = Err(e)
  PROVE  r.tag = "error" /\ r.error = e
  BY DEF Err

ClassifyTable(r, op, fin, b) ==
  /\ op = "Continue" /\ b /\ fin => Told(r, "Last") /\ r.cont = FALSE
  /\ op = "Continue" /\ b /\ ~fin => Told(r, "Next") /\ r.cont = TRUE
  /\ op = "Continue" /\ ~b => r = Err("ContinuationNotStarted")
  /\ op # "Continue" /\ fin => Told(r, op) /\ r.cont = b
  /\ op = "Text" /\ ~fin /\ ~b => Told(r, "FirstText") /\ r.cont = TRUE
  /\ op = "Binary" /\ ~fin /\ ~b => Told(r, "FirstBinary") /\ r.cont = TRUE
  /\ op \in {"Text", "Binary"} /\ ~fin /\ b => r = Err("ContinuationStarted")
  /\ op \in {"Close", "Ping", "Pong"} /\ ~fin => r = Err("ContinuationFragment")

LEMMA ClassifyFacts ==
  ASSUME NEW f, NEW op \in OpCodes, NEW fin \in BOOLEAN, f.op = op, f.fin = fin, NEW b \in BOOLEAN, NEW r, r = Classify(f, b)
  PROVE  ClassifyTable(r, op, fin, b)
  <1>1. CASE op = "Continue"
    BY <1>1 DEF ClassifyTable, Classify, Told
  <1>2. CASE op # "Continue" /\ fin
    BY <1>2 DEF ClassifyTable, Classify, Told
  <1>3. CASE op \in {"Text", "Binary"} /\ ~fin
    BY <1>3 DEF ClassifyTable, Classify, Told
  <1>4. CASE op \in {"Close", "Ping", "Pong"} /\ ~fin
    BY <1>4 DEF ClassifyTable, Classify, Told
  <1> QED BY <1>1, <1>2, <1>3, <1>4 DEF OpCodes

LEMMA Classified ==
  ASSUME NEW f, f.op \in OpCodes, f.fin \in BOOLEAN, NEW b \in BOOLEAN
  PROVE  ClassifiedAs(Classify(f, b), b)
  <1>1. PICK op, fin, r : op \in OpCodes /\ fin \in BOOLEAN /\ op = f.op /\ fin = f.fin /\ r = Classify(f, b)
    OBVIOUS
  <1>0. ClassifyTable(r, op, fin, b)
    BY <1>1, ClassifyFacts
  <1>2. \/ op = "Continue" /\ b /\ fin /\ Told(r, "Last") /\ r.cont = FALSE
        \/ op = "Continue" /\ b /\ ~fin /\ Told(r, "Next") /\ r.cont = TRUE
        \/ op # "Continue" /\ fin /\ Told(r, op) /\ r.cont = b
        \/ op = "Text" /\ ~fin /\ ~b /\ Told(r, "FirstText") /\ r.cont = TRUE
        \/ op = "Binary" /\ ~fin /\ ~b /\ Told(r, "FirstBinary") /\ r.cont = TRUE
        \/ \E e \in {"ContinuationNotStarted", "ContinuationStarted", "ContinuationFragment"} : r = Err(e)
    <2>1. CASE op = "Continue" /\ b /\ fin
      BY <1>0, <2>1 DEF ClassifyTable
    <2>2. CASE op = "Continue" /\ b /\ ~fin
      BY <1>0, <2>2 DEF ClassifyTable
    <2>3. CASE op = "Continue" /\ ~b
      <3>1. r = Err("ContinuationNotStarted")
        BY <1>0, <2>3 DEF ClassifyTable
      <3> QED BY <3>1
    <2>4. CASE op # "Continue" /\ fin
      BY <1>0, <2>4 DEF ClassifyTable
    <2>5. CASE op = "Text" /\ ~fin /\ ~b
      BY <1>0, <2>5 DEF ClassifyTable
    <2>6. CASE op = "Binary" /\ ~fin /\ ~b
      BY <1>0, <2>6 DEF ClassifyTable
    <2>7. CASE op \in {"Text", "Binary"} /\ ~fin /\ b
      <3>1. r = Err("ContinuationStarted")
        BY <1>0, <2>7 DEF ClassifyTable
      <3> QED BY <3>1
    <2>8. CASE op \in {"Close", "Ping", "Pong"} /\ ~fin
      <3>1. r = Err("ContinuationFragment")
        BY <1>0, <2>8 DEF ClassifyTable
      <3> QED BY <3>1
    <2> QED BY <1>1, <2>1, <2>2, <2>3, <2>4, <2>5, <2>6, <2>7, <2>8 DEF OpCodes
  <1>3. CASE op = "Continue" /\ b /\ fin /\ Told(r, "Last") /\ r.cont = FALSE
    BY <1>1, <1>3 DEF Told, ClassifiedAs, Kinds, Firsts
  <1>4. CASE op = "Continue" /\ b /\ ~fin /\ Told(r, "Next") /\ r.cont = TRUE
    BY <1>1, <1>4 DEF Told, ClassifiedAs, Kinds, Firsts
  <1>5. CASE op # "Continue" /\ fin /\ Told(r, op) /\ r.cont = b
    BY <1>1, <1>5 DEF Told, ClassifiedAs, Kinds, Firsts, OpCodes
  <1>6. CASE op = "Text" /\ ~fin /\ ~b /\ Told(r, "FirstText") /\ r.cont = TRUE
    BY <1>1, <1>6 DEF Told, ClassifiedAs, Kinds, Firsts
  <1>7. CASE op = "Binary" /\ ~fin /\ ~b /\ Told(r, "FirstBinary") /\ r.cont = TRUE
    BY <1>1, <1>7 DEF Told, ClassifiedAs, Kinds, Firsts
  <1>8. ASSUME NEW e \in {"ContinuationNotStarted", "ContinuationStarted", "ContinuationFragment"}, r = Err(e)
        PROVE  ClassifiedAs(r, b)
    BY <1>8, ErrFacts DEF ClassifiedAs
  <1> QED BY <1>1, <1>2, <1>3, <1>4, <1>5, <1>6, <1>7, <1>8

\* The decoder makes of a message's frame the message as the peer should see it.
Delivered(r, p) == [msg |-> r.msg, pl |-> IF r.msg = "Close" THEN CloseReason(p.pl) ELSE p.pl]

LEMMA SeenAgain ==
  ASSUME NEW m, NEW c, NEW b, NEW a, NEW mask, EncodedAs(m, c, b, a, mask), NEW p, NEW r,
         p.op = c.op, p.fin = (Stripped(c) \/ c.fin), p.pl = (IF Stripped(c) THEN <<>> ELSE c.pl), r = Classify(p, b)
  PROVE  /\ r.tag = "message" /\ r.cont = a /\ Delivered(r, p) = Seen(m)
         /\ LongFrame(c) => TooLong(m)
  <1>1. /\ m \in WsMessages /\ c \in WsFrames /\ b \in BOOLEAN /\ a \in BOOLEAN
        /\ Encode(m.msg, b) = Goes(c.op, c.fin, a) /\ c.pl = m.pl
    BY DEF EncodedAs
  <1>2. m.msg \in Kinds /\ m.pl \in Seq(WsBytes) /\ c.fin \in BOOLEAN
    BY <1>1 DEF WsMessages, WsFrames, Kinds
  <1>3. PICK e : e = Encode(m.msg, b) /\ EncodesAs(m.msg, b, e) /\ e = Goes(c.op, c.fin, a)
    BY <1>1, <1>2, EncodeFacts
  <1>4. e.tag = "frame" /\ e.op = c.op /\ e.fin = c.fin /\ e.cont = a
    BY <1>3 DEF Goes
  <1>5. \/ m.msg \in {"Text", "Binary", "Ping", "Pong", "Close"} /\ e = Goes(m.msg, TRUE, b)
        \/ m.msg = "FirstText" /\ ~b /\ e = Goes("Binary", FALSE, TRUE)
        \/ m.msg = "FirstBinary" /\ ~b /\ e = Goes("Text", FALSE, TRUE)
        \/ m.msg = "Next" /\ b /\ e = Goes("Continue", FALSE, TRUE)
        \/ m.msg = "Last" /\ b /\ e = Goes("Continue", TRUE, FALSE)
    BY <1>3, <1>4 DEF EncodesAs
  <1>6. \/ m.msg \in {"Text", "Binary", "Ping", "Pong", "Close"} /\ c.op = m.msg /\ c.fin = TRUE /\ a = b
        \/ m.msg = "FirstText" /\ ~b /\ c.op = "Binary" /\ c.fin = FALSE /\ a = TRUE
        \/ m.msg = "FirstBinary" /\ ~b /\ c.op = "Text" /\ c.fin = FALSE /\ a = TRUE
        \/ m.msg = "Next" /\ b /\ c.op = "Continue" /\ c.fin = FALSE /\ a = TRUE
        \/ m.msg = "Last" /\ b /\ c.op = "Continue" /\ c.fin = TRUE /\ a = FALSE
    BY <1>4, <1>5 DEF Goes
  <1>7. p.fin = c.fin
    BY <1>2, <1>6 DEF Stripped
  <1>8. PICK op \in OpCodes, fin \in BOOLEAN : op = c.op /\ fin = c.fin /\ p.op = op /\ p.fin = fin
    BY <1>2, <1>6, <1>7 DEF OpCodes
  <1>0. ClassifyTable(r, op, fin, b)
    BY <1>1, <1>8, ClassifyFacts
  <1>9. \/ m.msg \in {"Text", "Binary", "Ping", "Pong", "Close"} /\ Told(r, m.msg) /\ r.cont = b /\ a = b
        \/ m.msg = "FirstText" /\ Told(r, "FirstBinary") /\ r.cont = TRUE /\ a = TRUE
        \/ m.msg = "FirstBinary" /\ Told(r, "FirstText") /\ r.cont = TRUE /\ a = TRUE
        \/ m.msg = "Next" /\ Told(r, "Next") /\ r.cont = TRUE /\ a = TRUE
        \/ m.msg = "Last" /\ Told(r, "Last") /\ r.cont = FALSE /\ a = FALSE
    <2>1. CASE m.msg \in {"Text", "Binary", "Ping", "Pong", "Close"} /\ c.op = m.msg /\ c.fin = TRUE /\ a = b
      <3>1. op # "Continue" /\ fin /\ op = m.msg
        BY <1>8, <2>1
      <3>2. Told(r, op) /\ r.cont = b
        BY <1>0, <3>1 DEF ClassifyTable
      <3> QED BY <2>1, <3>1, <3>2
    <2>2. CASE m.msg = "FirstText" /\ ~b /\ c.op = "Binary" /\ c.fin = FALSE /\ a = TRUE
      <3>1. op = "Binary" /\ ~fin
        BY <1>8, <2>2
      <3>2. Told(r, "FirstBinary") /\ r.cont = TRUE
        BY <1>0, <2>2, <3>1 DEF ClassifyTable
      <3> QED BY <2>2, <3>2
    <2>3. CASE m.msg = "FirstBinary" /\ ~b /\ c.op = "Text" /\ c.fin = FALSE /\ a = TRUE
      <3>1. op = "Text" /\ ~fin
        BY <1>8, <2>3
      <3>2. Told(r, "FirstText") /\ r.cont = TRUE
        BY <1>0, <2>3, <3>1 DEF ClassifyTable
      <3> QED BY <2>3, <3>2
    <2>4. CASE m.msg = "Next" /\ b /\ c.op = "Continue" /\ c.fin = FALSE /\ a = TRUE
      <3>1. op = "Continue" /\ ~fin
        BY <1>8, <2>4
      <3>2. Told(r, "Next") /\ r.cont = TRUE
        BY <1>0, <2>4, <3>1 DEF ClassifyTable
      <3> QED BY <2>4, <3>2
    <2>5. CASE m.msg = "Last" /\ b /\ c.op = "Continue" /\ c.fin = TRUE /\ a = FALSE
      <3>1. op = "Continue" /\ fin
        BY <1>8, <2>5
      <3>2. Told(r, "Last") /\ r.cont = FALSE
        BY <1>0, <2>5, <3>1 DEF ClassifyTable
      <3> QED BY <2>5, <3>2
    <2> QED BY <1>6, <2>1, <2>2, <2>3, <2>4, <2>5
  <1>10. r.tag = "message" /\ r.cont = a
    BY <1>9 DEF Told
  <1>11. r.msg = (CASE m.msg = "FirstText" -> "FirstBinary" [] m.msg = "FirstBinary" -> "FirstText" [] OTHER -> m.msg)
    BY <1>9 DEF Told
  <1>12. (IF r.msg = "Close" THEN CloseReason(p.pl) ELSE p.pl)
           = (IF m.msg = "Close" /\ (Len(m.pl) < 2 \/ Len(m.pl) >= Short) THEN <<>> ELSE m.pl)
    <2>0. PICK n \in Nat : n = Len(m.pl)
      BY <1>2
    <2>1. CASE m.msg = "Close"
      <3>1. r.msg = "Close" /\ c.op = "Close"
        BY <1>6, <1>11, <2>1
      <3>2. Stripped(c) <=> n >= Short
        BY <1>1, <2>0, <3>1 DEF Stripped
      <3>3. CASE n >= Short
        <4>1. p.pl = <<>>
          BY <3>2, <3>3
        <4> QED BY <2>0, <2>1, <3>1, <3>3, <4>1 DEF CloseReason
      <3>4. CASE ~(n >= Short)
        <4>1. p.pl = m.pl
          BY <1>1, <3>2, <3>4
        <4> QED BY <2>0, <2>1, <3>1, <3>4, <4>1 DEF CloseReason
      <3> QED BY <3>3, <3>4
    <2>2. CASE m.msg # "Close"
      <3>1. r.msg # "Close" /\ c.op # "Close"
        BY <1>6, <1>11, <2>2
      <3>2. p.pl = m.pl
        BY <1>1, <3>1 DEF Stripped
      <3> QED BY <2>2, <3>1, <3>2
    <2> QED BY <2>1, <2>2
  <1>13. Delivered(r, p) = Seen(m)
    BY <1>11, <1>12, Zenon DEF Delivered, Seen
  <1>14. LongFrame(c) => TooLong(m)
    BY <1>1, <1>6 DEF LongFrame, TooLong
  <1> QED BY <1>10, <1>13, <1>14

-----------------------------------------------------------------------------
(* Fragments nest. *)

OpensAt(fr, k) == fr[k].msg \in Firsts
OpenAt(fr, k) == \E j \in 1..k - 1 : OpensAt(fr, j) /\ \A i \in j + 1..k - 1 : fr[i].msg # "Last"
Nested(fr) ==
  \A k \in 1..Len(fr) :
    /\ OpensAt(fr, k) => ~OpenAt(fr, k)
    /\ fr[k].msg \in {"Next", "Last"} => OpenAt(fr, k)

LEMMA OpenSoFar ==
  ASSUME NEW s, NEW t, NEW k \in Nat, \A i \in 1..k - 1 : s[i] = t[i], OpenAt(s, k)
  PROVE  OpenAt(t, k)
  <1>1. PICK j \in 1..k - 1 : OpensAt(s, j) /\ \A i \in j + 1..k - 1 : s[i].msg # "Last"
    BY DEF OpenAt
  <1>2. \A i \in j + 1..k - 1 : i \in 1..k - 1
    OBVIOUS
  <1>3. \A i \in j + 1..k - 1 : t[i].msg # "Last"
    BY <1>1, <1>2
  <1>4. OpensAt(t, j)
    BY <1>1 DEF OpensAt
  <1> QED BY <1>3, <1>4 DEF OpenAt

LEMMA NestNext ==
  ASSUME NEW fr \in Seq(WsMessages), Nested(fr), NEW n \in Nat, n = Len(fr), NEW h \in WsMessages, NEW g, g = Append(fr, h),
         NEW b \in BOOLEAN, b = OpenAt(fr, n + 1), h.msg \in Firsts => ~b, h.msg \in {"Next", "Last"} => b
  PROVE  Nested(g) /\ OpenAt(g, Len(g) + 1) = (h.msg \in Firsts \/ (b /\ h.msg # "Last"))
  <1>1. PICK p \in Nat, q \in Nat : p = n + 1 /\ q = p + 1 /\ q - 1 = p /\ p - 1 = n
    OBVIOUS
  <1>2. g \in Seq(WsMessages) /\ Len(g) = p /\ g[p] = h /\ \A k \in 1..n : g[k] = fr[k]
    BY <1>1, AppendProperties
  <1>3. ASSUME NEW k \in 1..p
        PROVE  OpenAt(g, k) <=> OpenAt(fr, k)
    <2>1. \A i \in 1..k - 1 : i \in 1..n
      BY <1>1
    <2>2. \A i \in 1..k - 1 : g[i] = fr[i]
      BY <1>2, <2>1
    <2>3. \A i \in 1..k - 1 : fr[i] = g[i]
      BY <2>2
    <2>4. k \in Nat
      BY <1>1
    <2>5. OpenAt(g, k) => OpenAt(fr, k)
      BY <2>2, <2>4, OpenSoFar
    <2>6. OpenAt(fr, k) => OpenAt(g, k)
      BY <2>3, <2>4, OpenSoFar
    <2> QED BY <2>5, <2>6
  <1>4. Nested(g)
    <2> SUFFICES ASSUME NEW k \in 1..p
                 PROVE  /\ OpensAt(g, k) => ~OpenAt(g, k)
                        /\ g[k].msg \in {"Next", "Last"} => OpenAt(g, k)
      BY <1>2 DEF Nested
    <2>1. CASE k = p
      <3>1. g[k] = h /\ (OpenAt(g, k) <=> b)
        BY <1>1, <1>2, <1>3, <2>1
      <3> QED BY <3>1 DEF OpensAt
    <2>2. CASE k # p
      <3>1. k \in 1..n
        BY <1>1, <2>2
      <3>2. g[k] = fr[k] /\ (OpenAt(g, k) <=> OpenAt(fr, k))
        BY <1>2, <1>3, <3>1
      <3>3. OpensAt(g, k) <=> OpensAt(fr, k)
        BY <3>2 DEF OpensAt
      <3> QED BY <3>1, <3>2, <3>3 DEF Nested
    <2> QED BY <2>1, <2>2
  <1>5. OpenAt(g, q) <=> h.msg \in Firsts \/ (b /\ h.msg # "Last")
    <2>1. OpenAt(g, p) <=> b
      BY <1>1, <1>3
    <2>2. ASSUME h.msg \in Firsts
          PROVE  OpenAt(g, q)
      <3>1. p \in 1..q - 1 /\ OpensAt(g, p) /\ \A i \in p + 1..q - 1 : g[i].msg # "Last"
        BY <1>1, <1>2, <2>2 DEF OpensAt
      <3> QED BY <3>1 DEF OpenAt
    <2>3. ASSUME b, h.msg # "Last"
          PROVE  OpenAt(g, q)
      <3>1. PICK j \in 1..p - 1 : OpensAt(g, j) /\ \A i \in j + 1..p - 1 : g[i].msg # "Last"
        BY <2>1, <2>3 DEF OpenAt
      <3>2. \A i \in j + 1..q - 1 : i = p \/ i \in j + 1..p - 1
        BY <1>1
      <3>3. j \in 1..q - 1 /\ \A i \in j + 1..q - 1 : g[i].msg # "Last"
        BY <1>1, <1>2, <2>3, <3>1, <3>2
      <3> QED BY <3>1, <3>3 DEF OpenAt
    <2>4. ASSUME OpenAt(g, q), h.msg \notin Firsts
          PROVE  b /\ h.msg # "Last"
      <3>1. PICK j \in 1..q - 1 : OpensAt(g, j) /\ \A i \in j + 1..q - 1 : g[i].msg # "Last"
        BY <2>4 DEF OpenAt
      <3>2. j # p
        BY <1>2, <2>4, <3>1 DEF OpensAt
      <3>3. j \in 1..p - 1 /\ p \in j + 1..q - 1 /\ \A i \in j + 1..p - 1 : i \in j + 1..q - 1
        BY <1>1, <3>2
      <3>4. OpenAt(g, p)
        BY <3>1, <3>3 DEF OpenAt
      <3>5. h.msg # "Last"
        BY <1>2, <3>1, <3>3
      <3> QED BY <2>1, <3>4, <3>5
    <2> QED BY <2>2, <2>3, <2>4
  <1>6. OpenAt(g, q) \in BOOLEAN
    BY DEF OpenAt
  <1>7. OpenAt(g, Len(g) + 1) = (h.msg \in Firsts \/ (b /\ h.msg # "Last"))
    BY <1>1, <1>2, <1>5, <1>6
  <1> QED BY <1>4, <1>7

-----------------------------------------------------------------------------
(* The connection. *)

OnWire(x, c) == \E code, wide, key, r : code \in Nat /\ wide \in Nat /\ Layout(x, c, code, wide, key, r)

\* The frames F lie on the wire w, which reaches as far as off says.
Stream(F, w, off) ==
  /\ F \in Seq(WsFrames) /\ w \in Seq(Octets) /\ off \in [0..Len(F) -> Nat]
  /\ off[0] = 0 /\ off[Len(F)] = Len(w)
  /\ \A i \in 1..Len(F) :
       off[i - 1] < off[i] /\ off[i] <= Len(w) /\ OnWire(Stretch(w, off[i - 1], off[i]), F[i])

\* What was accepted went as the frames F, and fl are the values of the flag between them.
SentAs(m, c, b, a, codec, client) ==
  (codec => EncodedAs(m, c, b, a, client)) /\ (~codec => c = m)
History(F, acc, fl, codec, client) ==
  /\ Len(F) = Len(acc) /\ fl \in [0..Len(acc) -> BOOLEAN] /\ fl[0] = FALSE
  /\ \A i \in 1..Len(acc) : SentAs(acc[i], F[i], fl[i - 1], fl[i], codec, client)

\* k frames are decoded, f bytes have arrived, and the buffer has what is behind these frames.
Reaches(w, off, last, k, f, by, bu) ==
  /\ k <= last /\ off[k] <= f /\ f <= Len(w) /\ by = Stretch(w, f, Len(w)) /\ bu = Stretch(w, off[k], f)
  /\ k < last => f < off[k + 1]

Flows(acc, co, by, bu, fr, codec, client) ==
  \E F, w, off, fl :
    /\ Stream(F, w, off) /\ History(F, acc, fl, codec, client)
    /\ codec => co.w = fl[Len(acc)] /\ co.r = fl[Len(fr)]
    /\ \E f \in Nat : Reaches(w, off, Len(acc), Len(fr), f, by, bu)

GoodMessages == {m \in WsMessages : Fits(Len(m.pl), 8)}
GoodFrames == {m \in WsFrames : Fits(Len(m.pl), 8)}
Links == [open : {TRUE}, codec : BOOLEAN, client : BOOLEAN, script : WsScripts]

\* The decoded messages are those accepted first.
Answers(fr, acc, fa) ==
  /\ Len(fr) <= Len(acc) /\ \A k \in 1..Len(fr) : fr[k] = Seen(acc[k])
  /\ fa # "none" => Len(fr) < Len(acc) /\ TooLong(acc[Len(fr) + 1])

WsOK(li, un, acc, co, by, bu, fr, fa) ==
  /\ acc \in Seq(WsMessages \cup WsFrames) /\ fr \in Seq(WsMessages) /\ co \in [w : BOOLEAN, r : BOOLEAN]
  /\ Nested(fr) /\ co.r = OpenAt(fr, Len(fr) + 1)
  /\ li = NoLink =>
       un = <<>> /\ acc = <<>> /\ co = [w |-> FALSE, r |-> FALSE] /\ by = <<>> /\ bu = <<>> /\ fr = <<>>
  /\ li # NoLink =>
       /\ li \in Links /\ (li.codec => un \in Seq(GoodMessages)) /\ (~li.codec => un \in Seq(GoodFrames))
       /\ fa = "none" => Flows(acc, co, by, bu, fr, li.codec, li.client)
       /\ li.codec => Answers(fr, acc, fa)

WsInv == WsOK(link, unsent, accepted, cont, bytes, buffer, frames, failed)

\* A function on 0..n gets one more value.
More(g, n, v) == [i \in 0..(n + 1) |-> IF i <= n THEN g[i] ELSE v]

Grown(h, g, n, v, A) ==
  h \in [0..(n + 1) -> A] /\ (\A i \in 0..n : h[i] = g[i]) /\ h[n + 1] = v

LEMMA MoreFacts ==
  ASSUME NEW A, NEW n \in Nat, NEW g \in [0..n -> A], NEW v \in A
  PROVE  Grown(More(g, n, v), g, n, v, A)
  <1>0. PICK h : h = More(g, n, v)
    OBVIOUS
  <1>1. ASSUME NEW i \in 0..(n + 1)
        PROVE  (IF i <= n THEN g[i] ELSE v) \in A
    <2>1. CASE i <= n
      BY <2>1
    <2>2. CASE ~(i <= n)
      BY <2>2
    <2> QED BY <2>1, <2>2
  <1>2. h \in [0..(n + 1) -> A]
    BY <1>0, <1>1 DEF More
  <1>3. \A i \in 0..n : i \in 0..(n + 1) /\ i <= n
    OBVIOUS
  <1>4. n + 1 \in 0..(n + 1) /\ ~(n + 1 <= n)
    OBVIOUS
  <1>5. Grown(h, g, n, v, A)
    BY <1>0, <1>2, <1>3, <1>4 DEF More, Grown
  <1> QED BY <1>0, <1>5, Zenon

LEMMA StreamGrows ==
  ASSUME NEW F, NEW w, NEW off, Stream(F, w, off), NEW c \in WsFrames, NEW x, OnWire(x, c), NEW n \in Nat, n = Len(F)
  PROVE  /\ Stream(Append(F, c), w \o x, More(off, n, Len(w) + Len(x)))
         /\ Extends(w \o x, w, x) /\ x \in Seq(Octets) /\ Len(x) > 0
  <1>1. /\ F \in Seq(WsFrames) /\ w \in Seq(Octets) /\ off \in [0..n -> Nat] /\ off[0] = 0 /\ off[n] = Len(w)
        /\ \A i \in 1..n : off[i - 1] < off[i] /\ off[i] <= Len(w) /\ OnWire(Stretch(w, off[i - 1], off[i]), F[i])
    BY DEF Stream
  <1>2. x \in Seq(Octets) /\ Len(x) > 0
    <2>1. PICK code, wide, key, r : code \in Nat /\ wide \in Nat /\ Layout(x, c, code, wide, key, r)
      BY DEF OnWire
    <2>2. x \in Seq(Octets) /\ Len(x) = 2 + wide + KeyLength(c.masked) + Len(c.pl)
      BY <2>1 DEF Layout
    <2>3. KeyLength(c.masked) \in Nat /\ Len(c.pl) \in Nat
      BY DEF KeyLength, WsFrames
    <2> QED BY <2>1, <2>2, <2>3
  <1>3. PICK u : u = w \o x
    OBVIOUS
  <1>4. Extends(u, w, x) /\ u \in Seq(Octets)
    <2>1. Extends(w \o x, w, x) /\ w \o x \in Seq(Octets)
      BY <1>1, <1>2, LaidNext
    <2> QED BY <1>3, <2>1
  <1>5. PICK a \in Nat, z \in Nat : a = Len(w) /\ z = Len(u) /\ z = a + Len(x) /\ a < z /\ x = Stretch(u, a, z)
    <2>1. Len(u) = Len(w) + Len(x) /\ x = Stretch(u, Len(w), Len(u))
      BY <1>4 DEF Extends
    <2> QED BY <1>1, <1>2, <2>1
  <1>6. PICK h : h = More(off, n, z)
    OBVIOUS
  <1>7. h \in [0..(n + 1) -> Nat] /\ (\A i \in 0..n : h[i] = off[i]) /\ h[n + 1] = z
    <2>1. Grown(More(off, n, z), off, n, z, Nat)
      BY <1>1, MoreFacts
    <2> QED BY <1>6, <2>1 DEF Grown
  <1>8. PICK G : G = Append(F, c) /\ G \in Seq(WsFrames) /\ Len(G) = n + 1 /\ G[n + 1] = c /\ \A i \in 1..n : G[i] = F[i]
    <2>1. /\ Append(F, c) \in Seq(WsFrames) /\ Len(Append(F, c)) = n + 1 /\ Append(F, c)[n + 1] = c
          /\ \A i \in 1..n : Append(F, c)[i] = F[i]
      BY <1>1, AppendProperties
    <2> QED BY <2>1, Zenon
  <1>9. \A i \in 0..n : off[i] <= a
    <2> TAKE i \in 0..n
    <2>1. CASE i = 0
      BY <1>1, <2>1
    <2>2. CASE i # 0
      <3>1. i \in 1..n
        BY <2>2
      <3> QED BY <1>1, <1>5, <3>1
    <2> QED BY <2>1, <2>2
  <1>10. ASSUME NEW i \in 1..(n + 1)
         PROVE  h[i - 1] < h[i] /\ h[i] <= z /\ OnWire(Stretch(u, h[i - 1], h[i]), G[i])
    <2>1. CASE i = n + 1
      <3>1. i - 1 = n /\ n \in 0..n
        BY <2>1
      <3>2. h[i - 1] = a /\ h[i] = z
        BY <1>1, <1>5, <1>7, <2>1, <3>1
      <3>3. OnWire(Stretch(u, a, z), G[i])
        BY <1>5, <1>8, <2>1
      <3>4. OnWire(Stretch(u, h[i - 1], h[i]), G[i])
        BY <3>2, <3>3
      <3>5. h[i - 1] < h[i] /\ h[i] <= z
        <4>1. a < z /\ z <= z
          BY <1>5
        <4> QED BY <3>2, <4>1
      <3> QED BY <3>4, <3>5
    <2>2. CASE i # n + 1
      <3>1. i \in 1..n /\ i \in 0..n /\ i - 1 \in 0..n
        BY <2>2
      <3>2. h[i] = off[i] /\ h[i - 1] = off[i - 1] /\ G[i] = F[i]
        BY <1>7, <1>8, <3>1
      <3>3. off[i] \in 0..a /\ off[i - 1] \in 0..a
        BY <1>1, <1>9, <3>1
      <3>4. Stretch(u, off[i - 1], off[i]) = Stretch(w, off[i - 1], off[i])
        BY <1>4, <1>5, <3>3 DEF Extends
      <3>5. off[i - 1] < off[i] /\ OnWire(Stretch(w, off[i - 1], off[i]), F[i])
        BY <1>1, <3>1
      <3>6. off[i] <= z
        BY <1>5, <3>3
      <3>7. h[i - 1] < h[i] /\ h[i] <= z
        BY <3>2, <3>5, <3>6
      <3>8. OnWire(Stretch(u, h[i - 1], h[i]), G[i])
        <4>1. OnWire(Stretch(u, off[i - 1], off[i]), G[i])
          BY <3>2, <3>4, <3>5
        <4> QED BY <3>2, <4>1
      <3> QED BY <3>7, <3>8
    <2> QED BY <2>1, <2>2
  <1>11. h[0] = 0
    BY <1>1, <1>7
  <1>12. Stream(G, u, h)
    BY <1>4, <1>5, <1>7, <1>8, <1>10, <1>11 DEF Stream
  <1>13. z = Len(w) + Len(x)
    BY <1>5
  <1> QED BY <1>2, <1>3, <1>4, <1>6, <1>8, <1>12, <1>13

LEMMA HistoryGrows ==
  ASSUME NEW F \in Seq(WsFrames), NEW acc \in Seq(WsMessages \cup WsFrames), NEW fl, NEW codec, NEW client,
         History(F, acc, fl, codec, client), NEW n \in Nat, n = Len(acc),
         NEW m \in WsMessages \cup WsFrames, NEW c \in WsFrames, NEW a \in BOOLEAN, SentAs(m, c, fl[n], a, codec, client)
  PROVE  History(Append(F, c), Append(acc, m), More(fl, n, a), codec, client)
  <1>1. /\ Len(F) = n /\ fl \in [0..n -> BOOLEAN] /\ fl[0] = FALSE
        /\ \A i \in 1..n : SentAs(acc[i], F[i], fl[i - 1], fl[i], codec, client)
    BY DEF History
  <1>2. PICK G : G = Append(F, c) /\ Len(G) = n + 1 /\ G[n + 1] = c /\ \A i \in 1..n : G[i] = F[i]
    <2>1. /\ Len(Append(F, c)) = n + 1 /\ Append(F, c)[n + 1] = c
          /\ \A i \in 1..n : Append(F, c)[i] = F[i]
      BY <1>1, AppendProperties
    <2> QED BY <2>1, Zenon
  <1>3. PICK bcc : bcc = Append(acc, m) /\ Len(bcc) = n + 1 /\ bcc[n + 1] = m /\ \A i \in 1..n : bcc[i] = acc[i]
    <2>1. /\ Len(Append(acc, m)) = n + 1 /\ Append(acc, m)[n + 1] = m
          /\ \A i \in 1..n : Append(acc, m)[i] = acc[i]
      BY AppendProperties
    <2> QED BY <2>1, Zenon
  <1>4. PICK h : h = More(fl, n, a)
    OBVIOUS
  <1>5. h \in [0..(n + 1) -> BOOLEAN] /\ (\A i \in 0..n : h[i] = fl[i]) /\ h[n + 1] = a
    <2>1. Grown(More(fl, n, a), fl, n, a, BOOLEAN)
      BY <1>1, MoreFacts
    <2> QED BY <1>4, <2>1 DEF Grown
  <1>6. ASSUME NEW i \in 1..(n + 1)
        PROVE  SentAs(bcc[i], G[i], h[i - 1], h[i], codec, client)
    <2>1. CASE i = n + 1
      <3>1. i - 1 = n /\ n \in 0..n
        BY <2>1
      <3>2. h[i - 1] = fl[n] /\ h[i] = a /\ bcc[i] = m /\ G[i] = c
        BY <1>2, <1>3, <1>5, <2>1, <3>1
      <3> QED BY <3>2, Zenon
    <2>2. CASE i # n + 1
      <3>1. i \in 1..n /\ i \in 0..n /\ i - 1 \in 0..n
        BY <2>2
      <3>2. h[i] = fl[i] /\ h[i - 1] = fl[i - 1] /\ G[i] = F[i] /\ bcc[i] = acc[i]
        BY <1>2, <1>3, <1>5, <3>1
      <3>3. SentAs(acc[i], F[i], fl[i - 1], fl[i], codec, client)
        BY <1>1, <3>1
      <3> QED BY <3>2, <3>3, Zenon
    <2> QED BY <2>1, <2>2
  <1>7. h[0] = FALSE
    BY <1>1, <1>5
  <1>8. History(G, bcc, h, codec, client)
    BY <1>2, <1>3, <1>5, <1>6, <1>7 DEF History
  <1> QED BY <1>2, <1>3, <1>4, <1>8, Zenon

LEMMA ReachesOn ==
  ASSUME NEW F, NEW w, NEW off, Stream(F, w, off), NEW n \in Nat, n = Len(F), NEW x \in Seq(Octets), Len(x) > 0,
         NEW u \in Seq(Octets), Extends(u, w, x), NEW h, NEW z, z = Len(w) + Len(x), Grown(h, off, n, z, Nat),
         NEW k \in Nat, NEW f \in Nat, NEW by, NEW bu, Reaches(w, off, n, k, f, by, bu)
  PROVE  Reaches(u, h, n + 1, k, f, by \o x, bu)
  <1>1. /\ w \in Seq(Octets) /\ off \in [0..n -> Nat] /\ off[n] = Len(w)
        /\ k <= n /\ off[k] <= f /\ f <= Len(w) /\ by = Stretch(w, f, Len(w)) /\ bu = Stretch(w, off[k], f)
        /\ k < n => f < off[k + 1]
    BY DEF Stream, Reaches
  <1>2. PICK a \in Nat, b \in Nat : a = Len(w) /\ b = Len(u) /\ a < b /\ b = z /\ f <= a
    <2>1. Len(u) = Len(w) + Len(x) /\ Len(w) \in Nat /\ Len(x) \in Nat
      BY <1>1 DEF Extends
    <2> QED BY <1>1, <2>1
  <1>3. /\ x = Stretch(u, a, b) /\ \A i, j \in 0..a : Stretch(u, i, j) = Stretch(w, i, j)
    BY <1>2 DEF Extends
  <1>4. h \in [0..(n + 1) -> Nat] /\ (\A i \in 0..n : h[i] = off[i]) /\ h[n + 1] = b
    BY <1>2 DEF Grown
  <1>5. k \in 0..n /\ off[k] \in Nat /\ h[k] = off[k] /\ off[k] \in 0..a /\ f \in 0..a /\ a \in 0..a
    BY <1>1, <1>2, <1>4
  <1>6. by = Stretch(u, f, a)
    BY <1>1, <1>2, <1>3, <1>5
  <1>7. by \o x = Stretch(u, f, b)
    <2>1. Stretch(u, f, a) \o Stretch(u, a, b) = Stretch(u, f, b)
      <3>1. u \in Seq(Octets) /\ f \in Nat /\ a \in Nat /\ b \in Nat /\ f <= a /\ a <= b /\ b <= Len(u)
        BY <1>2
      <3> QED BY <3>1, StretchJoin, ZenonT(60)
    <2> QED BY <1>3, <1>6, <2>1
  <1>8. bu = Stretch(u, h[k], f)
    BY <1>1, <1>3, <1>5
  <1>9. k < n + 1 => f < h[k + 1]
    <2>1. CASE k < n
      <3>1. k + 1 \in 0..n
        BY <2>1
      <3> QED BY <1>1, <1>4, <2>1, <3>1
    <2>2. CASE k = n
      BY <1>2, <1>4, <2>2
    <2> QED BY <1>1, <2>1, <2>2
  <1> QED BY <1>1, <1>2, <1>5, <1>7, <1>8, <1>9 DEF Reaches

Sending(acc, co, by, bu, fr, codec, client, m, c, a, x) ==
  /\ acc \in Seq(WsMessages \cup WsFrames) /\ co \in [w : BOOLEAN, r : BOOLEAN] /\ fr \in Seq(WsMessages)
  /\ codec \in BOOLEAN /\ client \in BOOLEAN /\ Flows(acc, co, by, bu, fr, codec, client)
  /\ m \in WsMessages \cup WsFrames /\ c \in WsFrames /\ a \in BOOLEAN /\ SentAs(m, c, co.w, a, codec, client)
  /\ OnWire(x, c)

LEMMA FlowsGrow ==
  ASSUME NEW acc, NEW co, NEW by, NEW bu, NEW fr, NEW codec, NEW client, NEW m, NEW c, NEW a, NEW x,
         Sending(acc, co, by, bu, fr, codec, client, m, c, a, x)
  PROVE  Flows(Append(acc, m), [co EXCEPT !.w = a], by \o x, bu, fr, codec, client)
  <1>0. /\ acc \in Seq(WsMessages \cup WsFrames) /\ co \in [w : BOOLEAN, r : BOOLEAN] /\ fr \in Seq(WsMessages)
        /\ codec \in BOOLEAN /\ client \in BOOLEAN /\ Flows(acc, co, by, bu, fr, codec, client)
        /\ m \in WsMessages \cup WsFrames /\ c \in WsFrames /\ a \in BOOLEAN /\ SentAs(m, c, co.w, a, codec, client)
        /\ OnWire(x, c)
    BY DEF Sending
  <1>1. PICK F, w, off, fl, f :
           /\ Stream(F, w, off) /\ History(F, acc, fl, codec, client)
           /\ codec => co.w = fl[Len(acc)] /\ co.r = fl[Len(fr)]
           /\ f \in Nat /\ Reaches(w, off, Len(acc), Len(fr), f, by, bu)
    BY <1>0 DEF Flows
  <1>2. PICK n \in Nat, k \in Nat : n = Len(acc) /\ k = Len(fr) /\ n = Len(F) /\ k <= n
    BY <1>0, <1>1 DEF History, Reaches
  <1>3. F \in Seq(WsFrames) /\ w \in Seq(Octets) /\ off \in [0..n -> Nat]
    BY <1>0, <1>1, <1>2 DEF Stream
  <1>4. fl \in [0..n -> BOOLEAN]
    BY <1>0, <1>1, <1>2 DEF History
  <1>5. SentAs(m, c, fl[n], a, codec, client)
    BY <1>0, <1>1, <1>2 DEF SentAs
  <1>6. PICK G, u, h, gl, z :
           G = Append(F, c) /\ u = w \o x /\ h = More(off, n, z) /\ gl = More(fl, n, a) /\ z = Len(w) + Len(x) /\ z \in Nat
    <2>1. x \in Seq(Octets)
      BY <1>0 DEF OnWire, Layout
    <2>2. Len(w) + Len(x) \in Nat
      BY <1>0, <1>3, <2>1
    <2> QED BY <1>0, <2>2, Zenon
  <1>7. Stream(G, u, h) /\ Extends(u, w, x) /\ x \in Seq(Octets) /\ Len(x) > 0
    <2>1. /\ Stream(Append(F, c), w \o x, More(off, n, Len(w) + Len(x)))
          /\ Extends(w \o x, w, x) /\ x \in Seq(Octets) /\ Len(x) > 0
      BY <1>0, <1>1, <1>2, StreamGrows
    <2> QED BY <1>0, <1>6, <2>1, Zenon
  <1>8. History(G, Append(acc, m), gl, codec, client)
    <2>1. History(Append(F, c), Append(acc, m), More(fl, n, a), codec, client)
      BY <1>0, <1>1, <1>2, <1>3, <1>5, HistoryGrows
    <2> QED BY <1>0, <1>6, <2>1, Zenon
  <1>9. Grown(h, off, n, z, Nat) /\ Grown(gl, fl, n, a, BOOLEAN)
    <2>1. Grown(More(off, n, z), off, n, z, Nat)
      BY <1>0, <1>3, <1>6, MoreFacts
    <2>2. Grown(More(fl, n, a), fl, n, a, BOOLEAN)
      BY <1>0, <1>4, MoreFacts
    <2> QED BY <1>0, <1>6, <2>1, <2>2, Zenon
  <1>10. u \in Seq(Octets)
    BY <1>0, <1>7 DEF Stream
  <1>11. Reaches(u, h, n + 1, k, f, by \o x, bu)
    <2>1. Reaches(w, off, n, k, f, by, bu)
      BY <1>0, <1>1, <1>2
    <2> QED BY <1>0, <1>1, <1>2, <1>6, <1>7, <1>9, <1>10, <2>1, ReachesOn
  <1>12. Len(Append(acc, m)) = n + 1
    <2>1. Len(Append(acc, m)) = Len(acc) + 1
      BY <1>0, AppendProperties
    <2> QED BY <1>0, <1>2, <2>1
  <1>13. PICK co2 : co2 = [co EXCEPT !.w = a] /\ co2.w = a /\ co2.r = co.r
    <2>1. PICK co2 : co2 = [co EXCEPT !.w = a]
      BY <1>0
    <2>2. co2.w = a /\ co2.r = co.r
      BY <1>0, <2>1
    <2> QED BY <1>0, <2>1, <2>2
  <1>14. codec => co2.w = gl[n + 1] /\ co2.r = gl[k]
    <2>1. k \in 0..n
      BY <1>0, <1>2
    <2>2. gl[n + 1] = a /\ gl[k] = fl[k]
      BY <1>0, <1>9, <2>1 DEF Grown
    <2> QED BY <1>0, <1>1, <1>2, <1>13, <2>2
  <1>15. Flows(Append(acc, m), co2, by \o x, bu, fr, codec, client)
    <2>1. PICK bcc, bz, n1 : bcc = Append(acc, m) /\ bz = by \o x /\ n1 = n + 1
      BY <1>0
    <2>0. k = Len(fr) /\ f \in Nat
      BY <1>0, <1>1, <1>2
    <2>2. /\ History(G, bcc, gl, codec, client) /\ Reaches(u, h, Len(bcc), Len(fr), f, bz, bu)
          /\ codec => co2.w = gl[Len(bcc)] /\ co2.r = gl[Len(fr)]
      BY <1>0, <1>8, <1>11, <1>12, <1>14, <2>0, <2>1, Zenon
    <2>3. Flows(bcc, co2, bz, bu, fr, codec, client)
      BY <1>0, <1>7, <2>0, <2>2, Zenon DEF Flows
    <2> QED BY <1>0, <2>1, <2>3, Zenon
  <1> QED BY <1>0, <1>13, <1>15, Zenon

LEMMA AnswersOn ==
  ASSUME NEW acc \in Seq(WsMessages \cup WsFrames), NEW fr \in Seq(WsMessages), NEW fa, Answers(fr, acc, fa), NEW m \in WsMessages \cup WsFrames
  PROVE  Answers(fr, Append(acc, m), fa)
  <1>1. PICK n \in Nat, k \in Nat : n = Len(acc) /\ k = Len(fr)
    OBVIOUS
  <1>2. PICK bcc : bcc = Append(acc, m) /\ Len(bcc) = n + 1 /\ \A i \in 1..n : bcc[i] = acc[i]
    <2>1. Len(Append(acc, m)) = n + 1 /\ \A i \in 1..n : Append(acc, m)[i] = acc[i]
      BY <1>1, AppendProperties
    <2> QED BY <2>1, Zenon
  <1>3. /\ k <= n /\ \A i \in 1..k : fr[i] = Seen(acc[i])
        /\ fa # "none" => k < n /\ TooLong(acc[k + 1])
    BY <1>1 DEF Answers
  <1>4. \A i \in 1..k : fr[i] = Seen(bcc[i])
    <2> TAKE i \in 1..k
    <2>1. i \in 1..n
      BY <1>3
    <2>2. bcc[i] = acc[i] /\ fr[i] = Seen(acc[i])
      BY <1>2, <1>3, <2>1
    <2> QED BY <2>2
  <1>5. fa # "none" => k < n + 1 /\ TooLong(bcc[k + 1])
    <2> SUFFICES ASSUME fa # "none"
                 PROVE  k < n + 1 /\ TooLong(bcc[k + 1])
      OBVIOUS
    <2>1. k + 1 \in 1..n /\ k < n + 1
      BY <1>3
    <2>2. bcc[k + 1] = acc[k + 1] /\ TooLong(acc[k + 1])
      BY <1>2, <1>3, <2>1
    <2> QED BY <2>1, <2>2
  <1>6. Answers(fr, bcc, fa)
    BY <1>1, <1>2, <1>3, <1>4, <1>5 DEF Answers
  <1> QED BY <1>2, <1>6, Zenon

\* The bytes src of the next frame have arrived, and p is what the parser makes of them.
Arrives(w, off, F, last, k, f, by, src, p, client) ==
  /\ k < last /\ off[k] < f /\ f <= off[k + 1] /\ f <= Len(w) /\ by = Stretch(w, f, Len(w)) /\ src = Stretch(w, off[k], f)
  /\ src \in Seq(Octets) /\ Len(src) = f - off[k] /\ Parsed(p, src, off[k + 1] - off[k], F[k + 1], client)

LEMMA ByteArrives ==
  ASSUME NEW F, NEW w, NEW off, Stream(F, w, off), NEW n \in Nat, n = Len(F), NEW k \in Nat, NEW f \in Nat,
         NEW by, NEW bu, by # <<>>, Reaches(w, off, n, k, f, by, bu), NEW client \in BOOLEAN, NEW start \in Alignments
  PROVE  Arrives(w, off, F, n, k, f + 1, Tail(by), Append(bu, Head(by)), Parse(Append(bu, Head(by)), client, start), client)
  <1>1. /\ w \in Seq(Octets) /\ off \in [0..n -> Nat] /\ off[n] = Len(w)
        /\ k <= n /\ off[k] <= f /\ f <= Len(w) /\ by = Stretch(w, f, Len(w)) /\ bu = Stretch(w, off[k], f)
        /\ k < n => f < off[k + 1]
    BY DEF Stream, Reaches
  <1>2. PICK b \in Nat, o \in Nat : b = Len(w) /\ o = off[k] /\ o <= f /\ f <= b
    <2>1. k \in 0..n
      BY <1>1
    <2> QED BY <1>1, <2>1
  <1>3. by \in Seq(Octets) /\ Len(by) = b - f /\ \A i \in 1..(b - f) : by[i] = w[f + i]
    <2>1. Stretch(w, f, b) \in Seq(Octets) /\ Stretches(Stretch(w, f, b), w, f, b)
      BY <1>1, <1>2, StretchFacts
    <2> QED BY <1>1, <1>2, <2>1 DEF Stretches
  <1>4. f < b
    BY <1>2, <1>3
  <1>5. k < n
    <2>1. k = n => b <= f
      BY <1>1, <1>2
    <2> QED BY <1>1, <1>4, <2>1
  <1>6. Head(by) = w[f + 1]
    <2>1. 1 \in 1..(b - f)
      BY <1>2, <1>4
    <2> QED BY <1>3, <2>1
  <1>0. PICK g \in Nat : g = f + 1
    OBVIOUS
  <1>7. Tail(by) = Stretch(w, g, b)
    <2>1. PICK t : t = Tail(by)
      OBVIOUS
    <2>2. PICK z \in Nat : z = b - g /\ b - f = z + 1
      <3>1. b - g \in Nat /\ b - f = (b - g) + 1
        BY <1>0, <1>2, <1>4
      <3> QED BY <3>1
    <2>3. t \in Seq(Octets) /\ Len(t) = z /\ \A i \in 1..z : t[i] = by[i + 1]
      <3>1. by # <<>> /\ Len(by) = z + 1
        BY <1>3, <2>2
      <3>2. Tail(by) \in Seq(Octets) /\ Len(Tail(by)) = Len(by) - 1 /\ \A i \in 1..(Len(by) - 1) : Tail(by)[i] = by[i + 1]
        BY <1>3, <3>1
      <3>3. Len(by) - 1 = z
        BY <2>2, <3>1
      <3> QED BY <2>1, <3>2, <3>3, Zenon
    <2>4. \A i \in 1..z : i + 1 \in 1..(b - f) /\ f + (i + 1) = g + i
      BY <1>0, <1>2, <2>2
    <2>5. \A i \in 1..z : t[i] = w[g + i]
      BY <1>3, <2>3, <2>4, ZenonT(60)
    <2>6. Stretches(t, w, g, b)
      BY <2>2, <2>3, <2>5 DEF Stretches
    <2>7. t = Stretch(w, g, b)
      BY <2>3, <2>6, SameStretch
    <2> QED BY <2>1, <2>7
  <1>8. PICK src, l : /\ src = Append(bu, Head(by)) /\ l \in Nat /\ l = g - o /\ src = Stretch(w, o, g) /\ src \in Seq(Octets) /\ Len(src) = l
                      /\ \A i \in 1..l : src[i] = w[o + i]
    <2>1. bu \in Seq(Octets) /\ Stretches(bu, w, o, f)
      <3>1. Stretch(w, o, f) \in Seq(Octets) /\ Stretches(Stretch(w, o, f), w, o, f)
        BY <1>1, <1>2, StretchFacts
      <3> QED BY <1>1, <1>2, <3>1
    <2>2. PICK l \in Nat, e \in Nat : l = g - o /\ e = f - o /\ l = e + 1 /\ o + l = f + 1
      <3>1. g - o \in Nat /\ f - o \in Nat /\ g - o = (f - o) + 1 /\ o + (g - o) = f + 1
        BY <1>0, <1>2
      <3> QED BY <3>1
    <2>3. Len(bu) = e /\ \A i \in 1..e : bu[i] = w[o + i]
      BY <2>1, <2>2 DEF Stretches
    <2>4. Head(by) \in Octets
      BY <1>1, <1>2, <1>4, <1>6
    <2>5. PICK src : src = Append(bu, Head(by)) /\ src \in Seq(Octets) /\ Len(src) = l /\ src[l] = Head(by) /\ \A i \in 1..e : src[i] = bu[i]
      <3>1. PICK y : y = Head(by)
        OBVIOUS
      <3>2. /\ Append(bu, y) \in Seq(Octets) /\ Len(Append(bu, y)) = e + 1 /\ Append(bu, y)[e + 1] = y
            /\ \A i \in 1..e : Append(bu, y)[i] = bu[i]
        BY <2>1, <2>3, <2>4, <3>1, AppendProperties
      <3> QED BY <2>2, <3>1, <3>2
    <2>6. \A i \in 1..l : src[i] = w[o + i]
      <3> TAKE i \in 1..l
      <3>1. CASE i = l
        BY <1>6, <2>2, <2>5, <3>1
      <3>2. CASE i # l
        <4>1. i \in 1..e
          BY <2>2, <3>2
        <4> QED BY <2>3, <2>5, <4>1
      <3> QED BY <3>1, <3>2
    <2>7. Stretches(src, w, o, g)
      BY <2>2, <2>5, <2>6 DEF Stretches
    <2>8. src = Stretch(w, o, g)
      <3>1. src \in Seq(Octets)
        BY <2>5
      <3> QED BY <2>7, <3>1, SameStretch
    <2> QED BY <2>2, <2>5, <2>6, <2>8, Zenon
  <1>9. PICK i \in Nat, e \in Nat : i = k + 1 /\ i \in 1..n /\ i - 1 = k /\ e = off[i] /\ f + 1 <= e /\ e <= b
    <2>1. k + 1 \in 1..n /\ k + 1 \in 0..n /\ (k + 1) - 1 = k
      BY <1>5
    <2>2. off[k + 1] \in Nat /\ off[k + 1] <= b
      BY <1>1, <1>2, <2>1 DEF Stream
    <2>3. f + 1 <= off[k + 1]
      BY <1>1, <1>5, <2>2
    <2> QED BY <2>1, <2>2, <2>3
  <1>10. PICK x : x = Stretch(w, o, e) /\ OnWire(x, F[i])
    <2>1. OnWire(Stretch(w, off[i - 1], off[i]), F[i])
      BY <1>9 DEF Stream
    <2> QED BY <1>2, <1>9, <2>1
  <1>11. x \in Seq(Octets) /\ Len(x) = e - o /\ \A j \in 1..(e - o) : x[j] = w[o + j]
    <2>1. o <= e
      BY <1>2, <1>9
    <2>2. Stretch(w, o, e) \in Seq(Octets) /\ Stretches(Stretch(w, o, e), w, o, e)
      BY <1>1, <1>2, <1>9, <2>1, StretchFacts
    <2> QED BY <1>10, <2>2 DEF Stretches
  <1>12. Agrees(src, x)
    <2>1. l <= e - o
      <3>1. l = g - o /\ g <= e
        BY <1>0, <1>8, <1>9
      <3> QED BY <1>2, <3>1
    <2>2. \A j \in 1..l : j \in 1..(e - o)
      <3>1. l \in Nat /\ e - o \in Int
        BY <1>2, <1>8
      <3> QED BY <2>1, <3>1
    <2>3. \A j \in 1..l : x[j] = src[j]
      BY <1>8, <1>11, <2>2
    <2> QED BY <1>8, <1>11, <2>1, <2>3 DEF Agrees, Begins
  <1>13. PICK p : p = Parse(src, client, start) /\ Parsed(p, src, Len(x), F[i], client)
    <2>1. PICK code, wide, key, r : code \in Nat /\ wide \in Nat /\ Layout(x, F[i], code, wide, key, r)
      BY <1>10 DEF OnWire
    <2>2. Parsed(Parse(src, client, start), src, Len(x), F[i], client)
      BY <1>12, <2>1, FrameParsed
    <2> QED BY <2>2, Zenon
  <1>14. Parsed(p, src, off[k + 1] - off[k], F[k + 1], client)
    <2>1. Len(x) = off[k + 1] - off[k]
      BY <1>2, <1>9, <1>11
    <2> QED BY <1>9, <1>13, <2>1, Zenon
  <1>15. PICK t : t = Tail(by)
    OBVIOUS
  <1>16. /\ k < n /\ off[k] < g /\ g <= off[k + 1] /\ g <= Len(w) /\ t = Stretch(w, g, Len(w)) /\ src = Stretch(w, off[k], g)
         /\ src \in Seq(Octets) /\ Len(src) = g - off[k]
    <2>1. o < g /\ g <= e /\ g <= b /\ Len(src) = g - o
      BY <1>0, <1>2, <1>8, <1>9
    <2>2. off[k] = o /\ off[k + 1] = e /\ Len(w) = b
      BY <1>2, <1>9
    <2>3. t = Stretch(w, g, b) /\ src = Stretch(w, o, g) /\ src \in Seq(Octets)
      BY <1>7, <1>8, <1>15
    <2> QED BY <1>5, <2>1, <2>2, <2>3, Zenon
  <1>17. Arrives(w, off, F, n, k, g, t, src, p, client)
    BY <1>14, <1>16, Zenon DEF Arrives
  <1> QED BY <1>0, <1>8, <1>13, <1>15, <1>17, Zenon

LEMMA Waits ==
  ASSUME NEW F, NEW w, NEW off, Stream(F, w, off), NEW n \in Nat, n = Len(F), NEW k \in Nat, NEW f \in Nat, NEW by, NEW src, NEW p,
         NEW client, Arrives(w, off, F, n, k, f, by, src, p, client)
  PROVE  /\ Len(src) < off[k + 1] - off[k] => Reaches(w, off, n, k, f, by, src)
         /\ Len(src) = off[k + 1] - off[k] => Reaches(w, off, n, k + 1, f, by, SubSeq(src, Len(src) + 1, Len(src)))
  <1>1. /\ k < n /\ off[k] < f /\ f <= off[k + 1] /\ f <= Len(w) /\ by = Stretch(w, f, Len(w)) /\ src = Stretch(w, off[k], f)
        /\ src \in Seq(Octets) /\ Len(src) = f - off[k]
    BY DEF Arrives
  <1>2. w \in Seq(Octets) /\ off \in [0..n -> Nat]
    BY DEF Stream
  <1>3. PICK i \in Nat : i = k + 1 /\ i \in 1..n /\ i \in 0..n /\ k \in 0..n
    BY <1>1
  <1>4. PICK a \in Nat, b \in Nat : a = off[k] /\ b = off[i] /\ a < f /\ f <= b /\ Len(src) = f - a
    BY <1>1, <1>2, <1>3
  <1>5. ASSUME Len(src) < off[k + 1] - off[k]
        PROVE  Reaches(w, off, n, k, f, by, src)
    <2>1. f < b
      BY <1>3, <1>4, <1>5
    <2>2. k <= n /\ off[k] <= f
      BY <1>1, <1>4
    <2> QED BY <1>1, <1>3, <1>4, <2>1, <2>2 DEF Reaches
  <1>6. ASSUME Len(src) = off[k + 1] - off[k]
        PROVE  Reaches(w, off, n, k + 1, f, by, SubSeq(src, Len(src) + 1, Len(src)))
    <2>1. f = b
      <3>1. off[k + 1] = b /\ off[k] = a
        BY <1>3, <1>4
      <3>2. f - a = b - a
        BY <1>4, <1>6, <3>1
      <3> QED BY <1>4, <3>2
    <2>2. PICK rest : rest = SubSeq(src, Len(src) + 1, Len(src)) /\ rest = Stretch(w, f, f)
      <3>1. PICK l \in Nat : l = f - a /\ l \in 0..(f - a) /\ a + l = f /\ Len(src) = l
        <4>1. f - a \in Nat /\ f - a \in 0..(f - a) /\ a + (f - a) = f
          BY <1>4
        <4> QED BY <1>4, <4>1
      <3>2. src = Stretch(w, a, f) /\ a <= f /\ f <= Len(w)
        BY <1>1, <1>4
      <3>3. SubSeq(src, l + 1, Len(src)) = Stretch(w, a + l, f)
        BY <1>2, <3>1, <3>2, StretchCut
      <3> QED BY <3>1, <3>3
    <2>3. i < n => f < off[i + 1]
      <3> SUFFICES ASSUME i < n
                   PROVE  f < off[i + 1]
        OBVIOUS
      <3>1. i + 1 \in 1..n /\ (i + 1) - 1 = i
        BY <1>3
      <3>2. off[(i + 1) - 1] < off[i + 1]
        BY <3>1 DEF Stream
      <3> QED BY <1>4, <2>1, <3>1, <3>2
    <2>4. i <= n /\ off[i] <= f /\ rest = Stretch(w, off[i], f)
      <3>1. off[i] = f
        BY <1>4, <2>1
      <3>2. i <= n
        BY <1>3
      <3>3. off[i] <= f
        BY <1>4, <3>1
      <3>4. rest = Stretch(w, off[i], f)
        BY <2>2, <3>1
      <3> QED BY <3>2, <3>3, <3>4
    <2>5. Reaches(w, off, n, i, f, by, rest)
      BY <1>1, <2>3, <2>4 DEF Reaches
    <2> QED BY <1>3, <2>2, <2>5, Zenon
  <1> QED BY <1>5, <1>6

Typed(acc, co, fr, codec, client) ==
  /\ acc \in Seq(WsMessages \cup WsFrames) /\ co \in [w : BOOLEAN, r : BOOLEAN] /\ fr \in Seq(WsMessages)
  /\ codec \in BOOLEAN /\ client \in BOOLEAN

\* Flows, once the next byte has come and p is the parser's result.
Incoming(F, w, off, fl, f, acc, co, by, src, fr, codec, client, p) ==
  /\ Typed(acc, co, fr, codec, client)
  /\ Stream(F, w, off) /\ History(F, acc, fl, codec, client)
  /\ codec => co.w = fl[Len(acc)] /\ co.r = fl[Len(fr)]
  /\ f \in Nat /\ Arrives(w, off, F, Len(acc), Len(fr), f, by, src, p, client)

Arriving(by, bu, client, start, src, p) ==
  by # <<>> /\ start \in Alignments /\ src = Append(bu, Head(by)) /\ p = Parse(src, client, start)

LEMMA NextByte ==
  ASSUME NEW acc, NEW co, NEW by, NEW bu, NEW fr, NEW codec, NEW client, NEW start, NEW src, NEW p,
         Typed(acc, co, fr, codec, client), Flows(acc, co, by, bu, fr, codec, client), Arriving(by, bu, client, start, src, p)
  PROVE  \E F, w, off, fl, f : Incoming(F, w, off, fl, f, acc, co, Tail(by), src, fr, codec, client, p)
  <1>0. /\ acc \in Seq(WsMessages \cup WsFrames) /\ fr \in Seq(WsMessages) /\ client \in BOOLEAN
        /\ by # <<>> /\ start \in Alignments /\ src = Append(bu, Head(by)) /\ p = Parse(src, client, start)
    BY DEF Typed, Arriving
  <1>1. PICK F, w, off, fl, f :
           /\ Stream(F, w, off) /\ History(F, acc, fl, codec, client)
           /\ codec => co.w = fl[Len(acc)] /\ co.r = fl[Len(fr)]
           /\ f \in Nat /\ Reaches(w, off, Len(acc), Len(fr), f, by, bu)
    BY DEF Flows
  <1>2. PICK n \in Nat, k \in Nat : n = Len(acc) /\ k = Len(fr)
    BY <1>0
  <1>3. n = Len(F)
    BY <1>0, <1>1, <1>2 DEF History
  <1>4. Arrives(w, off, F, n, k, f + 1, Tail(by), Append(bu, Head(by)), Parse(Append(bu, Head(by)), client, start), client)
    <2>1. Reaches(w, off, n, k, f, by, bu)
      BY <1>0, <1>1, <1>2
    <2> QED BY <1>0, <1>1, <1>3, <2>1, ByteArrives
  <1>5. PICK g : g = f + 1 /\ g \in Nat
    BY <1>0, <1>1
  <1>6. Arrives(w, off, F, Len(acc), Len(fr), g, Tail(by), src, p, client)
    BY <1>0, <1>2, <1>4, <1>5, Zenon
  <1>7. Incoming(F, w, off, fl, g, acc, co, Tail(by), src, fr, codec, client, p)
    BY <1>1, <1>5, <1>6, Zenon DEF Incoming
  <1> QED BY <1>7, Zenon

\* What is known of the next frame.
LEMMA NextFrame ==
  ASSUME NEW F, NEW w, NEW off, NEW fl, NEW f, NEW acc, NEW co, NEW by, NEW src, NEW fr, NEW codec, NEW client, NEW p,
         Incoming(F, w, off, fl, f, acc, co, by, src, fr, codec, client, p)
  PROVE  \E n, k, c, a : /\ n \in Nat /\ k \in Nat /\ n = Len(acc) /\ k = Len(fr) /\ n = Len(F) /\ k < n /\ c = F[k + 1] /\ a = fl[k + 1] /\ c \in WsFrames
                         /\ codec => EncodedAs(acc[k + 1], c, co.r, a, client)
                         /\ Parsed(p, src, off[k + 1] - off[k], c, client)
  <1>0. /\ acc \in Seq(WsMessages \cup WsFrames) /\ co \in [w : BOOLEAN, r : BOOLEAN] /\ fr \in Seq(WsMessages)
        /\ codec \in BOOLEAN /\ client \in BOOLEAN
    BY DEF Incoming, Typed
  <1>1. Stream(F, w, off) /\ History(F, acc, fl, codec, client) /\ Arrives(w, off, F, Len(acc), Len(fr), f, by, src, p, client)
        /\ (codec => co.r = fl[Len(fr)])
    BY DEF Incoming
  <1>2. PICK n \in Nat, k \in Nat : n = Len(acc) /\ k = Len(fr)
    BY <1>0
  <1>3. n = Len(F) /\ k < n /\ Parsed(p, src, off[k + 1] - off[k], F[k + 1], client)
    BY <1>0, <1>1, <1>2 DEF History, Arrives
  <1>4. PICK i \in 1..n : i = k + 1 /\ i - 1 = k
    BY <1>0, <1>3
  <1>5. F[i] \in WsFrames
    <2>1. F \in Seq(WsFrames)
      BY <1>0, <1>1 DEF Stream
    <2> QED BY <1>0, <1>3, <2>1
  <1>6. SentAs(acc[i], F[i], fl[i - 1], fl[i], codec, client)
    BY <1>0, <1>1, <1>2 DEF History
  <1>7. codec => EncodedAs(acc[i], F[i], co.r, fl[i], client)
    BY <1>0, <1>1, <1>2, <1>4, <1>6 DEF SentAs
  <1> QED BY <1>0, <1>2, <1>3, <1>4, <1>5, <1>7

LEMMA StillFlows ==
  ASSUME NEW F, NEW w, NEW off, NEW fl, NEW f, NEW acc, NEW co, NEW by, NEW src, NEW fr, NEW codec, NEW client, NEW p,
         Incoming(F, w, off, fl, f, acc, co, by, src, fr, codec, client, p), p.tag = "more"
  PROVE  Flows(acc, co, by, src, fr, codec, client)
  <1>0. /\ acc \in Seq(WsMessages \cup WsFrames) /\ co \in [w : BOOLEAN, r : BOOLEAN] /\ fr \in Seq(WsMessages)
        /\ codec \in BOOLEAN /\ client \in BOOLEAN
    BY DEF Incoming, Typed
  <1>1. /\ Stream(F, w, off) /\ History(F, acc, fl, codec, client)
        /\ codec => co.w = fl[Len(acc)] /\ co.r = fl[Len(fr)]
        /\ f \in Nat /\ Arrives(w, off, F, Len(acc), Len(fr), f, by, src, p, client)
    BY DEF Incoming
  <1>2. PICK n, k, c : n \in Nat /\ k \in Nat /\ n = Len(acc) /\ k = Len(fr) /\ n = Len(F) /\ Parsed(p, src, off[k + 1] - off[k], c, client)
    BY <1>0, NextFrame
  <1>3. Len(src) < off[k + 1] - off[k]
    BY <1>0, <1>2 DEF Parsed
  <1>4. Reaches(w, off, n, k, f, by, src)
    <2>1. Arrives(w, off, F, n, k, f, by, src, p, client)
      BY <1>0, <1>1, <1>2
    <2> QED BY <1>0, <1>1, <1>2, <1>3, <2>1, Waits
  <1>5. Reaches(w, off, Len(acc), Len(fr), f, by, src)
    BY <1>2, <1>4, Zenon
  <1> QED BY <1>1, <1>5, Zenon DEF Flows

LEMMA Refused ==
  ASSUME NEW F, NEW w, NEW off, NEW fl, NEW f, NEW acc, NEW co, NEW by, NEW src, NEW fr, NEW codec, NEW client, NEW p,
         Incoming(F, w, off, fl, f, acc, co, by, src, fr, codec, client, p), p.tag = "error"
  PROVE  p.error # "none" /\ (codec => Len(fr) < Len(acc) /\ TooLong(acc[Len(fr) + 1]))
  <1>0. /\ acc \in Seq(WsMessages \cup WsFrames) /\ co \in [w : BOOLEAN, r : BOOLEAN] /\ fr \in Seq(WsMessages)
        /\ codec \in BOOLEAN /\ client \in BOOLEAN
    BY DEF Incoming, Typed
  <1>1. PICK n, k, c, a : /\ n \in Nat /\ k \in Nat /\ n = Len(acc) /\ k = Len(fr) /\ n = Len(F) /\ k < n /\ a = fl[k + 1] /\ c \in WsFrames
                          /\ codec => EncodedAs(acc[k + 1], c, co.r, a, client)
                          /\ Parsed(p, src, off[k + 1] - off[k], c, client)
    BY <1>0, NextFrame
  <1>2. p.error # "none" /\ (c.masked = client /\ c.op # "Bad" => LongFrame(c))
    BY <1>0, <1>1 DEF Parsed
  <1>3. ASSUME codec
        PROVE  TooLong(acc[k + 1])
    <2>1. PICK m : m = acc[k + 1] /\ EncodedAs(m, c, co.r, a, client)
      BY <1>0, <1>1, <1>3
    <2>2. c.masked = client /\ m.msg \in Kinds /\ Encode(m.msg, co.r) = Goes(c.op, c.fin, a) /\ co.r \in BOOLEAN
      BY <1>0, <2>1 DEF EncodedAs, WsMessages, Kinds
    <2>3. c.op # "Bad"
      <3>1. PICK e : e = Encode(m.msg, co.r) /\ EncodesAs(m.msg, co.r, e) /\ e = Goes(c.op, c.fin, a)
        BY <1>0, <2>2, EncodeFacts
      <3>2. e.tag = "frame" /\ e.op = c.op
        BY <1>0, <3>1 DEF Goes
      <3> QED BY <1>0, <3>1, <3>2 DEF EncodesAs, Goes
    <2>4. LongFrame(c)
      BY <1>0, <1>2, <2>2, <2>3
    <2>5. PICK q : q.op = c.op /\ q.fin = (Stripped(c) \/ c.fin) /\ q.pl = (IF Stripped(c) THEN <<>> ELSE c.pl)
      <3>1. PICK q : q = [op |-> c.op, fin |-> (Stripped(c) \/ c.fin), pl |-> IF Stripped(c) THEN <<>> ELSE c.pl]
        BY <1>0
      <3>2. q.op = c.op /\ q.fin = (Stripped(c) \/ c.fin) /\ q.pl = (IF Stripped(c) THEN <<>> ELSE c.pl)
        BY <3>1, Zenon
      <3> QED BY <3>2, Zenon
    <2>6. LongFrame(c) => TooLong(m)
      BY <1>0, <2>1, <2>5, SeenAgain
    <2> QED BY <1>0, <2>1, <2>4, <2>6
  <1> QED BY <1>0, <1>1, <1>2, <1>3

\* A frame is decoded: its message, if the codec takes it.
Faithful(r, p, m, codec) == codec => r.tag = "message" /\ Delivered(r, p) = Seen(m)

Result(r, acc, co, by, src, fr, codec, client, p) ==
  /\ Len(fr) < Len(acc) /\ ClassifiedAs(r, co.r) /\ Faithful(r, p, acc[Len(fr) + 1], codec)
  /\ r.tag = "message" =>
       /\ Delivered(r, p) \in WsMessages
       /\ Flows(acc, [co EXCEPT !.r = r.cont], by, SubSeq(src, p.used + 1, Len(src)), Append(fr, Delivered(r, p)), codec, client)

LEMMA FrameDecoded ==
  ASSUME NEW F, NEW w, NEW off, NEW fl, NEW f, NEW acc, NEW co, NEW by, NEW src, NEW fr, NEW codec, NEW client, NEW p,
         Incoming(F, w, off, fl, f, acc, co, by, src, fr, codec, client, p), p.tag = "frame"
  PROVE  Result(Classify(p, co.r), acc, co, by, src, fr, codec, client, p)
  <1> DEFINE r == Classify(p, co.r)
  <1>0. /\ acc \in Seq(WsMessages \cup WsFrames) /\ co \in [w : BOOLEAN, r : BOOLEAN] /\ fr \in Seq(WsMessages)
        /\ codec \in BOOLEAN /\ client \in BOOLEAN
    BY DEF Incoming, Typed
  <1>1. /\ Stream(F, w, off) /\ History(F, acc, fl, codec, client)
        /\ codec => co.w = fl[Len(acc)] /\ co.r = fl[Len(fr)]
        /\ f \in Nat /\ Arrives(w, off, F, Len(acc), Len(fr), f, by, src, p, client)
    BY DEF Incoming
  <1>2. PICK n, k, c, a : /\ n \in Nat /\ k \in Nat /\ n = Len(acc) /\ k = Len(fr) /\ n = Len(F) /\ k < n /\ a = fl[k + 1] /\ c \in WsFrames
                          /\ codec => EncodedAs(acc[k + 1], c, co.r, a, client)
                          /\ Parsed(p, src, off[k + 1] - off[k], c, client)
    BY <1>0, NextFrame
  <1>3. /\ Len(src) = off[k + 1] - off[k] /\ p.used = off[k + 1] - off[k] /\ c.op # "Bad" /\ p.op = c.op
        /\ p.fin = (Stripped(c) \/ c.fin) /\ p.pl = (IF Stripped(c) THEN <<>> ELSE c.pl)
    BY <1>0, <1>2 DEF Parsed
  <1>4. p.op \in OpCodes /\ p.fin \in BOOLEAN /\ p.pl \in Seq(WsBytes)
    <2>1. c.op \in OpCodes \cup {"Bad"} /\ c.fin \in BOOLEAN /\ c.pl \in Seq(WsBytes)
      BY <1>0, <1>2 DEF WsFrames
    <2>2. Stripped(c) \in BOOLEAN
      BY <1>0 DEF Stripped
    <2> QED BY <1>0, <1>3, <2>1, <2>2
  <1>5. ClassifiedAs(r, co.r)
    <2>1. co.r \in BOOLEAN
      BY <1>0
    <2> QED BY <1>0, <1>4, <2>1, Classified
  <1>6. codec => r.tag = "message" /\ r.cont = a /\ Delivered(r, p) = Seen(acc[k + 1])
    <2> SUFFICES ASSUME codec
                 PROVE  r.tag = "message" /\ r.cont = a /\ Delivered(r, p) = Seen(acc[k + 1])
      BY <1>0
    <2>1. PICK m : m = acc[k + 1] /\ EncodedAs(m, c, co.r, a, client)
      BY <1>0, <1>2
    <2>2. r.tag = "message" /\ r.cont = a /\ Delivered(r, p) = Seen(m)
      BY <1>0, <1>3, <2>1, SeenAgain
    <2> QED BY <2>1, <2>2, Zenon
  <1>7. ASSUME r.tag = "message"
        PROVE  Delivered(r, p) \in WsMessages
    <2>1. r.msg \in Kinds
      BY <1>0, <1>5, <1>7 DEF ClassifiedAs
    <2>2. CloseReason(p.pl) \in Seq(WsBytes)
      BY <1>0, <1>4 DEF CloseReason
    <2> QED BY <1>0, <1>4, <2>1, <2>2 DEF Delivered, WsMessages, Kinds
  <1>8. ASSUME r.tag = "message"
        PROVE  Flows(acc, [co EXCEPT !.r = r.cont], by, SubSeq(src, p.used + 1, Len(src)), Append(fr, Delivered(r, p)), codec, client)
    <2>1. PICK rest, gr, co2 : rest = SubSeq(src, p.used + 1, Len(src)) /\ gr = Append(fr, Delivered(r, p)) /\ co2 = [co EXCEPT !.r = r.cont]
      BY <1>0
    <2>2. Len(gr) = k + 1
      <3>1. Len(Append(fr, Delivered(r, p))) = Len(fr) + 1
        BY <1>0, <1>7, <1>8, AppendProperties
      <3> QED BY <1>0, <1>2, <2>1, <3>1
    <2>3. co2.w = co.w /\ co2.r = r.cont
      BY <1>0, <2>1
    <2>4. Reaches(w, off, n, k + 1, f, by, rest)
      <3>1. Arrives(w, off, F, n, k, f, by, src, p, client)
        BY <1>0, <1>1, <1>2
      <3>2. Reaches(w, off, n, k + 1, f, by, SubSeq(src, Len(src) + 1, Len(src)))
        BY <1>0, <1>1, <1>2, <1>3, <3>1, Waits
      <3>3. rest = SubSeq(src, Len(src) + 1, Len(src))
        BY <1>0, <1>3, <2>1
      <3> QED BY <3>2, <3>3, Zenon
    <2>5. Reaches(w, off, Len(acc), Len(gr), f, by, rest)
      BY <1>2, <2>2, <2>4, Zenon
    <2>6. codec => co2.w = fl[Len(acc)] /\ co2.r = fl[Len(gr)]
      BY <1>0, <1>1, <1>2, <1>6, <2>2, <2>3
    <2>7. Flows(acc, co2, by, rest, gr, codec, client)
      BY <1>1, <2>5, <2>6, Zenon DEF Flows
    <2> QED BY <2>1, <2>7, Zenon
  <1>9. Faithful(r, p, acc[Len(fr) + 1], codec)
    BY <1>0, <1>2, <1>6 DEF Faithful
  <1>10. Len(fr) < Len(acc)
    BY <1>0, <1>2
  <1> QED BY <1>5, <1>7, <1>8, <1>9, <1>10, Zenon DEF Result

LEMMA AnswersNext ==
  ASSUME NEW acc \in Seq(WsMessages \cup WsFrames), NEW fr \in Seq(WsMessages), NEW fa, Answers(fr, acc, fa), Len(fr) < Len(acc),
         NEW h \in WsMessages, h = Seen(acc[Len(fr) + 1])
  PROVE  Answers(Append(fr, h), acc, "none")
  <1>1. PICK n \in Nat, k \in Nat : n = Len(acc) /\ k = Len(fr) /\ k < n
    OBVIOUS
  <1>2. PICK g : g = Append(fr, h) /\ Len(g) = k + 1 /\ g[k + 1] = h /\ \A i \in 1..k : g[i] = fr[i]
    <2>1. Len(Append(fr, h)) = k + 1 /\ Append(fr, h)[k + 1] = h /\ \A i \in 1..k : Append(fr, h)[i] = fr[i]
      BY <1>1, AppendProperties
    <2> QED BY <2>1, Zenon
  <1>3. \A i \in 1..(k + 1) : g[i] = Seen(acc[i])
    <2> TAKE i \in 1..(k + 1)
    <2>1. CASE i = k + 1
      BY <1>1, <1>2, <2>1
    <2>2. CASE i # k + 1
      <3>1. i \in 1..k
        BY <2>2
      <3>2. fr[i] = Seen(acc[i])
        BY <1>1, <3>1 DEF Answers
      <3> QED BY <1>2, <3>1, <3>2
    <2> QED BY <2>1, <2>2
  <1>4. k + 1 <= n
    BY <1>1
  <1>5. Answers(g, acc, "none")
    BY <1>1, <1>2, <1>3, <1>4 DEF Answers
  <1> QED BY <1>2, <1>5, Zenon

-----------------------------------------------------------------------------
(* The invariant. *)

LEMMA NoFlow ==
  ASSUME NEW codec \in BOOLEAN, NEW client \in BOOLEAN
  PROVE  Flows(<<>>, [w |-> FALSE, r |-> FALSE], <<>>, <<>>, <<>>, codec, client)
  <1>1. PICK e : e = <<>> /\ Len(e) = 0 /\ e \in Seq(Octets) /\ e \in Seq(WsFrames) /\ Len(e) \in Nat
    <2>1. Len(<<>>) = 0 /\ <<>> \in Seq(Octets) /\ <<>> \in Seq(WsFrames) /\ Len(<<>>) \in Nat
      OBVIOUS
    <2> QED BY <2>1, Zenon
  <1>2. PICK off, fl, co : off = [i \in 0..0 |-> 0] /\ fl = [i \in 0..0 |-> FALSE] /\ co = [w |-> FALSE, r |-> FALSE]
    OBVIOUS
  <1>3. 0 \in 0..0 /\ off \in [0..0 -> Nat] /\ off[0] = 0 /\ fl \in [0..0 -> BOOLEAN] /\ fl[0] = FALSE /\ co.w = FALSE /\ co.r = FALSE
    BY <1>2
  <1>4. 1..0 = {}
    OBVIOUS
  <1>5. Stream(e, e, off)
    BY <1>1, <1>3, <1>4 DEF Stream
  <1>6. History(e, e, fl, codec, client)
    BY <1>1, <1>3, <1>4 DEF History
  <1>7. Reaches(e, off, 0, 0, 0, e, e)
    <2>1. Stretch(e, 0, 0) = e
      BY <1>1, StretchWhole
    <2> QED BY <1>1, <1>3, <2>1 DEF Reaches
  <1>8. Flows(e, co, e, e, e, codec, client)
    <2>1. Reaches(e, off, Len(e), Len(e), 0, e, e) /\ 0 \in Nat
      BY <1>1, <1>7
    <2>2. codec => co.w = fl[Len(e)] /\ co.r = fl[Len(e)]
      BY <1>1, <1>3
    <2> QED BY <1>5, <1>6, <2>1, <2>2, Zenon DEF Flows
  <1> QED BY <1>1, <1>2, <1>8, Zenon

LEMMA EmptyNests == Nested(<<>>) /\ OpenAt(<<>>, Len(<<>>) + 1) = FALSE
  <1>1. 1..0 = {} /\ Len(<<>>) = 0 /\ 1..(1 - 1) = {}
    OBVIOUS
  <1>2. Nested(<<>>)
    BY <1>1 DEF Nested
  <1>3. OpenAt(<<>>, 1) = FALSE
    BY <1>1 DEF OpenAt
  <1> QED BY <1>1, <1>2, <1>3

LEMMA WsStarts ==
  ASSUME WsInit
  PROVE  WsInv
  <1>1. /\ link = NoLink /\ unsent = <<>> /\ accepted = <<>> /\ bytes = <<>> /\ buffer = <<>> /\ frames = <<>>
        /\ cont = [w |-> FALSE, r |-> FALSE] /\ failed = "none"
    BY DEF WsInit
  <1>2. accepted \in Seq(WsMessages \cup WsFrames) /\ frames \in Seq(WsMessages) /\ cont \in [w : BOOLEAN, r : BOOLEAN] /\ cont.r = FALSE
    BY <1>1
  <1>3. Nested(frames) /\ cont.r = OpenAt(frames, Len(frames) + 1)
    BY <1>1, <1>2, EmptyNests
  <1> QED BY <1>1, <1>2, <1>3 DEF WsInv, WsOK

LEMMA ScriptIsSent ==
  ASSUME NEW s \in WsScripts
  PROVE  /\ "msg" \in DOMAIN s[1] => s \in Seq(GoodMessages)
         /\ "msg" \notin DOMAIN s[1] => s \in Seq(GoodFrames)
  <1>1. s # <<>> /\ (s \in Seq(WsMessages) \/ s \in Seq(WsFrames)) /\ \A k \in 1..Len(s) : Fits(Len(s[k].pl), 8)
    BY WsScriptsAssumption
  <1>2. 1 \in 1..Len(s)
    BY <1>1
  <1>3. CASE s \in Seq(WsMessages)
    <2>1. \A k \in 1..Len(s) : s[k] \in GoodMessages
      BY <1>1, <1>3 DEF GoodMessages
    <2>2. s \in Seq(GoodMessages)
      BY <1>3, <2>1
    <2>3. s[1] \in WsMessages
      BY <1>2, <1>3
    <2>4. "msg" \in DOMAIN s[1]
      BY <2>3 DEF WsMessages
    <2> QED BY <2>2, <2>4
  <1>4. CASE s \in Seq(WsFrames)
    <2>1. \A k \in 1..Len(s) : s[k] \in GoodFrames
      BY <1>1, <1>4 DEF GoodFrames
    <2>2. s \in Seq(GoodFrames)
      BY <1>4, <2>1
    <2>3. s[1] \in WsFrames
      BY <1>2, <1>4
    <2>4. "msg" \notin DOMAIN s[1]
      BY <2>3 DEF WsFrames
    <2> QED BY <2>2, <2>4
  <1> QED BY <1>1, <1>3, <1>4

Linked(li, s, client) == li = [open |-> TRUE, codec |-> "msg" \in DOMAIN s[1], client |-> client, script |-> s]

LEMMA HandshakeStep ==
  ASSUME WsInv, Handshake
  PROVE  WsInv'
  <1>1. link = NoLink /\ UNCHANGED <<accepted, cont, bytes, buffer, frames>>
    BY DEF Handshake
  <1>2. /\ accepted \in Seq(WsMessages \cup WsFrames) /\ frames \in Seq(WsMessages) /\ cont \in [w : BOOLEAN, r : BOOLEAN]
        /\ Nested(frames) /\ cont.r = OpenAt(frames, Len(frames) + 1)
        /\ unsent = <<>> /\ accepted = <<>> /\ cont = [w |-> FALSE, r |-> FALSE] /\ bytes = <<>> /\ buffer = <<>> /\ frames = <<>>
    BY <1>1 DEF WsInv, WsOK
  <1>3. PICK req \in WsRequests :
          \/ UNCHANGED <<link, unsent>>
          \/ \E s \in WsScripts, client \in BOOLEAN : Linked(link', s, client) /\ unsent' = s /\ UNCHANGED failed
    BY DEF Handshake, Linked
  <1>4. CASE UNCHANGED <<link, unsent>>
    <2>1. WsOK(link', unsent', accepted', cont', bytes', buffer', frames', failed')
      BY <1>1, <1>2, <1>4 DEF WsOK
    <2> QED BY <2>1 DEF WsInv
  <1>5. ASSUME NEW s \in WsScripts, NEW client \in BOOLEAN, Linked(link', s, client), unsent' = s, UNCHANGED failed
        PROVE  WsInv'
    <2>1. PICK li, codec : li = link' /\ codec = ("msg" \in DOMAIN s[1]) /\ codec \in BOOLEAN
      <3>1. ("msg" \in DOMAIN s[1]) \in BOOLEAN
        BY SMT
      <3> QED BY <3>1, Zenon
    <2>2. li = [open |-> TRUE, codec |-> codec, client |-> client, script |-> s]
      BY <1>5, <2>1, Zenon DEF Linked
    <2>3. li \in Links /\ li # NoLink /\ li.codec = codec /\ li.client = client
      BY <2>1, <2>2 DEF Links, NoLink
    <2>4. (codec => s \in Seq(GoodMessages)) /\ (~codec => s \in Seq(GoodFrames))
      BY <2>1, ScriptIsSent
    <2>5. PICK co : co = cont /\ co = [w |-> FALSE, r |-> FALSE]
      BY <1>2
    <2>6. Flows(accepted, co, bytes, buffer, frames, codec, client)
      <3>1. Flows(<<>>, [w |-> FALSE, r |-> FALSE], <<>>, <<>>, <<>>, codec, client)
        BY <2>1, NoFlow
      <3> QED BY <1>2, <2>5, <3>1, Zenon
    <2>7. failed' = "none" => Answers(frames, accepted, "none")
      BY <1>2 DEF Answers
    <2>8. failed' = "none"
      <3>1. failed = "none"
        BY DEF Handshake
      <3> QED BY <1>5, <3>1
    <2>9. WsOK(li, s, accepted, cont, bytes, buffer, frames, failed')
      BY <1>2, <2>3, <2>4, <2>5, <2>6, <2>7, <2>8 DEF WsOK
    <2>10. WsOK(link', unsent', accepted', cont', bytes', buffer', frames', failed')
      BY <1>1, <1>5, <2>1, <2>9, Zenon
    <2> QED BY <2>10 DEF WsInv
  <1> QED BY <1>3, <1>4, <1>5

LEMMA NextUnsent ==
  ASSUME NEW A, NEW un \in Seq(A), un # <<>>
  PROVE  Head(un) \in A /\ Tail(un) \in Seq(A)
  OBVIOUS

\* The frame that message m becomes, and whether there is one.
Coding(m, e, mask, li, flag) ==
  /\ e = (IF li.codec THEN Encode(m.msg, flag) ELSE Goes(m.op, m.fin, flag))
  /\ mask = (IF li.codec THEN li.client ELSE m.masked)

LEMMA CodedFrame ==
  ASSUME NEW li \in Links, NEW flag \in BOOLEAN, NEW m, NEW e, NEW mask, Coding(m, e, mask, li, flag),
         (IF li.codec THEN m \in GoodMessages ELSE m \in GoodFrames), e.tag = "frame"
  PROVE  \E c \in WsFrames : /\ c = [fin |-> e.fin, op |-> e.op, masked |-> mask, pl |-> m.pl] /\ Fits(Len(c.pl), 8)
                             /\ m \in WsMessages \cup WsFrames /\ e.cont \in BOOLEAN
                             /\ SentAs(m, c, flag, e.cont, li.codec, li.client)
  <1>1. PICK c : c = [fin |-> e.fin, op |-> e.op, masked |-> mask, pl |-> m.pl]
    OBVIOUS
  <1>2. c.fin = e.fin /\ c.op = e.op /\ c.masked = mask /\ c.pl = m.pl
    BY <1>1
  <1>3. li.client \in BOOLEAN /\ li.codec \in BOOLEAN
    BY DEF Links
  <1>4. CASE li.codec
    <2>1. m \in WsMessages /\ Fits(Len(m.pl), 8) /\ e = Encode(m.msg, flag) /\ mask = li.client
      BY <1>4 DEF GoodMessages, Coding
    <2>2. m.msg \in Kinds /\ m.pl \in Seq(WsBytes)
      BY <2>1 DEF WsMessages, Kinds
    <2>3. EncodesAs(m.msg, flag, e)
      BY <2>1, <2>2, EncodeFacts
    <2>4. e = Goes(e.op, e.fin, e.cont) /\ e.op \in OpCodes /\ e.fin \in BOOLEAN /\ e.cont \in BOOLEAN
      <3>1. CASE m.msg \in {"Text", "Binary", "Ping", "Pong", "Close"} /\ e = Goes(m.msg, TRUE, flag)
        BY <3>1 DEF Goes, OpCodes
      <3>2. CASE e = Goes("Binary", FALSE, TRUE)
        BY <3>2 DEF Goes, OpCodes
      <3>3. CASE e = Goes("Text", FALSE, TRUE)
        BY <3>3 DEF Goes, OpCodes
      <3>4. CASE e = Goes("Continue", FALSE, TRUE)
        BY <3>4 DEF Goes, OpCodes
      <3>5. CASE e = Goes("Continue", TRUE, FALSE)
        BY <3>5 DEF Goes, OpCodes
      <3> QED BY <2>3, <3>1, <3>2, <3>3, <3>4, <3>5 DEF EncodesAs
    <2>5. c \in WsFrames
      BY <1>1, <1>3, <2>1, <2>2, <2>4 DEF WsFrames
    <2>6. Encode(m.msg, flag) = Goes(c.op, c.fin, e.cont)
      BY <1>2, <2>1, <2>4, Zenon
    <2>7. EncodedAs(m, c, flag, e.cont, li.client)
      BY <1>2, <2>1, <2>4, <2>5, <2>6 DEF EncodedAs
    <2>8. SentAs(m, c, flag, e.cont, li.codec, li.client)
      BY <1>4, <2>7 DEF SentAs
    <2>9. Fits(Len(c.pl), 8)
      BY <1>2, <2>1
    <2> QED BY <1>1, <2>1, <2>4, <2>5, <2>8, <2>9
  <1>5. CASE ~li.codec
    <2>1. m \in WsFrames /\ Fits(Len(m.pl), 8) /\ e = Goes(m.op, m.fin, flag) /\ mask = m.masked
      BY <1>5 DEF GoodFrames, Coding
    <2>2. e.op = m.op /\ e.fin = m.fin /\ e.cont = flag
      BY <2>1 DEF Goes
    <2>3. c = [fin |-> m.fin, op |-> m.op, masked |-> m.masked, pl |-> m.pl]
      BY <1>1, <2>1, <2>2
    <2>4. c = m
      BY <2>1, <2>3 DEF WsFrames
    <2>5. SentAs(m, c, flag, e.cont, li.codec, li.client)
      BY <1>5, <2>4 DEF SentAs
    <2> QED BY <1>1, <2>1, <2>2, <2>4, <2>5
  <1> QED BY <1>3, <1>4, <1>5

LEMMA SendStep ==
  ASSUME WsInv, Send
  PROVE  WsInv'
  <1>1. unsent # <<>> /\ unsent' = Tail(unsent) /\ UNCHANGED <<link, buffer, frames, failed>>
    BY DEF Send
  <1>2. /\ accepted \in Seq(WsMessages \cup WsFrames) /\ frames \in Seq(WsMessages) /\ cont \in [w : BOOLEAN, r : BOOLEAN]
        /\ Nested(frames) /\ cont.r = OpenAt(frames, Len(frames) + 1) /\ link # NoLink
        /\ link \in Links /\ (link.codec => unsent \in Seq(GoodMessages)) /\ (~link.codec => unsent \in Seq(GoodFrames))
        /\ failed = "none" => Flows(accepted, cont, bytes, buffer, frames, link.codec, link.client)
        /\ link.codec => Answers(frames, accepted, failed)
    BY <1>1 DEF WsInv, WsOK
  <1>3. (link.codec => Tail(unsent) \in Seq(GoodMessages)) /\ (~link.codec => Tail(unsent) \in Seq(GoodFrames))
    BY <1>1, <1>2, NextUnsent
  <1>4. PICK key, start, m, e, mask :
          /\ key \in WsMasks /\ start \in Alignments /\ m = Head(unsent) /\ Coding(m, e, mask, link, cont.w)
          /\ \/ /\ e.tag = "frame" /\ bytes' = bytes \o WriteMessage(m.pl, e.op, e.fin, mask, key, start)
                /\ cont' = [cont EXCEPT !.w = e.cont] /\ accepted' = Append(accepted, m)
             \/ UNCHANGED <<bytes, cont, accepted>>
    <2>1. PICK key \in WsMasks, start \in Alignments : 
             LET m == Head(unsent)
                 e == IF link.codec THEN Encode(m.msg, cont.w) ELSE Goes(m.op, m.fin, cont.w)
                 mask == IF link.codec THEN link.client ELSE m.masked
             IN  CASE e.tag = "frame" ->
                        /\ bytes' = bytes \o WriteMessage(m.pl, e.op, e.fin, mask, key, start)
                        /\ cont' = [cont EXCEPT !.w = e.cont]
                        /\ accepted' = Append(accepted, m)
                   [] e.tag \in {"error", "nothing"} -> UNCHANGED <<bytes, cont, accepted>>
      BY Zenon DEF Send
    <2>2. PICK m, e, mask : m = Head(unsent) /\ Coding(m, e, mask, link, cont.w)
      BY DEF Coding
    <2>3. (CASE e.tag = "frame" ->
                  /\ bytes' = bytes \o WriteMessage(m.pl, e.op, e.fin, mask, key, start)
                  /\ cont' = [cont EXCEPT !.w = e.cont]
                  /\ accepted' = Append(accepted, m)
             [] e.tag \in {"error", "nothing"} -> UNCHANGED <<bytes, cont, accepted>>)
      BY <2>1, <2>2, Zenon DEF Coding
    <2>4. e.tag \in {"frame", "error", "nothing"}
      <3>1. CASE link.codec
        <4>1. m \in GoodMessages
          BY <1>1, <1>2, <2>2, <3>1, NextUnsent
        <4>2. m.msg \in Kinds /\ cont.w \in BOOLEAN
          BY <1>2, <4>1 DEF GoodMessages, WsMessages, Kinds
        <4>3. EncodesAs(m.msg, cont.w, e)
          BY <2>2, <3>1, <4>2, EncodeFacts DEF Coding
        <4> QED BY <4>3 DEF EncodesAs, Goes
      <3>2. CASE ~link.codec
        BY <2>2, <3>2 DEF Coding, Goes
      <3> QED BY <3>1, <3>2
    <2>5. CASE e.tag = "frame"
      <3>1. /\ bytes' = bytes \o WriteMessage(m.pl, e.op, e.fin, mask, key, start)
            /\ cont' = [cont EXCEPT !.w = e.cont] /\ accepted' = Append(accepted, m)
        BY <2>3, <2>5, Zenon
      <3> QED BY <2>2, <2>5, <3>1, Zenon
    <2>6. CASE e.tag # "frame"
      <3>1. e.tag \in {"error", "nothing"}
        BY <2>4, <2>6
      <3>2. UNCHANGED <<bytes, cont, accepted>>
        BY <2>3, <2>6, <3>1, Zenon
      <3> QED BY <2>2, <3>2, Zenon
    <2> QED BY <2>5, <2>6
  <1>5. CASE UNCHANGED <<bytes, cont, accepted>>
    <2>1. WsOK(link', unsent', accepted', cont', bytes', buffer', frames', failed')
      BY <1>1, <1>2, <1>3, <1>5 DEF WsOK
    <2> QED BY <2>1 DEF WsInv
  <1>6. CASE /\ e.tag = "frame" /\ bytes' = bytes \o WriteMessage(m.pl, e.op, e.fin, mask, key, start)
             /\ cont' = [cont EXCEPT !.w = e.cont] /\ accepted' = Append(accepted, m)
    <2>1. cont.w \in BOOLEAN /\ link.codec \in BOOLEAN /\ link.client \in BOOLEAN
      BY <1>2 DEF Links
    <2>2. IF link.codec THEN m \in GoodMessages ELSE m \in GoodFrames
      BY <1>1, <1>2, <1>4, NextUnsent
    <2>3. PICK c \in WsFrames : /\ c = [fin |-> e.fin, op |-> e.op, masked |-> mask, pl |-> m.pl] /\ Fits(Len(c.pl), 8)
                                /\ m \in WsMessages \cup WsFrames /\ e.cont \in BOOLEAN
                                /\ SentAs(m, c, cont.w, e.cont, link.codec, link.client)
      BY <1>2, <1>4, <1>6, <2>1, <2>2, CodedFrame
    <2>4. PICK x : x = WriteMessage(m.pl, e.op, e.fin, mask, key, start)
      OBVIOUS
    <2>5. x = WriteMessage(c.pl, c.op, c.fin, c.masked, key, start)
      <3>1. c.fin = e.fin /\ c.op = e.op /\ c.masked = mask /\ c.pl = m.pl
        BY <2>3
      <3> QED BY <2>4, <3>1, Zenon
    <2>6. OnWire(x, c)
      <3>1. key \in Keys
        BY <1>4, WsMasksAssumption DEF Keys
      <3>2. \E code, wide, r : code \in Nat /\ wide \in Nat /\ Layout(x, c, code, wide, key, r)
        BY <1>4, <2>3, <2>5, <3>1, WrittenFrame
      <3> QED BY <3>2 DEF OnWire
    <2>7. PICK acc, co, by : acc = Append(accepted, m) /\ co = [cont EXCEPT !.w = e.cont] /\ by = bytes \o x
      OBVIOUS
    <2>8. acc = accepted' /\ co = cont' /\ by = bytes'
      BY <1>6, <2>4, <2>7, Zenon
    <2>9. acc \in Seq(WsMessages \cup WsFrames) /\ co \in [w : BOOLEAN, r : BOOLEAN] /\ co.r = cont.r
      <3>1. acc \in Seq(WsMessages \cup WsFrames)
        BY <1>2, <2>3, <2>7, AppendProperties
      <3>2. e.cont \in BOOLEAN /\ cont \in [w : BOOLEAN, r : BOOLEAN]
        BY <1>2, <2>3
      <3>3. co \in [w : BOOLEAN, r : BOOLEAN] /\ co.r = cont.r
        BY <2>7, <3>2
      <3> QED BY <3>1, <3>3
    <2>10. failed = "none" => Flows(acc, co, by, buffer, frames, link.codec, link.client)
      <3> SUFFICES ASSUME failed = "none"
                   PROVE  Flows(acc, co, by, buffer, frames, link.codec, link.client)
        OBVIOUS
      <3>1. Flows(accepted, cont, bytes, buffer, frames, link.codec, link.client)
        BY <1>2
      <3>2. Flows(Append(accepted, m), [cont EXCEPT !.w = e.cont], bytes \o x, buffer, frames, link.codec, link.client)
        <4>1. Sending(accepted, cont, bytes, buffer, frames, link.codec, link.client, m, c, e.cont, x)
          BY <1>2, <2>1, <2>3, <2>6, <3>1, Zenon DEF Sending
        <4> QED BY <4>1, FlowsGrow, Zenon
      <3> QED BY <2>7, <3>2, Zenon
    <2>11. link.codec => Answers(frames, acc, failed)
      <3> SUFFICES ASSUME link.codec
                   PROVE  Answers(frames, acc, failed)
        OBVIOUS
      <3>1. Answers(frames, Append(accepted, m), failed)
        BY <1>2, <2>3, AnswersOn
      <3> QED BY <2>7, <3>1, Zenon
    <2>12. WsOK(link, Tail(unsent), acc, co, by, buffer, frames, failed)
      BY <1>2, <1>3, <2>9, <2>10, <2>11 DEF WsOK
    <2>13. WsOK(link', unsent', accepted', cont', bytes', buffer', frames', failed')
      BY <1>1, <2>8, <2>12, Zenon
    <2> QED BY <2>13 DEF WsInv
  <1> QED BY <1>4, <1>5, <1>6

\* What the decoder does with the bytes src, as p says, and c of the frame if there is one.
Takes(src, p, c) ==
  \/ p.tag = "more" /\ buffer' = src /\ UNCHANGED <<cont, frames, failed>>
  \/ p.tag = "error" /\ failed' = p.error /\ UNCHANGED <<cont, buffer, frames>>
  \/ p.tag \notin {"more", "error"} /\ c.tag = "error" /\ failed' = c.error /\ UNCHANGED <<cont, buffer, frames>>
  \/ /\ p.tag \notin {"more", "error"} /\ c.tag # "error" /\ buffer' = SubSeq(src, p.used + 1, Len(src))
     /\ cont' = [cont EXCEPT !.r = c.cont] /\ frames' = Append(frames, Delivered(c, p)) /\ UNCHANGED failed

LEMMA ReceiveStep ==
  ASSUME WsInv, Receive
  PROVE  WsInv'
  <1>1. bytes # <<>> /\ failed = "none" /\ bytes' = Tail(bytes) /\ UNCHANGED <<link, unsent, accepted>>
    BY DEF Receive
  <1>2. /\ accepted \in Seq(WsMessages \cup WsFrames) /\ frames \in Seq(WsMessages) /\ cont \in [w : BOOLEAN, r : BOOLEAN]
        /\ Nested(frames) /\ cont.r = OpenAt(frames, Len(frames) + 1) /\ link # NoLink
        /\ link \in Links /\ (link.codec => unsent \in Seq(GoodMessages)) /\ (~link.codec => unsent \in Seq(GoodFrames))
        /\ Flows(accepted, cont, bytes, buffer, frames, link.codec, link.client)
        /\ link.codec => Answers(frames, accepted, failed)
    BY <1>1 DEF WsInv, WsOK
  <1>3. PICK start, src, p, c :
          /\ start \in Alignments /\ src = Append(buffer, Head(bytes)) /\ p = Parse(src, link.client, start) /\ c = Classify(p, cont.r) /\ Takes(src, p, c)
    <2>1. PICK start \in Alignments :
            LET src == Append(buffer, Head(bytes))
                p == Parse(src, link.client, start)
                c == Classify(p, cont.r)
            IN  IF p.tag = "more" THEN buffer' = src /\ UNCHANGED <<cont, frames, failed>>
                ELSE IF p.tag = "error" THEN /\ failed' = p.error
                                             /\ UNCHANGED <<cont, buffer, frames>>
                ELSE IF c.tag = "error" THEN /\ failed' = c.error
                                             /\ UNCHANGED <<cont, buffer, frames>>
                ELSE /\ buffer' = SubSeq(src, p.used + 1, Len(src))
                     /\ cont' = [cont EXCEPT !.r = c.cont]
                     /\ frames' = Append(frames, [msg |-> c.msg, pl |-> IF c.msg = "Close" THEN CloseReason(p.pl) ELSE p.pl])
                     /\ UNCHANGED failed
      BY Zenon DEF Receive
    <2>2. PICK src, p, c : src = Append(buffer, Head(bytes)) /\ p = Parse(src, link.client, start) /\ c = Classify(p, cont.r)
      OBVIOUS
    <2>3. IF p.tag = "more" THEN buffer' = src /\ UNCHANGED <<cont, frames, failed>>
          ELSE IF p.tag = "error" THEN failed' = p.error /\ UNCHANGED <<cont, buffer, frames>>
          ELSE IF c.tag = "error" THEN failed' = c.error /\ UNCHANGED <<cont, buffer, frames>>
          ELSE /\ buffer' = SubSeq(src, p.used + 1, Len(src))
               /\ cont' = [cont EXCEPT !.r = c.cont]
               /\ frames' = Append(frames, Delivered(c, p))
               /\ UNCHANGED failed
      BY <2>1, <2>2, Zenon DEF Delivered
    <2>4. Takes(src, p, c)
      BY <2>3 DEF Takes
    <2> QED BY <2>2, <2>4
  <1>4. PICK codec \in BOOLEAN, client \in BOOLEAN : codec = link.codec /\ client = link.client
    BY <1>2 DEF Links
  <1>5. PICK F, w, off, fl, f : Incoming(F, w, off, fl, f, accepted, cont, Tail(bytes), src, frames, codec, client, p)
    <2>1. Flows(accepted, cont, bytes, buffer, frames, codec, client) /\ Typed(accepted, cont, frames, codec, client)
      BY <1>2, <1>4 DEF Typed
    <2>2. Arriving(bytes, buffer, client, start, src, p)
      BY <1>1, <1>3, <1>4 DEF Arriving
    <2> QED BY <2>1, <2>2, NextByte, Zenon
  <1>6. CASE p.tag = "more" /\ buffer' = src /\ UNCHANGED <<cont, frames, failed>>
    <2>1. Flows(accepted, cont, Tail(bytes), src, frames, link.codec, link.client)
      BY <1>4, <1>5, <1>6, StillFlows, Zenon
    <2>2. WsOK(link, unsent, accepted, cont, Tail(bytes), src, frames, failed)
      BY <1>2, <2>1 DEF WsOK
    <2>3. WsOK(link', unsent', accepted', cont', bytes', buffer', frames', failed')
      BY <1>1, <1>6, <2>2, Zenon
    <2> QED BY <2>3 DEF WsInv
  <1>7. ASSUME NEW e, e # "none", failed' = e, UNCHANGED <<cont, buffer, frames>>,
               link.codec => Len(frames) < Len(accepted) /\ TooLong(accepted[Len(frames) + 1])
        PROVE  WsInv'
    <2>1. link.codec => Answers(frames, accepted, e)
      BY <1>2, <1>7 DEF Answers
    <2>2. WsOK(link, unsent, accepted, cont, Tail(bytes), buffer, frames, e)
      BY <1>2, <1>7, <2>1 DEF WsOK
    <2>3. WsOK(link', unsent', accepted', cont', bytes', buffer', frames', failed')
      BY <1>1, <1>7, <2>2, Zenon
    <2> QED BY <2>3 DEF WsInv
  <1>8. CASE p.tag = "error" /\ failed' = p.error /\ UNCHANGED <<cont, buffer, frames>>
    <2>1. p.error # "none" /\ (codec => Len(frames) < Len(accepted) /\ TooLong(accepted[Len(frames) + 1]))
      BY <1>5, <1>8, Refused, Zenon
    <2> QED BY <1>4, <1>7, <1>8, <2>1
  <1>9. ASSUME p.tag \notin {"more", "error"}
        PROVE  /\ Len(frames) < Len(accepted) /\ ClassifiedAs(c, cont.r) /\ Faithful(c, p, accepted[Len(frames) + 1], codec)
               /\ c.tag = "message" =>
                    /\ Delivered(c, p) \in WsMessages
                    /\ Flows(accepted, [cont EXCEPT !.r = c.cont], Tail(bytes), SubSeq(src, p.used + 1, Len(src)),
                             Append(frames, Delivered(c, p)), codec, client)
    <2>1. PICK k, d : Parsed(p, src, off[k + 1] - off[k], d, client)
      BY <1>5, NextFrame, ZenonT(120)
    <2>2. p.tag = "frame"
      BY <1>9, <2>1 DEF Parsed
    <2>3. Result(c, accepted, cont, Tail(bytes), src, frames, codec, client, p)
      BY <1>3, <1>5, <2>2, FrameDecoded, Zenon
    <2> QED BY <2>3, Zenon DEF Result
  <1>10. CASE p.tag \notin {"more", "error"} /\ c.tag = "error" /\ failed' = c.error /\ UNCHANGED <<cont, buffer, frames>>
    <2>1. c.error # "none"
      BY <1>9, <1>10 DEF ClassifiedAs
    <2>2. ~codec
      BY <1>9, <1>10 DEF Faithful
    <2> QED BY <1>4, <1>7, <1>10, <2>1, <2>2
  <1>11. CASE /\ p.tag \notin {"more", "error"} /\ c.tag # "error" /\ buffer' = SubSeq(src, p.used + 1, Len(src))
              /\ cont' = [cont EXCEPT !.r = c.cont] /\ frames' = Append(frames, Delivered(c, p)) /\ UNCHANGED failed
    <2>1. PICK h, g, co, rest : /\ h = Delivered(c, p) /\ g = Append(frames, h) /\ co = [cont EXCEPT !.r = c.cont]
                                /\ rest = SubSeq(src, p.used + 1, Len(src))
      OBVIOUS
    <2>2. /\ c.tag = "message" /\ c.msg \in Kinds /\ c.cont \in BOOLEAN
          /\ (c.msg \in Firsts => ~cont.r) /\ (c.msg \in {"Next", "Last"} => cont.r)
          /\ c.cont = (c.msg \in Firsts \/ (cont.r /\ c.msg # "Last"))
      BY <1>9, <1>11 DEF ClassifiedAs
    <2>3. h \in WsMessages /\ Flows(accepted, co, Tail(bytes), rest, g, codec, client)
      BY <1>9, <1>11, <2>1, <2>2, Zenon
    <2>4. h.msg = c.msg
      BY <2>1 DEF Delivered
    <2>5. g \in Seq(WsMessages)
      BY <1>2, <2>1, <2>3, AppendProperties
    <2>6. co \in [w : BOOLEAN, r : BOOLEAN] /\ co.r = c.cont
      BY <1>2, <2>1, <2>2
    <2>7. Nested(g) /\ co.r = OpenAt(g, Len(g) + 1)
      <3>1. PICK n \in Nat, b \in BOOLEAN : n = Len(frames) /\ b = cont.r /\ b = OpenAt(frames, n + 1)
        BY <1>2
      <3>2. (h.msg \in Firsts => ~b) /\ (h.msg \in {"Next", "Last"} => b)
        BY <2>2, <2>4, <3>1
      <3>3. Nested(g) /\ OpenAt(g, Len(g) + 1) = (h.msg \in Firsts \/ (b /\ h.msg # "Last"))
        <4>1. frames \in Seq(WsMessages) /\ Nested(frames) /\ n \in Nat /\ n = Len(frames) /\ h \in WsMessages /\ g = Append(frames, h)
          BY <1>2, <2>1, <2>3, <3>1
        <4>2. b \in BOOLEAN /\ b = OpenAt(frames, n + 1)
          BY <3>1
        <4> QED BY <3>2, <4>1, <4>2, NestNext, ZenonT(60)
      <3>4. co.r = (h.msg \in Firsts \/ (b /\ h.msg # "Last"))
        BY <2>2, <2>4, <2>6, <3>1
      <3> QED BY <3>3, <3>4
    <2>8. link.codec => Answers(g, accepted, failed)
      <3> SUFFICES ASSUME link.codec
                   PROVE  Answers(g, accepted, "none")
        BY <1>1
      <3>1. h = Seen(accepted[Len(frames) + 1]) /\ Len(frames) < Len(accepted)
        BY <1>4, <1>9, <1>11, <2>1 DEF Faithful
      <3>2. Answers(Append(frames, h), accepted, "none")
        BY <1>2, <2>3, <3>1, AnswersNext
      <3> QED BY <2>1, <3>2, Zenon
    <2>9. Flows(accepted, co, Tail(bytes), rest, g, link.codec, link.client)
      BY <1>4, <2>3
    <2>10. WsOK(link, unsent, accepted, co, Tail(bytes), rest, g, failed)
      BY <1>2, <2>5, <2>6, <2>7, <2>8, <2>9 DEF WsOK
    <2>11. WsOK(link', unsent', accepted', cont', bytes', buffer', frames', failed')
      <3>1. cont' = co /\ buffer' = rest /\ frames' = g /\ failed' = failed
        BY <1>11, <2>1, Zenon
      <3> QED BY <1>1, <2>10, <3>1, Zenon
    <2> QED BY <2>11 DEF WsInv
  <1> QED BY <1>3, <1>6, <1>8, <1>10, <1>11 DEF Takes

\* Between two of the crate's codecs the receiver sees the messages the sender's Codec::encode accepted, in
\* order and byte for byte, however long they are, however they are masked, aligned and cut, and fails
\* only at one that is too long; and fragments nest, whoever sends.
THEOREM FramesStayMessages == WsSpec => []FramesAreMessages
  <1>1. WsInit => WsInv
    BY WsStarts
  <1>2. WsInv /\ [WsNext]_ws => WsInv'
    <2> SUFFICES ASSUME WsInv, [WsNext]_ws
                 PROVE  WsInv'
      OBVIOUS
    <2>1. CASE Handshake
      BY <2>1, HandshakeStep
    <2>2. CASE Send
      BY <2>2, SendStep
    <2>3. CASE Receive
      BY <2>3, ReceiveStep
    <2>4. CASE UNCHANGED ws
      <3>1. WsOK(link', unsent', accepted', cont', bytes', buffer', frames', failed')
        BY <2>4, Zenon DEF WsInv, ws
      <3> QED BY <3>1 DEF WsInv
    <2> QED BY <2>1, <2>2, <2>3, <2>4 DEF WsNext
  <1>3. WsInv => FramesAreMessages
    <2> SUFFICES ASSUME WsInv
                 PROVE  FramesAreMessages
      OBVIOUS
    <2>1. FragmentsNest
      <3>1. Nested(frames)
        BY DEF WsInv, WsOK
      <3> QED BY <3>1, Zenon DEF FragmentsNest, Nested, OpenAt, OpensAt, Firsts
    <2>2. ASSUME link.open, link.codec
          PROVE  /\ Len(frames) <= Len(accepted)
                 /\ \A k \in 1..Len(frames) : frames[k] = Seen(accepted[k])
                 /\ bytes = <<>> /\ failed = "none" => Len(frames) = Len(accepted)
                 /\ failed # "none" => TooLong(accepted[Len(frames) + 1])
      <3>1. link # NoLink
        BY <2>2 DEF NoLink
      <3>2. Answers(frames, accepted, failed) /\ (failed = "none" => Flows(accepted, cont, bytes, buffer, frames, link.codec, link.client))
        BY <2>2, <3>1 DEF WsInv, WsOK
      <3>3. ASSUME bytes = <<>>, failed = "none"
            PROVE  Len(frames) = Len(accepted)
        <4>1. accepted \in Seq(WsMessages \cup WsFrames) /\ frames \in Seq(WsMessages)
          BY DEF WsInv, WsOK
        <4>2. PICK n \in Nat, k \in Nat : n = Len(accepted) /\ k = Len(frames)
          BY <4>1
        <4>3. PICK F, w, off, fl, f : Stream(F, w, off) /\ History(F, accepted, fl, link.codec, link.client) /\ f \in Nat /\ Reaches(w, off, n, k, f, bytes, buffer)
          BY <3>2, <3>3, <4>2 DEF Flows
        <4>4. /\ w \in Seq(Octets) /\ off \in [0..n -> Nat] /\ n = Len(F) /\ off[n] = Len(w) /\ k <= n /\ f <= Len(w)
              /\ bytes = Stretch(w, f, Len(w)) /\ (k < n => f < off[k + 1])
          BY <4>2, <4>3 DEF Stream, History, Reaches
        <4>5. f = Len(w)
          <5>1. PICK b \in Nat : b = Len(w) /\ f <= b
            BY <4>4
          <5>2. Stretches(Stretch(w, f, b), w, f, b)
            BY <4>3, <4>4, <5>1, StretchFacts
          <5>3. Len(bytes) = b - f
            BY <4>4, <5>1, <5>2 DEF Stretches
          <5> QED BY <3>3, <4>3, <5>1, <5>3
        <4>6. ~(k < n)
          <5> SUFFICES ASSUME k < n
                       PROVE  FALSE
            OBVIOUS
          <5>1. k + 1 \in 1..n /\ k + 1 \in 0..n
            BY <4>4
          <5>2. off[k + 1] <= Len(w)
            BY <4>3, <4>4, <5>1 DEF Stream
          <5>3. off[k + 1] \in Nat
            BY <4>4, <5>1
          <5> QED BY <4>3, <4>4, <4>5, <5>2, <5>3
        <4> QED BY <4>2, <4>4, <4>6
      <3> QED BY <3>2, <3>3 DEF Answers
    <2> QED BY <2>1, <2>2 DEF FramesAreMessages
  <1> QED BY <1>1, <1>2, <1>3, PTL DEF WsSpec
=============================================================================
