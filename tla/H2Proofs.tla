-------------------------------- MODULE H2Proofs --------------------------------
(***************************************************************************)
(* FlowsAreWhole of H2Connection for any finite set of requests, any       *)
(* bodies, any windows and any faults.                                     *)
(***************************************************************************)
EXTENDS H2Connection, FiniteSetTheorems, WellFoundedInduction, TLAPS

-----------------------------------------------------------------------------
(* Sums *)

\* Induction over the natural numbers, with a set in the place of a predicate: a number
\* that is not in S would be above a smallest such one.
LEMMA CountUp ==
  ASSUME NEW S, 0 \in S, \A n \in Nat : n \in S => n + 1 \in S
  PROVE  Nat \subseteq S
  <1> SUFFICES ASSUME NEW m \in Nat, m \notin S
               PROVE  FALSE
    OBVIOUS
  <1> DEFINE Missing == {k \in 0..m : k \notin S}
             Below == {0..k : k \in Missing}
             R == StrictSubsetOrdering(0..m)
  <1>1. IsWellFoundedOn(R, FiniteSubsetsOf(0..m))
    BY FS_StrictSubsetOrderingWellFounded
  <1>2. FiniteSubsetsOf(0..m) = SUBSET (0..m)
    <2>1. IsFiniteSet(0..m)
      BY FS_Interval
    <2> QED BY <2>1, FS_FiniteSubsetsOfFinite
  <1>3. Below \subseteq SUBSET (0..m)
    OBVIOUS
  <1>4. 0..m \in Below
    OBVIOUS
  <1> HIDE DEF R, Below
  <1>5. PICK x \in Below : \A y \in Below : <<y, x>> \notin R
    <2>1. IsWellFoundedOn(R, SUBSET (0..m)) /\ Below # {}
      BY <1>1, <1>2, <1>4
    <2> QED BY <2>1, <1>3, WFMin
  <1>6. PICK k \in Missing : x = 0..k
    BY <1>5 DEF Below
  <1>7. k - 1 \in Missing
    OBVIOUS
  <1>8. 0..(k - 1) \in Below
    BY <1>7 DEF Below
  <1>9. 0..(k - 1) \subseteq 0..k /\ 0..(k - 1) # 0..k
    <2>1. k \in Nat /\ k \in 0..k /\ k \notin 0..(k - 1)
      OBVIOUS
    <2> QED BY <2>1
  <1>10. <<0..(k - 1), 0..k>> \in R
    BY <1>9, <1>7, <1>3, <1>8, <1>6, <1>5 DEF R, StrictSubsetOrdering
  <1> QED BY <1>5, <1>6, <1>8, <1>10

\* f gives the bytes of the first chunks of body.
Sums(f, body) ==
  /\ f[0] = 0
  /\ \A n \in 1 .. Len(body) : f[n] = f[n - 1] + body[n]
  /\ f[Len(body)] = Total(body)

LEMMA SumsExist ==
  ASSUME NEW body \in Seq(Nat)
  PROVE  \E f : Sums(f, body)
  <1> DEFINE Body(f, n) == IF n = 0 THEN 0 ELSE f[n - 1] + body[n]
             Solves(f, m) == f = [n \in 0 .. m |-> Body(f, n)]
             Done == {m \in Nat : m <= Len(body) => \E f : Solves(f, m)}
  <1>1. 0 \in Done
    <2>1. Solves([n \in 0 .. 0 |-> 0], 0)
      OBVIOUS
    <2> QED BY <2>1
  <1>2. ASSUME NEW m \in Nat, m \in Done
        PROVE  m + 1 \in Done
    <2> SUFFICES ASSUME m + 1 <= Len(body)
                 PROVE  \E f : Solves(f, m + 1)
      OBVIOUS
    <2>1. PICK f : Solves(f, m)
      <3>1. m <= Len(body)
        OBVIOUS
      <3> HIDE DEF Solves
      <3> QED BY <1>2, <3>1
    <2>2. PICK last : last = f[m] + body[m + 1]
      OBVIOUS
    <2>3. PICK g : g = [n \in 0 .. m + 1 |-> IF n = m + 1 THEN last ELSE f[n]]
      OBVIOUS
    <2>4. \A n \in 0 .. m : g[n] = f[n]
      BY <2>3
    <2>5. ASSUME NEW n \in 0 .. m + 1
          PROVE  g[n] = Body(g, n)
      <3>1. CASE n = m + 1
        <4>1. g[n] = last /\ n - 1 = m /\ g[n - 1] = f[m]
          BY <2>3, <2>4, <3>1
        <4> QED BY <2>2, <3>1, <4>1
      <3>2. CASE n # m + 1
        <4>1. n \in 0 .. m /\ g[n] = f[n] /\ (n # 0 => g[n - 1] = f[n - 1])
          BY <2>4, <3>2
        <4>2. f[n] = Body(f, n)
          BY <2>1, <4>1
        <4>3. CASE n = 0
          BY <4>1, <4>2, <4>3
        <4>4. CASE n # 0
          <5>1. g[n - 1] = f[n - 1]
            BY <4>1, <4>4
          <5> QED BY <4>1, <4>2, <4>4, <5>1
        <4> QED BY <4>3, <4>4
      <3> QED BY <3>1, <3>2
    <2>6. g = [n \in 0 .. m + 1 |-> g[n]]
      BY <2>3
    <2> QED BY <2>5, <2>6
  <1>3. Len(body) \in Done
    <2> HIDE DEF Done
    <2>1. Nat \subseteq Done
      BY <1>1, <1>2, CountUp
    <2> QED BY <2>1
  <1>4. \E f : Solves(f, Len(body))
    BY <1>3
  <1> DEFINE T == CHOOSE f : Solves(f, Len(body))
  <1>5. Solves(T, Len(body))
    <2> HIDE DEF Solves
    <2> QED BY <1>4
  <1>6. Total(body) = T[Len(body)]
    BY DEF Total
  <1>7. \A n \in 0 .. Len(body) : T[n] = Body(T, n)
    <2>1. PICK f : f = T
      OBVIOUS
    <2>2. Solves(f, Len(body))
      BY <1>5, <2>1
    <2>3. \A n \in 0 .. Len(body) : f[n] = Body(f, n)
      BY <2>2
    <2> QED BY <2>1, <2>3
  <1> HIDE DEF T
  <1>8. T[0] = 0 /\ \A n \in 1 .. Len(body) : T[n] = T[n - 1] + body[n]
    BY <1>7
  <1> QED BY <1>6, <1>8 DEF Sums

(***************************************************************************)
(* The invariant.  A flow that is being sent has sent, or holds in its     *)
(* buffer, the chunks that are not to do any more; it is idle, whole or    *)
(* reset as the tasks at its two ends have it.                             *)
(***************************************************************************)
FlowRecords ==
  [st: {"idle", "sending", "ended", "reset"}, todo: Seq(Nat), some: BOOLEAN, buf: Nat, want: Int, cap: Nat,
   inc: BOOLEAN, sent: Nat, got: Nat]
Flows == [Directions -> FlowRecords]
Clients == {"new", "sends", "awaits", "reads", "done", "failed"}
Servers == {"none", "opened", "call", "respond", "over"}
H2Types ==
  /\ plan \in [H2Requests -> Plans] /\ client \in [H2Requests -> Clients] /\ server \in [H2Requests -> Servers]
  /\ flow \in [H2Requests -> Flows]

Carries(f, body) ==
  \E sum : /\ Sums(sum, body)
           /\ \E k \in 0 .. Len(body) : f.todo = SubSeq(body, k + 1, Len(body)) /\ f.sent + f.buf = sum[k]

FlowOK(f, body, whole) ==
  /\ f.got <= f.sent
  /\ ~f.some => f.buf = 0
  /\ f.st = "idle" => f = NewFlow
  /\ f.st = "sending" => Carries(f, body)
  /\ f.st = "ended" => f.sent = whole

Whole(s) == IF IsEof(s) THEN 0 ELSE Total(ResponseBody(s))

\* A stream, as its client c, its server v and its flows have it.
Stream(s, c, v, fs) ==
  /\ FlowOK(fs.up, plan[s].up, Total(plan[s].up)) /\ FlowOK(fs.down, ResponseBody(s), Whole(s))
  /\ c = "new" => fs.up.st = "idle" /\ v = "none"
  /\ c = "sends" => fs.up.st \in {"sending", "reset"}
  /\ fs.up.st = "ended" => ~plan[s].broken
  /\ v \in {"none", "opened", "call"} => fs.down.st \in {"idle", "reset"}
  /\ v = "respond" => fs.down.st \in {"sending", "reset"} /\ ~IsEof(s)
  /\ c = "done" => fs.down.st = "ended" /\ fs.down.got = fs.down.sent

H2Inv ==
  /\ H2Types
  /\ \A s \in H2Requests : Stream(s, client[s], server[s], flow[s])
  /\ plan = Unplanned => \A s \in H2Requests : client[s] = "new"

-----------------------------------------------------------------------------
(* Flows *)

LEMMA FlowFields ==
  ASSUME NEW f \in FlowRecords
  PROVE  /\ f.st \in {"idle", "sending", "ended", "reset"} /\ f.todo \in Seq(Nat) /\ f.some \in BOOLEAN
         /\ f.buf \in Nat /\ f.want \in Int /\ f.cap \in Nat /\ f.inc \in BOOLEAN /\ f.sent \in Nat /\ f.got \in Nat
  BY DEF FlowRecords

LEMMA Windows ==
  /\ ChunkSize \in Nat /\ StreamWindow \in Nat /\ ConnWindow \in Nat
  BY H2WindowsAssumption

LEMMA LeastFacts ==
  ASSUME NEW a \in Int, NEW b \in Int
  PROVE  /\ Least(a, b) \in Int /\ Least(a, b) <= a /\ Least(a, b) <= b
         /\ a \in Nat /\ b \in Nat => Least(a, b) \in Nat
  BY DEF Least

\* The chunks from one on: the first of them, and the rest.
LEMMA SuffixFacts ==
  ASSUME NEW body \in Seq(Nat), NEW k \in 0 .. Len(body)
  PROVE  LET rest == SubSeq(body, k + 1, Len(body))
         IN  /\ rest \in Seq(Nat)
             /\ rest = << >> => k = Len(body)
             /\ rest # << >> => /\ k + 1 \in 1 .. Len(body) /\ Head(rest) = body[k + 1]
                                /\ Tail(rest) = SubSeq(body, k + 2, Len(body))
  <1>1. PICK n \in Nat : n = Len(body) /\ k \in Nat /\ k <= n /\ \A i \in 1 .. n : body[i] \in Nat
    OBVIOUS
  <1>2. PICK rest : rest = SubSeq(body, k + 1, n)
    OBVIOUS
  <1>3. rest = [i \in 1 .. n - k |-> body[k + i]]
    <2>1. rest = [i \in 1 .. n - (k + 1) + 1 |-> body[k + 1 + i - 1]]
      BY <1>2
    <2>2. n - (k + 1) + 1 = n - k /\ \A i \in 1 .. n - k : k + 1 + i - 1 = k + i
      BY <1>1
    <2> QED BY <2>1, <2>2
  <1>4. rest \in Seq(Nat) /\ Len(rest) = n - k
    <2>1. n - k \in Nat /\ \A i \in 1 .. n - k : body[k + i] \in Nat
      BY <1>1
    <2> QED BY <1>3, <2>1
  <1>5. rest = << >> => k = n
    BY <1>1, <1>4
  <1>6. ASSUME rest # << >>
        PROVE  k + 1 \in 1 .. n /\ Head(rest) = body[k + 1] /\ Tail(rest) = SubSeq(body, k + 2, n)
    <2>1. Len(rest) # 0
      BY <1>4, <1>6
    <2>2. k + 1 \in 1 .. n /\ 1 \in 1 .. n - k
      BY <1>1, <1>4, <2>1
    <2>3. Head(rest) = body[k + 1]
      <3>1. Head(rest) = rest[1]
        BY <1>4, <1>6
      <3> QED BY <1>3, <2>2, <3>1
    <2>4. PICK u, v : u = Tail(rest) /\ v = SubSeq(body, k + 2, n)
      OBVIOUS
    <2>5. PICK m \in Nat : m = n - k - 1 /\ Len(rest) = m + 1 /\ m + 1 = n - k
      <3>1. n - k - 1 \in Nat /\ (n - k - 1) + 1 = n - k
        BY <1>1, <2>2
      <3> QED BY <1>4, <3>1
    <2>6. u \in Seq(Nat) /\ Len(u) = m /\ \A i \in 1 .. m : u[i] = rest[i + 1]
      BY <1>4, <1>6, <2>4, <2>5
    <2>7. v = [i \in 1 .. m |-> body[k + (i + 1)]]
      <3>1. v = [i \in 1 .. n - (k + 2) + 1 |-> body[k + 2 + i - 1]]
        BY <2>4
      <3>2. n - (k + 2) + 1 = m /\ \A i \in 1 .. m : k + 2 + i - 1 = k + (i + 1)
        BY <1>1, <2>5
      <3> QED BY <3>1, <3>2
    <2>8. \A i \in 1 .. m : rest[i + 1] = body[k + (i + 1)]
      <3>1. \A i \in 1 .. m : i + 1 \in 1 .. n - k
        BY <2>5
      <3> QED BY <1>3, <3>1
    <2>9. u = v
      <3>1. u = [i \in 1 .. m |-> u[i]]
        BY <2>6
      <3> QED BY <2>6, <2>7, <2>8, <3>1
    <2> QED BY <2>2, <2>3, <2>4, <2>9
  <1> QED BY <1>1, <1>2, <1>4, <1>5, <1>6

LEMMA WholeBody ==
  ASSUME NEW body \in Seq(Nat)
  PROVE  SubSeq(body, 1, Len(body)) = body
  <1>1. PICK part : part = SubSeq(body, 1, Len(body))
    OBVIOUS
  <1>2. part = [i \in 1 .. Len(body) - 1 + 1 |-> body[1 + i - 1]]
    BY <1>1
  <1>3. Len(body) - 1 + 1 = Len(body) /\ \A i \in 1 .. Len(body) : 1 + i - 1 = i
    OBVIOUS
  <1> QED BY <1>1, <1>2, <1>3

LEMMA NewFlowFacts ==
  /\ NewFlow \in FlowRecords /\ NewFlow.st = "idle" /\ NewFlow.sent = 0 /\ NewFlow.buf = 0 /\ NewFlow.got = 0
  /\ ~NewFlow.some
  <1>1. << >> \in Seq(Nat)
    OBVIOUS
  <1> QED BY <1>1 DEF NewFlow, FlowRecords

\* A flow that starts has its whole body to do.
LEMMA StartOK ==
  ASSUME NEW body \in Seq(Nat), NEW whole
  PROVE  /\ Start(NewFlow, body) \in FlowRecords /\ Start(NewFlow, body).st = "sending"
         /\ FlowOK(Start(NewFlow, body), body, whole)
  <1>1. PICK f : f = Start(NewFlow, body)
    OBVIOUS
  <1>2. /\ f \in FlowRecords /\ f.st = "sending" /\ f.todo = body /\ f.sent = 0 /\ f.buf = 0 /\ f.got = 0
    <2>1. PICK new \in FlowRecords : new = NewFlow /\ new.sent = 0 /\ new.buf = 0 /\ new.got = 0
      BY NewFlowFacts
    <2> QED BY <1>1, <2>1 DEF Start, FlowRecords
  <1>3. Carries(f, body)
    <2>1. PICK sum : Sums(sum, body)
      BY SumsExist
    <2>2. 0 \in 0 .. Len(body) /\ f.todo = SubSeq(body, 0 + 1, Len(body)) /\ f.sent + f.buf = sum[0]
      BY <1>2, <2>1, WholeBody DEF Sums
    <2> QED BY <2>1, <2>2 DEF Carries
  <1> QED BY <1>1, <1>2, <1>3 DEF FlowOK

\* A flow without a body that ends at once.
LEMMA EmptyOK ==
  ASSUME NEW body
  PROVE  EndOf(NewFlow) \in FlowRecords /\ EndOf(NewFlow).st = "ended" /\ FlowOK(EndOf(NewFlow), body, 0)
  <1>1. PICK f : f = EndOf(NewFlow)
    OBVIOUS
  <1>2. f \in FlowRecords /\ f.st = "ended" /\ f.sent = 0 /\ f.buf = 0 /\ f.got = 0
    <2>1. PICK new \in FlowRecords : new = NewFlow /\ new.sent = 0 /\ new.buf = 0 /\ new.got = 0
      BY NewFlowFacts
    <2> QED BY <1>1, <2>1 DEF EndOf, FlowRecords
  <1> QED BY <1>1, <1>2 DEF FlowOK

\* A flow that is done ends whole.
LEMMA EndOK ==
  ASSUME NEW f \in FlowRecords, NEW body \in Seq(Nat), NEW other, FlowOK(f, body, other),
         f.st = "sending", ~f.some, f.todo = << >>
  PROVE  EndOf(f) \in FlowRecords /\ EndOf(f).st = "ended" /\ FlowOK(EndOf(f), body, Total(body))
  <1>1. PICK g : g = EndOf(f)
    OBVIOUS
  <1>2. g \in FlowRecords /\ g.st = "ended" /\ g.sent = f.sent /\ g.buf = f.buf /\ g.got = f.got /\ g.some = f.some
    BY <1>1 DEF EndOf, FlowRecords
  <1>3. f.sent = Total(body)
    <2>1. PICK sum : Sums(sum, body) /\ \E k \in 0 .. Len(body) : /\ f.todo = SubSeq(body, k + 1, Len(body))
                                                               /\ f.sent + f.buf = sum[k]
      BY DEF FlowOK, Carries
    <2>2. PICK k \in 0 .. Len(body) : f.todo = SubSeq(body, k + 1, Len(body)) /\ f.sent + f.buf = sum[k]
      BY <2>1
    <2>4. k = Len(body)
      BY <2>2, SuffixFacts
    <2>3. f.buf = 0 /\ f.sent \in Nat
      BY FlowFields DEF FlowOK
    <2> QED BY <2>1, <2>2, <2>3, <2>4 DEF Sums
  <1> QED BY <1>1, <1>2, <1>3 DEF FlowOK

LEMMA ReserveFacts ==
  ASSUME NEW f \in FlowRecords, NEW n \in Nat
  PROVE  /\ Reserve(f, n) \in FlowRecords
         /\ Reserve(f, n).st = f.st /\ Reserve(f, n).todo = f.todo /\ Reserve(f, n).some = f.some
         /\ Reserve(f, n).buf = f.buf /\ Reserve(f, n).sent = f.sent /\ Reserve(f, n).got = f.got
  <1>1. PICK c \in Nat : c = f.cap
    BY FlowFields
  <1>2. PICK cap \in Nat : cap = Least(c, n)
    BY LeastFacts
  <1>3. PICK g : g = [f EXCEPT !.want = n, !.cap = cap]
    OBVIOUS
  <1> n \in Int
    OBVIOUS
  <1>4. /\ g \in FlowRecords /\ g.st = f.st /\ g.todo = f.todo /\ g.some = f.some /\ g.buf = f.buf /\ g.sent = f.sent
        /\ g.got = f.got
    BY <1>3 DEF FlowRecords
  <1>5. g = Reserve(f, n)
    BY <1>1, <1>2, <1>3 DEF Reserve
  <1> QED BY <1>4, <1>5

LEMMA ReservesType ==
  ASSUME NEW d, NEW n \in Nat
  PROVE  Reserves(d, n) \in Nat
  BY Windows, LeastFacts DEF Reserves

\* The next chunk goes from what is to do to the buffer.
LEMMA TakeOK ==
  ASSUME NEW f \in FlowRecords, NEW body \in Seq(Nat), NEW whole, FlowOK(f, body, whole),
         f.st = "sending", ~f.some, f.todo # << >>, NEW d
  PROVE  TakeChunk(f, d) \in FlowRecords /\ TakeChunk(f, d).st = "sending" /\ FlowOK(TakeChunk(f, d), body, whole)
  <1>0. PICK sum : Sums(sum, body) /\ \E k \in 0 .. Len(body) : /\ f.todo = SubSeq(body, k + 1, Len(body))
                                                               /\ f.sent + f.buf = sum[k]
    BY DEF FlowOK, Carries
  <1>1. PICK k \in 0 .. Len(body) :
          Sums(sum, body) /\ f.todo = SubSeq(body, k + 1, Len(body)) /\ f.sent + f.buf = sum[k]
    BY <1>0
  <1>2. /\ k + 1 \in 1 .. Len(body) /\ Head(f.todo) = body[k + 1] /\ body[k + 1] \in Nat
        /\ Tail(f.todo) = SubSeq(body, k + 2, Len(body)) /\ Tail(f.todo) \in Seq(Nat)
    <2>1. PICK todo \in Seq(Nat) : todo = f.todo
      BY FlowFields
    <2>2. todo = SubSeq(body, k + 1, Len(body)) /\ todo # << >>
      BY <1>1, <2>1
    <2>3. /\ k + 1 \in 1 .. Len(body) /\ Head(todo) = body[k + 1]
          /\ Tail(todo) = SubSeq(body, k + 2, Len(body))
      BY <2>2, SuffixFacts
    <2>4. Tail(todo) \in Seq(Nat)
      BY <2>2
    <2>5. body[k + 1] \in Nat
      BY <2>3
    <2> QED BY <2>1, <2>3, <2>4, <2>5
  <1>3. PICK n \in Nat : n = Head(f.todo)
    BY <1>2
  <1>4. PICK todo \in Seq(Nat) : todo = Tail(f.todo)
    BY <1>2
  <1>5. PICK w \in FlowRecords : w = Reserve(f, Reserves(d, n)) /\ w.st = f.st /\ w.todo = f.todo /\ w.sent = f.sent
                                 /\ w.got = f.got
    <2>1. PICK m \in Nat : m = Reserves(d, n)
      BY ReservesType
    <2> QED BY <2>1, ReserveFacts
  <1>6. PICK g : g = [w EXCEPT !.todo = todo, !.some = TRUE, !.buf = n]
    OBVIOUS
  <1>7. /\ g \in FlowRecords /\ g.st = "sending" /\ g.todo = todo /\ g.some /\ g.buf = n /\ g.sent = f.sent
        /\ g.got = f.got
    BY <1>5, <1>6 DEF FlowRecords
  <1>8. g = TakeChunk(f, d)
    BY <1>3, <1>4, <1>5, <1>6 DEF TakeChunk
  <1>9. Carries(g, body)
    <2>1. sum[k + 1] = sum[k] + body[k + 1]
      <3>1. (k + 1) - 1 = k
        OBVIOUS
      <3> QED BY <1>1, <1>2, <3>1 DEF Sums
    <2>2. f.buf = 0 /\ f.sent \in Nat
      BY FlowFields DEF FlowOK
    <2>3. g.sent + g.buf = sum[k + 1]
      BY <1>1, <1>2, <1>3, <1>7, <2>1, <2>2
    <2>4. k + 1 \in 0 .. Len(body) /\ g.todo = SubSeq(body, (k + 1) + 1, Len(body))
      <3>1. PICK m \in Nat : m = k + 1 /\ m + 1 = k + 2 /\ m \in 0 .. Len(body)
        BY <1>2
      <3>2. g.todo = SubSeq(body, m + 1, Len(body))
        BY <1>2, <1>4, <1>7, <3>1
      <3> QED BY <3>1, <3>2
    <2> QED BY <1>1, <2>3, <2>4 DEF Carries
  <1> QED BY <1>7, <1>8, <1>9 DEF FlowOK

\* What capacity there is goes from the buffer to what is sent.
LEMMA SendOK ==
  ASSUME NEW f \in FlowRecords, NEW body, NEW whole, FlowOK(f, body, whole), f.st = "sending", NEW d
  PROVE  SendData(f, d) \in FlowRecords /\ SendData(f, d).st = "sending" /\ FlowOK(SendData(f, d), body, whole)
  <1>1. f.buf \in Nat /\ f.cap \in Nat /\ f.sent \in Nat /\ f.got \in Nat /\ f.want \in Int /\ f.got <= f.sent
    BY FlowFields DEF FlowOK
  <1>2. PICK n \in Nat : n = Least(f.cap, f.buf) /\ n <= f.cap /\ n <= f.buf
    <2>1. PICK b \in Nat, c \in Nat : b = f.buf /\ c = f.cap
      BY <1>1
    <2>2. Least(c, b) \in Nat /\ Least(c, b) <= c /\ Least(c, b) <= b
      BY LeastFacts
    <2> QED BY <2>1, <2>2
  <1>3. PICK sent \in Nat, buf \in Nat, cap \in Nat, want \in Int :
          sent = f.sent + n /\ buf = f.buf - n /\ cap = f.cap - n /\ want = f.want - n
    BY <1>1, <1>2
  <1>4. PICK g : g = [f EXCEPT !.sent = sent, !.buf = buf, !.cap = cap, !.want = want, !.inc = FALSE]
    OBVIOUS
  <1>5. /\ g \in FlowRecords /\ g.st = "sending" /\ g.todo = f.todo /\ g.some = f.some /\ g.buf = buf /\ g.sent = sent
        /\ g.got = f.got
    BY <1>4 DEF FlowRecords
  <1>6. PICK new \in FlowRecords :
          /\ new = IF buf > 0 THEN Reserve(g, Reserves(d, buf)) ELSE [g EXCEPT !.some = FALSE]
          /\ new.st = "sending" /\ new.todo = f.todo /\ new.buf = buf /\ new.sent = sent /\ new.got = f.got
          /\ buf > 0 => new.some = f.some
    <2>1. CASE buf > 0
      <3>1. PICK m \in Nat : m = Reserves(d, buf)
        BY ReservesType
      <3>2. PICK new \in FlowRecords : new = Reserve(g, m)
        BY <1>5, ReserveFacts
      <3>3. /\ new.st = g.st /\ new.todo = g.todo /\ new.some = g.some /\ new.buf = g.buf /\ new.sent = g.sent
            /\ new.got = g.got
        BY <1>5, <3>2, ReserveFacts
      <3> QED BY <1>5, <2>1, <3>1, <3>2, <3>3
    <2>2. CASE ~(buf > 0)
      <3>1. PICK new : new = [g EXCEPT !.some = FALSE]
        OBVIOUS
      <3>2. /\ new \in FlowRecords /\ new.st = "sending" /\ new.todo = f.todo /\ new.buf = buf /\ new.sent = sent
            /\ new.got = f.got
        BY <1>5, <3>1 DEF FlowRecords
      <3> QED BY <2>2, <3>1, <3>2
    <2> QED BY <2>1, <2>2
  <1>7. new = SendData(f, d)
    BY <1>2, <1>3, <1>4, <1>5, <1>6 DEF SendData
  <1>8. new.sent + new.buf = f.sent + f.buf /\ new.got <= new.sent
    BY <1>1, <1>2, <1>3, <1>6
  <1>9. Carries(new, body)
    BY <1>6, <1>8 DEF FlowOK, Carries
  <1>10. ~new.some => new.buf = 0
    <2>1. buf > 0 => f.some
      BY <1>1, <1>2, <1>3 DEF FlowOK
    <2>2. new.some \in BOOLEAN /\ f.some \in BOOLEAN
      BY FlowFields
    <2>3. new.some \/ ~(buf > 0)
      BY <1>6, <2>1, <2>2
    <2> QED BY <1>6, <2>3
  <1> QED BY <1>6, <1>7, <1>8, <1>9, <1>10 DEF FlowOK

\* A flow that is reset, or has ended, stays.
LEMMA ResetFacts ==
  ASSUME NEW fs \in Flows
  PROVE  /\ ResetFlows(fs) \in Flows
         /\ \A d \in Directions :
              /\ fs[d].st = "ended" => ResetFlows(fs)[d] = fs[d]
              /\ fs[d].st # "ended" => /\ ResetFlows(fs)[d].st = "reset" /\ ResetFlows(fs)[d].sent = fs[d].sent
                                       /\ ResetFlows(fs)[d].got = fs[d].got /\ ResetFlows(fs)[d].buf = fs[d].buf
                                       /\ ResetFlows(fs)[d].some = fs[d].some
  <1>1. ASSUME NEW d \in Directions
        PROVE  /\ ResetFlows(fs)[d] \in FlowRecords
               /\ fs[d].st = "ended" => ResetFlows(fs)[d] = fs[d]
               /\ fs[d].st # "ended" => /\ ResetFlows(fs)[d].st = "reset" /\ ResetFlows(fs)[d].sent = fs[d].sent
                                        /\ ResetFlows(fs)[d].got = fs[d].got /\ ResetFlows(fs)[d].buf = fs[d].buf
                                        /\ ResetFlows(fs)[d].some = fs[d].some
    <2>1. PICK f \in FlowRecords : f = fs[d]
      BY DEF Flows
    <2>2. PICK g : g = [f EXCEPT !.st = "reset", !.cap = 0]
      OBVIOUS
    <2>3. /\ g \in FlowRecords /\ g.st = "reset" /\ g.sent = f.sent /\ g.got = f.got /\ g.buf = f.buf
          /\ g.some = f.some
      BY <2>2 DEF FlowRecords
    <2>4. ResetFlows(fs)[d] = IF f.st = "ended" THEN f ELSE g
      BY <2>1, <2>2 DEF ResetFlows
    <2> QED BY <2>1, <2>3, <2>4
  <1>2. ResetFlows(fs) \in Flows
    BY <1>1 DEF ResetFlows, Flows
  <1> QED BY <1>1, <1>2

LEMMA ResetOK ==
  ASSUME NEW s \in H2Requests, NEW c, NEW v, NEW fs \in Flows, NEW v2 \in {v, "over"}, Stream(s, c, v, fs), c # "new"
  PROVE  ResetFlows(fs) \in Flows /\ Stream(s, c, v2, ResetFlows(fs))
  <1>1. PICK g \in Flows : g = ResetFlows(fs)
    BY ResetFacts
  <1>2. "up" \in Directions /\ "down" \in Directions
    BY DEF Directions
  <1>3. /\ fs.up.st = "ended" => g.up = fs.up
        /\ fs.up.st # "ended" => /\ g.up.st = "reset" /\ g.up.sent = fs.up.sent /\ g.up.got = fs.up.got
                                 /\ g.up.buf = fs.up.buf /\ g.up.some = fs.up.some
        /\ fs.down.st = "ended" => g.down = fs.down
        /\ fs.down.st # "ended" => /\ g.down.st = "reset" /\ g.down.sent = fs.down.sent /\ g.down.got = fs.down.got
                                   /\ g.down.buf = fs.down.buf /\ g.down.some = fs.down.some
    BY <1>1, <1>2, ResetFacts
  <1>4. FlowOK(g.up, plan[s].up, Total(plan[s].up))
    BY <1>3 DEF Stream, FlowOK
  <1>5. FlowOK(g.down, ResponseBody(s), Whole(s))
    BY <1>3 DEF Stream, FlowOK
  <1> QED BY <1>1, <1>3, <1>4, <1>5 DEF Stream

\* A step of the client and the flow up.
LEMMA SetUp ==
  ASSUME NEW s \in H2Requests, NEW c, NEW v, NEW fs \in Flows, Stream(s, c, v, fs), NEW c2, NEW g \in FlowRecords,
         FlowOK(g, plan[s].up, Total(plan[s].up)), c2 # "new", c2 = "done" => c = "done",
         c2 = "sends" => g.st \in {"sending", "reset"}, g.st = "ended" => ~plan[s].broken
  PROVE  [fs EXCEPT !["up"] = g] \in Flows /\ Stream(s, c2, v, [fs EXCEPT !["up"] = g])
  <1>1. "up" \in Directions /\ "down" \in Directions \ {"up"}
    BY DEF Directions
  <1>2. PICK new : new = [fs EXCEPT !["up"] = g]
    OBVIOUS
  <1>3. new \in Flows /\ new.up = g /\ new.down = fs.down
    BY <1>1, <1>2 DEF Flows
  <1>4. Stream(s, c2, v, new)
    BY <1>3 DEF Stream
  <1> QED BY <1>2, <1>3, <1>4

\* A step of the server and the flow down.
LEMMA SetDown ==
  ASSUME NEW s \in H2Requests, NEW c, NEW v, NEW fs \in Flows, Stream(s, c, v, fs), NEW v2, NEW g \in FlowRecords,
         FlowOK(g, ResponseBody(s), Whole(s)), c # "new", c # "done",
         v2 \in {"none", "opened", "call"} => g.st \in {"idle", "reset"},
         v2 = "respond" => g.st \in {"sending", "reset"} /\ ~IsEof(s)
  PROVE  [fs EXCEPT !["down"] = g] \in Flows /\ Stream(s, c, v2, [fs EXCEPT !["down"] = g])
  <1>1. "down" \in Directions /\ "up" \in Directions \ {"down"}
    BY DEF Directions
  <1>2. PICK new : new = [fs EXCEPT !["down"] = g]
    OBVIOUS
  <1>3. new \in Flows /\ new.down = g /\ new.up = fs.up
    BY <1>1, <1>2 DEF Flows
  <1>4. Stream(s, c, v2, new)
    BY <1>3 DEF Stream
  <1> QED BY <1>2, <1>3, <1>4

-----------------------------------------------------------------------------
(* Steps *)

LEMMA StreamParts ==
  ASSUME H2Inv, NEW s \in H2Requests
  PROVE  /\ plan[s] \in Plans /\ plan[s].up \in Seq(Nat) /\ plan[s].down \in Seq(Nat) /\ ResponseBody(s) \in Seq(Nat)
         /\ client[s] \in Clients /\ server[s] \in Servers /\ flow[s] \in Flows
         /\ flow[s].up \in FlowRecords /\ flow[s].down \in FlowRecords
         /\ Stream(s, client[s], server[s], flow[s])
         /\ plan = Unplanned => client[s] = "new"
  <1>1. plan[s] \in Plans /\ client[s] \in Clients /\ server[s] \in Servers /\ flow[s] \in Flows
    BY DEF H2Inv, H2Types
  <1>2. plan[s].up \in Seq(Nat) /\ plan[s].down \in Seq(Nat)
    BY <1>1 DEF Plans
  <1>3. << 1 >> \in Seq(Nat)
    OBVIOUS
  <1>4. ResponseBody(s) \in Seq(Nat)
    BY <1>2, <1>3 DEF ResponseBody
  <1>5. flow[s].up \in FlowRecords /\ flow[s].down \in FlowRecords
    BY <1>1 DEF Flows, Directions
  <1> QED BY <1>1, <1>2, <1>4, <1>5 DEF H2Inv

\* What is said of a stream stays so in a step that leaves its plan.
LEMMA StreamStays ==
  ASSUME plan' = plan, NEW r, NEW c, NEW v, NEW fs, Stream(r, c, v, fs),
         c = client'[r], v = server'[r], fs = flow'[r]
  PROVE  Stream(r, client[r], server[r], flow[r])'
  <1>1. PICK b : b = ResponseBody(r) /\ b = ResponseBody(r)'
    BY DEF ResponseBody
  <1>2. IsEof(r) <=> IsEof(r)'
    BY DEF IsEof
  <1>3. PICK x : x = Whole(r) /\ x = Whole(r)'
    <2>1. Whole(r)' = Whole(r)
      BY <1>1, <1>2 DEF Whole
    <2> QED BY <2>1
  <1>4. /\ FlowOK(fs.up, plan[r].up, Total(plan[r].up)) /\ FlowOK(fs.down, b, x)
        /\ c = "new" => fs.up.st = "idle" /\ v = "none"
        /\ c = "sends" => fs.up.st \in {"sending", "reset"}
        /\ fs.up.st = "ended" => ~plan[r].broken
        /\ v \in {"none", "opened", "call"} => fs.down.st \in {"idle", "reset"}
        /\ v = "respond" => fs.down.st \in {"sending", "reset"} /\ ~IsEof(r)
        /\ c = "done" => fs.down.st = "ended" /\ fs.down.got = fs.down.sent
    BY <1>1, <1>3 DEF Stream
  <1>5. FlowOK(fs.up, plan'[r].up, Total(plan'[r].up)) /\ (fs.up.st = "ended" => ~plan'[r].broken)
    BY <1>4
  <1> QED BY <1>1, <1>2, <1>3, <1>4, <1>5 DEF Stream

LEMMA OneStream ==
  ASSUME H2Inv, plan' = plan, NEW s \in H2Requests, NEW c \in Clients, NEW v \in Servers, NEW fs \in Flows,
         client' = [client EXCEPT ![s] = c], server' = [server EXCEPT ![s] = v], flow' = [flow EXCEPT ![s] = fs],
         Stream(s, c, v, fs), plan = Unplanned => c = "new"
  PROVE  H2Inv'
  <1>1. H2Types'
    BY DEF H2Inv, H2Types
  <1>2. /\ client'[s] = c /\ server'[s] = v /\ flow'[s] = fs
        /\ \A r \in H2Requests \ {s} : client'[r] = client[r] /\ server'[r] = server[r] /\ flow'[r] = flow[r]
    BY DEF H2Inv, H2Types
  <1>3. ASSUME NEW r \in H2Requests
        PROVE  Stream(r, client[r], server[r], flow[r])'
    <2>1. PICK c2, v2, fs2 : c2 = client'[r] /\ v2 = server'[r] /\ fs2 = flow'[r]
      OBVIOUS
    <2>2. Stream(r, c2, v2, fs2)
      BY <1>2, <2>1 DEF H2Inv
    <2> QED BY <2>1, <2>2, StreamStays
  <1>4. (plan = Unplanned)' => \A r \in H2Requests : client'[r] = "new"
    BY <1>2 DEF H2Inv, Unplanned
  <1> QED BY <1>1, <1>3, <1>4 DEF H2Inv

\* A step that leaves the client or the server leaves its function.
LEMMA Same ==
  ASSUME H2Inv, NEW s \in H2Requests
  PROVE  /\ client = [client EXCEPT ![s] = client[s]] /\ server = [server EXCEPT ![s] = server[s]]
         /\ flow = [flow EXCEPT ![s] = flow[s]]
         /\ \A g : \A d \in Directions : [flow EXCEPT ![s][d] = g] = [flow EXCEPT ![s] = [flow[s] EXCEPT ![d] = g]]
  <1>1. client \in [H2Requests -> Clients] /\ server \in [H2Requests -> Servers] /\ flow \in [H2Requests -> Flows]
    BY DEF H2Inv, H2Types
  <1> QED BY <1>1

LEMMA SendBodyStep ==
  ASSUME H2Inv, NEW s \in H2Requests, SendBody(s)
  PROVE  H2Inv'
  <1>1. client[s] = "sends" /\ plan' = plan /\ plan # Unplanned
    BY StreamParts DEF SendBody
  <1>2. PICK f \in FlowRecords :
          f = flow[s].up /\ FlowOK(f, plan[s].up, Total(plan[s].up)) /\ f.st \in {"sending", "reset"}
    BY <1>1, StreamParts DEF Stream
  <1>3. PICK fs \in Flows, v \in Servers : fs = flow[s] /\ v = server[s] /\ Stream(s, "sends", v, fs)
    BY <1>1, StreamParts
  <1>4. "sends" \in Clients /\ "awaits" \in Clients /\ "failed" \in Clients /\ "up" \in Directions
    BY DEF Clients, Directions
  <1>5. CASE f.st = "reset"
    <2>1. client' = [client EXCEPT ![s] = "awaits"] /\ flow' = [flow EXCEPT ![s] = fs] /\ server' = server
      BY <1>2, <1>3, <1>5 DEF SendBody, SendLoop
    <2>2. Stream(s, "awaits", v, fs)
      BY <1>3 DEF Stream
    <2> QED BY <1>1, <1>3, <1>4, <2>1, <2>2, Same, OneStream
  <1>6. ASSUME NEW g \in FlowRecords, FlowOK(g, plan[s].up, Total(plan[s].up)), g.st = "sending",
               flow' = [flow EXCEPT ![s]["up"] = g], UNCHANGED <<client, server>>
        PROVE  H2Inv'
    <2>1. PICK new \in Flows : new = [fs EXCEPT !["up"] = g] /\ Stream(s, "sends", v, new)
      <3>1. g.st \in {"sending", "reset"} /\ g.st # "ended" /\ "sends" # "new" /\ "sends" # "done"
        BY <1>6
      <3>2. [fs EXCEPT !["up"] = g] \in Flows /\ Stream(s, "sends", v, [fs EXCEPT !["up"] = g])
        BY <1>3, <1>6, <3>1, SetUp, Zenon
      <3> QED BY <3>2
    <2>2. /\ flow' = [flow EXCEPT ![s] = new] /\ client' = [client EXCEPT ![s] = "sends"]
          /\ server' = [server EXCEPT ![s] = v]
      BY <1>1, <1>3, <1>4, <1>6, <2>1, Same
    <2> QED BY <1>1, <1>4, <2>1, <2>2, OneStream
  <1>7. CASE f.st = "sending" /\ f.some
    <2>1. flow' = [flow EXCEPT ![s]["up"] = SendData(f, "up")] /\ UNCHANGED <<client, server>>
      BY <1>2, <1>7 DEF SendBody, SendLoop
    <2> QED BY <1>2, <1>6, <1>7, <2>1, SendOK
  <1>8. CASE f.st = "sending" /\ ~f.some /\ f.todo # << >>
    <2>1. flow' = [flow EXCEPT ![s]["up"] = TakeChunk(f, "up")] /\ UNCHANGED <<client, server>>
      BY <1>2, <1>8 DEF SendBody, SendLoop
    <2> QED BY <1>2, <1>6, <1>8, <2>1, TakeOK, StreamParts
  <1>9. CASE f.st = "sending" /\ ~f.some /\ f.todo = << >> /\ plan[s].broken
    <2>1. client' = [client EXCEPT ![s] = "failed"] /\ flow' = [flow EXCEPT ![s] = ResetFlows(fs)] /\ server' = server
      BY <1>2, <1>3, <1>9 DEF SendBody, SendLoop
    <2>2. PICK new \in Flows : new = ResetFlows(fs) /\ Stream(s, "sends", v, new)
      BY <1>3, ResetOK
    <2>3. Stream(s, "failed", v, new)
      BY <2>2 DEF Stream
    <2> QED BY <1>1, <1>3, <1>4, <2>1, <2>2, <2>3, Same, OneStream
  <1>10. CASE f.st = "sending" /\ ~f.some /\ f.todo = << >> /\ ~plan[s].broken
    <2>1. /\ client' = [client EXCEPT ![s] = "awaits"] /\ server' = server
          /\ flow' = [flow EXCEPT ![s] = [fs EXCEPT !["up"] = EndOf(f)]]
      BY <1>2, <1>3, <1>10 DEF SendBody, SendLoop
    <2>2. PICK g \in FlowRecords : g = EndOf(f) /\ g.st = "ended" /\ FlowOK(g, plan[s].up, Total(plan[s].up))
      BY <1>2, <1>10, EndOK, StreamParts
    <2>3. PICK new \in Flows : new = [fs EXCEPT !["up"] = g] /\ Stream(s, "awaits", v, new)
      <3>1. "awaits" # "new" /\ "awaits" # "done" /\ "awaits" # "sends"
        OBVIOUS
      <3>2. [fs EXCEPT !["up"] = g] \in Flows /\ Stream(s, "awaits", v, [fs EXCEPT !["up"] = g])
        BY <1>3, <1>10, <2>2, <3>1, SetUp, Zenon
      <3> QED BY <3>2
    <2> QED BY <1>1, <1>3, <1>4, <2>1, <2>2, <2>3, Same, OneStream
  <1> QED BY <1>2, <1>5, <1>7, <1>8, <1>9, <1>10, FlowFields

LEMMA SendPayloadStep ==
  ASSUME H2Inv, NEW s \in H2Requests, SendPayload(s)
  PROVE  H2Inv'
  <1>1. server[s] = "respond" /\ plan' = plan
    BY DEF SendPayload
  <1>2. PICK fs \in Flows, c \in Clients : fs = flow[s] /\ c = client[s] /\ Stream(s, c, "respond", fs)
    BY <1>1, StreamParts
  <1>3. PICK f \in FlowRecords : f = fs.down /\ FlowOK(f, ResponseBody(s), Whole(s)) /\ f.st \in {"sending", "reset"}
    BY <1>2, StreamParts DEF Stream
  <1>4. c # "new" /\ c # "done" /\ plan # Unplanned /\ ~IsEof(s)
    BY <1>2, <1>3, StreamParts DEF Stream
  <1>5. "respond" \in Servers /\ "over" \in Servers /\ "down" \in Directions /\ "down" # "up"
    BY DEF Servers, Directions
  <1>6. CASE f.st = "reset"
    <2>1. server' = [server EXCEPT ![s] = "over"] /\ flow' = [flow EXCEPT ![s] = ResetFlows(fs)] /\ client' = client
      BY <1>2, <1>3, <1>6 DEF SendPayload, SendLoop
    <2>2. PICK new \in Flows : new = ResetFlows(fs) /\ Stream(s, c, "over", new)
      BY <1>2, <1>4, ResetOK
    <2> QED BY <1>1, <1>2, <1>4, <1>5, <2>1, <2>2, Same, OneStream
  <1>7. ASSUME NEW g \in FlowRecords, FlowOK(g, ResponseBody(s), Whole(s)), g.st = "sending",
               flow' = [flow EXCEPT ![s]["down"] = g], UNCHANGED <<client, server>>
        PROVE  H2Inv'
    <2>1. PICK new \in Flows : new = [fs EXCEPT !["down"] = g] /\ Stream(s, c, "respond", new)
      BY <1>2, <1>4, <1>7, SetDown
    <2>2. /\ flow' = [flow EXCEPT ![s] = new] /\ client' = [client EXCEPT ![s] = c]
          /\ server' = [server EXCEPT ![s] = "respond"]
      BY <1>1, <1>2, <1>5, <1>7, <2>1, Same
    <2> QED BY <1>1, <1>4, <1>5, <2>1, <2>2, OneStream
  <1>8. CASE f.st = "sending" /\ f.some
    <2>1. flow' = [flow EXCEPT ![s]["down"] = SendData(f, "down")] /\ UNCHANGED <<client, server>>
      BY <1>2, <1>3, <1>8 DEF SendPayload, SendLoop
    <2> QED BY <1>3, <1>7, <1>8, <2>1, SendOK
  <1>9. CASE f.st = "sending" /\ ~f.some /\ f.todo # << >>
    <2>1. flow' = [flow EXCEPT ![s]["down"] = TakeChunk(f, "down")] /\ UNCHANGED <<client, server>>
      BY <1>2, <1>3, <1>9 DEF SendPayload, SendLoop
    <2> QED BY <1>3, <1>7, <1>9, <2>1, TakeOK, StreamParts
  <1>10. CASE f.st = "sending" /\ ~f.some /\ f.todo = << >>
    <2>1. /\ server' = [server EXCEPT ![s] = "over"] /\ client' = client
          /\ flow' = [flow EXCEPT ![s] = ResetFlows([fs EXCEPT !["down"] = EndOf(f)])]
      BY <1>2, <1>3, <1>5, <1>10 DEF SendPayload, SendLoop
    <2>2. PICK g \in FlowRecords : g = EndOf(f) /\ g.st = "ended" /\ FlowOK(g, ResponseBody(s), Whole(s))
      BY <1>3, <1>4, <1>10, EndOK, StreamParts DEF Whole
    <2>3. PICK ended \in Flows : ended = [fs EXCEPT !["down"] = g] /\ Stream(s, c, "over", ended)
      BY <1>2, <1>4, <2>2, SetDown
    <2>4. PICK new \in Flows : new = ResetFlows(ended) /\ Stream(s, c, "over", new)
      BY <1>4, <2>3, ResetOK
    <2> QED BY <1>1, <1>2, <1>4, <1>5, <2>1, <2>2, <2>3, <2>4, Same, OneStream
  <1> QED BY <1>3, <1>6, <1>8, <1>9, <1>10, FlowFields

LEMMA SendRequestStep ==
  ASSUME H2Inv, NEW s \in H2Requests, SendRequest(s)
  PROVE  H2Inv'
  <1>1. /\ plan' = plan /\ plan # Unplanned /\ client[s] = "new" /\ server' = [server EXCEPT ![s] = "opened"]
        /\ "opened" \in Servers /\ "awaits" \in Clients /\ "sends" \in Clients /\ "up" \in Directions
    BY DEF SendRequest, Servers, Clients, Directions
  <1>2. PICK fs \in Flows, v \in Servers : fs = flow[s] /\ v = server[s] /\ Stream(s, "new", v, fs)
    BY <1>1, StreamParts
  <1>3. fs.up = NewFlow /\ fs.down.st \in {"idle", "reset"} /\ v = "none" /\ fs["up"] = NewFlow
    BY <1>2 DEF Stream, FlowOK
  <1>4. ASSUME NEW g \in FlowRecords, NEW c \in {"awaits", "sends"}, g.st \in {"sending", "ended"},
               FlowOK(g, plan[s].up, Total(plan[s].up)),
               c = "sends" => g.st = "sending", g.st = "ended" => ~plan[s].broken,
               client' = [client EXCEPT ![s] = c], flow' = [flow EXCEPT ![s]["up"] = g]
        PROVE  H2Inv'
    <2>1. PICK new : new = [fs EXCEPT !["up"] = g]
      OBVIOUS
    <2>2. new \in Flows /\ new.up = g /\ new.down = fs.down
      BY <2>1 DEF Flows, Directions
    <2>3. flow' = [flow EXCEPT ![s] = new]
      BY <1>1, <1>2, <1>4, <2>1, Same
    <2>4. Stream(s, c, "opened", new)
      BY <1>2, <1>3, <1>4, <2>2 DEF Stream
    <2> QED BY <1>1, <1>4, <2>2, <2>3, <2>4, OneStream
  <1>5. CASE plan[s].up = << >> /\ ~plan[s].broken
    <2>1. client' = [client EXCEPT ![s] = "awaits"] /\ flow' = [flow EXCEPT ![s]["up"] = EndOf(NewFlow)]
      BY <1>2, <1>3, <1>5 DEF SendRequest
    <2>2. PICK g \in FlowRecords : g = EndOf(NewFlow) /\ g.st = "ended" /\ FlowOK(g, plan[s].up, 0)
      BY EmptyOK
    <2>3. Total(plan[s].up) = 0
      <3>1. Len(<< >>) = 0 /\ << >> \in Seq(Nat)
        OBVIOUS
      <3>2. PICK sum : Sums(sum, << >>)
        BY <3>1, SumsExist
      <3> QED BY <1>5, <3>1, <3>2 DEF Sums
    <2> QED BY <1>4, <1>5, <2>1, <2>2, <2>3
  <1>6. CASE ~(plan[s].up = << >> /\ ~plan[s].broken)
    <2>1. client' = [client EXCEPT ![s] = "sends"] /\ flow' = [flow EXCEPT ![s]["up"] = Start(NewFlow, plan[s].up)]
      BY <1>2, <1>3, <1>6 DEF SendRequest
    <2>2. PICK g \in FlowRecords :
            g = Start(NewFlow, plan[s].up) /\ g.st = "sending" /\ FlowOK(g, plan[s].up, Total(plan[s].up))
      BY StartOK, StreamParts
    <2> QED BY <1>4, <2>1, <2>2
  <1> QED BY <1>5, <1>6

LEMMA ServiceReadyStep ==
  ASSUME H2Inv, NEW s \in H2Requests, ServiceReady(s)
  PROVE  H2Inv'
  <1>1. server[s] = "call" /\ plan' = plan /\ client' = client
    BY DEF ServiceReady
  <1>2. PICK fs \in Flows, c \in Clients : fs = flow[s] /\ c = client[s] /\ Stream(s, c, "call", fs)
    BY <1>1, StreamParts
  <1>3. fs.down.st \in {"idle", "reset"} /\ c # "new" /\ c # "done" /\ plan # Unplanned
    BY <1>2, StreamParts DEF Stream
  <1>4. "respond" \in Servers /\ "over" \in Servers /\ "down" \in Directions
    BY DEF Servers, Directions
  <1>5. CASE fs.down.st = "reset"
    <2>1. server' = [server EXCEPT ![s] = "over"] /\ flow' = [flow EXCEPT ![s] = fs]
      BY <1>2, <1>5, Same DEF ServiceReady
    <2>2. Stream(s, c, "over", fs)
      BY <1>2 DEF Stream
    <2> QED BY <1>1, <1>2, <1>3, <1>4, <2>1, <2>2, Same, OneStream
  <1>6. CASE fs.down.st = "idle" /\ IsEof(s)
    <2>1. fs.down = NewFlow
      BY <1>2, <1>6 DEF Stream, FlowOK
    <2>2. PICK g \in FlowRecords : g = EndOf(NewFlow) /\ g.st = "ended" /\ FlowOK(g, ResponseBody(s), 0)
      BY EmptyOK
    <2>3. FlowOK(g, ResponseBody(s), Whole(s))
      BY <1>6, <2>2 DEF Whole
    <2>4. PICK ended \in Flows : ended = [fs EXCEPT !["down"] = g] /\ Stream(s, c, "over", ended)
      BY <1>2, <1>3, <2>2, <2>3, SetDown
    <2>5. PICK new \in Flows : new = ResetFlows(ended) /\ Stream(s, c, "over", new)
      BY <1>3, <2>4, ResetOK
    <2>6. server' = [server EXCEPT ![s] = "over"] /\ flow' = [flow EXCEPT ![s] = new]
      <3>1. [fs EXCEPT !.down = EndOf(@)] = ended
        BY <2>1, <2>2, <2>4
      <3>2. flow[s].down.st # "reset"
        BY <1>2, <1>6
      <3>3. /\ server' = [server EXCEPT ![s] = "over"]
            /\ flow' = [flow EXCEPT ![s] = ResetFlows([fs EXCEPT !.down = EndOf(@)])]
        BY <1>2, <1>6, <3>2 DEF ServiceReady
      <3> QED BY <2>5, <3>1, <3>3
    <2> QED BY <1>1, <1>2, <1>3, <1>4, <2>5, <2>6, Same, OneStream
  <1>7. CASE fs.down.st = "idle" /\ ~IsEof(s)
    <2>1. fs.down = NewFlow
      BY <1>2, <1>7 DEF Stream, FlowOK
    <2>2. PICK g \in FlowRecords :
            g = Start(NewFlow, ResponseBody(s)) /\ g.st = "sending" /\ FlowOK(g, ResponseBody(s), Whole(s))
      BY StartOK, StreamParts
    <2>3. PICK new \in Flows : new = [fs EXCEPT !["down"] = g] /\ Stream(s, c, "respond", new)
      BY <1>2, <1>3, <1>7, <2>2, SetDown
    <2>4. server' = [server EXCEPT ![s] = "respond"] /\ flow' = [flow EXCEPT ![s] = new]
      <3>1. /\ server' = [server EXCEPT ![s] = "respond"]
            /\ flow' = [flow EXCEPT ![s]["down"] = Start(NewFlow, ResponseBody(s))]
        BY <1>2, <1>7, <2>1 DEF ServiceReady
      <3> QED BY <1>2, <1>4, <2>2, <2>3, <3>1, Same
    <2> QED BY <1>1, <1>2, <1>3, <1>4, <2>3, <2>4, Same, OneStream
  <1> QED BY <1>3, <1>5, <1>6, <1>7

\* Capacity and what was read change nothing of what a flow carries.
LEMMA SameFlow ==
  ASSUME H2Inv, NEW s \in H2Requests, NEW d \in Directions, plan' = plan, client' = client, server' = server,
         NEW g \in FlowRecords, g.st = flow[s][d].st, g.todo = flow[s][d].todo, g.some = flow[s][d].some,
         g.buf = flow[s][d].buf, g.sent = flow[s][d].sent, g.got \in {flow[s][d].got, flow[s][d].sent},
         g.st # "idle", flow' = [flow EXCEPT ![s][d] = g]
  PROVE  H2Inv'
  <1>1. PICK fs \in Flows, c \in Clients, v \in Servers :
          fs = flow[s] /\ c = client[s] /\ v = server[s] /\ Stream(s, c, v, fs)
    BY StreamParts
  <1>2. PICK f \in FlowRecords : f = fs[d]
    BY DEF Flows
  <1>3. /\ g.st = f.st /\ g.todo = f.todo /\ g.some = f.some /\ g.buf = f.buf /\ g.sent = f.sent
        /\ g.got \in {f.got, f.sent} /\ f.sent \in Nat /\ f.got \in Nat
    BY <1>1, <1>2, FlowFields
  <1>4. ASSUME NEW body, NEW whole, FlowOK(f, body, whole)
        PROVE  FlowOK(g, body, whole)
    <2>1. Carries(f, body) => Carries(g, body)
      BY <1>3 DEF Carries
    <2> QED BY <1>3, <1>4, <2>1 DEF FlowOK
  <1>5. PICK new : new = [fs EXCEPT ![d] = g]
    OBVIOUS
  <1>6. new \in Flows /\ new[d] = g /\ \A e \in Directions \ {d} : new[e] = fs[e]
    BY <1>5 DEF Flows
  <1>7. flow' = [flow EXCEPT ![s] = new]
    BY <1>1, <1>5, Same
  <1>8. Stream(s, c, v, new)
    <2>1. CASE d = "up"
      <3>1. new.up = g /\ new.down = fs.down /\ f = fs.up
        BY <1>2, <1>6, <2>1 DEF Directions
      <3> QED BY <1>1, <1>3, <1>4, <3>1 DEF Stream
    <2>2. CASE d = "down"
      <3>1. new.down = g /\ new.up = fs.up /\ f = fs.down
        BY <1>2, <1>6, <2>2 DEF Directions
      <3>2. c = "done" => g.got = g.sent
        BY <1>1, <1>3, <3>1 DEF Stream
      <3> QED BY <1>1, <1>3, <1>4, <3>1, <3>2 DEF Stream
    <2> QED BY <2>1, <2>2 DEF Directions
  <1>9. plan = Unplanned => c = "new"
    BY <1>1, StreamParts
  <1>10. client' = [client EXCEPT ![s] = c] /\ server' = [server EXCEPT ![s] = v]
    BY <1>1, Same
  <1> QED BY <1>1, <1>6, <1>7, <1>8, <1>9, <1>10, OneStream

LEMMA HeldByType ==
  ASSUME NEW d
  PROVE  HeldBy(d) \in Nat
  <1>1. IsFiniteSet(H2Requests \X (1 .. ConnWindow))
    <2>1. IsFiniteSet(H2Requests) /\ IsFiniteSet(1 .. ConnWindow)
      BY H2RequestsAssumption, Windows, FS_Interval
    <2> QED BY <2>1, FS_Product
  <1>2. ASSUME NEW held \in SUBSET (H2Requests \X (1 .. ConnWindow))
        PROVE  Cardinality(held) \in Nat
    BY <1>1, FS_Subset, FS_CardinalityType
  <1> QED BY <1>2 DEF HeldBy

LEMMA AssignStep ==
  ASSUME H2Inv, NEW s \in H2Requests, NEW d \in Directions, Assign(s, d)
  PROVE  H2Inv'
  <1>1. flow[s] \in Flows /\ flow[s][d] \in FlowRecords
    BY StreamParts DEF Flows
  <1>2. PICK f \in FlowRecords : f = flow[s][d]
    BY <1>1
  <1>3. f.want \in Int /\ f.cap \in Nat /\ f.sent \in Nat /\ f.got \in Nat
    BY FlowFields
  <1>4. PICK held \in Int : held = Held(s, d)
    BY <1>2, <1>3 DEF Held
  <1>5. PICK n \in Int : n = Least(f.want - f.cap, Least(StreamWindow - held, ConnWindow - HeldBy(d)))
    <2>1. PICK a \in Int, b \in Int, e \in Int :
            a = f.want - f.cap /\ b = StreamWindow - held /\ e = ConnWindow - HeldBy(d)
      BY <1>3, HeldByType, Windows
    <2>2. Least(b, e) \in Int
      BY LeastFacts
    <2>3. Least(a, Least(b, e)) \in Int
      BY <2>2, LeastFacts
    <2> QED BY <2>1, <2>3
  <1>6. /\ f.st = "sending" /\ n > 0 /\ plan' = plan /\ client' = client /\ server' = server
        /\ flow' = [flow EXCEPT ![s][d].cap = f.cap + n, ![s][d].inc = TRUE]
    BY <1>2, <1>4, <1>5 DEF Assign
  <1>7. PICK cap \in Nat : cap = f.cap + n
    BY <1>3, <1>6
  <1>8. PICK g : g = [f EXCEPT !.cap = cap, !.inc = TRUE]
    OBVIOUS
  <1>9. /\ g \in FlowRecords /\ g.st = f.st /\ g.todo = f.todo /\ g.some = f.some /\ g.buf = f.buf
        /\ g.sent = f.sent /\ g.got = f.got
    BY <1>8 DEF FlowRecords
  <1>10. flow' = [flow EXCEPT ![s][d] = g]
    <2>1. flow \in [H2Requests -> Flows]
      BY DEF H2Inv, H2Types
    <2>2. flow' = [flow EXCEPT ![s][d].cap = cap, ![s][d].inc = TRUE]
      BY <1>6, <1>7
    <2> QED BY <1>1, <1>2, <1>8, <2>1, <2>2 DEF Flows
  <1> QED
    <2>1. /\ g.st = flow[s][d].st /\ g.todo = flow[s][d].todo /\ g.some = flow[s][d].some
          /\ g.buf = flow[s][d].buf /\ g.sent = flow[s][d].sent /\ g.got = flow[s][d].got /\ g.st # "idle"
      BY <1>2, <1>6, <1>9
    <2>2. plan' = plan /\ client' = client /\ server' = server /\ g \in FlowRecords
      BY <1>6, <1>9
    <2> QED BY <1>10, <2>1, <2>2, SameFlow

LEMMA ReadDataStep ==
  ASSUME H2Inv, NEW s \in H2Requests, NEW d \in Directions, ReadData(s, d)
  PROVE  H2Inv'
  <1>1. flow[s] \in Flows /\ flow[s][d] \in FlowRecords
    BY StreamParts DEF Flows
  <1>2. PICK f \in FlowRecords : f = flow[s][d]
    BY <1>1
  <1>3. /\ f.got < f.sent /\ plan' = plan /\ client' = client /\ server' = server
        /\ flow' = [flow EXCEPT ![s][d].got = f.sent]
    BY <1>2 DEF ReadData
  <1>4. f.st # "idle"
    <2>1. PICK body, whole : FlowOK(f, body, whole)
      BY <1>2, StreamParts DEF Stream, Directions
    <2> QED BY <1>3, <2>1, NewFlowFacts DEF FlowOK
  <1>5. PICK g : g = [f EXCEPT !.got = f.sent]
    OBVIOUS
  <1>6. /\ g \in FlowRecords /\ g.st = f.st /\ g.todo = f.todo /\ g.some = f.some /\ g.buf = f.buf
        /\ g.sent = f.sent /\ g.got = f.sent
    BY <1>5 DEF FlowRecords
  <1>7. flow' = [flow EXCEPT ![s][d] = g]
    <2>1. flow \in [H2Requests -> Flows]
      BY DEF H2Inv, H2Types
    <2> QED BY <1>1, <1>2, <1>3, <1>5, <2>1 DEF Flows
  <1> QED
    <2>1. /\ g.st = flow[s][d].st /\ g.todo = flow[s][d].todo /\ g.some = flow[s][d].some
          /\ g.buf = flow[s][d].buf /\ g.sent = flow[s][d].sent /\ g.got = flow[s][d].sent /\ g.st # "idle"
      BY <1>2, <1>4, <1>6
    <2>2. plan' = plan /\ client' = client /\ server' = server /\ g \in FlowRecords
      BY <1>3, <1>6
    <2> QED BY <1>7, <2>1, <2>2, SameFlow

LEMMA GetResponseStep ==
  ASSUME H2Inv, NEW s \in H2Requests, GetResponse(s)
  PROVE  H2Inv'
  <1>1. client[s] = "awaits" /\ plan' = plan /\ server' = server /\ flow' = flow /\ plan # Unplanned
    BY StreamParts DEF GetResponse
  <1>2. PICK c \in {"reads", "failed"} : client' = [client EXCEPT ![s] = c]
    BY DEF GetResponse
  <1>3. PICK fs \in Flows, v \in Servers : fs = flow[s] /\ v = server[s] /\ Stream(s, "awaits", v, fs)
    BY <1>1, StreamParts
  <1>4. Stream(s, c, v, fs) /\ c \in Clients
    BY <1>3 DEF Stream, Clients
  <1> QED BY <1>1, <1>2, <1>3, <1>4, Same, OneStream

LEMMA EndResponseStep ==
  ASSUME H2Inv, NEW s \in H2Requests, EndResponse(s)
  PROVE  H2Inv'
  <1>1. client[s] = "reads" /\ plan' = plan /\ server' = server /\ flow' = flow /\ plan # Unplanned
    BY StreamParts DEF EndResponse
  <1>2. PICK fs \in Flows, v \in Servers : fs = flow[s] /\ v = server[s] /\ Stream(s, "reads", v, fs)
    BY <1>1, StreamParts
  <1>3. PICK c \in {"done", "failed"} :
          client' = [client EXCEPT ![s] = c] /\ (c = "done" => fs.down.st = "ended" /\ fs.down.got = fs.down.sent)
    BY <1>2 DEF EndResponse
  <1>4. Stream(s, c, v, fs) /\ c \in Clients
    BY <1>2, <1>3 DEF Stream, Clients
  <1> QED BY <1>1, <1>2, <1>3, <1>4, Same, OneStream

LEMMA AcceptStreamStep ==
  ASSUME H2Inv, NEW s \in H2Requests, AcceptStream(s)
  PROVE  H2Inv'
  <1>1. /\ server[s] = "opened" /\ server' = [server EXCEPT ![s] = "call"]
        /\ plan' = plan /\ client' = client /\ flow' = flow
    BY DEF AcceptStream
  <1>2. PICK fs \in Flows, c \in Clients : fs = flow[s] /\ c = client[s] /\ Stream(s, c, "opened", fs)
    BY <1>1, StreamParts
  <1>3. Stream(s, c, "call", fs) /\ "call" \in Servers /\ plan # Unplanned
    BY <1>2, StreamParts DEF Stream, Servers
  <1> QED BY <1>1, <1>2, <1>3, Same, OneStream

LEMMA ResetStreamStep ==
  ASSUME H2Inv, NEW s \in H2Requests, ResetStream(s)
  PROVE  H2Inv'
  <1>1. PICK fs \in Flows, c \in Clients, v \in Servers :
          fs = flow[s] /\ c = client[s] /\ v = server[s] /\ Stream(s, c, v, fs)
    BY StreamParts
  <1>2. /\ v \in {"opened", "call", "respond"} /\ flow' = [flow EXCEPT ![s] = ResetFlows(fs)]
        /\ plan' = plan /\ client' = client /\ server' = server
    BY <1>1 DEF ResetStream
  <1>3. c # "new" /\ plan # Unplanned
    BY <1>1, <1>2, StreamParts DEF Stream
  <1>4. PICK new \in Flows : new = ResetFlows(fs) /\ Stream(s, c, v, new)
    BY <1>1, <1>3, ResetOK
  <1> QED BY <1>1, <1>2, <1>3, <1>4, Same, OneStream

LEMMA LoseConnStep ==
  ASSUME H2Inv, LoseConn
  PROVE  H2Inv'
  <1>1. /\ plan' = plan
        /\ flow' = [s \in H2Requests |-> IF client[s] = "new" THEN flow[s] ELSE ResetFlows(flow[s])]
        /\ server' = [s \in H2Requests |-> IF server[s] = "opened" THEN "over" ELSE server[s]]
        /\ client' = [s \in H2Requests |-> IF client[s] = "new" THEN "failed" ELSE client[s]]
    BY DEF LoseConn
  <1>2. ASSUME NEW s \in H2Requests
        PROVE  /\ client'[s] \in Clients /\ server'[s] \in Servers /\ flow'[s] \in Flows
               /\ Stream(s, client'[s], server'[s], flow'[s])
    <2>1. PICK fs \in Flows, c \in Clients, v \in Servers :
            fs = flow[s] /\ c = client[s] /\ v = server[s] /\ Stream(s, c, v, fs)
      BY StreamParts
    <2>2. PICK v2 : v2 = IF v = "opened" THEN "over" ELSE v
      OBVIOUS
    <2>3. v2 \in Servers /\ v2 \in {v, "over"} /\ server'[s] = v2
      BY <1>1, <2>1, <2>2 DEF Servers
    <2>4. CASE c = "new"
      <3>1. client'[s] = "failed" /\ flow'[s] = fs /\ v = "none" /\ v2 = "none"
        BY <1>1, <2>1, <2>2, <2>4 DEF Stream
      <3>2. Stream(s, "failed", "none", fs)
        BY <2>1, <2>4, <3>1 DEF Stream
      <3> QED BY <2>3, <3>1, <3>2 DEF Clients
    <2>5. CASE c # "new"
      <3>1. client'[s] = c /\ flow'[s] = ResetFlows(fs)
        BY <1>1, <2>1, <2>5
      <3>2. ResetFlows(fs) \in Flows /\ Stream(s, c, v2, ResetFlows(fs))
        BY <2>1, <2>3, <2>5, ResetOK
      <3> QED BY <2>3, <3>1, <3>2
    <2> QED BY <2>4, <2>5
  <1>3. H2Types'
    BY <1>1, <1>2 DEF H2Inv, H2Types
  <1>4. ASSUME NEW r \in H2Requests
        PROVE  Stream(r, client[r], server[r], flow[r])'
    <2>1. PICK c2, v2, fs2 : c2 = client'[r] /\ v2 = server'[r] /\ fs2 = flow'[r]
      OBVIOUS
    <2>2. Stream(r, c2, v2, fs2)
      BY <1>2, <2>1
    <2> QED BY <1>1, <2>1, <2>2, StreamStays
  <1>5. plan # Unplanned
    <2>1. PICK s \in H2Requests : server[s] # "none"
      BY DEF LoseConn
    <2> QED BY <2>1, StreamParts DEF Stream
  <1> QED BY <1>1, <1>3, <1>4, <1>5 DEF H2Inv, Unplanned

\* A stream nobody opened, whatever its plan.
LEMMA UnopenedOK ==
  ASSUME NEW s \in H2Requests, NEW fs \in Flows, fs.up = NewFlow, fs.down.st \in {"idle", "reset"},
         fs.down.got <= fs.down.sent, ~fs.down.some => fs.down.buf = 0, fs.down.st = "idle" => fs.down = NewFlow
  PROVE  Stream(s, "new", "none", fs)
  <1>1. FlowOK(fs.up, plan[s].up, Total(plan[s].up)) /\ fs.up.st = "idle"
    BY NewFlowFacts DEF FlowOK
  <1>2. FlowOK(fs.down, ResponseBody(s), Whole(s))
    BY DEF FlowOK
  <1> QED BY <1>1, <1>2 DEF Stream

LEMMA ConnectStep ==
  ASSUME H2Inv, Connect
  PROVE  H2Inv'
  <1>1. plan = Unplanned /\ plan' \in [H2Requests -> Plans] /\ client' = client /\ server' = server /\ flow' = flow
    BY H2PlansAssumption DEF Connect
  <1>2. H2Types'
    BY <1>1 DEF H2Inv, H2Types
  <1>3. \A s \in H2Requests : client[s] = "new"
    BY <1>1, StreamParts
  <1>4. ASSUME NEW s \in H2Requests
        PROVE  Stream(s, client[s], server[s], flow[s])'
    <2>1. PICK fs \in Flows, v \in Servers : fs = flow[s] /\ v = server[s] /\ Stream(s, "new", v, fs)
      BY <1>3, StreamParts
    <2>2. /\ v = "none" /\ fs.up = NewFlow /\ fs.down.st \in {"idle", "reset"}
          /\ fs.down.got <= fs.down.sent /\ (~fs.down.some => fs.down.buf = 0)
          /\ fs.down.st = "idle" => fs.down = NewFlow
      BY <2>1 DEF Stream, FlowOK
    <2>3. Stream(s, "new", "none", fs)'
      BY <2>2, NewFlowFacts DEF Stream, FlowOK
    <2> QED BY <1>1, <1>3, <2>1, <2>2, <2>3
  <1> QED BY <1>1, <1>2, <1>3, <1>4 DEF H2Inv, Unplanned

LEMMA FirstConn ==
  H2Init => H2Inv
  <1> SUFFICES ASSUME H2Init
               PROVE  H2Inv
    OBVIOUS
  <1>1. /\ plan = Unplanned /\ client = [s \in H2Requests |-> "new"] /\ server = [s \in H2Requests |-> "none"]
        /\ flow = [s \in H2Requests |-> [d \in Directions |-> NewFlow]]
    BY DEF H2Init
  <1>2. PICK fs \in Flows : fs = [d \in Directions |-> NewFlow] /\ fs.up = NewFlow /\ fs.down = NewFlow
    <2>1. PICK fs : fs = [d \in Directions |-> NewFlow]
      OBVIOUS
    <2> QED BY <2>1, NewFlowFacts DEF Flows, Directions
  <1>3. Unplanned \in [H2Requests -> Plans]
    <2>1. << >> \in Seq(Nat)
      OBVIOUS
    <2> QED BY <2>1 DEF Unplanned, Plans
  <1>4. H2Types
    <2>1. "new" \in Clients /\ "none" \in Servers
      BY DEF Clients, Servers
    <2> QED BY <1>1, <1>2, <1>3, <2>1 DEF H2Types
  <1>5. ASSUME NEW s \in H2Requests
        PROVE  Stream(s, client[s], server[s], flow[s])
    <2>1. Stream(s, "new", "none", fs)
      BY <1>2, NewFlowFacts, UnopenedOK
    <2> QED BY <1>1, <1>2, <2>1
  <1> QED BY <1>1, <1>4, <1>5 DEF H2Inv

LEMMA H2StepKeeps ==
  ASSUME H2Inv, [H2Next]_h2
  PROVE  H2Inv'
  <1>1. CASE Connect
    BY <1>1, ConnectStep
  <1>2. CASE LoseConn
    BY <1>2, LoseConnStep
  <1>3. ASSUME NEW s \in H2Requests, SendRequest(s)
        PROVE  H2Inv'
    BY <1>3, SendRequestStep
  <1>4. ASSUME NEW s \in H2Requests, Proceeds(s)
        PROVE  H2Inv'
    <2>1. CASE SendBody(s)
      BY <2>1, SendBodyStep
    <2>2. CASE GetResponse(s)
      BY <2>2, GetResponseStep
    <2>3. CASE EndResponse(s)
      BY <2>3, EndResponseStep
    <2>4. CASE AcceptStream(s)
      BY <2>4, AcceptStreamStep
    <2>5. CASE ServiceReady(s)
      BY <2>5, ServiceReadyStep
    <2>6. CASE SendPayload(s)
      BY <2>6, SendPayloadStep
    <2>7. ASSUME NEW d \in Directions, Assign(s, d)
          PROVE  H2Inv'
      BY <2>7, AssignStep
    <2>8. ASSUME NEW d \in Directions, ReadData(s, d)
          PROVE  H2Inv'
      BY <2>8, ReadDataStep
    <2> QED BY <1>4, <2>1, <2>2, <2>3, <2>4, <2>5, <2>6, <2>7, <2>8 DEF Proceeds
  <1>5. ASSUME NEW s \in H2Requests, ResetStream(s)
        PROVE  H2Inv'
    BY <1>5, ResetStreamStep
  <1>6. CASE UNCHANGED h2
    <2>1. plan' = plan /\ client' = client /\ server' = server /\ flow' = flow
      BY <1>6 DEF h2
    <2>2. ASSUME NEW s \in H2Requests
          PROVE  Stream(s, client[s], server[s], flow[s])'
      <3>1. PICK c, v, fs : c = client[s] /\ v = server[s] /\ fs = flow[s] /\ Stream(s, c, v, fs)
        BY StreamParts
      <3> QED BY <2>1, <3>1, StreamStays
    <2> QED BY <2>1, <2>2 DEF H2Inv, H2Types, Unplanned
  <1> QED BY <1>1, <1>2, <1>3, <1>4, <1>5, <1>6 DEF H2Next

\* A direction of a stream that ends has carried its whole body, the body of a 204 is not
\* sent, and a response that was read to its end was read whole: send_body, the
\* ServiceResponse's SendPayload and the two sides' payloads, whatever the windows and chunk
\* sizes cut the bodies into, however many streams share the connection, and with streams
\* that are reset and the connection lost at any time.
THEOREM FlowsCarryAll ==
  H2Spec => []FlowsAreWhole
  <1>1. H2Inv => FlowsAreWhole
    <2> SUFFICES ASSUME H2Inv, NEW s \in H2Requests
                 PROVE  /\ flow[s].up.st = "ended" => flow[s].up.sent = Total(plan[s].up) /\ ~plan[s].broken
                        /\ flow[s].down.st = "ended" => flow[s].down.sent = Whole(s)
                        /\ client[s] = "done" => flow[s].down.got = flow[s].down.sent
      BY DEF FlowsAreWhole, Whole
    <2> QED BY StreamParts DEF Stream, FlowOK
  <1> QED BY <1>1, FirstConn, H2StepKeeps, PTL DEF H2Spec
=============================================================================
