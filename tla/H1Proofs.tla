-------------------------------- MODULE H1Proofs --------------------------------
(***************************************************************************)
(* AnsweredInOrder, BodyIsTruthful and NothingCutShort of H1Connection for *)
(* any pipelines and configurations of the server, and any limits.         *)
(*                                                                         *)
(* The invariant is stated of a script s, its tokens w, a dispatcher d and *)
(* a connection n, and so are the lemmas about the steps: a dispatcher's   *)
(* method takes d to e.  Connected holds at all times: types, what is      *)
(* buffered is the wire beyond what was decoded, and each task has the     *)
(* part of its body that was decoded.  Standing holds while the connection *)
(* is open: what the flags mean for the turn, that requests are begun and  *)
(* queued in the order of the script, one after the other, and that a      *)
(* response that was begun is finished or is the one being sent.           *)
(***************************************************************************)
EXTENDS H1Connection, FiniteSetTheorems, WellFoundedInduction, TLAPS

-----------------------------------------------------------------------------
(* The invariant, of a dispatcher d and a connection n that carries the tokens
   w of script s. *)

\* The records are functions on these names.
Fields == {"pc", "ret", "updated", "drain", "flags", "state", "payload", "messages", "error",
           "readBuf", "writeBuf", "alive", "timer", "fresh", "eof", "woken", "outcome", "rq"}
TaskFields == {"items", "eof", "err", "needRead", "alive", "task", "io", "got", "saw", "go", "out"}
NetFields  == {"sent", "sock", "peer", "blocked", "got"}

IsDisp(d) == d = [f \in Fields |-> d[f]]
IsTask(r) == r = [f \in TaskFields |-> r[f]]
IsNet(n)  == n = [f \in NetFields |-> n[f]]

\* e is d but for the fields F, and so for tasks.
Keeps(d, e, F)     == IsDisp(e) /\ \A f \in Fields \ F : e[f] = d[f]
KeepsTask(r, t, F) == IsTask(t) /\ \A f \in TaskFields \ F : t[f] = r[f]

\* The tokens that come in, those that go out and the queued messages.
InTokens(s) == [t : {"head", "chunk", "end", "corrupt", "malformed"}, req : 1..Len(s), n : Nat]
OutTokens   == [t : {"status", "continue", "data", "fin"}, req : Nat]
Messages(s) == [t : {"item", "upgrade", "error"}, req : 0..Len(s)]

\* The dispatcher's state, its tasks and the rest of its types.
StateOf(x, s) ==
  \/ x = NoState
  \/ x.tag \in {"ExpectCall", "ServiceCall", "SendPayload"} /\ x.req \in 1..Len(s)

TaskType(r) == IsTask(r) /\ r.got \in Seq(Nat) /\ r.items \in Seq(Nat)

Tasks(q, s) == q = [i \in 1..Len(s) |-> q[i]] /\ \A i \in 1..Len(s) : TaskType(q[i])

DispType(s, d) ==
  /\ IsDisp(d) /\ Tasks(d.rq, s)
  /\ d.readBuf \in Seq(InTokens(s)) /\ d.writeBuf \in Seq(OutTokens) /\ d.messages \in Seq(Messages(s))
  /\ \A k \in 1..Len(d.messages) : d.messages[k].t # "error" => d.messages[k].req \in 1..Len(s)
  /\ d.payload \in 0..Len(s) /\ StateOf(d.state, s)

NetType(s, n) ==
  IsNet(n) /\ n.sent \in Nat /\ n.sock \in Seq(InTokens(s)) /\ n.got \in Seq(OutTokens)

\* The script and its tokens: what follows what.
Continues(w, s, k) ==
  /\ w[k].t \in {"chunk", "end", "corrupt"} =>
       k > 1 /\ w[k].req = w[k - 1].req /\ w[k - 1].t \in {"head", "chunk"}
  /\ w[k].t = "chunk" => w[k].n = w[k - 1].n + 1 /\ w[k].n <= s[w[k].req].body
  /\ w[k].t = "end" => w[k - 1].n = s[w[k].req].body /\ ~s[w[k].req].corrupt
  /\ w[k].t \in {"head", "malformed"} =>
       /\ w[k].req = (IF k = 1 THEN 1 ELSE w[k - 1].req + 1)
       /\ k > 1 /\ w[k - 1].t \in {"head", "chunk"} =>
            s[w[k - 1].req].body = 0 \/ s[w[k - 1].req].head = "upgrade"
  /\ w[k].t = "head" => w[k].n = 0

\* w is what the client of script s writes.
Carries(s, w) ==
  /\ s = conf.script /\ s \in Seq(RequestKinds) /\ w \in Seq(InTokens(s))
  /\ \A k \in 1..Len(w) : Continues(w, s, k)

\* How many tokens the codec has taken off the read buffer, and the request it has reached.
Taken(d, n)      == n.sent - Len(n.sock) - Len(d.readBuf)
Reached(w, d, n) == IF Taken(d, n) = 0 THEN 0 ELSE w[Taken(d, n)].req

\* What is buffered is the part of the wire that was sent and is not decoded yet.
WireRead(w, d, n) ==
  /\ n.sent \in 0..Len(w) /\ Taken(d, n) \in Nat
  /\ \A k \in 1..Len(d.readBuf) : d.readBuf[k] = w[Taken(d, n) + k]
  /\ \A k \in 1..Len(n.sock) : n.sock[k] = w[n.sent - Len(n.sock) + k]

\* What the channel of a request of kind k holds and its handler has read.
Held(r) == Len(r.got) + Len(r.items)

\* The task r of a request of kind k has the body of the request up to a point, and an
\* end only at its end.
TaskOK(k, r, peer) ==
  /\ \A j \in 1..Len(r.got) : r.got[j] = j
  /\ \A j \in 1..Len(r.items) : r.items[j] = Len(r.got) + j
  /\ Held(r) <= k.body
  /\ r.eof /\ peer = "open" => Held(r) = k.body /\ ~k.corrupt
  /\ r.saw = "eof" => r.eof /\ r.items = << >>
  /\ k.handler = "reader" /\ k.body > 0 /\ k.expect \notin Refusals => r.alive \/ r.eof \/ r.err

\* A request the codec has not reached.
Untouched(r) == Held(r) = 0 /\ ~r.eof /\ ~r.err

\* The payload that is being fed is the one of the token that was taken last, t.
Feeding(s, r, t, j) ==
  /\ t.t \in {"head", "chunk"} /\ t.req = j
  /\ s[j].head # "upgrade" /\ s[j].body > 0
  /\ r.alive => Held(r) = t.n
  /\ ~r.eof /\ ~r.err

\* Whether request i of state x, which waits for its expectation or service, came that far.
Admitted(s, x) ==
  /\ x.tag = "ExpectCall" => s[x.req].expect # "fails"
  /\ x.tag = "ServiceCall" => s[x.req].expect \notin Refusals

\* Each body goes to the task of its request and to no other.
Bodies(s, w, d, n) ==
  /\ \A i \in 1..Len(s) : TaskOK(s[i], d.rq[i], n.peer)
  /\ \A i \in 1..Len(s) : i > Reached(w, d, n) => Untouched(d.rq[i])
  /\ d.payload # 0 =>
       Taken(d, n) > 0 /\ Feeding(s, d.rq[d.payload], w[Taken(d, n)], d.payload)
  /\ d.eof => n.peer # "open"
  /\ Admitted(s, d.state)
  /\ ~d.error => \A k \in 1..Taken(d, n) : ~(w[k].t = "chunk" /\ s[w[k].req].head = "upgrade")

-----------------------------------------------------------------------------
(* Tasks and payloads. *)

\* What a script says of a request.
LEMMA KindFacts ==
  ASSUME NEW s, NEW w, Carries(s, w), NEW i \in 1..Len(s)
  PROVE  /\ Kind(i) = s[i] /\ s[i].body \in Nat /\ s[i].corrupt \in BOOLEAN
         /\ s[i].head \in {"keep", "close", "malformed", "upgrade"}
         /\ s[i].expect \in {"no", "ready", "fails", "later", "refused"}
         /\ s[i].handler \in {"quick", "slow", "reader", "dropper"}
         /\ s[i].resp \in {"empty", "full", "stream", "broken"}
  <1>1. Kind(i) = s[i] /\ s[i] \in RequestKinds
    BY DEF Carries, Kind
  <1> QED BY <1>1 DEF RequestKinds

\* Payload::poll_next until it is pending.
LEMMA ReadAllFacts ==
  ASSUME NEW r, TaskType(r), NEW t, t = ReadAll(r)
  PROVE  /\ TaskType(t) /\ t.eof = r.eof /\ t.err = r.err /\ t.go = r.go
         /\ t.got = r.got \o r.items /\ t.items = << >>
         /\ t.saw = "eof" => r.saw = "eof" \/ r.eof
         /\ (t.alive <=> ~(r.eof \/ r.err))
  <1>1. IsTask(r)
    BY DEF TaskType
  <1>2. /\ KeepsTask(r, t, {"items", "needRead", "saw", "task", "io", "alive", "got"})
        /\ t.got = r.got \o r.items /\ t.items = << >> /\ (t.alive <=> ~(r.eof \/ r.err))
        /\ t.saw = (IF r.err THEN "err" ELSE IF r.eof THEN "eof" ELSE r.saw)
    BY <1>1 DEF ReadAll, IsTask, KeepsTask, TaskFields
  <1>3. t.got \in Seq(Nat) /\ t.items \in Seq(Nat)
    BY <1>2 DEF TaskType
  <1>4. t.eof = r.eof /\ t.err = r.err /\ t.go = r.go /\ t.out = r.out
    BY <1>2 DEF KeepsTask, TaskFields
  <1>5. t.saw = "eof" => r.saw = "eof" \/ r.eof
    BY <1>2
  <1> QED BY <1>2, <1>3, <1>4, <1>5 DEF TaskType, KeepsTask

\* What one poll of a handler does to its task.
Polled(k, r, t) ==
  /\ TaskType(t) /\ t.eof = r.eof /\ t.err = r.err /\ (t.go => r.go)
  /\ \/ /\ t.got = r.got /\ t.items = r.items /\ t.saw = r.saw
        /\ t.alive => r.alive
        /\ k.handler # "reader" \/ k.body = 0
     \/ /\ k.handler = "reader" /\ k.body > 0
        /\ t.got = r.got \o r.items /\ t.items = << >> /\ (t.alive <=> ~(r.eof \/ r.err))
        /\ t.saw = "eof" => r.saw = "eof" \/ r.eof

\* A poll of a handler changes its own task only.
LEMMA PollHandlerFacts ==
  ASSUME NEW s, NEW w, Carries(s, w), NEW d, IsDisp(d), Tasks(d.rq, s), NEW i \in 1..Len(s),
         NEW e, e = PollHandler(d, i)
  PROVE  /\ Keeps(d, e, {"rq", "woken"}) /\ Tasks(e.rq, s)
         /\ \A j \in 1..Len(s) : j # i => e.rq[j] = d.rq[j]
         /\ Polled(s[i], d.rq[i], e.rq[i])
  <1>1. PICK k : k = s[i] /\ k = Kind(i) /\ k.body \in Nat
    BY KindFacts
  <1>2. PICK r : r = d.rq[i] /\ TaskType(r)
    BY DEF Tasks
  <1>3. PICK t : t = IF k.handler = "reader" /\ k.body > 0 THEN ReadAll(r)
                     ELSE [r EXCEPT !.alive = @ /\ k.handler = "slow" /\ ~r.go, !.go = FALSE]
    OBVIOUS
  <1>4. PICK v : e = [d EXCEPT !.rq[i] = t, !.woken = v]
    BY <1>1, <1>2, <1>3 DEF PollHandler
  <1>5. Polled(k, r, t)
    <2>1. CASE k.handler = "reader" /\ k.body > 0
      <3>1. t = ReadAll(r)
        BY <1>3, <2>1
      <3>2. /\ TaskType(t) /\ t.eof = r.eof /\ t.err = r.err /\ t.go = r.go
            /\ t.got = r.got \o r.items /\ t.items = << >> /\ (t.alive <=> ~(r.eof \/ r.err))
            /\ t.saw = "eof" => r.saw = "eof" \/ r.eof
        BY <1>2, <3>1, ReadAllFacts, ZenonT(60)
      <3> QED BY <2>1, <3>2 DEF Polled
    <2>2. CASE ~(k.handler = "reader" /\ k.body > 0)
      <3>1. IsTask(r)
        BY <1>2 DEF TaskType
      <3>2. /\ KeepsTask(r, t, {"alive", "go"}) /\ t.alive = (r.alive /\ k.handler = "slow" /\ ~r.go)
            /\ t.go = FALSE
        BY <1>3, <2>2, <3>1 DEF IsTask, KeepsTask, TaskFields
      <3>3. t.eof = r.eof /\ t.err = r.err /\ t.got = r.got /\ t.items = r.items /\ t.saw = r.saw
        BY <3>2 DEF KeepsTask, TaskFields
      <3>4. (t.alive => r.alive) /\ (t.go => r.go)
        BY <3>2
      <3>5. TaskType(t) /\ (k.handler # "reader" \/ k.body = 0)
        BY <1>1, <1>2, <2>2, <3>2, <3>3 DEF TaskType, KeepsTask
      <3> QED BY <3>3, <3>4, <3>5, Zenon DEF Polled
    <2> QED BY <2>1, <2>2
  <1>6. Keeps(d, e, {"rq", "woken"}) /\ e.rq = [d.rq EXCEPT ![i] = t]
    BY <1>4 DEF IsDisp, Keeps, Fields
  <1>7. /\ e.rq = [j \in 1..Len(s) |-> e.rq[j]] /\ e.rq[i] = t
        /\ \A j \in 1..Len(s) : j # i => e.rq[j] = d.rq[j]
    BY <1>6 DEF Tasks
  <1>8. Tasks(e.rq, s)
    BY <1>5, <1>7 DEF Tasks, Polled
  <1> QED BY <1>1, <1>2, <1>5, <1>6, <1>7, <1>8

\* t is r but for what no property asks for.
SameTask(r, t) ==
  /\ TaskType(t) /\ t.got = r.got /\ t.items = r.items /\ t.saw = r.saw
  /\ t.eof = r.eof /\ t.err = r.err /\ t.alive = r.alive

\* One task of d has changed.
OnlyTask(s, d, e, i) ==
  Tasks(e.rq, s) /\ \A j \in 1..Len(s) : j # i => e.rq[j] = d.rq[j]

\* set_error and feed_eof close the open channel.
LEMMA SetErrorFacts ==
  ASSUME NEW s, NEW d, DispType(s, d), NEW e, e = SetError(d)
  PROVE  /\ Keeps(d, e, {"rq", "payload"}) /\ e.payload = 0
         /\ d.payload = 0 => e.rq = d.rq
         /\ d.payload # 0 =>
              /\ OnlyTask(s, d, e, d.payload)
              /\ KeepsTask(d.rq[d.payload], e.rq[d.payload], {"err"})
              /\ d.rq[d.payload].err \/ d.rq[d.payload].alive => e.rq[d.payload].err
  <1>1. CASE d.payload = 0
    BY <1>1 DEF SetError, Keeps, DispType, IsDisp, Fields
  <1>2. CASE d.payload # 0
    <2>1. PICK j \in 1..Len(s) : j = d.payload
      BY <1>2 DEF DispType
    <2>2. PICK r : r = d.rq[j] /\ TaskType(r)
      BY DEF DispType, Tasks
    <2>3. PICK t : t = [r EXCEPT !.err = r.err \/ r.alive]
      OBVIOUS
    <2>4. e = [d EXCEPT !.rq[j] = t, !.payload = 0]
      BY <1>2, <2>1, <2>2, <2>3 DEF SetError
    <2>5. KeepsTask(r, t, {"err"}) /\ (r.err \/ r.alive => t.err)
      BY <2>2, <2>3 DEF TaskType, IsTask, KeepsTask, TaskFields
    <2>6. TaskType(t)
      BY <2>2, <2>5 DEF TaskType, KeepsTask, TaskFields
    <2>7. Keeps(d, e, {"rq", "payload"}) /\ e.rq = [d.rq EXCEPT ![j] = t] /\ e.payload = 0
      BY <2>4 DEF DispType, IsDisp, Keeps, Fields
    <2>8. /\ e.rq = [i \in 1..Len(s) |-> e.rq[i]] /\ e.rq[j] = t
          /\ \A i \in 1..Len(s) : i # j => e.rq[i] = d.rq[i]
      BY <2>7 DEF DispType, Tasks
    <2>9. OnlyTask(s, d, e, j)
      BY <2>6, <2>8 DEF OnlyTask, DispType, Tasks
    <2> QED BY <1>2, <2>1, <2>2, <2>5, <2>7, <2>8, <2>9
  <1> QED BY <1>1, <1>2

LEMMA FeedEofFacts ==
  ASSUME NEW s, NEW d, DispType(s, d), NEW e, e = FeedEof(d)
  PROVE  /\ Keeps(d, e, {"rq", "payload"}) /\ e.payload = 0
         /\ d.payload = 0 => e.rq = d.rq
         /\ d.payload # 0 =>
              /\ OnlyTask(s, d, e, d.payload)
              /\ KeepsTask(d.rq[d.payload], e.rq[d.payload], {"eof"})
              /\ e.rq[d.payload].eof <=> d.rq[d.payload].eof \/ d.rq[d.payload].alive
  <1>1. CASE d.payload = 0
    BY <1>1 DEF FeedEof, Keeps, DispType, IsDisp, Fields
  <1>2. CASE d.payload # 0
    <2>1. PICK j \in 1..Len(s) : j = d.payload
      BY <1>2 DEF DispType
    <2>2. PICK r : r = d.rq[j] /\ TaskType(r)
      BY DEF DispType, Tasks
    <2>3. PICK t : t = [r EXCEPT !.eof = r.eof \/ r.alive]
      OBVIOUS
    <2>4. e = [d EXCEPT !.rq[j] = t, !.payload = 0]
      BY <1>2, <2>1, <2>2, <2>3 DEF FeedEof
    <2>5. KeepsTask(r, t, {"eof"}) /\ (t.eof <=> r.eof \/ r.alive)
      BY <2>2, <2>3 DEF TaskType, IsTask, KeepsTask, TaskFields
    <2>6. TaskType(t)
      BY <2>2, <2>5 DEF TaskType, KeepsTask, TaskFields
    <2>7. Keeps(d, e, {"rq", "payload"}) /\ e.rq = [d.rq EXCEPT ![j] = t] /\ e.payload = 0
      BY <2>4 DEF DispType, IsDisp, Keeps, Fields
    <2>8. /\ e.rq = [i \in 1..Len(s) |-> e.rq[i]] /\ e.rq[j] = t
          /\ \A i \in 1..Len(s) : i # j => e.rq[i] = d.rq[i]
      BY <2>7 DEF DispType, Tasks
    <2>9. OnlyTask(s, d, e, j)
      BY <2>6, <2>8 DEF OnlyTask, DispType, Tasks
    <2> QED BY <1>2, <2>1, <2>2, <2>5, <2>7, <2>8, <2>9
  <1> QED BY <1>1, <1>2

\* Chunk n is put into a channel.
Pushed(r, t, n) ==
  KeepsTask(r, t, {"items", "needRead", "task"}) /\ t.items = Append(r.items, n)

LEMMA FeedDataFacts ==
  ASSUME NEW s, NEW d, DispType(s, d), NEW n \in Nat, NEW j \in 1..Len(s), j = d.payload,
         NEW e, e = FeedData(d, n)
  PROVE  /\ Keeps(d, e, {"rq", "woken"}) /\ OnlyTask(s, d, e, j)
         /\ ~d.rq[j].alive => e.rq[j] = d.rq[j]
         /\ d.rq[j].alive => Pushed(d.rq[j], e.rq[j], n)
  <1>1. PICK r : r = d.rq[j] /\ TaskType(r)
    BY DEF DispType, Tasks
  <1>2. CASE ~r.alive
    <2>1. e = d
      BY <1>1, <1>2 DEF FeedData
    <2> QED BY <1>1, <1>2, <2>1 DEF Keeps, DispType, IsDisp, Fields, OnlyTask
  <1>3. CASE r.alive
    <2>1. PICK x : x = Append(r.items, n) /\ x \in Seq(Nat)
      <3>1. r.items \in Seq(Nat)
        BY <1>1 DEF TaskType
      <3>2. Append(r.items, n) \in Seq(Nat)
        BY <3>1
      <3> QED BY <3>2
    <2>2. PICK b : b = (Len(r.items) + 1 < MaxPayload)
      OBVIOUS
    <2>3. PICK t : t = [r EXCEPT !.items = x, !.needRead = b, !.task = FALSE]
      OBVIOUS
    <2>4. PICK v : e = [d EXCEPT !.rq[j] = t, !.woken = v]
      BY <1>1, <1>3, <2>1, <2>2, <2>3, ZenonT(60) DEF FeedData
    <2>5. KeepsTask(r, t, {"items", "needRead", "task"}) /\ t.items = x
      BY <1>1, <2>3 DEF TaskType, IsTask, KeepsTask, TaskFields
    <2>6. TaskType(t)
      BY <1>1, <2>1, <2>5 DEF TaskType, KeepsTask, TaskFields
    <2>7. Keeps(d, e, {"rq", "woken"}) /\ e.rq = [d.rq EXCEPT ![j] = t]
      BY <2>4 DEF DispType, IsDisp, Keeps, Fields
    <2>8. /\ e.rq = [i \in 1..Len(s) |-> e.rq[i]] /\ e.rq[j] = t
          /\ \A i \in 1..Len(s) : i # j => e.rq[i] = d.rq[i]
      BY <2>7 DEF DispType, Tasks
    <2>9. OnlyTask(s, d, e, j)
      BY <2>6, <2>8 DEF OnlyTask, DispType, Tasks
    <2>10. Pushed(r, t, n)
      BY <2>1, <2>5 DEF Pushed
    <2> QED BY <1>1, <1>3, <2>7, <2>8, <2>9, <2>10
  <1> QED BY <1>1, <1>2, <1>3

-----------------------------------------------------------------------------
(* Requests and responses. *)

\* poll_request, where it returns to.
LEMMA EndPollFacts ==
  ASSUME NEW d, IsDisp(d), NEW e, e = EndPollRequest(d)
  PROVE  /\ Keeps(d, e, {"fresh", "pc"})
         /\ e.pc = (IF d.ret = "poll" THEN "eof" ELSE IF d.updated THEN "respond" ELSE "flush")
  <1>1. PICK v, p : /\ e = [d EXCEPT !.fresh = v, !.pc = p]
                    /\ p = IF d.ret = "poll" THEN "eof" ELSE IF d.updated THEN "respond" ELSE "flush"
    BY DEF EndPollRequest
  <1> QED BY <1>1 DEF IsDisp, Keeps, Fields

LEMMA PollRequestFacts ==
  ASSUME NEW s, NEW d, DispType(s, d), NEW caller \in {"poll", "response"},
         NEW e, e = PollRequest(d, caller)
  PROVE  /\ Keeps(d, e, {"ret", "updated", "pc", "fresh", "rq"}) /\ Tasks(e.rq, s)
         /\ \A i \in 1..Len(s) : SameTask(d.rq[i], e.rq[i]) /\ e.rq[i].go = d.rq[i].go
         /\ \/ e.pc = "decode" /\ "READ_DISCONNECT" \notin d.flags /\ e.ret = caller
            \/ e.pc = IF caller = "poll" THEN "eof" ELSE "flush"
  <1>1. PICK g : g = [d EXCEPT !.ret = caller, !.updated = FALSE]
    OBVIOUS
  <1>2. Keeps(d, g, {"ret", "updated"}) /\ g.ret = caller /\ g.updated = FALSE
    BY <1>1 DEF DispType, IsDisp, Keeps, Fields
  <1>3. \A i \in 1..Len(s) : SameTask(d.rq[i], d.rq[i])
    BY DEF SameTask, DispType, Tasks
  <1>4. CASE Len(d.messages) < MaxPipelined /\ CanRead(d)
    <2>1. e = [g EXCEPT !.pc = "decode"] /\ "READ_DISCONNECT" \notin d.flags
      BY <1>1, <1>4 DEF PollRequest, Goto, CanRead
    <2>2. Keeps(d, e, {"ret", "updated", "pc"}) /\ e.pc = "decode" /\ e.ret = caller
      BY <1>2, <2>1 DEF IsDisp, Keeps, Fields
    <2>3. e.rq = d.rq /\ Tasks(d.rq, s)
      BY <2>2 DEF Keeps, Fields, DispType
    <2> QED BY <1>3, <2>1, <2>2, <2>3 DEF Keeps
  <1>5. CASE ~(Len(d.messages) < MaxPipelined /\ CanRead(d))
    <2>1. PICK h : /\ e = EndPollRequest(h)
                   /\ h = g \/ (d.payload # 0 /\ h = [g EXCEPT !.rq[d.payload].io = TRUE])
      BY <1>1, <1>5 DEF PollRequest
    <2>2. Keeps(d, h, {"ret", "updated", "rq"}) /\ h.ret = caller /\ h.updated = FALSE
      BY <1>2, <2>1 DEF IsDisp, Keeps, Fields
    <2>3. Tasks(h.rq, s) /\ \A i \in 1..Len(s) : SameTask(d.rq[i], h.rq[i]) /\ h.rq[i].go = d.rq[i].go
      <3>1. g.rq = d.rq /\ Tasks(d.rq, s)
        BY <1>2 DEF Keeps, Fields, DispType
      <3>2. CASE h = g
        BY <1>3, <3>1, <3>2
      <3>3. CASE h # g
        <4>1. PICK j \in 1..Len(s) : j = d.payload
          BY <2>1, <3>3 DEF DispType
        <4>2. PICK t : t = [d.rq[j] EXCEPT !.io = TRUE]
          OBVIOUS
        <4>3. h = [g EXCEPT !.rq[j] = t]
          BY <2>1, <3>1, <3>3, <4>1, <4>2
        <4>4. h.rq = [d.rq EXCEPT ![j] = t]
          BY <1>2, <3>1, <4>3 DEF IsDisp, Keeps, Fields
        <4>5. TaskType(d.rq[j])
          BY DEF DispType, Tasks
        <4>6. KeepsTask(d.rq[j], t, {"io"})
          BY <4>2, <4>5 DEF TaskType, IsTask, KeepsTask, TaskFields
        <4>7. SameTask(d.rq[j], t) /\ t.go = d.rq[j].go
          BY <4>5, <4>6 DEF TaskType, KeepsTask, TaskFields, SameTask
        <4>8. /\ h.rq = [i \in 1..Len(s) |-> h.rq[i]] /\ h.rq[j] = t
              /\ \A i \in 1..Len(s) : i # j => h.rq[i] = d.rq[i]
          BY <4>4 DEF DispType, Tasks
        <4>9. \A i \in 1..Len(s) : SameTask(d.rq[i], h.rq[i]) /\ h.rq[i].go = d.rq[i].go
          BY <1>3, <4>7, <4>8
        <4> QED BY <4>8, <4>9 DEF Tasks, SameTask
      <3> QED BY <3>2, <3>3
    <2>4. Keeps(h, e, {"fresh", "pc"}) /\ e.pc = IF caller = "poll" THEN "eof" ELSE "flush"
      <3>1. IsDisp(h)
        BY <2>2 DEF Keeps
      <3> QED BY <2>1, <2>2, <3>1, EndPollFacts
    <2>5. Keeps(d, e, {"ret", "updated", "pc", "fresh", "rq"}) /\ e.rq = h.rq
      BY <2>2, <2>4 DEF Keeps, Fields
    <2> QED BY <2>3, <2>4, <2>5
  <1> QED BY <1>4, <1>5

\* The flags that the properties ask for.
Signals == {"READ_DISCONNECT", "WRITE_DISCONNECT", "SHUTDOWN", "STARTED"}
SameFlags(d, e) == \A f \in Signals : f \in e.flags <=> f \in d.flags

\* send_response, which leaves state x.
Responded(d, i, x) ==
  [Write(d, Token("status", i)) EXCEPT
     !.flags = IF d.alive THEN @ \cup {"KEEPALIVE"} ELSE @ \ {"KEEPALIVE"}, !.state = x]

\* send_response.
LEMMA ResponseFacts ==
  ASSUME NEW d, IsDisp(d), NEW i, NEW x, NEW e, e = Responded(d, i, x)
  PROVE  /\ Keeps(d, e, {"writeBuf", "flags", "state"}) /\ SameFlags(d, e)
         /\ e.writeBuf = Append(d.writeBuf, Token("status", i)) /\ e.state = x
  <1>1. PICK g : g = [d EXCEPT !.writeBuf = Append(d.writeBuf, Token("status", i))]
    OBVIOUS
  <1>2. /\ Keeps(d, g, {"writeBuf"}) /\ g.writeBuf = Append(d.writeBuf, Token("status", i))
        /\ g.flags = d.flags
    BY <1>1 DEF IsDisp, Keeps, Fields
  <1>3. PICK fs :
          /\ e = [g EXCEPT !.flags = fs, !.state = x]
          /\ fs = IF d.alive THEN d.flags \cup {"KEEPALIVE"} ELSE d.flags \ {"KEEPALIVE"}
    BY <1>1, <1>2 DEF Responded, Write
  <1>4. /\ Keeps(d, e, {"writeBuf", "flags", "state"})
        /\ e.writeBuf = Append(d.writeBuf, Token("status", i)) /\ e.flags = fs /\ e.state = x
    BY <1>2, <1>3 DEF IsDisp, Keeps, Fields
  <1>5. SameFlags(d, e)
    BY <1>3, <1>4 DEF SameFlags, Signals
  <1> QED BY <1>4, <1>5

LEMMA EmptyResponse ==
  ASSUME NEW d, IsDisp(d), NEW i
  PROVE  SendResponse(d, i, FALSE) = Responded(d, i, NoState)
  BY DEF SendResponse, Responded, Write, IsDisp, Fields

\* What becomes of request i of kind k when its service has been called or polled: it is
\* pending, its response is under way, or it has been answered with an empty body.
Pending(k, q, d, e, i) ==
  /\ e.writeBuf = q /\ e.state.req = i
  /\ \/ e.state.tag = "ExpectCall" /\ k.expect # "fails"
     \/ e.state.tag = "ServiceCall" /\ k.expect \notin Refusals
Answering(q, e, i) ==
  /\ e.writeBuf = Append(q, Token("status", i))
  /\ e.state.tag = "SendPayload" /\ e.state.req = i
AtOnce(k, r) == k.resp = "empty" /\ (k.expect \in Refusals \/ k.handler \in {"quick", "reader"} \/ r.go)
Closing(k, q, d, e, i) ==
  /\ e.writeBuf = Append(q, Token("status", i)) /\ e.state = NoState
  /\ AtOnce(k, d.rq[i])

Served(k, q, d, e, i) == Pending(k, q, d, e, i) \/ Answering(q, e, i) \/ Closing(k, q, d, e, i)

\* What becomes of its task.
Attended(k, r, t) ==
  \/ k.expect \notin Refusals /\ Polled(k, r, t)
  \/ t = r
  \/ k.expect \in Refusals /\ KeepsTask(r, t, {"alive", "go"}) /\ (t.go => r.go) /\ TaskType(t) /\ ~t.alive

\* What handle_request does for request i.
Handled(s, d, e, i) ==
  /\ Keeps(d, e, {"rq", "woken", "writeBuf", "state", "flags"}) /\ SameFlags(d, e)
  /\ OnlyTask(s, d, e, i) /\ Attended(s[i], d.rq[i], e.rq[i])
  /\ \E q : /\ q = d.writeBuf \/ q = Append(d.writeBuf, Token("continue", i))
            /\ Served(s[i], q, d, e, i)

\* The service answers at once, is called, or is refused or kept waiting.
LEMMA RespondFacts ==
  ASSUME NEW s, NEW w, Carries(s, w), NEW d, IsDisp(d), Tasks(d.rq, s), NEW i \in 1..Len(s),
         IsReady(d, i), NEW e, e = Respond(PollHandler(d, i), i)
  PROVE  /\ Keeps(d, e, {"rq", "woken", "writeBuf", "state", "flags"}) /\ SameFlags(d, e)
         /\ OnlyTask(s, d, e, i) /\ Polled(s[i], d.rq[i], e.rq[i])
         /\ Answering(d.writeBuf, e, i) \/ Closing(s[i], d.writeBuf, d, e, i)
  <1>1. PICK k : k = s[i] /\ k = Kind(i)
    BY KindFacts
  <1>2. PICK p : p = PollHandler(d, i)
    OBVIOUS
  <1>3. /\ Keeps(d, p, {"rq", "woken"}) /\ Tasks(p.rq, s)
        /\ \A j \in 1..Len(s) : j # i => p.rq[j] = d.rq[j]
        /\ Polled(s[i], d.rq[i], p.rq[i])
    BY <1>2, PollHandlerFacts
  <1>4. PICK x : x = IF k.resp # "empty" THEN [tag |-> "SendPayload", req |-> i] ELSE NoState
    OBVIOUS
  <1>5. IsDisp(p) /\ e = Responded(p, i, x)
    <2>1. IsDisp(p)
      BY <1>3 DEF Keeps
    <2> QED BY <1>1, <1>2, <1>4, <2>1 DEF Respond, SendResponse, Responded, Write, IsDisp, Fields
  <1>6. /\ Keeps(p, e, {"writeBuf", "flags", "state"}) /\ SameFlags(p, e)
        /\ e.writeBuf = Append(p.writeBuf, Token("status", i)) /\ e.state = x
    BY <1>5, ResponseFacts
  <1>7. /\ Keeps(d, e, {"rq", "woken", "writeBuf", "state", "flags"})
        /\ e.rq = p.rq /\ p.flags = d.flags /\ p.writeBuf = d.writeBuf
    BY <1>3, <1>6 DEF Keeps, Fields
  <1>8. SameFlags(d, e)
    BY <1>6, <1>7 DEF SameFlags
  <1>9. CASE k.resp # "empty"
    BY <1>1, <1>3, <1>4, <1>6, <1>7, <1>8, <1>9 DEF OnlyTask, Answering
  <1>10. CASE k.resp = "empty"
    <2>1. k.handler \in {"quick", "reader"} \/ d.rq[i].go
      BY <1>1 DEF IsReady
    <2> QED BY <1>1, <1>3, <1>4, <1>6, <1>7, <1>8, <1>10, <2>1 DEF OnlyTask, Closing, AtOnce
  <1> QED BY <1>9, <1>10

LEMMA CallServiceFacts ==
  ASSUME NEW s, NEW w, Carries(s, w), NEW d, IsDisp(d), Tasks(d.rq, s), NEW i \in 1..Len(s),
         s[i].expect \notin Refusals, NEW e, e = CallService(d, i)
  PROVE  /\ Keeps(d, e, {"rq", "woken", "writeBuf", "state", "flags"}) /\ SameFlags(d, e)
         /\ OnlyTask(s, d, e, i) /\ Polled(s[i], d.rq[i], e.rq[i])
         /\ Served(s[i], d.writeBuf, d, e, i)
  <1>1. CASE IsReady(d, i)
    <2>1. e = Respond(PollHandler(d, i), i)
      BY <1>1 DEF CallService
    <2> QED BY <1>1, <2>1, RespondFacts DEF Served
  <1>2. CASE ~IsReady(d, i)
    <2>1. PICK p : p = PollHandler(d, i)
      OBVIOUS
    <2>2. /\ Keeps(d, p, {"rq", "woken"}) /\ Tasks(p.rq, s)
          /\ \A j \in 1..Len(s) : j # i => p.rq[j] = d.rq[j]
          /\ Polled(s[i], d.rq[i], p.rq[i])
      BY <2>1, PollHandlerFacts
    <2>3. e = [p EXCEPT !.state = [tag |-> "ServiceCall", req |-> i]]
      BY <1>2, <2>1 DEF CallService
    <2>4. /\ Keeps(d, e, {"rq", "woken", "state"}) /\ e.rq = p.rq
          /\ e.state = [tag |-> "ServiceCall", req |-> i]
      BY <2>2, <2>3 DEF IsDisp, Keeps, Fields
    <2>5. /\ Keeps(d, e, {"rq", "woken", "writeBuf", "state", "flags"})
          /\ e.flags = d.flags /\ e.writeBuf = d.writeBuf
      BY <2>4 DEF Keeps, Fields
    <2> QED BY <2>2, <2>4, <2>5 DEF OnlyTask, SameFlags, Served, Pending
  <1> QED BY <1>1, <1>2

\* An expectation is refused at its first poll, or at a later one, which takes `go`.
LEMMA RefuseFacts ==
  ASSUME NEW s, NEW w, Carries(s, w), NEW d, IsDisp(d), Tasks(d.rq, s), NEW i \in 1..Len(s),
         s[i].expect \in Refusals, NEW c, c = d \/ c = [d EXCEPT !.rq[i].go = FALSE],
         NEW e, e = Refuse(c, i)
  PROVE  /\ Keeps(d, e, {"rq", "woken", "writeBuf", "state", "flags"}) /\ SameFlags(d, e)
         /\ OnlyTask(s, d, e, i) /\ Attended(s[i], d.rq[i], e.rq[i]) /\ (e.rq[i].go => d.rq[i].go)
         /\ Answering(d.writeBuf, e, i) \/ Closing(s[i], d.writeBuf, d, e, i)
  <1>1. PICK r : r = d.rq[i] /\ TaskType(r)
    BY DEF Tasks
  <1>2. PICK k : k = s[i] /\ k = Kind(i)
    BY KindFacts
  <1>3. PICK v : /\ KeepsTask(r, v, {"go"}) /\ (v.go => r.go)
                 /\ Keeps(d, c, {"rq"}) /\ c.rq = [d.rq EXCEPT ![i] = v]
    <2>1. CASE c = d
      <3>1. KeepsTask(r, r, {"go"})
        BY <1>1 DEF TaskType, KeepsTask
      <3>2. Keeps(d, c, {"rq"}) /\ c.rq = [d.rq EXCEPT ![i] = r]
        BY <1>1, <2>1 DEF Keeps, Tasks
      <3> QED BY <3>1, <3>2
    <2>2. CASE c = [d EXCEPT !.rq[i].go = FALSE]
      <3>1. PICK v : v = [r EXCEPT !.go = FALSE]
        OBVIOUS
      <3>2. KeepsTask(r, v, {"go"}) /\ (v.go => r.go)
        BY <1>1, <3>1 DEF TaskType, IsTask, KeepsTask, TaskFields
      <3>3. c = [d EXCEPT !.rq = [d.rq EXCEPT ![i] = v]]
        BY <1>1, <2>2, <3>1
      <3>4. Keeps(d, c, {"rq"}) /\ c.rq = [d.rq EXCEPT ![i] = v]
        BY <3>3 DEF IsDisp, Keeps, Fields
      <3> QED BY <3>2, <3>4
    <2> QED BY <2>1, <2>2
  <1>4. PICK t : t = [v EXCEPT !.alive = FALSE]
    OBVIOUS
  <1>5. KeepsTask(v, t, {"alive"}) /\ ~t.alive
    BY <1>3, <1>4 DEF IsTask, KeepsTask, TaskFields
  <1>6. KeepsTask(r, t, {"alive", "go"}) /\ (t.go => r.go)
    BY <1>3, <1>5 DEF KeepsTask, TaskFields
  <1>7. TaskType(t)
    BY <1>1, <1>6 DEF TaskType, KeepsTask, TaskFields
  <1>8. PICK b : b = [c EXCEPT !.rq[i].alive = FALSE] /\ e = Respond(b, i)
    BY DEF Refuse
  <1>9. Keeps(d, b, {"rq"}) /\ b.rq = [d.rq EXCEPT ![i] = t]
    <2>1. c.rq[i] = v /\ IsDisp(c)
      BY <1>3 DEF Tasks, Keeps
    <2>2. b = [c EXCEPT !.rq = [c.rq EXCEPT ![i] = t]]
      BY <1>4, <1>8, <2>1
    <2>3. Keeps(c, b, {"rq"}) /\ b.rq = [c.rq EXCEPT ![i] = t]
      BY <2>1, <2>2 DEF IsDisp, Keeps, Fields
    <2>4. [c.rq EXCEPT ![i] = t] = [d.rq EXCEPT ![i] = t]
      BY <1>3 DEF Tasks
    <2> QED BY <1>3, <2>3, <2>4 DEF Keeps
  <1>10. PICK x : x = IF k.resp # "empty" THEN [tag |-> "SendPayload", req |-> i] ELSE NoState
    OBVIOUS
  <1>11. IsDisp(b) /\ e = Responded(b, i, x)
    <2>1. IsDisp(b)
      BY <1>9 DEF Keeps
    <2> QED BY <1>2, <1>8, <1>10, <2>1 DEF Respond, SendResponse, Responded, Write, IsDisp, Fields
  <1>12. /\ Keeps(b, e, {"writeBuf", "flags", "state"}) /\ SameFlags(b, e)
         /\ e.writeBuf = Append(b.writeBuf, Token("status", i)) /\ e.state = x
    BY <1>11, ResponseFacts
  <1>13. /\ Keeps(d, e, {"rq", "woken", "writeBuf", "state", "flags"})
         /\ b.writeBuf = d.writeBuf /\ b.flags = d.flags /\ e.rq = b.rq
    BY <1>9, <1>12 DEF Keeps, Fields
  <1>14. /\ e.rq = [j \in 1..Len(s) |-> e.rq[j]] /\ e.rq[i] = t
         /\ \A j \in 1..Len(s) : j # i => e.rq[j] = d.rq[j]
    BY <1>9, <1>13 DEF Tasks
  <1>15. OnlyTask(s, d, e, i) /\ SameFlags(d, e)
    BY <1>7, <1>12, <1>13, <1>14 DEF OnlyTask, Tasks, SameFlags
  <1>16. Attended(s[i], d.rq[i], e.rq[i]) /\ (e.rq[i].go => d.rq[i].go)
    BY <1>1, <1>5, <1>6, <1>7, <1>14 DEF Attended
  <1>17. Answering(d.writeBuf, e, i) \/ Closing(s[i], d.writeBuf, d, e, i)
    BY <1>2, <1>10, <1>12, <1>13 DEF Answering, Closing, AtOnce
  <1> QED BY <1>13, <1>15, <1>16, <1>17

LEMMA HandleRequestFacts ==
  ASSUME NEW s, NEW w, Carries(s, w), NEW d, IsDisp(d), Tasks(d.rq, s), NEW i \in 1..Len(s),
         NEW e, e = HandleRequest(d, i)
  PROVE  Handled(s, d, e, i)
  <1>1. PICK k : k = s[i] /\ k = Kind(i) /\ k.expect \in {"no", "ready", "fails", "later", "refused"}
    BY KindFacts
  <1>2. CASE k.expect = "no"
    <2>1. e = CallService(d, i) /\ s[i].expect \notin Refusals
      BY <1>1, <1>2 DEF HandleRequest, Refusals
    <2> QED BY <2>1, CallServiceFacts DEF Handled, Attended
  <1>3. CASE k.expect = "ready"
    <2>1. PICK c : c = SendContinue(d, i)
      OBVIOUS
    <2>2. e = CallService(c, i) /\ s[i].expect \notin Refusals
      BY <1>1, <1>3, <2>1 DEF HandleRequest, Refusals
    <2>3. Keeps(d, c, {"writeBuf"}) /\ c.writeBuf = Append(d.writeBuf, Token("continue", i))
      BY <2>1 DEF SendContinue, Write, IsDisp, Keeps, Fields
    <2>4. IsDisp(c) /\ c.rq = d.rq /\ c.flags = d.flags
      BY <2>3 DEF Keeps, Fields
    <2>5. /\ Keeps(c, e, {"rq", "woken", "writeBuf", "state", "flags"}) /\ SameFlags(c, e)
          /\ OnlyTask(s, c, e, i) /\ Polled(s[i], c.rq[i], e.rq[i])
          /\ Served(s[i], c.writeBuf, c, e, i)
      BY <2>2, <2>4, CallServiceFacts
    <2>6. Keeps(d, e, {"rq", "woken", "writeBuf", "state", "flags"})
      BY <2>3, <2>5 DEF Keeps, Fields
    <2>7. OnlyTask(s, d, e, i) /\ SameFlags(d, e)
      BY <2>4, <2>5 DEF OnlyTask, SameFlags
    <2>8. Served(s[i], c.writeBuf, d, e, i)
      BY <2>4, <2>5 DEF Served, Pending, Answering, Closing
    <2> QED BY <2>2, <2>3, <2>4, <2>5, <2>6, <2>7, <2>8 DEF Handled, Attended
  <1>4. CASE k.expect = "fails"
    <2>1. e = Refuse(d, i) /\ s[i].expect \in Refusals
      BY <1>1, <1>4 DEF HandleRequest, Refusals
    <2>2. /\ Keeps(d, e, {"rq", "woken", "writeBuf", "state", "flags"}) /\ SameFlags(d, e)
          /\ OnlyTask(s, d, e, i) /\ Attended(s[i], d.rq[i], e.rq[i])
          /\ Answering(d.writeBuf, e, i) \/ Closing(s[i], d.writeBuf, d, e, i)
      BY <2>1, RefuseFacts
    <2> QED BY <2>2 DEF Handled, Served
  <1>5. CASE k.expect \in {"later", "refused"}
    <2>1. e = [d EXCEPT !.state = [tag |-> "ExpectCall", req |-> i]]
      BY <1>1, <1>5 DEF HandleRequest
    <2>2. Keeps(d, e, {"state"}) /\ e.state = [tag |-> "ExpectCall", req |-> i]
      BY <2>1 DEF IsDisp, Keeps, Fields
    <2>3. /\ Keeps(d, e, {"rq", "woken", "writeBuf", "state", "flags"})
          /\ e.rq = d.rq /\ e.flags = d.flags /\ e.writeBuf = d.writeBuf
      BY <2>2 DEF Keeps, Fields
    <2>4. Served(s[i], d.writeBuf, d, e, i)
      BY <1>1, <1>5, <2>2, <2>3 DEF Served, Pending
    <2> QED BY <2>3, <2>4 DEF Handled, OnlyTask, SameFlags, Attended
  <1> QED BY <1>1, <1>2, <1>3, <1>4, <1>5

-----------------------------------------------------------------------------
(* Bodies. *)

\* Types of the parts of a task.
LEMMA TaskParts ==
  ASSUME NEW r, TaskType(r)
  PROVE  \E g \in Seq(Nat), i \in Seq(Nat) : g = r.got /\ i = r.items
  <1>1. r.got \in Seq(Nat)
    BY DEF TaskType
  <1>2. r.items \in Seq(Nat)
    BY DEF TaskType
  <1> QED BY <1>1, <1>2, Zenon

LEMMA HeldType ==
  ASSUME NEW r, TaskType(r)
  PROVE  Held(r) \in Nat /\ Len(r.got) \in Nat /\ Len(r.items) \in Nat
  <1>1. PICK g \in Seq(Nat), i \in Seq(Nat) : g = r.got /\ i = r.items
    BY TaskParts
  <1>2. Len(g) \in Nat /\ Len(i) \in Nat /\ Len(g) + Len(i) \in Nat
    OBVIOUS
  <1>3. Held(r) = Len(g) + Len(i)
    BY <1>1 DEF Held
  <1> QED BY <1>1, <1>2, <1>3, Zenon

\* Two runs of consecutive chunks make one.
LEMMA CountOn ==
  ASSUME NEW g \in Seq(Nat), NEW i \in Seq(Nat), NEW h, h = g \o i,
         \A j \in 1..Len(g) : g[j] = j, \A j \in 1..Len(i) : i[j] = Len(g) + j
  PROVE  Len(h) = Len(g) + Len(i) /\ \A j \in 1..Len(h) : h[j] = j
  OBVIOUS

\* Reading keeps what a channel and its handler have together.
LEMMA ReadKeeps ==
  ASSUME NEW k, NEW r, TaskType(r), NEW t, TaskType(t), NEW peer, TaskOK(k, r, peer),
         t.got = r.got \o r.items, t.items = << >>
  PROVE  /\ Held(t) = Held(r) /\ Len(t.got) = Held(r)
         /\ \A j \in 1..Len(t.got) : t.got[j] = j
  <1>1. PICK g \in Seq(Nat), i \in Seq(Nat) : g = r.got /\ i = r.items
    BY TaskParts
  <1>2. PICK h : h = t.got /\ h = g \o i
    BY <1>1, Zenon
  <1>3. /\ \A j \in 1..Len(g) : g[j] = j
        /\ \A j \in 1..Len(i) : i[j] = Len(g) + j
    BY <1>1, Zenon DEF TaskOK
  <1>4. Len(h) = Len(g) + Len(i) /\ \A j \in 1..Len(h) : h[j] = j
    BY <1>2, <1>3, CountOn
  <1>5. Held(r) = Len(g) + Len(i)
    BY <1>1, Zenon DEF Held
  <1>6. Held(t) = Len(h) + 0
    <2>1. Len(t.items) = 0
      OBVIOUS
    <2> QED BY <1>2, <2>1, Zenon DEF Held
  <1>7. Len(h) \in Nat
    BY <1>4, <1>5, HeldType
  <1> QED BY <1>2, <1>4, <1>5, <1>6, <1>7

\* What is said of a task stays so if only what no property asks for has changed.
LEMMA SameTaskOK ==
  ASSUME NEW k, NEW r, NEW t, SameTask(r, t), NEW peer, TaskOK(k, r, peer)
  PROVE  /\ TaskOK(k, t, peer) /\ Held(t) = Held(r)
         /\ Untouched(r) => Untouched(t)
  BY DEF SameTask, TaskOK, Held, Untouched

\* What r is to the payload that is being fed, when m chunks have come.
Listening(r, m) == (r.alive => Held(r) = m) /\ ~r.eof /\ ~r.err

\* What is said of a task stays so when its handler is polled.
LEMMA AttendedOK ==
  ASSUME NEW k, NEW r, TaskType(r), NEW t, Attended(k, r, t), NEW peer, TaskOK(k, r, peer)
  PROVE  /\ TaskType(t) /\ TaskOK(k, t, peer)
         /\ Untouched(r) => Untouched(t)
         /\ \A m : Listening(r, m) => Listening(t, m)
  <1>1. CASE t = r
    BY <1>1
  <1>2. CASE k.expect \in Refusals /\ KeepsTask(r, t, {"alive", "go"}) /\ TaskType(t) /\ ~t.alive
    <2>1. t.got = r.got /\ t.items = r.items /\ t.eof = r.eof /\ t.err = r.err /\ t.saw = r.saw
      BY <1>2 DEF KeepsTask, TaskFields
    <2> QED BY <1>2, <2>1 DEF TaskOK, Held, Untouched, Listening
  <1>3. CASE k.expect \notin Refusals /\ Polled(k, r, t)
    <2>1. TaskType(t) /\ t.eof = r.eof /\ t.err = r.err
      BY <1>3 DEF Polled
    <2>2. CASE /\ t.got = r.got /\ t.items = r.items /\ t.saw = r.saw
               /\ t.alive => r.alive
               /\ k.handler # "reader" \/ k.body = 0
      <3>1. Held(t) = Held(r)
        BY <2>2, Zenon DEF Held
      <3>2. ~(k.handler = "reader" /\ k.body > 0)
        BY <2>2
      <3>3. TaskOK(k, t, peer)
        <4>1. \A j \in 1..Len(t.got) : t.got[j] = j
          BY <2>2, Zenon DEF TaskOK
        <4>2. \A j \in 1..Len(t.items) : t.items[j] = Len(t.got) + j
          BY <2>2, Zenon DEF TaskOK
        <4>3. Held(t) <= k.body /\ (t.eof /\ peer = "open" => Held(t) = k.body /\ ~k.corrupt)
          BY <2>1, <3>1, Zenon DEF TaskOK
        <4>4. t.saw = "eof" => t.eof /\ t.items = << >>
          BY <2>1, <2>2, Zenon DEF TaskOK
        <4> QED BY <3>2, <4>1, <4>2, <4>3, <4>4, Zenon DEF TaskOK
      <3> QED BY <2>1, <2>2, <3>1, <3>3, Zenon DEF Untouched, Listening
    <2>3. CASE /\ k.handler = "reader" /\ k.body > 0
               /\ t.got = r.got \o r.items /\ t.items = << >> /\ (t.alive <=> ~(r.eof \/ r.err))
               /\ t.saw = "eof" => r.saw = "eof" \/ r.eof
      <3>1. Held(t) = Held(r) /\ Len(t.got) = Held(r) /\ \A j \in 1..Len(t.got) : t.got[j] = j
        BY <2>1, <2>3, ReadKeeps, ZenonT(60)
      <3>2. t.items = << >> /\ Len(t.items) = 0
        BY <2>3
      <3>3. t.saw = "eof" => t.eof
        BY <2>1, <2>3 DEF TaskOK
      <3>4. TaskOK(k, t, peer)
        <4>1. \A j \in 1..Len(t.items) : t.items[j] = Len(t.got) + j
          BY <3>2
        <4>2. Held(t) <= k.body /\ (t.eof /\ peer = "open" => Held(t) = k.body /\ ~k.corrupt)
          BY <2>1, <3>1, Zenon DEF TaskOK
        <4>3. t.saw = "eof" => t.eof /\ t.items = << >>
          BY <3>2, <3>3
        <4>4. t.alive \/ t.eof \/ t.err
          BY <2>1, <2>3, Zenon
        <4> QED BY <3>1, <4>1, <4>2, <4>3, <4>4, Zenon DEF TaskOK
      <3>5. Untouched(r) => Untouched(t)
        BY <2>1, <3>1 DEF Untouched
      <3>6. ASSUME NEW m, Listening(r, m)
            PROVE  Listening(t, m)
        <4>1. r.alive
          BY <1>3, <2>3, <3>6 DEF TaskOK, Listening
        <4> QED BY <2>1, <3>1, <3>6, <4>1 DEF Listening
      <3> QED BY <2>1, <3>4, <3>5, <3>6
    <2> QED BY <1>3, <2>2, <2>3 DEF Polled
  <1> QED BY <1>1, <1>2, <1>3 DEF Attended

\* Every task is as it was, or attended.
Attentive(s, d, e) ==
  \A i \in 1..Len(s) : Attended(s[i], d.rq[i], e.rq[i]) \/ SameTask(d.rq[i], e.rq[i])

\* A step that takes no token, feeds nothing and lets the client be or leave keeps the bodies.
LEMMA BodiesKept ==
  ASSUME NEW s, NEW w, NEW d, Tasks(d.rq, s), NEW n, Bodies(s, w, d, n), NEW e, NEW m,
         Attentive(s, d, e), Taken(e, m) = Taken(d, n),
         e.payload \in {0, d.payload}, d.payload \in 0..Len(s),
         m.peer = "open" => n.peer = "open", e.eof => m.peer # "open", d.error => e.error,
         Admitted(s, e.state)
  PROVE  Bodies(s, w, e, m)
  <1>1. ASSUME NEW i \in 1..Len(s)
        PROVE  /\ TaskOK(s[i], e.rq[i], m.peer)
               /\ Untouched(d.rq[i]) => Untouched(e.rq[i])
               /\ \A x : Listening(d.rq[i], x) => Listening(e.rq[i], x)
    <2>1. PICK r, t, k : r = d.rq[i] /\ t = e.rq[i] /\ k = s[i]
      OBVIOUS
    <2>2. TaskType(r) /\ TaskOK(k, r, n.peer)
      BY <2>1 DEF Tasks, Bodies
    <2>3. TaskOK(k, r, m.peer)
      BY <2>2 DEF TaskOK
    <2>4. Attended(k, r, t) \/ SameTask(r, t)
      BY <2>1 DEF Attentive
    <2>5. CASE Attended(k, r, t)
      <3>1. /\ TaskOK(k, t, m.peer) /\ (Untouched(r) => Untouched(t))
            /\ \A x : Listening(r, x) => Listening(t, x)
        BY <2>2, <2>3, <2>5, AttendedOK
      <3> QED BY <2>1, <3>1
    <2>6. CASE SameTask(r, t)
      <3>1. /\ TaskOK(k, t, m.peer) /\ Held(t) = Held(r)
            /\ Untouched(r) => Untouched(t)
        BY <2>3, <2>6, SameTaskOK
      <3>2. \A x : Listening(r, x) => Listening(t, x)
        BY <2>6, <3>1 DEF SameTask, Listening
      <3> QED BY <2>1, <3>1, <3>2
    <2> QED BY <2>4, <2>5, <2>6
  <1>2. PICK T : T = Taken(d, n) /\ T = Taken(e, m)
    OBVIOUS
  <1>3. Reached(w, e, m) = Reached(w, d, n)
    BY DEF Reached
  <1>4. \A i \in 1..Len(s) : i > Reached(w, e, m) => Untouched(e.rq[i])
    BY <1>1, <1>3 DEF Bodies
  <1>5. e.payload # 0 => T > 0 /\ Feeding(s, e.rq[e.payload], w[T], e.payload)
    <2> SUFFICES ASSUME e.payload # 0
                 PROVE  T > 0 /\ Feeding(s, e.rq[e.payload], w[T], e.payload)
      OBVIOUS
    <2>1. PICK j \in 1..Len(s) : j = d.payload /\ j = e.payload
      OBVIOUS
    <2>2. T > 0 /\ Feeding(s, d.rq[j], w[T], j)
      BY <1>2, <2>1 DEF Bodies
    <2>3. Listening(d.rq[j], w[T].n)
      BY <2>2 DEF Feeding, Listening
    <2>4. Listening(e.rq[j], w[T].n)
      BY <1>1, <2>3
    <2> QED BY <2>1, <2>2, <2>4 DEF Feeding, Listening
  <1>6. ~e.error => \A k \in 1..T : ~(w[k].t = "chunk" /\ s[w[k].req].head = "upgrade")
    BY <1>2 DEF Bodies
  <1> QED BY <1>1, <1>2, <1>4, <1>5, <1>6 DEF Bodies

-----------------------------------------------------------------------------
(* The read buffer. *)

\* Types, wire and bodies.
Connected(s, w, d, n) ==
  Carries(s, w) /\ DispType(s, d) /\ NetType(s, n) /\ WireRead(w, d, n) /\ Bodies(s, w, d, n)

\* Types of the parts of a token, and sequences.
LEMMA TokenParts ==
  ASSUME NEW s, NEW x \in InTokens(s)
  PROVE  /\ x.t \in {"head", "chunk", "end", "corrupt", "malformed"}
         /\ x.req \in 1..Len(s) /\ x.n \in Nat
  BY DEF InTokens

LEMMA LenFacts ==
  ASSUME NEW A, NEW q \in Seq(A)
  PROVE  /\ Len(q) \in Nat /\ (q # << >> => Len(q) > 0) /\ (Len(q) > 0 => q # << >>)
         /\ \A k \in 1..Len(q) : q[k] \in A
  OBVIOUS

LEMMA AppendFacts ==
  ASSUME NEW A, NEW q \in Seq(A), NEW x \in A, NEW p, p = Append(q, x)
  PROVE  /\ p \in Seq(A) /\ Len(p) = Len(q) + 1 /\ p[Len(q) + 1] = x
         /\ \A k \in 1..Len(q) : p[k] = q[k]
  OBVIOUS

LEMMA TailFacts ==
  ASSUME NEW A, NEW q \in Seq(A), q # << >>
  PROVE  /\ Tail(q) \in Seq(A) /\ Len(Tail(q)) = Len(q) - 1 /\ Head(q) = q[1]
         /\ \A k \in 1..Len(Tail(q)) : Tail(q)[k] = q[k + 1]
  OBVIOUS

\* How far the codec has come.
LEMMA TakenFacts ==
  ASSUME NEW s, NEW w, NEW d, NEW n, Carries(s, w), DispType(s, d), NetType(s, n), WireRead(w, d, n)
  PROVE  /\ Taken(d, n) \in Nat /\ Taken(d, n) + Len(d.readBuf) <= n.sent
         /\ n.sent \in Nat /\ n.sent <= Len(w) /\ Len(w) \in Nat
         /\ Len(d.readBuf) \in Nat /\ Len(n.sock) \in Nat
         /\ Taken(d, n) + Len(d.readBuf) = n.sent - Len(n.sock)
         /\ \A k \in 1..Len(w) : w[k] \in InTokens(s)
  <1>1. PICK b \in Seq(InTokens(s)) : b = d.readBuf
    BY DEF DispType
  <1>2. PICK q \in Seq(InTokens(s)) : q = n.sock
    BY DEF NetType
  <1>3. PICK T \in Nat, S \in Nat : T = Taken(d, n) /\ S = n.sent
    BY DEF WireRead, NetType
  <1>4. T = S - Len(q) - Len(b)
    BY <1>1, <1>2, <1>3, Zenon DEF Taken
  <1>5. Len(b) \in Nat /\ Len(q) \in Nat
    BY LenFacts
  <1>6. PICK L \in Nat : L = Len(w) /\ S \in 0..L /\ \A k \in 1..L : w[k] \in InTokens(s)
    <2>1. w \in Seq(InTokens(s))
      BY DEF Carries
    <2>2. Len(w) \in Nat /\ \A k \in 1..Len(w) : w[k] \in InTokens(s)
      BY <2>1, LenFacts
    <2> QED BY <1>3, <2>2 DEF WireRead
  <1>7. T + Len(b) = S - Len(q) /\ T + Len(b) <= S /\ S <= L
    BY <1>4, <1>5, <1>6
  <1> QED BY <1>1, <1>2, <1>3, <1>5, <1>6, <1>7, Zenon

\* The token that is decoded next.
LEMMA NextToken ==
  ASSUME NEW s, NEW w, NEW d, NEW n, Connected(s, w, d, n), d.readBuf # << >>
  PROVE  \E T \in Nat : /\ T = Taken(d, n) /\ T + 1 \in 1..Len(w)
                        /\ Head(d.readBuf) = w[T + 1] /\ w[T + 1] \in InTokens(s)
                        /\ Continues(w, s, T + 1)
                        /\ T > 0 => w[T] \in InTokens(s)
                        /\ T > 0 => Reached(w, d, n) = w[T].req
                        /\ T = 0 => Reached(w, d, n) = 0
  <1>1. PICK b \in Seq(InTokens(s)) : b = d.readBuf
    BY DEF DispType, Connected
  <1>2. PICK T \in Nat : T = Taken(d, n)
    BY TakenFacts DEF Connected
  <1>3. Len(b) \in Nat /\ Len(b) > 0 /\ Head(b) = b[1]
    BY <1>1
  <1>4. T + 1 \in 1..Len(w) /\ \A k \in 1..Len(w) : w[k] \in InTokens(s)
    <2>1. T + Len(b) <= n.sent /\ n.sent <= Len(w) /\ n.sent \in Nat /\ Len(w) \in Nat
      BY <1>1, <1>2, TakenFacts DEF Connected
    <2>2. \A k \in 1..Len(w) : w[k] \in InTokens(s)
      BY TakenFacts DEF Connected
    <2>3. T + 1 \in 1..Len(w)
      BY <1>3, <2>1
    <2> QED BY <2>2, <2>3
  <1>5. Head(b) = w[T + 1]
    <2>1. 1 \in 1..Len(b)
      BY <1>3
    <2>2. b[1] = w[T + 1]
      BY <1>1, <1>2, <2>1 DEF Connected, WireRead
    <2> QED BY <1>3, <2>2
  <1>6. Continues(w, s, T + 1)
    BY <1>4 DEF Connected, Carries
  <1>7. T > 0 => T \in 1..Len(w)
    BY <1>4
  <1> QED BY <1>1, <1>2, <1>4, <1>5, <1>6, <1>7 DEF Reached

\* Decoded takes that token.
LEMMA DecodedFacts ==
  ASSUME NEW s, NEW w, NEW d, NEW n, Connected(s, w, d, n), d.readBuf # << >>,
         NEW e, e = Decoded(d)
  PROVE  /\ Keeps(d, e, {"readBuf", "updated", "flags"}) /\ e.readBuf = Tail(d.readBuf)
         /\ e.updated /\ e.flags = d.flags \cup {"STARTED"}
         /\ DispType(s, e)
         /\ Taken(e, n) = Taken(d, n) + 1
         /\ WireRead(w, e, n)
  <1>1. /\ Keeps(d, e, {"readBuf", "updated", "flags"}) /\ e.readBuf = Tail(d.readBuf)
        /\ e.updated /\ e.flags = d.flags \cup {"STARTED"}
    BY DEF Connected, DispType, Decoded, IsDisp, Keeps, Fields
  <1>2. PICK b \in Seq(InTokens(s)) : b = d.readBuf
    BY DEF DispType, Connected
  <1>3. PICK c : c = e.readBuf /\ c = Tail(b)
    BY <1>1, <1>2
  <1>4. /\ c \in Seq(InTokens(s)) /\ Len(c) = Len(b) - 1 /\ Len(b) \in Nat
        /\ \A k \in 1..Len(c) : c[k] = b[k + 1]
    <2>1. b # << >>
      BY <1>2, <1>3
    <2> QED BY <1>2, <1>3, <2>1, TailFacts, LenFacts
  <1>5. DispType(s, e)
    <2>1. /\ e.rq = d.rq /\ e.writeBuf = d.writeBuf /\ e.messages = d.messages
          /\ e.payload = d.payload /\ e.state = d.state
      BY <1>1 DEF Keeps, Fields
    <2> QED BY <1>1, <1>2, <1>3, <1>4, <2>1 DEF Connected, DispType, Keeps
  <1>6. PICK S \in Nat, Q \in Nat, T \in Nat :
          S = n.sent /\ Q = Len(n.sock) /\ T = Taken(d, n) /\ T = S - Q - Len(b)
    <2>1. n.sent \in Nat /\ Len(n.sock) \in Nat /\ Taken(d, n) \in Nat
      BY TakenFacts DEF Connected
    <2> QED BY <1>2, <1>3, <2>1 DEF Taken
  <1>7. Taken(e, n) = T + 1
    <2>1. Taken(e, n) = S - Q - Len(c)
      BY <1>2, <1>3, <1>6, Zenon DEF Taken
    <2> QED BY <1>4, <1>6, <2>1
  <1>8. ASSUME NEW k \in 1..Len(c)
        PROVE  c[k] = w[T + 1 + k]
    <2>1. c[k] = b[k + 1] /\ k + 1 \in 1..Len(b)
      BY <1>4
    <2>2. b[k + 1] = w[T + (k + 1)]
      BY <1>2, <1>3, <1>6, <2>1 DEF Connected, WireRead
    <2>3. T + (k + 1) = T + 1 + k
      OBVIOUS
    <2> QED BY <2>1, <2>2, <2>3
  <1>9. WireRead(w, e, n)
    <2>1. T + 1 \in Nat
      OBVIOUS
    <2> QED BY <1>2, <1>3, <1>7, <1>8, <2>1, Zenon DEF Connected, WireRead
  <1> QED BY <1>1, <1>5, <1>6, <1>7, <1>9

-----------------------------------------------------------------------------
(* Bodies, when a token is decoded. *)

\* A head comes when no payload is being fed, and opens the next request.
LEMMA HeadNext ==
  ASSUME NEW s, NEW w, NEW d, NEW n, Connected(s, w, d, n), d.readBuf # << >>,
         Head(d.readBuf).t = "head"
  PROVE  /\ d.payload = 0 /\ Head(d.readBuf).req = Reached(w, d, n) + 1
         /\ Head(d.readBuf).req \in 1..Len(s) /\ Reached(w, d, n) \in Nat
  <1>1. PICK T \in Nat : /\ T = Taken(d, n) /\ T + 1 \in 1..Len(w)
                         /\ Head(d.readBuf) = w[T + 1] /\ w[T + 1] \in InTokens(s)
                         /\ Continues(w, s, T + 1)
                         /\ T > 0 => w[T] \in InTokens(s)
                         /\ T > 0 => Reached(w, d, n) = w[T].req
                         /\ T = 0 => Reached(w, d, n) = 0
    BY NextToken
  <1>2. /\ w[T + 1].req = (IF T + 1 = 1 THEN 1 ELSE w[T + 1 - 1].req + 1)
        /\ T + 1 > 1 /\ w[T + 1 - 1].t \in {"head", "chunk"} =>
             s[w[T + 1 - 1].req].body = 0 \/ s[w[T + 1 - 1].req].head = "upgrade"
    BY <1>1 DEF Continues
  <1>3. T + 1 - 1 = T
    OBVIOUS
  <1>4. d.payload = 0
    <2> SUFFICES ASSUME d.payload # 0
                 PROVE  FALSE
      OBVIOUS
    <2>1. T > 0 /\ Feeding(s, d.rq[d.payload], w[T], d.payload)
      BY <1>1 DEF Connected, Bodies
    <2> QED BY <1>2, <1>3, <2>1 DEF Feeding
  <1>5. w[T + 1].req = Reached(w, d, n) + 1
    BY <1>1, <1>2, <1>3
  <1>6. w[T + 1].req \in 1..Len(s)
    BY <1>1, TokenParts
  <1>7. Reached(w, d, n) \in Nat
    <2>1. CASE T > 0
      <3>1. w[T].req \in 1..Len(s)
        BY <1>1, <2>1, TokenParts
      <3> QED BY <1>1, <2>1, <3>1
    <2> QED BY <1>1, <2>1
  <1> QED BY <1>1, <1>4, <1>5, <1>6, <1>7

\* The channel of a request that has just been reached is empty.
LEMMA HeadBodies ==
  ASSUME NEW s, NEW w, NEW d, NEW n, Connected(s, w, d, n), d.readBuf # << >>,
         Head(d.readBuf).t = "head", NEW i, i = Head(d.readBuf).req,
         NEW e, Taken(e, n) = Taken(d, n) + 1, e.rq = d.rq, e.eof = d.eof, e.error = d.error,
         e.state = d.state,
         e.payload = (IF s[i].body > 0 /\ s[i].head # "upgrade" THEN i ELSE 0)
  PROVE  Bodies(s, w, e, n)
  <1>1. PICK T \in Nat : /\ T = Taken(d, n) /\ T + 1 \in 1..Len(w)
                         /\ Head(d.readBuf) = w[T + 1] /\ w[T + 1] \in InTokens(s)
                         /\ Continues(w, s, T + 1)
    BY NextToken
  <1>2. /\ d.payload = 0 /\ i = Reached(w, d, n) + 1
        /\ i \in 1..Len(s) /\ Reached(w, d, n) \in Nat
    BY HeadNext
  <1>3. Reached(w, e, n) = i
    BY <1>1 DEF Reached
  <1>4. \A j \in 1..Len(s) : j > Reached(w, e, n) => Untouched(e.rq[j])
    BY <1>2, <1>3 DEF Connected, Bodies
  <1>5. Untouched(e.rq[i])
    BY <1>2 DEF Connected, Bodies
  <1>6. w[T + 1].n = 0 /\ w[T + 1].t = "head" /\ w[T + 1].req = i
    BY <1>1 DEF Continues
  <1>7. e.payload # 0 => T + 1 > 0 /\ Feeding(s, e.rq[e.payload], w[T + 1], e.payload)
    <2> SUFFICES ASSUME e.payload # 0
                 PROVE  T + 1 > 0 /\ Feeding(s, e.rq[e.payload], w[T + 1], e.payload)
      OBVIOUS
    <2>1. e.payload = i /\ s[i].body > 0 /\ s[i].head # "upgrade"
      OBVIOUS
    <2>2. PICK r, t : r = e.rq[i] /\ t = w[T + 1]
      OBVIOUS
    <2>3. Held(r) = 0 /\ ~r.eof /\ ~r.err
      BY <1>5, <2>2 DEF Untouched
    <2>4. t.n = 0 /\ t.t = "head" /\ t.req = i
      BY <1>6, <2>2
    <2>5. Feeding(s, r, t, i)
      BY <2>1, <2>3, <2>4 DEF Feeding
    <2>6. T + 1 > 0
      BY <1>1
    <2> QED BY <2>1, <2>2, <2>5, <2>6, Zenon
  <1>8. ~e.error => \A k \in 1..(T + 1) : ~(w[k].t = "chunk" /\ s[w[k].req].head = "upgrade")
    <2> SUFFICES ASSUME ~e.error, NEW k \in 1..(T + 1)
                 PROVE  ~(w[k].t = "chunk" /\ s[w[k].req].head = "upgrade")
      OBVIOUS
    <2>1. CASE k = T + 1
      BY <1>6, <2>1
    <2>2. CASE k # T + 1
      <3>1. k \in 1..T
        BY <2>2
      <3> QED BY <1>1, <3>1 DEF Connected, Bodies
    <2> QED BY <2>1, <2>2
  <1> QED BY <1>1, <1>4, <1>7, <1>8 DEF Connected, Bodies

\* A chunk that nobody waits for.
LEMMA StrayBodies ==
  ASSUME NEW s, NEW w, NEW d, NEW n, Connected(s, w, d, n), d.readBuf # << >>,
         Head(d.readBuf).t \in {"chunk", "end"}, d.payload = 0,
         NEW e, Taken(e, n) = Taken(d, n) + 1, e.rq = d.rq, e.eof = d.eof, d.error => e.error,
         e.state = d.state, e.payload = 0, Head(d.readBuf).t = "chunk" => e.error
  PROVE  Bodies(s, w, e, n)
  <1>1. PICK T \in Nat : /\ T = Taken(d, n) /\ T + 1 \in 1..Len(w)
                         /\ Head(d.readBuf) = w[T + 1] /\ w[T + 1] \in InTokens(s)
                         /\ Continues(w, s, T + 1)
                         /\ T > 0 => Reached(w, d, n) = w[T].req
    BY NextToken
  <1>2. Reached(w, e, n) = Reached(w, d, n)
    <2>1. Reached(w, e, n) = w[T + 1].req
      BY <1>1 DEF Reached
    <2>2. T + 1 > 1 /\ w[T + 1].req = w[T + 1 - 1].req
      BY <1>1 DEF Continues
    <2> QED BY <1>1, <2>1, <2>2
  <1>3. \A j \in 1..Len(s) : j > Reached(w, e, n) => Untouched(e.rq[j])
    BY <1>2 DEF Connected, Bodies
  <1>4. ~e.error => \A k \in 1..(T + 1) : ~(w[k].t = "chunk" /\ s[w[k].req].head = "upgrade")
    <2> SUFFICES ASSUME ~e.error, NEW k \in 1..(T + 1)
                 PROVE  ~(w[k].t = "chunk" /\ s[w[k].req].head = "upgrade")
      OBVIOUS
    <2>1. CASE k = T + 1
      BY <1>1, <2>1
    <2>2. CASE k # T + 1
      <3>1. k \in 1..T
        BY <2>2
      <3> QED BY <1>1, <3>1 DEF Connected, Bodies
    <2> QED BY <2>1, <2>2
  <1> QED BY <1>1, <1>3, <1>4 DEF Connected, Bodies

\* A chunk or the end of a body reaches the payload that is being fed.
LEMMA FedBodies ==
  ASSUME NEW s, NEW w, NEW d, NEW n, Connected(s, w, d, n), d.readBuf # << >>,
         Head(d.readBuf).t \in {"chunk", "end"}, NEW j \in 1..Len(s), j = d.payload,
         NEW e, Taken(e, n) = Taken(d, n) + 1, OnlyTask(s, d, e, j), e.eof = d.eof, e.error = d.error,
         e.state = d.state, TaskOK(s[j], e.rq[j], n.peer),
         IF Head(d.readBuf).t = "end" THEN e.payload = 0
         ELSE e.payload = j /\ Listening(e.rq[j], Head(d.readBuf).n)
  PROVE  Bodies(s, w, e, n)
  <1>1. PICK T \in Nat : /\ T = Taken(d, n) /\ T + 1 \in 1..Len(w)
                         /\ Head(d.readBuf) = w[T + 1] /\ w[T + 1] \in InTokens(s)
                         /\ Continues(w, s, T + 1)
                         /\ T > 0 => Reached(w, d, n) = w[T].req
    BY NextToken
  <1>2. w[T + 1].req = w[T].req /\ T > 0
    <2>1. T + 1 > 1 /\ w[T + 1].req = w[T + 1 - 1].req
      BY <1>1 DEF Continues
    <2> QED BY <2>1
  <1>3. Feeding(s, d.rq[j], w[T], j)
    BY <1>1 DEF Connected, Bodies
  <1>4. Reached(w, e, n) = j /\ Reached(w, d, n) = j
    BY <1>1, <1>2, <1>3 DEF Reached, Feeding
  <1>5. \A i \in 1..Len(s) : i > Reached(w, e, n) => Untouched(e.rq[i])
    BY <1>4 DEF Connected, Bodies, OnlyTask
  <1>6. \A i \in 1..Len(s) : TaskOK(s[i], e.rq[i], n.peer)
    BY DEF Connected, Bodies, OnlyTask
  <1>7. e.payload # 0 => T + 1 > 0 /\ Feeding(s, e.rq[e.payload], w[T + 1], e.payload)
    BY <1>1, <1>2, <1>3 DEF Feeding, Listening
  <1>8. ~e.error => \A k \in 1..(T + 1) : ~(w[k].t = "chunk" /\ s[w[k].req].head = "upgrade")
    <2> SUFFICES ASSUME ~e.error, NEW k \in 1..(T + 1)
                 PROVE  ~(w[k].t = "chunk" /\ s[w[k].req].head = "upgrade")
      OBVIOUS
    <2>1. CASE k = T + 1
      BY <1>2, <1>3, <2>1 DEF Feeding
    <2>2. CASE k # T + 1
      <3>1. k \in 1..T
        BY <2>2
      <3> QED BY <1>1, <3>1 DEF Connected, Bodies
    <2> QED BY <2>1, <2>2
  <1> QED BY <1>1, <1>5, <1>6, <1>7, <1>8 DEF Connected, Bodies

\* A channel, after a chunk, its end or an error.
CountsFrom(q, n) == \A i \in 1..Len(q) : q[i] = n + i

LEMMA CountOne ==
  ASSUME NEW g \in Seq(Nat), NEW q \in Seq(Nat), CountsFrom(q, Len(g)),
         NEW m, m = Len(g) + Len(q) + 1, NEW x, x = Append(q, m)
  PROVE  Len(x) = Len(q) + 1 /\ CountsFrom(x, Len(g))
  <1>1. Len(g) \in Nat /\ Len(q) \in Nat
    BY LenFacts
  <1>2. m \in Nat
    BY <1>1
  <1>3. Len(x) = Len(q) + 1 /\ x[Len(q) + 1] = m /\ \A i \in 1..Len(q) : x[i] = q[i]
    BY <1>2, AppendFacts
  <1>4. PICK L \in Nat, G \in Nat, X \in Nat : L = Len(q) /\ G = Len(g) /\ X = Len(x)
    BY <1>1, <1>3
  <1>5. ASSUME NEW i \in 1..X
        PROVE  x[i] = G + i
    <2>1. CASE i = L + 1
      BY <1>3, <1>4, <2>1
    <2>2. CASE i # L + 1
      <3>1. i \in 1..L
        BY <1>3, <1>4, <2>2
      <3>2. x[i] = q[i] /\ q[i] = G + i
        BY <1>3, <1>4, <3>1, Zenon DEF CountsFrom
      <3> QED BY <3>2, Zenon
    <2> QED BY <2>1, <2>2
  <1> QED BY <1>3, <1>4, <1>5, Zenon DEF CountsFrom

LEMMA PushOK ==
  ASSUME NEW k, NEW r, TaskType(r), NEW peer, TaskOK(k, r, peer), ~r.eof, NEW t, TaskType(t),
         NEW m, Pushed(r, t, m), m = Held(r) + 1, m <= k.body
  PROVE  TaskOK(k, t, peer) /\ Held(t) = m
  <1>1. PICK g \in Seq(Nat), q \in Seq(Nat) : g = r.got /\ q = r.items
    BY TaskParts
  <1>2. /\ t.got = g /\ t.eof = r.eof /\ t.saw = r.saw /\ t.alive = r.alive /\ t.err = r.err
    BY <1>1 DEF Pushed, KeepsTask, TaskFields
  <1>3. PICK x : x = t.items /\ x = Append(q, m)
    BY <1>1 DEF Pushed
  <1>4. m = Len(g) + Len(q) + 1 /\ Len(g) \in Nat /\ Len(q) \in Nat
    BY <1>1, HeldType DEF Held
  <1>5. CountsFrom(q, Len(g))
    BY <1>1, Zenon DEF TaskOK, CountsFrom
  <1>6. Len(x) = Len(q) + 1 /\ CountsFrom(x, Len(g))
    BY <1>3, <1>4, <1>5, CountOne
  <1>7. Held(t) = m
    <2>1. Held(t) = Len(g) + (Len(q) + 1)
      BY <1>2, <1>3, <1>6, Zenon DEF Held
    <2> QED BY <1>4, <2>1
  <1>8. \A i \in 1..Len(t.got) : t.got[i] = i
    BY <1>1, <1>2, Zenon DEF TaskOK
  <1>9. \A i \in 1..Len(t.items) : t.items[i] = Len(t.got) + i
    BY <1>2, <1>3, <1>6, Zenon DEF CountsFrom
  <1>10. /\ ~t.eof /\ t.saw # "eof"
         /\ k.handler = "reader" /\ k.body > 0 /\ k.expect \notin Refusals => t.alive \/ t.eof \/ t.err
    BY <1>2 DEF TaskOK
  <1> QED BY <1>7, <1>8, <1>9, <1>10, Zenon DEF TaskOK

LEMMA EofOK ==
  ASSUME NEW k, NEW r, NEW peer, TaskOK(k, r, peer), NEW t, KeepsTask(r, t, {"eof"}),
         t.eof <=> r.eof \/ r.alive,
         r.alive /\ peer = "open" => Held(r) = k.body /\ ~k.corrupt
  PROVE  TaskOK(k, t, peer)
  <1>1. t.got = r.got /\ t.items = r.items /\ t.saw = r.saw /\ t.alive = r.alive /\ t.err = r.err
    BY DEF KeepsTask, TaskFields
  <1>2. Held(t) = Held(r)
    BY <1>1, Zenon DEF Held
  <1>3. \A j \in 1..Len(t.got) : t.got[j] = j
    BY <1>1, Zenon DEF TaskOK
  <1>4. \A j \in 1..Len(t.items) : t.items[j] = Len(t.got) + j
    BY <1>1, Zenon DEF TaskOK
  <1>5. Held(t) <= k.body /\ (t.eof /\ peer = "open" => Held(t) = k.body /\ ~k.corrupt)
    BY <1>2, Zenon DEF TaskOK
  <1>6. t.saw = "eof" => t.eof /\ t.items = << >>
    BY <1>1, Zenon DEF TaskOK
  <1>7. k.handler = "reader" /\ k.body > 0 /\ k.expect \notin Refusals => t.alive \/ t.eof \/ t.err
    BY <1>1 DEF TaskOK
  <1> QED BY <1>3, <1>4, <1>5, <1>6, <1>7, Zenon DEF TaskOK

LEMMA ErrOK ==
  ASSUME NEW k, NEW r, NEW peer, TaskOK(k, r, peer), NEW t, KeepsTask(r, t, {"err"}),
         r.err \/ r.alive => t.err
  PROVE  TaskOK(k, t, peer)
  <1>1. t.got = r.got /\ t.items = r.items /\ t.saw = r.saw /\ t.alive = r.alive /\ t.eof = r.eof
    BY DEF KeepsTask, TaskFields
  <1>2. Held(t) = Held(r)
    BY <1>1, Zenon DEF Held
  <1>3. \A j \in 1..Len(t.got) : t.got[j] = j
    BY <1>1, Zenon DEF TaskOK
  <1>4. \A j \in 1..Len(t.items) : t.items[j] = Len(t.got) + j
    BY <1>1, Zenon DEF TaskOK
  <1>5. Held(t) <= k.body /\ (t.eof /\ peer = "open" => Held(t) = k.body /\ ~k.corrupt)
    BY <1>1, <1>2, Zenon DEF TaskOK
  <1>6. t.saw = "eof" => t.eof /\ t.items = << >>
    BY <1>1, Zenon DEF TaskOK
  <1>7. k.handler = "reader" /\ k.body > 0 /\ k.expect \notin Refusals => t.alive \/ t.eof \/ t.err
    BY <1>1 DEF TaskOK
  <1> QED BY <1>3, <1>4, <1>5, <1>6, <1>7, Zenon DEF TaskOK

\* The payload channel is closed with an error.
LEMMA SetErrorBodies ==
  ASSUME NEW s, NEW w, NEW d, NEW n, Connected(s, w, d, n), NEW e, e = SetError(d)
  PROVE  Connected(s, w, e, n)
  <1>1. /\ Keeps(d, e, {"rq", "payload"}) /\ e.payload = 0
        /\ d.payload = 0 => e.rq = d.rq
        /\ d.payload # 0 =>
             /\ OnlyTask(s, d, e, d.payload)
             /\ KeepsTask(d.rq[d.payload], e.rq[d.payload], {"err"})
             /\ d.rq[d.payload].err \/ d.rq[d.payload].alive => e.rq[d.payload].err
    BY SetErrorFacts DEF Connected
  <1>2. /\ e.readBuf = d.readBuf /\ e.writeBuf = d.writeBuf /\ e.messages = d.messages
        /\ e.state = d.state /\ e.eof = d.eof /\ e.error = d.error
    BY <1>1 DEF Keeps, Fields
  <1>3. Tasks(e.rq, s)
    BY <1>1 DEF OnlyTask, Connected, DispType
  <1>4. DispType(s, e)
    BY <1>1, <1>2, <1>3 DEF Keeps, Connected, DispType
  <1>5. Taken(e, n) = Taken(d, n) /\ Reached(w, e, n) = Reached(w, d, n)
    BY <1>2 DEF Taken, Reached
  <1>6. WireRead(w, e, n)
    BY <1>2, <1>5 DEF Connected, WireRead
  <1>7. CASE d.payload = 0
    BY <1>1, <1>2, <1>4, <1>5, <1>6, <1>7 DEF Connected, Bodies
  <1>8. CASE d.payload # 0
    <2>1. PICK j \in 1..Len(s) : j = d.payload
      BY <1>8 DEF Connected, DispType
    <2>2. Reached(w, d, n) = j
      BY <1>8, <2>1 DEF Connected, Bodies, Reached, Feeding
    <2>3. \A i \in 1..Len(s) : TaskOK(s[i], e.rq[i], n.peer)
      BY <1>1, <1>8, <2>1, ErrOK DEF OnlyTask, Connected, Bodies
    <2>4. \A i \in 1..Len(s) : i > Reached(w, e, n) => Untouched(e.rq[i])
      BY <1>1, <1>5, <1>8, <2>1, <2>2 DEF OnlyTask, Connected, Bodies
    <2> QED BY <1>1, <1>2, <1>4, <1>5, <1>6, <2>3, <2>4 DEF Connected, Bodies
  <1> QED BY <1>7, <1>8

\* The client has closed its side: what has come counts as all.
LEMMA ReadEofBodies ==
  ASSUME NEW s, NEW w, NEW d, NEW n, Connected(s, w, d, n), n.peer # "open",
         NEW e, e = FeedEof(d)
  PROVE  Connected(s, w, e, n)
  <1>1. /\ Keeps(d, e, {"rq", "payload"}) /\ e.payload = 0
        /\ d.payload = 0 => e.rq = d.rq
        /\ d.payload # 0 =>
             /\ OnlyTask(s, d, e, d.payload)
             /\ KeepsTask(d.rq[d.payload], e.rq[d.payload], {"eof"})
             /\ e.rq[d.payload].eof <=> d.rq[d.payload].eof \/ d.rq[d.payload].alive
    BY FeedEofFacts DEF Connected
  <1>2. /\ e.readBuf = d.readBuf /\ e.writeBuf = d.writeBuf /\ e.messages = d.messages
        /\ e.state = d.state /\ e.eof = d.eof /\ e.error = d.error
    BY <1>1 DEF Keeps, Fields
  <1>3. Tasks(e.rq, s)
    BY <1>1 DEF OnlyTask, Connected, DispType
  <1>4. DispType(s, e)
    BY <1>1, <1>2, <1>3 DEF Keeps, Connected, DispType
  <1>5. Taken(e, n) = Taken(d, n) /\ Reached(w, e, n) = Reached(w, d, n)
    BY <1>2 DEF Taken, Reached
  <1>6. WireRead(w, e, n)
    BY <1>2, <1>5 DEF Connected, WireRead
  <1>7. CASE d.payload = 0
    BY <1>1, <1>2, <1>4, <1>5, <1>6, <1>7 DEF Connected, Bodies
  <1>8. CASE d.payload # 0
    <2>1. PICK j \in 1..Len(s) : j = d.payload
      BY <1>8 DEF Connected, DispType
    <2>2. Reached(w, d, n) = j
      BY <1>8, <2>1 DEF Connected, Bodies, Reached, Feeding
    <2>3. \A i \in 1..Len(s) : TaskOK(s[i], e.rq[i], n.peer)
      <3>1. TaskOK(s[j], e.rq[j], n.peer)
        BY <1>1, <1>8, <2>1, EofOK DEF Connected, Bodies
      <3> QED BY <1>1, <1>8, <2>1, <3>1 DEF OnlyTask, Connected, Bodies
    <2>4. \A i \in 1..Len(s) : i > Reached(w, e, n) => Untouched(e.rq[i])
      BY <1>1, <1>5, <1>8, <2>1, <2>2 DEF OnlyTask, Connected, Bodies
    <2> QED BY <1>1, <1>2, <1>4, <1>5, <1>6, <2>3, <2>4 DEF Connected, Bodies
  <1> QED BY <1>7, <1>8

-----------------------------------------------------------------------------
(* What keeps a connection's types, wire and bodies. *)

\* The queue of messages.
MessagesType(s, q) ==
  q \in Seq(Messages(s)) /\ \A k \in 1..Len(q) : q[k].t # "error" => q[k].req \in 1..Len(s)

LEMMA MessageQueued ==
  ASSUME NEW s, NEW q, MessagesType(s, q), NEW t \in {"item", "upgrade", "error"}, NEW i \in 0..Len(s),
         t # "error" => i \in 1..Len(s)
  PROVE  MessagesType(s, Append(q, Token(t, i)))
  <1>1. PICK x : x = Token(t, i) /\ x.t = t /\ x.req = i
    <2>1. Token(t, i).t = t /\ Token(t, i).req = i
      BY DEF Token
    <2> QED BY <2>1, Zenon
  <1>2. x \in Messages(s)
    BY <1>1 DEF Messages, Token
  <1>3. q \in Seq(Messages(s))
    BY DEF MessagesType
  <1>4. PICK p : p = Append(q, x)
    OBVIOUS
  <1>5. /\ p \in Seq(Messages(s)) /\ Len(p) = Len(q) + 1 /\ p[Len(q) + 1] = x
        /\ \A k \in 1..Len(q) : p[k] = q[k]
    BY <1>2, <1>3, <1>4, AppendFacts
  <1>6. ASSUME NEW k \in 1..Len(p), p[k].t # "error"
        PROVE  p[k].req \in 1..Len(s)
    <2>1. CASE k = Len(q) + 1
      BY <1>1, <1>5, <1>6, <2>1
    <2>2. CASE k # Len(q) + 1
      <3>1. k \in 1..Len(q)
        <4>1. Len(q) \in Nat
          BY <1>3, LenFacts
        <4> QED BY <1>5, <2>2, <4>1
      <3> QED BY <1>5, <1>6, <3>1 DEF MessagesType
    <2> QED BY <2>1, <2>2
  <1> QED BY <1>1, <1>4, <1>5, <1>6 DEF MessagesType

LEMMA MessageTaken ==
  ASSUME NEW s, NEW q, MessagesType(s, q), q # << >>
  PROVE  MessagesType(s, Tail(q))
  <1>1. q \in Seq(Messages(s))
    BY DEF MessagesType
  <1>2. PICK p : p = Tail(q)
    OBVIOUS
  <1>3. /\ p \in Seq(Messages(s)) /\ Len(p) = Len(q) - 1 /\ Len(q) \in Nat
        /\ \A k \in 1..Len(p) : p[k] = q[k + 1]
    BY <1>1, <1>2, TailFacts, LenFacts
  <1>4. \A k \in 1..Len(p) : k + 1 \in 1..Len(q)
    BY <1>3
  <1> QED BY <1>2, <1>3, <1>4 DEF MessagesType

\* The types of a dispatcher's parts.
LEMMA TypeParts ==
  ASSUME NEW s, NEW d
  PROVE  DispType(s, d) <=>
           /\ IsDisp(d) /\ Tasks(d.rq, s) /\ MessagesType(s, d.messages)
           /\ d.readBuf \in Seq(InTokens(s)) /\ d.writeBuf \in Seq(OutTokens)
           /\ d.payload \in 0..Len(s) /\ StateOf(d.state, s)
  BY DEF DispType, MessagesType

\* A step of what is neither typed nor asked for.
Aside == {"pc", "ret", "updated", "drain", "flags", "alive", "timer", "fresh", "woken", "outcome"}

\* Steps that touch none of these.
LEMMA QuietStep ==
  ASSUME NEW s, NEW w, NEW d, NEW n, Connected(s, w, d, n), NEW e,
         Keeps(d, e, Aside \cup {"messages", "error"}), d.error => e.error,
         MessagesType(s, e.messages)
  PROVE  Connected(s, w, e, n)
  <1>1. /\ IsDisp(e) /\ e.rq = d.rq /\ e.readBuf = d.readBuf /\ e.writeBuf = d.writeBuf
        /\ e.payload = d.payload /\ e.state = d.state /\ e.eof = d.eof
    BY DEF Keeps, Fields, Aside
  <1>2. DispType(s, e)
    BY <1>1, TypeParts DEF Connected
  <1>3. Taken(e, n) = Taken(d, n) /\ Reached(w, e, n) = Reached(w, d, n)
    BY <1>1 DEF Taken, Reached
  <1>4. WireRead(w, e, n)
    BY <1>1, <1>3 DEF Connected, WireRead
  <1> QED BY <1>1, <1>2, <1>3, <1>4 DEF Connected, Bodies

LEMMA AsideStep ==
  ASSUME NEW s, NEW w, NEW d, NEW n, Connected(s, w, d, n), NEW e, Keeps(d, e, Aside)
  PROVE  Connected(s, w, e, n)
  <1>1. e.messages = d.messages /\ e.error = d.error /\ Keeps(d, e, Aside \cup {"messages", "error"})
    BY DEF Keeps, Fields, Aside
  <1>2. MessagesType(s, d.messages)
    BY TypeParts DEF Connected
  <1> QED BY <1>1, <1>2, QuietStep

\* Tokens of responses and of the interim answer.
LEMMA OutToken ==
  ASSUME NEW t \in {"status", "continue", "data", "fin"}, NEW i \in Nat
  PROVE  Token(t, i) \in OutTokens /\ Token(t, i).t = t /\ Token(t, i).req = i
  BY DEF Token, OutTokens

LEMMA WrittenType ==
  ASSUME NEW q \in Seq(OutTokens), NEW t \in {"status", "continue", "data", "fin"}, NEW i \in Nat
  PROVE  Append(q, Token(t, i)) \in Seq(OutTokens)
  <1>1. Token(t, i) \in OutTokens
    BY OutToken
  <1> HIDE DEF OutTokens, Token
  <1> QED BY <1>1

\* A request is handled, or its service has answered.
LEMMA HandledStep ==
  ASSUME NEW s, NEW w, NEW d, NEW n, Connected(s, w, d, n), NEW i \in 1..Len(s), NEW e,
         Handled(s, d, e, i)
  PROVE  Connected(s, w, e, n)
  <1>1. /\ IsDisp(e) /\ e.readBuf = d.readBuf /\ e.messages = d.messages /\ e.eof = d.eof
        /\ e.payload = d.payload /\ e.error = d.error
    BY DEF Handled, Keeps, Fields
  <1>2. PICK q : /\ q = d.writeBuf \/ q = Append(d.writeBuf, Token("continue", i))
                 /\ Served(s[i], q, d, e, i)
    BY DEF Handled
  <1>3. d.writeBuf \in Seq(OutTokens) /\ i \in Nat
    BY TypeParts DEF Connected
  <1>4. q \in Seq(OutTokens)
    BY <1>2, <1>3, WrittenType
  <1>5. e.writeBuf \in Seq(OutTokens)
    BY <1>2, <1>3, <1>4, WrittenType DEF Served, Pending, Answering, Closing
  <1>6. /\ StateOf(e.state, s)
        /\ Admitted(s, e.state)
    BY <1>2 DEF Served, Pending, Answering, Closing, StateOf, NoState, Admitted
  <1>7. Tasks(e.rq, s) /\ Attentive(s, d, e)
    BY DEF Handled, OnlyTask, Attentive, Attended
  <1>8. DispType(s, e)
    BY <1>1, <1>5, <1>6, <1>7, TypeParts DEF Connected
  <1>9. Taken(e, n) = Taken(d, n) /\ Reached(w, e, n) = Reached(w, d, n)
    BY <1>1 DEF Taken, Reached
  <1>10. WireRead(w, e, n)
    BY <1>1, <1>9 DEF Connected, WireRead
  <1>11. Bodies(s, w, e, n)
    <2>1. Tasks(d.rq, s) /\ d.payload \in 0..Len(s) /\ Bodies(s, w, d, n)
      BY TypeParts DEF Connected
    <2>2. e.payload \in {0, d.payload} /\ (e.eof => n.peer # "open") /\ (d.error => e.error)
      BY <1>1, <2>1 DEF Bodies
    <2> QED BY <1>6, <1>7, <1>9, <2>1, <2>2, BodiesKept
  <1> QED BY <1>8, <1>10, <1>11 DEF Connected

-----------------------------------------------------------------------------
(* Decode. *)

\* Where the turn is after a token.
Onward(d, e) ==
  \/ e.pc = "decode" /\ e.ret = d.ret /\ ("READ_DISCONNECT" \in e.flags => "READ_DISCONNECT" \in d.flags)
  \/ e.pc = "eof"
  \/ d.ret # "poll" /\ e.pc \in {"respond", "flush"}

\* What no token does.
Steady(s, d, e) ==
  /\ e.outcome = d.outcome /\ (d.error => e.error)
  /\ "READ_DISCONNECT" \in d.flags => "READ_DISCONNECT" \in e.flags
  /\ "STARTED" \in d.flags => "STARTED" \in e.flags
  /\ "SHUTDOWN" \in e.flags <=> "SHUTDOWN" \in d.flags
  /\ "WRITE_DISCONNECT" \in e.flags => "WRITE_DISCONNECT" \in d.flags \/ e.error
  /\ \A i \in 1..Len(s) : e.rq[i].go => d.rq[i].go

\* A request or an error is queued, or a request is begun.
Queues(w, d, n, e, t, i) ==
  /\ e.state = d.state /\ e.writeBuf = d.writeBuf
  /\ e.messages = Append(d.messages, Token(t, i))
  /\ IF t = "error" THEN i = 0 /\ "READ_DISCONNECT" \in e.flags /\ e.error /\ e.pc # "decode"
     ELSE /\ "STARTED" \in e.flags
          /\ i = Reached(w, d, n) + 1 /\ Reached(w, e, n) = i
          /\ IF t = "upgrade" THEN e.pc # "decode" ELSE d.state # NoState

\* It begins request i, or takes a token of a body or nothing.
Begins(s, w, d, n, e, i) ==
  /\ d.state = NoState /\ e.messages = d.messages /\ e.pc = d.pc
  /\ "STARTED" \in e.flags
  /\ i = Reached(w, d, n) + 1 /\ Reached(w, e, n) = i
  /\ \E q : /\ q = d.writeBuf \/ q = Append(d.writeBuf, Token("continue", i))
            /\ Served(s[i], q, d, e, i)

Stays(w, d, n, e) ==
  /\ e.state = d.state /\ e.writeBuf = d.writeBuf /\ e.messages = d.messages
  /\ Reached(w, e, n) = Reached(w, d, n)

\* One lemma for each kind of token.
LEMMA OpenedFacts ==
  ASSUME NEW s, NEW w, NEW d, NEW n, Connected(s, w, d, n), d.readBuf # << >>,
         Head(d.readBuf).t = "head", NEW i, i = Head(d.readBuf).req,
         NEW o, o = Opened(d, i)
  PROVE  /\ Keeps(d, o, {"readBuf", "updated", "flags", "alive", "payload"})
         /\ o.updated /\ o.flags = d.flags \cup {"STARTED"}
         /\ DispType(s, o) /\ WireRead(w, o, n)
         /\ Taken(o, n) = Taken(d, n) + 1 /\ Reached(w, o, n) = i
         /\ o.payload = (IF s[i].body > 0 THEN i ELSE 0)
         /\ d.payload = 0 /\ i = Reached(w, d, n) + 1 /\ i \in 1..Len(s)
  <1>1. /\ d.payload = 0 /\ i = Reached(w, d, n) + 1 /\ i \in 1..Len(s)
    BY HeadNext
  <1>2. PICK e : e = Decoded(d)
    OBVIOUS
  <1>3. /\ Keeps(d, e, {"readBuf", "updated", "flags"}) /\ e.readBuf = Tail(d.readBuf)
        /\ e.updated /\ e.flags = d.flags \cup {"STARTED"}
        /\ DispType(s, e) /\ Taken(e, n) = Taken(d, n) + 1 /\ WireRead(w, e, n)
    BY <1>2, DecodedFacts
  <1>4. Kind(i) = s[i]
    BY <1>1, KindFacts DEF Connected
  <1>5. PICK a, p : /\ o = [e EXCEPT !.alive = a, !.payload = p]
                    /\ p = IF s[i].body > 0 THEN i ELSE 0
    <2>1. e.payload = 0
      BY <1>1, <1>3 DEF Keeps, Fields
    <2> QED BY <1>2, <1>4, <2>1 DEF Opened
  <1>6. Keeps(e, o, {"alive", "payload"}) /\ o.payload = p
    BY <1>3, <1>5 DEF Keeps, IsDisp, Fields
  <1>7. /\ Keeps(d, o, {"readBuf", "updated", "flags", "alive", "payload"})
        /\ o.readBuf = e.readBuf /\ o.updated = e.updated /\ o.flags = e.flags
        /\ o.rq = e.rq /\ o.writeBuf = e.writeBuf /\ o.messages = e.messages /\ o.state = e.state
    BY <1>3, <1>6 DEF Keeps, Fields
  <1>8. p \in 0..Len(s)
    BY <1>1, <1>5
  <1>9. DispType(s, o)
    BY <1>3, <1>6, <1>7, <1>8, TypeParts DEF Keeps
  <1>10. Taken(o, n) = Taken(e, n)
    BY <1>7 DEF Taken
  <1>11. WireRead(w, o, n)
    <2>1. WireRead(w, e, n) /\ o.readBuf = e.readBuf
      BY <1>3, <1>7, Zenon
    <2> QED BY <1>10, <2>1, Zenon DEF WireRead
  <1>12. Reached(w, o, n) = i
    <2>1. PICK T \in Nat : T = Taken(d, n) /\ Head(d.readBuf) = w[T + 1]
      BY NextToken
    <2> QED BY <1>3, <1>10, <2>1 DEF Reached
  <1> QED BY <1>1, <1>3, <1>5, <1>6, <1>7, <1>9, <1>10, <1>11, <1>12

LEMMA DecodeUpgrade ==
  ASSUME NEW s, NEW w, NEW d, NEW n, Connected(s, w, d, n), d.readBuf # << >>,
         Head(d.readBuf).t = "head", NEW i, i = Head(d.readBuf).req, s[i].head = "upgrade",
         NEW e, e = DecodeHead(d, i)
  PROVE  /\ Connected(s, w, e, n) /\ Onward(d, e) /\ Steady(s, d, e)
         /\ Queues(w, d, n, e, "upgrade", i)
  <1>1. PICK o : o = Opened(d, i)
    OBVIOUS
  <1>2. /\ Keeps(d, o, {"readBuf", "updated", "flags", "alive", "payload"})
        /\ o.updated /\ o.flags = d.flags \cup {"STARTED"}
        /\ DispType(s, o) /\ WireRead(w, o, n)
        /\ Taken(o, n) = Taken(d, n) + 1 /\ Reached(w, o, n) = i
        /\ d.payload = 0 /\ i = Reached(w, d, n) + 1 /\ i \in 1..Len(s)
    BY <1>1, OpenedFacts
  <1>3. PICK m : m = Append(d.messages, Token("upgrade", i))
    OBVIOUS
  <1>4. PICK x : x = [o EXCEPT !.payload = 0, !.messages = m] /\ e = EndPollRequest(x)
    <2>1. Kind(i).head = "upgrade"
      BY <1>2, KindFacts DEF Connected
    <2>2. o.messages = d.messages
      BY <1>2 DEF Keeps, Fields
    <2> QED BY <1>1, <1>2, <1>3, <2>1, <2>2 DEF DecodeHead
  <1>5. Keeps(o, x, {"payload", "messages"}) /\ x.payload = 0 /\ x.messages = m
    BY <1>2, <1>4 DEF DispType, IsDisp, Keeps, Fields
  <1>6. /\ IsDisp(x) /\ x.readBuf = o.readBuf /\ x.writeBuf = d.writeBuf /\ x.rq = d.rq /\ x.eof = d.eof
        /\ x.error = d.error /\ x.state = d.state /\ x.flags = o.flags /\ x.ret = d.ret
        /\ x.outcome = d.outcome /\ x.updated = o.updated
    BY <1>2, <1>5, ZenonT(60) DEF Keeps, Fields
  <1>7. Taken(x, n) = Taken(o, n) /\ Reached(w, x, n) = i
    BY <1>2, <1>6 DEF Taken, Reached
  <1>8. Connected(s, w, x, n)
    <2>1. MessagesType(s, d.messages)
      BY TypeParts DEF Connected
    <2>2. MessagesType(s, x.messages)
      <3>1. MessagesType(s, Append(d.messages, Token("upgrade", i)))
        BY <1>2, <2>1, MessageQueued
      <3> QED BY <1>3, <1>5, <3>1, Zenon
    <2>3. DispType(s, x)
      <3>1. /\ d.writeBuf \in Seq(OutTokens) /\ o.readBuf \in Seq(InTokens(s)) /\ Tasks(d.rq, s)
            /\ StateOf(d.state, s) /\ Len(s) \in Nat
        BY <1>2, TypeParts DEF Connected
      <3> QED BY <1>5, <1>6, <2>2, <3>1, TypeParts
    <2>4. WireRead(w, x, n)
      BY <1>2, <1>6, <1>7 DEF WireRead
    <2>5. Bodies(s, w, x, n)
      BY <1>2, <1>5, <1>6, <1>7, HeadBodies
    <2> QED BY <2>3, <2>4, <2>5 DEF Connected
  <1>9. /\ Keeps(x, e, {"fresh", "pc"})
        /\ e.pc = (IF x.ret = "poll" THEN "eof" ELSE IF x.updated THEN "respond" ELSE "flush")
    BY <1>4, <1>6, EndPollFacts, ZenonT(60)
  <1>10. Connected(s, w, e, n)
    <2>1. Keeps(x, e, Aside)
      BY <1>9 DEF Keeps, Fields, Aside
    <2> QED BY <1>8, <2>1, AsideStep
  <1>11. /\ e.writeBuf = d.writeBuf /\ e.rq = d.rq /\ e.error = d.error /\ e.state = d.state
         /\ e.flags = d.flags \cup {"STARTED"} /\ e.outcome = d.outcome /\ e.messages = m
         /\ e.readBuf = x.readBuf
    BY <1>2, <1>5, <1>6, <1>9 DEF Keeps, Fields
  <1>12. Reached(w, e, n) = i
    BY <1>7, <1>11 DEF Taken, Reached
  <1>13. Onward(d, e) /\ e.pc # "decode"
    BY <1>6, <1>9 DEF Onward
  <1>14. Steady(s, d, e)
    BY <1>11 DEF Steady
  <1>15. Queues(w, d, n, e, "upgrade", i)
    BY <1>2, <1>3, <1>11, <1>12, <1>13 DEF Queues
  <1> QED BY <1>10, <1>13, <1>14, <1>15

LEMMA DecodeItem ==
  ASSUME NEW s, NEW w, NEW d, NEW n, Connected(s, w, d, n), d.readBuf # << >>, d.pc = "decode",
         Head(d.readBuf).t = "head", NEW i, i = Head(d.readBuf).req, s[i].head # "upgrade",
         d.state # NoState, NEW e, e = DecodeHead(d, i)
  PROVE  /\ Connected(s, w, e, n) /\ Onward(d, e) /\ Steady(s, d, e)
         /\ Queues(w, d, n, e, "item", i)
  <1>1. PICK o : o = Opened(d, i)
    OBVIOUS
  <1>2. /\ Keeps(d, o, {"readBuf", "updated", "flags", "alive", "payload"})
        /\ o.updated /\ o.flags = d.flags \cup {"STARTED"}
        /\ DispType(s, o) /\ WireRead(w, o, n)
        /\ Taken(o, n) = Taken(d, n) + 1 /\ Reached(w, o, n) = i
        /\ o.payload = (IF s[i].body > 0 THEN i ELSE 0)
        /\ d.payload = 0 /\ i = Reached(w, d, n) + 1 /\ i \in 1..Len(s)
    BY <1>1, OpenedFacts
  <1>3. PICK m : m = Append(d.messages, Token("item", i))
    OBVIOUS
  <1>4. e = [o EXCEPT !.messages = m]
    <2>1. Kind(i).head # "upgrade"
      BY <1>2, KindFacts DEF Connected
    <2>2. o.messages = d.messages
      BY <1>2 DEF Keeps, Fields
    <2> QED BY <1>1, <1>2, <1>3, <2>1, <2>2 DEF DecodeHead
  <1>5. Keeps(o, e, {"messages"}) /\ e.messages = m
    BY <1>2, <1>4 DEF DispType, IsDisp, Keeps, Fields
  <1>6. /\ IsDisp(e) /\ e.readBuf = o.readBuf /\ e.writeBuf = d.writeBuf /\ e.rq = d.rq /\ e.eof = d.eof
        /\ e.error = d.error /\ e.state = d.state /\ e.flags = o.flags /\ e.ret = d.ret
        /\ e.outcome = d.outcome /\ e.payload = o.payload /\ e.pc = d.pc
    BY <1>2, <1>5 DEF Keeps, Fields
  <1>7. Taken(e, n) = Taken(o, n) /\ Reached(w, e, n) = i
    BY <1>2, <1>6 DEF Taken, Reached
  <1>8. Connected(s, w, e, n)
    <2>1. MessagesType(s, d.messages)
      BY TypeParts DEF Connected
    <2>2. MessagesType(s, e.messages)
      <3>1. MessagesType(s, Append(d.messages, Token("item", i)))
        BY <1>2, <2>1, MessageQueued
      <3> QED BY <1>3, <1>5, <3>1, Zenon
    <2>3. DispType(s, e)
      <3>1. /\ d.writeBuf \in Seq(OutTokens) /\ o.readBuf \in Seq(InTokens(s)) /\ Tasks(d.rq, s)
            /\ StateOf(d.state, s) /\ o.payload \in 0..Len(s)
        BY <1>2, TypeParts DEF Connected
      <3> QED BY <1>5, <1>6, <2>2, <3>1, TypeParts
    <2>4. WireRead(w, e, n)
      <3>1. e.readBuf = o.readBuf /\ Taken(e, n) = Taken(o, n) /\ WireRead(w, o, n)
        BY <1>2, <1>6, <1>7
      <3> QED BY <3>1 DEF WireRead
    <2>5. Bodies(s, w, e, n)
      <3>1. Taken(e, n) = Taken(d, n) + 1
        BY <1>2, <1>7
      <3>2. e.payload = (IF s[i].body > 0 /\ s[i].head # "upgrade" THEN i ELSE 0)
        BY <1>2, <1>6
      <3>3. e.rq = d.rq /\ e.eof = d.eof /\ e.error = d.error /\ e.state = d.state
        BY <1>6
      <3> QED BY <3>1, <3>2, <3>3, HeadBodies
    <2> QED BY <2>3, <2>4, <2>5 DEF Connected
  <1>9. e.flags = d.flags \cup {"STARTED"} /\ e.pc = "decode" /\ e.ret = d.ret
    BY <1>2, <1>6
  <1>10. Onward(d, e)
    BY <1>9 DEF Onward
  <1>11. Steady(s, d, e)
    <2>1. e.rq = d.rq /\ e.outcome = d.outcome /\ e.error = d.error
      BY <1>6
    <2> QED BY <1>9, <2>1 DEF Steady
  <1>12. Queues(w, d, n, e, "item", i)
    BY <1>2, <1>3, <1>5, <1>6, <1>7 DEF Queues
  <1> QED BY <1>8, <1>10, <1>11, <1>12

LEMMA DecodeBegins ==
  ASSUME NEW s, NEW w, NEW d, NEW n, Connected(s, w, d, n), d.readBuf # << >>, d.pc = "decode",
         Head(d.readBuf).t = "head", NEW i, i = Head(d.readBuf).req, s[i].head # "upgrade",
         d.state = NoState, NEW e, e = DecodeHead(d, i)
  PROVE  /\ Connected(s, w, e, n) /\ Onward(d, e) /\ Steady(s, d, e)
         /\ Begins(s, w, d, n, e, i)
  <1>1. PICK o : o = Opened(d, i)
    OBVIOUS
  <1>2. /\ Keeps(d, o, {"readBuf", "updated", "flags", "alive", "payload"})
        /\ o.updated /\ o.flags = d.flags \cup {"STARTED"}
        /\ DispType(s, o) /\ WireRead(w, o, n)
        /\ Taken(o, n) = Taken(d, n) + 1 /\ Reached(w, o, n) = i
        /\ o.payload = (IF s[i].body > 0 THEN i ELSE 0)
        /\ d.payload = 0 /\ i = Reached(w, d, n) + 1 /\ i \in 1..Len(s)
    BY <1>1, OpenedFacts
  <1>3. e = HandleRequest(o, i)
    <2>1. Kind(i).head # "upgrade"
      BY <1>2, KindFacts DEF Connected
    <2> QED BY <1>1, <2>1 DEF DecodeHead
  <1>4. /\ o.writeBuf = d.writeBuf /\ o.rq = d.rq /\ o.eof = d.eof /\ o.messages = d.messages
        /\ o.error = d.error /\ o.state = d.state /\ o.ret = d.ret /\ o.outcome = d.outcome
        /\ o.pc = d.pc
    BY <1>2 DEF Keeps, Fields
  <1>5. Connected(s, w, o, n)
    <2>1. Bodies(s, w, o, n)
      BY <1>2, <1>4, HeadBodies
    <2> QED BY <1>2, <2>1 DEF Connected
  <1>6. Handled(s, o, e, i)
    BY <1>2, <1>3, HandleRequestFacts DEF DispType, Connected
  <1>7. Connected(s, w, e, n)
    BY <1>2, <1>5, <1>6, HandledStep
  <1>8. /\ e.readBuf = o.readBuf /\ e.messages = o.messages /\ e.error = o.error /\ e.pc = o.pc
        /\ e.ret = o.ret /\ e.outcome = o.outcome /\ SameFlags(o, e)
    BY <1>6 DEF Handled, Keeps, Fields
  <1>9. Reached(w, e, n) = i
    BY <1>2, <1>8 DEF Taken, Reached
  <1>10. ("READ_DISCONNECT" \in e.flags <=> "READ_DISCONNECT" \in d.flags)
         /\ "STARTED" \in e.flags
         /\ ("SHUTDOWN" \in e.flags <=> "SHUTDOWN" \in d.flags)
         /\ ("WRITE_DISCONNECT" \in e.flags <=> "WRITE_DISCONNECT" \in d.flags)
    BY <1>2, <1>8 DEF SameFlags, Signals
  <1>11. \A j \in 1..Len(s) : e.rq[j].go => d.rq[j].go
    <2>1. Attended(s[i], o.rq[i], e.rq[i]) /\ \A j \in 1..Len(s) : j # i => e.rq[j] = o.rq[j]
      BY <1>6, ZenonT(60) DEF Handled, OnlyTask
    <2>2. e.rq[i].go => o.rq[i].go
      BY <2>1, ZenonT(60) DEF Attended, Polled, KeepsTask, TaskFields
    <2> QED BY <1>4, <2>1, <2>2, ZenonT(60)
  <1>12. Begins(s, w, d, n, e, i)
    <2>1. PICK q : /\ q = o.writeBuf \/ q = Append(o.writeBuf, Token("continue", i))
                   /\ Served(s[i], q, o, e, i)
      BY <1>6, ZenonT(60) DEF Handled
    <2>2. Served(s[i], q, d, e, i)
      BY <1>4, <2>1 DEF Served, Pending, Answering, Closing
    <2> QED BY <1>2, <1>4, <1>8, <1>9, <1>10, <2>1, <2>2 DEF Begins
  <1> QED BY <1>4, <1>7, <1>8, <1>10, <1>11, <1>12 DEF Onward, Steady

\* What follows an upgrade that waits, or a payload that is closed.
LEMMA DecodeStray ==
  ASSUME NEW s, NEW w, NEW d, NEW n, Connected(s, w, d, n), d.readBuf # << >>,
         Head(d.readBuf).t = "chunk", d.payload = 0, NEW e, e = Unexpected(Decoded(d))
  PROVE  /\ Connected(s, w, e, n) /\ Onward(d, e) /\ Steady(s, d, e)
         /\ Queues(w, d, n, e, "error", 0)
  <1>1. PICK o : o = Decoded(d)
    OBVIOUS
  <1>2. /\ Keeps(d, o, {"readBuf", "updated", "flags"})
        /\ o.flags = d.flags \cup {"STARTED"}
        /\ DispType(s, o) /\ Taken(o, n) = Taken(d, n) + 1 /\ WireRead(w, o, n)
    BY <1>1, DecodedFacts
  <1>3. PICK m : m = Append(d.messages, Token("error", 0))
    OBVIOUS
  <1>4. PICK x : /\ e = EndPollRequest(x)
                 /\ x = [o EXCEPT !.flags = o.flags \cup {"READ_DISCONNECT"}, !.messages = m, !.error = TRUE]
    <2>1. o.messages = d.messages
      BY <1>2 DEF Keeps, Fields
    <2>2. [Flagged(o, {"READ_DISCONNECT"}) EXCEPT !.messages = Append(@, Token("error", 0)), !.error = TRUE]
            = [o EXCEPT !.flags = o.flags \cup {"READ_DISCONNECT"}, !.messages = m, !.error = TRUE]
      BY <1>2, <1>3, <2>1 DEF Flagged, Keeps, IsDisp, Fields
    <2> QED BY <1>1, <2>2 DEF Unexpected
  <1>5. /\ Keeps(o, x, {"flags", "messages", "error"}) /\ x.messages = m /\ x.error
        /\ x.flags = o.flags \cup {"READ_DISCONNECT"}
    BY <1>2, <1>4 DEF Keeps, IsDisp, Fields
  <1>6. /\ IsDisp(x) /\ x.readBuf = o.readBuf /\ x.writeBuf = d.writeBuf /\ x.rq = d.rq /\ x.eof = d.eof
        /\ x.state = d.state /\ x.ret = d.ret /\ x.payload = d.payload /\ x.outcome = d.outcome
    BY <1>2, <1>5 DEF Keeps, Fields
  <1>7. Taken(x, n) = Taken(o, n)
    BY <1>6 DEF Taken
  <1>8. Connected(s, w, x, n)
    <2>1. MessagesType(s, x.messages)
      <3>1. MessagesType(s, d.messages) /\ 0 \in 0..Len(s)
        <4>1. Len(s) \in Nat
          BY LenFacts DEF Connected, Carries
        <4> QED BY <4>1, TypeParts DEF Connected
      <3>2. MessagesType(s, Append(d.messages, Token("error", 0)))
        BY <3>1, MessageQueued
      <3> QED BY <1>3, <1>5, <3>2, Zenon
    <2>2. DispType(s, x)
      <3>1. /\ d.writeBuf \in Seq(OutTokens) /\ o.readBuf \in Seq(InTokens(s)) /\ Tasks(d.rq, s)
            /\ StateOf(d.state, s) /\ d.payload \in 0..Len(s)
        BY <1>2, TypeParts DEF Connected
      <3> QED BY <1>5, <1>6, <2>1, <3>1, TypeParts
    <2>3. WireRead(w, x, n)
      BY <1>2, <1>6, <1>7 DEF WireRead
    <2>4. Bodies(s, w, x, n)
      BY <1>2, <1>5, <1>6, <1>7, StrayBodies
    <2> QED BY <2>2, <2>3, <2>4 DEF Connected
  <1>9. /\ Keeps(x, e, {"fresh", "pc"})
        /\ e.pc = (IF x.ret = "poll" THEN "eof" ELSE IF x.updated THEN "respond" ELSE "flush")
    BY <1>4, <1>6, EndPollFacts
  <1>10. Connected(s, w, e, n)
    <2>1. Keeps(x, e, Aside)
      BY <1>9 DEF Keeps, Fields, Aside
    <2> QED BY <1>8, <2>1, AsideStep
  <1>11. /\ e.writeBuf = d.writeBuf /\ e.rq = d.rq /\ e.error /\ e.state = d.state
         /\ e.flags = x.flags /\ e.outcome = d.outcome /\ e.messages = m
    BY <1>5, <1>6, <1>9 DEF Keeps, Fields
  <1>12. Onward(d, e) /\ e.pc # "decode"
    BY <1>6, <1>9 DEF Onward
  <1>13. Steady(s, d, e) /\ "READ_DISCONNECT" \in e.flags
    BY <1>2, <1>5, <1>11 DEF Steady
  <1>14. Queues(w, d, n, e, "error", 0)
    BY <1>3, <1>11, <1>12, <1>13 DEF Queues
  <1> QED BY <1>10, <1>12, <1>13, <1>14

\* A malformed head is an error behind what is queued.
LEMMA DecodeMalformedFacts ==
  ASSUME NEW s, NEW w, NEW d, NEW n, Connected(s, w, d, n), NEW e, e = DecodeMalformed(d)
  PROVE  /\ Connected(s, w, e, n) /\ Onward(d, e) /\ Steady(s, d, e)
         /\ Queues(w, d, n, e, "error", 0)
  <1>1. PICK o : o = SetError(d)
    OBVIOUS
  <1>2. Connected(s, w, o, n) /\ Keeps(d, o, {"rq", "payload"}) /\ \A i \in 1..Len(s) : o.rq[i].go => d.rq[i].go
    <2>1. Connected(s, w, o, n)
      BY <1>1, SetErrorBodies
    <2>2. /\ Keeps(d, o, {"rq", "payload"})
          /\ d.payload = 0 => o.rq = d.rq
          /\ d.payload # 0 =>
               /\ OnlyTask(s, d, o, d.payload)
               /\ KeepsTask(d.rq[d.payload], o.rq[d.payload], {"err"})
      BY <1>1, SetErrorFacts DEF Connected
    <2>3. \A i \in 1..Len(s) : o.rq[i].go => d.rq[i].go
      BY <2>2 DEF OnlyTask, KeepsTask, TaskFields
    <2> QED BY <2>1, <2>2, <2>3
  <1>3. PICK m : m = Append(d.messages, Token("error", 0))
    OBVIOUS
  <1>4. PICK x : /\ e = EndPollRequest(x)
                 /\ x = [o EXCEPT !.flags = o.flags \cup {"READ_DISCONNECT"}, !.messages = m, !.error = TRUE]
    <2>1. o.messages = d.messages
      BY <1>2 DEF Keeps, Fields
    <2>2. [Flagged(o, {"READ_DISCONNECT"}) EXCEPT !.messages = Append(@, Token("error", 0)), !.error = TRUE]
            = [o EXCEPT !.flags = o.flags \cup {"READ_DISCONNECT"}, !.messages = m, !.error = TRUE]
      BY <1>2, <1>3, <2>1 DEF Flagged, Keeps, IsDisp, Fields
    <2> QED BY <1>1, <2>2 DEF DecodeMalformed
  <1>5. /\ Keeps(o, x, {"flags", "messages", "error"}) /\ x.messages = m /\ x.error
        /\ x.flags = o.flags \cup {"READ_DISCONNECT"}
    BY <1>2, <1>4 DEF Keeps, IsDisp, Fields
  <1>6. /\ Keeps(x, e, {"fresh", "pc"})
        /\ e.pc = (IF x.ret = "poll" THEN "eof" ELSE IF x.updated THEN "respond" ELSE "flush")
    <2>1. IsDisp(x)
      BY <1>5 DEF Keeps
    <2> QED BY <1>4, <2>1, EndPollFacts
  <1>7. /\ Keeps(o, e, Aside \cup {"messages", "error"}) /\ e.messages = m /\ e.error
        /\ e.flags = d.flags \cup {"READ_DISCONNECT"} /\ e.writeBuf = d.writeBuf /\ e.state = d.state
        /\ e.outcome = d.outcome /\ e.rq = o.rq /\ x.ret = d.ret
    BY <1>2, <1>5, <1>6 DEF Keeps, Fields, Aside
  <1>8. MessagesType(s, e.messages)
    <2>1. MessagesType(s, d.messages) /\ 0 \in 0..Len(s)
      <3>1. Len(s) \in Nat
        BY LenFacts DEF Connected, Carries
      <3> QED BY <3>1, TypeParts DEF Connected
    <2>2. MessagesType(s, Append(d.messages, Token("error", 0)))
      BY <2>1, MessageQueued
    <2> QED BY <1>3, <1>7, <2>2, Zenon
  <1>9. Connected(s, w, e, n)
    BY <1>2, <1>7, <1>8, QuietStep
  <1>10. Onward(d, e) /\ e.pc # "decode"
    BY <1>6, <1>7 DEF Onward
  <1>11. Steady(s, d, e) /\ "READ_DISCONNECT" \in e.flags
    BY <1>2, <1>7 DEF Steady
  <1>12. Queues(w, d, n, e, "error", 0)
    BY <1>3, <1>7, <1>10, <1>11 DEF Queues
  <1> QED BY <1>9, <1>10, <1>11, <1>12

\* A chunk is fed to the open channel.
LEMMA DecodeChunk ==
  ASSUME NEW s, NEW w, NEW d, NEW n, Connected(s, w, d, n), d.readBuf # << >>, d.pc = "decode",
         Head(d.readBuf).t = "chunk", d.payload # 0,
         NEW e, e = FeedData(Decoded(d), Head(d.readBuf).n)
  PROVE  /\ Connected(s, w, e, n) /\ Onward(d, e) /\ Steady(s, d, e) /\ Stays(w, d, n, e)
  <1>1. PICK o : o = Decoded(d)
    OBVIOUS
  <1>2. /\ Keeps(d, o, {"readBuf", "updated", "flags"})
        /\ o.flags = d.flags \cup {"STARTED"}
        /\ DispType(s, o) /\ Taken(o, n) = Taken(d, n) + 1 /\ WireRead(w, o, n)
    BY <1>1, DecodedFacts
  <1>3. /\ o.writeBuf = d.writeBuf /\ o.rq = d.rq /\ o.eof = d.eof /\ o.messages = d.messages
        /\ o.error = d.error /\ o.state = d.state /\ o.ret = d.ret /\ o.outcome = d.outcome
        /\ o.pc = d.pc /\ o.payload = d.payload
    BY <1>2 DEF Keeps, Fields
  <1>4. PICK j \in 1..Len(s) : j = d.payload /\ j = o.payload
    <2>1. d.payload \in 1..Len(s)
      BY DEF Connected, DispType
    <2> QED BY <1>3, <2>1
  <1>5. PICK T \in Nat : /\ T = Taken(d, n) /\ T + 1 \in 1..Len(w)
                         /\ Head(d.readBuf) = w[T + 1] /\ w[T + 1] \in InTokens(s)
                         /\ Continues(w, s, T + 1)
                         /\ T > 0 => w[T] \in InTokens(s)
                         /\ T > 0 => Reached(w, d, n) = w[T].req
    BY NextToken
  <1>6. PICK m \in Nat : m = Head(d.readBuf).n /\ m = w[T + 1].n
    BY <1>5, TokenParts
  <1>7. /\ T > 0 /\ w[T + 1].req = j /\ m = w[T].n + 1 /\ m <= s[j].body
        /\ Feeding(s, d.rq[j], w[T], j)
    <2>1. T > 0 /\ Feeding(s, d.rq[j], w[T], j)
      BY <1>4, <1>5 DEF Connected, Bodies
    <2>2. /\ w[T + 1].req = w[T + 1 - 1].req /\ m = w[T + 1 - 1].n + 1 /\ m <= s[w[T + 1].req].body
      BY <1>5, <1>6 DEF Continues
    <2>3. T + 1 - 1 = T
      OBVIOUS
    <2> QED BY <2>1, <2>2, <2>3 DEF Feeding
  <1>8. /\ Keeps(o, e, {"rq", "woken"}) /\ OnlyTask(s, o, e, j)
        /\ ~o.rq[j].alive => e.rq[j] = o.rq[j]
        /\ o.rq[j].alive => Pushed(o.rq[j], e.rq[j], m)
    <2>1. e = FeedData(o, m)
      BY <1>1, <1>6
    <2> QED BY <1>2, <1>4, <2>1, FeedDataFacts
  <1>9. PICK r, t : /\ r = d.rq[j] /\ t = e.rq[j] /\ TaskType(r) /\ TaskType(t) /\ TaskOK(s[j], r, n.peer)
                    /\ ~r.eof /\ ~r.err /\ (r.alive => Held(r) = w[T].n)
    <2>1. TaskType(d.rq[j]) /\ TaskOK(s[j], d.rq[j], n.peer)
      BY DEF Connected, DispType, Tasks, Bodies
    <2>2. TaskType(e.rq[j])
      BY <1>8 DEF OnlyTask, Tasks
    <2>3. ~d.rq[j].eof /\ ~d.rq[j].err /\ (d.rq[j].alive => Held(d.rq[j]) = w[T].n)
      BY <1>7 DEF Feeding
    <2> QED BY <2>1, <2>2, <2>3, Zenon
  <1>10. TaskOK(s[j], t, n.peer) /\ Listening(t, m) /\ (t.go => r.go)
    <2>1. CASE ~r.alive
      <3>1. t = r
        BY <1>3, <1>8, <1>9, <2>1
      <3> QED BY <1>9, <2>1, <3>1 DEF Listening
    <2>2. CASE r.alive
      <3>1. Pushed(r, t, m)
        BY <1>3, <1>8, <1>9, <2>2
      <3>2. m = Held(r) + 1
        BY <1>7, <1>9, <2>2
      <3>3. TaskOK(s[j], t, n.peer) /\ Held(t) = m
        <4>1. m <= s[j].body
          BY <1>7
        <4> QED BY <1>9, <3>1, <3>2, <4>1, PushOK
      <3>4. t.eof = r.eof /\ t.err = r.err /\ t.go = r.go
        BY <3>1 DEF Pushed, KeepsTask, TaskFields
      <3> QED BY <1>9, <3>3, <3>4 DEF Listening
    <2> QED BY <2>1, <2>2
  <1>11. /\ IsDisp(e) /\ e.readBuf = o.readBuf /\ e.writeBuf = o.writeBuf /\ e.eof = d.eof
         /\ e.messages = d.messages /\ e.flags = o.flags /\ e.pc = d.pc
         /\ e.error = d.error /\ e.state = d.state /\ e.ret = d.ret /\ e.outcome = d.outcome
         /\ e.payload = d.payload
    BY <1>3, <1>8 DEF Keeps, Fields
  <1>12. Taken(e, n) = Taken(o, n) /\ Reached(w, e, n) = j /\ Reached(w, d, n) = j
    <2>1. Taken(e, n) = Taken(o, n)
      BY <1>11 DEF Taken
    <2>2. w[T].req = j
      BY <1>7 DEF Feeding
    <2> QED BY <1>2, <1>5, <1>7, <2>1, <2>2 DEF Reached
  <1>13. OnlyTask(s, d, e, j)
    BY <1>3, <1>8 DEF OnlyTask
  <1>14. Connected(s, w, e, n)
    <2>1. DispType(s, e)
      <3>1. Tasks(e.rq, s)
        BY <1>13 DEF OnlyTask
      <3> QED BY <1>2, <1>3, <1>11, <3>1, TypeParts
    <2>2. WireRead(w, e, n)
      BY <1>2, <1>11, <1>12 DEF WireRead
    <2>3. Bodies(s, w, e, n)
      <3>1. Taken(e, n) = Taken(d, n) + 1 /\ Listening(e.rq[j], Head(d.readBuf).n)
        BY <1>2, <1>6, <1>9, <1>10, <1>12
      <3>2. TaskOK(s[j], e.rq[j], n.peer) /\ e.payload = j
        BY <1>4, <1>9, <1>10, <1>11
      <3>3. e.eof = d.eof /\ e.error = d.error /\ e.state = d.state
        BY <1>11
      <3>4. Head(d.readBuf).t \in {"chunk", "end"} /\ Head(d.readBuf).t # "end"
        OBVIOUS
      <3>5. IF Head(d.readBuf).t = "end" THEN e.payload = 0
            ELSE e.payload = j /\ Listening(e.rq[j], Head(d.readBuf).n)
        BY <3>1, <3>2, <3>4
      <3> QED BY <1>4, <1>13, <3>1, <3>2, <3>3, <3>4, <3>5, FedBodies
    <2> QED BY <2>1, <2>2, <2>3 DEF Connected
  <1>15. Onward(d, e)
    BY <1>2, <1>11 DEF Onward
  <1>16. Steady(s, d, e)
    <2>1. \A i \in 1..Len(s) : e.rq[i].go => d.rq[i].go
      BY <1>9, <1>10, <1>13 DEF OnlyTask
    <2>2. e.flags = d.flags \cup {"STARTED"} /\ e.outcome = d.outcome /\ e.error = d.error
      BY <1>2, <1>11
    <2> QED BY <2>1, <2>2 DEF Steady
  <1>17. Stays(w, d, n, e)
    BY <1>3, <1>11, <1>12 DEF Stays
  <1> QED BY <1>14, <1>15, <1>16, <1>17

\* The end of a body closes its channel.
LEMMA DecodeEndFacts ==
  ASSUME NEW s, NEW w, NEW d, NEW n, Connected(s, w, d, n), d.readBuf # << >>, d.pc = "decode",
         Head(d.readBuf).t = "end", NEW e, e = DecodeEnd(d)
  PROVE  /\ Connected(s, w, e, n) /\ Onward(d, e) /\ Steady(s, d, e) /\ Stays(w, d, n, e)
  <1>1. PICK o : o = Decoded(d)
    OBVIOUS
  <1>2. /\ Keeps(d, o, {"readBuf", "updated", "flags"})
        /\ o.flags = d.flags \cup {"STARTED"}
        /\ DispType(s, o) /\ Taken(o, n) = Taken(d, n) + 1 /\ WireRead(w, o, n)
    BY <1>1, DecodedFacts
  <1>3. /\ o.writeBuf = d.writeBuf /\ o.rq = d.rq /\ o.eof = d.eof /\ o.messages = d.messages
        /\ o.error = d.error /\ o.state = d.state /\ o.ret = d.ret /\ o.outcome = d.outcome
        /\ o.pc = d.pc /\ o.payload = d.payload
    BY <1>2 DEF Keeps, Fields
  <1>4. /\ Keeps(o, e, {"rq", "payload"}) /\ e.payload = 0
        /\ o.payload = 0 => e.rq = o.rq
        /\ o.payload # 0 =>
             /\ OnlyTask(s, o, e, o.payload)
             /\ KeepsTask(o.rq[o.payload], e.rq[o.payload], {"eof"})
             /\ e.rq[o.payload].eof <=> o.rq[o.payload].eof \/ o.rq[o.payload].alive
    <2>1. e = FeedEof(o)
      BY <1>1 DEF DecodeEnd
    <2> QED BY <1>2, <2>1, FeedEofFacts
  <1>5. PICK T \in Nat : /\ T = Taken(d, n) /\ T + 1 \in 1..Len(w)
                         /\ Head(d.readBuf) = w[T + 1] /\ w[T + 1] \in InTokens(s)
                         /\ Continues(w, s, T + 1)
                         /\ T > 0 => w[T] \in InTokens(s)
                         /\ T > 0 => Reached(w, d, n) = w[T].req
    BY NextToken
  <1>6. /\ T > 0 /\ w[T + 1].req = w[T].req /\ w[T].n = s[w[T].req].body /\ ~s[w[T].req].corrupt
    <2>1. /\ T + 1 > 1 /\ w[T + 1].req = w[T + 1 - 1].req
          /\ w[T + 1 - 1].n = s[w[T + 1].req].body /\ ~s[w[T + 1].req].corrupt
      BY <1>5 DEF Continues
    <2>2. T + 1 - 1 = T
      OBVIOUS
    <2> QED BY <2>1, <2>2
  <1>7. /\ IsDisp(e) /\ e.readBuf = o.readBuf /\ e.writeBuf = o.writeBuf /\ e.eof = d.eof
        /\ e.messages = d.messages /\ e.flags = o.flags /\ e.pc = d.pc
        /\ e.error = d.error /\ e.state = d.state /\ e.ret = d.ret /\ e.outcome = d.outcome
    BY <1>3, <1>4 DEF Keeps, Fields
  <1>8. Taken(e, n) = Taken(o, n) /\ Reached(w, e, n) = Reached(w, d, n)
    <2>1. Taken(e, n) = Taken(o, n)
      BY <1>7 DEF Taken
    <2> QED BY <1>2, <1>5, <1>6, <2>1 DEF Reached
  <1>9. Tasks(e.rq, s) /\ Bodies(s, w, e, n) /\ \A i \in 1..Len(s) : e.rq[i].go => d.rq[i].go
    <2>1. Taken(e, n) = Taken(d, n) + 1
      BY <1>2, <1>8
    <2>2. CASE d.payload = 0
      <3>1. e.rq = d.rq
        BY <1>3, <1>4, <2>2
      <3>2. Tasks(e.rq, s)
        BY <3>1 DEF Connected, DispType
      <3>3. Bodies(s, w, e, n)
        BY <1>4, <1>7, <2>1, <2>2, <3>1, StrayBodies
      <3> QED BY <3>1, <3>2, <3>3
    <2>3. CASE d.payload # 0
      <3>1. PICK j \in 1..Len(s) : j = d.payload /\ j = o.payload
        <4>1. d.payload \in 1..Len(s)
          BY <2>3 DEF Connected, DispType
        <4> QED BY <1>3, <4>1
      <3>2. Feeding(s, d.rq[j], w[T], j)
        BY <1>5, <2>3, <3>1 DEF Connected, Bodies
      <3>3. PICK r, t : /\ r = d.rq[j] /\ t = e.rq[j] /\ TaskOK(s[j], r, n.peer)
                        /\ KeepsTask(r, t, {"eof"}) /\ (t.eof <=> r.eof \/ r.alive)
        <4>1. TaskOK(s[j], d.rq[j], n.peer)
          BY DEF Connected, Bodies
        <4>2. KeepsTask(d.rq[j], e.rq[j], {"eof"}) /\ (e.rq[j].eof <=> d.rq[j].eof \/ d.rq[j].alive)
          BY <1>3, <1>4, <2>3, <3>1
        <4> QED BY <4>1, <4>2, Zenon
      <3>4. r.alive => Held(r) = s[j].body /\ ~s[j].corrupt
        BY <1>6, <3>2, <3>3 DEF Feeding
      <3>5. TaskOK(s[j], t, n.peer)
        BY <3>3, <3>4, EofOK
      <3>6. OnlyTask(s, d, e, j)
        BY <1>3, <1>4, <2>3, <3>1 DEF OnlyTask
      <3>7. Bodies(s, w, e, n)
        BY <1>4, <1>7, <2>1, <3>1, <3>3, <3>5, <3>6, FedBodies
      <3>8. t.go = r.go
        BY <3>3 DEF KeepsTask, TaskFields
      <3> QED BY <3>3, <3>6, <3>7, <3>8 DEF OnlyTask
    <2> QED BY <2>2, <2>3
  <1>10. Connected(s, w, e, n)
    <2>1. DispType(s, e)
      <3>1. 0 \in 0..Len(s)
        <4>1. Len(s) \in Nat
          BY LenFacts DEF Connected, Carries
        <4> QED BY <4>1
      <3> QED BY <1>2, <1>3, <1>4, <1>7, <1>9, <3>1, TypeParts
    <2>2. WireRead(w, e, n)
      BY <1>2, <1>7, <1>8 DEF WireRead
    <2> QED BY <1>9, <2>1, <2>2 DEF Connected
  <1>11. Onward(d, e)
    BY <1>2, <1>7 DEF Onward
  <1>12. Steady(s, d, e)
    BY <1>2, <1>7, <1>9 DEF Steady
  <1>13. Stays(w, d, n, e)
    BY <1>3, <1>7, <1>8 DEF Stays
  <1> QED BY <1>10, <1>11, <1>12, <1>13

\* A corrupt chunk ends the channel with an error.
LEMMA DecodeCorruptFacts ==
  ASSUME NEW s, NEW w, NEW d, NEW n, Connected(s, w, d, n), NEW e, e = DecodeCorrupt(d)
  PROVE  /\ Connected(s, w, e, n) /\ Onward(d, e) /\ Steady(s, d, e) /\ Stays(w, d, n, e)
  <1>1. PICK f : f = Flagged(d, {"READ_DISCONNECT", "WRITE_DISCONNECT"})
    OBVIOUS
  <1>2. Keeps(d, f, {"flags"}) /\ f.flags = d.flags \cup {"READ_DISCONNECT", "WRITE_DISCONNECT"}
    BY <1>1 DEF Flagged, Connected, DispType, IsDisp, Keeps, Fields
  <1>3. Connected(s, w, f, n) /\ f.rq = d.rq /\ f.payload = d.payload
    <2>1. Keeps(d, f, Aside) /\ f.rq = d.rq /\ f.payload = d.payload
      BY <1>2 DEF Keeps, Fields, Aside
    <2> QED BY <2>1, AsideStep
  <1>4. PICK o : o = SetError(f)
    OBVIOUS
  <1>5. Connected(s, w, o, n) /\ Keeps(f, o, {"rq", "payload"}) /\ \A i \in 1..Len(s) : o.rq[i].go => d.rq[i].go
    <2>1. Connected(s, w, o, n)
      BY <1>3, <1>4, SetErrorBodies
    <2>2. /\ Keeps(f, o, {"rq", "payload"})
          /\ f.payload = 0 => o.rq = f.rq
          /\ f.payload # 0 =>
               /\ OnlyTask(s, f, o, f.payload)
               /\ KeepsTask(f.rq[f.payload], o.rq[f.payload], {"err"})
      BY <1>3, <1>4, SetErrorFacts DEF Connected
    <2>3. \A i \in 1..Len(s) : o.rq[i].go => d.rq[i].go
      BY <1>3, <2>2 DEF OnlyTask, KeepsTask, TaskFields
    <2> QED BY <2>1, <2>2, <2>3
  <1>6. PICK x : e = EndPollRequest(x) /\ x = [o EXCEPT !.error = TRUE]
    BY <1>1, <1>4 DEF DecodeCorrupt, ClientDisconnected
  <1>7. Keeps(o, x, {"error"}) /\ x.error
    BY <1>5, <1>6 DEF Keeps, IsDisp, Fields
  <1>8. /\ Keeps(x, e, {"fresh", "pc"})
        /\ e.pc = (IF x.ret = "poll" THEN "eof" ELSE IF x.updated THEN "respond" ELSE "flush")
    <2>1. IsDisp(x)
      BY <1>7 DEF Keeps
    <2> QED BY <1>6, <2>1, EndPollFacts
  <1>9. /\ Keeps(o, e, Aside \cup {"messages", "error"}) /\ e.error /\ e.messages = o.messages
        /\ e.flags = f.flags /\ e.writeBuf = d.writeBuf /\ e.state = d.state /\ e.messages = d.messages
        /\ e.outcome = d.outcome /\ e.rq = o.rq /\ x.ret = d.ret /\ e.readBuf = d.readBuf
    BY <1>2, <1>5, <1>7, <1>8 DEF Keeps, Fields, Aside
  <1>10. Connected(s, w, e, n)
    <2>1. MessagesType(s, e.messages)
      BY <1>9, TypeParts DEF Connected
    <2> QED BY <1>5, <1>9, <2>1, QuietStep
  <1>11. Onward(d, e)
    BY <1>8, <1>9 DEF Onward
  <1>12. Steady(s, d, e)
    BY <1>2, <1>5, <1>9 DEF Steady
  <1>13. Stays(w, d, n, e)
    BY <1>9 DEF Stays, Taken, Reached
  <1> QED BY <1>10, <1>11, <1>12, <1>13

\* Nothing is left to decode.
LEMMA DecodeNothing ==
  ASSUME NEW s, NEW w, NEW d, NEW n, Connected(s, w, d, n), NEW e, e = EndPollRequest(d)
  PROVE  /\ Connected(s, w, e, n) /\ Onward(d, e) /\ Steady(s, d, e) /\ Stays(w, d, n, e)
  <1>1. /\ Keeps(d, e, {"fresh", "pc"})
        /\ e.pc = (IF d.ret = "poll" THEN "eof" ELSE IF d.updated THEN "respond" ELSE "flush")
    BY EndPollFacts DEF Connected, DispType
  <1>2. /\ Keeps(d, e, Aside) /\ e.error = d.error /\ e.messages = d.messages
        /\ e.flags = d.flags /\ e.writeBuf = d.writeBuf /\ e.state = d.state
        /\ e.outcome = d.outcome /\ e.rq = d.rq /\ e.readBuf = d.readBuf
    BY <1>1 DEF Keeps, Fields, Aside
  <1>3. Connected(s, w, e, n)
    BY <1>2, AsideStep
  <1> QED BY <1>1, <1>2, <1>3 DEF Onward, Steady, Stays, Taken, Reached

\* Decode, of one token.
DecodeOf(d) ==
  IF d.readBuf = << >> THEN EndPollRequest(d)
  ELSE LET tok == Head(d.readBuf)
       IN  CASE tok.t = "head"      -> DecodeHead(d, tok.req)
             [] tok.t = "chunk"     -> IF d.payload = 0 THEN Unexpected(Decoded(d))
                                       ELSE FeedData(Decoded(d), tok.n)
             [] tok.t = "end"       -> DecodeEnd(d)
             [] tok.t = "malformed" -> DecodeMalformed(d)
             [] tok.t = "corrupt"   -> DecodeCorrupt(d)

\* Whatever is decoded, types, wire and bodies stay as they should be.
LEMMA DecodeFacts ==
  ASSUME NEW s, NEW w, NEW d, NEW n, Connected(s, w, d, n), d.pc = "decode", NEW e, e = DecodeOf(d)
  PROVE  /\ Connected(s, w, e, n) /\ Onward(d, e) /\ Steady(s, d, e)
         /\ \/ Stays(w, d, n, e)
            \/ \E i : Queues(w, d, n, e, "item", i) \/ Queues(w, d, n, e, "upgrade", i)
            \/ Queues(w, d, n, e, "error", 0)
            \/ \E i \in 1..Len(s) : Begins(s, w, d, n, e, i)
  <1>1. CASE d.readBuf = << >>
    <2>1. e = EndPollRequest(d)
      BY <1>1 DEF DecodeOf
    <2> QED BY <2>1, DecodeNothing
  <1>2. CASE d.readBuf # << >>
    <2>1. PICK tok : tok = Head(d.readBuf) /\ tok.t \in {"head", "chunk", "end", "corrupt", "malformed"}
      <3>1. Head(d.readBuf) \in InTokens(s)
        BY <1>2, NextToken
      <3> QED BY <3>1, TokenParts
    <2>2. CASE tok.t = "head"
      <3>1. PICK i : i = tok.req
        OBVIOUS
      <3>2. e = DecodeHead(d, i) /\ i \in 1..Len(s)
        <4>1. i \in 1..Len(s)
          BY <1>2, <2>1, <2>2, <3>1, HeadNext
        <4> QED BY <1>2, <2>1, <2>2, <3>1, <4>1 DEF DecodeOf
      <3>3. CASE s[i].head = "upgrade"
        BY <1>2, <2>1, <2>2, <3>1, <3>2, <3>3, DecodeUpgrade
      <3>4. CASE s[i].head # "upgrade" /\ d.state # NoState
        BY <1>2, <2>1, <2>2, <3>1, <3>2, <3>4, DecodeItem
      <3>5. CASE s[i].head # "upgrade" /\ d.state = NoState
        BY <1>2, <2>1, <2>2, <3>1, <3>2, <3>5, DecodeBegins
      <3> QED BY <3>3, <3>4, <3>5
    <2>3. CASE tok.t = "chunk"
      <3>1. CASE d.payload = 0
        <4>1. e = Unexpected(Decoded(d))
          BY <1>2, <2>1, <2>3, <3>1 DEF DecodeOf
        <4> QED BY <1>2, <2>1, <2>3, <3>1, <4>1, DecodeStray
      <3>2. CASE d.payload # 0
        <4>1. e = FeedData(Decoded(d), Head(d.readBuf).n)
          BY <1>2, <2>1, <2>3, <3>2 DEF DecodeOf
        <4> QED BY <1>2, <2>1, <2>3, <3>2, <4>1, DecodeChunk
      <3> QED BY <3>1, <3>2
    <2>4. CASE tok.t = "end"
      <3>1. e = DecodeEnd(d)
        BY <1>2, <2>1, <2>4 DEF DecodeOf
      <3> QED BY <1>2, <2>1, <2>4, <3>1, DecodeEndFacts
    <2>5. CASE tok.t = "malformed"
      <3>1. e = DecodeMalformed(d)
        BY <1>2, <2>1, <2>5 DEF DecodeOf
      <3> QED BY <3>1, DecodeMalformedFacts
    <2>6. CASE tok.t = "corrupt"
      <3>1. e = DecodeCorrupt(d)
        BY <1>2, <2>1, <2>6 DEF DecodeOf
      <3> QED BY <3>1, DecodeCorruptFacts
    <2> QED BY <2>1, <2>2, <2>3, <2>4, <2>5, <2>6
  <1> QED BY <1>1, <1>2

-----------------------------------------------------------------------------
(* What has been written. *)

\* All the tokens the dispatcher has written, received or not.
Joined(g, b) == g \o b
Out(d, n)    == Joined(n.got, d.writeBuf)
Statuses(o)  == StatusesUpTo(o, Len(o))

\* AnsweredInOrder, of the tokens o.
InOrder(o) ==
  \A k \in 1..Len(o) : o[k].t = "status" => o[k].req \in {StatusesUpTo(o, k), 0}

\* Counting the responses.
LEMMA StatusesType ==
  ASSUME NEW o, NEW k \in Nat
  PROVE  StatusesUpTo(o, k) \in Nat
  <1> DEFINE A == {j \in 1..k : o[j].t = "status"}
  <1>1. IsFiniteSet(1..k) /\ A \subseteq 1..k
    BY FS_Interval
  <1>2. Cardinality(A) \in Nat
    BY <1>1, FS_Subset, FS_CardinalityType
  <1> QED BY <1>2 DEF StatusesUpTo

LEMMA StatusesAppend ==
  ASSUME NEW o \in Seq(OutTokens), NEW x \in OutTokens, NEW p, p = Append(o, x)
  PROVE  /\ \A k \in 1..Len(o) : StatusesUpTo(p, k) = StatusesUpTo(o, k)
         /\ x.t = "status" => Statuses(p) = Statuses(o) + 1
         /\ x.t # "status" => Statuses(p) = Statuses(o)
         /\ Statuses(o) \in Nat
  <1>1. Len(p) = Len(o) + 1 /\ p[Len(o) + 1] = x /\ Len(o) \in Nat /\ \A k \in 1..Len(o) : p[k] = o[k]
    BY AppendFacts
  <1>2. ASSUME NEW k \in 0..Len(o)
        PROVE  StatusesUpTo(p, k) = StatusesUpTo(o, k)
    <2>1. {j \in 1..k : p[j].t = "status"} = {j \in 1..k : o[j].t = "status"}
      <3>1. \A j \in 1..k : p[j] = o[j]
        BY <1>1
      <3> QED BY <3>1
    <2> QED BY <2>1 DEF StatusesUpTo
  <1> DEFINE A == {j \in 1..Len(o) : p[j].t = "status"}
             B == {j \in 1..Len(o) + 1 : p[j].t = "status"}
  <1>3. Cardinality(A) = Statuses(o) /\ Cardinality(B) = Statuses(p)
    <2>1. Cardinality(A) = StatusesUpTo(p, Len(o))
      BY DEF StatusesUpTo
    <2>2. StatusesUpTo(p, Len(o)) = StatusesUpTo(o, Len(o))
      BY <1>1, <1>2
    <2> QED BY <1>1, <2>1, <2>2 DEF Statuses, StatusesUpTo
  <1>4. IsFiniteSet(A) /\ Cardinality(A) \in Nat
    <2>1. IsFiniteSet(1..Len(o)) /\ A \subseteq 1..Len(o)
      BY <1>1, FS_Interval
    <2> QED BY <2>1, FS_Subset, FS_CardinalityType
  <1>5. x.t = "status" => B = A \cup {Len(o) + 1} /\ Len(o) + 1 \notin A
    BY <1>1
  <1>6. x.t # "status" => B = A
    BY <1>1
  <1>7. x.t = "status" => Cardinality(B) = Cardinality(A) + 1
    BY <1>4, <1>5, FS_AddElement
  <1> HIDE DEF A, B
  <1> QED BY <1>2, <1>3, <1>4, <1>6, <1>7

\* A response for the next request, or for an error, keeps the order.
LEMMA OrderAppend ==
  ASSUME NEW o \in Seq(OutTokens), NEW x \in OutTokens, NEW p, p = Append(o, x), InOrder(o),
         x.t = "status" => x.req \in {Statuses(o) + 1, 0}
  PROVE  InOrder(p)
  <1>1. Len(p) = Len(o) + 1 /\ p[Len(o) + 1] = x /\ Len(o) \in Nat /\ \A k \in 1..Len(o) : p[k] = o[k]
    BY AppendFacts
  <1>2. \A k \in 1..Len(o) : StatusesUpTo(p, k) = StatusesUpTo(o, k)
    BY StatusesAppend
  <1>3. x.t = "status" => x.req \in {StatusesUpTo(p, Len(p)), 0}
    BY StatusesAppend DEF Statuses
  <1> SUFFICES ASSUME NEW k \in 1..Len(p), p[k].t = "status"
               PROVE  p[k].req \in {StatusesUpTo(p, k), 0}
    BY DEF InOrder
  <1>4. CASE k = Len(o) + 1
    BY <1>1, <1>3, <1>4
  <1>5. CASE k \in 1..Len(o)
    BY <1>1, <1>2, <1>5 DEF InOrder
  <1> QED BY <1>1, <1>4, <1>5

\* One token more, and a flush.
LEMMA OutAppend ==
  ASSUME NEW g \in Seq(OutTokens), NEW b \in Seq(OutTokens), NEW x \in OutTokens
  PROVE  Joined(g, Append(b, x)) = Append(Joined(g, b), x)
  BY DEF Joined

\* A flush moves tokens without changing what has been written.
LEMMA OutFlush ==
  ASSUME NEW g \in Seq(OutTokens), NEW b \in Seq(OutTokens), NEW k \in 0..Len(b) - 1
  PROVE  /\ SubSeq(b, 1, k) \in Seq(OutTokens) /\ SubSeq(b, k + 1, Len(b)) \in Seq(OutTokens)
         /\ g \o SubSeq(b, 1, k) \in Seq(OutTokens)
         /\ Joined(g \o SubSeq(b, 1, k), SubSeq(b, k + 1, Len(b))) = Joined(g, b)
  <1>1. PICK x : x = SubSeq(b, 1, k)
    OBVIOUS
  <1>2. PICK y : y = SubSeq(b, k + 1, Len(b))
    OBVIOUS
  <1>3. x \in Seq(OutTokens) /\ Len(x) = k /\ \A j \in 1..k : x[j] = b[j]
    BY <1>1
  <1>4. y \in Seq(OutTokens) /\ Len(y) = Len(b) - k /\ \A j \in 1..Len(b) - k : y[j] = b[k + j]
    BY <1>2
  <1>5. PICK h : h = g \o x
    OBVIOUS
  <1>6. /\ h \in Seq(OutTokens) /\ Len(h) = Len(g) + Len(x)
        /\ \A j \in 1..Len(g) : h[j] = g[j]
        /\ \A j \in 1..Len(x) : h[Len(g) + j] = x[j]
    <2>1. x \in Seq(OutTokens)
      BY <1>3
    <2> QED BY <1>5, <2>1
  <1>7. PICK u : u = h \o y
    OBVIOUS
  <1>8. /\ u \in Seq(OutTokens) /\ Len(u) = Len(h) + Len(y)
        /\ \A j \in 1..Len(h) : u[j] = h[j]
        /\ \A j \in 1..Len(y) : u[Len(h) + j] = y[j]
    <2>1. h \in Seq(OutTokens) /\ y \in Seq(OutTokens)
      BY <1>4, <1>6
    <2> QED BY <1>7, <2>1
  <1>9. PICK v : v = g \o b
    OBVIOUS
  <1>10. /\ v \in Seq(OutTokens) /\ Len(v) = Len(g) + Len(b)
         /\ \A j \in 1..Len(g) : v[j] = g[j]
         /\ \A j \in 1..Len(b) : v[Len(g) + j] = b[j]
    BY <1>9
  <1>11. Len(g) \in Nat /\ Len(b) \in Nat /\ Len(u) = Len(v)
    BY <1>3, <1>4, <1>6, <1>8, <1>10
  <1>12. ASSUME NEW j \in 1..Len(u)
         PROVE  u[j] = v[j]
    <2>1. CASE j <= Len(g)
      <3>1. j \in 1..Len(g) /\ j \in 1..Len(h)
        BY <1>3, <1>6, <1>11, <2>1
      <3> QED BY <1>6, <1>8, <1>10, <3>1, Zenon
    <2>2. CASE Len(g) < j /\ j <= Len(g) + k
      <3>1. PICK i : i = j - Len(g) /\ i \in 1..k /\ j = Len(g) + i
        BY <1>11, <2>2
      <3>2. i \in 1..Len(x) /\ i \in 1..Len(b) /\ j \in 1..Len(h)
        BY <1>3, <1>6, <1>11, <3>1
      <3>3. u[j] = h[j] /\ h[j] = x[i] /\ x[i] = b[i] /\ v[j] = b[i]
        BY <1>3, <1>6, <1>8, <1>10, <3>1, <3>2, Zenon
      <3> QED BY <3>3
    <2>3. CASE Len(g) + k < j
      <3>1. PICK i : i = j - (Len(g) + k) /\ i \in 1..Len(b) - k /\ j = Len(g) + k + i
        BY <1>3, <1>4, <1>6, <1>8, <1>11, <2>3
      <3>2. i \in 1..Len(y) /\ k + i \in 1..Len(b) /\ j = Len(h) + i /\ j = Len(g) + (k + i)
        BY <1>3, <1>4, <1>6, <1>11, <3>1
      <3>3. u[j] = y[i] /\ y[i] = b[k + i] /\ v[j] = b[k + i]
        BY <1>4, <1>8, <1>10, <3>1, <3>2, ZenonT(60)
      <3> QED BY <3>3
    <2> QED BY <1>11, <2>1, <2>2, <2>3
  <1>13. u = v
    BY <1>8, <1>10, <1>11, <1>12
  <1> QED BY <1>1, <1>2, <1>3, <1>4, <1>5, <1>6, <1>7, <1>9, <1>13 DEF Joined

LEMMA JoinedType ==
  ASSUME NEW g \in Seq(OutTokens), NEW b \in Seq(OutTokens)
  PROVE  Joined(g, b) \in Seq(OutTokens) /\ Statuses(Joined(g, b)) \in Nat
  <1>1. g \o b \in Seq(OutTokens) /\ Len(g \o b) \in Nat
    OBVIOUS
  <1> QED BY <1>1, StatusesType DEF Joined, Statuses

LEMMA OutType ==
  ASSUME NEW s, NEW d, NEW n, DispType(s, d), NetType(s, n)
  PROVE  Out(d, n) \in Seq(OutTokens) /\ Statuses(Out(d, n)) \in Nat
  <1>1. PICK g \in Seq(OutTokens), b \in Seq(OutTokens) : g = n.got /\ b = d.writeBuf
    BY DEF DispType, NetType
  <1> QED BY <1>1, JoinedType DEF Out

-----------------------------------------------------------------------------
(* The order of the responses. *)

\* BreaksLoop, KeepsOrder and KeepsGoing, of script s.
Leaves(s, i) ==
  /\ s[i].resp = "empty"
  /\ \/ s[i].fails \/ s[i].expect = "refused"
     \/ i > 1 /\ (s[i].expect = "fails" \/ s[i].handler \in {"quick", "reader"})
Pipelined(s) == \A i \in 1..Len(s) : i + 2 <= Len(s) => ~Leaves(s, i)
Unbroken(s)  == \A i \in 1..Len(s) : i < Len(s) => ~Leaves(s, i)

\* What waits behind request c: the requests that follow, and an error at the end.
Lined(m, c, f) ==
  \A k \in 1..Len(m) :
    \/ m[k].t \in {"item", "upgrade"} /\ m[k].req = c + k /\ (m[k].t = "item" => c + k >= 2)
    \/ m[k].t = "error" /\ k = Len(m) /\ "READ_DISCONNECT" \in f

\* Requests up to c are begun, and x is the last that the codec has reached.
Queued(s, d, c, x) ==
  /\ d.state # NoState => d.state.req = c /\ c >= 1
  /\ Lined(d.messages, c, d.flags)
  /\ "READ_DISCONNECT" \in d.flags \/ c + Len(d.messages) = x
  /\ \A i \in 1..Len(s) : i > c => ~d.rq[i].go
  /\ d.state = NoState /\ d.messages # << >> =>
       d.pc \in {"respond", "eof"} \/ d.messages[1].t = "error" \/ (c >= 1 /\ Leaves(s, c))

\* Nothing is read any more, and nothing waits.
Over(d) ==
  /\ d.state = NoState /\ d.messages = << >>
  /\ "READ_DISCONNECT" \in d.flags \/ "SHUTDOWN" \in d.flags

\* The requests that have been begun: those that have a response, and the one the
\* service works at.
Called(d)   == d.state.tag \in {"ExpectCall", "ServiceCall"}
Begun(o, d) == IF Called(d) THEN Statuses(o) + 1 ELSE Statuses(o)

Ordered(s, o, d, x) == InOrder(o) /\ (Over(d) \/ Queued(s, d, Begun(o, d), x))

\* What every step does to flags and tasks.
Forth(s, d, e) ==
  /\ "READ_DISCONNECT" \in d.flags => "READ_DISCONNECT" \in e.flags
  /\ "SHUTDOWN" \in d.flags => "SHUTDOWN" \in e.flags
  /\ \A i \in 1..Len(s) : e.rq[i].go => d.rq[i].go \/ (d.state # NoState /\ d.state.req = i)

\* A step that begins and queues nothing keeps the order.
LEMMA OrderKept ==
  ASSUME NEW s, NEW o, NEW d, NEW x, Ordered(s, o, d, x), NEW p, InOrder(p), NEW e,
         Begun(p, e) = Begun(o, d), e.messages = d.messages, Forth(s, d, e),
         e.state # NoState => d.state # NoState /\ e.state.req = d.state.req,
         e.state = NoState /\ e.messages # << >> =>
           \/ e.pc \in {"respond", "eof"}
           \/ IF d.state = NoState THEN d.pc \notin {"respond", "eof"} ELSE Leaves(s, d.state.req)
  PROVE  Ordered(s, p, e, x)
  <1>1. CASE Over(d)
    BY <1>1 DEF Over, Forth, Ordered
  <1>2. CASE Queued(s, d, Begun(o, d), x)
    <2>1. PICK c : c = Begun(o, d) /\ c = Begun(p, e)
      OBVIOUS
    <2>2. Queued(s, d, c, x)
      BY <1>2, <2>1
    <2>3. Lined(e.messages, c, e.flags)
      BY <2>2 DEF Queued, Lined, Forth
    <2>4. \A i \in 1..Len(s) : i > c => ~e.rq[i].go
      BY <2>2 DEF Queued, Forth
    <2>5. "READ_DISCONNECT" \in e.flags \/ c + Len(e.messages) = x
      BY <2>2 DEF Queued, Forth
    <2>6. /\ e.state # NoState => e.state.req = c /\ c >= 1
          /\ e.state = NoState /\ e.messages # << >> =>
               e.pc \in {"respond", "eof"} \/ e.messages[1].t = "error" \/ (c >= 1 /\ Leaves(s, c))
      BY <2>2 DEF Queued
    <2>7. Queued(s, e, c, x)
      BY <2>3, <2>4, <2>5, <2>6 DEF Queued
    <2> QED BY <2>1, <2>7 DEF Ordered
  <1> QED BY <1>1, <1>2 DEF Ordered

\* The queue, when something is put at its end.
LEMMA LinedAppend ==
  ASSUME NEW s, NEW m, MessagesType(s, m), NEW c \in Nat, NEW f, Lined(m, c, f), "READ_DISCONNECT" \notin f,
         NEW t \in {"item", "upgrade", "error"}, NEW i, NEW g,
         IF t = "error" THEN "READ_DISCONNECT" \in g ELSE i = c + Len(m) + 1 /\ (t = "item" => i >= 2)
  PROVE  /\ Lined(Append(m, Token(t, i)), c, g) /\ Len(Append(m, Token(t, i))) = Len(m) + 1
         /\ Len(m) \in Nat
  <1>1. PICK z : z = Token(t, i) /\ z.t = t /\ z.req = i
    <2>1. Token(t, i).t = t /\ Token(t, i).req = i
      BY DEF Token
    <2> QED BY <2>1, Zenon
  <1>2. PICK y : y = Append(m, z)
    OBVIOUS
  <1>3. Len(y) = Len(m) + 1 /\ y[Len(m) + 1] = z /\ Len(m) \in Nat /\ \A k \in 1..Len(m) : y[k] = m[k]
    BY <1>2 DEF MessagesType
  <1>4. ASSUME NEW k \in 1..Len(y)
        PROVE  \/ y[k].t \in {"item", "upgrade"} /\ y[k].req = c + k /\ (y[k].t = "item" => c + k >= 2)
               \/ y[k].t = "error" /\ k = Len(y) /\ "READ_DISCONNECT" \in g
    <2>1. CASE k = Len(m) + 1
      BY <1>1, <1>3, <2>1
    <2>2. CASE k \in 1..Len(m)
      BY <1>3, <2>2 DEF Lined
    <2> QED BY <1>3, <2>1, <2>2
  <1>5. Lined(y, c, g)
    BY <1>4 DEF Lined
  <1> QED BY <1>1, <1>2, <1>3, <1>5

\* The queue, when its head is taken.
LEMMA LinedTail ==
  ASSUME NEW s, NEW m, MessagesType(s, m), m # << >>, NEW c \in Nat, NEW f, Lined(m, c, f)
  PROVE  /\ Len(Tail(m)) = Len(m) - 1 /\ Len(m) \in Nat /\ Head(m) = m[1]
         /\ m[1].t = "error" => Tail(m) = << >> /\ "READ_DISCONNECT" \in f
         /\ m[1].t # "error" => /\ m[1].req = c + 1 /\ (m[1].t = "item" => c + 1 >= 2)
                                /\ Lined(Tail(m), c + 1, f)
  <1>1. m \in Seq(Messages(s))
    BY DEF MessagesType
  <1>2. /\ Len(m) \in Nat /\ Len(m) > 0 /\ Tail(m) \in Seq(Messages(s)) /\ Len(Tail(m)) = Len(m) - 1
        /\ Head(m) = m[1] /\ \A k \in 1..Len(Tail(m)) : Tail(m)[k] = m[k + 1]
    BY <1>1, LenFacts, TailFacts
  <1>3. \/ m[1].t \in {"item", "upgrade"} /\ m[1].req = c + 1 /\ (m[1].t = "item" => c + 1 >= 2)
        \/ m[1].t = "error" /\ 1 = Len(m) /\ "READ_DISCONNECT" \in f
    <2>1. 1 \in 1..Len(m)
      BY <1>2
    <2> QED BY <2>1, Zenon DEF Lined
  <1>4. CASE m[1].t = "error"
    <2>1. Len(m) = 1 /\ "READ_DISCONNECT" \in f
      BY <1>3, <1>4
    <2>2. Tail(m) = << >>
      <3>1. PICK y \in Seq(Messages(s)) : y = Tail(m) /\ Len(y) = 0
        <4>1. Len(Tail(m)) = 0
          BY <1>2, <2>1
        <4> QED BY <1>2, <4>1, Zenon
      <3>2. y = << >>
        BY <3>1
      <3> QED BY <3>1, <3>2
    <2> QED BY <1>2, <1>4, <2>1, <2>2
  <1>5. CASE m[1].t # "error"
    <2>1. m[1].req = c + 1 /\ (m[1].t = "item" => c + 1 >= 2)
      BY <1>3, <1>5
    <2>2. PICK y : y = Tail(m)
      OBVIOUS
    <2>3. \A k \in 1..Len(y) : k + 1 \in 1..Len(m) /\ y[k] = m[k + 1] /\ c + (k + 1) = (c + 1) + k
      BY <1>2, <2>2
    <2>4. Len(m) = Len(y) + 1
      BY <1>2, <2>2
    <2>5. Lined(y, c + 1, f)
      BY <1>2, <2>3, <2>4 DEF Lined
    <2> QED BY <1>2, <1>5, <2>1, <2>2, <2>5
  <1> QED BY <1>4, <1>5

\* One token more is written.
Puts(b, y, t, i) == y = Append(b, Token(t, i))

\* What a response, and any other token, does to the count of responses.
LEMMA StatusOut ==
  ASSUME NEW g \in Seq(OutTokens), NEW b \in Seq(OutTokens), InOrder(Joined(g, b)), NEW i \in Nat,
         i = 0 \/ i = Statuses(Joined(g, b)) + 1, NEW y, Puts(b, y, "status", i)
  PROVE  /\ y \in Seq(OutTokens) /\ InOrder(Joined(g, y))
         /\ Joined(g, y) = Append(Joined(g, b), Token("status", i))
         /\ Statuses(Joined(g, y)) = Statuses(Joined(g, b)) + 1
  <1>1. PICK x \in OutTokens : x = Token("status", i) /\ x.t = "status" /\ x.req = i
    <2>1. Token("status", i) \in OutTokens /\ Token("status", i).t = "status" /\ Token("status", i).req = i
      BY OutToken
    <2> QED BY <2>1, Zenon
  <1>2. y = Append(b, x) /\ y \in Seq(OutTokens)
    BY <1>1 DEF Puts
  <1>3. PICK p : p = Joined(g, y)
    OBVIOUS
  <1>4. PICK o \in Seq(OutTokens) : o = Joined(g, b)
    BY JoinedType
  <1>5. p = Append(o, x)
    BY <1>2, <1>3, <1>4, OutAppend
  <1>6. InOrder(p)
    BY <1>1, <1>4, <1>5, OrderAppend
  <1>7. Statuses(p) = Statuses(o) + 1
    BY <1>1, <1>4, <1>5, StatusesAppend
  <1> QED BY <1>1, <1>2, <1>3, <1>4, <1>5, <1>6, <1>7

LEMMA PlainOut ==
  ASSUME NEW g \in Seq(OutTokens), NEW b \in Seq(OutTokens), InOrder(Joined(g, b)), NEW i \in Nat,
         NEW t \in {"continue", "data", "fin"}, NEW y, Puts(b, y, t, i)
  PROVE  /\ y \in Seq(OutTokens) /\ InOrder(Joined(g, y))
         /\ Joined(g, y) = Append(Joined(g, b), Token(t, i))
         /\ Statuses(Joined(g, y)) = Statuses(Joined(g, b))
  <1>1. PICK x \in OutTokens : x = Token(t, i) /\ x.t = t /\ x.req = i
    <2>1. Token(t, i) \in OutTokens /\ Token(t, i).t = t /\ Token(t, i).req = i
      BY OutToken
    <2> QED BY <2>1, Zenon
  <1>2. y = Append(b, x) /\ y \in Seq(OutTokens)
    BY <1>1 DEF Puts
  <1>3. PICK p : p = Joined(g, y)
    OBVIOUS
  <1>4. PICK o \in Seq(OutTokens) : o = Joined(g, b)
    BY JoinedType
  <1>5. p = Append(o, x)
    BY <1>2, <1>3, <1>4, OutAppend
  <1>6. InOrder(p)
    BY <1>1, <1>4, <1>5, OrderAppend
  <1>7. Statuses(p) = Statuses(o)
    BY <1>1, <1>4, <1>5, StatusesAppend, ZenonT(60)
  <1> QED BY <1>1, <1>2, <1>3, <1>4, <1>5, <1>6, <1>7

\* A request is begun.
LEMMA BegunOut ==
  ASSUME NEW g \in Seq(OutTokens), NEW d, d.writeBuf \in Seq(OutTokens), InOrder(Joined(g, d.writeBuf)),
         NEW i \in Nat, i = Statuses(Joined(g, d.writeBuf)) + 1, NEW k, NEW e, NEW q,
         q = d.writeBuf \/ q = Append(d.writeBuf, Token("continue", i)), Served(k, q, d, e, i)
  PROVE  /\ InOrder(Joined(g, e.writeBuf)) /\ Begun(Joined(g, e.writeBuf), e) = i
         /\ e.state # NoState => e.state.req = i
         /\ e.state = NoState => AtOnce(k, d.rq[i])
  <1>1. PICK b \in Seq(OutTokens) : b = d.writeBuf
    OBVIOUS
  <1>2. /\ q \in Seq(OutTokens) /\ InOrder(Joined(g, q)) /\ Statuses(Joined(g, q)) = Statuses(Joined(g, b))
        /\ Statuses(Joined(g, b)) \in Nat
    <2>1. CASE q = b
      BY <1>1, <2>1, JoinedType
    <2>2. CASE q = Append(b, Token("continue", i))
      <3>1. InOrder(Joined(g, b))
        BY <1>1
      <3>2. q \in Seq(OutTokens) /\ InOrder(Joined(g, q)) /\ Statuses(Joined(g, q)) = Statuses(Joined(g, b))
        <4>1. Puts(b, q, "continue", i)
          BY <2>2 DEF Puts
        <4> QED BY <3>1, <4>1, PlainOut
      <3> QED BY <3>2, JoinedType
    <2> QED BY <1>1, <2>1, <2>2
  <1>3. PICK o : o = Joined(g, q)
    OBVIOUS
  <1>4. i = Statuses(o) + 1
    BY <1>1, <1>2, <1>3
  <1>5. CASE Pending(k, q, d, e, i)
    <2>1. e.writeBuf = q /\ Called(e) /\ e.state.req = i
      BY <1>5 DEF Pending, Called
    <2>2. e.state # NoState
      BY <2>1 DEF Called, NoState
    <2> QED BY <1>2, <1>3, <1>4, <2>1, <2>2 DEF Begun
  <1>6. CASE e.writeBuf = Append(q, Token("status", i))
    <2>1. InOrder(Joined(g, q)) /\ q \in Seq(OutTokens) /\ i = Statuses(Joined(g, q)) + 1
      BY <1>2, <1>3, <1>4
    <2>2. InOrder(Joined(g, e.writeBuf)) /\ Statuses(Joined(g, e.writeBuf)) = Statuses(Joined(g, q)) + 1
      <3>1. Puts(q, e.writeBuf, "status", i)
        BY <1>6 DEF Puts
      <3> QED BY <2>1, <3>1, StatusOut
    <2>3. Statuses(Joined(g, e.writeBuf)) = i
      BY <2>1, <2>2
    <2>4. CASE Answering(q, e, i)
      <3>1. ~Called(e) /\ e.state.req = i /\ e.state # NoState
        BY <2>4 DEF Answering, Called, NoState
      <3> QED BY <2>2, <2>3, <3>1 DEF Begun
    <2>5. CASE Closing(k, q, d, e, i)
      <3>1. e.state = NoState /\ ~Called(e) /\ AtOnce(k, d.rq[i])
        BY <2>5 DEF Closing, Called, NoState
      <3> QED BY <2>2, <2>3, <3>1 DEF Begun
    <2>6. CASE Pending(k, q, d, e, i)
      BY <1>5, <2>6
    <2> QED BY <2>4, <2>5, <2>6 DEF Served
  <1> QED BY <1>5, <1>6 DEF Served, Answering, Closing

-----------------------------------------------------------------------------
(* The turn. *)

\* What the flags say of the turn.
Flow(d) ==
  /\ d.pc = "decode" => "READ_DISCONNECT" \notin d.flags /\ (d.ret # "poll" => d.state # NoState)
  /\ "SHUTDOWN" \in d.flags => d.pc \in {"idle", "poll", "shutdown"} /\ d.state = NoState
  /\ d.pc = "shutdown" => "SHUTDOWN" \in d.flags
  /\ "STARTED" \notin d.flags =>
       /\ d.state = NoState
       /\ \/ d.messages = << >>
          \/ d.pc \in {"eof", "respond"} /\ Len(d.messages) = 1 /\ d.messages[1].t = "error"
  /\ "WRITE_DISCONNECT" \in d.flags => d.error \/ ("SHUTDOWN" \in d.flags /\ d.writeBuf = << >>)
  /\ \A k \in 1..Len(d.messages) : d.messages[k].t = "error" => d.error

\* How each outcome of decoding keeps the order.
LEMMA SteadyForth ==
  ASSUME NEW s, NEW d, NEW e, Steady(s, d, e)
  PROVE  Forth(s, d, e)
  BY DEF Steady, Forth

LEMMA OrderStays ==
  ASSUME NEW s, NEW w, NEW d, NEW n, Ordered(s, Out(d, n), d, Reached(w, d, n)), d.pc = "decode",
         NEW e, Steady(s, d, e), Stays(w, d, n, e)
  PROVE  Ordered(s, Out(e, n), e, Reached(w, e, n))
  <1>1. PICK x : x = Reached(w, d, n) /\ x = Reached(w, e, n)
    BY DEF Stays
  <1>2. PICK o : o = Out(d, n) /\ o = Out(e, n)
    BY DEF Stays, Out
  <1>3. Ordered(s, o, d, x) /\ InOrder(o)
    BY <1>1, <1>2 DEF Ordered
  <1>4. Begun(o, e) = Begun(o, d) /\ e.messages = d.messages /\ e.state = d.state
    BY DEF Stays, Begun, Called
  <1>5. Forth(s, d, e)
    BY SteadyForth
  <1>6. d.pc \notin {"respond", "eof"}
    OBVIOUS
  <1>7. Ordered(s, o, e, x)
    BY <1>3, <1>4, <1>5, <1>6, OrderKept
  <1> QED BY <1>1, <1>2, <1>7

\* A message joins the queue.
LEMMA OrderQueues ==
  ASSUME NEW s, NEW w, NEW d, NEW n, DispType(s, d), NetType(s, n), Flow(d),
         Ordered(s, Out(d, n), d, Reached(w, d, n)), d.pc = "decode",
         NEW e, Onward(d, e), Steady(s, d, e), NEW t \in {"item", "upgrade", "error"}, NEW i,
         Queues(w, d, n, e, t, i)
  PROVE  Ordered(s, Out(e, n), e, Reached(w, e, n))
  <1>1. PICK x : x = Reached(w, d, n)
    OBVIOUS
  <1>2. PICK o : o = Out(d, n) /\ o = Out(e, n)
    BY DEF Queues, Out
  <1>3. PICK c \in Nat : c = Begun(o, d) /\ c = Begun(o, e)
    <2>1. Statuses(o) \in Nat
      BY <1>2, OutType
    <2>2. Begun(o, e) = Begun(o, d)
      BY DEF Queues, Begun, Called
    <2>3. Begun(o, d) \in Nat
      BY <2>1 DEF Begun
    <2> QED BY <2>2, <2>3
  <1>4. "READ_DISCONNECT" \notin d.flags /\ "SHUTDOWN" \notin d.flags
    BY DEF Flow
  <1>5. Queued(s, d, c, x) /\ InOrder(o)
    BY <1>1, <1>2, <1>3, <1>4 DEF Ordered, Over
  <1>6. PICK m : m = d.messages
    OBVIOUS
  <1>7. /\ MessagesType(s, m) /\ Lined(m, c, d.flags) /\ c + Len(m) = x
        /\ d.state # NoState => d.state.req = c /\ c >= 1
        /\ \A j \in 1..Len(s) : j > c => ~d.rq[j].go
    BY <1>4, <1>5, <1>6, TypeParts DEF Queued
  <1>8. PICK y : y = Append(m, Token(t, i)) /\ e.messages = y
    BY <1>6 DEF Queues
  <1>9. IF t = "error" THEN "READ_DISCONNECT" \in e.flags ELSE i = c + Len(m) + 1 /\ (t = "item" => i >= 2)
    <2>1. CASE t = "error"
      BY <2>1 DEF Queues
    <2>2. CASE t # "error"
      <3>1. i = x + 1 /\ (t = "item" => d.state # NoState)
        BY <1>1, <2>2 DEF Queues
      <3>2. Len(m) \in Nat
        BY <1>7 DEF MessagesType
      <3> QED BY <1>7, <2>2, <3>1, <3>2
    <2> QED BY <2>1, <2>2
  <1>10. Lined(y, c, e.flags) /\ Len(y) = Len(m) + 1 /\ Len(m) \in Nat
    BY <1>4, <1>7, <1>8, <1>9, LinedAppend
  <1>11. "READ_DISCONNECT" \in e.flags \/ c + Len(y) = Reached(w, e, n)
    <2>1. CASE t = "error"
      BY <2>1 DEF Queues
    <2>2. CASE t # "error"
      BY <1>7, <1>9, <1>10, <2>2 DEF Queues
    <2> QED BY <2>1, <2>2
  <1>12. \A j \in 1..Len(s) : j > c => ~e.rq[j].go
    BY <1>7 DEF Steady
  <1>13. e.state = d.state
    BY DEF Queues
  <1>14. e.state = NoState => e.pc \in {"respond", "eof"}
    <2>1. e.state = NoState => d.ret = "poll"
      BY <1>13 DEF Flow
    <2>2. e.state = NoState => e.pc # "decode"
      BY <1>13 DEF Queues
    <2> QED BY <2>1, <2>2 DEF Onward
  <1>15. Queued(s, e, c, Reached(w, e, n))
    BY <1>7, <1>8, <1>10, <1>11, <1>12, <1>13, <1>14 DEF Queued
  <1> QED BY <1>2, <1>3, <1>5, <1>15 DEF Ordered

\* A request begins without having been queued.
LEMMA OrderBegins ==
  ASSUME NEW s, NEW w, NEW d, NEW n, DispType(s, d), NetType(s, n), Flow(d), Pipelined(s),
         Ordered(s, Out(d, n), d, Reached(w, d, n)), d.pc = "decode",
         NEW e, Steady(s, d, e), NEW i \in 1..Len(s), Begins(s, w, d, n, e, i)
  PROVE  Ordered(s, Out(e, n), e, Reached(w, e, n))
  <1>1. PICK x : x = Reached(w, d, n)
    OBVIOUS
  <1>2. PICK o \in Seq(OutTokens) : o = Out(d, n)
    BY OutType
  <1>3. PICK c \in Nat : c = Statuses(o) /\ c = Begun(o, d)
    <2>1. Statuses(o) \in Nat
      BY <1>2, OutType
    <2>2. Begun(o, d) = Statuses(o)
      BY DEF Begins, Begun, Called, NoState
    <2> QED BY <2>1, <2>2
  <1>4. "READ_DISCONNECT" \notin d.flags /\ "SHUTDOWN" \notin d.flags
    BY DEF Flow
  <1>5. Queued(s, d, c, x) /\ InOrder(o)
    BY <1>1, <1>2, <1>3, <1>4 DEF Ordered, Over
  <1>6. PICK m : m = d.messages
    OBVIOUS
  <1>7. MessagesType(s, m) /\ Lined(m, c, d.flags) /\ c + Len(m) = x /\ i = x + 1 /\ Len(m) \in Nat
    <2>1. MessagesType(s, m)
      BY <1>6, TypeParts
    <2>2. Len(m) \in Nat
      BY <2>1 DEF MessagesType
    <2> QED BY <1>1, <1>4, <1>5, <1>6, <2>1, <2>2 DEF Queued, Begins
  <1>8. m = << >>
    <2>1. SUFFICES ASSUME m # << >>
                   PROVE  FALSE
      OBVIOUS
    <2>2. Len(m) >= 1
      BY <1>7, <2>1 DEF MessagesType
    <2>3. m[1].t = "error" \/ (c >= 1 /\ Leaves(s, c))
      BY <1>5, <1>6, <2>1 DEF Queued, Begins
    <2>4. m[1].t # "error"
      <3>1. 1 \in 1..Len(m)
        BY <1>7, <2>2
      <3> QED BY <1>4, <1>7, <3>1 DEF Lined
    <2>5. c \in 1..Len(s) /\ c + 2 <= Len(s) /\ Leaves(s, c)
      BY <1>7, <2>2, <2>3, <2>4
    <2> QED BY <2>5 DEF Pipelined
  <1>9. i = c + 1
    BY <1>7, <1>8
  <1>10. PICK g \in Seq(OutTokens) : g = n.got
    BY DEF NetType
  <1>11. /\ InOrder(Joined(g, e.writeBuf)) /\ Begun(Joined(g, e.writeBuf), e) = i
         /\ e.state # NoState => e.state.req = i
    <2>1. PICK q : /\ q = d.writeBuf \/ q = Append(d.writeBuf, Token("continue", i))
                   /\ Served(s[i], q, d, e, i)
      BY DEF Begins
    <2>2. d.writeBuf \in Seq(OutTokens) /\ i \in Nat
      BY DEF DispType
    <2>3. InOrder(Joined(g, d.writeBuf)) /\ i = Statuses(Joined(g, d.writeBuf)) + 1
      BY <1>2, <1>3, <1>5, <1>9, <1>10 DEF Out
    <2> QED BY <2>1, <2>2, <2>3, BegunOut
  <1>12. PICK p : p = Out(e, n) /\ p = Joined(g, e.writeBuf)
    BY <1>10 DEF Out
  <1>13. e.messages = << >> /\ Reached(w, e, n) = i
    BY <1>6, <1>8 DEF Begins
  <1>14. \A j \in 1..Len(s) : j > i => ~e.rq[j].go
    BY <1>5, <1>9 DEF Queued, Steady
  <1>15. Queued(s, e, i, Reached(w, e, n))
    BY <1>11, <1>13, <1>14 DEF Queued, Lined
  <1> QED BY <1>11, <1>12, <1>15 DEF Ordered

\* poll_response takes the request that waits first.
LEMMA OrderNext ==
  ASSUME NEW s, NEW d, DispType(s, d), NEW n, NetType(s, n), NEW x, Ordered(s, Out(d, n), d, x),
         d.state = NoState, d.messages # << >>, d.messages[1].t = "item",
         NEW i \in 1..Len(s), i = d.messages[1].req,
         NEW e, e.messages = Tail(d.messages), Forth(s, d, e),
         NEW q, q = d.writeBuf \/ q = Append(d.writeBuf, Token("continue", i)), Served(s[i], q, d, e, i)
  PROVE  Ordered(s, Out(e, n), e, x)
  <1>1. PICK o \in Seq(OutTokens) : o = Out(d, n)
    BY OutType
  <1>2. PICK c \in Nat : c = Statuses(o) /\ c = Begun(o, d)
    <2>1. Statuses(o) \in Nat
      BY <1>1, OutType
    <2>2. Begun(o, d) = Statuses(o)
      BY DEF Begun, Called, NoState
    <2> QED BY <2>1, <2>2
  <1>3. Queued(s, d, c, x) /\ InOrder(o)
    BY <1>1, <1>2 DEF Ordered, Over
  <1>4. PICK m : m = d.messages
    OBVIOUS
  <1>5. MessagesType(s, m) /\ Lined(m, c, d.flags) /\ m # << >> /\ m[1].t # "error"
    <2>1. MessagesType(s, m)
      BY <1>4, TypeParts
    <2> QED BY <1>3, <1>4, <2>1 DEF Queued
  <1>6. /\ Len(Tail(m)) = Len(m) - 1 /\ Len(m) \in Nat
        /\ m[1].req = c + 1 /\ (m[1].t = "item" => c + 1 >= 2) /\ Lined(Tail(m), c + 1, d.flags)
    BY <1>5, LinedTail
  <1>7. i = c + 1 /\ i > 1
    BY <1>4, <1>6
  <1>8. PICK g \in Seq(OutTokens) : g = n.got
    BY DEF NetType
  <1>9. /\ InOrder(Joined(g, e.writeBuf)) /\ Begun(Joined(g, e.writeBuf), e) = i
        /\ e.state # NoState => e.state.req = i
        /\ e.state = NoState => AtOnce(s[i], d.rq[i])
    <2>1. d.writeBuf \in Seq(OutTokens) /\ i \in Nat
      BY DEF DispType
    <2>2. InOrder(Joined(g, d.writeBuf)) /\ i = Statuses(Joined(g, d.writeBuf)) + 1
      BY <1>1, <1>2, <1>3, <1>7, <1>8 DEF Out
    <2> QED BY <2>1, <2>2, BegunOut
  <1>10. PICK p : p = Out(e, n) /\ p = Joined(g, e.writeBuf)
    BY <1>8 DEF Out
  <1>11. "READ_DISCONNECT" \in e.flags \/ i + Len(e.messages) = x
    <2>1. "READ_DISCONNECT" \in d.flags \/ c + Len(m) = x
      BY <1>3, <1>4 DEF Queued
    <2>2. PICK y : y = e.messages /\ Len(y) = Len(m) - 1
      BY <1>4, <1>6
    <2>3. c + Len(m) = x => i + Len(y) = x
      <3>1. PICK a \in Nat : a = Len(m)
        BY <1>6
      <3>2. PICK b : b = Len(y)
        OBVIOUS
      <3>3. b = a - 1
        BY <2>2, <3>1, <3>2
      <3>4. (c + 1) + (a - 1) = c + a
        OBVIOUS
      <3> QED BY <1>7, <3>1, <3>2, <3>3, <3>4
    <2> QED BY <2>1, <2>2, <2>3 DEF Forth
  <1>12. \A j \in 1..Len(s) : j > i => ~e.rq[j].go
    BY <1>3, <1>7 DEF Queued, Forth
  <1>13. Lined(e.messages, i, e.flags)
    BY <1>4, <1>6, <1>7 DEF Lined, Forth
  <1>14. e.state = NoState => Leaves(s, i)
    <2>1. ~d.rq[i].go
      BY <1>3, <1>7 DEF Queued
    <2> QED BY <1>7, <1>9, <2>1 DEF AtOnce, Leaves, Refusals
  <1>15. Queued(s, e, i, x)
    <2>1. i >= 1
      BY <1>7
    <2>2. e.state # NoState => e.state.req = i /\ i >= 1
      BY <1>9, <2>1
    <2> QED BY <1>11, <1>12, <1>13, <1>14, <2>1, <2>2, Zenon DEF Queued
  <1> QED BY <1>9, <1>10, <1>15 DEF Ordered

\* An error is answered when nothing else waits, and ends the connection.
LEMMA OrderError ==
  ASSUME NEW s, NEW d, DispType(s, d), NEW n, NetType(s, n), NEW x, Ordered(s, Out(d, n), d, x),
         d.state = NoState, d.messages # << >>, d.messages[1].t = "error",
         NEW e, e.messages = Tail(d.messages), Forth(s, d, e), e.state = NoState,
         e.writeBuf = Append(d.writeBuf, Token("status", 0))
  PROVE  Ordered(s, Out(e, n), e, x) /\ e.messages = << >>
  <1>1. PICK m : m = d.messages
    OBVIOUS
  <1>2. PICK c \in Nat : Queued(s, d, c, x)
    <2>1. Statuses(Out(d, n)) \in Nat
      BY OutType
    <2>2. Begun(Out(d, n), d) \in Nat
      BY <2>1 DEF Begun
    <2> QED BY <2>2 DEF Ordered, Over
  <1>3. MessagesType(s, m) /\ Lined(m, c, d.flags) /\ m # << >> /\ m[1].t = "error"
    <2>1. MessagesType(s, m)
      BY <1>1, TypeParts
    <2> QED BY <1>1, <1>2, <2>1 DEF Queued
  <1>4. Tail(m) = << >> /\ "READ_DISCONNECT" \in d.flags
    BY <1>3, LinedTail
  <1>5. Over(e)
    BY <1>1, <1>4 DEF Over, Forth
  <1>6. PICK g \in Seq(OutTokens), b \in Seq(OutTokens) : g = n.got /\ b = d.writeBuf
    BY DEF NetType, DispType
  <1>7. InOrder(Joined(g, e.writeBuf))
    <2>1. Puts(b, e.writeBuf, "status", 0) /\ InOrder(Joined(g, b))
      BY <1>6 DEF Puts, Ordered, Out
    <2> QED BY <2>1, StatusOut
  <1>8. InOrder(Out(e, n))
    BY <1>6, <1>7 DEF Out
  <1> QED BY <1>1, <1>4, <1>5, <1>8 DEF Ordered

-----------------------------------------------------------------------------
(* Answers. *)

\* The tokens o have a t of request i.
Has(o, t, i) == \E k \in 1..Len(o) : o[k] = Token(t, i)

\* The answer to request i is all written, or is being written.
Done(s, o, d, i) ==
  \/ d.state.tag = "SendPayload" /\ d.state.req = i
  \/ s[i].resp = "empty" \/ Has(o, "fin", i)

Answers(s, o, d) == \A i \in 1..Len(s) : Has(o, "status", i) => Done(s, o, d, i)

\* A token more.
LEMMA HasAppend ==
  ASSUME NEW o \in Seq(OutTokens), NEW t \in {"status", "continue", "data", "fin"}, NEW j \in Nat,
         NEW p, Puts(o, p, t, j)
  PROVE  /\ \A u, i : Has(o, u, i) => Has(p, u, i)
         /\ \A u, i : Has(p, u, i) => Has(o, u, i) \/ (u = t /\ i = j)
         /\ Has(p, t, j)
  <1>1. PICK x \in OutTokens : x = Token(t, j) /\ x.t = t /\ x.req = j
    <2>1. Token(t, j) \in OutTokens /\ Token(t, j).t = t /\ Token(t, j).req = j
      BY OutToken
    <2> QED BY <2>1, Zenon
  <1>2. p = Append(o, x)
    BY <1>1 DEF Puts
  <1>3. Len(p) = Len(o) + 1 /\ p[Len(o) + 1] = x /\ Len(o) \in Nat /\ \A k \in 1..Len(o) : p[k] = o[k]
    BY <1>2, AppendFacts
  <1>4. ASSUME NEW u, NEW i, Has(o, u, i)
        PROVE  Has(p, u, i)
    <2>1. PICK k \in 1..Len(o) : o[k] = Token(u, i)
      BY <1>4 DEF Has
    <2>2. k \in 1..Len(p) /\ p[k] = Token(u, i)
      BY <1>3, <2>1
    <2> QED BY <2>2 DEF Has
  <1>5. ASSUME NEW u, NEW i, Has(p, u, i), ~Has(o, u, i)
        PROVE  u = t /\ i = j
    <2>1. PICK k \in 1..Len(p) : p[k] = Token(u, i)
      BY <1>5 DEF Has
    <2>2. k \notin 1..Len(o)
      BY <1>3, <1>5, <2>1 DEF Has
    <2>3. k = Len(o) + 1
      BY <1>3, <2>2
    <2>4. x = Token(u, i)
      BY <1>3, <2>1, <2>3
    <2>5. Token(u, i).t = u /\ Token(u, i).req = i
      BY DEF Token
    <2> QED BY <1>1, <2>4, <2>5
  <1>6. Has(p, t, j)
    <2>1. Len(o) + 1 \in 1..Len(p) /\ p[Len(o) + 1] = Token(t, j)
      BY <1>1, <1>3
    <2> QED BY <2>1 DEF Has
  <1> QED BY <1>4, <1>5, <1>6

\* A token that is not a status leaves answers whole.
LEMMA AnswersStep ==
  ASSUME NEW s, NEW o, NEW d, Answers(s, o, d), NEW p, NEW e,
         \A i \in 1..Len(s) : Has(o, "fin", i) => Has(p, "fin", i),
         \A i \in 1..Len(s) : Has(p, "status", i) => Has(o, "status", i) \/ Done(s, p, e, i),
         d.state.tag = "SendPayload" => e.state = d.state \/ Has(p, "fin", d.state.req)
  PROVE  Answers(s, p, e)
  <1> SUFFICES ASSUME NEW i \in 1..Len(s), Has(p, "status", i), ~Done(s, p, e, i)
               PROVE  FALSE
    BY DEF Answers
  <1>1. Done(s, o, d, i)
    BY DEF Answers
  <1>2. ~Has(o, "fin", i)
    BY DEF Done
  <1>3. d.state.tag = "SendPayload" /\ d.state.req = i
    BY <1>1, <1>2 DEF Done
  <1> QED BY <1>3 DEF Done

\* A request is begun, or its service has answered.
LEMMA AnswersServed ==
  ASSUME NEW s, NEW g \in Seq(OutTokens), NEW d, d.writeBuf \in Seq(OutTokens),
         Answers(s, Joined(g, d.writeBuf), d), d.state.tag # "SendPayload",
         NEW i \in 1..Len(s), s[i].resp \in {"empty", "full", "stream", "broken"}, NEW e, NEW q,
         q = d.writeBuf \/ q = Append(d.writeBuf, Token("continue", i)), Served(s[i], q, d, e, i)
  PROVE  Answers(s, Joined(g, e.writeBuf), e)
  <1>1. PICK b \in Seq(OutTokens) : b = d.writeBuf
    OBVIOUS
  <1>2. PICK o \in Seq(OutTokens) : o = Joined(g, b)
    BY JoinedType
  <1>3. /\ q \in Seq(OutTokens)
        /\ \A u, j : Has(o, u, j) => Has(Joined(g, q), u, j)
        /\ \A u, j : Has(Joined(g, q), u, j) => Has(o, u, j) \/ u = "continue"
    <2>1. CASE q = b
      BY <1>1, <1>2, <2>1
    <2>2. CASE q = Append(b, Token("continue", i))
      <3>1. PICK x \in OutTokens : x = Token("continue", i)
        <4>1. Token("continue", i) \in OutTokens
          BY OutToken
        <4> QED BY <4>1, Zenon
      <3>2. q = Append(b, x) /\ q \in Seq(OutTokens)
        BY <2>2, <3>1
      <3>3. Joined(g, q) = Append(o, x)
        BY <1>2, <3>2, OutAppend
      <3>4. Puts(o, Joined(g, q), "continue", i)
        BY <3>1, <3>3 DEF Puts
      <3> QED BY <1>2, <3>2, <3>4, HasAppend
    <2> QED BY <1>1, <2>1, <2>2
  <1>4. PICK h \in Seq(OutTokens) : h = Joined(g, q)
    BY <1>3, JoinedType
  <1>5. PICK p : p = Joined(g, e.writeBuf)
    OBVIOUS
  <1>6. Answers(s, o, d)
    BY <1>1, <1>2
  <1>7. CASE Pending(s[i], q, d, e, i)
    <2>1. p = h
      BY <1>4, <1>5, <1>7 DEF Pending
    <2> QED BY <1>3, <1>4, <1>5, <1>6, <2>1, AnswersStep
  <1>8. CASE Answering(q, e, i) \/ Closing(s[i], q, d, e, i)
    <2>1. e.writeBuf = Append(q, Token("status", i))
      BY <1>8 DEF Answering, Closing
    <2>2. PICK x \in OutTokens : x = Token("status", i)
      <3>1. Token("status", i) \in OutTokens
        BY OutToken
      <3> QED BY <3>1, Zenon
    <2>3. Puts(h, p, "status", i)
      <3>1. Joined(g, Append(q, x)) = Append(Joined(g, q), x)
        BY <1>3, OutAppend
      <3> QED BY <1>4, <1>5, <2>1, <2>2, <3>1 DEF Puts
    <2>4. /\ \A u, j : Has(h, u, j) => Has(p, u, j)
          /\ \A u, j : Has(p, u, j) => Has(h, u, j) \/ (u = "status" /\ j = i)
      BY <1>4, <2>3, HasAppend
    <2>5. Done(s, p, e, i)
      BY <1>8 DEF Answering, Closing, AtOnce, Done
    <2>6. \A j \in 1..Len(s) : Has(o, "fin", j) => Has(p, "fin", j)
      BY <1>3, <1>4, <2>4
    <2>7. \A j \in 1..Len(s) : Has(p, "status", j) => Has(o, "status", j) \/ Done(s, p, e, j)
      BY <1>3, <1>4, <2>4, <2>5
    <2> QED BY <1>5, <1>6, <2>6, <2>7, AnswersStep
  <1> QED BY <1>7, <1>8 DEF Served

-----------------------------------------------------------------------------
(* An open connection. *)

\* A connection shuts down with an empty queue, if nothing was left behind.
Quits(s, d) == "SHUTDOWN" \in d.flags /\ Unbroken(s) /\ ~d.error => d.messages = << >>

\* What is so of a connection that is open.
Standing(s, w, d, n) ==
  /\ Flow(d) /\ Quits(s, d) /\ Answers(s, Out(d, n), d)
  /\ Pipelined(s) => Ordered(s, Out(d, n), d, Reached(w, d, n))

\* Decoding keeps it.
LEMMA DecodeFlow ==
  ASSUME NEW s, NEW w, NEW d, NEW n, DispType(s, d), Flow(d), d.pc = "decode",
         NEW e, Onward(d, e), Steady(s, d, e),
         \/ Stays(w, d, n, e)
         \/ \E i : Queues(w, d, n, e, "item", i) \/ Queues(w, d, n, e, "upgrade", i)
         \/ Queues(w, d, n, e, "error", 0)
         \/ \E i \in 1..Len(s) : Begins(s, w, d, n, e, i)
  PROVE  Flow(e) /\ "SHUTDOWN" \notin e.flags
  <1>1. "SHUTDOWN" \notin d.flags /\ "READ_DISCONNECT" \notin d.flags /\ (d.ret # "poll" => d.state # NoState)
    BY DEF Flow
  <1>2. "SHUTDOWN" \notin e.flags
    BY <1>1 DEF Steady
  <1>3. e.state = d.state \/ (d.state = NoState /\ e.pc = d.pc)
    BY DEF Stays, Queues, Begins
  <1>4. e.pc = "decode" => "READ_DISCONNECT" \notin e.flags /\ (e.ret # "poll" => e.state # NoState)
    <2>1. e.pc = "decode" => e.ret = d.ret /\ "READ_DISCONNECT" \notin e.flags
      BY <1>1 DEF Onward
    <2>2. e.ret # "poll" /\ e.pc = "decode" => e.state = d.state
      BY <1>1, <1>3, <2>1
    <2> QED BY <1>1, <2>1, <2>2
  <1>5. e.pc # "shutdown"
    BY DEF Onward
  <1>6. PICK m : m = d.messages /\ MessagesType(s, m) /\ Len(m) \in Nat
    <2>1. MessagesType(s, d.messages)
      BY TypeParts
    <2>2. Len(d.messages) \in Nat
      BY <2>1 DEF MessagesType
    <2> QED BY <2>1, <2>2
  <1>7. \A k \in 1..Len(m) : m[k].t = "error" => d.error
    BY <1>6 DEF Flow
  <1>8. CASE e.messages = m /\ ("STARTED" \in e.flags \/ e.state = d.state)
    <2>1. "STARTED" \notin e.flags => "STARTED" \notin d.flags /\ e.state = d.state
      BY <1>8 DEF Steady
    <2>2. "STARTED" \notin e.flags => e.state = NoState /\ e.messages = << >>
      BY <1>6, <1>8, <2>1 DEF Flow
    <2>3. \A k \in 1..Len(e.messages) : e.messages[k].t = "error" => e.error
      BY <1>7, <1>8 DEF Steady
    <2>4. "WRITE_DISCONNECT" \in e.flags => e.error
      BY <1>1 DEF Steady, Flow
    <2> QED BY <1>2, <1>4, <1>5, <2>2, <2>3, <2>4 DEF Flow
  <1>9. ASSUME NEW t \in {"item", "upgrade", "error"}, NEW i, Queues(w, d, n, e, t, i)
        PROVE  Flow(e)
    <2>1. PICK z : z = Token(t, i) /\ z.t = t
      <3>1. Token(t, i).t = t
        BY DEF Token
      <3> QED BY <3>1, Zenon
    <2>2. PICK y : y = Append(m, z) /\ y = e.messages
      BY <1>6, <1>9, <2>1 DEF Queues
    <2>3. Len(y) = Len(m) + 1 /\ y[Len(m) + 1] = z /\ \A k \in 1..Len(m) : y[k] = m[k]
      <3>1. m \in Seq(Messages(s))
        BY <1>6 DEF MessagesType
      <3>2. y = Append(m, z)
        BY <2>2
      <3> QED BY <3>1, <3>2
    <2>4. t = "error" => e.error
      BY <1>9 DEF Queues
    <2>5. \A k \in 1..Len(y) : y[k].t = "error" => e.error
      <3> SUFFICES ASSUME NEW k \in 1..Len(y), y[k].t = "error"
                   PROVE  e.error
        OBVIOUS
      <3>1. CASE k = Len(m) + 1
        BY <2>1, <2>3, <2>4, <3>1
      <3>2. CASE k \in 1..Len(m)
        BY <1>7, <2>3, <3>2 DEF Steady
      <3> QED BY <1>6, <2>3, <3>1, <3>2
    <2>6. "WRITE_DISCONNECT" \in e.flags => e.error
      BY <1>1 DEF Steady, Flow
    <2>7. "STARTED" \notin e.flags =>
            /\ e.state = NoState /\ e.pc \in {"eof", "respond"} /\ Len(y) = 1 /\ y[1].t = "error"
      <3>1. SUFFICES ASSUME "STARTED" \notin e.flags
                     PROVE  /\ e.state = NoState /\ e.pc \in {"eof", "respond"} /\ Len(y) = 1
                            /\ y[1].t = "error"
        OBVIOUS
      <3>2. t = "error" /\ e.state = d.state /\ e.pc # "decode"
        BY <1>9, <3>1 DEF Queues
      <3>3. d.state = NoState /\ m = << >>
        BY <1>6, <3>1 DEF Steady, Flow
      <3>4. e.pc = "eof"
        BY <1>1, <3>2, <3>3 DEF Onward
      <3>5. Len(m) = 0
        BY <3>3
      <3> QED BY <2>1, <2>3, <3>2, <3>3, <3>4, <3>5
    <2> QED BY <1>2, <1>4, <1>5, <2>2, <2>5, <2>6, <2>7 DEF Flow
  <1>10. CASE Stays(w, d, n, e)
    BY <1>2, <1>6, <1>8, <1>10 DEF Stays
  <1>11. CASE \E i : Queues(w, d, n, e, "item", i) \/ Queues(w, d, n, e, "upgrade", i)
    BY <1>2, <1>9, <1>11
  <1>12. CASE Queues(w, d, n, e, "error", 0)
    BY <1>2, <1>9, <1>12
  <1>13. CASE \E i \in 1..Len(s) : Begins(s, w, d, n, e, i)
    BY <1>2, <1>6, <1>8, <1>13 DEF Begins
  <1> QED BY <1>10, <1>11, <1>12, <1>13

\* Together: a step of the codec.
LEMMA DecodeStanding ==
  ASSUME NEW s, NEW w, NEW d, NEW n, Connected(s, w, d, n), Standing(s, w, d, n), d.pc = "decode",
         NEW e, e = DecodeOf(d)
  PROVE  /\ Connected(s, w, e, n) /\ Standing(s, w, e, n) /\ e.outcome = d.outcome
  <1>1. /\ Connected(s, w, e, n) /\ Onward(d, e) /\ Steady(s, d, e)
        /\ \/ Stays(w, d, n, e)
           \/ \E i : Queues(w, d, n, e, "item", i) \/ Queues(w, d, n, e, "upgrade", i)
           \/ Queues(w, d, n, e, "error", 0)
           \/ \E i \in 1..Len(s) : Begins(s, w, d, n, e, i)
    BY DecodeFacts
  <1>2. DispType(s, d) /\ NetType(s, n) /\ Carries(s, w)
    BY DEF Connected
  <1>3. Flow(d) /\ Answers(s, Out(d, n), d)
    BY DEF Standing
  <1>4. Flow(e) /\ "SHUTDOWN" \notin e.flags
    BY <1>1, <1>2, <1>3, DecodeFlow
  <1>5. Quits(s, e)
    BY <1>4 DEF Quits
  <1>6. Pipelined(s) => Ordered(s, Out(e, n), e, Reached(w, e, n))
    <2>1. SUFFICES ASSUME Pipelined(s)
                   PROVE  Ordered(s, Out(e, n), e, Reached(w, e, n))
      OBVIOUS
    <2>2. Ordered(s, Out(d, n), d, Reached(w, d, n))
      BY <2>1 DEF Standing
    <2>3. CASE Stays(w, d, n, e)
      BY <1>1, <2>2, <2>3, OrderStays
    <2>4. ASSUME NEW t \in {"item", "upgrade", "error"}, NEW i, Queues(w, d, n, e, t, i)
          PROVE  Ordered(s, Out(e, n), e, Reached(w, e, n))
      BY <1>1, <1>2, <1>3, <2>2, <2>4, OrderQueues
    <2>5. CASE \E i : Queues(w, d, n, e, "item", i) \/ Queues(w, d, n, e, "upgrade", i)
      BY <2>4, <2>5
    <2>6. CASE Queues(w, d, n, e, "error", 0)
      BY <2>4, <2>6
    <2>7. CASE \E i \in 1..Len(s) : Begins(s, w, d, n, e, i)
      BY <1>1, <1>2, <1>3, <2>1, <2>2, <2>7, OrderBegins
    <2> QED BY <1>1, <2>3, <2>5, <2>6, <2>7
  <1>7. Answers(s, Out(e, n), e)
    <2>1. CASE e.state = d.state /\ e.writeBuf = d.writeBuf
      <3>1. Out(e, n) = Out(d, n)
        BY <2>1 DEF Out
      <3> QED BY <1>3, <2>1, <3>1 DEF Answers, Done
    <2>2. CASE \E i \in 1..Len(s) : Begins(s, w, d, n, e, i)
      <3>1. PICK i \in 1..Len(s) : Begins(s, w, d, n, e, i)
        BY <2>2
      <3>2. PICK q : /\ q = d.writeBuf \/ q = Append(d.writeBuf, Token("continue", i))
                     /\ Served(s[i], q, d, e, i)
        BY <3>1 DEF Begins
      <3>3. PICK g \in Seq(OutTokens) : g = n.got
        BY <1>2 DEF NetType
      <3>4. d.writeBuf \in Seq(OutTokens) /\ d.state.tag # "SendPayload"
        BY <1>2, <3>1 DEF DispType, Begins, NoState
      <3>5. s[i].resp \in {"empty", "full", "stream", "broken"}
        BY <1>2, KindFacts
      <3>6. Answers(s, Joined(g, d.writeBuf), d)
        BY <1>3, <3>3 DEF Out
      <3>7. Answers(s, Joined(g, e.writeBuf), e)
        BY <3>2, <3>3, <3>4, <3>5, <3>6, AnswersServed
      <3> QED BY <3>3, <3>7 DEF Out
    <2> QED BY <1>1, <2>1, <2>2 DEF Stays, Queues
  <1> QED BY <1>1, <1>4, <1>5, <1>6, <1>7 DEF Standing, Steady

-----------------------------------------------------------------------------
(* The other steps: types, wire and bodies. *)

\* A step that reads nothing.
LEMMA StepConnected ==
  ASSUME NEW s, NEW w, NEW d, NEW n, Connected(s, w, d, n), NEW e, NEW m,
         IsDisp(e), Tasks(e.rq, s), Attentive(s, d, e), e.readBuf = d.readBuf,
         e.writeBuf \in Seq(OutTokens), MessagesType(s, e.messages), StateOf(e.state, s),
         Admitted(s, e.state),
         e.payload = d.payload, d.error => e.error,
         NetType(s, m), m.sent = n.sent, m.sock = n.sock,
         m.peer = "open" => n.peer = "open", e.eof => m.peer # "open"
  PROVE  Connected(s, w, e, m)
  <1>1. Carries(s, w) /\ DispType(s, d) /\ NetType(s, n) /\ WireRead(w, d, n) /\ Bodies(s, w, d, n)
    BY DEF Connected
  <1>2. Tasks(d.rq, s) /\ d.payload \in 0..Len(s) /\ d.readBuf \in Seq(InTokens(s))
    BY <1>1, TypeParts
  <1>3. DispType(s, e)
    BY <1>2, TypeParts
  <1>4. Taken(e, m) = Taken(d, n)
    BY DEF Taken
  <1>5. WireRead(w, e, m)
    BY <1>1, <1>4 DEF WireRead
  <1>6. Bodies(s, w, e, m)
    BY <1>1, <1>2, <1>4, BodiesKept
  <1> QED BY <1>1, <1>3, <1>5, <1>6 DEF Connected

LEMMA SameTasks ==
  ASSUME NEW s, NEW d, DispType(s, d), NEW e, e.rq = d.rq
  PROVE  Tasks(e.rq, s) /\ Attentive(s, d, e)
  <1>1. Tasks(d.rq, s)
    BY DEF DispType
  <1> QED BY <1>1 DEF Attentive, Attended

\* A step that writes, and is followed by state x.
LEMMA WriteStep ==
  ASSUME NEW s, NEW w, NEW d, NEW n, Connected(s, w, d, n), NEW e,
         Keeps(d, e, Aside \cup {"writeBuf", "state"}), e.writeBuf \in Seq(OutTokens), StateOf(e.state, s),
         Admitted(s, e.state)
  PROVE  Connected(s, w, e, n)
  <1>1. DispType(s, d) /\ NetType(s, n) /\ Bodies(s, w, d, n)
    BY DEF Connected
  <1>2. /\ IsDisp(e) /\ e.rq = d.rq /\ e.readBuf = d.readBuf /\ e.messages = d.messages
        /\ e.payload = d.payload /\ e.error = d.error /\ e.eof = d.eof
    BY DEF Keeps, Fields, Aside
  <1>3. Tasks(e.rq, s) /\ Attentive(s, d, e)
    BY <1>1, <1>2, SameTasks
  <1>4. MessagesType(s, e.messages)
    BY <1>1, <1>2, TypeParts
  <1>5. e.eof => n.peer # "open"
    BY <1>1, <1>2 DEF Bodies
  <1> QED BY <1>1, <1>2, <1>3, <1>4, <1>5, StepConnected

-----------------------------------------------------------------------------
(* The other steps: the turn, the order and the answers. *)

\* The flags stay.
LEMMA FlowKept ==
  ASSUME NEW d, Flow(d), NEW e, SameFlags(d, e), e.state = d.state, e.messages = d.messages, d.error => e.error,
         d.writeBuf = << >> => e.writeBuf = << >>,
         e.pc = "decode" => "READ_DISCONNECT" \notin d.flags /\ (e.ret = "poll" \/ d.state # NoState),
         "SHUTDOWN" \in d.flags => e.pc \in {"idle", "poll", "shutdown"},
         e.pc = "shutdown" => "SHUTDOWN" \in d.flags,
         d.pc \in {"eof", "respond"} /\ d.state = NoState /\ d.messages # << >> => e.pc \in {"eof", "respond"}
  PROVE  Flow(e)
  <1>1. /\ "READ_DISCONNECT" \in e.flags <=> "READ_DISCONNECT" \in d.flags
        /\ "WRITE_DISCONNECT" \in e.flags <=> "WRITE_DISCONNECT" \in d.flags
        /\ "SHUTDOWN" \in e.flags <=> "SHUTDOWN" \in d.flags
        /\ "STARTED" \in e.flags <=> "STARTED" \in d.flags
    BY DEF SameFlags, Signals
  <1> QED BY <1>1 DEF Flow

\* A step that begins, queues and answers nothing.
LEMMA StandingKept ==
  ASSUME NEW s, NEW w, NEW d, NEW n, Standing(s, w, d, n), NEW e, NEW m, Flow(e),
         Out(e, m) = Out(d, n), e.state = d.state, e.messages = d.messages,
         Reached(w, e, m) = Reached(w, d, n), Forth(s, d, e),
         "SHUTDOWN" \in e.flags => "SHUTDOWN" \in d.flags, d.error => e.error,
         d.pc \in {"respond", "eof"} /\ d.state = NoState /\ d.messages # << >> => e.pc \in {"respond", "eof"}
  PROVE  Standing(s, w, e, m)
  <1>1. Quits(s, e)
    BY DEF Standing, Quits
  <1>2. Answers(s, Out(e, m), e)
    BY DEF Standing, Answers, Done
  <1>3. ASSUME Pipelined(s)
        PROVE  Ordered(s, Out(e, m), e, Reached(w, e, m))
    <2>1. PICK o, x : o = Out(d, n) /\ o = Out(e, m) /\ x = Reached(w, d, n) /\ x = Reached(w, e, m)
      OBVIOUS
    <2>2. Ordered(s, o, d, x) /\ InOrder(o)
      BY <1>3, <2>1 DEF Standing, Ordered
    <2>3. Begun(o, e) = Begun(o, d)
      BY DEF Begun, Called
    <2>4. Ordered(s, o, e, x)
      BY <2>2, <2>3, OrderKept
    <2> QED BY <2>1, <2>4
  <1> QED BY <1>1, <1>2, <1>3 DEF Standing

\* The queue of a connection that may shut down.
LEMMA QuitsWell ==
  ASSUME NEW s, NEW w, NEW d, NEW n, Connected(s, w, d, n), Standing(s, w, d, n),
         d.state = NoState, d.pc \notin {"respond", "eof"}, Unbroken(s), ~d.error
  PROVE  d.messages = << >>
  <1>1. DispType(s, d) /\ NetType(s, n)
    BY DEF Connected
  <1>2. Pipelined(s)
    <2>1. \A i \in 1..Len(s) : i + 2 <= Len(s) => i < Len(s)
      <3>1. Len(s) \in Nat
        BY DEF Connected, Carries
      <3> QED BY <3>1
    <2> QED BY <2>1 DEF Unbroken, Pipelined
  <1>3. PICK o, x : o = Out(d, n) /\ Ordered(s, o, d, x)
    BY <1>2 DEF Standing
  <1>4. PICK c \in Nat : c = Begun(o, d)
    <2>1. Statuses(o) \in Nat
      BY <1>1, <1>3, OutType
    <2>2. Begun(o, d) \in Nat
      BY <2>1 DEF Begun
    <2> QED BY <2>2
  <1> SUFFICES ASSUME d.messages # << >>
               PROVE  FALSE
    OBVIOUS
  <1>5. Queued(s, d, c, x)
    BY <1>3, <1>4 DEF Ordered, Over
  <1>6. PICK m : m = d.messages
    OBVIOUS
  <1>7. MessagesType(s, m) /\ Lined(m, c, d.flags) /\ m # << >>
    BY <1>1, <1>5, <1>6, TypeParts DEF Queued
  <1>8. 1 \in 1..Len(m)
    BY <1>7 DEF MessagesType
  <1>9. m[1].t # "error"
    BY <1>6, <1>8 DEF Standing, Flow
  <1>10. c >= 1 /\ Leaves(s, c)
    BY <1>5, <1>6, <1>9 DEF Queued
  <1>11. m[1].req = c + 1 /\ m[1].req \in 1..Len(s)
    BY <1>7, <1>8, <1>9 DEF Lined, MessagesType
  <1>12. c \in 1..Len(s) /\ c < Len(s)
    BY <1>10, <1>11
  <1> QED BY <1>10, <1>12 DEF Unbroken

-----------------------------------------------------------------------------
(* The invariant of a connection. *)

\* A connection that ends without an error has answered what it has begun.
Whole(s, d, n) ==
  d.outcome = "ok" /\ n.peer = "open" /\ ~d.error /\ Unbroken(s) =>
    /\ d.messages = << >> /\ d.state = NoState /\ d.writeBuf = << >>
    /\ Answers(s, n.got, d)

\* The whole invariant of a connection.
Sound(s, w, d, n) ==
  /\ Connected(s, w, d, n) /\ Whole(s, d, n)
  /\ d.outcome = "open" => Standing(s, w, d, n)
  /\ Pipelined(s) => InOrder(Out(d, n))

\* An open connection is sound if it stands.
LEMMA GoesOn ==
  ASSUME NEW s, NEW w, NEW d, NEW n, Connected(s, w, d, n), Standing(s, w, d, n), d.outcome = "open"
  PROVE  Sound(s, w, d, n)
  BY DEF Sound, Standing, Whole, Ordered

\* An error, an upgrade, and an end the dispatcher knows of an error at.
LEMMA EndsOther ==
  ASSUME NEW s, NEW w, NEW d, NEW n, Connected(s, w, d, n), Standing(s, w, d, n),
         NEW e, NEW m, Connected(s, w, e, m), Out(e, m) = Out(d, n),
         e.outcome # "open", e.outcome # "ok" \/ e.error
  PROVE  Sound(s, w, e, m)
  BY DEF Sound, Standing, Whole, Ordered

-----------------------------------------------------------------------------
(* poll_keepalive. *)

\* What the timer is made of.
Clock == {"woken", "timer", "fresh"}

\* A connection that shuts down stops reading, times out, has been idle for too long, or never began.
Abandons(d, k) ==
  /\ "SHUTDOWN" \in d.flags
  /\ \E f : /\ Keeps(d, f, {"woken", "flags"}) /\ f.flags = d.flags \cup {"READ_DISCONNECT"}
            /\ k = SetError(f)
TimesOut(d, k) == Keeps(d, k, Clock \cup {"outcome"}) /\ k.outcome = "error"
Retires(d, k) ==
  /\ d.state = NoState /\ d.writeBuf = << >> /\ "STARTED" \in d.flags
  /\ Keeps(d, k, Clock \cup {"flags"})
  /\ k.flags \in {d.flags \cup {"SHUTDOWN"}, d.flags \cup {"SHUTDOWN", "WRITE_DISCONNECT"}}
Expires(d, b, k) ==
  /\ d.state = NoState /\ d.writeBuf = << >> /\ "STARTED" \notin d.flags /\ "SHUTDOWN" \notin d.flags
  /\ \E r : /\ r = Responded(b, 0, NoState) /\ Keeps(r, k, {"flags"})
            /\ k.flags = r.flags \cup {"STARTED", "SHUTDOWN"}

\* These are all the outcomes of KeepAlive.
LEMMA KeepAliveFacts ==
  ASSUME NEW s, NEW d, DispType(s, d), NEW b, Keeps(d, b, {"woken"}), NEW k, k = KeepAlive(b)
  PROVE  Keeps(d, k, Clock) \/ Abandons(d, k) \/ TimesOut(d, k) \/ Retires(d, k) \/ Expires(d, b, k)
  <1>1. IsDisp(b) /\ b.flags = d.flags /\ b.state = d.state /\ b.writeBuf = d.writeBuf
    BY DEF Keeps, Fields
  <1>2. CASE k = b
    BY <1>1, <1>2 DEF Keeps, Fields, Clock
  <1>3. CASE \E t, f : k = [b EXCEPT !.timer = t, !.fresh = f]
    <2>1. PICK t, f : k = [b EXCEPT !.timer = t, !.fresh = f]
      BY <1>3
    <2>2. Keeps(b, k, {"timer", "fresh"})
      BY <1>1, <2>1 DEF Keeps, IsDisp, Fields
    <2> QED BY <2>2 DEF Keeps, Fields, Clock
  <1>4. CASE \E t : k = [b EXCEPT !.timer = t]
    <2>1. PICK t : k = [b EXCEPT !.timer = t]
      BY <1>4
    <2>2. Keeps(b, k, {"timer", "fresh"})
      BY <1>1, <2>1 DEF Keeps, IsDisp, Fields
    <2> QED BY <2>2 DEF Keeps, Fields, Clock
  <1>5. CASE "SHUTDOWN" \in d.flags /\ k = SetError(Flagged(b, {"READ_DISCONNECT"}))
    <2>1. PICK f : f = Flagged(b, {"READ_DISCONNECT"})
      OBVIOUS
    <2>2. Keeps(b, f, {"flags"}) /\ f.flags = b.flags \cup {"READ_DISCONNECT"}
      BY <1>1, <2>1 DEF Flagged, Keeps, IsDisp, Fields
    <2>3. Keeps(d, f, {"woken", "flags"})
      BY <2>2 DEF Keeps, Fields
    <2> QED BY <1>1, <1>5, <2>1, <2>2, <2>3 DEF Abandons
  <1>6. CASE k = Ended(b, "error")
    <2>1. Keeps(b, k, {"outcome"}) /\ k.outcome = "error"
      BY <1>1, <1>6 DEF Ended, Keeps, IsDisp, Fields
    <2> QED BY <2>1 DEF Keeps, Fields, Clock, TimesOut
  <1>7. CASE /\ d.state = NoState /\ d.writeBuf = << >> /\ "STARTED" \in d.flags
             /\ \/ k = [Flagged(b, {"SHUTDOWN"}) EXCEPT !.timer = "armed"]
                \/ k = Flagged(b, {"SHUTDOWN", "WRITE_DISCONNECT"})
    <2>1. PICK x, t : /\ k = [b EXCEPT !.flags = b.flags \cup x, !.timer = t]
                      /\ x \in {{"SHUTDOWN"}, {"SHUTDOWN", "WRITE_DISCONNECT"}}
      <3>1. CASE k = [Flagged(b, {"SHUTDOWN"}) EXCEPT !.timer = "armed"]
        BY <3>1 DEF Flagged
      <3>2. CASE k = Flagged(b, {"SHUTDOWN", "WRITE_DISCONNECT"})
        <4>1. k = [b EXCEPT !.flags = b.flags \cup {"SHUTDOWN", "WRITE_DISCONNECT"}, !.timer = b.timer]
          BY <1>1, <3>2 DEF Flagged, IsDisp, Fields
        <4> QED BY <4>1
      <3> QED BY <1>7, <3>1, <3>2
    <2>2. Keeps(b, k, {"timer", "flags"}) /\ k.flags = b.flags \cup x
      BY <1>1, <2>1 DEF Keeps, IsDisp, Fields
    <2>3. Keeps(d, k, Clock \cup {"flags"})
      BY <2>2 DEF Keeps, Fields, Clock
    <2> QED BY <1>1, <1>7, <2>1, <2>2, <2>3 DEF Retires
  <1>8. CASE /\ d.state = NoState /\ d.writeBuf = << >> /\ "STARTED" \notin d.flags /\ "SHUTDOWN" \notin d.flags
             /\ k = Flagged(SendResponse(b, 0, FALSE), {"STARTED", "SHUTDOWN"})
    <2>1. PICK r : r = Responded(b, 0, NoState) /\ r = SendResponse(b, 0, FALSE)
      BY <1>1, EmptyResponse, Zenon
    <2>2. IsDisp(r)
      BY <1>1, <2>1, ResponseFacts DEF Keeps
    <2>3. Keeps(r, k, {"flags"}) /\ k.flags = r.flags \cup {"STARTED", "SHUTDOWN"}
      BY <1>8, <2>1, <2>2, ZenonT(60) DEF Flagged, Keeps, IsDisp, Fields
    <2> QED BY <1>8, <2>1, <2>3 DEF Expires
  <1> QED BY <1>1, <1>2, <1>3, <1>4, <1>5, <1>6, <1>7, <1>8, Zenon DEF KeepAlive, TimerFired, ArmDisconnect

\* PollKeepalive, as a function of the dispatcher.
KeepaliveOf(d) ==
  LET k == KeepAlive([d EXCEPT !.woken = d.pc = "poll" /\ @])
  IN  Goto(k, IF "SHUTDOWN" \in k.flags THEN "shutdown" ELSE "read")

\* Goto.
LEMMA GotoFacts ==
  ASSUME NEW d, IsDisp(d), NEW x, NEW e, e = Goto(d, x)
  PROVE  Keeps(d, e, {"pc"}) /\ e.pc = x
  BY DEF Goto, Keeps, IsDisp, Fields

\* The connection begins to shut down.
LEMMA ShutsDown ==
  ASSUME NEW s, NEW w, NEW d, NEW n, Connected(s, w, d, n), Standing(s, w, d, n),
         d.state = NoState, d.pc \notin {"respond", "eof"},
         NEW e, NEW m, Connected(s, w, e, m), Out(e, m) = Out(d, n), e.state = NoState, e.messages = d.messages,
         e.rq = d.rq, e.error = d.error, Reached(w, e, m) = Reached(w, d, n), e.outcome = "open",
         e.pc \in {"idle", "poll", "shutdown"}, "SHUTDOWN" \in e.flags,
         "STARTED" \in e.flags \/ d.messages = << >>,
         "READ_DISCONNECT" \in d.flags => "READ_DISCONNECT" \in e.flags,
         "WRITE_DISCONNECT" \in e.flags => e.error \/ e.writeBuf = << >>
  PROVE  Sound(s, w, e, m)
  <1>1. Flow(e)
    BY DEF Flow, Standing
  <1>2. Quits(s, e)
    BY QuitsWell DEF Quits
  <1>3. Answers(s, Out(e, m), e)
    BY DEF Standing, Answers, Done
  <1>4. ASSUME Pipelined(s)
        PROVE  Ordered(s, Out(e, m), e, Reached(w, e, m))
    <2>1. PICK o, x : o = Out(d, n) /\ o = Out(e, m) /\ x = Reached(w, d, n) /\ x = Reached(w, e, m)
      OBVIOUS
    <2>2. Ordered(s, o, d, x) /\ InOrder(o)
      BY <1>4, <2>1 DEF Standing, Ordered
    <2>3. Begun(o, e) = Begun(o, d)
      BY DEF Begun, Called
    <2>4. Forth(s, d, e)
      BY DEF Forth
    <2>5. Ordered(s, o, e, x)
      BY <2>2, <2>3, <2>4, OrderKept
    <2> QED BY <2>1, <2>5
  <1>5. Standing(s, w, e, m)
    BY <1>1, <1>2, <1>3, <1>4 DEF Standing
  <1> QED BY <1>5, GoesOn

\* poll_keepalive keeps a connection sound.
LEMMA KeepaliveStep ==
  ASSUME NEW s, NEW w, NEW d, NEW n, Connected(s, w, d, n), Standing(s, w, d, n), d.outcome = "open",
         d.pc \in {"idle", "poll"}, NEW e, e = KeepaliveOf(d)
  PROVE  Sound(s, w, e, n)
  <1>1. PICK b : b = [d EXCEPT !.woken = d.pc = "poll" /\ d.woken]
    OBVIOUS
  <1>2. DispType(s, d) /\ NetType(s, n) /\ IsDisp(d)
    BY DEF Connected, DispType
  <1>3. Keeps(d, b, {"woken"})
    BY <1>1, <1>2 DEF Keeps, IsDisp, Fields
  <1>4. PICK k : k = KeepAlive(b)
    OBVIOUS
  <1>5. PICK x : x = (IF "SHUTDOWN" \in k.flags THEN "shutdown" ELSE "read") /\ e = Goto(k, x)
    BY <1>1, <1>4 DEF KeepaliveOf
  <1>6. Flow(d)
    BY DEF Standing
  <1>7. CASE Keeps(d, k, Clock)
    <2>1. Keeps(k, e, {"pc"}) /\ e.pc = x
      BY <1>5, <1>7, GotoFacts DEF Keeps
    <2>2. /\ Keeps(d, e, Aside) /\ e.flags = d.flags /\ e.state = d.state /\ e.messages = d.messages
          /\ e.error = d.error /\ e.writeBuf = d.writeBuf /\ e.outcome = "open" /\ e.rq = d.rq
          /\ e.readBuf = d.readBuf
      BY <1>7, <2>1 DEF Keeps, Fields, Clock, Aside
    <2>3. Connected(s, w, e, n)
      BY <2>2, AsideStep
    <2>4. e.pc = (IF "SHUTDOWN" \in d.flags THEN "shutdown" ELSE "read")
      BY <1>5, <1>7, <2>1 DEF Keeps, Fields, Clock
    <2>5. Flow(e)
      BY <1>6, <2>2, <2>4, FlowKept DEF SameFlags
    <2>6. Out(e, n) = Out(d, n) /\ Reached(w, e, n) = Reached(w, d, n) /\ Forth(s, d, e)
      BY <2>2 DEF Out, Reached, Taken, Forth
    <2>7. Standing(s, w, e, n)
      BY <2>2, <2>5, <2>6, StandingKept
    <2> QED BY <2>2, <2>3, <2>7, GoesOn
  <1>8. CASE Abandons(d, k)
    <2>1. "SHUTDOWN" \in d.flags
      BY <1>8 DEF Abandons
    <2>2. PICK f : /\ Keeps(d, f, {"woken", "flags"}) /\ f.flags = d.flags \cup {"READ_DISCONNECT"}
                   /\ k = SetError(f)
      BY <1>8 DEF Abandons
    <2>3. Connected(s, w, f, n)
      <3>1. Keeps(d, f, Aside)
        BY <2>2 DEF Keeps, Fields, Aside
      <3> QED BY <3>1, AsideStep
    <2>4. DispType(s, f) /\ Connected(s, w, k, n)
      BY <2>2, <2>3, SetErrorBodies DEF Connected
    <2>5. /\ Keeps(f, k, {"rq", "payload"})
          /\ \A i \in 1..Len(s) : k.rq[i].go = f.rq[i].go
      <3>1. /\ Keeps(f, k, {"rq", "payload"}) /\ (f.payload = 0 => k.rq = f.rq)
            /\ f.payload # 0 => /\ OnlyTask(s, f, k, f.payload)
                                /\ KeepsTask(f.rq[f.payload], k.rq[f.payload], {"err"})
        BY <2>2, <2>4, SetErrorFacts
      <3>2. f.payload # 0 => k.rq[f.payload].go = f.rq[f.payload].go
        BY <3>1 DEF KeepsTask, TaskFields
      <3> QED BY <3>1, <3>2 DEF OnlyTask
    <2>6. Keeps(k, e, {"pc"}) /\ e.pc = x
      BY <1>5, <2>5, GotoFacts DEF Keeps
    <2>7. /\ e.flags = d.flags \cup {"READ_DISCONNECT"} /\ e.state = d.state /\ e.messages = d.messages
          /\ e.error = d.error /\ e.writeBuf = d.writeBuf /\ e.outcome = "open" /\ e.rq = k.rq
          /\ e.readBuf = d.readBuf
      BY <2>2, <2>5, <2>6 DEF Keeps, Fields
    <2>8. Connected(s, w, e, n)
      <3>1. Keeps(k, e, Aside)
        BY <2>6 DEF Keeps, Fields, Aside
      <3> QED BY <2>4, <3>1, AsideStep
    <2>9. e.pc = "shutdown"
      <3>1. k.flags = e.flags
        BY <2>6 DEF Keeps, Fields
      <3> QED BY <1>5, <2>1, <2>6, <2>7, <3>1
    <2>10. Flow(e)
      BY <1>6, <2>1, <2>7, <2>9 DEF Flow
    <2>11. Forth(s, d, e)
      <3>1. \A i \in 1..Len(s) : f.rq[i].go = d.rq[i].go
        BY <2>2 DEF Keeps, Fields
      <3> QED BY <2>5, <2>7, <3>1 DEF Forth
    <2>12. Out(e, n) = Out(d, n) /\ Reached(w, e, n) = Reached(w, d, n)
      BY <2>7 DEF Out, Reached, Taken
    <2>13. Standing(s, w, e, n)
      BY <2>1, <2>7, <2>10, <2>11, <2>12, StandingKept
    <2> QED BY <2>7, <2>8, <2>13, GoesOn
  <1>9. CASE TimesOut(d, k)
    <2>1. Keeps(d, k, Clock \cup {"outcome"}) /\ k.outcome = "error"
      BY <1>9 DEF TimesOut
    <2>2. Keeps(k, e, {"pc"}) /\ e.pc = x
      BY <1>5, <2>1, GotoFacts DEF Keeps
    <2>3. Keeps(d, e, Aside) /\ e.writeBuf = d.writeBuf /\ e.outcome = "error"
      BY <2>1, <2>2 DEF Keeps, Fields, Clock, Aside
    <2>4. Connected(s, w, e, n) /\ Out(e, n) = Out(d, n)
      BY <2>3, AsideStep DEF Out
    <2> QED BY <2>3, <2>4, EndsOther
  <1>10. CASE Retires(d, k)
    <2>1. /\ d.state = NoState /\ d.writeBuf = << >> /\ "STARTED" \in d.flags
          /\ Keeps(d, k, Clock \cup {"flags"})
          /\ k.flags \in {d.flags \cup {"SHUTDOWN"}, d.flags \cup {"SHUTDOWN", "WRITE_DISCONNECT"}}
      BY <1>10 DEF Retires
    <2>2. Keeps(k, e, {"pc"}) /\ e.pc = x
      BY <1>5, <2>1, GotoFacts DEF Keeps
    <2>3. /\ Keeps(d, e, Aside) /\ e.flags = k.flags /\ e.state = d.state /\ e.messages = d.messages
          /\ e.error = d.error /\ e.writeBuf = d.writeBuf /\ e.outcome = "open" /\ e.rq = d.rq
          /\ e.readBuf = d.readBuf
      BY <2>1, <2>2 DEF Keeps, Fields, Clock, Aside
    <2>4. Connected(s, w, e, n)
      BY <2>3, AsideStep
    <2>5. e.pc = "shutdown"
      BY <1>5, <2>1, <2>2
    <2>6. Out(e, n) = Out(d, n) /\ Reached(w, e, n) = Reached(w, d, n)
      BY <2>3 DEF Out, Reached, Taken
    <2>7. /\ "SHUTDOWN" \in e.flags /\ "STARTED" \in e.flags
          /\ "READ_DISCONNECT" \in d.flags => "READ_DISCONNECT" \in e.flags
      BY <2>1, <2>3
    <2> QED BY <2>1, <2>3, <2>4, <2>5, <2>6, <2>7, ShutsDown
  <1>11. CASE Expires(d, b, k)
    <2>1. d.state = NoState /\ d.writeBuf = << >> /\ "STARTED" \notin d.flags /\ "SHUTDOWN" \notin d.flags
      BY <1>11 DEF Expires
    <2>2. PICK r : /\ r = Responded(b, 0, NoState) /\ Keeps(r, k, {"flags"})
                   /\ k.flags = r.flags \cup {"STARTED", "SHUTDOWN"}
      BY <1>11 DEF Expires
    <2>3. /\ Keeps(b, r, {"writeBuf", "flags", "state"}) /\ SameFlags(b, r)
          /\ r.writeBuf = Append(b.writeBuf, Token("status", 0)) /\ r.state = NoState
      <3>1. IsDisp(b)
        BY <1>3 DEF Keeps
      <3> QED BY <2>2, <3>1, ResponseFacts
    <2>4. Keeps(k, e, {"pc"}) /\ e.pc = x
      BY <1>5, <2>2, GotoFacts DEF Keeps
    <2>5. /\ Keeps(d, e, Aside \cup {"writeBuf", "state"}) /\ e.messages = d.messages
          /\ e.error = d.error /\ e.outcome = "open" /\ e.rq = d.rq /\ e.state = NoState
          /\ e.readBuf = d.readBuf /\ e.flags = k.flags
      BY <1>3, <2>2, <2>3, <2>4 DEF Keeps, Fields, Aside
    <2>6. e.writeBuf = Append(d.writeBuf, Token("status", 0))
      BY <1>3, <2>2, <2>3, <2>4 DEF Keeps, Fields
    <2>7. PICK g \in Seq(OutTokens), q \in Seq(OutTokens) : g = n.got /\ q = d.writeBuf
      BY <1>2 DEF DispType, NetType
    <2>8. PICK y : y = e.writeBuf
      OBVIOUS
    <2>9. y \in Seq(OutTokens)
      BY <2>6, <2>7, <2>8, WrittenType
    <2>10. Connected(s, w, e, n)
      <3>1. StateOf(e.state, s) /\ Admitted(s, e.state)
        BY <2>5 DEF StateOf, NoState, Admitted
      <3> QED BY <2>5, <2>7, <2>8, <2>9, <3>1, WriteStep
    <2>11. /\ "SHUTDOWN" \in e.flags /\ "STARTED" \in e.flags
           /\ "WRITE_DISCONNECT" \in e.flags => "WRITE_DISCONNECT" \in d.flags
      <3>1. b.flags = d.flags
        BY <1>3 DEF Keeps, Fields
      <3>2. "WRITE_DISCONNECT" \in r.flags <=> "WRITE_DISCONNECT" \in d.flags
        BY <2>3, <3>1 DEF SameFlags, Signals
      <3> QED BY <2>2, <2>5, <3>2
    <2>12. d.messages = << >>
      BY <1>6, <2>1 DEF Flow
    <2>13. e.pc = "shutdown"
      BY <1>5, <2>4, <2>5, <2>11
    <2>14. Flow(e) /\ Quits(s, e)
      <3>1. "WRITE_DISCONNECT" \in e.flags => e.error
        BY <1>6, <2>1, <2>5, <2>11 DEF Flow
      <3> QED BY <2>5, <2>11, <2>12, <2>13, <3>1 DEF Flow, Quits
    <2>15. PICK o \in Seq(OutTokens) : o = Joined(g, q) /\ o = Out(d, n)
      BY <2>7, <2>8, JoinedType DEF Out
    <2>16. Puts(q, y, "status", 0) /\ Joined(g, y) = Out(e, n)
      BY <2>6, <2>7, <2>8 DEF Puts, Out
    <2>17. ASSUME Pipelined(s)
           PROVE  Ordered(s, Out(e, n), e, Reached(w, e, n))
      <3>1. InOrder(o)
        BY <2>15, <2>17 DEF Standing, Ordered
      <3>2. InOrder(Joined(g, y))
        BY <2>15, <2>16, <3>1, StatusOut
      <3> QED BY <2>5, <2>11, <2>12, <2>16, <3>2 DEF Ordered, Over
    <2>18. Answers(s, Out(e, n), e)
      <3>1. Puts(o, Joined(g, y), "status", 0)
        <4>1. PICK z \in OutTokens : z = Token("status", 0)
          <5>1. Token("status", 0) \in OutTokens
            BY OutToken
          <5> QED BY <5>1, Zenon
        <4>2. Joined(g, Append(q, z)) = Append(Joined(g, q), z)
          BY OutAppend
        <4> QED BY <2>15, <2>16, <4>1, <4>2 DEF Puts
      <3>2. /\ \A u, i : Has(o, u, i) => Has(Joined(g, y), u, i)
            /\ \A u, i : Has(Joined(g, y), u, i) => Has(o, u, i) \/ (u = "status" /\ i = 0)
        BY <3>1, HasAppend
      <3>3. Answers(s, o, d) /\ d.state.tag # "SendPayload"
        BY <2>1, <2>15 DEF Standing, NoState
      <3>4. \A i \in 1..Len(s) : Has(Joined(g, y), "status", i) => Has(o, "status", i)
        BY <3>2
      <3>5. Answers(s, Joined(g, y), e)
        BY <3>2, <3>3, <3>4, AnswersStep
      <3> QED BY <2>16, <3>5
    <2>19. Standing(s, w, e, n)
      BY <2>14, <2>17, <2>18 DEF Standing
    <2> QED BY <2>5, <2>10, <2>19, GoesOn
  <1>12. Keeps(d, k, Clock) \/ Abandons(d, k) \/ TimesOut(d, k) \/ Retires(d, k) \/ Expires(d, b, k)
    BY <1>2, <1>3, <1>4, KeepAliveFacts, Zenon
  <1> QED BY <1>7, <1>8, <1>9, <1>10, <1>11, <1>12, Zenon

-----------------------------------------------------------------------------
(* read_available. *)

\* poll_request begins to decode, or returns at once.
LEMMA PollRequestStep ==
  ASSUME NEW s, NEW w, NEW d, NEW n, Connected(s, w, d, n), NEW caller \in {"poll", "response"},
         NEW e, e = PollRequest(d, caller)
  PROVE  /\ Connected(s, w, e, n) /\ Keeps(d, e, {"ret", "updated", "pc", "fresh", "rq"})
         /\ \A i \in 1..Len(s) : e.rq[i].go = d.rq[i].go
         /\ \/ e.pc = "decode" /\ "READ_DISCONNECT" \notin d.flags /\ e.ret = caller
            \/ caller = "poll" /\ e.pc = "eof"
            \/ caller # "poll" /\ e.pc = "flush"
  <1>1. DispType(s, d) /\ NetType(s, n) /\ Bodies(s, w, d, n)
    BY DEF Connected
  <1>2. /\ Keeps(d, e, {"ret", "updated", "pc", "fresh", "rq"}) /\ Tasks(e.rq, s)
        /\ \A i \in 1..Len(s) : SameTask(d.rq[i], e.rq[i]) /\ e.rq[i].go = d.rq[i].go
        /\ \/ e.pc = "decode" /\ "READ_DISCONNECT" \notin d.flags /\ e.ret = caller
           \/ e.pc = IF caller = "poll" THEN "eof" ELSE "flush"
    BY <1>1, PollRequestFacts
  <1>3. /\ IsDisp(e) /\ e.readBuf = d.readBuf /\ e.messages = d.messages /\ e.writeBuf = d.writeBuf
        /\ e.payload = d.payload /\ e.error = d.error /\ e.eof = d.eof /\ e.state = d.state
    BY <1>2 DEF Keeps, Fields
  <1>4. Attentive(s, d, e)
    BY <1>2 DEF Attentive
  <1>5. MessagesType(s, e.messages) /\ e.writeBuf \in Seq(OutTokens) /\ StateOf(e.state, s)
    BY <1>1, <1>3, TypeParts
  <1>6. /\ e.eof => n.peer # "open"
        /\ Admitted(s, e.state)
    BY <1>1, <1>3 DEF Bodies
  <1>7. Connected(s, w, e, n)
    BY <1>1, <1>2, <1>3, <1>4, <1>5, <1>6, StepConnected
  <1> QED BY <1>2, <1>7

\* h is g followed by i.
Chained(g, i, h) ==
  /\ Len(h) = Len(g) + Len(i) /\ Len(g) \in Nat /\ Len(i) \in Nat
  /\ \A j \in 1..Len(g) : h[j] = g[j]
  /\ \A j \in 1..Len(i) : h[Len(g) + j] = i[j]

LEMMA Concat ==
  ASSUME NEW A, NEW g \in Seq(A), NEW i \in Seq(A)
  PROVE  g \o i \in Seq(A) /\ Chained(g, i, g \o i)
  BY DEF Chained

\* The kernel's bytes come to the read buffer.
Empties(n, m) == m = [n EXCEPT !.sock = << >>]
Filled(d, n, e) ==
  Keeps(d, e, {"readBuf", "eof"}) /\ e.readBuf = d.readBuf \o n.sock /\ (e.eof => n.peer # "open")

\* Moving bytes from the kernel to read_buf keeps the connection's wire and bodies.
LEMMA BytesRead ==
  ASSUME NEW s, NEW w, NEW d, NEW n, Connected(s, w, d, n),
         NEW m, Empties(n, m),
         NEW e, Filled(d, n, e)
  PROVE  Connected(s, w, e, m) /\ Taken(e, m) = Taken(d, n) /\ m.got = n.got /\ m.peer = n.peer
  <1>1. Carries(s, w) /\ DispType(s, d) /\ NetType(s, n) /\ WireRead(w, d, n) /\ Bodies(s, w, d, n)
    BY DEF Connected
  <1>2. /\ m.sock = << >> /\ m.sent = n.sent /\ m.got = n.got /\ m.peer = n.peer /\ IsNet(m)
    BY <1>1 DEF Empties, NetType, IsNet, NetFields
  <1>3. PICK b \in Seq(InTokens(s)), k \in Seq(InTokens(s)) : b = d.readBuf /\ k = n.sock
    BY <1>1 DEF NetType, DispType
  <1>4. PICK h : h = b \o k /\ h = e.readBuf
    BY <1>3 DEF Filled
  <1>5. /\ h \in Seq(InTokens(s)) /\ Len(h) = Len(b) + Len(k) /\ Len(b) \in Nat /\ Len(k) \in Nat
        /\ \A j \in 1..Len(b) : h[j] = b[j]
        /\ \A j \in 1..Len(k) : h[Len(b) + j] = k[j]
    <2>1. PICK A : A = InTokens(s)
      OBVIOUS
    <2>2. b \in Seq(A) /\ k \in Seq(A)
      BY <2>1
    <2>3. b \o k \in Seq(A) /\ Chained(b, k, b \o k)
      BY <2>2, Concat
    <2>4. h \in Seq(A) /\ Chained(b, k, h)
      BY <1>4, <2>3, Zenon
    <2> QED BY <2>1, <2>4 DEF Chained
  <1>6. PICK T \in Nat, a \in Nat : /\ T = Taken(d, n) /\ a = n.sent /\ T = a - Len(k) - Len(b)
                                    /\ a \in 0..Len(w)
                                    /\ \A j \in 1..Len(b) : b[j] = w[T + j]
                                    /\ \A j \in 1..Len(k) : k[j] = w[a - Len(k) + j]
    <2>1. n.sent \in 0..Len(w) /\ Taken(d, n) \in Nat
      BY <1>1 DEF WireRead
    <2>2. /\ \A j \in 1..Len(b) : b[j] = w[Taken(d, n) + j]
          /\ \A j \in 1..Len(k) : k[j] = w[n.sent - Len(k) + j]
      BY <1>1, <1>3 DEF WireRead
    <2>3. n.sent \in Nat
      BY <1>1 DEF NetType
    <2>4. Taken(d, n) = n.sent - Len(k) - Len(b)
      BY <1>3 DEF Taken
    <2> QED BY <2>1, <2>2, <2>3, <2>4
  <1>7. Taken(e, m) = T
    <2>1. Taken(e, m) = a - Len(m.sock) - Len(h)
      BY <1>2, <1>4, <1>6 DEF Taken
    <2>2. Len(m.sock) = 0
      BY <1>2
    <2> QED BY <1>5, <1>6, <2>1, <2>2
  <1>8. \A j \in 1..Len(h) : h[j] = w[T + j]
    <2> SUFFICES ASSUME NEW j \in 1..Len(h)
                 PROVE  h[j] = w[T + j]
      OBVIOUS
    <2>1. CASE j <= Len(b)
      BY <1>5, <1>6, <2>1
    <2>2. CASE j > Len(b)
      <3>1. PICK i \in 1..Len(k) : j = Len(b) + i
        <4>1. j - Len(b) \in 1..Len(k) /\ j = Len(b) + (j - Len(b))
          BY <1>5, <2>2
        <4> QED BY <4>1
      <3>2. a - Len(k) + i = T + j
        <4>1. PICK x \in Nat, y \in Nat : x = Len(b) /\ y = Len(k)
          BY <1>5
        <4>2. i \in Nat /\ j = x + i /\ T = a - y - x
          BY <1>6, <3>1, <4>1
        <4>3. a - y + i = T + j
          BY <4>2
        <4> QED BY <4>1, <4>3
      <3>3. h[j] = k[i] /\ k[i] = w[a - Len(k) + i]
        BY <1>5, <1>6, <3>1
      <3> QED BY <3>2, <3>3
    <2> QED BY <1>5, <2>1, <2>2
  <1>9. WireRead(w, e, m)
    <2>1. \A j \in 1..Len(m.sock) : m.sock[j] = w[m.sent - Len(m.sock) + j]
      BY <1>2
    <2> QED BY <1>2, <1>4, <1>6, <1>7, <1>8, <2>1 DEF WireRead
  <1>10. NetType(s, m)
    BY <1>1, <1>2 DEF NetType
  <1>11. /\ IsDisp(e) /\ e.rq = d.rq /\ e.messages = d.messages /\ e.writeBuf = d.writeBuf
         /\ e.payload = d.payload /\ e.error = d.error /\ e.state = d.state
         /\ (e.eof => n.peer # "open")
    BY DEF Filled, Keeps, Fields
  <1>12. DispType(s, e)
    BY <1>1, <1>4, <1>5, <1>11, TypeParts
  <1>13. Bodies(s, w, e, m)
    <2>1. Tasks(d.rq, s) /\ d.payload \in 0..Len(s)
      BY <1>1, TypeParts
    <2>2. Attentive(s, d, e)
      BY <1>1, <1>11, SameTasks
    <2>3. Admitted(s, e.state)
      BY <1>1, <1>11 DEF Bodies
    <2> QED BY <1>1, <1>2, <1>6, <1>7, <1>11, <2>1, <2>2, <2>3, BodiesKept, ZenonT(60)
  <1> QED BY <1>1, <1>2, <1>6, <1>7, <1>9, <1>10, <1>12, <1>13 DEF Connected

\* read_available and the beginning of poll_request.
LEMMA ReadStep ==
  ASSUME NEW s, NEW w, NEW d, NEW n, Connected(s, w, d, n), Standing(s, w, d, n), d.outcome = "open",
         d.pc = "read", NEW f, NEW m, Connected(s, w, f, m), Keeps(d, f, {"readBuf", "eof"}),
         Taken(f, m) = Taken(d, n), m.got = n.got, NEW e, e = PollRequest(f, "poll")
  PROVE  Sound(s, w, e, m)
  <1>1. /\ Connected(s, w, e, m) /\ Keeps(f, e, {"ret", "updated", "pc", "fresh", "rq"})
        /\ \A i \in 1..Len(s) : e.rq[i].go = f.rq[i].go
        /\ (e.pc = "decode" /\ "READ_DISCONNECT" \notin f.flags /\ e.ret = "poll") \/ e.pc = "eof"
    <2>1. PICK c \in {"poll", "response"} : c = "poll"
      OBVIOUS
    <2>2. e = PollRequest(f, c)
      BY <2>1
    <2>3. /\ Connected(s, w, e, m) /\ Keeps(f, e, {"ret", "updated", "pc", "fresh", "rq"})
          /\ \A i \in 1..Len(s) : e.rq[i].go = f.rq[i].go
          /\ \/ e.pc = "decode" /\ "READ_DISCONNECT" \notin f.flags /\ e.ret = c
             \/ c = "poll" /\ e.pc = "eof"
             \/ c # "poll" /\ e.pc = "flush"
      BY <2>2, PollRequestStep
    <2> QED BY <2>1, <2>3
  <1>2. /\ e.flags = d.flags /\ e.state = d.state /\ e.messages = d.messages /\ e.error = d.error
        /\ e.writeBuf = d.writeBuf /\ e.outcome = "open" /\ f.flags = d.flags /\ f.rq = d.rq
        /\ e.readBuf = f.readBuf
    BY <1>1 DEF Keeps, Fields
  <1>3. Flow(d)
    BY DEF Standing
  <1>4. "SHUTDOWN" \notin d.flags
    BY <1>3 DEF Flow
  <1>5. Flow(e)
    BY <1>1, <1>2, <1>3, <1>4, FlowKept DEF SameFlags
  <1>6. Out(e, m) = Out(d, n) /\ Reached(w, e, m) = Reached(w, d, n) /\ Forth(s, d, e)
    BY <1>1, <1>2 DEF Out, Reached, Taken, Forth
  <1>7. Standing(s, w, e, m)
    BY <1>2, <1>5, <1>6, StandingKept
  <1> QED BY <1>1, <1>2, <1>7, GoesOn

-----------------------------------------------------------------------------
(* The end of what is read, flushing and the end of a turn. *)

\* ReadEof, as a function of the dispatcher.
EofOf(d) == Goto(IF d.eof THEN FeedEof(Flagged(d, {"READ_DISCONNECT"})) ELSE d, "respond")

\* Flagged.
LEMMA FlaggedFacts ==
  ASSUME NEW d, IsDisp(d), NEW x, NEW e, e = Flagged(d, x)
  PROVE  Keeps(d, e, {"flags"}) /\ e.flags = d.flags \cup x
  BY DEF Flagged, Keeps, IsDisp, Fields

\* The end of the stream keeps a connection sound.
LEMMA EofStep ==
  ASSUME NEW s, NEW w, NEW d, NEW n, Connected(s, w, d, n), Standing(s, w, d, n), d.outcome = "open",
         d.pc = "eof", NEW e, e = EofOf(d)
  PROVE  Sound(s, w, e, n)
  <1>1. DispType(s, d) /\ Bodies(s, w, d, n) /\ IsDisp(d)
    BY DEF Connected, DispType
  <1>2. Flow(d) /\ "SHUTDOWN" \notin d.flags
    BY DEF Standing, Flow
  <1>3. CASE d.eof
    <2>1. PICK f : f = Flagged(d, {"READ_DISCONNECT"})
      OBVIOUS
    <2>2. Keeps(d, f, {"flags"}) /\ f.flags = d.flags \cup {"READ_DISCONNECT"}
      BY <1>1, <2>1, FlaggedFacts
    <2>3. Connected(s, w, f, n)
      <3>1. Keeps(d, f, Aside)
        BY <2>2 DEF Keeps, Fields, Aside
      <3> QED BY <3>1, AsideStep
    <2>4. PICK g : g = FeedEof(f)
      OBVIOUS
    <2>5. Connected(s, w, g, n) /\ DispType(s, f)
      BY <1>1, <1>3, <2>3, <2>4, ReadEofBodies DEF Bodies, Connected
    <2>6. /\ Keeps(f, g, {"rq", "payload"})
          /\ \A i \in 1..Len(s) : g.rq[i].go = f.rq[i].go
      <3>1. /\ Keeps(f, g, {"rq", "payload"}) /\ (f.payload = 0 => g.rq = f.rq)
            /\ f.payload # 0 => /\ OnlyTask(s, f, g, f.payload)
                                /\ KeepsTask(f.rq[f.payload], g.rq[f.payload], {"eof"})
        BY <2>4, <2>5, FeedEofFacts
      <3>2. f.payload # 0 => g.rq[f.payload].go = f.rq[f.payload].go
        BY <3>1 DEF KeepsTask, TaskFields
      <3> QED BY <3>1, <3>2 DEF OnlyTask
    <2>7. e = Goto(g, "respond")
      BY <1>3, <2>1, <2>4 DEF EofOf
    <2>8. Keeps(g, e, {"pc"}) /\ e.pc = "respond"
      BY <2>6, <2>7, GotoFacts DEF Keeps
    <2>9. Connected(s, w, e, n)
      <3>1. Keeps(g, e, Aside)
        BY <2>8 DEF Keeps, Fields, Aside
      <3> QED BY <2>5, <3>1, AsideStep
    <2>10. /\ e.flags = d.flags \cup {"READ_DISCONNECT"} /\ e.state = d.state /\ e.messages = d.messages
           /\ e.error = d.error /\ e.writeBuf = d.writeBuf /\ e.outcome = "open" /\ e.rq = g.rq
           /\ e.readBuf = d.readBuf /\ f.rq = d.rq
      BY <2>2, <2>6, <2>8 DEF Keeps, Fields
    <2>11. Flow(e)
      BY <1>2, <2>8, <2>10 DEF Flow
    <2>12. Out(e, n) = Out(d, n) /\ Reached(w, e, n) = Reached(w, d, n) /\ Forth(s, d, e)
      BY <2>6, <2>10 DEF Out, Reached, Taken, Forth
    <2>13. Standing(s, w, e, n)
      BY <2>8, <2>10, <2>11, <2>12, StandingKept
    <2> QED BY <2>9, <2>10, <2>13, GoesOn
  <1>4. CASE ~d.eof
    <2>1. Keeps(d, e, {"pc"}) /\ e.pc = "respond"
      BY <1>1, <1>4, GotoFacts DEF EofOf
    <2>2. /\ Keeps(d, e, Aside) /\ e.flags = d.flags /\ e.state = d.state /\ e.messages = d.messages
          /\ e.error = d.error /\ e.writeBuf = d.writeBuf /\ e.outcome = "open" /\ e.rq = d.rq
          /\ e.readBuf = d.readBuf
      BY <2>1 DEF Keeps, Fields, Aside
    <2>3. Connected(s, w, e, n)
      BY <2>2, AsideStep
    <2>4. Flow(e)
      BY <1>2, <2>1, <2>2, FlowKept DEF SameFlags
    <2>5. Out(e, n) = Out(d, n) /\ Reached(w, e, n) = Reached(w, d, n) /\ Forth(s, d, e)
      BY <2>2 DEF Out, Reached, Taken, Forth
    <2>6. Standing(s, w, e, n)
      BY <2>1, <2>2, <2>4, <2>5, StandingKept
    <2> QED BY <2>2, <2>3, <2>6, GoesOn
  <1> QED BY <1>3, <1>4

\* A part of the write buffer, or all of it, is taken by the kernel.
Flushes(d, n, e, m) ==
  /\ Keeps(d, e, {"writeBuf", "pc", "outcome"}) /\ IsNet(m) /\ e.writeBuf \in Seq(OutTokens)
  /\ m.got \in Seq(OutTokens) /\ Out(e, m) = Out(d, n)
  /\ m.sent = n.sent /\ m.sock = n.sock /\ m.peer = n.peer

\* A flush keeps types, wire and bodies.
LEMMA FlushConnected ==
  ASSUME NEW s, NEW w, NEW d, NEW n, Connected(s, w, d, n), NEW e, NEW m, Flushes(d, n, e, m)
  PROVE  Connected(s, w, e, m) /\ Reached(w, e, m) = Reached(w, d, n)
  <1>1. DispType(s, d) /\ NetType(s, n) /\ Bodies(s, w, d, n)
    BY DEF Connected
  <1>2. /\ IsDisp(e) /\ e.rq = d.rq /\ e.readBuf = d.readBuf /\ e.messages = d.messages
        /\ e.payload = d.payload /\ e.error = d.error /\ e.eof = d.eof /\ e.state = d.state
    BY DEF Keeps, Fields, Flushes
  <1>3. Tasks(e.rq, s) /\ Attentive(s, d, e)
    BY <1>1, <1>2, SameTasks
  <1>4. MessagesType(s, e.messages) /\ StateOf(e.state, s)
    BY <1>1, <1>2, TypeParts
  <1>5. /\ e.eof => n.peer # "open"
        /\ Admitted(s, e.state)
    BY <1>1, <1>2 DEF Bodies
  <1>6. NetType(s, m) /\ m.sent = n.sent /\ m.sock = n.sock /\ m.peer = n.peer /\ e.writeBuf \in Seq(OutTokens)
    BY <1>1 DEF Flushes, NetType
  <1>7. Connected(s, w, e, m)
    BY <1>1, <1>2, <1>3, <1>4, <1>5, <1>6, StepConnected
  <1>8. Reached(w, e, m) = Reached(w, d, n)
    BY <1>2, <1>6 DEF Reached, Taken
  <1> QED BY <1>7, <1>8

\* What poll_flush does before it goes on.
LEMMA FlushAll ==
  ASSUME NEW s, NEW d, NEW n, DispType(s, d), NetType(s, n),
         NEW m, m = [n EXCEPT !.got = @ \o d.writeBuf, !.blocked = FALSE],
         NEW e, e = [d EXCEPT !.writeBuf = << >>]
  PROVE  Flushes(d, n, e, m) /\ e.writeBuf = << >> /\ Keeps(d, e, {"writeBuf"})
  <1>1. PICK g \in Seq(OutTokens), b \in Seq(OutTokens) : g = n.got /\ b = d.writeBuf
    BY DEF DispType, NetType
  <1>2. PICK h : h = g \o b
    OBVIOUS
  <1>3. IsNet(m) /\ m.got = h /\ m.sent = n.sent /\ m.sock = n.sock /\ m.peer = n.peer
    BY <1>1, <1>2 DEF NetType, IsNet, NetFields
  <1>4. Keeps(d, e, {"writeBuf"}) /\ e.writeBuf = << >>
    BY DEF DispType, IsDisp, Keeps, Fields
  <1>5. h \in Seq(OutTokens)
    BY <1>1, <1>2, Concat
  <1>6. h \o << >> = h
    BY <1>5
  <1>7. Out(e, m) = Out(d, n)
    BY <1>1, <1>2, <1>3, <1>4, <1>6 DEF Out, Joined
  <1>8. Keeps(d, e, {"writeBuf", "pc", "outcome"}) /\ e.writeBuf \in Seq(OutTokens)
    BY <1>4 DEF Keeps
  <1> QED BY <1>3, <1>4, <1>5, <1>7, <1>8 DEF Flushes

\* The kernel takes a part.
LEMMA FlushPart ==
  ASSUME NEW s, NEW d, NEW n, DispType(s, d), NetType(s, n), NEW k \in 0..Len(d.writeBuf) - 1,
         NEW m, m = [n EXCEPT !.got = @ \o SubSeq(d.writeBuf, 1, k), !.blocked = TRUE],
         NEW e, e = [d EXCEPT !.writeBuf = SubSeq(@, k + 1, Len(@))]
  PROVE  Flushes(d, n, e, m) /\ d.writeBuf # << >> /\ Keeps(d, e, {"writeBuf"})
  <1>1. PICK g \in Seq(OutTokens), b \in Seq(OutTokens) : g = n.got /\ b = d.writeBuf
    BY DEF DispType, NetType
  <1>2. PICK x, y : x = SubSeq(b, 1, k) /\ y = SubSeq(b, k + 1, Len(b))
    OBVIOUS
  <1>3. /\ x \in Seq(OutTokens) /\ y \in Seq(OutTokens) /\ g \o x \in Seq(OutTokens)
        /\ Joined(g \o x, y) = Joined(g, b)
    BY <1>1, <1>2, OutFlush, ZenonT(60)
  <1>4. PICK h : h = g \o x
    OBVIOUS
  <1>5. m = [n EXCEPT !.got = h, !.blocked = TRUE] /\ e = [d EXCEPT !.writeBuf = y]
    BY <1>1, <1>2, <1>4
  <1>6. IsNet(m) /\ m.got = h /\ m.sent = n.sent /\ m.sock = n.sock /\ m.peer = n.peer
    BY <1>5 DEF NetType, IsNet, NetFields
  <1>7. Keeps(d, e, {"writeBuf"}) /\ e.writeBuf = y
    BY <1>5 DEF DispType, IsDisp, Keeps, Fields
  <1>8. Out(e, m) = Out(d, n)
    BY <1>1, <1>3, <1>4, <1>6, <1>7 DEF Out
  <1>9. Keeps(d, e, {"writeBuf", "pc", "outcome"})
    BY <1>7 DEF Keeps
  <1>10. d.writeBuf # << >>
    <2>1. Len(b) # 0
      BY <1>1
    <2> QED BY <1>1, <2>1
  <1> QED BY <1>3, <1>4, <1>6, <1>7, <1>8, <1>9, <1>10 DEF Flushes

\* poll_flush in the middle of a turn keeps a connection sound.
LEMMA FlushStep ==
  ASSUME NEW s, NEW w, NEW d, NEW n, Connected(s, w, d, n), Standing(s, w, d, n), d.outcome = "open",
         d.pc = "flush", NEW e, NEW m, Flushes(d, n, e, m), d.writeBuf = << >> => e.writeBuf = << >>,
         e.pc \in {"respond", "end"}, e.outcome = "open"
  PROVE  Sound(s, w, e, m)
  <1>1. Connected(s, w, e, m) /\ Reached(w, e, m) = Reached(w, d, n)
    BY FlushConnected
  <1>2. /\ e.flags = d.flags /\ e.state = d.state /\ e.messages = d.messages /\ e.error = d.error /\ e.rq = d.rq
        /\ Out(e, m) = Out(d, n)
    BY DEF Flushes, Keeps, Fields
  <1>3. Flow(d) /\ "SHUTDOWN" \notin d.flags
    BY DEF Standing, Flow
  <1>4. Flow(e)
    BY <1>2, <1>3, FlowKept DEF SameFlags
  <1>5. Forth(s, d, e)
    BY <1>2 DEF Forth
  <1>6. Standing(s, w, e, m)
    BY <1>1, <1>2, <1>4, <1>5, StandingKept
  <1> QED BY <1>1, <1>6, GoesOn

\* The last flush, and the end of the connection.
LEMMA ShutdownStep ==
  ASSUME NEW s, NEW w, NEW d, NEW n, Connected(s, w, d, n), Standing(s, w, d, n), d.outcome = "open",
         d.pc = "shutdown", NEW e, NEW m, Flushes(d, n, e, m), d.writeBuf = << >> => e.writeBuf = << >>,
         \/ e.outcome = "ok" /\ (e.writeBuf = << >> \/ d.error)
         \/ e.outcome = "open" /\ e.pc = "idle"
  PROVE  Sound(s, w, e, m)
  <1>1. Connected(s, w, e, m) /\ Reached(w, e, m) = Reached(w, d, n)
    BY FlushConnected
  <1>2. /\ e.flags = d.flags /\ e.state = d.state /\ e.messages = d.messages /\ e.error = d.error /\ e.rq = d.rq
        /\ Out(e, m) = Out(d, n)
    BY DEF Flushes, Keeps, Fields
  <1>3. Flow(d) /\ "SHUTDOWN" \in d.flags /\ d.state = NoState
    BY DEF Standing, Flow
  <1>4. CASE e.outcome = "open" /\ e.pc = "idle"
    <2>1. Flow(e)
      BY <1>2, <1>3, <1>4, FlowKept DEF SameFlags
    <2>2. Forth(s, d, e)
      BY <1>2 DEF Forth
    <2>3. Standing(s, w, e, m)
      BY <1>1, <1>2, <2>1, <2>2, StandingKept
    <2> QED BY <1>1, <1>4, <2>3, GoesOn
  <1>5. CASE e.outcome = "ok" /\ (e.writeBuf = << >> \/ d.error)
    <2>1. Pipelined(s) => InOrder(Out(e, m))
      BY <1>2 DEF Standing, Ordered
    <2>2. Whole(s, e, m)
      <3>1. SUFFICES ASSUME Unbroken(s), ~e.error
                     PROVE  /\ e.messages = << >> /\ e.state = NoState /\ e.writeBuf = << >>
                            /\ Answers(s, m.got, e)
        BY DEF Whole
      <3>2. e.messages = << >> /\ e.state = NoState /\ e.writeBuf = << >>
        BY <1>2, <1>3, <1>5, <3>1 DEF Standing, Quits
      <3>3. PICK g \in Seq(OutTokens) : g = m.got
        BY DEF Flushes
      <3>4. g \o << >> = g
        OBVIOUS
      <3>5. Out(d, n) = g
        BY <1>2, <3>2, <3>3, <3>4 DEF Out, Joined
      <3>6. Answers(s, g, d)
        BY <3>5 DEF Standing
      <3> QED BY <1>2, <3>2, <3>3, <3>6 DEF Answers, Done
    <2> QED BY <1>1, <1>5, <2>1, <2>2 DEF Sound
  <1> QED BY <1>4, <1>5

\* A step to the end of the turn.
Turned(d, e, f, p, o) == e = [d EXCEPT !.flags = f, !.pc = p, !.outcome = o]

LEMMA TurnedFacts ==
  ASSUME NEW s, NEW w, NEW d, NEW n, Connected(s, w, d, n),
         NEW e, NEW f, NEW p, NEW o, Turned(d, e, f, p, o)
  PROVE  /\ e.flags = f /\ e.pc = p /\ e.outcome = o
         /\ Connected(s, w, e, n) /\ Out(e, n) = Out(d, n) /\ e.rq = d.rq
         /\ e.state = d.state /\ e.messages = d.messages /\ e.error = d.error
         /\ e.writeBuf = d.writeBuf /\ Reached(w, e, n) = Reached(w, d, n)
  <1>1. IsDisp(d)
    BY DEF Connected, DispType
  <1>2. Keeps(d, e, {"flags", "pc", "outcome"}) /\ e.flags = f /\ e.pc = p /\ e.outcome = o
    BY <1>1 DEF Turned, Keeps, IsDisp, Fields
  <1>3. /\ e.rq = d.rq /\ e.state = d.state /\ e.messages = d.messages /\ e.error = d.error
        /\ e.writeBuf = d.writeBuf /\ e.readBuf = d.readBuf /\ Keeps(d, e, Aside)
    BY <1>2 DEF Keeps, Fields, Aside
  <1>4. Connected(s, w, e, n)
    BY <1>3, AsideStep
  <1> QED BY <1>2, <1>3, <1>4 DEF Out, Reached, Taken

\* The end of a turn keeps a connection sound.
LEMMA EndStep ==
  ASSUME NEW s, NEW w, NEW d, NEW n, Connected(s, w, d, n), Standing(s, w, d, n), d.outcome = "open",
         d.pc = "end", NEW e, e = EndTurn(d)
  PROVE  Sound(s, w, e, n)
  <1>1. IsDisp(d) /\ Flow(d) /\ "SHUTDOWN" \notin d.flags
    BY DEF Connected, DispType, Standing, Flow
  <1>2. CASE "WRITE_DISCONNECT" \in d.flags
    <2>1. e = Ended(d, "ok")
      BY <1>2 DEF EndTurn
    <2>2. Turned(d, e, d.flags, d.pc, "ok")
      BY <1>1, <2>1 DEF Turned, Ended, IsDisp, Fields
    <2>3. d.error
      BY <1>1, <1>2 DEF Flow
    <2>4. Connected(s, w, e, n) /\ Out(e, n) = Out(d, n) /\ e.outcome = "ok" /\ e.error
      BY <2>2, <2>3, TurnedFacts
    <2> QED BY <2>4, EndsOther
  <1>3. CASE "WRITE_DISCONNECT" \notin d.flags /\ d.state # NoState
    <2>1. e = Goto(d, "idle")
      BY <1>3 DEF EndTurn
    <2>2. Turned(d, e, d.flags, "idle", "open")
      BY <1>1, <2>1 DEF Turned, Goto, IsDisp, Fields
    <2>3. /\ e.flags = d.flags /\ e.pc = "idle" /\ e.outcome = "open"
          /\ Connected(s, w, e, n) /\ Out(e, n) = Out(d, n) /\ e.rq = d.rq
          /\ e.state = d.state /\ e.messages = d.messages /\ e.error = d.error
          /\ e.writeBuf = d.writeBuf /\ Reached(w, e, n) = Reached(w, d, n)
      BY <2>2, TurnedFacts
    <2>4. Flow(e)
      BY <1>1, <2>3, FlowKept DEF SameFlags
    <2>5. Forth(s, d, e)
      BY <2>3 DEF Forth
    <2>6. Standing(s, w, e, n)
      BY <2>3, <2>4, <2>5, StandingKept
    <2> QED BY <2>3, <2>6, GoesOn
  <1>4. CASE "WRITE_DISCONNECT" \notin d.flags /\ d.state = NoState
    <2>1. PICK z : z = IF "READ_DISCONNECT" \in d.flags THEN Flagged(d, {"SHUTDOWN"}) ELSE d
      OBVIOUS
    <2>2. PICK f : /\ f = (IF "READ_DISCONNECT" \in d.flags THEN d.flags \cup {"SHUTDOWN"} ELSE d.flags)
      OBVIOUS
    <2>3. z = [d EXCEPT !.flags = f]
      BY <1>1, <2>1, <2>2 DEF Flagged, IsDisp, Fields
    <2>4. PICK x, p, o :
            /\ Turned(d, e, x, p, o)
            /\ \/ x = f /\ p = "idle" /\ o = "open" /\ d.writeBuf # << >>
               \/ o = "error"
               \/ x = f \cup {"SHUTDOWN"} /\ p = "poll" /\ o = "open" /\ "STARTED" \in f
               \/ x = f /\ p \in {"poll", "idle"} /\ o = "open"
      <3>1. z.flags = f /\ IsDisp(z) /\ z.outcome = "open" /\ z.pc = d.pc
        BY <1>1, <2>3 DEF IsDisp, Fields
      <3>2. CASE d.writeBuf # << >>
        <4>1. e = Goto(z, "idle")
          BY <1>4, <2>1, <3>2 DEF EndTurn
        <4>2. Turned(d, e, f, "idle", "open")
          BY <1>1, <2>3, <4>1 DEF Turned, Goto, IsDisp, Fields
        <4> QED BY <3>2, <4>2
      <3>3. CASE d.writeBuf = << >> /\ d.error
        <4>1. e = Ended(z, "error")
          BY <1>4, <2>1, <3>3 DEF EndTurn
        <4>2. Turned(d, e, f, d.pc, "error")
          BY <1>1, <2>3, <4>1 DEF Turned, Ended, IsDisp, Fields
        <4> QED BY <4>2
      <3>4. CASE /\ d.writeBuf = << >> /\ ~d.error /\ "STARTED" \in f /\ "KEEPALIVE" \notin f
        <4>1. e = Goto(Flagged(z, {"SHUTDOWN"}), "poll")
          BY <1>4, <2>1, <3>1, <3>4 DEF EndTurn
        <4>2. Turned(d, e, f \cup {"SHUTDOWN"}, "poll", "open")
          BY <1>1, <2>3, <3>1, <4>1, ZenonT(60) DEF Turned, Goto, Flagged, IsDisp, Fields
        <4> QED BY <3>4, <4>2
      <3>5. CASE /\ d.writeBuf = << >> /\ ~d.error /\ ~("STARTED" \in f /\ "KEEPALIVE" \notin f)
        <4>1. PICK p \in {"poll", "idle"} : e = Goto(z, p)
          <5>1. e = Goto(z, IF "SHUTDOWN" \in z.flags THEN "poll" ELSE "idle")
            BY <1>4, <2>1, <3>1, <3>5 DEF EndTurn
          <5> QED BY <5>1
        <4>2. Turned(d, e, f, p, "open")
          BY <1>1, <2>3, <4>1 DEF Turned, Goto, IsDisp, Fields
        <4> QED BY <4>2
      <3> QED BY <3>2, <3>3, <3>4, <3>5
    <2>5. /\ e.flags = x /\ e.pc = p /\ e.outcome = o
          /\ Connected(s, w, e, n) /\ Out(e, n) = Out(d, n) /\ e.rq = d.rq
          /\ e.state = d.state /\ e.messages = d.messages /\ e.error = d.error
          /\ e.writeBuf = d.writeBuf /\ Reached(w, e, n) = Reached(w, d, n)
      BY <2>4, TurnedFacts
    <2>6. CASE o = "error"
      BY <2>5, <2>6, EndsOther
    <2>7. CASE o = "open" /\ "SHUTDOWN" \in x
      <3>1. "STARTED" \in x \/ d.messages = << >>
        BY <1>1, <2>2, <2>4, <2>7 DEF Flow
      <3>2. /\ "READ_DISCONNECT" \in d.flags => "READ_DISCONNECT" \in x
            /\ "WRITE_DISCONNECT" \notin x /\ p \in {"poll", "idle"}
        BY <1>4, <2>2, <2>4, <2>7
      <3> QED BY <1>4, <2>5, <2>7, <3>1, <3>2, ShutsDown
    <2>8. CASE o = "open" /\ "SHUTDOWN" \notin x
      <3>1. x = d.flags /\ p \in {"idle", "poll"}
        BY <1>1, <2>2, <2>4, <2>8
      <3>2. Flow(e)
        BY <1>1, <2>5, <3>1, FlowKept DEF SameFlags
      <3>3. Forth(s, d, e)
        BY <2>5, <3>1 DEF Forth
      <3>4. Standing(s, w, e, n)
        BY <2>5, <2>8, <3>2, <3>3, StandingKept
      <3> QED BY <2>5, <2>8, <3>4, GoesOn
    <2> QED BY <2>4, <2>6, <2>7, <2>8
  <1> QED BY <1>2, <1>3, <1>4

-----------------------------------------------------------------------------
(* poll_response. *)

\* The loop ends, with nothing queued that could be taken.
LEMMA BreakStep ==
  ASSUME NEW s, NEW w, NEW d, NEW n, Connected(s, w, d, n), Standing(s, w, d, n), d.outcome = "open",
         d.pc = "respond", d.messages = << >> \/ d.state # NoState, NEW x, NEW e, e = Break(d, x)
  PROVE  Sound(s, w, e, n)
  <1>1. IsDisp(d) /\ Flow(d) /\ "SHUTDOWN" \notin d.flags
    BY DEF Connected, DispType, Standing, Flow
  <1>2. Keeps(d, e, {"pc", "drain"}) /\ e.pc = "flush"
    BY <1>1 DEF Break, Keeps, IsDisp, Fields
  <1>3. /\ e.flags = d.flags /\ e.state = d.state /\ e.messages = d.messages /\ e.error = d.error
        /\ e.rq = d.rq /\ e.writeBuf = d.writeBuf /\ e.readBuf = d.readBuf /\ e.outcome = "open"
        /\ Keeps(d, e, Aside)
    BY <1>2 DEF Keeps, Fields, Aside
  <1>4. Connected(s, w, e, n)
    BY <1>3, AsideStep
  <1>5. Out(e, n) = Out(d, n) /\ Reached(w, e, n) = Reached(w, d, n)
    BY <1>3 DEF Out, Reached, Taken
  <1>6. Flow(e)
    BY <1>1, <1>2, <1>3, FlowKept DEF SameFlags
  <1>7. Forth(s, d, e)
    BY <1>3 DEF Forth
  <1>8. Standing(s, w, e, n)
    BY <1>1, <1>3, <1>5, <1>6, <1>7, StandingKept
  <1> QED BY <1>3, <1>4, <1>8, GoesOn

\* A message leaves the queue.
Takes(d, f) == f = [d EXCEPT !.messages = Tail(@)]

LEMMA TakeMessage ==
  ASSUME NEW s, NEW w, NEW d, NEW n, Connected(s, w, d, n), d.messages # << >>,
         NEW f, Takes(d, f)
  PROVE  /\ Connected(s, w, f, n) /\ Keeps(d, f, {"messages"}) /\ f.messages = Tail(d.messages)
         /\ Out(f, n) = Out(d, n) /\ Reached(w, f, n) = Reached(w, d, n)
  <1>1. DispType(s, d) /\ IsDisp(d)
    BY DEF Connected, DispType
  <1>2. Keeps(d, f, {"messages"}) /\ f.messages = Tail(d.messages)
    BY <1>1 DEF Takes, Keeps, IsDisp, Fields
  <1>3. /\ Keeps(d, f, Aside \cup {"messages", "error"}) /\ f.error = d.error
        /\ f.writeBuf = d.writeBuf /\ f.readBuf = d.readBuf
    BY <1>2 DEF Keeps, Fields, Aside
  <1>4. MessagesType(s, f.messages)
    BY <1>1, <1>2, TypeParts, MessageTaken
  <1>5. Connected(s, w, f, n)
    BY <1>3, <1>4, QuietStep
  <1> QED BY <1>2, <1>3, <1>5 DEF Out, Reached, Taken

\* The request to upgrade that ends the dispatcher.
LEMMA NextUpgrade ==
  ASSUME NEW s, NEW w, NEW d, NEW n, Connected(s, w, d, n), Standing(s, w, d, n), d.messages # << >>,
         NEW f, Takes(d, f), NEW e, e = Ended(f, "upgraded")
  PROVE  Sound(s, w, e, n)
  <1>1. Connected(s, w, f, n) /\ Out(f, n) = Out(d, n)
    BY TakeMessage
  <1>2. IsDisp(f)
    BY <1>1 DEF Connected, DispType
  <1>3. Keeps(f, e, {"outcome"}) /\ e.outcome = "upgraded"
    BY <1>2 DEF Ended, Keeps, IsDisp, Fields
  <1>4. Keeps(f, e, Aside) /\ e.writeBuf = f.writeBuf
    BY <1>3 DEF Keeps, Fields, Aside
  <1>5. Connected(s, w, e, n) /\ Out(e, n) = Out(d, n)
    BY <1>1, <1>4, AsideStep DEF Out
  <1> QED BY <1>3, <1>5, EndsOther

\* What is left of the flow when the first message is taken.
LEMMA FlowTakes ==
  ASSUME NEW s, NEW d, DispType(s, d), Flow(d), d.pc = "respond", d.messages # << >>,
         NEW e, e.messages = Tail(d.messages), SameFlags(d, e), e.error = d.error,
         e.pc \in {"respond", "flush"},
         d.messages[1].t = "error" => e.state = NoState
  PROVE  Flow(e) /\ "SHUTDOWN" \notin e.flags
  <1>1. PICK m : m = d.messages
    OBVIOUS
  <1>2. m \in Seq(Messages(s)) /\ m # << >>
    BY <1>1 DEF DispType
  <1>3. /\ Tail(m) \in Seq(Messages(s)) /\ Len(Tail(m)) = Len(m) - 1 /\ Len(m) \in Nat /\ Len(m) >= 1
        /\ \A k \in 1..Len(Tail(m)) : Tail(m)[k] = m[k + 1]
    BY <1>2, TailFacts, LenFacts
  <1>4. /\ "READ_DISCONNECT" \in e.flags <=> "READ_DISCONNECT" \in d.flags
        /\ "WRITE_DISCONNECT" \in e.flags <=> "WRITE_DISCONNECT" \in d.flags
        /\ "SHUTDOWN" \in e.flags <=> "SHUTDOWN" \in d.flags
        /\ "STARTED" \in e.flags <=> "STARTED" \in d.flags
    BY DEF SameFlags, Signals
  <1>5. "SHUTDOWN" \notin d.flags
    BY DEF Flow
  <1>6. \A k \in 1..Len(e.messages) : e.messages[k].t = "error" => e.error
    <2>1. SUFFICES ASSUME NEW k \in 1..Len(Tail(m)), Tail(m)[k].t = "error"
                   PROVE  e.error
      BY <1>1
    <2>2. m[k + 1].t = "error" /\ k + 1 \in 1..Len(m)
      BY <1>3, <2>1
    <2> QED BY <1>1, <2>2 DEF Flow
  <1>7. "STARTED" \notin e.flags => e.state = NoState /\ e.messages = << >>
    <2>1. SUFFICES ASSUME "STARTED" \notin e.flags
                   PROVE  e.state = NoState /\ e.messages = << >>
      OBVIOUS
    <2>2. Len(m) = 1 /\ m[1].t = "error"
      BY <1>1, <1>2, <1>4, <2>1 DEF Flow
    <2>3. Tail(m) = << >>
      BY <1>3, <2>2, LenFacts
    <2> QED BY <1>1, <2>2, <2>3
  <1>8. "WRITE_DISCONNECT" \in e.flags => e.error
    BY <1>4, <1>5 DEF Flow
  <1> QED BY <1>4, <1>5, <1>6, <1>7, <1>8 DEF Flow

\* An error at the end of the queue is answered.
LEMMA NextError ==
  ASSUME NEW s, NEW w, NEW d, NEW n, Connected(s, w, d, n), Standing(s, w, d, n), d.outcome = "open",
         d.pc = "respond", d.state = NoState, d.messages # << >>, d.messages[1].t = "error",
         NEW f, Takes(d, f), NEW r, r = Responded(f, 0, NoState), NEW e, e = SetState(r)
  PROVE  Sound(s, w, e, n)
  <1>1. DispType(s, d) /\ NetType(s, n) /\ Flow(d)
    BY DEF Connected, Standing
  <1>2. /\ Connected(s, w, f, n) /\ Keeps(d, f, {"messages"}) /\ f.messages = Tail(d.messages)
        /\ Out(f, n) = Out(d, n) /\ Reached(w, f, n) = Reached(w, d, n)
    BY TakeMessage
  <1>3. IsDisp(f)
    BY <1>2 DEF Connected, DispType
  <1>4. /\ Keeps(f, r, {"writeBuf", "flags", "state"}) /\ SameFlags(f, r)
        /\ r.writeBuf = Append(f.writeBuf, Token("status", 0)) /\ r.state = NoState
    BY <1>3, ResponseFacts
  <1>5. Keeps(r, e, {"pc", "drain"}) /\ e.pc = "flush"
    <2>1. e = Break(r, FALSE)
      BY <1>4 DEF SetState
    <2>2. IsDisp(r)
      BY <1>4 DEF Keeps
    <2> QED BY <2>1, <2>2 DEF Break, Keeps, IsDisp, Fields
  <1>6. /\ Keeps(f, e, Aside \cup {"writeBuf", "state"}) /\ SameFlags(d, e)
        /\ e.writeBuf = Append(d.writeBuf, Token("status", 0)) /\ e.state = NoState
        /\ e.messages = Tail(d.messages) /\ e.error = d.error /\ e.rq = d.rq /\ e.outcome = "open"
        /\ e.readBuf = d.readBuf
    <2>1. Keeps(f, e, {"pc", "drain", "writeBuf", "flags", "state"}) /\ e.flags = r.flags
          /\ e.writeBuf = r.writeBuf /\ e.state = r.state
      BY <1>4, <1>5 DEF Keeps, Fields
    <2>2. /\ Keeps(f, e, Aside \cup {"writeBuf", "state"}) /\ e.messages = f.messages /\ e.error = f.error
          /\ e.rq = f.rq /\ e.outcome = f.outcome /\ e.readBuf = f.readBuf
      BY <2>1, <1>5 DEF Keeps, Fields, Aside
    <2>3. /\ f.writeBuf = d.writeBuf /\ f.flags = d.flags /\ f.error = d.error /\ f.rq = d.rq
          /\ f.outcome = d.outcome /\ f.readBuf = d.readBuf
      BY <1>2 DEF Keeps, Fields
    <2>4. SameFlags(d, e)
      BY <1>4, <2>1, <2>3 DEF SameFlags
    <2> QED BY <1>2, <1>4, <2>1, <2>2, <2>3, <2>4
  <1>7. PICK g \in Seq(OutTokens), b \in Seq(OutTokens) : g = n.got /\ b = d.writeBuf
    BY <1>1 DEF DispType, NetType
  <1>8. PICK y : y = e.writeBuf
    OBVIOUS
  <1>9. Token("status", 0) \in OutTokens
    BY OutToken
  <1>10. y = Append(b, Token("status", 0)) /\ y \in Seq(OutTokens)
    <2>1. y = Append(b, Token("status", 0))
      BY <1>6, <1>7, <1>8
    <2> QED BY <1>9, <2>1, AppendFacts
  <1>11. Connected(s, w, e, n)
    <2>1. NoState.tag = "None"
      BY DEF NoState
    <2>2. StateOf(e.state, s) /\ Admitted(s, e.state)
      BY <1>6, <2>1 DEF StateOf, Admitted
    <2> QED BY <1>2, <1>6, <1>7, <1>8, <1>10, <2>2, WriteStep
  <1>12. Flow(e) /\ "SHUTDOWN" \notin e.flags
    BY <1>1, <1>5, <1>6, FlowTakes
  <1>13. Forth(s, d, e)
    <2>1. "READ_DISCONNECT" \in e.flags <=> "READ_DISCONNECT" \in d.flags
      BY <1>6 DEF SameFlags, Signals
    <2>2. "SHUTDOWN" \notin d.flags
      BY <1>1 DEF Flow
    <2> QED BY <1>6, <2>1, <2>2 DEF Forth
  <1>14. Answers(s, Out(e, n), e)
    <2>1. PICK o, p : o = Joined(g, b) /\ p = Joined(g, y)
      OBVIOUS
    <2>2. p = Append(o, Token("status", 0)) /\ o \in Seq(OutTokens)
      BY <1>9, <1>10, <2>1, OutAppend, JoinedType, ZenonT(60)
    <2>3. Puts(o, p, "status", 0)
      BY <2>2 DEF Puts
    <2>4. /\ \A u, i : Has(o, u, i) => Has(p, u, i)
          /\ \A u, i : Has(p, u, i) => Has(o, u, i) \/ (u = "status" /\ i = 0)
      <3>1. PICK z \in Nat : z = 0
        OBVIOUS
      <3>2. Puts(o, p, "status", z)
        BY <2>3, <3>1
      <3>3. /\ \A u, i : Has(o, u, i) => Has(p, u, i)
            /\ \A u, i : Has(p, u, i) => Has(o, u, i) \/ (u = "status" /\ i = z)
        BY <2>2, <3>2, HasAppend
      <3> QED BY <3>1, <3>3
    <2>5. Answers(s, o, d)
      BY <1>7, <1>8, <2>1 DEF Standing, Out
    <2>6. \A i \in 1..Len(s) : i # 0
      OBVIOUS
    <2>7. d.state.tag # "SendPayload"
      BY DEF NoState
    <2>8. /\ \A i \in 1..Len(s) : Has(o, "fin", i) => Has(p, "fin", i)
          /\ \A i \in 1..Len(s) : Has(p, "status", i) => Has(o, "status", i) \/ Done(s, p, e, i)
      BY <2>4, <2>6
    <2>9. Answers(s, p, e)
      BY <2>5, <2>7, <2>8, AnswersStep, Zenon
    <2> QED BY <1>7, <1>8, <2>1, <2>9 DEF Out
  <1>15. ASSUME Pipelined(s)
         PROVE  Ordered(s, Out(e, n), e, Reached(w, e, n))
    <2>1. PICK x : x = Reached(w, d, n) /\ x = Reached(w, e, n)
      BY <1>6 DEF Reached, Taken
    <2>2. Ordered(s, Out(d, n), d, x)
      BY <1>15, <2>1 DEF Standing
    <2>3. Ordered(s, Out(e, n), e, x)
      BY <1>1, <1>6, <1>13, <2>2, OrderError
    <2> QED BY <2>1, <2>3
  <1>16. Standing(s, w, e, n)
    BY <1>12, <1>14, <1>15 DEF Standing, Quits
  <1> QED BY <1>6, <1>11, <1>16, GoesOn

\* A queued request is handled.
LEMMA NextItem ==
  ASSUME NEW s, NEW w, NEW d, NEW n, Connected(s, w, d, n), Standing(s, w, d, n), d.outcome = "open",
         d.pc = "respond", d.state = NoState, d.messages # << >>, d.messages[1].t = "item",
         NEW i \in 1..Len(s), i = d.messages[1].req,
         NEW f, Takes(d, f), NEW e, e = SetState(HandleRequest(f, i))
  PROVE  Sound(s, w, e, n)
  <1>1. DispType(s, d) /\ NetType(s, n) /\ Flow(d) /\ Carries(s, w)
    BY DEF Connected, Standing
  <1>2. /\ Connected(s, w, f, n) /\ Keeps(d, f, {"messages"}) /\ f.messages = Tail(d.messages)
        /\ Out(f, n) = Out(d, n) /\ Reached(w, f, n) = Reached(w, d, n)
    BY TakeMessage
  <1>3. /\ f.writeBuf = d.writeBuf /\ f.flags = d.flags /\ f.error = d.error /\ f.rq = d.rq
        /\ f.outcome = d.outcome /\ f.readBuf = d.readBuf /\ f.pc = d.pc /\ IsDisp(f) /\ Tasks(f.rq, s)
    BY <1>1, <1>2 DEF Keeps, Fields, DispType
  <1>4. PICK r : r = HandleRequest(f, i) /\ Handled(s, f, r, i)
    BY <1>1, <1>3, HandleRequestFacts
  <1>5. Connected(s, w, r, n)
    BY <1>2, <1>4, HandledStep
  <1>6. PICK q : (q = d.writeBuf \/ q = Append(d.writeBuf, Token("continue", i))) /\ Served(s[i], q, f, r, i)
    <2>1. PICK q : (q = f.writeBuf \/ q = Append(f.writeBuf, Token("continue", i))) /\ Served(s[i], q, f, r, i)
      BY <1>4, ZenonT(60) DEF Handled
    <2> QED BY <1>3, <2>1, ZenonT(60)
  <1>7. /\ r.messages = f.messages /\ r.error = f.error /\ r.outcome = f.outcome /\ r.pc = f.pc
        /\ r.readBuf = f.readBuf /\ IsDisp(r) /\ SameFlags(f, r)
        /\ Attended(s[i], f.rq[i], r.rq[i]) /\ \A j \in 1..Len(s) : j # i => r.rq[j] = f.rq[j]
    BY <1>4 DEF Handled, OnlyTask, Keeps, Fields
  <1>8. Keeps(r, e, {"pc", "drain"}) /\ (e.pc = "respond" \/ e.pc = "flush")
    <2>1. CASE r.state = NoState
      <3>1. e = Break(r, FALSE)
        BY <1>4, <2>1 DEF SetState
      <3> QED BY <1>7, <3>1 DEF Break, Keeps, IsDisp, Fields
    <2>2. CASE r.state # NoState
      <3>1. e = r
        BY <1>4, <2>2 DEF SetState
      <3> QED BY <1>3, <1>7, <3>1 DEF Keeps, Fields
    <2> QED BY <2>1, <2>2
  <1>9. /\ Keeps(r, e, Aside) /\ e.messages = Tail(d.messages) /\ e.error = d.error /\ e.outcome = "open"
        /\ e.readBuf = d.readBuf /\ e.writeBuf = r.writeBuf /\ e.state = r.state /\ e.rq = r.rq /\ e.flags = r.flags
    <2>1. /\ Keeps(r, e, Aside) /\ e.messages = r.messages /\ e.error = r.error /\ e.outcome = r.outcome
          /\ e.readBuf = r.readBuf /\ e.writeBuf = r.writeBuf /\ e.state = r.state /\ e.rq = r.rq
          /\ e.flags = r.flags
      BY <1>8 DEF Keeps, Fields, Aside
    <2> QED BY <1>2, <1>3, <1>7, <2>1
  <1>10. Connected(s, w, e, n) /\ DispType(s, e)
    BY <1>5, <1>9, AsideStep DEF Connected
  <1>11. Served(s[i], q, d, e, i) /\ SameFlags(d, e)
    <2>1. Served(s[i], q, d, e, i)
      BY <1>3, <1>6, <1>9 DEF Served, Pending, Answering, Closing
    <2>2. SameFlags(d, e)
      BY <1>3, <1>7, <1>9 DEF SameFlags
    <2> QED BY <2>1, <2>2
  <1>12. Flow(e) /\ "SHUTDOWN" \notin e.flags
    BY <1>1, <1>8, <1>9, <1>11, FlowTakes
  <1>13. Forth(s, d, e)
    <2>1. "READ_DISCONNECT" \in e.flags <=> "READ_DISCONNECT" \in d.flags
      BY <1>11 DEF SameFlags, Signals
    <2>2. "SHUTDOWN" \notin d.flags
      BY <1>1 DEF Flow
    <2>3. e.rq[i].go => d.rq[i].go
      <3>1. PICK a, t : a = d.rq[i] /\ t = e.rq[i] /\ Attended(s[i], a, t)
        <4>1. Attended(s[i], d.rq[i], e.rq[i])
          BY <1>3, <1>7, <1>9, ZenonT(60)
        <4> QED BY <4>1, Zenon
      <3>2. t.go => a.go
        BY <3>1 DEF Attended, Polled, KeepsTask, TaskFields
      <3> QED BY <3>1, <3>2, ZenonT(60)
    <2>4. \A j \in 1..Len(s) : e.rq[j].go => d.rq[j].go
      BY <1>3, <1>7, <1>9, <2>3
    <2> QED BY <2>1, <2>2, <2>4 DEF Forth
  <1>14. Answers(s, Out(e, n), e)
    <2>1. PICK g \in Seq(OutTokens) : g = n.got
      BY <1>1 DEF NetType
    <2>2. Answers(s, Joined(g, d.writeBuf), d) /\ d.writeBuf \in Seq(OutTokens)
      BY <1>1, <2>1 DEF Standing, Out, DispType
    <2>3. s[i].resp \in {"empty", "full", "stream", "broken"}
      BY <1>1, KindFacts
    <2>4. d.state.tag # "SendPayload"
      BY DEF NoState
    <2>5. Answers(s, Joined(g, e.writeBuf), e)
      BY <1>6, <1>11, <2>2, <2>3, <2>4, AnswersServed
    <2> QED BY <2>1, <2>5 DEF Out
  <1>15. ASSUME Pipelined(s)
         PROVE  Ordered(s, Out(e, n), e, Reached(w, e, n))
    <2>1. PICK x : x = Reached(w, d, n) /\ x = Reached(w, e, n)
      BY <1>9 DEF Reached, Taken
    <2>2. Ordered(s, Out(d, n), d, x)
      BY <1>15, <2>1 DEF Standing
    <2>3. Ordered(s, Out(e, n), e, x)
      BY <1>1, <1>6, <1>9, <1>11, <1>13, <2>2, OrderNext
    <2> QED BY <2>1, <2>3
  <1>16. Standing(s, w, e, n)
    BY <1>12, <1>14, <1>15 DEF Standing, Quits
  <1> QED BY <1>9, <1>10, <1>16, GoesOn

\* NextMessage.
LEMMA NextStep ==
  ASSUME NEW s, NEW w, NEW d, NEW n, Connected(s, w, d, n), Standing(s, w, d, n), d.outcome = "open",
         d.pc = "respond", d.state = NoState, NEW e, e = NextMessage(d)
  PROVE  Sound(s, w, e, n)
  <1>1. MessagesType(s, d.messages)
    BY TypeParts DEF Connected
  <1>2. CASE d.messages = << >>
    <2>1. e = Break(d, FALSE)
      BY <1>2 DEF NextMessage
    <2> QED BY <1>2, <2>1, BreakStep
  <1>3. CASE d.messages # << >>
    <2>1. PICK m : m = d.messages
      OBVIOUS
    <2>2. /\ Head(m) = m[1] /\ m[1].t \in {"item", "upgrade", "error"}
          /\ m[1].t # "error" => m[1].req \in 1..Len(s)
      <3>1. m \in Seq(Messages(s)) /\ m # << >>
        BY <1>1, <1>3, <2>1 DEF MessagesType
      <3>2. Head(m) = m[1] /\ 1 \in 1..Len(m) /\ m[1] \in Messages(s)
        BY <3>1, TailFacts, LenFacts
      <3> QED BY <1>1, <2>1, <3>2 DEF Messages, MessagesType
    <2>3. PICK f : f = [d EXCEPT !.messages = Tail(@)] /\ Takes(d, f)
      BY DEF Takes
    <2>4. CASE m[1].t = "upgrade"
      <3>1. e = Ended(f, "upgraded")
        BY <1>3, <2>1, <2>2, <2>3, <2>4 DEF NextMessage
      <3> QED BY <1>3, <2>3, <3>1, NextUpgrade
    <2>5. CASE m[1].t = "error"
      <3>1. e = SetState(SendResponse(f, 0, FALSE))
        BY <1>3, <2>1, <2>2, <2>3, <2>5 DEF NextMessage
      <3>2. IsDisp(f)
        BY <1>3, <2>3, TakeMessage DEF Keeps
      <3>3. e = SetState(Responded(f, 0, NoState))
        BY <3>1, <3>2, EmptyResponse, Zenon
      <3>4. PICK x : x = Responded(f, 0, NoState) /\ e = SetState(x)
        BY <3>3
      <3> QED BY <1>3, <2>1, <2>3, <2>5, <3>4, NextError
    <2>6. CASE m[1].t = "item"
      <3>1. e = SetState(HandleRequest(f, m[1].req))
        BY <1>3, <2>1, <2>2, <2>3, <2>6 DEF NextMessage
      <3> QED BY <1>3, <2>1, <2>2, <2>3, <2>6, <3>1, NextItem
    <2> QED BY <2>2, <2>4, <2>5, <2>6
  <1> QED BY <1>2, <1>3

\* A step of the request in progress, with o and p what was and is written.
LEMMA RequestStep ==
  ASSUME NEW s, NEW w, NEW d, NEW n, Connected(s, w, d, n), Standing(s, w, d, n), d.outcome = "open",
         d.pc = "respond", d.state # NoState, NEW e, Connected(s, w, e, n),
         e.messages = d.messages, e.error = d.error, e.readBuf = d.readBuf, e.outcome = d.outcome, SameFlags(d, e),
         e.pc \in {"respond", "flush", "decode"}, e.pc = "decode" => "READ_DISCONNECT" \notin d.flags,
         e.state = NoState => e.pc = "respond" \/ (e.pc = "flush" /\ Leaves(s, d.state.req)),
         e.state # NoState => e.state.req = d.state.req,
         \A i \in 1..Len(s) : e.rq[i].go => d.rq[i].go,
         NEW o, o = Out(d, n), NEW p, p = Out(e, n), Answers(s, p, e),
         Pipelined(s) => InOrder(p) /\ Begun(p, e) = Begun(o, d)
  PROVE  Sound(s, w, e, n)
  <1>1. /\ "READ_DISCONNECT" \in e.flags <=> "READ_DISCONNECT" \in d.flags
        /\ "WRITE_DISCONNECT" \in e.flags <=> "WRITE_DISCONNECT" \in d.flags
        /\ "SHUTDOWN" \in e.flags <=> "SHUTDOWN" \in d.flags
        /\ "STARTED" \in e.flags <=> "STARTED" \in d.flags
    BY DEF SameFlags, Signals
  <1>2. Flow(d) /\ "SHUTDOWN" \notin d.flags /\ "STARTED" \in d.flags
    BY DEF Standing, Flow
  <1>3. Flow(e) /\ "SHUTDOWN" \notin e.flags
    BY <1>1, <1>2 DEF Flow
  <1>4. Forth(s, d, e)
    BY <1>1, <1>2 DEF Forth
  <1>5. PICK x : x = Reached(w, d, n) /\ x = Reached(w, e, n)
    BY DEF Reached, Taken
  <1>6. ASSUME Pipelined(s)
        PROVE  Ordered(s, p, e, x)
    <2>1. Ordered(s, o, d, x)
      BY <1>5, <1>6 DEF Standing
    <2> QED BY <1>4, <1>6, <2>1, OrderKept
  <1>7. Standing(s, w, e, n)
    BY <1>3, <1>5, <1>6 DEF Standing, Quits
  <1> QED BY <1>7, GoesOn

\* A step of a task that waits for its future, or takes a chunk of it.
Ticked(s, d, f, i) ==
  OnlyTask(s, d, f, i) /\ KeepsTask(d.rq[i], f.rq[i], {"go", "out"})

LEMMA TickedStep ==
  ASSUME NEW s, NEW w, NEW d, NEW n, Connected(s, w, d, n), NEW i \in 1..Len(s),
         NEW f, Keeps(d, f, Aside \cup {"rq"}), Ticked(s, d, f, i)
  PROVE  Connected(s, w, f, n)
  <1>1. DispType(s, d) /\ NetType(s, n) /\ Bodies(s, w, d, n)
    BY DEF Connected
  <1>2. /\ IsDisp(f) /\ f.readBuf = d.readBuf /\ f.messages = d.messages /\ f.writeBuf = d.writeBuf
        /\ f.payload = d.payload /\ f.error = d.error /\ f.eof = d.eof /\ f.state = d.state
    BY DEF Keeps, Fields, Aside
  <1>3. Tasks(f.rq, s)
    BY DEF Ticked, OnlyTask
  <1>4. Attentive(s, d, f)
    <2>1. SameTask(d.rq[i], f.rq[i])
      <3>1. PICK r, t : r = d.rq[i] /\ t = f.rq[i] /\ KeepsTask(r, t, {"go", "out"}) /\ TaskType(t)
        BY <1>3 DEF Ticked, Tasks
      <3>2. SameTask(r, t)
        BY <3>1 DEF KeepsTask, TaskFields, SameTask
      <3> QED BY <3>1, <3>2
    <2>2. \A j \in 1..Len(s) : SameTask(d.rq[j], d.rq[j])
      BY <1>1 DEF SameTask, DispType, Tasks
    <2> QED BY <2>1, <2>2 DEF Ticked, OnlyTask, Attentive
  <1>5. MessagesType(s, f.messages) /\ f.writeBuf \in Seq(OutTokens) /\ StateOf(f.state, s)
    BY <1>1, <1>2, TypeParts
  <1>6. /\ f.eof => n.peer # "open"
        /\ Admitted(s, f.state)
    BY <1>1, <1>2 DEF Bodies
  <1> QED BY <1>1, <1>2, <1>3, <1>4, <1>5, <1>6, StepConnected

\* d with a task changed and a token written.
Ticks(d, q, i) ==
  \/ q = d.rq
  \/ \E r : /\ KeepsTask(d.rq[i], r, {"go", "out"}) /\ (r.go => d.rq[i].go)
           /\ q = [d.rq EXCEPT ![i] = r]
Told(d, e, q, y, x) == e = [d EXCEPT !.rq = q, !.writeBuf = y, !.state = x]

LEMMA ToldStep ==
  ASSUME NEW s, NEW w, NEW d, NEW n, Connected(s, w, d, n), NEW i \in 1..Len(s),
         NEW e, NEW q, NEW y, NEW x, Told(d, e, q, y, x), Ticks(d, q, i),
         y \in Seq(OutTokens), StateOf(x, s), Admitted(s, x)
  PROVE  /\ Connected(s, w, e, n) /\ e.messages = d.messages /\ e.error = d.error /\ e.readBuf = d.readBuf
         /\ e.outcome = d.outcome /\ SameFlags(d, e) /\ e.pc = d.pc
         /\ e.writeBuf = y /\ e.state = x
         /\ \A j \in 1..Len(s) : e.rq[j].go => d.rq[j].go
  <1>1. DispType(s, d) /\ IsDisp(d)
    BY DEF Connected, DispType
  <1>2. /\ Keeps(d, e, {"rq", "writeBuf", "state"}) /\ e.rq = q /\ e.writeBuf = y /\ e.state = x
    BY <1>1 DEF Told, Keeps, IsDisp, Fields
  <1>3. PICK f : f = [d EXCEPT !.rq = q]
    OBVIOUS
  <1>4. Keeps(d, f, {"rq"}) /\ f.rq = q
    BY <1>1, <1>3 DEF Keeps, IsDisp, Fields
  <1>5. \A j \in 1..Len(s) : q[j].go => d.rq[j].go
    <2>1. CASE q = d.rq
      BY <2>1
    <2>2. CASE q # d.rq
      <3>1. PICK r : (r.go => d.rq[i].go) /\ q = [d.rq EXCEPT ![i] = r]
        BY <2>2 DEF Ticks
      <3> QED BY <1>1, <3>1 DEF DispType, Tasks
    <2> QED BY <2>1, <2>2
  <1>6. Connected(s, w, f, n)
    <2>1. CASE q = d.rq
      <3>1. Keeps(d, f, Aside)
        BY <1>4, <2>1 DEF Keeps, Fields, Aside
      <3> QED BY <3>1, AsideStep
    <2>2. CASE q # d.rq
      <3> PICK r : KeepsTask(d.rq[i], r, {"go", "out"}) /\ q = [d.rq EXCEPT ![i] = r]
        BY <2>2 DEF Ticks
      <3>1. Keeps(d, f, Aside \cup {"rq"})
        BY <1>4 DEF Keeps, Fields, Aside
      <3>2. /\ q = [j \in 1..Len(s) |-> q[j]] /\ q[i] = r
            /\ \A j \in 1..Len(s) : j # i => q[j] = d.rq[j]
        BY <1>1 DEF DispType, Tasks
      <3>3. TaskType(r)
        <4>1. PICK a : a = d.rq[i] /\ TaskType(a)
          BY <1>1 DEF DispType, Tasks
        <4>2. IsTask(r) /\ r.got = a.got /\ r.items = a.items
          BY <4>1 DEF KeepsTask, TaskFields
        <4> QED BY <4>1, <4>2 DEF TaskType
      <3>4. \A j \in 1..Len(s) : TaskType(q[j])
        BY <1>1, <3>2, <3>3 DEF DispType, Tasks
      <3>5. Ticked(s, d, f, i)
        BY <1>4, <3>2, <3>4 DEF Ticked, OnlyTask, Tasks
      <3> QED BY <3>1, <3>5, TickedStep
    <2> QED BY <2>1, <2>2
  <1>7. Keeps(f, e, Aside \cup {"writeBuf", "state"})
    BY <1>2, <1>4 DEF Keeps, Fields, Aside
  <1>8. Connected(s, w, e, n)
    BY <1>2, <1>6, <1>7, WriteStep
  <1>9. e.messages = d.messages /\ e.error = d.error /\ e.readBuf = d.readBuf /\ e.outcome = d.outcome
        /\ e.flags = d.flags /\ e.pc = d.pc
    BY <1>2 DEF Keeps, Fields
  <1> QED BY <1>2, <1>5, <1>8, <1>9 DEF SameFlags

\* What a token other than a status does to what has been written.
Says(o, p, t, i) ==
  /\ \A u, j : Has(o, u, j) => Has(p, u, j)
  /\ \A u, j : Has(p, u, j) => Has(o, u, j) \/ (u = t /\ j = i)
  /\ Has(p, t, i)
  /\ InOrder(o) => InOrder(p) /\ Statuses(p) = Statuses(o)

LEMMA Spoken ==
  ASSUME NEW s, NEW d, DispType(s, d), NEW n, NetType(s, n), NEW i \in 1..Len(s),
         NEW t \in {"continue", "data", "fin"}, NEW y, Puts(d.writeBuf, y, t, i),
         NEW o, o = Out(d, n), NEW p, p = Joined(n.got, y)
  PROVE  y \in Seq(OutTokens) /\ Says(o, p, t, i)
  <1>1. PICK g \in Seq(OutTokens), b \in Seq(OutTokens) : g = n.got /\ b = d.writeBuf
    BY DEF DispType, NetType
  <1>2. i \in Nat /\ t \in {"status", "continue", "data", "fin"}
    OBVIOUS
  <1>3. Token(t, i) \in OutTokens
    BY <1>2, OutToken
  <1>4. PICK z \in OutTokens : z = Token(t, i)
    BY <1>3, Zenon
  <1>5. y = Append(b, z) /\ y \in Seq(OutTokens)
    BY <1>1, <1>4, AppendFacts DEF Puts
  <1>6. o = Joined(g, b) /\ p = Joined(g, y)
    BY <1>1 DEF Out
  <1>7. o \in Seq(OutTokens) /\ p = Append(o, z)
    <2>1. Joined(g, Append(b, z)) = Append(Joined(g, b), z) /\ Joined(g, b) \in Seq(OutTokens)
      BY OutAppend, JoinedType
    <2> QED BY <1>5, <1>6, <2>1
  <1>8. Puts(o, p, t, i)
    BY <1>4, <1>7 DEF Puts
  <1>9. /\ \A u, j : Has(o, u, j) => Has(p, u, j)
        /\ \A u, j : Has(p, u, j) => Has(o, u, j) \/ (u = t /\ j = i)
        /\ Has(p, t, i)
    BY <1>2, <1>7, <1>8, HasAppend
  <1>10. Puts(b, y, t, i)
    BY <1>4, <1>5 DEF Puts
  <1>11. InOrder(o) => InOrder(p) /\ Statuses(p) = Statuses(o)
    <2>1. SUFFICES ASSUME InOrder(Joined(g, b))
                   PROVE  InOrder(Joined(g, y)) /\ Statuses(Joined(g, y)) = Statuses(Joined(g, b))
      BY <1>6
    <2> QED BY <1>2, <1>10, <2>1, PlainOut
  <1> QED BY <1>5, <1>9, <1>11 DEF Says

\* The request in progress is answered, which may end the loop.
LEMMA SettledStep ==
  ASSUME NEW s, NEW w, NEW d, NEW n, Connected(s, w, d, n), Standing(s, w, d, n), d.outcome = "open",
         d.pc = "respond", d.state.tag \in {"ExpectCall", "ServiceCall"},
         NEW i \in 1..Len(s), i = d.state.req,
         NEW f, Keeps(d, f, {"rq", "woken", "writeBuf", "state", "flags"}), SameFlags(d, f),
         OnlyTask(s, d, f, i), Attended(s[i], d.rq[i], f.rq[i]), f.rq[i].go => d.rq[i].go,
         Answering(d.writeBuf, f, i) \/ Closing(s[i], d.writeBuf, d, f, i),
         NEW e, e = f \/ (e = SetState(f) /\ (f.state = NoState => Leaves(s, i)))
  PROVE  Sound(s, w, e, n)
  <1>1. DispType(s, d) /\ NetType(s, n) /\ IsDisp(d) /\ Carries(s, w) /\ Tasks(d.rq, s)
    BY DEF Connected, DispType
  <1>2. d.state # NoState
    BY DEF NoState
  <1>3. Served(s[i], d.writeBuf, d, f, i)
    BY DEF Served
  <1>4. Connected(s, w, f, n)
    <2>1. Handled(s, d, f, i)
      BY <1>3 DEF Handled
    <2> QED BY <2>1, HandledStep
  <1>5. /\ f.messages = d.messages /\ f.error = d.error /\ f.readBuf = d.readBuf /\ f.outcome = d.outcome
        /\ f.pc = d.pc /\ IsDisp(f)
    BY DEF Keeps, Fields
  <1>6. \A j \in 1..Len(s) : f.rq[j].go => d.rq[j].go
    BY DEF OnlyTask
  <1>7. f.state # NoState => f.state.req = d.state.req
    BY DEF Answering, Closing
  <1>8. /\ Keeps(f, e, {"pc", "drain"}) /\ e.pc \in {"respond", "flush"}
        /\ e.state = NoState => e.pc = "respond" \/ (e.pc = "flush" /\ Leaves(s, d.state.req))
    <2>1. CASE e = f
      BY <1>5, <2>1 DEF Keeps
    <2>2. CASE e # f
      <3>1. e = Break(f, FALSE) /\ Leaves(s, i)
        BY <2>2 DEF SetState
      <3> QED BY <1>5, <3>1 DEF Break, IsDisp, Keeps, Fields
    <2> QED BY <2>1, <2>2
  <1>9. /\ e.messages = d.messages /\ e.error = d.error /\ e.readBuf = d.readBuf /\ e.outcome = d.outcome
        /\ e.rq = f.rq /\ e.state = f.state /\ e.writeBuf = f.writeBuf /\ e.flags = f.flags
    BY <1>5, <1>8 DEF Keeps, Fields
  <1>10. Connected(s, w, e, n)
    <2>1. Keeps(f, e, Aside)
      BY <1>8 DEF Keeps, Fields, Aside
    <2> QED BY <1>4, <2>1, AsideStep
  <1>11. PICK g \in Seq(OutTokens) : g = n.got
    BY <1>1 DEF NetType
  <1>12. PICK o, p : /\ o = Out(d, n) /\ p = Out(e, n)
                     /\ o = Joined(g, d.writeBuf) /\ p = Joined(g, f.writeBuf)
    BY <1>9, <1>11 DEF Out
  <1>13. d.writeBuf \in Seq(OutTokens) /\ s[i].resp \in {"empty", "full", "stream", "broken"}
    BY <1>1, KindFacts DEF DispType
  <1>14. Answers(s, p, e)
    <2>1. Answers(s, Joined(g, d.writeBuf), d) /\ d.state.tag # "SendPayload"
      BY <1>11, <1>12 DEF Standing
    <2>2. Answers(s, Joined(g, f.writeBuf), f)
      BY <1>3, <1>13, <2>1, AnswersServed
    <2> QED BY <1>9, <1>12, <2>2 DEF Answers, Done
  <1>15. ASSUME Pipelined(s)
         PROVE  InOrder(p) /\ Begun(p, e) = Begun(o, d)
    <2>1. PICK x : Ordered(s, o, d, x)
      BY <1>12, <1>15 DEF Standing
    <2>2. i = Begun(o, d) /\ InOrder(o)
      BY <1>2, <2>1 DEF Ordered, Over, Queued
    <2>3. Begun(o, d) = Statuses(o) + 1
      BY DEF Begun, Called
    <2>4. PICK q : q = d.writeBuf /\ Served(s[i], q, d, f, i)
      BY <1>3
    <2>5. InOrder(Joined(g, d.writeBuf)) /\ i = Statuses(Joined(g, d.writeBuf)) + 1 /\ i \in Nat
      BY <1>11, <1>12, <2>2, <2>3
    <2>6. InOrder(Joined(g, f.writeBuf)) /\ Begun(Joined(g, f.writeBuf), f) = i
      BY <1>13, <2>4, <2>5, BegunOut
    <2>7. Begun(p, e) = Begun(p, f)
      BY <1>9 DEF Begun, Called
    <2> QED BY <1>12, <2>2, <2>6, <2>7
  <1>16. SameFlags(d, e) /\ e.pc \in {"respond", "flush", "decode"} /\ e.pc # "decode"
    BY <1>8, <1>9 DEF SameFlags
  <1>17. /\ \A j \in 1..Len(s) : e.rq[j].go => d.rq[j].go
         /\ e.state # NoState => e.state.req = d.state.req
    BY <1>6, <1>7, <1>9
  <1> QED BY <1>2, <1>8, <1>9, <1>10, <1>12, <1>14, <1>15, <1>16, <1>17, RequestStep, ZenonT(150)

\* PollExpect.
LEMMA ExpectStep ==
  ASSUME NEW s, NEW w, NEW d, NEW n, Connected(s, w, d, n), Standing(s, w, d, n), d.outcome = "open",
         d.pc = "respond", d.state.tag = "ExpectCall", NEW i, i = d.state.req, NEW e, e = PollExpect(d, i)
  PROVE  Sound(s, w, e, n)
  <1>1. DispType(s, d) /\ NetType(s, n) /\ Bodies(s, w, d, n) /\ IsDisp(d)
    BY DEF Connected, DispType
  <1>2. d.state # NoState /\ i \in 1..Len(s) /\ s[i].expect # "fails"
    BY <1>1 DEF DispType, StateOf, NoState, Bodies, Admitted
  <1>3. Kind(i) = s[i] /\ Carries(s, w) /\ Tasks(d.rq, s)
    <2>1. Carries(s, w) /\ Tasks(d.rq, s)
      BY <1>1 DEF Connected, DispType
    <2> QED BY <1>2, <2>1, KindFacts
  <1>4. CASE d.rq[i].go /\ s[i].expect = "refused"
    <2>1. PICK c, f : c = [d EXCEPT !.rq[i].go = FALSE] /\ f = Refuse(c, i)
      OBVIOUS
    <2>2. e = SetState(f)
      BY <1>2, <1>4, <1>3, <2>1 DEF PollExpect
    <2>3. /\ Keeps(d, f, {"rq", "woken", "writeBuf", "state", "flags"}) /\ SameFlags(d, f)
          /\ OnlyTask(s, d, f, i) /\ Attended(s[i], d.rq[i], f.rq[i]) /\ (f.rq[i].go => d.rq[i].go)
          /\ Answering(d.writeBuf, f, i) \/ Closing(s[i], d.writeBuf, d, f, i)
      <3>1. s[i].expect \in Refusals
        BY <1>4 DEF Refusals
      <3>2. c = d \/ c = [d EXCEPT !.rq[i].go = FALSE]
        BY <2>1
      <3>3. IsDisp(d) /\ i \in 1..Len(s) /\ f = Refuse(c, i)
        BY <1>1, <1>2, <2>1
      <3> QED BY <1>3, <3>1, <3>2, <3>3, RefuseFacts
    <2>4. f.state = NoState => Leaves(s, i)
      <3>1. f.state = NoState => s[i].resp = "empty"
        BY <2>3 DEF Answering, Closing, AtOnce, NoState
      <3> QED BY <1>4, <3>1 DEF Leaves
    <2> QED BY <1>2, <2>2, <2>3, <2>4, SettledStep
  <1>5. CASE d.rq[i].go /\ s[i].expect # "refused"
    <2>1. PICK r, q, y, x : /\ r = [d.rq[i] EXCEPT !.go = FALSE] /\ q = [d.rq EXCEPT ![i] = r]
                            /\ y = Append(d.writeBuf, Token("continue", i))
                            /\ x = [tag |-> "ServiceCall", req |-> i]
      OBVIOUS
    <2>2. KeepsTask(d.rq[i], r, {"go", "out"}) /\ (r.go => d.rq[i].go)
      <3>1. IsTask(d.rq[i])
        BY <1>1, <1>2 DEF DispType, Tasks, TaskType
      <3> QED BY <1>5, <2>1, <3>1 DEF IsTask, KeepsTask, TaskFields
    <2>3. Ticks(d, q, i)
      BY <2>1, <2>2 DEF Ticks
    <2>4. Told(d, e, q, y, x)
      BY <1>1, <1>2, <1>5, <1>3, <2>1 DEF Told, PollExpect, SendContinue, Write, IsDisp, Fields
    <2>5. x.tag = "ServiceCall" /\ x.req = i /\ x # NoState /\ StateOf(x, s)
      BY <1>2, <2>1 DEF StateOf, NoState
    <2>6. PICK o, p : o = Out(d, n) /\ p = Joined(n.got, y)
      OBVIOUS
    <2>7. Puts(d.writeBuf, y, "continue", i)
      BY <2>1 DEF Puts
    <2>8. Admitted(s, x)
      BY <1>2, <1>5, <2>5 DEF Admitted, Refusals
    <2>9. /\ y \in Seq(OutTokens)
          /\ \A u, j : Has(o, u, j) => Has(p, u, j)
          /\ \A u, j : Has(p, u, j) => Has(o, u, j) \/ (u = "continue" /\ j = i)
          /\ InOrder(o) => InOrder(p) /\ Statuses(p) = Statuses(o)
      <3>1. y \in Seq(OutTokens) /\ Says(o, p, "continue", i)
        BY <1>1, <1>2, <2>6, <2>7, Spoken
      <3> QED BY <3>1 DEF Says
    <2>10. /\ Connected(s, w, e, n) /\ e.messages = d.messages /\ e.error = d.error /\ e.readBuf = d.readBuf
           /\ e.outcome = d.outcome /\ SameFlags(d, e) /\ e.pc = d.pc
           /\ e.writeBuf = y /\ e.state = x
           /\ \A j \in 1..Len(s) : e.rq[j].go => d.rq[j].go
      BY <1>2, <2>3, <2>4, <2>5, <2>8, <2>9, ToldStep
    <2>11. p = Out(e, n) /\ e.state # NoState /\ e.state.req = d.state.req
      BY <2>5, <2>6, <2>10 DEF Out
    <2>12. Answers(s, p, e)
      <3>1. Answers(s, o, d) /\ d.state.tag # "SendPayload"
        BY <2>6 DEF Standing
      <3>2. /\ \A j \in 1..Len(s) : Has(o, "fin", j) => Has(p, "fin", j)
            /\ \A j \in 1..Len(s) : Has(p, "status", j) => Has(o, "status", j) \/ Done(s, p, e, j)
        BY <2>9
      <3> QED BY <3>1, <3>2, AnswersStep, Zenon
    <2>13. Pipelined(s) => InOrder(p) /\ Begun(p, e) = Begun(o, d)
      <3>1. Pipelined(s) => InOrder(o)
        BY <2>6 DEF Standing, Ordered
      <3>2. Called(d) /\ Called(e)
        BY <2>5, <2>10 DEF Called
      <3> QED BY <2>9, <3>1, <3>2 DEF Begun
    <2> QED BY <1>2, <2>6, <2>10, <2>11, <2>12, <2>13, RequestStep
  <1>6. CASE ~d.rq[i].go /\ d.messages # << >>
    <2>1. e = d
      BY <1>6 DEF PollExpect
    <2> QED BY <2>1, GoesOn
  <1>7. CASE ~d.rq[i].go /\ d.messages = << >>
    <2>1. e = Break(d, FALSE)
      BY <1>7 DEF PollExpect
    <2> QED BY <1>7, <2>1, BreakStep
  <1> QED BY <1>4, <1>5, <1>6, <1>7

\* PollService: the handler answers or fails.
LEMMA AnswerStep ==
  ASSUME NEW s, NEW w, NEW d, NEW n, Connected(s, w, d, n), Standing(s, w, d, n), d.outcome = "open",
         d.pc = "respond", d.state.tag = "ServiceCall", NEW i \in 1..Len(s), i = d.state.req, IsReady(d, i),
         NEW f, f = Respond(PollHandler(d, i), i), NEW e, e = IF s[i].fails THEN SetState(f) ELSE f
  PROVE  Sound(s, w, e, n)
  <1>1. IsDisp(d) /\ Carries(s, w) /\ Tasks(d.rq, s) /\ s[i].expect \notin Refusals
    BY DEF Connected, DispType, Bodies, Admitted
  <1>2. /\ Keeps(d, f, {"rq", "woken", "writeBuf", "state", "flags"}) /\ SameFlags(d, f)
        /\ OnlyTask(s, d, f, i) /\ Polled(s[i], d.rq[i], f.rq[i])
        /\ Answering(d.writeBuf, f, i) \/ Closing(s[i], d.writeBuf, d, f, i)
    BY <1>1, RespondFacts
  <1>3. Attended(s[i], d.rq[i], f.rq[i]) /\ (f.rq[i].go => d.rq[i].go)
    BY <1>1, <1>2 DEF Attended, Polled
  <1>4. e = f \/ (e = SetState(f) /\ (f.state = NoState => Leaves(s, i)))
    <2>1. f.state = NoState => s[i].resp = "empty"
      BY <1>2 DEF Answering, Closing, AtOnce, NoState
    <2> QED BY <2>1 DEF Leaves
  <1> QED BY <1>2, <1>3, <1>4, SettledStep

\* PollService: the handler is pending, and more is decoded in the meantime.
LEMMA PendingStep ==
  ASSUME NEW s, NEW w, NEW d, NEW n, Connected(s, w, d, n), Standing(s, w, d, n), d.outcome = "open",
         d.pc = "respond", d.state.tag = "ServiceCall", NEW i \in 1..Len(s), i = d.state.req,
         NEW h, h = PollHandler(d, i), NEW f, Keeps(h, f, {"drain"}),
         NEW e, e = PollRequest(f, "response")
  PROVE  Sound(s, w, e, n)
  <1>1. DispType(s, d) /\ NetType(s, n) /\ Bodies(s, w, d, n) /\ IsDisp(d) /\ Carries(s, w) /\ Tasks(d.rq, s)
    BY DEF Connected, DispType
  <1>2. d.state # NoState /\ s[i].expect \notin Refusals
    BY <1>1 DEF NoState, Bodies, Admitted
  <1>3. /\ Keeps(d, h, {"rq", "woken"}) /\ Tasks(h.rq, s)
        /\ \A j \in 1..Len(s) : j # i => h.rq[j] = d.rq[j]
        /\ Polled(s[i], d.rq[i], h.rq[i])
    BY <1>1, PollHandlerFacts
  <1>4. /\ f.rq = h.rq /\ IsDisp(f) /\ f.readBuf = d.readBuf /\ f.messages = d.messages
        /\ f.writeBuf = d.writeBuf /\ f.payload = d.payload /\ f.error = d.error /\ f.eof = d.eof
        /\ f.state = d.state /\ f.flags = d.flags /\ f.outcome = d.outcome
    BY <1>3 DEF Keeps, Fields
  <1>5. Attentive(s, d, f)
    <2>1. Attended(s[i], d.rq[i], f.rq[i])
      BY <1>2, <1>3, <1>4 DEF Attended
    <2>2. \A j \in 1..Len(s) : Attended(s[j], d.rq[j], d.rq[j])
      BY DEF Attended
    <2> QED BY <1>3, <1>4, <2>1, <2>2 DEF Attentive
  <1>6. Connected(s, w, f, n)
    <2>1. MessagesType(s, f.messages) /\ f.writeBuf \in Seq(OutTokens) /\ StateOf(f.state, s)
      BY <1>1, <1>4, TypeParts
    <2>2. /\ f.eof => n.peer # "open"
          /\ Admitted(s, f.state)
      BY <1>1, <1>4 DEF Bodies
    <2>3. Tasks(f.rq, s)
      BY <1>3, <1>4
    <2> QED BY <1>1, <1>4, <1>5, <2>1, <2>2, <2>3, StepConnected
  <1>7. /\ Connected(s, w, e, n) /\ Keeps(f, e, {"ret", "updated", "pc", "fresh", "rq"})
        /\ \A j \in 1..Len(s) : e.rq[j].go = f.rq[j].go
        /\ \/ e.pc = "decode" /\ "READ_DISCONNECT" \notin f.flags
           \/ e.pc = "flush"
    BY <1>6, PollRequestStep
  <1>8. /\ e.messages = d.messages /\ e.error = d.error /\ e.readBuf = d.readBuf /\ e.outcome = d.outcome
        /\ e.flags = d.flags /\ e.state = d.state /\ e.writeBuf = d.writeBuf
    BY <1>4, <1>7 DEF Keeps, Fields
  <1>9. \A j \in 1..Len(s) : e.rq[j].go => d.rq[j].go
    <2>1. h.rq[i].go => d.rq[i].go
      BY <1>3 DEF Polled
    <2> QED BY <1>3, <1>4, <1>7, <2>1
  <1>10. PICK o : o = Out(d, n) /\ o = Out(e, n)
    BY <1>8 DEF Out
  <1>11. Answers(s, o, e)
    BY <1>8, <1>10 DEF Standing, Answers, Done
  <1>12. Pipelined(s) => InOrder(o) /\ Begun(o, e) = Begun(o, d)
    BY <1>8, <1>10 DEF Standing, Ordered, Begun, Called
  <1>13. SameFlags(d, e)
    BY <1>8 DEF SameFlags
  <1>14. /\ Connected(s, w, e, n) /\ e.pc \in {"respond", "flush", "decode"}
         /\ e.state # NoState /\ e.state.req = d.state.req
    BY <1>2, <1>7, <1>8
  <1>15. e.pc = "decode" => "READ_DISCONNECT" \notin d.flags
    BY <1>4, <1>7
  <1> QED BY <1>2, <1>8, <1>9, <1>10, <1>11, <1>12, <1>13, <1>14, <1>15, RequestStep, ZenonT(150)

\* PollBody writes token t of the body and leaves state x.
LEMMA BodyToken ==
  ASSUME NEW s, NEW w, NEW d, NEW n, Connected(s, w, d, n), Standing(s, w, d, n), d.outcome = "open",
         d.pc = "respond", d.state.tag = "SendPayload", NEW i \in 1..Len(s), i = d.state.req,
         NEW t \in {"data", "fin"}, NEW y, Puts(d.writeBuf, y, t, i), NEW q, Ticks(d, q, i),
         NEW x, x = IF t = "fin" THEN NoState ELSE d.state, NEW e, Told(d, e, q, y, x)
  PROVE  Sound(s, w, e, n)
  <1>1. DispType(s, d) /\ NetType(s, n) /\ d.state # NoState /\ d.state.tag # "None"
    BY DEF Connected, NoState
  <1>2. PICK o, p : o = Out(d, n) /\ p = Joined(n.got, y)
    OBVIOUS
  <1>3. t \in {"continue", "data", "fin"}
    OBVIOUS
  <1>4. y \in Seq(OutTokens) /\ Says(o, p, t, i)
    BY <1>1, <1>2, <1>3, Spoken
  <1>5. NoState.tag = "None"
    BY DEF NoState
  <1>6. StateOf(x, s) /\ x.tag \notin {"ExpectCall", "ServiceCall"}
    BY <1>1, <1>5 DEF DispType, StateOf
  <1>7. Admitted(s, x)
    BY <1>6 DEF Admitted
  <1>8. /\ Connected(s, w, e, n) /\ e.messages = d.messages /\ e.error = d.error /\ e.readBuf = d.readBuf
        /\ e.outcome = d.outcome /\ SameFlags(d, e) /\ e.pc = d.pc
        /\ e.writeBuf = y /\ e.state = x
        /\ \A j \in 1..Len(s) : e.rq[j].go => d.rq[j].go
    BY <1>4, <1>6, <1>7, ToldStep
  <1>9. p = Out(e, n)
    BY <1>2, <1>8 DEF Out
  <1>10. Answers(s, p, e)
    <2>1. Answers(s, o, d)
      BY <1>2 DEF Standing
    <2>2. e.state = d.state \/ Has(p, "fin", d.state.req)
      BY <1>4, <1>8 DEF Says
    <2>3. t # "status"
      OBVIOUS
    <2>4. /\ \A j \in 1..Len(s) : Has(o, "fin", j) => Has(p, "fin", j)
          /\ \A j \in 1..Len(s) : Has(p, "status", j) => Has(o, "status", j) \/ Done(s, p, e, j)
      BY <1>4, <2>3 DEF Says
    <2> QED BY <2>1, <2>2, <2>4, AnswersStep, Zenon
  <1>11. Pipelined(s) => InOrder(p) /\ Begun(p, e) = Begun(o, d)
    <2>1. Pipelined(s) => InOrder(o)
      BY <1>2 DEF Standing, Ordered
    <2>2. ~Called(d) /\ ~Called(e)
      BY <1>6, <1>8 DEF Called
    <2> QED BY <1>4, <2>1, <2>2 DEF Says, Begun
  <1>12. /\ e.pc \in {"respond", "flush", "decode"} /\ e.pc = "respond"
         /\ e.state # NoState => e.state.req = d.state.req
    BY <1>8
  <1> QED BY <1>1, <1>2, <1>8, <1>9, <1>10, <1>11, <1>12, RequestStep

\* poll_response with a body to send.
LEMMA BodyStep ==
  ASSUME NEW s, NEW w, NEW d, NEW n, Connected(s, w, d, n), Standing(s, w, d, n), d.outcome = "open",
         d.pc = "respond", d.state.tag = "SendPayload", NEW i, i = d.state.req, NEW e, e = PollBody(d, i)
  PROVE  Sound(s, w, e, n)
  <1>1. DispType(s, d) /\ IsDisp(d)
    BY DEF Connected, DispType
  <1>2. d.state # NoState /\ i \in 1..Len(s)
    BY <1>1 DEF DispType, StateOf, NoState
  <1>3. CASE \E x : e = Break(d, x)
    BY <1>2, <1>3, BreakStep
  <1>4. CASE e = [Write(d, Token("fin", i)) EXCEPT !.state = NoState]
    <2>1. PICK y : y = Append(d.writeBuf, Token("fin", i))
      OBVIOUS
    <2>2. Told(d, e, d.rq, y, NoState)
      BY <1>1, <1>4, <2>1 DEF Told, Write, IsDisp, Fields
    <2>3. Puts(d.writeBuf, y, "fin", i)
      BY <2>1 DEF Puts
    <2>4. Ticks(d, d.rq, i)
      BY DEF Ticks
    <2>5. PICK t, x, q : /\ t = "fin" /\ x = NoState /\ q = d.rq /\ t \in {"data", "fin"}
                         /\ x = IF t = "fin" THEN NoState ELSE d.state
      OBVIOUS
    <2>6. Puts(d.writeBuf, y, t, i) /\ Ticks(d, q, i) /\ Told(d, e, q, y, x)
      BY <2>2, <2>3, <2>4, <2>5
    <2> QED BY <1>2, <2>5, <2>6, BodyToken
  <1>5. CASE e = Ended(d, "error")
    <2>1. Turned(d, e, d.flags, d.pc, "error")
      BY <1>1, <1>5 DEF Turned, Ended, IsDisp, Fields
    <2>2. Connected(s, w, e, n) /\ Out(e, n) = Out(d, n) /\ e.outcome = "error"
      BY <2>1, TurnedFacts
    <2> QED BY <2>2, EndsOther
  <1>6. CASE e = [Write(d, Token("data", i)) EXCEPT !.rq[i].out = @ + 1, !.rq[i].go = FALSE]
    <2>1. PICK y, r, q : /\ y = Append(d.writeBuf, Token("data", i))
                         /\ r = [d.rq[i] EXCEPT !.out = @ + 1, !.go = FALSE] /\ q = [d.rq EXCEPT ![i] = r]
      OBVIOUS
    <2>2. Tasks(d.rq, s) /\ IsTask(d.rq[i])
      BY <1>1, <1>2 DEF DispType, Tasks, TaskType
    <2>3. KeepsTask(d.rq[i], r, {"go", "out"}) /\ ~r.go
      BY <2>1, <2>2, ZenonT(60) DEF IsTask, KeepsTask, TaskFields
    <2>4. Ticks(d, q, i)
      BY <2>1, <2>3 DEF Ticks
    <2>5. PICK v : v = [d EXCEPT !.writeBuf = y]
      OBVIOUS
    <2>6. v.rq = d.rq /\ IsDisp(v)
      BY <1>1, <2>5, ZenonT(60) DEF IsDisp, Fields
    <2>7. e = [v EXCEPT !.rq[i].out = @ + 1, !.rq[i].go = FALSE]
      BY <1>6, <2>1, <2>5 DEF Write
    <2>8. e = [v EXCEPT !.rq = q]
      <3>1. e = [[v EXCEPT !.rq[i].out = @ + 1] EXCEPT !.rq[i].go = FALSE]
        BY <2>7
      <3>2. PICK a : a = [d.rq[i] EXCEPT !.out = @ + 1]
        OBVIOUS
      <3>3. PICK u : u = [v EXCEPT !.rq[i].out = @ + 1]
        OBVIOUS
      <3>4. u = [v EXCEPT !.rq = [d.rq EXCEPT ![i] = a]]
        BY <2>6, <3>2, <3>3
      <3>5. u.rq = [d.rq EXCEPT ![i] = a]
        BY <2>6, <3>4 DEF IsDisp, Fields
      <3>6. u.rq[i] = a /\ [u.rq EXCEPT ![i] = r] = q
        BY <1>2, <2>1, <2>2, <3>5 DEF Tasks
      <3>7. r = [a EXCEPT !.go = FALSE]
        BY <2>1, <3>2
      <3>8. e = [u EXCEPT !.rq[i].go = FALSE]
        BY <3>1, <3>3
      <3>9. e = [u EXCEPT !.rq = [u.rq EXCEPT ![i] = [u.rq[i] EXCEPT !.go = FALSE]]]
        BY <3>8
      <3>10. e = [u EXCEPT !.rq = q]
        BY <3>6, <3>7, <3>9
      <3> QED BY <2>6, <3>4, <3>10 DEF IsDisp, Fields
    <2>9. Told(d, e, q, y, d.state)
      BY <1>1, <2>5, <2>8 DEF Told, IsDisp, Fields
    <2>10. Puts(d.writeBuf, y, "data", i)
      BY <2>1 DEF Puts
    <2>11. PICK t, x : /\ t = "data" /\ x = d.state /\ t \in {"data", "fin"}
                       /\ x = IF t = "fin" THEN NoState ELSE d.state
      OBVIOUS
    <2>12. Puts(d.writeBuf, y, t, i) /\ Told(d, e, q, y, x)
      BY <2>9, <2>10, <2>11
    <2> QED BY <1>2, <2>4, <2>11, <2>12, BodyToken
  <1> QED BY <1>3, <1>4, <1>5, <1>6, Zenon DEF PollBody

\* PollResponse, as a function of the dispatcher.
ResponseOf(d) ==
  CASE d.state.tag = "None"        -> NextMessage(d)
    [] d.state.tag = "ExpectCall"  -> PollExpect(d, d.state.req)
    [] d.state.tag = "ServiceCall" -> PollService(d, d.state.req)
    [] d.state.tag = "SendPayload" -> PollBody(d, d.state.req)

\* poll_response keeps a connection sound.
LEMMA ResponseStep ==
  ASSUME NEW s, NEW w, NEW d, NEW n, Connected(s, w, d, n), Standing(s, w, d, n), d.outcome = "open",
         d.pc = "respond", NEW e, e = ResponseOf(d)
  PROVE  Sound(s, w, e, n)
  <1>1. StateOf(d.state, s) /\ IsDisp(d) /\ Carries(s, w) /\ Tasks(d.rq, s)
    BY DEF Connected, DispType
  <1>2. CASE d.state = NoState
    <2>1. d.state.tag = "None"
      BY <1>2 DEF NoState
    <2>2. e = NextMessage(d)
      BY <2>1 DEF ResponseOf
    <2> QED BY <1>2, <2>2, NextStep
  <1>3. CASE d.state.tag = "ExpectCall"
    <2>1. e = PollExpect(d, d.state.req)
      BY <1>3 DEF ResponseOf
    <2> QED BY <1>3, <2>1, ExpectStep
  <1>4. CASE d.state.tag = "ServiceCall"
    <2>1. PICK i \in 1..Len(s) : i = d.state.req
      BY <1>1, <1>4 DEF StateOf, NoState
    <2>2. e = PollService(d, i)
      BY <1>4, <2>1 DEF ResponseOf
    <2>3. CASE IsReady(d, i)
      <3>1. PICK f : f = Respond(PollHandler(d, i), i)
        OBVIOUS
      <3>2. e = IF s[i].fails THEN SetState(f) ELSE f
        BY <1>1, <2>2, <2>3, <3>1, KindFacts DEF PollService
      <3> QED BY <1>4, <2>1, <2>3, <3>1, <3>2, AnswerStep
    <2>4. CASE ~IsReady(d, i)
      <3>1. PICK h : h = PollHandler(d, i)
        OBVIOUS
      <3>2. PICK f : f = [h EXCEPT !.drain = FALSE]
        OBVIOUS
      <3>3. e = PollRequest(f, "response")
        BY <2>2, <2>4, <3>1, <3>2 DEF PollService
      <3>4. IsDisp(h)
        BY <1>1, <3>1, PollHandlerFacts DEF Keeps
      <3>5. Keeps(h, f, {"drain"})
        BY <3>2, <3>4 DEF Keeps, IsDisp, Fields
      <3> QED BY <1>4, <2>1, <3>1, <3>3, <3>5, PendingStep
    <2> QED BY <2>3, <2>4
  <1>5. CASE d.state.tag = "SendPayload"
    <2>1. e = PollBody(d, d.state.req)
      BY <1>5 DEF ResponseOf
    <2> QED BY <1>5, <2>1, BodyStep
  <1> QED BY <1>1, <1>2, <1>3, <1>4, <1>5 DEF StateOf

-----------------------------------------------------------------------------
(* Reading, and what happens between two turns. *)

\* read_available with the reading side closed.
LEMMA ReadClosed ==
  ASSUME NEW s, NEW w, NEW d, NEW n, Connected(s, w, d, n), Standing(s, w, d, n), d.outcome = "open",
         d.pc = "read", NEW f, f = [d EXCEPT !.eof = FALSE], NEW e, e = PollRequest(f, "poll")
  PROVE  Sound(s, w, e, n)
  <1>1. IsDisp(d) /\ DispType(s, d) /\ NetType(s, n) /\ Bodies(s, w, d, n)
    BY DEF Connected, DispType
  <1>2. PICK g : g = f /\ Keeps(d, g, {"readBuf", "eof"}) /\ g.readBuf = d.readBuf /\ ~g.eof
    BY <1>1 DEF Keeps, IsDisp, Fields
  <1>3. /\ IsDisp(g) /\ g.rq = d.rq /\ g.messages = d.messages /\ g.writeBuf = d.writeBuf
        /\ g.payload = d.payload /\ g.error = d.error /\ g.state = d.state
    BY <1>2 DEF Keeps, Fields
  <1>4. Tasks(g.rq, s) /\ Attentive(s, d, g)
    BY <1>1, <1>3, SameTasks
  <1>5. MessagesType(s, g.messages) /\ g.writeBuf \in Seq(OutTokens) /\ StateOf(g.state, s)
    BY <1>1, <1>3, TypeParts
  <1>6. Admitted(s, g.state)
    BY <1>1, <1>3 DEF Bodies
  <1>7. Connected(s, w, g, n)
    BY <1>1, <1>2, <1>3, <1>4, <1>5, <1>6, StepConnected
  <1>8. Taken(g, n) = Taken(d, n)
    BY <1>2 DEF Taken
  <1>9. e = PollRequest(g, "poll")
    BY <1>2
  <1> QED BY <1>2, <1>7, <1>8, <1>9, ReadStep

\* read_available with bytes, or none, in the socket.
Fills(d, n, f) == f = [d EXCEPT !.readBuf = @ \o n.sock, !.eof = n.peer # "open"]

LEMMA ReadOpen ==
  ASSUME NEW s, NEW w, NEW d, NEW n, Connected(s, w, d, n), Standing(s, w, d, n), d.outcome = "open",
         d.pc = "read", NEW f, Fills(d, n, f),
         NEW m, Empties(n, m), NEW e, e = PollRequest(f, "poll")
  PROVE  Sound(s, w, e, m)
  <1>1. IsDisp(d)
    BY DEF Connected, DispType
  <1>2. Keeps(d, f, {"readBuf", "eof"}) /\ f.readBuf = d.readBuf \o n.sock /\ (f.eof => n.peer # "open")
    <2>1. PICK h, b : h = d.readBuf \o n.sock /\ b = (n.peer # "open")
      OBVIOUS
    <2>2. f = [d EXCEPT !.readBuf = h, !.eof = b]
      BY <2>1, Zenon DEF Fills
    <2>3. Keeps(d, f, {"readBuf", "eof"}) /\ f.readBuf = h /\ f.eof = b
      BY <1>1, <2>2 DEF Keeps, IsDisp, Fields
    <2>4. f.eof => n.peer # "open"
      BY <2>1, <2>3, Zenon
    <2> QED BY <2>1, <2>3, <2>4
  <1>3. Connected(s, w, f, m) /\ Taken(f, m) = Taken(d, n) /\ m.got = n.got
    <2>1. Filled(d, n, f)
      BY <1>2 DEF Filled
    <2> QED BY <2>1, BytesRead
  <1> QED BY <1>2, <1>3, ReadStep

\* A reset, wherever it is met.
LEMMA ReadReset ==
  ASSUME NEW s, NEW w, NEW d, NEW n, Connected(s, w, d, n), Standing(s, w, d, n),
         NEW e, e = Ended(d, "error")
  PROVE  Sound(s, w, e, n)
  <1>1. IsDisp(d)
    BY DEF Connected, DispType
  <1>2. Turned(d, e, d.flags, d.pc, "error")
    BY <1>1 DEF Turned, Ended, IsDisp, Fields
  <1>3. Connected(s, w, e, n) /\ Out(e, n) = Out(d, n) /\ e.outcome = "error"
    BY <1>2, TurnedFacts
  <1> QED BY <1>3, EndsOther

\* Between two turns, nothing is written and no token is taken.
LEMMA BetweenTurns ==
  ASSUME NEW s, NEW w, NEW d, NEW n, Connected(s, w, d, n), Standing(s, w, d, n), d.outcome = "open",
         d.pc = "idle", NEW e, NEW m, Connected(s, w, e, m), Keeps(d, e, {"woken", "timer", "rq"}),
         m.got = n.got, Taken(e, m) = Taken(d, n),
         \A i \in 1..Len(s) : e.rq[i].go => d.rq[i].go \/ (d.state # NoState /\ d.state.req = i)
  PROVE  Sound(s, w, e, m)
  <1>1. /\ e.flags = d.flags /\ e.state = d.state /\ e.messages = d.messages /\ e.error = d.error
        /\ e.writeBuf = d.writeBuf /\ e.outcome = d.outcome /\ e.pc = d.pc
    BY DEF Keeps, Fields
  <1>2. Flow(d)
    BY DEF Standing
  <1>3. Flow(e)
    BY <1>1, <1>2, FlowKept DEF SameFlags
  <1>4. Out(e, m) = Out(d, n) /\ Reached(w, e, m) = Reached(w, d, n) /\ Forth(s, d, e)
    BY <1>1 DEF Out, Reached, Forth
  <1>5. Standing(s, w, e, m)
    BY <1>1, <1>3, <1>4, StandingKept
  <1> QED BY <1>1, <1>5, GoesOn

\* The dispatcher is woken, and its timer set.
LEMMA WakeStep ==
  ASSUME NEW s, NEW w, NEW d, NEW n, Connected(s, w, d, n), Standing(s, w, d, n), d.outcome = "open",
         d.pc = "idle", NEW e, Keeps(d, e, {"woken", "timer"}), NEW m, NetType(s, m),
         m.sent = n.sent, m.sock = n.sock, m.got = n.got, m.peer = "open" => n.peer = "open"
  PROVE  Sound(s, w, e, m)
  <1>1. DispType(s, d) /\ Bodies(s, w, d, n)
    BY DEF Connected
  <1>2. /\ IsDisp(e) /\ e.rq = d.rq /\ e.messages = d.messages /\ e.writeBuf = d.writeBuf
        /\ e.payload = d.payload /\ e.error = d.error /\ e.state = d.state /\ e.readBuf = d.readBuf
        /\ e.eof = d.eof /\ Keeps(d, e, {"woken", "timer", "rq"})
    BY DEF Keeps, Fields
  <1>3. Tasks(e.rq, s) /\ Attentive(s, d, e)
    BY <1>1, <1>2, SameTasks
  <1>4. MessagesType(s, e.messages) /\ e.writeBuf \in Seq(OutTokens) /\ StateOf(e.state, s)
    BY <1>1, <1>2, TypeParts
  <1>5. /\ Admitted(s, e.state)
        /\ e.eof => m.peer # "open"
    BY <1>1, <1>2 DEF Bodies
  <1>6. Connected(s, w, e, m)
    BY <1>1, <1>2, <1>3, <1>4, <1>5, StepConnected
  <1>7. Taken(e, m) = Taken(d, n) /\ \A i \in 1..Len(s) : e.rq[i].go => d.rq[i].go
    BY <1>2 DEF Taken
  <1> QED BY <1>2, <1>6, <1>7, BetweenTurns

\* A token is sent.
LEMMA SendStep ==
  ASSUME NEW s, NEW w, NEW d, NEW n, Connected(s, w, d, n), Standing(s, w, d, n), d.outcome = "open",
         d.pc = "idle", NEW e, Keeps(d, e, {"woken", "timer"}), n.sent < Len(w),
         NEW m, m = [n EXCEPT !.sent = @ + 1, !.sock = Append(@, w[n.sent + 1])]
  PROVE  Sound(s, w, e, m)
  <1>1. Carries(s, w) /\ DispType(s, d) /\ NetType(s, n) /\ WireRead(w, d, n) /\ Bodies(s, w, d, n)
    BY DEF Connected
  <1>2. PICK A : A = InTokens(s)
    OBVIOUS
  <1>3. PICK k \in Seq(A), b \in Seq(A), a \in Nat, v \in Seq(A) :
          A = InTokens(s) /\ k = n.sock /\ b = d.readBuf /\ a = n.sent /\ v = w
    <2>1. /\ n.sock \in Seq(InTokens(s)) /\ d.readBuf \in Seq(InTokens(s)) /\ n.sent \in Nat
          /\ w \in Seq(InTokens(s))
      BY <1>1 DEF NetType, DispType, Carries
    <2> QED BY <1>2, <2>1
  <1>4. a + 1 \in 1..Len(v) /\ Len(v) \in Nat /\ v[a + 1] \in A
    <2>1. a < Len(v)
      BY <1>3
    <2> QED BY <2>1, LenFacts
  <1>5. PICK x \in A : x = v[a + 1]
    BY <1>4, Zenon
  <1>6. PICK h : h = Append(k, x)
    OBVIOUS
  <1>7. /\ h \in Seq(A) /\ Len(h) = Len(k) + 1 /\ h[Len(k) + 1] = x /\ Len(k) \in Nat /\ Len(b) \in Nat
        /\ \A j \in 1..Len(k) : h[j] = k[j]
    BY <1>6, AppendFacts, LenFacts
  <1>8. /\ m.sent = a + 1 /\ m.sock = h /\ m.got = n.got /\ m.peer = n.peer /\ IsNet(m)
    <2>1. IsNet(n)
      BY <1>1 DEF NetType
    <2>2. m = [n EXCEPT !.sent = a + 1, !.sock = h]
      BY <1>3, <1>5, <1>6
    <2> QED BY <2>1, <2>2 DEF IsNet, NetFields
  <1>9. NetType(s, m)
    BY <1>1, <1>3, <1>7, <1>8 DEF NetType
  <1>10. /\ IsDisp(e) /\ e.rq = d.rq /\ e.messages = d.messages /\ e.writeBuf = d.writeBuf
         /\ e.payload = d.payload /\ e.error = d.error /\ e.state = d.state /\ e.readBuf = d.readBuf
         /\ e.eof = d.eof /\ Keeps(d, e, {"woken", "timer", "rq"})
    BY DEF Keeps, Fields
  <1>11. PICK T \in Nat : T = Taken(d, n) /\ T = a - Len(k) - Len(b)
    BY <1>1, <1>3 DEF WireRead, Taken
  <1>12. Taken(e, m) = T
    <2>1. Taken(e, m) = (a + 1) - Len(h) - Len(b)
      BY <1>3, <1>8, <1>10 DEF Taken
    <2> QED BY <1>7, <1>11, <2>1
  <1>13. WireRead(w, e, m)
    <2>1. \A j \in 1..Len(b) : b[j] = v[T + j]
      BY <1>1, <1>3, <1>11 DEF WireRead
    <2>2. \A j \in 1..Len(k) : k[j] = v[a - Len(k) + j]
      BY <1>1, <1>3 DEF WireRead
    <2>3. \A j \in 1..Len(h) : h[j] = v[(a + 1) - Len(h) + j]
      <3> SUFFICES ASSUME NEW j \in 1..Len(h)
                   PROVE  h[j] = v[(a + 1) - Len(h) + j]
        OBVIOUS
      <3>1. (a + 1) - Len(h) + j = a - Len(k) + j
        BY <1>7
      <3>2. CASE j \in 1..Len(k)
        BY <1>7, <2>2, <3>1, <3>2
      <3>3. CASE j = Len(k) + 1
        <4>1. a - Len(k) + j = a + 1
          BY <1>7, <3>3
        <4> QED BY <1>5, <1>7, <3>1, <3>3, <4>1
      <3> QED BY <1>7, <3>2, <3>3
    <2>4. m.sent \in 0..Len(w) /\ Taken(e, m) \in Nat
      BY <1>3, <1>4, <1>8, <1>12
    <2>5. \A j \in 1..Len(e.readBuf) : e.readBuf[j] = w[Taken(e, m) + j]
      BY <1>3, <1>10, <1>12, <2>1, Zenon
    <2>6. \A j \in 1..Len(m.sock) : m.sock[j] = w[m.sent - Len(m.sock) + j]
      BY <1>3, <1>8, <2>3, Zenon
    <2> QED BY <2>4, <2>5, <2>6, Zenon DEF WireRead
  <1>14. DispType(s, e)
    BY <1>1, <1>10, TypeParts
  <1>15. Bodies(s, w, e, m)
    <2>1. Tasks(d.rq, s) /\ d.payload \in 0..Len(s)
      BY <1>1, TypeParts
    <2>2. Attentive(s, d, e)
      BY <1>1, <1>10, SameTasks
    <2>3. /\ Admitted(s, e.state)
          /\ e.eof => m.peer # "open"
      BY <1>1, <1>8, <1>10 DEF Bodies
    <2> QED BY <1>1, <1>8, <1>10, <1>11, <1>12, <2>1, <2>2, <2>3, BodiesKept
  <1>16. Connected(s, w, e, m)
    BY <1>1, <1>9, <1>13, <1>14, <1>15 DEF Connected
  <1>17. \A i \in 1..Len(s) : e.rq[i].go => d.rq[i].go
    BY <1>10
  <1> QED BY <1>8, <1>10, <1>11, <1>12, <1>16, <1>17, BetweenTurns

\* A future that the dispatcher waits for is ready.
Readies(d, q, i) == q = [d.rq EXCEPT ![i] = [d.rq[i] EXCEPT !.go = TRUE]]

LEMMA ProgressStep ==
  ASSUME NEW s, NEW w, NEW d, NEW n, Connected(s, w, d, n), Standing(s, w, d, n), d.outcome = "open",
         d.pc = "idle", NEW i \in 1..Len(s), d.state.req = i,
         NEW q, Readies(d, q, i), NEW f, Keeps(d, f, {"woken", "rq"}), f.rq = q
  PROVE  Sound(s, w, f, n)
  <1>1. IsDisp(d) /\ Tasks(d.rq, s)
    BY DEF Connected, DispType
  <1>2. PICK r : /\ KeepsTask(d.rq[i], r, {"go", "out"}) /\ q[i] = r
                 /\ q = [j \in 1..Len(s) |-> q[j]] /\ \A j \in 1..Len(s) : j # i => q[j] = d.rq[j]
    <2>1. PICK r : r = [d.rq[i] EXCEPT !.go = TRUE]
      OBVIOUS
    <2>2. IsTask(d.rq[i])
      BY <1>1 DEF Tasks, TaskType
    <2>3. KeepsTask(d.rq[i], r, {"go", "out"})
      BY <2>1, <2>2 DEF IsTask, KeepsTask, TaskFields
    <2>4. /\ q[i] = r /\ q = [j \in 1..Len(s) |-> q[j]] /\ \A j \in 1..Len(s) : j # i => q[j] = d.rq[j]
      BY <1>1, <2>1 DEF Readies, Tasks
    <2> QED BY <2>3, <2>4
  <1>3. TaskType(r)
    <2>1. PICK a : a = d.rq[i] /\ TaskType(a)
      BY <1>1 DEF Tasks
    <2>2. IsTask(r) /\ r.got = a.got /\ r.items = a.items
      BY <1>2, <2>1 DEF KeepsTask, TaskFields
    <2> QED BY <2>1, <2>2 DEF TaskType
  <1>4. Ticked(s, d, f, i)
    <2>1. \A j \in 1..Len(s) : TaskType(q[j])
      BY <1>1, <1>2, <1>3 DEF Tasks
    <2>2. Tasks(f.rq, s)
      BY <1>2, <2>1 DEF Tasks
    <2>3. KeepsTask(d.rq[i], f.rq[i], {"go", "out"}) /\ \A j \in 1..Len(s) : j # i => f.rq[j] = d.rq[j]
      BY <1>2
    <2> QED BY <2>2, <2>3 DEF Ticked, OnlyTask
  <1>5. Keeps(d, f, Aside \cup {"rq"}) /\ Keeps(d, f, {"woken", "timer", "rq"}) /\ f.readBuf = d.readBuf
    BY DEF Keeps, Fields, Aside
  <1>6. Connected(s, w, f, n)
    BY <1>4, <1>5, TickedStep
  <1>7. Taken(f, n) = Taken(d, n)
    BY <1>5 DEF Taken
  <1>8. \A j \in 1..Len(s) : f.rq[j].go => d.rq[j].go \/ (d.state # NoState /\ d.state.req = j)
    <2>1. d.state # NoState
      BY DEF NoState
    <2> QED BY <1>2, <2>1
  <1> QED BY <1>5, <1>6, <1>7, <1>8, BetweenTurns

-----------------------------------------------------------------------------
(* The wire. *)

\* Induction over the natural numbers, with a set in the place of a predicate: a number
\* that is not in S would be above a smallest such one.
LEMMA CountUp ==
  ASSUME NEW S, 0 \in S, \A n \in Nat : n \in S => n + 1 \in S
  PROVE  Nat \subseteq S
  <1> SUFFICES ASSUME NEW m \in Nat, m \notin S
               PROVE  FALSE
    OBVIOUS
  <1> DEFINE Missing == {k \in 0..m : k \notin S}
             Below == {0..k : k \in Missing}
             R == StrictSubsetOrdering(0..m)
  <1>1. IsWellFoundedOn(R, FiniteSubsetsOf(0..m))
    BY FS_StrictSubsetOrderingWellFounded
  <1>2. FiniteSubsetsOf(0..m) = SUBSET (0..m)
    <2>1. IsFiniteSet(0..m)
      BY FS_Interval
    <2> QED BY <2>1, FS_FiniteSubsetsOfFinite
  <1>3. Below \subseteq SUBSET (0..m)
    OBVIOUS
  <1>4. 0..m \in Below
    OBVIOUS
  <1> HIDE DEF R, Below
  <1>5. PICK x \in Below : \A y \in Below : <<y, x>> \notin R
    <2>1. IsWellFoundedOn(R, SUBSET (0..m)) /\ Below # {}
      BY <1>1, <1>2, <1>4
    <2> QED BY <2>1, <1>3, WFMin
  <1>6. PICK k \in Missing : x = 0..k
    BY <1>5 DEF Below
  <1>7. k - 1 \in Missing
    OBVIOUS
  <1>8. 0..(k - 1) \in Below
    BY <1>7 DEF Below
  <1>9. 0..(k - 1) \subseteq 0..k /\ 0..(k - 1) # 0..k
    <2>1. k \in Nat /\ k \in 0..k /\ k \notin 0..(k - 1)
      OBVIOUS
    <2> QED BY <2>1
  <1>10. <<0..(k - 1), 0..k>> \in R
    BY <1>9, <1>7, <1>3, <1>8, <1>6, <1>5 DEF R, StrictSubsetOrdering
  <1> QED BY <1>5, <1>6, <1>8, <1>10

\* The tokens x of request i of script s.
Piece(s, i, x) ==
  /\ x \in Seq(InTokens(s)) /\ Len(x) >= 1
  /\ \A j \in 1..Len(x) : x[j].req = i
  /\ x[1].t \in {"head", "malformed"} /\ x[1].n = 0
  /\ \A j \in 2..Len(x) :
       /\ x[j].t \in {"chunk", "end", "corrupt"} /\ x[j - 1].t \in {"head", "chunk"}
       /\ x[j].t = "chunk" => x[j].n = x[j - 1].n + 1 /\ x[j].n <= s[i].body
       /\ x[j].t = "end" => x[j - 1].n = s[i].body /\ ~s[i].corrupt
  /\ x[Len(x)].t \in {"head", "chunk"} => s[i].body = 0 \/ s[i].head = "upgrade"

\* The tokens of the first i requests.
Pieces(s, i, x) ==
  /\ x \in Seq(InTokens(s)) /\ \A k \in 1..Len(x) : Continues(x, s, k)
  /\ i = 0 => x = << >>
  /\ i > 0 =>
       /\ Len(x) >= 1 /\ x[Len(x)].req = i
       /\ x[Len(x)].t \in {"head", "chunk"} => s[i].body = 0 \/ s[i].head = "upgrade"

\* One request more.
LEMMA PieceAdded ==
  ASSUME NEW s, NEW i \in Nat, NEW u, Pieces(s, i, u), NEW x, Piece(s, i + 1, x), NEW v, Chained(u, x, v),
         v \in Seq(InTokens(s))
  PROVE  Pieces(s, i + 1, v)
  <1>1. PICK a \in Nat, b \in Nat : a = Len(u) /\ b = Len(x) /\ b >= 1
    BY DEF Pieces, Piece
  <1>2. /\ Len(v) = a + b /\ \A j \in 1..a : v[j] = u[j]
        /\ \A j \in 1..b : v[a + j] = x[j]
    BY <1>1 DEF Chained
  <1>3. \A k \in 1..a : Continues(v, s, k)
    <2> SUFFICES ASSUME NEW k \in 1..a
                 PROVE  Continues(v, s, k)
      OBVIOUS
    <2>1. Continues(u, s, k)
      BY <1>1 DEF Pieces
    <2>2. v[k] = u[k]
      BY <1>2
    <2>3. CASE k = 1
      BY <2>1, <2>2, <2>3 DEF Continues
    <2>4. CASE k > 1
      <3>1. v[k - 1] = u[k - 1]
        BY <1>1, <1>2, <2>4
      <3> QED BY <2>1, <2>2, <2>4, <3>1 DEF Continues
    <2> QED BY <2>3, <2>4
  <1>4. Continues(v, s, a + 1)
    <2>1. v[a + 1] = x[1] /\ x[1].t \in {"head", "malformed"} /\ x[1].n = 0 /\ x[1].req = i + 1
      BY <1>1, <1>2 DEF Piece
    <2>2. CASE i = 0
      <3>1. a = 0
        BY <1>1, <2>2 DEF Pieces
      <3> QED BY <2>1, <2>2, <3>1 DEF Continues
    <2>3. CASE i > 0
      <3>1. a >= 1 /\ u[a].req = i /\ (u[a].t \in {"head", "chunk"} => s[i].body = 0 \/ s[i].head = "upgrade")
        BY <1>1, <2>3 DEF Pieces
      <3>2. v[a] = u[a] /\ v[(a + 1) - 1] = u[a] /\ a + 1 # 1 /\ a + 1 > 1
        BY <1>1, <1>2, <3>1
      <3> QED BY <2>1, <3>1, <3>2 DEF Continues
    <2> QED BY <2>2, <2>3
  <1>5. ASSUME NEW j \in 2..b
        PROVE  Continues(v, s, a + j)
    <2>1. v[a + j] = x[j] /\ v[(a + j) - 1] = x[j - 1] /\ a + j > 1
      <3>1. j - 1 \in 1..b /\ a + (j - 1) = (a + j) - 1
        BY <1>1
      <3>2. v[a + j] = x[j] /\ v[a + (j - 1)] = x[j - 1]
        BY <1>2, <3>1
      <3>3. a + j > 1
        BY <1>1
      <3> QED BY <3>1, <3>2, <3>3
    <2>2. /\ x[j].req = i + 1 /\ x[j - 1].req = i + 1
          /\ x[j].t \in {"chunk", "end", "corrupt"} /\ x[j - 1].t \in {"head", "chunk"}
          /\ x[j].t = "chunk" => x[j].n = x[j - 1].n + 1 /\ x[j].n <= s[i + 1].body
          /\ x[j].t = "end" => x[j - 1].n = s[i + 1].body /\ ~s[i + 1].corrupt
      BY <1>1 DEF Piece
    <2> QED BY <2>1, <2>2 DEF Continues
  <1>6. \A k \in 1..Len(v) : Continues(v, s, k)
    <2> SUFFICES ASSUME NEW k \in 1..Len(v)
                 PROVE  Continues(v, s, k)
      OBVIOUS
    <2>1. CASE k <= a
      BY <1>1, <1>3, <2>1
    <2>2. CASE k = a + 1
      BY <1>4, <2>2
    <2>3. CASE k > a + 1
      <3>1. PICK j \in 2..b : k = a + j
        <4>1. k - a \in 2..b /\ k = a + (k - a)
          BY <1>1, <1>2, <2>3
        <4> QED BY <4>1
      <3> QED BY <1>5, <3>1
    <2> QED BY <1>1, <1>2, <2>1, <2>2, <2>3
  <1>7. /\ Len(v) >= 1 /\ v[Len(v)].req = i + 1
        /\ v[Len(v)].t \in {"head", "chunk"} => s[i + 1].body = 0 \/ s[i + 1].head = "upgrade"
    <2>1. v[Len(v)] = x[b] /\ Len(v) >= 1
      BY <1>1, <1>2
    <2>2. x[b].req = i + 1 /\ (x[b].t \in {"head", "chunk"} => s[i + 1].body = 0 \/ s[i + 1].head = "upgrade")
      BY <1>1 DEF Piece
    <2> QED BY <2>1, <2>2
  <1> QED BY <1>6, <1>7 DEF Pieces

LEMMA TokenIn ==
  ASSUME NEW s, NEW i \in 1..Len(s), NEW t \in {"head", "chunk", "end", "corrupt", "malformed"}, NEW n \in Nat,
         NEW x, x = [t |-> t, req |-> i, n |-> n]
  PROVE  x \in InTokens(s) /\ x.t = t /\ x.req = i /\ x.n = n
  BY DEF InTokens

\* The tokens x of a request of kind k: its head hd, n chunks c and their end z.
Chunked(k, i, n, c) ==
  \A j \in 1..n : /\ c[j].t = (IF k.corrupt /\ j = n THEN "corrupt" ELSE "chunk")
                  /\ c[j].req = i /\ c[j].n = j
Closed(k, i, n, z) ==
  \/ Len(z) = 0 /\ (n = 0 \/ k.corrupt \/ k.head = "upgrade")
  \/ Len(z) = 1 /\ n > 0 /\ ~k.corrupt /\ z[1].t = "end" /\ z[1].req = i
Laid(n, hd, c, z, x) ==
  /\ Len(x) = 1 + n + Len(z) /\ x[1] = hd
  /\ \A j \in 1..n : x[j + 1] = c[j]
  /\ Len(z) = 1 => x[n + 2] = z[1]

\* Tokens that are laid out so are those of a request.
LEMMA BodyPiece ==
  ASSUME NEW s, NEW i \in 1..Len(s), NEW k, k = s[i], NEW n \in Nat, n = k.body,
         NEW hd, hd.t = "head", hd.req = i, hd.n = 0, NEW c, Chunked(k, i, n, c), NEW z, Closed(k, i, n, z),
         NEW x \in Seq(InTokens(s)), Laid(n, hd, c, z, x)
  PROVE  Piece(s, i, x)
  <1>1. PICK l \in {0, 1} : l = Len(z)
    BY DEF Closed
  <1>2. Len(x) = 1 + n + l /\ x[1] = hd /\ (\A j \in 1..n : x[j + 1] = c[j]) /\ (l = 1 => x[n + 2] = z[1])
    BY <1>1 DEF Laid
  <1>3. /\ l = 0 => n = 0 \/ k.corrupt \/ k.head = "upgrade"
        /\ l = 1 => n > 0 /\ ~k.corrupt /\ z[1].t = "end" /\ z[1].req = i
    <2>1. \/ l = 0 /\ (n = 0 \/ k.corrupt \/ k.head = "upgrade")
          \/ l = 1 /\ n > 0 /\ ~k.corrupt /\ z[1].t = "end" /\ z[1].req = i
      BY <1>1, Zenon DEF Closed
    <2> QED BY <2>1
  <1>4. \A j \in 1..n : /\ c[j].t \in {"chunk", "corrupt"} /\ c[j].req = i /\ c[j].n = j
                        /\ j < n => c[j].t = "chunk"
                        /\ ~k.corrupt => c[j].t = "chunk"
                        /\ j = n /\ k.corrupt => c[j].t = "corrupt"
    BY DEF Chunked
  <1>5. \A j \in 1..Len(x) : x[j].req = i
    <2> SUFFICES ASSUME NEW j \in 1..Len(x)
                 PROVE  x[j].req = i
      OBVIOUS
    <2>1. CASE j = 1
      BY <1>2, <2>1
    <2>2. CASE j > 1 /\ j <= n + 1
      <3>1. j - 1 \in 1..n /\ j = (j - 1) + 1
        BY <2>2
      <3>2. x[j] = c[j - 1]
        BY <1>2, <3>1
      <3> QED BY <1>4, <3>1, <3>2
    <2>3. CASE j > n + 1
      <3>1. PICK N \in Nat : N = Len(x) /\ N = 1 + n + l
        BY <1>2
      <3>2. j = n + 2 /\ l = 1
        BY <2>3, <3>1
      <3> QED BY <1>2, <1>3, <3>2
    <2> QED BY <2>1, <2>2, <2>3
  <1>6. ASSUME NEW j \in 2..Len(x)
        PROVE  /\ x[j].t \in {"chunk", "end", "corrupt"} /\ x[j - 1].t \in {"head", "chunk"}
               /\ x[j].t = "chunk" => x[j].n = x[j - 1].n + 1 /\ x[j].n <= n
               /\ x[j].t = "end" => x[j - 1].n = n /\ ~k.corrupt
    <2>1. PICK m \in Nat : m = j - 1 /\ m >= 1 /\ j = m + 1
      OBVIOUS
    <2>2. CASE m = 1 /\ n > 0
      <3>1. x[1 + 1] = c[1] /\ 1 \in 1..n
        <4>1. 1 \in 1..n
          BY <2>2
        <4> QED BY <1>2, <4>1, Zenon
      <3>2. j = 1 + 1 /\ j - 1 = 1
        BY <2>1, <2>2
      <3>3. x[j] = c[1] /\ x[j - 1] = hd
        BY <1>2, <3>1, <3>2, Zenon
      <3>4. c[1].t \in {"chunk", "corrupt"} /\ c[1].n = 1
        BY <1>4, <3>1
      <3> QED BY <2>2, <3>3, <3>4
    <2>3. CASE m > 1 /\ m <= n
      <3>1. x[j] = c[m] /\ m \in 1..n
        BY <1>2, <2>1, <2>3
      <3>2. m - 1 \in 1..n /\ m = (m - 1) + 1 /\ m - 1 < n
        BY <2>1, <2>3
      <3>3. x[m] = c[m - 1]
        BY <1>2, <3>2
      <3>4. c[m].n = m /\ c[m - 1].n = m - 1 /\ c[m - 1].t = "chunk" /\ c[m].t \in {"chunk", "corrupt"}
        BY <1>4, <3>1, <3>2
      <3> QED BY <2>1, <2>3, <3>1, <3>3, <3>4
    <2>4. CASE m > n
      <3>1. m = n + 1 /\ l = 1 /\ n > 0 /\ ~k.corrupt /\ j = n + 2
        BY <1>2, <1>3, <2>1, <2>4
      <3>2. x[j] = z[1] /\ n \in 1..n
        BY <1>2, <2>1, <3>1
      <3>3. x[m] = c[n]
        BY <1>2, <3>1, <3>2
      <3>4. c[n].n = n /\ c[n].t = "chunk" /\ z[1].t = "end"
        BY <1>3, <1>4, <3>1, <3>2
      <3> QED BY <2>1, <3>1, <3>2, <3>3, <3>4
    <2> QED BY <2>1, <2>2, <2>3, <2>4
  <1>7. x[Len(x)].t \in {"head", "chunk"} => n = 0 \/ k.head = "upgrade"
    <2>1. CASE l = 1
      <3>1. Len(x) = n + 2
        BY <1>2, <2>1
      <3> QED BY <1>2, <1>3, <2>1, <3>1
    <2>2. CASE l = 0 /\ n > 0 /\ k.corrupt
      <3>1. Len(x) = n + 1 /\ n \in 1..n
        BY <1>2, <2>2
      <3>2. x[Len(x)] = c[n]
        BY <1>2, <3>1
      <3> QED BY <1>4, <2>2, <3>1, <3>2
    <2>3. CASE l = 0 /\ ~(n > 0 /\ k.corrupt)
      BY <1>3, <2>3
    <2> QED BY <2>1, <2>2, <2>3
  <1>8. Len(x) >= 1
    BY <1>2
  <1> QED BY <1>2, <1>5, <1>6, <1>7, <1>8 DEF Piece

\* Tokens lays them out so.
LEMMA TokensFacts ==
  ASSUME NEW s \in Seq(RequestKinds), NEW i \in 1..Len(s)
  PROVE  Tokens(s[i], i) \in Seq(InTokens(s)) /\ Piece(s, i, Tokens(s[i], i))
  <1>1. PICK k \in RequestKinds : k = s[i]
    OBVIOUS
  <1>2. PICK n \in Nat : n = k.body
    BY DEF RequestKinds
  <1>3. CASE k.head = "malformed"
    <2>1. PICK m : m = [t |-> "malformed", req |-> i, n |-> 0]
      OBVIOUS
    <2>2. Tokens(k, i) = <<m>>
      BY <1>1, <1>3, <2>1 DEF Tokens
    <2>3. m \in InTokens(s) /\ m.t = "malformed" /\ m.req = i /\ m.n = 0
      BY <2>1, TokenIn
    <2>4. PICK x : x = <<m>>
      OBVIOUS
    <2>5. x \in Seq(InTokens(s)) /\ Len(x) = 1 /\ x[1] = m
      BY <2>3, <2>4
    <2> QED BY <1>1, <2>2, <2>3, <2>4, <2>5 DEF Piece
  <1>4. CASE k.head # "malformed"
    <2>1. PICK hd, c, z :
            /\ hd = [t |-> "head", req |-> i, n |-> 0]
            /\ c = [j \in 1..k.body |->
                      [t |-> IF k.corrupt /\ j = k.body THEN "corrupt" ELSE "chunk", req |-> i, n |-> j]]
            /\ z = IF k.body > 0 /\ ~k.corrupt /\ k.head # "upgrade"
                   THEN <<[t |-> "end", req |-> i, n |-> 0]>> ELSE << >>
      OBVIOUS
    <2>2. Tokens(k, i) = <<hd>> \o c \o z
      BY <1>1, <1>4, <2>1, Zenon DEF Tokens
    <2>3. hd \in InTokens(s) /\ hd.t = "head" /\ hd.req = i /\ hd.n = 0
      BY <2>1, TokenIn
    <2>4. \A j \in 1..n : /\ c[j].t = (IF k.corrupt /\ j = n THEN "corrupt" ELSE "chunk")
                          /\ c[j].req = i /\ c[j].n = j /\ c[j] \in InTokens(s)
      <3> SUFFICES ASSUME NEW j \in 1..n
                   PROVE  /\ c[j].t = (IF k.corrupt /\ j = n THEN "corrupt" ELSE "chunk")
                          /\ c[j].req = i /\ c[j].n = j /\ c[j] \in InTokens(s)
        OBVIOUS
      <3>1. PICK u \in {"head", "chunk", "end", "corrupt", "malformed"} :
              u = IF k.corrupt /\ j = n THEN "corrupt" ELSE "chunk"
        OBVIOUS
      <3>2. c[j] = [t |-> u, req |-> i, n |-> j]
        BY <1>2, <2>1, <3>1
      <3>3. c[j].t = u /\ c[j].req = i /\ c[j].n = j /\ c[j] \in InTokens(s)
        BY <3>2, TokenIn
      <3> QED BY <3>1, <3>3
    <2>5. c \in Seq(InTokens(s)) /\ Len(c) = n
      <3>1. c = [j \in 1..n |-> c[j]]
        BY <1>2, <2>1
      <3> QED BY <2>4, <3>1
    <2>6. /\ z \in Seq(InTokens(s))
          /\ \/ z = << >> /\ (n = 0 \/ k.corrupt \/ k.head = "upgrade")
             \/ /\ n > 0 /\ ~k.corrupt /\ Len(z) = 1
                /\ z[1].t = "end" /\ z[1].req = i
      <3>1. CASE k.body > 0 /\ ~k.corrupt /\ k.head # "upgrade"
        <4>1. PICK y : y = [t |-> "end", req |-> i, n |-> 0]
          OBVIOUS
        <4>2. y \in InTokens(s) /\ y.t = "end" /\ y.req = i
          BY <4>1, TokenIn
        <4>3. z = <<y>>
          BY <2>1, <3>1, <4>1
        <4> QED BY <1>2, <3>1, <4>2, <4>3
      <3>2. CASE ~(k.body > 0 /\ ~k.corrupt /\ k.head # "upgrade")
        <4>1. z = << >>
          BY <2>1, <3>2
        <4> QED BY <1>2, <3>2, <4>1
      <3> QED BY <3>1, <3>2
    <2>7. PICK A : A = InTokens(s)
      OBVIOUS
    <2>8. PICK h \in Seq(A) : h = <<hd>> /\ Len(h) = 1 /\ h[1] = hd
      <3>1. PICK y \in A : y = hd
        BY <2>3, <2>7, Zenon
      <3>2. <<y>> \in Seq(A) /\ Len(<<y>>) = 1 /\ <<y>>[1] = y
        OBVIOUS
      <3> QED BY <3>1, <3>2, Zenon
    <2>9. c \in Seq(A) /\ z \in Seq(A)
      BY <2>5, <2>6, <2>7
    <2>10. h \o c \in Seq(A) /\ Chained(h, c, h \o c)
      BY <2>9, Concat
    <2>11. PICK v \in Seq(A) : v = h \o c /\ Chained(h, c, v)
      BY <2>10
    <2>12. v \o z \in Seq(A) /\ Chained(v, z, v \o z)
      BY <2>9, <2>11, Concat
    <2>13. PICK x \in Seq(A) : x = v \o z /\ Chained(v, z, x)
      BY <2>12
    <2>14. x = Tokens(k, i)
      BY <2>2, <2>8, <2>11, <2>13
    <2>15. Len(v) = 1 + n /\ v[1] = hd /\ \A j \in 1..n : v[j + 1] = c[j]
      <3>1. \A j \in 1..n : j + 1 = 1 + j
        OBVIOUS
      <3> QED BY <2>5, <2>8, <2>11, <3>1 DEF Chained
    <2>16. /\ Len(x) = 1 + n + Len(z) /\ x[1] = hd /\ \A j \in 1..n : x[j + 1] = c[j]
           /\ \A j \in 1..Len(z) : x[n + 1 + j] = z[j]
      <3>1. Len(x) = 1 + n + Len(z) /\ \A j \in 1..(1 + n) : x[j] = v[j]
        BY <2>13, <2>15 DEF Chained
      <3>2. \A j \in 1..Len(z) : x[(1 + n) + j] = z[j]
        BY <2>13, <2>15 DEF Chained
      <3>3. \A j \in 1..Len(z) : (1 + n) + j = n + 1 + j
        <4>1. Len(z) \in Nat
          BY <2>9
        <4> QED BY <4>1
      <3> QED BY <2>15, <3>1, <3>2, <3>3
    <2>17. x \in Seq(InTokens(s)) /\ Piece(s, i, x)
      <3>1. x \in Seq(InTokens(s))
        BY <2>7, Zenon
      <3>2. Chunked(k, i, n, c)
        BY <2>4 DEF Chunked
      <3>3. Closed(k, i, n, z)
        BY <2>6 DEF Closed
      <3>4. Laid(n, hd, c, z, x)
        <4>1. Len(z) = 1 => x[n + 2] = z[1]
          <5>1. n + 1 + 1 = n + 2
            OBVIOUS
          <5>2. ASSUME Len(z) = 1
                PROVE  1 \in 1..Len(z)
            BY <5>2
          <5> QED BY <2>16, <5>1, <5>2, Zenon
        <4> QED BY <2>16, <4>1, Zenon DEF Laid
      <3>5. Piece(s, i, x)
        BY <1>1, <1>2, <2>3, <3>1, <3>2, <3>3, <3>4, BodyPiece
      <3> QED BY <3>1, <3>5
    <2> QED BY <1>1, <2>14, <2>17
  <1> QED BY <1>3, <1>4

\* The recursion that defines TokensOf has a solution.
Builds(s, n, f) ==
  /\ TokensOf(s) = f[n] /\ f[0] = << >>
  /\ \A i \in 1..n : f[i] = f[i - 1] \o Tokens(s[i], i)

LEMMA TokensUpTo ==
  ASSUME NEW s, NEW n \in Nat, n = Len(s)
  PROVE  \E f : Builds(s, n, f)
  <1> DEFINE T(i) == Tokens(s[i], i)
             Body(f, i) == IF i = 0 THEN << >> ELSE f[i - 1] \o T(i)
             Solves(f, m) == f = [i \in 0..m |-> Body(f, i)]
             Built == {m \in Nat : m <= n => \E f : Solves(f, m)}
  <1> HIDE DEF T
  <1>1. 0 \in Built
    <2>1. Solves([i \in 0..0 |-> << >>], 0)
      OBVIOUS
    <2> QED BY <2>1
  <1>2. ASSUME NEW m \in Nat, m \in Built
        PROVE  m + 1 \in Built
    <2>1. m + 1 \in Nat
      OBVIOUS
    <2> SUFFICES ASSUME m + 1 <= n
                 PROVE  \E f : Solves(f, m + 1)
      BY <2>1, Zenon
    <2>2. PICK f : Solves(f, m)
      <3>1. m <= n
        OBVIOUS
      <3> HIDE DEF Solves
      <3> QED BY <1>2, <3>1
    <2>3. PICK last : last = f[m] \o T(m + 1)
      OBVIOUS
    <2>4. PICK g : g = [i \in 0..m + 1 |-> IF i = m + 1 THEN last ELSE f[i]]
      OBVIOUS
    <2>5. \A i \in 0..m : g[i] = f[i]
      BY <2>4
    <2>6. ASSUME NEW i \in 0..m + 1
          PROVE  g[i] = Body(g, i)
      <3>1. CASE i = m + 1
        <4>1. g[i] = last /\ i # 0 /\ i - 1 = m /\ g[i - 1] = f[m]
          BY <2>4, <2>5, <3>1
        <4> QED BY <2>3, <3>1, <4>1, Zenon
      <3>2. CASE i # m + 1
        <4>1. i \in 0..m /\ g[i] = f[i]
          BY <2>5, <3>2
        <4>2. f[i] = Body(f, i)
          BY <2>2, <4>1
        <4>3. i # 0 => g[i - 1] = f[i - 1]
          BY <2>5, <4>1
        <4> QED BY <4>1, <4>2, <4>3, Zenon
      <3> QED BY <3>1, <3>2
    <2>7. g = [i \in 0..m + 1 |-> g[i]]
      BY <2>4
    <2> QED BY <2>6, <2>7
  <1>3. n \in Built
    <2> HIDE DEF Built
    <2>1. Nat \subseteq Built
      BY <1>1, <1>2, CountUp
    <2> QED BY <2>1
  <1>4. \E f : Solves(f, n)
    BY <1>3
  <1>5. PICK f : f = CHOOSE g : Solves(g, n)
    OBVIOUS
  <1>6. TokensOf(s) = f[n]
    BY <1>5, Zenon DEF TokensOf, T
  <1> HIDE DEF Solves
  <1>7. Solves(f, n)
    BY <1>4, <1>5, Zenon
  <1>8. f[0] = Body(f, 0) /\ \A k \in 1..n : f[k] = Body(f, k)
    <2> HIDE DEF Body
    <2>1. \A k \in 0..n : f[k] = Body(f, k)
      BY <1>7 DEF Solves
    <2> QED BY <2>1
  <1>9. \A k \in 1..n : Body(f, k) = f[k - 1] \o T(k)
    OBVIOUS
  <1>10. Builds(s, n, f)
    BY <1>6, <1>8, <1>9, Zenon DEF T, Builds
  <1> QED BY <1>10

\* What a client writes is well formed.
LEMMA TokensOfFacts ==
  ASSUME NEW s \in Seq(RequestKinds)
  PROVE  Pieces(s, Len(s), TokensOf(s))
  <1>1. PICK n \in Nat : n = Len(s)
    OBVIOUS
  <1>2. PICK f : Builds(s, n, f)
    BY <1>1, TokensUpTo
  <1> DEFINE Built == {m \in Nat : m <= n => Pieces(s, m, f[m])}
  <1>3. 0 \in Built
    <2>1. PICK x : x = << >>
      OBVIOUS
    <2>2. x \in Seq(InTokens(s)) /\ Len(x) = 0
      BY <2>1
    <2>3. Pieces(s, 0, x)
      BY <2>1, <2>2 DEF Pieces
    <2> QED BY <1>2, <2>1, <2>3 DEF Builds
  <1>4. ASSUME NEW m \in Nat, m \in Built
        PROVE  m + 1 \in Built
    <2> SUFFICES ASSUME m + 1 <= n
                 PROVE  Pieces(s, m + 1, f[m + 1])
      OBVIOUS
    <2>1. PICK u : u = f[m] /\ Pieces(s, m, u)
      BY <1>4
    <2>2. PICK i \in 1..Len(s) : i = m + 1 /\ i \in 1..n /\ i - 1 = m
      BY <1>1
    <2>3. PICK x : x = Tokens(s[i], i) /\ x \in Seq(InTokens(s)) /\ Piece(s, i, x)
      BY TokensFacts
    <2>4. PICK A : A = InTokens(s)
      OBVIOUS
    <2>5. u \in Seq(A) /\ x \in Seq(A)
      BY <2>1, <2>3, <2>4 DEF Pieces
    <2>6. PICK v : v = u \o x /\ v \in Seq(A) /\ Chained(u, x, v)
      BY <2>5, Concat
    <2>7. v = f[m + 1]
      BY <1>2, <2>1, <2>2, <2>3, <2>6, Zenon DEF Builds
    <2>8. Piece(s, m + 1, x)
      BY <2>2, <2>3, Zenon
    <2>9. v \in Seq(InTokens(s))
      BY <2>4, <2>6, Zenon
    <2>10. Pieces(s, m + 1, v)
      BY <2>1, <2>6, <2>8, <2>9, PieceAdded, Zenon
    <2> QED BY <2>7, <2>10, Zenon
  <1>5. n \in Built
    <2> HIDE DEF Built
    <2>1. Nat \subseteq Built
      BY <1>3, <1>4, CountUp
    <2> QED BY <2>1
  <1>6. Pieces(s, n, f[n])
    BY <1>5
  <1> QED BY <1>1, <1>2, <1>6, Zenon DEF Builds

LEMMA WireFacts ==
  ASSUME NEW s \in Seq(RequestKinds), s = conf.script
  PROVE  Carries(s, Wire)
  BY TokensOfFacts DEF Wire, Pieces, Carries

-----------------------------------------------------------------------------
(* The inductive invariant. *)

\* What Sound says but for the wire.
Healthy(s, w, d, n) ==
  /\ DispType(s, d) /\ NetType(s, n) /\ WireRead(w, d, n) /\ Bodies(s, w, d, n) /\ Whole(s, d, n)
  /\ d.outcome = "open" => Standing(s, w, d, n)
  /\ Pipelined(s) => InOrder(Out(d, n))

\* The network before a client has written anything.
Silent(n) == n = [sent |-> 0, sock |-> << >>, peer |-> "open", blocked |-> FALSE, got |-> << >>]

\* A connection that has just been accepted, or has not yet been.
LEMMA NewTaskFacts ==
  ASSUME NEW r, r = NewTask
  PROVE  /\ TaskType(r) /\ Untouched(r) /\ ~r.go /\ r.alive /\ ~r.eof /\ r.saw = "nothing"
         /\ r.got = << >> /\ r.items = << >>
  <1>1. r.got = << >> /\ r.items = << >> /\ ~r.go /\ r.alive /\ ~r.eof /\ ~r.err /\ r.saw = "nothing"
    BY DEF NewTask
  <1>2. IsTask(r)
    BY DEF NewTask, IsTask, TaskFields
  <1>3. Held(r) = 0
    <2>1. Len(<< >>) = 0
      OBVIOUS
    <2>2. PICK a, b : a = Len(r.got) /\ b = Len(r.items) /\ Held(r) = a + b
      BY Zenon DEF Held
    <2>3. a = 0 /\ b = 0
      BY <1>1, <2>1, <2>2, Zenon
    <2> QED BY <2>2, <2>3
  <1>4. r.got \in Seq(Nat) /\ r.items \in Seq(Nat)
    <2>1. << >> \in Seq(Nat)
      OBVIOUS
    <2> QED BY <1>1, <2>1, Zenon
  <1> QED BY <1>1, <1>2, <1>3, <1>4, Zenon DEF TaskType, Untouched

LEMMA NewHealthy ==
  ASSUME NEW c, NEW s \in Seq(RequestKinds), s = c.script, NEW w \in Seq(InTokens(s)),
         NEW d, d = NewDispatcher(c), NEW n, Silent(n)
  PROVE  Healthy(s, w, d, n)
  <1>1. /\ IsNet(n) /\ n.sent = 0 /\ n.sock = << >> /\ n.peer = "open" /\ n.got = << >>
    BY DEF Silent, IsNet, NetFields
  <1>2. PICK N \in Nat : N = Len(s)
    OBVIOUS
  <1>3. PICK q, F, T : /\ q = [i \in 1..Len(c.script) |-> NewTask]
                       /\ F = (IF c.ka = "disabled" THEN {} ELSE {"KEEPALIVE"})
                       /\ T = (IF c.ka = "timeout" THEN "armed" ELSE "none")
    OBVIOUS
  <1>4. d = [pc |-> "idle", ret |-> "poll", updated |-> FALSE, drain |-> FALSE,
             flags |-> F, state |-> NoState, payload |-> 0, messages |-> << >>, error |-> FALSE,
             readBuf |-> << >>, writeBuf |-> << >>, alive |-> FALSE, timer |-> T, fresh |-> FALSE,
             eof |-> FALSE, woken |-> TRUE, outcome |-> "open", rq |-> q]
    BY <1>3, Zenon DEF NewDispatcher
  <1>5. /\ d.pc = "idle" /\ d.flags = F /\ d.state = NoState /\ d.payload = 0 /\ d.messages = << >> /\ ~d.error
        /\ d.readBuf = << >> /\ d.writeBuf = << >> /\ ~d.eof /\ d.outcome = "open" /\ d.rq = q
    BY <1>4
  <1>6. IsDisp(d)
    <2> HIDE DEF NoState
    <2> QED BY <1>4 DEF IsDisp, Fields
  <1>7. /\ "SHUTDOWN" \notin F /\ "READ_DISCONNECT" \notin F /\ "WRITE_DISCONNECT" \notin F /\ "STARTED" \notin F
    BY <1>3
  <1>8. /\ q = [i \in 1..N |-> q[i]]
        /\ \A i \in 1..N : q[i] = NewTask
    BY <1>2, <1>3
  <1>9. PICK e : e = << >> /\ Len(e) = 0 /\ 1..Len(e) = {}
    <2>1. Len(<< >>) = 0
      OBVIOUS
    <2>2. 1..0 = {}
      OBVIOUS
    <2> QED BY <2>1, <2>2, Zenon
  <1>10. \A A : e \in Seq(A)
    <2> SUFFICES ASSUME NEW A
                 PROVE  << >> \in Seq(A)
      BY <1>9, Zenon
    <2> QED OBVIOUS
  <1>11. DispType(s, d)
    <2>1. Tasks(d.rq, s)
      BY <1>2, <1>5, <1>8, NewTaskFacts DEF Tasks
    <2>2. d.readBuf \in Seq(InTokens(s)) /\ d.writeBuf \in Seq(OutTokens) /\ d.messages \in Seq(Messages(s))
      BY <1>5, <1>9, <1>10, Zenon
    <2>3. 1..Len(d.messages) = {}
      BY <1>5, <1>9, Zenon
    <2>4. d.payload \in 0..Len(s) /\ StateOf(d.state, s)
      BY <1>2, <1>5 DEF StateOf
    <2> QED BY <1>6, <2>1, <2>2, <2>3, <2>4, Zenon DEF DispType
  <1>12. NetType(s, n)
    <2>1. n.sock \in Seq(InTokens(s)) /\ n.got \in Seq(OutTokens)
      BY <1>1, <1>9, <1>10, Zenon
    <2> QED BY <1>1, <2>1 DEF NetType
  <1>13. Taken(d, n) = 0
    <2>1. Len(d.readBuf) = 0 /\ Len(n.sock) = 0
      BY <1>1, <1>5, <1>9, Zenon
    <2>2. 0 - 0 - 0 = 0
      OBVIOUS
    <2> QED BY <1>1, <2>1, <2>2, Zenon DEF Taken
  <1>14. WireRead(w, d, n)
    <2>1. 1..Len(d.readBuf) = {} /\ 1..Len(n.sock) = {}
      BY <1>1, <1>5, <1>9, Zenon
    <2>2. n.sent \in 0..Len(w)
      BY <1>1
    <2>3. 0 \in Nat
      OBVIOUS
    <2> QED BY <1>13, <2>1, <2>2, <2>3, Zenon DEF WireRead
  <1>15. Bodies(s, w, d, n)
    <2>1. ASSUME NEW i \in 1..Len(s)
          PROVE  TaskOK(s[i], d.rq[i], n.peer) /\ Untouched(d.rq[i])
      <3>1. PICK r : r = d.rq[i] /\ r = NewTask
        BY <1>2, <1>5, <1>8
      <3>2. /\ Untouched(r) /\ r.alive /\ ~r.eof /\ r.saw = "nothing" /\ r.got = << >> /\ r.items = << >>
        BY <3>1, NewTaskFacts
      <3>3. 1..Len(r.got) = {} /\ 1..Len(r.items) = {}
        BY <1>9, <3>2, Zenon
      <3>4. s[i].body \in Nat
        <4>1. s[i] \in RequestKinds
          OBVIOUS
        <4> QED BY <4>1 DEF RequestKinds
      <3>5. Held(r) <= s[i].body
        BY <3>2, <3>4 DEF Untouched
      <3>6. TaskOK(s[i], r, n.peer)
        BY <3>2, <3>3, <3>5, Zenon DEF TaskOK
      <3> QED BY <3>1, <3>2, <3>6
    <2>2. d.state.tag = "None"
      BY <1>5 DEF NoState
    <2>3. 1..Taken(d, n) = {}
      BY <1>13
    <2> QED BY <1>5, <1>13, <2>1, <2>2, <2>3 DEF Bodies, Admitted
  <1>16. Out(d, n) = e
    <2>1. e \o e = e
      BY <1>9
    <2> QED BY <1>1, <1>5, <1>9, <2>1, Zenon DEF Out, Joined
  <1>17. \A k \in 1..Len(e) : FALSE
    BY <1>9
  <1>18. Standing(s, w, d, n)
    <2>1. Flow(d)
      <3>1. \A k \in 1..Len(d.messages) : FALSE
        BY <1>5, <1>9, <1>17, Zenon
      <3> QED BY <1>5, <1>7, <3>1 DEF Flow
    <2>2. Answers(s, Out(d, n), d)
      BY <1>16, <1>17, Zenon DEF Answers, Has
    <2>3. Statuses(e) = 0
      <3>1. {j \in 1..Len(e) : e[j].t = "status"} = {}
        BY <1>17
      <3> QED BY <3>1, FS_EmptySet, Zenon DEF Statuses, StatusesUpTo
    <2>4. InOrder(e)
      BY <1>17, Zenon DEF InOrder
    <2>5. Begun(e, d) = 0
      BY <1>5, <2>3 DEF Begun, Called, NoState
    <2>6. Queued(s, d, 0, 0)
      <3>1. \A k \in 1..Len(d.messages) : FALSE
        BY <1>5, <1>9, <1>17, Zenon
      <3>2. Len(d.messages) = 0
        BY <1>5, <1>9, Zenon
      <3>3. Lined(d.messages, 0, d.flags)
        BY <3>1, Zenon DEF Lined
      <3>4. \A i \in 1..Len(s) : ~d.rq[i].go
        BY <1>2, <1>5, <1>8, NewTaskFacts
      <3> QED BY <1>5, <3>2, <3>3, <3>4 DEF Queued
    <2>7. Reached(w, d, n) = 0
      BY <1>13 DEF Reached
    <2>8. Ordered(s, Out(d, n), d, Reached(w, d, n))
      BY <1>16, <2>4, <2>5, <2>6, <2>7 DEF Ordered
    <2>9. Quits(s, d)
      BY <1>5 DEF Quits
    <2> QED BY <2>1, <2>2, <2>8, <2>9, Zenon DEF Standing
  <1>19. Whole(s, d, n)
    BY <1>5 DEF Whole
  <1>20. InOrder(Out(d, n))
    BY <1>16, <1>17, Zenon DEF InOrder
  <1> QED BY <1>11, <1>12, <1>14, <1>15, <1>18, <1>19, <1>20 DEF Healthy

LEMMA SoundParts ==
  ASSUME NEW s, NEW w, NEW d, NEW n
  PROVE  /\ Sound(s, w, d, n) => Healthy(s, w, d, n)
         /\ Carries(s, w) /\ Healthy(s, w, d, n) =>
              Connected(s, w, d, n) /\ (d.outcome = "open" => Standing(s, w, d, n))
  BY Zenon DEF Sound, Healthy, Connected

\* What poll_flush leaves, wherever it is called, unless it fails.
Flushed(f, m) ==
  \/ /\ m = [net EXCEPT !.got = @ \o disp.writeBuf, !.blocked = FALSE]
     /\ f = [disp EXCEPT !.writeBuf = << >>]
  \/ \E k \in 0..Len(disp.writeBuf) - 1 :
       /\ m = [net EXCEPT !.got = @ \o SubSeq(disp.writeBuf, 1, k), !.blocked = TRUE]
       /\ f = [disp EXCEPT !.writeBuf = SubSeq(@, k + 1, Len(@))]

LEMMA FlushedFacts ==
  ASSUME NEW s, DispType(s, disp), NetType(s, net), NEW f, NEW m, Flushed(f, m)
  PROVE  /\ Flushes(disp, net, f, m) /\ Keeps(disp, f, {"writeBuf"})
         /\ disp.writeBuf = << >> => f.writeBuf = << >>
  <1>1. CASE /\ m = [net EXCEPT !.got = @ \o disp.writeBuf, !.blocked = FALSE]
             /\ f = [disp EXCEPT !.writeBuf = << >>]
    BY <1>1, FlushAll, Zenon
  <1>2. ASSUME NEW k \in 0..Len(disp.writeBuf) - 1,
               m = [net EXCEPT !.got = @ \o SubSeq(disp.writeBuf, 1, k), !.blocked = TRUE],
               f = [disp EXCEPT !.writeBuf = SubSeq(@, k + 1, Len(@))]
        PROVE  Flushes(disp, net, f, m) /\ disp.writeBuf # << >> /\ Keeps(disp, f, {"writeBuf"})
    BY <1>2, FlushPart, Zenon
  <1> QED BY <1>1, <1>2, Zenon DEF Flushed

\* The two steps that flush.
LEMMA PollFlushShape ==
  ASSUME PollFlush
  PROVE  \/ \E f : /\ Flushed(f, net')
                   /\ disp' = Goto(f, IF f.drain /\ f.writeBuf = << >> THEN "respond" ELSE "end")
         \/ disp' = Ended(disp, "error") /\ net' = net
  BY Zenon DEF PollFlush, Flush, Flushed

LEMMA PollShutdownShape ==
  ASSUME PollShutdown
  PROVE  \/ "WRITE_DISCONNECT" \in disp.flags /\ disp' = Ended(disp, "ok") /\ net' = net
         \/ \E f : /\ Flushed(f, net')
                   /\ disp' = IF f.writeBuf = << >> THEN Ended(f, "ok") ELSE Goto(f, "idle")
         \/ disp' = Ended(disp, "error") /\ net' = net
  BY Zenon DEF PollShutdown, Flush, Flushed

\* Ended.
LEMMA EndedFacts ==
  ASSUME NEW d, IsDisp(d), NEW x, NEW e, e = Ended(d, x)
  PROVE  Keeps(d, e, {"outcome"}) /\ e.outcome = x
  BY DEF Ended, Keeps, IsDisp, Fields

\* After the flush, or without one, only pc and the outcome change.
LEMMA FlushedOn ==
  ASSUME NEW d, NEW n, NEW f, NEW m, Flushes(d, n, f, m), Keeps(d, f, {"writeBuf"}),
         NEW e, Keeps(f, e, {"pc"}) \/ Keeps(f, e, {"outcome"}), e.writeBuf = f.writeBuf
  PROVE  Flushes(d, n, e, m)
  <1>1. Keeps(d, e, {"writeBuf", "pc", "outcome"})
    BY DEF Keeps
  <1> QED BY <1>1, Zenon DEF Flushes, Out

LEMMA Unflushed ==
  ASSUME NEW s, NEW d, NEW n, DispType(s, d), NetType(s, n), NEW e, Keeps(d, e, {"outcome"}),
         e.writeBuf = d.writeBuf
  PROVE  Flushes(d, n, e, n)
  <1>1. Keeps(d, e, {"writeBuf", "pc", "outcome"})
    BY DEF Keeps
  <1>2. d.writeBuf \in Seq(OutTokens) /\ IsNet(n) /\ n.got \in Seq(OutTokens)
    BY DEF DispType, NetType
  <1> QED BY <1>1, <1>2, Zenon DEF Flushes, Out

\* The dispatcher's steps keep a connection sound.
LEMMA TurnSound ==
  ASSUME NEW s, NEW w, Carries(s, w), Healthy(s, w, disp, net), Turn, NEW e, e = disp', NEW m, m = net'
  PROVE  Sound(s, w, e, m)
  <1>1. disp.outcome = "open"
    BY Zenon DEF Turn, PollKeepalive, ReadAvailable, Decode, ReadEof, PollResponse, PollFlush, PollEnd,
                 PollShutdown, At, Idle, Running
  <1>2. Connected(s, w, disp, net) /\ Standing(s, w, disp, net)
    BY <1>1, SoundParts, Zenon
  <1>3. DispType(s, disp) /\ NetType(s, net) /\ IsDisp(disp)
    BY <1>2, Zenon DEF Connected, DispType
  <1>4. ASSUME disp' = Ended(disp, "error"), net' = net
        PROVE  Sound(s, w, e, m)
    BY <1>1, <1>2, <1>4, ReadReset, Zenon
  <1>5. CASE PollKeepalive
    <2>1. disp.pc \in {"idle", "poll"} /\ net' = net
      BY <1>5 DEF PollKeepalive, At, Idle
    <2>2. e = KeepaliveOf(disp)
      BY <1>5, Zenon DEF PollKeepalive, KeepaliveOf
    <2> QED BY <1>1, <1>2, <2>1, <2>2, KeepaliveStep, Zenon
  <1>6. CASE ReadAvailable
    <2>1. disp.pc = "read"
      BY <1>6, Zenon DEF ReadAvailable, At
    <2>2. CASE disp' = PollRequest([disp EXCEPT !.eof = FALSE], "poll") /\ net' = net
      <3>1. PICK f : f = [disp EXCEPT !.eof = FALSE]
        OBVIOUS
      <3>2. e = PollRequest(f, "poll") /\ m = net
        BY <2>2, <3>1, Zenon
      <3> QED BY <1>1, <1>2, <2>1, <3>1, <3>2, ReadClosed, Zenon
    <2>3. CASE /\ disp' = PollRequest([disp EXCEPT !.readBuf = @ \o net.sock, !.eof = net.peer # "open"], "poll")
               /\ net' = [net EXCEPT !.sock = << >>]
      <3>1. PICK f : f = [disp EXCEPT !.readBuf = @ \o net.sock, !.eof = net.peer # "open"]
        OBVIOUS
      <3>2. Fills(disp, net, f) /\ Empties(net, m)
        BY <2>3, <3>1, Zenon DEF Fills, Empties
      <3>3. e = PollRequest(f, "poll")
        BY <2>3, <3>1, Zenon
      <3> QED BY <1>1, <1>2, <2>1, <3>2, <3>3, ReadOpen, Zenon
    <2> QED BY <1>4, <1>6, <2>2, <2>3, Zenon DEF ReadAvailable
  <1>7. CASE Decode
    <2>1. disp.pc = "decode" /\ net' = net
      BY <1>7, Zenon DEF Decode, At
    <2>2. e = DecodeOf(disp)
      BY <1>7, Zenon DEF Decode, DecodeOf
    <2>3. Connected(s, w, e, net) /\ Standing(s, w, e, net) /\ e.outcome = disp.outcome
      <3>1. PICK f : f = DecodeOf(disp)
        OBVIOUS
      <3>2. /\ Connected(s, w, f, net) /\ Standing(s, w, f, net) /\ f.outcome = disp.outcome
        BY <1>2, <2>1, <3>1, DecodeStanding
      <3> QED BY <2>2, <3>1, <3>2, Zenon
    <2> QED BY <1>1, <2>1, <2>3, GoesOn, Zenon
  <1>8. CASE ReadEof
    <2>1. disp.pc = "eof" /\ net' = net
      BY <1>8, Zenon DEF ReadEof, At
    <2>2. e = EofOf(disp)
      BY <1>8, Zenon DEF ReadEof, EofOf
    <2> QED BY <1>1, <1>2, <2>1, <2>2, EofStep, Zenon
  <1>9. CASE PollResponse
    <2>1. disp.pc = "respond" /\ net' = net
      BY <1>9, Zenon DEF PollResponse, At
    <2>2. e = ResponseOf(disp)
      BY <1>9, Zenon DEF PollResponse, ResponseOf
    <2> QED BY <1>1, <1>2, <2>1, <2>2, ResponseStep, Zenon
  <1>10. CASE PollFlush
    <2>1. disp.pc = "flush"
      BY <1>10, Zenon DEF PollFlush, At
    <2>2. ASSUME NEW f, Flushed(f, net'),
                 disp' = Goto(f, IF f.drain /\ f.writeBuf = << >> THEN "respond" ELSE "end")
          PROVE  Sound(s, w, e, m)
      <3>1. /\ Flushes(disp, net, f, m) /\ Keeps(disp, f, {"writeBuf"})
            /\ disp.writeBuf = << >> => f.writeBuf = << >>
        BY <1>3, <2>2, FlushedFacts, Zenon
      <3>2. PICK p : p \in {"respond", "end"} /\ e = Goto(f, p)
        BY <2>2
      <3>3. IsDisp(f) /\ f.outcome = "open"
        BY <1>1, <3>1 DEF Keeps, Fields
      <3>4. Keeps(f, e, {"pc"}) /\ e.pc = p
        BY <3>2, <3>3, GotoFacts
      <3>5. e.writeBuf = f.writeBuf /\ e.outcome = "open"
        BY <3>3, <3>4 DEF Keeps, Fields
      <3>6. Flushes(disp, net, e, m)
        BY <3>1, <3>4, <3>5, FlushedOn
      <3> QED BY <1>1, <1>2, <2>1, <3>1, <3>2, <3>4, <3>5, <3>6, FlushStep
    <2> QED BY <1>4, <1>10, <2>2, PollFlushShape, Zenon
  <1>11. CASE PollEnd
    <2>1. disp.pc = "end" /\ net' = net /\ e = EndTurn(disp)
      BY <1>11, Zenon DEF PollEnd, At
    <2> QED BY <1>1, <1>2, <2>1, EndStep, Zenon
  <1>12. CASE PollShutdown
    <2>1. disp.pc = "shutdown"
      BY <1>12, Zenon DEF PollShutdown, At
    <2>2. ASSUME NEW f, Flushed(f, net'), disp' = IF f.writeBuf = << >> THEN Ended(f, "ok") ELSE Goto(f, "idle")
          PROVE  Sound(s, w, e, m)
      <3>1. /\ Flushes(disp, net, f, m) /\ Keeps(disp, f, {"writeBuf"})
            /\ disp.writeBuf = << >> => f.writeBuf = << >>
        BY <1>3, <2>2, FlushedFacts, Zenon
      <3>2. IsDisp(f) /\ f.outcome = "open"
        BY <1>1, <3>1 DEF Keeps, Fields
      <3>3. CASE f.writeBuf = << >>
        <4>1. e = Ended(f, "ok")
          BY <2>2, <3>3, Zenon
        <4>2. Keeps(f, e, {"outcome"}) /\ e.outcome = "ok"
          BY <3>2, <4>1, EndedFacts
        <4>3. e.writeBuf = f.writeBuf
          BY <4>2 DEF Keeps, Fields
        <4>4. Flushes(disp, net, e, m)
          BY <3>1, <4>2, <4>3, FlushedOn
        <4> QED BY <1>1, <1>2, <2>1, <3>3, <4>2, <4>3, <4>4, ShutdownStep, Zenon
      <3>4. CASE f.writeBuf # << >>
        <4>1. e = Goto(f, "idle")
          BY <2>2, <3>4, Zenon
        <4>2. Keeps(f, e, {"pc"}) /\ e.pc = "idle"
          BY <3>2, <4>1, GotoFacts
        <4>3. e.writeBuf = f.writeBuf /\ e.outcome = "open"
          BY <3>2, <4>2 DEF Keeps, Fields
        <4>4. Flushes(disp, net, e, m)
          BY <3>1, <4>2, <4>3, FlushedOn
        <4> QED BY <1>1, <1>2, <2>1, <3>1, <4>2, <4>3, <4>4, ShutdownStep, Zenon
      <3> QED BY <3>3, <3>4
    <2>3. ASSUME "WRITE_DISCONNECT" \in disp.flags, disp' = Ended(disp, "ok"), net' = net
          PROVE  Sound(s, w, e, m)
      <3>1. Keeps(disp, e, {"outcome"}) /\ e.outcome = "ok"
        BY <1>3, <2>3, EndedFacts
      <3>2. e.writeBuf = disp.writeBuf
        BY <3>1 DEF Keeps, Fields
      <3>3. Flushes(disp, net, e, m)
        BY <1>3, <2>3, <3>1, <3>2, Unflushed
      <3>4. disp.error \/ disp.writeBuf = << >>
        BY <1>2, <2>3 DEF Standing, Flow
      <3> QED BY <1>1, <1>2, <2>1, <3>1, <3>2, <3>3, <3>4, ShutdownStep, Zenon
    <2> QED BY <1>4, <1>12, <2>2, <2>3, PollShutdownShape, Zenon
  <1> QED BY <1>5, <1>6, <1>7, <1>8, <1>9, <1>10, <1>11, <1>12, Zenon DEF Turn

\* The environment's steps.
LEMMA BetweenSound ==
  ASSUME NEW s, NEW w, Carries(s, w), w = Wire, Healthy(s, w, disp, net),
         ClientSend \/ ClientEnds \/ Writable \/ TimerFires \/ Progress,
         NEW e, e = disp', NEW m, m = net'
  PROVE  Sound(s, w, e, m)
  <1>1. disp.outcome = "open" /\ disp.pc = "idle"
    BY Zenon DEF ClientSend, ClientEnds, Writable, TimerFires, Progress, Idle, Running
  <1>2. Connected(s, w, disp, net) /\ Standing(s, w, disp, net)
    BY <1>1, SoundParts, Zenon
  <1>3. DispType(s, disp) /\ NetType(s, net) /\ IsDisp(disp) /\ IsNet(net)
    BY <1>2, Zenon DEF Connected, DispType, NetType
  <1>4. CASE ClientSend
    <2>1. net.sent < Len(w) /\ m = [net EXCEPT !.sent = @ + 1, !.sock = Append(@, w[net.sent + 1])]
      BY <1>4, Zenon DEF ClientSend
    <2>2. Keeps(disp, e, {"woken", "timer"})
      BY <1>3, <1>4 DEF ClientSend, ReadWakes, Woken, Keeps, IsDisp, Fields
    <2> QED BY <1>1, <1>2, <2>1, <2>2, SendStep, Zenon
  <1>5. CASE ClientEnds
    <2>1. PICK how \in {"closed", "reset"} : m = [net EXCEPT !.peer = how]
      BY <1>5 DEF ClientEnds
    <2>2. IsNet(m) /\ m.sent = net.sent /\ m.sock = net.sock /\ m.got = net.got /\ m.peer = how
      BY <1>3, <2>1 DEF IsNet, NetFields
    <2>3. NetType(s, m) /\ m.peer # "open"
      BY <1>3, <2>2 DEF NetType
    <2>4. Keeps(disp, e, {"woken", "timer"})
      BY <1>3, <1>5 DEF ClientEnds, ReadWakes, Woken, Keeps, IsDisp, Fields
    <2> QED BY <1>1, <1>2, <2>2, <2>3, <2>4, WakeStep, Zenon
  <1>6. CASE Writable
    <2>1. m = [net EXCEPT !.blocked = FALSE]
      BY <1>6 DEF Writable
    <2>2. IsNet(m) /\ m.sent = net.sent /\ m.sock = net.sock /\ m.got = net.got /\ m.peer = net.peer
      BY <1>3, <2>1 DEF IsNet, NetFields
    <2>3. NetType(s, m)
      BY <1>3, <2>2 DEF NetType
    <2>4. Keeps(disp, e, {"woken", "timer"})
      BY <1>3, <1>6 DEF Writable, Woken, Keeps, IsDisp, Fields
    <2> QED BY <1>1, <1>2, <2>2, <2>3, <2>4, WakeStep, Zenon
  <1>7. CASE TimerFires
    <2>1. m = net
      BY <1>7 DEF TimerFires
    <2>2. Keeps(disp, e, {"woken", "timer"})
      BY <1>3, <1>7 DEF TimerFires, Woken, Keeps, IsDisp, Fields
    <2> QED BY <1>1, <1>2, <1>3, <2>1, <2>2, WakeStep, Zenon
  <1>8. CASE Progress
    <2>1. PICK i \in 1..Len(s) : disp.state.req = i /\ disp' = Woken([disp EXCEPT !.rq[i].go = TRUE]) /\ net' = net
      BY <1>8 DEF Progress, Waits, Carries
    <2>2. PICK q : q = [disp.rq EXCEPT ![i] = [disp.rq[i] EXCEPT !.go = TRUE]]
      OBVIOUS
    <2>3. Readies(disp, q, i)
      BY <2>2, Zenon DEF Readies
    <2>4. e = [[disp EXCEPT !.rq = q] EXCEPT !.woken = TRUE]
      BY <2>1, <2>2 DEF Woken
    <2>5. Keeps(disp, e, {"woken", "rq"}) /\ e.rq = q
      BY <1>3, <2>4 DEF Keeps, IsDisp, Fields
    <2> QED BY <1>1, <1>2, <2>1, <2>3, <2>5, ProgressStep, Zenon
  <1> QED BY <1>4, <1>5, <1>6, <1>7, <1>8, Zenon

-----------------------------------------------------------------------------
(* The theorems. *)

\* The inductive invariant: scripts are scripts, and the connection is sound.
Typed == conf.script \in Seq(RequestKinds)

H1Inv ==
  /\ Healthy(conf.script, Wire, disp, net)
  /\ conf = NoConnection => Silent(net)

LEMMA TypedAlways == H1Spec => []Typed
  <1>1. H1Init => Typed
    <2>1. << >> \in Seq(RequestKinds)
      OBVIOUS
    <2> QED BY <2>1 DEF H1Init, NoConnection, Typed
  <1>2. Typed /\ [H1Next]_h1vars => Typed'
    <2> SUFFICES ASSUME Typed, [H1Next]_h1vars
                 PROVE  Typed'
      OBVIOUS
    <2>1. CASE Accept
      <3>1. PICK s \in H1Scripts : conf'.script = s
        BY <2>1 DEF Accept
      <3> QED BY <3>1, H1ScriptsAssumption DEF Typed
    <2>2. CASE conf' = conf
      BY <2>2 DEF Typed
    <2>3. H1Next => Accept \/ conf' = conf
      BY Zenon DEF H1Next, Turn, PollKeepalive, ReadAvailable, Decode, ReadEof, PollResponse, PollFlush, PollEnd,
                   PollShutdown, ClientSend, ClientEnds, Writable, TimerFires, Progress
    <2> QED BY <2>1, <2>2, <2>3 DEF h1vars
  <1> QED BY <1>1, <1>2, PTL DEF H1Spec

LEMMA SameWire ==
  ASSUME conf' = conf
  PROVE  Wire' = Wire
  BY DEF Wire


\* It holds when nothing has been accepted, and every step keeps it.
LEMMA H1InvAlways == H1Spec => []H1Inv
  <1>1. H1Init => H1Inv
    <2> SUFFICES ASSUME H1Init
                 PROVE  H1Inv
      OBVIOUS
    <2>1. PICK c : c = NoConnection /\ conf = c /\ disp = NewDispatcher(c)
      BY DEF H1Init
    <2>2. Silent(net)
      BY DEF H1Init, Silent
    <2>3. PICK s \in Seq(RequestKinds) : s = c.script /\ s = conf.script
      <3>1. << >> \in Seq(RequestKinds)
        OBVIOUS
      <3> QED BY <2>1, <3>1 DEF NoConnection
    <2>4. Wire \in Seq(InTokens(s))
      BY <2>3, WireFacts DEF Carries
    <2>5. Healthy(s, Wire, disp, net)
      BY <2>1, <2>2, <2>3, <2>4, NewHealthy
    <2> QED BY <2>2, <2>3, <2>5 DEF H1Inv
  <1>2. Typed /\ H1Inv /\ Typed' /\ [H1Next]_h1vars => H1Inv'
    <2> SUFFICES ASSUME Typed, H1Inv, Typed', [H1Next]_h1vars
                 PROVE  H1Inv'
      OBVIOUS
    <2>1. PICK s \in Seq(RequestKinds) : s = conf.script
      BY DEF Typed
    <2>2. PICK w : w = Wire
      OBVIOUS
    <2>3. Carries(s, w) /\ Healthy(s, w, disp, net) /\ (conf = NoConnection => Silent(net))
      BY <2>1, <2>2, WireFacts DEF H1Inv
    <2>4. ASSUME conf' = conf, Running, Sound(s, w, disp', net')
          PROVE  H1Inv'
      <3>1. conf'.script = s /\ Wire' = w /\ conf' # NoConnection
        BY <2>1, <2>2, <2>4, SameWire DEF Running
      <3>2. Healthy(s, w, disp', net')
        BY <2>4, SoundParts, Zenon
      <3> QED BY <3>1, <3>2 DEF H1Inv
    <2>5. CASE Accept
      <3>1. conf = NoConnection /\ net' = net /\ disp' = NewDispatcher(conf')
        BY <2>5 DEF Accept
      <3>2. PICK z \in Seq(RequestKinds) : z = conf'.script
        BY DEF Typed
      <3>3. PICK c, d, n, v : c = conf' /\ d = disp' /\ n = net' /\ v = Wire'
        OBVIOUS
      <3>4. v \in Seq(InTokens(z))
        <4>1. v = TokensOf(z)
          BY <3>2, <3>3 DEF Wire
        <4> QED BY <4>1, TokensOfFacts DEF Pieces
      <3>5. Silent(n)
        BY <2>3, <3>1, <3>3
      <3>6. Healthy(z, v, d, n)
        BY <3>1, <3>2, <3>3, <3>4, <3>5, NewHealthy
      <3> QED BY <3>2, <3>3, <3>5, <3>6 DEF H1Inv
    <2>6. CASE Turn
      <3>1. conf' = conf /\ Running
        BY <2>6, Zenon DEF Turn, PollKeepalive, ReadAvailable, Decode, ReadEof, PollResponse, PollFlush, PollEnd,
                           PollShutdown, At, Idle
      <3>2. Sound(s, w, disp', net')
        BY <2>3, <2>6, TurnSound, Zenon
      <3> QED BY <2>4, <3>1, <3>2
    <2>7. CASE ClientSend \/ ClientEnds \/ Writable \/ TimerFires \/ Progress
      <3>1. conf' = conf /\ Running
        BY <2>7, Zenon DEF ClientSend, ClientEnds, Writable, TimerFires, Progress, Idle
      <3>2. Sound(s, w, disp', net')
        BY <2>1, <2>2, <2>3, <2>7, BetweenSound, Zenon
      <3> QED BY <2>4, <3>1, <3>2
    <2>8. CASE UNCHANGED h1vars
      <3>1. conf' = conf /\ disp' = disp /\ net' = net
        BY <2>8 DEF h1vars
      <3>2. Wire' = Wire
        BY <3>1, SameWire
      <3> QED BY <2>1, <2>2, <2>3, <3>1, <3>2 DEF H1Inv
    <2> QED BY <2>5, <2>6, <2>7, <2>8, Zenon DEF H1Next
  <1> QED BY <1>1, <1>2, TypedAlways, PTL DEF H1Spec

\* What a handler reads is the start of the body its client sent, in order, and
\* it sees an end only at the end, or after the client has closed (h1/payload.rs
\* and poll_request of h1/dispatcher.rs).
THEOREM HandlersReadTheBody == H1Spec => []BodyIsTruthful
  <1>1. Typed /\ H1Inv => BodyIsTruthful
    <2> SUFFICES ASSUME Typed, H1Inv, NEW i \in Requests
                 PROVE  /\ disp.rq[i].got = [n \in 1..Len(disp.rq[i].got) |-> n]
                        /\ Len(disp.rq[i].got) <= Kind(i).body
                        /\ disp.rq[i].saw = "eof" =>
                             \/ Len(disp.rq[i].got) = Kind(i).body /\ ~Kind(i).corrupt
                             \/ net.peer # "open"
      BY Zenon DEF BodyIsTruthful
    <2>1. PICK s : s = conf.script /\ s \in Seq(RequestKinds) /\ i \in 1..Len(s) /\ Kind(i) = s[i]
      BY DEF Typed, Requests, Kind
    <2>2. DispType(s, disp) /\ Bodies(s, Wire, disp, net)
      BY <2>1 DEF H1Inv, Healthy
    <2>3. PICK r : r = disp.rq[i] /\ TaskType(r) /\ TaskOK(s[i], r, net.peer)
      BY <2>1, <2>2 DEF DispType, Tasks, Bodies
    <2>4. PICK k : k = s[i] /\ k.body \in Nat
      <3>1. s[i] \in RequestKinds
        BY <2>1
      <3> QED BY <3>1 DEF RequestKinds
    <2>5. PICK g \in Seq(Nat), q \in Seq(Nat) : g = r.got /\ q = r.items
      BY <2>3 DEF TaskType
    <2>6. /\ \A j \in 1..Len(g) : g[j] = j
          /\ Len(g) + Len(q) <= k.body
          /\ r.saw = "eof" => r.eof /\ q = << >>
          /\ r.eof /\ net.peer = "open" => Len(g) + Len(q) = k.body /\ ~k.corrupt
      BY <2>3, <2>4, <2>5, Zenon DEF TaskOK, Held
    <2>7. g = [n \in 1..Len(g) |-> n] /\ Len(g) <= k.body
      <3>1. g = [n \in 1..Len(g) |-> g[n]]
        OBVIOUS
      <3>2. g = [n \in 1..Len(g) |-> n]
        BY <2>6, <3>1
      <3>3. PICK a \in Nat, b \in Nat, c \in Nat : a = Len(g) /\ b = Len(q) /\ c = k.body
        BY <2>4
      <3>4. a + b <= c
        BY <2>6, <3>3, Zenon
      <3>5. a <= c
        BY <3>4
      <3> QED BY <3>2, <3>3, <3>5, Zenon
    <2>8. r.saw = "eof" => (Len(g) = k.body /\ ~k.corrupt) \/ net.peer # "open"
      <3>1. q = << >> => Len(g) + Len(q) = Len(g)
        OBVIOUS
      <3> QED BY <2>6, <3>1, Zenon
    <2> QED BY <2>1, <2>3, <2>4, <2>5, <2>7, <2>8, Zenon
  <1> QED BY <1>1, TypedAlways, H1InvAlways, PTL

\* Responses leave in the order of their requests and none is skipped, however
\* many requests are pipelined, queued or refused, unless BreaksLoop leaves two
\* requests behind (poll_request and poll_response of h1/dispatcher.rs).
THEOREM ResponsesKeepTheOrder == H1Spec => []AnsweredInOrder
  <1>1. H1Inv => AnsweredInOrder
    <2> SUFFICES ASSUME H1Inv, KeepsOrder
                 PROVE  InOrder(net.got \o disp.writeBuf)
      BY Zenon DEF AnsweredInOrder, InOrder
    <2>1. Pipelined(conf.script)
      BY Zenon DEF KeepsOrder, Requests, BreaksLoop, Kind, Pipelined, Leaves
    <2>2. InOrder(Out(disp, net))
      BY <2>1, Zenon DEF H1Inv, Healthy
    <2> QED BY <2>2, Zenon DEF Out, Joined
  <1> QED BY <1>1, H1InvAlways, PTL

\* A connection that ends without an error while its client listens has finished
\* every answer it began, for the scripts of KeepsGoing, and a request to upgrade
\* hands over every byte that came behind it (poll and poll_response of
\* h1/dispatcher.rs).
THEOREM NoAnswerCutShort == H1Spec => []NothingCutShort
  <1>1. ASSUME H1Inv, disp.outcome = "ok", net.peer = "open", ~disp.error, KeepsGoing
        PROVE  /\ disp.messages = << >> /\ disp.state = NoState /\ disp.writeBuf = << >>
               /\ \A i \in Requests : Occurs("status", i) => Answered(i)
    <2>1. PICK s : s = conf.script
      OBVIOUS
    <2>2. Unbroken(s)
      BY <1>1, <2>1, Zenon DEF KeepsGoing, Requests, BreaksLoop, Kind, Unbroken, Leaves
    <2>3. /\ disp.messages = << >> /\ disp.state = NoState /\ disp.writeBuf = << >>
          /\ Answers(s, net.got, disp)
      BY <1>1, <2>1, <2>2, Zenon DEF H1Inv, Healthy, Whole
    <2>4. ASSUME NEW i \in Requests, Occurs("status", i)
          PROVE  Answered(i)
      <3>1. i \in 1..Len(s) /\ Has(net.got, "status", i) /\ Kind(i) = s[i]
        BY <2>1, <2>4, Zenon DEF Requests, Occurs, Has, Kind
      <3>2. disp.state.tag # "SendPayload"
        BY <2>3 DEF NoState
      <3>3. s[i].resp = "empty" \/ Has(net.got, "fin", i)
        BY <2>3, <3>1, <3>2, Zenon DEF Answers, Done
      <3> QED BY <2>4, <3>1, <3>3, Zenon DEF Answered, Occurs, Has
    <2> QED BY <2>3, <2>4
  <1>2. ASSUME Typed, H1Inv, disp.outcome = "upgraded", ~disp.error,
               NEW k \in 1..net.sent, Wire[k].t = "chunk", Kind(Wire[k].req).head = "upgrade"
        PROVE  \E j \in 1..Len(disp.readBuf \o net.sock) : (disp.readBuf \o net.sock)[j] = Wire[k]
    <2>1. PICK s, w : s = conf.script /\ w = Wire
      OBVIOUS
    <2>2. DispType(s, disp) /\ NetType(s, net) /\ WireRead(w, disp, net) /\ Bodies(s, w, disp, net)
      BY <1>2, <2>1 DEF H1Inv, Healthy
    <2>3. PICK b \in Seq(InTokens(s)), c \in Seq(InTokens(s)), n \in Nat :
            b = disp.readBuf /\ c = net.sock /\ n = net.sent
      BY <2>2 DEF DispType, NetType
    <2>4. PICK t \in Nat : t = Taken(disp, net) /\ t = n - Len(c) - Len(b)
      BY <2>2, <2>3, Zenon DEF WireRead, Taken
    <2>5. /\ \A j \in 1..Len(b) : b[j] = w[t + j]
          /\ \A j \in 1..Len(c) : c[j] = w[n - Len(c) + j]
      BY <2>2, <2>3, <2>4, Zenon DEF WireRead
    <2>6. ~(k \in 1..t)
      <3>1. \A j \in 1..t : ~(w[j].t = "chunk" /\ s[w[j].req].head = "upgrade")
        BY <1>2, <2>2, <2>4, Zenon DEF Bodies
      <3> QED BY <1>2, <2>1, <3>1, Zenon DEF Kind
    <2>7. PICK r : r = b \o c
      OBVIOUS
    <2>8. Chained(b, c, r)
      BY <2>7, Concat
    <2>9. PICK x \in Nat, y \in Nat : x = Len(b) /\ y = Len(c) /\ Len(r) = x + y
      BY <2>8 DEF Chained
    <2>10. k \in Nat /\ k > t /\ k <= t + x + y /\ n = t + x + y
      <3>1. t = n - y - x /\ k \in 1..n
        BY <2>3, <2>4, <2>9, Zenon
      <3>2. n = t + x + y
        BY <3>1
      <3> QED BY <2>6, <3>1, <3>2
    <2>11. CASE k <= t + x
      <3>1. k - t \in 1..Len(b) /\ t + (k - t) = k /\ k - t \in 1..Len(r)
        BY <2>9, <2>10, <2>11
      <3>2. r[k - t] = w[k]
        BY <2>5, <2>8, <3>1 DEF Chained
      <3> QED BY <2>1, <2>3, <2>7, <3>1, <3>2, Zenon
    <2>12. CASE k > t + x
      <3>1. PICK j \in 1..y : k = t + x + j
        <4>1. k - (t + x) \in 1..y /\ k = t + x + (k - (t + x))
          BY <2>10, <2>12
        <4> QED BY <4>1
      <3>2. n - Len(c) + j = k /\ x + j \in 1..Len(r)
        BY <2>9, <2>10, <3>1
      <3>3. r[x + j] = c[j]
        BY <2>8, <2>9 DEF Chained
      <3>4. c[j] = w[n - Len(c) + j]
        BY <2>5, <2>9
      <3>5. r[x + j] = w[k]
        BY <3>2, <3>3, <3>4, Zenon
      <3> QED BY <2>1, <2>3, <2>7, <3>2, <3>5, Zenon
    <2>13. k <= t + x \/ k > t + x
      BY <2>10
    <2> QED BY <2>11, <2>12, <2>13, Zenon
  <1>3. Typed /\ H1Inv => NothingCutShort
    BY <1>1, <1>2, Zenon DEF NothingCutShort
  <1> QED BY <1>3, TypedAlways, H1InvAlways, PTL
====
