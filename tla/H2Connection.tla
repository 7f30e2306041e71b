----------------------------- MODULE H2Connection -----------------------------
(***************************************************************************)
(* One HTTP/2 connection between the client of client/h2proto.rs and the   *)
(* server of h2/dispatcher.rs: a stream per request, a task per stream on  *)
(* both sides, and the flow control of the h2 library they share.          *)
(*                                                                         *)
(* A flow is one direction of a stream.  Only the number of bytes is kept  *)
(* of a body: the library delivers a flow's bytes in order.  A sender      *)
(* reserves capacity, is told when some was assigned, and sends no more    *)
(* than that; what a receiver reads it releases at once (h2::Payload).     *)
(***************************************************************************)
EXTENDS Integers, Sequences, FiniteSets

CONSTANTS H2Requests,   \* one stream each
          H2Plans,      \* what they send and how they are answered: functions to Plans
          ChunkSize,    \* CHUNK_SIZE (16384)
          StreamWindow, \* initial windows of the library
          ConnWindow,
          H2Faults      \* a subset of "reset", "lost"

Plans ==
  [up      : Seq(Nat), \* the request body's chunks
   broken  : BOOLEAN,  \* the request body ends in an error
   down    : Seq(Nat), \* the response body's chunks
   size    : {"known", "stream"},
   status  : {"ok", "no_content"},
   handler : {"reader", "drops", "echo", "fails"}]

ASSUME H2PlansAssumption == H2Plans \subseteq [H2Requests -> Plans]
ASSUME H2WindowsAssumption == {ChunkSize, StreamWindow, ConnWindow} \subseteq Nat \ {0}
ASSUME H2FaultsAssumption == H2Faults \subseteq {"reset", "lost"}
ASSUME H2RequestsAssumption == IsFiniteSet(H2Requests)

VARIABLES
  plan,   \* the requests of this connection; Unplanned before it is made
  client, \* what send_request waits for
  server, \* the stream's task on the server
  flow    \* per request and direction

h2 == <<plan, client, server, flow>>

Directions == {"up", "down"}
NewFlow == [st |-> "idle", todo |-> <<>>, some |-> FALSE, buf |-> 0, want |-> 0, cap |-> 0,
            inc |-> FALSE, sent |-> 0, got |-> 0]
Unplanned == [s \in H2Requests |->
                [up |-> <<>>, broken |-> FALSE, down |-> <<>>, size |-> "known",
                 status |-> "ok", handler |-> "fails"]]

Total(chunks) ==
  LET T[k \in 0..Len(chunks)] == IF k = 0 THEN 0 ELSE T[k - 1] + chunks[k] IN T[Len(chunks)]

-----------------------------------------------------------------------------
(* The library: windows and capacity. *)

Echoes(s) == plan[s].handler = "echo"

\* Bytes that occupy the windows: sent and not read, or assigned.
Held(s, d) ==
  IF flow[s][d].st = "reset" THEN 0 ELSE flow[s][d].sent - flow[s][d].got + flow[s][d].cap
\* A receiver that is gone holds nothing of the connection's window.
Unread(s) == server[s] \in {"respond", "over"} /\ ~Echoes(s)
HeldBy(d) ==
  LET of(s) == IF d = "up" /\ Unread(s) THEN flow[s][d].cap ELSE Held(s, d)
  IN  Cardinality({h \in H2Requests \X (1..ConnWindow) : h[2] <= of(h[1])})

Least(a, b) == IF a <= b THEN a ELSE b

Assign(s, d) ==
  LET f == flow[s][d]
      n == Least(f.want - f.cap, Least(StreamWindow - Held(s, d), ConnWindow - HeldBy(d)))
  IN  /\ f.st = "sending" /\ n > 0
      /\ flow' = [flow EXCEPT ![s][d].cap = f.cap + n, ![s][d].inc = TRUE]
      /\ UNCHANGED <<plan, client, server>>

\* reserve_capacity gives back what exceeds it.
Reserve(f, n) == [f EXCEPT !.want = n, !.cap = Least(@, n)]

\* Dropping a stream's handles before its end resets both directions.
ResetFlows(fs) ==
  [d \in Directions |-> IF fs[d].st = "ended" THEN fs[d] ELSE [fs[d] EXCEPT !.st = "reset", !.cap = 0]]
Start(f, chunks) == [f EXCEPT !.st = "sending", !.todo = chunks]
EndOf(f) == [f EXCEPT !.st = "ended"]

-----------------------------------------------------------------------------
(* The two sending loops: ServiceResponse in state SendPayload reserves at most
   ChunkSize, send_body all of a chunk. *)

Reserves(d, n) == IF d = "down" THEN Least(n, ChunkSize) ELSE n

\* Faulty variants of SendData: what exceeds the capacity is dropped, or waits
\* without a reservation.
SendDataOnce(f, d) ==
  LET n == Least(f.cap, f.buf)
  IN  [f EXCEPT !.sent = @ + n, !.buf = 0, !.cap = @ - n, !.want = @ - n, !.inc = FALSE, !.some = FALSE]
SendDataUnreserved(f, d) ==
  LET n == Least(f.cap, f.buf)
  IN  [f EXCEPT !.sent = @ + n, !.buf = @ - n, !.cap = @ - n, !.want = @ - n, !.inc = FALSE,
                !.some = f.buf > n]

\* poll_capacity gave some: send as much, reserve for the rest or drop the buffer.
SendData(f, d) ==
  LET n == Least(f.cap, f.buf)
      g == [f EXCEPT !.sent = @ + n, !.buf = @ - n, !.cap = @ - n, !.want = @ - n, !.inc = FALSE]
  IN  IF g.buf > 0 THEN Reserve(g, Reserves(d, g.buf)) ELSE [g EXCEPT !.some = FALSE]

\* body.poll_next gave a chunk.
TakeChunk(f, d) ==
  LET n == Head(f.todo)
  IN  [Reserve(f, Reserves(d, n)) EXCEPT !.todo = Tail(@), !.some = TRUE, !.buf = n]

\* An echo's next chunk is there once the request's is.
BodyReady(s, d) ==
  d = "up" \/ ~Echoes(s) \/ flow[s].up.st \in {"ended", "reset"}
    \/ flow[s].up.got > flow[s].down.sent + flow[s].down.buf

SendLoop(s, d, Finish(_), Fail(_)) ==
  LET f == flow[s][d]
  IN  IF f.st = "reset" THEN Finish(flow[s])
      ELSE IF f.some THEN f.inc /\ flow' = [flow EXCEPT ![s][d] = SendData(f, d)]
                          /\ UNCHANGED <<client, server>>
      ELSE /\ BodyReady(s, d)
           /\ IF f.todo # <<>> THEN flow' = [flow EXCEPT ![s][d] = TakeChunk(f, d)]
                                    /\ UNCHANGED <<client, server>>
              ELSE IF d = "up" /\ plan[s].broken THEN Fail(ResetFlows(flow[s]))
              ELSE Finish([flow[s] EXCEPT ![d] = EndOf(f)])

-----------------------------------------------------------------------------
(* The client: send_request. *)

Connect ==
  /\ plan = Unplanned
  /\ plan' \in H2Plans
  /\ UNCHANGED <<client, server, flow>>

\* The head goes out, with the end of the stream if there is no body.
SendRequest(s) ==
  /\ plan # Unplanned /\ client[s] = "new"
  /\ server' = [server EXCEPT ![s] = "opened"]
  /\ IF plan[s].up = <<>> /\ ~plan[s].broken
     THEN /\ flow' = [flow EXCEPT ![s].up = EndOf(@)]
          /\ client' = [client EXCEPT ![s] = "awaits"]
     ELSE /\ flow' = [flow EXCEPT ![s].up = Start(@, plan[s].up)]
          /\ client' = [client EXCEPT ![s] = "sends"]
  /\ UNCHANGED plan

\* send_body, then the response: a reset ends it as if all were sent.
SendBody(s) ==
  /\ client[s] = "sends"
  /\ SendLoop(s, "up",
       LAMBDA fs : /\ client' = [client EXCEPT ![s] = "awaits"]
                   /\ flow' = [flow EXCEPT ![s] = fs] /\ UNCHANGED server,
       LAMBDA fs : /\ client' = [client EXCEPT ![s] = "failed"]
                   /\ flow' = [flow EXCEPT ![s] = fs] /\ UNCHANGED server)
  /\ UNCHANGED plan

GetResponse(s) ==
  /\ client[s] = "awaits"
  /\ \/ flow[s].down.st \in {"sending", "ended"} /\ client' = [client EXCEPT ![s] = "reads"]
     \/ flow[s].down.st = "reset" /\ client' = [client EXCEPT ![s] = "failed"]
  /\ UNCHANGED <<plan, server, flow>>

\* Payload::poll_next on either side; release_capacity follows every chunk.
ReadData(s, d) ==
  /\ flow[s][d].got < flow[s][d].sent /\ flow[s][d].st # "reset"
  /\ IF d = "up" THEN \/ server[s] = "call" /\ plan[s].handler = "reader"
                      \/ server[s] = "respond" /\ Echoes(s) /\ ~flow[s].down.some
     ELSE client[s] = "reads"
  /\ flow' = [flow EXCEPT ![s][d].got = flow[s][d].sent]
  /\ UNCHANGED <<plan, client, server>>

EndResponse(s) ==
  /\ client[s] = "reads"
  /\ \/ flow[s].down.st = "reset" /\ client' = [client EXCEPT ![s] = "failed"]
     \/ /\ flow[s].down.st = "ended" /\ flow[s].down.got = flow[s].down.sent
        /\ client' = [client EXCEPT ![s] = "done"]
  /\ UNCHANGED <<plan, server, flow>>

-----------------------------------------------------------------------------
(* The server: Dispatcher::poll spawns a ServiceResponse per stream. *)

AcceptStream(s) ==
  /\ server[s] = "opened"
  /\ server' = [server EXCEPT ![s] = "call"]
  /\ UNCHANGED <<plan, client, flow>>

\* The body of a response, or of the error's: prepare_response drops that of a 204,
\* and one whose size is 0 ends with the head.
ResponseBody(s) == IF plan[s].handler = "fails" THEN <<1>> ELSE plan[s].down
IsEof(s) ==
  plan[s].handler # "fails" /\
    \/ plan[s].status = "no_content"
    \/ plan[s].size = "known" /\ Total(plan[s].down) = 0

\* The service's future is ready; it has dropped the request's payload, unless the
\* response's body reads it.
RequestRead(s) == flow[s].up.st = "reset" \/ (flow[s].up.st = "ended" /\ flow[s].up.got = flow[s].up.sent)
ServiceReady(s) ==
  /\ server[s] = "call"
  /\ plan[s].handler = "reader" => RequestRead(s)
  /\ IF flow[s].down.st = "reset" THEN server' = [server EXCEPT ![s] = "over"] /\ UNCHANGED flow
     ELSE IF IsEof(s)
     THEN /\ server' = [server EXCEPT ![s] = "over"]
          /\ flow' = [flow EXCEPT ![s] = ResetFlows([flow[s] EXCEPT !.down = EndOf(@)])]
     ELSE /\ server' = [server EXCEPT ![s] = "respond"]
          /\ flow' = [flow EXCEPT ![s].down = Start(@, ResponseBody(s))]
  /\ UNCHANGED <<plan, client>>

\* The task ends with the body or with the stream; its handles go with it.
SendPayload(s) ==
  /\ server[s] = "respond"
  /\ SendLoop(s, "down",
       LAMBDA fs : /\ server' = [server EXCEPT ![s] = "over"]
                   /\ flow' = [flow EXCEPT ![s] = ResetFlows(fs)] /\ UNCHANGED client,
       LAMBDA fs : FALSE)
  /\ UNCHANGED plan

-----------------------------------------------------------------------------
(* Faults: a stream reset by the library or a peer, and a lost connection. *)

ResetStream(s) ==
  /\ "reset" \in H2Faults /\ server[s] \in {"opened", "call", "respond"}
  /\ flow' = [flow EXCEPT ![s] = ResetFlows(@)]
  /\ UNCHANGED <<plan, client, server>>

LoseConn ==
  /\ "lost" \in H2Faults /\ \E s \in H2Requests : server[s] # "none"
  /\ flow' = [s \in H2Requests |-> IF client[s] = "new" THEN flow[s] ELSE ResetFlows(flow[s])]
  /\ server' = [s \in H2Requests |-> IF server[s] = "opened" THEN "over" ELSE server[s]]
  /\ client' = [s \in H2Requests |-> IF client[s] = "new" THEN "failed" ELSE client[s]]
  /\ UNCHANGED plan

H2Init ==
  /\ plan = Unplanned
  /\ client = [s \in H2Requests |-> "new"] /\ server = [s \in H2Requests |-> "none"]
  /\ flow = [s \in H2Requests |-> [d \in Directions |-> NewFlow]]

Proceeds(s) == \/ SendBody(s) \/ GetResponse(s) \/ EndResponse(s)
               \/ AcceptStream(s) \/ ServiceReady(s) \/ SendPayload(s)
               \/ \E d \in Directions : Assign(s, d) \/ ReadData(s, d)
H2Next ==
  \/ Connect \/ LoseConn
  \/ \E s \in H2Requests : SendRequest(s) \/ Proceeds(s) \/ ResetStream(s)

\* Tasks run, bodies come, and readers read.  Strong for the library's assignment,
\* which other streams may forestall.
H2Fairness ==
  \A s \in H2Requests : WF_h2(Proceeds(s)) /\ SF_h2(\E d \in Directions : Assign(s, d))
H2Spec == H2Init /\ [][H2Next]_h2 /\ H2Fairness

-----------------------------------------------------------------------------
\* A flow that ends has carried its whole body, however windows and chunks cut it
\* into frames and a reset or the end of the other side cuts in; the body of a 204
\* is not sent, and a response that is read to its end was read whole.
FlowsAreWhole ==
  \A s \in H2Requests :
    /\ flow[s].up.st = "ended" => flow[s].up.sent = Total(plan[s].up) /\ ~plan[s].broken
    /\ flow[s].down.st = "ended" =>
         flow[s].down.sent = IF IsEof(s) THEN 0 ELSE Total(ResponseBody(s))
    /\ client[s] = "done" => flow[s].down.got = flow[s].down.sent

\* An empty chunk reserves nothing, so that poll_capacity never wakes its sender; and
\* an echo longer than the windows waits for a client that reads only after it has
\* sent everything.
Endless(s) ==
  \/ \E k \in 1..Len(plan[s].up) : plan[s].up[k] = 0
  \/ \E k \in 1..Len(plan[s].down) : plan[s].down[k] = 0
  \/ Echoes(s)

\* Every other request ends with its response or an error, although all streams
\* share one window; unless a handle of an endless one still holds part of it.
Unfinished ==
  /\ \A r \in H2Requests : ~Endless(r)
  /\ \E s \in H2Requests : client[s] \notin {"new", "done", "failed"}
StreamsFinish == []<>~Unfinished
=============================================================================
