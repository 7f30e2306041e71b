----------------------------- MODULE H1Connection -----------------------------
(***************************************************************************)
(* One HTTP/1.1 connection of the vendored actix-http server: the          *)
(* dispatcher of h1/dispatcher.rs with its codec, the payload channels of  *)
(* h1/payload.rs, the request handlers, the socket, the client and the     *)
(* keep-alive timer.                                                       *)
(*                                                                         *)
(* Dispatcher::poll is one synchronous turn of the event loop.  pc walks   *)
(* through its parts; the client, the timer, the kernel and the handlers   *)
(* move only between two turns, and a turn starts only if something woke   *)
(* the task.  `disp` is the struct InnerDispatcher; an operator            *)
(* that takes it and returns it is one of its methods.                     *)
(*                                                                         *)
(* Bytes are tokens: a head, the chunks of a body and its end, or of what   *)
(* follows a request to upgrade.  on_connect data and peer addresses are   *)
(* left out, and a socket shuts down at once, as TCP does.                 *)
(***************************************************************************)
EXTENDS Integers, Sequences, FiniteSets

CONSTANTS H1Scripts,     \* what clients send: sequences of RequestKinds
          H1Configs,     \* the server's keep-alive and disconnect settings
          MaxPipelined,  \* MAX_PIPELINED_MESSAGES (16)
          MaxPayload,    \* MAX_BUFFER_SIZE of a payload channel, in chunks
          HighWater      \* HW_BUFFER_SIZE of the write buffer, in tokens

RequestKinds ==
  [body    : Nat,                                    \* chunks, 0 for no body
   corrupt : BOOLEAN,                                \* the last chunk's size is not a number
   head    : {"keep", "close", "malformed", "upgrade"},
   expect  : {"no", "ready", "fails", "later", "refused"}, \* Expect: 100-continue
   handler : {"quick", "slow", "reader", "dropper"},
   fails   : BOOLEAN,                                \* the service's future ends in an error
   resp    : {"empty", "full", "stream", "broken"}]  \* the body of its answer, or of its error's

ASSUME H1ScriptsAssumption == H1Scripts \subseteq Seq(RequestKinds)
ASSUME H1ConfigsAssumption ==
  H1Configs \subseteq [ka : {"timeout", "os", "disabled"}, disc : BOOLEAN]
ASSUME H1LimitsAssumption == {MaxPipelined, MaxPayload, HighWater} \subseteq Nat \ {0}

VARIABLES
  conf,  \* the script and the configuration of the accepted connection
  net,   \* the client, the kernel's buffers and what the client has received
  disp   \* InnerDispatcher, its payload channels and the turn it is in

h1vars == <<conf, net, disp>>

-----------------------------------------------------------------------------
\* What the client writes for request i, of kind k.
Tokens(k, i) ==
  IF k.head = "malformed" THEN <<[t |-> "malformed", req |-> i, n |-> 0]>>
  ELSE <<[t |-> "head", req |-> i, n |-> 0]>>
       \o [n \in 1..k.body |->
             [t |-> IF k.corrupt /\ n = k.body THEN "corrupt" ELSE "chunk",
              req |-> i, n |-> n]]
       \o IF k.body > 0 /\ ~k.corrupt /\ k.head # "upgrade"
          THEN <<[t |-> "end", req |-> i, n |-> 0]>> ELSE <<>>

TokensOf(script) ==
  LET W[i \in 0..Len(script)] == IF i = 0 THEN <<>> ELSE W[i - 1] \o Tokens(script[i], i)
  IN  W[Len(script)]

Wire == TokensOf(conf.script)

\* A payload channel and the handler at its other end.  `go`: the future the
\* dispatcher polls has become ready; `out`: the chunks its response has given.
NewTask == [items |-> <<>>, eof |-> FALSE, err |-> FALSE, needRead |-> TRUE,
            alive |-> TRUE, task |-> FALSE, io |-> FALSE,
            got |-> <<>>, saw |-> "nothing", go |-> FALSE, out |-> 0]

NoState == [tag |-> "None", req |-> 0]

\* Dispatcher::with_timeout; client_timeout is never passed on, so the only
\* timer is the keep-alive one.
NewDispatcher(c) ==
  [pc |-> "idle", ret |-> "poll", updated |-> FALSE, drain |-> FALSE,
   flags |-> IF c.ka = "disabled" THEN {} ELSE {"KEEPALIVE"},
   state |-> NoState, payload |-> 0, messages |-> <<>>, error |-> FALSE,
   readBuf |-> <<>>, writeBuf |-> <<>>,
   alive |-> FALSE, \* Codec::keepalive
   timer |-> IF c.ka = "timeout" THEN "armed" ELSE "none", fresh |-> FALSE,
   eof |-> FALSE, woken |-> TRUE, outcome |-> "open",
   rq |-> [i \in 1..Len(c.script) |-> NewTask]]

NoConnection == [script |-> <<>>, ka |-> "os", disc |-> FALSE]

Running == conf # NoConnection /\ disp.outcome = "open"
Idle    == Running /\ disp.pc = "idle"
At(pc)  == Running /\ disp.pc = pc
Kind(i) == conf.script[i]

Goto(d, pc)      == [d EXCEPT !.pc = pc]
Ended(d, result) == [d EXCEPT !.outcome = result]
Flagged(d, fs)   == [d EXCEPT !.flags = @ \cup fs]

-----------------------------------------------------------------------------
(* The payload channel.  Each operation of the sender does nothing once the
   receiver is gone; only feed_data wakes the receiver's task. *)

SetError(d) ==
  IF d.payload = 0 THEN d
  ELSE [d EXCEPT !.rq[d.payload].err = @ \/ d.rq[d.payload].alive, !.payload = 0]

FeedEof(d) ==
  IF d.payload = 0 THEN d
  ELSE [d EXCEPT !.rq[d.payload].eof = @ \/ d.rq[d.payload].alive, !.payload = 0]

FeedData(d, n) ==
  LET r == d.rq[d.payload]
  IN  IF ~r.alive THEN d
      ELSE [d EXCEPT !.rq[d.payload] =
                       [r EXCEPT !.items = Append(@, n),
                                 !.needRead = Len(r.items) + 1 < MaxPayload,
                                 !.task = FALSE],
                     !.woken = @ \/ r.task]

NeedRead(d) ==
  LET r == d.rq[d.payload]
  IN  IF ~r.alive THEN "Dropped" ELSE IF r.needRead THEN "Read" ELSE "Pause"

CanRead(d) ==
  "READ_DISCONNECT" \notin d.flags /\ (d.payload # 0 => NeedRead(d) = "Read")

\* Payload::poll_next until it is pending, at its end or in error.
ReadAll(r) ==
  LET over == r.eof \/ r.err
  IN  [r EXCEPT !.got = @ \o r.items, !.items = <<>>, !.needRead = TRUE,
                !.saw = IF r.err THEN "err" ELSE IF r.eof THEN "eof" ELSE @,
                !.task = ~over, !.io = @ /\ over /\ r.items = <<>>,
                !.alive = ~over]

\* One poll of the service's future.  A handler that has returned dropped its
\* payload; a "dropper" drops it at once and answers later.
IsReady(d, i) ==
  CASE Kind(i).handler = "quick"  -> TRUE
    [] Kind(i).handler = "reader" -> Kind(i).body = 0 \/ d.rq[i].eof \/ d.rq[i].err
    [] OTHER                      -> d.rq[i].go

PollHandler(d, i) ==
  LET r == d.rq[i]
      s == IF Kind(i).handler = "reader" /\ Kind(i).body > 0 THEN ReadAll(r)
           ELSE [r EXCEPT !.alive = @ /\ Kind(i).handler = "slow" /\ ~r.go, !.go = FALSE]
  IN  [d EXCEPT !.rq[i] = s, !.woken = @ \/ (r.io /\ ~s.io)]

-----------------------------------------------------------------------------
(* Responses. *)

Write(d, token) == [d EXCEPT !.writeBuf = Append(@, token)]
Token(t, i)     == [t |-> t, req |-> i]

\* send_response: the head goes to the write buffer, and whether the connection
\* stays alive is what the codec knows of the request it decoded last.
SendResponse(d, i, hasBody) ==
  LET w == Write(d, Token("status", i))
  IN  [w EXCEPT !.flags = IF d.alive THEN @ \cup {"KEEPALIVE"}
                          ELSE @ \ {"KEEPALIVE"},
                !.state = IF hasBody THEN [tag |-> "SendPayload", req |-> i]
                          ELSE NoState]

Respond(d, i) == SendResponse(d, i, Kind(i).resp # "empty")

\* self.service.call(req) and the first poll of its future.
CallService(d, i) ==
  LET p == PollHandler(d, i)
  IN  IF IsReady(d, i) THEN Respond(p, i)
      ELSE [p EXCEPT !.state = [tag |-> "ServiceCall", req |-> i]]

SendContinue(d, i) == Write(d, Token("continue", i))

\* A refused expectation drops the request with its payload.  It fails at its
\* first poll ("fails") or at a later one ("refused").
Refusals == {"fails", "refused"}
Refuse(d, i) == Respond([d EXCEPT !.rq[i].alive = FALSE], i)

HandleRequest(d, i) ==
  CASE Kind(i).expect = "no"    -> CallService(d, i)
    [] Kind(i).expect = "ready" -> CallService(SendContinue(d, i), i)
    [] Kind(i).expect = "fails" -> Refuse(d, i)
    [] OTHER -> [d EXCEPT !.state = [tag |-> "ExpectCall", req |-> i]]

-----------------------------------------------------------------------------
(* poll_request: decode what the read buffer holds. *)

\* Its end; it was called by poll or, with a handler pending, by poll_response.
EndPollRequest(d) ==
  LET renew == d.updated /\ d.timer # "none" /\ conf.ka = "timeout"
  IN  [d EXCEPT !.fresh = @ \/ renew,
                !.pc = IF d.ret = "poll" THEN "eof"
                       ELSE IF d.updated THEN "respond" ELSE "flush"]

PollRequest(d, caller) ==
  LET e == [d EXCEPT !.ret = caller, !.updated = FALSE]
  IN  IF Len(d.messages) < MaxPipelined /\ CanRead(d) THEN Goto(e, "decode")
      ELSE IF Len(d.messages) < MaxPipelined /\ "READ_DISCONNECT" \notin d.flags
              /\ d.payload # 0 /\ NeedRead(d) = "Pause"
           THEN EndPollRequest([e EXCEPT !.rq[d.payload].io = TRUE])
           ELSE EndPollRequest(e)

\* The codec takes one token off the read buffer.
Decoded(d) == [d EXCEPT !.readBuf = Tail(@), !.updated = TRUE,
                        !.flags = @ \cup {"STARTED"}]

\* Codec::decode of a head; a body opens a payload channel.
Opened(d, i) ==
  [Decoded(d) EXCEPT !.alive = Kind(i).head = "keep" /\ conf.ka # "disabled",
                     !.payload = IF Kind(i).body > 0 THEN i ELSE @]

\* A faulty variant of DecodeHead: the request is handled whatever goes on.
DecodeHeadEager(d, i) == HandleRequest(Opened(d, i), i)

\* A request to upgrade waits for its turn without a payload channel.
DecodeHead(d, i) ==
  IF Kind(i).head = "upgrade"
  THEN EndPollRequest([Opened(d, i) EXCEPT !.payload = d.payload,
                                           !.messages = Append(@, Token("upgrade", i))])
  ELSE IF d.state = NoState THEN HandleRequest(Opened(d, i), i)
  ELSE [Opened(d, i) EXCEPT !.messages = Append(@, Token("item", i))]

\* What follows a queued upgrade is decoded, and belongs to no payload.
Unexpected(d) ==
  EndPollRequest([Flagged(d, {"READ_DISCONNECT"})
                    EXCEPT !.messages = Append(@, Token("error", 0)), !.error = TRUE])

DecodeEnd(d) == FeedEof(Decoded(d))

\* A malformed head: 400 once the responses before it are out.
DecodeMalformed(d) ==
  EndPollRequest([Flagged(SetError(d), {"READ_DISCONNECT"})
                    EXCEPT !.messages = Append(@, Token("error", 0)), !.error = TRUE])

\* A malformed chunk is an io::Error of the payload decoder, which the codec
\* turns into ParseError::Io: the client counts as gone.
ClientDisconnected(d) ==
  SetError(Flagged(d, {"READ_DISCONNECT", "WRITE_DISCONNECT"}))
\* A faulty variant of DecodeCorrupt: the payload ends instead of failing.
DecodeCorruptAsEnd(d) ==
  EndPollRequest([FeedEof(Flagged(d, {"READ_DISCONNECT", "WRITE_DISCONNECT"})) EXCEPT !.error = TRUE])

DecodeCorrupt(d) == EndPollRequest([ClientDisconnected(d) EXCEPT !.error = TRUE])

Decode ==
  /\ At("decode")
  /\ IF disp.readBuf = <<>> THEN disp' = EndPollRequest(disp)
     ELSE LET tok == Head(disp.readBuf)
          IN  disp' = CASE tok.t = "head"      -> DecodeHead(disp, tok.req)
                        [] tok.t = "chunk"     -> IF disp.payload = 0 THEN Unexpected(Decoded(disp))
                                                  ELSE FeedData(Decoded(disp), tok.n)
                        [] tok.t = "end"       -> DecodeEnd(disp)
                        [] tok.t = "malformed" -> DecodeMalformed(disp)
                        [] tok.t = "corrupt"   -> DecodeCorrupt(disp)
  /\ UNCHANGED <<conf, net>>

-----------------------------------------------------------------------------
(* poll_response: one iteration of its loop. *)

Break(d, drain) == [d EXCEPT !.pc = "flush", !.drain = drain]

\* A new state: go on unless it is None.
SetState(d) == IF d.state = NoState THEN Break(d, FALSE) ELSE d

NextMessage(d) ==
  LET m == Head(d.messages)
      e == [d EXCEPT !.messages = Tail(@)]
  IN  IF d.messages = <<>> THEN Break(d, FALSE)
      ELSE IF m.t = "upgrade" THEN Ended(e, "upgraded")
      ELSE IF m.t = "error" THEN SetState(SendResponse(e, 0, FALSE))
      ELSE SetState(HandleRequest(e, m.req))

PollExpect(d, i) ==
  LET e == [d EXCEPT !.rq[i].go = FALSE]
  IN  IF ~d.rq[i].go THEN IF d.messages # <<>> THEN d ELSE Break(d, FALSE)
      ELSE IF Kind(i).expect = "refused" THEN SetState(Refuse(e, i))
      ELSE [SendContinue(e, i) EXCEPT !.state = [tag |-> "ServiceCall", req |-> i]]

\* An answer is followed by the next iteration, an error's only if it has a body.
PollService(d, i) ==
  LET p == PollHandler(d, i)
  IN  IF ~IsReady(d, i) THEN PollRequest([p EXCEPT !.drain = FALSE], "response")
      ELSE IF Kind(i).fails THEN SetState(Respond(p, i))
      ELSE Respond(p, i)

\* The response's body: "full" is one chunk, "stream" two that come when they
\* come, "broken" fails.
Chunks(i) == IF Kind(i).resp = "full" THEN 1 ELSE 2

\* A faulty variant of PollBody: nothing resumes it after a full buffer is flushed.
PollBodyUndrained(d, i) ==
  IF Len(d.writeBuf) >= HighWater THEN Break(d, FALSE)
  ELSE IF d.rq[i].out = Chunks(i)
       THEN [Write(d, Token("fin", i)) EXCEPT !.state = NoState]
  ELSE IF Kind(i).resp = "broken" THEN Ended(d, "error")
  ELSE IF Kind(i).resp = "stream" /\ ~d.rq[i].go THEN Break(d, FALSE)
  ELSE [Write(d, Token("data", i)) EXCEPT !.rq[i].out = @ + 1, !.rq[i].go = FALSE]

PollBody(d, i) ==
  IF Len(d.writeBuf) >= HighWater THEN Break(d, TRUE)
  ELSE IF d.rq[i].out = Chunks(i)
       THEN [Write(d, Token("fin", i)) EXCEPT !.state = NoState]
  ELSE IF Kind(i).resp = "broken" THEN Ended(d, "error")
  ELSE IF Kind(i).resp = "stream" /\ ~d.rq[i].go THEN Break(d, FALSE)
  ELSE [Write(d, Token("data", i)) EXCEPT !.rq[i].out = @ + 1, !.rq[i].go = FALSE]

PollResponse ==
  /\ At("respond")
  /\ LET i == disp.state.req
     IN  disp' = CASE disp.state.tag = "None"        -> NextMessage(disp)
                   [] disp.state.tag = "ExpectCall"  -> PollExpect(disp, i)
                   [] disp.state.tag = "ServiceCall" -> PollService(disp, i)
                   [] disp.state.tag = "SendPayload" -> PollBody(disp, i)
  /\ UNCHANGED <<conf, net>>

-----------------------------------------------------------------------------
(* poll_keepalive, at the start of every turn. *)

ArmDisconnect(d) ==
  IF conf.disc THEN [d EXCEPT !.timer = "armed"]
  ELSE SetError(Flagged(d, {"READ_DISCONNECT"}))

TimerFired(d) ==
  IF "SHUTDOWN" \in d.flags THEN Ended(d, "error")
  ELSE IF d.fresh THEN [d EXCEPT !.timer = "armed", !.fresh = FALSE]
  ELSE IF d.state # NoState \/ d.writeBuf # <<>>
       THEN [d EXCEPT !.timer = "armed"]
  ELSE IF "STARTED" \in d.flags
       THEN IF conf.disc THEN [Flagged(d, {"SHUTDOWN"}) EXCEPT !.timer = "armed"]
            ELSE Flagged(d, {"SHUTDOWN", "WRITE_DISCONNECT"})
  ELSE Flagged(SendResponse(d, 0, FALSE), {"STARTED", "SHUTDOWN"})

KeepAlive(d) ==
  IF d.timer = "fired" THEN TimerFired(d)
  ELSE IF d.timer = "none" /\ "SHUTDOWN" \in d.flags THEN ArmDisconnect(d)
  ELSE d

\* A turn starts because the task was woken, or because poll calls itself.
PollKeepalive ==
  /\ At("poll") \/ (Idle /\ disp.woken)
  /\ LET k == KeepAlive([disp EXCEPT !.woken = disp.pc = "poll" /\ @])
     IN  disp' = Goto(k, IF "SHUTDOWN" \in k.flags THEN "shutdown" ELSE "read")
  /\ UNCHANGED <<conf, net>>

-----------------------------------------------------------------------------
(* The rest of Dispatcher::poll. *)

\* read_available: everything the socket holds, whether or not the payload the
\* bytes belong to is paused.  A reset after some bytes counts as an end.
ReadAvailable ==
  /\ At("read")
  /\ IF "READ_DISCONNECT" \in disp.flags
     THEN /\ disp' = PollRequest([disp EXCEPT !.eof = FALSE], "poll")
          /\ UNCHANGED net
     ELSE IF net.peer = "reset" /\ net.sock = <<>>
     THEN disp' = Ended(disp, "error") /\ UNCHANGED net
     ELSE /\ disp' = PollRequest([disp EXCEPT !.readBuf = @ \o net.sock,
                                              !.eof = net.peer # "open"], "poll")
          /\ net' = [net EXCEPT !.sock = <<>>]
  /\ UNCHANGED conf

ReadEof ==
  /\ At("eof")
  /\ disp' = Goto(IF disp.eof THEN FeedEof(Flagged(disp, {"READ_DISCONNECT"})) ELSE disp,
                  "respond")
  /\ UNCHANGED <<conf, net>>

\* poll_flush: the kernel takes all, or a part and then blocks, or fails.
Flush(Then(_)) ==
  \/ /\ net' = [net EXCEPT !.got = @ \o disp.writeBuf, !.blocked = FALSE]
     /\ disp' = Then([disp EXCEPT !.writeBuf = <<>>])
  \/ \E n \in 0..Len(disp.writeBuf) - 1 :
       /\ net' = [net EXCEPT !.got = @ \o SubSeq(disp.writeBuf, 1, n), !.blocked = TRUE]
       /\ disp' = Then([disp EXCEPT !.writeBuf = SubSeq(@, n + 1, Len(@))])
  \/ /\ disp.writeBuf # <<>> /\ net.peer = "reset"
     /\ disp' = Ended(disp, "error")
     /\ UNCHANGED net

PollFlush ==
  /\ At("flush")
  /\ Flush(LAMBDA d : Goto(d, IF d.drain /\ d.writeBuf = <<>> THEN "respond" ELSE "end"))
  /\ UNCHANGED conf

\* A faulty variant of EndTurn: what is written but not flushed is forgotten.
EndTurnUnflushed(d) ==
  IF "WRITE_DISCONNECT" \in d.flags THEN Ended(d, "ok")
  ELSE IF d.state # NoState THEN Goto(d, "idle")
  ELSE IF d.error THEN Ended(d, "error")
  ELSE IF "KEEPALIVE" \notin d.flags /\ "STARTED" \in d.flags THEN Ended(d, "ok")
  ELSE Goto(d, "idle")

EndTurn(d) ==
  LET empty == d.state = NoState
      e == IF "READ_DISCONNECT" \in d.flags /\ empty THEN Flagged(d, {"SHUTDOWN"}) ELSE d
  IN  IF "WRITE_DISCONNECT" \in d.flags THEN Ended(d, "ok")
      ELSE IF ~empty \/ d.writeBuf # <<>> THEN Goto(e, "idle")
      ELSE IF d.error THEN Ended(e, "error")
      ELSE IF "STARTED" \in e.flags /\ "KEEPALIVE" \notin e.flags
           THEN Goto(Flagged(e, {"SHUTDOWN"}), "poll")
      ELSE Goto(e, IF "SHUTDOWN" \in e.flags THEN "poll" ELSE "idle")

PollEnd ==
  /\ At("end")
  /\ disp' = EndTurn(disp)
  /\ UNCHANGED <<conf, net>>

PollShutdown ==
  /\ At("shutdown")
  /\ IF "WRITE_DISCONNECT" \in disp.flags
     THEN disp' = Ended(disp, "ok") /\ UNCHANGED net
     ELSE Flush(LAMBDA d : IF d.writeBuf = <<>> THEN Ended(d, "ok") ELSE Goto(d, "idle"))
  /\ UNCHANGED conf

Turn == \/ PollKeepalive \/ ReadAvailable \/ Decode \/ ReadEof
        \/ PollResponse \/ PollFlush \/ PollEnd \/ PollShutdown

-----------------------------------------------------------------------------
(* The environment, between two turns. *)

Woken(d) == [d EXCEPT !.woken = TRUE]
ReadWakes == IF "READ_DISCONNECT" \in disp.flags THEN disp ELSE Woken(disp)

Accept ==
  /\ conf = NoConnection
  /\ \E s \in H1Scripts, c \in H1Configs :
       /\ conf' = [script |-> s, ka |-> c.ka, disc |-> c.disc]
       /\ disp' = NewDispatcher(conf')
  /\ UNCHANGED net

ClientSend ==
  /\ Idle /\ net.peer = "open" /\ net.sent < Len(Wire)
  /\ net' = [net EXCEPT !.sent = @ + 1, !.sock = Append(@, Wire[net.sent + 1])]
  /\ disp' = ReadWakes
  /\ UNCHANGED conf

\* The client closes its sending side, or the connection is reset.
ClientEnds ==
  /\ Idle /\ net.peer = "open"
  /\ \E how \in {"closed", "reset"} : net' = [net EXCEPT !.peer = how]
  /\ disp' = ReadWakes
  /\ UNCHANGED conf

Writable ==
  /\ Idle /\ net.blocked
  /\ net' = [net EXCEPT !.blocked = FALSE]
  /\ disp' = Woken(disp)
  /\ UNCHANGED conf

TimerFires ==
  /\ Idle /\ disp.timer = "armed"
  /\ disp' = Woken([disp EXCEPT !.timer = "fired"])
  /\ UNCHANGED <<conf, net>>

\* What the dispatcher waits for: an expectation, a handler or a body's chunk.
Waits(i) ==
  /\ disp.state.req = i
  /\ \/ disp.state.tag = "ExpectCall"
     \/ disp.state.tag = "ServiceCall" /\ Kind(i).handler \in {"slow", "dropper"}
     \/ disp.state.tag = "SendPayload" /\ Kind(i).resp = "stream"

Progress ==
  /\ Idle
  /\ \E i \in 1..Len(conf.script) :
       /\ Waits(i) /\ ~disp.rq[i].go
       /\ disp' = Woken([disp EXCEPT !.rq[i].go = TRUE])
  /\ UNCHANGED <<conf, net>>

H1Init ==
  /\ conf = NoConnection
  /\ net = [sent |-> 0, sock |-> <<>>, peer |-> "open", blocked |-> FALSE, got |-> <<>>]
  /\ disp = NewDispatcher(NoConnection)

H1Next == Accept \/ Turn \/ ClientSend \/ ClientEnds \/ Writable \/ TimerFires \/ Progress

\* The event loop runs a woken task, the kernel keeps draining its buffer, and
\* futures the server waits for complete.  The last two are strong: the timer may
\* start turns all the time, and the environment moves only between turns.
\* Nothing is promised of the client.
H1Fairness ==
  /\ WF_h1vars(Turn) /\ SF_h1vars(Writable) /\ SF_h1vars(Progress)
  /\ SF_h1vars((PollFlush \/ PollShutdown) /\ disp'.writeBuf = <<>>)

H1Spec == H1Init /\ [][H1Next]_h1vars /\ H1Fairness

-----------------------------------------------------------------------------
Requests == 1..Len(conf.script)
Occurs(t, i) == \E k \in 1..Len(net.got) : net.got[k] = Token(t, i)

\* All of request i has been sent, and all of its answer received.
Sent(i) == \A k \in 1..Len(Wire) : Wire[k].req <= i => k <= net.sent
Answered(i) == Occurs("status", i) /\ (Kind(i).resp # "empty" => Occurs("fin", i))

\* poll_response leaves its loop, although requests may be queued behind, after an
\* empty body of an error it waited for or of a queued request answered at once.
\* (An error of the first request's quick handler is in fact answered before.)
BreaksLoop(i) ==
  /\ Kind(i).resp = "empty"
  /\ \/ Kind(i).fails \/ Kind(i).expect = "refused"
     \/ i > 1 /\ (Kind(i).expect = "fails" \/ Kind(i).handler \in {"quick", "reader"})

\* The scripts the order and the promise of an answer are stated for.
KeepsOrder == \A i \in Requests : i + 2 <= Len(conf.script) => ~BreaksLoop(i)
KeepsGoing ==
  \A i \in Requests :
    i < Len(conf.script) => ~BreaksLoop(i) /\ Kind(i).expect \notin {"later", "refused"}
ReadsBodies ==
  \A i \in Requests :
    Kind(i).body > 0 => Kind(i).handler = "reader" /\ Kind(i).expect \notin Refusals

StatusesUpTo(tokens, k) == Cardinality({j \in 1..k : tokens[j].t = "status"})

\* Responses leave in the order of their requests and skip none (HTTP pipelining),
\* although poll_request may start a request early, poll_response takes queued
\* ones, and errors are queued between them.  The exception is a script in which
\* BreaksLoop leaves a queued request behind, which poll_request then overtakes.
AnsweredInOrder ==
  KeepsOrder =>
    LET tokens == net.got \o disp.writeBuf
    IN  \A k \in 1..Len(tokens) :
          tokens[k].t = "status" => tokens[k].req \in {StatusesUpTo(tokens, k), 0}

\* What a handler reads is the start of the body that was sent, in order; it sees
\* the end only after all of it, and never of a corrupt one.  The exception is a
\* client that closes its sending side: poll then feeds an end, even of a body
\* whose rest was sent and waits in read_buf because the payload is paused, and
\* the handler cannot tell what it has from a complete body.
BodyIsTruthful ==
  \A i \in Requests :
    LET r == disp.rq[i]
    IN  /\ r.got = [n \in 1..Len(r.got) |-> n] /\ Len(r.got) <= Kind(i).body
        /\ r.saw = "eof" => \/ Len(r.got) = Kind(i).body /\ ~Kind(i).corrupt
                            \/ net.peer # "open"

\* A connection that ends without an error leaves no request unanswered that it
\* has started or queued while the client listens; the exceptions are what stands
\* behind a request that BreaksLoop, and a malformed chunk.  An upgrade's handler
\* gets every byte behind its request, unless the upgrade had to wait and bytes
\* behind it were taken for a chunk of no payload.
NothingCutShort ==
  /\ disp.outcome = "ok" /\ net.peer = "open" /\ ~disp.error /\ KeepsGoing =>
       /\ disp.messages = <<>> /\ disp.state = NoState /\ disp.writeBuf = <<>>
       /\ \A i \in Requests : Occurs("status", i) => Answered(i)
  /\ disp.outcome = "upgraded" /\ ~disp.error =>
       LET rest == disp.readBuf \o net.sock
       IN  \A k \in 1..net.sent : Wire[k].t = "chunk" /\ Kind(Wire[k].req).head = "upgrade" =>
             \E j \in 1..Len(rest) : rest[j] = Wire[k]

\* Request i stayed in read_buf because the queue was full, and what was queued has
\* been answered in one turn: nothing decodes it until the connection is woken again.
LeftUndecoded(i) ==
  /\ i > MaxPipelined + 1 /\ disp.state = NoState /\ disp.messages = <<>>
  /\ \E k \in DOMAIN disp.readBuf : disp.readBuf[k].t = "head" /\ disp.readBuf[k].req = i

\* A request that was sent is answered or the connection ends, whatever the
\* keep-alive timer, a blocked socket and paused payloads do in between, if
\* handlers read bodies to their end.  The exception is one that did not fit the
\* queue: poll_response may answer all that was queued and leave it undecoded.
Unanswered ==
  /\ KeepsGoing /\ ReadsBodies /\ disp.outcome = "open"
  /\ \E i \in Requests : Sent(i) /\ ~Answered(i) /\ ~LeftUndecoded(i)
EveryRequestAnswered == []<>~Unanswered
=============================================================================
