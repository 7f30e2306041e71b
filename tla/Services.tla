--------------------------------- MODULE Services --------------------------------
(***************************************************************************)
(* How actix-http puts a service together and gives connections to it: the *)
(* builder (builder.rs), the factories that make its parts (service.rs,    *)
(* h1/service.rs, h2/service.rs), their readiness, the protocol of a       *)
(* connection, the HTTP/2 handshake, the on-connect callback, and          *)
(* OneRequest, which reads one request and hands the connection on.        *)
(*                                                                         *)
(* The worker of actix-server, TLS and the clients are external: the       *)
(* worker makes the service anew after a readiness error, and gives it a   *)
(* connection after a check of its readiness.                              *)
(***************************************************************************)
EXTENDS Integers, Sequences, SequencesExt

CONSTANTS Chains, \* sequences of builder calls <<setting, value>> that applications make
          Ends,   \* <<how the chain ends, the transport>>
          Clients \* [offers, prior]: the ALPN names a client offers, what it speaks without one

VARIABLES
  site,   \* the factory: its settings, and what it is a factory of
  worker, \* what the worker does with it
  fut,    \* the futures that make the parts: none, waits or spent
  gate,   \* the readiness of the parts
  caller  \* a connection

services == <<site, worker, fut, gate, caller>>

Order == <<"expect", "upgrade", "srv">>
NoSite == [end |-> "none"]
NoClient == [st |-> "none"]

\* HttpServiceBuilder::new, and its setters.
HttpServiceBuilder ==
  [keep_alive |-> 5, client_timeout |-> 5000, client_disconnect |-> 0, secure |-> FALSE, local_addr |-> FALSE,
   expect |-> FALSE, upgrade |-> FALSE, on_connect |-> FALSE]
Set(builder, setting) == [builder EXCEPT ![setting[1]] = setting[2]]
\* h1, h2 and finish: what of the builder goes into the service.  HTTP/2 knows no expect
\* and no upgrade service, OneRequest nothing but default settings.
Finished(builder, end) ==
  [end |-> end[1], transport |-> end[2], on_connect |-> builder.on_connect /\ end[1] # "one request",
   config |-> [s \in {"keep_alive", "client_timeout", "client_disconnect", "secure", "local_addr"} |-> builder[s]],
   parts |-> CASE end[1] = "h2" -> {"srv"}
               [] end[1] = "one request" -> {}
               [] OTHER -> {"expect", "srv"} \cup (IF builder.upgrade THEN {"upgrade"} ELSE {}),
   \* The expect service of the builder, ExpectHandler, is always ready.
   custom |-> {p \in {"expect"} : builder.expect} \cup {"upgrade", "srv"}]
Build(chain, end) ==
  /\ site = NoSite /\ site' = Finished(FoldLeft(Set, HttpServiceBuilder, chain), end)
  /\ UNCHANGED <<worker, fut, gate, caller>>

-----------------------------------------------------------------------------
\* new_service.
NewService(next) ==
  /\ fut' = [p \in site.parts |-> "waits"]
  /\ worker' = next
StartWorker ==
  /\ site # NoSite /\ worker = "idle" /\ NewService("starts")
  /\ UNCHANGED <<site, gate, caller>>

\* poll of HttpServiceResponse and H1ServiceResponse, with the outcome of each part's
\* future.  The future of the upgrade service stays: the line that should drop it drops
\* the one of the expect service once more.  A future that has ended panics.
PollNewService(outcome) ==
  LET left == {i \in 1..3 : Order[i] \in site.parts /\ fut[Order[i]] # "none"}
      ready(p) == fut[p] = "waits" /\ outcome[p] = "ready"
      stops == {i \in left : ~ready(Order[i])}
      passed == {Order[i] : i \in {j \in left : stops # {} /\ \A k \in stops : j < k}}
      stop == Order[CHOOSE i \in stops : \A k \in stops : i <= k]
  IN  /\ worker \in {"starts", "restarts"}
      /\ fut' = [p \in site.parts |-> IF p \notin passed THEN fut[p] ELSE IF p = "upgrade" THEN "spent" ELSE "none"]
      /\ worker' = IF stops = {} THEN "serves"
                   ELSE IF fut[stop] = "spent" THEN "panicked"
                   ELSE IF outcome[stop] = "pending" THEN worker
                   ELSE IF worker = "starts" THEN "stopped" ELSE "failed to restart"
      /\ gate' = [p \in site.parts |-> "ready"]
      /\ UNCHANGED <<site, caller>>

\* A part turns busy or ready, or breaks.
GateTurns(p, g) ==
  /\ worker = "serves" /\ p \in site.custom /\ gate[p] # "broken" /\ gate' = [gate EXCEPT ![p] = g]
  /\ UNCHANGED <<site, worker, fut, caller>>

\* poll_ready: a broken part is an error, and every part must be ready.
\* A faulty variant of PollReady: the part asked last decides.
PollReadyLast ==
  IF \E p \in site.parts : gate[p] = "broken" THEN "error"
  ELSE IF site.parts = {} \/ gate[IF "upgrade" \in site.parts THEN "upgrade" ELSE "srv"] = "ready" THEN "ready" ELSE "pending"
PollReady ==
  IF \E p \in site.parts : gate[p] = "broken" THEN "error"
  ELSE IF \A p \in site.parts : gate[p] = "ready" THEN "ready" ELSE "pending"
Restart ==
  /\ worker = "serves" /\ PollReady = "error" /\ NewService("restarts")
  /\ UNCHANGED <<site, gate, caller>>

-----------------------------------------------------------------------------
HasH2(name) == \E i \in 1..Len(name) - 1 : SubSeq(name, i, i + 1) = <<"h", "2">>
H2 == <<"h", "2">>
Http11 == <<"h", "1">>
NoName == <<>>
\* The names offered are that of HTTP/1.1 and variants of that of HTTP/2.
ASSUME ClientsAssumption ==
  /\ Clients \subseteq [offers : SUBSET Seq(STRING), prior : {"h1", "h2"}]
  /\ \A k \in Clients : \A n \in k.offers : n = Http11 \/ HasH2(n)

\* The names a rustls server is configured with; another acceptor is the application's.
ServerNames == IF site.end = "h2" THEN <<H2>> ELSE <<H2, Http11>>
Negotiable(offers) ==
  IF site.transport = "tcp" THEN {NoName}
  ELSE IF site.transport = "rustls" /\ site.end \in {"h2", "finish"} THEN
    LET common == SelectSeq(ServerNames, LAMBDA n : n \in offers) IN IF common = <<>> THEN {NoName} ELSE {common[1]}
  ELSE offers \cup {NoName}
Speaks(k, alpn) == IF alpn = NoName THEN k.prior ELSE IF alpn = Http11 THEN "h1" ELSE "h2"

AcceptClient(k) ==
  /\ worker = "serves" /\ caller = NoClient /\ PollReady = "ready"
  /\ caller' = [st |-> "accepted", speaks |-> k.prior, alpn |-> NoName, offers |-> k.offers, calls |-> 0,
                asked |-> {p \in site.parts : gate[p] # "ready"}]
  /\ UNCHANGED <<site, worker, fut, gate>>

\* The TLS handshake, if there is one, and the call of the service: the callback, and
\* the protocol.  The readiness is not asked again.
Protocol(alpn) ==
  CASE site.end = "finish" -> IF site.transport # "tcp" /\ HasH2(alpn) THEN "h2 handshake" ELSE "h1"
    [] site.end = "h1" -> "h1"
    [] site.end = "h2" -> "h2 handshake"
    [] OTHER -> "one request"
Call(alpn) ==
  /\ caller # NoClient /\ caller.st = "accepted" /\ alpn \in Negotiable(caller.offers)
  /\ caller' = [caller EXCEPT !.st = Protocol(alpn), !.alpn = alpn,
                              !.speaks = Speaks([prior |-> caller.speaks], alpn),
                              !.calls = IF site.on_connect THEN @ + 1 ELSE @]
  /\ UNCHANGED <<site, worker, fut, gate>>
TlsFails ==
  /\ caller # NoClient /\ caller.st = "accepted" /\ site.transport # "tcp"
  /\ caller' = [caller EXCEPT !.st = "no tls"]
  /\ UNCHANGED <<site, worker, fut, gate>>

\* State::H2Handshake: the dispatcher takes over, or the connection ends.
FinishHandshake ==
  /\ caller # NoClient /\ caller.st = "h2 handshake"
  /\ caller' = [caller EXCEPT !.st = IF caller.speaks = "h2" THEN "h2" ELSE "refused"]
  /\ UNCHANGED <<site, worker, fut, gate>>
\* The HTTP/1 dispatcher answers the preface of HTTP/2 with 400.
Preface ==
  /\ caller # NoClient /\ caller.st = "h1" /\ caller.speaks = "h2"
  /\ caller' = [caller EXCEPT !.st = "refused"]
  /\ UNCHANGED <<site, worker, fut, gate>>
\* OneRequestServiceResponse: the first request is handed over with the connection.
OneRequest(o) ==
  /\ caller # NoClient /\ caller.st = "one request"
  /\ caller' = [caller EXCEPT !.st = IF o = "request" /\ caller.speaks = "h1" THEN "handed over" ELSE "refused"]
  /\ UNCHANGED <<site, worker, fut, gate>>

\* A connection in use, or given up, ends.
Leave ==
  /\ caller # NoClient /\ caller.st \notin {"accepted", "h2 handshake", "one request"}
  /\ caller' = NoClient
  /\ UNCHANGED <<site, worker, fut, gate>>

ServicesInit == site = NoSite /\ worker = "idle" /\ fut = <<>> /\ gate = <<>> /\ caller = NoClient
ServicesNext ==
  \/ \E chain \in Chains, end \in Ends : Build(chain, end)
  \/ StartWorker \/ Restart \/ Leave \/ FinishHandshake \/ Preface \/ TlsFails
  \/ worker \in {"starts", "restarts"} /\
       \E outcome \in [site.parts -> {"pending", "ready", "fails"}] : PollNewService(outcome)
  \/ worker = "serves" /\ \E p \in site.parts, g \in {"ready", "busy", "broken"} : GateTurns(p, g)
  \/ \E k \in Clients : AcceptClient(k) \/ \E alpn \in k.offers \cup {NoName} : Call(alpn)
  \/ \E o \in {"request", "end", "malformed"} : OneRequest(o)
ServicesSpec == ServicesInit /\ [][ServicesNext]_services

-----------------------------------------------------------------------------
\* A connection is accepted only when every part of the service was ready, and its
\* callback is called exactly once, when the service is called.  A service for both
\* protocols refuses no client that negotiated its protocol, or that speaks HTTP/1.
\* The worker panics only when a future was polled after its end, and that can happen
\* only with an upgrade service that was ready before the main one.
ServedAsAgreed ==
  /\ caller # NoClient =>
       /\ caller.asked = {}
       /\ caller.calls = IF site.on_connect /\ caller.st \notin {"accepted", "no tls"} THEN 1 ELSE 0
       /\ caller.st = "refused" /\ site.end = "finish" => caller.alpn = NoName /\ caller.speaks = "h2"
  /\ worker = "panicked" => "upgrade" \in site.parts /\ fut["upgrade"] = "spent" /\ fut["srv"] = "waits"
=============================================================================
