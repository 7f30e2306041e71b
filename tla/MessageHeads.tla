------------------------------- MODULE MessageHeads ------------------------------
(***************************************************************************)
(* The pools from which actix-http takes the heads of requests and         *)
(* responses (message.rs), as request.rs, response.rs, the decoder and the *)
(* dispatchers use them.  A thread has one pool of each family.            *)
(*                                                                         *)
(* A request head is shared (Message, an Rc) and cleaned when it is taken  *)
(* again; a response head has one owner and gives up its extensions when   *)
(* it is put back.  An extension may itself hold a message: clearing it    *)
(* while the pool is borrowed is where a pool can panic.  What is stored   *)
(* is the number of the exchange it belongs to.                            *)
(***************************************************************************)
EXTENDS Integers, Sequences, FiniteSets, SequencesExt

CONSTANTS Handles, \* the places that hold a message
          ConnectionTypes,
          Exchanges, \* sequences of what messages are taken by, each for an exchange of its own
          PoolMax  \* a pool keeps so many heads (128)
Takers == {"dispatcher", "one request", "new", "response"}
ASSUME HeadsAssumption == PoolMax \in Nat /\ IsFiniteSet(Handles)
ASSUME ExchangesAssumption == Exchanges \subseteq Seq(Takers)

VARIABLES
  exchanges, \* those of this behaviour
  taken,    \* the number of messages taken
  head,     \* the contents of heads
  holder,   \* what a place holds: a head, and the exchange it was taken for
  headpool, \* the heads in the pool, the last one is taken first
  dropping, \* a message whose drop is going on, or none
  panicked  \* why the thread panicked, if it did

heads == <<exchanges, taken, head, holder, headpool, dropping, panicked>>

Heads == DOMAIN exchanges
family == IF exchanges[1] = "response" THEN "response" ELSE "request"
NoHead == 0
Empty == [head |-> NoHead, tag |-> 0, by |-> ""]

\* RequestHead::default and ResponseHead::new.
Default ==
  [line |-> 0, version |-> 0, peer |-> 0, headers |-> {}, flags |-> {}, extensions |-> {}, holds |-> NoHead]

\* Rc::strong_count: the places and extensions that hold a head.
Count(m) == Cardinality({h \in Handles : holder[h].head = m}) + Cardinality({n \in Heads : head[n].holds = m})
            + IF dropping = m THEN 1 ELSE 0
Unused == {m \in Heads : Count(m) = 0 /\ m \notin ToSet(headpool)}
\* Which free place is used does not matter.
FreePlace == CHOOSE h \in Handles : holder[h] = Empty
Quiet == exchanges # <<>> /\ dropping = NoHead /\ panicked = ""

-----------------------------------------------------------------------------
\* RequestHead::clear, and what BoxedResponsePool::get_message resets.
\* A faulty variant of Clear: the extensions stay.
ClearButExtensions(m) == [head[m] EXCEPT !.headers = {}, !.flags = {}, !.holds = NoHead]
Clear(m) ==
  IF family = "request" THEN [head[m] EXCEPT !.headers = {}, !.flags = {}, !.extensions = {}, !.holds = NoHead]
  ELSE [head[m] EXCEPT !.headers = {}, !.flags = {}]

\* What is written into the head that was taken: by the decoder (of a request with
\* Connection: close) and the dispatchers, with the data of the on-connect callback; by
\* OneRequest, which leaves the peer address; by Request::new; and by Response::new.
Filled(f, tag, by) ==
  CASE by = "dispatcher" ->
         [f EXCEPT !.line = tag, !.headers = {tag}, !.flags = @ \cup {<<"close", tag>>}, !.peer = tag,
                   !.extensions = @ \cup {tag}]
    [] by = "one request" -> [f EXCEPT !.line = tag, !.headers = {tag}, !.flags = @ \cup {<<"close", tag>>}]
    [] by = "new" -> f
    [] by = "response" -> [f EXCEPT !.line = tag]

\* get_message.  Clearing a request head drops the message its extensions hold, and the
\* pool is borrowed: if it was the last one, its release panics.
Take(h, tag, by) ==
  /\ Quiet /\ tag = taken + 1 /\ by = exchanges[tag] /\ holder[h] = Empty /\ h = FreePlace
  /\ \/ /\ headpool = <<>> /\ Unused # {}
        /\ LET m == CHOOSE x \in Unused : \A y \in Unused : x <= y
           IN  /\ head' = [head EXCEPT ![m] = Filled(Default, tag, by)]
               /\ holder' = [holder EXCEPT ![h] = [head |-> m, tag |-> tag, by |-> by]]
        /\ UNCHANGED <<headpool, panicked>>
     \/ /\ headpool # <<>>
        /\ LET m == Last(headpool)
               panics == head[m].holds # NoHead /\ Count(head[m].holds) = 1
           IN  IF panics THEN panicked' = "borrowed" /\ UNCHANGED <<head, holder, headpool>>
               ELSE /\ headpool' = Front(headpool)
                    /\ head' = [head EXCEPT ![m] = Filled(Clear(m), tag, by)]
                    /\ holder' = [holder EXCEPT ![h] = [head |-> m, tag |-> tag, by |-> by]]
                    /\ UNCHANGED panicked
  /\ taken' = tag /\ UNCHANGED <<exchanges, dropping>>

\* Message::clone.
CloneMessage(h, g) ==
  /\ Quiet /\ family = "request" /\ holder[h] # Empty /\ holder[g] = Empty /\ g = FreePlace
  /\ holder' = [holder EXCEPT ![g] = holder[h]]
  /\ UNCHANGED <<exchanges, taken, head, headpool, dropping, panicked>>

\* head_mut and the flags it sets: with a second copy, DerefMut panics.  A connection type
\* is added to those set before.
SetConnectionType(h, type) ==
  /\ Quiet /\ holder[h] # Empty
  /\ LET m == holder[h].head
     IN  IF Count(m) > 1 THEN panicked' = "copies" /\ UNCHANGED head
         ELSE head' = [head EXCEPT ![m].flags = @ \cup {<<type, holder[h].tag>>}] /\ UNCHANGED panicked
  /\ UNCHANGED <<exchanges, taken, holder, headpool, dropping>>
ConnectionType(m) ==
  LET set == {f[1] : f \in head[m].flags}
  IN  IF "close" \in set THEN "close" ELSE IF "keep-alive" \in set THEN "keep-alive"
      ELSE IF "upgrade" \in set THEN "upgrade" ELSE "by version"

\* The codec writes the version into a response before it is encoded.
WriteVersion(h) ==
  /\ Quiet /\ family = "response" /\ holder[h] # Empty
  /\ head' = [head EXCEPT ![holder[h].head].version = holder[h].tag]
  /\ UNCHANGED <<exchanges, taken, holder, headpool, dropping, panicked>>

\* extensions_mut().insert: a message moves into the extensions of another; one that was
\* there before is dropped.
InsertExtension(h, g) ==
  /\ Quiet /\ h # g /\ holder[h] # Empty /\ holder[g] # Empty
  /\ LET m == holder[h].head
     IN  head' = [head EXCEPT ![m].holds = holder[g].head] /\ dropping' = head[m].holds
  /\ holder' = [holder EXCEPT ![g] = Empty]
  /\ UNCHANGED <<exchanges, taken, headpool, panicked>>

DropHandle(h) ==
  /\ Quiet /\ holder[h] # Empty
  /\ dropping' = holder[h].head /\ holder' = [holder EXCEPT ![h] = Empty]
  /\ UNCHANGED <<exchanges, taken, head, headpool, panicked>>

\* Drop of Message and BoxedResponseHead, and release.  The last owner puts the head back;
\* with a full pool it is freed, and the message its extensions hold is dropped then.  A
\* response clears its extensions while the pool is borrowed.
Drop ==
  /\ dropping # NoHead /\ panicked = ""
  /\ LET m == dropping
         held == head[m].holds
         room == Len(headpool) < PoolMax
     IN  \/ Count(m) > 1 /\ dropping' = NoHead /\ UNCHANGED <<head, headpool, panicked>>
         \/ /\ Count(m) = 1 /\ room /\ family = "request"
            /\ headpool' = Append(headpool, m) /\ dropping' = NoHead
            /\ UNCHANGED <<head, panicked>>
         \/ /\ Count(m) = 1 /\ room /\ family = "response"
            /\ IF held # NoHead THEN panicked' = "borrowed" /\ UNCHANGED <<head, headpool>>
               ELSE /\ headpool' = Append(headpool, m)
                    /\ head' = [head EXCEPT ![m].extensions = {}] /\ UNCHANGED panicked
            /\ dropping' = NoHead
         \/ /\ Count(m) = 1 /\ ~room
            /\ head' = [head EXCEPT ![m] = Default] /\ dropping' = held
            /\ UNCHANGED <<headpool, panicked>>
  /\ UNCHANGED <<exchanges, taken, holder>>

\* MessagePool::create and BoxedResponsePool::create.
Create(s) ==
  /\ exchanges = <<>> /\ exchanges' = s /\ head' = [m \in DOMAIN s |-> Default]
  /\ UNCHANGED <<taken, holder, headpool, dropping, panicked>>

HeadsInit ==
  /\ exchanges = <<>> /\ taken = 0 /\ head = <<>> /\ holder = [h \in Handles |-> Empty]
  /\ headpool = <<>> /\ dropping = NoHead /\ panicked = ""
HeadsNext ==
  \/ \E s \in Exchanges : Create(s)
  \/ \E h \in Handles, tag \in Heads : Take(h, tag, exchanges[tag])
  \/ \E h, g \in Handles : CloneMessage(h, g) \/ InsertExtension(h, g)
  \/ \E h \in Handles, type \in ConnectionTypes : SetConnectionType(h, type)
  \/ \E h \in Handles : WriteVersion(h) \/ DropHandle(h)
  \/ Drop
HeadsSpec == HeadsInit /\ [][HeadsNext]_heads

-----------------------------------------------------------------------------
\* Whatever is taken, copied, stored in extensions and dropped, and in whatever order: no
\* head in the pool is held by anybody or twice there, and a message shows only data of
\* its own exchange.  What a reused head keeps of an earlier exchange is the request line
\* of Request::new, the peer address of Request::new and OneRequest, and the version of a
\* response not yet encoded.  A thread panics only if a message held others in its
\* extensions, or a request was changed while it had copies.
HeadsAreFresh ==
  /\ IsInjective(headpool)
  /\ \A i \in DOMAIN headpool : Count(headpool[i]) = 0
  /\ \A h \in Handles : holder[h] # Empty =>
       LET m == head[holder[h].head]
           own == {holder[h].tag}
       IN  /\ m.headers \subseteq own /\ m.extensions \subseteq own /\ {f[2] : f \in m.flags} \subseteq own
           /\ holder[h].by # "new" => m.line = holder[h].tag
           /\ holder[h].by = "dispatcher" => m.peer = holder[h].tag
           /\ m.flags = {} => ConnectionType(holder[h].head) = "by version"
  /\ panicked = "copies" => family = "request"
  /\ panicked = "borrowed" => \E m \in Heads : head[m].holds # NoHead
=============================================================================
