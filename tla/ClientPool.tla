------------------------------ MODULE ClientPool ------------------------------
(***************************************************************************)
(* The HTTP client's connection pool: ConnectionPool of client/pool.rs     *)
(* with its guards, its support tasks and the tasks that open a connection *)
(* for a waiting call, and the use of a connection by client/h1proto.rs    *)
(* and client/h2proto.rs up to its release.                                *)
(*                                                                         *)
(* A call asks for a connection to its key, uses it and gives it back; its *)
(* future may be dropped at any await.  Connecting may fail.  An idle      *)
(* connection may grow stale, and its peer may close it or write to it.    *)
(* A support task serves one waiter in a step.  A connection is named      *)
(* after the call it was opened for.                                       *)
(***************************************************************************)
EXTENDS Integers, Sequences, FiniteSets

CONSTANTS Calls,      \* requests of the client
          KeyOf,      \* the authority each goes to
          H2Keys,     \* authorities that negotiate HTTP/2
          Limit,      \* total number of simultaneous connections, 0 for none
          PoolFaults  \* what may go wrong: a subset of "connect", "cancel", "peer"

ASSUME PoolCallsAssumption == IsFiniteSet(Calls) /\ "no connection" \notin Calls
ASSUME PoolKeysAssumption == H2Keys \subseteq {KeyOf[c] : c \in Calls}
ASSUME PoolLimitAssumption == Limit \in Nat /\ PoolFaults \subseteq {"connect", "cancel", "peer"}

Keys == {KeyOf[c] : c \in Calls}
IsH2(c) == KeyOf[c] \in H2Keys
NoConn == "no connection"

VARIABLES
  acquired,  \* Inner.acquired
  available, \* Inner.available: the idle connections of each key, oldest first
  queue,     \* Inner.waiters_queue
  support,   \* whether a ConnectorPoolSupport task will be polled
  call,      \* where each call is, and the connection it has
  opener,    \* the OpenWaitingConnection of a call
  conn,      \* what became of each connection: fresh, stale, noisy or broken
  lost,      \* auxiliary: permits no guard gave back
  dropped    \* auxiliary: whether a permit came back without a wake-up

pool == <<acquired, available, queue, support, call, opener, conn, lost, dropped>>

CallStates == {"new", "called", "connect", "handshake", "waiting", "holding",
               "reading", "streaming", "done", "failed", "gone"}

PoolTypeOK ==
  /\ acquired \in Nat /\ lost \in Nat /\ dropped \in BOOLEAN /\ support \in BOOLEAN
  /\ available \in [Keys -> Seq(Calls)] /\ queue \in Seq(Calls)
  /\ call \in [Calls -> [st : CallStates, conn : Calls \cup {NoConn}]]
  /\ opener \in [Calls -> {"none", "connect", "handshake"}]
  /\ conn \in [Calls -> {"fresh", "stale", "noisy", "broken"}]

In(c, st) == call[c].st = st
Moved(c, st) == [call EXCEPT ![c].st = st]
Given(c, k)  == [call EXCEPT ![c] = [st |-> "holding", conn |-> k]]
Left(c, st) == [call EXCEPT ![c] = [st |-> st, conn |-> NoConn]]

\* A faulty variant of Wakes: the task of the waiters is not woken.
WakesNobody(q, n) == UNCHANGED support

\* check_availibility, with the queue and the count as they are now.
Wakes(q, n) == support' = (support \/ (q # <<>> /\ n < Limit))

-----------------------------------------------------------------------------
(* Inner::acquire: the newest idle connection that is not stale and, under
   HTTP/1, has nothing to read; the ones it pops before are closed. *)

Usable(k) == conn[k] = "fresh" \/ (KeyOf[k] \in H2Keys /\ conn[k] = "broken")

Full == Limit > 0 /\ acquired >= Limit

Newest(idle) ==
  LET good == {n \in 1..Len(idle) : Usable(idle[n])}
  IN  IF good = {} THEN 0 ELSE CHOOSE n \in good : \A m \in good : m <= n

Without(key) == [available EXCEPT ![key] = SubSeq(@, 1, Newest(@) - 1)]
Found(key)   == IF Newest(available[key]) = 0 THEN NoConn ELSE available[key][Newest(available[key])]

\* ConnectionPool::call spawns a support task; its future runs later.
CallPool(c) ==
  /\ In(c, "new")
  /\ call' = Moved(c, "called")
  /\ support' = TRUE
  /\ UNCHANGED <<acquired, available, queue, opener, conn, lost, dropped>>

AcquireConn(c) ==
  /\ In(c, "called")
  /\ \/ /\ Full
        /\ queue' = Append(queue, c)
        /\ call' = Moved(c, "waiting")
        /\ UNCHANGED <<acquired, available>>
     \/ /\ ~Full
        /\ acquired' = acquired + 1
        /\ available' = Without(KeyOf[c])
        /\ call' = IF Found(KeyOf[c]) = NoConn THEN Moved(c, "connect")
                   ELSE Given(c, Found(KeyOf[c]))
        /\ UNCHANGED queue
  /\ UNCHANGED <<support, opener, conn, lost, dropped>>

\* The call's own connector.  The guard that gives the permit back is made only
\* after it has succeeded; an HTTP/2 handshake runs under the guard.
Connected(c) ==
  /\ In(c, "connect")
  /\ call' = IF IsH2(c) THEN Moved(c, "handshake") ELSE Given(c, c)
  /\ UNCHANGED <<acquired, available, queue, support, opener, conn, lost, dropped>>

ConnectFails(c) ==
  /\ "connect" \in PoolFaults /\ In(c, "connect")
  /\ call' = Moved(c, "failed")
  /\ lost' = lost + 1
  /\ UNCHANGED <<acquired, available, queue, support, opener, conn, dropped>>

Handshaken(c) ==
  /\ In(c, "handshake")
  /\ call' = Given(c, c)
  /\ UNCHANGED <<acquired, available, queue, support, opener, conn, lost, dropped>>

\* A faulty variant of HandshakeFails: the permit is not given back.
HandshakeFailsHolding(c) ==
  /\ "connect" \in PoolFaults /\ In(c, "handshake")
  /\ call' = Moved(c, "failed")
  /\ UNCHANGED <<acquired, available, queue, support, opener, conn, lost, dropped>>

HandshakeFails(c) ==
  /\ "connect" \in PoolFaults /\ In(c, "handshake")
  /\ call' = Moved(c, "failed")
  /\ acquired' = acquired - 1
  /\ Wakes(queue, acquired - 1)
  /\ UNCHANGED <<available, queue, opener, conn, lost, dropped>>

-----------------------------------------------------------------------------
(* ConnectorPoolSupport: serves waiters from the front of the queue.
   swap_remove_index(0) puts the last one in the place of the first. *)

SwapRemoved(q) == [n \in 1..Len(q) - 1 |-> IF n = 1 THEN q[Len(q)] ELSE q[n]]

Support ==
  /\ support
  /\ IF queue = <<>> \/ Full
     THEN /\ support' = FALSE
          /\ UNCHANGED <<acquired, available, queue, call, opener>>
     ELSE LET c == Head(queue)
              k == Found(KeyOf[c])
          IN  /\ acquired' = acquired + 1
              /\ available' = Without(KeyOf[c])
              /\ queue' = SwapRemoved(queue)
              /\ call' = IF k = NoConn THEN call ELSE Given(c, k)
              /\ opener' = IF k = NoConn THEN [opener EXCEPT ![c] = "connect"] ELSE opener
              /\ UNCHANGED support
  /\ UNCHANGED <<conn, lost, dropped>>

\* Acquired::drop gives the permit back and wakes nobody.
DropsPermit == acquired' = acquired - 1 /\ dropped' = TRUE

\* OpenWaitingConnection: the connection goes to the waiting call; if that call is
\* gone, it is dropped with its permit.
OpenerConnects(c) ==
  /\ \/ /\ opener[c] = "connect" /\ IsH2(c)
        /\ opener' = [opener EXCEPT ![c] = "handshake"]
        /\ UNCHANGED <<acquired, call, dropped>>
     \/ /\ opener[c] = (IF IsH2(c) THEN "handshake" ELSE "connect")
        /\ opener' = [opener EXCEPT ![c] = "none"]
        /\ \/ In(c, "waiting") /\ call' = Given(c, c) /\ UNCHANGED <<acquired, dropped>>
           \/ ~In(c, "waiting") /\ DropsPermit /\ UNCHANGED call
  /\ UNCHANGED <<available, queue, support, conn, lost>>

\* On an error it takes `inner` away, so that its own Drop does not release.
OpenerFails(c) ==
  /\ "connect" \in PoolFaults /\ opener[c] # "none"
  /\ opener' = [opener EXCEPT ![c] = "none"]
  /\ call' = IF In(c, "waiting") THEN Moved(c, "failed") ELSE call
  /\ lost' = lost + 1
  /\ UNCHANGED <<acquired, available, queue, support, conn, dropped>>

-----------------------------------------------------------------------------
(* The use of a connection. *)

\* release_conn and release_close.
Release(k) ==
  /\ acquired' = acquired - 1
  /\ available' = [available EXCEPT ![KeyOf[k]] = Append(@, k)]
  /\ Wakes(queue, acquired - 1)

ReleaseClose ==
  /\ acquired' = acquired - 1
  /\ Wakes(queue, acquired - 1)
  /\ UNCHANGED available

\* h1proto::send_request: a response without a body releases the connection at
\* once, to the pool if it may be kept and nothing was read beyond the response.
H1Respond(c) ==
  /\ In(c, "holding") /\ ~IsH2(c)
  /\ \/ /\ call' = Moved(c, "reading")
        /\ UNCHANGED <<acquired, available, support>>
     \/ Release(call[c].conn) /\ call' = Left(c, "done")
     \/ ReleaseClose /\ call' = Left(c, "done")
  /\ UNCHANGED <<queue, opener, conn, lost, dropped>>

\* PlStream at the end of the body.
H1BodyEnds(c) ==
  /\ In(c, "reading")
  /\ Release(call[c].conn) \/ ReleaseClose
  /\ call' = Left(c, "done")
  /\ UNCHANGED <<queue, opener, conn, lost, dropped>>

\* An error of send_request, or a body that breaks off: the connection is dropped
\* with its permit.  The broken body looks like an ended one to its reader.
H1Breaks(c) ==
  /\ "peer" \in PoolFaults /\ call[c].st \in {"holding", "reading"} /\ ~IsH2(c)
  /\ DropsPermit
  /\ call' = Left(c, IF In(c, "reading") THEN "done" ELSE "failed")
  /\ UNCHANGED <<available, queue, support, opener, conn, lost>>

\* open_tunnel takes the socket away from the pool; under HTTP/2 it is refused.
OpenTunnel(c) ==
  /\ In(c, "holding")
  /\ \/ ~IsH2(c) /\ DropsPermit /\ call' = Left(c, "done") /\ UNCHANGED <<available, support>>
     \/ IsH2(c) /\ Release(call[c].conn) /\ call' = Left(c, "failed") /\ UNCHANGED dropped
  /\ UNCHANGED <<queue, opener, conn, lost>>

\* h2proto::send_request releases as soon as the request is on its way, and a
\* connection that refuses it with anything but an I/O error, too.
H2Send(c) ==
  /\ In(c, "holding") /\ IsH2(c)
  /\ \/ /\ conn[call[c].conn] # "broken"
        /\ Release(call[c].conn)
        /\ call' = Left(c, "streaming")
     \/ /\ conn[call[c].conn] = "broken"
        /\ Release(call[c].conn) \/ ReleaseClose
        /\ call' = Left(c, "failed")
  /\ UNCHANGED <<queue, opener, conn, lost, dropped>>

H2Respond(c) ==
  /\ In(c, "streaming")
  /\ call' = Left(c, "done")
  /\ UNCHANGED <<acquired, available, queue, support, opener, conn, lost, dropped>>

\* IndexSet::shift_remove: the order of the others stays.
Place(q, c) == CHOOSE n \in 1..Len(q) : q[n] = c
ShiftRemoved(q, c) ==
  IF \A n \in 1..Len(q) : q[n] # c THEN q
  ELSE [n \in 1..Len(q) - 1 |-> IF n < Place(q, c) THEN q[n] ELSE q[n + 1]]

\* The future or the response of a call is dropped: in connect() the permit is
\* lost; a WaiterGuard leaves the queue and checks; a held connection goes.
Cancel(c) ==
  /\ "cancel" \in PoolFaults
  /\ call' = Left(c, "gone")
  /\ \/ /\ call[c].st \in {"called", "streaming"}
        /\ UNCHANGED <<acquired, queue, support, lost, dropped>>
     \/ /\ In(c, "connect")
        /\ lost' = lost + 1
        /\ UNCHANGED <<acquired, queue, support, dropped>>
     \/ /\ In(c, "handshake")
        /\ acquired' = acquired - 1
        /\ Wakes(queue, acquired - 1)
        /\ UNCHANGED <<queue, lost, dropped>>
     \/ /\ In(c, "waiting")
        /\ queue' = ShiftRemoved(queue, c)
        /\ Wakes(queue', acquired)
        /\ UNCHANGED <<acquired, lost, dropped>>
     \/ /\ call[c].st \in {"holding", "reading"}
        /\ DropsPermit
        /\ UNCHANGED <<queue, support, lost>>
  /\ UNCHANGED <<available, opener, conn>>

\* Time and the peer work on idle connections.
Idles(k) == \E n \in 1..Len(available[KeyOf[k]]) : available[KeyOf[k]][n] = k
Decays(k) ==
  /\ "peer" \in PoolFaults /\ Idles(k) /\ conn[k] = "fresh"
  /\ \E how \in {"stale"} \cup (IF IsH2(k) THEN {"broken"} ELSE {"noisy"}) :
       conn' = [conn EXCEPT ![k] = how]
  /\ UNCHANGED <<acquired, available, queue, support, call, opener, lost, dropped>>

PoolInit ==
  /\ acquired = 0 /\ lost = 0 /\ dropped = FALSE /\ support = FALSE
  /\ available = [k \in Keys |-> <<>>] /\ queue = <<>>
  /\ call = [c \in Calls |-> [st |-> "new", conn |-> NoConn]]
  /\ opener = [c \in Calls |-> "none"]
  /\ conn = [c \in Calls |-> "fresh"]

Uses(c) == \/ AcquireConn(c) \/ Connected(c) \/ Handshaken(c) \/ OpenerConnects(c)
           \/ H1Respond(c) \/ H1BodyEnds(c) \/ OpenTunnel(c) \/ H2Send(c) \/ H2Respond(c)
Fails(c) == \/ ConnectFails(c) \/ HandshakeFails(c) \/ OpenerFails(c)
            \/ H1Breaks(c) \/ Cancel(c) \/ Decays(c)

PoolNext == Support \/ \E c \in Calls : CallPool(c) \/ Uses(c) \/ Fails(c)

\* Woken tasks run, connectors have a timeout, and peers answer.
PoolFairness == WF_pool(Support) /\ \A c \in Calls : WF_pool(Uses(c))
PoolSpec == PoolInit /\ [][PoolNext]_pool /\ PoolFairness

-----------------------------------------------------------------------------
\* What a permit stands for: a call that connects or has a connection under
\* HTTP/1 or before its request is sent, and an opener.
Permits ==
  {<<"call", c>> : c \in {d \in Calls : call[d].st \in {"connect", "handshake", "holding", "reading"}}}
    \cup {<<"opener", c>> : c \in {d \in Calls : opener[d] # "none"}}

\* The count of the pool is the number of connections in use or being opened, plus
\* those whose opening failed or was cancelled, and stays within the limit: guards,
\* drops and releases of racing tasks never return a permit twice.  An HTTP/1
\* connection serves one call at a time: it is never in the pool while a call has it,
\* never twice in the pool, and no two calls have it.
PermitsMatchUse ==
  /\ acquired = Cardinality(Permits) + lost
  /\ Limit > 0 => acquired <= Limit
  /\ \A k \in Calls :
       LET copies == {n \in 1..Len(available[KeyOf[k]]) : available[KeyOf[k]][n] = k}
       IN  Cardinality(copies) + Cardinality({c \in Calls : call[c].conn = k}) <= 1

\* A call that waits for a connection gets one or fails, unless a permit was lost or
\* came back without waking the waiters.
WaitersServed == []<>(lost > 0 \/ dropped \/ \A c \in Calls : ~In(c, "waiting"))
=============================================================================
