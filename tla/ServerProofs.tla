------------------------------- MODULE ServerProofs -------------------------------
(***************************************************************************)
(* TimeIsKept of Timers for any configured times, any refresh of the date  *)
(* and any lateness of the executor; ServedAsAgreed of Services for any    *)
(* builder calls, ends, transports and clients.                            *)
(***************************************************************************)
EXTENDS Timers, Services, TLAPS

-----------------------------------------------------------------------------
(* Timers *)

(* Types *)

Times == {NoTime} \cup {Within(t) : t \in Int}
KeepTimes == {NoTime} \cup {Within(t) : t \in Second .. Horizon}
DisconnectTimes == {NoTime} \cup {Within(t) : t \in Nat}
SettingsRecords == [keep_alive: KeepTimes, enabled: BOOLEAN, disconnect: DisconnectTimes]
Sockets ==
  [st: {"none", "open", "shutdown", "closed"}, busy: BOOLEAN, started: BOOLEAN, timer: Times, armed: BOOLEAN,
   expire: Int, quiet: Nat, spell: Nat, idle: BOOLEAN]
TimerTypes == settings \in SettingsRecords /\ date \in Times /\ reset \in Times /\ socket \in Sockets

(***************************************************************************)
(* The invariant.  The date's age and what remains until its reset add up  *)
(* to a refresh.  A deadline of an open connection is the keep-alive time  *)
(* from the date that is cached, or from one a refresh older; so of two    *)
(* deadlines that differ, the later is a refresh behind the earlier.  An   *)
(* executor that is less late than that finds it still to come, and the    *)
(* timer that is set to it wakes the connection; one that is later may not.*)
(***************************************************************************)
DateKept ==
  /\ date = NoTime <=> reset = NoTime
  /\ date # NoTime => /\ date[1] \in Nat /\ date[1] + reset[1] = Refresh
                      /\ reset[1] >= -Lateness

Dated(remains, keep) ==
  IF date = NoTime THEN remains <= keep - Refresh
  ELSE remains = keep - date[1] \/ remains <= keep - date[1] - Refresh

ArmedInTime(s) == s.armed => s.timer # NoTime /\ s.timer[1] >= -Lateness

KeepsAlive(s, keep) ==
  /\ s.timer # NoTime /\ (Lateness < Refresh => s.armed) /\ ~s.idle
  /\ Dated(s.timer[1], keep) /\ Dated(s.expire, keep)
  /\ s.armed => s.timer[1] >= s.expire \/ s.expire >= s.timer[1] + Refresh
  /\ ~s.busy => /\ s.armed => s.timer[1] + s.spell <= keep
                /\ s.expire > 0 => s.expire + s.spell <= keep
  /\ s.quiet >= keep - Skew \/ s.expire + s.quiet >= keep - Skew

Disconnects(s, time) ==
  /\ time > Skew => s.armed
  /\ s.armed => s.timer[1] + s.spell <= time

SocketInv(s) ==
  /\ ArmedInTime(s)
  /\ s.st = "open" => IF settings.keep_alive = NoTime THEN s.timer = NoTime /\ ~s.idle
                      ELSE KeepsAlive(s, settings.keep_alive[1])
  /\ s.idle => settings.keep_alive # NoTime /\ s.quiet >= settings.keep_alive[1] - Skew
  /\ s.st = "shutdown" /\ s.idle => settings.disconnect # NoTime /\ Disconnects(s, settings.disconnect[1])

TimersInv ==
  /\ TimerTypes /\ DateKept /\ SocketInv(socket)
  /\ settings = NotConfigured => socket.st = "none"

-----------------------------------------------------------------------------
(* Times *)

LEMMA TimeFacts == \A t : Within(t) # NoTime /\ Within(t)[1] = t
  BY DEF Within, NoTime

LEMMA TimeCases ==
  /\ \A t \in Times : t = NoTime \/ (t[1] \in Int /\ t = Within(t[1]))
  /\ \A t \in KeepTimes : t = NoTime \/ t[1] \in Second .. Horizon
  /\ \A t \in DisconnectTimes : t = NoTime \/ t[1] \in Nat
  BY TimeFacts DEF Times, KeepTimes, DisconnectTimes

LEMMA Bounds == Refresh \in Nat /\ Lateness \in Nat /\ Horizon \in Nat /\ Skew \in Nat
                /\ Skew = Refresh + Lateness /\ Skew <= Horizon /\ Second = 2 * Refresh /\ Second \in Nat
  BY TimersAssumption, HorizonAssumption DEF Skew, Second

LEMMA SettingsFields ==
  ASSUME TimerTypes
  PROVE  /\ settings.keep_alive \in KeepTimes /\ settings.disconnect \in DisconnectTimes
         /\ settings.enabled \in BOOLEAN
  BY DEF TimerTypes, SettingsRecords

LEMMA SocketFields ==
  ASSUME NEW s \in Sockets
  PROVE  /\ s.st \in {"none", "open", "shutdown", "closed"} /\ s.busy \in BOOLEAN /\ s.started \in BOOLEAN
         /\ s.timer \in Times /\ s.armed \in BOOLEAN /\ s.expire \in Int /\ s.quiet \in Nat /\ s.spell \in Nat
         /\ s.idle \in BOOLEAN
  BY DEF Sockets

LEMMA AgeFacts ==
  ASSUME TimerTypes, DateKept
  PROVE  /\ Age \in Nat /\ Age <= Skew
         /\ date = NoTime => Age = 0
         /\ date # NoTime => Age = date[1] /\ date[1] \in Int /\ reset[1] \in Int
  BY TimeCases, Bounds DEF Age, TimerTypes, DateKept

\* Reading the date, which fills the cache if it is empty.
LEMMA DateRead ==
  ASSUME TimerTypes, DateKept, CheckDate \/ UNCHANGED <<date, reset>>
  PROVE  /\ date' \in Times /\ reset' \in Times /\ DateKept'
         /\ \A remains \in Int, keep \in Int : Dated(remains, keep) => Dated(remains, keep)'
  <1>1. CASE date' = date /\ reset' = reset
    BY <1>1 DEF TimerTypes, DateKept, Dated
  <1>2. CASE date = NoTime /\ date' = Within(0) /\ reset' = Within(Refresh)
    BY <1>2, TimeFacts, Bounds DEF DateKept, Dated, Times
  <1> QED BY <1>1, <1>2 DEF CheckDate

\* A deadline from the date as it is after the check.
LEMMA DatedNow ==
  ASSUME TimerTypes, DateKept, CheckDate, NEW keep \in Int, NEW remains \in Int, remains = keep - Age
  PROVE  Dated(remains, keep)'
  BY TimeFacts, AgeFacts, Bounds DEF CheckDate, Dated, Age

\* A deadline as it is read.
LEMMA ExpireFacts ==
  ASSUME NEW delay, delay # NoTime
  PROVE  Expire(delay) = Within(delay[1] - Age) /\ Expire(delay)[1] = delay[1] - Age /\ Expire(delay) # NoTime
  BY TimeFacts DEF Expire

-----------------------------------------------------------------------------
(* Steps *)

LEMMA TimersStart == TimersInit => TimersInv
  <1> SUFFICES ASSUME TimersInit
               PROVE  TimersInv
    OBVIOUS
  <1>1. NotConfigured \in SettingsRecords /\ Unopened \in Sockets /\ NoTime \in Times
    BY DEF NotConfigured, SettingsRecords, KeepTimes, DisconnectTimes, Unopened, Sockets, Times
  <1>2. socket.st = "none" /\ ~socket.armed /\ ~socket.idle
    BY DEF TimersInit, Unopened
  <1> QED BY <1>1, <1>2 DEF TimersInit, TimersInv, TimerTypes, DateKept, SocketInv, ArmedInTime

\* A step that leaves the date and the socket.
LEMMA ConfigureStep ==
  ASSUME TimersInv, NEW c \in TimerSettings, Configure(c)
  PROVE  TimersInv'
  <1>1. /\ c.secs \in Nat /\ c.disconnect \in Nat /\ c.secs * Second <= Horizon
    BY HorizonAssumption
  <1>2. settings' \in SettingsRecords
    <2>1. PICK n \in Nat : n = c.secs
      BY <1>1
    <2>2. n > 0 => n * Second \in Second .. Horizon
      BY <1>1, <2>1, Bounds
    <2> QED BY <1>1, <2>1, <2>2 DEF Configure, ServiceConfig, SettingsRecords, KeepTimes, DisconnectTimes
  <1>3. settings.keep_alive = NoTime /\ socket.st = "none" /\ ~socket.idle
    BY DEF Configure, NotConfigured, TimersInv, SocketInv
  <1> QED BY <1>2, <1>3 DEF Configure, TimersInv, TimerTypes, DateKept, SocketInv, ArmedInTime

\* What is left to show of a step of the connection or of the date.
LEMMA StepKeeps ==
  ASSUME TimersInv, UNCHANGED settings, date' \in Times, reset' \in Times, DateKept',
         NEW new \in Sockets, socket' = new, SocketInv(new)', settings # NotConfigured \/ new.st = "none"
  PROVE  TimersInv'
  BY DEF TimersInv, TimerTypes, SocketInv, ArmedInTime, KeepsAlive, Disconnects, Dated

\* A socket that closed, or will without an idle time to be looked at.
LEMMA Plain ==
  ASSUME NEW new \in Sockets, ArmedInTime(new), ~new.idle, new.st # "open"
  PROVE  SocketInv(new)'
  BY DEF SocketInv, ArmedInTime

LEMMA DateStep ==
  ASSUME TimersInv, ResetDate \/ OthersReadDate
  PROVE  TimersInv'
  <1>1. PICK s \in Sockets : s = socket
    BY DEF TimersInv, TimerTypes
  <1>2. /\ socket' = s /\ settings' = settings /\ SocketInv(s) /\ date' \in Times /\ reset' \in Times /\ DateKept'
        /\ settings = NotConfigured => s.st = "none"
        /\ \A remains \in Int, keep \in Int : Dated(remains, keep) => Dated(remains, keep)'
    <2>1. CASE OthersReadDate
      BY <1>1, <2>1, DateRead DEF OthersReadDate, TimersInv
    <2>2. CASE ResetDate
      <3>1. date # NoTime /\ date[1] >= Refresh /\ date[1] \in Int
        BY <2>2, AgeFacts, Bounds DEF ResetDate, DateKept, TimersInv
      <3> QED BY <1>1, <2>2, <3>1, Bounds DEF ResetDate, TimersInv, DateKept, Dated, Times
    <2> QED BY <2>1, <2>2
  <1>3. SocketInv(s)'
    <2>1. s.timer # NoTime => s.timer[1] \in Int
      BY SocketFields, TimeCases
    <2>2. settings.keep_alive # NoTime => settings.keep_alive[1] \in Int
      BY SettingsFields, TimeCases, Bounds DEF TimersInv
    <2>3. s.expire \in Int
      BY SocketFields
    <2> QED BY <1>2, <2>1, <2>2, <2>3 DEF SocketInv, KeepsAlive, ArmedInTime, Disconnects
  <1> QED BY <1>1, <1>2, <1>3, StepKeeps


-----------------------------------------------------------------------------
(* The connection *)

LEMMA GoneFacts ==
  /\ Unopened \in Sockets /\ ~Unopened.armed /\ ~Unopened.idle /\ Unopened.st = "none"
  /\ SocketGone \in Sockets /\ ~SocketGone.armed /\ ~SocketGone.idle /\ SocketGone.st = "closed"
  <1>1. Unopened \in Sockets /\ ~Unopened.armed /\ ~Unopened.idle /\ Unopened.st = "none"
    BY DEF Unopened, Sockets, Times
  <1>2. PICK s \in Sockets : s = Unopened /\ ~s.armed /\ ~s.idle
    BY <1>1
  <1>3. PICK new : new = [s EXCEPT !.st = "closed"]
    OBVIOUS
  <1>4. new \in Sockets /\ ~new.armed /\ ~new.idle /\ new.st = "closed"
    BY <1>2, <1>3 DEF Sockets
  <1> QED BY <1>1, <1>2, <1>3, <1>4 DEF SocketGone

\* The parts of the invariant that every step uses.
LEMMA Parts ==
  ASSUME TimersInv
  PROVE  /\ TimerTypes /\ DateKept /\ socket \in Sockets /\ SocketInv(socket)
         /\ settings = NotConfigured => socket.st = "none"
         /\ settings.keep_alive # NoTime =>
              /\ settings.keep_alive[1] \in Int /\ settings.keep_alive[1] >= 2 * Refresh
              /\ settings.keep_alive[1] <= Horizon
         /\ settings.disconnect # NoTime => settings.disconnect[1] \in Nat
  BY SettingsFields, TimeCases, Bounds DEF TimersInv, TimerTypes

LEMMA OpenStep ==
  ASSUME TimersInv, OpenSocket
  PROVE  TimersInv'
  <1>1. CheckDate /\ settings' = settings /\ settings # NotConfigured
    BY DEF OpenSocket
  <1>2. PICK ka \in Times : ka = Expire(settings.keep_alive)
    BY Parts, AgeFacts, TimeFacts DEF Expire, Times
  <1>3. PICK first \in Int : first = IF ka = NoTime THEN -Age ELSE ka[1]
    BY Parts, AgeFacts, TimeCases
  <1>4. PICK new : new = [Unopened EXCEPT !.st = "open", !.timer = ka, !.armed = ka # NoTime, !.expire = first]
    OBVIOUS
  <1>5. socket' = new
    BY <1>2, <1>3, <1>4 DEF OpenSocket
  <1>6. /\ new \in Sockets /\ new.st = "open" /\ new.timer = ka /\ (new.armed <=> ka # NoTime) /\ new.expire = first
        /\ ~new.busy /\ new.quiet = 0 /\ new.spell = 0 /\ ~new.idle
    BY <1>4 DEF Unopened, Sockets
  <1>7. CASE settings.keep_alive = NoTime
    <2>1. ka = NoTime
      BY <1>2, <1>7 DEF Expire
    <2>2. SocketInv(new)'
      BY <1>1, <1>6, <1>7, <2>1 DEF SocketInv, ArmedInTime
    <2> QED BY <1>1, <1>5, <1>6, <2>2, DateRead, Parts, StepKeeps
  <1>8. CASE settings.keep_alive # NoTime
    <2>1. PICK keep \in Int : keep = settings.keep_alive[1] /\ keep >= 2 * Refresh /\ keep <= Horizon
      BY <1>8, Parts
    <2>2. ka # NoTime /\ ka[1] = keep - Age /\ first = keep - Age
      BY <1>2, <1>3, <1>8, <2>1, ExpireFacts
    <2>3. first >= -Lateness /\ first <= keep /\ first >= keep - Skew
      BY <2>1, <2>2, AgeFacts, Bounds, Parts
    <2>4. Dated(first, keep)'
      BY <1>1, <2>1, <2>2, DatedNow, Parts
    <2>5. SocketInv(new)'
      BY <1>1, <1>6, <1>8, <2>1, <2>2, <2>3, <2>4, Bounds DEF SocketInv, ArmedInTime, KeepsAlive
    <2> QED BY <1>1, <1>5, <1>6, <2>5, DateRead, Parts, StepKeeps
  <1> QED BY <1>7, <1>8

LEMMA MessageStep ==
  ASSUME TimersInv, NEW request \in BOOLEAN, MessageComes(request)
  PROVE  TimersInv'
  <1>1. settings' = settings /\ settings # NotConfigured
    BY Parts DEF MessageComes
  <1>2. PICK s \in Sockets : s = socket /\ s.st = "open" /\ SocketInv(s)
    BY Parts DEF MessageComes
  <1>b. PICK busy \in BOOLEAN : busy = (s.busy \/ request)
    OBVIOUS
  <1>3. CASE settings.keep_alive = NoTime
    <2>1. PICK new : new = [s EXCEPT !.busy = busy, !.started = TRUE, !.quiet = 0, !.spell = 0]
      OBVIOUS
    <2>2. s.timer = NoTime /\ ~s.idle /\ ArmedInTime(s)
      BY <1>2, <1>3 DEF SocketInv
    <2>3. socket' = new /\ UNCHANGED <<date, reset>>
      BY <1>2, <1>b, <1>3, <2>1, <2>2 DEF MessageComes, Sockets
    <2>4. new \in Sockets /\ new.st = "open" /\ new.timer = s.timer /\ new.armed = s.armed /\ new.idle = s.idle
      BY <1>2, <2>1 DEF Sockets
    <2>5. SocketInv(new)'
      BY <1>1, <1>3, <2>2, <2>4 DEF SocketInv, ArmedInTime
    <2> QED BY <1>1, <2>3, <2>4, <2>5, DateRead, Parts, StepKeeps
  <1>4. CASE settings.keep_alive # NoTime
    <2>1. PICK keep \in Int : keep = settings.keep_alive[1] /\ keep >= 2 * Refresh /\ keep <= Horizon
      BY <1>4, Parts
    <2>2. s.timer # NoTime /\ KeepsAlive(s, keep) /\ ArmedInTime(s)
      BY <1>2, <1>4, <2>1 DEF SocketInv, KeepsAlive
    <2>3. PICK e \in Int : e = keep - Age /\ e <= keep /\ e >= keep - Skew
      BY AgeFacts, Bounds, Parts
    <2>4. PICK new : new = [s EXCEPT !.busy = busy, !.started = TRUE, !.quiet = 0, !.spell = 0, !.expire = e]
      OBVIOUS
    <2>5. socket' = new /\ CheckDate
      BY <1>2, <1>b, <1>4, <2>1, <2>2, <2>3, <2>4, ExpireFacts DEF MessageComes
    <2>6. /\ new \in Sockets /\ new.st = "open" /\ new.timer = s.timer /\ new.armed = s.armed /\ new.idle = s.idle
          /\ new.expire = e /\ new.quiet = 0 /\ new.spell = 0
      BY <1>2, <2>4 DEF Sockets
    <2>7. s.timer[1] \in Int /\ Dated(s.timer[1], keep)
      BY <2>2, SocketFields, TimeCases DEF KeepsAlive
    <2>8. Dated(s.timer[1], keep)' /\ Dated(e, keep)'
      BY <2>1, <2>3, <2>5, <2>7, DateRead, DatedNow, Parts
    <2>9. s.timer[1] >= e \/ e >= s.timer[1] + Refresh
      BY <2>1, <2>3, <2>7, AgeFacts, Bounds, Parts DEF Dated
    <2>a. s.timer[1] <= keep
      BY <2>1, <2>7, AgeFacts, Bounds, Parts DEF Dated, DateKept
    <2>10. SocketInv(new)'
      <3>1. KeepsAlive(new, keep)'
        BY <2>1, <2>2, <2>3, <2>6, <2>7, <2>a, <2>8, <2>9 DEF KeepsAlive
      <3> QED BY <1>1, <1>4, <2>1, <2>2, <2>6, <3>1 DEF SocketInv, ArmedInTime, KeepsAlive
    <2> QED BY <1>1, <2>5, <2>6, <2>10, DateRead, Parts, StepKeeps
  <1> QED BY <1>3, <1>4

\* Reset, of a socket that is known.
LEMMA ResetFacts ==
  ASSUME TimerTypes, NEW remains \in Int
  PROVE  /\ Reset(remains) \in Sockets /\ Reset(remains).timer = Within(remains)
         /\ Reset(remains).armed <=> remains > 0
         /\ Reset(remains).st = socket.st /\ Reset(remains).busy = socket.busy /\ Reset(remains).idle = socket.idle
         /\ Reset(remains).expire = socket.expire /\ Reset(remains).quiet = socket.quiet
         /\ Reset(remains).spell = socket.spell
  <1>1. PICK s \in Sockets : s = socket
    BY DEF TimerTypes
  <1>2. PICK wakes \in BOOLEAN : wakes <=> remains > 0
    OBVIOUS
  <1>3. PICK t \in Times : t = Within(remains)
    BY DEF Times
  <1>4. PICK new : new = [s EXCEPT !.timer = t, !.armed = wakes]
    OBVIOUS
  <1>5. /\ new \in Sockets /\ new.timer = t /\ new.armed = wakes
        /\ new.st = s.st /\ new.busy = s.busy /\ new.idle = s.idle /\ new.expire = s.expire /\ new.quiet = s.quiet
        /\ new.spell = s.spell
    BY <1>4 DEF Sockets
  <1>6. Reset(remains) = [s EXCEPT !.timer = t, !.armed = remains > 0] /\ wakes = (remains > 0)
    BY <1>1, <1>2, <1>3 DEF Reset
  <1>7. Reset(remains) = new
    BY <1>4, <1>6
  <1> QED BY <1>1, <1>2, <1>3, <1>5, <1>7

LEMMA ShutdownStep ==
  ASSUME TimersInv, socket.st = "open", Shutdown, UNCHANGED settings
  PROVE  TimersInv'
  <1>1. PICK s \in Sockets : s = socket /\ s.st = "open" /\ SocketInv(s) /\ ~s.idle
    <2>1. ~socket.idle
      BY Parts DEF SocketInv, KeepsAlive
    <2> QED BY <2>1, Parts
  <1>2. settings # NotConfigured
    BY <1>1, Parts
  <1>3. CASE socket' = SocketGone
    <2>1. SocketInv(SocketGone)'
      BY GoneFacts, Plain DEF ArmedInTime
    <2> QED BY <1>2, <1>3, <2>1, GoneFacts, DateRead, Parts, StepKeeps DEF Shutdown
  <1>4. CASE s.timer # NoTime \/ settings.disconnect = NoTime
    <2>1. PICK new : new = [s EXCEPT !.st = "shutdown", !.busy = FALSE]
      OBVIOUS
    <2>2. socket' = new /\ UNCHANGED <<date, reset>>
      BY <1>1, <1>4, <2>1 DEF Shutdown
    <2>3. /\ new \in Sockets /\ new.st = "shutdown" /\ new.timer = s.timer /\ new.armed = s.armed
          /\ new.idle = s.idle
      BY <2>1 DEF Sockets
    <2>4. ArmedInTime(new)
      BY <1>1, <2>3 DEF SocketInv, ArmedInTime
    <2>5. SocketInv(new)'
      BY <1>1, <2>3, <2>4, Plain
    <2> QED BY <1>2, <2>2, <2>3, <2>5, DateRead, Parts, StepKeeps
  <1>5. CASE s.timer = NoTime /\ settings.disconnect # NoTime /\ socket' # SocketGone
    <2>1. PICK remains \in Int : remains = Expire(settings.disconnect)[1]
      BY <1>5, ExpireFacts, AgeFacts, Parts
    <2>2. PICK w \in Sockets : w = Reset(remains)
      BY ResetFacts, Parts
    <2>3. PICK new : new = [w EXCEPT !.st = "shutdown", !.busy = FALSE]
      OBVIOUS
    <2>4. socket' = new /\ CheckDate /\ remains > 0
      BY <1>1, <1>5, <2>1, <2>2, <2>3 DEF Shutdown
    <2>5. /\ new \in Sockets /\ new.st = "shutdown" /\ new.timer = w.timer /\ new.idle = w.idle
      BY <2>3 DEF Sockets
    <2>6. ArmedInTime(new) /\ ~new.idle
      BY <1>1, <2>2, <2>4, <2>5, ResetFacts, TimeFacts, Parts, Bounds DEF ArmedInTime
    <2>7. SocketInv(new)'
      BY <2>5, <2>6, Plain
    <2> QED BY <1>2, <2>4, <2>5, <2>7, DateRead, Parts, StepKeeps
  <1> QED BY <1>1, <1>3, <1>4, <1>5

LEMMA ResponseStep ==
  ASSUME TimersInv, ResponseWritten
  PROVE  TimersInv'
  <1>1. CASE ~settings.enabled
    BY <1>1, ShutdownStep DEF ResponseWritten
  <1>2. CASE settings.enabled
    <2>1. PICK s \in Sockets : s = socket /\ s.st = "open" /\ SocketInv(s)
      BY Parts DEF ResponseWritten
    <2>2. PICK new : new = [s EXCEPT !.busy = FALSE, !.spell = 0]
      OBVIOUS
    <2>3. socket' = new /\ CheckDate /\ settings' = settings /\ settings # NotConfigured
      BY <1>2, <2>1, <2>2, Parts DEF ResponseWritten
    <2>4. /\ new \in Sockets /\ new.st = "open" /\ new.timer = s.timer /\ new.armed = s.armed /\ new.idle = s.idle
          /\ new.expire = s.expire /\ new.quiet = s.quiet /\ new.spell = 0
      BY <2>1, <2>2 DEF Sockets
    <2>5. SocketInv(new)'
      <3>1. CASE settings.keep_alive = NoTime
        BY <2>1, <2>3, <2>4, <3>1 DEF SocketInv, ArmedInTime
      <3>2. CASE settings.keep_alive # NoTime
        <4>1. PICK keep \in Int : keep = settings.keep_alive[1] /\ keep >= 2 * Refresh
          BY <3>2, Parts
        <4>2. KeepsAlive(s, keep) /\ ArmedInTime(s)
          BY <2>1, <3>2, <4>1 DEF SocketInv
        <4>3. s.timer[1] \in Int /\ s.expire \in Int
          BY <4>2, SocketFields, TimeCases DEF KeepsAlive
        <4>4. Dated(s.timer[1], keep)' /\ Dated(s.expire, keep)'
          BY <2>3, <4>1, <4>2, <4>3, DateRead, Parts DEF KeepsAlive
        <4>5. s.timer[1] <= keep /\ s.expire <= keep
          BY <4>1, <4>2, <4>3, AgeFacts, Bounds, Parts DEF KeepsAlive, Dated, DateKept
        <4> QED BY <2>3, <2>4, <3>2, <4>1, <4>2, <4>3, <4>4, <4>5 DEF SocketInv, ArmedInTime, KeepsAlive
      <3> QED BY <3>1, <3>2
    <2> QED BY <2>3, <2>4, <2>5, DateRead, Parts, StepKeeps
  <1> QED BY <1>1, <1>2

LEMMA ClosesStep ==
  ASSUME TimersInv, SocketCloses
  PROVE  TimersInv'
  <1>1. settings # NotConfigured /\ UNCHANGED <<settings, date, reset>> /\ socket' = SocketGone
    BY Parts DEF SocketCloses
  <1>2. SocketInv(SocketGone)'
    BY GoneFacts, Plain DEF ArmedInTime
  <1> QED BY <1>1, <1>2, GoneFacts, DateRead, Parts, StepKeeps

\* The timer of an open connection fires: it has a keep-alive time.
LEMMA Fired ==
  ASSUME TimersInv, socket.st = "open", socket.timer # NoTime, socket.timer[1] <= 0
  PROVE  /\ settings.keep_alive # NoTime
         /\ \E keep \in Int, timer \in Int :
              /\ keep = settings.keep_alive[1] /\ keep >= 2 * Refresh /\ keep <= Horizon
              /\ timer = socket.timer[1] /\ timer <= 0 /\ (socket.armed => timer >= -Lateness)
              /\ KeepsAlive(socket, keep)
  <1>1. settings.keep_alive # NoTime
    BY Parts DEF SocketInv
  <1>2. KeepsAlive(socket, settings.keep_alive[1]) /\ ArmedInTime(socket)
    BY <1>1, Parts DEF SocketInv
  <1>3. socket.timer[1] \in Int
    BY Parts, SocketFields, TimeCases
  <1> QED BY <1>1, <1>2, <1>3, Parts DEF ArmedInTime, KeepsAlive

LEMMA IdleStep ==
  ASSUME TimersInv, FireIdle, socket.timer # NoTime, socket.timer[1] <= 0, UNCHANGED settings
  PROVE  TimersInv'
  <1>1. PICK s \in Sockets : s = socket /\ s.st = "open" /\ ~s.busy
    BY Parts DEF FireIdle
  <1>2. PICK keep \in Int, timer \in Int :
          /\ settings.keep_alive # NoTime /\ keep = settings.keep_alive[1] /\ keep >= 2 * Refresh
          /\ timer = s.timer[1] /\ timer <= 0 /\ KeepsAlive(s, keep)
    BY <1>1, Fired
  <1>3. s.quiet >= keep - Skew
    <2>1. s.expire \in Int /\ s.quiet \in Nat /\ s.expire <= 0
      BY <1>1, <1>2, SocketFields DEF FireIdle, IsExpired
    <2> QED BY <1>2, <2>1, Bounds DEF KeepsAlive
  <1>4. settings # NotConfigured
    BY <1>1, Parts
  <1>5. CASE settings.disconnect = NoTime
    <2>1. PICK new : new = [s EXCEPT !.st = "closed", !.idle = TRUE]
      OBVIOUS
    <2>2. socket' = new /\ UNCHANGED <<date, reset>>
      BY <1>1, <1>5, <2>1 DEF FireIdle, Expire, CheckUnlessNone
    <2>3. /\ new \in Sockets /\ new.st = "closed" /\ new.timer = s.timer /\ new.armed = s.armed
          /\ new.quiet = s.quiet
      BY <2>1 DEF Sockets
    <2>4. SocketInv(new)'
      BY <1>1, <1>2, <1>3, <2>3, Parts DEF SocketInv, ArmedInTime
    <2> QED BY <1>4, <2>2, <2>3, <2>4, DateRead, Parts, StepKeeps
  <1>6. CASE settings.disconnect # NoTime
    <2>1. PICK time \in Nat : time = settings.disconnect[1]
      BY <1>6, Parts
    <2>2. PICK remains \in Int : remains = time - Age
      BY AgeFacts, Parts
    <2>3. PICK w \in Sockets : w = Reset(remains)
      BY ResetFacts, Parts
    <2>4. PICK new : new = [w EXCEPT !.st = "shutdown", !.spell = 0, !.idle = TRUE]
      OBVIOUS
    <2>5. socket' = new /\ CheckDate
      BY <1>6, <2>1, <2>2, <2>3, <2>4, ExpireFacts DEF FireIdle, CheckUnlessNone
    <2>6. /\ new \in Sockets /\ new.st = "shutdown" /\ new.timer = w.timer /\ new.armed = w.armed
          /\ new.quiet = w.quiet /\ new.spell = 0 /\ new.idle
      BY <2>4 DEF Sockets
    <2>7. /\ new.timer = Within(remains) /\ (new.armed <=> remains > 0) /\ new.quiet = s.quiet
      BY <1>1, <2>3, <2>6, ResetFacts, Parts
    <2>8. new.timer # NoTime /\ new.timer[1] = remains /\ remains <= time /\ (time > Skew => remains > 0)
      BY <2>2, <2>7, TimeFacts, AgeFacts, Bounds, Parts
    <2>9. SocketInv(new)'
      BY <1>2, <1>3, <1>6, <2>1, <2>6, <2>7, <2>8, Bounds DEF SocketInv, ArmedInTime, Disconnects
    <2> QED BY <1>4, <2>5, <2>6, <2>9, DateRead, Parts, StepKeeps
  <1> QED BY <1>5, <1>6

LEMMA SlowStep ==
  ASSUME TimersInv, FireSlow, UNCHANGED settings
  PROVE  TimersInv'
  <1>1. PICK s \in Sockets : s = socket /\ s.st = "open" /\ SocketInv(s)
    BY Parts DEF FireSlow
  <1>2. ~s.idle /\ settings # NotConfigured
    BY <1>1, Parts DEF SocketInv, KeepsAlive
  <1>3. PICK new : new = [s EXCEPT !.st = "shutdown", !.armed = FALSE, !.started = TRUE, !.spell = 0]
    OBVIOUS
  <1>4. socket' = new /\ UNCHANGED <<date, reset>>
    BY <1>1, <1>3 DEF FireSlow
  <1>5. new \in Sockets /\ new.st = "shutdown" /\ ~new.armed /\ new.idle = s.idle
    BY <1>3 DEF Sockets
  <1>6. SocketInv(new)'
    BY <1>2, <1>5, Plain DEF ArmedInTime
  <1> QED BY <1>2, <1>4, <1>5, <1>6, DateRead, Parts, StepKeeps

\* The timer is set again: to the keep-alive time from now, or to where the last message
\* moved it.
LEMMA AgainStep ==
  ASSUME TimersInv, FireBusy \/ FireEarly, socket.timer # NoTime, socket.timer[1] <= 0, UNCHANGED settings
  PROVE  TimersInv'
  <1>1. PICK s \in Sockets : s = socket /\ s.st = "open"
    BY Parts DEF FireBusy, FireEarly
  <1>2. PICK keep \in Int, timer \in Int :
          /\ settings.keep_alive # NoTime /\ keep = settings.keep_alive[1] /\ keep >= 2 * Refresh
          /\ timer = s.timer[1] /\ timer <= 0 /\ (s.armed => timer >= -Lateness) /\ KeepsAlive(s, keep)
    BY <1>1, Fired
  <1>3. s.expire \in Int /\ s.spell \in Nat /\ s.quiet \in Nat
    BY SocketFields
  <1>4. \E remains \in Int :
          /\ socket' = Reset(remains) /\ (CheckDate \/ UNCHANGED <<date, reset>>)
          /\ Lateness < Refresh => remains > 0
          /\ Dated(remains, keep)'
          /\ remains > 0 => remains >= s.expire
          /\ ~s.busy /\ remains > 0 => remains + s.spell <= keep
    <2>1. CASE FireBusy
      <3>1. PICK remains \in Int : remains = keep - Age /\ (Lateness < Refresh => remains > 0)
        BY <1>2, AgeFacts, Bounds, Parts
      <3>2. socket' = Reset(remains) /\ CheckDate /\ s.busy
        BY <1>1, <1>2, <2>1, <3>1, ExpireFacts DEF FireBusy
      <3>3. Dated(remains, keep)'
        BY <3>1, <3>2, DatedNow, Parts
      <3>4. s.expire <= timer
        BY <1>1, <1>2, <2>1 DEF FireBusy, IsExpired
      <3>5. remains > 0 => remains >= s.expire
        BY <1>2, <1>3, <3>1, <3>4
      <3> QED BY <3>1, <3>2, <3>3, <3>5
    <2>2. CASE FireEarly
      <3>1. s.expire > timer
        BY <1>1, <1>2, <1>3, <2>2 DEF FireEarly, IsExpired
      <3>2. s.armed => s.expire >= timer + Refresh
        BY <1>2, <1>3, <3>1 DEF KeepsAlive
      <3>3. Lateness < Refresh => s.expire > 0
        BY <1>2, <1>3, <3>2, Bounds DEF KeepsAlive
      <3>4. UNCHANGED <<date, reset>> /\ socket' = Reset(s.expire)
        BY <1>1, <2>2 DEF FireEarly
      <3>5. Dated(s.expire, keep)'
        BY <1>2, <3>4 DEF KeepsAlive, Dated
      <3> QED BY <1>2, <1>3, <3>3, <3>4, <3>5 DEF KeepsAlive
    <2> QED BY <2>1, <2>2
  <1>5. PICK remains \in Int :
          /\ socket' = Reset(remains) /\ (CheckDate \/ UNCHANGED <<date, reset>>)
          /\ Lateness < Refresh => remains > 0
          /\ Dated(remains, keep)'
          /\ remains > 0 => remains >= s.expire
          /\ ~s.busy /\ remains > 0 => remains + s.spell <= keep
    BY <1>4
  <1>6. PICK new \in Sockets : new = Reset(remains)
    BY ResetFacts, Parts
  <1>7. /\ new.timer = Within(remains) /\ (new.armed <=> remains > 0) /\ new.st = "open"
        /\ new.busy = s.busy /\ new.idle = s.idle
        /\ new.expire = s.expire /\ new.quiet = s.quiet /\ new.spell = s.spell
    BY <1>1, <1>5, <1>6, ResetFacts, Parts
  <1>8. new.timer # NoTime /\ new.timer[1] = remains
    BY <1>7, TimeFacts
  <1>9. Dated(s.expire, keep)'
    BY <1>2, <1>3, <1>5, DateRead, Parts DEF KeepsAlive
  <1>10. SocketInv(new)'
    <2>1. KeepsAlive(new, keep)'
      BY <1>2, <1>3, <1>5, <1>7, <1>8, <1>9 DEF KeepsAlive
    <2>2. ArmedInTime(new)
      BY <1>5, <1>7, <1>8, Bounds DEF ArmedInTime
    <2>3. ~new.idle
      BY <1>2, <1>7 DEF KeepsAlive
    <2> QED BY <1>2, <1>7, <2>1, <2>2, <2>3 DEF SocketInv, ArmedInTime, KeepsAlive
  <1>11. settings # NotConfigured
    BY <1>1, Parts
  <1> QED BY <1>5, <1>6, <1>10, <1>11, DateRead, Parts, StepKeeps

LEMMA PollStep ==
  ASSUME TimersInv, PollTimer
  PROVE  TimersInv'
  <1>1. UNCHANGED settings /\ socket.timer # NoTime /\ socket.timer[1] <= 0
    BY DEF PollTimer
  <1>2. CASE FireShutdown
    <2>1. settings # NotConfigured /\ UNCHANGED <<date, reset>> /\ socket' = SocketGone
      BY <1>2, Parts DEF FireShutdown
    <2>2. SocketInv(SocketGone)'
      BY GoneFacts, Plain DEF ArmedInTime
    <2> QED BY <1>1, <2>1, <2>2, GoneFacts, DateRead, Parts, StepKeeps
  <1> QED BY <1>1, <1>2, IdleStep, SlowStep, AgainStep DEF PollTimer

\* Time passes for the date.
LEMMA DateAges ==
  ASSUME TimersInv, Tick
  PROVE  /\ date' \in Times /\ reset' \in Times /\ DateKept'
         /\ \A remains \in Int, keep \in Int : Dated(remains, keep) => Dated(remains - 1, keep)'
         /\ date # NoTime => date'[1] <= Skew
  <1>1. CASE date = NoTime
    <2>1. date' = NoTime /\ reset' = NoTime
      BY <1>1, Parts DEF Tick, DateKept
    <2>2. \A remains \in Int, keep \in Int : remains <= keep - Refresh => remains - 1 <= keep - Refresh
      BY Bounds
    <2> QED BY <1>1, <2>1, <2>2 DEF DateKept, Dated, Times
  <1>2. CASE date # NoTime
    <2>1. PICK a \in Int, b \in Int : a = date[1] /\ b = reset[1]
      BY <1>2, AgeFacts, Parts
    <2>2. reset # NoTime /\ a \in Nat /\ a + b = Refresh /\ b >= -Lateness
      BY <1>2, <2>1, Parts DEF DateKept
    <2>3. b > -Lateness
      BY <2>1, <2>2, Bounds DEF Tick, IsLate
    <2>4. Up(a) = a + 1 /\ Down(b) = b - 1
      BY <2>2, <2>3, Bounds DEF Up, Down, Longest
    <2>5. date' = Within(a + 1) /\ reset' = Within(b - 1)
      BY <1>2, <2>1, <2>2, <2>4 DEF Tick
    <2>6. date' # NoTime /\ date'[1] = a + 1 /\ reset' # NoTime /\ reset'[1] = b - 1
      BY <2>5, TimeFacts
    <2>7. DateKept'
      BY <2>2, <2>3, <2>6, Bounds DEF DateKept
    <2>8. \A remains \in Int, keep \in Int :
            remains = keep - a \/ remains <= keep - a - Refresh
              => remains - 1 = keep - (a + 1) \/ remains - 1 <= keep - (a + 1) - Refresh
      BY Bounds
    <2>9. date' \in Times /\ reset' \in Times
      BY <2>5 DEF Times
    <2>10. \A remains \in Int, keep \in Int : Dated(remains, keep) => Dated(remains - 1, keep)'
      BY <1>2, <2>1, <2>6, <2>8 DEF Dated
    <2> QED BY <2>2, <2>3, <2>6, <2>7, <2>9, <2>10, Bounds
  <1> QED BY <1>1, <1>2

LEMMA TickStep ==
  ASSUME TimersInv, Tick
  PROVE  TimersInv'
  <1>1. settings' = settings /\ settings # NotConfigured
    BY DEF Tick
  <1>2. PICK s \in Sockets : s = socket /\ SocketInv(s)
    BY Parts
  <1>3. CASE s.st \notin {"open", "shutdown"}
    <2>1. socket' = s
      BY <1>2, <1>3 DEF Tick
    <2>2. SocketInv(s)'
      BY <1>1, <1>2, <1>3 DEF SocketInv, ArmedInTime
    <2> QED BY <1>1, <2>1, <2>2, DateAges, StepKeeps
  <1>4. CASE s.st \in {"open", "shutdown"}
    <2> DEFINE Timer == IF s.timer = NoTime THEN s.timer ELSE Within(Down(s.timer[1]))
               Quiet == IF s.st = "open" THEN Up(s.quiet) ELSE s.quiet
               Spell == IF s.busy \/ (s.st = "shutdown" /\ ~s.idle) THEN 0 ELSE Up(s.spell)
    <2>1. \A n \in Int : Down(n) \in Int /\ Down(n) <= n /\ Down(n) >= n - 1 /\ (n > -Lateness => Down(n) = n - 1)
      BY Bounds DEF Down, Longest
    <2>2. \A n \in Nat : Up(n) \in Nat /\ Up(n) <= n + 1 /\ (Up(n) = n + 1 \/ (Up(n) = n /\ n >= Horizon))
      BY Bounds DEF Up
    <2>3. s.expire \in Int /\ s.quiet \in Nat /\ s.spell \in Nat /\ (s.timer # NoTime => s.timer[1] \in Int)
      BY SocketFields, TimeCases
    <2>4. PICK timer \in Times : timer = Timer
      BY <2>1, <2>3 DEF Times
    <2>5. PICK expire \in Int : /\ expire = DownBehind(s.expire, s.timer)
                                /\ expire = s.expire - 1 \/ (expire = s.expire /\ expire <= -Lateness)
      BY <2>1, <2>3, Bounds DEF DownBehind, Down, Longest
    <2>6. PICK quiet \in Nat : quiet = Quiet
      BY <2>2, <2>3
    <2>7. PICK spell \in Nat : spell = Spell
      BY <2>2, <2>3
    <2>8. PICK new : new = [s EXCEPT !.timer = timer, !.expire = expire, !.quiet = quiet, !.spell = spell]
      OBVIOUS
    <2>9. socket' = new
      BY <1>2, <1>4, <2>4, <2>5, <2>6, <2>7, <2>8 DEF Tick
    <2>10. /\ new \in Sockets /\ new.timer = timer /\ new.expire = expire /\ new.quiet = quiet /\ new.spell = spell
           /\ new.st = s.st /\ new.busy = s.busy /\ new.armed = s.armed /\ new.idle = s.idle
      BY <2>8 DEF Sockets
    <2>11. s.timer # NoTime => timer # NoTime /\ timer[1] = Down(s.timer[1])
      BY <2>4, TimeFacts
    <2>12. s.armed => /\ s.timer # NoTime /\ s.timer[1] > -Lateness /\ timer # NoTime
                      /\ timer[1] = s.timer[1] - 1 /\ timer[1] >= -Lateness
      <3> HIDE DEF Timer
      <3>1. s.armed => s.timer # NoTime /\ s.timer[1] >= -Lateness /\ ~IsLate(s.timer[1])
        BY <1>2 DEF Tick, SocketInv, ArmedInTime
      <3> QED BY <2>1, <2>3, <2>11, <3>1, Bounds DEF IsLate
    <2>13. spell <= s.spell + 1 /\ quiet >= s.quiet
      BY <2>2, <2>3, <2>6, <2>7
    <2> HIDE DEF Timer, Quiet, Spell
    <2>14. ArmedInTime(new)
      BY <2>10, <2>12 DEF ArmedInTime
    <2>15. new.st = "shutdown" /\ new.idle => settings.disconnect # NoTime /\ Disconnects(new, settings.disconnect[1])
      <3> SUFFICES ASSUME s.st = "shutdown", s.idle
                   PROVE  settings.disconnect # NoTime /\ Disconnects(new, settings.disconnect[1])
        BY <2>10
      <3>1. settings.disconnect # NoTime /\ Disconnects(s, settings.disconnect[1])
        BY <1>2 DEF SocketInv
      <3> QED BY <2>3, <2>10, <2>12, <2>13, <3>1, Parts DEF Disconnects
    <2>16. new.idle => settings.keep_alive # NoTime /\ new.quiet >= settings.keep_alive[1] - Skew
      BY <1>2, <2>3, <2>10, <2>13, Parts, Bounds DEF SocketInv
    <2>17. ASSUME s.st = "open", settings.keep_alive # NoTime
           PROVE  KeepsAlive(new, settings.keep_alive[1])'
      <3>1. PICK keep \in Int : keep = settings.keep_alive[1] /\ keep >= 2 * Refresh /\ keep <= Horizon
        BY <2>17, Parts
      <3>2. KeepsAlive(s, keep)
        BY <1>2, <2>17, <3>1 DEF SocketInv
      <3>0. date' = NoTime \/ (date'[1] \in Int /\ date'[1] <= Skew)
        BY DateAges, TimeCases DEF Tick
      <3>3. PICK m \in Int, n \in Int :
              /\ m = s.timer[1] /\ timer # NoTime /\ n = timer[1]
              /\ n = m - 1 \/ (n = m /\ n <= -Lateness)
              /\ s.armed => m > -Lateness /\ n = m - 1
        <4>1. s.timer # NoTime
          BY <3>2 DEF KeepsAlive
        <4>2. PICK m \in Int : m = s.timer[1]
          BY <2>3, <4>1
        <4>3. timer # NoTime /\ timer[1] = Down(m) /\ Down(m) \in Int
          BY <2>1, <2>11, <4>1, <4>2
        <4>4. m > -Lateness \/ m <= -Lateness
          BY <4>2, Bounds
        <4>5. Down(m) = m - 1 \/ (Down(m) = m /\ m <= -Lateness)
          BY <2>1, <4>2, <4>4, Bounds DEF Down
        <4> QED BY <2>12, <4>2, <4>3, <4>5
      <3>4. Dated(n, keep)'
        <4>1. Dated(m - 1, keep)'
          BY <3>1, <3>2, <3>3, DateAges DEF KeepsAlive
        <4> QED BY <3>0, <3>1, <3>3, <4>1, Bounds DEF Dated
      <3>5. Dated(expire, keep)'
        <4>1. Dated(s.expire - 1, keep)'
          BY <2>3, <3>1, <3>2, DateAges DEF KeepsAlive
        <4>2. CASE expire = s.expire - 1
          BY <4>1, <4>2
        <4>3. CASE expire # s.expire - 1
          <5>1. expire = s.expire /\ expire <= -Lateness
            BY <2>5, <4>3
          <5> QED BY <3>0, <3>1, <5>1, Bounds DEF Dated
        <4> QED BY <4>2, <4>3
      <3>6. s.armed => n >= expire \/ expire >= n + Refresh
        <4>1. s.armed => m >= s.expire \/ s.expire >= m + Refresh
          BY <3>2, <3>3 DEF KeepsAlive
        <4>2. CASE expire = s.expire - 1
          BY <2>3, <3>3, <4>1, <4>2, Bounds
        <4>3. CASE expire # s.expire - 1
          BY <2>5, <3>3, <4>3, Bounds
        <4> QED BY <4>2, <4>3
      <3>7. ~s.busy => (s.armed => n + spell <= keep) /\ (expire > 0 => expire + spell <= keep)
        <4>1. ~s.busy => (s.armed => m + s.spell <= keep) /\ (s.expire > 0 => s.expire + s.spell <= keep)
          BY <3>2, <3>3 DEF KeepsAlive
        <4>2. expire > 0 => expire = s.expire - 1
          BY <2>5, Bounds
        <4> QED BY <2>3, <2>13, <3>3, <4>1, <4>2
      <3>8. quiet >= keep - Skew \/ expire + quiet >= keep - Skew
        <4>1. s.quiet >= keep - Skew \/ s.expire + s.quiet >= keep - Skew
          BY <3>2 DEF KeepsAlive
        <4>2. quiet = s.quiet + 1 \/ (quiet = s.quiet /\ quiet >= Horizon)
          BY <2>2, <2>3, <2>6, <2>17 DEF Quiet
        <4>3. expire >= s.expire - 1
          BY <2>3, <2>5
        <4> QED BY <2>3, <3>1, <4>1, <4>2, <4>3, Bounds
      <3>9. /\ new.timer = timer /\ new.armed = s.armed /\ ~new.idle /\ timer # NoTime /\ timer[1] = n
            /\ Lateness < Refresh => new.armed
        BY <2>10, <3>2, <3>3 DEF KeepsAlive
      <3>10. KeepsAlive(new, keep)'
        BY <2>10, <3>4, <3>5, <3>6, <3>7, <3>8, <3>9 DEF KeepsAlive
      <3> QED BY <1>1, <3>1, <3>10 DEF KeepsAlive, Dated
    <2>18. SocketInv(new)'
      <3>1. settings.keep_alive = NoTime /\ s.st = "open" => new.timer = NoTime /\ ~new.idle
        BY <1>2, <2>4, <2>10 DEF SocketInv, Timer
      <3> QED BY <1>1, <2>10, <2>14, <2>15, <2>16, <2>17, <3>1 DEF SocketInv, ArmedInTime, Disconnects
    <2> QED BY <1>1, <2>9, <2>10, <2>18, DateAges, StepKeeps
  <1> QED BY <1>3, <1>4

LEMMA TimersStep == TimersInv /\ [TimersNext]_timers => TimersInv'
  <1> SUFFICES ASSUME TimersInv, [TimersNext]_timers
               PROVE  TimersInv'
    OBVIOUS
  <1>1. CASE UNCHANGED timers
    BY <1>1 DEF timers, TimersInv, TimerTypes, DateKept, SocketInv, ArmedInTime, KeepsAlive, Disconnects, Dated
  <1>2. CASE ClientLeft
    BY <1>2, ShutdownStep DEF ClientLeft
  <1> QED BY <1>1, <1>2, ConfigureStep, OpenStep, MessageStep, ResponseStep, ClosesStep, PollStep, DateStep, TickStep
          DEF TimersNext

\* However messages, timers and resets of the date interleave, deadlines are kept up to
\* the age of the date and the lateness of the executor, however late that is: a
\* connection is not closed as idle before its time; it does not stay idle after it while
\* its timer is to wake it, as it always is if the executor is never a whole refresh
\* late; and once closing, with its timer set or with time enough, it is gone in time.
\* A timer that a late executor set to a deadline already passed is the exception.
THEOREM DeadlinesKept == TimersSpec => []TimeIsKept
  <1>1. TimersInv => TimeIsKept
    <2> SUFFICES ASSUME TimersInv
                 PROVE  TimeIsKept
      OBVIOUS
    <2>1. date # NoTime => date[1] <= Skew
      BY AgeFacts, Parts
    <2>2. PICK s \in Sockets : s = socket /\ SocketInv(s) /\ s.spell \in Nat
                               /\ (s.timer # NoTime => s.timer[1] \in Int)
      BY Parts, SocketFields, TimeCases
    <2>3. ASSUME settings.keep_alive # NoTime, s.st = "open", ~s.busy, s.armed \/ Lateness < Refresh
          PROVE  s.spell <= settings.keep_alive[1] + Lateness
      <3>1. PICK keep \in Int : keep = settings.keep_alive[1]
        BY <2>3, Parts
      <3>2. KeepsAlive(s, keep) /\ ArmedInTime(s)
        BY <2>2, <2>3, <3>1 DEF SocketInv
      <3> QED BY <2>2, <2>3, <3>1, <3>2, Bounds DEF KeepsAlive, ArmedInTime
    <2>4. ASSUME s.st = "shutdown", s.idle, s.armed \/ settings.disconnect[1] > Skew
          PROVE  s.spell <= settings.disconnect[1] + Lateness
      <3>1. settings.disconnect # NoTime /\ Disconnects(s, settings.disconnect[1]) /\ ArmedInTime(s)
        BY <2>2, <2>4 DEF SocketInv
      <3> QED BY <2>2, <2>4, <3>1, Parts, Bounds DEF Disconnects, ArmedInTime
    <2> QED BY <2>1, <2>2, <2>3, <2>4 DEF TimeIsKept, SocketInv
  <1> QED BY <1>1, TimersStart, TimersStep, PTL DEF TimersSpec

-----------------------------------------------------------------------------
(* Services *)

\* The parts of a service: expect comes with srv, and upgrade with both.
PartsOK(s) == \E parts \in SUBSET {"expect", "upgrade", "srv"} :
                s.parts = parts /\ (parts # {} => "srv" \in parts)

\* While the parts are made, the main one is not made yet, and only the upgrade
\* service's future may have ended.
FuturesOK ==
  worker \in {"starts", "restarts", "panicked"} =>
    /\ fut = [p \in site.parts |-> fut[p]] /\ \A p \in site.parts : fut[p] = "spent" => p = "upgrade"
    /\ "srv" \in site.parts => fut["srv"] = "waits"

Callers ==
  [st: {"accepted", "no tls", "h1", "h2 handshake", "h2", "one request", "handed over", "refused"},
   speaks: {"h1", "h2"}, alpn: Seq(STRING) \cup {NoName, Http11}, offers: SUBSET Seq(STRING), calls: Nat,
   asked: SUBSET {"expect", "upgrade", "srv"}]

\* A connection, and what was agreed on it.
CallerOK(c) ==
  /\ c \in Callers /\ c.asked = {}
  /\ c.calls = IF site.on_connect /\ c.st \notin {"accepted", "no tls"} THEN 1 ELSE 0
  /\ site.end = "finish" =>
       /\ c.st \in {"h2 handshake", "h2"} => c.speaks = "h2"
       /\ c.st = "h1" /\ c.speaks = "h2" => c.alpn = NoName
       /\ c.st = "refused" => c.alpn = NoName /\ c.speaks = "h2"
       /\ c.st \notin {"one request", "handed over"}
  /\ c.st = "accepted" => c.alpn = NoName

ServicesInv ==
  /\ site = NoSite => worker = "idle" /\ caller = NoClient
  /\ site # NoSite => PartsOK(site)
  /\ FuturesOK
  /\ worker = "panicked" => "upgrade" \in site.parts /\ fut["upgrade"] = "spent" /\ fut["srv"] = "waits"
  /\ caller # NoClient => CallerOK(caller)

-----------------------------------------------------------------------------
\* HTTP/1.1's name is not a variant of HTTP/2's, nor is none.
LEMMA Names == ~HasH2(Http11) /\ ~HasH2(NoName) /\ NoName # Http11
  <1>1. Len(NoName) = 0
    BY DEF NoName
  <1>2. Len(Http11) = 2 /\ Http11[2] = "1"
    <2>1. Len(<<"h", "1">>) = 2
      OBVIOUS
    <2>2. <<"h", "1">>[2] = "1"
      OBVIOUS
    <2> QED BY <2>1, <2>2 DEF Http11
  <1>3. ~HasH2(NoName)
    BY <1>1 DEF HasH2
  <1>4. ~HasH2(Http11)
    <2> SUFFICES ASSUME NEW i \in 1 .. Len(Http11) - 1, SubSeq(Http11, i, i + 1) = <<"h", "2">>
                 PROVE  FALSE
      BY DEF HasH2
    <2>1. i = 1 /\ i + 1 = 2
      BY <1>2
    <2>2. SubSeq(Http11, 1, 2)[2] = "1"
      BY DEF Http11
    <2>3. SubSeq(Http11, 1, 2) = <<"h", "2">>
      BY <2>1
    <2>4. <<"h", "2">>[2] = "2"
      OBVIOUS
    <2>5. "1" = "2"
      BY <2>2, <2>3, <2>4
    <2> QED BY <2>5
  <1>5. NoName # Http11
    <2> SUFFICES ASSUME NoName = Http11
                 PROVE  FALSE
      OBVIOUS
    <2>1. Len(NoName) = 2
      BY <1>2
    <2> QED BY <1>1, <2>1
  <1> QED BY <1>1, <1>3, <1>4, <1>5

LEMMA ServicesStart == ServicesInit => ServicesInv
  BY DEF ServicesInit, ServicesInv, FuturesOK

\* What is left to show of a step of a connection.
LEMMA CallerStep ==
  ASSUME ServicesInv, UNCHANGED <<site, worker, fut, gate>>, site # NoSite,
         NEW c, caller' = c, c # NoClient => CallerOK(c)
  PROVE  ServicesInv'
  BY DEF ServicesInv, FuturesOK, PartsOK, CallerOK

LEMMA BuildStep ==
  ASSUME ServicesInv, NEW chain, NEW end, Build(chain, end)
  PROVE  ServicesInv'
  <1>1. PICK builder : site' = Finished(builder, end)
    BY DEF Build
  <1>2. site = NoSite /\ worker = "idle" /\ caller = NoClient /\ UNCHANGED <<worker, fut, gate, caller>>
    BY DEF Build, ServicesInv
  <1>3. PartsOK(site')
    BY <1>1 DEF PartsOK, Finished
  <1> QED BY <1>2, <1>3 DEF ServicesInv, FuturesOK, PartsOK

LEMMA NewServiceStep ==
  ASSUME ServicesInv, NEW next \in {"starts", "restarts"}, NewService(next), site # NoSite,
         UNCHANGED <<site, gate, caller>>
  PROVE  ServicesInv'
  BY DEF NewService, ServicesInv, FuturesOK, PartsOK, CallerOK

LEMMA PollNewServiceStep ==
  ASSUME ServicesInv, NEW outcome, PollNewService(outcome)
  PROVE  ServicesInv'
  <1> DEFINE left == {i \in 1 .. 3 : Order[i] \in site.parts /\ fut[Order[i]] # "none"}
             ready(p) == fut[p] = "waits" /\ outcome[p] = "ready"
             stops == {i \in left : ~ready(Order[i])}
             passed == {Order[i] : i \in {j \in left : stops # {} /\ \A k \in stops : j < k}}
             first == CHOOSE i \in stops : \A k \in stops : i <= k
  <1>1. /\ worker \in {"starts", "restarts"} /\ UNCHANGED <<site, caller>>
        /\ fut' = [p \in site.parts |-> IF p \notin passed THEN fut[p] ELSE IF p = "upgrade" THEN "spent" ELSE "none"]
        /\ worker' = IF stops = {} THEN "serves"
                     ELSE IF fut[Order[first]] = "spent" THEN "panicked"
                     ELSE IF outcome[Order[first]] = "pending" THEN worker
                     ELSE IF worker = "starts" THEN "stopped" ELSE "failed to restart"
    BY DEF PollNewService
  <1>2. site # NoSite /\ PartsOK(site)
    BY <1>1 DEF ServicesInv
  <1>3. /\ \A p \in site.parts : fut[p] = "spent" => p = "upgrade"
        /\ "srv" \in site.parts => fut["srv"] = "waits"
    BY <1>1 DEF ServicesInv, FuturesOK
  <1>4. Order[1] = "expect" /\ Order[2] = "upgrade" /\ Order[3] = "srv"
    BY DEF Order
  <1>5. stops # {} => first \in stops /\ \A k \in stops : first <= k
    <2>1. stops \subseteq {1, 2, 3}
      OBVIOUS
    <2>2. stops # {} => \E i \in stops : \A k \in stops : i <= k
      <3> HIDE DEF stops
      <3>1. CASE 1 \in stops
        BY <2>1, <3>1
      <3>2. CASE 1 \notin stops /\ 2 \in stops
        BY <2>1, <3>2
      <3>3. CASE 1 \notin stops /\ 2 \notin stops /\ 3 \in stops
        BY <2>1, <3>3
      <3> QED BY <2>1, <3>1, <3>2, <3>3
    <2> HIDE DEF stops
    <2> QED BY <2>2
  <1> HIDE DEF first
  <1>6. \A p \in passed : fut[p] = "waits" /\ p # "srv"
    <2> SUFFICES ASSUME NEW j \in left, NEW k \in stops, j < k, \A i \in stops : j < i
                 PROVE  fut[Order[j]] = "waits" /\ Order[j] # "srv"
      OBVIOUS
    <2>1. j \notin stops /\ j < 3
      OBVIOUS
    <2> QED BY <1>4, <2>1
  <1>7. stops # {} => Order[first] \in site.parts /\ Order[first] \notin passed
    <2> SUFFICES ASSUME stops # {}, NEW j \in left, j < first, Order[j] = Order[first]
                 PROVE  FALSE
      BY <1>5
    <2> QED BY <1>4, <1>5
  <1> HIDE DEF stops, passed
  <1>8. FuturesOK'
    BY <1>1, <1>2, <1>3, <1>6 DEF FuturesOK
  <1>9. ASSUME worker' = "panicked"
        PROVE  ("upgrade" \in site.parts /\ fut["upgrade"] = "spent" /\ fut["srv"] = "waits")'
    <2>1. stops # {} /\ fut[Order[first]] = "spent"
      BY <1>1, <1>9
    <2>2. Order[first] = "upgrade" /\ "upgrade" \in site.parts /\ "upgrade" \notin passed
      BY <1>3, <1>7, <2>1
    <2>3. "srv" \in site.parts /\ fut["srv"] = "waits" /\ "srv" \notin passed
      BY <1>2, <1>3, <1>6, <2>2 DEF PartsOK
    <2> QED BY <1>1, <2>1, <2>2, <2>3
  <1> QED BY <1>1, <1>2, <1>8, <1>9 DEF ServicesInv, CallerOK, PartsOK

LEMMA AcceptClientStep ==
  ASSUME ServicesInv, NEW k \in Clients, AcceptClient(k)
  PROVE  ServicesInv'
  <1>1. /\ worker = "serves" /\ PollReady = "ready" /\ UNCHANGED <<site, worker, fut, gate>>
        /\ caller' = [st |-> "accepted", speaks |-> k.prior, alpn |-> NoName, offers |-> k.offers, calls |-> 0,
                      asked |-> {p \in site.parts : gate[p] # "ready"}]
    BY DEF AcceptClient
  <1>2. site # NoSite
    BY <1>1 DEF ServicesInv
  <1>3. {p \in site.parts : gate[p] # "ready"} = {}
    BY <1>1 DEF PollReady
  <1>4. k.prior \in {"h1", "h2"} /\ k.offers \in SUBSET Seq(STRING)
    BY ClientsAssumption
  <1>5. PICK c : c = caller'
    OBVIOUS
  <1>6. c \in Callers /\ c.st = "accepted" /\ c.alpn = NoName /\ c.asked = {} /\ c.calls = 0
    BY <1>1, <1>3, <1>4, <1>5, Names DEF Callers
  <1>7. CallerOK(c)
    BY <1>6 DEF CallerOK
  <1> QED BY <1>1, <1>2, <1>5, <1>7, CallerStep

LEMMA CallStep ==
  ASSUME ServicesInv, NEW k \in Clients, NEW alpn \in k.offers \cup {NoName}, Call(alpn)
  PROVE  ServicesInv'
  <1>1. PICK c \in Callers : c = caller /\ CallerOK(c)
    BY DEF Call, ServicesInv, CallerOK
  <1>2. PICK speaks, calls : /\ speaks = Speaks([prior |-> c.speaks], alpn)
                             /\ calls = IF site.on_connect THEN c.calls + 1 ELSE c.calls
    OBVIOUS
  <1>3. /\ c.st = "accepted" /\ alpn \in Negotiable(c.offers) /\ UNCHANGED <<site, worker, fut, gate>>
        /\ caller' = [c EXCEPT !.st = Protocol(alpn), !.alpn = alpn, !.speaks = speaks, !.calls = calls]
        /\ site # NoSite
    BY <1>1, <1>2 DEF Call, ServicesInv
  <1>4. alpn \in Seq(STRING) \cup {NoName, Http11} /\ (alpn = NoName \/ alpn = Http11 \/ HasH2(alpn))
    BY ClientsAssumption, Names
  <1>5. speaks \in {"h1", "h2"} /\ (alpn = Http11 => speaks = "h1") /\ (alpn # Http11 /\ alpn # NoName => speaks = "h2")
    <2>1. c.speaks \in {"h1", "h2"}
      BY DEF Callers
    <2> QED BY <1>2, <2>1, Names DEF Speaks
  <1>6. Protocol(alpn) \in {"h1", "h2 handshake", "one request"}
    BY DEF Protocol
  <1>7. site.end = "finish" => Protocol(alpn) \in {"h1", "h2 handshake"}
                               /\ (Protocol(alpn) = "h2 handshake" => HasH2(alpn))
                               /\ (Protocol(alpn) = "h1" => site.transport = "tcp" \/ ~HasH2(alpn))
    BY DEF Protocol
  <1>8. site.transport = "tcp" => alpn = NoName
    BY <1>3 DEF Negotiable
  <1>9. calls = IF site.on_connect THEN 1 ELSE 0
    BY <1>1, <1>2, <1>3 DEF CallerOK
  <1>10. PICK st, d : st = Protocol(alpn) /\ d = [c EXCEPT !.st = st, !.alpn = alpn, !.speaks = speaks, !.calls = calls]
    OBVIOUS
  <1>11. /\ d \in Callers /\ d.st = st /\ d.alpn = alpn /\ d.speaks = speaks /\ d.calls = calls /\ d.asked = c.asked
    BY <1>4, <1>5, <1>6, <1>9, <1>10 DEF Callers
  <1>12. CallerOK(d)
    <2>1. /\ d.asked = {} /\ d.st # "accepted"
          /\ d.calls = (IF site.on_connect /\ d.st \notin {"accepted", "no tls"} THEN 1 ELSE 0)
      BY <1>1, <1>6, <1>9, <1>10, <1>11 DEF CallerOK
    <2>2. ASSUME site.end = "finish"
          PROVE  /\ d.st \in {"h1", "h2 handshake"} /\ (d.st = "h2 handshake" => d.speaks = "h2")
                 /\ d.st = "h1" /\ d.speaks = "h2" => d.alpn = NoName
      BY <1>4, <1>5, <1>7, <1>8, <1>10, <1>11, <2>2, Names
    <2> QED BY <1>11, <2>1, <2>2 DEF CallerOK
  <1> QED BY <1>3, <1>10, <1>12, CallerStep

\* The steps that only move a connection on.
LEMMA MoveStep ==
  ASSUME ServicesInv, UNCHANGED <<site, worker, fut, gate>>, caller # NoClient, NEW st,
         caller' = [caller EXCEPT !.st = st],
         \/ st = "no tls" /\ caller.st = "accepted"
         \/ st = "h2" /\ caller.st = "h2 handshake" /\ caller.speaks = "h2"
         \/ st = "refused" /\ caller.st = "h2 handshake" /\ caller.speaks # "h2"
         \/ st = "refused" /\ caller.st = "h1" /\ caller.speaks = "h2"
         \/ st \in {"handed over", "refused"} /\ caller.st = "one request"
  PROVE  ServicesInv'
  <1>1. PICK c \in Callers : c = caller /\ CallerOK(c)
    BY DEF ServicesInv, CallerOK
  <1>2. PICK d : d = [c EXCEPT !.st = st]
    OBVIOUS
  <1>3. /\ d \in Callers /\ d.st = st /\ d.asked = c.asked
        /\ d.alpn = c.alpn /\ d.speaks = c.speaks /\ d.calls = c.calls
    BY <1>1, <1>2 DEF Callers
  <1>4. CallerOK(d)
    BY <1>1, <1>3 DEF CallerOK
  <1>5. site # NoSite /\ caller' = d
    BY <1>1, <1>2 DEF ServicesInv
  <1> QED BY <1>4, <1>5, CallerStep

LEMMA ServicesStep ==
  ASSUME ServicesInv, [ServicesNext]_services
  PROVE  ServicesInv'
  <1>1. ASSUME NEW chain, NEW end, Build(chain, end)
        PROVE  ServicesInv'
    BY <1>1, BuildStep
  <1>2. CASE StartWorker
    BY <1>2, NewServiceStep DEF StartWorker
  <1>3. CASE Restart
    <2>1. site # NoSite
      BY <1>3 DEF Restart, ServicesInv
    <2> QED BY <1>3, <2>1, NewServiceStep DEF Restart
  <1>4. CASE Leave
    <2>1. site # NoSite
      BY <1>4 DEF Leave, ServicesInv
    <2> QED BY <1>4, <2>1, CallerStep DEF Leave
  <1>5. CASE FinishHandshake
    BY <1>5, MoveStep DEF FinishHandshake
  <1>6. CASE Preface
    BY <1>6, MoveStep DEF Preface
  <1>7. CASE TlsFails
    BY <1>7, MoveStep DEF TlsFails
  <1>8. ASSUME NEW o, OneRequest(o)
        PROVE  ServicesInv'
    BY <1>8, MoveStep DEF OneRequest
  <1>9. ASSUME NEW outcome, PollNewService(outcome)
        PROVE  ServicesInv'
    BY <1>9, PollNewServiceStep
  <1>10. ASSUME NEW p, NEW g, GateTurns(p, g)
         PROVE  ServicesInv'
    BY <1>10 DEF GateTurns, ServicesInv, FuturesOK, PartsOK, CallerOK
  <1>11. ASSUME NEW k \in Clients, AcceptClient(k)
         PROVE  ServicesInv'
    BY <1>11, AcceptClientStep
  <1>12. ASSUME NEW k \in Clients, NEW alpn \in k.offers \cup {NoName}, Call(alpn)
         PROVE  ServicesInv'
    BY <1>12, CallStep
  <1>13. CASE UNCHANGED services
    BY <1>13 DEF services, ServicesInv, FuturesOK, PartsOK, CallerOK
  <1> QED BY <1>1, <1>2, <1>3, <1>4, <1>5, <1>6, <1>7, <1>8, <1>9, <1>10, <1>11, <1>12, <1>13 DEF ServicesNext

\* HttpService and its relatives, however they are built: a connection is given only to a
\* service whose parts were all ready, on_connect is called once, when the service is, a
\* service for both protocols refuses nobody who negotiated one of them or speaks HTTP/1,
\* and a worker panics only over the upgrade service's spent future.
THEOREM AgreementsKept == ServicesSpec => []ServedAsAgreed
  <1>1. ServicesInv => ServedAsAgreed
    BY DEF ServicesInv, ServedAsAgreed, CallerOK
  <1> QED BY <1>1, ServicesStart, ServicesStep, PTL DEF ServicesSpec
=============================================================================
