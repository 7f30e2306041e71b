--------------------------------- MODULE Timers ---------------------------------
(***************************************************************************)
(* Time in actix-http: the settings and the cached date of config.rs, from *)
(* which every deadline and every Date header is taken, and the keep-alive *)
(* and disconnect timer of an HTTP/1 connection (poll_keepalive).          *)
(*                                                                         *)
(* The date is read once and kept until a task, spawned at that moment,    *)
(* resets it.  A deadline taken from it lies early by the date's age.      *)
(* Every time is kept relative to the present: an age, or what remains.    *)
(***************************************************************************)
EXTENDS Integers

CONSTANTS TimerSettings, \* [keep, secs, disconnect]: what an application configures
          Refresh,       \* how long a date is kept: 500 milliseconds
          Lateness,      \* how late the executor may run what is due
          Horizon        \* ages are not told apart beyond it
ASSUME TimersAssumption == Refresh \in Nat /\ Lateness \in Nat /\ Horizon \in Nat

VARIABLES
  settings, \* the ServiceConfig: keep_alive and disconnect are times, or none
  date,     \* the age of the cached date, or none
  reset,    \* what remains until the task that resets it, or none
  socket    \* a connection and its timer: what remains, and whether its wake-up is to come

timers == <<settings, date, reset, socket>>

NoTime == <<>>
Within(t) == <<t>>
Second == 2 * Refresh

\* Every age that is compared with a time is told apart.
ASSUME HorizonAssumption ==
  /\ Refresh + Lateness <= Horizon
  /\ \A s \in TimerSettings : s.secs \in Nat /\ s.disconnect \in Nat /\ s.secs * Second <= Horizon

\* ServiceConfig::new: no seconds, Os and Disabled are no keep-alive time.
ServiceConfig(s) ==
  [keep_alive |-> IF s.keep = "timeout" /\ s.secs > 0 THEN Within(s.secs * Second) ELSE NoTime,
   enabled |-> s.keep # "disabled",
   disconnect |-> IF s.disconnect # 0 THEN Within(s.disconnect) ELSE NoTime]
NotConfigured == [keep_alive |-> NoTime, enabled |-> FALSE, disconnect |-> NoTime]
Unopened ==
  [st |-> "none", busy |-> FALSE, started |-> FALSE, timer |-> NoTime, armed |-> FALSE, expire |-> 0,
   quiet |-> 0,    \* the time since the last message was read, until the connection closes
   spell |-> 0,    \* the time since the last response or message, or since it closed for idleness
   idle |-> FALSE] \* it closed because it was idle
SocketGone == [Unopened EXCEPT !.st = "closed"]

-----------------------------------------------------------------------------
\* check_date: fills an empty cache, and spawns the task that will reset it.
CheckDate == IF date = NoTime THEN date' = Within(0) /\ reset' = Within(Refresh) ELSE UNCHANGED <<date, reset>>
Age == IF date = NoTime THEN 0 ELSE date[1]

\* keep_alive_expire and client_disconnect_timer: none, or a time from the cached date.
Expire(delay) == IF delay = NoTime THEN NoTime ELSE Within(delay[1] - Age)
CheckUnlessNone(delay) == IF delay = NoTime THEN UNCHANGED <<date, reset>> ELSE CheckDate

ResetDate == reset # NoTime /\ reset[1] <= 0 /\ date' = NoTime /\ reset' = NoTime /\ UNCHANGED <<settings, socket>>
\* Another connection of the worker writes a Date header.
OthersReadDate == settings # NotConfigured /\ date = NoTime /\ CheckDate /\ UNCHANGED <<settings, socket>>

\* Delay::reset and the poll after it: a deadline that has passed wakes nobody.
Reset(remains) == [socket EXCEPT !.timer = Within(remains), !.armed = remains > 0]

-----------------------------------------------------------------------------
Configure(s) ==
  /\ settings = NotConfigured /\ settings' = ServiceConfig(s)
  /\ UNCHANGED <<date, reset, socket>>

\* Dispatcher::with_timeout.
OpenSocket ==
  /\ settings # NotConfigured /\ socket.st = "none"
  /\ LET ka == Expire(settings.keep_alive)
     IN  socket' = [Unopened EXCEPT !.st = "open", !.timer = ka, !.armed = ka # NoTime,
                                    !.expire = IF ka = NoTime THEN -Age ELSE ka[1]]
  /\ CheckDate
  /\ UNCHANGED settings

\* poll_request decodes a message, a request or a piece of its body, which may come
\* after the response: the timer stays, ka_expire moves.
MessageComes(request) ==
  /\ socket.st = "open" /\ (request \/ socket.started)
  /\ LET moves == socket.timer # NoTime /\ settings.keep_alive # NoTime
     IN  /\ socket' = [socket EXCEPT !.busy = @ \/ request, !.started = TRUE, !.quiet = 0, !.spell = 0,
                                     !.expire = IF moves THEN Expire(settings.keep_alive)[1] ELSE @]
         /\ IF moves THEN CheckDate ELSE UNCHANGED <<date, reset>>
  /\ UNCHANGED settings

\* The connection closes, by itself or because the client left.  A keep-alive timer
\* goes on as the timer of the shutdown.
Shutdown ==
  IF socket.timer # NoTime \/ settings.disconnect = NoTime THEN
    socket' = [socket EXCEPT !.st = "shutdown", !.busy = FALSE] /\ UNCHANGED <<date, reset>>
  ELSE
    /\ LET remains == Expire(settings.disconnect)[1]
       IN  socket' = IF remains <= 0 THEN SocketGone
                     ELSE [Reset(remains) EXCEPT !.st = "shutdown", !.busy = FALSE]
    /\ CheckDate

\* The response is written; without keep-alive the connection closes.
ResponseWritten ==
  /\ socket.st = "open" /\ socket.busy
  /\ IF settings.enabled
     THEN socket' = [socket EXCEPT !.busy = FALSE, !.spell = 0] /\ CheckDate
     ELSE Shutdown
  /\ UNCHANGED settings
ClientLeft ==
  /\ socket.st = "open" /\ ~socket.busy /\ Shutdown
  /\ UNCHANGED settings
\* The socket takes what is left to write, and closes.
SocketCloses ==
  /\ socket.st = "shutdown" /\ socket' = SocketGone
  /\ UNCHANGED <<settings, date, reset>>

\* poll_keepalive finds the timer fired.
\* A faulty variant of IsExpired: what the messages since moved is not looked at.
IsExpiredAnyway == TRUE
IsExpired == socket.timer[1] >= socket.expire

FireShutdown == socket.st = "shutdown" /\ socket' = SocketGone /\ UNCHANGED <<date, reset>>
FireIdle ==
  /\ socket.st = "open" /\ IsExpired /\ ~socket.busy /\ socket.started
  /\ LET deadline == Expire(settings.disconnect)
     IN  socket' = IF deadline = NoTime THEN [socket EXCEPT !.st = "closed", !.idle = TRUE]
                   ELSE [Reset(deadline[1]) EXCEPT !.st = "shutdown", !.spell = 0, !.idle = TRUE]
  /\ CheckUnlessNone(settings.disconnect)
\* No request came yet: 408.  The timer stays fired, and the next poll ends the connection.
FireSlow ==
  /\ socket.st = "open" /\ IsExpired /\ ~socket.busy /\ ~socket.started
  /\ socket' = [socket EXCEPT !.st = "shutdown", !.armed = FALSE, !.started = TRUE, !.spell = 0]
  /\ UNCHANGED <<date, reset>>
FireBusy ==
  /\ socket.st = "open" /\ IsExpired /\ socket.busy
  /\ socket' = Reset(Expire(settings.keep_alive)[1])
  /\ CheckDate
FireEarly ==
  /\ socket.st = "open" /\ ~IsExpired
  /\ socket' = Reset(socket.expire) /\ UNCHANGED <<date, reset>>
PollTimer ==
  /\ socket.st # "closed" /\ socket.timer # NoTime /\ socket.timer[1] <= 0
  /\ FireShutdown \/ FireIdle \/ FireSlow \/ FireBusy \/ FireEarly
  /\ UNCHANGED settings

\* Time passes; the executor runs what is due no later than Lateness after it.  A timer
\* that wakes nobody falls behind further, where only its order with ka_expire counts.
Longest == -Lateness - 1
Down(t) == IF t > Longest THEN t - 1 ELSE t
DownBehind(expire, timer) ==
  IF timer # NoTime /\ timer[1] < expire /\ expire = Longest + 1 THEN expire ELSE Down(expire)
Up(t) == IF t < Horizon THEN t + 1 ELSE t
IsLate(remains) == remains <= -Lateness
Tick ==
  /\ settings # NotConfigured
  /\ reset # NoTime => ~IsLate(reset[1])
  /\ socket.armed => ~IsLate(socket.timer[1])
  /\ date' = IF date = NoTime THEN date ELSE Within(Up(date[1]))
  /\ reset' = IF reset = NoTime THEN reset ELSE Within(Down(reset[1]))
  /\ socket' =
       IF socket.st \notin {"open", "shutdown"} THEN socket
       ELSE [socket EXCEPT !.timer = IF @ = NoTime THEN @ ELSE Within(Down(@[1])),
                           !.expire = DownBehind(@, socket.timer),
                           !.quiet = IF socket.st = "open" THEN Up(@) ELSE @,
                           !.spell = IF socket.busy \/ (socket.st = "shutdown" /\ ~socket.idle) THEN 0 ELSE Up(@)]
  /\ UNCHANGED settings

TimersInit == settings = NotConfigured /\ date = NoTime /\ reset = NoTime /\ socket = Unopened
TimersNext ==
  \/ \E s \in TimerSettings : Configure(s)
  \/ OpenSocket \/ (\E request \in BOOLEAN : MessageComes(request))
  \/ ResponseWritten \/ ClientLeft \/ SocketCloses \/ PollTimer
  \/ ResetDate \/ OthersReadDate \/ Tick
TimersSpec == TimersInit /\ [][TimersNext]_timers

-----------------------------------------------------------------------------
Skew == Refresh + Lateness

\* However messages, timers and the resets of the date interleave, the cached date is
\* never older than a refresh and the executor's lateness, and the times are kept up
\* to that: an idle connection is closed no earlier than its keep-alive time after the
\* last message, less the skew, and does not stay longer than that time after the last
\* response or message.  It may stay on where the timer wakes nobody, which takes
\* a lateness of a refresh or more (a handler that holds the worker for 500 ms): the late
\* timer is set to a deadline that has passed, and the poll after it is ignored.  Closing,
\* the connection goes within the disconnect time, unless that is so short that its
\* deadline had passed when it was taken.
TimeIsKept ==
  /\ date # NoTime => date[1] <= Skew
  /\ settings.keep_alive # NoTime =>
       /\ socket.idle => socket.quiet >= settings.keep_alive[1] - Skew
       /\ socket.st = "open" /\ ~socket.busy /\ (socket.armed \/ Lateness < Refresh) =>
            socket.spell <= settings.keep_alive[1] + Lateness
       /\ socket.st = "shutdown" /\ socket.idle /\ (socket.armed \/ settings.disconnect[1] > Skew) =>
            socket.spell <= settings.disconnect[1] + Lateness
=============================================================================
