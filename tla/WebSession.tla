------------------------------ MODULE WebSession ------------------------------
(***************************************************************************)
(* The web page and the server it talks to (webserver.c, webpage.html): a  *)
(* jog held over the WebSocket or over POST requests, sockets whose phone  *)
(* has vanished, the status push that keeps the device awake, and the      *)
(* deferred calls that put it to sleep or restart the WiFi.                *)
(*                                                                         *)
(* One page, which may lose its socket and come back on a new one while    *)
(* the server still has the old.  The state machine stays in STATE_IDLE.   *)
(* The HTTP server runs its handlers one at a time.                        *)
(***************************************************************************)
EXTENDS Integers, Sequences, FiniteSetsExt

CONSTANTS
  Socks,      \* the server's sockets
  NoSock,     \* none of them
  InFlight,   \* bound: frames and requests under way
  SendBuf,    \* pushes that fit into the send buffer of a socket
  Pulse,      \* WEB_PULSE_LENGTH, in ticks
  Timeout,    \* INACTIVITY_TIMEOUT_S, in ticks
  Requests    \* what the page may ask for: "sleep", "restart", or its status, "get"

ASSUME WebSessionAssumption ==
  /\ IsFiniteSet(Socks) /\ NoSock \notin Socks
  /\ {InFlight, SendBuf, Pulse, Timeout} \subseteq Nat \ {0}
  /\ Requests \subseteq {"sleep", "restart", "get"}

VARIABLES
  page,      \* the phone is "away", or has the page "hidden" or "visible"
  cur,       \* the page's WebSocket, or NoSock
  held,      \* the page believes that a jog button is held
  ws,        \* the server's sockets: "free", "open", or "stale" (phone gone)
  pipe,      \* frames under way on a socket
  unsent,    \* pushes in the send buffer of a socket
  posts,     \* HTTP requests under way, each on a connection of its own
  jog,       \* what is left of the override's time
  by,        \* history: the way its last pulse came, "ws" or "post"; "none" without
  idle,      \* in_soft_idle
  quiet,     \* ticks since last_activity_tick, up to Timeout
  deferred,  \* timers that defer_call has started
  phase      \* the server is "serving", "stopping", or "off" with the WiFi

phone  == <<page, cur, held>>
link   == <<ws, pipe, unsent>>
motion == <<jog, by>>
power  == <<idle, quiet>>
vars   == <<phone, link, posts, motion, power, deferred, phase>>

Frames == {"pulse", "stop", "fin"}
Asked  == {"pulse", "stop"} \cup Requests

-----------------------------------------------------------------------------
\* rtc_reset_shutdown_timer, which also wakes the device.
Activity == idle' = FALSE /\ quiet' = 0

\* comms_handle_post, for the commands of the remote.
Obey(cmd, way) ==
  CASE cmd = "pulse" -> jog' = Pulse /\ by' = way
    [] cmd = "stop"  -> jog' = 0 /\ by' = "none"
    [] OTHER         -> UNCHANGED motion

\* Slip: a socket is closed without a stop.
HaltNothing == UNCHANGED motion

\* stop_override in ws_close_fn.
Halt == jog' = 0 /\ by' = "none"

\* The server closes sockets, with all that was under way on them, and has sent
\* a push on others.
Sockets(gone, sent) ==
  /\ ws'   = [s \in Socks |-> IF s \in gone THEN "free" ELSE ws[s]]
  /\ pipe' = [s \in Socks |-> IF s \in gone THEN << >> ELSE pipe[s]]
  /\ unsent' = [s \in Socks |-> CASE s \in gone -> 0
                                 [] s \in sent -> Min({unsent[s] + 1, SendBuf})
                                 [] OTHER     -> unsent[s]]

Used == {s \in Socks : ws[s] # "free"}

-----------------------------------------------------------------------------
\* A frame on the page's socket; one the server has closed takes nothing.
Frame(f) ==
  pipe' = IF ws[cur] = "open" THEN [pipe EXCEPT ![cur] = Append(@, f)] ELSE pipe

UnderWay == Cardinality(posts) + MapThenSumSet(LAMBDA s : Len(pipe[s]), Socks)

\* The page: sendCmd prefers an open WebSocket to a POST request.
Send(cmd) ==
  /\ UnderWay < InFlight
  /\ IF cur = NoSock
       THEN posts' = posts \cup {cmd} /\ UNCHANGED pipe
       ELSE Frame(cmd) /\ UNCHANGED posts

\* startRemote, and its timer while the button is held.
Pulses ==
  /\ page = "visible" \/ held
  /\ held' = TRUE
  /\ Send("pulse")
  /\ UNCHANGED <<page, cur, ws, unsent, motion, power, deferred, phase>>

\* stopRemote.
LetGo ==
  /\ held /\ held' = FALSE
  /\ Send("stop")
  /\ UNCHANGED <<page, cur, ws, unsent, motion, power, deferred, phase>>

\* connectWS; the server purges the least recently used socket for a new one.
Connect(s) ==
  /\ page = "visible" /\ cur = NoSock /\ phase = "serving"
  /\ ws[s] = "free" \/ Used = Socks
  /\ cur' = s
  /\ ws' = [ws EXCEPT ![s] = "open"] /\ pipe' = [pipe EXCEPT ![s] = << >>]
  /\ unsent' = [unsent EXCEPT ![s] = 0]
  /\ IF ws[s] = "free" THEN UNCHANGED motion ELSE Halt
  /\ Activity
  /\ UNCHANGED <<page, held, posts, deferred, phase>>

\* onclose.
Notices ==
  /\ cur # NoSock /\ ws[cur] = "free"
  /\ cur' = NoSock
  /\ UNCHANGED <<page, held, link, posts, motion, power, deferred, phase>>

\* The tab is hidden: ws.close(), and nobody lets the button go.
Hide ==
  /\ page = "visible" /\ page' = "hidden"
  /\ cur' = NoSock
  /\ UnderWay < InFlight
  /\ IF cur = NoSock THEN UNCHANGED pipe ELSE Frame("fin")
  /\ UNCHANGED <<held, ws, unsent, posts, motion, power, deferred, phase>>

Show ==
  /\ page = "hidden" /\ page' = "visible"
  /\ UNCHANGED <<cur, held, link, posts, motion, power, deferred, phase>>

\* fetchStatus without a WebSocket, and sendCommand; bound: one at a time.
Ask(cmd) ==
  /\ page = "visible" /\ (cmd = "get" => cur = NoSock)
  /\ UnderWay < InFlight /\ posts \cap Requests = {} /\ deferred = {}
  /\ posts' = posts \cup {cmd}
  /\ UNCHANGED <<phone, link, motion, power, deferred, phase>>

\* The phone drops off the WiFi without a word; what has not arrived is lost.
Vanish ==
  /\ page # "away" /\ page' = "away"
  /\ cur' = NoSock /\ held' = FALSE
  /\ ws' = [s \in Socks |-> IF ws[s] = "open" THEN "stale" ELSE ws[s]]
  /\ \E n \in 0..InFlight :
       pipe' = [s \in Socks |-> SubSeq(pipe[s], 1, Min({n, Len(pipe[s])}))]
  /\ posts' \in {posts, {}}
  /\ UNCHANGED <<unsent, motion, power, deferred, phase>>

\* It associates again (WIFI_EVENT_AP_STACONNECTED) and loads the page.
Join ==
  /\ page = "away" /\ phase # "off" /\ page' = "visible"
  /\ Activity
  /\ UNCHANGED <<cur, held, link, posts, motion, deferred, phase>>

-----------------------------------------------------------------------------
\* The HTTP task, which goes on until httpd_stop is done.
Running == phase \in {"serving", "stopping"}

\* ws_handler and, for a CLOSE frame, ws_close_fn after it.
HandleFrame(s) ==
  /\ Running /\ pipe[s] # << >>
  /\ IF Head(pipe[s]) = "fin"
       THEN Sockets({s}, {}) /\ Halt /\ UNCHANGED power
       ELSE /\ pipe' = [pipe EXCEPT ![s] = Tail(@)]
            /\ Obey(Head(pipe[s]), "ws") /\ Activity
            /\ UNCHANGED <<ws, unsent>>
  /\ UNCHANGED <<phone, posts, deferred, phase>>

\* post_handler and get_handler.
HandlePost(cmd) ==
  /\ Running /\ cmd \in posts
  /\ posts' = posts \ {cmd}
  /\ Obey(cmd, "post") /\ Activity
  /\ deferred' = deferred \cup ({cmd} \cap {"sleep", "restart"})
  /\ UNCHANGED <<phone, link, phase>>

\* Slip: every socket is sent to, as if all clients were there.
DeadNone == {}

\* ~ws_sock_writable.
Dead == {s \in Used : unsent[s] = SendBuf}

\* ws_broadcast_work, queued once a second: a socket that takes no more is
\* closed, and anybody who could be sent to keeps the device awake.
Push ==
  LET sent == Used \ Dead
  IN  /\ phase = "serving" /\ Used # {}
      /\ Sockets(Dead, sent)
      /\ IF Dead = {} THEN UNCHANGED motion ELSE Halt
      /\ IF sent = {} THEN UNCHANGED power ELSE Activity
      /\ UNCHANGED <<phone, posts, deferred, phase>>

\* A living phone takes what was sent to it.
Drain(s) ==
  /\ ws[s] = "open" /\ unsent[s] > 0
  /\ unsent' = [unsent EXCEPT ![s] = 0]
  /\ UNCHANGED <<phone, ws, pipe, posts, motion, power, deferred, phase>>

-----------------------------------------------------------------------------
\* The timer task.  soft_idle_enter_cb and webserver_restart_wifi_cb run in it,
\* so that nothing else of it does until the WiFi is back.
SleepFires ==
  /\ phase = "serving" /\ "sleep" \in deferred
  /\ deferred' = deferred \ {"sleep"}
  /\ idle' = TRUE
  /\ UNCHANGED <<phone, link, posts, motion, quiet, phase>>

\* webserver_restart_wifi: httpd_stop, ...
RestartFires ==
  /\ phase = "serving" /\ "restart" \in deferred
  /\ deferred' = deferred \ {"restart"}
  /\ phase' = "stopping"
  /\ UNCHANGED <<phone, link, posts, motion, power>>

\* ... which closes all sockets, then the access point, ...
Stopped ==
  /\ phase = "stopping" /\ phase' = "off"
  /\ Sockets(Socks, {})
  /\ posts' = {}
  /\ IF Used = {} THEN UNCHANGED motion ELSE Halt
  /\ UNCHANGED <<phone, power, deferred>>

\* ... and both are started again.
Restarted ==
  /\ phase = "off" /\ phase' = "serving"
  /\ UNCHANGED <<phone, link, posts, motion, power, deferred>>

Left(time) == Max({time - 1, 0})

\* Time: the override runs out, and the main loop goes to sleep.
Tick ==
  /\ jog' = Left(jog) /\ by' = IF jog' = 0 THEN "none" ELSE by
  /\ quiet' = Min({quiet + 1, Timeout})
  /\ idle' = (idle \/ quiet' = Timeout)
  /\ UNCHANGED <<phone, link, posts, deferred, phase>>

-----------------------------------------------------------------------------
Init ==
  /\ page = "away" /\ cur = NoSock /\ held = FALSE
  /\ ws = [s \in Socks |-> "free"] /\ pipe = [s \in Socks |-> << >>]
  /\ unsent = [s \in Socks |-> 0] /\ posts = {}
  /\ jog = 0 /\ by = "none" /\ idle = FALSE /\ quiet = 0
  /\ deferred = {} /\ phase = "serving"

Page ==
  \/ Pulses \/ LetGo \/ Notices \/ Hide \/ Show \/ Vanish \/ Join
  \/ \E s \in Socks : Connect(s) \/ Drain(s)
  \/ \E cmd \in Requests : Ask(cmd)

Server ==
  \/ Push
  \/ \E s \in Socks : HandleFrame(s)
  \/ \E cmd \in Asked : HandlePost(cmd)

Timers == SleepFires \/ RestartFires \/ Stopped \/ Restarted

Next == Page \/ Server \/ Timers \/ Tick

\* The server's task, its timers and the clock go on; pages owe nothing.
Fairness == WF_vars(Server) /\ WF_vars(Timers) /\ WF_vars(Tick)

Spec == Init /\ [][Next]_vars /\ Fairness

-----------------------------------------------------------------------------
TypeOK ==
  /\ page \in {"away", "hidden", "visible"}
  /\ cur \in Socks \cup {NoSock} /\ held \in BOOLEAN
  /\ ws \in [Socks -> {"free", "open", "stale"}]
  /\ \A s \in Socks : pipe[s] \in Seq(Frames) /\ Len(pipe[s]) <= InFlight
  /\ unsent \in [Socks -> 0..SendBuf]
  /\ posts \subseteq Asked /\ deferred \subseteq Requests
  /\ jog \in 0..Pulse /\ by \in {"ws", "post", "none"}
  /\ idle \in BOOLEAN /\ quiet \in 0..Timeout
  /\ phase \in {"serving", "stopping", "off"}

(***************************************************************************)
(* "Any WS socket close halts remote motion with no dependence on the      *)
(* pulse timeout": a jog that came over a WebSocket is always someone's,   *)
(* of a page that holds the button or has frames under way, or of a socket *)
(* whose phone has vanished and which is not yet closed.                   *)
(***************************************************************************)
JogHasHolder ==
  by = "ws" =>
    \E s \in Used : ws[s] = "stale" \/ pipe[s] # << >> \/ (s = cur /\ held)

(***************************************************************************)
(* The same without regard to the way: when nobody holds a button and      *)
(* nothing is under way, nothing moves.  "Release/tab-close stop via       *)
(* reliable paths; this only bounds motion on a silent link blackout."     *)
(***************************************************************************)
ReleaseHalts ==
  page # "away" /\ ~held /\ posts = {} /\ (\A s \in Socks : pipe[s] = << >>) =>
    jog = 0 \/ \E s \in Socks : ws[s] = "stale"

Deserted == page = "away" /\ posts = {}

(***************************************************************************)
(* "A pile of stale sockets can't pin the device awake": as long as the    *)
(* phone stays away, the device comes to be asleep with no socket left     *)
(* whose push could wake it.                                               *)
(***************************************************************************)
SleepsWhenDeserted == []<>(~Deserted \/ (idle /\ Used = {}))

(***************************************************************************)
(* "Any genuine activity (HTTP/WS request, command, new association) ...   *)
(* is the wake trigger": nothing else wakes the device.                    *)
(***************************************************************************)
OnlyActivityWakes ==
  [][idle /\ ~idle' => posts' # posts \/ pipe' # pipe \/ cur' # cur \/ page' # page]_vars
=============================================================================
