------------------------------- MODULE MainLoop -------------------------------
(***************************************************************************)
(* The main loop (app_main in src/main/main.c): the debounced button with  *)
(* its taps, holds and cancels, the alarm, the inactivity timer and soft   *)
(* idle, against the tasks that put the device to sleep, keep it awake or  *)
(* command the state machine on their own.                                 *)
(*                                                                         *)
(* One tick is one period of the loop.  The state machine is reduced to    *)
(* the states a button press tells apart; ControlFsm has the whole of it.  *)
(* The bring-up tool is not active (while it is, the loop only waits).     *)
(***************************************************************************)
EXTENDS Integers, Sequences

CONSTANTS
  MaxTicks,      \* bound: ticks of a behaviour
  Range,         \* TickType_t counts modulo this
  Timeout,       \* INACTIVITY_TIMEOUT_S
  TapWindow,     \* 2 s
  HoldTicks,     \* 3 s
  LongTicks,     \* 1 s
  QueueLen,      \* length of fsm_cmd_queue
  OtherActs      \* what other tasks do: "sleep", "activity", "START", "CAL_PREP"

ASSUME MainLoopAssumption ==
  /\ {MaxTicks, Timeout, TapWindow, HoldTicks, LongTicks, QueueLen} \subseteq Nat
  /\ Range \in Nat /\ Range > MaxTicks
  /\ OtherActs \subseteq {"sleep", "activity", "START", "CAL_PREP"}

VARIABLES
  tick,       \* xTaskGetTickCount()
  raw,        \* the button is pressed
  sampled,    \* INPUT0 as it was last read: a difference pulls GPIO13 low
  debounced,  \* debounced_state
  edge,       \* debounced_state differs from last_known_state
  waiting,    \* a change has come too soon after last_stable_time
  changed,    \* last_change_time of a press; 0 when it is not read
  taps,       \* tap_count
  window,     \* tap_window_start; 0 when there are no taps
  idle,       \* in_soft_idle
  fed,        \* last_activity_tick
  due,        \* rtc_alarm_tripped
  fsm,        \* current_state
  queue,      \* fsm_cmd_queue
  pc,         \* the main loop's place
  cur,        \* cur_state; STATE_IDLE when it is no more read
  inside,     \* the timer was last fed inside rtc_check_shutdown_timer: "no", at the
              \* "level" of the count it works with, or "ahead" of it by a millisecond
  left,       \* history: STATE_IDLE was left, or sleep called for, since the first tap
  long,       \* history: the button is just released after LongTicks or more
  slept       \* history: another task called for sleep in this pass ("since"),
              \* "before" it, or "never"

button  == <<sampled, debounced, edge, waiting, changed, long>>
tapping == <<taps, window, left>>
power   == <<idle, fed, inside>>
machine == <<fsm, queue>>
vars    == <<tick, raw, button, tapping, power, due, machine, pc, cur, slept>>

States   == {"idle", "moving", "undo", "caldelay", "calmove"}
Commands == {"START", "STOP", "UNDO", "CAL_PREP", "CAL_START", "CAL_END"}
Rebootable == {"idle", "caldelay", "calmove"}

-----------------------------------------------------------------------------
\* Where a feeding of the timer falls: the count may have moved on since the
\* inactivity check has read it.
Inside == CASE pc = "compare" -> {"level", "ahead"}
            [] pc = "enter"   -> {"level"}
            [] OTHER          -> {"no"}

\* rtc_reset_shutdown_timer, with soft_idle_exit in it.
Feed == idle' = FALSE /\ fed' = tick /\ inside' \in Inside

Refused(cmd) == cmd # "STOP" /\ idle

\* fsm_request.
Request(cmd) ==
  IF Refused(cmd) THEN UNCHANGED <<power, queue>>
  ELSE /\ Feed
       /\ queue' = IF Len(queue) < QueueLen THEN Append(queue, cmd) ELSE queue

NoRequest == UNCHANGED <<power, queue>>

\* A change is taken when the button was stable DEBOUNCE_MS ago.  A loop that
\* comes a little early finds less than that, but not twice.
Accepts(early) == waiting \/ ~early

\* i2c_poll_buttons.
Poll(early) ==
  /\ sampled' = raw
  /\ IF raw = debounced
       THEN edge' = FALSE /\ long' = FALSE /\ waiting' = FALSE /\ UNCHANGED <<debounced, changed>>
       ELSE IF Accepts(early)
              THEN /\ debounced' = raw /\ edge' = TRUE
                   /\ waiting' = FALSE /\ changed' = IF raw THEN tick ELSE 0
                   /\ long' = (debounced /\ tick - changed >= LongTicks)
              ELSE /\ edge' = FALSE /\ waiting' = TRUE /\ long' = FALSE
                   /\ UNCHANGED <<debounced, changed>>

Goto(place) == pc' = place

-----------------------------------------------------------------------------
\* soft_idle_is_active is tested; it may change right after.
Top ==
  /\ pc = "top"
  /\ Goto(IF idle THEN "asleep" ELSE "poll")
  /\ slept' = IF slept = "never" THEN slept ELSE "before"
  /\ UNCHANGED <<tick, raw, button, tapping, power, due, machine, cur>>

\* The soft idle branch.  A press wakes the device and is polled for its edge.
Wake(early) ==
  /\ pc = "asleep"
  /\ IF raw # sampled THEN Feed /\ Poll(early) ELSE UNCHANGED <<power, button>>
  /\ Goto("asleepAlarm")
  /\ UNCHANGED <<tick, raw, tapping, due, machine, cur, slept>>

\* Slip: the device is not woken for the alarm.
WakeAlarmStays == UNCHANGED power

\* soft_idle_exit.
WakeAlarm == IF idle THEN Feed ELSE UNCHANGED power

\* ... an alarm wakes it too, and waits up to 5 s for the radios.
SleepingAlarm ==
  /\ pc = "asleepAlarm"
  /\ IF due THEN WakeAlarm /\ Goto("wait")
            ELSE Goto("shut") /\ UNCHANGED power
  /\ UNCHANGED <<tick, raw, button, tapping, due, machine, cur, slept>>

RadiosUp ==
  /\ pc = "wait" /\ Goto("start")
  /\ UNCHANGED <<tick, raw, button, tapping, power, due, machine, cur, slept>>

\* The normal branch: the button and the state are read ...
PollButtons(early) ==
  /\ pc = "poll"
  /\ Poll(early)
  /\ IF debounced' THEN Feed ELSE UNCHANGED power
  /\ cur' = fsm
  /\ Goto("act")
  /\ UNCHANGED <<tick, raw, tapping, due, machine, slept>>

\* i2c_get_button_ms.
HeldFor  == IF debounced THEN tick - changed ELSE 0
Held     == debounced /\ HeldFor > HoldTicks
Pressed  == edge /\ debounced
Released == edge /\ ~debounced
Tap      == Released /\ HeldFor < LongTicks

\* What a press means in a state that is not STATE_IDLE.
Meaning ==
  CASE cur = "undo"     -> "STOP"
    [] cur = "caldelay" -> "CAL_START"
    [] cur = "calmove"  -> "CAL_END"
    [] OTHER            -> "UNDO"

\* Slip: taps are counted until there are three.
ExpiredNever(count, since) == FALSE

Expired(count, since) == count > 0 /\ tick - since > TapWindow

\* Slip: a fourth tap is waited for.
OneMore(count) == count > 3

Enough(count) == count >= 3

\* ... a tap is counted and three of them start a move ...
Tapped ==
  LET count == IF Tap THEN taps + 1 ELSE taps
      since == IF Tap /\ count = 1 THEN tick ELSE window
  IN  /\ cur = "idle"
      /\ IF Tap /\ Enough(count)
           THEN Request("START") /\ taps' = 0
           ELSE NoRequest /\ taps' = IF Expired(count, since) THEN 0 ELSE count
      /\ window' = IF taps' = 0 THEN 0 ELSE since
      /\ left' = (left /\ taps # 0)

\* ... a press answers any other state ...
Answered ==
  /\ cur # "idle"
  /\ IF Pressed THEN Request(Meaning) ELSE NoRequest
  /\ UNCHANGED tapping

Act ==
  /\ pc = "act" /\ ~(cur \in Rebootable /\ Held)
  /\ Tapped \/ Answered
  /\ Goto("alarm")
  /\ UNCHANGED <<tick, raw, button, due, fsm, cur, slept>>

\* ... and holding the button in some states restarts the chip after a blink.
Reboot ==
  /\ pc = "act" /\ cur \in Rebootable /\ Held
  /\ Goto("reboot")
  /\ UNCHANGED <<tick, raw, button, tapping, power, due, machine, cur, slept>>

Alarm ==
  /\ pc = "alarm"
  /\ Goto(IF due THEN "start" ELSE "shut")
  /\ cur' = "idle"
  /\ UNCHANGED <<tick, raw, button, tapping, power, due, machine, slept>>

\* fsm_request(FSM_CMD_START), and the alarm is moved on.
StartMove ==
  /\ pc = "start"
  /\ Request("START")
  /\ due' = FALSE
  /\ Goto("shut")
  /\ UNCHANGED <<tick, raw, button, tapping, fsm, cur, slept>>

\* rtc_check_shutdown_timer reads the tick count, then last_activity_tick,
\* subtracts them as unsigned numbers, and calls soft_idle_enter.  Any task may
\* act between these.
ReadTick ==
  /\ pc = "shut"
  /\ Goto("compare")
  /\ UNCHANGED <<tick, raw, button, tapping, power, due, machine, cur, slept>>

\* Slip: the timer is measured from the start.
ElapsedSinceBoot == tick

\* The stamp may be a millisecond, here a tick, ahead of the count.
Elapsed == (tick - fed - (IF inside = "ahead" THEN 1 ELSE 0)) % Range

CheckTimer ==
  /\ pc = "compare"
  /\ Goto(IF Elapsed >= Timeout THEN "enter" ELSE "done")
  /\ UNCHANGED <<tick, raw, button, tapping, power, due, machine, cur, slept>>

\* A sleep that overtakes a feeding of the timer is one that was called for.
FallAsleep ==
  /\ pc = "enter" /\ Goto("done")
  /\ idle' = TRUE
  /\ left' = (left \/ inside # "no")
  /\ UNCHANGED <<tick, raw, button, taps, window, fed, inside, due, machine, cur, slept>>

-----------------------------------------------------------------------------
\* The next period.  A pass is short, but for the wait for the radios and the
\* blink; a period may end in the middle of it.  The clock may come to the alarm.
Tick ==
  /\ tick < MaxTicks
  /\ pc \in {"done", "wait", "reboot"}
  /\ tick' = tick + 1
  /\ pc' = IF pc = "done" THEN "top" ELSE pc
  /\ due' \in {due, TRUE}
  /\ UNCHANGED <<raw, button, tapping, power, machine, cur, slept>>

\* The button is pressed or released between two passes.
Press ==
  /\ pc \in {"done", "wait"}
  /\ raw' = ~raw
  /\ UNCHANGED <<tick, button, tapping, power, due, machine, pc, cur, slept>>

\* Other tasks: soft_idle_enter, rtc_reset_shutdown_timer and commands.
Sleep ==
  /\ "sleep" \in OtherActs
  /\ idle' = TRUE /\ slept' = "since" /\ left' = TRUE
  /\ UNCHANGED <<tick, raw, button, taps, window, fed, inside, due, machine, pc, cur>>

Activity ==
  /\ "activity" \in OtherActs
  /\ Feed
  /\ UNCHANGED <<tick, raw, button, tapping, due, machine, pc, cur, slept>>

Command(cmd) ==
  /\ Request(cmd)
  /\ UNCHANGED <<tick, raw, button, tapping, due, fsm, pc, cur, slept>>

OtherCommands == OtherActs \cap Commands

Others ==
  \/ Sleep \/ Activity
  \/ \E cmd \in OtherCommands : Command(cmd)

\* What a command does to the state machine.
After(state, cmd) ==
  CASE cmd = "STOP"                              -> "idle"
    [] cmd = "START" /\ state = "idle"           -> "moving"
    [] cmd = "UNDO" /\ state # "idle"            -> "undo"
    [] cmd = "CAL_PREP" /\ state = "idle"        -> "caldelay"
    [] cmd = "CAL_START" /\ state = "caldelay"   -> "calmove"
    [] cmd = "CAL_END" /\ state = "calmove"      -> "idle"
    [] OTHER                                     -> state

Receive ==
  /\ queue # << >>
  /\ fsm' = After(fsm, Head(queue)) /\ queue' = Tail(queue)
  /\ left' = (left \/ fsm' # "idle")
  /\ UNCHANGED <<tick, raw, button, taps, window, power, due, pc, cur, slept>>

\* A move, an undo or a calibration comes to its end by itself.
Finish ==
  /\ fsm \in {"moving", "undo", "calmove"}
  /\ fsm' = "idle"
  /\ UNCHANGED <<tick, raw, button, tapping, power, due, queue, pc, cur, slept>>

-----------------------------------------------------------------------------
Init ==
  /\ tick = 0 /\ raw \in BOOLEAN
  /\ sampled = FALSE /\ debounced = FALSE /\ edge = FALSE
  /\ waiting = FALSE /\ changed = 0 /\ long = FALSE
  /\ taps = 0 /\ window = 0 /\ left = FALSE
  /\ idle = FALSE /\ fed = 0 /\ inside = "no" /\ due = FALSE
  /\ fsm = "idle" /\ queue = << >>
  /\ pc = "top" /\ cur = "idle" /\ slept = "never"

Loop ==
  \/ Top \/ SleepingAlarm \/ Act \/ Reboot \/ Alarm \/ StartMove
  \/ RadiosUp \/ ReadTick \/ CheckTimer \/ FallAsleep
  \/ \E early \in BOOLEAN : Wake(early) \/ PollButtons(early)

Next == Loop \/ Tick \/ Press \/ Others \/ Receive \/ Finish

Spec == Init /\ [][Next]_vars

-----------------------------------------------------------------------------
TypeOK ==
  /\ {tick, changed, window, fed} \subseteq 0..MaxTicks
  /\ {raw, sampled, debounced, edge, waiting, long, idle, due, left} \subseteq BOOLEAN
  /\ taps \in 0..2
  /\ fsm \in States /\ cur \in States
  /\ queue \in Seq(Commands) /\ Len(queue) <= QueueLen
  /\ pc \in {"top", "asleep", "asleepAlarm", "poll", "act", "reboot", "alarm",
             "wait", "start", "shut", "compare", "enter", "done"}
  /\ slept \in {"never", "before", "since"}
  /\ inside \in {"no", "level", "ahead"}

TapStarts == pc = "act" /\ cur = "idle" /\ ~Held /\ Tap /\ taps = 2
Fresh     == tick - window <= TapWindow + 1

(***************************************************************************)
(* Three taps start a move only if they were made within the 2 s window    *)
(* and one period of the loop, unless a move or soft idle came between.    *)
(***************************************************************************)
ThreeTapsInTime == TapStarts => Fresh \/ left

(***************************************************************************)
(* The same of every start by taps: what is left of a count from before a  *)
(* move does not combine with the press that stops it.                     *)
(***************************************************************************)
TapsAreFresh == TapStarts => Fresh

(***************************************************************************)
(* "Triple-tap to start (count on release, ignore long presses)": a press  *)
(* of a second or more is not counted when the button is let go.           *)
(***************************************************************************)
LongPressIgnored == [][pc = "act" /\ Released /\ long => taps' <= taps]_vars

(***************************************************************************)
(* The inactivity timer lets nobody in use fall asleep: without a call for *)
(* sleep, a sleeping device was last fed INACTIVITY_TIMEOUT_S ago, and no  *)
(* request, press or alarm leaves it asleep -- unless that feeding came    *)
(* between the reading of the tick count and the end of soft_idle_enter.   *)
(***************************************************************************)
InUseStaysAwake == (idle /\ slept = "never" /\ inside = "no") => tick - fed >= Timeout

(***************************************************************************)
(* "Unsigned subtraction handles TickType_t (uint32_t) wraparound          *)
(* correctly" (rtc_check_shutdown_timer): the difference reaches the       *)
(* timeout only when nothing has fed the timer for that long.              *)
(***************************************************************************)
TimerIsPatient == (pc = "compare" /\ Elapsed >= Timeout) => tick - fed >= Timeout

(***************************************************************************)
(* The START of an alarm is not lost to soft idle: the device is awake     *)
(* when it is sent, unless another task called for sleep in the same pass. *)
(***************************************************************************)
AlarmIsHeard == pc = "start" /\ slept # "since" => ~Refused("START")

(***************************************************************************)
(* "Alarm wake: must immediately issue FSM_CMD_START": when the wait for   *)
(* the radios is over the START is not refused, whoever called for sleep   *)
(* meanwhile.                                                              *)
(***************************************************************************)
AlarmIsAlwaysHeard == [][pc = "wait" /\ pc' = "start" => ~Refused("START")]_vars
=============================================================================
