---------------------------- MODULE MainLoopProofs ----------------------------
(***************************************************************************)
(* Proofs about the main loop, for behaviours of any length, any timeout   *)
(* and windows, and any acts of the other tasks.                           *)
(***************************************************************************)
EXTENDS MainLoop, TLAPS

Ticks == 0..MaxTicks

TypeInv ==
  /\ tick \in Ticks /\ changed \in Ticks /\ window \in Ticks
  /\ fed \in Ticks
  /\ raw \in BOOLEAN /\ sampled \in BOOLEAN /\ debounced \in BOOLEAN
  /\ edge \in BOOLEAN /\ waiting \in BOOLEAN /\ long \in BOOLEAN
  /\ idle \in BOOLEAN /\ due \in BOOLEAN /\ left \in BOOLEAN
  /\ taps \in 0..2
  /\ fsm \in States /\ cur \in States
  /\ queue \in Seq(Commands) /\ Len(queue) <= QueueLen
  /\ inside \in {"no", "level", "ahead"}

Places == {"top", "asleep", "asleepAlarm", "poll", "act", "reboot", "alarm",
           "wait", "start", "shut", "compare", "enter", "done"}

PlaceInv == pc \in Places /\ slept \in {"never", "before", "since"}

LEMMA Typed == TypeOK <=> TypeInv /\ PlaceInv
  BY DEF TypeOK, TypeInv, PlaceInv, Places, Ticks

LEMMA Constants ==
  /\ MaxTicks \in Nat /\ Timeout \in Nat /\ TapWindow \in Nat
  /\ HoldTicks \in Nat /\ LongTicks \in Nat /\ QueueLen \in Nat
  /\ Range \in Nat /\ Range > MaxTicks
  /\ OtherActs \subseteq {"sleep", "activity", "START", "CAL_PREP"}
  BY MainLoopAssumption

LEMMA Zero == 0 \in Ticks
  BY Constants DEF Ticks

\* The inputs of every request and poll keep the types of what they write.
LEMMA FeedTyped ==
  ASSUME TypeInv, Feed
  PROVE  idle' \in BOOLEAN /\ fed' \in Ticks /\ inside' \in {"no", "level", "ahead"}
  BY DEF Feed, Inside, TypeInv

LEMMA RequestTyped ==
  ASSUME TypeInv, NEW cmd \in Commands, Request(cmd)
  PROVE  /\ idle' \in BOOLEAN /\ fed' \in Ticks /\ inside' \in {"no", "level", "ahead"}
         /\ queue' \in Seq(Commands) /\ Len(queue') <= QueueLen
<1>1. CASE Refused(cmd)
  BY <1>1 DEF Request, power, TypeInv
<1>2. CASE ~Refused(cmd)
  <2>1. Feed
    BY <1>2 DEF Request
  <2>2. CASE Len(queue) < QueueLen
    <3>1. queue' = Append(queue, cmd)
      BY <1>2, <2>2 DEF Request
    <3>2. QED
      BY <2>1, <2>2, <3>1, FeedTyped, Constants DEF TypeInv
  <2>3. CASE ~(Len(queue) < QueueLen)
    <3>1. queue' = queue
      BY <1>2, <2>3 DEF Request
    <3>2. QED
      BY <2>1, <3>1, FeedTyped DEF TypeInv
  <2>4. QED
    BY <2>2, <2>3
<1>3. QED
  BY <1>1, <1>2

LEMMA PollTyped ==
  ASSUME TypeInv, NEW early \in BOOLEAN, Poll(early)
  PROVE  /\ sampled' \in BOOLEAN /\ debounced' \in BOOLEAN /\ edge' \in BOOLEAN
         /\ waiting' \in BOOLEAN /\ long' \in BOOLEAN /\ changed' \in Ticks
<1>1. CASE raw = debounced
  BY <1>1 DEF Poll, TypeInv
<1>2. CASE raw # debounced /\ Accepts(early)
  <2>1. /\ debounced' = raw /\ edge' = TRUE /\ waiting' = FALSE
        /\ changed' = (IF raw THEN tick ELSE 0)
        /\ long' = (debounced /\ tick - changed >= LongTicks) /\ sampled' = raw
    BY <1>2 DEF Poll
  <2>2. changed' \in Ticks
    BY <2>1, Zero DEF TypeInv
  <2>3. long' \in BOOLEAN
    BY <2>1
  <2>4. QED
    BY <2>1, <2>2, <2>3 DEF TypeInv
<1>3. CASE raw # debounced /\ ~Accepts(early)
  BY <1>3 DEF Poll, TypeInv
<1>4. QED
  BY <1>1, <1>2, <1>3

LEMMA MeaningIsCommand == Meaning \in Commands
  BY DEF Meaning, Commands

LEMMA AfterIsState ==
  ASSUME NEW state \in States, NEW cmd \in Commands
  PROVE  After(state, cmd) \in States
  BY DEF After, States, Commands

LEMMA TapTyped ==
  ASSUME TypeInv, Tapped
  PROVE  /\ idle' \in BOOLEAN /\ fed' \in Ticks /\ inside' \in {"no", "level", "ahead"}
         /\ queue' \in Seq(Commands) /\ Len(queue') <= QueueLen
         /\ taps' \in 0..2 /\ window' \in Ticks /\ left' \in BOOLEAN
<1> DEFINE count == IF Tap THEN taps + 1 ELSE taps
           since == IF Tap /\ count = 1 THEN tick ELSE window
<1>1. /\ IF Tap /\ Enough(count)
           THEN Request("START") /\ taps' = 0
           ELSE NoRequest /\ taps' = IF Expired(count, since) THEN 0 ELSE count
      /\ window' = IF taps' = 0 THEN 0 ELSE since
      /\ left' = (left /\ taps # 0)
  BY DEF Tapped
<1>2. count \in 0..3 /\ since \in Ticks
  BY DEF TypeInv
<1>3. taps' \in 0..2
  <2>1. ~Tap => count \in 0..2
    BY DEF TypeInv
  <2>2. ~Enough(count) => count \in 0..2
    BY <1>2 DEF Enough
  <2>3. QED
    BY <1>1, <2>1, <2>2
<1>4. window' \in Ticks /\ left' \in BOOLEAN
  BY <1>1, <1>2, Constants DEF TypeInv, Ticks
<1>5. CASE Request("START")
  BY <1>3, <1>4, <1>5, RequestTyped DEF Commands
<1>6. CASE NoRequest
  BY <1>3, <1>4, <1>6 DEF NoRequest, power, TypeInv
<1>7. QED
  BY <1>1, <1>5, <1>6

-----------------------------------------------------------------------------
LEMMA TypeSteps == TypeInv /\ PlaceInv /\ [Next]_vars => TypeInv'
<1> SUFFICES ASSUME TypeInv, PlaceInv, [Next]_vars PROVE TypeInv'
  OBVIOUS
<1>1. CASE Top
  BY <1>1 DEF Top, TypeInv, button, tapping, power, machine
<1>2. CASE SleepingAlarm
  BY <1>2, FeedTyped DEF SleepingAlarm, WakeAlarm, TypeInv, button, tapping, power, machine
<1>3. CASE Act
  <2>1. CASE Tapped
    BY <1>3, <2>1, TapTyped DEF Act, TypeInv, button
  <2>2. CASE Answered
    <3>1. CASE Request(Meaning)
      BY <1>3, <2>2, <3>1, RequestTyped, MeaningIsCommand
         DEF Act, Answered, TypeInv, button, tapping
    <3>2. CASE NoRequest
      BY <1>3, <2>2, <3>2 DEF Act, Answered, NoRequest, TypeInv, button, tapping, power
    <3>3. QED
      BY <2>2, <3>1, <3>2 DEF Answered
  <2>3. QED
    BY <1>3, <2>1, <2>2 DEF Act
<1>4. CASE Reboot \/ RadiosUp \/ ReadTick
  BY <1>4 DEF Reboot, RadiosUp, ReadTick, TypeInv, button, tapping, power, machine
<1>5. CASE Alarm
  BY <1>5 DEF Alarm, States, TypeInv, button, tapping, power, machine
<1>6. CASE StartMove
  BY <1>6, RequestTyped DEF StartMove, Commands, TypeInv, button, tapping
<1>7. CASE CheckTimer \/ FallAsleep
  <2>1. CASE CheckTimer
    BY <2>1 DEF CheckTimer, TypeInv, button, tapping, power, machine
  <2>2. CASE FallAsleep
    <3>1. left' \in BOOLEAN
      BY <2>2 DEF FallAsleep
    <3>2. QED
      BY <2>2, <3>1 DEF FallAsleep, TypeInv, button, machine
  <2>3. QED
    BY <1>7, <2>1, <2>2
<1>8. ASSUME NEW early \in BOOLEAN, Wake(early) \/ PollButtons(early) PROVE TypeInv'
  <2>1. CASE Wake(early)
    BY <1>8, <2>1, FeedTyped, PollTyped DEF Wake, TypeInv, button, tapping, power, machine
  <2>2. CASE PollButtons(early)
    BY <1>8, <2>2, FeedTyped, PollTyped DEF PollButtons, TypeInv, tapping, power, machine
  <2>3. QED
    BY <1>8, <2>1, <2>2
<1>9. CASE Tick
  <2>1. tick' \in Ticks
    BY <1>9, Constants DEF Tick, TypeInv, Ticks
  <2>2. QED
    BY <1>9, <2>1 DEF Tick, TypeInv, button, tapping, power, machine
<1>10. CASE Press
  BY <1>10 DEF Press, TypeInv, button, tapping, power, machine
<1>11. CASE Sleep \/ Activity
  BY <1>11, FeedTyped DEF Sleep, Activity, TypeInv, button, tapping, machine
<1>12. ASSUME NEW cmd \in OtherCommands, Command(cmd) PROVE TypeInv'
  <2>1. cmd \in Commands
    BY DEF OtherCommands
  <2>2. QED
    BY <1>12, <2>1, RequestTyped DEF Command, TypeInv, button, tapping
<1>13. CASE Receive
  <2>1. Head(queue) \in Commands /\ Tail(queue) \in Seq(Commands)
        /\ Len(Tail(queue)) <= Len(queue)
    BY <1>13 DEF Receive, TypeInv
  <2>2. fsm' \in States
    BY <1>13, <2>1, AfterIsState DEF Receive, TypeInv
  <2>3. queue' \in Seq(Commands) /\ Len(queue') <= QueueLen
    BY <1>13, <2>1, Constants DEF Receive, TypeInv
  <2>4. QED
    BY <1>13, <2>2, <2>3 DEF Receive, TypeInv, button, power
<1>14. CASE Finish
  BY <1>14 DEF Finish, States, TypeInv, button, tapping, power
<1>15. CASE UNCHANGED vars
  BY <1>15 DEF vars, TypeInv, button, tapping, power, machine
<1>16. QED
  BY <1>1, <1>2, <1>3, <1>4, <1>5, <1>6, <1>7, <1>8, <1>9, <1>10, <1>11, <1>12,
     <1>13, <1>14, <1>15 DEF Next, Loop, Others

LEMMA PlaceSteps == PlaceInv /\ [Next]_vars => PlaceInv'
<1> SUFFICES ASSUME PlaceInv, [Next]_vars PROVE PlaceInv'
  OBVIOUS
<1>1. CASE Loop
  <2>1. CASE Top \/ SleepingAlarm \/ Act \/ Reboot \/ Alarm
    BY <2>1 DEF Top, SleepingAlarm, Act, Reboot, Alarm, Goto, PlaceInv, Places
  <2>2. CASE StartMove \/ RadiosUp \/ ReadTick \/ CheckTimer \/ FallAsleep
    BY <2>2 DEF StartMove, RadiosUp, ReadTick, CheckTimer, FallAsleep, Goto,
                PlaceInv, Places
  <2>3. ASSUME NEW early \in BOOLEAN, Wake(early) \/ PollButtons(early)
        PROVE  PlaceInv'
    BY <2>3 DEF Wake, PollButtons, Goto, PlaceInv, Places
  <2>4. QED
    BY <1>1, <2>1, <2>2, <2>3 DEF Loop
<1>2. CASE Tick \/ Press \/ Receive \/ Finish
  BY <1>2 DEF Tick, Press, Receive, Finish, Goto, PlaceInv, Places
<1>3. CASE Others
  BY <1>3 DEF Others, Sleep, Activity, Command, PlaceInv, Places
<1>4. CASE UNCHANGED vars
  BY <1>4 DEF vars, PlaceInv
<1>5. QED
  BY <1>1, <1>2, <1>3, <1>4 DEF Next

LEMMA Starts == Init => TypeInv /\ PlaceInv
<1> SUFFICES ASSUME Init PROVE TypeInv /\ PlaceInv
  OBVIOUS
<1>1. queue \in Seq(Commands) /\ Len(queue) <= QueueLen
  BY Constants DEF Init
<1>2. TypeInv
  <2>1. tick \in Ticks /\ changed \in Ticks /\ window \in Ticks /\ fed \in Ticks
        /\ taps \in 0..2 /\ inside \in {"no", "level", "ahead"}
    BY Zero DEF Init
  <2>2. fsm \in States /\ cur \in States
    BY DEF Init, States
  <2>3. /\ raw \in BOOLEAN /\ sampled \in BOOLEAN /\ debounced \in BOOLEAN
        /\ edge \in BOOLEAN /\ waiting \in BOOLEAN /\ long \in BOOLEAN
        /\ idle \in BOOLEAN /\ due \in BOOLEAN /\ left \in BOOLEAN
    BY DEF Init
  <2>4. QED
    BY <1>1, <2>1, <2>2, <2>3 DEF TypeInv
<1>3. PlaceInv
  BY DEF Init, PlaceInv, Places
<1>4. QED
  BY <1>2, <1>3

(***************************************************************************)
(* The variables of the loop keep their types: a tick count never leaves   *)
(* its bound, the queue of the state machine never overflows, and the loop *)
(* never holds three taps.                                                 *)
(***************************************************************************)
THEOREM TypeCorrect == Spec => []TypeOK
<1>1. TypeInv /\ PlaceInv /\ [Next]_vars => TypeInv' /\ PlaceInv'
  BY TypeSteps, PlaceSteps
<1>2. QED
  BY <1>1, Starts, Typed, PTL DEF Spec

LEMMA InvTyped == Spec => [](TypeInv /\ PlaceInv)
  BY TypeSteps, PlaceSteps, Starts, PTL DEF Spec

-----------------------------------------------------------------------------
\* A request leaves the device as it was, or awake.
LEMMA RequestWakes ==
  ASSUME NEW cmd, Request(cmd)
  PROVE  UNCHANGED power \/ Feed
  BY DEF Request

\* Whatever the main loop does between the poll and the alarm leaves an awake
\* device awake.
LEMMA ActWakes ==
  ASSUME Act
  PROVE  UNCHANGED power \/ Feed
<1>1. CASE Tapped
  BY <1>1, RequestWakes DEF Tapped, NoRequest
<1>2. CASE Answered
  BY <1>2, RequestWakes DEF Answered, NoRequest
<1>3. QED
  BY <1>1, <1>2 DEF Act

\* From the poll, or the wake for an alarm, to the START the device is awake.
HeardInv ==
  pc \in {"poll", "act", "alarm", "wait", "start"} /\ slept # "since" => ~idle

LEMMA HeardSteps == TypeInv /\ HeardInv /\ [Next]_vars => HeardInv'
<1> SUFFICES ASSUME TypeInv, HeardInv, [Next]_vars PROVE HeardInv'
  OBVIOUS
<1>1. CASE Loop
  <2>1. CASE Top
    BY <2>1 DEF Top, Goto, HeardInv, power
  <2>2. CASE SleepingAlarm
    BY <2>2 DEF SleepingAlarm, WakeAlarm, Feed, Goto, HeardInv, power
  <2>3. CASE Act
    BY <2>3, ActWakes DEF Act, Feed, Goto, HeardInv, power
  <2>4. CASE Reboot \/ Alarm \/ RadiosUp \/ ReadTick \/ CheckTimer \/ FallAsleep
    BY <2>4 DEF Reboot, Alarm, RadiosUp, ReadTick, CheckTimer, FallAsleep, Goto,
                HeardInv, power
  <2>5. CASE StartMove
    BY <2>5 DEF StartMove, Goto, HeardInv
  <2>6. ASSUME NEW early \in BOOLEAN, Wake(early) PROVE HeardInv'
    BY <2>6 DEF Wake, Goto, HeardInv
  <2>7. ASSUME NEW early \in BOOLEAN, PollButtons(early) PROVE HeardInv'
    BY <2>7 DEF PollButtons, Feed, Goto, HeardInv, power
  <2>8. QED
    BY <1>1, <2>1, <2>2, <2>3, <2>4, <2>5, <2>6, <2>7 DEF Loop
<1>2. CASE Tick \/ Press \/ Receive \/ Finish
  BY <1>2 DEF Tick, Press, Receive, Finish, HeardInv, power
<1>3. CASE Others
  <2>1. CASE Sleep \/ Activity
    BY <2>1 DEF Sleep, Activity, Feed, HeardInv
  <2>2. ASSUME NEW cmd \in OtherCommands, Command(cmd) PROVE HeardInv'
    BY <2>2, RequestWakes DEF Command, Feed, HeardInv, power
  <2>3. QED
    BY <1>3, <2>1, <2>2 DEF Others
<1>4. CASE UNCHANGED vars
  BY <1>4 DEF vars, power, HeardInv
<1>5. QED
  BY <1>1, <1>2, <1>3, <1>4 DEF Next

(***************************************************************************)
(* The START of an alarm is never refused by the soft idle gate of         *)
(* fsm_request, unless another task called for sleep in the same pass.     *)
(***************************************************************************)
THEOREM AlarmsAreHeard == Spec => []AlarmIsHeard
<1>1. Init => HeardInv
  BY DEF Init, HeardInv
<1>2. HeardInv => AlarmIsHeard
  BY DEF HeardInv, AlarmIsHeard, Refused
<1>3. QED
  BY <1>1, <1>2, HeardSteps, InvTyped, PTL DEF Spec

-----------------------------------------------------------------------------
\* last_activity_tick is never ahead of the count the timer compares it with, but
\* for a feeding inside rtc_check_shutdown_timer, and without one the loop goes to
\* soft_idle_enter only when it is INACTIVITY_TIMEOUT_S behind.
TimerInv ==
  /\ fed <= tick
  /\ pc = "enter" /\ inside = "no" => tick - fed >= Timeout
  /\ idle /\ slept = "never" /\ inside = "no" => tick - fed >= Timeout

LEMMA TickTypes ==
  ASSUME TypeInv
  PROVE  /\ tick \in Nat /\ fed \in Nat /\ window \in Nat
         /\ tick <= MaxTicks
  BY Constants DEF TypeInv, Ticks

LEMMA NoWrap ==
  ASSUME NEW n \in Nat, n < Range
  PROVE  n % Range = n
  BY Constants

\* The subtraction does not wrap when the timer was not fed after the reading.
LEMMA ElapsedIs ==
  ASSUME TypeInv, fed <= tick, inside = "no"
  PROVE  Elapsed = tick - fed
<1>1. tick - fed \in Nat /\ tick - fed < Range
  BY TickTypes, Constants
<1>2. Elapsed = (tick - fed) % Range
  BY TickTypes DEF Elapsed
<1>3. QED
  BY <1>1, <1>2, NoWrap

\* A feeding that counts as one outside the inactivity check is none inside it.
LEMMA FeedPlace ==
  ASSUME Feed, inside' = "no"
  PROVE  pc \notin {"compare", "enter"}
  BY DEF Feed, Inside

\* Feeding the timer keeps what is known of it.
LEMMA FeedKeeps ==
  ASSUME TypeInv, TimerInv, UNCHANGED power \/ Feed, tick' = tick,
         slept' = slept, pc' = "enter" => pc = "enter"
  PROVE  TimerInv'
<1>1. CASE UNCHANGED power
  BY <1>1, TickTypes, Constants DEF TimerInv, power
<1>2. CASE Feed
  <2>1. fed' = tick /\ ~idle'
    BY <1>2 DEF Feed
  <2>2. inside' = "no" => pc' # "enter"
    BY <1>2, FeedPlace
  <2>3. QED
    BY <2>1, <2>2, TickTypes DEF TimerInv
<1>3. QED
  BY <1>1, <1>2

LEMMA TimerSteps == TypeInv /\ TimerInv /\ [Next]_vars => TimerInv'
<1> SUFFICES ASSUME TypeInv, TimerInv, [Next]_vars PROVE TimerInv'
  OBVIOUS
<1> USE TickTypes, Constants
<1>1. CASE Loop
  <2>1. CASE Top
    <3>1. slept' = "never" => slept = "never"
      BY <2>1 DEF Top
    <3>2. pc' # "enter" /\ tick' = tick /\ UNCHANGED power
      BY <2>1 DEF Top, Goto
    <3>3. QED
      BY <3>1, <3>2 DEF TimerInv, power
  <2>2. CASE SleepingAlarm
    <3>1. UNCHANGED power \/ Feed
      BY <2>2 DEF SleepingAlarm, WakeAlarm
    <3>2. QED
      BY <2>2, <3>1, FeedKeeps DEF SleepingAlarm, Goto
  <2>3. CASE Act
    BY <2>3, ActWakes, FeedKeeps DEF Act, Goto
  <2>4. CASE Reboot \/ Alarm \/ RadiosUp
    BY <2>4, FeedKeeps DEF Reboot, Alarm, RadiosUp, Goto
  <2>5. CASE StartMove
    BY <2>5, RequestWakes, FeedKeeps DEF StartMove, Goto
  <2>6. CASE ReadTick
    BY <2>6, FeedKeeps DEF ReadTick, Goto
  <2>7. CASE CheckTimer
    <3>1. /\ pc' = "enter" => Elapsed >= Timeout
          /\ tick' = tick /\ slept' = slept /\ UNCHANGED power
      BY <2>7 DEF CheckTimer, Goto
    <3>2. pc' = "enter" /\ inside = "no" => tick - fed >= Timeout
      BY <3>1, ElapsedIs DEF TimerInv
    <3>3. QED
      BY <3>1, <3>2 DEF TimerInv, power
  <2>8. CASE FallAsleep
    BY <2>8 DEF FallAsleep, Goto, TimerInv
  <2>9. ASSUME NEW early \in BOOLEAN, Wake(early) \/ PollButtons(early)
        PROVE  TimerInv'
    BY <2>9, FeedKeeps DEF Wake, PollButtons, Goto
  <2>10. QED
    BY <1>1, <2>1, <2>2, <2>3, <2>4, <2>5, <2>6, <2>7, <2>8, <2>9 DEF Loop
<1>2. CASE Tick
  <2>1. tick' = tick + 1 /\ pc' # "enter" /\ UNCHANGED <<power, slept>>
    BY <1>2 DEF Tick
  <2>2. QED
    BY <2>1 DEF TimerInv, power
<1>3. CASE Press \/ Receive \/ Finish
  BY <1>3 DEF Press, Receive, Finish, TimerInv, power
<1>4. CASE Others
  <2>1. CASE Sleep
    BY <2>1 DEF Sleep, TimerInv
  <2>2. CASE ~Sleep
    <3>1. UNCHANGED power \/ Feed
      BY <1>4, <2>2, RequestWakes DEF Others, Activity, Command
    <3>2. UNCHANGED <<tick, slept, pc>>
      BY <1>4, <2>2 DEF Others, Activity, Command
    <3>3. QED
      BY <3>1, <3>2, FeedKeeps
  <2>3. QED
    BY <2>1, <2>2
<1>5. CASE UNCHANGED vars
  BY <1>5 DEF vars, power, TimerInv
<1>6. QED
  BY <1>1, <1>2, <1>3, <1>4, <1>5 DEF Next

LEMMA TimerHolds == Spec => [](TypeInv /\ TimerInv)
<1>1. Init => TimerInv
  BY Constants DEF Init, TimerInv
<1>2. QED
  BY <1>1, TimerSteps, InvTyped, PTL DEF Spec

(***************************************************************************)
(* A device that no other task put to sleep is asleep only when nothing    *)
(* fed its timer for INACTIVITY_TIMEOUT_S, or when it was last fed between *)
(* the reading of the tick count and the end of soft_idle_enter: whatever  *)
(* the other tasks do, and at every point of the pass.                     *)
(***************************************************************************)
THEOREM InUseIsAwake == Spec => []InUseStaysAwake
<1>1. TimerInv => InUseStaysAwake
  BY DEF TimerInv, InUseStaysAwake
<1>2. QED
  BY <1>1, TimerHolds, PTL

-----------------------------------------------------------------------------
\* Taps are given up before an untouched device falls asleep.
Prompt == TapWindow < Timeout

\* The press of a tap that is counted on top of another came after the first
\* release, and fed the timer.
PressInv ==
  /\ window <= tick
  /\ taps # 0 /\ (debounced \/ taps = 2 \/ (pc = "act" /\ edge)) => window <= fed

\* What the pass has seen still holds, or "left" tells it does not.
PassInv ==
  /\ pc \in {"poll", "act"} => left \/ ~idle
  /\ pc = "act" /\ cur = "idle" => left \/ fsm = "idle"

Counting == taps = 2 /\ ~left

\* While two taps are counted and nothing came between, every pass looks at them.
CountInv ==
  Counting =>
    /\ fsm = "idle" /\ ~idle
    /\ pc \notin {"asleep", "asleepAlarm", "wait"}
    /\ pc = "act" => cur = "idle"
    /\ pc \in {"top", "poll", "act"} => tick - window <= TapWindow + 1
    /\ pc \in {"alarm", "start", "shut", "compare", "enter", "done"} =>
         tick - window <= TapWindow

TapInv == PressInv /\ PassInv /\ CountInv

\* What a pass in STATE_IDLE does to the taps: two that are left are inside the
\* window of the first, and a first one opens it.
LEMMA TapsCounted ==
  ASSUME TypeInv, Tapped
  PROVE  /\ taps' # 0 => tick - window' <= TapWindow
         /\ taps' = 2 => taps # 0 /\ window' = window /\ (taps = 2 \/ Tap)
         /\ taps' = 1 => \/ Tap /\ taps = 0 /\ window' = tick
                         \/ taps = 1 /\ window' = window
         /\ taps' = 0 => window' = 0
         /\ left' = (left /\ taps # 0)
<1> DEFINE count == IF Tap THEN taps + 1 ELSE taps
           since == IF Tap /\ count = 1 THEN tick ELSE window
<1>1. /\ taps' = 0 \/ (taps' = count /\ ~Expired(count, since))
      /\ window' = IF taps' = 0 THEN 0 ELSE since
      /\ left' = (left /\ taps # 0)
  BY DEF Tapped
<1>2. taps \in 0..2 /\ count \in 0..3
  BY DEF TypeInv
<1>3. ASSUME taps' # 0
      PROVE  taps' = count /\ window' = since /\ tick - since <= TapWindow
  <2>1. tick - since \in Int
    BY TickTypes
  <2>2. QED
    BY <1>1, <1>2, <1>3, <2>1, Constants DEF Expired
<1>4. QED
  BY <1>1, <1>2, <1>3

\* A poll that finds the button pressed feeds the timer, and one that finds it
\* released was preceded by one that found it pressed.
LEMMA PollSees ==
  ASSUME TypeInv, NEW early, Poll(early)
  PROVE  edge' /\ ~debounced' => debounced
  BY DEF Poll, TypeInv

LEMMA PressSteps ==
  ASSUME TypeInv, TimerInv, PressInv, [Next]_vars
  PROVE  PressInv'
<1> USE TickTypes, Constants
<1>1. ASSUME UNCHANGED <<button, taps, window>>, tick' >= tick, tick' \in Nat,
             UNCHANGED power \/ (Feed /\ tick' = tick), pc' # "act" \/ pc' = pc
      PROVE  PressInv'
  BY <1>1 DEF PressInv, TimerInv, Feed, power, button
<1>2. CASE Loop
  <2>1. CASE Top \/ Reboot \/ Alarm \/ RadiosUp \/ ReadTick \/ CheckTimer
    BY <2>1, <1>1 DEF Top, Reboot, Alarm, RadiosUp, ReadTick, CheckTimer, Goto, tapping
  <2>2. CASE SleepingAlarm
    <3>1. UNCHANGED power \/ Feed
      BY <2>2 DEF SleepingAlarm, WakeAlarm, Feed, power, TypeInv
    <3>2. QED
      BY <2>2, <3>1, <1>1 DEF SleepingAlarm, Goto, tapping
  <2>3. CASE StartMove
    BY <2>3, RequestWakes, <1>1 DEF StartMove, Goto, tapping
  <2>4. CASE FallAsleep
    BY <2>4 DEF FallAsleep, Goto, PressInv, button, tapping
  <2>5. CASE Act
    <3>1. UNCHANGED button /\ pc = "act" /\ pc' = "alarm" /\ tick' = tick
      BY <2>5 DEF Act, Goto
    <3>2. CASE Answered
      BY <2>5, <3>1, <3>2, ActWakes, <1>1 DEF Answered, tapping
    <3>3. CASE Tapped
      <4>1. fed <= fed' /\ fed' \in Nat
        <5>1. fed' = fed \/ fed' = tick
          BY <2>5, ActWakes DEF Feed, power
        <5>2. fed <= tick
          BY DEF TimerInv
        <5>3. QED
          BY <5>1, <5>2
      <4>2. Tap => edge /\ ~debounced
        BY DEF Tap, Released
      <4>3. window' <= tick'
        <5>1. taps' \in 0..2
          BY <3>3, TapTyped
        <5>2. window' = 0 \/ window' = tick \/ window' = window
          BY <3>3, <5>1, TapsCounted
        <5>3. QED
          BY <3>1, <5>2 DEF PressInv
      <4>4. taps' = 2 => window' <= fed'
        BY <3>1, <3>3, <4>1, <4>2, TapsCounted DEF PressInv
      <4>5. taps' = 1 /\ debounced' => window' <= fed'
        BY <3>1, <3>3, <4>1, <4>2, TapsCounted DEF PressInv, button
      <4>6. taps' \in 0..2
        BY <3>3, TapTyped
      <4>7. QED
        BY <3>1, <4>3, <4>4, <4>5, <4>6 DEF PressInv
    <3>4. QED
      BY <2>5, <3>2, <3>3 DEF Act
  <2>6. ASSUME NEW early \in BOOLEAN, Wake(early) PROVE PressInv'
    <3>1. CASE raw # sampled
      <4>1. fed' = tick /\ tick' = tick /\ pc' # "act" /\ UNCHANGED <<taps, window>>
        BY <2>6, <3>1 DEF Wake, Feed, Goto, tapping
      <4>2. QED
        BY <4>1 DEF PressInv
    <3>2. CASE raw = sampled
      BY <2>6, <3>2, <1>1 DEF Wake, Goto, tapping
    <3>3. QED
      BY <3>1, <3>2
  <2>7. ASSUME NEW early \in BOOLEAN, PollButtons(early) PROVE PressInv'
    <3>1. tick' = tick /\ UNCHANGED <<taps, window>>
      BY <2>7 DEF PollButtons, tapping
    <3>2. CASE debounced'
      BY <2>7, <3>1, <3>2 DEF PollButtons, Feed, PressInv
    <3>3. CASE ~debounced'
      <4>1. fed' = fed /\ (edge' => debounced)
        BY <2>7, <3>3, PollSees DEF PollButtons, power
      <4>2. QED
        BY <3>1, <3>3, <4>1 DEF PressInv
    <3>4. QED
      BY <3>2, <3>3
  <2>8. QED
    BY <1>2, <2>1, <2>2, <2>3, <2>4, <2>5, <2>6, <2>7 DEF Loop
<1>3. CASE Tick
  <2>1. pc' # "act"
    BY <1>3 DEF Tick
  <2>2. QED
    BY <1>3, <2>1, <1>1 DEF Tick, tapping
<1>4. CASE Press \/ Finish
  BY <1>4, <1>1 DEF Press, Finish, tapping
<1>5. CASE Receive
  BY <1>5, <1>1 DEF Receive
<1>6. CASE Others
  <2>1. CASE Sleep
    BY <2>1 DEF Sleep, PressInv, button
  <2>2. CASE Activity
    BY <2>2, <1>1 DEF Activity, tapping
  <2>3. ASSUME NEW cmd \in OtherCommands, Command(cmd) PROVE PressInv'
    BY <2>3, <1>1, RequestWakes DEF Command, tapping
  <2>4. QED
    BY <1>6, <2>1, <2>2, <2>3 DEF Others
<1>7. CASE UNCHANGED vars
  BY <1>7, <1>1 DEF vars, tapping
<1>8. QED
  BY <1>2, <1>3, <1>4, <1>5, <1>6, <1>7 DEF Next

LEMMA PassSteps ==
  ASSUME TypeInv, PassInv, [Next]_vars
  PROVE  PassInv'
<1>1. CASE Loop
  <2>1. CASE Top
    BY <2>1 DEF Top, Goto, PassInv, power
  <2>2. CASE SleepingAlarm \/ Act \/ Reboot \/ Alarm \/ StartMove
    BY <2>2 DEF SleepingAlarm, Act, Reboot, Alarm, StartMove, Goto, PassInv
  <2>3. CASE RadiosUp \/ ReadTick \/ CheckTimer \/ FallAsleep
    BY <2>3 DEF RadiosUp, ReadTick, CheckTimer, FallAsleep, Goto, PassInv
  <2>4. ASSUME NEW early \in BOOLEAN, Wake(early) PROVE PassInv'
    BY <2>4 DEF Wake, Goto, PassInv
  <2>5. ASSUME NEW early \in BOOLEAN, PollButtons(early) PROVE PassInv'
    BY <2>5 DEF PollButtons, Feed, Goto, PassInv, power, machine, tapping
  <2>6. QED
    BY <1>1, <2>1, <2>2, <2>3, <2>4, <2>5 DEF Loop
<1>2. CASE Tick
  BY <1>2 DEF Tick, PassInv, tapping, power, machine
<1>3. CASE Press \/ Finish
  BY <1>3 DEF Press, Finish, PassInv, tapping, power, machine
<1>4. CASE Receive
  BY <1>4 DEF Receive, PassInv, power, TypeInv
<1>5. CASE Others
  <2>1. CASE Sleep \/ Activity
    BY <2>1 DEF Sleep, Activity, Feed, PassInv, tapping, machine
  <2>2. ASSUME NEW cmd \in OtherCommands, Command(cmd) PROVE PassInv'
    BY <2>2, RequestWakes DEF Command, Feed, PassInv, tapping, power
  <2>3. QED
    BY <1>5, <2>1, <2>2 DEF Others
<1>6. CASE UNCHANGED vars
  BY <1>6 DEF vars, PassInv, tapping, power, machine
<1>7. QED
  BY <1>1, <1>2, <1>3, <1>4, <1>5, <1>6 DEF Next

LEMMA CountSteps ==
  ASSUME Prompt, TypeInv, PlaceInv, TimerInv, TapInv, [Next]_vars
  PROVE  CountInv'
<1> USE TickTypes, Constants
<1> SUFFICES ASSUME Counting'
             PROVE  /\ fsm' = "idle" /\ ~idle'
                    /\ pc' \notin {"asleep", "asleepAlarm", "wait"}
                    /\ pc' = "act" => cur' = "idle"
                    /\ pc' \in {"top", "poll", "act"} => tick' - window' <= TapWindow + 1
                    /\ pc' \in {"alarm", "start", "shut", "compare", "enter", "done"} =>
                         tick' - window' <= TapWindow
  BY DEF CountInv
<1>1. CASE Tapped /\ Act
  <2>1. /\ pc = "act" /\ pc' = "alarm" /\ tick' = tick /\ fsm' = fsm /\ cur = "idle"
    BY <1>1 DEF Act, Tapped, Goto
  <2>2. taps # 0 /\ ~left /\ tick - window' <= TapWindow
    BY <1>1, TapsCounted DEF Counting, TypeInv
  <2>3. ~idle /\ fsm = "idle"
    BY <2>1, <2>2 DEF TapInv, PassInv
  <2>4. ~idle'
    BY <1>1, <2>3, ActWakes DEF Feed, power
  <2>5. QED
    BY <2>1, <2>2, <2>3, <2>4
<1>2. CASE ~(Tapped /\ Act)
  <2>1. (taps' = taps /\ window' = window /\ left' = left) \/ Sleep \/ Receive
    <3>1. CASE Loop
      <4>1. CASE Act
        BY <1>2, <4>1 DEF Act, Answered, tapping
      <4>2. CASE Top \/ SleepingAlarm \/ Reboot \/ Alarm \/ StartMove
        BY <4>2 DEF Top, SleepingAlarm, Reboot, Alarm, StartMove, tapping
      <4>3. CASE RadiosUp \/ ReadTick \/ CheckTimer
        BY <4>3 DEF RadiosUp, ReadTick, CheckTimer, tapping
      <4>5. CASE FallAsleep
        BY <4>5 DEF FallAsleep, Counting, TypeInv
      <4>4. ASSUME NEW early \in BOOLEAN, Wake(early) \/ PollButtons(early)
            PROVE  taps' = taps /\ window' = window /\ left' = left
        BY <4>4 DEF Wake, PollButtons, tapping
      <4>6. QED
        BY <3>1, <4>1, <4>2, <4>3, <4>4, <4>5 DEF Loop
    <3>2. CASE Tick \/ Press \/ Finish
      BY <3>2 DEF Tick, Press, Finish, tapping
    <3>3. CASE Others
      BY <3>3 DEF Others, Activity, Command, tapping
    <3>4. CASE UNCHANGED vars
      BY <3>4 DEF vars, tapping
    <3>5. QED
      BY <3>1, <3>2, <3>3, <3>4 DEF Next
  <2>2. taps = 2 /\ ~left /\ window' = window /\ ~Sleep
    <3>1. ~Sleep
      BY DEF Sleep, Counting
    <3>2. Receive => taps' = taps /\ window' = window /\ ~left
      BY DEF Receive, Counting
    <3>3. QED
      BY <2>1, <3>1, <3>2 DEF Counting
  <2>3. /\ fsm = "idle" /\ ~idle
        /\ pc \notin {"asleep", "asleepAlarm", "wait"}
        /\ pc = "act" => cur = "idle"
        /\ pc \in {"top", "poll", "act"} => tick - window <= TapWindow + 1
        /\ pc \in {"alarm", "start", "shut", "compare", "enter", "done"} =>
             tick - window <= TapWindow
    BY <2>2 DEF TapInv, CountInv, Counting
  <2>4. ~FallAsleep
    <3>1. window <= fed
      BY <2>2 DEF TapInv, PressInv
    <3>2. FallAsleep => pc = "enter" /\ inside = "no"
      BY DEF FallAsleep, Counting
    <3>3. FallAsleep => tick - fed >= Timeout /\ tick - window <= TapWindow
      BY <2>3, <3>2 DEF TimerInv
    <3>4. QED
      BY <3>1, <3>3 DEF Prompt
  <2>5. CASE Loop
    <3>1. CASE Top
      BY <2>2, <2>3, <3>1 DEF Top, Goto, power, machine
    <3>2. CASE SleepingAlarm \/ RadiosUp \/ FallAsleep
      BY <2>3, <2>4, <3>2 DEF SleepingAlarm, RadiosUp
    <3>3. CASE Act
      BY <1>2, <2>3, <3>3 DEF Act, Answered
    <3>4. CASE Reboot \/ Alarm \/ ReadTick \/ CheckTimer
      BY <2>2, <2>3, <3>4 DEF Reboot, Alarm, ReadTick, CheckTimer, Goto, power, machine
    <3>5. CASE StartMove
      BY <2>2, <2>3, <3>5, RequestWakes DEF StartMove, Feed, Goto, power
    <3>6. ASSUME NEW early \in BOOLEAN, Wake(early) PROVE FALSE
      BY <2>3, <3>6 DEF Wake
    <3>7. ASSUME NEW early \in BOOLEAN, PollButtons(early)
          PROVE  /\ fsm' = "idle" /\ cur' = "idle" /\ ~idle' /\ pc' = "act"
                 /\ tick' = tick /\ tick - window <= TapWindow + 1
      BY <2>2, <2>3, <3>7 DEF PollButtons, Feed, Goto, power, machine
    <3>8. QED
      BY <2>2, <2>5, <3>1, <3>2, <3>3, <3>4, <3>5, <3>6, <3>7 DEF Loop
  <2>6. CASE Tick
    <3>1. pc \in {"done", "reboot"}
      BY <2>3, <2>6 DEF Tick
    <3>2. /\ (pc' = "top" /\ tick - window <= TapWindow) \/ pc' = "reboot"
          /\ tick' = tick + 1 /\ fsm' = fsm /\ idle' = idle
      BY <2>3, <2>6, <3>1 DEF Tick, power, machine
    <3>3. QED
      BY <2>2, <2>3, <3>2
  <2>7. CASE Press \/ Finish
    BY <2>2, <2>3, <2>7 DEF Press, Finish, power, machine
  <2>8. CASE Receive
    <3>1. fsm' = "idle"
      BY <2>8 DEF Receive, Counting
    <3>2. QED
      BY <2>2, <2>3, <2>8, <3>1 DEF Receive, power
  <2>9. CASE Others
    <3>1. UNCHANGED power \/ Feed
      BY <2>2, <2>9, RequestWakes DEF Others, Activity, Command
    <3>2. UNCHANGED <<tick, fsm, pc, cur>>
      BY <2>2, <2>9 DEF Others, Activity, Command, machine
    <3>3. ~idle'
      BY <2>3, <3>1 DEF Feed, power
    <3>4. QED
      BY <2>2, <2>3, <3>2, <3>3
  <2>10. CASE UNCHANGED vars
    BY <2>2, <2>3, <2>10 DEF vars, power, machine
  <2>11. QED
    BY <2>5, <2>6, <2>7, <2>8, <2>9, <2>10 DEF Next
<1>3. QED
  BY <1>1, <1>2

(***************************************************************************)
(* A third tap starts a move only when the first was made within the tap   *)
(* window and a period of the loop, unless STATE_IDLE was left or sleep    *)
(* called for in between: as long as an untouched device stays awake for   *)
(* longer than taps are counted.                                           *)
(***************************************************************************)
THEOREM TapsAreInTime ==
  ASSUME TapWindow < Timeout
  PROVE  Spec => []ThreeTapsInTime
<1>1. Spec => [](TypeInv /\ TimerInv)
  BY TimerHolds
<1>2. Init => TapInv
  <2>1. Init => PressInv
    BY Constants DEF Init, PressInv
  <2>2. Init => PassInv /\ CountInv
    BY DEF Init, PassInv, CountInv, Counting
  <2>3. QED
    BY <2>1, <2>2 DEF TapInv
<1>3. TypeInv /\ PlaceInv /\ TimerInv /\ TapInv /\ [Next]_vars => TapInv'
  <2> SUFFICES ASSUME TypeInv, PlaceInv, TimerInv, TapInv, [Next]_vars PROVE TapInv'
    OBVIOUS
  <2>1. PressInv'
    BY PressSteps DEF TapInv
  <2>2. PassInv'
    BY PassSteps DEF TapInv
  <2>3. CountInv'
    BY CountSteps DEF Prompt
  <2>4. QED
    BY <2>1, <2>2, <2>3 DEF TapInv
<1>4. TapInv => ThreeTapsInTime
  BY DEF TapInv, CountInv, Counting, ThreeTapsInTime, TapStarts, Fresh
<1>5. QED
  BY <1>1, <1>2, <1>3, <1>4, InvTyped, PTL DEF Spec
=============================================================================
