------------------------------ MODULE ControlFsm ------------------------------
(***************************************************************************)
(* The 20 ms tick of control_task (src/main/control_fsm.c): the inputs, the *)
(* command queue, the state machine of a move, the relay outputs and the    *)
(* jack position estimate, with the plant they drive and the tasks that     *)
(* send commands and jogs between any two steps of the tick.                *)
(*                                                                          *)
(* Time is counted in ticks.  A time stamp of the code is modelled by its   *)
(* distance to fsm_now: what is left of timer_end and of override_time, the *)
(* age of jack_start_us and off_us.  The device is awake, outside bring-up. *)
(***************************************************************************)
EXTENDS RelayLogic, Sequences

CONSTANTS
  Cmds, Jogs, Pulses, NewDists, \* what is sent: commands, jogs with their
                                \* deadman times, values for remaining_distance
  Senders, MaxRequests, MaxJogs,\* bounds: jogging tasks, how much is sent
  QueueLen,                     \* length of fsm_cmd_queue
  TransitionTicks,              \* TRANSITION_DELAY_US
  GapTicks,                     \* 2 * EFUSE_INRUSH_US
  JackPre, JackTime, JackMax,   \* JACK_PRE_TIME, JACK_TIME, JACK_MAX_TIME
  FluffTicks, DriveTicks,       \* FLUFF_PREDRIVE_MS, DRIVE_TIME per foot
  CalJackTicks, CalDriveTicks,  \* CALIBRATE_JACK_MAX_TIME, .._DRIVE_MAX_TIME
  CoolTimes,                    \* from a trip to its release: EFUSE_TCOOL, or
                                \* longer while there is heat to shed
  DriveDist,                    \* DRIVE_DIST, one encoder count per foot
  \* the plant
  StartDists, StartHeights,     \* remaining distance and jack height at boot
  JackTop,                      \* where the jack's spindle ends
  EncSteps, EncCap,             \* counts per tick driven; bound of the counter
  FusesThatTrip, Engagement,    \* e-fuses; whether the jack meets its load
  SafetyMoves, LowBattery       \* whether the loop moves; battery readings

Commands ==
  {"START", "STOP", "UNDO", "CAL_JACK_PREP", "CAL_JACK_START", "CAL_JACK_END",
   "CAL_DRIVE_PREP", "CAL_DRIVE_START", "CAL_DRIVE_END"}

JogKinds ==
  {"DRIVE_FWD", "DRIVE_REV", "JACK_UP", "JACK_DOWN", "AUX",
   "JACK_UP_FORCE", "JACK_DOWN_FORCE"}

ASSUME SentAssumption ==
  /\ Cmds \subseteq Commands /\ Jogs \subseteq JogKinds
  /\ Pulses \subseteq Nat /\ NewDists \subseteq Nat
  /\ MaxRequests \in Nat /\ MaxJogs \in Nat /\ QueueLen \in Nat

ASSUME TimesAssumption ==
  /\ TransitionTicks \in Nat /\ GapTicks \in Nat /\ CoolTimes \subseteq Nat
  /\ JackPre \in Nat /\ JackTime \in Nat /\ JackMax \in Nat
  /\ FluffTicks \in Nat /\ DriveTicks \in Nat /\ DriveDist \in Nat
  /\ CalJackTicks \in Nat /\ CalDriveTicks \in Nat

ASSUME PlantAssumption ==
  /\ StartDists \subseteq Nat /\ JackTop \in Nat /\ StartHeights \subseteq 0..JackTop
  /\ EncSteps \subseteq Nat /\ EncCap \in Nat
  /\ FusesThatTrip \subseteq Bridges /\ Engagement \subseteq BOOLEAN
  /\ SafetyMoves \in BOOLEAN /\ LowBattery \subseteq BOOLEAN

VARIABLES
  pc,        \* where control_task is in its tick
  queue,     \* fsm_cmd_queue
  state,     \* current_state
  timer,     \* ticks left until timer_end
  error,     \* fsm_error
  moveDist,  \* this_move_dist
  remaining, \* remaining_distance
  startEnc,  \* move_start_encoder
  upAge,     \* ticks since jack_start_us, while the jack goes up
  upTicks,   \* jack_finish_us - jack_start_us; 0 while either is cleared
  cuts,      \* history: what the jack's e-fuse has cut short: a phase of this
             \* lift, or any retract
  jackPos,   \* jack_pos_us
  over,      \* override_cmd, and the ticks left until override_time
  last,      \* last_relay_state
  offAge,    \* ticks since isens[b].off_us
  isSafe,    \* is_safe
  efuse,     \* ticks until a tripped bridge has cooled; 0 is not tripped
  enc,       \* sensor_count[SENSOR_DRIVE]
  out,       \* the bridge relays as they are
  jack,      \* height of the jack; SENSOR_JACK is closed at 0
  arming,    \* what each task in arm_override is about to write
  requests, jogs,      \* how much has been sent
  pressLeft, \* history: ticks left to the last deadline of an accepted jog
  raced,     \* history: override changes between the two snapshots of a tick
  withheld,  \* history: ticks in which the driver withheld the jack's way down
  stopped    \* history: a STOP was obeyed, and no jog accepted since

move  == <<moveDist, remaining, startEnc>>
lift  == <<upAge, upTicks, cuts>>
machine == <<state, timer, error, move, lift>>
plant == <<isSafe, efuse, enc, out, jack>>
relay == <<last, offAge, withheld>>
physical == <<jackPos, relay, plant>>
jogging == <<over, arming, jogs, pressLeft, raced>>
vars == <<pc, queue, machine, physical, jogging, requests, stopped>>

\* A deadline is passed when fsm_now has reached it; what is left is then 0.
Left(t) == IF t > 0 THEN t - 1 ELSE 0

MinOf(a, b) == IF a < b THEN a ELSE b
MaxOf(a, b) == IF a < b THEN b ELSE a

Tripped(b) == efuse[b] > 0
JackHome   == jack = 0

-----------------------------------------------------------------------------
(***************************************************************************)
(* INPUTS.  With one current sensor only the biggest running bridge can     *)
(* trip its e-fuse.                                                         *)
(***************************************************************************)
Dominant ==
  CASE last["DRIVE"] # "OFF" -> {"DRIVE"}
    [] last["DRIVE"] = "OFF" /\ last["JACK"] # "OFF" -> {"JACK"}
    [] last["DRIVE"] = "OFF" /\ last["JACK"] = "OFF" /\ last["AUX"] # "OFF" -> {"AUX"}
    [] OTHER -> {}

\* process_bridge_current for all bridges: `trips` trip now, the others cool.
FusesNext(trips, cool) ==
  [b \in Bridges |-> IF b \in trips THEN cool ELSE Left(efuse[b])]

JackMoved ==
  CASE out["JACK"] = "FWD" -> MinOf(jack + 1, JackTop)
    [] out["JACK"] = "REV" -> Left(jack)
    [] OTHER -> jack

Break == isSafe /\ ~isSafe'

Tick ==
  /\ pc = "tick" /\ pc' = "commands"
  /\ timer' = Left(timer)
  /\ over'  = [over EXCEPT !.left = Left(over.left)]
  /\ arming' = [s \in Senders |->
                  [arming[s] EXCEPT !.left = Left(arming[s].left)]]
  /\ pressLeft' = Left(pressLeft)
  /\ upAge' = IF state \in {"JACK_UP_START", "JACK_UP"} THEN upAge + 1 ELSE upAge
  /\ offAge' = [b \in Bridges |-> Aged(offAge[b], GapTicks)]
  /\ \E trips \in SUBSET (Dominant \intersect FusesThatTrip), cool \in CoolTimes :
       efuse' = FusesNext(trips, cool)
  /\ jack' = JackMoved
  /\ \E step \in EncSteps :
       enc' = IF out["DRIVE"] = "OFF" THEN enc ELSE MinOf(enc + step, EncCap)
  /\ isSafe' \in IF SafetyMoves THEN BOOLEAN ELSE {isSafe}
  /\ out' = IF Break THEN AllOff ELSE out
  /\ UNCHANGED <<queue, state, error, move, upTicks, cuts, jackPos, last,
                 withheld, jogs, raced, requests, stopped>>

-----------------------------------------------------------------------------
(***************************************************************************)
(* COMMANDS.  One step takes one command from the queue.                    *)
(***************************************************************************)
Goto(s, t) == state' = s /\ timer' = t

\* fsm_check_start_preconditions: the first gate that fails.
StartFault(low) ==
  IF low THEN "LOW_BATTERY"
  ELSE IF ~isSafe THEN "SAFETY_TRIP"
  ELSE IF Tripped("DRIVE") THEN "EFUSE_TRIP_1"
  ELSE IF Tripped("JACK") THEN "EFUSE_TRIP_2"
  ELSE IF Tripped("AUX") THEN "EFUSE_TRIP_3"
  ELSE "OK"

StartCmd(low) ==
  \/ /\ remaining <= 0
     /\ error' = "TRAVEL_LIMIT"
     /\ UNCHANGED <<state, timer, moveDist, lift>>
  \/ /\ remaining > 0
     /\ moveDist' = MinOf(DriveDist, remaining)
     /\ \/ /\ state # "IDLE"
           /\ UNCHANGED <<state, timer, error, lift>>
        \/ /\ state = "IDLE"
           /\ error' = StartFault(low)
           /\ IF StartFault(low) = "OK"
                THEN /\ Goto("MOVE_START_DELAY", TransitionTicks)
                     /\ upAge' = 0 /\ upTicks' = 0 /\ UNCHANGED cuts
                ELSE UNCHANGED <<state, timer, lift>>

StopCmd ==
  /\ state' = "IDLE"
  /\ UNCHANGED <<timer, error, moveDist, lift>>

UndoCmd ==
  /\ state' = IF state = "IDLE" THEN "IDLE" ELSE "UNDO_JACK_START"
  /\ UNCHANGED <<timer, error, moveDist, lift>>

\* fsm_calibrate_transition, with the timer of the two START commands.
Calibrate(expected, next, t, batteryOk) ==
  /\ IF state = expected /\ batteryOk THEN Goto(next, t)
                                      ELSE UNCHANGED <<state, timer>>
  /\ UNCHANGED <<error, moveDist, lift>>

Receive(cmd, low) ==
  /\ pc = "commands" /\ queue # <<>> /\ cmd = Head(queue)
  /\ queue' = Tail(queue)
  /\ \/ cmd = "START" /\ StartCmd(low)
     \/ cmd = "STOP"  /\ StopCmd
     \/ cmd = "UNDO"  /\ UndoCmd
     \/ /\ cmd = "CAL_JACK_PREP"
        /\ Calibrate("IDLE", "CALIBRATE_JACK_DELAY", timer, ~low)
     \/ /\ cmd = "CAL_JACK_START"
        /\ Calibrate("CALIBRATE_JACK_DELAY", "CALIBRATE_JACK_MOVE", CalJackTicks, ~low)
     \/ /\ cmd = "CAL_JACK_END"
        /\ Calibrate("CALIBRATE_JACK_MOVE", "IDLE", timer, TRUE)
     \/ /\ cmd = "CAL_DRIVE_PREP"
        /\ Calibrate("IDLE", "CALIBRATE_DRIVE_DELAY", timer, ~low)
     \/ /\ cmd = "CAL_DRIVE_START"
        /\ Calibrate("CALIBRATE_DRIVE_DELAY", "CALIBRATE_DRIVE_MOVE", CalDriveTicks, ~low)
     \/ /\ cmd = "CAL_DRIVE_END"
        /\ Calibrate("CALIBRATE_DRIVE_MOVE", "IDLE", timer, TRUE)
  /\ enc' = IF state = "CALIBRATE_DRIVE_DELAY" /\ state' = "CALIBRATE_DRIVE_MOVE"
              THEN 0 ELSE enc
  /\ stopped' = (stopped \/ cmd = "STOP")
  /\ UNCHANGED <<pc, remaining, startEnc, jackPos, relay, isSafe, efuse, out,
                 jack, jogging, requests>>

-----------------------------------------------------------------------------
(***************************************************************************)
(* STATE TRANSITIONS, one action per state.  A state that finds the loop    *)
(* broken gives up the move.                                                *)
(***************************************************************************)
\* Slip: the recorded time of the jack going up is not used.
JackDownFixed(up) == (JackTime * 105) \div 100

\* _jack_down_time_us for a recorded time `up` of the jack going up.
JackDownTicks(up) == (MaxOf(up, JackTime) * 105) \div 100

Stay  == UNCHANGED <<machine, enc>>
Quiet == UNCHANGED <<error, lift, move, enc>>

\* The move is given up; the jack comes down once its e-fuse has cooled.
Fail(code, next, t) ==
  /\ error' = code
  /\ Goto(next, t)
  /\ UNCHANGED <<lift, move, enc>>

FailAndLower(code) == Fail(code, "UNDO_JACK_START", JackDownTicks(upTicks))

\* jack_finish_us = fsm_now.
JackFinished == upTicks' = upAge /\ UNCHANGED upAge

\* The e-fuse of the jack may be what ends a phase.
Cuts(phase) == cuts' = IF Tripped("JACK") THEN cuts \union {phase} ELSE cuts

LiftPhases == {"phase 1", "phase 2"}

\* Phase 1 of the jack begins: jack_start_us = fsm_now.
BeginJackUp ==
  /\ Goto("JACK_UP_START", JackPre)
  /\ upAge' = 0 /\ cuts' = cuts \ LiftPhases
  /\ UNCHANGED <<upTicks, error, move, enc>>

\* Slip: the one second pause before the move is not waited for.
MoveStartAtOnce ==
  /\ state = "MOVE_START_DELAY"
  /\ \/ ~isSafe /\ Fail("SAFETY_TRIP", "IDLE", timer)
     \/ isSafe /\ JackHome /\ BeginJackUp
     \/ isSafe /\ ~JackHome /\ Goto("MOVE_JACK_RETRACT", JackMax) /\ Quiet

MoveStartDelay ==
  /\ state = "MOVE_START_DELAY"
  /\ \/ ~isSafe /\ Fail("SAFETY_TRIP", "IDLE", timer)
     \/ isSafe /\ timer = 0 /\ JackHome /\ BeginJackUp
     \/ /\ isSafe /\ timer = 0 /\ ~JackHome
        /\ Goto("MOVE_JACK_RETRACT", JackMax)
        /\ Quiet
     \/ isSafe /\ timer > 0 /\ Stay

MoveJackRetract ==
  /\ state = "MOVE_JACK_RETRACT"
  /\ LET ends == JackHome \/ Tripped("JACK") \/ timer = 0
     IN  \/ ~isSafe /\ Fail("SAFETY_TRIP", "IDLE", timer)
         \/ /\ isSafe /\ ends
            /\ Goto("MOVE_JACK_SETTLE", TransitionTicks)
            /\ Cuts("retract")
            /\ UNCHANGED <<upAge, upTicks, error, move, enc>>
         \/ isSafe /\ ~ends /\ Stay

\* Slips: the pause after the retract is not waited for; nor the loop looked at.
MoveJackUnsettled ==
  /\ state = "MOVE_JACK_SETTLE"
  /\ \/ ~isSafe /\ Fail("SAFETY_TRIP", "IDLE", timer)
     \/ isSafe /\ BeginJackUp

MoveJackSettleUnsafe ==
  /\ state = "MOVE_JACK_SETTLE"
  /\ IF timer = 0 THEN BeginJackUp ELSE Stay

MoveJackSettle ==
  /\ state = "MOVE_JACK_SETTLE"
  /\ \/ ~isSafe /\ Fail("SAFETY_TRIP", "IDLE", timer)
     \/ isSafe /\ timer = 0 /\ BeginJackUp
     \/ isSafe /\ timer > 0 /\ Stay

\* Slip: one tick past the ceiling.
PastCeiling == jackPos > JackMax

AtCeiling == jackPos >= JackMax

JackRaised ==
  /\ Goto("DRIVE_START_DELAY", TransitionTicks)
  /\ JackFinished
  /\ UNCHANGED <<error, move, enc>>

\* Slip: phase 1 goes straight to the drive.
JackUpOnePhase(engaged) ==
  /\ state = "JACK_UP_START"
  /\ LET ends == Tripped("JACK") \/ engaged \/ timer = 0 \/ AtCeiling
     IN  \/ ~isSafe /\ Fail("SAFETY_TRIP", "UNDO_JACK_START", timer)
         \/ isSafe /\ ends /\ JackRaised /\ UNCHANGED cuts
         \/ isSafe /\ ~ends /\ Stay

\* `engaged`: get_bridge_overcurrent has seen the jack meet its load.
JackUpStart(engaged) ==
  /\ state = "JACK_UP_START"
  /\ LET ends == Tripped("JACK") \/ engaged \/ timer = 0
     IN  \/ /\ ~isSafe
            /\ error' = "SAFETY_TRIP"
            /\ Goto("UNDO_JACK_START", timer)
            /\ JackFinished
            /\ UNCHANGED <<move, cuts, enc>>
         \/ isSafe /\ AtCeiling /\ JackRaised /\ UNCHANGED cuts
         \/ /\ isSafe /\ ~AtCeiling /\ ends
            /\ Goto("JACK_UP", JackTime)
            /\ Cuts("phase 1")
            /\ UNCHANGED <<upAge, upTicks, error, move, enc>>
         \/ isSafe /\ ~AtCeiling /\ ~ends /\ Stay

JackUp ==
  /\ state = "JACK_UP"
  /\ LET ends == timer = 0 \/ Tripped("JACK") \/ AtCeiling
     IN  \/ /\ ~isSafe
            /\ error' = "SAFETY_TRIP"
            /\ Goto("UNDO_JACK_START", JackDownTicks(upAge))
            /\ JackFinished
            /\ UNCHANGED <<move, cuts, enc>>
         \/ isSafe /\ ends /\ JackRaised /\ Cuts("phase 2")
         \/ isSafe /\ ~ends /\ Stay

DriveStartDelay ==
  /\ state = "DRIVE_START_DELAY"
  /\ \/ ~isSafe /\ FailAndLower("SAFETY_TRIP")
     \/ isSafe /\ timer = 0 /\ Goto("DRIVE_FLUFF_START", FluffTicks) /\ Quiet
     \/ isSafe /\ timer > 0 /\ Stay

\* Slip: the encoder target is the configured distance, not that of this move.
BeginFullDrive ==
  /\ Goto("DRIVE", DriveTicks * moveDist)
  /\ enc' = -DriveDist /\ startEnc' = -DriveDist
  /\ UNCHANGED <<error, lift, moveDist, remaining>>

BeginDrive ==
  /\ Goto("DRIVE", DriveTicks * moveDist)
  /\ enc' = -moveDist /\ startEnc' = -moveDist
  /\ UNCHANGED <<error, lift, moveDist, remaining>>

DriveFluffStart ==
  /\ state = "DRIVE_FLUFF_START"
  /\ \/ ~isSafe /\ FailAndLower("SAFETY_TRIP")
     \/ isSafe /\ Tripped("AUX") /\ FailAndLower("EFUSE_TRIP_3")
     \/ /\ isSafe /\ ~Tripped("AUX") /\ timer = 0
        /\ BeginDrive
     \/ isSafe /\ ~Tripped("AUX") /\ timer > 0 /\ Stay

\* Slip: the distance is deducted, the state is not left.
DriveTrippedOn ==
  /\ remaining' = MaxOf(0, remaining - (enc - startEnc))
  /\ error' = "EFUSE_TRIP_1"
  /\ UNCHANGED <<state, timer, lift, moveDist, startEnc, enc>>

\* A fault costs the distance really driven.
DriveTripped ==
  /\ remaining' = MaxOf(0, remaining - (enc - startEnc))
  /\ error' = "EFUSE_TRIP_1"
  /\ Goto("UNDO_JACK_START", JackDownTicks(upTicks))
  /\ UNCHANGED <<lift, moveDist, startEnc, enc>>

\* A completed move costs the distance that was planned.
DriveDone ==
  /\ remaining' = remaining - moveDist
  /\ Goto("DRIVE_END_DELAY", TransitionTicks)
  /\ UNCHANGED <<error, lift, moveDist, startEnc, enc>>

Drive ==
  /\ state = "DRIVE"
  /\ LET ends == timer = 0 \/ enc > 0
     IN  \/ ~isSafe /\ FailAndLower("SAFETY_TRIP")
         \/ isSafe /\ Tripped("DRIVE") /\ DriveTripped
         \/ isSafe /\ ~Tripped("DRIVE") /\ ends /\ DriveDone
         \/ isSafe /\ ~Tripped("DRIVE") /\ ~ends /\ Stay

DriveEndDelay ==
  /\ state = "DRIVE_END_DELAY"
  /\ \/ ~isSafe /\ FailAndLower("SAFETY_TRIP")
     \/ isSafe /\ timer = 0 /\ Goto("JACK_DOWN", JackDownTicks(upTicks)) /\ Quiet
     \/ isSafe /\ timer > 0 /\ Stay

JackDown ==
  /\ state = "JACK_DOWN"
  /\ IF Tripped("JACK") \/ JackHome \/ timer = 0
       THEN Goto("IDLE", timer) /\ Quiet
       ELSE Stay

\* Slip: waits for the fuse of the motor that is running.
UndoWaitsForAux ==
  /\ state = "UNDO_JACK_START"
  /\ IF Tripped("AUX") THEN Stay
                       ELSE Goto("JACK_DOWN", JackDownTicks(upTicks)) /\ Quiet

UndoJackStart ==
  /\ state = "UNDO_JACK_START"
  /\ IF Tripped("JACK") THEN Stay
                        ELSE Goto("JACK_DOWN", JackDownTicks(upTicks)) /\ Quiet

CalibrateJackMove ==
  /\ state = "CALIBRATE_JACK_MOVE"
  /\ IF timer = 0 THEN Goto("IDLE", timer) /\ Quiet ELSE Stay

CalibrateDriveMove ==
  /\ state = "CALIBRATE_DRIVE_MOVE"
  /\ IF ~isSafe \/ timer = 0 THEN Goto("IDLE", timer) /\ Quiet ELSE Stay

Waiting ==
  /\ state \in {"IDLE", "CALIBRATE_JACK_DELAY", "CALIBRATE_DRIVE_DELAY"}
  /\ Stay

Transition ==
  \/ MoveStartDelay \/ MoveJackRetract \/ MoveJackSettle
  \/ (\E engaged \in Engagement : JackUpStart(engaged)) \/ JackUp
  \/ DriveStartDelay \/ DriveFluffStart \/ Drive \/ DriveEndDelay
  \/ JackDown \/ UndoJackStart \/ CalibrateJackMove \/ CalibrateDriveMove
  \/ Waiting

Decide ==
  /\ pc = "commands" /\ queue = <<>>
  /\ pc' = "outputs"
  /\ Transition
  /\ UNCHANGED <<queue, jackPos, relay, isSafe, efuse, out, jack, jogging,
                 requests, stopped>>

-----------------------------------------------------------------------------
(***************************************************************************)
(* OUTPUTS and TRACKING, each with its own snapshot of the override.        *)
(***************************************************************************)
Raising  == {"JACK_UP_START", "JACK_UP", "CALIBRATE_JACK_MOVE"}
Lowering == {"MOVE_JACK_RETRACT", "JACK_DOWN"}
Driving  == {"DRIVE", "CALIBRATE_DRIVE_MOVE"}
Fluffing == {"DRIVE_FLUFF_START", "UNDO_JACK_START", "DRIVE_END_DELAY"}

JackDownJogs == {"JACK_DOWN", "JACK_DOWN_FORCE"}

\* The port of an armed override in STATE_IDLE.
Jogged(cmd) ==
  CASE cmd = "DRIVE_FWD" /\ ~Tripped("DRIVE") -> Energize("FWD", "OFF", "FWD")
    [] cmd = "DRIVE_REV" /\ ~Tripped("DRIVE") -> Energize("REV", "OFF", "OFF")
    [] cmd = "JACK_UP" /\ ~Tripped("JACK") /\ ~AtCeiling -> Energize("OFF", "FWD", "OFF")
    [] cmd = "JACK_UP_FORCE" /\ ~Tripped("JACK") -> Energize("OFF", "FWD", "OFF")
    [] cmd = "JACK_DOWN" /\ ~Tripped("JACK") /\ ~JackHome -> Energize("OFF", "REV", "OFF")
    [] cmd = "JACK_DOWN_FORCE" /\ ~Tripped("JACK") -> Energize("OFF", "REV", "OFF")
    [] cmd = "AUX" /\ ~Tripped("AUX") -> Energize("OFF", "OFF", "FWD")
    [] OTHER -> AllOff

\* Slip: an override that has reached its deadline still counts.
JogLiveAtDeadline == over.left >= 0

JogLive == over.left > 0

Wanted ==
  CASE state \in Raising  -> Energize("OFF", "FWD", "OFF")
    [] state \in Lowering -> Energize("OFF", "REV", "OFF")
    [] state \in Driving  -> Energize("FWD", "OFF", "FWD")
    [] state \in Fluffing -> Energize("OFF", "OFF", "FWD")
    [] state = "IDLE" /\ JogLive -> Jogged(over.cmd)
    [] OTHER -> AllOff

\* drive_relays: transition logic, interlock, write.
Relays(req) ==
  [b \in Bridges |-> IF b = "DRIVE" /\ ~isSafe THEN "OFF"
                     ELSE Granted(last[b], req[b], offAge[b], GapTicks)]

SetOutputs ==
  /\ pc = "outputs" /\ pc' = "track"
  /\ last' = Relays(Wanted)
  /\ out'  = Relays(Wanted)
  /\ offAge' = [b \in Bridges |->
                  IF StampsOff(last[b], Wanted[b]) THEN 0 ELSE offAge[b]]
  /\ withheld' = IF Wanted["JACK"] = "REV" /\ Relays(Wanted)["JACK"] # "REV"
                   THEN withheld + 1 ELSE withheld
  /\ UNCHANGED <<queue, machine, jackPos, isSafe, efuse, enc, jack, jogging,
                 requests, stopped>>

\* The direction the tracking code believes the jack is going in.
JackDir ==
  LET jogged == state = "IDLE" /\ JogLive /\ ~Tripped("JACK")
  IN  CASE state \in Raising -> "FWD"
        [] state \in Lowering -> "REV"
        [] jogged /\ over.cmd = "JACK_UP" /\ ~AtCeiling -> "FWD"
        [] jogged /\ over.cmd = "JACK_UP_FORCE" -> "FWD"
        [] jogged /\ over.cmd \in JackDownJogs -> "REV"
        [] OTHER -> "OFF"

Track ==
  /\ pc = "track" /\ pc' = "tick"
  /\ jackPos' = IF JackHome THEN 0
                ELSE CASE JackDir = "FWD" -> jackPos + 1
                       [] JackDir = "REV" -> Left(jackPos)
                       [] OTHER -> jackPos
  /\ UNCHANGED <<queue, machine, relay, plant, jogging, requests, stopped>>

-----------------------------------------------------------------------------
(***************************************************************************)
(* THE OTHER TASKS.                                                         *)
(***************************************************************************)
\* fsm_request: a full queue swallows the command.
Request(cmd) ==
  /\ requests < MaxRequests
  /\ requests' = requests + 1
  /\ \/ Len(queue) < QueueLen /\ queue' = Append(queue, cmd)
     \/ Len(queue) = QueueLen /\ UNCHANGED queue
  /\ UNCHANGED <<pc, machine, physical, jogging, stopped>>

NoJog == [cmd |-> "none", left |-> 0]

\* arm_override up to its critical section: the test of the state and the
\* deadline, from the tick's fsm_now.
ArmBegin(s, cmd, pulse) ==
  /\ arming[s] = NoJog /\ jogs < MaxJogs
  /\ state = "IDLE"
  /\ jogs' = jogs + 1
  /\ arming' = [arming EXCEPT ![s] = [cmd |-> cmd, left |-> pulse]]
  /\ pressLeft' = MaxOf(pressLeft, pulse)
  /\ stopped' = FALSE
  /\ UNCHANGED <<pc, queue, machine, physical, over, raced, requests>>

\* Its critical section.
ArmEnd(s) ==
  /\ arming[s] # NoJog
  /\ over' = arming[s]
  /\ arming' = [arming EXCEPT ![s] = NoJog]
  /\ raced' = IF pc = "track" THEN raced + 1 ELSE raced
  /\ UNCHANGED <<pc, queue, machine, physical, jogs, pressLeft, requests, stopped>>

StopOverride ==
  /\ over.left > 0
  /\ over' = [over EXCEPT !.left = 0]
  /\ raced' = IF pc = "track" THEN raced + 1 ELSE raced
  /\ UNCHANGED <<pc, queue, machine, physical, arming, jogs, pressLeft, requests,
                 stopped>>

\* fsm_set_remaining_distance, counted against the same bound as commands.
SetRemaining(dist) ==
  /\ requests < MaxRequests
  /\ requests' = requests + 1
  /\ remaining' = dist
  /\ UNCHANGED <<pc, queue, state, timer, error, moveDist, startEnc, lift,
                 physical, jogging, stopped>>

-----------------------------------------------------------------------------
(***************************************************************************)
(* Power-on.  The estimate of the jack is 0 wherever the jack is.           *)
(***************************************************************************)
Init ==
  /\ pc = "tick" /\ queue = <<>> /\ state = "IDLE" /\ timer = 0 /\ error = "OK"
  /\ moveDist = 0 /\ remaining \in StartDists /\ startEnc = 0
  /\ upAge = 0 /\ upTicks = 0 /\ cuts = {}
  /\ jackPos = 0 /\ jack \in StartHeights
  /\ over = [cmd |-> "DRIVE_FWD", left |-> 0]
  /\ last = AllOff /\ out = AllOff
  /\ offAge = [b \in Bridges |-> GapTicks + 1]
  /\ isSafe = TRUE
  /\ efuse = [b \in Bridges |-> 0]
  /\ enc = 0
  /\ arming = [s \in Senders |-> NoJog]
  /\ requests = 0 /\ jogs = 0 /\ pressLeft = 0 /\ raced = 0
  /\ withheld = 0 /\ stopped = FALSE

Control ==
  \/ Tick
  \/ \E cmd \in Cmds, low \in LowBattery : Receive(cmd, low)
  \/ Decide
  \/ SetOutputs
  \/ Track

Others ==
  \/ \E cmd \in Cmds : Request(cmd)
  \/ \E s \in Senders, cmd \in Jogs, pulse \in Pulses : ArmBegin(s, cmd, pulse)
  \/ \E s \in Senders : ArmEnd(s)
  \/ StopOverride
  \/ \E dist \in NewDists : SetRemaining(dist)

Next == Control \/ Others

\* vTaskDelayUntil brings the task round every 20 ms, at a priority above the
\* tasks that send; the task watchdog resets the chip when it does not come.
Fairness == WF_vars(Control)

Spec == Init /\ [][Next]_vars /\ Fairness

-----------------------------------------------------------------------------
States ==
  Raising \union Lowering \union Driving \union Fluffing \union
  {"IDLE", "MOVE_START_DELAY", "MOVE_JACK_SETTLE", "DRIVE_START_DELAY",
   "CALIBRATE_JACK_DELAY", "CALIBRATE_DRIVE_DELAY"}

Errors == {"OK", "LOW_BATTERY", "SAFETY_TRIP", "EFUSE_TRIP_1", "EFUSE_TRIP_2",
           "EFUSE_TRIP_3", "TRAVEL_LIMIT"}

Armed == [cmd : JogKinds \union {"none"}, left : Nat]

TypeOK ==
  /\ pc \in {"tick", "commands", "outputs", "track"}
  /\ queue \in Seq(Commands)
  /\ state \in States /\ timer \in Nat /\ error \in Errors
  /\ moveDist \in Nat /\ remaining \in Int /\ startEnc \in Int
  /\ upAge \in Nat /\ upTicks \in Nat /\ jackPos \in Nat
  /\ cuts \subseteq LiftPhases \union {"retract"}
  /\ over \in Armed /\ arming \in [Senders -> Armed]
  /\ last \in [Bridges -> Dirs] /\ out \in [Bridges -> Dirs]
  /\ offAge \in [Bridges -> 0..(GapTicks + 1)]
  /\ isSafe \in BOOLEAN
  /\ efuse \in [Bridges -> Nat]
  /\ enc \in Int /\ enc <= EncCap
  /\ jack \in 0..JackTop
  /\ requests \in 0..MaxRequests /\ jogs \in 0..MaxJogs /\ pressLeft \in Nat
  /\ raced \in Nat /\ withheld \in Nat /\ stopped \in BOOLEAN

(***************************************************************************)
(* The shelter is never dragged with its jack down: whenever the travel     *)
(* motor runs in a move, the jack has come up by at least JACK_DIST, unless *)
(* the e-fuse of the jack is what ended a phase of this lift.               *)
(***************************************************************************)
LiftedBeforeTravel ==
  (state = "DRIVE" /\ out["DRIVE"] # "OFF" /\ cuts \intersect LiftPhases = {})
    => jack >= JackTime

(***************************************************************************)
(* A trip that ends phase 1 leaves phase 2 to do its part: "ends on the     *)
(* up-current threshold (JACK_I_UP), an e-fuse trip, or the JACK_PRE_DIST   *)
(* timeout. Then phase 2 lifts an additional JACK_DIST" (STATE_JACK_UP_START)*)
(***************************************************************************)
SecondPhaseLifts ==
  (state = "DRIVE" /\ out["DRIVE"] # "OFF" /\ "phase 1" \in cuts)
    => jack >= JackTime

(***************************************************************************)
(* A motor the state of a move asks for really runs: the one second pauses  *)
(* leave no start to be blocked by the relay driver ("so the upcoming       *)
(* jack-up isn't a direct REV->FWD reversal"), whatever jog came before.    *)
(***************************************************************************)
SettledStarts ==
  (pc = "track" /\ state \in {"MOVE_JACK_RETRACT", "JACK_UP_START", "JACK_UP", "DRIVE"})
    => out = Wanted

(***************************************************************************)
(* The jack is not raised while the safety loop is broken ("Every active    *)
(* state checks safety first").                                             *)
(***************************************************************************)
UnsafeNeverLifts == (pc = "tick" /\ ~isSafe) => out["JACK"] # "FWD"

(***************************************************************************)
(* A tripped DRIVE e-fuse has the travel motor off by the end of the tick   *)
(* that saw it; STATE_DRIVE is never entered with the fuse still tripped.   *)
(***************************************************************************)
TrippedDriveStops == (pc = "tick" /\ Tripped("DRIVE")) => out["DRIVE"] = "OFF"

(***************************************************************************)
(* The travel limit: a move never asks for more than what remains, and what *)
(* remains is never negative, however the move ends.                        *)
(***************************************************************************)
MoveWithinRemaining ==
  remaining >= 0 /\ (state = "DRIVE" => -startEnc <= remaining)

(***************************************************************************)
(* A completed move costs exactly the distance it was given when the travel *)
(* motor started, whatever commands arrived in between.                     *)
(***************************************************************************)
TravelAccounted ==
  [][(state = "DRIVE" /\ state' = "DRIVE_END_DELAY")
       => remaining' = remaining + startEnc]_vars

(***************************************************************************)
(* A jogged motor stops within its deadman: no motor runs in STATE_IDLE     *)
(* once every jog that was accepted has run out, however late the jogging   *)
(* task gets to its critical section.                                       *)
(***************************************************************************)
JogsEnd ==
  (pc = "tick" /\ state = "IDLE" /\ out # AllOff) => pressLeft > 0

(***************************************************************************)
(* "Never lift past JACK_MAX", as far as the code keeps it: one tick of     *)
(* grace, in which the home sensor opens, two more for each time an         *)
(* override was armed or stopped between the snapshot that drives and the   *)
(* snapshot that counts, and one for each tick in which the estimate        *)
(* followed a way down that the relay driver withheld.                      *)
(***************************************************************************)
CeilingRespected == jack <= JackMax + 1 + 2 * raced + withheld

(***************************************************************************)
(* "Never lift past JACK_MAX", but for the grace and the races.             *)
(***************************************************************************)
NeverPastMax == jack <= JackMax + 1 + 2 * raced

(***************************************************************************)
(* A move that had no fault, and whose lift was timed to its end, comes to  *)
(* STATE_IDLE only with the jack home, however often and wherever UNDO cuts *)
(* it short, unless the e-fuse of the jack ends the lowering or has cut a   *)
(* retract short: the "symmetric jack-down duration" covers the height      *)
(* reached, but for the ticks for which the relay driver may withhold a     *)
(* reversal and one tick: the ceiling lets the jack go one past JACK_MAX,   *)
(* which a STOP there leaves to a retract of JACK_MAX.                      *)
(***************************************************************************)
JackComesHome ==
  [][(state = "JACK_DOWN" /\ pc' = "outputs" /\ state' = "IDLE"
        /\ error = "OK" /\ upTicks > 0
        /\ ~Tripped("JACK") /\ "retract" \notin cuts)
       => jack <= GapTicks + 1]_vars

(***************************************************************************)
(* After an emergency stop nothing moves until somebody jogs again.         *)
(***************************************************************************)
StopHolds == (pc = "tick" /\ state = "IDLE" /\ stopped) => out = AllOff

(***************************************************************************)
(* Whatever state a move or a calibration is in, it is back in STATE_IDLE   *)
(* (or waits for the operator's button) in the end.                         *)
(***************************************************************************)
Resting == {"IDLE", "CALIBRATE_JACK_DELAY", "CALIBRATE_DRIVE_DELAY"}

MoveEnds == (state \notin Resting) ~> (state \in Resting)
=============================================================================
