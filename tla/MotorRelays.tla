----------------------------- MODULE MotorRelays -----------------------------
(***************************************************************************)
(* The relay outputs and everybody who writes them: drive_relays and       *)
(* sensors_check, both called by the control task in every 20 ms tick, and *)
(* soft_idle_enter / soft_idle_exit, called by the main loop, the timer    *)
(* task and the servers.  The control task is pinned to no core, so those  *)
(* calls interleave with the statements of drive_relays.                   *)
(*                                                                         *)
(* The request of a tick is any request the state machine can make; what   *)
(* it does make, and when, is the subject of ControlFsm.  Time is counted  *)
(* in ticks; an age stops one past the bound it is compared with.          *)
(***************************************************************************)
EXTENDS RelayLogic

CONSTANTS
  GapTicks,     \* 2 * EFUSE_INRUSH_US: how long a bridge stays off
  MakeTicks,    \* SAFETY_MAKE_US: how long the loop is closed before "safe"
  BreakTicks,   \* SAFETY_BREAK_US: how long it is open before "unsafe"
  Requests,     \* the relay_port_t values control_task passes to drive_relays
  MaySleep      \* whether somebody may call soft_idle_enter

ASSUME TicksAssumption ==
  GapTicks \in Nat /\ MakeTicks \in Nat /\ BreakTicks \in Nat

ASSUME RequestsAssumption ==
  Requests \subseteq [Bridges -> Dirs] /\ AllOff \in Requests

ASSUME MaySleepAssumption == MaySleep \in BOOLEAN

VARIABLES
  pin,      \* the safety loop is closed (level of the SAFETY input)
  isSafe,   \* is_safe
  lowAge,   \* ticks since safety_low_start_time; -1 when that is 0
  highAge,  \* ticks since safety_high_start_time; -1 when that is 0
  last,     \* last_relay_state
  offAge,   \* ticks since isens[b].off_us
  out,      \* the bridge relays as the TCA9555 drives them
  rail,     \* P10, the sensor supply
  idle,     \* in_soft_idle
  pc,       \* the control task's place in its tick
  active,   \* this tick's state calls rtc_reset_shutdown_timer
  sleeper,  \* a soft_idle_enter between its flag and its relay write
  waker,    \* a soft_idle_exit of another task, likewise
  ran,      \* history: the direction each bridge last ran in
  rest      \* history: ticks since each bridge was physically switched off

safety == <<isSafe, lowAge, highAge>>
hist   == <<ran, rest>>
vars   == <<pin, safety, last, offAge, out, rail, idle, pc, active, sleeper,
            waker, hist>>

-----------------------------------------------------------------------------
\* i2c_set_relays: the whole port is written at once.
SetRelays(r, p) ==
  /\ out'  = r
  /\ rail' = p
  /\ ran'  = [b \in Bridges |-> IF r[b] = "OFF" THEN ran[b] ELSE r[b]]
  /\ rest' = [b \in Bridges |->
                IF r[b] = "OFF" /\ out[b] # "OFF" THEN 0 ELSE rest[b]]

\* Slip: the break timer starts again in every tick.
HighNowRestarts == 0

LowNow  == IF lowAge  = -1 THEN 0 ELSE Aged(lowAge, MakeTicks)
HighNow == IF highAge = -1 THEN 0 ELSE Aged(highAge, BreakTicks)

Makes  == pin /\ lowAge # -1 /\ ~isSafe /\ LowNow >= MakeTicks
Breaks == ~pin /\ highAge # -1 /\ isSafe /\ HighNow >= BreakTicks

(***************************************************************************)
(* A new tick: fsm_now moves on, so every age does, and sensors_check runs *)
(* its asymmetric debouncer.  A break switches every bridge off at once,   *)
(* behind drive_relays' back: last_relay_state keeps its value.            *)
(***************************************************************************)
SensorsCheck ==
  /\ pc = "sense"
  /\ pc' = "drive"
  /\ isSafe'  = IF Makes THEN TRUE ELSE IF Breaks THEN FALSE ELSE isSafe
  /\ lowAge'  = IF pin THEN LowNow ELSE -1
  /\ highAge' = IF pin THEN -1 ELSE HighNow
  /\ offAge'  = [b \in Bridges |-> Aged(offAge[b], GapTicks)]
  /\ IF Breaks
       THEN /\ out'  = AllOff
            /\ rail' = TRUE
            /\ UNCHANGED ran
            /\ rest' = [b \in Bridges |->
                          IF out[b] # "OFF" THEN 0 ELSE Aged(rest[b], GapTicks)]
       ELSE /\ UNCHANGED <<out, rail, ran>>
            /\ rest' = [b \in Bridges |-> Aged(rest[b], GapTicks)]
  /\ UNCHANGED <<pin, last, idle, active, sleeper, waker>>

Grants(req) == [b \in Bridges |-> Granted(last[b], req[b], offAge[b], GapTicks)]

\* Slip: the loop is not looked at.
InterlockedNever(g) == g

\* DRIVE is dropped while unsafe, after the transition logic has had its say.
Interlocked(g) == IF isSafe THEN g ELSE [g EXCEPT !["DRIVE"] = "OFF"]

\* Slip: last_relay_state is assigned before the soft idle test, not after it.
RemembersAsleep(req, feeds) ==
  /\ pc = "drive"
  /\ req # AllOff => feeds
  /\ active' = feeds
  /\ offAge' = [b \in Bridges |->
                  IF StampsOff(last[b], req[b]) THEN 0 ELSE offAge[b]]
  /\ pc' = IF idle THEN "feed" ELSE "write"
  /\ last' = Interlocked(Grants(req))
  /\ UNCHANGED <<pin, safety, out, rail, idle, sleeper, waker, hist>>

(***************************************************************************)
(* drive_relays up to the assignment of last_relay_state: the transition   *)
(* logic stamps off_us whether or not the device sleeps, then the soft     *)
(* idle test decides whether anything is written.  A state that asks for a *)
(* motor always feeds the shutdown timer afterwards; a quiet one may.      *)
(***************************************************************************)
DriveRelays(req, feeds) ==
  /\ pc = "drive"
  /\ req # AllOff => feeds
  /\ active' = feeds
  /\ offAge' = [b \in Bridges |->
                  IF StampsOff(last[b], req[b]) THEN 0 ELSE offAge[b]]
  /\ IF idle
       THEN pc' = "feed" /\ UNCHANGED last
       ELSE pc' = "write" /\ last' = Interlocked(Grants(req))
  /\ UNCHANGED <<pin, safety, out, rail, idle, sleeper, waker, hist>>

\* The last statement of drive_relays.
WriteRelays ==
  /\ pc = "write"
  /\ pc' = "feed"
  /\ SetRelays(last, TRUE)
  /\ UNCHANGED <<pin, safety, last, offAge, idle, active, sleeper, waker>>

\* Slip: an active state does not keep the device awake.
FeedNothing ==
  /\ pc = "feed" /\ pc' = "sense"
  /\ UNCHANGED <<pin, safety, last, offAge, out, rail, idle, active, sleeper,
                 waker, hist>>

\* rtc_reset_shutdown_timer at the end of an active state's outputs: it ends
\* a soft idle, flag first.
Feed ==
  /\ pc = "feed"
  /\ IF active /\ idle
       THEN pc' = "rail" /\ idle' = FALSE
       ELSE pc' = "sense" /\ UNCHANGED idle
  /\ UNCHANGED <<pin, safety, last, offAge, out, rail, active, sleeper, waker, hist>>

\* The relay write of that soft_idle_exit.
FeedRail ==
  /\ pc = "rail"
  /\ pc' = "sense"
  /\ SetRelays(AllOff, TRUE)
  /\ UNCHANGED <<pin, safety, last, offAge, idle, active, sleeper, waker>>

-----------------------------------------------------------------------------
\* soft_idle_enter: the flag, then (after bt_hid_stop) the relays.
SoftIdleEnter ==
  /\ MaySleep
  /\ sleeper = "none" /\ ~idle
  /\ sleeper' = "entering" /\ idle' = TRUE
  /\ UNCHANGED <<pin, safety, last, offAge, out, rail, pc, active, waker, hist>>

SoftIdleSleep ==
  /\ sleeper = "entering"
  /\ sleeper' = "none"
  /\ SetRelays(AllOff, FALSE)
  /\ UNCHANGED <<pin, safety, last, offAge, idle, pc, active, waker>>

\* soft_idle_exit of the main loop or of a server: the flag, then the relays.
SoftIdleExit ==
  /\ waker = "none" /\ idle
  /\ waker' = "exiting" /\ idle' = FALSE
  /\ UNCHANGED <<pin, safety, last, offAge, out, rail, pc, active, sleeper, hist>>

SoftIdleWake ==
  /\ waker = "exiting"
  /\ waker' = "none"
  /\ SetRelays(AllOff, TRUE)
  /\ UNCHANGED <<pin, safety, last, offAge, idle, pc, active, sleeper>>

\* The safety loop opens or closes.
PinMoves ==
  /\ pin' = ~pin
  /\ UNCHANGED <<safety, last, offAge, out, rail, idle, pc, active, sleeper,
                 waker, hist>>

-----------------------------------------------------------------------------
(***************************************************************************)
(* sensors_init stamps the debouncer with the level it finds; is_safe is   *)
(* TRUE whatever that level is.  off_us is 0 and esp_timer starts at boot, *)
(* so the first ticks may or may not be past the gap.                      *)
(***************************************************************************)
Init ==
  /\ pin \in BOOLEAN
  /\ isSafe = TRUE
  /\ lowAge = IF pin THEN 0 ELSE -1
  /\ highAge = IF pin THEN -1 ELSE 0
  /\ last = AllOff
  /\ out = AllOff
  /\ \E age \in 0..(GapTicks + 1) : offAge = [b \in Bridges |-> age]
  /\ rail = TRUE
  /\ idle = FALSE
  /\ pc = "sense"
  /\ active = FALSE
  /\ sleeper = "none"
  /\ waker = "none"
  /\ ran = AllOff
  /\ rest = [b \in Bridges |-> 0]

Control ==
  \/ SensorsCheck
  \/ \E req \in Requests, feeds \in BOOLEAN : DriveRelays(req, feeds)
  \/ WriteRelays
  \/ Feed
  \/ FeedRail

Others ==
  \/ SoftIdleEnter
  \/ SoftIdleSleep
  \/ SoftIdleExit
  \/ SoftIdleWake

Next == Control \/ Others \/ PinMoves

\* The control task never blocks but on its own delay, and the task watchdog
\* resets the chip when it fails to come round.
Fairness == WF_vars(Control)

Spec == Init /\ [][Next]_vars /\ Fairness

-----------------------------------------------------------------------------
TypeOK ==
  /\ pin \in BOOLEAN
  /\ isSafe \in BOOLEAN
  /\ lowAge \in -1..(MakeTicks + 1)
  /\ highAge \in -1..(BreakTicks + 1)
  /\ last \in [Bridges -> Dirs]
  /\ offAge \in [Bridges -> 0..(GapTicks + 1)]
  /\ out \in [Bridges -> Dirs]
  /\ rail \in BOOLEAN
  /\ idle \in BOOLEAN
  /\ pc \in {"sense", "drive", "write", "feed", "rail"}
  /\ active \in BOOLEAN
  /\ sleeper \in {"none", "entering"}
  /\ waker \in {"none", "exiting"}
  /\ ran \in [Bridges -> Dirs]
  /\ rest \in [Bridges -> 0..(GapTicks + 1)]

(***************************************************************************)
(* Between two writes of drive_relays its memory covers the motors: a      *)
(* bridge that runs is remembered as running that way.  Breaks and soft    *)
(* idle calls write the port behind last_relay_state, and the soft idle    *)
(* test stands between the decision and the write; were a running bridge   *)
(* ever remembered as off, it would get no off_us stamp when it stops.     *)
(***************************************************************************)
MemoryCoversMotors ==
  pc # "write" => \A b \in Bridges : out[b] \in {"OFF", last[b]}

(***************************************************************************)
(* The travel motor is never energized while the safety loop counts as     *)
(* broken, whoever wrote the relays last (the interlock of drive_relays    *)
(* together with the break handling of sensors_check).                     *)
(***************************************************************************)
DriveNeedsSafety == out["DRIVE"] # "OFF" => isSafe

(***************************************************************************)
(* No motor is reversed before it has been off for longer than the gap     *)
(* (the transition logic of drive_relays), whatever breaks, sleeps and     *)
(* wakes come between the two directions.                                  *)
(***************************************************************************)
ReversalSettled ==
  [][\A b \in Bridges : Opposed(ran[b], out'[b]) => rest[b] > GapTicks]_vars

(***************************************************************************)
(* Between two ticks, with no soft idle call half way, a sleeping device   *)
(* energizes no motor (the soft idle test of drive_relays, which is not    *)
(* atomic with its write, and the wake-up by the active states).           *)
(***************************************************************************)
AsleepNoMotor ==
  (idle /\ pc = "sense" /\ sleeper = "none") => out = AllOff

(***************************************************************************)
(* ... and its sensor supply is off: "the FSM keeps ticking but must not   *)
(* undo that" (the comment on the soft idle test of drive_relays).         *)
(***************************************************************************)
SleepNotUndone ==
  (idle /\ pc = "sense" /\ sleeper = "none" /\ waker = "none") => ~rail

(***************************************************************************)
(* A loop that opens for good stops the travel motor for good, whatever    *)
(* the state machine goes on asking for.                                   *)
(***************************************************************************)
OpenLoopStopsDrive == <>[](~pin) => <>[](out["DRIVE"] = "OFF")
=============================================================================
