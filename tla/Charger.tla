------------------------------- MODULE Charger -------------------------------
(***************************************************************************)
(* The solar charger (src/main/solar.c): FLOAT until the battery has been  *)
(* low for a while, then BULK for a fixed time.  solar_run_fsm runs store  *)
(* by store on the main task, at the end of each pass, and measures time   *)
(* with the wall clock, which other tasks set and discard under it; the    *)
(* setting resets the charger as well.  Charge and timer are in RTC        *)
(* memory.                                                                 *)
(*                                                                         *)
(* No second ends inside a run or inside the setting of the clock.  A run  *)
(* may come late, or not in every second: a boot, a reboot, a sleep and    *)
(* the wait for the radios before a move all hold the main task up.        *)
(***************************************************************************)
EXTENDS Clock

CONSTANTS ChargeLow, ChargeBulk    \* CHG_LOW_S, CHG_BULK_S

ASSUME ChargerAssumption == ChargeLow \in Nat /\ ChargeBulk \in Nat

VARIABLES
  charge,     \* current_charge_state
  timer,      \* its timer, -1 to be started
  run,        \* where solar_run_fsm is
  at,         \* its now
  mode,       \* "boot", "loop", or "reboot" while the LEDs of a held button blink
  ran,        \* it has run in this second
  turned,     \* history: hw when charge last changed, or timer was started for it
  lowSince,   \* history: hw when the battery was last seen good, or first seen
  torn,       \* history: the clock was set or discarded during this run
  mixed       \* history: charge or timer may be of another clock's time

historyVars == <<turned, lowSince, torn, mixed>>
chargerVars == <<clockVars, charge, timer, run, at, mode, ran, historyVars>>

InRun == run # "idle"
Done  == run' = "idle" /\ ran' = TRUE /\ at' = 0 /\ torn' = FALSE

-----------------------------------------------------------------------------
ChargerTick ==
  /\ Second
  /\ ~InRun /\ setting = "none"
  /\ ran' = FALSE
  /\ UNCHANGED <<charge, timer, run, at, mode, historyVars>>

\* solar_run_fsm reads the clock.
ReadTime ==
  /\ Awake /\ ~InRun /\ ~ran /\ mode # "reboot"
  /\ at' = Now /\ run' = "start"
  /\ torn' = (setting # "none") /\ mixed' = (mixed \/ torn')
  /\ UNCHANGED <<clockVars, charge, timer, mode, ran, turned, lowSince>>

StartTimer ==
  /\ run = "start" /\ run' = "see"
  /\ timer' = IF timer < 0 THEN at ELSE timer
  /\ IF timer < 0 /\ charge = "float"
       THEN turned' = hw /\ mixed' = torn
       ELSE UNCHANGED <<turned, mixed>>
  /\ UNCHANGED <<clockVars, charge, at, mode, ran, lowSince, torn>>

Seen(good) == lowSince' = IF good \/ lowSince < 0 THEN hw ELSE lowSince

\* The battery is good or low, and the charger in BULK.
SeeBulk(good) ==
  /\ run = "see" /\ charge = "bulk" /\ Seen(good) /\ Done
  /\ IF at > timer + ChargeBulk
       THEN charge' = "float" /\ turned' = hw
       ELSE UNCHANGED <<charge, turned>>
  /\ UNCHANGED <<clockVars, timer, mode, mixed>>

\* It is in FLOAT: a good battery starts the timer again.
SeeFloat(good) ==
  /\ run = "see" /\ charge = "float" /\ Seen(good) /\ run' = "test"
  /\ IF good
       THEN timer' = at /\ mixed' = torn
       ELSE UNCHANGED <<timer, mixed>>
  /\ UNCHANGED <<clockVars, charge, at, mode, ran, turned, torn>>

\* The battery has been low for long enough, or the run is over.
TestLow ==
  /\ run = "test"
  /\ IF at > timer + ChargeLow
       THEN run' = "stamp" /\ UNCHANGED <<at, ran, torn>>
       ELSE Done
  /\ UNCHANGED <<clockVars, charge, timer, mode, turned, lowSince, mixed>>

\* The two stores that begin BULK.
StampBulk ==
  /\ run = "stamp" /\ run' = "turn"
  /\ timer' = at /\ turned' = hw /\ mixed' = torn
  /\ UNCHANGED <<clockVars, charge, at, mode, ran, lowSince, torn>>

TurnBulk ==
  /\ run = "turn" /\ Done
  /\ charge' = "bulk" /\ turned' = hw
  /\ UNCHANGED <<clockVars, timer, mode, lowSince, mixed>>

-----------------------------------------------------------------------------
\* What a step of another task on the clock or the charger does to a run.
Disturb == torn' = (torn \/ InRun) /\ mixed' = (mixed \/ InRun)

SetBegins(z) ==
  /\ mode # "boot" /\ SetUnix(hw + z)
  /\ Disturb
  /\ UNCHANGED <<charge, timer, run, at, mode, ran, turned, lowSince>>

SetSyncs ==
  /\ SetSync
  /\ Disturb
  /\ UNCHANGED <<charge, timer, run, at, mode, ran, turned, lowSince>>

\* Slip: the charger stays in BULK, and its timer starts again.
ResetTimerOnly ==
  /\ SetOn("sync", "none")
  /\ torn' = (torn \/ InRun) /\ mixed' = InRun
  /\ timer' = -1
  /\ UNCHANGED <<charge, run, at, mode, ran, turned, lowSince>>

\* Slip: the timer is left as it is.
ResetKeepsTimer ==
  /\ SetOn("sync", "none")
  /\ torn' = (torn \/ InRun) /\ mixed' = InRun
  /\ charge' = "float" /\ turned' = hw
  /\ UNCHANGED <<timer, run, at, mode, ran, lowSince>>

\* solar_reset_fsm, the charger's part of rtc_set_s.
ResetCharger ==
  /\ SetOn("sync", "none")
  /\ torn' = (torn \/ InRun) /\ mixed' = InRun
  /\ charge' = "float" /\ timer' = -1 /\ turned' = hw
  /\ UNCHANGED <<run, at, mode, ran, lowSince>>

BootEnds ==
  /\ mode = "boot" /\ Awake /\ ~InRun
  /\ mode' = "loop"
  /\ UNCHANGED <<clockVars, charge, timer, run, at, ran, historyVars>>

HeldButton ==
  /\ mode = "loop" /\ Awake /\ ~InRun /\ ~ran /\ events < MaxEvents
  /\ SaveTime /\ mode' = "reboot"
  /\ UNCHANGED <<charge, timer, run, at, ran, historyVars>>

Erases ==
  /\ mode # "boot" /\ EraseSaved
  /\ UNCHANGED <<charge, timer, run, at, mode, ran, historyVars>>

Discards ==
  /\ Discard /\ Disturb
  /\ UNCHANGED <<charge, timer, run, at, mode, ran, turned, lowSince>>

\* The sleep ends whatever runs; a setting that has not come to the charger
\* leaves it to the old clock.
Sleeps ==
  /\ FallAsleep
  /\ run' = "idle" /\ at' = 0 /\ mode' = "boot" /\ ran' = FALSE
  /\ torn' = FALSE /\ mixed' = (mixed \/ setting # "none")
  /\ UNCHANGED <<charge, timer, turned, lowSince>>

Wakes ==
  /\ WakeRestore
  /\ IF ~rtcSet /\ nvs > 0
       THEN charge' = "float" /\ timer' = -1 /\ turned' = hw /\ mixed' = FALSE
       ELSE UNCHANGED <<charge, timer, turned, mixed>>
  /\ UNCHANGED <<run, at, mode, ran, lowSince, torn>>

\* Any other reset; a saved time that is restored resets the charger.
Restarts ==
  /\ ColdRestore
  /\ charge' = "float" /\ timer' = IF nvs > 0 THEN -1 ELSE 0
  /\ run' = "idle" /\ at' = 0 /\ mode' = "boot" /\ ran' = FALSE
  /\ turned' = hw /\ lowSince' = -1 /\ torn' = FALSE /\ mixed' = FALSE

-----------------------------------------------------------------------------
ChargerInit ==
  /\ ClockInit
  /\ charge = "float" /\ timer = 0 /\ run = "idle" /\ at = 0
  /\ mode = "boot" /\ ran = FALSE
  /\ turned = 0 /\ lowSince = -1 /\ torn = FALSE /\ mixed = FALSE

RunCharger ==
  \/ ReadTime \/ StartTimer \/ TestLow \/ StampBulk \/ TurnBulk
  \/ \E good \in BOOLEAN : SeeBulk(good) \/ SeeFloat(good)

SetTime == (\E z \in Zones : SetBegins(z)) \/ SetSyncs \/ ResetCharger

ChargerNext ==
  \/ ChargerTick \/ RunCharger \/ SetTime
  \/ BootEnds \/ HeldButton \/ Restarts
  \/ Erases \/ Discards \/ Sleeps \/ Wakes

ChargerSpec == ChargerInit /\ [][ChargerNext]_chargerVars

-----------------------------------------------------------------------------
ChargerTypeOK ==
  /\ ClockTypeOK
  /\ charge \in {"float", "bulk"} /\ timer \in Int /\ at \in Int
  /\ run \in {"idle", "start", "see", "test", "stamp", "turn"}
  /\ mode \in {"boot", "loop", "reboot"} /\ ran \in BOOLEAN
  /\ turned \in 0..MaxTime /\ lowSince \in -1..MaxTime
  /\ torn \in BOOLEAN /\ mixed \in BOOLEAN

\* There was a run in this second, and nobody is setting the clock.
Settled == ran /\ ~InRun /\ setting = "none"

(***************************************************************************)
(* BULK comes to its end: while there is a clock, it is over by the first  *)
(* run after CHG_BULK_S, though the clock that it is measured with may be  *)
(* set, discarded, restored and slept through in the middle of it, unless  *)
(* the run that began it was overtaken by the setting of the clock, or a   *)
(* sleep kept a setting from coming to the charger.                        *)
(***************************************************************************)
BulkEnds == charge = "bulk" /\ rtcSet /\ ~mixed /\ Settled => hw - turned <= ChargeBulk

(***************************************************************************)
(* A battery that stays low is charged: while there is a clock, FLOAT is   *)
(* over by the first run that comes CHG_LOW_S after the battery was last   *)
(* seen good and the charger last reset, with the same exception.          *)
(***************************************************************************)
LowIsCharged ==
  charge = "float" /\ rtcSet /\ ~mixed /\ Settled =>
    hw - lowSince <= ChargeLow \/ hw - turned <= ChargeLow

(***************************************************************************)
(* BULK comes to its end even if a run was overtaken by the setting.       *)
(***************************************************************************)
BulkAlwaysEnds == charge = "bulk" /\ rtcSet /\ Settled => hw - turned <= ChargeBulk

(***************************************************************************)
(* BULK begins only when the battery has been low for CHG_LOW_S.           *)
(***************************************************************************)
BulkIsEarned ==
  [][run = "test" /\ run' = "stamp" /\ ~mixed => hw - lowSince > ChargeLow]_chargerVars

(***************************************************************************)
(* A battery that stays low is charged, with a clock or without.           *)
(***************************************************************************)
LowIsAlwaysCharged ==
  charge = "float" /\ Settled =>
    hw - lowSince <= ChargeLow \/ hw - turned <= ChargeLow
=============================================================================
