-------------------------------- MODULE Clock --------------------------------
(***************************************************************************)
(* The wall clock of the device (src/main/rtc.c).  It is a Unix time that  *)
(* was right at some moment plus what esp_timer has counted since.  A      *)
(* request sets it store by store, while other tasks read it; hibernation  *)
(* discards it, while other tasks may set it again.  A reset loads RTC     *)
(* memory from the image, and rtc_restore_time then goes by a time saved   *)
(* in NVS, or gives up; only deep sleep keeps RTC memory as it was.        *)
(*                                                                         *)
(* Seconds are steps of hw, the hardware counter of the RTC domain, which  *)
(* runs through resets and deep sleep; esp_timer is hw seen from the last  *)
(* boot, so its reference sync_esp_us is kept as a value of hw.            *)
(***************************************************************************)
EXTENDS Integers

CONSTANTS
  MaxTime,    \* bound: seconds of a behaviour
  Zones,      \* bound: how far a clock that is set may be from hw
  MaxEvents   \* bound: requests, resets and hibernations of a behaviour

ASSUME ClockAssumption ==
  MaxTime \in Nat /\ Zones \subseteq Nat \ {0} /\ MaxEvents \in Nat

VARIABLES
  hw,         \* rtc_hw_time_us()
  rtcSet,     \* rtc_set
  syncUnix,   \* sync_unix_us
  syncRtc,    \* sync_rtc_us
  syncEsp,    \* sync_esp_us
  nvs,        \* the saved rtc_time, 0 when there is none
  setting,    \* where a request is in rtc_set_s
  hibernate,  \* where hibernate_enter is
  events,
  zone,       \* history: where the clock should be, counted from hw
  halved      \* history: a setting of the clock was cut in two by a hibernation

clockVars == <<hw, rtcSet, syncUnix, syncRtc, syncEsp, nvs, setting, hibernate,
               events, zone, halved>>

Awake == hibernate # "asleep"
Event == events < MaxEvents /\ events' = events + 1

-----------------------------------------------------------------------------
\* rtc_get_s.
Now == IF rtcSet THEN syncUnix + (hw - syncEsp) ELSE 0

\* A second goes by.
Second ==
  /\ hw < MaxTime /\ hw' = hw + 1
  /\ UNCHANGED <<rtcSet, syncUnix, syncRtc, syncEsp, nvs, setting, hibernate,
                 events, zone, halved>>

\* The first store of rtc_set_s.
SetUnix(time) ==
  /\ Awake /\ setting = "none" /\ setting' = "unix" /\ Event
  /\ syncUnix' = time
  /\ zone' = time - hw /\ halved' = FALSE
  /\ UNCHANGED <<hw, rtcSet, syncRtc, syncEsp, nvs, hibernate>>

\* The next ones; what is left is to reset the charger and to find the alarm.
SetSync ==
  /\ setting = "unix" /\ setting' = "sync"
  /\ syncRtc' = hw /\ syncEsp' = hw /\ rtcSet' = TRUE
  /\ UNCHANGED <<hw, syncUnix, nvs, hibernate, events, zone, halved>>

SetOn(step, next) ==
  /\ setting = step /\ setting' = next
  /\ UNCHANGED <<hw, rtcSet, syncUnix, syncRtc, syncEsp, nvs, hibernate, events,
                 zone, halved>>

\* rtc_save_time.
SaveTime ==
  /\ nvs' = IF rtcSet THEN Now ELSE nvs
  /\ UNCHANGED <<hw, rtcSet, syncUnix, syncRtc, syncEsp, setting, hibernate, events,
                 zone, halved>>

-----------------------------------------------------------------------------
\* hibernate_enter erases the saved time, discards the clock, and waits.
EraseSaved ==
  /\ hibernate = "no" /\ hibernate' = "erased" /\ Event
  /\ nvs' = 0
  /\ UNCHANGED <<hw, rtcSet, syncUnix, syncRtc, syncEsp, setting, zone, halved>>

Discard ==
  /\ hibernate = "erased" /\ hibernate' = "discarded"
  /\ rtcSet' = FALSE /\ syncUnix' = 0 /\ syncRtc' = 0
  /\ halved' = (halved \/ setting = "unix")
  /\ UNCHANGED <<hw, syncEsp, nvs, setting, events, zone>>

\* esp_deep_sleep_start.
FallAsleep ==
  /\ hibernate = "discarded" /\ hibernate' = "asleep"
  /\ setting' = "none" /\ halved' = (halved \/ setting = "unix")
  /\ UNCHANGED <<hw, rtcSet, syncUnix, syncRtc, syncEsp, nvs, events, zone>>

\* rtc_restore_time with no clock in RTC memory: rtc_set_s of the saved time,
\* before any task runs that could come in between.
RestoreFromNvs ==
  IF nvs > 0
    THEN /\ rtcSet' = TRUE /\ syncUnix' = nvs /\ syncRtc' = hw /\ syncEsp' = hw
         /\ zone' = nvs - hw /\ halved' = FALSE
    ELSE rtcSet' = FALSE /\ UNCHANGED <<syncUnix, syncRtc, syncEsp, zone, halved>>

\* Slip: the time since the last boot is thought to be still counting.
RestoredNoRebase ==
  /\ syncUnix' = syncUnix + (hw - syncRtc)
  /\ UNCHANGED <<rtcSet, syncRtc, syncEsp, zone, halved>>

\* rtc_restore_time when RTC memory holds a clock.
RestoredFromRtc ==
  /\ syncUnix' = syncUnix + (hw - syncRtc) /\ syncEsp' = hw
  /\ UNCHANGED <<rtcSet, syncRtc, zone, halved>>

\* The button wakes the device; RTC memory is as hibernation left it.
WakeRestore ==
  /\ hibernate = "asleep" /\ hibernate' = "no"
  /\ IF rtcSet THEN RestoredFromRtc ELSE RestoreFromNvs
  /\ UNCHANGED <<hw, nvs, setting, events>>

\* Any other reset: RTC memory starts from its initial values.
ColdRestore ==
  /\ Event /\ hibernate' = "no" /\ setting' = "none"
  /\ RestoreFromNvs
  /\ UNCHANGED <<hw, nvs>>

ClockInit ==
  /\ hw = 0 /\ rtcSet = FALSE /\ nvs = 0
  /\ syncUnix = 0 /\ syncRtc = 0 /\ syncEsp = 0
  /\ setting = "none" /\ hibernate = "no" /\ events = 0
  /\ zone = 0 /\ halved = FALSE

-----------------------------------------------------------------------------
ClockTypeOK ==
  /\ hw \in 0..MaxTime /\ rtcSet \in BOOLEAN
  /\ {syncUnix, syncRtc, syncEsp, nvs, zone} \subseteq Int
  /\ setting \in {"none", "unix", "sync", "found"}
  /\ hibernate \in {"no", "erased", "discarded", "asleep"}
  /\ events \in 0..MaxEvents /\ halved \in BOOLEAN

(***************************************************************************)
(* A clock that was set, or restored from its saved time, keeps right: one *)
(* that is set again while hibernation waits to sleep survives the sleep,  *)
(* and is then moved on by the hardware counter as long as the sleep was.  *)
(* Only a hibernation that cuts a setting in two leaves a wrong clock.     *)
(***************************************************************************)
ClockIsRight == rtcSet /\ setting # "unix" /\ ~halved => Now = hw + zone
=============================================================================
