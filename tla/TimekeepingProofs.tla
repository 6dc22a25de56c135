-------------------------- MODULE TimekeepingProofs --------------------------
(***************************************************************************)
(* Proofs about the clock, the charger and the schedule, for behaviours of *)
(* any length, any schedule, and any number of requests, resets and        *)
(* hibernations.  The charger and the schedule are two specifications of   *)
(* the same clock; what the clock keeps is shown once for both.            *)
(***************************************************************************)
EXTENDS Timekeeping, Charger, WellFoundedInduction, TLAPS

ClockTyped ==
  /\ hw \in 0..MaxTime /\ hw \in Nat
  /\ syncUnix \in Nat /\ syncRtc \in Nat /\ syncEsp \in Nat
  /\ nvs \in Nat /\ zone \in Int
  /\ setting \in {"none", "unix", "sync", "found"}
  /\ hibernate \in {"no", "erased", "discarded", "asleep"}
  /\ events \in 0..MaxEvents

ClockFlags == rtcSet \in BOOLEAN /\ halved \in BOOLEAN

\* Time never runs behind a reference.  A clock that is set again while
\* hibernation waits has both references at one moment, that of its setting.
Referred ==
  /\ syncEsp <= hw
  /\ hibernate \in {"discarded", "asleep"} /\ rtcSet => syncRtc = syncEsp
  /\ ~Awake => setting = "none"

\* Between its stores, and after them, a setting has the time it was given.
RightInv ==
  /\ rtcSet /\ setting # "unix" /\ ~halved => syncUnix = syncEsp + zone
  /\ setting = "unix" /\ ~halved => syncUnix = hw + zone

ClockInv == ClockTyped /\ ClockFlags /\ Referred /\ RightInv

\* What a step of either specification may do to the clock.
ClockStep ==
  \/ UNCHANGED clockVars
  \/ /\ Event
     /\ UNCHANGED <<hw, rtcSet, syncUnix, syncRtc, syncEsp, nvs, setting, hibernate,
                    zone, halved>>
  \/ Second /\ setting = "none"
  \/ \E z \in Zones : SetUnix(hw + z)
  \/ SetSync
  \/ SetOn("sync", "none") \/ SetOn("sync", "found") \/ SetOn("found", "none")
  \/ SaveTime \/ EraseSaved \/ Discard \/ FallAsleep
  \/ WakeRestore \/ ColdRestore

-----------------------------------------------------------------------------
LEMMA NowTyped ==
  ASSUME ClockInv
  PROVE  Now \in Nat
  BY DEF ClockInv, ClockTyped, Referred, Now

LEMMA EventTyped ==
  ASSUME events \in 0..MaxEvents, Event
  PROVE  events' \in 0..MaxEvents
  BY ClockAssumption DEF Event

\* A time from NVS is taken over whole.
LEMMA Restored ==
  ASSUME ClockInv, RestoreFromNvs, hw' = hw, nvs' = nvs
  PROVE  /\ syncUnix' \in Nat /\ syncRtc' \in Nat /\ syncEsp' \in Nat /\ zone' \in Int
         /\ syncEsp' <= hw'
         /\ rtcSet' => syncUnix' = syncEsp' + zone'
         /\ ClockFlags'
<1> USE DEF ClockInv, ClockTyped, Referred, RestoreFromNvs
<1> DEFINE Goal == /\ syncUnix' \in Nat /\ syncRtc' \in Nat /\ syncEsp' \in Nat
                   /\ zone' \in Int /\ syncEsp' <= hw'
                   /\ rtcSet' => syncUnix' = syncEsp' + zone'
<1>1. ASSUME nvs > 0 PROVE Goal
  <2>1. syncUnix' = nvs /\ syncRtc' = hw /\ syncEsp' = hw /\ zone' = nvs - hw
    BY <1>1
  <2>2. QED
    BY <2>1
<1>2. ASSUME ~(nvs > 0) PROVE Goal
  <2>1. rtcSet' = FALSE /\ UNCHANGED <<syncUnix, syncRtc, syncEsp, zone>>
    BY <1>2
  <2>2. QED
    BY <2>1
<1>3. Goal
  BY <1>1, <1>2
<1>4. ClockFlags'
  BY ZenonT(20) DEF ClockFlags
<1>5. QED
  BY <1>3, <1>4

LEMMA FlagsStay ==
  ASSUME ClockInv, ClockStep
  PROVE  ClockFlags'
<1>0. rtcSet \in BOOLEAN /\ halved \in BOOLEAN
  BY DEF ClockInv, ClockFlags
<1> USE DEF ClockFlags
<1>1. CASE UNCHANGED clockVars
  BY <1>0, <1>1 DEF clockVars
<1>2. CASE /\ Event
           /\ UNCHANGED <<hw, rtcSet, syncUnix, syncRtc, syncEsp, nvs, setting,
                          hibernate, zone, halved>>
  BY <1>0, <1>2
<1>3. CASE Second \/ SaveTime \/ EraseSaved
  BY <1>0, <1>3 DEF Second, SaveTime, EraseSaved
<1>4. ASSUME NEW z \in Zones, SetUnix(hw + z) PROVE ClockFlags'
  BY <1>0, <1>4 DEF SetUnix
<1>5. CASE SetSync \/ SetOn("sync", "none") \/ SetOn("sync", "found") \/ SetOn("found", "none")
  BY <1>0, <1>5 DEF SetSync, SetOn
<1>6. CASE Discard
  <2>1. rtcSet' = FALSE /\ halved' = (halved \/ setting = "unix")
    BY <1>6 DEF Discard
  <2>2. QED
    BY <2>1
<1>7. CASE FallAsleep
  <2>1. rtcSet' = rtcSet /\ halved' = (halved \/ setting = "unix")
    BY <1>7 DEF FallAsleep
  <2>2. QED
    BY <1>0, <2>1
<1>8. CASE WakeRestore
  <2>1. CASE rtcSet
    BY <1>0, <1>8, <2>1 DEF WakeRestore, RestoredFromRtc
  <2>2. CASE ~rtcSet
    BY <1>8, <2>2, Restored DEF WakeRestore
  <2>3. QED
    BY <2>1, <2>2
<1>9. CASE ColdRestore
  BY <1>9, Restored DEF ColdRestore
<1>10. QED
  BY <1>1, <1>2, <1>3, <1>4, <1>5, <1>6, <1>7, <1>8, <1>9 DEF ClockStep

LEMMA ClockSteps ==
  ASSUME ClockInv, ClockStep
  PROVE  ClockInv'
<1> USE DEF ClockTyped, Referred, RightInv, Awake
<1>1. ClockTyped /\ Referred /\ RightInv
  BY DEF ClockInv
<1>2. CASE UNCHANGED clockVars
  BY <1>1, <1>2, FlagsStay DEF clockVars, ClockInv
<1>3. CASE /\ Event
           /\ UNCHANGED <<hw, rtcSet, syncUnix, syncRtc, syncEsp, nvs, setting,
                          hibernate, zone, halved>>
  BY <1>1, <1>3, EventTyped, FlagsStay DEF ClockInv
<1>4. CASE Second /\ setting = "none"
  <2>1. hw' \in 0..MaxTime /\ hw' \in Nat /\ hw <= hw'
    BY <1>1, <1>4, ClockAssumption DEF Second
  <2>2. UNCHANGED <<rtcSet, syncUnix, syncRtc, syncEsp, nvs, setting, hibernate, events,
                    zone, halved>>
    BY <1>4 DEF Second
  <2>3. QED
    BY <1>1, <1>4, <2>1, <2>2, FlagsStay DEF ClockInv
<1>5. ASSUME NEW z \in Zones, SetUnix(hw + z) PROVE ClockInv'
  <2>1. z \in Nat
    BY ClockAssumption
  <2>2. events' \in 0..MaxEvents
    BY <1>1, <1>5, EventTyped DEF SetUnix
  <2>3. /\ setting' = "unix" /\ syncUnix' = hw + z /\ zone' = z /\ halved' = FALSE
        /\ UNCHANGED <<hw, rtcSet, syncRtc, syncEsp, nvs, hibernate>>
    BY <1>1, <1>5, <2>1 DEF SetUnix
  <2>4. Awake
    BY <1>5 DEF SetUnix
  <2>5. QED
    BY <1>1, <1>5, <2>1, <2>2, <2>3, <2>4, FlagsStay DEF ClockInv
<1>6. CASE SetSync
  <2>1. ClockTyped'
    BY <1>1, <1>6 DEF SetSync
  <2>2. Referred' /\ RightInv'
    BY <1>1, <1>6 DEF SetSync
  <2>3. QED
    BY <2>1, <2>2, FlagsStay DEF ClockInv
<1>7. CASE SetOn("sync", "none") \/ SetOn("sync", "found") \/ SetOn("found", "none")
  <2>1. /\ setting # "unix" /\ setting' \in {"none", "found"} /\ (~Awake => FALSE)
        /\ UNCHANGED <<hw, rtcSet, syncUnix, syncRtc, syncEsp, nvs, hibernate, events,
                       zone, halved>>
    BY <1>1, <1>7 DEF SetOn
  <2>2. QED
    BY <1>1, <2>1, FlagsStay DEF ClockInv
<1>8. CASE SaveTime
  <2>1. nvs' \in Nat
    BY <1>1, <1>8, NowTyped DEF SaveTime
  <2>2. QED
    BY <1>1, <1>8, <2>1, FlagsStay DEF SaveTime, ClockInv
<1>9. CASE EraseSaved
  <2>1. events' \in 0..MaxEvents
    BY <1>1, <1>9, EventTyped DEF EraseSaved
  <2>2. /\ hibernate = "no" /\ hibernate' = "erased" /\ nvs' = 0
        /\ UNCHANGED <<hw, rtcSet, syncUnix, syncRtc, syncEsp, setting, zone, halved>>
    BY <1>9 DEF EraseSaved
  <2>3. QED
    BY <1>1, <2>1, <2>2, FlagsStay DEF ClockInv
<1>10. CASE Discard
  <2>1. /\ hibernate' = "discarded" /\ rtcSet' = FALSE /\ syncUnix' = 0 /\ syncRtc' = 0
        /\ UNCHANGED <<hw, syncEsp, nvs, setting, events, zone>>
        /\ halved' = (halved \/ setting = "unix")
    BY <1>10 DEF Discard
  <2>2. setting = "unix" => halved'
    BY <2>1
  <2>3. ClockTyped' /\ Referred'
    BY <1>1, <2>1
  <2>4. RightInv'
    BY <2>1, <2>2
  <2>5. QED
    BY <2>3, <2>4, FlagsStay DEF ClockInv
<1>11. CASE FallAsleep
  <2>1. /\ hibernate = "discarded" /\ hibernate' = "asleep" /\ setting' = "none"
        /\ UNCHANGED <<hw, rtcSet, syncUnix, syncRtc, syncEsp, nvs, events, zone>>
        /\ halved' = (halved \/ setting = "unix")
    BY <1>11 DEF FallAsleep
  <2>2. ~halved' => ~halved /\ setting # "unix"
    BY <2>1
  <2>3. ClockTyped' /\ Referred'
    BY <1>1, <2>1
  <2>4. RightInv'
    BY <1>1, <2>1, <2>2
  <2>5. QED
    BY <2>3, <2>4, FlagsStay DEF ClockInv
<1>12. CASE WakeRestore
  <2>1. /\ ~Awake /\ setting = "none" /\ setting' = "none" /\ hibernate' = "no"
        /\ UNCHANGED <<hw, nvs, events>>
    BY <1>1, <1>12 DEF WakeRestore
  <2>2. CASE rtcSet
    <3>1. /\ syncUnix' = syncUnix + (hw - syncRtc) /\ syncEsp' = hw
          /\ UNCHANGED <<rtcSet, syncRtc, zone, halved>>
      BY <1>12, <2>2 DEF WakeRestore, RestoredFromRtc
    <3>2. syncRtc = syncEsp
      BY <1>1, <2>1, <2>2
    <3>3. ClockTyped' /\ Referred'
      BY <1>1, <2>1, <3>1, <3>2
    <3>4. RightInv'
      BY <1>1, <2>1, <2>2, <3>1, <3>2
    <3>5. QED
      BY <3>3, <3>4, FlagsStay DEF ClockInv
  <2>3. CASE ~rtcSet
    <3>1. RestoreFromNvs
      BY <1>12, <2>3 DEF WakeRestore
    <3>2. QED
      BY <1>1, <2>1, <3>1, Restored, FlagsStay DEF ClockInv
  <2>4. QED
    BY <2>2, <2>3
<1>13. CASE ColdRestore
  <2>1. /\ Event /\ RestoreFromNvs /\ setting' = "none" /\ hibernate' = "no"
        /\ UNCHANGED <<hw, nvs>>
    BY <1>13 DEF ColdRestore
  <2>2. events' \in 0..MaxEvents
    BY <1>1, <2>1, EventTyped
  <2>3. QED
    BY <1>1, <2>1, <2>2, Restored, FlagsStay DEF ClockInv
<1>14. QED
  BY <1>2, <1>3, <1>4, <1>5, <1>6, <1>7, <1>8, <1>9, <1>10, <1>11, <1>12, <1>13
     DEF ClockStep

LEMMA ClockStarts == ClockInit => ClockInv
<1> SUFFICES ASSUME ClockInit PROVE ClockInv
  OBVIOUS
<1>1. 0 \in 0..MaxTime /\ 0 \in 0..MaxEvents /\ 0 \in Nat /\ 0 \in Int
  BY ClockAssumption
<1>2. ClockTyped
  BY <1>1 DEF ClockInit, ClockTyped
<1>3. ClockFlags
  BY DEF ClockInit, ClockFlags
<1>4. Referred /\ RightInv
  BY DEF ClockInit, Referred, RightInv, Awake
<1>5. QED
  BY <1>2, <1>3, <1>4 DEF ClockInv

LEMMA NextIsClockStep == [Next]_vars => ClockStep
<1> SUFFICES ASSUME [Next]_vars PROVE ClockStep
  OBVIOUS
<1> USE DEF ClockStep
<1>1. CASE Tick
  BY <1>1 DEF Tick
<1>2. CASE MainLoop
  BY <1>2 DEF MainLoop, Booted, Look, Compare, StartMove, FindAlarm, ArmAlarm,
              HoldToReboot
<1>3. CASE Requests
  <2>1. ASSUME NEW z \in Zones, BeginSet(z) PROVE ClockStep
    BY <2>1 DEF BeginSet
  <2>2. ASSUME NEW i \in Slots, NEW t \in SlotTimes \union {None}, SetSlot(i, t)
        PROVE  ClockStep
    BY <2>2 DEF SetSlot
  <2>3. CASE SyncSet \/ FindAfterSet \/ EndSet
    BY <2>3 DEF SyncSet, FindAfterSet, EndSet
  <2>4. CASE SetOther \/ FindAfterPost \/ EndPost \/ Commit
    BY <2>4 DEF SetOther, FindAfterPost, EndPost, Commit
  <2>5. QED
    BY <1>3, <2>1, <2>2, <2>3, <2>4 DEF Requests
<1>4. CASE Resets
  BY <1>4 DEF Resets, Reboot, EraseTime, DiscardTime, Sleep, Wake
<1>5. CASE UNCHANGED vars
  BY <1>5 DEF vars
<1>6. QED
  BY <1>1, <1>2, <1>3, <1>4, <1>5 DEF Next

LEMMA ClockHolds == Spec => []ClockInv
<1>1. Init => ClockInv
  BY ClockStarts DEF Init
<1>2. ClockInv /\ [Next]_vars => ClockInv'
  BY NextIsClockStep, ClockSteps
<1>3. QED
  BY <1>1, <1>2, PTL DEF Spec

(***************************************************************************)
(* No store of a request, reset, saved time or hibernation leaves a clock  *)
(* that is set to show a wrong time, but for a hibernation that cuts a     *)
(* setting in two.                                                         *)
(***************************************************************************)
THEOREM ClockSurvives == Spec => []ClockIsRight
<1>1. ClockInv => ClockIsRight
  BY DEF ClockInv, ClockTyped, RightInv, ClockIsRight, Now
<1>2. QED
  BY <1>1, ClockHolds, PTL

-----------------------------------------------------------------------------
ChargerTyped ==
  /\ charge \in {"float", "bulk"} /\ timer \in Int /\ at \in Nat
  /\ run \in {"idle", "start", "see", "test", "stamp", "turn"}
  /\ mode \in {"boot", "loop", "reboot"}
  /\ turned \in Nat /\ lowSince \in Int /\ turned <= hw

\* A run that nothing came into has the time that is; one that something came
\* into has mixed up what it leaves.
RunInv ==
  /\ torn => InRun /\ mixed
  /\ InRun /\ ~torn => setting = "none" /\ at = Now
  /\ run \in {"see", "test", "stamp", "turn"} /\ ~torn => timer >= 0
  /\ run \in {"test", "stamp", "turn"} => charge = "float"
  /\ run = "turn" /\ ~torn => timer = at
  /\ ~Awake => ~InRun /\ ~ran

\* In BULK the timer is the wall time of its begin, as the clock now has it; in
\* FLOAT it is no later than the last good reading or the last start of it.
TimerInv ==
  rtcSet /\ ~mixed /\ setting = "none" =>
    /\ charge = "bulk" => timer >= 0 /\ timer + syncEsp = turned + syncUnix
    /\ charge = "float" /\ timer >= 0 =>
         \/ timer + syncEsp <= turned + syncUnix
         \/ timer + syncEsp <= lowSince + syncUnix

ChargerInv == ChargerTyped /\ RunInv /\ TimerInv /\ BulkEnds /\ LowIsCharged

LEMMA ChargerNextIsClockStep == [ChargerNext]_chargerVars => ClockStep
<1> SUFFICES ASSUME [ChargerNext]_chargerVars PROVE ClockStep
  OBVIOUS
<1> USE DEF ClockStep
<1>1. CASE ChargerTick
  BY <1>1 DEF ChargerTick
<1>2. CASE RunCharger
  BY <1>2 DEF RunCharger, ReadTime, StartTimer, SeeBulk, SeeFloat, TestLow, StampBulk,
              TurnBulk
<1>3. ASSUME NEW z \in Zones, SetBegins(z) PROVE ClockStep
  BY <1>3 DEF SetBegins
<1>4. CASE SetSyncs \/ ResetCharger
  BY <1>4 DEF SetSyncs, ResetCharger
<1>5. CASE BootEnds \/ HeldButton \/ Restarts
  BY <1>5 DEF BootEnds, HeldButton, Restarts
<1>6. CASE Erases \/ Discards \/ Sleeps \/ Wakes
  BY <1>6 DEF Erases, Discards, Sleeps, Wakes
<1>7. CASE UNCHANGED chargerVars
  BY <1>7 DEF chargerVars
<1>8. QED
  BY <1>1, <1>2, <1>3, <1>4, <1>5, <1>6, <1>7 DEF ChargerNext, SetTime

\* A run works with the time it read at its start; if no other task came in
\* between, that is the time that is.
LEMMA RunKeepsCharger ==
  ASSUME ClockInv, ChargerInv, RunCharger
  PROVE  ChargerInv'
<1> USE DEF ChargerInv, ChargerTyped, RunInv, InRun
<1>1. Now \in Nat /\ hw \in Nat /\ syncEsp \in Nat /\ syncUnix \in Nat
  BY NowTyped DEF ClockInv, ClockTyped
<1>2. rtcSet => Now + syncEsp = syncUnix + hw
  BY <1>1 DEF Now
<1>3. UNCHANGED clockVars => Now' = Now /\ Awake' = Awake
  BY DEF clockVars, Now, Awake
<1>4. CASE ReadTime
  <2>1. ChargerTyped' /\ RunInv'
    BY <1>1, <1>3, <1>4 DEF ReadTime, clockVars
  <2>2. TimerInv'
    BY <1>4 DEF ReadTime, clockVars, TimerInv
  <2>3. BulkEnds' /\ LowIsCharged'
    BY <1>4 DEF ReadTime, BulkEnds, LowIsCharged, Settled
  <2>4. QED
    BY <2>1, <2>2, <2>3
<1>5. CASE StartTimer
  <2>1. ChargerTyped' /\ RunInv'
    BY <1>1, <1>3, <1>5 DEF StartTimer, clockVars
  <2>2. TimerInv'
    BY <1>1, <1>2, <1>5 DEF StartTimer, clockVars, TimerInv
  <2>3. BulkEnds' /\ LowIsCharged'
    BY <1>5 DEF StartTimer, BulkEnds, LowIsCharged, Settled
  <2>4. QED
    BY <2>1, <2>2, <2>3
<1>6. ASSUME NEW good \in BOOLEAN, SeeBulk(good) PROVE ChargerInv'
  <2>1. ChargerTyped' /\ RunInv'
    BY <1>1, <1>3, <1>6 DEF SeeBulk, Seen, Done, clockVars
  <2>2. TimerInv'
    BY <1>1, <1>2, <1>6, ChargerAssumption DEF SeeBulk, Seen, Done, clockVars, TimerInv
  <2>3. BulkEnds' /\ LowIsCharged'
    BY <1>1, <1>2, <1>6, ChargerAssumption
       DEF SeeBulk, Seen, Done, clockVars, TimerInv, BulkEnds, LowIsCharged, Settled
  <2>4. QED
    BY <2>1, <2>2, <2>3
<1>7. ASSUME NEW good \in BOOLEAN, SeeFloat(good) PROVE ChargerInv'
  <2>1. ChargerTyped' /\ RunInv'
    BY <1>1, <1>3, <1>7 DEF SeeFloat, Seen, clockVars
  <2>2. TimerInv'
    BY <1>1, <1>2, <1>7 DEF SeeFloat, Seen, clockVars, TimerInv
  <2>3. BulkEnds' /\ LowIsCharged'
    BY <1>7 DEF SeeFloat, BulkEnds, LowIsCharged, Settled
  <2>4. QED
    BY <2>1, <2>2, <2>3
<1>8. CASE TestLow
  <2>1. ChargerTyped' /\ RunInv'
    BY <1>1, <1>3, <1>8 DEF TestLow, Done, clockVars
  <2>2. TimerInv'
    BY <1>8 DEF TestLow, Done, clockVars, TimerInv
  <2>3. BulkEnds' /\ LowIsCharged'
    BY <1>1, <1>2, <1>8, ChargerAssumption
       DEF TestLow, Done, clockVars, TimerInv, BulkEnds, LowIsCharged, Settled
  <2>4. QED
    BY <2>1, <2>2, <2>3
<1>9. CASE StampBulk
  <2>1. ChargerTyped' /\ RunInv'
    BY <1>1, <1>3, <1>9 DEF StampBulk, clockVars
  <2>2. TimerInv'
    BY <1>1, <1>2, <1>9 DEF StampBulk, clockVars, TimerInv
  <2>3. BulkEnds' /\ LowIsCharged'
    BY <1>9 DEF StampBulk, BulkEnds, LowIsCharged, Settled
  <2>4. QED
    BY <2>1, <2>2, <2>3
<1>10. CASE TurnBulk
  <2>1. ChargerTyped' /\ RunInv'
    BY <1>1, <1>3, <1>10 DEF TurnBulk, Done, clockVars
  <2>2. TimerInv'
    BY <1>1, <1>2, <1>10 DEF TurnBulk, Done, clockVars, TimerInv
  <2>3. BulkEnds' /\ LowIsCharged'
    BY <1>1, <1>10, ChargerAssumption
       DEF TurnBulk, Done, clockVars, BulkEnds, LowIsCharged, Settled
  <2>4. QED
    BY <2>1, <2>2, <2>3
<1>11. QED
  BY <1>4, <1>5, <1>6, <1>7, <1>8, <1>9, <1>10 DEF RunCharger

\* What other tasks, time, resets and sleeps do to the charger.
LEMMA OthersKeepCharger ==
  ASSUME ClockInv, ClockInv', ChargerInv, ChargerNext, ~RunCharger
  PROVE  ChargerInv'
<1> USE DEF ChargerInv, ChargerTyped, RunInv, InRun
<1>1. hw \in Nat /\ syncEsp \in Nat /\ syncUnix \in Nat /\ syncRtc \in Nat
  BY DEF ClockInv, ClockTyped
<1>2. CASE ChargerTick
  <2>1. ChargerTyped' /\ RunInv'
    BY <1>1, <1>2 DEF ChargerTick, Second, Awake, historyVars
  <2>2. TimerInv' /\ BulkEnds' /\ LowIsCharged'
    BY <1>2 DEF ChargerTick, Second, TimerInv, BulkEnds, LowIsCharged, Settled, historyVars
  <2>3. QED
    BY <2>1, <2>2
<1>3. ASSUME NEW z \in Zones, SetBegins(z) PROVE ChargerInv'
  <2>1. ChargerTyped' /\ RunInv'
    BY <1>1, <1>3 DEF SetBegins, SetUnix, Disturb, Awake
  <2>2. TimerInv' /\ BulkEnds' /\ LowIsCharged'
    BY <1>3 DEF SetBegins, SetUnix, TimerInv, BulkEnds, LowIsCharged, Settled
  <2>3. QED
    BY <2>1, <2>2
<1>4. CASE SetSyncs
  <2>1. ChargerTyped' /\ RunInv'
    BY <1>1, <1>4 DEF SetSyncs, SetSync, Disturb, Awake
  <2>2. TimerInv' /\ BulkEnds' /\ LowIsCharged'
    BY <1>4 DEF SetSyncs, SetSync, TimerInv, BulkEnds, LowIsCharged, Settled
  <2>3. QED
    BY <2>1, <2>2
<1>5. CASE ResetCharger
  <2>1. ChargerTyped' /\ RunInv'
    <3>1. (torn' <=> torn \/ InRun) /\ (mixed' <=> InRun)
      BY <1>5 DEF ResetCharger
    <3>2. /\ charge' = "float" /\ timer' = -1 /\ turned' = hw
          /\ UNCHANGED <<run, at, mode, ran, lowSince, hw, hibernate>>
      BY <1>5 DEF ResetCharger, SetOn
    <3>3. -1 \in Int
      OBVIOUS
    <3>4. ChargerTyped'
      BY <1>1, <3>2, <3>3
    <3>5. RunInv'
      BY <3>1, <3>2 DEF Awake
    <3>6. QED
      BY <3>4, <3>5
  <2>2. TimerInv' /\ BulkEnds' /\ LowIsCharged'
    BY <1>1, <1>5, ChargerAssumption
       DEF ResetCharger, SetOn, TimerInv, BulkEnds, LowIsCharged, Settled
  <2>3. QED
    BY <2>1, <2>2
<1>6. CASE BootEnds \/ HeldButton
  <2>1. /\ UNCHANGED <<charge, timer, run, at, ran, historyVars>>
        /\ UNCHANGED <<hw, rtcSet, syncUnix, syncEsp, setting, hibernate>>
        /\ mode' \in {"boot", "loop", "reboot"}
    BY <1>6 DEF BootEnds, HeldButton, SaveTime, clockVars
  <2>2. Now' = Now
    BY <2>1 DEF Now
  <2>3. ChargerTyped' /\ RunInv'
    BY <2>1, <2>2 DEF Awake, historyVars
  <2>4. TimerInv' /\ BulkEnds' /\ LowIsCharged'
    BY <2>1 DEF historyVars, TimerInv, BulkEnds, LowIsCharged, Settled
  <2>5. QED
    BY <2>3, <2>4
<1>7. CASE Erases
  <2>1. /\ UNCHANGED <<charge, timer, run, at, mode, ran, historyVars>>
        /\ UNCHANGED <<hw, rtcSet, syncUnix, syncEsp, setting>>
        /\ Awake'
    BY <1>7 DEF Erases, EraseSaved, Awake
  <2>2. Now' = Now
    BY <2>1 DEF Now
  <2>3. ChargerTyped' /\ RunInv'
    BY <2>1, <2>2 DEF historyVars
  <2>4. TimerInv' /\ BulkEnds' /\ LowIsCharged'
    BY <2>1 DEF historyVars, TimerInv, BulkEnds, LowIsCharged, Settled
  <2>5. QED
    BY <2>3, <2>4
<1>8. CASE Discards
  <2>1. ChargerTyped' /\ RunInv'
    BY <1>1, <1>8 DEF Discards, Discard, Disturb, Awake
  <2>2. TimerInv' /\ BulkEnds' /\ LowIsCharged'
    BY <1>8 DEF Discards, Discard, TimerInv, BulkEnds, LowIsCharged, Settled
  <2>3. QED
    BY <2>1, <2>2
<1>9. CASE Sleeps
  <2>1. ChargerTyped' /\ RunInv'
    BY <1>1, <1>9 DEF Sleeps, FallAsleep
  <2>2. TimerInv' /\ BulkEnds' /\ LowIsCharged'
    BY <1>9 DEF Sleeps, FallAsleep, TimerInv, BulkEnds, LowIsCharged, Settled
  <2>3. QED
    BY <2>1, <2>2
<1>10. CASE Wakes
  <2>1. /\ ~Awake /\ ~InRun /\ ~ran /\ setting = "none" /\ hw' = hw
        /\ UNCHANGED <<run, at, mode, ran, lowSince, torn, setting>>
    BY <1>10 DEF Wakes, WakeRestore, Awake, ClockInv, Referred
  <2>2. CASE ~rtcSet /\ nvs > 0
    BY <1>1, <1>10, <2>1, <2>2
       DEF Wakes, TimerInv, BulkEnds, LowIsCharged, Settled
  <2>3. CASE ~rtcSet /\ ~(nvs > 0)
    <3>1. rtcSet' = FALSE /\ UNCHANGED <<charge, timer, turned, mixed>>
      BY <1>10, <2>3 DEF Wakes, WakeRestore, RestoreFromNvs
    <3>2. QED
      BY <2>1, <3>1 DEF TimerInv, BulkEnds, LowIsCharged, Settled
  <2>4. CASE rtcSet
    <3>1. /\ syncUnix' = syncUnix + (hw - syncRtc) /\ syncEsp' = hw /\ rtcSet' = rtcSet
          /\ UNCHANGED <<charge, timer, turned, mixed>>
      BY <1>10, <2>4 DEF Wakes, WakeRestore, RestoredFromRtc
    <3>2. syncRtc = syncEsp
      BY <2>1, <2>4 DEF ClockInv, ClockTyped, Referred, Awake
    <3>3. TimerInv'
      BY <1>1, <2>1, <3>1, <3>2 DEF TimerInv
    <3>4. QED
      BY <2>1, <3>1, <3>3 DEF BulkEnds, LowIsCharged, Settled
  <2>5. QED
    BY <1>1, <2>2, <2>3, <2>4
<1>11. CASE Restarts
  <2>1. ChargerTyped' /\ RunInv'
    BY <1>1, <1>11 DEF Restarts, ColdRestore
  <2>2. rtcSet' => nvs > 0
    BY <1>11 DEF Restarts, ColdRestore, RestoreFromNvs
  <2>3. TimerInv' /\ BulkEnds' /\ LowIsCharged'
    BY <1>11, <2>2 DEF Restarts, TimerInv, BulkEnds, LowIsCharged, Settled
  <2>4. QED
    BY <2>1, <2>3
<1>12. QED
  BY <1>2, <1>3, <1>4, <1>5, <1>6, <1>7, <1>8, <1>9, <1>10, <1>11
     DEF ChargerNext, SetTime

LEMMA ChargerStutters ==
  ASSUME ChargerInv, UNCHANGED chargerVars
  PROVE  ChargerInv'
<1>1. ChargerTyped' /\ RunInv'
  BY DEF ChargerInv, ChargerTyped, RunInv, chargerVars, clockVars, historyVars, InRun, Now,
         Awake
<1>2. TimerInv' /\ BulkEnds' /\ LowIsCharged'
  BY DEF ChargerInv, TimerInv, BulkEnds, LowIsCharged, Settled, InRun, chargerVars,
         clockVars, historyVars
<1>3. QED
  BY <1>1, <1>2 DEF ChargerInv

LEMMA ChargerHolds == ChargerSpec => []ChargerInv
<1>1. ChargerInit => ClockInv /\ ChargerInv
  BY ClockStarts
     DEF ChargerInit, ClockInit, ChargerInv, ChargerTyped, RunInv, TimerInv, BulkEnds,
         LowIsCharged, Settled, InRun
<1>2. ClockInv /\ ChargerInv /\ [ChargerNext]_chargerVars => ClockInv' /\ ChargerInv'
  BY ChargerNextIsClockStep, ClockSteps, RunKeepsCharger, OthersKeepCharger,
     ChargerStutters
<1>3. QED
  BY <1>1, <1>2, PTL DEF ChargerSpec

(***************************************************************************)
(* BULK does not outlast CHG_BULK_S, whatever clock it is measured with,   *)
(* if the run that began it was not overtaken.                             *)
(***************************************************************************)
THEOREM BulkIsOver == ChargerSpec => []BulkEnds
<1>1. ChargerInv => BulkEnds
  BY DEF ChargerInv
<1>2. QED
  BY <1>1, ChargerHolds, PTL

(***************************************************************************)
(* A battery that stays low is charged by the first run after CHG_LOW_S,   *)
(* with the same exception.                                                *)
(***************************************************************************)
THEOREM LowGetsCharged == ChargerSpec => []LowIsCharged
<1>1. ChargerInv => LowIsCharged
  BY DEF ChargerInv
<1>2. QED
  BY <1>1, ChargerHolds, PTL

-----------------------------------------------------------------------------
(***************************************************************************)
(* DAYS.  A time is its day and its second of the day; the next time of a  *)
(* slot is the first after now that has the second of the slot.            *)
(***************************************************************************)
LEMMA DayConstants == Day \in Nat /\ Day > 0 /\ SlotTimes \subseteq 0..(Day - 1)
  BY ScheduleAssumption

LEMMA DaySplit ==
  ASSUME NEW t \in Nat, NEW d \in Nat, d > 0
  PROVE  \E p \in Nat, r \in 0..(d - 1) : r = t % d /\ t = d * p + r
<1>1. t % d \in 0..(d - 1)
  OBVIOUS
<1>2. t \div d \in Nat
  OBVIOUS
<1>3. t = d * (t \div d) + (t % d)
  OBVIOUS
<1>4. QED
  BY <1>1, <1>2, <1>3

\* A later day lies a day or more beyond.
LEMMA LaterDay ==
  ASSUME NEW p \in Nat, NEW q \in Nat, NEW d \in Nat, d > 0
  PROVE  /\ d * p \in Nat
         /\ p < q => d * p + d <= d * q
         /\ d * (p + 1) = d * p + d
  OBVIOUS

LEMMA SecondOfDay ==
  ASSUME NEW p \in Nat, NEW s \in Nat, NEW d \in Nat, d > 0, s < d
  PROVE  (d * p + s) % d = s
  OBVIOUS

LEMMA NextTimeIs ==
  ASSUME NEW slot \in 0..(Day - 1), NEW now \in Nat
  PROVE  /\ NextTime(slot, now) \in Nat
         /\ NextTime(slot, now) > now
         /\ NextTime(slot, now) % Day = slot
         /\ \A t \in Nat : t > now /\ t % Day = slot => NextTime(slot, now) <= t
<1>1. PICK q \in Nat, r \in 0..(Day - 1) : r = now % Day /\ now = Day * q + r
  BY DaySplit, DayConstants
<1> DEFINE D == Day * q
<1>2. D \in Nat /\ now = D + r /\ r \in Nat /\ r < Day
  BY <1>1, LaterDay, DayConstants
<1>3. slot \in Nat /\ slot < Day
  BY DayConstants
<1>4. (D + slot) % Day = slot
  BY <1>3, SecondOfDay, DayConstants
<1>5. (D + slot + Day) % Day = slot
  <2>1. Day * (q + 1) = D + Day
    BY LaterDay, DayConstants
  <2>2. (Day * (q + 1) + slot) % Day = slot
    BY <1>3, SecondOfDay, DayConstants
  <2> HIDE DEF D
  <2>3. (D + Day) + slot = D + slot + Day
    BY <1>2, <1>3, DayConstants
  <2>4. QED
    BY <2>1, <2>2, <2>3
<1>6. ASSUME NEW t \in Nat, t > now, t % Day = slot
      PROVE  t >= D + slot /\ (slot <= r => t >= D + slot + Day)
  <2>1. PICK p \in Nat, s \in 0..(Day - 1) : s = t % Day /\ t = Day * p + s
    BY DaySplit, DayConstants
  <2> DEFINE P == Day * p
  <2>2. P \in Nat /\ t = P + slot
    BY <1>6, <2>1, LaterDay, DayConstants
  <2>3. p < q => P + Day <= D
    BY LaterDay, DayConstants
  <2>4. q < p => D + Day <= P
    BY LaterDay, DayConstants
  <2>5. p = q => P = D
    OBVIOUS
  <2>6. p < q \/ p = q \/ q < p
    OBVIOUS
  <2> HIDE DEF P, D
  <2>7. ~(p < q)
    BY <1>2, <1>3, <1>6, <2>2, <2>3, DayConstants
  <2>8. CASE p = q
    BY <1>2, <1>3, <1>6, <2>2, <2>5, <2>8, DayConstants
  <2>9. CASE q < p
    BY <1>2, <1>3, <2>2, <2>4, <2>9, DayConstants
  <2>10. QED
    BY <2>6, <2>7, <2>8, <2>9
<1> HIDE DEF D
<1>7. NextTime(slot, now) = IF slot <= r THEN D + slot + Day ELSE D + slot
  <2>1. now - (now % Day) + slot = D + slot
    BY <1>1, <1>2, <1>3
  <2>2. D + slot <= now <=> slot <= r
    BY <1>2, <1>3
  <2>3. QED
    BY <2>1, <2>2 DEF NextTime
<1>8. NextTime(slot, now) \in Nat /\ NextTime(slot, now) > now
  BY <1>2, <1>3, <1>7, DayConstants
<1>9. NextTime(slot, now) % Day = slot
  BY <1>4, <1>5, <1>7
<1>10. ASSUME NEW t \in Nat, t > now, t % Day = slot PROVE NextTime(slot, now) <= t
  BY <1>6, <1>7, <1>10
<1>11. QED
  BY <1>8, <1>9, <1>10

LEMMA LeastIs ==
  ASSUME NEW S \in SUBSET Nat, S # {}
  PROVE  Least(S) \in S /\ \A k \in S : Least(S) <= k
<1>1. PICK m \in S : \A k \in S : ~(<<k, m>> \in OpToRel(<, Nat))
  BY NatLessThanWellFounded, WFMin
<1>2. ASSUME NEW k \in S PROVE ~(k < m)
  BY <1>1 DEF OpToRel
<1>3. \A k \in S : m <= k
  BY <1>2
<1>4. QED
  BY <1>3 DEF Least

\* Some slot of a table comes up at a time.
Comes(table, t) == \E i \in Slots : table[i] # None /\ t % Day = table[i]

\* An alarm stands at a time of the table, and none lies between now and it.
AlarmFor(a, table, now) ==
  /\ a # None => Comes(table, a)
  /\ \A t \in Nat : t > now /\ (a = None \/ t < a) => ~Comes(table, t)

LEMMA SoonestIs ==
  ASSUME NEW table \in Tables, NEW now \in Nat
  PROVE  /\ Soonest(table, now) = None
            \/ (IsAlarm(Soonest(table, now)) /\ Soonest(table, now) \in Nat /\ Soonest(table, now) > now)
         /\ AlarmFor(Soonest(table, now), table, now)
<1> DEFINE enabled == {i \in Slots : table[i] # None}
           times   == {NextTime(table[i], now) : i \in enabled}
<1>1. \A i \in enabled : table[i] \in SlotTimes /\ table[i] \in 0..(Day - 1)
  BY DayConstants DEF Tables
<1>2. CASE enabled = {}
  <2>1. Soonest(table, now) = None
    BY <1>2 DEF Soonest
  <2>2. \A t \in Nat : ~Comes(table, t)
    BY <1>2 DEF Comes
  <2>3. QED
    BY <2>1, <2>2 DEF AlarmFor
<1>3. CASE enabled # {}
  <2>1. Soonest(table, now) = Least(times)
    BY <1>3 DEF Soonest
  <2>2. times \in SUBSET Nat /\ times # {}
    BY <1>1, <1>3, NextTimeIs
  <2>3. PICK i \in enabled : Soonest(table, now) = NextTime(table[i], now)
    <3>1. Least(times) \in times
      BY <2>2, LeastIs
    <3>2. QED
      BY <2>1, <3>1
  <2>4. /\ Soonest(table, now) \in Nat /\ Soonest(table, now) > now
        /\ Soonest(table, now) % Day = table[i]
    BY <1>1, <2>3, NextTimeIs
  <2>5. Comes(table, Soonest(table, now))
    BY <2>4 DEF Comes
  <2>6. ASSUME NEW t \in Nat, t > now, t < Soonest(table, now), Comes(table, t)
        PROVE  FALSE
    <3>1. PICK k \in enabled : t % Day = table[k]
      BY <2>6 DEF Comes
    <3>2. NextTime(table[k], now) <= t /\ NextTime(table[k], now) \in Nat
      BY <1>1, <2>6, <3>1, NextTimeIs
    <3>3. Soonest(table, now) <= NextTime(table[k], now)
      <4>1. NextTime(table[k], now) \in times
        OBVIOUS
      <4>2. QED
        BY <2>1, <2>2, <4>1, LeastIs
    <3>4. QED
      BY <2>4, <2>6, <3>2, <3>3
  <2>7. Soonest(table, now) # None
    BY <2>4 DEF None
  <2>8. QED
    BY <1>1, <2>4, <2>5, <2>6, <2>7 DEF AlarmFor, IsAlarm
<1>4. QED
  BY <1>2, <1>3

\* A table that has a slot has a next time.
LEMMA SomeAlarm ==
  ASSUME NEW table \in Tables, NEW now \in Nat, NEW a, Comes(table, a)
  PROVE  Soonest(table, now) # None
<1>1. PICK i \in Slots : table[i] # None
  BY DEF Comes
<1>2. \A k \in Slots : table[k] # None => NextTime(table[k], now) \in Nat
  BY DayConstants, NextTimeIs DEF Tables
<1> DEFINE times == {NextTime(table[k], now) : k \in {k \in Slots : table[k] # None}}
<1>3. times \in SUBSET Nat /\ times # {}
  BY <1>1, <1>2
<1>4. Soonest(table, now) = Least(times)
  BY <1>1 DEF Soonest
<1>5. Least(times) \in Nat
  BY <1>3, LeastIs
<1>6. QED
  BY <1>4, <1>5 DEF None

\* An alarm of a time stays one of a later time.
LEMMA LaterAlarm ==
  ASSUME NEW a, NEW table, NEW now \in Nat, NEW then \in Nat, then >= now,
         AlarmFor(a, table, now)
  PROVE  AlarmFor(a, table, then)
  BY DEF AlarmFor

-----------------------------------------------------------------------------
ScheduleTyped ==
  /\ slots \in Tables /\ stored \in Tables /\ IsAlarm(alarm)
  /\ pc \in {"boot", "check", "compare", "start", "find", "arm", "reboot"}
  /\ seen \in Nat /\ post \in {"none", "set", "found", "commit"}
  /\ IsAlarm(found) /\ IsAlarm(reqFound) /\ owed \in Nat

ScheduleFlags ==
  /\ passed \in BOOLEAN /\ clean \in BOOLEAN /\ reqClean \in BOOLEAN
  /\ unsettled \in BOOLEAN /\ skipped \in BOOLEAN

\* A settled alarm is that of the clock and the slots; once it is over, its move
\* is owed, or the main loop is about to move it on.
SettledInv ==
  rtcSet /\ ~unsettled =>
    /\ AlarmFor(alarm, slots, Now)
    /\ alarm # None /\ alarm <= Now => owed # 0 \/ pc \in {"find", "arm"}

\* What was found for the alarm is still right, or it is known not to be; there is
\* one request at a time.
FoundInv ==
  /\ setting # "none" => post = "none"
  /\ pc = "arm" /\ clean => found = NextAlarm
  /\ setting = "found" \/ post = "found" =>
       (reqClean => reqFound = NextAlarm) /\ (~reqClean => ~rtcSet)

\* The time a pass compares with the alarm is the time that is.
CompareInv ==
  pc = "compare" =>
    /\ clean => seen = Now /\ ~unsettled /\ rtcSet /\ alarm # None
    /\ owed # 0 /\ ~skipped /\ ~unsettled => seen = Now

\* A move is owed from its alarm on.
OwedInv ==
  /\ owed # 0 => rtcSet
  /\ owed # 0 /\ ~skipped /\ ~unsettled => alarm # None /\ alarm <= Now

\* A pass that is over has started a move that was owed for more than its second.
PassInv ==
  /\ pc = "boot" => ~passed
  /\ pc = "check" /\ passed /\ owed # 0 /\ ~skipped /\ ~unsettled => ~(Now > alarm)

\* Nothing runs in a sleep.
AsleepInv == ~Awake => pc = "boot" /\ post = "none" /\ slots = stored

ScheduleInv ==
  /\ ScheduleTyped /\ AsleepInv
  /\ SettledInv /\ FoundInv /\ CompareInv /\ OwedInv /\ PassInv

LEMMA NextAlarmIs ==
  ASSUME ClockInv, ScheduleTyped
  PROVE  /\ IsAlarm(NextAlarm)
         /\ rtcSet => AlarmFor(NextAlarm, slots, Now)
         /\ rtcSet /\ NextAlarm # None => NextAlarm \in Nat /\ NextAlarm > Now
         /\ rtcSet => \A a : Comes(slots, a) => NextAlarm # None
<1>1. Now \in Nat /\ slots \in Tables
  BY NowTyped DEF ScheduleTyped
<1>2. CASE rtcSet
  <2>1. NextAlarm = Soonest(slots, Now)
    BY <1>2 DEF NextAlarm
  <2>2. IsAlarm(NextAlarm)
    BY <1>1, <2>1, SoonestIs DEF IsAlarm
  <2>3. AlarmFor(NextAlarm, slots, Now)
    BY <1>1, <2>1, SoonestIs
  <2>4. NextAlarm # None => NextAlarm \in Nat /\ NextAlarm > Now
    BY <1>1, <2>1, SoonestIs
  <2>5. \A a : Comes(slots, a) => NextAlarm # None
    BY <1>1, <2>1, SomeAlarm
  <2>6. QED
    BY <2>2, <2>3, <2>4, <2>5
<1>3. CASE ~rtcSet
  BY <1>3 DEF NextAlarm, IsAlarm
<1>4. QED
  BY <1>2, <1>3

LEMMA AlarmIsTime ==
  ASSUME NEW a, IsAlarm(a)
  PROVE  a \in Int /\ (a # None => a \in Nat)
  BY DEF IsAlarm, None

\* A saved time is restored: the alarm is that of the stored slots.
LEMMA AlarmRestored ==
  ASSUME ClockInv, ScheduleTyped, RestoreFromNvs, AlarmFromNvs, slots' = stored,
         hw' = hw, nvs' = nvs, owed # 0 => rtcSet
  PROVE  /\ IsAlarm(alarm') /\ owed' \in Nat
         /\ unsettled' = FALSE /\ skipped' = (owed' # 0)
         /\ owed' # 0 => rtcSet'
         /\ rtcSet' => /\ AlarmFor(alarm', slots', Now')
                       /\ alarm' # None => ~(alarm' <= Now')
<1> USE DEF ClockInv, ClockTyped, ScheduleTyped
<1>1. CASE nvs > 0
  <2>1. rtcSet' = TRUE /\ Now' = nvs
    BY <1>1 DEF RestoreFromNvs, Now
  <2>2. alarm' = Soonest(stored, nvs)
    BY <1>1 DEF AlarmFromNvs
  <2>3. nvs \in Nat /\ stored \in Tables
    OBVIOUS
  <2>4. AlarmFor(alarm', slots', Now') /\ IsAlarm(alarm')
    BY <2>1, <2>2, <2>3, SoonestIs DEF IsAlarm
  <2>5. alarm' # None => alarm' \in Nat /\ alarm' > nvs
    BY <2>2, <2>3, SoonestIs
  <2>6. owed' \in Nat /\ unsettled' = FALSE /\ skipped' = (owed' # 0)
    BY DEF AlarmFromNvs
  <2>7. QED
    BY <2>1, <2>3, <2>4, <2>5, <2>6
<1>2. CASE ~(nvs > 0)
  <2>1. rtcSet' = FALSE /\ alarm' = None
    BY <1>2 DEF RestoreFromNvs, AlarmFromNvs
  <2>2. owed' = 0 /\ unsettled' = FALSE /\ skipped' = (owed' # 0)
    BY <1>2 DEF AlarmFromNvs
  <2>3. QED
    BY <2>1, <2>2 DEF IsAlarm
<1>3. QED
  BY <1>1, <1>2

-----------------------------------------------------------------------------
\* Every variable stays in its type.
LEMMA ScheduleStaysTyped ==
  ASSUME ClockInv, ScheduleTyped, OwedInv, [Next]_vars
  PROVE  ScheduleTyped'
<1> USE DEF ScheduleTyped
<1>1. Now \in Nat /\ IsAlarm(NextAlarm) /\ IsAlarm(None)
  BY NowTyped, NextAlarmIs DEF IsAlarm
<1>2. CASE Tick
  <2>1. owed' \in Nat
    BY <1>1, <1>2 DEF Tick
  <2>2. QED
    BY <1>2, <2>1 DEF Tick, scheduleVars, requestVars
<1>3. CASE Booted \/ StartMove \/ HoldToReboot
  BY <1>3 DEF Booted, StartMove, HoldToReboot, scheduleVars, requestVars, history
<1>4. CASE Look \/ Compare
  BY <1>1, <1>4 DEF Look, Compare, PassOver, scheduleVars, requestVars
<1>5. CASE FindAlarm \/ ArmAlarm
  BY <1>1, <1>5 DEF FindAlarm, ArmAlarm, PassOver, Write, scheduleVars, requestVars
<1>6. CASE Requests
  <2>1. ASSUME NEW z \in Zones, BeginSet(z) PROVE ScheduleTyped'
    BY <2>1 DEF BeginSet, scheduleVars, mainVars, requestVars
  <2>2. ASSUME NEW i \in Slots, NEW t \in SlotTimes \union {None}, SetSlot(i, t)
        PROVE  ScheduleTyped'
    <3>1. slots' \in Tables
      BY <2>2 DEF SetSlot, Tables
    <3>2. owed' \in Nat /\ post' = "set"
      BY <2>2 DEF SetSlot
    <3>3. UNCHANGED <<stored, alarm, pc, seen, found, reqFound>>
      BY <2>2 DEF SetSlot, mainVars
    <3>4. QED
      BY <3>1, <3>2, <3>3
  <2>3. CASE SyncSet \/ FindAfterSet \/ EndSet
    BY <1>1, <2>3 DEF SyncSet, FindAfterSet, EndSet, FindForRequest, WriteForRequest, Write,
       scheduleVars, mainVars, requestVars
  <2>4. CASE SetOther \/ FindAfterPost \/ EndPost \/ Commit
    BY <1>1, <2>4 DEF SetOther, FindAfterPost, EndPost, Commit, FindForRequest,
       WriteForRequest, Write, scheduleVars, mainVars, history
  <2>5. QED
    BY <1>6, <2>1, <2>2, <2>3, <2>4 DEF Requests
<1>7. CASE Reboot
  <2>1. IsAlarm(alarm') /\ owed' \in Nat
    BY <1>7, AlarmRestored DEF Reboot, ColdRestore, Halt, OwedInv
  <2>2. QED
    BY <1>1, <1>7, <2>1 DEF Reboot, Halt
<1>8. CASE EraseTime
  BY <1>8 DEF EraseTime, scheduleVars, mainVars, requestVars, history
<1>9. CASE DiscardTime
  BY <1>1, <1>9 DEF DiscardTime, mainVars, requestVars
<1>10. CASE Sleep
  BY <1>1, <1>10 DEF Sleep, Halt
<1>11. CASE Wake
  <2>1. UNCHANGED <<slots, stored, pc, seen, found, post, reqFound>>
    BY <1>11 DEF Wake, mainVars, requestVars
  <2>2. IsAlarm(alarm') /\ owed' \in Nat
    <3>1. CASE rtcSet \/ ~(nvs > 0)
      BY <1>11, <3>1 DEF Wake
    <3>2. CASE ~rtcSet /\ nvs > 0
      <4>1. AlarmFromNvs
        BY <1>11, <3>2 DEF Wake
      <4>2. alarm' = Soonest(stored, nvs) /\ owed' \in Nat
        BY <3>2, <4>1 DEF AlarmFromNvs
      <4>3. IsAlarm(Soonest(stored, nvs))
        BY SoonestIs DEF IsAlarm, ClockInv, ClockTyped
      <4>4. QED
        BY <4>2, <4>3
    <3>3. QED
      BY <3>1, <3>2
  <2>3. QED
    BY <2>1, <2>2
<1>12. CASE UNCHANGED vars
  BY <1>12 DEF vars, scheduleVars, mainVars, requestVars, history
<1>13. QED
  BY <1>2, <1>3, <1>4, <1>5, <1>6, <1>7, <1>8, <1>9, <1>10, <1>11, <1>12
     DEF Next, MainLoop, Resets

LEMMA ScheduleFlagsStay ==
  ASSUME ScheduleFlags, [Next]_vars
  PROVE  ScheduleFlags'
<1> USE DEF ScheduleFlags
<1>1. CASE Tick
  <2>1. passed' = FALSE /\ skipped' = (skipped /\ owed # 0)
        /\ UNCHANGED <<clean, reqClean, unsettled>>
    BY <1>1 DEF Tick
  <2>2. QED
    BY <2>1
<1>2. CASE Booted \/ StartMove \/ FindAlarm \/ HoldToReboot
  BY <1>2 DEF Booted, StartMove, FindAlarm, HoldToReboot, requestVars, history
<1>3. CASE Look
  <2>1. UNCHANGED <<reqClean, unsettled, skipped>>
    BY <1>3 DEF Look
  <2>2. passed' \in BOOLEAN /\ clean' \in BOOLEAN
    BY <1>3 DEF Look, PassOver
  <2>3. QED
    BY <2>1, <2>2
<1>4. CASE Compare
  <2>1. UNCHANGED <<reqClean, unsettled, skipped>>
    BY <1>4 DEF Compare
  <2>2. passed' \in BOOLEAN /\ clean' \in BOOLEAN
    BY <1>4 DEF Compare, PassOver
  <2>3. QED
    BY <2>1, <2>2
<1>5. ASSUME NEW next, NEW true \in BOOLEAN, Write(next, true)
      PROVE  unsettled' \in BOOLEAN /\ skipped' \in BOOLEAN
  BY <1>5 DEF Write
<1>6. CASE ArmAlarm
  BY <1>5, <1>6 DEF ArmAlarm, PassOver
<1>7. CASE EndSet \/ EndPost
  BY <1>5, <1>7 DEF EndSet, EndPost, WriteForRequest, mainVars
<1>8. CASE SyncSet \/ FindAfterSet
  BY <1>8 DEF SyncSet, FindAfterSet, FindForRequest, mainVars, requestVars
<1>9. CASE SetOther \/ FindAfterPost \/ Commit
  BY <1>9 DEF SetOther, FindAfterPost, Commit, FindForRequest, mainVars, history
<1>10. ASSUME NEW z \in Zones, BeginSet(z) PROVE ScheduleFlags'
  BY <1>10 DEF BeginSet, mainVars
<1>11. ASSUME NEW i \in Slots, NEW t \in SlotTimes \union {None}, SetSlot(i, t)
       PROVE  ScheduleFlags'
  BY <1>11 DEF SetSlot, mainVars
<1>12. ASSUME AlarmFromNvs PROVE unsettled' \in BOOLEAN /\ skipped' \in BOOLEAN
  BY <1>12 DEF AlarmFromNvs
<1>13. CASE Reboot
  BY <1>12, <1>13 DEF Reboot, Halt
<1>14. CASE EraseTime \/ DiscardTime
  BY <1>14 DEF EraseTime, DiscardTime, mainVars, history
<1>15. CASE Sleep
  <2>1. unsettled' \in BOOLEAN
    BY <1>15 DEF Sleep
  <2>2. QED
    BY <1>15, <2>1 DEF Sleep, Halt
<1>16. CASE Wake
  <2>1. unsettled' \in BOOLEAN /\ skipped' \in BOOLEAN
    BY <1>12, <1>16 DEF Wake
  <2>2. QED
    BY <1>16, <2>1 DEF Wake, mainVars
<1>17. CASE UNCHANGED vars
  BY <1>17 DEF vars, mainVars, history
<1>18. QED
  BY <1>1, <1>2, <1>3, <1>4, <1>6, <1>7, <1>8, <1>9, <1>10, <1>11, <1>13, <1>14, <1>15,
     <1>16, <1>17 DEF Next, MainLoop, Requests, Resets

\* A second goes by: the alarm that is now over is that of a slot that comes up.
LEMMA TickKeepsSchedule ==
  ASSUME ClockInv, ScheduleInv, Tick
  PROVE  SettledInv' /\ FoundInv' /\ CompareInv' /\ OwedInv' /\ PassInv'
<1> USE DEF ScheduleTyped
<1>1. ScheduleTyped /\ SettledInv /\ FoundInv /\ CompareInv /\ OwedInv /\ PassInv
  BY DEF ScheduleInv
<1>2. /\ UNCHANGED <<rtcSet, syncUnix, syncEsp, setting, slots, alarm, pc, unsettled, post>>
      /\ hw' = hw + 1 /\ passed' = FALSE /\ skipped' = (skipped /\ owed # 0)
      /\ pc \in {"boot", "start", "reboot", "check"} /\ setting = "none" /\ post # "found"
  BY DEF Tick, Second, scheduleVars, requestVars
<1>3. hw \in Nat /\ syncUnix \in Nat /\ syncEsp \in Nat /\ Now \in Nat
  BY NowTyped DEF ClockInv, ClockTyped
<1>4. rtcSet => Now' = Now + 1
  BY <1>2, <1>3 DEF Now
<1>5. alarm \in Int
  BY <1>1, AlarmIsTime
<1>6. /\ owed = 0 => owed' = 0 \/ (owed' = Now + 1 /\ rtcSet)
      /\ owed # 0 => owed' = owed
      /\ owed' = 0 => ~rtcSet \/ unsettled \/ DueAt(Now + 1) = {}
  BY <1>1, <1>3 DEF Tick
<1>7. DueAt(Now + 1) = {} <=> ~Comes(slots, Now + 1)
  BY DEF DueAt, Comes
<1>8. ASSUME rtcSet, ~unsettled PROVE AlarmFor(alarm, slots, Now')
  <2>1. AlarmFor(alarm, slots, Now)
    BY <1>1, <1>8 DEF SettledInv
  <2>2. QED
    BY <1>3, <1>4, <1>8, <2>1, LaterAlarm
<1>9. ASSUME rtcSet, ~unsettled, alarm # None, alarm <= Now + 1 PROVE owed' # 0
  <2>1. CASE alarm <= Now
    BY <1>1, <1>2, <1>6, <1>9, <2>1 DEF SettledInv
  <2>2. CASE alarm = Now + 1
    <3>1. Comes(slots, Now + 1)
      BY <1>1, <1>9, <2>2 DEF SettledInv, AlarmFor
    <3>2. QED
      BY <1>6, <1>7, <1>9, <3>1
  <2>3. QED
    BY <1>3, <1>5, <1>9, <2>1, <2>2
<1>10. SettledInv'
  BY <1>2, <1>4, <1>8, <1>9 DEF SettledInv
<1>11. OwedInv'
  <2>1. owed' # 0 => rtcSet
    BY <1>1, <1>6 DEF OwedInv
  <2>2. ASSUME owed' # 0, ~skipped', ~unsettled PROVE alarm # None /\ alarm <= Now + 1
    <3>1. CASE owed # 0
      <4>1. ~skipped
        BY <1>2, <2>2, <3>1
      <4>2. alarm # None /\ alarm <= Now
        BY <1>1, <2>2, <3>1, <4>1 DEF OwedInv
      <4>3. QED
        BY <1>3, <1>5, <4>2
    <3>2. CASE owed = 0
      <4>1. rtcSet /\ DueAt(Now + 1) # {}
        BY <2>2, <3>2 DEF Tick
      <4>2. Comes(slots, Now + 1) /\ AlarmFor(alarm, slots, Now)
        BY <1>1, <1>7, <2>2, <4>1 DEF SettledInv
      <4>3. ~(Now + 1 > Now /\ (alarm = None \/ Now + 1 < alarm))
        <5>1. Now + 1 \in Nat
          BY <1>3
        <5>2. QED
          BY <4>2, <5>1 DEF AlarmFor
      <4>4. QED
        BY <1>3, <1>5, <4>3
    <3>3. QED
      BY <3>1, <3>2
  <2>3. QED
    BY <1>2, <1>4, <2>1, <2>2 DEF OwedInv
<1>12. FoundInv' /\ CompareInv' /\ PassInv'
  BY <1>2 DEF FoundInv, CompareInv, PassInv
<1>13. QED
  BY <1>10, <1>11, <1>12

\* The main loop, up to the step that writes the alarm.
LEMMA PassKeepsSchedule ==
  ASSUME ClockInv, ScheduleInv,
         Booted \/ Look \/ Compare \/ StartMove \/ FindAlarm \/ HoldToReboot
  PROVE  SettledInv' /\ FoundInv' /\ CompareInv' /\ OwedInv' /\ PassInv'
<1> USE DEF ScheduleTyped
<1>1. ScheduleTyped /\ SettledInv /\ FoundInv /\ CompareInv /\ OwedInv /\ PassInv
  BY DEF ScheduleInv
<1>2. /\ UNCHANGED <<hw, rtcSet, syncUnix, syncRtc, syncEsp, setting, slots, alarm,
                     unsettled, post, reqFound, reqClean>>
  BY DEF Booted, Look, Compare, StartMove, FindAlarm, HoldToReboot, SaveTime, clockVars,
         scheduleVars, requestVars, history
<1>3. Now' = Now /\ NextAlarm' = NextAlarm
  BY <1>2 DEF Now, NextAlarm, Soonest, NextTime, Slots
<1>4. Now \in Nat /\ alarm \in Int
  BY <1>1, NowTyped, AlarmIsTime DEF ClockInv, ClockTyped
<1>5. /\ owed' = owed \/ (owed' = 0 /\ pc' = "find")
      /\ skipped' = skipped \/ owed' = 0
      /\ pc \in {"find", "arm"} => pc' \in {"find", "arm"}
  BY DEF Booted, Look, Compare, StartMove, FindAlarm, HoldToReboot, PassOver, history
<1>6. SettledInv'
  BY <1>1, <1>2, <1>3, <1>5 DEF SettledInv
<1>7. OwedInv'
  BY <1>1, <1>2, <1>3, <1>5 DEF OwedInv
<1>8. FoundInv'
  <2>1. pc' = "arm" => found' = NextAlarm
    BY DEF Booted, Look, Compare, StartMove, FindAlarm, HoldToReboot, PassOver
  <2>2. QED
    BY <1>1, <1>2, <1>3, <2>1 DEF FoundInv
<1>9. CASE Look
  <2>1. pc' # "boot" /\ owed' = owed /\ skipped' = skipped
    BY <1>9 DEF Look, PassOver
  <2>2. CompareInv'
    <3>1. pc' = "compare" => rtcSet /\ alarm # None /\ seen' = Now /\ clean' = (~unsettled)
      BY <1>9 DEF Look, PassOver
    <3>2. pc' = "compare" /\ clean' => ~unsettled
      BY <3>1
    <3>3. QED
      BY <1>2, <1>3, <3>1, <3>2 DEF CompareInv
  <2>3. pc' = "check" => ~rtcSet
    BY <1>9 DEF Look
  <2>4. PassInv'
    BY <1>1, <2>1, <2>3 DEF PassInv, OwedInv
  <2>5. QED
    BY <1>6, <1>7, <1>8, <2>2, <2>4
<1>10. CASE Compare
  <2>1. pc = "compare" /\ pc' \in {"check", "start"} /\ owed' = owed /\ skipped' = skipped
    BY <1>10 DEF Compare, PassOver
  <2>2. pc' = "check" => ~(seen > alarm)
    BY <1>10 DEF Compare
  <2>3. CompareInv'
    BY <2>1 DEF CompareInv
  <2>4. PassInv'
    BY <1>1, <1>2, <1>3, <2>1, <2>2 DEF PassInv, CompareInv
  <2>5. QED
    BY <1>6, <1>7, <1>8, <2>3, <2>4
<1>11. CASE Booted \/ StartMove \/ FindAlarm \/ HoldToReboot
  <2>1. /\ pc' # "compare" /\ pc' # "boot"
        /\ pc' = "check" => passed' = passed /\ pc = "boot"
    BY <1>11 DEF Booted, StartMove, FindAlarm, HoldToReboot
  <2>2. QED
    BY <1>1, <1>6, <1>7, <1>8, <2>1 DEF CompareInv, PassInv
<1>12. QED
  BY <1>9, <1>10, <1>11

\* What is done to clock and slots leaves the alarm unsettled.
LEMMA ChangesKeepSchedule ==
  ASSUME ClockInv, ScheduleInv,
         \/ \E z \in Zones : BeginSet(z)
         \/ SyncSet
         \/ \E i \in Slots, t \in SlotTimes \union {None} : SetSlot(i, t)
  PROVE  SettledInv' /\ FoundInv' /\ CompareInv' /\ OwedInv' /\ PassInv'
<1>1. ScheduleTyped /\ CompareInv /\ OwedInv /\ PassInv
  BY DEF ScheduleInv
<1>2. unsettled' = TRUE /\ clean' = FALSE
  BY DEF BeginSet, SyncSet, SetSlot
<1> DEFINE OneRequest == /\ setting' # "found" /\ post' # "found"
                         /\ setting' # "none" => post' = "none"
                         /\ UNCHANGED <<pc, passed>>
<1>3. OneRequest
  <2>1. ASSUME NEW z \in Zones, BeginSet(z) PROVE OneRequest
    BY <2>1 DEF BeginSet, SetUnix, mainVars, requestVars
  <2>2. CASE SyncSet
    <3>1. setting = "unix" /\ setting' = "sync" /\ UNCHANGED <<pc, passed, post>>
      BY <2>2 DEF SyncSet, SetSync, mainVars, requestVars
    <3>2. post = "none"
      BY <3>1 DEF ScheduleInv, FoundInv
    <3>3. QED
      BY <3>1, <3>2
  <2>3. ASSUME NEW i \in Slots, NEW t \in SlotTimes \union {None}, SetSlot(i, t)
        PROVE  OneRequest
    BY <2>3 DEF SetSlot, mainVars
  <2>4. QED
    BY <2>1, <2>2, <2>3
<1>4. owed' # 0 => rtcSet'
  BY <1>1 DEF BeginSet, SyncSet, SetSync, SetSlot, OwedInv
<1>5. QED
  BY <1>1, <1>2, <1>3, <1>4 DEF SettledInv, FoundInv, CompareInv, OwedInv, PassInv

\* A request that finds the alarm, and what it and others do to neither clock nor
\* slots.
LEMMA AsidesKeepSchedule ==
  ASSUME ClockInv, ScheduleInv,
         FindAfterSet \/ FindAfterPost \/ SetOther \/ Commit \/ EraseTime
  PROVE  SettledInv' /\ FoundInv' /\ CompareInv' /\ OwedInv' /\ PassInv'
<1>1. SettledInv /\ FoundInv /\ CompareInv /\ OwedInv /\ PassInv
  BY DEF ScheduleInv
<1>2. UNCHANGED <<hw, rtcSet, syncUnix, syncRtc, syncEsp, slots, alarm, pc, passed, seen,
                  found, owed, clean, unsettled, skipped>>
  BY DEF FindAfterSet, SetOn, FindAfterPost, SetOther, Commit, EraseTime, EraseSaved,
         clockVars, scheduleVars, mainVars, history
<1>3. Now' = Now /\ NextAlarm' = NextAlarm
  BY <1>2 DEF Now, NextAlarm, Soonest, NextTime, Slots
<1>4. SettledInv' /\ CompareInv' /\ OwedInv' /\ PassInv'
  BY <1>1, <1>2, <1>3 DEF SettledInv, CompareInv, OwedInv, PassInv
<1>5. setting' # "none" => post' = "none"
  BY <1>1 DEF FoundInv, FindAfterSet, SetOn, FindAfterPost, SetOther, Commit, EraseTime,
     EraseSaved, clockVars, requestVars
<1>6. CASE FindAfterSet \/ FindAfterPost
  <2>1. reqFound' = NextAlarm /\ reqClean' = TRUE
    BY <1>6 DEF FindAfterSet, FindAfterPost, FindForRequest
  <2>2. QED
    BY <1>1, <1>2, <1>3, <1>4, <1>5, <2>1 DEF FoundInv
<1>7. CASE SetOther \/ Commit \/ EraseTime
  <2>1. /\ UNCHANGED <<reqFound, reqClean, setting>>
        /\ post' = "found" => post = "found"
    BY <1>7 DEF SetOther, Commit, EraseTime, EraseSaved, clockVars, requestVars, history
  <2>2. QED
    BY <1>1, <1>2, <1>3, <1>4, <1>5, <2>1 DEF FoundInv
<1>8. QED
  BY <1>6, <1>7

\* An alarm that is written goes with clock and slots, or is known not to.
LEMMA WritesKeepSchedule ==
  ASSUME ClockInv, ScheduleInv, ArmAlarm \/ EndSet \/ EndPost
  PROVE  SettledInv' /\ FoundInv' /\ CompareInv' /\ OwedInv' /\ PassInv'
<1>1. ScheduleTyped /\ SettledInv /\ FoundInv /\ CompareInv /\ OwedInv /\ PassInv
  BY DEF ScheduleInv
<1>2. UNCHANGED <<hw, rtcSet, syncUnix, syncRtc, syncEsp, slots, owed>>
  BY DEF ArmAlarm, EndSet, SetOn, EndPost, clockVars
<1>3. Now' = Now /\ NextAlarm' = NextAlarm
  BY <1>2 DEF Now, NextAlarm, Soonest, NextTime, Slots
<1>4. Now \in Nat
  BY NowTyped
<1>5. PICK next, true : /\ Write(next, true)
                        /\ rtcSet /\ true => next = NextAlarm
  <2>1. CASE ArmAlarm
    BY <1>1, <2>1 DEF ArmAlarm, FoundInv
  <2>2. CASE EndSet \/ EndPost
    <3>1. Write(reqFound, reqClean) /\ (setting = "found" \/ post = "found")
      BY <2>2 DEF EndSet, SetOn, EndPost, WriteForRequest
    <3>2. QED
      BY <1>1, <3>1 DEF FoundInv
  <2>3. QED
    BY <2>1, <2>2
<1>6. ~unsettled' /\ rtcSet => alarm' = NextAlarm
  <2>1. alarm' = next /\ unsettled' = ~true
    BY <1>5 DEF Write
  <2>2. ~unsettled' => true
    BY <2>1
  <2>3. QED
    BY <1>5, <2>1, <2>2
<1>7. owed # 0 => skipped'
  BY <1>5 DEF Write
<1>8. SettledInv'
  <2>1. ASSUME rtcSet, ~unsettled'
        PROVE  AlarmFor(alarm', slots, Now) /\ (alarm' # None => ~(alarm' <= Now))
    BY <1>1, <1>4, <1>6, <2>1, NextAlarmIs
  <2>2. QED
    BY <1>2, <1>3, <2>1 DEF SettledInv
<1>9. OwedInv'
  BY <1>1, <1>2, <1>7 DEF OwedInv
<1>10. /\ pc' = pc \/ (pc = "arm" /\ pc' = "check")
       /\ pc' = pc => UNCHANGED <<passed, seen, found, clean>>
  BY DEF ArmAlarm, PassOver, EndSet, EndPost, mainVars
<1>11. FoundInv'
  <2>1. pc' = "arm" /\ clean' => found' = NextAlarm
    BY <1>1, <1>10 DEF FoundInv
  <2>2. CASE ArmAlarm
    <3>1. UNCHANGED <<setting, post, reqFound, reqClean>>
      BY <2>2 DEF ArmAlarm, clockVars, requestVars
    <3>2. QED
      BY <1>1, <1>2, <1>3, <2>1, <3>1 DEF FoundInv
  <2>3. CASE EndSet
    <3>1. setting = "found" /\ setting' = "none" /\ post' = post
      BY <2>3 DEF EndSet, SetOn
    <3>2. QED
      BY <1>1, <1>3, <2>1, <3>1 DEF FoundInv
  <2>4. CASE EndPost
    <3>1. post = "found" /\ post' = "commit" /\ setting' = setting
      BY <2>4 DEF EndPost, clockVars
    <3>2. QED
      BY <1>1, <1>3, <2>1, <3>1 DEF FoundInv
  <2>5. QED
    BY <2>2, <2>3, <2>4
<1>12. CompareInv'
  <2>1. pc' = "compare" => UNCHANGED <<pc, seen, clean>> /\ (EndSet \/ EndPost)
    BY <1>10 DEF ArmAlarm, PassOver
  <2>2. ASSUME pc' = "compare", clean'
        PROVE  seen = Now /\ ~unsettled' /\ rtcSet /\ alarm' # None
    <3>1. seen = Now /\ ~unsettled /\ rtcSet /\ alarm # None
      BY <1>1, <2>1, <2>2 DEF CompareInv
    <3>2. reqClean
      BY <1>1, <2>1, <2>2, <3>1 DEF FoundInv, EndSet, SetOn, EndPost
    <3>3. alarm' = reqFound /\ unsettled' = ~reqClean
      BY <2>1, <2>2 DEF EndSet, EndPost, WriteForRequest, Write
    <3>4. alarm' = NextAlarm /\ ~unsettled'
      BY <1>6, <3>1, <3>2, <3>3
    <3>5. Comes(slots, alarm)
      BY <1>1, <3>1 DEF SettledInv, AlarmFor
    <3>6. QED
      BY <1>1, <3>1, <3>4, <3>5, NextAlarmIs
  <2>3. QED
    BY <1>2, <1>3, <1>7, <2>1, <2>2 DEF CompareInv
<1>13. PassInv'
  BY <1>1, <1>2, <1>7, <1>10 DEF PassInv
<1>14. QED
  BY <1>8, <1>9, <1>11, <1>12, <1>13

\* What a reset or hibernation leaves goes together.
LEMMA ResetsKeepSchedule ==
  ASSUME ClockInv, ScheduleInv, Reboot \/ DiscardTime \/ Sleep \/ Wake
  PROVE  SettledInv' /\ FoundInv' /\ CompareInv' /\ OwedInv' /\ PassInv'
<1>1. ScheduleTyped /\ SettledInv /\ FoundInv /\ CompareInv /\ OwedInv /\ PassInv
  BY DEF ScheduleInv
<1>2. CASE Reboot
  <2>1. /\ RestoreFromNvs /\ AlarmFromNvs /\ slots' = stored /\ UNCHANGED <<hw, nvs>>
        /\ setting' = "none" /\ post' = "none" /\ pc' = "boot" /\ passed' = FALSE
    BY <1>2 DEF Reboot, ColdRestore, Halt
  <2>2. /\ unsettled' = FALSE /\ skipped' = (owed' # 0)
        /\ owed' # 0 => rtcSet'
        /\ rtcSet' => /\ AlarmFor(alarm', slots', Now')
                      /\ alarm' # None => ~(alarm' <= Now')
    BY <1>1, <2>1, AlarmRestored DEF OwedInv
  <2>3. owed' # 0 => skipped'
    BY <2>2
  <2>4. QED
    BY <2>1, <2>2, <2>3 DEF SettledInv, FoundInv, CompareInv, OwedInv, PassInv
<1>3. CASE DiscardTime
  <2>1. /\ rtcSet' = FALSE /\ owed' = 0 /\ clean' = FALSE /\ reqClean' = FALSE
        /\ UNCHANGED <<setting, pc, passed, post>>
    BY <1>3 DEF DiscardTime, Discard, mainVars, requestVars
  <2>2. QED
    BY <1>1, <2>1 DEF SettledInv, FoundInv, CompareInv, OwedInv, PassInv
<1>4. CASE Sleep
  <2>1. /\ UNCHANGED <<hw, rtcSet, syncUnix, syncRtc, syncEsp, alarm, owed, skipped>>
        /\ setting' = "none" /\ post' = "none" /\ pc' = "boot" /\ passed' = FALSE
        /\ slots' = stored
    BY <1>4 DEF Sleep, FallAsleep, Halt
  <2>2. ~unsettled' => ~unsettled /\ slots = stored /\ pc \notin {"find", "arm"}
    BY <1>4 DEF Sleep
  <2>3. Now' = Now
    BY <2>1 DEF Now
  <2>4. SettledInv'
    BY <1>1, <2>1, <2>2, <2>3 DEF SettledInv
  <2>5. OwedInv'
    BY <1>1, <2>1, <2>2, <2>3 DEF OwedInv
  <2>6. QED
    BY <2>1, <2>4, <2>5 DEF FoundInv, CompareInv, PassInv
<1>5. CASE Wake
  <2>1. /\ ~Awake /\ UNCHANGED <<hw, nvs, setting, slots, stored, pc, passed, seen, found,
                                 post, reqFound, clean, reqClean>>
    BY <1>5 DEF Wake, WakeRestore, Awake, mainVars, requestVars
  <2>2. setting = "none"
    BY <2>1 DEF ClockInv, Referred
  <2>3. CASE rtcSet
    <3>1. /\ UNCHANGED <<rtcSet, alarm, owed, unsettled, skipped>>
          /\ syncUnix' = syncUnix + (hw - syncRtc) /\ syncEsp' = hw
      BY <1>5, <2>3 DEF Wake, WakeRestore, RestoredFromRtc
    <3>2. Now' = Now
      BY <2>1, <2>3, <3>1 DEF Now, Awake, ClockInv, ClockTyped, Referred
    <3>3. NextAlarm' = NextAlarm
      BY <2>1, <3>1, <3>2 DEF NextAlarm, Soonest, NextTime, Slots
    <3>4. QED
      BY <1>1, <2>1, <3>1, <3>2, <3>3 DEF SettledInv, FoundInv, CompareInv, OwedInv, PassInv
  <2>4. pc = "boot" /\ post = "none" /\ slots = stored
    BY <2>1 DEF ScheduleInv, AsleepInv
  <2>5. CASE ~rtcSet /\ nvs > 0
    <3>1. RestoreFromNvs /\ AlarmFromNvs
      BY <1>5, <2>5 DEF Wake, WakeRestore
    <3>2. /\ unsettled' = FALSE /\ skipped' = (owed' # 0)
          /\ owed' # 0 => rtcSet'
          /\ rtcSet' => /\ AlarmFor(alarm', slots', Now')
                        /\ alarm' # None => ~(alarm' <= Now')
      BY <1>1, <2>1, <2>4, <3>1, AlarmRestored DEF OwedInv
    <3>3. owed' # 0 => skipped'
      BY <3>2
    <3>4. SettledInv' /\ OwedInv'
      BY <3>2, <3>3 DEF SettledInv, OwedInv
    <3>5. FoundInv' /\ CompareInv' /\ PassInv'
      BY <1>1, <2>1, <2>2, <2>4 DEF FoundInv, CompareInv, PassInv
    <3>6. QED
      BY <3>4, <3>5
  <2>6. CASE ~rtcSet /\ ~(nvs > 0)
    <3>1. rtcSet' = FALSE /\ owed' = 0
      BY <1>5, <2>6 DEF Wake, WakeRestore, RestoreFromNvs
    <3>2. QED
      BY <1>1, <2>1, <2>2, <2>4, <3>1 DEF SettledInv, FoundInv, CompareInv, OwedInv, PassInv
  <2>7. QED
    BY <2>3, <2>5, <2>6
<1>6. QED
  BY <1>2, <1>3, <1>4, <1>5

LEMMA SleepersKeepStill ==
  ASSUME AsleepInv, [Next]_vars
  PROVE  AsleepInv'
<1> USE DEF AsleepInv, Awake
<1>1. CASE Tick
  BY <1>1 DEF Tick, Second, scheduleVars, requestVars
<1>2. CASE MainLoop
  BY <1>2 DEF MainLoop, Booted, Look, Compare, StartMove, FindAlarm, ArmAlarm, HoldToReboot,
     SaveTime, PassOver, Write, clockVars, scheduleVars, requestVars, Awake
<1>3. CASE Requests
  <2>1. ASSUME NEW z \in Zones, BeginSet(z) PROVE AsleepInv'
    BY <2>1 DEF BeginSet, SetUnix
  <2>2. ASSUME NEW i \in Slots, NEW t \in SlotTimes \union {None}, SetSlot(i, t)
        PROVE  AsleepInv'
    BY <2>2 DEF SetSlot
  <2>3. CASE SyncSet \/ FindAfterSet \/ EndSet
    BY <2>3 DEF SyncSet, SetSync, FindAfterSet, SetOn, EndSet, scheduleVars, mainVars,
       requestVars
  <2>4. CASE SetOther \/ FindAfterPost \/ EndPost \/ Commit
    BY <2>4 DEF SetOther, FindAfterPost, EndPost, Commit, clockVars, scheduleVars, mainVars
  <2>5. QED
    BY <1>3, <2>1, <2>2, <2>3, <2>4 DEF Requests
<1>4. CASE Reboot
  BY <1>4 DEF Reboot, ColdRestore
<1>5. CASE EraseTime \/ DiscardTime
  BY <1>5 DEF EraseTime, EraseSaved, DiscardTime, Discard
<1>6. CASE Sleep
  BY <1>6 DEF Sleep, Halt
<1>7. CASE Wake
  BY <1>7 DEF Wake, WakeRestore
<1>8. CASE UNCHANGED vars
  BY <1>8 DEF vars, clockVars, scheduleVars, mainVars, requestVars
<1>9. QED
  BY <1>1, <1>2, <1>3, <1>4, <1>5, <1>6, <1>7, <1>8 DEF Next, Resets

LEMMA ScheduleStutters ==
  ASSUME ScheduleInv, UNCHANGED vars
  PROVE  SettledInv' /\ FoundInv' /\ CompareInv' /\ OwedInv' /\ PassInv'
<1>1. UNCHANGED <<hw, rtcSet, syncUnix, syncEsp, setting, slots, alarm, pc, passed, seen,
                  found, post, reqFound, owed, clean, reqClean, unsettled, skipped>>
  BY DEF vars, clockVars, scheduleVars, mainVars, requestVars, history
<1>2. Now' = Now /\ NextAlarm' = NextAlarm
  BY <1>1 DEF Now, NextAlarm, Soonest, NextTime, Slots
<1>3. QED
  BY <1>1, <1>2 DEF ScheduleInv, SettledInv, FoundInv, CompareInv, OwedInv, PassInv

LEMMA NextKeepsSchedule ==
  ASSUME ClockInv, ScheduleInv, [Next]_vars
  PROVE  ScheduleInv'
<1>1. ScheduleTyped'
  BY ScheduleStaysTyped DEF ScheduleInv
<1>2. AsleepInv'
  BY SleepersKeepStill DEF ScheduleInv
<1>3. SettledInv' /\ FoundInv' /\ CompareInv' /\ OwedInv' /\ PassInv'
  BY TickKeepsSchedule, PassKeepsSchedule, ChangesKeepSchedule, AsidesKeepSchedule,
     WritesKeepSchedule, ResetsKeepSchedule, ScheduleStutters
     DEF Next, MainLoop, Requests, Resets
<1>4. QED
  BY <1>1, <1>2, <1>3 DEF ScheduleInv

LEMMA ScheduleHolds == Spec => [](ClockInv /\ ScheduleInv /\ ScheduleFlags)
<1>1. Init => ScheduleInv
  BY DEF Init, ClockInit, ScheduleInv, ScheduleTyped, AsleepInv, SettledInv, FoundInv,
         CompareInv, OwedInv, PassInv, IsAlarm, Awake
<1>2. Init => ScheduleFlags
  BY DEF Init, ScheduleFlags
<1>3. ClockInv /\ ScheduleInv /\ ScheduleFlags /\ [Next]_vars
        => ScheduleInv' /\ ScheduleFlags'
  BY NextKeepsSchedule, ScheduleFlagsStay
<1>4. QED
  BY <1>1, <1>2, <1>3, ClockHolds, PTL DEF Spec

(***************************************************************************)
(* Every variable stays in its type: an alarm is a second of a day that    *)
(* slots have, or none.                                                    *)
(***************************************************************************)
THEOREM TypeCorrect == Spec => []TypeOK
<1>1. ClockInv => ClockTypeOK
  BY DEF ClockInv, ClockTyped, ClockFlags, ClockTypeOK
<1>2. ClockInv /\ ScheduleInv /\ ScheduleFlags => TypeOK
  BY <1>1 DEF ScheduleInv, ScheduleTyped, ScheduleFlags, TypeOK, ScheduleTypeOK
<1>3. QED
  BY <1>2, ScheduleHolds, PTL

(***************************************************************************)
(* No move is missed: for any schedule and any length of a day, through    *)
(* the stores of requests, resets, sleeps and waits for the radios, except *)
(* where two tasks write the alarm against each other or one moves it on   *)
(* while a move is owed.                                                   *)
(***************************************************************************)
THEOREM MovesAreNotMissed == Spec => []NoneMissed
<1>1. ScheduleInv /\ ClockInv => NoneMissed
  <2>1. SUFFICES ASSUME ScheduleInv, ClockInv,
                        owed # 0, passed, pc = "check", ~unsettled, ~skipped
                 PROVE  DueAt(Now) # {}
    BY DEF NoneMissed
  <2>2. rtcSet /\ alarm # None /\ alarm <= Now /\ ~(Now > alarm)
    BY <2>1 DEF ScheduleInv, OwedInv, PassInv
  <2>3. Now \in Nat /\ alarm \in Int
    BY <2>1, NowTyped, AlarmIsTime DEF ScheduleInv, ScheduleTyped
  <2>4. alarm = Now
    BY <2>2, <2>3
  <2>5. Comes(slots, alarm)
    BY <2>1, <2>2 DEF ScheduleInv, SettledInv, AlarmFor
  <2>6. QED
    BY <2>4, <2>5 DEF Comes, DueAt
<1>2. QED
  BY <1>1, ScheduleHolds, PTL

(***************************************************************************)
(* No move out of turn: a move is started only when one is owed, unless    *)
(* clock or slots were changed while the pass read them, or before it and  *)
(* no alarm was written since that goes with them.                         *)
(***************************************************************************)
THEOREM AlarmsAreDue == Spec => StartsAreDue
<1>1. ASSUME ScheduleInv, ClockInv, ScheduleFlags, Next, pc = "compare", pc' = "start"
      PROVE  owed # 0 \/ ~clean
  <2>1. Compare
    BY <1>1 DEF Next, Tick, MainLoop, Booted, Look, StartMove, FindAlarm, ArmAlarm, PassOver,
       HoldToReboot, Requests, BeginSet, SyncSet, FindAfterSet, EndSet, SetSlot, SetOther,
       FindAfterPost, EndPost, Commit, Resets, Reboot, EraseTime, DiscardTime, Sleep, Wake,
       Halt, mainVars
  <2>2. seen > alarm
    BY <1>1, <2>1 DEF Compare, PassOver
  <2>3. ASSUME clean PROVE owed # 0
    <3>1. seen = Now /\ ~unsettled /\ rtcSet /\ alarm # None
      BY <1>1, <2>3 DEF ScheduleInv, CompareInv
    <3>2. Now \in Nat /\ alarm \in Int
      BY <1>1, NowTyped, AlarmIsTime DEF ScheduleInv, ScheduleTyped
    <3>3. alarm <= Now
      BY <2>2, <3>1, <3>2
    <3>4. QED
      BY <1>1, <3>1, <3>3 DEF ScheduleInv, SettledInv
  <2>4. QED
    BY <2>3
<1>2. ASSUME ScheduleInv, ClockInv, ScheduleFlags, [Next]_vars
      PROVE  [pc = "compare" /\ pc' = "start" => owed # 0 \/ ~clean]_vars
  BY <1>1, <1>2
<1>3. QED
  BY <1>2, ScheduleHolds, PTL DEF StartsAreDue, Spec

=============================================================================
