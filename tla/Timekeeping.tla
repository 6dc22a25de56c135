----------------------------- MODULE Timekeeping -----------------------------
(***************************************************************************)
(* Clock and schedule together: the passes of the main loop that look at   *)
(* the alarm, start the move and look for the next alarm; a request that   *)
(* sets the clock or the slots and looks for the next alarm as well, on    *)
(* another task; and the resets and the hibernation that take some of      *)
(* their state away and keep some.  Clock, slots and alarm are read and    *)
(* written store by store, with no lock, in any interleaving.              *)
(*                                                                         *)
(* A pass takes no time, but for the wait for the radios before a START,   *)
(* and comes at least once a second; no second ends between what a request *)
(* reads for the alarm and what it writes.  Booting takes as long as it    *)
(* takes.                                                                  *)
(***************************************************************************)
EXTENDS Schedule

VARIABLES
  pc,         \* where the main loop is in its pass
  passed,     \* it has made a pass in this second
  seen,       \* the time rtc_alarm_tripped has read
  found,      \* the next alarm that the pass has found
  post,       \* where a request is that sets slots
  reqFound,   \* the next alarm that the request has found
  owed,       \* history: the time of a slot whose move was not started, or 0
  clean,      \* history: what the pass has read is as it was
  reqClean,   \* history: what the request has read is as it was
  unsettled,  \* history: the alarm may not be that of clock and slots
  skipped     \* history: the next alarm was set while a move was owed

mainVars    == <<pc, passed, seen, found>>
requestVars == <<post, reqFound>>
history     == <<owed, clean, reqClean, unsettled, skipped>>
vars        == <<clockVars, scheduleVars, mainVars, requestVars, history>>

-----------------------------------------------------------------------------
\* A second goes by.  A slot that comes up is owed its move.
Tick ==
  /\ Second
  /\ setting = "none" /\ post # "found"
  /\ pc \in {"boot", "start", "reboot"} \/ (pc = "check" /\ passed)
  /\ passed' = FALSE
  /\ owed' = IF rtcSet /\ ~unsettled /\ owed = 0 /\ DueAt(Now + 1) # {}
               THEN Now + 1 ELSE owed
  /\ skipped' = (skipped /\ owed # 0)
  /\ UNCHANGED <<scheduleVars, pc, seen, found, requestVars, clean, reqClean,
                 unsettled>>

Booted ==
  /\ pc = "boot" /\ Awake /\ pc' = "check"
  /\ UNCHANGED <<clockVars, scheduleVars, passed, seen, found, requestVars, history>>

PassOver == pc' = "check" /\ passed' = TRUE /\ seen' = 0 /\ found' = None /\ clean' = TRUE

\* rtc_alarm_tripped: nothing to do without a clock; without an alarm, one is
\* looked for; otherwise the clock is read, and then the alarm.
Look ==
  /\ pc = "check" /\ ~passed
  /\ \/ ~rtcSet /\ PassOver
     \/ /\ rtcSet /\ alarm = None
        /\ pc' = "find" /\ UNCHANGED <<passed, seen, found, clean>>
     \/ /\ rtcSet /\ alarm # None
        /\ pc' = "compare" /\ seen' = Now /\ clean' = ~unsettled
        /\ UNCHANGED <<passed, found>>
  /\ UNCHANGED <<clockVars, scheduleVars, requestVars, owed, reqClean, unsettled,
                 skipped>>

Compare ==
  /\ pc = "compare"
  /\ IF seen > alarm
       THEN pc' = "start" /\ seen' = 0 /\ UNCHANGED <<passed, found, clean>>
       ELSE PassOver
  /\ UNCHANGED <<clockVars, scheduleVars, requestVars, owed, reqClean, unsettled,
                 skipped>>

\* fsm_request(FSM_CMD_START).
StartMove ==
  /\ pc = "start" /\ pc' = "find"
  /\ owed' = 0 /\ skipped' = FALSE
  /\ UNCHANGED <<clockVars, scheduleVars, passed, seen, found, requestVars, clean,
                 reqClean, unsettled>>

\* rtc_schedule_next_alarm in a pass: clock and slots are read.
FindAlarm ==
  /\ pc = "find" /\ pc' = "arm"
  /\ found' = NextAlarm /\ clean' = TRUE
  /\ UNCHANGED <<clockVars, scheduleVars, passed, seen, requestVars, owed, reqClean,
                 unsettled, skipped>>

\* The alarm is written.
Write(next, stillTrue) ==
  /\ alarm' = next
  /\ unsettled' = ~stillTrue
  /\ skipped' = (skipped \/ owed # 0)

ArmAlarm ==
  /\ pc = "arm" /\ PassOver
  /\ Write(found, clean)
  /\ UNCHANGED <<clockVars, slots, stored, requestVars, owed, reqClean>>

-----------------------------------------------------------------------------
\* A step of a request on the clock leaves the alarm that of another time.
BeginSet(z) ==
  /\ pc # "boot" /\ post = "none"
  /\ SetUnix(hw + z)
  /\ owed' = 0 /\ skipped' = FALSE /\ clean' = FALSE /\ unsettled' = TRUE
  /\ UNCHANGED <<scheduleVars, mainVars, requestVars, reqClean>>

SyncSet ==
  /\ SetSync
  /\ clean' = FALSE /\ unsettled' = TRUE
  /\ UNCHANGED <<scheduleVars, mainVars, requestVars, owed, reqClean, skipped>>

\* rtc_schedule_next_alarm in a request.
FindForRequest == reqFound' = NextAlarm /\ reqClean' = TRUE

WriteForRequest == Write(reqFound, reqClean) /\ reqFound' = None /\ reqClean' = TRUE

FindAfterSet ==
  /\ SetOn("sync", "found") /\ FindForRequest
  /\ UNCHANGED <<scheduleVars, mainVars, post, owed, clean, unsettled, skipped>>

EndSet ==
  /\ SetOn("found", "none") /\ WriteForRequest
  /\ UNCHANGED <<slots, stored, mainVars, post, owed, clean>>

\* comms_handle_post with MOVE_TIME_* keys: the slots one by one, then the
\* alarm, then the commit.  No move is owed to a slot that is no more.
SetSlot(i, t) ==
  /\ pc # "boot" /\ setting = "none" /\ post \in {"none", "set"}
  /\ t # slots[i] /\ Event
  /\ slots' = [slots EXCEPT ![i] = t] /\ post' = "set"
  /\ owed' = IF \E j \in Slots : slots'[j] = owed % Day THEN owed ELSE 0
  /\ clean' = FALSE /\ unsettled' = TRUE
  /\ UNCHANGED <<hw, rtcSet, syncUnix, syncRtc, syncEsp, nvs, setting, hibernate,
                 zone, halved, stored, alarm, mainVars, reqFound, reqClean, skipped>>

\* Any other POST that changes a parameter looks for the alarm as well.
SetOther ==
  /\ pc # "boot" /\ setting = "none" /\ post = "none" /\ Event
  /\ post' = "set"
  /\ UNCHANGED <<hw, rtcSet, syncUnix, syncRtc, syncEsp, nvs, setting, hibernate,
                 zone, halved, scheduleVars, mainVars, reqFound, history>>

FindAfterPost ==
  /\ post = "set" /\ post' = "found" /\ FindForRequest
  /\ UNCHANGED <<clockVars, scheduleVars, mainVars, owed, clean, unsettled, skipped>>

EndPost ==
  /\ post = "found" /\ post' = "commit" /\ WriteForRequest
  /\ UNCHANGED <<clockVars, slots, stored, mainVars, owed, clean>>

Commit ==
  /\ post = "commit" /\ post' = "none"
  /\ stored' = slots
  /\ UNCHANGED <<clockVars, slots, alarm, mainVars, reqFound, history>>

-----------------------------------------------------------------------------
\* The button is held: the time is saved, the LEDs blink, the chip restarts.
HoldToReboot ==
  /\ pc = "check" /\ ~passed /\ events < MaxEvents
  /\ SaveTime /\ pc' = "reboot"
  /\ UNCHANGED <<scheduleVars, passed, seen, found, requestVars, history>>

\* What is only in RAM is gone.
Halt ==
  /\ pc' = "boot" /\ passed' = FALSE /\ seen' = 0 /\ found' = None
  /\ post' = "none" /\ reqFound' = None
  /\ clean' = TRUE /\ reqClean' = TRUE
  /\ slots' = stored /\ UNCHANGED stored

\* A saved time that is restored: the alarm is looked for before any task runs.
\* A move that is still owed by then has been skipped.
AlarmFromNvs ==
  /\ alarm' = (IF nvs > 0 THEN Soonest(stored, nvs) ELSE None)
  /\ owed' = IF owed <= nvs THEN owed ELSE 0
  /\ skipped' = (owed' # 0) /\ unsettled' = FALSE

\* Any reset but that of deep sleep: RTC memory starts from its initial values.
Reboot == ColdRestore /\ Halt /\ AlarmFromNvs

EraseTime ==
  /\ pc # "boot" /\ EraseSaved
  /\ UNCHANGED <<scheduleVars, mainVars, requestVars, history>>

DiscardTime ==
  /\ Discard /\ alarm' = None
  /\ owed' = 0 /\ skipped' = FALSE /\ unsettled' = FALSE
  /\ clean' = FALSE /\ reqClean' = FALSE
  /\ UNCHANGED <<slots, stored, mainVars, requestVars>>

\* The alarm that RTC memory keeps is that of the clock it keeps, unless the
\* sleep came in between the two, or before the alarm of a started move was
\* moved on.
Sleep ==
  /\ FallAsleep /\ Halt
  /\ unsettled' = (unsettled \/ setting # "none" \/ post # "none" \/ slots # stored
                     \/ pc \in {"find", "arm"})
  /\ UNCHANGED <<alarm, owed, skipped>>

Wake ==
  /\ WakeRestore
  /\ IF rtcSet
       THEN UNCHANGED <<alarm, owed, unsettled, skipped>>
       ELSE IF nvs > 0
              THEN AlarmFromNvs
              ELSE owed' = 0 /\ UNCHANGED <<alarm, unsettled, skipped>>
  /\ UNCHANGED <<slots, stored, mainVars, requestVars, clean, reqClean>>

-----------------------------------------------------------------------------
\* A power-on, with any schedule in flash.
Init ==
  /\ ClockInit
  /\ slots \in Tables /\ stored = slots /\ alarm = None
  /\ pc = "boot" /\ passed = FALSE /\ seen = 0 /\ found = None
  /\ post = "none" /\ reqFound = None
  /\ owed = 0 /\ clean = TRUE /\ reqClean = TRUE
  /\ unsettled = FALSE /\ skipped = FALSE

MainLoop ==
  \/ Booted \/ Look \/ Compare \/ StartMove \/ FindAlarm \/ ArmAlarm \/ HoldToReboot

Requests ==
  \/ \E z \in Zones : BeginSet(z)
  \/ SyncSet \/ FindAfterSet \/ EndSet
  \/ \E i \in Slots, t \in SlotTimes \union {None} : SetSlot(i, t)
  \/ SetOther \/ FindAfterPost \/ EndPost \/ Commit

Resets == Reboot \/ EraseTime \/ DiscardTime \/ Sleep \/ Wake

Next == Tick \/ MainLoop \/ Requests \/ Resets

Spec == Init /\ [][Next]_vars

-----------------------------------------------------------------------------
TypeOK ==
  /\ ClockTypeOK /\ ScheduleTypeOK
  /\ pc \in {"boot", "check", "compare", "start", "find", "arm", "reboot"}
  /\ passed \in BOOLEAN /\ seen \in Nat /\ post \in {"none", "set", "found", "commit"}
  /\ IsAlarm(found) /\ IsAlarm(reqFound)
  /\ owed \in Nat /\ {clean, reqClean, unsettled, skipped} \subseteq BOOLEAN

(***************************************************************************)
(* No move is missed: a slot that came up has had its move started by the  *)
(* end of the next second's pass, through the stores of any request, a     *)
(* wait for the radios, a saved schedule, a sleep and a day's end.  Not    *)
(* spoken of are an alarm that was written by one task while another       *)
(* changed what it was computed from, and one that was moved on while the  *)
(* move was owed.                                                          *)
(***************************************************************************)
NoneMissed ==
  owed # 0 /\ passed /\ pc = "check" /\ ~unsettled /\ ~skipped => DueAt(Now) # {}

(***************************************************************************)
(* No move out of turn: a pass that starts one has read the clock and the  *)
(* alarm of a slot that came up and was not started yet, unless clock or   *)
(* slots were changed while it read them, or before it and no alarm was    *)
(* written since that goes with them.                                      *)
(***************************************************************************)
StartsAreDue == [][pc = "compare" /\ pc' = "start" => owed # 0 \/ ~clean]_vars

(***************************************************************************)
(* No move is missed, though the next alarm was looked for while one was   *)
(* owed.                                                                   *)
(***************************************************************************)
NeverSkipped == owed # 0 /\ passed /\ pc = "check" /\ ~unsettled => DueAt(Now) # {}

(***************************************************************************)
(* No move out of turn, whatever another task does in the meantime.        *)
(***************************************************************************)
StartsAlwaysDue == [][pc = "compare" /\ pc' = "start" => owed # 0]_vars

(***************************************************************************)
(* The boot after a hibernation has no time.                               *)
(***************************************************************************)
SleepForgetsTime == [][~Awake /\ Awake' => ~rtcSet']_vars

(***************************************************************************)
(* A time restored from NVS was saved for the very reboot.                 *)
(***************************************************************************)
SavedTimeIsFresh == [][Awake /\ pc # "boot" /\ pc' = "boot" /\ rtcSet' /\ Awake' => pc = "reboot"]_vars
=============================================================================
