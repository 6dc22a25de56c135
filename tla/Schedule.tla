------------------------------- MODULE Schedule -------------------------------
(***************************************************************************)
(* The daily schedule (src/main/rtc.c): the MOVE_TIME_* slots, each -1 or  *)
(* a second of the day, and the alarm kept in RTC memory, which is the     *)
(* next of them.  The main loop starts a move when the clock has passed    *)
(* the alarm, and looks for the next one.                                  *)
(***************************************************************************)
EXTENDS Clock

CONSTANTS
  NumSlots,   \* NUM_MOVE_TIMES
  Day,        \* seconds of a day
  SlotTimes   \* the seconds of the day that are used

ASSUME ScheduleAssumption ==
  NumSlots \in Nat /\ Day \in Nat \ {0} /\ SlotTimes \subseteq 0..(Day - 1)

VARIABLES
  slots,      \* the slots of parameter_table
  stored,     \* the slots as they are committed
  alarm       \* next_alarm_time_s

scheduleVars == <<slots, stored, alarm>>

Slots  == 1..NumSlots
None   == -1
Tables == [Slots -> SlotTimes \union {None}]

Least(S) == CHOOSE x \in S : \A y \in S : x <= y

-----------------------------------------------------------------------------
\* Slip: an occurrence of the second before counts as still to come.
NextTimeIncluding(slot, now) ==
  LET today == now - (now % Day) + slot
  IN  IF today < now - 1 THEN today + Day ELSE today

\* The next time a slot comes up.
NextTime(slot, now) ==
  LET today == now - (now % Day) + slot
  IN  IF today <= now THEN today + Day ELSE today

\* Slip: the first slot that is set is taken for the soonest.
SoonestFirst(table, now) ==
  LET enabled == {i \in Slots : table[i] # None}
  IN  IF enabled = {} THEN None ELSE NextTime(table[Least(enabled)], now)

\* Slip: disabled slots are not skipped.
SoonestOfAll(table, now) == Least({NextTime(table[i], now) : i \in Slots})

\* rtc_schedule_next_alarm, with the clock at now.
Soonest(table, now) ==
  LET enabled == {i \in Slots : table[i] # None}
  IN  IF enabled = {} THEN None ELSE Least({NextTime(table[i], now) : i \in enabled})

\* What it finds for the alarm: none without a clock.
NextAlarm == IF rtcSet THEN Soonest(slots, Now) ELSE None

\* The slots that are due at a time.
DueAt(time) == {i \in Slots : slots[i] # None /\ time % Day = slots[i]}

IsAlarm(a) == a = None \/ (a \in Nat /\ a % Day \in SlotTimes)

ScheduleTypeOK ==
  /\ slots \in Tables /\ stored \in Tables /\ IsAlarm(alarm)
=============================================================================
