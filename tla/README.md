# A TLA+ verification of the SC-F001 firmware

SC-F001 is the controller of a solar powered shelter that moves itself over a
pasture: a jack lifts the shelter, a travel motor drives it a few feet on, a
small motor (the "fluffer", AUX) clears the way, and the jack sets it down again.
The firmware (`src/main`, C on a dual core ESP32 with FreeRTOS) runs this as a
20 ms control task, surrounded by tasks that send it commands and jogs (RF
remote, Bluetooth remote, web server, UART console, buttons, the move schedule).

This directory models the firmware's control logic in TLA+, checks it with TLC on small
instances, and proves the most important results with TLAPS for every value of
the constants.

## 1. Inventory

| Part | State it keeps | Operations | Talks to |
|---|---|---|---|
| Relay driver (`power_mgmt.c:113-169`, `i2c.c:71-95`) | `last_relay_state`, `off_us`, the expander's port | `drive_relays`, `i2c_relays_idle`, `i2c_relays_sleep` | control task, safety break, soft idle, bring-up |
| Safety loop and sensors (`sensors.c`) | `is_safe`, two debounce stamps, stable levels, counters, ISR queue | `sensors_check`, ISR, counter set/get | relay driver (break), state machine |
| Move state machine (`control_fsm.c:326-994`) | `current_state`, `timer_end`, `fsm_error`, `this_move_dist`, `remaining_distance`, `move_start_encoder`, `jack_start_us`, `jack_finish_us`, `jack_pos_us`, `fsm_cmd_queue` | one tick: inputs, commands, transition, outputs, tracking | everything |
| Jog overrides (`control_fsm.c:98-127`) | `override_cmd`, `override_time` under a spinlock | `pulse_override(_web)`, `stop_override`, two snapshots a tick | remotes, web, state machine |
| E-fuses (`power_mgmt.c:389-641`) | per bridge: current filters, heat, `tripped`, `trip_time` | `process_bridge_current`, `efuse_get` | state machine |
| Soft idle, shutdown timer (`rtc.c:78-140`, `rtc.c:281-291`, `main.c:367-401`) | `in_soft_idle`, `last_activity_tick` | enter, exit, feed, timer, hibernate | relay driver, main loop, every sender |
| Clock and schedule (`rtc.c:196-380`) | `sync_*`, `rtc_set`, NVS time, `next_alarm_time_s` | set, save, restore, schedule, trip | main loop sends START |
| Buttons (`i2c.c:124-223`, `main.c:403-526`) | debounced level, stamps, tap counter | poll, triple tap, cancel, hold to reboot | state machine |
| Flash log (`storage.c:700-1372`) | head, tail, queue, sectors | append, read, recovery scan | log senders, readers |
| Parameter store (`storage.c:1-719`) | table in RAM, flash partition | load, set, sort, commit, factory reset | everybody reads |
| Start-up, self test, rollback (`main.c:34-50`, `main.c:254-349`) | crash counter in RTC memory (whether a reset spares it, see `BootGuard`) | `init_critical`, rollback, "good" | OTA partitions |
| Firmware update (`webserver.c:622-778`) | upload under way, the other slot | begin, write, abort, end, choose | start-up |
| Web server and page (`webserver.c`, `webpage.html`) | sockets, deferred calls, page's socket and held button | handlers, status push, sleep, WiFi restart | command interpreter, jogs, soft idle |
| Command interpreter, UART (`comms.c`, `uart_comms.c`) | none | post, get | state machine, parameters, schedule |
| RF and Bluetooth remotes (`rf_433.c`, `bt_hid.c`) | learned codes, learn flag | decode, learn, jog | overrides |
| Solar charger (`solar.c`) | charge state and its timer in RTC memory | one step of the main loop, reset with the clock | clock, GPIO |
| Bring-up tool (`bringup.c`, `src/bringup`) | mode flag | takes the relays away from the state machine | relay driver |

Vendored mDNS and the Python tools under `src/logtool`, `src/release` are not
part of the control system.

What is hard in this code:

* **Interleaving.** No task is pinned to a core. Relay port, soft idle flag,
  override, `remaining_distance` and `fsm_now` are shared between the control
  task and others; only the override has a lock. `drive_relays` tests
  soft idle and then writes; `arm_override` tests the state and then writes.
* **Several writers, one memory of the hardware.** The relays are also written
  by the safety break, soft idle and bring-up, which the driver's
  `last_relay_state` and `off_us` do not see.
* **Long sequences of legal calls.** A START in the middle of a move, UNDO in
  any state, calibration commands out of order, jogs that alternate faster than
  the relays may follow.
* **Several things in one tick.** Trip, break, timeout and end of travel may all
  be true at once and each has another effect on the distance account.
* **Two estimates of reality.** The jack's height is integrated from what is
  requested; the travel is an encoder count; both decide when a motor stops.
* **Restart and power loss.** Some variables live in RTC memory, which only deep sleep
  keeps for certain; flash is erased before it is rewritten; an update erases the slot it writes.
* **Several clocks.** Unix time, `esp_timer`, the RTC counter and the tick count start,
  stop and wrap at different times; a wall clock measures intervals.
* **Partners that vanish.** A phone holds a button and is gone; its sockets stay.

What makes each part correct, in a sentence: the relay driver never energizes
travel unsafely nor reverses without rest; the state machine never drags a
lowered shelter, stays within the travel limit, charges what it drove, comes to
rest; a jog ends with its deadman and respects the ceiling; a sleeping device
moves nothing; the log returns what was appended, minus the oldest; a committed parameter
survives a restart; the clock is right and no scheduled move is missed; a low battery is charged; a bad
firmware image is rolled back and a good one is not; a phone that is gone moves
nothing and keeps nothing awake; the bring-up tool has the relays to itself.

`PROJECT.json` lists every hazard with its line and the properties that cover it.

## 2. The modules

| Module | Models | Proofs |
|---|---|---|
| `RelayLogic` | the pure part of `drive_relays`: what is granted, when `off_us` is stamped | used by all three below |
| `MotorRelays` | all writers of the relay port in normal operation, interleaved statement by statement | `MotorRelaysProofs` |
| `BringUp` | the bring-up tool as a second owner of the port, against the control task | `BringUpProofs` |
| `ControlFsm` | the whole tick of `control_task`, its senders, and the plant | `ControlFsmProofs` |
| `FlashLog` | the log's queue, writer task, ring of sectors and recovery scan | `FlashLogProofs` |
| `EventLog` | what the flash log promises; `FlashLog` implements it | `FlashLogProofs` |
| `ParamStore` | the parameter table, two tasks that set and commit, loading | `ParamStoreProofs` |
| `Clock` | the wall clock, store by store, with resets and hibernation | used by the three below |
| `Charger` | the solar charger on that clock, read by read | `TimekeepingProofs` |
| `Schedule` | slots, the next alarm over them | used by the next |
| `Timekeeping` | composes `Clock` and `Schedule` with the main loop's passes, requests, resets, hibernation | `TimekeepingProofs` |
| `MainLoop` | button, alarm, inactivity timer and soft idle in the main loop | `MainLoopProofs` |
| `WebSession` | page, sockets, push, deferred sleep and WiFi restart | `WebserverProofs` |
| `BootGuard` | start-up, crash counter, rollback, firmware upload | `WebserverProofs` |
| `MCMotorRelays`, `MCControlFsm`, `MCParamStore`, `MCBringUp` | small instances for TLC | |

`MotorRelays` lets the state machine request any of its relay patterns at any
time; `ControlFsm` fixes what is requested and takes the relay driver as one
step. So the interleavings with soft idle are examined in the first, without
the size of the second, and the logic of a move in the second.

Definitions whose comment begins with "Slip" are not part of a model: each is the form
a definition would have after a plausible mistake, kept next to the right one to
show that the property watching it notices.

### MotorRelays

| Variable | Code |
|---|---|
| `pin`, `isSafe`, `lowAge`, `highAge` | the SAFETY input, `is_safe`, the age of `safety_low_start_time` / `safety_high_start_time` (-1: the stamp is 0) |
| `last`, `offAge` | `last_relay_state`, the age of `isens[b].off_us` |
| `out`, `rail` | the expander's bridge bits and P10, the sensor supply |
| `idle` | `in_soft_idle` |
| `pc`, `active` | the statement the control task is at, whether its state is one that feeds the shutdown timer |
| `sleeper`, `waker` | a task half way through `soft_idle_enter` / `soft_idle_exit` |
| `ran`, `rest` | history: last direction and physical rest of each bridge |

Actions: `SensorsCheck` (`sensors_check`), `DriveRelays` and `WriteRelays`
(`drive_relays` before and after the soft idle test), `Feed`, `FeedRail`
(`rtc_reset_shutdown_timer`), `SoftIdleEnter/Sleep`, `SoftIdleExit/Wake` (the two
statements of entry and exit that matter), `PinMoves` (the world).

### ControlFsm

A tick is `Tick` (inputs), `Receive` once per queued command, `Decide` (the
state's transition), `SetOutputs`, `Track`; between any two of them the actions
of the other tasks may run: `Request`, `ArmBegin`/`ArmEnd` (`arm_override` up to
and in its critical section), `StopOverride`, `SetRemaining`. There is one
definition per state of `fsm_state_t`, named for it.

A time stamp is modelled by its distance to `fsm_now`: `timer` is what is left of
`timer_end`, `over.left` of `override_time`; `upAge` and `upTicks` are
`jack_start_us` and `jack_finish_us` seen from each other; `efuse[b]` is what is left of
the cooling time. `moveDist`, `remaining`, `startEnc`, `enc`, `jackPos`,
`error`, `queue` are the variables of the same meaning in the code.
`jack` is the real height of the jack, which the code only sees through
`SENSOR_JACK` (`jack = 0`). `pressLeft`, `raced`, `withheld`, `cuts` and `stopped` are
histories that only properties read: the last deadline of a press, the ticks in which the two
snapshots of the override differ, those in which the relay driver withheld the jack's way down, and
what the jack's e-fuse has cut short, a phase of this lift or a retract.

The code compares `fsm_now` with absolute stamps. The model's ages and remainders stop
counting where no comparison tells them apart any more (`Aged` in `RelayLogic`, `Left` in `ControlFsm`);
that floor and that ceiling are the model's, and no run checks them.

Abstractions:

* Distances are whole feet with one encoder count per foot; the jack rises one
  unit per tick. The order of events does not depend on the scale, only on
  which of two bounds comes first, and both orders occur in the instances.
* The safety loop's debouncer is free here: `isSafe` may change in any tick
  (`SafetyMoves`). `MotorRelays` has the real one.
* The thermal model of an e-fuse is reduced to a choice: the dominant running
  bridge may trip in any tick, and cools for one of `CoolTimes` (the code's
  5 s, or longer while there is heat left above the threshold).
* A battery reading is "low" or not, chosen for every command.
* The device is awake and outside bring-up mode.
* FSM_CMD_SHUTDOWN and FSM_CMD_START_IGNORE_OVERTRAVEL have no sender in the source and are left out.

### FlashLog and EventLog

| Variable | Code |
|---|---|
| `flash` | the `log` partition, as an array of cells |
| `head`, `tail` | `log_head_offset`, `log_tail_offset` |
| `queue` | `log_queue` |
| `pc`, `entry` | how far `log_write_blocking` is, and with which entry |
| `sent` | bound on the events |
| `filled`, `astray` | histories: the last sector has been closed; the scan of a restart has put the head where the writer was not |

Actions: `LogWrite` (`log_write`, which drops an event when the queue is full),
`Take` (`log_writer_task`), `PadSector`, `TurnSector`, `WriteLength`, `WriteData`,
`WriteType` (the flash operations of `log_write_blocking`, one step each), and
`Restart` (a power loss or a reset at any point, and `log_init`).

An entry is a length cell, data cells and a type cell; its payload is reduced to
its number, and its length is the number of cells. A sector has a handful of
cells instead of 4096 bytes; what the code tells apart (is the first byte of a
sector erased, is the last byte of a sector written, does an entry reach the last byte) is
told apart. A single flash operation is atomic and does not fail, except outside the partition.
Restarts come at any time, in a ring that has been full as in one that has not; in the former the
bisection for the head may go wrong, and `astray` says that it has. Until then every restart,
round after round, is part of what the properties say. After it the writer may program cells that are not
erased: the model has the new value there, where flash would keep the bits of both, and
the properties say nothing more of the log.

`EventLog` is the promise: a sequence of event numbers, to which
`Record` appends a later one and from which `Forget` takes the oldest, at most a
sector's worth at once, until it is lost (`Lose`), which is what a scan gone astray is mapped to. The refinement mapping `Ring` reads the whole entries out of the ring,
oldest sector first. An entry cut in two by a restart is never in it. `Ring` and `Download` are
both `Numbers` of a stretch of cells round the ring (`Around`): the k-th entry is the one at
the k-th smallest place (`Nth`) where a whole entry starts, so no recursion is needed, which is what
lets the order of the entries be reasoned about. The two bisections and the walk of `log_init`
are recursive functions.

### ParamStore

| Variable | Code |
|---|---|
| `ram`, `flash` | `parameter_table`, the `params` partition, one cell per entry with its CRC |
| `pc`, `index`, `held` | where each task is in `comms_handle_post` and `commit_params`, its loop variable, what it has copied and not yet written |
| `known`, `alone`, `saved` | histories: the values a parameter was given; whether a commit met another task; whether it ended well |

A request's values are set raw and then validated, in two steps; a commit sorts the
slots (copy, then write back), erases, and validates, packs and writes one entry after the
other. Any flash operation may return an error, and the power may fail within it.
Strings are data like numbers. What validation does to a value (`Clamped`) is reduced to the
bounds of a number: that a NaN becomes the default, that strings are skipped and that equal bounds mean
none (`storage.c:126-148`) is left out, and no property depends on it. A half written cell fails its CRC, and so does
one that has been written twice with different values (`Programmed`).
The sort puts a disabled (negative) slot at INT32_MAX, as the code does (`Rank`, with `Top` for INT32_MAX);
it is stable in the code and any order of equal ranks in the model.

### Clock

| Variable | Code |
|---|---|
| `hw` | `rtc_hw_time_us()`, in seconds; every other time is a value of it or a Unix time |
| `rtcSet`, `syncUnix`, `syncRtc` | `rtc_set`, `sync_unix_us`, `sync_rtc_us` |
| `syncEsp` | `sync_esp_us`, kept as a value of `hw` since `esp_timer` starts anew with the chip |
| `nvs` | the time saved by `rtc_save_time`, 0 when there is none |
| `setting` | where a request is in `rtc_set_s`: its first store made, all of them, the alarm found |
| `hibernate` | where `hibernate_enter` is: the saved time erased, the clock discarded, asleep |
| `zone`, `halved` | histories: what the clock should be ahead of `hw`; a hibernation has cut a setting in two |

Resets. A panic, a watchdog and `esp_restart` load RTC memory from the image again: the
repository's boot log shows a software reset (`reboot.log:177`) and then the segment at
0x50000000 being loaded (`reboot.log:214`), and `README.md:269` says so too. So `rtc_set`, the alarm and the charger
start from their initial values (`ColdRestore`), and what is left is the time in NVS. Only deep
sleep keeps RTC memory (`WakeRestore`), and it discards the clock first; a request that comes between that and
the sleep is the only way to wake up with a clock. The comments at `main.c:34` and `rtc.c:52-54` and
`README.md:346` say otherwise, and are not followed. `rtc.c:242` does not move `sync_rtc_us`, which
would count the time before a first restore again at a second one; for the same reason no device comes there.

### Charger

`charge` and `timer` are `current_charge_state` and its timer; `run` and `at` are how far
`solar_run_fsm` is and the time it has read (`solar.c:38`), which it compares (56) and stamps (67)
later, while a request on another task sets the clock and resets the charger in between. It runs once a second,
from the main loop, also while the LEDs of a held button blink (`mode`). `turned`, `lowSince`,
`torn` and `mixed` are histories: when the charge changed, when the battery was last good, that
the clock was set during this run, and that charge or timer may be of another clock's time.

### Schedule and Timekeeping

| Variable | Code |
|---|---|
| `slots`, `stored` | MOVE_TIME_* in `parameter_table` and in flash |
| `alarm` | `next_alarm_time_s`, in RTC memory |
| `pc`, `seen`, `found` | the main loop in its pass, the time `rtc_alarm_tripped` has read, the alarm it has found |
| `passed` | a pass has been made in this second |
| `post`, `reqFound` | where a request that changes parameters is, the alarm it has found |
| `owed` | history: a slot came up and its move was not started |
| `clean`, `reqClean` | histories: what the pass, or the request, has read is as it was |
| `unsettled` | history: the alarm may not be that of clock and slots |
| `skipped` | history: the next alarm was written while a move was owed |

Clock, slots and alarm have no lock. `BeginSet`, `SyncSet`, `FindAfterSet`, `EndSet` are the
stores of `rtc_set_s` (`rtc.c:204-213`); `SetSlot`, `FindAfterPost`, `EndPost`, `Commit` those of a POST;
`Look`, `Compare`, `StartMove`, `FindAlarm`, `ArmAlarm` the main loop's; and they come in any interleaving, with
resets and hibernation between any two. `unsettled` is computed from what was read and what has
changed since, not chosen: it is set when an alarm is written that was found with a clock or slots that
are others now, and cleared by one that was not.

Coarser than the code, and said here once:

* No second ends between the steps of a pass (but for the wait for the radios), of `rtc_set_s`, of a charger
  run, or between what a request has read for the alarm and its writing.
* `rtc_get_s` is one read: a 64 bit time that is torn between two stores is not modelled, and the
  three stores at `rtc.c:207-211` are one step.
* One request is under way at a time; the web server's and the console's do not overlap here.
* `rtc_schedule_next_alarm` reads clock and slots in one step; `solar_reset_fsm` stores its two variables in one.
* The charger's run at start-up and the main loop's are the same runner, and there may be several at start-up.
  BU.SOLAR.TICK, which runs the charger on the console's task (`bringup.c:704`), is taken for it too.
* While the bring-up tool is active the main loop does not look at the alarm; here it always does.

### MainLoop

One tick is one 50 ms period. Every test and act of a pass is a step of its own, and
other tasks (OtherActs) run between them; the state machine is reduced to the states a
button tells apart (`States`) and to what a command does to them (`After`).
`rtc_check_shutdown_timer` reads the tick count in one step and `last_activity_tick` in
another, and soft idle is entered in a third; `inside` says whether the timer was fed in between, at
the same count or a later one, which makes the unsigned difference wrap.
`left` and `slept` are histories of what excuses an old tap or an unheard alarm. The
bring-up tool is not active.

### WebSession

`page`, `cur` and `held` are the phone's (`webpage.html`); `ws`, `pipe`,
`unsent` the server's sockets; `posts` requests under way, each on a connection of
its own, so that they overtake each other and the frames; `deferred` the timers of
`defer_call`; `phase` the server through `webserver_restart_wifi`. The HTTP server has one
task, so a handler is one step. A phone may vanish with any suffix of its
frames lost, and come back on a new socket while the old one is still open.

### BootGuard

`image`, `refused`, `boot` are the two OTA slots and the choice between them, `stage` how far
`app_main` is, `reason` what `esp_reset_reason` will say, `counter` is
`ota_reset_counter`, `upload` and `incoming` belong to the upload handler. What the
vendor's OTA library does is modelled from how it is called: a rollback is
possible when the other slot is whole and not marked. An image is known by what is
wrong with it: it panics, or fails in `init_critical`, before or after the counter is looked at.
Whether `ota_reset_counter` outlasts a reset that is no power-on is the constant `Kept`: the
comment at `main.c:34` says that it does, the boot log (`reboot.log:177`, `214`) that the boot loader loads it anew.
The runs leave it open (`Kept = {TRUE, FALSE}`, at every reset), so what they show holds either way. Its specification is `BootSpec`, with `BootInit` and so on, because `WebserverProofs`
extends this module and `WebSession`, both of which model parts of `webserver.c`.

### BringUp

`active` is `s_active`; `con` is how far the console is in its command (a write of the port is two
steps, `last_relay_state` and the expander), `pc` how far the control task is in its tick.
Soft idle does not ask for bring-up mode: `asleep` is `in_soft_idle`, and `due` counts the entries
and exits that a web request (`webserver.c:482`, `605`) or a fed timer (`rtc.c:86`) has begun and
that have not written the port yet; each ends in `i2c_relays_sleep` or `i2c_relays_idle`, which switch all motors off
behind `last_relay_state`. `raced` (history) notes a tick that overlaps the tool's taking or leaving the
port, `cut` that soft idle wrote the port after the tool. A write of the port does not fail here
(`bringup.c:582` ignores it when it does).

## 3. The runs

`PROJECT.json` lists twelve runs, and all of them pass; the longest take two to three minutes.

| Run | Question | Bounds |
|---|---|---|
| `MotorRelays` | all relay writers interleaved: the interlock, sleep, what the driver's memory covers, rest before reversal, and that an open loop stops travel for good | gap 1, make 2, break 1 ticks; off, drive forward with the fluffer, drive back |
| `MoveCycle` | safety of moves under START/STOP/UNDO, breaks, trips of every e-fuse, low battery: limit, account, pauses, lifted before travel, home at the end | 3 commands, 3 ft to go, 2 ft a move (so the second move is a short one), a cooling of 4 ticks, longer than a pause and than a phase of the lift |
| `MoveLive` | a move or a calibration ends, whatever happens | 2 commands, a queue of one (so it is full), 1 ft, every e-fuse trips |
| `Jogging` | deadman, ceiling | 2 jogging tasks, 3 jogs (up, down, travel), pulses of 1 and 2 ticks, one START, STOP or UNDO, a new remaining distance |
| `FlashLog` | the log over two rounds of the ring: recovery, order, erased cells, complete downloads | 3 sectors of 5 cells, entries of 2 and 3 cells, 6 events, a queue of one; any number of restarts, anywhere |
| `ParamStore` | two tasks over each other, flash errors, power losses: nothing invented, an undisturbed commit is durable and sorted | 2 tasks, 2 slots and 1 other parameter, 2 values set (one out of bounds), 2 commits |
| `Timekeeping` | the clock is right, no move is missed or started out of turn | a day of 6 s with slots at 1 s and 4 s, 7 s, 3 events (requests, resets, hibernations), clocks 6 s or 9 s ahead |
| `Charging` | BULK ends, a low battery is charged | 6 s, low for 1 s, bulk for 2 s, 3 events, clocks 3 s or 6 s ahead |
| `MainLoop` | three taps in time, nobody in use falls asleep, an alarm is heard | 7 periods; tap window 4, timeout 5, holds of 2; a queue of one |
| `WebSession` | a jog over a WebSocket has a holder; a deserted device comes to sleep | 2 sockets, 3 frames or requests under way, one push a socket holds |
| `BootGuard` | a whole image is always chosen, a good one kept | the real threshold of 5, every kind of image, RTC memory kept or not, 2 power cuts |
| `BringUp` | the tool's relays are its own, each pulse ends | gap 1, pulses of one poll, both directions of the jack, one entry or exit of soft idle under way |

Why the bounds are enough. Every timing constant is given the smallest values
that keep apart the cases the code tells apart: pauses longer than the gap, a gap
of at least one tick, cooling longer than a pause (so that a fuse is still tripped in the next phase), a lift phase of more than one tick, a
second move shorter than the first. Three commands
reach every state with another command still to come; every state of the move is
entered, and each action and each disjunct fires in some passing run.
`EncCap` bounds the encoder above any target;
`EncSteps = {0, 1}` includes a wheel that does not turn.
`FlashLog` writes entries of two sizes, so that a sector is closed with one or
with two of them and with one or more cells left over, and six of them
go once round the three sectors and erase sectors again.
`ParamStore` has one commit that may meet another, each with a value that
changes an order or a bound; a third parameter beyond the slots is not sorted. `Timekeeping` lets
midnight pass with either slot next, and sets the clock to midnight and to the middle of a day; three events are a set
clock, a changed slot and a reset or a sleep, in any order. In `Charging` they are clocks set in the middle of a run,
forwards and back, and six seconds are a low battery, a BULK and what follows it. The seven periods
of `MainLoop` are three presses, their releases and one more, and longer than its windows. In `WebSession` two sockets are a page and the one it
lost; three frames are a press, a repeat and a release.

What is limited to what holds, and the limit is part of what the run says:

* `ReversalSettled` needs a make time above the gap (the defaults, 1 s and 0.5 s,
  satisfy it): this is the assumption of its theorem.
* `LiftedBeforeTravel` excuses a lift of which the jack's e-fuse has ended a phase, and no other.
  What then happens is `SecondPhaseLifts`, below.
* `JackComesHome` speaks of a lift that was
  timed to its end: an UNDO in the middle of the lift leaves `jack_finish_us` at 0,
  and the jack is then lowered for `JACK_TIME` only; and an UNDO right after the
  lift may lower less by the gap in which the relay driver withholds the reversal. One more tick is left
  over when the move before was stopped at the ceiling, which the jack passes by a tick, while
  its retract lasts for JACK_MAX. (Found by the proof: it takes four commands, one more than the run sends.)
  A trip of the jack's own fuse ends a lowering or a retract early, wherever the jack is then.
* `NoneMissed` is silent while the alarm is not that of clock and slots (`unsettled`), and about a move
  during which a request, another pass or a restored time has written the next alarm (`skipped`).
  `StartsAreDue` excuses a pass that has read what was changed before it was done. Both exceptions are what
  happens without a lock, not what is out of the question: see below.
* `BulkEnds` and `LowIsCharged` excuse a run of the charger that the setting of the clock has overtaken (`mixed`),
  and a device without a clock, which does not measure time at all.
* `ClockIsRight` speaks of a clock whose setting is past its first store and was not cut in two by a hibernation.
* `CommitIsDurable` and `CommittedInOrder` speak of a commit that met no other task;
  two that meet may leave entries that fail their CRC and come back as defaults.
* `ThreeTapsInTime` excuses a move or soft idle between the taps, `AlarmIsHeard` a sleep that is
  called for while the loop waits for the radios, `InUseStaysAwake` a feeding that falls between the
  reading of the tick count and the end of `soft_idle_enter`.
* `ProgramsErased` and `ImplementsEventLog` hold until a scan has gone astray, `RecoversUntilFull` says that
  this takes a ring that has been full, `DownloadsAll` speaks of one that has not.
* `JogHasHolder` is about jogs over the WebSocket; those over POST end with their deadman.
* `BenchOwnsRelays` excuses a tick that was under way when the tool took the port, and lets soft idle cut a
  pulse off; that it does no more than that is part of the property.

### Counterexamples

Some definitions state what a comment or the README says and do not hold. They are in none of the runs; to
see the counterexample run the configuration named, or, where it is that of a run, name the property as the
only one in it.

| Property (module) | Configuration | What TLC shows |
|---|---|---|
| `SleepNotUndone` (`MCMotorRelays`) | `MotorRelaysSleep` | a safety break in soft idle calls `i2c_relays_idle`, which switches the sensor rail back on (`sensors.c:202`; `rtc.c:98` "Drop P10 to kill sensor rail power while we're asleep") |
| `SecondPhaseLifts` (`MCControlFsm`) | `TrippedPhaseOne` | a trip that ends phase 1 of the lift is still set in phase 2, and the travel motor starts on a low jack (`control_fsm.c:572`; comment at 518-520) |
| `NeverPastMax` (`MCControlFsm`) | `JogCeiling` | the jack estimate follows the override, not the relays: jogs up and down in turn raise the jack past JACK_MAX, one tick for every direction the driver withholds (`control_fsm.c:965`; comment at 945) |
| `StopHolds` (`MCControlFsm`) | `StopThenJog` | STOP leaves a jog armed before the START alive (`control_fsm.c:387`) |
| `UnsafeNeverLifts` (`MCControlFsm`) | `CalibrateUnsafe` | STATE_CALIBRATE_JACK_MOVE lifts with the loop broken (`control_fsm.c:712`; comment at 456 "Every active state checks safety first") |
| `AlwaysRecovers` (`FlashLog`) | `FlashLog` | after the ring was full, the bisection of `log_init` takes the last sector for the head (`storage.c:938`; comment at 183-184 "log_init() always recovers these from a flash scan") |
| `TailIsOldest` (`FlashLog`) | `FlashLogTail` | the tail stays behind when the head comes round into its sector; a download then misses the older sectors (`storage.c:842`; comment at 1242-1243) |
| `NeverSkipped` (`Timekeeping`) | `Timekeeping` | a POST that looks for the next alarm in the second an alarm is due moves it on before the pass has seen it, and that move is not started (`comms.c:468`, `rtc.c:350-354`) |
| `StartsAlwaysDue` (`Timekeeping`) | `Timekeeping` | between the stores of `rtc_set_s` and its new alarm the main loop compares the new time with the old alarm, and starts a move (`rtc.c:209`, `main.c:531`) |
| `SleepForgetsTime` (`Timekeeping`) | `Timekeeping` | a clock set while `hibernate_enter` waits for its button is there after the sleep (`rtc.c:144`; comment at 137) |
| `SavedTimeIsFresh` (`Timekeeping`) | `Timekeeping` | the time saved for a reboot is never erased, and any later reset sets the clock back to it (`rtc.c:254`; `README.md:269` "stale by the reboot duration (~2s)") |
| `BulkAlwaysEnds` (`Charger`) | `Charging` | a run that the setting of the clock overtakes stamps its timer with the old time, and BULK lasts until the new clock gets there (`solar.c:68`; `README.md:344`) |
| `LowIsAlwaysCharged` (`Charger`) | `Charging` | without a clock the charger's time stands still, and a low battery is not charged (`solar.c:38`) |
| `BulkIsEarned` (`Charger`) | `BulkAgain` | the end of BULK leaves the timer at its begin, so a battery that is low then is taken to have been low for long (`solar.c:57`; comment at 50) |
| `TimerIsPatient` (`MainLoop`) | `IdleTimerWrap` | `last_activity_tick` fed between the two reads makes the unsigned difference huge, and the device in use falls asleep (`rtc.c:281-291`) |
| `AlarmIsAlwaysHeard` (`MainLoop`) | `AlarmUnheard` | a sleep called for while the loop waits for the radios has the alarm's START refused (`main.c:390`, `control_fsm.c:212`; comment at `main.c:379`) |
| `LongPressIgnored` (`MainLoop`) | `LongPress` | on release `i2c_get_button_ms` is 0, so long presses count as taps (`main.c:447`, `i2c.c:217-219`) |
| `TapsAreFresh` (`MainLoop`) | `StaleTaps` | a tap count from before a move combines with later taps |
| `ReleaseHalts` (`WebSession`) | `ReleaseRaces` | a jog POST under way overtakes the stop or the close that released it |
| `OnlyActivityWakes` (`WebSession`) | `PushWakes` | the status push wakes a device that was just put to sleep (`webserver.c:979`) |
| `ComesUp` (`BootGuard`) | `BootReload` | if the boot loader loads RTC memory anew, the counter never gets to its threshold, and a firmware that panics restarts for ever (`main.c:35`) |
| `ComesUp` (`BootGuard`) | `BootLoop` | with RTC memory kept: `init_critical` ends in `esp_restart`, which is no crash to the counter, and a firmware that fails there restarts for ever (`main.c:37-50`) |
| `BenchAlwaysOwns` (`MCBringUp`) | `BringUp` | a tick that has passed the test of bring-up mode writes its relays over the tool's (`control_fsm.c:331-343`; `main.c:361` "owns the LEDs, buttons, and relays while active") |
| `StaysTruthful` (`MCBringUp`) | `BringUp` | soft idle switches a pulse off behind `last_relay_state` (`rtc.c:99`; comment at `bringup.c:511-513`) |

What holds and what does not belong together: the jack's e-fuse is all that
lets a move travel on a low jack (`LiftedBeforeTravel`), and it does (`SecondPhaseLifts`);
`UnsafeNeverLifts` holds in moves and fails in calibration;
`CeilingRespected` bounds how far the jack passes JACK_MAX by what was withheld and raced, and
`NeverPastMax`, which does not count what was withheld, fails for jogs in turn;
a scan goes astray only in a ring that has been full (`RecoversUntilFull`), and there it does (`AlwaysRecovers`);
a firmware that comes up is kept whichever resets spare the counter (`GoodIsKept`), and one that does not come up is given
up only if they do and its failure is one that counts (`ComesUp`).

What a reader of the code might not expect, and no run states: a STOP that arrives when the
queue already holds 8 commands is lost like any other; a START received in
a busy state is not silent, it sets `fsm_error` and `this_move_dist` anew; a bare
BU.RELAY works without BU.BEGIN, against a running control task; `webserver_sleep`
and `webserver_wake` have no caller; a failing `start_wifi` within a
restart leaves HTTP down.

### Fairness

Weak fairness of the control task, and of nothing else: `vTaskDelayUntil`
brings it round every 20 ms at a priority above the tasks that send, it waits
for nobody, and the task watchdog resets the chip if it does not come round.
No sender is fair: an END command, a stop, a second tap may never come.
`MoveEnds` and `OpenLoopStopsDrive` are liveness properties under this fairness.

The other modules, where they have liveness properties:

* `WebSession`: weak fairness of the HTTP task, of the timer task and of time. The push
  is queued once a second while anybody is connected. A page owes nothing.
* `BootGuard`: weak fairness of the steps of a start. Crashes and power cuts are
  free, power cuts bounded. Only `ComesUp` needs it, and no fairness of uploads.
* `BringUp`: weak fairness of the control task and of the console within a
  command; no command need ever come.

`FlashLog`, `ParamStore`, `Timekeeping`, `Charger` and `MainLoop` assume none: their properties are safety
properties, and the refinement is one.

## 4. What is proved

| Theorem | Says, for every value of the constants |
|---|---|
| `TypeCorrect` of all but `WebserverProofs` | the type invariants |
| **`MotorRelaysProofs`** `MemoryIsTruthful` | between two writes of `drive_relays` a motor that runs is the one `last_relay_state` names, whoever wrote the port |
| `DriveIsSafe` | no travel motor while the loop counts as broken |
| `SleepStopsMotors` | a sleeping device rests with its motors off |
| `ReversalIsSettled` | no reversal without rest, assuming `MakeTicks > GapTicks` |
| **`ControlFsmProofs`** `DeadmanHolds` | no jogged motor outlives the last deadline accepted, for any number of jogging tasks |
| `TravelLimit` | a move never exceeds `remaining`, and `remaining` never goes negative, assuming nobody sets it (`NewDists = {}`) |
| `TravelIsAccounted` | a completed move costs what its drive began with, likewise |
| `BrokenLoopNeverLifts` | a tick that saw the loop broken ends with the jack not going up, assuming no upward jog and no calibration of the jack |
| `TrippedMotorStops` | a tick that saw the e-fuse of DRIVE tripped ends with the travel motor off, assuming it is not calibrated |
| `StartsAreSettled` | the driver withholds no motor that a state of the move asks for, assuming `TransitionTicks > GapTicks` |
| `CeilingHolds` | the jack passes JACK_MAX by one tick, its races and what was withheld, assuming it is home at the start and is neither forced nor calibrated |
| `LiftedFirst` | no travel before the lift unless the jack's fuse cut it short, whichever fuses trip, assuming no jog or calibration of the jack, `TransitionTicks > GapTicks`, `JackTime <= JackMax <= JackTop` |
| `JackIsBroughtHome` | a timed lift is lowered home unless the jack's fuse cuts that short, assuming no upward jog, no calibration of the jack, `TransitionTicks > GapTicks` and a start not above the ceiling |
| **`ParamStoreProofs`** `RestartsInventNothing` | every value a restart brings back was given to its parameter, for any tasks, flash errors and power losses |
| `CommitsAreDurable` | an undisturbed commit has the whole table in flash |
| `CommitsAreInOrder` | ... and its slots in order, assuming a slot can be disabled (`Lo < 0`) and either no flash error or no input that is INT32_MAX and out of bounds |
| **`MainLoopProofs`** `AlarmsAreHeard` | the START of an alarm is not lost to soft idle, or a sleep called for in the same pass excuses it |
| `InUseIsAwake` | a device in use stays awake, unless the timer is fed between its two readings or on the way into soft idle |
| `TapsAreInTime` | a START by the button is three taps within the window, assuming a window shorter than the timeout |
| **`TimekeepingProofs`** `ClockSurvives` | a clock that is set or restored is right, through the stores of a setting, resets and sleep |
| `BulkIsOver`, `LowGetsCharged` | BULK ends with the run after CHG_BULK_S and a low battery is charged by the one after CHG_LOW_S, unless a setting of the clock has overtaken a run |
| `AlarmsAreDue` | the alarm trips only for a slot that came up and was not started yet, unless clock or slots change while the pass reads them |
| `MovesAreNotMissed` | no slot that comes up is left without its START, unless the next alarm was written meanwhile, or from what was changed since it was read |
| **`BringUpProofs`** `BenchOwns` | between its commands the port is the tool's and soft idle only switches it off, unless a tick overlaps its taking or leaving |
| **`WebserverProofs`** `AlwaysBootable`, `GoodNeverRefused` | the slot started next is whole and not refused; a firmware that comes up is never given up; assuming `Threshold > 1` |
| `JogIsHeld` | a WebSocket jog always has somebody who ends it, for any number of sockets |
| **`FlashLogProofs`** `HeadIsRecovered` | a restart goes astray only in a ring that has been full |
| `OnlyErasedIsProgrammed` | the log never programs a cell that is not erased, until a scan goes astray |
| `DownloadIsComplete` | until the ring is full a download is every whole entry, oldest first |
| `RingIsEventLog` | the ring implements `EventLog`, for any geometry, entry sizes and number of events, with restarts at any point of any round, until a scan goes astray |

The constants are subject to the named assumptions in the modules (times are
natural numbers, requests are relay patterns, ...); TLC evaluates them in every run.

The arguments:

* `DriveIsSafe` rests on `InterlockInv`. The property alone is not inductive: between
  the assignment of `last_relay_state` and the write the decision is taken but not
  yet visible, so the invariant adds that what is about to be written has DRIVE
  off when unsafe. The break cannot fall between, because it is the same task.
* `SleepStopsMotors` rests on `AsleepInv`: a motor may be on in a sleeping device for the length of
  the race in `drive_relays`, but then the tick is one of an active state and is
  about to wake the device and switch the port off.
* `ReversalIsSettled` rests on `GapInv`: `off_us` never claims more rest than
  the motor had. This fails for DRIVE while the loop is broken (the driver drops
  it without a stamp); there the age of the closed loop takes its place, and this is
  where the assumption on the make time is used.
* `DeadmanHolds` rests on `JogInv`: the armed override and every override still
  on its way have less time left than the last deadline, and the motors seen after the
  outputs of a tick belong to a live override.
* `TravelLimit` and `TravelIsAccounted` rest on `TravelInv`: on the way to the
  drive, `this_move_dist` is what START computes *now*, so that a START received in
  the middle of a move, which the code does not drop, recomputes the same value.
  This is why a new remaining distance has to be excluded.
* `BrokenLoopNeverLifts` and `TrippedMotorStops` rest on `UnsafeInv` and `TrippedInv`: the transition of
  a tick leaves every state that would energize the motor before the outputs are set, and no
  command of that tick leads back to one. The two calibrations and an upward jog look at neither,
  so they are excluded (`CalibrateUnsafe` shows why).
* `StartsAreSettled` rests on `SettleInv`: during a pause the rest of each bridge and what is left of the
  pause add up to the whole pause, so a pause longer than the gap (1 s and 0.5 s in the code)
  leaves every bridge ready.
* `CeilingHolds` rests on `PosInv` (the estimate never passes JACK_MAX) and `CeilInv`, which bounds how far the jack
  is ahead of its estimate, in the middle of a tick too: between outputs and tracking an override that is
  armed or stopped turns the estimate by two at most.
* `LiftedFirst` is the other half: without jogs of the jack the estimate is never above it
  (`LiftInv`), so neither the time nor the ceiling ends a lift too low. A tripped fuse does, and is then in `cuts`.
* `JackIsBroughtHome` rests on `HomeInv`: the height is bounded by the clock of the state the move is in (what is left of
  the retract, the age of the lift, the recorded time of the lift, what is left of the lowering), each up to a
  tick and the gap, and every transition hands one bound over to the next. The proof
  failed for the property as it was first stated, `jack <= GapTicks`, and TLC then found the four commands that
  leave one tick more.

* `RestartsInventNothing` rests on `GivenInv`: every value in RAM, in a task's copy or in a whole cell of flash is, once
  validated, one its parameter was given. The sort moves values between the slots, and the values known
  for a slot with them.
* `CommitsAreDurable` rests on `AloneInv` and `SavedInv`: while a commit is alone, the entries it has passed are exactly those in RAM.
* `CommitsAreInOrder` rests on `OrderInv`: the table is in order from the sort on, and validating an entry keeps
  its rank in order unless it is an unvalidated INT32_MAX, which the sort takes for a disabled slot and the
  validation then makes the last valid time. Two requests at once and a flash error can leave one in RAM, hence the
  hypothesis. That the sort the model chooses exists at all is a lemma (insertion into an ordered sequence,
  and the least length at which it would fail).

* `AlarmsAreHeard` rests on `HeardInv`: from the wake-up to the START the device is awake or somebody called for sleep.
* `InUseIsAwake` rests on `TimerInv`: when the timer is not fed inside the check, what was fed is never later than
  the tick that was read, so the unsigned difference does not wrap; when it is, `inside` says so until the
  device has come out of soft idle again. `IdleTimerWrap` shows what a feeding there does.
* `TapsAreInTime` rests on `TapInv`: a count of taps has the press of the first within the
  window, or the passes that would have cleared it were not made, which a move or soft idle excuses.

* `ClockSurvives` rests on `ClockInv`: both references are of the same moment but between two stores of a setting,
  and hibernation keeps or discards them together unless it falls there.
* `BulkIsOver` and `LowGetsCharged` rest on `RunInv` and `TimerInv`: unless `mixed`, the time a run has read is that of
  the clock as it is now, and the timer is the time of that clock at which the charge changed or the battery was last good; a
  setting of the clock resets the charger, and one that overtakes a run marks it.
* `AlarmsAreDue` and `MovesAreNotMissed` rest on `SettledInv` and `OwedInv`: while the alarm is settled, it is the first time after
  the last START, or after the clock was set, at which any slot comes up, and a slot is owed exactly when that time
  has passed. `FoundInv` says the same of an alarm that a pass or a request has found and not yet written, as long
  as nothing it was computed from has changed; `CompareInv` of the time a pass has read; `PassInv` that a second ends
  only after its pass. They use the arithmetic of daily times (`NextTimeIs`, `SoonestIs`) for a day of any length.
* `BootInvariant` adds to `BootsWhole` that the fallback is there: a device that is up runs a
  good image with the counter at 0, a bad image is only ever started with a good one, not
  refused, in the other slot, and a good image has at most one crash counted. With a
  threshold of 1 a single crash of a good image would give it up, so the theorems assume more
  than 1 (the code has 5).
* `BenchOwns` rests on `BenchInv`: while the port is the tool's, the control task is at
  the top of its tick, and what port and `last_relay_state` hold is known for each step of the
  console's command; soft idle changes the port alone, and leaves it off.
* `JogIsHeld` rests on `HolderInv`: a pulse is the last frame on a living socket only while
  the page holds the button on it, since a page says "stop" or closes before it lets go.
* The flash log rests on `LogInv`, of `TypeOK` and three parts. `LayoutInv` says how flash is laid out behind and in
  front of the head at each point of a write: entries lie within a sector, do not overlap and leave
  its last cell free; a sector is written from its first cell on; from the head to the end of its sector everything is
  erased but what the writer has begun. This alone carries the writer, filled ring or not, and holds until a scan goes
  astray. A restart whose scan finds the writer's place keeps it, by definition of `astray`; `FillInv` shows that before
  the ring is full every scan does:
  before the ring is full, what is behind the head is one chain of entries and closed sectors from the first
  cell on, and all behind it is erased. `OrderInv` says that flash, the entry under way and the queue are
  numbered in order.
* Before the ring is full a restart keeps `LogInv` because of what its scan finds, which is where the recursion is. `BisectionFinds`, `SeekFinds` and
  `WalkFinds` say, for any predicate on sectors and any chain of cells, what the two bisections and the walk
  return; each is an induction written out for the function at hand (the least length at which it would fail), after a lemma
  that the function exists at all. With `FillInv` the sectors are full up
  to the head's and not from there on, so the head's sector and tail 0 are found, and the walk ends where the writer was or was to be
  (`HeadSectorFound`, `TailSectorFound`, `HeadOffsetFound`).
* `RingIsEventLog` goes action by action: a write in front of the type cell, the padding of a sector and a restart leave
  the whole entries as they are, seen from a place in the ring that may have moved on (`ListedShifted`); `WriteType` adds one at the end
  (`ListedLonger`), later than all others by `OrderInv`; `TurnSector` takes away those of the first sector
  (`SectorForgotten`), of which there are at most `(SectorCells - 1) \div 2`, as each takes two cells and one stays free (`FewInSector`).
* That `astray` may come cannot be proved away: `AlwaysRecovers` fails. What the theorems say is exactly how
  far the promise of the log goes with this scan: through any restart whose scan is right, and never less than
  the first round of the ring.

Hypotheses on constants are what the code's defaults satisfy (the timing ones) or what `Cmds`, `Jogs`
and `NewDists` have to leave out because the property fails with it; section 3 names
the configuration that shows the failure, or the definition in the code that does not look.

Only model checked: the liveness properties (`MoveEnds`, `OpenLoopStopsDrive`, `SleepsWhenDeserted`,
`PulseEnds`), as fairness and ENABLED are outside the prover's reach. Every invariant, action property and refinement
of a passing run is stated by a theorem above.

## 5. Not modelled, and the plan

Modelled in part, in order of what would add most:

1. `ControlFsm` with a restart in the middle of a move (panic, watchdog, hold to reboot), which
   leaves the jack's height and the travel behind; a history of the distance really driven; the torn
   64-bit read of `fsm_now` and the unlocked update of `remaining_distance`.
2. `FlashLog`: failing flash operations, a download that runs while the writer
   turns a sector, `log_read` and its cursor, erasing; a repaired scan, for which
   `astray` could be shown never to come.
3. The sensors' interrupt queue, its debounce by the time of draining, and the 16 bit
   counter (`sensors.c:140-170`); a failing I2C write.
4. RF learning (`rf_433.c:155-160`: the learn flag is read twice and may be cancelled
   between) and the suspension of the Bluetooth scan task wherever it is (`bt_hid.c:591-607`).
5. An abstract specification of the relay port (interlock, rest, silence in sleep) which
   `MotorRelays` and `ControlFsm` both implement. `BringUp` does not: BU.RELAY waits for no rest and
   looks at the loop itself.

Not modelled: the factory reset by a button held at power-on; JSON and HTTP parsing and the answers; the pages and
log downloads; the captive portal's DNS; the measuring commands of the bring-up
tool and its host side; the pulse decoder of the RF receiver (signal processing) and the
Bluetooth stack; the current filters and the thermal model (floating point); the two
on-target test programs (`log_test.c`, `partition_test.c`); the host tools. The vendored mDNS
component and the web page as byte arrays, which are data or not this project's code, make up more than half
of the counted lines of the repository.
