------------------------------- MODULE BringUp -------------------------------
(***************************************************************************)
(* The bring-up tool as a second owner of the relays: the console task,    *)
(* which runs its commands, against the tick of the control task, which    *)
(* stands aside while the tool is active, and soft idle, which does not    *)
(* (bringup.c, control_fsm.c, rtc.c).                                      *)
(*                                                                         *)
(* What the state machine asks of a tick is any of Requests; the console   *)
(* knows BU.BEGIN, BU.END, BU.RELAY, BU.SENSORS.WATCH and                  *)
(* BU.FACTORY_RESET, the commands that reach the relays or the tool's own  *)
(* state.  The sensors' rail and the debouncer are left out; the debouncer *)
(* is in MotorRelays.                                                      *)
(***************************************************************************)
EXTENDS RelayLogic

CONSTANTS
  Requests,    \* what control_task may pass to drive_relays
  Pulses,      \* what BU.RELAY may be asked for: one bridge, one direction
  GapTicks,    \* 2 * EFUSE_INRUSH_US, in ticks
  MaxPolls,    \* bound: the length of a pulse, in polls of 10 ms
  MaxDue       \* bound: entries and exits of soft idle under way

ASSUME BringUpAssumption ==
  /\ Requests \subseteq [Bridges -> Dirs] /\ Pulses \subseteq [Bridges -> Dirs]
  /\ GapTicks \in Nat /\ MaxPolls \in Nat \ {0} /\ MaxDue \in Nat

VARIABLES
  active,   \* s_active
  last,     \* last_relay_state
  offAge,   \* ticks since isens[b].off_us
  wire,     \* the bridges as the expander drives them
  pc,       \* the control task in its tick
  granted,  \* what this tick's drive_relays writes
  con,      \* the console in its command
  target,   \* the relay_port_t of the pulse under way
  polls,    \* what is left of it
  open,     \* the safety loop is broken
  home,     \* the jack's sensor is active
  asleep,   \* in_soft_idle
  due,      \* entries and exits of soft idle that have not written the port yet
  raced,    \* history: a tick overlaps the tool's taking or leaving the port
  cut       \* history: soft idle wrote the port after the tool did

control == <<pc, granted>>
console == <<con, target, polls>>
pins    == <<open, home>>
soft    == <<asleep, due, cut>>
vars    == <<active, last, offAge, wire, control, console, pins, soft, raced>>

-----------------------------------------------------------------------------
\* Slip: the state machine does not look whether the tool is active.
SkipsNever == FALSE

Skips == active

\* The tool lets go of the relays before the restart of the chip.
Leaving == con \in {"leaving", "left", "restart"} /\ ~active

\* The top of a tick: the tool's relays are left alone.
Tick ==
  /\ pc = "tick"
  /\ offAge' = [b \in Bridges |-> Aged(offAge[b], GapTicks)]
  /\ pc' = IF Skips THEN "tick" ELSE "drive"
  /\ raced' = (raced \/ Leaving)
  /\ UNCHANGED <<active, last, wire, granted, console, pins, soft>>

\* drive_relays compares the request with last_relay_state, ...
DriveRelays(req) ==
  /\ pc = "drive" /\ pc' = "store"
  /\ granted' = [b \in Bridges |-> Granted(last[b], req[b], offAge[b], GapTicks)]
  /\ offAge' = [b \in Bridges |->
                  IF StampsOff(last[b], req[b]) THEN 0 ELSE offAge[b]]
  /\ UNCHANGED <<active, last, wire, console, pins, soft, raced>>

\* ... drives nothing in soft idle, ...
Sleeps ==
  /\ pc = "store" /\ asleep /\ pc' = "tick"
  /\ UNCHANGED <<active, last, offAge, wire, granted, console, pins, soft, raced>>

\* ... keeps the travel motor off in an open loop, and remembers what it does ...
StoreRelays ==
  /\ pc = "store" /\ ~asleep /\ pc' = "write"
  /\ granted' = IF open THEN [granted EXCEPT !["DRIVE"] = "OFF"] ELSE granted
  /\ last' = granted'
  /\ UNCHANGED <<active, offAge, wire, console, pins, soft, raced>>

\* ... before it writes the port.
WriteRelays ==
  /\ pc = "write" /\ pc' = "tick"
  /\ wire' = granted
  /\ UNCHANGED <<active, last, offAge, granted, console, pins, soft, raced>>

-----------------------------------------------------------------------------
\* A command that writes the port does it in two steps: last_relay_state, then
\* the expander; `then` is where it goes on.  With no tick under way, and none to
\* come, the two settle what an earlier race left behind.
Remember(from, then, relays) ==
  /\ con = from /\ con' = then
  /\ last' = relays
  /\ raced' = (raced /\ ~(active /\ pc = "tick"))
  /\ UNCHANGED <<active, offAge, wire, control, target, polls, pins, soft>>

Expand(from, then, relays) ==
  /\ con = from /\ con' = then
  /\ wire' = relays /\ cut' = FALSE
  /\ UNCHANGED <<active, last, offAge, control, target, polls, pins, asleep, due, raced>>

\* BU.BEGIN: bringup_mode_enter.
Begin ==
  /\ con = "idle" /\ con' = "entering"
  /\ active' = TRUE /\ raced' = (raced \/ pc # "tick")
  /\ UNCHANGED <<last, offAge, wire, control, target, polls, pins, soft>>

\* BU.END: after its answer and 200 ms, bringup_mode_exit.
End ==
  /\ con = "idle" /\ con' = "leaving"
  /\ active' = FALSE /\ raced' = (raced \/ pc # "tick")
  /\ UNCHANGED <<last, offAge, wire, control, target, polls, pins, soft>>

\* BU.FACTORY_RESET: refused unless the tool is active; restarts the chip.
FactoryReset ==
  /\ con = "idle" /\ active /\ con' = "restart"
  /\ UNCHANGED <<active, last, offAge, wire, control, target, polls, pins, soft, raced>>

\* BU.RELAY SENSORS and BU.SENSORS.WATCH write the rail, and so the whole port.
Rail == Expand("idle", "idle", AllOff)

\* BU.RELAY looks at the pin itself, since the debouncer may be standing still.
Relay(pulse, length) ==
  /\ con = "idle" /\ ~open
  /\ con' = "pulse" /\ target' = pulse /\ polls' = length
  /\ UNCHANGED <<active, last, offAge, wire, control, pins, soft, raced>>

Stops == polls = 0 \/ open \/ (target["JACK"] = "REV" /\ home)

\* One round of the pulse: time, safety, and the jack's sensor on its way down.
Poll ==
  /\ con = "pulsing"
  /\ IF Stops THEN con' = "stop" /\ UNCHANGED polls
              ELSE polls' = polls - 1 /\ UNCHANGED con
  /\ UNCHANGED <<active, last, offAge, wire, control, target, pins, soft, raced>>

\* Slip: last_relay_state is cleared, the port is not.
ReleasedNot == wire

Released == AllOff

Command ==
  \/ Begin \/ End \/ FactoryReset \/ Rail
  \/ \E pulse \in Pulses, length \in 1..MaxPolls : Relay(pulse, length)

Continue ==
  \/ Remember("entering", "entered", AllOff)
  \/ Expand("entered", "idle", AllOff)
  \/ Remember("pulse", "pulsed", target)
  \/ Expand("pulsed", "pulsing", target)
  \/ Poll
  \/ Remember("stop", "stopped", AllOff)
  \/ Expand("stopped", "idle", Released)
  \/ Remember("leaving", "left", AllOff)
  \/ Expand("left", "restart", AllOff)

\* esp_restart leaves the expander alone; i2c_init clears it in the next start.
Restart ==
  /\ con = "restart" /\ con' = "idle"
  /\ active' = FALSE /\ raced' = FALSE
  /\ asleep' = FALSE /\ due' = 0 /\ cut' = FALSE
  /\ last' = AllOff /\ wire' = AllOff
  /\ offAge' = [b \in Bridges |-> GapTicks + 1]
  /\ pc' = "tick" /\ granted' = AllOff /\ target' = AllOff /\ polls' = 0
  /\ UNCHANGED pins

PinsMove ==
  /\ open' \in BOOLEAN /\ home' \in BOOLEAN
  /\ UNCHANGED <<active, last, offAge, wire, control, console, soft, raced>>

-----------------------------------------------------------------------------
\* soft_idle_enter by the timer of a web request, soft_idle_exit by whoever feeds
\* the inactivity timer: neither asks for the tool.  The flag comes first, ...
SoftIdle ==
  /\ due < MaxDue /\ due' = due + 1
  /\ asleep' = ~asleep
  /\ UNCHANGED <<active, last, offAge, wire, control, console, pins, cut, raced>>

\* ... then i2c_relays_sleep or i2c_relays_idle, which leave last_relay_state alone.
SoftWrites ==
  /\ due > 0 /\ due' = due - 1
  /\ wire' = AllOff /\ cut' = TRUE
  /\ UNCHANGED <<active, last, offAge, control, console, pins, asleep, raced>>

-----------------------------------------------------------------------------
Init ==
  /\ active = FALSE /\ raced = FALSE
  /\ asleep = FALSE /\ due = 0 /\ cut = FALSE
  /\ last = AllOff /\ wire = AllOff
  /\ offAge = [b \in Bridges |-> GapTicks + 1]
  /\ pc = "tick" /\ granted = AllOff
  /\ con = "idle" /\ target = AllOff /\ polls = 0
  /\ open \in BOOLEAN /\ home \in BOOLEAN

Control == \/ Tick \/ Sleeps \/ StoreRelays \/ WriteRelays
           \/ \E req \in Requests : DriveRelays(req)

Next == \/ Control \/ Command \/ Continue \/ Restart \/ PinsMove
        \/ SoftIdle \/ SoftWrites

\* Both tasks run on: a command that has begun is carried to its end.
Spec == Init /\ [][Next]_vars /\ WF_vars(Control) /\ WF_vars(Continue)

-----------------------------------------------------------------------------
Steps == {"idle", "entering", "entered", "pulse", "pulsed", "pulsing", "stop",
          "stopped", "leaving", "left", "restart"}

TypeOK ==
  /\ active \in BOOLEAN /\ raced \in BOOLEAN
  /\ last \in [Bridges -> Dirs] /\ wire \in [Bridges -> Dirs]
  /\ offAge \in [Bridges -> 0..(GapTicks + 1)]
  /\ pc \in {"tick", "drive", "store", "write"} /\ granted \in [Bridges -> Dirs]
  /\ con \in Steps /\ target \in [Bridges -> Dirs] /\ polls \in 0..MaxPolls
  /\ open \in BOOLEAN /\ home \in BOOLEAN
  /\ asleep \in BOOLEAN /\ due \in 0..MaxDue /\ cut \in BOOLEAN

\* Neither task is on its way to the port, and the tool has it.
Settled ==
  /\ pc = "tick"
  /\ con \in {"idle", "pulsing", "restart"} /\ (active \/ con = "restart")

(***************************************************************************)
(* The tool's relays are its own: between its commands nothing runs, in a  *)
(* pulse its one motor, or none where soft idle has written the port since,*)
(* and last_relay_state is what the tool did.  What a tick that was under  *)
(* way when the tool took the port over has left ends with the next        *)
(* command that writes it.                                                 *)
(***************************************************************************)
BenchOwnsRelays ==
  (Settled /\ ~raced) =>
    IF con = "pulsing"
      THEN last = target /\ (wire = target \/ (cut /\ wire = AllOff))
      ELSE last = AllOff /\ wire = AllOff

(***************************************************************************)
(* "Bring-up tool owns the LEDs, buttons, and relays while active": the    *)
(* same without the exception for a tick under way.                        *)
(***************************************************************************)
BenchAlwaysOwns == (Settled /\ active) => (con # "pulsing" => wire = AllOff)

(***************************************************************************)
(* "We also mirror the relay state into last_relay_state so V5's shared    *)
(* autozero gate ... stays truthful": in a pulse the driver's memory is    *)
(* the port.                                                               *)
(***************************************************************************)
StaysTruthful == (Settled /\ active /\ con = "pulsing") => wire = last

(***************************************************************************)
(* Every pulse is released, in a bring-up session or outside of one, with   *)
(* whatever the control task is doing meanwhile.                            *)
(***************************************************************************)
PulseEnds == (con = "pulsing") ~> (wire = AllOff)
=============================================================================
