----------------------------- MODULE RelayLogic -----------------------------
(***************************************************************************)
(* The pure part of drive_relays (src/main/power_mgmt.c): what the driver  *)
(* makes of one requested direction, given what it remembers of the        *)
(* bridge.  Shared by MotorRelays, which exercises it with every request,  *)
(* and by ControlFsm, which issues the requests of the move cycle.         *)
(***************************************************************************)
EXTENDS Integers

Bridges == {"DRIVE", "JACK", "AUX"}

Dirs == {"OFF", "FWD", "REV"}

AllOff == [b \in Bridges |-> "OFF"]

\* A relay_port_t literal: the bridges named, everything else off.
Energize(d, j, a) ==
  [b \in Bridges |-> CASE b = "DRIVE" -> d [] b = "JACK" -> j [] b = "AUX" -> a]

Opposed(d, e) == {d, e} = {"FWD", "REV"}

(***************************************************************************)
(* BRIDGE_TRANSITION_LOGIC.  `age` is the number of ticks since the        *)
(* driver's off_us stamp, `gap` the two inrush times it waits.             *)
(***************************************************************************)
Granted(was, want, age, gap) ==
  IF want = was \/ (was = "OFF" /\ age > gap) THEN want ELSE "OFF"

\* Slip: the branch of a reversal forgets its stamp.
StampsOffOnly(was, want) == was # "OFF" /\ want = "OFF"

\* The two branches that stamp off_us: on -> off, and on -> another direction.
StampsOff(was, want) == was # "OFF" /\ want # was

\* The code compares fsm_now with a stamp.  The difference is kept here, and
\* no longer counted once it is past the value it is compared with.
Aged(age, bound) == IF age > bound THEN age ELSE age + 1
=============================================================================
