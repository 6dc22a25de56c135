------------------------------ MODULE BootGuard ------------------------------
(***************************************************************************)
(* Start-up and firmware update: app_main up to its main loop, the counter *)
(* of crashes that sends the device back to its previous firmware, and the *)
(* upload that replaces it (main.c, webserver.c).                          *)
(*                                                                         *)
(* The two application slots and the selection between them belong to the  *)
(* vendor's OTA library.  The specification is named BootSpec, since the   *)
(* web server, which takes the uploads, is extended together with it.      *)
(***************************************************************************)
EXTENDS Naturals, FiniteSets

CONSTANTS
  Slots,       \* ota_0 and ota_1
  Uploads,     \* the images somebody may upload, by what is wrong with them
  Threshold,   \* OTA_ROLLBACK_THRESHOLD
  Kept,        \* whether RTC memory outlasts a reset that is no power-on
  MaxCuts      \* bound: power cuts and presses of the reset button

\* What an image may do wrong: nothing, panic before or after the counter has
\* been looked at, or fail a critical initialisation before or after it.
Images == {"good", "panicsEarly", "panicsLate", "failsEarly", "failsLate"}

ASSUME BootGuardAssumption ==
  /\ IsFiniteSet(Slots) /\ Cardinality(Slots) = 2
  /\ Uploads \subseteq Images
  /\ Threshold \in Nat \ {0} /\ MaxCuts \in Nat
  /\ Kept \subseteq BOOLEAN /\ Kept # {}

VARIABLES
  image,     \* what a slot holds: an image, or one "torn" by a cut upload
  refused,   \* slots the boot loader will not take: marked invalid
  boot,      \* the slot that is started next
  stage,     \* how far app_main has come
  reason,    \* esp_reset_reason(): "poweron" (or the button), "sw", "panic" (or a watchdog)
  counter,   \* ota_reset_counter, in RTC memory
  upload,    \* the OTA handler: "none", "writing", "ended"
  incoming,  \* the image under way
  cuts

flash == <<image, refused, boot>>
ota   == <<upload, incoming>>
bootVars  == <<flash, stage, reason, counter, ota, cuts>>

Other == CHOOSE s \in Slots : s # boot

-----------------------------------------------------------------------------
\* Every reset ends what is running; the handler's upload is not resumed.
Stops(why) ==
  /\ stage' = "start" /\ reason' = why
  /\ upload' = "none" /\ incoming' = "good"

\* A reset with the counter at c: it stays in RTC memory, or the boot loader
\* loads that memory anew from the image, and then the counter starts at zero.
Reset(why, c) ==
  /\ Stops(why)
  /\ \E kept \in Kept : counter' = IF kept THEN c ELSE 0

\* A power cut or the reset button.
PowerCut ==
  /\ cuts < MaxCuts /\ cuts' = cuts + 1
  /\ Stops("poweron")
  /\ counter' = 0
  /\ UNCHANGED flash

Panics(early) == image[boot] = IF early THEN "panicsEarly" ELSE "panicsLate"
Fails(early)  == image[boot] = IF early THEN "failsEarly" ELSE "failsLate"

\* I2C, ADC, storage, log, self tests: init_critical tries three times and
\* calls esp_restart.
Start ==
  /\ stage = "start"
  /\ CASE Panics(TRUE) -> Reset("panic", counter)
       [] Fails(TRUE)  -> Reset("sw", counter)
       [] OTHER        -> stage' = "count" /\ UNCHANGED <<reason, counter, ota>>
  /\ UNCHANGED <<flash, cuts>>

\* What the counter is after looking at the reset reason.
Counted ==
  CASE reason = "poweron" -> 0
    [] reason = "panic"   -> counter + 1
    [] OTHER              -> counter

\* esp_ota_mark_app_invalid_rollback_and_reboot can go back to a whole image
\* (sdkconfig leaves the boot loader's own rollback off).
Possible == Other \notin refused /\ image[Other] # "torn"

RollsBack == reason = "panic" /\ Counted >= Threshold /\ Possible

\* The reset reason is looked at; enough crashes lead to the other slot.  When
\* there is nothing to go back to, the call returns and the start goes on.
Count ==
  /\ stage = "count"
  /\ IF RollsBack
       THEN refused' = refused \cup {boot} /\ boot' = Other /\ Reset("sw", Counted)
       ELSE stage' = "init" /\ counter' = Counted /\ UNCHANGED <<refused, boot, reason, ota>>
  /\ UNCHANGED <<image, cuts>>

\* Slip: the counter goes on from the last start that came up.
ClearedNever == counter

Cleared == 0

\* UART, sensors, state machine, radios; then the firmware is called good.
Initialise ==
  /\ stage = "init"
  /\ CASE Panics(FALSE) -> Reset("panic", counter) /\ UNCHANGED refused
       [] Fails(FALSE)  -> Reset("sw", counter) /\ UNCHANGED refused
       [] OTHER         -> /\ stage' = "up" /\ counter' = Cleared
                           /\ refused' = refused \ {boot}
                           /\ UNCHANGED <<reason, ota>>
  /\ UNCHANGED <<image, boot, cuts>>

\* Once in a while a running firmware crashes, or is restarted on request.
CrashUp ==
  /\ stage = "up"
  /\ \E why \in {"panic", "sw"} : Reset(why, counter)
  /\ UNCHANGED <<flash, cuts>>

-----------------------------------------------------------------------------
\* ota_post_handler: esp_ota_begin erases the slot that is not running, ...
BeginUpload(new) ==
  /\ stage = "up" /\ upload = "none"
  /\ upload' = "writing" /\ incoming' = new
  /\ image' = [image EXCEPT ![Other] = "torn"]
  /\ UNCHANGED <<refused, boot, stage, reason, counter, cuts>>

\* ... timeouts, a lost connection, a failing write or a bad image abort it, ...
AbortUpload ==
  /\ upload = "writing"
  /\ upload' = "none" /\ incoming' = "good"
  /\ UNCHANGED <<flash, stage, reason, counter, cuts>>

\* ... esp_ota_end validates what has been received, ...
EndUpload ==
  /\ upload = "writing" /\ upload' = "ended"
  /\ image' = [image EXCEPT ![Other] = incoming]
  /\ UNCHANGED <<incoming, refused, boot, stage, reason, counter, cuts>>

\* Slip: the slot is chosen without waiting for esp_ota_end.
ReadyUnended == upload # "none"

Ready == upload = "ended"

\* ... and esp_ota_set_boot_partition chooses it; a restart follows.
SetBoot ==
  /\ Ready
  /\ boot' = Other /\ refused' = refused \ {Other}
  /\ Reset("sw", counter)
  /\ UNCHANGED <<image, cuts>>

-----------------------------------------------------------------------------
BootInit ==
  /\ boot \in Slots
  /\ image = [s \in Slots |-> IF s = boot THEN "good" ELSE "torn"]
  /\ refused = {} /\ stage = "start" /\ reason = "poweron" /\ counter = 0
  /\ upload = "none" /\ incoming = "good" /\ cuts = 0

Boots  == Start \/ Count \/ Initialise
Update == AbortUpload \/ EndUpload \/ SetBoot \/ \E new \in Uploads : BeginUpload(new)

BootNext == Boots \/ CrashUp \/ Update \/ PowerCut

\* A start goes on.
BootSpec == BootInit /\ [][BootNext]_bootVars /\ WF_bootVars(Boots)

-----------------------------------------------------------------------------
BootTypeOK ==
  /\ image \in [Slots -> Images \cup {"torn"}]
  /\ refused \subseteq Slots /\ boot \in Slots
  /\ stage \in {"start", "count", "init", "up"}
  /\ reason \in {"poweron", "sw", "panic"}
  /\ counter \in 0..Threshold
  /\ upload \in {"none", "writing", "ended"} /\ incoming \in Images
  /\ cuts \in 0..MaxCuts

(***************************************************************************)
(* Whatever is cut short, the slot that is started next holds a whole      *)
(* image, and one that has not been marked invalid.                        *)
(***************************************************************************)
BootsWhole == image[boot] # "torn" /\ boot \notin refused

(***************************************************************************)
(* A firmware that comes up is not rolled back, however often it crashes   *)
(* later: "consecutive" crashes are those without a start that succeeds.   *)
(***************************************************************************)
GoodIsKept == [][\A s \in refused' \ refused : image[s] # "good"]_bootVars

(***************************************************************************)
(* The rollback finds a firmware that works: whatever an uploaded image    *)
(* does wrong once the counter has been looked at, the device comes up     *)
(* again.  It rests on RTC memory outlasting a panic, and on a failed      *)
(* initialisation being a panic.                                           *)
(***************************************************************************)
ComesUp == []<>(stage = "up")
=============================================================================
