-------------------------- MODULE ControlFsmProofs --------------------------
(***************************************************************************)
(* Theorems about ControlFsm, for every set of commands and jogs, every    *)
(* timing and every plant.                                                 *)
(***************************************************************************)
EXTENDS ControlFsm, TLAPS

-----------------------------------------------------------------------------
LEMMA AllOffType == AllOff \in [Bridges -> Dirs]
  BY DEF AllOff, Dirs

\* Every relay_port_t literal of the code has a direction for every bridge.
LEMMA EnergizeType ==
  ASSUME NEW d \in Dirs, NEW j \in Dirs, NEW a \in Dirs
  PROVE  Energize(d, j, a) \in [Bridges -> Dirs]
  BY DEF Energize, Bridges

LEMMA JoggedType ==
  ASSUME NEW cmd
  PROVE  Jogged(cmd) \in [Bridges -> Dirs]
  BY EnergizeType, AllOffType DEF Jogged, Dirs

LEMMA WantedType == Wanted \in [Bridges -> Dirs]
  BY JoggedType, EnergizeType, AllOffType DEF Wanted, Dirs

LEMMA RelaysType ==
  ASSUME TypeOK
  PROVE  Relays(Wanted) \in [Bridges -> Dirs]
<1>1. \A b \in Bridges : Wanted[b] \in Dirs
  BY WantedType
<1>2. QED
  BY <1>1 DEF Relays, Granted, Dirs

\* A stopwatch that runs down, and one that runs up to its bound.
LEMMA LeftType ==
  ASSUME NEW t \in Nat
  PROVE  Left(t) \in Nat /\ Left(t) <= t
  BY DEF Left

LEMMA AgedType ==
  ASSUME NEW bound \in Nat, NEW age \in 0..(bound + 1)
  PROVE  Aged(age, bound) \in 0..(bound + 1)
  BY DEF Aged

\* The jack is given at least as long to come down as it took to go up.
LEMMA JackDownTicksType ==
  ASSUME NEW up \in Nat
  PROVE  JackDownTicks(up) \in Nat /\ up <= JackDownTicks(up)
<1>1. JackTime \in Nat
  BY TimesAssumption
<1>2. MaxOf(up, JackTime) \in Nat /\ up <= MaxOf(up, JackTime)
  BY <1>1 DEF MaxOf
<1>3. \A m \in Nat : (m * 105) \div 100 \in Nat /\ m <= (m * 105) \div 100
  OBVIOUS
<1>4. QED
  BY <1>2, <1>3 DEF JackDownTicks

LEMMA ProductType ==
  ASSUME NEW m \in Nat, NEW n \in Nat
  PROVE  m * n \in Nat
  OBVIOUS

-----------------------------------------------------------------------------
(***************************************************************************)
(* TYPES, action by action.                                                *)
(***************************************************************************)
LEMMA InitTypes == Init => TypeOK
<1> SUFFICES ASSUME Init PROVE TypeOK
  OBVIOUS
<1>1. /\ remaining \in Int /\ jack \in 0..JackTop /\ 0 <= EncCap
      /\ offAge \in [Bridges -> 0..(GapTicks + 1)]
      /\ efuse \in [Bridges -> Nat]
  BY PlantAssumption, TimesAssumption DEF Init
<1>2. over \in Armed /\ arming \in [Senders -> Armed]
  BY DEF Init, Armed, NoJog, JogKinds
<1>3. requests \in 0..MaxRequests /\ jogs \in 0..MaxJogs
  BY SentAssumption DEF Init
<1>4. /\ queue \in Seq(Commands)
      /\ state \in States /\ error \in Errors
  BY DEF Init, States, Errors
<1>5. enc \in Int /\ enc <= EncCap
  BY <1>1 DEF Init
<1>6. QED
  BY <1>1, <1>2, <1>3, <1>4, <1>5, AllOffType DEF Init, TypeOK

LEMMA TickTypes == TypeOK /\ Tick => TypeOK'
<1> SUFFICES ASSUME TypeOK, Tick PROVE TypeOK'
  OBVIOUS
<1>1. timer' \in Nat /\ pressLeft' \in Nat /\ upAge' \in Nat
  <2>1. /\ timer' = Left(timer) /\ pressLeft' = Left(pressLeft)
        /\ upAge' \in {upAge, upAge + 1}
    BY DEF Tick
  <2>2. timer \in Nat /\ pressLeft \in Nat /\ upAge \in Nat
    BY DEF TypeOK
  <2>3. QED
    BY <2>1, <2>2, LeftType
<1>2. over' \in Armed
  BY LeftType DEF TypeOK, Tick, Armed
<1>3. arming' \in [Senders -> Armed]
  BY LeftType DEF TypeOK, Tick, Armed
<1>4. offAge' \in [Bridges -> 0..(GapTicks + 1)]
  BY AgedType, TimesAssumption DEF TypeOK, Tick
<1>5. efuse' \in [Bridges -> Nat]
  <2>1. PICK trips \in SUBSET (Dominant \intersect FusesThatTrip), cool \in CoolTimes :
          efuse' = [b \in Bridges |->
                      IF b \in trips THEN cool ELSE Left(efuse[b])]
    BY DEF Tick, FusesNext
  <2>2. efuse \in [Bridges -> Nat] /\ cool \in Nat
    BY TimesAssumption DEF TypeOK
  <2>3. QED
    BY <2>1, <2>2 DEF Left
<1>6. jack' \in 0..JackTop
  <2>1. jack' = JackMoved /\ jack \in 0..JackTop /\ JackTop \in Nat
    BY PlantAssumption DEF TypeOK, Tick
  <2>2. QED
    BY <2>1 DEF JackMoved, MinOf, Left
<1>7. enc' \in Int /\ enc' <= EncCap
  <2>1. PICK step \in EncSteps :
          enc' = IF out["DRIVE"] = "OFF" THEN enc ELSE MinOf(enc + step, EncCap)
    BY DEF Tick
  <2>2. enc \in Int /\ enc <= EncCap /\ step \in Nat /\ EncCap \in Nat
    BY PlantAssumption DEF TypeOK
  <2>3. QED
    BY <2>1, <2>2 DEF MinOf
<1>8. out' \in [Bridges -> Dirs] /\ isSafe' \in BOOLEAN
  BY AllOffType DEF TypeOK, Tick
<1>9. /\ pc' = "commands"
      /\ UNCHANGED <<queue, state, error, move, upTicks, cuts, jackPos, last,
                     withheld, jogs, raced, requests, stopped>>
  BY DEF Tick
<1>10. QED
  BY <1>1, <1>2, <1>3, <1>4, <1>5, <1>6, <1>7, <1>8, <1>9
  DEF TypeOK, move

\* What commands and transitions change.
MachineTypes ==
  /\ state \in States /\ timer \in Nat /\ error \in Errors
  /\ moveDist \in Nat /\ remaining \in Int /\ startEnc \in Int
  /\ upAge \in Nat /\ upTicks \in Nat
  /\ cuts \subseteq LiftPhases \union {"retract"}
  /\ enc \in Int /\ enc <= EncCap

LEMMA ReceiveTypes ==
  TypeOK /\ (\E cmd \in Cmds, low \in LowBattery : Receive(cmd, low)) => TypeOK'
<1> SUFFICES ASSUME TypeOK, NEW cmd \in Cmds, NEW low \in LowBattery,
                    Receive(cmd, low)
             PROVE  TypeOK'
  OBVIOUS
<1>1. queue' \in Seq(Commands)
  BY DEF TypeOK, Receive
<1>2. /\ enc' \in Int /\ enc' <= EncCap
      /\ remaining' \in Int /\ startEnc' \in Int
  BY PlantAssumption DEF TypeOK, Receive
<1>3. MachineTypes'
  <2>1. CASE StartCmd(low)
    <3>1. StartFault(low) \in Errors
      BY DEF StartFault, Errors
    <3>2. /\ state' \in States /\ timer' \in Nat
          /\ upAge' \in Nat /\ upTicks' \in Nat
          /\ cuts' \subseteq LiftPhases \union {"retract"}
      BY <2>1, TimesAssumption DEF TypeOK, StartCmd, Goto, States, lift
    <3>3. moveDist' \in Nat
      BY <2>1, TimesAssumption DEF TypeOK, StartCmd, MinOf
    <3>4. error' \in Errors
      BY <2>1, <3>1 DEF TypeOK, StartCmd, Errors
    <3>5. QED
      BY <1>2, <3>2, <3>3, <3>4 DEF MachineTypes
  <2>2. CASE StopCmd
    BY <2>2, <1>2 DEF TypeOK, MachineTypes, StopCmd, States, lift
  <2>3. CASE UndoCmd
    BY <2>3, <1>2 DEF TypeOK, MachineTypes, UndoCmd, States, Fluffing, lift
  <2>4. ASSUME NEW expected, NEW next \in States, NEW t \in Nat, NEW ok,
               Calibrate(expected, next, t, ok)
        PROVE  MachineTypes'
    BY <2>4, <1>2 DEF TypeOK, MachineTypes, Calibrate, Goto, lift
  <2>5. /\ {"IDLE", "CALIBRATE_JACK_DELAY", "CALIBRATE_DRIVE_DELAY",
            "CALIBRATE_JACK_MOVE", "CALIBRATE_DRIVE_MOVE"} \subseteq States
        /\ timer \in Nat
    BY DEF States, Raising, Driving, TypeOK
  <2>6. QED
    BY <2>1, <2>2, <2>3, <2>4, <2>5, TimesAssumption DEF Receive
<1>4. stopped' \in BOOLEAN
  BY DEF TypeOK, Receive
<1>5. QED
  BY <1>1, <1>2, <1>3, <1>4
  DEF TypeOK, MachineTypes, Receive, relay, jogging

\* What a transition records of the e-fuse of the jack.
LEMMA CutsType ==
  ASSUME cuts \subseteq LiftPhases \union {"retract"}, Transition
  PROVE  cuts' \subseteq LiftPhases \union {"retract"}
<1> USE DEF Goto, Stay, Quiet, Fail, FailAndLower, machine, lift
<1>1. CASE MoveStartDelay \/ MoveJackRetract \/ MoveJackSettle
  <2>1. cuts' \in {cuts, cuts \union {"retract"}, cuts \ LiftPhases}
    BY <1>1 DEF MoveStartDelay, MoveJackRetract, MoveJackSettle, BeginJackUp, Cuts
  <2>2. QED
    BY <2>1
<1>2. CASE (\E engaged \in Engagement : JackUpStart(engaged)) \/ JackUp
  <2>1. cuts' \in {cuts, cuts \union {"phase 1"}, cuts \union {"phase 2"}}
    BY <1>2 DEF JackUpStart, JackUp, JackRaised, JackFinished, Cuts
  <2>2. QED
    BY <2>1 DEF LiftPhases
<1>3. CASE DriveStartDelay \/ DriveFluffStart \/ Drive \/ DriveEndDelay
  <2>1. (BeginDrive \/ DriveTripped \/ DriveDone) => cuts' = cuts
    BY DEF BeginDrive, DriveTripped, DriveDone
  <2>2. cuts' = cuts
    BY <1>3, <2>1 DEF DriveStartDelay, DriveFluffStart, Drive, DriveEndDelay
  <2>3. QED
    BY <2>2
<1>4. CASE JackDown \/ UndoJackStart \/ CalibrateJackMove \/ CalibrateDriveMove \/ Waiting
  BY <1>4 DEF JackDown, UndoJackStart, CalibrateJackMove, CalibrateDriveMove, Waiting
<1>5. QED
  BY <1>1, <1>2, <1>3, <1>4 DEF Transition

\* What a state transition changes.
LEMMA TransitionTypes == TypeOK /\ Transition => MachineTypes'
<1> SUFFICES ASSUME TypeOK, Transition PROVE MachineTypes'
  OBVIOUS
<1> USE TimesAssumption, PlantAssumption, JackDownTicksType
    DEF TypeOK, MachineTypes, Goto, Stay, Quiet, Fail, FailAndLower, BeginJackUp,
        JackRaised, JackFinished, States, Errors, Raising, Lowering, Driving,
        Fluffing, machine, move, lift
<1>0. cuts' \subseteq LiftPhases \union {"retract"}
  BY CutsType
<1> USE <1>0
<1>1. CASE MoveStartDelay
  BY <1>1 DEF MoveStartDelay
<1>2. CASE MoveJackRetract
  BY <1>2 DEF MoveJackRetract
<1>3. CASE MoveJackSettle
  BY <1>3 DEF MoveJackSettle
<1>4. CASE \E engaged \in Engagement : JackUpStart(engaged)
  BY <1>4 DEF JackUpStart
<1>5. CASE JackUp
  BY <1>5 DEF JackUp
<1>6. CASE DriveStartDelay
  BY <1>6 DEF DriveStartDelay
<1>7. CASE DriveFluffStart
  <2>1. DriveTicks * moveDist \in Nat
    BY ProductType
  <2>2. CASE BeginDrive
    BY <2>1, <2>2 DEF BeginDrive
  <2>3. QED
    BY <1>7, <2>2 DEF DriveFluffStart
<1>8. CASE Drive
  <2>1. CASE DriveTripped
    BY <2>1 DEF DriveTripped, MaxOf
  <2>2. CASE DriveDone
    BY <2>2 DEF DriveDone
  <2>3. CASE FailAndLower("SAFETY_TRIP")
    BY <2>3
  <2>4. QED
    BY <1>8, <2>1, <2>2, <2>3 DEF Drive
<1>9. CASE DriveEndDelay
  BY <1>9 DEF DriveEndDelay
<1>10. CASE JackDown
  BY <1>10 DEF JackDown
<1>11. CASE UndoJackStart
  BY <1>11 DEF UndoJackStart
<1>12. CASE CalibrateJackMove
  BY <1>12 DEF CalibrateJackMove
<1>13. CASE CalibrateDriveMove
  BY <1>13 DEF CalibrateDriveMove
<1>14. CASE Waiting
  BY <1>14 DEF Waiting
<1>15. QED
  BY <1>1, <1>2, <1>3, <1>4, <1>5, <1>6, <1>7, <1>8, <1>9, <1>10, <1>11,
     <1>12, <1>13, <1>14
  DEF Transition

LEMMA DecideTypes == TypeOK /\ Decide => TypeOK'
BY TransitionTypes
DEF Decide, TypeOK, MachineTypes, relay, jogging

LEMMA SetOutputsTypes == TypeOK /\ SetOutputs => TypeOK'
<1> SUFFICES ASSUME TypeOK, SetOutputs PROVE TypeOK'
  OBVIOUS
<1>1. last' \in [Bridges -> Dirs] /\ out' \in [Bridges -> Dirs]
  BY RelaysType DEF SetOutputs
<1>2. offAge' \in [Bridges -> 0..(GapTicks + 1)]
  BY TimesAssumption DEF SetOutputs, TypeOK
<1>3. QED
  BY <1>1, <1>2 DEF SetOutputs, TypeOK, machine, move, lift, jogging

LEMMA TrackTypes == TypeOK /\ Track => TypeOK'
<1> SUFFICES ASSUME TypeOK, Track PROVE TypeOK'
  OBVIOUS
<1>1. jackPos' \in Nat
  <2>1. jackPos \in Nat
    BY DEF TypeOK
  <2>2. jackPos' \in {0, jackPos + 1, Left(jackPos), jackPos}
    BY DEF Track
  <2>3. QED
    BY <2>1, <2>2 DEF Left
<1>2. QED
  BY <1>1 DEF Track, TypeOK, machine, move, lift, relay, plant, jogging

\* stop_override.
LEMMA StopTypes == TypeOK /\ StopOverride => TypeOK'
<1> SUFFICES ASSUME TypeOK, StopOverride PROVE TypeOK'
  OBVIOUS
<1>1. over' \in Armed
  BY DEF StopOverride, TypeOK, Armed
<1>2. raced' \in Nat
  <2>1. raced \in Nat
    BY DEF TypeOK
  <2>2. raced' = IF pc = "track" THEN raced + 1 ELSE raced
    BY DEF StopOverride
  <2>3. QED
    BY <2>1, <2>2
<1>3. UNCHANGED <<pc, queue, machine, physical, arming, jogs, pressLeft,
                  requests, stopped>>
  BY DEF StopOverride
<1>4. QED
  BY <1>1, <1>2, <1>3
  DEF TypeOK, machine, move, lift, physical, relay, plant

\* The other tasks: commands, jogs, the remaining distance.
LEMMA OthersTypes == TypeOK /\ Others => TypeOK'
<1> SUFFICES ASSUME TypeOK, Others PROVE TypeOK'
  OBVIOUS
<1> USE SentAssumption DEF TypeOK
<1>1. ASSUME NEW cmd \in Cmds, Request(cmd) PROVE TypeOK'
  <2>1. queue' \in Seq(Commands)
    <3>1. cmd \in Commands /\ queue \in Seq(Commands)
      OBVIOUS
    <3>2. Append(queue, cmd) \in Seq(Commands)
      BY <3>1
    <3>3. QED
      BY <1>1, <3>1, <3>2 DEF Request
  <2>2. requests' \in 0..MaxRequests
    BY <1>1 DEF Request
  <2>3. QED
    BY <1>1, <2>1, <2>2
    DEF Request, machine, move, lift, physical, relay, plant, jogging
<1>2. ASSUME NEW s \in Senders, NEW cmd \in Jogs, NEW pulse \in Pulses,
             ArmBegin(s, cmd, pulse)
      PROVE  TypeOK'
  <2>1. arming' \in [Senders -> Armed]
    BY <1>2 DEF ArmBegin, Armed
  <2>2. pressLeft' \in Nat /\ jogs' \in 0..MaxJogs
    BY <1>2 DEF ArmBegin, MaxOf
  <2>3. QED
    BY <1>2, <2>1, <2>2
    DEF ArmBegin, machine, move, lift, physical, relay, plant
<1>3. ASSUME NEW s \in Senders, ArmEnd(s) PROVE TypeOK'
  <2>1. over' \in Armed /\ arming' \in [Senders -> Armed]
    BY <1>3 DEF ArmEnd, NoJog, Armed
  <2>2. QED
    BY <1>3, <2>1 DEF ArmEnd, machine, move, lift, physical, relay, plant
<1>4. ASSUME StopOverride PROVE TypeOK'
  BY <1>4, StopTypes
<1>5. ASSUME NEW dist \in NewDists, SetRemaining(dist) PROVE TypeOK'
  BY <1>5 DEF SetRemaining, lift, physical, relay, plant, jogging
<1>6. QED
  BY <1>1, <1>2, <1>3, <1>4, <1>5 DEF Others

(***************************************************************************)
(* Every variable of the tick keeps its type: no stopwatch goes below zero *)
(* or past its bound, the encoder stays below its cap.                     *)
(***************************************************************************)
THEOREM TypeCorrect == Spec => []TypeOK
<1>1. Init => TypeOK
  BY InitTypes
<1>2. TypeOK /\ [Next]_vars => TypeOK'
  <2> SUFFICES ASSUME TypeOK, [Next]_vars PROVE TypeOK'
    OBVIOUS
  <2>1. CASE UNCHANGED vars
    BY <2>1
    DEF vars, TypeOK, machine, move, lift, physical, relay, plant, jogging
  <2>2. QED
    BY <2>1, TickTypes, ReceiveTypes, DecideTypes, SetOutputsTypes, TrackTypes,
       OthersTypes
    DEF Next, Control
<1>3. QED
  BY <1>1, <1>2, PTL DEF Spec

-----------------------------------------------------------------------------
(***************************************************************************)
(* JOGS.  The history variable pressLeft bounds every deadline that is     *)
(* armed or about to be armed, and a motor is only on in STATE_IDLE when   *)
(* the snapshot of this tick still found such a deadline ahead.            *)
(***************************************************************************)
JogInv ==
  /\ over.left <= pressLeft
  /\ \A s \in Senders : arming[s].left <= pressLeft
  /\ (pc \in {"track", "tick"} /\ state = "IDLE" /\ out # AllOff) => pressLeft > 0

\* A state machine at rest with no live jog switches everything off.
LEMMA QuietIdle ==
  ASSUME TypeOK, state = "IDLE", Relays(Wanted) # AllOff
  PROVE  JogLive
<1> SUFFICES ASSUME ~JogLive PROVE Relays(Wanted) = AllOff
  OBVIOUS
<1>1. Wanted = AllOff
  BY DEF Wanted, Raising, Lowering, Driving, Fluffing
<1>2. \A b \in Bridges : Relays(Wanted)[b] = "OFF"
  BY <1>1 DEF Relays, Granted, AllOff
<1>3. QED
  BY <1>2 DEF Relays, AllOff

(***************************************************************************)
(* Every motor jogged in STATE_IDLE stops within the deadman time of the   *)
(* last jog accepted, however long the task that armed it was away between *)
(* its test of the state and its critical section.                         *)
(***************************************************************************)
THEOREM DeadmanHolds == Spec => []JogsEnd
<1>1. Init => JogInv
  <2> SUFFICES ASSUME Init PROVE JogInv
    OBVIOUS
  <2>1. over.left <= pressLeft /\ out = AllOff
    BY DEF Init
  <2>2. \A s \in Senders : arming[s].left <= pressLeft
    BY DEF Init, NoJog
  <2>3. QED
    BY <2>1, <2>2 DEF JogInv
<1>2. TypeOK /\ JogInv /\ [Next]_vars => JogInv'
  <2> SUFFICES ASSUME TypeOK, JogInv, [Next]_vars PROVE JogInv'
    OBVIOUS
  <2>1. /\ over.left \in Nat /\ pressLeft \in Nat
        /\ \A s \in Senders : arming[s] \in Armed /\ arming[s].left \in Nat
    BY DEF TypeOK, Armed
  <2>2. CASE Tick
    <3>1. over'.left = Left(over.left) /\ pressLeft' = Left(pressLeft)
      BY <2>2 DEF Tick, TypeOK, Armed
    <3>2. \A s \in Senders : arming'[s].left = Left(arming[s].left)
      BY <2>1, <2>2 DEF Tick, Armed
    <3>3. over'.left <= pressLeft'
      BY <2>1, <3>1 DEF JogInv, Left
    <3>4. \A s \in Senders : arming'[s].left <= pressLeft'
      BY <2>1, <3>1, <3>2 DEF JogInv, Left
    <3>5. pc' = "commands"
      BY <2>2 DEF Tick
    <3>6. QED
      BY <3>3, <3>4, <3>5 DEF JogInv
  <2>3. CASE \E cmd \in Cmds, low \in LowBattery : Receive(cmd, low)
    BY <2>3 DEF Receive, JogInv, jogging
  <2>4. CASE Decide
    BY <2>4 DEF Decide, JogInv, jogging
  <2>5. CASE SetOutputs
    <3>1. (state = "IDLE" /\ out' # AllOff) => JogLive
      BY <2>5, QuietIdle DEF SetOutputs
    <3>2. JogLive => pressLeft > 0
      BY <2>1 DEF JogLive, JogInv
    <3>3. UNCHANGED <<state, over, arming, pressLeft>>
      BY <2>5 DEF SetOutputs, machine, jogging
    <3>4. QED
      BY <3>1, <3>2, <3>3 DEF JogInv
  <2>6. CASE Track
    BY <2>6 DEF Track, JogInv, machine, plant, jogging
  <2>7. ASSUME NEW cmd \in Cmds, Request(cmd) PROVE JogInv'
    BY <2>7 DEF Request, JogInv, machine, physical, plant, jogging
  <2>8. ASSUME NEW s \in Senders, NEW cmd \in Jogs, NEW pulse \in Pulses,
               ArmBegin(s, cmd, pulse)
        PROVE  JogInv'
    <3>1. /\ pressLeft' = MaxOf(pressLeft, pulse) /\ over' = over
          /\ arming' = [arming EXCEPT ![s] = [cmd |-> cmd, left |-> pulse]]
          /\ UNCHANGED <<pc, state, out>>
      BY <2>8 DEF ArmBegin, machine, physical, plant
    <3>2. pulse \in Nat
      BY SentAssumption
    <3>3. pressLeft <= pressLeft' /\ pulse <= pressLeft' /\ pressLeft' \in Nat
      BY <2>1, <3>1, <3>2 DEF MaxOf
    <3>4. \A t \in Senders : arming'[t].left <= pressLeft'
      <4>1. TAKE t \in Senders
      <4>2. arming \in [Senders -> Armed]
        BY DEF TypeOK
      <4>3. CASE t = s
        BY <3>1, <3>3, <4>2, <4>3
      <4>4. CASE t # s
        BY <2>1, <3>1, <3>3, <4>2, <4>4 DEF JogInv
      <4>5. QED
        BY <4>3, <4>4
    <3>5. QED
      BY <2>1, <3>1, <3>3, <3>4 DEF JogInv
  <2>9. ASSUME NEW s \in Senders, ArmEnd(s) PROVE JogInv'
    <3>1. /\ over' = arming[s]
          /\ arming' = [arming EXCEPT ![s] = NoJog]
          /\ UNCHANGED <<pc, state, out, pressLeft>>
      BY <2>9 DEF ArmEnd, machine, physical, plant
    <3>2. \A t \in Senders : arming'[t].left <= pressLeft'
      BY <2>1, <3>1 DEF JogInv, NoJog, TypeOK
    <3>3. QED
      BY <3>1, <3>2 DEF JogInv
  <2>10. CASE StopOverride
    <3>1. over'.left = 0
      BY <2>10 DEF StopOverride, TypeOK, Armed
    <3>2. UNCHANGED <<pc, state, out, arming, pressLeft>>
      BY <2>10 DEF StopOverride, machine, physical, plant
    <3>3. QED
      BY <2>1, <3>1, <3>2 DEF JogInv
  <2>11. ASSUME NEW dist \in NewDists, SetRemaining(dist) PROVE JogInv'
    BY <2>11 DEF SetRemaining, JogInv, physical, plant, jogging
  <2>12. CASE UNCHANGED vars
    BY <2>12 DEF vars, JogInv, machine, physical, plant, jogging
  <2>13. QED
    BY <2>2, <2>3, <2>4, <2>5, <2>6, <2>7, <2>8, <2>9, <2>10, <2>11, <2>12
    DEF Next, Control, Others
<1>3. JogInv => JogsEnd
  BY DEF JogInv, JogsEnd
<1>4. QED
  BY <1>1, <1>2, <1>3, TypeCorrect, PTL DEF Spec

-----------------------------------------------------------------------------
(***************************************************************************)
(* TRAVEL.  While a move is on its way out, this_move_dist is what a START *)
(* would compute now, which is why a START that is not dropped early       *)
(* enough does no harm: it assigns the value that is there already.  Once  *)
(* the travel motor runs, the encoder's start is that distance, negated.   *)
(***************************************************************************)
Outbound ==
  {"MOVE_START_DELAY", "MOVE_JACK_RETRACT", "MOVE_JACK_SETTLE", "JACK_UP_START",
   "JACK_UP", "DRIVE_START_DELAY", "DRIVE_FLUFF_START", "DRIVE"}

TravelInv ==
  /\ remaining >= 0
  /\ state \in Outbound => moveDist = MinOf(DriveDist, remaining)
  /\ state = "DRIVE" => startEnc = -moveDist

\* A command leaves the invariant alone, START in the middle of a move included.
LEMMA ReceiveTravel ==
  ASSUME TypeOK, TravelInv, NEW cmd \in Cmds, NEW low \in LowBattery,
         Receive(cmd, low)
  PROVE  TravelInv'
<1>1. UNCHANGED <<remaining, startEnc>>
  BY DEF Receive
<1>2. CASE StartCmd(low)
  <2>1. CASE remaining <= 0
    <3>1. UNCHANGED <<state, moveDist>>
      BY <1>2, <2>1 DEF StartCmd, TypeOK
    <3>2. QED
      BY <1>1, <3>1 DEF TravelInv
  <2>2. CASE remaining > 0
    <3>1. moveDist' = MinOf(DriveDist, remaining)
      BY <1>2, <2>2 DEF StartCmd, TypeOK
    <3>2. state' = "DRIVE" => state = "DRIVE"
      BY <1>2, <2>2 DEF StartCmd, Goto, TypeOK
    <3>3. state = "DRIVE" => moveDist' = moveDist
      BY <3>1 DEF TravelInv, Outbound
    <3>4. QED
      BY <1>1, <3>1, <3>2, <3>3 DEF TravelInv
  <2>3. QED
    BY <2>1, <2>2 DEF TypeOK
<1>3. CASE StopCmd \/ UndoCmd
  <2>1. state' \in {"IDLE", "UNDO_JACK_START"} /\ UNCHANGED moveDist
    BY <1>3 DEF StopCmd, UndoCmd
  <2>2. QED
    BY <1>1, <2>1 DEF TravelInv, Outbound
<1>4. ASSUME NEW expected, NEW next, NEW t, NEW ok,
             next \notin Outbound, Calibrate(expected, next, t, ok)
      PROVE  TravelInv'
  <2>1. state' \in {state, next} /\ UNCHANGED moveDist
    BY <1>4 DEF Calibrate, Goto
  <2>2. QED
    BY <1>1, <1>4, <2>1 DEF TravelInv, Outbound
<1>5. \A next \in {"IDLE", "CALIBRATE_JACK_DELAY", "CALIBRATE_DRIVE_DELAY",
                   "CALIBRATE_JACK_MOVE", "CALIBRATE_DRIVE_MOVE"} :
        next \notin Outbound
  BY DEF Outbound
<1>6. QED
  BY <1>2, <1>3, <1>4, <1>5 DEF Receive

\* A transition that keeps the distances leads outbound only from outbound, and
\* does not complete a drive.
KeepsDistances ==
  /\ UNCHANGED move
  /\ state' \in Outbound => state \in Outbound
  /\ state' = "DRIVE" => state = "DRIVE"
  /\ state = "DRIVE" => state' # "DRIVE_END_DELAY"

\* Which transitions deduct from the remaining distance, and which begin to drive.
LEMMA TransitionTravel ==
  ASSUME TypeOK, Transition
  PROVE  \/ KeepsDistances
         \/ state = "DRIVE_FLUFF_START" /\ BeginDrive
         \/ state = "DRIVE" /\ DriveDone
         \/ state = "DRIVE" /\ DriveTripped
<1> USE DEF KeepsDistances, Outbound, Goto, Stay, Quiet, Fail, FailAndLower,
            BeginJackUp, JackRaised, machine
<1>1. CASE MoveStartDelay
  BY <1>1 DEF MoveStartDelay
<1>2. CASE MoveJackRetract
  BY <1>2 DEF MoveJackRetract
<1>3. CASE MoveJackSettle
  BY <1>3 DEF MoveJackSettle
<1>4. CASE \E engaged \in Engagement : JackUpStart(engaged)
  BY <1>4 DEF JackUpStart
<1>5. CASE JackUp
  BY <1>5 DEF JackUp
<1>6. CASE DriveStartDelay
  BY <1>6 DEF DriveStartDelay
<1>7. CASE DriveFluffStart
  BY <1>7 DEF DriveFluffStart
<1>8. CASE Drive
  BY <1>8 DEF Drive
<1>9. CASE DriveEndDelay
  BY <1>9 DEF DriveEndDelay
<1>10. CASE JackDown \/ UndoJackStart \/ CalibrateJackMove \/ CalibrateDriveMove
            \/ Waiting
  BY <1>10
  DEF JackDown, UndoJackStart, CalibrateJackMove, CalibrateDriveMove, Waiting
<1>11. QED
  BY <1>1, <1>2, <1>3, <1>4, <1>5, <1>6, <1>7, <1>8, <1>9, <1>10 DEF Transition

LEMMA DecideTravel ==
  ASSUME TypeOK, TravelInv, Decide
  PROVE  TravelInv'
<1> USE TimesAssumption DEF TypeOK
<1>1. CASE KeepsDistances
  BY <1>1 DEF KeepsDistances, TravelInv, move
<1>2. CASE state = "DRIVE_FLUFF_START" /\ BeginDrive
  BY <1>2 DEF BeginDrive, Goto, TravelInv, Outbound
<1>3. CASE state = "DRIVE" /\ DriveDone
  <2>1. moveDist = MinOf(DriveDist, remaining) /\ remaining >= 0
    BY <1>3 DEF TravelInv, Outbound
  <2>2. remaining' = remaining - moveDist /\ state' = "DRIVE_END_DELAY"
    BY <1>3 DEF DriveDone, Goto
  <2>3. remaining' >= 0
    BY <2>1, <2>2 DEF MinOf
  <2>4. QED
    BY <2>2, <2>3 DEF TravelInv, Outbound
<1>4. CASE state = "DRIVE" /\ DriveTripped
  <2>1. /\ remaining' = MaxOf(0, remaining - (enc - startEnc))
        /\ state' = "UNDO_JACK_START"
    BY <1>4 DEF DriveTripped, Goto
  <2>2. remaining' >= 0
    BY <2>1 DEF MaxOf
  <2>3. QED
    BY <2>1, <2>2 DEF TravelInv, Outbound
<1>5. QED
  BY <1>1, <1>2, <1>3, <1>4, TransitionTravel DEF Decide

\* All other steps leave the four variables alone.
LEMMA TravelElsewhere ==
  ASSUME NewDists = {}, [Next]_vars,
         ~ \E cmd \in Cmds, low \in LowBattery : Receive(cmd, low), ~Decide
  PROVE  UNCHANGED <<state, moveDist, remaining, startEnc>>
<1> USE DEF machine, move
<1>1. CASE Tick \/ SetOutputs \/ Track
  BY <1>1 DEF Tick, SetOutputs, Track
<1>2. CASE Others
  BY <1>2 DEF Others, Request, ArmBegin, ArmEnd, StopOverride
<1>3. CASE UNCHANGED vars
  BY <1>3 DEF vars
<1>4. QED
  BY <1>1, <1>2, <1>3 DEF Next, Control

LEMMA TravelInvHolds == NewDists = {} /\ Spec => []TravelInv
<1> SUFFICES ASSUME NewDists = {} PROVE Spec => []TravelInv
  OBVIOUS
<1>1. Init => TravelInv
  BY PlantAssumption DEF Init, TravelInv, Outbound
<1>2. TypeOK /\ TravelInv /\ [Next]_vars => TravelInv'
  <2> SUFFICES ASSUME TypeOK, TravelInv, [Next]_vars PROVE TravelInv'
    OBVIOUS
  <2>1. CASE UNCHANGED <<state, moveDist, remaining, startEnc>>
    BY <2>1 DEF TravelInv
  <2>2. QED
    BY <2>1, ReceiveTravel, DecideTravel, TravelElsewhere
<1>3. QED
  BY <1>1, <1>2, TypeCorrect, PTL DEF Spec

(***************************************************************************)
(* The travel limit: as long as nobody sets it anew, the remaining distance *)
(* is never negative and covers what the running move still asks for.      *)
(***************************************************************************)
THEOREM TravelLimit ==
  ASSUME NewDists = {}
  PROVE  Spec => []MoveWithinRemaining
<1>1. TypeOK /\ TravelInv => MoveWithinRemaining
  <2> SUFFICES ASSUME TypeOK, TravelInv PROVE MoveWithinRemaining
    OBVIOUS
  <2>1. ASSUME state = "DRIVE" PROVE -startEnc <= remaining
    BY <2>1, TimesAssumption DEF TypeOK, TravelInv, Outbound, MinOf
  <2>2. QED
    BY <2>1 DEF TravelInv, MoveWithinRemaining
<1>2. QED
  BY <1>1, TypeCorrect, TravelInvHolds, PTL

(***************************************************************************)
(* A completed move costs the distance the travel motor was started with,  *)
(* whatever commands came in while it was running.                         *)
(***************************************************************************)
THEOREM TravelIsAccounted ==
  ASSUME NewDists = {}
  PROVE  Spec => TravelAccounted
<1> DEFINE Step == (state = "DRIVE" /\ state' = "DRIVE_END_DELAY")
                     => remaining' = remaining + startEnc
<1>1. TypeOK /\ TravelInv /\ [Next]_vars => [Step]_vars
  <2> SUFFICES ASSUME TypeOK, TravelInv, [Next]_vars, state = "DRIVE",
                      state' = "DRIVE_END_DELAY"
               PROVE  remaining' = remaining + startEnc
    OBVIOUS
  <2>1. ~ \E cmd \in Cmds, low \in LowBattery : Receive(cmd, low)
    BY DEF Receive, StartCmd, StopCmd, UndoCmd, Calibrate, Goto
  <2>2. Decide
    BY <2>1, TravelElsewhere
  <2>3. DriveDone
    BY <2>2, TransitionTravel
    DEF Decide, KeepsDistances, Outbound, BeginDrive, DriveTripped, Goto
  <2>4. QED
    BY <2>3 DEF DriveDone, TravelInv, TypeOK
<1>2. QED
  BY <1>1, TypeCorrect, TravelInvHolds, PTL DEF Spec, TravelAccounted

-----------------------------------------------------------------------------
(***************************************************************************)
(* WHAT THE MOTORS ARE TOLD.  The relay driver may withhold a direction,   *)
(* it never makes up one.                                                  *)
(***************************************************************************)
LEMMA GrantsOrWithholds ==
  ASSUME NEW b \in Bridges
  PROVE  Relays(Wanted)[b] \in {Wanted[b], "OFF"}
  BY DEF Relays, Granted

\* The travel motor is wanted in two states and by jogs; the same of the jack
\* on its way up.
LEMMA WhoDrives ==
  ASSUME Wanted["DRIVE"] # "OFF"
  PROVE  \/ state \in Driving
         \/ state = "IDLE" /\ ~Tripped("DRIVE")
<1>1. ASSUME NEW j \in Dirs, NEW a \in Dirs
      PROVE  Energize("OFF", j, a)["DRIVE"] = "OFF"
  BY DEF Energize, Bridges
<1>2. AllOff["DRIVE"] = "OFF"
  BY DEF AllOff, Bridges
<1>3. QED
  BY <1>1, <1>2 DEF Wanted, Jogged, Dirs

JackUps == {"JACK_UP", "JACK_UP_FORCE"}

LEMMA WhoLifts ==
  ASSUME Wanted["JACK"] = "FWD"
  PROVE  \/ state \in Raising
         \/ state = "IDLE" /\ over.cmd \in JackUps
<1>1. ASSUME NEW d \in Dirs, NEW j \in Dirs, NEW a \in Dirs
      PROVE  Energize(d, j, a)["JACK"] = j
  BY DEF Energize, Bridges
<1>2. AllOff["JACK"] = "OFF"
  BY DEF AllOff, Bridges
<1>3. QED
  BY <1>1, <1>2 DEF Wanted, Jogged, Dirs, JackUps

\* Who changes the state of the machine: commands and transitions.
LEMMA StateElsewhere ==
  ASSUME [Next]_vars,
         ~ \E cmd \in Cmds, low \in LowBattery : Receive(cmd, low), ~Decide
  PROVE  UNCHANGED <<state, error, upTicks>>
<1> USE DEF machine, lift
<1>1. CASE Tick \/ SetOutputs \/ Track
  BY <1>1 DEF Tick, SetOutputs, Track
<1>2. CASE Others
  BY <1>2 DEF Others, Request, ArmBegin, ArmEnd, StopOverride, SetRemaining
<1>3. CASE UNCHANGED vars
  BY <1>3 DEF vars
<1>4. QED
  BY <1>1, <1>2, <1>3 DEF Next, Control

\* What the other tasks leave alone, and a step of nobody.
LEMMA OthersQuiet ==
  ASSUME Others \/ UNCHANGED vars
  PROVE  UNCHANGED <<pc, state, timer, error, lift, physical>>
<1>1. CASE Others
  BY <1>1 DEF Others, Request, ArmBegin, ArmEnd, StopOverride, SetRemaining, machine
<1>2. CASE UNCHANGED vars
  BY <1>2 DEF vars, machine
<1>3. QED
  BY <1>1, <1>2

\* A command leads to five states only, and to the lift by no way but a START.
LEMMA ReceiveLeads ==
  ASSUME NEW cmd \in Cmds, NEW low \in LowBattery, Receive(cmd, low)
  PROVE  \/ state' = state
         \/ state = "IDLE" /\ state' = "MOVE_START_DELAY" /\ timer' = TransitionTicks
              /\ StartFault(low) = "OK"
         \/ state' \in {"IDLE", "UNDO_JACK_START", "CALIBRATE_JACK_DELAY",
                        "CALIBRATE_DRIVE_DELAY"}
         \/ state' = "CALIBRATE_JACK_MOVE" /\ "CAL_JACK_START" \in Cmds
         \/ state' = "CALIBRATE_DRIVE_MOVE" /\ "CAL_DRIVE_START" \in Cmds
  BY DEF Receive, StartCmd, StopCmd, UndoCmd, Calibrate, Goto

\* An override that is armed was sent: a jog that nobody sends is not armed.
NotArmed(kinds) ==
  over.cmd \notin kinds /\ \A s \in Senders : arming[s].cmd \notin kinds

LEMMA NeverSent ==
  ASSUME NEW kinds, kinds \intersect Jogs = {}, "none" \notin kinds,
         TypeOK, NotArmed(kinds), [Next]_vars
  PROVE  NotArmed(kinds)'
<1> USE DEF NotArmed, TypeOK, Armed
<1>1. CASE Tick
  BY <1>1 DEF Tick
<1>2. CASE UNCHANGED <<over, arming>>
  BY <1>2
<1>3. ASSUME NEW s \in Senders, NEW cmd \in Jogs, NEW pulse \in Pulses,
             ArmBegin(s, cmd, pulse)
      PROVE  NotArmed(kinds)'
  BY <1>3 DEF ArmBegin
<1>4. ASSUME NEW s \in Senders, ArmEnd(s) PROVE NotArmed(kinds)'
  BY <1>4 DEF ArmEnd, NoJog
<1>5. CASE StopOverride
  BY <1>5 DEF StopOverride
<1>6. ASSUME ~Tick, ~StopOverride,
             ~ \E s \in Senders, cmd \in Jogs, pulse \in Pulses : ArmBegin(s, cmd, pulse),
             ~ \E s \in Senders : ArmEnd(s)
      PROVE  UNCHANGED <<over, arming>>
  BY <1>6 DEF Next, Control, Others, Receive, Decide, SetOutputs, Track, Request,
              SetRemaining, jogging, vars
<1>7. QED
  BY <1>1, <1>2, <1>3, <1>4, <1>5, <1>6

-----------------------------------------------------------------------------
(***************************************************************************)
(* THE BROKEN LOOP.  A tick that sees the loop broken has left every state *)
(* that raises the jack before it sets the relays.                         *)
(***************************************************************************)
UnsafeInv ==
  /\ state # "CALIBRATE_JACK_MOVE"
  /\ NotArmed(JackUps)
  /\ pc = "outputs" /\ ~isSafe => state \notin Raising
  /\ pc \in {"track", "tick"} /\ ~isSafe => out["JACK"] # "FWD"

LEMMA UnsafeGivesUp ==
  ASSUME Transition, ~isSafe, state # "CALIBRATE_JACK_MOVE"
  PROVE  state' \notin Raising
<1> USE DEF Raising, Goto, Stay, Quiet, Fail, FailAndLower, machine
<1>1. CASE MoveStartDelay \/ MoveJackRetract \/ MoveJackSettle
  BY <1>1 DEF MoveStartDelay, MoveJackRetract, MoveJackSettle
<1>2. CASE (\E engaged \in Engagement : JackUpStart(engaged)) \/ JackUp
  BY <1>2 DEF JackUpStart, JackUp
<1>3. CASE DriveStartDelay \/ DriveFluffStart \/ Drive \/ DriveEndDelay
  BY <1>3 DEF DriveStartDelay, DriveFluffStart, Drive, DriveEndDelay
<1>4. CASE JackDown \/ UndoJackStart \/ CalibrateJackMove \/ CalibrateDriveMove \/ Waiting
  BY <1>4 DEF JackDown, UndoJackStart, CalibrateJackMove, CalibrateDriveMove, Waiting
<1>5. QED
  BY <1>1, <1>2, <1>3, <1>4 DEF Transition

LEMMA NoCalibrateJack ==
  ASSUME "CAL_JACK_START" \notin Cmds, state # "CALIBRATE_JACK_MOVE", [Next]_vars
  PROVE  state' # "CALIBRATE_JACK_MOVE"
<1>1. CASE \E cmd \in Cmds, low \in LowBattery : Receive(cmd, low)
  BY <1>1, ReceiveLeads
<1>2. CASE Decide
  BY <1>2
  DEF Decide, Transition, MoveStartDelay, MoveJackRetract, MoveJackSettle, JackUpStart,
      JackUp, DriveStartDelay, DriveFluffStart, Drive, DriveEndDelay, JackDown,
      UndoJackStart, CalibrateJackMove, CalibrateDriveMove, Waiting, BeginDrive,
      BeginJackUp, JackRaised, DriveTripped, DriveDone, Goto, Stay, Quiet, Fail,
      FailAndLower, machine
<1>3. QED
  BY <1>1, <1>2, StateElsewhere

(***************************************************************************)
(* Whatever commands arrive and whenever the loop breaks, a tick that saw  *)
(* it broken ends with the jack not going up, as long as nobody jogs it up *)
(* or calibrates it (both of which the code does not stop).                *)
(***************************************************************************)
THEOREM BrokenLoopNeverLifts ==
  ASSUME "CAL_JACK_START" \notin Cmds, JackUps \intersect Jogs = {}
  PROVE  Spec => []UnsafeNeverLifts
<1>1. Init => UnsafeInv
  BY DEF Init, UnsafeInv, NotArmed, NoJog, JackUps, AllOff, Bridges
<1>2. TypeOK /\ UnsafeInv /\ [Next]_vars => UnsafeInv'
  <2> SUFFICES ASSUME TypeOK, UnsafeInv, [Next]_vars PROVE UnsafeInv'
    OBVIOUS
  <2>1. state' # "CALIBRATE_JACK_MOVE"
    BY NoCalibrateJack DEF UnsafeInv
  <2>2. NotArmed(JackUps)'
    <3>1. "none" \notin JackUps
      BY DEF JackUps
    <3>2. QED
      BY <3>1, NeverSent DEF UnsafeInv
  <2>3. CASE Tick
    BY <2>1, <2>2, <2>3 DEF Tick, UnsafeInv
  <2>4. CASE \E cmd \in Cmds, low \in LowBattery : Receive(cmd, low)
    BY <2>1, <2>2, <2>4 DEF Receive, UnsafeInv
  <2>5. CASE Decide
    BY <2>1, <2>2, <2>5, UnsafeGivesUp DEF Decide, UnsafeInv
  <2>6. CASE SetOutputs
    <3>1. ~isSafe => Wanted["JACK"] # "FWD"
      BY <2>6, WhoLifts DEF SetOutputs, UnsafeInv, NotArmed
    <3>2. ~isSafe => out'["JACK"] # "FWD"
      BY <2>6, <3>1, GrantsOrWithholds DEF SetOutputs, Bridges
    <3>3. QED
      BY <2>1, <2>2, <2>6, <3>2 DEF SetOutputs, UnsafeInv
  <2>7. CASE Track
    BY <2>1, <2>2, <2>7 DEF Track, plant, UnsafeInv
  <2>8. CASE Others \/ UNCHANGED vars
    BY <2>1, <2>2, <2>8, OthersQuiet DEF physical, plant, UnsafeInv
  <2>9. QED
    BY <2>3, <2>4, <2>5, <2>6, <2>7, <2>8 DEF Next, Control
<1>3. UnsafeInv => UnsafeNeverLifts
  BY DEF UnsafeInv, UnsafeNeverLifts
<1>4. QED
  BY <1>1, <1>2, <1>3, TypeCorrect, PTL DEF Spec

-----------------------------------------------------------------------------
(***************************************************************************)
(* THE TRIPPED DRIVE.  DRIVE_FLUFF_START does not look at the e-fuse of    *)
(* the travel motor and need not: START found it cool, and it cannot trip  *)
(* before the motor runs.                                                  *)
(***************************************************************************)
Approach == Outbound \ {"DRIVE"}

TrippedInv ==
  /\ state # "CALIBRATE_DRIVE_MOVE"
  /\ state \in Approach =>
       ~Tripped("DRIVE") /\ (pc \in {"track", "tick"} => last["DRIVE"] = "OFF")
  /\ pc = "outputs" /\ state = "DRIVE" => ~Tripped("DRIVE")
  /\ pc \in {"track", "tick"} /\ Tripped("DRIVE") => out["DRIVE"] = "OFF"

\* The approach is entered by START only, and left for a drive by one state.
LEMMA ApproachEntered ==
  ASSUME Transition
  PROVE  /\ state' \in Approach => state \in Approach
         /\ state' = "DRIVE" =>
              isSafe /\ (state = "DRIVE_FLUFF_START" \/ (state = "DRIVE" /\ ~Tripped("DRIVE")))
         /\ state' = "CALIBRATE_DRIVE_MOVE" => state = "CALIBRATE_DRIVE_MOVE"
<1> USE DEF Approach, Outbound, Goto, Stay, Quiet, Fail, FailAndLower, machine
<1>1. CASE MoveStartDelay \/ MoveJackRetract \/ MoveJackSettle
  BY <1>1 DEF MoveStartDelay, MoveJackRetract, MoveJackSettle, BeginJackUp
<1>2. CASE (\E engaged \in Engagement : JackUpStart(engaged)) \/ JackUp
  BY <1>2 DEF JackUpStart, JackUp, JackRaised
<1>3. CASE DriveStartDelay \/ DriveEndDelay
  BY <1>3 DEF DriveStartDelay, DriveEndDelay
<1>4. CASE DriveFluffStart
  <2>1. BeginDrive => state' = "DRIVE"
    BY DEF BeginDrive
  <2>2. QED
    BY <1>4, <2>1 DEF DriveFluffStart
<1>5. CASE Drive
  <2>1. /\ DriveTripped => state' = "UNDO_JACK_START"
        /\ DriveDone => state' = "DRIVE_END_DELAY"
    BY DEF DriveTripped, DriveDone
  <2>2. QED
    BY <1>5, <2>1 DEF Drive
<1>6. CASE JackDown \/ UndoJackStart \/ CalibrateJackMove \/ CalibrateDriveMove \/ Waiting
  BY <1>6 DEF JackDown, UndoJackStart, CalibrateJackMove, CalibrateDriveMove, Waiting
<1>7. QED
  BY <1>1, <1>2, <1>3, <1>4, <1>5, <1>6 DEF Transition

\* A bridge that was off does not trip, and cools down.
LEMMA OffNeverTrips ==
  ASSUME TypeOK, Tick, last["DRIVE"] = "OFF", ~Tripped("DRIVE")
  PROVE  ~Tripped("DRIVE")'
<1>1. PICK trips \in SUBSET (Dominant \intersect FusesThatTrip), cool \in CoolTimes :
        efuse' = [b \in Bridges |-> IF b \in trips THEN cool ELSE Left(efuse[b])]
  BY DEF Tick, FusesNext
<1>2. "DRIVE" \notin Dominant
  BY DEF Dominant
<1>3. efuse'["DRIVE"] = Left(efuse["DRIVE"])
  BY <1>1, <1>2 DEF Bridges
<1>4. efuse["DRIVE"] \in Nat
  BY DEF TypeOK, Bridges
<1>5. QED
  BY <1>3, <1>4 DEF Left, Tripped

(***************************************************************************)
(* For every order of commands, jogs, trips and breaks: a tick that saw    *)
(* the travel motor's e-fuse tripped ends with the motor off.  (Its        *)
(* calibration, which drives without looking, is excluded.)                *)
(***************************************************************************)
THEOREM TrippedMotorStops ==
  ASSUME "CAL_DRIVE_START" \notin Cmds
  PROVE  Spec => []TrippedDriveStops
<1>1. Init => TrippedInv
  BY DEF Init, TrippedInv, Approach, Outbound, AllOff, Bridges
<1>2. TypeOK /\ TrippedInv /\ [Next]_vars => TrippedInv'
  <2> SUFFICES ASSUME TypeOK, TrippedInv, [Next]_vars PROVE TrippedInv'
    OBVIOUS
  <2>1. CASE Tick
    <3>1. state \in Approach => ~Tripped("DRIVE")'
      BY <2>1, OffNeverTrips DEF Tick, TrippedInv
    <3>2. QED
      BY <2>1, <3>1 DEF Tick, TrippedInv
  <2>2. ASSUME NEW cmd \in Cmds, NEW low \in LowBattery, Receive(cmd, low)
        PROVE  TrippedInv'
    <3>1. /\ pc = "commands" /\ pc' = pc
          /\ UNCHANGED <<last, efuse, out>>
      BY <2>2 DEF Receive, relay
    <3>2. StartFault(low) = "OK" => ~Tripped("DRIVE")
      BY DEF StartFault
    <3>3. state' # "CALIBRATE_DRIVE_MOVE"
      BY <2>2, ReceiveLeads DEF TrippedInv
    <3>4. state' \in Approach => ~Tripped("DRIVE")
      BY <2>2, <3>2, ReceiveLeads DEF TrippedInv, Approach, Outbound
    <3>5. QED
      BY <3>1, <3>3, <3>4 DEF TrippedInv, Tripped
  <2>3. CASE Decide
    <3>1. UNCHANGED efuse /\ pc' = "outputs"
      BY <2>3 DEF Decide
    <3>2. /\ state' \in Approach => state \in Approach
          /\ state' = "DRIVE" => state \in Approach \/ ~Tripped("DRIVE")
          /\ state' # "CALIBRATE_DRIVE_MOVE"
      BY <2>3, ApproachEntered DEF Decide, TrippedInv, Approach, Outbound
    <3>3. QED
      BY <3>1, <3>2 DEF TrippedInv, Tripped
  <2>4. CASE SetOutputs
    <3>1. UNCHANGED <<state, efuse>> /\ pc' = "track" /\ pc = "outputs"
      BY <2>4 DEF SetOutputs, machine
    <3>2. /\ last'["DRIVE"] \in {Wanted["DRIVE"], "OFF"}
          /\ out'["DRIVE"] \in {Wanted["DRIVE"], "OFF"}
      BY <2>4, GrantsOrWithholds DEF SetOutputs, Bridges
    <3>3. state \in Approach => Wanted["DRIVE"] = "OFF"
      BY WhoDrives DEF Approach, Outbound, Driving
    <3>4. Tripped("DRIVE") => Wanted["DRIVE"] = "OFF"
      BY <3>1, WhoDrives DEF Driving, TrippedInv
    <3>5. QED
      BY <3>1, <3>2, <3>3, <3>4 DEF TrippedInv, Tripped
  <2>5. CASE Track
    BY <2>5 DEF Track, machine, relay, plant, TrippedInv, Tripped
  <2>6. CASE Others \/ UNCHANGED vars
    BY <2>6, OthersQuiet DEF physical, relay, plant, TrippedInv, Tripped
  <2>7. QED
    BY <2>1, <2>2, <2>3, <2>4, <2>5, <2>6 DEF Next, Control
<1>3. TrippedInv => TrippedDriveStops
  BY DEF TrippedInv, TrippedDriveStops
<1>4. QED
  BY <1>1, <1>2, <1>3, TypeCorrect, PTL DEF Spec

-----------------------------------------------------------------------------
(***************************************************************************)
(* THE PAUSES.  While a move pauses, the rest of every bridge and what is  *)
(* left of the pause add up to the whole pause, from the outputs of its    *)
(* first tick on; a pause that outlasts the gap leaves every bridge ready. *)
(***************************************************************************)
Pauses == {"MOVE_START_DELAY", "MOVE_JACK_SETTLE", "DRIVE_START_DELAY"}
Lifts  == {"JACK_UP_START", "JACK_UP"}

Rested(b)   == last[b] = "OFF" /\ offAge[b] > GapTicks
Ready(b, d) == last[b] = d \/ Rested(b)
Pausing(b)  ==
  last[b] = "OFF" /\ (offAge[b] > GapTicks \/ timer + offAge[b] >= TransitionTicks)

JustBegun == pc \in {"commands", "outputs"} /\ timer = TransitionTicks

SettleInv ==
  /\ state \in Pauses => JustBegun \/ \A b \in Bridges : Pausing(b)
  /\ state = "MOVE_JACK_RETRACT" => Ready("JACK", "REV")
  /\ state \in Lifts => Ready("JACK", "FWD")
  /\ state = "DRIVE_FLUFF_START" => Rested("DRIVE") /\ Ready("AUX", "FWD")
  /\ state = "DRIVE" => Ready("DRIVE", "FWD") /\ Ready("AUX", "FWD")
  /\ pc = "outputs" /\ state = "DRIVE" => isSafe
  /\ SettledStarts

\* How a move goes on from state to state.
LEMMA MoveProceeds ==
  ASSUME Transition
  PROVE  \/ state' = state /\ timer' = timer
         \/ state' \in Pauses /\ timer' = TransitionTicks
         \/ /\ state \in Pauses /\ timer = 0
            /\ state' \in {"MOVE_JACK_RETRACT", "JACK_UP_START", "DRIVE_FLUFF_START"}
         \/ state = "JACK_UP_START" /\ state' = "JACK_UP"
         \/ state = "DRIVE_FLUFF_START" /\ state' = "DRIVE"
         \/ state' \in {"IDLE", "UNDO_JACK_START", "DRIVE_END_DELAY", "JACK_DOWN"}
<1> USE DEF Pauses, Goto, Stay, Quiet, Fail, FailAndLower, machine
<1>1. CASE MoveStartDelay \/ MoveJackRetract \/ MoveJackSettle
  BY <1>1 DEF MoveStartDelay, MoveJackRetract, MoveJackSettle, BeginJackUp
<1>2. CASE (\E engaged \in Engagement : JackUpStart(engaged)) \/ JackUp
  BY <1>2 DEF JackUpStart, JackUp, JackRaised
<1>3. CASE DriveStartDelay \/ DriveEndDelay
  BY <1>3 DEF DriveStartDelay, DriveEndDelay
<1>4. CASE DriveFluffStart
  <2>1. BeginDrive => state' = "DRIVE"
    BY DEF BeginDrive
  <2>2. QED
    BY <1>4, <2>1 DEF DriveFluffStart
<1>5. CASE Drive
  <2>1. /\ DriveTripped => state' = "UNDO_JACK_START"
        /\ DriveDone => state' = "DRIVE_END_DELAY"
    BY DEF DriveTripped, DriveDone
  <2>2. QED
    BY <1>5, <2>1 DEF Drive
<1>6. CASE JackDown \/ UndoJackStart \/ CalibrateJackMove \/ CalibrateDriveMove \/ Waiting
  BY <1>6 DEF JackDown, UndoJackStart, CalibrateJackMove, CalibrateDriveMove, Waiting
<1>7. QED
  BY <1>1, <1>2, <1>3, <1>4, <1>5, <1>6 DEF Transition

\* A command does not touch the timer of a state it does not leave.
LEMMA ReceiveKeepsTimer ==
  ASSUME NEW cmd \in Cmds, NEW low \in LowBattery, Receive(cmd, low), state' = state
  PROVE  timer' = timer
  BY DEF Receive, StartCmd, StopCmd, UndoCmd, Calibrate, Goto

\* Outside STATE_IDLE the relays asked for depend on the state alone.
LEMMA WantedByState ==
  ASSUME state # "IDLE", state' = state
  PROVE  Wanted' = Wanted
  BY DEF Wanted

\* The way down and the way up of the jack, as the outputs ask for them.
LEMMA JackMoves ==
  /\ state = "MOVE_JACK_RETRACT" => Wanted = Energize("OFF", "REV", "OFF")
  /\ state \in Lifts => Wanted = Energize("OFF", "FWD", "OFF")
<1>1. CASE state = "MOVE_JACK_RETRACT"
  BY <1>1 DEF Wanted, Raising, Lowering, Driving, Fluffing, Lifts
<1>2. CASE state \in Lifts
  BY <1>2 DEF Wanted, Raising, Lowering, Driving, Fluffing, Lifts
<1>3. QED
  BY <1>1, <1>2

LEMMA TickRests ==
  ASSUME TypeOK, Tick, NEW b \in Bridges
  PROVE  /\ Rested(b) => Rested(b)'
         /\ TransitionTicks > GapTicks /\ Pausing(b) => Pausing(b)'
<1>1. /\ offAge[b] \in Nat /\ timer \in Nat
      /\ GapTicks \in Nat /\ TransitionTicks \in Nat
  BY TimesAssumption DEF TypeOK
<1>2. /\ offAge'[b] = Aged(offAge[b], GapTicks)
      /\ timer' = Left(timer) /\ last' = last
  BY DEF Tick
<1>3. QED
  BY <1>1, <1>2 DEF Rested, Pausing, Aged, Left

\* What the outputs of a tick make of the rest of the bridges.
LEMMA OutputsSettle ==
  ASSUME TypeOK, SettleInv, SetOutputs
  PROVE  SettleInv'
<1>1. /\ pc = "outputs" /\ pc' = "track" /\ UNCHANGED <<state, timer, isSafe>>
      /\ last' = Relays(Wanted) /\ out' = Relays(Wanted)
      /\ \A b \in Bridges :
           offAge'[b] = IF StampsOff(last[b], Wanted[b]) THEN 0 ELSE offAge[b]
  BY DEF SetOutputs, machine
<1>2. ASSUME NEW b \in Bridges, Ready(b, Wanted[b]), b # "DRIVE" \/ isSafe
      PROVE  last'[b] = Wanted[b]
  BY <1>1, <1>2 DEF Relays, Granted, Ready, Rested
<1>3. ASSUME NEW b \in Bridges, Wanted[b] = "OFF"
      PROVE  last'[b] = "OFF"
  BY <1>1, <1>3, GrantsOrWithholds
<1>4. ASSUME NEW b \in Bridges, last[b] = "OFF" PROVE offAge'[b] = offAge[b]
  BY <1>1, <1>4 DEF StampsOff
<1>5. CASE state \in Pauses
  <2>1. Wanted = AllOff
    BY <1>5 DEF Wanted, Pauses, Raising, Lowering, Driving, Fluffing
  <2>2. ASSUME NEW b \in Bridges PROVE Pausing(b)'
    <3>1. last'[b] = "OFF"
      BY <1>3, <2>1 DEF AllOff
    <3>2. /\ offAge[b] \in Nat /\ timer \in Nat /\ TransitionTicks \in Nat
      BY TimesAssumption DEF TypeOK
    <3>3. CASE JustBegun
      BY <1>1, <3>1, <3>2, <3>3 DEF JustBegun, Pausing
    <3>4. CASE Pausing(b)
      BY <1>1, <1>4, <3>1, <3>4 DEF Pausing
    <3>5. QED
      BY <1>5, <3>3, <3>4 DEF SettleInv
  <2>3. QED
    BY <1>1, <1>5, <2>2 DEF SettleInv, SettledStarts, Pauses, Lifts
<1>6. CASE state = "MOVE_JACK_RETRACT" \/ state \in Lifts
  <2>1. PICK d \in Dirs : Wanted = Energize("OFF", d, "OFF") /\ Ready("JACK", d)
    BY <1>6, JackMoves DEF SettleInv, Dirs
  <2>2. Wanted["DRIVE"] = "OFF" /\ Wanted["JACK"] = d /\ Wanted["AUX"] = "OFF"
    BY <2>1 DEF Energize, Bridges
  <2>3. last'["DRIVE"] = "OFF" /\ last'["JACK"] = d /\ last'["AUX"] = "OFF"
    BY <1>2, <1>3, <2>1, <2>2 DEF Bridges
  <2>4. Relays(Wanted) = Wanted
    BY <1>1, <2>1, <2>2, <2>3 DEF Relays, Energize, Bridges
  <2>5. out' = Wanted'
    BY <1>1, <1>6, <2>4, WantedByState DEF Lifts
  <2>6. /\ state = "MOVE_JACK_RETRACT" => d = "REV"
        /\ state \in Lifts => d = "FWD"
    BY <2>2, JackMoves DEF Energize, Bridges
  <2>7. QED
    BY <1>1, <1>6, <2>3, <2>5, <2>6 DEF SettleInv, SettledStarts, Ready, Pauses, Lifts
<1>7. CASE state = "DRIVE_FLUFF_START"
  <2>1. Wanted = Energize("OFF", "OFF", "FWD")
    BY <1>7 DEF Wanted, Raising, Lowering, Driving, Fluffing
  <2>2. Wanted["DRIVE"] = "OFF" /\ Wanted["AUX"] = "FWD"
    BY <2>1 DEF Energize, Bridges
  <2>3. Rested("DRIVE") /\ Ready("AUX", "FWD")
    BY <1>7 DEF SettleInv
  <2>4. last'["DRIVE"] = "OFF" /\ last'["AUX"] = "FWD"
    <3>1. last'["DRIVE"] = "OFF"
      BY <1>3, <2>2 DEF Bridges
    <3>2. "AUX" \in Bridges /\ "AUX" # "DRIVE"
      BY DEF Bridges
    <3>3. QED
      BY <1>2, <2>2, <2>3, <3>1, <3>2
  <2>5. Rested("DRIVE")'
    BY <1>4, <2>3, <2>4 DEF Rested, Bridges
  <2>6. QED
    BY <1>1, <1>7, <2>4, <2>5 DEF SettleInv, SettledStarts, Ready, Pauses, Lifts
<1>8. CASE state = "DRIVE"
  <2>1. Wanted = Energize("FWD", "OFF", "FWD")
    BY <1>8 DEF Wanted, Raising, Lowering, Driving, Fluffing
  <2>2. Wanted["DRIVE"] = "FWD" /\ Wanted["JACK"] = "OFF" /\ Wanted["AUX"] = "FWD"
    BY <2>1 DEF Energize, Bridges
  <2>3. Ready("DRIVE", "FWD") /\ Ready("AUX", "FWD") /\ isSafe
    BY <1>1, <1>8 DEF SettleInv
  <2>4. last'["DRIVE"] = "FWD" /\ last'["JACK"] = "OFF" /\ last'["AUX"] = "FWD"
    BY <1>2, <1>3, <2>2, <2>3 DEF Bridges
  <2>5. Relays(Wanted) = Wanted
    BY <1>1, <2>1, <2>2, <2>4 DEF Relays, Energize, Bridges
  <2>6. out' = Wanted'
    BY <1>1, <1>8, <2>5, WantedByState
  <2>7. QED
    BY <1>1, <1>8, <2>4, <2>6 DEF SettleInv, SettledStarts, Ready, Pauses, Lifts
<1>9. CASE state \notin Pauses \union Lifts
                      \union {"MOVE_JACK_RETRACT", "DRIVE_FLUFF_START", "DRIVE"}
  BY <1>1, <1>9 DEF SettleInv, SettledStarts, Lifts
<1>10. QED
  BY <1>5, <1>6, <1>7, <1>8, <1>9

LEMMA SettleInvHolds ==
  ASSUME TransitionTicks > GapTicks
  PROVE  Spec => []SettleInv
<1> USE TimesAssumption
<1>1. Init => SettleInv
  BY DEF Init, SettleInv, SettledStarts, Pauses, Lifts
<1>2. TypeOK /\ SettleInv /\ [Next]_vars => SettleInv'
  <2> SUFFICES ASSUME TypeOK, SettleInv, [Next]_vars PROVE SettleInv'
    OBVIOUS
  <2>1. CASE Tick
    <3>1. \A b \in Bridges : /\ Rested(b) => Rested(b)'
                             /\ Pausing(b) => Pausing(b)'
      BY <2>1, TickRests
    <3>2. \A d : \A b \in Bridges : Ready(b, d) => Ready(b, d)'
      BY <2>1, <3>1 DEF Tick, Ready
    <3>3. pc = "tick" /\ pc' = "commands" /\ state' = state
      BY <2>1 DEF Tick
    <3>4. state \in Pauses => \A b \in Bridges : Pausing(b)
      BY <3>3 DEF SettleInv, JustBegun
    <3>5. QED
      BY <3>1, <3>2, <3>3, <3>4 DEF SettleInv, SettledStarts, Bridges
  <2>2. ASSUME NEW cmd \in Cmds, NEW low \in LowBattery, Receive(cmd, low)
        PROVE  SettleInv'
    <3>1. pc = "commands" /\ pc' = pc /\ UNCHANGED <<last, offAge, isSafe>>
      BY <2>2 DEF Receive, relay
    <3>2. CASE state' = state
      <4>1. timer' = timer
        BY <2>2, <3>2, ReceiveKeepsTimer
      <4>2. QED
        BY <3>1, <3>2, <4>1
        DEF SettleInv, SettledStarts, Pausing, Rested, Ready, JustBegun
    <3>3. CASE state' = "MOVE_START_DELAY" /\ timer' = TransitionTicks
      BY <3>1, <3>3 DEF SettleInv, SettledStarts, JustBegun, Lifts
    <3>4. CASE state' \in {"IDLE", "UNDO_JACK_START", "CALIBRATE_JACK_DELAY",
                           "CALIBRATE_DRIVE_DELAY", "CALIBRATE_JACK_MOVE",
                           "CALIBRATE_DRIVE_MOVE"}
      BY <3>1, <3>4 DEF SettleInv, SettledStarts, Pauses, Lifts
    <3>5. QED
      BY <2>2, <3>2, <3>3, <3>4, ReceiveLeads
  <2>3. CASE Decide
    <3>1. pc = "commands" /\ pc' = "outputs" /\ UNCHANGED <<last, offAge, isSafe>>
      BY <2>3 DEF Decide, relay
    <3>2. state' = "DRIVE" => isSafe'
      BY <2>3, <3>1, ApproachEntered DEF Decide
    <3>3. CASE state' = state /\ timer' = timer
      BY <3>1, <3>2, <3>3
      DEF SettleInv, SettledStarts, Pausing, Rested, Ready, JustBegun
    <3>4. CASE state' \in Pauses /\ timer' = TransitionTicks
      BY <3>1, <3>4 DEF SettleInv, SettledStarts, JustBegun, Pauses, Lifts
    <3>5. CASE /\ state \in Pauses /\ timer = 0
               /\ state' \in {"MOVE_JACK_RETRACT", "JACK_UP_START", "DRIVE_FLUFF_START"}
      <4>1. \A b \in Bridges : Pausing(b)
        BY <3>5 DEF SettleInv, JustBegun
      <4>2. \A b \in Bridges : offAge[b] \in Nat
        BY DEF TypeOK
      <4>3. \A b \in Bridges : Rested(b)'
        BY <3>1, <3>5, <4>1, <4>2 DEF Pausing, Rested
      <4>4. QED
        BY <3>1, <3>5, <4>3 DEF SettleInv, SettledStarts, Ready, Pauses, Lifts, Bridges
    <3>6. CASE state = "JACK_UP_START" /\ state' = "JACK_UP"
      BY <3>1, <3>6 DEF SettleInv, SettledStarts, Rested, Ready, Pauses, Lifts
    <3>7. CASE state = "DRIVE_FLUFF_START" /\ state' = "DRIVE"
      BY <3>1, <3>2, <3>7 DEF SettleInv, SettledStarts, Rested, Ready, Pauses, Lifts
    <3>8. CASE state' \in {"IDLE", "UNDO_JACK_START", "DRIVE_END_DELAY", "JACK_DOWN"}
      BY <3>1, <3>8 DEF SettleInv, SettledStarts, Pauses, Lifts
    <3>9. QED
      BY <2>3, <3>3, <3>4, <3>5, <3>6, <3>7, <3>8, MoveProceeds DEF Decide
  <2>4. CASE SetOutputs
    BY <2>4, OutputsSettle
  <2>5. CASE Track
    BY <2>5
    DEF Track, machine, relay, SettleInv, SettledStarts, Pausing, Rested, Ready, JustBegun
  <2>6. CASE Others \/ UNCHANGED vars
    <3>1. UNCHANGED <<pc, state, timer, last, offAge, isSafe, out>>
      BY <2>6, OthersQuiet DEF physical, relay, plant
    <3>2. SettledStarts'
      BY <3>1, WantedByState DEF SettleInv, SettledStarts
    <3>3. QED
      BY <3>1, <3>2 DEF SettleInv, Pausing, Rested, Ready, JustBegun
  <2>7. QED
    BY <2>1, <2>2, <2>3, <2>4, <2>5, <2>6 DEF Next, Control
<1>3. QED
  BY <1>1, <1>2, TypeCorrect, PTL DEF Spec

(***************************************************************************)
(* A pause longer than the gap of the relay driver settles every start: no *)
(* command, jog, trip or break comes to a state of the move whose motor    *)
(* the driver then withholds.                                              *)
(***************************************************************************)
THEOREM StartsAreSettled ==
  ASSUME TransitionTicks > GapTicks
  PROVE  Spec => []SettledStarts
<1>1. SettleInv => SettledStarts
  BY DEF SettleInv
<1>2. QED
  BY <1>1, SettleInvHolds, PTL

-----------------------------------------------------------------------------
(***************************************************************************)
(* THE ESTIMATE.  The tracking code follows the direction asked for, so    *)
(* the jack and its estimate part company by the races of a jog and by the *)
(* directions the driver withholds; a move is not raised at its ceiling.   *)
(***************************************************************************)
LEMMA PortOfJack ==
  ASSUME NEW d \in Dirs, NEW j \in Dirs, NEW a \in Dirs
  PROVE  Energize(d, j, a)["JACK"] = j
  BY DEF Energize, Bridges

LEMMA TrackedIsWanted == Wanted["JACK"] = JackDir \/ JackHome
<1>1. AllOff["JACK"] = "OFF"
  BY DEF AllOff, Bridges
<1>2. CASE state \in Raising \union Lowering
  BY <1>2, PortOfJack DEF Wanted, JackDir, Raising, Lowering, Driving, Fluffing, Dirs
<1>3. CASE state \in Driving \union Fluffing
  BY <1>3, PortOfJack DEF Wanted, JackDir, Raising, Lowering, Driving, Fluffing, Dirs
<1>4. CASE state = "IDLE" /\ JogLive
  <2>1. Wanted = Jogged(over.cmd)
    BY <1>4 DEF Wanted, Raising, Lowering, Driving, Fluffing
  <2>2. Jogged(over.cmd)["JACK"] = JackDir \/ JackHome
    BY <1>1, <1>4, PortOfJack
    DEF Jogged, JackDir, JackDownJogs, Raising, Lowering, Driving, Fluffing, Dirs
  <2>3. QED
    BY <2>1, <2>2
<1>5. CASE /\ state \notin Raising \union Lowering \union Driving \union Fluffing
           /\ ~(state = "IDLE" /\ JogLive)
  BY <1>1, <1>5 DEF Wanted, JackDir
<1>6. QED
  BY <1>2, <1>3, <1>4, <1>5

LEMMA JackDirType == JackDir \in Dirs
  BY DEF JackDir, Dirs

PosInv ==
  /\ state # "CALIBRATE_JACK_MOVE"
  /\ NotArmed({"JACK_UP_FORCE"})
  /\ jackPos <= JackMax
  /\ state = "MOVE_JACK_RETRACT" /\ pc \in {"tick", "commands"} => jackPos < JackMax
  /\ state = "MOVE_JACK_SETTLE" => jackPos < JackMax
  /\ state \in Lifts /\ pc \in {"outputs", "track"} => jackPos < JackMax \/ JackHome

\* How a transition comes to a state that raises the jack, or is about to.
LEMMA LiftsEntered ==
  ASSUME Transition
  PROVE  /\ state' = "MOVE_JACK_SETTLE" => state \in {"MOVE_JACK_SETTLE", "MOVE_JACK_RETRACT"}
         /\ state' \in Lifts =>
              \/ state \in Lifts /\ ~AtCeiling
              \/ state = "MOVE_START_DELAY" /\ JackHome
              \/ state = "MOVE_JACK_SETTLE"
         /\ state' = "JACK_UP" /\ state # "JACK_UP" => timer' = JackTime
         /\ state' = "DRIVE_START_DELAY" /\ state # "DRIVE_START_DELAY" =>
              state \in Lifts
                /\ (AtCeiling \/ (state = "JACK_UP" /\ (timer = 0 \/ Tripped("JACK"))))
         /\ state' \in {"DRIVE_FLUFF_START", "DRIVE"} =>
              state \in {"DRIVE_START_DELAY", "DRIVE_FLUFF_START", "DRIVE"}
<1> USE DEF Lifts, Goto, Stay, Quiet, Fail, FailAndLower, machine
<1>1. CASE MoveStartDelay \/ MoveJackRetract \/ MoveJackSettle
  BY <1>1 DEF MoveStartDelay, MoveJackRetract, MoveJackSettle, BeginJackUp
<1>2. CASE (\E engaged \in Engagement : JackUpStart(engaged)) \/ JackUp
  BY <1>2 DEF JackUpStart, JackUp, JackRaised
<1>3. CASE DriveStartDelay \/ DriveEndDelay
  BY <1>3 DEF DriveStartDelay, DriveEndDelay
<1>4. CASE DriveFluffStart
  <2>1. BeginDrive => state' = "DRIVE"
    BY DEF BeginDrive
  <2>2. QED
    BY <1>4, <2>1 DEF DriveFluffStart
<1>5. CASE Drive
  <2>1. /\ DriveTripped => state' = "UNDO_JACK_START"
        /\ DriveDone => state' = "DRIVE_END_DELAY"
    BY DEF DriveTripped, DriveDone
  <2>2. QED
    BY <1>5, <2>1 DEF Drive
<1>6. CASE JackDown \/ UndoJackStart \/ CalibrateJackMove \/ CalibrateDriveMove \/ Waiting
  BY <1>6 DEF JackDown, UndoJackStart, CalibrateJackMove, CalibrateDriveMove, Waiting
<1>7. QED
  BY <1>1, <1>2, <1>3, <1>4, <1>5, <1>6 DEF Transition

LEMMA PosInvHolds ==
  ASSUME JackMax > 0, "CAL_JACK_START" \notin Cmds, "JACK_UP_FORCE" \notin Jogs
  PROVE  Spec => []PosInv
<1> USE TimesAssumption
<1>1. Init => PosInv
  BY DEF Init, PosInv, NotArmed, NoJog, Lifts
<1>2. TypeOK /\ PosInv /\ [Next]_vars => PosInv'
  <2> SUFFICES ASSUME TypeOK, PosInv, [Next]_vars PROVE PosInv'
    OBVIOUS
  <2>1. state' # "CALIBRATE_JACK_MOVE"
    BY NoCalibrateJack DEF PosInv
  <2>2. NotArmed({"JACK_UP_FORCE"})'
    BY NeverSent DEF PosInv
  <2>3. jackPos \in Nat /\ JackMax \in Nat
    BY DEF TypeOK
  <2>4. CASE Tick
    BY <2>1, <2>2, <2>4 DEF Tick, PosInv
  <2>5. CASE \E cmd \in Cmds, low \in LowBattery : Receive(cmd, low)
    <3>1. /\ pc = "commands" /\ pc' = "commands" /\ jackPos' = jackPos
          /\ \/ state' = state
             \/ state' \notin Lifts \union {"MOVE_JACK_RETRACT", "MOVE_JACK_SETTLE"}
      BY <2>1, <2>5, ReceiveLeads DEF Receive, Lifts
    <3>2. QED
      BY <2>1, <2>2, <3>1 DEF PosInv, Lifts
  <2>6. CASE Decide
    <3>1. /\ pc = "commands" /\ pc' = "outputs" /\ Transition
          /\ jackPos' = jackPos /\ jack' = jack
      BY <2>6 DEF Decide
    <3>2. QED
      BY <2>1, <2>2, <2>3, <3>1, LiftsEntered DEF PosInv, AtCeiling, JackHome, Lifts
  <2>7. CASE SetOutputs
    BY <2>1, <2>2, <2>7 DEF SetOutputs, machine, PosInv, JackHome
  <2>8. CASE Track
    <3>1. /\ pc = "track" /\ pc' = "tick" /\ state' = state
          /\ jackPos' = IF JackHome THEN 0
                        ELSE CASE JackDir = "FWD" -> jackPos + 1
                               [] JackDir = "REV" -> Left(jackPos)
                               [] OTHER -> jackPos
      BY <2>8 DEF Track, machine
    <3>2. JackDir = "FWD" => state \in Lifts \/ ~AtCeiling
      BY DEF JackDir, PosInv, NotArmed, Raising, Lifts
    <3>3. jackPos' <= JackMax
      BY <2>3, <3>1, <3>2 DEF PosInv, AtCeiling, Left
    <3>4. state = "MOVE_JACK_RETRACT" => JackDir = "REV"
      BY DEF JackDir, Raising, Lowering
    <3>5. state = "MOVE_JACK_SETTLE" => JackDir = "OFF"
      BY DEF JackDir, Raising, Lowering
    <3>6. state = "MOVE_JACK_RETRACT" \/ state = "MOVE_JACK_SETTLE" => jackPos' < JackMax
      BY <2>3, <3>1, <3>4, <3>5 DEF PosInv, Left
    <3>7. QED
      BY <2>1, <2>2, <3>1, <3>3, <3>6 DEF PosInv
  <2>9. CASE Others \/ UNCHANGED vars
    BY <2>1, <2>2, <2>9, OthersQuiet DEF physical, plant, PosInv, JackHome
  <2>10. QED
    BY <2>4, <2>5, <2>6, <2>7, <2>8, <2>9 DEF Next, Control
<1>3. QED
  BY <1>1, <1>2, TypeCorrect, PTL DEF Spec

\* What the tracking of this tick will make of the estimate, and how far the
\* jack may be above it.
Tracked ==
  IF JackHome THEN 0
  ELSE CASE JackDir = "FWD" -> jackPos + 1
         [] JackDir = "REV" -> Left(jackPos)
         [] OTHER -> jackPos

Slack == 1 + 2 * raced + withheld

CeilInv ==
  /\ CeilingRespected
  /\ pc \in {"commands", "outputs", "track"} => jack <= jackPos + Slack
  /\ pc = "track" => JackMoved <= Tracked + Slack
  /\ pc = "tick" => JackMoved <= jackPos + Slack

LEMMA JackMovedType ==
  ASSUME TypeOK
  PROVE  JackMoved \in Nat
<1>1. jack \in Nat /\ JackTop \in Nat
  BY PlantAssumption DEF TypeOK
<1>2. QED
  BY <1>1 DEF JackMoved, MinOf, Left

\* The outputs of a tick, seen from the jack.
LEMMA OutputsFollowed ==
  ASSUME TypeOK, SetOutputs, jack <= jackPos + Slack
  PROVE  JackMoved' <= Tracked' + Slack'
<1>1. /\ jack' = jack /\ jackPos' = jackPos /\ raced' = raced
      /\ withheld' = IF Wanted["JACK"] = "REV" /\ out'["JACK"] # "REV"
                       THEN withheld + 1 ELSE withheld
      /\ out'["JACK"] \in {Wanted["JACK"], "OFF"}
  BY GrantsOrWithholds DEF SetOutputs, jogging, Bridges
<1>2. JackDir' = JackDir /\ JackHome' = JackHome
  BY DEF SetOutputs, machine, jogging, JackDir, JogLive, Tripped, AtCeiling, JackHome
<1>3. /\ jack \in Nat /\ jackPos \in Nat /\ raced \in Nat /\ withheld \in Nat
      /\ JackTop \in Nat
  BY PlantAssumption DEF TypeOK
<1>4. CASE JackHome
  BY <1>1, <1>2, <1>3, <1>4 DEF JackMoved, MinOf, Left, Tracked, Slack, JackHome
<1>5. CASE ~JackHome
  <2>1. Wanted["JACK"] = JackDir /\ JackDir \in Dirs
    BY <1>5, TrackedIsWanted, JackDirType
  <2>2. CASE JackDir = "FWD"
    BY <1>1, <1>2, <1>3, <1>5, <2>1, <2>2 DEF JackMoved, MinOf, Tracked, Slack
  <2>3. CASE JackDir = "REV"
    BY <1>1, <1>2, <1>3, <1>5, <2>1, <2>3 DEF JackMoved, Left, Tracked, Slack
  <2>4. CASE JackDir = "OFF"
    BY <1>1, <1>2, <1>3, <1>5, <2>1, <2>4 DEF JackMoved, Tracked, Slack
  <2>5. QED
    BY <2>1, <2>2, <2>3, <2>4 DEF Dirs
<1>6. QED
  BY <1>4, <1>5

\* A jog that is armed or stopped between the two snapshots of a tick turns the
\* estimate by two at most.
LEMMA RacesCount ==
  ASSUME TypeOK, Others \/ UNCHANGED vars, pc = "track", JackMoved <= Tracked + Slack
  PROVE  JackMoved' <= Tracked' + Slack'
<1>1. UNCHANGED <<pc, state, efuse, out, jack, jackPos, withheld>>
  BY OthersQuiet DEF physical, relay, plant
<1>2. JackMoved' = JackMoved /\ JackHome' = JackHome
  BY <1>1 DEF JackMoved, JackHome
<1>3. /\ jackPos \in Nat /\ raced \in Nat /\ withheld \in Nat
  BY DEF TypeOK
<1>4. \/ over' = over /\ raced' = raced
      \/ raced' = raced + 1
  BY <1>3 DEF Others, Request, ArmBegin, ArmEnd, StopOverride, SetRemaining, jogging, vars
<1>5. CASE over' = over /\ raced' = raced
  <2>1. JackDir' = JackDir
    BY <1>1, <1>5 DEF JackDir, JogLive, Tripped, AtCeiling
  <2>2. QED
    BY <1>1, <1>2, <1>5, <2>1 DEF Tracked, Slack
<1>6. CASE raced' = raced + 1
  <2>1. Tracked' >= Tracked - 2
    BY <1>1, <1>2, <1>3 DEF Tracked, Left
  <2>2. Slack' = Slack + 2 /\ Slack \in Nat /\ Tracked \in Int /\ Tracked' \in Int
    BY <1>1, <1>3, <1>6 DEF Slack, Tracked, Left
  <2>3. QED
    BY <1>2, <2>1, <2>2, JackMovedType
<1>7. QED
  BY <1>4, <1>5, <1>6

(***************************************************************************)
(* The jack never goes further past JACK_MAX than its races and the        *)
(* directions withheld, as long as it is home when the device starts and   *)
(* nobody forces or calibrates it (both of which pass the ceiling).        *)
(***************************************************************************)
THEOREM CeilingHolds ==
  ASSUME StartHeights = {0}, JackMax > 0,
         "CAL_JACK_START" \notin Cmds, "JACK_UP_FORCE" \notin Jogs
  PROVE  Spec => []CeilingRespected
<1> USE TimesAssumption
<1>1. Init => CeilInv
  BY DEF Init, CeilInv, CeilingRespected, Slack, JackMoved, AllOff, Bridges
<1>2. TypeOK /\ PosInv /\ CeilInv /\ [Next]_vars => CeilInv'
  <2> SUFFICES ASSUME TypeOK, PosInv, CeilInv, [Next]_vars PROVE CeilInv'
    OBVIOUS
  <2>1. /\ jack \in Nat /\ jackPos \in Nat /\ raced \in Nat /\ withheld \in Nat
        /\ JackMax \in Nat /\ jackPos <= JackMax /\ JackMoved \in Nat
    BY JackMovedType DEF TypeOK, PosInv
  <2>2. CASE Tick
    <3>1. /\ pc = "tick" /\ pc' = "commands" /\ jack' = JackMoved
          /\ UNCHANGED <<jackPos, raced, withheld>>
      BY <2>2 DEF Tick
    <3>2. QED
      BY <2>1, <3>1 DEF CeilInv, CeilingRespected, Slack
  <2>3. CASE (\E cmd \in Cmds, low \in LowBattery : Receive(cmd, low)) \/ Decide
    <3>1. /\ pc = "commands" /\ pc' \in {"commands", "outputs"}
          /\ UNCHANGED <<jack, jackPos, raced, withheld>>
      BY <2>3 DEF Receive, Decide, relay, jogging
    <3>2. QED
      BY <3>1 DEF CeilInv, CeilingRespected, Slack
  <2>4. CASE SetOutputs
    <3>1. /\ pc = "outputs" /\ pc' = "track"
          /\ UNCHANGED <<jack, jackPos, raced>>
          /\ withheld' = withheld \/ withheld' = withheld + 1
      BY <2>4 DEF SetOutputs, jogging
    <3>2. JackMoved' <= Tracked' + Slack'
      BY <2>4, <3>1, OutputsFollowed DEF CeilInv
    <3>3. CeilingRespected /\ jack <= jackPos + Slack
      BY <3>1 DEF CeilInv
    <3>4. CeilingRespected' /\ jack' <= jackPos' + Slack'
      BY <2>1, <3>1, <3>3 DEF CeilingRespected, Slack
    <3>5. QED
      BY <3>1, <3>2, <3>4 DEF CeilInv
  <2>5. CASE Track
    <3>1. /\ pc = "track" /\ pc' = "tick" /\ jackPos' = Tracked
          /\ UNCHANGED <<jack, out, raced, withheld>>
      BY <2>5 DEF Track, Tracked, relay, plant, jogging
    <3>2. JackMoved' = JackMoved
      BY <3>1 DEF JackMoved
    <3>3. QED
      BY <3>1, <3>2 DEF CeilInv, CeilingRespected, Slack
  <2>6. CASE Others \/ UNCHANGED vars
    <3>1. UNCHANGED <<pc, jack, out, jackPos, withheld>>
      BY <2>6, OthersQuiet DEF physical, relay, plant
    <3>2. JackMoved' = JackMoved
      BY <3>1 DEF JackMoved
    <3>3. /\ raced' = raced \/ raced' = raced + 1
          /\ pc # "track" => raced' = raced
      BY <2>6 DEF Others, Request, ArmBegin, ArmEnd, StopOverride, SetRemaining,
                  jogging, vars
    <3>4. pc = "track" => JackMoved' <= Tracked' + Slack'
      BY <2>6, RacesCount DEF CeilInv
    <3>5. CeilingRespected'
      BY <2>1, <3>1, <3>3 DEF CeilInv, CeilingRespected
    <3>6. pc \in {"commands", "outputs", "track"} => jack' <= jackPos' + Slack'
      BY <2>1, <3>1, <3>3 DEF CeilInv, Slack
    <3>7. pc = "tick" => JackMoved' <= jackPos' + Slack'
      BY <2>1, <3>1, <3>2, <3>3 DEF CeilInv, Slack
    <3>8. QED
      BY <3>1, <3>4, <3>5, <3>6, <3>7 DEF CeilInv
  <2>7. QED
    BY <2>2, <2>3, <2>4, <2>5, <2>6 DEF Next, Control
<1>3. CeilInv => CeilingRespected
  BY DEF CeilInv
<1>4. QED
  BY <1>1, <1>2, <1>3, TypeCorrect, PosInvHolds, PTL DEF Spec

-----------------------------------------------------------------------------
(***************************************************************************)
(* THE LIFT.  With no jog of the jack the estimate is never above it, so   *)
(* neither the time nor the ceiling ends a lift below what the move asked  *)
(* for; what the e-fuse of the jack ends is recorded.                      *)
(***************************************************************************)
JackJogs == {"JACK_UP", "JACK_DOWN", "JACK_UP_FORCE", "JACK_DOWN_FORCE"}
Lifted   == {"DRIVE_START_DELAY", "DRIVE_FLUFF_START", "DRIVE"}

LiftInv ==
  /\ NotArmed(JackJogs)
  /\ pc \in {"commands", "outputs", "track"} => jackPos <= jack
  /\ pc = "track" => Tracked <= JackMoved
  /\ pc = "tick" => jackPos <= JackMoved
  /\ state = "JACK_UP" =>
       /\ cuts \intersect LiftPhases = {} => jack >= JackTime - timer
       /\ pc \in {"track", "tick"} => out["JACK"] = "FWD"
  /\ state \in Lifted =>
       /\ cuts \intersect LiftPhases = {} => jack >= JackTime
       /\ pc \in {"track", "tick"} => out["JACK"] = "OFF"

\* Without a jog of the jack its direction is that of the state.
LEMMA JackFollowsState ==
  ASSUME NotArmed(JackJogs), state # "CALIBRATE_JACK_MOVE"
  PROVE  JackDir = IF state \in Lifts THEN "FWD"
                   ELSE IF state \in Lowering THEN "REV" ELSE "OFF"
<1>1. state \in Raising => state \in Lifts /\ state \notin Lowering
  BY DEF Raising, Lifts, Lowering
<1>2. state \in Lifts => state \in Raising
  BY DEF Raising, Lifts
<1>3. over.cmd # "JACK_UP" /\ over.cmd # "JACK_UP_FORCE" /\ over.cmd \notin JackDownJogs
  BY DEF NotArmed, JackJogs, JackDownJogs
<1>4. QED
  BY <1>1, <1>2, <1>3 DEF JackDir

\* What is recorded of a lift is not forgotten before the next one begins.
LEMMA CutsAreKept ==
  ASSUME Transition
  PROVE  /\ state' \in Lifted \union {"JACK_UP"} => cuts \subseteq cuts'
         /\ state = "JACK_UP" /\ state' = "DRIVE_START_DELAY" /\ Tripped("JACK")
              => cuts' \intersect LiftPhases # {}
         /\ "retract" \in cuts => "retract" \in cuts'
<1> USE DEF Lifted, LiftPhases, Goto, Stay, Quiet, Fail, FailAndLower, machine, lift
<1>1. CASE MoveStartDelay \/ MoveJackRetract \/ MoveJackSettle
  BY <1>1 DEF MoveStartDelay, MoveJackRetract, MoveJackSettle, BeginJackUp, Cuts
<1>2. CASE (\E engaged \in Engagement : JackUpStart(engaged)) \/ JackUp
  BY <1>2 DEF JackUpStart, JackUp, JackRaised, JackFinished, Cuts
<1>3. CASE DriveStartDelay \/ DriveEndDelay
  BY <1>3 DEF DriveStartDelay, DriveEndDelay
<1>4. CASE DriveFluffStart
  <2>1. BeginDrive => state' = "DRIVE" /\ cuts' = cuts
    BY DEF BeginDrive
  <2>2. QED
    BY <1>4, <2>1 DEF DriveFluffStart
<1>5. CASE Drive
  <2>1. /\ DriveTripped => cuts' = cuts
        /\ DriveDone => cuts' = cuts
    BY DEF DriveTripped, DriveDone
  <2>2. QED
    BY <1>5, <2>1 DEF Drive
<1>6. CASE JackDown \/ UndoJackStart \/ CalibrateJackMove \/ CalibrateDriveMove \/ Waiting
  BY <1>6 DEF JackDown, UndoJackStart, CalibrateJackMove, CalibrateDriveMove, Waiting
<1>7. QED
  BY <1>1, <1>2, <1>3, <1>4, <1>5, <1>6 DEF Transition

\* Only a transition records anything.
LEMMA CutsElsewhere ==
  ASSUME [Next]_vars, ~Decide PROVE cuts' = cuts
<1>1. CASE Tick
  BY <1>1 DEF Tick
<1>2. ASSUME NEW cmd \in Cmds, NEW low \in LowBattery, Receive(cmd, low)
      PROVE  cuts' = cuts
  BY <1>2 DEF Receive, StartCmd, StopCmd, UndoCmd, Calibrate, lift
<1>3. CASE SetOutputs \/ Track
  BY <1>3 DEF SetOutputs, Track, machine, lift
<1>4. CASE Others \/ UNCHANGED vars
  BY <1>4, OthersQuiet DEF lift
<1>5. QED
  BY <1>1, <1>2, <1>3, <1>4 DEF Next, Control

\* A tick of the plant: time that passes for a lift is height gained.
LEMMA TickLifts ==
  ASSUME TypeOK, LiftInv, Tick, JackTime <= JackTop, state = "JACK_UP",
         cuts \intersect LiftPhases = {}
  PROVE  jack' >= JackTime - timer'
<1>1. /\ jack \in Nat /\ timer \in Nat /\ JackTime \in Nat /\ JackTop \in Nat
  BY TimesAssumption, PlantAssumption DEF TypeOK
<1>2. /\ jack' = JackMoved /\ timer' = Left(timer)
      /\ out["JACK"] = "FWD" /\ jack >= JackTime - timer
  BY DEF Tick, LiftInv
<1>3. jack' = MinOf(jack + 1, JackTop)
  BY <1>2 DEF JackMoved
<1>4. QED
  BY <1>1, <1>2, <1>3 DEF MinOf, Left

\* The outputs of a tick: what is counted upwards is really driven upwards.
LEMMA OutputsLift ==
  ASSUME TypeOK, SettleInv, PosInv, LiftInv, SetOutputs, JackMax <= JackTop
  PROVE  /\ Tracked' <= JackMoved'
         /\ state \in Lifts => out'["JACK"] = "FWD"
         /\ state \in Lifted => out'["JACK"] = "OFF"
<1>1. /\ pc = "outputs" /\ out' = Relays(Wanted)
      /\ out'["JACK"] \in {Wanted["JACK"], "OFF"}
      /\ UNCHANGED <<state, jack, jackPos, over, efuse>>
  BY GrantsOrWithholds DEF SetOutputs, machine, jogging, Bridges
<1>2. JackDir' = JackDir
  BY <1>1 DEF JackDir, JogLive, Tripped, AtCeiling
<1>3. /\ jack \in Nat /\ jackPos \in Nat /\ jackPos <= jack
      /\ JackMax \in Nat /\ JackTop \in Nat /\ jack <= JackTop
  BY <1>1, TimesAssumption, PlantAssumption DEF TypeOK, LiftInv
<1>4. state \in Lifts => out'["JACK"] = "FWD"
  <2>1. state \in Lifts => Wanted["JACK"] = "FWD" /\ Ready("JACK", "FWD")
    BY JackMoves, PortOfJack DEF SettleInv, Dirs
  <2>2. QED
    BY <1>1, <2>1 DEF Relays, Granted, Ready, Rested, Bridges
<1>5. state \in Lifted => out'["JACK"] = "OFF"
  <2>1. state \in Lifted => JackDir = "OFF" /\ Wanted["JACK"] = "OFF"
    <3>1. state \in Lifted => JackDir = "OFF"
      BY JackFollowsState DEF PosInv, LiftInv, Lifted, Lifts, Lowering
    <3>2. state \in Lifted => Wanted["JACK"] = "OFF"
      BY PortOfJack DEF Wanted, AllOff, Lifted, Raising, Lowering, Driving, Fluffing,
                        Dirs, Bridges
    <3>3. QED
      BY <3>1, <3>2
  <2>2. QED
    BY <1>1, <2>1
<1>6. Tracked' <= JackMoved'
  <2>1. Tracked' = IF JackHome THEN 0
                   ELSE CASE JackDir = "FWD" -> jackPos + 1
                          [] JackDir = "REV" -> Left(jackPos)
                          [] OTHER -> jackPos
    BY <1>1, <1>2 DEF Tracked, JackHome
  <2>2. JackMoved' = CASE out'["JACK"] = "FWD" -> MinOf(jack + 1, JackTop)
                       [] out'["JACK"] = "REV" -> Left(jack)
                       [] OTHER -> jack
    BY <1>1 DEF JackMoved
  <2>3. CASE JackHome
    BY <1>3, <2>1, <2>2, <2>3 DEF MinOf, Left
  <2>4. CASE ~JackHome /\ state \in Lifts
    <3>1. JackDir = "FWD" /\ jackPos < JackMax
      BY <1>1, <2>4, JackFollowsState DEF PosInv, LiftInv
    <3>2. QED
      BY <1>3, <1>4, <2>1, <2>2, <2>4, <3>1 DEF MinOf
  <2>5. CASE ~JackHome /\ state \notin Lifts
    <3>1. JackDir \in {"REV", "OFF"} /\ Wanted["JACK"] = JackDir
      BY <2>5, JackFollowsState, TrackedIsWanted DEF PosInv, LiftInv
    <3>2. out'["JACK"] = "REV" \/ out'["JACK"] = "OFF"
      BY <1>1, <3>1
    <3>3. out'["JACK"] = "REV" => JackDir = "REV"
      BY <1>1, <3>1
    <3>4. CASE JackDir = "REV"
      BY <1>3, <2>1, <2>2, <2>5, <3>2, <3>4 DEF Left
    <3>5. CASE JackDir = "OFF"
      BY <1>3, <2>1, <2>2, <2>5, <3>2, <3>3, <3>5 DEF Left
    <3>6. QED
      BY <3>1, <3>4, <3>5
  <2>6. QED
    BY <2>3, <2>4, <2>5
<1>7. QED
  BY <1>4, <1>5, <1>6

(***************************************************************************)
(* The shelter is not dragged with its jack down, whatever commands arrive *)
(* and whenever the loop breaks or a fuse trips, unless it was the fuse of *)
(* the jack that ended a phase of this lift: as long as nobody jogs or     *)
(* calibrates the jack, the pauses outlast the gap of the relay driver and *)
(* the ceiling is no lower than the lift.                                  *)
(***************************************************************************)
THEOREM LiftedFirst ==
  ASSUME JackJogs \intersect Jogs = {},
         "CAL_JACK_START" \notin Cmds, TransitionTicks > GapTicks,
         JackMax > 0, JackTime <= JackMax, JackMax <= JackTop
  PROVE  Spec => []LiftedBeforeTravel
<1> USE TimesAssumption, PlantAssumption
<1>1. Init => LiftInv
  <2> SUFFICES ASSUME Init PROVE LiftInv
    OBVIOUS
  <2>1. jack \in Nat /\ JackMoved = jack
    BY DEF Init, JackMoved, AllOff, Bridges
  <2>2. NotArmed(JackJogs)
    BY DEF Init, NotArmed, NoJog, JackJogs
  <2>3. QED
    BY <2>1, <2>2 DEF Init, LiftInv, Lifted
<1>2. TypeOK /\ SettleInv /\ PosInv /\ LiftInv /\ [Next]_vars => LiftInv'
  <2> SUFFICES ASSUME TypeOK, SettleInv, PosInv, LiftInv, [Next]_vars PROVE LiftInv'
    OBVIOUS
  <2>1. NotArmed(JackJogs)'
    <3>1. "none" \notin JackJogs
      BY DEF JackJogs
    <3>2. QED
      BY <3>1, NeverSent DEF LiftInv
  <2>2. /\ jack \in Nat /\ jackPos \in Nat /\ timer \in Nat /\ JackTime \in Nat
        /\ JackMoved \in Nat /\ JackMax \in Nat
    BY JackMovedType DEF TypeOK
  <2>3. CASE Tick
    <3>1. /\ pc = "tick" /\ pc' = "commands" /\ state' = state /\ jackPos' = jackPos
          /\ jack' = JackMoved
      BY <2>3 DEF Tick
    <3>2. cuts' = cuts
      BY <2>3 DEF Tick
    <3>3. state = "JACK_UP" /\ cuts \intersect LiftPhases = {}
            => jack' >= JackTime - timer'
      BY <2>3, TickLifts
    <3>4. state \in Lifted /\ cuts \intersect LiftPhases = {} => jack' >= JackTime
      BY <3>1 DEF LiftInv, JackMoved
    <3>5. QED
      BY <2>1, <3>1, <3>2, <3>3, <3>4 DEF LiftInv
  <2>4. ASSUME NEW cmd \in Cmds, NEW low \in LowBattery, Receive(cmd, low)
        PROVE  LiftInv'
    <3>1. /\ pc = "commands" /\ pc' = "commands" /\ UNCHANGED <<jack, jackPos>>
          /\ cuts' = cuts
      BY <2>4 DEF Receive, StartCmd, StopCmd, UndoCmd, Calibrate, lift
    <3>2. \/ state' = state /\ timer' = timer
          \/ state' # "JACK_UP" /\ state' \notin Lifted
      BY <2>4, ReceiveLeads, ReceiveKeepsTimer DEF Lifted
    <3>3. QED
      BY <2>1, <3>1, <3>2 DEF LiftInv
  <2>5. CASE Decide
    <3>1. /\ pc = "commands" /\ pc' = "outputs" /\ Transition
          /\ UNCHANGED <<jack, jackPos>>
      BY <2>5 DEF Decide
    <3>2. jackPos <= jack
      BY <3>1 DEF LiftInv
    <3>3. ASSUME cuts' \intersect LiftPhases = {}
          PROVE  /\ state' = "JACK_UP" => jack >= JackTime - timer'
                 /\ state' \in Lifted => jack >= JackTime
      <4>1. state' \in Lifted \union {"JACK_UP"} => cuts \intersect LiftPhases = {}
        BY <3>1, <3>3, CutsAreKept
      <4>2. CASE state' = "JACK_UP" /\ state # "JACK_UP"
        BY <2>2, <3>1, <4>2, LiftsEntered DEF Lifted
      <4>3. CASE state' = "JACK_UP" /\ state = "JACK_UP"
        <5>1. timer' = timer
          BY <3>1, <4>3, MoveProceeds DEF Pauses
        <5>2. QED
          BY <4>1, <4>3, <5>1 DEF LiftInv, Lifted
      <4>4. CASE state' \in Lifted /\ state \in Lifted
        BY <4>1, <4>4 DEF LiftInv, Lifted
      <4>5. CASE state' \in Lifted /\ state \notin Lifted
        <5>1. AtCeiling \/ (state = "JACK_UP" /\ (timer = 0 \/ Tripped("JACK")))
          BY <3>1, <4>5, LiftsEntered DEF Lifted
        <5>2. state' = "DRIVE_START_DELAY"
          BY <3>1, <4>5, LiftsEntered DEF Lifted
        <5>3. ~(state = "JACK_UP" /\ Tripped("JACK"))
          BY <3>1, <3>3, <5>2, CutsAreKept
        <5>4. AtCeiling => jack >= JackTime
          BY <2>2, <3>2 DEF AtCeiling
        <5>5. state = "JACK_UP" /\ timer = 0 => jack >= JackTime
          BY <2>2, <4>1, <4>5 DEF LiftInv
        <5>6. state' # "JACK_UP"
          BY <4>5 DEF Lifted
        <5>7. QED
          BY <5>1, <5>3, <5>4, <5>5, <5>6
      <4>6. QED
        BY <4>2, <4>3, <4>4, <4>5
    <3>4. QED
      BY <2>1, <3>1, <3>2, <3>3 DEF LiftInv
  <2>6. CASE SetOutputs
    <3>1. /\ pc = "outputs" /\ pc' = "track"
          /\ UNCHANGED <<state, timer, jack, jackPos, cuts>>
      BY <2>6 DEF SetOutputs, machine, lift
    <3>2. /\ Tracked' <= JackMoved'
          /\ state = "JACK_UP" => out'["JACK"] = "FWD"
          /\ state \in Lifted => out'["JACK"] = "OFF"
      BY <2>6, OutputsLift DEF Lifts
    <3>3. QED
      BY <2>1, <3>1, <3>2 DEF LiftInv
  <2>7. CASE Track
    <3>1. /\ pc = "track" /\ pc' = "tick" /\ jackPos' = Tracked
          /\ UNCHANGED <<state, timer, jack, out, cuts>>
      BY <2>7 DEF Track, Tracked, machine, lift, plant
    <3>2. JackMoved' = JackMoved
      BY <3>1 DEF JackMoved
    <3>3. QED
      BY <2>1, <3>1, <3>2 DEF LiftInv
  <2>8. CASE Others \/ UNCHANGED vars
    <3>1. UNCHANGED <<pc, state, timer, jack, jackPos, out, cuts>>
      BY <2>8, OthersQuiet DEF physical, plant, lift
    <3>2. JackMoved' = JackMoved
      BY <3>1 DEF JackMoved
    <3>3. Tracked' = Tracked
      <4>1. JackDir = IF state \in Lifts THEN "FWD"
                      ELSE IF state \in Lowering THEN "REV" ELSE "OFF"
        BY JackFollowsState DEF PosInv, LiftInv
      <4>2. JackDir' = JackDir
        <5>1. NotArmed(JackJogs)' /\ state' # "CALIBRATE_JACK_MOVE"
          BY <2>1, <3>1 DEF PosInv
        <5>2. QED
          BY <3>1, <4>1, <5>1
          DEF NotArmed, JackJogs, JackDir, JackDownJogs, Lifts, Raising
      <4>3. QED
        BY <3>1, <4>2 DEF Tracked, JackHome
    <3>4. QED
      BY <2>1, <3>1, <3>2, <3>3 DEF LiftInv
  <2>9. QED
    BY <2>3, <2>4, <2>5, <2>6, <2>7, <2>8 DEF Next, Control
<1>3. LiftInv => LiftedBeforeTravel
  BY DEF LiftInv, LiftedBeforeTravel, Lifted
<1>4. Spec => []SettleInv
  BY SettleInvHolds
<1>5. Spec => []PosInv
  <2>1. "JACK_UP_FORCE" \notin Jogs
    BY DEF JackJogs
  <2>2. QED
    BY <2>1, PosInvHolds
<1>6. QED
  BY <1>1, <1>2, <1>3, <1>4, <1>5, TypeCorrect, PTL DEF Spec

-----------------------------------------------------------------------------
(***************************************************************************)
(* THE WAY HOME.  What a lift has risen is no more than the time it took,  *)
(* but for the tick by which the ceiling is passed; what is left of the    *)
(* lowering covers it, but for the ticks withheld while the jack rests.    *)
(***************************************************************************)
Unraised == {"MOVE_START_DELAY", "MOVE_JACK_RETRACT", "MOVE_JACK_SETTLE"} \union Lifts

\* The relays of the jack, while they are those of this tick.
PortInv ==
  /\ pc \in {"track", "tick"} =>
       /\ out = last
       /\ out["JACK"] = "FWD" => state \in Lifts
       /\ state = "MOVE_JACK_RETRACT" => out["JACK"] = "REV"
  /\ pc \in {"commands", "outputs"} => offAge["JACK"] > 0

\* The jack against its ceiling.
HeightInv ==
  /\ jack <= JackMax + 1
  /\ state \in Lifts =>
       /\ pc \in {"commands", "outputs"} => jack <= jackPos + 1
       /\ pc = "track" => JackMoved <= Tracked + 1
       /\ pc = "tick" => JackMoved <= jackPos + 1

\* The jack against the clock of the retract and of the lift.
ClockedInv ==
  /\ state = "MOVE_JACK_RETRACT" => jack <= timer + 1
  /\ state = "MOVE_JACK_SETTLE" => jack <= 1
  /\ state \in Lifts => jack <= upAge + 1
  /\ state \in Unraised => upTicks = 0
  /\ upTicks > 0 => jack <= upTicks + 1

\* The jack against what is left of the lowering.
LoweredInv ==
  upTicks > 0 =>
    /\ last["JACK"] = "FWD" =>
         pc = "outputs" /\ state \in {"DRIVE_START_DELAY", "UNDO_JACK_START"}
    /\ state = "JACK_DOWN" =>
         \/ /\ last["JACK"] = "OFF" /\ jack <= timer + offAge["JACK"]
            /\ pc \in {"track", "tick"} => offAge["JACK"] <= GapTicks
         \/ last["JACK"] = "REV" /\ jack <= timer + GapTicks + 1

\* A retract that the e-fuse cut short leaves the jack anywhere.
HomeInv ==
  /\ NotArmed(JackUps) /\ PortInv
  /\ "retract" \notin cuts => HeightInv /\ ClockedInv /\ LoweredInv

\* What a command does to the clocks of the lift.
LEMMA ReceiveClocks ==
  ASSUME NEW cmd \in Cmds, NEW low \in LowBattery, Receive(cmd, low)
  PROVE  \/ state' = state /\ UNCHANGED <<timer, upAge, upTicks>>
         \/ state' = "MOVE_START_DELAY" /\ upTicks' = 0
         \/ state' \notin Unraised \union {"JACK_DOWN"} /\ upTicks' = upTicks
  BY DEF Receive, StartCmd, StopCmd, UndoCmd, Calibrate, Goto, Unraised, Lifts, lift

\* What a transition does to them.
LEMMA LiftClocked ==
  ASSUME Transition
  PROVE  /\ state' = "MOVE_JACK_RETRACT" =>
              timer' = IF state = "MOVE_JACK_RETRACT" THEN timer ELSE JackMax
         /\ state' = "MOVE_JACK_SETTLE" /\ state # "MOVE_JACK_SETTLE" =>
              JackHome \/ "retract" \in cuts' \/ timer = 0
         /\ state' \in Lifts => upAge' = IF state \in Lifts THEN upAge ELSE 0
         /\ state' \in Unraised => state \in Unraised
         /\ \/ upTicks' = upTicks
            \/ /\ state \in Lifts /\ upTicks' = upAge
               /\ state' \in {"DRIVE_START_DELAY", "UNDO_JACK_START"}
         /\ state' = "JACK_DOWN" => \/ state = "JACK_DOWN" /\ timer' = timer
                                    \/ timer' = JackDownTicks(upTicks)
         /\ state = "JACK_DOWN" /\ state' # "JACK_DOWN" =>
              JackHome \/ Tripped("JACK") \/ timer = 0
<1> USE DEF Unraised, Lifts, Goto, Stay, Quiet, Fail, FailAndLower, machine, lift
<1>1. CASE MoveStartDelay \/ MoveJackRetract \/ MoveJackSettle
  BY <1>1 DEF MoveStartDelay, MoveJackRetract, MoveJackSettle, BeginJackUp, Cuts
<1>2. CASE (\E engaged \in Engagement : JackUpStart(engaged)) \/ JackUp
  BY <1>2 DEF JackUpStart, JackUp, JackRaised, JackFinished
<1>3. CASE DriveStartDelay \/ DriveEndDelay
  BY <1>3 DEF DriveStartDelay, DriveEndDelay
<1>4. CASE DriveFluffStart
  <2>1. BeginDrive => state' = "DRIVE" /\ upTicks' = upTicks
    BY DEF BeginDrive
  <2>2. QED
    BY <1>4, <2>1 DEF DriveFluffStart
<1>5. CASE Drive
  <2>1. /\ DriveTripped => state' = "UNDO_JACK_START" /\ upTicks' = upTicks
        /\ DriveDone => state' = "DRIVE_END_DELAY" /\ upTicks' = upTicks
    BY DEF DriveTripped, DriveDone
  <2>2. QED
    BY <1>5, <2>1 DEF Drive
<1>6. CASE JackDown \/ UndoJackStart \/ CalibrateJackMove \/ CalibrateDriveMove \/ Waiting
  BY <1>6 DEF JackDown, UndoJackStart, CalibrateJackMove, CalibrateDriveMove, Waiting
<1>7. QED
  BY <1>1, <1>2, <1>3, <1>4, <1>5, <1>6 DEF Transition

\* The jack is lowered for at least as long as it was raised.
LEMMA LoweredAsLong ==
  ASSUME NEW up \in Nat
  PROVE  JackDownTicks(up) \in Nat /\ JackDownTicks(up) >= up
<1> DEFINE longer == MaxOf(up, JackTime)
<1>1. longer \in Nat /\ longer >= up
  BY TimesAssumption DEF MaxOf
<1> HIDE DEF longer
<1>2. (longer * 105) \div 100 \in Nat /\ (longer * 105) \div 100 >= longer
  BY <1>1
<1>3. JackDownTicks(up) = (longer * 105) \div 100
  BY DEF longer, JackDownTicks
<1>4. QED
  BY <1>1, <1>2, <1>3

LEMMA PortHolds ==
  ASSUME TypeOK, SettleInv, PosInv, NotArmed(JackUps), PortInv, [Next]_vars, SettleInv'
  PROVE  PortInv'
<1>1. CASE SetOutputs
  <2>1. /\ pc' = "track" /\ state' = state
        /\ out' = Relays(Wanted) /\ last' = Relays(Wanted)
        /\ out'["JACK"] \in {Wanted["JACK"], "OFF"}
    BY <1>1, GrantsOrWithholds DEF SetOutputs, machine, Bridges
  <2>2. out'["JACK"] = "FWD" => state \in Lifts
    BY <2>1, WhoLifts DEF NotArmed, PosInv, Raising, Lifts
  <2>3. state = "MOVE_JACK_RETRACT" => out'["JACK"] = "REV"
    <3>1. state = "MOVE_JACK_RETRACT" => out' = Wanted'
      BY <2>1 DEF SettleInv, SettledStarts
    <3>2. state = "MOVE_JACK_RETRACT" => Wanted = Energize("OFF", "REV", "OFF")
      BY JackMoves
    <3>3. state = "MOVE_JACK_RETRACT" => Wanted' = Wanted
      BY <2>1, WantedByState
    <3>4. QED
      BY <3>1, <3>2, <3>3, PortOfJack DEF Dirs
  <2>4. QED
    BY <2>1, <2>2, <2>3 DEF PortInv
<1>2. CASE Decide \/ \E cmd \in Cmds, low \in LowBattery : Receive(cmd, low)
  <2>1. pc = "commands" /\ pc' \in {"commands", "outputs"} /\ offAge' = offAge
    BY <1>2 DEF Decide, Receive, relay
  <2>2. QED
    BY <2>1 DEF PortInv
<1>3. CASE Track
  BY <1>3 DEF Track, machine, relay, plant, PortInv
<1>4. CASE Others \/ UNCHANGED vars
  BY <1>4, OthersQuiet DEF physical, relay, plant, PortInv
<1>5. CASE Tick
  <2>1. pc' = "commands" /\ offAge'["JACK"] = Aged(offAge["JACK"], GapTicks)
    BY <1>5 DEF Tick, Bridges
  <2>2. offAge["JACK"] \in Nat /\ GapTicks \in Nat
    BY TimesAssumption DEF TypeOK, Bridges
  <2>3. QED
    BY <2>1, <2>2 DEF PortInv, Aged
<1>6. QED
  BY <1>1, <1>2, <1>3, <1>4, <1>5 DEF Next, Control

\* What the jack does in a tick, by the relays of the jack.
LEMMA JackSteps ==
  ASSUME TypeOK
  PROVE  /\ JackMoved <= jack + 1
         /\ out["JACK"] # "FWD" => JackMoved <= jack
         /\ out["JACK"] = "REV" => JackMoved = Left(jack)
<1>1. jack \in Nat /\ JackTop \in Nat
  BY PlantAssumption DEF TypeOK
<1>2. QED
  BY <1>1 DEF JackMoved, MinOf, Left

LEMMA HeightKept ==
  ASSUME TypeOK, PosInv, HomeInv, "retract" \notin cuts, [Next]_vars
  PROVE  HeightInv'
<1>1. /\ jack \in Nat /\ jackPos \in Nat /\ JackMax \in Nat /\ jackPos <= JackMax
      /\ JackMoved \in Nat
  BY JackMovedType, TimesAssumption DEF TypeOK, PosInv
<1>2. HeightInv /\ ClockedInv /\ PortInv
  BY DEF HomeInv
<1>3. CASE Tick
  <2>1. /\ pc = "tick" /\ pc' = "commands" /\ jack' = JackMoved
        /\ state' = state /\ jackPos' = jackPos
    BY <1>3 DEF Tick
  <2>2. state \in Lifts => jack' <= jackPos + 1
    BY <1>2, <2>1 DEF HeightInv
  <2>3. state \notin Lifts => jack' <= jack
    BY <1>2, <2>1, JackSteps DEF PortInv
  <2>4. QED
    BY <1>1, <1>2, <2>1, <2>2, <2>3 DEF HeightInv
<1>4. ASSUME NEW cmd \in Cmds, NEW low \in LowBattery, Receive(cmd, low)
      PROVE  HeightInv'
  <2>1. pc = "commands" /\ pc' = "commands" /\ UNCHANGED <<jack, jackPos>>
    BY <1>4 DEF Receive
  <2>2. state' \in Lifts => state \in Lifts
    BY <1>4, ReceiveClocks DEF Unraised, Lifts
  <2>3. QED
    BY <1>2, <2>1, <2>2 DEF HeightInv
<1>5. CASE Decide
  <2>1. pc = "commands" /\ pc' = "outputs" /\ UNCHANGED <<jack, jackPos>> /\ Transition
    BY <1>5 DEF Decide
  <2>2. state' \in Lifts => state \in Lifts \/ jack <= 1
    BY <1>1, <1>2, <2>1, LiftsEntered DEF ClockedInv, JackHome
  <2>3. state \in Lifts => jack <= jackPos + 1
    BY <1>2, <2>1 DEF HeightInv
  <2>4. QED
    BY <1>1, <1>2, <2>1, <2>2, <2>3 DEF HeightInv
<1>6. CASE SetOutputs
  <2>1. /\ pc = "outputs" /\ pc' = "track"
        /\ UNCHANGED <<state, jack, jackPos>>
    BY <1>6 DEF SetOutputs, machine
  <2>2. JackMoved' \in Nat /\ JackMoved' <= jack + 1
    <3>1. JackTop \in Nat /\ jack <= JackTop
      BY PlantAssumption DEF TypeOK
    <3>2. JackMoved' = CASE out'["JACK"] = "FWD" -> MinOf(jack + 1, JackTop)
                         [] out'["JACK"] = "REV" -> Left(jack)
                         [] OTHER -> jack
      BY <2>1 DEF JackMoved
    <3>3. QED
      BY <1>1, <3>1, <3>2 DEF MinOf, Left
  <2>3. state \in Lifts => Tracked' = IF JackHome THEN 0 ELSE jackPos + 1
    <3>1. state \in Lifts => JackDir' = "FWD"
      BY <2>1 DEF JackDir, Raising, Lowering, Lifts
    <3>2. JackHome' = JackHome
      BY <2>1 DEF JackHome
    <3>3. QED
      BY <2>1, <3>1, <3>2 DEF Tracked
  <2>4. state \in Lifts => jack <= jackPos + 1
    BY <1>2, <2>1 DEF HeightInv
  <2>5. state \in Lifts => JackMoved' <= Tracked' + 1
    <3>1. CASE JackHome
      BY <2>2, <2>3, <3>1 DEF JackHome
    <3>2. CASE ~JackHome
      BY <1>1, <2>2, <2>3, <2>4, <3>2
    <3>3. QED
      BY <3>1, <3>2
  <2>6. QED
    BY <1>2, <2>1, <2>5 DEF HeightInv
<1>7. CASE Track
  <2>1. /\ pc = "track" /\ pc' = "tick" /\ jackPos' = Tracked
        /\ UNCHANGED <<state, jack, out>>
    BY <1>7 DEF Track, Tracked, machine, plant
  <2>2. JackMoved' = JackMoved
    BY <2>1 DEF JackMoved
  <2>3. QED
    BY <1>2, <2>1, <2>2 DEF HeightInv
<1>8. CASE Others \/ UNCHANGED vars
  <2>1. UNCHANGED <<pc, state, jack, out, jackPos>>
    BY <1>8, OthersQuiet DEF physical, plant
  <2>2. JackMoved' = JackMoved
    BY <2>1 DEF JackMoved
  <2>3. state \in Lifts => Tracked' = Tracked
    BY <2>1 DEF Tracked, JackDir, JackHome, Raising, Lifts
  <2>4. QED
    BY <1>2, <2>1, <2>2, <2>3 DEF HeightInv
<1>9. QED
  BY <1>3, <1>4, <1>5, <1>6, <1>7, <1>8 DEF Next, Control

LEMMA ClocksKept ==
  ASSUME TypeOK, HomeInv, "retract" \notin cuts, [Next]_vars, "retract" \notin cuts'
  PROVE  ClockedInv'
<1>1. /\ jack \in Nat /\ JackMoved \in Nat /\ timer \in Nat /\ upAge \in Nat
      /\ upTicks \in Nat /\ JackMax \in Nat
  BY JackMovedType, TimesAssumption DEF TypeOK
<1>2. ClockedInv /\ PortInv /\ jack <= JackMax + 1
  BY DEF HomeInv, HeightInv
<1>3. CASE Tick
  <2>1. /\ pc = "tick" /\ jack' = JackMoved /\ timer' = Left(timer)
        /\ UNCHANGED <<state, upTicks>>
        /\ upAge' = IF state \in Lifts THEN upAge + 1 ELSE upAge
    BY <1>3 DEF Tick, Lifts
  <2>2. state = "MOVE_JACK_RETRACT" => jack' <= timer' + 1
    <3>1. state = "MOVE_JACK_RETRACT" => jack' = Left(jack) /\ jack <= timer + 1
      BY <1>2, <2>1, JackSteps DEF PortInv, ClockedInv
    <3>2. QED
      BY <1>1, <2>1, <3>1 DEF Left
  <2>3. state \notin Lifts => jack' <= jack
    BY <1>2, <2>1, JackSteps DEF PortInv
  <2>4. state \in Lifts => jack' <= upAge' + 1
    BY <1>1, <1>2, <2>1, JackSteps DEF ClockedInv
  <2>5. state = "MOVE_JACK_SETTLE" => jack' <= 1
    BY <1>1, <1>2, <2>1, <2>3 DEF ClockedInv, Lifts
  <2>6. upTicks > 0 => jack' <= upTicks + 1
    BY <1>1, <1>2, <2>1, <2>3 DEF ClockedInv, Unraised
  <2>7. QED
    BY <1>2, <2>1, <2>2, <2>4, <2>5, <2>6 DEF ClockedInv
<1>4. ASSUME NEW cmd \in Cmds, NEW low \in LowBattery, Receive(cmd, low)
      PROVE  ClockedInv'
  <2>1. jack' = jack
    BY <1>4 DEF Receive
  <2>2. CASE state' = state /\ UNCHANGED <<timer, upAge, upTicks>>
    BY <1>2, <2>1, <2>2 DEF ClockedInv
  <2>3. CASE state' = "MOVE_START_DELAY" /\ upTicks' = 0
    BY <2>3 DEF ClockedInv, Lifts
  <2>4. CASE state' \notin Unraised /\ upTicks' = upTicks
    BY <1>2, <2>1, <2>4 DEF ClockedInv, Unraised
  <2>5. QED
    BY <1>4, <2>2, <2>3, <2>4, ReceiveClocks
<1>5. CASE Decide
  <2>1. jack' = jack /\ Transition
    BY <1>5 DEF Decide
  <2>2. state' = "MOVE_JACK_RETRACT" => jack <= timer' + 1
    BY <1>1, <1>2, <2>1, LiftClocked DEF ClockedInv
  <2>3. state' = "MOVE_JACK_SETTLE" => jack <= 1
    <3>1. state' = "MOVE_JACK_SETTLE" =>
            state = "MOVE_JACK_SETTLE" \/ state = "MOVE_JACK_RETRACT"
      BY <2>1, LiftsEntered
    <3>2. state' = "MOVE_JACK_SETTLE" /\ state # "MOVE_JACK_SETTLE" =>
            JackHome \/ timer = 0
      BY <1>2, <2>1, LiftClocked
    <3>3. QED
      BY <1>1, <1>2, <3>1, <3>2 DEF ClockedInv, JackHome
  <2>4. state' \in Lifts => jack <= upAge' + 1
    <3>1. state' \in Lifts =>
            state \in Lifts \/ JackHome \/ state = "MOVE_JACK_SETTLE"
      BY <2>1, LiftsEntered
    <3>2. state' \in Lifts => upAge' = IF state \in Lifts THEN upAge ELSE 0
      BY <2>1, LiftClocked
    <3>3. QED
      BY <1>1, <1>2, <3>1, <3>2 DEF ClockedInv, JackHome
  <2>5. state' \in Unraised => upTicks' = 0
    <3>1. state' \in Unraised => state \in Unraised /\ upTicks' = upTicks
      BY <2>1, LiftClocked DEF Unraised, Lifts
    <3>2. QED
      BY <1>2, <3>1 DEF ClockedInv
  <2>6. upTicks' > 0 => jack <= upTicks' + 1
    BY <1>2, <2>1, LiftClocked DEF ClockedInv
  <2>7. QED
    BY <2>1, <2>2, <2>3, <2>4, <2>5, <2>6 DEF ClockedInv
<1>6. CASE SetOutputs \/ Track
  BY <1>2, <1>6 DEF SetOutputs, Track, machine, lift, plant, ClockedInv
<1>7. CASE Others \/ UNCHANGED vars
  BY <1>2, <1>7, OthersQuiet DEF physical, plant, lift, ClockedInv
<1>8. QED
  BY <1>3, <1>4, <1>5, <1>6, <1>7 DEF Next, Control

LEMMA TickLowers ==
  ASSUME TypeOK, HomeInv, "retract" \notin cuts, Tick
  PROVE  LoweredInv'
<1>1. /\ jack \in Nat /\ timer \in Nat /\ offAge["JACK"] \in 0..(GapTicks + 1)
      /\ GapTicks \in Nat
  BY TimesAssumption DEF TypeOK, Bridges
<1>2. /\ pc = "tick" /\ pc' = "commands" /\ jack' = JackMoved /\ timer' = Left(timer)
      /\ UNCHANGED <<state, upTicks, last>>
      /\ offAge'["JACK"] = Aged(offAge["JACK"], GapTicks)
  BY DEF Tick, Bridges
<1>3. /\ LoweredInv /\ out = last
  BY <1>2 DEF HomeInv, PortInv
<1>4. ASSUME upTicks > 0, state = "JACK_DOWN"
      PROVE  \/ last["JACK"] = "OFF" /\ jack' <= timer' + offAge'["JACK"]
             \/ last["JACK"] = "REV" /\ jack' <= timer' + GapTicks + 1
  <2>1. CASE last["JACK"] = "OFF"
    <3>1. /\ jack <= timer + offAge["JACK"] /\ offAge["JACK"] <= GapTicks
      BY <1>2, <1>3, <1>4, <2>1 DEF LoweredInv
    <3>2. jack' = jack
      BY <1>2, <1>3, <2>1 DEF JackMoved
    <3>3. QED
      BY <1>1, <1>2, <2>1, <3>1, <3>2 DEF Aged, Left
  <2>2. CASE last["JACK"] = "REV"
    <3>1. jack <= timer + GapTicks + 1
      BY <1>3, <1>4, <2>2 DEF LoweredInv
    <3>2. jack' = Left(jack)
      BY <1>2, <1>3, <2>2, JackSteps
    <3>3. QED
      BY <1>1, <1>2, <2>2, <3>1, <3>2 DEF Left
  <2>3. QED
    BY <1>3, <1>4, <2>1, <2>2 DEF LoweredInv
<1>5. upTicks > 0 => last["JACK"] # "FWD"
  BY <1>2, <1>3 DEF LoweredInv
<1>6. QED
  BY <1>2, <1>4, <1>5 DEF LoweredInv

LEMMA DecideLowers ==
  ASSUME TypeOK, HomeInv, "retract" \notin cuts, Decide
  PROVE  LoweredInv'
<1>1. /\ jack \in Nat /\ upTicks \in Nat /\ timer \in Nat
      /\ offAge["JACK"] \in 0..(GapTicks + 1) /\ GapTicks \in Nat
      /\ last["JACK"] \in Dirs
  BY TimesAssumption DEF TypeOK, Bridges
<1>2. /\ pc = "commands" /\ pc' = "outputs" /\ Transition
      /\ UNCHANGED <<jack, last, offAge>>
  BY DEF Decide, relay
<1>3. /\ LoweredInv /\ offAge["JACK"] > 0
      /\ upTicks > 0 => jack <= upTicks + 1
  BY <1>2 DEF HomeInv, ClockedInv, PortInv
<1>4. CASE upTicks' = upTicks
  <2> SUFFICES ASSUME upTicks > 0 PROVE LoweredInv'
    BY <1>4 DEF LoweredInv
  <2>1. last["JACK"] = "OFF" \/ last["JACK"] = "REV"
    BY <1>1, <1>2, <1>3 DEF LoweredInv, Dirs
  <2>2. CASE state' = "JACK_DOWN"
    <3>1. CASE state = "JACK_DOWN" /\ timer' = timer
      BY <1>2, <1>3, <1>4, <2>1, <2>2, <3>1 DEF LoweredInv
    <3>2. CASE timer' = JackDownTicks(upTicks)
      <4>1. timer' \in Nat /\ jack <= timer' + 1
        BY <1>1, <1>3, <3>2, LoweredAsLong
      <4>2. /\ jack \in Nat /\ GapTicks \in Nat
            /\ offAge["JACK"] \in Nat /\ offAge["JACK"] > 0
        BY <1>1, <1>3
      <4>3. ASSUME NEW j \in Nat, NEW t \in Nat, NEW rest \in Nat, j <= t + 1
            PROVE  /\ rest > 0 => j <= t + rest
                   /\ j <= t + rest + 1
        BY <4>3
      <4>4. jack <= timer' + offAge["JACK"] /\ jack <= timer' + GapTicks + 1
        BY <4>1, <4>2, <4>3
      <4>5. QED
        BY <1>2, <1>4, <2>1, <2>2, <4>4 DEF LoweredInv
    <3>3. QED
      BY <1>2, <2>2, <3>1, <3>2, LiftClocked
  <2>3. CASE state' # "JACK_DOWN"
    BY <1>2, <1>4, <2>1, <2>3 DEF LoweredInv
  <2>4. QED
    BY <2>2, <2>3
<1>5. CASE upTicks' # upTicks
  <2>1. state \in Lifts /\ state' \in {"DRIVE_START_DELAY", "UNDO_JACK_START"}
    BY <1>2, <1>5, LiftClocked
  <2>2. QED
    BY <1>2, <2>1 DEF LoweredInv
<1>6. QED
  BY <1>4, <1>5

LEMMA OutputsLower ==
  ASSUME TypeOK, HomeInv, "retract" \notin cuts, SetOutputs, PortInv'
  PROVE  LoweredInv'
<1>1. /\ jack \in Nat /\ timer \in Nat /\ GapTicks \in Nat
      /\ offAge["JACK"] \in 0..(GapTicks + 1) /\ last["JACK"] \in Dirs
  BY TimesAssumption DEF TypeOK, Bridges
<1>2. /\ pc = "outputs" /\ pc' = "track" /\ UNCHANGED <<state, timer, upTicks, jack>>
      /\ last'["JACK"] = Granted(last["JACK"], Wanted["JACK"], offAge["JACK"], GapTicks)
      /\ offAge'["JACK"] = IF StampsOff(last["JACK"], Wanted["JACK"])
                             THEN 0 ELSE offAge["JACK"]
      /\ out' = last'
  BY DEF SetOutputs, machine, lift, Relays, Bridges
<1>3. LoweredInv /\ (upTicks > 0 => state \notin Lifts)
  BY DEF HomeInv, ClockedInv, Unraised
<1>4. upTicks > 0 => last'["JACK"] # "FWD"
  BY <1>2, <1>3 DEF PortInv
<1>5. ASSUME upTicks > 0, state = "JACK_DOWN"
      PROVE  \/ /\ last'["JACK"] = "OFF" /\ jack <= timer + offAge'["JACK"]
                /\ offAge'["JACK"] <= GapTicks
             \/ last'["JACK"] = "REV" /\ jack <= timer + GapTicks + 1
  <2>1. Wanted["JACK"] = "REV"
    BY <1>5, PortOfJack DEF Wanted, Raising, Lowering, Driving, Fluffing, Dirs
  <2>2. CASE last["JACK"] = "OFF"
    <3>1. jack <= timer + offAge["JACK"]
      BY <1>3, <1>5, <2>2 DEF LoweredInv
    <3>2. CASE offAge["JACK"] > GapTicks
      BY <1>1, <1>2, <2>1, <2>2, <3>1, <3>2 DEF Granted
    <3>3. CASE offAge["JACK"] <= GapTicks
      <4>1. last'["JACK"] = "OFF"
        BY <1>1, <1>2, <2>1, <2>2, <3>3 DEF Granted
      <4>2. offAge'["JACK"] = offAge["JACK"]
        BY <1>2, <2>2 DEF StampsOff
      <4>3. QED
        BY <3>1, <3>3, <4>1, <4>2
    <3>4. QED
      BY <1>1, <3>2, <3>3
  <2>3. CASE last["JACK"] = "REV"
    <3>1. last'["JACK"] = "REV"
      BY <1>2, <2>1, <2>3 DEF Granted
    <3>2. jack <= timer + GapTicks + 1
      BY <1>3, <1>5, <2>3 DEF LoweredInv
    <3>3. QED
      BY <3>1, <3>2
  <2>4. QED
    BY <1>3, <1>5, <2>2, <2>3 DEF LoweredInv
<1>6. QED
  BY <1>2, <1>4, <1>5 DEF LoweredInv

LEMMA HomeKept ==
  ASSUME JackUps \intersect Jogs = {},
         TypeOK, SettleInv, PosInv, HomeInv, [Next]_vars, SettleInv'
  PROVE  HomeInv'
<1>1. NotArmed(JackUps)'
  <2>1. "none" \notin JackUps
    BY DEF JackUps
  <2>2. QED
    BY <2>1, NeverSent DEF HomeInv
<1>2. PortInv'
  BY PortHolds DEF HomeInv
<1> SUFFICES ASSUME "retract" \notin cuts'
             PROVE  HeightInv' /\ ClockedInv' /\ LoweredInv'
  BY <1>1, <1>2 DEF HomeInv
<1>3. "retract" \notin cuts
  BY CutsAreKept, CutsElsewhere DEF Decide
<1>4. HeightInv' /\ ClockedInv'
  BY <1>3, HeightKept, ClocksKept
<1>5. LoweredInv'
  <2>1. CASE Tick \/ Decide \/ SetOutputs
    BY <1>2, <1>3, <2>1, TickLowers, DecideLowers, OutputsLower
  <2>2. ASSUME NEW cmd \in Cmds, NEW low \in LowBattery, Receive(cmd, low)
        PROVE  LoweredInv'
    <3>1. pc = "commands" /\ pc' = pc /\ UNCHANGED <<jack, last, offAge>>
      BY <2>2 DEF Receive, relay
    <3>2. CASE state' = state /\ UNCHANGED <<timer, upTicks>>
      BY <1>3, <3>1, <3>2 DEF HomeInv, LoweredInv
    <3>3. CASE upTicks' = 0
      BY <3>3 DEF LoweredInv
    <3>4. CASE state' # "JACK_DOWN" /\ upTicks' = upTicks
      BY <1>3, <3>1, <3>4 DEF HomeInv, LoweredInv
    <3>5. QED
      BY <2>2, <3>2, <3>3, <3>4, ReceiveClocks
  <2>3. CASE Track
    BY <1>3, <2>3 DEF Track, machine, lift, relay, plant, HomeInv, LoweredInv
  <2>4. CASE Others \/ UNCHANGED vars
    BY <1>3, <2>4, OthersQuiet DEF physical, relay, plant, lift, HomeInv, LoweredInv
  <2>5. QED
    BY <2>1, <2>2, <2>3, <2>4 DEF Next, Control
<1>6. QED
  BY <1>4, <1>5

(***************************************************************************)
(* The jack comes home, however often UNDO, STOP and START cut a move      *)
(* short and wherever the loop breaks, for any heights and times of the    *)
(* lift, unless the e-fuse of the jack ends the lowering or has cut a      *)
(* retract short, as long as nobody jogs the jack up or calibrates it, and *)
(* the pauses outlast the gap of the relay driver.                         *)
(***************************************************************************)
THEOREM JackIsBroughtHome ==
  ASSUME JackUps \intersect Jogs = {},
         "CAL_JACK_START" \notin Cmds, TransitionTicks > GapTicks,
         JackMax > 0, StartHeights \subseteq 0..(JackMax + 1)
  PROVE  Spec => JackComesHome
<1>1. Init => HomeInv
  <2> SUFFICES ASSUME Init PROVE HomeInv
    OBVIOUS
  <2>1. NotArmed(JackUps)
    BY DEF Init, NotArmed, NoJog, JackUps
  <2>2. PortInv
    BY DEF Init, PortInv, AllOff, Bridges
  <2>3. jack <= JackMax + 1
    BY TimesAssumption DEF Init
  <2>4. QED
    BY <2>1, <2>2, <2>3
    DEF Init, HomeInv, HeightInv, ClockedInv, LoweredInv, Unraised, Lifts
<1>2. TypeOK /\ SettleInv /\ PosInv /\ HomeInv /\ [Next]_vars /\ SettleInv' => HomeInv'
  BY HomeKept
<1>3. TypeOK /\ HomeInv /\ [Next]_vars =>
        [(state = "JACK_DOWN" /\ pc' = "outputs" /\ state' = "IDLE"
            /\ error = "OK" /\ upTicks > 0
            /\ ~Tripped("JACK") /\ "retract" \notin cuts)
           => jack <= GapTicks + 1]_vars
  <2> SUFFICES ASSUME TypeOK, HomeInv, [Next]_vars, state = "JACK_DOWN",
                      pc' = "outputs", state' = "IDLE", upTicks > 0,
                      ~Tripped("JACK"), "retract" \notin cuts
               PROVE  jack <= GapTicks + 1
    OBVIOUS
  <2>1. Decide
    <3>1. ~ \E cmd \in Cmds, low \in LowBattery : Receive(cmd, low)
      BY DEF Receive
    <3>2. QED
      BY <3>1, StateElsewhere
  <2>2. JackHome \/ timer = 0
    BY <2>1, LiftClocked DEF Decide
  <2>3. /\ jack \in Nat /\ GapTicks \in Nat /\ offAge["JACK"] \in 0..(GapTicks + 1)
    BY TimesAssumption DEF TypeOK, Bridges
  <2>4. jack <= timer + offAge["JACK"] \/ jack <= timer + GapTicks + 1
    BY DEF HomeInv, LoweredInv
  <2>5. QED
    BY <2>2, <2>3, <2>4 DEF JackHome
<1>4. Spec => []SettleInv
  BY SettleInvHolds
<1>5. Spec => []PosInv
  <2>1. "JACK_UP_FORCE" \notin Jogs
    BY DEF JackUps
  <2>2. QED
    BY <2>1, PosInvHolds
<1>6. QED
  BY <1>1, <1>2, <1>3, <1>4, <1>5, TypeCorrect, PTL DEF Spec, JackComesHome
=============================================================================
