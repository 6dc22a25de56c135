------------------------- MODULE MotorRelaysProofs -------------------------
(***************************************************************************)
(* Theorems about MotorRelays, for every gap, debounce and request set.    *)
(***************************************************************************)
EXTENDS MotorRelays, TLAPS

\* What the control task has decided but not yet written respects the loop.
InterlockInv ==
  /\ DriveNeedsSafety
  /\ (pc = "write" /\ ~isSafe) => last["DRIVE"] = "OFF"

\* A sleeping device with a motor on is about to be woken by its own tick.
AsleepInv ==
  /\ (idle /\ sleeper = "none") => (out = AllOff \/ (pc = "feed" /\ active))
  /\ pc = "write" => (last = AllOff \/ active)

(***************************************************************************)
(* The driver's stamp off_us never claims more rest than the bridge has    *)
(* physically had.  It is not kept while the loop is broken, when DRIVE is *)
(* dropped without a stamp: then the age of the closed loop bounds it.     *)
(***************************************************************************)
GapInvOf(b) ==
  /\ out[b] # "OFF" => out[b] = ran[b]
  /\ (pc # "write" /\ out[b] # "OFF") => last[b] = out[b]
  /\ (pc # "write" /\ last[b] # "OFF") => ran[b] = last[b]
  /\ (pc = "write" /\ last[b] # "OFF" /\ ran[b] # last[b])
       => (out[b] = "OFF" /\ (ran[b] = "OFF" \/ rest[b] > GapTicks))
  /\ (pc = "write" /\ last[b] = "OFF" /\ out[b] # "OFF") => offAge[b] = 0
  /\ (last[b] = "OFF" /\ ran[b] # "OFF" /\ (isSafe \/ b # "DRIVE"))
       => offAge[b] <= rest[b]

BrokenInv == ~isSafe => (lowAge <= rest["DRIVE"] \/ rest["DRIVE"] > GapTicks)

GapInv == BrokenInv /\ \A b \in Bridges : GapInvOf(b)

-----------------------------------------------------------------------------
\* The transition logic of drive_relays answers with the request or with "off".
LEMMA GrantedIsRequestOrOff ==
  ASSUME NEW was \in Dirs, NEW want \in Dirs, NEW age \in Int, NEW gap \in Int
  PROVE  /\ Granted(was, want, age, gap) \in Dirs
         /\ Granted(was, want, age, gap) \in {want, "OFF"}
         /\ (Granted(was, want, age, gap) # "OFF" /\ want # was)
              => (was = "OFF" /\ age > gap)
  BY DEF Granted, Dirs

\* A request for nothing is granted as it stands, safe or not.
LEMMA QuietRequest ==
  ASSUME TypeOK
  PROVE  Interlocked(Grants(AllOff)) = AllOff
  BY DEF Interlocked, Grants, Granted, AllOff, Bridges

\* What drive_relays remembers is the request of the tick or "off", bridge by
\* bridge, and DRIVE is "off" while the loop is broken.
LEMMA InterlockedType ==
  ASSUME TypeOK, NEW req \in Requests
  PROVE  /\ Interlocked(Grants(req)) \in [Bridges -> Dirs]
         /\ ~isSafe => Interlocked(Grants(req))["DRIVE"] = "OFF"
         /\ \A b \in Bridges :
              (isSafe \/ b # "DRIVE")
                => Interlocked(Grants(req))[b]
                     = Granted(last[b], req[b], offAge[b], GapTicks)
<1>1. req \in [Bridges -> Dirs]
  BY RequestsAssumption
<1>2. Grants(req) \in [Bridges -> Dirs]
  BY <1>1 DEF Grants, Granted, TypeOK, Dirs
<1>3. "DRIVE" \in Bridges /\ "OFF" \in Dirs
  BY DEF Bridges, Dirs
<1>4. Interlocked(Grants(req)) \in [Bridges -> Dirs]
  BY <1>2, <1>3 DEF Interlocked
<1>5. ~isSafe => Interlocked(Grants(req))["DRIVE"] = "OFF"
  BY <1>2, <1>3 DEF Interlocked
<1>6. ASSUME NEW b \in Bridges, isSafe \/ b # "DRIVE"
      PROVE  Interlocked(Grants(req))[b]
               = Granted(last[b], req[b], offAge[b], GapTicks)
  BY <1>2, <1>6 DEF Interlocked, Grants
<1>7. QED
  BY <1>4, <1>5, <1>6

\* Writing the port keeps the types of what it changes.
LEMMA SetRelaysType ==
  ASSUME TypeOK, NEW r \in [Bridges -> Dirs], NEW p \in BOOLEAN, SetRelays(r, p)
  PROVE  /\ out' \in [Bridges -> Dirs]
         /\ rail' \in BOOLEAN
         /\ ran' \in [Bridges -> Dirs]
         /\ rest' \in [Bridges -> 0..(GapTicks + 1)]
  BY TicksAssumption DEF SetRelays, TypeOK

LEMMA AllOffType == AllOff \in [Bridges -> Dirs]
  BY DEF AllOff, Dirs

(***************************************************************************)
(* The variables of the driver, the debouncer and the soft idle calls keep *)
(* their types: no age runs past its bound.                                *)
(***************************************************************************)
THEOREM TypeCorrect == Spec => []TypeOK
<1>1. Init => TypeOK
  <2> SUFFICES ASSUME Init PROVE TypeOK
    OBVIOUS
  <2>1. offAge \in [Bridges -> 0..(GapTicks + 1)]
    BY DEF Init
  <2>2. lowAge \in -1..(MakeTicks + 1) /\ highAge \in -1..(BreakTicks + 1)
    BY TicksAssumption DEF Init
  <2>3. rest \in [Bridges -> 0..(GapTicks + 1)]
    BY TicksAssumption DEF Init
  <2>4. QED
    BY <2>1, <2>2, <2>3, AllOffType DEF Init, TypeOK
<1>2. TypeOK /\ [Next]_vars => TypeOK'
  <2> SUFFICES ASSUME TypeOK, [Next]_vars PROVE TypeOK'
    OBVIOUS
  <2>1. CASE SensorsCheck
    <3>1. lowAge' \in -1..(MakeTicks + 1) /\ highAge' \in -1..(BreakTicks + 1)
      BY <2>1, TicksAssumption DEF SensorsCheck, LowNow, HighNow, Aged, TypeOK
    <3>2. offAge' \in [Bridges -> 0..(GapTicks + 1)]
      BY <2>1, TicksAssumption DEF SensorsCheck, Aged, TypeOK
    <3>3. rest' \in [Bridges -> 0..(GapTicks + 1)]
      BY <2>1, TicksAssumption DEF SensorsCheck, Aged, TypeOK
    <3>4. out' \in [Bridges -> Dirs] /\ ran' \in [Bridges -> Dirs]
      BY <2>1, AllOffType DEF SensorsCheck, TypeOK
    <3>5. QED
      BY <2>1, <3>1, <3>2, <3>3, <3>4 DEF SensorsCheck, TypeOK
  <2>2. ASSUME NEW req \in Requests, NEW feeds \in BOOLEAN, DriveRelays(req, feeds)
        PROVE  TypeOK'
    <3>1. last' \in [Bridges -> Dirs]
      BY <2>2, InterlockedType DEF DriveRelays, TypeOK
    <3>2. offAge' \in [Bridges -> 0..(GapTicks + 1)]
      BY <2>2, TicksAssumption DEF DriveRelays, TypeOK
    <3>3. QED
      BY <2>2, <3>1, <3>2 DEF DriveRelays, safety, hist, TypeOK
  <2>3. CASE WriteRelays
    <3>1. last \in [Bridges -> Dirs]
      BY DEF TypeOK
    <3>2. QED
      BY <2>3, <3>1, SetRelaysType DEF WriteRelays, safety, TypeOK
  <2>4. CASE Feed
    BY <2>4 DEF Feed, safety, hist, TypeOK
  <2>5. CASE FeedRail
    BY <2>5, AllOffType, SetRelaysType DEF FeedRail, safety, TypeOK
  <2>6. CASE SoftIdleEnter
    BY <2>6 DEF SoftIdleEnter, safety, hist, TypeOK
  <2>7. CASE SoftIdleSleep
    BY <2>7, AllOffType, SetRelaysType DEF SoftIdleSleep, safety, TypeOK
  <2>8. CASE SoftIdleExit
    BY <2>8 DEF SoftIdleExit, safety, hist, TypeOK
  <2>9. CASE SoftIdleWake
    BY <2>9, AllOffType, SetRelaysType DEF SoftIdleWake, safety, TypeOK
  <2>10. CASE PinMoves
    BY <2>10 DEF PinMoves, safety, hist, TypeOK
  <2>11. CASE UNCHANGED vars
    BY <2>11 DEF vars, safety, hist, TypeOK
  <2>12. QED
    BY <2>1, <2>2, <2>3, <2>4, <2>5, <2>6, <2>7, <2>8, <2>9, <2>10, <2>11
       DEF Next, Control, Others
<1>3. QED
  BY <1>1, <1>2, PTL DEF Spec

-----------------------------------------------------------------------------
(***************************************************************************)
(* Whatever is written behind its back, and wherever the soft idle test    *)
(* falls, the driver never believes off a bridge that runs.                *)
(***************************************************************************)
THEOREM MemoryIsTruthful == Spec => []MemoryCoversMotors
<1>1. Init => MemoryCoversMotors
  BY DEF Init, MemoryCoversMotors, AllOff
<1>2. MemoryCoversMotors /\ [Next]_vars => MemoryCoversMotors'
  <2> SUFFICES ASSUME MemoryCoversMotors, [Next]_vars, pc' # "write",
                      NEW b \in Bridges
               PROVE  out'[b] \in {"OFF", last'[b]}
    BY DEF MemoryCoversMotors
  <2>0. AllOff[b] = "OFF"
    BY DEF AllOff
  <2>1. CASE SensorsCheck
    BY <2>0, <2>1 DEF SensorsCheck, MemoryCoversMotors
  <2>2. ASSUME NEW req \in Requests, NEW feeds \in BOOLEAN, DriveRelays(req, feeds)
        PROVE  out'[b] \in {"OFF", last'[b]}
    BY <2>2 DEF DriveRelays, MemoryCoversMotors
  <2>3. CASE WriteRelays
    BY <2>3 DEF WriteRelays, SetRelays
  <2>4. CASE Feed
    BY <2>4 DEF Feed, MemoryCoversMotors
  <2>5. CASE FeedRail
    BY <2>0, <2>5 DEF FeedRail, SetRelays
  <2>6. CASE Others
    BY <2>0, <2>6 DEF Others, SoftIdleEnter, SoftIdleSleep, SoftIdleExit,
                      SoftIdleWake, SetRelays, MemoryCoversMotors
  <2>7. CASE PinMoves
    BY <2>7 DEF PinMoves, MemoryCoversMotors
  <2>8. CASE UNCHANGED vars
    BY <2>8 DEF vars, MemoryCoversMotors
  <2>9. QED
    BY <2>1, <2>2, <2>3, <2>4, <2>5, <2>6, <2>7, <2>8 DEF Next, Control
<1>3. QED
  BY <1>1, <1>2, PTL DEF Spec

\* The interlock, together with what is decided but not yet written.
LEMMA InterlockHolds == Spec => []InterlockInv
<1>1. Init => InterlockInv
  BY DEF Init, InterlockInv, DriveNeedsSafety, AllOff, Bridges
<1>2. TypeOK /\ InterlockInv /\ [Next]_vars => InterlockInv'
  <2> SUFFICES ASSUME TypeOK, InterlockInv, [Next]_vars PROVE InterlockInv'
    OBVIOUS
  <2> USE DEF InterlockInv, DriveNeedsSafety
  <2>0. AllOff["DRIVE"] = "OFF"
    BY DEF AllOff, Bridges
  <2>1. CASE SensorsCheck
    BY <2>0, <2>1 DEF SensorsCheck, Makes, Breaks
  <2>2. ASSUME NEW req \in Requests, NEW feeds \in BOOLEAN, DriveRelays(req, feeds)
        PROVE  InterlockInv'
    BY <2>2, InterlockedType DEF DriveRelays, safety
  <2>3. CASE WriteRelays
    BY <2>3 DEF WriteRelays, SetRelays, safety
  <2>4. CASE Feed
    BY <2>4 DEF Feed, safety, hist
  <2>5. CASE FeedRail
    BY <2>0, <2>5 DEF FeedRail, SetRelays, safety
  <2>6. CASE Others
    BY <2>0, <2>6 DEF Others, SoftIdleEnter, SoftIdleSleep, SoftIdleExit,
                      SoftIdleWake, SetRelays, safety, hist
  <2>7. CASE PinMoves
    BY <2>7 DEF PinMoves, safety, hist
  <2>8. CASE UNCHANGED vars
    BY <2>8 DEF vars, safety, hist
  <2>9. QED
    BY <2>1, <2>2, <2>3, <2>4, <2>5, <2>6, <2>7, <2>8 DEF Next, Control
<1>3. QED
  BY <1>1, <1>2, TypeCorrect, PTL DEF Spec

(***************************************************************************)
(* Whatever the state machine asks for, and however sleeps and wakes cut   *)
(* into the driver, the travel motor is off while the loop counts as       *)
(* broken.                                                                 *)
(***************************************************************************)
THEOREM DriveIsSafe == Spec => []DriveNeedsSafety
<1>1. InterlockInv => DriveNeedsSafety
  BY DEF InterlockInv
<1>2. QED
  BY <1>1, InterlockHolds, PTL

(***************************************************************************)
(* Soft idle kills the motors, and keeps them off until a tick that wants  *)
(* one ends it, although drive_relays tests the flag before it writes.     *)
(***************************************************************************)
THEOREM SleepStopsMotors == Spec => []AsleepNoMotor
<1>1. Init => AsleepInv
  BY DEF Init, AsleepInv
<1>2. TypeOK /\ AsleepInv /\ [Next]_vars => AsleepInv'
  <2> SUFFICES ASSUME TypeOK, AsleepInv, [Next]_vars PROVE AsleepInv'
    OBVIOUS
  <2> USE DEF AsleepInv
  <2>1. CASE SensorsCheck
    BY <2>1 DEF SensorsCheck
  <2>2. ASSUME NEW req \in Requests, NEW feeds \in BOOLEAN, DriveRelays(req, feeds)
        PROVE  AsleepInv'
    <3>1. CASE idle
      BY <2>2, <3>1 DEF DriveRelays, hist
    <3>2. CASE ~idle
      BY <2>2, <3>2, QuietRequest DEF DriveRelays, hist
    <3>3. QED
      BY <3>1, <3>2
  <2>3. CASE WriteRelays
    BY <2>3 DEF WriteRelays, SetRelays
  <2>4. CASE Feed
    BY <2>4 DEF Feed
  <2>5. CASE FeedRail
    BY <2>5 DEF FeedRail, SetRelays
  <2>6. CASE Others
    BY <2>6 DEF Others, SoftIdleEnter, SoftIdleSleep, SoftIdleExit,
                SoftIdleWake, SetRelays
  <2>7. CASE PinMoves
    BY <2>7 DEF PinMoves
  <2>8. CASE UNCHANGED vars
    BY <2>8 DEF vars
  <2>9. QED
    BY <2>1, <2>2, <2>3, <2>4, <2>5, <2>6, <2>7, <2>8 DEF Next, Control
<1>3. AsleepInv => AsleepNoMotor
  BY DEF AsleepInv, AsleepNoMotor
<1>4. QED
  BY <1>1, <1>2, <1>3, TypeCorrect, PTL DEF Spec

-----------------------------------------------------------------------------
\* Switching every bridge off keeps the books of the gap: nothing is running,
\* and a bridge that was running had its stamp made by drive_relays.
LEMMA SwitchOffKeepsGap ==
  ASSUME TypeOK, DriveNeedsSafety, GapInv, NEW p \in BOOLEAN,
         SetRelays(AllOff, p),
         UNCHANGED <<safety, last, offAge>>,
         pc' = pc \/ (pc # "write" /\ pc' # "write")
  PROVE  GapInv'
<1>1. "DRIVE" \in Bridges /\ AllOff["DRIVE"] = "OFF"
  BY DEF AllOff, Bridges
<1>2. BrokenInv'
  BY <1>1 DEF BrokenInv, GapInv, DriveNeedsSafety, SetRelays, safety
<1>3. ASSUME NEW b \in Bridges PROVE GapInvOf(b)'
  <2>1. GapInvOf(b) /\ AllOff[b] = "OFF"
    BY DEF GapInv, AllOff
  <2>2. out'[b] = "OFF" /\ ran'[b] = ran[b]
    BY <2>1 DEF SetRelays
  <2>3. rest'[b] = IF out[b] = "OFF" THEN rest[b] ELSE 0
    BY <2>1 DEF SetRelays
  <2>4. offAge[b] \in Nat /\ rest[b] \in Nat
    BY TicksAssumption DEF TypeOK
  <2>5. QED
    BY <2>1, <2>2, <2>3, <2>4 DEF GapInvOf, safety
<1>4. QED
  BY <1>2, <1>3 DEF GapInv

\* A tick of the debouncer and of every stopwatch.  The loop counts as made
\* only after it has been closed for longer than the gap.
LEMMA SensorsCheckKeepsGap ==
  ASSUME MakeTicks > GapTicks, TypeOK, DriveNeedsSafety, GapInv, SensorsCheck
  PROVE  GapInv'
<1>1. "DRIVE" \in Bridges
  BY DEF Bridges
<1>2. lowAge \in Int /\ rest["DRIVE"] \in 0..(GapTicks + 1)
  BY <1>1 DEF TypeOK
<1>3. \A b \in Bridges : rest'[b] \in {Aged(rest[b], GapTicks), 0}
  BY DEF SensorsCheck
<1>4. ~Breaks => \A b \in Bridges : rest'[b] = Aged(rest[b], GapTicks)
  BY DEF SensorsCheck
<1>5. BrokenInv'
  <2>1. CASE Breaks
    <3>1. lowAge' = -1
      BY <2>1 DEF SensorsCheck, Breaks
    <3>2. rest'["DRIVE"] >= 0
      BY <1>1, <1>2, <1>3, TicksAssumption DEF Aged
    <3>3. QED
      BY <3>1, <3>2, <1>1, <1>2, <1>3, TicksAssumption DEF BrokenInv, Aged
  <2>2. CASE ~Breaks
    <3>1. rest'["DRIVE"] = Aged(rest["DRIVE"], GapTicks)
      BY <2>2, <1>1, <1>4
    <3>2. ~isSafe' => ~isSafe
      BY <2>2 DEF SensorsCheck
    <3>3. lowAge' \in {0, -1, Aged(lowAge, MakeTicks)}
      BY DEF SensorsCheck, LowNow
    <3>4. QED
      BY <3>1, <3>2, <3>3, <1>2, TicksAssumption DEF BrokenInv, GapInv, Aged
  <2>3. QED
    BY <2>1, <2>2
<1>6. ASSUME NEW b \in Bridges PROVE GapInvOf(b)'
  <2>1. GapInvOf(b)
    BY DEF GapInv
  <2>2. offAge[b] \in 0..(GapTicks + 1) /\ rest[b] \in 0..(GapTicks + 1)
    BY DEF TypeOK
  <2>3. offAge'[b] = Aged(offAge[b], GapTicks)
    BY DEF SensorsCheck
  <2>4. pc = "sense" /\ pc' = "drive" /\ last' = last /\ ran' = ran
    BY DEF SensorsCheck
  <2>5. out'[b] = out[b] \/ out'[b] = "OFF"
    BY DEF SensorsCheck, AllOff
  <2>6. ASSUME last[b] = "OFF", ran[b] # "OFF", isSafe' \/ b # "DRIVE"
        PROVE  offAge'[b] <= rest'[b]
    <3>1. out[b] = "OFF"
      BY <2>1, <2>4, <2>6 DEF GapInvOf
    <3>2. rest'[b] = Aged(rest[b], GapTicks)
      BY <3>1 DEF SensorsCheck
    <3>3. CASE isSafe \/ b # "DRIVE"
      BY <2>1, <2>2, <2>3, <2>6, <3>2, <3>3, TicksAssumption DEF GapInvOf, Aged
    <3>4. CASE ~isSafe /\ b = "DRIVE"
      <4>1. Makes
        BY <2>6, <3>4 DEF SensorsCheck, Breaks
      <4>2. lowAge >= GapTicks
        BY <4>1, <1>2, TicksAssumption DEF Makes, LowNow, Aged
      <4>3. rest[b] >= GapTicks
        BY <4>2, <3>4, <1>2, TicksAssumption DEF GapInv, BrokenInv
      <4>4. QED
        BY <4>3, <2>2, <2>3, <3>2, TicksAssumption DEF Aged
    <3>5. QED
      BY <3>3, <3>4
  <2>7. QED
    BY <2>1, <2>4, <2>5, <2>6 DEF GapInvOf
<1>7. QED
  BY <1>5, <1>6 DEF GapInv

\* The transition logic lets a bridge run only when its stamp is old enough,
\* and stamps every bridge it is about to switch off.
LEMMA DriveRelaysKeepsGap ==
  ASSUME TypeOK, DriveNeedsSafety, GapInv,
         NEW req \in Requests, NEW feeds \in BOOLEAN, DriveRelays(req, feeds)
  PROVE  GapInv'
<1>1. BrokenInv'
  BY DEF DriveRelays, GapInv, BrokenInv, safety, hist
<1>2. ASSUME NEW b \in Bridges PROVE GapInvOf(b)'
  <2>1. GapInvOf(b)
    BY DEF GapInv
  <2>2. /\ offAge[b] \in Int /\ rest[b] \in Nat
        /\ last[b] \in Dirs /\ req[b] \in Dirs
    BY RequestsAssumption, TicksAssumption DEF TypeOK
  <2>3. offAge'[b] = IF StampsOff(last[b], req[b]) THEN 0 ELSE offAge[b]
    BY DEF DriveRelays
  <2>4. pc = "drive" /\ UNCHANGED <<isSafe, out, ran, rest>>
    BY DEF DriveRelays, safety, hist
  <2>5. CASE idle
    <3>1. pc' = "feed" /\ last' = last
      BY <2>5 DEF DriveRelays
    <3>2. QED
      BY <2>1, <2>2, <2>3, <2>4, <3>1 DEF GapInvOf
  <2>6. CASE ~idle
    <3>1. pc' = "write" /\ last' = Interlocked(Grants(req))
      BY <2>6 DEF DriveRelays
    <3>2. (isSafe \/ b # "DRIVE")
            => last'[b] = Granted(last[b], req[b], offAge[b], GapTicks)
      BY <3>1, InterlockedType
    <3>3. (~isSafe /\ b = "DRIVE") => last'[b] = "OFF" /\ out[b] = "OFF"
      BY <3>1, InterlockedType DEF DriveNeedsSafety
    <3>4. ASSUME last'[b] # "OFF", ran[b] # last'[b]
          PROVE  out[b] = "OFF" /\ (ran[b] = "OFF" \/ rest[b] > GapTicks)
      BY <2>1, <2>2, <2>4, <3>2, <3>3, <3>4, TicksAssumption DEF GapInvOf, Granted
    <3>5. ASSUME last'[b] = "OFF", out[b] # "OFF" PROVE offAge'[b] = 0
      BY <2>1, <2>2, <2>3, <2>4, <3>2, <3>3, <3>5 DEF GapInvOf, Granted, StampsOff
    <3>6. ASSUME last'[b] = "OFF", ran[b] # "OFF", isSafe \/ b # "DRIVE"
          PROVE  offAge'[b] <= rest[b]
      BY <2>1, <2>2, <2>3, <3>2, <3>6 DEF GapInvOf, Granted, StampsOff
    <3>7. QED
      BY <2>1, <2>4, <3>1, <3>4, <3>5, <3>6 DEF GapInvOf
  <2>7. QED
    BY <2>5, <2>6
<1>3. QED
  BY <1>1, <1>2 DEF GapInv

\* The write carries out what was decided.
LEMMA WriteRelaysKeepsGap ==
  ASSUME TypeOK, DriveNeedsSafety, InterlockInv, GapInv, WriteRelays
  PROVE  GapInv'
<1>1. "DRIVE" \in Bridges
  BY DEF Bridges
<1>2. BrokenInv'
  BY <1>1 DEF WriteRelays, SetRelays, BrokenInv, GapInv, InterlockInv,
              DriveNeedsSafety, safety
<1>3. ASSUME NEW b \in Bridges PROVE GapInvOf(b)'
  <2>1. GapInvOf(b) /\ pc = "write" /\ pc' = "feed"
    BY DEF GapInv, WriteRelays
  <2>2. out'[b] = last[b] /\ UNCHANGED <<last, offAge, isSafe>>
    BY DEF WriteRelays, SetRelays, safety
  <2>3. /\ ran'[b] = IF last[b] = "OFF" THEN ran[b] ELSE last[b]
        /\ rest'[b] = IF last[b] = "OFF" /\ out[b] # "OFF" THEN 0 ELSE rest[b]
    BY DEF WriteRelays, SetRelays
  <2>4. offAge[b] \in Nat /\ rest[b] \in Nat
    BY TicksAssumption DEF TypeOK
  <2>5. QED
    BY <2>1, <2>2, <2>3, <2>4 DEF GapInvOf
<1>4. QED
  BY <1>2, <1>3 DEF GapInv

\* The books of the gap are kept by every step.
LEMMA GapHolds == ASSUME MakeTicks > GapTicks PROVE Spec => []GapInv
<1>1. Init => GapInv
  <2> SUFFICES ASSUME Init PROVE GapInv
    OBVIOUS
  <2>1. ASSUME NEW b \in Bridges PROVE GapInvOf(b)
    BY <2>1 DEF Init, GapInvOf, AllOff
  <2>2. QED
    BY <2>1 DEF Init, GapInv, BrokenInv
<1>2. TypeOK /\ InterlockInv /\ GapInv /\ [Next]_vars => GapInv'
  <2> SUFFICES ASSUME TypeOK, InterlockInv, GapInv, [Next]_vars PROVE GapInv'
    OBVIOUS
  <2>0. DriveNeedsSafety
    BY DEF InterlockInv
  <2>1. CASE SensorsCheck
    BY <2>0, <2>1, SensorsCheckKeepsGap
  <2>2. ASSUME NEW req \in Requests, NEW feeds \in BOOLEAN, DriveRelays(req, feeds)
        PROVE  GapInv'
    BY <2>0, <2>2, DriveRelaysKeepsGap
  <2>3. CASE WriteRelays
    BY <2>0, <2>3, WriteRelaysKeepsGap
  <2>4. CASE Feed
    BY <2>4 DEF Feed, GapInv, GapInvOf, BrokenInv, safety, hist
  <2>5. CASE FeedRail
    BY <2>0, <2>5, SwitchOffKeepsGap DEF FeedRail
  <2>6. CASE SoftIdleEnter
    BY <2>6 DEF SoftIdleEnter, GapInv, GapInvOf, BrokenInv, safety, hist
  <2>7. CASE SoftIdleSleep
    BY <2>0, <2>7, SwitchOffKeepsGap DEF SoftIdleSleep
  <2>8. CASE SoftIdleExit
    BY <2>8 DEF SoftIdleExit, GapInv, GapInvOf, BrokenInv, safety, hist
  <2>9. CASE SoftIdleWake
    BY <2>0, <2>9, SwitchOffKeepsGap DEF SoftIdleWake
  <2>10. CASE PinMoves
    BY <2>10 DEF PinMoves, GapInv, GapInvOf, BrokenInv, safety, hist
  <2>11. CASE UNCHANGED vars
    BY <2>11 DEF vars, GapInv, GapInvOf, BrokenInv, safety, hist
  <2>12. QED
    BY <2>1, <2>2, <2>3, <2>4, <2>5, <2>6, <2>7, <2>8, <2>9, <2>10, <2>11
       DEF Next, Control, Others
<1>3. QED
  BY <1>1, <1>2, TypeCorrect, InterlockHolds, PTL DEF Spec

(***************************************************************************)
(* If the loop takes longer to be believed than a bridge takes to settle,  *)
(* no motor is reversed before its bridge has been off for the gap.        *)
(***************************************************************************)
THEOREM ReversalIsSettled ==
  ASSUME MakeTicks > GapTicks PROVE Spec => ReversalSettled
<1>1. TypeOK /\ GapInv /\ [Next]_vars
        => [\A b \in Bridges : Opposed(ran[b], out'[b]) => rest[b] > GapTicks]_vars
  <2> SUFFICES ASSUME TypeOK, GapInv, [Next]_vars, NEW b \in Bridges,
                      Opposed(ran[b], out'[b])
               PROVE  rest[b] > GapTicks
    OBVIOUS
  <2>1. GapInvOf(b) /\ AllOff[b] = "OFF"
    BY DEF GapInv, AllOff
  <2>2. ran[b] # out'[b] /\ ran[b] # "OFF" /\ out'[b] # "OFF"
    BY DEF Opposed
  <2>3. ~(out'[b] = out[b] \/ out'[b] = AllOff[b])
    BY <2>1, <2>2 DEF GapInvOf
  <2>4. CASE WriteRelays
    BY <2>1, <2>2, <2>3, <2>4 DEF WriteRelays, SetRelays, GapInvOf
  <2>5. CASE ~WriteRelays
    <3>1. out' = out \/ out' = AllOff
      BY <2>5 DEF Next, Control, Others, SensorsCheck, DriveRelays, Feed,
                  FeedRail, SoftIdleEnter, SoftIdleSleep, SoftIdleExit,
                  SoftIdleWake, PinMoves, SetRelays, vars
    <3>2. QED
      BY <2>3, <3>1
  <2>6. QED
    BY <2>4, <2>5
<1>2. QED
  BY <1>1, GapHolds, TypeCorrect, PTL DEF Spec, ReversalSettled
=============================================================================
