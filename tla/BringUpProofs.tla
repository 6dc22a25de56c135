---------------------------- MODULE BringUpProofs ----------------------------
(***************************************************************************)
(* Proofs about BringUp, for every set of requests and pulses, every gap   *)
(* and every length of a pulse.                                            *)
(***************************************************************************)
EXTENDS BringUp, TLAPS

LEMMA AllOffType == AllOff \in [Bridges -> Dirs]
  BY DEF AllOff, Dirs

\* What the driver grants is a direction, whatever it remembers.
LEMMA GrantedType ==
  ASSUME NEW was \in Dirs, NEW want \in Dirs, NEW age, NEW gap
  PROVE  Granted(was, want, age, gap) \in Dirs
  BY DEF Granted, Dirs

LEMMA AgedType ==
  ASSUME NEW bound \in Nat, NEW age \in 0..(bound + 1)
  PROVE  Aged(age, bound) \in 0..(bound + 1)
  BY DEF Aged

-----------------------------------------------------------------------------
(***************************************************************************)
(* The types of the port, the driver's memory and both tasks.              *)
(***************************************************************************)
THEOREM TypeCorrect == Spec => []TypeOK
<1>1. Init => TypeOK
  <2> SUFFICES ASSUME Init PROVE TypeOK
    OBVIOUS
  <2>1. offAge \in [Bridges -> 0..(GapTicks + 1)]
    BY BringUpAssumption DEF Init
  <2>2. polls \in 0..MaxPolls /\ due \in 0..MaxDue
    BY BringUpAssumption DEF Init
  <2>3. QED
    BY <2>1, <2>2, AllOffType DEF Init, TypeOK, Steps
<1>2. TypeOK /\ [Next]_vars => TypeOK'
  <2> SUFFICES ASSUME TypeOK, [Next]_vars PROVE TypeOK'
    OBVIOUS
  <2> USE DEF TypeOK, control, console, pins, soft
  <2>1. CASE Tick
    <3>1. offAge' \in [Bridges -> 0..(GapTicks + 1)]
      BY <2>1, AgedType, BringUpAssumption DEF Tick
    <3>2. QED
      BY <2>1, <3>1 DEF Tick, Leaving
  <2>2. ASSUME NEW req \in Requests, DriveRelays(req) PROVE TypeOK'
    <3>1. req \in [Bridges -> Dirs]
      BY BringUpAssumption
    <3>2. granted' \in [Bridges -> Dirs]
      BY <2>2, <3>1, GrantedType DEF DriveRelays
    <3>3. offAge' \in [Bridges -> 0..(GapTicks + 1)]
      BY <2>2, BringUpAssumption DEF DriveRelays
    <3>4. QED
      BY <2>2, <3>2, <3>3 DEF DriveRelays
  <2>3. CASE StoreRelays
    BY <2>3 DEF StoreRelays, Dirs
  <2>4. CASE WriteRelays
    BY <2>4 DEF WriteRelays
  <2>12. CASE Sleeps
    BY <2>12 DEF Sleeps
  <2>5. CASE Command
    <3>1. CASE Begin \/ End \/ FactoryReset \/ Rail
      BY <2>5, <3>1, AllOffType DEF Begin, End, FactoryReset, Rail, Expand, Steps
    <3>2. ASSUME NEW pulse \in Pulses, NEW length \in 1..MaxPolls,
                 Relay(pulse, length)
          PROVE  TypeOK'
      BY <3>2, BringUpAssumption DEF Relay, Steps
    <3>3. QED
      BY <2>5, <3>1, <3>2 DEF Command
  <2>6. CASE Continue
    <3>1. ASSUME NEW from, NEW then \in Steps, NEW relays \in [Bridges -> Dirs],
                 Remember(from, then, relays) \/ Expand(from, then, relays)
          PROVE  TypeOK'
      BY <3>1 DEF Remember, Expand
    <3>2. CASE Poll
      BY <2>6, <3>2, BringUpAssumption DEF Poll, Stops, Steps
    <3>3. {"entered", "idle", "pulsed", "pulsing", "stopped", "left", "restart"}
            \subseteq Steps
      BY DEF Steps
    <3>4. QED
      BY <2>6, <3>1, <3>2, <3>3, AllOffType DEF Continue, Released
  <2>7. CASE Restart
    <3>1. offAge' \in [Bridges -> 0..(GapTicks + 1)]
      BY <2>7, BringUpAssumption DEF Restart
    <3>2. polls' \in 0..MaxPolls
      BY <2>7, BringUpAssumption DEF Restart
    <3>3. due' \in 0..MaxDue
      BY <2>7, BringUpAssumption DEF Restart
    <3>4. QED
      BY <2>7, <3>1, <3>2, <3>3, AllOffType DEF Restart, Steps
  <2>8. CASE PinsMove
    BY <2>8 DEF PinsMove
  <2>9. CASE SoftIdle
    <3>1. due' \in 0..MaxDue
      BY <2>9, BringUpAssumption DEF SoftIdle
    <3>2. QED
      BY <2>9, <3>1 DEF SoftIdle
  <2>10. CASE SoftWrites
    <3>1. due' \in 0..MaxDue
      BY <2>10, BringUpAssumption DEF SoftWrites
    <3>2. QED
      BY <2>10, <3>1, AllOffType DEF SoftWrites
  <2>11. CASE UNCHANGED vars
    BY <2>11 DEF vars
  <2>13. QED
    BY <2>1, <2>2, <2>3, <2>4, <2>5, <2>6, <2>7, <2>8, <2>9, <2>10, <2>11, <2>12
       DEF Next, Control
<1>3. QED
  BY <1>1, <1>2, PTL DEF Spec

-----------------------------------------------------------------------------
(***************************************************************************)
(* The tool has the port, and no tick was under way when it took it over,  *)
(* or a command of the tool has written it since.                          *)
(***************************************************************************)
Owned == ~raced /\ (active \/ con \in {"leaving", "left", "restart"})

\* Then no tick is under way now, ...
StandsAside == Owned => pc = "tick"

\* ... and what the port and the driver's memory hold is known from the step
\* the console is at: soft idle can only switch a pulse off.
PortInv ==
  Owned =>
    /\ con \in {"idle", "restart"} => last = AllOff /\ wire = AllOff
    /\ con \in {"entered", "left", "stopped"} => last = AllOff
    /\ con = "pulsed" => last = target
    /\ con \in {"pulsing", "stop"} =>
         last = target /\ (wire = target \/ (cut /\ wire = AllOff))

BenchInv == StandsAside /\ PortInv

(***************************************************************************)
(* In any interleaving of the two tasks and of soft idle, the tool's       *)
(* relays are its own, but for what a tick overlapping the taking or the   *)
(* leaving of the port does before the tool's next write.                  *)
(***************************************************************************)
THEOREM BenchOwns == Spec => []BenchOwnsRelays
<1>1. Init => BenchInv
  BY DEF Init, BenchInv, StandsAside, PortInv, Owned
<1>2. BenchInv /\ [Next]_vars => BenchInv'
  <2> SUFFICES ASSUME BenchInv, [Next]_vars PROVE BenchInv'
    OBVIOUS
  <2> USE DEF BenchInv, StandsAside, PortInv, Owned
  \* A tick that begins while the tool is on its way out overlaps it.
  <2>1. CASE Tick
    BY <2>1 DEF Tick, Skips, Leaving, console, soft
  \* The rest of a tick finds the port not owned, and leaves it so.
  <2>2. CASE Sleeps \/ StoreRelays \/ WriteRelays \/ \E req \in Requests : DriveRelays(req)
    <3>1. pc # "tick" /\ UNCHANGED <<active, con, raced>>
      BY <2>2 DEF Sleeps, StoreRelays, WriteRelays, DriveRelays, console
    <3>2. QED
      BY <3>1
  <2>3. CASE Command
    <3>1. CASE Begin
      BY <3>1 DEF Begin, control, soft
    <3>2. CASE End
      BY <3>2 DEF End, control, soft
    <3>3. CASE FactoryReset
      BY <3>3 DEF FactoryReset, control, soft
    <3>4. ASSUME NEW pulse, NEW length, Relay(pulse, length) PROVE BenchInv'
      BY <3>4 DEF Relay, control, soft
    <3>5. CASE Rail
      BY <3>5 DEF Rail, Expand, control
    <3>6. QED
      BY <2>3, <3>1, <3>2, <3>3, <3>4, <3>5 DEF Command
  <2>4. CASE Continue
    <3>1. CASE Remember("entering", "entered", AllOff)
      BY <3>1 DEF Remember, control, soft
    <3>2. CASE Expand("entered", "idle", AllOff)
      BY <3>2 DEF Expand, control
    <3>3. CASE Remember("pulse", "pulsed", target)
      BY <3>3 DEF Remember, control, soft
    <3>4. CASE Expand("pulsed", "pulsing", target)
      BY <3>4 DEF Expand, control
    <3>5. CASE Poll
      BY <3>5 DEF Poll, control, soft
    <3>6. CASE Remember("stop", "stopped", AllOff)
      BY <3>6 DEF Remember, control, soft
    <3>7. CASE Expand("stopped", "idle", Released)
      BY <3>7 DEF Expand, Released, control
    <3>8. CASE Remember("leaving", "left", AllOff)
      BY <3>8 DEF Remember, control, soft
    <3>9. CASE Expand("left", "restart", AllOff)
      BY <3>9 DEF Expand, control
    <3>10. QED
      BY <2>4, <3>1, <3>2, <3>3, <3>4, <3>5, <3>6, <3>7, <3>8, <3>9 DEF Continue
  <2>5. CASE Restart
    BY <2>5 DEF Restart
  <2>6. CASE PinsMove \/ UNCHANGED vars
    BY <2>6 DEF PinsMove, vars, control, console, soft
  \* Soft idle does not ask for the tool; it switches off what runs.
  <2>7. CASE SoftIdle
    BY <2>7 DEF SoftIdle, control, console
  <2>8. CASE SoftWrites
    BY <2>8 DEF SoftWrites, control, console
  <2>9. QED
    BY <2>1, <2>2, <2>3, <2>4, <2>5, <2>6, <2>7, <2>8 DEF Next, Control
<1>3. BenchInv => BenchOwnsRelays
  BY DEF BenchInv, StandsAside, PortInv, Owned, BenchOwnsRelays, Settled
<1>4. QED
  BY <1>1, <1>2, <1>3, PTL DEF Spec
=============================================================================
