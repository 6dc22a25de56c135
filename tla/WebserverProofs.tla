--------------------------- MODULE WebserverProofs ---------------------------
(***************************************************************************)
(* Theorems about the two parts that meet in webserver.c: the session of   *)
(* the page (WebSession), for any number of sockets, frames under way and  *)
(* pushes a socket can hold, and the firmware that is uploaded and started *)
(* (BootGuard), for every threshold above one, every set of images that    *)
(* may be uploaded and any number of power cuts.                           *)
(***************************************************************************)
EXTENDS WebSession, BootGuard, SequenceTheorems, FiniteSetTheorems, TLAPS

-----------------------------------------------------------------------------
(***************************************************************************)
(* THE SESSION.                                                            *)
(***************************************************************************)
Last(q) == q[Len(q)]

LEMMA LastAppended ==
  ASSUME NEW q \in Seq(Frames), NEW f \in Frames
  PROVE  /\ Append(q, f) \in Seq(Frames) /\ Append(q, f) # << >>
         /\ Last(Append(q, f)) = f
  BY DEF Last

\* The last frame of a queue stays last until it is taken, and is taken alone.
LEMMA LastOfTail ==
  ASSUME NEW q \in Seq(Frames), q # << >>
  PROVE  /\ Tail(q) \in Seq(Frames)
         /\ Tail(q) # << >> => Last(Tail(q)) = Last(q)
         /\ Tail(q) = << >> => Last(q) = Head(q)
<1> DEFINE m == Len(q) - 1
<1>1. /\ Len(q) \in Nat \ {0} /\ Tail(q) \in Seq(Frames) /\ Len(Tail(q)) = m
      /\ \A i \in 1..m : Tail(q)[i] = q[i + 1]
      /\ Len(Tail(q)) = 0 <=> Tail(q) = << >>
  BY HeadTailProperties, EmptySeq
<1>2. ASSUME Tail(q) # << >> PROVE Last(Tail(q)) = Last(q)
  <2>1. Len(Tail(q)) # 0
    BY <1>1, <1>2
  <2>2. m \in 1..m /\ m + 1 = Len(q)
    BY <1>1, <2>1
  <2>3. QED
    BY <1>1, <2>2 DEF Last
<1>3. ASSUME Tail(q) = << >> PROVE Last(q) = Head(q)
  <2>1. Len(q) = 1
    BY <1>1, <1>3
  <2>2. QED
    BY <2>1 DEF Last
<1>4. QED
  BY <1>1, <1>2, <1>3

\* What is left of nothing is nothing.
LEMMA NothingCut ==
  ASSUME NEW n \in Nat
  PROVE  SubSeq(<< >>, 1, Min({n, Len(<< >>)})) = << >>
<1>1. Min({n, 0}) = 0
  BY DEF Min
<1>2. Len(<< >>) = 0 /\ SubSeq(<< >>, 1, 0) = << >>
  OBVIOUS
<1>3. QED
  BY <1>1, <1>2

-----------------------------------------------------------------------------
LinkInv ==
  /\ ws \in [Socks -> {"free", "open", "stale"}] /\ DOMAIN pipe = Socks
  /\ cur \in Socks \cup {NoSock}
  /\ \A s \in Socks : /\ ws[s] = "open" => pipe[s] \in Seq(Frames)
                      /\ ws[s] = "free" => pipe[s] = << >>

\* The socket of the page is never that of a phone that has vanished.
CurInv == cur # NoSock => ws[cur] # "stale"

\* Whatever a living page sent last, a pulse ends its queue only while the
\* page holds the button on that socket: it says "stop" or "fin" before it goes.
PulseInv ==
  \A s \in Socks :
    ws[s] = "open" /\ pipe[s] # << >> /\ Last(pipe[s]) = "pulse" =>
      s = cur /\ held

HolderInv == LinkInv /\ CurInv /\ PulseInv /\ JogHasHolder

(***************************************************************************)
(* No order of frames, requests, lost phones, dead sockets and restarts    *)
(* leaves a jog that came over a WebSocket without somebody to end it.     *)
(***************************************************************************)
THEOREM JogIsHeld == Spec => []JogHasHolder
<1>1. Init => HolderInv
  BY DEF Init, HolderInv, LinkInv, CurInv, PulseInv, JogHasHolder
<1>2. HolderInv /\ [Next]_vars => HolderInv'
  <2> SUFFICES ASSUME HolderInv, [Next]_vars PROVE HolderInv'
    OBVIOUS
  <2> USE DEF HolderInv, LinkInv, CurInv, PulseInv, JogHasHolder, Used
  <2>0. NoSock \notin Socks
    BY WebSessionAssumption
  \* A frame the page sends, on a socket the server has or has closed.
  <2>1. ASSUME NEW f \in Frames, cur # NoSock, Frame(f)
        PROVE  /\ DOMAIN pipe' = Socks
               /\ \A s \in Socks : s # cur => pipe'[s] = pipe[s]
               /\ ws[cur] = "open" =>
                    /\ pipe'[cur] \in Seq(Frames) /\ pipe'[cur] # << >>
                    /\ Last(pipe'[cur]) = f
               /\ ws[cur] # "open" => pipe' = pipe
    <3>1. cur \in Socks
      BY <2>1
    <3>2. CASE ws[cur] = "open"
      <4>1. pipe[cur] \in Seq(Frames)
        BY <3>1, <3>2
      <4>2. pipe' = [pipe EXCEPT ![cur] = Append(pipe[cur], f)]
        BY <2>1, <3>2 DEF Frame
      <4>3. DOMAIN pipe' = Socks /\ pipe'[cur] = Append(pipe[cur], f)
        BY <3>1, <4>2
      <4>4. \A s \in Socks : s # cur => pipe'[s] = pipe[s]
        BY <4>2
      <4>5. QED
        BY <3>2, <4>1, <4>3, <4>4, LastAppended
    <3>3. CASE ws[cur] # "open"
      BY <2>1, <3>3 DEF Frame
    <3>4. QED
      BY <3>2, <3>3
  <2>2. CASE Pulses
    <3>1. /\ ws' = ws /\ by' = by /\ cur' = cur
          /\ held' = TRUE
      BY <2>2 DEF Pulses, motion
    <3>2. CASE cur = NoSock
      <4>1. pipe' = pipe
        BY <2>2, <3>2 DEF Pulses, Send
      <4>2. QED
        BY <2>0, <3>1, <3>2, <4>1
    <3>3. CASE cur # NoSock
      <4>1. Frame("pulse") /\ "pulse" \in Frames
        BY <2>2, <3>3 DEF Pulses, Send, Frames
      <4>2. LinkInv' /\ CurInv'
        BY <2>0, <2>1, <3>1, <3>3, <4>1
      <4>3. PulseInv'
        BY <2>1, <3>1, <3>3, <4>1
      <4>4. JogHasHolder'
        BY <2>1, <3>1, <3>3, <4>1
      <4>5. QED
        BY <4>2, <4>3, <4>4
    <3>4. QED
      BY <3>2, <3>3
  <2>3. CASE LetGo
    <3>1. /\ ws' = ws /\ by' = by /\ cur' = cur
          /\ held' = FALSE
      BY <2>3 DEF LetGo, motion
    <3>2. CASE cur = NoSock
      <4>1. pipe' = pipe
        BY <2>3, <3>2 DEF LetGo, Send
      <4>2. QED
        BY <2>0, <3>1, <3>2, <4>1
    <3>3. CASE cur # NoSock
      <4>1. Frame("stop") /\ "stop" \in Frames
        BY <2>3, <3>3 DEF LetGo, Send, Frames
      <4>2. LinkInv' /\ CurInv'
        BY <2>0, <2>1, <3>1, <3>3, <4>1
      <4>3. PulseInv'
        BY <2>1, <3>1, <3>3, <4>1
      <4>4. JogHasHolder'
        BY <2>1, <3>1, <3>3, <4>1
      <4>5. QED
        BY <4>2, <4>3, <4>4
    <3>4. QED
      BY <3>2, <3>3
  <2>4. CASE Hide
    <3>1. /\ ws' = ws /\ by' = by /\ cur' = NoSock
          /\ held' = held
      BY <2>4 DEF Hide, motion
    <3>2. CASE cur = NoSock
      <4>1. pipe' = pipe
        BY <2>4, <3>2 DEF Hide
      <4>2. QED
        BY <2>0, <3>1, <3>2, <4>1
    <3>3. CASE cur # NoSock
      <4>1. Frame("fin") /\ "fin" \in Frames
        BY <2>4, <3>3 DEF Hide, Frames
      <4>2. LinkInv' /\ CurInv'
        BY <2>0, <2>1, <3>1, <3>3, <4>1
      <4>3. PulseInv'
        BY <2>1, <3>1, <3>3, <4>1
      <4>4. JogHasHolder'
        BY <2>1, <3>1, <3>3, <4>1
      <4>5. QED
        BY <4>2, <4>3, <4>4
    <3>4. QED
      BY <3>2, <3>3
  <2>5. ASSUME NEW t \in Socks, Connect(t) PROVE HolderInv'
    BY <2>0, <2>5 DEF Connect, Halt, motion
  <2>6. CASE Notices
    BY <2>0, <2>6 DEF Notices, link, motion
  <2>7. CASE Vanish
    <3>1. /\ ws' = [s \in Socks |-> IF ws[s] = "open" THEN "stale" ELSE ws[s]]
          /\ DOMAIN pipe' = Socks /\ cur' = NoSock /\ by' = by
      BY <2>7 DEF Vanish, motion
    <3>2. \A s \in Socks : pipe[s] = << >> => pipe'[s] = << >>
      BY <2>7, NothingCut DEF Vanish
    <3>3. QED
      BY <2>0, <3>1, <3>2
  <2>8. ASSUME NEW t \in Socks, HandleFrame(t) PROVE HolderInv'
    <3>1. CASE Head(pipe[t]) = "fin"
      BY <2>8, <3>1 DEF HandleFrame, Sockets, Halt, phone
    <3>2. CASE Head(pipe[t]) # "fin"
      <4>1. /\ pipe' = [pipe EXCEPT ![t] = Tail(@)] /\ pipe[t] # << >>
            /\ ws' = ws /\ cur' = cur /\ held' = held
        BY <2>8, <3>2 DEF HandleFrame, phone
      <4>2. \A s \in Socks : s # t => pipe'[s] = pipe[s]
        BY <4>1
      <4>3. pipe'[t] = Tail(pipe[t])
        BY <4>1
      <4>4. ws[t] \in {"open", "stale"}
        BY <4>1
      <4>5. ws[t] = "open" =>
              /\ pipe'[t] \in Seq(Frames)
              /\ pipe'[t] # << >> => Last(pipe'[t]) = Last(pipe[t])
              /\ pipe'[t] = << >> => Last(pipe[t]) = Head(pipe[t])
        BY <4>1, <4>3, LastOfTail
      <4>6. LinkInv' /\ CurInv' /\ PulseInv'
        BY <4>1, <4>2, <4>4, <4>5
      <4>7. CASE Head(pipe[t]) = "pulse"
        <5>1. pipe'[t] # << >> \/ ws'[t] = "stale" \/ (t = cur' /\ held')
          BY <4>1, <4>4, <4>5, <4>7
        <5>2. t \in Used'
          BY <4>1, <4>4
        <5>3. JogHasHolder'
          BY <5>1, <5>2
        <5>4. QED
          BY <4>6, <5>3
      <4>8. CASE Head(pipe[t]) # "pulse"
        <5>1. CASE ws[t] = "open"
          <6>1. Head(pipe[t]) = "stop"
            BY <3>2, <4>1, <4>8, <5>1, HeadTailProperties DEF Frames
          <6>2. by' = "none"
            BY <2>8, <3>2, <6>1 DEF HandleFrame, Obey
          <6>3. QED
            BY <4>6, <6>2
        <5>2. CASE ws[t] = "stale" /\ Head(pipe[t]) = "stop"
          <6>1. by' = "none"
            BY <2>8, <3>2, <5>2 DEF HandleFrame, Obey
          <6>2. QED
            BY <4>6, <6>1
        <5>3. CASE ws[t] = "stale" /\ Head(pipe[t]) # "stop"
          <6>1. by' = by
            BY <2>8, <3>2, <4>8, <5>3 DEF HandleFrame, Obey, motion
          <6>2. by' = "ws" => JogHasHolder'
            BY <4>1, <4>2, <5>3, <6>1
          <6>3. QED
            BY <4>6, <6>2
        <5>4. QED
          BY <4>4, <5>1, <5>2, <5>3
      <4>9. QED
        BY <4>7, <4>8
    <3>3. QED
      BY <3>1, <3>2
  <2>9. ASSUME NEW cmd \in Asked, HandlePost(cmd) PROVE HolderInv'
    BY <2>9 DEF HandlePost, Obey, phone, link, motion
  <2>10. CASE Push
    BY <2>10 DEF Push, Sockets, Halt, Dead, phone, motion
  <2>11. CASE Stopped
    BY <2>11 DEF Stopped, Sockets, Halt, phone, motion
  <2>12. CASE Tick
    BY <2>12 DEF Tick, phone, link
  <2>13. CASE Show \/ Join \/ SleepFires \/ RestartFires \/ Restarted
    BY <2>13 DEF Show, Join, SleepFires, RestartFires, Restarted, phone, link,
                 motion
  <2>14. ASSUME NEW t \in Socks, Drain(t) PROVE HolderInv'
    BY <2>14 DEF Drain, phone, motion
  <2>15. ASSUME NEW cmd \in Requests, Ask(cmd) PROVE HolderInv'
    BY <2>15 DEF Ask, phone, link, motion
  <2>16. CASE UNCHANGED vars
    BY <2>16 DEF vars, phone, link, motion
  <2>17. QED
    BY <2>2, <2>3, <2>4, <2>5, <2>6, <2>7, <2>8, <2>9, <2>10, <2>11, <2>12,
       <2>13, <2>14, <2>15, <2>16 DEF Next, Page, Server, Timers
<1>3. QED
  BY <1>1, <1>2, PTL DEF Spec, HolderInv

-----------------------------------------------------------------------------
(***************************************************************************)
(* START-UP AND UPDATE.                                                    *)
(***************************************************************************)
Starting == {"start", "count"}

\* The firmware to go back to: a slot that does not work was chosen by one that
\* does, and that one is still there.
FallbackInv ==
  /\ stage = "up" => image[boot] = "good" /\ counter = 0
  /\ stage # "start" => ~Panics(TRUE) /\ ~Fails(TRUE)
  /\ image[boot] # "good" => image[Other] = "good" /\ Other \notin refused
  /\ upload # "none" => stage = "up"
  /\ upload = "ended" => image[Other] # "torn"

\* How far the counter has come: a good image starts after a crash with none
\* counted, and any other below the threshold.
CounterInv ==
  /\ image[boot] # "good" => counter < Threshold
  /\ image[boot] = "good" /\ reason = "panic" =>
       counter <= IF stage \in Starting THEN 0 ELSE 1

BootInv == BootTypeOK /\ BootsWhole /\ FallbackInv /\ CounterInv

-----------------------------------------------------------------------------
\* Two slots: the other one is the only one that is not started.
LEMMA OtherSlot ==
  ASSUME boot \in Slots
  PROVE  /\ Other \in Slots /\ Other # boot
         /\ \A s \in Slots : s = boot \/ s = Other
<1>1. IsFiniteSet(Slots \ {boot}) /\ Cardinality(Slots \ {boot}) = 1
  BY BootGuardAssumption, FS_RemoveElement
<1>2. PICK x : Slots \ {boot} = {x}
  BY <1>1, FS_Singleton
<1>3. x \in Slots /\ x # boot
  BY <1>2
<1>4. Other \in Slots /\ Other # boot
  BY <1>3 DEF Other
<1>5. QED
  BY <1>2, <1>4

\* Turning to the other slot makes the one before it the other.
LEMMA OtherTurned ==
  ASSUME boot \in Slots, boot' = Other
  PROVE  Other' = boot
<1>1. Other' = CHOOSE s \in Slots : s # Other
  BY DEF Other
<1>2. \A s \in Slots : s # Other <=> s = boot
  BY OtherSlot
<1>3. QED
  BY <1>1, <1>2

\* While the slot stays, so does the other.
LEMMA OtherKept ==
  ASSUME boot' = boot PROVE Other' = Other
  BY DEF Other

(***************************************************************************)
(* The invariant behind the theorems: there is always a whole image to     *)
(* start, a good one to go back to when it is bad, and the counter never   *)
(* condemns a good one.                                                    *)
(***************************************************************************)
THEOREM BootInvariant == ASSUME Threshold > 1 PROVE BootSpec => []BootInv
<1>1. BootInit => BootInv
  <2> SUFFICES ASSUME BootInit PROVE BootInv
    OBVIOUS
  <2>1. BootTypeOK
    BY BootGuardAssumption DEF BootInit, BootTypeOK, Images
  <2>2. image[boot] = "good"
    BY DEF BootInit
  <2>3. QED
    BY <2>1, <2>2
       DEF BootInit, BootInv, BootsWhole, FallbackInv, CounterInv, Panics, Fails
<1>2. BootInv /\ [BootNext]_bootVars => BootInv'
  <2> SUFFICES ASSUME BootInv, [BootNext]_bootVars PROVE BootInv'
    OBVIOUS
  <2>0. /\ boot \in Slots /\ Other \in Slots /\ Other # boot
        /\ \A s \in Slots : s = boot \/ s = Other
        /\ Threshold \in Nat /\ Threshold > 1 /\ counter \in 0..Threshold
        /\ MaxCuts \in Nat
    BY OtherSlot, BootGuardAssumption DEF BootInv, BootTypeOK
  <2>1. CASE PowerCut
    <3>1. Other' = Other
      BY <2>1, OtherKept DEF PowerCut, flash
    <3>2. BootTypeOK'
      BY <2>0, <2>1 DEF PowerCut, Stops, flash, BootInv, BootTypeOK, Images
    <3>3. BootsWhole' /\ FallbackInv' /\ CounterInv'
      BY <2>0, <2>1, <3>1 DEF PowerCut, Stops, flash, BootInv, BootsWhole,
                              FallbackInv, CounterInv, Panics, Fails
    <3>4. QED
      BY <3>2, <3>3 DEF BootInv
  <2>2. CASE Start
    <3>1. Other' = Other
      BY <2>2, OtherKept DEF Start, flash
    <3>2. \/ /\ stage' = "start" /\ upload' = "none" /\ incoming' = "good"
             /\ reason' \in {"panic", "sw"} /\ counter' \in {counter, 0}
             /\ UNCHANGED <<flash, cuts>> /\ image[boot] # "good"
          \/ /\ stage' = "count" /\ UNCHANGED <<reason, counter, ota, flash, cuts>>
             /\ ~Panics(TRUE) /\ ~Fails(TRUE)
      <4>1. CASE Panics(TRUE)
        BY <2>2, <4>1 DEF Start, Reset, Stops, Panics
      <4>2. CASE ~Panics(TRUE) /\ Fails(TRUE)
        BY <2>2, <4>2 DEF Start, Reset, Stops, Fails
      <4>3. CASE ~Panics(TRUE) /\ ~Fails(TRUE)
        BY <2>2, <4>3 DEF Start
      <4>4. QED
        BY <4>1, <4>2, <4>3
    <3>3. BootTypeOK'
      <4>1. UNCHANGED <<image, refused, boot, cuts>>
        BY <3>2 DEF flash
      <4>2. stage' \in {"start", "count"} /\ reason' \in {"panic", "sw", reason}
        BY <3>2
      <4>3. upload' \in {"none", upload} /\ incoming' \in {"good", incoming}
        BY <3>2 DEF ota
      <4>4. counter' \in {counter, 0}
        BY <3>2
      <4>5. counter' \in 0..Threshold
        BY <2>0, <4>4
      <4>6. QED
        BY <4>1, <4>2, <4>3, <4>5 DEF BootInv, BootTypeOK, Images
    <3>4. BootsWhole' /\ FallbackInv' /\ CounterInv'
      <4>1. CASE stage' = "start"
        BY <2>0, <3>1, <3>2, <4>1
           DEF flash, BootInv, BootsWhole, FallbackInv, CounterInv, Starting
      <4>2. CASE stage' # "start"
        <5>1. stage = "start"
          BY <2>2 DEF Start
        <5>2. UNCHANGED <<image, boot, refused, counter, reason, upload>>
          BY <3>2, <4>2 DEF flash, ota
        <5>3. stage' = "count" /\ ~Panics(TRUE)' /\ ~Fails(TRUE)'
          BY <3>2, <4>2, <5>2 DEF Panics, Fails
        <5>4. QED
          BY <2>0, <3>1, <5>1, <5>2, <5>3
             DEF BootInv, BootsWhole, FallbackInv, CounterInv, Starting
      <4>3. QED
        BY <4>1, <4>2
    <3>5. QED
      BY <3>3, <3>4 DEF BootInv
  <2>3. CASE Count
    <3>1. Counted \in Nat
      BY <2>0 DEF Counted
    <3>2. CASE RollsBack
      <4>1. /\ refused' = refused \cup {boot} /\ boot' = Other /\ image' = image
            /\ counter' \in {Counted, 0} /\ reason' = "sw" /\ stage' = "start"
            /\ upload' = "none" /\ incoming' = "good" /\ cuts' = cuts
        BY <2>3, <3>2 DEF Count, Reset, Stops
      <4>2. image[boot] # "good"
        BY <2>0, <2>3, <3>2 DEF Count, RollsBack, Counted, BootInv, CounterInv,
                                Starting
      <4>3. Counted = Threshold
        BY <2>0, <3>2, <4>2 DEF RollsBack, Counted, BootInv, CounterInv
      <4>4. BootTypeOK'
        BY <2>0, <4>1, <4>3 DEF BootInv, BootTypeOK, Images
      <4>5. QED
        BY <2>0, <4>1, <4>2, <4>4
           DEF BootInv, BootsWhole, FallbackInv, CounterInv, Panics, Fails
    <3>3. CASE ~RollsBack
      <4>1. /\ refused' = refused /\ boot' = boot /\ image' = image
            /\ counter' = Counted /\ reason' = reason /\ stage' = "init"
            /\ upload' = upload /\ incoming' = incoming /\ cuts' = cuts
        BY <2>3, <3>3 DEF Count, ota
      <4>2. Other' = Other
        BY <4>1, OtherKept
      <4>3. image[boot] # "good" => Counted < Threshold
        BY <2>0, <3>3
           DEF RollsBack, Counted, Possible, BootInv, FallbackInv, CounterInv,
               Panics, Fails
      <4>4. image[boot] = "good" /\ reason = "panic" => Counted <= 1
        BY <2>0, <2>3 DEF Count, Counted, BootInv, CounterInv, Starting
      <4>5. Counted \in 0..Threshold
        BY <2>0, <3>1, <4>3, <4>4 DEF Counted
      <4>6. BootTypeOK'
        BY <2>0, <4>1, <4>5 DEF BootInv, BootTypeOK, Images
      <4>7. upload = "none"
        BY <2>3 DEF Count, BootInv, FallbackInv
      <4>8. stage = "count"
        BY <2>3 DEF Count
      <4>9. QED
        BY <4>8, <4>1, <4>2, <4>3, <4>4, <4>6, <4>7
           DEF BootInv, BootsWhole, FallbackInv, CounterInv, Panics, Fails,
               Starting
    <3>4. QED
      BY <3>2, <3>3
  <2>4. CASE Initialise
    <3>1. Other' = Other
      BY <2>4, OtherKept DEF Initialise
    <3>2. BootTypeOK'
      BY <2>0, <2>4 DEF Initialise, Reset, Stops, Cleared, ota, Panics, Fails, BootInv,
                        BootTypeOK, Images
    <3>3. upload = "none"
      BY <2>4 DEF Initialise, BootInv, FallbackInv
    <3>4. stage' = "up" => image[boot] = "good"
      BY <2>0, <2>4 DEF Initialise, Panics, Fails, Reset, Stops, BootInv, BootTypeOK,
                        BootsWhole, FallbackInv, Images
    <3>5. QED
      BY <2>0, <2>4, <3>1, <3>2, <3>3, <3>4
         DEF Initialise, Reset, Stops, Cleared, ota, BootInv, BootsWhole,
             FallbackInv, CounterInv, Panics, Fails, Starting
  <2>5. CASE CrashUp
    <3>1. Other' = Other
      BY <2>5, OtherKept DEF CrashUp, flash
    <3>2. BootTypeOK'
      BY <2>0, <2>5 DEF CrashUp, Reset, Stops, flash, BootInv, BootTypeOK, Images
    <3>3. QED
      BY <2>0, <2>5, <3>1, <3>2 DEF CrashUp, Reset, Stops, flash, BootInv, BootsWhole,
                                    FallbackInv, CounterInv, Panics, Fails,
                                    Starting
  <2>6. ASSUME NEW new \in Uploads, BeginUpload(new) PROVE BootInv'
    <3>1. Other' = Other
      BY <2>6, OtherKept DEF BeginUpload
    <3>2. BootTypeOK'
      BY <2>0, <2>6, BootGuardAssumption DEF BeginUpload, BootInv, BootTypeOK, Images
    <3>3. image'[boot] = image[boot]
      BY <2>0, <2>6 DEF BeginUpload, BootInv, BootTypeOK
    <3>4. QED
      BY <2>0, <2>6, <3>1, <3>2, <3>3 DEF BeginUpload, BootInv, BootsWhole,
                                          FallbackInv, CounterInv, Panics, Fails
  <2>7. CASE AbortUpload
    <3>1. Other' = Other
      BY <2>7, OtherKept DEF AbortUpload, flash
    <3>2. BootTypeOK'
      BY <2>0, <2>7 DEF AbortUpload, flash, BootInv, BootTypeOK, Images
    <3>3. QED
      BY <2>7, <3>1, <3>2 DEF AbortUpload, flash, BootInv, BootsWhole,
                              FallbackInv, CounterInv, Panics, Fails
  <2>8. CASE EndUpload
    <3>1. Other' = Other
      BY <2>8, OtherKept DEF EndUpload
    <3>2. incoming \in Images /\ "torn" \notin Images
      BY DEF BootInv, BootTypeOK, Images
    <3>3. image'[boot] = image[boot] /\ image'[Other] = incoming
      BY <2>0, <2>8 DEF EndUpload, BootInv, BootTypeOK
    <3>4. BootTypeOK'
      BY <2>0, <2>8, <3>2 DEF EndUpload, BootInv, BootTypeOK
    <3>5. stage = "up" /\ image[boot] = "good"
      BY <2>8 DEF EndUpload, BootInv, FallbackInv
    <3>6. QED
      BY <2>8, <3>1, <3>2, <3>3, <3>4, <3>5
         DEF EndUpload, BootInv, BootsWhole, FallbackInv, CounterInv, Panics,
             Fails
  <2>9. CASE SetBoot
    <3>1. Other' = boot
      BY <2>0, <2>9, OtherTurned DEF SetBoot
    <3>2. image[boot] = "good" /\ counter = 0 /\ image[Other] # "torn"
      BY <2>9 DEF SetBoot, Ready, BootInv, FallbackInv
    <3>3. BootTypeOK'
      BY <2>0, <2>9 DEF SetBoot, Reset, Stops, BootInv, BootTypeOK, Images
    <3>4. QED
      BY <2>0, <2>9, <3>1, <3>2, <3>3 DEF SetBoot, Reset, Stops, BootInv, BootsWhole,
                                          FallbackInv, CounterInv, Panics, Fails
  <2>10. CASE UNCHANGED bootVars
    <3>1. Other' = Other
      BY <2>10, OtherKept DEF bootVars, flash
    <3>2. QED
      BY <2>10, <3>1 DEF bootVars, flash, ota, BootInv, BootTypeOK, BootsWhole,
                         FallbackInv, CounterInv, Panics, Fails
  <2>11. QED
    BY <2>1, <2>2, <2>3, <2>4, <2>5, <2>6, <2>7, <2>8, <2>9, <2>10
       DEF BootNext, Boots, Update
<1>3. QED
  BY <1>1, <1>2, PTL DEF BootSpec

(***************************************************************************)
(* No cut upload, crash or rollback leaves the device a torn or a refused  *)
(* image to start.                                                         *)
(***************************************************************************)
THEOREM AlwaysBootable == ASSUME Threshold > 1 PROVE BootSpec => []BootsWhole
<1>1. BootInv => BootsWhole
  BY DEF BootInv
<1>2. QED
  BY <1>1, BootInvariant, PTL

(***************************************************************************)
(* With a threshold above one, no number of crashes of a firmware that     *)
(* comes up has it given up.                                               *)
(***************************************************************************)
THEOREM GoodNeverRefused == ASSUME Threshold > 1 PROVE BootSpec => GoodIsKept
<1>1. BootInv /\ [BootNext]_bootVars
        => [\A s \in refused' \ refused : image[s] # "good"]_bootVars
  <2> SUFFICES ASSUME BootInv, [BootNext]_bootVars, NEW s \in refused' \ refused
               PROVE  image[s] # "good"
    OBVIOUS
  <2>1. counter \in Nat /\ Threshold \in Nat
    BY BootGuardAssumption DEF BootInv, BootTypeOK
  <2>2. Count /\ RollsBack /\ s = boot
    BY DEF BootNext, Boots, Update, PowerCut, Start, Count, Initialise, CrashUp,
           BeginUpload, AbortUpload, EndUpload, SetBoot, flash, bootVars
  <2>3. QED
    BY <2>1, <2>2 DEF Count, RollsBack, Counted, BootInv, CounterInv, Starting
<1>2. QED
  BY <1>1, BootInvariant, PTL DEF BootSpec, GoodIsKept
=============================================================================
