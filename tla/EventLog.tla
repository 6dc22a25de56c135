------------------------------ MODULE EventLog ------------------------------
(***************************************************************************)
(* What the flash log promises its readers: the events that were recorded, *)
(* in the order they happened, none twice.  Old events may be forgotten,   *)
(* oldest first, and never more than Most at once.  A log that is lost     *)
(* promises nothing any more.                                              *)
(***************************************************************************)
EXTENDS Naturals, Sequences

CONSTANTS Events, Most

VARIABLES log, lost

Init == log = <<>> /\ lost = FALSE

Record(e) ==
  /\ \A i \in DOMAIN log : log[i] < e
  /\ log' = Append(log, e)

Forget(n) ==
  /\ n <= Len(log)
  /\ log' = SubSeq(log, n + 1, Len(log))

Lose == lost' = TRUE /\ log' = <<>>

Next ==
  \/ ~lost /\ UNCHANGED lost /\ \E e \in Events : Record(e)
  \/ ~lost /\ UNCHANGED lost /\ \E n \in 1..Most : Forget(n)
  \/ Lose

Spec == Init /\ [][Next]_<<log, lost>>
=============================================================================
