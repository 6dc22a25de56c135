----------------------------- MODULE MCBringUp ------------------------------
(* A small instance of BringUp: a move that lifts, lowers or drives, and    *)
(* pulses of the jack in both directions.                                   *)
EXTENDS BringUp

SomeRequests == {AllOff, Energize("FWD", "OFF", "FWD"), Energize("OFF", "REV", "OFF")}

SomePulses == {Energize("OFF", "FWD", "OFF"), Energize("OFF", "REV", "OFF")}
=============================================================================
