--------------------------- MODULE MCMotorRelays ---------------------------
(* A small instance of MotorRelays: the requests that drive and jog the    *)
(* travel motor.  The other bridges obey the same transition logic without *)
(* its interlock; AUX comes along as the fluffer of a drive.               *)
EXTENDS MotorRelays

MCRequests ==
  {AllOff, Energize("FWD", "OFF", "FWD"), Energize("REV", "OFF", "OFF")}
=============================================================================
