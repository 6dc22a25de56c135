---------------------------- MODULE MCControlFsm ----------------------------
(* Small instances of ControlFsm: each .cfg names the commands, the jogs   *)
(* and the plant of its question, the times are a few ticks.               *)
EXTENDS ControlFsm
=============================================================================
