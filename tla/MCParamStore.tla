---------------------------- MODULE MCParamStore ----------------------------
(* The numbers a configuration file cannot write (a slot is -1 when it is   *)
(* disabled), and the tasks, which do nothing but take turns.               *)
EXTENDS ParamStore, TLC

LoC      == -1
DefaultC == -1
TaskSymmetry == Permutations(Tasks)
=============================================================================
