---------------------------- MODULE MCParamBoard ----------------------------
(* Instances of ParamBoard for TLC. *)
EXTENDS ParamBoard, TLC

CallerSymmetry == Permutations(Callers)
=============================================================================
