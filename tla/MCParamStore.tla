---------------------------- MODULE MCParamStore ----------------------------
(* Instances of ParamStore for TLC. *)
EXTENDS ParamStore, TLC

BlockSymmetry == Permutations(Blocks)

Promised == ~overtaken
=============================================================================
