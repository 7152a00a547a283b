---------------------------- MODULE MCFrameLine -----------------------------
(* Instances of FrameLine for TLC: its constants are numbers. *)
EXTENDS FrameLine
=============================================================================
