-------------------------- MODULE MCPageOperation ---------------------------
(* Instances of PageOperation for TLC. *)
EXTENDS PageOperation, TLC

CONSTANTS p1, p2

AdminAndUser == p1 :> {"admin", "dump"} @@ p2 :> {"user"}
Once == [p \in Pages |-> 1]
=============================================================================
