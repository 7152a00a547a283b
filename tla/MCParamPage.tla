---------------------------- MODULE MCParamPage -----------------------------
(* An instance of ParamPage for TLC. *)
EXTENDS ParamPage, TLC

CONSTANTS a, b

Param(default, visible) == [default |-> default, visible |-> visible]
File(p, q) == 0 :> p @@ 1 :> q

\* Files that show both parameters, or one, or the other.
Both == File(Param(0, TRUE), Param(2, TRUE))
Zeroth == File(Param(2, TRUE), Param(1, FALSE))
Single == File(Param(0, FALSE), Param(4, TRUE))
TwoPaths == a :> Both @@ b :> Single
SomeFiles == {Both, Zeroth, Single}
OtherBoard == {0 :> 1 @@ 1 :> 1}
=============================================================================
