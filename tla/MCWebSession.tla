---------------------------- MODULE MCWebSession ----------------------------
(* An instance of WebSession for TLC. *)
EXTENDS WebSession, TLC

CONSTANTS b1, b2, t1, t2, t3

TwoTabs == b1 :> {t1, t2} @@ b2 :> {t3}
=============================================================================
