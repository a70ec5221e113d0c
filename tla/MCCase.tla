------------------------------- MODULE MCCase -------------------------------
(* Instances of CaseLifecycle for TLC. *)
EXTENDS CaseLifecycle, TLC

CONSTANTS r1, r2
TwoRequests == {r1, r2}
OneRequest  == {r1}
=============================================================================
