----------------------------- MODULE MCCreation -----------------------------
(* The instance of Creation alone, for its finding. *)
EXTENDS Creation, TLC

CONSTANTS c1, c2
TwoCreations == {c1, c2}
=============================================================================
