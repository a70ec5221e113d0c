------------------------------- MODULE MCViews ------------------------------
(* The instance of Views alone, for its finding. *)
EXTENDS Views
=============================================================================
