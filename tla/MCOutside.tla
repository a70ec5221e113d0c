------------------------------ MODULE MCOutside ------------------------------
(****************************************************************************)
(* One run for the modules that deal with the outside: clients to be, the   *)
(* signature service and the stamping provider.                             *)
(* They share no state but the requests: a behaviour is of the part chosen  *)
(* at its start, so the states of the parts add up instead of multiplying.  *)
(* The other parts rest in their initial state.                             *)
(****************************************************************************)
EXTENDS Documents, Leads, Stamping, TLC

CONSTANTS r1, r2, a1, a2, l1

TwoRequests == {r1, r2}
Two         == {a1, a2}  \* signers, addresses
OneLead     == {l1}
SymOutside  == Permutations(TwoRequests) \cup Permutations(Two)

VARIABLE part

Parts == {"documents", "leads", "stamping"}

OutsideInit ==
  part \in Parts /\ DocumentsInit /\ LeadsInit /\ StampingInit

OutsideNext ==
  \/ /\ part = "documents" /\ DocumentsNext
     /\ UNCHANGED <<part, leadVars, stampVars>>
  \/ /\ part = "leads" /\ LeadsNext
     /\ UNCHANGED <<part, docVars, stampVars>>
  \/ /\ part = "stamping" /\ StampingNext
     /\ UNCHANGED <<part, docVars, leadVars>>

outsideVars == <<part, req, docVars, leadVars, stampVars>>

OutsideSpec == OutsideInit /\ [][OutsideNext]_outsideVars

(* Rows, handlers and histories keep their types, with what the handlers of *)
(* each part rely on (see the TypeOK of its module).                        *)
OutsideTypeOK ==
  CASE part = "documents"   -> DocumentsTypeOK
    [] part = "leads"       -> LeadsTypeOK
    [] part = "stamping"    -> StampingTypeOK
=============================================================================
