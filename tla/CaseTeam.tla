------------------------------- MODULE CaseTeam ------------------------------
(****************************************************************************)
(* The team of one case: CaseService.assignLawyer and removeAssignment, from *)
(* the state CaseService.create leaves, the assigned lawyer leading.        *)
(*                                                                          *)
(* Neither operation is a transaction: the sitting lead is demoted, the     *)
(* assignment is looked up and written in three separate steps.             *)
(****************************************************************************)
EXTENDS Naturals, Handlers

CONSTANTS
  Lawyers,
  Creator  \* stands for CaseService.create in the history of leads

Roles == {"LEAD_ATTORNEY", "CO_COUNSEL", "ASSISTANT", "SUPERVISOR"}

ASSUME NoneOK == None \notin Roles

VARIABLES
  role,    \* role of each lawyer's assignment row, None if there is no row
  removed, \* lawyers whose row has a removedAt
  madeBy   \* history: the request that last wrote a lawyer's row

teamVars == <<role, removed, madeBy, req>>

AssignJob == [op : {"assign"}, pc : {"demote", "find", "update", "create"},
              lawyer : Lawyers, role : Roles]
RemoveJob == [op : {"remove"}, pc : {"update"}, lawyer : Lawyers]

(* A row about to be updated exists: assignments are never deleted. *)
TeamTypeOK ==
  /\ role \in [Lawyers -> Roles \cup {None}]
  /\ removed \subseteq Lawyers
  /\ madeBy \in [Lawyers -> Requests \cup {Creator, None}]
  /\ req \in [Requests -> {IdleJob} \cup AssignJob \cup RemoveJob]
  /\ \A r \in Requests : req[r].pc = "update" => role[req[r].lawyer] # None
  /\ \A u \in removed : role[u] # None

TeamInit ==
  \E lead \in Lawyers :
    /\ role = [u \in Lawyers |-> IF u = lead THEN "LEAD_ATTORNEY" ELSE None]
    /\ removed = {}
    /\ madeBy = [u \in Lawyers |-> IF u = lead THEN Creator ELSE None]
    /\ req = [r \in Requests |-> IdleJob]

-----------------------------------------------------------------------------
Active == {u \in Lawyers : role[u] # None} \ removed
LeadAttorneys  == {u \in Active : role[u] = "LEAD_ATTORNEY"}

(* Only an assignment as lead demotes first. *)
AssignLawyer(r, u, newRole) ==
  /\ req[r] = IdleJob
  /\ req' = [req EXCEPT ![r] =
       [op |-> "assign", pc |-> IF newRole = "LEAD_ATTORNEY" THEN "demote" ELSE "find",
        lawyer |-> u, role |-> newRole]]
  /\ UNCHANGED <<role, removed, madeBy>>

(* Mutant: nobody is demoted. *)
DemoteNobody(r) ==
  /\ Doing(r, "assign", "demote")
  /\ Goto(r, "find")
  /\ UNCHANGED <<role, removed, madeBy>>

(* One updateMany over the active leads. *)
Demote(r) ==
  /\ Doing(r, "assign", "demote")
  /\ role' = [u \in Lawyers |-> IF u \in LeadAttorneys THEN "CO_COUNSEL" ELSE role[u]]
  /\ Goto(r, "find")
  /\ UNCHANGED <<removed, madeBy>>

(* findFirst finds a removed row too. *)
FindAssignment(r) ==
  /\ Doing(r, "assign", "find")
  /\ Goto(r, IF role[req[r].lawyer] = None THEN "create" ELSE "update")
  /\ UNCHANGED <<role, removed, madeBy>>

WriteAssignment(r) ==
  LET u == req[r].lawyer
  IN  /\ role' = [role EXCEPT ![u] = req[r].role]
      /\ removed' = removed \ {u}
      /\ madeBy' = [madeBy EXCEPT ![u] = r]

UpdateAssignment(r) ==
  /\ Doing(r, "assign", "update")
  /\ WriteAssignment(r)
  /\ Finish(r)

(* A row inserted meanwhile fails the create: the pair is unique. *)
CreateAssignment(r) ==
  /\ Doing(r, "assign", "create")
  /\ \/ role[req[r].lawyer] = None /\ WriteAssignment(r)
     \/ role[req[r].lawyer] # None /\ UNCHANGED <<role, removed, madeBy>>
  /\ Finish(r)

(* removeAssignment: only an active row is found. *)
RemoveAssignment(r, u) ==
  /\ req[r] = IdleJob
  /\ u \in Active
  /\ req' = [req EXCEPT ![r] = [op |-> "remove", pc |-> "update", lawyer |-> u]]
  /\ UNCHANGED <<role, removed, madeBy>>

(* The role stays on the removed row. *)
RemoveAssignmentRow(r) ==
  /\ Doing(r, "remove", "update")
  /\ removed' = removed \cup {req[r].lawyer}
  /\ Finish(r)
  /\ UNCHANGED <<role, madeBy>>

(* The handler dies between two awaits. *)
TeamFail(r) ==
  /\ req[r] # IdleJob
  /\ Finish(r)
  /\ UNCHANGED <<role, removed, madeBy>>

TeamNext ==
  \E r \in Requests :
    \/ \E u \in Lawyers, newRole \in Roles : AssignLawyer(r, u, newRole)
    \/ \E u \in Lawyers : RemoveAssignment(r, u)
    \/ Demote(r) \/ FindAssignment(r) \/ UpdateAssignment(r) \/ CreateAssignment(r) \/ RemoveAssignmentRow(r)
    \/ TeamFail(r)

TeamSpec == TeamInit /\ [][TeamNext]_teamVars

-----------------------------------------------------------------------------
(* Two lawyers lead a case at once only if two requests that overlapped     *)
(* made them leads: no single handler, and no handlers one after the other, *)
(* leave two leads.                                                         *)
LeadsOverlapped ==
  \A u, v \in LeadAttorneys : (u # v) => {madeBy[u], madeBy[v]} \subseteq Requests
                                   /\ madeBy[u] # madeBy[v]
=============================================================================
