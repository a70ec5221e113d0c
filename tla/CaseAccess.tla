------------------------------ MODULE CaseAccess ------------------------------
(****************************************************************************)
(* Who may do what on one case (CaseController, assertCaseAccess):         *)
(* every endpoint looks the caller's assignment up once, and then calls the *)
(* service, whose statements come later and look no more.  The calls that   *)
(* change the team are CaseTeam's handlers; what the others do to the case  *)
(* is in CaseLifecycle and CaseWork.                                        *)
(*                                                                          *)
(* An administrator, and the client whose case it is, hold no assignment    *)
(* and are let into every endpoint.                                         *)
(****************************************************************************)
EXTENDS CaseTeam

CONSTANT Exempt  \* such an administrator or client

ASSUME ExemptOK == Exempt \notin Lawyers /\ Creator # Exempt

VARIABLES
  call,      \* the endpoint each request was let into
  leaderless \* history: the call that left the case without a lead

accessVars == <<call, leaderless>>

Callers == Lawyers \cup {Exempt}
Standings == {"none", "member", "lead"}

(* edit: PATCH :id and :id/status.  work: reads, parties, tasks, new notes, *)
(* time entries, expenses.  note: PATCH and DELETE of a note.               *)
Endpoints == {"edit", "assign", "unassign", "work", "note"}

NoCall == [endpoint |-> "none"]

(* was: the caller's standings since it was let in. *)
Call == [endpoint : Endpoints, by : Callers, was : SUBSET Standings]

AccessTypeOK ==
  /\ TeamTypeOK
  /\ call \in [Requests -> Call \cup {NoCall}]
  /\ \A r \in Requests : ~Idle(r) => call[r] # NoCall
  /\ leaderless \in {NoCall} \cup [by : Callers, was : SUBSET Standings, ousted : SUBSET Lawyers]

AccessInit ==
  /\ TeamInit
  /\ call = [r \in Requests |-> NoCall] /\ leaderless = NoCall

-----------------------------------------------------------------------------
(* The assignment that is found, of those not removed. *)
StandingIn(roles, gone, u) ==
  IF u = Exempt \/ u \in gone \/ roles[u] = None THEN "none"
  ELSE IF roles[u] = "LEAD_ATTORNEY" THEN "lead" ELSE "member"

StandingNow(u) == StandingIn(role, removed, u)

(* Whoever is or was on the team may have written notes: rows of the team   *)
(* stay.                                                                    *)
Authors == {u \in Lawyers : role[u] # None}

Enough(endpoint) ==
  IF endpoint \in {"edit", "assign", "unassign"} THEN {"lead"} ELSE {"member", "lead"}

(* Mutant: no endpoint asks for a lead. *)
LetInAnyMember(by, endpoint) ==
  \/ by = Exempt
  \/ IF endpoint = "note" THEN by \in Authors ELSE StandingNow(by) # "none"

(* updateNote and removeNote ask for the author only. *)
LetIn(by, endpoint) ==
  \/ by = Exempt
  \/ IF endpoint = "note" THEN by \in Authors ELSE StandingNow(by) \in Enough(endpoint)

(* Request r goes on as c; what the team has become is noted in every call. *)
Continue(r, c) ==
  call' = [q \in Requests |->
            LET was == IF q = r THEN c ELSE call[q]
            IN  IF was = NoCall THEN NoCall
                ELSE [was EXCEPT !.was = @ \cup {StandingIn(role', removed', was.by)}]]

Enter(r, by, endpoint) ==
  /\ call[r] = NoCall /\ LetIn(by, endpoint)
  /\ UNCHANGED <<teamVars, leaderless>>
  /\ Continue(r, [endpoint |-> endpoint, by |-> by, was |-> {}])

(* assignLawyer and removeAssignment, a step at a time.  The other roles    *)
(* stand where a CO_COUNSEL does.                                           *)
ChangeTheTeam(r) ==
  /\ \/ call[r].endpoint = "assign" /\
           \E u \in Lawyers, newRole \in {"LEAD_ATTORNEY", "CO_COUNSEL"} : AssignLawyer(r, u, newRole)
     \/ call[r].endpoint = "unassign" /\ \E u \in Lawyers : RemoveAssignment(r, u)
     \/ Demote(r) \/ FindAssignment(r) \/ UpdateAssignment(r) \/ CreateAssignment(r)
     \/ RemoveAssignmentRow(r)
  /\ leaderless' = IF LeadAttorneys' # {} THEN NoCall
                   ELSE IF LeadAttorneys = {} THEN leaderless
                   ELSE [by |-> call[r].by, was |-> call[r].was, ousted |-> LeadAttorneys]
  /\ Continue(r, IF req'[r] = IdleJob THEN NoCall ELSE call[r])

(* The other endpoints leave alone all that is modelled here. *)
ActOnCase(r) ==
  /\ call[r].endpoint \in {"edit", "work", "note"}
  /\ UNCHANGED <<teamVars, leaderless>>
  /\ Continue(r, NoCall)

(* Nothing is found to act on, a statement fails, or the process dies. *)
GiveUp(r) ==
  /\ call[r] # NoCall
  /\ IF Idle(r) THEN UNCHANGED teamVars ELSE TeamFail(r)
  /\ UNCHANGED leaderless
  /\ Continue(r, NoCall)

AccessNext ==
  \E r \in Requests :
    \/ \E by \in Callers, endpoint \in Endpoints : Enter(r, by, endpoint)
    \/ ChangeTheTeam(r) \/ ActOnCase(r) \/ GiveUp(r)

AccessSpec == AccessInit /\ [][AccessNext]_<<teamVars, accessVars>>

-----------------------------------------------------------------------------
(* A case is left without a lead only by one who needs no assignment, by    *)
(* the lead that stood down (or handed over and failed half way), or by a   *)
(* call during which its caller was unseated: no one else unseats the lead. *)
LeaderlessExplained ==
  LeadAttorneys = {} =>
    \/ leaderless.by = Exempt
    \/ leaderless.by \in leaderless.ousted
    \/ "lead" \in leaderless.was /\ leaderless.was # {"lead"}

(* Whoever has left the team still acts on the case through calls that let  *)
(* it in before, and on notes of its own, and in no other way.              *)
LateCallsOnly ==
  \A r \in Requests : call[r] # NoCall =>
    \/ call[r].by = Exempt
    \/ call[r].by \in Authors /\ call[r].endpoint = "note"
    \/ call[r].was \cap Enough(call[r].endpoint) # {}

(* The lead's seat and the case's doors. *)
AccessSound == LeaderlessExplained /\ LateCallsOnly
=============================================================================
