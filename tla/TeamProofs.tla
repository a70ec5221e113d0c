----------------------------- MODULE TeamProofs -----------------------------
(****************************************************************************)
(* A case and those who work on it, for any number of requests, lawyers and *)
(* items: the leads of its team, the doors of its endpoints, its timeline.  *)
(****************************************************************************)
EXTENDS CaseAccess, CaseWork, FiniteSetTheorems, SequenceTheorems,
        WellFoundedInduction, TLAPS

(****************************************************************************)
(* The team.  Whoever leads was made lead by a request that no other one    *)
(* has demoted since.                                                       *)
(****************************************************************************)
(* r has demoted the leads it found and has not yet written its own. *)
Handover(r) ==
  /\ req[r].op = "assign" /\ req[r].role = "LEAD_ATTORNEY"
  /\ req[r].pc \in {"find", "update", "create"}

(* Whoever leads while r hands the case over was made lead after r's        *)
(* demotion, by another request.                                            *)
HandoverClear ==
  \A r \in Requests : Handover(r) =>
    \A u \in LeadAttorneys : madeBy[u] \in Requests \ {r}

IInv == TeamTypeOK /\ LeadsOverlapped /\ HandoverClear

(* The fields of a handler at work. *)
LEMMA JobTyped ==
  ASSUME TeamTypeOK, NEW r \in Requests
  PROVE  /\ req[r] \in {IdleJob} \cup AssignJob \cup RemoveJob
         /\ req[r].op = "assign" => req[r].lawyer \in Lawyers /\ req[r].role \in Roles
         /\ req[r].op = "remove" => req[r].lawyer \in Lawyers
BY DEF TeamTypeOK, IdleJob, AssignJob, RemoveJob

(* A step that makes no lead and starts no handover keeps what is said of   *)
(* leads.                                                                   *)
LEMMA NoNewLead ==
  ASSUME LeadsOverlapped, HandoverClear,
         LeadAttorneys' \subseteq LeadAttorneys,
         \A u \in LeadAttorneys' : madeBy'[u] = madeBy[u],
         \A q \in Requests : Handover(q)' => (Handover(q) \/ LeadAttorneys' = {})
  PROVE  LeadsOverlapped' /\ HandoverClear'
BY DEF LeadsOverlapped, HandoverClear

(* The write of an assignment: its lawyer leads if that is the role, and no *)
(* one else's standing changes.                                             *)
LEMMA WriteLeads ==
  ASSUME TeamTypeOK, NEW r \in Requests, req[r].lawyer \in Lawyers, req[r].role \in Roles,
         WriteAssignment(r)
  PROVE  /\ role' \in [Lawyers -> Roles \cup {None}]
         /\ removed' \subseteq Lawyers
         /\ madeBy' \in [Lawyers -> Requests \cup {Creator, None}]
         /\ role'[req[r].lawyer] = req[r].role
         /\ \A u \in Lawyers \ {req[r].lawyer} : role'[u] = role[u]
         /\ \A u \in removed' : u # req[r].lawyer /\ u \in removed
         /\ madeBy'[req[r].lawyer] = r
         /\ \A u \in Lawyers \ {req[r].lawyer} : madeBy'[u] = madeBy[u]
         /\ LeadAttorneys' \subseteq LeadAttorneys \cup {req[r].lawyer}
         /\ req[r].role # "LEAD_ATTORNEY" => req[r].lawyer \notin LeadAttorneys'
BY DEF TeamTypeOK, WriteAssignment, LeadAttorneys, Active

(* The step that ends an assignment. *)
LEMMA WritePreserves ==
  ASSUME IInv, NEW r \in Requests, req[r].op = "assign",
         req[r].pc \in {"update", "create"}, WriteAssignment(r), Finish(r)
  PROVE  IInv'
<1> DEFINE l == req[r].lawyer
<1>0. TeamTypeOK BY DEF IInv
<1>1. l \in Lawyers /\ req[r].role \in Roles BY <1>0, JobTyped
<1>2. /\ role' \in [Lawyers -> Roles \cup {None}]
      /\ removed' \subseteq Lawyers
      /\ madeBy' \in [Lawyers -> Requests \cup {Creator, None}]
      /\ role'[l] = req[r].role
      /\ \A u \in Lawyers \ {l} : role'[u] = role[u]
      /\ \A u \in removed' : u # l /\ u \in removed
      /\ madeBy'[l] = r
      /\ \A u \in Lawyers \ {l} : madeBy'[u] = madeBy[u]
      /\ LeadAttorneys' \subseteq LeadAttorneys \cup {l}
      /\ req[r].role # "LEAD_ATTORNEY" => l \notin LeadAttorneys'
  BY <1>0, <1>1, WriteLeads
<1>3. /\ req' \in [Requests -> {IdleJob} \cup AssignJob \cup RemoveJob]
      /\ req'[r] = IdleJob
      /\ \A q \in Requests \ {r} : req'[q] = req[q]
  BY <1>0 DEF Finish, TeamTypeOK
<1>4. TeamTypeOK'
  <2>1. \A q \in Requests : req'[q].pc = "update" => role'[req'[q].lawyer] # None
    <3> SUFFICES ASSUME NEW q \in Requests, req'[q].pc = "update"
                 PROVE  role'[req'[q].lawyer] # None
      OBVIOUS
    <3>1. q # r /\ req'[q] = req[q] BY <1>3 DEF IdleJob
    <3>2. req[q].lawyer \in Lawyers /\ role[req[q].lawyer] # None
      BY <1>0, <3>1 DEF TeamTypeOK, IdleJob, AssignJob, RemoveJob
    <3> QED BY <1>1, <1>2, <3>1, <3>2, NoneOK
  <2>2. \A u \in removed' : role'[u] # None
    BY <1>0, <1>2 DEF TeamTypeOK
  <2> QED BY <1>2, <1>3, <2>1, <2>2 DEF TeamTypeOK
<1>5. \A q \in Requests : Handover(q)' => (q # r /\ Handover(q))
  BY <1>3 DEF Handover, IdleJob
<1>6. CASE req[r].role # "LEAD_ATTORNEY"
  <2>1. LeadAttorneys' \subseteq LeadAttorneys /\ \A u \in LeadAttorneys' : u # l /\ u \in Lawyers
    BY <1>2, <1>6 DEF LeadAttorneys, Active
  <2>2. \A u \in LeadAttorneys' : madeBy'[u] = madeBy[u] BY <1>2, <2>1
  <2> QED BY <1>4, <1>5, <2>1, <2>2, NoNewLead DEF IInv
<1>7. CASE req[r].role = "LEAD_ATTORNEY"
  <2>1. Handover(r) BY <1>7 DEF Handover
  <2>2. \A u \in LeadAttorneys : madeBy[u] \in Requests \ {r} /\ u \in Lawyers
    BY <2>1 DEF IInv, HandoverClear, LeadAttorneys, Active
  <2>3. \A u \in LeadAttorneys' \ {l} : u \in LeadAttorneys /\ madeBy'[u] = madeBy[u]
    BY <1>2, <2>2
  <2>4. LeadsOverlapped'
    BY <1>2, <2>2, <2>3 DEF IInv, LeadsOverlapped
  <2>5. HandoverClear'
    BY <1>2, <1>5, <2>3 DEF IInv, HandoverClear
  <2> QED BY <1>4, <2>4, <2>5 DEF IInv
<1> QED BY <1>6, <1>7

(* Every step but a write of an assignment. *)
LEMMA OtherPreserves ==
  ASSUME IInv, NEW r \in Requests,
         \/ \E u \in Lawyers, newRole \in Roles : AssignLawyer(r, u, newRole)
         \/ \E u \in Lawyers : RemoveAssignment(r, u)
         \/ Demote(r) \/ FindAssignment(r) \/ RemoveAssignmentRow(r) \/ TeamFail(r)
  PROVE  IInv'
<1>0. TeamTypeOK /\ LeadsOverlapped /\ HandoverClear BY DEF IInv
<1>1. CASE \E u \in Lawyers, newRole \in Roles : AssignLawyer(r, u, newRole)
  <2>1. PICK u \in Lawyers, newRole \in Roles : AssignLawyer(r, u, newRole) BY <1>1
  <2>2. UNCHANGED <<role, removed, madeBy>> BY <2>1 DEF AssignLawyer
  <2> DEFINE job == [op |-> "assign",
                     pc |-> IF newRole = "LEAD_ATTORNEY" THEN "demote" ELSE "find",
                     lawyer |-> u, role |-> newRole]
  <2>3. job \in AssignJob BY DEF AssignJob
  <2>4. req' = [req EXCEPT ![r] = job] BY <2>1 DEF AssignLawyer
  <2>5. ~(job.role = "LEAD_ATTORNEY" /\ job.pc # "demote") /\ job.pc # "update"
    OBVIOUS
  <2> HIDE DEF job
  <2>6. /\ req' \in [Requests -> {IdleJob} \cup AssignJob \cup RemoveJob]
        /\ req'[r] = job /\ \A q \in Requests \ {r} : req'[q] = req[q]
    BY <1>0, <2>3, <2>4 DEF TeamTypeOK
  <2>7. TeamTypeOK' BY <1>0, <2>2, <2>5, <2>6 DEF TeamTypeOK
  <2>8. \A q \in Requests : Handover(q)' => Handover(q)
    BY <2>5, <2>6 DEF Handover
  <2>9. LeadAttorneys' = LeadAttorneys BY <2>2 DEF LeadAttorneys, Active
  <2> QED BY <1>0, <2>2, <2>7, <2>8, <2>9, NoNewLead DEF IInv
<1>2. CASE \E u \in Lawyers : RemoveAssignment(r, u)
  <2>1. PICK u \in Lawyers : RemoveAssignment(r, u) BY <1>2
  <2>2. UNCHANGED <<role, removed, madeBy>> /\ u \in Active BY <2>1 DEF RemoveAssignment
  <2> DEFINE job == [op |-> "remove", pc |-> "update", lawyer |-> u]
  <2>3. job \in RemoveJob BY DEF RemoveJob
  <2>4. /\ req' \in [Requests -> {IdleJob} \cup AssignJob \cup RemoveJob]
        /\ req'[r] = job /\ \A q \in Requests \ {r} : req'[q] = req[q]
    BY <1>0, <2>1, <2>3 DEF TeamTypeOK, RemoveAssignment
  <2>5. TeamTypeOK' BY <1>0, <2>2, <2>4 DEF TeamTypeOK, Active
  <2>6. \A q \in Requests : Handover(q)' => Handover(q)
    BY <2>4 DEF Handover
  <2>7. LeadAttorneys' = LeadAttorneys BY <2>2 DEF LeadAttorneys, Active
  <2> QED BY <1>0, <2>2, <2>5, <2>6, <2>7, NoNewLead DEF IInv
<1>3. CASE Demote(r)
  <2>1. /\ role' = [u \in Lawyers |-> IF u \in LeadAttorneys THEN "CO_COUNSEL" ELSE role[u]]
        /\ req' = [req EXCEPT ![r].pc = "find"]
        /\ UNCHANGED <<removed, madeBy>> /\ req[r].op = "assign"
    BY <1>3 DEF Demote, Goto, Doing
  <2>2. req[r] \in AssignJob
    BY <1>0, <2>1, JobTyped DEF IdleJob, RemoveJob
  <2>3. [req[r] EXCEPT !.pc = "find"] \in AssignJob BY <2>2 DEF AssignJob
  <2>4. /\ req' \in [Requests -> {IdleJob} \cup AssignJob \cup RemoveJob]
        /\ req'[r] = [req[r] EXCEPT !.pc = "find"]
        /\ \A q \in Requests \ {r} : req'[q] = req[q]
    BY <1>0, <2>1, <2>3 DEF TeamTypeOK
  <2>5. req'[r].pc = "find" BY <2>2, <2>4 DEF AssignJob
  <2>6. \A u \in Lawyers : role[u] # None => role'[u] # None
    BY <2>1, NoneOK DEF Roles
  <2>7. role' \in [Lawyers -> Roles \cup {None}]
    BY <1>0, <2>1 DEF TeamTypeOK, Roles
  <2>8. TeamTypeOK'
    <3>1. \A q \in Requests : req'[q].pc = "update" => role'[req'[q].lawyer] # None
      <4> SUFFICES ASSUME NEW q \in Requests, req'[q].pc = "update"
                   PROVE  role'[req'[q].lawyer] # None
        OBVIOUS
      <4>1. q # r /\ req'[q] = req[q] BY <2>4, <2>5
      <4>2. req[q].lawyer \in Lawyers /\ role[req[q].lawyer] # None
        BY <1>0, <4>1 DEF TeamTypeOK, IdleJob, AssignJob, RemoveJob
      <4> QED BY <2>6, <4>1, <4>2
    <3>2. \A u \in removed' : role'[u] # None
      BY <1>0, <2>1, <2>6 DEF TeamTypeOK
    <3> QED BY <1>0, <2>1, <2>4, <2>7, <3>1, <3>2 DEF TeamTypeOK
  <2>9. LeadAttorneys' = {}
    BY <2>1 DEF LeadAttorneys, Active
  <2> QED BY <1>0, <2>8, <2>9, NoNewLead DEF IInv
<1>4. CASE FindAssignment(r)
  <2> DEFINE pc == IF role[req[r].lawyer] = None THEN "create" ELSE "update"
  <2>1. /\ req' = [req EXCEPT ![r].pc = pc]
        /\ UNCHANGED <<role, removed, madeBy>>
        /\ req[r].op = "assign" /\ req[r].pc = "find"
    BY <1>4 DEF FindAssignment, Goto, Doing
  <2>2. req[r] \in AssignJob
    BY <1>0, <2>1, JobTyped DEF IdleJob, RemoveJob
  <2>3. [req[r] EXCEPT !.pc = pc] \in AssignJob BY <2>2 DEF AssignJob
  <2>4. /\ req' \in [Requests -> {IdleJob} \cup AssignJob \cup RemoveJob]
        /\ req'[r] = [req[r] EXCEPT !.pc = pc]
        /\ \A q \in Requests \ {r} : req'[q] = req[q]
    BY <1>0, <2>1, <2>3 DEF TeamTypeOK
  <2>5. /\ req'[r].pc = pc /\ req'[r].lawyer = req[r].lawyer
        /\ req'[r].op = "assign" /\ req'[r].role = req[r].role
    BY <2>1, <2>2, <2>4 DEF AssignJob
  <2>6. TeamTypeOK' BY <1>0, <2>1, <2>4, <2>5 DEF TeamTypeOK
  <2>7. \A q \in Requests : Handover(q)' => Handover(q)
    BY <2>1, <2>4, <2>5 DEF Handover
  <2>8. LeadAttorneys' = LeadAttorneys BY <2>1 DEF LeadAttorneys, Active
  <2> QED BY <1>0, <2>1, <2>6, <2>7, <2>8, NoNewLead DEF IInv
<1>5. CASE RemoveAssignmentRow(r)
  <2>1. /\ removed' = removed \cup {req[r].lawyer}
        /\ UNCHANGED <<role, madeBy>>
        /\ req[r].op = "remove" /\ req[r].pc = "update"
        /\ req' = [req EXCEPT ![r] = IdleJob]
    BY <1>5 DEF RemoveAssignmentRow, Finish, Doing
  <2>2. /\ req' \in [Requests -> {IdleJob} \cup AssignJob \cup RemoveJob]
        /\ req'[r] = IdleJob /\ \A q \in Requests \ {r} : req'[q] = req[q]
    BY <1>0, <2>1 DEF TeamTypeOK
  <2>3. req[r].lawyer \in Lawyers BY <1>0, <2>1, JobTyped
  <2>4. TeamTypeOK' BY <1>0, <2>1, <2>2, <2>3 DEF TeamTypeOK, IdleJob
  <2>5. \A q \in Requests : Handover(q)' => Handover(q)
    BY <2>2 DEF Handover, IdleJob
  <2>6. LeadAttorneys' \subseteq LeadAttorneys BY <2>1 DEF LeadAttorneys, Active
  <2> QED BY <1>0, <2>1, <2>4, <2>5, <2>6, NoNewLead DEF IInv
<1>6. CASE TeamFail(r)
  <2>1. req' = [req EXCEPT ![r] = IdleJob] /\ UNCHANGED <<role, removed, madeBy>>
    BY <1>6 DEF TeamFail, Finish
  <2>2. /\ req' \in [Requests -> {IdleJob} \cup AssignJob \cup RemoveJob]
        /\ req'[r] = IdleJob /\ \A q \in Requests \ {r} : req'[q] = req[q]
    BY <1>0, <2>1 DEF TeamTypeOK
  <2>3. TeamTypeOK' BY <1>0, <2>1, <2>2 DEF TeamTypeOK, IdleJob
  <2>4. \A q \in Requests : Handover(q)' => Handover(q)
    BY <2>2 DEF Handover, IdleJob
  <2>5. LeadAttorneys' = LeadAttorneys BY <2>1 DEF LeadAttorneys, Active
  <2> QED BY <1>0, <2>1, <2>3, <2>4, <2>5, NoNewLead DEF IInv
<1> QED BY <1>1, <1>2, <1>3, <1>4, <1>5, <1>6

LEMMA TeamStarts == TeamInit => IInv
<1> SUFFICES ASSUME NEW lead \in Lawyers,
                    role = [u \in Lawyers |-> IF u = lead THEN "LEAD_ATTORNEY" ELSE None],
                    removed = {},
                    madeBy = [u \in Lawyers |-> IF u = lead THEN Creator ELSE None],
                    req = [r \in Requests |-> IdleJob]
             PROVE  IInv
  BY DEF TeamInit
<1>1. TeamTypeOK BY DEF TeamTypeOK, Roles, IdleJob
<1>2. LeadAttorneys \subseteq {lead} BY NoneOK DEF LeadAttorneys, Active, Roles
<1>3. LeadsOverlapped BY <1>2 DEF LeadsOverlapped
<1>4. HandoverClear BY DEF HandoverClear, Handover, IdleJob
<1> QED BY <1>1, <1>3, <1>4 DEF IInv

LEMMA TeamSteps == IInv /\ [TeamNext]_teamVars => IInv'
<1> SUFFICES ASSUME IInv, [TeamNext]_teamVars PROVE IInv'
  OBVIOUS
<1>1. ASSUME NEW r \in Requests,
             \/ \E u \in Lawyers, newRole \in Roles : AssignLawyer(r, u, newRole)
             \/ \E u \in Lawyers : RemoveAssignment(r, u)
             \/ Demote(r) \/ FindAssignment(r) \/ RemoveAssignmentRow(r) \/ TeamFail(r)
      PROVE  IInv'
  BY <1>1, OtherPreserves
<1>2. ASSUME NEW r \in Requests, UpdateAssignment(r) PROVE IInv'
  BY <1>2, WritePreserves DEF UpdateAssignment, Doing
<1>3. ASSUME NEW r \in Requests, CreateAssignment(r) PROVE IInv'
  <2>1. CASE WriteAssignment(r)
    BY <1>3, <2>1, WritePreserves DEF CreateAssignment, Doing
  <2>2. CASE UNCHANGED <<role, removed, madeBy>>
    <3>1. TeamFail(r) BY <1>3, <2>2 DEF CreateAssignment, Doing, TeamFail, IdleJob
    <3> QED BY <1>1, <3>1
  <2> QED BY <1>3, <2>1, <2>2 DEF CreateAssignment
<1>4. CASE UNCHANGED teamVars
  <2>1. TeamTypeOK' BY <1>4 DEF IInv, TeamTypeOK, teamVars
  <2>2. LeadAttorneys' = LeadAttorneys /\ madeBy' = madeBy /\ req' = req
    BY <1>4 DEF LeadAttorneys, Active, teamVars
  <2>3. LeadsOverlapped' BY <2>2 DEF IInv, LeadsOverlapped
  <2>4. HandoverClear' BY <2>2 DEF IInv, HandoverClear, Handover
  <2> QED BY <2>1, <2>3, <2>4 DEF IInv
<1> QED BY <1>1, <1>2, <1>3, <1>4 DEF TeamNext

(* The invariant of a team: see HandoverClear for what it adds. *)
THEOREM Inductive == TeamSpec => []IInv
BY TeamStarts, TeamSteps, PTL DEF TeamSpec

(* The variables of a team have their types. *)
THEOREM TypeCorrect == TeamSpec => []TeamTypeOK
<1>1. IInv => TeamTypeOK BY DEF IInv
<1> QED BY <1>1, Inductive, PTL

(* Two lawyers lead at once only through requests that overlapped.          *)
THEOREM LeadsFromOverlap == TeamSpec => []LeadsOverlapped
<1>1. IInv => LeadsOverlapped BY DEF IInv
<1> QED BY <1>1, Inductive, PTL

-----------------------------------------------------------------------------
(****************************************************************************)
(* The doors of a case.  The standing that a caller has now is among those  *)
(* it had since it was let in, one of which was enough; only calls let in   *)
(* as a lead's change the team; and the call that left the case without a   *)
(* lead is on record.                                                       *)
(****************************************************************************)
CallHeld(r) ==
  call[r] # NoCall =>
    /\ call[r] \in Call
    /\ StandingNow(call[r].by) \in call[r].was
    /\ \/ call[r].by = Exempt
       \/ call[r].by \in Authors /\ call[r].endpoint = "note"
       \/ call[r].was \cap Enough(call[r].endpoint) # {}

TeamCalls(r) == ~Idle(r) => call[r] # NoCall /\ call[r].endpoint \in {"assign", "unassign"}

LeaderlessKnown ==
  LeadAttorneys = {} =>
    /\ leaderless \in [by : Callers, was : SUBSET Standings, ousted : SUBSET Lawyers]
    /\ LeaderlessExplained

AccessInv ==
  /\ IInv /\ AccessTypeOK
  /\ \A r \in Requests : CallHeld(r) /\ TeamCalls(r)
  /\ LeaderlessKnown

LEMMA AccessFacts ==
  ASSUME AccessInv
  PROVE  /\ IInv /\ TeamTypeOK /\ call \in [Requests -> Call \cup {NoCall}]
         /\ leaderless \in {NoCall} \cup [by : Callers, was : SUBSET Standings, ousted : SUBSET Lawyers]
         /\ \A r \in Requests : CallHeld(r) /\ TeamCalls(r)
         /\ LeaderlessKnown /\ NoCall \notin Call
BY DEF AccessInv, AccessTypeOK, NoCall, Call, Endpoints

LEMMA StandingIs ==
  ASSUME NEW roles, NEW gone, NEW u
  PROVE  StandingIn(roles, gone, u) \in Standings
BY DEF StandingIn, Standings

(* A lead is who is found to be one. *)
LEMMA LeadStands ==
  ASSUME NEW u \in Lawyers
  PROVE  StandingNow(u) = "lead" <=> u \in LeadAttorneys
BY ExemptOK, NoneOK DEF StandingNow, StandingIn, LeadAttorneys, Active, Roles

(* What a step of the team leaves of the calls: all go on but the one that  *)
(* is done or new.                                                          *)
LEMMA CallsGoOn ==
  ASSUME AccessInv, IInv', NEW r \in Requests, NEW c, Continue(r, c),
         c = NoCall \/ (c \in [endpoint : Endpoints, by : Callers, was : SUBSET Standings]
                        /\ (\/ c.by = Exempt
                            \/ c.by \in Authors /\ c.endpoint = "note"
                            \/ c.was \cap Enough(c.endpoint) # {}
                            \/ StandingIn(role', removed', c.by) \in Enough(c.endpoint))),
         \A u \in Lawyers : role[u] # None => role'[u] # None
  PROVE  /\ call' \in [Requests -> Call \cup {NoCall}]
         /\ \A q \in Requests : CallHeld(q)'
         /\ \A q \in Requests \ {r} : (call'[q] = NoCall <=> call[q] = NoCall)
              /\ (call[q] # NoCall => call'[q].endpoint = call[q].endpoint)
         /\ (call'[r] = NoCall <=> c = NoCall)
         /\ c # NoCall => call'[r].endpoint = c.endpoint
<1>1. /\ call \in [Requests -> Call \cup {NoCall}] /\ NoCall \notin Call
      /\ \A q \in Requests : CallHeld(q)
  BY AccessFacts
<1>2. PICK before :
        before = [q \in Requests |-> IF q = r THEN c ELSE call[q]]
  OBVIOUS
<1>3. ASSUME NEW q \in Requests, before[q] # NoCall
      PROVE  /\ before[q] \in Call
             /\ \/ before[q].by = Exempt
                \/ before[q].by \in Authors /\ before[q].endpoint = "note"
                \/ before[q].was \cap Enough(before[q].endpoint) # {}
                \/ StandingIn(role', removed', before[q].by) \in Enough(before[q].endpoint)
  <2>1. CASE q = r BY <1>2, <1>3, <2>1 DEF Call
  <2>2. CASE q # r BY <1>1, <1>2, <1>3, <2>2 DEF CallHeld
  <2> QED BY <2>1, <2>2
<1>4. call' = [q \in Requests |->
        IF before[q] = NoCall THEN NoCall
        ELSE [before[q] EXCEPT !.was = @ \cup {StandingIn(role', removed', before[q].by)}]]
  BY <1>2 DEF Continue
<1>5. ASSUME NEW q \in Requests
      PROVE  /\ before[q] = NoCall => call'[q] = NoCall
             /\ before[q] # NoCall =>
                  /\ call'[q] \in Call /\ call'[q] # NoCall
                  /\ call'[q].endpoint = before[q].endpoint /\ call'[q].by = before[q].by
                  /\ call'[q].was = before[q].was \cup {StandingIn(role', removed', before[q].by)}
  <2>1. CASE before[q] = NoCall BY <1>4, <2>1
  <2>2. CASE before[q] # NoCall
    <3>1. PICK s : s = StandingIn(role', removed', before[q].by) OBVIOUS
    <3>2. s \in Standings BY <3>1, StandingIs
    <3>3. before[q] \in Call BY <1>3, <2>2
    <3>4. call'[q] = [before[q] EXCEPT !.was = before[q].was \cup {s}]
      BY <1>4, <2>2, <3>1
    <3>5. /\ call'[q] \in Call /\ call'[q].endpoint = before[q].endpoint
          /\ call'[q].by = before[q].by /\ call'[q].was = before[q].was \cup {s}
      BY <3>2, <3>3, <3>4 DEF Call
    <3> QED BY <1>1, <2>2, <3>1, <3>5
  <2> QED BY <2>1, <2>2
<1>6. Authors \subseteq Authors' BY DEF Authors
<1>7. ASSUME NEW q \in Requests PROVE CallHeld(q)'
  <2>1. CASE before[q] = NoCall BY <1>5, <2>1 DEF CallHeld
  <2>2. CASE before[q] # NoCall
    <3>1. /\ call'[q] \in Call /\ call'[q] # NoCall
          /\ call'[q].endpoint = before[q].endpoint /\ call'[q].by = before[q].by
          /\ call'[q].was = before[q].was \cup {StandingIn(role', removed', before[q].by)}
      BY <1>5, <2>2
    <3>2. StandingNow(call[q].by)' = StandingIn(role', removed', before[q].by)
      BY <3>1 DEF StandingNow, StandingIn
    <3>3. (call[q].was \cap Enough(call[q].endpoint))' = call'[q].was \cap Enough(call'[q].endpoint)
      BY DEF Enough
    <3> QED BY <1>3, <1>6, <2>2, <3>1, <3>2, <3>3 DEF CallHeld
  <2> QED BY <2>1, <2>2
<1>8. call' \in [Requests -> Call \cup {NoCall}]
  <2>1. \A q \in Requests : call'[q] \in Call \cup {NoCall} BY <1>5
  <2> QED BY <1>4, <2>1
<1>9. \A q \in Requests \ {r} : before[q] = call[q] BY <1>2
<1>10. before[r] = c BY <1>2
<1> QED BY <1>5, <1>7, <1>8, <1>9, <1>10

(* What a step of r's call to assign or unassign does to the team. *)
TeamStep(r) ==
  \/ \E u \in Lawyers, newRole \in {"LEAD_ATTORNEY", "CO_COUNSEL"} : AssignLawyer(r, u, newRole)
  \/ \E u \in Lawyers : RemoveAssignment(r, u)
  \/ Demote(r) \/ FindAssignment(r) \/ UpdateAssignment(r) \/ CreateAssignment(r)
  \/ RemoveAssignmentRow(r)

LEMMA TeamStepKeeps ==
  ASSUME IInv, NEW r \in Requests, TeamStep(r)
  PROVE  IInv'
<1>1. CASE \/ \E u \in Lawyers, newRole \in {"LEAD_ATTORNEY", "CO_COUNSEL"} : AssignLawyer(r, u, newRole)
           \/ \E u \in Lawyers : RemoveAssignment(r, u)
           \/ Demote(r) \/ FindAssignment(r) \/ RemoveAssignmentRow(r)
  <2>1. \/ \E u \in Lawyers, newRole \in Roles : AssignLawyer(r, u, newRole)
        \/ \E u \in Lawyers : RemoveAssignment(r, u)
        \/ Demote(r) \/ FindAssignment(r) \/ RemoveAssignmentRow(r) \/ TeamFail(r)
    BY <1>1 DEF Roles
  <2> QED BY <2>1, OtherPreserves
<1>2. CASE UpdateAssignment(r)
  BY <1>2, WritePreserves DEF UpdateAssignment, Doing
<1>3. CASE CreateAssignment(r)
  <2>1. CASE WriteAssignment(r)
    BY <1>3, <2>1, WritePreserves DEF CreateAssignment, Doing
  <2>2. CASE UNCHANGED <<role, removed, madeBy>>
    <3>1. TeamFail(r) BY <1>3, <2>2 DEF CreateAssignment, Doing, TeamFail, IdleJob
    <3> QED BY <3>1, OtherPreserves
  <2> QED BY <1>3, <2>1, <2>2 DEF CreateAssignment
<1> QED BY <1>1, <1>2, <1>3 DEF TeamStep

(* The rows of the team stay, and no other request moves. *)
LEMMA TeamStepRows ==
  ASSUME IInv, NEW r \in Requests, TeamStep(r)
  PROVE  /\ \A u \in Lawyers : role[u] # None => role'[u] # None
         /\ \A q \in Requests \ {r} : req'[q] = req[q]
<1>0. TeamTypeOK BY DEF IInv
<1>1. \A q \in Requests \ {r} : req'[q] = req[q]
  <2>1. req \in [Requests -> {IdleJob} \cup AssignJob \cup RemoveJob] BY <1>0 DEF TeamTypeOK
  <2>2. CASE \E u \in Lawyers, newRole \in {"LEAD_ATTORNEY", "CO_COUNSEL"} : AssignLawyer(r, u, newRole)
    BY <2>1, <2>2 DEF AssignLawyer
  <2>3. CASE \E u \in Lawyers : RemoveAssignment(r, u)
    BY <2>1, <2>3 DEF RemoveAssignment
  <2>4. CASE Demote(r) BY <2>1, <2>4 DEF Demote, Goto
  <2>5. CASE FindAssignment(r) BY <2>1, <2>5 DEF FindAssignment, Goto
  <2>6. CASE UpdateAssignment(r) BY <2>1, <2>6 DEF UpdateAssignment, Finish
  <2>7. CASE CreateAssignment(r) BY <2>1, <2>7 DEF CreateAssignment, Finish
  <2>8. CASE RemoveAssignmentRow(r) BY <2>1, <2>8 DEF RemoveAssignmentRow, Finish
  <2> QED BY <2>2, <2>3, <2>4, <2>5, <2>6, <2>7, <2>8 DEF TeamStep
<1>2. ASSUME NEW u \in Lawyers, role[u] # None PROVE role'[u] # None
  <2>1. CASE role' = role BY <1>2, <2>1
  <2>2. CASE Demote(r)
    <3>1. role'[u] = IF u \in LeadAttorneys THEN "CO_COUNSEL" ELSE role[u] BY <2>2 DEF Demote
    <3> QED BY <1>2, <3>1, NoneOK DEF Roles
  <2>3. CASE WriteAssignment(r) /\ req[r].op = "assign"
    <3>1. req[r].lawyer \in Lawyers /\ req[r].role \in Roles BY <1>0, <2>3, JobTyped
    <3>2. /\ role'[req[r].lawyer] = req[r].role
          /\ \A v \in Lawyers \ {req[r].lawyer} : role'[v] = role[v]
      BY <1>0, <2>3, <3>1, WriteLeads
    <3> QED BY <1>2, <3>1, <3>2, NoneOK
  <2>4. role' = role \/ Demote(r) \/ (WriteAssignment(r) /\ req[r].op = "assign")
    BY DEF TeamStep, AssignLawyer, RemoveAssignment, FindAssignment, UpdateAssignment,
           CreateAssignment, RemoveAssignmentRow, Doing
  <2> QED BY <2>1, <2>2, <2>3, <2>4
<1> QED BY <1>1, <1>2

(* A step of the team is of a call that assigns or unassigns. *)
LEMMA TeamStepCall ==
  ASSUME AccessInv, NEW r \in Requests, ChangeTheTeam(r)
  PROVE  /\ TeamStep(r) /\ call[r] # NoCall /\ call[r].endpoint \in {"assign", "unassign"}
<1>1. TeamCalls(r) BY AccessFacts
<1>2. TeamStep(r) BY DEF ChangeTheTeam, TeamStep
<1>3. CASE call[r].endpoint \in {"assign", "unassign"}
  BY <1>2, <1>3 DEF NoCall
<1>4. CASE Demote(r) \/ FindAssignment(r) \/ UpdateAssignment(r) \/ CreateAssignment(r)
           \/ RemoveAssignmentRow(r)
  <2>1. ~Idle(r)
    BY <1>4 DEF Demote, FindAssignment, UpdateAssignment, CreateAssignment,
       RemoveAssignmentRow, Doing, Idle, IdleJob
  <2> QED BY <1>1, <1>2, <2>1 DEF TeamCalls
<1> QED BY <1>3, <1>4 DEF ChangeTheTeam

(* The call that leaves the case without a lead is the lead's own, or of    *)
(* one unseated meanwhile. *)
LEMMA LeadGoesExplained ==
  ASSUME AccessInv, NEW r \in Requests, ChangeTheTeam(r)
  PROVE  /\ leaderless' \in {NoCall} \cup [by : Callers, was : SUBSET Standings, ousted : SUBSET Lawyers]
         /\ LeaderlessKnown'
<1>1. /\ leaderless \in {NoCall} \cup [by : Callers, was : SUBSET Standings, ousted : SUBSET Lawyers]
      /\ CallHeld(r) /\ LeaderlessKnown
  BY AccessFacts
<1>2. call[r] # NoCall /\ call[r].endpoint \in {"assign", "unassign"} BY TeamStepCall
<1>3. leaderless' = IF LeadAttorneys' # {} THEN NoCall
                    ELSE IF LeadAttorneys = {} THEN leaderless
                    ELSE [by |-> call[r].by, was |-> call[r].was, ousted |-> LeadAttorneys]
  BY DEF ChangeTheTeam
<1>4. CASE LeadAttorneys' # {}
  BY <1>3, <1>4 DEF LeaderlessKnown
<1>5. CASE LeadAttorneys' = {} /\ LeadAttorneys = {}
  <2>1. leaderless' = leaderless BY <1>3, <1>5
  <2> QED BY <1>1, <1>5, <2>1 DEF LeaderlessKnown, LeaderlessExplained
<1>6. CASE LeadAttorneys' = {} /\ LeadAttorneys # {}
  <2>1. leaderless' = [by |-> call[r].by, was |-> call[r].was, ousted |-> LeadAttorneys]
    BY <1>3, <1>6
  <2>2. /\ call[r] \in Call /\ StandingNow(call[r].by) \in call[r].was
        /\ call[r].by = Exempt \/ call[r].was \cap {"lead"} # {}
    BY <1>1, <1>2 DEF CallHeld, Enough
  <2>3. LeadAttorneys \subseteq Lawyers BY DEF LeadAttorneys, Active
  <2>4. leaderless' \in [by : Callers, was : SUBSET Standings, ousted : SUBSET Lawyers]
    BY <2>1, <2>2, <2>3 DEF Call
  <2>5. /\ leaderless'.by = call[r].by /\ leaderless'.was = call[r].was
        /\ leaderless'.ousted = LeadAttorneys
    BY <2>1
  <2>6. LeaderlessExplained'
    <3>1. CASE call[r].by = Exempt BY <2>5, <3>1 DEF LeaderlessExplained
    <3>2. CASE call[r].by # Exempt
      <4>1. call[r].by \in Lawyers /\ "lead" \in call[r].was
        BY <2>2, <3>2 DEF Call, Callers
      <4>2. StandingNow(call[r].by) = "lead" <=> call[r].by \in LeadAttorneys
        BY <4>1, LeadStands
      <4>3. CASE call[r].by \in LeadAttorneys BY <2>5, <4>3 DEF LeaderlessExplained
      <4>4. CASE call[r].by \notin LeadAttorneys
        <5>1. call[r].was # {"lead"} BY <2>2, <4>2, <4>4
        <5> QED BY <2>5, <4>1, <5>1 DEF LeaderlessExplained
      <4> QED BY <4>3, <4>4
    <3> QED BY <3>1, <3>2
  <2> QED BY <2>4, <2>6 DEF LeaderlessKnown
<1> QED BY <1>4, <1>5, <1>6

LEMMA AccessParts ==
  ASSUME IInv', call' \in [Requests -> Call \cup {NoCall}],
         leaderless' \in {NoCall} \cup [by : Callers, was : SUBSET Standings, ousted : SUBSET Lawyers],
         \A q \in Requests : CallHeld(q)' /\ TeamCalls(q)', LeaderlessKnown'
  PROVE  AccessInv'
<1>1. \A q \in Requests : ~Idle(q)' => call'[q] # NoCall BY DEF TeamCalls
<1>2. TeamTypeOK' BY DEF IInv
<1>3. AccessTypeOK' BY <1>1, <1>2 DEF AccessTypeOK
<1> QED BY <1>3 DEF AccessInv

LEMMA ChangeTheTeamHolds ==
  ASSUME AccessInv, NEW r \in Requests, ChangeTheTeam(r)
  PROVE  AccessInv'
<1>1. IInv /\ \A q \in Requests : CallHeld(q) /\ TeamCalls(q) BY AccessFacts
<1>2. TeamStep(r) /\ call[r] # NoCall /\ call[r].endpoint \in {"assign", "unassign"}
  BY TeamStepCall
<1>3. IInv' BY <1>1, <1>2, TeamStepKeeps
<1>4. /\ \A u \in Lawyers : role[u] # None => role'[u] # None
      /\ \A q \in Requests \ {r} : req'[q] = req[q]
  BY <1>1, <1>2, TeamStepRows
<1>5. /\ leaderless' \in {NoCall} \cup [by : Callers, was : SUBSET Standings, ousted : SUBSET Lawyers]
      /\ LeaderlessKnown'
  BY LeadGoesExplained
<1>6. PICK c : c = IF req'[r] = IdleJob THEN NoCall ELSE call[r] OBVIOUS
<1>7. Continue(r, c) BY <1>6 DEF ChangeTheTeam
<1>8. c = NoCall \/ (c \in [endpoint : Endpoints, by : Callers, was : SUBSET Standings]
                     /\ (\/ c.by = Exempt
                         \/ c.by \in Authors /\ c.endpoint = "note"
                         \/ c.was \cap Enough(c.endpoint) # {}
                         \/ StandingIn(role', removed', c.by) \in Enough(c.endpoint)))
  BY <1>1, <1>2, <1>6 DEF CallHeld, Call
<1>9. /\ call' \in [Requests -> Call \cup {NoCall}]
      /\ \A q \in Requests : CallHeld(q)'
      /\ \A q \in Requests \ {r} : (call'[q] = NoCall <=> call[q] = NoCall)
           /\ (call[q] # NoCall => call'[q].endpoint = call[q].endpoint)
      /\ (call'[r] = NoCall <=> c = NoCall)
      /\ c # NoCall => call'[r].endpoint = c.endpoint
  BY <1>3, <1>4, <1>7, <1>8, CallsGoOn
<1>10. ASSUME NEW q \in Requests PROVE TeamCalls(q)'
  <2>1. CASE q = r BY <1>2, <1>6, <1>9, <2>1 DEF TeamCalls, Idle
  <2>2. CASE q # r BY <1>1, <1>4, <1>9, <2>2 DEF TeamCalls, Idle
  <2> QED BY <2>1, <2>2
<1> QED BY <1>3, <1>5, <1>9, <1>10, AccessParts

(* The steps that leave the team's rows alone. *)
LEMMA QuietStepHolds ==
  ASSUME AccessInv, NEW r \in Requests, NEW c, Continue(r, c), IInv',
         UNCHANGED <<role, removed, madeBy, leaderless>>,
         \A q \in Requests \ {r} : req'[q] = req[q],
         req'[r] = IdleJob,
         c = NoCall \/ (c \in [endpoint : Endpoints, by : Callers, was : SUBSET Standings]
                        /\ (\/ c.by = Exempt
                            \/ c.by \in Authors /\ c.endpoint = "note"
                            \/ StandingNow(c.by) \in Enough(c.endpoint)))
  PROVE  AccessInv'
<1>1. /\ IInv /\ \A q \in Requests : CallHeld(q) /\ TeamCalls(q)
      /\ leaderless \in {NoCall} \cup [by : Callers, was : SUBSET Standings, ousted : SUBSET Lawyers]
      /\ LeaderlessKnown
  BY AccessFacts
<1>2. \A u \in Lawyers : role[u] # None => role'[u] # None OBVIOUS
<1>3. c = NoCall \/ (c \in [endpoint : Endpoints, by : Callers, was : SUBSET Standings]
                     /\ (\/ c.by = Exempt
                         \/ c.by \in Authors /\ c.endpoint = "note"
                         \/ c.was \cap Enough(c.endpoint) # {}
                         \/ StandingIn(role', removed', c.by) \in Enough(c.endpoint)))
  BY DEF StandingNow
<1>4. /\ call' \in [Requests -> Call \cup {NoCall}]
      /\ \A q \in Requests : CallHeld(q)'
      /\ \A q \in Requests \ {r} : (call'[q] = NoCall <=> call[q] = NoCall)
           /\ (call[q] # NoCall => call'[q].endpoint = call[q].endpoint)
      /\ (call'[r] = NoCall <=> c = NoCall)
      /\ c # NoCall => call'[r].endpoint = c.endpoint
  BY <1>2, <1>3, CallsGoOn
<1>5. ASSUME NEW q \in Requests PROVE TeamCalls(q)'
  <2>1. CASE q = r BY <2>1 DEF TeamCalls, Idle
  <2>2. CASE q # r BY <1>1, <1>4, <2>2 DEF TeamCalls, Idle
  <2> QED BY <2>1, <2>2
<1>6. LeadAttorneys' = LeadAttorneys BY DEF LeadAttorneys, Active
<1>7. LeaderlessKnown' BY <1>1, <1>6 DEF LeaderlessKnown, LeaderlessExplained
<1> QED BY <1>1, <1>4, <1>5, <1>7, AccessParts

LEMMA RestingTeam ==
  ASSUME IInv, UNCHANGED <<role, removed, madeBy, req>>
  PROVE  IInv'
<1>1. TeamTypeOK' BY DEF IInv, TeamTypeOK
<1>2. LeadAttorneys' = LeadAttorneys BY DEF LeadAttorneys, Active
<1>3. LeadsOverlapped' BY <1>2 DEF IInv, LeadsOverlapped
<1>4. HandoverClear' BY <1>2 DEF IInv, HandoverClear, Handover
<1> QED BY <1>1, <1>3, <1>4 DEF IInv

LEMMA EnterHolds ==
  ASSUME AccessInv, NEW r \in Requests, NEW by \in Callers, NEW endpoint \in Endpoints,
         Enter(r, by, endpoint)
  PROVE  AccessInv'
<1>1. /\ call[r] = NoCall /\ LetIn(by, endpoint)
      /\ UNCHANGED <<role, removed, madeBy, req, leaderless>>
      /\ Continue(r, [endpoint |-> endpoint, by |-> by, was |-> {}])
  BY DEF Enter, teamVars
<1>2. IInv /\ TeamCalls(r) BY AccessFacts
<1>3. IInv' BY <1>1, <1>2, RestingTeam
<1>4. req'[r] = IdleJob BY <1>1, <1>2 DEF TeamCalls, Idle
<1>5. PICK c : c = [endpoint |-> endpoint, by |-> by, was |-> {}] OBVIOUS
<1>6. /\ c \in [endpoint : Endpoints, by : Callers, was : SUBSET Standings]
      /\ c.by = by /\ c.endpoint = endpoint
  BY <1>5
<1>7. \/ c.by = Exempt
      \/ c.by \in Authors /\ c.endpoint = "note"
      \/ StandingNow(c.by) \in Enough(c.endpoint)
  BY <1>1, <1>6 DEF LetIn
<1> QED BY <1>1, <1>3, <1>4, <1>5, <1>6, <1>7, QuietStepHolds

LEMMA ActOnCaseHolds ==
  ASSUME AccessInv, NEW r \in Requests, ActOnCase(r)
  PROVE  AccessInv'
<1>1. /\ call[r].endpoint \in {"edit", "work", "note"}
      /\ UNCHANGED <<role, removed, madeBy, req, leaderless>> /\ Continue(r, NoCall)
  BY DEF ActOnCase, teamVars
<1>2. IInv /\ TeamCalls(r) BY AccessFacts
<1>3. IInv' BY <1>1, <1>2, RestingTeam
<1>4. req'[r] = IdleJob BY <1>1, <1>2 DEF TeamCalls, Idle
<1> QED BY <1>1, <1>3, <1>4, QuietStepHolds

LEMMA GiveUpHolds ==
  ASSUME AccessInv, NEW r \in Requests, GiveUp(r)
  PROVE  AccessInv'
<1>1. UNCHANGED leaderless /\ Continue(r, NoCall) BY DEF GiveUp
<1>2. IInv /\ TeamTypeOK BY AccessFacts
<1>3. CASE Idle(r)
  <2>1. UNCHANGED <<role, removed, madeBy, req>> BY <1>3 DEF GiveUp, teamVars
  <2>2. IInv' BY <1>2, <2>1, RestingTeam
  <2> QED BY <1>1, <1>3, <2>1, <2>2, QuietStepHolds DEF Idle
<1>4. CASE ~Idle(r)
  <2>1. TeamFail(r) BY <1>4 DEF GiveUp
  <2>2. IInv' BY <1>2, <2>1, OtherPreserves
  <2>3. /\ UNCHANGED <<role, removed, madeBy>> /\ req'[r] = IdleJob
        /\ \A q \in Requests \ {r} : req'[q] = req[q]
    BY <1>2, <2>1 DEF TeamFail, Finish, TeamTypeOK
  <2> QED BY <1>1, <2>2, <2>3, QuietStepHolds
<1> QED BY <1>3, <1>4

LEMMA RestingAccess ==
  ASSUME AccessInv, UNCHANGED <<role, removed, madeBy, req, call, leaderless>>
  PROVE  AccessInv'
<1>1. /\ IInv /\ call \in [Requests -> Call \cup {NoCall}]
      /\ leaderless \in {NoCall} \cup [by : Callers, was : SUBSET Standings, ousted : SUBSET Lawyers]
      /\ \A q \in Requests : CallHeld(q) /\ TeamCalls(q)
      /\ LeaderlessKnown
  BY AccessFacts
<1>2. IInv' BY <1>1, RestingTeam
<1>3. LeadAttorneys' = LeadAttorneys BY DEF LeadAttorneys, Active
<1>4. LeaderlessKnown' BY <1>1, <1>3 DEF LeaderlessKnown, LeaderlessExplained
<1>5. \A q \in Requests : TeamCalls(q)' BY <1>1 DEF TeamCalls, Idle
<1>6. \A q \in Requests : CallHeld(q)'
  BY <1>1 DEF CallHeld, StandingNow, StandingIn, Authors, Enough
<1> QED BY <1>1, <1>2, <1>4, <1>5, <1>6, AccessParts

LEMMA AccessSteps ==
  ASSUME AccessInv, [AccessNext]_<<teamVars, accessVars>>
  PROVE  AccessInv'
<1>1. CASE AccessNext
  BY <1>1, EnterHolds, ChangeTheTeamHolds, ActOnCaseHolds, GiveUpHolds DEF AccessNext
<1>2. CASE UNCHANGED <<teamVars, accessVars>>
  BY <1>2, RestingAccess DEF teamVars, accessVars
<1> QED BY <1>1, <1>2

LEMMA AccessStarts ==
  ASSUME AccessInit PROVE AccessInv
<1>1. PICK lead \in Lawyers :
        /\ role = [u \in Lawyers |-> IF u = lead THEN "LEAD_ATTORNEY" ELSE None]
        /\ removed = {}
        /\ madeBy = [u \in Lawyers |-> IF u = lead THEN Creator ELSE None]
        /\ req = [r \in Requests |-> IdleJob]
  BY DEF AccessInit, TeamInit
<1>2. call = [r \in Requests |-> NoCall] /\ leaderless = NoCall BY DEF AccessInit
<1>3. TeamTypeOK BY <1>1 DEF TeamTypeOK, Roles, IdleJob
<1>4. LeadAttorneys = {lead} BY <1>1, NoneOK DEF LeadAttorneys, Active, Roles
<1>5. LeadsOverlapped BY <1>4 DEF LeadsOverlapped
<1>6. HandoverClear BY <1>1 DEF HandoverClear, Handover, IdleJob
<1>7. \A r \in Requests : CallHeld(r) /\ TeamCalls(r)
  BY <1>1, <1>2 DEF CallHeld, TeamCalls, Idle
<1>8. LeaderlessKnown BY <1>4 DEF LeaderlessKnown
<1>9. AccessTypeOK BY <1>1, <1>2, <1>3 DEF AccessTypeOK, Idle
<1> QED BY <1>3, <1>5, <1>6, <1>7, <1>8, <1>9 DEF AccessInv, IInv

LEMMA AccessInductive == AccessSpec => []AccessInv
BY AccessStarts, AccessSteps, PTL DEF AccessSpec

LEMMA AccessIsSound ==
  ASSUME AccessInv PROVE AccessSound
<1>1. LeaderlessExplained BY AccessFacts DEF LeaderlessKnown, LeaderlessExplained
<1>2. LateCallsOnly BY AccessFacts DEF CallHeld, LateCallsOnly
<1> QED BY <1>1, <1>2 DEF AccessSound

(* Whoever acts on a case was entitled to it at some moment since the call  *)
(* was let in (or writes a note of its own), and only the lead itself, one  *)
(* who was unseated during the call, or one who needs no assignment leaves  *)
(* a case without a lead.                                                   *)
THEOREM DoorsAreKept == AccessSpec => []AccessSound
<1>1. AccessInv => AccessSound BY AccessIsSound
<1> QED BY <1>1, AccessInductive, PTL

-----------------------------------------------------------------------------
(****************************************************************************)
(* A case's timeline.  A row being added is no one else's and not there     *)
(* before its insert, the rows of the other handlers are; one to be told as *)
(* completed is not open any more.                                          *)
(****************************************************************************)
HandlerHeld(r) ==
  /\ Doing(r, "add", "write") =>
       /\ item[req[r].item] = None
       /\ \A q \in Requests \ {r} : ~Idle(q) => req[q].item # req[r].item
  /\ ~Idle(r) /\ ~Doing(r, "add", "write") => item[req[r].item] # None
  /\ Doing(r, "complete", "entry") => item[req[r].item].state # "open"

CompletedStands ==
  \A n \in DOMAIN timeline : timeline[n].event = "COMPLETED" => item[timeline[n].item] # None

(* What a reader at a page has not seen lies before the cursor, or shares   *)
(* its time with what was seen.                                             *)
ReadingHeld ==
  reading.pc # "none" =>
    /\ reading.twice = {}
    /\ reading.asked \subseteq DOMAIN timeline /\ reading.seen \subseteq DOMAIN timeline
    /\ reading.before = None /\ reading.pc = "page" => reading.seen = {}
    /\ reading.before # None => \A m \in reading.seen : timeline[m].at >= reading.before
    /\ \A n \in reading.asked \ reading.seen :
         \/ reading.pc = "page" /\ n \in Before(reading.before)
         \/ \E m \in reading.seen : timeline[m].at = timeline[n].at

CaseWorkInv ==
  /\ CaseWorkTypeOK
  /\ \A r \in Requests : HandlerHeld(r)
  /\ CompletedStands /\ TimelineTells /\ ReadingHeld

(* A nonempty set of numbers has a least one. *)
LEMMA LeastOf ==
  ASSUME NEW S \in SUBSET Nat, S # {}
  PROVE  Min(S) \in S /\ \A m \in S : Min(S) <= m
<1> DEFINE R == OpToRel(<, Nat)
<1>1. IsWellFoundedOn(R, Nat) BY NatLessThanWellFounded
<1>2. \A n, m \in Nat : <<m, n>> \in R <=> m < n BY DEF OpToRel
<1> HIDE DEF R
<1>3. PICK n \in S : \A m \in S : ~(<<m, n>> \in R) BY <1>1, WFMin
<1>4. ASSUME NEW m \in S PROVE n <= m
  <2>1. m \in Nat /\ n \in Nat /\ ~(m < n) BY <1>2, <1>3
  <2> QED BY <2>1
<1> QED BY <1>4 DEF Min

(* What of the timeline stays as an entry is added. *)
LEMMA EntryAdded ==
  ASSUME NEW t, NEW n \in Nat, t \in [1..n -> Entry], NEW e \in Entry
  PROVE  /\ Len(t) = n
         /\ Append(t, e) \in [1..(n + 1) -> Entry]
         /\ Append(t, e)[n + 1] = e
         /\ \A i \in 1..n : Append(t, e)[i] = t[i]
<1>1. t \in Seq(Entry) BY SeqDef
<1>2. Len(t) = n BY <1>1
<1>3. /\ Append(t, e) \in Seq(Entry) /\ Len(Append(t, e)) = n + 1
      /\ Append(t, e)[n + 1] = e
      /\ \A i \in 1..n : Append(t, e)[i] = t[i]
  BY <1>1, <1>2
<1>4. Append(t, e) \in [1..(n + 1) -> Entry] BY <1>3, LenProperties
<1> QED BY <1>2, <1>3, <1>4

LEMMA CaseWorkTyped ==
  ASSUME CaseWorkInv
  PROVE  /\ item \in [Items -> ItemRow \cup {None}]
         /\ \A i, j \in DOMAIN timeline : i < j => timeline[i].at <= timeline[j].at
         /\ unlogged \subseteq Items /\ reading \in Reading \cup {NoReading}
         /\ req \in [Requests -> {IdleJob} \cup ItemJob]
         /\ \A r \in Requests : HandlerHeld(r)
         /\ CompletedStands /\ TimelineTells /\ ReadingHeld
BY DEF CaseWorkInv, CaseWorkTypeOK

LEMMA ItemJobIs ==
  ASSUME NEW job \in {IdleJob} \cup ItemJob
  PROVE  /\ job # IdleJob => job.item \in Items
         /\ job.op \in {"add", "complete", "edit", "remove"} => job # IdleJob
         /\ job.pc = "entry" => job \in ItemJob /\ job.op \in {"add", "complete"}
BY DEF IdleJob, ItemJob

(* How one request's step is seen by the others. *)
LEMMA ItemMoves ==
  ASSUME req \in [Requests -> {IdleJob} \cup ItemJob], NEW r \in Requests,
         NEW job \in {IdleJob} \cup ItemJob, req' = [req EXCEPT ![r] = job]
  PROVE  /\ req' \in [Requests -> {IdleJob} \cup ItemJob]
         /\ req'[r] = job /\ \A q \in Requests \ {r} : req'[q] = req[q]
OBVIOUS

LEMMA EntryFollows ==
  ASSUME req \in [Requests -> {IdleJob} \cup ItemJob], NEW r \in Requests,
         Goto(r, "entry"), req[r].op \in {"add", "complete"}
  PROVE  /\ req' \in [Requests -> {IdleJob} \cup ItemJob]
         /\ req'[r].pc = "entry" /\ req'[r].op = req[r].op /\ req'[r].item = req[r].item
         /\ \A q \in Requests \ {r} : req'[q] = req[q]
<1>1. req[r] \in [op : {"add", "complete"}, pc : {"write", "entry"}, item : Items]
  BY DEF IdleJob, ItemJob
<1>2. PICK job : job = [req[r] EXCEPT !.pc = "entry"] OBVIOUS
<1>3. /\ job \in [op : {"add", "complete"}, pc : {"write", "entry"}, item : Items]
      /\ job.pc = "entry" /\ job.op = req[r].op /\ job.item = req[r].item
  BY <1>1, <1>2
<1>4. req' = [req EXCEPT ![r] = job] BY <1>2 DEF Goto
<1> QED BY <1>3, <1>4 DEF ItemJob

(* What TimelineTells says of one item. *)
TellsOf(i) ==
  /\ item[i] # None => Logged(i, "ADDED") \/ ToBeLogged(i, "add") \/ i \in unlogged
  /\ Stands(i) /\ item[i].state = "completed" =>
       Logged(i, "COMPLETED") \/ ToBeLogged(i, "complete") \/ i \in unlogged
  /\ Logged(i, "COMPLETED") => item[i].state # "open"

LEMMA TellsOfEach == TimelineTells <=> \A i \in Items : TellsOf(i)
BY DEF TimelineTells, TellsOf

(* A handler that has an entry to write keeps it until it dies. *)
LogKept ==
  /\ timeline' = timeline /\ unlogged \subseteq unlogged'
  /\ \A q \in Requests : Doing(q, "add", "entry") \/ Doing(q, "complete", "entry") =>
       req'[q] = req[q] \/ req[q].item \in unlogged'

LEMMA LogStays ==
  ASSUME LogKept
  PROVE  /\ \A i, event : Logged(i, event)' <=> Logged(i, event)
         /\ \A i : \A op \in {"add", "complete"} :
              ToBeLogged(i, op) => ToBeLogged(i, op)' \/ i \in unlogged'
<1>1. \A i, event : Logged(i, event)' <=> Logged(i, event) BY DEF LogKept, Logged
<1>2. ASSUME NEW i, NEW op \in {"add", "complete"}, ToBeLogged(i, op)
      PROVE  ToBeLogged(i, op)' \/ i \in unlogged'
  <2>1. PICK q \in Requests : Doing(q, op, "entry") /\ req[q].item = i BY <1>2 DEF ToBeLogged
  <2>2. req'[q] = req[q] \/ i \in unlogged' BY <2>1 DEF LogKept
  <2>3. CASE req'[q] = req[q] BY <2>1, <2>3 DEF ToBeLogged, Doing
  <2> QED BY <2>2, <2>3
<1> QED BY <1>1, <1>2

LEMMA TellsStays ==
  ASSUME LogKept, NEW i, TellsOf(i), item'[i] = item[i]
  PROVE  TellsOf(i)'
<1>1. /\ \A event : Logged(i, event)' <=> Logged(i, event)
      /\ \A op \in {"add", "complete"} : ToBeLogged(i, op) => ToBeLogged(i, op)' \/ i \in unlogged'
      /\ i \in unlogged => i \in unlogged'
  BY LogStays DEF LogKept
<1>2. Stands(i)' <=> Stands(i) BY DEF Stands
<1>3. item[i] # None => Logged(i, "ADDED") \/ ToBeLogged(i, "add") \/ i \in unlogged
  BY DEF TellsOf
<1>4. Stands(i) /\ item[i].state = "completed" =>
        Logged(i, "COMPLETED") \/ ToBeLogged(i, "complete") \/ i \in unlogged
  BY DEF TellsOf
<1>5. Logged(i, "COMPLETED") => item[i].state # "open" BY DEF TellsOf
<1>6. item'[i] # None => Logged(i, "ADDED")' \/ ToBeLogged(i, "add")' \/ i \in unlogged'
  BY <1>1, <1>3
<1>7. Stands(i)' /\ item'[i].state = "completed" =>
        Logged(i, "COMPLETED")' \/ ToBeLogged(i, "complete")' \/ i \in unlogged'
  BY <1>1, <1>2, <1>4
<1> QED BY <1>1, <1>5, <1>6, <1>7 DEF TellsOf

(* The other handlers, as r goes on. *)
LEMMA OtherHandlersHeld ==
  ASSUME NEW r \in Requests, \A q \in Requests : HandlerHeld(q),
         \A q \in Requests \ {r} : req'[q] = req[q],
         \A q \in Requests \ {r} : ~Idle(q) =>
           \/ item'[req[q].item] = item[req[q].item]
           \/ /\ item[req[q].item] # None /\ item'[req[q].item] # None
              /\ item'[req[q].item].state # "open",
         ~Idle(r)' => \A q \in Requests \ {r} : Doing(q, "add", "write") => req'[r].item # req[q].item
  PROVE  \A q \in Requests \ {r} : HandlerHeld(q)'
<1> SUFFICES ASSUME NEW q \in Requests \ {r} PROVE HandlerHeld(q)'
  OBVIOUS
<1>1. HandlerHeld(q) /\ req'[q] = req[q] OBVIOUS
<1>2. /\ \A op, pc : Doing(q, op, pc)' <=> Doing(q, op, pc)
      /\ Idle(q)' <=> Idle(q)
  BY <1>1 DEF Doing, Idle
<1>3. \A op \in {"add", "complete"} : \A pc : Doing(q, op, pc) => ~Idle(q)
  BY DEF Doing, Idle, IdleJob
<1>4. ASSUME Doing(q, "add", "write")
      PROVE  /\ item'[req[q].item] = None
             /\ \A p \in Requests \ {q} : ~Idle(p)' => req'[p].item # req[q].item
  <2>1. item[req[q].item] = None /\ ~Idle(q) BY <1>1, <1>3, <1>4 DEF HandlerHeld
  <2>2. item'[req[q].item] = None BY <2>1
  <2>3. ASSUME NEW p \in Requests \ {q}, ~Idle(p)' PROVE req'[p].item # req[q].item
    <3>1. CASE p = r BY <1>4, <2>3, <3>1
    <3>2. CASE p # r
      <4>1. req'[p] = req[p] BY <3>2
      <4> QED BY <1>1, <1>4, <2>3, <4>1 DEF HandlerHeld, Idle
    <3> QED BY <3>1, <3>2
  <2> QED BY <2>2, <2>3
<1>5. ~Idle(q) /\ ~Doing(q, "add", "write") => item'[req[q].item] # None
  BY <1>1 DEF HandlerHeld
<1>6. Doing(q, "complete", "entry") => item'[req[q].item].state # "open"
  BY <1>1, <1>3 DEF HandlerHeld
<1> QED BY <1>1, <1>2, <1>4, <1>5, <1>6 DEF HandlerHeld

LEMMA DoneHeld ==
  ASSUME NEW r, req'[r] = IdleJob PROVE HandlerHeld(r)'
BY DEF HandlerHeld, Doing, Idle, IdleJob

LEMMA ReadingStays ==
  ASSUME ReadingHeld, UNCHANGED <<timeline, reading>> PROVE ReadingHeld'
BY DEF ReadingHeld, Before

(* A handler starts on an item. *)
LEMMA StartsHold ==
  ASSUME CaseWorkInv, NEW r \in Requests, NEW i \in Items, NEW op \in {"add", "edit", "remove", "complete"},
         Start(r, [op |-> op, pc |-> "write", item |-> i]), UNCHANGED caseWorkVars,
         IF op = "add" THEN item[i] = None /\ \A q \in Requests : ~Idle(q) => req[q].item # i
         ELSE item[i] # None
  PROVE  CaseWorkInv'
<1> DEFINE job == [op |-> op, pc |-> "write", item |-> i]
<1>1. /\ req \in [Requests -> {IdleJob} \cup ItemJob] /\ \A q \in Requests : HandlerHeld(q)
      /\ CompletedStands /\ TimelineTells /\ ReadingHeld /\ CaseWorkTypeOK
  BY CaseWorkTyped DEF CaseWorkInv
<1>2. UNCHANGED <<item, timeline, unlogged, reading>> BY DEF caseWorkVars
<1>3. job \in ItemJob /\ job.op = op /\ job.item = i /\ job.pc = "write" /\ job # IdleJob
  BY DEF ItemJob, IdleJob
<1> HIDE DEF job
<1>4. req[r] = IdleJob /\ req' = [req EXCEPT ![r] = job] BY DEF Start, Idle, job
<1>5. /\ req' \in [Requests -> {IdleJob} \cup ItemJob]
      /\ req'[r] = job /\ \A q \in Requests \ {r} : req'[q] = req[q]
  BY <1>1, <1>3, <1>4, ItemMoves
<1>6. CaseWorkTypeOK' BY <1>1, <1>2, <1>5 DEF CaseWorkTypeOK
<1>7. \A q \in Requests \ {r} : Doing(q, "add", "write") => req'[r].item # req[q].item
  <2> SUFFICES ASSUME NEW q \in Requests \ {r}, Doing(q, "add", "write")
               PROVE  i # req[q].item
    BY <1>3, <1>5
  <2>1. item[req[q].item] = None /\ ~Idle(q) BY <1>1 DEF HandlerHeld, Idle, Doing, IdleJob
  <2> QED BY <2>1
<1>8. \A q \in Requests \ {r} : HandlerHeld(q)' BY <1>1, <1>2, <1>5, <1>7, OtherHandlersHeld
<1>9. HandlerHeld(r)'
  <2>1. \A q \in Requests \ {r} : ~Idle(q)' => ~Idle(q) /\ req'[q].item = req[q].item
    BY <1>5 DEF Idle
  <2> QED BY <1>2, <1>3, <1>5, <2>1 DEF HandlerHeld, Doing
<1>10. LogKept
  BY <1>2, <1>4, <1>5 DEF LogKept, Doing, IdleJob
<1>11. TimelineTells' BY <1>1, <1>2, <1>10, TellsOfEach, TellsStays DEF TimelineTells, TellsOf
<1>12. CompletedStands' BY <1>1, <1>2 DEF CompletedStands
<1> QED BY <1>1, <1>2, <1>6, <1>8, <1>9, <1>11, <1>12, ReadingStays DEF CaseWorkInv

(* A row is written by the handler that has it in hand. *)
LEMMA RowWritten ==
  ASSUME CaseWorkInv, NEW r \in Requests, req[r] \in ItemJob, NEW row \in ItemRow,
         item' = [item EXCEPT ![req[r].item] = row],
         UNCHANGED <<timeline, unlogged, reading>>,
         req' \in [Requests -> {IdleJob} \cup ItemJob],
         \A q \in Requests \ {r} : req'[q] = req[q],
         ~Idle(r)' => req'[r].item = req[r].item /\ ~Doing(r, "add", "write")',
         Doing(r, "add", "write") \/ row.state # "open",
         Doing(r, "complete", "entry")' => row.state # "open",
         req[r].pc # "entry",
         row.state = "completed" => Doing(r, "complete", "entry")',
         Doing(r, "add", "write") => Doing(r, "add", "entry")'
  PROVE  CaseWorkInv'
<1>1. /\ req \in [Requests -> {IdleJob} \cup ItemJob] /\ \A q \in Requests : HandlerHeld(q)
      /\ CompletedStands /\ TimelineTells /\ ReadingHeld /\ CaseWorkTypeOK
      /\ item \in [Items -> ItemRow \cup {None}]
  BY CaseWorkTyped DEF CaseWorkInv
<1>2. PICK i \in Items : i = req[r].item BY DEF ItemJob
<1>3. row # None BY CaseWorkOK
<1>4. item'[i] = row /\ \A j \in Items \ {i} : item'[j] = item[j] BY <1>1, <1>2
<1>5. item' \in [Items -> ItemRow \cup {None}] BY <1>1, <1>2
<1>6. CaseWorkTypeOK' BY <1>1, <1>5 DEF CaseWorkTypeOK
<1>7. ~Idle(r) BY DEF Idle, ItemJob, IdleJob
<1>8. \A q \in Requests \ {r} : Doing(q, "add", "write") => i # req[q].item
  <2> SUFFICES ASSUME NEW q \in Requests \ {r}, Doing(q, "add", "write") PROVE i # req[q].item
    OBVIOUS
  <2>1. HandlerHeld(q) BY <1>1
  <2> QED BY <1>2, <1>7, <2>1 DEF HandlerHeld
<1>9. \A q \in Requests \ {r} : ~Idle(q) =>
        \/ item'[req[q].item] = item[req[q].item]
        \/ /\ item[req[q].item] # None /\ item'[req[q].item] # None
           /\ item'[req[q].item].state # "open"
  <2> SUFFICES ASSUME NEW q \in Requests \ {r}, ~Idle(q), req[q].item = i
               PROVE  item[i] # None /\ item'[i] # None /\ item'[i].state # "open"
    <3>1. \A q \in Requests : ~Idle(q) => req[q].item \in Items
      BY <1>1, ItemJobIs DEF Idle
    <3> QED BY <1>4, <3>1
  <2>1. HandlerHeld(r) /\ HandlerHeld(q) BY <1>1
  <2>2. ~Doing(r, "add", "write") BY <1>2, <2>1 DEF HandlerHeld
  <2>3. item[i] # None BY <1>2, <1>7, <2>1, <2>2 DEF HandlerHeld
  <2> QED BY <1>3, <1>4, <2>2, <2>3
<1>10. \A q \in Requests \ {r} : HandlerHeld(q)' BY <1>1, <1>2, <1>8, <1>9, OtherHandlersHeld
<1>11. HandlerHeld(r)'
  <2>1. \A op \in {"add", "complete"} : \A pc : Doing(r, op, pc)' => ~Idle(r)'
    BY DEF Doing, Idle, IdleJob
  <2> QED BY <1>2, <1>3, <1>4, <2>1 DEF HandlerHeld
<1>12. LogKept BY DEF LogKept, Doing
<1>13. ASSUME NEW j \in Items PROVE TellsOf(j)'
  <2>1. TellsOf(j) BY <1>1, TellsOfEach
  <2>2. CASE j # i BY <1>4, <1>12, <2>1, <2>2, TellsStays
  <2>3. CASE j = i
    <3>1. /\ \A event : Logged(i, event)' <=> Logged(i, event)
          /\ \A op \in {"add", "complete"} : ToBeLogged(i, op) => ToBeLogged(i, op)' \/ i \in unlogged'
          /\ i \in unlogged => i \in unlogged'
      BY <1>12, LogStays DEF LogKept
    <3>0. \A op \in {"add", "complete"} : Doing(r, op, "entry")' => ToBeLogged(i, op)'
      <4>1. \A op \in {"add", "complete"} : Doing(r, op, "entry")' => req'[r].item = i
        BY <1>2 DEF Doing, Idle, IdleJob
      <4> QED BY <4>1 DEF ToBeLogged
    <3>2. Logged(i, "ADDED")' \/ ToBeLogged(i, "add")' \/ i \in unlogged'
      <4>1. CASE Doing(r, "add", "write") BY <3>0, <4>1
      <4>2. CASE ~Doing(r, "add", "write")
        <5>1. item[i] # None BY <1>1, <1>2, <1>7, <4>2 DEF HandlerHeld
        <5>2. Logged(i, "ADDED") \/ ToBeLogged(i, "add") \/ i \in unlogged
          BY <2>1, <2>3, <5>1 DEF TellsOf
        <5> QED BY <3>1, <5>2
      <4> QED BY <4>1, <4>2
    <3>3. item'[i].state = "completed" => ToBeLogged(i, "complete")' BY <1>4, <3>0
    <3>4. Logged(i, "COMPLETED")' => item'[i].state # "open"
      <4>1. CASE Doing(r, "add", "write")
        <5>1. item[i] = None BY <1>1, <1>2, <4>1 DEF HandlerHeld
        <5>2. ~Logged(i, "COMPLETED") BY <1>1, <5>1 DEF CompletedStands, Logged
        <5> QED BY <3>1, <5>2
      <4>2. CASE ~Doing(r, "add", "write") BY <1>4, <4>2
      <4> QED BY <4>1, <4>2
    <3> QED BY <2>3, <3>2, <3>3, <3>4 DEF TellsOf
  <2> QED BY <2>2, <2>3
<1>14. TimelineTells' BY <1>13 DEF TimelineTells, TellsOf
<1>15. CompletedStands'
  <2>1. \A n \in DOMAIN timeline : timeline[n].item \in Items
    BY <1>1 DEF CaseWorkTypeOK, Entry
  <2> QED BY <1>1, <1>3, <1>4, <2>1 DEF CompletedStands
<1> QED BY <1>1, <1>6, <1>10, <1>11, <1>14, <1>15, ReadingStays DEF CaseWorkInv
LEMMA InsertItemHolds ==
  ASSUME CaseWorkInv, NEW r \in Requests, InsertItem(r)
  PROVE  CaseWorkInv'
<1>1. req \in [Requests -> {IdleJob} \cup ItemJob] BY CaseWorkTyped
<1>2. /\ Doing(r, "add", "write") /\ Goto(r, "entry") /\ UNCHANGED <<timeline, unlogged, reading>>
      /\ req[r].op = "add" /\ req[r].pc = "write"
  BY DEF InsertItem, Doing
<1>3. PICK k \in ItemKinds : item' = [item EXCEPT ![req[r].item] = [kind |-> k, state |-> "open"]]
  BY DEF InsertItem
<1>4. PICK row : row = [kind |-> k, state |-> "open"] OBVIOUS
<1>5. row \in ItemRow /\ row.state = "open" BY <1>4 DEF ItemRow
<1>6. req[r] \in ItemJob BY <1>1, <1>2 DEF IdleJob
<1>7. /\ req' \in [Requests -> {IdleJob} \cup ItemJob]
      /\ req'[r].pc = "entry" /\ req'[r].op = "add" /\ req'[r].item = req[r].item
      /\ \A q \in Requests \ {r} : req'[q] = req[q]
  BY <1>1, <1>2, EntryFollows
<1>8. /\ ~Doing(r, "add", "write")' /\ ~Doing(r, "complete", "entry")'
      /\ Doing(r, "add", "entry")'
  BY <1>7 DEF Doing
<1>9. item' = [item EXCEPT ![req[r].item] = row] BY <1>3, <1>4
<1> QED BY <1>2, <1>5, <1>6, <1>7, <1>8, <1>9, RowWritten

LEMMA HandlersRow ==
  ASSUME CaseWorkInv, NEW r \in Requests, req[r].op \in {"complete", "remove"},
         NEW state \in {"completed", "removed"}
  PROVE  /\ req[r] \in ItemJob /\ req[r].item \in Items
         /\ \E row \in ItemRow : /\ row.state = state
              /\ [item EXCEPT ![req[r].item].state = state] = [item EXCEPT ![req[r].item] = row]
<1>1. /\ req \in [Requests -> {IdleJob} \cup ItemJob] /\ HandlerHeld(r)
      /\ item \in [Items -> ItemRow \cup {None}]
  BY CaseWorkTyped
<1>2. req[r] \in ItemJob /\ req[r].item \in Items BY <1>1, ItemJobIs
<1>3. item[req[r].item] # None
  BY <1>1, <1>2 DEF HandlerHeld, Doing, Idle, IdleJob
<1>4. item[req[r].item] \in ItemRow BY <1>1, <1>2, <1>3
<1>5. PICK row : row = [item[req[r].item] EXCEPT !.state = state] OBVIOUS
<1>6. row \in ItemRow /\ row.state = state BY <1>4, <1>5 DEF ItemRow
<1>7. [item EXCEPT ![req[r].item].state = state] = [item EXCEPT ![req[r].item] = row]
  BY <1>5
<1> QED BY <1>2, <1>6, <1>7

LEMMA CompleteTaskHolds ==
  ASSUME CaseWorkInv, NEW r \in Requests, CompleteTask(r)
  PROVE  CaseWorkInv'
<1>1. req \in [Requests -> {IdleJob} \cup ItemJob] BY CaseWorkTyped
<1>2. /\ Goto(r, "entry") /\ UNCHANGED <<timeline, unlogged, reading>>
      /\ item' = [item EXCEPT ![req[r].item].state = "completed"]
      /\ req[r].op = "complete" /\ req[r].pc = "write"
  BY DEF CompleteTask, Doing
<1>3. req[r] \in ItemJob BY <1>2, HandlersRow
<1>4. PICK row \in ItemRow : row.state = "completed" /\ item' = [item EXCEPT ![req[r].item] = row]
  BY <1>2, HandlersRow
<1>5. /\ req' \in [Requests -> {IdleJob} \cup ItemJob]
      /\ req'[r].pc = "entry" /\ req'[r].op = "complete" /\ req'[r].item = req[r].item
      /\ \A q \in Requests \ {r} : req'[q] = req[q]
  BY <1>1, <1>2, EntryFollows
<1>6. ~Doing(r, "add", "write")' /\ Doing(r, "complete", "entry")' /\ ~Doing(r, "add", "write")
  BY <1>2, <1>5 DEF Doing
<1> QED BY <1>2, <1>3, <1>4, <1>5, <1>6, RowWritten

LEMMA RemoveItemRowHolds ==
  ASSUME CaseWorkInv, NEW r \in Requests, RemoveItemRow(r)
  PROVE  CaseWorkInv'
<1>1. req \in [Requests -> {IdleJob} \cup ItemJob] BY CaseWorkTyped
<1>2. /\ Finish(r) /\ UNCHANGED <<timeline, unlogged, reading>>
      /\ item' = [item EXCEPT ![req[r].item].state = "removed"]
      /\ req[r].op = "remove" /\ req[r].pc = "write"
  BY DEF RemoveItemRow, Doing
<1>3. req[r] \in ItemJob BY <1>2, HandlersRow
<1>4. PICK row \in ItemRow : row.state = "removed" /\ item' = [item EXCEPT ![req[r].item] = row]
  BY <1>2, HandlersRow
<1>5. /\ req' \in [Requests -> {IdleJob} \cup ItemJob]
      /\ req'[r] = IdleJob /\ \A q \in Requests \ {r} : req'[q] = req[q]
  BY <1>1, <1>2, ItemMoves DEF Finish
<1>6. Idle(r)' /\ ~Doing(r, "complete", "entry")' /\ ~Doing(r, "add", "write")
  BY <1>2, <1>5 DEF Doing, Idle, IdleJob
<1> QED BY <1>2, <1>3, <1>4, <1>5, <1>6, RowWritten

(* A handler ends without a trace, but for one that owes an entry. *)
LEMMA EndsHold ==
  ASSUME CaseWorkInv, NEW r \in Requests, ~Idle(r), Finish(r),
         UNCHANGED <<item, timeline, reading>>,
         unlogged \subseteq unlogged', unlogged' \subseteq Items,
         req[r].pc = "entry" => req[r].item \in unlogged'
  PROVE  CaseWorkInv'
<1>1. /\ req \in [Requests -> {IdleJob} \cup ItemJob] /\ \A q \in Requests : HandlerHeld(q)
      /\ CompletedStands /\ TimelineTells /\ ReadingHeld /\ CaseWorkTypeOK
  BY CaseWorkTyped DEF CaseWorkInv
<1>2. /\ req' \in [Requests -> {IdleJob} \cup ItemJob]
      /\ req'[r] = IdleJob /\ \A q \in Requests \ {r} : req'[q] = req[q]
  BY <1>1, ItemMoves DEF Finish
<1>3. CaseWorkTypeOK' BY <1>1, <1>2 DEF CaseWorkTypeOK
<1>4. \A q \in Requests \ {r} : HandlerHeld(q)' BY <1>1, <1>2, OtherHandlersHeld DEF Idle
<1>5. LogKept BY <1>2 DEF LogKept, Doing
<1>6. TimelineTells' BY <1>1, <1>5, TellsOfEach, TellsStays DEF TimelineTells, TellsOf
<1>7. CompletedStands' BY <1>1 DEF CompletedStands
<1> QED BY <1>1, <1>2, <1>3, <1>4, <1>6, <1>7, DoneHeld, ReadingStays DEF CaseWorkInv

(* What the reader has seen stays as it was when the timeline grows. *)
LEMMA ReadingGrows ==
  ASSUME ReadingHeld, NEW n \in Nat, DOMAIN timeline = 1..n, DOMAIN timeline' = 1..(n + 1),
         \A m \in 1..n : timeline'[m] = timeline[m], reading' = reading
  PROVE  ReadingHeld'
<1> SUFFICES ASSUME reading.pc # "none" PROVE ReadingHeld'
  BY DEF ReadingHeld
<1>1. /\ reading.twice = {}
      /\ reading.asked \subseteq 1..n /\ reading.seen \subseteq 1..n
      /\ reading.before = None /\ reading.pc = "page" => reading.seen = {}
      /\ reading.before # None => \A m \in reading.seen : timeline[m].at >= reading.before
      /\ \A m \in reading.asked \ reading.seen :
           \/ reading.pc = "page" /\ m \in Before(reading.before)
           \/ \E k \in reading.seen : timeline[k].at = timeline[m].at
  BY DEF ReadingHeld
<1>2. 1..n \subseteq 1..(n + 1) OBVIOUS
<1>3. Before(reading.before) \subseteq Before(reading.before)'
  BY <1>2 DEF Before
<1>4. reading.before # None => \A m \in reading.seen : timeline'[m].at >= reading.before
  BY <1>1
<1>5. ASSUME NEW m \in reading.asked \ reading.seen
      PROVE  \/ reading.pc = "page" /\ m \in Before(reading.before)'
             \/ \E k \in reading.seen : timeline'[k].at = timeline'[m].at
  <2>1. m \in 1..n BY <1>1
  <2>2. CASE reading.pc = "page" /\ m \in Before(reading.before) BY <1>3, <2>2
  <2>3. CASE \E k \in reading.seen : timeline[k].at = timeline[m].at
    <3>1. PICK k \in reading.seen : timeline[k].at = timeline[m].at BY <2>3
    <3>2. timeline'[k].at = timeline'[m].at BY <1>1, <2>1, <3>1
    <3> QED BY <3>2
  <2> QED BY <1>1, <2>2, <2>3
<1> QED BY <1>1, <1>2, <1>4, <1>5 DEF ReadingHeld

LEMMA WriteEntryHolds ==
  ASSUME CaseWorkInv, NEW r \in Requests, WriteEntry(r)
  PROVE  CaseWorkInv'
<1>1. /\ req \in [Requests -> {IdleJob} \cup ItemJob] /\ \A q \in Requests : HandlerHeld(q)
      /\ CompletedStands /\ TimelineTells /\ ReadingHeld /\ CaseWorkTypeOK
      /\ \A i, j \in DOMAIN timeline : i < j => timeline[i].at <= timeline[j].at
  BY CaseWorkTyped DEF CaseWorkInv
<1>2. PICK n \in 0..MaxEntries : timeline \in [1..n -> Entry] BY <1>1 DEF CaseWorkTypeOK
<1>3. timeline \in Seq(Entry) /\ n \in Nat BY <1>2, SeqDef, CaseWorkOK
<1>4. Len(timeline) = n BY <1>2, <1>3, LenProperties
<1>5. PICK last : last = IF n = 0 THEN 1 ELSE timeline[n].at OBVIOUS
<1>6. /\ req[r].pc = "entry" /\ n < MaxEntries /\ Finish(r) /\ UNCHANGED <<item, unlogged, reading>>
  BY <1>4 DEF WriteEntry
<1>7. PICK event : event = IF req[r].op = "add" THEN "ADDED" ELSE "COMPLETED" OBVIOUS
<1>8. PICK at \in {last, last + 1} \cap Entries :
        timeline' = Append(timeline, [item |-> req[r].item, at |-> at, event |-> event])
  BY <1>4, <1>5, <1>7 DEF WriteEntry
<1>9. /\ req[r] \in ItemJob /\ req[r].op \in {"add", "complete"} /\ req[r].item \in Items
      /\ req[r] # IdleJob
  BY <1>1, <1>6, ItemJobIs DEF IdleJob
<1>10. PICK e : e = [item |-> req[r].item, at |-> at, event |-> event] OBVIOUS
<1>11. /\ e \in Entry /\ e.item = req[r].item /\ e.at = at /\ e.event = event
  BY <1>7, <1>9, <1>10 DEF Entry
<1>12. /\ timeline' \in [1..(n + 1) -> Entry] /\ timeline'[n + 1] = e
       /\ \A m \in 1..n : timeline'[m] = timeline[m]
  <2>1. timeline' = Append(timeline, e) BY <1>8, <1>10
  <2>2. e \in Entry /\ n \in Nat /\ timeline \in [1..n -> Entry] BY <1>2, <1>3, <1>11
  <2>3. /\ Append(timeline, e) \in [1..(n + 1) -> Entry]
        /\ Append(timeline, e)[n + 1] = e
        /\ \A m \in 1..n : Append(timeline, e)[m] = timeline[m]
    BY <2>2, EntryAdded
  <2> QED BY <2>1, <2>3
<1>13. /\ req' \in [Requests -> {IdleJob} \cup ItemJob]
       /\ req'[r] = IdleJob /\ \A q \in Requests \ {r} : req'[q] = req[q]
  BY <1>1, <1>6, ItemMoves DEF Finish
<1>14. \A m \in 1..n : timeline[m].at <= at
  <2> SUFFICES ASSUME NEW m \in 1..n PROVE timeline[m].at <= at OBVIOUS
  <2>1. n \in 1..n /\ n # 0 BY <1>3
  <2>2. timeline[m].at \in Entries /\ timeline[n].at \in Entries BY <1>2, <2>1 DEF Entry
  <2>3. timeline[m].at <= timeline[n].at
    <3>1. CASE m = n BY <2>2, <3>1, CaseWorkOK DEF Entries
    <3>2. CASE m < n BY <1>1, <1>2, <2>1, <3>2
    <3> QED BY <1>3, <3>1, <3>2
  <2>4. at \in {timeline[n].at, timeline[n].at + 1} BY <1>5, <1>8, <2>1
  <2> QED BY <2>2, <2>3, <2>4, CaseWorkOK DEF Entries
<1>15. CaseWorkTypeOK'
  <2>1. n + 1 \in 0..MaxEntries BY <1>3, <1>6, CaseWorkOK
  <2>2. ASSUME NEW i \in 1..(n + 1), NEW j \in 1..(n + 1), i < j
        PROVE  timeline'[i].at <= timeline'[j].at
    <3>1. i \in 1..n BY <1>3, <2>2
    <3>2. CASE j = n + 1 BY <1>11, <1>12, <1>14, <3>1, <3>2
    <3>3. CASE j # n + 1
      <4>1. j \in 1..n BY <1>3, <3>3
      <4> QED BY <1>1, <1>2, <1>12, <2>2, <3>1, <4>1
    <3> QED BY <3>2, <3>3
  <2>3. DOMAIN timeline' = 1..(n + 1) BY <1>12
  <2>4. \E k \in 0..MaxEntries : timeline' \in [1..k -> Entry] BY <1>12, <2>1
  <2> QED BY <1>1, <1>6, <1>13, <2>2, <2>3, <2>4 DEF CaseWorkTypeOK
<1>16. DOMAIN timeline = 1..n /\ DOMAIN timeline' = 1..(n + 1) BY <1>2, <1>12
<1>17. ReadingHeld' BY <1>1, <1>3, <1>6, <1>12, <1>16, ReadingGrows
<1>18. \A q \in Requests \ {r} : HandlerHeld(q)' BY <1>1, <1>6, <1>13, OtherHandlersHeld DEF Idle
<1>19. HandlerHeld(r)' BY <1>13, DoneHeld
<1>20. /\ \A i, ev : Logged(i, ev)' <=> Logged(i, ev) \/ (i = req[r].item /\ ev = event)
  <2> SUFFICES ASSUME NEW i, NEW ev
               PROVE  Logged(i, ev)' <=> Logged(i, ev) \/ (i = req[r].item /\ ev = event)
    OBVIOUS
  <2>1. 1..(n + 1) = 1..n \cup {n + 1} /\ n + 1 \in 1..(n + 1) BY <1>3
  <2> QED BY <1>11, <1>12, <1>16, <2>1 DEF Logged
<1>21. item[req[r].item] # None /\ (event = "COMPLETED" => item[req[r].item].state # "open")
  <2>1. HandlerHeld(r) /\ ~Idle(r) /\ ~Doing(r, "add", "write")
    BY <1>1, <1>6, <1>9 DEF Idle, Doing
  <2>2. event = "COMPLETED" => Doing(r, "complete", "entry") BY <1>6, <1>7, <1>9 DEF Doing
  <2> QED BY <2>1, <2>2 DEF HandlerHeld
<1>22. CompletedStands'
  <2>1. \A m \in 1..(n + 1) : m \in 1..n \/ m = n + 1 BY <1>3
  <2> QED BY <1>1, <1>6, <1>11, <1>12, <1>16, <1>21, <2>1 DEF CompletedStands
<1>23. ASSUME NEW i \in Items PROVE TellsOf(i)'
  <2>1. TellsOf(i) BY <1>1, TellsOfEach
  <2>2. ASSUME NEW op \in {"add", "complete"}, ToBeLogged(i, op)
        PROVE  ToBeLogged(i, op)' \/ Logged(i, IF op = "add" THEN "ADDED" ELSE "COMPLETED")'
    <3>1. PICK q \in Requests : Doing(q, op, "entry") /\ req[q].item = i BY <2>2 DEF ToBeLogged
    <3>2. CASE q = r BY <1>7, <1>20, <3>1, <3>2 DEF Doing
    <3>3. CASE q # r BY <1>13, <3>1, <3>3 DEF ToBeLogged, Doing
    <3> QED BY <3>2, <3>3
  <2>3. Stands(i)' <=> Stands(i) BY <1>6 DEF Stands
  <2>4. item'[i] # None => Logged(i, "ADDED")' \/ ToBeLogged(i, "add")' \/ i \in unlogged'
    BY <1>6, <1>20, <2>1, <2>2 DEF TellsOf
  <2>5. Stands(i)' /\ item'[i].state = "completed" =>
          Logged(i, "COMPLETED")' \/ ToBeLogged(i, "complete")' \/ i \in unlogged'
    BY <1>6, <1>20, <2>1, <2>2, <2>3 DEF TellsOf
  <2>6. Logged(i, "COMPLETED")' => item'[i].state # "open"
    BY <1>6, <1>20, <1>21, <2>1 DEF TellsOf
  <2> QED BY <2>4, <2>5, <2>6 DEF TellsOf
<1>24. TimelineTells' BY <1>23 DEF TimelineTells, TellsOf
<1> QED BY <1>15, <1>17, <1>18, <1>19, <1>22, <1>24 DEF CaseWorkInv
(* A reader opens the timeline, turns a page, and leaves. *)
LEMMA ReaderOnly ==
  ASSUME CaseWorkInv, UNCHANGED <<item, timeline, unlogged, req>>,
         reading' \in Reading \cup {NoReading}, ReadingHeld'
  PROVE  CaseWorkInv'
<1>1. /\ \A q \in Requests : HandlerHeld(q)
      /\ CompletedStands /\ TimelineTells /\ CaseWorkTypeOK
  BY CaseWorkTyped DEF CaseWorkInv
<1>2. CaseWorkTypeOK' BY <1>1 DEF CaseWorkTypeOK
<1>3. \A q \in Requests : HandlerHeld(q)' BY <1>1 DEF HandlerHeld, Doing, Idle
<1>4. LogKept BY DEF LogKept
<1>5. TimelineTells' BY <1>1, <1>4, TellsOfEach, TellsStays DEF TimelineTells, TellsOf
<1>6. CompletedStands' BY <1>1 DEF CompletedStands
<1> QED BY <1>2, <1>3, <1>5, <1>6 DEF CaseWorkInv

LEMMA OpenTimelineHolds ==
  ASSUME CaseWorkInv, OpenTimeline
  PROVE  CaseWorkInv'
<1>1. UNCHANGED <<item, timeline, unlogged, req>> BY DEF OpenTimeline
<1>2. reading' = [pc |-> "page", before |-> None, asked |-> DOMAIN timeline,
                  seen |-> {}, twice |-> {}]
  BY DEF OpenTimeline
<1>3. DOMAIN timeline \subseteq Entries
  BY CaseWorkOK DEF CaseWorkInv, CaseWorkTypeOK, Entries
<1>4. reading' \in Reading BY <1>2, <1>3 DEF Reading
<1>5. \A n \in DOMAIN timeline : n \in Before(None) BY DEF Before
<1>6. ReadingHeld' BY <1>1, <1>2, <1>5 DEF ReadingHeld, Before
<1> QED BY <1>1, <1>4, <1>6, ReaderOnly

(* The rows a page leaves out are no newer than its oldest. *)
LEMMA PageEnds ==
  ASSUME NEW rows, IsFiniteSet(rows), NEW page \in SUBSET rows, IsPage(page, rows), page # rows,
         \A n \in rows : timeline[n].at \in Nat
  PROVE  /\ Min({timeline[n].at : n \in page}) \in {timeline[n].at : n \in page}
         /\ \A n \in page : Min({timeline[m].at : m \in page}) <= timeline[n].at
         /\ \A n \in rows \ page : timeline[n].at <= Min({timeline[m].at : m \in page})
<1>1. /\ IsFiniteSet(page) /\ Cardinality(page) <= Cardinality(rows)
      /\ Cardinality(page) # Cardinality(rows)
  BY FS_Subset
<1>2. Cardinality(page) \in Nat /\ Cardinality(rows) \in Nat BY <1>1, FS_CardinalityType
<1>3. Cardinality(page) = PageSize BY <1>1, <1>2 DEF IsPage
<1>4. page # {} BY <1>3, CaseWorkOK, FS_EmptySet
<1> DEFINE times == {timeline[n].at : n \in page}
<1>5. times \in SUBSET Nat /\ times # {} BY <1>4
<1> HIDE DEF times
<1>6. Min(times) \in times /\ \A t \in times : Min(times) <= t BY <1>5, LeastOf
<1>7. \A n \in page : timeline[n].at \in times BY DEF times
<1>8. PICK p \in page : timeline[p].at = Min(times) BY <1>6 DEF times
<1>9. \A n \in rows \ page : timeline[n].at <= timeline[p].at
  <2> SUFFICES ASSUME NEW n \in rows \ page PROVE timeline[n].at <= timeline[p].at
    OBVIOUS
  <2>1. timeline[p].at >= timeline[n].at BY DEF IsPage
  <2> QED BY <2>1
<1> QED BY <1>6, <1>7, <1>8, <1>9 DEF times

LEMMA ReadPageHolds ==
  ASSUME CaseWorkInv, ReadPage
  PROVE  CaseWorkInv'
<1>1. UNCHANGED <<item, timeline, unlogged, req>> /\ reading.pc = "page" BY DEF ReadPage
<1>2. reading \in Reading BY <1>1, CaseWorkTyped DEF NoReading
<1>3. PICK n \in 0..MaxEntries : timeline \in [1..n -> Entry] BY DEF CaseWorkInv, CaseWorkTypeOK
<1>4. /\ DOMAIN timeline = 1..n /\ 1..n \subseteq Entries
      /\ \A m \in 1..n : timeline[m].at \in Entries /\ timeline[m].at \in Nat
      /\ IsFiniteSet(1..n)
  BY <1>3, CaseWorkOK, FS_Interval DEF Entries, Entry
<1>5. PICK rows : rows = Before(reading.before) OBVIOUS
<1>6. /\ rows \subseteq 1..n /\ IsFiniteSet(rows)
      /\ \A m \in 1..n : m \in rows <=> (reading.before = None \/ timeline[m].at < reading.before)
  BY <1>4, <1>5, FS_Subset DEF Before
<1>7. PICK page \in SUBSET rows :
        /\ IsPage(page, rows)
        /\ reading' = [reading EXCEPT
             !.pc = IF page # rows THEN "page" ELSE "done",
             !.before = IF page # rows THEN Min({timeline[m].at : m \in page}) ELSE None,
             !.seen = @ \cup page,
             !.twice = @ \cup (reading.seen \cap page)]
  BY <1>5 DEF ReadPage
<1>8. /\ reading.twice = {}
      /\ reading.asked \subseteq 1..n /\ reading.seen \subseteq 1..n
      /\ reading.before = None => reading.seen = {}
      /\ reading.before # None => \A m \in reading.seen : timeline[m].at >= reading.before
      /\ \A m \in reading.asked \ reading.seen :
           m \in rows \/ \E k \in reading.seen : timeline[k].at = timeline[m].at
  BY <1>1, <1>4, <1>5, CaseWorkTyped DEF ReadingHeld
<1>9. \A m \in page, k \in reading.seen : timeline[m].at < timeline[k].at
  <2> SUFFICES ASSUME NEW m \in page, NEW k \in reading.seen
               PROVE  timeline[m].at < timeline[k].at
    OBVIOUS
  <2>1. reading.before # None BY <1>8
  <2>2. timeline[m].at < reading.before /\ timeline[k].at >= reading.before
    BY <1>6, <1>8, <2>1
  <2>3. reading.before \in Nat BY <1>2, <2>1, CaseWorkOK DEF Reading, Entries
  <2> QED BY <1>4, <1>6, <1>8, <2>2, <2>3
<1>10. reading.seen \cap page = {}
  BY <1>4, <1>8, <1>9
<1>11. PICK pc : pc = IF page # rows THEN "page" ELSE "done" OBVIOUS
<1>12. PICK before : before = IF page # rows THEN Min({timeline[m].at : m \in page}) ELSE None
  OBVIOUS
<1>13. reading' = [[[[reading EXCEPT !.pc = pc] EXCEPT !.before = before]
                     EXCEPT !.seen = reading.seen \cup page] EXCEPT !.twice = {}]
  BY <1>2, <1>7, <1>8, <1>10, <1>11, <1>12
<1>14. page # rows =>
         /\ before \in {timeline[m].at : m \in page}
         /\ \A m \in page : before <= timeline[m].at
         /\ \A m \in rows \ page : timeline[m].at <= before
  BY <1>4, <1>6, <1>7, <1>12, PageEnds
<1>15. before \in Entries \cup {None} /\ (page # rows => before \in Entries)
  BY <1>4, <1>6, <1>12, <1>14
<1>16. /\ reading' \in Reading /\ reading'.pc = pc /\ reading'.before = before
       /\ reading'.asked = reading.asked /\ reading'.seen = reading.seen \cup page
       /\ reading'.twice = {}
  BY <1>2, <1>4, <1>6, <1>8, <1>11, <1>13, <1>15 DEF Reading
<1>17. Before(reading.before)' = {m \in 1..n : before = None \/ timeline[m].at < before}
  BY <1>1, <1>4, <1>16 DEF Before
<1>18. reading'.before # None => \A m \in reading'.seen : timeline'[m].at >= reading'.before
  <2> SUFFICES ASSUME before # None, NEW m \in reading.seen \cup page
               PROVE  timeline[m].at >= before
    BY <1>1, <1>16
  <2>1. page # rows BY <1>12
  <2>2. before \in Nat BY <1>15, <2>1, CaseWorkOK DEF Entries
  <2>3. CASE m \in page BY <1>4, <1>6, <1>14, <2>1, <2>2, <2>3
  <2>4. CASE m \in reading.seen
    <3>1. PICK p \in page : timeline[p].at = before BY <1>14, <2>1
    <3>2. timeline[p].at < timeline[m].at BY <1>9, <2>4, <3>1
    <3> QED BY <1>4, <1>8, <2>2, <2>4, <3>1, <3>2
  <2> QED BY <2>3, <2>4
<1>19. ASSUME NEW m \in reading.asked, m \notin reading.seen \cup page
       PROVE  \/ pc = "page" /\ m \in Before(reading.before)'
              \/ \E k \in reading.seen \cup page : timeline[k].at = timeline[m].at
  <2>1. m \in 1..n BY <1>8
  <2>2. CASE \E k \in reading.seen : timeline[k].at = timeline[m].at BY <2>2
  <2>3. CASE m \in rows
    <3>1. page # rows /\ pc = "page" BY <1>11, <1>19, <2>3
    <3>2. timeline[m].at <= before BY <1>14, <1>19, <2>3, <3>1
    <3>3. CASE timeline[m].at = before
      <4>1. PICK p \in page : timeline[p].at = before BY <1>14, <3>1
      <4> QED BY <3>3, <4>1
    <3>4. CASE timeline[m].at # before
      <4>1. timeline[m].at < before
        BY <1>4, <1>15, <2>1, <3>1, <3>2, <3>4, CaseWorkOK DEF Entries
      <4> QED BY <1>17, <2>1, <3>1, <4>1
    <3> QED BY <3>3, <3>4
  <2> QED BY <1>8, <1>19, <2>2, <2>3
<1>20. reading'.before = None /\ reading'.pc = "page" => reading'.seen = {}
  BY <1>11, <1>15, <1>16, CaseWorkOK
<1>21. ReadingHeld'
  <2>1. reading'.asked \subseteq DOMAIN timeline' /\ reading'.seen \subseteq DOMAIN timeline'
    BY <1>1, <1>4, <1>6, <1>8, <1>16
  <2>2. ASSUME NEW m \in reading'.asked \ reading'.seen
        PROVE  \/ reading'.pc = "page" /\ m \in Before(reading.before)'
               \/ \E k \in reading'.seen : timeline'[k].at = timeline'[m].at
    BY <1>1, <1>16, <1>19, <2>2
  <2> QED BY <1>16, <1>18, <1>20, <2>1, <2>2 DEF ReadingHeld
<1> QED BY <1>1, <1>16, <1>21, ReaderOnly

LEMMA CaseWorkSteps ==
  ASSUME CaseWorkInv, [CaseWorkNext]_<<req, caseWorkVars>>
  PROVE  CaseWorkInv'
<1>1. ASSUME NEW r \in Requests, NEW i \in Items, AddItem(r, i) PROVE CaseWorkInv'
  <2>1. /\ Start(r, [op |-> "add", pc |-> "write", item |-> i]) /\ UNCHANGED caseWorkVars
        /\ item[i] = None /\ \A q \in Requests : ~Idle(q) => req[q].item # i
    BY <1>1 DEF AddItem
  <2> QED BY <2>1, StartsHold
<1>2. ASSUME NEW r \in Requests, NEW i \in Items, NEW op \in {"edit", "remove", "complete"},
             FindItem(r, op, i)
      PROVE  CaseWorkInv'
  <2>1. /\ Start(r, [op |-> op, pc |-> "write", item |-> i]) /\ UNCHANGED caseWorkVars
        /\ item[i] # None /\ op # "add"
    BY <1>2 DEF FindItem, Stands
  <2>2. op \in {"add", "edit", "remove", "complete"} OBVIOUS
  <2> QED BY <2>1, <2>2, StartsHold
<1>3. ASSUME NEW r \in Requests, EditItem(r) PROVE CaseWorkInv'
  <2>1. /\ UNCHANGED <<item, timeline, unlogged, reading>> /\ Finish(r)
        /\ req[r].op = "edit" /\ req[r].pc = "write"
    BY <1>3 DEF EditItem, caseWorkVars, Doing
  <2>2. ~Idle(r) BY <2>1 DEF Idle, IdleJob
  <2> QED BY <2>1, <2>2, EndsHold, CaseWorkTyped
<1>4. ASSUME NEW r \in Requests, CaseWorkFail(r) PROVE CaseWorkInv'
  <2>1. /\ UNCHANGED <<item, timeline, reading>> /\ Finish(r) /\ ~Idle(r)
        /\ unlogged' = IF req[r].pc = "entry" THEN unlogged \cup {req[r].item} ELSE unlogged
    BY <1>4 DEF CaseWorkFail
  <2>2. req[r].item \in Items /\ unlogged \subseteq Items
    BY <2>1, CaseWorkTyped, ItemJobIs DEF Idle
  <2> QED BY <2>1, <2>2, EndsHold
<1>5. CASE CloseTimeline
  <2>1. UNCHANGED <<item, timeline, unlogged, req>> /\ reading' = NoReading
    BY <1>5 DEF CloseTimeline
  <2>2. ReadingHeld' BY <2>1 DEF ReadingHeld, NoReading
  <2> QED BY <2>1, <2>2, ReaderOnly
<1>6. CASE UNCHANGED <<req, caseWorkVars>>
  <2>1. UNCHANGED <<item, timeline, unlogged, req>> /\ reading' = reading
    BY <1>6 DEF caseWorkVars
  <2>2. ReadingHeld' /\ reading' \in Reading \cup {NoReading}
    BY <2>1, CaseWorkTyped, ReadingStays
  <2> QED BY <2>1, <2>2, ReaderOnly
<1> QED
  BY <1>1, <1>2, <1>3, <1>4, <1>5, <1>6, InsertItemHolds, WriteEntryHolds, RemoveItemRowHolds,
     CompleteTaskHolds, OpenTimelineHolds, ReadPageHolds DEF CaseWorkNext

LEMMA CaseWorkStarts ==
  ASSUME CaseWorkInit PROVE CaseWorkInv
<1>1. /\ item = [i \in Items |-> None] /\ timeline = <<>> /\ unlogged = {}
      /\ reading = NoReading /\ req = [r \in Requests |-> IdleJob]
  BY DEF CaseWorkInit
<1>2. timeline \in [1..0 -> Entry] /\ 0 \in 0..MaxEntries /\ DOMAIN timeline = {}
  BY <1>1, CaseWorkOK
<1>3. CaseWorkTypeOK BY <1>1, <1>2 DEF CaseWorkTypeOK
<1>4. \A r \in Requests : HandlerHeld(r) BY <1>1 DEF HandlerHeld, Doing, Idle, IdleJob
<1>5. CompletedStands /\ ReadingHeld
  BY <1>1, <1>2 DEF CompletedStands, ReadingHeld, NoReading
<1>6. TimelineTells BY <1>1, <1>2 DEF TimelineTells, Stands, Logged
<1> QED BY <1>3, <1>4, <1>5, <1>6 DEF CaseWorkInv

LEMMA CaseWorkInductive == CaseWorkSpec => []CaseWorkInv
BY CaseWorkStarts, CaseWorkSteps, PTL DEF CaseWorkSpec

LEMMA TimelineIsSound ==
  ASSUME CaseWorkInv PROVE TimelineSound
<1>1. TimelineSkipsOnlyTies BY CaseWorkTyped DEF ReadingHeld, TimelineSkipsOnlyTies
<1> QED BY <1>1, CaseWorkTyped DEF TimelineSound

(* A row added to a case and a task completed have their entries in the     *)
(* timeline, unless their handler died between the two statements; and its  *)
(* pages show no entry twice, and skip none but those that share the        *)
(* millisecond a page ends in.                                              *)
THEOREM TimelineHolds == CaseWorkSpec => []TimelineSound
<1>1. CaseWorkInv => TimelineSound BY TimelineIsSound
<1> QED BY <1>1, CaseWorkInductive, PTL
=============================================================================
