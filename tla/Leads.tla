-------------------------------- MODULE Leads --------------------------------
(****************************************************************************)
(* The firm's leads: LeadService.create, update, remove, convert and        *)
(* conflictCheck, IntakeService.submit, and the accounts that conversions   *)
(* create.  Only a conversion's writes are a transaction; every check is    *)
(* made on a row read before it, and every write goes by the lead's id.     *)
(*                                                                          *)
(* Of the score only the facts kept elsewhere matter: whether there is an   *)
(* intake form and whether a conflict check came out clean.                 *)
(****************************************************************************)
EXTENDS Naturals, FiniteSets, Handlers

CONSTANTS
  LeadIds,
  Gone,    \* a deleted row: its id does not come back
  Emails   \* lower-case addresses

LeadStatus == {"NEW", "CONTACTED", "QUALIFIED", "CONSULTATION_SCHEDULED",
               "CONVERTED", "DISCARDED"}
Facts == {"intake", "check"}

LeadTransitions ==
  [NEW                    |-> {"CONTACTED", "DISCARDED"},
   CONTACTED              |-> {"QUALIFIED", "DISCARDED"},
   QUALIFIED              |-> {"CONSULTATION_SCHEDULED", "DISCARDED"},
   CONSULTATION_SCHEDULED |-> {"CONVERTED", "DISCARDED"},
   CONVERTED              |-> {},
   DISCARDED              |-> {"NEW"}]

LeadRow == [status : LeadStatus, email : Emails, facts : SUBSET Facts, score : SUBSET Facts]

ASSUME LeadNoneOK ==
  /\ None \notin LeadIds \cup Emails \cup LeadStatus
  /\ Gone # None /\ {None, Gone} \cap LeadRow = {}

VARIABLES
  lead,      \* the rows, None before a lead is created
  account,   \* the lead that each address's user was created for, None if no user
  moved,     \* history: leads whose address changed under a conversion
  overtaken, \* history: leads converted under a handler about to write a status
  crowded    \* history: leads handled by a request that was not alone, or died

leadHistory == <<moved, overtaken, crowded>>
leadVars == <<lead, account, leadHistory>>

LeadJob == [op : {"create", "patch", "remove", "convert", "check", "intake"},
            pc : {"insert", "write", "contact", "score"}, lead : LeadIds,
            status : LeadStatus \cup {None}, email : Emails \cup {None},
            facts : SUBSET Facts, alone : BOOLEAN]

LeadsTypeOK ==
  /\ lead \in [LeadIds -> LeadRow \cup {None, Gone}]
  /\ account \in [Emails -> LeadIds \cup {None}]
  /\ moved \subseteq LeadIds /\ overtaken \subseteq LeadIds
  /\ crowded \subseteq LeadIds
  /\ req \in [Requests -> {IdleJob} \cup LeadJob]
  /\ \A r \in Requests : req[r].op = "convert" => req[r].email # None

LeadsInit ==
  /\ lead = [l \in LeadIds |-> None]
  /\ account = [m \in Emails |-> None]
  /\ moved = {} /\ overtaken = {} /\ crowded = {}
  /\ req = [r \in Requests |-> IdleJob]

-----------------------------------------------------------------------------
Exists(l) == lead[l] \notin {None, Gone}
ActiveLead(l) == Exists(l) /\ lead[l].status \notin {"CONVERTED", "DISCARDED"}
Busy(l) == {q \in Requests : ~Idle(q) /\ req[q].lead = l}
StatusPending(q) ==
  \/ req[q].op = "remove"
  \/ req[q].pc \in {"write", "contact"} /\ req[q].status # None

(* A handler goes to work; it and the others in flight are no longer alone. *)
StartLead(r, op, pc, l, status, email, facts) ==
  LET others == {q \in Requests : ~Idle(q)}
  IN  /\ Idle(r)
      /\ req' = [q \in Requests |->
           IF q = r THEN [op |-> op, pc |-> pc, lead |-> l, status |-> status,
                          email |-> email, facts |-> facts, alone |-> others = {}]
           ELSE IF q \in others THEN [req[q] EXCEPT !.alone = FALSE]
           ELSE req[q]]

FinishLead(r) ==
  /\ crowded' = IF req[r].alone THEN crowded ELSE crowded \cup {req[r].lead}
  /\ Finish(r)

(* create: no active lead has the address. *)
CreateRead(r, l, m) ==
  /\ lead[l] = None
  /\ ~\E k \in LeadIds : ActiveLead(k) /\ lead[k].email = m
  /\ \A q \in Busy(l) : req[q].op # "create"
  /\ StartLead(r, "create", "insert", l, None, m, {})
  /\ UNCHANGED leadVars

CreateInsert(r) ==
  /\ req[r].op = "create" /\ req[r].pc = "insert"
  /\ lead' = [lead EXCEPT ![req[r].lead] =
       [status |-> "NEW", email |-> req[r].email, facts |-> {}, score |-> {}]]
  /\ Goto(r, "score")
  /\ UNCHANGED <<account, leadHistory>>

(* update: the transition is checked on the status just read, the address   *)
(* is not checked at all (bound: a body changes one of the two).            *)
PatchRead(r, l, status, email) ==
  /\ Exists(l)
  /\ status \in {None, lead[l].status} \cup LeadTransitions[lead[l].status]
  /\ StartLead(r, "patch", "write", l, status, email, lead[l].facts)
  /\ UNCHANGED leadVars

PatchWrite(r) ==
  LET l == req[r].lead
      new == req[r].status
      address == req[r].email
  IN  /\ req[r].op = "patch" /\ req[r].pc = "write" /\ Exists(l)
      /\ lead' = [lead EXCEPT ![l].status = IF new = None THEN @ ELSE new,
                              ![l].email = IF address = None THEN @ ELSE address]
      /\ moved' = IF /\ lead'[l].email # lead[l].email
                     /\ \E q \in Busy(l) : req[q].op = "convert"
                  THEN moved \cup {l} ELSE moved
      /\ Goto(r, "score")
      /\ UNCHANGED <<account, overtaken, crowded>>

(* remove: only a NEW lead without an intake form. *)
RemoveLead(r, l) ==
  /\ Exists(l) /\ lead[l].status = "NEW" /\ "intake" \notin lead[l].facts
  /\ StartLead(r, "remove", "write", l, None, None, {})
  /\ UNCHANGED leadVars

RemoveLeadWrite(r) ==
  /\ req[r].op = "remove"
  /\ lead' = [lead EXCEPT ![req[r].lead] = Gone]
  /\ FinishLead(r)
  /\ UNCHANGED <<account, moved, overtaken>>

(* Mutant: the status is not looked at. *)
ConvertReadAny(r, l) ==
  /\ Exists(l) /\ account[lead[l].email] = None
  /\ StartLead(r, "convert", "write", l, None, lead[l].email, {})
  /\ UNCHANGED leadVars

(* convert up to its transaction: the lead, then a user with its address    *)
(* are looked up, and the password is hashed.                               *)
ConvertRead(r, l) ==
  /\ Exists(l) /\ lead[l].status \in {"QUALIFIED", "CONSULTATION_SCHEDULED"}
  /\ account[lead[l].email] = None
  /\ StartLead(r, "convert", "write", l, None, lead[l].email, {})
  /\ UNCHANGED leadVars

(* The transaction: user, profile, status and perhaps a case.  Addresses of *)
(* users are unique, so it fails if one has been created meanwhile.         *)
ConvertWrite(r) ==
  LET l == req[r].lead
  IN  /\ req[r].op = "convert" /\ Exists(l)
      /\ account[req[r].email] = None
      /\ account' = [account EXCEPT ![req[r].email] = l]
      /\ lead' = [lead EXCEPT ![l].status = "CONVERTED"]
      /\ overtaken' = IF \E q \in Busy(l) : StatusPending(q)
                     THEN overtaken \cup {l} ELSE overtaken
      /\ FinishLead(r)
      /\ UNCHANGED moved

(* conflictCheck: its record, then a score from the facts read before. *)
CheckRead(r, l) ==
  /\ Exists(l)
  /\ \E clean \in {{}, {"check"}} :
       StartLead(r, "check", "write", l, None, None, lead[l].facts \cup clean)
  /\ UNCHANGED leadVars

CheckWrite(r) ==
  LET l == req[r].lead
  IN  /\ req[r].op = "check" /\ req[r].pc = "write" /\ Exists(l)
      /\ lead' = [lead EXCEPT ![l].facts = @ \cup (req[r].facts \cap {"check"})]
      /\ Goto(r, "score")
      /\ UNCHANGED <<account, leadHistory>>

(* submit: a lead has one intake form, and a NEW one counts as contacted.   *)
IntakeRead(r, l) ==
  /\ Exists(l) /\ "intake" \notin lead[l].facts
  /\ StartLead(r, "intake", "write", l,
       IF lead[l].status = "NEW" THEN "CONTACTED" ELSE None, None,
       lead[l].facts \cup {"intake"})
  /\ UNCHANGED leadVars

IntakeWrite(r) ==
  LET l == req[r].lead
  IN  /\ req[r].op = "intake" /\ req[r].pc = "write" /\ Exists(l)
      /\ "intake" \notin lead[l].facts
      /\ lead' = [lead EXCEPT ![l].facts = @ \cup {"intake"}]
      /\ Goto(r, IF req[r].status = None THEN "score" ELSE "contact")
      /\ UNCHANGED <<account, leadHistory>>

IntakeContact(r) ==
  LET l == req[r].lead
  IN  /\ req[r].op = "intake" /\ req[r].pc = "contact" /\ Exists(l)
      /\ lead' = [lead EXCEPT ![l].status = req[r].status]
      /\ Goto(r, "score")
      /\ UNCHANGED <<account, leadHistory>>

(* Mutant: a score once reached is not recalculated. *)
ScoreWriteOnce(r) ==
  LET l == req[r].lead
  IN  /\ req[r].pc = "score" /\ Exists(l)
      /\ lead' = [lead EXCEPT ![l].score = IF @ = {} THEN req[r].facts ELSE @]
      /\ FinishLead(r)
      /\ UNCHANGED <<account, moved, overtaken>>

(* calculateScore over what the handler has read, and its write.  The       *)
(* notifications that follow an intake change nothing here.                 *)
ScoreWrite(r) ==
  LET l == req[r].lead
  IN  /\ req[r].pc = "score" /\ Exists(l)
      /\ lead' = [lead EXCEPT ![l].score = req[r].facts]
      /\ FinishLead(r)
      /\ UNCHANGED <<account, moved, overtaken>>

(* A statement fails (its row is gone, its key taken) or the process dies.  *)
LeadFail(r) ==
  /\ ~Idle(r)
  /\ crowded' = crowded \cup {req[r].lead}
  /\ Finish(r)
  /\ UNCHANGED <<lead, account, moved, overtaken>>

LeadRead(r, l) ==
  \/ \E m \in Emails : CreateRead(r, l, m)
  \/ \E s \in LeadStatus \cup {None} : PatchRead(r, l, s, None)
  \/ \E m \in Emails : PatchRead(r, l, None, m)
  \/ RemoveLead(r, l) \/ ConvertRead(r, l) \/ CheckRead(r, l) \/ IntakeRead(r, l)

LeadWrite(r) ==
  \/ CreateInsert(r) \/ PatchWrite(r) \/ RemoveLeadWrite(r) \/ ConvertWrite(r)
  \/ CheckWrite(r) \/ IntakeWrite(r) \/ IntakeContact(r) \/ ScoreWrite(r) \/ LeadFail(r)

LeadsNext == \E r \in Requests : LeadWrite(r) \/ \E l \in LeadIds : LeadRead(r, l)

LeadsSpec == LeadsInit /\ [][LeadsNext]_<<req, leadVars>>

-----------------------------------------------------------------------------
(* The lead that an account was created for is CONVERTED, for good, unless  *)
(* a handler that had read it before still stood at the write of a status,  *)
(* or of its deletion, when it was converted.                               *)
AccountsComeFromConverted ==
  \A m \in Emails, l \in LeadIds :
    account[m] = l => \/ l \in overtaken
                      \/ Exists(l) /\ lead[l].status = "CONVERTED"

(* A lead becomes one account.  Of two conversions the second fails on the  *)
(* unique address, unless a PATCH changed the lead's address between them   *)
(* or rewrote the status of the converted lead from what it had read.       *)
OneAccountPerLead ==
  \A m, n \in Emails :
    m # n /\ account[m] = account[n] => account[m] \in moved \cup overtaken \cup {None}

(* Conversions leave accounts and leads in agreement, in both directions.   *)
AccountsExplained == AccountsComeFromConverted /\ OneAccountPerLead

(* A lead's score counts its intake form and clean check exactly, once its  *)
(* handlers are done, unless they overlapped or died.                       *)
ScoreCurrent ==
  \A l \in LeadIds :
    Exists(l) /\ l \notin crowded /\ Busy(l) = {} => lead[l].score = lead[l].facts
=============================================================================
