-------------------------------- MODULE Views --------------------------------
(****************************************************************************)
(* What the client of a case and a lawyer of the firm are shown of it: the  *)
(* list and the detail endpoint of each kind of row, beside the services'   *)
(* writes.  Most endpoints make two queries with no snapshot over them: one *)
(* for the row, one for what it is shown by, the client's cases or the      *)
(* lawyer's assignment.                                                     *)
(*                                                                          *)
(* One row is followed.  Searches, pages, the default date of the portal's  *)
(* event list and the cache before CaseService.findOne are left out: they   *)
(* only narrow or repeat answers.                                           *)
(****************************************************************************)
EXTENDS Naturals

Readers == {"client", "lawyer"}
RowKinds == {"case", "document", "event", "invoice", "expense", "time", "lead"}

VARIABLES
  kind,  \* the kind of the row
  facts, \* what holds of the row, the case and the lawyer's assignment
  visit  \* the reader's visit: first the list, then the detail of what it showed

viewVars == <<kind, facts, visit>>

(* "case": the case is not deleted; "assigned": the lawyer is on its team;  *)
(* "live": the row is not deleted; "linked": it belongs to the case;        *)
(* "mine": the lawyer uploaded, created or attends it; "invited": the       *)
(* client attends it; "billed": an invoice holds it.                        *)
FactsOf(k) ==
  {"case", "assigned"} \cup
  [case     |-> {},
   document |-> {"live", "secret", "mine", "linked"},
   event    |-> {"live", "mine", "linked", "invited"},
   invoice  |-> {"live", "draft"},
   expense  |-> {"live", "billed"},
   time     |-> {"live", "mine", "billed"},
   lead     |-> {"live", "mine"}][k]

NoVisit == [pc |-> "none"]

(* truths are the answers the endpoint would have given, as one query, at   *)
(* each moment since it was called; changes counts the writes between its   *)
(* two queries, stale says whether there was one since the list was called. *)
Visit == [reader : Readers, pc : {"list", "detail"}, left : {0, 1, 2},
          row : SUBSET UNION {FactsOf(k) : k \in RowKinds},
          basis : SUBSET {"case", "assigned"},
          truths : SUBSET BOOLEAN, answer : BOOLEAN, changes : 0..2, stale : BOOLEAN]

ViewsTypeOK ==
  /\ kind \in RowKinds
  /\ facts \subseteq FactsOf(kind)
  /\ visit \in Visit \cup {NoVisit}
  /\ visit.pc # "none" => visit.row \subseteq FactsOf(kind)

ViewsInit == kind \in RowKinds /\ facts \in SUBSET FactsOf(kind) /\ visit = NoVisit

-----------------------------------------------------------------------------
(* The endpoints.  row is what holds when the row is read, basis what holds *)
(* when the client's cases or the lawyer's assignment are.                  *)

PortalCaseListed(row, basis) == "case" \in row

(* assertClientCaseAccess selects the case's client only; the soft-delete   *)
(* extension then misses deletedAt in the row and answers that there is none. *)
PortalCaseFound(row, basis) == FALSE

PortalDocumentListed(row, basis) ==
  "case" \in basis /\ {"live", "linked"} \subseteq row /\ "secret" \notin row

PortalDocumentFound(row, basis) ==
  "case" \in basis /\ {"live", "linked"} \subseteq row /\ "secret" \notin row

(* With no case, the condition on the case is left out of the OR. *)
PortalEventListed(row, basis) ==
  "live" \in row /\ (("case" \in basis /\ "linked" \in row) \/ "invited" \in row)

(* Mutant: the client's own invitations are forgotten. *)
PortalEventFoundByCase(row, basis) ==
  "live" \in row /\ "case" \in basis /\ "linked" \in row

PortalEventFound(row, basis) ==
  "live" \in row /\ (("case" \in basis /\ "linked" \in row) \/ "invited" \in row)

PortalInvoiceListed(row, basis) == "live" \in row /\ "draft" \notin row
PortalInvoiceFound(row, basis) == "live" \in row /\ "draft" \notin row

CaseListed(row, basis) == {"case", "assigned"} \subseteq row
CaseFound(row, basis) == "assigned" \in basis /\ "case" \in row

DocumentListed(row, basis) == "live" \in row /\ ("secret" \in row => "mine" \in row)
DocumentFound(row, basis) ==
  /\ DocumentListed(row, basis)
  /\ "linked" \in row => "assigned" \in basis

EventListed(row, basis) == {"live", "mine"} \subseteq row
EventFound(row, basis) == "live" \in row

InvoiceListed(row, basis) == {"live", "assigned"} \subseteq row
InvoiceFound(row, basis) == "live" \in row /\ "assigned" \in basis

ExpenseListed(row, basis) == {"live", "assigned"} \subseteq row
ExpenseFound(row, basis) == "live" \in row /\ "assigned" \in basis

TimeListed(row, basis) == {"live", "mine"} \subseteq row
TimeFound(row, basis) == "live" \in row

LeadListed(row, basis) == {"live", "mine"} \subseteq row
LeadFound(row, basis) == "live" \in row

Sees(reader, end, row, basis) ==
  IF reader = "client"
  THEN IF end = "list"
       THEN CASE kind = "case"     -> PortalCaseListed(row, basis)
              [] kind = "document" -> PortalDocumentListed(row, basis)
              [] kind = "event"    -> PortalEventListed(row, basis)
              [] kind = "invoice"  -> PortalInvoiceListed(row, basis)
       ELSE CASE kind = "case"     -> PortalCaseFound(row, basis)
              [] kind = "document" -> PortalDocumentFound(row, basis)
              [] kind = "event"    -> PortalEventFound(row, basis)
              [] kind = "invoice"  -> PortalInvoiceFound(row, basis)
  ELSE IF end = "list"
       THEN CASE kind = "case"     -> CaseListed(row, basis)
              [] kind = "document" -> DocumentListed(row, basis)
              [] kind = "event"    -> EventListed(row, basis)
              [] kind = "invoice"  -> InvoiceListed(row, basis)
              [] kind = "expense"  -> ExpenseListed(row, basis)
              [] kind = "time"     -> TimeListed(row, basis)
              [] kind = "lead"     -> LeadListed(row, basis)
       ELSE CASE kind = "case"     -> CaseFound(row, basis)
              [] kind = "document" -> DocumentFound(row, basis)
              [] kind = "event"    -> EventFound(row, basis)
              [] kind = "invoice"  -> InvoiceFound(row, basis)
              [] kind = "expense"  -> ExpenseFound(row, basis)
              [] kind = "time"     -> TimeFound(row, basis)
              [] kind = "lead"     -> LeadFound(row, basis)

(* What the endpoint would answer in a single query. *)
Truth(reader, end, now) == Sees(reader, end, now, now \cap {"case", "assigned"})

(* The portal reads the client's cases before the row, as does a lawyer's   *)
(* CaseService.findOne the assignment; the other details read the row first. *)
BasisFirst(reader, end) == reader = "client" \/ kind = "case"

-----------------------------------------------------------------------------
Called(reader, end, stale) ==
  [reader |-> reader, pc |-> end, left |-> 2, row |-> {}, basis |-> {},
   truths |-> {Truth(reader, end, facts)}, answer |-> FALSE, changes |-> 0, stale |-> stale]

OpenList(reader) ==
  /\ visit = NoVisit
  /\ reader = "client" => kind \in {"case", "document", "event", "invoice"}
  /\ visit' = Called(reader, "list", FALSE)
  /\ UNCHANGED <<kind, facts>>

FirstQuery ==
  /\ visit.pc # "none" /\ visit.left = 2
  /\ visit' = IF BasisFirst(visit.reader, visit.pc)
              THEN [visit EXCEPT !.left = 1, !.basis = facts \cap {"case", "assigned"}]
              ELSE [visit EXCEPT !.left = 1, !.row = facts]
  /\ UNCHANGED <<kind, facts>>

(* A list of the firm's services is one query with a join: its answer rests *)
(* on the row alone.                                                        *)
SecondQuery ==
  /\ visit.pc # "none" /\ visit.left = 1
  /\ LET basis == IF BasisFirst(visit.reader, visit.pc) THEN visit.basis
                  ELSE facts \cap {"case", "assigned"}
         row   == IF BasisFirst(visit.reader, visit.pc) THEN facts ELSE visit.row
     IN  visit' = [visit EXCEPT !.left = 0, !.row = {}, !.basis = basis,
                                !.answer = Sees(visit.reader, visit.pc, row, basis)]
  /\ UNCHANGED <<kind, facts>>

(* Mutant: the cases the list was made with serve the detail too. *)
OpenDetailReusing ==
  /\ visit.pc = "list" /\ visit.left = 0 /\ visit.answer
  /\ visit' = IF BasisFirst(visit.reader, "detail")
              THEN [Called(visit.reader, "detail", visit.stale)
                      EXCEPT !.left = 1, !.basis = visit.basis]
              ELSE Called(visit.reader, "detail", visit.stale)
  /\ UNCHANGED <<kind, facts>>

(* The reader opens the row that the list showed. *)
OpenDetail ==
  /\ visit.pc = "list" /\ visit.left = 0 /\ visit.answer
  /\ visit' = Called(visit.reader, "detail", visit.stale)
  /\ UNCHANGED <<kind, facts>>

Leave ==
  /\ visit.pc # "none" /\ visit.left = 0
  /\ visit' = NoVisit
  /\ UNCHANGED <<kind, facts>>

-----------------------------------------------------------------------------
Happens(now) ==
  /\ facts' = now
  /\ visit' = IF visit.pc = "none" THEN visit
              ELSE [visit EXCEPT !.stale = TRUE,
                                 !.changes = IF visit.left = 1 /\ @ < 2 THEN @ + 1 ELSE @,
                                 !.truths = IF visit.left = 0 THEN @
                                            ELSE @ \cup {Truth(visit.reader, visit.pc, now)}]
  /\ UNCHANGED kind

Toggled(f) == (facts \ {f}) \cup ({f} \ facts)

(* CaseService.remove *)
RemoveCase == "case" \in facts /\ Happens(facts \ {"case"})
(* CaseService.assignLawyer, removeAssignment *)
ChangeTeam == Happens(Toggled("assigned"))
(* The remove of the row's service; an invoice's asks for a draft. *)
RemoveItem ==
  /\ kind \notin {"expense", "time"}
  /\ "live" \in facts /\ (kind = "invoice" => "draft" \in facts)
  /\ Happens(facts \ {"live"})
(* TimeEntryService.remove, ExpenseService.remove: not what is billed.      *)
RemoveTimeEntry ==
  kind = "time" /\ "live" \in facts /\ "billed" \notin facts /\ Happens(facts \ {"live"})
RemoveExpense ==
  kind = "expense" /\ "live" \in facts /\ "billed" \notin facts /\ Happens(facts \ {"live"})
(* unmarkBilledEntries, when the invoice is cancelled or removed. *)
UnmarkBilled == "billed" \in facts /\ Happens(facts \ {"billed"})
(* DocumentService.update; EventService.update's caseId, linkToCase,        *)
(* unlinkFromCase                                                           *)
ChangeDocument == kind = "document" /\ Happens(Toggled("secret"))
ChangeLink == kind \in {"document", "event"} /\ Happens(Toggled("linked"))
(* EventService.addAttendee, removeAttendee; LeadService.update's assignee *)
ChangePeople ==
  \/ kind \in {"event", "lead"} /\ Happens(Toggled("mine"))
  \/ kind = "event" /\ Happens(Toggled("invited"))
(* InvoiceService.update: a bill leaves DRAFT for good. *)
SendInvoice == "draft" \in facts /\ Happens(facts \ {"draft"})

ViewsNext ==
  \/ \E reader \in Readers : OpenList(reader)
  \/ FirstQuery \/ SecondQuery \/ OpenDetail \/ Leave
  \/ RemoveCase \/ ChangeTeam \/ RemoveItem \/ RemoveTimeEntry \/ RemoveExpense \/ UnmarkBilled
  \/ ChangeDocument \/ ChangeLink \/ ChangePeople \/ SendInvoice

ViewsSpec == ViewsInit /\ [][ViewsNext]_viewVars

-----------------------------------------------------------------------------
Answered(end) == visit.pc = end /\ visit.left = 0

(* An endpoint of two queries answers as of one moment of its run, unless   *)
(* two writes fell between them: its row was shown, or denied, rightly at   *)
(* some time after the call.                                                *)
AnswersAsOfOneMoment ==
  visit.pc # "none" /\ visit.left = 0 /\ visit.changes < 2 => visit.answer \in visit.truths

(* What a list shows opens, unless something changed since the list was     *)
(* called.  Two endpoints break it on their own: the portal's case detail,  *)
(* and the detail of a document of a case the lawyer is not on.             *)
ListedOpens ==
  Answered("detail") /\ ~visit.answer =>
    \/ visit.stale
    \/ visit.reader = "client" /\ kind = "case"
    \/ visit.reader = "lawyer" /\ kind = "document" /\ "linked" \in facts
                               /\ "assigned" \notin facts

(* A client who owns a case gets its details: 'should return case details   *)
(* when client owns the case' (portal-cases.service.spec.ts).               *)
ClientCaseOpens ==
  Answered("detail") /\ visit.reader = "client" /\ kind = "case" /\ ~visit.stale => visit.answer
=============================================================================
