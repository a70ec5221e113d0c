------------------------------ MODULE MCOffice ------------------------------
(****************************************************************************)
(* One run for the modules of the office, which share no state but the      *)
(* requests: a behaviour is of the part chosen at its start, so the states  *)
(* of the parts add up instead of multiplying.  The other parts rest in an  *)
(* initial state.  The parts share their model values too.                  *)
(****************************************************************************)
EXTENDS Calendar, TwoFactor, Accounts, CaseAccess, CaseWork, Creation, Views,
        Statements, Inbox, SoftDelete, TLC

CONSTANTS r1, r2, a1, a2, e1, e2

TwoRequests == {r1, r2}  \* the creations in flight are two as well
Two         == {a1, a2}  \* people, lawyers, recovery codes
TwoEvents   == {e1, e2}
One         == {e1}      \* a party, note or task; a bill
SymOffice   == Permutations(TwoRequests) \cup Permutations(Two)

VARIABLE part

Parts == {"calendar", "twoFactor", "accounts", "team", "caseWork",
          "creation", "views", "statements", "inbox", "softDelete", "access"}

teamRows == <<role, removed, madeBy>>

OfficeInit ==
  /\ part \in Parts
  /\ CalendarInit /\ TwoFactorInit /\ AccountsInit /\ CaseWorkInit /\ CreationInit
  /\ ViewsInit /\ StatementsInit /\ InboxInit /\ SoftDeleteInit
  /\ call = [r \in Requests |-> NoCall] /\ leaderless = NoCall
  /\ IF part \in {"team", "access"} THEN TeamInit
     ELSE role = [u \in Lawyers |-> None] /\ removed = {} /\ madeBy = role
  /\ part # "views" => kind = "case" /\ facts = {}
  /\ part # "statements" => \A b \in Bills : bill[b].total = 1
  /\ part # "softDelete" => row = "live"

OfficeNext ==
  \/ /\ part = "calendar" /\ CalendarNext
     /\ UNCHANGED <<part, twoFactorVars, accountVars, teamRows, caseWorkVars,
                    creationVars, viewVars, statementVars, inboxVars,
                    softDeleteVars, accessVars>>
  \/ /\ part = "twoFactor" /\ TwoFactorNext
     /\ UNCHANGED <<part, calendarVars, accountVars, teamRows, caseWorkVars,
                    creationVars, viewVars, statementVars, inboxVars,
                    softDeleteVars, accessVars>>
  \/ /\ part = "accounts" /\ AccountsNext
     /\ UNCHANGED <<part, calendarVars, twoFactorVars, teamRows,
                    caseWorkVars, creationVars, viewVars, statementVars,
                    inboxVars, softDeleteVars, accessVars>>
  \/ /\ part = "team" /\ TeamNext
     /\ UNCHANGED <<part, calendarVars, twoFactorVars, accountVars,
                    caseWorkVars, creationVars, viewVars, statementVars,
                    inboxVars, softDeleteVars, accessVars>>
  \/ /\ part = "caseWork" /\ CaseWorkNext
     /\ UNCHANGED <<part, calendarVars, twoFactorVars, accountVars, teamRows,
                    creationVars, viewVars, statementVars, inboxVars,
                    softDeleteVars, accessVars>>
  \/ /\ part = "creation" /\ CreationNext
     /\ UNCHANGED <<part, req, calendarVars, twoFactorVars, accountVars,
                    teamRows, caseWorkVars, viewVars, statementVars,
                    inboxVars, softDeleteVars, accessVars>>
  \/ /\ part = "views" /\ ViewsNext
     /\ UNCHANGED <<part, req, calendarVars, twoFactorVars, accountVars,
                    teamRows, caseWorkVars, creationVars, statementVars,
                    inboxVars, softDeleteVars, accessVars>>
  \/ /\ part = "statements" /\ StatementsNext
     /\ UNCHANGED <<part, req, calendarVars, twoFactorVars, accountVars,
                    teamRows, caseWorkVars, creationVars, viewVars,
                    inboxVars, softDeleteVars, accessVars>>
  \/ /\ part = "inbox" /\ InboxNext
     /\ UNCHANGED <<part, req, calendarVars, twoFactorVars, accountVars,
                    teamRows, caseWorkVars, creationVars, viewVars,
                    statementVars, softDeleteVars, accessVars>>
  \/ /\ part = "softDelete" /\ SoftDeleteNext
     /\ UNCHANGED <<part, req, calendarVars, twoFactorVars, accountVars,
                    teamRows, caseWorkVars, creationVars, viewVars,
                    statementVars, inboxVars, accessVars>>
  \/ /\ part = "access" /\ AccessNext
     /\ UNCHANGED <<part, calendarVars, twoFactorVars, accountVars,
                    caseWorkVars, creationVars, viewVars, statementVars,
                    inboxVars, softDeleteVars>>

officeVars == <<part, req, calendarVars, twoFactorVars, accountVars,
                teamRows, caseWorkVars, creationVars, viewVars,
                statementVars, inboxVars, softDeleteVars, accessVars>>

OfficeSpec == OfficeInit /\ [][OfficeNext]_officeVars

(* Rows, handlers and histories keep their types, with what the handlers of *)
(* each part rely on (see the TypeOK of its module).                        *)
OfficeTypeOK ==
  CASE part = "calendar"    -> CalendarTypeOK
    [] part = "twoFactor"   -> TwoFactorTypeOK
    [] part = "accounts"    -> AccountsTypeOK
    [] part = "team"        -> TeamTypeOK
    [] part = "caseWork"    -> CaseWorkTypeOK
    [] part = "creation"    -> CreationTypeOK
    [] part = "views"       -> ViewsTypeOK
    [] part = "statements"  -> StatementsTypeOK
    [] part = "inbox"       -> InboxTypeOK
    [] part = "softDelete"  -> SoftDeleteTypeOK
    [] part = "access"      -> AccessTypeOK

(* What is read is of one moment of the reading call, the two queries of a  *)
(* list or detail and the extension's findUnique under them, but where the  *)
(* parts say: with two writes or more between the queries it may mix two    *)
(* moments; a field that the select leaves out is not looked at; and        *)
(* findUnique may return a row deleted before its second query.             *)
ReadsOfOneMoment == AnswersAsOfOneMoment /\ LookupsSeeLive

(* What is done on a case: by whom its team allows, and as its timeline     *)
(* tells.                                                                   *)
CaseDealings == (part = "access" => AccessSound) /\ TimelineSound
=============================================================================
