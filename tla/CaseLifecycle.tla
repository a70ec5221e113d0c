---------------------------- MODULE CaseLifecycle ----------------------------
(****************************************************************************)
(* The life of one case: CaseService.findOne, update, remove and            *)
(* updateStatus, and the creation of time entries and expenses, over the    *)
(* read-through cache of AppCacheService.  Cases share nothing: each has    *)
(* its own row and its own cache key.                                       *)
(*                                                                          *)
(* Every operation starts with findOne, which trusts the cache for up to    *)
(* five minutes.  A miss queries the row and stores what it read in a later *)
(* step, so an answer may be stored after the entry was invalidated; and    *)
(* updateStatus does not invalidate the entry at all.                       *)
(****************************************************************************)
EXTENDS Naturals

CONSTANTS Requests, None

CaseStatus == {"INTAKE", "ACTIVE", "IN_HEARING", "SENTENCING", "APPEAL", "CLOSED", "ARCHIVED"}

ASSUME NoneOK == None \notin CaseStatus

VARIABLES
  status, deleted,  \* the case row
  entered,          \* history: the statuses the row has had
  cache,            \* status in the cached detail, None if there is no entry
  req,              \* the handlers in flight
  overtaken,        \* history: the handlers whose answer the row has left behind
  aged              \* history: how the row has left the cached entry behind

vars == <<status, deleted, entered, cache, req, overtaken, aged>>

-----------------------------------------------------------------------------
StatusTransitions ==
  [INTAKE     |-> {"ACTIVE"},
   ACTIVE     |-> {"IN_HEARING", "CLOSED"},
   IN_HEARING |-> {"SENTENCING", "ACTIVE", "CLOSED"},
   SENTENCING |-> {"APPEAL", "CLOSED"},
   APPEAL     |-> {"IN_HEARING", "CLOSED"},
   CLOSED     |-> {"ARCHIVED"},
   ARCHIVED   |-> {}]

Frozen == {"CLOSED", "ARCHIVED"}

(* to is the body of updateStatus, and admin whether the caller may archive. *)
(* record is the creation of a time entry or an expense.                     *)
Ops == {"view", "update", "record", "remove", "updateStatus"}
Call == [op : Ops, to : CaseStatus \cup {None}, admin : BOOLEAN]

(* pc: where the handler is; got: what its query has answered.              *)
IdleJob == [pc |-> "idle"]
Job == [pc : {"get", "query", "write", "del"}, call : Call]
         \cup [pc : {"set"}, call : Call, got : CaseStatus]

TypeOK ==
  /\ status \in CaseStatus /\ deleted \in BOOLEAN
  /\ entered \subseteq CaseStatus
  /\ cache \in CaseStatus \cup {None}
  /\ req \in [Requests -> {IdleJob} \cup Job]
  /\ \A r \in Requests : req[r].pc = "write" => req[r].call.op # "view"
  /\ overtaken \subseteq Requests
  /\ aged \in {"no", "left", "late"} /\ (cache = None => aged = "no")

Init ==
  /\ status = "INTAKE" /\ deleted = FALSE
  /\ entered = {"INTAKE"}
  /\ cache = None
  /\ req = [r \in Requests |-> IdleJob]
  /\ overtaken = {} /\ aged = "no"

-----------------------------------------------------------------------------
At(r, pc) == req[r].pc = pc
Doing(r, pc, op) == At(r, pc) /\ req[r].call.op = op
Goto(r, call, pc) == req' = [req EXCEPT ![r] = [pc |-> pc, call |-> call]]
Finish(r) == req' = [req EXCEPT ![r] = IdleJob]
ThenView(r) == Goto(r, [op |-> "view", to |-> None, admin |-> FALSE], "get")

(* History: a write that changes the row overtakes the answers the other    *)
(* handlers hold, and leaves the cached entry as it is.                     *)
Overtake(r) ==
  IF UNCHANGED <<status, deleted>> THEN UNCHANGED <<overtaken, aged>>
  ELSE /\ overtaken' = overtaken \cup {q \in Requests \ {r} : At(q, "set") \/ At(q, "write")}
       /\ aged' = IF cache # None /\ aged = "no" THEN "left" ELSE aged

(* Mutant: the transition table is not consulted. *)
AcceptsAnyTransition(call, s) ==
  \/ call.op \in {"update", "record"} /\ s \notin Frozen
  \/ call.op \in {"remove", "updateStatus"}

(* Mutant: only CLOSED is looked for, an archived case is edited and billed. *)
AcceptsArchived(call, s) ==
  \/ call.op \in {"update", "record"} /\ s # "CLOSED"
  \/ call.op = "remove"
  \/ /\ call.op = "updateStatus"
     /\ call.to \in StatusTransitions[s]
     /\ (s = "CLOSED" /\ call.to = "ARCHIVED") => call.admin

(* Whether the operation goes on with the case it found in status s: a view *)
(* is over, a frozen case is neither edited nor billed, a transition must   *)
(* be allowed, and archiving is for administrators.                         *)
Accepts(call, s) ==
  \/ call.op \in {"update", "record"} /\ s \notin Frozen
  \/ call.op = "remove"
  \/ /\ call.op = "updateStatus"
     /\ call.to \in StatusTransitions[s]
     /\ (s = "CLOSED" /\ call.to = "ARCHIVED") => call.admin

(* Mutant: the answer of findOne is not looked at. *)
ProceedUnguarded(r, call, s) == Goto(r, call, "write")

Proceed(r, call, s) ==
  IF Accepts(call, s) THEN Goto(r, call, "write") ELSE Finish(r)

(* getOrSet: a hit answers from the cache, a miss goes to the database.     *)
Lookup(r, call) ==
  /\ IF cache # None THEN Proceed(r, call, cache) ELSE Goto(r, call, "query")
  /\ overtaken' = IF aged = "no" THEN overtaken \ {r} ELSE overtaken \cup {r}
  /\ UNCHANGED <<status, deleted, entered, cache, aged>>

(* The caller's role is looked at for archiving only. *)
Begin(r) ==
  /\ At(r, "idle")
  /\ \E call \in Call :
       /\ (call.op = "updateStatus") <=> (call.to # None)
       /\ call.admin => call.to = "ARCHIVED"
       /\ Lookup(r, call)

(* update and updateStatus end with another findOne. *)
Reread(r) == At(r, "get") /\ Lookup(r, req[r].call)

(* Mutant: the query finds soft-deleted cases too. *)
QueryDeleted(r) ==
  /\ At(r, "query")
  /\ req' = [req EXCEPT ![r] = [pc |-> "set", call |-> req[r].call, got |-> status]]
  /\ UNCHANGED <<status, deleted, entered, cache, overtaken, aged>>

(* findFirst hides a soft-deleted case: 404, and nothing is cached. *)
Query(r) ==
  /\ At(r, "query")
  /\ IF deleted THEN Finish(r)
     ELSE req' = [req EXCEPT ![r] = [pc |-> "set", call |-> req[r].call, got |-> status]]
  /\ UNCHANGED <<status, deleted, entered, cache, overtaken, aged>>

CacheSet(r) ==
  /\ At(r, "set")
  /\ cache' = req[r].got
  /\ aged' = IF r \in overtaken THEN "late" ELSE "no"
  /\ Proceed(r, req[r].call, req[r].got)
  /\ UNCHANGED <<status, deleted, entered, overtaken>>

(* The writes go by the id alone.  update touches columns that no guard     *)
(* reads, and the billable work is a row of its own.                        *)
UpdateWrite(r) ==
  /\ Doing(r, "write", "update")
  /\ Goto(r, req[r].call, "del")
  /\ UNCHANGED <<status, deleted, entered, cache, overtaken, aged>>

RecordWrite(r) ==
  /\ Doing(r, "write", "record")
  /\ Finish(r)
  /\ UNCHANGED <<status, deleted, entered, cache, overtaken, aged>>

(* Mutant: remove leaves the cached detail to its time to live, as          *)
(* updateStatus does.                                                       *)
RemoveWriteOnly(r) ==
  /\ Doing(r, "write", "remove")
  /\ deleted' = TRUE
  /\ Finish(r)
  /\ UNCHANGED <<status, entered, cache>>
  /\ Overtake(r)

RemoveWrite(r) ==
  /\ Doing(r, "write", "remove")
  /\ deleted' = TRUE
  /\ Goto(r, req[r].call, "del")
  /\ UNCHANGED <<status, entered, cache>>
  /\ Overtake(r)

StatusWrite(r) ==
  /\ Doing(r, "write", "updateStatus")
  /\ status' = req[r].call.to
  /\ entered' = entered \cup {req[r].call.to}
  /\ ThenView(r)
  /\ UNCHANGED <<deleted, cache>>
  /\ Overtake(r)

CacheDel(r) ==
  /\ At(r, "del")
  /\ cache' = None /\ aged' = "no"
  /\ IF req[r].call.op = "update" THEN ThenView(r) ELSE Finish(r)
  /\ UNCHANGED <<status, deleted, entered, overtaken>>

(* The entry's time to live (300 s) runs out. *)
Expire ==
  /\ cache # None
  /\ cache' = None /\ aged' = "no"
  /\ UNCHANGED <<status, deleted, entered, req, overtaken>>

(* The process dies: the handlers and the in-memory cache go with it. *)
Restart ==
  /\ cache' = None /\ aged' = "no"
  /\ req' = [r \in Requests |-> IdleJob] /\ overtaken' = {}
  /\ UNCHANGED <<status, deleted, entered>>

Step(r) ==
  \/ Reread(r) \/ Query(r) \/ CacheSet(r) \/ CacheDel(r)
  \/ UpdateWrite(r) \/ RecordWrite(r) \/ RemoveWrite(r) \/ StatusWrite(r)

Next ==
  \/ \E r \in Requests : Begin(r) \/ Step(r)
  \/ Expire
  \/ Restart

Spec == Init /\ [][Next]_vars

-----------------------------------------------------------------------------
(* However stale the answers of findOne, a case only ever takes a status    *)
(* that follows one it has had: none is archived that was never closed.     *)
EveryStatusJustified ==
  \A s \in entered \ {"INTAKE"} : \E p \in entered : s \in StatusTransitions[p]

(* findOne answers with statuses the case has had: neither the cache nor a  *)
(* handler holds one that was never written.                                *)
AnswersWereTrue ==
  /\ status \in entered
  /\ cache \in entered \cup {None}
  /\ \A r \in Requests : At(r, "set") => req[r].got \in entered

(* Once a deleted case has left the cache and no handler holds an answer    *)
(* about it, nothing finds it or changes it again.                          *)
Forgotten ==
  /\ deleted /\ cache = None
  /\ \A r \in Requests : req[r].pc \in {"idle", "get", "query"}
DeletedIsGone == [][Forgotten => Forgotten' /\ UNCHANGED status]_vars

(* A write is wrong for the row it lands on - an edit or billable work of a *)
(* closed case, a forbidden transition, any write to a deleted case - only  *)
(* when the answer of findOne it rests on, its own or the cached one it was *)
(* given, was left behind by another handler's write in the meantime.       *)
WritesAreCurrent ==
  \A r \in Requests \ overtaken : At(r, "write") =>
    /\ ~deleted
    /\ req[r].call.op \in {"update", "record"} => status \notin Frozen
    /\ req[r].call.op = "updateStatus" => req[r].call.to \in StatusTransitions[status]

(* The cached detail is the row, unless a status was written while it was   *)
(* cached or it was stored by a fill that was overtaken.  A deleted case is *)
(* served from the cache only until its removal's del, or when such a late  *)
(* fill has brought it back.                                                *)
CacheExplained ==
  cache # None =>
    /\ aged = "no" => cache = status /\ ~deleted
    /\ deleted => aged = "late" \/ \E r \in Requests : Doing(r, "del", "remove")

(* A closed or archived case is neither edited nor billed.  'should throw   *)
(* BadRequestException if case is CLOSED' (case.service.spec.ts), 'should   *)
(* reject time entry for closed case (400)' (billing.e2e-spec.ts).          *)
ClosedIsFrozen ==
  [][\A r \in Requests : (UpdateWrite(r) \/ RecordWrite(r)) => status \notin Frozen]_vars
=============================================================================
