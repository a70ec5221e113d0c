------------------------------ MODULE Stamping ------------------------------
(****************************************************************************)
(* The fiscal stamp (CFDI) of one invoice: CfdiService.stampInvoice, behind *)
(* its circuit breaker, and cancelCfdi, which calls the provider directly.  *)
(* Both read the invoice, call the provider and write the invoice, with     *)
(* nothing that keeps two of them apart.  The provider is external: each    *)
(* stamp gets a new uuid, and a call may fail, its work done or not.        *)
(****************************************************************************)
EXTENDS Naturals, CircuitBreaker, Handlers

CONSTANT MaxStamps \* bound: the provider issues no more

ASSUME StampsOK == MaxStamps \in Nat /\ None \notin Nat

Uuids == 1..MaxStamps

VARIABLES
  bill,     \* the invoice's status, as far as stamping looks at it
  cfdiUuid, \* the stamp the invoice row carries
  stamp,    \* the provider's stamps: "none", "valid" or "cancelled"
  breaker,  \* the service's circuit breaker
  excused   \* history: stamps of handlers that overlapped another, or died

stampVars == <<bill, cfdiUuid, stamp, breaker, excused>>

StampJob  == [op : {"stamp"}, pc : {"call", "write"}, uuid : Uuids \cup {None}, alone : BOOLEAN]
RevokeJob == [op : {"revoke"}, pc : {"call", "clear"}, uuid : Uuids, alone : BOOLEAN]

StampingTypeOK ==
  /\ bill \in {"DRAFT", "DUE", "CANCELLED"}
  /\ cfdiUuid \in Uuids \cup {None}
  /\ stamp \in [Uuids -> {"none", "valid", "cancelled"}]
  /\ breaker \in Breaker
  /\ excused \subseteq Uuids
  /\ req \in [Requests -> {IdleJob} \cup StampJob \cup RevokeJob]
  /\ \A r \in Requests : Doing(r, "stamp", "write") => stamp[req[r].uuid] # "none"
  /\ cfdiUuid # None => stamp[cfdiUuid] # "none"

StampingInit ==
  /\ bill = "DRAFT"
  /\ cfdiUuid = None
  /\ stamp = [u \in Uuids |-> "none"]
  /\ breaker = NewBreaker
  /\ excused = {}
  /\ req = [r \in Requests |-> IdleJob]

-----------------------------------------------------------------------------
(* The invoice goes its way, as Billing has it: nobody looks at the stamp.  *)
BillMoves ==
  /\ \/ bill = "DRAFT" /\ bill' \in {"DUE", "CANCELLED"}
     \/ bill = "DUE" /\ bill' = "CANCELLED"
  /\ UNCHANGED <<cfdiUuid, stamp, breaker, excused, req>>

(* A handler starts: it and the others in flight are no longer alone. *)
StartAmong(r, op, uuid) ==
  LET others == {q \in Requests : ~Idle(q)}
  IN  /\ Idle(r)
      /\ req' = [q \in Requests |->
           IF q = r THEN [op |-> op, pc |-> "call", uuid |-> uuid, alone |-> others = {}]
           ELSE IF q \in others THEN [req[q] EXCEPT !.alone = FALSE]
           ELSE req[q]]

(* stampInvoice up to the provider: refused for a draft, a cancelled or a   *)
(* stamped invoice, and by an open breaker.                                 *)
StampRead(r) ==
  /\ bill = "DUE" /\ cfdiUuid = None
  /\ Admits(breaker) /\ breaker' = Entered(breaker)
  /\ StartAmong(r, "stamp", None)
  /\ UNCHANGED <<bill, cfdiUuid, stamp, excused>>

NextUuid == {u \in Uuids : stamp[u] = "none" /\ \A v \in 1..(u - 1) : stamp[v] # "none"}

(* The handler ends without having changed the invoice: what it stamped, or *)
(* was about to clear, is excused.                                          *)
Abort(r, uuids) == excused' = excused \cup (uuids \ {None}) /\ Finish(r)

Excuse(r) ==
  /\ excused' = IF req[r].alone THEN excused ELSE excused \cup {req[r].uuid}
  /\ Finish(r)

StampAnswered(r) ==
  \E u \in NextUuid :
    /\ Doing(r, "stamp", "call")
    /\ stamp' = [stamp EXCEPT ![u] = "valid"]
    /\ breaker' = Succeeded(breaker)
    /\ req' = [req EXCEPT ![r].pc = "write", ![r].uuid = u]
    /\ UNCHANGED <<bill, cfdiUuid, excused>>

(* The call fails, perhaps after the provider did its work. *)
StampFails(r) ==
  /\ Doing(r, "stamp", "call")
  /\ breaker' = Failed(breaker)
  /\ \/ UNCHANGED stamp /\ Abort(r, {})
     \/ \E u \in NextUuid : stamp' = [stamp EXCEPT ![u] = "valid"] /\ Abort(r, {u})
  /\ UNCHANGED <<bill, cfdiUuid>>

StampWrite(r) ==
  /\ Doing(r, "stamp", "write")
  /\ cfdiUuid' = req[r].uuid
  /\ Excuse(r)
  /\ UNCHANGED <<bill, stamp, breaker>>

(* cancelCfdi: whatever the invoice's status. *)
RevokeRead(r) ==
  /\ cfdiUuid # None
  /\ StartAmong(r, "revoke", cfdiUuid)
  /\ UNCHANGED stampVars

RevokeCall(r) ==
  /\ Doing(r, "revoke", "call")
  /\ stamp' = [stamp EXCEPT ![req[r].uuid] = "cancelled"]
  /\ Goto(r, "clear")
  /\ UNCHANGED <<bill, cfdiUuid, breaker, excused>>

(* Mutant: only the document's address is cleared. *)
RevokeClearNothing(r) ==
  /\ Doing(r, "revoke", "clear")
  /\ Excuse(r)
  /\ UNCHANGED <<bill, cfdiUuid, stamp, breaker>>

(* By the invoice's id: whatever stamp it carries by now. *)
RevokeClear(r) ==
  /\ Doing(r, "revoke", "clear")
  /\ cfdiUuid' = None
  /\ Excuse(r)
  /\ UNCHANGED <<bill, stamp, breaker>>

(* A statement fails, the process dies, or the provider's cancel fails, its *)
(* work done or not.                                                        *)
StampingFail(r) ==
  /\ ~Idle(r)
  /\ \/ UNCHANGED stamp
     \/ /\ Doing(r, "revoke", "call")
        /\ stamp' = [stamp EXCEPT ![req[r].uuid] = "cancelled"]
  /\ Abort(r, {req[r].uuid})
  /\ UNCHANGED <<bill, cfdiUuid, breaker>>

(* recoveryTimeoutMs pass. *)
Rest ==
  /\ ~breaker.rested
  /\ breaker' = [breaker EXCEPT !.rested = TRUE]
  /\ UNCHANGED <<bill, cfdiUuid, stamp, excused, req>>

StampingNext ==
  \/ \E r \in Requests :
       \/ StampRead(r) \/ StampAnswered(r) \/ StampFails(r) \/ StampWrite(r)
       \/ RevokeRead(r) \/ RevokeCall(r) \/ RevokeClear(r) \/ StampingFail(r)
  \/ BillMoves \/ Rest

StampingSpec == StampingInit /\ [][StampingNext]_<<req, stampVars>>

-----------------------------------------------------------------------------
Holder(u, op, pc) == \E r \in Requests : Doing(r, op, pc) /\ req[r].uuid = u

(* The provider and the invoice agree: a valid stamp is carried or about to *)
(* be written, a carried one is valid or about to be cleared.  They part    *)
(* only over a stamp whose handler overlapped another one or died.          *)
StampsExplained ==
  \A u \in Uuids \ excused :
    /\ stamp[u] = "valid" => cfdiUuid = u \/ Holder(u, "stamp", "write")
    /\ cfdiUuid = u /\ stamp[u] = "cancelled" => Holder(u, "revoke", "clear")

(* However calls overlap, end late or fail, a breaker is closed exactly     *)
(* while it counts fewer failures than its threshold: it neither stays      *)
(* closed past it nor stays open behind a success.                          *)
BreakerConsistent == breaker.state = "CLOSED" <=> breaker.failures < FailureThreshold
=============================================================================
