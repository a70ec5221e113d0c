--------------------------- MODULE OutsideProofs ---------------------------
(* Clients to be, the stamping provider and the signature service, for any  *)
(* number of requests.                                                      *)
EXTENDS MCOutside, FiniteSetTheorems, TLAPS

-----------------------------------------------------------------------------
(* A handler that is alone is the only one at work. *)
AloneAtWork ==
  \A r, q \in Requests : ~Idle(r) /\ req[r].alone /\ q # r => Idle(q)

(* What handlers hold: a stamp that only its own handler knows is valid,    *)
(* one about to be cleared is cancelled, and an invoice that carries        *)
(* neither nothing nor the handler's own stamp was written beside it.       *)
StampsHeld ==
  \A r \in Requests :
    /\ Doing(r, "stamp", "call") => req[r].uuid = None
    /\ Doing(r, "stamp", "write") =>
         /\ req[r].uuid \in Uuids
         /\ req[r].alone => stamp[req[r].uuid] = "valid"
    /\ Doing(r, "revoke", "clear") => stamp[req[r].uuid] = "cancelled"
    /\ ~Idle(r) /\ cfdiUuid \notin {None, req[r].uuid} => cfdiUuid \in excused

StampingInv == StampingTypeOK /\ AloneAtWork /\ StampsHeld /\ StampsExplained

Counted(b) == b.state = "CLOSED" <=> b.failures < FailureThreshold

(* What entering, succeeding and failing make of a breaker. *)
LEMMA BreakerSteps ==
  ASSUME NEW b \in Breaker
  PROVE  /\ {Entered(b), Succeeded(b), Failed(b), [b EXCEPT !.rested = TRUE]} \subseteq Breaker
         /\ Counted(b) => /\ Counted(Entered(b)) /\ Counted(Failed(b))
                          /\ Counted([b EXCEPT !.rested = TRUE])
         /\ Counted(Succeeded(b))
<1>1. /\ b.state \in CircuitState /\ b.failures \in 0..FailureThreshold
      /\ b.rested \in BOOLEAN
  BY DEF Breaker
<1>2. Entered(b) \in Breaker /\ (Counted(b) => Counted(Entered(b)))
  BY <1>1 DEF Breaker, Entered, Counted, CircuitState
<1>3. Succeeded(b) \in Breaker /\ Counted(Succeeded(b))
  <2> DEFINE zeroed == [b EXCEPT !.failures = 0]
  <2>1. 0 \in 0..FailureThreshold /\ 0 < FailureThreshold BY ThresholdOK
  <2>2. zeroed \in Breaker /\ zeroed.failures = 0 BY <2>1 DEF Breaker
  <2>3. Succeeded(b) = [zeroed EXCEPT !.state = "CLOSED"] BY DEF Succeeded
  <2> HIDE DEF zeroed
  <2>4. /\ Succeeded(b) \in Breaker /\ Succeeded(b).state = "CLOSED"
        /\ Succeeded(b).failures = 0
    BY <2>2, <2>3 DEF Breaker, CircuitState
  <2> QED BY <2>1, <2>4 DEF Counted
<1>4. Failed(b) \in Breaker /\ (Counted(b) => Counted(Failed(b)))
  <2> DEFINE count == IF b.failures < FailureThreshold THEN b.failures + 1 ELSE FailureThreshold
             state == IF count >= FailureThreshold THEN "OPEN" ELSE b.state
  <2>1. count \in 0..FailureThreshold /\ (count < FailureThreshold => b.failures < FailureThreshold)
    BY <1>1, ThresholdOK
  <2>2. Failed(b) = [state |-> state, failures |-> count, rested |-> FALSE] BY DEF Failed
  <2>3. state \in CircuitState BY <1>1 DEF CircuitState
  <2>4. Counted(b) => (state = "CLOSED" <=> count < FailureThreshold)
    BY <1>1, <2>1, ThresholdOK DEF Counted
  <2> HIDE DEF count, state
  <2> QED BY <2>1, <2>2, <2>3, <2>4 DEF Breaker, Counted
<1>5. /\ [b EXCEPT !.rested = TRUE] \in Breaker
      /\ Counted(b) => Counted([b EXCEPT !.rested = TRUE])
  BY <1>1 DEF Breaker, Counted
<1> QED BY <1>2, <1>3, <1>4, <1>5

(* A handler starts: those in flight are at what they were, and not alone.  *)
LEMMA StartsAmong ==
  ASSUME req \in [Requests -> {IdleJob} \cup StampJob \cup RevokeJob],
         NEW r \in Requests, NEW op, NEW uuid, StartAmong(r, op, uuid),
         \/ op = "stamp" /\ uuid = None
         \/ op = "revoke" /\ uuid \in Uuids
  PROVE  /\ Idle(r) /\ req' \in [Requests -> {IdleJob} \cup StampJob \cup RevokeJob]
         /\ ~Idle(r)' /\ req'[r].op = op /\ req'[r].pc = "call" /\ req'[r].uuid = uuid
         /\ req'[r].alone => \A q \in Requests \ {r} : Idle(q)'
         /\ \A q \in Requests \ {r} :
              /\ Idle(q)' <=> Idle(q)
              /\ ~Idle(q) => /\ req'[q].op = req[q].op /\ req'[q].pc = req[q].pc
                             /\ req'[q].uuid = req[q].uuid /\ ~req'[q].alone
<1> DEFINE others == {q \in Requests : ~Idle(q)}
           new == [op |-> op, pc |-> "call", uuid |-> uuid, alone |-> others = {}]
<1>1. /\ Idle(r)
      /\ req' = [q \in Requests |-> IF q = r THEN new
                                    ELSE IF q \in others THEN [req[q] EXCEPT !.alone = FALSE]
                                    ELSE req[q]]
  BY DEF StartAmong
<1>2. new \in StampJob \cup RevokeJob /\ new # IdleJob
  BY DEF StampJob, RevokeJob, IdleJob
<1>3. ASSUME NEW q \in others
      PROVE  /\ [req[q] EXCEPT !.alone = FALSE] \in StampJob \cup RevokeJob
             /\ [req[q] EXCEPT !.alone = FALSE].op = req[q].op
             /\ [req[q] EXCEPT !.alone = FALSE].pc = req[q].pc
             /\ [req[q] EXCEPT !.alone = FALSE].uuid = req[q].uuid
             /\ ~[req[q] EXCEPT !.alone = FALSE].alone
  <2>1. req[q] \in StampJob \cup RevokeJob BY DEF Idle
  <2> QED BY <2>1 DEF StampJob, RevokeJob
<1>4. \A job \in StampJob \cup RevokeJob : job # IdleJob
  BY DEF StampJob, RevokeJob, IdleJob
<1>5. /\ new.op = op /\ new.pc = "call" /\ new.uuid = uuid
      /\ new.alone => others = {}
  OBVIOUS
<1>6. /\ req'[r] = new
      /\ \A q \in Requests \ {r} : req'[q] = IF q \in others THEN [req[q] EXCEPT !.alone = FALSE]
                                                ELSE req[q]
  BY <1>1
<1>7. req' \in [Requests -> {IdleJob} \cup StampJob \cup RevokeJob]
  <2>1. \A q \in Requests : req'[q] \in {IdleJob} \cup StampJob \cup RevokeJob
    BY <1>2, <1>3, <1>6
  <2>2. req' = [q \in Requests |-> req'[q]] BY <1>1
  <2> HIDE DEF others, new
  <2> QED BY <2>1, <2>2
<1>8. ~Idle(r)' BY <1>2, <1>6 DEF Idle
<1>9. ASSUME NEW q \in Requests \ {r}
      PROVE  /\ Idle(q)' <=> Idle(q)
             /\ ~Idle(q) => /\ req'[q].op = req[q].op /\ req'[q].pc = req[q].pc
                            /\ req'[q].uuid = req[q].uuid /\ ~req'[q].alone
  BY <1>3, <1>4, <1>6 DEF Idle
<1> QED BY <1>1, <1>5, <1>6, <1>7, <1>8, <1>9

(* A new handler that has read what the invoice carries. *)
LEMMA StartKeepsStamps ==
  ASSUME StampingInv, NEW r \in Requests, NEW op, NEW uuid, StartAmong(r, op, uuid),
         \/ op = "stamp" /\ uuid = None /\ cfdiUuid = None
         \/ op = "revoke" /\ uuid = cfdiUuid /\ cfdiUuid # None,
         UNCHANGED <<bill, cfdiUuid, stamp, excused>>, breaker' \in Breaker
  PROVE  StampingInv'
<1>0. StampingTypeOK /\ AloneAtWork /\ StampsHeld /\ StampsExplained BY DEF StampingInv
<1>1. /\ Idle(r) /\ req' \in [Requests -> {IdleJob} \cup StampJob \cup RevokeJob]
      /\ ~Idle(r)' /\ req'[r].op = op /\ req'[r].pc = "call" /\ req'[r].uuid = uuid
      /\ req'[r].alone => \A q \in Requests \ {r} : Idle(q)'
      /\ \A q \in Requests \ {r} :
           /\ Idle(q)' <=> Idle(q)
           /\ ~Idle(q) => /\ req'[q].op = req[q].op /\ req'[q].pc = req[q].pc
                          /\ req'[q].uuid = req[q].uuid /\ ~req'[q].alone
  <2>1. req \in [Requests -> {IdleJob} \cup StampJob \cup RevokeJob]
        /\ cfdiUuid \in Uuids \cup {None}
    BY <1>0 DEF StampingTypeOK
  <2> QED BY <2>1, StartsAmong
<1>2. \A q \in Requests : Idle(q) => req[q].op = "none" BY DEF Idle, IdleJob
<1>3. ASSUME NEW q \in Requests, NEW o \in {"stamp", "revoke"}, NEW pc \in {"write", "clear"}
      PROVE  Doing(q, o, pc)' <=> Doing(q, o, pc)
  <2>1. CASE q = r BY <1>1, <1>2, <2>1 DEF Doing
  <2>2. CASE q # r /\ Idle(q) BY <1>1, <2>2 DEF Doing, Idle, IdleJob
  <2>3. CASE q # r /\ ~Idle(q) BY <1>1, <2>3 DEF Doing
  <2> QED BY <2>1, <2>2, <2>3
<1>4. ASSUME NEW q \in Requests, ~Idle(q) PROVE req'[q].uuid = req[q].uuid
  BY <1>1, <1>4
<1>5. \A q \in Requests, o \in {"stamp", "revoke"}, pc \in {"write", "clear"} :
        Doing(q, o, pc) => ~Idle(q)
  BY <1>2 DEF Doing
<1>6. StampingTypeOK'
  <2>1. \A q \in Requests : Doing(q, "stamp", "write")' => stamp[req'[q].uuid] # "none"
    BY <1>0, <1>3, <1>4, <1>5 DEF StampingTypeOK
  <2> QED BY <1>0, <1>1, <2>1 DEF StampingTypeOK, Doing
<1>7. AloneAtWork' BY <1>1 DEF AloneAtWork
<1>8. StampsHeld'
  <2>1. ASSUME NEW q \in Requests, Doing(q, "stamp", "write")'
        PROVE  /\ req'[q].uuid \in Uuids
               /\ req'[q].alone => stamp'[req'[q].uuid] = "valid"
    <3>1. Doing(q, "stamp", "write") /\ ~Idle(q) BY <1>3, <1>5, <2>1
    <3>2. q # r BY <1>1, <3>1
    <3> QED BY <1>0, <1>1, <3>1, <3>2 DEF StampsHeld
  <2>2. ASSUME NEW q \in Requests, Doing(q, "revoke", "clear")'
        PROVE  stamp'[req'[q].uuid] = "cancelled"
    BY <1>0, <1>3, <1>4, <1>5, <2>2 DEF StampsHeld
  <2>3. ASSUME NEW q \in Requests, ~Idle(q)', cfdiUuid' \notin {None, req'[q].uuid}
        PROVE  cfdiUuid' \in excused'
    <3>1. q # r BY <1>1, <2>3
    <3> QED BY <1>0, <1>1, <2>3, <3>1 DEF StampsHeld
  <2>4. ASSUME NEW q \in Requests, Doing(q, "stamp", "call")' PROVE req'[q].uuid = None
    <3>1. CASE q = r BY <1>1, <2>4, <3>1 DEF Doing
    <3>2. CASE q # r
      <4>1. Doing(q, "stamp", "call") /\ ~Idle(q)
        BY <1>1, <2>4, <3>2 DEF Doing, Idle, IdleJob
      <4> QED BY <1>0, <1>4, <4>1 DEF StampsHeld
    <3> QED BY <3>1, <3>2
  <2> QED BY <2>1, <2>2, <2>3, <2>4 DEF StampsHeld, Doing, Idle
<1>9. StampsExplained'
  <2>1. ASSUME NEW u, NEW o \in {"stamp", "revoke"}, NEW pc \in {"write", "clear"},
               Holder(u, o, pc)
        PROVE  Holder(u, o, pc)'
    BY <1>3, <1>4, <1>5, <2>1 DEF Holder
  <2>2. /\ \A u : Holder(u, "stamp", "write") => Holder(u, "stamp", "write")'
        /\ \A u : Holder(u, "revoke", "clear") => Holder(u, "revoke", "clear")'
    BY <2>1
  <2>3. cfdiUuid' = cfdiUuid /\ stamp' = stamp /\ excused' = excused
    OBVIOUS
  <2> QED BY <1>0, <2>2, <2>3 DEF StampsExplained
<1> QED BY <1>6, <1>7, <1>8, <1>9 DEF StampingInv

(* A handler ends: the others are where they were, alone or not. *)
LEMMA EndKeepsRequests ==
  ASSUME req \in [Requests -> {IdleJob} \cup StampJob \cup RevokeJob], AloneAtWork,
         NEW r \in Requests, Finish(r)
  PROVE  /\ req' \in [Requests -> {IdleJob} \cup StampJob \cup RevokeJob]
         /\ AloneAtWork'
         /\ Idle(r)' /\ req'[r] = IdleJob /\ \A q \in Requests \ {r} : req'[q] = req[q]
<1>1. /\ req' \in [Requests -> {IdleJob} \cup StampJob \cup RevokeJob]
      /\ req'[r] = IdleJob /\ \A q \in Requests \ {r} : req'[q] = req[q]
  BY DEF Finish
<1> QED BY <1>1 DEF AloneAtWork, Idle

(* A handler ends without the invoice: what it held is excused. *)
LEMMA AbortKeepsStamps ==
  ASSUME StampingInv, NEW r \in Requests, ~Idle(r), NEW us, us \subseteq Uuids \cup {None},
         Abort(r, us), req[r].uuid \in us \cup {None},
         UNCHANGED <<bill, cfdiUuid>>, breaker' \in Breaker,
         stamp' \in [Uuids -> {"none", "valid", "cancelled"}],
         \A u \in Uuids \ us : stamp'[u] = stamp[u],
         \A u \in Uuids : stamp[u] # "none" => stamp'[u] # "none",
         \A u \in Uuids : stamp[u] = "cancelled" => stamp'[u] = "cancelled"
  PROVE  StampingInv'
<1>0. StampingTypeOK /\ AloneAtWork /\ StampsHeld /\ StampsExplained BY DEF StampingInv
<1>1. /\ req' \in [Requests -> {IdleJob} \cup StampJob \cup RevokeJob] /\ AloneAtWork'
      /\ Idle(r)' /\ req'[r] = IdleJob /\ \A q \in Requests \ {r} : req'[q] = req[q]
      /\ excused' = excused \cup (us \ {None})
  BY <1>0, EndKeepsRequests DEF StampingTypeOK, Abort
<1>2. \A q \in Requests : ~Idle(q)' => q # r /\ ~Idle(q) /\ req'[q] = req[q]
  BY <1>1 DEF Idle
<1>3. \A q \in Requests : ~Idle(q)' => ~req[q].alone
  BY <1>0, <1>2 DEF AloneAtWork
<1>4. ASSUME NEW q \in Requests, NEW o \in {"stamp", "revoke"}, NEW pc, Doing(q, o, pc)'
      PROVE  ~Idle(q)' /\ Doing(q, o, pc)
  <2>1. ~Idle(q)' BY <1>4 DEF Doing, Idle, IdleJob
  <2> QED BY <1>2, <1>4, <2>1 DEF Doing
<1>5. StampingTypeOK'
  <2>1. \A q \in Requests : Doing(q, "stamp", "write")' => stamp'[req'[q].uuid] # "none"
    <3> SUFFICES ASSUME NEW q \in Requests, Doing(q, "stamp", "write")'
                 PROVE  stamp'[req'[q].uuid] # "none"
      OBVIOUS
    <3>1. Doing(q, "stamp", "write") /\ req'[q] = req[q] BY <1>2, <1>4
    <3>2. req[q].uuid \in Uuids /\ stamp[req[q].uuid] # "none"
      BY <1>0, <3>1 DEF StampsHeld, StampingTypeOK
    <3> QED BY <3>1, <3>2
  <2>2. cfdiUuid # None => stamp'[cfdiUuid] # "none" BY <1>0 DEF StampingTypeOK
  <2> QED BY <1>0, <1>1, <2>1, <2>2 DEF StampingTypeOK, Doing
<1>6. StampsHeld'
  <2>1. ASSUME NEW q \in Requests, Doing(q, "stamp", "write")'
        PROVE  req'[q].uuid \in Uuids /\ ~req'[q].alone
    BY <1>0, <1>2, <1>3, <1>4, <2>1 DEF StampsHeld
  <2>2. ASSUME NEW q \in Requests, Doing(q, "revoke", "clear")'
        PROVE  stamp'[req'[q].uuid] = "cancelled"
    <3>1. Doing(q, "revoke", "clear") /\ req'[q] = req[q] BY <1>2, <1>4, <2>2
    <3>2. req[q].uuid \in Uuids BY <1>0, <3>1 DEF StampingTypeOK, Doing, IdleJob, StampJob, RevokeJob
    <3> QED BY <1>0, <3>1, <3>2 DEF StampsHeld
  <2>3. ASSUME NEW q \in Requests, ~Idle(q)', cfdiUuid' \notin {None, req'[q].uuid}
        PROVE  cfdiUuid' \in excused'
    BY <1>0, <1>1, <1>2, <2>3 DEF StampsHeld
  <2>4. \A q \in Requests : Doing(q, "stamp", "call")' => req'[q].uuid = None
    BY <1>0, <1>2, <1>4 DEF StampsHeld
  <2> QED BY <2>1, <2>2, <2>3, <2>4 DEF StampsHeld, Doing, Idle
<1>7. StampsExplained'
  <2> SUFFICES ASSUME NEW u \in Uuids \ excused'
               PROVE  /\ stamp'[u] = "valid" => cfdiUuid' = u \/ Holder(u, "stamp", "write")'
                      /\ cfdiUuid' = u /\ stamp'[u] = "cancelled" => Holder(u, "revoke", "clear")'
    BY DEF StampsExplained
  <2>1. u \notin us /\ u \notin excused /\ stamp'[u] = stamp[u] /\ u # None
    BY <1>1, StampsOK DEF Uuids
  <2>2. \A o, pc : Holder(u, o, pc) => Holder(u, o, pc)'
    <3>1. req[r].uuid # u BY <2>1
    <3> QED BY <1>1, <3>1 DEF Holder, Doing
  <2> QED BY <1>0, <2>1, <2>2 DEF StampsExplained
<1> QED BY <1>1, <1>5, <1>6, <1>7 DEF StampingInv

(* A handler at work: its record, and the ones nothing happens to. *)
LEMMA StampJobs ==
  ASSUME StampingTypeOK, NEW r \in Requests
  PROVE  /\ req[r].op = "stamp" => req[r] \in StampJob
         /\ req[r].op = "revoke" => req[r] \in RevokeJob /\ req[r].uuid \in Uuids
         /\ ~Idle(r) => req[r].uuid \in Uuids \cup {None} /\ req[r].op \in {"stamp", "revoke"}
         /\ req[r].op \in {"stamp", "revoke"} => ~Idle(r)
BY DEF StampingTypeOK, IdleJob, StampJob, RevokeJob, Idle

(* The provider's answers. *)
LEMMA StampAnsweredPreserves ==
  ASSUME StampingInv, NEW r \in Requests, StampAnswered(r)
  PROVE  StampingInv'
<1>0. StampingTypeOK /\ AloneAtWork /\ StampsHeld /\ StampsExplained BY DEF StampingInv
<1>1. PICK u \in NextUuid :
        /\ Doing(r, "stamp", "call")
        /\ stamp' = [stamp EXCEPT ![u] = "valid"]
        /\ breaker' = Succeeded(breaker)
        /\ req' = [req EXCEPT ![r].pc = "write", ![r].uuid = u]
        /\ UNCHANGED <<bill, cfdiUuid, excused>>
  BY DEF StampAnswered
<1>2. u \in Uuids /\ stamp[u] = "none" /\ u # None BY StampsOK DEF NextUuid, Uuids
<1>3. req[r] \in StampJob /\ ~Idle(r) BY <1>0, <1>1, StampJobs DEF Doing
<1> DEFINE new == [req[r] EXCEPT !.pc = "write", !.uuid = u]
<1>4. /\ new \in StampJob /\ new.op = "stamp" /\ new.pc = "write" /\ new.uuid = u
      /\ new.alone = req[r].alone
  BY <1>2, <1>3 DEF StampJob
<1>5. /\ req' \in [Requests -> {IdleJob} \cup StampJob \cup RevokeJob]
      /\ req'[r] = new /\ \A q \in Requests \ {r} : req'[q] = req[q]
  <2>1. req' = [req EXCEPT ![r] = new] BY <1>1
  <2> HIDE DEF new
  <2> QED BY <1>0, <1>4, <2>1 DEF StampingTypeOK
<1> HIDE DEF new
<1>6. ~Idle(r)'
  <2>1. req'[r].op = "stamp" /\ IdleJob.op = "none" BY <1>4, <1>5 DEF IdleJob
  <2> QED BY <2>1 DEF Idle
<1>7. /\ stamp' \in [Uuids -> {"none", "valid", "cancelled"}] /\ stamp'[u] = "valid"
      /\ \A v \in Uuids \ {u} : stamp'[v] = stamp[v]
      /\ breaker' \in Breaker
  BY <1>0, <1>1, <1>2, BreakerSteps DEF StampingTypeOK
<1>8. \A q \in Requests \ {r} : ~Idle(q)' => ~req'[q].alone
  BY <1>0, <1>3, <1>5 DEF AloneAtWork, Idle
<1>9. StampingTypeOK'
  <2>1. ASSUME NEW q \in Requests, Doing(q, "stamp", "write")' PROVE stamp'[req'[q].uuid] # "none"
    <3>1. CASE q = r BY <1>4, <1>5, <1>7, <3>1
    <3>2. CASE q # r
      <4>1. Doing(q, "stamp", "write") /\ req'[q] = req[q] BY <1>5, <2>1, <3>2 DEF Doing
      <4>2. req[q].uuid \in Uuids /\ stamp[req[q].uuid] # "none"
        BY <1>0, <4>1 DEF StampsHeld, StampingTypeOK
      <4> QED BY <1>2, <1>7, <4>1, <4>2
    <3> QED BY <3>1, <3>2
  <2>2. cfdiUuid # None => stamp'[cfdiUuid] # "none" BY <1>0, <1>7 DEF StampingTypeOK
  <2> QED BY <1>0, <1>1, <1>5, <1>7, <2>1, <2>2 DEF StampingTypeOK, Doing
<1>10. AloneAtWork' BY <1>0, <1>3, <1>4, <1>5 DEF AloneAtWork, Idle
<1>11. StampsHeld'
  <2>1. ASSUME NEW q \in Requests, Doing(q, "stamp", "write")'
        PROVE  /\ req'[q].uuid \in Uuids
               /\ req'[q].alone => stamp'[req'[q].uuid] = "valid"
    <3>1. CASE q = r BY <1>2, <1>4, <1>5, <1>7, <3>1
    <3>2. CASE q # r
      <4>1. Doing(q, "stamp", "write") /\ req'[q] = req[q] BY <1>5, <2>1, <3>2 DEF Doing
      <4>2. ~Idle(q)' BY <1>0, <4>1, StampJobs DEF Doing, Idle
      <4> QED BY <1>0, <1>8, <3>2, <4>1, <4>2 DEF StampsHeld
    <3> QED BY <3>1, <3>2
  <2>2. ASSUME NEW q \in Requests, Doing(q, "revoke", "clear")'
        PROVE  stamp'[req'[q].uuid] = "cancelled"
    <3>1. q # r BY <1>4, <1>5, <2>2 DEF Doing
    <3>2. Doing(q, "revoke", "clear") /\ req'[q] = req[q] BY <1>5, <2>2, <3>1 DEF Doing
    <3>3. req[q].uuid \in Uuids /\ stamp[req[q].uuid] = "cancelled"
      BY <1>0, <3>2, StampJobs DEF StampsHeld, Doing
    <3> QED BY <1>2, <1>7, <3>2, <3>3
  <2>3. ASSUME NEW q \in Requests, ~Idle(q)', cfdiUuid' \notin {None, req'[q].uuid}
        PROVE  cfdiUuid' \in excused'
    <3>1. CASE q # r BY <1>0, <1>1, <1>5, <2>3, <3>1 DEF StampsHeld, Idle
    <3>2. CASE q = r
      <4>1. req[r].uuid = None BY <1>0, <1>1 DEF StampsHeld
      <4> QED BY <1>0, <1>1, <1>3, <2>3, <4>1 DEF StampsHeld
    <3> QED BY <3>1, <3>2
  <2>4. ASSUME NEW q \in Requests, Doing(q, "stamp", "call")' PROVE req'[q].uuid = None
    <3>1. q # r BY <1>4, <1>5, <2>4 DEF Doing
    <3> QED BY <1>0, <1>5, <2>4, <3>1 DEF StampsHeld, Doing
  <2> QED BY <2>1, <2>2, <2>3, <2>4 DEF StampsHeld, Doing, Idle
<1>12. StampsExplained'
  <2> SUFFICES ASSUME NEW v \in Uuids \ excused'
               PROVE  /\ stamp'[v] = "valid" => cfdiUuid' = v \/ Holder(v, "stamp", "write")'
                      /\ cfdiUuid' = v /\ stamp'[v] = "cancelled" => Holder(v, "revoke", "clear")'
    BY DEF StampsExplained
  <2>1. CASE v = u
    <3>1. Holder(v, "stamp", "write")' BY <1>4, <1>5, <2>1 DEF Holder, Doing
    <3> QED BY <1>7, <2>1, <3>1
  <2>2. CASE v # u
    <3>1. Holder(v, "stamp", "write") => Holder(v, "stamp", "write")'
      BY <1>1, <1>5 DEF Holder, Doing
    <3>2. Holder(v, "revoke", "clear") => Holder(v, "revoke", "clear")'
      BY <1>1, <1>5 DEF Holder, Doing
    <3> QED BY <1>0, <1>1, <1>7, <2>2, <3>1, <3>2 DEF StampsExplained
  <2> QED BY <2>1, <2>2
<1> QED BY <1>9, <1>10, <1>11, <1>12 DEF StampingInv

(* A failed call, its work done or not. *)
LEMMA StampFailsPreserves ==
  ASSUME StampingInv, NEW r \in Requests, StampFails(r)
  PROVE  StampingInv'
<1>0. StampingTypeOK /\ StampsHeld BY DEF StampingInv
<1>1. /\ Doing(r, "stamp", "call") /\ breaker' = Failed(breaker)
      /\ UNCHANGED <<bill, cfdiUuid>>
  BY DEF StampFails
<1>2. ~Idle(r) /\ req[r].uuid = None /\ breaker' \in Breaker
  BY <1>0, <1>1, StampJobs, BreakerSteps DEF StampsHeld, StampingTypeOK, Doing
<1>3. CASE UNCHANGED stamp /\ Abort(r, {})
  <2> DEFINE us == {}
  <2>1. us \subseteq Uuids \cup {None} /\ Abort(r, us) /\ req[r].uuid \in us \cup {None}
    BY <1>2, <1>3
  <2>2. stamp' \in [Uuids -> {"none", "valid", "cancelled"}] /\ stamp' = stamp
    BY <1>0, <1>3 DEF StampingTypeOK
  <2> QED BY <1>1, <1>2, <2>1, <2>2, AbortKeepsStamps
<1>4. ASSUME NEW u \in NextUuid, stamp' = [stamp EXCEPT ![u] = "valid"], Abort(r, {u})
      PROVE  StampingInv'
  <2>1. u \in Uuids /\ stamp[u] = "none" BY DEF NextUuid
  <2>2. /\ stamp' \in [Uuids -> {"none", "valid", "cancelled"}]
        /\ stamp'[u] = "valid" /\ \A v \in Uuids \ {u} : stamp'[v] = stamp[v]
    BY <1>0, <1>4, <2>1 DEF StampingTypeOK
  <2> QED BY <1>1, <1>2, <1>4, <2>1, <2>2, AbortKeepsStamps
<1> QED BY <1>3, <1>4 DEF StampFails

(* A handler that dies, at work or after the provider's. *)
LEMMA StampingFailPreserves ==
  ASSUME StampingInv, NEW r \in Requests, StampingFail(r)
  PROVE  StampingInv'
<1>0. StampingTypeOK BY DEF StampingInv
<1>1. /\ ~Idle(r) /\ Abort(r, {req[r].uuid}) /\ UNCHANGED <<bill, cfdiUuid, breaker>>
      /\ req[r].uuid \in Uuids \cup {None} /\ breaker' \in Breaker
  BY <1>0, StampJobs DEF StampingFail, StampingTypeOK
<1>2. CASE UNCHANGED stamp
  <2>1. stamp' \in [Uuids -> {"none", "valid", "cancelled"}] /\ stamp' = stamp
    BY <1>0, <1>2 DEF StampingTypeOK
  <2> QED BY <1>1, <2>1, AbortKeepsStamps
<1>3. CASE Doing(r, "revoke", "call") /\ stamp' = [stamp EXCEPT ![req[r].uuid] = "cancelled"]
  <2>1. req[r].uuid \in Uuids BY <1>0, <1>3, StampJobs DEF Doing
  <2>2. /\ stamp' \in [Uuids -> {"none", "valid", "cancelled"}]
        /\ stamp'[req[r].uuid] = "cancelled"
        /\ \A v \in Uuids \ {req[r].uuid} : stamp'[v] = stamp[v]
    BY <1>0, <1>3, <2>1 DEF StampingTypeOK
  <2> QED BY <1>1, <2>1, <2>2, AbortKeepsStamps
<1> QED BY <1>2, <1>3 DEF StampingFail

(* A handler writes the invoice and ends: the stamp it carried or the one   *)
(* it got is its own, or excused.                                           *)
LEMMA WritesPreserve ==
  ASSUME StampingInv, NEW r \in Requests,
         \/ Doing(r, "stamp", "write") /\ cfdiUuid' = req[r].uuid
         \/ Doing(r, "revoke", "clear") /\ cfdiUuid' = None,
         Excuse(r), UNCHANGED <<bill, stamp, breaker>>
  PROVE  StampingInv'
<1>0. StampingTypeOK /\ AloneAtWork /\ StampsHeld /\ StampsExplained BY DEF StampingInv
<1> DEFINE w == req[r].uuid
<1>1. ~Idle(r) /\ w \in Uuids /\ stamp[w] # "none" /\ w # None
  <2>1. w \in Uuids BY <1>0, StampJobs DEF StampsHeld, Doing
  <2> QED BY <1>0, <2>1, StampJobs, StampsOK DEF Doing, StampsHeld, StampingTypeOK, Uuids
<1>2. /\ req' \in [Requests -> {IdleJob} \cup StampJob \cup RevokeJob] /\ AloneAtWork'
      /\ Idle(r)' /\ req'[r] = IdleJob /\ \A q \in Requests \ {r} : req'[q] = req[q]
      /\ excused' = IF req[r].alone THEN excused ELSE excused \cup {w}
  BY <1>0, EndKeepsRequests DEF StampingTypeOK, Excuse
<1>3. \A q \in Requests : ~Idle(q)' => /\ q # r /\ ~Idle(q) /\ req'[q] = req[q]
                                       /\ ~req[q].alone /\ w \in excused'
  BY <1>0, <1>1, <1>2 DEF AloneAtWork, Idle
<1>4. ASSUME NEW q \in Requests, NEW o \in {"stamp", "revoke"}, NEW pc, Doing(q, o, pc)'
      PROVE  ~Idle(q)' /\ Doing(q, o, pc)
  <2>1. ~Idle(q)' BY <1>4 DEF Doing, Idle, IdleJob
  <2> QED BY <1>3, <1>4, <2>1 DEF Doing
<1>5. cfdiUuid \in {None, w} \cup excused BY <1>0, <1>1 DEF StampsHeld
<1>6. StampingTypeOK'
  <2>1. ASSUME NEW q \in Requests, Doing(q, "stamp", "write")' PROVE stamp'[req'[q].uuid] # "none"
    BY <1>0, <1>3, <1>4, <2>1 DEF StampingTypeOK
  <2> QED BY <1>0, <1>1, <1>2, <2>1 DEF StampingTypeOK, Doing
<1>7. StampsHeld'
  <2>1. ASSUME NEW q \in Requests, ~Idle(q)', cfdiUuid' \notin {None, req'[q].uuid}
        PROVE  cfdiUuid' \in excused'
    BY <1>3, <2>1
  <2>2. ASSUME NEW q \in Requests
        PROVE  /\ Doing(q, "stamp", "call")' => req'[q].uuid = None
               /\ Doing(q, "stamp", "write")' => req'[q].uuid \in Uuids /\ ~req'[q].alone
               /\ Doing(q, "revoke", "clear")' => stamp'[req'[q].uuid] = "cancelled"
    BY <1>0, <1>3, <1>4 DEF StampsHeld
  <2> QED BY <2>1, <2>2 DEF StampsHeld, Doing, Idle
<1>8. StampsExplained'
  <2> SUFFICES ASSUME NEW u \in Uuids \ excused'
               PROVE  /\ stamp[u] = "valid" => cfdiUuid' = u \/ Holder(u, "stamp", "write")'
                      /\ cfdiUuid' = u /\ stamp[u] = "cancelled" => Holder(u, "revoke", "clear")'
    BY DEF StampsExplained
  <2>1. u \notin excused /\ u # None BY <1>2, StampsOK DEF Uuids
  <2>2. CASE u # w
    <3>1. /\ Holder(u, "stamp", "write") => Holder(u, "stamp", "write")'
          /\ Holder(u, "revoke", "clear") => Holder(u, "revoke", "clear")'
      BY <1>2, <2>2 DEF Holder, Doing
    <3>2. cfdiUuid # u BY <1>5, <2>1, <2>2
    <3>3. cfdiUuid' # u BY <2>1, <2>2
    <3> QED BY <1>0, <2>1, <3>1, <3>2, <3>3 DEF StampsExplained
  <2>3. CASE u = w
    <3>1. req[r].alone BY <1>2, <2>3
    <3>2. CASE Doing(r, "stamp", "write") /\ cfdiUuid' = w
      <4>1. stamp[w] = "valid" BY <1>0, <3>1, <3>2 DEF StampsHeld
      <4> QED BY <2>3, <3>2, <4>1
    <3>3. CASE Doing(r, "revoke", "clear") /\ cfdiUuid' = None
      <4>1. stamp[w] = "cancelled" BY <1>0, <3>3 DEF StampsHeld
      <4> QED BY <2>1, <2>3, <3>3, <4>1
    <3> QED BY <3>2, <3>3
  <2> QED BY <2>2, <2>3
<1> QED BY <1>2, <1>6, <1>7, <1>8 DEF StampingInv

(* The provider cancels a stamp. *)
LEMMA RevokeCallPreserves ==
  ASSUME StampingInv, NEW r \in Requests, RevokeCall(r)
  PROVE  StampingInv'
<1>0. StampingTypeOK /\ AloneAtWork /\ StampsHeld /\ StampsExplained BY DEF StampingInv
<1> DEFINE w == req[r].uuid
           new == [req[r] EXCEPT !.pc = "clear"]
<1>1. /\ Doing(r, "revoke", "call") /\ req' = [req EXCEPT ![r] = new]
      /\ stamp' = [stamp EXCEPT ![w] = "cancelled"]
      /\ UNCHANGED <<bill, cfdiUuid, breaker, excused>>
  BY DEF RevokeCall, Goto
<1>2. ~Idle(r) /\ w \in Uuids /\ req[r] \in RevokeJob BY <1>0, <1>1, StampJobs DEF Doing
<1>3. /\ new \in RevokeJob /\ new.op = "revoke" /\ new.pc = "clear" /\ new.uuid = w
      /\ new.alone = req[r].alone
  BY <1>2 DEF RevokeJob
<1> HIDE DEF new
<1>4. /\ req' \in [Requests -> {IdleJob} \cup StampJob \cup RevokeJob]
      /\ req'[r] = new /\ \A q \in Requests \ {r} : req'[q] = req[q]
  BY <1>0, <1>1, <1>3 DEF StampingTypeOK
<1>5. /\ stamp' \in [Uuids -> {"none", "valid", "cancelled"}] /\ stamp'[w] = "cancelled"
      /\ \A v \in Uuids \ {w} : stamp'[v] = stamp[v]
  BY <1>0, <1>1, <1>2 DEF StampingTypeOK
<1>6. ASSUME NEW q \in Requests, Doing(q, "stamp", "write")'
      PROVE  /\ q # r /\ Doing(q, "stamp", "write") /\ req'[q] = req[q]
             /\ req[q].uuid \in Uuids /\ ~req[q].alone
  <2>1. q # r /\ Doing(q, "stamp", "write") /\ req'[q] = req[q]
    BY <1>3, <1>4, <1>6 DEF Doing
  <2>2. ~Idle(q) /\ req[q].uuid \in Uuids BY <1>0, <2>1, StampJobs DEF StampsHeld, Doing
  <2> QED BY <1>0, <1>2, <2>1, <2>2 DEF AloneAtWork
<1>7. StampingTypeOK'
  <2>1. ASSUME NEW q \in Requests, Doing(q, "stamp", "write")' PROVE stamp'[req'[q].uuid] # "none"
    BY <1>0, <1>5, <1>6, <2>1 DEF StampingTypeOK
  <2>2. cfdiUuid # None => stamp'[cfdiUuid] # "none" BY <1>0, <1>5 DEF StampingTypeOK
  <2> QED BY <1>0, <1>1, <1>4, <1>5, <2>1, <2>2 DEF StampingTypeOK, Doing
<1>8. AloneAtWork' BY <1>0, <1>2, <1>3, <1>4 DEF AloneAtWork, Idle
<1>9. StampsHeld'
  <2>1. ASSUME NEW q \in Requests, Doing(q, "stamp", "call")' PROVE req'[q].uuid = None
    <3>1. q # r BY <1>3, <1>4, <2>1 DEF Doing
    <3> QED BY <1>0, <1>4, <2>1, <3>1 DEF StampsHeld, Doing
  <2>2. ASSUME NEW q \in Requests, Doing(q, "revoke", "clear")'
        PROVE  stamp'[req'[q].uuid] = "cancelled"
    <3>1. CASE q = r BY <1>3, <1>4, <1>5, <3>1
    <3>2. CASE q # r
      <4>1. Doing(q, "revoke", "clear") /\ req'[q] = req[q] BY <1>4, <2>2, <3>2 DEF Doing
      <4>2. req[q].uuid \in Uuids /\ stamp[req[q].uuid] = "cancelled"
        BY <1>0, <4>1, StampJobs DEF StampsHeld, Doing
      <4> QED BY <1>5, <4>1, <4>2
    <3> QED BY <3>1, <3>2
  <2>3. ASSUME NEW q \in Requests, ~Idle(q)', cfdiUuid' \notin {None, req'[q].uuid}
        PROVE  cfdiUuid' \in excused'
    <3>1. ~Idle(q) /\ req'[q].uuid = req[q].uuid BY <1>2, <1>3, <1>4, <2>3 DEF Idle
    <3> QED BY <1>0, <1>1, <2>3, <3>1 DEF StampsHeld
  <2> QED BY <1>6, <2>1, <2>2, <2>3 DEF StampsHeld, Doing, Idle
<1>10. StampsExplained'
  <2> SUFFICES ASSUME NEW u \in Uuids \ excused
               PROVE  /\ stamp'[u] = "valid" => cfdiUuid = u \/ Holder(u, "stamp", "write")'
                      /\ cfdiUuid = u /\ stamp'[u] = "cancelled" => Holder(u, "revoke", "clear")'
    BY <1>1 DEF StampsExplained
  <2>1. CASE u = w
    <3>1. Holder(u, "revoke", "clear")' BY <1>3, <1>4, <2>1 DEF Holder, Doing
    <3> QED BY <1>5, <2>1, <3>1
  <2>2. CASE u # w
    <3>1. /\ Holder(u, "stamp", "write") => Holder(u, "stamp", "write")'
          /\ Holder(u, "revoke", "clear") => Holder(u, "revoke", "clear")'
      BY <1>4, <2>2 DEF Holder, Doing
    <3> QED BY <1>0, <1>5, <2>2, <3>1 DEF StampsExplained
  <2> QED BY <2>1, <2>2
<1> QED BY <1>7, <1>8, <1>9, <1>10 DEF StampingInv

(* Every step of stamping. *)
LEMMA StampingSteps ==
  /\ StampingInit => StampingInv
  /\ StampingInv /\ [StampingNext]_<<req, stampVars>> => StampingInv'
<1>1. StampingInit => StampingInv
  <2> SUFFICES ASSUME StampingInit PROVE StampingInv
    OBVIOUS
  <2>1. NewBreaker \in Breaker BY ThresholdOK DEF NewBreaker, Breaker, CircuitState
  <2>2. StampingTypeOK BY <2>1 DEF StampingInit, StampingTypeOK, Doing, IdleJob
  <2>3. AloneAtWork /\ StampsHeld /\ StampsExplained
    BY StampsOK DEF StampingInit, AloneAtWork, StampsHeld, StampsExplained, Idle, Doing, IdleJob, Uuids
  <2> QED BY <2>2, <2>3 DEF StampingInv
<1>2. StampingInv /\ [StampingNext]_<<req, stampVars>> => StampingInv'
  <2> SUFFICES ASSUME StampingInv, [StampingNext]_<<req, stampVars>> PROVE StampingInv'
    OBVIOUS
  <2>0. StampingTypeOK BY DEF StampingInv
  <2>1. ASSUME NEW r \in Requests, StampRead(r) PROVE StampingInv'
    <3>1. /\ cfdiUuid = None /\ breaker' = Entered(breaker) /\ StartAmong(r, "stamp", None)
          /\ UNCHANGED <<bill, cfdiUuid, stamp, excused>>
      BY <2>1 DEF StampRead
    <3>2. breaker' \in Breaker BY <2>0, <3>1, BreakerSteps DEF StampingTypeOK
    <3> QED BY <3>1, <3>2, StartKeepsStamps
  <2>2. ASSUME NEW r \in Requests, RevokeRead(r) PROVE StampingInv'
    <3>1. /\ cfdiUuid # None /\ StartAmong(r, "revoke", cfdiUuid)
          /\ UNCHANGED <<bill, cfdiUuid, stamp, excused>> /\ breaker' \in Breaker
      BY <2>0, <2>2 DEF RevokeRead, stampVars, StampingTypeOK
    <3> QED BY <3>1, StartKeepsStamps
  <2>3. ASSUME NEW r \in Requests, StampWrite(r) \/ RevokeClear(r) PROVE StampingInv'
    BY <2>3, WritesPreserve DEF StampWrite, RevokeClear
  <2>4. ASSUME BillMoves \/ Rest \/ UNCHANGED <<req, stampVars>> PROVE StampingInv'
    <3>1. /\ UNCHANGED <<cfdiUuid, stamp, excused, req>>
          /\ bill' \in {"DRAFT", "DUE", "CANCELLED"} /\ breaker' \in Breaker
      BY <2>0, <2>4, BreakerSteps DEF BillMoves, Rest, stampVars, StampingTypeOK
    <3> QED BY <3>1 DEF StampingInv, StampingTypeOK, AloneAtWork, StampsHeld, StampsExplained,
                        Holder, Idle, Doing
  <2> QED
    BY <2>1, <2>2, <2>3, <2>4, StampAnsweredPreserves, StampFailsPreserves,
       RevokeCallPreserves, StampingFailPreserves DEF StampingNext
<1> QED BY <1>1, <1>2

(* The handlers keep to their invariant. *)
THEOREM StampingInductive == StampingSpec => []StampingInv
BY StampingSteps, PTL DEF StampingSpec

(* The invoice, the provider's stamps and the breaker have their types. *)
THEOREM StampingTypeCorrect == StampingSpec => []StampingTypeOK
<1>1. StampingInv => StampingTypeOK BY DEF StampingInv
<1> QED BY <1>1, StampingInductive, PTL

(* The provider and the invoice part only over a stamp whose handler        *)
(* overlapped another one or died.                                          *)
THEOREM StampsAreExplained == StampingSpec => []StampsExplained
<1>1. StampingInv => StampsExplained BY DEF StampingInv
<1> QED BY <1>1, StampingInductive, PTL

(* However calls overlap, the breaker is closed exactly while it counts     *)
(* fewer failures than its threshold.                                       *)
THEOREM BreakerStaysConsistent == StampingSpec => []BreakerConsistent
<1>1. StampingInit => BreakerConsistent
  BY ThresholdOK DEF StampingInit, BreakerConsistent, NewBreaker
<1>2. StampingTypeOK /\ BreakerConsistent /\ [StampingNext]_<<req, stampVars>> => BreakerConsistent'
  <2> SUFFICES ASSUME StampingTypeOK, BreakerConsistent, [StampingNext]_<<req, stampVars>>
               PROVE  BreakerConsistent'
    OBVIOUS
  <2>1. breaker \in Breaker /\ Counted(breaker) BY DEF StampingTypeOK, BreakerConsistent, Counted
  <2>2. breaker' \in {breaker, Entered(breaker), Succeeded(breaker), Failed(breaker),
                      [breaker EXCEPT !.rested = TRUE]}
    BY DEF StampingNext, StampRead, StampAnswered, StampFails, StampWrite, RevokeRead, RevokeCall,
           RevokeClear, StampingFail, BillMoves, Rest, stampVars
  <2>3. Counted(breaker') BY <2>1, <2>2, BreakerSteps
  <2> QED BY <2>3 DEF BreakerConsistent, Counted
<1> QED BY <1>1, <1>2, StampingTypeCorrect, PTL DEF StampingSpec

-----------------------------------------------------------------------------
(* Who is about to create a lead is the only one who knows of it. *)
CreatorsApart ==
  \A r \in Requests : req[r].op = "create" /\ req[r].pc = "insert" =>
    lead[req[r].lead] = None /\ req[r].email # None /\ Busy(req[r].lead) \subseteq {r}

(* Everybody else has found the lead, and whoever writes a contact has a    *)
(* status to write.                                                         *)
LeadKnown ==
  \A r \in Requests : ~Idle(r) =>
    /\ ~(req[r].op = "create" /\ req[r].pc = "insert") => lead[req[r].lead] # None
    /\ req[r].pc = "contact" => req[r].status # None

(* A lead that became an account while no status was pending stays          *)
(* CONVERTED: a handler that writes a status has read that one.             *)
ConvertedSettled ==
  \A m \in Emails, l \in LeadIds \ overtaken : account[m] = l =>
    /\ Exists(l) /\ lead[l].status = "CONVERTED"
    /\ \A q \in Busy(l) :
         StatusPending(q) => req[q].op = "patch" /\ req[q].status = "CONVERTED"

(* Conversions of a lead go by its address, unless that changed under them. *)
ConvertersAgree ==
  \A r \in Requests : req[r].op = "convert" /\ req[r].lead \notin moved =>
    /\ Exists(req[r].lead) => lead[req[r].lead].email = req[r].email
    /\ \A m \in Emails :
         account[m] = req[r].lead /\ req[r].lead \notin overtaken => req[r].email = m

(* What a handler that is alone has read of the score's facts is what the   *)
(* row will hold.                                                           *)
FactsHeld(r, l) ==
  ~Idle(r) /\ req[r].alone /\ req[r].lead = l /\ l \notin crowded =>
    /\ req[r].pc = "insert" => req[r].facts = {}
    /\ Exists(l) =>
         /\ req[r].pc \in {"score", "contact"} => req[r].facts = lead[l].facts
         /\ req[r].pc = "write" =>
              /\ req[r].op = "patch" => req[r].facts = lead[l].facts
              /\ req[r].op = "check" =>
                   req[r].facts = lead[l].facts \cup (req[r].facts \cap {"check"})
              /\ req[r].op = "intake" => req[r].facts = lead[l].facts \cup {"intake"}
         /\ req[r].op \in {"remove", "convert"} => lead[l].score = lead[l].facts

ScoreHeld == \A r \in Requests, l \in LeadIds : FactsHeld(r, l)

LeadsInv ==
  /\ LeadsTypeOK /\ CreatorsApart /\ LeadKnown /\ ConvertedSettled /\ ConvertersAgree
  /\ OneAccountPerLead /\ AloneAtWork /\ ScoreHeld /\ ScoreCurrent

(* The fields of a handler of leads at work. *)
LEMMA LeadJobs ==
  ASSUME LeadsTypeOK, NEW r \in Requests, ~Idle(r)
  PROVE  /\ req[r] \in LeadJob /\ req[r].lead \in LeadIds
         /\ req[r].status \in LeadStatus \cup {None} /\ req[r].email \in Emails \cup {None}
         /\ req[r].facts \in SUBSET Facts
BY DEF LeadsTypeOK, LeadJob, Idle

LEMMA NoLeadIdle ==
  \A r : Idle(r) => req[r].op = "none" /\ req[r].pc = "idle"
BY DEF Idle, IdleJob

(* A row that exists is a row. *)
LEMMA LeadRows ==
  ASSUME LeadsTypeOK, NEW l \in LeadIds
  PROVE  /\ Exists(l) => lead[l] \in LeadRow
         /\ lead[l] \in LeadRow => Exists(l)
         /\ lead[l] \in {None, Gone} \cup LeadRow
BY LeadNoneOK DEF LeadsTypeOK, Exists

(* A handler that ends having written a row, and one that goes on. *)
LeadEnds(r, l, row) ==
  /\ Finish(r)
  /\ req[r].alone \/ l \in crowded'
  /\ req[r].alone /\ l \notin crowded' /\ row \in LeadRow => row.score = row.facts

LeadGoesOn(r, l, row) ==
  /\ \E pc \in {"score", "contact"} :
       /\ Goto(r, pc)
       /\ pc = "contact" => req[r].op = "intake" /\ StatusPending(r) /\ req[r].status # None
  /\ req[r].op \notin {"remove", "convert"} /\ row \in LeadRow
  /\ req[r].alone /\ l \notin crowded' => req[r].facts = row.facts

(* A handler writes the lead it works on, and goes on or ends. *)
LEMMA WriteKeepsLeads ==
  ASSUME LeadsInv, NEW r \in Requests, ~Idle(r), NEW l, l = req[r].lead,
         NEW row, row \in LeadRow \cup {Gone, lead[l]},
         lead' = [lead EXCEPT ![l] = row],
         UNCHANGED <<account, overtaken>>,
         crowded' \in {crowded, crowded \cup {l}},
         moved' \in {moved, moved \cup {l}},
         LeadEnds(r, l, row) \/ LeadGoesOn(r, l, row),
         Exists(l) /\ lead[l].status = "CONVERTED"
           /\ (StatusPending(r) => req[r].op = "patch" /\ req[r].status = "CONVERTED")
         => row \in LeadRow /\ row.status = "CONVERTED",
         Exists(l) \/ (\A q \in Busy(l) : q = r) \/ row = lead[l],
         row \in LeadRow /\ Exists(l) /\ row.email # lead[l].email
           /\ (\E q \in Busy(l) : req[q].op = "convert")
         => l \in moved'
  PROVE  LeadsInv'
<1>0. /\ LeadsTypeOK /\ CreatorsApart /\ LeadKnown /\ ConvertedSettled /\ ConvertersAgree
      /\ OneAccountPerLead /\ AloneAtWork /\ ScoreHeld /\ ScoreCurrent
  BY DEF LeadsInv
<1>1. l \in LeadIds /\ req[r] \in LeadJob /\ r \in Busy(l) BY <1>0, LeadJobs DEF Busy
<1>2. /\ lead' \in [LeadIds -> LeadRow \cup {None, Gone}] /\ lead'[l] = row
      /\ \A k \in LeadIds \ {l} : lead'[k] = lead[k]
  BY <1>0, <1>1 DEF LeadsTypeOK
<1>3. /\ req' \in [Requests -> {IdleJob} \cup LeadJob]
      /\ \A q \in Requests \ {r} : req'[q] = req[q]
      /\ \/ /\ req'[r] = IdleJob /\ (req[r].alone \/ l \in crowded')
            /\ req[r].alone /\ l \notin crowded' /\ row \in LeadRow => row.score = row.facts
         \/ /\ req'[r].pc \in {"score", "contact"} /\ req'[r].op = req[r].op
            /\ req'[r].lead = l /\ req'[r].status = req[r].status /\ req'[r].email = req[r].email
            /\ req'[r].facts = req[r].facts /\ req'[r].alone = req[r].alone
            /\ req'[r].pc = "contact" => req[r].op = "intake" /\ StatusPending(r) /\ req[r].status # None
            /\ req[r].op \notin {"remove", "convert"} /\ row \in LeadRow
            /\ req[r].alone /\ l \notin crowded' => req[r].facts = row.facts
  <2>1. CASE LeadEnds(r, l, row) BY <1>0, <2>1 DEF LeadEnds, Finish, LeadsTypeOK
  <2>2. ASSUME NEW pc \in {"score", "contact"}, Goto(r, pc)
        PROVE  /\ req' \in [Requests -> {IdleJob} \cup LeadJob]
               /\ \A q \in Requests \ {r} : req'[q] = req[q]
               /\ req'[r].pc = pc /\ req'[r].op = req[r].op
               /\ req'[r].lead = l /\ req'[r].status = req[r].status /\ req'[r].email = req[r].email
               /\ req'[r].facts = req[r].facts /\ req'[r].alone = req[r].alone
    BY <1>0, <1>1, <2>2 DEF Goto, LeadsTypeOK, LeadJob
  <2>3. CASE LeadGoesOn(r, l, row) BY <2>2, <2>3 DEF LeadGoesOn
  <2> QED BY <2>1, <2>3
<1>4. \A q \in Requests : ~Idle(q)' => ~Idle(q) /\ req'[q].lead = req[q].lead
                                       /\ req'[q].op = req[q].op /\ req'[q].email = req[q].email
  BY <1>3 DEF Idle
<1>5. \A k : Busy(k)' \subseteq Busy(k) BY <1>4 DEF Busy
<1>6. LeadsTypeOK'
  <2>1. moved' \subseteq LeadIds /\ crowded' \subseteq LeadIds
    BY <1>0, <1>1 DEF LeadsTypeOK
  <2>2. \A q \in Requests : req'[q].op = "convert" => req'[q].email # None
    BY <1>0, <1>3 DEF LeadsTypeOK, IdleJob
  <2> QED BY <1>0, <1>2, <1>3, <2>1, <2>2 DEF LeadsTypeOK
<1>7. CreatorsApart'
  <2> SUFFICES ASSUME NEW q \in Requests, req'[q].op = "create", req'[q].pc = "insert",
                      NEW k, k = req'[q].lead
               PROVE  /\ lead'[k] = None /\ req'[q].email # None
                      /\ \A p \in Requests : ~Idle(p)' /\ req'[p].lead = k => p = q
    BY DEF CreatorsApart, Busy, Idle
  <2>1. q # r /\ req'[q] = req[q] BY <1>3 DEF IdleJob
  <2>2. ~Idle(q) BY <2>1, NoLeadIdle
  <2>3. lead[k] = None /\ req[q].email # None /\ \A p \in Busy(k) : p = q
    BY <1>0, <2>1 DEF CreatorsApart
  <2>4. k # l /\ k \in LeadIds BY <1>0, <1>1, <2>1, <2>2, <2>3, LeadJobs
  <2> QED BY <1>2, <1>4, <2>1, <2>3, <2>4 DEF Busy
<1>8. LeadKnown'
  <2> SUFFICES ASSUME NEW q \in Requests, ~Idle(q)'
               PROVE  /\ ~(req'[q].op = "create" /\ req'[q].pc = "insert") => lead'[req'[q].lead] # None
                      /\ req'[q].pc = "contact" => req'[q].status # None
    BY DEF LeadKnown, Idle
  <2>1. CASE q = r
    <3>1. req'[r] # IdleJob BY <2>1 DEF Idle
    <3> QED BY <1>2, <1>3, <2>1, <3>1, LeadNoneOK
  <2>2. CASE q # r
    <3>1. req'[q] = req[q] /\ ~Idle(q) /\ req[q].lead \in LeadIds
      BY <1>0, <1>3, <1>4, <2>2, LeadJobs
    <3>2. CASE req[q].lead # l BY <1>0, <1>2, <3>1, <3>2 DEF LeadKnown
    <3>3. CASE req[q].lead = l
      <4>1. q \in Busy(l) BY <3>1, <3>3 DEF Busy
      <4>2. CASE row # None BY <1>0, <1>2, <3>1, <3>3, <4>2 DEF LeadKnown
      <4>3. CASE row = None
        <5>1. row = lead[l] BY <4>3, LeadNoneOK
        <5> QED BY <1>0, <1>2, <3>1, <3>3, <5>1 DEF LeadKnown
      <4> QED BY <4>2, <4>3
    <3> QED BY <3>2, <3>3
  <2> QED BY <2>1, <2>2
<1>9. ConvertedSettled'
  <2> SUFFICES ASSUME NEW m \in Emails, NEW k \in LeadIds \ overtaken, account[m] = k
               PROVE  /\ Exists(k)' /\ lead'[k].status = "CONVERTED"
                      /\ \A q \in Busy(k)' : StatusPending(q)' =>
                           req'[q].op = "patch" /\ req'[q].status = "CONVERTED"
    BY DEF ConvertedSettled
  <2>1. /\ Exists(k) /\ lead[k].status = "CONVERTED"
        /\ \A q \in Busy(k) : StatusPending(q) => req[q].op = "patch" /\ req[q].status = "CONVERTED"
    BY <1>0 DEF ConvertedSettled
  <2>2. Exists(k)' /\ lead'[k].status = "CONVERTED"
    <3>1. CASE k # l BY <1>2, <2>1, <3>1 DEF Exists
    <3>2. CASE k = l
      <4>1. row \in LeadRow /\ row.status = "CONVERTED" BY <1>1, <2>1, <3>2
      <4> QED BY <1>2, <3>2, <4>1, LeadNoneOK DEF Exists
    <3> QED BY <3>1, <3>2
  <2>3. ASSUME NEW q \in Busy(k)', StatusPending(q)'
        PROVE  req'[q].op = "patch" /\ req'[q].status = "CONVERTED"
    <3>1. q \in Busy(k) /\ q \in Requests /\ ~Idle(q)' BY <1>5, <2>3 DEF Busy
    <3>2. CASE q # r
      <4>1. req'[q] = req[q] /\ StatusPending(q) BY <1>3, <2>3, <3>1, <3>2 DEF StatusPending
      <4> QED BY <2>1, <3>1, <4>1
    <3>3. CASE q = r
      <4>1. req'[r] # IdleJob BY <3>1, <3>3 DEF Idle
      <4>2. req'[r].pc = "contact" BY <1>3, <2>3, <3>3, <4>1 DEF StatusPending
      <4>3. req[r].op = "intake" /\ StatusPending(r) BY <1>3, <4>1, <4>2
      <4> QED BY <2>1, <3>1, <3>3, <4>3
    <3> QED BY <3>2, <3>3
  <2> QED BY <2>2, <2>3
<1>10. ConvertersAgree'
  <2> SUFFICES ASSUME NEW q \in Requests, req'[q].op = "convert", NEW k, k = req'[q].lead,
                      k \notin moved'
               PROVE  /\ Exists(k)' => lead'[k].email = req'[q].email
                      /\ \A m \in Emails : account[m] = k /\ k \notin overtaken => req'[q].email = m
    BY DEF ConvertersAgree, Exists
  <2>1. q # r /\ req'[q] = req[q] BY <1>3 DEF IdleJob
  <2>2. ~Idle(q) /\ k \in LeadIds /\ k \notin moved
    BY <1>0, <2>1, NoLeadIdle, LeadJobs
  <2>3. /\ Exists(k) => lead[k].email = req[q].email
        /\ \A m \in Emails : account[m] = k /\ k \notin overtaken => req[q].email = m
    BY <1>0, <2>1, <2>2 DEF ConvertersAgree
  <2>4. CASE k # l BY <1>2, <2>1, <2>2, <2>3, <2>4 DEF Exists
  <2>5. CASE k = l
    <3>1. q \in Busy(l) /\ (Exists(l)' => row \in LeadRow \cup {lead[l]})
      BY <1>2, <2>1, <2>2, <2>5 DEF Busy, Exists
    <3>2. Exists(l)' => Exists(l) /\ row.email = lead[l].email
      <4>1. CASE row = lead[l] BY <1>2, <4>1 DEF Exists
      <4>2. CASE row # lead[l]
        <5>1. Exists(l) BY <2>1, <3>1, <4>2
        <5> QED BY <2>1, <2>5, <3>1, <4>2, <5>1
      <4> QED BY <4>1, <4>2
    <3> QED BY <1>2, <2>1, <2>3, <2>5, <3>2
  <2> QED BY <2>4, <2>5
<1>11. OneAccountPerLead' BY <1>0 DEF OneAccountPerLead
<1>12. AloneAtWork' BY <1>0, <1>3, <1>4 DEF AloneAtWork, Idle
<1>13. ScoreHeld'
  <2> SUFFICES ASSUME NEW q \in Requests, NEW k \in LeadIds PROVE FactsHeld(q, k)'
    BY DEF ScoreHeld
  <2>1. CASE ~(~Idle(q)' /\ req'[q].alone /\ req'[q].lead = k /\ k \notin crowded')
    BY <2>1 DEF FactsHeld
  <2>2. CASE ~Idle(q)' /\ req'[q].alone /\ req'[q].lead = k /\ k \notin crowded'
    <3>1. q = r BY <1>0, <1>3, <1>4, <2>2 DEF AloneAtWork
    <3>2. req'[r] # IdleJob BY <2>2, <3>1 DEF Idle
    <3>3. /\ req'[q].pc \in {"score", "contact"} /\ req'[q].op \notin {"remove", "convert"}
          /\ req'[q].facts = lead'[k].facts
      BY <1>2, <1>3, <2>2, <3>1, <3>2
    <3> QED BY <3>3 DEF FactsHeld
  <2> QED BY <2>1, <2>2
<1>14. ScoreCurrent'
  <2> SUFFICES ASSUME NEW k \in LeadIds, Exists(k)', k \notin crowded', Busy(k)' = {}
               PROVE  lead'[k].score = lead'[k].facts
    BY DEF ScoreCurrent
  <2>1. CASE k # l
    <3>1. Busy(k) = {} BY <1>1, <1>3, <2>1 DEF Busy, Idle
    <3>2. Exists(k) /\ k \notin crowded BY <1>2, <2>1 DEF Exists
    <3> QED BY <1>0, <1>2, <2>1, <3>1, <3>2 DEF ScoreCurrent
  <2>2. CASE k = l
    <3>1. Idle(r)' BY <1>3, <2>2 DEF Busy, Idle
    <3>2. req'[r].pc = "idle" BY <3>1 DEF Idle, IdleJob
    <3>3. row \in LeadRow BY <1>2, <2>2 DEF Exists
    <3> QED BY <1>2, <1>3, <2>2, <3>2, <3>3
  <2> QED BY <2>1, <2>2
<1> QED
  BY <1>6, <1>7, <1>8, <1>9, <1>10, <1>11, <1>12, <1>13, <1>14 DEF LeadsInv

(* A handler starts: those in flight are at what they were, and not alone.  *)
LEMMA StartsLead ==
  ASSUME LeadsTypeOK, NEW r \in Requests, NEW op, NEW pc, NEW l \in LeadIds, NEW status,
         NEW email, NEW facts, StartLead(r, op, pc, l, status, email, facts),
         \A alone \in BOOLEAN :
           [op |-> op, pc |-> pc, lead |-> l, status |-> status, email |-> email,
            facts |-> facts, alone |-> alone] \in LeadJob
  PROVE  /\ Idle(r) /\ req' \in [Requests -> {IdleJob} \cup LeadJob]
         /\ ~Idle(r)' /\ req'[r].op = op /\ req'[r].pc = pc /\ req'[r].lead = l
         /\ req'[r].status = status /\ req'[r].email = email /\ req'[r].facts = facts
         /\ req'[r].alone <=> \A q \in Requests : Idle(q)
         /\ req'[r].alone => \A q \in Requests \ {r} : Idle(q)'
         /\ \A q \in Requests \ {r} :
              /\ Idle(q)' <=> Idle(q)
              /\ Idle(q) => req'[q] = IdleJob
              /\ ~Idle(q) =>
                   /\ req'[q].op = req[q].op /\ req'[q].pc = req[q].pc
                   /\ req'[q].lead = req[q].lead /\ req'[q].status = req[q].status
                   /\ req'[q].email = req[q].email /\ req'[q].facts = req[q].facts
                   /\ ~req'[q].alone
<1> DEFINE others == {q \in Requests : ~Idle(q)}
           new == [op |-> op, pc |-> pc, lead |-> l, status |-> status,
                   email |-> email, facts |-> facts, alone |-> others = {}]
<1>1. /\ Idle(r)
      /\ req' = [q \in Requests |-> IF q = r THEN new
                                    ELSE IF q \in others THEN [req[q] EXCEPT !.alone = FALSE]
                                    ELSE req[q]]
  BY DEF StartLead
<1>2. /\ new \in LeadJob /\ new.op = op /\ new.pc = pc /\ new.lead = l /\ new.status = status
      /\ new.email = email /\ new.facts = facts /\ (new.alone <=> others = {})
  OBVIOUS
<1>3. ASSUME NEW q \in others
      PROVE  LET job == [req[q] EXCEPT !.alone = FALSE]
             IN  /\ job \in LeadJob /\ ~job.alone
                 /\ job.op = req[q].op /\ job.pc = req[q].pc
                 /\ job.lead = req[q].lead /\ job.status = req[q].status
                 /\ job.email = req[q].email /\ job.facts = req[q].facts
  <2>1. req[q] \in LeadJob BY LeadJobs
  <2> QED BY <2>1 DEF LeadJob
<1>4. \A job \in LeadJob : job # IdleJob BY DEF LeadJob, IdleJob
<1> HIDE DEF new
<1>5. /\ req'[r] = new
      /\ \A q \in Requests \ {r} : req'[q] = IF q \in others THEN [req[q] EXCEPT !.alone = FALSE]
                                                ELSE req[q]
  BY <1>1
<1>6. req' \in [Requests -> {IdleJob} \cup LeadJob]
  <2>1. \A q \in Requests : req'[q] \in {IdleJob} \cup LeadJob
    BY <1>2, <1>3, <1>5 DEF Idle
  <2>2. req' = [q \in Requests |-> req'[q]] BY <1>1
  <2> HIDE DEF others
  <2> QED BY <2>1, <2>2
<1>7. ~Idle(r)' BY <1>2, <1>4, <1>5 DEF Idle
<1>8. ASSUME NEW q \in Requests \ {r}
      PROVE  /\ Idle(q)' <=> Idle(q)
             /\ Idle(q) => req'[q] = IdleJob
             /\ ~Idle(q) =>
                   /\ req'[q].op = req[q].op /\ req'[q].pc = req[q].pc
                   /\ req'[q].lead = req[q].lead /\ req'[q].status = req[q].status
                   /\ req'[q].email = req[q].email /\ req'[q].facts = req[q].facts
                   /\ ~req'[q].alone
  BY <1>3, <1>4, <1>5 DEF Idle
<1>9. req'[r].alone <=> \A q \in Requests : Idle(q) BY <1>2, <1>5
<1> QED BY <1>1, <1>2, <1>5, <1>6, <1>7, <1>8, <1>9

(* What a new handler has read, checked and noted. *)
LEMMA StartKeepsLeads ==
  ASSUME LeadsInv, NEW r \in Requests, NEW op, NEW pc, NEW l \in LeadIds, NEW status,
         NEW email, NEW facts, StartLead(r, op, pc, l, status, email, facts), UNCHANGED leadVars,
         \A alone \in BOOLEAN :
           [op |-> op, pc |-> pc, lead |-> l, status |-> status, email |-> email,
            facts |-> facts, alone |-> alone] \in LeadJob,
         \/ /\ op = "create" /\ pc = "insert" /\ lead[l] = None /\ email # None /\ facts = {}
            /\ \A q \in Busy(l) : req[q].op # "create"
         \/ op \in {"patch", "remove", "convert", "check", "intake"} /\ pc = "write" /\ Exists(l),
         Exists(l) /\ lead[l].status = "CONVERTED" =>
           /\ op \notin {"remove", "convert"}
           /\ status # None => op = "patch" /\ status = "CONVERTED",
         op = "convert" => email # None /\ lead[l].email = email,
         op = "patch" => facts = lead[l].facts,
         op = "check" => facts = lead[l].facts \cup (facts \cap {"check"}),
         op = "intake" => facts = lead[l].facts \cup {"intake"}
  PROVE  LeadsInv'
<1>0. /\ LeadsTypeOK /\ CreatorsApart /\ LeadKnown /\ ConvertedSettled /\ ConvertersAgree
      /\ OneAccountPerLead /\ AloneAtWork /\ ScoreHeld /\ ScoreCurrent
  BY DEF LeadsInv
<1>1. /\ Idle(r) /\ req' \in [Requests -> {IdleJob} \cup LeadJob]
      /\ ~Idle(r)' /\ req'[r].op = op /\ req'[r].pc = pc /\ req'[r].lead = l
      /\ req'[r].status = status /\ req'[r].email = email /\ req'[r].facts = facts
      /\ req'[r].alone <=> \A q \in Requests : Idle(q)
      /\ req'[r].alone => \A q \in Requests \ {r} : Idle(q)'
      /\ \A q \in Requests \ {r} :
           /\ Idle(q)' <=> Idle(q)
           /\ Idle(q) => req'[q] = IdleJob
           /\ ~Idle(q) =>
                /\ req'[q].op = req[q].op /\ req'[q].pc = req[q].pc
                /\ req'[q].lead = req[q].lead /\ req'[q].status = req[q].status
                /\ req'[q].email = req[q].email /\ req'[q].facts = req[q].facts
                /\ ~req'[q].alone
  BY <1>0, StartsLead
<1>2. UNCHANGED <<lead, account, moved, overtaken, crowded>> BY DEF leadVars, leadHistory
<1>3. \A q \in Requests \ {r} : req'[q].op # "none" => ~Idle(q) BY <1>1 DEF IdleJob
<1>4. LeadsTypeOK'
  <2>1. \A q \in Requests : req'[q].op = "convert" => req'[q].email # None
    BY <1>0, <1>1, <1>3 DEF LeadsTypeOK
  <2> QED BY <1>0, <1>1, <1>2, <2>1 DEF LeadsTypeOK
<1>5. ASSUME NEW q \in Busy(l), lead[l] = None PROVE req[q].op = "create" /\ req[q].pc = "insert"
  BY <1>0, <1>5 DEF LeadKnown, Busy
<1>6. CreatorsApart'
  <2> SUFFICES ASSUME NEW q \in Requests, req'[q].op = "create", req'[q].pc = "insert",
                      NEW k, k = req'[q].lead
               PROVE  /\ lead'[k] = None /\ req'[q].email # None
                      /\ \A p \in Requests : ~Idle(p)' /\ req'[p].lead = k => p = q
    BY DEF CreatorsApart, Busy, Idle
  <2>1. CASE q = r
    <3>1. op = "create" /\ k = l BY <1>1, <2>1
    <3>2. Busy(l) = {} BY <1>5, <3>1
    <3> QED BY <1>1, <1>2, <2>1, <3>1, <3>2 DEF Busy
  <2>2. CASE q # r
    <3>1. ~Idle(q) /\ req[q].op = "create" /\ req[q].pc = "insert" /\ k = req[q].lead
      BY <1>1, <1>3, <2>2
    <3>2. lead[k] = None /\ req[q].email # None /\ \A p \in Busy(k) : p = q
      BY <1>0, <3>1 DEF CreatorsApart
    <3>3. k # l
      <4> SUFFICES ASSUME k = l PROVE FALSE
        OBVIOUS
      <4>1. q \in Busy(l) /\ lead[l] = None BY <3>1, <3>2 DEF Busy
      <4> QED BY <3>1, <4>1 DEF Exists
    <3> QED BY <1>1, <1>2, <2>2, <3>1, <3>2, <3>3 DEF Busy
  <2> QED BY <2>1, <2>2
<1>7. LeadKnown'
  <2> SUFFICES ASSUME NEW q \in Requests, ~Idle(q)'
               PROVE  /\ ~(req'[q].op = "create" /\ req'[q].pc = "insert") => lead[req'[q].lead] # None
                      /\ req'[q].pc = "contact" => req'[q].status # None
    BY <1>2 DEF LeadKnown, Idle
  <2>1. CASE q = r BY <1>1, <2>1 DEF Exists
  <2>2. CASE q # r BY <1>0, <1>1, <2>2 DEF LeadKnown
  <2> QED BY <2>1, <2>2
<1>8. ConvertedSettled'
  <2> SUFFICES ASSUME NEW m \in Emails, NEW k \in LeadIds \ overtaken, account[m] = k
               PROVE  /\ Exists(k) /\ lead[k].status = "CONVERTED"
                      /\ \A q \in Busy(k)' : StatusPending(q)' =>
                           req'[q].op = "patch" /\ req'[q].status = "CONVERTED"
    BY <1>2 DEF ConvertedSettled, Exists
  <2>1. /\ Exists(k) /\ lead[k].status = "CONVERTED"
        /\ \A q \in Busy(k) : StatusPending(q) => req[q].op = "patch" /\ req[q].status = "CONVERTED"
    BY <1>0 DEF ConvertedSettled
  <2>2. ASSUME NEW q \in Busy(k)', StatusPending(q)'
        PROVE  req'[q].op = "patch" /\ req'[q].status = "CONVERTED"
    <3>1. q \in Requests /\ ~Idle(q)' /\ req'[q].lead = k BY <2>2 DEF Busy
    <3>2. CASE q # r
      <4>1. q \in Busy(k) /\ StatusPending(q)
        BY <1>1, <2>2, <3>1, <3>2 DEF StatusPending, Busy
      <4> QED BY <1>1, <2>1, <3>1, <3>2, <4>1
    <3>3. CASE q = r BY <1>1, <2>1, <2>2, <3>1, <3>3 DEF StatusPending
    <3> QED BY <3>2, <3>3
  <2> QED BY <2>1, <2>2
<1>9. ConvertersAgree'
  <2> SUFFICES ASSUME NEW q \in Requests, req'[q].op = "convert", NEW k, k = req'[q].lead,
                      k \notin moved
               PROVE  /\ Exists(k) => lead[k].email = req'[q].email
                      /\ \A m \in Emails : account[m] = k /\ k \notin overtaken => req'[q].email = m
    BY <1>2 DEF ConvertersAgree, Exists
  <2>1. CASE q = r
    <3>1. op = "convert" /\ k = l /\ Exists(l) /\ lead[l].status # "CONVERTED" BY <1>1, <2>1
    <3> QED BY <1>0, <1>1, <2>1, <3>1 DEF ConvertedSettled
  <2>2. CASE q # r BY <1>0, <1>1, <1>3, <2>2 DEF ConvertersAgree
  <2> QED BY <2>1, <2>2
<1>10. OneAccountPerLead' BY <1>0, <1>2 DEF OneAccountPerLead
<1>11. AloneAtWork' BY <1>0, <1>1 DEF AloneAtWork
<1>12. ScoreHeld'
  <2> SUFFICES ASSUME NEW q \in Requests, NEW k \in LeadIds PROVE FactsHeld(q, k)'
    BY DEF ScoreHeld
  <2>1. CASE ~(~Idle(q)' /\ req'[q].alone /\ req'[q].lead = k /\ k \notin crowded')
    BY <2>1 DEF FactsHeld
  <2>2. CASE ~Idle(q)' /\ req'[q].alone /\ req'[q].lead = k /\ k \notin crowded'
    <3>1. q = r /\ k = l BY <1>1, <2>2
    <3>2. Busy(l) = {} BY <1>1, <2>2, <3>1 DEF Busy
    <3>3. Exists(l) => lead[l].score = lead[l].facts BY <1>0, <1>2, <2>2, <3>1, <3>2 DEF ScoreCurrent
    <3>4. CASE op = "create"
      <4>1. ~Exists(l)' /\ facts = {} BY <1>2, <3>4 DEF Exists
      <4> QED BY <1>1, <3>1, <4>1 DEF FactsHeld
    <3>5. CASE op # "create"
      <4>1. pc = "write" /\ Exists(l) BY <3>5
      <4> QED BY <1>1, <1>2, <3>1, <3>3, <4>1 DEF FactsHeld
    <3> QED BY <3>4, <3>5
  <2> QED BY <2>1, <2>2
<1>13. ScoreCurrent'
  <2> SUFFICES ASSUME NEW k \in LeadIds, Exists(k), k \notin crowded, Busy(k)' = {}
               PROVE  lead[k].score = lead[k].facts
    BY <1>2 DEF ScoreCurrent, Exists
  <2>1. Busy(k) = {} BY <1>1 DEF Busy
  <2> QED BY <1>0, <2>1 DEF ScoreCurrent
<1> QED
  BY <1>4, <1>6, <1>7, <1>8, <1>9, <1>10, <1>11, <1>12, <1>13 DEF LeadsInv

LEMMA LeadReadPreserves ==
  ASSUME LeadsInv, NEW r \in Requests, NEW l \in LeadIds, LeadRead(r, l)
  PROVE  LeadsInv'
<1>0. LeadsTypeOK BY DEF LeadsInv
<1>1. Exists(l) => /\ lead[l].status \in LeadStatus /\ lead[l].email \in Emails
                   /\ lead[l].facts \in SUBSET Facts
  BY <1>0, LeadRows DEF LeadRow
<1>2. None \notin LeadStatus /\ None \notin Emails /\ LeadTransitions["CONVERTED"] = {}
  BY LeadNoneOK DEF LeadTransitions
<1>3. ASSUME NEW m \in Emails, CreateRead(r, l, m) PROVE LeadsInv'
  <2>1. /\ lead[l] = None /\ ~Exists(l) /\ StartLead(r, "create", "insert", l, None, m, {})
        /\ \A q \in Busy(l) : req[q].op # "create"
        /\ UNCHANGED leadVars
    BY <1>3 DEF CreateRead, Exists
  <2>2. \A alone \in BOOLEAN :
          [op |-> "create", pc |-> "insert", lead |-> l, status |-> None, email |-> m,
           facts |-> {}, alone |-> alone] \in LeadJob
    BY DEF LeadJob
  <2> QED BY <1>2, <2>1, <2>2, StartKeepsLeads
<1>4. ASSUME NEW new \in LeadStatus \cup {None}, NEW m \in Emails \cup {None}, PatchRead(r, l, new, m)
      PROVE LeadsInv'
  <2>1. /\ Exists(l) /\ StartLead(r, "patch", "write", l, new, m, lead[l].facts)
        /\ new \in {None, lead[l].status} \cup LeadTransitions[lead[l].status]
        /\ UNCHANGED leadVars
    BY <1>4 DEF PatchRead
  <2>2. \A alone \in BOOLEAN :
          [op |-> "patch", pc |-> "write", lead |-> l, status |-> new, email |-> m,
           facts |-> lead[l].facts, alone |-> alone] \in LeadJob
    BY <1>1, <2>1 DEF LeadJob
  <2>3. lead[l].status = "CONVERTED" /\ new # None => new = "CONVERTED" BY <1>2, <2>1
  <2> QED BY <2>1, <2>2, <2>3, StartKeepsLeads
<1>5. CASE RemoveLead(r, l)
  <2>1. /\ Exists(l) /\ lead[l].status = "NEW" /\ StartLead(r, "remove", "write", l, None, None, {})
        /\ UNCHANGED leadVars
    BY <1>5 DEF RemoveLead
  <2>2. \A alone \in BOOLEAN :
          [op |-> "remove", pc |-> "write", lead |-> l, status |-> None, email |-> None,
           facts |-> {}, alone |-> alone] \in LeadJob
    BY DEF LeadJob
  <2> QED BY <2>1, <2>2, StartKeepsLeads
<1>6. CASE ConvertRead(r, l)
  <2>1. /\ Exists(l) /\ lead[l].status # "CONVERTED"
        /\ StartLead(r, "convert", "write", l, None, lead[l].email, {})
        /\ UNCHANGED leadVars
    BY <1>6 DEF ConvertRead
  <2>2. \A alone \in BOOLEAN :
          [op |-> "convert", pc |-> "write", lead |-> l, status |-> None, email |-> lead[l].email,
           facts |-> {}, alone |-> alone] \in LeadJob
    BY <1>1, <2>1 DEF LeadJob
  <2>3. lead[l].email # None BY <1>1, <1>2, <2>1
  <2> QED BY <2>1, <2>2, <2>3, StartKeepsLeads
<1>7. CASE CheckRead(r, l)
  <2>1. PICK clean \in {{}, {"check"}} :
          StartLead(r, "check", "write", l, None, None, lead[l].facts \cup clean)
    BY <1>7 DEF CheckRead
  <2>2. Exists(l) /\ UNCHANGED leadVars BY <1>7 DEF CheckRead
  <2>3. \A alone \in BOOLEAN :
          [op |-> "check", pc |-> "write", lead |-> l, status |-> None, email |-> None,
           facts |-> lead[l].facts \cup clean, alone |-> alone] \in LeadJob
    BY <1>1, <2>2 DEF LeadJob, Facts
  <2>4. lead[l].facts \cup clean
          = lead[l].facts \cup ((lead[l].facts \cup clean) \cap {"check"})
    OBVIOUS
  <2> QED BY <2>1, <2>2, <2>3, <2>4, StartKeepsLeads
<1>8. CASE IntakeRead(r, l)
  <2> DEFINE new == IF lead[l].status = "NEW" THEN "CONTACTED" ELSE None
  <2>1. /\ Exists(l)
        /\ StartLead(r, "intake", "write", l, new, None, lead[l].facts \cup {"intake"})
        /\ UNCHANGED leadVars
    BY <1>8 DEF IntakeRead
  <2>2. new \in LeadStatus \cup {None} /\ (lead[l].status = "CONVERTED" => new = None)
    BY DEF LeadStatus
  <2> HIDE DEF new
  <2>3. \A alone \in BOOLEAN :
          [op |-> "intake", pc |-> "write", lead |-> l, status |-> new, email |-> None,
           facts |-> lead[l].facts \cup {"intake"}, alone |-> alone] \in LeadJob
    BY <1>1, <2>1, <2>2 DEF LeadJob, Facts
  <2> QED BY <2>1, <2>2, <2>3, StartKeepsLeads
<1> QED
  BY <1>3, <1>4, <1>5, <1>6, <1>7, <1>8 DEF LeadRead

LEMMA ConvertPreserves ==
  ASSUME LeadsInv, NEW r \in Requests, ConvertWrite(r), NEW l, l = req[r].lead
  PROVE  LeadsInv'
<1>0. /\ LeadsTypeOK /\ CreatorsApart /\ LeadKnown /\ ConvertedSettled /\ ConvertersAgree
      /\ OneAccountPerLead /\ AloneAtWork /\ ScoreHeld /\ ScoreCurrent
  BY DEF LeadsInv
<1>1. /\ req[r].op = "convert" /\ Exists(l) /\ account[req[r].email] = None
      /\ account' = [account EXCEPT ![req[r].email] = l]
      /\ lead' = [lead EXCEPT ![l].status = "CONVERTED"]
      /\ overtaken' = IF \E q \in Busy(l) : StatusPending(q)
                     THEN overtaken \cup {l} ELSE overtaken
      /\ crowded' = IF req[r].alone THEN crowded ELSE crowded \cup {l}
      /\ Finish(r) /\ moved' = moved
  BY DEF ConvertWrite, FinishLead
<1>2. ~Idle(r) BY <1>1, NoLeadIdle
<1> DEFINE a == req[r].email
<1>3. l \in LeadIds /\ a \in Emails /\ lead[l] \in LeadRow /\ l # None
  BY <1>0, <1>1, <1>2, LeadJobs, LeadRows, LeadNoneOK DEF LeadsTypeOK
<1> HIDE DEF a
<1>4. /\ account' \in [Emails -> LeadIds \cup {None}] /\ account'[a] = l
      /\ \A m \in Emails \ {a} : account'[m] = account[m]
      /\ account[a] = None
  BY <1>0, <1>1, <1>3 DEF LeadsTypeOK, a
<1>5. /\ lead' \in [LeadIds -> LeadRow \cup {None, Gone}] /\ lead'[l] \in LeadRow
      /\ lead'[l].status = "CONVERTED" /\ lead'[l].email = lead[l].email
      /\ lead'[l].facts = lead[l].facts /\ lead'[l].score = lead[l].score
      /\ \A k \in LeadIds \ {l} : lead'[k] = lead[k]
  BY <1>0, <1>1, <1>3 DEF LeadsTypeOK, LeadRow, LeadStatus
<1>6. Exists(l)' /\ \A k \in LeadIds : Exists(k)' <=> Exists(k)
  BY <1>1, <1>5, LeadNoneOK DEF Exists
<1>7. /\ req' \in [Requests -> {IdleJob} \cup LeadJob] /\ req'[r] = IdleJob
      /\ \A q \in Requests \ {r} : req'[q] = req[q]
  BY <1>0, <1>1 DEF Finish, LeadsTypeOK
<1>8. \A q \in Requests : ~Idle(q)' => q # r /\ ~Idle(q) /\ req'[q] = req[q]
  BY <1>7 DEF Idle
<1>9. \A k : Busy(k)' \subseteq Busy(k) \ {r} BY <1>8 DEF Busy
<1>10. LeadsTypeOK'
  <2>1. overtaken' \subseteq LeadIds /\ crowded' \subseteq LeadIds BY <1>0, <1>1, <1>3 DEF LeadsTypeOK
  <2>2. \A q \in Requests : req'[q].op = "convert" => req'[q].email # None
    BY <1>0, <1>7 DEF LeadsTypeOK, IdleJob
  <2> QED BY <1>0, <1>1, <1>4, <1>5, <1>7, <2>1, <2>2 DEF LeadsTypeOK
<1>11. CreatorsApart'
  <2> SUFFICES ASSUME NEW q \in Requests, req'[q].op = "create", req'[q].pc = "insert",
                      NEW k, k = req'[q].lead
               PROVE  /\ lead'[k] = None /\ req'[q].email # None
                      /\ \A p \in Requests : ~Idle(p)' /\ req'[p].lead = k => p = q
    BY DEF CreatorsApart, Busy, Idle
  <2>1. q # r /\ req'[q] = req[q] /\ ~Idle(q) BY <1>7, NoLeadIdle DEF IdleJob
  <2>2. lead[k] = None /\ req[q].email # None /\ \A p \in Busy(k) : p = q
    BY <1>0, <2>1 DEF CreatorsApart
  <2>3. k # l /\ k \in LeadIds BY <1>0, <1>1, <2>1, <2>2, LeadJobs DEF Exists
  <2> QED BY <1>5, <1>8, <2>1, <2>2, <2>3 DEF Busy
<1>12. LeadKnown'
  <2> SUFFICES ASSUME NEW q \in Requests, ~Idle(q)', NEW k, k = req'[q].lead
               PROVE  /\ ~(req'[q].op = "create" /\ req'[q].pc = "insert") => lead'[k] # None
                      /\ req'[q].pc = "contact" => req'[q].status # None
    BY DEF LeadKnown, Idle
  <2>1. ~Idle(q) /\ req'[q] = req[q] /\ k \in LeadIds BY <1>0, <1>8, LeadJobs
  <2> QED BY <1>0, <1>5, <1>6, <2>1 DEF LeadKnown, Exists
<1>13. ConvertedSettled'
  <2> SUFFICES ASSUME NEW m \in Emails, NEW k \in LeadIds \ overtaken', account'[m] = k
               PROVE  /\ Exists(k)' /\ lead'[k].status = "CONVERTED"
                      /\ \A q \in Busy(k)' : StatusPending(q)' =>
                           req'[q].op = "patch" /\ req'[q].status = "CONVERTED"
    BY DEF ConvertedSettled
  <2>1. CASE m = a
    <3>1. k = l /\ \A q \in Busy(l) : ~StatusPending(q) BY <1>1, <1>4, <2>1
    <3>2. \A q \in Busy(l)' : ~StatusPending(q)'
      BY <1>8, <1>9, <3>1 DEF StatusPending, Busy
    <3> QED BY <1>5, <1>6, <3>1, <3>2
  <2>2. CASE m # a
    <3>1. account[m] = k /\ k \notin overtaken BY <1>1, <1>4, <2>2
    <3>2. /\ Exists(k) /\ lead[k].status = "CONVERTED"
          /\ \A q \in Busy(k) : StatusPending(q) => req[q].op = "patch" /\ req[q].status = "CONVERTED"
      BY <1>0, <3>1 DEF ConvertedSettled
    <3>3. \A q \in Busy(k)' : StatusPending(q)' => req'[q].op = "patch" /\ req'[q].status = "CONVERTED"
      BY <1>8, <1>9, <3>2 DEF StatusPending, Busy
    <3> QED BY <1>5, <1>6, <3>2, <3>3
  <2> QED BY <2>1, <2>2
<1>14. ConvertersAgree'
  <2> SUFFICES ASSUME NEW q \in Requests, req'[q].op = "convert", NEW k, k = req'[q].lead,
                      k \notin moved
               PROVE  /\ Exists(k)' => lead'[k].email = req'[q].email
                      /\ \A m \in Emails : account'[m] = k /\ k \notin overtaken' => req'[q].email = m
    BY <1>1 DEF ConvertersAgree, Exists
  <2>1. q # r /\ req'[q] = req[q] /\ k \in LeadIds BY <1>0, <1>7, NoLeadIdle, LeadJobs DEF IdleJob
  <2>2. /\ Exists(k) => lead[k].email = req[q].email
        /\ \A m \in Emails : account[m] = k /\ k \notin overtaken => req[q].email = m
    BY <1>0, <2>1 DEF ConvertersAgree
  <2>3. Exists(k)' => lead'[k].email = req'[q].email BY <1>5, <1>6, <2>1, <2>2
  <2>4. ASSUME NEW m \in Emails, account'[m] = k, k \notin overtaken' PROVE req[q].email = m
    <3>1. k \notin overtaken BY <1>1, <2>4
    <3>2. CASE m # a BY <1>4, <2>2, <2>4, <3>1, <3>2
    <3>3. CASE m = a
      <4>1. k = l BY <1>4, <2>4, <3>3
      <4>2. lead[l].email = a BY <1>0, <1>1, <4>1 DEF ConvertersAgree, a
      <4> QED BY <1>1, <2>2, <3>3, <4>1, <4>2
    <3> QED BY <3>2, <3>3
  <2> QED BY <2>1, <2>3, <2>4
<1>15. OneAccountPerLead'
  <2> SUFFICES ASSUME NEW m \in Emails, NEW n \in Emails, m # n, account'[m] = account'[n],
                      account'[m] \notin moved \cup overtaken' \cup {None}
               PROVE  FALSE
    BY <1>1 DEF OneAccountPerLead
  <2>1. \A k \in Emails \ {a} : account[k] = l /\ l \notin moved \cup overtaken => a = k
    BY <1>0, <1>1 DEF ConvertersAgree, a
  <2>2. account'[m] \notin overtaken BY <1>1
  <2>3. CASE m # a /\ n # a BY <1>0, <1>4, <2>2, <2>3 DEF OneAccountPerLead
  <2>4. CASE m = a BY <1>4, <2>1, <2>2, <2>4
  <2>5. CASE n = a BY <1>4, <2>1, <2>2, <2>5
  <2> QED BY <2>3, <2>4, <2>5
<1>16. AloneAtWork' BY <1>0, <1>7, <1>8 DEF AloneAtWork, Idle
<1>17. ScoreHeld'
  <2> SUFFICES ASSUME NEW q \in Requests, NEW k \in LeadIds PROVE FactsHeld(q, k)'
    BY DEF ScoreHeld
  <2>1. ~(~Idle(q)' /\ req'[q].alone) BY <1>0, <1>2, <1>8 DEF AloneAtWork
  <2> QED BY <2>1 DEF FactsHeld
<1>18. ScoreCurrent'
  <2> SUFFICES ASSUME NEW k \in LeadIds, Exists(k)', k \notin crowded', Busy(k)' = {}
               PROVE  lead'[k].score = lead'[k].facts
    BY DEF ScoreCurrent
  <2>1. CASE k # l
    <3>1. Busy(k) = {} BY <1>7, <2>1 DEF Busy, Idle
    <3> QED BY <1>0, <1>1, <1>5, <1>6, <2>1, <3>1 DEF ScoreCurrent
  <2>2. CASE k = l
    <3>1. req[r].alone /\ l \notin crowded BY <1>1, <2>2
    <3>2. lead[l].score = lead[l].facts BY <1>0, <1>1, <1>2, <1>3, <3>1 DEF ScoreHeld, FactsHeld
    <3> QED BY <1>5, <2>2, <3>2
  <2> QED BY <2>1, <2>2
<1> QED
  BY <1>10, <1>11, <1>12, <1>13, <1>14, <1>15, <1>16, <1>17, <1>18 DEF LeadsInv

(* The write of each operation, in terms of the row it leaves. *)
LEMMA LeadWritePreserves ==
  ASSUME LeadsInv, NEW r \in Requests, LeadWrite(r)
  PROVE  LeadsInv'
<1>0. LeadsTypeOK /\ CreatorsApart /\ ScoreHeld BY DEF LeadsInv
<1>1. ~Idle(r)
  <2>1. Idle(r) => req[r].op = "none" /\ req[r].pc = "idle" BY NoLeadIdle
  <2> QED BY <2>1 DEF LeadWrite, CreateInsert, PatchWrite, RemoveLeadWrite, ConvertWrite,
                      CheckWrite, IntakeWrite, IntakeContact, ScoreWrite, LeadFail
<1>2. PICK l : l = req[r].lead OBVIOUS
<1>3. /\ l \in LeadIds /\ req[r].status \in LeadStatus \cup {None}
      /\ req[r].email \in Emails \cup {None} /\ req[r].facts \in SUBSET Facts
      /\ r \in Busy(l)
  BY <1>0, <1>1, <1>2, LeadJobs DEF Busy
<1>4. /\ Exists(l) => lead[l] \in LeadRow
      /\ lead[l] \in LeadRow => Exists(l)
  BY <1>0, <1>3, LeadRows
<1>5. FactsHeld(r, l) BY <1>0, <1>3 DEF ScoreHeld
<1>6. Gone \notin LeadRow BY LeadNoneOK
<1>7. CASE CreateInsert(r)
  <2> DEFINE row == [status |-> "NEW", email |-> req[r].email, facts |-> {}, score |-> {}]
  <2>1. /\ req[r].op = "create" /\ req[r].pc = "insert" /\ lead' = [lead EXCEPT ![l] = row]
        /\ Goto(r, "score") /\ UNCHANGED <<account, moved, overtaken, crowded>>
    BY <1>2, <1>7 DEF CreateInsert, leadHistory
  <2>2. /\ lead[l] = None /\ ~Exists(l) /\ req[r].email # None /\ \A q \in Busy(l) : q = r
    BY <1>0, <1>2, <2>1 DEF CreatorsApart, Exists
  <2>3. row \in LeadRow /\ row.facts = {} BY <1>3, <2>2 DEF LeadRow, LeadStatus
  <2> HIDE DEF row
  <2>4. req[r].alone /\ l \notin crowded => req[r].facts = row.facts
    BY <1>1, <1>2, <1>5, <2>1, <2>3 DEF FactsHeld
  <2>5. LeadGoesOn(r, l, row) BY <2>1, <2>3, <2>4 DEF LeadGoesOn
  <2> QED BY <1>1, <1>2, <2>1, <2>2, <2>3, <2>5, WriteKeepsLeads
<1>8. CASE PatchWrite(r)
  <2> DEFINE s == IF req[r].status = None THEN lead[l].status ELSE req[r].status
             m == IF req[r].email = None THEN lead[l].email ELSE req[r].email
             row == [lead[l] EXCEPT !.status = s, !.email = m]
  <2>1. /\ req[r].op = "patch" /\ req[r].pc = "write" /\ Exists(l)
        /\ Goto(r, "score") /\ UNCHANGED <<account, overtaken, crowded>>
        /\ lead' = [lead EXCEPT ![l].status = s, ![l].email = m]
        /\ moved' = IF /\ lead'[l].email # lead[l].email
                       /\ \E q \in Busy(l) : req[q].op = "convert"
                    THEN moved \cup {l} ELSE moved
    BY <1>2, <1>8 DEF PatchWrite
  <2>2. lead' = [lead EXCEPT ![l] = row] BY <1>0, <1>3, <2>1 DEF LeadsTypeOK
  <2>3. s \in LeadStatus /\ m \in Emails BY <1>3, <1>4, <2>1 DEF LeadRow
  <2>4. lead[l].status = "CONVERTED"
          /\ (StatusPending(r) => req[r].op = "patch" /\ req[r].status = "CONVERTED")
        => s = "CONVERTED"
    BY <2>1 DEF StatusPending
  <2> HIDE DEF s, m
  <2>5. /\ row \in LeadRow /\ row.status = s /\ row.email = m
        /\ row.facts = lead[l].facts
    BY <1>4, <2>1, <2>3 DEF LeadRow
  <2> HIDE DEF row
  <2>6. lead'[l] = row BY <1>0, <1>3, <2>2 DEF LeadsTypeOK
  <2>7. req[r].alone /\ l \notin crowded => req[r].facts = row.facts
    BY <1>1, <1>2, <1>5, <2>1, <2>5 DEF FactsHeld
  <2>8. LeadGoesOn(r, l, row) BY <2>1, <2>5, <2>7 DEF LeadGoesOn
  <2>9. moved' \in {moved, moved \cup {l}}
        /\ (row.email # lead[l].email /\ (\E q \in Busy(l) : req[q].op = "convert") => l \in moved')
    BY <2>1, <2>6
  <2>10. UNCHANGED <<account, overtaken>> /\ crowded' = crowded /\ Exists(l) BY <2>1
  <2> QED BY <1>1, <1>2, <2>2, <2>4, <2>5, <2>8, <2>9, <2>10, WriteKeepsLeads
<1>9. CASE RemoveLeadWrite(r)
  <2>1. /\ req[r].op = "remove" /\ lead' = [lead EXCEPT ![l] = Gone] /\ Finish(r)
        /\ crowded' = IF req[r].alone THEN crowded ELSE crowded \cup {l}
        /\ UNCHANGED <<account, moved, overtaken>>
    BY <1>2, <1>9 DEF RemoveLeadWrite, FinishLead
  <2>2. LeadEnds(r, l, Gone) BY <1>6, <2>1 DEF LeadEnds
  <2>3. Exists(l) \/ Gone = lead[l]
    <3>1. lead[l] # None BY <1>1, <1>2, <2>1 DEF LeadsInv, LeadKnown
    <3> QED BY <3>1 DEF Exists
  <2>4. StatusPending(r) BY <2>1 DEF StatusPending
  <2> QED BY <1>1, <1>2, <1>6, <2>1, <2>2, <2>3, <2>4, WriteKeepsLeads
<1>10. CASE ConvertWrite(r) BY <1>2, <1>10, ConvertPreserves
<1>11. CASE CheckWrite(r)
  <2> DEFINE row == [lead[l] EXCEPT !.facts = @ \cup (req[r].facts \cap {"check"})]
  <2>1. /\ req[r].op = "check" /\ req[r].pc = "write" /\ Exists(l)
        /\ lead' = [lead EXCEPT ![l] = row]
        /\ Goto(r, "score") /\ UNCHANGED <<account, moved, overtaken, crowded>>
    BY <1>2, <1>11 DEF CheckWrite, leadHistory
  <2>2. /\ row \in LeadRow /\ row.status = lead[l].status /\ row.email = lead[l].email
        /\ row.facts = lead[l].facts \cup (req[r].facts \cap {"check"})
    BY <1>3, <1>4, <2>1 DEF LeadRow, Facts
  <2> HIDE DEF row
  <2>3. req[r].alone /\ l \notin crowded => req[r].facts = row.facts
    BY <1>1, <1>2, <1>5, <2>1, <2>2 DEF FactsHeld
  <2>4. LeadGoesOn(r, l, row) BY <2>1, <2>2, <2>3 DEF LeadGoesOn
  <2> QED BY <1>1, <1>2, <2>1, <2>2, <2>4, WriteKeepsLeads
<1>12. CASE IntakeWrite(r)
  <2> DEFINE row == [lead[l] EXCEPT !.facts = @ \cup {"intake"}]
             pc == IF req[r].status = None THEN "score" ELSE "contact"
  <2>1. /\ req[r].op = "intake" /\ req[r].pc = "write" /\ Exists(l)
        /\ lead' = [lead EXCEPT ![l] = row]
        /\ Goto(r, pc) /\ UNCHANGED <<account, moved, overtaken, crowded>>
    BY <1>2, <1>12 DEF IntakeWrite, leadHistory
  <2>2. /\ row \in LeadRow /\ row.status = lead[l].status /\ row.email = lead[l].email
        /\ row.facts = lead[l].facts \cup {"intake"}
    BY <1>3, <1>4, <2>1 DEF LeadRow, Facts
  <2> HIDE DEF row
  <2>3. req[r].alone /\ l \notin crowded => req[r].facts = row.facts
    BY <1>1, <1>2, <1>5, <2>1, <2>2 DEF FactsHeld
  <2>4. pc \in {"score", "contact"} /\ (pc = "contact" => StatusPending(r) /\ req[r].status # None)
    BY <2>1 DEF StatusPending
  <2> HIDE DEF pc
  <2>5. LeadGoesOn(r, l, row) BY <2>1, <2>2, <2>3, <2>4 DEF LeadGoesOn
  <2> QED BY <1>1, <1>2, <2>1, <2>2, <2>5, WriteKeepsLeads
<1>13. CASE IntakeContact(r)
  <2> DEFINE row == [lead[l] EXCEPT !.status = req[r].status]
  <2>1. /\ req[r].op = "intake" /\ req[r].pc = "contact" /\ Exists(l)
        /\ lead' = [lead EXCEPT ![l] = row]
        /\ Goto(r, "score") /\ UNCHANGED <<account, moved, overtaken, crowded>>
    BY <1>2, <1>13 DEF IntakeContact, leadHistory
  <2>2. req[r].status # None BY <1>1, <2>1 DEF LeadsInv, LeadKnown
  <2>3. /\ row \in LeadRow /\ row.email = lead[l].email /\ row.facts = lead[l].facts
    BY <1>3, <1>4, <2>1, <2>2 DEF LeadRow
  <2>4. StatusPending(r) BY <2>1, <2>2 DEF StatusPending
  <2> HIDE DEF row
  <2>5. req[r].alone /\ l \notin crowded => req[r].facts = row.facts
    BY <1>1, <1>2, <1>5, <2>1, <2>3 DEF FactsHeld
  <2>6. LeadGoesOn(r, l, row) BY <2>1, <2>3, <2>5 DEF LeadGoesOn
  <2> QED BY <1>1, <1>2, <2>1, <2>3, <2>4, <2>6, WriteKeepsLeads
<1>14. CASE ScoreWrite(r)
  <2> DEFINE row == [lead[l] EXCEPT !.score = req[r].facts]
  <2>1. /\ req[r].pc = "score" /\ Exists(l) /\ lead' = [lead EXCEPT ![l] = row] /\ Finish(r)
        /\ crowded' = IF req[r].alone THEN crowded ELSE crowded \cup {l}
        /\ UNCHANGED <<account, moved, overtaken>>
    BY <1>2, <1>14 DEF ScoreWrite, FinishLead
  <2>2. /\ row \in LeadRow /\ row.email = lead[l].email /\ row.facts = lead[l].facts
        /\ row.status = lead[l].status /\ row.score = req[r].facts
    BY <1>3, <1>4, <2>1 DEF LeadRow
  <2> HIDE DEF row
  <2>3. req[r].alone /\ l \notin crowded => row.score = row.facts
    BY <1>1, <1>2, <1>5, <2>1, <2>2 DEF FactsHeld
  <2>4. LeadEnds(r, l, row) BY <2>1, <2>3 DEF LeadEnds
  <2> QED BY <1>1, <1>2, <2>1, <2>2, <2>4, WriteKeepsLeads
<1>15. CASE LeadFail(r)
  <2> DEFINE row == lead[l]
  <2>1. /\ lead' = [lead EXCEPT ![l] = row] /\ Finish(r) /\ crowded' = crowded \cup {l}
        /\ UNCHANGED <<account, moved, overtaken>>
    BY <1>0, <1>2, <1>3, <1>15 DEF LeadFail, LeadsTypeOK
  <2>2. LeadEnds(r, l, row) BY <2>1 DEF LeadEnds
  <2>3. row = lead[l] OBVIOUS
  <2> HIDE DEF row
  <2> QED BY <1>1, <1>2, <1>4, <2>1, <2>2, <2>3, WriteKeepsLeads
<1> QED
  BY <1>7, <1>8, <1>9, <1>10, <1>11, <1>12, <1>13, <1>14, <1>15 DEF LeadWrite

(* Every step of the leads' services. *)
LEMMA LeadsSteps ==
  /\ LeadsInit => LeadsInv
  /\ LeadsInv /\ [LeadsNext]_<<req, leadVars>> => LeadsInv'
<1>1. LeadsInit => LeadsInv
  <2> SUFFICES ASSUME LeadsInit PROVE LeadsInv
    OBVIOUS
  <2>1. LeadsTypeOK BY DEF LeadsInit, LeadsTypeOK, IdleJob
  <2>2. /\ CreatorsApart /\ LeadKnown /\ ConvertersAgree /\ AloneAtWork
    BY DEF LeadsInit, CreatorsApart, LeadKnown, ConvertersAgree, AloneAtWork, Idle, IdleJob
  <2>3. ConvertedSettled /\ OneAccountPerLead
    BY LeadNoneOK DEF LeadsInit, ConvertedSettled, OneAccountPerLead
  <2>4. ScoreHeld BY DEF LeadsInit, ScoreHeld, FactsHeld, Idle
  <2>5. ScoreCurrent BY DEF LeadsInit, ScoreCurrent, Exists
  <2> QED BY <2>1, <2>2, <2>3, <2>4, <2>5 DEF LeadsInv
<1>2. LeadsInv /\ [LeadsNext]_<<req, leadVars>> => LeadsInv'
  <2> SUFFICES ASSUME LeadsInv, [LeadsNext]_<<req, leadVars>> PROVE LeadsInv'
    OBVIOUS
  <2>1. CASE UNCHANGED <<req, leadVars>>
    BY <2>1 DEF LeadsInv, LeadsTypeOK, CreatorsApart, LeadKnown, ConvertersAgree, AloneAtWork,
                ConvertedSettled, OneAccountPerLead, ScoreHeld, FactsHeld, ScoreCurrent,
                Idle, Busy, Exists, StatusPending, leadVars, leadHistory
  <2> QED BY <2>1, LeadWritePreserves, LeadReadPreserves DEF LeadsNext
<1> QED BY <1>1, <1>2

(* The handlers keep to their invariant. *)
THEOREM LeadsInductive == LeadsSpec => []LeadsInv
BY LeadsSteps, PTL DEF LeadsSpec

(* Leads, accounts and handlers have their types. *)
THEOREM LeadsTypeCorrect == LeadsSpec => []LeadsTypeOK
<1>1. LeadsInv => LeadsTypeOK BY DEF LeadsInv
<1> QED BY <1>1, LeadsInductive, PTL

(* Conversions leave accounts and leads in agreement, up to the handlers    *)
(* that had read a lead before its conversion.                              *)
THEOREM AccountsAreExplained == LeadsSpec => []AccountsExplained
<1>1. LeadsInv => AccountsExplained
  BY DEF LeadsInv, ConvertedSettled, AccountsExplained, AccountsComeFromConverted
<1> QED BY <1>1, LeadsInductive, PTL

(* A score counts its facts exactly, unless its handlers overlapped or died. *)
THEOREM ScoresAreCurrent == LeadsSpec => []ScoreCurrent
<1>1. LeadsInv => ScoreCurrent BY DEF LeadsInv
<1> QED BY <1>1, LeadsInductive, PTL

-----------------------------------------------------------------------------
(* The one upload comes before everything else. *)
UploadFirst ==
  /\ \A r \in Requests : Doing(r, "upload", "row") =>
       /\ doc.version = 0 /\ req[r].file \in 1..stored
       /\ \A q \in Requests \ {r} : req[q].op # "upload"
  /\ doc.version = 0 => /\ \A r \in Requests : req[r].op \in {"none", "upload"}
                        /\ \A s \in Signers : signature[s] = None

(* A version in the making has a number no higher than the next one and a   *)
(* file of its own; once its row is there, it has the next number.          *)
MakingOf(r) ==
  /\ req[r].op \in {"version", "signed"} =>
       req[r].number \in Later /\ req[r].number <= doc.version + 1
  /\ req[r].op = "signed" => req[r].status # None
  /\ Versioning(r) =>
       /\ req[r].alone => /\ req[r].number = doc.version + 1
                          /\ \A q \in Requests \ {r} : ~Versioning(q)
       /\ req[r].pc = "insert" => \A v \in Later : version[v] # req[r].file
       /\ req[r].pc = "update" => /\ req[r].number = doc.version + 1
                                  /\ version[req[r].number] = req[r].file
                                  /\ req[r].op = "signed" => copies # {}

FilesApart ==
  \A r, q \in Requests :
    Versioning(r) /\ Versioning(q) /\ req[r].pc \in {"insert", "update"}
      /\ req[q].pc \in {"insert", "update"} /\ req[r].file = req[q].file => r = q

(* The versions' rows, one by one. *)
RowsInOrder ==
  /\ \A v \in Later :
       /\ v <= doc.version => version[v] # None
       /\ v > doc.version + 1 => version[v] = None
       /\ v = doc.version + 1 /\ version[v] # None =>
            \/ \E r \in Requests : Versioning(r) /\ req[r].pc = "update"
            \/ "update" \in dropped
  /\ \A u, v \in Later : u # v /\ version[u] = version[v] => version[v] = None
  /\ doc.version \in Later => doc.file = version[doc.version]
  /\ TRUE \in refused => "update" \in dropped

(* A signed copy is made, refused, dropped, or on its way past the status.  *)
CopyComing ==
  (\E s \in Signers : signature[s] = "SIGNED") =>
    \/ copies # {} \/ refused # {} \/ dropped # {}
    \/ \E r \in Requests : req[r].op = "signed" /\ Versioning(r) /\ req[r].pc \in {"put", "insert"}

(* Whoever cancels past the signing is late, or cancels a row that missed it. *)
CancelsLate ==
  word = "SIGNED" =>
    \A r \in Requests : req[r].op = "cancel" => req[r].late \/ req[r].signer \in missed

DocumentsInv ==
  /\ DocumentsTypeOK /\ UploadFirst /\ (\A r \in Requests : MakingOf(r)) /\ FilesApart
  /\ RowsInOrder /\ CopyComing /\ CancelsLate /\ SignedUnlessMissed

DocumentJob ==
  {IdleJob} \cup VersionJob \cup UploadJob \cup LinkJob \cup AskJob \cup CancelJob

(* A handler's record, by the name of its method. *)
LEMMA DocumentJobs ==
  ASSUME NEW job \in DocumentJob
  PROVE  /\ job.op \in {"version", "signed"} => job \in VersionJob
         /\ job.op = "upload" => job \in UploadJob
         /\ job.op \in {"link", "unlink", "remove"} => job \in LinkJob
         /\ job.op = "request" => job \in AskJob
         /\ job.op = "cancel" => job \in CancelJob
         /\ job.op = "none" <=> job = IdleJob
         /\ job.pc \in {"insert", "update"} => job \in VersionJob
BY DEF DocumentJob, IdleJob, VersionJob, UploadJob, LinkJob, AskJob, CancelJob

(* What a step leaves of a handler that makes a version.                    *)
GoesOn(q) ==
  /\ req'[q].op = req[q].op /\ req'[q].number = req[q].number
  /\ req'[q].status = req[q].status /\ req'[q].alone = req[q].alone
  /\ req'[q].pc \in {"insert", "update"} =>
       req'[q].pc = req[q].pc /\ req'[q].file = req[q].file

(* A step beside the versions: no handler inserts one or moves the document.*)
LEMMA AsideKeepsVersions ==
  ASSUME \A q \in Requests : MakingOf(q), FilesApart, RowsInOrder,
         doc'.version = doc.version, doc'.file = doc.file, UNCHANGED <<version, refused>>,
         copies \subseteq copies', dropped \subseteq dropped',
         \A q \in Requests : req'[q].op \in {"version", "signed"} => GoesOn(q),
         \A q \in Requests : Versioning(q) /\ req[q].pc = "update" =>
            req'[q] = req[q] \/ "update" \in dropped'
  PROVE  (\A q \in Requests : MakingOf(q)') /\ FilesApart' /\ RowsInOrder'
<1>1. \A q \in Requests : Versioning(q)' => Versioning(q) /\ GoesOn(q)
  BY DEF Versioning, Makes, GoesOn
<1>2. ASSUME NEW q \in Requests PROVE MakingOf(q)'
  <2>1. req'[q].op \in {"version", "signed"} => GoesOn(q) /\ MakingOf(q)
    OBVIOUS
  <2>2. req'[q].op \in {"version", "signed"} =>
          /\ req'[q].number \in Later /\ req'[q].number <= doc'.version + 1
          /\ req'[q].op = "signed" => req'[q].status # None
    BY <2>1 DEF GoesOn, MakingOf
  <2>3. ASSUME Versioning(q)'
        PROVE  /\ req'[q].alone => /\ req'[q].number = doc'.version + 1
                                   /\ \A p \in Requests \ {q} : ~Versioning(p)'
               /\ req'[q].pc = "insert" => \A v \in Later : version'[v] # req'[q].file
               /\ req'[q].pc = "update" => /\ req'[q].number = doc'.version + 1
                                           /\ version'[req'[q].number] = req'[q].file
                                           /\ req'[q].op = "signed" => copies' # {}
    <3>1. Versioning(q) /\ GoesOn(q) /\ MakingOf(q) BY <1>1, <2>3
    <3> QED BY <1>1, <3>1 DEF GoesOn, MakingOf
  <2> QED BY <2>2, <2>3 DEF MakingOf, Versioning
<1>3. FilesApart' BY <1>1 DEF FilesApart, GoesOn
<1>4. RowsInOrder'
  <2>1. (\E r \in Requests : Versioning(r) /\ req[r].pc = "update") =>
          \/ \E r \in Requests : Versioning(r)' /\ req'[r].pc = "update"
          \/ "update" \in dropped'
    BY DEF Versioning
  <2> QED BY <2>1 DEF RowsInOrder
<1> QED BY <1>2, <1>3, <1>4

(* The upload is still the only thing there is, or nothing of it changed. *)
LEMMA UploadStaysFirst ==
  ASSUME UploadFirst, doc'.version = doc.version, UNCHANGED stored,
         \A q \in Requests : req'[q].op = "upload" => req'[q] = req[q],
         \/ doc.version > 0
         \/ /\ signature' = signature
            /\ \A q \in Requests : req'[q].op \in {"none", "upload"},
         doc.version \in Nat
  PROVE  UploadFirst'
<1>1. ASSUME NEW r \in Requests, Doing(r, "upload", "row")'
      PROVE  /\ doc'.version = 0 /\ req'[r].file \in 1..stored'
             /\ \A q \in Requests \ {r} : req'[q].op # "upload"
  <2>1. Doing(r, "upload", "row") /\ req'[r] = req[r] BY <1>1 DEF Doing
  <2> QED BY <2>1 DEF UploadFirst
<1>2. doc'.version = 0 => /\ \A r \in Requests : req'[r].op \in {"none", "upload"}
                         /\ \A s \in Signers : signature'[s] = None
  BY DEF UploadFirst
<1> QED BY <1>1, <1>2 DEF UploadFirst, Doing

(* A step of one handler beside the versions: what is about them is kept,   *)
(* no row becomes signed, and none is lost; handlers about to delete the    *)
(* link may go with it.                                                     *)
BesideVersions(r) ==
  /\ \/ doc' = doc
     \/ doc.version > 0 /\ doc' = [doc EXCEPT !.deleted = TRUE]
  /\ UNCHANGED <<stored, version, copies, refused, said, word>>
  /\ dropped \subseteq dropped' /\ dropped' \subseteq {"copy", "update"}
  /\ Versioning(r) /\ req[r].pc = "update" => "update" \in dropped'
  /\ req[r].op = "signed" /\ req[r].pc \in {"put", "insert"} => dropped' # {}

RowsStay(job) ==
  /\ signature' \in [Signers -> SignatureStatus \cup {None}]
  /\ doc.version = 0 => signature' = signature
  /\ \A s \in Signers : /\ signature'[s] = "SIGNED" => signature[s] = "SIGNED"
                        /\ signature[s] # None => signature'[s] # None
  /\ missed \subseteq missed' /\ missed' \subseteq Signers
  /\ job.op = "cancel" => signature'[job.signer] # None
  /\ word = "SIGNED" =>
       /\ \A s \in Signers : signature'[s] \in {"SIGNED", None} \/ s \in missed'
       /\ job.op = "cancel" => job.late \/ job.signer \in missed'

OneHandler(r, job) ==
  /\ job \in DocumentJob /\ job.op \notin {"version", "signed", "upload"}
  /\ job.op = "none" \/ doc.version > 0
  /\ req' \in [Requests -> DocumentJob] /\ req'[r] = job
  /\ \A q \in Requests \ {r} :
       req'[q] = req[q] \/ (req[q].op = "unlink" /\ req'[q] = IdleJob)
  /\ linked' \in BOOLEAN /\ envelope' \in BOOLEAN
  /\ \A q \in Requests : Doing(q, "unlink", "write")' => linked'

LEMMA AsideKeepsDocument ==
  ASSUME DocumentsInv, NEW r \in Requests, NEW job,
         OneHandler(r, job), BesideVersions(r), RowsStay(job)
  PROVE  DocumentsInv'
<1> USE DEF OneHandler, BesideVersions, RowsStay
<1>0. /\ DocumentsTypeOK /\ UploadFirst /\ (\A q \in Requests : MakingOf(q)) /\ FilesApart
      /\ RowsInOrder /\ CopyComing /\ CancelsLate /\ SignedUnlessMissed
  BY DEF DocumentsInv
<1>1. /\ doc \in [version : 0..MaxVersion, file : Files \cup {None}, deleted : BOOLEAN]
      /\ req \in [Requests -> DocumentJob]
  BY <1>0 DEF DocumentsTypeOK, DocumentJob
<1>2. /\ doc' \in [version : 0..MaxVersion, file : Files \cup {None}, deleted : BOOLEAN]
      /\ doc'.version = doc.version /\ doc'.file = doc.file
  BY <1>1
<1>3. \A q \in Requests : req'[q].op # "none" => q = r \/ req'[q] = req[q]
  BY DEF IdleJob
<1>4. ASSUME NEW q \in Requests, req'[q].op \in {"version", "signed"}
      PROVE  q # r /\ req'[q] = req[q]
  BY <1>3, <1>4
<1>5. ASSUME NEW q \in Requests \ {r}, req[q].op # "unlink" PROVE req'[q] = req[q]
  BY <1>5
<1>6. DocumentsTypeOK'
  <2>1. ASSUME NEW q \in Requests, req'[q].pc \in {"insert", "update"}
        PROVE  req'[q].file \in 1..stored
    <3>1. req'[q].op \in {"version", "signed"} BY <2>1, DocumentJobs DEF VersionJob
    <3>2. req'[q] = req[q] BY <1>4, <3>1
    <3> QED BY <1>0, <2>1, <3>2 DEF DocumentsTypeOK
  <2>2. ASSUME NEW q \in Requests, req'[q].op = "cancel"
        PROVE  signature'[req'[q].signer] # None
    <3>1. CASE q = r BY <2>2, <3>1
    <3>2. CASE q # r
      <4>1. req'[q] = req[q] BY <1>3, <2>2, <3>2
      <4>2. req[q] \in CancelJob BY <1>1, <2>2, <4>1, DocumentJobs
      <4> QED BY <1>0, <2>2, <4>1, <4>2 DEF DocumentsTypeOK, CancelJob
    <3> QED BY <3>1, <3>2
  <2>3. /\ doc'.version > 0 => doc'.file \in 1..stored
        /\ version \in [Later -> (1..stored) \cup {None}] /\ stored \in 0..MaxFiles
        /\ said \subseteq Words /\ Cardinality(said \cap Final) <= 1
        /\ word \in SignatureStatus \cup {None} /\ copies \subseteq Later
        /\ refused \subseteq BOOLEAN
    BY <1>0, <1>2 DEF DocumentsTypeOK
  <2> QED BY <1>2, <2>1, <2>2, <2>3 DEF DocumentsTypeOK, DocumentJob, Doing
<1>7. UploadFirst'
  <2>1. \A q \in Requests : req'[q].op = "upload" => req'[q] = req[q] BY <1>3
  <2>2. doc.version \in Nat BY <1>1
  <2>3. doc.version = 0 => \A q \in Requests : req'[q].op \in {"none", "upload"}
    BY <1>0, <1>3 DEF UploadFirst
  <2>4. doc.version > 0 \/ doc.version = 0 BY <2>2
  <2> QED BY <1>0, <1>2, <2>1, <2>2, <2>3, <2>4, UploadStaysFirst
<1>8. (\A q \in Requests : MakingOf(q)') /\ FilesApart' /\ RowsInOrder'
  <2>1. \A q \in Requests : req'[q].op \in {"version", "signed"} => GoesOn(q)
    BY <1>4 DEF GoesOn
  <2>2. \A q \in Requests : Versioning(q) /\ req[q].pc = "update" =>
            req'[q] = req[q] \/ "update" \in dropped'
    BY <1>5 DEF Versioning
  <2> QED BY <1>0, <1>2, <2>1, <2>2, AsideKeepsVersions
<1>9. CopyComing'
  <2>1. ASSUME NEW q \in Requests, req[q].op = "signed", Versioning(q), req[q].pc \in {"put", "insert"}
        PROVE  \/ dropped' # {}
               \/ req'[q].op = "signed" /\ Versioning(q)' /\ req'[q].pc \in {"put", "insert"}
    BY <1>5, <2>1 DEF Versioning
  <2> QED BY <1>0, <2>1 DEF CopyComing
<1>10. CancelsLate'
  <2> SUFFICES ASSUME word' = "SIGNED", NEW q \in Requests, req'[q].op = "cancel"
               PROVE  req'[q].late \/ req'[q].signer \in missed'
    BY DEF CancelsLate
  <2>1. CASE q = r BY <2>1
  <2>2. CASE q # r BY <1>0, <1>3, <2>2 DEF CancelsLate
  <2> QED BY <2>1, <2>2
<1>11. SignedUnlessMissed' BY DEF SignedUnlessMissed
<1> QED BY <1>6, <1>7, <1>8, <1>9, <1>10, <1>11 DEF DocumentsInv

(* The rows a handler goes by, and what an operation is sure of. *)
HandlersKnow ==
  /\ req \in [Requests -> DocumentJob]
  /\ doc \in [version : 0..MaxVersion, file : Files \cup {None}, deleted : BOOLEAN]
  /\ signature \in [Signers -> SignatureStatus \cup {None}]
  /\ linked \in BOOLEAN /\ envelope \in BOOLEAN /\ missed \subseteq Signers
  /\ dropped \subseteq {"copy", "update"}
  /\ \A q \in Requests : Doing(q, "unlink", "write") => linked
  /\ \A q \in Requests : req[q].op \notin {"none", "upload"} => doc.version > 0
  /\ \A s \in Signers : signature[s] # None => doc.version > 0
  /\ word = "SIGNED" => \A s \in Signers : signature[s] \in {"SIGNED", None} \/ s \in missed

LEMMA DocumentFacts == ASSUME DocumentsInv PROVE HandlersKnow
<1>1. DocumentsTypeOK /\ UploadFirst /\ SignedUnlessMissed BY DEF DocumentsInv
<1>2. doc.version # 0 => doc.version > 0 BY <1>1 DEF DocumentsTypeOK
<1> QED
  BY <1>1, <1>2 DEF HandlersKnow, DocumentsTypeOK, DocumentJob, UploadFirst, SignedUnlessMissed

LEMMA OneHandlerMoves ==
  ASSUME HandlersKnow, NEW r \in Requests, NEW job \in DocumentJob,
         req' = [req EXCEPT ![r] = job],
         job.op \notin {"version", "signed", "upload"}, job.op = "none" \/ doc.version > 0,
         linked' = linked \/ linked' = TRUE, job.op = "unlink" => linked', envelope' \in BOOLEAN
  PROVE  OneHandler(r, job)
<1>1. /\ req' \in [Requests -> DocumentJob] /\ req'[r] = job
      /\ \A q \in Requests \ {r} : req'[q] = req[q]
  BY DEF HandlersKnow
<1>2. ASSUME NEW q \in Requests, Doing(q, "unlink", "write")' PROVE linked'
  <2>1. CASE q = r BY <1>1, <1>2, <2>1 DEF Doing
  <2>2. CASE q # r
    <3>1. Doing(q, "unlink", "write") BY <1>1, <1>2, <2>2 DEF Doing
    <3>2. linked BY <3>1 DEF HandlersKnow
    <3> QED BY <3>2
  <2> QED BY <2>1, <2>2
<1>3. linked' \in BOOLEAN BY DEF HandlersKnow
<1> QED BY <1>1, <1>2, <1>3 DEF OneHandler

LEMMA RowsUntouched ==
  ASSUME HandlersKnow, UNCHANGED <<signature, missed>>, NEW job, job.op # "cancel"
  PROVE  RowsStay(job)
BY DEF HandlersKnow, RowsStay

(* Links, removals and what is asked of the provider. *)
LEMMA BeginsBeside ==
  ASSUME DocumentsInv, NEW r \in Requests, NEW job \in DocumentJob, Start(r, job),
         UNCHANGED docVars, job.op \notin {"version", "signed", "upload"}, doc.version > 0,
         job.op = "unlink" => linked,
         job.op = "cancel" => job.signer \in Signers /\ signature[job.signer] = "PENDING"
  PROVE  DocumentsInv'
<1>0. HandlersKnow BY DocumentFacts
<1>1. req[r].op = "none" /\ req' = [req EXCEPT ![r] = job] BY DEF Start, Idle, IdleJob
<1>2. UNCHANGED <<doc, stored, version, linked, envelope, said, signature, word, missed, copies,
                  refused, dropped>>
  BY DEF docVars, docHistory
<1>3. OneHandler(r, job)
  <2>1. envelope' \in BOOLEAN BY <1>0, <1>2 DEF HandlersKnow
  <2> QED BY <1>0, <1>1, <1>2, <2>1, OneHandlerMoves
<1>4. BesideVersions(r) BY <1>0, <1>1, <1>2 DEF BesideVersions, HandlersKnow, Versioning
<1>5. RowsStay(job)
  <2>1. "PENDING" \notin {None, "SIGNED"} BY DocumentBoundsOK DEF SignatureStatus
  <2>2. job.op = "cancel" =>
          /\ signature[job.signer] # None
          /\ word = "SIGNED" => job.signer \in missed
    BY <1>0, <2>1 DEF HandlersKnow
  <2>3. word = "SIGNED" => \A s \in Signers : signature'[s] \in {"SIGNED", None} \/ s \in missed'
    BY <1>0, <1>2 DEF HandlersKnow
  <2>4. job.op = "cancel" => signature'[job.signer] # None BY <1>2, <2>2
  <2>5. /\ signature' \in [Signers -> SignatureStatus \cup {None}] /\ signature' = signature
        /\ missed' \subseteq Signers /\ missed' = missed
    BY <1>0, <1>2 DEF HandlersKnow
  <2> QED BY <2>2, <2>3, <2>4, <2>5 DEF RowsStay
<1> QED BY <1>3, <1>4, <1>5, AsideKeepsDocument

LEMMA LinksPreserve ==
  ASSUME DocumentsInv, NEW r \in Requests,
         LinkRead(r) \/ LinkRow(r) \/ UnlinkRead(r) \/ UnlinkRow(r) \/ RemoveDocument(r)
           \/ RemoveDocumentWrite(r) \/ RequestRead(r) \/ Ask(r)
  PROVE  DocumentsInv'
<1>0. HandlersKnow BY DocumentFacts
<1>1. IdleJob \in DocumentJob /\ IdleJob.op = "none" BY DEF DocumentJob, IdleJob
<1>2. \A op \in {"link", "unlink", "remove"} : [op |-> op, pc |-> "write"] \in DocumentJob
  BY DEF DocumentJob, LinkJob
<1>3. CASE LinkRead(r) \/ UnlinkRead(r) \/ RemoveDocument(r)
  <2>1. PICK op \in {"link", "unlink", "remove"} :
          /\ Start(r, [op |-> op, pc |-> "write"]) /\ UNCHANGED docVars /\ doc.version > 0
          /\ op = "unlink" => linked
    BY <1>3 DEF LinkRead, UnlinkRead, RemoveDocument, Found
  <2> DEFINE job == [op |-> op, pc |-> "write"]
  <2>2. job \in DocumentJob /\ job.op = op BY <1>2
  <2>3. Start(r, job) BY <2>1
  <2> HIDE DEF job
  <2> QED BY <2>1, <2>2, <2>3, BeginsBeside
<1>4. CASE RequestRead(r)
  <2> DEFINE job == [op |-> "request", pc |-> "ask", left |-> Signers]
  <2>1. Start(r, job) /\ UNCHANGED docVars /\ doc.version > 0 BY <1>4 DEF RequestRead, Found
  <2>2. job \in DocumentJob /\ job.op = "request" BY DEF DocumentJob, AskJob
  <2> HIDE DEF job
  <2> QED BY <2>1, <2>2, BeginsBeside
<1>5. CASE LinkRow(r) \/ RemoveDocumentWrite(r)
  <2>1. /\ req[r].op \in {"upload", "link", "remove"} /\ req' = [req EXCEPT ![r] = IdleJob]
        /\ linked' = TRUE \/ linked' = linked
        /\ \/ doc' = doc
           \/ req[r].op = "remove" /\ doc' = [doc EXCEPT !.deleted = TRUE]
        /\ UNCHANGED <<stored, version, envelope, said, signature, word, missed, copies,
                       refused, dropped>>
    BY <1>5 DEF LinkRow, RemoveDocumentWrite, Doing, Finish, docHistory
  <2>2. req[r].op = "remove" => doc.version > 0 BY <1>0 DEF HandlersKnow
  <2>3. OneHandler(r, IdleJob)
    <3>1. envelope' \in BOOLEAN BY <1>0, <2>1 DEF HandlersKnow
    <3> QED BY <1>0, <1>1, <2>1, <3>1, OneHandlerMoves
  <2>4. BesideVersions(r) BY <1>0, <2>1, <2>2 DEF BesideVersions, HandlersKnow, Versioning
  <2>5. RowsStay(IdleJob) BY <1>0, <1>1, <2>1, RowsUntouched
  <2> QED BY <2>3, <2>4, <2>5, AsideKeepsDocument
<1>6. CASE UnlinkRow(r)
  <2>1. /\ Doing(r, "unlink", "write") /\ linked' = FALSE
        /\ req' = [q \in Requests |-> IF Doing(q, "unlink", "write") THEN IdleJob ELSE req[q]]
        /\ UNCHANGED <<doc, stored, version, envelope, said, signature, word, missed, copies,
                       refused, dropped>>
    BY <1>6 DEF UnlinkRow, docHistory
  <2>2. /\ req' \in [Requests -> DocumentJob] /\ req'[r] = IdleJob
        /\ \A q \in Requests :
             req'[q] = req[q] \/ (req[q].op = "unlink" /\ req'[q] = IdleJob)
    BY <1>0, <1>1, <2>1 DEF Doing, HandlersKnow
  <2>3. \A q \in Requests : ~Doing(q, "unlink", "write")'
    BY <1>1, <2>1 DEF Doing
  <2>4. OneHandler(r, IdleJob) BY <1>0, <1>1, <2>1, <2>2, <2>3 DEF OneHandler, HandlersKnow
  <2>5. BesideVersions(r) BY <1>0, <2>1 DEF BesideVersions, HandlersKnow, Versioning, Doing
  <2>6. RowsStay(IdleJob) BY <1>0, <1>1, <2>1, RowsUntouched
  <2> QED BY <2>4, <2>5, <2>6, AsideKeepsDocument
<1>7. CASE Ask(r)
  <2> DEFINE job == [req[r] EXCEPT !.pc = "rows"]
  <2>1. /\ req[r].op = "request" /\ req' = [req EXCEPT ![r] = job] /\ envelope' = TRUE
        /\ UNCHANGED <<doc, stored, version, linked, said, signature, word, missed, copies,
                       refused, dropped>>
    <3>1. req' = [req EXCEPT ![r].pc = "rows"] BY <1>7 DEF Ask, Goto
    <3> QED BY <1>0, <1>7, <3>1 DEF Ask, Doing, docHistory, HandlersKnow
  <2>2. job \in DocumentJob /\ job.op = "request"
    <3>1. req[r] \in AskJob BY <1>0, <2>1, DocumentJobs DEF HandlersKnow
    <3>2. job \in AskJob /\ job.op = "request" BY <3>1 DEF AskJob
    <3> QED BY <3>2 DEF DocumentJob
  <2> HIDE DEF job
  <2>3. doc.version > 0 BY <1>0, <2>1 DEF HandlersKnow
  <2>4. OneHandler(r, job) BY <1>0, <2>1, <2>2, <2>3, OneHandlerMoves
  <2>5. BesideVersions(r) BY <1>0, <2>1 DEF BesideVersions, HandlersKnow, Versioning
  <2>6. RowsStay(job) BY <1>0, <2>1, <2>2, RowsUntouched
  <2> QED BY <2>4, <2>5, <2>6, AsideKeepsDocument
<1> QED BY <1>3, <1>4, <1>5, <1>6, <1>7

(* The signers' rows, and a handler that dies. *)
LEMMA RowsPreserve ==
  ASSUME DocumentsInv, NEW r \in Requests,
         \/ \E s \in Signers : InsertSignature(r, s) \/ CancelRead(r, s)
         \/ CancelWrite(r) \/ DocumentFail(r)
  PROVE  DocumentsInv'
<1>0. HandlersKnow BY DocumentFacts
<1>1. IdleJob \in DocumentJob /\ IdleJob.op = "none" BY DEF DocumentJob, IdleJob
<1>2. /\ {"PENDING", "EXPIRED"} \subseteq SignatureStatus
      /\ "PENDING" # None /\ "EXPIRED" # None
  BY DocumentBoundsOK DEF SignatureStatus
<1>3. ASSUME NEW s \in Signers, InsertSignature(r, s) PROVE DocumentsInv'
  <2> DEFINE job == IF req[r].left = {s} THEN IdleJob ELSE [req[r] EXCEPT !.left = @ \ {s}]
  <2>1. /\ req[r].op = "request" /\ req' = [req EXCEPT ![r] = job]
        /\ signature' = [signature EXCEPT ![s] = "PENDING"]
        /\ missed' = IF word = "SIGNED" THEN missed \cup {s} ELSE missed
        /\ UNCHANGED <<doc, stored, version, linked, envelope, said, word, copies, refused, dropped>>
    <3>1. CASE req[r].left = {s} BY <1>3, <3>1 DEF InsertSignature, Doing, Finish
    <3>2. CASE req[r].left # {s}
      <4>1. req' = [req EXCEPT ![r].left = @ \ {s}] BY <1>3, <3>2 DEF InsertSignature
      <4>2. req' = [req EXCEPT ![r] = job] BY <1>0, <3>2, <4>1 DEF HandlersKnow
      <4> HIDE DEF job
      <4> QED BY <1>3, <4>2 DEF InsertSignature, Doing
    <3> QED BY <3>1, <3>2
  <2>2. job \in DocumentJob /\ job.op \in {"none", "request"}
    <3>1. req[r] \in AskJob BY <1>0, <2>1, DocumentJobs DEF HandlersKnow
    <3>2. [req[r] EXCEPT !.left = @ \ {s}] \in AskJob BY <3>1 DEF AskJob
    <3>3. [req[r] EXCEPT !.left = @ \ {s}].op = "request" BY <2>1, <3>1 DEF AskJob
    <3> QED BY <1>1, <3>2, <3>3 DEF DocumentJob
  <2> HIDE DEF job
  <2>3. doc.version > 0 BY <1>0, <2>1 DEF HandlersKnow
  <2>4. OneHandler(r, job)
    <3>1. envelope' \in BOOLEAN BY <1>0, <2>1 DEF HandlersKnow
    <3> QED BY <1>0, <2>1, <2>2, <2>3, <3>1, OneHandlerMoves
  <2>5. BesideVersions(r) BY <1>0, <2>1 DEF BesideVersions, HandlersKnow, Versioning
  <2>6. RowsStay(job)
    <3>1. /\ signature' \in [Signers -> SignatureStatus \cup {None}]
          /\ \A k \in Signers : signature'[k] = IF k = s THEN "PENDING" ELSE signature[k]
      BY <1>0, <1>2, <2>1 DEF HandlersKnow
    <3> QED BY <1>0, <1>2, <2>1, <2>2, <2>3, <3>1 DEF RowsStay, HandlersKnow
  <2> QED BY <2>4, <2>5, <2>6, AsideKeepsDocument
<1>4. ASSUME NEW s \in Signers, CancelRead(r, s) PROVE DocumentsInv'
  <2> DEFINE job == [op |-> "cancel", pc |-> "write", signer |-> s, late |-> FALSE]
  <2>1. Start(r, job) /\ UNCHANGED docVars /\ signature[s] = "PENDING" BY <1>4 DEF CancelRead
  <2>2. job \in DocumentJob /\ job.op = "cancel" /\ job.signer = s BY DEF DocumentJob, CancelJob
  <2> HIDE DEF job
  <2>3. doc.version > 0 BY <1>0, <1>2, <2>1 DEF HandlersKnow
  <2> QED BY <2>1, <2>2, <2>3, BeginsBeside
<1>5. CASE CancelWrite(r)
  <2> DEFINE s == req[r].signer
  <2>1. /\ req[r].op = "cancel" /\ req' = [req EXCEPT ![r] = IdleJob]
        /\ signature' = [signature EXCEPT ![s] = "EXPIRED"]
        /\ missed' = IF req[r].late THEN missed \cup {s} ELSE missed
        /\ UNCHANGED <<doc, stored, version, linked, envelope, said, word, copies, refused, dropped>>
    BY <1>5 DEF CancelWrite, Doing, Finish
  <2>2. s \in Signers
    <3>1. req[r] \in CancelJob BY <1>0, <2>1, DocumentJobs DEF HandlersKnow
    <3> QED BY <3>1 DEF CancelJob
  <2>3. word = "SIGNED" => s \in missed'
    <3>1. word = "SIGNED" => req[r].late \/ s \in missed
      BY <2>1 DEF DocumentsInv, CancelsLate
    <3> QED BY <2>1, <3>1
  <2> HIDE DEF s
  <2>4. OneHandler(r, IdleJob)
    <3>1. envelope' \in BOOLEAN BY <1>0, <2>1 DEF HandlersKnow
    <3> QED BY <1>0, <1>1, <2>1, <3>1, OneHandlerMoves
  <2>5. BesideVersions(r) BY <1>0, <2>1 DEF BesideVersions, HandlersKnow, Versioning
  <2>6. RowsStay(IdleJob)
    <3>1. /\ signature' \in [Signers -> SignatureStatus \cup {None}]
          /\ \A k \in Signers : signature'[k] = IF k = s THEN "EXPIRED" ELSE signature[k]
      BY <1>0, <1>2, <2>1 DEF HandlersKnow
    <3>2. missed \subseteq missed' /\ missed' \subseteq Signers
      BY <1>0, <2>1, <2>2 DEF HandlersKnow
    <3>3. doc.version > 0 BY <1>0, <2>1 DEF HandlersKnow
    <3> QED BY <1>0, <1>1, <1>2, <2>1, <2>3, <3>1, <3>2, <3>3 DEF RowsStay, HandlersKnow
  <2> QED BY <2>4, <2>5, <2>6, AsideKeepsDocument
<1>6. CASE DocumentFail(r)
  <2>1. /\ req' = [req EXCEPT ![r] = IdleJob]
        /\ dropped' = dropped
             \cup (IF req[r].op = "signed" /\ req[r].pc # "status" THEN {"copy"} ELSE {})
             \cup (IF Versioning(r) /\ req[r].pc = "update" THEN {"update"} ELSE {})
        /\ UNCHANGED <<doc, stored, version, linked, envelope, said, signature, word, missed,
                       copies, refused>>
    BY <1>6 DEF DocumentFail, Finish
  <2>2. OneHandler(r, IdleJob)
    <3>1. envelope' \in BOOLEAN BY <1>0, <2>1 DEF HandlersKnow
    <3> QED BY <1>0, <1>1, <2>1, <3>1, OneHandlerMoves
  <2>3. BesideVersions(r) BY <1>0, <2>1 DEF BesideVersions, HandlersKnow
  <2>4. RowsStay(IdleJob) BY <1>0, <1>1, <2>1, RowsUntouched
  <2> QED BY <2>2, <2>3, <2>4, AsideKeepsDocument
<1> QED BY <1>3, <1>4, <1>5, <1>6

(* A step beside the signers' rows: the copy of a signed document is still  *)
(* on its way, or there is an outcome of it.                                *)
LEMMA RowsKept ==
  ASSUME DocumentsInv, UNCHANGED <<signature, word, missed, linked>>,
         copies \subseteq copies', refused \subseteq refused', dropped \subseteq dropped',
         \A q \in Requests : req'[q].op \in {"cancel", "unlink"} => req'[q] = req[q],
         \A q \in Requests :
           req[q].op = "signed" /\ Versioning(q) /\ req[q].pc \in {"put", "insert"} =>
             \/ copies' # {} \/ refused' # {}
             \/ /\ req'[q].op = "signed" /\ req'[q].status = req[q].status
                /\ req'[q].pc \in {"put", "insert"}
  PROVE  /\ CopyComing' /\ CancelsLate' /\ SignedUnlessMissed'
         /\ \A q \in Requests : /\ Doing(q, "unlink", "write")' => linked'
                                /\ req'[q].op = "cancel" => signature'[req'[q].signer] # None
<1>0. DocumentsTypeOK /\ CopyComing /\ CancelsLate /\ SignedUnlessMissed BY DEF DocumentsInv
<1>1. CopyComing' BY <1>0 DEF CopyComing, Versioning, Makes
<1>2. CancelsLate' BY <1>0 DEF CancelsLate
<1>3. SignedUnlessMissed' BY <1>0 DEF SignedUnlessMissed
<1>4. \A q \in Requests : Doing(q, "unlink", "write")' => linked'
  BY <1>0 DEF DocumentsTypeOK, Doing
<1>5. ASSUME NEW q \in Requests, req'[q].op = "cancel" PROVE signature'[req'[q].signer] # None
  <2>1. req'[q] = req[q] BY <1>5
  <2>2. signature[req[q].signer] # None BY <1>0, <1>5, <2>1 DEF DocumentsTypeOK
  <2> QED BY <2>1, <2>2
<1> QED BY <1>1, <1>2, <1>3, <1>4, <1>5

(* The provider reports. *)
LEMMA ReportPreserves ==
  ASSUME DocumentsInv, NEW w \in Words, Report(w)
  PROVE  DocumentsInv'
<1>0. DocumentsTypeOK BY DEF DocumentsInv
<1>1. /\ said \cap Final = {} /\ said' = said \cup {w}
      /\ UNCHANGED <<doc, stored, version, linked, envelope, signature, req, docHistory>>
  BY DEF Report
<1>2. Cardinality(said' \cap Final) <= 1
  <2>1. CASE w \in Final
    <3>1. said' \cap Final = {w} BY <1>1, <2>1
    <3> QED BY <3>1, FS_Singleton
  <2>2. CASE w \notin Final
    <3>1. said' \cap Final = {} BY <1>1, <2>2
    <3> QED BY <3>1, FS_EmptySet
  <2> QED BY <2>1, <2>2
<1>3. DocumentsTypeOK'
  <2>1. said' \subseteq Words BY <1>0, <1>1 DEF DocumentsTypeOK
  <2> QED BY <1>0, <1>1, <1>2, <2>1 DEF DocumentsTypeOK, Doing, docHistory
<1> QED
  BY <1>1, <1>3 DEF DocumentsInv, UploadFirst, MakingOf, FilesApart, RowsInOrder, CopyComing,
                    CancelsLate, SignedUnlessMissed, Versioning, Makes, Doing, docHistory

(* The upload: nothing else is there. *)
LEMMA UploadPutPreserves ==
  ASSUME DocumentsInv, NEW r \in Requests, UploadPut(r)
  PROVE  DocumentsInv'
<1>0. /\ DocumentsTypeOK /\ UploadFirst /\ (\A q \in Requests : MakingOf(q)) /\ FilesApart
      /\ RowsInOrder /\ HandlersKnow
  BY DocumentFacts DEF DocumentsInv
<1> DEFINE job == [op |-> "upload", pc |-> "row", file |-> stored + 1]
<1>1. /\ doc.version = 0 /\ \A q \in Requests : req[q].op # "upload"
      /\ stored < MaxFiles /\ stored' = stored + 1
      /\ Idle(r) /\ req' = [req EXCEPT ![r] = job]
      /\ UNCHANGED <<doc, version, linked, envelope, said, signature, word, missed, copies,
                     refused, dropped>>
  BY DEF UploadPut, Start, docHistory
<1>2. stored \in 0..MaxFiles BY <1>0 DEF DocumentsTypeOK
<1>3. job \in UploadJob
  <2>1. stored + 1 \in Files BY <1>1, <1>2, DocumentBoundsOK DEF Files
  <2> QED BY <2>1 DEF UploadJob
<1>4. /\ job.op = "upload" /\ job.pc = "row" /\ job.file = stored + 1 /\ job \in DocumentJob
  BY <1>3 DEF DocumentJob
<1> HIDE DEF job
<1>5. /\ req' \in [Requests -> DocumentJob] /\ req'[r] = job
      /\ \A q \in Requests \ {r} : req'[q] = req[q]
  BY <1>0, <1>1, <1>4 DEF HandlersKnow
<1>6. \A q \in Requests \ {r} : req'[q].op = "none"
  BY <1>0, <1>1, <1>5 DEF UploadFirst
<1>7. \A q \in Requests : ~Versioning(q)' /\ ~Versioning(q)
  BY <1>0, <1>1, <1>4, <1>5, <1>6 DEF Versioning, UploadFirst
<1>8. /\ CopyComing' /\ CancelsLate' /\ SignedUnlessMissed'
      /\ \A q \in Requests : /\ Doing(q, "unlink", "write")' => linked'
                             /\ req'[q].op = "cancel" => signature'[req'[q].signer] # None
  BY <1>1, <1>4, <1>5, <1>6, <1>7, RowsKept
<1>9. (\A q \in Requests : MakingOf(q)') /\ FilesApart' /\ RowsInOrder'
  <2>1. \A q \in Requests : req'[q].op \notin {"version", "signed"} BY <1>4, <1>5, <1>6
  <2> QED BY <1>0, <1>1, <1>7, <2>1, AsideKeepsVersions
<1>10. UploadFirst'
  <2>1. req'[r].file \in 1..stored' BY <1>1, <1>2, <1>4, <1>5
  <2> QED BY <1>0, <1>1, <1>4, <1>5, <1>6, <2>1 DEF UploadFirst, Doing
<1>11. DocumentsTypeOK'
  <2>1. stored' \in 0..MaxFiles /\ version' \in [Later -> (1..stored') \cup {None}]
    BY <1>0, <1>1, <1>2, DocumentBoundsOK DEF DocumentsTypeOK
  <2>2. \A q \in Requests : req'[q].pc \notin {"insert", "update"}
    <3>1. \A q \in Requests \ {r} : req'[q] = IdleJob BY <1>5, <1>6, DocumentJobs
    <3> QED BY <1>4, <1>5, <3>1 DEF IdleJob
  <2>3. doc'.version = 0 BY <1>1
  <2> QED BY <1>0, <1>1, <1>5, <1>8, <2>1, <2>2, <2>3 DEF DocumentsTypeOK, DocumentJob, Doing
<1> QED BY <1>8, <1>9, <1>10, <1>11 DEF DocumentsInv

LEMMA UploadRowPreserves ==
  ASSUME DocumentsInv, NEW r \in Requests, UploadRow(r)
  PROVE  DocumentsInv'
<1>0. /\ DocumentsTypeOK /\ UploadFirst /\ (\A q \in Requests : MakingOf(q)) /\ FilesApart
      /\ RowsInOrder /\ HandlersKnow
  BY DocumentFacts DEF DocumentsInv
<1>1. /\ Doing(r, "upload", "row") /\ doc' = [doc EXCEPT !.version = 1, !.file = req[r].file]
      /\ UNCHANGED <<stored, version, linked, envelope, said, signature, word, missed, copies,
                     refused, dropped>>
  BY DEF UploadRow, docHistory
<1>2. /\ doc.version = 0 /\ req[r].file \in 1..stored /\ req[r] \in UploadJob
      /\ \A q \in Requests \ {r} : req[q].op = "none"
      /\ \A s \in Signers : signature[s] = None
  BY <1>0, <1>1, DocumentJobs DEF UploadFirst, Doing, HandlersKnow
<1>3. PICK job \in {IdleJob, [req[r] EXCEPT !.pc = "link"]} : req' = [req EXCEPT ![r] = job]
  BY <1>0 DEF UploadRow, Goto, Finish, HandlersKnow
<1>4. /\ job \in DocumentJob /\ job.op \in {"none", "upload"} /\ job.pc \in {"idle", "link"}
  BY <1>2 DEF DocumentJob, UploadJob, IdleJob
<1>5. /\ req' \in [Requests -> DocumentJob] /\ req'[r] = job
      /\ \A q \in Requests \ {r} : req'[q] = req[q]
  BY <1>0, <1>3, <1>4 DEF HandlersKnow
<1>6. \A q \in Requests : req[q].op \in {"none", "upload"} /\ req'[q].op \in {"none", "upload"}
  BY <1>1, <1>2, <1>4, <1>5 DEF Doing
<1>7. \A q \in Requests : ~Versioning(q) /\ ~Versioning(q)' BY <1>6 DEF Versioning
<1>8. /\ CopyComing' /\ CancelsLate' /\ SignedUnlessMissed'
      /\ \A q \in Requests : /\ Doing(q, "unlink", "write")' => linked'
                             /\ req'[q].op = "cancel" => signature'[req'[q].signer] # None
  BY <1>1, <1>6, <1>7, RowsKept
<1>9. /\ doc' \in [version : 0..MaxVersion, file : Files \cup {None}, deleted : BOOLEAN]
      /\ doc'.version = 1 /\ doc'.file = req[r].file
  <2>1. doc \in [version : 0..MaxVersion, file : Files \cup {None}, deleted : BOOLEAN]
    BY <1>0 DEF HandlersKnow
  <2>2. 1 \in 0..MaxVersion /\ req[r].file \in Files \cup {None}
    BY <1>2, DocumentBoundsOK DEF UploadJob
  <2> QED BY <1>1, <2>1, <2>2
<1>10. \A q \in Requests : MakingOf(q)' BY <1>6, <1>7 DEF MakingOf
<1>11. FilesApart' BY <1>7 DEF FilesApart
<1>12. RowsInOrder'
  <2>1. \A v \in Later : /\ v \in Nat /\ v > 1 /\ v > doc.version /\ v # doc.version + 1
                         /\ ~(v <= doc'.version)
    BY <1>2, <1>9, DocumentBoundsOK DEF Later
  <2>2. \A v \in Later : version[v] = None
    BY <1>0, <1>2, <2>1 DEF RowsInOrder
  <2>3. doc'.version \notin Later BY <1>9, <2>1
  <2> QED BY <1>0, <1>1, <2>1, <2>2, <2>3 DEF RowsInOrder
<1>13. UploadFirst'
  <2>1. \A q \in Requests : ~Doing(q, "upload", "row")'
    BY <1>2, <1>4, <1>5 DEF Doing
  <2> QED BY <1>9, <2>1 DEF UploadFirst
<1>14. DocumentsTypeOK'
  <2>1. \A q \in Requests : req'[q].pc \notin {"insert", "update"}
    BY <1>5, <1>6, DocumentJobs DEF VersionJob
  <2>2. doc'.file \in 1..stored BY <1>2, <1>9
  <2> QED BY <1>0, <1>1, <1>5, <1>8, <1>9, <2>1, <2>2 DEF DocumentsTypeOK, DocumentJob, Doing
<1> QED BY <1>8, <1>10, <1>11, <1>12, <1>13, <1>14 DEF DocumentsInv

(* A version begins under the number after the one read; those in the       *)
(* making are what they were, and not alone.                                *)
LEMMA VersionStarts ==
  ASSUME HandlersKnow, NEW r \in Requests, NEW op \in {"version", "signed"},
         NEW pc \in {"status", "put"}, NEW status \in SignatureStatus \cup {None},
         StartVersion(r, op, pc, status), doc.version > 0
  PROVE  /\ doc.version + 1 \in Later /\ req[r] = IdleJob
         /\ req' \in [Requests -> DocumentJob]
         /\ req'[r].op = op /\ req'[r].pc = pc /\ req'[r].number = doc.version + 1
         /\ req'[r].status = status
         /\ Makes(op, status) /\ req'[r].alone => \A q \in Requests : ~Versioning(q)
         /\ \A q \in Requests \ {r} :
              /\ req'[q].op = req[q].op /\ req'[q].pc = req[q].pc
              /\ req[q].op \notin {"version", "signed"} => req'[q] = req[q]
              /\ req[q].op \in {"version", "signed"} =>
                   /\ req'[q].number = req[q].number /\ req'[q].file = req[q].file
                   /\ req'[q].status = req[q].status
                   /\ req'[q].alone => req[q].alone
                   /\ Versioning(q) /\ Makes(op, status) => ~req'[q].alone
<1> DEFINE others == IF Makes(op, status) THEN {q \in Requests : Versioning(q)} ELSE {}
           job == [op |-> op, pc |-> pc, number |-> doc.version + 1, file |-> None,
                   status |-> status, alone |-> others = {}]
<1>1. /\ Idle(r) /\ doc.version < MaxVersion
      /\ req' = [q \in Requests |-> IF q = r THEN job
                                    ELSE IF q \in others THEN [req[q] EXCEPT !.alone = FALSE]
                                    ELSE req[q]]
  BY DEF StartVersion
<1>2. doc.version + 1 \in Later /\ doc.version + 1 \in 2..(MaxVersion + 1)
  <2>1. doc.version \in 0..MaxVersion BY DEF HandlersKnow
  <2> QED BY <1>1, <2>1, DocumentBoundsOK DEF Later
<1>3. job \in DocumentJob /\ (job.alone => others = {})
  <2>1. job \in VersionJob BY <1>2 DEF VersionJob
  <2> QED BY <2>1 DEF DocumentJob
<1>4. job.op = op /\ job.pc = pc /\ job.number = doc.version + 1 /\ job.status = status
  OBVIOUS
<1>5. ASSUME NEW q \in Requests, req[q].op \in {"version", "signed"},
             NEW k, k = [req[q] EXCEPT !.alone = FALSE]
      PROVE  /\ k \in DocumentJob /\ k.op = req[q].op /\ k.pc = req[q].pc
             /\ k.number = req[q].number /\ k.file = req[q].file /\ k.status = req[q].status
             /\ ~k.alone
  <2>1. req[q] \in VersionJob BY <1>5, DocumentJobs DEF HandlersKnow
  <2>2. k \in VersionJob BY <1>5, <2>1 DEF VersionJob
  <2> QED BY <1>5, <2>1, <2>2 DEF VersionJob, DocumentJob
<1> HIDE DEF job
<1>6. others \subseteq {q \in Requests : Versioning(q)}
      /\ (Makes(op, status) => others = {q \in Requests : Versioning(q)})
  OBVIOUS
<1>7. \A q \in others : req[q].op \in {"version", "signed"} BY <1>6 DEF Versioning
<1> HIDE DEF others
<1>8. /\ req'[r] = job
      /\ \A q \in Requests \ {r} : req'[q] = IF q \in others THEN [req[q] EXCEPT !.alone = FALSE]
                                              ELSE req[q]
  BY <1>1
<1>9. ASSUME NEW q \in Requests PROVE req'[q] \in DocumentJob
  <2>1. req[q] \in DocumentJob BY DEF HandlersKnow
  <2>2. q \in others => [req[q] EXCEPT !.alone = FALSE] \in DocumentJob BY <1>5, <1>7
  <2> QED BY <1>3, <1>8, <2>1, <2>2
<1>10. req' \in [Requests -> DocumentJob]
  <2>1. req' = [q \in Requests |-> req'[q]] BY <1>1
  <2> QED BY <1>9, <2>1
<1>11. ASSUME NEW q \in Requests \ {r}
       PROVE  /\ req'[q].op = req[q].op /\ req'[q].pc = req[q].pc
              /\ req[q].op \notin {"version", "signed"} => req'[q] = req[q]
              /\ req[q].op \in {"version", "signed"} =>
                   /\ req'[q].number = req[q].number /\ req'[q].file = req[q].file
                   /\ req'[q].status = req[q].status
                   /\ req'[q].alone => req[q].alone
                   /\ Versioning(q) /\ Makes(op, status) => ~req'[q].alone
  <2>1. CASE q \in others
    <3>1. req[q].op \in {"version", "signed"} /\ req'[q] = [req[q] EXCEPT !.alone = FALSE]
      BY <1>7, <1>8, <2>1
    <3> QED BY <1>5, <3>1
  <2>2. CASE q \notin others
    <3>1. req'[q] = req[q] BY <1>8, <2>2
    <3>2. ~(Versioning(q) /\ Makes(op, status)) BY <1>6, <2>2
    <3> QED BY <3>1, <3>2
  <2> QED BY <2>1, <2>2
<1> QED BY <1>1, <1>2, <1>3, <1>4, <1>6, <1>8, <1>10, <1>11 DEF Idle

LEMMA StartPreserves ==
  ASSUME DocumentsInv, NEW r \in Requests,
         NewVersionRead(r) \/ (\E w \in Words : WebhookRead(r, w))
  PROVE  DocumentsInv'
<1>0. /\ DocumentsTypeOK /\ UploadFirst /\ (\A q \in Requests : MakingOf(q)) /\ FilesApart
      /\ RowsInOrder /\ HandlersKnow
  BY DocumentFacts DEF DocumentsInv
<1>1. PICK op \in {"version", "signed"}, pc \in {"status", "put"},
           status \in SignatureStatus \cup {None} :
        /\ StartVersion(r, op, pc, status) /\ UNCHANGED docVars /\ doc.version > 0
        /\ op = "signed" => status # None
  <2>1. CASE NewVersionRead(r) BY <2>1 DEF NewVersionRead, Found
  <2>2. ASSUME NEW w \in Words, WebhookRead(r, w)
        PROVE  /\ StartVersion(r, "signed", "status", StatusOf(w)) /\ UNCHANGED docVars
               /\ doc.version > 0 /\ StatusOf(w) \in SignatureStatus /\ StatusOf(w) # None
    <3>1. StatusOf(w) \in SignatureStatus BY DEF StatusOf, Words, SignatureStatus
    <3> QED BY <1>0, <2>2, <3>1, DocumentBoundsOK DEF WebhookRead, HandlersKnow
  <2> QED BY <2>1, <2>2
<1>2. UNCHANGED <<doc, stored, version, linked, envelope, said, signature, word, missed, copies,
                  refused, dropped>>
  BY <1>1 DEF docVars, docHistory
<1>3. /\ doc.version + 1 \in Later /\ req[r] = IdleJob
      /\ req' \in [Requests -> DocumentJob]
      /\ req'[r].op = op /\ req'[r].pc = pc /\ req'[r].number = doc.version + 1
      /\ req'[r].status = status
      /\ Makes(op, status) /\ req'[r].alone => \A q \in Requests : ~Versioning(q)
      /\ \A q \in Requests \ {r} :
           /\ req'[q].op = req[q].op /\ req'[q].pc = req[q].pc
           /\ req[q].op \notin {"version", "signed"} => req'[q] = req[q]
           /\ req[q].op \in {"version", "signed"} =>
                /\ req'[q].number = req[q].number /\ req'[q].file = req[q].file
                /\ req'[q].status = req[q].status
                /\ req'[q].alone => req[q].alone
                /\ Versioning(q) /\ Makes(op, status) => ~req'[q].alone
  BY <1>0, <1>1, VersionStarts
<1>4. req[r].op = "none" BY <1>3 DEF IdleJob
<1>5. \A q \in Requests \ {r} : Versioning(q)' <=> Versioning(q)
  BY <1>3 DEF Versioning
<1>6. Versioning(r)' <=> Makes(op, status) BY <1>3 DEF Versioning
<1>7. /\ CopyComing' /\ CancelsLate' /\ SignedUnlessMissed'
      /\ \A q \in Requests : /\ Doing(q, "unlink", "write")' => linked'
                             /\ req'[q].op = "cancel" => signature'[req'[q].signer] # None
  <2>1. \A q \in Requests : req'[q].op \in {"cancel", "unlink"} => req'[q] = req[q]
    BY <1>3
  <2>2. \A q \in Requests :
          req[q].op = "signed" /\ Versioning(q) /\ req[q].pc \in {"put", "insert"} =>
            /\ req'[q].op = "signed" /\ req'[q].status = req[q].status
            /\ req'[q].pc \in {"put", "insert"}
    BY <1>3, <1>4
  <2> QED BY <1>2, <2>1, <2>2, RowsKept
<1>8. ASSUME NEW q \in Requests PROVE MakingOf(q)'
  <2>1. CASE q = r
    <3>1. Versioning(r)' /\ req'[r].alone => \A p \in Requests \ {r} : ~Versioning(p)'
      BY <1>3, <1>5, <1>6
    <3>2. doc.version + 1 <= doc.version + 1 BY <1>3, DocumentBoundsOK DEF Later
    <3>3. /\ req'[r].number \in Later /\ req'[r].number <= doc'.version + 1
          /\ req'[r].pc \notin {"insert", "update"} /\ req'[r].number = doc'.version + 1
          /\ req'[r].op = "signed" => req'[r].status # None
      BY <1>1, <1>2, <1>3, <3>2
    <3> QED BY <2>1, <3>1, <3>3 DEF MakingOf
  <2>2. CASE q # r
    <3>1. req'[q].op \in {"version", "signed"} =>
            /\ req'[q].number \in Later /\ req'[q].number <= doc'.version + 1
            /\ req'[q].op = "signed" => req'[q].status # None
      BY <1>0, <1>2, <1>3, <2>2 DEF MakingOf
    <3>2. ASSUME Versioning(q)'
          PROVE  /\ req'[q].alone => /\ req'[q].number = doc'.version + 1
                                     /\ \A p \in Requests \ {q} : ~Versioning(p)'
                 /\ req'[q].pc = "insert" => \A v \in Later : version'[v] # req'[q].file
                 /\ req'[q].pc = "update" => /\ req'[q].number = doc'.version + 1
                                             /\ version'[req'[q].number] = req'[q].file
                                             /\ req'[q].op = "signed" => copies' # {}
      <4>1. Versioning(q) /\ req[q].op \in {"version", "signed"} /\ MakingOf(q)
        BY <1>0, <1>5, <2>2, <3>2 DEF Versioning
      <4>2. /\ req'[q].op = req[q].op /\ req'[q].pc = req[q].pc
            /\ req'[q].number = req[q].number /\ req'[q].file = req[q].file
        BY <1>3, <2>2, <4>1
      <4>3. req'[q].alone => req[q].alone /\ ~Makes(op, status)
        BY <1>3, <2>2, <4>1
      <4>4. req'[q].alone => \A p \in Requests \ {q} : ~Versioning(p)'
        BY <1>5, <1>6, <2>2, <4>1, <4>3 DEF MakingOf
      <4> QED BY <1>2, <4>1, <4>2, <4>3, <4>4 DEF MakingOf
    <3> QED BY <3>1, <3>2 DEF MakingOf
  <2> QED BY <2>1, <2>2
<1>9. ASSUME NEW q \in Requests, Versioning(q)', req'[q].pc \in {"insert", "update"}
      PROVE  Versioning(q) /\ req[q].pc = req'[q].pc /\ req[q].file = req'[q].file
  <2>1. q # r BY <1>3, <1>9
  <2>2. Versioning(q) BY <1>5, <1>9, <2>1
  <2> QED BY <1>3, <2>1, <2>2 DEF Versioning
<1>10. FilesApart' BY <1>0, <1>9 DEF FilesApart
<1>11. RowsInOrder'
  <2>1. (\E q \in Requests : Versioning(q) /\ req[q].pc = "update") =>
          \E q \in Requests : Versioning(q)' /\ req'[q].pc = "update"
    <3>1. ASSUME NEW q \in Requests, Versioning(q), req[q].pc = "update"
          PROVE  Versioning(q)' /\ req'[q].pc = "update"
      <4>1. q # r BY <1>4, <3>1 DEF Versioning
      <4> QED BY <1>3, <1>5, <3>1, <4>1
    <3> QED BY <3>1
  <2> QED BY <1>0, <1>2, <2>1 DEF RowsInOrder
<1>12. UploadFirst'
  <2>1. \A q \in Requests : req'[q].op = "upload" => req'[q] = req[q] BY <1>1, <1>3
  <2>2. doc.version \in Nat BY <1>0 DEF HandlersKnow
  <2> QED BY <1>0, <1>1, <1>2, <2>1, <2>2, UploadStaysFirst
<1>13. DocumentsTypeOK'
  <2>1. ASSUME NEW q \in Requests, req'[q].pc \in {"insert", "update"}
        PROVE  req'[q].file \in 1..stored'
    <3>1. q # r BY <1>3, <2>1
    <3>2. req[q].pc \in {"insert", "update"} BY <1>3, <2>1, <3>1
    <3>3. req[q] \in VersionJob BY <1>0, <3>2, DocumentJobs DEF HandlersKnow
    <3>4. req'[q].file = req[q].file BY <1>3, <3>1, <3>3 DEF VersionJob
    <3> QED BY <1>0, <1>2, <3>2, <3>4 DEF DocumentsTypeOK
  <2> QED BY <1>0, <1>2, <1>3, <1>7, <2>1 DEF DocumentsTypeOK, DocumentJob, Doing
<1> QED BY <1>7, <1>8, <1>10, <1>11, <1>12, <1>13 DEF DocumentsInv

(* A handler that makes a version: the file, the row, the document.         *)
LEMMA VersionMoves ==
  ASSUME HandlersKnow, NEW r \in Requests, NEW pc, Goto(r, pc), Versioning(r),
         pc \in {"insert", "update"}
  PROVE  /\ req' \in [Requests -> DocumentJob]
         /\ req'[r].op = req[r].op /\ req'[r].pc = pc /\ req'[r].number = req[r].number
         /\ req'[r].status = req[r].status /\ req'[r].alone = req[r].alone
         /\ req'[r].file = req[r].file
         /\ \A q \in Requests \ {r} : req'[q] = req[q]
<1> DEFINE job == [req[r] EXCEPT !.pc = pc]
<1>1. req[r] \in VersionJob BY DocumentJobs DEF HandlersKnow, Versioning
<1>2. job \in VersionJob BY <1>1 DEF VersionJob
<1>3. /\ job.op = req[r].op /\ job.pc = pc /\ job.number = req[r].number
      /\ job.status = req[r].status /\ job.alone = req[r].alone /\ job.file = req[r].file
  BY <1>1 DEF VersionJob
<1>4. req' = [req EXCEPT ![r] = job] BY DEF Goto, HandlersKnow
<1> HIDE DEF job
<1>5. job \in DocumentJob BY <1>2 DEF DocumentJob
<1> QED BY <1>3, <1>4, <1>5 DEF HandlersKnow

LEMMA PutFilePreserves ==
  ASSUME DocumentsInv, NEW r \in Requests, PutFile(r)
  PROVE  DocumentsInv'
<1>0. /\ DocumentsTypeOK /\ UploadFirst /\ (\A q \in Requests : MakingOf(q)) /\ FilesApart
      /\ RowsInOrder /\ HandlersKnow
  BY DocumentFacts DEF DocumentsInv
<1> DEFINE step == [req[r] EXCEPT !.pc = "insert"]
           job == [step EXCEPT !.file = stored + 1]
<1>1. /\ Versioning(r) /\ req[r].pc = "put" /\ stored < MaxFiles /\ stored' = stored + 1
      /\ req' = [req EXCEPT ![r].pc = "insert", ![r].file = stored + 1]
      /\ UNCHANGED <<doc, version, linked, envelope, said, signature, word, missed, copies,
                     refused, dropped>>
  BY DEF PutFile, docHistory
<1>2. stored \in 0..MaxFiles /\ MaxFiles \in Nat BY <1>0, DocumentBoundsOK DEF DocumentsTypeOK
<1>3. req[r] \in VersionJob BY <1>0, <1>1, DocumentJobs DEF HandlersKnow, Versioning
<1>4. /\ job \in VersionJob /\ job.op = req[r].op /\ job.pc = "insert"
      /\ job.number = req[r].number /\ job.status = req[r].status
      /\ job.alone = req[r].alone /\ job.file = stored + 1
  <2>1. stored + 1 \in Files BY <1>1, <1>2 DEF Files
  <2>2. step \in VersionJob BY <1>3 DEF VersionJob
  <2> QED BY <1>3, <2>1, <2>2 DEF VersionJob
<1>5. req' = [req EXCEPT ![r] = job] BY <1>0, <1>1 DEF HandlersKnow
<1> HIDE DEF job
<1>6. /\ req' \in [Requests -> DocumentJob] /\ req'[r] = job
      /\ \A q \in Requests \ {r} : req'[q] = req[q]
  BY <1>0, <1>4, <1>5 DEF HandlersKnow, DocumentJob
<1>7. \A q \in Requests : Versioning(q)' <=> Versioning(q)
  BY <1>4, <1>6 DEF Versioning
<1>8. /\ CopyComing' /\ CancelsLate' /\ SignedUnlessMissed'
      /\ \A q \in Requests : /\ Doing(q, "unlink", "write")' => linked'
                             /\ req'[q].op = "cancel" => signature'[req'[q].signer] # None
  <2>1. \A q \in Requests : req'[q].op \in {"cancel", "unlink"} => req'[q] = req[q]
    BY <1>1, <1>4, <1>6 DEF Versioning
  <2>2. \A q \in Requests :
          req[q].op = "signed" /\ Versioning(q) /\ req[q].pc \in {"put", "insert"} =>
            /\ req'[q].op = "signed" /\ req'[q].status = req[q].status
            /\ req'[q].pc \in {"put", "insert"}
    BY <1>4, <1>6
  <2> QED BY <1>1, <2>1, <2>2, RowsKept
<1>9. stored' \in 0..MaxFiles /\ version' \in [Later -> (1..stored') \cup {None}]
      /\ (1..stored) \subseteq 1..stored' /\ stored + 1 \in 1..stored'
  <2>1. stored' \in 0..MaxFiles /\ (1..stored) \subseteq 1..stored' /\ stored + 1 \in 1..stored'
    BY <1>1, <1>2
  <2> QED BY <1>0, <1>1, <2>1 DEF DocumentsTypeOK
<1>10. \A v \in Later : version[v] # stored + 1
  <2>1. stored + 1 \notin 1..stored /\ stored + 1 # None BY <1>2, DocumentBoundsOK
  <2> QED BY <1>0, <2>1 DEF DocumentsTypeOK
<1>11. ASSUME NEW q \in Requests PROVE MakingOf(q)'
  <2>1. MakingOf(q) BY <1>0
  <2>2. CASE q = r
    BY <1>1, <1>4, <1>6, <1>7, <1>10, <2>1, <2>2 DEF MakingOf
  <2>3. CASE q # r
    <3>1. req'[q] = req[q] BY <1>6, <2>3
    <3> QED BY <1>1, <1>7, <2>1, <3>1 DEF MakingOf
  <2> QED BY <2>2, <2>3
<1>12. FilesApart'
  <2>1. ASSUME NEW q \in Requests \ {r}, req'[q].pc \in {"insert", "update"}
        PROVE  req'[q].file # stored + 1
    <3>1. req'[q] = req[q] BY <1>6
    <3>2. req[q].file \in 1..stored BY <1>0, <2>1, <3>1 DEF DocumentsTypeOK
    <3> QED BY <1>2, <3>1, <3>2
  <2>2. \A q \in Requests \ {r} : req'[q] = req[q] BY <1>6
  <2> SUFFICES ASSUME NEW p \in Requests, NEW q \in Requests,
                      Versioning(p)', Versioning(q)', req'[p].pc \in {"insert", "update"},
                      req'[q].pc \in {"insert", "update"}, req'[p].file = req'[q].file
               PROVE  p = q
    BY DEF FilesApart
  <2>3. req'[r].file = stored + 1 BY <1>4, <1>6
  <2>4. CASE p # r /\ q # r BY <1>0, <1>7, <2>2, <2>4 DEF FilesApart
  <2>5. CASE p = r \/ q = r BY <2>1, <2>3, <2>5
  <2> QED BY <2>4, <2>5
<1>13. RowsInOrder'
  <2>1. \A q \in Requests : req[q].pc = "update" => req'[q] = req[q] BY <1>1, <1>6
  <2>2. (\E q \in Requests : Versioning(q) /\ req[q].pc = "update") =>
          \E q \in Requests : Versioning(q)' /\ req'[q].pc = "update"
    BY <1>7, <2>1
  <2> QED BY <1>0, <1>1, <2>2 DEF RowsInOrder
<1>14. UploadFirst'
  <2>1. doc'.version > 0 BY <1>0, <1>1 DEF HandlersKnow, Versioning
  <2>2. \A q \in Requests : ~Doing(q, "upload", "row")'
    <3>1. \A q \in Requests : ~Doing(q, "upload", "row")
      BY <1>0, <1>1, <2>1 DEF UploadFirst
    <3>2. ~Doing(r, "upload", "row")' BY <1>4, <1>6 DEF Doing
    <3>3. \A q \in Requests \ {r} : req'[q] = req[q] BY <1>6
    <3> QED BY <3>1, <3>2, <3>3 DEF Doing
  <2> QED BY <2>1, <2>2 DEF UploadFirst
<1>15. DocumentsTypeOK'
  <2>1. ASSUME NEW q \in Requests, req'[q].pc \in {"insert", "update"}
        PROVE  req'[q].file \in 1..stored'
    <3>1. CASE q = r BY <1>4, <1>6, <1>9, <3>1
    <3>2. CASE q # r
      <4>1. req'[q] = req[q] BY <1>6, <3>2
      <4>2. req[q].file \in 1..stored BY <1>0, <2>1, <4>1 DEF DocumentsTypeOK
      <4> QED BY <1>9, <4>1, <4>2
    <3> QED BY <3>1, <3>2
  <2>2. doc'.version > 0 => doc'.file \in 1..stored' BY <1>0, <1>1, <1>9 DEF DocumentsTypeOK
  <2> QED BY <1>0, <1>1, <1>6, <1>8, <1>9, <2>1, <2>2 DEF DocumentsTypeOK, DocumentJob, Doing
<1> QED BY <1>8, <1>11, <1>12, <1>13, <1>14, <1>15 DEF DocumentsInv

LEMMA InsertVersionPreserves ==
  ASSUME DocumentsInv, NEW r \in Requests, InsertVersion(r)
  PROVE  DocumentsInv'
<1>0. /\ DocumentsTypeOK /\ UploadFirst /\ (\A q \in Requests : MakingOf(q)) /\ FilesApart
      /\ RowsInOrder /\ HandlersKnow
  BY DocumentFacts DEF DocumentsInv
<1>1. /\ Versioning(r) /\ req[r].pc = "insert"
      /\ UNCHANGED <<doc, stored, linked, envelope, said, signature, word, missed, dropped>>
  BY DEF InsertVersion
<1>2. req[r] \in VersionJob BY <1>0, <1>1, DocumentJobs DEF HandlersKnow, Versioning
<1>3. /\ doc.version \in 0..MaxVersion /\ doc.version > 0 /\ MaxVersion \in Nat
      /\ req[r].number \in Later /\ req[r].number <= doc.version + 1
      /\ req[r].file \in 1..stored /\ req[r].file # None
      /\ \A v \in Later : version[v] # req[r].file
  <2>1. req[r].op \notin {"none", "upload"} BY <1>1 DEF Versioning
  <2>2. req[r].file \in 1..stored BY <1>0, <1>1 DEF DocumentsTypeOK
  <2>3. req[r].file # None BY <1>0, <2>2, DocumentBoundsOK DEF DocumentsTypeOK
  <2>4. MakingOf(r) BY <1>0
  <2> QED BY <1>0, <1>1, <2>1, <2>2, <2>3, <2>4, DocumentBoundsOK
          DEF HandlersKnow, MakingOf, Versioning
<1>4. CASE version[req[r].number] # None
  <2>1. /\ refused' = refused \cup {req[r].alone} /\ req' = [req EXCEPT ![r] = IdleJob]
        /\ UNCHANGED <<version, copies>>
    BY <1>4 DEF InsertVersion, Finish
  <2>2. IdleJob \in DocumentJob /\ IdleJob.op = "none" /\ IdleJob.pc = "idle"
    BY DEF DocumentJob, IdleJob
  <2>3. /\ req' \in [Requests -> DocumentJob] /\ req'[r] = IdleJob
        /\ \A q \in Requests \ {r} : req'[q] = req[q]
    BY <1>0, <2>1, <2>2 DEF HandlersKnow
  <2>4. refused' \subseteq BOOLEAN /\ refused' # {}
    BY <1>0, <1>2, <2>1 DEF DocumentsTypeOK, VersionJob
  <2>5. req[r].alone => "update" \in dropped
    <3>1. SUFFICES ASSUME req[r].alone PROVE "update" \in dropped
      OBVIOUS
    <3>2. /\ req[r].number = doc.version + 1
          /\ \A q \in Requests \ {r} : ~Versioning(q)
      BY <1>0, <1>1, <3>1 DEF MakingOf
    <3> QED BY <1>0, <1>1, <1>3, <1>4, <3>2 DEF RowsInOrder
  <2>6. /\ CopyComing' /\ CancelsLate' /\ SignedUnlessMissed'
        /\ \A q \in Requests : /\ Doing(q, "unlink", "write")' => linked'
                               /\ req'[q].op = "cancel" => signature'[req'[q].signer] # None
    <3>1. \A q \in Requests : req'[q].op \in {"cancel", "unlink"} => req'[q] = req[q]
      BY <2>2, <2>3
    <3>2. refused \subseteq refused' BY <2>1
    <3> QED BY <1>1, <2>1, <2>4, <3>1, <3>2, RowsKept
  <2>7. \A q \in Requests : req'[q].op # "none" => q # r /\ req'[q] = req[q] BY <2>2, <2>3
  <2>8. \A q \in Requests : Versioning(q)' => Versioning(q) /\ req'[q] = req[q]
    BY <2>7 DEF Versioning
  <2>9. ASSUME NEW q \in Requests PROVE MakingOf(q)'
    <3>1. MakingOf(q) BY <1>0
    <3>2. CASE Versioning(q)' BY <1>1, <2>1, <2>8, <3>1, <3>2 DEF MakingOf
    <3>3. CASE ~Versioning(q)' BY <1>1, <2>7, <3>1, <3>3 DEF MakingOf
    <3> QED BY <3>2, <3>3
  <2>10. FilesApart' BY <1>0, <2>8 DEF FilesApart
  <2>11. RowsInOrder'
    <3>1. (\E q \in Requests : Versioning(q) /\ req[q].pc = "update") =>
            \E q \in Requests : Versioning(q)' /\ req'[q].pc = "update"
      <4>1. ASSUME NEW q \in Requests, Versioning(q), req[q].pc = "update"
            PROVE  Versioning(q)' /\ req'[q].pc = "update"
        <5>1. q # r BY <1>1, <4>1
        <5>2. req'[q] = req[q] BY <2>3, <5>1
        <5> QED BY <4>1, <5>2 DEF Versioning
      <4> QED BY <4>1
    <3>2. TRUE \in refused' => "update" \in dropped'
      <4>1. TRUE \in refused' => TRUE \in refused \/ req[r].alone = TRUE BY <2>1
      <4> QED BY <1>0, <1>1, <2>5, <4>1 DEF RowsInOrder
    <3> QED BY <1>0, <1>1, <2>1, <3>1, <3>2 DEF RowsInOrder
  <2>12. UploadFirst'
    <3>1. \A q \in Requests : req'[q].op = "upload" => req'[q] = req[q] BY <2>7
    <3>2. doc.version \in Nat BY <1>3
    <3> QED BY <1>0, <1>1, <1>3, <3>1, <3>2, UploadStaysFirst
  <2>13. DocumentsTypeOK'
    <3>1. \A q \in Requests : req'[q].pc \in {"insert", "update"} => req'[q].file \in 1..stored'
      <4>1. \A q \in Requests : req'[q].pc \in {"insert", "update"} => req'[q] = req[q]
        BY <2>2, <2>3
      <4> QED BY <1>0, <1>1, <4>1 DEF DocumentsTypeOK
    <3> QED BY <1>0, <1>1, <2>1, <2>3, <2>4, <2>6, <3>1 DEF DocumentsTypeOK, DocumentJob, Doing
  <2> QED BY <2>6, <2>9, <2>10, <2>11, <2>12, <2>13 DEF DocumentsInv
<1>5. CASE version[req[r].number] = None
  <2>1. PICK n, f : n = req[r].number /\ f = req[r].file OBVIOUS
  <2>2. /\ version' = [version EXCEPT ![n] = f] /\ Goto(r, "update") /\ UNCHANGED refused
        /\ copies' = IF req[r].op = "signed" THEN copies \cup {n} ELSE copies
    BY <1>5, <2>1 DEF InsertVersion, Insert
  <2>3. /\ req' \in [Requests -> DocumentJob]
        /\ req'[r].op = req[r].op /\ req'[r].pc = "update" /\ req'[r].number = n
        /\ req'[r].status = req[r].status /\ req'[r].alone = req[r].alone
        /\ req'[r].file = f
        /\ \A q \in Requests \ {r} : req'[q] = req[q]
    BY <1>0, <1>1, <2>1, <2>2, VersionMoves
  <2>4. n \in Later /\ version[n] = None /\ n = doc.version + 1 /\ n > doc.version
    <3>1. ~(n <= doc.version) BY <1>0, <1>3, <1>5, <2>1 DEF RowsInOrder
    <3> QED BY <1>3, <1>5, <2>1, <3>1 DEF Later
  <2>5. \A q \in Requests : ~(Versioning(q) /\ req[q].pc = "update")
    <3>1. SUFFICES ASSUME NEW q \in Requests, Versioning(q), req[q].pc = "update" PROVE FALSE
      OBVIOUS
    <3>2. version[n] = req[q].file /\ req[q].file \in 1..stored
      BY <1>0, <2>4, <3>1 DEF MakingOf, DocumentsTypeOK
    <3>3. None \notin 1..stored BY <1>0, DocumentBoundsOK DEF DocumentsTypeOK
    <3> QED BY <2>4, <3>2, <3>3
  <2>6. /\ version' \in [Later -> (1..stored) \cup {None}]
        /\ version'[n] = f /\ \A v \in Later \ {n} : version'[v] = version[v]
    BY <1>0, <1>3, <2>1, <2>2, <2>4 DEF DocumentsTypeOK
  <2>7. \A q \in Requests : Versioning(q)' <=> Versioning(q)
    BY <2>3 DEF Versioning
  <2>8. copies \subseteq copies' /\ copies' \subseteq Later
        /\ (req[r].op = "signed" => copies' # {})
    BY <1>0, <2>2, <2>4 DEF DocumentsTypeOK
  <2>9. /\ CopyComing' /\ CancelsLate' /\ SignedUnlessMissed'
        /\ \A q \in Requests : /\ Doing(q, "unlink", "write")' => linked'
                               /\ req'[q].op = "cancel" => signature'[req'[q].signer] # None
    <3>1. \A q \in Requests : req'[q].op \in {"cancel", "unlink"} => req'[q] = req[q]
      BY <1>1, <2>3 DEF Versioning
    <3> QED BY <1>1, <2>2, <2>3, <2>8, <3>1, RowsKept
  <2>10. ASSUME NEW q \in Requests PROVE MakingOf(q)'
    <3>1. MakingOf(q) BY <1>0
    <3>2. CASE q = r
      <4>1. /\ req'[q].number \in Later /\ req'[q].number <= doc'.version + 1
            /\ req'[q].op = "signed" => req'[q].status # None
        BY <1>1, <1>3, <2>1, <2>3, <3>1, <3>2 DEF MakingOf, Versioning
      <4>2. req'[q].alone => \A p \in Requests \ {q} : ~Versioning(p)'
        BY <1>1, <2>3, <2>7, <3>1, <3>2 DEF MakingOf
      <4> QED BY <1>1, <2>3, <2>4, <2>6, <2>8, <3>2, <4>1, <4>2 DEF MakingOf
    <3>3. CASE q # r
      <4>1. req'[q] = req[q] BY <2>3, <3>3
      <4>2. Versioning(q) => req[q].pc # "update" BY <2>5
      <4>3. Versioning(q) /\ req[q].pc = "insert" => f # req[q].file
        BY <1>0, <1>1, <2>1, <3>3 DEF FilesApart
      <4>4. Versioning(q) /\ req[q].pc = "insert" => \A v \in Later : version'[v] # req[q].file
        BY <2>6, <3>1, <4>3 DEF MakingOf
      <4> QED BY <1>1, <2>7, <3>1, <4>1, <4>2, <4>4 DEF MakingOf
    <3> QED BY <3>2, <3>3
  <2>11. FilesApart'
    <3>1. \A q \in Requests : req'[q].pc \in {"insert", "update"} =>
            req[q].pc \in {"insert", "update"} /\ req'[q].file = req[q].file
      BY <1>1, <2>1, <2>3
    <3> QED BY <1>0, <2>7, <3>1 DEF FilesApart
  <2>12. RowsInOrder'
    <3>1. \E q \in Requests : Versioning(q)' /\ req'[q].pc = "update" BY <1>1, <2>3, <2>7
    <3>2. \A v \in Later : v > doc.version + 1 => version'[v] = None
      <4>1. \A v \in Later : v > doc.version + 1 => v # n BY <1>3, <2>4 DEF Later
      <4> QED BY <1>0, <2>6, <4>1 DEF RowsInOrder
    <3>3. f # None BY <1>3, <2>1
    <3>4. \A v \in Later : v <= doc.version => version'[v] # None
      BY <1>0, <2>6, <3>3 DEF RowsInOrder
    <3>5. \A u, v \in Later : u # v /\ version'[u] = version'[v] => version'[v] = None
      <4>1. \A v \in Later : version[v] # f BY <1>3, <2>1
      <4> QED BY <1>0, <2>6, <4>1 DEF RowsInOrder
    <3>6. doc.version \in Later => doc.file = version'[doc.version]
      <4>1. doc.version # n BY <1>3, <2>4
      <4> QED BY <1>0, <2>6, <4>1 DEF RowsInOrder
    <3> QED BY <1>0, <1>1, <2>2, <3>1, <3>2, <3>4, <3>5, <3>6 DEF RowsInOrder
  <2>13. UploadFirst'
    <3>1. \A q \in Requests : req'[q].op = "upload" => req'[q] = req[q]
      BY <1>1, <2>3 DEF Versioning
    <3>2. doc.version \in Nat BY <1>3
    <3> QED BY <1>0, <1>1, <1>3, <3>1, <3>2, UploadStaysFirst
  <2>14. DocumentsTypeOK'
    <3>1. \A q \in Requests : req'[q].pc \in {"insert", "update"} => req'[q].file \in 1..stored'
      <4>1. \A q \in Requests : req'[q].pc \in {"insert", "update"} =>
              req[q].pc \in {"insert", "update"} /\ req'[q].file = req[q].file
        BY <1>1, <2>1, <2>3
      <4> QED BY <1>0, <1>1, <4>1 DEF DocumentsTypeOK
    <3> QED BY <1>0, <1>1, <2>2, <2>3, <2>6, <2>8, <2>9, <3>1 DEF DocumentsTypeOK, DocumentJob, Doing
  <2> QED BY <2>9, <2>10, <2>11, <2>12, <2>13, <2>14 DEF DocumentsInv
<1> QED BY <1>4, <1>5

LEMMA UpdateDocumentPreserves ==
  ASSUME DocumentsInv, NEW r \in Requests, UpdateDocument(r)
  PROVE  DocumentsInv'
<1>0. /\ DocumentsTypeOK /\ UploadFirst /\ (\A q \in Requests : MakingOf(q)) /\ FilesApart
      /\ RowsInOrder /\ HandlersKnow
  BY DocumentFacts DEF DocumentsInv
<1>1. PICK n, f : n = req[r].number /\ f = req[r].file OBVIOUS
<1>2. /\ Versioning(r) /\ req[r].pc = "update"
      /\ doc' = [doc EXCEPT !.version = n, !.file = f] /\ req' = [req EXCEPT ![r] = IdleJob]
      /\ UNCHANGED <<stored, version, linked, envelope, said, signature, word, missed, copies,
                     refused, dropped>>
  BY <1>1 DEF UpdateDocument, Finish, docHistory
<1>3. /\ n \in Later /\ n = doc.version + 1 /\ version[n] = f /\ f \in 1..stored
      /\ f \in Files /\ n \in 0..MaxVersion /\ n > 0 /\ n \in Nat /\ doc.version \in Nat
      /\ req[r].op = "signed" => copies # {}
  <2>1. req[r] \in VersionJob BY <1>0, <1>2, DocumentJobs DEF HandlersKnow, Versioning
  <2>2. f \in 1..stored /\ f \in Files
    <3>1. f \in 1..stored BY <1>0, <1>1, <1>2 DEF DocumentsTypeOK
    <3>2. (1..stored) \subseteq Files BY <1>0, DocumentBoundsOK DEF Files, DocumentsTypeOK
    <3> QED BY <3>1, <3>2
  <2>3. n \in Later /\ n = doc.version + 1 /\ version[n] = f
        /\ (req[r].op = "signed" => copies # {})
    BY <1>0, <1>1, <1>2 DEF MakingOf, Versioning
  <2>4. doc.version \in 0..MaxVersion BY <1>0 DEF HandlersKnow
  <2> QED BY <2>2, <2>3, <2>4, DocumentBoundsOK DEF Later
<1>4. /\ doc' \in [version : 0..MaxVersion, file : Files \cup {None}, deleted : BOOLEAN]
      /\ doc'.version = n /\ doc'.file = f
  BY <1>0, <1>2, <1>3 DEF HandlersKnow
<1>5. IdleJob \in DocumentJob /\ IdleJob.op = "none" /\ IdleJob.pc = "idle"
  BY DEF DocumentJob, IdleJob
<1>6. /\ req' \in [Requests -> DocumentJob] /\ req'[r] = IdleJob
      /\ \A q \in Requests \ {r} : req'[q] = req[q]
  BY <1>0, <1>2, <1>5 DEF HandlersKnow
<1>7. \A q \in Requests : req'[q].op # "none" => q # r /\ req'[q] = req[q] BY <1>5, <1>6
<1>8. \A q \in Requests : Versioning(q)' => Versioning(q) /\ q # r /\ req'[q] = req[q]
  BY <1>7 DEF Versioning
(* Whoever else had the row would have this file. *)
<1>9. \A q \in Requests : Versioning(q)' => req'[q].pc # "update"
  <2>1. SUFFICES ASSUME NEW q \in Requests, Versioning(q)', req'[q].pc = "update" PROVE FALSE
    OBVIOUS
  <2>2. Versioning(q) /\ req[q].pc = "update" /\ q # r BY <1>8, <2>1
  <2>3. req[q].number = n /\ version[n] = req[q].file BY <1>0, <1>3, <2>2 DEF MakingOf
  <2>4. req[q].file = req[r].file BY <1>1, <1>3, <2>3
  <2> QED BY <1>0, <1>2, <2>2, <2>4 DEF FilesApart
<1>10. /\ CopyComing' /\ CancelsLate' /\ SignedUnlessMissed'
       /\ \A q \in Requests : /\ Doing(q, "unlink", "write")' => linked'
                              /\ req'[q].op = "cancel" => signature'[req'[q].signer] # None
  <2>1. \A q \in Requests : req'[q].op \in {"cancel", "unlink"} => req'[q] = req[q]
    BY <1>7
  <2>2. \A q \in Requests \ {r} : req'[q] = req[q] BY <1>6
  <2>3. req[r].pc \notin {"put", "insert"} BY <1>2
  <2> QED BY <1>2, <2>1, <2>2, <2>3, RowsKept
<1>11. ASSUME NEW q \in Requests PROVE MakingOf(q)'
  <2>1. MakingOf(q) BY <1>0
  <2>2. ASSUME req'[q].op \in {"version", "signed"}
        PROVE  /\ req'[q].number \in Later /\ req'[q].number <= doc'.version + 1
               /\ req'[q].op = "signed" => req'[q].status # None
    <3>1. req'[q] = req[q] BY <1>7, <2>2
    <3>2. req[q].number \in Later /\ req[q].number <= doc.version + 1 BY <2>1, <2>2, <3>1 DEF MakingOf
    <3>3. req[q].number <= n + 1 BY <1>3, <3>2 DEF Later
    <3> QED BY <1>4, <2>1, <2>2, <3>1, <3>2, <3>3 DEF MakingOf
  <2>3. ASSUME Versioning(q)'
        PROVE  ~req'[q].alone /\ (req'[q].pc = "insert" => \A v \in Later : version'[v] # req'[q].file)
    <3>1. Versioning(q) /\ q # r /\ req'[q] = req[q] BY <1>8, <2>3
    <3> QED BY <1>2, <2>1, <3>1 DEF MakingOf
  <2> QED BY <1>9, <2>2, <2>3 DEF MakingOf
<1>12. FilesApart' BY <1>0, <1>8 DEF FilesApart
<1>13. RowsInOrder'
  <2>1. ASSUME NEW v \in Later PROVE version[v] # None <=> v <= n
    <3>1. v \in Nat /\ doc.version \in Nat BY <1>3 DEF Later
    <3>2. CASE v <= doc.version BY <1>0, <1>3, <3>1, <3>2 DEF RowsInOrder
    <3>3. CASE v > doc.version + 1 BY <1>0, <1>3, <3>1, <3>3 DEF RowsInOrder
    <3>4. CASE v = n
      <4>1. f # None BY <1>0, <1>3, DocumentBoundsOK DEF DocumentsTypeOK
      <4> QED BY <1>3, <3>1, <3>4, <4>1
    <3> QED BY <1>3, <3>1, <3>2, <3>3, <3>4
  <2>2. ASSUME NEW v \in Later
        PROVE  /\ v <= n => version[v] # None /\ v # n + 1
               /\ v > n + 1 => version[v] = None
               /\ v = n + 1 => version[v] = None
    <3>1. v \in Nat BY DEF Later
    <3>2. v > n + 1 \/ v = n + 1 => ~(v <= n) BY <1>3, <3>1
    <3> QED BY <1>3, <2>1, <3>1, <3>2
  <2> QED BY <1>0, <1>2, <1>3, <1>4, <2>2 DEF RowsInOrder
<1>14. UploadFirst'
  <2>1. doc'.version # 0 BY <1>3, <1>4
  <2>2. \A q \in Requests : ~Doing(q, "upload", "row")'
    <3>1. doc.version > 0 BY <1>0, <1>2 DEF HandlersKnow, Versioning
    <3>2. \A q \in Requests : ~Doing(q, "upload", "row") BY <1>0, <3>1 DEF UploadFirst
    <3> QED BY <1>5, <1>6, <3>2 DEF Doing
  <2> QED BY <2>1, <2>2 DEF UploadFirst
<1>15. DocumentsTypeOK'
  <2>1. \A q \in Requests : req'[q].pc \in {"insert", "update"} => req'[q].file \in 1..stored'
    <3>1. \A q \in Requests : req'[q].pc \in {"insert", "update"} => req'[q] = req[q]
      BY <1>5, <1>6
    <3> QED BY <1>0, <1>2, <3>1 DEF DocumentsTypeOK
  <2> QED BY <1>0, <1>2, <1>3, <1>4, <1>6, <1>10, <2>1 DEF DocumentsTypeOK, DocumentJob, Doing
<1> QED BY <1>10, <1>11, <1>12, <1>13, <1>14, <1>15 DEF DocumentsInv

(* The webhook's word, for all rows at once. *)
LEMMA WriteStatusPreserves ==
  ASSUME DocumentsInv, NEW r \in Requests, WriteStatus(r)
  PROVE  DocumentsInv'
<1>0. /\ DocumentsTypeOK /\ UploadFirst /\ (\A q \in Requests : MakingOf(q)) /\ FilesApart
      /\ RowsInOrder /\ HandlersKnow
  BY DocumentFacts DEF DocumentsInv
<1>1. PICK new : new = req[r].status OBVIOUS
<1> DEFINE job == IF new = "SIGNED" THEN [req[r] EXCEPT !.pc = "put"] ELSE IdleJob
<1>2. /\ req[r].op = "signed" /\ req[r].pc = "status"
      /\ signature' = [s \in Signers |-> IF signature[s] = None THEN None ELSE new]
      /\ word' = new /\ missed' = {}
      /\ req' = [q \in Requests |->
           IF q = r THEN job
           ELSE IF req[q].op = "cancel" THEN [req[q] EXCEPT !.late = (new = "SIGNED")]
           ELSE req[q]]
      /\ UNCHANGED <<doc, stored, version, linked, envelope, said, copies, refused, dropped>>
  BY <1>1 DEF WriteStatus, Doing
<1>3. req[r] \in VersionJob /\ new \in SignatureStatus
  <2>1. req[r] \in VersionJob BY <1>0, <1>2, DocumentJobs DEF HandlersKnow
  <2>2. new # None BY <1>0, <1>1, <1>2 DEF MakingOf
  <2> QED BY <1>1, <2>1, <2>2 DEF VersionJob
<1>4. /\ job \in DocumentJob
      /\ new = "SIGNED" => /\ job.op = "signed" /\ job.pc = "put" /\ job.number = req[r].number
                           /\ job.status = "SIGNED" /\ job.alone = req[r].alone
      /\ new # "SIGNED" => job = IdleJob
  <2>1. CASE new = "SIGNED"
    <3>1. job \in VersionJob BY <1>3, <2>1 DEF VersionJob
    <3> QED BY <1>1, <1>2, <1>3, <2>1, <3>1 DEF VersionJob, DocumentJob
  <2>2. CASE new # "SIGNED" BY <2>2 DEF DocumentJob
  <2> QED BY <2>1, <2>2
<1> HIDE DEF job
<1>5. ASSUME NEW q \in Requests, req[q].op = "cancel",
             NEW k, k = [req[q] EXCEPT !.late = (new = "SIGNED")]
      PROVE  /\ k \in DocumentJob /\ k.op = "cancel" /\ k.pc = "write" /\ k.signer = req[q].signer
             /\ k.late = (new = "SIGNED")
  <2>1. req[q] \in CancelJob BY <1>0, <1>5, DocumentJobs DEF HandlersKnow
  <2>2. k \in CancelJob BY <1>5, <2>1 DEF CancelJob
  <2> QED BY <1>5, <2>1, <2>2 DEF CancelJob, DocumentJob
<1>6. /\ req'[r] = job
      /\ \A q \in Requests \ {r} : req[q].op # "cancel" => req'[q] = req[q]
      /\ \A q \in Requests \ {r} : req[q].op = "cancel" =>
            req'[q] = [req[q] EXCEPT !.late = (new = "SIGNED")]
  BY <1>2
<1>7. req' \in [Requests -> DocumentJob]
  <2>1. ASSUME NEW q \in Requests PROVE req'[q] \in DocumentJob
    <3>1. CASE q = r BY <1>4, <1>6, <3>1
    <3>2. CASE q # r /\ req[q].op = "cancel"
      <4>1. PICK k : k = [req[q] EXCEPT !.late = (new = "SIGNED")] OBVIOUS
      <4>2. k \in DocumentJob BY <1>5, <3>2, <4>1
      <4> QED BY <1>6, <3>2, <4>1, <4>2
    <3>3. CASE q # r /\ req[q].op # "cancel" BY <1>0, <1>6, <3>3 DEF HandlersKnow
    <3> QED BY <3>1, <3>2, <3>3
  <2>2. req' = [q \in Requests |-> req'[q]] BY <1>2
  <2> QED BY <2>1, <2>2
<1>8. ASSUME NEW q \in Requests, req'[q].op = "cancel"
      PROVE  /\ req[q].op = "cancel" /\ req'[q].signer = req[q].signer
             /\ req'[q].pc = "write" /\ req'[q].late = (new = "SIGNED")
  <2>1. q # r BY <1>4, <1>6, <1>8 DEF IdleJob
  <2>2. req[q].op = "cancel" BY <1>6, <1>8, <2>1
  <2>3. PICK k : k = [req[q] EXCEPT !.late = (new = "SIGNED")] OBVIOUS
  <2>4. req'[q] = k BY <1>6, <2>1, <2>2, <2>3
  <2>5. k.pc = "write" /\ k.signer = req[q].signer BY <1>5, <2>2, <2>3
  <2>6. k.late = (new = "SIGNED") BY <1>5, <2>2, <2>3
  <2> QED BY <2>2, <2>4, <2>5, <2>6
<1>9. ASSUME NEW q \in Requests, req'[q].op # "cancel", q # r PROVE req'[q] = req[q]
  <2>1. req[q].op # "cancel" BY <1>5, <1>6, <1>9
  <2> QED BY <1>6, <1>9, <2>1
<1>10. doc.version > 0 BY <1>0, <1>2 DEF HandlersKnow
<1>11. (\A q \in Requests : MakingOf(q)') /\ FilesApart' /\ RowsInOrder'
  <2>1. ASSUME NEW q \in Requests, req'[q].op \in {"version", "signed"} PROVE GoesOn(q)
    <3>1. CASE q = r
      <4>1. new = "SIGNED" BY <1>4, <1>6, <2>1, <3>1 DEF IdleJob
      <4> QED BY <1>1, <1>2, <1>4, <1>6, <3>1, <4>1 DEF GoesOn
    <3>2. CASE q # r
      <4>1. req'[q] = req[q] BY <1>9, <2>1, <3>2
      <4> QED BY <4>1 DEF GoesOn
    <3> QED BY <3>1, <3>2
  <2>2. ASSUME NEW q \in Requests, Versioning(q), req[q].pc = "update" PROVE req'[q] = req[q]
    <3>1. q # r /\ req[q].op # "cancel" BY <1>2, <2>2 DEF Versioning
    <3> QED BY <1>6, <3>1
  <2> QED BY <1>0, <1>2, <2>1, <2>2, AsideKeepsVersions
<1>12. UploadFirst'
  <2>1. \A q \in Requests : req'[q].op = "upload" => req'[q] = req[q]
    BY <1>4, <1>6, <1>9 DEF IdleJob
  <2>2. doc.version \in Nat BY <1>0 DEF HandlersKnow
  <2> QED BY <1>0, <1>2, <1>10, <2>1, <2>2, UploadStaysFirst
<1>13. CopyComing'
  <2>1. ASSUME NEW s \in Signers, signature'[s] = "SIGNED" PROVE new = "SIGNED"
    <3>1. "SIGNED" # None BY DocumentBoundsOK DEF SignatureStatus
    <3> QED BY <1>2, <2>1, <3>1
  <2>2. new = "SIGNED" => req'[r].op = "signed" /\ Versioning(r)' /\ req'[r].pc = "put"
    BY <1>4, <1>6 DEF Versioning, Makes
  <2> QED BY <2>1, <2>2 DEF CopyComing
<1>14. CancelsLate' BY <1>2, <1>8 DEF CancelsLate
<1>15. SignedUnlessMissed' BY <1>2 DEF SignedUnlessMissed
<1>16. DocumentsTypeOK'
  <2>1. \A q \in Requests : req'[q].pc \in {"insert", "update"} => req'[q].file \in 1..stored'
    <3>1. ASSUME NEW q \in Requests, req'[q].pc \in {"insert", "update"} PROVE req'[q] = req[q]
      <4>1. q # r BY <1>4, <1>6, <3>1 DEF IdleJob
      <4>2. req'[q].op # "cancel" BY <1>8, <3>1
      <4> QED BY <1>9, <4>1, <4>2
    <3> QED BY <1>0, <1>2, <3>1 DEF DocumentsTypeOK
  <2>2. \A q \in Requests : Doing(q, "unlink", "write")' => linked'
    <3>1. ASSUME NEW q \in Requests, Doing(q, "unlink", "write")' PROVE linked'
      <4>1. q # r /\ req'[q].op # "cancel" BY <1>4, <1>6, <3>1 DEF Doing, IdleJob
      <4>2. Doing(q, "unlink", "write") BY <1>9, <3>1, <4>1 DEF Doing
      <4> QED BY <1>0, <1>2, <4>2 DEF HandlersKnow
    <3> QED BY <3>1
  <2>3. signature' \in [Signers -> SignatureStatus \cup {None}] BY <1>2, <1>3
  <2>4. ASSUME NEW q \in Requests, req'[q].op = "cancel"
        PROVE  signature'[req'[q].signer] # None
    <3>1. req[q].op = "cancel" /\ req'[q].signer = req[q].signer BY <1>8, <2>4
    <3>2. req[q] \in CancelJob BY <1>0, <3>1, DocumentJobs DEF HandlersKnow
    <3>3. req[q].signer \in Signers /\ signature[req[q].signer] # None
      BY <1>0, <3>1, <3>2 DEF CancelJob, DocumentsTypeOK
    <3>4. new # None BY <1>3, DocumentBoundsOK
    <3> QED BY <1>2, <3>1, <3>3, <3>4
  <2> QED BY <1>0, <1>2, <1>3, <1>7, <2>1, <2>2, <2>3, <2>4 DEF DocumentsTypeOK, DocumentJob, Doing
<1> QED BY <1>11, <1>12, <1>13, <1>14, <1>15, <1>16 DEF DocumentsInv

(* Every step of the document and signature services. *)
LEMMA DocumentsSteps ==
  /\ DocumentsInit => DocumentsInv
  /\ DocumentsInv /\ [DocumentsNext]_<<req, docVars>> => DocumentsInv'
<1>1. DocumentsInit => DocumentsInv
  <2> SUFFICES ASSUME DocumentsInit PROVE DocumentsInv
    OBVIOUS
  <2>1. \A q \in Requests : req[q] = IdleJob BY DEF DocumentsInit
  <2>2. \A q \in Requests : req[q].op = "none" /\ req[q].pc = "idle" BY <2>1 DEF IdleJob
  <2>3. DocumentsTypeOK
    <3>1. Cardinality({} \cap Final) <= 1 BY FS_EmptySet
    <3>2. 0 \in 0..MaxVersion /\ 0 \in 0..MaxFiles BY DocumentBoundsOK
    <3>3. req \in [Requests -> {IdleJob}] BY DEF DocumentsInit
    <3>4. /\ doc \in [version : 0..MaxVersion, file : Files \cup {None}, deleted : BOOLEAN]
          /\ ~(doc.version > 0) /\ stored \in 0..MaxFiles
      BY <3>2 DEF DocumentsInit
    <3>5. said \subseteq Words /\ Cardinality(said \cap Final) <= 1 BY <3>1 DEF DocumentsInit
    <3> QED BY <2>2, <3>3, <3>4, <3>5 DEF DocumentsInit, DocumentsTypeOK, Doing
  <2>4. UploadFirst /\ (\A q \in Requests : MakingOf(q)) /\ FilesApart
    BY <2>2 DEF DocumentsInit, UploadFirst, MakingOf, FilesApart, Versioning, Doing
  <2>5. RowsInOrder
    <3>1. \A v \in Later : ~(v <= 0) /\ v # 0 BY DocumentBoundsOK DEF Later
    <3> QED BY <3>1 DEF DocumentsInit, RowsInOrder
  <2>6. CopyComing /\ CancelsLate /\ SignedUnlessMissed
    BY DocumentBoundsOK DEF DocumentsInit, CopyComing, CancelsLate, SignedUnlessMissed, SignatureStatus
  <2> QED BY <2>3, <2>4, <2>5, <2>6 DEF DocumentsInv
<1>2. DocumentsInv /\ [DocumentsNext]_<<req, docVars>> => DocumentsInv'
  <2> SUFFICES ASSUME DocumentsInv, [DocumentsNext]_<<req, docVars>> PROVE DocumentsInv'
    OBVIOUS
  <2>1. CASE UNCHANGED <<req, docVars>>
    <3>1. UNCHANGED <<req, doc, stored, version, linked, envelope, said, signature, word, missed,
                      copies, refused, dropped>>
      BY <2>1 DEF docVars, docHistory
    <3>2. DocumentsTypeOK' BY <3>1 DEF DocumentsInv, DocumentsTypeOK, Doing
    <3>3. UploadFirst' /\ FilesApart' /\ RowsInOrder'
      BY <3>1 DEF DocumentsInv, UploadFirst, FilesApart, RowsInOrder, Versioning, Makes, Doing
    <3>4. \A q \in Requests : MakingOf(q)'
      BY <3>1 DEF DocumentsInv, MakingOf, Versioning, Makes
    <3>5. CopyComing' /\ CancelsLate' /\ SignedUnlessMissed'
      BY <3>1 DEF DocumentsInv, CopyComing, CancelsLate, SignedUnlessMissed, Versioning, Makes
    <3> QED BY <3>2, <3>3, <3>4, <3>5 DEF DocumentsInv
  <2>2. ASSUME NEW r \in Requests, DocumentStep(r) PROVE DocumentsInv'
    BY <2>2, UploadPutPreserves, UploadRowPreserves, StartPreserves, PutFilePreserves,
       InsertVersionPreserves, UpdateDocumentPreserves, LinksPreserve DEF DocumentStep
  <2>3. ASSUME NEW r \in Requests, SignatureStep(r) PROVE DocumentsInv'
    BY <2>3, LinksPreserve, RowsPreserve, StartPreserves, WriteStatusPreserves DEF SignatureStep
  <2> QED BY <2>1, <2>2, <2>3, RowsPreserve, ReportPreserves DEF DocumentsNext
<1> QED BY <1>1, <1>2

(* The handlers keep to their invariant. *)
THEOREM DocumentsInductive == DocumentsSpec => []DocumentsInv
BY DocumentsSteps, PTL DEF DocumentsSpec

(* Documents, files, signatures and handlers have their types. *)
THEOREM DocumentsTypeCorrect == DocumentsSpec => []DocumentsTypeOK
<1>1. DocumentsInv => DocumentsTypeOK BY DEF DocumentsInv
<1> QED BY <1>1, DocumentsInductive, PTL

(* The versions of a document are numbered without holes up to its current  *)
(* one; one more row is that of exactly one handler on its way to the       *)
(* document, or of one that died there.                                     *)
THEOREM VersionsAreSound == DocumentsSpec => []VersionsSound
<1>1. DocumentsInv => VersionsSound
  <2> SUFFICES ASSUME DocumentsInv PROVE VersionsSound
    OBVIOUS
  <2>1. RowsInOrder /\ FilesApart /\ (\A q \in Requests : MakingOf(q)) BY DEF DocumentsInv
  <2>2. ASSUME NEW v \in Later, v = doc.version + 1, version[v] # None, "update" \notin dropped
        PROVE  Cardinality(Updating(v)) = 1
    <3>1. PICK r \in Requests : Versioning(r) /\ req[r].pc = "update"
      BY <2>1, <2>2 DEF RowsInOrder
    <3>2. \A q \in Requests : Versioning(q) /\ req[q].pc = "update" =>
            req[q].number = v /\ req[q].file = version[v]
      BY <2>1, <2>2 DEF MakingOf
    <3>3. \A q \in Requests : Versioning(q) /\ req[q].pc = "update" => q = r
      BY <2>1, <3>1, <3>2 DEF FilesApart
    <3>4. Updating(v) = {r} BY <3>1, <3>2, <3>3 DEF Updating
    <3> QED BY <3>4, FS_Singleton
  <2> QED BY <2>1, <2>2 DEF VersionsSound, RowsInOrder
<1> QED BY <1>1, DocumentsInductive, PTL

(* Whatever overlaps, is repeated or dies, a signed request has its copy or *)
(* a refusal or failure that explains why not, and a row disagrees with the *)
(* provider's word only when it missed the signing.                         *)
THEOREM SignaturesAreSound == DocumentsSpec => []SignaturesSound
<1>1. DocumentsInv => SignaturesSound
  BY DEF DocumentsInv, SignaturesSound, SignedHasCopy, CopyComing
<1> QED BY <1>1, DocumentsInductive, PTL

-----------------------------------------------------------------------------
OutsideInv ==
  /\ part \in Parts
  /\ part = "documents" => DocumentsInv
  /\ part = "leads" => LeadsInv
  /\ part = "stamping" => StampingInv

(* The parts side by side: each keeps its types as it does alone.           *)
THEOREM OutsideTypeCorrect == OutsideSpec => []OutsideTypeOK
<1>1. OutsideInit => OutsideInv
  BY StampingSteps, LeadsSteps, DocumentsSteps DEF OutsideInit, OutsideInv
<1>2. OutsideInv /\ [OutsideNext]_outsideVars => OutsideInv'
  <2> SUFFICES ASSUME OutsideInv, [OutsideNext]_outsideVars PROVE OutsideInv'
    OBVIOUS
  <2>1. part' = part BY DEF OutsideNext, outsideVars
  <2>2. part = "documents" => [DocumentsNext]_<<req, docVars>> BY DEF OutsideNext, outsideVars
  <2>3. part = "leads" => [LeadsNext]_<<req, leadVars>> BY DEF OutsideNext, outsideVars
  <2>4. part = "stamping" => [StampingNext]_<<req, stampVars>> BY DEF OutsideNext, outsideVars
  <2> QED
    BY <2>1, <2>2, <2>3, <2>4, StampingSteps, LeadsSteps, DocumentsSteps DEF OutsideInv
<1>3. OutsideInv => OutsideTypeOK
  BY DEF OutsideInv, OutsideTypeOK, Parts, DocumentsInv, LeadsInv, StampingInv
<1> QED BY <1>1, <1>2, <1>3, PTL DEF OutsideSpec
=============================================================================
