----------------------------- MODULE CaseProofs -----------------------------
(* What holds of every case however many requests work on it at once.      *)
EXTENDS CaseLifecycle, TLAPS

(* Beyond the properties: a status change about to be written follows a     *)
(* status the case has had, though perhaps not the one it has now.          *)
PendingJustified ==
  \A r \in Requests :
    Doing(r, "write", "updateStatus") =>
      \E p \in entered : req[r].call.to \in StatusTransitions[p]

IInv == TypeOK /\ AnswersWereTrue /\ EveryStatusJustified /\ PendingJustified

(* The transition table maps statuses to sets of statuses. *)
LEMMA TableTyped ==
  /\ StatusTransitions \in [CaseStatus -> SUBSET CaseStatus]
  /\ \A s \in CaseStatus : StatusTransitions[s] \subseteq CaseStatus
BY DEF StatusTransitions, CaseStatus

(* A handler that goes on after findOne answered s has been accepted in s. *)
LEMMA ProceedStep ==
  ASSUME TypeOK, NEW r \in Requests, NEW call \in Call, NEW s \in CaseStatus,
         Proceed(r, call, s)
  PROVE  /\ req' \in [Requests -> {IdleJob} \cup Job]
         /\ \A q \in Requests \ {r} : req'[q] = req[q]
         /\ \/ req'[r] = IdleJob
            \/ Accepts(call, s) /\ req'[r] = [pc |-> "write", call |-> call]
BY DEF TypeOK, Proceed, Goto, Finish, Job

(* getOrSet leaves the handler done, at its query, or accepted in the       *)
(* cached status.                                                           *)
LEMMA LookupStep ==
  ASSUME TypeOK, NEW r \in Requests, NEW call \in Call, Lookup(r, call)
  PROVE  /\ req' \in [Requests -> {IdleJob} \cup Job]
         /\ \A q \in Requests \ {r} : req'[q] = req[q]
         /\ \/ req'[r] = IdleJob
            \/ req'[r] = [pc |-> "query", call |-> call]
            \/ /\ cache # None /\ Accepts(call, cache)
               /\ req'[r] = [pc |-> "write", call |-> call]
<1>1. CASE cache # None
  <2>1. cache \in CaseStatus BY <1>1 DEF TypeOK
  <2>2. Proceed(r, call, cache) BY <1>1 DEF Lookup
  <2> QED BY <1>1, <2>1, <2>2, ProceedStep
<1>2. CASE cache = None
  BY <1>2 DEF Lookup, Goto, TypeOK, Job
<1> QED BY <1>1, <1>2

(* An accepted operation is not a view, and an accepted change of status    *)
(* follows the table.                                                       *)
LEMMA AcceptedCall ==
  ASSUME NEW call, NEW s, Accepts(call, s)
  PROVE  /\ call.op # "view"
         /\ call.op = "updateStatus" => call.to \in StatusTransitions[s]
BY DEF Accepts

(* A step that changes no row and no cache, and leaves one handler done, at *)
(* a read, or at an accepted write, preserves the invariant.                *)
LEMMA HandlerMoves ==
  ASSUME IInv, NEW r \in Requests, NEW call \in Call, NEW s \in entered,
         UNCHANGED <<status, deleted, entered>>,
         cache' \in {cache, s},
         overtaken' \subseteq Requests,
         aged' \in {"no", "left", "late"}, cache' = None => aged' = "no",
         req' \in [Requests -> {IdleJob} \cup Job],
         \A q \in Requests \ {r} : req'[q] = req[q],
         \/ req'[r] = IdleJob
         \/ req'[r] = [pc |-> "get", call |-> call]
         \/ req'[r] = [pc |-> "query", call |-> call]
         \/ req'[r] = [pc |-> "set", call |-> call, got |-> s]
         \/ Accepts(call, s) /\ req'[r] = [pc |-> "write", call |-> call]
  PROVE  IInv'
<1> USE DEF IInv
<1>1. TypeOK'
  <2>1. cache' \in CaseStatus \cup {None} BY DEF TypeOK
  <2>2. \A q \in Requests : req'[q].pc = "write" => req'[q].call.op # "view"
    BY AcceptedCall DEF TypeOK, IdleJob
  <2> QED BY <2>1, <2>2 DEF TypeOK
<1>2. AnswersWereTrue'
  BY DEF AnswersWereTrue, At, IdleJob
<1>3. EveryStatusJustified'
  BY DEF EveryStatusJustified
<1>4. PendingJustified'
  BY AcceptedCall DEF PendingJustified, Doing, At, IdleJob
<1> QED BY <1>1, <1>2, <1>3, <1>4

(* findOne's first half, at the start of a request or at its end. *)
LEMMA LookupPreserves ==
  ASSUME IInv, NEW r \in Requests, NEW call \in Call, Lookup(r, call)
  PROVE  IInv'
<1> USE DEF IInv
<1>1. /\ UNCHANGED <<status, deleted, entered, cache, aged>>
      /\ overtaken' \subseteq Requests
      /\ aged' \in {"no", "left", "late"} /\ (cache' = None => aged' = "no")
  BY DEF Lookup, TypeOK
<1>2. /\ req' \in [Requests -> {IdleJob} \cup Job]
      /\ \A q \in Requests \ {r} : req'[q] = req[q]
      /\ \/ req'[r] = IdleJob
         \/ req'[r] = [pc |-> "query", call |-> call]
         \/ /\ cache # None /\ Accepts(call, cache)
            /\ req'[r] = [pc |-> "write", call |-> call]
  BY LookupStep
<1>3. PICK s \in entered : cache # None => s = cache
  BY DEF AnswersWereTrue
<1> QED BY <1>1, <1>2, <1>3, HandlerMoves

(* The histories keep their types when a write overtakes the others. *)
LEMMA OvertakeStep ==
  ASSUME TypeOK, NEW r \in Requests, UNCHANGED cache, Overtake(r)
  PROVE  /\ overtaken' \subseteq Requests
         /\ aged' \in {"no", "left", "late"} /\ (cache' = None => aged' = "no")
         /\ overtaken \subseteq overtaken'
BY DEF Overtake, TypeOK

(* The call of a handler at work is a call, and what its query answered is  *)
(* a status.                                                                *)
LEMMA JobTyped ==
  ASSUME TypeOK, NEW r \in Requests, ~At(r, "idle")
  PROVE  /\ req[r] \in Job /\ req[r].call \in Call
         /\ At(r, "set") => req[r].got \in CaseStatus
BY DEF TypeOK, At, IdleJob, Job

LEMMA ViewCall == [op |-> "view", to |-> None, admin |-> FALSE] \in Call
BY DEF Call, Ops

(* The invariant of one case: see PendingJustified for what it adds.        *)
THEOREM Inductive == Spec => []IInv
<1>1. Init => IInv
  <2> SUFFICES ASSUME Init PROVE IInv
    OBVIOUS
  <2>1. \A r \in Requests : req[r].pc = "idle"
    BY DEF Init, IdleJob
  <2>2. req \in [Requests -> {IdleJob} \cup Job]
    BY DEF Init
  <2>3. TypeOK
    BY <2>1, <2>2 DEF Init, TypeOK, CaseStatus
  <2>4. AnswersWereTrue /\ EveryStatusJustified /\ PendingJustified
    BY <2>1 DEF Init, AnswersWereTrue, EveryStatusJustified, PendingJustified, Doing, At
  <2> QED BY <2>3, <2>4 DEF IInv
<1>2. IInv /\ [Next]_vars => IInv'
  <2> SUFFICES ASSUME IInv, [Next]_vars PROVE IInv'
    OBVIOUS
  <2>0. TypeOK BY DEF IInv
  <2>1. ASSUME NEW r \in Requests, Begin(r) PROVE IInv'
    BY <2>1, LookupPreserves DEF Begin
  <2>2. ASSUME NEW r \in Requests, Reread(r) PROVE IInv'
    <3>1. req[r].call \in Call BY <2>0, <2>2, JobTyped DEF Reread, At
    <3> QED BY <2>2, <3>1, LookupPreserves DEF Reread
  <2>3. ASSUME NEW r \in Requests, Query(r) PROVE IInv'
    <3>1. req[r].call \in Call /\ req[r] \in Job
      BY <2>0, <2>3, JobTyped DEF Query, At
    <3>2. status \in entered /\ status \in CaseStatus
      BY DEF IInv, AnswersWereTrue, TypeOK
    <3>3. /\ UNCHANGED <<status, deleted, entered, cache>>
          /\ overtaken' \subseteq Requests
          /\ aged' \in {"no", "left", "late"} /\ (cache' = None => aged' = "no")
      BY <2>0, <2>3 DEF Query, TypeOK
    <3>4. CASE deleted
      <4>1. req' = [req EXCEPT ![r] = IdleJob] BY <2>3, <3>4 DEF Query, Finish
      <4>2. req' \in [Requests -> {IdleJob} \cup Job] BY <2>0, <4>1 DEF TypeOK
      <4>3. req'[r] = IdleJob /\ \A q \in Requests \ {r} : req'[q] = req[q]
        BY <2>0, <4>1 DEF TypeOK
      <4> QED BY <3>1, <3>2, <3>3, <4>2, <4>3, HandlerMoves
    <3>5. CASE ~deleted
      <4> DEFINE j == [pc |-> "set", call |-> req[r].call, got |-> status]
      <4>1. req' = [req EXCEPT ![r] = j] BY <2>3, <3>5 DEF Query
      <4>2. j \in Job BY <3>1, <3>2 DEF Job
      <4>3. req' \in [Requests -> {IdleJob} \cup Job] BY <2>0, <4>1, <4>2 DEF TypeOK
      <4>4. req'[r] = j /\ \A q \in Requests \ {r} : req'[q] = req[q]
        BY <2>0, <4>1 DEF TypeOK
      <4> QED BY <3>1, <3>2, <3>3, <4>3, <4>4, HandlerMoves
    <3> QED BY <3>4, <3>5
  <2>4. ASSUME NEW r \in Requests, CacheSet(r) PROVE IInv'
    <3>1. req[r].call \in Call /\ req[r].got \in CaseStatus /\ At(r, "set")
      BY <2>0, <2>4, JobTyped DEF CacheSet, At
    <3>2. req[r].got \in entered
      BY <3>1 DEF IInv, AnswersWereTrue
    <3>3. Proceed(r, req[r].call, req[r].got) BY <2>4 DEF CacheSet
    <3>4. /\ UNCHANGED <<status, deleted, entered>> /\ cache' = req[r].got
          /\ overtaken' \subseteq Requests
          /\ aged' \in {"no", "left", "late"} /\ (cache' = None => aged' = "no")
      BY <2>0, <2>4, <3>1, NoneOK DEF CacheSet, TypeOK
    <3>5. /\ req' \in [Requests -> {IdleJob} \cup Job]
          /\ \A q \in Requests \ {r} : req'[q] = req[q]
          /\ \/ req'[r] = IdleJob
             \/ /\ Accepts(req[r].call, req[r].got)
                /\ req'[r] = [pc |-> "write", call |-> req[r].call]
      BY <2>0, <3>1, <3>3, ProceedStep
    <3> QED BY <3>1, <3>2, <3>4, <3>5, HandlerMoves
  <2>5. ASSUME NEW r \in Requests, UpdateWrite(r) PROVE IInv'
    <3>1. req[r] \in Job /\ req[r].call \in Call
      BY <2>0, <2>5, JobTyped DEF UpdateWrite, Doing, At
    <3>2. req' = [req EXCEPT ![r] = [pc |-> "del", call |-> req[r].call]]
      BY <2>5 DEF UpdateWrite, Goto
    <3>3. UNCHANGED <<status, deleted, entered, cache, overtaken, aged>> BY <2>5 DEF UpdateWrite
    <3> QED BY <3>1, <3>2, <3>3
            DEF IInv, TypeOK, AnswersWereTrue, EveryStatusJustified, PendingJustified,
                Doing, At, Job
  <2>6. ASSUME NEW r \in Requests, RecordWrite(r) PROVE IInv'
    <3>1. req' = [req EXCEPT ![r] = IdleJob]
      BY <2>6 DEF RecordWrite, Finish
    <3>2. UNCHANGED <<status, deleted, entered, cache, overtaken, aged>> BY <2>6 DEF RecordWrite
    <3> QED BY <3>1, <3>2
            DEF IInv, TypeOK, AnswersWereTrue, EveryStatusJustified, PendingJustified,
                Doing, At, IdleJob
  <2>7. ASSUME NEW r \in Requests, RemoveWrite(r) PROVE IInv'
    <3>1. req[r] \in Job /\ req[r].call \in Call
      BY <2>0, <2>7, JobTyped DEF RemoveWrite, Doing, At
    <3>2. req' = [req EXCEPT ![r] = [pc |-> "del", call |-> req[r].call]]
      BY <2>7 DEF RemoveWrite, Goto
    <3>3. UNCHANGED <<status, entered, cache>> /\ deleted' = TRUE
      BY <2>7 DEF RemoveWrite
    <3>4. /\ overtaken' \subseteq Requests
          /\ aged' \in {"no", "left", "late"} /\ (cache' = None => aged' = "no")
      BY <2>0, <2>7, OvertakeStep DEF RemoveWrite
    <3> QED BY <3>1, <3>2, <3>3, <3>4
            DEF IInv, TypeOK, AnswersWereTrue, EveryStatusJustified, PendingJustified,
                Doing, At, Job
  <2>8. ASSUME NEW r \in Requests, StatusWrite(r) PROVE IInv'
    <3> DEFINE to == req[r].call.to
               view == [pc |-> "get", call |-> [op |-> "view", to |-> None, admin |-> FALSE]]
    <3>1. PICK p \in entered : to \in StatusTransitions[p]
      BY <2>8 DEF StatusWrite, IInv, PendingJustified
    <3>2. p \in CaseStatus /\ to \in CaseStatus
      BY <3>1, TableTyped DEF IInv, TypeOK
    <3>3. /\ status' = to /\ entered' = entered \cup {to}
          /\ UNCHANGED <<deleted, cache>>
          /\ req' = [req EXCEPT ![r] = view]
      BY <2>8 DEF StatusWrite, ThenView, Goto
    <3>4. view \in Job BY ViewCall DEF Job
    <3> HIDE DEF to, view
    <3>5. TypeOK'
      <4>1. req' \in [Requests -> {IdleJob} \cup Job] BY <2>0, <3>3, <3>4 DEF TypeOK
      <4>2. \A q \in Requests : req'[q].pc = "write" => req'[q].call.op # "view"
        BY <2>0, <3>3 DEF TypeOK, view
      <4>3. /\ overtaken' \subseteq Requests
            /\ aged' \in {"no", "left", "late"} /\ (cache' = None => aged' = "no")
        BY <2>0, <2>8, OvertakeStep DEF StatusWrite
      <4> QED BY <2>0, <3>2, <3>3, <4>1, <4>2, <4>3 DEF TypeOK
    <3>6. AnswersWereTrue'
      BY <2>0, <3>3 DEF IInv, TypeOK, AnswersWereTrue, At, view
    <3>7. EveryStatusJustified'
      BY <3>1, <3>3 DEF IInv, EveryStatusJustified
    <3>8. PendingJustified'
      BY <2>0, <3>3 DEF IInv, TypeOK, PendingJustified, Doing, At, view
    <3> QED BY <3>5, <3>6, <3>7, <3>8 DEF IInv
  <2>9. ASSUME NEW r \in Requests, CacheDel(r) PROVE IInv'
    <3> DEFINE view == [pc |-> "get", call |-> [op |-> "view", to |-> None, admin |-> FALSE]]
    <3>1. view \in Job BY ViewCall DEF Job
    <3>2. /\ UNCHANGED <<status, deleted, entered>> /\ cache' = None
          /\ aged' = "no" /\ UNCHANGED overtaken
          /\ \/ req' = [req EXCEPT ![r] = view]
             \/ req' = [req EXCEPT ![r] = IdleJob]
      BY <2>9 DEF CacheDel, ThenView, Goto, Finish
    <3>3. req' \in [Requests -> {IdleJob} \cup Job]
      BY <2>0, <3>1, <3>2 DEF TypeOK
    <3>4. /\ req'[r].pc \in {"get", "idle"}
          /\ \A q \in Requests \ {r} : req'[q] = req[q]
      BY <2>0, <3>2 DEF TypeOK, IdleJob
    <3> QED BY <3>2, <3>3, <3>4
            DEF IInv, TypeOK, AnswersWereTrue, EveryStatusJustified, PendingJustified,
                Doing, At
  <2>10. CASE Expire
    BY <2>10 DEF Expire, IInv, TypeOK, AnswersWereTrue, EveryStatusJustified,
                 PendingJustified, Doing, At
  <2>11. CASE Restart
    BY <2>11 DEF Restart, IInv, TypeOK, AnswersWereTrue, EveryStatusJustified,
                 PendingJustified, Doing, At, IdleJob
  <2>12. CASE UNCHANGED vars
    BY <2>12 DEF vars, IInv, TypeOK, AnswersWereTrue, EveryStatusJustified,
                 PendingJustified, Doing, At
  <2> QED BY <2>1, <2>2, <2>3, <2>4, <2>5, <2>6, <2>7, <2>8, <2>9, <2>10, <2>11, <2>12
          DEF Next, Step
<1> QED BY <1>1, <1>2, PTL DEF Spec

(* The variables of a case have their types, and no view reaches a write. *)
THEOREM TypeCorrect == Spec => []TypeOK
<1>1. IInv => TypeOK BY DEF IInv
<1> QED BY <1>1, Inductive, PTL

(* However stale findOne's answers, every status follows one the case had. *)
THEOREM StatusesJustified == Spec => []EveryStatusJustified
<1>1. IInv => EveryStatusJustified BY DEF IInv
<1> QED BY <1>1, Inductive, PTL

(* findOne never answers with a status that was never written. *)
THEOREM AnswersTrue == Spec => []AnswersWereTrue
<1>1. IInv => AnswersWereTrue BY DEF IInv
<1> QED BY <1>1, Inductive, PTL

(* A deleted case that the cache and the handlers have forgotten stays gone *)
(* and unchanged: no handler's late answer brings it back.                  *)
THEOREM DeletedStaysGone == Spec => DeletedIsGone
<1>1. IInv /\ [Next]_vars => [Forgotten => Forgotten' /\ UNCHANGED status]_vars
  <2> SUFFICES ASSUME IInv, Next, Forgotten PROVE Forgotten' /\ UNCHANGED status
    BY DEF vars
  <2>0. TypeOK BY DEF IInv
  <2>1. ASSUME NEW r \in Requests, NEW call \in Call, Lookup(r, call)
        PROVE  Forgotten' /\ UNCHANGED status
    BY <2>0, <2>1 DEF Lookup, Goto, Forgotten, TypeOK
  <2>2. ASSUME NEW r \in Requests, Begin(r) PROVE Forgotten' /\ UNCHANGED status
    BY <2>1, <2>2 DEF Begin
  <2>3. ASSUME NEW r \in Requests, Reread(r) PROVE Forgotten' /\ UNCHANGED status
    <3>1. req[r].call \in Call BY <2>0, <2>3, JobTyped DEF Reread, At
    <3> QED BY <2>1, <2>3, <3>1 DEF Reread
  <2>4. ASSUME NEW r \in Requests, Query(r) PROVE Forgotten' /\ UNCHANGED status
    BY <2>0, <2>4 DEF Query, Finish, Forgotten, TypeOK, IdleJob
  <2>5. ASSUME NEW r \in Requests,
               \/ CacheSet(r) \/ CacheDel(r) \/ UpdateWrite(r)
               \/ RecordWrite(r) \/ RemoveWrite(r) \/ StatusWrite(r)
        PROVE  FALSE
    BY <2>5 DEF CacheSet, CacheDel, UpdateWrite, RecordWrite, RemoveWrite, StatusWrite,
                Doing, At, Forgotten
  <2>6. CASE Expire
    BY <2>6 DEF Expire, Forgotten
  <2>7. CASE Restart
    BY <2>7 DEF Restart, Forgotten, IdleJob
  <2> QED BY <2>2, <2>3, <2>4, <2>5, <2>6, <2>7 DEF Next, Step
<1> QED BY <1>1, Inductive, PTL DEF Spec, DeletedIsGone

(* The answers in flight are those of the row, unless it was overtaken:     *)
(* what a fill is about to store, a write is about to rest on and the cache *)
(* will answer.                                                             *)
FillsAreCurrent ==
  \A r \in Requests \ overtaken : At(r, "set") => req[r].got = status /\ ~deleted

CurrentInv == WritesAreCurrent /\ CacheExplained /\ FillsAreCurrent

(* An operation accepted in the row's own status may write.                 *)
LEMMA AcceptedIsCurrent ==
  ASSUME NEW call, NEW s, Accepts(call, s)
  PROVE  /\ call.op \in {"update", "record"} => s \notin Frozen
         /\ call.op = "updateStatus" => call.to \in StatusTransitions[s]
BY DEF Accepts

(* A step of r that leaves the row alone keeps the answers of the others.   *)
LEMMA OthersStayCurrent ==
  ASSUME TypeOK, CurrentInv, NEW r \in Requests,
         UNCHANGED <<status, deleted>>,
         overtaken \ {r} \subseteq overtaken',
         \A q \in Requests \ {r} : req'[q] = req[q],
         At(r, "write")' /\ r \notin overtaken' =>
            ~deleted /\ Accepts(req'[r].call, status),
         At(r, "set")' /\ r \notin overtaken' => req'[r].got = status /\ ~deleted
  PROVE  WritesAreCurrent' /\ FillsAreCurrent'
<1>1. ASSUME NEW q \in Requests \ overtaken', q # r
      PROVE  q \in Requests \ overtaken /\ req'[q] = req[q]
  BY <1>1
<1>2. WritesAreCurrent'
  BY <1>1, AcceptedIsCurrent DEF CurrentInv, WritesAreCurrent, At
<1>3. FillsAreCurrent'
  BY <1>1 DEF CurrentInv, FillsAreCurrent, At
<1> QED BY <1>2, <1>3

(* The entry stays explained while neither it nor the row changes and no    *)
(* removal ends.                                                            *)
LEMMA EntryStays ==
  ASSUME TypeOK, CacheExplained, NEW r \in Requests, ~Doing(r, "del", "remove"),
         UNCHANGED <<status, deleted, cache, aged>>,
         \A q \in Requests \ {r} : req'[q] = req[q]
  PROVE  CacheExplained'
BY DEF CacheExplained, Doing, At

(* A handler that looks the case up is given the row, or an overtaken entry. *)
LEMMA LookupKeepsCurrent ==
  ASSUME TypeOK, CurrentInv, NEW r \in Requests, NEW call \in Call, Lookup(r, call),
         ~Doing(r, "del", "remove")
  PROVE  CurrentInv'
<1>1. UNCHANGED <<status, deleted, entered, cache, aged>> BY DEF Lookup
<1>2. /\ \A q \in Requests \ {r} : req'[q] = req[q]
      /\ \/ req'[r] = IdleJob
         \/ req'[r] = [pc |-> "query", call |-> call]
         \/ /\ cache # None /\ Accepts(call, cache)
            /\ req'[r] = [pc |-> "write", call |-> call]
  BY LookupStep
<1>3. /\ overtaken \ {r} \subseteq overtaken'
      /\ r \notin overtaken' => aged = "no"
  BY DEF Lookup, TypeOK
<1>4. At(r, "write")' /\ r \notin overtaken' => ~deleted /\ Accepts(req'[r].call, status)
  BY <1>2, <1>3 DEF At, IdleJob, CurrentInv, CacheExplained
<1>5. ~At(r, "set")'
  BY <1>2 DEF At, IdleJob
<1>6. WritesAreCurrent' /\ FillsAreCurrent'
  BY <1>1, <1>2, <1>3, <1>4, <1>5, OthersStayCurrent
<1>7. CacheExplained'
  BY <1>1, <1>2, EntryStays DEF CurrentInv
<1> QED BY <1>6, <1>7 DEF CurrentInv

(* After a write that changes the row every other answer is overtaken.      *)
LEMMA OvertakeKeepsCurrent ==
  ASSUME TypeOK, CurrentInv, NEW r \in Requests, Overtake(r), UNCHANGED cache,
         At(r, "write"),
         \A q \in Requests \ {r} : req'[q] = req[q],
         ~At(r, "write")', ~At(r, "set")',
         deleted' # deleted => Doing(r, "del", "remove")',
         deleted => deleted'
  PROVE  CurrentInv'
<1>0. ~Doing(r, "del", "remove") BY DEF Doing, At
<1>1. CASE UNCHANGED <<status, deleted>>
  <2>1. UNCHANGED <<overtaken, aged>> BY <1>1 DEF Overtake
  <2>2. WritesAreCurrent' /\ FillsAreCurrent'
    BY <1>1, <2>1, OthersStayCurrent
  <2>3. CacheExplained' BY <1>0, <1>1, <2>1, EntryStays DEF CurrentInv
  <2> QED BY <2>2, <2>3 DEF CurrentInv
<1>2. CASE ~UNCHANGED <<status, deleted>>
  <2>1. /\ overtaken' = overtaken \cup
                          {q \in Requests \ {r} : At(q, "set") \/ At(q, "write")}
        /\ aged' = IF cache # None /\ aged = "no" THEN "left" ELSE aged
    BY <1>2 DEF Overtake
  <2>2. WritesAreCurrent' /\ FillsAreCurrent'
    BY <2>1 DEF WritesAreCurrent, FillsAreCurrent, At
  <2>3. CacheExplained'
    <3>1. cache' # None => aged' # "no" BY <2>1
    <3>2. ASSUME deleted, cache' # None, aged' # "late"
          PROVE  \E q \in Requests : Doing(q, "del", "remove")'
      <4>1. aged # "late" BY <2>1, <3>2
      <4>2. PICK q \in Requests : Doing(q, "del", "remove")
        BY <3>2, <4>1 DEF CurrentInv, CacheExplained
      <4>3. q # r BY <1>0, <4>2
      <4> QED BY <4>2, <4>3 DEF Doing, At
    <3> QED BY <3>1, <3>2 DEF CacheExplained, TypeOK
  <2> QED BY <2>2, <2>3 DEF CurrentInv
<1> QED BY <1>1, <1>2

(* The answers in flight and in the cache are the row, or overtaken. *)
THEOREM AnswersAreCurrent == Spec => []CurrentInv
<1>1. Init => CurrentInv
  BY DEF Init, CurrentInv, WritesAreCurrent, CacheExplained, FillsAreCurrent, At, IdleJob
<1>2. IInv /\ CurrentInv /\ [Next]_vars => CurrentInv'
  <2> SUFFICES ASSUME IInv, CurrentInv, [Next]_vars PROVE CurrentInv'
    OBVIOUS
  <2>0. TypeOK BY DEF IInv
  <2>1. ASSUME NEW r \in Requests, Begin(r) PROVE CurrentInv'
    BY <2>0, <2>1, LookupKeepsCurrent DEF Begin, Doing, At
  <2>2. ASSUME NEW r \in Requests, Reread(r) PROVE CurrentInv'
    <3>1. req[r].call \in Call BY <2>0, <2>2, JobTyped DEF Reread, At
    <3> QED BY <2>0, <2>2, <3>1, LookupKeepsCurrent DEF Reread, Doing, At
  <2>3. ASSUME NEW r \in Requests, Query(r) PROVE CurrentInv'
    <3>1. UNCHANGED <<status, deleted, cache, overtaken, aged>> BY <2>3 DEF Query
    <3>2. /\ \A q \in Requests \ {r} : req'[q] = req[q]
          /\ ~At(r, "write")'
          /\ At(r, "set")' => req'[r].got = status /\ ~deleted
      BY <2>0, <2>3 DEF Query, Finish, TypeOK, At, IdleJob
    <3>3. ~Doing(r, "del", "remove") BY <2>3 DEF Query, Doing, At
    <3>4. WritesAreCurrent' /\ FillsAreCurrent'
      BY <2>0, <3>1, <3>2, OthersStayCurrent
    <3>5. CacheExplained' BY <2>0, <3>1, <3>2, <3>3, EntryStays DEF CurrentInv
    <3> QED BY <3>4, <3>5 DEF CurrentInv
  <2>4. ASSUME NEW r \in Requests, CacheSet(r) PROVE CurrentInv'
    <3>1. req[r].call \in Call /\ req[r].got \in CaseStatus /\ At(r, "set")
      BY <2>0, <2>4, JobTyped DEF CacheSet, At
    <3>2. /\ \A q \in Requests \ {r} : req'[q] = req[q]
          /\ \/ req'[r] = IdleJob
             \/ /\ Accepts(req[r].call, req[r].got)
                /\ req'[r] = [pc |-> "write", call |-> req[r].call]
      BY <2>0, <2>4, <3>1, ProceedStep DEF CacheSet
    <3>3. /\ UNCHANGED <<status, deleted, overtaken>> /\ cache' = req[r].got
          /\ aged' = IF r \in overtaken THEN "late" ELSE "no"
      BY <2>4 DEF CacheSet
    <3>4. r \notin overtaken => req[r].got = status /\ ~deleted
      BY <3>1 DEF CurrentInv, FillsAreCurrent
    <3>5. WritesAreCurrent' /\ FillsAreCurrent'
      <4>1. /\ ~At(r, "set")'
            /\ At(r, "write")' /\ r \notin overtaken' =>
                 ~deleted /\ Accepts(req'[r].call, status)
        BY <3>2, <3>3, <3>4 DEF At, IdleJob
      <4> QED BY <2>0, <3>2, <3>3, <4>1, OthersStayCurrent
    <3>6. CacheExplained'
      BY <3>3, <3>4 DEF CacheExplained
    <3> QED BY <3>5, <3>6 DEF CurrentInv
  <2>5. ASSUME NEW r \in Requests, UpdateWrite(r) \/ RecordWrite(r) PROVE CurrentInv'
    <3>1. UNCHANGED <<status, deleted, cache, overtaken, aged>>
      BY <2>5 DEF UpdateWrite, RecordWrite
    <3>2. /\ \A q \in Requests \ {r} : req'[q] = req[q]
          /\ ~At(r, "write")' /\ ~At(r, "set")'
      BY <2>0, <2>5 DEF UpdateWrite, RecordWrite, Goto, Finish, TypeOK, At, IdleJob
    <3>3. ~Doing(r, "del", "remove")
      BY <2>5 DEF UpdateWrite, RecordWrite, Doing, At
    <3>4. WritesAreCurrent' /\ FillsAreCurrent'
      BY <2>0, <3>1, <3>2, OthersStayCurrent
    <3>5. CacheExplained' BY <2>0, <3>1, <3>2, <3>3, EntryStays DEF CurrentInv
    <3> QED BY <3>4, <3>5 DEF CurrentInv
  <2>6. ASSUME NEW r \in Requests, RemoveWrite(r) PROVE CurrentInv'
    <3>1. /\ \A q \in Requests \ {r} : req'[q] = req[q]
          /\ Doing(r, "del", "remove")'
      BY <2>0, <2>6 DEF RemoveWrite, Goto, TypeOK, Doing, At
    <3>2. At(r, "write") /\ deleted' = TRUE /\ UNCHANGED cache /\ Overtake(r)
      BY <2>6 DEF RemoveWrite, Doing
    <3>3. ~At(r, "write")' /\ ~At(r, "set")' BY <3>1 DEF Doing, At
    <3> QED BY <2>0, <3>1, <3>2, <3>3, OvertakeKeepsCurrent
  <2>7. ASSUME NEW r \in Requests, StatusWrite(r) PROVE CurrentInv'
    <3>1. /\ \A q \in Requests \ {r} : req'[q] = req[q]
          /\ ~At(r, "write")' /\ ~At(r, "set")'
      BY <2>0, <2>7 DEF StatusWrite, ThenView, Goto, TypeOK, At
    <3>2. At(r, "write") /\ UNCHANGED <<deleted, cache>> /\ Overtake(r)
      BY <2>7 DEF StatusWrite, Doing
    <3> QED BY <2>0, <3>1, <3>2, OvertakeKeepsCurrent
  <2>8. ASSUME NEW r \in Requests, CacheDel(r) PROVE CurrentInv'
    <3>1. UNCHANGED <<status, deleted, overtaken>> /\ cache' = None
      BY <2>8 DEF CacheDel
    <3>2. /\ \A q \in Requests \ {r} : req'[q] = req[q]
          /\ ~At(r, "write")' /\ ~At(r, "set")'
      BY <2>0, <2>8 DEF CacheDel, ThenView, Goto, Finish, TypeOK, At, IdleJob
    <3>3. WritesAreCurrent' /\ FillsAreCurrent'
      BY <2>0, <3>1, <3>2, OthersStayCurrent
    <3> QED BY <3>1, <3>3 DEF CurrentInv, CacheExplained
  <2>9. CASE Expire
    BY <2>9 DEF Expire, CurrentInv, WritesAreCurrent, CacheExplained, FillsAreCurrent, At
  <2>10. CASE Restart
    BY <2>10 DEF Restart, CurrentInv, WritesAreCurrent, CacheExplained, FillsAreCurrent,
                 At, IdleJob
  <2>11. CASE UNCHANGED vars
    BY <2>11 DEF vars, CurrentInv, WritesAreCurrent, CacheExplained, FillsAreCurrent,
                 Doing, At
  <2> QED BY <2>1, <2>2, <2>3, <2>4, <2>5, <2>6, <2>7, <2>8, <2>9, <2>10, <2>11
          DEF Next, Step
<1> QED BY <1>1, <1>2, Inductive, PTL DEF Spec

(* A handler's write is wrong for the row it lands on only when a write of  *)
(* another overtook the answer it rests on.                                 *)
THEOREM OnlyOvertakenWritesAreWrong == Spec => []WritesAreCurrent
<1>1. CurrentInv => WritesAreCurrent BY DEF CurrentInv
<1> QED BY <1>1, AnswersAreCurrent, PTL

(* The cache answers with something else than the row only after a write    *)
(* that does not invalidate it, or after an overtaken fill.                 *)
THEOREM CacheIsExplained == Spec => []CacheExplained
<1>1. CurrentInv => CacheExplained BY DEF CurrentInv
<1> QED BY <1>1, AnswersAreCurrent, PTL
=============================================================================
