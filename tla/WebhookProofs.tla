--------------------------- MODULE WebhookProofs ---------------------------
(* The webhook queue, for any number of events, endpoints, attempts and     *)
(* deaths of workers.                                                       *)
EXTENDS Webhooks, TLAPS

(* A job is queued once: until then its endpoint is still to come, or its   *)
(* event has not been dispatched.                                           *)
QueuedOnce ==
  \A v \in Events, e \in Endpoints :
    job[<<v, e>>].pc # "none" => fanout[v].state # "none" /\ e \notin fanout[v].left

(* Where an acceptance is while it makes its way to the delivery log.       *)
Traced(j) ==
  /\ job[j].ok => /\ job[j].pc \in {"record", "note", "complete", "done"}
                  /\ accepted[j] > 0
  /\ j \in logged => accepted[j] > 0
  /\ job[j].pc \in {"complete", "done"} => j \in logged
  /\ j \notin lost =>
       /\ accepted[j] < 2
       /\ accepted[j] = 1 => job[j].ok /\ job[j].pc \in {"record", "complete", "done"}

(* The inductive invariant. *)
IInv == WebhooksTypeOK /\ QueuedOnce /\ \A j \in Jobs : Traced(j)

JobRecords == [pc : {"none", "waiting"} \cup AtWork \cup Over, ok : BOOLEAN,
               tries : 0..MaxAttempts, stalls : 0..(MaxStalls + 1)]

LEMMA InitEstablishes == ASSUME WebhooksInit PROVE IInv
<1>1. WebhooksTypeOK BY QueueOK DEF WebhooksInit, WebhooksTypeOK, Over
<1>2. QueuedOnce BY DEF WebhooksInit, QueuedOnce, Jobs
<1>3. \A j \in Jobs : Traced(j) BY DEF WebhooksInit, Traced
<1> QED BY <1>1, <1>2, <1>3 DEF IInv

(* A step of a queued job touches no other job and does not unqueue its own. *)
LEMMA JobStep ==
  ASSUME IInv, NEW j \in Jobs,
         job[j].pc # "none", job'[j].pc # "none",
         job' \in [Jobs -> JobRecords],
         \A k \in Jobs \ {j} : job'[k] = job[k],
         job'[j].pc \notin Over => job'[j].tries < MaxAttempts /\ job'[j].stalls <= MaxStalls,
         UNCHANGED <<endpoint, fanout>>,
         accepted' \in [Jobs -> 0..2],
         \A k \in Jobs \ {j} : accepted'[k] = accepted[k],
         logged' \in {logged, logged \cup {j}}, lost' \in {lost, lost \cup {j}},
         Traced(j)'
  PROVE  IInv'
<1>0. WebhooksTypeOK /\ QueuedOnce /\ \A k \in Jobs : Traced(k) BY DEF IInv
<1>1. WebhooksTypeOK'
  <2>1. \A k \in Jobs : job'[k].pc \notin Over =>
          job'[k].tries < MaxAttempts /\ job'[k].stalls <= MaxStalls
    BY <1>0 DEF WebhooksTypeOK
  <2>2. logged' \subseteq Jobs /\ lost' \subseteq Jobs BY <1>0 DEF WebhooksTypeOK
  <2> QED BY <1>0, <2>1, <2>2 DEF WebhooksTypeOK, JobRecords
<1>2. QueuedOnce'
  <2> SUFFICES ASSUME NEW v \in Events, NEW e \in Endpoints, job'[<<v, e>>].pc # "none"
               PROVE  fanout[v].state # "none" /\ e \notin fanout[v].left
    BY DEF QueuedOnce
  <2>1. job[<<v, e>>].pc # "none"
    <3>1. <<v, e>> \in Jobs BY DEF Jobs
    <3> QED BY <3>1
  <2> QED BY <1>0, <2>1 DEF QueuedOnce
<1>3. ASSUME NEW k \in Jobs PROVE Traced(k)'
  <2>1. CASE k = j BY <2>1
  <2>2. CASE k # j
    <3>1. /\ job'[k] = job[k] /\ accepted'[k] = accepted[k]
          /\ k \in logged' <=> k \in logged
          /\ k \in lost' <=> k \in lost
      BY <2>2
    <3> QED BY <1>0, <3>1 DEF Traced
  <2> QED BY <2>1, <2>2
<1> QED BY <1>1, <1>2, <1>3 DEF IInv

(* What BullMQ does with an attempt that failed. *)
LEMMA RetryStep ==
  ASSUME IInv, NEW j \in Jobs, job[j].pc \in AtWork, Retry(j)
  PROVE  /\ job' \in [Jobs -> JobRecords]
         /\ \A k \in Jobs \ {j} : job'[k] = job[k]
         /\ job'[j].tries = job[j].tries + 1 /\ job'[j].stalls = job[j].stalls
         /\ job'[j].ok = FALSE
         /\ job'[j].pc = IF job[j].tries + 1 < MaxAttempts THEN "waiting" ELSE "failed"
<1>1. /\ job \in [Jobs -> JobRecords] /\ job[j].tries < MaxAttempts
      /\ job[j].tries \in Nat /\ job[j] \in JobRecords
  BY QueueOK DEF IInv, WebhooksTypeOK, JobRecords, AtWork, Over
<1> DEFINE pc == IF job[j].tries + 1 < MaxAttempts THEN "waiting" ELSE "failed"
           new == [job[j] EXCEPT !.tries = @ + 1, !.ok = FALSE, !.pc = pc]
<1>2. pc \in {"waiting"} \cup Over /\ job[j].tries + 1 \in 0..MaxAttempts
  BY <1>1, QueueOK DEF Over
<1>3. job' = [job EXCEPT ![j] = new] BY <1>1 DEF Retry
<1> HIDE DEF pc
<1>4. /\ new \in JobRecords /\ new.tries = job[j].tries + 1 /\ new.stalls = job[j].stalls
      /\ new.ok = FALSE /\ new.pc = pc
  BY <1>1, <1>2 DEF JobRecords
<1> HIDE DEF new
<1>5. /\ job' \in [Jobs -> JobRecords] /\ job'[j] = new
      /\ \A k \in Jobs \ {j} : job'[k] = job[k]
  BY <1>1, <1>3, <1>4
<1> QED BY <1>4, <1>5 DEF pc

(* What it does with a job whose worker died. *)
LEMMA DeathStep ==
  ASSUME IInv, NEW j \in Jobs, WorkerDies(j)
  PROVE  /\ job' \in [Jobs -> JobRecords]
         /\ \A k \in Jobs \ {j} : job'[k] = job[k]
         /\ job'[j].tries = job[j].tries /\ job'[j].stalls = job[j].stalls + 1
         /\ job'[j].ok = FALSE
         /\ job'[j].pc = IF job[j].stalls < MaxStalls THEN "waiting" ELSE "failed"
<1>1. /\ job \in [Jobs -> JobRecords] /\ job[j].stalls <= MaxStalls
      /\ job[j].stalls \in Nat /\ job[j] \in JobRecords
  BY QueueOK DEF IInv, WebhooksTypeOK, JobRecords, AtWork, Over, WorkerDies
<1> DEFINE pc == IF job[j].stalls < MaxStalls THEN "waiting" ELSE "failed"
           new == [job[j] EXCEPT !.stalls = @ + 1, !.ok = FALSE, !.pc = pc]
<1>2. pc \in {"waiting"} \cup Over /\ job[j].stalls + 1 \in 0..(MaxStalls + 1)
  BY <1>1, QueueOK DEF Over
<1>3. job' = [job EXCEPT ![j] = new] BY <1>1 DEF WorkerDies
<1> HIDE DEF pc
<1>4. /\ new \in JobRecords /\ new.stalls = job[j].stalls + 1 /\ new.tries = job[j].tries
      /\ new.ok = FALSE /\ new.pc = pc
  BY <1>1, <1>2 DEF JobRecords
<1> HIDE DEF new
<1>5. /\ job' \in [Jobs -> JobRecords] /\ job'[j] = new
      /\ \A k \in Jobs \ {j} : job'[k] = job[k]
  BY <1>1, <1>3, <1>4
<1> QED BY <1>4, <1>5 DEF pc

(* A job that moves on, with its result when there is one. *)
LEMMA AdvanceStep ==
  ASSUME IInv, NEW j \in Jobs, NEW from \in {"waiting"} \cup AtWork,
         NEW to \in AtWork \cup Over, Advance(j, from, to)
  PROVE  /\ job' \in [Jobs -> JobRecords]
         /\ \A k \in Jobs \ {j} : job'[k] = job[k]
         /\ job'[j].tries = job[j].tries /\ job'[j].stalls = job[j].stalls
         /\ job'[j].tries < MaxAttempts /\ job'[j].stalls <= MaxStalls
         /\ job'[j].ok = job[j].ok /\ job'[j].pc = to
         /\ job[j].pc = from
BY QueueOK DEF IInv, WebhooksTypeOK, JobRecords, AtWork, Over, Advance

(* The dispatcher and the endpoints' owner queue jobs, and do nothing else  *)
(* to them.                                                                 *)
LEMMA DispatchPreserves ==
  ASSUME IInv,
         \/ \E e \in Endpoints : Configure(e)
         \/ \E v \in Events : Dispatch(v) \/ DispatcherDies(v)
  PROVE  IInv'
<1>0. WebhooksTypeOK /\ QueuedOnce /\ \A k \in Jobs : Traced(k) BY DEF IInv
<1>1. UNCHANGED <<job, accepted, logged, lost>>
  BY DEF Configure, Dispatch, DispatcherDies
<1>2. \A k \in Jobs : Traced(k)' BY <1>0, <1>1 DEF Traced
<1>3. CASE \E e \in Endpoints : Configure(e)
  <2>1. PICK e \in Endpoints : Configure(e) BY <1>3
  <2>2. endpoint' \in [Endpoints -> {"none", "active", "paused", "deleted"}] /\ fanout' = fanout
    BY <1>0, <2>1 DEF Configure, WebhooksTypeOK
  <2> QED BY <1>0, <1>1, <1>2, <2>2 DEF IInv, WebhooksTypeOK, QueuedOnce
<1>4. ASSUME NEW v \in Events, Dispatch(v) PROVE IInv'
  <2> DEFINE subscribed == {e \in Endpoints : endpoint[e] = "active"}
             new == [state |-> IF subscribed = {} THEN "ended" ELSE "queueing",
                     left |-> subscribed]
  <2>1. fanout' = [fanout EXCEPT ![v] = new] /\ endpoint' = endpoint
        /\ fanout[v].state = "none"
    BY <1>4 DEF Dispatch
  <2>2. new \in [state : {"none", "queueing", "ended", "died"}, left : SUBSET Endpoints]
        /\ new.state # "none"
    OBVIOUS
  <2> HIDE DEF new
  <2>3. fanout' \in [Events -> [state : {"none", "queueing", "ended", "died"},
                                left : SUBSET Endpoints]]
        /\ \A w \in Events \ {v} : fanout'[w] = fanout[w]
    BY <1>0, <2>1, <2>2 DEF WebhooksTypeOK
  <2>4. \A e \in Endpoints : job[<<v, e>>].pc = "none"
    BY <1>0, <2>1 DEF QueuedOnce
  <2>5. QueuedOnce' BY <1>0, <1>1, <2>3, <2>4 DEF QueuedOnce
  <2> QED BY <1>0, <1>1, <1>2, <2>1, <2>3, <2>5 DEF IInv, WebhooksTypeOK
<1>5. ASSUME NEW v \in Events, DispatcherDies(v) PROVE IInv'
  <2>1. /\ fanout' \in [Events -> [state : {"none", "queueing", "ended", "died"},
                                    left : SUBSET Endpoints]]
        /\ \A w \in Events : fanout'[w].left = fanout[w].left
        /\ \A w \in Events : fanout[w].state # "none" => fanout'[w].state # "none"
        /\ endpoint' = endpoint
    BY <1>0, <1>5 DEF WebhooksTypeOK, DispatcherDies
  <2> QED BY <1>0, <1>1, <1>2, <2>1 DEF IInv, WebhooksTypeOK, QueuedOnce
<1> QED BY <1>3, <1>4, <1>5

LEMMA EnqueueStep ==
  ASSUME IInv, NEW v \in Events, NEW e \in Endpoints, Enqueue(v, e)
  PROVE  /\ job' \in [Jobs -> JobRecords]
         /\ \A k \in Jobs \ {<<v, e>>} : job'[k] = job[k]
         /\ job[<<v, e>>].pc = "none" /\ job'[<<v, e>>].pc = "waiting"
         /\ job'[<<v, e>>].ok = job[<<v, e>>].ok
         /\ job'[<<v, e>>].tries = job[<<v, e>>].tries
         /\ job'[<<v, e>>].stalls = job[<<v, e>>].stalls
<1> DEFINE j == <<v, e>>
<1>1. j \in Jobs BY DEF Jobs
<1>2. job[j].pc = "none" BY DEF IInv, QueuedOnce, Enqueue
<1>3. job \in [Jobs -> JobRecords] /\ job' = [job EXCEPT ![j].pc = "waiting"]
  BY DEF IInv, WebhooksTypeOK, JobRecords, Enqueue
<1> HIDE DEF j
<1>4. /\ job' \in [Jobs -> JobRecords]
      /\ \A k \in Jobs \ {j} : job'[k] = job[k]
      /\ job'[j].pc = "waiting" /\ job'[j].ok = job[j].ok
      /\ job'[j].tries = job[j].tries /\ job'[j].stalls = job[j].stalls
  BY <1>1, <1>3 DEF JobRecords
<1> QED BY <1>2, <1>4 DEF j

LEMMA EnqueuePreserves ==
  ASSUME IInv, NEW v \in Events, NEW e \in Endpoints, Enqueue(v, e)
  PROVE  IInv'
<1> DEFINE j == <<v, e>>
<1>0. WebhooksTypeOK /\ QueuedOnce /\ \A k \in Jobs : Traced(k) BY DEF IInv
<1>1. /\ j \in Jobs /\ job' \in [Jobs -> JobRecords]
      /\ \A k \in Jobs \ {j} : job'[k] = job[k]
      /\ job[j].pc = "none" /\ job'[j].pc = "waiting"
      /\ job'[j].ok = job[j].ok
      /\ job'[j].tries = job[j].tries /\ job'[j].stalls = job[j].stalls
  BY EnqueueStep DEF Jobs
<1>2. UNCHANGED <<endpoint, accepted, logged, lost>> BY DEF Enqueue
<1>3. /\ fanout' \in [Events -> [state : {"none", "queueing", "ended", "died"},
                                  left : SUBSET Endpoints]]
      /\ \A w \in Events : fanout'[w].left = fanout[w].left \ (IF w = v THEN {e} ELSE {})
      /\ \A w \in Events : fanout[w].state # "none" => fanout'[w].state # "none"
      /\ fanout'[v].state # "none"
  <2> DEFINE new == [state |-> IF fanout[v].left = {e} THEN "ended" ELSE "queueing",
                     left |-> fanout[v].left \ {e}]
  <2>1. fanout' = [fanout EXCEPT ![v] = new] BY <1>0 DEF Enqueue, WebhooksTypeOK
  <2>2. /\ new \in [state : {"none", "queueing", "ended", "died"}, left : SUBSET Endpoints]
        /\ new.state # "none" /\ new.left = fanout[v].left \ {e}
    BY <1>0 DEF WebhooksTypeOK
  <2> HIDE DEF new
  <2> QED BY <1>0, <2>1, <2>2 DEF WebhooksTypeOK
<1>4. ASSUME NEW w \in Events, NEW f \in Endpoints, job'[<<w, f>>].pc # "none"
      PROVE  fanout'[w].state # "none" /\ f \notin fanout'[w].left
  <2>1. CASE w = v /\ f = e BY <1>3, <2>1
  <2>2. CASE ~(w = v /\ f = e)
    <3>1. <<w, f>> \in Jobs \ {j} BY <2>2 DEF Jobs
    <3>2. job[<<w, f>>].pc # "none" BY <1>1, <1>4, <3>1
    <3> QED BY <1>0, <1>3, <3>2 DEF QueuedOnce
  <2> QED BY <2>1, <2>2
<1> HIDE DEF j
<1>5. WebhooksTypeOK'
  <2>1. job[j].tries < MaxAttempts /\ job[j].stalls <= MaxStalls
    BY <1>0, <1>1 DEF WebhooksTypeOK, Over
  <2>2. \A k \in Jobs : job'[k].pc \notin Over =>
          job'[k].tries < MaxAttempts /\ job'[k].stalls <= MaxStalls
    BY <1>0, <1>1, <2>1 DEF WebhooksTypeOK
  <2> QED BY <1>0, <1>1, <1>2, <1>3, <2>2 DEF WebhooksTypeOK, JobRecords
<1>6. ASSUME NEW k \in Jobs PROVE Traced(k)'
  <2>1. Traced(k) BY <1>0
  <2>2. CASE k = j BY <1>1, <1>2, <2>1, <2>2 DEF Traced
  <2>3. CASE k # j
    <3>1. job'[k] = job[k] BY <1>1, <2>3
    <3> QED BY <1>2, <2>1, <3>1 DEF Traced
  <2> QED BY <2>2, <2>3
<1> QED BY <1>4, <1>5, <1>6 DEF IInv, QueuedOnce

(* Every step of a worker, and its death. *)
LEMMA WorkPreserves ==
  ASSUME IInv, NEW j \in Jobs, Work(j) \/ WorkerDies(j)
  PROVE  IInv'
<1>0. WebhooksTypeOK /\ Traced(j) BY DEF IInv
<1>1. /\ accepted[j] \in 0..2 /\ accepted \in [Jobs -> 0..2]
      /\ job[j].ok \in BOOLEAN
  BY <1>0 DEF WebhooksTypeOK
<1>2. Accept(j) => /\ accepted' \in [Jobs -> 0..2]
                   /\ \A k \in Jobs \ {j} : accepted'[k] = accepted[k]
                   /\ accepted'[j] = IF accepted[j] < 2 THEN accepted[j] + 1 ELSE 2
  BY <1>1 DEF Accept
<1>3. CASE Take(j)
  <2>1. Advance(j, "waiting", "post") /\ UNCHANGED <<endpoint, fanout, accepted, logged, lost>>
    BY <1>3 DEF Take
  <2>2. /\ job' \in [Jobs -> JobRecords] /\ \A k \in Jobs \ {j} : job'[k] = job[k]
        /\ job'[j].tries < MaxAttempts /\ job'[j].stalls <= MaxStalls
        /\ job'[j].ok = job[j].ok /\ job'[j].pc = "post" /\ job[j].pc = "waiting"
    BY <2>1, AdvanceStep DEF AtWork
  <2>3. Traced(j)' BY <1>0, <2>1, <2>2 DEF Traced
  <2> QED BY <1>1, <2>1, <2>2, <2>3, JobStep
<1>4. CASE PostAccepted(j)
  <2>1. /\ job[j].pc = "post" /\ job' = [job EXCEPT ![j].pc = "record", ![j].ok = TRUE]
        /\ Accept(j) /\ UNCHANGED <<endpoint, fanout, logged, lost>>
    BY <1>4 DEF PostAccepted
  <2>2. /\ job' \in [Jobs -> JobRecords] /\ \A k \in Jobs \ {j} : job'[k] = job[k]
        /\ job'[j].tries < MaxAttempts /\ job'[j].stalls <= MaxStalls
        /\ job'[j].ok = TRUE /\ job'[j].pc = "record"
    BY <1>0, <2>1 DEF WebhooksTypeOK, JobRecords, AtWork, Over
  <2>3. Traced(j)' BY <1>0, <1>1, <1>2, <2>1, <2>2 DEF Traced
  <2> QED BY <1>2, <2>1, <2>2, <2>3, JobStep
<1>5. CASE PostRejected(j)
  <2>1. Advance(j, "post", "record") /\ UNCHANGED <<endpoint, fanout, accepted, logged, lost>>
    BY <1>5 DEF PostRejected
  <2>2. /\ job' \in [Jobs -> JobRecords] /\ \A k \in Jobs \ {j} : job'[k] = job[k]
        /\ job'[j].tries < MaxAttempts /\ job'[j].stalls <= MaxStalls
        /\ job'[j].ok = job[j].ok /\ job'[j].pc = "record" /\ job[j].pc = "post"
    BY <2>1, AdvanceStep DEF AtWork
  <2>3. Traced(j)' BY <1>0, <2>1, <2>2 DEF Traced
  <2> QED BY <1>1, <2>1, <2>2, <2>3, JobStep
<1>6. CASE PostUnanswered(j)
  <2>1. /\ Advance(j, "post", "note") /\ UNCHANGED <<endpoint, fanout, logged>>
        /\ \/ Accept(j) /\ lost' = lost \cup {j}
           \/ UNCHANGED <<accepted, lost>>
    BY <1>6 DEF PostUnanswered
  <2>2. /\ job' \in [Jobs -> JobRecords] /\ \A k \in Jobs \ {j} : job'[k] = job[k]
        /\ job'[j].tries < MaxAttempts /\ job'[j].stalls <= MaxStalls
        /\ job'[j].ok = job[j].ok /\ job'[j].pc = "note" /\ job[j].pc = "post"
    BY <2>1, AdvanceStep DEF AtWork
  <2>3. Traced(j)' BY <1>0, <1>1, <1>2, <2>1, <2>2 DEF Traced
  <2> QED BY <1>1, <1>2, <2>1, <2>2, <2>3, JobStep
<1>7. CASE Record(j)
  <2>1. /\ job[j].pc = "record" /\ UNCHANGED <<endpoint, fanout, accepted, lost>>
        /\ logged' = IF job[j].ok THEN logged \cup {j} ELSE logged
        /\ IF job[j].ok THEN Advance(j, "record", "complete") ELSE Retry(j)
    BY <1>7 DEF Record
  <2>2. CASE job[j].ok
    <3>1. /\ job' \in [Jobs -> JobRecords] /\ \A k \in Jobs \ {j} : job'[k] = job[k]
          /\ job'[j].tries < MaxAttempts /\ job'[j].stalls <= MaxStalls
          /\ job'[j].ok = job[j].ok /\ job'[j].pc = "complete"
      BY <2>1, <2>2, AdvanceStep DEF AtWork
    <3>2. Traced(j)' BY <1>0, <2>1, <2>2, <3>1 DEF Traced
    <3> QED BY <1>1, <2>1, <2>2, <3>1, <3>2, JobStep
  <2>3. CASE ~job[j].ok
    <3>1. /\ job' \in [Jobs -> JobRecords] /\ \A k \in Jobs \ {j} : job'[k] = job[k]
          /\ job'[j].tries = job[j].tries + 1 /\ job'[j].stalls = job[j].stalls
          /\ job'[j].ok = FALSE
          /\ job'[j].pc = IF job[j].tries + 1 < MaxAttempts THEN "waiting" ELSE "failed"
      BY <2>1, <2>3, RetryStep DEF AtWork
    <3>2. Traced(j)' BY <1>0, <2>1, <2>3, <3>1 DEF Traced
    <3>3. job[j].stalls <= MaxStalls BY <1>0, <2>1 DEF WebhooksTypeOK, Over
    <3> QED BY <1>1, <2>1, <2>3, <3>1, <3>2, <3>3, JobStep DEF Over
  <2> QED BY <2>2, <2>3
<1>8. CASE RecordFails(j)
  <2>1. /\ Advance(j, "record", "note") /\ UNCHANGED <<endpoint, fanout, accepted, logged>>
        /\ lost' = IF job[j].ok THEN lost \cup {j} ELSE lost
    BY <1>8 DEF RecordFails
  <2>2. /\ job' \in [Jobs -> JobRecords] /\ \A k \in Jobs \ {j} : job'[k] = job[k]
        /\ job'[j].tries < MaxAttempts /\ job'[j].stalls <= MaxStalls
        /\ job'[j].ok = job[j].ok /\ job'[j].pc = "note" /\ job[j].pc = "record"
    BY <2>1, AdvanceStep DEF AtWork
  <2>3. Traced(j)' BY <1>0, <2>1, <2>2 DEF Traced
  <2> QED BY <1>1, <2>1, <2>2, <2>3, JobStep
<1>9. CASE Note(j)
  <2>1. job[j].pc = "note" /\ Retry(j) /\ UNCHANGED <<endpoint, fanout, accepted, logged, lost>>
    BY <1>9 DEF Note
  <2>2. /\ job' \in [Jobs -> JobRecords] /\ \A k \in Jobs \ {j} : job'[k] = job[k]
        /\ job'[j].tries = job[j].tries + 1 /\ job'[j].stalls = job[j].stalls
        /\ job'[j].ok = FALSE
        /\ job'[j].pc = IF job[j].tries + 1 < MaxAttempts THEN "waiting" ELSE "failed"
    BY <2>1, RetryStep DEF AtWork
  <2>3. Traced(j)' BY <1>0, <2>1, <2>2 DEF Traced
  <2>4. job[j].stalls <= MaxStalls BY <1>0, <2>1 DEF WebhooksTypeOK, Over
  <2> QED BY <1>1, <2>1, <2>2, <2>3, <2>4, JobStep DEF Over
<1>10. CASE Complete(j)
  <2>1. Advance(j, "complete", "done") /\ UNCHANGED <<endpoint, fanout, accepted, logged, lost>>
    BY <1>10 DEF Complete
  <2>2. /\ job' \in [Jobs -> JobRecords] /\ \A k \in Jobs \ {j} : job'[k] = job[k]
        /\ job'[j].ok = job[j].ok /\ job'[j].pc = "done" /\ job[j].pc = "complete"
    BY <2>1, AdvanceStep DEF AtWork, Over
  <2>3. Traced(j)' BY <1>0, <2>1, <2>2 DEF Traced
  <2> QED BY <1>1, <2>1, <2>2, <2>3, JobStep DEF Over
<1>11. CASE WorkerDies(j)
  <2>1. /\ job[j].pc \in AtWork /\ UNCHANGED <<endpoint, fanout, accepted, logged>>
        /\ lost' = IF job[j].ok THEN lost \cup {j} ELSE lost
    BY <1>11 DEF WorkerDies
  <2>2. /\ job' \in [Jobs -> JobRecords] /\ \A k \in Jobs \ {j} : job'[k] = job[k]
        /\ job'[j].tries = job[j].tries /\ job'[j].stalls = job[j].stalls + 1
        /\ job'[j].ok = FALSE
        /\ job'[j].pc = IF job[j].stalls < MaxStalls THEN "waiting" ELSE "failed"
    BY <1>11, DeathStep
  <2>3. Traced(j)' BY <1>0, <2>1, <2>2 DEF Traced, AtWork
  <2>4. job[j].tries < MaxAttempts BY <1>0, <2>1 DEF WebhooksTypeOK, Over, AtWork
  <2>5. job[j].stalls \in Nat BY <1>0 DEF WebhooksTypeOK
  <2>6. job[j].pc # "none" /\ job'[j].pc # "none" BY <2>1, <2>2 DEF AtWork
  <2>7. job'[j].pc \notin Over => job'[j].tries < MaxAttempts /\ job'[j].stalls <= MaxStalls
    BY <2>2, <2>4, <2>5, QueueOK DEF Over
  <2> QED BY <1>1, <2>1, <2>2, <2>3, <2>6, <2>7, JobStep
<1> QED
  BY <1>3, <1>4, <1>5, <1>6, <1>7, <1>8, <1>9, <1>10, <1>11 DEF Work

(* The invariant of the queue: a job is queued once, and an acceptance is   *)
(* on its way to the delivery log, in it, or known to be lost.              *)
THEOREM Inductive == WebhooksSpec => []IInv
<1>1. IInv /\ [WebhooksNext]_webhookVars => IInv'
  <2> SUFFICES ASSUME IInv, [WebhooksNext]_webhookVars PROVE IInv'
    OBVIOUS
  <2>1. ASSUME NEW v \in Events, NEW e \in Endpoints, Enqueue(v, e) PROVE IInv'
    BY <2>1, EnqueuePreserves
  <2>2. ASSUME NEW j \in Jobs, Work(j) \/ WorkerDies(j) PROVE IInv'
    BY <2>2, WorkPreserves
  <2>3. CASE UNCHANGED webhookVars
    BY <2>3 DEF IInv, WebhooksTypeOK, QueuedOnce, Traced, webhookVars
  <2> QED BY <2>1, <2>2, <2>3, DispatchPreserves DEF WebhooksNext
<1> QED BY <1>1, InitEstablishes, PTL DEF WebhooksSpec

(* The variables of the queue have their types, and a job that is not over  *)
(* has an attempt left.                                                     *)
THEOREM TypeCorrect == WebhooksSpec => []WebhooksTypeOK
<1>1. IInv => WebhooksTypeOK BY DEF IInv
<1> QED BY <1>1, Inductive, PTL

(* An endpoint takes an event twice only after an acceptance was lost, and  *)
(* the delivery log tells the truth.                                        *)
THEOREM DeliveriesAreExplained == WebhooksSpec => []DeliveriesExplained
<1>1. IInv => DeliveriesExplained BY DEF IInv, Traced, DeliveriesExplained
<1> QED BY <1>1, Inductive, PTL

-----------------------------------------------------------------------------
(* The promise a job stands for.                                            *)
Phases   == [j \in Jobs |-> Phase(j)]
Failures == [j \in Jobs |-> job[j].tries]
Stalls   == [j \in Jobs |-> job[j].stalls]

(* A step of a job changes the promise of that job only.                    *)
LEMMA OneJobMapped ==
  ASSUME NEW j \in Jobs, \A k \in Jobs \ {j} : job'[k] = job[k]
  PROVE  /\ Phases' = [Phases EXCEPT ![j] = Phase(j)']
         /\ Failures' = [Failures EXCEPT ![j] = job'[j].tries]
         /\ Stalls' = [Stalls EXCEPT ![j] = job'[j].stalls]
<1>1. \A k \in Jobs \ {j} : Phase(k)' = Phase(k) BY DEF Phase
<1>2. Phases' = [Phases EXCEPT ![j] = Phase(j)'] BY <1>1 DEF Phases
<1>3. Failures' = [Failures EXCEPT ![j] = job'[j].tries] BY DEF Failures
<1>4. Stalls' = [Stalls EXCEPT ![j] = job'[j].stalls] BY DEF Stalls
<1> QED BY <1>2, <1>3, <1>4

LEMMA PhaseIs ==
  ASSUME WebhooksTypeOK, NEW j \in Jobs
  PROVE  /\ Phases[j] = Phase(j) /\ Failures[j] = job[j].tries /\ Stalls[j] = job[j].stalls
         /\ job[j].pc = "none" => Phase(j) = "none"
         /\ job[j].pc = "done" => Phase(j) = "kept"
         /\ job[j].pc = "failed" => Phase(j) = "abandoned"
         /\ job[j].pc \in {"waiting"} \cup AtWork => Phase(j) = "promised"
BY DEF Phases, Failures, Stalls, Phase, AtWork

(* A job that works on without failing keeps its promise pending. *)
LEMMA WorkingOn ==
  ASSUME IInv, NEW j \in Jobs, \A k \in Jobs \ {j} : job'[k] = job[k],
         job[j].pc \in {"waiting"} \cup AtWork, job'[j].pc \in {"waiting"} \cup AtWork,
         job'[j].tries = job[j].tries, job'[j].stalls = job[j].stalls
  PROVE  UNCHANGED <<Phases, Failures, Stalls>>
<1>1. Phase(j) = "promised" /\ Phase(j)' = "promised" BY DEF Phase, AtWork
<1>2. Phases' = Phases BY <1>1, OneJobMapped DEF Phases
<1>3. Failures' = Failures BY OneJobMapped DEF Failures
<1>4. Stalls' = Stalls BY OneJobMapped DEF Stalls
<1> QED BY <1>2, <1>3, <1>4

(* An attempt that failed is a failure of the promise. *)
LEMMA FailedAttempt ==
  ASSUME IInv, NEW j \in Jobs, job[j].pc \in AtWork, Retry(j)
  PROVE  Promise!FailOnce(j)
<1>1. /\ \A k \in Jobs \ {j} : job'[k] = job[k]
      /\ job'[j].tries = job[j].tries + 1 /\ job'[j].stalls = job[j].stalls
      /\ job'[j].pc = IF job[j].tries + 1 < MaxAttempts THEN "waiting" ELSE "failed"
  BY RetryStep
<1>2. /\ Phases' = [Phases EXCEPT ![j] = Phase(j)']
      /\ Failures' = [Failures EXCEPT ![j] = job'[j].tries]
      /\ Stalls' = [Stalls EXCEPT ![j] = job'[j].stalls]
  BY <1>1, OneJobMapped
<1>3. Phases[j] = "promised" /\ Failures[j] = job[j].tries /\ Stalls[j] = job[j].stalls
  BY PhaseIs DEF IInv
<1>4. Phase(j)' = IF job[j].tries + 1 < MaxAttempts THEN "promised" ELSE "abandoned"
  BY <1>1 DEF Phase
<1>5. Failures' = [Failures EXCEPT ![j] = Failures[j] + 1] /\ Stalls' = Stalls
  BY <1>1, <1>2, <1>3 DEF Failures, Stalls
<1>6. Phases' = IF Failures[j] + 1 < MaxAttempts THEN Phases
                ELSE [Phases EXCEPT ![j] = "abandoned"]
  BY <1>2, <1>3, <1>4 DEF Phases
<1> QED BY <1>3, <1>5, <1>6 DEF Promise!FailOnce, Phases, Failures, Stalls

(* The death of a worker is a stall of the promise. *)
LEMMA DeadWorker ==
  ASSUME IInv, NEW j \in Jobs, WorkerDies(j)
  PROVE  Promise!Stall(j)
<1>0. job[j].pc \in AtWork BY DEF WorkerDies
<1>1. /\ \A k \in Jobs \ {j} : job'[k] = job[k]
      /\ job'[j].tries = job[j].tries /\ job'[j].stalls = job[j].stalls + 1
      /\ job'[j].pc = IF job[j].stalls < MaxStalls THEN "waiting" ELSE "failed"
  BY DeathStep
<1>2. /\ Phases' = [Phases EXCEPT ![j] = Phase(j)']
      /\ Failures' = [Failures EXCEPT ![j] = job'[j].tries]
      /\ Stalls' = [Stalls EXCEPT ![j] = job'[j].stalls]
  BY <1>1, OneJobMapped
<1>3. Phases[j] = "promised" /\ Failures[j] = job[j].tries /\ Stalls[j] = job[j].stalls
  BY <1>0, PhaseIs DEF IInv
<1>4. Phase(j)' = IF job[j].stalls < MaxStalls THEN "promised" ELSE "abandoned"
  BY <1>1 DEF Phase
<1>5. Stalls' = [Stalls EXCEPT ![j] = Stalls[j] + 1] /\ Failures' = Failures
  BY <1>1, <1>2, <1>3 DEF Failures, Stalls
<1>6. Phases' = IF Stalls[j] < MaxStalls THEN Phases
                ELSE [Phases EXCEPT ![j] = "abandoned"]
  BY <1>2, <1>3, <1>4 DEF Phases
<1> QED BY <1>3, <1>5, <1>6 DEF Promise!Stall, Phases, Failures, Stalls

(* Every step of the queue is a step of the promise or none. *)
LEMMA StepMapped ==
  ASSUME IInv, [WebhooksNext]_webhookVars
  PROVE  [Promise!Next]_(Promise!promise)
<1>0. ASSUME UNCHANGED <<Phases, Failures, Stalls>> PROVE [Promise!Next]_(Promise!promise)
  BY <1>0 DEF Promise!promise, Phases, Failures, Stalls
<1>1. CASE job' = job
  <2>1. UNCHANGED <<Phases, Failures, Stalls>> BY <1>1 DEF Phases, Failures, Stalls, Phase
  <2> QED BY <1>0, <2>1
<1>2. ASSUME NEW v \in Events, NEW e \in Endpoints, Enqueue(v, e)
      PROVE  Promise!Next
  <2> DEFINE j == <<v, e>>
  <2>1. /\ j \in Jobs /\ \A k \in Jobs \ {j} : job'[k] = job[k]
        /\ job[j].pc = "none" /\ job'[j].pc = "waiting"
        /\ job'[j].tries = job[j].tries /\ job'[j].stalls = job[j].stalls
    BY <1>2, EnqueueStep DEF Jobs
  <2> HIDE DEF j
  <2>2. /\ Phases' = [Phases EXCEPT ![j] = Phase(j)']
        /\ Failures' = [Failures EXCEPT ![j] = job'[j].tries]
        /\ Stalls' = [Stalls EXCEPT ![j] = job'[j].stalls]
    BY <2>1, OneJobMapped
  <2>3. Phases[j] = "none" /\ Phase(j)' = "promised"
    BY <2>1, PhaseIs DEF IInv, Phase
  <2>4. Failures' = Failures /\ Stalls' = Stalls BY <2>1, <2>2 DEF Failures, Stalls
  <2>5. Promise!Make(j) BY <2>2, <2>3, <2>4 DEF Promise!Make, Phases, Failures, Stalls
  <2> QED BY <2>1, <2>5 DEF Promise!Next
<1>3. ASSUME NEW j \in Jobs, NEW from \in {"waiting"} \cup AtWork, NEW to \in AtWork,
             Advance(j, from, to)
      PROVE  [Promise!Next]_(Promise!promise)
  <2>1. UNCHANGED <<Phases, Failures, Stalls>> BY <1>3, AdvanceStep, WorkingOn
  <2> QED BY <1>0, <2>1
<1>4. ASSUME NEW j \in Jobs, PostAccepted(j) PROVE [Promise!Next]_(Promise!promise)
  <2>1. /\ \A k \in Jobs \ {j} : job'[k] = job[k]
        /\ job[j].pc = "post" /\ job'[j].pc = "record"
        /\ job'[j].tries = job[j].tries /\ job'[j].stalls = job[j].stalls
    BY <1>4 DEF PostAccepted, IInv, WebhooksTypeOK
  <2>2. UNCHANGED <<Phases, Failures, Stalls>> BY <2>1, WorkingOn DEF AtWork
  <2> QED BY <1>0, <2>2
<1>5. ASSUME NEW j \in Jobs, Complete(j) PROVE Promise!Keep(j)
  <2>1. /\ \A k \in Jobs \ {j} : job'[k] = job[k]
        /\ job[j].pc = "complete" /\ job'[j].pc = "done"
        /\ job'[j].tries = job[j].tries /\ job'[j].stalls = job[j].stalls
    BY <1>5, AdvanceStep DEF Complete, AtWork, Over
  <2>2. /\ Phases' = [Phases EXCEPT ![j] = Phase(j)']
        /\ Failures' = [Failures EXCEPT ![j] = job'[j].tries]
        /\ Stalls' = [Stalls EXCEPT ![j] = job'[j].stalls]
    BY <2>1, OneJobMapped
  <2>3. Phases[j] = "promised" /\ Phase(j)' = "kept"
    BY <2>1, PhaseIs DEF IInv, Phase, AtWork
  <2>4. Failures' = Failures /\ Stalls' = Stalls BY <2>1, <2>2 DEF Failures, Stalls
  <2> QED BY <2>2, <2>3, <2>4 DEF Promise!Keep, Phases, Failures, Stalls
<1>6. ASSUME NEW j \in Jobs, Retry(j), job[j].pc \in AtWork PROVE Promise!Next
  BY <1>6, FailedAttempt DEF Promise!Next, Promise!Settle
<1>7. ASSUME NEW j \in Jobs, Work(j) PROVE [Promise!Next]_(Promise!promise)
  <2>1. CASE Take(j) BY <1>3, <2>1 DEF Take, AtWork
  <2>2. CASE PostAccepted(j) BY <1>4, <2>2
  <2>3. CASE PostRejected(j) BY <1>3, <2>3 DEF PostRejected, AtWork
  <2>4. CASE PostUnanswered(j) BY <1>3, <2>4 DEF PostUnanswered, AtWork
  <2>5. CASE Record(j)
    <3>1. job[j].pc = "record" BY <2>5 DEF Record
    <3>2. CASE job[j].ok
      <4>1. Advance(j, "record", "complete") BY <2>5, <3>2 DEF Record
      <4> QED BY <1>3, <4>1 DEF AtWork
    <3>3. CASE ~job[j].ok
      <4>1. Retry(j) BY <2>5, <3>3 DEF Record
      <4> QED BY <1>6, <3>1, <4>1 DEF AtWork
    <3> QED BY <3>2, <3>3
  <2>6. CASE RecordFails(j) BY <1>3, <2>6 DEF RecordFails, AtWork
  <2>7. CASE Note(j) BY <1>6, <2>7 DEF Note, AtWork
  <2>8. CASE Complete(j) BY <1>5, <2>8 DEF Promise!Next, Promise!Settle
  <2> QED BY <1>7, <2>1, <2>2, <2>3, <2>4, <2>5, <2>6, <2>7, <2>8 DEF Work
<1>8. ASSUME NEW j \in Jobs, WorkerDies(j) PROVE Promise!Next
  BY <1>8, DeadWorker DEF Promise!Next, Promise!Settle
<1>9. ASSUME \/ \E e \in Endpoints : Configure(e)
             \/ \E v \in Events : Dispatch(v) \/ DispatcherDies(v)
      PROVE  job' = job
  BY <1>9 DEF Configure, Dispatch, DispatcherDies
<1> QED
  BY <1>1, <1>2, <1>7, <1>8, <1>9 DEF WebhooksNext, webhookVars

(* What the queue does with a job is what it promised: a delivery is        *)
(* promised once, fails at most MaxAttempts times, stalls at most           *)
(* MaxStalls + 1 times and never leaves its end.  That one of the two ends  *)
(* comes is a matter of fairness, and of the runs.                          *)
THEOREM QueueKeepsPromise == WebhooksSpec => Promise!Init /\ [][Promise!Next]_(Promise!promise)
<1>1. WebhooksInit => Promise!Init
  BY DEF WebhooksInit, Promise!Init, Phase
<1>2. IInv /\ [WebhooksNext]_webhookVars => [Promise!Next]_(Promise!promise)
  BY StepMapped
<1> QED BY <1>1, <1>2, Inductive, PTL DEF WebhooksSpec
=============================================================================
