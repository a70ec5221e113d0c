------------------------------ MODULE Webhooks ------------------------------
(****************************************************************************)
(* Outgoing webhooks: WebhookService (endpoints), the dispatcher, which     *)
(* queues one job per subscribed endpoint, and the processor, which posts,  *)
(* records the delivery and fails the job to have it tried again.           *)
(*                                                                          *)
(* BullMQ is external: a failed job goes back to the queue until its        *)
(* attempts are used up, and a job whose worker died goes back, once more   *)
(* than MaxStalls times never, without using one.                           *)
(****************************************************************************)
EXTENDS Naturals

CONSTANTS
  Events,      \* the calls of dispatch, each with its event and payload
  Endpoints,
  MaxAttempts, \* defaultJobOptions.attempts
  MaxStalls    \* BullMQ's maxStalledCount

ASSUME QueueOK == MaxAttempts \in Nat \ {0} /\ MaxStalls \in Nat

VARIABLES
  endpoint, \* "none", "active" (and subscribed), "paused" or "deleted"
  fanout,   \* each dispatch: its state and the endpoints still to be queued
  job,      \* one per event and endpoint
  accepted, \* history: how often the endpoint took the event: 0, 1, 2 for more
  logged,   \* jobs with a delivery record that says success
  lost      \* history: jobs whose acceptance did not reach the queue

webhookVars == <<endpoint, fanout, job, accepted, logged, lost>>

Jobs    == Events \X Endpoints
AtWork  == {"post", "record", "note", "complete"}
Over == {"done", "failed"}

WebhooksTypeOK ==
  /\ endpoint \in [Endpoints -> {"none", "active", "paused", "deleted"}]
  /\ fanout \in [Events -> [state : {"none", "queueing", "ended", "died"},
                            left : SUBSET Endpoints]]
  /\ job \in [Jobs -> [pc : {"none", "waiting"} \cup AtWork \cup Over,
                       ok : BOOLEAN, tries : 0..MaxAttempts, stalls : 0..(MaxStalls + 1)]]
  /\ accepted \in [Jobs -> 0..2]
  /\ logged \subseteq Jobs /\ lost \subseteq Jobs
  /\ \A j \in Jobs : job[j].pc \notin Over =>
                       job[j].tries < MaxAttempts /\ job[j].stalls <= MaxStalls

WebhooksInit ==
  /\ endpoint = [e \in Endpoints |-> "none"]
  /\ fanout = [v \in Events |-> [state |-> "none", left |-> {}]]
  /\ job = [j \in Jobs |-> [pc |-> "none", ok |-> FALSE, tries |-> 0, stalls |-> 0]]
  /\ accepted = [j \in Jobs |-> 0]
  /\ logged = {} /\ lost = {}

-----------------------------------------------------------------------------
(* WebhookService.create, update and remove; an update neither finds nor    *)
(* revives a deleted endpoint.                                              *)
Configure(e) ==
  /\ \/ endpoint[e] = "none" /\ endpoint' = [endpoint EXCEPT ![e] = "active"]
     \/ endpoint[e] \in {"active", "paused"}
        /\ \E to \in {"active", "paused", "deleted"} : endpoint' = [endpoint EXCEPT ![e] = to]
  /\ UNCHANGED <<fanout, job, accepted, logged, lost>>

(* dispatch (and testPing, which dispatches a ping like any event): the     *)
(* subscribers are read once.                                               *)
Dispatch(v) ==
  LET subscribed == {e \in Endpoints : endpoint[e] = "active"}
  IN  /\ fanout[v].state = "none"
      /\ fanout' = [fanout EXCEPT ![v] =
           [state |-> IF subscribed = {} THEN "ended" ELSE "queueing", left |-> subscribed]]
      /\ UNCHANGED <<endpoint, job, accepted, logged, lost>>

(* One add after the other, whatever became of the endpoint meanwhile. *)
Enqueue(v, e) ==
  /\ fanout[v].state = "queueing" /\ e \in fanout[v].left
  /\ fanout' = [fanout EXCEPT ![v] =
       [state |-> IF @.left = {e} THEN "ended" ELSE "queueing", left |-> @.left \ {e}]]
  /\ job' = [job EXCEPT ![<<v, e>>].pc = "waiting"]
  /\ UNCHANGED <<endpoint, accepted, logged, lost>>

(* The caller dies: the rest of the subscribers never hear of the event. *)
DispatcherDies(v) ==
  /\ fanout[v].state = "queueing"
  /\ fanout' = [fanout EXCEPT ![v].state = "died"]
  /\ UNCHANGED <<endpoint, job, accepted, logged, lost>>

-----------------------------------------------------------------------------
Advance(j, from, to) == job[j].pc = from /\ job' = [job EXCEPT ![j].pc = to]

(* Mutant: one attempt too many. *)
RetryOnceMore(j) ==
  job' = [job EXCEPT ![j].tries = @ + 1, ![j].ok = FALSE,
            ![j].pc = IF job[j].tries < MaxAttempts THEN "waiting" ELSE "failed"]

(* Mutant: a failed attempt is not counted. *)
RetryUncounted(j) == job' = [job EXCEPT ![j].pc = "waiting", ![j].ok = FALSE]

(* BullMQ: the attempt is over; the backoff is a wait like any other. *)
Retry(j) ==
  job' = [job EXCEPT ![j].tries = @ + 1, ![j].ok = FALSE,
            ![j].pc = IF job[j].tries + 1 < MaxAttempts THEN "waiting" ELSE "failed"]

Take(j) == Advance(j, "waiting", "post") /\ UNCHANGED <<endpoint, fanout, accepted, logged, lost>>

Accept(j) == accepted' = [accepted EXCEPT ![j] = IF @ < 2 THEN @ + 1 ELSE 2]

(* The endpoint takes the event and answers 2xx in time. *)
PostAccepted(j) ==
  /\ job[j].pc = "post"
  /\ job' = [job EXCEPT ![j].pc = "record", ![j].ok = TRUE]
  /\ Accept(j)
  /\ UNCHANGED <<endpoint, fanout, logged, lost>>

(* It answers otherwise: validateStatus lets every status through. *)
PostRejected(j) ==
  /\ Advance(j, "post", "record")
  /\ UNCHANGED <<endpoint, fanout, accepted, logged, lost>>

(* No answer in ten seconds, or no connection: the endpoint may have taken  *)
(* the event all the same.                                                  *)
PostUnanswered(j) ==
  /\ Advance(j, "post", "note")
  /\ \/ Accept(j) /\ lost' = lost \cup {j}
     \/ UNCHANGED <<accepted, lost>>
  /\ UNCHANGED <<endpoint, fanout, logged>>

(* Mutant: a recorded acceptance is thrown too. *)
RecordAndThrow(j) ==
  /\ job[j].pc = "record"
  /\ logged' = IF job[j].ok THEN logged \cup {j} ELSE logged
  /\ Retry(j)
  /\ UNCHANGED <<endpoint, fanout, accepted, lost>>

(* The delivery record; anything but success is thrown. *)
Record(j) ==
  /\ job[j].pc = "record"
  /\ logged' = IF job[j].ok THEN logged \cup {j} ELSE logged
  /\ IF job[j].ok THEN Advance(j, "record", "complete") ELSE Retry(j)
  /\ UNCHANGED <<endpoint, fanout, accepted, lost>>

(* The record of an answer cannot be written: the catch clause takes it for *)
(* a network error.                                                         *)
RecordFails(j) ==
  /\ Advance(j, "record", "note")
  /\ lost' = IF job[j].ok THEN lost \cup {j} ELSE lost
  /\ UNCHANGED <<endpoint, fanout, accepted, logged>>

(* The catch clause records a failure, or fails to, and throws. *)
Note(j) ==
  /\ job[j].pc = "note"
  /\ Retry(j)
  /\ UNCHANGED <<endpoint, fanout, accepted, logged, lost>>

Complete(j) ==
  /\ Advance(j, "complete", "done")
  /\ UNCHANGED <<endpoint, fanout, accepted, logged, lost>>

(* The worker dies: BullMQ finds the job stalled and queues it again, or    *)
(* fails it.                                                                *)
WorkerDies(j) ==
  /\ job[j].pc \in AtWork
  /\ job' = [job EXCEPT ![j].stalls = @ + 1, ![j].ok = FALSE,
               ![j].pc = IF job[j].stalls < MaxStalls THEN "waiting" ELSE "failed"]
  /\ lost' = IF job[j].ok THEN lost \cup {j} ELSE lost
  /\ UNCHANGED <<endpoint, fanout, accepted, logged>>

Work(j) == \/ Take(j) \/ PostAccepted(j) \/ PostRejected(j) \/ PostUnanswered(j)
           \/ Record(j) \/ RecordFails(j) \/ Note(j) \/ Complete(j)

WebhooksNext ==
  \/ \E e \in Endpoints : Configure(e)
  \/ \E v \in Events : Dispatch(v) \/ DispatcherDies(v) \/ \E e \in Endpoints : Enqueue(v, e)
  \/ \E j \in Jobs : Work(j) \/ WorkerDies(j)

(* Workers keep taking jobs, a post is answered or times out, and database  *)
(* statements end; nothing makes anybody dispatch, configure or die.        *)
WebhooksFairness == \A j \in Jobs : WF_webhookVars(Work(j))

WebhooksSpec == WebhooksInit /\ [][WebhooksNext]_webhookVars /\ WebhooksFairness

-----------------------------------------------------------------------------
Phase(j) ==
  CASE job[j].pc = "none"   -> "none"
    [] job[j].pc = "done"   -> "kept"
    [] job[j].pc = "failed" -> "abandoned"
    [] OTHER                -> "promised"

Promise == INSTANCE DeliveryPromise WITH
  Deliveries <- Jobs,
  phase      <- [j \in Jobs |-> Phase(j)],
  failures   <- [j \in Jobs |-> job[j].tries],
  stalls     <- [j \in Jobs |-> job[j].stalls]

(* Every queued job implements the promise of a delivery: tried until it is *)
(* on record or its attempts are used up, and one of the two happens,       *)
(* however posts, records and workers fail.                                 *)
PromisesKept == Promise!Spec

(* An endpoint takes an event twice only when an acceptance was lost on its *)
(* way to the queue: an answer after the timeout, a record that could not   *)
(* be written, a dead worker.  Without such a loss each event is taken      *)
(* once.  And the delivery log tells the truth: a success record means that *)
(* the endpoint took the event, and a job is done only with one on record.  *)
DeliveriesExplained ==
  \A j \in Jobs : /\ accepted[j] = 2 => j \in lost
                  /\ j \in logged => accepted[j] > 0
                  /\ job[j].pc = "done" => j \in logged
=============================================================================
