------------------------------- MODULE MCQueue -------------------------------
(****************************************************************************)
(* One run for what waits in a queue: payments that wait for a connection   *)
(* of the pool, and the deliveries of the webhook queue.  The two share no  *)
(* state: a behaviour is of the part chosen at its start, so their states   *)
(* add up instead of multiplying.                                           *)
(****************************************************************************)
EXTENDS MCBilling, Webhooks

CONSTANTS v1, e1, e2

OneEvent     == {v1}
TwoEndpoints == {e1, e2}

VARIABLE part

QueueInit == part \in {"billing", "webhooks"} /\ SentInit /\ WebhooksInit

QueueNext ==
  \/ part = "billing" /\ Next /\ UNCHANGED <<part, webhookVars>>
  \/ part = "webhooks" /\ WebhooksNext /\ UNCHANGED <<part, vars>>

(* While one part runs, the other has nothing to be fair to: no handler has *)
(* begun, no job is queued.                                                 *)
QueueSpec ==
  /\ QueueInit
  /\ [][QueueNext]_<<part, vars, webhookVars>>
  /\ Fairness /\ WebhooksFairness
=============================================================================
