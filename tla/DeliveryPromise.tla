--------------------------- MODULE DeliveryPromise ---------------------------
(****************************************************************************)
(* What the webhook queue promises for an event and each of its             *)
(* subscribers: once promised, the delivery is tried until the endpoint's   *)
(* acceptance is on record, or is abandoned after MaxAttempts failures or   *)
(* more than MaxStalls dead workers; and one of the two happens.            *)
(****************************************************************************)
EXTENDS Naturals

CONSTANTS Deliveries, MaxAttempts, MaxStalls

VARIABLES
  phase,     \* of each delivery: "none", "promised", "kept" or "abandoned"
  failures,  \* its attempts that failed
  stalls     \* its workers that died

promise == <<phase, failures, stalls>>

Init ==
  /\ phase = [d \in Deliveries |-> "none"]
  /\ failures = [d \in Deliveries |-> 0]
  /\ stalls = [d \in Deliveries |-> 0]

Make(d) ==
  /\ phase[d] = "none"
  /\ phase' = [phase EXCEPT ![d] = "promised"]
  /\ UNCHANGED <<failures, stalls>>

Keep(d) ==
  /\ phase[d] = "promised"
  /\ phase' = [phase EXCEPT ![d] = "kept"]
  /\ UNCHANGED <<failures, stalls>>

(* The last failure abandons the delivery... *)
FailOnce(d) ==
  /\ phase[d] = "promised"
  /\ failures' = [failures EXCEPT ![d] = @ + 1]
  /\ phase' = IF failures[d] + 1 < MaxAttempts THEN phase
              ELSE [phase EXCEPT ![d] = "abandoned"]
  /\ UNCHANGED stalls

(* ... and so does one death too many. *)
Stall(d) ==
  /\ phase[d] = "promised"
  /\ stalls' = [stalls EXCEPT ![d] = @ + 1]
  /\ phase' = IF stalls[d] < MaxStalls THEN phase
              ELSE [phase EXCEPT ![d] = "abandoned"]
  /\ UNCHANGED failures

Settle(d) == Keep(d) \/ FailOnce(d) \/ Stall(d)

Next == \E d \in Deliveries : Make(d) \/ Settle(d)

Spec == Init /\ [][Next]_promise /\ \A d \in Deliveries : WF_promise(Settle(d))
=============================================================================
