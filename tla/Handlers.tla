------------------------------ MODULE Handlers ------------------------------
(****************************************************************************)
(* What the service modules share: the requests of the Node process(es).    *)
(* A request that is being handled is a record of the method's locals, in   *)
(* which op names the method and pc the await it stands at.                 *)
(****************************************************************************)
CONSTANTS Requests, None

VARIABLE req \* the handlers in flight

IdleJob == [op |-> "none", pc |-> "idle"]

Idle(r) == req[r] = IdleJob
Doing(r, op, pc) == req[r].op = op /\ req[r].pc = pc

Start(r, job) == Idle(r) /\ req' = [req EXCEPT ![r] = job]
Goto(r, pc) == req' = [req EXCEPT ![r].pc = pc]
Finish(r) == req' = [req EXCEPT ![r] = IdleJob]
=============================================================================
