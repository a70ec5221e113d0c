------------------------------ MODULE MCBilling ------------------------------
(* Instances of Billing for TLC. *)
EXTENDS Billing, TLC

CONSTANTS i1, r1, r2, t1, l1

OneInvoice   == {i1}
OneRequest   == {r1}
TwoRequests  == {r1, r2}
OneTimeEntry == {t1}
NoEntries    == {}
OneLine      == {l1}

(* The life of an invoice from the moment it is SENT: a state that          *)
(* UpdateRead, AnnounceStatus and UpdateWrite reach from Init.              *)
SentInit ==
  /\ items = [i \in Invoices |-> [l \in Lines |-> Max(LineAmounts)]]
  /\ row = [i \in Invoices |-> [Draft(items[i], 0) EXCEPT !.status = "SENT"]]
  /\ told = Invoices
  /\ paid = [i \in Invoices |-> 0]
  /\ billedTo \in [Entries -> Invoices]
  /\ lock = [i \in Invoices |-> None]
  /\ req = [r \in Requests |-> IdleJob]
  /\ drifted = {} /\ loosed = {}

SymTwo == Permutations(TwoRequests)
=============================================================================
