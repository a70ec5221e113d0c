---------------------------- MODULE InvoiceLedger ----------------------------
(****************************************************************************)
(* What recording a payment promises, with no transaction, lock or snapshot *)
(* in sight: a payment is one atomic step that finds the invoice collectable *)
(* and the amount within the balance, and moves the invoice to the status   *)
(* the new balance calls for.  Everything else the billing service does to  *)
(* an invoice leaves the money received alone.                              *)
(* Billing implements this module (BillingProofs!BillingImplementsLedger).        *)
(****************************************************************************)
EXTENDS Naturals

CONSTANTS Invoices, PaymentAmounts

VARIABLES row,     \* the invoice table: row[i].status, .deleted and .total
          paid     \* the sum of the COMPLETED payments of each invoice

Collectable == {"SENT", "PARTIALLY_PAID", "OVERDUE"}

StatusAfter(received, total) ==
  IF received >= total THEN "PAID" ELSE "PARTIALLY_PAID"

Init == /\ \A i \in Invoices : row[i].status = "DRAFT" /\ ~row[i].deleted
        /\ paid = [i \in Invoices |-> 0]

Pay(i, amount) ==
  /\ ~row[i].deleted
  /\ row[i].status \in Collectable
  /\ paid[i] + amount <= row[i].total
  /\ paid' = [paid EXCEPT ![i] = @ + amount]
  /\ row'  = [row EXCEPT ![i].status = StatusAfter(paid[i] + amount, row[i].total)]

(* Any other operation rewrites one invoice and receives no money. *)
Edit(i) ==
  /\ \A j \in Invoices \ {i} : row'[j] = row[j]
  /\ UNCHANGED paid

Next == \E i \in Invoices :
          \/ Edit(i)
          \/ \E amount \in PaymentAmounts : Pay(i, amount)

Spec == Init /\ [][Next]_<<row, paid>>
=============================================================================
