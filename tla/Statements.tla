------------------------------ MODULE Statements -----------------------------
(****************************************************************************)
(* The accounts drawn up from one case's invoices: InvoiceService.getSummary *)
(* for the firm, PortalInvoicesService.getSummary for the client, the       *)
(* firm's StatsService.getInvoiceStats and getPaymentStats, and the client's *)
(* dashboard; beside payments and edits of the invoices.                    *)
(*                                                                          *)
(* A summary fetches the invoices with one query and their payments with    *)
(* another, with no snapshot over the two.  A payment is the one step of    *)
(* its serializable transaction.  A PATCH and an edit of the items are not: *)
(* they decide on a row read earlier, and write by its id.  Until then they *)
(* change nothing here, so that any number of them may be under way, begun  *)
(* at any moment: an edit lands on what the bill is now, having read any    *)
(* status the bill has held.  (The steps between are Billing's.)            *)
(****************************************************************************)
EXTENDS Integers, FiniteSets, Functions

CONSTANTS
  Bills,
  MaxTotal  \* bound: no bill comes to more

ASSUME StatementsOK == IsFiniteSet(Bills) /\ MaxTotal \in Nat

BillStatus == {"DRAFT", "SENT", "PARTIALLY_PAID", "PAID", "OVERDUE", "CANCELLED"}

VARIABLES
  bill,     \* each invoice's status and total, and the sum of its payments
  held,     \* the statuses each invoice has held: what edits may have read
  summary,  \* a summary being drawn up
  forced,   \* history: bills paid or retaxed by hand, or written on old news
  patched   \* history: a bill was changed by hand between the summary's queries

statementVars == <<bill, held, summary, forced, patched>>

BillRow == [status : BillStatus, total : 0..MaxTotal, paid : 0..MaxTotal]
NoSummary == [pc |-> "none"]
Summaries == [of : {"firm", "client"}, pc : {"payments"}, read : [Bills -> BillRow]]
        \cup [of : {"firm", "client"}, pc : {"drawn"},
              invoiced : Nat, paid : Nat, pending : Int, owed : Int]

(* Payments keep a bill's status and balance together, and never take more  *)
(* than it comes to.                                                        *)
StatementsTypeOK ==
  /\ bill \in [Bills -> BillRow]
  /\ held \in [Bills -> SUBSET BillStatus] /\ \A b \in Bills : bill[b].status \in held[b]
  /\ summary = NoSummary \/ summary \in Summaries
  /\ forced \subseteq Bills /\ patched \in BOOLEAN
  /\ \A b \in Bills \ forced : /\ bill[b].paid <= bill[b].total
                               /\ bill[b].status = "PAID" => bill[b].paid = bill[b].total

StatementsInit ==
  /\ bill \in [Bills -> {[status |-> "DRAFT", total |-> t, paid |-> 0] : t \in 0..MaxTotal}]
  /\ held = [b \in Bills |-> {"DRAFT"}]
  /\ summary = NoSummary /\ forced = {} /\ patched = FALSE

-----------------------------------------------------------------------------
(* The firm's summary counts drafts, the client's does not. *)
Counted(of) == IF of = "firm" THEN BillStatus \ {"CANCELLED"}
                              ELSE BillStatus \ {"DRAFT", "CANCELLED"}
BillsCounted(of, rows) == {b \in Bills : rows[b].status \in Counted(of)}

Owed(rows, b) == IF rows[b].status = "PAID" THEN 0 ELSE rows[b].total - rows[b].paid

Totals(rows)   == [b \in Bills |-> rows[b].total]
Payments(rows) == [b \in Bills |-> rows[b].paid]
Balances(rows) == [b \in Bills |-> Owed(rows, b)]

OwedOn(of, rows) == SumFunctionOnSet(Balances(rows), BillsCounted(of, rows))

(* The loop over the invoices; owed records what the truth is at this moment. *)
Drawn(of, rows) ==
  LET counted == BillsCounted(of, rows)
  IN  [of |-> of, pc |-> "drawn",
       invoiced |-> SumFunctionOnSet(Totals(rows), counted),
       paid     |-> SumFunctionOnSet(Payments(rows), counted),
       pending  |-> OwedOn(of, rows),
       owed     |-> OwedOn(of, bill)]

(* The first query: the invoices' rows. *)
FetchBills(of) ==
  /\ summary = NoSummary
  /\ summary' = [of |-> of, pc |-> "payments", read |-> bill]
  /\ patched' = FALSE
  /\ UNCHANGED <<bill, held, forced>>

(* Mutant: the payments are those fetched with the invoices before. *)
FetchPaymentsBefore ==
  /\ summary.pc = "payments"
  /\ summary' = Drawn(summary.of, summary.read)
  /\ UNCHANGED <<bill, held, forced, patched>>

(* The second query: the completed payments of those invoices, all that     *)
(* there are by now.                                                        *)
FetchPayments ==
  /\ summary.pc = "payments"
  /\ LET rows == [b \in Bills |-> [summary.read[b] EXCEPT !.paid = bill[b].paid]]
     IN  summary' = Drawn(summary.of, rows)
  /\ UNCHANGED <<bill, held, forced, patched>>

GiveSummary ==
  /\ summary.pc = "drawn"
  /\ summary' = NoSummary /\ patched' = FALSE
  /\ UNCHANGED <<bill, held, forced>>

PaidStatus(row, amount) ==
  IF row.paid + amount >= row.total THEN "PAID" ELSE "PARTIALLY_PAID"

(* The row of b is written. *)
BecomesBill(b, newRow) ==
  /\ bill' = [bill EXCEPT ![b] = newRow]
  /\ held' = [held EXCEPT ![b] = @ \cup {newRow.status}]

(* PaymentService.create *)
PayBill(b, amount) ==
  LET old == bill[b] IN
  /\ old.status \in {"SENT", "PARTIALLY_PAID", "OVERDUE"}
  /\ amount <= old.total - old.paid
  /\ BecomesBill(b, [old EXCEPT !.paid = @ + amount, !.status = PaidStatus(old, amount)])
  /\ UNCHANGED <<summary, forced, patched>>

BillTransitions ==
  [DRAFT          |-> {"SENT", "CANCELLED"},
   SENT           |-> {"PAID", "PARTIALLY_PAID", "OVERDUE", "CANCELLED"},
   PARTIALLY_PAID |-> {"PAID", "OVERDUE", "CANCELLED"},
   OVERDUE        |-> {"PAID", "PARTIALLY_PAID", "CANCELLED"},
   CANCELLED      |-> {},
   PAID           |-> {}]

(* A row written by hand, on what was read when the status was seen.        *)
(* History: it forces the bill when the status has changed since, when it   *)
(* sets PAID, which asks for no payment, and when it retaxes a bill that is *)
(* a draft no more.                                                         *)
EditBill(b, seen, newRow) ==
  LET old == bill[b] IN
  /\ BecomesBill(b, newRow)
  /\ forced' = IF \/ old.status # seen
                  \/ newRow.status = "PAID" /\ old.status # "PAID"
                  \/ newRow.total # old.total /\ old.status # "DRAFT"
               THEN forced \cup {b} ELSE forced
  /\ patched' = (patched \/ summary.pc = "payments")
  /\ UNCHANGED summary

(* InvoiceService.update with a status, and a tax rate if the total moves:  *)
(* a body that repeats the status it found may retax any bill.              *)
PatchBill(b, seen, status, total) ==
  /\ seen \in held[b]
  /\ status # seen => status \in BillTransitions[seen]
  /\ EditBill(b, seen, [bill[b] EXCEPT !.status = status, !.total = total])

(* InvoiceService.update with a tax rate alone, or an edit of the items: on *)
(* a bill that was read as a draft.                                         *)
RetaxBill(b, total) ==
  /\ "DRAFT" \in held[b]
  /\ EditBill(b, "DRAFT", [bill[b] EXCEPT !.total = total])

StatementsNext ==
  \/ \E of \in {"firm", "client"} : FetchBills(of)
  \/ FetchPayments \/ GiveSummary
  \/ \E b \in Bills :
       \/ \E amount \in 1..MaxTotal : PayBill(b, amount)
       \/ \E seen \in BillStatus, status \in BillStatus, total \in 0..MaxTotal :
            PatchBill(b, seen, status, total)
       \/ \E total \in 0..MaxTotal : RetaxBill(b, total)

StatementsSpec == StatementsInit /\ [][StatementsNext]_statementVars

-----------------------------------------------------------------------------
Standing(status) == {b \in Bills : bill[b].status = status}
TotalOf(bills) == SumFunctionOnSet(Totals(bill), bills)
OwedBy(bills)  == SumFunctionOnSet(Balances(bill), bills)

(* StatsService.getInvoiceStats counts as paid the total of the bills that  *)
(* are PAID; getPaymentStats adds up the payments.                          *)
PaidTotal == TotalOf(Standing("PAID"))
Collected == SumFunctionOnSet(Payments(bill), Bills)

(* PortalDashboardService.getDashboard takes the whole total of the bills   *)
(* it lists for pending: drafts too, and none that is partly paid.          *)
DashboardBills == {b \in Bills : bill[b].status \in {"DRAFT", "SENT", "OVERDUE"}}

Dashboard == [pending |-> TotalOf(DashboardBills),
              overdue |-> TotalOf(DashboardBills \cap Standing("OVERDUE"))]

(* The dashboard's pending is what the client owes, but for drafts, for     *)
(* what was paid on overdue bills, and for the bills partly paid.           *)
DashboardExplained ==
  Dashboard.pending - OwedOn("client", bill) =
    TotalOf(Standing("DRAFT")) + (Dashboard.overdue - OwedBy(Standing("OVERDUE")))
      - OwedBy(Standing("PARTIALLY_PAID"))

(* The accounts agree as long as bills are settled by payments only, and no *)
(* edit writes on what it read before another write. A summary balances,    *)
(* and shows pending exactly what is owed when it is drawn, however many    *)
(* payments fall between its two queries; nothing the statistics count as   *)
(* paid was not collected; and the client's dashboard departs from the      *)
(* client's summary in three known ways only.                               *)
AccountsAgree ==
  forced = {} =>
    /\ DashboardExplained
    /\ summary.pc = "drawn" => summary.invoiced = summary.paid + summary.pending
    /\ summary.pc = "drawn" /\ ~patched => summary.pending = summary.owed
    /\ PaidTotal <= Collected
=============================================================================
