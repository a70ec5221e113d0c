------------------------------- MODULE Billing -------------------------------
(****************************************************************************)
(* Invoices and their payments: InvoiceService.update, remove, addItem,     *)
(* updateItem, removeItem and PaymentService.create.                        *)
(*                                                                          *)
(* A handler is a sequence of awaits, and every await that reaches the      *)
(* database or another service is one step here: between two of them any    *)
(* other request may run.  Only PaymentService.create is a transaction; the *)
(* others read an invoice, decide, and write back with no lock between.     *)
(*                                                                          *)
(* The initial states are the ones InvoiceService.create is written to      *)
(* leave: a DRAFT with the totals of its lines and its entries billed to it *)
(* (InvoiceCreation models create itself).                                  *)
(****************************************************************************)
EXTENDS Naturals, FiniteSetsExt

CONSTANTS
  Invoices, Requests,
  TimeEntries, Expenses,    \* billable entries
  Lines, LineAmounts,       \* ids and amounts of invoice items
  PaymentAmounts,
  TaxRates, DefaultTaxRate, \* whole multiples: the DTO admits 0 to 1
  PoolSize,                 \* connections of the Prisma client
  MayFail,                  \* whether a request may die between two awaits
  None

Status == {"DRAFT", "SENT", "PARTIALLY_PAID", "PAID", "OVERDUE", "CANCELLED"}

ASSUME ConstantsOK ==
  /\ PaymentAmounts \subseteq Nat \ {0}
  /\ LineAmounts \subseteq Nat
  /\ TaxRates \subseteq Nat /\ DefaultTaxRate \in TaxRates
  /\ PoolSize \in Nat /\ MayFail \in BOOLEAN
  /\ None \notin Invoices /\ None \notin Requests /\ None \notin Status
  /\ None \notin LineAmounts /\ None \notin TaxRates

VARIABLES
  row,       \* invoice table
  items,     \* invoice item table: the amount of each line, None if absent
  paid,      \* sum of the committed COMPLETED payments of an invoice
  billedTo,  \* invoiceId of each entry (isBilled goes with it)
  lock,      \* the transaction holding the row lock of an invoice
  told,      \* the invoices whose invoice.sent has been dispatched
  req,       \* the handlers in flight
  drifted,   \* history: the invoices whose totals rest on an older reading
  loosed     \* history: the invoices that stand without their entries

vars == <<row, items, paid, billedTo, lock, told, req, drifted, loosed>>
history == <<drifted, loosed>>

-----------------------------------------------------------------------------
StatusTransitions ==
  [DRAFT          |-> {"SENT", "CANCELLED"},
   SENT           |-> {"PAID", "PARTIALLY_PAID", "OVERDUE", "CANCELLED"},
   PARTIALLY_PAID |-> {"PAID", "OVERDUE", "CANCELLED"},
   OVERDUE        |-> {"PAID", "PARTIALLY_PAID", "CANCELLED"},
   CANCELLED      |-> {},
   PAID           |-> {}]

Payable == {"SENT", "PARTIALLY_PAID", "OVERDUE"}

Entries == TimeEntries \cup Expenses
Amounts == LineAmounts \cup {None}

LinesTotal(f) == MapThenSumSet(LAMBDA l : IF f[l] = None THEN 0 ELSE f[l], Lines)
WithTax(subtotal, rate) == subtotal + subtotal * rate

Subtotals == {LinesTotal(f) : f \in [Lines -> Amounts]}
Totals    == {WithTax(s, t) : s \in Subtotals, t \in TaxRates}

Row == [status : Status, deleted : BOOLEAN,
        subtotal : Subtotals, rate : TaxRates, total : Totals]

IdleJob   == [op |-> "none", pc |-> "idle"]
(* seen and subtotal: what update has read, kept for the fields it writes. *)
UpdateJob ==
  {j \in [op : {"update"}, pc : {"unmark_time", "unmark_expenses", "announce", "write"},
          inv : Invoices, seen : Status \cup {None}, subtotal : Subtotals \cup {None},
          status : Status \cup {None}, rate : TaxRates \cup {None}] :
     /\ j.status # None => j.seen \in Status
     /\ j.rate # None => j.subtotal \in Subtotals}
RemoveJob == [op : {"remove"}, pc : {"unmark_time", "unmark_expenses", "write"},
              inv : Invoices]
ItemJobIn(pcs, sums, rates) ==
  [op : {"addItem", "updateItem", "removeItem"}, pc : pcs,
   inv : Invoices, line : Lines, amount : Amounts, sum : sums, rate : rates]
ItemJob   == ItemJobIn({"find", "write_item", "sum"}, {None}, {None})
             \cup ItemJobIn({"rate"}, Subtotals, {None})
             \cup ItemJobIn({"write_totals"}, Subtotals, TaxRates)
PayJob    == [op : {"pay"}, pc : {"insert", "announce", "commit"},
              inv : Invoices, amount : PaymentAmounts, total : Totals, received : Nat,
              open : BOOLEAN, stale : BOOLEAN]

(* Every variable keeps its type; the fields of a handler are the locals of *)
(* the service method it runs.                                              *)
TypeOK ==
  /\ row \in [Invoices -> Row]
  /\ items \in [Invoices -> [Lines -> Amounts]]
  /\ paid \in [Invoices -> Nat]
  /\ billedTo \in [Entries -> Invoices \cup {None}]
  /\ lock \in [Invoices -> Requests \cup {None}]
  /\ told \subseteq Invoices
  /\ req \in [Requests -> {IdleJob} \cup UpdateJob \cup RemoveJob \cup ItemJob \cup PayJob]
  /\ drifted \subseteq Invoices /\ loosed \subseteq Invoices

Draft(f, rate) ==
  [status |-> "DRAFT", deleted |-> FALSE, subtotal |-> LinesTotal(f),
   rate |-> rate, total |-> WithTax(LinesTotal(f), rate)]

Init ==
  /\ items \in [Invoices -> [Lines -> Amounts]]
  /\ \E rates \in [Invoices -> TaxRates] :
       row = [i \in Invoices |-> Draft(items[i], rates[i])]
  /\ paid = [i \in Invoices |-> 0]
  /\ billedTo \in [Entries -> Invoices]
  /\ lock = [i \in Invoices |-> None]
  /\ told = {}
  /\ req = [r \in Requests |-> IdleJob]
  /\ drifted = {} /\ loosed = {}

-----------------------------------------------------------------------------
Idle(r) == req[r] = IdleJob
At(r, op, pc) == req[r].op = op /\ req[r].pc = pc
Goto(r, pc) == req' = [req EXCEPT ![r].pc = pc]
Start(r, job) == req' = [req EXCEPT ![r] = job]
Finish(r) == req' = [req EXCEPT ![r] = IdleJob]

(* An interactive transaction keeps its connection until it ends; any other *)
(* statement needs one for itself.                                          *)
InTransaction(r) == req[r].op = "pay" /\ req[r].open
ConnectionFree == Cardinality({r \in Requests : InTransaction(r)}) < PoolSize

(* r is done after writing the row of i: a transaction whose snapshot holds *)
(* the old row can no longer update it.                                     *)
FinishWriting(r, i) ==
  req' = [q \in Requests |->
            IF q = r THEN IdleJob
            ELSE IF req[q].op = "pay" /\ req[q].inv = i
                 THEN [req[q] EXCEPT !.stale = TRUE]
                 ELSE req[q]]

Released(r) == [i \in Invoices |-> IF lock[i] = r THEN None ELSE lock[i]]

-----------------------------------------------------------------------------
(* PATCH /invoices/:id.  status and rate are None when the body omits them; *)
(* a body with neither edits the notes.  The check of the metadata is after *)
(* the side effects in the code, but a request it rejects has had none.     *)
Changes(seen, status) == status \notin {None, seen.status}

(* Mutant: the transition table is not consulted. *)
UpdateAcceptedUnchecked(seen, status, rate) ==
  seen.status # "DRAFT" /\ rate # None => status # None

UpdateAccepted(seen, status, rate) ==
  /\ Changes(seen, status) => status \in StatusTransitions[seen.status]
  /\ seen.status # "DRAFT" /\ rate # None => status # None

(* Mutants: SENT is not announced; PAID releases the entries. *)
UpdateFirstStepSilent(seen, status) ==
  IF ~Changes(seen, status) THEN "write"
  ELSE IF status = "CANCELLED" THEN "unmark_time"
  ELSE IF status = "PAID" THEN "announce"
  ELSE "write"

UpdateFirstStepUnmarksPaid(seen, status) ==
  IF ~Changes(seen, status) THEN "write"
  ELSE IF status \in {"CANCELLED", "PAID"} THEN "unmark_time"
  ELSE IF status = "SENT" THEN "announce"
  ELSE "write"

UpdateFirstStep(seen, status) ==
  IF ~Changes(seen, status) THEN "write"
  ELSE IF status = "CANCELLED" THEN "unmark_time"
  ELSE IF status \in {"SENT", "PAID"} THEN "announce"
  ELSE "write"

UpdateRead(r, i, status, rate) ==
  /\ Idle(r) /\ ConnectionFree
  /\ ~row[i].deleted
  /\ UpdateAccepted(row[i], status, rate)
  /\ Start(r, [op |-> "update", pc |-> UpdateFirstStep(row[i], status),
               inv |-> i, seen |-> IF status = None THEN None ELSE row[i].status,
               subtotal |-> IF rate = None THEN None ELSE row[i].subtotal,
               status |-> status, rate |-> rate])
  /\ UNCHANGED <<row, items, paid, billedTo, lock, told, history>>

(* unmarkBilledEntries is two statements, time entries and then expenses. *)
Unlink(entries, i) ==
  billedTo' = [e \in Entries |->
                 IF e \in entries /\ billedTo[e] = i THEN None ELSE billedTo[e]]

UnmarkTimeEntries(r) ==
  /\ req[r].op \in {"update", "remove"} /\ req[r].pc = "unmark_time"
  /\ ConnectionFree
  /\ Unlink(TimeEntries, req[r].inv)
  /\ Goto(r, "unmark_expenses")
  /\ UNCHANGED <<row, items, paid, lock, told, history>>

UnmarkExpenses(r) ==
  /\ req[r].op \in {"update", "remove"} /\ req[r].pc = "unmark_expenses"
  /\ ConnectionFree
  /\ Unlink(Expenses, req[r].inv)
  /\ Goto(r, "write")
  /\ UNCHANGED <<row, items, paid, lock, told, history>>

(* The client and the webhook subscribers hear of SENT and PAID before the *)
(* invoice row says so.                                                     *)
AnnounceStatus(r) ==
  /\ At(r, "update", "announce") /\ ConnectionFree
  /\ told' = IF req[r].status = "SENT" THEN told \cup {req[r].inv} ELSE told
  /\ Goto(r, "write")
  /\ UNCHANGED <<row, items, paid, billedTo, lock, history>>

(* The row is written by its id alone, whatever has become of it since, and *)
(* a tax rate is applied to the subtotal that was read.                     *)
(* Mutant: the tax is added to the total instead of the subtotal. *)
UpdatedTaxOnTotal(old, job) ==
  [old EXCEPT
     !.status = IF job.status = None THEN @ ELSE job.status,
     !.rate   = IF job.rate = None THEN @ ELSE job.rate,
     !.total  = IF job.rate = None THEN @ ELSE WithTax(old.total, job.rate)]

Updated(old, job) ==
  [old EXCEPT
     !.status = IF job.status = None THEN @ ELSE job.status,
     !.rate   = IF job.rate = None THEN @ ELSE job.rate,
     !.total  = IF job.rate = None THEN @ ELSE WithTax(job.subtotal, job.rate)]

(* History: a rate applied to a subtotal no longer there, and a cancelled   *)
(* invoice taken back although its entries are gone.                        *)
UpdateWrite(r) ==
  LET i == req[r].inv
      late == req[r].rate # None /\ req[r].subtotal # row[i].subtotal
      back == row[i].status = "CANCELLED" /\ req[r].status \notin {None, "CANCELLED"}
  IN
  /\ At(r, "update", "write") /\ ConnectionFree
  /\ lock[i] = None
  /\ row' = [row EXCEPT ![i] = Updated(@, req[r])]
  /\ FinishWriting(r, i)
  /\ drifted' = IF late THEN drifted \cup {i} ELSE drifted
  /\ loosed'  = IF back THEN loosed \cup {i}
                ELSE IF req[r].status = "CANCELLED" THEN loosed \ {i} ELSE loosed
  /\ UNCHANGED <<items, paid, billedTo, lock, told>>

-----------------------------------------------------------------------------
(* DELETE /invoices/:id *)
(* Mutant: the entries are not released. *)
RemoveReadNoUnmark(r, i) ==
  /\ Idle(r) /\ ConnectionFree
  /\ ~row[i].deleted /\ row[i].status = "DRAFT"
  /\ Start(r, [op |-> "remove", pc |-> "write", inv |-> i])
  /\ UNCHANGED <<row, items, paid, billedTo, lock, told, history>>

RemoveRead(r, i) ==
  /\ Idle(r) /\ ConnectionFree
  /\ ~row[i].deleted /\ row[i].status = "DRAFT"
  /\ Start(r, [op |-> "remove", pc |-> "unmark_time", inv |-> i])
  /\ UNCHANGED <<row, items, paid, billedTo, lock, told, history>>

RemoveWrite(r) ==
  LET i == req[r].inv IN
  /\ At(r, "remove", "write") /\ ConnectionFree
  /\ lock[i] = None
  /\ row' = [row EXCEPT ![i].deleted = TRUE]
  /\ FinishWriting(r, i)
  /\ UNCHANGED <<items, paid, billedTo, lock, told, history>>

-----------------------------------------------------------------------------
(* POST, PATCH and DELETE /invoices/:id/items.  A new line takes an id that *)
(* no line and no other request has.                                        *)
FreshLine(i, l) ==
  /\ items[i][l] = None
  /\ \A q \in Requests : req[q].op = "addItem" /\ req[q].inv = i => req[q].line # l

ItemRead(r, i, op, l, amount) ==
  /\ Idle(r) /\ ConnectionFree
  /\ op = "removeItem" <=> amount = None
  /\ ~row[i].deleted /\ row[i].status = "DRAFT"
  /\ op = "addItem" => FreshLine(i, l)
  /\ Start(r, [op |-> op, pc |-> IF op = "addItem" THEN "write_item" ELSE "find",
               inv |-> i, line |-> l, amount |-> amount,
               sum |-> None, rate |-> None])
  /\ UNCHANGED <<row, items, paid, billedTo, lock, told, history>>

(* The line asked for is looked up, then changed by its id: it may be gone *)
(* at either step (404, then P2025).                                        *)
LineGone(r) == items[req[r].inv][req[r].line] = None

ItemFind(r) ==
  /\ req[r].op \in {"updateItem", "removeItem"} /\ req[r].pc = "find"
  /\ ConnectionFree
  /\ IF LineGone(r) THEN Finish(r) ELSE Goto(r, "write_item")
  /\ UNCHANGED <<row, items, paid, billedTo, lock, told, history>>

ItemWrite(r) ==
  /\ req[r].op \in {"addItem", "updateItem", "removeItem"} /\ req[r].pc = "write_item"
  /\ ConnectionFree
  /\ req[r].op # "addItem" => ~LineGone(r)
  /\ items' = [items EXCEPT ![req[r].inv][req[r].line] = req[r].amount]
  /\ Goto(r, "sum")
  /\ UNCHANGED <<row, paid, billedTo, lock, told, history>>

ItemWriteFails(r) ==
  /\ req[r].op \in {"updateItem", "removeItem"} /\ req[r].pc = "write_item"
  /\ ConnectionFree /\ LineGone(r)
  /\ Finish(r)
  /\ UNCHANGED <<row, items, paid, billedTo, lock, told, history>>

(* recalculateTotals: three statements. *)
ReadSum(r) ==
  /\ req[r].pc = "sum" /\ ConnectionFree
  /\ req' = [req EXCEPT ![r].sum = LinesTotal(items[req[r].inv]), ![r].pc = "rate"]
  /\ UNCHANGED <<row, items, paid, billedTo, lock, told, history>>

ReadRate(r) ==
  LET i == req[r].inv IN
  /\ req[r].pc = "rate" /\ ConnectionFree
  /\ req' = [req EXCEPT ![r].rate = IF row[i].deleted THEN DefaultTaxRate ELSE row[i].rate,
                        ![r].pc = "write_totals"]
  /\ UNCHANGED <<row, items, paid, billedTo, lock, told, history>>

(* Mutant: the subtotal is written without the total. *)
WriteTotalsSubtotalOnly(r) ==
  LET i == req[r].inv IN
  /\ req[r].pc = "write_totals" /\ ConnectionFree
  /\ lock[i] = None
  /\ row' = [row EXCEPT ![i].subtotal = req[r].sum]
  /\ FinishWriting(r, i)
  /\ UNCHANGED <<items, paid, billedTo, lock, told, history>>

(* History: the totals drift when the lines or the rate have changed since  *)
(* they were read, and are right again when they have not.                  *)
WriteTotals(r) ==
  LET i == req[r].inv
      current == req[r].sum = LinesTotal(items[i]) /\ req[r].rate = row[i].rate
  IN
  /\ req[r].pc = "write_totals" /\ ConnectionFree
  /\ lock[i] = None
  /\ row' = [row EXCEPT ![i].subtotal = req[r].sum,
                        ![i].total = WithTax(req[r].sum, req[r].rate)]
  /\ FinishWriting(r, i)
  /\ drifted' = IF current THEN drifted \ {i} ELSE drifted \cup {i}
  /\ UNCHANGED <<items, paid, billedTo, lock, told, loosed>>

-----------------------------------------------------------------------------
(* POST /payments: one Serializable transaction.  Its first query fixes the *)
(* snapshot; the rejections of a bad status or amount change nothing.       *)
PaymentAccepted(seen, received, amount) ==
  /\ ~seen.deleted
  /\ seen.status \in Payable
  /\ received + amount <= seen.total

PayRead(r, i, amount) ==
  /\ Idle(r) /\ ConnectionFree
  /\ PaymentAccepted(row[i], paid[i], amount)
  /\ Start(r, [op |-> "pay", pc |-> "insert", inv |-> i, amount |-> amount,
               total |-> row[i].total, received |-> paid[i], open |-> TRUE, stale |-> FALSE])
  /\ UNCHANGED <<row, items, paid, billedTo, lock, told, history>>

(* The payment and the new status are written, both invisible until commit; *)
(* the update of the invoice takes its row lock, and is refused (40001) if  *)
(* the row has changed since the snapshot.                                  *)
(* Mutant: READ COMMITTED, where a row that has changed is no conflict. *)
PayUpdateReadCommitted(r) ==
  LET i == req[r].inv IN
  /\ At(r, "pay", "insert") /\ req[r].open
  /\ lock[i] = None
  /\ lock' = [lock EXCEPT ![i] = r]
  /\ Goto(r, "announce")
  /\ UNCHANGED <<row, items, paid, billedTo, told, history>>

PayUpdate(r) ==
  LET i == req[r].inv IN
  /\ At(r, "pay", "insert") /\ req[r].open
  /\ lock[i] = None /\ ~req[r].stale
  /\ lock' = [lock EXCEPT ![i] = r]
  /\ Goto(r, "announce")
  /\ UNCHANGED <<row, items, paid, billedTo, told, history>>

PayConflict(r) ==
  /\ At(r, "pay", "insert") /\ req[r].open
  /\ lock[req[r].inv] = None /\ req[r].stale
  /\ Finish(r)
  /\ UNCHANGED <<row, items, paid, billedTo, lock, told, history>>

(* Notification, audit record and webhook go out on other connections while *)
(* the transaction waits, and even after it has expired.                    *)
PayAnnounce(r) ==
  /\ At(r, "pay", "announce") /\ ConnectionFree
  /\ Goto(r, "commit")
  /\ UNCHANGED <<row, items, paid, billedTo, lock, told, history>>

StatusAfter(received, total) ==
  IF received >= total THEN "PAID" ELSE "PARTIALLY_PAID"

PayCommit(r) ==
  LET i == req[r].inv
      received == req[r].received + req[r].amount
  IN
  /\ At(r, "pay", "commit") /\ req[r].open
  /\ row' = [row EXCEPT ![i].status = StatusAfter(received, req[r].total)]
  /\ paid' = [paid EXCEPT ![i] = @ + req[r].amount]
  /\ lock' = Released(r)
  /\ FinishWriting(r, i)
  /\ UNCHANGED <<items, billedTo, told, history>>

(* Prisma's timer (5 s by default) rolls the transaction back and frees its *)
(* connection; the callback runs on until its next use of the transaction.  *)
(* Mutant: the timer leaves the row locked. *)
PayExpireKeepsLock(r) ==
  /\ InTransaction(r)
  /\ req' = [req EXCEPT ![r].open = FALSE]
  /\ UNCHANGED <<row, items, paid, billedTo, lock, told, history>>

PayExpire(r) ==
  /\ InTransaction(r)
  /\ lock' = Released(r)
  /\ req' = [req EXCEPT ![r].open = FALSE]
  /\ UNCHANGED <<row, items, paid, billedTo, told, history>>

PayClosed(r) ==
  /\ req[r].op = "pay" /\ req[r].pc \in {"insert", "commit"} /\ ~req[r].open
  /\ Finish(r)
  /\ UNCHANGED <<row, items, paid, billedTo, lock, told, history>>

(* Between writing a line and its totals, and between letting entries go    *)
(* and writing the row that justifies it.                                   *)
Rewriting(r) == req[r].pc \in {"sum", "rate", "write_totals"}
LettingGo(r) ==
  \/ req[r].op \in {"update", "remove"} /\ req[r].pc = "unmark_expenses"
  \/ At(r, "remove", "write")
  \/ At(r, "update", "write") /\ req[r].status = "CANCELLED"

Standing(i) == row[i].status # "CANCELLED" /\ ~row[i].deleted

(* A statement fails, the serializable commit is refused, or the process    *)
(* dies: the request goes no further, and an open transaction rolls back.   *)
Fail(r) ==
  LET i == req[r].inv IN
  /\ MayFail /\ ~Idle(r)
  /\ lock' = Released(r)
  /\ Finish(r)
  /\ drifted' = IF Rewriting(r) THEN drifted \cup {i} ELSE drifted
  /\ loosed'  = IF LettingGo(r) /\ Standing(i) THEN loosed \cup {i} ELSE loosed
  /\ UNCHANGED <<row, items, paid, billedTo, told>>

-----------------------------------------------------------------------------
Begin(r) ==
  \E i \in Invoices :
    \/ \E status \in Status \cup {None}, rate \in TaxRates \cup {None} :
         UpdateRead(r, i, status, rate)
    \/ RemoveRead(r, i)
    \/ \E op \in {"addItem", "updateItem", "removeItem"},
          l \in Lines, amount \in Amounts : ItemRead(r, i, op, l, amount)
    \/ \E amount \in PaymentAmounts : PayRead(r, i, amount)

(* The statements that wait for a row lock. *)
LockStep(r) == UpdateWrite(r) \/ RemoveWrite(r) \/ WriteTotals(r)
               \/ PayUpdate(r) \/ PayConflict(r)

OtherStep(r) ==
  \/ UnmarkTimeEntries(r) \/ UnmarkExpenses(r) \/ AnnounceStatus(r)
  \/ ItemFind(r) \/ ItemWrite(r) \/ ItemWriteFails(r) \/ ReadSum(r) \/ ReadRate(r)
  \/ PayAnnounce(r) \/ PayCommit(r) \/ PayClosed(r)

Next == \E r \in Requests :
          Begin(r) \/ LockStep(r) \/ OtherStep(r) \/ PayExpire(r) \/ Fail(r)

Spec == Init /\ [][Next]_vars

(* A handler keeps running; connections and row locks are granted in the    *)
(* order they were asked for; the transaction timer fires.                  *)
Fairness == \A r \in Requests :
              /\ SF_vars(LockStep(r)) /\ SF_vars(OtherStep(r))
              /\ WF_vars(PayExpire(r))

FairSpec == Spec /\ Fairness

-----------------------------------------------------------------------------
Ledger == INSTANCE InvoiceLedger

(* "Serializable transaction to prevent concurrent overpayment": whatever   *)
(* requests run beside it, PaymentService.create takes effect as one atomic *)
(* payment, on a live, collectable invoice and within its balance.          *)
PaymentsAreAtomic == Ledger!Spec

(* No invoice is due, overdue or paid unless its client and the subscribers *)
(* of invoice.sent were told of it: update announces before it writes.      *)
NoSilentReceivable ==
  \A i \in Invoices :
    row[i].status \in Payable \cup {"PAID"} => i \in told

(* A cancelled or deleted invoice holds no time entry or expense: they are  *)
(* unlinked before the row is written, so they can be billed again.         *)
EntriesReleased ==
  \A i \in Invoices :
    row[i].status = "CANCELLED" \/ row[i].deleted => \A e \in Entries : billedTo[e] # i

(* What each handler in flight may rely on; with TypeOK, the invariant that *)
(* carries the three properties above.                                      *)
(* A payment that can still commit has read the invoice as it is, and holds *)
(* its row once it has written it.                                          *)
SnapshotOK(q) ==
  LET i == req[q].inv IN
  (InTransaction(q) /\ (req[q].pc = "insert" => ~req[q].stale)) =>
    /\ PaymentAccepted(row[i], paid[i], req[q].amount)
    /\ row[i].total = req[q].total /\ paid[i] = req[q].received
    /\ req[q].pc # "insert" => lock[i] = q

(* A status about to be written has been announced. *)
AnnouncedFirst(q) ==
  req[q].op = "update" =>
    /\ req[q].pc \in {"unmark_time", "unmark_expenses"} => req[q].status = "CANCELLED"
    /\ req[q].pc = "announce" =>
         \/ req[q].status = "SENT"
         \/ req[q].status = "PAID" /\ req[q].inv \in told
    /\ req[q].pc = "write" /\ req[q].status \in Payable \cup {"PAID"} =>
         req[q].inv \in told

(* An invoice about to be cancelled or deleted has let its entries go. *)
ReleasedFirst(q) ==
  LET Gone(entries) == \A e \in entries : billedTo[e] # req[q].inv IN
  /\ req[q].op \in {"update", "remove"} /\ req[q].pc = "unmark_expenses" => Gone(TimeEntries)
  /\ req[q].op = "remove" /\ req[q].pc = "write" => Gone(Entries)
  /\ req[q].op = "update" /\ req[q].pc = "write" /\ req[q].status = "CANCELLED"
       => Gone(Entries)

HandlersSound ==
  \A q \in Requests : SnapshotOK(q) /\ AnnouncedFirst(q) /\ ReleasedFirst(q)

(* Every handler ends: none waits for ever for a row lock or a connection,  *)
(* although a payment needs a second connection while it holds the first.   *)
RequestsEnd == \A r \in Requests : ~Idle(r) ~> Idle(r)

(* "Status changes follow validated transitions" (API-ENDPOINTS.md).        *)
StatusFollowsTable ==
  [][\A i \in Invoices :
       row'[i].status # row[i].status =>
         row'[i].status \in StatusTransitions[row[i].status]]_row

(* What the code does promise of them: the table is broken only by a PATCH  *)
(* whose invoice has changed status since it was read, it then goes where   *)
(* the table lets the status it read go, and no payment ever breaks it.     *)
StatusFollowsReading ==
  [][\A i \in Invoices :
       row'[i].status # row[i].status =>
         \/ row'[i].status \in StatusTransitions[row[i].status]
         \/ \E r \in Requests :
              /\ UpdateWrite(r) /\ req[r].inv = i
              /\ req[r].seen # row[i].status
              /\ row'[i].status \in {req[r].seen} \cup StatusTransitions[req[r].seen]]_vars

(* "Can only edit dueDate/taxRate on DRAFT invoices".                       *)
TaxFrozen ==
  [][\A i \in Invoices :
       row'[i].rate # row[i].rate => row[i].status = "DRAFT"]_row

Matched(i) == /\ row[i].subtotal = LinesTotal(items[i])
              /\ row[i].total = WithTax(row[i].subtotal, row[i].rate)

(* The totals of an invoice, sent or not, are those of its lines and rate,  *)
(* unless they were last written from a reading that lines or rate had left *)
(* behind, or a request died between a line and its totals: overlaps with   *)
(* payments, status changes and other readings never disturb them.          *)
TotalsMatchLines ==
  \A i \in Invoices \ drifted :
    Matched(i) \/ \E r \in Requests : Rewriting(r) /\ req[r].inv = i

(* An entry is unlinked, ready to be billed again, only if its bill no      *)
(* longer stands or is about to fall, unless the request that let it go     *)
(* died before it wrote the bill, or an overtaken PATCH took the cancelled  *)
(* bill back.  A payment never takes one back.                              *)
EntriesHeld ==
  (\E e \in Entries : billedTo[e] = None) =>
    \E i \in Invoices :
      \/ ~Standing(i) \/ i \in loosed
      \/ \E r \in Requests : LettingGo(r) /\ req[r].inv = i
=============================================================================
