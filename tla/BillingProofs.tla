---------------------------- MODULE BillingProofs ----------------------------
(* Theorems about Billing, for every value of its constants. *)
EXTENDS Billing, TLAPS

Jobs == {IdleJob} \cup UpdateJob \cup RemoveJob \cup ItemJob \cup PayJob

(* The op of a handler tells which handler it is. *)
LEMMA JobOfOp ==
  ASSUME NEW j \in Jobs
  PROVE  /\ j.op = "update" => j \in UpdateJob
         /\ j.op = "remove" => j \in RemoveJob
         /\ j.op \in {"addItem", "updateItem", "removeItem"} => j \in ItemJob
         /\ j.op = "pay" => j \in PayJob
         /\ j.op = "none" <=> j = IdleJob
         /\ j.pc \in {"sum", "rate", "write_totals"} => j \in ItemJob
         /\ j.pc = "idle" <=> j = IdleJob
  BY DEF Jobs, IdleJob, UpdateJob, RemoveJob, ItemJob, ItemJobIn, PayJob

LEMMA TotalsClosed ==
  ASSUME NEW s \in Subtotals, NEW t \in TaxRates
  PROVE  WithTax(s, t) \in Totals
  BY DEF Totals

LEMMA SubtotalOfLines ==
  ASSUME NEW f \in [Lines -> Amounts]
  PROVE  LinesTotal(f) \in Subtotals
  BY DEF Subtotals

(* Marking the other transactions on an invoice stale keeps them typed. *)
LEMMA FinishWritingTyped ==
  ASSUME req \in [Requests -> Jobs], NEW r \in Requests, NEW i, FinishWriting(r, i)
  PROVE  req' \in [Requests -> Jobs]
<1> SUFFICES ASSUME NEW q \in Requests PROVE req'[q] \in Jobs
  BY DEF FinishWriting
<1>1. CASE q = r
  BY <1>1 DEF FinishWriting, Jobs
<1>2. CASE q # r /\ req[q].op = "pay" /\ req[q].inv = i
  <2>1. req[q] \in PayJob
    BY <1>2, JobOfOp
  <2>2. [req[q] EXCEPT !.stale = TRUE] \in PayJob
    BY <2>1 DEF PayJob
  <2> QED
    BY <1>2, <2>2 DEF FinishWriting, Jobs
<1>3. CASE q # r /\ ~(req[q].op = "pay" /\ req[q].inv = i)
  BY <1>3 DEF FinishWriting
<1> QED
  BY <1>1, <1>2, <1>3

-----------------------------------------------------------------------------
LEMMA TypeInit == Init => TypeOK
<1> SUFFICES ASSUME Init PROVE TypeOK
  OBVIOUS
<1>1. PICK rates \in [Invoices -> TaxRates] :
        row = [i \in Invoices |-> Draft(items[i], rates[i])]
  BY DEF Init
<1>2. \A i \in Invoices : LinesTotal(items[i]) \in Subtotals
  BY SubtotalOfLines DEF Init
<1>3. \A i \in Invoices : WithTax(LinesTotal(items[i]), rates[i]) \in Totals
  BY <1>2, TotalsClosed
<1>4. \A i \in Invoices : Draft(items[i], rates[i]) \in Row
  BY <1>2, <1>3 DEF Draft, Row, Status
<1>5. row \in [Invoices -> Row]
  BY <1>1, <1>4
<1>6. req \in [Requests -> Jobs]
  BY DEF Init, Jobs
<1>7. billedTo \in [Entries -> Invoices \cup {None}]
  BY DEF Init
<1> QED
  BY <1>5, <1>6, <1>7 DEF Init, TypeOK, Jobs

(* Setting the program counter of one handler, or its whole record. *)
LEMMA StartTyped ==
  ASSUME req \in [Requests -> Jobs], NEW r \in Requests, NEW job \in Jobs, Start(r, job)
  PROVE  req' \in [Requests -> Jobs]
  BY DEF Start

LEMMA FinishTyped ==
  ASSUME req \in [Requests -> Jobs], NEW r \in Requests, Finish(r)
  PROVE  req' \in [Requests -> Jobs]
  BY DEF Finish, Jobs

LEMMA UnlinkTyped ==
  ASSUME billedTo \in [Entries -> Invoices \cup {None}], NEW es, NEW i, Unlink(es, i)
  PROVE  billedTo' \in [Entries -> Invoices \cup {None}]
  BY DEF Unlink

LEMMA ReleasedTyped ==
  ASSUME lock \in [Invoices -> Requests \cup {None}], NEW r
  PROVE  Released(r) \in [Invoices -> Requests \cup {None}]
  BY DEF Released

LEMMA TypeStep == TypeOK /\ [Next]_vars => TypeOK'
<1> SUFFICES ASSUME TypeOK, [Next]_vars PROVE TypeOK'
  OBVIOUS
<1> USE ConstantsOK
<1>J. req \in [Requests -> Jobs]
  BY DEF TypeOK, Jobs
<1>R. row \in [Invoices -> Row]
  BY DEF TypeOK
<1>I. IdleJob \in Jobs
  BY DEF Jobs
<1>U. CASE UNCHANGED vars
  BY <1>U DEF vars, TypeOK
<1>N. ASSUME NEW r \in Requests,
             Begin(r) \/ LockStep(r) \/ OtherStep(r) \/ PayExpire(r) \/ Fail(r)
      PROVE  TypeOK'
  <2> DEFINE j == req[r]
  <2>j. j \in Jobs
    BY <1>J
  <2>1. ASSUME NEW i \in Invoices, NEW status \in Status \cup {None},
               NEW rate \in TaxRates \cup {None}, UpdateRead(r, i, status, rate)
        PROVE  TypeOK'
    <3>1. row[i].subtotal \in Subtotals /\ row[i].status \in Status
      BY DEF TypeOK, Row
    <3>2. UpdateFirstStep(row[i], status) \in {"unmark_time", "announce", "write"}
      BY DEF UpdateFirstStep
    <3> DEFINE job == [op |-> "update", pc |-> UpdateFirstStep(row[i], status), inv |-> i,
                       seen |-> IF status = None THEN None ELSE row[i].status,
                       subtotal |-> IF rate = None THEN None ELSE row[i].subtotal,
                       status |-> status, rate |-> rate]
    <3>3. job \in UpdateJob
      BY <3>1, <3>2 DEF UpdateJob
    <3>4. job \in Jobs
      BY <3>3 DEF Jobs
    <3>5. req' \in [Requests -> Jobs]
      BY <1>J, <2>1, <3>4 DEF UpdateRead, Start
    <3> QED
      BY <2>1, <3>5 DEF UpdateRead, TypeOK, Jobs, history
  <2>2. ASSUME NEW i \in Invoices, RemoveRead(r, i) PROVE TypeOK'
    <3> DEFINE job == [op |-> "remove", pc |-> "unmark_time", inv |-> i]
    <3>1. job \in Jobs
      BY DEF Jobs, RemoveJob
    <3>2. req' \in [Requests -> Jobs]
      BY <1>J, <2>2, <3>1 DEF RemoveRead, Start
    <3> QED
      BY <2>2, <3>2 DEF RemoveRead, TypeOK, Jobs, history
  <2>3. ASSUME NEW i \in Invoices, NEW op \in {"addItem", "updateItem", "removeItem"},
               NEW l \in Lines, NEW amount \in Amounts, ItemRead(r, i, op, l, amount)
        PROVE  TypeOK'
    <3> DEFINE job == [op |-> op, pc |-> IF op = "addItem" THEN "write_item" ELSE "find",
                       inv |-> i, line |-> l, amount |-> amount,
                       sum |-> None, rate |-> None]
    <3>1. job \in ItemJob
      BY DEF ItemJob, ItemJobIn
    <3>2. job \in Jobs
      BY <3>1 DEF Jobs
    <3>3. req' \in [Requests -> Jobs]
      BY <1>J, <2>3, <3>2 DEF ItemRead, Start
    <3> QED
      BY <2>3, <3>3 DEF ItemRead, TypeOK, Jobs, history
  <2>4. ASSUME NEW i \in Invoices, NEW amount \in PaymentAmounts, PayRead(r, i, amount)
        PROVE  TypeOK'
    <3> DEFINE job == [op |-> "pay", pc |-> "insert", inv |-> i, amount |-> amount,
                       total |-> row[i].total, received |-> paid[i],
                       open |-> TRUE, stale |-> FALSE]
    <3>1. row[i].total \in Totals /\ paid[i] \in Nat
      BY DEF TypeOK, Row
    <3>2. job \in PayJob
      BY <3>1 DEF PayJob
    <3>3. job \in Jobs
      BY <3>2 DEF Jobs
    <3>4. req' \in [Requests -> Jobs]
      BY <1>J, <2>4, <3>3 DEF PayRead, Start
    <3> QED
      BY <2>4, <3>4 DEF PayRead, TypeOK, Jobs, history
  <2>5. CASE UpdateWrite(r)
    <3>1. j \in UpdateJob
      BY <2>5, <2>j, JobOfOp DEF UpdateWrite, At
    <3>2. j.inv \in Invoices /\ (j.rate # None => j.subtotal \in Subtotals)
          /\ j.status \in Status \cup {None} /\ j.rate \in TaxRates \cup {None}
      BY <3>1 DEF UpdateJob
    <3>3. row[j.inv] \in Row
      BY <3>2 DEF TypeOK
    <3>4. Updated(row[j.inv], j) \in Row
      <4>1. j.rate # None => WithTax(j.subtotal, j.rate) \in Totals
        BY <3>2, TotalsClosed
      <4> QED
        BY <3>2, <3>3, <4>1 DEF Updated, Row
    <3>5. row' \in [Invoices -> Row]
      BY <1>R, <2>5, <3>2, <3>4 DEF UpdateWrite
    <3>6. req' \in [Requests -> Jobs]
      BY <1>J, <2>5, FinishWritingTyped DEF UpdateWrite
    <3> QED
      BY <2>5, <3>2, <3>5, <3>6 DEF UpdateWrite, TypeOK, Jobs, history
  <2>6. CASE RemoveWrite(r)
    <3>1. j.inv \in Invoices
      BY <2>6, <2>j, JobOfOp DEF RemoveWrite, At, RemoveJob
    <3>2. row' \in [Invoices -> Row]
      <4>1. [row[j.inv] EXCEPT !.deleted = TRUE] \in Row
        BY <1>R, <3>1 DEF Row
      <4>R. row' = [row EXCEPT ![j.inv] = [row[j.inv] EXCEPT !.deleted = TRUE]]
        BY <2>6 DEF RemoveWrite
      <4> QED
        BY <1>R, <3>1, <4>1, <4>R
    <3>3. req' \in [Requests -> Jobs]
      BY <1>J, <2>6, FinishWritingTyped DEF RemoveWrite
    <3> QED
      BY <2>6, <3>2, <3>3 DEF RemoveWrite, TypeOK, Jobs, history
  <2>7. CASE WriteTotals(r)
    <3>1. j \in ItemJob /\ j.pc = "write_totals"
      BY <2>7, <2>j, JobOfOp DEF WriteTotals
    <3>2. j.inv \in Invoices /\ j.sum \in Subtotals /\ j.rate \in TaxRates
      BY <3>1 DEF ItemJob, ItemJobIn
    <3>3. WithTax(j.sum, j.rate) \in Totals
      BY <3>2, TotalsClosed
    <3>4. row' \in [Invoices -> Row]
      <4>1. [row[j.inv] EXCEPT !.subtotal = j.sum, !.total = WithTax(j.sum, j.rate)] \in Row
        BY <1>R, <3>2, <3>3 DEF Row
      <4>R. row' = [row EXCEPT ![j.inv] =
                      [row[j.inv] EXCEPT !.subtotal = j.sum, !.total = WithTax(j.sum, j.rate)]]
        BY <2>7 DEF WriteTotals
      <4> QED
        BY <1>R, <3>2, <4>1, <4>R
    <3>5. req' \in [Requests -> Jobs]
      BY <1>J, <2>7, FinishWritingTyped DEF WriteTotals
    <3> QED
      BY <2>7, <3>2, <3>4, <3>5 DEF WriteTotals, TypeOK, Jobs, history
  <2>8. CASE PayUpdate(r)
    <3>1. j \in PayJob
      BY <2>8, <2>j, JobOfOp DEF PayUpdate, At
    <3>2. [j EXCEPT !.pc = "announce"] \in Jobs
      BY <3>1 DEF PayJob, Jobs
    <3>3. req' \in [Requests -> Jobs]
      BY <1>J, <2>8, <3>2 DEF PayUpdate, Goto
    <3> QED
      BY <2>8, <3>1, <3>3 DEF PayUpdate, PayJob, TypeOK, Jobs, history
  <2>9. CASE PayConflict(r)
    BY <1>J, <2>9, FinishTyped DEF PayConflict, TypeOK, Jobs, history
  <2>10. CASE UnmarkTimeEntries(r)
    <3>1. [j EXCEPT !.pc = "unmark_expenses"] \in Jobs
      BY <2>10, <2>j, JobOfOp DEF UnmarkTimeEntries, UpdateJob, RemoveJob, Jobs
    <3>2. req' \in [Requests -> Jobs]
      BY <1>J, <2>10, <3>1 DEF UnmarkTimeEntries, Goto
    <3> QED
      BY <2>10, <3>2, UnlinkTyped DEF UnmarkTimeEntries, TypeOK, Jobs, history
  <2>11. CASE UnmarkExpenses(r)
    <3>1. [j EXCEPT !.pc = "write"] \in Jobs
      BY <2>11, <2>j, JobOfOp DEF UnmarkExpenses, UpdateJob, RemoveJob, Jobs
    <3>2. req' \in [Requests -> Jobs]
      BY <1>J, <2>11, <3>1 DEF UnmarkExpenses, Goto
    <3> QED
      BY <2>11, <3>2, UnlinkTyped DEF UnmarkExpenses, TypeOK, Jobs, history
  <2>12. CASE AnnounceStatus(r)
    <3>1. j \in UpdateJob
      BY <2>12, <2>j, JobOfOp DEF AnnounceStatus, At
    <3>2. [j EXCEPT !.pc = "write"] \in Jobs
      BY <3>1 DEF UpdateJob, Jobs
    <3>3. req' \in [Requests -> Jobs]
      BY <1>J, <2>12, <3>2 DEF AnnounceStatus, Goto
    <3>4. told' \subseteq Invoices
      BY <2>12, <3>1 DEF AnnounceStatus, UpdateJob, TypeOK
    <3> QED
      BY <2>12, <3>3, <3>4 DEF AnnounceStatus, TypeOK, Jobs, history
  <2>13. CASE ItemFind(r)
    <3>1. j \in ItemJob /\ j.pc = "find"
      BY <2>13, <2>j, JobOfOp DEF ItemFind
    <3>2. [j EXCEPT !.pc = "write_item"] \in Jobs
      BY <3>1 DEF ItemJob, ItemJobIn, Jobs
    <3>3. req' \in [Requests -> Jobs]
      BY <1>J, <1>I, <2>13, <3>2 DEF ItemFind, Goto, Finish
    <3> QED
      BY <2>13, <3>3 DEF ItemFind, TypeOK, Jobs, history
  <2>14. CASE ItemWrite(r)
    <3>1. j \in ItemJob /\ j.pc = "write_item"
      BY <2>14, <2>j, JobOfOp DEF ItemWrite
    <3>2. [j EXCEPT !.pc = "sum"] \in Jobs
      BY <3>1 DEF ItemJob, ItemJobIn, Jobs
    <3>3. req' \in [Requests -> Jobs]
      BY <1>J, <2>14, <3>2 DEF ItemWrite, Goto
    <3>4. j.inv \in Invoices /\ j.line \in Lines /\ j.amount \in Amounts
      BY <3>1 DEF ItemJob, ItemJobIn
    <3>5. items' \in [Invoices -> [Lines -> Amounts]]
      BY <2>14, <3>4 DEF ItemWrite, TypeOK
    <3> QED
      BY <2>14, <3>3, <3>5 DEF ItemWrite, TypeOK, Jobs, history
  <2>15. CASE ItemWriteFails(r)
    BY <1>J, <2>15, FinishTyped DEF ItemWriteFails, TypeOK, Jobs, history
  <2>16. CASE ReadSum(r)
    <3>1. j \in ItemJob /\ j.pc = "sum"
      BY <2>16, <2>j, JobOfOp DEF ReadSum
    <3>2. j.inv \in Invoices
      BY <3>1 DEF ItemJob, ItemJobIn
    <3>3. LinesTotal(items[j.inv]) \in Subtotals
      BY <3>2, SubtotalOfLines DEF TypeOK
    <3>4. [j EXCEPT !.sum = LinesTotal(items[j.inv]), !.pc = "rate"] \in Jobs
      BY <3>1, <3>3 DEF ItemJob, ItemJobIn, Jobs
    <3>5. req' \in [Requests -> Jobs]
      BY <1>J, <2>16, <3>4 DEF ReadSum
    <3> QED
      BY <2>16, <3>5 DEF ReadSum, TypeOK, Jobs, history
  <2>17. CASE ReadRate(r)
    <3>1. j \in ItemJob /\ j.pc = "rate"
      BY <2>17, <2>j, JobOfOp DEF ReadRate
    <3> DEFINE rate == IF row[j.inv].deleted THEN DefaultTaxRate ELSE row[j.inv].rate
    <3>2. j.inv \in Invoices
      BY <3>1 DEF ItemJob, ItemJobIn
    <3>3. rate \in TaxRates
      BY <3>2 DEF TypeOK, Row
    <3>4. [j EXCEPT !.rate = rate, !.pc = "write_totals"] \in Jobs
      BY <3>1, <3>3 DEF ItemJob, ItemJobIn, Jobs
    <3>5. req' \in [Requests -> Jobs]
      BY <1>J, <2>17, <3>4 DEF ReadRate
    <3> QED
      BY <2>17, <3>5 DEF ReadRate, TypeOK, Jobs, history
  <2>18. CASE PayAnnounce(r)
    <3>1. j \in PayJob
      BY <2>18, <2>j, JobOfOp DEF PayAnnounce, At
    <3>2. [j EXCEPT !.pc = "commit"] \in Jobs
      BY <3>1 DEF PayJob, Jobs
    <3>3. req' \in [Requests -> Jobs]
      BY <1>J, <2>18, <3>2 DEF PayAnnounce, Goto
    <3> QED
      BY <2>18, <3>3 DEF PayAnnounce, TypeOK, Jobs, history
  <2>19. CASE PayCommit(r)
    <3>1. j \in PayJob
      BY <2>19, <2>j, JobOfOp DEF PayCommit, At
    <3>2. j.inv \in Invoices /\ j.amount \in Nat
      BY <3>1 DEF PayJob
    <3>3. row' \in [Invoices -> Row]
      <4>1. StatusAfter(j.received + j.amount, j.total) \in Status
        BY DEF StatusAfter, Status
      <4>2. [row[j.inv] EXCEPT !.status = StatusAfter(j.received + j.amount, j.total)] \in Row
        BY <1>R, <3>2, <4>1 DEF Row
      <4>R. row' = [row EXCEPT ![j.inv] =
                      [row[j.inv] EXCEPT !.status = StatusAfter(j.received + j.amount, j.total)]]
        BY <2>19 DEF PayCommit
      <4> QED
        BY <1>R, <3>2, <4>2, <4>R
    <3>4. paid' \in [Invoices -> Nat]
      BY <2>19, <3>2 DEF PayCommit, TypeOK
    <3>5. lock' \in [Invoices -> Requests \cup {None}]
      BY <2>19, ReleasedTyped DEF PayCommit, TypeOK
    <3>6. req' \in [Requests -> Jobs]
      BY <1>J, <2>19, FinishWritingTyped DEF PayCommit
    <3> QED
      BY <2>19, <3>3, <3>4, <3>5, <3>6 DEF PayCommit, TypeOK, Jobs, history
  <2>20. CASE PayClosed(r)
    BY <1>J, <2>20, FinishTyped DEF PayClosed, TypeOK, Jobs, history
  <2>21. CASE PayExpire(r)
    <3>1. j \in PayJob
      BY <2>21, <2>j, JobOfOp DEF PayExpire, InTransaction
    <3>2. [j EXCEPT !.open = FALSE] \in Jobs
      BY <3>1 DEF PayJob, Jobs
    <3>3. req' \in [Requests -> Jobs]
      BY <1>J, <2>21, <3>2 DEF PayExpire
    <3>4. lock' \in [Invoices -> Requests \cup {None}]
      BY <2>21, ReleasedTyped DEF PayExpire, TypeOK
    <3> QED
      BY <2>21, <3>3, <3>4 DEF PayExpire, TypeOK, Jobs, history
  <2>22. CASE Fail(r)
    <3>1. lock' \in [Invoices -> Requests \cup {None}]
      BY <2>22, ReleasedTyped DEF Fail, TypeOK
    <3>2. Rewriting(r) \/ LettingGo(r) => j.inv \in Invoices
      BY <2>j, JobOfOp DEF Rewriting, LettingGo, At, ItemJob, ItemJobIn, UpdateJob, RemoveJob
    <3>3. drifted' \subseteq Invoices /\ loosed' \subseteq Invoices
      BY <2>22, <3>2 DEF Fail, TypeOK
    <3>4. req' \in [Requests -> Jobs]
      BY <1>J, <2>22, FinishTyped DEF Fail
    <3> QED
      BY <2>22, <3>1, <3>3, <3>4 DEF Fail, TypeOK, Jobs
  <2> QED
    BY <1>N, <2>1, <2>2, <2>3, <2>4, <2>5, <2>6, <2>7, <2>8, <2>9, <2>10, <2>11,
       <2>12, <2>13, <2>14, <2>15, <2>16, <2>17, <2>18, <2>19, <2>20, <2>21, <2>22
       DEF Begin, LockStep, OtherStep
<1> QED
  BY <1>N, <1>U DEF Next

(* Every handler and table keeps its type, however requests interleave. *)
THEOREM TypeCorrect == Spec => []TypeOK
  BY TypeInit, TypeStep, PTL DEF Spec

-----------------------------------------------------------------------------
Snapshots == \A q \in Requests : SnapshotOK(q)

(* A step of r that writes no invoice row leaves the snapshots of the other *)
(* requests as they were.                                                   *)
LEMMA SnapshotLocal ==
  ASSUME TypeOK, Snapshots, NEW r \in Requests,
         UNCHANGED <<row, paid>>,
         \A k \in Invoices : lock[k] \in Requests \ {r} => lock'[k] = lock[k],
         \A q \in Requests \ {r} : req'[q] = req[q],
         SnapshotOK(r)'
  PROVE  Snapshots'
<1> SUFFICES ASSUME NEW q \in Requests, q # r PROVE SnapshotOK(q)'
  BY DEF Snapshots
<1>1. SnapshotOK(q) /\ req'[q] = req[q]
  BY DEF Snapshots
<1>2. req[q].op = "pay" => req[q].inv \in Invoices
  BY JobOfOp DEF TypeOK, Jobs, PayJob
<1> QED
  BY <1>1, <1>2 DEF SnapshotOK, InTransaction

(* A write of one invoice row, by a statement that found it unlocked or by  *)
(* the transaction that holds it, leaves every other transaction on that    *)
(* invoice stale.                                                           *)
LEMMA SnapshotWrite ==
  ASSUME TypeOK, Snapshots, NEW r \in Requests, NEW i \in Invoices,
         lock[i] \in {None, r},
         FinishWriting(r, i),
         \A k \in Invoices \ {i} : row'[k] = row[k] /\ paid'[k] = paid[k],
         \A k \in Invoices : lock[k] \in Requests \ {r} => lock'[k] = lock[k]
  PROVE  Snapshots'
<1> SUFFICES ASSUME NEW q \in Requests PROVE SnapshotOK(q)'
  BY DEF Snapshots
<1>1. SnapshotOK(q)
  BY DEF Snapshots
<1>2. CASE q = r
  BY <1>2 DEF FinishWriting, SnapshotOK, InTransaction, IdleJob
<1>3. CASE q # r /\ ~(req[q].op = "pay" /\ req[q].inv = i)
  <2>1. req'[q] = req[q]
    BY <1>3 DEF FinishWriting
  <2>2. req[q].op = "pay" => req[q].inv \in Invoices \ {i}
    BY <1>3, JobOfOp DEF TypeOK, Jobs, PayJob
  <2> QED
    BY <1>1, <1>3, <2>1, <2>2 DEF SnapshotOK, InTransaction
<1>4. CASE q # r /\ req[q].op = "pay" /\ req[q].inv = i
  <2>1. req[q] \in PayJob
    BY <1>4, JobOfOp DEF TypeOK, Jobs
  <2>2. req'[q] = [req[q] EXCEPT !.stale = TRUE]
    BY <1>4 DEF FinishWriting
  <2>3. /\ req'[q].stale /\ req'[q].op = "pay"
        /\ req'[q].pc = req[q].pc /\ req'[q].open = req[q].open
    BY <1>4, <2>1, <2>2 DEF PayJob
  <2>4. req[q].open => req[q].pc = "insert"
    BY <1>1, <1>4, ConstantsOK DEF SnapshotOK, InTransaction
  <2> QED
    BY <2>3, <2>4 DEF SnapshotOK, InTransaction
<1> QED
  BY <1>2, <1>3, <1>4

(* Expiry or failure of r frees its lock and no other.                      *)
LEMMA ReleasedOthers ==
  ASSUME NEW r \in Requests, lock' = Released(r)
  PROVE  \A k \in Invoices : lock[k] \in Requests \ {r} => lock'[k] = lock[k]
  BY DEF Released

LEMMA SnapshotStep == TypeOK /\ Snapshots /\ [Next]_vars => Snapshots'
<1> SUFFICES ASSUME TypeOK, Snapshots, [Next]_vars PROVE Snapshots'
  OBVIOUS
<1> USE ConstantsOK
<1>J. req \in [Requests -> Jobs]
  BY DEF TypeOK, Jobs
<1>U. CASE UNCHANGED vars
  BY <1>U DEF vars, Snapshots, SnapshotOK, InTransaction
<1>N. ASSUME NEW r \in Requests,
             Begin(r) \/ LockStep(r) \/ OtherStep(r) \/ PayExpire(r) \/ Fail(r)
      PROVE  Snapshots'
  <2> DEFINE j == req[r]
  <2>j. j \in Jobs
    BY <1>J
  <2>S. SnapshotOK(r)
    BY DEF Snapshots
  (* Steps of r after which it is no payment. *)
  <2>F. ASSUME UNCHANGED <<row, paid>>,
               \A k \in Invoices : lock[k] \in Requests \ {r} => lock'[k] = lock[k],
               \A q \in Requests \ {r} : req'[q] = req[q],
               req'[r].op # "pay" \/ ~req'[r].open
        PROVE  Snapshots'
    <3>1. SnapshotOK(r)'
      BY <2>F DEF SnapshotOK, InTransaction
    <3> QED
      BY <2>F, <3>1, SnapshotLocal
  <2>1. ASSUME NEW i \in Invoices, NEW status \in Status \cup {None},
               NEW rate \in TaxRates \cup {None}, UpdateRead(r, i, status, rate)
        PROVE  Snapshots'
    BY <1>J, <2>1, <2>F DEF UpdateRead, Start
  <2>2. ASSUME NEW i \in Invoices, RemoveRead(r, i) PROVE Snapshots'
    BY <1>J, <2>2, <2>F DEF RemoveRead, Start
  <2>3. ASSUME NEW i \in Invoices, NEW op \in {"addItem", "updateItem", "removeItem"},
               NEW l \in Lines, NEW amount \in Amounts, ItemRead(r, i, op, l, amount)
        PROVE  Snapshots'
    BY <1>J, <2>3, <2>F DEF ItemRead, Start
  <2>4. ASSUME NEW i \in Invoices, NEW amount \in PaymentAmounts, PayRead(r, i, amount)
        PROVE  Snapshots'
    <3>1. SnapshotOK(r)'
      BY <1>J, <2>4 DEF PayRead, Start, SnapshotOK, PaymentAccepted
    <3>2. \A q \in Requests \ {r} : req'[q] = req[q]
      BY <1>J, <2>4 DEF PayRead, Start
    <3> QED
      BY <2>4, <3>1, <3>2, SnapshotLocal DEF PayRead
  <2>5. CASE UpdateWrite(r)
    <3>1. j.inv \in Invoices
      BY <2>5, <2>j, JobOfOp DEF UpdateWrite, At, UpdateJob
    <3> QED
      BY <2>5, <3>1, SnapshotWrite DEF UpdateWrite, TypeOK
  <2>6. CASE RemoveWrite(r)
    <3>1. j.inv \in Invoices
      BY <2>6, <2>j, JobOfOp DEF RemoveWrite, At, RemoveJob
    <3> QED
      BY <2>6, <3>1, SnapshotWrite DEF RemoveWrite, TypeOK
  <2>7. CASE WriteTotals(r)
    <3>1. j.inv \in Invoices
      BY <2>7, <2>j, JobOfOp DEF WriteTotals, ItemJob, ItemJobIn
    <3> QED
      BY <2>7, <3>1, SnapshotWrite DEF WriteTotals, TypeOK
  <2>8. CASE PayUpdate(r)
    <3>1. j \in PayJob
      BY <2>8, <2>j, JobOfOp DEF PayUpdate, At
    <3>2. req' = [req EXCEPT ![r] = [j EXCEPT !.pc = "announce"]]
      BY <2>8, <1>J DEF PayUpdate, Goto
    <3>3. /\ req'[r].pc = "announce" /\ req'[r].op = "pay" /\ req'[r].inv = j.inv
          /\ req'[r].open = j.open /\ req'[r].total = j.total
          /\ req'[r].received = j.received /\ req'[r].amount = j.amount
      BY <1>J, <3>1, <3>2 DEF PayJob
    <3>4. j.inv \in Invoices /\ lock'[j.inv] = r
      BY <2>8, <3>1 DEF PayUpdate, PayJob, TypeOK
    <3>5. SnapshotOK(r)'
      BY <2>8, <2>S, <3>3, <3>4
         DEF PayUpdate, At, SnapshotOK, InTransaction, PaymentAccepted
    <3>6. \A k \in Invoices : lock[k] \in Requests \ {r} => lock'[k] = lock[k]
      BY <2>8 DEF PayUpdate, TypeOK
    <3>7. \A q \in Requests \ {r} : req'[q] = req[q]
      BY <1>J, <3>2
    <3> QED
      BY <2>8, <3>5, <3>6, <3>7, SnapshotLocal DEF PayUpdate
  <2>9. CASE PayConflict(r)
    BY <1>J, <2>9, <2>F DEF PayConflict, Finish, IdleJob
  <2>10. CASE UnmarkTimeEntries(r)
    <3>1. req'[r].op # "pay"
      BY <1>J, <2>10, <2>j, JobOfOp
         DEF UnmarkTimeEntries, Goto, UpdateJob, RemoveJob
    <3> QED
      BY <1>J, <2>10, <3>1, <2>F DEF UnmarkTimeEntries, Goto
  <2>11. CASE UnmarkExpenses(r)
    <3>1. req'[r].op # "pay"
      BY <1>J, <2>11, <2>j, JobOfOp
         DEF UnmarkExpenses, Goto, UpdateJob, RemoveJob
    <3> QED
      BY <1>J, <2>11, <3>1, <2>F DEF UnmarkExpenses, Goto
  <2>12. CASE AnnounceStatus(r)
    <3>1. req'[r].op # "pay"
      BY <1>J, <2>12, <2>j, JobOfOp DEF AnnounceStatus, At, Goto, UpdateJob
    <3> QED
      BY <1>J, <2>12, <3>1, <2>F DEF AnnounceStatus, Goto
  <2>13. CASE ItemFind(r) \/ ItemWrite(r)
    <3>1. j \in ItemJob
      BY <2>13, <2>j, JobOfOp DEF ItemFind, ItemWrite
    <3>2. req'[r].op # "pay"
      BY <1>J, <2>13, <3>1
         DEF ItemFind, ItemWrite, Goto, Finish, ItemJob, ItemJobIn, IdleJob
    <3> QED
      BY <1>J, <2>13, <3>2, <2>F DEF ItemFind, ItemWrite, Goto, Finish
  <2>14. CASE ItemWriteFails(r)
    BY <1>J, <2>14, <2>F DEF ItemWriteFails, Finish, IdleJob
  <2>15. CASE ReadSum(r) \/ ReadRate(r)
    <3>1. j \in ItemJob
      BY <2>15, <2>j, JobOfOp DEF ReadSum, ReadRate
    <3>2. req'[r].op # "pay"
      BY <1>J, <2>15, <3>1 DEF ReadSum, ReadRate, ItemJob, ItemJobIn
    <3> QED
      BY <1>J, <2>15, <3>2, <2>F DEF ReadSum, ReadRate
  <2>16. CASE PayAnnounce(r)
    <3>1. j \in PayJob
      BY <2>16, <2>j, JobOfOp DEF PayAnnounce, At
    <3>2. req' = [req EXCEPT ![r] = [j EXCEPT !.pc = "commit"]]
      BY <2>16, <1>J DEF PayAnnounce, Goto
    <3>3. /\ req'[r].pc = "commit" /\ req'[r].op = "pay" /\ req'[r].inv = j.inv
          /\ req'[r].open = j.open /\ req'[r].total = j.total
          /\ req'[r].received = j.received /\ req'[r].amount = j.amount
      BY <1>J, <3>1, <3>2 DEF PayJob
    <3>4. SnapshotOK(r)'
      BY <2>16, <2>S, <3>3
         DEF PayAnnounce, At, SnapshotOK, InTransaction, PaymentAccepted
    <3>5. \A q \in Requests \ {r} : req'[q] = req[q]
      BY <1>J, <3>2
    <3> QED
      BY <2>16, <3>4, <3>5, SnapshotLocal DEF PayAnnounce
  <2>17. CASE PayCommit(r)
    <3>1. j.inv \in Invoices
      BY <2>17, <2>j, JobOfOp DEF PayCommit, At, PayJob
    <3>2. lock[j.inv] = r
      BY <2>17, <2>S DEF PayCommit, At, SnapshotOK, InTransaction
    <3>3. \A k \in Invoices \ {j.inv} : row'[k] = row[k] /\ paid'[k] = paid[k]
      BY <2>17, <3>1 DEF PayCommit, TypeOK
    <3>4. \A k \in Invoices : lock[k] \in Requests \ {r} => lock'[k] = lock[k]
      BY <2>17, ReleasedOthers DEF PayCommit
    <3>5. FinishWriting(r, j.inv)
      BY <2>17 DEF PayCommit
    <3> QED
      BY <3>1, <3>2, <3>3, <3>4, <3>5, SnapshotWrite
  <2>18. CASE PayClosed(r)
    BY <1>J, <2>18, <2>F DEF PayClosed, Finish, IdleJob
  <2>19. CASE PayExpire(r)
    <3>1. j \in PayJob
      BY <2>19, <2>j, JobOfOp DEF PayExpire, InTransaction
    <3>2. req' = [req EXCEPT ![r] = [j EXCEPT !.open = FALSE]]
      BY <2>19, <1>J DEF PayExpire
    <3>3. ~req'[r].open
      BY <1>J, <3>1, <3>2 DEF PayJob
    <3>4. \A q \in Requests \ {r} : req'[q] = req[q]
      BY <1>J, <3>2
    <3> QED
      BY <2>19, <3>3, <3>4, <2>F, ReleasedOthers DEF PayExpire
  <2>20. CASE Fail(r)
    BY <1>J, <2>20, <2>F, ReleasedOthers DEF Fail, Finish, IdleJob
  <2> QED
    BY <1>N, <2>1, <2>2, <2>3, <2>4, <2>5, <2>6, <2>7, <2>8, <2>9, <2>10, <2>11,
       <2>12, <2>13, <2>14, <2>15, <2>16, <2>17, <2>18, <2>19, <2>20
       DEF Begin, LockStep, OtherStep
<1> QED
  BY <1>N, <1>U DEF Next

-----------------------------------------------------------------------------
(* Ending a write touches no other handler but to mark a payment stale.     *)
LEMMA FinishOthers ==
  ASSUME TypeOK, NEW r \in Requests, NEW i, FinishWriting(r, i)
  PROVE  /\ req'[r] = IdleJob
         /\ \A q \in Requests \ {r} :
              req'[q] = req[q] \/ (req[q].op = "pay" /\ req'[q].op = "pay")
<1>J. req \in [Requests -> Jobs]
  BY DEF TypeOK, Jobs
<1>1. req'[r] = IdleJob
  BY DEF FinishWriting
<1>2. ASSUME NEW q \in Requests \ {r}
      PROVE  req'[q] = req[q] \/ (req[q].op = "pay" /\ req'[q].op = "pay")
  <2>1. CASE req[q].op = "pay" /\ req[q].inv = i
    <3>1. req[q] \in PayJob
      BY <1>J, <2>1, JobOfOp
    <3>2. req'[q] = [req[q] EXCEPT !.stale = TRUE]
      BY <2>1 DEF FinishWriting
    <3> QED
      BY <2>1, <3>1, <3>2 DEF PayJob
  <2>2. CASE ~(req[q].op = "pay" /\ req[q].inv = i)
    BY <2>2 DEF FinishWriting
  <2> QED
    BY <2>1, <2>2
<1> QED
  BY <1>1, <1>2

Announced == NoSilentReceivable /\ \A q \in Requests : AnnouncedFirst(q)

LEMMA AnnouncedStep == TypeOK /\ Snapshots /\ Announced /\ [Next]_vars => Announced'
<1> SUFFICES ASSUME TypeOK, Snapshots, Announced, [Next]_vars PROVE Announced'
  OBVIOUS
<1> USE ConstantsOK
<1>J. req \in [Requests -> Jobs]
  BY DEF TypeOK, Jobs
<1>U. CASE UNCHANGED vars
  BY <1>U DEF vars, Announced, NoSilentReceivable, AnnouncedFirst
<1>N. ASSUME NEW r \in Requests,
             Begin(r) \/ LockStep(r) \/ OtherStep(r) \/ PayExpire(r) \/ Fail(r)
      PROVE  Announced'
  <2> DEFINE j == req[r]
             Told(i) == i \in told
  <2>j. j \in Jobs
    BY <1>J
  <2>A. AnnouncedFirst(r) /\ NoSilentReceivable
    BY DEF Announced
  (* Announcements stay made, so only the row written and r's own step count. *)
  <2>F. ASSUME told \subseteq told',
               \A i \in Invoices :
                 \/ row'[i].status = row[i].status
                 \/ row'[i].status \in Payable \cup {"PAID"} => Told(i),
               \A q \in Requests \ {r} : req'[q] = req[q] \/ req'[q].op # "update",
               req'[r].op # "update" \/ AnnouncedFirst(r)'
        PROVE  Announced'
    <3>1. NoSilentReceivable'
      BY <2>F, <2>A DEF NoSilentReceivable
    <3>2. ASSUME NEW q \in Requests PROVE AnnouncedFirst(q)'
      <4>1. CASE req'[q].op # "update"
        BY <4>1 DEF AnnouncedFirst
      <4>2. CASE req'[q] = req[q] /\ req[q].op = "update"
        <5>1. req[q].inv \in Invoices
          BY <1>J, <4>2, JobOfOp DEF UpdateJob
        <5>2. AnnouncedFirst(q)
          BY DEF Announced
        <5> QED
          BY <2>F, <4>2, <5>1, <5>2 DEF AnnouncedFirst
      <4>3. CASE q = r
        BY <2>F, <4>1, <4>3
      <4> QED
        BY <2>F, <4>1, <4>2, <4>3
    <3> QED
      BY <3>1, <3>2 DEF Announced
  <2>1. ASSUME NEW i \in Invoices, NEW status \in Status \cup {None},
               NEW rate \in TaxRates \cup {None}, UpdateRead(r, i, status, rate)
        PROVE  Announced'
    <3>1. /\ req'[r].op = "update" /\ req'[r].inv = i /\ req'[r].status = status
          /\ req'[r].pc = UpdateFirstStep(row[i], status)
          /\ \A q \in Requests \ {r} : req'[q] = req[q]
      BY <1>J, <2>1 DEF UpdateRead, Start
    <3>2. row[i].status \in Payable \cup {"PAID"} => Told(i)
      BY <2>A DEF NoSilentReceivable
    <3>3. row[i].status \in Status
      BY DEF TypeOK, Row
    <3>4. Changes(row[i], status) /\ status \in Payable \cup {"PAID"} =>
            status = "SENT" \/ Told(i)
      <4>1. SUFFICES ASSUME Changes(row[i], status), status \in Payable \cup {"PAID"},
                            status # "SENT"
                     PROVE  row[i].status \in Payable \cup {"PAID"}
        BY <3>2
      <4>2. status \in StatusTransitions[row[i].status]
        BY <2>1, <4>1 DEF UpdateRead, UpdateAccepted
      <4> QED
        BY <3>3, <4>1, <4>2 DEF StatusTransitions, Status, Payable
    <3>5. AnnouncedFirst(r)'
      <4>1. told' = told
        BY <2>1 DEF UpdateRead
      <4>2. CASE ~Changes(row[i], status)
        <5>1. req'[r].pc = "write"
          BY <3>1, <4>2 DEF UpdateFirstStep
        <5>2. status \in Payable \cup {"PAID"} => status = row[i].status
          BY <4>2 DEF Changes, Status, Payable
        <5> QED
          BY <3>1, <3>2, <4>1, <5>1, <5>2 DEF AnnouncedFirst
      <4>3. CASE Changes(row[i], status) /\ status = "CANCELLED"
        <5>1. req'[r].pc = "unmark_time"
          BY <3>1, <4>3 DEF UpdateFirstStep
        <5> QED
          BY <3>1, <4>3, <5>1 DEF AnnouncedFirst
      <4>4. CASE Changes(row[i], status) /\ status \in {"SENT", "PAID"}
        <5>1. req'[r].pc = "announce"
          BY <3>1, <4>4 DEF UpdateFirstStep
        <5>2. status = "SENT" \/ (status = "PAID" /\ Told(i))
          BY <3>4, <4>4 DEF Payable
        <5>3. req'[r].status = status /\ req'[r].inv = i
          BY <3>1
        <5> QED
          BY <4>1, <5>1, <5>2, <5>3 DEF AnnouncedFirst
      <4>5. CASE Changes(row[i], status) /\ status \notin {"CANCELLED", "SENT", "PAID"}
        <5>1. req'[r].pc = "write"
          BY <3>1, <4>5 DEF UpdateFirstStep
        <5> QED
          BY <3>1, <3>4, <4>1, <4>5, <5>1 DEF AnnouncedFirst
      <4> QED
        BY <4>2, <4>3, <4>4, <4>5
    <3> QED
      BY <2>1, <2>F, <3>1, <3>5 DEF UpdateRead
  <2>2. ASSUME NEW i \in Invoices, RemoveRead(r, i) PROVE Announced'
    BY <1>J, <2>2, <2>F DEF RemoveRead, Start
  <2>3. ASSUME NEW i \in Invoices, NEW op \in {"addItem", "updateItem", "removeItem"},
               NEW l \in Lines, NEW amount \in Amounts, ItemRead(r, i, op, l, amount)
        PROVE  Announced'
    BY <1>J, <2>3, <2>F DEF ItemRead, Start
  <2>4. ASSUME NEW i \in Invoices, NEW amount \in PaymentAmounts, PayRead(r, i, amount)
        PROVE  Announced'
    BY <1>J, <2>4, <2>F DEF PayRead, Start
  <2>5. CASE UpdateWrite(r)
    <3>1. j \in UpdateJob /\ j.inv \in Invoices
      BY <2>5, <2>j, JobOfOp DEF UpdateWrite, At, UpdateJob
    <3>2. Updated(row[j.inv], j).status \in {row[j.inv].status, j.status}
      BY <3>1 DEF Updated, TypeOK, Row
    <3>3. j.status \in Payable \cup {"PAID"} => Told(j.inv)
      BY <2>5, <2>A DEF UpdateWrite, At, AnnouncedFirst
    <3>4. \A i \in Invoices : \/ row'[i].status = row[i].status
                              \/ row'[i].status \in Payable \cup {"PAID"} => Told(i)
      BY <2>5, <3>1, <3>2, <3>3 DEF UpdateWrite, TypeOK
    <3>5. req'[r] = IdleJob
          /\ \A q \in Requests \ {r} : req'[q] = req[q] \/ req'[q].op # "update"
      BY <2>5, FinishOthers DEF UpdateWrite
    <3> QED
      BY <2>5, <2>F, <3>4, <3>5 DEF UpdateWrite, IdleJob
  <2>6. CASE RemoveWrite(r)
    <3>1. \A i \in Invoices : row'[i].status = row[i].status
      BY <2>6 DEF RemoveWrite, TypeOK, Row
    <3>2. req'[r] = IdleJob
          /\ \A q \in Requests \ {r} : req'[q] = req[q] \/ req'[q].op # "update"
      BY <2>6, FinishOthers DEF RemoveWrite
    <3> QED
      BY <2>6, <2>F, <3>1, <3>2 DEF RemoveWrite, IdleJob
  <2>7. CASE WriteTotals(r)
    <3>1. \A i \in Invoices : row'[i].status = row[i].status
      BY <2>7 DEF WriteTotals, TypeOK, Row
    <3>2. req'[r] = IdleJob
          /\ \A q \in Requests \ {r} : req'[q] = req[q] \/ req'[q].op # "update"
      BY <2>7, FinishOthers DEF WriteTotals
    <3>3. told \subseteq told'
      BY <2>7 DEF WriteTotals
    <3>4. req'[r].op # "update"
      BY <3>2 DEF IdleJob
    <3> QED
      BY <2>F, <3>1, <3>2, <3>3, <3>4
  <2>8. CASE PayUpdate(r) \/ PayAnnounce(r) \/ PayExpire(r)
    <3>1. j \in PayJob
      BY <2>8, <2>j, JobOfOp DEF PayUpdate, PayAnnounce, PayExpire, InTransaction, At
    <3>2. req'[r].op # "update" /\ \A q \in Requests \ {r} : req'[q] = req[q]
      BY <1>J, <2>8, <3>1 DEF PayUpdate, PayAnnounce, PayExpire, Goto, PayJob
    <3>3. told \subseteq told'
      BY <2>8 DEF PayUpdate, PayAnnounce, PayExpire, TypeOK
    <3> QED
      BY <2>8, <2>F, <3>2, <3>3 DEF PayUpdate, PayAnnounce, PayExpire
  <2>9. CASE PayConflict(r) \/ PayClosed(r) \/ Fail(r) \/ ItemWriteFails(r)
    BY <1>J, <2>9, <2>F DEF PayConflict, PayClosed, Fail, ItemWriteFails, Finish, IdleJob
  <2>10. CASE UnmarkTimeEntries(r) \/ UnmarkExpenses(r)
    <3>1. j \in UpdateJob \/ j \in RemoveJob
      BY <2>10, <2>j, JobOfOp DEF UnmarkTimeEntries, UnmarkExpenses
    <3>2. /\ req'[r].op = j.op
          /\ req'[r].pc \in {"unmark_expenses", "write"}
          /\ req'[r].op = "update" => req'[r].status = j.status
          /\ \A q \in Requests \ {r} : req'[q] = req[q]
      BY <1>J, <2>10, <3>1 DEF UnmarkTimeEntries, UnmarkExpenses, Goto, UpdateJob, RemoveJob
    <3>3. j.op = "update" => j.status = "CANCELLED"
      BY <2>10, <2>A DEF UnmarkTimeEntries, UnmarkExpenses, AnnouncedFirst
    <3>4. AnnouncedFirst(r)'
      BY <3>2, <3>3 DEF AnnouncedFirst, Payable
    <3> QED
      BY <2>10, <2>F, <3>2, <3>4 DEF UnmarkTimeEntries, UnmarkExpenses
  <2>11. CASE AnnounceStatus(r)
    <3>1. j \in UpdateJob /\ j.inv \in Invoices
      BY <2>11, <2>j, JobOfOp DEF AnnounceStatus, At, UpdateJob
    <3>2. /\ req'[r].pc = "write" /\ req'[r].inv = j.inv
          /\ \A q \in Requests \ {r} : req'[q] = req[q]
      BY <1>J, <2>11, <3>1 DEF AnnounceStatus, Goto, UpdateJob
    <3>3. told \subseteq told'
      BY <2>11 DEF AnnounceStatus, TypeOK
    <3>4. j.status = "SENT" \/ Told(j.inv)
      BY <2>11, <2>A DEF AnnounceStatus, At, AnnouncedFirst
    <3>5. j.inv \in told'
      BY <2>11, <3>1, <3>3, <3>4 DEF AnnounceStatus, TypeOK
    <3>6. AnnouncedFirst(r)'
      BY <3>2, <3>5 DEF AnnouncedFirst
    <3> QED
      BY <2>11, <2>F, <3>2, <3>3, <3>6 DEF AnnounceStatus
  <2>12. CASE ItemFind(r) \/ ItemWrite(r) \/ ReadSum(r) \/ ReadRate(r)
    <3>1. j \in ItemJob
      BY <2>12, <2>j, JobOfOp DEF ItemFind, ItemWrite, ReadSum, ReadRate
    <3>2. req'[r].op # "update" /\ \A q \in Requests \ {r} : req'[q] = req[q]
      BY <1>J, <2>12, <3>1 DEF ItemFind, ItemWrite, ReadSum, ReadRate,
                               Goto, Finish, IdleJob, ItemJob, ItemJobIn
    <3> QED
      BY <2>12, <2>F, <3>2 DEF ItemFind, ItemWrite, ReadSum, ReadRate
  <2>13. CASE PayCommit(r)
    <3>1. j.inv \in Invoices
      BY <2>13, <2>j, JobOfOp DEF PayCommit, At, PayJob
    <3>2. SnapshotOK(r)
      BY DEF Snapshots
    <3>3. row[j.inv].status \in Payable
      BY <2>13, <3>2 DEF PayCommit, At, SnapshotOK, InTransaction, PaymentAccepted
    <3>4. Told(j.inv)
      BY <2>A, <3>1, <3>3 DEF NoSilentReceivable
    <3>5. \A i \in Invoices : row'[i].status = row[i].status \/ Told(i)
      BY <2>13, <3>1, <3>4 DEF PayCommit, TypeOK, Row
    <3>6. req'[r] = IdleJob
          /\ \A q \in Requests \ {r} : req'[q] = req[q] \/ req'[q].op # "update"
      BY <2>13, FinishOthers DEF PayCommit
    <3> QED
      BY <2>13, <2>F, <3>5, <3>6 DEF PayCommit, IdleJob
  <2> QED
    BY <1>N, <2>1, <2>2, <2>3, <2>4, <2>5, <2>6, <2>7, <2>8, <2>9, <2>10, <2>11,
       <2>12, <2>13 DEF Begin, LockStep, OtherStep
<1> QED
  BY <1>N, <1>U DEF Next

-----------------------------------------------------------------------------
Releasing == EntriesReleased /\ \A q \in Requests : ReleasedFirst(q)

LEMMA ReleasingStep == TypeOK /\ Announced /\ Releasing /\ [Next]_vars => Releasing'
<1> SUFFICES ASSUME TypeOK, Announced, Releasing, [Next]_vars PROVE Releasing'
  OBVIOUS
<1> USE ConstantsOK
<1>J. req \in [Requests -> Jobs]
  BY DEF TypeOK, Jobs
<1>U. CASE UNCHANGED vars
  BY <1>U DEF vars, Releasing, EntriesReleased, ReleasedFirst
<1>N. ASSUME NEW r \in Requests,
             Begin(r) \/ LockStep(r) \/ OtherStep(r) \/ PayExpire(r) \/ Fail(r)
      PROVE  Releasing'
  <2> DEFINE j == req[r]
             Gone(i, entries) == \A e \in entries : billedTo[e] # i
             Dead(rw) == rw.status = "CANCELLED" \/ rw.deleted
  <2>j. j \in Jobs
    BY <1>J
  <2>R. ReleasedFirst(r) /\ EntriesReleased
    BY DEF Releasing
  (* No step links an entry to an invoice, so only the row written and r's  *)
  (* own progress count.                                                    *)
  <2>F. ASSUME \A e \in Entries : billedTo'[e] \in {billedTo[e], None},
               \A i \in Invoices : Dead(row'[i]) => Dead(row[i]) \/ Gone(i, Entries),
               \A q \in Requests \ {r} :
                 req'[q] = req[q] \/ req'[q].op \notin {"update", "remove"},
               req'[r].op \notin {"update", "remove"} \/ ReleasedFirst(r)'
        PROVE  Releasing'
    <3>1. EntriesReleased'
      BY <2>F, <2>R DEF EntriesReleased
    <3>2. ASSUME NEW q \in Requests PROVE ReleasedFirst(q)'
      <4>1. CASE req'[q].op \notin {"update", "remove"}
        BY <4>1 DEF ReleasedFirst
      <4>2. CASE req'[q] = req[q] /\ req[q].op \in {"update", "remove"}
        <5>1. req[q].inv \in Invoices
          BY <1>J, <4>2, JobOfOp DEF UpdateJob, RemoveJob
        <5>2. ReleasedFirst(q)
          BY DEF Releasing
        <5> QED
          BY <2>F, <4>2, <5>1, <5>2 DEF ReleasedFirst, Entries
      <4>3. CASE q = r
        BY <2>F, <4>1, <4>3
      <4> QED
        BY <2>F, <4>1, <4>2, <4>3
    <3> QED
      BY <3>1, <3>2 DEF Releasing
  <2>1. ASSUME NEW i \in Invoices, NEW status \in Status \cup {None},
               NEW rate \in TaxRates \cup {None}, UpdateRead(r, i, status, rate)
        PROVE  Releasing'
    <3>1. /\ req'[r].op = "update" /\ req'[r].inv = i /\ req'[r].status = status
          /\ req'[r].pc = UpdateFirstStep(row[i], status)
          /\ \A q \in Requests \ {r} : req'[q] = req[q]
      BY <1>J, <2>1 DEF UpdateRead, Start
    <3>2. req'[r].pc # "unmark_expenses"
      BY <3>1 DEF UpdateFirstStep
    <3>3. req'[r].pc = "write" /\ status = "CANCELLED" => row[i].status = "CANCELLED"
      BY <3>1 DEF UpdateFirstStep, Changes, Status
    <3>4. row[i].status = "CANCELLED" => Gone(i, Entries)
      BY <2>R DEF EntriesReleased
    <3>5. billedTo' = billedTo /\ row' = row
      BY <2>1 DEF UpdateRead
    <3>6. ReleasedFirst(r)'
      <4>1. req'[r].op # "remove"
        BY <3>1
      <4>2. req'[r].pc = "write" /\ req'[r].status = "CANCELLED" =>
              \A e \in Entries : billedTo'[e] # req'[r].inv
        BY <3>1, <3>3, <3>4, <3>5
      <4> QED
        BY <3>2, <4>1, <4>2 DEF ReleasedFirst
    <3> QED
      BY <2>F, <3>1, <3>5, <3>6
  <2>2. ASSUME NEW i \in Invoices, RemoveRead(r, i) PROVE Releasing'
    <3>1. /\ req'[r].op = "remove" /\ req'[r].pc = "unmark_time"
          /\ \A q \in Requests \ {r} : req'[q] = req[q]
      BY <1>J, <2>2 DEF RemoveRead, Start
    <3>2. ReleasedFirst(r)'
      BY <3>1 DEF ReleasedFirst
    <3> QED
      BY <2>2, <2>F, <3>1, <3>2 DEF RemoveRead
  <2>3. ASSUME NEW i \in Invoices, NEW op \in {"addItem", "updateItem", "removeItem"},
               NEW l \in Lines, NEW amount \in Amounts, ItemRead(r, i, op, l, amount)
        PROVE  Releasing'
    BY <1>J, <2>3, <2>F DEF ItemRead, Start
  <2>4. ASSUME NEW i \in Invoices, NEW amount \in PaymentAmounts, PayRead(r, i, amount)
        PROVE  Releasing'
    BY <1>J, <2>4, <2>F DEF PayRead, Start
  <2>5. CASE UpdateWrite(r)
    <3>1. j \in UpdateJob /\ j.inv \in Invoices
      BY <2>5, <2>j, JobOfOp DEF UpdateWrite, At, UpdateJob
    <3>2. /\ Updated(row[j.inv], j).status \in {row[j.inv].status, j.status}
          /\ Updated(row[j.inv], j).deleted = row[j.inv].deleted
      BY <3>1 DEF Updated, TypeOK, Row
    <3>3. j.status = "CANCELLED" => Gone(j.inv, Entries)
      BY <2>5, <2>R DEF UpdateWrite, At, ReleasedFirst
    <3>4. \A i \in Invoices : Dead(row'[i]) => Dead(row[i]) \/ Gone(i, Entries)
      BY <2>5, <3>1, <3>2, <3>3 DEF UpdateWrite, TypeOK
    <3>5. req'[r].op = "none"
          /\ \A q \in Requests \ {r} : req'[q] = req[q] \/ req'[q].op = "pay"
      BY <2>5, FinishOthers DEF UpdateWrite, IdleJob
    <3> QED
      BY <2>5, <2>F, <3>4, <3>5 DEF UpdateWrite
  <2>6. CASE RemoveWrite(r)
    <3>1. j.inv \in Invoices
      BY <2>6, <2>j, JobOfOp DEF RemoveWrite, At, RemoveJob
    <3>2. Gone(j.inv, Entries)
      BY <2>6, <2>R DEF RemoveWrite, At, ReleasedFirst
    <3>3. \A i \in Invoices : Dead(row'[i]) => Dead(row[i]) \/ Gone(i, Entries)
      BY <2>6, <3>1, <3>2 DEF RemoveWrite, TypeOK
    <3>4. req'[r].op = "none"
          /\ \A q \in Requests \ {r} : req'[q] = req[q] \/ req'[q].op = "pay"
      BY <2>6, FinishOthers DEF RemoveWrite, IdleJob
    <3> QED
      BY <2>6, <2>F, <3>3, <3>4 DEF RemoveWrite
  <2>7. CASE WriteTotals(r)
    <3>1. \A i \in Invoices : row'[i].status = row[i].status
                              /\ row'[i].deleted = row[i].deleted
      BY <2>7 DEF WriteTotals, TypeOK, Row
    <3>2. req'[r].op = "none"
          /\ \A q \in Requests \ {r} : req'[q] = req[q] \/ req'[q].op = "pay"
      BY <2>7, FinishOthers DEF WriteTotals, IdleJob
    <3> QED
      BY <2>7, <2>F, <3>1, <3>2 DEF WriteTotals
  <2>8. CASE PayUpdate(r) \/ PayAnnounce(r) \/ PayExpire(r)
    <3>1. j \in PayJob
      BY <2>8, <2>j, JobOfOp DEF PayUpdate, PayAnnounce, PayExpire, InTransaction, At
    <3>2. req'[r].op = "pay" /\ \A q \in Requests \ {r} : req'[q] = req[q]
      BY <1>J, <2>8, <3>1 DEF PayUpdate, PayAnnounce, PayExpire, Goto, PayJob
    <3> QED
      BY <2>8, <2>F, <3>2 DEF PayUpdate, PayAnnounce, PayExpire
  <2>9. CASE PayConflict(r) \/ PayClosed(r) \/ Fail(r) \/ ItemWriteFails(r)
    BY <1>J, <2>9, <2>F DEF PayConflict, PayClosed, Fail, ItemWriteFails, Finish, IdleJob
  <2>10. CASE UnmarkTimeEntries(r)
    <3>1. (j \in UpdateJob \/ j \in RemoveJob) /\ j.inv \in Invoices
      BY <2>10, <2>j, JobOfOp DEF UnmarkTimeEntries, UpdateJob, RemoveJob
    <3>2. /\ req'[r].pc = "unmark_expenses" /\ req'[r].inv = j.inv
          /\ \A q \in Requests \ {r} : req'[q] = req[q]
      BY <1>J, <2>10, <3>1 DEF UnmarkTimeEntries, Goto, UpdateJob, RemoveJob
    <3>3. /\ \A e \in Entries : billedTo'[e] \in {billedTo[e], None}
          /\ \A e \in TimeEntries : billedTo'[e] # j.inv
      BY <2>10, <3>1 DEF UnmarkTimeEntries, Unlink, Entries
    <3>4. ReleasedFirst(r)'
      BY <3>2, <3>3 DEF ReleasedFirst
    <3> QED
      BY <2>10, <2>F, <3>2, <3>3, <3>4 DEF UnmarkTimeEntries
  <2>11. CASE UnmarkExpenses(r)
    <3>1. (j \in UpdateJob \/ j \in RemoveJob) /\ j.inv \in Invoices
      BY <2>11, <2>j, JobOfOp DEF UnmarkExpenses, UpdateJob, RemoveJob
    <3>2. /\ req'[r].pc = "write" /\ req'[r].inv = j.inv
          /\ \A q \in Requests \ {r} : req'[q] = req[q]
      BY <1>J, <2>11, <3>1 DEF UnmarkExpenses, Goto, UpdateJob, RemoveJob
    <3>3. Gone(j.inv, TimeEntries)
      BY <2>11, <2>R DEF UnmarkExpenses, ReleasedFirst
    <3>4. /\ \A e \in Entries : billedTo'[e] \in {billedTo[e], None}
          /\ \A e \in Entries : billedTo'[e] # j.inv
      BY <2>11, <3>1, <3>3 DEF UnmarkExpenses, Unlink, Entries
    <3>5. ReleasedFirst(r)'
      BY <3>2, <3>4 DEF ReleasedFirst
    <3> QED
      BY <2>11, <2>F, <3>2, <3>4, <3>5 DEF UnmarkExpenses
  <2>12. CASE AnnounceStatus(r)
    <3>1. j \in UpdateJob
      BY <2>12, <2>j, JobOfOp DEF AnnounceStatus, At
    <3>2. /\ req'[r].op = "update" /\ req'[r].pc = "write" /\ req'[r].inv = j.inv
          /\ req'[r].status = j.status
          /\ \A q \in Requests \ {r} : req'[q] = req[q]
      BY <1>J, <2>12, <3>1 DEF AnnounceStatus, Goto, UpdateJob
    <3>3. j.status # "CANCELLED"
      BY <2>12 DEF AnnounceStatus, At, Announced, AnnouncedFirst
    <3>4. ReleasedFirst(r)'
      BY <3>2, <3>3 DEF ReleasedFirst
    <3> QED
      BY <2>12, <2>F, <3>2, <3>4 DEF AnnounceStatus
  <2>13. CASE ItemFind(r) \/ ItemWrite(r) \/ ReadSum(r) \/ ReadRate(r)
    <3>1. j \in ItemJob
      BY <2>13, <2>j, JobOfOp DEF ItemFind, ItemWrite, ReadSum, ReadRate
    <3>2. /\ req'[r].op \notin {"update", "remove"}
          /\ \A q \in Requests \ {r} : req'[q] = req[q]
      BY <1>J, <2>13, <3>1 DEF ItemFind, ItemWrite, ReadSum, ReadRate,
                               Goto, Finish, IdleJob, ItemJob, ItemJobIn
    <3> QED
      BY <2>13, <2>F, <3>2 DEF ItemFind, ItemWrite, ReadSum, ReadRate
  <2>14. CASE PayCommit(r)
    <3>1. j.inv \in Invoices
      BY <2>14, <2>j, JobOfOp DEF PayCommit, At, PayJob
    <3>2. \A i \in Invoices : Dead(row'[i]) => Dead(row[i])
      BY <2>14, <3>1 DEF PayCommit, StatusAfter, TypeOK, Row
    <3>3. req'[r].op = "none"
          /\ \A q \in Requests \ {r} : req'[q] = req[q] \/ req'[q].op = "pay"
      BY <2>14, FinishOthers DEF PayCommit, IdleJob
    <3> QED
      BY <2>14, <2>F, <3>2, <3>3 DEF PayCommit
  <2> QED
    BY <1>N, <2>1, <2>2, <2>3, <2>4, <2>5, <2>6, <2>7, <2>8, <2>9, <2>10, <2>11,
       <2>12, <2>13, <2>14 DEF Begin, LockStep, OtherStep
<1> QED
  BY <1>N, <1>U DEF Next

-----------------------------------------------------------------------------
(* The inductive invariant: a property of the tables alone is not, because  *)
(* a handler writes what it decided from an older state.                    *)
IInv == TypeOK /\ Snapshots /\ Announced /\ Releasing

LEMMA IInvInit == Init => IInv
<1> SUFFICES ASSUME Init PROVE IInv
  OBVIOUS
<1>1. TypeOK
  BY TypeInit
<1>2. \A q \in Requests : req[q] = IdleJob
  BY DEF Init
<1>3. Snapshots /\ \A q \in Requests : AnnouncedFirst(q) /\ ReleasedFirst(q)
  BY <1>2 DEF Snapshots, SnapshotOK, InTransaction, AnnouncedFirst, ReleasedFirst, IdleJob
<1>4. \A i \in Invoices : row[i].status = "DRAFT" /\ ~row[i].deleted
  BY DEF Init, Draft
<1> QED
  BY <1>1, <1>3, <1>4
     DEF IInv, Announced, Releasing, NoSilentReceivable, EntriesReleased, Payable

LEMMA IInvStep == IInv /\ [Next]_vars => IInv'
  BY TypeStep, SnapshotStep, AnnouncedStep, ReleasingStep DEF IInv

(* The invariant of the billing service: see IInv for what it adds. *)
THEOREM Inductive == Spec => []IInv
  BY IInvInit, IInvStep, PTL DEF Spec

(* What every handler in flight relies on is so: in particular a payment    *)
(* transaction that can still commit works on the invoice as it is.         *)
THEOREM HandlersAreSound == Spec => []HandlersSound
<1>1. IInv => HandlersSound
  BY DEF IInv, Snapshots, Announced, Releasing, HandlersSound
<1> QED
  BY <1>1, Inductive, PTL

(* No invoice is due or paid before its client has been told of it.         *)
THEOREM ReceivablesAnnounced == Spec => []NoSilentReceivable
<1>1. IInv => NoSilentReceivable
  BY DEF IInv, Announced
<1> QED
  BY <1>1, Inductive, PTL

(* A cancelled or deleted invoice never holds an entry, crashes included.   *)
THEOREM CancelledHoldsNothing == Spec => []EntriesReleased
<1>1. IInv => EntriesReleased
  BY DEF IInv, Releasing
<1> QED
  BY <1>1, Inductive, PTL

-----------------------------------------------------------------------------
LEMMA LedgerInit == Init => Ledger!Init
  BY DEF Init, Draft, Ledger!Init

(* Every step of Billing is a step of the ledger, or leaves it unchanged:   *)
(* the commit of a payment is the payment, whatever happened since it read. *)
LEMMA LedgerStep == IInv /\ [Next]_vars => [Ledger!Next]_<<row, paid>>
<1> SUFFICES ASSUME IInv, [Next]_vars PROVE [Ledger!Next]_<<row, paid>>
  OBVIOUS
<1>T. TypeOK /\ Snapshots
  BY DEF IInv
<1>U. CASE UNCHANGED vars
  BY <1>U DEF vars
<1>N. ASSUME NEW r \in Requests,
             Begin(r) \/ LockStep(r) \/ OtherStep(r) \/ PayExpire(r) \/ Fail(r)
      PROVE  [Ledger!Next]_<<row, paid>>
  <2> DEFINE j == req[r]
  <2>j. j \in Jobs
    BY <1>T DEF TypeOK, Jobs
  <2>1. CASE UpdateWrite(r) \/ RemoveWrite(r) \/ WriteTotals(r)
    <3>1. j.inv \in Invoices
      BY <2>1, <2>j, JobOfOp DEF UpdateWrite, RemoveWrite, WriteTotals, At,
                                 UpdateJob, RemoveJob, ItemJob, ItemJobIn
    <3>2. Ledger!Edit(j.inv)
      BY <1>T, <2>1, <3>1 DEF UpdateWrite, RemoveWrite, WriteTotals, Ledger!Edit, TypeOK
    <3> QED
      BY <3>1, <3>2 DEF Ledger!Next
  <2>2. CASE PayCommit(r)
    <3>1. j.inv \in Invoices /\ j.amount \in PaymentAmounts
      BY <2>2, <2>j, JobOfOp DEF PayCommit, At, PayJob
    <3>2. /\ PaymentAccepted(row[j.inv], paid[j.inv], j.amount)
          /\ row[j.inv].total = j.total /\ paid[j.inv] = j.received
      BY <1>T, <2>2 DEF PayCommit, At, Snapshots, SnapshotOK, InTransaction
    <3>3. Ledger!Pay(j.inv, j.amount)
      BY <2>2, <3>2 DEF PayCommit, PaymentAccepted, Payable, StatusAfter,
                        Ledger!Pay, Ledger!Collectable, Ledger!StatusAfter
    <3> QED
      BY <3>1, <3>3 DEF Ledger!Next
  <2>3. CASE UNCHANGED <<row, paid>>
    BY <2>3
  <2> QED
    BY <1>N, <2>1, <2>2, <2>3
       DEF Begin, LockStep, OtherStep, UpdateRead, RemoveRead, ItemRead, PayRead,
           PayUpdate, PayConflict, UnmarkTimeEntries, UnmarkExpenses, AnnounceStatus,
           ItemFind, ItemWrite, ItemWriteFails, ReadSum, ReadRate, PayAnnounce,
           PayClosed, PayExpire, Fail
<1> QED
  BY <1>N, <1>U DEF Next

(* "Serializable transaction to prevent concurrent overpayment": every      *)
(* behaviour of the billing service is one of the ledger.                   *)
THEOREM BillingImplementsLedger == Spec => PaymentsAreAtomic
  BY LedgerInit, LedgerStep, Inductive, PTL DEF Spec, PaymentsAreAtomic, Ledger!Spec

-----------------------------------------------------------------------------
(****************************************************************************)
(* Totals, entries and statuses, with requests overlapping and dying as     *)
(* they may.  A step of a request concerns one invoice: what it does to the *)
(* books of that invoice is compared with what it leaves of the others.     *)
(****************************************************************************)
Books == TotalsMatchLines /\ EntriesHeld

(* The other handlers are left alone, but for payments told they are stale. *)
OthersRun(r) ==
  \A q \in Requests \ {r} : req'[q] = req[q] \/ (req[q].op = "pay" /\ req'[q].op = "pay")

WorksOn(r, i) ==
  /\ OthersRun(r)
  /\ req[r].inv = i
  /\ \A k \in Invoices \ {i} : /\ row'[k] = row[k] /\ items'[k] = items[k]
                               /\ k \in drifted => k \in drifted'
                               /\ k \in loosed => k \in loosed'

KeepsTotals(r, i) ==
  i \in drifted \/ Matched(i) \/ Rewriting(r) =>
    i \in drifted' \/ Matched(i)' \/ (Rewriting(r)' /\ req'[r].inv = i)

KeepsEntries(r, i) ==
  /\ ~Standing(i) \/ i \in loosed \/ LettingGo(r) =>
       ~Standing(i)' \/ i \in loosed' \/ (LettingGo(r)' /\ req'[r].inv = i)
  /\ \/ LettingGo(r)' /\ req'[r].inv = i
     \/ \A e \in Entries : billedTo'[e] = None => billedTo[e] = None

LEMMA OthersKeep ==
  ASSUME TypeOK, NEW r \in Requests, OthersRun(r), NEW q \in Requests \ {r}
  PROVE  /\ Rewriting(q) => Rewriting(q)' /\ req'[q] = req[q]
         /\ LettingGo(q) => LettingGo(q)' /\ req'[q] = req[q]
<1>1. CASE req'[q] = req[q]
  BY <1>1 DEF Rewriting, LettingGo, At
<1>2. CASE req[q].op = "pay"
  <2>1. req[q] \in PayJob
    BY <1>2, JobOfOp DEF TypeOK, Jobs
  <2> QED
    BY <1>2, <2>1 DEF Rewriting, LettingGo, At, PayJob
<1> QED
  BY <1>1, <1>2 DEF OthersRun

(* What a request does for i is nothing to the books of other invoices.     *)
LEMMA BooksFrame ==
  ASSUME TypeOK, Books, NEW r \in Requests, NEW i \in Invoices,
         WorksOn(r, i), KeepsTotals(r, i), KeepsEntries(r, i)
  PROVE  Books'
<1>1. OthersRun(r)
  BY DEF WorksOn
<1>2. ASSUME NEW k \in Invoices
      PROVE  k \in drifted' \/ Matched(k)' \/ \E q \in Requests : Rewriting(q)' /\ req'[q].inv = k
  <2>1. k \in drifted \/ Matched(k) \/ \E q \in Requests : Rewriting(q) /\ req[q].inv = k
    BY DEF Books, TotalsMatchLines
  <2>2. ASSUME NEW q \in Requests \ {r}, Rewriting(q), req[q].inv = k
        PROVE  \E p \in Requests : Rewriting(p)' /\ req'[p].inv = k
    BY <1>1, <2>2, OthersKeep
  <2>3. CASE k = i
    BY <2>1, <2>2, <2>3 DEF KeepsTotals
  <2>4. CASE k # i
    <3>1. row'[k] = row[k] /\ items'[k] = items[k] /\ (k \in drifted => k \in drifted')
      BY <2>4 DEF WorksOn
    <3>2. Matched(k) => Matched(k)'
      BY <3>1 DEF Matched
    <3>3. req[r].inv # k
      BY <2>4 DEF WorksOn
    <3> QED
      BY <2>1, <2>2, <3>1, <3>2, <3>3
  <2> QED
    BY <2>3, <2>4
<1>3. TotalsMatchLines'
  BY <1>2 DEF TotalsMatchLines
<1>4. EntriesHeld'
  <2> SUFFICES ASSUME NEW e \in Entries, billedTo'[e] = None
               PROVE  \E k \in Invoices :
                        ~Standing(k)' \/ k \in loosed'
                        \/ \E q \in Requests : LettingGo(q)' /\ req'[q].inv = k
    BY DEF EntriesHeld
  <2>1. CASE LettingGo(r)' /\ req'[r].inv = i
    BY <2>1
  <2>2. CASE billedTo[e] = None
    <3>1. PICK k \in Invoices :
            ~Standing(k) \/ k \in loosed \/ \E q \in Requests : LettingGo(q) /\ req[q].inv = k
      BY <2>2 DEF Books, EntriesHeld
    <3>2. ASSUME NEW q \in Requests \ {r}, LettingGo(q), req[q].inv = k
          PROVE  \E p \in Requests : LettingGo(p)' /\ req'[p].inv = k
      BY <1>1, <3>2, OthersKeep
    <3>3. CASE k = i
      BY <3>1, <3>2, <3>3 DEF KeepsEntries
    <3>4. CASE k # i
      <4>1. row'[k] = row[k] /\ (k \in loosed => k \in loosed') /\ req[r].inv # k
        BY <3>4 DEF WorksOn
      <4>2. ~Standing(k) => ~Standing(k)'
        BY <4>1 DEF Standing
      <4> QED
        BY <3>1, <3>2, <4>1, <4>2
    <3> QED
      BY <3>3, <3>4
  <2> QED
    BY <2>1, <2>2 DEF KeepsEntries
<1> QED
  BY <1>3, <1>4 DEF Books

(* Most steps write neither rows, nor lines, nor the links of entries.      *)
LEMMA BooksUntouched ==
  ASSUME TypeOK, Books, NEW r \in Requests, OthersRun(r),
         UNCHANGED <<row, items, billedTo>>, drifted \subseteq drifted', loosed \subseteq loosed',
         Rewriting(r) => \/ Rewriting(r)' /\ req'[r].inv = req[r].inv
                         \/ req[r].inv \in drifted',
         LettingGo(r) => \/ LettingGo(r)' /\ req'[r].inv = req[r].inv
                         \/ req[r].inv \in loosed' \/ ~Standing(req[r].inv)
  PROVE  Books'
<1>1. ASSUME NEW k \in Invoices
      PROVE  k \in drifted' \/ Matched(k)' \/ \E q \in Requests : Rewriting(q)' /\ req'[q].inv = k
  <2>1. k \in drifted \/ Matched(k) \/ \E q \in Requests : Rewriting(q) /\ req[q].inv = k
    BY DEF Books, TotalsMatchLines
  <2>2. Matched(k) => Matched(k)'
    BY DEF Matched
  <2>3. ASSUME NEW q \in Requests \ {r}, Rewriting(q), req[q].inv = k
        PROVE  \E p \in Requests : Rewriting(p)' /\ req'[p].inv = k
    BY <2>3, OthersKeep
  <2> QED
    BY <2>1, <2>2, <2>3
<1>2. TotalsMatchLines'
  BY <1>1 DEF TotalsMatchLines
<1>3. EntriesHeld'
  <2> SUFFICES ASSUME NEW e \in Entries, billedTo[e] = None
               PROVE  \E k \in Invoices :
                        ~Standing(k)' \/ k \in loosed'
                        \/ \E q \in Requests : LettingGo(q)' /\ req'[q].inv = k
    BY DEF EntriesHeld
  <2>1. PICK k \in Invoices :
          ~Standing(k) \/ k \in loosed \/ \E q \in Requests : LettingGo(q) /\ req[q].inv = k
    BY DEF Books, EntriesHeld
  <2>2. ~Standing(k) => ~Standing(k)'
    BY DEF Standing
  <2>3. ASSUME NEW q \in Requests \ {r}, LettingGo(q), req[q].inv = k
        PROVE  \E p \in Requests : LettingGo(p)' /\ req'[p].inv = k
    BY <2>3, OthersKeep
  <2> QED
    BY <2>1, <2>2, <2>3
<1> QED
  BY <1>2, <1>3 DEF Books

-----------------------------------------------------------------------------
(* One lemma for each write. *)
Working(r) == IInv /\ Books /\ r \in Requests

LEMMA AtWork ==
  ASSUME NEW r, Working(r), req[r].op # "none"
  PROVE  /\ req[r].inv \in Invoices /\ req[r] \in Jobs
         /\ SnapshotOK(r) /\ AnnouncedFirst(r)
<1>1. req[r] \in Jobs /\ r \in Requests
  BY DEF Working, IInv, TypeOK, Jobs
<1>2. req[r].inv \in Invoices
  BY <1>1, JobOfOp DEF Jobs, UpdateJob, RemoveJob, ItemJob, ItemJobIn, PayJob
<1> QED
  BY <1>1, <1>2 DEF Working, IInv, Snapshots, Announced

LEMMA Finishing ==
  ASSUME NEW r, Working(r), NEW i, Finish(r) \/ FinishWriting(r, i)
  PROVE  OthersRun(r)
<1>1. CASE Finish(r)
  BY <1>1 DEF Working, IInv, TypeOK, Finish, OthersRun
<1>2. CASE FinishWriting(r, i)
  BY <1>2, FinishOthers DEF Working, IInv, OthersRun
<1> QED
  BY <1>1, <1>2

LEMMA UpdateWritesBooks ==
  ASSUME NEW r, Working(r), UpdateWrite(r) PROVE Books'
<1>i. PICK i : i = req[r].inv
  OBVIOUS
<1> USE <1>i
<1>1. r \in Requests /\ TypeOK /\ Books
  BY DEF Working, IInv
<1>2. req[r].op = "update" /\ req[r].pc = "write" /\ i \in Invoices
  BY AtWork DEF UpdateWrite, At
<1>3. PICK old : old = row[i]
  OBVIOUS
<1>4. PICK job : job = req[r]
  OBVIOUS
<1>5. PICK new : new = Updated(old, job)
  OBVIOUS
<1>6. old \in Row /\ job \in UpdateJob
  BY <1>1, <1>2, <1>3, <1>4, JobOfOp DEF TypeOK, Jobs
<1>7. /\ new.status = IF job.status = None THEN old.status ELSE job.status
      /\ new.rate = IF job.rate = None THEN old.rate ELSE job.rate
      /\ new.total = IF job.rate = None THEN old.total ELSE WithTax(job.subtotal, job.rate)
      /\ new.subtotal = old.subtotal /\ new.deleted = old.deleted
  BY <1>5, <1>6 DEF Updated, Row
<1>8. row'[i] = new /\ \A k \in Invoices \ {i} : row'[k] = row[k]
  BY <1>1, <1>2, <1>3, <1>4, <1>5 DEF UpdateWrite, TypeOK
<1>9. UNCHANGED <<items, billedTo>> /\ FinishWriting(r, i)
  BY DEF UpdateWrite
<1>10. /\ drifted' = IF job.rate # None /\ job.subtotal # old.subtotal
                     THEN drifted \cup {i} ELSE drifted
       /\ loosed' = IF old.status = "CANCELLED" /\ job.status \notin {None, "CANCELLED"}
                    THEN loosed \cup {i}
                    ELSE IF job.status = "CANCELLED" THEN loosed \ {i} ELSE loosed
  BY <1>3, <1>4 DEF UpdateWrite
<1>11. WorksOn(r, i)
  BY <1>8, <1>9, <1>10, Finishing DEF WorksOn
<1>12. ~Rewriting(r)
  BY <1>2 DEF Rewriting
<1>13. i \in drifted => i \in drifted'
  BY <1>10
<1>14. Matched(i) => i \in drifted' \/ Matched(i)'
  BY <1>3, <1>7, <1>8, <1>9, <1>10 DEF Matched
<1>15. KeepsTotals(r, i)
  BY <1>12, <1>13, <1>14 DEF KeepsTotals
<1>16. job.status = "CANCELLED" => new.status = "CANCELLED"
  BY <1>7, ConstantsOK DEF Status
<1>17. LettingGo(r) => ~Standing(i)'
  BY <1>2, <1>4, <1>8, <1>16 DEF LettingGo, At, Standing
<1>18. i \in loosed => i \in loosed' \/ ~Standing(i)'
  BY <1>8, <1>10, <1>16 DEF Standing
<1>19. ~Standing(i) => i \in loosed' \/ ~Standing(i)'
  BY <1>3, <1>7, <1>8, <1>10 DEF Standing
<1>20. KeepsEntries(r, i)
  BY <1>9, <1>17, <1>18, <1>19 DEF KeepsEntries
<1> QED
  BY <1>1, <1>2, <1>11, <1>15, <1>20, BooksFrame

LEMMA RemoveWritesBooks ==
  ASSUME NEW r, Working(r), RemoveWrite(r) PROVE Books'
<1>i. PICK i : i = req[r].inv
  OBVIOUS
<1> USE <1>i
<1>1. r \in Requests /\ TypeOK /\ Books
  BY DEF Working, IInv
<1>2. req[r].op = "remove" /\ req[r].pc = "write" /\ i \in Invoices
  BY AtWork DEF RemoveWrite, At
<1>3. /\ row'[i] = [row[i] EXCEPT !.deleted = TRUE] /\ row[i] \in Row
      /\ \A k \in Invoices \ {i} : row'[k] = row[k]
  BY <1>1, <1>2 DEF RemoveWrite, TypeOK
<1>4. /\ row'[i].deleted /\ row'[i].total = row[i].total
      /\ row'[i].subtotal = row[i].subtotal /\ row'[i].rate = row[i].rate
  BY <1>3 DEF Row
<1>5. UNCHANGED <<items, billedTo, drifted, loosed>> /\ FinishWriting(r, i)
  BY DEF RemoveWrite, history
<1>6. WorksOn(r, i)
  BY <1>3, <1>5, Finishing DEF WorksOn
<1>7. (Matched(i) => Matched(i)') /\ ~Standing(i)' /\ ~Rewriting(r)
  BY <1>2, <1>4, <1>5 DEF Matched, Standing, Rewriting
<1> QED
  BY <1>1, <1>2, <1>5, <1>6, <1>7, BooksFrame DEF KeepsTotals, KeepsEntries

LEMMA WriteTotalsBooks ==
  ASSUME NEW r, Working(r), WriteTotals(r) PROVE Books'
<1>i. PICK i : i = req[r].inv
  OBVIOUS
<1> USE <1>i
<1>1. r \in Requests /\ TypeOK /\ Books
  BY DEF Working, IInv
<1>2. req[r].pc = "write_totals" /\ req[r].op \in {"addItem", "updateItem", "removeItem"}
  BY <1>1, JobOfOp DEF WriteTotals, TypeOK, Jobs, ItemJob, ItemJobIn
<1>3. i \in Invoices
  BY <1>2, AtWork
<1>4. /\ row'[i] = [row[i] EXCEPT !.subtotal = req[r].sum,
                                  !.total = WithTax(req[r].sum, req[r].rate)]
      /\ row[i] \in Row /\ \A k \in Invoices \ {i} : row'[k] = row[k]
  BY <1>1, <1>3 DEF WriteTotals, TypeOK
<1>5. /\ row'[i].deleted = row[i].deleted /\ row'[i].status = row[i].status
      /\ row'[i].subtotal = req[r].sum /\ row'[i].total = WithTax(req[r].sum, req[r].rate)
      /\ row'[i].rate = row[i].rate
  BY <1>4 DEF Row
<1>6. UNCHANGED <<items, billedTo, loosed>> /\ FinishWriting(r, i)
  BY DEF WriteTotals
<1>7. drifted' = IF req[r].sum = LinesTotal(items[i]) /\ req[r].rate = row[i].rate
                 THEN drifted \ {i} ELSE drifted \cup {i}
  BY DEF WriteTotals
<1>8. WorksOn(r, i)
  BY <1>4, <1>6, <1>7, Finishing DEF WorksOn
<1>9. i \in drifted' \/ Matched(i)'
  BY <1>5, <1>6, <1>7 DEF Matched
<1>10. ~LettingGo(r) /\ (~Standing(i) => ~Standing(i)')
  BY <1>2, <1>5 DEF LettingGo, At, Standing
<1> QED
  BY <1>1, <1>3, <1>6, <1>8, <1>9, <1>10, BooksFrame DEF KeepsTotals, KeepsEntries

LEMMA CommitKeepsBooks ==
  ASSUME NEW r, Working(r), PayCommit(r)
  PROVE  Books' /\ req[r].inv \in Invoices /\ row[req[r].inv].status \in Payable
<1>i. PICK i : i = req[r].inv
  OBVIOUS
<1> USE <1>i
<1>1. r \in Requests /\ TypeOK /\ Books
  BY DEF Working, IInv
<1>2. req[r].op = "pay" /\ req[r].pc = "commit" /\ req[r].open
  BY DEF PayCommit, At
<1>3. i \in Invoices /\ SnapshotOK(r)
  BY <1>2, AtWork
<1>4. row[i].status \in Payable /\ ~row[i].deleted
  BY <1>2, <1>3 DEF SnapshotOK, InTransaction, PaymentAccepted
<1>5. PICK s : s = StatusAfter(req[r].received + req[r].amount, req[r].total)
  OBVIOUS
<1>6. /\ row'[i] = [row[i] EXCEPT !.status = s] /\ row[i] \in Row
      /\ \A k \in Invoices \ {i} : row'[k] = row[k]
  BY <1>1, <1>3, <1>5 DEF PayCommit, TypeOK
<1>7. row'[i].total = row[i].total /\ row'[i].subtotal = row[i].subtotal
      /\ row'[i].rate = row[i].rate
  BY <1>6 DEF Row
<1>8. UNCHANGED <<items, billedTo, drifted, loosed>> /\ FinishWriting(r, i)
  BY DEF PayCommit, history
<1>9. WorksOn(r, i)
  BY <1>6, <1>8, Finishing DEF WorksOn
<1>10. (Matched(i) => Matched(i)') /\ ~Rewriting(r)
  BY <1>2, <1>7, <1>8 DEF Matched, Rewriting
<1>11. Standing(i) /\ ~LettingGo(r)
  BY <1>2, <1>4 DEF Standing, LettingGo, At, Payable
<1>12. KeepsTotals(r, i) /\ KeepsEntries(r, i)
  BY <1>8, <1>10, <1>11 DEF KeepsTotals, KeepsEntries
<1> QED
  BY <1>1, <1>3, <1>4, <1>9, <1>12, BooksFrame

(* Going on to another step changes nothing else of the handler.            *)
LEMMA GoingOn ==
  ASSUME NEW r, Working(r), req[r].op # "none", NEW pc, Goto(r, pc)
  PROVE  /\ OthersRun(r) /\ req'[r].op = req[r].op /\ req'[r].pc = pc
         /\ req'[r].inv = req[r].inv
         /\ req[r].op = "update" => req'[r].status = req[r].status
<1>1. /\ req'[r] = [req[r] EXCEPT !.pc = pc] /\ req[r] \in Jobs \ {IdleJob} /\ r \in Requests
      /\ \A q \in Requests \ {r} : req'[q] = req[q]
  BY AtWork DEF Working, IInv, TypeOK, Jobs, Goto, IdleJob
<1>2. req'[r].op = req[r].op /\ req'[r].pc = pc /\ req'[r].inv = req[r].inv
  BY <1>1 DEF Jobs, UpdateJob, RemoveJob, ItemJob, ItemJobIn, PayJob
<1>3. req[r].op = "update" => req'[r].status = req[r].status
  BY <1>1, JobOfOp DEF UpdateJob
<1> QED
  BY <1>1, <1>2, <1>3 DEF OthersRun

LEMMA UnmarksBooks ==
  ASSUME NEW r, Working(r), UnmarkTimeEntries(r) \/ UnmarkExpenses(r) PROVE Books'
<1>i. PICK i : i = req[r].inv
  OBVIOUS
<1>1. r \in Requests /\ TypeOK /\ Books
  BY DEF Working, IInv
<1>2. /\ req[r].op \in {"update", "remove"} /\ req[r].pc \in {"unmark_time", "unmark_expenses"}
      /\ UNCHANGED <<row, items, drifted, loosed>>
  BY DEF UnmarkTimeEntries, UnmarkExpenses, history
<1>3. PICK pc \in {"unmark_expenses", "write"} : Goto(r, pc)
  BY DEF UnmarkTimeEntries, UnmarkExpenses
<1>4. i \in Invoices /\ AnnouncedFirst(r)
  BY <1>i, <1>2, AtWork
<1>5. /\ OthersRun(r) /\ req'[r].op = req[r].op /\ req'[r].pc = pc /\ req'[r].inv = i
      /\ req[r].op = "update" => req'[r].status = "CANCELLED"
  BY <1>i, <1>2, <1>3, <1>4, GoingOn DEF AnnouncedFirst
<1>6. LettingGo(r)' /\ ~Rewriting(r)
  BY <1>2, <1>5 DEF LettingGo, At, Rewriting
<1>7. Matched(i) => Matched(i)'
  BY <1>2 DEF Matched
<1>8. WorksOn(r, i) /\ KeepsTotals(r, i) /\ KeepsEntries(r, i)
  BY <1>i, <1>2, <1>5, <1>6, <1>7 DEF WorksOn, KeepsTotals, KeepsEntries
<1> QED
  BY <1>1, <1>4, <1>8, BooksFrame

LEMMA ItemWritesBooks ==
  ASSUME NEW r, Working(r), ItemWrite(r) PROVE Books'
<1>i. PICK i : i = req[r].inv
  OBVIOUS
<1>1. r \in Requests /\ TypeOK /\ Books
  BY DEF Working, IInv
<1>2. req[r].op \in {"addItem", "updateItem", "removeItem"} /\ req[r].pc = "write_item"
  BY DEF ItemWrite
<1>3. UNCHANGED <<row, billedTo, drifted, loosed>> /\ Goto(r, "sum")
  BY DEF ItemWrite, history
<1>4. i \in Invoices
  BY <1>i, <1>2, AtWork
<1>5. OthersRun(r) /\ req'[r].pc = "sum" /\ req'[r].inv = i
  BY <1>i, <1>2, <1>3, GoingOn
<1>6. \A k \in Invoices \ {i} : items'[k] = items[k]
  BY <1>i, <1>1 DEF ItemWrite, TypeOK
<1>7. Rewriting(r)' /\ ~LettingGo(r) /\ (~Standing(i) => ~Standing(i)')
  BY <1>2, <1>3, <1>5 DEF Rewriting, LettingGo, At, Standing
<1>8. WorksOn(r, i) /\ KeepsTotals(r, i) /\ KeepsEntries(r, i)
  BY <1>i, <1>3, <1>5, <1>6, <1>7 DEF WorksOn, KeepsTotals, KeepsEntries
<1> QED
  BY <1>1, <1>4, <1>8, BooksFrame

LEMMA ReadsBooks ==
  ASSUME NEW r, Working(r), ReadSum(r) \/ ReadRate(r) PROVE Books'
<1>i. PICK i : i = req[r].inv
  OBVIOUS
<1>1. r \in Requests /\ TypeOK /\ Books
  BY DEF Working, IInv
<1>2. UNCHANGED <<row, items, billedTo, drifted, loosed>> /\ req[r].pc \in {"sum", "rate"}
  BY DEF ReadSum, ReadRate, history
<1>3. req[r] \in ItemJob
  BY <1>1, <1>2, JobOfOp DEF TypeOK, Jobs
<1>4. OthersRun(r) /\ req'[r].pc \in {"rate", "write_totals"} /\ req'[r].inv = i
  <2>1. CASE ReadSum(r)
    <3>1. PICK sum : req' = [req EXCEPT ![r].sum = sum, ![r].pc = "rate"]
      BY <2>1 DEF ReadSum
    <3> QED
      BY <1>i, <1>1, <1>3, <3>1 DEF OthersRun, TypeOK, ItemJob, ItemJobIn
  <2>2. CASE ReadRate(r)
    <3>1. PICK rate : req' = [req EXCEPT ![r].rate = rate, ![r].pc = "write_totals"]
      BY <2>2 DEF ReadRate
    <3> QED
      BY <1>i, <1>1, <1>3, <3>1 DEF OthersRun, TypeOK, ItemJob, ItemJobIn
  <2> QED
    BY <2>1, <2>2
<1>5. Rewriting(r)' /\ ~LettingGo(r)
  BY <1>2, <1>4 DEF Rewriting, LettingGo, At
<1> QED
  BY <1>i, <1>1, <1>2, <1>4, <1>5, BooksUntouched

LEMMA OtherStepsBooks ==
  ASSUME NEW r, Working(r),
         \/ Begin(r) \/ AnnounceStatus(r) \/ ItemFind(r) \/ ItemWriteFails(r)
         \/ PayUpdate(r) \/ PayConflict(r) \/ PayAnnounce(r) \/ PayClosed(r) \/ PayExpire(r)
  PROVE  Books'
<1>1. r \in Requests /\ TypeOK /\ Books
  BY DEF Working, IInv
<1>2. UNCHANGED <<row, items, billedTo, drifted, loosed>>
  BY DEF Begin, UpdateRead, RemoveRead, ItemRead, PayRead, AnnounceStatus, ItemFind,
         ItemWriteFails, PayUpdate, PayConflict, PayAnnounce, PayClosed, PayExpire, history
<1>3. OthersRun(r)
  BY <1>1 DEF Begin, UpdateRead, RemoveRead, ItemRead, PayRead, AnnounceStatus, ItemFind,
              ItemWriteFails, PayUpdate, PayConflict, PayAnnounce, PayClosed, PayExpire,
              Start, Goto, Finish, TypeOK, OthersRun
<1>4. req[r].op = "pay" => req[r] \in PayJob
  BY <1>1, JobOfOp DEF TypeOK, Jobs
<1>5. ~Rewriting(r) /\ ~LettingGo(r)
  <2>1. \/ req[r] = IdleJob
        \/ req[r].op = "pay"
        \/ req[r].pc \in {"announce", "find"}
        \/ req[r].pc = "write_item"
    BY DEF Begin, UpdateRead, RemoveRead, ItemRead, PayRead, AnnounceStatus, ItemFind,
           ItemWriteFails, PayUpdate, PayConflict, PayAnnounce, PayClosed, PayExpire,
           Idle, At, InTransaction
  <2> QED
    BY <1>4, <2>1 DEF IdleJob, PayJob, At, Rewriting, LettingGo
<1> QED
  BY <1>1, <1>2, <1>3, <1>5, BooksUntouched

(* A request that dies with a line written, or entries let go, is recorded. *)
LEMMA FailsBooks ==
  ASSUME NEW r, Working(r), Fail(r) PROVE Books'
<1>i. PICK i : i = req[r].inv
  OBVIOUS
<1>1. r \in Requests /\ TypeOK /\ Books
  BY DEF Working, IInv
<1>2. /\ UNCHANGED <<row, items, billedTo>> /\ Finish(r)
      /\ drifted' = IF Rewriting(r) THEN drifted \cup {i} ELSE drifted
      /\ loosed' = IF LettingGo(r) /\ Standing(i) THEN loosed \cup {i} ELSE loosed
  BY <1>i DEF Fail
<1>3. OthersRun(r)
  BY <1>2, Finishing
<1> QED
  BY <1>i, <1>1, <1>2, <1>3, BooksUntouched

LEMMA BooksInit == Init => Books
<1> SUFFICES ASSUME Init PROVE Books
  OBVIOUS
<1>1. PICK rates \in [Invoices -> TaxRates] :
        row = [i \in Invoices |-> Draft(items[i], rates[i])]
  BY DEF Init
<1>2. \A i \in Invoices : Matched(i)
  BY <1>1 DEF Matched, Draft
<1>3. \A e \in Entries : billedTo[e] # None
  BY ConstantsOK DEF Init
<1> QED
  BY <1>2, <1>3 DEF Books, TotalsMatchLines, EntriesHeld

LEMMA BooksStep == IInv /\ Books /\ [Next]_vars => Books'
<1> SUFFICES ASSUME IInv, Books, [Next]_vars PROVE Books'
  OBVIOUS
<1>U. CASE UNCHANGED vars
  <2>1. \A i \in Invoices : (Matched(i) => Matched(i)') /\ (~Standing(i) => ~Standing(i)')
    BY <1>U DEF vars, Matched, Standing
  <2>2. \A q \in Requests : (Rewriting(q) => Rewriting(q)') /\ (LettingGo(q) => LettingGo(q)')
    BY <1>U DEF vars, Rewriting, LettingGo, At
  <2>3. TotalsMatchLines'
    BY <1>U, <2>1, <2>2 DEF vars, Books, TotalsMatchLines
  <2>4. EntriesHeld'
    BY <1>U, <2>1, <2>2 DEF vars, Books, EntriesHeld
  <2> QED
    BY <2>3, <2>4 DEF Books
<1>N. ASSUME NEW r \in Requests,
             Begin(r) \/ LockStep(r) \/ OtherStep(r) \/ PayExpire(r) \/ Fail(r)
      PROVE  Books'
  <2>1. Working(r)
    BY DEF Working
  <2> QED
    BY <1>N, <2>1, UpdateWritesBooks, RemoveWritesBooks, WriteTotalsBooks, CommitKeepsBooks,
       UnmarksBooks, ItemWritesBooks, ReadsBooks, OtherStepsBooks, FailsBooks
       DEF LockStep, OtherStep
<1> QED
  BY <1>N, <1>U DEF Next

LEMMA BooksInductive == Spec => []Books
  BY BooksInit, BooksStep, Inductive, PTL DEF Spec

(* Whatever requests overlap or die, an invoice whose totals were last      *)
(* written from a current reading has the totals of its lines and its rate; *)
(* payments and status changes never disturb them.                          *)
THEOREM TotalsAreKept == Spec => []TotalsMatchLines
<1>1. Books => TotalsMatchLines
  BY DEF Books
<1> QED
  BY <1>1, BooksInductive, PTL

(* An entry comes free only when a bill falls, is about to, or was left     *)
(* standing by a request that died or by an overtaken PATCH.                *)
THEOREM EntriesAreHeld == Spec => []EntriesHeld
<1>1. Books => EntriesHeld
  BY DEF Books
<1> QED
  BY <1>1, BooksInductive, PTL

-----------------------------------------------------------------------------
(* An update under way was allowed by the status it read.                   *)
StatusChecked ==
  \A q \in Requests :
    req[q].op = "update" /\ req[q].status # None =>
      req[q].status \in {req[q].seen} \cup StatusTransitions[req[q].seen]

LEMMA CheckedInit == Init => StatusChecked
  BY DEF Init, StatusChecked, IdleJob

LEMMA CheckedStep == IInv /\ StatusChecked /\ [Next]_vars => StatusChecked'
<1> SUFFICES ASSUME IInv, StatusChecked, [Next]_vars,
                    NEW q \in Requests, req'[q].op = "update", req'[q].status # None
             PROVE  req'[q].status \in {req'[q].seen} \cup StatusTransitions[req'[q].seen]
  BY DEF StatusChecked
<1>J. req \in [Requests -> Jobs] /\ TypeOK
  BY DEF IInv, TypeOK, Jobs
<1>1. CASE /\ req[q].op = "update" /\ req'[q].status = req[q].status
           /\ req'[q].seen = req[q].seen
  BY <1>1 DEF StatusChecked
<1>2. ASSUME NEW i \in Invoices, NEW status \in Status \cup {None},
             NEW rate \in TaxRates \cup {None}, UpdateRead(q, i, status, rate)
      PROVE  req'[q].status \in {req'[q].seen} \cup StatusTransitions[req'[q].seen]
  <2>1. req'[q].status = status /\ status # None /\ req'[q].seen = row[i].status
    BY <1>J, <1>2 DEF UpdateRead, Start
  <2>2. status \in {row[i].status} \cup StatusTransitions[row[i].status]
    BY <1>2, <2>1 DEF UpdateRead, UpdateAccepted, Changes
  <2> QED
    BY <2>1, <2>2
<1>N. ASSUME NEW r \in Requests,
             Begin(r) \/ LockStep(r) \/ OtherStep(r) \/ PayExpire(r) \/ Fail(r)
      PROVE  req'[q].status \in {req'[q].seen} \cup StatusTransitions[req'[q].seen]
  <2>1. CASE q # r
    <3>1. req'[q] = req[q] \/ (req[q].op = "pay" /\ req'[q].op = "pay")
      BY <1>J, <1>N, <2>1, FinishOthers
         DEF Begin, LockStep, OtherStep, UpdateRead, RemoveRead, ItemRead, PayRead,
             UpdateWrite, RemoveWrite, WriteTotals, PayUpdate, PayConflict,
             UnmarkTimeEntries, UnmarkExpenses, AnnounceStatus, ItemFind, ItemWrite,
             ItemWriteFails, ReadSum, ReadRate, PayAnnounce, PayCommit, PayClosed,
             PayExpire, Fail, Start, Goto, Finish
    <3> QED
      BY <1>1, <3>1
  <2>2. CASE q = r /\ Begin(r)
    <3>1. \/ \E i \in Invoices, status \in Status \cup {None}, rate \in TaxRates \cup {None} :
               UpdateRead(r, i, status, rate)
          \/ req'[r].op # "update"
      BY <1>J, <2>2 DEF Begin, RemoveRead, ItemRead, PayRead, Start
    <3> QED
      BY <1>2, <2>2, <3>1
  <2>3. CASE q = r /\ (UnmarkTimeEntries(r) \/ UnmarkExpenses(r) \/ AnnounceStatus(r))
    <3>1. PICK pc : req'[r] = [req[r] EXCEPT !.pc = pc]
      BY <1>J, <2>3 DEF UnmarkTimeEntries, UnmarkExpenses, AnnounceStatus, Goto
    <3>2. req[r] \in UpdateJob \/ req[r] \in RemoveJob
      BY <1>J, <2>3, JobOfOp DEF UnmarkTimeEntries, UnmarkExpenses, AnnounceStatus, At
    <3>3. req[r] \in RemoveJob => req'[r].op = "remove"
      BY <3>1 DEF RemoveJob
    <3>4. req[r] \in UpdateJob =>
            req[r].op = "update" /\ req'[r].status = req[r].status /\ req'[r].seen = req[r].seen
      BY <3>1 DEF UpdateJob
    <3> QED
      BY <1>1, <2>3, <3>2, <3>3, <3>4
  <2>4. CASE q = r /\ (ItemFind(r) \/ ItemWrite(r) \/ ItemWriteFails(r) \/ ReadSum(r)
                       \/ ReadRate(r))
    <3>1. req[r] \in ItemJob
      BY <1>J, <2>4, JobOfOp DEF ItemFind, ItemWrite, ItemWriteFails, ReadSum, ReadRate
    <3>2. req'[r].op # "update"
      BY <1>J, <2>4, <3>1 DEF ItemFind, ItemWrite, ItemWriteFails, ReadSum, ReadRate,
                              Goto, Finish, IdleJob, ItemJob, ItemJobIn
    <3> QED
      BY <2>4, <3>2
  <2>5. CASE q = r /\ (PayUpdate(r) \/ PayAnnounce(r) \/ PayExpire(r))
    <3>1. req[r] \in PayJob
      BY <1>J, <2>5, JobOfOp DEF PayUpdate, PayAnnounce, PayExpire, InTransaction, At
    <3>2. req'[r].op = "pay"
      BY <1>J, <2>5, <3>1 DEF PayUpdate, PayAnnounce, PayExpire, Goto, PayJob
    <3> QED
      BY <2>5, <3>2
  <2>6. CASE q = r /\ (UpdateWrite(r) \/ RemoveWrite(r) \/ WriteTotals(r) \/ PayConflict(r)
                       \/ PayCommit(r) \/ PayClosed(r) \/ Fail(r))
    BY <1>J, <2>6 DEF UpdateWrite, RemoveWrite, WriteTotals, PayConflict, PayCommit,
                      PayClosed, Fail, Finish, FinishWriting, IdleJob
  <2> QED
    BY <1>N, <2>1, <2>2, <2>3, <2>4, <2>5, <2>6 DEF LockStep, OtherStep
<1>U. CASE UNCHANGED vars
  BY <1>1, <1>U DEF vars
<1> QED
  BY <1>N, <1>U DEF Next

(* Whatever is collectable may become partly or wholly paid.                *)
LEMMA TransitionsAre ==
  \A s \in Payable, t \in {"PAID", "PARTIALLY_PAID"} : t # s => t \in StatusTransitions[s]
  BY DEF StatusTransitions, Payable

(* Every change of status is one the table lists, or that of a PATCH whose  *)
(* invoice changed under it and which still follows the status it read.     *)
THEOREM TransitionsAreExplained == Spec => StatusFollowsReading
<1>1. IInv /\ Books /\ StatusChecked /\ [Next]_vars =>
        [\A i \in Invoices :
           row'[i].status # row[i].status =>
             \/ row'[i].status \in StatusTransitions[row[i].status]
             \/ \E r \in Requests :
                  /\ UpdateWrite(r) /\ req[r].inv = i
                  /\ req[r].seen # row[i].status
                  /\ row'[i].status \in {req[r].seen} \cup StatusTransitions[req[r].seen]]_vars
  <2> SUFFICES ASSUME IInv, Books, StatusChecked, Next,
                      NEW k \in Invoices, row'[k].status # row[k].status
               PROVE  \/ row'[k].status \in StatusTransitions[row[k].status]
                      \/ \E r \in Requests :
                           /\ UpdateWrite(r) /\ req[r].inv = k
                           /\ req[r].seen # row[k].status
                           /\ row'[k].status \in {req[r].seen} \cup StatusTransitions[req[r].seen]
    OBVIOUS
  <2>1. PICK r \in Requests :
          Begin(r) \/ LockStep(r) \/ OtherStep(r) \/ PayExpire(r) \/ Fail(r)
    BY DEF Next
  <2>T. TypeOK /\ Working(r)
    BY DEF IInv, Working
  <2>2. UpdateWrite(r) \/ RemoveWrite(r) \/ WriteTotals(r) \/ PayCommit(r)
    BY <2>1 DEF Begin, LockStep, OtherStep, UpdateRead, RemoveRead, ItemRead, PayRead,
                PayUpdate, PayConflict, UnmarkTimeEntries, UnmarkExpenses, AnnounceStatus,
                ItemFind, ItemWrite, ItemWriteFails, ReadSum, ReadRate, PayAnnounce,
                PayClosed, PayExpire, Fail
  <2>3. ~RemoveWrite(r) /\ ~WriteTotals(r)
    <3>1. row[k] \in Row
      BY <2>T DEF TypeOK
    <3>2. RemoveWrite(r) => row'[k] \in {row[k], [row[k] EXCEPT !.deleted = TRUE]}
      BY <2>T DEF RemoveWrite, TypeOK
    <3>3. WriteTotals(r) =>
            row'[k] \in {row[k], [row[k] EXCEPT !.subtotal = req[r].sum,
                                                !.total = WithTax(req[r].sum, req[r].rate)]}
      BY <2>T DEF WriteTotals, TypeOK
    <3> QED
      BY <3>1, <3>2, <3>3 DEF Row
  <2>4. CASE UpdateWrite(r)
    <3>1. req[r].op = "update"
      BY <2>4 DEF UpdateWrite, At
    <3>2. k = req[r].inv /\ row'[k] = Updated(row[k], req[r])
      BY <2>T, <2>4 DEF UpdateWrite, TypeOK
    <3>3. row'[k].status = req[r].status /\ req[r].status # None
      BY <2>T, <3>2 DEF Updated, TypeOK, Row
    <3>4. row'[k].status \in {req[r].seen} \cup StatusTransitions[req[r].seen]
      BY <3>1, <3>3 DEF StatusChecked
    <3> QED
      BY <2>4, <3>2, <3>4
  <2>5. CASE PayCommit(r)
    <3>1. /\ k = req[r].inv
          /\ row'[k].status = StatusAfter(req[r].received + req[r].amount, req[r].total)
      BY <2>T, <2>5 DEF PayCommit, TypeOK, Row
    <3>2. row'[k].status \in {"PAID", "PARTIALLY_PAID"}
      BY <3>1 DEF StatusAfter
    <3>3. row[k].status \in Payable
      BY <2>T, <2>5, <3>1, CommitKeepsBooks
    <3> QED
      BY <3>2, <3>3, TransitionsAre
  <2> QED
    BY <2>2, <2>3, <2>4, <2>5
<1>2. Spec => []StatusChecked
  BY CheckedInit, CheckedStep, Inductive, PTL DEF Spec
<1> QED
  BY <1>1, <1>2, Inductive, BooksInductive, PTL DEF Spec, StatusFollowsReading
=============================================================================
