------------------------------- MODULE Creation ------------------------------
(****************************************************************************)
(* CaseService.create and InvoiceService.create: the next number of the     *)
(* year, the row, its webhook event and the answer, with the soft deletes   *)
(* that take rows out of sight of the numbering.                            *)
(*                                                                          *)
(* Both run in a serializable transaction.  The case is announced and read  *)
(* back after the commit; the invoice is announced and read back by the     *)
(* transaction's own callback, over another connection.                     *)
(*                                                                          *)
(* A row stands for everything its transaction writes with it: the lead     *)
(* assignment of a case, the items and billed entries of an invoice.        *)
(****************************************************************************)
EXTENDS Naturals, FiniteSets

CONSTANTS
  Creations,    \* the requests that create cases and invoices
  Base, Width,  \* a number is written in this base, padded to this width
  MaxNumber     \* bound: no row is numbered higher

ASSUME BoundsOK ==
  /\ Base \in Nat \ {0, 1} /\ Width \in Nat \ {0}
  /\ MaxNumber \in Nat /\ MaxNumber < Base ^ (Width + 1)

(* A power of naturals is one: the provers have no axioms for it.           *)
ASSUME PowerOK == Base ^ Width \in Nat

Kinds   == {"case", "invoice"}
Numbers == 1..MaxNumber

VARIABLES
  rows,      \* each kind's table by number; the unique index spans deleted rows
  announced, \* the numbers that case.created and invoice.created were sent for
  creation   \* the creations in flight

creationVars == <<rows, announced, creation>>

NoCreation == [pc |-> "idle"]
CreationJob == [pc : {"insert", "announce", "commit", "readback"}, kind : Kinds,
                number : Numbers]

(* r's transaction has inserted number n of kind k and not ended. *)
Holds(r, k, n) ==
  /\ creation[r].pc \notin {"idle", "insert"}
  /\ creation[r].kind = k /\ creation[r].number = n
  /\ rows[k][n] = "free"

(* No two transactions hold the same number: the unique index at work. *)
CreationTypeOK ==
  /\ rows \in [Kinds -> [Numbers -> {"free", "live", "deleted"}]]
  /\ announced \in [Kinds -> SUBSET Numbers]
  /\ creation \in [Creations -> {NoCreation} \cup CreationJob]
  /\ \A r, q \in Creations, k \in Kinds, n \in Numbers :
       (Holds(r, k, n) /\ Holds(q, k, n)) => r = q

CreationInit ==
  /\ rows = [k \in Kinds |-> [n \in Numbers |-> "free"]]
  /\ announced = [k \in Kinds |-> {}]
  /\ creation = [r \in Creations |-> NoCreation]

-----------------------------------------------------------------------------
LiveNumbers(k) == {n \in Numbers : rows[k][n] = "live"}

(* The order of the padded numbers as strings: past the width, 100000 is    *)
(* found between 10000 and 10001.                                           *)
StringOrder(n) == IF n < Base ^ Width THEN 2 * Base * n ELSE 2 * n + 1

(* One more than the number that sorts last; findFirst sees no deleted row. *)
NextNumber(k) ==
  IF LiveNumbers(k) = {} THEN 1
  ELSE 1 + CHOOSE n \in LiveNumbers(k) : \A m \in LiveNumbers(k) : StringOrder(m) <= StringOrder(n)

(* The order of a creation's awaits. *)
ThenAwait(k, pc) ==
  IF k = "case"
  THEN [insert |-> "commit", commit |-> "announce", announce |-> "idle"][pc]
  ELSE [insert |-> "announce", announce |-> "readback", readback |-> "commit",
        commit |-> "idle"][pc]

CreationAt(r, pc) == creation[r].pc = pc
EndCreation(r) == creation' = [creation EXCEPT ![r] = NoCreation]
GoOn(r) ==
  LET next == ThenAwait(creation[r].kind, creation[r].pc)
  IN  IF next = "idle" THEN EndCreation(r) ELSE creation' = [creation EXCEPT ![r].pc = next]

(* The transaction's first read takes its snapshot. *)
BeginCreation(r, k) ==
  /\ CreationAt(r, "idle")
  /\ NextNumber(k) <= MaxNumber
  /\ creation' = [creation EXCEPT ![r] = [pc |-> "insert", kind |-> k, number |-> NextNumber(k)]]
  /\ UNCHANGED <<rows, announced>>

(* Mutant: a number somebody else is inserting is skipped. *)
InsertRowSkipsTaken(r) ==
  /\ CreationAt(r, "insert")
  /\ LET k == creation[r].kind
         n == creation[r].number
     IN  IF \E q \in Creations \ {r} : Holds(q, k, n)
         THEN n < MaxNumber /\ creation' = [creation EXCEPT ![r].number = n + 1]
         ELSE IF rows[k][n] = "free" THEN GoOn(r) ELSE EndCreation(r)
  /\ UNCHANGED <<rows, announced>>

(* The unique index makes the insert wait for another transaction's insert  *)
(* of the same number; a committed one, deleted or not, fails the creation. *)
InsertRow(r) ==
  /\ CreationAt(r, "insert")
  /\ LET k == creation[r].kind
         n == creation[r].number
     IN  /\ ~\E q \in Creations \ {r} : Holds(q, k, n)
         /\ IF rows[k][n] = "free" THEN GoOn(r) ELSE EndCreation(r)
  /\ UNCHANGED <<rows, announced>>

(* The dispatcher writes over its own connection: it is not rolled back. *)
AnnounceRow(r) ==
  /\ CreationAt(r, "announce")
  /\ announced' = [announced EXCEPT ![creation[r].kind] = @ \cup {creation[r].number}]
  /\ GoOn(r)
  /\ UNCHANGED rows

(* findOne over another connection sees committed rows; not found, its 404  *)
(* rolls the transaction back.                                              *)
ReadBack(r) ==
  /\ CreationAt(r, "readback")
  /\ IF creation[r].number \in LiveNumbers(creation[r].kind) THEN GoOn(r) ELSE EndCreation(r)
  /\ UNCHANGED <<rows, announced>>

CommitRow(r) ==
  /\ CreationAt(r, "commit")
  /\ rows' = [rows EXCEPT ![creation[r].kind][creation[r].number] = "live"]
  /\ GoOn(r)
  /\ UNCHANGED announced

(* A serialization failure, the transaction's timeout, or the process dies: *)
(* what is not committed is rolled back.                                    *)
CreationFail(r) ==
  /\ ~CreationAt(r, "idle")
  /\ EndCreation(r)
  /\ UNCHANGED <<rows, announced>>

(* CaseService.remove and InvoiceService.remove set deletedAt. *)
RemoveNumbered(k, n) ==
  /\ rows[k][n] = "live"
  /\ rows' = [rows EXCEPT ![k][n] = "deleted"]
  /\ UNCHANGED <<announced, creation>>

CreationNext ==
  \/ \E r \in Creations :
       \/ \E k \in Kinds : BeginCreation(r, k)
       \/ InsertRow(r) \/ AnnounceRow(r) \/ ReadBack(r) \/ CommitRow(r) \/ CreationFail(r)
  \/ \E k \in Kinds, n \in Numbers : RemoveNumbered(k, n)

CreationSpec == CreationInit /\ [][CreationNext]_creationVars

-----------------------------------------------------------------------------
(* However creations overlap and fail, the numbers given out in a year form *)
(* a sequence with no holes: a rolled-back creation gives its number back.  *)
NoGaps ==
  \A k \in Kinds, n \in Numbers :
    rows[k][n] # "free" => \A m \in 1..n : rows[k][m] # "free"

(* A case is announced when it exists: no event is sent for a rolled-back   *)
(* creation, and no later case takes the number of an announced one.        *)
AnnouncedCaseExists == \A n \in announced["case"] : rows["case"][n] # "free"

(* Numbering gets stuck on a number already taken only behind a deleted row *)
(* or past the width of the padding.                                        *)
StuckOnlyBehindDeleted ==
  \A k \in Kinds :
    (NextNumber(k) \in Numbers /\ rows[k][NextNumber(k)] # "free") =>
       \/ rows[k][NextNumber(k)] = "deleted"
       \/ NextNumber(k) >= Base ^ Width

(* The numbers of a year, as long as they can be given out at all.          *)
NumberingSound == NoGaps /\ AnnouncedCaseExists /\ StuckOnlyBehindDeleted

(* The invoice whose creation is about to be answered is found: 'should     *)
(* create an invoice from time entries with correct totals (201)'           *)
(* (billing.e2e-spec.ts).                                                   *)
NewInvoiceFound ==
  \A r \in Creations : CreationAt(r, "readback") => creation[r].number \in LiveNumbers(creation[r].kind)
=============================================================================
