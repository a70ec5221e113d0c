------------------------------ MODULE SoftDelete -----------------------------
(****************************************************************************)
(* The Prisma extension for the models with a deletedAt                     *)
(* (core/database/prisma.extension.ts): one row, its insertion and its soft *)
(* deletion, beside a caller that looks it up.  findMany, findFirst,        *)
(* findFirstOrThrow and count filter in the query; findUnique and           *)
(* findUniqueOrThrow check the row they got, and findUnique then asks for   *)
(* it once more.  delete and deleteMany are never called on these models.   *)
(****************************************************************************)
EXTENDS Naturals

Lookups == {"filtered", "unique", "uniqueOrThrow"}
RowStates == {"absent", "live", "deleted"}

VARIABLES
  row,    \* the row in its table
  lookup  \* the caller's lookup; was: the states of the row since it was called

softDeleteVars == <<row, lookup>>

NoLookup == [pc |-> "none"]
Lookup == [pc : {"query", "again", "answered"}, by : Lookups, narrow : BOOLEAN,
           found : BOOLEAN, was : SUBSET RowStates]

SoftDeleteTypeOK ==
  /\ row \in RowStates /\ lookup \in Lookup \cup {NoLookup}
  /\ lookup.pc = "again" => lookup.by = "unique"

SoftDeleteInit == row \in RowStates /\ lookup = NoLookup

-----------------------------------------------------------------------------
(* narrow: the select does not ask for deletedAt. *)
LookUp(by, narrow) ==
  /\ lookup = NoLookup
  /\ lookup' = [pc |-> "query", by |-> by, narrow |-> narrow, found |-> FALSE, was |-> {row}]
  /\ UNCHANGED row

Answer(found) == lookup' = [lookup EXCEPT !.pc = "answered", !.found = found]
Asking(by) == lookup.pc = "query" /\ lookup.by = by

(* where is extended by deletedAt: null. *)
QueryFiltered ==
  /\ Asking("filtered")
  /\ Answer(row = "live")
  /\ UNCHANGED row

(* result.deletedAt !== null: of a narrow result it is undefined.           *)
Refused == row = "deleted" \/ (row = "live" /\ lookup.narrow)

QueryUnique ==
  /\ Asking("unique")
  /\ IF Refused THEN Answer(FALSE) ELSE lookup' = [lookup EXCEPT !.pc = "again"]
  /\ UNCHANGED row

(* The second query's result is returned as it is. *)
QueryAgain ==
  /\ lookup.pc = "again"
  /\ Answer(row # "absent")
  /\ UNCHANGED row

(* One query; an absent row throws by itself. *)
QueryOrThrow ==
  /\ Asking("uniqueOrThrow")
  /\ Answer(row # "absent" /\ ~Refused)
  /\ UNCHANGED row

TakeAnswer ==
  /\ lookup.pc = "answered"
  /\ lookup' = NoLookup
  /\ UNCHANGED row

Becomes(state) ==
  /\ row' = state
  /\ lookup' = IF lookup.pc \in {"query", "again"}
               THEN [lookup EXCEPT !.was = @ \cup {state}] ELSE lookup

(* A service's create.  A deleted row keeps its unique keys. *)
InsertLive == row = "absent" /\ Becomes("live")

(* A service's remove: an update of deletedAt by the id, which no filter    *)
(* keeps from a row that is deleted already.                                *)
MarkDeleted == row # "absent" /\ Becomes("deleted")

SoftDeleteNext ==
  \/ \E by \in Lookups, narrow \in BOOLEAN : LookUp(by, narrow)
  \/ QueryFiltered \/ QueryUnique \/ QueryAgain \/ QueryOrThrow \/ TakeAnswer
  \/ InsertLive \/ MarkDeleted

SoftDeleteSpec == SoftDeleteInit /\ [][SoftDeleteNext]_softDeleteVars

-----------------------------------------------------------------------------
(* A row that a lookup finds was live at some moment of the call, though    *)
(* its second query may return it deleted; and a row that it denies was     *)
(* absent or deleted at some moment, or was asked for without deletedAt.    *)
LookupsSeeLive ==
  lookup.pc = "answered" =>
    IF lookup.found THEN "live" \in lookup.was
    ELSE \/ lookup.was \cap {"absent", "deleted"} # {}
         \/ lookup.narrow /\ lookup.by # "filtered"
=============================================================================
