------------------------------- MODULE CaseWork ------------------------------
(****************************************************************************)
(* The parties, notes and tasks of one case, its timeline, and a reader of  *)
(* CaseService.getTimeline.  A row is written in one statement and its      *)
(* timeline entry in a later one.  The timeline is paged by a cursor: the   *)
(* createdAt of the last entry shown, to the millisecond.                   *)
(*                                                                          *)
(* The case itself is found by every operation (CaseLifecycle has its       *)
(* deletion), and edits leave alone all that is modelled here.              *)
(****************************************************************************)
EXTENDS Naturals, Sequences, FiniteSetsExt, Handlers

CONSTANTS
  Items,      \* ids of parties, notes and tasks
  MaxEntries, \* bound: entries in the timeline
  PageSize    \* the limit of the timeline's reader

ItemKinds == {"party", "note", "task"}
ItemRow == [kind : ItemKinds, state : {"open", "completed", "removed"}]
Entries == 1..MaxEntries

ASSUME CaseWorkOK ==
  /\ MaxEntries \in Nat /\ PageSize \in Nat \ {0}
  /\ None \notin Items \cup ItemRow \cup Entries

VARIABLES
  item,     \* each row's kind and state, None before it is inserted
  timeline, \* the entries in the order of their insertion
  unlogged, \* history: items one of whose handlers died before the entry
  reading   \* the reader's way through the timeline

caseWorkVars == <<item, timeline, unlogged, reading>>

Entry == [item : Items, event : {"ADDED", "COMPLETED"}, at : Entries]
ItemJob == [op : {"add", "complete"}, pc : {"write", "entry"}, item : Items]
      \cup [op : {"edit", "remove"}, pc : {"write"}, item : Items]

NoReading == [pc |-> "none"]
Reading == [pc : {"page", "done"}, before : Entries \cup {None}, asked : SUBSET Entries,
            seen : SUBSET Entries, twice : SUBSET Entries]

(* Entries are numbered as they come, and their times do not decrease. *)
CaseWorkTypeOK ==
  /\ item \in [Items -> ItemRow \cup {None}]
  /\ \E n \in 0..MaxEntries : timeline \in [1..n -> Entry]
  /\ \A i, j \in DOMAIN timeline : i < j => timeline[i].at <= timeline[j].at
  /\ unlogged \subseteq Items
  /\ reading \in Reading \cup {NoReading}
  /\ req \in [Requests -> {IdleJob} \cup ItemJob]

CaseWorkInit ==
  /\ item = [i \in Items |-> None] /\ timeline = <<>> /\ unlogged = {}
  /\ reading = NoReading
  /\ req = [r \in Requests |-> IdleJob]

-----------------------------------------------------------------------------
Stands(i) == item[i] # None /\ item[i].state # "removed"
Task(i) == item[i].kind = "task"

AddItem(r, i) ==
  /\ item[i] = None /\ \A q \in Requests : ~Idle(q) => req[q].item # i
  /\ Start(r, [op |-> "add", pc |-> "write", item |-> i])
  /\ UNCHANGED caseWorkVars

InsertItem(r) ==
  /\ Doing(r, "add", "write")
  /\ \E k \in ItemKinds : item' = [item EXCEPT ![req[r].item] = [kind |-> k, state |-> "open"]]
  /\ Goto(r, "entry")
  /\ UNCHANGED <<timeline, unlogged, reading>>

(* createTimelineEntry, in the millisecond of the last entry or in a later  *)
(* one.                                                                     *)
WriteEntry(r) ==
  LET n    == Len(timeline)
      last == IF n = 0 THEN 1 ELSE timeline[n].at
  IN  /\ req[r].pc = "entry" /\ n < MaxEntries
      /\ \E at \in {last, last + 1} \cap Entries :
           timeline' = Append(timeline,
             [item |-> req[r].item, at |-> at,
              event |-> IF req[r].op = "add" THEN "ADDED" ELSE "COMPLETED"])
      /\ Finish(r)
      /\ UNCHANGED <<item, unlogged, reading>>

(* updateParty, updateNote, updateTask; removeParty, removeNote, removeTask; *)
(* completeTask, which does not ask whether the task is completed already.  *)
FindItem(r, op, i) ==
  /\ Stands(i) /\ (op = "complete" => Task(i))
  /\ Start(r, [op |-> op, pc |-> "write", item |-> i])
  /\ UNCHANGED caseWorkVars

(* Notes are kept as deleted rows, and an edit still finds those by id; of  *)
(* the others the row is gone and the statement fails.                      *)
EditItem(r) ==
  /\ Doing(r, "edit", "write")
  /\ Stands(req[r].item) \/ item[req[r].item].kind = "note"
  /\ Finish(r)
  /\ UNCHANGED caseWorkVars

RemoveItemRow(r) ==
  /\ Doing(r, "remove", "write")
  /\ Stands(req[r].item) \/ item[req[r].item].kind = "note"
  /\ item' = [item EXCEPT ![req[r].item].state = "removed"]
  /\ Finish(r)
  /\ UNCHANGED <<timeline, unlogged, reading>>

(* Mutant: completing leaves no entry. *)
CompleteQuietly(r) ==
  /\ Doing(r, "complete", "write") /\ Stands(req[r].item)
  /\ item' = [item EXCEPT ![req[r].item].state = "completed"]
  /\ Finish(r)
  /\ UNCHANGED <<timeline, unlogged, reading>>

CompleteTask(r) ==
  /\ Doing(r, "complete", "write") /\ Stands(req[r].item)
  /\ item' = [item EXCEPT ![req[r].item].state = "completed"]
  /\ Goto(r, "entry")
  /\ UNCHANGED <<timeline, unlogged, reading>>

(* A statement fails, or the process dies. *)
CaseWorkFail(r) ==
  /\ ~Idle(r)
  /\ unlogged' = IF req[r].pc = "entry" THEN unlogged \cup {req[r].item} ELSE unlogged
  /\ Finish(r)
  /\ UNCHANGED <<item, timeline, reading>>

-----------------------------------------------------------------------------
OpenTimeline ==
  /\ reading = NoReading
  /\ reading' = [pc |-> "page", before |-> None, asked |-> DOMAIN timeline,
                 seen |-> {}, twice |-> {}]
  /\ UNCHANGED <<item, timeline, unlogged, req>>

(* The entries before the cursor: those of its own millisecond are out. *)
Before(cursor) == {n \in DOMAIN timeline : cursor = None \/ timeline[n].at < cursor}

(* The newest PageSize entries, in whatever order the database has those of *)
(* one millisecond.                                                         *)
IsPage(page, rows) ==
  /\ Cardinality(page) = IF Cardinality(rows) > PageSize THEN PageSize ELSE Cardinality(rows)
  /\ \A n \in page, m \in rows \ page : timeline[n].at >= timeline[m].at

ReadPage ==
  /\ reading.pc = "page"
  /\ \E page \in SUBSET Before(reading.before) :
       /\ IsPage(page, Before(reading.before))
       /\ LET more == page # Before(reading.before)
          IN  reading' = [reading EXCEPT
                !.pc = IF more THEN "page" ELSE "done",
                !.before = IF more THEN Min({timeline[n].at : n \in page}) ELSE None,
                !.seen = @ \cup page,
                !.twice = @ \cup (reading.seen \cap page)]
  /\ UNCHANGED <<item, timeline, unlogged, req>>

CloseTimeline ==
  /\ reading.pc = "done" /\ reading' = NoReading
  /\ UNCHANGED <<item, timeline, unlogged, req>>

CaseWorkNext ==
  \/ \E r \in Requests :
       \/ \E i \in Items : AddItem(r, i)
       \/ \E i \in Items, op \in {"edit", "remove", "complete"} : FindItem(r, op, i)
       \/ InsertItem(r) \/ WriteEntry(r) \/ EditItem(r) \/ RemoveItemRow(r)
       \/ CompleteTask(r) \/ CaseWorkFail(r)
  \/ OpenTimeline \/ ReadPage \/ CloseTimeline

CaseWorkSpec == CaseWorkInit /\ [][CaseWorkNext]_<<req, caseWorkVars>>

-----------------------------------------------------------------------------
Logged(i, event) == \E n \in DOMAIN timeline : timeline[n].item = i /\ timeline[n].event = event
ToBeLogged(i, op) == \E r \in Requests : Doing(r, op, "entry") /\ req[r].item = i

(* The timeline tells what happened: a row is announced in it, and a        *)
(* completed task as completed, once their handlers are done, unless one    *)
(* died between the two statements; and no task is told to be completed     *)
(* that stands open.                                                        *)
TimelineTells ==
  \A i \in Items :
    /\ item[i] # None => Logged(i, "ADDED") \/ ToBeLogged(i, "add") \/ i \in unlogged
    /\ Stands(i) /\ item[i].state = "completed" =>
         Logged(i, "COMPLETED") \/ ToBeLogged(i, "complete") \/ i \in unlogged
    /\ Logged(i, "COMPLETED") => item[i].state # "open"

(* Whoever pages through the timeline, beside whatever is added to it,      *)
(* never sees an entry twice, and misses one of those there at the start    *)
(* only if a page ended among entries of the same millisecond.              *)
TimelineSkipsOnlyTies ==
  reading.pc # "none" =>
    /\ reading.twice = {}
    /\ reading.pc = "done" =>
         \A n \in reading.asked \ reading.seen :
           \E m \in reading.seen : timeline[m].at = timeline[n].at

(* What is written into the timeline and what is read from it.              *)
TimelineSound == TimelineTells /\ TimelineSkipsOnlyTies
=============================================================================
