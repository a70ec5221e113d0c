-------------------------------- MODULE Inbox --------------------------------
(****************************************************************************)
(* One user's notifications: NotificationService.send, the three ways to    *)
(* mark them read, and a reader who pages through the list of               *)
(* NotificationRestService.findAll (NotificationService.findAllForUser is   *)
(* the same without a filter).  A page is two queries that run in parallel  *)
(* with no snapshot over them: the rows from an offset on, newest first,    *)
(* and the count.  Case notes and the other lists of the API page this way. *)
(*                                                                          *)
(* The channel, the texts and the other filters are left out: rows stand    *)
(* for those the filters let through.                                       *)
(****************************************************************************)
EXTENDS Naturals, FiniteSetsExt

CONSTANTS
  MaxSent,   \* bound: notifications sent
  PageLimit  \* the limit of the reader's query

ASSUME InboxBoundsOK == MaxSent \in Nat /\ PageLimit \in Nat \ {0}

VARIABLES
  sent,    \* how many notifications there are, numbered in the order of createdAt
  read,    \* those with a readAt
  marking, \* a markAsRead between its find and its update, 0 if there is none
  walk     \* the reader's way through the pages

inboxVars == <<sent, read, marking, walk>>

Ids(n) == 1..n
NoWalk == [pc |-> "none"]

(* asked are the rows the walk set out for.  raced: a row arrived between   *)
(* the count and the rows of the current page; marked: one was marked read. *)
Walk == [pc : {"page", "done"}, unread : BOOLEAN, offset : Nat, pending : SUBSET {"data", "count"},
         total : Ids(MaxSent) \cup {0}, seen : SUBSET Ids(MaxSent), asked : SUBSET Ids(MaxSent),
         raced : BOOLEAN, marked : BOOLEAN]

InboxTypeOK ==
  /\ sent \in 0..MaxSent
  /\ read \subseteq Ids(sent)
  /\ marking \in 0..sent
  /\ walk \in Walk \cup {NoWalk}

InboxInit == sent = 0 /\ read = {} /\ marking = 0 /\ walk = NoWalk

-----------------------------------------------------------------------------
(* where: the user's rows, only those without a readAt if the query says so. *)
Matching(unread) == Ids(sent) \ (IF unread THEN read ELSE {})

(* skip offset, take PageLimit, newest first. *)
Page(rows, offset) ==
  {n \in rows : Cardinality({m \in rows : m > n}) \in offset..(offset + PageLimit - 1)}

Raced(w) == w.pc = "page" /\ w.pending = {"data"}
Marks(rows) ==
  /\ read' = read \cup rows
  /\ walk' = IF walk.pc = "page" /\ ~(rows \subseteq read)
             THEN [walk EXCEPT !.marked = TRUE] ELSE walk

Send ==
  /\ sent < MaxSent /\ sent' = sent + 1
  /\ walk' = IF Raced(walk) THEN [walk EXCEPT !.raced = TRUE] ELSE walk
  /\ UNCHANGED <<read, marking>>

(* markAsRead finds the row, checks its owner, and updates it by its id. *)
MarkFind(n) ==
  /\ marking = 0 /\ n \in Ids(sent)
  /\ marking' = n
  /\ UNCHANGED <<sent, read, walk>>

MarkOne ==
  /\ marking # 0 /\ marking' = 0
  /\ Marks({marking})
  /\ UNCHANGED sent

(* markRead with ids, of which none are the other users'; one statement. *)
MarkRead(ids) ==
  /\ Marks(ids \cap Ids(sent))
  /\ UNCHANGED <<sent, marking>>

(* markAllAsRead, and markRead without ids. *)
MarkAllAsRead ==
  /\ Marks(Ids(sent))
  /\ UNCHANGED <<sent, marking>>

-----------------------------------------------------------------------------
OpenInbox(unread) ==
  /\ walk = NoWalk
  /\ walk' = [pc |-> "page", unread |-> unread, offset |-> 0, pending |-> {"data", "count"},
              total |-> 0, seen |-> {}, asked |-> Matching(unread), raced |-> FALSE,
              marked |-> FALSE]
  /\ UNCHANGED <<sent, read, marking>>

FetchRows ==
  /\ walk.pc = "page" /\ "data" \in walk.pending
  /\ walk' = [walk EXCEPT !.pending = @ \ {"data"},
                          !.seen = @ \cup Page(Matching(walk.unread), walk.offset)]
  /\ UNCHANGED <<sent, read, marking>>

FetchCount ==
  /\ walk.pc = "page" /\ "count" \in walk.pending
  /\ walk' = [walk EXCEPT !.pending = @ \ {"count"}, !.total = Cardinality(Matching(walk.unread))]
  /\ UNCHANGED <<sent, read, marking>>

(* Mutant: the limit counts from the next row on. *)
NextOffByOne(offset, total) == offset + PageLimit + 1 < total

HasNextPage(offset, total) == offset + PageLimit < total

(* The reader turns the page as long as hasNextPage says there is one. *)
TurnPage ==
  /\ walk.pc = "page" /\ walk.pending = {}
  /\ walk' = IF HasNextPage(walk.offset, walk.total)
             THEN [walk EXCEPT !.offset = @ + PageLimit, !.pending = {"data", "count"},
                               !.raced = FALSE]
             ELSE [walk EXCEPT !.pc = "done"]
  /\ UNCHANGED <<sent, read, marking>>

CloseInbox ==
  /\ walk.pc = "done" /\ walk' = NoWalk
  /\ UNCHANGED <<sent, read, marking>>

InboxNext ==
  \/ Send \/ MarkOne \/ MarkAllAsRead
  \/ \E n \in Ids(sent) : MarkFind(n)
  \/ \E ids \in SUBSET Ids(sent) : MarkRead(ids)
  \/ \E unread \in BOOLEAN : OpenInbox(unread)
  \/ FetchRows \/ FetchCount \/ TurnPage \/ CloseInbox

InboxSpec == InboxInit /\ [][InboxNext]_inboxVars

-----------------------------------------------------------------------------
(* Whoever turns the pages to the end has seen every row that was there at  *)
(* the start, however many arrive meanwhile, unless one arrived between the *)
(* count and the rows of the last page, or rows were marked read under the  *)
(* filter of unread ones: then the rows move up below the offset.           *)
WalkMissesOnlyUnderChange ==
  walk.pc = "done" /\ ~(walk.asked \subseteq walk.seen) =>
    walk.raced \/ (walk.unread /\ walk.marked)
=============================================================================
