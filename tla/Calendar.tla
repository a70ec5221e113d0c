------------------------------ MODULE Calendar ------------------------------
(****************************************************************************)
(* Events and who attends them: EventService.create, update, remove,        *)
(* addAttendee and removeAttendee.  No operation is a transaction.  create  *)
(* writes the event, then its attendees in parallel, and only then looks    *)
(* for events that overlap, one person at a time.                           *)
(****************************************************************************)
EXTENDS Naturals, FiniteSets, Handlers

CONSTANTS
  EventIds,
  People,
  Deleted, \* a deleted row: nothing reads it again
  Horizon  \* bound: the moments are 1..Horizon

Moments == 1..Horizon
EventRow == [start : Moments, end : Moments, createdBy : People,
             attendees : SUBSET People]

ASSUME CalendarOK == /\ Horizon \in Nat /\ None # Deleted
                     /\ {None, Deleted} \cap (EventIds \cup People \cup EventRow) = {}

VARIABLES
  event,   \* the rows, None before an event is created
  warned,  \* history: the conflicts each creation was answered with
  moot,    \* history: events that were changed, deleted, or whose handler failed
  crossed  \* history: events whose interval was updated by overlapping requests

calendarHistory == <<warned, moot, crossed>>
calendarVars == <<event, calendarHistory>>

CreateEventJob == [op : {"createEvent"}, pc : {"attendees", "check"}, event : EventIds,
                   todo : SUBSET People, asked : SUBSET People,
                   start : Moments, end : Moments, found : SUBSET EventIds]
UpdateEventJob == [op : {"updateEvent"}, pc : {"write"}, event : EventIds,
                   start : Moments \cup {None}, end : Moments \cup {None}]
AttendeeJob == [op : {"addAttendee", "removeAttendee"}, pc : {"write"},
                event : EventIds, user : People]
RemoveEventJob == [op : {"removeEvent"}, pc : {"write"}, event : EventIds]

(* findOne: an event that is not deleted. *)
Scheduled(e) == event[e] \notin {None, Deleted}

(* An event ends after it starts, unless two updates of it overlapped: each *)
(* checks the bound it changes against the other one as it read it.         *)
CalendarTypeOK ==
  /\ event \in [EventIds -> EventRow \cup {None, Deleted}]
  /\ warned \in [EventIds -> SUBSET EventIds]
  /\ moot \subseteq EventIds /\ crossed \subseteq EventIds
  /\ req \in [Requests -> {IdleJob} \cup CreateEventJob \cup UpdateEventJob
                            \cup AttendeeJob \cup RemoveEventJob]
  /\ \A e \in EventIds \ crossed : Scheduled(e) => event[e].start < event[e].end

CalendarInit ==
  /\ event = [e \in EventIds |-> None]
  /\ warned = [e \in EventIds |-> {}] /\ moot = {} /\ crossed = {}
  /\ req = [r \in Requests |-> IdleJob]

-----------------------------------------------------------------------------
Involved(e) == {event[e].createdBy} \cup event[e].attendees
Meets(e, start, end) == event[e].start < end /\ event[e].end > start

(* Rows that still matter are written. *)
Attend(e, users) ==
  event' = IF Scheduled(e)
           THEN [event EXCEPT ![e].attendees = @ \cup users] ELSE event

(* Once an event was changed or deleted, its warnings no longer count. *)
Spoil(e) ==
  /\ moot' = moot \cup {e}
  /\ warned' = [warned EXCEPT ![e] = {}]

CreateEvent(r, e, u, guests, start, end) ==
  /\ event[e] = None /\ start < end
  /\ Start(r, [op |-> "createEvent", pc |-> "attendees", event |-> e,
               todo |-> guests, asked |-> {u} \cup guests,
               start |-> start, end |-> end, found |-> {}])
  /\ event' = [event EXCEPT ![e] = [start |-> start, end |-> end, createdBy |-> u,
                 attendees |-> {}]]
  /\ UNCHANGED calendarHistory

(* The inserts run in parallel; Promise.all waits for them. *)
InsertAttendee(r, u) ==
  LET e == req[r].event
  IN  /\ Doing(r, "createEvent", "attendees") /\ u \in req[r].todo
      /\ Scheduled(e) => u \notin event[e].attendees
      /\ Attend(e, {u})
      /\ req' = [req EXCEPT ![r].todo = @ \ {u}]
      /\ UNCHANGED calendarHistory

AttendeesIn(r) ==
  /\ Doing(r, "createEvent", "attendees") /\ req[r].todo = {}
  /\ req' = [req EXCEPT ![r].pc = "check", ![r].todo = req[r].asked]
  /\ UNCHANGED calendarVars

(* Mutant: only events that start together count. *)
CheckPersonSame(r, u) ==
  LET e == req[r].event
      overlapping == {f \in EventIds \ {e} :
        /\ Scheduled(f) /\ u \in Involved(f)
        /\ event[f].start = req[r].start}
  IN  /\ Doing(r, "createEvent", "check") /\ u \in req[r].todo
      /\ req' = [req EXCEPT ![r].todo = @ \ {u}, ![r].found = @ \cup overlapping]
      /\ UNCHANGED calendarVars

(* checkScheduleConflicts: one query per person, the handler's own event    *)
(* left out.                                                                *)
CheckPerson(r, u) ==
  LET e == req[r].event
      overlapping == {f \in EventIds \ {e} :
        /\ Scheduled(f) /\ u \in Involved(f)
        /\ Meets(f, req[r].start, req[r].end)}
  IN  /\ Doing(r, "createEvent", "check") /\ u \in req[r].todo
      /\ req' = [req EXCEPT ![r].todo = @ \ {u}, ![r].found = @ \cup overlapping]
      /\ UNCHANGED calendarVars

(* The answer has the event and its warnings; a deleted one is a 404. *)
AnswerEvent(r) ==
  LET e == req[r].event
  IN  /\ Doing(r, "createEvent", "check") /\ req[r].todo = {}
      /\ warned' = IF e \in moot THEN warned ELSE [warned EXCEPT ![e] = req[r].found]
      /\ Finish(r)
      /\ UNCHANGED <<event, moot, crossed>>

(* Mutant: the bounds are not compared. *)
UpdateEventUnchecked(r, e, start, end) ==
  /\ Scheduled(e)
  /\ Start(r, [op |-> "updateEvent", pc |-> "write", event |-> e, start |-> start, end |-> end])
  /\ UNCHANGED calendarVars

(* update: None stands for a date the body leaves alone (bound: a body has   *)
(* one of the two).                                                         *)
UpdateEvent(r, e, start, end) ==
  /\ Scheduled(e)
  /\ (IF start = None THEN event[e].start ELSE start)
       < (IF end = None THEN event[e].end ELSE end)
  /\ Start(r, [op |-> "updateEvent", pc |-> "write", event |-> e, start |-> start, end |-> end])
  /\ UNCHANGED calendarVars

(* Only the bounds in the body are written, whatever the others are now. *)
UpdateEventWrite(r) ==
  LET e == req[r].event
  IN  /\ Doing(r, "updateEvent", "write")
      /\ event' = IF ~Scheduled(e) THEN event ELSE [event EXCEPT
           ![e].start = IF req[r].start = None THEN @ ELSE req[r].start,
           ![e].end   = IF req[r].end = None THEN @ ELSE req[r].end]
      /\ Spoil(e)
      /\ crossed' = IF \E q \in Requests \ {r} :
                         Doing(q, "updateEvent", "write") /\ req[q].event = e
                    THEN crossed \cup {e} ELSE crossed
      /\ Finish(r)

RemoveEvent(r, e) ==
  /\ Scheduled(e)
  /\ Start(r, [op |-> "removeEvent", pc |-> "write", event |-> e])
  /\ UNCHANGED calendarVars

RemoveEventWrite(r) ==
  /\ Doing(r, "removeEvent", "write")
  /\ event' = [event EXCEPT ![req[r].event] = Deleted]
  /\ Spoil(req[r].event)
  /\ Finish(r)
  /\ UNCHANGED crossed

(* addAttendee leaves a duplicate to the unique pair. *)
AddAttendee(r, e, u) ==
  /\ Scheduled(e)
  /\ Start(r, [op |-> "addAttendee", pc |-> "write", event |-> e, user |-> u])
  /\ UNCHANGED calendarVars

RemoveAttendee(r, e, u) ==
  /\ Scheduled(e) /\ u \in event[e].attendees
  /\ Start(r, [op |-> "removeAttendee", pc |-> "write", event |-> e, user |-> u])
  /\ UNCHANGED calendarVars

AttendeeWrite(r) ==
  LET e == req[r].event
      u == req[r].user
  IN  /\ req[r].op \in {"addAttendee", "removeAttendee"}
      /\ Scheduled(e) => (u \in event[e].attendees <=> req[r].op = "removeAttendee")
      /\ IF Scheduled(e) /\ req[r].op = "removeAttendee"
         THEN event' = [event EXCEPT ![e].attendees = @ \ {u}]
         ELSE Attend(e, {u})
      /\ Spoil(e)
      /\ Finish(r)
      /\ UNCHANGED crossed

(* A statement fails or the process dies.  A failed insert answers at once, *)
(* but the inserts beside it may still go through.                          *)
CalendarFail(r) ==
  LET e == req[r].event
  IN  /\ ~Idle(r)
      /\ \E done \in SUBSET (IF Doing(r, "createEvent", "attendees")
                             THEN req[r].todo ELSE {}) :
           Attend(e, done)
      /\ IF req[r].op = "createEvent" THEN Spoil(e) ELSE UNCHANGED <<warned, moot>>
      /\ Finish(r)
      /\ UNCHANGED crossed

Change(r, e) ==
  \/ \E t \in Moments : UpdateEvent(r, e, t, None) \/ UpdateEvent(r, e, None, t)
  \/ RemoveEvent(r, e)
  \/ \E u \in People : AddAttendee(r, e, u) \/ RemoveAttendee(r, e, u)

(* Bound: no change of an event begins after another one is done. *)
EventStep(r, e) ==
  \/ \E u \in People, start, end \in Moments : \E guests \in SUBSET (People \ {u}) :
       CreateEvent(r, e, u, guests, start, end)
  \/ e \notin moot /\ Change(r, e)

CalendarStep(r) ==
  \/ \E e \in EventIds : EventStep(r, e)
  \/ \E u \in People : InsertAttendee(r, u) \/ CheckPerson(r, u)
  \/ AttendeesIn(r) \/ AnswerEvent(r) \/ UpdateEventWrite(r) \/ RemoveEventWrite(r)
  \/ AttendeeWrite(r) \/ CalendarFail(r)

CalendarNext == \E r \in Requests : CalendarStep(r)

CalendarSpec == CalendarInit /\ [][CalendarNext]_<<req, calendarVars>>

-----------------------------------------------------------------------------
BeingCreated(e) == \E r \in Requests : req[r].op = "createEvent" /\ req[r].event = e

(* Nobody is booked twice unawares: of two events that overlap and share a  *)
(* person, both answered for and untouched since, one creator was warned of *)
(* the other, in whatever order the two requests ran.                       *)
ConflictNoticed ==
  \A e, f \in EventIds :
    (/\ e # f /\ Scheduled(e) /\ Scheduled(f)
     /\ ~BeingCreated(e) /\ ~BeingCreated(f) /\ {e, f} \cap moot = {}
     /\ Involved(e) \cap Involved(f) # {}
     /\ Meets(e, event[f].start, event[f].end))
    => f \in warned[e] \/ e \in warned[f]
=============================================================================
