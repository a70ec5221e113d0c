---------------------------- MODULE OfficeProofs ----------------------------
(****************************************************************************)
(* The parts of the office, for any number of requests, people, events,     *)
(* codes, bills and notifications, each proved of its own specification and *)
(* then of the specification that runs them all.                            *)
(****************************************************************************)
EXTENDS MCOffice, TeamProofs, CreationProofs, FiniteSetTheorems, SequenceTheorems,
        WellFoundedInduction, TLAPS

(* What a step leaves the other requests.                                   *)
OnlyMoves(r, job) ==
  /\ req'[r] = job
  /\ \A q \in Requests \ {r} : req'[q] = req[q]

-----------------------------------------------------------------------------
(****************************************************************************)
(* The calendar.  An event has one creation, which holds the row as it was  *)
(* written unless it is moot; an update in flight keeps the bounds apart    *)
(* unless two crossed; and of two events for which a person they share was  *)
(* checked, one has noticed the other: the later check sees the other row.  *)
(****************************************************************************)
Creates(r, e) == req[r].op = "createEvent" /\ req[r].event = e

OneCreator ==
  \A r, q \in Requests, e \in EventIds : Creates(r, e) /\ Creates(q, e) => r = q

CreateHeld(r) ==
  LET e == req[r].event
  IN  req[r].op = "createEvent" =>
        /\ event[e] # None
        /\ req[r].todo \subseteq req[r].asked
        /\ e \notin moot /\ Scheduled(e) =>
             /\ event[e].start = req[r].start /\ event[e].end = req[r].end
             /\ Involved(e) \subseteq req[r].asked

UpdateHeld(r) ==
  LET e == req[r].event
  IN  req[r].op = "updateEvent" =>
        /\ event[e] # None
        /\ Scheduled(e) /\ e \notin crossed =>
             (IF req[r].start = None THEN event[e].start ELSE req[r].start)
               < (IF req[r].end = None THEN event[e].end ELSE req[r].end)

(* The creation of e, if it goes on, has checked u. *)
Checked(e, u) == \A r \in Requests : Creates(r, e) => req[r].pc = "check" /\ u \notin req[r].todo

Noticed(e, f) ==
  IF BeingCreated(e) THEN \E r \in Requests : Creates(r, e) /\ f \in req[r].found
  ELSE f \in warned[e]

Overlap(e, f) ==
  /\ e # f /\ Scheduled(e) /\ Scheduled(f) /\ {e, f} \cap moot = {}
  /\ Meets(e, event[f].start, event[f].end)

PairNoticed(e, f) ==
  Overlap(e, f) =>
    \A u \in Involved(e) \cap Involved(f) :
      Checked(e, u) /\ Checked(f, u) => Noticed(e, f) \/ Noticed(f, e)

CalendarInv ==
  /\ CalendarTypeOK /\ OneCreator
  /\ \A r \in Requests : CreateHeld(r) /\ UpdateHeld(r)
  /\ \A e, f \in EventIds : PairNoticed(e, f)

CalendarJob == CreateEventJob \cup UpdateEventJob \cup AttendeeJob \cup RemoveEventJob

LEMMA CalendarFacts ==
  ASSUME CalendarInv
  PROVE  /\ event \in [EventIds -> EventRow \cup {None, Deleted}]
         /\ warned \in [EventIds -> SUBSET EventIds]
         /\ moot \subseteq EventIds /\ crossed \subseteq EventIds
         /\ req \in [Requests -> {IdleJob} \cup CalendarJob]
         /\ \A e \in EventIds : Scheduled(e) => event[e] \in EventRow
         /\ \A e \in EventIds \ crossed : Scheduled(e) => event[e].start < event[e].end
         /\ OneCreator
         /\ \A r \in Requests : CreateHeld(r) /\ UpdateHeld(r)
         /\ \A e, f \in EventIds : PairNoticed(e, f)
BY DEF CalendarInv, CalendarTypeOK, CalendarJob, Scheduled

(* The handlers of each operation. *)
LEMMA CalendarJobs ==
  ASSUME CalendarInv, NEW r \in Requests
  PROVE  /\ req[r].op = "createEvent" => req[r] \in CreateEventJob /\ req[r].event \in EventIds
         /\ req[r].op = "updateEvent" => req[r] \in UpdateEventJob /\ req[r].event \in EventIds
         /\ req[r].op \in {"addAttendee", "removeAttendee"} =>
              req[r] \in AttendeeJob /\ req[r].event \in EventIds /\ req[r].user \in People
         /\ req[r].op = "removeEvent" => req[r] \in RemoveEventJob /\ req[r].event \in EventIds
         /\ req[r].op \in {"none", "createEvent", "updateEvent", "addAttendee",
                           "removeAttendee", "removeEvent"}
<1>1. req[r] \in {IdleJob} \cup CalendarJob BY CalendarFacts
<1> QED BY <1>1 DEF CalendarJob, CreateEventJob, UpdateEventJob, AttendeeJob, RemoveEventJob,
                    IdleJob

(* An event that a step leaves alone. *)
Kept(e) ==
  /\ event'[e] = event[e]
  /\ \A u : Checked(e, u)' => Checked(e, u)
  /\ \A f : Noticed(e, f) => Noticed(e, f)'

LEMMA KeptIs ==
  ASSUME NEW r \in Requests, NEW job, OnlyMoves(r, job), NEW e \in EventIds,
         ~Creates(r, e), ~(job.op = "createEvent" /\ job.event = e),
         event'[e] = event[e], warned'[e] = warned[e]
  PROVE  Kept(e)
<1>1. \A q \in Requests : Creates(q, e)' <=> Creates(q, e)
  BY DEF OnlyMoves, Creates
<1>2. \A q \in Requests : Creates(q, e) => req'[q] = req[q]
  BY DEF OnlyMoves, Creates
<1>3. \A u : Checked(e, u)' => Checked(e, u) BY <1>1, <1>2 DEF Checked
<1>4. BeingCreated(e)' <=> BeingCreated(e) BY <1>1 DEF BeingCreated, Creates
<1>5. \A f : Noticed(e, f) => Noticed(e, f)' BY <1>1, <1>2, <1>4 DEF Noticed
<1> QED BY <1>3, <1>5 DEF Kept

LEMMA KeptPairs ==
  ASSUME NEW e \in EventIds, NEW f \in EventIds, Kept(e), Kept(f), moot \subseteq moot',
         PairNoticed(e, f)
  PROVE  PairNoticed(e, f)'
<1>1. Overlap(e, f)' => Overlap(e, f)
  BY DEF Kept, Overlap, Scheduled, Meets
<1>2. Involved(e)' = Involved(e) /\ Involved(f)' = Involved(f) BY DEF Kept, Involved
<1> QED BY <1>1, <1>2 DEF PairNoticed, Kept

(* Pairs are symmetric. *)
LEMMA PairSymmetric ==
  ASSUME NEW e \in EventIds, NEW f \in EventIds, CalendarTypeOK', PairNoticed(e, f)'
  PROVE  PairNoticed(f, e)'
<1>1. Overlap(f, e)' => Overlap(e, f)'
  BY DEF CalendarTypeOK, Overlap, Scheduled, Meets, EventRow, Moments
<1> QED BY <1>1 DEF PairNoticed

(* All pairs, when one event is not left alone. *)
LEMMA PairsOf ==
  ASSUME CalendarInv, CalendarTypeOK', NEW d, moot \subseteq moot',
         \A e \in EventIds \ {d} : Kept(e),
         \A f \in EventIds : PairNoticed(d, f)'
  PROVE  \A e, f \in EventIds : PairNoticed(e, f)'
<1> SUFFICES ASSUME NEW e \in EventIds, NEW f \in EventIds PROVE PairNoticed(e, f)'
  OBVIOUS
<1>1. CASE e = d BY <1>1
<1>2. CASE f = d BY <1>2, PairSymmetric
<1>3. CASE e # d /\ f # d BY <1>3, KeptPairs, CalendarFacts
<1> QED BY <1>1, <1>2, <1>3

LEMMA CalendarMoves ==
  ASSUME CalendarInv, NEW r \in Requests, NEW job \in {IdleJob} \cup CalendarJob,
         req' = [req EXCEPT ![r] = job]
  PROVE  OnlyMoves(r, job) /\ req' \in [Requests -> {IdleJob} \cup CalendarJob]
BY CalendarFacts DEF OnlyMoves

(* The type invariant of the next state, by its parts. *)
LEMMA CalendarTyped ==
  ASSUME event' \in [EventIds -> EventRow \cup {None, Deleted}],
         warned' \in [EventIds -> SUBSET EventIds],
         moot' \subseteq EventIds, crossed' \subseteq EventIds,
         req' \in [Requests -> {IdleJob} \cup CalendarJob],
         \A e \in EventIds : e \notin crossed' /\ Scheduled(e)' =>
           event'[e].start < event'[e].end
  PROVE  CalendarTypeOK'
BY DEF CalendarTypeOK, CalendarJob

(* Nobody else starts to create. *)
LEMMA OneCreatorStays ==
  ASSUME OneCreator, NEW r \in Requests, NEW job, OnlyMoves(r, job),
         job.op = "createEvent" => Creates(r, job.event)
  PROVE  OneCreator'
BY DEF OneCreator, OnlyMoves, Creates

(* A handler that ends and leaves its event moot. *)
LEMMA SpoilKeeps ==
  ASSUME CalendarInv, NEW r \in Requests, NEW d \in EventIds, Finish(r),
         req[r].op = "createEvent" => req[r].event = d,
         Spoil(d), event' \in [EventIds -> EventRow \cup {None, Deleted}],
         \A e \in EventIds \ {d} : event'[e] = event[e],
         event'[d] = None => event[d] = None,
         crossed \subseteq crossed', crossed' \subseteq EventIds,
         d \notin crossed' /\ Scheduled(d)' =>
           /\ event'[d].start < event'[d].end
           /\ Scheduled(d)
           /\ \A q \in Requests \ {r} : req[q].op = "updateEvent" /\ req[q].event = d =>
                event'[d].start = event[d].start /\ event'[d].end = event[d].end
  PROVE  CalendarInv'
<1>1. /\ warned \in [EventIds -> SUBSET EventIds]
      /\ moot \subseteq EventIds
      /\ \A e \in EventIds \ crossed : Scheduled(e) => event[e].start < event[e].end
      /\ OneCreator /\ \A q \in Requests : CreateHeld(q) /\ UpdateHeld(q)
  BY CalendarFacts
<1>2. /\ moot' = moot \cup {d} /\ warned' = [warned EXCEPT ![d] = {}]
      /\ req' = [req EXCEPT ![r] = IdleJob] /\ IdleJob.op = "none"
  BY DEF Spoil, IdleJob, Finish
<1>3. OnlyMoves(r, IdleJob) /\ req' \in [Requests -> {IdleJob} \cup CalendarJob]
  BY <1>2, CalendarMoves
<1>4. warned' \in [EventIds -> SUBSET EventIds]
      /\ \A e \in EventIds \ {d} : warned'[e] = warned[e]
  BY <1>1, <1>2
<1>5. \A e \in EventIds \ {d} : Scheduled(e)' <=> Scheduled(e) BY DEF Scheduled
<1>6. CalendarTypeOK'
  <2>1. \A e \in EventIds : e \notin crossed' /\ Scheduled(e)' =>
          event'[e].start < event'[e].end
    BY <1>1, <1>5
  <2>2. moot' \subseteq EventIds BY <1>1, <1>2
  <2> QED BY <1>3, <1>4, <2>1, <2>2, CalendarTyped
<1>7. OneCreator' BY <1>1, <1>2, <1>3, OneCreatorStays
<1>8. ASSUME NEW q \in Requests PROVE CreateHeld(q)' /\ UpdateHeld(q)'
  <2>1. CASE q = r BY <1>2, <1>3, <2>1 DEF CreateHeld, UpdateHeld, OnlyMoves
  <2>2. CASE q # r
    <3>1. req'[q] = req[q] /\ CreateHeld(q) /\ UpdateHeld(q) BY <1>1, <1>3, <2>2 DEF OnlyMoves
    <3>2. CreateHeld(q)'
      <4>1. ASSUME req[q].op = "createEvent"
            PROVE  CreateHeld(q)'
        <5>1. req[q].event \in EventIds BY <4>1, CalendarJobs
        <5>2. CASE req[q].event = d
          <6>1. event'[d] # None /\ d \in moot' BY <1>2, <3>1, <4>1, <5>2 DEF CreateHeld
          <6> QED BY <3>1, <5>2, <6>1 DEF CreateHeld
        <5>3. CASE req[q].event # d
          BY <1>2, <1>5, <3>1, <4>1, <5>1, <5>3 DEF CreateHeld, Involved
        <5> QED BY <5>2, <5>3
      <4> QED BY <3>1, <4>1 DEF CreateHeld
    <3>3. UpdateHeld(q)'
      <4>1. ASSUME req[q].op = "updateEvent"
            PROVE  UpdateHeld(q)'
        <5>1. req[q].event \in EventIds BY <4>1, CalendarJobs
        <5>2. CASE req[q].event = d
          BY <2>2, <3>1, <4>1, <5>2 DEF UpdateHeld
        <5>3. CASE req[q].event # d
          BY <1>5, <3>1, <4>1, <5>1, <5>3 DEF UpdateHeld
        <5> QED BY <5>2, <5>3
      <4> QED BY <3>1, <4>1 DEF UpdateHeld
    <3> QED BY <3>2, <3>3
  <2> QED BY <2>1, <2>2
<1>9. \A e, f \in EventIds : PairNoticed(e, f)'
  <2>1. \A e \in EventIds \ {d} : Kept(e)
    BY <1>2, <1>3, <1>4, KeptIs DEF Creates
  <2>2. \A f \in EventIds : PairNoticed(d, f)' BY <1>2 DEF PairNoticed, Overlap
  <2> QED BY <1>2, <1>6, <2>1, <2>2, PairsOf
<1> QED BY <1>6, <1>7, <1>8, <1>9 DEF CalendarInv

(* A handler that begins a change, or that stops without one. *)
LEMMA QuietKeeps ==
  ASSUME CalendarInv, NEW r \in Requests, NEW job \in {IdleJob} \cup CalendarJob,
         req' = [req EXCEPT ![r] = job],
         req[r].op # "createEvent", job.op # "createEvent",
         event' \in [EventIds -> EventRow \cup {None, Deleted}],
         \A e \in EventIds : event'[e] = event[e],
         UNCHANGED <<warned, moot, crossed>>,
         job.op = "updateEvent" => UpdateHeld(r)'
  PROVE  CalendarInv'
<1>1. /\ warned \in [EventIds -> SUBSET EventIds]
      /\ moot \subseteq EventIds /\ crossed \subseteq EventIds
      /\ \A e \in EventIds \ crossed : Scheduled(e) => event[e].start < event[e].end
      /\ OneCreator /\ \A q \in Requests : CreateHeld(q) /\ UpdateHeld(q)
      /\ \A e, f \in EventIds : PairNoticed(e, f)
  BY CalendarFacts
<1>2. OnlyMoves(r, job) /\ req' \in [Requests -> {IdleJob} \cup CalendarJob]
  BY CalendarMoves
<1>3. \A e \in EventIds : Scheduled(e)' <=> Scheduled(e) BY DEF Scheduled
<1>4. CalendarTypeOK' BY <1>1, <1>2, <1>3, CalendarTyped
<1>5. OneCreator' BY <1>1, <1>2, OneCreatorStays
<1>6. ASSUME NEW q \in Requests PROVE CreateHeld(q)' /\ UpdateHeld(q)'
  <2>1. CASE q = r BY <1>2, <2>1 DEF CreateHeld, UpdateHeld, OnlyMoves
  <2>2. CASE q # r
    <3>1. req'[q] = req[q] /\ CreateHeld(q) /\ UpdateHeld(q) BY <1>1, <1>2, <2>2 DEF OnlyMoves
    <3>2. req[q].op \in {"createEvent", "updateEvent"} => req[q].event \in EventIds
      BY CalendarJobs
    <3> QED BY <1>3, <3>1, <3>2 DEF CreateHeld, UpdateHeld, Involved
  <2> QED BY <2>1, <2>2
<1>7. \A e, f \in EventIds : PairNoticed(e, f)'
  <2>1. \A e \in EventIds : Kept(e) BY <1>2, KeptIs DEF Creates
  <2> QED BY <1>1, <2>1, KeptPairs
<1> QED BY <1>4, <1>5, <1>6, <1>7 DEF CalendarInv

LEMMA CreateEventKeeps ==
  ASSUME CalendarInv, NEW r \in Requests, NEW d \in EventIds, NEW u \in People,
         NEW guests \in SUBSET People, NEW start \in Moments, NEW end \in Moments,
         CreateEvent(r, d, u, guests, start, end)
  PROVE  CalendarInv'
<1> DEFINE job == [op |-> "createEvent", pc |-> "attendees", event |-> d,
                   todo |-> guests, asked |-> {u} \cup guests,
                   start |-> start, end |-> end, found |-> {}]
           new == [start |-> start, end |-> end, createdBy |-> u, attendees |-> {}]
<1>1. /\ event \in [EventIds -> EventRow \cup {None, Deleted}]
      /\ warned \in [EventIds -> SUBSET EventIds]
      /\ moot \subseteq EventIds /\ crossed \subseteq EventIds
      /\ \A e \in EventIds \ crossed : Scheduled(e) => event[e].start < event[e].end
      /\ OneCreator /\ \A q \in Requests : CreateHeld(q) /\ UpdateHeld(q)
  BY CalendarFacts
<1>2. /\ job \in CalendarJob /\ job.op = "createEvent" /\ job.event = d
      /\ job.pc = "attendees" /\ job.start = start /\ job.end = end
      /\ job.asked = {u} \cup guests /\ job.todo = guests
  BY DEF CalendarJob, CreateEventJob
<1>3. /\ new \in EventRow /\ new # None /\ new.start = start /\ new.end = end
      /\ {new.createdBy} \cup new.attendees = {u}
  <2>1. new \in EventRow BY DEF EventRow
  <2> QED BY <2>1, CalendarOK
<1>4. /\ req[r] = IdleJob /\ req' = [req EXCEPT ![r] = job]
      /\ event[d] = None /\ start < end
      /\ event' = [event EXCEPT ![d] = new] /\ UNCHANGED <<warned, moot, crossed>>
  BY DEF CreateEvent, Start, Idle, calendarHistory
<1> HIDE DEF job, new
<1>5. OnlyMoves(r, job) /\ req' \in [Requests -> {IdleJob} \cup CalendarJob]
  BY <1>2, <1>4, CalendarMoves
<1>6. /\ event' \in [EventIds -> EventRow \cup {None, Deleted}] /\ event'[d] = new
      /\ \A e \in EventIds \ {d} : event'[e] = event[e]
  BY <1>1, <1>3, <1>4
<1>7. \A e \in EventIds \ {d} : Scheduled(e)' <=> Scheduled(e) BY <1>6 DEF Scheduled
<1>8. CalendarTypeOK'
  <2>1. \A e \in EventIds : e \notin crossed' /\ Scheduled(e)' =>
          event'[e].start < event'[e].end
    BY <1>1, <1>3, <1>4, <1>6, <1>7
  <2> QED BY <1>1, <1>4, <1>5, <1>6, <2>1, CalendarTyped
<1>9. \A q \in Requests : req[q].op = "createEvent" => req[q].event # d
  BY <1>1, <1>4 DEF CreateHeld
<1>10. IdleJob.op = "none" BY DEF IdleJob
<1>11. OneCreator'
  <2>1. \A q \in Requests, e \in EventIds :
          Creates(q, e)' => (q = r /\ e = d) \/ (q # r /\ Creates(q, e))
    BY <1>2, <1>5 DEF Creates, OnlyMoves
  <2> QED BY <1>1, <1>9, <2>1 DEF OneCreator, Creates
<1>12. ASSUME NEW q \in Requests PROVE CreateHeld(q)' /\ UpdateHeld(q)'
  <2>1. CASE q = r
    BY <1>2, <1>3, <1>5, <1>6, <2>1 DEF CreateHeld, UpdateHeld, OnlyMoves, Involved
  <2>2. CASE q # r
    <3>1. req'[q] = req[q] /\ CreateHeld(q) /\ UpdateHeld(q) BY <1>1, <1>5, <2>2 DEF OnlyMoves
    <3>2. req[q].op \in {"createEvent", "updateEvent"} => req[q].event \in EventIds
      BY CalendarJobs
    <3>3. CreateHeld(q)'
      BY <1>4, <1>6, <1>7, <1>9, <3>1, <3>2 DEF CreateHeld, Involved
    <3>4. UpdateHeld(q)'
      BY <1>4, <1>6, <1>7, <3>1, <3>2 DEF UpdateHeld
    <3> QED BY <3>3, <3>4
  <2> QED BY <2>1, <2>2
<1>13. \A e, f \in EventIds : PairNoticed(e, f)'
  <2>1. \A e \in EventIds \ {d} : Kept(e)
    BY <1>2, <1>4, <1>5, <1>6, <1>10, KeptIs DEF Creates
  <2>2. \A f \in EventIds : PairNoticed(d, f)'
    <3>1. \A w : ~Checked(d, w)' BY <1>2, <1>5 DEF Checked, Creates, OnlyMoves
    <3> QED BY <3>1 DEF PairNoticed
  <2> QED BY <1>4, <1>8, <2>1, <2>2, PairsOf
<1> QED BY <1>8, <1>11, <1>12, <1>13 DEF CalendarInv

(* A creation that goes on: what is left to show is its own event's pairs.  *)
LEMMA ProgressKeeps ==
  ASSUME CalendarInv, NEW r \in Requests, NEW d \in EventIds, Creates(r, d),
         NEW job \in CreateEventJob, req' = [req EXCEPT ![r] = job],
         job.event = d, job.start = req[r].start, job.end = req[r].end,
         job.asked = req[r].asked, job.todo \subseteq job.asked,
         event' \in [EventIds -> EventRow \cup {None, Deleted}],
         \A e \in EventIds \ {d} : event'[e] = event[e],
         event'[d] # None, Scheduled(d)' => Scheduled(d),
         Scheduled(d) =>
           /\ event'[d].start = event[d].start /\ event'[d].end = event[d].end
           /\ Involved(d) \subseteq req[r].asked => Involved(d)' \subseteq req[r].asked,
         UNCHANGED <<warned, moot, crossed>>,
         \A f \in EventIds : PairNoticed(d, f)'
  PROVE  CalendarInv'
<1>1. /\ warned \in [EventIds -> SUBSET EventIds]
      /\ moot \subseteq EventIds /\ crossed \subseteq EventIds
      /\ \A e \in EventIds \ crossed : Scheduled(e) => event[e].start < event[e].end
      /\ OneCreator /\ \A q \in Requests : CreateHeld(q) /\ UpdateHeld(q)
  BY CalendarFacts
<1>2. job.op = "createEvent" /\ job \in CalendarJob BY DEF CalendarJob, CreateEventJob
<1>3. OnlyMoves(r, job) /\ req' \in [Requests -> {IdleJob} \cup CalendarJob]
  BY <1>2, CalendarMoves
<1>4. \A e \in EventIds \ {d} : Scheduled(e)' <=> Scheduled(e) BY DEF Scheduled
<1>5. CalendarTypeOK'
  <2>1. \A e \in EventIds : e \notin crossed' /\ Scheduled(e)' =>
          event'[e].start < event'[e].end
    BY <1>1, <1>4
  <2> QED BY <1>1, <1>3, <2>1, CalendarTyped
<1>6. OneCreator' BY <1>1, <1>3, OneCreatorStays
<1>7. ASSUME NEW q \in Requests PROVE CreateHeld(q)' /\ UpdateHeld(q)'
  <2>1. CASE q = r
    BY <1>1, <1>2, <1>3, <2>1 DEF CreateHeld, UpdateHeld, OnlyMoves, Creates
  <2>2. CASE q # r
    <3>1. req'[q] = req[q] /\ CreateHeld(q) /\ UpdateHeld(q) BY <1>1, <1>3, <2>2 DEF OnlyMoves
    <3>2. req[q].op \in {"createEvent", "updateEvent"} => req[q].event \in EventIds
      BY CalendarJobs
    <3>3. CreateHeld(q)'
      <4>1. req[q].op = "createEvent" => req[q].event # d
        BY <1>1, <2>2, <3>2 DEF OneCreator, Creates
      <4> QED BY <1>4, <3>1, <3>2, <4>1 DEF CreateHeld, Involved
    <3>4. UpdateHeld(q)' BY <1>4, <3>1, <3>2 DEF UpdateHeld
    <3> QED BY <3>3, <3>4
  <2> QED BY <2>1, <2>2
<1>8. \A e, f \in EventIds : PairNoticed(e, f)'
  <2>1. \A e \in EventIds \ {d} : Kept(e)
    BY <1>3, KeptIs DEF Creates
  <2> QED BY <1>5, <2>1, PairsOf
<1> QED BY <1>5, <1>6, <1>7, <1>8 DEF CalendarInv

LEMMA InsertAttendeeKeeps ==
  ASSUME CalendarInv, NEW r \in Requests, NEW u \in People, InsertAttendee(r, u),
         NEW d, d = req[r].event
  PROVE  CalendarInv'
<1> DEFINE job == [req[r] EXCEPT !.todo = @ \ {u}]
<1>1. /\ req[r] \in CreateEventJob /\ d \in EventIds /\ Creates(r, d)
      /\ req[r].op = "createEvent" /\ req[r].pc = "attendees" /\ u \in req[r].todo
  BY CalendarJobs DEF InsertAttendee, Doing, Creates
<1>2. /\ job \in CreateEventJob /\ job.op = "createEvent" /\ job.event = d
      /\ job.pc = "attendees" /\ job.start = req[r].start /\ job.end = req[r].end
      /\ job.asked = req[r].asked /\ job.todo \subseteq req[r].todo
  BY <1>1 DEF CreateEventJob
<1>3. /\ event \in [EventIds -> EventRow \cup {None, Deleted}]
      /\ \A e \in EventIds : Scheduled(e) => event[e] \in EventRow
      /\ CreateHeld(r)
  BY CalendarFacts
<1>4. req \in [Requests -> {IdleJob} \cup CalendarJob] BY CalendarFacts
<1>5. /\ req' = [req EXCEPT ![r] = job] /\ Attend(d, {u}) /\ UNCHANGED <<warned, moot, crossed>>
  BY <1>4 DEF InsertAttendee, calendarHistory
<1> HIDE DEF job
<1>6. /\ event' \in [EventIds -> EventRow \cup {None, Deleted}]
      /\ \A e \in EventIds \ {d} : event'[e] = event[e]
      /\ Scheduled(d) => /\ event'[d] \in EventRow /\ event'[d].start = event[d].start
                         /\ event'[d].end = event[d].end
                         /\ event'[d].createdBy = event[d].createdBy
                         /\ event'[d].attendees = event[d].attendees \cup {u}
      /\ ~Scheduled(d) => event' = event
  <2>1. CASE Scheduled(d)
    <3> DEFINE new == [event[d] EXCEPT !.attendees = @ \cup {u}]
    <3>1. event' = [event EXCEPT ![d] = new] BY <1>1, <1>3, <1>5, <2>1 DEF Attend
    <3>2. /\ new \in EventRow /\ new.start = event[d].start /\ new.end = event[d].end
          /\ new.createdBy = event[d].createdBy
          /\ new.attendees = event[d].attendees \cup {u}
      BY <1>1, <1>3, <2>1 DEF EventRow
    <3> HIDE DEF new
    <3> QED BY <1>1, <1>3, <2>1, <3>1, <3>2
  <2>2. CASE ~Scheduled(d) BY <1>3, <1>5, <2>2 DEF Attend
  <2> QED BY <2>1, <2>2
<1>7. event'[d] # None /\ (Scheduled(d)' => Scheduled(d))
  <2>1. event[d] # None BY <1>1, <1>3 DEF CreateHeld
  <2> QED BY <1>6, <2>1, CalendarOK DEF Scheduled
<1>8. \A f \in EventIds : PairNoticed(d, f)'
  <2>1. OnlyMoves(r, job) BY <1>2, <1>5, CalendarMoves DEF CalendarJob
  <2>2. \A w : ~Checked(d, w)' BY <1>2, <2>1 DEF Checked, Creates, OnlyMoves
  <2> QED BY <2>2 DEF PairNoticed
<1>9. Scheduled(d) /\ Involved(d) \subseteq req[r].asked /\ u \in req[r].asked =>
        Involved(d)' \subseteq req[r].asked
  BY <1>6 DEF Involved
<1>10. u \in req[r].asked /\ job.todo \subseteq job.asked
  BY <1>1, <1>2, <1>3 DEF CreateHeld
<1> QED BY <1>1, <1>2, <1>5, <1>6, <1>7, <1>8, <1>9, <1>10, ProgressKeeps

LEMMA AttendeesInKeeps ==
  ASSUME CalendarInv, NEW r \in Requests, AttendeesIn(r), NEW d, d = req[r].event
  PROVE  CalendarInv'
<1> DEFINE job == [req[r] EXCEPT !.pc = "check", !.todo = req[r].asked]
<1>1. /\ req[r] \in CreateEventJob /\ d \in EventIds /\ Creates(r, d)
      /\ req[r].op = "createEvent"
  BY CalendarJobs DEF AttendeesIn, Doing, Creates
<1>2. /\ job \in CreateEventJob /\ job.op = "createEvent" /\ job.event = d
      /\ job.todo = req[r].asked /\ job.start = req[r].start /\ job.end = req[r].end
      /\ job.asked = req[r].asked
  BY <1>1 DEF CreateEventJob
<1>3. /\ event \in [EventIds -> EventRow \cup {None, Deleted}]
      /\ CreateHeld(r) /\ req \in [Requests -> {IdleJob} \cup CalendarJob]
  BY CalendarFacts
<1>4. req' = [req EXCEPT ![r] = job] /\ UNCHANGED <<event, warned, moot, crossed>>
  BY <1>3 DEF AttendeesIn, calendarVars, calendarHistory
<1> HIDE DEF job
<1>5. \A f \in EventIds : PairNoticed(d, f)'
  <2>1. OnlyMoves(r, job) BY <1>2, <1>4, CalendarMoves DEF CalendarJob
  <2>2. \A w \in req[r].asked : ~Checked(d, w)'
    BY <1>2, <2>1 DEF Checked, Creates, OnlyMoves
  <2>3. d \notin moot /\ Scheduled(d) => Involved(d) \subseteq req[r].asked
    BY <1>1, <1>3 DEF CreateHeld
  <2>4. Involved(d)' = Involved(d) /\ (Scheduled(d)' <=> Scheduled(d)) /\ moot' = moot
    BY <1>4 DEF Involved, Scheduled
  <2> QED BY <2>2, <2>3, <2>4 DEF PairNoticed, Overlap
<1>6. event[d] # None BY <1>1, <1>3 DEF CreateHeld
<1>7. Involved(d)' = Involved(d) /\ (Scheduled(d)' <=> Scheduled(d))
  BY <1>4 DEF Involved, Scheduled
<1> QED BY <1>1, <1>2, <1>3, <1>4, <1>5, <1>6, <1>7, ProgressKeeps

(* A check sees every row the person is in by now, so also that of each     *)
(* creation that checked the person before.                                 *)
LEMMA CheckPersonKeeps ==
  ASSUME CalendarInv, NEW r \in Requests, NEW u \in People, CheckPerson(r, u),
         NEW d, d = req[r].event
  PROVE  CalendarInv'
<1>1. /\ req[r] \in CreateEventJob /\ d \in EventIds /\ Creates(r, d)
      /\ req[r].op = "createEvent" /\ req[r].pc = "check" /\ u \in req[r].todo
  BY CalendarJobs DEF CheckPerson, Doing, Creates
<1>2. PICK overlapping :
        overlapping = {f \in EventIds \ {d} :
                        /\ Scheduled(f) /\ u \in Involved(f)
                        /\ Meets(f, req[r].start, req[r].end)}
  OBVIOUS
<1>3. PICK job :
        job = [req[r] EXCEPT !.todo = req[r].todo \ {u}, !.found = req[r].found \cup overlapping]
  OBVIOUS
<1>4. /\ job \in CreateEventJob /\ job.op = "createEvent" /\ job.event = d /\ job.pc = "check"
      /\ job.start = req[r].start /\ job.end = req[r].end /\ job.asked = req[r].asked
      /\ job.todo = req[r].todo \ {u} /\ job.found = req[r].found \cup overlapping
  <2>1. overlapping \subseteq EventIds BY <1>2
  <2> QED BY <1>1, <1>3, <2>1 DEF CreateEventJob
<1>5. /\ event \in [EventIds -> EventRow \cup {None, Deleted}]
      /\ \A e \in EventIds : Scheduled(e) => event[e] \in EventRow
      /\ CreateHeld(r) /\ req \in [Requests -> {IdleJob} \cup CalendarJob]
      /\ OneCreator /\ \A e, f \in EventIds : PairNoticed(e, f)
  BY CalendarFacts
<1>6. req' = [req EXCEPT ![r] = job] /\ UNCHANGED <<event, warned, moot, crossed>>
  BY <1>2, <1>3, <1>5 DEF CheckPerson, calendarVars, calendarHistory
<1>7. OnlyMoves(r, job) BY <1>4, <1>6, CalendarMoves DEF CalendarJob
<1>8. \A e \in EventIds \ {d} : Kept(e)
  BY <1>1, <1>4, <1>6, <1>7, KeptIs DEF Creates
<1>9. ASSUME NEW f \in EventIds, Overlap(d, f)',
             NEW w \in Involved(d)' \cap Involved(f)', Checked(d, w)', Checked(f, w)'
      PROVE  Noticed(d, f)' \/ Noticed(f, d)'
  <2>1. Overlap(d, f) /\ d # f /\ f \in EventIds \ {d}
    BY <1>6, <1>9 DEF Overlap, Scheduled, Meets
  <2>2. w \in Involved(d) \cap Involved(f) BY <1>6, <1>9 DEF Involved
  <2>3. Checked(f, w) BY <1>8, <1>9, <2>1 DEF Kept
  <2>4. BeingCreated(d)' /\ req'[r].found = req[r].found \cup overlapping /\ Creates(r, d)'
    BY <1>4, <1>7 DEF BeingCreated, OnlyMoves, Creates
  <2>5. CASE w = u
    <3>1. event[d].start = req[r].start /\ event[d].end = req[r].end
      BY <1>1, <1>5, <2>1 DEF CreateHeld, Overlap
    <3>2. Meets(f, req[r].start, req[r].end)
      <4>1. event[d] \in EventRow /\ event[f] \in EventRow /\ Meets(d, event[f].start, event[f].end)
        BY <1>1, <1>5, <2>1 DEF Overlap
      <4> QED BY <3>1, <4>1 DEF Meets, EventRow, Moments
    <3>3. f \in overlapping BY <1>2, <2>1, <2>2, <2>5, <3>2 DEF Overlap
    <3> QED BY <2>4, <3>3 DEF Noticed
  <2>6. CASE w # u
    <3>1. Checked(d, w)
      <4>1. w \notin req'[r].todo BY <1>9, <2>4 DEF Checked
      <4>2. w \notin req[r].todo BY <1>4, <1>7, <2>6, <4>1 DEF OnlyMoves
      <4> QED BY <1>1, <1>5, <4>2 DEF Checked, OneCreator
    <3>2. Noticed(d, f) \/ Noticed(f, d)
      BY <1>1, <1>5, <2>1, <2>2, <2>3, <3>1 DEF PairNoticed
    <3>3. CASE Noticed(f, d) BY <1>8, <2>1, <3>3 DEF Kept
    <3>4. CASE Noticed(d, f)
      <4>1. BeingCreated(d) BY <1>1 DEF BeingCreated, Creates
      <4>2. PICK q \in Requests : Creates(q, d) /\ f \in req[q].found
        BY <3>4, <4>1 DEF Noticed
      <4>3. q = r BY <1>1, <1>5, <4>2 DEF OneCreator
      <4> QED BY <2>4, <4>2, <4>3 DEF Noticed
    <3> QED BY <3>2, <3>3, <3>4
  <2> QED BY <2>5, <2>6
<1>10. \A f \in EventIds : PairNoticed(d, f)' BY <1>9 DEF PairNoticed
<1>11. event[d] # None /\ job.todo \subseteq job.asked BY <1>1, <1>4, <1>5 DEF CreateHeld
<1>12. Involved(d)' = Involved(d) /\ (Scheduled(d)' <=> Scheduled(d))
  BY <1>6 DEF Involved, Scheduled
<1>13. event' \in [EventIds -> EventRow \cup {None, Deleted}] /\ event' = event
  BY <1>5, <1>6
<1>14. UNCHANGED <<warned, moot, crossed>> /\ req' = [req EXCEPT ![r] = job] BY <1>6
<1>15. /\ d \in EventIds /\ Creates(r, d) /\ job \in CreateEventJob /\ job.event = d
       /\ job.start = req[r].start /\ job.end = req[r].end /\ job.asked = req[r].asked
  BY <1>1, <1>4
<1> QED BY <1>10, <1>11, <1>12, <1>13, <1>14, <1>15, ProgressKeeps

LEMMA AnswerEventKeeps ==
  ASSUME CalendarInv, NEW r \in Requests, AnswerEvent(r), NEW d, d = req[r].event
  PROVE  CalendarInv'
<1>1. /\ req[r] \in CreateEventJob /\ d \in EventIds /\ Creates(r, d)
      /\ req[r].op = "createEvent" /\ req[r].pc = "check" /\ req[r].todo = {}
      /\ req[r].found \subseteq EventIds
  BY CalendarJobs DEF AnswerEvent, Doing, Creates, CreateEventJob
<1>2. /\ event \in [EventIds -> EventRow \cup {None, Deleted}]
      /\ warned \in [EventIds -> SUBSET EventIds]
      /\ moot \subseteq EventIds /\ crossed \subseteq EventIds
      /\ req \in [Requests -> {IdleJob} \cup CalendarJob]
      /\ \A e \in EventIds \ crossed : Scheduled(e) => event[e].start < event[e].end
      /\ OneCreator /\ \A q \in Requests : CreateHeld(q) /\ UpdateHeld(q)
      /\ \A e, f \in EventIds : PairNoticed(e, f)
  BY CalendarFacts
<1>3. /\ req' = [req EXCEPT ![r] = IdleJob] /\ UNCHANGED <<event, moot, crossed>>
      /\ warned' = IF d \in moot THEN warned ELSE [warned EXCEPT ![d] = req[r].found]
      /\ IdleJob.op = "none"
  BY DEF AnswerEvent, Finish, IdleJob
<1>4. OnlyMoves(r, IdleJob) /\ req' \in [Requests -> {IdleJob} \cup CalendarJob]
  BY <1>3, CalendarMoves
<1>5. /\ warned' \in [EventIds -> SUBSET EventIds]
      /\ \A e \in EventIds \ {d} : warned'[e] = warned[e]
      /\ d \notin moot => warned'[d] = req[r].found
  BY <1>1, <1>2, <1>3
<1>6. \A e \in EventIds : Scheduled(e)' <=> Scheduled(e) BY <1>3 DEF Scheduled
<1>7. CalendarTypeOK'
  BY <1>2, <1>3, <1>4, <1>5, <1>6, CalendarTyped
<1>8. OneCreator' BY <1>2, <1>3, <1>4, OneCreatorStays
<1>9. ASSUME NEW q \in Requests PROVE CreateHeld(q)' /\ UpdateHeld(q)'
  <2>1. CASE q = r BY <1>3, <1>4, <2>1 DEF CreateHeld, UpdateHeld, OnlyMoves
  <2>2. CASE q # r
    <3>1. req'[q] = req[q] /\ CreateHeld(q) /\ UpdateHeld(q) BY <1>2, <1>4, <2>2 DEF OnlyMoves
    <3>2. req[q].op \in {"createEvent", "updateEvent"} => req[q].event \in EventIds
      BY CalendarJobs
    <3> QED BY <1>3, <1>6, <3>1, <3>2 DEF CreateHeld, UpdateHeld, Involved
  <2> QED BY <2>1, <2>2
<1>10. \A e, f \in EventIds : PairNoticed(e, f)'
  <2>1. \A e \in EventIds \ {d} : Kept(e)
    BY <1>1, <1>3, <1>4, <1>5, KeptIs DEF Creates
  <2>2. ASSUME NEW f \in EventIds, Overlap(d, f)',
               NEW w \in Involved(d)' \cap Involved(f)', Checked(d, w)', Checked(f, w)'
        PROVE  Noticed(d, f)' \/ Noticed(f, d)'
    <3>1. Overlap(d, f) /\ d # f /\ f \in EventIds \ {d} /\ d \notin moot
      BY <1>3, <2>2 DEF Overlap, Scheduled, Meets
    <3>2. w \in Involved(d) \cap Involved(f) BY <1>3, <2>2 DEF Involved
    <3>3. Checked(f, w) BY <2>1, <2>2, <3>1 DEF Kept
    <3>4. Checked(d, w) BY <1>1, <1>2 DEF Checked, OneCreator
    <3>5. Noticed(d, f) \/ Noticed(f, d)
      BY <1>1, <1>2, <3>1, <3>2, <3>3, <3>4 DEF PairNoticed
    <3>6. CASE Noticed(f, d) BY <2>1, <3>1, <3>6 DEF Kept
    <3>7. CASE Noticed(d, f)
      <4>1. BeingCreated(d) BY <1>1 DEF BeingCreated, Creates
      <4>2. PICK q \in Requests : Creates(q, d) /\ f \in req[q].found
        BY <3>7, <4>1 DEF Noticed
      <4>3. f \in warned'[d] BY <1>1, <1>2, <1>5, <3>1, <4>2 DEF OneCreator
      <4>4. ~BeingCreated(d)'
        BY <1>1, <1>2, <1>3, <1>4 DEF BeingCreated, OneCreator, OnlyMoves, Creates
      <4> QED BY <4>3, <4>4 DEF Noticed
    <3> QED BY <3>5, <3>6, <3>7
  <2>3. \A f \in EventIds : PairNoticed(d, f)' BY <2>2 DEF PairNoticed
  <2> QED BY <1>3, <1>7, <2>1, <2>3, PairsOf
<1> QED BY <1>7, <1>8, <1>9, <1>10 DEF CalendarInv

(* A change that begins. *)
LEMMA ChangeKeeps ==
  ASSUME CalendarInv, NEW r \in Requests, NEW d \in EventIds, Change(r, d)
  PROVE  CalendarInv'
<1>1. /\ event \in [EventIds -> EventRow \cup {None, Deleted}]
      /\ req \in [Requests -> {IdleJob} \cup CalendarJob]
  BY CalendarFacts
<1>2. IdleJob.op = "none" BY DEF IdleJob
<1>3. ASSUME NEW job \in CalendarJob, job.op # "createEvent", Start(r, job),
             UNCHANGED calendarVars, job.op = "updateEvent" => UpdateHeld(r)'
      PROVE  CalendarInv'
  <2>1. req[r].op # "createEvent" /\ req' = [req EXCEPT ![r] = job]
    BY <1>2, <1>3 DEF Start, Idle
  <2> QED BY <1>1, <1>3, <2>1, QuietKeeps DEF calendarVars, calendarHistory
<1>4. ASSUME NEW start \in Moments \cup {None}, NEW end \in Moments \cup {None},
             UpdateEvent(r, d, start, end)
      PROVE  CalendarInv'
  <2> DEFINE job == [op |-> "updateEvent", pc |-> "write", event |-> d,
                     start |-> start, end |-> end]
  <2>1. /\ job \in CalendarJob /\ job.op = "updateEvent" /\ job.event = d
        /\ job.start = start /\ job.end = end
    BY DEF CalendarJob, UpdateEventJob
  <2>2. Start(r, job) /\ UNCHANGED calendarVars BY <1>4 DEF UpdateEvent
  <2> HIDE DEF job
  <2>3. req'[r] = job BY <1>1, <2>2 DEF Start
  <2>4. event' = event BY <2>2 DEF calendarVars
  <2>5. UpdateHeld(r)'
    BY <1>4, <2>1, <2>3, <2>4 DEF UpdateHeld, UpdateEvent, Scheduled
  <2> QED BY <1>3, <2>1, <2>2, <2>5
<1>5. CASE RemoveEvent(r, d)
  <2> DEFINE job == [op |-> "removeEvent", pc |-> "write", event |-> d]
  <2>1. job \in CalendarJob /\ job.op = "removeEvent" BY DEF CalendarJob, RemoveEventJob
  <2>2. Start(r, job) /\ UNCHANGED calendarVars BY <1>5 DEF RemoveEvent
  <2> HIDE DEF job
  <2> QED BY <1>3, <2>1, <2>2
<1>6. ASSUME NEW u \in People, AddAttendee(r, d, u) \/ RemoveAttendee(r, d, u)
      PROVE  CalendarInv'
  <2>1. PICK op \in {"addAttendee", "removeAttendee"} :
          /\ Start(r, [op |-> op, pc |-> "write", event |-> d, user |-> u])
          /\ UNCHANGED calendarVars
    BY <1>6 DEF AddAttendee, RemoveAttendee
  <2> DEFINE job == [op |-> op, pc |-> "write", event |-> d, user |-> u]
  <2>2. job \in CalendarJob /\ job.op \notin {"createEvent", "updateEvent"}
    BY DEF CalendarJob, AttendeeJob
  <2>3. Start(r, job) /\ UNCHANGED calendarVars BY <2>1
  <2> HIDE DEF job
  <2> QED BY <1>3, <2>2, <2>3
<1> QED BY <1>4, <1>5, <1>6 DEF Change

LEMMA UpdateEventWriteKeeps ==
  ASSUME CalendarInv, NEW r \in Requests, UpdateEventWrite(r), NEW d, d = req[r].event
  PROVE  CalendarInv'
<1>1. /\ req[r] \in UpdateEventJob /\ d \in EventIds /\ req[r].op = "updateEvent"
      /\ req[r].pc = "write" /\ req[r].start \in Moments \cup {None}
      /\ req[r].end \in Moments \cup {None}
  BY CalendarJobs DEF UpdateEventWrite, Doing, UpdateEventJob
<1>2. /\ event \in [EventIds -> EventRow \cup {None, Deleted}]
      /\ \A e \in EventIds : Scheduled(e) => event[e] \in EventRow
      /\ crossed \subseteq EventIds /\ UpdateHeld(r)
      /\ \A e \in EventIds \ crossed : Scheduled(e) => event[e].start < event[e].end
  BY CalendarFacts
<1>3. /\ Spoil(d) /\ Finish(r)
      /\ crossed' = IF \E q \in Requests \ {r} :
                         Doing(q, "updateEvent", "write") /\ req[q].event = d
                    THEN crossed \cup {d} ELSE crossed
  BY DEF UpdateEventWrite
<1>4. crossed \subseteq crossed' /\ crossed' \subseteq EventIds BY <1>1, <1>2, <1>3
<1>5. ASSUME d \notin crossed', NEW q \in Requests \ {r},
             req[q].op = "updateEvent", req[q].event = d
      PROVE  FALSE
  <2>1. req[q].pc = "write" BY <1>5, CalendarJobs DEF UpdateEventJob
  <2> QED BY <1>3, <1>5, <2>1 DEF Doing
<1>6. /\ event' \in [EventIds -> EventRow \cup {None, Deleted}]
      /\ \A e \in EventIds \ {d} : event'[e] = event[e]
      /\ ~Scheduled(d) => event' = event
      /\ Scheduled(d) =>
           /\ event'[d] \in EventRow
           /\ event'[d].start = IF req[r].start = None THEN event[d].start ELSE req[r].start
           /\ event'[d].end = IF req[r].end = None THEN event[d].end ELSE req[r].end
  <2>1. CASE ~Scheduled(d) BY <1>2, <2>1 DEF UpdateEventWrite
  <2>2. CASE Scheduled(d)
    <3>1. PICK s, t :
            /\ s = IF req[r].start = None THEN event[d].start ELSE req[r].start
            /\ t = IF req[r].end = None THEN event[d].end ELSE req[r].end
      OBVIOUS
    <3>2. event[d] \in EventRow BY <1>1, <1>2, <2>2
    <3>3. s \in Moments /\ t \in Moments BY <1>1, <3>1, <3>2 DEF EventRow
    <3>4. event' = [event EXCEPT ![d].start = s, ![d].end = t]
      BY <2>2, <3>1 DEF UpdateEventWrite
    <3>5. event' = [event EXCEPT ![d] = [[event[d] EXCEPT !.start = s] EXCEPT !.end = t]]
      BY <1>1, <1>2, <3>4
    <3>6. PICK new : new = [[event[d] EXCEPT !.start = s] EXCEPT !.end = t] OBVIOUS
    <3>7. new \in EventRow /\ new.start = s /\ new.end = t
      BY <3>2, <3>3, <3>6 DEF EventRow
    <3>8. event' = [event EXCEPT ![d] = new] BY <3>5, <3>6
    <3> QED BY <1>1, <1>2, <2>2, <3>1, <3>7, <3>8
  <2> QED BY <2>1, <2>2
<1>7. event'[d] = None => event[d] = None
  BY <1>6, CalendarOK
<1>8. d \notin crossed' /\ Scheduled(d)' =>
        /\ event'[d].start < event'[d].end
        /\ Scheduled(d)
  <2>1. Scheduled(d)' => Scheduled(d) BY <1>6 DEF Scheduled
  <2> QED BY <1>1, <1>2, <1>4, <1>6, <2>1 DEF UpdateHeld
<1> QED BY <1>1, <1>3, <1>4, <1>5, <1>6, <1>7, <1>8, SpoilKeeps

(* An insert or a delete of one attendee leaves the bounds. *)
LEMMA AttendeesOnly ==
  ASSUME CalendarInv, NEW d \in EventIds, NEW users \in SUBSET People,
         event' = IF Scheduled(d) THEN [event EXCEPT ![d].attendees = users] ELSE event
  PROVE  /\ event' \in [EventIds -> EventRow \cup {None, Deleted}]
         /\ \A e \in EventIds \ {d} : event'[e] = event[e]
         /\ event'[d] = None => event[d] = None
         /\ Scheduled(d)' => Scheduled(d)
         /\ Scheduled(d) => event'[d].start = event[d].start /\ event'[d].end = event[d].end
<1>1. /\ event \in [EventIds -> EventRow \cup {None, Deleted}]
      /\ Scheduled(d) => event[d] \in EventRow
  BY CalendarFacts
<1>2. CASE ~Scheduled(d) BY <1>1, <1>2 DEF Scheduled
<1>3. CASE Scheduled(d)
  <2> DEFINE new == [event[d] EXCEPT !.attendees = users]
  <2>1. event' = [event EXCEPT ![d] = new] BY <1>1, <1>3
  <2>2. new \in EventRow /\ new.start = event[d].start /\ new.end = event[d].end
    BY <1>1, <1>3 DEF EventRow
  <2> HIDE DEF new
  <2>3. new # None BY <2>2, CalendarOK
  <2> QED BY <1>1, <1>3, <2>1, <2>2, <2>3
<1> QED BY <1>2, <1>3

LEMMA AttendeeWriteKeeps ==
  ASSUME CalendarInv, NEW r \in Requests, NEW d, d = req[r].event,
         AttendeeWrite(r) \/ (CalendarFail(r) /\ req[r].op = "createEvent")
  PROVE  CalendarInv'
<1>1. d \in EventIds /\ Spoil(d) /\ Finish(r) /\ crossed' = crossed
  BY CalendarJobs DEF AttendeeWrite, CalendarFail
<1>2. /\ crossed \subseteq EventIds
      /\ \A e \in EventIds \ crossed : Scheduled(e) => event[e].start < event[e].end
      /\ event \in [EventIds -> EventRow \cup {None, Deleted}]
      /\ Scheduled(d) => event[d] \in EventRow
  BY <1>1, CalendarFacts
<1>3. \E users \in SUBSET People :
        event' = IF Scheduled(d) THEN [event EXCEPT ![d].attendees = users] ELSE event
  <2>1. Scheduled(d) => event[d].attendees \subseteq People BY <1>2 DEF EventRow
  <2>2. ASSUME NEW users \in SUBSET People, Attend(d, users)
        PROVE  \E all \in SUBSET People :
                 event' = IF Scheduled(d) THEN [event EXCEPT ![d].attendees = all] ELSE event
    <3>1. CASE Scheduled(d)
      <4>1. event[d].attendees \cup users \in SUBSET People BY <2>1, <2>2, <3>1
      <4>2. event' = [event EXCEPT ![d].attendees = event[d].attendees \cup users]
        BY <1>1, <1>2, <2>2, <3>1 DEF Attend
      <4> QED BY <3>1, <4>1, <4>2
    <3>2. CASE ~Scheduled(d) BY <2>2, <3>2 DEF Attend
    <3> QED BY <3>1, <3>2
  <2>3. CASE AttendeeWrite(r)
    <3>1. req[r].user \in People BY <2>3, CalendarJobs DEF AttendeeWrite
    <3>2. CASE Scheduled(d) /\ req[r].op = "removeAttendee"
      <4>1. event' = [event EXCEPT ![d].attendees = event[d].attendees \ {req[r].user}]
        BY <1>1, <1>2, <2>3, <3>2 DEF AttendeeWrite
      <4>2. event[d].attendees \ {req[r].user} \in SUBSET People BY <2>1, <3>2
      <4> QED BY <3>2, <4>1, <4>2
    <3>3. CASE ~(Scheduled(d) /\ req[r].op = "removeAttendee")
      BY <2>2, <2>3, <3>1, <3>3 DEF AttendeeWrite
    <3> QED BY <3>2, <3>3
  <2>4. CASE CalendarFail(r) /\ req[r].op = "createEvent"
    <3>1. req[r].todo \subseteq People BY <2>4, CalendarJobs DEF CreateEventJob
    <3>2. PICK done \in SUBSET People : Attend(d, done)
      BY <2>4, <3>1 DEF CalendarFail
    <3> QED BY <2>2, <3>2
  <2> QED BY <2>3, <2>4
<1>4. /\ event' \in [EventIds -> EventRow \cup {None, Deleted}]
      /\ \A e \in EventIds \ {d} : event'[e] = event[e]
      /\ event'[d] = None => event[d] = None
      /\ Scheduled(d)' => Scheduled(d)
      /\ Scheduled(d) => event'[d].start = event[d].start /\ event'[d].end = event[d].end
  BY <1>1, <1>3, AttendeesOnly
<1> QED BY <1>1, <1>2, <1>4, SpoilKeeps

LEMMA RemoveEventWriteKeeps ==
  ASSUME CalendarInv, NEW r \in Requests, RemoveEventWrite(r), NEW d, d = req[r].event
  PROVE  CalendarInv'
<1>1. /\ d \in EventIds /\ req[r].op = "removeEvent" /\ Spoil(d) /\ Finish(r)
      /\ crossed' = crossed /\ event' = [event EXCEPT ![d] = Deleted]
  BY CalendarJobs DEF RemoveEventWrite, Doing
<1>2. /\ event \in [EventIds -> EventRow \cup {None, Deleted}] /\ crossed \subseteq EventIds
  BY CalendarFacts
<1>3. /\ event' \in [EventIds -> EventRow \cup {None, Deleted}] /\ event'[d] = Deleted
      /\ \A e \in EventIds \ {d} : event'[e] = event[e]
  BY <1>1, <1>2
<1>4. ~Scheduled(d)' /\ event'[d] # None BY <1>3, CalendarOK DEF Scheduled
<1> QED BY <1>1, <1>2, <1>3, <1>4, SpoilKeeps

(* A change whose handler fails has written nothing. *)
LEMMA CalendarFailKeeps ==
  ASSUME CalendarInv, NEW r \in Requests, CalendarFail(r), req[r].op # "createEvent"
  PROVE  CalendarInv'
<1>1. event \in [EventIds -> EventRow \cup {None, Deleted}]
      /\ \A e \in EventIds : Scheduled(e) => event[e] \in EventRow
  BY CalendarFacts
<1>2. PICK d : d = req[r].event OBVIOUS
<1>3. /\ Attend(d, {}) /\ UNCHANGED <<warned, moot, crossed>>
      /\ req' = [req EXCEPT ![r] = IdleJob] /\ IdleJob.op = "none"
  BY <1>2 DEF CalendarFail, Doing, Finish, IdleJob
<1>4. event' = event
  <2>1. CASE d \in EventIds /\ Scheduled(d)
    <3>1. [event[d] EXCEPT !.attendees = event[d].attendees \cup {}] = event[d]
      BY <1>1, <2>1 DEF EventRow
    <3>2. event' = [event EXCEPT ![d] = [event[d] EXCEPT !.attendees = event[d].attendees \cup {}]]
      BY <1>1, <1>3, <2>1 DEF Attend
    <3> QED BY <1>1, <3>1, <3>2
  <2>2. CASE ~(d \in EventIds /\ Scheduled(d)) BY <1>1, <1>3, <2>2 DEF Attend
  <2> QED BY <2>1, <2>2
<1> QED BY <1>1, <1>3, <1>4, QuietKeeps

(* The calendar's invariant is inductive. *)
LEMMA CalendarInductive ==
  /\ CalendarInit => CalendarInv
  /\ CalendarInv /\ [CalendarNext]_<<req, calendarVars>> => CalendarInv'
<1>1. ASSUME CalendarInit PROVE CalendarInv
  <2>1. /\ \A e \in EventIds : event[e] = None
        /\ \A r \in Requests : req[r].op = "none"
    BY <1>1 DEF CalendarInit, IdleJob
  <2>2. CalendarTypeOK BY <1>1, <2>1 DEF CalendarInit, CalendarTypeOK, Scheduled
  <2>3. OneCreator /\ \A r \in Requests : CreateHeld(r) /\ UpdateHeld(r)
    BY <2>1 DEF OneCreator, Creates, CreateHeld, UpdateHeld
  <2>4. \A e, f \in EventIds : PairNoticed(e, f)
    BY <2>1 DEF PairNoticed, Overlap, Scheduled
  <2> QED BY <2>2, <2>3, <2>4 DEF CalendarInv
<1>2. ASSUME CalendarInv, UNCHANGED <<req, calendarVars>> PROVE CalendarInv'
  <2> USE <1>2 DEF calendarVars, calendarHistory, CalendarInv
  <2>1. CalendarTypeOK' BY DEF CalendarTypeOK, Scheduled
  <2>2. OneCreator' BY DEF OneCreator, Creates
  <2>3. (\A r \in Requests : CreateHeld(r) /\ UpdateHeld(r))'
    BY DEF CreateHeld, UpdateHeld, Scheduled, Involved
  <2>4. (\A e, f \in EventIds : PairNoticed(e, f))'
    BY DEF PairNoticed, Overlap, Scheduled, Meets, Involved, Checked, Noticed, Creates, BeingCreated
  <2> QED BY <2>1, <2>2, <2>3, <2>4
<1>3. ASSUME CalendarInv, NEW r \in Requests, CalendarStep(r) PROVE CalendarInv'
  <2>1. ASSUME NEW e \in EventIds, EventStep(r, e) PROVE CalendarInv'
    BY <1>3, <2>1, CreateEventKeeps, ChangeKeeps DEF EventStep
  <2>2. ASSUME NEW u \in People, InsertAttendee(r, u) \/ CheckPerson(r, u)
        PROVE  CalendarInv'
    BY <1>3, <2>2, InsertAttendeeKeeps, CheckPersonKeeps
  <2>3. CASE AttendeesIn(r) \/ AnswerEvent(r)
    BY <1>3, <2>3, AttendeesInKeeps, AnswerEventKeeps
  <2>4. CASE UpdateEventWrite(r) \/ RemoveEventWrite(r) \/ AttendeeWrite(r)
    BY <1>3, <2>4, UpdateEventWriteKeeps, RemoveEventWriteKeeps, AttendeeWriteKeeps
  <2>5. CASE CalendarFail(r) BY <1>3, <2>5, AttendeeWriteKeeps, CalendarFailKeeps
  <2> QED BY <1>3, <2>1, <2>2, <2>3, <2>4, <2>5 DEF CalendarStep
<1> QED BY <1>1, <1>2, <1>3 DEF CalendarNext

LEMMA NoticedInTheEnd == CalendarInv => ConflictNoticed
<1> SUFFICES ASSUME CalendarInv, NEW e \in EventIds, NEW f \in EventIds,
                    Overlap(e, f), ~BeingCreated(e), ~BeingCreated(f),
                    Involved(e) \cap Involved(f) # {}
             PROVE  f \in warned[e] \/ e \in warned[f]
  BY DEF ConflictNoticed, Overlap
<1>1. PICK u : u \in Involved(e) \cap Involved(f) OBVIOUS
<1>2. Checked(e, u) /\ Checked(f, u) BY DEF Checked, BeingCreated, Creates
<1>3. PairNoticed(e, f) BY CalendarFacts
<1> QED BY <1>1, <1>2, <1>3 DEF PairNoticed, Noticed

(* Nobody is booked twice unawares: of two overlapping events with a person *)
(* in common, one creator was warned of the other, however their inserts    *)
(* and checks interleave.                                                   *)
THEOREM ConflictsAreNoticed == CalendarSpec => []ConflictNoticed
BY CalendarInductive, NoticedInTheEnd, PTL DEF CalendarSpec

-----------------------------------------------------------------------------
(****************************************************************************)
(* The second factor.  A recovery code that was good for a session is on no *)
(* list that is stored or about to be, nor taken off one at this moment,    *)
(* unless recoveries overlapped; a secret that is being set up is nobody    *)
(* else's yet; and with nothing unsettled, a verification in flight has     *)
(* verified the secret that is stored.                                      *)
(****************************************************************************)
Carries(r, s) == req[r].op \in {"setup", "recover"} /\ req[r].secret.totp = s
HoldsSecret(s) == twoFactor.secret # None /\ twoFactor.secret.totp = s

JobHeld(r) ==
  /\ req[r].op \in {"setup", "recover"} =>
       req[r].secret \in Stored /\ req[r].secret.totp \in 1..generated
  /\ req[r].op = "recover" =>
       req[r].code \in Codes /\ req[r].code \notin req[r].secret.recoveryCodes

FreshSecret(r) ==
  req[r].op = "setup" =>
    /\ ~HoldsSecret(req[r].secret.totp)
    /\ \A q \in Requests \ {r} : ~Carries(q, req[r].secret.totp)
    /\ \A c \in Codes : recoveries[<<req[r].secret.totp, c>>] = 0

SettledHeld(r) ==
  ~unsettled =>
    /\ req[r].op = "setup" => ~twoFactor.enabled
    /\ req[r].op = "enable" =>
         twoFactor.secret # None /\ twoFactor.secret.totp \in verified
    /\ req[r].op = "recover" => req[r].secret.totp \in verified

UsedUp(s, c) ==
  recoveries[<<s, c>>] >= 1 /\ s \notin entangled =>
    /\ HoldsSecret(s) => c \notin twoFactor.secret.recoveryCodes
    /\ \A r \in Requests : req[r].op = "recover" /\ req[r].secret.totp = s =>
         c \notin req[r].secret.recoveryCodes /\ c # req[r].code

SecretsHandedOut ==
  /\ twoFactor.secret # None => twoFactor.secret.totp \in 1..generated
  /\ \A s \in Secrets, c \in Codes : recoveries[<<s, c>>] > 0 => s <= generated

TwoFactorInv ==
  /\ TwoFactorTypeOK /\ SecretsHandedOut
  /\ \A r \in Requests : JobHeld(r) /\ FreshSecret(r) /\ SettledHeld(r)
  /\ \A s \in Secrets, c \in Codes : UsedUp(s, c)
  /\ SecondFactorSound

LEMMA SecretMoves ==
  ASSUME TwoFactorTypeOK, NEW r \in Requests, NEW job
  PROVE  /\ req' = [req EXCEPT ![r] = job] => OnlyMoves(r, job)
         /\ /\ req' = [req EXCEPT ![r] = job]
            /\ job \in {IdleJob} \cup TwoFactorJob
            => req' \in [Requests -> {IdleJob} \cup TwoFactorJob]
BY DEF TwoFactorTypeOK, OnlyMoves

(* A setup takes a secret that nobody has seen. *)
LEMMA SetupKeeps ==
  ASSUME TwoFactorInv, NEW r \in Requests, Setup(r),
         NEW s, s = generated + 1
  PROVE  TwoFactorInv'
<1> DEFINE job == [op |-> "setup", pc |-> "write",
                   secret |-> [totp |-> s, recoveryCodes |-> Codes], code |-> None]
<1>1. /\ TwoFactorTypeOK /\ SecretsHandedOut
      /\ \A q \in Requests : JobHeld(q) /\ FreshSecret(q) /\ SettledHeld(q)
      /\ \A t \in Secrets, c \in Codes : UsedUp(t, c)
      /\ SecondFactorSound
  BY DEF TwoFactorInv
<1>2. /\ req[r] = IdleJob /\ req' = [req EXCEPT ![r] = job]
      /\ generated' = s /\ s \in Secrets /\ s \in 1..s /\ ~twoFactor.enabled
      /\ generated \in Nat /\ s \notin 1..generated /\ 1..generated \subseteq 1..s
      /\ UNCHANGED <<twoFactor, verified, recoveries, entangled, unsettled>>
  BY <1>1, TwoFactorOK
  DEF Setup, Begin2FA, Start, Idle, twoFactorHistory, TwoFactorTypeOK, Secrets
<1>3. job \in TwoFactorJob BY <1>2 DEF TwoFactorJob, Stored
<1>4. OnlyMoves(r, job) /\ req' \in [Requests -> {IdleJob} \cup TwoFactorJob]
  BY <1>1, <1>2, <1>3, SecretMoves
<1>5. /\ job.op = "setup" /\ job.secret.totp = s /\ job.secret \in Stored
  BY <1>2 DEF Stored
<1> HIDE DEF job
<1>6. TwoFactorTypeOK'
  BY <1>1, <1>2, <1>4, TwoFactorOK DEF TwoFactorTypeOK, Secrets
<1>7. SecretsHandedOut'
  BY <1>1, <1>2, TwoFactorOK DEF SecretsHandedOut, TwoFactorTypeOK, Secrets
<1>8. ASSUME NEW q \in Requests
      PROVE  (JobHeld(q) /\ FreshSecret(q) /\ SettledHeld(q))'
  <2>1. JobHeld(q)' BY <1>1, <1>2, <1>4, <1>5 DEF JobHeld, OnlyMoves
  <2>2. FreshSecret(q)'
    <3>1. CASE q = r
      <4>1. ~HoldsSecret(s)' BY <1>1, <1>2 DEF HoldsSecret, SecretsHandedOut
      <4>2. \A p \in Requests \ {r} : ~Carries(p, s)'
        BY <1>1, <1>2, <1>4 DEF OnlyMoves, Carries, JobHeld
      <4>3. \A c \in Codes : recoveries[<<s, c>>] = 0
        BY <1>1, <1>2 DEF SecretsHandedOut, TwoFactorTypeOK
      <4> QED BY <3>1, <4>1, <4>2, <4>3, <1>2, <1>4, <1>5
              DEF FreshSecret, OnlyMoves, Carries, HoldsSecret
    <3>2. CASE q # r /\ req[q].op = "setup"
      <4>1. req'[q] = req[q] /\ req[q].secret.totp # s
        BY <3>2, <1>1, <1>2, <1>4 DEF OnlyMoves, JobHeld
      <4> QED BY <3>2, <4>1, <1>1, <1>2, <1>4, <1>5
              DEF FreshSecret, OnlyMoves, Carries, HoldsSecret
    <3> QED BY <3>1, <3>2, <1>4 DEF FreshSecret, OnlyMoves
  <2>3. SettledHeld(q)' BY <1>1, <1>2, <1>4, <1>5 DEF SettledHeld, OnlyMoves
  <2> QED BY <2>1, <2>2, <2>3
<1>9. ASSUME NEW t \in Secrets, NEW c \in Codes PROVE UsedUp(t, c)'
  BY <1>1, <1>2, <1>4, <1>5 DEF UsedUp, OnlyMoves, HoldsSecret
<1>10. SecondFactorSound'
  BY <1>1, <1>2 DEF SecondFactorSound, EnabledWasVerified, RecoveriesExplained
<1> QED BY <1>6, <1>7, <1>8, <1>9, <1>10 DEF TwoFactorInv

(* What every step needs of the invariant. *)
LEMMA TwoFactorFacts ==
  ASSUME TwoFactorInv
  PROVE  /\ TwoFactorTypeOK /\ SecretsHandedOut
         /\ \A q \in Requests : JobHeld(q) /\ FreshSecret(q) /\ SettledHeld(q)
         /\ \A t \in Secrets, c \in Codes : UsedUp(t, c)
         /\ EnabledWasVerified /\ RecoveriesExplained
BY DEF TwoFactorInv, SecondFactorSound

(* A handler that ends leaves the others as they were. *)
LEMMA EndsAlone ==
  ASSUME TwoFactorTypeOK, NEW r \in Requests, Finish(r)
  PROVE  OnlyMoves(r, IdleJob) /\ req' \in [Requests -> {IdleJob} \cup TwoFactorJob]
BY SecretMoves DEF Finish

(* What a handler that begins on a stored secret takes of it. *)
BeginsOn(r, job) ==
  /\ req' = [req EXCEPT ![r] = job] /\ job \in TwoFactorJob
  /\ job.op \in {"enable", "disable", "recover"}
  /\ job.op = "enable" => twoFactor.secret.totp \in verified'
  /\ job.op = "recover" =>
       /\ twoFactor.enabled
       /\ job.code \in twoFactor.secret.recoveryCodes /\ job.code \in Codes
       /\ job.secret.totp = twoFactor.secret.totp /\ job.secret \in Stored
       /\ job.secret.recoveryCodes = twoFactor.secret.recoveryCodes \ {job.code}
  /\ twoFactor.secret # None /\ twoFactor.secret \in Stored
  /\ verified \subseteq verified' /\ verified' \subseteq Secrets
  /\ UNCHANGED <<twoFactor, generated, recoveries, entangled, unsettled>>

(* A verification, a disable or a recovery that begins takes what it read. *)
LEMMA BeginKeeps ==
  ASSUME TwoFactorInv, NEW r \in Requests,
         Enable(r) \/ Disable(r) \/ \E c \in Codes : Recover(r, c)
  PROVE  TwoFactorInv'
<1>1. /\ TwoFactorTypeOK /\ SecretsHandedOut
      /\ \A q \in Requests : JobHeld(q) /\ FreshSecret(q) /\ SettledHeld(q)
      /\ \A t \in Secrets, c \in Codes : UsedUp(t, c)
      /\ EnabledWasVerified /\ RecoveriesExplained
  BY TwoFactorFacts
<1>2. PICK job : BeginsOn(r, job)
  <2>1. twoFactor.secret \in Stored \cup {None}
    BY <1>1 DEF TwoFactorTypeOK
  <2>2. CASE Enable(r)
    <3> DEFINE job == [op |-> "enable", pc |-> "write", secret |-> None, code |-> None]
    <3>1. job \in TwoFactorJob /\ job.op = "enable" BY DEF TwoFactorJob
    <3>2. req' = [req EXCEPT ![r] = job] BY <2>2 DEF Enable, Begin2FA, Start
    <3>3. twoFactor.secret # None /\ twoFactor.secret \in Stored
      BY <2>1, <2>2 DEF Enable
    <3>4. twoFactor.secret.totp \in Secrets BY <3>3 DEF Stored
    <3>5. /\ verified' = verified \cup {twoFactor.secret.totp}
          /\ UNCHANGED <<twoFactor, generated, recoveries, entangled, unsettled>>
      BY <2>2 DEF Enable, ExtractTotpSecret
    <3> HIDE DEF job
    <3> QED BY <1>1, <3>1, <3>2, <3>3, <3>4, <3>5 DEF TwoFactorTypeOK, BeginsOn
  <2>3. CASE Disable(r)
    <3> DEFINE job == [op |-> "disable", pc |-> "write", secret |-> None, code |-> None]
    <3>1. job \in TwoFactorJob /\ job.op = "disable" BY DEF TwoFactorJob
    <3>2. /\ req' = [req EXCEPT ![r] = job]
          /\ UNCHANGED <<twoFactor, generated, verified, recoveries, entangled, unsettled>>
      BY <2>3 DEF Disable, Begin2FA, Start, twoFactorVars, twoFactorHistory
    <3>3. twoFactor.secret # None /\ twoFactor.secret \in Stored
      BY <2>1, <2>3 DEF Disable
    <3> HIDE DEF job
    <3> QED BY <1>1, <3>1, <3>2, <3>3 DEF TwoFactorTypeOK, BeginsOn
  <2>4. ASSUME NEW c \in Codes, Recover(r, c)
        PROVE  \E job : BeginsOn(r, job)
    <3> DEFINE left == [twoFactor.secret EXCEPT !.recoveryCodes = @ \ {c}]
               job == [op |-> "recover", pc |-> "write", secret |-> left, code |-> c]
    <3>1. /\ twoFactor.secret # None /\ twoFactor.secret \in Stored
          /\ twoFactor.enabled /\ c \in twoFactor.secret.recoveryCodes
      BY <2>1, <2>4 DEF Recover
    <3>2. /\ left \in Stored /\ left.totp = twoFactor.secret.totp
          /\ left.recoveryCodes = twoFactor.secret.recoveryCodes \ {c}
      BY <3>1 DEF Stored
    <3>3. /\ req' = [req EXCEPT ![r] = job]
          /\ UNCHANGED <<twoFactor, generated, verified, recoveries, entangled, unsettled>>
      BY <2>4 DEF Recover, Begin2FA, Start, twoFactorVars, twoFactorHistory
    <3> HIDE DEF left
    <3>4. /\ job \in TwoFactorJob /\ job.op = "recover" /\ job.code = c
          /\ job.secret = left
      BY <3>2 DEF TwoFactorJob
    <3> HIDE DEF job
    <3> QED BY <1>1, <3>1, <3>2, <3>3, <3>4 DEF TwoFactorTypeOK, BeginsOn
  <2> QED BY <2>2, <2>3, <2>4
<1> USE DEF BeginsOn
<1>3. req[r] = IdleJob
  BY DEF Enable, Disable, Recover, Begin2FA, Start, Idle
<1>4. OnlyMoves(r, job) /\ req' \in [Requests -> {IdleJob} \cup TwoFactorJob]
  BY <1>1, <1>2, SecretMoves
<1>5. TwoFactorTypeOK' BY <1>1, <1>2, <1>4 DEF TwoFactorTypeOK
<1>6. SecretsHandedOut' BY <1>1, <1>2 DEF SecretsHandedOut
<1>7. ASSUME NEW q \in Requests
      PROVE  (JobHeld(q) /\ FreshSecret(q) /\ SettledHeld(q))'
  <2>1. JobHeld(q)'
    BY <1>1, <1>2, <1>4 DEF JobHeld, OnlyMoves, SecretsHandedOut
  <2>2. FreshSecret(q)'
    <3>1. CASE q # r /\ req[q].op = "setup"
      <4>1. req'[q] = req[q] /\ req[q].secret.totp # twoFactor.secret.totp
        BY <3>1, <1>1, <1>2, <1>4 DEF OnlyMoves, FreshSecret, HoldsSecret
      <4> QED BY <3>1, <4>1, <1>1, <1>2, <1>4
              DEF FreshSecret, OnlyMoves, Carries, HoldsSecret
    <3> QED BY <3>1, <1>2, <1>4 DEF FreshSecret, OnlyMoves
  <2>3. SettledHeld(q)'
    BY <1>1, <1>2, <1>4 DEF SettledHeld, OnlyMoves, EnabledWasVerified
  <2> QED BY <2>1, <2>2, <2>3
<1>8. ASSUME NEW t \in Secrets, NEW c \in Codes PROVE UsedUp(t, c)'
  BY <1>1, <1>2, <1>4 DEF UsedUp, OnlyMoves, HoldsSecret
<1>9. SecondFactorSound'
  BY <1>1, <1>2 DEF SecondFactorSound, EnabledWasVerified, RecoveriesExplained
<1> QED BY <1>5, <1>6, <1>7, <1>8, <1>9 DEF TwoFactorInv

(* A setup, a verification or a disable that writes while no other is in    *)
(* flight leaves nothing unsettled.                                         *)
LEMMA SettleKeeps ==
  ASSUME TwoFactorInv, NEW r \in Requests,
         SetupWrite(r) \/ EnableWrite(r) \/ DisableWrite(r)
  PROVE  TwoFactorInv'
<1>1. /\ TwoFactorTypeOK /\ SecretsHandedOut
      /\ \A q \in Requests : JobHeld(q) /\ FreshSecret(q) /\ SettledHeld(q)
      /\ \A t \in Secrets, c \in Codes : UsedUp(t, c)
      /\ EnabledWasVerified /\ RecoveriesExplained
  BY TwoFactorFacts
<1>2. /\ Settle(r) /\ req[r].op \in Settling
      /\ UNCHANGED <<generated, verified, recoveries, entangled>>
  BY DEF SetupWrite, EnableWrite, DisableWrite, Doing, Settling
<1>3. OnlyMoves(r, IdleJob) /\ req' \in [Requests -> {IdleJob} \cup TwoFactorJob]
  BY <1>1, <1>2, EndsAlone DEF Settle
<1>4. /\ unsettled' \in BOOLEAN /\ (unsettled => unsettled')
      /\ ~unsettled' => \A q \in Requests \ {r} : req[q].op \notin Settling
  <2>1. unsettled' = (unsettled \/ AlsoAtWork(r, Settling) # {})
    BY <1>2 DEF Settle
  <2> QED BY <2>1, <1>1 DEF AlsoAtWork, TwoFactorTypeOK
<1>5. /\ twoFactor' \in [enabled : BOOLEAN, secret : Stored \cup {None}]
      /\ \/ /\ req[r].op = "setup" /\ twoFactor'.secret = req[r].secret
            /\ twoFactor'.enabled = twoFactor.enabled
         \/ /\ req[r].op = "enable" /\ twoFactor'.secret = twoFactor.secret
            /\ twoFactor'.enabled
         \/ /\ req[r].op = "disable" /\ twoFactor'.secret = None
            /\ ~twoFactor'.enabled
  <2>1. twoFactor \in [enabled : BOOLEAN, secret : Stored \cup {None}]
    BY <1>1 DEF TwoFactorTypeOK
  <2>2. CASE SetupWrite(r)
    <3>1. req[r].op = "setup" /\ req[r].secret \in Stored
      BY <1>1, <2>2 DEF SetupWrite, Doing, JobHeld
    <3>2. twoFactor' = [twoFactor EXCEPT !.secret = req[r].secret]
      BY <2>2 DEF SetupWrite
    <3> QED BY <2>1, <3>1, <3>2
  <2>3. CASE EnableWrite(r) BY <2>1, <2>3 DEF EnableWrite, Doing
  <2>4. CASE DisableWrite(r) BY <2>4 DEF DisableWrite, Doing
  <2> QED BY <2>2, <2>3, <2>4
<1>6. TwoFactorTypeOK' BY <1>1, <1>2, <1>3, <1>4, <1>5 DEF TwoFactorTypeOK
<1>7. SecretsHandedOut'
  BY <1>1, <1>2, <1>5 DEF SecretsHandedOut, JobHeld
<1>8. \A t : HoldsSecret(t)' => HoldsSecret(t) \/ (req[r].op = "setup" /\ req[r].secret.totp = t)
  BY <1>5 DEF HoldsSecret
<1>9. IdleJob.op = "none" BY DEF IdleJob
<1>10. ASSUME NEW q \in Requests
      PROVE  (JobHeld(q) /\ FreshSecret(q) /\ SettledHeld(q))'
  <2>1. JobHeld(q)' BY <1>1, <1>2, <1>3, <1>9 DEF JobHeld, OnlyMoves
  <2>2. FreshSecret(q)'
    <3>1. CASE q # r /\ req[q].op = "setup"
      <4> DEFINE t == req[q].secret.totp
      <4>1. req'[q] = req[q] BY <3>1, <1>3 DEF OnlyMoves
      <4>2. /\ ~HoldsSecret(t) /\ \A p \in Requests \ {q} : ~Carries(p, t)
            /\ \A c \in Codes : recoveries[<<t, c>>] = 0
        BY <1>1, <3>1 DEF FreshSecret
      <4>3. twoFactor'.secret # None => twoFactor'.secret.totp # t
        BY <1>5, <3>1, <4>2 DEF Carries, HoldsSecret
      <4>4. \A p \in Requests \ {q} :
               ~(req'[p].op \in {"setup", "recover"} /\ req'[p].secret.totp = t)
        BY <1>3, <1>9, <4>2 DEF Carries, OnlyMoves
      <4> QED BY <4>1, <4>2, <4>3, <4>4, <1>2 DEF FreshSecret, Carries, HoldsSecret
    <3> QED BY <3>1, <1>3, <1>9 DEF FreshSecret, OnlyMoves
  <2>3. SettledHeld(q)'
    <3>1. CASE q = r BY <3>1, <1>3, <1>9 DEF SettledHeld, OnlyMoves
    <3>2. CASE q # r
      <4>1. req'[q] = req[q] BY <3>2, <1>3 DEF OnlyMoves
      <4>2. ~unsettled' => ~unsettled /\ req[q].op \notin {"setup", "enable", "disable"}
        BY <1>4, <3>2 DEF Settling
      <4> QED BY <4>1, <4>2, <1>1, <1>2 DEF SettledHeld
    <3> QED BY <3>1, <3>2
  <2> QED BY <2>1, <2>2, <2>3
<1>11. ASSUME NEW t \in Secrets, NEW c \in Codes PROVE UsedUp(t, c)'
  <2>1. CASE recoveries[<<t, c>>] >= 1 /\ t \notin entangled
    <3>1. ~(req[r].op = "setup" /\ req[r].secret.totp = t)
      BY <2>1, <1>1 DEF FreshSecret
    <3>2. twoFactor'.secret # None /\ twoFactor'.secret.totp = t =>
            c \notin twoFactor'.secret.recoveryCodes
      BY <1>1, <1>5, <2>1, <3>1 DEF UsedUp, HoldsSecret
    <3>3. \A q \in Requests : req'[q].op = "recover" /\ req'[q].secret.totp = t =>
            c \notin req'[q].secret.recoveryCodes /\ c # req'[q].code
      BY <1>1, <1>3, <1>9, <2>1 DEF UsedUp, OnlyMoves
    <3> QED BY <3>2, <3>3 DEF UsedUp, HoldsSecret
  <2> QED BY <2>1, <1>2 DEF UsedUp
<1>12. EnabledWasVerified'
  <2>1. ASSUME twoFactor'.enabled, ~unsettled'
        PROVE  twoFactor'.secret # None /\ twoFactor'.secret.totp \in verified
    <3>1. ~unsettled BY <2>1, <1>4
    <3>2. req[r].op # "setup" BY <1>1, <1>5, <2>1, <3>1 DEF SettledHeld
    <3>3. req[r].op = "enable" /\ twoFactor'.secret = twoFactor.secret
      BY <1>5, <2>1, <3>2
    <3> QED BY <1>1, <3>1, <3>3 DEF SettledHeld
  <2> QED BY <2>1, <1>2 DEF EnabledWasVerified
<1>13. RecoveriesExplained' BY <1>1, <1>2 DEF RecoveriesExplained
<1> QED BY <1>6, <1>7, <1>10, <1>11, <1>12, <1>13 DEF TwoFactorInv, SecondFactorSound

(* A recovery writes its list back: of its secret's codes, the one it took  *)
(* off and those taken before stay off.                                     *)
LEMMA RecoverKeeps ==
  ASSUME TwoFactorInv, NEW r \in Requests, RecoverWrite(r),
         NEW s, s = req[r].secret.totp, NEW d, d = req[r].code
  PROVE  TwoFactorInv'
<1>1. /\ TwoFactorTypeOK /\ SecretsHandedOut
      /\ \A q \in Requests : JobHeld(q) /\ FreshSecret(q) /\ SettledHeld(q)
      /\ \A t \in Secrets, c \in Codes : UsedUp(t, c)
      /\ EnabledWasVerified /\ RecoveriesExplained
  BY TwoFactorFacts
<1>2. /\ req[r].op = "recover" /\ req[r].secret \in Stored
      /\ s \in 1..generated /\ s \in Secrets /\ d \in Codes
      /\ d \notin req[r].secret.recoveryCodes
      /\ Finish(r) /\ UNCHANGED <<generated, verified, unsettled>>
  BY <1>1 DEF RecoverWrite, RecoverySession, Doing, JobHeld, Stored
<1>3. OnlyMoves(r, IdleJob) /\ req' \in [Requests -> {IdleJob} \cup TwoFactorJob]
  BY <1>1, <1>2, EndsAlone
<1>4. /\ twoFactor' \in [enabled : BOOLEAN, secret : Stored \cup {None}]
      /\ twoFactor'.secret = req[r].secret /\ twoFactor'.secret # None
      /\ twoFactor'.enabled = twoFactor.enabled
  BY <1>1, <1>2, TwoFactorOK DEF RecoverWrite, TwoFactorTypeOK
<1>5. /\ recoveries' \in [Secrets \X Codes -> 0..2]
      /\ \A t \in Secrets, c \in Codes :
           /\ t # s \/ c # d => recoveries'[<<t, c>>] = recoveries[<<t, c>>]
           /\ recoveries'[<<s, d>>] > 1 => recoveries[<<s, d>>] >= 1
  <2>1. recoveries' = [recoveries EXCEPT ![<<s, d>>] = IF @ = 2 THEN 2 ELSE @ + 1]
    BY DEF RecoverWrite, RecoverySession
  <2>2. recoveries \in [Secrets \X Codes -> 0..2] BY <1>1 DEF TwoFactorTypeOK
  <2>3. <<s, d>> \in Secrets \X Codes BY <1>2
  <2>4. (IF recoveries[<<s, d>>] = 2 THEN 2 ELSE recoveries[<<s, d>>] + 1) \in 0..2
    BY <2>2, <2>3
  <2> QED BY <2>1, <2>2, <2>3, <2>4
<1>6. /\ entangled' \subseteq Secrets /\ entangled \subseteq entangled'
      /\ \A q \in Requests \ {r} : req[q].op = "recover" => req[q].secret.totp \in entangled'
  <2>1. entangled' = entangled \cup {req[q].secret.totp : q \in AlsoAtWork(r, {"recover"})}
    BY DEF RecoverWrite, RecoverySession
  <2>2. \A q \in Requests : req[q].op = "recover" => req[q].secret.totp \in Secrets
    BY <1>1 DEF JobHeld, Stored
  <2> QED BY <2>1, <2>2, <1>1 DEF AlsoAtWork, TwoFactorTypeOK
<1>7. TwoFactorTypeOK' BY <1>1, <1>2, <1>3, <1>4, <1>5, <1>6 DEF TwoFactorTypeOK
<1>8. SecretsHandedOut'
  <2>1. twoFactor'.secret.totp \in 1..generated BY <1>2, <1>4
  <2>2. \A t \in Secrets, c \in Codes : recoveries'[<<t, c>>] > 0 => t <= generated
    BY <1>1, <1>2, <1>5 DEF SecretsHandedOut
  <2> QED BY <2>1, <2>2, <1>2 DEF SecretsHandedOut
<1>9. IdleJob.op = "none" BY DEF IdleJob
<1>10. ASSUME NEW q \in Requests
      PROVE  (JobHeld(q) /\ FreshSecret(q) /\ SettledHeld(q))'
  <2>1. JobHeld(q)' BY <1>1, <1>2, <1>3, <1>9 DEF JobHeld, OnlyMoves
  <2>2. FreshSecret(q)'
    <3>1. CASE q # r /\ req[q].op = "setup"
      <4> DEFINE t == req[q].secret.totp
      <4>1. req'[q] = req[q] BY <3>1, <1>3 DEF OnlyMoves
      <4>2. /\ \A p \in Requests \ {q} : ~Carries(p, t)
            /\ t \in Secrets /\ \A c \in Codes : recoveries[<<t, c>>] = 0
        BY <1>1, <3>1 DEF FreshSecret, JobHeld, Stored
      <4>3. t # s BY <1>2, <3>1, <4>2 DEF Carries
      <4>4. \A p \in Requests \ {q} :
               ~(req'[p].op \in {"setup", "recover"} /\ req'[p].secret.totp = t)
        BY <1>3, <1>9, <4>2 DEF Carries, OnlyMoves
      <4>5. \A c \in Codes : recoveries'[<<t, c>>] = 0 BY <1>5, <4>2, <4>3
      <4> QED BY <4>1, <4>3, <4>4, <4>5, <1>4 DEF FreshSecret, Carries, HoldsSecret
    <3> QED BY <3>1, <1>3, <1>9 DEF FreshSecret, OnlyMoves
  <2>3. SettledHeld(q)'
    BY <1>1, <1>2, <1>3, <1>4, <1>9 DEF SettledHeld, OnlyMoves
  <2> QED BY <2>1, <2>2, <2>3
<1>11. ASSUME NEW t \in Secrets, NEW c \in Codes PROVE UsedUp(t, c)'
  <2>1. CASE recoveries'[<<t, c>>] >= 1 /\ t \notin entangled'
    <3>1. \A q \in Requests : ~(req'[q].op = "recover" /\ req'[q].secret.totp = t)
      BY <1>3, <1>6, <1>9, <2>1 DEF OnlyMoves
    <3>2. t = s => c \notin req[r].secret.recoveryCodes
      <4>1. CASE c = d BY <4>1, <1>2
      <4>2. CASE c # d /\ t = s
        <5>1. recoveries[<<t, c>>] >= 1 /\ t \notin entangled
          BY <1>5, <1>6, <2>1, <4>2
        <5> QED BY <5>1, <4>2, <1>1, <1>2 DEF UsedUp
      <4> QED BY <4>1, <4>2
    <3> QED BY <3>1, <3>2, <1>4 DEF UsedUp, HoldsSecret
  <2> QED BY <2>1 DEF UsedUp
<1>12. EnabledWasVerified'
  BY <1>1, <1>2, <1>4 DEF EnabledWasVerified, SettledHeld
<1>13. RecoveriesExplained'
  <2>1. ASSUME NEW t \in Secrets, NEW c \in Codes, recoveries'[<<t, c>>] > 1,
               t \notin entangled'
        PROVE  FALSE
    <3>1. t \notin entangled BY <2>1, <1>6
    <3>2. t = s /\ c = d /\ recoveries[<<t, c>>] >= 1
      BY <1>1, <1>5, <2>1, <3>1 DEF RecoveriesExplained
    <3> QED BY <3>1, <3>2, <1>1, <1>2 DEF UsedUp
  <2> QED BY <2>1 DEF RecoveriesExplained
<1> QED BY <1>7, <1>8, <1>10, <1>11, <1>12, <1>13 DEF TwoFactorInv, SecondFactorSound

(* A handler that fails only stops. *)
LEMMA StopKeeps ==
  ASSUME TwoFactorInv, NEW r \in Requests, TwoFactorFail(r)
  PROVE  TwoFactorInv'
<1>1. /\ TwoFactorTypeOK /\ SecretsHandedOut
      /\ \A q \in Requests : JobHeld(q) /\ FreshSecret(q) /\ SettledHeld(q)
      /\ \A t \in Secrets, c \in Codes : UsedUp(t, c)
      /\ EnabledWasVerified /\ RecoveriesExplained
  BY TwoFactorFacts
<1>2. /\ OnlyMoves(r, IdleJob) /\ req' \in [Requests -> {IdleJob} \cup TwoFactorJob]
      /\ UNCHANGED <<twoFactor, generated, verified, recoveries, entangled, unsettled>>
      /\ IdleJob.op = "none"
  BY <1>1, EndsAlone DEF TwoFactorFail, twoFactorVars, twoFactorHistory, IdleJob
<1>3. TwoFactorTypeOK' BY <1>1, <1>2 DEF TwoFactorTypeOK
<1>4. SecretsHandedOut' BY <1>1, <1>2 DEF SecretsHandedOut
<1>5. ASSUME NEW q \in Requests
      PROVE  (JobHeld(q) /\ FreshSecret(q) /\ SettledHeld(q))'
  <2>1. JobHeld(q)' BY <1>1, <1>2 DEF JobHeld, OnlyMoves
  <2>2. FreshSecret(q)'
    <3>1. CASE q # r /\ req[q].op = "setup"
      <4>1. req'[q] = req[q] BY <3>1, <1>2 DEF OnlyMoves
      <4> QED BY <3>1, <4>1, <1>1, <1>2 DEF FreshSecret, OnlyMoves, Carries, HoldsSecret
    <3> QED BY <3>1, <1>2 DEF FreshSecret, OnlyMoves
  <2>3. SettledHeld(q)' BY <1>1, <1>2 DEF SettledHeld, OnlyMoves
  <2> QED BY <2>1, <2>2, <2>3
<1>6. ASSUME NEW t \in Secrets, NEW c \in Codes PROVE UsedUp(t, c)'
  BY <1>1, <1>2 DEF UsedUp, OnlyMoves, HoldsSecret
<1>7. SecondFactorSound'
  BY <1>1, <1>2 DEF SecondFactorSound, EnabledWasVerified, RecoveriesExplained
<1> QED BY <1>3, <1>4, <1>5, <1>6, <1>7 DEF TwoFactorInv

(* The second factor's invariant is inductive. *)
LEMMA TwoFactorInductive ==
  /\ TwoFactorInit => TwoFactorInv
  /\ TwoFactorInv /\ [TwoFactorNext]_<<req, twoFactorVars>> => TwoFactorInv'
<1>1. ASSUME TwoFactorInit PROVE TwoFactorInv
  <2>1. TwoFactorTypeOK
    <3>1. /\ twoFactor \in [enabled : BOOLEAN, secret : Stored \cup {None}]
          /\ verified \subseteq Secrets /\ entangled \subseteq Secrets
          /\ unsettled \in BOOLEAN
          /\ req \in [Requests -> {IdleJob} \cup TwoFactorJob]
      BY <1>1 DEF TwoFactorInit
    <3>2. generated \in 0..MaxSecrets BY <1>1, TwoFactorOK DEF TwoFactorInit
    <3>3. recoveries \in [Secrets \X Codes -> 0..2]
      <4>1. 0 \in 0..2 OBVIOUS
      <4> QED BY <1>1, <4>1 DEF TwoFactorInit
    <3> QED BY <3>1, <3>2, <3>3 DEF TwoFactorTypeOK
  <2>2. SecretsHandedOut BY <1>1 DEF TwoFactorInit, SecretsHandedOut
  <2>3. \A r \in Requests : req[r].op = "none" BY <1>1 DEF TwoFactorInit, IdleJob
  <2>4. \A r \in Requests : JobHeld(r) /\ FreshSecret(r) /\ SettledHeld(r)
    BY <2>3 DEF JobHeld, FreshSecret, SettledHeld
  <2>5. \A s \in Secrets, c \in Codes : recoveries[<<s, c>>] = 0
    BY <1>1 DEF TwoFactorInit
  <2>6. \A s \in Secrets, c \in Codes : UsedUp(s, c) BY <2>5 DEF UsedUp
  <2>7. SecondFactorSound
    BY <1>1, <2>5
    DEF TwoFactorInit, SecondFactorSound, EnabledWasVerified, RecoveriesExplained
  <2> QED BY <2>1, <2>2, <2>4, <2>6, <2>7 DEF TwoFactorInv
<1>2. ASSUME TwoFactorInv, NEW r \in Requests, TwoFactorStep(r) PROVE TwoFactorInv'
  <2>1. CASE Setup(r) BY <1>2, <2>1, SetupKeeps
  <2>2. CASE Enable(r) \/ Disable(r) \/ \E c \in Codes : Recover(r, c)
    BY <1>2, <2>2, BeginKeeps
  <2>3. CASE SetupWrite(r) \/ EnableWrite(r) \/ DisableWrite(r)
    BY <1>2, <2>3, SettleKeeps
  <2>4. CASE RecoverWrite(r) BY <1>2, <2>4, RecoverKeeps
  <2>5. CASE TwoFactorFail(r) BY <1>2, <2>5, StopKeeps
  <2> QED BY <1>2, <2>1, <2>2, <2>3, <2>4, <2>5 DEF TwoFactorStep
<1>3. ASSUME TwoFactorInv, UNCHANGED <<req, twoFactorVars>> PROVE TwoFactorInv'
  <2> USE <1>3 DEF twoFactorVars, twoFactorHistory, TwoFactorInv
  <2>1. TwoFactorTypeOK' BY DEF TwoFactorTypeOK
  <2>2. SecretsHandedOut' BY DEF SecretsHandedOut
  <2>3. (\A r \in Requests : JobHeld(r) /\ FreshSecret(r) /\ SettledHeld(r))'
    BY DEF JobHeld, FreshSecret, SettledHeld, Carries, HoldsSecret
  <2>4. (\A s \in Secrets, c \in Codes : UsedUp(s, c))' BY DEF UsedUp, HoldsSecret
  <2>5. SecondFactorSound'
    BY DEF SecondFactorSound, EnabledWasVerified, RecoveriesExplained
  <2> QED BY <2>1, <2>2, <2>3, <2>4, <2>5
<1> QED BY <1>1, <1>2, <1>3 DEF TwoFactorNext

(* A second factor that is on was verified, and a recovery code opens one   *)
(* session, but for handlers that overlap.                                  *)
THEOREM SecondFactorHolds == TwoFactorSpec => []SecondFactorSound
<1>1. TwoFactorInv => SecondFactorSound BY DEF TwoFactorInv
<1> QED BY <1>1, TwoFactorInductive, PTL DEF TwoFactorSpec

-----------------------------------------------------------------------------
(****************************************************************************)
(* Accounts.  Whoever found the user works on a row that is there for good, *)
(* a profile belongs to one, and an onboarding about to commit has the only *)
(* profile there will be.                                                   *)
(****************************************************************************)
UserStays ==
  /\ profile # None => user # None
  /\ \A r \in Requests : req[r].op \in Cached \cup {"onboard"} => user # None

CommitsAlone == \A r \in Requests : Doing(r, "onboard", "commit") => profile = None

AccountsInv == AccountsTypeOK /\ UserStays /\ CommitsAlone /\ OnboardedWhole

LEMMA AccountsFacts ==
  ASSUME AccountsInv
  PROVE  /\ user \in UserRow \cup {None} /\ profile \in Requests \cup {Staff, None}
         /\ cached \in BOOLEAN
         /\ req \in [Requests -> {IdleJob} \cup AccountJob]
         /\ \A r, q \in Requests : Locks(r) /\ Locks(q) => r = q
         /\ \A r \in Requests : req[r].op \in Cached \cup {"onboard"} =>
              user # None /\ user \in UserRow
         /\ profile # None => user # None
         /\ \A r \in Requests : req[r].op = "onboard" /\ req[r].pc = "commit" => profile = None
         /\ OnboardedWhole
BY DEF AccountsInv, AccountsTypeOK, UserStays, CommitsAlone, Doing

(* One handler moves on to job, and the rows stay as the invariant has them. *)
LEMMA HandlerMoves ==
  ASSUME AccountsInv, NEW r \in Requests, NEW job \in {IdleJob} \cup AccountJob,
         req' = [req EXCEPT ![r] = job],
         job.op \in Cached \cup {"onboard"} => user # None,
         job.op = "onboard" /\ job.pc \in {"profile", "commit"} => Locks(r) \/ RowFree,
         user' = user, profile' = profile, cached' \in BOOLEAN,
         job.op = "onboard" /\ job.pc = "commit" => profile = None
  PROVE  AccountsInv'
<1>1. /\ user \in UserRow \cup {None} /\ profile \in Requests \cup {Staff, None}
      /\ req \in [Requests -> {IdleJob} \cup AccountJob]
      /\ \A p, q \in Requests : Locks(p) /\ Locks(q) => p = q
      /\ UserStays /\ CommitsAlone /\ OnboardedWhole
  BY DEF AccountsInv, AccountsTypeOK
<1>2. /\ req'[r] = job /\ \A q \in Requests \ {r} : req'[q] = req[q]
      /\ req' \in [Requests -> {IdleJob} \cup AccountJob]
  BY <1>1
<1>3. (\A p, q \in Requests : Locks(p) /\ Locks(q) => p = q)'
  BY <1>1, <1>2 DEF Locks, RowFree
<1>4. AccountsTypeOK' BY <1>1, <1>2, <1>3 DEF AccountsTypeOK
<1>5. UserStays' BY <1>1, <1>2 DEF UserStays
<1>6. CommitsAlone' BY <1>1, <1>2 DEF CommitsAlone, Doing
<1>7. OnboardedWhole' BY <1>1 DEF OnboardedWhole
<1> QED BY <1>4, <1>5, <1>6, <1>7 DEF AccountsInv

LEMMA AccountsSteps ==
  ASSUME AccountsInv, NEW r \in Requests, AccountStep(r)
  PROVE  AccountsInv'
<1>1. /\ user \in UserRow \cup {None} /\ profile \in Requests \cup {Staff, None}
      /\ cached \in BOOLEAN
      /\ req \in [Requests -> {IdleJob} \cup AccountJob]
      /\ \A p, q \in Requests : Locks(p) /\ Locks(q) => p = q
      /\ \A q \in Requests : req[q].op \in Cached \cup {"onboard"} =>
           user # None /\ user \in UserRow
      /\ profile # None => user # None
      /\ \A q \in Requests : req[q].op = "onboard" /\ req[q].pc = "commit" => profile = None
      /\ OnboardedWhole
  BY AccountsFacts
<1>2. IdleJob.op = "none" /\ IdleJob.pc = "idle" BY DEF IdleJob
<1>3. Finish(r) => req' = [req EXCEPT ![r] = IdleJob] BY DEF Finish
(* A step to pc of the method it is in. *)
<1>4. ASSUME NEW pc, Goto(r, pc), [req[r] EXCEPT !.pc = pc] \in AccountJob
      PROVE  \E job \in AccountJob :
               job.op = req[r].op /\ job.pc = pc /\ req' = [req EXCEPT ![r] = job]
  <2>1. req[r] \in {IdleJob} \cup AccountJob BY <1>1
  <2>2. req' = [req EXCEPT ![r] = [req[r] EXCEPT !.pc = pc]] BY <1>4, <1>1 DEF Goto
  <2>3. [req[r] EXCEPT !.pc = pc].op = req[r].op /\ [req[r] EXCEPT !.pc = pc].pc = pc
    BY <2>1 DEF AccountJob, IdleJob
  <2> QED BY <1>4, <2>2, <2>3
<1>5. CASE SignUp(r)
  <2> DEFINE job == [op |-> "signUp", pc |-> "write"]
  <2>1. job \in AccountJob /\ job.op = "signUp" BY DEF AccountJob
  <2>2. req' = [req EXCEPT ![r] = job] BY <1>5 DEF SignUp, Start
  <2> HIDE DEF job
  <2>3. UNCHANGED accountVars BY <1>5 DEF SignUp
  <2> QED BY <1>1, <2>1, <2>2, <2>3, HandlerMoves DEF accountVars, Cached
<1>6. CASE SignUpWrite(r)
  <2>1. CASE user # None
    <3>1. user' = user /\ profile' = profile /\ cached' = cached /\ Finish(r)
      BY <1>6, <2>1 DEF SignUpWrite
    <3> QED BY <1>1, <1>2, <1>3, <3>1, HandlerMoves DEF Cached
  <2>2. CASE user = None
    <3>1. /\ user' = [names |-> Staff, deleted |-> FALSE] /\ profile' = profile
          /\ cached' = cached /\ req' = [req EXCEPT ![r] = IdleJob]
      BY <1>3, <1>6, <2>2 DEF SignUpWrite
    <3>2. user' \in UserRow /\ user'.names = Staff /\ profile = None
      BY <1>1, <2>2, <3>1 DEF UserRow
    <3>8. user' # None BY <3>2, AccountsOK
    <3>3. /\ req'[r] = IdleJob /\ \A q \in Requests \ {r} : req'[q] = req[q]
          /\ req' \in [Requests -> {IdleJob} \cup AccountJob]
      BY <1>1, <3>1
    <3>4. AccountsTypeOK' BY <1>1, <1>2, <3>1, <3>2, <3>3 DEF AccountsTypeOK, Locks
    <3>5. UserStays' BY <3>8 DEF UserStays
    <3>6. CommitsAlone' BY <3>1, <3>2 DEF CommitsAlone
    <3>7. OnboardedWhole' BY <3>1, <3>2, AccountsOK DEF OnboardedWhole
    <3> QED BY <3>4, <3>5, <3>6, <3>7 DEF AccountsInv
  <2> QED BY <2>1, <2>2
<1>7. ASSUME NEW op \in Cached, FindUser(r, op) PROVE AccountsInv'
  <2> DEFINE job == [op |-> op, pc |-> IF cached THEN "write" ELSE "query"]
  <2>1. job \in AccountJob /\ job.op = op BY DEF AccountJob
  <2>2. req' = [req EXCEPT ![r] = job] BY <1>7 DEF FindUser, Start
  <2> HIDE DEF job
  <2>3. UNCHANGED accountVars /\ user # None BY <1>7 DEF FindUser
  <2> QED BY <1>1, <2>1, <2>2, <2>3, HandlerMoves DEF accountVars, Cached
<1>8. CASE QueryUser(r)
  <2>1. req[r].pc = "query" /\ UNCHANGED accountVars BY <1>8 DEF QueryUser
  <2>2. req[r].op \in Cached /\ [req[r] EXCEPT !.pc = "set"] \in AccountJob
    BY <1>1, <1>2, <2>1 DEF AccountJob
  <2>3. CASE Finish(r)
    BY <1>1, <1>2, <1>3, <2>1, <2>3, HandlerMoves DEF accountVars, Cached
  <2>4. CASE Goto(r, "set")
    <3>1. PICK job \in AccountJob :
            job.op = req[r].op /\ job.pc = "set" /\ req' = [req EXCEPT ![r] = job]
      BY <1>4, <2>2, <2>4
    <3> QED BY <1>1, <2>1, <2>2, <3>1, HandlerMoves DEF accountVars, Cached
  <2> QED BY <1>8, <2>3, <2>4 DEF QueryUser
<1>9. CASE CacheUser(r)
  <2>1. /\ req[r].pc = "set" /\ user' = user /\ profile' = profile /\ cached' = TRUE
        /\ Goto(r, "write")
    BY <1>9 DEF CacheUser
  <2>2. req[r].op \in Cached /\ [req[r] EXCEPT !.pc = "write"] \in AccountJob
    BY <1>1, <1>2, <2>1 DEF AccountJob
  <2>3. PICK job \in AccountJob :
          job.op = req[r].op /\ job.pc = "write" /\ req' = [req EXCEPT ![r] = job]
    BY <1>4, <2>1, <2>2
  <2> QED BY <1>1, <2>1, <2>2, <2>3, HandlerMoves DEF Cached
<1>10. CASE UpdateUser(r) \/ RemoveUser(r)
  <2>1. /\ req[r].op \in {"update", "remove"} /\ req[r].pc = "write" /\ RowFree
        /\ Goto(r, "del") /\ UNCHANGED <<profile, cached>>
    BY <1>10 DEF UpdateUser, RemoveUser, Doing
  <2>2. user \in UserRow /\ user # None BY <1>1, <2>1 DEF Cached
  <2>3. user' \in UserRow /\ user'.names \in {Staff, user.names}
    <3>1. CASE UpdateUser(r) BY <2>2, <3>1 DEF UpdateUser, UserRow
    <3>2. CASE RemoveUser(r) BY <2>2, <3>2 DEF RemoveUser, UserRow
    <3> QED BY <1>10, <3>1, <3>2
  <2>4. [req[r] EXCEPT !.pc = "del"] \in AccountJob
    BY <1>1, <1>2, <2>1 DEF AccountJob, Cached
  <2>5. PICK job \in AccountJob :
          job.op = req[r].op /\ job.pc = "del" /\ req' = [req EXCEPT ![r] = job]
    BY <1>4, <2>1, <2>4
  <2>6. /\ req'[r] = job /\ \A q \in Requests \ {r} : req'[q] = req[q]
        /\ req' \in [Requests -> {IdleJob} \cup AccountJob]
        /\ job.op # "onboard" /\ user' # None
    BY <1>1, <2>1, <2>3, <2>5, AccountsOK
  <2>7. AccountsTypeOK' BY <1>1, <2>1, <2>3, <2>6 DEF AccountsTypeOK, Locks
  <2>8. UserStays' BY <2>6 DEF UserStays
  <2>9. CommitsAlone' BY <1>1, <2>1, <2>6 DEF CommitsAlone, Doing
  <2>10. OnboardedWhole' BY <1>1, <2>1, <2>2, <2>3 DEF OnboardedWhole
  <2> QED BY <2>7, <2>8, <2>9, <2>10 DEF AccountsInv
<1>11. CASE Uncache(r)
  BY <1>1, <1>2, <1>3, <1>11, HandlerMoves DEF Uncache, Cached
<1>12. CASE AddProfile(r)
  <2>1. /\ req[r].op = "addProfile" /\ UNCHANGED <<user, cached>>
        /\ ~\E q \in Requests : Doing(q, "onboard", "commit")
        /\ profile' = IF profile = None THEN Staff ELSE profile
        /\ req' = [req EXCEPT ![r] = IdleJob]
    BY <1>3, <1>12 DEF AddProfile, Doing
  <2>2. user # None /\ user \in UserRow BY <1>1, <2>1 DEF Cached
  <2>3. /\ req'[r] = IdleJob /\ \A q \in Requests \ {r} : req'[q] = req[q]
        /\ req' \in [Requests -> {IdleJob} \cup AccountJob]
    BY <1>1, <2>1
  <2>4. AccountsTypeOK' BY <1>1, <1>2, <2>1, <2>3 DEF AccountsTypeOK, Locks
  <2>5. UserStays' BY <2>1, <2>2 DEF UserStays
  <2>6. CommitsAlone' BY <1>2, <2>1, <2>3 DEF CommitsAlone, Doing
  <2>7. OnboardedWhole'
    <3>1. CASE profile = None
      <4>1. user.names = Staff
        <5>1. user.names \in Requests \cup {Staff} BY <2>2 DEF UserRow
        <5> QED BY <1>1, <2>2, <3>1, <5>1, AccountsOK DEF OnboardedWhole
      <4> QED BY <2>1, <3>1, <4>1 DEF OnboardedWhole
    <3>2. CASE profile # None BY <1>1, <2>1, <3>2 DEF OnboardedWhole
    <3> QED BY <3>1, <3>2
  <2> QED BY <2>4, <2>5, <2>6, <2>7 DEF AccountsInv
<1>13. CASE Onboard(r)
  <2> DEFINE job == [op |-> "onboard", pc |-> "name"]
  <2>1. job \in AccountJob /\ job.op = "onboard" /\ job.pc = "name" BY DEF AccountJob
  <2>2. req' = [req EXCEPT ![r] = job] BY <1>13 DEF Onboard, Start
  <2> HIDE DEF job
  <2>3. UNCHANGED accountVars /\ user # None BY <1>13 DEF Onboard
  <2> QED BY <1>1, <2>1, <2>2, <2>3, HandlerMoves DEF accountVars
<1>14. CASE OnboardName(r)
  <2>1. /\ req[r].op = "onboard" /\ req[r].pc = "name" /\ UNCHANGED accountVars
        /\ Goto(r, "profile") /\ RowFree
    BY <1>14 DEF OnboardName, Doing
  <2>2. [req[r] EXCEPT !.pc = "profile"] \in AccountJob
    BY <1>1, <1>2, <2>1 DEF AccountJob, Cached
  <2>3. PICK job \in AccountJob :
          job.op = req[r].op /\ job.pc = "profile" /\ req' = [req EXCEPT ![r] = job]
    BY <1>4, <2>1, <2>2
  <2> QED BY <1>1, <2>1, <2>3, HandlerMoves DEF accountVars
<1>15. CASE OnboardProfile(r)
  <2>1. /\ req[r].op = "onboard" /\ req[r].pc = "profile" /\ UNCHANGED accountVars
        /\ Locks(r)
    BY <1>15 DEF OnboardProfile, Doing, Locks
  <2>2. CASE profile = None
    <3>1. [req[r] EXCEPT !.pc = "commit"] \in AccountJob /\ Goto(r, "commit")
      BY <1>1, <1>2, <1>15, <2>1, <2>2 DEF AccountJob, Cached, OnboardProfile
    <3>2. PICK job \in AccountJob :
            job.op = req[r].op /\ job.pc = "commit" /\ req' = [req EXCEPT ![r] = job]
      BY <1>4, <3>1
    <3> QED BY <1>1, <2>1, <2>2, <3>2, HandlerMoves DEF accountVars
  <2>3. CASE profile # None
    BY <1>1, <1>2, <1>3, <1>15, <2>1, <2>3, HandlerMoves
    DEF accountVars, OnboardProfile, Cached
  <2> QED BY <2>2, <2>3
<1>16. CASE OnboardCommit(r)
  <2>1. /\ req[r].op = "onboard" /\ req[r].pc = "commit" /\ cached' = cached
        /\ user' = [user EXCEPT !.names = r] /\ profile' = r
        /\ req' = [req EXCEPT ![r] = IdleJob]
    BY <1>3, <1>16 DEF OnboardCommit, Doing
  <2>2. user \in UserRow /\ user' \in UserRow /\ user'.names = r /\ user' # None
    <3>1. user \in UserRow BY <1>1, <2>1
    <3>2. user' \in UserRow /\ user'.names = r BY <2>1, <3>1 DEF UserRow
    <3> QED BY <3>1, <3>2, AccountsOK
  <2>3. /\ req'[r] = IdleJob /\ \A q \in Requests \ {r} : req'[q] = req[q]
        /\ req' \in [Requests -> {IdleJob} \cup AccountJob]
    BY <1>1, <2>1
  <2>4. AccountsTypeOK' BY <1>1, <1>2, <2>1, <2>2, <2>3 DEF AccountsTypeOK, Locks
  <2>5. UserStays' BY <2>2 DEF UserStays
  <2>6. CommitsAlone' BY <1>1, <1>2, <2>1, <2>3 DEF CommitsAlone, Doing, Locks
  <2>7. OnboardedWhole' BY <2>1, <2>2 DEF OnboardedWhole
  <2> QED BY <2>4, <2>5, <2>6, <2>7 DEF AccountsInv
<1>17. CASE AccountFail(r)
  BY <1>1, <1>2, <1>3, <1>17, HandlerMoves DEF AccountFail, accountVars, Cached
<1> QED BY <1>5, <1>6, <1>7, <1>8, <1>9, <1>10, <1>11, <1>12, <1>13, <1>14, <1>15, <1>16, <1>17
        DEF AccountStep

(* The accounts' invariant is inductive. *)
LEMMA AccountsInductive ==
  /\ AccountsInit => AccountsInv
  /\ AccountsInv /\ [AccountsNext]_<<req, accountVars>> => AccountsInv'
<1>1. ASSUME AccountsInit PROVE AccountsInv
  <2>1. /\ req \in [Requests -> {IdleJob} \cup AccountJob]
        /\ \A r \in Requests : req[r].op = "none"
        /\ user = None /\ profile = None /\ cached = FALSE
    BY <1>1 DEF AccountsInit, IdleJob
  <2>2. AccountsTypeOK BY <2>1 DEF AccountsTypeOK, Locks
  <2>3. UserStays /\ CommitsAlone BY <2>1 DEF UserStays, CommitsAlone, Cached, Doing
  <2>4. OnboardedWhole BY <2>1, AccountsOK DEF OnboardedWhole
  <2> QED BY <2>2, <2>3, <2>4 DEF AccountsInv
<1>2. ASSUME AccountsInv, UserExpires \/ UNCHANGED <<req, accountVars>> PROVE AccountsInv'
  <2>1. user' = user /\ profile' = profile /\ req' = req /\ cached' \in BOOLEAN
    BY <1>2, AccountsFacts DEF UserExpires, accountVars
  <2> QED BY <1>2, <2>1
          DEF AccountsInv, AccountsTypeOK, UserStays, CommitsAlone, OnboardedWhole, Locks, Doing
<1> QED BY <1>1, <1>2, AccountsSteps DEF AccountsNext

(* A client is onboarded once and whole: the name an onboarding wrote came  *)
(* with its profile, and one that fails leaves nothing behind.              *)
THEOREM OnboardingIsWhole == AccountsSpec => []OnboardedWhole
<1>1. AccountsInv => OnboardedWhole BY DEF AccountsInv
<1> QED BY <1>1, AccountsInductive, PTL DEF AccountsSpec

-----------------------------------------------------------------------------
(****************************************************************************)
(* The views.  At each moment of a call the noted truths hold the present   *)
(* one; after its first query, what was read is of the facts as they are or *)
(* as they were before the one write since; and with no write since the     *)
(* list was called, every answer is the truth of the present facts.         *)
(****************************************************************************)
OfCase(now) == now \cap {"case", "assigned"}

ReadAsOf(now) ==
  IF BasisFirst(visit.reader, visit.pc) THEN visit.basis = OfCase(now) ELSE visit.row = now

Flipped(f) == (facts \ {f}) \cup ({f} \ facts)

VisitHeld ==
  visit.pc # "none" =>
    /\ visit.reader = "client" => kind \in {"case", "document", "event", "invoice"}
    /\ visit.left > 0 => Truth(visit.reader, visit.pc, facts) \in visit.truths
    /\ visit.left = 1 /\ visit.changes = 0 => ReadAsOf(facts)
    /\ visit.left = 1 /\ visit.changes = 1 =>
         \E f \in FactsOf(kind) :
            /\ ReadAsOf(Flipped(f))
            /\ Truth(visit.reader, visit.pc, Flipped(f)) \in visit.truths
    /\ visit.left = 2 => visit.changes = 0
    /\ visit.left > 0 /\ ~visit.stale => visit.changes = 0
    /\ visit.left = 0 /\ ~visit.stale =>
         visit.answer = Truth(visit.reader, visit.pc, facts)
    /\ visit.pc = "detail" /\ ~visit.stale => Truth(visit.reader, "list", facts)

ViewsInv == ViewsTypeOK /\ VisitHeld /\ AnswersAsOfOneMoment /\ ListedOpens

(* The endpoints that a reader has of this kind of row. *)
HasEndpoint(reader) ==
  /\ kind \in RowKinds /\ reader \in Readers
  /\ reader = "client" => kind \in {"case", "document", "event", "invoice"}


Ends == {"list", "detail"}

LEMMA SeesIsBoolean ==
  ASSUME NEW reader \in Readers, NEW end \in Ends, NEW now, NEW basis, HasEndpoint(reader)
  PROVE  Sees(reader, end, now, basis) \in BOOLEAN
<1>1. /\ PortalCaseListed(now, basis) \in BOOLEAN
      /\ PortalCaseFound(now, basis) \in BOOLEAN
      /\ PortalDocumentListed(now, basis) \in BOOLEAN
      /\ PortalDocumentFound(now, basis) \in BOOLEAN
      /\ PortalEventListed(now, basis) \in BOOLEAN
      /\ PortalEventFound(now, basis) \in BOOLEAN
      /\ PortalInvoiceListed(now, basis) \in BOOLEAN
      /\ PortalInvoiceFound(now, basis) \in BOOLEAN
      /\ CaseListed(now, basis) \in BOOLEAN
      /\ CaseFound(now, basis) \in BOOLEAN
      /\ DocumentListed(now, basis) \in BOOLEAN
      /\ DocumentFound(now, basis) \in BOOLEAN
      /\ EventListed(now, basis) \in BOOLEAN
      /\ EventFound(now, basis) \in BOOLEAN
      /\ InvoiceListed(now, basis) \in BOOLEAN
      /\ InvoiceFound(now, basis) \in BOOLEAN
      /\ ExpenseListed(now, basis) \in BOOLEAN
      /\ ExpenseFound(now, basis) \in BOOLEAN
      /\ TimeListed(now, basis) \in BOOLEAN
      /\ TimeFound(now, basis) \in BOOLEAN
      /\ LeadListed(now, basis) \in BOOLEAN
      /\ LeadFound(now, basis) \in BOOLEAN
  <2>1. PortalCaseListed(now, basis) \in BOOLEAN /\ PortalCaseFound(now, basis) \in BOOLEAN
    BY DEF PortalCaseListed, PortalCaseFound
  <2>2. PortalDocumentListed(now, basis) \in BOOLEAN /\ PortalDocumentFound(now, basis) \in BOOLEAN
    BY DEF PortalDocumentListed, PortalDocumentFound
  <2>3. PortalEventListed(now, basis) \in BOOLEAN /\ PortalEventFound(now, basis) \in BOOLEAN
    BY DEF PortalEventListed, PortalEventFound
  <2>4. PortalInvoiceListed(now, basis) \in BOOLEAN /\ PortalInvoiceFound(now, basis) \in BOOLEAN
    BY DEF PortalInvoiceListed, PortalInvoiceFound
  <2>5. CaseListed(now, basis) \in BOOLEAN /\ CaseFound(now, basis) \in BOOLEAN
    BY DEF CaseListed, CaseFound
  <2>6. DocumentListed(now, basis) \in BOOLEAN /\ DocumentFound(now, basis) \in BOOLEAN
    BY DEF DocumentListed, DocumentFound
  <2>7. EventListed(now, basis) \in BOOLEAN /\ EventFound(now, basis) \in BOOLEAN
    BY DEF EventListed, EventFound
  <2>8. InvoiceListed(now, basis) \in BOOLEAN /\ InvoiceFound(now, basis) \in BOOLEAN
    BY DEF InvoiceListed, InvoiceFound
  <2>9. ExpenseListed(now, basis) \in BOOLEAN /\ ExpenseFound(now, basis) \in BOOLEAN
    BY DEF ExpenseListed, ExpenseFound
  <2>10. TimeListed(now, basis) \in BOOLEAN /\ TimeFound(now, basis) \in BOOLEAN
    BY DEF TimeListed, TimeFound
  <2>11. LeadListed(now, basis) \in BOOLEAN /\ LeadFound(now, basis) \in BOOLEAN
    BY DEF LeadListed, LeadFound
  <2> QED BY <2>1, <2>2, <2>3, <2>4, <2>5, <2>6, <2>7, <2>8, <2>9, <2>10, <2>11
<1>2. CASE reader = "client" /\ end = "list"
  BY <1>1, <1>2 DEF Sees, HasEndpoint
<1>3. CASE reader = "client" /\ end = "detail"
  BY <1>1, <1>3 DEF Sees, HasEndpoint
<1>4. CASE reader = "lawyer" /\ end = "list"
  BY <1>1, <1>4 DEF Sees, HasEndpoint, RowKinds
<1>5. CASE reader = "lawyer" /\ end = "detail"
  BY <1>1, <1>5 DEF Sees, HasEndpoint, RowKinds
<1> QED BY <1>2, <1>3, <1>4, <1>5 DEF Readers, Ends

(* One write: one fact begins or ceases to hold. *)
OneWrite(f, before, after) == after = (before \ {f}) \cup ({f} \ before)

(* A row and its basis read on both sides of one write answer as one side.  *)
LEMMA OneWriteBetween ==
  ASSUME NEW reader \in Readers, NEW end \in Ends, HasEndpoint(reader),
         NEW f, NEW before, NEW after, OneWrite(f, before, after)
  PROVE  \/ Sees(reader, end, before, OfCase(after)) = Truth(reader, end, before)
         \/ Sees(reader, end, before, OfCase(after)) = Truth(reader, end, after)
BY DEF OneWrite, Truth, OfCase, Sees, HasEndpoint, Readers, RowKinds, Ends, PortalCaseListed, PortalCaseFound,
       PortalDocumentListed, PortalDocumentFound, PortalEventListed, PortalEventFound,
       PortalInvoiceListed, PortalInvoiceFound, CaseListed, CaseFound, DocumentListed,
       DocumentFound, EventListed, EventFound, InvoiceListed, InvoiceFound,
       ExpenseListed, ExpenseFound, TimeListed, TimeFound, LeadListed, LeadFound

(* What is listed is found, but for the two endpoints that break it. *)
LEMMA ListedIsFound ==
  ASSUME NEW reader \in Readers, HasEndpoint(reader), NEW now, 
         Truth(reader, "list", now), ~Truth(reader, "detail", now)
  PROVE  \/ reader = "client" /\ kind = "case"
         \/ reader = "lawyer" /\ kind = "document" /\ "linked" \in now
                               /\ "assigned" \notin now
BY DEF Truth, OfCase, Sees, HasEndpoint, Readers, RowKinds, Ends, PortalCaseListed, PortalCaseFound,
       PortalDocumentListed, PortalDocumentFound, PortalEventListed, PortalEventFound,
       PortalInvoiceListed, PortalInvoiceFound, CaseListed, CaseFound, DocumentListed,
       DocumentFound, EventListed, EventFound, InvoiceListed, InvoiceFound,
       ExpenseListed, ExpenseFound, TimeListed, TimeFound, LeadListed, LeadFound

(* A visit in progress. *)
LEMMA VisitFacts ==
  ASSUME ViewsInv
  PROVE  /\ kind \in RowKinds /\ facts \subseteq FactsOf(kind)
         /\ visit \in Visit \cup {NoVisit}
         /\ visit.pc # "none" =>
              /\ visit \in Visit /\ HasEndpoint(visit.reader)
              /\ visit.reader \in Readers /\ visit.pc \in Ends
              /\ visit.row \subseteq FactsOf(kind)
         /\ VisitHeld /\ AnswersAsOfOneMoment /\ ListedOpens
<1>1. ViewsTypeOK /\ VisitHeld /\ AnswersAsOfOneMoment /\ ListedOpens BY DEF ViewsInv
<1>2. visit.pc # "none" => visit \in Visit BY <1>1 DEF ViewsTypeOK, NoVisit
<1>3. visit.pc # "none" => visit.reader \in Readers /\ visit.pc \in Ends
  BY <1>2 DEF Visit, Ends
<1> QED BY <1>1, <1>2, <1>3 DEF ViewsTypeOK, VisitHeld, HasEndpoint

LEMMA TruthIsBoolean ==
  ASSUME NEW reader \in Readers, NEW end \in Ends, NEW now, HasEndpoint(reader)
  PROVE  Truth(reader, end, now) \in BOOLEAN
BY SeesIsBoolean DEF Truth

(* A call that begins. *)
LEMMA CalledKeeps ==
  ASSUME ViewsInv, NEW reader \in Readers, NEW end \in Ends, NEW stale \in BOOLEAN,
         HasEndpoint(reader), visit' = Called(reader, end, stale), UNCHANGED <<kind, facts>>,
         end = "detail" /\ ~stale => Truth(reader, "list", facts)
  PROVE  ViewsInv'
<1> DEFINE new == Called(reader, end, stale)
<1>1. kind \in RowKinds /\ facts \subseteq FactsOf(kind) BY VisitFacts
<1>2. /\ new \in Visit /\ new.pc = end /\ new.pc # "none" /\ new.reader = reader /\ new.left = 2
      /\ new.row = {} /\ new.changes = 0 /\ new.stale = stale
      /\ new.truths = {Truth(reader, end, facts)}
  <2>1. {Truth(reader, end, facts)} \subseteq BOOLEAN BY TruthIsBoolean
  <2> QED BY <2>1 DEF Called, Visit, Ends
<1>3. Truth(reader, end, facts) \in new.truths BY <1>2
<1> HIDE DEF new
<1>4. visit' = new /\ UNCHANGED <<kind, facts>> BY DEF new
<1>5. ViewsTypeOK' BY <1>1, <1>2, <1>4 DEF ViewsTypeOK
<1>6. VisitHeld'
  <2>1. Truth(reader, end, facts)' = Truth(reader, end, facts)
        /\ Truth(reader, "list", facts)' = Truth(reader, "list", facts)
    BY DEF Truth, Sees
  <2> QED BY <1>2, <1>3, <1>4, <2>1 DEF VisitHeld, HasEndpoint
<1>7. AnswersAsOfOneMoment' BY <1>2, <1>4 DEF AnswersAsOfOneMoment
<1>8. ListedOpens' BY <1>2, <1>4 DEF ListedOpens, Answered
<1> QED BY <1>5, <1>6, <1>7, <1>8 DEF ViewsInv

LEMMA OpenKeeps ==
  ASSUME ViewsInv, (\E reader \in Readers : OpenList(reader)) \/ OpenDetail
  PROVE  ViewsInv'
<1>1. ASSUME NEW reader \in Readers, OpenList(reader) PROVE ViewsInv'
  BY <1>1, CalledKeeps, VisitFacts DEF OpenList, HasEndpoint, Ends
<1>2. CASE OpenDetail
  <2>1. /\ visit \in Visit /\ HasEndpoint(visit.reader) /\ visit.reader \in Readers /\ VisitHeld
        /\ visit.stale \in BOOLEAN
    BY <1>2, VisitFacts DEF OpenDetail, Visit
  <2>2. ~visit.stale => Truth(visit.reader, "list", facts)
    BY <1>2, <2>1 DEF OpenDetail, VisitHeld
  <2> QED BY <1>2, <2>1, <2>2, CalledKeeps DEF OpenDetail, Ends
<1> QED BY <1>1, <1>2

LEMMA FirstQueryKeeps ==
  ASSUME ViewsInv, FirstQuery
  PROVE  ViewsInv'
<1>1. /\ kind \in RowKinds /\ facts \subseteq FactsOf(kind)
      /\ visit \in Visit /\ HasEndpoint(visit.reader)
      /\ visit.row \subseteq FactsOf(kind) /\ visit.pc # "none" /\ visit.left = 2
      /\ VisitHeld /\ UNCHANGED <<kind, facts>>
  BY VisitFacts DEF FirstQuery
<1>2. /\ visit' \in Visit /\ visit'.left = 1 /\ visit'.changes = visit.changes
      /\ visit'.pc = visit.pc /\ visit'.reader = visit.reader
      /\ visit'.truths = visit.truths /\ visit'.stale = visit.stale
      /\ visit'.row \subseteq FactsOf(kind)
      /\ IF BasisFirst(visit.reader, visit.pc)
         THEN visit'.basis = OfCase(facts) ELSE visit'.row = facts
  <2>1. CASE BasisFirst(visit.reader, visit.pc)
    <3>1. visit' = [visit EXCEPT !.left = 1, !.basis = OfCase(facts)]
      BY <2>1 DEF FirstQuery, OfCase
    <3>2. OfCase(facts) \in SUBSET {"case", "assigned"} BY DEF OfCase
    <3> QED BY <1>1, <2>1, <3>1, <3>2 DEF Visit
  <2>2. CASE ~BasisFirst(visit.reader, visit.pc)
    <3>1. visit' = [visit EXCEPT !.left = 1, !.row = facts]
      BY <2>2 DEF FirstQuery
    <3>2. facts \in SUBSET UNION {FactsOf(k) : k \in RowKinds} BY <1>1
    <3> QED BY <1>1, <2>2, <3>1, <3>2 DEF Visit
  <2> QED BY <2>1, <2>2
<1>3. BasisFirst(visit.reader, visit.pc)' = BasisFirst(visit.reader, visit.pc)
  BY <1>1, <1>2 DEF BasisFirst
<1>4. /\ visit.changes = 0 /\ Truth(visit.reader, visit.pc, facts) \in visit.truths
      /\ visit.reader = "client" => kind \in {"case", "document", "event", "invoice"}
      /\ visit.pc = "detail" /\ ~visit.stale => Truth(visit.reader, "list", facts)
  BY <1>1 DEF VisitHeld
<1>5. ViewsTypeOK' BY <1>1, <1>2 DEF ViewsTypeOK
<1>6. VisitHeld'
  <2>1. (Truth(visit.reader, visit.pc, facts) \in visit.truths)'
    BY <1>1, <1>2, <1>4 DEF Truth, Sees
  <2>2. (visit.pc = "detail" /\ ~visit.stale => Truth(visit.reader, "list", facts))'
    BY <1>1, <1>2, <1>4 DEF Truth, Sees
  <2>3. ReadAsOf(facts)' BY <1>1, <1>2, <1>3 DEF ReadAsOf, OfCase
  <2> QED BY <1>1, <1>2, <1>4, <2>1, <2>2, <2>3 DEF VisitHeld
<1>7. AnswersAsOfOneMoment' BY <1>2 DEF AnswersAsOfOneMoment
<1>8. ListedOpens' BY <1>2 DEF ListedOpens, Answered
<1> QED BY <1>5, <1>6, <1>7, <1>8 DEF ViewsInv

(* What the second query answers: with no write since the first, the truth; *)
(* with one, the truth before it or after it.                               *)
LEMMA SecondQueryAnswers ==
  ASSUME ViewsInv, visit.pc # "none", visit.left = 1, NEW rowRead, NEW basis,
         rowRead = IF BasisFirst(visit.reader, visit.pc) THEN facts ELSE visit.row,
         basis = IF BasisFirst(visit.reader, visit.pc) THEN visit.basis
                 ELSE facts \cap {"case", "assigned"}
  PROVE  /\ visit.changes = 0 =>
              Sees(visit.reader, visit.pc, rowRead, basis) = Truth(visit.reader, visit.pc, facts)
         /\ visit.changes = 1 => Sees(visit.reader, visit.pc, rowRead, basis) \in visit.truths
<1>1. /\ visit \in Visit /\ HasEndpoint(visit.reader) /\ visit.reader \in Readers
      /\ visit.pc \in Ends /\ VisitHeld
  BY VisitFacts
<1>2. CASE visit.changes = 0
  <2>1. ReadAsOf(facts) BY <1>1, <1>2 DEF VisitHeld
  <2> QED BY <1>2, <2>1 DEF ReadAsOf, OfCase, Truth
<1>3. CASE visit.changes = 1
  <2>1. PICK f \in FactsOf(kind) :
          /\ ReadAsOf(Flipped(f))
          /\ Truth(visit.reader, visit.pc, Flipped(f)) \in visit.truths
    BY <1>1, <1>3 DEF VisitHeld
  <2>2. Truth(visit.reader, visit.pc, facts) \in visit.truths BY <1>1 DEF VisitHeld
  <2>3. PICK now : now = Flipped(f) OBVIOUS
  <2>4. OneWrite(f, facts, now) /\ OneWrite(f, now, facts)
    BY <2>3 DEF Flipped, OneWrite
  <2>5. CASE BasisFirst(visit.reader, visit.pc)
    <3>1. rowRead = facts /\ basis = OfCase(now) BY <2>1, <2>3, <2>5 DEF ReadAsOf
    <3>2. \/ Sees(visit.reader, visit.pc, facts, OfCase(now)) = Truth(visit.reader, visit.pc, facts)
          \/ Sees(visit.reader, visit.pc, facts, OfCase(now)) = Truth(visit.reader, visit.pc, now)
      BY <1>1, <2>4, OneWriteBetween
    <3> QED BY <1>3, <2>1, <2>2, <2>3, <3>1, <3>2
  <2>6. CASE ~BasisFirst(visit.reader, visit.pc)
    <3>1. rowRead = now /\ basis = OfCase(facts) BY <2>1, <2>3, <2>6 DEF ReadAsOf, OfCase
    <3>2. \/ Sees(visit.reader, visit.pc, now, OfCase(facts)) = Truth(visit.reader, visit.pc, now)
          \/ Sees(visit.reader, visit.pc, now, OfCase(facts)) = Truth(visit.reader, visit.pc, facts)
      BY <1>1, <2>4, OneWriteBetween
    <3> QED BY <1>3, <2>1, <2>2, <2>3, <3>1, <3>2
  <2> QED BY <2>5, <2>6
<1> QED BY <1>2, <1>3

LEMMA SecondQueryKeeps ==
  ASSUME ViewsInv, SecondQuery
  PROVE  ViewsInv'
<1>1. /\ kind \in RowKinds /\ facts \subseteq FactsOf(kind)
      /\ visit \in Visit /\ HasEndpoint(visit.reader) /\ visit.reader \in Readers
      /\ visit.pc \in Ends /\ visit.pc # "none" /\ visit.left = 1
      /\ VisitHeld /\ UNCHANGED <<kind, facts>>
  BY VisitFacts DEF SecondQuery
<1>2. PICK rowRead, basis :
        /\ rowRead = IF BasisFirst(visit.reader, visit.pc) THEN facts ELSE visit.row
        /\ basis = IF BasisFirst(visit.reader, visit.pc) THEN visit.basis
                   ELSE facts \cap {"case", "assigned"}
        /\ visit' = [visit EXCEPT !.left = 0, !.row = {}, !.basis = basis,
                                  !.answer = Sees(visit.reader, visit.pc, rowRead, basis)]
  BY DEF SecondQuery
<1>3. PICK answer : answer = Sees(visit.reader, visit.pc, rowRead, basis) OBVIOUS
<1>4. answer \in BOOLEAN BY <1>1, <1>3, SeesIsBoolean
<1>5. basis \in SUBSET {"case", "assigned"} BY <1>1, <1>2 DEF Visit
<1>6. /\ visit' \in Visit /\ visit'.left = 0 /\ visit'.changes = visit.changes
      /\ visit'.pc = visit.pc /\ visit'.reader = visit.reader
      /\ visit'.truths = visit.truths /\ visit'.stale = visit.stale
      /\ visit'.row = {} /\ visit'.answer = answer
  BY <1>1, <1>2, <1>3, <1>4, <1>5 DEF Visit
<1>7. /\ visit.changes = 0 => answer = Truth(visit.reader, visit.pc, facts)
      /\ visit.changes = 1 => answer \in visit.truths
  BY <1>1, <1>2, <1>3, SecondQueryAnswers
<1>8. /\ Truth(visit.reader, visit.pc, facts) \in visit.truths
      /\ visit.reader = "client" => kind \in {"case", "document", "event", "invoice"}
      /\ ~visit.stale => visit.changes = 0
      /\ visit.pc = "detail" /\ ~visit.stale => Truth(visit.reader, "list", facts)
  BY <1>1 DEF VisitHeld
<1>9. ViewsTypeOK' BY <1>1, <1>6 DEF ViewsTypeOK
<1>10. VisitHeld'
  <2>1. (visit.left = 0 /\ ~visit.stale =>
           visit.answer = Truth(visit.reader, visit.pc, facts))'
    BY <1>1, <1>6, <1>7, <1>8 DEF Truth, Sees
  <2>2. (visit.pc = "detail" /\ ~visit.stale => Truth(visit.reader, "list", facts))'
    BY <1>1, <1>6, <1>8 DEF Truth, Sees
  <2> QED BY <1>1, <1>6, <1>8, <2>1, <2>2 DEF VisitHeld
<1>11. AnswersAsOfOneMoment'
  <2>1. visit.changes \in 0..2 BY <1>1 DEF Visit
  <2>2. visit.changes < 2 => answer \in visit.truths BY <1>7, <1>8, <2>1
  <2> QED BY <1>6, <2>2 DEF AnswersAsOfOneMoment
<1>12. ListedOpens'
  <2>1. ASSUME visit.pc = "detail", ~answer, ~visit.stale
        PROVE  \/ visit.reader = "client" /\ kind = "case"
               \/ visit.reader = "lawyer" /\ kind = "document" /\ "linked" \in facts
                                          /\ "assigned" \notin facts
    <3>1. Truth(visit.reader, "list", facts) /\ ~Truth(visit.reader, "detail", facts)
      BY <1>7, <1>8, <2>1
    <3> QED BY <1>1, <3>1, ListedIsFound
  <2> QED BY <1>1, <1>6, <2>1 DEF ListedOpens, Answered
<1> QED BY <1>9, <1>10, <1>11, <1>12 DEF ViewsInv

LEMMA LeaveKeeps ==
  ASSUME ViewsInv, Leave
  PROVE  ViewsInv'
<1>1. visit' = NoVisit /\ UNCHANGED <<kind, facts>> /\ NoVisit.pc = "none"
  BY DEF Leave, NoVisit
<1> QED BY <1>1, VisitFacts
        DEF ViewsInv, ViewsTypeOK, VisitHeld, AnswersAsOfOneMoment, ListedOpens, Answered

(* A write changes one fact. *)
LEMMA HappensKeeps ==
  ASSUME ViewsInv, NEW f \in FactsOf(kind), NEW now, now = Flipped(f), Happens(now)
  PROVE  ViewsInv'
<1>1. /\ kind \in RowKinds /\ facts \subseteq FactsOf(kind)
      /\ visit \in Visit \cup {NoVisit}
      /\ visit.pc # "none" =>
              /\ visit \in Visit /\ HasEndpoint(visit.reader)
              /\ visit.reader \in Readers /\ visit.pc \in Ends
              /\ visit.row \subseteq FactsOf(kind)
      /\ VisitHeld /\ AnswersAsOfOneMoment
  BY VisitFacts
<1>2. facts' = now /\ kind' = kind /\ now \subseteq FactsOf(kind)
  BY <1>1 DEF Happens, Flipped
<1>3. CASE visit.pc = "none"
  <2>1. visit' = visit BY <1>3 DEF Happens
  <2> QED BY <1>1, <1>2, <1>3, <2>1
          DEF ViewsInv, ViewsTypeOK, VisitHeld, AnswersAsOfOneMoment, ListedOpens, Answered
<1>4. CASE visit.pc # "none"
  <2>1. PICK t : t = Truth(visit.reader, visit.pc, now) OBVIOUS
  <2>2. t \in BOOLEAN BY <1>1, <1>4, <2>1, TruthIsBoolean
  <2>3. visit.changes \in 0..2 /\ visit.truths \subseteq BOOLEAN /\ visit \in Visit
    BY <1>1, <1>4 DEF Visit
  <2>4. PICK n, ts :
          /\ n = IF visit.left = 1 /\ visit.changes < 2 THEN visit.changes + 1 ELSE visit.changes
          /\ ts = IF visit.left = 0 THEN visit.truths ELSE visit.truths \cup {t}
    OBVIOUS
  <2>5. n \in 0..2 /\ ts \subseteq BOOLEAN BY <2>2, <2>3, <2>4
  <2>6. visit' = [visit EXCEPT !.stale = TRUE, !.changes = n, !.truths = ts]
    BY <1>4, <2>1, <2>4 DEF Happens
  <2>7. /\ visit' \in Visit /\ visit'.left = visit.left /\ visit'.changes = n
        /\ visit'.pc = visit.pc /\ visit'.reader = visit.reader /\ visit'.row = visit.row
        /\ visit'.truths = ts /\ visit'.stale /\ visit'.answer = visit.answer
        /\ visit'.basis = visit.basis
    BY <2>3, <2>5, <2>6 DEF Visit
  <2>8. ViewsTypeOK' BY <1>1, <1>2, <1>4, <2>7 DEF ViewsTypeOK
  <2>9. VisitHeld'
    <3>1. Truth(visit.reader, visit.pc, facts)' = t
      BY <1>2, <2>1, <2>7 DEF Truth, Sees
    <3>2. (visit.left > 0 => Truth(visit.reader, visit.pc, facts) \in visit.truths)'
      BY <2>4, <2>7, <3>1, <2>3 DEF Visit
    <3>3. (visit.left = 2 => visit.changes = 0)'
      BY <1>1, <1>4, <2>4, <2>7 DEF VisitHeld
    <3>4. (~(visit.left = 1 /\ visit.changes = 0))' BY <2>3, <2>4, <2>7
    <3>5. (visit.left = 1 /\ visit.changes = 1 =>
             \E g \in FactsOf(kind) :
               /\ ReadAsOf(Flipped(g))
               /\ Truth(visit.reader, visit.pc, Flipped(g)) \in visit.truths)'
      <4>1. ASSUME visit'.left = 1, visit'.changes = 1
            PROVE  ReadAsOf(Flipped(f))' /\ (Truth(visit.reader, visit.pc, Flipped(f)) \in visit.truths)'
        <5>1. visit.left = 1 /\ visit.changes = 0 BY <2>3, <2>4, <2>7, <4>1
        <5>2. ReadAsOf(facts) /\ Truth(visit.reader, visit.pc, facts) \in ts
          BY <1>1, <1>4, <2>4, <5>1 DEF VisitHeld
        <5>3. Flipped(f)' = facts BY <1>2 DEF Flipped
        <5>4. BasisFirst(visit.reader, visit.pc)' = BasisFirst(visit.reader, visit.pc)
          BY <1>2, <2>7 DEF BasisFirst
        <5>5. ReadAsOf(Flipped(f))' BY <2>7, <5>2, <5>3, <5>4 DEF ReadAsOf, OfCase
        <5>6. (Truth(visit.reader, visit.pc, Flipped(f)))' = Truth(visit.reader, visit.pc, facts)
          BY <1>2, <2>7, <5>3 DEF Truth, Sees
        <5> QED BY <2>7, <5>2, <5>5, <5>6
      <4>2. f \in FactsOf(kind') BY <1>2
      <4> QED BY <4>1, <4>2 DEF FactsOf
    <3> QED BY <1>1, <1>2, <1>4, <2>7, <3>2, <3>3, <3>4, <3>5 DEF VisitHeld
  <2>10. AnswersAsOfOneMoment'
    BY <1>1, <1>4, <2>3, <2>4, <2>7 DEF AnswersAsOfOneMoment
  <2>11. ListedOpens' BY <2>7 DEF ListedOpens
  <2> QED BY <2>8, <2>9, <2>10, <2>11 DEF ViewsInv
<1> QED BY <1>3, <1>4

LEMMA ViewsSteps ==
  ASSUME ViewsInv, ViewsNext
  PROVE  ViewsInv'
<1>1. kind \in RowKinds /\ facts \subseteq FactsOf(kind) BY VisitFacts
<1>2. ASSUME NEW f \in FactsOf(kind), NEW now, now = Flipped(f), Happens(now)
      PROVE  ViewsInv'
  BY <1>2, HappensKeeps
<1>3. ASSUME NEW f \in facts, Happens(facts \ {f}) PROVE ViewsInv'
  <2>1. Flipped(f) = facts \ {f} BY DEF Flipped
  <2> QED BY <1>1, <1>2, <1>3, <2>1
<1>4. \A f : Toggled(f) = Flipped(f) BY DEF Toggled, Flipped
<1>5. ASSUME NEW f \in FactsOf(kind), Happens(Toggled(f)) PROVE ViewsInv'
  BY <1>2, <1>4, <1>5
<1>6. CASE (\E reader \in Readers : OpenList(reader)) \/ OpenDetail
  BY <1>6, OpenKeeps
<1>7. CASE FirstQuery BY <1>7, FirstQueryKeeps
<1>8. CASE SecondQuery BY <1>8, SecondQueryKeeps
<1>9. CASE Leave BY <1>9, LeaveKeeps
<1>10. CASE RemoveCase \/ RemoveItem \/ RemoveTimeEntry \/ RemoveExpense
            \/ UnmarkBilled \/ SendInvoice
  BY <1>3, <1>10
  DEF RemoveCase, RemoveItem, RemoveTimeEntry, RemoveExpense, UnmarkBilled, SendInvoice
<1>11. CASE ChangeTeam BY <1>5, <1>11 DEF ChangeTeam, FactsOf
<1>12. CASE ChangeDocument
  <2>1. "secret" \in FactsOf(kind) BY <1>12 DEF ChangeDocument, FactsOf
  <2> QED BY <1>5, <1>12, <2>1 DEF ChangeDocument
<1>13. CASE ChangeLink
  <2>1. "linked" \in FactsOf(kind) BY <1>13 DEF ChangeLink, FactsOf
  <2> QED BY <1>5, <1>13, <2>1 DEF ChangeLink
<1>14. CASE ChangePeople
  <2>1. kind \in {"event", "lead"} => "mine" \in FactsOf(kind) BY DEF FactsOf
  <2>2. kind = "event" => "invited" \in FactsOf(kind) BY DEF FactsOf
  <2> QED BY <1>5, <1>14, <2>1, <2>2 DEF ChangePeople
<1> QED BY <1>6, <1>7, <1>8, <1>9, <1>10, <1>11, <1>12, <1>13, <1>14 DEF ViewsNext

(* The views' invariant is inductive. *)
LEMMA ViewsInductive ==
  /\ ViewsInit => ViewsInv
  /\ ViewsInv /\ [ViewsNext]_viewVars => ViewsInv'
<1>1. ViewsInit => ViewsInv
  BY DEF ViewsInit, ViewsInv, ViewsTypeOK, VisitHeld, AnswersAsOfOneMoment, ListedOpens,
         Answered, NoVisit
<1>2. ASSUME ViewsInv, UNCHANGED viewVars PROVE ViewsInv'
  <2> USE <1>2 DEF viewVars, ViewsInv
  <2>1. ViewsTypeOK' BY DEF ViewsTypeOK
  <2>2. VisitHeld'
    <3>1. kind' = kind /\ facts' = facts /\ visit' = visit OBVIOUS
    <3>2. /\ ReadAsOf(facts)' = ReadAsOf(facts)
          /\ Truth(visit.reader, visit.pc, facts)' = Truth(visit.reader, visit.pc, facts)
          /\ Truth(visit.reader, "list", facts)' = Truth(visit.reader, "list", facts)
      BY <3>1 DEF Truth, Sees, ReadAsOf, BasisFirst, OfCase
    <3>3. ASSUME NEW f \in FactsOf(kind), ReadAsOf(Flipped(f)),
                 Truth(visit.reader, visit.pc, Flipped(f)) \in visit.truths
          PROVE  /\ f \in FactsOf(kind)' /\ ReadAsOf(Flipped(f))'
                 /\ (Truth(visit.reader, visit.pc, Flipped(f)) \in visit.truths)'
      <4>1. Flipped(f)' = Flipped(f) /\ f \in FactsOf(kind)' BY <3>1, <3>3 DEF Flipped, FactsOf
      <4> QED BY <3>1, <3>3, <4>1 DEF Truth, Sees, ReadAsOf, BasisFirst, OfCase
    <3> QED BY <3>1, <3>2, <3>3 DEF VisitHeld
  <2>3. (AnswersAsOfOneMoment /\ ListedOpens)'
    BY DEF AnswersAsOfOneMoment, ListedOpens, Answered
  <2> QED BY <2>1, <2>2, <2>3
<1> QED BY <1>1, <1>2, ViewsSteps

(* What a list shows opens, unless something changed since, and but for the *)
(* two endpoints that break it on their own (see ListedOpens).              *)
THEOREM ListedRowsOpen == ViewsSpec => []ListedOpens
<1>1. ViewsInv => ListedOpens BY DEF ViewsInv
<1> QED BY <1>1, ViewsInductive, PTL DEF ViewsSpec

-----------------------------------------------------------------------------
(****************************************************************************)
(* The soft-delete extension.  While a lookup runs, the states it noted     *)
(* hold the row's; and once its row was not refused, the row can only be    *)
(* there if it was live since.                                              *)
(****************************************************************************)
LookupHeld ==
  /\ lookup.pc \in {"query", "again"} => row \in lookup.was
  /\ lookup.pc = "again" /\ row # "absent" => "live" \in lookup.was

SoftDeleteInv == SoftDeleteTypeOK /\ LookupHeld /\ LookupsSeeLive

(* A lookup that is running. *)
LEMMA LookupIs ==
  ASSUME SoftDeleteInv, lookup.pc # "none"
  PROVE  lookup \in Lookup /\ NoLookup \notin Lookup
BY DEF SoftDeleteInv, SoftDeleteTypeOK, NoLookup, Lookup

LEMMA SoftDeleteSteps ==
  ASSUME SoftDeleteInv, SoftDeleteNext
  PROVE  SoftDeleteInv'
<1>1. /\ row \in RowStates /\ lookup \in Lookup \cup {NoLookup}
      /\ lookup.pc = "again" => lookup.by = "unique"
      /\ LookupHeld /\ LookupsSeeLive
  BY DEF SoftDeleteInv, SoftDeleteTypeOK
<1>2. NoLookup.pc = "none" BY DEF NoLookup
<1>3. ASSUME NEW by \in Lookups, NEW narrow \in BOOLEAN, LookUp(by, narrow)
      PROVE  SoftDeleteInv'
  <2> DEFINE new == [pc |-> "query", by |-> by, narrow |-> narrow, found |-> FALSE,
                     was |-> {row}]
  <2>1. new \in Lookup BY <1>1 DEF Lookup
  <2>2. new.pc = "query" /\ row \in new.was OBVIOUS
  <2>3. lookup' = new /\ row' = row BY <1>3 DEF LookUp
  <2> HIDE DEF new
  <2> QED BY <1>1, <2>1, <2>2, <2>3
          DEF SoftDeleteInv, SoftDeleteTypeOK, LookupHeld, LookupsSeeLive
<1>4. ASSUME NEW found \in BOOLEAN, Answer(found), row' = row,
             lookup.pc \in {"query", "again"},
             IF found THEN "live" \in lookup.was
             ELSE \/ lookup.was \cap {"absent", "deleted"} # {}
                  \/ lookup.narrow /\ lookup.by # "filtered"
      PROVE  SoftDeleteInv'
  <2>1. lookup \in Lookup BY <1>4, LookupIs
  <2>2. /\ lookup' \in Lookup /\ lookup'.pc = "answered" /\ lookup'.found = found
        /\ lookup'.was = lookup.was /\ lookup'.by = lookup.by
        /\ lookup'.narrow = lookup.narrow
    BY <1>4, <2>1 DEF Answer, Lookup
  <2>3. SoftDeleteTypeOK' BY <1>1, <1>4, <2>2 DEF SoftDeleteTypeOK
  <2>4. LookupHeld' BY <2>2 DEF LookupHeld
  <2>5. LookupsSeeLive'
    <3>1. CASE found BY <1>4, <2>2, <3>1 DEF LookupsSeeLive
    <3>2. CASE ~found BY <1>4, <2>2, <3>2 DEF LookupsSeeLive
    <3> QED BY <3>1, <3>2
  <2> QED BY <2>3, <2>4, <2>5 DEF SoftDeleteInv
<1>5. CASE QueryFiltered
  <2>1. lookup.pc = "query" /\ row \in lookup.was BY <1>1, <1>5 DEF QueryFiltered, Asking, LookupHeld
  <2>2. CASE row = "live" BY <1>4, <1>5, <2>1, <2>2 DEF QueryFiltered
  <2>3. CASE row # "live"
    BY <1>1, <1>4, <1>5, <2>1, <2>3 DEF QueryFiltered, RowStates
  <2> QED BY <2>2, <2>3
<1>6. CASE QueryUnique
  <2>1. /\ lookup.pc = "query" /\ lookup.by = "unique" /\ row \in lookup.was /\ row' = row
        /\ lookup \in Lookup
    BY <1>1, <1>6, LookupIs DEF QueryUnique, Asking, LookupHeld
  <2>2. CASE Refused BY <1>4, <1>6, <2>1, <2>2 DEF QueryUnique, Refused
  <2>3. CASE ~Refused
    <3>1. lookup' = [lookup EXCEPT !.pc = "again"] BY <1>6, <2>3 DEF QueryUnique
    <3>2. /\ lookup' \in Lookup /\ lookup'.pc = "again" /\ lookup'.by = "unique"
          /\ lookup'.was = lookup.was
      BY <2>1, <3>1 DEF Lookup
    <3>3. row # "absent" => row = "live" BY <1>1, <2>3 DEF Refused, RowStates
    <3> QED BY <1>1, <2>1, <3>2, <3>3
            DEF SoftDeleteInv, SoftDeleteTypeOK, LookupHeld, LookupsSeeLive
  <2> QED BY <2>2, <2>3
<1>7. CASE QueryAgain
  <2>1. lookup.pc = "again" /\ row \in lookup.was BY <1>1, <1>7 DEF QueryAgain, LookupHeld
  <2>2. CASE row = "absent" BY <1>4, <1>7, <2>1, <2>2 DEF QueryAgain
  <2>3. CASE row # "absent" BY <1>1, <1>4, <1>7, <2>1, <2>3 DEF QueryAgain, LookupHeld
  <2> QED BY <2>2, <2>3
<1>8. CASE QueryOrThrow
  <2>1. lookup.pc = "query" /\ lookup.by = "uniqueOrThrow" /\ row \in lookup.was
    BY <1>1, <1>8 DEF QueryOrThrow, Asking, LookupHeld
  <2>2. CASE row # "absent" /\ ~Refused
    <3>1. row = "live" BY <1>1, <2>2 DEF Refused, RowStates
    <3> QED BY <1>4, <1>8, <2>1, <2>2, <3>1 DEF QueryOrThrow
  <2>3. CASE ~(row # "absent" /\ ~Refused)
    BY <1>4, <1>8, <2>1, <2>3 DEF QueryOrThrow, Refused
  <2> QED BY <2>2, <2>3
<1>9. CASE TakeAnswer
  BY <1>1, <1>2, <1>9
  DEF TakeAnswer, SoftDeleteInv, SoftDeleteTypeOK, LookupHeld, LookupsSeeLive
<1>10. ASSUME NEW state \in RowStates, Becomes(state),
              state # "live" => row # "absent"
       PROVE  SoftDeleteInv'
  <2>1. CASE lookup.pc \in {"query", "again"}
    <3>1. lookup \in Lookup BY <2>1, LookupIs
    <3>2. lookup' = [lookup EXCEPT !.was = lookup.was \cup {state}] /\ row' = state
      BY <1>10, <2>1 DEF Becomes
    <3>3. /\ lookup' \in Lookup /\ lookup'.pc = lookup.pc /\ lookup'.by = lookup.by
          /\ lookup'.was = lookup.was \cup {state}
      BY <3>1, <3>2, <1>10 DEF Lookup
    <3> QED BY <1>1, <1>10, <2>1, <3>2, <3>3
            DEF SoftDeleteInv, SoftDeleteTypeOK, LookupHeld, LookupsSeeLive
  <2>2. CASE lookup.pc \notin {"query", "again"}
    <3>1. lookup' = lookup /\ row' = state BY <1>10, <2>2 DEF Becomes
    <3> QED BY <1>1, <1>10, <2>2, <3>1
            DEF SoftDeleteInv, SoftDeleteTypeOK, LookupHeld, LookupsSeeLive
  <2> QED BY <2>1, <2>2
<1>11. CASE InsertLive BY <1>10, <1>11 DEF InsertLive, RowStates
<1>12. CASE MarkDeleted BY <1>10, <1>12 DEF MarkDeleted, RowStates
<1> QED BY <1>3, <1>5, <1>6, <1>7, <1>8, <1>9, <1>11, <1>12 DEF SoftDeleteNext

LEMMA SoftDeleteInductive ==
  /\ SoftDeleteInit => SoftDeleteInv
  /\ SoftDeleteInv /\ [SoftDeleteNext]_softDeleteVars => SoftDeleteInv'
<1>1. SoftDeleteInit => SoftDeleteInv
  BY DEF SoftDeleteInit, SoftDeleteInv, SoftDeleteTypeOK, LookupHeld, LookupsSeeLive, NoLookup
<1>2. SoftDeleteInv /\ UNCHANGED softDeleteVars => SoftDeleteInv'
  BY DEF softDeleteVars, SoftDeleteInv, SoftDeleteTypeOK, LookupHeld, LookupsSeeLive
<1> QED BY <1>1, <1>2, SoftDeleteSteps

-----------------------------------------------------------------------------
(****************************************************************************)
(* The pages of an inbox.  While no row drops out under the filter, the     *)
(* rows the walk set out for still match it, those it has not seen lie at   *)
(* or beyond the next offset, and a count that no row has overtaken tells   *)
(* of them.                                                                 *)
(****************************************************************************)
Rank(n, ids) == Cardinality({m \in ids : m > n})

Steady == ~(walk.unread /\ walk.marked)

(* Where the rows not yet fetched begin. *)
Ahead == IF "data" \in walk.pending THEN walk.offset ELSE walk.offset + PageLimit

WalkHeld ==
  /\ walk.asked \subseteq Matching(walk.unread)
  /\ \A n \in walk.asked \ walk.seen : Rank(n, Matching(walk.unread)) >= Ahead
  /\ "count" \notin walk.pending /\ ~walk.raced =>
       IF "data" \in walk.pending THEN walk.total = Cardinality(Matching(walk.unread))
       ELSE walk.asked \subseteq walk.seen \/ walk.total > walk.offset + PageLimit

InboxInv ==
  /\ InboxTypeOK /\ WalkMissesOnlyUnderChange
  /\ walk.pc = "page" /\ Steady => WalkHeld

LEMMA InboxTyped ==
  ASSUME InboxTypeOK
  PROVE  /\ sent \in Nat /\ sent <= MaxSent /\ MaxSent \in Nat /\ PageLimit \in Nat \ {0}
         /\ \A unread : /\ Matching(unread) \subseteq Ids(sent)
                        /\ IsFiniteSet(Matching(unread))
                        /\ Cardinality(Matching(unread)) \in Ids(MaxSent) \cup {0}
         /\ Ids(sent) \subseteq Ids(MaxSent)
         /\ walk.pc # "none" => walk \in Walk
<1>1. /\ sent \in Nat /\ sent <= MaxSent /\ MaxSent \in Nat /\ PageLimit \in Nat \ {0}
  BY InboxBoundsOK DEF InboxTypeOK
<1>2. walk.pc # "none" => walk \in Walk BY DEF InboxTypeOK, NoWalk
<1>3. IsFiniteSet(Ids(sent)) /\ Cardinality(Ids(sent)) = sent
  BY <1>1, FS_Interval DEF Ids
<1>4. ASSUME NEW unread
      PROVE  /\ Matching(unread) \subseteq Ids(sent)
             /\ IsFiniteSet(Matching(unread))
             /\ Cardinality(Matching(unread)) \in Ids(MaxSent) \cup {0}
  <2>1. Matching(unread) \subseteq Ids(sent) BY DEF Matching
  <2>2. /\ IsFiniteSet(Matching(unread))
        /\ Cardinality(Matching(unread)) <= sent
    BY <1>3, <2>1, FS_Subset
  <2>3. Cardinality(Matching(unread)) \in Nat BY <2>2, FS_CardinalityType
  <2> QED BY <1>1, <2>1, <2>2, <2>3 DEF Ids
<1>5. Ids(sent) \subseteq Ids(MaxSent) BY <1>1 DEF Ids
<1> QED BY <1>1, <1>2, <1>4, <1>5

LEMMA RankBelow ==
  ASSUME NEW ids, IsFiniteSet(ids), NEW n \in ids, n \in Nat
  PROVE  /\ Rank(n, ids) \in Nat /\ Cardinality(ids) \in Nat
         /\ Rank(n, ids) < Cardinality(ids)
<1> DEFINE newer == {m \in ids : m > n}
<1>1. newer \in SUBSET ids /\ n \notin newer OBVIOUS
<1> HIDE DEF newer
<1>2. IsFiniteSet(newer) /\ Cardinality(newer) <= Cardinality(ids)
      /\ (Cardinality(ids) = Cardinality(newer) => ids = newer)
  BY <1>1, FS_Subset
<1>3. Cardinality(newer) \in Nat /\ Cardinality(ids) \in Nat
  BY <1>2, FS_CardinalityType
<1>4. Cardinality(ids) # Cardinality(newer) BY <1>1, <1>2
<1>5. Cardinality(newer) < Cardinality(ids) BY <1>2, <1>3, <1>4
<1> QED BY <1>3, <1>5 DEF Rank, newer

LEMMA RankGrows ==
  ASSUME NEW ids, NEW more, IsFiniteSet(more), ids \subseteq more, NEW n
  PROVE  /\ Rank(n, ids) \in Nat /\ Rank(n, more) \in Nat
         /\ Rank(n, ids) <= Rank(n, more)
<1> DEFINE newer == {m \in ids : m > n}
           newest == {m \in more : m > n}
<1>1. newer \in SUBSET newest /\ newest \in SUBSET more OBVIOUS
<1> HIDE DEF newer, newest
<1>2. IsFiniteSet(newest) BY <1>1, FS_Subset
<1>3. IsFiniteSet(newer) /\ Cardinality(newer) <= Cardinality(newest)
  BY <1>1, <1>2, FS_Subset
<1>4. Cardinality(newer) \in Nat /\ Cardinality(newest) \in Nat
  BY <1>2, <1>3, FS_CardinalityType
<1> QED BY <1>3, <1>4 DEF Rank, newer, newest

(* A row arrives. *)
LEMMA SendHolds ==
  ASSUME InboxInv, Send
  PROVE  InboxInv'
<1>1. /\ InboxTypeOK /\ WalkMissesOnlyUnderChange
      /\ walk.pc = "page" /\ Steady => WalkHeld
  BY DEF InboxInv
<1>2. /\ sent \in Nat /\ sent < MaxSent /\ sent' = sent + 1 /\ read' = read /\ marking' = marking
      /\ walk' = IF Raced(walk) THEN [walk EXCEPT !.raced = TRUE] ELSE walk
  BY <1>1, InboxTyped DEF Send
<1>3. /\ walk.pc = walk'.pc
      /\ walk.pc # "none" =>
           /\ walk \in Walk /\ walk' \in Walk
           /\ walk'.unread = walk.unread /\ walk'.offset = walk.offset
           /\ walk'.pending = walk.pending /\ walk'.total = walk.total
           /\ walk'.seen = walk.seen /\ walk'.asked = walk.asked /\ walk'.marked = walk.marked
           /\ walk'.raced = (walk.raced \/ Raced(walk))
  <2>1. CASE Raced(walk)
    <3>1. walk \in Walk BY <1>1, <2>1, InboxTyped DEF Raced
    <3>2. walk' = [walk EXCEPT !.raced = TRUE] BY <1>2, <2>1
    <3> QED BY <2>1, <3>1, <3>2 DEF Walk
  <2>2. CASE ~Raced(walk)
    <3>1. walk' = walk BY <1>2, <2>2
    <3>2. walk.pc # "none" => walk \in Walk BY <1>1, InboxTyped
    <3> QED BY <2>2, <3>1, <3>2 DEF Walk
  <2> QED BY <2>1, <2>2
<1>4. InboxTypeOK'
  <2>1. sent' \in 0..MaxSent /\ read' \subseteq Ids(sent') /\ marking' \in 0..sent'
    BY <1>1, <1>2, InboxBoundsOK DEF InboxTypeOK, Ids
  <2>2. walk' \in Walk \cup {NoWalk}
    BY <1>1, <1>2, <1>3 DEF InboxTypeOK, NoWalk, Raced
  <2> QED BY <2>1, <2>2 DEF InboxTypeOK
<1>5. WalkMissesOnlyUnderChange'
  BY <1>1, <1>3 DEF WalkMissesOnlyUnderChange
<1>6. ASSUME walk'.pc = "page", Steady' PROVE WalkHeld'
  <2>1. WalkHeld BY <1>1, <1>3, <1>6 DEF Steady
  <2>2. Matching(walk.unread) \subseteq Matching(walk.unread)' /\ walk'.unread = walk.unread
    BY <1>2, <1>3, <1>6 DEF Matching, Ids
  <2>3. IsFiniteSet(Matching(walk.unread)')
    <3>1. IsFiniteSet(1..(sent + 1)) BY <1>2, FS_Interval
    <3>2. Matching(walk.unread)' \subseteq 1..(sent + 1) BY <1>2 DEF Matching, Ids
    <3> QED BY <3>1, <3>2, FS_Subset
  <2>4. Ahead' = Ahead BY <1>3, <1>6 DEF Ahead
  <2>5. walk'.asked \subseteq Matching(walk.unread)' BY <1>3, <1>6, <2>1, <2>2 DEF WalkHeld
  <2>6. ASSUME NEW n \in walk'.asked \ walk'.seen
        PROVE  Rank(n, Matching(walk.unread)') >= Ahead'
    <3>1. Rank(n, Matching(walk.unread)) >= Ahead BY <1>3, <1>6, <2>1, <2>6 DEF WalkHeld
    <3>2. /\ Rank(n, Matching(walk.unread)) \in Nat /\ Rank(n, Matching(walk.unread)') \in Nat
          /\ Rank(n, Matching(walk.unread)) <= Rank(n, Matching(walk.unread)')
      BY <2>2, <2>3, RankGrows
    <3>3. Ahead \in Nat BY <1>1, <1>3, <1>6, InboxTyped DEF Ahead, Walk
    <3> QED BY <2>4, <3>1, <3>2, <3>3
  <2>7. ASSUME "count" \notin walk'.pending, ~walk'.raced
        PROVE  IF "data" \in walk'.pending THEN walk'.total = Cardinality(Matching(walk.unread)')
               ELSE walk'.asked \subseteq walk'.seen \/ walk'.total > walk'.offset + PageLimit
    <3>1. "data" \notin walk.pending
      BY <1>3, <1>6, <2>7 DEF Raced, Walk
    <3> QED BY <1>3, <1>6, <2>1, <2>7, <3>1 DEF WalkHeld
  <2> QED BY <2>2, <2>5, <2>6, <2>7 DEF WalkHeld
<1> QED BY <1>4, <1>5, <1>6 DEF InboxInv
(* Rows are marked read: under the filter the walk is not steady any more   *)
(* unless they were so already. *)
LEMMA MarksHold ==
  ASSUME InboxInv, NEW ids \in SUBSET Ids(sent), Marks(ids),
         sent' = sent, marking' \in 0..sent
  PROVE  InboxInv'
<1>1. /\ InboxTypeOK /\ WalkMissesOnlyUnderChange
      /\ walk.pc = "page" /\ Steady => WalkHeld
  BY DEF InboxInv
<1>2. /\ read' = read \cup ids
      /\ walk' = IF walk.pc = "page" /\ ~(ids \subseteq read)
                 THEN [walk EXCEPT !.marked = TRUE] ELSE walk
  BY DEF Marks
<1>3. /\ walk.pc = walk'.pc
      /\ walk.pc # "none" =>
           /\ walk \in Walk /\ walk' \in Walk
           /\ walk'.unread = walk.unread /\ walk'.offset = walk.offset
           /\ walk'.pending = walk.pending /\ walk'.total = walk.total
           /\ walk'.seen = walk.seen /\ walk'.asked = walk.asked /\ walk'.raced = walk.raced
           /\ walk'.marked = (walk.marked \/ (walk.pc = "page" /\ ~(ids \subseteq read)))
  <2>1. CASE walk.pc = "page" /\ ~(ids \subseteq read)
    <3>1. walk \in Walk BY <1>1, <2>1, InboxTyped
    <3>2. walk' = [walk EXCEPT !.marked = TRUE] BY <1>2, <2>1
    <3> QED BY <2>1, <3>1, <3>2 DEF Walk
  <2>2. CASE ~(walk.pc = "page" /\ ~(ids \subseteq read))
    <3>1. walk' = walk BY <1>2, <2>2
    <3>2. walk.pc # "none" => walk \in Walk BY <1>1, InboxTyped
    <3> QED BY <2>2, <3>1, <3>2 DEF Walk
  <2> QED BY <2>1, <2>2
<1>4. InboxTypeOK'
  <2>1. sent' \in 0..MaxSent /\ read' \subseteq Ids(sent') /\ marking' \in 0..sent'
    BY <1>1, <1>2 DEF InboxTypeOK
  <2>2. walk' \in Walk \cup {NoWalk}
    BY <1>1, <1>2, <1>3 DEF InboxTypeOK, NoWalk
  <2> QED BY <2>1, <2>2 DEF InboxTypeOK
<1>5. WalkMissesOnlyUnderChange'
  BY <1>1, <1>3 DEF WalkMissesOnlyUnderChange
<1>6. ASSUME walk'.pc = "page", Steady' PROVE WalkHeld'
  <2>1. WalkHeld BY <1>1, <1>3, <1>6 DEF Steady
  <2>2. Matching(walk.unread)' = Matching(walk.unread)
    <3>1. CASE ids \subseteq read BY <1>2, <1>3, <1>6, <3>1 DEF Matching
    <3>2. CASE ~(ids \subseteq read)
      <4>1. ~walk.unread BY <1>3, <1>6, <3>2 DEF Steady
      <4> QED BY <1>3, <1>6, <4>1 DEF Matching
    <3> QED BY <3>1, <3>2
  <2>3. Ahead' = Ahead BY <1>3, <1>6 DEF Ahead
  <2> QED BY <1>3, <1>6, <2>1, <2>2, <2>3 DEF WalkHeld, Rank
<1> QED BY <1>4, <1>5, <1>6 DEF InboxInv

(* The pages are turned: rows fetched, counted, and the next page asked for. *)
LEMMA OpenInboxHolds ==
  ASSUME InboxInv, NEW unread \in BOOLEAN, OpenInbox(unread)
  PROVE  InboxInv'
<1>1. InboxTypeOK BY DEF InboxInv
<1>2. UNCHANGED <<sent, read, marking>> BY DEF OpenInbox
<1>3. walk' = [pc |-> "page", unread |-> unread, offset |-> 0, pending |-> {"data", "count"},
               total |-> 0, seen |-> {}, asked |-> Matching(unread), raced |-> FALSE,
               marked |-> FALSE]
  BY DEF OpenInbox
<1>4. Matching(unread) \subseteq Ids(MaxSent) BY <1>1, InboxTyped
<1>5. walk' \in Walk BY <1>3, <1>4 DEF Walk
<1>6. /\ walk'.pc = "page" /\ walk'.unread = unread /\ walk'.offset = 0
      /\ walk'.pending = {"data", "count"} /\ walk'.asked = Matching(unread)
  BY <1>3
<1>7. InboxTypeOK' BY <1>1, <1>2, <1>5 DEF InboxTypeOK
<1>8. Matching(walk.unread)' = Matching(unread) BY <1>2, <1>6 DEF Matching
<1>9. \A n \in walk'.asked : Rank(n, Matching(unread)) >= 0
  <2>1. IsFiniteSet(Matching(unread)) BY <1>1, InboxTyped
  <2> QED BY <2>1, RankGrows
<1>10. Ahead' = 0 BY <1>6 DEF Ahead
<1>11. WalkHeld' BY <1>6, <1>8, <1>9, <1>10 DEF WalkHeld, Rank
<1>12. WalkMissesOnlyUnderChange' BY <1>6 DEF WalkMissesOnlyUnderChange
<1> QED BY <1>7, <1>11, <1>12 DEF InboxInv

LEMMA FetchRowsHolds ==
  ASSUME InboxInv, FetchRows
  PROVE  InboxInv'
<1>1. /\ InboxTypeOK /\ (Steady => WalkHeld) /\ walk.pc = "page" /\ "data" \in walk.pending
  BY DEF InboxInv, FetchRows
<1>2. UNCHANGED <<sent, read, marking>> BY DEF FetchRows
<1>3. walk \in Walk BY <1>1, InboxTyped
<1> DEFINE ids == Matching(walk.unread)
<1>4. /\ ids \subseteq Ids(MaxSent) /\ IsFiniteSet(ids)
      /\ ids \subseteq Nat /\ PageLimit \in Nat
  BY <1>1, InboxTyped DEF Ids
<1>5. PICK page : page = Page(ids, walk.offset) OBVIOUS
<1>6. page \subseteq Ids(MaxSent) BY <1>4, <1>5 DEF Page
<1>7. walk' = [[walk EXCEPT !.pending = walk.pending \ {"data"}] EXCEPT !.seen = walk.seen \cup page]
  BY <1>5 DEF FetchRows
<1>8. /\ walk' \in Walk /\ walk'.pc = "page"
      /\ walk'.unread = walk.unread /\ walk'.offset = walk.offset
      /\ walk'.pending = walk.pending \ {"data"} /\ walk'.total = walk.total
      /\ walk'.seen = walk.seen \cup page /\ walk'.asked = walk.asked
      /\ walk'.raced = walk.raced /\ walk'.marked = walk.marked
  BY <1>1, <1>3, <1>6, <1>7 DEF Walk
<1>9. InboxTypeOK' BY <1>1, <1>2, <1>8 DEF InboxTypeOK
<1>10. WalkMissesOnlyUnderChange' BY <1>8 DEF WalkMissesOnlyUnderChange
<1>11. Matching(walk.unread)' = ids BY <1>2, <1>8 DEF Matching
<1>12. Ahead' = walk.offset + PageLimit /\ Ahead = walk.offset /\ walk.offset \in Nat
  BY <1>1, <1>3, <1>8 DEF Ahead, Walk
<1>13. ASSUME Steady' PROVE WalkHeld'
  <2>1. WalkHeld BY <1>1, <1>8, <1>13 DEF Steady
  <2>2. walk'.asked \subseteq ids BY <1>8, <2>1 DEF WalkHeld
  <2>3. ASSUME NEW n \in walk'.asked \ walk'.seen
        PROVE  Rank(n, ids) >= walk.offset + PageLimit /\ Rank(n, ids) < Cardinality(ids)
               /\ Cardinality(ids) \in Nat /\ Rank(n, ids) \in Nat
    <3>1. Rank(n, ids) >= walk.offset BY <1>8, <1>12, <2>1, <2>3 DEF WalkHeld
    <3>2. n \in ids /\ n \notin page BY <1>8, <2>2, <2>3
    <3>3. /\ Rank(n, ids) < Cardinality(ids) /\ Rank(n, ids) \in Nat
          /\ Cardinality(ids) \in Nat
      BY <1>4, <3>2, RankBelow
    <3>4. Rank(n, ids) \notin walk.offset..(walk.offset + PageLimit - 1)
      BY <1>5, <3>2 DEF Page, Rank
    <3> QED BY <1>4, <1>12, <3>1, <3>3, <3>4
  <2>4. ASSUME "count" \notin walk'.pending, ~walk'.raced
        PROVE  walk'.asked \subseteq walk'.seen \/ walk'.total > walk'.offset + PageLimit
    <3>1. walk.total = Cardinality(ids) BY <1>1, <1>8, <2>1, <2>4 DEF WalkHeld
    <3> QED BY <1>4, <1>8, <1>12, <2>3, <3>1
  <2>5. "data" \notin walk'.pending BY <1>8
  <2> HIDE DEF ids
  <2> QED BY <1>11, <1>12, <2>2, <2>3, <2>4, <2>5 DEF WalkHeld
<1> QED BY <1>9, <1>10, <1>13 DEF InboxInv

LEMMA FetchCountHolds ==
  ASSUME InboxInv, FetchCount
  PROVE  InboxInv'
<1>1. /\ InboxTypeOK /\ (Steady => WalkHeld) /\ walk.pc = "page" /\ "count" \in walk.pending
  BY DEF InboxInv, FetchCount
<1>2. UNCHANGED <<sent, read, marking>> BY DEF FetchCount
<1>3. walk \in Walk BY <1>1, InboxTyped
<1> DEFINE ids == Matching(walk.unread)
<1>4. /\ IsFiniteSet(ids) /\ ids \subseteq Nat /\ PageLimit \in Nat
      /\ Cardinality(ids) \in Ids(MaxSent) \cup {0}
  BY <1>1, InboxTyped DEF Ids
<1>5. PICK count : count = Cardinality(ids) OBVIOUS
<1>6. walk' = [[walk EXCEPT !.pending = walk.pending \ {"count"}] EXCEPT !.total = count]
  BY <1>5 DEF FetchCount
<1>7. /\ walk' \in Walk /\ walk'.pc = "page"
      /\ walk'.unread = walk.unread /\ walk'.offset = walk.offset
      /\ walk'.pending = walk.pending \ {"count"} /\ walk'.total = count
      /\ walk'.seen = walk.seen /\ walk'.asked = walk.asked
      /\ walk'.raced = walk.raced /\ walk'.marked = walk.marked
  BY <1>1, <1>3, <1>4, <1>5, <1>6 DEF Walk
<1>8. InboxTypeOK' BY <1>1, <1>2, <1>7 DEF InboxTypeOK
<1>9. WalkMissesOnlyUnderChange' BY <1>7 DEF WalkMissesOnlyUnderChange
<1>10. Matching(walk.unread)' = ids BY <1>2, <1>7 DEF Matching
<1>11. Ahead' = Ahead BY <1>7 DEF Ahead
<1>12. ASSUME Steady' PROVE WalkHeld'
  <2>1. WalkHeld BY <1>1, <1>7, <1>12 DEF Steady
  <2>2. walk'.asked \subseteq ids BY <1>7, <2>1 DEF WalkHeld
  <2>3. \A n \in walk'.asked \ walk'.seen : Rank(n, ids) >= Ahead
    BY <1>7, <2>1 DEF WalkHeld
  <2>4. ASSUME "data" \notin walk'.pending
        PROVE  walk'.asked \subseteq walk'.seen \/ walk'.total > walk'.offset + PageLimit
    <3>1. Ahead = walk.offset + PageLimit /\ walk.offset \in Nat
      BY <1>3, <1>7, <2>4 DEF Ahead, Walk
    <3>2. ASSUME NEW n \in walk'.asked \ walk'.seen
          PROVE  walk'.total > walk'.offset + PageLimit
      <4>1. n \in ids /\ Rank(n, ids) >= walk.offset + PageLimit BY <2>2, <2>3, <3>1, <3>2
      <4>2. /\ Rank(n, ids) < Cardinality(ids) /\ Rank(n, ids) \in Nat
            /\ Cardinality(ids) \in Nat
        BY <1>4, <4>1, RankBelow
      <4> QED BY <1>4, <1>5, <1>7, <3>1, <4>1, <4>2
    <3> QED BY <3>2
  <2> HIDE DEF ids
  <2> QED BY <1>5, <1>7, <1>10, <1>11, <2>2, <2>3, <2>4 DEF WalkHeld
<1> QED BY <1>8, <1>9, <1>12 DEF InboxInv

LEMMA TurnPageHolds ==
  ASSUME InboxInv, TurnPage
  PROVE  InboxInv'
<1>1. /\ InboxTypeOK /\ (Steady => WalkHeld) /\ walk.pc = "page" /\ walk.pending = {}
  BY DEF InboxInv, TurnPage
<1>2. UNCHANGED <<sent, read, marking>> BY DEF TurnPage
<1>3. walk \in Walk /\ PageLimit \in Nat BY <1>1, InboxTyped
<1>4. CASE HasNextPage(walk.offset, walk.total)
  <2>1. PICK next : next = walk.offset + PageLimit OBVIOUS
  <2>2. walk' = [[[walk EXCEPT !.offset = next] EXCEPT !.pending = {"data", "count"}]
                  EXCEPT !.raced = FALSE]
    BY <1>4, <2>1 DEF TurnPage
  <2>3. next \in Nat BY <1>3, <2>1 DEF Walk
  <2>4. /\ walk' \in Walk /\ walk'.pc = "page" /\ walk'.unread = walk.unread
        /\ walk'.offset = next /\ walk'.pending = {"data", "count"}
        /\ walk'.seen = walk.seen /\ walk'.asked = walk.asked /\ walk'.marked = walk.marked
    BY <1>1, <1>3, <2>2, <2>3 DEF Walk
  <2>5. InboxTypeOK' BY <1>1, <1>2, <2>4 DEF InboxTypeOK
  <2>6. WalkMissesOnlyUnderChange' BY <2>4 DEF WalkMissesOnlyUnderChange
  <2>7. Matching(walk.unread)' = Matching(walk.unread) BY <1>2, <2>4 DEF Matching
  <2>8. Ahead' = Ahead BY <1>1, <2>1, <2>4 DEF Ahead
  <2>9. ASSUME Steady' PROVE WalkHeld'
    <3>1. WalkHeld BY <1>1, <2>4, <2>9 DEF Steady
    <3> QED BY <2>4, <2>7, <2>8, <3>1 DEF WalkHeld
  <2> QED BY <2>5, <2>6, <2>9 DEF InboxInv
<1>5. CASE ~HasNextPage(walk.offset, walk.total)
  <2>1. walk' = [walk EXCEPT !.pc = "done"] BY <1>5 DEF TurnPage
  <2>2. /\ walk' \in Walk /\ walk'.pc = "done" /\ walk'.unread = walk.unread
        /\ walk'.seen = walk.seen /\ walk'.asked = walk.asked
        /\ walk'.raced = walk.raced /\ walk'.marked = walk.marked
    BY <1>1, <1>3, <2>1 DEF Walk
  <2>3. InboxTypeOK' BY <1>1, <1>2, <2>2 DEF InboxTypeOK
  <2>4. ~(walk.total > walk.offset + PageLimit)
    BY <1>3, <1>5, InboxBoundsOK DEF HasNextPage, Walk, Ids
  <2>5. WalkMissesOnlyUnderChange'
    <3>1. CASE ~Steady BY <2>2, <3>1 DEF Steady, WalkMissesOnlyUnderChange
    <3>2. CASE Steady
      <4>1. walk.raced \/ walk.asked \subseteq walk.seen
        BY <1>1, <2>4, <3>2 DEF WalkHeld
      <4> QED BY <2>2, <4>1 DEF WalkMissesOnlyUnderChange
    <3> QED BY <3>1, <3>2
  <2> QED BY <2>2, <2>3, <2>5 DEF InboxInv
<1> QED BY <1>4, <1>5

LEMMA InboxRests ==
  ASSUME InboxInv, UNCHANGED inboxVars
  PROVE  InboxInv'
<1>1. sent' = sent /\ read' = read /\ marking' = marking /\ walk' = walk
  BY DEF inboxVars
<1>2. Matching(walk.unread)' = Matching(walk.unread) /\ Ahead' = Ahead
  BY <1>1 DEF Matching, Ahead
<1>3. InboxTypeOK' /\ WalkMissesOnlyUnderChange'
  BY <1>1 DEF InboxInv, InboxTypeOK, WalkMissesOnlyUnderChange
<1>4. WalkHeld => WalkHeld' BY <1>1, <1>2 DEF WalkHeld, Rank
<1> QED BY <1>1, <1>3, <1>4 DEF InboxInv, Steady

LEMMA InboxSteps ==
  ASSUME InboxInv, [InboxNext]_inboxVars
  PROVE  InboxInv'
<1>1. InboxTypeOK BY DEF InboxInv
<1>2. CASE MarkOne
  <2>1. marking \in Ids(sent) /\ 0 \in 0..sent
    BY <1>1, <1>2, InboxBoundsOK DEF InboxTypeOK, MarkOne, Ids
  <2>2. {marking} \in SUBSET Ids(sent) /\ Marks({marking}) /\ sent' = sent /\ marking' \in 0..sent
    BY <1>2, <2>1 DEF MarkOne
  <2> QED BY <2>2, MarksHold
<1>3. CASE MarkAllAsRead
  <2>1. Marks(Ids(sent)) /\ sent' = sent /\ marking' \in 0..sent
    BY <1>1, <1>3 DEF MarkAllAsRead, InboxTypeOK
  <2> QED BY <2>1, MarksHold
<1>4. ASSUME NEW ids \in SUBSET Ids(sent), MarkRead(ids) PROVE InboxInv'
  <2>1. Marks(ids \cap Ids(sent)) /\ sent' = sent /\ marking' \in 0..sent
    BY <1>1, <1>4 DEF MarkRead, InboxTypeOK
  <2> QED BY <2>1, MarksHold
<1>5. ASSUME NEW n \in Ids(sent), MarkFind(n) PROVE InboxInv'
  <2>1. sent' = sent /\ read' = read /\ walk' = walk /\ marking' = n BY <1>5 DEF MarkFind
  <2>2. InboxTypeOK' BY <1>1, <2>1, InboxBoundsOK DEF InboxTypeOK, Ids
  <2>3. Matching(walk.unread)' = Matching(walk.unread) /\ Ahead' = Ahead
    BY <2>1 DEF Matching, Ahead
  <2>4. WalkMissesOnlyUnderChange'
    BY <2>1 DEF InboxInv, WalkMissesOnlyUnderChange
  <2>5. WalkHeld => WalkHeld' BY <2>1, <2>3 DEF WalkHeld, Rank
  <2> QED BY <2>1, <2>2, <2>4, <2>5 DEF InboxInv, Steady
<1>6. CASE CloseInbox
  <2>1. UNCHANGED <<sent, read, marking>> /\ walk' = NoWalk BY <1>6 DEF CloseInbox
  <2>2. InboxTypeOK' BY <1>1, <2>1 DEF InboxTypeOK
  <2> QED BY <2>1, <2>2 DEF InboxInv, NoWalk, WalkMissesOnlyUnderChange
<1> QED
  BY <1>2, <1>3, <1>4, <1>5, <1>6, SendHolds, OpenInboxHolds, FetchRowsHolds, FetchCountHolds,
     TurnPageHolds, InboxRests DEF InboxNext

LEMMA InboxStarts ==
  ASSUME InboxInit PROVE InboxInv
BY InboxBoundsOK DEF InboxInit, InboxInv, InboxTypeOK, Ids, NoWalk, WalkMissesOnlyUnderChange

LEMMA InboxInductive == InboxSpec => []InboxInv
BY InboxStarts, InboxSteps, PTL DEF InboxSpec

(* Whoever pages to the end has seen every notification that was there when *)
(* it began, but for one that arrived between a page's two queries, or some *)
(* marked read under the filter of unread ones.                             *)
THEOREM PagesAreWhole == InboxSpec => []WalkMissesOnlyUnderChange
<1>1. InboxInv => WalkMissesOnlyUnderChange BY DEF InboxInv
<1> QED BY <1>1, InboxInductive, PTL

-----------------------------------------------------------------------------
(****************************************************************************)
(* Sums over a finite set.  SumFunctionOnSet folds in an order of its own   *)
(* choice; that the fold is defined, and that the order does not matter,    *)
(* is shown by a least counterexample among the subsets.                    *)
(****************************************************************************)
LEMMA LeastSubset ==
  ASSUME NEW S, IsFiniteSet(S), NEW T, T \subseteq SUBSET S, T # {}
  PROVE  \E A \in T : \A B \in T : B \subseteq A => B = A
<1>1. IsWellFoundedOn(StrictSubsetOrdering(S), FiniteSubsetsOf(S))
  BY FS_StrictSubsetOrderingWellFounded
<1>2. T \subseteq FiniteSubsetsOf(S) BY FS_Subset DEF FiniteSubsetsOf
<1>3. PICK A \in T : \A B \in T : ~(<<B, A>> \in StrictSubsetOrdering(S))
  BY <1>1, <1>2, WFMin
<1>4. \A B \in T : B \subseteq A => B = A BY <1>3 DEF StrictSubsetOrdering
<1> QED BY <1>4

Chosen(s) == CHOOSE x \in s : TRUE

(* g folds v over the subsets of S. *)
IsTally(g, v, S) ==
  g = [s \in SUBSET S |-> IF s = {} THEN 0 ELSE v[Chosen(s)] + g[s \ {Chosen(s)}]]

LEMMA ChosenIn == \A s : s # {} => Chosen(s) \in s
BY DEF Chosen

LEMMA TallyUnique ==
  ASSUME NEW S, IsFiniteSet(S), NEW v, NEW g, IsTally(g, v, S), NEW T, NEW h, IsTally(h, v, T),
         NEW t \in SUBSET S, t \subseteq T
  PROVE  g[t] = h[t]
<1> DEFINE Differ == {s \in SUBSET S : s \subseteq T /\ g[s] # h[s]}
<1> SUFFICES ASSUME Differ # {} PROVE FALSE
  OBVIOUS
<1>1. PICK A \in Differ : \A B \in Differ : B \subseteq A => B = A
  <2>1. Differ \subseteq SUBSET S OBVIOUS
  <2> HIDE DEF Differ
  <2> QED BY <2>1, LeastSubset
<1>2. /\ g[A] = IF A = {} THEN 0 ELSE v[Chosen(A)] + g[A \ {Chosen(A)}]
      /\ h[A] = IF A = {} THEN 0 ELSE v[Chosen(A)] + h[A \ {Chosen(A)}]
  BY <1>1 DEF IsTally
<1>3. A # {} /\ Chosen(A) \in A BY <1>1, <1>2, ChosenIn
<1>4. A \ {Chosen(A)} \notin Differ BY <1>1, <1>3
<1>5. g[A \ {Chosen(A)}] = h[A \ {Chosen(A)}] BY <1>1, <1>4
<1> QED BY <1>1, <1>2, <1>3, <1>5

LEMMA TallyExists ==
  ASSUME NEW S, IsFiniteSet(S), NEW v
  PROVE  \E g : IsTally(g, v, S)
<1> DEFINE Lacking == {s \in SUBSET S : ~\E g : IsTally(g, v, s)}
<1> SUFFICES ASSUME Lacking # {} PROVE FALSE
  OBVIOUS
<1>1. PICK A \in Lacking : \A B \in Lacking : B \subseteq A => B = A
  <2>1. Lacking \subseteq SUBSET S OBVIOUS
  <2> HIDE DEF Lacking
  <2> QED BY <2>1, LeastSubset
<1> DEFINE Pieces == (SUBSET A) \ {A}
           piece == [B \in Pieces |-> CHOOSE g : IsTally(g, v, B)]
           g == [s \in SUBSET A |->
                  IF s = {} THEN 0
                  ELSE v[Chosen(s)] + piece[s \ {Chosen(s)}][s \ {Chosen(s)}]]
<1>2. ASSUME NEW B \in Pieces PROVE IsTally(piece[B], v, B)
  <2>1. B \notin Lacking /\ B \in SUBSET S BY <1>1
  <2>2. \E f : IsTally(f, v, B) BY <2>1
  <2> QED BY <2>2
<1>3. \A B \in Pieces : IsFiniteSet(B) BY <1>1, FS_Subset
<1>4. ASSUME NEW t \in Pieces PROVE g[t] = piece[t][t]
  <2>1. piece[t][t] = IF t = {} THEN 0 ELSE v[Chosen(t)] + piece[t][t \ {Chosen(t)}]
    <3>1. PICK f : f = piece[t] OBVIOUS
    <3>2. IsTally(f, v, t) BY <1>2, <3>1
    <3> HIDE DEF piece
    <3>3. f[t] = IF t = {} THEN 0 ELSE v[Chosen(t)] + f[t \ {Chosen(t)}]
      BY <3>2 DEF IsTally
    <3> QED BY <3>1, <3>3
  <2>2. g[t] = IF t = {} THEN 0
               ELSE v[Chosen(t)] + piece[t \ {Chosen(t)}][t \ {Chosen(t)}]
    OBVIOUS
  <2>3. ASSUME t # {}
        PROVE  piece[t][t \ {Chosen(t)}] = piece[t \ {Chosen(t)}][t \ {Chosen(t)}]
    <3>1. PICK u : u = t \ {Chosen(t)} OBVIOUS
    <3>2. u \in Pieces /\ u \subseteq t /\ IsFiniteSet(t) BY <1>3, <3>1
    <3>3. IsTally(piece[t], v, t) /\ IsTally(piece[u], v, u) BY <1>2, <3>2
    <3> HIDE DEF piece
    <3>4. piece[t][u] = piece[u][u] BY <3>2, <3>3, TallyUnique
    <3> QED BY <3>1, <3>4
  <2> QED BY <2>1, <2>2, <2>3
<1>5. ASSUME NEW s \in SUBSET A, s # {} PROVE s \ {Chosen(s)} \in Pieces
  BY <1>5, ChosenIn
<1>6. IsTally(g, v, A)
  <2>1. g = [s \in SUBSET A |-> IF s = {} THEN 0 ELSE v[Chosen(s)] + g[s \ {Chosen(s)}]]
    <3>1. ASSUME NEW s \in SUBSET A
          PROVE  g[s] = IF s = {} THEN 0 ELSE v[Chosen(s)] + g[s \ {Chosen(s)}]
      <4>1. CASE s = {} BY <4>1
      <4>2. CASE s # {}
        <5>1. g[s \ {Chosen(s)}] = piece[s \ {Chosen(s)}][s \ {Chosen(s)}]
          BY <1>4, <1>5, <4>2
        <5>2. g[s] = v[Chosen(s)] + piece[s \ {Chosen(s)}][s \ {Chosen(s)}] BY <4>2
        <5> HIDE DEF g
        <5> QED BY <4>2, <5>1, <5>2
      <4> QED BY <4>1, <4>2
    <3>2. g = [s \in SUBSET A |-> g[s]] OBVIOUS
    <3> HIDE DEF g
    <3> QED BY <3>1, <3>2
  <2> HIDE DEF g
  <2> QED BY <2>1 DEF IsTally
<1> HIDE DEF g
<1> QED BY <1>1, <1>6

(* What the library's sum is. *)
LEMMA SumIsTally ==
  ASSUME NEW S, IsFiniteSet(S), NEW v
  PROVE  \E g : IsTally(g, v, S) /\ SumFunctionOnSet(v, S) = g[S]
<1>1. PICK g : g = CHOOSE h : IsTally(h, v, S) OBVIOUS
<1>2. IsTally(g, v, S) BY <1>1, TallyExists
<1>3. SumFunctionOnSet(v, S) = g[S]
  BY <1>1, Zenon DEF SumFunctionOnSet, FoldFunctionOnSet, MapThenFoldSet, IsTally, Chosen
<1> QED BY <1>2, <1>3

LEMMA SumEmpty ==
  ASSUME NEW v PROVE SumFunctionOnSet(v, {}) = 0
<1>1. PICK g : IsTally(g, v, {}) /\ SumFunctionOnSet(v, {}) = g[{}]
  BY SumIsTally, FS_EmptySet
<1> QED BY <1>1 DEF IsTally

LEMMA SumChosen ==
  ASSUME NEW S, IsFiniteSet(S), S # {}, NEW v
  PROVE  SumFunctionOnSet(v, S) = v[Chosen(S)] + SumFunctionOnSet(v, S \ {Chosen(S)})
<1>1. PICK g : IsTally(g, v, S) /\ SumFunctionOnSet(v, S) = g[S] BY SumIsTally
<1>2. PICK T : T = S \ {Chosen(S)} OBVIOUS
<1>3. IsFiniteSet(T) /\ T \in SUBSET S BY <1>2, FS_Subset
<1>4. PICK h : IsTally(h, v, T) /\ SumFunctionOnSet(v, T) = h[T] BY <1>3, SumIsTally
<1>5. g[T] = h[T] BY <1>1, <1>3, <1>4, TallyUnique
<1>6. g[S] = v[Chosen(S)] + g[T] BY <1>1, <1>2 DEF IsTally
<1> QED BY <1>1, <1>2, <1>4, <1>5, <1>6

LEMMA SumType ==
  ASSUME NEW S, IsFiniteSet(S), NEW v
  PROVE  /\ (\A x \in S : v[x] \in Int) => SumFunctionOnSet(v, S) \in Int
         /\ (\A x \in S : v[x] \in Nat) => SumFunctionOnSet(v, S) \in Nat
<1>1. ASSUME NEW N \in {Int, Nat}, \A x \in S : v[x] \in N
      PROVE  SumFunctionOnSet(v, S) \in N
  <2> DEFINE Bad == {s \in SUBSET S : SumFunctionOnSet(v, s) \notin N}
  <2> SUFFICES ASSUME Bad # {} PROVE FALSE
    OBVIOUS
  <2>1. PICK A \in Bad : \A B \in Bad : B \subseteq A => B = A
    <3>1. Bad \subseteq SUBSET S OBVIOUS
    <3> HIDE DEF Bad
    <3> QED BY <3>1, LeastSubset
  <2>2. A # {} BY <2>1, SumEmpty
  <2>3. Chosen(A) \in A /\ A \subseteq S /\ IsFiniteSet(A) BY <2>1, <2>2, ChosenIn, FS_Subset
  <2>4. SumFunctionOnSet(v, A \ {Chosen(A)}) \in N
    <3>1. A \ {Chosen(A)} \notin Bad BY <2>1, <2>3
    <3> QED BY <2>3, <3>1
  <2>5. SumFunctionOnSet(v, A) = v[Chosen(A)] + SumFunctionOnSet(v, A \ {Chosen(A)})
    BY <2>2, <2>3, SumChosen
  <2>6. v[Chosen(A)] \in N BY <1>1, <2>3
  <2>7. SumFunctionOnSet(v, A) \in N
    <3>1. CASE N = Int BY <2>4, <2>5, <2>6, <3>1
    <3>2. CASE N = Nat BY <2>4, <2>5, <2>6, <3>2
    <3> QED BY <3>1, <3>2
  <2> QED BY <2>1, <2>7
<1> QED BY <1>1

(* Any element may be taken first. *)
LEMMA SumPick ==
  ASSUME NEW S, IsFiniteSet(S), NEW v, \A x \in S : v[x] \in Int, NEW y \in S
  PROVE  SumFunctionOnSet(v, S) = v[y] + SumFunctionOnSet(v, S \ {y})
<1> DEFINE Good(s) == \A x \in s : SumFunctionOnSet(v, s) = v[x] + SumFunctionOnSet(v, s \ {x})
           Bad == {s \in SUBSET S : ~Good(s)}
<1> SUFFICES ASSUME Bad # {} PROVE FALSE
  OBVIOUS
<1>1. PICK A \in Bad : \A B \in Bad : B \subseteq A => B = A
  <2>1. Bad \subseteq SUBSET S OBVIOUS
  <2> HIDE DEF Bad
  <2> QED BY <2>1, LeastSubset
<1>2. PICK x \in A : SumFunctionOnSet(v, A) # v[x] + SumFunctionOnSet(v, A \ {x}) BY <1>1
<1>3. PICK c : c = Chosen(A) OBVIOUS
<1>4. c \in A /\ A \subseteq S /\ IsFiniteSet(A) BY <1>1, <1>2, <1>3, ChosenIn, FS_Subset
<1>5. SumFunctionOnSet(v, A) = v[c] + SumFunctionOnSet(v, A \ {c}) BY <1>2, <1>3, <1>4, SumChosen
<1>6. c # x BY <1>2, <1>5
<1>7. Good(A \ {c}) /\ Good(A \ {x}) BY <1>1, <1>2, <1>4
<1>8. /\ SumFunctionOnSet(v, A \ {c}) = v[x] + SumFunctionOnSet(v, (A \ {c}) \ {x})
      /\ SumFunctionOnSet(v, A \ {x}) = v[c] + SumFunctionOnSet(v, (A \ {x}) \ {c})
  BY <1>2, <1>4, <1>6, <1>7
<1>9. PICK others : others = (A \ {c}) \ {x} OBVIOUS
<1>10. (A \ {x}) \ {c} = others BY <1>9
<1>11. SumFunctionOnSet(v, others) \in Int /\ v[x] \in Int /\ v[c] \in Int
  <2>1. IsFiniteSet(others) /\ others \subseteq S BY <1>4, <1>9, FS_Subset
  <2> QED BY <1>2, <1>4, <2>1, SumType
<1>12. /\ SumFunctionOnSet(v, A \ {c}) = v[x] + SumFunctionOnSet(v, others)
       /\ SumFunctionOnSet(v, A \ {x}) = v[c] + SumFunctionOnSet(v, others)
  BY <1>8, <1>9, <1>10
<1> HIDE DEF Bad
<1> QED BY <1>2, <1>5, <1>11, <1>12

LEMMA SumSame ==
  ASSUME NEW S, IsFiniteSet(S), NEW v, NEW w, \A x \in S : v[x] = w[x]
  PROVE  SumFunctionOnSet(v, S) = SumFunctionOnSet(w, S)
<1> DEFINE Bad == {s \in SUBSET S : SumFunctionOnSet(v, s) # SumFunctionOnSet(w, s)}
<1> SUFFICES ASSUME Bad # {} PROVE FALSE
  OBVIOUS
<1>1. PICK A \in Bad : \A B \in Bad : B \subseteq A => B = A
  <2>1. Bad \subseteq SUBSET S OBVIOUS
  <2> HIDE DEF Bad
  <2> QED BY <2>1, LeastSubset
<1>2. A # {} BY <1>1, SumEmpty
<1>3. PICK c : c = Chosen(A) OBVIOUS
<1>4. c \in A /\ A \subseteq S /\ IsFiniteSet(A) BY <1>1, <1>2, <1>3, ChosenIn, FS_Subset
<1>5. SumFunctionOnSet(v, A \ {c}) = SumFunctionOnSet(w, A \ {c})
  <2>1. A \ {c} \notin Bad BY <1>1, <1>4
  <2> QED BY <1>4, <2>1
<1>6. /\ SumFunctionOnSet(v, A) = v[c] + SumFunctionOnSet(v, A \ {c})
      /\ SumFunctionOnSet(w, A) = w[c] + SumFunctionOnSet(w, A \ {c})
  BY <1>2, <1>3, <1>4, SumChosen
<1>7. v[c] = w[c] BY <1>4
<1> QED BY <1>1, <1>5, <1>6, <1>7

(* Sums of parts, of pointwise sums, and of smaller terms. *)
LEMMA SumUnion ==
  ASSUME NEW S, NEW T, IsFiniteSet(S), IsFiniteSet(T), S \cap T = {},
         NEW v, \A x \in S \cup T : v[x] \in Int
  PROVE  SumFunctionOnSet(v, S \cup T) = SumFunctionOnSet(v, S) + SumFunctionOnSet(v, T)
<1> DEFINE Bad == {s \in SUBSET S :
             SumFunctionOnSet(v, s \cup T) # SumFunctionOnSet(v, s) + SumFunctionOnSet(v, T)}
<1> SUFFICES ASSUME Bad # {} PROVE FALSE
  OBVIOUS
<1>1. PICK A \in Bad : \A B \in Bad : B \subseteq A => B = A
  <2>1. Bad \subseteq SUBSET S OBVIOUS
  <2> HIDE DEF Bad
  <2> QED BY <2>1, LeastSubset
<1>2. SumFunctionOnSet(v, T) \in Int BY SumType
<1>3. A # {}
  <2> SUFFICES ASSUME A = {} PROVE FALSE OBVIOUS
  <2>1. A \cup T = T OBVIOUS
  <2> QED BY <1>1, <1>2, <2>1, SumEmpty
<1>4. PICK c : c \in A BY <1>3
<1>5. PICK B : B = A \ {c} OBVIOUS
<1>6. /\ A \subseteq S /\ IsFiniteSet(A) /\ IsFiniteSet(B) /\ IsFiniteSet(A \cup T)
      /\ B \subseteq S
  BY <1>1, <1>5, FS_Subset, FS_Union
<1>7. B \notin Bad BY <1>1, <1>4, <1>5
<1>8. SumFunctionOnSet(v, B \cup T) = SumFunctionOnSet(v, B) + SumFunctionOnSet(v, T)
  BY <1>6, <1>7
<1>9. SumFunctionOnSet(v, A) = v[c] + SumFunctionOnSet(v, B)
  BY <1>4, <1>5, <1>6, SumPick
<1>10. SumFunctionOnSet(v, A \cup T) = v[c] + SumFunctionOnSet(v, B \cup T)
  <2>1. (A \cup T) \ {c} = B \cup T BY <1>4, <1>5, <1>6
  <2> QED BY <1>4, <1>6, <2>1, SumPick
<1>11. SumFunctionOnSet(v, B) \in Int /\ v[c] \in Int
  BY <1>4, <1>6, SumType
<1> QED BY <1>1, <1>2, <1>8, <1>9, <1>10, <1>11

LEMMA SumAdds ==
  ASSUME NEW S, IsFiniteSet(S), NEW u, NEW v, NEW w,
         \A x \in S : v[x] \in Int /\ w[x] \in Int /\ u[x] = v[x] + w[x]
  PROVE  SumFunctionOnSet(u, S) = SumFunctionOnSet(v, S) + SumFunctionOnSet(w, S)
<1> DEFINE Bad == {s \in SUBSET S :
             SumFunctionOnSet(u, s) # SumFunctionOnSet(v, s) + SumFunctionOnSet(w, s)}
<1> SUFFICES ASSUME Bad # {} PROVE FALSE
  OBVIOUS
<1>1. PICK A \in Bad : \A B \in Bad : B \subseteq A => B = A
  <2>1. Bad \subseteq SUBSET S OBVIOUS
  <2> HIDE DEF Bad
  <2> QED BY <2>1, LeastSubset
<1>2. A # {}
  <2>1. SumFunctionOnSet(u, {}) = SumFunctionOnSet(v, {}) + SumFunctionOnSet(w, {})
    BY SumEmpty
  <2> QED BY <1>1, <2>1
<1>3. PICK c : c = Chosen(A) OBVIOUS
<1>4. PICK B : B = A \ {c} OBVIOUS
<1>5. /\ c \in A /\ A \subseteq S /\ IsFiniteSet(A) /\ IsFiniteSet(B) /\ B \subseteq S
  BY <1>1, <1>2, <1>3, <1>4, ChosenIn, FS_Subset
<1>6. SumFunctionOnSet(u, B) = SumFunctionOnSet(v, B) + SumFunctionOnSet(w, B)
  <2>1. B \notin Bad BY <1>1, <1>4, <1>5
  <2> QED BY <1>5, <2>1
<1>7. /\ SumFunctionOnSet(u, A) = u[c] + SumFunctionOnSet(u, B)
      /\ SumFunctionOnSet(v, A) = v[c] + SumFunctionOnSet(v, B)
      /\ SumFunctionOnSet(w, A) = w[c] + SumFunctionOnSet(w, B)
  BY <1>2, <1>3, <1>4, <1>5, SumChosen
<1>8. /\ SumFunctionOnSet(v, B) \in Int /\ SumFunctionOnSet(w, B) \in Int
      /\ v[c] \in Int /\ w[c] \in Int /\ u[c] = v[c] + w[c]
  BY <1>5, SumType
<1> QED BY <1>1, <1>6, <1>7, <1>8

(* Terms that are not negative only add. *)
LEMMA SumPart ==
  ASSUME NEW T, IsFiniteSet(T), NEW S \in SUBSET T, NEW v, \A x \in T : v[x] \in Nat
  PROVE  SumFunctionOnSet(v, S) <= SumFunctionOnSet(v, T)
<1>1. PICK R : R = T \ S OBVIOUS
<1>2. IsFiniteSet(S) /\ IsFiniteSet(R) /\ S \cap R = {} /\ S \cup R = T
  BY <1>1, FS_Subset
<1>3. SumFunctionOnSet(v, T) = SumFunctionOnSet(v, S) + SumFunctionOnSet(v, R)
  BY <1>2, SumUnion
<1>4. SumFunctionOnSet(v, S) \in Nat /\ SumFunctionOnSet(v, R) \in Nat
  BY <1>1, <1>2, SumType
<1> QED BY <1>3, <1>4

-----------------------------------------------------------------------------
(****************************************************************************)
(* Statements.  Bills that were not forced stand behind every account: one  *)
(* still to be sent, or just sent, has no payment; one read PAID by a       *)
(* summary is PAID still, at the total that was read; and without an edit   *)
(* between the two queries every bill is counted as it was read.            *)
(****************************************************************************)
UnsentUnpaid ==
  \A b \in Bills \ forced : bill[b].status \in {"DRAFT", "SENT"} => bill[b].paid = 0

ReadStands ==
  \A b \in Bills :
    /\ summary.read[b].status = "PAID" =>
         bill[b].status = "PAID" /\ bill[b].total = summary.read[b].total
    /\ ~patched =>
         /\ bill[b].total = summary.read[b].total
         /\ (bill[b].status \in Counted(summary.of)
               <=> summary.read[b].status \in Counted(summary.of))

Balanced ==
  /\ summary.invoiced = summary.paid + summary.pending
  /\ ~patched => summary.pending = summary.owed

StatementsInv ==
  /\ StatementsTypeOK /\ UnsentUnpaid
  /\ forced = {} /\ summary.pc = "payments" => ReadStands
  /\ forced = {} /\ summary.pc = "drawn" => Balanced

LEMMA StatementsFacts ==
  ASSUME StatementsTypeOK
  PROVE  /\ \A b \in Bills : /\ bill[b] \in BillRow
                             /\ bill[b].status \in BillStatus
                             /\ bill[b].total \in 0..MaxTotal
                             /\ bill[b].paid \in 0..MaxTotal
         /\ summary.pc = "payments" =>
              /\ summary.of \in {"firm", "client"}
              /\ \A b \in Bills : /\ summary.read[b] \in BillRow
                                  /\ summary.read[b].status \in BillStatus
                                  /\ summary.read[b].total \in 0..MaxTotal
         /\ patched \in BOOLEAN /\ MaxTotal \in Nat /\ IsFiniteSet(Bills)
<1>1. \A newRow \in BillRow : /\ newRow.status \in BillStatus /\ newRow.total \in 0..MaxTotal
                           /\ newRow.paid \in 0..MaxTotal
  BY DEF BillRow
<1>2. \A b \in Bills : bill[b] \in BillRow BY DEF StatementsTypeOK
<1>3. summary.pc = "payments" =>
        summary.of \in {"firm", "client"} /\ \A b \in Bills : summary.read[b] \in BillRow
  BY DEF StatementsTypeOK, Summaries, NoSummary
<1> QED BY <1>1, <1>2, <1>3, StatementsOK DEF StatementsTypeOK

(* The sums of an account balance when each bill counted does. *)
LEMMA DrawnBalances ==
  ASSUME IsFiniteSet(Bills), NEW billRows,
         \A b \in Bills : /\ billRows[b].total \in Nat /\ billRows[b].paid \in Nat
                          /\ billRows[b].status = "PAID" => billRows[b].paid = billRows[b].total,
         NEW bills \in SUBSET Bills
  PROVE  /\ SumFunctionOnSet(Totals(billRows), bills) \in Nat
         /\ SumFunctionOnSet(Payments(billRows), bills) \in Nat
         /\ SumFunctionOnSet(Balances(billRows), bills) \in Int
         /\ SumFunctionOnSet(Totals(billRows), bills) =
              SumFunctionOnSet(Payments(billRows), bills) + SumFunctionOnSet(Balances(billRows), bills)
<1>1. PICK u : u = Totals(billRows) OBVIOUS
<1>2. PICK v : v = Payments(billRows) OBVIOUS
<1>3. PICK w : w = Balances(billRows) OBVIOUS
<1>4. IsFiniteSet(bills) BY FS_Subset
<1>5. \A b \in bills : u[b] \in Nat /\ v[b] \in Nat /\ w[b] \in Int /\ u[b] = v[b] + w[b]
  BY <1>1, <1>2, <1>3 DEF Totals, Payments, Balances, Owed
<1>6. SumFunctionOnSet(u, bills) = SumFunctionOnSet(v, bills) + SumFunctionOnSet(w, bills)
  <2>1. \A b \in bills : v[b] \in Int /\ w[b] \in Int /\ u[b] = v[b] + w[b] BY <1>5
  <2> QED BY <1>4, <2>1, SumAdds
<1>7. /\ SumFunctionOnSet(u, bills) \in Nat /\ SumFunctionOnSet(v, bills) \in Nat
      /\ SumFunctionOnSet(w, bills) \in Int
  BY <1>4, <1>5, SumType
<1> QED BY <1>1, <1>2, <1>3, <1>6, <1>7

(* A bill's balance is an integer whatever was done by hand. *)
LEMMA DrawnTyped ==
  ASSUME IsFiniteSet(Bills), NEW billRows,
         \A b \in Bills : billRows[b].total \in Nat /\ billRows[b].paid \in Nat,
         NEW bills \in SUBSET Bills
  PROVE  /\ SumFunctionOnSet(Totals(billRows), bills) \in Nat
         /\ SumFunctionOnSet(Payments(billRows), bills) \in Nat
         /\ SumFunctionOnSet(Balances(billRows), bills) \in Int
<1>1. PICK u : u = Totals(billRows) OBVIOUS
<1>2. PICK v : v = Payments(billRows) OBVIOUS
<1>3. PICK w : w = Balances(billRows) OBVIOUS
<1>4. IsFiniteSet(bills) BY FS_Subset
<1>5. \A b \in bills : u[b] \in Nat /\ v[b] \in Nat /\ w[b] \in Int
  BY <1>1, <1>2, <1>3 DEF Totals, Payments, Balances, Owed
<1>6. /\ SumFunctionOnSet(u, bills) \in Nat /\ SumFunctionOnSet(v, bills) \in Nat
      /\ SumFunctionOnSet(w, bills) \in Int
  BY <1>4, <1>5, SumType
<1> QED BY <1>1, <1>2, <1>3, <1>6

LEMMA FetchBillsHolds ==
  ASSUME StatementsInv, NEW of \in {"firm", "client"}, FetchBills(of) PROVE StatementsInv'
<1> USE DEF FetchBills
<1>1. /\ summary'.pc = "payments" /\ summary'.of = of /\ summary'.read = bill
      /\ summary' \in Summaries /\ patched' = FALSE
  BY DEF StatementsInv, StatementsTypeOK, Summaries
<1>2. UnsentUnpaid' BY DEF StatementsInv, UnsentUnpaid
<1>3. StatementsTypeOK' BY <1>1 DEF StatementsInv, StatementsTypeOK
<1>4. ReadStands' BY <1>1 DEF ReadStands
<1> QED BY <1>1, <1>2, <1>3, <1>4 DEF StatementsInv

LEMMA GiveSummaryHolds ==
  ASSUME StatementsInv, GiveSummary PROVE StatementsInv'
<1>1. summary' = NoSummary /\ summary'.pc = "none" BY DEF GiveSummary, NoSummary
<1>2. UnsentUnpaid' BY DEF StatementsInv, UnsentUnpaid, GiveSummary
<1>3. StatementsTypeOK' BY <1>1 DEF StatementsInv, StatementsTypeOK, GiveSummary
<1> QED BY <1>1, <1>2, <1>3 DEF StatementsInv

LEMMA FetchPaymentsHolds ==
  ASSUME StatementsInv, FetchPayments PROVE StatementsInv'
<1>1. PICK billRows : billRows = [b \in Bills |-> [summary.read[b] EXCEPT !.paid = bill[b].paid]]
  OBVIOUS
<1>2. PICK of : of = summary.of OBVIOUS
<1>3. StatementsTypeOK BY DEF StatementsInv
<1>4. /\ \A b \in Bills : /\ billRows[b].status = summary.read[b].status
                          /\ billRows[b].total = summary.read[b].total
                          /\ billRows[b].paid = bill[b].paid
      /\ of \in {"firm", "client"} /\ summary.pc = "payments"
  BY <1>1, <1>2, <1>3, StatementsFacts DEF BillRow, FetchPayments
<1>5. \A b \in Bills : billRows[b].total \in Nat /\ billRows[b].paid \in Nat
  BY <1>3, <1>4, StatementsFacts
<1>6. \A b \in Bills : bill[b].total \in Nat /\ bill[b].paid \in Nat
  BY <1>3, StatementsFacts
<1>7. summary' = Drawn(of, billRows) /\ UNCHANGED <<bill, held, forced, patched>>
  BY <1>1, <1>2 DEF FetchPayments
<1>8. PICK counted : counted = BillsCounted(of, billRows) OBVIOUS
<1>9. PICK standing : standing = BillsCounted(of, bill) OBVIOUS
<1>10. counted \in SUBSET Bills /\ standing \in SUBSET Bills
  BY <1>8, <1>9 DEF BillsCounted
<1>11. IsFiniteSet(Bills) BY StatementsOK
<1>12. /\ summary'.pc = "drawn" /\ summary'.of = of
       /\ summary'.invoiced = SumFunctionOnSet(Totals(billRows), counted)
       /\ summary'.paid = SumFunctionOnSet(Payments(billRows), counted)
       /\ summary'.pending = SumFunctionOnSet(Balances(billRows), counted)
       /\ summary'.owed = SumFunctionOnSet(Balances(bill), standing)
  BY <1>7, <1>8, <1>9 DEF Drawn, OwedOn
<1>13. summary' \in Summaries
  <2>1. /\ SumFunctionOnSet(Totals(billRows), counted) \in Nat
        /\ SumFunctionOnSet(Payments(billRows), counted) \in Nat
        /\ SumFunctionOnSet(Balances(billRows), counted) \in Int
    BY <1>5, <1>10, <1>11, DrawnTyped
  <2>2. SumFunctionOnSet(Balances(bill), standing) \in Int
    BY <1>6, <1>10, <1>11, DrawnTyped
  <2> QED BY <1>4, <1>7, <1>8, <1>9, <2>1, <2>2 DEF Drawn, OwedOn, Summaries
<1>14. StatementsTypeOK' BY <1>3, <1>7, <1>13 DEF StatementsTypeOK
<1>15. UnsentUnpaid' BY <1>7 DEF StatementsInv, UnsentUnpaid
<1>16. ASSUME forced' = {} PROVE Balanced'
  <2>1. ReadStands /\ forced = {} BY <1>4, <1>7, <1>16 DEF StatementsInv
  <2>2. \A b \in Bills : bill[b].status = "PAID" => bill[b].paid = bill[b].total
    BY <1>3, <2>1 DEF StatementsTypeOK
  <2>3. \A b \in Bills : billRows[b].status = "PAID" => billRows[b].paid = billRows[b].total
    BY <1>4, <2>1, <2>2 DEF ReadStands
  <2>4. summary'.invoiced = summary'.paid + summary'.pending
    BY <1>5, <1>10, <1>11, <1>12, <2>3, DrawnBalances
  <2>5. ASSUME ~patched PROVE summary'.pending = summary'.owed
    <3>1. counted = standing
      BY <1>2, <1>4, <1>8, <1>9, <2>1, <2>5 DEF ReadStands, BillsCounted
    <3>2. PICK v : v = Balances(billRows) OBVIOUS
    <3>3. PICK w : w = Balances(bill) OBVIOUS
    <3>4. \A b \in Bills : v[b] = w[b]
      <4> SUFFICES ASSUME NEW b \in Bills PROVE v[b] = w[b] OBVIOUS
      <4>1. billRows[b].total = bill[b].total /\ billRows[b].paid = bill[b].paid
        BY <1>4, <2>1, <2>5 DEF ReadStands
      <4>2. /\ billRows[b].status = "PAID" => bill[b].paid = bill[b].total
            /\ bill[b].status = "PAID" => bill[b].paid = bill[b].total
        BY <2>2, <2>3, <4>1
      <4>3. v[b] = Owed(billRows, b) /\ w[b] = Owed(bill, b) BY <3>2, <3>3 DEF Balances
      <4> QED BY <1>6, <4>1, <4>2, <4>3 DEF Owed
    <3>5. IsFiniteSet(counted) BY <1>10, <1>11, FS_Subset
    <3>6. SumFunctionOnSet(v, counted) = SumFunctionOnSet(w, counted)
      BY <1>10, <3>4, <3>5, SumSame
    <3> QED BY <1>12, <3>1, <3>2, <3>3, <3>6
  <2> QED BY <1>7, <2>4, <2>5 DEF Balanced
<1> QED BY <1>12, <1>14, <1>15, <1>16 DEF StatementsInv

(* A bill's row written: it stands as its place in the accounts requires,   *)
(* and what a summary has read of it stands too.                            *)
RowStands(b, newRow) ==
  /\ newRow \in BillRow
  /\ b \notin forced' =>
       /\ newRow.status \in {"DRAFT", "SENT"} => newRow.paid = 0
       /\ newRow.paid <= newRow.total
       /\ newRow.status = "PAID" => newRow.paid = newRow.total
       /\ bill[b].status = "PAID" => newRow.status = "PAID" /\ newRow.total = bill[b].total
  /\ ~patched' /\ summary.pc = "payments" =>
       /\ newRow.total = bill[b].total
       /\ \A of \in {"firm", "client"} :
            (newRow.status \in Counted(of) <=> bill[b].status \in Counted(of))

LEMMA BillWritten ==
  ASSUME StatementsInv, NEW b \in Bills, NEW newRow, RowStands(b, newRow),
         BecomesBill(b, newRow), UNCHANGED summary,
         forced' \in {forced, forced \cup {b}}, patched' \in BOOLEAN, patched => patched'
  PROVE  StatementsInv'
<1>1. StatementsTypeOK BY DEF StatementsInv
<1>2. bill'[b] = newRow /\ \A c \in Bills \ {b} : bill'[c] = bill[c]
  BY <1>1 DEF StatementsTypeOK, BecomesBill
<1>3. StatementsTypeOK'
  <2>1. bill' \in [Bills -> BillRow] BY <1>1 DEF StatementsTypeOK, RowStands, BecomesBill
  <2>2. \A c \in Bills \ forced' : /\ bill'[c].paid <= bill'[c].total
                                   /\ bill'[c].status = "PAID" => bill'[c].paid = bill'[c].total
    <3> SUFFICES ASSUME NEW c \in Bills \ forced'
                 PROVE  /\ bill'[c].paid <= bill'[c].total
                        /\ bill'[c].status = "PAID" => bill'[c].paid = bill'[c].total
      OBVIOUS
    <3>1. CASE c = b BY <1>2, <3>1 DEF RowStands
    <3>2. CASE c # b BY <1>1, <1>2, <3>2 DEF StatementsTypeOK
    <3> QED BY <3>1, <3>2
  <2>3. forced' \subseteq Bills BY <1>1 DEF StatementsTypeOK
  <2>4. /\ held' \in [Bills -> SUBSET BillStatus]
        /\ \A c \in Bills : bill'[c].status \in held'[c]
    <3>1. newRow.status \in BillStatus BY DEF RowStands, BillRow
    <3>2. /\ held'[b] = held[b] \cup {newRow.status}
          /\ \A c \in Bills \ {b} : held'[c] = held[c]
          /\ held' \in [Bills -> SUBSET BillStatus]
      BY <1>1, <3>1 DEF StatementsTypeOK, BecomesBill
    <3> QED BY <1>1, <1>2, <3>2 DEF StatementsTypeOK
  <2> QED BY <1>1, <2>1, <2>2, <2>3, <2>4 DEF StatementsTypeOK
<1>4. UnsentUnpaid'
  <2> SUFFICES ASSUME NEW c \in Bills \ forced', bill'[c].status \in {"DRAFT", "SENT"}
               PROVE  bill'[c].paid = 0
    BY DEF UnsentUnpaid
  <2>1. CASE c = b BY <1>2, <2>1 DEF RowStands
  <2>2. CASE c # b BY <1>2, <2>2 DEF StatementsInv, UnsentUnpaid
  <2> QED BY <2>1, <2>2
<1>5. ASSUME forced' = {}, summary.pc = "payments" PROVE ReadStands'
  <2>1. ReadStands /\ summary.of \in {"firm", "client"}
    BY <1>1, <1>5, StatementsFacts DEF StatementsInv
  <2> SUFFICES ASSUME NEW c \in Bills
               PROVE  /\ summary.read[c].status = "PAID" =>
                           bill'[c].status = "PAID" /\ bill'[c].total = summary.read[c].total
                      /\ ~patched' =>
                           /\ bill'[c].total = summary.read[c].total
                           /\ (bill'[c].status \in Counted(summary.of)
                                 <=> summary.read[c].status \in Counted(summary.of))
    BY DEF ReadStands
  <2>2. /\ summary.read[c].status = "PAID" =>
             bill[c].status = "PAID" /\ bill[c].total = summary.read[c].total
        /\ ~patched' =>
             /\ bill[c].total = summary.read[c].total
             /\ (bill[c].status \in Counted(summary.of)
                   <=> summary.read[c].status \in Counted(summary.of))
    BY <2>1 DEF ReadStands
  <2>3. CASE c # b BY <1>2, <2>2, <2>3
  <2>4. CASE c = b
    <3>1. /\ bill[b].status = "PAID" => newRow.status = "PAID" /\ newRow.total = bill[b].total
          /\ ~patched' => /\ newRow.total = bill[b].total
                          /\ (newRow.status \in Counted(summary.of)
                                <=> bill[b].status \in Counted(summary.of))
      BY <1>5, <2>1 DEF RowStands
    <3> QED BY <1>2, <2>2, <2>4, <3>1
  <2> QED BY <2>3, <2>4
<1>6. ASSUME forced' = {}, summary.pc = "drawn" PROVE Balanced'
  <2>1. Balanced BY <1>6 DEF StatementsInv
  <2> QED BY <2>1 DEF Balanced
<1> QED BY <1>3, <1>4, <1>5, <1>6 DEF StatementsInv

LEMMA PayBillHolds ==
  ASSUME StatementsInv, NEW b \in Bills, NEW amount \in 1..MaxTotal, PayBill(b, amount)
  PROVE  StatementsInv'
<1>1. StatementsTypeOK BY DEF StatementsInv
<1>2. PICK old : old = bill[b] OBVIOUS
<1>3. PICK newRow : newRow = bill'[b] OBVIOUS
<1>4. /\ old \in BillRow /\ old.status \in {"SENT", "PARTIALLY_PAID", "OVERDUE"}
      /\ old.total \in 0..MaxTotal /\ old.paid \in 0..MaxTotal /\ amount \in Nat
      /\ amount <= old.total - old.paid /\ MaxTotal \in Nat
      /\ UNCHANGED <<summary, forced, patched>> /\ patched \in BOOLEAN
  BY <1>1, <1>2, StatementsFacts DEF PayBill
<1>5. /\ BecomesBill(b, newRow)
      /\ newRow = [old EXCEPT !.paid = @ + amount, !.status = PaidStatus(old, amount)]
  BY <1>1, <1>2, <1>3 DEF PayBill, BecomesBill, StatementsTypeOK
<1>6. /\ newRow = [status |-> PaidStatus(old, amount), total |-> old.total,
                paid |-> old.paid + amount]
      /\ PaidStatus(old, amount) \in {"PAID", "PARTIALLY_PAID"}
  BY <1>4, <1>5 DEF BillRow, PaidStatus
<1>7. old.paid + amount \in 0..MaxTotal /\ old.paid + amount <= old.total BY <1>4
<1>8. PaidStatus(old, amount) = "PAID" => old.paid + amount = old.total
  BY <1>4, <1>7 DEF PaidStatus
<1>9. RowStands(b, newRow)
  <2>1. newRow \in BillRow BY <1>4, <1>6, <1>7 DEF BillRow, BillStatus
  <2>2. \A of \in {"firm", "client"} :
          newRow.status \in Counted(of) /\ old.status \in Counted(of)
    BY <1>4, <1>6 DEF Counted, BillStatus
  <2> QED BY <1>2, <1>4, <1>6, <1>7, <1>8, <2>1, <2>2 DEF RowStands
<1> QED BY <1>4, <1>5, <1>9, BillWritten

(* An edit that read the row as it stands keeps to the table, and leaves    *)
(* what was paid; any other forces the bill.                                *)
LEMMA EditBillHolds ==
  ASSUME StatementsInv, NEW b \in Bills, NEW seen \in BillStatus,
         NEW newRow \in BillRow, EditBill(b, seen, newRow), newRow.paid = bill[b].paid,
         newRow.status = seen \/ newRow.status \in BillTransitions[seen]
  PROVE  StatementsInv'
<1>1. StatementsTypeOK BY DEF StatementsInv
<1>2. PICK old : old = bill[b] OBVIOUS
<1>3. /\ old \in BillRow /\ old.status \in BillStatus /\ patched \in BOOLEAN
      /\ newRow.status \in BillStatus /\ newRow.paid \in Nat /\ newRow.total \in Nat
      /\ old.total \in Nat
  BY <1>1, <1>2, StatementsFacts DEF BillRow
<1>4. /\ BecomesBill(b, newRow) /\ UNCHANGED summary
      /\ forced' \in {forced, forced \cup {b}}
      /\ patched' = (patched \/ summary.pc = "payments")
  BY DEF EditBill
<1>5. ASSUME b \notin forced'
      PROVE  /\ old.status = seen /\ b \notin forced
             /\ newRow.status = "PAID" => old.status = "PAID"
             /\ newRow.total = old.total \/ old.status = "DRAFT"
  BY <1>2, <1>5 DEF EditBill
<1>6. /\ seen = "PAID" => newRow.status = "PAID"
      /\ newRow.status = "DRAFT" => seen = "DRAFT"
      /\ newRow.status = "SENT" => seen \in {"DRAFT", "SENT"}
  BY DEF BillTransitions, BillStatus
<1>7. ASSUME b \notin forced'
      PROVE  /\ newRow.status \in {"DRAFT", "SENT"} => newRow.paid = 0
             /\ newRow.paid <= newRow.total
             /\ newRow.status = "PAID" => newRow.paid = newRow.total
             /\ old.status = "PAID" => newRow.status = "PAID" /\ newRow.total = old.total
  <2>1. /\ old.paid <= old.total /\ newRow.paid = old.paid
        /\ old.status = "PAID" => old.paid = old.total
        /\ old.status \in {"DRAFT", "SENT"} => old.paid = 0
    BY <1>1, <1>2, <1>5, <1>7 DEF StatementsInv, StatementsTypeOK, UnsentUnpaid
  <2> QED BY <1>3, <1>5, <1>6, <1>7, <2>1
<1>8. summary.pc = "payments" => patched' BY <1>4
<1>9. RowStands(b, newRow) BY <1>2, <1>7, <1>8 DEF RowStands
<1>10. patched' \in BOOLEAN /\ (patched => patched') BY <1>3, <1>4
<1> QED BY <1>4, <1>9, <1>10, BillWritten

LEMMA PatchBillHolds ==
  ASSUME StatementsInv, NEW b \in Bills, NEW seen \in BillStatus, NEW status \in BillStatus,
         NEW total \in 0..MaxTotal, PatchBill(b, seen, status, total)
  PROVE  StatementsInv'
<1>1. StatementsTypeOK BY DEF StatementsInv
<1>2. PICK newRow : newRow = [bill[b] EXCEPT !.status = status, !.total = total] OBVIOUS
<1>3. bill[b] \in BillRow BY <1>1, StatementsFacts
<1>4. /\ newRow \in BillRow /\ newRow.status = status /\ newRow.paid = bill[b].paid
  BY <1>2, <1>3 DEF BillRow
<1>5. /\ EditBill(b, seen, newRow)
      /\ newRow.status = seen \/ newRow.status \in BillTransitions[seen]
  BY <1>2, <1>4 DEF PatchBill
<1> QED BY <1>4, <1>5, EditBillHolds

(* The status stays what it is: as it was read, or the bill is forced. *)
LEMMA RetaxBillHolds ==
  ASSUME StatementsInv, NEW b \in Bills, NEW total \in 0..MaxTotal, RetaxBill(b, total)
  PROVE  StatementsInv'
<1>1. StatementsTypeOK BY DEF StatementsInv
<1>2. PICK newRow : newRow = [bill[b] EXCEPT !.total = total] OBVIOUS
<1>3. bill[b] \in BillRow BY <1>1, StatementsFacts
<1>4. /\ newRow \in BillRow /\ newRow.paid = bill[b].paid
      /\ newRow.status = bill[b].status
  BY <1>2, <1>3 DEF BillRow
<1>5. EditBill(b, "DRAFT", newRow) BY <1>2 DEF RetaxBill
<1>6. CASE bill[b].status = "DRAFT"
  BY <1>4, <1>5, <1>6, EditBillHolds DEF BillStatus
<1>7. CASE bill[b].status # "DRAFT"
  <2>1. /\ BecomesBill(b, newRow) /\ UNCHANGED summary
        /\ forced' = forced \cup {b}
        /\ patched' = (patched \/ summary.pc = "payments")
    BY <1>5, <1>7 DEF EditBill
  <2>2. /\ patched \in BOOLEAN /\ b \in forced'
        /\ summary.pc = "payments" => patched'
    BY <1>1, <2>1 DEF StatementsTypeOK
  <2>3. RowStands(b, newRow) BY <1>4, <2>2 DEF RowStands
  <2> QED BY <2>1, <2>2, <2>3, BillWritten
<1> QED BY <1>6, <1>7

LEMMA StatementsSteps ==
  ASSUME StatementsInv, [StatementsNext]_statementVars PROVE StatementsInv'
<1>1. CASE StatementsNext
  BY <1>1, FetchBillsHolds, FetchPaymentsHolds, GiveSummaryHolds, PayBillHolds,
     PatchBillHolds, RetaxBillHolds DEF StatementsNext
<1>2. CASE UNCHANGED statementVars
  <2>1. UNCHANGED <<bill, held, summary, forced, patched>> BY <1>2 DEF statementVars
  <2> QED BY <2>1 DEF StatementsInv, StatementsTypeOK, UnsentUnpaid, ReadStands, Balanced
<1> QED BY <1>1, <1>2

LEMMA StatementsStarts == StatementsInit => StatementsInv
<1> SUFFICES ASSUME StatementsInit PROVE StatementsInv OBVIOUS
<1>1. MaxTotal \in Nat BY StatementsOK
<1>2. bill \in [Bills -> BillRow] BY <1>1 DEF StatementsInit, BillRow, BillStatus
<1>3. \A b \in Bills : /\ bill[b].status = "DRAFT" /\ bill[b].paid = 0
                       /\ bill[b].total \in 0..MaxTotal
  BY DEF StatementsInit
<1>4. \A b \in Bills : bill[b].paid <= bill[b].total /\ bill[b].status # "PAID"
  BY <1>1, <1>3
<1>5. StatementsTypeOK
  <2>1. /\ held \in [Bills -> SUBSET BillStatus]
        /\ \A b \in Bills : bill[b].status \in held[b]
    BY <1>3 DEF StatementsInit, BillStatus
  <2> QED BY <1>2, <1>4, <2>1 DEF StatementsInit, StatementsTypeOK
<1>6. summary.pc = "none" BY DEF StatementsInit, NoSummary
<1> QED BY <1>3, <1>5, <1>6 DEF StatementsInv, UnsentUnpaid

LEMMA StatementsInductive == StatementsSpec => []StatementsInv
BY StatementsStarts, StatementsSteps, PTL DEF StatementsSpec

(* What the client's dashboard and the statistics show is read off the rows *)
(* as they stand.                                                           *)
LEMMA DashboardIsExplained ==
  ASSUME StatementsInv, forced = {} PROVE DashboardExplained
<1>1. PICK total : total = Totals(bill) OBVIOUS
<1>2. PICK owed : owed = Balances(bill) OBVIOUS
<1>3. StatementsTypeOK /\ IsFiniteSet(Bills) BY StatementsOK DEF StatementsInv
<1>4. \A b \in Bills : /\ bill[b].total \in Nat /\ bill[b].paid \in Nat
                       /\ bill[b].status \in BillStatus
  BY <1>3, StatementsFacts
<1>5. \A b \in Bills : total[b] \in Int /\ owed[b] \in Int
  BY <1>1, <1>2, <1>4 DEF Totals, Balances, Owed
<1>6. PICK drafts : drafts = Standing("DRAFT") OBVIOUS
<1>7. PICK justSent : justSent = Standing("SENT") OBVIOUS
<1>8. PICK partly : partly = Standing("PARTIALLY_PAID") OBVIOUS
<1>9. PICK paid : paid = Standing("PAID") OBVIOUS
<1>10. PICK overdue : overdue = Standing("OVERDUE") OBVIOUS
<1>11. /\ drafts \subseteq Bills /\ justSent \subseteq Bills /\ partly \subseteq Bills
       /\ paid \subseteq Bills /\ overdue \subseteq Bills
       /\ drafts \cap justSent = {} /\ (drafts \cup justSent) \cap overdue = {}
       /\ justSent \cap partly = {} /\ (justSent \cup partly) \cap paid = {}
       /\ (justSent \cup partly \cup paid) \cap overdue = {}
  BY <1>6, <1>7, <1>8, <1>9, <1>10 DEF Standing
<1>12. \A X \in SUBSET Bills : IsFiniteSet(X) BY <1>3, FS_Subset
<1>13. DashboardBills = (drafts \cup justSent) \cup overdue
  BY <1>6, <1>7, <1>10 DEF DashboardBills, Standing
<1>14. BillsCounted("client", bill) = (justSent \cup partly \cup paid) \cup overdue
  BY <1>4, <1>7, <1>8, <1>9, <1>10 DEF BillsCounted, Counted, Standing, BillStatus
<1>15. DashboardBills \cap overdue = overdue BY <1>13
<1>16. SumFunctionOnSet(total, DashboardBills)
         = SumFunctionOnSet(total, drafts) + SumFunctionOnSet(total, justSent)
           + SumFunctionOnSet(total, overdue)
  <2>1. SumFunctionOnSet(total, drafts \cup justSent)
          = SumFunctionOnSet(total, drafts) + SumFunctionOnSet(total, justSent)
    BY <1>5, <1>11, <1>12, SumUnion
  <2>2. SumFunctionOnSet(total, (drafts \cup justSent) \cup overdue)
          = SumFunctionOnSet(total, drafts \cup justSent) + SumFunctionOnSet(total, overdue)
    BY <1>5, <1>11, <1>12, SumUnion
  <2> QED BY <1>13, <2>1, <2>2
<1>17. SumFunctionOnSet(owed, BillsCounted("client", bill))
         = SumFunctionOnSet(owed, justSent) + SumFunctionOnSet(owed, partly)
           + SumFunctionOnSet(owed, paid) + SumFunctionOnSet(owed, overdue)
  <2>1. SumFunctionOnSet(owed, justSent \cup partly)
          = SumFunctionOnSet(owed, justSent) + SumFunctionOnSet(owed, partly)
    BY <1>5, <1>11, <1>12, SumUnion
  <2>2. SumFunctionOnSet(owed, (justSent \cup partly) \cup paid)
          = SumFunctionOnSet(owed, justSent \cup partly) + SumFunctionOnSet(owed, paid)
    BY <1>5, <1>11, <1>12, SumUnion
  <2>3. SumFunctionOnSet(owed, (justSent \cup partly \cup paid) \cup overdue)
          = SumFunctionOnSet(owed, justSent \cup partly \cup paid) + SumFunctionOnSet(owed, overdue)
    BY <1>5, <1>11, <1>12, SumUnion
  <2> QED BY <1>14, <2>1, <2>2, <2>3
<1>18. SumFunctionOnSet(owed, justSent) = SumFunctionOnSet(total, justSent)
  <2>1. \A b \in justSent : owed[b] = total[b]
    <3> SUFFICES ASSUME NEW b \in justSent PROVE owed[b] = total[b] OBVIOUS
    <3>1. b \in Bills /\ bill[b].status = "SENT" BY <1>7 DEF Standing
    <3>2. bill[b].paid = 0 BY <3>1 DEF StatementsInv, UnsentUnpaid
    <3> QED BY <1>1, <1>2, <1>4, <3>1, <3>2 DEF Totals, Balances, Owed
  <2> QED BY <1>11, <1>12, <2>1, SumSame
<1>19. SumFunctionOnSet(owed, paid) = 0
  <2>1. PICK none : none = [b \in Bills |-> 0] OBVIOUS
  <2>2. \A b \in paid : owed[b] = none[b] + owed[b] /\ owed[b] = 0 /\ none[b] = 0
    BY <1>2, <1>9, <1>11, <2>1 DEF Standing, Balances, Owed
  <2>3. \A b \in paid : owed[b] \in Int /\ owed[b] = owed[b] + owed[b] BY <2>2
  <2>4. SumFunctionOnSet(owed, paid)
          = SumFunctionOnSet(owed, paid) + SumFunctionOnSet(owed, paid)
    BY <1>11, <1>12, <2>3, SumAdds
  <2>5. SumFunctionOnSet(owed, paid) \in Int BY <1>5, <1>11, <1>12, SumType
  <2>6. PICK sum : sum = SumFunctionOnSet(owed, paid) OBVIOUS
  <2>7. sum \in Int /\ sum = sum + sum BY <2>4, <2>5, <2>6
  <2>8. sum = 0 BY <2>7
  <2> QED BY <2>6, <2>8
<1>20. \A X \in SUBSET Bills :
         SumFunctionOnSet(total, X) \in Int /\ SumFunctionOnSet(owed, X) \in Int
  BY <1>5, <1>12, SumType
<1>21. /\ Dashboard.pending = SumFunctionOnSet(total, DashboardBills)
       /\ Dashboard.overdue = SumFunctionOnSet(total, overdue)
       /\ OwedOn("client", bill) = SumFunctionOnSet(owed, BillsCounted("client", bill))
       /\ TotalOf(Standing("DRAFT")) = SumFunctionOnSet(total, drafts)
       /\ OwedBy(Standing("OVERDUE")) = SumFunctionOnSet(owed, overdue)
       /\ OwedBy(Standing("PARTIALLY_PAID")) = SumFunctionOnSet(owed, partly)
  BY <1>1, <1>2, <1>6, <1>8, <1>10, <1>15 DEF Dashboard, OwedOn, TotalOf, OwedBy
<1>22. /\ SumFunctionOnSet(total, drafts) \in Int /\ SumFunctionOnSet(total, justSent) \in Int
       /\ SumFunctionOnSet(total, overdue) \in Int /\ SumFunctionOnSet(owed, partly) \in Int
       /\ SumFunctionOnSet(owed, overdue) \in Int
  BY <1>11, <1>20
<1> QED BY <1>16, <1>17, <1>18, <1>19, <1>21, <1>22 DEF DashboardExplained

LEMMA StatisticsAgree ==
  ASSUME StatementsInv, forced = {} PROVE PaidTotal <= Collected
<1>1. PICK total : total = Totals(bill) OBVIOUS
<1>2. PICK payments : payments = Payments(bill) OBVIOUS
<1>3. PICK paid : paid = Standing("PAID") OBVIOUS
<1>4. StatementsTypeOK /\ IsFiniteSet(Bills) BY StatementsOK DEF StatementsInv
<1>5. \A b \in Bills : payments[b] \in Nat
  BY <1>2, <1>4, StatementsFacts DEF Payments
<1>6. paid \in SUBSET Bills /\ \A b \in paid : total[b] = payments[b]
  BY <1>1, <1>2, <1>3, <1>4 DEF Standing, StatementsTypeOK, Totals, Payments
<1>7. SumFunctionOnSet(total, paid) = SumFunctionOnSet(payments, paid)
  BY <1>4, <1>6, FS_Subset, SumSame
<1>8. SumFunctionOnSet(payments, paid) <= SumFunctionOnSet(payments, Bills)
  BY <1>4, <1>5, <1>6, SumPart
<1> QED BY <1>1, <1>2, <1>3, <1>7, <1>8 DEF PaidTotal, Collected, TotalOf

LEMMA AccountsAreAgreed == StatementsInv => AccountsAgree
BY DashboardIsExplained, StatisticsAgree DEF StatementsInv, AccountsAgree, Balanced

(* Whatever bills the case has, however many edits are under way beside the *)
(* payments and the summary: as long as no bill was set PAID by hand, none  *)
(* was retaxed after it was sent and no edit came to write on news out of   *)
(* date, every summary balances and shows what is owed, what the statistics *)
(* count as paid was collected, and the dashboard's pending departs from    *)
(* the summary's in the known ways only.                                    *)
THEOREM AccountsDoAgree == StatementsSpec => []AccountsAgree
BY StatementsInductive, AccountsAreAgreed, PTL

-----------------------------------------------------------------------------
(****************************************************************************)
(* The office.  The part that runs holds its own invariant; the parts with  *)
(* variables of their own always hold theirs; and the timeline rests while  *)
(* another part runs.                                                       *)
(****************************************************************************)
RunningHeld ==
  /\ part = "calendar"  => CalendarInv
  /\ part = "twoFactor" => TwoFactorInv
  /\ part = "accounts"  => AccountsInv
  /\ part = "team"      => IInv
  /\ part = "caseWork"  => CaseWorkInv
  /\ part = "access"    => AccessInv

OwnHeld == CreationInv /\ ViewsInv /\ StatementsInv /\ InboxInv /\ SoftDeleteInv

TimelineRests ==
  part # "caseWork" =>
    /\ item = [i \in Items |-> None] /\ timeline = <<>> /\ unlogged = {}
    /\ reading = NoReading

OfficeInv == part \in Parts /\ RunningHeld /\ OwnHeld /\ TimelineRests

LEMMA OfficeStarts == OfficeInit => OfficeInv
<1> SUFFICES ASSUME OfficeInit PROVE OfficeInv OBVIOUS
<1>1. /\ part \in Parts /\ CalendarInit /\ TwoFactorInit /\ AccountsInit /\ CaseWorkInit
      /\ CreationInit /\ ViewsInit /\ StatementsInit /\ InboxInit /\ SoftDeleteInit
      /\ part \in {"team", "access"} => TeamInit
      /\ call = [r \in Requests |-> NoCall] /\ leaderless = NoCall
  BY DEF OfficeInit
<1>2. OwnHeld
  BY <1>1, CreationStarts, ViewsInductive, StatementsStarts, InboxStarts, SoftDeleteInductive
  DEF OwnHeld
<1>3. part = "access" => AccessInv BY <1>1, AccessStarts DEF AccessInit
<1>4. RunningHeld
  BY <1>1, <1>3, CalendarInductive, TwoFactorInductive, AccountsInductive, TeamStarts,
     CaseWorkStarts DEF RunningHeld
<1>5. TimelineRests BY <1>1 DEF CaseWorkInit, TimelineRests
<1> QED BY <1>1, <1>2, <1>4, <1>5 DEF OfficeInv

(* The parts with variables of their own move one at a time or not at all.  *)
LEMMA OwnStep ==
  ASSUME OwnHeld, [CreationNext]_creationVars, [ViewsNext]_viewVars,
         [StatementsNext]_statementVars, [InboxNext]_inboxVars, [SoftDeleteNext]_softDeleteVars
  PROVE  OwnHeld'
<1>1. CreationInv' BY CreationSteps DEF OwnHeld
<1>2. ViewsInv' BY ViewsInductive DEF OwnHeld
<1>3. StatementsInv' BY StatementsSteps DEF OwnHeld
<1>4. InboxInv' BY InboxSteps DEF OwnHeld
<1>5. SoftDeleteInv' BY SoftDeleteInductive DEF OwnHeld
<1> QED BY <1>1, <1>2, <1>3, <1>4, <1>5 DEF OwnHeld

(* A part of those that share the requests moves. *)
LEMMA SharedStep ==
  ASSUME OfficeInv, UNCHANGED <<part, creationVars, viewVars, statementVars, inboxVars,
                                softDeleteVars>>,
         \/ part = "calendar" /\ CalendarNext
         \/ part = "twoFactor" /\ TwoFactorNext
         \/ part = "accounts" /\ AccountsNext
         \/ part = "team" /\ TeamNext
         \/ part = "caseWork" /\ CaseWorkNext
         \/ part = "access" /\ AccessNext,
         part # "caseWork" => UNCHANGED caseWorkVars
  PROVE  OfficeInv'
<1>1. OwnHeld'
  <2>1. /\ [CreationNext]_creationVars /\ [ViewsNext]_viewVars /\ [StatementsNext]_statementVars
        /\ [InboxNext]_inboxVars /\ [SoftDeleteNext]_softDeleteVars
    OBVIOUS
  <2> QED BY <2>1, OwnStep DEF OfficeInv
<1>2. part' = part OBVIOUS
<1>3. TimelineRests' BY <1>2 DEF OfficeInv, TimelineRests, caseWorkVars
<1>4. RunningHeld'
  <2>1. RunningHeld BY DEF OfficeInv
  <2>2. CASE part = "calendar" /\ CalendarNext
    <3>1. CalendarInv' BY <2>1, <2>2, CalendarInductive DEF RunningHeld
    <3> QED BY <1>2, <2>2, <3>1 DEF RunningHeld
  <2>3. CASE part = "twoFactor" /\ TwoFactorNext
    <3>1. TwoFactorInv' BY <2>1, <2>3, TwoFactorInductive DEF RunningHeld
    <3> QED BY <1>2, <2>3, <3>1 DEF RunningHeld
  <2>4. CASE part = "accounts" /\ AccountsNext
    <3>1. AccountsInv' BY <2>1, <2>4, AccountsInductive DEF RunningHeld
    <3> QED BY <1>2, <2>4, <3>1 DEF RunningHeld
  <2>5. CASE part = "team" /\ TeamNext
    <3>1. IInv' BY <2>1, <2>5, TeamSteps DEF RunningHeld
    <3> QED BY <1>2, <2>5, <3>1 DEF RunningHeld
  <2>6. CASE part = "caseWork" /\ CaseWorkNext
    <3>1. CaseWorkInv' BY <2>1, <2>6, CaseWorkSteps DEF RunningHeld
    <3> QED BY <1>2, <2>6, <3>1 DEF RunningHeld
  <2>7. CASE part = "access" /\ AccessNext
    <3>1. AccessInv' BY <2>1, <2>7, AccessSteps DEF RunningHeld
    <3> QED BY <1>2, <2>7, <3>1 DEF RunningHeld
  <2> QED BY <2>2, <2>3, <2>4, <2>5, <2>6, <2>7
<1> QED BY <1>1, <1>2, <1>3, <1>4 DEF OfficeInv

(* One of the others moves. *)
LEMMA ApartStep ==
  ASSUME OfficeInv, UNCHANGED <<part, req, calendarVars, twoFactorVars, accountVars, teamRows,
                                caseWorkVars, accessVars>>,
         [CreationNext]_creationVars, [ViewsNext]_viewVars,
         [StatementsNext]_statementVars, [InboxNext]_inboxVars, [SoftDeleteNext]_softDeleteVars
  PROVE  OfficeInv'
<1>1. OwnHeld' BY OwnStep DEF OfficeInv
<1>2. part' = part OBVIOUS
<1>3. TimelineRests' BY <1>2 DEF OfficeInv, TimelineRests, caseWorkVars
<1>4. RunningHeld'
  <2>1. RunningHeld BY DEF OfficeInv
  <2>2. UNCHANGED teamVars /\ UNCHANGED <<teamVars, accessVars>> BY DEF teamRows, teamVars
  <2>3. part = "calendar" => CalendarInv' BY <2>1, CalendarInductive DEF RunningHeld
  <2>4. part = "twoFactor" => TwoFactorInv' BY <2>1, TwoFactorInductive DEF RunningHeld
  <2>5. part = "accounts" => AccountsInv' BY <2>1, AccountsInductive DEF RunningHeld
  <2>6. part = "team" => IInv' BY <2>1, <2>2, TeamSteps DEF RunningHeld
  <2>7. part = "caseWork" => CaseWorkInv' BY <2>1, CaseWorkSteps DEF RunningHeld
  <2>8. part = "access" => AccessInv' BY <2>1, <2>2, AccessSteps DEF RunningHeld
  <2> QED BY <1>2, <2>3, <2>4, <2>5, <2>6, <2>7, <2>8 DEF RunningHeld
<1> QED BY <1>1, <1>2, <1>3, <1>4 DEF OfficeInv

LEMMA OfficeSteps == OfficeInv /\ [OfficeNext]_officeVars => OfficeInv'
<1> SUFFICES ASSUME OfficeInv, [OfficeNext]_officeVars PROVE OfficeInv' OBVIOUS
<1>1. CASE part \in {"calendar", "twoFactor", "accounts", "team", "caseWork", "access"}
           /\ OfficeNext
  <2>1. /\ UNCHANGED <<part, creationVars, viewVars, statementVars, inboxVars, softDeleteVars>>
        /\ part # "caseWork" => UNCHANGED caseWorkVars
        /\ \/ part = "calendar" /\ CalendarNext
           \/ part = "twoFactor" /\ TwoFactorNext
           \/ part = "accounts" /\ AccountsNext
           \/ part = "team" /\ TeamNext
           \/ part = "caseWork" /\ CaseWorkNext
           \/ part = "access" /\ AccessNext
    BY <1>1 DEF OfficeNext
  <2> QED BY <2>1, SharedStep
<1>2. CASE part \in {"creation", "views", "statements", "inbox", "softDelete"} /\ OfficeNext
  <2>1. /\ UNCHANGED <<part, req, calendarVars, twoFactorVars, accountVars, teamRows,
                       caseWorkVars, accessVars>>
        /\ [CreationNext]_creationVars /\ [ViewsNext]_viewVars
        /\ [StatementsNext]_statementVars /\ [InboxNext]_inboxVars
        /\ [SoftDeleteNext]_softDeleteVars
    BY <1>2 DEF OfficeNext
  <2> QED BY <2>1, ApartStep
<1>3. CASE UNCHANGED officeVars
  <2>1. UNCHANGED <<part, req, calendarVars, twoFactorVars, accountVars, teamRows,
                    caseWorkVars, accessVars>>
    BY <1>3 DEF officeVars
  <2>2. UNCHANGED <<creationVars, viewVars, statementVars, inboxVars, softDeleteVars>>
    BY <1>3 DEF officeVars
  <2> QED BY <2>1, <2>2, ApartStep
<1>4. part \in Parts BY DEF OfficeInv
<1> QED BY <1>1, <1>2, <1>3, <1>4 DEF Parts

(* The invariant of the office. *)
THEOREM OfficeInductive == OfficeSpec => []OfficeInv
BY OfficeStarts, OfficeSteps, PTL DEF OfficeSpec

(* Rows, handlers and histories of the part that runs keep their types.     *)
THEOREM OfficeTypeCorrect == OfficeSpec => []OfficeTypeOK
<1>1. OfficeInv => OfficeTypeOK
  <2> SUFFICES ASSUME OfficeInv PROVE OfficeTypeOK OBVIOUS
  <2>1. CreationTypeOK /\ ViewsTypeOK /\ StatementsTypeOK /\ InboxTypeOK /\ SoftDeleteTypeOK
    BY DEF OfficeInv, OwnHeld, CreationInv, ViewsInv, StatementsInv, InboxInv, SoftDeleteInv
  <2>2. /\ part = "calendar" => CalendarTypeOK
        /\ part = "twoFactor" => TwoFactorTypeOK
        /\ part = "accounts" => AccountsTypeOK
        /\ part = "team" => TeamTypeOK
        /\ part = "caseWork" => CaseWorkTypeOK
        /\ part = "access" => AccessTypeOK
    BY DEF OfficeInv, RunningHeld, CalendarInv, TwoFactorInv, AccountsInv, IInv, CaseWorkInv,
           AccessInv
  <2>3. part \in Parts BY DEF OfficeInv
  <2> QED BY <2>1, <2>2, <2>3 DEF OfficeTypeOK, Parts
<1> QED BY <1>1, OfficeInductive, PTL

(* A list or detail with fewer than two writes between its two queries      *)
(* shows or denies its row as of one moment of the call; a lookup finds     *)
(* only a row that was live at some moment of the call (it may return it    *)
(* deleted since), and denies, but for findUnique with a select that leaves *)
(* deletedAt out, only one that was absent or deleted at some moment.  Of   *)
(* an answer with more writes in between, and of such selects, it says      *)
(* nothing.                                                                 *)
THEOREM ReadsAreOfOneMoment == OfficeSpec => []ReadsOfOneMoment
<1>1. OfficeInv => ReadsOfOneMoment
  BY DEF OfficeInv, OwnHeld, ViewsInv, SoftDeleteInv, ReadsOfOneMoment
<1> QED BY <1>1, OfficeInductive, PTL

(* What is done on a case is done by whom its team allowed at some moment   *)
(* of the call, and is told by its timeline (see AccessSound and            *)
(* TimelineSound).                                                          *)
THEOREM DealingsAreInOrder == OfficeSpec => []CaseDealings
<1>1. OfficeInv => CaseDealings
  <2> SUFFICES ASSUME OfficeInv PROVE CaseDealings OBVIOUS
  <2>1. part = "access" => AccessSound BY AccessIsSound DEF OfficeInv, RunningHeld
  <2>2. CASE part = "caseWork"
    <3>1. TimelineSound BY <2>2, TimelineIsSound DEF OfficeInv, RunningHeld
    <3> QED BY <2>1, <3>1 DEF CaseDealings
  <2>3. CASE part # "caseWork"
    <3>1. /\ item = [i \in Items |-> None] /\ DOMAIN timeline = {} /\ reading.pc = "none"
      BY <2>3 DEF OfficeInv, TimelineRests, NoReading
    <3>2. TimelineTells BY <3>1 DEF TimelineTells, Logged, Stands
    <3>3. TimelineSkipsOnlyTies BY <3>1 DEF TimelineSkipsOnlyTies
    <3> QED BY <2>1, <3>2, <3>3 DEF CaseDealings, TimelineSound
  <2> QED BY <2>2, <2>3
<1> QED BY <1>1, OfficeInductive, PTL
=============================================================================
