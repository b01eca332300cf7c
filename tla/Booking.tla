------------------------------- MODULE Booking -------------------------------
(***************************************************************************)
(* Who puts lessons into a tutor's calendar and takes them out again:      *)
(* families in the portal (portal/views.py: booking, cancelling,           *)
(* rescheduling, series), the tutor (lessons/views_crud.py,                *)
(* recurring_views.py) and the clock, with the rule for what is free       *)
(* (lessons/availability.py), the generation of series                     *)
(* (lessons/recurring_service.py) and the archive of what families         *)
(* cancelled (lessons/cancellation_service.py).                            *)
(*                                                                         *)
(* A portal request reads and decides in one step and writes in another;   *)
(* a series is written day by day, except where the tutor's form does it   *)
(* in one transaction.  What else the tutor does is one step.  The         *)
(* calendar is one week, so that a series has at most one lesson on each   *)
(* of its weekdays.                                                        *)
(***************************************************************************)
EXTENDS Naturals, FiniteSets, FiniteSetsExt

CONSTANTS
    Contracts,   \* students
    MaxDay, MaxTime,
    Length,      \* of a lesson, with travel and the minimum gap
    Hours,       \* slots within the tutor's working hours
    MaxLessons,  \* bound: lessons ever created
    MaxSeries,   \* bound: series at a time
    MaxBlocked,  \* bound: blocked slots
    MaxNow,      \* bound: the clock
    SeriesTimes, \* bound: times series are asked for
    Requests,    \* requests that may be under way
    Overlap,     \* may anything happen between the two steps of one?
    None

Days == 1..MaxDay
Times == 1..MaxTime
Slots == [day : Days, time : Times]
LessonIds == 1..MaxLessons
SeriesIds == 1..MaxSeries

ASSUME BookingAssumption ==
    /\ MaxDay \in Nat \ {0} /\ MaxTime \in Nat \ {0} /\ Length \in Nat \ {0}
    /\ MaxLessons \in Nat /\ MaxSeries \in Nat /\ MaxBlocked \in Nat
    /\ Hours \subseteq Slots
    /\ SeriesTimes \subseteq Times
    /\ MaxNow \in 0..(MaxDay * MaxTime)
    /\ Overlap \in BOOLEAN
    /\ None \notin LessonIds \cup SeriesIds

VARIABLES
    lessons,  \* [LessonIds -> Lesson \cup {None}]
    booked,   \* lessons created so far, the last primary key
    series,   \* [SeriesIds -> Series \cup {None}]
    blocked,  \* slots the tutor has blocked or his calendar has
    now,      \* slots that have begun
    archive,  \* [LessonIds -> Nat]  entries in CancelledSession, by lesson
    req       \* [Requests -> what the request has read, or None]

vars == <<lessons, booked, series, blocked, now, archive, req>>

(* "checked" is no column: the time of the lesson was compared with the    *)
(* tutor's calendar when it was chosen.                                    *)
Lesson == [contract : Contracts, slot : Slots, status : {"planned", "taught"},
           series : SeriesIds \cup {None}, checked : BOOLEAN]
Series == [contract : Contracts, days : (SUBSET Days) \ {{}}, time : Times, active : BOOLEAN]

Request ==
    [op : {"book"}, contract : Contracts, slot : Slots]
    \cup [op : {"cancel"}, id : LessonIds]
    \cup [op : {"move"}, id : LessonIds, row : Lesson, slot : Slots]
    \cup [op : {"series"}, id : SeriesIds, row : Series, todo : SUBSET Days,
          taken : SUBSET Slots, created : SUBSET Days, skipped : SUBSET Days,
          by : {"family", "tutor", "form"}]
    \cup [op : {"end"}, id : SeriesIds, row : Series, dropped : SUBSET LessonIds]

ASSUME NoneAssumption == None \notin Lesson \cup Series \cup Request

TypeOK ==
    /\ lessons \in [LessonIds -> Lesson \cup {None}]
    /\ booked \in 0..MaxLessons
    /\ \A l \in LessonIds : lessons[l] # None => l <= booked
    /\ series \in [SeriesIds -> Series \cup {None}]
    /\ \A l \in LessonIds : lessons[l] # None =>
          lessons[l].series = None \/ series[lessons[l].series] # None
    /\ blocked \subseteq Slots
    /\ now \in 0..MaxNow
    /\ archive \in [LessonIds -> Nat]
    /\ req \in [Requests -> Request \cup {None}]

Init ==
    /\ lessons = [l \in LessonIds |-> None] /\ booked = 0
    /\ series = [r \in SeriesIds |-> None]
    /\ blocked = {} /\ now = 0
    /\ archive = [l \in LessonIds |-> 0]
    /\ req = [q \in Requests |-> None]
-----------------------------------------------------------------------------
Present == {l \in LessonIds : lessons[l] # None}
LinkedTo(r) == {l \in Present : lessons[l].series = r}

Begun(s) == (s.day - 1) * MaxTime + s.time <= now
Over(s) == (s.day - 1) * MaxTime + s.time < now
Today == IF now = 0 THEN 1 ELSE 1 + (now - 1) \div MaxTime

(* BusyCalendar: lessons and blocked times of the day that come too near.  *)
Near(s, t) == s.day = t.day /\ s.time < t.time + Length /\ t.time < s.time + Length
\* mutant: only what begins at the same time is in the way
BusyAt(s, without) == \E l \in Present \ without : lessons[l].slot = s
Busy(s, without) ==
    \/ \E l \in Present \ without : Near(lessons[l].slot, s)
    \/ \E b \in blocked : Near(b, s)
Refused(s, without) == Begun(s) \/ s \notin Hours \/ Busy(s, without)

(* A planned lesson that is over is taught (status_service.py).            *)
Updated(row) == IF Over(row.slot) THEN [row EXCEPT !.status = "taught"] ELSE row

New(c, s, r, check) ==
    [contract |-> c, slot |-> s, status |-> "planned", series |-> r, checked |-> check]

Room(n) == booked + n <= MaxLessons
Insert(row) ==
    /\ Room(1)
    /\ booked' = booked + 1
    /\ lessons' = [lessons EXCEPT ![booked + 1] = row]
Without(ids) == [l \in LessonIds |-> IF l \in ids THEN None ELSE lessons[l]]

Idle(q) == req[q] = None
Quiet == Overlap \/ \A q \in Requests : Idle(q)
Begin(q, r) ==
    /\ Quiet /\ Idle(q)
    /\ req' = [req EXCEPT ![q] = r]
End(q) == req' = [req EXCEPT ![q] = None]
Is(q, op) == ~Idle(q) /\ req[q].op = op
-----------------------------------------------------------------------------
(* Booking a lesson in the portal.                                         *)
BookBegin(q, c, s) ==
    /\ Room(1)
    /\ ~Refused(s, {})
    /\ Begin(q, [op |-> "book", contract |-> c, slot |-> s])
    /\ UNCHANGED <<lessons, booked, series, blocked, now, archive>>

BookCreate(q) ==
    /\ Is(q, "book")
    /\ Insert(New(req[q].contract, req[q].slot, None, TRUE))
    /\ End(q)
    /\ UNCHANGED <<series, blocked, now, archive>>

(* Cancelling one: it is written into the archive and deleted by its key.  *)
CancelBegin(q, l) ==
    /\ lessons[l] # None /\ lessons[l].status = "planned"
    /\ Begin(q, [op |-> "cancel", id |-> l])
    /\ UNCHANGED <<lessons, booked, series, blocked, now, archive>>

\* mutant: the lesson is archived and stays
CancelKeep(q) ==
    /\ Is(q, "cancel")
    /\ archive' = [archive EXCEPT ![req[q].id] = @ + 1]
    /\ End(q)
    /\ UNCHANGED <<lessons, booked, series, blocked, now>>

CancelCommit(q) ==
    /\ Is(q, "cancel")
    /\ archive' = [archive EXCEPT ![req[q].id] = @ + 1]
    /\ lessons' = Without({req[q].id})
    /\ End(q)
    /\ UNCHANGED <<booked, series, blocked, now>>

(* Rescheduling one: session.save() writes every column of the row that    *)
(* was read, and inserts the row again if it is gone.                      *)
MoveBegin(q, l, s) ==
    /\ lessons[l] # None /\ lessons[l].status = "planned"
    /\ ~Refused(s, {l})
    /\ Begin(q, [op |-> "move", id |-> l, row |-> lessons[l], slot |-> s])
    /\ UNCHANGED <<lessons, booked, series, blocked, now, archive>>

\* mutant: a lesson at another time stays in its series
MovedInside(row, s, check) == [row EXCEPT !.slot = s, !.checked = check]

Moved(row, s, check) == [row EXCEPT !.slot = s, !.series = None, !.checked = check]

MoveSave(q) ==
    /\ Is(q, "move")
    /\ lessons' = [lessons EXCEPT ![req[q].id] = Moved(req[q].row, req[q].slot, TRUE)]
    /\ End(q)
    /\ UNCHANGED <<booked, series, blocked, now, archive>>
-----------------------------------------------------------------------------
(* A series: the row, one look at the calendar, and then a lesson on each  *)
(* of its days that is neither there already nor taken.                    *)
SlotOn(row, d) == [day |-> d, time |-> row.time]
Taken(row, by) ==
    {s \in {SlotOn(row, d) : d \in row.days} : IF by = "family" THEN Refused(s, {}) ELSE Busy(s, {})}
Exists(c, s) == \E l \in Present : lessons[l].contract = c /\ lessons[l].slot = s

SeriesBegin(q, r, row, by) ==
    /\ Room(Cardinality({d \in row.days : SlotOn(row, d) \notin Taken(row, by)}))
    /\ by = "form" => Room(1)
    /\ Begin(q, [op |-> "series", id |-> r, row |-> row, todo |-> row.days,
                 taken |-> Taken(row, by), created |-> {}, skipped |-> {}, by |-> by])

(* PortalRecurringCreateView, LessonCreateView with "repeat".              *)
SeriesCreate(q, row, by) ==
    /\ \E r \in SeriesIds :
          /\ series[r] = None
          /\ series' = [series EXCEPT ![r] = row]
          /\ SeriesBegin(q, r, row, by)
    /\ UNCHANGED <<lessons, booked, blocked, now, archive>>

(* "Termine generieren"; an inactive series generates nothing.             *)
Generate(q, r) ==
    /\ series[r] # None /\ series[r].active
    /\ SeriesBegin(q, r, series[r], "tutor")
    /\ UNCHANGED <<lessons, booked, series, blocked, now, archive>>

\* mutant: the first day that is taken ends the generation
StopAtTaken(q) ==
    /\ Is(q, "series") /\ req[q].todo # {}
    /\ LET d == Min(req[q].todo)
           s == SlotOn(req[q].row, d)
       IN \/ /\ s \in req[q].taken
             /\ req' = [req EXCEPT ![q].todo = {}]
             /\ UNCHANGED <<lessons, booked>>
          \/ /\ s \notin req[q].taken
             /\ Insert(Updated(New(req[q].row.contract, s, req[q].id, TRUE)))
             /\ req' = [req EXCEPT ![q].todo = @ \ {d}, ![q].created = @ \cup {d}]
    /\ UNCHANGED <<series, blocked, now, archive>>

(* _create_session_if_not_exists.  If the series is gone, the foreign key  *)
(* fails, which is taken for a lesson that exists.                         *)
SeriesDay(q) ==
    /\ Is(q, "series") /\ req[q].todo # {}
    /\ LET d == Min(req[q].todo)
           s == SlotOn(req[q].row, d)
           there == Exists(req[q].row.contract, s)
           gone == series[req[q].id] = None
       IN \/ /\ there \/ (s \notin req[q].taken /\ gone)
             /\ req' = [req EXCEPT ![q].todo = @ \ {d}, ![q].skipped = @ \cup {d}]
             /\ UNCHANGED <<lessons, booked>>
          \/ /\ ~there /\ s \in req[q].taken
             /\ req' = [req EXCEPT ![q].todo = @ \ {d}]
             /\ UNCHANGED <<lessons, booked>>
          \/ /\ ~there /\ s \notin req[q].taken /\ ~gone
             /\ Insert(Updated(New(req[q].row.contract, s, req[q].id, TRUE)))
             /\ req' = [req EXCEPT ![q].todo = @ \ {d}, ![q].created = @ \cup {d}]
    /\ UNCHANGED <<series, blocked, now, archive>>

(* No day was free: the family's series is deleted again, the tutor's      *)
(* stays.  The lesson form, if nothing was created, saves the lesson that  *)
(* was to be repeated.                                                     *)
Nowhere(q) == req[q].created \cup req[q].skipped = {}

SeriesDone(q) ==
    /\ Is(q, "series") /\ req[q].todo = {}
    /\ \/ /\ req[q].by = "family" /\ Nowhere(q)
          /\ series' = [series EXCEPT ![req[q].id] = None]
          /\ lessons' = Without(LinkedTo(req[q].id))
          /\ UNCHANGED booked
       \/ /\ req[q].by = "form" /\ req[q].created = {}
          /\ \E d \in 1..Min(req[q].row.days) :
                Insert(Updated(New(req[q].row.contract, SlotOn(req[q].row, d), None, FALSE)))
          /\ UNCHANGED series
       \/ /\ req[q].by = "tutor" \/ req[q].created # {} \/ (req[q].by = "family" /\ ~Nowhere(q))
          /\ UNCHANGED <<lessons, booked, series>>
    /\ End(q)
    /\ UNCHANGED <<blocked, now, archive>>

(* A family ends a series: its lessons from today on that are planned go   *)
(* to the archive, and what the same query finds then is deleted.          *)
Upcoming(ids) == {l \in ids : lessons[l].status = "planned" /\ lessons[l].slot.day >= Today}

EndBegin(q, r) ==
    /\ series[r] # None
    /\ Begin(q, [op |-> "end", id |-> r, row |-> series[r], dropped |-> Upcoming(LinkedTo(r))])
    /\ UNCHANGED <<lessons, booked, series, blocked, now, archive>>

\* mutant: the lessons that are over are deleted, too
EndWhole(q) ==
    /\ Is(q, "end")
    /\ archive' = [l \in LessonIds |-> archive[l] + IF l \in req[q].dropped THEN 1 ELSE 0]
    /\ lessons' = Without(LinkedTo(req[q].id))
    /\ series' = [series EXCEPT ![req[q].id] = [req[q].row EXCEPT !.active = FALSE]]
    /\ End(q)
    /\ UNCHANGED <<booked, blocked, now>>

EndCommit(q) ==
    /\ Is(q, "end")
    /\ archive' = [l \in LessonIds |-> archive[l] + IF l \in req[q].dropped THEN 1 ELSE 0]
    /\ lessons' = Without(Upcoming(LinkedTo(req[q].id)))
    /\ series' = [series EXCEPT ![req[q].id] = [req[q].row EXCEPT !.active = FALSE]]
    /\ End(q)
    /\ UNCHANGED <<booked, blocked, now>>
-----------------------------------------------------------------------------
(* The tutor's own lessons: conflicts are only reported.                   *)
TutorBook(c, s) ==
    /\ Quiet
    /\ Insert(Updated(New(c, s, None, FALSE)))
    /\ UNCHANGED <<series, blocked, now, archive, req>>

(* LessonUpdateView, "this lesson only": another time or weekday takes it  *)
(* out of its series.                                                      *)
TutorEdit(l, s) ==
    /\ Quiet
    /\ lessons[l] # None /\ s # lessons[l].slot
    /\ lessons' = [lessons EXCEPT ![l] = Updated(Moved(@, s, FALSE))]
    /\ UNCHANGED <<booked, series, blocked, now, archive, req>>

(* LessonRescheduleView: only to today or later, and always out.           *)
TutorReschedule(l, s) ==
    /\ Quiet
    /\ lessons[l] # None /\ s.day >= Today
    /\ lessons' = [lessons EXCEPT ![l] = Moved(@, s, FALSE)]
    /\ UNCHANGED <<booked, series, blocked, now, archive, req>>

TutorDelete(l) ==
    /\ Quiet
    /\ lessons[l] # None
    /\ lessons' = Without({l})
    /\ UNCHANGED <<booked, series, blocked, now, archive, req>>

(* get_all_sessions_for_recurring: the lessons linked to the series; if    *)
(* there are none, all the student's lessons on its days.                  *)
OfSeries(r, row) ==
    IF LinkedTo(r) # {} THEN LinkedTo(r)
    ELSE {l \in Present : lessons[l].contract = row.contract /\ lessons[l].slot.day \in row.days}

\* mutant: the lessons of a deleted series keep its key
DeleteAlone(r) ==
    /\ Quiet
    /\ series[r] # None
    /\ series' = [series EXCEPT ![r] = None]
    /\ UNCHANGED <<lessons, booked, blocked, now, archive, req>>

(* RecurringLessonDeleteView, "delete" in bulk, and LessonDeleteView with  *)
(* the whole series.                                                       *)
DeleteSeries(r) ==
    /\ Quiet
    /\ series[r] # None
    /\ lessons' = Without(OfSeries(r, series[r]))
    /\ series' = [series EXCEPT ![r] = None]
    /\ UNCHANGED <<booked, blocked, now, archive, req>>

(* The series form: in one transaction the row is saved and its lessons    *)
(* are generated, beside those that are kept.                              *)
Free(row, kept) ==
    {d \in row.days : /\ ~\E l \in kept : \/ Near(lessons[l].slot, SlotOn(row, d))
                                          \/ /\ lessons[l].contract = row.contract
                                             /\ lessons[l].slot = SlotOn(row, d)
                      /\ ~\E b \in blocked : Near(b, SlotOn(row, d))}
SaveSeries(r, row, kept) ==
    LET new == IF row.active THEN Free(row, kept) ELSE {}
        id(d) == booked + Cardinality({e \in new : e <= d})
        day(l) == {d \in new : id(d) = l}
    IN /\ Quiet
       /\ Room(Cardinality(new))
       /\ booked' = booked + Cardinality(new)
       /\ lessons' = [l \in LessonIds |->
             IF day(l) # {} THEN Updated(New(row.contract, SlotOn(row, Min(day(l))), r, TRUE))
             ELSE IF l \in kept THEN lessons[l] ELSE None]
       /\ series' = [series EXCEPT ![r] = row]
       /\ UNCHANGED <<blocked, now, archive, req>>

(* RecurringLessonCreateView.                                              *)
CreateSeries(row) ==
    \E r \in SeriesIds : series[r] = None /\ SaveSeries(r, row, Present)

(* RecurringLessonUpdateView: the planned lessons from today on go first.  *)
(* What the form was filled with decides which those are.                  *)
UpdateSeries(r, row) ==
    /\ series[r] # None
    /\ SaveSeries(r, row, Present \ Upcoming(OfSeries(r, row)))

(* RecurringLessonBulkEditView, "activate" and "deactivate".               *)
Activate(r, active) ==
    /\ Quiet
    /\ series[r] # None /\ series[r].active # active
    /\ series' = [series EXCEPT ![r].active = active]
    /\ UNCHANGED <<lessons, booked, blocked, now, archive, req>>

(* Blocked times come and go, the tutor's own and those of his calendar.   *)
Block(s) ==
    /\ Quiet
    /\ blocked' = IF s \in blocked THEN blocked \ {s} ELSE blocked \cup {s}
    /\ Cardinality(blocked') <= MaxBlocked
    /\ UNCHANGED <<lessons, booked, series, now, archive, req>>

Tick ==
    /\ Quiet
    /\ now < MaxNow /\ now' = now + 1
    /\ UNCHANGED <<lessons, booked, series, blocked, archive, req>>

(* update_past_sessions_to_taught, whenever a page asks for it.            *)
UpdateStatus ==
    /\ Quiet
    /\ lessons' = [l \in LessonIds |-> IF l \in Present THEN Updated(lessons[l]) ELSE None]
    /\ lessons' # lessons
    /\ UNCHANGED <<booked, series, blocked, now, archive, req>>

Rows == {row \in Series : row.time \in SeriesTimes}
Portal(q) ==
    \/ \E c \in Contracts, s \in Slots : BookBegin(q, c, s)
    \/ \E l \in LessonIds : CancelBegin(q, l)
    \/ \E l \in LessonIds, s \in Slots : MoveBegin(q, l, s)
    \/ \E row \in {a \in Rows : a.active}, by \in {"family", "form"} : SeriesCreate(q, row, by)
    \/ \E r \in SeriesIds : Generate(q, r)
    \/ \E r \in SeriesIds : EndBegin(q, r)
    \/ BookCreate(q) \/ CancelCommit(q) \/ MoveSave(q)
    \/ SeriesDay(q) \/ SeriesDone(q) \/ EndCommit(q)

Tutor ==
    \/ \E c \in Contracts, s \in Slots : TutorBook(c, s)
    \/ \E l \in LessonIds, s \in Slots : TutorEdit(l, s)
    \/ \E l \in LessonIds, s \in Slots : TutorReschedule(l, s)
    \/ \E l \in LessonIds : TutorDelete(l)
    \/ \E r \in SeriesIds : DeleteSeries(r)
    \/ \E row \in Rows : CreateSeries(row)
    \/ \E r \in SeriesIds, row \in Rows : UpdateSeries(r, row)
    \/ \E r \in SeriesIds, active \in BOOLEAN : Activate(r, active)
    \/ \E s \in Slots : Block(s)

Next ==
    \/ \E q \in Requests : Portal(q)
    \/ Tutor
    \/ Tick
    \/ UpdateStatus

Spec == Init /\ [][Next]_vars
-----------------------------------------------------------------------------
(* The rule for what is free holds whoever asks and whatever happened in   *)
(* between: two lessons too near each other are there only if the tutor    *)
(* put one of them there by hand (availability.py:1-15,                    *)
(* feat-fahrzeiten-mindestabstand.md:30-35).                               *)
NoClash ==
    \A l, m \in Present :
        l # m /\ lessons[l].checked /\ lessons[m].checked => ~Near(lessons[l].slot, lessons[m].slot)

(* What is in the archive was cancelled: it is there once, and the lesson  *)
(* is gone; a rescheduled lesson stays a lesson                            *)
(* (feat-portal-absagen.md:15-19).                                         *)
ArchivedIsGone ==
    \A l \in LessonIds :
        archive[l] > 0 => archive[l] = 1 /\ lessons[l] = None

(* No lesson vanishes without a trace unless the tutor removes it himself: *)
(* the archive shows it (feat-portal-absagen.md:8-11, 41).                 *)
NothingVanishes ==
    [][\A l \in Present : lessons'[l] = None =>
          \/ archive'[l] = archive[l] + 1
          \/ TutorDelete(l)
          \/ \E r \in SeriesIds : DeleteSeries(r)
          \/ \E r \in SeriesIds : series'[r] # None /\ UpdateSeries(r, series'[r])]_vars

(* "unlink it from the recurring template so the template stays            *)
(* authoritative" (views_crud.py:497-498): a planned lesson still to come  *)
(* that belongs to a series is at its time and on one of its days.         *)
FollowsTemplate ==
    \A r \in SeriesIds : \A l \in Upcoming(LinkedTo(r)) :
        lessons[l].slot.time = series[r].time /\ lessons[l].slot.day \in series[r].days

(* "Alle Termine sollen gebucht werden, nur die Tage, die nicht frei sind, *)
(* sollen ausgelassen werden", whoever generates; without a free day there *)
(* is no series of a family's, but one of the tutor's                      *)
(* (feat-serien-freie-tage.md:3-5, 17, 55-59).                             *)
EveryFreeDay ==
    [][\A q \in Requests : Is(q, "series") /\ req'[q] = None =>
          LET row == req[q].row
              there == {d \in row.days : Exists(row.contract, SlotOn(row, d))}
          IN /\ \A d \in row.days \ there : SlotOn(row, d) \in req[q].taken
             /\ series'[req[q].id] # None <=> there # {} \/ req[q].by # "family"]_vars
=============================================================================
