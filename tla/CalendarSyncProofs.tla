------------------------- MODULE CalendarSyncProofs -------------------------
(* For any sessions, events, calendars and bounds - also if one calendar is  *)
(* target and source at once: the types, and that while nothing fails no     *)
(* copy of a session is left in the target without its mapping.              *)
EXTENDS CalendarSync, TLAPS

LEMMA Constants ==
    /\ Sessions \subseteq Uids /\ Foreign \subseteq Uids
    /\ None \notin Uids
    /\ 0 \in 0..MaxTag /\ 0 \in 0..MaxRev
BY CalendarAssumption DEF Uids

(* A write to the target and the removal of a copy touch one event.          *)
LEMMA WriteEvent ==
    ASSUME TypeOK, NEW u, NEW slot \in Slots, Write(u, slot)
    PROVE  /\ event' \in [Calendars -> [Uids -> Event]]
           /\ \A c \in Calendars, v \in Uids :
                 ~(c = Target /\ v = u) => event'[c][v] = event[c][v]
<1> DEFINE e == [slot |-> slot, tag |-> 0]
<1>1. e \in Event
  BY Constants DEF Event
<1>2. event' = [event EXCEPT ![Target][u] = e]
  BY DEF Write
<1> HIDE DEF e
<1>3. QED
  BY <1>1, <1>2, CalendarAssumption DEF TypeOK

LEMMA DeleteEvent ==
    ASSUME TypeOK, NEW u, DeleteCopy(u)
    PROVE  /\ event' \in [Calendars -> [Uids -> Event]]
           /\ \A c \in Calendars, v \in Uids :
                 event'[c][v] = IF c = Target /\ v = u THEN NoEvent ELSE event[c][v]
<1>1. NoEvent \in Event
  BY Constants DEF Event, NoEvent
<1>2. QED
  BY <1>1, CalendarAssumption DEF DeleteCopy, TypeOK

(* The end of a cycle, the next session and a new mapping.                   *)
LEMMA NoCycleType == NoCycle \in Cycle
BY DEF NoCycle, Cycle, Phases

LEMMA NextSessionType ==
    ASSUME TypeOK, NEW x \in Read, NextSession(x)
    PROVE  sync' \in Cycle
BY DEF NextSession, TypeOK, Cycle, Phases

LEMMA MapType ==
    ASSUME TypeOK, NEW x \in Read, NEW u \in Uids, Map(x, u)
    PROVE  sync' \in Cycle /\ link' \in [Sessions -> Link]
<1>1. CASE Mapped(u)
  BY <1>1, NoCycleType DEF Map, Abort, TypeOK
<1>2. CASE ~Mapped(u)
  <2>1. [uid |-> u, rev |-> x.rev] \in Link
    BY DEF Link, Read
  <2>2. QED
    BY <1>2, <2>1, NextSessionType DEF Map, TypeOK
<1>3. QED
  BY <1>1, <1>2

LEMMA Faults ==
    ASSUME TypeOK
    PROVE  /\ faults \in Nat
           /\ Fault => faults' \in 0..MaxFaults /\ faults' # 0
BY CalendarAssumption DEF TypeOK, Fault

LEMMA ReadFields ==
    ASSUME TypeOK
    PROVE  /\ \A x \in sync.todo \cup sync.cur :
                 x \in Read /\ x.id \in Sessions /\ x.slot \in Slots /\ x.rev \in 0..MaxRev
           /\ \A e \in sync.seen \cup sync.news : e \in Seen /\ e.uid \in Uids /\ e.tag \in 0..MaxTag
           /\ \A b \in sync.made \cup blocked :
                 b \in Blocked /\ b.uid \in Uids /\ b.row \in Rows /\ b.tag \in 0..MaxTag
BY DEF TypeOK, Cycle, Read, Seen, Blocked

LEMMA InitTypes == Init => TypeOK
<1> SUFFICES ASSUME Init PROVE TypeOK
  OBVIOUS
<1>1. event \in [Calendars -> [Uids -> Event]]
  BY Constants DEF Init, NoEvent, Event
<1>2. link \in [Sessions -> Link] /\ import \in [Uids -> Import]
  BY Constants DEF Init, NoLink, Link, NoImport, Import
<1>3. session \in [Sessions -> [state : {"new", "upcoming", "over", "gone"}, slot : Slots, rev : 0..MaxRev]]
  BY Constants DEF Init
<1>4. QED
  BY <1>1, <1>2, <1>3, NoCycleType, CalendarAssumption DEF Init, TypeOK

(* The tutor, in Preceptly and in the calendar.                              *)
LEMMA OutsideTypes ==
    ASSUME TypeOK, Outside
    PROVE  TypeOK'
<1>1. ASSUME NEW s \in Sessions, Book(s) \/ Leave(s, "over") \/ Leave(s, "gone")
      PROVE  TypeOK'
  <2>1. PICK state \in {"upcoming", "over", "gone"} :
            session' = [session EXCEPT ![s] = [session[s] EXCEPT !.state = state]]
    BY <1>1 DEF Book, Leave, SessionChanges
  <2>2. session' \in [Sessions -> [state : {"new", "upcoming", "over", "gone"},
                                   slot : Slots, rev : 0..MaxRev]]
    BY <2>1 DEF TypeOK
  <2>3. QED
    BY <1>1, <2>2 DEF Book, Leave, SessionChanges, TypeOK
<1>2. ASSUME NEW s \in Sessions, NEW slot \in Slots, Edit(s, slot)
      PROVE  TypeOK'
  <2>1. session[s].rev + 1 \in 0..MaxRev
    BY <1>2, CalendarAssumption DEF Edit, TypeOK
  <2>2. QED
    BY <1>2, <2>1 DEF Edit, SessionChanges, TypeOK
<1>3. ASSUME NEW b \in blocked, DeleteBlocked(b)
      PROVE  TypeOK'
  BY <1>3 DEF DeleteBlocked, TypeOK
<1>4. ASSUME NEW c \in Calendars, NEW u \in Uids, NEW slot \in Slots \cup {None}, External(c, u, slot)
      PROVE  TypeOK'
  <2>1. tag' \in 0..MaxTag
    BY <1>4, CalendarAssumption DEF External, TypeOK
  <2>2. (IF slot = None THEN NoEvent ELSE [slot |-> slot, tag |-> tag']) \in Event
    BY <2>1, Constants DEF NoEvent, Event
  <2>3. event' \in [Calendars -> [Uids -> Event]]
    BY <1>4, <2>2 DEF External, TypeOK
  <2>4. QED
    BY <1>4, <2>1, <2>3 DEF External, TypeOK
<1>5. QED
  BY <1>1, <1>2, <1>3, <1>4 DEF Outside

(* Pushing one session.                                                      *)
LEMMA PushTypes ==
    ASSUME TypeOK, Push
    PROVE  TypeOK'
<1>1. ASSUME NEW x \in sync.todo, NEW u \in Uids, PushAdopt(x, u)
      PROVE  TypeOK'
  BY <1>1, ReadFields, MapType DEF PushAdopt, TypeOK, world
<1>2. ASSUME NEW x \in sync.todo, PushCreate(x)
      PROVE  TypeOK'
  <2>1. event' \in [Calendars -> [Uids -> Event]]
    BY <1>2, ReadFields, WriteEvent DEF PushCreate
  <2>2. faults' \in 0..MaxFaults
    BY <1>2, Faults DEF PushCreate, TypeOK
  <2>3. sync' \in Cycle
    BY <1>2, ReadFields DEF PushCreate, TypeOK, Cycle, Phases
  <2>4. QED
    BY <1>2, <2>1, <2>2, <2>3 DEF PushCreate, TypeOK
<1>3. ASSUME NEW x \in sync.todo, PushUnchanged(x)
      PROVE  TypeOK'
  BY <1>3, ReadFields, NextSessionType DEF PushUnchanged, TypeOK, world
<1>4. ASSUME NEW x \in sync.todo, PushDropped(x)
      PROVE  TypeOK'
  <2>1. NoLink \in Link
    BY Constants DEF NoLink, Link
  <2>2. QED
    BY <1>4, <2>1, ReadFields, NextSessionType DEF PushDropped, TypeOK, world
<1>5. ASSUME NEW x \in sync.todo, PushFound(x)
      PROVE  TypeOK'
  <2>1. sync' \in Cycle
    BY <1>5, ReadFields DEF PushFound, TypeOK, Cycle, Phases
  <2>2. QED
    BY <1>5, <2>1 DEF PushFound, TypeOK, world
<1>6. ASSUME NEW x \in sync.todo \cup sync.cur, PushFails(x)
      PROVE  TypeOK'
  <2>1. event' \in [Calendars -> [Uids -> Event]]
    BY <1>6, ReadFields, WriteEvent DEF PushFails, TypeOK
  <2>2. QED
    BY <1>6, <2>1, ReadFields, Faults, NextSessionType DEF PushFails, TypeOK
<1>7. ASSUME NEW x \in sync.cur, PushUpdate(x)
      PROVE  TypeOK'
  <2>1. event' \in [Calendars -> [Uids -> Event]]
    BY <1>7, ReadFields, WriteEvent DEF PushUpdate
  <2>2. sync' \in Cycle
    BY <1>7 DEF PushUpdate, TypeOK, Cycle, Phases
  <2>3. QED
    BY <1>7, <2>1, <2>2 DEF PushUpdate, TypeOK
<1>8. ASSUME NEW x \in sync.cur, Record(x)
      PROVE  TypeOK'
  <2>1. CASE Linked(x.id)
    <3>1. link' \in [Sessions -> Link]
      <4>1. link' = [link EXCEPT ![x.id].rev = x.rev]
        BY <1>8, <2>1 DEF Record
      <4>2. x.id \in Sessions /\ x.rev \in 0..MaxRev
        BY ReadFields
      <4>3. link \in [Sessions -> Link]
        BY DEF TypeOK
      <4>4. QED
        BY <4>1, <4>2, <4>3 DEF Link
    <3>2. QED
      BY <1>8, <2>1, <3>1, ReadFields, NextSessionType DEF Record, TypeOK, world
  <2>2. CASE ~Linked(x.id)
    BY <1>8, <2>2, ReadFields, Constants, MapType DEF Record, TypeOK, world
  <2>3. QED
    BY <2>1, <2>2
<1>9. QED
  BY <1>1, <1>2, <1>3, <1>4, <1>5, <1>6, <1>7, <1>8 DEF Push

(* Sweeping mappings.                                                        *)
LEMMA SweepTypes ==
    ASSUME TypeOK, NEW s \in Sessions, Sweep(s) \/ SweepFails(s)
    PROVE  TypeOK'
<1>1. event' \in [Calendars -> [Uids -> Event]]
  BY DeleteEvent DEF Sweep, SweepFails, TypeOK
<1>2. link' \in [Sessions -> Link]
  <2>1. NoLink \in Link
    BY Constants DEF NoLink, Link
  <2>2. link' = [link EXCEPT ![s] = NoLink] \/ link' = link
    BY DEF Sweep, SweepFails
  <2>3. QED
    BY <2>1, <2>2 DEF TypeOK
<1>3. sync' = [sync EXCEPT !.gone = @ \ {s}]
  BY DEF Sweep, SweepFails
<1>4. sync' \in Cycle
  BY <1>3 DEF TypeOK, Cycle
<1>5. QED
  BY <1>1, <1>2, <1>4, Faults DEF Sweep, SweepFails, TypeOK

(* Importing events.                                                         *)
LEMMA ImporterTypes ==
    ASSUME TypeOK, Importer
    PROVE  TypeOK'
<1>1. ASSUME NEW c \in Sources, ListSource(c)
      PROVE  TypeOK'
  <2>1. \A u \in Uids : [uid |-> u, tag |-> event[c][u].tag] \in Seen
    BY CalendarAssumption DEF TypeOK, Event, Seen
  <2>2. sync' \in Cycle
    <3> DEFINE found == {e \in sync.seen : ~Present(c, e.uid)} \cup
                        {[uid |-> u, tag |-> event[c][u].tag] : u \in {v \in Uids : Present(c, v)}}
    <3>1. found \subseteq Seen
      BY <2>1, ReadFields
    <3>2. sync' = [sync EXCEPT !.left = @ \ {c}, !.seen = found]
      BY <1>1 DEF ListSource, TypeOK, Cycle
    <3> HIDE DEF found
    <3>3. QED
      BY <3>1, <3>2 DEF TypeOK, Cycle
  <2>3. QED
    BY <1>1, <2>2 DEF ListSource, TypeOK, world
<1>2. ASSUME NEW c \in Sources, ListFails(c)
      PROVE  TypeOK'
  <2>1. sync' \in Cycle
    BY <1>2 DEF ListFails, TypeOK, Cycle
  <2>2. QED
    BY <1>2, <2>1, Faults DEF ListFails, TypeOK, world
<1>3. ASSUME NEW e \in sync.news, ImportNew(e)
      PROVE  TypeOK'
  <2>1. PICK row \in NextRow(e.uid) :
            /\ blocked' = blocked \cup {[uid |-> e.uid, row |-> row, tag |-> e.tag]}
            /\ sync' = [sync EXCEPT !.phase = "map", !.news = @ \ {e},
                                    !.made = {[uid |-> e.uid, row |-> row, tag |-> e.tag]}]
    BY <1>3 DEF ImportNew
  <2>2. [uid |-> e.uid, row |-> row, tag |-> e.tag] \in Blocked
    BY ReadFields DEF NextRow, Blocked
  <2>3. sync' \in Cycle
    BY <2>1, <2>2 DEF TypeOK, Cycle, Phases
  <2>4. QED
    BY <1>3, <2>1, <2>2, <2>3 DEF ImportNew, TypeOK, world
<1>4. ASSUME NEW b \in sync.made, MapImport(b)
      PROVE  TypeOK'
  <2>1. CASE Mapped(b.uid)
    BY <1>4, <2>1, NoCycleType DEF MapImport, Abort, TypeOK, world
  <2>2. CASE ~Mapped(b.uid)
    <3>1. [row |-> b.row, tag |-> b.tag] \in Import
      BY ReadFields DEF Import
    <3>2. sync' \in Cycle
      <4>1. sync' = [sync EXCEPT !.phase = "apply", !.made = {}]
        BY <1>4, <2>2 DEF MapImport
      <4>2. QED
        BY <4>1 DEF TypeOK, Cycle, Phases
    <3>3. QED
      BY <1>4, <2>2, <3>1, <3>2 DEF MapImport, TypeOK, world
  <2>3. QED
    BY <2>1, <2>2
<1>5. ASSUME NEW e \in sync.news, ImportChange(e)
      PROVE  TypeOK'
  <2>1. sync' \in Cycle
    <3>1. sync' = [sync EXCEPT !.news = @ \ {e}]
      BY <1>5 DEF ImportChange
    <3>2. QED
      BY <3>1 DEF TypeOK, Cycle
  <2>2. \A b \in Local(e.uid) : [b EXCEPT !.tag = e.tag] \in Blocked
    BY ReadFields DEF Local, Blocked
  <2>3. blocked' \subseteq Blocked
    BY <1>5, <2>2 DEF ImportChange, TypeOK
  <2>4. import' \in [Uids -> Import]
    <3>1. import' = import \/ import' = [import EXCEPT ![e.uid].tag = e.tag]
      BY <1>5 DEF ImportChange
    <3>2. e.uid \in Uids /\ e.tag \in 0..MaxTag
      BY ReadFields
    <3>3. [import[e.uid] EXCEPT !.tag = e.tag] \in Import
      BY <3>2 DEF TypeOK, Import
    <3>4. QED
      BY <3>1, <3>2, <3>3 DEF TypeOK
  <2>5. QED
    BY <1>5, <2>1, <2>3, <2>4 DEF ImportChange, TypeOK, world
<1>6. ASSUME NEW u \in Uids, Prune(u)
      PROVE  TypeOK'
  <2>1. NoImport \in Import
    BY Constants DEF NoImport, Import
  <2>2. sync' \in Cycle
    BY <1>6 DEF Prune, TypeOK, Cycle
  <2>3. QED
    BY <1>6, <2>1, <2>2 DEF Prune, TypeOK, world
<1>7. QED
  BY <1>1, <1>2, <1>3, <1>4, <1>5, <1>6 DEF Importer

(* From one part of the cycle to the next.                                   *)
Turn == StartCycle \/ StartSweep \/ StartListing \/ StartImport \/ StartPrune \/ EndCycle

LEMMA TurnTypes ==
    ASSUME TypeOK, Turn
    PROVE  TypeOK'
<1>1. sync' \in Cycle
  <2>1. CASE StartCycle
    <3> DEFINE all == {[id |-> s, slot |-> session[s].slot, rev |-> session[s].rev] : s \in Upcoming}
    <3>1. \A s \in Sessions : [id |-> s, slot |-> session[s].slot, rev |-> session[s].rev] \in Read
      BY DEF TypeOK, Read
    <3>2. Upcoming \subseteq Sessions
      BY DEF Upcoming
    <3>3. all \subseteq Read
      BY <3>1, <3>2
    <3>4. sync' = [NoCycle EXCEPT !.phase = "push", !.todo = all, !.known = Upcoming]
      BY <2>1 DEF StartCycle
    <3> HIDE DEF all
    <3>5. QED
      BY <3>2, <3>3, <3>4, NoCycleType DEF Cycle, Phases
  <2>2. CASE StartSweep
    BY <2>2 DEF StartSweep, TypeOK, Cycle, Phases
  <2>3. CASE StartListing
    BY <2>3, CalendarAssumption DEF StartListing, TypeOK, Cycle, Phases
  <2>4. CASE StartImport
    BY <2>4 DEF StartImport, TypeOK, Cycle, Phases
  <2>5. CASE StartPrune
    BY <2>5 DEF StartPrune, TypeOK, Cycle, Phases
  <2>6. CASE EndCycle
    BY <2>6, NoCycleType DEF EndCycle
  <2>7. QED
    BY <2>1, <2>2, <2>3, <2>4, <2>5, <2>6 DEF Turn
<1>2. QED
  BY <1>1 DEF Turn, StartCycle, StartSweep, StartListing, StartImport, StartPrune, EndCycle, TypeOK, world

LEMMA NextTypes ==
    ASSUME TypeOK, [Next]_vars
    PROVE  TypeOK'
<1>1. CASE Crash
  BY <1>1, Faults, NoCycleType DEF Crash, TypeOK, world
<1>2. CASE UNCHANGED vars
  BY <1>2 DEF vars, TypeOK
<1>3. QED
  BY <1>1, <1>2, OutsideTypes, PushTypes, SweepTypes, ImporterTypes, TurnTypes DEF Next, Job, Turn

(* Rows, events and the locals of the cycle keep their types, for any        *)
(* constants (sync_service.py).                                              *)
THEOREM CalendarTypes == Spec => []TypeOK
BY InitTypes, NextTypes, PTL DEF Spec
-----------------------------------------------------------------------------
(* A copy is in the target only, and is mapped or about to be.               *)
Tracked ==
    /\ \A c \in Calendars \ {Target}, s \in Sessions : ~Present(c, s)
    /\ \A s \in Sessions : Present(Target, s) =>
          \/ link[s].uid = s
          \/ sync.phase = "record" /\ ~Linked(s) /\ \E x \in sync.cur : x.id = s

(* No session has the copy of another, and no copy is imported.              *)
Own ==
    /\ \A r, s \in Sessions : link[r].uid = s => r = s
    /\ \A s \in Sessions : import[s] = NoImport /\ s \notin sync.old

(* Copies that are listed, because the target is a source, too, are mapped   *)
(* all the time until they are about to be imported.                         *)
Listed ==
    /\ sync.phase \in {"idle", "push", "update", "record", "sweep"} =>
          sync.seen = {} /\ sync.news = {} /\ sync.made = {}
    /\ \A e \in sync.seen \cup sync.news : e.uid \in Sessions => link[e.uid].uid = e.uid
    /\ \A b \in sync.made : b.uid \in Sessions => link[b.uid].uid = b.uid

One == \A x, y \in sync.cur : x = y

CopiesInv == faults = 0 => Tracked /\ Own /\ Listed /\ One

(* A failure ends what is promised.                                          *)
LEMMA FaultCopies ==
    ASSUME TypeOK, Fault
    PROVE  CopiesInv'
BY Faults DEF CopiesInv

(* What of the cycle each of the parts depends on.                           *)
LEMMA SameCopies ==
    ASSUME Tracked, Own, Listed, One, UNCHANGED <<event, link, import>>,
           sync.phase # "record", sync'.phase # "record" \/ sync'.phase = sync.phase,
           sync'.cur = sync.cur, sync'.old \subseteq sync.old,
           sync'.phase \in {"idle", "push", "update", "record", "sweep"} =>
               sync.phase \in {"idle", "push", "update", "record", "sweep"},
           sync'.seen = sync.seen, sync'.news \subseteq sync.news, sync'.made \subseteq sync.made
    PROVE  Tracked' /\ Own' /\ Listed' /\ One'
BY DEF Tracked, Own, Listed, One, Present, Linked

(* A cycle that ends, or begins, leaves nothing in hand.                     *)
LEMMA FreshCopies ==
    ASSUME Tracked, Own, sync.phase # "record", UNCHANGED <<event, link, import>>,
           sync'.phase \in {"idle", "push"}, sync'.cur = {}, sync'.old = {}, sync'.seen = {},
           sync'.news = {}, sync'.made = {}
    PROVE  Tracked' /\ Own' /\ Listed' /\ One'
BY DEF Tracked, Own, Listed, One, Present, Linked

(* A new mapping: an event that another session has, or an import, is        *)
(* refused.                                                                  *)
LEMMA MapCopies ==
    ASSUME TypeOK, Tracked, Own, Listed, One, UNCHANGED <<event, import>>,
           NEW x \in Read, NEW u \in Uids, Map(x, u), ~Linked(x.id),
           \/ sync.phase = "push" /\ Present(Target, u)
           \/ sync.phase = "record" /\ x \in sync.cur /\ u = x.id
    PROVE  Tracked' /\ Own' /\ Listed' /\ One'
<1>1. x.id \in Sessions /\ \A s \in Sessions : link[s].uid = s => Linked(s)
  BY Constants DEF Read, Linked, NoLink
<1>2. u \in Sessions => (Mapped(u) \/ u = x.id)
  BY DEF Tracked, Mapped
<1>3. CASE sync.phase = "push"
  <2>1. CASE Mapped(u)
    <3>1. UNCHANGED link /\ sync' = NoCycle
      BY <2>1 DEF Map, Abort
    <3>2. QED
      BY <1>3, <3>1, FreshCopies DEF NoCycle
  <2>2. CASE ~Mapped(u)
    <3>1. u \notin Sessions
      BY <1>1, <1>2, <1>3, <2>2 DEF Tracked, Mapped
    <3>2. /\ link' = [link EXCEPT ![x.id] = [uid |-> u, rev |-> x.rev]]
          /\ sync' = [sync EXCEPT !.phase = "push", !.todo = @ \ {x}, !.cur = {}]
      BY <2>2 DEF Map, NextSession
    <3>3. /\ \A s \in Sessions : link'[s] = IF s = x.id THEN [uid |-> u, rev |-> x.rev] ELSE link[s]
          /\ sync'.phase = "push" /\ sync'.cur = {} /\ sync'.old = sync.old
          /\ sync'.seen = sync.seen /\ sync'.news = sync.news /\ sync'.made = sync.made
      BY <3>2 DEF TypeOK, Cycle
    <3>4. sync.seen = {} /\ sync.news = {} /\ sync.made = {}
      BY <1>3 DEF Listed
    <3>5. Tracked'
      BY <1>1, <1>3, <3>3 DEF Tracked, Present, Linked
    <3>6. Own'
      BY <1>1, <3>1, <3>3 DEF Own
    <3>7. QED
      BY <3>3, <3>4, <3>5, <3>6 DEF Listed, One
  <2>3. QED
    BY <2>1, <2>2
<1>4. CASE sync.phase = "record" /\ x \in sync.cur /\ u = x.id
  <2>1. ~Mapped(u)
    <3>1. \A s \in Sessions : link[s].uid # u
      BY <1>1, <1>4 DEF Own, Linked, NoLink
    <3>2. QED
      BY <1>1, <1>4, <3>1 DEF Own, Mapped
  <2>2. /\ link' = [link EXCEPT ![x.id] = [uid |-> x.id, rev |-> x.rev]]
        /\ sync' = [sync EXCEPT !.phase = "push", !.todo = @ \ {x}, !.cur = {}]
    BY <1>4, <2>1 DEF Map, NextSession
  <2>3. /\ \A s \in Sessions : link'[s] = IF s = x.id THEN [uid |-> x.id, rev |-> x.rev] ELSE link[s]
        /\ sync'.phase = "push" /\ sync'.cur = {} /\ sync'.old = sync.old
        /\ sync'.seen = sync.seen /\ sync'.news = sync.news /\ sync'.made = sync.made
    BY <2>2 DEF TypeOK, Cycle
  <2>4. sync.seen = {} /\ sync.news = {} /\ sync.made = {}
    BY <1>4 DEF Listed
  <2>5. Tracked'
    BY <1>1, <1>4, <2>3 DEF Tracked, Present, One
  <2>6. Own'
    BY <1>1, <2>3 DEF Own
  <2>7. QED
    BY <2>3, <2>4, <2>5, <2>6 DEF Listed, One
<1>5. QED
  BY <1>3, <1>4

(* The tutor can move or remove a copy, but not make one.                    *)
LEMMA OutsideCopies ==
    ASSUME TypeOK, CopiesInv, Outside
    PROVE  CopiesInv'
<1>1. UNCHANGED <<link, import, sync, faults>>
  BY DEF Outside, Book, Leave, Edit, SessionChanges, DeleteBlocked, External
<1>2. \A c \in Calendars, s \in Sessions : Present(c, s)' => Present(c, s)
  <2>1. CASE UNCHANGED event
    BY <2>1 DEF Present
  <2>2. ASSUME NEW c \in Calendars, NEW u \in Uids, NEW slot \in Slots \cup {None}, External(c, u, slot)
        PROVE  \A d \in Calendars, s \in Sessions : Present(d, s)' => Present(d, s)
    BY <2>2, CalendarAssumption, Constants DEF External, Present, TypeOK
  <2>3. QED
    BY <2>1, <2>2 DEF Outside, Book, Leave, Edit, SessionChanges, DeleteBlocked
<1>3. Tracked => Tracked'
  BY <1>1, <1>2, CalendarAssumption DEF Tracked, Linked
<1>4. /\ Own => Own'
      /\ Listed => Listed'
      /\ One => One'
  BY <1>1 DEF Own, Listed, One
<1>5. QED
  BY <1>1, <1>3, <1>4 DEF CopiesInv

LEMMA PushCopies ==
    ASSUME TypeOK, CopiesInv, Push
    PROVE  CopiesInv'
<1> SUFFICES ASSUME faults' = 0, faults = 0, ~Fault
             PROVE  Tracked' /\ Own' /\ Listed' /\ One'
  <2>1. CASE Fault
    BY <2>1, FaultCopies
  <2>2. CASE ~Fault
    <3>1. UNCHANGED faults
      BY <2>2 DEF Push, PushAdopt, PushCreate, PushUnchanged, PushDropped, PushFound, PushFails,
                  PushUpdate, Record
    <3>2. CASE faults = 0
      BY <2>2, <3>1, <3>2 DEF CopiesInv
    <3>3. CASE faults # 0
      BY <3>1, <3>3 DEF CopiesInv
    <3>4. QED
      BY <3>2, <3>3
  <2>3. QED
    BY <2>1, <2>2
<1>1. Tracked /\ Own /\ Listed /\ One
  BY DEF CopiesInv
<1>2. ASSUME NEW x \in sync.todo, NEW u \in Uids, PushAdopt(x, u)
      PROVE  Tracked' /\ Own' /\ Listed' /\ One'
  <2>1. Present(Target, u)
    <3>1. event[Target][u].slot = x.slot /\ x.slot \in Slots
      BY <1>2, ReadFields DEF PushAdopt, Matches
    <3>2. QED
      BY <3>1, CalendarAssumption DEF Present, NoEvent
  <2>2. QED
    BY <1>1, <1>2, <2>1, ReadFields, MapCopies DEF PushAdopt, Pushing, world
<1>3. ASSUME NEW x \in sync.todo, PushCreate(x)
      PROVE  Tracked' /\ Own' /\ Listed' /\ One'
  <2>1. /\ UNCHANGED <<link, import>> /\ ~Linked(x.id) /\ sync.phase = "push"
        /\ sync' = [sync EXCEPT !.phase = "record", !.cur = {x}]
    BY <1>3 DEF PushCreate, Pushing
  <2>2. /\ sync'.phase = "record" /\ sync'.cur = {x} /\ sync'.old = sync.old
        /\ sync'.seen = sync.seen /\ sync'.news = sync.news /\ sync'.made = sync.made
    BY <2>1 DEF TypeOK, Cycle
  <2>3. \A c \in Calendars, v \in Uids : ~(c = Target /\ v = x.id) => event'[c][v] = event[c][v]
    BY <1>3, ReadFields, WriteEvent DEF PushCreate
  <2>4. Tracked'
    BY <1>1, <2>1, <2>2, <2>3, Constants, CalendarAssumption DEF Tracked, Present, Linked
  <2>5. QED
    BY <1>1, <2>1, <2>2, <2>4 DEF Own, Listed, One
<1>4. ASSUME NEW x \in sync.todo, PushUnchanged(x) \/ PushFound(x)
      PROVE  Tracked' /\ Own' /\ Listed' /\ One'
  <2>1. /\ UNCHANGED <<event, link, import>> /\ sync.phase = "push"
        /\ \/ sync' = [sync EXCEPT !.phase = "push", !.todo = @ \ {x}, !.cur = {}]
           \/ sync' = [sync EXCEPT !.phase = "update", !.cur = {x}]
    BY <1>4 DEF PushUnchanged, PushFound, Pushing, NextSession, world
  <2>2. /\ sync'.phase \in {"push", "update"} /\ sync'.cur \in {{}, {x}} /\ sync'.old = sync.old
        /\ sync'.seen = sync.seen /\ sync'.news = sync.news /\ sync'.made = sync.made
    BY <2>1 DEF TypeOK, Cycle
  <2>3. Tracked'
    BY <1>1, <2>1, <2>2 DEF Tracked, Present, Linked
  <2>4. QED
    BY <1>1, <2>1, <2>2, <2>3 DEF Own, Listed, One
<1>5. ASSUME NEW x \in sync.todo, PushDropped(x)
      PROVE  Tracked' /\ Own' /\ Listed' /\ One'
  <2>1. /\ UNCHANGED <<event, import>> /\ sync.phase = "push"
        /\ ~Present(Target, link[x.id].uid)
        /\ link' = [link EXCEPT ![x.id] = NoLink]
        /\ sync' = [sync EXCEPT !.phase = "push", !.todo = @ \ {x}, !.cur = {}]
    BY <1>5 DEF PushDropped, Pushing, NextSession, world
  <2>2. /\ sync'.phase = "push" /\ sync'.cur = {} /\ sync'.old = sync.old
        /\ sync'.seen = sync.seen /\ sync'.news = sync.news /\ sync'.made = sync.made
    BY <2>1 DEF TypeOK, Cycle
  <2>3. \A s \in Sessions : link'[s] = IF s = x.id THEN NoLink ELSE link[s]
    BY <2>1 DEF TypeOK
  <2>4. Tracked'
    BY <1>1, <2>1, <2>2, <2>3, ReadFields DEF Tracked, Present
  <2>5. Own'
    BY <1>1, <2>1, <2>2, <2>3, CalendarAssumption DEF Own, NoLink
  <2>6. QED
    BY <1>1, <2>1, <2>2, <2>4, <2>5 DEF Listed, One
<1>6. ASSUME NEW x \in sync.todo \cup sync.cur, PushFails(x)
      PROVE  FALSE
  BY <1>6 DEF PushFails
<1>7. ASSUME NEW x \in sync.cur, PushUpdate(x)
      PROVE  Tracked' /\ Own' /\ Listed' /\ One'
  <2>1. /\ UNCHANGED <<link, import>> /\ sync.phase = "update"
        /\ sync' = [sync EXCEPT !.phase = "record"]
    BY <1>7 DEF PushUpdate
  <2>2. /\ sync'.phase = "record" /\ sync'.cur = sync.cur /\ sync'.old = sync.old
        /\ sync'.seen = sync.seen /\ sync'.news = sync.news /\ sync'.made = sync.made
    BY <2>1 DEF TypeOK, Cycle
  <2>3. \A c \in Calendars, v \in Uids : ~(c = Target /\ v = link[x.id].uid) => event'[c][v] = event[c][v]
    BY <1>7, ReadFields, WriteEvent DEF PushUpdate
  <2>4. Tracked'
    BY <1>1, <2>1, <2>2, <2>3, ReadFields, Constants, CalendarAssumption
    DEF Tracked, Own, Present, Linked
  <2>5. QED
    BY <1>1, <2>1, <2>2, <2>4 DEF Own, Listed, One
<1>8. ASSUME NEW x \in sync.cur, Record(x)
      PROVE  Tracked' /\ Own' /\ Listed' /\ One'
  <2>1. sync.phase = "record" /\ UNCHANGED <<event, import>>
    BY <1>8 DEF Record, world
  <2>2. CASE Linked(x.id)
    <3>1. /\ link' = [link EXCEPT ![x.id].rev = x.rev]
          /\ sync' = [sync EXCEPT !.phase = "push", !.todo = @ \ {x}, !.cur = {}]
      BY <1>8, <2>2 DEF Record, NextSession
    <3>2. /\ sync'.phase = "push" /\ sync'.cur = {} /\ sync'.old = sync.old
          /\ sync'.seen = sync.seen /\ sync'.news = sync.news /\ sync'.made = sync.made
      BY <3>1 DEF TypeOK, Cycle
    <3>3. \A s \in Sessions : link'[s].uid = link[s].uid
      BY <3>1 DEF TypeOK, Link
    <3>4. Tracked'
      BY <1>1, <2>1, <2>2, <3>2, <3>3 DEF Tracked, Present, One
    <3>5. QED
      BY <1>1, <2>1, <3>2, <3>3, <3>4 DEF Own, Listed, One
  <2>3. CASE ~Linked(x.id)
    BY <1>1, <1>8, <2>1, <2>3, ReadFields, Constants, MapCopies DEF Record
  <2>4. QED
    BY <2>2, <2>3
<1>9. QED
  BY <1>2, <1>3, <1>4, <1>5, <1>6, <1>7, <1>8 DEF Push

(* A mapping goes together with the event it names.                          *)
LEMMA SweepCopies ==
    ASSUME TypeOK, CopiesInv, NEW s \in Sessions, Sweep(s) \/ SweepFails(s)
    PROVE  CopiesInv'
<1>1. CASE SweepFails(s)
  BY <1>1, FaultCopies DEF SweepFails
<1>2. CASE Sweep(s)
  <2>1. /\ UNCHANGED <<import, faults>> /\ sync.phase = "sweep"
        /\ link' = [link EXCEPT ![s] = NoLink]
        /\ sync' = [sync EXCEPT !.gone = @ \ {s}]
    BY <1>2 DEF Sweep
  <2>2. /\ sync'.phase = "sweep" /\ sync'.cur = sync.cur /\ sync'.old = sync.old
        /\ sync'.seen = sync.seen /\ sync'.news = sync.news /\ sync'.made = sync.made
    BY <2>1 DEF TypeOK, Cycle
  <2>3. \A r \in Sessions : link'[r] = IF r = s THEN NoLink ELSE link[r]
    BY <2>1 DEF TypeOK
  <2>4. \A c \in Calendars, v \in Uids :
            event'[c][v] = IF c = Target /\ v = link[s].uid THEN NoEvent ELSE event[c][v]
    BY <1>2, DeleteEvent DEF Sweep
  <2>5. ASSUME Tracked, Own, Listed, One
        PROVE  Tracked' /\ Own' /\ Listed' /\ One'
    <3>1. Tracked'
      BY <2>1, <2>2, <2>3, <2>4, <2>5, Constants, CalendarAssumption DEF Tracked, Present
    <3>2. Own'
      BY <2>1, <2>2, <2>3, <2>5, CalendarAssumption DEF Own, NoLink
    <3>3. QED
      BY <2>1, <2>2, <2>5, <3>1, <3>2 DEF Listed, One
  <2>6. QED
    BY <2>1, <2>5 DEF CopiesInv
<1>3. QED
  BY <1>1, <1>2

(* What a source lists of the target's copies is mapped, so it is not        *)
(* imported.                                                                 *)
LEMMA ImporterCopies ==
    ASSUME TypeOK, CopiesInv, Importer
    PROVE  CopiesInv'
<1>1. ASSUME NEW c \in Sources, ListFails(c)
      PROVE  CopiesInv'
  BY <1>1, FaultCopies DEF ListFails
<1>2. ASSUME NEW c \in Sources, ListSource(c), Tracked, Own, Listed, One
      PROVE  Tracked' /\ Own' /\ Listed' /\ One'
  <2> DEFINE found == {e \in sync.seen : ~Present(c, e.uid)} \cup
                      {[uid |-> u, tag |-> event[c][u].tag] : u \in {v \in Uids : Present(c, v)}}
  <2>1. /\ UNCHANGED <<event, link, import>> /\ sync.phase = "list"
        /\ sync' = [sync EXCEPT !.left = @ \ {c}, !.seen = found]
    BY <1>2 DEF ListSource, world, TypeOK, Cycle
  <2>2. \A e \in found : e.uid \in Sessions => link[e.uid].uid = e.uid
    <3>1. \A s \in Sessions : Present(c, s) => link[s].uid = s
      BY <1>2, <2>1, CalendarAssumption DEF Tracked
    <3>2. QED
      BY <1>2, <3>1 DEF Listed
  <2> HIDE DEF found
  <2>3. /\ sync'.phase = "list" /\ sync'.cur = sync.cur /\ sync'.old = sync.old
        /\ sync'.seen = found /\ sync'.news = sync.news /\ sync'.made = sync.made
    BY <2>1 DEF TypeOK, Cycle
  <2>4. Tracked' /\ Own' /\ One'
    BY <1>2, <2>1, <2>3 DEF Tracked, Own, One, Present, Linked
  <2>5. QED
    BY <1>2, <2>1, <2>2, <2>3, <2>4 DEF Listed
<1>3. ASSUME NEW e \in sync.news, ImportNew(e), Tracked, Own, Listed, One
      PROVE  Tracked' /\ Own' /\ Listed' /\ One'
  <2>1. PICK row \in NextRow(e.uid) :
            sync' = [sync EXCEPT !.phase = "map", !.news = @ \ {e},
                                 !.made = {[uid |-> e.uid, row |-> row, tag |-> e.tag]}]
    BY <1>3 DEF ImportNew
  <2>2. UNCHANGED <<event, link, import>> /\ sync.phase = "apply"
    BY <1>3 DEF ImportNew, Importing, world
  <2>3. /\ sync'.phase = "map" /\ sync'.cur = sync.cur /\ sync'.old = sync.old
        /\ sync'.seen = sync.seen /\ sync'.news \subseteq sync.news
        /\ \A b \in sync'.made : b.uid = e.uid
    BY <2>1 DEF TypeOK, Cycle
  <2>4. Tracked' /\ Own' /\ One'
    BY <1>3, <2>2, <2>3 DEF Tracked, Own, One, Present, Linked
  <2>5. QED
    BY <1>3, <2>2, <2>3, <2>4 DEF Listed
<1>4. ASSUME NEW b \in sync.made, MapImport(b), Tracked, Own, Listed, One
      PROVE  Tracked' /\ Own' /\ Listed' /\ One'
  <2>1. UNCHANGED <<event, link>> /\ sync.phase = "map"
    BY <1>4 DEF MapImport, world
  <2>2. CASE Mapped(b.uid)
    <3>1. UNCHANGED import /\ sync' = NoCycle
      BY <1>4, <2>2 DEF MapImport, Abort
    <3>2. QED
      BY <1>4, <2>1, <3>1, FreshCopies DEF NoCycle
  <2>3. CASE ~Mapped(b.uid)
    <3>1. b.uid \notin Sessions
      BY <1>4, <2>3 DEF Listed, Mapped
    <3>2. /\ import' = [import EXCEPT ![b.uid] = [row |-> b.row, tag |-> b.tag]]
          /\ sync' = [sync EXCEPT !.phase = "apply", !.made = {}]
      BY <1>4, <2>3 DEF MapImport
    <3>3. \A s \in Sessions : import'[s] = import[s]
      BY <3>1, <3>2, Constants DEF TypeOK
    <3>4. /\ sync'.phase = "apply" /\ sync'.cur = sync.cur /\ sync'.old = sync.old
          /\ sync'.seen = sync.seen /\ sync'.news = sync.news /\ sync'.made = {}
      BY <3>2 DEF TypeOK, Cycle
    <3>5. QED
      BY <1>4, <2>1, <3>3, <3>4 DEF Tracked, Own, Listed, One, Present, Linked
  <2>4. QED
    BY <2>2, <2>3
<1>5. ASSUME NEW e \in sync.news, ImportChange(e), Tracked, Own, Listed, One
      PROVE  Tracked' /\ Own' /\ Listed' /\ One'
  <2>1. /\ UNCHANGED <<event, link>> /\ sync.phase = "apply" /\ e.uid \in sync.old
        /\ sync' = [sync EXCEPT !.news = @ \ {e}]
    BY <1>5 DEF ImportChange, Importing, world
  <2>2. /\ sync'.phase = "apply" /\ sync'.cur = sync.cur /\ sync'.old = sync.old
        /\ sync'.seen = sync.seen /\ sync'.news \subseteq sync.news /\ sync'.made = sync.made
    BY <2>1 DEF TypeOK, Cycle
  <2>3. e.uid \notin Sessions
    BY <1>5, <2>1 DEF Own
  <2>4. \A s \in Sessions : import'[s] = import[s]
    BY <1>5, <2>3, Constants DEF ImportChange, TypeOK
  <2>5. QED
    BY <1>5, <2>1, <2>2, <2>4 DEF Tracked, Own, Listed, One, Present, Linked
<1>6. ASSUME NEW u \in Uids, Prune(u), Tracked, Own, Listed, One
      PROVE  Tracked' /\ Own' /\ Listed' /\ One'
  <2>1. /\ UNCHANGED <<event, link>> /\ sync.phase = "prune"
        /\ import' = [import EXCEPT ![u] = NoImport]
        /\ sync' = [sync EXCEPT !.old = @ \ {u}]
    BY <1>6 DEF Prune, world
  <2>2. /\ sync'.phase = "prune" /\ sync'.cur = sync.cur /\ sync'.old \subseteq sync.old
        /\ sync'.seen = sync.seen /\ sync'.news = sync.news /\ sync'.made = sync.made
    BY <2>1 DEF TypeOK, Cycle
  <2>3. \A s \in Sessions : import'[s] = NoImport
    BY <1>6, <2>1, Constants DEF Own, TypeOK
  <2>4. QED
    BY <1>6, <2>1, <2>2, <2>3 DEF Tracked, Own, Listed, One, Present, Linked
<1>7. CASE UNCHANGED faults
  BY <1>2, <1>3, <1>4, <1>5, <1>6, <1>7, <1>1 DEF Importer, CopiesInv
<1>8. QED
  BY <1>1, <1>7 DEF Importer, ListSource, ImportNew, MapImport, ImportChange, Prune

LEMMA TurnCopies ==
    ASSUME TypeOK, CopiesInv, Turn
    PROVE  CopiesInv'
<1> SUFFICES ASSUME Tracked, Own, Listed, One
             PROVE  Tracked' /\ Own' /\ Listed' /\ One'
  BY DEF CopiesInv, Turn, StartCycle, StartSweep, StartListing, StartImport, StartPrune, EndCycle
<1>1. UNCHANGED <<event, link, import>>
  BY DEF Turn, StartCycle, StartSweep, StartListing, StartImport, StartPrune, EndCycle, world
<1>2. CASE StartCycle
  <2>1. /\ sync.phase = "idle" /\ sync'.phase = "push" /\ sync'.cur = {} /\ sync'.old = {}
        /\ sync'.seen = {} /\ sync'.news = {} /\ sync'.made = {}
    BY <1>2 DEF StartCycle, NoCycle
  <2>2. QED
    BY <1>1, <2>1, FreshCopies
<1>3. CASE StartSweep \/ StartListing
  <2>1. /\ sync.phase \in {"push", "sweep"} /\ sync'.phase \in {"sweep", "list", "prune"}
        /\ sync'.cur = sync.cur /\ sync'.old = sync.old
        /\ sync'.seen = sync.seen /\ sync'.news = sync.news /\ sync'.made = sync.made
    BY <1>3 DEF StartSweep, StartListing, TypeOK, Cycle
  <2>2. QED
    BY <1>1, <2>1, SameCopies
<1>4. CASE StartImport
  <2>1. /\ sync.phase = "list" /\ sync'.phase = "apply" /\ sync'.cur = sync.cur
        /\ sync'.seen = sync.seen /\ sync'.news \subseteq sync.seen /\ sync'.made = sync.made
        /\ sync'.old = {u \in Uids : import[u] # NoImport}
    BY <1>4 DEF StartImport, TypeOK, Cycle
  <2>2. QED
    BY <1>1, <2>1 DEF Tracked, Own, Listed, One, Present, Linked
<1>5. CASE StartPrune
  <2>1. /\ sync.phase = "apply" /\ sync'.phase = "prune" /\ sync'.cur = sync.cur
        /\ sync'.seen = sync.seen /\ sync'.news = sync.news /\ sync'.made = sync.made
        /\ sync'.old \subseteq sync.old
    BY <1>5 DEF StartPrune, TypeOK, Cycle
  <2>2. QED
    BY <1>1, <2>1, SameCopies
<1>6. CASE EndCycle
  BY <1>1, <1>6, FreshCopies DEF EndCycle, NoCycle
<1>7. QED
  BY <1>2, <1>3, <1>4, <1>5, <1>6 DEF Turn

LEMMA InitCopies == Init => CopiesInv
<1> SUFFICES ASSUME Init PROVE Tracked /\ Own /\ Listed /\ One
  BY DEF CopiesInv
<1>1. Tracked
  BY Constants, CalendarAssumption DEF Init, Tracked, Present
<1>2. Own
  BY Constants, CalendarAssumption DEF Init, Own, NoLink, NoCycle
<1>3. QED
  BY <1>1, <1>2 DEF Init, NoCycle, Listed, One

LEMMA NextCopies ==
    ASSUME TypeOK, CopiesInv, [Next]_vars
    PROVE  CopiesInv'
<1>1. CASE Crash
  BY <1>1, FaultCopies DEF Crash
<1>2. CASE UNCHANGED vars
  BY <1>2 DEF vars, CopiesInv, Tracked, Own, Listed, One, Present, Linked
<1>3. QED
  BY <1>1, <1>2, OutsideCopies, PushCopies, SweepCopies, ImporterCopies, TurnCopies DEF Next, Job, Turn

(* While nothing fails, no copy is left in the target that its mapping does  *)
(* not name (sync_service.py:150-292), for any number of sessions: none      *)
(* adopts the copy of another, and no copy is imported as a blocked time.    *)
THEOREM NoCopyLost == Spec => []CopiesTracked
<1>1. CopiesInv => CopiesTracked
  BY DEF CopiesInv, Tracked, CopiesTracked
<1>2. Init => TypeOK /\ CopiesInv
  BY InitTypes, InitCopies
<1>3. TypeOK /\ CopiesInv /\ [Next]_vars => TypeOK' /\ CopiesInv'
  BY NextTypes, NextCopies
<1>4. Spec => [](TypeOK /\ CopiesInv)
  BY <1>2, <1>3, PTL DEF Spec
<1>5. QED
  BY <1>1, <1>4, PTL
=============================================================================
