----------------------------- MODULE CalendarSync -----------------------------
(***************************************************************************)
(* apps/calendar_sync/sync_service.py: the cron job that pushes a tutor's  *)
(* sessions to one CalDAV calendar and imports the events of others as     *)
(* blocked times.                                                          *)
(*                                                                         *)
(* One connection, one cycle at a time.  Every call to the CalDAV server   *)
(* and every row written afterwards is a step of its own (nothing here     *)
(* runs in a transaction), so the tutor, the owner of the calendar and a   *)
(* crash come in between, and a call may fail.  Times are slots, titles    *)
(* and the summary counters are left out.                                  *)
(***************************************************************************)
EXTENDS Integers, FiniteSets

CONSTANTS
    Sessions,     \* also the UIDs of the events the job creates for them
    Foreign,      \* UIDs of events the tutor entered in a calendar
    Calendars,
    Target,       \* the calendar with role sessions_target
    Sources,      \* the calendars with role blocked_time_source
    Entered,      \* which foreign UID can turn up in which calendar
    Slots,        \* start and end of a session or an event
    MaxRev,       \* bound: times a session is edited
    MaxTag,       \* bound: changes made in the calendars from outside
    MaxFaults,    \* bound: failed calls and crashes
    None

ASSUME CalendarAssumption ==
    /\ Sessions \cap Foreign = {}
    /\ Target \in Calendars
    /\ Sources \subseteq Calendars
    /\ Entered \subseteq Calendars \X Foreign
    /\ MaxRev \in Nat /\ MaxTag \in Nat /\ MaxFaults \in Nat
    /\ None \notin Slots \cup Sessions \cup Foreign

VARIABLES
    session,   \* [Sessions -> [state, slot, rev]]   rev stands for updated_at
    event,     \* [Calendars -> [Uids -> Event]]     on the CalDAV server
    tag,       \* Nat                                the server's last etag
    link,      \* [Sessions -> Link]                 mappings of sessions
    import,    \* [Uids -> Import]                   mappings of blocked times
    blocked,   \* SUBSET Blocked                     imported BlockedTime rows
    sync,      \* the cycle under way
    faults,    \* Nat
    touched    \* history: sessions whose copy was changed or removed in the calendar

vars == <<session, event, tag, link, import, blocked, sync, faults, touched>>

Uids == Sessions \cup Foreign
Event == [slot : Slots \cup {None}, tag : 0..MaxTag]
NoEvent == [slot |-> None, tag |-> 0]
Link == [uid : Uids \cup {None}, rev : 0..MaxRev]
NoLink == [uid |-> None, rev |-> 0]

\* bound: ids of the blocked times one event was imported to; a fault, or an event a
\* session has a mapping of, leaves one behind
Rows == 1..(MaxFaults + 1)
Blocked == [uid : Uids, row : Rows, tag : 0..MaxTag]
Import == [row : Rows \cup {0}, tag : 0..MaxTag]
NoImport == [row |-> 0, tag |-> 0]

Phases == {"idle", "push", "update", "record", "sweep", "list", "apply", "map", "prune"}
Read == [id : Sessions, slot : Slots, rev : 0..MaxRev]
Seen == [uid : Uids, tag : 0..MaxTag]
Cycle == [phase : Phases,
          todo  : SUBSET Read,        \* sessions still to push, as read at the start
          known : SUBSET Sessions,    \* known_ids
          cur   : SUBSET Read,        \* the session whose event is being written
          made  : SUBSET Blocked,     \* the blocked time just created
          gone  : SUBSET Sessions,    \* mappings still to sweep
          left  : SUBSET Calendars,   \* sources still to list
          seen  : SUBSET Seen,        \* all_external_by_uid
          full  : BOOLEAN,            \* every listing succeeded
          news  : SUBSET Seen,        \* events still to import
          old   : SUBSET Uids]        \* known_mapping_by_uid, then those to prune
NoCycle == [phase |-> "idle", todo |-> {}, known |-> {}, cur |-> {}, made |-> {},
            gone |-> {}, left |-> {}, seen |-> {}, full |-> TRUE, news |-> {}, old |-> {}]

TypeOK ==
    /\ session \in [Sessions -> [state : {"new", "upcoming", "over", "gone"},
                                 slot : Slots, rev : 0..MaxRev]]
    /\ event \in [Calendars -> [Uids -> Event]]
    /\ tag \in 0..MaxTag
    /\ link \in [Sessions -> Link]
    /\ import \in [Uids -> Import]
    /\ blocked \subseteq Blocked
    /\ sync \in Cycle
    /\ faults \in 0..MaxFaults
    /\ touched \subseteq Sessions

Init ==
    /\ session \in [Sessions -> [state : {"new"}, slot : Slots, rev : {0}]]
    /\ event = [c \in Calendars |-> [u \in Uids |-> NoEvent]]
    /\ tag = 0
    /\ link = [s \in Sessions |-> NoLink]
    /\ import = [u \in Uids |-> NoImport]
    /\ blocked = {}
    /\ sync = NoCycle
    /\ faults = 0
    /\ touched = {}

world == <<session, event, tag, touched>>

-----------------------------------------------------------------------------
(* The tutor in Preceptly and time passing                                  *)

SessionChanges(s, next) ==
    /\ session' = [session EXCEPT ![s] = next]
    /\ UNCHANGED <<event, tag, link, import, blocked, sync, faults, touched>>

Book(s) ==
    /\ session[s].state = "new"
    /\ SessionChanges(s, [session[s] EXCEPT !.state = "upcoming"])

Edit(s, slot) ==
    /\ session[s].state = "upcoming"
    /\ session[s].rev < MaxRev
    /\ SessionChanges(s, [session[s] EXCEPT !.slot = slot, !.rev = @ + 1])

Leave(s, state) ==
    /\ session[s].state = "upcoming"
    /\ state \in {"over", "gone"}
    /\ SessionChanges(s, [session[s] EXCEPT !.state = state])

\* the row goes, its mapping (a GenericForeignKey) stays
DeleteBlocked(b) ==
    /\ b \in blocked
    /\ blocked' = blocked \ {b}
    /\ UNCHANGED <<session, event, tag, link, import, sync, faults, touched>>

(* The tutor in the calendar app                                            *)

External(c, u, slot) ==
    /\ tag < MaxTag
    /\ event[c][u] # NoEvent \/ (<<c, u>> \in Entered /\ slot # None)
    /\ tag' = tag + 1
    /\ event' = [event EXCEPT ![c][u] =
                   IF slot = None THEN NoEvent ELSE [slot |-> slot, tag |-> tag']]
    /\ touched' = IF c = Target
                  THEN touched \cup {s \in Sessions : u = s \/ u = link[s].uid}
                  ELSE touched
    /\ UNCHANGED <<session, link, import, blocked, sync, faults>>

-----------------------------------------------------------------------------
(* sync_connection                                                          *)

Fault == faults < MaxFaults /\ faults' = faults + 1

Upcoming == {s \in Sessions : session[s].state = "upcoming"}

StartCycle ==
    /\ sync.phase = "idle"
    /\ sync' = [NoCycle EXCEPT !.phase = "push",
                  !.todo = {[id |-> s, slot |-> session[s].slot, rev |-> session[s].rev] :
                              s \in Upcoming},
                  !.known = Upcoming]
    /\ UNCHANGED <<world, link, import, blocked, faults>>

\* the process is killed
Crash ==
    /\ sync.phase # "idle"
    /\ Fault
    /\ sync' = NoCycle
    /\ UNCHANGED <<world, link, import, blocked>>

\* an IntegrityError is no CalDavConnectionError: it ends the cycle and is
\* counted by sync_all_active_connections
Abort == sync' = NoCycle

\* unique_mapping_per_external_event
Mapped(u) == (\E s \in Sessions : link[s].uid = u) \/ import[u] # NoImport

-----------------------------------------------------------------------------
(* _push_one                                                                *)

Linked(s) == link[s] # NoLink
Present(c, u) == event[c][u] # NoEvent

\* mutant: the job compares with the time of the last cycle, not of the last push
NeverStale(x) == FALSE
Stale(x) == x.rev > link[x.id].rev

\* _find_matching_event
Matches(x) == {u \in Uids : event[Target][u].slot = x.slot}

Pushing(x) == sync.phase = "push" /\ x \in sync.todo
NextSession(x) == sync' = [sync EXCEPT !.phase = "push", !.todo = @ \ {x}, !.cur = {}]
Write(u, slot) == event' = [event EXCEPT ![Target][u] = [slot |-> slot, tag |-> 0]]

\* a mapping is inserted unless the event already has one
Map(x, u) ==
    IF Mapped(u)
    THEN Abort /\ UNCHANGED link
    ELSE NextSession(x) /\ link' = [link EXCEPT ![x.id] = [uid |-> u, rev |-> x.rev]]

PushAdopt(x, u) ==
    /\ Pushing(x) /\ ~Linked(x.id)
    /\ u \in Matches(x)
    /\ Map(x, u)
    /\ UNCHANGED <<world, import, blocked, faults>>

\* also when the search for a matching event fails
PushCreate(x) ==
    /\ Pushing(x) /\ ~Linked(x.id)
    /\ IF Matches(x) = {} THEN UNCHANGED faults ELSE Fault
    /\ Write(x.id, x.slot)
    /\ sync' = [sync EXCEPT !.phase = "record", !.cur = {x}]
    /\ UNCHANGED <<session, tag, touched, link, import, blocked>>

PushUnchanged(x) ==
    /\ Pushing(x) /\ Linked(x.id) /\ ~Stale(x)
    /\ NextSession(x)
    /\ UNCHANGED <<world, link, import, blocked, faults>>

\* removed outside: only the mapping goes
PushDropped(x) ==
    /\ Pushing(x) /\ Linked(x.id) /\ Stale(x)
    /\ ~Present(Target, link[x.id].uid)
    /\ link' = [link EXCEPT ![x.id] = NoLink]
    /\ NextSession(x)
    /\ UNCHANGED <<world, import, blocked, faults>>

PushFound(x) ==
    /\ Pushing(x) /\ Linked(x.id) /\ Stale(x)
    /\ Present(Target, link[x.id].uid)
    /\ sync' = [sync EXCEPT !.phase = "update", !.cur = {x}]
    /\ UNCHANGED <<world, link, import, blocked, faults>>

\* update_event creates the event again if it was removed meanwhile
PushUpdate(x) ==
    /\ sync.phase = "update" /\ x \in sync.cur
    /\ Write(link[x.id].uid, x.slot)
    /\ sync' = [sync EXCEPT !.phase = "record"]
    /\ UNCHANGED <<session, tag, touched, link, import, blocked, faults>>

\* the mapping after create_event or update_event returned
Record(x) ==
    /\ sync.phase = "record" /\ x \in sync.cur
    /\ IF Linked(x.id)
       THEN NextSession(x) /\ link' = [link EXCEPT ![x.id].rev = x.rev]
       ELSE Map(x, x.id)
    /\ UNCHANGED <<world, import, blocked, faults>>

\* a CalDavConnectionError; the server may have done what was asked
PushFails(x) ==
    /\ \/ Pushing(x) /\ (Linked(x.id) => Stale(x))
       \/ sync.phase = "update" /\ x \in sync.cur
    /\ Fault
    /\ \/ UNCHANGED event
       \/ ~Linked(x.id) /\ Write(x.id, x.slot)
       \/ sync.phase = "update" /\ Write(link[x.id].uid, x.slot)
    /\ NextSession(x)
    /\ UNCHANGED <<session, tag, touched, link, import, blocked>>

-----------------------------------------------------------------------------
(* _sync_sessions_out, the mappings of sessions that are over or deleted    *)

\* mutant: only the mapping is removed
KeepCopy(u) == UNCHANGED event
DeleteCopy(u) == event' = [event EXCEPT ![Target][u] = NoEvent]

StartSweep ==
    /\ sync.phase = "push" /\ sync.todo = {}
    /\ sync' = [sync EXCEPT !.phase = "sweep", !.gone = {s \in Sessions : Linked(s)} \ sync.known]
    /\ UNCHANGED <<world, link, import, blocked, faults>>

Sweep(s) ==
    /\ sync.phase = "sweep" /\ s \in sync.gone
    /\ DeleteCopy(link[s].uid)
    /\ link' = [link EXCEPT ![s] = NoLink]
    /\ sync' = [sync EXCEPT !.gone = @ \ {s}]
    /\ UNCHANGED <<session, tag, touched, import, blocked, faults>>

SweepFails(s) ==
    /\ sync.phase = "sweep" /\ s \in sync.gone
    /\ Fault
    /\ UNCHANGED event \/ DeleteCopy(link[s].uid)
    /\ sync' = [sync EXCEPT !.gone = @ \ {s}]
    /\ UNCHANGED <<session, tag, touched, link, import, blocked>>

-----------------------------------------------------------------------------
(* _sync_blocked_times_in                                                   *)

StartListing ==
    /\ sync.phase = "sweep" /\ sync.gone = {}
    /\ sync' = [sync EXCEPT !.phase = IF Sources = {} THEN "prune" ELSE "list", !.left = Sources]
    /\ UNCHANGED <<world, link, import, blocked, faults>>

\* a UID found in two calendars counts as the last one listed has it
ListSource(c) ==
    /\ sync.phase = "list" /\ c \in sync.left
    /\ sync' = [sync EXCEPT
                  !.left = @ \ {c},
                  !.seen = {e \in @ : ~Present(c, e.uid)} \cup
                           {[uid |-> u, tag |-> event[c][u].tag] : u \in {v \in Uids : Present(c, v)}}]
    /\ UNCHANGED <<world, link, import, blocked, faults>>

ListFails(c) ==
    /\ sync.phase = "list" /\ c \in sync.left
    /\ Fault
    /\ sync' = [sync EXCEPT !.left = @ \ {c}, !.full = FALSE]
    /\ UNCHANGED <<world, link, import, blocked>>

\* mutant: an event that was imported is not looked at again
OnlyNew(e) == import[e.uid] = NoImport
ToImport(e) == import[e.uid] = NoImport \/ import[e.uid].tag # e.tag

StartImport ==
    /\ sync.phase = "list" /\ sync.left = {}
    /\ sync' = [sync EXCEPT !.phase = "apply",
                  !.news = {e \in sync.seen : ToImport(e)},
                  !.old = {u \in Uids : import[u] # NoImport}]
    /\ UNCHANGED <<world, link, import, blocked, faults>>

Importing(e) == sync.phase = "apply" /\ e \in sync.news

\* mutant: the mapping gets the id of a row that was not saved yet
UnsavedRow(u) == {0}
\* the next id no blocked time of this event has
NextRow(u) ==
    {row \in Rows : /\ \A b \in blocked : b.uid = u => b.row # row
                    /\ \A n \in 1..row - 1 : \E b \in blocked : b.uid = u /\ b.row = n}

ImportNew(e) ==
    /\ Importing(e) /\ e.uid \notin sync.old
    /\ \E row \in NextRow(e.uid) :
          LET b == [uid |-> e.uid, row |-> row, tag |-> e.tag]
          IN /\ blocked' = blocked \cup {b}
             /\ sync' = [sync EXCEPT !.phase = "map", !.news = @ \ {e}, !.made = {b}]
    /\ UNCHANGED <<world, link, import, faults>>

MapImport(b) ==
    /\ sync.phase = "map" /\ b \in sync.made
    /\ IF Mapped(b.uid)
       THEN Abort /\ UNCHANGED import
       ELSE /\ import' = [import EXCEPT ![b.uid] = [row |-> b.row, tag |-> b.tag]]
            /\ sync' = [sync EXCEPT !.phase = "apply", !.made = {}]
    /\ UNCHANGED <<world, link, blocked, faults>>

\* local_object: the row may have been deleted in Preceptly
Local(u) == {b \in blocked : b.uid = u /\ b.row = import[u].row}

ImportChange(e) ==
    /\ Importing(e) /\ e.uid \in sync.old
    /\ IF Local(e.uid) = {}
       THEN UNCHANGED <<import, blocked>>
       ELSE /\ blocked' = (blocked \ Local(e.uid)) \cup
                            {[b EXCEPT !.tag = e.tag] : b \in Local(e.uid)}
            /\ import' = [import EXCEPT ![e.uid].tag = e.tag]
    /\ sync' = [sync EXCEPT !.news = @ \ {e}]
    /\ UNCHANGED <<world, link, faults>>

IsGone(u) == \A e \in sync.seen : e.uid # u

StartPrune ==
    /\ sync.phase = "apply" /\ sync.news = {}
    /\ sync' = [sync EXCEPT !.phase = "prune", !.old = {u \in @ : IsGone(u)}]
    /\ UNCHANGED <<world, link, import, blocked, faults>>

Prune(u) ==
    /\ sync.phase = "prune" /\ u \in sync.old
    /\ blocked' = blocked \ Local(u)
    /\ import' = [import EXCEPT ![u] = NoImport]
    /\ sync' = [sync EXCEPT !.old = @ \ {u}]
    /\ UNCHANGED <<world, link, faults>>

EndCycle ==
    /\ sync.phase = "prune" /\ sync.old = {}
    /\ sync' = NoCycle
    /\ UNCHANGED <<world, link, import, blocked, faults>>

-----------------------------------------------------------------------------

Outside ==
    \/ \E s \in Sessions : Book(s) \/ Leave(s, "over") \/ Leave(s, "gone")
    \/ \E s \in Sessions, slot \in Slots : Edit(s, slot)
    \/ \E b \in blocked : DeleteBlocked(b)
    \/ \E c \in Calendars, u \in Uids, slot \in Slots \cup {None} : External(c, u, slot)

Push ==
    \/ \E x \in sync.todo : \/ \E u \in Uids : PushAdopt(x, u)
                            \/ PushCreate(x)
                            \/ PushUnchanged(x)
                            \/ PushDropped(x)
                            \/ PushFound(x)
                            \/ PushFails(x)
    \/ \E x \in sync.cur : PushUpdate(x) \/ Record(x)

Importer ==
    \/ \E c \in Sources : ListSource(c) \/ ListFails(c)
    \/ \E e \in sync.news : ImportChange(e) \/ ImportNew(e)
    \/ \E b \in sync.made : MapImport(b)
    \/ \E u \in Uids : Prune(u)

Job ==
    \/ StartCycle \/ StartSweep \/ StartListing \/ StartImport \/ StartPrune \/ EndCycle
    \/ Push
    \/ \E s \in Sessions : Sweep(s) \/ SweepFails(s)
    \/ Importer

Next == Outside \/ Job \/ Crash

\* cron starts a cycle again and again, and a cycle that is not killed goes on
Spec == Init /\ [][Next]_vars /\ WF_vars(Job)

-----------------------------------------------------------------------------
(* Properties                                                              *)

(* As long as no call failed and no cycle was killed, the target calendar   *)
(* holds a copy only of a session whose mapping says so, or is just about   *)
(* to: whatever is edited, deleted or removed meanwhile on either side, no  *)
(* copy is left that a later cycle would not find and delete.               *)
CopiesTracked ==
    \A s \in Sessions :
        Present(Target, s) /\ faults = 0 =>
            \/ link[s].uid = s
            \/ sync.phase = "record" /\ \E x \in sync.cur : x.id = s

(* Once the tutor leaves both sides alone, the target has every coming      *)
(* session at the time last saved, and no other session is mapped, whatever *)
(* failed or crashed before (_sync_sessions_out).  What the owner did to a  *)
(* copy is his: a session whose copy he changed or removed is owed nothing  *)
(* while it is to come ("do not resurrect it", sync_service.py:264-266),    *)
(* only that its mapping goes in the end.                                   *)
SessionsConverge ==
    <>[](\A s \in Sessions :
            IF session[s].state = "upcoming"
            THEN s \notin touched =>
                    /\ Linked(s) /\ link[s].rev = session[s].rev
                    /\ event[Target][link[s].uid].slot = session[s].slot
            ELSE ~Linked(s))

(* Likewise, an event is mapped to a blocked time exactly if one of the     *)
(* source calendars has it, and a blocked time that was not deleted in      *)
(* Preceptly is the current version of its event (_sync_blocked_times_in).  *)
ImportsConverge ==
    <>[](\A u \in Uids :
            /\ import[u] # NoImport <=> \E c \in Sources : Present(c, u)
            /\ \A b \in Local(u) : import[u] # NoImport =>
                  \E c \in Sources : Present(c, u) /\ event[c][u].tag = b.tag)

(* "Deletion is decided once, after listing every source calendar this      *)
(* cycle" (sync_service.py:18-23): no imported blocked time is given up in  *)
(* a cycle that could not list all of them.                                 *)
PrunedWithFullPicture ==
    [][\A u \in Uids : import[u] # NoImport /\ import'[u] = NoImport => sync.full]_vars
=============================================================================
