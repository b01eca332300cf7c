--------------------------- MODULE MCCalendarSync ---------------------------
(* Instances of CalendarSync for TLC. *)
EXTENDS CalendarSync

CONSTANTS s1, u1, u2, work, home, club

MCOneSession == {s1}
MCForeign == {u1, u2}
MCCalendars == {work, home, club}
MCSources == {home, club}
\* the same event may be in both sources, and none of theirs is in the target
MCEntered == {<<work, u1>>, <<home, u2>>, <<club, u2>>}
MCSlots == {"mon", "tue"}
=============================================================================
