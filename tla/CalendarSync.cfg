SPECIFICATION Spec
CONSTANTS
    s1 = s1
    u1 = u1
    u2 = u2
    work = work
    home = home
    club = club
    None = None
    Sessions <- MCOneSession
    Foreign <- MCForeign
    Calendars <- MCCalendars
    Target = work
    Sources <- MCSources
    Entered <- MCEntered
    Slots <- MCSlots
    MaxRev = 1
    MaxTag = 2
    MaxFaults = 1
INVARIANTS
    TypeOK
    CopiesTracked
PROPERTIES
    SessionsConverge
    ImportsConverge
