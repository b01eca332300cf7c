SPECIFICATION Spec
CONSTANTS
    Root = "/"
    Pages = {"/"}
    Statics = {"icon"}
    Data = {"api"}
    Precached = {"/", "icon"}
    Targets <- MCTargets
    MaxRelease = 3
    Script <- MCScript
    MaxPuts = 1
    MaxNotes = 1
    None = None
INVARIANTS
    TypeOK
    NoOldCopies
    PrecacheWhole
PROPERTIES
    NewestTakesOver
