--------------------------- MODULE PrefillPromise ---------------------------
(***************************************************************************)
(* What docs/features/feat-institut-standardwerte.md (10-18) and           *)
(* docs/features/feat-fahrzeiten-mindestabstand.md (11-14) promise of the  *)
(* two forms whose fields are filled in from another choice: what the      *)
(* tutor typed himself stays; every other field follows the choice; after  *)
(* a rejected form nothing is filled in any more; what is stored is what   *)
(* the form shows.                                                         *)
(***************************************************************************)
CONSTANTS Fields, Sources, Blank, Values, None, Default, Original

VARIABLES
    kind,    \* "student": institute and rates; "lesson": contract and travel times
    chosen,  \* the institute or contract chosen
    shown,   \* [Fields -> Values]   what the fields show
    typed,   \* the fields that are the tutor's own
    saved    \* what was stored, None while the form is open

vars == <<kind, chosen, shown, typed, saved>>

Choices == Sources \cup {Blank}
Preset(c, f) == IF c \in Sources THEN Default[c][f] ELSE None

(* What a field shows that the tutor has not typed into when c is chosen.  *)
(* A student's field falls back on what it showed at first; a travel time  *)
(* stays, because every contract has its own.                              *)
Follows(c, f) ==
    IF Preset(c, f) # None THEN Preset(c, f)
    ELSE IF kind = "student" THEN Original[f] ELSE shown[f]

(* A new form: a lesson's may be opened for a contract, whose travel times *)
(* it then shows already.                                                  *)
Fresh(k, c) ==
    /\ kind' = k /\ chosen' = c
    /\ k = "student" => c = Blank
    /\ shown' = [f \in Fields |-> IF Preset(c, f) # None THEN Preset(c, f) ELSE Original[f]]
    /\ typed' = {} /\ saved' = None

Init ==
    /\ kind \in {"student", "lesson"}
    /\ chosen \in Choices /\ (kind = "student" => chosen = Blank)
    /\ shown = [f \in Fields |-> IF Preset(chosen, f) # None THEN Preset(chosen, f) ELSE Original[f]]
    /\ typed = {} /\ saved = None

Type(f, v) ==
    /\ saved = None
    /\ shown' = [shown EXCEPT ![f] = v]
    /\ typed' = typed \cup {f}
    /\ UNCHANGED <<kind, chosen, saved>>

Choose(c) ==
    /\ saved = None
    /\ chosen' = c
    /\ shown' = [f \in Fields |-> IF f \in typed THEN shown[f] ELSE Follows(c, f)]
    /\ UNCHANGED <<kind, typed, saved>>

(* The server finds an error: the form comes back, all of it the tutor's.  *)
Reject ==
    /\ saved = None
    /\ typed' = Fields
    /\ UNCHANGED <<kind, chosen, shown, saved>>

Save ==
    /\ saved = None
    /\ saved' = shown
    /\ UNCHANGED <<kind, chosen, shown, typed>>

Next ==
    \/ \E f \in Fields, v \in Values : Type(f, v)
    \/ \E c \in Choices : Choose(c)
    \/ Reject
    \/ Save
    \/ \E k \in {"student", "lesson"}, c \in Choices : Fresh(k, c)

Spec == Init /\ [][Next]_vars
=============================================================================
