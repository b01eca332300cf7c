------------------------------- MODULE Prefill -------------------------------
(***************************************************************************)
(* core/static/js/institute-defaults.js and travel-defaults.js with the    *)
(* forms they run in: contracts/forms.py (_setup_institute_defaults) and   *)
(* lessons/travel_defaults.py.                                             *)
(*                                                                         *)
(* The student form fills the hourly rate and the unit length from the     *)
(* institute chosen, the lesson form the travel times from the contract    *)
(* chosen.  Whether a value may be replaced is not written anywhere as     *)
(* such: the scripts keep two marks per field, "touched" and "auto", and   *)
(* the value the page was loaded with.                                     *)
(***************************************************************************)
CONSTANTS
    Fields,    \* the fields that are filled in
    Sources,   \* institutes or contracts that can be chosen
    Blank,     \* nothing chosen
    Values,
    None,      \* an institute sets nothing for the field
    Default,   \* [Sources -> [Fields -> Values \cup {None}]]  the JSON in the page
    Original   \* [Fields -> Values]  what an empty form shows

ASSUME PrefillAssumption ==
    /\ None \notin Values
    /\ Blank \notin Sources
    /\ Default \in [Sources -> [Fields -> Values \cup {None}]]
    /\ Original \in [Fields -> Values]

VARIABLES
    kind,      \* which of the two forms
    chosen,    \* institute.value, contract.value
    prefill,   \* the select carries data-institute-prefill / data-travel-prefill
    value,     \* [Fields -> Values]   field.value
    touched,   \* fields with dataset.touched
    auto,      \* fields with dataset.auto
    original,  \* [Fields -> Values]   the Map of institute-defaults.js
    status,    \* the message for screen readers is there
    saved      \* what the server stored, None while the form is open

vars == <<kind, chosen, prefill, value, touched, auto, original, status, saved>>
form == <<kind, chosen, prefill, original, saved>>

Kinds == {"student", "lesson"}
Choices == Sources \cup {Blank}
\* mutant: a choice without an entry is not caught
PresetUnchecked(c, f) == IF c \in Sources THEN Default[c][f] ELSE Blank

Preset(c, f) == IF c \in Sources THEN Default[c][f] ELSE None

(* A contract always has both travel times; an institute may set nothing.  *)
Offers(k, c) == k = "lesson" => \A f \in Fields : Preset(c, f) # None

TypeOK ==
    /\ kind \in Kinds
    /\ chosen \in Choices
    /\ prefill \in BOOLEAN
    /\ value \in [Fields -> Values]
    /\ touched \subseteq Fields
    /\ auto \subseteq Fields
    /\ original \in [Fields -> Values]
    /\ status \in BOOLEAN
    /\ saved \in [Fields -> Values] \cup {None}
-----------------------------------------------------------------------------
(* The page of a new form.  A lesson may be opened for a contract; the     *)
(* server has then filled in its travel times.                             *)
Rendered(c) == [f \in Fields |-> IF Preset(c, f) # None THEN Preset(c, f) ELSE Original[f]]

Opens(k, c) == c # Blank => k = "lesson" /\ Offers(k, c)

Init ==
    /\ kind \in Kinds /\ chosen \in Choices /\ Opens(kind, chosen)
    /\ prefill = TRUE
    /\ value = Rendered(chosen) /\ original = value
    /\ touched = {} /\ auto = {} /\ status = FALSE
    /\ saved = None

Open(k, c) ==
    /\ saved # None
    /\ Opens(k, c)
    /\ kind' = k /\ chosen' = c
    /\ prefill' = TRUE
    /\ value' = Rendered(c) /\ original' = value'
    /\ touched' = {} /\ auto' = {} /\ status' = FALSE
    /\ saved' = None

(* An input event.  The listener is there only if the script runs.         *)
Type(f, v) ==
    /\ saved = None
    /\ value' = [value EXCEPT ![f] = v]
    /\ touched' = IF prefill THEN touched \cup {f} ELSE touched
    /\ UNCHANGED <<form, auto, status>>

(* institute-defaults.js apply, on every field.                            *)
\* mutant: a value typed in is replaced too
FilledAnyway(c) == {f \in Fields : Preset(c, f) # None}

Filled(c) == {f \in Fields : f \notin touched /\ Preset(c, f) # None}
\* mutant: a value filled in stays when the next institute sets none
StaysThere(c) == {}

FallsBack(c) == {f \in auto : f \notin touched /\ Preset(c, f) = None}

\* mutant: the message stays once it was shown
KeepsMessage(c) ==
    /\ value' = [f \in Fields |-> IF f \in Filled(c) THEN Preset(c, f)
                                  ELSE IF f \in FallsBack(c) THEN original[f]
                                  ELSE value[f]]
    /\ auto' = (auto \cup Filled(c)) \ FallsBack(c)
    /\ status' = (status \/ Filled(c) # {})

ApplyInstitute(c) ==
    /\ value' = [f \in Fields |-> IF f \in Filled(c) THEN Preset(c, f)
                                  ELSE IF f \in FallsBack(c) THEN original[f]
                                  ELSE value[f]]
    /\ auto' = (auto \cup Filled(c)) \ FallsBack(c)
    /\ status' = (Filled(c) # {})

(* travel-defaults.js: without an entry the handler returns.               *)
ApplyContract(c) ==
    /\ value' = [f \in Fields |-> IF f \in Filled(c) THEN Preset(c, f) ELSE value[f]]
    /\ UNCHANGED <<auto, status>>

(* A change event of the select.                                           *)
Choose(c) ==
    /\ saved = None
    /\ c # chosen
    /\ c # Blank => Offers(kind, c)
    /\ chosen' = c
    /\ \/ prefill /\ kind = "student" /\ ApplyInstitute(c)
       \/ prefill /\ kind = "lesson" /\ ApplyContract(c)
       \/ ~prefill /\ UNCHANGED <<value, auto, status>>
    /\ UNCHANGED <<kind, prefill, original, touched, saved>>

(* The form is sent and an error found: a new page shows what was sent,    *)
(* without the attribute.                                                  *)
Reject ==
    /\ saved = None
    /\ prefill' = FALSE
    /\ touched' = {} /\ auto' = {} /\ status' = FALSE
    /\ original' = value
    /\ UNCHANGED <<kind, chosen, value, saved>>

Save ==
    /\ saved = None
    /\ saved' = value
    /\ UNCHANGED <<kind, chosen, prefill, value, touched, auto, original, status>>

Next ==
    \/ \E k \in Kinds, c \in Choices : Open(k, c)
    \/ \E f \in Fields, v \in Values : Type(f, v)
    \/ \E c \in Choices : Choose(c)
    \/ Reject
    \/ Save

Spec == Init /\ [][Next]_vars
-----------------------------------------------------------------------------
(* The tutor's fields: those he typed into, and all once the server sent   *)
(* the form back.                                                          *)
Own == IF prefill THEN touched ELSE Fields

(* "So bleibt kein Wert des vorigen Instituts stehen": in the student form *)
(* a field that is not the tutor's own holds what the institute chosen now *)
(* sets, or what an empty form shows - never what another institute chosen *)
(* in between left there (feat-institut-standardwerte.md:13-15).           *)
NothingLeftOver ==
    kind = "student" =>
        \A f \in Fields \ Own :
            value[f] = IF Preset(chosen, f) # None THEN Preset(chosen, f) ELSE Original[f]

(* The message says that values were taken over: then something the        *)
(* institute sets stands in a field or was typed over since                *)
(* (feat-institut-standardwerte.md:19-20).                                 *)
MessageTrue ==
    status => \E f \in Fields :
                 Preset(chosen, f) # None /\ (f \in Own \/ value[f] = Preset(chosen, f))

(* The scripts' marks and the two servers' forms do what the feature       *)
(* documents promise.                                                      *)
Promise == INSTANCE PrefillPromise WITH shown <- value, typed <- Own
PromiseSpec == Promise!Spec
=============================================================================
