------------------------------- MODULE Actions -------------------------------
(***************************************************************************)
(* core/static/js/actions.js: one script at the document in place of       *)
(* inline event handlers, and the pages it runs in.                        *)
(*                                                                         *)
(* A page is its elements, the path from each to the document, and their   *)
(* data attributes.  An event is dispatched in one step: the script's      *)
(* listener first, then what the browser does by itself (follow a link,    *)
(* submit a form) unless that was prevented.  A page that is being left    *)
(* still takes events until the next one arrives.  The script is loaded    *)
(* with "defer", so a page is there before its listeners are.              *)
(***************************************************************************)
EXTENDS Naturals, FiniteSets, Sequences

CONSTANTS
    Nodes, Forms, Dialogs, Places,
    Path,        \* [Nodes -> Seq(Nodes)]     the element, its parent, and so on
    Attrs,       \* [Nodes -> SUBSET Kinds]   data attributes a click looks for
    Outcome,     \* [Nodes -> SUBSET Results] what the function of data-click may do
    Href,        \* [Nodes -> Places \cup {None}]   data-href
    Opens,       \* [Nodes -> Dialogs \cup {None}]  the dialog data-click opens
    Closes,      \* [Nodes -> Dialogs \cup {None}]  data-close-dialog
    Removes,     \* [Nodes -> Nodes \cup {None}]    what data-remove-closest matches
    Inside,      \* [Dialogs -> SUBSET Nodes]       the elements of a dialog
    Native,      \* [Nodes -> {"none", "link", "submit"}]  what the browser does
    Link,        \* [Nodes -> Places \cup {None}]   href of a link
    FormOf,      \* [Nodes -> Forms \cup {None}]
    Confirms,    \* forms with data-confirm
    Autosubmit,  \* fields with data-autosubmit
    Changes,     \* fields with data-change
    Hovers,      \* elements with data-mouseover and data-mouseout
    None

Kinds == {"click", "href", "history", "close", "select", "copy", "remove", "stop"}
(* What becomes of a call: it returns something, it returns false, or there *)
(* is no such function or its arguments are not JSON.                       *)
Results == {"called", "false", "failed"}

ASSUME ActionsAssumption ==
    /\ Confirms \subseteq Forms
    /\ Path \in [Nodes -> Seq(Nodes)]
    /\ Attrs \in [Nodes -> SUBSET Kinds]
    /\ Outcome \in [Nodes -> SUBSET Results]
    /\ Href \in [Nodes -> Places \cup {None}] /\ Link \in [Nodes -> Places \cup {None}]
    /\ Opens \in [Nodes -> Dialogs \cup {None}] /\ Closes \in [Nodes -> Dialogs \cup {None}]
    /\ Removes \in [Nodes -> Nodes \cup {None}]
    /\ Hovers \subseteq Nodes /\ Autosubmit \subseteq Nodes
    /\ FormOf \in [Nodes -> Forms \cup {None}]
    /\ Native \in [Nodes -> {"none", "link", "submit"}]
    /\ \A n \in Nodes : Native[n] = "submit" => FormOf[n] # None
    /\ None \notin Nodes \cup Forms \cup Dialogs \cup Places

VARIABLES
    ready,    \* the script's listeners are there
    longer,   \* window.history.length > 1
    removed,  \* elements taken out of the page
    open,     \* dialogs that are open
    going,    \* where the last event leads: places and forms
    pointer,  \* the element the script last saw the pointer enter
    preview   \* the element whose preview is shown (week.html previewTooltip)

vars == <<ready, longer, removed, open, going, pointer, preview>>
page == <<ready, longer>>
hover == <<pointer, preview>>

TypeOK ==
    /\ ready \in BOOLEAN /\ longer \in BOOLEAN
    /\ removed \subseteq Nodes
    /\ open \subseteq Dialogs
    /\ going \subseteq Places \cup Forms \cup {"back"}
    /\ pointer \in Nodes \cup {None}
    /\ preview \in Nodes \cup {None}

Init ==
    /\ ready = FALSE /\ longer \in BOOLEAN
    /\ removed = {} /\ open = {} /\ going = {}
    /\ pointer = None /\ preview = None
-----------------------------------------------------------------------------
(* closestFrom: the nearest element of the path that is in S.              *)
Closest(n, S) ==
    LET first == {i \in DOMAIN Path[n] :
                     Path[n][i] \in S /\ \A j \in 1..(i - 1) : Path[n][j] \notin S}
    IN IF first = {} THEN None ELSE Path[n][CHOOSE i \in first : TRUE]

(* A dialog opened with showModal() makes the rest of the page inert.      *)
Reachable(n) ==
    /\ \A i \in DOMAIN Path[n] : Path[n][i] \notin removed
    /\ \A d \in open : n \in Inside[d]
    /\ (\E d \in Dialogs : n \in Inside[d]) => \E d \in open : n \in Inside[d]

(* The order in which the listener looks for the attributes.               *)
Order == <<"click", "href", "history", "close", "select", "copy", "remove", "stop">>
KindOf(n) == Order[CHOOSE i \in DOMAIN Order :
                      /\ Order[i] \in Attrs[n]
                      /\ \A j \in DOMAIN Order : Order[j] \in Attrs[n] => i <= j]

(* A row that leads to a page stops the clicks in the cells with other      *)
(* links and with forms; a link left in it leads to the same page           *)
(* (portal/student_lessons.html:37-60, lessons/week.html:130-155).          *)
ASSUME RowsAssumption ==
    \A n \in Nodes :
        LET row == Closest(n, {m \in Nodes : Attrs[m] # {}})
            el == Closest(n, {m \in Nodes : Native[m] # "none"})
        IN row # None /\ el # None /\ KindOf(row) = "href" =>
              Native[el] = "link" /\ Link[el] = Href[row]

Nothing == [goes |-> {}, opens |-> {}, closes |-> {}, removes |-> {}, prevents |-> FALSE]
\* mutant: what is not there is not caught
OnlyUnchecked(x) == {x}

Only(x) == {x} \ {None}

(* invoke, and what the function does as far as it matters here.           *)
Invoked(n) == {[Nothing EXCEPT !.opens = IF r = "failed" THEN {} ELSE Only(Opens[n]),
                               !.prevents = (r = "false")] : r \in Outcome[n]}

(* The click listener at element n: the reactions that are possible.       *)
Reactions(n) ==
    LET kind == KindOf(n) IN
    CASE kind = "click"   -> Invoked(n)
      [] kind = "href"    -> {[Nothing EXCEPT !.goes = Only(Href[n])]}
      [] kind = "history" -> {IF longer THEN [Nothing EXCEPT !.goes = {"back"}, !.prevents = TRUE]
                              ELSE Nothing}
      [] kind = "close"   -> {[Nothing EXCEPT !.closes = Only(Closes[n])]}
      [] kind = "remove"  -> {[Nothing EXCEPT !.removes = Only(Removes[n])]}
      [] OTHER            -> {Nothing}

\* mutant: an element that stops the click is passed over
NeverStopped(n) ==
    LET el == Closest(n, {m \in Nodes : Attrs[m] \ {"stop"} # {}})
    IN IF ready /\ el # None THEN Reactions(el) ELSE {Nothing}

Delegated(n) ==
    LET el == Closest(n, {m \in Nodes : Attrs[m] # {}})
    IN IF ready /\ el # None THEN Reactions(el) ELSE {Nothing}

(* The submit listener, in the capture phase: a form that asks goes out     *)
(* only if the user says yes - or if the script is not there yet.           *)
Submit(f) == {{f}} \cup (IF ready /\ f \in Confirms THEN {{}} ELSE {})

(* What the browser does by itself after a click.                          *)
Default(n, reaction) ==
    LET el == Closest(n, {m \in Nodes : Native[m] # "none"}) IN
    \/ /\ el = None \/ reaction.prevents
       /\ going' = reaction.goes
    \/ /\ el # None /\ ~reaction.prevents /\ Native[el] = "link"
       /\ going' = reaction.goes \cup Only(Link[el])
    \/ /\ el # None /\ ~reaction.prevents /\ Native[el] = "submit"
       /\ \E sent \in Submit(FormOf[el]) : going' = reaction.goes \cup sent

Click(n) ==
    /\ Reachable(n)
    /\ \E reaction \in Delegated(n) :
          /\ open' = (open \cup reaction.opens) \ reaction.closes
          /\ removed' = removed \cup reaction.removes
          /\ Default(n, reaction)
    /\ UNCHANGED <<page, hover>>

(* A field changes.  form.submit() fires no submit event, so nobody asks.  *)
Change(n) ==
    LET el == Closest(n, Autosubmit \cup Changes) IN
    /\ Reachable(n) /\ ready
    /\ el # None
    /\ going' = IF el \in Autosubmit THEN Only(FormOf[el]) ELSE {}
    /\ UNCHANGED <<page, removed, open, hover>>

(* The pointer moves on: mouseout where it was, mouseover where it is now. *)
(* The functions of week.html show a preview only if none is shown.        *)
\* mutant: the pointer leaves an inner element and the preview stays
HiddenAtItself(n) == IF n \in Hovers THEN None ELSE preview

Hidden(n) == IF n # None /\ Closest(n, Hovers) # None THEN None ELSE preview
Shown(n, shown) == IF n # None /\ shown = None THEN Closest(n, Hovers) ELSE shown

Move(n) ==
    /\ ready
    /\ n # None => Reachable(n)
    /\ n # pointer
    /\ pointer' = n
    /\ preview' = Shown(n, Hidden(pointer))
    /\ UNCHANGED <<page, removed, open, going>>

(* The deferred script runs.                                               *)
Ready ==
    /\ ~ready /\ ready' = TRUE
    /\ UNCHANGED <<longer, removed, open, going, hover>>

(* The browser gets the next page, which may again be this one.            *)
Load ==
    /\ going # {}
    /\ ready' = FALSE /\ longer' = TRUE
    /\ removed' = {} /\ open' = {} /\ going' = {}
    /\ pointer' = None /\ preview' = None

Next ==
    \/ \E n \in Nodes : Click(n)
    \/ \E n \in Nodes : Change(n)
    \/ \E n \in Nodes \cup {None} : Move(n)
    \/ Ready
    \/ Load

Spec == Init /\ [][Next]_vars
-----------------------------------------------------------------------------
(* An event leads to one place at most: a row that is a link, the cell     *)
(* that stops it, the links and forms in it and the browser's own doing    *)
(* never send the page two ways at once (actions.js:30-36).                *)
OneWay == Cardinality(going) <= 1

(* The preview shown is that of the appointment under the pointer, however *)
(* the pointer moves over its inner elements and between appointments that *)
(* touch (week.html:130-131, 192-193).                                     *)
PreviewFollows ==
    preview = IF pointer # None THEN Closest(pointer, Hovers) ELSE None
=============================================================================
