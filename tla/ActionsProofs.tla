---------------------------- MODULE ActionsProofs ----------------------------
(* For any page: the types, the preview, which is that of the element under *)
(* the pointer, and that no event leads to two places.                      *)
EXTENDS Actions, FiniteSetTheorems, TLAPS

(* The element found is one of those asked for, on the way up from the one  *)
(* the event hit, and no other lies before it.                              *)
LEMMA ClosestNearest ==
    ASSUME NEW n \in Nodes, NEW S \in SUBSET Nodes, Closest(n, S) # None
    PROVE  /\ Closest(n, S) \in S
           /\ \E i \in DOMAIN Path[n] :
                 /\ Path[n][i] = Closest(n, S)
                 /\ \A j \in 1..(i - 1) : Path[n][j] \notin S
<1> DEFINE first == {i \in DOMAIN Path[n] :
                        Path[n][i] \in S /\ \A j \in 1..(i - 1) : Path[n][j] \notin S}
<1>1. first # {} /\ Closest(n, S) = Path[n][CHOOSE i \in first : TRUE]
  BY DEF Closest
<1>2. PICK i \in first : Closest(n, S) = Path[n][i]
  BY <1>1
<1>3. QED
  BY <1>2
-----------------------------------------------------------------------------
(* The preview follows the pointer through any nesting of elements          *)
(* (week.html:130-131, 192-193).                                            *)
THEOREM AlwaysFollows == Spec => []PreviewFollows
<1>1. Init => PreviewFollows
  BY DEF Init, PreviewFollows
<1>2. PreviewFollows /\ [Next]_vars => PreviewFollows'
  <2> SUFFICES ASSUME PreviewFollows, [Next]_vars PROVE PreviewFollows'
    OBVIOUS
  <2>1. ASSUME NEW n \in Nodes \cup {None}, Move(n) PROVE PreviewFollows'
    <3>1. Hidden(pointer) = None
      BY DEF Hidden, PreviewFollows
    <3>2. preview' = IF n # None THEN Closest(n, Hovers) ELSE None
      BY <2>1, <3>1 DEF Move, Shown
    <3>3. pointer' = n
      BY <2>1 DEF Move
    <3>4. QED
      BY <3>2, <3>3 DEF PreviewFollows
  <2>2. CASE Load
    BY <2>2 DEF Load, PreviewFollows
  <2>3. CASE UNCHANGED hover
    BY <2>3 DEF hover, PreviewFollows
  <2>4. QED
    BY <2>1, <2>2, <2>3 DEF Next, Click, Change, Ready, vars, hover
<1>3. QED
  BY <1>1, <1>2, PTL DEF Spec
-----------------------------------------------------------------------------
(* What the listener does when it does something at an element.             *)
Reaction == [goes : SUBSET (Places \cup {"back"}), opens : SUBSET Dialogs,
             closes : SUBSET Dialogs, removes : SUBSET Nodes, prevents : BOOLEAN]

(* Only drops what is not there.                                            *)
LEMMA OnlyThere ==
    ASSUME NEW S, NEW x \in S \cup {None}
    PROVE  Only(x) \subseteq S
BY DEF Only

LEMMA ReactionTypes ==
    ASSUME NEW n \in Nodes, NEW reaction \in Delegated(n)
    PROVE  reaction \in Reaction
<1> DEFINE el == Closest(n, {m \in Nodes : Attrs[m] # {}})
<1>1. Nothing \in Reaction
  BY DEF Nothing, Reaction
<1>2. ASSUME el # None, reaction \in Reactions(el)
      PROVE  reaction \in Reaction
  <2>1. el \in Nodes
    BY <1>2, ClosestNearest
  <2> HIDE DEF el
  <2>2. /\ Only(Href[el]) \subseteq Places /\ Only(Opens[el]) \subseteq Dialogs
        /\ Only(Closes[el]) \subseteq Dialogs /\ Only(Removes[el]) \subseteq Nodes
    BY <2>1, OnlyThere, ActionsAssumption
  <2>3. CASE KindOf(el) = "click"
    <3>1. PICK r \in Outcome[el] : reaction =
              [Nothing EXCEPT !.opens = IF r = "failed" THEN {} ELSE Only(Opens[el]),
                              !.prevents = (r = "false")]
      BY <1>2, <2>3 DEF Reactions, Invoked
    <3>2. QED
      BY <2>2, <3>1 DEF Nothing, Reaction
  <2>4. CASE KindOf(el) = "href"
    BY <1>2, <2>2, <2>4 DEF Reactions, Nothing, Reaction
  <2>5. CASE KindOf(el) = "history"
    <3>1. \/ reaction = [Nothing EXCEPT !.goes = {"back"}, !.prevents = TRUE]
          \/ reaction = Nothing
      BY <1>2, <2>5 DEF Reactions
    <3>2. QED
      BY <1>1, <3>1 DEF Nothing, Reaction
  <2>6. CASE KindOf(el) = "close"
    BY <1>2, <2>2, <2>6 DEF Reactions, Nothing, Reaction
  <2>7. CASE KindOf(el) = "remove"
    BY <1>2, <2>2, <2>7 DEF Reactions, Nothing, Reaction
  <2>8. CASE KindOf(el) \notin {"click", "href", "history", "close", "remove"}
    BY <1>1, <1>2, <2>8 DEF Reactions
  <2>9. QED
    BY <2>3, <2>4, <2>5, <2>6, <2>7, <2>8
<1>3. QED
  BY <1>1, <1>2 DEF Delegated

LEMMA ClickTypes ==
    ASSUME TypeOK, NEW n \in Nodes, Click(n)
    PROVE  TypeOK'
<1> DEFINE el == Closest(n, {m \in Nodes : Native[m] # "none"})
<1>1. PICK reaction \in Delegated(n) :
          /\ open' = (open \cup reaction.opens) \ reaction.closes
          /\ removed' = removed \cup reaction.removes
          /\ Default(n, reaction)
  BY DEF Click
<1>2. reaction \in Reaction
  BY ReactionTypes
<1>3. open' \subseteq Dialogs /\ removed' \subseteq Nodes
  BY <1>1, <1>2 DEF Reaction, TypeOK
<1>4. el # None => el \in Nodes /\ Native[el] # "none"
  BY ClosestNearest
<1>5. going' \subseteq Places \cup Forms \cup {"back"}
  <2> HIDE DEF el
  <2>1. reaction.goes \subseteq Places \cup {"back"}
    BY <1>2 DEF Reaction
  <2>2. el # None => Only(Link[el]) \subseteq Places
    BY <1>4, OnlyThere, ActionsAssumption
  <2>3. el # None /\ Native[el] = "submit" => FormOf[el] \in Forms
    BY <1>4, ActionsAssumption
  <2>4. QED
    BY <1>1, <2>1, <2>2, <2>3 DEF Default, Submit, el
<1>6. UNCHANGED <<ready, longer, pointer, preview>>
  BY DEF Click, page, hover
<1>7. QED
  BY <1>3, <1>5, <1>6 DEF TypeOK

LEMMA ChangeTypes ==
    ASSUME TypeOK, NEW n \in Nodes, Change(n)
    PROVE  TypeOK'
<1> DEFINE el == Closest(n, Autosubmit \cup Changes)
<1>1. UNCHANGED <<ready, longer, removed, open, pointer, preview>>
  BY DEF Change, page, hover
<1>2. going' = IF el \in Autosubmit THEN Only(FormOf[el]) ELSE {}
  BY DEF Change
<1> HIDE DEF el
<1>3. el \in Autosubmit => FormOf[el] \in Forms \cup {None}
  BY ActionsAssumption
<1>4. el \in Autosubmit => Only(FormOf[el]) \subseteq Forms
  BY <1>3, OnlyThere
<1>5. QED
  BY <1>1, <1>2, <1>4 DEF TypeOK

LEMMA MoveTypes ==
    ASSUME TypeOK, NEW n \in Nodes \cup {None}, Move(n)
    PROVE  TypeOK'
<1>1. preview' \in Nodes \cup {None}
  <2>1. n # None => Closest(n, Hovers) \in Nodes \cup {None}
    BY ClosestNearest, ActionsAssumption
  <2>2. QED
    BY <2>1 DEF Move, Shown, Hidden, TypeOK
<1>2. QED
  BY <1>1 DEF Move, page, TypeOK

(* Whatever is clicked, changed or passed over, the page keeps its types.   *)
THEOREM PageTyped == Spec => []TypeOK
<1>1. Init => TypeOK
  <2> SUFFICES ASSUME Init PROVE TypeOK
    OBVIOUS
  <2>1. ready \in BOOLEAN /\ longer \in BOOLEAN
    BY DEF Init
  <2>2. QED
    BY <2>1 DEF Init, TypeOK
<1>2. TypeOK /\ [Next]_vars => TypeOK'
  <2> SUFFICES ASSUME TypeOK, [Next]_vars PROVE TypeOK'
    OBVIOUS
  <2>1. CASE Ready
    BY <2>1 DEF Ready, TypeOK, hover
  <2>2. CASE Load
    BY <2>2 DEF Load, TypeOK
  <2>3. CASE UNCHANGED vars
    BY <2>3 DEF vars, TypeOK
  <2>4. QED
    BY <2>1, <2>2, <2>3, ClickTypes, ChangeTypes, MoveTypes DEF Next
<1>3. QED
  BY <1>1, <1>2, PTL DEF Spec
-----------------------------------------------------------------------------
LEMMA AtMostOne ==
    ASSUME NEW S, NEW x, S \subseteq {x}
    PROVE  Cardinality(S) <= 1
<1>1. IsFiniteSet({x}) /\ Cardinality({x}) = 1
  BY FS_Singleton
<1>2. IsFiniteSet(S) /\ Cardinality(S) <= Cardinality({x})
  BY <1>1, FS_Subset
<1>3. QED
  BY <1>1, <1>2

(* Only a row that leads somewhere and the link back send the page anywhere *)
(* themselves; the link then no longer does.                                *)
LEMMA GoesOnce ==
    ASSUME NEW n \in Nodes, NEW reaction \in Delegated(n)
    PROVE  \/ reaction.goes = {}
           \/ reaction.goes = {"back"} /\ reaction.prevents
           \/ LET row == Closest(n, {m \in Nodes : Attrs[m] # {}})
              IN row # None /\ KindOf(row) = "href" /\ reaction.goes = Only(Href[row])
<1> DEFINE row == Closest(n, {m \in Nodes : Attrs[m] # {}})
<1>1. Nothing.goes = {}
  BY DEF Nothing
<1>2. CASE row # None /\ reaction \in Reactions(row)
  <2> HIDE DEF row
  <2>1. CASE KindOf(row) = "click"
    BY <1>2, <2>1 DEF Reactions, Invoked, Nothing
  <2>2. CASE KindOf(row) = "href"
    <3>1. reaction.goes = Only(Href[row])
      BY <1>2, <2>2 DEF Reactions, Nothing
    <3>2. QED
      BY <1>2, <2>2, <3>1 DEF row
  <2>3. CASE KindOf(row) = "history"
    <3>1. \/ reaction = [Nothing EXCEPT !.goes = {"back"}, !.prevents = TRUE]
          \/ reaction = Nothing
      BY <1>2, <2>3 DEF Reactions
    <3>2. CASE reaction = [Nothing EXCEPT !.goes = {"back"}, !.prevents = TRUE]
      <4>1. reaction.goes = {"back"} /\ reaction.prevents = TRUE
        BY <3>2 DEF Nothing
      <4>2. QED
        BY <4>1
    <3>3. QED
      BY <1>1, <3>1, <3>2
  <2>4. CASE KindOf(row) = "close"
    BY <1>2, <2>4 DEF Reactions, Nothing
  <2>5. CASE KindOf(row) = "remove"
    BY <1>2, <2>5 DEF Reactions, Nothing
  <2>6. CASE KindOf(row) \notin {"click", "href", "history", "close", "remove"}
    BY <1>1, <1>2, <2>6 DEF Reactions
  <2>7. QED
    BY <2>1, <2>2, <2>3, <2>4, <2>5, <2>6
<1>3. QED
  BY <1>1, <1>2 DEF Delegated

LEMMA ClickOneWay ==
    ASSUME NEW n \in Nodes, Click(n)
    PROVE  OneWay'
<1> DEFINE el == Closest(n, {m \in Nodes : Native[m] # "none"})
           row == Closest(n, {m \in Nodes : Attrs[m] # {}})
<1>1. PICK reaction \in Delegated(n) : Default(n, reaction)
  BY DEF Click
<1>2. \/ reaction.goes = {}
      \/ reaction.goes = {"back"} /\ reaction.prevents
      \/ row # None /\ KindOf(row) = "href" /\ reaction.goes = Only(Href[row])
  BY GoesOnce
<1>3. row # None /\ el # None /\ KindOf(row) = "href" =>
          Native[el] = "link" /\ Link[el] = Href[row]
  BY RowsAssumption
<1>4. \E x : reaction.goes \subseteq {x}
  BY <1>2 DEF Only
<1>5. \E x : going' \subseteq {x}
  <2>1. CASE going' = reaction.goes
    BY <1>4, <2>1
  <2>2. CASE el # None /\ ~reaction.prevents /\ Native[el] = "link"
             /\ going' = reaction.goes \cup Only(Link[el])
    BY <1>2, <1>3, <2>2 DEF Only
  <2>3. CASE el # None /\ ~reaction.prevents /\ Native[el] = "submit"
             /\ \E sent \in Submit(FormOf[el]) : going' = reaction.goes \cup sent
    <3>1. reaction.goes = {}
      BY <1>2, <1>3, <2>3
    <3>2. QED
      BY <2>3, <3>1 DEF Submit
  <2>4. QED
    BY <1>1, <2>1, <2>2, <2>3 DEF Default
<1>6. QED
  BY <1>5, AtMostOne DEF OneWay

(* An event leads to one place at most on every page whose rows stop the    *)
(* clicks on the other links and the forms in them (actions.js:30-36).      *)
THEOREM NeverTwoWays == Spec => []OneWay
<1>1. Cardinality({}) <= 1
  BY AtMostOne
<1>2. Init => OneWay
  BY <1>1 DEF Init, OneWay
<1>3. OneWay /\ [Next]_vars => OneWay'
  <2> SUFFICES ASSUME OneWay, [Next]_vars PROVE OneWay'
    OBVIOUS
  <2>1. ASSUME NEW n \in Nodes, Change(n) PROVE OneWay'
    <3>1. \E x : going' \subseteq {x}
      BY <2>1 DEF Change, Only
    <3>2. QED
      BY <3>1, AtMostOne DEF OneWay
  <2>2. CASE Load
    BY <1>1, <2>2 DEF Load, OneWay
  <2>3. CASE UNCHANGED going
    BY <2>3 DEF OneWay
  <2>4. QED
    BY <2>1, <2>2, <2>3, ClickOneWay DEF Next, Move, Ready, vars
<1>4. QED
  BY <1>2, <1>3, PTL DEF Spec
=============================================================================
