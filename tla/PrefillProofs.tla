---------------------------- MODULE PrefillProofs ----------------------------
(* The two scripts keep what the feature documents promise, for any fields, *)
(* institutes, contracts and values.                                        *)
EXTENDS Prefill, TLAPS

(* What the marks mean: an institute's field without a mark shows what it   *)
(* was loaded with, and one marked "auto" shows what the institute chosen   *)
(* now sets.                                                                *)
Marks ==
    prefill /\ kind = "student" =>
        /\ original = Original
        /\ \A f \in Fields \ touched :
              /\ f \in auto => Preset(chosen, f) # None /\ value[f] = Preset(chosen, f)
              /\ f \notin auto => Preset(chosen, f) = None /\ value[f] = Original[f]

IInv == TypeOK /\ Marks

(* What a choice presets is a value or nothing.                             *)
LEMMA PresetType ==
    ASSUME NEW c, NEW f \in Fields
    PROVE  Preset(c, f) \in Values \cup {None}
BY PrefillAssumption DEF Preset

(* A rendered form shows values.                                            *)
LEMMA RenderedType ==
    ASSUME NEW c
    PROVE  Rendered(c) \in [Fields -> Values]
BY PresetType, PrefillAssumption DEF Rendered

(* A page just opened has consistent marks.                                 *)
LEMMA InitInv == Init => IInv
<1> SUFFICES ASSUME Init PROVE IInv
  OBVIOUS
<1>1. TypeOK
  BY RenderedType DEF Init, TypeOK
<1>2. Marks
  <2> SUFFICES ASSUME kind = "student" PROVE original = Original /\ \A f \in Fields :
                  Preset(chosen, f) = None /\ value[f] = Original[f]
    BY DEF Marks, Init
  <2>1. chosen = Blank
    BY DEF Init, Opens
  <2>2. \A f \in Fields : Preset(chosen, f) = None
    BY <2>1, PrefillAssumption DEF Preset
  <2>3. value = [f \in Fields |-> Original[f]]
    BY <2>2 DEF Init, Rendered
  <2>4. QED
    BY <2>2, <2>3, PrefillAssumption DEF Init
<1>3. QED
  BY <1>1, <1>2 DEF IInv

(* Every step keeps the marks consistent.                                   *)
LEMMA NextInv == IInv /\ [Next]_vars => IInv'
<1> SUFFICES ASSUME IInv, [Next]_vars PROVE IInv'
  OBVIOUS
<1> USE DEF IInv
<1>1. ASSUME NEW k \in Kinds, NEW c \in Choices, Open(k, c) PROVE IInv'
  <2>1. TypeOK'
    BY <1>1, RenderedType DEF Open, TypeOK
  <2>2. Marks'
    <3> SUFFICES ASSUME k = "student"
                 PROVE  value' = Original /\ \A f \in Fields : Preset(c, f) = None
      BY <1>1 DEF Open, Marks, Preset
    <3>1. c = Blank
      BY <1>1 DEF Open, Opens
    <3>2. \A f \in Fields : Preset(c, f) = None
      BY <3>1, PrefillAssumption DEF Preset
    <3>3. QED
      BY <1>1, <3>2, PrefillAssumption DEF Open, Rendered
  <2>3. QED
    BY <2>1, <2>2
<1>2. ASSUME NEW f \in Fields, NEW v \in Values, Type(f, v) PROVE IInv'
  <2>1. TypeOK'
    BY <1>2 DEF Type, form, TypeOK
  <2>2. Marks'
    BY <1>2 DEF Type, form, TypeOK, Marks, Preset
  <2>3. QED
    BY <2>1, <2>2
<1>3. ASSUME NEW c \in Choices, Choose(c) PROVE IInv'
  <2>1. CASE prefill /\ kind = "student" /\ ApplyInstitute(c)
    <3>1. TypeOK'
      <4>1. value' \in [Fields -> Values]
        BY <1>3, <2>1, PresetType DEF ApplyInstitute, Filled, FallsBack, TypeOK
      <4>2. auto' \subseteq Fields
        BY <2>1 DEF ApplyInstitute, Filled, TypeOK
      <4>3. status' \in BOOLEAN
        BY <2>1 DEF ApplyInstitute
      <4>4. QED
        BY <1>3, <4>1, <4>2, <4>3 DEF Choose, TypeOK
    <3>2. Marks'
      <4>1. ASSUME NEW f \in Fields, f \notin touched
            PROVE  /\ f \in auto' => Preset(c, f) # None /\ value'[f] = Preset(c, f)
                   /\ f \notin auto' => Preset(c, f) = None /\ value'[f] = Original[f]
        BY <2>1, <4>1 DEF ApplyInstitute, Filled, FallsBack, Marks
      <4>2. original' = Original /\ chosen' = c /\ touched' = touched
        BY <1>3, <2>1 DEF Choose, Marks
      <4>3. \A f : Preset(chosen, f)' = Preset(c, f)
        BY <4>2 DEF Preset
      <4>4. QED
        BY <4>1, <4>2, <4>3 DEF Marks
    <3>3. QED
      BY <3>1, <3>2
  <2>2. CASE prefill /\ kind = "lesson" /\ ApplyContract(c)
    <3>1. TypeOK'
      <4>1. value' \in [Fields -> Values]
        BY <2>2, PresetType DEF ApplyContract, Filled, TypeOK
      <4>2. QED
        BY <1>3, <2>2, <4>1 DEF Choose, ApplyContract, TypeOK
    <3>2. QED
      BY <1>3, <2>2, <3>1 DEF Choose, Marks
  <2>3. CASE ~prefill /\ UNCHANGED <<value, auto, status>>
    BY <1>3, <2>3 DEF Choose, TypeOK, Marks
  <2>4. QED
    BY <1>3, <2>1, <2>2, <2>3 DEF Choose
<1>4. CASE Reject
  BY <1>4 DEF Reject, TypeOK, Marks
<1>5. CASE Save
  BY <1>5 DEF Save, TypeOK, Marks, Preset
<1>6. CASE UNCHANGED vars
  BY <1>6 DEF vars, TypeOK, Marks, Preset
<1>7. QED
  BY <1>1, <1>2, <1>3, <1>4, <1>5, <1>6 DEF Next

(* The marks are consistent in every state.                                 *)
THEOREM Consistent == Spec => []IInv
BY InitInv, NextInv, PTL DEF Spec

(* No value of an institute chosen before is left in a field that is not    *)
(* the tutor's own (feat-institut-standardwerte.md:13-15).                  *)
THEOREM NeverLeftOver == Spec => []NothingLeftOver
<1>1. IInv => NothingLeftOver
  BY DEF IInv, Marks, NothingLeftOver, Own
<1>2. QED
  BY <1>1, Consistent, PTL
(* Values and marks of every form have their types.                         *)
THEOREM WellTyped == Spec => []TypeOK
<1>1. IInv => TypeOK
  BY DEF IInv
<1>2. QED
  BY <1>1, Consistent, PTL

(* Only a student's form that was not sent back yet shows a message, and    *)
(* the message is true.                                                     *)
Message ==
    /\ status => prefill /\ kind = "student"
    /\ MessageTrue

(* Typing over the value the message is about makes it the tutor's own; the *)
(* next choice makes a new message.                                         *)
LEMMA NextMessage ==
    ASSUME IInv, Message, [Next]_vars
    PROVE  Message'
<1>1. ASSUME NEW k \in Kinds, NEW c \in Choices, Open(k, c) PROVE Message'
  BY <1>1 DEF Open, Message, MessageTrue
<1>2. ASSUME NEW f \in Fields, NEW v \in Values, Type(f, v) PROVE Message'
  <2>1. UNCHANGED <<prefill, kind, chosen, status>>
    BY <1>2 DEF Type, form
  <2>2. ASSUME status
        PROVE  \E g \in Fields :
                  Preset(chosen', g) # None /\ (g \in Own' \/ value'[g] = Preset(chosen', g))
    <3>1. PICK g \in Fields :
             Preset(chosen, g) # None /\ (g \in Own \/ value[g] = Preset(chosen, g))
      BY <2>2 DEF Message, MessageTrue
    <3>2. g \in Own' \/ value'[g] = value[g]
      BY <1>2, <2>1, <2>2 DEF IInv, TypeOK, Type, Own, Message
    <3>3. Own \subseteq Own'
      BY <1>2, <2>1 DEF Type, Own
    <3>4. QED
      BY <2>1, <3>1, <3>2, <3>3
  <2>3. \A g : Preset(chosen, g)' = Preset(chosen', g)
    BY DEF Preset
  <2>4. QED
    BY <2>1, <2>2, <2>3 DEF Message, MessageTrue
<1>3. ASSUME NEW c \in Choices, Choose(c) PROVE Message'
  <2>1. chosen' = c /\ UNCHANGED <<prefill, kind, touched>>
    BY <1>3 DEF Choose
  <2>2. CASE prefill /\ kind = "student" /\ ApplyInstitute(c)
    <3>1. ASSUME status'
          PROVE  \E f \in Fields : Preset(c, f) # None /\ value'[f] = Preset(c, f)
      <4>1. PICK f \in Fields : f \in Filled(c)
        BY <2>2, <3>1 DEF ApplyInstitute, Filled
      <4>2. value'[f] = Preset(c, f)
        BY <2>2, <4>1 DEF ApplyInstitute
      <4>3. QED
        BY <4>1, <4>2 DEF Filled
    <3>2. \A f : Preset(chosen, f)' = Preset(c, f)
      BY <2>1 DEF Preset
    <3>3. QED
      BY <2>1, <2>2, <3>1, <3>2 DEF Message, MessageTrue
  <2>3. CASE ~(prefill /\ kind = "student")
    <3>1. ~status /\ status' = status
      BY <1>3, <2>3 DEF Message, Choose, ApplyContract
    <3>2. QED
      BY <3>1 DEF Message, MessageTrue
  <2>4. QED
    BY <1>3, <2>2, <2>3 DEF Choose
<1>4. CASE Reject
  BY <1>4 DEF Reject, Message, MessageTrue
<1>5. CASE UNCHANGED <<kind, chosen, prefill, value, touched, status>>
  BY <1>5 DEF Message, MessageTrue, Own, Preset
<1>6. QED
  BY <1>1, <1>2, <1>3, <1>4, <1>5 DEF Next, Save, vars

(* The message for screen readers says that values were taken over only     *)
(* while that is so (feat-institut-standardwerte.md:19-20).                 *)
THEOREM MessageNeverLies == Spec => []MessageTrue
<1>1. Init => Message
  BY DEF Init, Message, MessageTrue
<1>2. Message => MessageTrue
  BY DEF Message
<1>3. QED
  BY <1>1, <1>2, NextMessage, Consistent, PTL DEF Spec
-----------------------------------------------------------------------------
(* The first page is one the promise allows.                                *)
LEMMA InitPromised == Init => Promise!Init
BY DEF Init, Kinds, Choices, Opens, Rendered, Preset, Own, Promise!Init, Promise!Choices, Promise!Preset

(* Every step of the scripts and the server is one the promise allows.      *)
LEMMA StepPromised == IInv /\ [Next]_vars => [Promise!Next]_(Promise!vars)
<1> SUFFICES ASSUME IInv, [Next]_vars PROVE [Promise!Next]_(Promise!vars)
  OBVIOUS
<1> USE DEF IInv
<1>1. ASSUME NEW k \in Kinds, NEW c \in Choices, Open(k, c) PROVE Promise!Next
  <2>1. Promise!Fresh(k, c)
    BY <1>1 DEF Open, Opens, Kinds, Rendered, Preset, Own, Promise!Fresh, Promise!Preset
  <2>2. k \in {"student", "lesson"} /\ c \in Promise!Choices
    BY DEF Kinds, Choices, Promise!Choices
  <2>3. QED
    BY <2>1, <2>2 DEF Promise!Next
<1>2. ASSUME NEW f \in Fields, NEW v \in Values, Type(f, v) PROVE Promise!Next
  <2>1. Promise!Type(f, v)
    BY <1>2 DEF Type, form, Own, Promise!Type
  <2>2. QED
    BY <2>1 DEF Promise!Next
<1>3. ASSUME NEW c \in Choices, Choose(c) PROVE Promise!Next
  <2> DEFINE Shown == [f \in Fields |-> IF f \in Own THEN value[f] ELSE Promise!Follows(c, f)]
  <2>1. Own' = Own
    BY <1>3 DEF Choose, Own
  <2>2. value' = Shown
    <3>1. CASE prefill /\ kind = "student" /\ ApplyInstitute(c)
      <4>1. ASSUME NEW f \in Fields PROVE value'[f] = Shown[f]
        <5>1. CASE f \in touched
          BY <3>1, <5>1 DEF ApplyInstitute, Filled, FallsBack, Own
        <5>2. CASE f \notin touched /\ Preset(c, f) # None
          BY <3>1, <5>2 DEF ApplyInstitute, Filled, Own, Promise!Follows, Promise!Preset, Preset
        <5>3. CASE f \notin touched /\ Preset(c, f) = None
          <6>1. value'[f] = Original[f]
            BY <3>1, <5>3 DEF ApplyInstitute, Filled, FallsBack, Marks
          <6>2. Promise!Follows(c, f) = Original[f]
            BY <3>1, <5>3 DEF Promise!Follows, Promise!Preset, Preset
          <6>3. QED
            BY <3>1, <5>3, <6>1, <6>2 DEF Own
        <5>4. QED
          BY <5>1, <5>2, <5>3
      <4>2. value' = [f \in Fields |-> value'[f]]
        BY <3>1 DEF ApplyInstitute
      <4>3. QED
        BY <4>1, <4>2
    <3>2. CASE prefill /\ kind = "lesson" /\ ApplyContract(c)
      <4>1. ASSUME NEW f \in Fields PROVE value'[f] = Shown[f]
        BY <3>2 DEF ApplyContract, Filled, Own, Promise!Follows, Promise!Preset, Preset
      <4>2. value' = [f \in Fields |-> value'[f]]
        BY <3>2 DEF ApplyContract
      <4>3. QED
        BY <4>1, <4>2
    <3>3. CASE ~prefill /\ UNCHANGED <<value, auto, status>>
      BY <3>3 DEF TypeOK, Own
    <3>4. QED
      BY <1>3, <3>1, <3>2, <3>3 DEF Choose
  <2>3. Promise!Choose(c)
    BY <1>3, <2>1, <2>2 DEF Choose, Promise!Choose
  <2>4. QED
    BY <2>3 DEF Promise!Next, Promise!Choices, Choices
<1>4. CASE Reject
  BY <1>4 DEF Reject, Own, Promise!Next, Promise!Reject
<1>5. CASE Save
  BY <1>5 DEF Save, Own, Promise!Next, Promise!Save
<1>6. CASE UNCHANGED vars
  BY <1>6 DEF vars, Own, Promise!vars
<1>7. QED
  BY <1>1, <1>2, <1>3, <1>4, <1>5, <1>6 DEF Next

(* The scripts with their forms implement what the feature documents        *)
(* promise.                                                                 *)
THEOREM KeepsPromise == Spec => PromiseSpec
<1>1. Promise!Init /\ [][Promise!Next]_(Promise!vars) => PromiseSpec
  BY DEF PromiseSpec, Promise!Spec
<1>2. QED
  BY <1>1, InitPromised, StepPromised, Consistent, PTL DEF Spec
=============================================================================
