--------------------------- MODULE InvoiceLedger ---------------------------
(***************************************************************************)
(* What docs/features/feat-rechnungen.md promises of a tutor's invoices:   *)
(* the table of what may happen to a draft, an issued and a cancelled      *)
(* invoice, one atomic step per change.  Sent and paid are one state here, *)
(* "issued": they differ in the payment status alone.                      *)
(***************************************************************************)
EXTENDS Integers, FiniteSets

CONSTANTS
    Lessons,      \* what can be billed
    MaxInvoices   \* invoices ever written

VARIABLES
    state,        \* [Ids -> {"absent", "draft", "issued", "void"}]
    lines,        \* [Ids -> SUBSET Lessons]  the lessons an invoice bills
    cancels,      \* [Ids -> Ids \cup {0}]    the invoice a counter-invoice cancels
    last          \* the number given last

vars == <<state, lines, cancels, last>>

Ids == 1..MaxInvoices
States == {"absent", "draft", "issued", "void"}

TypeOK ==
    /\ state \in [Ids -> States]
    /\ lines \in [Ids -> SUBSET Lessons]
    /\ cancels \in [Ids -> Ids \cup {0}]
    /\ last \in 0..MaxInvoices

Init ==
    /\ state = [i \in Ids |-> "absent"]
    /\ lines = [i \in Ids |-> {}]
    /\ cancels = [i \in Ids |-> 0]
    /\ last = 0

Standing(i) == state[i] \in {"draft", "issued"}

\* a new draft bills lessons that stand on no other invoice
Draft(i, ls) ==
    /\ i = last + 1
    /\ ls # {}
    /\ \A j \in Ids : Standing(j) => lines[j] \cap ls = {}
    /\ last' = i
    /\ state' = [state EXCEPT ![i] = "draft"]
    /\ lines' = [lines EXCEPT ![i] = ls]
    /\ UNCHANGED cancels

Discard(i) ==
    /\ state[i] = "draft"
    /\ state' = [state EXCEPT ![i] = "absent"]
    /\ lines' = [lines EXCEPT ![i] = {}]
    /\ UNCHANGED <<cancels, last>>

Issue(i) ==
    /\ state[i] = "draft"
    /\ state' = [state EXCEPT ![i] = "issued"]
    /\ UNCHANGED <<lines, cancels, last>>

\* an invoice paid without ever being sent goes back to draft
Reopen(i) ==
    /\ state[i] = "issued"
    /\ state' = [state EXCEPT ![i] = "draft"]
    /\ UNCHANGED <<lines, cancels, last>>

\* the only way to undo an issued invoice: a counter-invoice with a number of its own
Void(i, j) ==
    /\ state[i] = "issued"
    /\ j = last + 1
    /\ last' = j
    /\ state' = [state EXCEPT ![i] = "void", ![j] = "void"]
    /\ lines' = [lines EXCEPT ![j] = lines[i]]
    /\ cancels' = [cancels EXCEPT ![j] = i]

Next ==
    \E i \in Ids :
        \/ \E ls \in SUBSET Lessons : Draft(i, ls)
        \/ Discard(i)
        \/ Issue(i)
        \/ Reopen(i)
        \/ \E j \in Ids : Void(i, j)

Spec == Init /\ [][Next]_vars

-----------------------------------------------------------------------------

(* No lesson is billed by two invoices that both stand. *)
BilledOnce ==
    \A i, j \in Ids : Standing(i) /\ Standing(j) /\ i # j => lines[i] \cap lines[j] = {}

(* A cancelled invoice stays cancelled, and its counter-invoice with it. *)
VoidForGood == [][\A i \in Ids : state[i] = "void" => state'[i] = "void"]_vars
=============================================================================
