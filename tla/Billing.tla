------------------------------- MODULE Billing -------------------------------
(***************************************************************************)
(* Invoices of one tutor: apps/billing/{models,services,views}.py, and the *)
(* lesson handlers of apps/lessons that write the rows billing depends on. *)
(*                                                                         *)
(* Django runs the views in autocommit mode (no ATOMIC_REQUESTS) on        *)
(* PostgreSQL READ COMMITTED.  A view reads the invoice in one statement,  *)
(* decides on what it read, and hands the instance to a service that       *)
(* writes in a transaction of its own.  A request is therefore two steps,  *)
(* a Begin that keeps the row it read and a commit that uses it; whatever  *)
(* other requests commit in between is visible in the database only.       *)
(*                                                                         *)
(* `save(update_fields=...)` writes the named columns and fails on a row   *)
(* that is gone; a plain `save()` (FieldFile.save, form.save) writes       *)
(* every column of the stale instance and re-inserts a row that is gone.   *)
(* Amounts, dates, texts and the contents of files are left out,           *)
(* except whose name a stored PDF carries.                                 *)
(***************************************************************************)
EXTENDS Integers, FiniteSets

CONSTANTS
    Lessons,      \* the tutor's sessions
    NoShow,       \* those with tutor_no_show set
    Payers,       \* possible recipients
    Requests,     \* HTTP requests served at the same time
    MaxInvoices,  \* bound: invoice rows ever inserted
    None          \* no PDF, no recipient

ASSUME BillingAssumption ==
    /\ NoShow \subseteq Lessons
    /\ MaxInvoices \in Nat
    /\ None \notin Payers

VARIABLES
    lesson,    \* [Lessons -> LessonStatus]   Session.status, "gone" once deleted
    invoice,   \* [Ids -> Row]                table billing_invoice by primary key
    items,     \* SUBSET Item                 table billing_invoiceitem
    lastId,    \* Nat                         sequence of invoice primary keys
    counter,   \* Nat                         UserProfile.next_invoice_number
    req        \* [Requests -> Request]       what each request has read so far

vars == <<lesson, invoice, items, lastId, counter, req>>

Ids == 1..MaxInvoices
LessonStatus == {"planned", "taught", "paid", "gone"}
Live == {"draft", "sent", "paid"}
Row == [status  : Live \cup {"cancelled", "none"},
        number  : Nat,
        payer   : Payers \cup {None},
        pdf     : Payers \cup {None},    \* the recipient printed on it
        sent    : BOOLEAN,               \* sent_at is set
        cancels : Ids \cup {0}]
NoRow == [status |-> "none", number |-> 0, payer |-> None, pdf |-> None,
          sent |-> FALSE, cancels |-> 0]

\* linked: the foreign key to the lesson is set (SET_NULL when it is deleted)
Item == [inv : Ids, lesson : Lessons, linked : BOOLEAN]

Ops == {"idle", "create", "payer", "delete", "send", "store", "pay", "unpay", "edit", "resave"}
Request == [op   : Ops,
            inv  : Ids \cup {0},
            row  : Row,                  \* what the view will write of its instance
            cand : SUBSET Lessons,       \* create: the query's rows; edit: the lesson
            mark : LessonStatus]         \* edit: the status of the instance
Idle == [op |-> "idle", inv |-> 0, row |-> NoRow, cand |-> {}, mark |-> "gone"]

TypeOK ==
    /\ lesson \in [Lessons -> LessonStatus]
    /\ invoice \in [Ids -> Row]
    /\ items \subseteq Item
    /\ lastId \in 0..MaxInvoices
    /\ counter \in Nat \ {0}
    /\ req \in [Requests -> Request]

\* mutant: numbering starts below the default of the profile column
FirstNumberZero == 0
FirstNumber == 1

Init ==
    /\ lesson = [l \in Lessons |-> "planned"]
    /\ invoice = [i \in Ids |-> NoRow]
    /\ items = {}
    /\ lastId = 0
    /\ counter = FirstNumber
    /\ req = [r \in Requests |-> Idle]

-----------------------------------------------------------------------------
(* What the code reads of the tables                                       *)

Present(i) == invoice[i].status # "none"
ItemsOf(i) == {it \in items : it.inv = i}
Linked(S) == {it.lesson : it \in {x \in S : x.linked}}

\* the lessons an invoice bills, whether or not the rows still exist
Lines(i) == {it.lesson : it \in ItemsOf(i)}

\* mutant: a cancelled invoice counts as a draft again
IsLockedButCancelled(row) == row.status \in {"sent", "paid"}
IsLocked(row) == row.status # "draft"

InLive(l) == \E it \in items : /\ it.linked
                               /\ it.lesson = l
                               /\ invoice[it.inv].status \in Live

\* mutant: the exclusion of invoiced lessons is dropped
TaughtOnly(l) == lesson[l] = "taught"
\* get_billable_lessons: taught and in no draft, sent or paid invoice
Billable(l) == lesson[l] = "taught" /\ ~InLive(l)

StornoOf(i) == {j \in Ids : Present(j) /\ invoice[j].cancels = i}

\* mutant: the profile is not saved
KeepNumber == counter
\* next_invoice_number locks the profile row until the transaction ends
NextInvoiceNumber == counter + 1

\* SELECT ... FOR UPDATE evaluates its WHERE clause on a snapshot; a row another
\* transaction changed meanwhile is locked in its new version and only its own
\* columns are tested again, the subquery on the items is not.
LockTaught(cand) == {l \in cand : lesson[l] = "taught"}

\* lesson rows set to `to` where the row's status is `from`
Reset(S, from, to) ==
    [l \in Lessons |-> IF l \in S /\ lesson[l] = from THEN to ELSE lesson[l]]

-----------------------------------------------------------------------------
(* A request: Start keeps what was read and is written later, Finish       *)
(* forgets it                                                              *)

Start(r, op, i, row) ==
    /\ req[r].op = "idle"
    /\ Present(i)
    /\ req' = [req EXCEPT ![r] = [Idle EXCEPT !.op = op, !.inv = i, !.row = row]]
    /\ UNCHANGED <<lesson, invoice, items, lastId, counter>>

Finish(r) == req' = [req EXCEPT ![r] = Idle]

\* an exception or a refusal after the read: nothing is written
Fail(r) == Finish(r) /\ UNCHANGED <<lesson, invoice, items, lastId, counter>>

\* Bound: a free primary key is reserved for every create under way.
Room == lastId + Cardinality({r \in Requests : req[r].op = "create"}) < MaxInvoices

-----------------------------------------------------------------------------
(* InvoiceService.create_invoice_from_lessons                               *)

CreateBegin(r, scope) ==
    LET cand == {l \in scope : Billable(l)} IN
    /\ req[r].op = "idle"
    /\ cand # {}
    /\ Room
    /\ req' = [req EXCEPT ![r] = [Idle EXCEPT !.op = "create", !.cand = cand]]
    /\ UNCHANGED <<lesson, invoice, items, lastId, counter>>

\* A tutor no-show among the lessons violates the check constraint
\* session_no_show_only_if_not_cancelled_paid and rolls everything back.
CreateRefused(r) ==
    LET batch == LockTaught(req[r].cand) IN
    /\ req[r].op = "create"
    /\ batch = {} \/ batch \cap NoShow # {}
    /\ Fail(r)

CreateCommit(r, payer) ==
    LET batch == LockTaught(req[r].cand)
        id == lastId + 1
    IN
    /\ req[r].op = "create"
    /\ batch # {}
    /\ batch \cap NoShow = {}
    /\ id <= MaxInvoices
    /\ lastId' = id
    /\ counter' = NextInvoiceNumber
    /\ invoice' = [invoice EXCEPT ![id] =
                     [NoRow EXCEPT !.status = "draft", !.number = counter, !.payer = payer]]
    /\ items' = items \cup [inv : {id}, lesson : batch, linked : {TRUE}]
    /\ lesson' = Reset(batch, "taught", "paid")
    /\ Finish(r)

-----------------------------------------------------------------------------
(* InvoicePayerUpdateView                                                   *)

PayerBegin(r, i) == ~IsLocked(invoice[i]) /\ Start(r, "payer", i, NoRow)

PayerSave(r, payer) ==
    LET i == req[r].inv IN
    /\ req[r].op = "payer"
    /\ IF Present(i)
       THEN /\ invoice' = [invoice EXCEPT ![i].payer = payer]
            /\ Finish(r)
            /\ UNCHANGED <<lesson, items, lastId, counter>>
       ELSE Fail(r)

-----------------------------------------------------------------------------
(* InvoiceDeleteView and Invoice.delete                                     *)

DeleteBegin(r, i) == ~IsLocked(invoice[i]) /\ Start(r, "delete", i, NoRow)

\* the lessons whose only invoice is the one being deleted - an item of a
\* cancelled invoice counts as another invoice here
NotShared(i) ==
    {l \in Linked(ItemsOf(i)) :
        ~ \E it \in items : it.inv # i /\ it.linked /\ it.lesson = l}

\* mutant: the foreign key `cancels` does not protect the original
UnprotectedDelete(i) == Present(i)
\* PROTECT: an invoice a cancellation refers to cannot be deleted
CanDelete(i) == Present(i) /\ StornoOf(i) = {}

DeleteCommit(r) ==
    LET i == req[r].inv IN
    /\ req[r].op = "delete"
    /\ IF CanDelete(i)
       THEN /\ lesson' = Reset(NotShared(i), "paid", "taught")
            /\ invoice' = [invoice EXCEPT ![i] = NoRow]
            /\ items' = items \ ItemsOf(i)
            /\ Finish(r)
            /\ UNCHANGED <<lastId, counter>>
       ELSE Fail(r)

-----------------------------------------------------------------------------
(* invoice_mark_sent                                                        *)

\* _store_invoice_pdf prints the recipient of the instance the view holds
WithPdf(row) == [row EXCEPT !.pdf = row.payer]

\* the PDF is made in the same request if the instance has none
SendBegin(r, i) ==
    LET sent == [invoice[i] EXCEPT !.status = "sent", !.sent = TRUE] IN
    /\ invoice[i].status = "draft"
    /\ Start(r, "send", i, IF sent.pdf = None THEN WithPdf(sent) ELSE NoRow)

\* mark_invoice_as_sent, then on to the PDF
SendSave(r) ==
    LET i == req[r].inv IN
    /\ req[r].op = "send"
    /\ IF Present(i)
       THEN /\ invoice' = [invoice EXCEPT ![i].status = "sent", ![i].sent = TRUE]
            /\ req' = [req EXCEPT ![r] = IF @.row = NoRow THEN Idle ELSE [@ EXCEPT !.op = "store"]]
            /\ UNCHANGED <<lesson, items, lastId, counter>>
       ELSE Fail(r)

-----------------------------------------------------------------------------
(* invoice_pdf_generate, invoice_pdf_download, generate_invoice_document    *)

PdfGenerateBegin(r, i) ==
    /\ ~ (IsLocked(invoice[i]) /\ invoice[i].pdf # None)
    /\ Start(r, "store", i, WithPdf(invoice[i]))

PdfDownloadBegin(r, i) ==
    /\ invoice[i].pdf = None
    /\ Start(r, "store", i, WithPdf(invoice[i]))

\* refused once an issued invoice has a document; which ones have is left open, so
\* the view may go ahead or not
DocumentBegin(r, i) == Start(r, "store", i, invoice[i])

\* FieldFile.save(save=True) writes the whole row
StoreFile(r) ==
    /\ req[r].op = "store"
    /\ invoice' = [invoice EXCEPT ![req[r].inv] = req[r].row]
    /\ Finish(r)
    /\ UNCHANGED <<lesson, items, lastId, counter>>

\* rendering or the storage fails; the views catch it
StoreFails(r) == req[r].op = "store" /\ Fail(r)

-----------------------------------------------------------------------------
(* invoice_mark_paid, invoice_set_paid_date, invoice_undo_paid              *)

MarkPaidBegin(r, i) ==
    /\ invoice[i].status \notin {"cancelled", "paid"}
    /\ Start(r, "pay", i, NoRow)

SetPaidDateBegin(r, i) == invoice[i].status = "paid" /\ Start(r, "pay", i, NoRow)

UndoPaidBegin(r, i) ==
    /\ invoice[i].status = "paid"
    /\ Start(r, "unpay", i, [NoRow EXCEPT !.sent = invoice[i].sent])

\* mutant: a cancelled invoice keeps its lessons unpaid
SettledOnlyIfPaid == {"paid"}
Settled == {"paid", "cancelled"}

\* recompute_lesson_paid_for_invoice_items, with the invoices as just saved
Recomputed(i, saved) ==
    LET mine == Linked(ItemsOf(i))
        unpaid == {l \in mine : \E it \in items :
                      /\ it.linked
                      /\ it.lesson = l
                      /\ saved[it.inv].status \notin Settled}
    IN [l \in Lessons |-> IF l \in unpaid THEN "taught"
                          ELSE IF l \in mine THEN "paid" ELSE lesson[l]]

SetPayStatus(r, status) ==
    LET i == req[r].inv
        saved == [invoice EXCEPT ![i].status = status]
    IN
    IF Present(i)
    THEN /\ invoice' = saved
         /\ lesson' = Recomputed(i, saved)
         /\ Finish(r)
         /\ UNCHANGED <<items, lastId, counter>>
    ELSE Fail(r)

MarkPaid(r) == req[r].op = "pay" /\ SetPayStatus(r, "paid")

UndoPaid(r) ==
    /\ req[r].op = "unpay"
    /\ SetPayStatus(r, IF req[r].row.sent THEN "sent" ELSE "draft")

-----------------------------------------------------------------------------
(* invoice_cancel and InvoiceService.cancel_invoice                         *)

\* mutant: a draft can be cancelled too
CancellableDraft(i) == invoice[i].status \in Live /\ invoice[i].cancels = 0 /\ StornoOf(i) = {}
Cancellable(i) ==
    /\ invoice[i].status \in {"sent", "paid"}
    /\ invoice[i].cancels = 0
    /\ StornoOf(i) = {}          \* OneToOneField: a second one is an IntegrityError

\* The transaction locks and re-reads the original.  The view then stores the
\* PDF of the cancellation invoice it holds.
Cancel(r, i) ==
    LET id == lastId + 1
        storno == [status |-> "cancelled", number |-> counter, payer |-> invoice[i].payer,
                   pdf |-> None, sent |-> TRUE, cancels |-> i]
    IN
    /\ req[r].op = "idle"
    /\ Cancellable(i)
    /\ Room
    /\ id <= MaxInvoices
    /\ lastId' = id
    /\ counter' = NextInvoiceNumber
    /\ invoice' = [invoice EXCEPT ![i].status = "cancelled", ![id] = storno]
    /\ items' = items \cup [inv : {id}, lesson : Lines(i), linked : {FALSE}]
    /\ lesson' = Reset(Linked(ItemsOf(i)), "paid", "taught")
    /\ req' = [req EXCEPT ![r] = [Idle EXCEPT !.op = "store", !.inv = id, !.row = WithPdf(storno)]]

-----------------------------------------------------------------------------
(* The lesson handlers: LessonUpdateView, LessonDeleteView and the status   *)
(* updater                                                                  *)

EditBegin(r, l) ==
    /\ req[r].op = "idle"
    /\ lesson[l] # "gone"
    /\ req' = [req EXCEPT ![r] = [Idle EXCEPT !.op = "edit", !.cand = {l}, !.mark = lesson[l]]]
    /\ UNCHANGED <<lesson, invoice, items, lastId, counter>>

\* form.save() writes the whole row, status included; a lesson that is over and
\* still planned becomes taught
EditSave(r, l, status) ==
    /\ req[r].op = "edit"
    /\ req[r].cand = {l}
    /\ status \in {req[r].mark} \cup (IF req[r].mark = "planned" THEN {"taught"} ELSE {})
    /\ lesson' = [lesson EXCEPT ![l] = status]
    /\ req' = [req EXCEPT ![r] = [@ EXCEPT !.op = "resave", !.mark = status]]
    /\ UNCHANGED <<invoice, items, lastId, counter>>

\* after the conflict checks UpdateView.form_valid saves the same instance again
EditResave(r, l) ==
    /\ req[r].op = "resave"
    /\ req[r].cand = {l}
    /\ lesson' = [lesson EXCEPT ![l] = req[r].mark]
    /\ Finish(r)
    /\ UNCHANGED <<invoice, items, lastId, counter>>

EditRefused(r) == req[r].op \in {"edit", "resave"} /\ Fail(r)

LessonDelete(r, l) ==
    /\ req[r].op = "idle"
    /\ lesson[l] # "gone"
    /\ lesson' = [lesson EXCEPT ![l] = "gone"]
    /\ items' = {[it EXCEPT !.linked = it.linked /\ it.lesson # l] : it \in items}
    /\ UNCHANGED <<invoice, lastId, counter, req>>

UpdatePastToTaught(l) ==
    /\ lesson[l] = "planned"
    /\ lesson' = [lesson EXCEPT ![l] = "taught"]
    /\ UNCHANGED <<invoice, items, lastId, counter, req>>

-----------------------------------------------------------------------------

Begin(r) ==
    \/ \E scope \in SUBSET Lessons : CreateBegin(r, scope)
    \/ \E i \in Ids : \/ PayerBegin(r, i)
                      \/ DeleteBegin(r, i)
                      \/ SendBegin(r, i)
                      \/ PdfGenerateBegin(r, i)
                      \/ PdfDownloadBegin(r, i)
                      \/ DocumentBegin(r, i)
                      \/ MarkPaidBegin(r, i)
                      \/ SetPaidDateBegin(r, i)
                      \/ UndoPaidBegin(r, i)
    \/ \E l \in Lessons : EditBegin(r, l)

Commit(r) ==
    \/ \E p \in Payers : CreateCommit(r, p) \/ PayerSave(r, p)
    \/ CreateRefused(r)
    \/ DeleteCommit(r)
    \/ SendSave(r)
    \/ StoreFile(r)
    \/ StoreFails(r)
    \/ MarkPaid(r)
    \/ UndoPaid(r)
    \/ \E i \in Ids : Cancel(r, i)
    \/ \E l \in Lessons, s \in LessonStatus : EditSave(r, l, s)
    \/ \E l \in Lessons : EditResave(r, l)
    \/ EditRefused(r)
    \/ \E l \in Lessons : LessonDelete(r, l)

Next ==
    \/ \E r \in Requests : Begin(r) \/ Commit(r)
    \/ \E l \in Lessons : UpdatePastToTaught(l)

Spec == Init /\ [][Next]_vars
-----------------------------------------------------------------------------
(* Properties                                                              *)

(* A lesson is billed by at most one invoice that is not cancelled          *)
(* (get_billable_lessons: "Eine Lesson kann nur in einer Rechnung           *)
(* vorkommen"), counted by what the invoices say, so also after the lesson  *)
(* row was deleted.                                                         *)
BilledOnce ==
    \A i, j \in Ids :
        i # j /\ {invoice[i].status, invoice[j].status} \subseteq Live
            => Lines(i) \cap Lines(j) = {}

(* Invoice numbers follow the order in which invoices were created, also    *)
(* across deletions, cancellations and rows that a late save re-inserts, so *)
(* no two invoices ever carry the same number (next_invoice_number).        *)
NumbersFollowCreation ==
    /\ \A i, j \in Ids : Present(i) /\ Present(j) /\ i < j
            => invoice[i].number < invoice[j].number
    /\ \A i \in Ids : Present(i) => invoice[i].number < counter

(* A cancellation invoice always has its original beside it, is the only    *)
(* one of that original, bills the same lessons without claiming them, and  *)
(* is itself never anything but cancelled (cancel_invoice), whatever else   *)
(* is being done to the two rows at the time.                               *)
StornoMirrors ==
    \A j \in Ids : Present(j) /\ invoice[j].cancels # 0 =>
        LET i == invoice[j].cancels IN
        /\ Present(i)
        /\ invoice[i].cancels = 0
        /\ invoice[j].status = "cancelled"
        /\ StornoOf(i) = {j}
        /\ Lines(j) = Lines(i)
        /\ Linked(ItemsOf(j)) = {}

(* An invoice is cancelled exactly if a cancellation invoice refers to it   *)
(* or it is one.                                                            *)
CancelledHasStorno ==
    \A i \in Ids : invoice[i].status = "cancelled" <=>
        Present(i) /\ (invoice[i].cancels # 0 \/ StornoOf(i) # {})

(* While an invoice is marked paid, every lesson it still points to is      *)
(* marked paid (recompute_lesson_paid_for_invoice_items): no other invoice, *)
(* cancellation or deletion takes that back.                                *)
PaidInvoicePaysLessons ==
    \A i \in Ids : invoice[i].status = "paid" =>
        \A l \in Linked(ItemsOf(i)) : lesson[l] = "paid"

(* A lesson marked paid stands on an invoice that is not cancelled; if not, *)
(* it can never be billed again, because only taught lessons are.           *)
PaidLessonIsBilled == \A l \in Lessons : lesson[l] = "paid" => InLive(l)

(* "Issued invoices can no longer be changed or deleted" (billing/views.py  *)
(* :42, Invoice.is_locked): an invoice that is sent, paid or cancelled      *)
(* keeps its row, number, recipient, lines and stored PDF.                  *)
IssuedFrozen ==
    [][\A i \in Ids : invoice[i].status \notin {"none", "draft"} =>
        /\ Present(i)'
        /\ invoice'[i].number = invoice[i].number
        /\ invoice'[i].payer = invoice[i].payer
        /\ invoice[i].pdf # None => invoice'[i].pdf = invoice[i].pdf
        /\ Lines(i)' = Lines(i)]_vars

(* What the ledger tells apart of an invoice.                               *)
Stage(row) == CASE row.status = "none" -> "absent"
                [] row.status = "draft" -> "draft"
                [] row.status \in {"sent", "paid"} -> "issued"
                [] row.status = "cancelled" -> "void"

Ledger == INSTANCE InvoiceLedger WITH
            state <- [i \in Ids |-> Stage(invoice[i])],
            lines <- [i \in Ids |-> Lines(i)],
            cancels <- [i \in Ids |-> invoice[i].cancels],
            last <- lastId

(* Requests served one after the other implement the ledger of              *)
(* feat-rechnungen.md:16-31: lessons are billed once, a draft can be        *)
(* discarded, an issued invoice can only be voided by a counter-invoice,    *)
(* and a voided one never comes back.                                       *)
LedgerSpec == Ledger!Spec
=============================================================================
