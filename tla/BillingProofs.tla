---------------------------- MODULE BillingProofs ----------------------------
(***************************************************************************)
(* What holds of Billing for every set of lessons, payers and requests and *)
(* every bound on the number of invoices.                                  *)
(***************************************************************************)
EXTENDS Billing, TLAPS

-----------------------------------------------------------------------------
(* Types                                                                   *)

(* The rows a request builds are rows.                                     *)
LEMMA RowTypes ==
    /\ NoRow \in Row
    /\ Idle \in Request
    /\ \A row \in Row : WithPdf(row) \in Row
  <1>1. NoRow \in Row
    BY DEF NoRow, Row
  <1>2. Idle \in Request
    BY <1>1 DEF Idle, Request, Ops, LessonStatus
  <1>3. \A row \in Row : WithPdf(row) \in Row
    BY DEF WithPdf, Row
  <1> QED
    BY <1>1, <1>2, <1>3

(* Setting some lessons to a status keeps the table well typed.            *)
LEMMA ResetType ==
    ASSUME NEW S, NEW from, NEW to \in LessonStatus,
           lesson \in [Lessons -> LessonStatus]
    PROVE  Reset(S, from, to) \in [Lessons -> LessonStatus]
  BY DEF Reset

(* A new invoice gets a primary key in range.                              *)
LEMMA NextId ==
    ASSUME lastId \in 0..MaxInvoices, lastId + 1 <= MaxInvoices
    PROVE  lastId + 1 \in Ids /\ lastId + 1 \in 0..MaxInvoices /\ lastId \in Nat
  BY BillingAssumption DEF Ids

(* A request that starts keeps a row and a key of the invoice table.       *)
LEMMA StartType ==
    ASSUME TypeOK, NEW r \in Requests, NEW op \in Ops, NEW i \in Ids, NEW row \in Row,
           Start(r, op, i, row)
    PROVE  TypeOK'
  <1> DEFINE started == [Idle EXCEPT !.op = op, !.inv = i, !.row = row]
  <1>1. started \in Request
    BY RowTypes DEF Idle, Request
  <1>2. req' \in [Requests -> Request]
    BY <1>1 DEF Start, TypeOK
  <1> QED
    BY <1>2 DEF Start, TypeOK

(* A request that ends keeps nothing.                                      *)
LEMMA FinishType ==
    ASSUME TypeOK, NEW r \in Requests, Finish(r)
    PROVE  req' \in [Requests -> Request]
  BY RowTypes DEF Finish, TypeOK

(* An exception leaves the tables alone and forgets the request.            *)
LEMMA FailType ==
    ASSUME TypeOK, NEW r \in Requests, Fail(r)
    PROVE  TypeOK'
  BY FinishType DEF Fail, TypeOK

(* Begin steps only read.                                                  *)
LEMMA BeginType ==
    ASSUME TypeOK, NEW r \in Requests, Begin(r)
    PROVE  TypeOK'
  <1>1. ASSUME NEW scope \in SUBSET Lessons, CreateBegin(r, scope)
        PROVE  TypeOK'
    <2> DEFINE cand == {l \in scope : Billable(l)}
               begun == [Idle EXCEPT !.op = "create", !.cand = cand]
    <2>1. cand \subseteq Lessons
      OBVIOUS
    <2>2. begun \in Request
      BY <2>1, RowTypes DEF Idle, Request, Ops
    <2>3. req' = [req EXCEPT ![r] = begun]
      BY <1>1 DEF CreateBegin
    <2>4. req' \in [Requests -> Request]
      BY <2>2, <2>3 DEF TypeOK
    <2> QED
      BY <1>1, <2>4 DEF CreateBegin, TypeOK
  <1>2. ASSUME NEW l \in Lessons, EditBegin(r, l)
        PROVE  TypeOK'
    <2> DEFINE begun == [Idle EXCEPT !.op = "edit", !.cand = {l}, !.mark = lesson[l]]
    <2>1. lesson[l] \in LessonStatus
      BY DEF TypeOK
    <2>2. begun \in Request
      BY <2>1, RowTypes DEF Idle, Request, Ops
    <2>3. req' = [req EXCEPT ![r] = begun]
      BY <1>2 DEF EditBegin
    <2>4. req' \in [Requests -> Request]
      BY <2>2, <2>3 DEF TypeOK
    <2> QED
      BY <1>2, <2>4 DEF EditBegin, TypeOK
  <1>3. ASSUME NEW i \in Ids,
               \/ PayerBegin(r, i) \/ DeleteBegin(r, i)
               \/ MarkPaidBegin(r, i) \/ SetPaidDateBegin(r, i)
        PROVE  TypeOK'
    BY <1>3, StartType, RowTypes
       DEF PayerBegin, DeleteBegin, MarkPaidBegin, SetPaidDateBegin, Ops
  <1>4. ASSUME NEW i \in Ids, SendBegin(r, i)
        PROVE  TypeOK'
    <2> DEFINE sent == [invoice[i] EXCEPT !.status = "sent", !.sent = TRUE]
    <2>1. sent \in Row
      BY DEF TypeOK, Row, Live
    <2>2. (IF sent.pdf = None THEN WithPdf(sent) ELSE NoRow) \in Row
      BY <2>1, RowTypes
    <2> QED
      BY <1>4, <2>2, StartType DEF SendBegin, Ops
  <1>5. ASSUME NEW i \in Ids,
               PdfGenerateBegin(r, i) \/ PdfDownloadBegin(r, i) \/ DocumentBegin(r, i)
        PROVE  TypeOK'
    <2>1. invoice[i] \in Row /\ WithPdf(invoice[i]) \in Row
      BY RowTypes DEF TypeOK
    <2> QED
      BY <1>5, <2>1, StartType DEF PdfGenerateBegin, PdfDownloadBegin, DocumentBegin, Ops
  <1>6. ASSUME NEW i \in Ids, UndoPaidBegin(r, i)
        PROVE  TypeOK'
    <2>1. [NoRow EXCEPT !.sent = invoice[i].sent] \in Row
      BY RowTypes DEF TypeOK, Row
    <2> QED
      BY <1>6, <2>1, StartType DEF UndoPaidBegin, Ops
  <1> QED
    BY <1>1, <1>2, <1>3, <1>4, <1>5, <1>6 DEF Begin

(* Commit steps write rows that are well typed.                            *)
LEMMA CreateCommitType ==
    ASSUME TypeOK, NEW r \in Requests, NEW p \in Payers, CreateCommit(r, p)
    PROVE  TypeOK'
  <1> DEFINE batch == LockTaught(req[r].cand)
             id == lastId + 1
             row == [NoRow EXCEPT !.status = "draft", !.number = counter, !.payer = p]
  <1>1. req[r].cand \subseteq Lessons /\ counter \in Nat
    BY DEF TypeOK, Request
  <1>2. batch \subseteq Lessons
    BY <1>1 DEF LockTaught
  <1>3. id \in Ids /\ id \in 0..MaxInvoices
    BY NextId DEF CreateCommit, TypeOK
  <1>4. row \in Row
    BY <1>1, RowTypes DEF Row, Live
  <1>5. invoice' \in [Ids -> Row]
    BY <1>3, <1>4 DEF CreateCommit, TypeOK
  <1>6. [inv : {id}, lesson : batch, linked : {TRUE}] \subseteq Item
    BY <1>2, <1>3 DEF Item
  <1>7. items' \subseteq Item
    BY <1>6 DEF CreateCommit, TypeOK
  <1>8. lesson' \in [Lessons -> LessonStatus]
    BY ResetType DEF CreateCommit, TypeOK, LessonStatus
  <1>9. lastId' \in 0..MaxInvoices /\ counter' \in Nat \ {0}
    BY <1>3 DEF CreateCommit, NextInvoiceNumber, TypeOK
  <1>10. req' \in [Requests -> Request]
    BY FinishType DEF CreateCommit
  <1> QED
    BY <1>5, <1>7, <1>8, <1>9, <1>10 DEF TypeOK

(* Cancelling writes the original, the counter-invoice and its lines.       *)
LEMMA CancelType ==
    ASSUME TypeOK, NEW r \in Requests, NEW i \in Ids, Cancel(r, i)
    PROVE  TypeOK'
  <1> DEFINE id == lastId + 1
             storno == [status |-> "cancelled", number |-> counter, payer |-> invoice[i].payer,
                        pdf |-> None, sent |-> TRUE, cancels |-> i]
             started == [Idle EXCEPT !.op = "store", !.inv = id, !.row = WithPdf(storno)]
  <1>1. id \in Ids /\ id \in 0..MaxInvoices
    BY NextId DEF Cancel, TypeOK
  <1>2. storno \in Row
    BY DEF TypeOK, Row
  <1>3. [invoice EXCEPT ![i].status = "cancelled"] \in [Ids -> Row]
    BY DEF TypeOK, Row
  <1>4. invoice' = [[invoice EXCEPT ![i].status = "cancelled"] EXCEPT ![id] = storno]
    BY DEF Cancel
  <1>5. invoice' \in [Ids -> Row]
    BY <1>1, <1>2, <1>3, <1>4
  <1>6. Lines(i) \subseteq Lessons
    BY DEF Lines, ItemsOf, TypeOK, Item
  <1>7. [inv : {id}, lesson : Lines(i), linked : {FALSE}] \subseteq Item
    BY <1>1, <1>6 DEF Item
  <1>8. items' \subseteq Item
    BY <1>7 DEF Cancel, TypeOK
  <1>9. lesson' \in [Lessons -> LessonStatus]
    BY ResetType DEF Cancel, TypeOK, LessonStatus
  <1>10. lastId' \in 0..MaxInvoices /\ counter' \in Nat \ {0}
    BY <1>1 DEF Cancel, NextInvoiceNumber, TypeOK
  <1>11. WithPdf(storno) \in Row
    BY <1>2, RowTypes
  <1>12. started \in Request
    BY <1>1, <1>11, RowTypes DEF Idle, Request, Ops
  <1>13. req' = [req EXCEPT ![r] = started]
    BY DEF Cancel
  <1>14. req' \in [Requests -> Request]
    BY <1>12, <1>13 DEF TypeOK
  <1> QED
    BY <1>5, <1>8, <1>9, <1>10, <1>14 DEF TypeOK

(* Sending writes the status and keeps the row for the PDF.                 *)
LEMMA SendSaveType ==
    ASSUME TypeOK, NEW r \in Requests, SendSave(r)
    PROVE  TypeOK'
  <1> DEFINE i == req[r].inv
             next == [req[r] EXCEPT !.op = "store"]
  <1>1. CASE Present(i)
    <2>1. invoice' \in [Ids -> Row]
      BY <1>1 DEF SendSave, TypeOK, Row, Live
    <2>2. next \in Request
      BY DEF TypeOK, Request, Ops
    <2>3. req' = [req EXCEPT ![r] = IF req[r].row = NoRow THEN Idle ELSE next]
      BY <1>1 DEF SendSave
    <2>4. req' \in [Requests -> Request]
      BY <2>2, <2>3, RowTypes DEF TypeOK
    <2> QED
      BY <1>1, <2>1, <2>4 DEF SendSave, TypeOK
  <1>2. CASE ~Present(i)
    BY <1>2, FailType DEF SendSave
  <1> QED
    BY <1>1, <1>2

(* Paying, or taking it back, writes the status and the lessons.            *)
LEMMA SetPayStatusType ==
    ASSUME TypeOK, NEW r \in Requests, NEW status \in Live, SetPayStatus(r, status)
    PROVE  TypeOK'
  <1> DEFINE i == req[r].inv
             saved == [invoice EXCEPT ![i].status = status]
  <1>1. CASE Present(i)
    <2> HIDE DEF i
    <2>1. saved \in [Ids -> Row]
      BY ZenonT(60) DEF TypeOK, Row, Live
    <2> USE DEF i
    <2>2. Recomputed(i, saved) \in [Lessons -> LessonStatus]
      BY DEF Recomputed, TypeOK, LessonStatus
    <2> QED
      BY <1>1, <2>1, <2>2, FinishType DEF SetPayStatus, TypeOK
  <1>2. CASE ~Present(i)
    BY <1>2, FailType DEF SetPayStatus
  <1> QED
    BY <1>1, <1>2

(* Deleting empties the row and drops its items.                            *)
LEMMA DeleteCommitType ==
    ASSUME TypeOK, NEW r \in Requests, DeleteCommit(r)
    PROVE  TypeOK'
  <1> DEFINE i == req[r].inv
  <1>1. CASE CanDelete(i)
    <2>1. lesson' \in [Lessons -> LessonStatus]
      BY <1>1, ResetType DEF DeleteCommit, TypeOK, LessonStatus
    <2>2. invoice' \in [Ids -> Row]
      BY <1>1, RowTypes DEF DeleteCommit, TypeOK
    <2> QED
      BY <1>1, <2>1, <2>2, FinishType DEF DeleteCommit, TypeOK
  <1>2. CASE ~CanDelete(i)
    BY <1>2, FailType DEF DeleteCommit
  <1> QED
    BY <1>1, <1>2

(* Every step that ends a request keeps the tables well typed.              *)
LEMMA CommitType ==
    ASSUME TypeOK, NEW r \in Requests, Commit(r)
    PROVE  TypeOK'
  <1>1. ASSUME NEW p \in Payers, PayerSave(r, p)
        PROVE  TypeOK'
    <2>1. CASE Present(req[r].inv)
      <3>1. invoice' \in [Ids -> Row]
        BY <1>1, <2>1 DEF PayerSave, TypeOK, Row
      <3> QED
        BY <1>1, <2>1, <3>1, FinishType DEF PayerSave, TypeOK
    <2>2. CASE ~Present(req[r].inv)
      BY <1>1, <2>2, FailType DEF PayerSave
    <2> QED
      BY <2>1, <2>2
  <1>2. CASE CreateRefused(r) \/ StoreFails(r) \/ EditRefused(r)
    BY <1>2, FailType DEF CreateRefused, StoreFails, EditRefused
  <1>3. CASE StoreFile(r)
    <2>1. req[r].row \in Row
      BY DEF TypeOK, Request
    <2>2. invoice' \in [Ids -> Row]
      BY <1>3, <2>1 DEF StoreFile, TypeOK
    <2> QED
      BY <1>3, <2>2, FinishType DEF StoreFile, TypeOK
  <1>4. CASE MarkPaid(r) \/ UndoPaid(r)
    BY <1>4, SetPayStatusType DEF MarkPaid, UndoPaid, Live
  <1>5. ASSUME NEW l \in Lessons, NEW status \in LessonStatus, EditSave(r, l, status)
        PROVE  TypeOK'
    <2>1. [req[r] EXCEPT !.op = "resave", !.mark = status] \in Request
      BY <1>5 DEF TypeOK, Request, Ops
    <2>2. req' \in [Requests -> Request]
      BY <1>5, <2>1 DEF EditSave, TypeOK
    <2> QED
      BY <1>5, <2>2 DEF EditSave, TypeOK
  <1>6. ASSUME NEW l \in Lessons, LessonDelete(r, l)
        PROVE  TypeOK'
    <2>1. items' \subseteq Item
      BY <1>6, ZenonT(60) DEF LessonDelete, TypeOK, Item
    <2> QED
      BY <1>6, <2>1 DEF LessonDelete, TypeOK, LessonStatus
  <1>7. ASSUME NEW l \in Lessons, EditResave(r, l)
        PROVE  TypeOK'
    <2>1. req[r].mark \in LessonStatus
      BY DEF TypeOK, Request
    <2> QED
      BY <1>7, <2>1, FinishType DEF EditResave, TypeOK
  <1> QED
    BY <1>1, <1>2, <1>3, <1>4, <1>5, <1>6, <1>7, CreateCommitType, DeleteCommitType,
       SendSaveType, CancelType
       DEF Commit

(* The empty tables are well typed.                                         *)
LEMMA InitType ==
    ASSUME Init
    PROVE  TypeOK
  BY RowTypes, BillingAssumption DEF Init, TypeOK, LessonStatus, FirstNumber

(* So does every step: the begin steps, the commits and the updater.        *)
LEMMA NextType ==
    ASSUME TypeOK, [Next]_vars
    PROVE  TypeOK'
  <1>1. ASSUME NEW l \in Lessons, UpdatePastToTaught(l)
        PROVE  TypeOK'
    BY <1>1 DEF UpdatePastToTaught, TypeOK, LessonStatus
  <1>2. CASE UNCHANGED vars
    BY <1>2 DEF vars, TypeOK
  <1> QED
    BY <1>1, <1>2, BeginType, CommitType DEF Next

(* Every row, item, lesson and request keeps to its table's columns.       *)
THEOREM TypeCorrect == Spec => []TypeOK
  BY InitType, NextType, PTL DEF Spec

-----------------------------------------------------------------------------
(* Numbers.  A stale row in the hands of a request is as good as a row of  *)
(* the table: storing a file writes it back, even after the row was        *)
(* deleted.  So the order of the numbers is kept over both.                *)

InHand(r, i, n) ==
    /\ req[r].inv = i
    /\ req[r].row.status # "none"
    /\ req[r].row.number = n

Copy(i, n) ==
    \/ Present(i) /\ invoice[i].number = n
    \/ \E r \in Requests : InHand(r, i, n)

CopiesNumbered ==
    \A i \in Ids, m \in Nat : Copy(i, m) => m < counter /\ i <= lastId

CopiesOrdered ==
    \A i, j \in Ids, m, n \in Nat :
        Copy(i, m) /\ Copy(j, n) => (i = j => m = n) /\ (i < j => m < n)

NumbersInv == TypeOK /\ CopiesNumbered /\ CopiesOrdered

\* what a step can do to the copies: nothing new, or a first copy with the next number
NoNewCopy ==
    /\ lastId' = lastId /\ counter' = counter
    /\ \A i \in Ids, n \in Nat : Copy(i, n)' => Copy(i, n)
NewCopy ==
    /\ lastId' = lastId + 1 /\ counter' = counter + 1
    /\ \A i \in Ids, n \in Nat : Copy(i, n)' => Copy(i, n) \/ (i = lastId + 1 /\ n = counter)

(* Numbering: either step keeps the order.                                 *)
LEMMA CopiesStep ==
    ASSUME NumbersInv, TypeOK', NoNewCopy \/ NewCopy
    PROVE  NumbersInv'
  <1>0. counter \in Nat /\ lastId \in Nat /\ \A i \in Ids : i \in Nat
    BY BillingAssumption DEF NumbersInv, TypeOK, Ids
  <1> USE <1>0
  <1>1. CASE NoNewCopy
    <2>1. CopiesNumbered'
      BY <1>1 DEF NoNewCopy, NumbersInv, CopiesNumbered, Ids
    <2>2. CopiesOrdered'
      BY <1>1 DEF NoNewCopy, NumbersInv, CopiesOrdered, Ids
    <2> QED
      BY <2>1, <2>2 DEF NumbersInv
  <1>2. CASE NewCopy
    <2>1. CopiesNumbered'
      BY <1>2 DEF NewCopy, NumbersInv, CopiesNumbered, Ids
    <2>2. CopiesOrdered'
      <3> SUFFICES ASSUME NEW i \in Ids, NEW j \in Ids, NEW m \in Nat, NEW n \in Nat,
                          Copy(i, m)', Copy(j, n)'
                   PROVE  (i = j => m = n) /\ (i < j => m < n)
        BY DEF CopiesOrdered, Ids
      <3>1. Copy(i, m) \/ (i = lastId + 1 /\ m = counter)
        BY <1>2 DEF NewCopy
      <3>2. Copy(j, n) \/ (j = lastId + 1 /\ n = counter)
        BY <1>2 DEF NewCopy
      <3>3. /\ Copy(i, m) => m < counter /\ i <= lastId
            /\ Copy(j, n) => n < counter /\ j <= lastId
        BY DEF NumbersInv, CopiesNumbered
      <3>4. Copy(i, m) /\ Copy(j, n) => (i = j => m = n) /\ (i < j => m < n)
        BY DEF NumbersInv, CopiesOrdered
      <3> QED
        BY <3>1, <3>2, <3>3, <3>4
    <2> QED
      BY <2>1, <2>2 DEF NumbersInv
  <1> QED
    BY <1>1, <1>2

(* A request that starts copies the row it read, or none.                  *)
LEMMA StartCopies ==
    ASSUME TypeOK, NEW r \in Requests, NEW op, NEW i \in Ids, NEW row \in Row,
           Start(r, op, i, row),
           row.status # "none" => row.number = invoice[i].number
    PROVE  NoNewCopy
  <1> DEFINE started == [Idle EXCEPT !.op = op, !.inv = i, !.row = row]
  <1>1. started.inv = i /\ started.row = row
    BY DEF Idle
  <1>2. req' = [req EXCEPT ![r] = started]
    BY DEF Start
  <1>3. ASSUME NEW k \in Ids, NEW n \in Nat, Copy(k, n)'
        PROVE  Copy(k, n)
    <2>1. CASE (Present(k) /\ invoice[k].number = n)'
      BY <2>1 DEF Start, Present, Copy
    <2>2. ASSUME NEW q \in Requests, InHand(q, k, n)'
          PROVE  Copy(k, n)
      <3>1. CASE q = r
        <4>1. k = i /\ row.status # "none" /\ row.number = n
          BY <1>1, <1>2, <2>2, <3>1 DEF InHand, TypeOK
        <4> QED
          BY <4>1 DEF Start, Copy
      <3>2. CASE q # r
        BY <1>2, <2>2, <3>2 DEF InHand, TypeOK, Copy
      <3> QED
        BY <3>1, <3>2
    <2> QED
      BY <1>3, <2>1, <2>2 DEF Copy
  <1> QED
    BY <1>3 DEF NoNewCopy, Start

(* A request that forgets what it holds, or keeps it, adds no copy if the  *)
(* table has no row that was not already there.                            *)
LEMMA TableCopies ==
    ASSUME TypeOK, NEW r \in Requests,
           lastId' = lastId, counter' = counter,
           req' = [req EXCEPT ![r] = Idle],
           \A i \in Ids, n \in Nat :
              (Present(i) /\ invoice[i].number = n)' => Copy(i, n)
    PROVE  NoNewCopy
  <1>1. Idle.row.status = "none"
    BY DEF Idle, NoRow
  <1>2. ASSUME NEW i \in Ids, NEW n \in Nat, Copy(i, n)'
        PROVE  Copy(i, n)
    <2>1. ASSUME NEW q \in Requests, InHand(q, i, n)'
          PROVE  Copy(i, n)
      <3>1. q # r
        BY <1>1, <2>1 DEF InHand, TypeOK
      <3> QED
        BY <2>1, <3>1 DEF InHand, TypeOK, Copy
    <2> QED
      BY <1>2, <2>1 DEF Copy
  <1> QED
    BY <1>2 DEF NoNewCopy

(* A request that gives up adds no copy.                                    *)
LEMMA FailCopies ==
    ASSUME TypeOK, NEW r \in Requests, Fail(r)
    PROVE  NoNewCopy
  BY TableCopies DEF Fail, Finish, Present, Copy

(* A request that starts holds a copy of the row it read, or none.          *)
LEMMA BeginCopies ==
    ASSUME TypeOK, NEW r \in Requests, Begin(r)
    PROVE  NoNewCopy
  <1>1. NoRow \in Row /\ NoRow.status = "none"
    BY RowTypes DEF NoRow
  <1>2. ASSUME NEW request \in Request, request.row = NoRow,
               req' = [req EXCEPT ![r] = request],
               UNCHANGED <<lesson, invoice, items, lastId, counter>>
        PROVE  NoNewCopy
    <2>1. ASSUME NEW i \in Ids, NEW n \in Nat, Copy(i, n)'
          PROVE  Copy(i, n)
      <3>1. ASSUME NEW q \in Requests, InHand(q, i, n)'
            PROVE  Copy(i, n)
        <4>1. q # r
          BY <1>1, <1>2, <3>1 DEF InHand, TypeOK
        <4> QED
          BY <1>2, <3>1, <4>1 DEF InHand, TypeOK, Copy
      <3> QED
        BY <1>2, <2>1, <3>1 DEF Copy, Present
    <2> QED
      BY <1>2, <2>1 DEF NoNewCopy
  <1>3. ASSUME NEW scope \in SUBSET Lessons, CreateBegin(r, scope)
        PROVE  NoNewCopy
    <2> DEFINE cand == {l \in scope : Billable(l)}
               begun == [Idle EXCEPT !.op = "create", !.cand = cand]
    <2>1. begun \in Request /\ begun.row = NoRow
      BY RowTypes DEF Idle, Request, Ops
    <2> QED
      BY <1>2, <1>3, <2>1 DEF CreateBegin
  <1>4. ASSUME NEW l \in Lessons, EditBegin(r, l)
        PROVE  NoNewCopy
    <2> DEFINE begun == [Idle EXCEPT !.op = "edit", !.cand = {l}, !.mark = lesson[l]]
    <2>1. begun \in Request /\ begun.row = NoRow
      BY RowTypes DEF Idle, Request, Ops, TypeOK
    <2> QED
      BY <1>2, <1>4, <2>1 DEF EditBegin
  <1>5. ASSUME NEW i \in Ids,
               \/ PayerBegin(r, i) \/ DeleteBegin(r, i)
               \/ MarkPaidBegin(r, i) \/ SetPaidDateBegin(r, i)
        PROVE  NoNewCopy
    BY <1>1, <1>5, StartCopies
       DEF PayerBegin, DeleteBegin, MarkPaidBegin, SetPaidDateBegin
  <1>6. ASSUME NEW i \in Ids, SendBegin(r, i)
        PROVE  NoNewCopy
    <2> DEFINE sent == [invoice[i] EXCEPT !.status = "sent", !.sent = TRUE]
               kept == IF sent.pdf = None THEN WithPdf(sent) ELSE NoRow
    <2>1. sent \in Row /\ sent.number = invoice[i].number
      BY DEF TypeOK, Row, Live
    <2>2. WithPdf(sent) \in Row /\ WithPdf(sent).number = sent.number
      BY <2>1, RowTypes DEF WithPdf, Row
    <2>3. kept \in Row /\ (kept.status # "none" => kept.number = invoice[i].number)
      BY <1>1, <2>1, <2>2
    <2> QED
      BY <1>6, <2>3, StartCopies DEF SendBegin
  <1>7. ASSUME NEW i \in Ids,
               PdfGenerateBegin(r, i) \/ PdfDownloadBegin(r, i) \/ DocumentBegin(r, i)
        PROVE  NoNewCopy
    <2>1. invoice[i] \in Row
      BY DEF TypeOK
    <2>2. WithPdf(invoice[i]) \in Row /\ WithPdf(invoice[i]).number = invoice[i].number
      BY <2>1, RowTypes DEF WithPdf, Row
    <2> QED
      BY <1>7, <2>1, <2>2, StartCopies DEF PdfGenerateBegin, PdfDownloadBegin, DocumentBegin
  <1>8. ASSUME NEW i \in Ids, UndoPaidBegin(r, i)
        PROVE  NoNewCopy
    <2> DEFINE kept == [NoRow EXCEPT !.sent = invoice[i].sent]
    <2>1. kept \in Row /\ kept.status = "none"
      BY <1>1 DEF TypeOK, Row
    <2> QED
      BY <1>8, <2>1, StartCopies DEF UndoPaidBegin
  <1> QED
    BY <1>3, <1>4, <1>5, <1>6, <1>7, <1>8 DEF Begin

(* The two steps that insert a row give it the next number.                *)
LEMMA CreateCommitCopies ==
    ASSUME TypeOK, NEW r \in Requests, NEW p \in Payers, CreateCommit(r, p)
    PROVE  NewCopy
  <1> DEFINE id == lastId + 1
             row == [NoRow EXCEPT !.status = "draft", !.number = counter, !.payer = p]
  <1>1. row.number = counter
    BY DEF NoRow
  <1>2. invoice' = [invoice EXCEPT ![id] = row]
    BY DEF CreateCommit
  <1>3. Idle.row.status = "none"
    BY DEF Idle, NoRow
  <1>4. ASSUME NEW i \in Ids, NEW n \in Nat, Copy(i, n)'
        PROVE  Copy(i, n) \/ (i = id /\ n = counter)
    <2>1. CASE (Present(i) /\ invoice[i].number = n)'
      BY <1>1, <1>2, <2>1 DEF Present, Copy, TypeOK
    <2>2. ASSUME NEW q \in Requests, InHand(q, i, n)'
          PROVE  Copy(i, n)
      <3>1. q # r
        BY <1>3, <2>2 DEF InHand, TypeOK, CreateCommit, Finish
      <3> QED
        BY <2>2, <3>1 DEF InHand, TypeOK, Copy, CreateCommit, Finish
    <2> QED
      BY <1>4, <2>1, <2>2 DEF Copy
  <1> QED
    BY <1>4 DEF NewCopy, CreateCommit, NextInvoiceNumber

(* Cancelling adds one row, with the next number, and copies of it.         *)
LEMMA CancelCopies ==
    ASSUME TypeOK, NEW r \in Requests, NEW i \in Ids, Cancel(r, i)
    PROVE  NewCopy
  <1> DEFINE id == lastId + 1
             storno == [status |-> "cancelled", number |-> counter, payer |-> invoice[i].payer,
                        pdf |-> None, sent |-> TRUE, cancels |-> i]
             started == [Idle EXCEPT !.op = "store", !.inv = id, !.row = WithPdf(storno)]
  <1>1. started.inv = id /\ started.row.number = counter
    BY DEF WithPdf, Idle
  <1>2. invoice' = [[invoice EXCEPT ![i].status = "cancelled"] EXCEPT ![id] = storno]
    BY DEF Cancel
  <1>3. req' = [req EXCEPT ![r] = started]
    BY DEF Cancel
  <1>4. Present(i)
    BY DEF Cancel, Cancellable, Present
  <1>5. ASSUME NEW k \in Ids, NEW n \in Nat, Copy(k, n)'
        PROVE  Copy(k, n) \/ (k = id /\ n = counter)
    <2>1. CASE (Present(k) /\ invoice[k].number = n)'
      <3>1. CASE k = id
        BY <1>2, <2>1, <3>1 DEF TypeOK
      <3>2. CASE k # id
        BY <1>2, <1>4, <2>1, <3>2 DEF Present, Copy, TypeOK, Row
      <3> QED
        BY <3>1, <3>2
    <2>2. ASSUME NEW q \in Requests, InHand(q, k, n)'
          PROVE  Copy(k, n) \/ (k = id /\ n = counter)
      <3>1. CASE q = r
        BY <1>1, <1>3, <2>2, <3>1 DEF InHand, TypeOK
      <3>2. CASE q # r
        BY <1>3, <2>2, <3>2 DEF InHand, TypeOK, Copy
      <3> QED
        BY <3>1, <3>2
    <2> QED
      BY <1>5, <2>1, <2>2 DEF Copy
  <1> QED
    BY <1>5 DEF NewCopy, Cancel, NextInvoiceNumber

(* Sending touches neither numbers nor keys of any copy.                    *)
LEMMA SendSaveCopies ==
    ASSUME TypeOK, NEW r \in Requests, SendSave(r)
    PROVE  NoNewCopy
  <1> DEFINE i == req[r].inv
             next == [req[r] EXCEPT !.op = "store"]
  <1>1. CASE Present(i)
    <2>1. next.inv = i /\ next.row = req[r].row
      BY DEF TypeOK, Request
    <2>2. req' = [req EXCEPT ![r] = IF req[r].row = NoRow THEN Idle ELSE next]
      BY <1>1 DEF SendSave
    <2>3. Idle.row.status = "none"
      BY DEF Idle, NoRow
    <2>4. ASSUME NEW k \in Ids, NEW n \in Nat, Copy(k, n)'
          PROVE  Copy(k, n)
      <3>1. CASE (Present(k) /\ invoice[k].number = n)'
        BY <1>1, <3>1 DEF SendSave, Present, Copy, TypeOK, Row
      <3>2. ASSUME NEW q \in Requests, InHand(q, k, n)'
            PROVE  InHand(q, k, n)
        BY <2>1, <2>2, <2>3, <3>2 DEF InHand, TypeOK
      <3> QED
        BY <2>4, <3>1, <3>2 DEF Copy
    <2> QED
      BY <1>1, <2>4 DEF SendSave, NoNewCopy
  <1>2. CASE ~Present(i)
    BY <1>2, FailCopies DEF SendSave
  <1> QED
    BY <1>1, <1>2

(* Neither does paying or taking a payment back.                            *)
LEMMA SetPayStatusCopies ==
    ASSUME TypeOK, NEW r \in Requests, NEW status, SetPayStatus(r, status)
    PROVE  NoNewCopy
  <1> DEFINE i == req[r].inv
  <1>1. CASE Present(i)
    <2>1. ASSUME NEW k \in Ids, NEW n \in Nat, (Present(k) /\ invoice[k].number = n)'
          PROVE  Copy(k, n)
      BY <1>1, <2>1 DEF SetPayStatus, Present, Copy, TypeOK, Row
    <2> QED
      BY <1>1, <2>1, TableCopies DEF SetPayStatus, Finish
  <1>2. CASE ~Present(i)
    BY <1>2, FailCopies DEF SetPayStatus
  <1> QED
    BY <1>1, <1>2

(* Every step that ends a request keeps the copies in order.                *)
LEMMA CommitCopies ==
    ASSUME TypeOK, NEW r \in Requests, Commit(r)
    PROVE  NoNewCopy \/ NewCopy
  <1>1. ASSUME NEW p \in Payers, PayerSave(r, p)
        PROVE  NoNewCopy
    <2>1. CASE Present(req[r].inv)
      <3>1. ASSUME NEW k \in Ids, NEW n \in Nat, (Present(k) /\ invoice[k].number = n)'
            PROVE  Copy(k, n)
        BY <1>1, <2>1, <3>1 DEF PayerSave, Present, Copy, TypeOK, Row
      <3> QED
        BY <1>1, <2>1, <3>1, TableCopies DEF PayerSave, Finish
    <2>2. CASE ~Present(req[r].inv)
      BY <1>1, <2>2, FailCopies DEF PayerSave
    <2> QED
      BY <2>1, <2>2
  <1>2. CASE CreateRefused(r) \/ StoreFails(r) \/ EditRefused(r)
    BY <1>2, FailCopies DEF CreateRefused, StoreFails, EditRefused
  <1>3. CASE DeleteCommit(r)
    <2>1. CASE CanDelete(req[r].inv)
      <3>1. ASSUME NEW k \in Ids, NEW n \in Nat, (Present(k) /\ invoice[k].number = n)'
            PROVE  Copy(k, n)
        BY <1>3, <2>1, <3>1 DEF DeleteCommit, Present, Copy, TypeOK, NoRow
      <3> QED
        BY <1>3, <2>1, <3>1, TableCopies DEF DeleteCommit, Finish
    <2>2. CASE ~CanDelete(req[r].inv)
      BY <1>3, <2>2, FailCopies DEF DeleteCommit
    <2> QED
      BY <2>1, <2>2
  <1>4. CASE StoreFile(r)
    <2>1. ASSUME NEW k \in Ids, NEW n \in Nat, (Present(k) /\ invoice[k].number = n)'
          PROVE  Copy(k, n)
      BY <1>4, <2>1 DEF StoreFile, Present, InHand, Copy, TypeOK
    <2> QED
      BY <1>4, <2>1, TableCopies DEF StoreFile, Finish
  <1>5. CASE MarkPaid(r) \/ UndoPaid(r)
    BY <1>5, SetPayStatusCopies DEF MarkPaid, UndoPaid
  <1>6. ASSUME NEW l \in Lessons, NEW status \in LessonStatus, EditSave(r, l, status)
        PROVE  NoNewCopy
    <2>1. \A q \in Requests : req'[q].row = req[q].row /\ req'[q].inv = req[q].inv
      BY <1>6 DEF EditSave, TypeOK, Request
    <2> QED
      BY <1>6, <2>1 DEF EditSave, NoNewCopy, Copy, Present, InHand
  <1>7. ASSUME NEW l \in Lessons, LessonDelete(r, l)
        PROVE  NoNewCopy
    BY <1>7 DEF LessonDelete, NoNewCopy, Copy, Present, InHand
  <1>8. ASSUME NEW l \in Lessons, EditResave(r, l)
        PROVE  NoNewCopy
    BY <1>8, TableCopies DEF EditResave, Finish, Present, Copy
  <1> QED
    BY <1>1, <1>2, <1>3, <1>4, <1>5, <1>6, <1>7, <1>8, CreateCommitCopies, SendSaveCopies,
       CancelCopies
       DEF Commit

(* There are no copies at the start.                                        *)
LEMMA NumbersInit ==
    ASSUME Init
    PROVE  NumbersInv
  <1>1. \A i \in Ids, n \in Nat : ~Copy(i, n)
    BY DEF Init, Copy, Present, InHand, NoRow, Idle
  <1> QED
    BY <1>1, InitType DEF NumbersInv, CopiesNumbered, CopiesOrdered

(* No step disturbs the numbering of the copies.                            *)
LEMMA NumbersNext ==
    ASSUME NumbersInv, [Next]_vars
    PROVE  NumbersInv'
  <1>1. TypeOK /\ TypeOK'
    BY NextType DEF NumbersInv
  <1>2. ASSUME NEW l \in Lessons, UpdatePastToTaught(l)
        PROVE  NoNewCopy
    BY <1>2 DEF UpdatePastToTaught, NoNewCopy, Copy, Present, InHand
  <1>3. ASSUME UNCHANGED vars
        PROVE  NoNewCopy
    BY <1>3 DEF vars, NoNewCopy, Copy, Present, InHand
  <1>4. NoNewCopy \/ NewCopy
    BY <1>1, <1>2, <1>3, BeginCopies, CommitCopies DEF Next
  <1> QED
    BY <1>1, <1>4, CopiesStep

(* However requests overlap, and whatever rows they bring back, invoice    *)
(* numbers follow the order of creation and no number is used twice.       *)
THEOREM NumbersCorrect == Spec => []NumbersFollowCreation
  <1>1. NumbersInv => NumbersFollowCreation
    <2> SUFFICES ASSUME NumbersInv
                 PROVE  NumbersFollowCreation
      OBVIOUS
    <2>1. \A i \in Ids : Present(i) => Copy(i, invoice[i].number)
      BY DEF Copy
    <2>2. \A i \in Ids : invoice[i].number \in Nat
      BY DEF NumbersInv, TypeOK, Row
    <2> QED
      BY <2>1, <2>2 DEF NumbersInv, CopiesNumbered, CopiesOrdered, NumbersFollowCreation
  <1> QED
    BY <1>1, NumbersInit, NumbersNext, PTL DEF Spec

-----------------------------------------------------------------------------
(* Cancellation invoices.  Requests overlap in any way here: what protects *)
(* the pair of original and cancellation is that no request under way may  *)
(* hold the cancellation's row in another state, and that the foreign key  *)
(* keeps the original.                                                     *)

\* keys are given out in order, and a row that is gone left nothing behind
RowsKnown ==
    /\ \A i \in Ids : Present(i) => i <= lastId
    /\ \A i \in Ids : ~Present(i) => invoice[i] = NoRow
    /\ \A it \in items : it.inv <= lastId

\* requests that go on to change the row they have read
Changes == {"payer", "delete", "send", "pay", "unpay"}

\* a request's copy refers to the original the table's row refers to, and
\* nobody is about to change a cancellation invoice
HandKeepsStorno(q) ==
    /\ req[q].inv <= lastId
    /\ req[q].op \in Changes \cup {"store"} => req[q].inv # 0
    /\ req[q].op = "store" \/ (req[q].op = "send" /\ req[q].row # NoRow) =>
          req[q].row.status # "none"
    /\ req[q].inv # 0 =>
          /\ req[q].row.status # "none" => req[q].row.cancels = invoice[req[q].inv].cancels
          /\ invoice[req[q].inv].cancels # 0 =>
                req[q].op \notin Changes /\ req[q].row.status \in {"cancelled", "none"}

\* j is the cancellation invoice of i
Mirrored(i, j) ==
    /\ Present(i)
    /\ invoice[i].cancels = 0
    /\ invoice[j].status = "cancelled"
    /\ StornoOf(i) = {j}
    /\ Lines(j) = Lines(i)
    /\ Linked(ItemsOf(j)) = {}

PairsMirrored ==
    \A i, j \in Ids : Present(j) /\ invoice[j].cancels = i => Mirrored(i, j)

StornoInv ==
    /\ TypeOK
    /\ RowsKnown
    /\ \A q \in Requests : HandKeepsStorno(q)
    /\ PairsMirrored

\* a step that leaves every pair of original and cancellation as it is
PairsKept ==
    /\ lastId' >= lastId
    /\ \A i \in Ids : invoice'[i].cancels = invoice[i].cancels
    /\ \A i \in Ids : invoice[i].cancels # 0 => invoice'[i].status = invoice[i].status
    /\ \A i \in Ids : StornoOf(i) # {} => Present(i)'
    /\ \A i \in Ids : invoice[i].cancels # 0 \/ StornoOf(i) # {} =>
          Lines(i)' = Lines(i) /\ Linked(ItemsOf(i))' \subseteq Linked(ItemsOf(i))

(* Such a step keeps the cancellations of every invoice.                   *)
LEMMA KeptStornos ==
    ASSUME TypeOK, TypeOK', RowsKnown, RowsKnown', PairsKept, NEW i \in Ids
    PROVE  StornoOf(i)' = StornoOf(i)
  <1>1. ASSUME NEW j \in Ids, Present(j), invoice[j].cancels = i
        PROVE  Present(j)' /\ invoice'[j].cancels = i
    BY <1>1 DEF PairsKept, Present, Ids
  <1>2. ASSUME NEW j \in Ids, Present(j)', invoice'[j].cancels = i
        PROVE  Present(j) /\ invoice[j].cancels = i
    <2>1. invoice[j].cancels = i /\ i # 0
      BY <1>2 DEF PairsKept, Ids
    <2> QED
      BY <2>1 DEF RowsKnown, NoRow
  <1> QED
    BY <1>1, <1>2 DEF StornoOf

(* Such a step keeps original and cancellation together.                   *)
LEMMA KeptMirrors ==
    ASSUME StornoInv, TypeOK', RowsKnown', PairsKept
    PROVE  PairsMirrored'
  <1> SUFFICES ASSUME NEW i \in Ids, NEW j \in Ids, Present(j)', invoice'[j].cancels = i
               PROVE  Mirrored(i, j)'
    BY DEF PairsMirrored
  <1>1. invoice[j].cancels = i /\ i # 0
    BY DEF PairsKept, Ids
  <1>2. Present(j)
    BY <1>1 DEF StornoInv, RowsKnown, NoRow
  <1>3. Mirrored(i, j)
    BY <1>1, <1>2 DEF StornoInv, PairsMirrored
  <1>4. StornoOf(i)' = {j}
    BY <1>3, KeptStornos DEF StornoInv, Mirrored
  <1>5. Present(i)' /\ invoice'[i].cancels = 0 /\ invoice'[j].status = "cancelled"
    BY <1>1, <1>3 DEF PairsKept, Mirrored
  <1>6. Lines(j)' = Lines(j) /\ Lines(i)' = Lines(i) /\ Linked(ItemsOf(j))' = {}
    BY <1>1, <1>3 DEF PairsKept, Mirrored
  <1> QED
    BY <1>3, <1>4, <1>5, <1>6 DEF Mirrored

(* What a request holds stays as good as it was.                           *)
LEMMA KeptHand ==
    ASSUME TypeOK, TypeOK', PairsKept, NEW q \in Requests, HandKeepsStorno(q), req'[q] = req[q]
    PROVE  HandKeepsStorno(q)'
  <1>1. req[q].inv # 0 => req[q].inv \in Ids /\ invoice'[req[q].inv].cancels = invoice[req[q].inv].cancels
    BY DEF TypeOK, Request, PairsKept
  <1>2. req[q].inv \in Nat /\ lastId \in Nat /\ lastId' \in Nat
    BY BillingAssumption DEF TypeOK, Request, Ids
  <1> QED
    BY <1>1, <1>2 DEF HandKeepsStorno, PairsKept

(* An idle request holds nothing.                                          *)
LEMMA IdleHand ==
    ASSUME TypeOK', NEW q \in Requests, req'[q] = Idle
    PROVE  HandKeepsStorno(q)'
  BY BillingAssumption DEF HandKeepsStorno, Idle, TypeOK, Changes

(* A step that leaves the pairs alone, and after which every request       *)
(* either holds what it held, holds nothing, or holds something as good.   *)
LEMMA StornoStep ==
    ASSUME StornoInv, TypeOK', RowsKnown', PairsKept,
           \A q \in Requests : req'[q] = req[q] \/ req'[q] = Idle \/ HandKeepsStorno(q)'
    PROVE  StornoInv'
  BY KeptMirrors, KeptHand, IdleHand DEF StornoInv

(* An invoice with a cancellation is there, and is no cancellation itself. *)
LEMMA OriginalIsThere ==
    ASSUME StornoInv, NEW i \in Ids, StornoOf(i) # {}
    PROVE  Present(i) /\ invoice[i].cancels = 0
  <1>1. PICK j \in Ids : Present(j) /\ invoice[j].cancels = i
    BY DEF StornoOf
  <1> QED
    BY <1>1 DEF StornoInv, PairsMirrored, Mirrored

(* A cancellation is there and is nothing but cancelled.                   *)
LEMMA StornoIsCancelled ==
    ASSUME StornoInv, NEW i \in Ids, invoice[i].cancels # 0
    PROVE  Present(i) /\ invoice[i].status = "cancelled" /\ StornoOf(i) = {}
  <1>1. Present(i)
    BY DEF StornoInv, RowsKnown, NoRow
  <1>2. invoice[i].cancels \in Ids
    BY DEF StornoInv, TypeOK, Row
  <1>3. Mirrored(invoice[i].cancels, i)
    BY <1>1, <1>2 DEF StornoInv, PairsMirrored
  <1> QED
    BY <1>1, <1>3, OriginalIsThere DEF Mirrored

(* A step that does not touch the invoices and their lines.                *)
LEMMA SameTables ==
    ASSUME StornoInv, UNCHANGED <<invoice, items, lastId>>
    PROVE  RowsKnown' /\ PairsKept
  <1>1. lastId' >= lastId
    BY BillingAssumption DEF StornoInv, TypeOK
  <1>2. RowsKnown'
    BY DEF StornoInv, RowsKnown, Present
  <1>3. \A i \in Ids : StornoOf(i) # {} => Present(i)'
    BY OriginalIsThere DEF Present
  <1> QED
    BY <1>1, <1>2, <1>3 DEF PairsKept, Lines, ItemsOf, Linked

(* A request that gives up.                                                *)
LEMMA FailStorno ==
    ASSUME StornoInv, TypeOK', NEW r \in Requests, Fail(r)
    PROVE  StornoInv'
  <1>1. \A q \in Requests : req'[q] = req[q] \/ req'[q] = Idle
    BY DEF Fail, Finish, StornoInv, TypeOK
  <1> QED
    BY <1>1, SameTables, StornoStep DEF Fail

(* A request that starts holds the row it has read, or none.               *)
LEMMA StartStorno ==
    ASSUME StornoInv, TypeOK', NEW r \in Requests, NEW op \in Ops, NEW i \in Ids, NEW row \in Row,
           Start(r, op, i, row),
           op = "store" \/ (op = "send" /\ row # NoRow) => row.status # "none",
           row.status # "none" => row.cancels = invoice[i].cancels,
           invoice[i].cancels # 0 => op \notin Changes /\ row.status \in {"cancelled", "none"}
    PROVE  StornoInv'
  <1> DEFINE started == [Idle EXCEPT !.op = op, !.inv = i, !.row = row]
  <1>1. started.op = op /\ started.inv = i /\ started.row = row
    BY DEF Idle
  <1>2. req' = [req EXCEPT ![r] = started]
    BY DEF Start
  <1> HIDE DEF started
  <1>3. req'[r] = started /\ \A q \in Requests : q # r => req'[q] = req[q]
    BY <1>2 DEF StornoInv, TypeOK
  <1>4. i <= lastId /\ i # 0
    BY DEF Start, StornoInv, RowsKnown, Ids
  <1>5. HandKeepsStorno(r)'
    BY <1>1, <1>3, <1>4 DEF HandKeepsStorno, Start
  <1> QED
    BY <1>3, <1>5, SameTables, StornoStep DEF Start

(* No request starts to change a cancellation.                             *)
LEMMA BeginStorno ==
    ASSUME StornoInv, TypeOK', NEW r \in Requests, Begin(r)
    PROVE  StornoInv'
  <1> USE RowTypes
  <1>1. NoRow.status = "none" /\ TypeOK /\ "store" \notin Changes
    BY DEF NoRow, StornoInv, Changes
  <1>2. \A i \in Ids : invoice[i] \in Row /\ (invoice[i].cancels # 0 => invoice[i].status = "cancelled")
    BY <1>1, StornoIsCancelled DEF TypeOK
  <1>3. ASSUME NEW request \in Request, request.inv = 0, request.op \notin Changes \cup {"store"},
               req' = [req EXCEPT ![r] = request],
               UNCHANGED <<invoice, items, lastId>>
        PROVE  StornoInv'
    <2>1. \A q \in Requests : q # r => req'[q] = req[q]
      BY <1>1, <1>3 DEF TypeOK
    <2>2. HandKeepsStorno(r)'
      BY <1>1, <1>3, BillingAssumption DEF HandKeepsStorno, TypeOK, Changes
    <2> QED
      BY <1>3, <2>1, <2>2, SameTables, StornoStep
  <1>4. ASSUME NEW scope \in SUBSET Lessons, CreateBegin(r, scope)
        PROVE  StornoInv'
    <2> DEFINE cand == {l \in scope : Billable(l)}
               begun == [Idle EXCEPT !.op = "create", !.cand = cand]
    <2>1. begun \in Request /\ begun.inv = 0 /\ begun.op \notin Changes \cup {"store"}
      BY DEF Idle, Request, Ops, Changes
    <2> QED
      BY <1>3, <1>4, <2>1 DEF CreateBegin
  <1>5. ASSUME NEW l \in Lessons, EditBegin(r, l)
        PROVE  StornoInv'
    <2> DEFINE begun == [Idle EXCEPT !.op = "edit", !.cand = {l}, !.mark = lesson[l]]
    <2>1. begun \in Request /\ begun.inv = 0 /\ begun.op \notin Changes \cup {"store"}
      BY <1>1 DEF Idle, Request, Ops, TypeOK, Changes
    <2> QED
      BY <1>3, <1>5, <2>1 DEF EditBegin
  <1>6. ASSUME NEW i \in Ids,
               \/ PayerBegin(r, i) \/ DeleteBegin(r, i)
               \/ MarkPaidBegin(r, i) \/ SetPaidDateBegin(r, i)
        PROVE  StornoInv'
    BY <1>1, <1>2, <1>6, StartStorno
       DEF PayerBegin, DeleteBegin, MarkPaidBegin, SetPaidDateBegin, IsLocked, Ops
  <1>7. ASSUME NEW i \in Ids, SendBegin(r, i)
        PROVE  StornoInv'
    <2> DEFINE sent == [invoice[i] EXCEPT !.status = "sent", !.sent = TRUE]
               kept == IF sent.pdf = None THEN WithPdf(sent) ELSE NoRow
    <2>1. sent \in Row /\ sent.cancels = invoice[i].cancels
      BY <1>2 DEF Row, Live
    <2>2. /\ WithPdf(sent) \in Row /\ WithPdf(sent).cancels = sent.cancels
          /\ WithPdf(sent).status = "sent"
      BY <1>2, <2>1 DEF WithPdf, Row
    <2>3. /\ kept \in Row /\ (kept.status # "none" => kept.cancels = invoice[i].cancels)
          /\ kept # NoRow => kept.status # "none"
      BY <1>1, <2>1, <2>2
    <2>4. invoice[i].cancels = 0
      BY <1>2, <1>7 DEF SendBegin
    <2> HIDE DEF kept
    <2>5. Start(r, "send", i, kept)
      BY <1>7 DEF SendBegin, kept
    <2> QED
      BY <2>3, <2>4, <2>5, StartStorno DEF Ops
  <1>8. ASSUME NEW i \in Ids,
               PdfGenerateBegin(r, i) \/ PdfDownloadBegin(r, i) \/ DocumentBegin(r, i)
        PROVE  StornoInv'
    <2> DEFINE printed == WithPdf(invoice[i])
    <2>1. /\ printed \in Row /\ printed.cancels = invoice[i].cancels
          /\ printed.status = invoice[i].status
      BY <1>2 DEF WithPdf, Row
    <2> HIDE DEF printed
    <2>2. Start(r, "store", i, invoice[i]) \/ Start(r, "store", i, printed)
      BY <1>8 DEF PdfGenerateBegin, PdfDownloadBegin, DocumentBegin, printed
    <2>3. invoice[i].status # "none"
      BY <2>2 DEF Start, Present
    <2> QED
      BY <1>1, <1>2, <2>1, <2>2, <2>3, StartStorno DEF Ops
  <1>9. ASSUME NEW i \in Ids, UndoPaidBegin(r, i)
        PROVE  StornoInv'
    <2> DEFINE kept == [NoRow EXCEPT !.sent = invoice[i].sent]
    <2>1. kept \in Row /\ kept.status = "none"
      BY <1>1, <1>2 DEF Row
    <2> QED
      BY <1>2, <1>9, <2>1, StartStorno DEF UndoPaidBegin, Ops
  <1> QED
    BY <1>4, <1>5, <1>6, <1>7, <1>8, <1>9 DEF Begin

(* A row is written over with one of the same pair.                        *)
LEMMA WriteStorno ==
    ASSUME StornoInv, NEW i \in Ids, NEW row \in Row,
           i <= lastId, row.status # "none", row.cancels = invoice[i].cancels,
           invoice[i].cancels # 0 => row.status = "cancelled",
           invoice' = [invoice EXCEPT ![i] = row],
           UNCHANGED <<items, lastId>>
    PROVE  RowsKnown' /\ PairsKept
  <1>1. lastId' >= lastId
    BY BillingAssumption DEF StornoInv, TypeOK
  <1>2. \A k \in Ids : invoice'[k] = IF k = i THEN row ELSE invoice[k]
    BY DEF StornoInv, TypeOK
  <1>3. RowsKnown'
    BY <1>2 DEF StornoInv, RowsKnown, Present
  <1>4. \A k \in Ids : StornoOf(k) # {} => Present(k)'
    BY <1>2, OriginalIsThere DEF Present
  <1>5. \A k \in Ids : invoice[k].cancels # 0 => invoice'[k].status = invoice[k].status
    BY <1>2, StornoIsCancelled
  <1> QED
    BY <1>1, <1>2, <1>3, <1>4, <1>5 DEF PairsKept, Lines, ItemsOf, Linked

(* Deleting a draft no cancellation refers to.                             *)
LEMMA DeleteStorno ==
    ASSUME StornoInv, TypeOK', NEW r \in Requests, DeleteCommit(r)
    PROVE  StornoInv'
  <1> DEFINE i == req[r].inv
  <1>1. /\ HandKeepsStorno(r)
        /\ TypeOK
        /\ req[r].op = "delete"
    BY DEF StornoInv, DeleteCommit
  <1>2. i \in Ids /\ invoice[i].cancels = 0
    BY <1>1 DEF HandKeepsStorno, Changes, TypeOK, Request
  <1>3. CASE CanDelete(i)
    <2>1. /\ invoice' = [invoice EXCEPT ![i] = NoRow]
          /\ items' = items \ ItemsOf(i)
          /\ req' = [req EXCEPT ![r] = Idle]
          /\ lastId' = lastId
      BY <1>3 DEF DeleteCommit, Finish
    <2>2. StornoOf(i) = {}
      BY <1>3 DEF CanDelete
    <2> HIDE DEF i
    <2>3. \A k \in Ids : invoice'[k] = IF k = i THEN NoRow ELSE invoice[k]
      BY <1>1, <1>2, <2>1 DEF TypeOK
    <2>4. \A k \in Ids : k # i => ItemsOf(k)' = ItemsOf(k)
      BY <2>1 DEF ItemsOf
    <2>5. RowsKnown'
      BY <2>1, <2>3 DEF StornoInv, RowsKnown, Present, NoRow
    <2>6. \A k \in Ids : StornoOf(k) # {} => Present(k)'
      BY <2>2, <2>3, OriginalIsThere DEF Present
    <2>7. lastId' >= lastId
      BY <1>1, <2>1, BillingAssumption DEF TypeOK
    <2>8. \A k \in Ids : invoice'[k].cancels = invoice[k].cancels
      BY <1>2, <2>3 DEF NoRow
    <2>9. \A k \in Ids : invoice[k].cancels # 0 => invoice'[k].status = invoice[k].status
      BY <1>2, <2>3
    <2>10. \A k \in Ids : invoice[k].cancels # 0 \/ StornoOf(k) # {} => ItemsOf(k)' = ItemsOf(k)
      BY <1>2, <2>2, <2>4
    <2>11. PairsKept
      BY <2>6, <2>7, <2>8, <2>9, <2>10 DEF PairsKept, Lines, Linked
    <2>12. \A q \in Requests : req'[q] = req[q] \/ req'[q] = Idle
      BY <1>1, <2>1 DEF TypeOK
    <2> QED
      BY <2>5, <2>11, <2>12, StornoStep
  <1>4. CASE ~CanDelete(i)
    BY <1>4, FailStorno DEF DeleteCommit
  <1> QED
    BY <1>3, <1>4

(* A new draft is neither original nor cancellation.                       *)
LEMMA CreateStorno ==
    ASSUME StornoInv, TypeOK', NEW r \in Requests, NEW p \in Payers, CreateCommit(r, p)
    PROVE  StornoInv'
  <1>0. PICK id \in Ids : id = lastId + 1
    BY NextId DEF CreateCommit, StornoInv, TypeOK
  <1> DEFINE batch == LockTaught(req[r].cand)
             added == [inv : {id}, lesson : batch, linked : {TRUE}]
             row == [NoRow EXCEPT !.status = "draft", !.number = counter, !.payer = p]
  <1>1. /\ invoice' = [invoice EXCEPT ![id] = row]
        /\ items' = items \cup added
        /\ req' = [req EXCEPT ![r] = Idle]
        /\ lastId' = id
    BY <1>0 DEF CreateCommit, Finish
  <1>2. id \in Ids /\ id = lastId + 1 /\ lastId \in Nat
    BY <1>0, NextId DEF CreateCommit, StornoInv, TypeOK
  <1>13. \A it \in added : it.inv = id
    OBVIOUS
  <1>3. row.status # "none" /\ row.cancels = 0
    BY DEF NoRow
  <1> HIDE DEF row, added
  <1>4. \A k \in Ids : invoice'[k] = IF k = id THEN row ELSE invoice[k]
    BY <1>1, <1>2 DEF StornoInv, TypeOK
  <1>5. ~Present(id) /\ invoice[id].cancels = 0
    BY <1>2 DEF StornoInv, RowsKnown, NoRow
  <1>6. StornoOf(id) = {}
    BY <1>2, <1>5, OriginalIsThere
  <1>7. \A k \in Ids : k # id => ItemsOf(k)' = ItemsOf(k)
    BY <1>1, <1>13 DEF ItemsOf
  <1>8. RowsKnown'
    <2>1. \A k \in Ids : Present(k)' => k <= lastId'
      BY <1>1, <1>2, <1>4 DEF StornoInv, RowsKnown, Present, Ids
    <2>2. \A k \in Ids : ~Present(k)' => invoice'[k] = NoRow
      BY <1>3, <1>4 DEF StornoInv, RowsKnown, Present
    <2>3. \A it \in items : it.inv \in Ids /\ it.inv <= lastId
      BY DEF StornoInv, RowsKnown, TypeOK, Item
    <2>4. \A it \in items' : it.inv <= lastId'
      BY <1>1, <1>2, <1>13, <2>3 DEF Ids
    <2> QED
      BY <2>1, <2>2, <2>4 DEF RowsKnown
  <1>9. \A k \in Ids : StornoOf(k) # {} => Present(k)'
    BY <1>3, <1>4, OriginalIsThere DEF Present
  <1>10. \A k \in Ids : invoice[k].cancels # 0 \/ StornoOf(k) # {} => ItemsOf(k)' = ItemsOf(k)
    BY <1>5, <1>6, <1>7
  <1>11. PairsKept
    <2>1. \A k \in Ids : invoice'[k].cancels = invoice[k].cancels
      BY <1>3, <1>4, <1>5
    <2>2. \A k \in Ids : invoice[k].cancels # 0 => invoice'[k].status = invoice[k].status
      BY <1>4, <1>5
    <2>3. lastId' >= lastId
      BY <1>1, <1>2
    <2> QED
      BY <1>9, <1>10, <2>1, <2>2, <2>3 DEF PairsKept, Lines, Linked
  <1>12. \A q \in Requests : req'[q] = req[q] \/ req'[q] = Idle
    BY <1>1 DEF StornoInv, TypeOK
  <1> QED
    BY <1>8, <1>11, <1>12, StornoStep

(* Cancelling makes a pair of its own and leaves every other alone.        *)
LEMMA CancelStorno ==
    ASSUME StornoInv, TypeOK', NEW r \in Requests, NEW i \in Ids, Cancel(r, i)
    PROVE  StornoInv'
  <1>0. PICK id \in Ids : id = lastId + 1
    BY NextId DEF Cancel, StornoInv, TypeOK
  <1> DEFINE storno == [status |-> "cancelled", number |-> counter, payer |-> invoice[i].payer,
                        pdf |-> None, sent |-> TRUE, cancels |-> i]
             original == [invoice[i] EXCEPT !.status = "cancelled"]
             started == [Idle EXCEPT !.op = "store", !.inv = id, !.row = WithPdf(storno)]
             added == [inv : {id}, lesson : Lines(i), linked : {FALSE}]
  <1>1. /\ invoice' = [[invoice EXCEPT ![i].status = "cancelled"] EXCEPT ![id] = storno]
        /\ items' = items \cup added
        /\ req' = [req EXCEPT ![r] = started]
        /\ lastId' = id
    BY <1>0 DEF Cancel
  <1>2. id \in Ids /\ id = lastId + 1 /\ lastId \in Nat /\ TypeOK /\ id # 0
    BY <1>0, NextId DEF Cancel, StornoInv, TypeOK, Ids
  <1>3. Present(i) /\ invoice[i].cancels = 0 /\ StornoOf(i) = {}
    BY DEF Cancel, Cancellable, Present
  <1>4. storno.status = "cancelled" /\ storno.cancels = i
    OBVIOUS
  <1>5. original.status = "cancelled" /\ original.cancels = invoice[i].cancels
    BY <1>2 DEF TypeOK, Row
  <1>6. /\ started.op = "store" /\ started.inv = id
        /\ started.row.status = "cancelled" /\ started.row.cancels = i
    BY DEF Idle, WithPdf
  <1>19. /\ \A it \in added : it.inv = id /\ it.lesson \in Lines(i) /\ ~it.linked
         /\ \A l \in Lines(i) : \E it \in added : it.lesson = l
    <2>1. \A l \in Lines(i) : [inv |-> id, lesson |-> l, linked |-> FALSE] \in added
      OBVIOUS
    <2> QED
      BY <2>1
  <1> HIDE DEF started, added
  <1>7. ~Present(id) /\ invoice[id].cancels = 0 /\ id # i
    BY <1>2, <1>3 DEF StornoInv, RowsKnown, NoRow
  <1>8. StornoOf(id) = {}
    BY <1>2, <1>7, OriginalIsThere
  <1>9. \A k \in Ids : invoice'[k] = IF k = id THEN storno ELSE IF k = i THEN original ELSE invoice[k]
    BY <1>1, <1>2 DEF TypeOK
  <1> HIDE DEF storno, original
  <1>10. \A k \in Ids : k # id => ItemsOf(k)' = ItemsOf(k)
    BY <1>1, <1>19 DEF ItemsOf
  <1>11. \A it \in items : it.inv # id /\ it.inv \in Ids /\ it.inv <= lastId
    BY <1>2 DEF StornoInv, RowsKnown, TypeOK, Item, Ids
  <1>12. Lines(id)' = Lines(i) /\ Linked(ItemsOf(id))' = {}
    <2>1. ItemsOf(id)' = added
      BY <1>1, <1>11, <1>19 DEF ItemsOf
    <2> QED
      BY <1>19, <2>1 DEF Lines, Linked
  <1>13. \A k \in Ids : k # id => Lines(k)' = Lines(k) /\ Linked(ItemsOf(k))' = Linked(ItemsOf(k))
    BY <1>10 DEF Lines, Linked
  <1>14. RowsKnown'
    <2>1. \A k \in Ids : Present(k)' => k <= lastId'
      BY <1>1, <1>2, <1>3, <1>9 DEF StornoInv, RowsKnown, Present, Ids
    <2>2. \A k \in Ids : ~Present(k)' => invoice'[k] = NoRow
      BY <1>4, <1>5, <1>9 DEF StornoInv, RowsKnown, Present
    <2>3. \A it \in items' : it.inv <= lastId'
      BY <1>1, <1>2, <1>11, <1>19 DEF Ids
    <2> QED
      BY <2>1, <2>2, <2>3 DEF RowsKnown
  <1>15. \A k \in Ids : StornoOf(k)' = IF k = i THEN {id} ELSE StornoOf(k)
    <2>1. \A k, j \in Ids : (Present(j) /\ invoice[j].cancels = k)'
                           <=> (j = id /\ k = i) \/ (Present(j) /\ invoice[j].cancels = k)
      <3> SUFFICES ASSUME NEW k \in Ids, NEW j \in Ids
                   PROVE  (Present(j) /\ invoice[j].cancels = k)'
                          <=> (j = id /\ k = i) \/ (Present(j) /\ invoice[j].cancels = k)
        OBVIOUS
      <3>1. CASE j = id
        BY <1>4, <1>7, <1>9, <3>1 DEF Present
      <3>2. CASE j = i /\ j # id
        BY <1>3, <1>5, <1>9, <3>2 DEF Present
      <3>3. CASE j # i /\ j # id
        BY <1>9, <3>3 DEF Present
      <3> QED
        BY <3>1, <3>2, <3>3
    <2>2. ASSUME NEW k \in Ids, k # i
          PROVE  StornoOf(k)' = StornoOf(k)
      BY <2>1, <2>2 DEF StornoOf
    <2>3. \A j \in Ids : (Present(j) /\ invoice[j].cancels = i)' <=> j = id
      BY <1>3, <2>1 DEF StornoOf
    <2>4. StornoOf(i)' = {id}
      BY <1>2, <2>3 DEF StornoOf
    <2> QED
      BY <2>2, <2>4
  <1>18. Mirrored(i, id)'
    <2>1. invoice'[i] = original /\ invoice'[id] = storno
      BY <1>2, <1>7, <1>9
    <2>2. Present(i)' /\ invoice'[i].cancels = 0 /\ invoice'[id].status = "cancelled"
      BY <1>3, <1>4, <1>5, <2>1 DEF Present
    <2>3. Lines(i)' = Lines(i) /\ StornoOf(i)' = {id}
      BY <1>7, <1>13, <1>15
    <2> QED
      BY <1>12, <2>2, <2>3 DEF Mirrored
  <1>16. PairsMirrored'
    <2> SUFFICES ASSUME NEW k \in Ids, NEW j \in Ids, Present(j)', invoice'[j].cancels = k
                 PROVE  Mirrored(k, j)'
      BY DEF PairsMirrored
    <2>1. CASE j = id
      <3>1. k = i
        BY <1>4, <1>9, <2>1
      <3> QED
        BY <1>18, <2>1, <3>1
    <2>2. CASE j # id
      <3>1. Present(j) /\ invoice[j].cancels = k
        BY <1>3, <1>5, <1>9, <2>2 DEF Present
      <3>2. Mirrored(k, j)
        BY <3>1 DEF StornoInv, PairsMirrored
      <3>3. k # i /\ k # id /\ j # i
        BY <1>3, <1>7, <3>1, <3>2 DEF Mirrored, Ids
      <3> QED
        BY <1>9, <1>13, <1>15, <2>2, <3>2, <3>3 DEF Mirrored, Present
    <2> QED
      BY <2>1, <2>2
  <1>17. ASSUME NEW q \in Requests
         PROVE  HandKeepsStorno(q)'
    <2>1. CASE q = r
      <3>1. req'[q] = started
        BY <1>1, <1>2, <2>1 DEF TypeOK
      <3>2. invoice'[id].cancels = i
        BY <1>2, <1>4, <1>9
      <3>3. /\ req'[q].op = "store" /\ req'[q].inv = id
            /\ req'[q].row.status = "cancelled" /\ req'[q].row.cancels = i
        BY <1>6, <3>1
      <3>4. id <= lastId'
        BY <1>1, <1>2 DEF Ids
      <3> QED
        BY <1>2, <3>2, <3>3, <3>4 DEF HandKeepsStorno, Changes
    <2>2. CASE q # r
      <3>1. req'[q] = req[q]
        BY <1>1, <1>2, <2>2 DEF TypeOK
      <3>2. req[q].inv # id /\ req[q].inv <= id /\ (req[q].inv # 0 => req[q].inv \in Ids)
        BY <1>2 DEF StornoInv, HandKeepsStorno, TypeOK, Request, Ids
      <3>3. req[q].inv # 0 => invoice'[req[q].inv].cancels = invoice[req[q].inv].cancels
        BY <1>3, <1>5, <1>9, <3>2
      <3> QED
        BY <1>1, <3>1, <3>2, <3>3 DEF StornoInv, HandKeepsStorno
    <2> QED
      BY <2>1, <2>2
  <1> QED
    BY <1>14, <1>16, <1>17 DEF StornoInv

(* Sending, which goes on to hold a row that is sent or nothing.            *)
LEMMA SendStorno ==
    ASSUME StornoInv, TypeOK', NEW r \in Requests, SendSave(r)
    PROVE  StornoInv'
  <1> DEFINE i == req[r].inv
             row == [invoice[i] EXCEPT !.status = "sent", !.sent = TRUE]
             next == [req[r] EXCEPT !.op = "store"]
  <1>1. HandKeepsStorno(r) /\ TypeOK /\ req[r].op = "send"
    BY DEF StornoInv, SendSave
  <1>2. i \in Ids /\ i <= lastId /\ invoice[i].cancels = 0 /\ invoice[i] \in Row
    BY <1>1 DEF HandKeepsStorno, Changes, TypeOK, Request
  <1>3. CASE Present(i)
    <2>1. row \in Row /\ row.cancels = invoice[i].cancels /\ row.status # "none"
      BY <1>2 DEF Row, Live
    <2>2. /\ invoice' = [invoice EXCEPT ![i].status = "sent", ![i].sent = TRUE]
          /\ UNCHANGED <<items, lastId>>
          /\ req' = [req EXCEPT ![r] = IF req[r].row = NoRow THEN Idle ELSE next]
      BY <1>3 DEF SendSave
    <2>3. invoice' = [invoice EXCEPT ![i] = row]
      BY <1>1, <1>2, <2>2 DEF TypeOK, Row
    <2>4. RowsKnown' /\ PairsKept
      BY <1>2, <2>1, <2>2, <2>3, WriteStorno
    <2>5. \A q \in Requests : q # r => req'[q] = req[q]
      BY <1>1, <2>2 DEF TypeOK
    <2>6. next.op = "store" /\ next.inv = i /\ next.row = req[r].row
      BY <1>1 DEF TypeOK, Request
    <2>7. req[r].row # NoRow => req[r].row.status # "none"
      BY <1>1 DEF HandKeepsStorno
    <2>8. req'[r] = Idle \/ HandKeepsStorno(r)'
      <3>1. CASE req[r].row = NoRow
        BY <1>1, <2>2, <3>1 DEF TypeOK
      <3>2. CASE req[r].row # NoRow
        <4>1. req'[r].op = "store" /\ req'[r].inv = i /\ req'[r].row = req[r].row
          BY <1>1, <2>2, <2>6, <3>2 DEF TypeOK
        <4>2. invoice'[i].cancels = invoice[i].cancels /\ lastId' = lastId /\ i # 0
          <5>1. i \in Ids /\ lastId' = lastId
            BY <1>2, <2>2
          <5> HIDE DEF i
          <5> QED
            BY <2>4, <5>1 DEF PairsKept, Ids
        <4> QED
          BY <1>1, <1>2, <2>7, <3>2, <4>1, <4>2 DEF HandKeepsStorno, Changes
      <3> QED
        BY <3>1, <3>2
    <2> QED
      BY <2>4, <2>5, <2>8, StornoStep
  <1>4. CASE ~Present(i)
    BY <1>4, FailStorno DEF SendSave
  <1> QED
    BY <1>3, <1>4

(* Deleting a lesson unlinks its lines and leaves them on the invoices.     *)
LEMMA LessonDeleteStorno ==
    ASSUME StornoInv, TypeOK', NEW r \in Requests, NEW l \in Lessons, LessonDelete(r, l)
    PROVE  StornoInv'
  <1> DEFINE cut(it) == [it EXCEPT !.linked = it.linked /\ it.lesson # l]
  <1>1. /\ UNCHANGED <<invoice, lastId, req>>
        /\ items' = {cut(it) : it \in items}
    BY DEF LessonDelete
  <1>2. \A it \in items : /\ cut(it).inv = it.inv /\ cut(it).lesson = it.lesson
                          /\ cut(it).linked => it.linked
    <2>1. items \subseteq Item
      BY DEF StornoInv, TypeOK
    <2> QED
      BY <2>1, ZenonT(60) DEF Item
  <1> HIDE DEF cut
  <1>3. \A k \in Ids : Lines(k)' = Lines(k) /\ Linked(ItemsOf(k))' \subseteq Linked(ItemsOf(k))
    <2> SUFFICES ASSUME NEW k \in Ids
                 PROVE  Lines(k)' = Lines(k) /\ Linked(ItemsOf(k))' \subseteq Linked(ItemsOf(k))
      OBVIOUS
    <2>1. \A it \in ItemsOf(k)' : \E x \in ItemsOf(k) : it = cut(x)
      BY <1>1, <1>2 DEF ItemsOf
    <2>2. \A x \in ItemsOf(k) : cut(x) \in ItemsOf(k)'
      BY <1>1, <1>2 DEF ItemsOf
    <2>3. ItemsOf(k) \subseteq items
      BY DEF ItemsOf
    <2>4. Lines(k)' = Lines(k)
      BY <1>2, <2>1, <2>2, <2>3 DEF Lines
    <2>5. Linked(ItemsOf(k))' \subseteq Linked(ItemsOf(k))
      BY <1>2, <2>1, <2>3 DEF Linked
    <2> QED
      BY <2>4, <2>5
  <1>4. RowsKnown'
    BY <1>1, <1>2 DEF StornoInv, RowsKnown, Present
  <1>5. \A k \in Ids : StornoOf(k) # {} => Present(k)'
    BY <1>1, OriginalIsThere DEF Present
  <1>6. lastId' >= lastId
    BY <1>1, BillingAssumption DEF StornoInv, TypeOK
  <1> QED
    BY <1>1, <1>3, <1>4, <1>5, <1>6, StornoStep DEF PairsKept

(* Every other step that ends a request.                                   *)
LEMMA CommitStorno ==
    ASSUME StornoInv, TypeOK', NEW r \in Requests, Commit(r)
    PROVE  StornoInv'
  <1> DEFINE i == req[r].inv
  <1>1. /\ HandKeepsStorno(r) /\ TypeOK /\ req[r] \in Request
        /\ \A k \in Ids : invoice[k] \in Row
    BY DEF StornoInv, TypeOK
  <1>2. req[r].op \in Changes \cup {"store"} => i \in Ids /\ i <= lastId
    BY <1>1 DEF HandKeepsStorno, Request
  <1>3. req[r].op \in Changes => invoice[i].cancels = 0
    BY <1>1, <1>2 DEF HandKeepsStorno
  <1>4. ASSUME NEW row \in Row, i \in Ids, i <= lastId, row.status # "none",
               row.cancels = invoice[i].cancels,
               invoice[i].cancels # 0 => row.status = "cancelled",
               invoice' = [invoice EXCEPT ![i] = row],
               UNCHANGED <<items, lastId>>, Finish(r)
        PROVE  StornoInv'
    <2>1. RowsKnown' /\ PairsKept
      BY <1>4, WriteStorno
    <2>2. \A q \in Requests : req'[q] = req[q] \/ req'[q] = Idle
      BY <1>1, <1>4 DEF Finish, TypeOK
    <2> QED
      BY <2>1, <2>2, StornoStep
  <1>5. ASSUME NEW p \in Payers, PayerSave(r, p)
        PROVE  StornoInv'
    <2>1. CASE Present(i)
      <3> DEFINE row == [invoice[i] EXCEPT !.payer = p]
      <3>1. i \in Ids /\ i <= lastId /\ invoice[i].cancels = 0
        BY <1>2, <1>3, <1>5 DEF PayerSave, Changes
      <3>2. row \in Row /\ row.status = invoice[i].status /\ row.cancels = 0
        BY <1>1, <3>1 DEF Row
      <3>3. invoice' = [invoice EXCEPT ![i] = row]
        BY <1>1, <1>5, <2>1, <3>1 DEF PayerSave, TypeOK, Row
      <3> QED
        BY <1>4, <1>5, <2>1, <3>1, <3>2, <3>3 DEF PayerSave, Present
    <2>2. CASE ~Present(i)
      BY <1>5, <2>2, FailStorno DEF PayerSave
    <2> QED
      BY <2>1, <2>2
  <1>6. CASE CreateRefused(r) \/ StoreFails(r) \/ EditRefused(r)
    BY <1>6, FailStorno DEF CreateRefused, StoreFails, EditRefused
  <1>7. CASE StoreFile(r)
    <2>1. req[r].row \in Row /\ req[r].row.status # "none" /\ i \in Ids /\ i <= lastId
      BY <1>1, <1>2, <1>7 DEF StoreFile, HandKeepsStorno, Request
    <2>2. req[r].row.cancels = invoice[i].cancels
      BY <1>1, <2>1 DEF HandKeepsStorno, Ids
    <2>3. invoice[i].cancels # 0 => req[r].row.status = "cancelled"
      BY <1>1, <2>1 DEF HandKeepsStorno, Ids
    <2> QED
      BY <1>4, <1>7, <2>1, <2>2, <2>3 DEF StoreFile
  <1>8. ASSUME NEW status \in Live, SetPayStatus(r, status), req[r].op \in Changes
        PROVE  StornoInv'
    <2>1. CASE Present(i)
      <3> DEFINE row == [invoice[i] EXCEPT !.status = status]
      <3>1. i \in Ids /\ i <= lastId /\ invoice[i].cancels = 0
        BY <1>2, <1>3, <1>8
      <3>2. row \in Row /\ row.status = status /\ row.cancels = 0
        BY <1>1, <3>1 DEF Row, Live
      <3>3. invoice' = [invoice EXCEPT ![i] = row]
        BY <1>1, <1>8, <2>1, <3>1 DEF SetPayStatus, TypeOK, Row
      <3> QED
        BY <1>4, <1>8, <2>1, <3>1, <3>2, <3>3 DEF SetPayStatus, Live
    <2>2. CASE ~Present(i)
      BY <1>8, <2>2, FailStorno DEF SetPayStatus
    <2> QED
      BY <2>1, <2>2
  <1>9. CASE MarkPaid(r) \/ UndoPaid(r)
    BY <1>8, <1>9 DEF MarkPaid, UndoPaid, Live, Changes
  <1>10. ASSUME NEW l \in Lessons, NEW status \in LessonStatus, EditSave(r, l, status)
         PROVE  StornoInv'
    <2> DEFINE next == [req[r] EXCEPT !.op = "resave", !.mark = status]
    <2>1. /\ req' = [req EXCEPT ![r] = next]
          /\ UNCHANGED <<invoice, items, lastId>>
          /\ req[r].op = "edit"
      BY <1>10 DEF EditSave
    <2>2. next.op = "resave" /\ next.inv = req[r].inv /\ next.row = req[r].row
      BY <1>1 DEF Request
    <2> HIDE DEF next
    <2>3. req'[r] = next /\ \A q \in Requests : q # r => req'[q] = req[q]
      BY <1>1, <2>1 DEF TypeOK
    <2>4. HandKeepsStorno(r)'
      BY <1>1, <2>1, <2>2, <2>3 DEF HandKeepsStorno, Changes
    <2> QED
      BY <2>1, <2>3, <2>4, SameTables, StornoStep
  <1>11. ASSUME NEW l \in Lessons, EditResave(r, l)
         PROVE  StornoInv'
    <2>1. \A q \in Requests : req'[q] = req[q] \/ req'[q] = Idle
      BY <1>1, <1>11 DEF EditResave, Finish, TypeOK
    <2> QED
      BY <1>11, <2>1, SameTables, StornoStep DEF EditResave
  <1>12. ASSUME NEW l \in Lessons, LessonDelete(r, l)
         PROVE  StornoInv'
    BY <1>12, LessonDeleteStorno
  <1> QED
    BY <1>5, <1>6, <1>7, <1>9, <1>10, <1>11, <1>12, DeleteStorno, CreateStorno, CancelStorno,
       SendStorno
       DEF Commit

(* There is nothing to mirror at the start.                                *)
LEMMA StornoInit ==
    ASSUME Init
    PROVE  StornoInv
  <1>1. TypeOK
    BY InitType
  <1>2. RowsKnown /\ PairsMirrored
    BY DEF Init, RowsKnown, PairsMirrored, Present, NoRow
  <1>3. \A q \in Requests : HandKeepsStorno(q)
    BY DEF Init, HandKeepsStorno, Idle, Changes
  <1> QED
    BY <1>1, <1>2, <1>3 DEF StornoInv

(* No step disturbs a pair.                                                *)
LEMMA StornoNext ==
    ASSUME StornoInv, [Next]_vars
    PROVE  StornoInv'
  <1>1. TypeOK'
    BY NextType DEF StornoInv
  <1>2. ASSUME UNCHANGED <<invoice, items, lastId, req>>
        PROVE  StornoInv'
    BY <1>1, <1>2, SameTables, StornoStep
  <1>3. ASSUME NEW l \in Lessons, UpdatePastToTaught(l)
        PROVE  StornoInv'
    BY <1>2, <1>3 DEF UpdatePastToTaught
  <1> QED
    BY <1>1, <1>2, <1>3, BeginStorno, CommitStorno DEF Next, vars

(* However requests overlap, an original and its cancellation invoice stay *)
(* a pair: both are there, there is no second one, it bills the same       *)
(* lessons without claiming them, and it is never anything but cancelled.  *)
THEOREM StornoCorrect == Spec => []StornoMirrors
  <1>1. ASSUME StornoInv
        PROVE  StornoMirrors
    <2> SUFFICES ASSUME NEW j \in Ids, Present(j), invoice[j].cancels # 0
                 PROVE  Mirrored(invoice[j].cancels, j)
      BY DEF StornoMirrors, Mirrored
    <2>1. invoice[j].cancels \in Ids
      BY <1>1 DEF StornoInv, TypeOK, Row
    <2> QED
      BY <1>1, <2>1 DEF StornoInv, PairsMirrored
  <1> QED
    BY <1>1, StornoInit, StornoNext, PTL DEF Spec

-----------------------------------------------------------------------------
(* Requests served one after the other, as by a single tutor who waits for *)
(* each answer.  The cron job that marks past lessons as taught may still  *)
(* run between the two steps of a request.                                 *)

OneAtATime == \A q, r \in Requests : q = r

\* the lines bear out the status of their lessons and of their invoices
LinesFit ==
    /\ \A it \in items : Present(it.inv)
    /\ \A it \in items : it.linked => lesson[it.lesson] # "gone"
    /\ \A it \in items : ~it.linked /\ invoice[it.inv].status \in Live
                            => lesson[it.lesson] = "gone"
    /\ \A x, y \in items :
          x.inv # y.inv /\ invoice[x.inv].status \in Live /\ invoice[y.inv].status \in Live
             => x.lesson # y.lesson
    /\ \A it \in items : it.linked /\ invoice[it.inv].status = "paid"
                            => lesson[it.lesson] = "paid"

CancelledFits ==
    \A i \in Ids :
        /\ StornoOf(i) # {} => invoice[i].status = "cancelled"
        /\ invoice[i].status = "cancelled" /\ invoice[i].cancels = 0 => StornoOf(i) # {}

\* what a request has read is still so, up to what it is about to change
HandFits(q) ==
    LET i == req[q].inv
        row == req[q].row
    IN
    /\ req[q].op \in Changes \cup {"store"} => Present(i)
    /\ req[q].op \in {"payer", "delete", "send"} => invoice[i].status = "draft"
    /\ req[q].op = "pay" => invoice[i].status \in Live
    /\ req[q].op = "unpay" => invoice[i].status = "paid"
    /\ req[q].op = "send" /\ row # NoRow =>
          /\ invoice[i].pdf = None
          /\ row = WithPdf([invoice[i] EXCEPT !.status = "sent", !.sent = TRUE])
    /\ req[q].op = "store" =>
          /\ row = [invoice[i] EXCEPT !.pdf = row.pdf]
          /\ invoice[i].status # "draft" /\ invoice[i].pdf # None => row.pdf = invoice[i].pdf
    /\ req[q].op = "create" => \A l \in req[q].cand : ~InLive(l)
    /\ req[q].op \in {"edit", "resave"} => \A l \in req[q].cand :
          \/ lesson[l] = req[q].mark /\ lesson[l] # "gone"
          \/ lesson[l] = "taught" /\ req[q].mark = "planned"

SerialInv ==
    /\ StornoInv
    /\ LinesFit
    /\ CancelledFits
    /\ \A q \in Requests : HandFits(q)

\* what a step does to issued invoices, and to the ledger
FrozenStep ==
    \A i \in Ids : invoice[i].status \notin {"none", "draft"} =>
        /\ Present(i)'
        /\ invoice'[i].number = invoice[i].number
        /\ invoice'[i].payer = invoice[i].payer
        /\ invoice[i].pdf # None => invoice'[i].pdf = invoice[i].pdf
        /\ Lines(i)' = Lines(i)
LedgerStep == Ledger!Next \/ UNCHANGED Ledger!vars

StepFits == LinesFit' /\ CancelledFits' /\ FrozenStep /\ LedgerStep

(* The stages of an invoice in the ledger.                                 *)
LEMMA StageValues ==
    ASSUME NEW row \in Row
    PROVE  /\ row.status = "none" => Stage(row) = "absent"
           /\ row.status = "draft" => Stage(row) = "draft"
           /\ row.status \in {"sent", "paid"} => Stage(row) = "issued"
           /\ row.status = "cancelled" => Stage(row) = "void"
  BY DEF Stage

(* The cancellations of an invoice are the same after a step that writes   *)
(* no other reference to it.                                               *)
LEMMA SameStornos ==
    ASSUME \A j \in Ids : invoice'[j].cancels = invoice[j].cancels,
           \A j \in Ids : invoice[j].cancels # 0 => (Present(j)' <=> Present(j)),
           NEW k \in Ids
    PROVE  StornoOf(k)' = StornoOf(k)
  <1>1. \A j \in Ids : (Present(j) /\ invoice[j].cancels = k)' <=> Present(j) /\ invoice[j].cancels = k
    BY DEF Ids
  <1> QED
    BY <1>1 DEF StornoOf

(* Lessons may be planned one moment and taught the next; nothing that was *)
(* billed depends on it.                                                   *)
LEMMA LessonsFlip ==
    ASSUME SerialInv, UNCHANGED <<invoice, items, lastId>>,
           \A l \in Lessons :
              lesson'[l] = lesson[l] \/ {lesson[l], lesson'[l]} \subseteq {"planned", "taught"}
    PROVE  StepFits
  <1>1. \A k \in Ids : Lines(k)' = Lines(k) /\ StornoOf(k)' = StornoOf(k)
    BY DEF Lines, ItemsOf, StornoOf, Present
  <1>2. \A it \in items : it.lesson \in Lessons
    BY DEF SerialInv, StornoInv, TypeOK, Item
  <1>3. LinesFit'
    BY <1>2 DEF SerialInv, LinesFit, Present
  <1>4. CancelledFits'
    BY <1>1 DEF SerialInv, CancelledFits
  <1>5. FrozenStep
    BY <1>1 DEF FrozenStep, Present
  <1>6. LedgerStep
    BY <1>1 DEF LedgerStep, Ledger!vars
  <1> QED
    BY <1>3, <1>4, <1>5, <1>6 DEF StepFits

(* One invoice changes its row and stays as live or as cancelled as it was. *)
LEMMA RowRewritten ==
    ASSUME SerialInv, NEW i \in Ids, NEW row \in Row,
           Present(i), row.cancels = invoice[i].cancels,
           row.status = invoice[i].status \/ {row.status, invoice[i].status} \subseteq Live,
           invoice' = [invoice EXCEPT ![i] = row], UNCHANGED <<items, lastId>>,
           \A l \in Lessons : lesson'[l] = "gone" <=> lesson[l] = "gone",
           \A it \in items : it.linked /\ invoice'[it.inv].status = "paid"
                                => lesson'[it.lesson] = "paid"
    PROVE  LinesFit' /\ CancelledFits' /\ \A k \in Ids : Lines(k)' = Lines(k)
  <1>1. \A k \in Ids : invoice'[k] = IF k = i THEN row ELSE invoice[k]
    BY DEF SerialInv, StornoInv, TypeOK
  <1>2. \A it \in items : it.lesson \in Lessons /\ it.inv \in Ids
    BY DEF SerialInv, StornoInv, TypeOK, Item
  <1>3. "none" \notin Live /\ "cancelled" \notin Live
    BY DEF Live
  <1>4. \A k \in Ids : (Present(k)' <=> Present(k)) /\ invoice'[k].cancels = invoice[k].cancels
    BY <1>1, <1>3 DEF Present
  <1>5. \A k \in Ids : /\ (invoice'[k].status \in Live <=> invoice[k].status \in Live)
                       /\ (invoice'[k].status = "cancelled" <=> invoice[k].status = "cancelled")
    BY <1>1, <1>3
  <1>6. LinesFit'
    BY <1>2, <1>4, <1>5 DEF SerialInv, LinesFit
  <1>7. CancelledFits'
    BY <1>4, <1>5, SameStornos DEF SerialInv, CancelledFits
  <1>8. \A k \in Ids : Lines(k)' = Lines(k)
    BY DEF Lines, ItemsOf
  <1> QED
    BY <1>6, <1>7, <1>8

(* Recipient or document of an invoice change and nothing else.            *)
LEMMA RowTouched ==
    ASSUME SerialInv, NEW i \in Ids, NEW row \in Row,
           Present(i), row.cancels = invoice[i].cancels, row.status = invoice[i].status,
           row.status # "draft" => /\ row.number = invoice[i].number
                                   /\ row.payer = invoice[i].payer
                                   /\ invoice[i].pdf # None => row.pdf = invoice[i].pdf,
           invoice' = [invoice EXCEPT ![i] = row], UNCHANGED <<lesson, items, lastId>>
    PROVE  StepFits
  <1>1. \A k \in Ids : invoice'[k] = IF k = i THEN row ELSE invoice[k]
    BY DEF SerialInv, StornoInv, TypeOK
  <1>2. \A it \in items : it.linked /\ invoice'[it.inv].status = "paid"
                             => lesson'[it.lesson] = "paid"
    BY <1>1 DEF SerialInv, LinesFit, StornoInv, TypeOK, Item
  <1>3. LinesFit' /\ CancelledFits' /\ \A k \in Ids : Lines(k)' = Lines(k)
    BY <1>2, RowRewritten
  <1>4. FrozenStep
    BY <1>1, <1>3 DEF FrozenStep, Present
  <1>5. \A k \in Ids : Stage(invoice'[k]) = Stage(invoice[k])
    BY <1>1 DEF Stage
  <1>6. \A k \in Ids : invoice'[k].cancels = invoice[k].cancels
    BY <1>1
  <1>7. LedgerStep
    BY <1>3, <1>5, <1>6 DEF LedgerStep, Ledger!vars
  <1> QED
    BY <1>3, <1>4, <1>7 DEF StepFits

(* A draft is issued, an issued invoice reopened, or a payment noted.       *)
LEMMA LedgerRow ==
    ASSUME TypeOK, TypeOK', NEW i \in Ids, {invoice[i].status, invoice'[i].status} \subseteq Live,
           \A k \in Ids : k # i => invoice'[k] = invoice[k],
           invoice'[i].cancels = invoice[i].cancels,
           \A k \in Ids : Lines(k)' = Lines(k),
           lastId' = lastId
    PROVE  LedgerStep
  <1>1. /\ invoice[i].status = "draft" => Stage(invoice[i]) = "draft"
        /\ invoice'[i].status = "draft" => Stage(invoice'[i]) = "draft"
        /\ invoice[i].status \in {"sent", "paid"} => Stage(invoice[i]) = "issued"
        /\ invoice'[i].status \in {"sent", "paid"} => Stage(invoice'[i]) = "issued"
    BY StageValues DEF TypeOK
  <1>2. \A k \in Ids : k # i => Stage(invoice'[k]) = Stage(invoice[k])
    OBVIOUS
  <1>3. CASE Stage(invoice'[i]) = Stage(invoice[i])
    BY <1>2, <1>3 DEF LedgerStep, Ledger!vars
  <1>4. CASE Stage(invoice[i]) = "draft" /\ Stage(invoice'[i]) = "issued"
    <2>1. Ledger!Issue(i)
      BY <1>2, <1>4 DEF Ledger!Issue
    <2> QED
      BY <2>1 DEF LedgerStep, Ledger!Next, Ledger!Ids, Ids
  <1>5. CASE Stage(invoice[i]) = "issued" /\ Stage(invoice'[i]) = "draft"
    <2>1. Ledger!Reopen(i)
      BY <1>2, <1>5 DEF Ledger!Reopen
    <2> QED
      BY <2>1 DEF LedgerStep, Ledger!Next, Ledger!Ids, Ids
  <1> QED
    BY <1>1, <1>3, <1>4, <1>5 DEF Live

(* Recomputing settles the lessons of a paid invoice and touches those of  *)
(* no other live one.                                                      *)
LEMMA RecomputedFits ==
    ASSUME SerialInv, NEW i \in Ids, invoice[i].status \in Live,
           NEW saved \in [Ids -> Row], saved[i].status \in Live,
           \A k \in Ids : k # i => saved[k] = invoice[k],
           lesson' = Recomputed(i, saved)
    PROVE  /\ \A l \in Lessons : lesson'[l] = "gone" <=> lesson[l] = "gone"
           /\ \A it \in items : it.linked /\ saved[it.inv].status = "paid"
                                   => lesson'[it.lesson] = "paid"
  <1> DEFINE mine == Linked(ItemsOf(i))
             unpaid == {l \in mine : \E it \in items :
                           /\ it.linked
                           /\ it.lesson = l
                           /\ saved[it.inv].status \notin Settled}
  <1>1. lesson' = [l \in Lessons |-> IF l \in unpaid THEN "taught"
                                     ELSE IF l \in mine THEN "paid" ELSE lesson[l]]
    BY DEF Recomputed
  <1>2. \A it \in items : it.lesson \in Lessons /\ it.inv \in Ids
    BY DEF SerialInv, StornoInv, TypeOK, Item
  <1>3. \A l \in mine : \E x \in items : x.inv = i /\ x.linked /\ x.lesson = l
    BY DEF Linked, ItemsOf
  <1>4. \A x \in items : x.inv = i /\ x.linked => x.lesson \in mine
    BY DEF Linked, ItemsOf
  <1>5. \A l \in unpaid : \E it \in items : it.linked /\ it.lesson = l /\ saved[it.inv].status \notin Settled
    OBVIOUS
  <1>6. unpaid \subseteq mine
    OBVIOUS
  <1> HIDE DEF mine, unpaid
  <1>7. \A l \in mine : lesson[l] # "gone"
    BY <1>3 DEF SerialInv, LinesFit
  <1>8. \A l \in Lessons : lesson'[l] = "gone" <=> lesson[l] = "gone"
    BY <1>1, <1>6, <1>7
  <1>9. ASSUME NEW it \in items, it.linked, saved[it.inv].status = "paid"
        PROVE  lesson'[it.lesson] = "paid"
    <2>1. CASE it.inv = i
      <3>1. it.lesson \in mine
        BY <1>4, <1>9, <2>1
      <3>2. ASSUME it.lesson \in unpaid
            PROVE  FALSE
        <4>1. PICK y \in items : /\ y.linked /\ y.lesson = it.lesson
                                 /\ saved[y.inv].status \notin Settled
          BY <1>5, <3>2
        <4>2. y.inv # i
          BY <1>9, <2>1, <4>1 DEF Settled
        <4>3. invoice[y.inv].status \notin Live
          BY <2>1, <4>1, <4>2 DEF SerialInv, LinesFit
        <4>4. invoice[y.inv] \in Row /\ invoice[y.inv].status # "none"
          BY <1>2 DEF SerialInv, LinesFit, StornoInv, TypeOK, Present
        <4>5. invoice[y.inv].status = "cancelled"
          BY <4>3, <4>4 DEF Row
        <4> QED
          BY <1>2, <4>1, <4>2, <4>5 DEF Settled
      <3> QED
        BY <1>1, <1>2, <3>1, <3>2
    <2>2. CASE it.inv # i
      <3>1. invoice[it.inv].status = "paid"
        BY <1>2, <1>9, <2>2
      <3>2. it.lesson \notin mine
        BY <1>3, <2>2, <3>1 DEF SerialInv, LinesFit, Live
      <3>3. lesson[it.lesson] = "paid"
        BY <1>9, <3>1 DEF SerialInv, LinesFit
      <3> QED
        BY <1>1, <1>2, <1>6, <3>2, <3>3
    <2> QED
      BY <2>1, <2>2
  <1> QED
    BY <1>8, <1>9

(* A request that is over holds nothing.                                   *)
LEMMA IdleFits ==
    ASSUME NEW q \in Requests, req'[q] = Idle
    PROVE  HandFits(q)'
  BY DEF HandFits, Idle, Changes

(* It is the only one.                                                     *)
LEMMA FinishFits ==
    ASSUME OneAtATime, TypeOK, NEW r \in Requests, Finish(r)
    PROVE  \A q \in Requests : HandFits(q)'
  <1>1. req'[r] = Idle
    BY DEF Finish, TypeOK
  <1> QED
    BY <1>1, IdleFits DEF OneAtATime

(* A request that gives up.                                                *)
LEMMA FailFits ==
    ASSUME OneAtATime, SerialInv, NEW r \in Requests, Fail(r)
    PROVE  StepFits /\ \A q \in Requests : HandFits(q)'
  BY LessonsFlip, FinishFits DEF Fail, SerialInv, StornoInv

(* A request that starts on what it reads.                                 *)
LEMMA StartFits ==
    ASSUME OneAtATime, SerialInv, NEW r \in Requests, NEW op, NEW i \in Ids, NEW row \in Row,
           Start(r, op, i, row), op \in Changes \cup {"store"},
           op \in {"payer", "delete", "send"} => invoice[i].status = "draft",
           op = "pay" => invoice[i].status \in Live,
           op = "unpay" => invoice[i].status = "paid",
           op = "send" /\ row # NoRow =>
              /\ invoice[i].pdf = None
              /\ row = WithPdf([invoice[i] EXCEPT !.status = "sent", !.sent = TRUE]),
           op = "store" =>
              /\ row = [invoice[i] EXCEPT !.pdf = row.pdf]
              /\ invoice[i].status # "draft" /\ invoice[i].pdf # None => row.pdf = invoice[i].pdf
    PROVE  StepFits /\ \A q \in Requests : HandFits(q)'
  <1> DEFINE started == [Idle EXCEPT !.op = op, !.inv = i, !.row = row]
  <1>1. started.op = op /\ started.inv = i /\ started.row = row
    BY DEF Idle
  <1>2. req' = [req EXCEPT ![r] = started]
    BY DEF Start
  <1> HIDE DEF started
  <1>3. req'[r] = started
    BY <1>2 DEF SerialInv, StornoInv, TypeOK
  <1>4. /\ invoice' = invoice
        /\ Present(i)
    BY DEF Start
  <1>5. req'[r].op = op /\ req'[r].inv = i /\ req'[r].row = row
    BY <1>1, <1>3
  <1>6. HandFits(r)'
    BY <1>4, <1>5 DEF HandFits, Present, Changes
  <1>7. StepFits
    BY LessonsFlip DEF Start
  <1> QED
    BY <1>6, <1>7 DEF OneAtATime

(* What a request reads fits the tables it reads it from.                  *)
LEMMA BeginFits ==
    ASSUME OneAtATime, SerialInv, NEW r \in Requests, Begin(r)
    PROVE  StepFits /\ \A q \in Requests : HandFits(q)'
  <1> USE RowTypes
  <1>1. TypeOK /\ \A i \in Ids : invoice[i] \in Row
    BY DEF SerialInv, StornoInv, TypeOK
  <1>2. ASSUME NEW scope \in SUBSET Lessons, CreateBegin(r, scope)
        PROVE  StepFits /\ \A q \in Requests : HandFits(q)'
    <2> DEFINE cand == {l \in scope : Billable(l)}
               begun == [Idle EXCEPT !.op = "create", !.cand = cand]
    <2>1. begun.op = "create" /\ begun.cand = cand
      BY DEF Idle
    <2>2. \A l \in cand : ~InLive(l)
      BY DEF Billable
    <2>3. req' = [req EXCEPT ![r] = begun] /\ UNCHANGED <<lesson, invoice, items, lastId>>
      BY <1>2 DEF CreateBegin
    <2> HIDE DEF begun, cand
    <2>4. req'[r] = begun
      BY <1>1, <2>3 DEF TypeOK
    <2>5. req'[r].op = "create" /\ req'[r].cand = cand
      BY <2>1, <2>4
    <2>6. \A l \in cand : ~InLive(l)'
      BY <2>2, <2>3 DEF InLive
    <2>7. HandFits(r)'
      BY <2>5, <2>6 DEF HandFits, Changes
    <2> QED
      BY <2>3, <2>7, LessonsFlip DEF OneAtATime
  <1>3. ASSUME NEW l \in Lessons, EditBegin(r, l)
        PROVE  StepFits /\ \A q \in Requests : HandFits(q)'
    <2> DEFINE begun == [Idle EXCEPT !.op = "edit", !.cand = {l}, !.mark = lesson[l]]
    <2>1. begun.op = "edit" /\ begun.cand = {l} /\ begun.mark = lesson[l]
      BY DEF Idle
    <2>2. /\ req' = [req EXCEPT ![r] = begun] /\ UNCHANGED <<lesson, invoice, items, lastId>>
          /\ lesson[l] # "gone"
      BY <1>3 DEF EditBegin
    <2> HIDE DEF begun
    <2>3. req'[r] = begun
      BY <1>1, <2>2 DEF TypeOK
    <2>4. HandFits(r)'
      BY <2>1, <2>2, <2>3 DEF HandFits, Changes
    <2> QED
      BY <2>2, <2>4, LessonsFlip DEF OneAtATime
  <1>4. ASSUME NEW i \in Ids,
               \/ PayerBegin(r, i) \/ DeleteBegin(r, i)
               \/ MarkPaidBegin(r, i) \/ SetPaidDateBegin(r, i)
        PROVE  StepFits /\ \A q \in Requests : HandFits(q)'
    <2>1. invoice[i].status \in Live \cup {"cancelled", "none"}
      BY <1>1 DEF Row
    <2>2. \/ Start(r, "payer", i, NoRow) /\ invoice[i].status = "draft"
          \/ Start(r, "delete", i, NoRow) /\ invoice[i].status = "draft"
          \/ Start(r, "pay", i, NoRow) /\ invoice[i].status \in Live
      BY <1>4, <2>1
         DEF PayerBegin, DeleteBegin, MarkPaidBegin, SetPaidDateBegin, IsLocked, Start, Present, Live
    <2> QED
      BY <2>2, StartFits DEF Changes
  <1>5. ASSUME NEW i \in Ids, SendBegin(r, i)
        PROVE  StepFits /\ \A q \in Requests : HandFits(q)'
    <2> DEFINE sent == [invoice[i] EXCEPT !.status = "sent", !.sent = TRUE]
               kept == IF sent.pdf = None THEN WithPdf(sent) ELSE NoRow
    <2>1. sent \in Row /\ sent.pdf = invoice[i].pdf
      BY <1>1 DEF Row, Live
    <2>2. /\ kept \in Row
          /\ kept # NoRow => invoice[i].pdf = None /\ kept = WithPdf(sent)
      BY <2>1
    <2>3. Start(r, "send", i, kept) /\ invoice[i].status = "draft"
      BY <1>5 DEF SendBegin
    <2> HIDE DEF kept
    <2> QED
      BY <2>2, <2>3, StartFits DEF Changes
  <1>6. ASSUME NEW i \in Ids,
               PdfGenerateBegin(r, i) \/ PdfDownloadBegin(r, i) \/ DocumentBegin(r, i)
        PROVE  StepFits /\ \A q \in Requests : HandFits(q)'
    <2> DEFINE printed == WithPdf(invoice[i])
    <2>1. printed \in Row /\ printed = [invoice[i] EXCEPT !.pdf = printed.pdf]
      BY <1>1 DEF WithPdf, Row
    <2>2. invoice[i] = [invoice[i] EXCEPT !.pdf = invoice[i].pdf]
      BY <1>1 DEF Row
    <2> HIDE DEF printed
    <2>3. \/ Start(r, "store", i, invoice[i])
          \/ /\ Start(r, "store", i, printed)
             /\ invoice[i].status = "draft" \/ invoice[i].pdf = None
      BY <1>6 DEF PdfGenerateBegin, PdfDownloadBegin, DocumentBegin, IsLocked, printed
    <2> QED
      BY <1>1, <2>1, <2>2, <2>3, StartFits DEF Changes
  <1>7. ASSUME NEW i \in Ids, UndoPaidBegin(r, i)
        PROVE  StepFits /\ \A q \in Requests : HandFits(q)'
    <2> DEFINE kept == [NoRow EXCEPT !.sent = invoice[i].sent]
    <2>1. kept \in Row
      BY <1>1 DEF Row
    <2> HIDE DEF kept
    <2>2. Start(r, "unpay", i, kept) /\ invoice[i].status = "paid"
      BY <1>7 DEF UndoPaidBegin, kept
    <2> QED
      BY <2>1, <2>2, StartFits DEF Changes
  <1> QED
    BY <1>2, <1>3, <1>4, <1>5, <1>6, <1>7 DEF Begin

(* The lesson handlers, and the job that marks lessons as taught.           *)
LEMMA EditFits ==
    ASSUME OneAtATime, SerialInv, NEW r \in Requests, NEW l \in Lessons, NEW status \in LessonStatus,
           EditSave(r, l, status)
    PROVE  StepFits /\ \A q \in Requests : HandFits(q)'
  <1> DEFINE next == [req[r] EXCEPT !.op = "resave", !.mark = status]
  <1>1. /\ req' = [req EXCEPT ![r] = next]
        /\ lesson' = [lesson EXCEPT ![l] = status]
        /\ UNCHANGED <<invoice, items, lastId>>
        /\ req[r].op = "edit" /\ req[r].cand = {l}
        /\ status = req[r].mark \/ (req[r].mark = "planned" /\ status = "taught")
    BY DEF EditSave
  <1>2. next.op = "resave" /\ next.cand = {l} /\ next.mark = status
    BY <1>1 DEF SerialInv, StornoInv, TypeOK, Request
  <1> HIDE DEF next
  <1>3. req'[r] = next /\ lesson'[l] = status /\ \A k \in Lessons : k # l => lesson'[k] = lesson[k]
    BY <1>1 DEF SerialInv, StornoInv, TypeOK
  <1>4. \/ lesson[l] = req[r].mark /\ lesson[l] # "gone"
        \/ lesson[l] = "taught" /\ req[r].mark = "planned"
    BY <1>1 DEF SerialInv, HandFits
  <1>5. StepFits
    BY <1>1, <1>3, <1>4, LessonsFlip
  <1>6. status # "gone"
    BY <1>1, <1>4
  <1>7. HandFits(r)'
    BY <1>2, <1>3, <1>6 DEF HandFits, Changes
  <1> QED
    BY <1>5, <1>7 DEF OneAtATime

(* The second save of the same instance writes the same status again.       *)
LEMMA ResaveFits ==
    ASSUME OneAtATime, SerialInv, NEW r \in Requests, NEW l \in Lessons, EditResave(r, l)
    PROVE  StepFits /\ \A q \in Requests : HandFits(q)'
  <1>1. \/ lesson[l] = req[r].mark
        \/ lesson[l] = "taught" /\ req[r].mark = "planned"
    BY DEF EditResave, SerialInv, HandFits
  <1>2. lesson'[l] = req[r].mark /\ \A k \in Lessons : k # l => lesson'[k] = lesson[k]
    BY DEF EditResave, SerialInv, StornoInv, TypeOK
  <1>3. StepFits
    BY <1>1, <1>2, LessonsFlip DEF EditResave
  <1> QED
    BY <1>3, FinishFits DEF EditResave, SerialInv, StornoInv

(* The job that marks past lessons as taught, in between two steps.         *)
LEMMA UpdaterFits ==
    ASSUME SerialInv, NEW l \in Lessons, UpdatePastToTaught(l)
    PROVE  StepFits /\ \A q \in Requests : HandFits(q)'
  <1>1. lesson'[l] = "taught" /\ lesson[l] = "planned" /\ \A k \in Lessons : k # l => lesson'[k] = lesson[k]
    BY DEF UpdatePastToTaught, SerialInv, StornoInv, TypeOK
  <1>2. StepFits
    BY <1>1, LessonsFlip DEF UpdatePastToTaught
  <1>3. ASSUME NEW q \in Requests
        PROVE  HandFits(q)'
    <2>1. req[q].cand \subseteq Lessons
      BY DEF SerialInv, StornoInv, TypeOK, Request
    <2>2. HandFits(q) /\ UNCHANGED <<invoice, items, req>>
      BY DEF SerialInv, UpdatePastToTaught
    <2>3. \A k \in Lessons : InLive(k)' <=> InLive(k)
      BY <2>2 DEF InLive
    <2> QED
      BY <1>1, <2>1, <2>2, <2>3 DEF HandFits, Present
  <1> QED
    BY <1>2, <1>3

(* A deleted lesson stays on the invoices as a line that points nowhere.    *)
LEMMA LessonDeleteFits ==
    ASSUME OneAtATime, SerialInv, NEW r \in Requests, NEW l \in Lessons, LessonDelete(r, l)
    PROVE  StepFits /\ \A q \in Requests : HandFits(q)'
  <1> DEFINE cut(it) == [it EXCEPT !.linked = it.linked /\ it.lesson # l]
  <1>1. /\ UNCHANGED <<invoice, lastId, req>>
        /\ items' = {cut(it) : it \in items}
        /\ req[r].op = "idle"
        /\ lesson' = [lesson EXCEPT ![l] = "gone"]
    BY DEF LessonDelete
  <1>2. \A it \in items : it.lesson \in Lessons /\ it.inv \in Ids
    BY DEF SerialInv, StornoInv, TypeOK, Item
  <1>3. \A it \in items : /\ cut(it).inv = it.inv /\ cut(it).lesson = it.lesson
                          /\ cut(it).linked <=> it.linked /\ it.lesson # l
    <2>1. items \subseteq Item
      BY DEF SerialInv, StornoInv, TypeOK
    <2> QED
      BY <2>1, ZenonT(60) DEF Item
  <1> HIDE DEF cut
  <1>4. \A k \in Lessons : lesson'[k] = IF k = l THEN "gone" ELSE lesson[k]
    BY <1>1 DEF SerialInv, StornoInv, TypeOK
  <1>5. \A x \in items' : \E it \in items : /\ x.inv = it.inv /\ x.lesson = it.lesson
                                            /\ x.linked <=> it.linked /\ it.lesson # l
    BY <1>1, <1>3
  <1>6. LinesFit'
    <2>1. \A it \in items' : Present(it.inv)'
      BY <1>1, <1>5 DEF SerialInv, LinesFit, Present
    <2>2. \A it \in items' : it.linked => lesson'[it.lesson] # "gone"
      BY <1>2, <1>4, <1>5 DEF SerialInv, LinesFit
    <2>3. \A it \in items' : ~it.linked /\ invoice'[it.inv].status \in Live
                                => lesson'[it.lesson] = "gone"
      BY <1>1, <1>2, <1>4, <1>5 DEF SerialInv, LinesFit
    <2>4. \A x, y \in items' :
             x.inv # y.inv /\ invoice'[x.inv].status \in Live /\ invoice'[y.inv].status \in Live
                => x.lesson # y.lesson
      BY <1>1, <1>5 DEF SerialInv, LinesFit
    <2>5. \A it \in items' : it.linked /\ invoice'[it.inv].status = "paid"
                                => lesson'[it.lesson] = "paid"
      BY <1>1, <1>2, <1>4, <1>5 DEF SerialInv, LinesFit
    <2> QED
      BY <2>1, <2>2, <2>3, <2>4, <2>5 DEF LinesFit
  <1>7. \A k \in Ids : Lines(k)' = Lines(k)
    <2> SUFFICES ASSUME NEW k \in Ids
                 PROVE  Lines(k)' = Lines(k)
      OBVIOUS
    <2>1. \A x \in ItemsOf(k)' : \E it \in ItemsOf(k) : x.lesson = it.lesson
      BY <1>5 DEF ItemsOf
    <2>2. \A it \in ItemsOf(k) : cut(it) \in ItemsOf(k)' /\ cut(it).lesson = it.lesson
      BY <1>1, <1>3 DEF ItemsOf
    <2> QED
      BY <2>1, <2>2 DEF Lines
  <1>8. CancelledFits'
    BY <1>1, SameStornos DEF SerialInv, CancelledFits, Present
  <1>9. FrozenStep
    BY <1>1, <1>7 DEF FrozenStep, Present
  <1>10. LedgerStep
    BY <1>1, <1>7 DEF LedgerStep, Ledger!vars
  <1>11. HandFits(r)'
    BY <1>1 DEF HandFits, Changes
  <1> QED
    BY <1>6, <1>8, <1>9, <1>10, <1>11 DEF StepFits, OneAtATime

(* A new recipient, on a draft.                                            *)
LEMMA PayerFits ==
    ASSUME OneAtATime, SerialInv, NEW r \in Requests, NEW p \in Payers, PayerSave(r, p)
    PROVE  StepFits /\ \A q \in Requests : HandFits(q)'
  <1>1. PICK i \in Ids \cup {0} : i = req[r].inv
    BY DEF SerialInv, StornoInv, TypeOK, Request
  <1> DEFINE row == [invoice[i] EXCEPT !.payer = p]
  <1>2. TypeOK /\ HandKeepsStorno(r) /\ HandFits(r) /\ req[r].op = "payer"
    BY DEF PayerSave, SerialInv, StornoInv
  <1>3. i \in Ids /\ Present(i) /\ invoice[i].status = "draft" /\ invoice[i] \in Row
    BY <1>1, <1>2 DEF HandKeepsStorno, HandFits, Changes, TypeOK
  <1>4. row \in Row /\ row.status = invoice[i].status /\ row.cancels = invoice[i].cancels
    BY <1>3 DEF Row
  <1>5. /\ invoice' = [invoice EXCEPT ![i].payer = p] /\ UNCHANGED <<lesson, items, lastId>>
        /\ Finish(r)
    BY <1>1, <1>3 DEF PayerSave
  <1>6. invoice' = [invoice EXCEPT ![i] = row]
    BY <1>2, <1>3, <1>5 DEF TypeOK, Row
  <1> HIDE DEF row
  <1> QED
    BY <1>2, <1>3, <1>4, <1>5, <1>6, RowTouched, FinishFits

(* A stored file writes back the row as it is, but for its own column.      *)
LEMMA StoreFits ==
    ASSUME OneAtATime, SerialInv, NEW r \in Requests, StoreFile(r)
    PROVE  StepFits /\ \A q \in Requests : HandFits(q)'
  <1>1. PICK i \in Ids \cup {0} : i = req[r].inv
    BY DEF SerialInv, StornoInv, TypeOK, Request
  <1>2. PICK row \in Row : row = req[r].row
    BY DEF SerialInv, StornoInv, TypeOK, Request
  <1>3. TypeOK /\ HandKeepsStorno(r) /\ HandFits(r) /\ req[r].op = "store"
    BY DEF StoreFile, SerialInv, StornoInv
  <1>4. i \in Ids /\ Present(i) /\ invoice[i] \in Row
    BY <1>1, <1>3 DEF HandKeepsStorno, HandFits, TypeOK
  <1>5. /\ row = [invoice[i] EXCEPT !.pdf = row.pdf]
        /\ invoice[i].status # "draft" /\ invoice[i].pdf # None => row.pdf = invoice[i].pdf
    BY <1>1, <1>2, <1>3 DEF HandFits
  <1>6. /\ row.status = invoice[i].status /\ row.cancels = invoice[i].cancels
        /\ row.number = invoice[i].number /\ row.payer = invoice[i].payer
    BY <1>4, <1>5 DEF Row
  <1>7. /\ invoice' = [invoice EXCEPT ![i] = row] /\ UNCHANGED <<lesson, items, lastId>>
        /\ Finish(r)
    BY <1>1, <1>2 DEF StoreFile
  <1> QED
    BY <1>3, <1>4, <1>5, <1>6, <1>7, RowTouched, FinishFits

(* A live invoice that changes its status keeps number, recipient and file. *)
LEMMA StatusFrozen ==
    ASSUME TypeOK, NEW i \in Ids, NEW row \in Row, row.status # "none",
           row.number = invoice[i].number, row.payer = invoice[i].payer, row.pdf = invoice[i].pdf,
           invoice' = [invoice EXCEPT ![i] = row], \A k \in Ids : Lines(k)' = Lines(k)
    PROVE  FrozenStep
  <1>1. \A k \in Ids : invoice'[k] = IF k = i THEN row ELSE invoice[k]
    BY DEF TypeOK
  <1> QED
    BY <1>1 DEF FrozenStep, Present

(* A draft is issued; the row its document will be stored with is the same. *)
LEMMA SendFits ==
    ASSUME OneAtATime, SerialInv, TypeOK', NEW r \in Requests, SendSave(r)
    PROVE  StepFits /\ \A q \in Requests : HandFits(q)'
  <1>1. PICK i \in Ids \cup {0} : i = req[r].inv
    BY DEF SerialInv, StornoInv, TypeOK, Request
  <1> DEFINE row == [invoice[i] EXCEPT !.status = "sent", !.sent = TRUE]
             next == [req[r] EXCEPT !.op = "store"]
  <1>2. TypeOK /\ HandKeepsStorno(r) /\ HandFits(r) /\ req[r].op = "send" /\ req[r] \in Request
    BY DEF SendSave, SerialInv, StornoInv, TypeOK
  <1>3. i \in Ids /\ Present(i) /\ invoice[i].status = "draft" /\ invoice[i] \in Row
    BY <1>1, <1>2 DEF HandKeepsStorno, HandFits, Changes, TypeOK
  <1>4. /\ row \in Row /\ row.status = "sent" /\ row.cancels = invoice[i].cancels
        /\ row.number = invoice[i].number /\ row.payer = invoice[i].payer
        /\ row.pdf = invoice[i].pdf
    BY <1>3 DEF Row, Live
  <1>5. /\ invoice' = [invoice EXCEPT ![i].status = "sent", ![i].sent = TRUE]
        /\ UNCHANGED <<lesson, items, lastId>>
        /\ req' = [req EXCEPT ![r] = IF req[r].row = NoRow THEN Idle ELSE next]
    BY <1>1, <1>3 DEF SendSave
  <1>6. invoice' = [invoice EXCEPT ![i] = row]
    BY <1>2, <1>3, <1>5 DEF TypeOK, Row
  <1>7. \A k \in Ids : invoice'[k] = IF k = i THEN row ELSE invoice[k]
    BY <1>2, <1>6 DEF TypeOK
  <1>8. /\ next.op = "store" /\ next.inv = i /\ next.row = req[r].row
    BY <1>1, <1>2 DEF Request
  <1>9. req'[r] = IF req[r].row = NoRow THEN Idle ELSE next
    BY <1>2, <1>5 DEF TypeOK
  <1>10. HandFits(r)'
    <2>1. CASE req[r].row = NoRow
      BY <1>9, <2>1, IdleFits
    <2>2. CASE req[r].row # NoRow
      <3>1. req[r].row = WithPdf(row) /\ invoice[i].pdf = None
        BY <1>1, <1>2, <2>2 DEF HandFits
      <3>2. WithPdf(row) = [row EXCEPT !.pdf = WithPdf(row).pdf]
        BY <1>4 DEF WithPdf, Row
      <3> HIDE DEF row, next
      <3>3. invoice'[i] = row
        BY <1>3, <1>7
      <3>4. req'[r].op = "store" /\ req'[r].inv = i /\ req'[r].row = WithPdf(row)
        BY <1>8, <1>9, <2>2, <3>1
      <3> QED
        BY <1>4, <3>1, <3>2, <3>3, <3>4 DEF HandFits, Present, Changes
    <2> QED
      BY <2>1, <2>2
  <1> HIDE DEF row, next
  <1>11. \A it \in items : it.linked /\ invoice'[it.inv].status = "paid"
                              => lesson'[it.lesson] = "paid"
    BY <1>4, <1>5, <1>7 DEF SerialInv, LinesFit, StornoInv, TypeOK, Item
  <1>12. LinesFit' /\ CancelledFits' /\ \A k \in Ids : Lines(k)' = Lines(k)
    BY <1>3, <1>4, <1>5, <1>6, <1>11, RowRewritten DEF Live
  <1>13. FrozenStep
    BY <1>2, <1>3, <1>4, <1>6, <1>12, StatusFrozen
  <1>14. LedgerStep
    <2>1. {invoice[i].status, invoice'[i].status} \subseteq Live
      BY <1>3, <1>4, <1>7 DEF Live
    <2>2. /\ \A k \in Ids : k # i => invoice'[k] = invoice[k]
          /\ invoice'[i].cancels = invoice[i].cancels
      BY <1>3, <1>4, <1>7
    <2> QED
      BY <1>2, <1>3, <1>5, <1>12, <2>1, <2>2, LedgerRow
  <1> QED
    BY <1>10, <1>12, <1>13, <1>14 DEF StepFits, OneAtATime

(* A payment noted, dated again or taken back.                             *)
LEMMA PayFits ==
    ASSUME OneAtATime, SerialInv, TypeOK', NEW r \in Requests, NEW status \in Live,
           req[r].op \in {"pay", "unpay"}, SetPayStatus(r, status)
    PROVE  StepFits /\ \A q \in Requests : HandFits(q)'
  <1>1. PICK i \in Ids \cup {0} : i = req[r].inv
    BY DEF SerialInv, StornoInv, TypeOK, Request
  <1> DEFINE row == [invoice[i] EXCEPT !.status = status]
             saved == [invoice EXCEPT ![i].status = status]
  <1>2. TypeOK /\ HandKeepsStorno(r) /\ HandFits(r)
    BY DEF SerialInv, StornoInv
  <1>3. i \in Ids /\ Present(i) /\ invoice[i].status \in Live /\ invoice[i] \in Row
    BY <1>1, <1>2 DEF HandKeepsStorno, HandFits, Changes, TypeOK, Live
  <1>4. /\ row \in Row /\ row.status = status /\ row.cancels = invoice[i].cancels
        /\ row.number = invoice[i].number /\ row.payer = invoice[i].payer
        /\ row.pdf = invoice[i].pdf
    BY <1>3 DEF Row, Live
  <1>5. /\ invoice' = saved
        /\ lesson' = Recomputed(i, saved)
        /\ UNCHANGED <<items, lastId>>
        /\ Finish(r)
    BY <1>1, <1>3 DEF SetPayStatus
  <1>6. saved = [invoice EXCEPT ![i] = row]
    BY <1>2, <1>3 DEF TypeOK, Row
  <1> HIDE DEF row, saved
  <1>7. \A k \in Ids : saved[k] = IF k = i THEN row ELSE invoice[k]
    BY <1>2, <1>6 DEF TypeOK
  <1>8. saved \in [Ids -> Row]
    BY <1>2, <1>4, <1>6 DEF TypeOK
  <1>9. /\ \A l \in Lessons : lesson'[l] = "gone" <=> lesson[l] = "gone"
        /\ \A it \in items : it.linked /\ saved[it.inv].status = "paid"
                               => lesson'[it.lesson] = "paid"
    BY <1>3, <1>4, <1>5, <1>7, <1>8, RecomputedFits
  <1>10. "none" \notin Live
    BY DEF Live
  <1>11. LinesFit' /\ CancelledFits' /\ \A k \in Ids : Lines(k)' = Lines(k)
    BY <1>3, <1>4, <1>5, <1>6, <1>9, RowRewritten
  <1>12. FrozenStep
    BY <1>2, <1>3, <1>4, <1>5, <1>6, <1>10, <1>11, StatusFrozen
  <1>13. LedgerStep
    BY <1>2, <1>3, <1>4, <1>5, <1>7, <1>11, LedgerRow
  <1> QED
    BY <1>2, <1>5, <1>11, <1>12, <1>13, FinishFits DEF StepFits

(* A discarded draft leaves its number unused and its lessons unpaid.       *)
LEMMA DeleteFits ==
    ASSUME OneAtATime, SerialInv, TypeOK', NEW r \in Requests, DeleteCommit(r)
    PROVE  StepFits /\ \A q \in Requests : HandFits(q)'
  <1>1. PICK i \in Ids \cup {0} : i = req[r].inv
    BY DEF SerialInv, StornoInv, TypeOK, Request
  <1>2. TypeOK /\ HandKeepsStorno(r) /\ HandFits(r) /\ req[r].op = "delete"
    BY DEF DeleteCommit, SerialInv, StornoInv
  <1>3. i \in Ids /\ invoice[i].status = "draft" /\ invoice[i].cancels = 0
    BY <1>1, <1>2 DEF HandKeepsStorno, HandFits, Changes, TypeOK
  <1>4. CASE ~CanDelete(i)
    BY <1>1, <1>4, FailFits DEF DeleteCommit
  <1>5. CASE CanDelete(i)
    <2>1. /\ lesson' = Reset(NotShared(i), "paid", "taught")
          /\ invoice' = [invoice EXCEPT ![i] = NoRow]
          /\ items' = items \ ItemsOf(i)
          /\ Finish(r)
          /\ lastId' = lastId
      BY <1>1, <1>5 DEF DeleteCommit
    <2>2. StornoOf(i) = {}
      BY <1>5 DEF CanDelete
    <2>3. \A k \in Ids : invoice'[k] = IF k = i THEN NoRow ELSE invoice[k]
      BY <1>2, <2>1 DEF TypeOK
    <2>4. \A it \in items : it.lesson \in Lessons /\ it.inv \in Ids
      BY <1>2 DEF TypeOK, Item
    <2>5. \A it \in items' : it \in items /\ it.inv # i
      BY <2>1 DEF ItemsOf
    <2>6. \A k \in Ids : Lines(k)' = IF k = i THEN {} ELSE Lines(k)
      BY <2>1 DEF Lines, ItemsOf
    <2>7. \A l \in NotShared(i) : \E x \in items : x.inv = i /\ x.linked /\ x.lesson = l
      BY DEF NotShared, Linked, ItemsOf
    <2>8. \A l \in Lessons : lesson'[l] = IF l \in NotShared(i) /\ lesson[l] = "paid"
                                        THEN "taught" ELSE lesson[l]
      BY <2>1 DEF Reset
    <2>9. NoRow.status = "none" /\ NoRow.cancels = 0
      BY DEF NoRow
    <2>10. LinesFit'
      <3>1. \A it \in items' : invoice'[it.inv] = invoice[it.inv]
        BY <2>3, <2>4, <2>5
      <3>2. \A l \in Lessons : lesson'[l] = "gone" <=> lesson[l] = "gone"
        BY <2>8
      <3>3. \A it \in items' : it.linked /\ invoice[it.inv].status = "paid"
                                 => lesson'[it.lesson] = "paid"
        <4> SUFFICES ASSUME NEW it \in items', it.linked, invoice[it.inv].status = "paid"
                     PROVE  lesson'[it.lesson] = "paid"
          OBVIOUS
        <4>1. it \in items /\ it.inv # i /\ it.lesson \in Lessons
          BY <2>4, <2>5
        <4>2. lesson[it.lesson] = "paid"
          BY <4>1 DEF SerialInv, LinesFit
        <4>3. it.lesson \notin NotShared(i)
          BY <1>3, <2>7, <4>1 DEF SerialInv, LinesFit, Live
        <4> QED
          BY <2>8, <4>1, <4>2, <4>3
      <3> QED
        BY <2>4, <2>5, <3>1, <3>2, <3>3 DEF SerialInv, LinesFit, Present
    <2>11. CancelledFits'
      <3>1. \A k \in Ids : invoice'[k].cancels = invoice[k].cancels
        BY <1>3, <2>3, <2>9
      <3>2. \A k \in Ids : invoice[k].cancels # 0 => (Present(k)' <=> Present(k))
        BY <1>3, <2>3 DEF Present
      <3>3. \A k \in Ids : StornoOf(k)' = StornoOf(k)
        BY <3>1, <3>2, SameStornos
      <3> QED
        BY <2>2, <2>3, <2>9, <3>1, <3>3 DEF SerialInv, CancelledFits
    <2>12. FrozenStep
      BY <1>3, <2>3, <2>6 DEF FrozenStep, Present
    <2>13. LedgerStep
      <3>1. invoice[i] \in Row /\ NoRow \in Row
        BY <1>2, <1>3, RowTypes DEF TypeOK
      <3>2. Stage(invoice[i]) = "draft" /\ Stage(NoRow) = "absent"
        BY <1>3, <2>9, <3>1, StageValues
      <3>3. \A k \in Ids : invoice'[k].cancels = invoice[k].cancels
        BY <1>3, <2>3, <2>9
      <3>4. \A k \in Ids : Stage(invoice'[k]) = IF k = i THEN "absent" ELSE Stage(invoice[k])
        BY <2>3, <3>2
      <3>5. Ledger!Discard(i)
        BY <1>3, <2>1, <2>6, <3>2, <3>3, <3>4 DEF Ledger!Discard
      <3> QED
        BY <1>3, <3>5 DEF LedgerStep, Ledger!Next, Ledger!Ids, Ids
    <2> QED
      BY <1>2, <2>1, <2>10, <2>11, <2>12, <2>13, FinishFits DEF StepFits
  <1> QED
    BY <1>4, <1>5

(* A new draft bills lessons that stand on no live invoice, linked or not.  *)
LEMMA CreateFits ==
    ASSUME OneAtATime, SerialInv, TypeOK', NEW r \in Requests, NEW p \in Payers, CreateCommit(r, p)
    PROVE  StepFits /\ \A q \in Requests : HandFits(q)'
  <1>0. PICK id \in Ids : id = lastId + 1
    BY NextId DEF CreateCommit, SerialInv, StornoInv, TypeOK
  <1> DEFINE added == [inv : {id}, lesson : LockTaught(req[r].cand), linked : {TRUE}]
             row == [NoRow EXCEPT !.status = "draft", !.number = counter, !.payer = p]
  <1>1. PICK batch \in SUBSET Lessons : batch = LockTaught(req[r].cand)
    BY DEF SerialInv, StornoInv, TypeOK, Request, LockTaught
  <1>2. /\ invoice' = [invoice EXCEPT ![id] = row]
        /\ items' = items \cup added
        /\ lesson' = Reset(batch, "taught", "paid")
        /\ lastId' = id
        /\ batch # {}
        /\ Finish(r)
        /\ req[r].op = "create"
    BY <1>0, <1>1 DEF CreateCommit
  <1>3. TypeOK /\ HandFits(r) /\ lastId \in Nat
    BY DEF SerialInv, StornoInv, TypeOK
  <1>4. \A l \in batch : lesson[l] = "taught" /\ ~InLive(l)
    BY <1>1, <1>2, <1>3 DEF HandFits, LockTaught
  <1>5. /\ \A it \in added : it.inv = id /\ it.lesson \in batch /\ it.linked
        /\ \A l \in batch : \E it \in added : it.lesson = l
    <2>1. \A l \in batch : [inv |-> id, lesson |-> l, linked |-> TRUE] \in added
      BY <1>1
    <2> QED
      BY <1>1, <2>1
  <1>6. row.status = "draft" /\ row.cancels = 0 /\ row \in Row
    BY <1>3, RowTypes DEF NoRow, Row, Live, TypeOK
  <1> HIDE DEF added, row
  <1>7. \A k \in Ids : invoice'[k] = IF k = id THEN row ELSE invoice[k]
    BY <1>2, <1>3 DEF TypeOK
  <1>8. \A l \in Lessons : lesson'[l] = IF l \in batch THEN "paid" ELSE lesson[l]
    BY <1>2, <1>4 DEF Reset
  <1>9. \A it \in items : it.lesson \in Lessons /\ it.inv \in Ids /\ it.inv # id
    BY <1>0, <1>3 DEF SerialInv, StornoInv, RowsKnown, TypeOK, Item, Ids
  <1>10. ~Present(id) /\ invoice[id].cancels = 0 /\ invoice[id].status = "none"
    BY <1>0, <1>3 DEF SerialInv, StornoInv, RowsKnown, Present, NoRow
  <1>11. \A x \in items : invoice[x.inv].status \in Live => x.lesson \notin batch
    BY <1>4, <1>9 DEF SerialInv, LinesFit, InLive
  <1>12. \A it \in items' : \/ it \in items /\ invoice'[it.inv] = invoice[it.inv]
                            \/ it.inv = id /\ it.lesson \in batch /\ it.linked
    BY <1>2, <1>5, <1>7, <1>9
  <1>13. LinesFit'
    <2>1. \A it \in items' : Present(it.inv)'
      BY <1>6, <1>7, <1>12 DEF SerialInv, LinesFit, Present
    <2>2. \A it \in items' : it.linked => lesson'[it.lesson] # "gone"
      BY <1>8, <1>9, <1>12 DEF SerialInv, LinesFit
    <2>3. \A it \in items' : ~it.linked /\ invoice'[it.inv].status \in Live
                                => lesson'[it.lesson] = "gone"
      BY <1>8, <1>9, <1>11, <1>12 DEF SerialInv, LinesFit
    <2>4. \A x, y \in items' :
             x.inv # y.inv /\ invoice'[x.inv].status \in Live /\ invoice'[y.inv].status \in Live
                => x.lesson # y.lesson
      BY <1>11, <1>12 DEF SerialInv, LinesFit
    <2>5. \A it \in items' : it.linked /\ invoice'[it.inv].status = "paid"
                                => lesson'[it.lesson] = "paid"
      BY <1>6, <1>7, <1>8, <1>9, <1>12 DEF SerialInv, LinesFit
    <2> QED
      BY <2>1, <2>2, <2>3, <2>4, <2>5 DEF LinesFit
  <1>14. \A k \in Ids : invoice'[k].cancels = invoice[k].cancels
    BY <1>6, <1>7, <1>10
  <1>15. CancelledFits'
    <2>1. \A k \in Ids : invoice[k].cancels # 0 => (Present(k)' <=> Present(k))
      BY <1>7, <1>10 DEF Present
    <2>2. \A k \in Ids : StornoOf(k)' = StornoOf(k)
      BY <1>14, <2>1, SameStornos
    <2> QED
      BY <1>6, <1>7, <1>10, <1>14, <2>2 DEF SerialInv, CancelledFits
  <1>16. \A k \in Ids : Lines(k)' = IF k = id THEN batch ELSE Lines(k)
    <2>1. \A k \in Ids : k # id => ItemsOf(k)' = ItemsOf(k)
      BY <1>2, <1>5 DEF ItemsOf
    <2>2. ItemsOf(id)' = added
      BY <1>2, <1>5, <1>9 DEF ItemsOf
    <2>3. {it.lesson : it \in added} = batch
      BY <1>5
    <2> QED
      BY <2>1, <2>2, <2>3 DEF Lines
  <1>17. FrozenStep
    BY <1>7, <1>10, <1>16 DEF FrozenStep, Present
  <1>18. LedgerStep
    <2>1. Stage(row) = "draft"
      BY <1>6, StageValues
    <2>2. \A k \in Ids : Stage(invoice'[k]) = IF k = id THEN "draft" ELSE Stage(invoice[k])
      BY <1>7, <2>1
    <2>3. ASSUME NEW k \in Ids, Stage(invoice[k]) \in {"draft", "issued"}
          PROVE  Lines(k) \cap batch = {}
      <3>1. invoice[k] \in Row
        BY <1>3 DEF TypeOK
      <3>2. invoice[k].status \in Live
        BY <2>3, <3>1, StageValues DEF Row, Live
      <3> QED
        BY <1>11, <3>2 DEF Lines, ItemsOf
    <2>4. Ledger!Draft(id, batch)
      BY <1>0, <1>2, <1>14, <1>16, <2>2, <2>3
         DEF Ledger!Draft, Ledger!Standing, Ledger!Ids, Ids
    <2> QED
      BY <2>4 DEF LedgerStep, Ledger!Next, Ledger!Ids, Ids
  <1> QED
    BY <1>2, <1>3, <1>13, <1>15, <1>17, <1>18, FinishFits DEF StepFits

(* A cancelled invoice and its counter-invoice are void, and its lessons,   *)
(* which stand on no other live invoice, may be billed again.              *)
LEMMA CancelFits ==
    ASSUME OneAtATime, SerialInv, TypeOK', StornoInv',
           NEW r \in Requests, NEW i \in Ids, Cancel(r, i)
    PROVE  StepFits /\ \A q \in Requests : HandFits(q)'
  <1>0. PICK id \in Ids : id = lastId + 1
    BY NextId DEF Cancel, SerialInv, StornoInv, TypeOK
  <1> DEFINE storno == [status |-> "cancelled", number |-> counter, payer |-> invoice[i].payer,
                        pdf |-> None, sent |-> TRUE, cancels |-> i]
             original == [invoice[i] EXCEPT !.status = "cancelled"]
             started == [Idle EXCEPT !.op = "store", !.inv = id, !.row = WithPdf(storno)]
             added == [inv : {id}, lesson : Lines(i), linked : {FALSE}]
  <1>1. /\ invoice' = [[invoice EXCEPT ![i].status = "cancelled"] EXCEPT ![id] = storno]
        /\ items' = items \cup added
        /\ lesson' = Reset(Linked(ItemsOf(i)), "paid", "taught")
        /\ req' = [req EXCEPT ![r] = started]
        /\ lastId' = id
    BY <1>0 DEF Cancel
  <1>2. TypeOK /\ lastId \in Nat /\ invoice[i] \in Row
    BY DEF SerialInv, StornoInv, TypeOK
  <1>3. /\ Present(i) /\ invoice[i].cancels = 0 /\ StornoOf(i) = {}
        /\ invoice[i].status \in {"sent", "paid"}
    BY DEF Cancel, Cancellable, Present
  <1>4. storno \in Row /\ storno.status = "cancelled" /\ storno.cancels = i
    BY <1>2 DEF Row, TypeOK
  <1>5. /\ original \in Row /\ original.status = "cancelled" /\ original.cancels = 0
        /\ original.number = invoice[i].number /\ original.payer = invoice[i].payer
        /\ original.pdf = invoice[i].pdf
    BY <1>2, <1>3 DEF Row
  <1>6. started.op = "store" /\ started.inv = id /\ started.row = WithPdf(storno)
    BY DEF Idle
  <1>7. /\ WithPdf(storno) = [storno EXCEPT !.pdf = WithPdf(storno).pdf]
        /\ storno.pdf = None
    BY <1>4 DEF WithPdf, Row
  <1>8. \A it \in added : it.inv = id /\ it.lesson \in Lines(i) /\ ~it.linked
    OBVIOUS
  <1>9. \A l \in Lines(i) : \E it \in added : it.lesson = l
    <2>1. \A l \in Lines(i) : [inv |-> id, lesson |-> l, linked |-> FALSE] \in added
      OBVIOUS
    <2> QED
      BY <2>1
  <1> HIDE DEF started, added
  <1>10. /\ ~Present(id) /\ invoice[id].cancels = 0 /\ invoice[id].status = "none" /\ id # i
         /\ StornoOf(id) = {}
    <2>1. ~Present(id) /\ invoice[id] = NoRow
      BY <1>0, <1>2 DEF SerialInv, StornoInv, RowsKnown
    <2>2. StornoOf(id) = {}
      BY <2>1, OriginalIsThere DEF SerialInv
    <2> QED
      BY <1>3, <2>1, <2>2 DEF NoRow
  <1>11. \A k \in Ids : invoice'[k] = IF k = id THEN storno ELSE IF k = i THEN original ELSE invoice[k]
    BY <1>1, <1>2 DEF TypeOK
  <1> HIDE DEF original
  <1>12. \A it \in items : it.lesson \in Lessons /\ it.inv \in Ids /\ it.inv # id
    BY <1>0, <1>2 DEF SerialInv, StornoInv, RowsKnown, TypeOK, Item, Ids
  <1>13. \A l \in Linked(ItemsOf(i)) : \E x \in items : x.inv = i /\ x.linked /\ x.lesson = l
    BY DEF Linked, ItemsOf
  <1>14. \A l \in Lessons : lesson'[l] = IF l \in Linked(ItemsOf(i)) /\ lesson[l] = "paid"
                                         THEN "taught" ELSE lesson[l]
    BY <1>1 DEF Reset
  <1>15. \A it \in items' : \/ it \in items
                            \/ it.inv = id /\ ~it.linked
    BY <1>1, <1>8
  <1>16. LinesFit'
    <2>1. \A it \in items' : Present(it.inv)'
      BY <1>3, <1>4, <1>5, <1>11, <1>12, <1>15 DEF SerialInv, LinesFit, Present
    <2>2. \A it \in items' : it.linked => lesson'[it.lesson] # "gone"
      BY <1>12, <1>14, <1>15 DEF SerialInv, LinesFit
    <2>3. \A it \in items' : invoice'[it.inv].status \in Live =>
             it \in items /\ it.inv # i /\ invoice'[it.inv] = invoice[it.inv]
      BY <1>4, <1>5, <1>11, <1>12, <1>15 DEF Live
    <2>4. \A it \in items' : ~it.linked /\ invoice'[it.inv].status \in Live
                                => lesson'[it.lesson] = "gone"
      BY <1>12, <1>14, <2>3 DEF SerialInv, LinesFit
    <2>5. \A x, y \in items' :
             x.inv # y.inv /\ invoice'[x.inv].status \in Live /\ invoice'[y.inv].status \in Live
                => x.lesson # y.lesson
      BY <2>3 DEF SerialInv, LinesFit
    <2>6. \A it \in items' : it.linked /\ invoice'[it.inv].status = "paid"
                                => lesson'[it.lesson] = "paid"
      <3> SUFFICES ASSUME NEW it \in items', it.linked, invoice'[it.inv].status = "paid"
                   PROVE  lesson'[it.lesson] = "paid"
        OBVIOUS
      <3>1. it \in items /\ it.inv # i /\ invoice[it.inv].status = "paid" /\ it.lesson \in Lessons
        BY <1>12, <2>3 DEF Live
      <3>2. lesson[it.lesson] = "paid"
        BY <3>1 DEF SerialInv, LinesFit
      <3>3. it.lesson \notin Linked(ItemsOf(i))
        BY <1>3, <1>13, <3>1 DEF SerialInv, LinesFit, Live
      <3> QED
        BY <1>14, <3>1, <3>2, <3>3
    <2> QED
      BY <2>1, <2>2, <2>4, <2>5, <2>6 DEF LinesFit
  <1>17. CancelledFits'
    <2>1. \A j \in Ids : invoice'[j].cancels = IF j = id THEN i ELSE invoice[j].cancels
      BY <1>3, <1>4, <1>5, <1>11
    <2>2. \A j \in Ids : j # id => (Present(j)' <=> Present(j))
      BY <1>3, <1>5, <1>11 DEF Present
    <2>3. Present(id)' /\ invoice'[id].status = "cancelled" /\ invoice'[id].cancels # 0
      BY <1>4, <1>11 DEF Present, Ids
    <2>4. ASSUME NEW k \in Ids, k # i
          PROVE  StornoOf(k)' = StornoOf(k)
      BY <1>10, <2>1, <2>2, <2>4 DEF StornoOf
    <2>5. invoice'[i].status = "cancelled" /\ StornoOf(i)' # {}
      BY <1>5, <1>10, <1>11, <2>1, <2>3 DEF StornoOf
    <2>6. ASSUME NEW k \in Ids, k # i, k # id
          PROVE  /\ StornoOf(k)' # {} => invoice'[k].status = "cancelled"
                 /\ invoice'[k].status = "cancelled" /\ invoice'[k].cancels = 0 => StornoOf(k)' # {}
      BY <1>11, <2>4, <2>6 DEF SerialInv, CancelledFits
    <2> QED
      BY <2>3, <2>5, <2>6 DEF CancelledFits
  <1>18. \A k \in Ids : Lines(k)' = IF k = id THEN Lines(i) ELSE Lines(k)
    <2>1. \A k \in Ids : k # id => ItemsOf(k)' = ItemsOf(k)
      BY <1>1, <1>8 DEF ItemsOf
    <2>2. ItemsOf(id)' = added
      BY <1>1, <1>8, <1>12 DEF ItemsOf
    <2>3. {it.lesson : it \in added} = Lines(i)
      BY <1>8, <1>9
    <2> QED
      BY <2>1, <2>2, <2>3 DEF Lines
  <1>19. FrozenStep
    BY <1>3, <1>5, <1>10, <1>11, <1>18 DEF FrozenStep, Present
  <1>20. LedgerStep
    <2>1. Stage(invoice[i]) = "issued" /\ Stage(original) = "void" /\ Stage(storno) = "void"
      BY <1>2, <1>3, <1>4, <1>5, StageValues
    <2> HIDE DEF storno
    <2>2. \A k \in Ids : Stage(invoice'[k]) = IF k \in {i, id} THEN "void" ELSE Stage(invoice[k])
      BY <1>11, <2>1
    <2>3. \A k \in Ids : invoice'[k].cancels = IF k = id THEN i ELSE invoice[k].cancels
      BY <1>3, <1>4, <1>5, <1>11
    <2>4. Ledger!Void(i, id)
      BY <1>0, <1>1, <1>10, <1>18, <2>1, <2>2, <2>3 DEF Ledger!Void
    <2> QED
      BY <2>4 DEF LedgerStep, Ledger!Next, Ledger!Ids, Ids
  <1>21. HandFits(r)'
    <2>1. req'[r] = started
      BY <1>1, <1>2 DEF TypeOK
    <2>2. req'[r].op = "store" /\ req'[r].inv = id /\ req'[r].row = WithPdf(storno)
      BY <1>6, <2>1
    <2>3. invoice'[id] = storno
      BY <1>11
    <2> HIDE DEF storno
    <2> QED
      BY <1>4, <1>7, <2>2, <2>3 DEF HandFits, Present, Changes
  <1> QED
    BY <1>16, <1>17, <1>19, <1>20, <1>21 DEF StepFits, OneAtATime

(* Every step of requests served one after the other.                      *)
LEMMA SerialStep ==
    ASSUME OneAtATime, SerialInv, [Next]_vars
    PROVE  SerialInv' /\ StepFits
  <1>1. StornoInv' /\ TypeOK'
    BY StornoNext DEF SerialInv, StornoInv
  <1>2. ASSUME NEW r \in Requests, Commit(r)
        PROVE  StepFits /\ \A q \in Requests : HandFits(q)'
    <2>1. CASE \E p \in Payers : CreateCommit(r, p) \/ PayerSave(r, p)
      BY <1>1, <2>1, CreateFits, PayerFits
    <2>2. CASE CreateRefused(r) \/ StoreFails(r) \/ EditRefused(r)
      BY <2>2, FailFits DEF CreateRefused, StoreFails, EditRefused
    <2>3. CASE MarkPaid(r) \/ UndoPaid(r)
      BY <1>1, <2>3, PayFits DEF MarkPaid, UndoPaid, Live
    <2>4. CASE DeleteCommit(r) \/ SendSave(r) \/ StoreFile(r) \/ \E i \in Ids : Cancel(r, i)
      BY <1>1, <2>4, DeleteFits, SendFits, StoreFits, CancelFits
    <2>5. CASE \/ \E l \in Lessons, s \in LessonStatus : EditSave(r, l, s)
               \/ \E l \in Lessons : EditResave(r, l) \/ LessonDelete(r, l)
      BY <2>5, EditFits, ResaveFits, LessonDeleteFits
    <2> QED
      BY <1>2, <2>1, <2>2, <2>3, <2>4, <2>5 DEF Commit
  <1>3. CASE UNCHANGED vars
    <2>1. StepFits
      BY <1>3, LessonsFlip DEF vars
    <2>2. UNCHANGED <<lesson, invoice, items, req>>
      BY <1>3 DEF vars
    <2>3. \A l : InLive(l)' <=> InLive(l)
      BY <2>2 DEF InLive
    <2>4. ASSUME NEW q \in Requests
          PROVE  HandFits(q)'
      BY <2>2, <2>3 DEF SerialInv, HandFits, Present
    <2> QED
      BY <1>1, <2>1, <2>4 DEF SerialInv, StepFits
  <1> QED
    BY <1>1, <1>2, <1>3, BeginFits, UpdaterFits DEF Next, SerialInv, StepFits

(* The empty tables are consistent, and an empty ledger.                    *)
LEMMA SerialInit ==
    ASSUME Init
    PROVE  SerialInv /\ Ledger!Init
  <1>1. StornoInv
    BY StornoInit
  <1>2. NoRow.status = "none" /\ NoRow.cancels = 0 /\ NoRow \in Row
    BY RowTypes DEF NoRow
  <1>3. \A i \in Ids : StornoOf(i) = {} /\ Lines(i) = {} /\ Stage(invoice[i]) = "absent"
    BY <1>2, StageValues DEF Init, StornoOf, Present, Lines, ItemsOf
  <1>4. LinesFit /\ CancelledFits
    BY <1>2, <1>3 DEF Init, LinesFit, CancelledFits
  <1>5. \A q \in Requests : HandFits(q)
    BY DEF Init, HandFits, Idle, Changes
  <1>6. Ledger!Init
    BY <1>2, <1>3 DEF Init, Ledger!Init, Ledger!Ids, Ids
  <1> QED
    BY <1>1, <1>4, <1>5, <1>6 DEF SerialInv

(* One request at a time, the state is always consistent.                  *)
LEMMA SerialCorrect == ASSUME OneAtATime PROVE Spec => []SerialInv
  BY SerialInit, SerialStep, PTL DEF Spec

(* Served one after the other, requests bill a lesson on at most one        *)
(* invoice that is not cancelled, counting lines of lessons deleted since.  *)
THEOREM BilledOnceCorrect == ASSUME OneAtATime PROVE Spec => []BilledOnce
  <1>1. ASSUME SerialInv
        PROVE  BilledOnce
    BY <1>1 DEF SerialInv, LinesFit, BilledOnce, Lines, ItemsOf
  <1> QED
    BY <1>1, SerialCorrect, PTL

(* An invoice is cancelled exactly if it has or is a counter-invoice.       *)
THEOREM CancelledCorrect == ASSUME OneAtATime PROVE Spec => []CancelledHasStorno
  <1>1. ASSUME SerialInv
        PROVE  CancelledHasStorno
    BY <1>1, StornoIsCancelled DEF SerialInv, CancelledFits, CancelledHasStorno, Present
  <1> QED
    BY <1>1, SerialCorrect, PTL

(* Every lesson a paid invoice points to is marked paid, whatever is done   *)
(* to other invoices.                                                      *)
THEOREM PaidCorrect == ASSUME OneAtATime PROVE Spec => []PaidInvoicePaysLessons
  <1>1. ASSUME SerialInv
        PROVE  PaidInvoicePaysLessons
    BY <1>1 DEF SerialInv, LinesFit, PaidInvoicePaysLessons, Linked, ItemsOf
  <1> QED
    BY <1>1, SerialCorrect, PTL

(* "Issued invoices can no longer be changed or deleted": no step takes an  *)
(* issued invoice away or changes its number, recipient, lines or document. *)
THEOREM FrozenCorrect == ASSUME OneAtATime PROVE Spec => IssuedFrozen
  <1>1. ASSUME SerialInv, [Next]_vars
        PROVE  [FrozenStep]_vars
    BY <1>1, SerialStep DEF StepFits
  <1> QED
    BY <1>1, SerialCorrect, PTL DEF Spec, IssuedFrozen, FrozenStep

(* Requests served one after the other implement the ledger of the feature  *)
(* document: every step drafts, discards, issues, reopens or voids as the   *)
(* ledger allows, or does not show in it.                                  *)
THEOREM LedgerImplemented == ASSUME OneAtATime PROVE Spec => LedgerSpec
  <1>1. ASSUME SerialInv, [Next]_vars
        PROVE  [Ledger!Next]_(Ledger!vars)
    BY <1>1, SerialStep DEF StepFits, LedgerStep
  <1> QED
    BY <1>1, SerialInit, SerialCorrect, PTL DEF Spec, LedgerSpec, Ledger!Spec

-----------------------------------------------------------------------------
(* The ledger itself, for any set of lessons and any bound: what the        *)
(* feature document promises keeps the invoices apart, so that whatever     *)
(* implements it does.                                                      *)
VARIABLES state, lines, cancels, last
Rules == INSTANCE InvoiceLedger

\* numbers above the last one are unused; a counter-invoice is void
LedgerInv ==
    /\ Rules!TypeOK
    /\ \A i \in Rules!Ids : i > last => state[i] = "absent" /\ lines[i] = {}
    /\ Rules!BilledOnce

(* The empty ledger bills nothing.                                          *)
LEMMA LedgerInit ==
    ASSUME MaxInvoices \in Nat, Rules!Init
    PROVE  LedgerInv
  BY DEF Rules!Init, LedgerInv, Rules!TypeOK, Rules!BilledOnce, Rules!Standing, Rules!States, Rules!Ids

(* Every change of the ledger keeps the standing invoices disjoint.         *)
LEMMA LedgerNext ==
    ASSUME MaxInvoices \in Nat, LedgerInv, [Rules!Next]_(Rules!vars)
    PROVE  LedgerInv'
  <1> USE DEF Rules!Ids
  <1>1. ASSUME NEW i \in Rules!Ids, NEW ls \in SUBSET Lessons, Rules!Draft(i, ls)
        PROVE  LedgerInv'
    <2>1. Rules!TypeOK'
      BY <1>1 DEF Rules!Draft, LedgerInv, Rules!TypeOK, Rules!States
    <2>2. (\A j \in Rules!Ids : j > last => state[j] = "absent" /\ lines[j] = {})'
      BY <1>1 DEF Rules!Draft, LedgerInv, Rules!TypeOK
    <2>3. Rules!BilledOnce'
      <3> SUFFICES ASSUME NEW j \in Rules!Ids, NEW k \in Rules!Ids,
                          Rules!Standing(j)', Rules!Standing(k)', j # k
                   PROVE  lines'[j] \cap lines'[k] = {}
        BY DEF Rules!BilledOnce
      <3>1. \A m \in Rules!Ids : m # i => (Rules!Standing(m)' <=> Rules!Standing(m)) /\ lines'[m] = lines[m]
        BY <1>1 DEF Rules!Draft, LedgerInv, Rules!TypeOK, Rules!Standing
      <3>2. lines'[i] = ls
        BY <1>1 DEF Rules!Draft, LedgerInv, Rules!TypeOK
      <3>3. \A m \in Rules!Ids : Rules!Standing(m) => lines[m] \cap ls = {}
        BY <1>1 DEF Rules!Draft
      <3> QED
        BY <3>1, <3>2, <3>3 DEF LedgerInv, Rules!BilledOnce
    <2> QED
      BY <2>1, <2>2, <2>3 DEF LedgerInv
  <1>2. ASSUME NEW i \in Rules!Ids, Rules!Discard(i) \/ Rules!Issue(i) \/ Rules!Reopen(i)
        PROVE  LedgerInv'
    <2>1. Rules!TypeOK'
      BY <1>2 DEF Rules!Discard, Rules!Issue, Rules!Reopen, LedgerInv, Rules!TypeOK, Rules!States
    <2>2. /\ last' = last
          /\ \A m \in Rules!Ids : /\ lines'[m] \subseteq lines[m]
                                  /\ Rules!Standing(m)' => Rules!Standing(m)
                                  /\ state[m] = "absent" => state'[m] = "absent"
      BY <1>2 DEF Rules!Discard, Rules!Issue, Rules!Reopen, LedgerInv, Rules!TypeOK, Rules!Standing
    <2>3. (\A j \in Rules!Ids : j > last => state[j] = "absent" /\ lines[j] = {})'
      BY <2>2 DEF LedgerInv
    <2>4. Rules!BilledOnce'
      BY <2>2 DEF LedgerInv, Rules!BilledOnce
    <2> QED
      BY <2>1, <2>3, <2>4 DEF LedgerInv
  <1>3. ASSUME NEW i \in Rules!Ids, NEW j \in Rules!Ids, Rules!Void(i, j)
        PROVE  LedgerInv'
    <2>1. Rules!TypeOK'
      BY <1>3 DEF Rules!Void, LedgerInv, Rules!TypeOK, Rules!States
    <2>2. (\A k \in Rules!Ids : k > last => state[k] = "absent" /\ lines[k] = {})'
      BY <1>3 DEF Rules!Void, LedgerInv, Rules!TypeOK
    <2>3. \A m \in Rules!Ids : Rules!Standing(m)' => Rules!Standing(m) /\ lines'[m] = lines[m]
      BY <1>3 DEF Rules!Void, LedgerInv, Rules!TypeOK, Rules!Standing
    <2>4. Rules!BilledOnce'
      BY <2>3 DEF LedgerInv, Rules!BilledOnce
    <2> QED
      BY <2>1, <2>2, <2>4 DEF LedgerInv
  <1>4. CASE UNCHANGED Rules!vars
    BY <1>4 DEF Rules!vars, LedgerInv, Rules!TypeOK, Rules!BilledOnce, Rules!Standing
  <1> QED
    BY <1>1, <1>2, <1>3, <1>4 DEF Rules!Next

(* No lesson is ever billed by two standing invoices of the ledger.          *)
THEOREM LedgerBillsOnce == ASSUME MaxInvoices \in Nat PROVE Rules!Spec => []Rules!BilledOnce
  <1>1. LedgerInv => Rules!BilledOnce
    BY DEF LedgerInv
  <1> QED
    BY <1>1, LedgerInit, LedgerNext, PTL DEF Rules!Spec

(* A voided invoice never comes back: a later number is always a fresh one.  *)
THEOREM LedgerVoidForGood == ASSUME MaxInvoices \in Nat PROVE Rules!Spec => Rules!VoidForGood
  <1>1. ASSUME LedgerInv, [Rules!Next]_(Rules!vars)
        PROVE  [\A i \in Rules!Ids : state[i] = "void" => state'[i] = "void"]_(Rules!vars)
    <2> SUFFICES ASSUME NEW i \in Rules!Ids, state[i] = "void", Rules!Next
                 PROVE  state'[i] = "void"
      BY <1>1
    <2> QED
      BY <1>1 DEF Rules!Next, Rules!Draft, Rules!Discard, Rules!Issue, Rules!Reopen, Rules!Void, LedgerInv, Rules!TypeOK, Rules!Ids
  <1> QED
    BY <1>1, LedgerInit, LedgerNext, PTL DEF Rules!Spec, Rules!VoidForGood
=============================================================================
