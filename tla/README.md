# Preceptly in TLA+

Specifications, model-checking configurations and proofs for the parts of
Preceptly (Django, PostgreSQL, Channels, one cron job, scripts in the browser) in which the order of
events decides whether the result is right. Paths are relative to
`src/backend/apps/` unless they start with `docs/`.

    tlc -workers 2 -config BillingSerial.cfg MCBilling     one of the runs below
    tlapm BillingProofs.tla                                one of the proof modules

## 1. The system

One web process (Daphne) serves the views and the WebSockets, PostgreSQL holds
the data, a cron job calls management commands. There is no `ATOMIC_REQUESTS`:
each statement of a view commits by itself unless it stands in a
`transaction.atomic()` block, and the isolation level is READ COMMITTED. Nearly
everything that is hard here follows from one habit of the code: a view reads a
row, decides on it, and writes the instance later.

| component | state it keeps | operations | talks to | hard about it | what makes it correct |
|---|---|---|---|---|---|
| **Billing** `billing/` | invoices, lines, stored PDFs, the number counter of the tutor | create, change recipient, delete, send, pay/undo, cancel, store PDF or document | writes the status of lessons | two steps per request; late full-row saves; cancelled invoices keep their lines | a lesson billed once, issued invoices frozen, numbers in order, cancellations in pairs |
| **Lessons** `lessons/` | sessions with status, series | edit, delete, status by the clock, generate a series | read by billing, calendar sync, portal, meeting | a form saves all columns twice; series edits delete and re-create | paid means billed; a series has one lesson per date |
| **Calendar sync** `calendar_sync/` | mappings session-event and event-blocked time | one cycle: push, sweep, import, prune | a CalDAV server; writes blocked times | no transaction; every call may fail; both sides are edited meanwhile | both sides agree in the end; no copy or blocked time is lost or left |
| **Meeting** `meeting/` | who is in a room, kept in the process; the peers of each browser | connect, join, relay, disconnect | channel layer, browsers | consumers interleave at each await; reloads overlap | one seat per user; all see exactly those who are there |
| **Portal** `portal/`, with `lessons/availability.py` and `lessons/recurring_service.py` | portal accounts, invitations, the archive of cancelled lessons | book, cancel, reschedule, create and end a series | writes sessions and the archive | check and write without a lock, by tutor and families; a series is written day by day | no two lessons too near each other; nothing vanishes without a trace; a series keeps to its template |
| **Stripe, referrals, revocation** `core/views_stripe.py`, `core/referrals.py`, `core/views_erecht24_revocation.py` | tier, subscription, trial, pending months, processed events | checkout, webhooks, revoke | Stripe | events twice, late, out of order; failures between two systems | premium exactly while a subscription is paid; one month per friend |
| **Accounts** `core/views_auth.py`, `core/views_account_email.py`, `core/auth_throttle.py` | users, signed tokens, counters in the cache | register, change address, throttle | e-mail | tokens used twice; a counter that expires while counted | a link works once; the limit holds |
| **Contracts, tiered pay** `contracts/` | contracts, tiers | amount of a lesson | read by billing | splitting minutes at boundaries | amounts add up, whatever the order |
| **Service worker** `core/static/sw.js` | two caches per version, the worker's own life | install, activate, fetch, push, click on a notification | the server, the browser, open windows | put after the answer; old and new worker side by side; stopped at any time | no copies of an old version; offline files whole; the newest worker takes over |
| **Page actions** `core/static/js/actions.js` | none but the page | click, submit, change, pointer | all templates | nested elements with an action each; a page without its script yet | one action per click; the right preview |
| **Prefilling** `core/static/js/*-defaults.js` | two marks and a first value per field | choose, type, rejected form | the forms of students and lessons | choices and typing in any order | own entries stay, defaults follow the choice |
| Blocked times, statistics, lesson plans, PDF, push | | forms, read-only aggregation, I/O | | little | |

`PROJECT.json` lists every component with its files and, under `hazards`, each
place in the code that is hard to test, with the property that covers it or
the planned module that will.

## 2. The modules

| module | models | composed with |
|---|---|---|
| `Billing` | every view that writes an invoice, and the lesson handlers that write what billing reads | implements `InvoiceLedger` |
| `InvoiceLedger` | the rules of `docs/features/feat-rechnungen.md`, one atomic step per change | |
| `CalendarSync` | one cycle of `sync_service.py`, the CalDAV server and both owners | |
| `Meeting` | `consumers.py` and the signalling part of `room.html` | |
| `Booking` | every way into and out of a tutor's calendar: portal, the tutor's forms, series, the clock | |
| `Subscription` | checkout, the webhook with all its event types, referral credit, and Stripe | |
| `ServiceWorker` | `sw.js` with the browser around it: releases, the network, windows, a worker stopped at any time | |
| `Actions` | `actions.js` on a page of nested elements, the preview of the week page | |
| `Prefill` | `institute-defaults.js`, `travel-defaults.js` and the forms they run in | implements `PrefillPromise` |
| `PrefillPromise` | what the two feature documents say of prefilled fields | |
| `MC...` | the small instances TLC checks | |
| `BillingProofs` (also of `InvoiceLedger`), `BookingProofs`, `MeetingProofs`, `PrefillProofs`, `ActionsProofs`, `SubscriptionProofs`, `ServiceWorkerProofs`, `CalendarSyncProofs` | theorems for all values of the constants | |

Operators marked `mutant:` in a comment are wrong variants of the definition
that follows them. They are used nowhere; `PROJECT.json` names, for each checked
property, the definition to exchange so that the property fails.

### Billing

State: `lesson` (status of each session), `invoice` (the table by primary key,
with number, recipient, the recipient a stored PDF carries, and the invoice it
cancels), `items` (the lines), `lastId`, `counter`, and `req`, what each request
under way has read.

A view is two actions. `...Begin` is the read and the view's check; the second
one (`CreateCommit`, `PayerSave`, `SendSave`, `StoreFile`, `MarkPaid`, ...) is the
service. A service runs in one transaction that locks what it re-reads, so it is
one step; what it does *not* re-read it takes from the instance in `req`. This
is the distinction the model lives on:

- `cancel_invoice` re-reads under a lock: `Cancel` has no Begin.
- `mark_invoice_as_paid`, `undo_invoice_paid`, `mark_invoice_as_sent` save some
  columns of the old instance; on a deleted row they raise.
- storing a file (`FieldFile.save`) saves the whole instance: it takes back what
  was committed since, and *inserts a deleted row again*, without its lines.
- a lesson's form is saved twice (`EditSave`, `EditResave`).

Left out: amounts, dates, texts, file contents (kept: whose name is on the PDF),
which documents exist besides the PDF, `tutor_no_show` as something that changes
(it is a constant per lesson), series edits, the admin site and the management
commands. Two tutors share nothing, so the model has one.

### InvoiceLedger

The table at `feat-rechnungen.md:16-31`: a draft can be discarded or issued, an
issued invoice can only be voided by a counter-invoice with a number of its own,
a voided one never changes. One deviation: `Reopen`, because undoing the payment
of an invoice that was never sent makes it a draft again. `Billing!Stage` maps a
row to absent, draft, issued (sent or paid) or void.

### CalendarSync

`sync` is the program counter and the locals of one cycle; `link` and `import` are
the two kinds of mapping rows; `event` is the server. Each CalDAV call and each
row written after it is one step, so `Crash`, a failed call (`...Fails`), the tutor
(`Book`, `Edit`, `Leave`, `DeleteBlocked`) and the calendar's owner (`External`)
come in between. `rev` stands for `updated_at`, `tag` for the etag. `touched` is no state
of the program: it remembers the sessions whose copy the owner changed or removed, which the
code promises to leave alone (`sync_service.py:9-12`) but does not (a finding), so that
`SessionsConverge` demands nothing of them while they are to come. Left out: the
window of 7 days back and 180 ahead, titles, the summary, a second connection (mappings are per
connection), two cycles at the same time (cron starts the next one after the
last).

### Meeting

`room` and `seat` are the class attributes of the consumer (`seat` stands for the
two de-duplication tables, which are always written together), `group` the channel
layer's group, `inbox` the events waiting for each consumer, `con` where its
handler is, `up` what its browser sent. `view` is the browser's `peers`: no tile,
waiting to be called, calling, or linked; `calls` is the rest of the loop over the
peers listed by `joined`. A section under the room's lock contains no await and
is one step; each following send is one more, and everybody else runs in
between. A lock object that is deleted and created anew therefore changes
nothing, and is not modelled. A browser that reconnects is a new connection of
the same user.

Left out: chat, whiteboard, documents, kicks, ICE candidates, rate limits, and
the end of a meeting by the tutor. The channel layer neither fails nor overflows.
What is sent to a browser arrives at once: a delay commutes with everything but
the browser's own messages, and those do wait in `up`.

### Booking

State: `lessons` by primary key (student, slot, planned or taught, the series it is
linked to), `series` (the template), `blocked`, `now`, `archive` (how often a lesson
is in `CancelledSession`), and `req`, what a request has read. The rule of
`availability.py` is `Refused`: past, outside the working hours, or `Near` a lesson
or a blocked time; the length of a lesson with its travel times and the minimum gap
is the constant `Length`. `checked` is no column: it says that the slot was
compared with the calendar when it was chosen. The tutor's own forms only report
conflicts, so what they write is not `checked`, and `NoClash` is about the rest.

A portal view is a read step and a write step (`BookBegin`/`BookCreate`,
`CancelBegin`/`CancelCommit`, `MoveBegin`/`MoveSave`, `EndBegin`/`EndCommit`). The
generation of a series looks at the calendar once (`SeriesBegin`) and then writes
day by day (`SeriesDay`), in the portal, with "Termine generieren" and for a lesson
that is repeated; the series form (`SaveSeries`) does it in one transaction. With
`Overlap = FALSE` nothing happens between the steps of one request; with `TRUE`
everything may.

`OfSeries` keeps the fallback of `recurring_utils.py`: if no lesson is linked to a
series, all the student's lessons on its weekdays are taken for its lessons.

Left out: the edit of a whole series from one of its lessons, the bulk change of
dates, biweekly and monthly series, the quota of bookings, lessons across
midnight, the cancelled and paid status.

### Subscription

One tutor. Stripe owns `status` (by subscription), `trial` and `balance`; `profile`
is what the server knows, `events` what Stripe has sent and not yet had answered with
200. `work` is one event in the hands of a worker: read (`Receive`), saved (`Save...`,
the transaction of its handler), credited (`LookUp`, `Modify`, `ResetPending`, three
calls) and answered (`Finish`). A worker may `Die` at any of them, a call may fail,
and the reply of a call that worked may be lost (`Modify`, second line); the event
then comes again. Any worker may take any event in any order, also one
that another is working on.

`mess` is a history variable that tells apart what the code is not made for: events
handled at the same time, out of the order Stripe sent them in, and two
subscriptions running at once. `PremiumFollows` assumes none of them - but any
repetition, failure and death of a worker, and that Stripe goes on between the
question and the transaction. `MonthsKept` holds with all three for what is earned, and
without overlap for what is credited.

Left out: the billing portal page, e-mail sync, mails, prices outside the whitelist,
events of somebody else's customer (refused before anything is written), and that
invoices use up the balance. A friend's own subscription is only `linked`.

### ServiceWorker, Actions, Prefill

Three scripts of the browser, each with the browser around it.

`ServiceWorker` has one browser and a server with releases, some of which bring a new
`sw.js`. A copy carries its release. What the code does not wait for is a step of its
own: the put into the cache after the answer (`puts`). `created` is the order in which
the caches were created, the one in which `caches.match` looks for a copy. The
browser stops the worker anywhere (`Stop`), which loses them, and so does the end of an old
worker when the new one takes over (`Activate`). `caches.open` creates a
cache that is not there. `"moved"` is the copy of a redirect that was followed; an error of
the server is copied like any other answer. A page calls `register()` once for each time
it is loaded: `loaded` has the pages that are open and have not done so yet.

`Actions` takes the page as constants: the path from each element to the document and
its data attributes. Each event is one step: the listener picks the nearest element
that declares an action (`Closest`) and runs it, then the browser does what was not
prevented. `MCActions` is a page made of the nestings the templates contain.
`Submit` has the question of the capturing listener: a form sent before the deferred script runs,
or by `form.submit()` on a change, goes past it.

`Prefill` has both forms in one module, because they differ only in where a field falls
back to. Whether a value may be overwritten is not stored as such: the scripts have
`touched`, `auto` and `original`. `Own` is what they amount to, and the
refinement mapping to `PrefillPromise`. That a user types before the script has
started (`institute-defaults.js:66-70`) is outside the model: the first input comes after it.

## 3. Runs and what they show

Passing runs, each with everything it checks:

| run | instance | shows |
|---|---|---|
| `billing_serial` | 2 lessons and a no-show, 2 recipients, 1 request, 3 invoices | `BilledOnce`, `CancelledHasStorno`, `PaidInvoicePaysLessons`, `IssuedFrozen`, `LedgerSpec`: one request at a time, the code keeps the rules of the feature document |
| `billing_overlap` | 1 lesson, 1 recipient, 2 requests, 2 invoices | `NumbersFollowCreation`, `StornoMirrors`: what remains true when two requests interleave at every read and write |
| `calendar_sync` | 1 session, 2 foreign events, target and two sources, 2 times, 1 edit, 2 outside changes, 1 fault | `CopiesTracked`, `SessionsConverge`, `ImportsConverge` |
| `meeting` | a tutor, a student with two connections | `RoomIsSeats`, `NobodyMissing`, `OneCaller`, `GoneLeaves`, `OpenIsIn`; no state is stuck |
| `booking` | 2 students, 2 days of 2 times, 2 lessons, 1 series, 1 blocked slot, 1 request | `NoClash`, `ArchivedIsGone`, `FollowsTemplate`, `NothingVanishes`, `EveryFreeDay`: one request after the other, in any order |
| `subscription` | 2 subscriptions, 1 friend, 2 workers, 5 events, 1 fault, 1 kind of mess at a time | `PremiumFollows`, `MonthsKept` |
| `service_worker` | 1 page, 1 file, 1 API path, 3 releases (the second with the same `sw.js`), 1 copy under way, 1 notification | `NoOldCopies`, `PrecacheWhole`, `NewestTakesOver` |
| `actions` | 18 elements, 3 forms, a dialog | `OneWay`, `PreviewFollows`; no state is stuck |
| `prefill` | 2 fields, 3 choices, 3 values | `NothingLeftOver`, `MessageTrue`, `PromiseSpec`; no state is stuck |

`TypeOK` is checked once per module, in its passing run.

Runs that end in a violation, each a disagreement of the code with what the
repository says:

| run | property | what happens |
|---|---|---|
| `billing_stranded` | `PaidLessonIsBilled` | bill, send, cancel, bill again, delete the draft: the lesson stays paid and can never be billed |
| `calendar_outage` | `PrunedWithFullPicture` | a calendar that cannot be listed loses its blocked times |
| `booking_overlap` | `NoClash` | two bookings, each checked before the other is saved, take the same time |

`findings` quotes both sides for these three, and lists the other disagreements met
while modelling; those have no run of their own, but the modules have what the code
does: an invoice paid again after its cancellation, a lesson billed twice with three
requests, a copy re-created after its owner removed it, a cycle that ends at two
sessions of the same time, tiles of people who left a meeting, single lessons
deleted with a series that has none, and others.

**Bounds.** Three invoices are the original, its cancellation and the new bill, the
longest chain the rules have; a create reserves a key so that the bound never
stops one halfway. Two lessons let two invoices overlap in part. Two requests with
two invoices contain every pair of handlers on an invoice and its cancellation;
a lesson billed twice needs three, because the edit has to commit between two creates.
With two requests and three invoices the state space is out of reach, so
`billing_overlap` claims only what two invoices can show; the theorems close that
gap for everything the run checks. In `CalendarSync` one event may be in both sources, one fault may hit any call,
and the two outside changes are an event that appears and is changed or removed; a
session that collides with another ends every cycle, which is a finding and needs two
sessions. In `Meeting` a third connection gives the overlap of old and new of
one user with a bystander; only the student closes a page by himself
(`Leavers`), the code being the same for both.
In `Booking` two lessons are what a clash, a series of two days, and a single lesson
beside a series need; two times per day and a length of two make neighbouring slots
too near, and the last slot is outside the working hours; the clock stops one slot
before the end of the week, so that lessons are over, running and to come. Five events are a whole subscription (its two first events, a
failed payment's two, its end), or two subscriptions, or one and the payments of a friend;
`MaxMess = 1` lets each kind of mess happen, but not two in one
behaviour. In `ServiceWorker` three releases give an update that
brings no new script and one that does; one copy under way at a time is enough to be late for
an activation. In `Actions` every nesting of the templates occurs once. In `Prefill` the choices are one that sets both fields,
one that sets both differently and one that leaves a field alone.
Symmetry is used for interchangeable lessons, recipients, requests, students,
subscriptions, friends, workers and the two
connections of the student, never in a run with a liveness property.

**Deadlock.** Billing, Booking and Subscription may really stop: tables, weeks and
events come to an end and nobody has to come. Their runs do not check it. The calendar job always goes on, and a meeting
may rest only when no message is under way (`Rest`): there the check is on, and
shows that no consumer is left half-way through a handler.

**Fairness.** None in `Billing` and `Booking` (a request may never come), in `Actions` and
`Prefill` (nor may a user), and in `Meeting` and `Subscription`, whose
properties speak of calm states. `ServiceWorker` has weak fairness of registering, installing
and activating. Registering is one call for each load of a page (`base.html:884-895`, on window
`load`): nobody owes the load itself, so `NewestTakesOver` assumes a page that stays open and is
loaded again and again, and a network that stays. Installing and activating the browser
does by itself. `CalendarSync` has `WF_vars(Job)`: cron starts cycle
after cycle and a cycle that is not killed goes on. Faults and changes by people are bounded
(`MaxFaults`, `MaxTag`, `MaxRev`), so the liveness properties say what
holds after the last of them, which is what the code can promise.

## 4. What is proved

All by TLAPS, for any constants that satisfy the named assumptions of the modules (each is
an `ASSUME` that TLC evaluates in a run): kinds and bounds of the constants, `None` being no
row, job or answer, and one fact about the templates (`RowsAssumption` in `Actions`). Every safety and action
property of a passing run is a theorem here, if need be (serial); what is left to TLC is named at the end.

**One request at a time.** Theorems marked (serial) carry the hypothesis that requests do not
overlap: `OneAtATime` in `BillingProofs` (there is one request), `~Overlap` in `BookingProofs`
(any number, one after the other). It is the hypothesis of the runs `billing_serial` and
`booking`, and it cannot be dropped: `booking_overlap` shows `NoClash` violated without it, and
three billing requests bill a lesson twice (see `findings`). The code does not enforce it; a
tutor who waits for each answer does. Everything unmarked holds for any interleaving.

### Billing

- `TypeCorrect`: `TypeOK` is inductive by itself. One lemma per action.
- `NumbersCorrect`: `NumbersFollowCreation` for any number of
  concurrent requests. It is not inductive: a stale save can write a row the
  table no longer has. The invariant therefore speaks of *copies*: all rows in
  the table **and** all rows in the hands of a request that will save them whole.
  Copies of one key carry one number, a greater key carries a greater number,
  and every number is below the counter. A new row is the only new number, and it takes
  the counter's; every save only moves a copy back to the table.
- `StornoCorrect`: `StornoMirrors`, also for any number of concurrent requests. `StornoInv` adds
  what protects the pair: no request that goes on to change a row holds a cancellation
  invoice (`HandKeepsStorno`), so nobody saves over one, and a row that is gone left no
  reference behind (`RowsKnown`); the original stays because of the foreign key.
- `BilledOnceCorrect`, `CancelledCorrect`, `PaidCorrect`, `FrozenCorrect` (serial). `SerialInv` is
  `StornoInv`, what lines say of the status of their lessons and invoices (`LinesFit`,
  `CancelledFits`), and `HandFits`: what a request has read is still so, up to what it is
  about to change. The cron job runs between the two steps of a request, so a lesson may be
  taught that the edit form still holds as planned; that is the one difference it allows.
- `LedgerImplemented` (serial): `LedgerSpec`, the refinement. Each step of a view or service
  is one step of the ledger or a stutter, under `Billing!Stage`.
- `LedgerBillsOnce`, `LedgerVoidForGood`: the ledger itself keeps
  what it is there for, so an implementation of it does too.

### Booking

- `BookingTyped`: `TypeOK`, however requests overlap: no lesson refers to a series that is
  gone and no key is given out twice. It needs that a lesson being moved was created
  (`MovesKnown`), since the move saves the whole row.
- `NeverClash`, `ArchiveTrue`, `TemplateHolds`, `NeverVanishes`, `FreeDaysBooked` (serial), from one
  `SerialInv`. Its heart is `Hands`, what each kind of request may rely on when it writes:
  a booking's or a move's slot is still free, a cancelled lesson is still there, the lessons
  an end of a series will drop are those still to come, and of a series under way each day
  passed has its lesson exactly if it was made or found (`Made`), each day to come is free or
  was found taken. `Gone` (an archived key was given out and its lesson is gone) keeps a later lesson out of the archive.

### Meeting

- `RoomCorrect`: `RoomIsSeats`. The strengthening is that an entry
  for de-duplication always names a connection of its own user (`SeatsOwned`);
  so what a join takes out, or a late disconnect frees, is nobody else's.
- `RoomTyped`, `CallsNeverCross`, `GoneIsOut`, `OpenIsThere`, `EveryoneSeen`: `TypeOK`, `OneCaller`,
  `GoneLeaves`, `OpenIsIn`, `NobodyMissing`, for any users, connections and messages under way, from
  one `MeetingInv`. The calm-state properties are not inductive: in a state that is not calm
  somebody is still going to put things right, and the invariant says who. An open page outside the room has
  yet to join, or another consumer or an event is about to tell it that it gave way
  (`Displaced`). Of two in the room, each has the other, is going to call him, or
  will hear of him (`AllKnown`), which survives only because `left` events name
  connections that never come back (`LeftForGood`). Calls are ordered by who joined later
  (`CallsOrdered`), so no two cross. `Life` ties the handler, the browser and the queue
  between them together: the join is the first message and the close the last.

### Subscription

- `SubscriptionTypes`: types need that a worker saves a month only for a friend
  whose account is known (`KnownFriends`).
- `MonthsNeverLost`: `MonthsKept` needs `Earned`, one month for each granted friend, under
  every interleaving; and, while no two events were handled at once, `Alone` (one worker at most has an
  event) and `Kept`: between the credit and the reset the months are in the balance
  *and* still pending, so the sum counts only while nobody is to reset them, and who is about to
  credit has the pending months and the balance as they are now.
- `PremiumRight`: `PremiumFollows`. It speaks of the state in which every event is handled, so the
  invariant `Following` says what the pending ones still amount to. They are a queue by their
  numbers. Its last change or end says how the subscription at Stripe stands (`Newest`);
  between the news of two subscriptions is the end of the first (`Chain`), and a
  subscription in the queue or in the profile runs, or its end is in the queue (`Alive`, `Known`).
  What a worker has read is still so unless such news is pending (`AllRead`). From these
  `Agrees` follows step by step: once no change or end is pending that was not saved, the profile is right. Note what carries
  it: a late `completed` finds the live status, and a `deleted` that is not about the subscription
  in the profile is skipped only when the profile has none. (TLC checked `Following`
  with 7 events before the proof.)

### Scripts of the browser

- `PrefillProofs!NeverLeftOver`, `KeepsPromise`: neither is inductive, because what a script may
  overwrite depends on its marks.
  The invariant `Marks` says what they mean: a field without `auto` shows what the page
  was loaded with, one with it shows what the present choice sets. From it every step of the scripts maps to one step of
  `PrefillPromise`, so the refinement holds for any forms. `WellTyped` and `MessageNeverLies`
  (`MessageTrue`) come from the same invariant.
- `ActionsProofs!AlwaysFollows` (`PreviewFollows`), `PageTyped`, `NeverTwoWays` (`OneWay`), for any
  page. The last needs `RowsAssumption` (a link inside a row that is a link leads to the same
  page), which was read off the templates; the theorem says that nothing else about a page matters.
- `ServiceWorkerProofs!OldCopiesGo`, `FilesTogether`, from `ServiceWorkerAssumption`, among it that
  scripts only get newer and that `/` is not under `/static/`. The invariant
  speaks of the copies in *all* caches and of those on their way: each is at least as new as the
  script that names its cache, which is not older than the active one; and only files under
  `/static/` are on their way to a cache for static files, so `/` comes there by the installation alone.
- `ServiceWorkerProofs!WorkerTyped`: `TypeOK`. A worker comes exactly while one is being installed
  (`Stages`), so only caches of real scripts are opened, and opening the last or deleting some keeps
  the caches in one order (`Order`). That order is a relation and not a sequence because what is left of
  a sequence after a deletion is defined by recursion, about which nothing can be proved here.

### CalendarSync

- `CalendarTypes`, `NoCopyLost` (from `CalendarAssumption`), for any number of
  sessions - TLC has one - and also if one calendar is target and source at once. While nothing failed,
  a copy is in the target only, and mapped or just written (`Tracked`); no session's mapping names
  the copy of another, and no copy is mapped as a blocked time (`Own`); for that, what the
  import has in hand is mapped to its session until the end of the cycle (`Listed`), so the unique
  constraint refuses it.

### Only model-checked

`SessionsConverge`, `ImportsConverge` and `NewestTakesOver` are liveness properties, which are outside
what the prover handles, as is `ENABLED`; so is the absence of deadlock. The three
violated properties are shown by counterexamples.

## 5. Plan

1. Proofs: what remains of the properties of `Booking` and `Billing` if requests overlap,
   beyond types, numbers and cancellations, and which locks would make the serial
   theorems hold without their hypothesis.
2. `Booking`: the edit of a whole series from a lesson; its link to `Billing` (a series
   edit deletes lessons that are billed).
3. `Tokens`: single use of confirmation, invitation and revocation links; the throttle counter.
4. `TieredPay`: `calculate_tiered_amount` against summing minute by minute.
5. The end of a meeting in `Meeting`.

## 6. Not modelled

Templates and styling, statistics and dashboards (read-only), AI lesson plans (one call,
one row), PDF layout, e-mail and push delivery, translations, migrations,
blocked-time forms, contract and student forms, the admin site and the operator
commands. They keep no protocol state, or are I/O whose outcome the models
leave open where it matters (a PDF may fail to be written). `pdfjs` is vendored.
Tokens, revocation and tiered pay do have state or arithmetic worth a model; they are
in the plan, and their hazards are listed without a property.
