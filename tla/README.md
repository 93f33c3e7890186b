# Specifications of 0xRenting

TLA+ models of the backend in `src/` (FastAPI, SQLAlchemy async sessions,
PostgreSQL, Redis), the TLC configurations that check them, and TLAPS proofs of
their main theorems.

What makes this program hard to test is not in any one handler. Every request
runs in its own READ COMMITTED transaction, reads rows without a lock, decides
in Python, and writes by primary key some awaits later. Two or three such
requests, a webhook that arrives twice or early, or a cache that is a little
older than the row behind it, is where it can go wrong. The models keep all of
the control (every check, lock, write, commit and rollback, in the order of the
code) and reduce the data to what the properties tell apart.

## The system and its components

`router.py` of each domain parses a request, resolves guards
(`app/permissions/guards.py`) and a database session (`app/db/session.py`), and
calls a service method, which calls repository methods that flush. `get_db()`
alone commits, after the handler returned, or rolls back when it raised. The
payment webhook also commits explicitly, before it answers.

| Component | State | Operations that change it | What makes it correct | Status |
|---|---|---|---|---|
| bookings | `agent_availability`, `bookings` (no foreign key between them) | create and delete slot; create, confirm, reject, cancel booking | one live booking per booked slot and the reverse; the pending limit; every request ends | `Bookings`, `BookingCalendar` |
| payments | `payments` | initialize, webhook | one subscription per paid payment, none otherwise; success is final; money received is granted | `Payments`, `PaymentLedger` |
| subscriptions, gate | `subscriptions`, a Redis key per user | grant (by a payment), cancel; cache hit, query, cache warmup | nobody is let in without a paid period, up to the staleness of the cache | `Access` |
| properties | `properties` | create, update, submit, approve, reject, revert, publish, reserve, rent, sell, archive | what the public sees was approved; search and page agree | `Listings`, `ListingReview` |
| database session | one transaction per request | commit, rollback | all or nothing per request | part of each module |
| media | `property_images` (and assets, tours) | attach, reorder, delete image; upload; add and delete tour | at most one primary image, and one if there is any image; the image limit; every request ends | `Media` (images), `Gallery` |
| messaging | `conversations`, participants with read marks, `messages` | start, send, open a page | one conversation per pair and listing; unread messages stay unread; paging shows all | `Messaging` |
| authentication | `users`, refresh tokens (JWTs, not stored), a Redis blacklist, the browser's cookie | register, login, refresh, logout | one account per address; a revoked token stays revoked and has one successor; the browser keeps a token that works | `Sessions` |
| kyc | documents, reviews, `users.kyc_status` | submit, provider webhook, admin override | the administrator's decision is final | cannot be imported at this commit (`KycStatus.PENDING` does not exist), not modelled |
| notifications, reviews, users | single rows | single-row writes | little beyond a constraint | not modelled |
| admin, analytics, consent, reports, search | tables only | none | | not modelled |
| tasks, integrations, websocket, middleware | empty files | none | | external where used |

Interactions: a paid webhook inserts a subscription in the same transaction
(`payments/service.py:190`); the gate reads subscriptions and caches its answer
in Redis, which only `subscriptions/service.py:92` invalidates; bookings copy
`property_id` and `visit_time` from a slot and find the slot again by those two
columns. Bookings do not ask for the listing's status, so the `Listings` and
`Bookings` models share no state.

Hard behaviours, listed line by line under `hazards` in PROJECT.json: lost
updates between unlocked check and write, freeing a slot by match, lock waits
and deadlocks, webhooks that are duplicated, reordered, early or cut off by a
crash, answers cached across a change, edits that overtake a review, two
refreshes with one token, answers that reach a browser out of order, and
messages that become visible later than newer ones.

## Modules

### Bookings

Rows: `slotState` (row and `is_booked` of `agent_availability`), `status` and
`visit` (the slot whose property and time a booking copied). `txn` holds, per
request, the locals of its handler, the slots it has locked among them; who
holds a booking's row follows from how far each handler has come. A handler is
its unlocked check (`StartCreate`, `StartTransition`, `StartDelete`), the
statements that wait for row locks (`LockSlot`, `UpdateStatus`, `MatchSlots`,
`LockRow`, `DeleteRow`), and its commit. `Abort` is a rollback at any point. A
write happens in the commit step, since no other transaction sees it before and
the row stays locked until then.

`_free_slot_for_booking` is three steps. `MatchSlots` takes the snapshot of the
`SELECT ... FOR UPDATE`; `LockRow` locks one matched row more, in any order,
for the query has no ORDER BY; `OneOrNone` tests the locked rows again and is
`scalar_one_or_none()`. Two such requests whose slots are alike can each hold
one and wait for the other, so `BreakDeadlock` (external, PostgreSQL's
detector) is needed here too. `DeadlockTakesTwins` says that this is the only
way to deadlock.

`lostUpdate` is a history variable: it becomes true when a transaction commits
a status change or a delete although the row it overwrote, when it got the
lock, no longer passed the check it had made. `TablesAgreeUnlessLostUpdate`
says that this one weakness is the only way in which the two tables can come
apart: not the lock of create, not freeing by match, not rollbacks.

`BookingCalendar` is the abstract specification: what agents and renters see,
with every request done at once. `Book`, `Reject` and `Cancel` change both
tables in one step. Its one action that breaks the rules is `Overwrite`, which
raises `upset` (refined by `lostUpdate`) and is bounded: it changes one booking,
and frees no slot that is not at the booking's property and hour.
`ImplementsCalendar` is the refinement.

### Payments and PaymentLedger

`PaymentLedger` is the abstract specification: a payment is opened, refused or
settled, it is settled only if paid, and settling grants one period. `Payments`
has the checkout in the order of its effects (insert, Paystack call, answer,
commit), Paystack (external: it charges, and repeats each event until the 200),
and the webhook handler under `FOR UPDATE`. The refinement is by the variables
of the same names, with everything in flight hidden: the property
`ImplementsLedger`, and the theorem `Implementation`.

The commit comes after the answer because that is what the pinned FastAPI
(`uv.lock`) does with a `yield` dependency. `missed` is a history variable.
`subscription_type` is written by checkout from the two plan names, so the
branch for an invalid plan (`service.py:178-188`) cannot be taken. Paystack's
client module is an empty file at this commit; its behaviour is modelled from
its use.

### Access

The gate of one user, on top of `PaymentLedger`: settling a payment there
inserts a subscription here. `cacheUntil` is the life of the Redis key. A gate
is a cache hit, or a query and later a `setex`; between the two anything may
happen. Every Redis call may fail. `RedisDelay` bounds the time from the query
to the end of the `setex`, retries included: `socket_timeout` in
`redis_client.py` makes it finite. This is an assumption about the clock and
the network, and the bound of the property mentions it.

### Listings

`status` (`approval_status`), `content` (a version number), `expiry`. Handlers
are check, flushed UPDATE (which takes the row lock) and commit; `From` and `To`
are the tables of the state machine as the service implements it. An edit writes
content columns and a transition writes the status, for SQLAlchemy updates
changed columns only. An edit of nothing but the features
(`properties/repository.py:225-226`, `250-264`) updates no row of `properties`,
so it takes no row lock that others wait for: what comes of it is what comes of
an edit whose `Update` is late, just before its `CommitEdit` or before another
handler's `Update`, and that is how it is modelled. `approved` and `lostUpdate`
are history variables. `SUSPENDED`, and the way back from RESERVED to PUBLISHED,
are in the docstring of `ApprovalStatus` but in no code.

`ListingReview` is the abstract specification: the review workflow with every
request done at once. Content is edited in DRAFT and REJECTED only, `Approve`
approves the content as it is, and `Workflow` is the table of the other moves.
An `Overwrite` raises `upset` (refined by `lostUpdate`) and changes the status
or the content of one listing, never both.

### Media

The images of one listing: `row`, `primary` (the rows with `is_primary`) and
`order`. Handlers are cut at their statements, as in `Bookings`, but a handler
here holds several row locks, which are in its locals. `Clear` and `Cleared` are
one `UPDATE ... WHERE is_primary`: it finds its rows in a snapshot, waits for
them, and changes those that still match. `Mark` is the entry in
`uq_property_primary_image`: it waits for every transaction that could still
change which row is primary, and raises if one remains (`Taken`). `Promote` and
`Move` are SQLAlchemy's UPDATEs by primary key: a row that is gone raises
`StaleDataError`. A reorder is one batch of them, for which psycopg 3 reports
the rows matched when all of it was executed: the handler goes on to lock the
rows that follow one that is gone (`flag` notes it), and `get_db()` rolls all of
it back at the end.

No order of locks is common to the handlers, so they can wait in a circle.
`WaitsFor` is that relation, and `BreakDeadlock` is PostgreSQL's detector, the
one external action. `overtaken` is a history variable like `lostUpdate`: a
handler committed although the gallery it had counted or listed, or the flag it
had read, was another by then. `PrimaryUnlessOvertaken` says that a gallery
loses its primary image in no other way. `DeadlockMovesPrimary` says which
handlers can deadlock: reorders lock their rows in the order of the keys
(`ByKey`, SQLAlchemy sorts a flush), so a circle needs an attach or a delete
that moves the primary flag.

`Gallery` is the abstract specification: what visitors see, with every request
done at once; `Gallery!Reorder` puts every image of the list in its place.
Stating it showed two things that no property had asked for. Two reorders that
overlap can mix their orders, for each writes the rows it found out of place and
no others, and a reorder leaves out an image whose attach commits meanwhile.
Such a commit raises the history variable `mixed`, and `Gallery!Mixed` lets it
move any of the images; any other is a whole `Gallery!Reorder`. And a delete may
promote an image that a reorder, after the delete had listed the rest, took away
from the first place: `Gallery!Delete` promotes any.

### Sessions

One user's account and chain of refresh tokens. `expires` and `parent` are what
is in a token, `blacklist` is Redis, `cookie` the browser. The check of the
blacklist and the blacklisting are two steps, each of which Redis may fail
while the handler goes on, as it does. Answers are steps of their own: they
change the cookie, arrive in any order, and may be lost (`Fail`). Registration
answers before `get_db()` commits, so it is `AnswerRegister` and then
`CommitRegister`, which may not come. The history variables `lapsed` (Redis
failed for the token), `overlapped` (it was blacklisted under an accepted
refresh) and `lost` (an answer did not arrive) name the only ways in which the
rotation can go wrong. `RevokedIsRejected` is the comment of `refresh_token()`
taken at its word, as a property of steps: once a token is revoked, nobody who
presents it gets past the check.

### Messaging

The conversations of one renter and one agent about one listing. `created_at`
is PostgreSQL's `now()`, the start of the sender's transaction, so a message
can commit after a newer one; the read mark is the time at which its reader's
handler set it. A client pages backwards with the cursor of the last page
(`OpenConversation`, `NextPage`), and each page sets its read mark
(`MarkRead`, `CommitRead`). `Pages` leaves the order of ties open, as
`ORDER BY created_at DESC LIMIT` does. Once there are two conversations,
`scalar_one_or_none()` raises at every further first message: `FindConversation`
is then disabled for ever and the request can only `Fail`. The history variable
`together` says that two first messages were sent without seeing each other;
`opened` and `raced` say which messages their recipient can have seen.

### Map of files

`X.tla` is the specification, `MCX.tla` with its `.cfg` files the instances for
TLC, `XProofs.tla` the theorems. `PaymentLedger.tla`, `BookingCalendar.tla`,
`ListingReview.tla` and `Gallery.tla` are the abstract specifications.
`Counting.tla` has the two lemmas on finite sets that the proof modules share.
In the specifications, an operator that stands directly before another and
carries a comment about a mistake (`KeepBooked` before `Freed`) is a faulty
variant of it: each property of a passing run is seen to fail when that variant
is put in.

## Runs

| Run | Bounds | Checks |
|---|---|---|
| `bookings` | 2 requests, 2 slots at different hours, 3 bookings of one renter, limit 1, clock 0..1 | `TypeOK`, `TablesAgreeUnlessLostUpdate`, `PendingOvershootBounded`, `BookingTakesOpenSlot`, `ImplementsCalendar` |
| `bookings_twins` | 2 requests, 2 slots at the same hour, 2 bookings | `TablesAgreeUnlessLostUpdate`, `DeadlockTakesTwins`, `EveryRequestEnds` |
| `bookings_race` | as above | violates `NoDoubleBooking` |
| `bookings_stuck` | as above | violates `CancelGetsThrough` |
| `payments` | 1 payment, 2 deliveries at once, 4 kinds of event | `TypeOK`, `GrantedOnceIffSuccessful`, `SuccessfulOnlyIfPaid`, `SuccessfulIsFinal`, `PaidIsNotForgotten`, `ImplementsLedger`, `PaidIsGranted` |
| `payments_race` | the same | violates `MatchedFromTheStart` |
| `access` | 2 payments, 2 requests, period 2, key life 2, delay 1, clock 0..6 | `TypeOK`, `AdmittedWhilePaid` |
| `listings` | 1 listing, 3 requests, 2 edits | `TypeOK`, `SearchMatchesPage`, `ApprovedContentUnlessLostUpdate`, `ImplementsReview` |
| `listings_review` | 1 listing, 2 requests, 1 edit | violates `PublicIsApproved` |
| `media` | 2 requests, 3 images attached at one position, limit 1, two orders: the last key first, the others by key or against it | `TypeOK`, `AtMostOnePrimary`, `PrimaryUnlessOvertaken`, `ImagesOvershootBounded`, `DeadlockMovesPrimary`, `ImplementsGallery`, `EveryRequestEnds` |
| `sessions` | 2 requests, 3 refresh tokens, life 2, clock 0..2 | `TypeOK`, `AtMostOneAccount`, `RevokedStaysRevoked`, `OneSuccessorUnlessOverlap`, `CookieWorks`, `RevokedIsRejected` |
| `messaging` | 2 clients, 2 messages, 2 conversations, pages of 1 or 2, clock 1..3 | `TypeOK`, `OneConversationUnlessTogether`, `UnopenedStaysUnread`, `PagesComplete` |

Why these bounds. Every conflict in the code is between two transactions; three
bookings let one be made of a slot that another just freed while a third is
pending, and the clock lets a slot start while a request waits for it. A limit
of one is reached by two requests. Payments share no rows, so one payment with
two overlapping deliveries shows all that a payment can meet, and the events
repeat without bound. In `access` the clock runs past the end of a period that
was bought late, and of a key set late in it. Listings share no rows either;
three requests are an edit, a submission and a review at once. Images of one
position let promotion choose freely, a limit of one is exceeded by two attaches
(then a delete has another image to promote), a reorder meets a delete that
locks the rows the other way, which deadlocks, and two reorders meet that move
the same two rows in opposite orders, which does not deadlock but may mix them.
A delete takes an image from under a reorder of two. By hand, once: the
invariants with four images under a limit of two, and with three requests. Two
refreshes of one token, or a refresh and a logout, are the conflicts of
`sessions`; three tokens are a chain with a fork, and the clock reaches the end
of the first of them, and of a key set at once. Two messages, one of them late,
and two pages of one are where paging and read marks can go wrong in
`messaging`; larger instances (three messages) were run once by hand and pass
too. The proofs cover the safety properties for all other sizes.

`MaxTime` and `MaxEdits` bound counters that grow for ever in the program.
Primary keys are used once, so the set of ids bounds the number of inserts:
where they run out the system stops, and those configurations switch the
deadlock check off. Symmetry is used in safety runs only.

### What the violations show

- `bookings_race`: the agent's confirm reads PENDING, the renter's cancel
  commits and frees the slot, the confirm overwrites CANCELLED with CONFIRMED.
  A second booking then takes the slot. `FOR UPDATE` in create_booking
  serialises creates; no lock serialises transitions.
- `bookings_stuck`: two slots of one property at one hour are both booked;
  neither booking can be cancelled or rejected any more, for
  `scalar_one_or_none()` raises.
- `payments_race`: the webhook arrives before the commit of the checkout (or
  after that commit failed); it is acknowledged, and the money is never matched.
- `listings_review`: an edit that read DRAFT commits after submission and
  approval, and unreviewed content is public.

## Fairness

`Bookings!FairSpec` and the first conjunct of `Payments!Fairness` give every
handler strong fairness: the event loop runs a handler that can run, and
PostgreSQL queues those that wait for a row, so one that is woken again and
again gets the lock in the end. No client is assumed to send anything.
Both that and `Media!FairSpec`, which is the same, add weak fairness of
`BreakDeadlock`: PostgreSQL looks for a circle of waiters after
`deadlock_timeout` and ends one of them.
`Sessions` and `Messaging` state no liveness property and assume no fairness:
none of their handlers waits for more than a competing INSERT.
`Payments!Fairness` also assumes what Paystack promises: an event that is not
acknowledged is delivered again and again. Last, it assumes that deliveries do
not fail for ever; without that no number of retries could help.

## Proofs

All proofs hold for every value of the constants, under the assumptions named
in the modules (`SlotsAssumption`, `BookingsAssumption`, `BoundsAssumption`,
`EventsAssumption`, `TimesAssumption`, `PaymentsAssumption`,
`ListingsAssumption`, `ImagesAssumption`, `LimitAssumption`,
`TokensAssumption`, `NamesAssumption`, `LimitsAssumption`): keys name rows, "no
row" names none, bounds and limits are natural numbers, a period, a token's life
and a page are not empty. Where something is counted the requests or messages
are finitely many (`RequestsAssumption`, `FiniteAssumption`).

Each proof module states an inductive invariant `IInv`, proves it for the
initial states and, by one lemma per action, for every step, and derives the
theorems from `Invariance`.

In the history variables the safety theorems name the ways in which the code
can go wrong. The theorems of the form `Spec /\ []NoOverlap => []P` say the
rest: as long as the named requests do not overlap, nothing goes wrong at all.
Each has a lemma that without the overlap the history variable stays as it was
(in `Bookings`, `Listings` and `Media` because no handler is ever stale,
`NothingStale`, which is inductive under `[]NoOverlap`); then the invariant
holds without its condition.

- `BookingsProofs`. That the tables agree is not inductive: a commit frees the
  slot its handler has selected, whatever that is. `IInv` adds what row locks
  preserve between statements: a lock has one holder (`LocksExclusive`); what
  was found under it holds until the commit (`LockedStays`); and a reject or
  cancel that was not overtaken has locked exactly the slot its booking was
  made of (`EndsOwnSlot`), though it looked for it by property and hour; and
  that, stale or not, it frees a slot like its booking's (`KnowsSlots`), without
  which an overwrite could not be bounded.
  `BoundInv` counts the bookings pending or being created: a create that starts
  has seen fewer than the limit, and any other step only removes from the set
  (`NoNewPending`). `DeadlockTakesTwinsProved` follows who can wait for whom:
  a create or delete that waits holds nothing, who holds a booking and waits
  does so for a slot, and who holds a slot and waits is torn between two; the
  one it waits for holds a slot and waits as well, so there are two of them.
  Theorems: `TypeCorrect`, `TablesAgreeProved`, `BookingTakesOpenSlotProved`,
  `PendingOvershootBoundedProved`, `DeadlockTakesTwinsProved`,
  `ImplementsCalendarProved`, `AgreeWithoutOverlap`.
- `PaymentsProofs`. `IInv` adds that at most one handler is between its
  decision and its commit for each payment, so the decision fits the row, and
  that an event of a full payment implies the money. Theorems: `TypeCorrect`,
  `GrantedOnceProved`, `SuccessfulOnlyIfPaidProved`, `SuccessfulIsFinalProved`,
  `PaidIsNotForgottenProved` (the safety half of `PaidIsGranted`: Paystack still
  has the event to send), `Implementation`.
- `AccessProofs`. `IInv` adds that the life of the key, and every query under
  way, is covered by some period that was paid. Theorems: `TypeCorrect`,
  `AdmittedWhilePaidProved`.
- `ListingsProofs`. `IInv` adds that a row has one writer, and that a writer
  that was not overtaken when it locked the row is not at its commit. `SeenOnce`
  adds that the version an approval read was once the listing's. Without overlap
  two edits may still overlap each other: neither makes the other stale.
  Theorems: `TypeCorrect`, `SearchMatchesPageProved`, `ApprovedContentProved`,
  `ImplementsReviewProved`, `PublicIsApprovedAlone`.
- `MediaProofs`. Which rows are primary says nothing of a handler that has
  cleared one flag and not set the other yet. `IInv` adds that a held row is
  nobody else's and still there, that one handler at most has an uncommitted
  index entry, and that it has cleared every other primary row (`OneMarking`,
  `MarkedAlone`); that a delete which promotes nothing had nothing to promote,
  or was overtaken; and that a reorder ready to commit holds every row that it
  found out of place (`ReorderOK`), so that one row gone takes all of it back
  and an unmarked one is whole. `Asked` adds that what a handler asked for is
  something a client may ask. `DeadlockMovesPrimaryProved`: if nobody in a
  circle moved the flag, everyone waited for would be a reorder; of the rows
  that these reorders lock next take the largest (`LargestOfFinite`); its
  holder, which locks rows in order, has a still larger one to lock. Theorems:
  `TypeCorrect`, `AtMostOnePrimaryProved`, `PrimaryUnlessOvertakenProved`,
  `ImagesOvershootBoundedProved`, `DeadlockMovesPrimaryProved`,
  `ImplementsGalleryProved`, `ExactlyOnePrimaryAlone`, `WholeReordersAlone` (a
  reorder that overlaps no other and no attach is whole or rolled back, whatever
  deletes run with it).
- `SessionsProofs`. `IInv` adds that a token presented was minted, one to be
  minted was not and is one handler's alone, and one on its way to the browser
  is known to nobody else. Theorems: `TypeCorrect`, `AtMostOneAccountProved`,
  `RevokedStaysRevokedProved`, `RevokedIsRejectedProved`, `OneSuccessorProved`,
  `CookieWorksProved`, `RotationAlone`.
- `MessagingProofs`. `IInv` adds what a reader's pages leave to be shown, that
  creates in flight and committed conversations are one unless two first
  messages met, and that a message under way is newer than the read mark it
  will meet, or is recorded as raced. Theorems: `TypeCorrect`,
  `OneConversationProved`, `UnopenedStaysUnreadProved`, `PagesCompleteProved`,
  `OneConversationAlone`, `UnopenedIsUnreadAlone`.

Four theorems are refinements (`Implementation`, `ImplementsCalendarProved`,
`ImplementsReviewProved`, `ImplementsGalleryProved`): the specification
instantiates the abstract one by name (`INSTANCE ... WITH`), and every step is
shown to be a step of it or a stutter. The only steps that are not a stutter are
commits (and Paystack's charge), each with a lemma of its own that uses `IInv`:
what the handler had decided still fits the row, or is marked. `Access`
instantiates the ledger too and uses its actions.

Only model-checked: the liveness properties `EveryRequestEnds` (of `Bookings`
and of `Media`) and `PaidIsGranted`, which are out of the prover's reach. Every
other property of a passing run is also a theorem.

## Not modelled, and why

- Listing, paging and reading endpoints other than the message history: they
  change nothing.
- Ownership and role checks: they compare columns that no code changes; a
  request in the models is one that passes them. The KYC guard reads a status
  that no reachable code changes, and no code sets `is_suspended`.
- kyc: `service.py` cannot be imported (lines 53-57 name `KycStatus.PENDING`,
  which `users/models.py:105` does not define), and its router is empty.
- reviews: the router is not mounted, and a review needs a COMPLETED booking,
  which no code makes.
- notifications: no component calls `create()`, so the table stays empty; the
  settings are columns of one user, changed by that user.
- users: single-row updates of the caller's own row.
- admin, analytics, consent, reports, search: tables without a service; consent
  rows are written once, with the account.
- Upload: `integrations/storage/manager.py` is empty, so `upload_file` cannot
  run; the processing task does not exist. Virtual tours are rows that no other
  operation reads.
- Images against the status of their listing: media changes images whatever the
  status is, and the two share no state.
- Password reset and OAuth: no endpoint. Access tokens: stateless, half an hour,
  never revoked.
- Completion of bookings, expiry of listings and subscriptions: only their
  docstrings exist, the task files are empty. The models let time pass and show
  what the system does without them.
- Database failures other than a rollback. Redis is a key with a life; each call
  may fail, and a Redis that restarts without its last writes looks like a call
  that failed. Clocks of application, database and Redis agree: the code states
  no bound on their difference.
- An early renewal starts at once, since `handle_webhook` passes no
  `current_active_sub` to `create_from_payment` (`subscriptions/models.py:339`
  describes stacking). `Access` models the code as it is; no property is about
  it.

## What is left

Everything above that can run is modelled. What would be worth adding when the
code grows: notifications, once something creates them; the review and KYC state
machines, once they can be reached; the Celery tasks that complete bookings and
expire listings and subscriptions; and search paging by OFFSET over listings
that are published and archived meanwhile, which runs today and has no property
here.
