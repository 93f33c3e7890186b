------------------------------ MODULE Bookings ------------------------------
(***************************************************************************)
(* Viewing slots and the bookings made of them:                            *)
(* app/domains/bookings/{service,repository,models,router}.py.             *)
(*                                                                         *)
(* Two PostgreSQL tables, agent_availability and bookings, that no foreign *)
(* key ties together.  Every HTTP request runs its handler inside one      *)
(* READ COMMITTED transaction, which get_db() (app/db/session.py) commits  *)
(* when the handler returns and rolls back when it raises.  Requests       *)
(* interleave at every database round trip, so a handler is modelled as    *)
(* its check, the statements that take row locks, and its commit.          *)
(*                                                                         *)
(*  - A plain SELECT sees committed rows only and locks nothing.           *)
(*  - SELECT ... FOR UPDATE, UPDATE and DELETE wait for the row's lock,    *)
(*    then see its newest committed version, and hold the lock to the end. *)
(*  - What a transaction wrote becomes visible at its commit.  Since a     *)
(*    written row stays locked until then, the write itself is placed in   *)
(*    the commit step.                                                     *)
(*                                                                         *)
(* A request that fails its first, unlocked, check ends there having read  *)
(* one row: it is not a step.  The ownership joins (agent owns the         *)
(* property, renter owns the booking) compare columns no code updates, so  *)
(* a request is always one of the owner: anyone else's is such a failure.  *)
(***************************************************************************)
EXTENDS Naturals, FiniteSets

CONSTANTS
    Requests,       \* request handlers that may be in flight together
    SlotIds,        \* primary keys that agents' create_slot calls may insert
    BookingIds,     \* primary keys that renters' create_booking calls may insert
    Renters,
    Properties,
    SlotProperty,   \* slot id -> the property_id it is created with
    SlotStart,      \* slot id -> the slot_start it is created with
    BookingRenter,  \* booking id -> the renter whose request inserts it
    MaxPending,     \* MAX_PENDING_BOOKINGS_PER_USER
    MaxTime,        \* bound on the clock
    NoSlot,         \* "no row" in a column or local that names a slot
    NoBooking

ASSUME SlotsAssumption ==
    /\ SlotProperty \in [SlotIds -> Properties]
    /\ SlotStart \in [SlotIds -> Nat]
    /\ NoSlot \notin SlotIds

ASSUME BookingsAssumption ==
    /\ BookingRenter \in [BookingIds -> Renters]
    /\ NoBooking \notin BookingIds

ASSUME BoundsAssumption == MaxPending \in Nat /\ MaxTime \in Nat

ASSUME RequestsAssumption == IsFiniteSet(Requests) /\ Requests # {}

VARIABLES
    slotState,   \* agent_availability: is the row there, and its is_booked
    status,      \* bookings.status; "absent" before the INSERT commits
    visit,       \* the slot a booking copied property_id and visit_time from
    txn,         \* the request each handler is serving, and its local state
    now,         \* the clock of slot.is_available
    lostUpdate   \* history: a commit applied a decision taken on a stale row

vars == <<slotState, status, visit, txn, now, lostUpdate>>

(***************************************************************************)
(* Rows and requests.                                                      *)
(***************************************************************************)

SlotStates == {"absent", "open", "booked", "deleted"}

\* BookingStatus.  COMPLETED is left to a Celery task that the repository
\* only names: no code sets it, so no booking here reaches it.
Statuses == {"absent", "PENDING", "CONFIRMED", "REJECTED", "CANCELLED"}

Live(b) == status[b] \in {"PENDING", "CONFIRMED"}

Transitions == {"confirm", "reject", "cancel"}
Ending      == {"reject", "cancel"}
Ops         == Transitions \cup {"none", "create", "delete"}
Steps       == {"idle", "checked", "updated", "matched", "locked"}

\* A handler's locals.  `slot` is the row create_booking or delete_slot was
\* asked for, or the one _free_slot_for_booking selected; `found` is what its
\* SELECT matched; `locks` are the slots whose rows it has locked; `stale` says
\* the row it overwrites no longer passes the check it made.
Request == [op : Ops, step : Steps, booking : BookingIds \cup {NoBooking},
            slot : SlotIds \cup {NoSlot}, found : SUBSET SlotIds,
            locks : SUBSET SlotIds, stale : BOOLEAN]

Idle == [op |-> "none", step |-> "idle", booking |-> NoBooking,
         slot |-> NoSlot, found |-> {}, locks |-> {}, stale |-> FALSE]

TypeOK ==
    /\ slotState \in [SlotIds -> SlotStates]
    /\ status \in [BookingIds -> Statuses]
    /\ visit \in [BookingIds -> SlotIds \cup {NoSlot}]
    /\ \A b \in BookingIds : status[b] # "absent" => visit[b] \in SlotIds
    /\ txn \in [Requests -> Request]
    /\ now \in 0 .. MaxTime
    /\ lostUpdate \in BOOLEAN

Init ==
    /\ slotState = [s \in SlotIds |-> "absent"]
    /\ status = [b \in BookingIds |-> "absent"]
    /\ visit = [b \in BookingIds |-> NoSlot]
    /\ txn = [r \in Requests |-> Idle]
    /\ now = 0
    /\ lostUpdate = FALSE

(***************************************************************************)
(* Row locks.  That on a booking follows from how far its holder has gone. *)
(***************************************************************************)

\* A read that locks the row too, as SELECT ... FOR SHARE does.
SharedOnRead(r, b) == txn[r].booking = b /\ txn[r].op \in Transitions

HoldsBooking(r, b) ==
    /\ txn[r].booking = b
    /\ txn[r].op \in Transitions
    /\ txn[r].step \in {"updated", "matched", "locked"}

HoldsSlot(r, s) == s \in txn[r].locks

BookingFree(b) == \A r \in Requests : ~HoldsBooking(r, b)

\* The row lock that FOR UPDATE, UPDATE and DELETE wait for.
SlotFree(s) == \A r \in Requests : ~HoldsSlot(r, s)

(***************************************************************************)
(* Requests.                                                               *)
(***************************************************************************)

At(r, op, step) == txn[r].op = op /\ txn[r].step = step

Begin(r, req) == txn[r] = Idle /\ txn' = [txn EXCEPT ![r] = req]
Advance(r, fields) == txn' = [txn EXCEPT ![r] = fields]
Finish(r) == txn' = [txn EXCEPT ![r] = Idle]

\* get_db()'s commit: what was decided on a stale row is now history.
Commit(r) == Finish(r) /\ lostUpdate' = (lostUpdate \/ txn[r].stale)

\* get_db()'s rollback: an exception, a lost connection, a killed worker.
Abort(r) ==
    /\ txn[r] # Idle
    /\ Finish(r)
    /\ UNCHANGED <<slotState, status, visit, now, lostUpdate>>

\* Nothing stops two slots of one property from starting at the same time.
CreateSlot(s) ==
    /\ slotState[s] = "absent"
    /\ slotState' = [slotState EXCEPT ![s] = "open"]
    /\ UNCHANGED <<status, visit, txn, now, lostUpdate>>

(***************************************************************************)
(* create_booking                                                          *)
(***************************************************************************)

PendingOf(u) ==
    {b \in BookingIds : BookingRenter[b] = u /\ status[b] = "PENDING"}

\* Off by one in the limit.
WithinLimitOrEqual(u) == Cardinality(PendingOf(u)) <= MaxPending

\* The count takes no lock: other requests of the renter may pass it too.
WithinLimit(u) == Cardinality(PendingOf(u)) < MaxPending

\* The new booking's uuid4 key is nobody else's.
Fresh(b) ==
    /\ status[b] = "absent"
    /\ \A r \in Requests : txn[r].booking # b

StartCreate(r, b, s) ==
    /\ slotState[s] # "absent"
    /\ Fresh(b)
    /\ WithinLimit(BookingRenter[b])
    /\ Begin(r, [Idle EXCEPT !.op = "create", !.step = "checked",
                             !.booking = b, !.slot = s])
    /\ UNCHANGED <<slotState, status, visit, now, lostUpdate>>

\* is_available without its is_booked half.
StillInFuture(s) == slotState[s] # "deleted" /\ SlotStart[s] > now

\* The row still exists, is not booked and has not started (is_available).
Available(s) == slotState[s] = "open" /\ SlotStart[s] > now

LockSlot(r) ==
    LET s == txn[r].slot IN
    /\ At(r, "create", "checked")
    /\ SlotFree(s)
    /\ IF Available(s)
       THEN Advance(r, [txn[r] EXCEPT !.step = "locked", !.locks = {s}])
       ELSE Finish(r)
    /\ UNCHANGED <<slotState, status, visit, now, lostUpdate>>

\* A booking that forgets to copy the slot's property and time.
NothingCopied(r) == NoSlot

CopiedFrom(r) == txn[r].slot

CommitCreate(r) ==
    LET b == txn[r].booking
        s == txn[r].slot IN
    /\ At(r, "create", "locked")
    /\ status' = [status EXCEPT ![b] = "PENDING"]
    /\ visit' = [visit EXCEPT ![b] = CopiedFrom(r)]
    /\ slotState' = [slotState EXCEPT ![s] = "booked"]
    /\ Commit(r)
    /\ UNCHANGED now

(***************************************************************************)
(* confirm, reject, cancel                                                 *)
(***************************************************************************)

\* A booking that was rejected, and has freed its slot, can still be cancelled.
FromRejectedToo(op) ==
    IF op = "cancel" THEN {"PENDING", "CONFIRMED", "REJECTED"} ELSE {"PENDING"}

\* The statuses from which a handler accepts the transition.
From(op) == IF op = "cancel" THEN {"PENDING", "CONFIRMED"} ELSE {"PENDING"}

To(op) == CASE op = "confirm" -> "CONFIRMED"
            [] op = "reject"  -> "REJECTED"
            [] op = "cancel"  -> "CANCELLED"

\* The booking is read without a lock and its status compared in Python.
StartTransition(r, op, b) ==
    /\ status[b] \in From(op)
    /\ Begin(r, [Idle EXCEPT !.op = op, !.step = "checked", !.booking = b])
    /\ UNCHANGED <<slotState, status, visit, now, lostUpdate>>

\* UPDATE bookings SET status = .. WHERE id = ..: no version, no status test.
UpdateStatus(r) ==
    LET b == txn[r].booking IN
    /\ txn[r].op \in Transitions /\ txn[r].step = "checked"
    /\ BookingFree(b)
    /\ Advance(r, [txn[r] EXCEPT !.step = "updated",
                                 !.stale = status[b] \notin From(txn[r].op)])
    /\ UNCHANGED <<slotState, status, visit, now, lostUpdate>>

CommitConfirm(r) ==
    /\ At(r, "confirm", "updated")
    /\ status' = [status EXCEPT ![txn[r].booking] = "CONFIRMED"]
    /\ Commit(r)
    /\ UNCHANGED <<slotState, visit, now>>

\* The slot's time is not compared.
SameProperty(s, b) == SlotProperty[s] = SlotProperty[visit[b]]

\* _free_slot_for_booking matches property_id and slot_start, never the id.
Matches(s, b) ==
    /\ SlotProperty[s] = SlotProperty[visit[b]]
    /\ SlotStart[s] = SlotStart[visit[b]]

Booked(S) == {s \in S : slotState[s] = "booked"}

BookedMatches(b) == Booked({s \in SlotIds : Matches(s, b)})

\* The SELECT's snapshot: the rows it will try to lock.
MatchSlots(r) ==
    /\ txn[r].op \in Ending /\ txn[r].step = "updated"
    /\ Advance(r, [txn[r] EXCEPT !.step = "matched",
                                 !.found = BookedMatches(txn[r].booking)])
    /\ UNCHANGED <<slotState, status, visit, now, lostUpdate>>

\* MultipleResultsFound is caught and the query made again: the twins are still
\* there, and the request never gets past it.
CaughtAndRetried(S) == FALSE

\* scalar_one_or_none() raises MultipleResultsFound.
Raises(S) == Cardinality(S) > 1

\* FOR UPDATE locks what the SELECT matched row by row, in no order that the
\* query asks for, and keeps the rows it has while it waits for the others.
LockRow(r) ==
    /\ txn[r].op \in Ending /\ txn[r].step = "matched"
    /\ \E s \in txn[r].found \ txn[r].locks :
          /\ SlotFree(s)
          /\ Advance(r, [txn[r] EXCEPT !.locks = @ \cup {s}])
    /\ UNCHANGED <<slotState, status, visit, now, lostUpdate>>

\* Every matched row is locked, and is_booked was tested again.  More than one
\* left: the exception rolls the transaction back.  None: nothing to free.
OneOrNone(r) ==
    LET still == Booked(txn[r].found) IN
    /\ txn[r].op \in Ending /\ txn[r].step = "matched"
    /\ txn[r].found \subseteq txn[r].locks
    /\ \/ Raises(still) /\ Finish(r)
       \/ /\ still = {}
          /\ Advance(r, [txn[r] EXCEPT !.step = "locked", !.found = {}])
       \/ \E s \in still :
             /\ still = {s}
             /\ Advance(r, [txn[r] EXCEPT !.step = "locked", !.found = {},
                                          !.slot = s])
    /\ UNCHANGED <<slotState, status, visit, now, lostUpdate>>

\* The slot is never handed back.
KeepBooked(r) == slotState

Freed(r) == [s \in SlotIds |-> IF s = txn[r].slot THEN "open" ELSE slotState[s]]

CommitEnd(r) ==
    /\ txn[r].op \in Ending /\ txn[r].step = "locked"
    /\ status' = [status EXCEPT ![txn[r].booking] = To(txn[r].op)]
    /\ slotState' = Freed(r)
    /\ Commit(r)
    /\ UNCHANGED <<visit, now>>

(***************************************************************************)
(* delete_slot: is_booked is read without a lock, the DELETE is by id.     *)
(***************************************************************************)

StartDelete(r, s) ==
    /\ slotState[s] = "open"
    /\ Begin(r, [Idle EXCEPT !.op = "delete", !.step = "checked", !.slot = s])
    /\ UNCHANGED <<slotState, status, visit, now, lostUpdate>>

DeleteRow(r) ==
    LET s == txn[r].slot IN
    /\ At(r, "delete", "checked")
    /\ SlotFree(s)
    /\ Advance(r, [txn[r] EXCEPT !.step = "locked", !.locks = {s},
                                 !.stale = slotState[s] = "booked"])
    /\ UNCHANGED <<slotState, status, visit, now, lostUpdate>>

CommitDelete(r) ==
    /\ At(r, "delete", "locked")
    /\ slotState' = [slotState EXCEPT ![txn[r].slot] = "deleted"]
    /\ Commit(r)
    /\ UNCHANGED <<status, visit, now>>

(***************************************************************************)
(* The system.                                                             *)
(***************************************************************************)

Tick ==
    /\ now < MaxTime
    /\ now' = now + 1
    /\ UNCHANGED <<slotState, status, visit, txn, lostUpdate>>

\* What a handler does once it has begun: the server's and the database's
\* part, as opposed to the clients', who need not send another request.
Proceed(r) ==
    \/ LockSlot(r)
    \/ CommitCreate(r)
    \/ UpdateStatus(r)
    \/ CommitConfirm(r)
    \/ MatchSlots(r)
    \/ LockRow(r)
    \/ OneOrNone(r)
    \/ CommitEnd(r)
    \/ DeleteRow(r)
    \/ CommitDelete(r)

\* r waits for a row that q has locked.
Awaits(r, q) ==
    /\ q # r
    /\ \/ /\ txn[r].op \in {"create", "delete"} /\ txn[r].step = "checked"
          /\ HoldsSlot(q, txn[r].slot)
       \/ /\ txn[r].op \in Transitions /\ txn[r].step = "checked"
          /\ HoldsBooking(q, txn[r].booking)
       \/ /\ txn[r].op \in Ending /\ txn[r].step = "matched"
          /\ \E s \in txn[r].found \ txn[r].locks : HoldsSlot(q, s)

WaitCircle(S) == S # {} /\ \A r \in S : \E q \in S : Awaits(r, q)

\* PostgreSQL's deadlock detector rolls one of the waiters back.
BreakDeadlock(r) ==
    /\ \E S \in SUBSET Requests : r \in S /\ WaitCircle(S)
    /\ Abort(r)

Next ==
    \/ Tick
    \/ \E s \in SlotIds : CreateSlot(s)
    \/ \E r \in Requests :
          \/ \E b \in BookingIds, s \in SlotIds : StartCreate(r, b, s)
          \/ \E op \in Transitions, b \in BookingIds : StartTransition(r, op, b)
          \/ \E s \in SlotIds : StartDelete(r, s)
          \/ Proceed(r)
          \/ Abort(r)

Spec == Init /\ [][Next]_vars

\* The event loop runs every handler that is not waiting for a row lock, and
\* PostgreSQL queues the waiters of a row lock: a request that can have the
\* lock again and again gets it, so the fairness is strong.  A circle of waiters
\* is found and broken.
FairSpec ==
    /\ Spec
    /\ \A r \in Requests : SF_vars(Proceed(r))
    /\ WF_vars(\E r \in Requests : BreakDeadlock(r))

-----------------------------------------------------------------------------
(***************************************************************************)
(* Properties.                                                             *)
(***************************************************************************)

\* "No-double-booking rule" (service.py:6): no slot has two live bookings.
NoDoubleBooking ==
    \A b, c \in BookingIds : Live(b) /\ Live(c) /\ visit[b] = visit[c] => b = c

\* "A slot can never end up locked without a matching booking, or vice versa"
\* (service.py:16-17): every live booking has a booked slot of its own, and
\* every booked slot is some live booking's.
TablesAgree ==
    /\ NoDoubleBooking
    /\ \A b \in BookingIds : Live(b) => slotState[visit[b]] = "booked"
    /\ \A s \in SlotIds :
          slotState[s] = "booked" => \E b \in BookingIds : Live(b) /\ visit[b] = s

\* The two tables stay in step however renters, agents and rollbacks
\* interleave, until some transaction commits a status change or a delete that
\* the row it overwrote would no longer have been allowed: create_booking's
\* lock and the free-by-match of reject and cancel are never the cause.
TablesAgreeUnlessLostUpdate == ~lostUpdate => TablesAgree

\* A booking appears only in the step that turns its slot from open to booked,
\* and a slot becomes booked only together with a new booking of it, lost
\* updates or not: the FOR UPDATE of create_booking does what it is there for.
TakesOpenSlot ==
    /\ \A b \in BookingIds :
          status[b] = "absent" /\ status'[b] # "absent" =>
             /\ slotState[visit'[b]] = "open"
             /\ slotState'[visit'[b]] = "booked"
    /\ \A s \in SlotIds :
          slotState[s] # "booked" /\ slotState'[s] = "booked" =>
             \E b \in BookingIds : /\ status[b] = "absent"
                                   /\ status'[b] = "PENDING"
                                   /\ visit'[b] = s

\* Every step of the system is such a step.
BookingTakesOpenSlot == [][TakesOpenSlot]_vars

\* The bookings a renter has pending or is having created.
PendingOrCreating(u) ==
    PendingOf(u) \cup {b \in BookingIds :
        BookingRenter[b] = u /\ \E r \in Requests : txn[r].op = "create"
                                                 /\ txn[r].booking = b}

\* The pending limit is counted without a lock, so a renter can exceed it, but
\* by no more than the requests that run together with the one that reaches it.
PendingOvershootBounded ==
    \A u \in Renters : Cardinality(PendingOrCreating(u)) + 1
                          <= MaxPending + Cardinality(Requests)

\* The tables as users see them, with no requests in flight.
Calendar == INSTANCE BookingCalendar
    WITH slotState <- slotState, status <- status, visit <- visit,
         upset <- lostUpdate

\* All that requests do to the tables, however their statements interleave and
\* whatever rolls back, is what the calendar does in single steps; and a commit
\* that breaks its rules is marked as a lost update and overwrites one booking
\* and one slot that starts where and when the booking's slot does.
ImplementsCalendar == Calendar!Spec

\* A reject or cancel that has locked a slot and waits for its twin: a slot of
\* the same property at the same time.
Torn(r) ==
    /\ txn[r].op \in Ending /\ txn[r].step = "matched"
    /\ \E s \in txn[r].locks, t \in txn[r].found \ txn[r].locks :
          SlotProperty[s] = SlotProperty[t] /\ SlotStart[s] = SlotStart[t]

\* Requests wait for each other in a circle only if two of them are such: where
\* the slots of a property start at different times there is no deadlock,
\* however many requests there are.
DeadlockTakesTwins ==
    \A S \in SUBSET Requests :
        WaitCircle(S) => \E q, r \in S : q # r /\ Torn(q) /\ Torn(r)

\* Whatever locks it waits for, a request ends: every path out of the handlers
\* commits or rolls back, and those that wait in a circle are not left there.
EveryRequestEnds == \A r \in Requests : (txn[r] # Idle) ~> (txn[r] = Idle)

\* A cancel that passed the state check gets through the freeing of its slot
\* ("renter cancels a confirmed booking -> slot freed", service.py:25-27).
CancelGetsThrough ==
    \A r \in Requests : At(r, "cancel", "matched") => ~Raises(Booked(txn[r].found))
=============================================================================
